--------------------------- MODULE Spinlock_proofs ---------------------------
(***************************************************************************)
(* Mutual exclusion of kern/spinlock.c, the reliability of its holding()   *)
(* checks, and its refinement of Mutex, for any number of CPUs and with    *)
(* callers that may misuse the lock.                                       *)
(***************************************************************************)
EXTENDS Spinlock, TLAPS

\* kernel_lock starts out free.
LEMMA InitIInv == Init => IInv
BY LockAssumption DEF Init, IInv, TypeOK, MutualExclusion, MisuseCaught, Holds, Places

\* The part of IInv that speaks about one CPU.
LocalInv(c) ==
    /\ pc[c] = "panic" => misused[c]
    /\ misused[c] => pc[c] \in {"lock1", "lock2", "unlock1", "unlock2", "panic"}
    /\ ~misused[c] => (held[c] <=> pc[c] \in Holds)
    /\ held[c] => (cpu = c <=> pc[c] \notin {"own", "release"})
    /\ misused[c] => /\ held[c] => pc[c] \in {"lock1", "lock2", "panic"}
                     /\ ~held[c] => pc[c] \in {"unlock1", "unlock2", "panic"}

\* IInv is the global part and LocalInv of every CPU.
LEMMA IInvParts ==
    IInv <=> /\ TypeOK
             /\ MutualExclusion
             /\ locked = 1 <=> \E c \in CPUs : held[c]
             /\ cpu # NULL => held[cpu]
             /\ \A c \in CPUs : LocalInv(c)
BY DEF IInv, MisuseCaught, LocalInv

\* Steps that only move a CPU's pc (and may mark it as misusing the lock).
LEMMA CallKeepsInv ==
    ASSUME IInv, NEW c \in CPUs,
           CallLock(c) \/ CallUnlock(c) \/ CallWrongly(c)
    PROVE  IInv'
<1> USE DEF CallLock, CallUnlock, CallWrongly, Goto
<1>1. TypeOK'
  BY DEF IInv, TypeOK, Places
<1>2. UNCHANGED <<locked, cpu, held>>
  OBVIOUS
<1>3. MutualExclusion' /\ (locked = 1 <=> \E d \in CPUs : held[d])' /\ (cpu # NULL => held[cpu])'
  BY <1>2 DEF IInv, MutualExclusion
<1>4. ASSUME NEW d \in CPUs PROVE LocalInv(d)'
  BY <1>2, IInvParts DEF LocalInv, Holds, IInv, TypeOK
<1> QED BY <1>1, <1>3, <1>4, IInvParts, LockAssumption
     DEF IInv, MisuseCaught, LocalInv

\* holding() gives the right answer, so it only stops a CPU that misused the lock.
LEMMA HoldingKeepsInv ==
    ASSUME IInv, NEW c \in CPUs,
           \/ HoldingLocked(c, "lock1", "lock2", "spin")
           \/ HoldingOwner(c, "lock2", "panic", "spin")
           \/ HoldingLocked(c, "unlock1", "unlock2", "panic")
           \/ HoldingOwner(c, "unlock2", "disown", "panic")
    PROVE  IInv'
<1> USE DEF HoldingLocked, HoldingOwner, Goto
<1>1. TypeOK'
  BY DEF IInv, TypeOK, Places
<1>2. UNCHANGED <<locked, cpu, held, misused>>
  OBVIOUS
<1>3. MutualExclusion' /\ (locked = 1 <=> \E d \in CPUs : held[d])' /\ (cpu # NULL => held[cpu])'
  BY <1>2 DEF IInv, MutualExclusion
<1>4. /\ LocalInv(c)
      /\ cpu = c => held[c]
      /\ held[c] => locked # 0
  BY IInvParts, LockAssumption
<1>5. LocalInv(c)'
  BY <1>2, <1>4 DEF LocalInv, Holds, IInv, TypeOK
<1>6. ASSUME NEW d \in CPUs, d # c PROVE LocalInv(d)'
  <2>1. LocalInv(d) /\ pc'[d] = pc[d]
    BY <1>6, IInvParts DEF IInv, TypeOK
  <2> QED BY <1>2, <2>1 DEF LocalInv
<1> QED BY <1>1, <1>3, <1>5, <1>6 DEF IInv, MisuseCaught, LocalInv

\* The accesses that change the lock.
LEMMA LockWordKeepsInv ==
    ASSUME IInv, NEW c \in CPUs,
           XchgLock(c) \/ SetOwner(c) \/ ClearOwner(c) \/ XchgUnlock(c)
    PROVE  IInv'
<1> USE DEF Goto
<1>1. LocalInv(c) /\ TypeOK /\ MutualExclusion
  BY IInvParts
<1>2. \A d \in CPUs : LocalInv(d)
  BY IInvParts
<1>3. CASE XchgLock(c)
  <2>1. CASE locked # 0
    <3>1. UNCHANGED vars
      BY <1>1, <1>3, <2>1 DEF XchgLock, TypeOK, vars
    <3> QED BY <3>1 DEF vars, IInv, TypeOK, MutualExclusion, MisuseCaught
  <2>2. CASE locked = 0
    <3>1. /\ \A d \in CPUs : ~held[d]
          /\ cpu = NULL
          /\ pc[c] = "spin" /\ pc' = [pc EXCEPT ![c] = "own"]
          /\ locked' = 1 /\ held' = [held EXCEPT ![c] = TRUE]
          /\ cpu' = NULL /\ misused' = misused
      BY <1>1, <1>3, <2>2 DEF XchgLock, IInv, TypeOK
    <3>2. TypeOK' /\ MutualExclusion' /\ (locked = 1 <=> \E d \in CPUs : held[d])'
      BY <1>1, <3>1 DEF TypeOK, MutualExclusion, Places
    <3>3. ASSUME NEW d \in CPUs PROVE LocalInv(d)'
      BY <1>1, <1>2, <3>1, LockAssumption DEF LocalInv, Holds, TypeOK
    <3> QED BY <3>1, <3>2, <3>3 DEF IInv, MisuseCaught, LocalInv
  <2> QED BY <2>1, <2>2
<1>4. CASE SetOwner(c)
  <2>1. /\ pc[c] = "own" /\ held[c] /\ ~misused[c]
        /\ pc' = [pc EXCEPT ![c] = "in"]
        /\ cpu' = c /\ UNCHANGED <<locked, held, misused>>
    BY <1>1, <1>4 DEF SetOwner, LocalInv, Holds, TypeOK
  <2>2. TypeOK' /\ MutualExclusion' /\ (locked = 1 <=> \E d \in CPUs : held[d])'
    BY <1>1, <2>1 DEF IInv, TypeOK, MutualExclusion, Places
  <2>3. \A d \in CPUs \ {c} : ~held[d]
    BY <1>1, <2>1 DEF MutualExclusion
  <2>4. ASSUME NEW d \in CPUs PROVE LocalInv(d)'
    BY <1>1, <1>2, <2>1, <2>3 DEF LocalInv, Holds, TypeOK
  <2> QED BY <2>1, <2>2, <2>4 DEF IInv, MisuseCaught, LocalInv
<1>5. CASE ClearOwner(c)
  <2>1. /\ pc[c] = "disown" /\ held[c] /\ ~misused[c]
        /\ pc' = [pc EXCEPT ![c] = "release"]
        /\ cpu' = NULL /\ UNCHANGED <<locked, held, misused>>
    BY <1>1, <1>5 DEF ClearOwner, LocalInv, Holds, TypeOK
  <2>2. TypeOK' /\ MutualExclusion' /\ (locked = 1 <=> \E d \in CPUs : held[d])'
    BY <1>1, <2>1 DEF IInv, TypeOK, MutualExclusion, Places
  <2>3. \A d \in CPUs \ {c} : ~held[d]
    BY <1>1, <2>1 DEF MutualExclusion
  <2>4. ASSUME NEW d \in CPUs PROVE LocalInv(d)'
    BY <1>1, <1>2, <2>1, <2>3, LockAssumption DEF LocalInv, Holds, TypeOK
  <2> QED BY <2>1, <2>2, <2>4 DEF IInv, MisuseCaught, LocalInv
<1>6. CASE XchgUnlock(c)
  <2>1. /\ pc[c] = "release" /\ held[c] /\ ~misused[c]
        /\ pc' = [pc EXCEPT ![c] = "out"]
        /\ locked' = 0 /\ held' = [held EXCEPT ![c] = FALSE]
        /\ UNCHANGED <<cpu, misused>>
    BY <1>1, <1>6 DEF XchgUnlock, LocalInv, Holds, TypeOK
  <2>2. \A d \in CPUs \ {c} : ~held[d]
    BY <1>1, <2>1 DEF MutualExclusion
  <2>3. cpu = NULL
    BY <1>1, <2>1, <2>2 DEF IInv, LocalInv, TypeOK
  <2>4. TypeOK' /\ MutualExclusion' /\ (locked = 1 <=> \E d \in CPUs : held[d])'
    BY <1>1, <2>1, <2>2 DEF IInv, TypeOK, MutualExclusion, Places
  <2>5. ASSUME NEW d \in CPUs PROVE LocalInv(d)'
    BY <1>1, <1>2, <2>1, <2>2 DEF LocalInv, Holds, TypeOK
  <2> QED BY <2>1, <2>3, <2>4, <2>5 DEF IInv, MisuseCaught, LocalInv
<1> QED BY <1>3, <1>4, <1>5, <1>6

\* Every step keeps the invariant.
LEMMA NextIInv == IInv /\ [Next]_vars => IInv'
<1> SUFFICES ASSUME IInv, [Next]_vars PROVE IInv'
  OBVIOUS
<1>1. CASE UNCHANGED vars
  BY <1>1 DEF vars, IInv, TypeOK, MutualExclusion, MisuseCaught
<1> QED
  BY <1>1, CallKeepsInv, HoldingKeepsInv, LockWordKeepsInv
  DEF Next, SpinLock, SpinUnlock, Panicked

\* The invariant holds in every reachable state.
THEOREM InvariantHolds == Spec => []IInv
BY InitIInv, NextIInv, PTL DEF Spec

\* At most one CPU has the lock.
THEOREM LockIsExclusive == Spec => []MutualExclusion
<1>1. IInv => MutualExclusion
  BY DEF IInv
<1> QED BY <1>1, InvariantHolds, PTL

\* holding() stops exactly the CPUs that misuse the lock.
THEOREM DebugChecksAreExact == Spec => []MisuseCaught
<1>1. IInv => MisuseCaught
  BY DEF IInv
<1> QED BY <1>1, InvariantHolds, PTL

-----------------------------------------------------------------------------
(* Refinement.                                                              *)

\* The CHOOSE in Holder picks the CPU that holds the lock, if there is one.
LEMMA HolderUnique ==
    ASSUME MutualExclusion
    PROVE  /\ \A c \in CPUs : held[c] => Holder = c
           /\ (\A c \in CPUs : ~held[c]) => Holder = NULL
BY DEF MutualExclusion, Holder

\* A step of a CPU that leaves every held[] alone does not move the holder.
LEMMA HolderUnchanged ==
    ASSUME held' = held
    PROVE  Holder' = Holder
BY DEF Holder

\* Every step of the spin lock is a step of the abstract lock or none.
LEMMA StepRefines ==
    ASSUME IInv, IInv', [Next]_vars
    PROVE  [Abstract!Next]_Holder
<1>1. MutualExclusion /\ MutualExclusion' /\ TypeOK
  BY DEF IInv
<1>2. /\ \A c \in CPUs : held[c] => Holder = c
      /\ (\A c \in CPUs : ~held[c]) => Holder = NULL
  BY <1>1, HolderUnique
<1>3. /\ \A c \in CPUs : held'[c] => Holder' = c
      /\ (\A c \in CPUs : ~held'[c]) => Holder' = NULL
  BY <1>1 DEF MutualExclusion, Holder
<1>4. CASE held' = held
  BY <1>4, HolderUnchanged
<1>5. CASE \E c \in CPUs : XchgLock(c) /\ locked = 0
  <2>1. PICK c \in CPUs : XchgLock(c) /\ locked = 0
    BY <1>5
  <2>2. \A d \in CPUs : ~held[d]
    BY <2>1 DEF IInv
  <2>3. held'[c]
    BY <1>1, <2>1 DEF XchgLock, TypeOK
  <2>4. Holder = NULL /\ Holder' = c
    BY <1>2, <1>3, <2>2, <2>3
  <2> QED BY <2>4 DEF Abstract!Next, Abstract!Acquire
<1>6. CASE \E c \in CPUs : XchgUnlock(c)
  <2>1. PICK c \in CPUs : XchgUnlock(c)
    BY <1>6
  <2>2. held[c]
    BY <2>1, IInvParts DEF XchgUnlock, LocalInv, Holds
  <2>3. \A d \in CPUs : ~held'[d]
    BY <1>1, <2>1, <2>2 DEF XchgUnlock, TypeOK, MutualExclusion
  <2>4. Holder = c /\ Holder' = NULL
    BY <1>2, <1>3, <2>2, <2>3
  <2> QED BY <2>4 DEF Abstract!Next, Abstract!Release
<1> QED
  BY <1>4, <1>5, <1>6
  DEF Next, vars, CallLock, CallUnlock, CallWrongly, SpinLock, SpinUnlock, HoldingLocked,
      HoldingOwner, XchgLock, SetOwner, ClearOwner, Panicked

\* spinlock.c implements the lock the rest of the kernel assumes.
THEOREM SpinlockRefinesMutex == Spec => ImplementsMutex
<1>1. Init => Abstract!Init
  BY DEF Init, Holder, Abstract!Init
<1>2. IInv /\ IInv' /\ [Next]_vars => [Abstract!Next]_Holder
  BY StepRefines
<1> QED
  BY <1>1, <1>2, InvariantHolds, PTL DEF Spec, ImplementsMutex, Abstract!Spec
=============================================================================
