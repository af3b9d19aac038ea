------------------------------ MODULE Spinlock ------------------------------
(***************************************************************************)
(* kern/spinlock.c, one memory access per step: the xchg loop, and the     *)
(* owner field and holding() checks of DEBUG_SPINLOCK, which read the lock *)
(* without holding it.  The locked xchg instructions drain the store       *)
(* buffer, and a CPU sees its own pending store to lk->cpu, so sequential  *)
(* consistency loses no behaviour of this code on x86.                     *)
(*                                                                         *)
(* The recorded call stack (pcs, name) is debugging output and left out.   *)
(***************************************************************************)
EXTENDS Naturals

CONSTANTS
    CPUs,
    NULL,
    Misuse    \* whether callers may lock twice, or unlock what they do not hold

ASSUME LockAssumption == NULL \notin CPUs /\ Misuse \in BOOLEAN

VARIABLES
    locked,   \* lk->locked
    cpu,      \* lk->cpu: a CPU, or NULL for 0
    pc,       \* where each CPU is
    held,     \* ghost: this CPU's xchg took the lock and has not given it back
    misused   \* ghost: this CPU called spin_lock or spin_unlock when it must not

vars == <<locked, cpu, pc, held, misused>>

\* out: does not want the lock; lock1, lock2: holding() in spin_lock; spin: the
\* xchg loop; own: about to record lk->cpu; in: the critical section; unlock1,
\* unlock2: holding() in spin_unlock; disown: about to clear lk->cpu; release:
\* about to clear lk->locked; panic: in _panic.
Places == {"out", "lock1", "lock2", "spin", "own", "in",
           "unlock1", "unlock2", "disown", "release", "panic"}

Goto(c, to) == pc' = [pc EXCEPT ![c] = to]

\* __spin_initlock (kernel_lock itself is initialised statically to the same).
Init ==
    /\ locked = 0
    /\ cpu = NULL
    /\ pc = [c \in CPUs |-> "out"]
    /\ held = [c \in CPUs |-> FALSE]
    /\ misused = [c \in CPUs |-> FALSE]

\* A caller enters spin_lock or spin_unlock, as it should ...
CallLock(c) ==
    /\ pc[c] = "out" /\ Goto(c, "lock1")
    /\ UNCHANGED <<locked, cpu, held, misused>>

CallUnlock(c) ==
    /\ pc[c] = "in" /\ Goto(c, "unlock1")
    /\ UNCHANGED <<locked, cpu, held, misused>>

\* ... or by mistake.
CallWrongly(c) ==
    /\ Misuse
    /\ \/ pc[c] = "in" /\ Goto(c, "lock1")
       \/ pc[c] = "out" /\ Goto(c, "unlock1")
    /\ misused' = [misused EXCEPT ![c] = TRUE]
    /\ UNCHANGED <<locked, cpu, held>>

\* holding(): two reads that other CPUs can get between.
HoldingLocked(c, at, yes, no) ==
    /\ pc[c] = at
    /\ Goto(c, IF locked # 0 THEN yes ELSE no)
    /\ UNCHANGED <<locked, cpu, held, misused>>

HoldingOwner(c, at, yes, no) ==
    /\ pc[c] = at
    /\ Goto(c, IF cpu = c THEN yes ELSE no)
    /\ UNCHANGED <<locked, cpu, held, misused>>

\* Mutant: lock and test are two steps, so the xchg always succeeds.
XchgLockBlind(c) ==
    /\ pc[c] = "spin"
    /\ locked' = 1
    /\ held' = [held EXCEPT ![c] = TRUE]
    /\ Goto(c, "own")
    /\ UNCHANGED <<cpu, misused>>

\* while (xchg(&lk->locked, 1) != 0): take the lock, or go round again.
XchgLock(c) ==
    /\ pc[c] = "spin"
    /\ locked' = 1
    /\ IF locked = 0
       THEN Goto(c, "own") /\ held' = [held EXCEPT ![c] = TRUE]
       ELSE UNCHANGED <<pc, held>>
    /\ UNCHANGED <<cpu, misused>>

SetOwner(c) ==
    /\ pc[c] = "own"
    /\ cpu' = c
    /\ Goto(c, "in")
    /\ UNCHANGED <<locked, held, misused>>

\* Mutant: the lock is released with the old owner still recorded.
ClearOwnerForgotten(c) ==
    /\ pc[c] = "disown"
    /\ Goto(c, "release")
    /\ UNCHANGED <<locked, cpu, held, misused>>

ClearOwner(c) ==
    /\ pc[c] = "disown"
    /\ cpu' = NULL
    /\ Goto(c, "release")
    /\ UNCHANGED <<locked, held, misused>>

\* Mutant: the final xchg writes 1.
XchgUnlockStuck(c) ==
    /\ pc[c] = "release"
    /\ held' = [held EXCEPT ![c] = FALSE]
    /\ Goto(c, "out")
    /\ UNCHANGED <<locked, cpu, misused>>

XchgUnlock(c) ==
    /\ pc[c] = "release"
    /\ locked' = 0
    /\ held' = [held EXCEPT ![c] = FALSE]
    /\ Goto(c, "out")
    /\ UNCHANGED <<cpu, misused>>

\* spin_lock and spin_unlock.
SpinLock(c) ==
    \/ HoldingLocked(c, "lock1", "lock2", "spin")
    \/ HoldingOwner(c, "lock2", "panic", "spin")
    \/ XchgLock(c)
    \/ SetOwner(c)

SpinUnlock(c) ==
    \/ HoldingLocked(c, "unlock1", "unlock2", "panic")
    \/ HoldingOwner(c, "unlock2", "disown", "panic")
    \/ ClearOwner(c)
    \/ XchgUnlock(c)

\* while (1) monitor(NULL) in _panic.
Panicked(c) == pc[c] = "panic" /\ UNCHANGED vars

Next ==
    \E c \in CPUs :
        \/ CallLock(c) \/ CallUnlock(c) \/ CallWrongly(c)
        \/ SpinLock(c) \/ SpinUnlock(c) \/ Panicked(c)

Spec == Init /\ [][Next]_vars

\* A CPU inside spin_lock or spin_unlock keeps executing, and a critical
\* section ends (every handler reaches env_run or sched_halt).
FairSpec ==
    /\ Spec
    /\ \A c \in CPUs : WF_vars(SpinLock(c) \/ SpinUnlock(c) \/ CallUnlock(c))

-----------------------------------------------------------------------------
(* Properties.                                                              *)

\* Every field has its type.
TypeOK ==
    /\ locked \in {0, 1}
    /\ cpu \in CPUs \cup {NULL}
    /\ pc \in [CPUs -> Places]
    /\ held \in [CPUs -> BOOLEAN]
    /\ misused \in [CPUs -> BOOLEAN]

\* Two CPUs never have the lock at once, not even one of them on its way in
\* or out: the xchg of spin_lock succeeds only after the xchg of spin_unlock.
MutualExclusion ==
    \A c, d \in CPUs : held[c] /\ held[d] => c = d

\* holding() answers truthfully although it reads the lock unprotected: a
\* CPU that uses the lock properly never panics, and one that locks twice or
\* unlocks another CPU's lock is always stopped before it touches the lock.
MisuseCaught ==
    \A c \in CPUs :
        /\ pc[c] = "panic" => misused[c]
        /\ misused[c] => pc[c] \in {"lock1", "lock2", "unlock1", "unlock2", "panic"}

\* The places where a CPU that uses the lock properly holds it.
Holds == {"own", "in", "unlock1", "unlock2", "disown", "release"}

\* Why the two properties above hold: locked says whether somebody holds the
\* lock, lk->cpu names the holder or nobody, and names it whenever the holder
\* runs code that depends on it.
IInv ==
    /\ TypeOK
    /\ MutualExclusion
    /\ MisuseCaught
    /\ locked = 1 <=> \E c \in CPUs : held[c]
    /\ cpu # NULL => held[cpu]
    /\ \A c \in CPUs :
        /\ ~misused[c] => (held[c] <=> pc[c] \in Holds)
        /\ held[c] => (cpu = c <=> pc[c] \notin {"own", "release"})
        /\ misused[c] => /\ held[c] => pc[c] \in {"lock1", "lock2", "panic"}
                         /\ ~held[c] => pc[c] \in {"unlock1", "unlock2", "panic"}

\* The holder, as the abstract lock sees it.
Holder == IF \E c \in CPUs : held[c] THEN CHOOSE c \in CPUs : held[c] ELSE NULL

Abstract == INSTANCE Mutex WITH holder <- Holder

\* spinlock.c implements the abstract lock the rest of the kernel assumes.
ImplementsMutex == Abstract!Spec

\* A CPU that spins in spin_lock sees some CPU (not necessarily itself: the
\* loop is not fair) get in, unless one has panicked.
SomebodyGetsIn ==
    \A c \in CPUs : pc[c] = "spin" ~> \E d \in CPUs : pc[d] \in {"in", "panic"}
=============================================================================
