----------------------------- MODULE Ipc_proofs -----------------------------
(***************************************************************************)
(* lib/ipc.c over the two system calls wakes exactly the environments that *)
(* wait, and implements the rendezvous, for any number of environments and *)
(* messages.                                                               *)
(***************************************************************************)
EXTENDS Ipc, TLAPS

Ids == (Envs \X (0..MaxGen)) \cup {None}
Words == Values \cup {None, "E_INVAL"}
Pcs == {"idle", "try", "yield", "panic", "recv", "blocked", "from", "perm", "value", "done"}

IpcFields == [recving : BOOLEAN, dstva : {"none", "page", "unaligned"},
              from : Ids, value : Words, perm : {0, PagePerm}]
Arguments == [to : Ids, value : Words, pg : {"none", "good", "bad", "page", "unaligned"}]
Results == [from : Ids, value : Words, perm : {0, PagePerm}]

Types ==
    /\ gen \in [Envs -> 0..MaxGen]
    /\ ipc \in [Envs -> IpcFields]
    /\ page \in [Envs -> Ids]
    /\ pc \in [Envs -> Pcs]
    /\ args \in [Envs -> Arguments]
    /\ got \in [Envs -> Results]

\* What the library relies on: a sender names an environment, and a receiver
\* sleeps with an address that sys_ipc_recv has accepted.
CallsOK ==
    \A e \in Envs :
        /\ pc[e] \in {"try", "yield"} => args[e].to \in Envs \X (0..MaxGen)
        /\ pc[e] = "recv" => args[e].pg \in {"none", "page", "unaligned"}
        /\ pc[e] = "blocked" => ipc[e].dstva # "unaligned"

IInv == Types /\ AsleepIffReceiving /\ CallsOK

\* The boot state: nobody waits and nobody sends.
LEMMA InitIInv == Init => IInv
BY IpcAssumption DEF Init, IInv, Types, AsleepIffReceiving, CallsOK, NoIpc, NoArgs, NoMsg, Ids,
     Words, Pcs, IpcFields, Arguments, Results, None, PagePerm

-----------------------------------------------------------------------------
(* Writing one field of a record.                                           *)

\* envs[e].env_ipc_recving = v
LEMMA SetRecving ==
    ASSUME NEW r \in IpcFields, NEW v
    PROVE  [r EXCEPT !.recving = v] = [recving |-> v, dstva |-> r.dstva, from |-> r.from, value |-> r.value, perm |-> r.perm]
<1> DEFINE old == [recving |-> r.recving, dstva |-> r.dstva, from |-> r.from, value |-> r.value, perm |-> r.perm]
<1>1. r = old
  BY DEF IpcFields
<1>2. [old EXCEPT !.recving = v] = [recving |-> v, dstva |-> r.dstva, from |-> r.from, value |-> r.value, perm |-> r.perm]
  OBVIOUS
<1> HIDE DEF old
<1> QED BY <1>1, <1>2, Zenon

\* envs[e].env_ipc_dstva = v
LEMMA SetDstva ==
    ASSUME NEW r \in IpcFields, NEW v
    PROVE  [r EXCEPT !.dstva = v] = [recving |-> r.recving, dstva |-> v, from |-> r.from, value |-> r.value, perm |-> r.perm]
<1> DEFINE old == [recving |-> r.recving, dstva |-> r.dstva, from |-> r.from, value |-> r.value, perm |-> r.perm]
<1>1. r = old
  BY DEF IpcFields
<1>2. [old EXCEPT !.dstva = v] = [recving |-> r.recving, dstva |-> v, from |-> r.from, value |-> r.value, perm |-> r.perm]
  OBVIOUS
<1> HIDE DEF old
<1> QED BY <1>1, <1>2, Zenon

\* envs[e].env_ipc_perm = v
LEMMA SetPerm ==
    ASSUME NEW r \in IpcFields, NEW v
    PROVE  [r EXCEPT !.perm = v] = [recving |-> r.recving, dstva |-> r.dstva, from |-> r.from, value |-> r.value, perm |-> v]
<1> DEFINE old == [recving |-> r.recving, dstva |-> r.dstva, from |-> r.from, value |-> r.value, perm |-> r.perm]
<1>1. r = old
  BY DEF IpcFields
<1>2. [old EXCEPT !.perm = v] = [recving |-> r.recving, dstva |-> r.dstva, from |-> r.from, value |-> r.value, perm |-> v]
  OBVIOUS
<1> HIDE DEF old
<1> QED BY <1>1, <1>2, Zenon

\* The stores of ipc_recv, and an argument of a call.
LEMMA SetResult ==
    ASSUME NEW r \in Results, NEW v
    PROVE  /\ [r EXCEPT !.from = v] = [from |-> v, value |-> r.value, perm |-> r.perm]
           /\ [r EXCEPT !.value = v] = [from |-> r.from, value |-> v, perm |-> r.perm]
           /\ [r EXCEPT !.perm = v] = [from |-> r.from, value |-> r.value, perm |-> v]
BY DEF Results

\* The pg argument of a call.
LEMMA SetPg ==
    ASSUME NEW r \in Arguments, NEW v
    PROVE  [r EXCEPT !.pg = v] = [to |-> r.to, value |-> r.value, pg |-> v]
BY DEF Arguments

-----------------------------------------------------------------------------
(* Each step keeps IInv.                                                    *)

\* Steps that write no field of a record other than as a whole.
LEMMA PlainSteps ==
    ASSUME IInv, NEW e \in Envs,
           \/ NotRecv(e) \/ Yield(e) \/ SendBadEnv(e) \/ RecvInval(e) \/ Return(e)
    PROVE  IInv'
<1> USE DEF IInv, AsleepIffReceiving, CallsOK
<1>1. Types'
  <2>1. /\ NoArgs \in Arguments /\ NoMsg \in Results
        /\ [from |-> None, value |-> "E_INVAL", perm |-> 0] \in Results
    BY DEF Arguments, Results, NoArgs, NoMsg, Ids, Words
  <2> QED BY <2>1 DEF Types, Pcs, NotRecv, Yield, SendBadEnv, RecvInval, Return
<1>2. AsleepIffReceiving'
  BY DEF Types, NotRecv, Yield, SendBadEnv, RecvInval, Return
<1>3. CallsOK'
  BY DEF Types, NoArgs, NotRecv, Yield, SendBadEnv, RecvInval, Return
<1> QED BY <1>1, <1>2, <1>3

\* The loads of ipc_recv.
LEMMA Loads ==
    ASSUME IInv, NEW e \in Envs, ReadFrom(e) \/ ReadPerm(e) \/ ReadValue(e)
    PROVE  IInv'
<1> USE DEF IInv, AsleepIffReceiving, CallsOK
<1>1. got[e] \in Results /\ ipc[e] \in IpcFields
  BY DEF Types
<1>2. \E r \in Results : got' = [got EXCEPT ![e] = r]
  <2>1. CASE ReadFrom(e)
    <3>1. [got[e] EXCEPT !.from = ipc[e].from] \in Results
      BY <1>1, SetResult DEF Results, IpcFields
    <3> QED BY <2>1, <3>1 DEF ReadFrom
  <2>2. CASE ReadPerm(e)
    <3>1. [got[e] EXCEPT !.perm = ipc[e].perm] \in Results
      BY <1>1, SetResult DEF Results, IpcFields
    <3> QED BY <2>2, <3>1 DEF ReadPerm
  <2>3. CASE ReadValue(e)
    <3>1. [got[e] EXCEPT !.value = ipc[e].value] \in Results
      BY <1>1, SetResult DEF Results, IpcFields
    <3> QED BY <2>3, <3>1 DEF ReadValue
  <2> QED BY <2>1, <2>2, <2>3
<1>3. Types'
  BY <1>2 DEF Types, Pcs, ReadFrom, ReadPerm, ReadValue
<1>4. AsleepIffReceiving' /\ CallsOK'
  BY DEF Types, ReadFrom, ReadPerm, ReadValue
<1> QED BY <1>3, <1>4

\* sys_ipc_try_send that refuses the page: only env_ipc_perm of the target.
LEMMA PageRefusedStep ==
    ASSUME IInv, NEW e \in Envs, PageRefused(e) PROVE IInv'
<1> USE DEF IInv, AsleepIffReceiving, CallsOK
<1> DEFINE r == args[e].to[1]
<1>1. r \in Envs /\ ipc[r] \in IpcFields
  BY DEF PageRefused, Types
<1> DEFINE new == [recving |-> ipc[r].recving, dstva |-> ipc[r].dstva,
                   from |-> ipc[r].from, value |-> ipc[r].value, perm |-> 0]
<1>2. ipc' = [ipc EXCEPT ![r] = new]
  <2>1. [ipc[r] EXCEPT !.perm = 0] = new
    BY <1>1, SetPerm
  <2>2. ipc' = [ipc EXCEPT ![r] = [ipc[r] EXCEPT !.perm = 0]]
    BY DEF PageRefused
  <2> HIDE DEF new, r
  <2> QED BY <2>1, <2>2, Zenon
<1> HIDE DEF r
<1>3. pc' = [pc EXCEPT ![e] = "panic"] /\ args' = [args EXCEPT ![e] = NoArgs]
      /\ UNCHANGED <<gen, page, got>>
  BY DEF PageRefused
<1>4. Types'
  BY <1>1, <1>2, <1>3 DEF Types, Pcs, IpcFields, Arguments, NoArgs, None, Ids, Words
<1>5. AsleepIffReceiving' /\ CallsOK'
  <2>1. pc[e] = "try"
    BY DEF PageRefused
  <2> QED BY <1>1, <1>2, <1>3, <2>1 DEF Types, IpcFields
<1> QED BY <1>4, <1>5

\* sys_ipc_try_send that succeeds: the receiver was asleep, so it is not
\* the sender, and it wakes with its flag cleared.
LEMMA TrySendStep ==
    ASSUME IInv, NEW e \in Envs, TrySend(e) PROVE IInv'
<1> USE DEF IInv, AsleepIffReceiving, CallsOK
<1> DEFINE r == args[e].to[1]
<1>1. r \in Envs /\ ipc[r] \in IpcFields /\ Id(e) \in Ids /\ args[e] \in Arguments
  BY DEF TrySend, Types, Ids, Id
<1>2. pc[e] = "try" /\ pc[r] = "blocked"
  BY <1>1 DEF TrySend
<1>3. ipc' = [ipc EXCEPT ![r] = [recving |-> FALSE, dstva |-> ipc[r].dstva, from |-> Id(e),
                                 value |-> args[e].value, perm |-> PermOf(e, r)]]
  BY DEF TrySend, Deliver
<1>4. PermOf(e, r) \in {0, PagePerm}
  BY DEF PermOf
<1>5. /\ pc' = [pc EXCEPT ![e] = "idle", ![r] = "from"] /\ args' = [args EXCEPT ![e] = NoArgs]
      /\ UNCHANGED <<gen, got>>
  BY DEF TrySend
<1>6. page' \in [Envs -> Ids]
  BY <1>1 DEF TrySend, Types
<1> HIDE DEF r
<1>7. Types'
  BY <1>1, <1>3, <1>4, <1>5, <1>6 DEF Types, Pcs, IpcFields, Arguments, NoArgs, None, Ids, Words
<1>8. AsleepIffReceiving' /\ CallsOK'
  BY <1>1, <1>2, <1>3, <1>5 DEF Types, IpcFields
<1> QED BY <1>7, <1>8

\* sys_ipc_recv stores the address and sets the flag, and nothing else.
LEMMA SysIpcRecvFields ==
    ASSUME IInv, NEW e \in Envs, SysIpcRecv(e)
    PROVE  /\ pc[e] = "recv" /\ pc'[e] = "blocked"
           /\ ipc' = [ipc EXCEPT ![e] = [recving |-> TRUE, dstva |-> args[e].pg,
                          from |-> ipc[e].from, value |-> ipc[e].value, perm |-> ipc[e].perm]]
<1> USE DEF IInv, CallsOK
<1>1. ipc[e] \in IpcFields /\ args[e].pg \in {"none", "page"}
  BY DEF SysIpcRecv, Types
<1> DEFINE new == [recving |-> TRUE, dstva |-> args[e].pg, from |-> ipc[e].from,
                   value |-> ipc[e].value, perm |-> ipc[e].perm]
<1>2. ipc' = [ipc EXCEPT ![e] = new]
  <2> DEFINE mid == [recving |-> ipc[e].recving, dstva |-> args[e].pg, from |-> ipc[e].from,
                     value |-> ipc[e].value, perm |-> ipc[e].perm]
  <2>1. mid \in IpcFields
    BY <1>1 DEF IpcFields
  <2>2. [ipc[e] EXCEPT !.dstva = args[e].pg] = mid
    BY <1>1, SetDstva
  <2>3. [mid EXCEPT !.recving = TRUE] = new
    BY <2>1, SetRecving
  <2>4. ipc' = [[ipc EXCEPT ![e] = [ipc[e] EXCEPT !.dstva = args[e].pg]] EXCEPT ![e].recving = TRUE]
    BY DEF SysIpcRecv
  <2> HIDE DEF mid, new
  <2>5. ipc' = [[ipc EXCEPT ![e] = mid] EXCEPT ![e].recving = TRUE]
    BY <2>2, <2>4, Zenon
  <2>6. [ipc EXCEPT ![e] = mid][e] = mid
    BY DEF Types
  <2>7. ipc' = [[ipc EXCEPT ![e] = mid] EXCEPT ![e] = new]
    BY <2>3, <2>5, <2>6, Zenon
  <2> QED BY <2>7 DEF Types
<1> QED BY <1>2 DEF SysIpcRecv, Types

\* sys_ipc_recv: the flag is set in the step in which the caller blocks.
LEMMA SysIpcRecvStep ==
    ASSUME IInv, NEW e \in Envs, SysIpcRecv(e) PROVE IInv'
<1> USE DEF IInv, AsleepIffReceiving, CallsOK
<1>1. ipc[e] \in IpcFields /\ args[e].pg \in {"none", "page"}
  BY DEF SysIpcRecv, Types
<1>2. ipc' = [ipc EXCEPT ![e] = [recving |-> TRUE, dstva |-> args[e].pg,
                 from |-> ipc[e].from, value |-> ipc[e].value, perm |-> ipc[e].perm]]
  BY SysIpcRecvFields
<1>3. pc' = [pc EXCEPT ![e] = "blocked"] /\ args' = [args EXCEPT ![e] = NoArgs]
      /\ UNCHANGED <<gen, page, got>>
  BY DEF SysIpcRecv
<1>4. Types'
  BY <1>1, <1>2, <1>3 DEF Types, Pcs, IpcFields, Arguments, NoArgs, None, Ids, Words
<1>5. AsleepIffReceiving' /\ CallsOK'
  BY <1>1, <1>2, <1>3 DEF Types, IpcFields
<1> QED BY <1>4, <1>5

\* A program enters ipc_send or ipc_recv.
LEMMA CallSteps ==
    ASSUME IInv, NEW e \in Envs, CallSend(e) \/ CallRecv(e) PROVE IInv'
<1> USE IpcAssumption DEF IInv, AsleepIffReceiving, CallsOK
<1>1. CASE CallSend(e)
  <2>1. \E a \in Arguments : a.to \in Envs \X (0..MaxGen) /\ args' = [args EXCEPT ![e] = a]
    BY <1>1 DEF CallSend, Messages, Arguments, Ids, Words
  <2>2. pc[e] = "idle" /\ pc' = [pc EXCEPT ![e] = "try"] /\ UNCHANGED <<gen, ipc, page, got>>
    BY <1>1 DEF CallSend
  <2> QED BY <2>1, <2>2 DEF Types, Pcs
<1>2. CASE CallRecv(e)
  <2>1. PICK want \in {"none", "page", "unaligned"} : args' = [args EXCEPT ![e].pg = want]
    BY <1>2 DEF CallRecv
  <2>2. args[e] \in Arguments
    BY DEF Types
  <2> DEFINE new == [to |-> args[e].to, value |-> args[e].value, pg |-> want]
  <2>3. new \in Arguments /\ new.pg = want
    BY <2>2 DEF Arguments
  <2>4. [args[e] EXCEPT !.pg = want] = new
    BY <2>2, SetPg
  <2> HIDE DEF new
  <2>5. args' = [args EXCEPT ![e] = new]
    BY <2>1, <2>4, Zenon
  <2>6. pc[e] = "idle" /\ pc' = [pc EXCEPT ![e] = "recv"] /\ UNCHANGED <<gen, ipc, page, got>>
    BY <1>2 DEF CallRecv
  <2> QED BY <2>3, <2>5, <2>6 DEF Types, Pcs
<1> QED BY <1>1, <1>2

\* env_free and env_alloc on one slot: a new environment never starts with
\* the flag of the old one.
LEMMA ReplaceStep ==
    ASSUME IInv, NEW e \in Envs, Replace(e) PROVE IInv'
<1> USE IpcAssumption DEF IInv, AsleepIffReceiving, CallsOK
<1>1. ipc[e] \in IpcFields
  BY DEF Types
<1> DEFINE new == [recving |-> FALSE, dstva |-> ipc[e].dstva, from |-> ipc[e].from,
                   value |-> ipc[e].value, perm |-> ipc[e].perm]
<1>2. ipc' = [ipc EXCEPT ![e] = new]
  <2>1. [ipc[e] EXCEPT !.recving = FALSE] = new
    BY <1>1, SetRecving
  <2> HIDE DEF new
  <2> QED BY <2>1, Zenon DEF Replace
<1>3. new \in IpcFields /\ new.recving = FALSE
  BY <1>1 DEF IpcFields
<1> HIDE DEF new
<1>4. gen[e] + 1 \in 0..MaxGen
  BY DEF Replace, Types
<1>5. /\ gen' = [gen EXCEPT ![e] = gen[e] + 1] /\ page' = [page EXCEPT ![e] = None]
      /\ pc' = [pc EXCEPT ![e] = "idle"] /\ args' = [args EXCEPT ![e] = NoArgs]
      /\ got' = [got EXCEPT ![e] = NoMsg]
  BY DEF Replace
<1>6. Types'
  <2>1. gen' \in [Envs -> 0..MaxGen]
    BY <1>4, <1>5 DEF Types
  <2>2. NoArgs \in Arguments /\ NoMsg \in Results /\ None \in Ids
    BY DEF Arguments, Results, NoArgs, NoMsg, None, Ids, Words
  <2> QED BY <1>2, <1>3, <1>5, <2>1, <2>2 DEF Types, Pcs
<1>7. AsleepIffReceiving' /\ CallsOK'
  BY <1>2, <1>3, <1>5 DEF Types
<1> QED BY <1>6, <1>7

\* Every step of every environment keeps the invariant.
LEMMA NextIInv == IInv /\ [Next]_vars => IInv'
<1> SUFFICES ASSUME IInv, [Next]_vars PROVE IInv'
  OBVIOUS
<1>1. CASE Next
  BY <1>1, PlainSteps, Loads, PageRefusedStep, TrySendStep, SysIpcRecvStep, CallSteps,
     ReplaceStep DEF Next, Step
<1>2. CASE UNCHANGED vars
  BY <1>2 DEF vars, IInv, Types, AsleepIffReceiving, CallsOK
<1> QED BY <1>1, <1>2

\* The inductive invariant of ipc_send, ipc_recv and their system calls
\* holds in every reachable state.
THEOREM InvariantHolds == Spec => []IInv
BY InitIInv, NextIInv, PTL DEF Spec

\* An environment sleeps in sys_ipc_recv exactly while env_ipc_recving is
\* set: no wake-up is lost and none comes uncalled for, through retries,
\* refused pages and reused slots.
THEOREM SleepersWait == Spec => []WakeupsExact
<1>1. IInv => WakeupsExact
  BY DEF IInv, Types, IpcFields, Arguments, Results, WakeupsExact, TypeOK, Ids, Pcs
<1> QED BY <1>1, InvariantHolds, PTL

-----------------------------------------------------------------------------
(* The rendezvous.                                                          *)

\* The call an environment is in, by the place its library has reached.
OpIs(e) ==
    /\ pc[e] \in {"try", "yield"} =>
          Op(e) = Rdv!Sending(args[e].to, [value |-> args[e].value, pg |-> args[e].pg])
    /\ pc[e] = "recv" => Op(e) = Rdv!Receiving(args[e].pg)
    /\ pc[e] = "blocked" => Op(e) = Rdv!Receiving(ipc[e].dstva)
    /\ pc[e] = "from" => Op(e) = Rdv!Returned(ipc[e].from, ipc[e].value, ipc[e].perm)
    /\ pc[e] = "perm" => Op(e) = Rdv!Returned(got[e].from, ipc[e].value, ipc[e].perm)
    /\ pc[e] = "value" => Op(e) = Rdv!Returned(got[e].from, ipc[e].value, got[e].perm)
    /\ pc[e] = "done" => Op(e) = Rdv!Returned(got[e].from, got[e].value, got[e].perm)
    /\ pc[e] = "panic" => Op(e) = Rdv!Failed
    /\ pc[e] = "idle" => Op(e) = Rdv!Idle

\* Op is what OpIs says, in a state and in the next one.
LEMMA OpByPlace == \A e : OpIs(e)
BY DEF OpIs, Op, Rdv!Sending, Rdv!Receiving, Rdv!Returned, Rdv!Failed, Rdv!Idle

\* The same in the next state.
LEMMA OpByPlaceNext == \A e : OpIs(e)'
BY DEF OpIs, Op, Rdv!Sending, Rdv!Receiving, Rdv!Returned, Rdv!Failed, Rdv!Idle

\* An environment that a step leaves alone stays in its call.
LEMMA OpSame ==
    ASSUME NEW x, pc'[x] = pc[x], args'[x] = args[x], ipc'[x] = ipc[x], got'[x] = got[x]
    PROVE  Op(x)' = Op(x)
BY DEF Op

\* Steps that a program does not notice.
LEMMA HiddenSteps ==
    ASSUME IInv, NEW e \in Envs,
           \/ NotRecv(e) \/ Yield(e) \/ SysIpcRecv(e)
           \/ ReadFrom(e) \/ ReadPerm(e) \/ ReadValue(e)
    PROVE  \A x \in Envs : Op(x)' = Op(x)
<1> USE DEF IInv
<1>1. ASSUME NEW x \in Envs, x # e PROVE Op(x)' = Op(x)
  <2>1. pc'[x] = pc[x] /\ args'[x] = args[x] /\ ipc'[x] = ipc[x] /\ got'[x] = got[x]
    BY <1>1 DEF Types, NotRecv, Yield, SysIpcRecv, ReadFrom, ReadPerm, ReadValue
  <2> QED BY <2>1, OpSame
<1>2. Op(e)' = Op(e)
  <2> USE OpByPlace, OpByPlaceNext
  <2>1. CASE NotRecv(e) \/ Yield(e)
    BY <2>1 DEF Types, NotRecv, Yield, OpIs
  <2>2. CASE SysIpcRecv(e)
    <3>1. pc[e] = "recv" /\ pc'[e] = "blocked" /\ ipc'[e].dstva = args[e].pg
      BY <2>2, SysIpcRecvFields DEF Types
    <3> QED BY <3>1 DEF OpIs
  <2>3. CASE ReadFrom(e) \/ ReadPerm(e) \/ ReadValue(e)
    <3>1. got[e] \in Results
      BY DEF Types
    <3>2. ipc'[e] = ipc[e]
      BY <2>3 DEF ReadFrom, ReadPerm, ReadValue
    <3>3. CASE ReadFrom(e)
      <4>1. pc[e] = "from" /\ pc'[e] = "perm" /\ got'[e] = [got[e] EXCEPT !.from = ipc[e].from]
        BY <3>3 DEF Types, ReadFrom
      <4>2. got'[e].from = ipc[e].from
        BY <3>1, <4>1, SetResult
      <4>3. Op(e) = Rdv!Returned(ipc[e].from, ipc[e].value, ipc[e].perm)
        BY <4>1 DEF OpIs
      <4>4. Op(e)' = Rdv!Returned(got'[e].from, ipc'[e].value, ipc'[e].perm)
        BY <4>1 DEF OpIs
      <4> QED BY <3>2, <4>2, <4>3, <4>4
    <3>4. CASE ReadPerm(e)
      <4>1. pc[e] = "perm" /\ pc'[e] = "value" /\ got'[e] = [got[e] EXCEPT !.perm = ipc[e].perm]
        BY <3>4 DEF Types, ReadPerm
      <4>2. got'[e].perm = ipc[e].perm /\ got'[e].from = got[e].from
        BY <3>1, <4>1, SetResult
      <4>3. Op(e) = Rdv!Returned(got[e].from, ipc[e].value, ipc[e].perm)
        BY <4>1 DEF OpIs
      <4>4. Op(e)' = Rdv!Returned(got'[e].from, ipc'[e].value, got'[e].perm)
        BY <4>1 DEF OpIs
      <4> QED BY <3>2, <4>2, <4>3, <4>4
    <3>5. CASE ReadValue(e)
      <4>1. pc[e] = "value" /\ pc'[e] = "done" /\ got'[e] = [got[e] EXCEPT !.value = ipc[e].value]
        BY <3>5 DEF Types, ReadValue
      <4>2. got'[e].value = ipc[e].value /\ got'[e].from = got[e].from /\ got'[e].perm = got[e].perm
        BY <3>1, <4>1, SetResult
      <4>3. Op(e) = Rdv!Returned(got[e].from, ipc[e].value, got[e].perm)
        BY <4>1 DEF OpIs
      <4>4. Op(e)' = Rdv!Returned(got'[e].from, got'[e].value, got'[e].perm)
        BY <4>1 DEF OpIs
      <4> QED BY <3>2, <4>2, <4>3, <4>4
    <3> QED BY <2>3, <3>3, <3>4, <3>5
  <2> QED BY <2>1, <2>2, <2>3
<1> QED BY <1>1, <1>2

\* Steps in which one call begins or ends: what op[e] is afterwards, every
\* other op[x] as it was.
Becomes(e, o) == [x \in Envs |-> Op(x)]' = [[x \in Envs |-> Op(x)] EXCEPT ![e] = o]

\* How the lemmas below establish it.
LEMMA BecomesIf ==
    ASSUME NEW e \in Envs, NEW o, Op(e)' = o,
           \A x \in Envs \ {e} : Op(x)' = Op(x)
    PROVE  Becomes(e, o)
BY DEF Becomes

\* Entering ipc_send or ipc_recv begins an abstract call.
LEMMA CallsRefine ==
    ASSUME IInv, NEW e \in Envs, CallSend(e) \/ CallRecv(e)
    PROVE  Rdv!Send(e) \/ Rdv!Recv(e)
<1> USE IpcAssumption, OpByPlace, OpByPlaceNext DEF IInv
<1>1. ASSUME NEW x \in Envs \ {e} PROVE Op(x)' = Op(x)
  <2>1. pc'[x] = pc[x] /\ args'[x] = args[x] /\ ipc'[x] = ipc[x] /\ got'[x] = got[x]
    BY DEF Types, CallSend, CallRecv
  <2> QED BY <2>1, OpSame
<1>2. pc[e] = "idle" /\ UNCHANGED <<gen, page>> /\ [x \in Envs |-> Op(x)][e] = Rdv!Idle
  <2>1. pc[e] = "idle" /\ UNCHANGED <<gen, page>>
    BY DEF CallSend, CallRecv
  <2> QED BY <2>1 DEF OpIs
<1>3. CASE CallSend(e)
  <2>1. PICK r \in Receivers \ {e}, g \in 0..MaxGen, m \in Messages :
            /\ g <= gen[r]
            /\ args' = [args EXCEPT ![e] = [to |-> <<r, g>>, value |-> m.value, pg |-> m.pg]]
    BY <1>3 DEF CallSend
  <2>2. pc'[e] = "try" /\ args'[e] = [to |-> <<r, g>>, value |-> m.value, pg |-> m.pg]
    BY <1>3, <2>1 DEF CallSend, Types
  <2>3. m = [value |-> m.value, pg |-> m.pg] /\ m \in Rdv!Messages
    BY DEF Messages, Rdv!Messages
  <2>4. Op(e)' = Rdv!Sending(<<r, g>>, m)
    BY <2>2, <2>3 DEF OpIs
  <2>5. Becomes(e, Rdv!Sending(<<r, g>>, m))
    BY <1>1, <2>4, BecomesIf
  <2> QED BY <1>2, <2>1, <2>3, <2>5 DEF Rdv!Send, Becomes
<1>4. CASE CallRecv(e)
  <2>1. PICK want \in {"none", "page", "unaligned"} : args' = [args EXCEPT ![e].pg = want]
    BY <1>4 DEF CallRecv
  <2>2. args[e] \in Arguments /\ args'[e] = [args[e] EXCEPT !.pg = want] /\ pc'[e] = "recv"
    BY <1>4, <2>1 DEF CallRecv, Types
  <2>3. args'[e].pg = want
    BY <2>2, SetPg
  <2>4. Becomes(e, Rdv!Receiving(want))
    BY <1>1, <2>2, <2>3, BecomesIf DEF OpIs
  <2> QED BY <1>2, <2>1, <2>4 DEF Rdv!Recv, Becomes
<1> QED BY <1>3, <1>4

\* An ipc_send that panics, an ipc_recv that is refused its address, and
\* an ipc_recv that returns.
LEMMA EndsRefine ==
    ASSUME IInv, NEW e \in Envs, SendBadEnv(e) \/ RecvInval(e) \/ Return(e)
    PROVE  Rdv!SendFails(e) \/ Rdv!RecvFails(e) \/ Rdv!Return(e)
<1> USE OpByPlace, OpByPlaceNext DEF IInv
<1> DEFINE op == [x \in Envs |-> Op(x)]
<1>1. ASSUME NEW x \in Envs \ {e} PROVE Op(x)' = Op(x)
  <2>1. pc'[x] = pc[x] /\ args'[x] = args[x] /\ ipc'[x] = ipc[x] /\ got'[x] = got[x]
    BY DEF Types, SendBadEnv, RecvInval, Return
  <2> QED BY <2>1, OpSame
<1>2. UNCHANGED <<gen, page>>
  BY DEF SendBadEnv, RecvInval, Return
<1>3. CASE SendBadEnv(e)
  <2>1. pc[e] = "try" /\ pc'[e] = "panic" /\ args[e].to # Id(args[e].to[1])
    BY <1>3 DEF SendBadEnv, BadEnv, Types
  <2>2. op[e] = Rdv!Sending(args[e].to, [value |-> args[e].value, pg |-> args[e].pg])
    BY <2>1 DEF OpIs
  <2>3. op[e].st = "sending" /\ op[e].to = args[e].to
    BY <2>2 DEF Rdv!Sending
  <2>4. Becomes(e, Rdv!Failed)
    BY <1>1, <2>1, BecomesIf DEF OpIs
  <2> QED BY <1>2, <2>1, <2>3, <2>4 DEF Rdv!SendFails, Rdv!Id, Id, Becomes
<1>4. CASE RecvInval(e)
  <2>1. /\ pc[e] = "recv" /\ pc'[e] = "done" /\ args[e].pg = "unaligned"
        /\ got'[e] = [from |-> None, value |-> "E_INVAL", perm |-> 0]
    BY <1>4 DEF RecvInval, Types
  <2>2. op[e] = Rdv!Receiving("unaligned")
    BY <2>1 DEF OpIs
  <2>3. Op(e)' = Rdv!Returned(None, "E_INVAL", 0)
    <3>1. Op(e)' = Rdv!Returned(got'[e].from, got'[e].value, got'[e].perm)
      BY <2>1 DEF OpIs
    <3> QED BY <2>1, <3>1
  <2>4. Becomes(e, Rdv!Returned(Rdv!None, "E_INVAL", 0))
    BY <1>1, <2>3, BecomesIf DEF None, Rdv!None
  <2> QED BY <1>2, <2>2, <2>4 DEF Rdv!RecvFails, Becomes
<1>5. CASE Return(e)
  <2>1. pc[e] = "done" /\ pc'[e] = "idle"
    BY <1>5 DEF Return, Types
  <2>2. op[e] = Rdv!Returned(got[e].from, got[e].value, got[e].perm)
    BY <2>1 DEF OpIs
  <2>3. Becomes(e, Rdv!Idle)
    BY <1>1, <2>1, BecomesIf DEF OpIs
  <2> QED BY <1>2, <2>2, <2>3 DEF Rdv!Return, Rdv!Returned, Becomes
<1> QED BY <1>3, <1>4, <1>5

\* A sender that finds its receiver asleep: they are the two sides of an
\* exchange.
LEMMA Meet ==
    ASSUME IInv, NEW e \in Envs, pc[e] = "try", ~BadEnv(e), ipc[args[e].to[1]].recving
    PROVE  LET r == args[e].to[1] IN
           /\ r \in Envs /\ r # e /\ pc[r] = "blocked"
           /\ Rdv!Waits(e, r)
           /\ Rdv!WithPage(e, r) = WantsPage(e, r)
           /\ [x \in Envs |-> Op(x)][e].msg = [value |-> args[e].value, pg |-> args[e].pg]
<1> USE OpByPlace DEF IInv
<1> DEFINE op == [x \in Envs |-> Op(x)]
           r == args[e].to[1]
<1>1. r \in Envs /\ pc[r] = "blocked" /\ r # e /\ ipc[r].dstva # "unaligned"
  BY DEF CallsOK, AsleepIffReceiving
<1>2. op[e] = Rdv!Sending(args[e].to, [value |-> args[e].value, pg |-> args[e].pg])
  BY DEF OpIs
<1>3. op[e].st = "sending" /\ op[e].to = args[e].to
      /\ op[e].msg = [value |-> args[e].value, pg |-> args[e].pg]
  BY <1>2 DEF Rdv!Sending
<1>4. op[r] = Rdv!Receiving(ipc[r].dstva)
  BY <1>1 DEF OpIs
<1>5. op[r].st = "receiving" /\ op[r].want = ipc[r].dstva
  BY <1>4 DEF Rdv!Receiving
<1>6. args[e].to = Rdv!Id(r)
  BY DEF BadEnv, Id, Rdv!Id
<1>7. op[e].msg.pg = args[e].pg
  BY <1>3
<1> HIDE DEF op
<1>8. Rdv!Waits(e, r)
  BY <1>1, <1>3, <1>5, <1>6 DEF Rdv!Waits, op
<1>9. Rdv!WithPage(e, r) = WantsPage(e, r)
  BY <1>5, <1>7 DEF Rdv!WithPage, WantsPage, op
<1> QED BY <1>1, <1>3, <1>8, <1>9 DEF op

\* A page that cannot be transferred: the receiver sleeps on.
LEMMA PageRefusedRefines ==
    ASSUME IInv, NEW e \in Envs, PageRefused(e) PROVE Rdv!SendFails(e)
<1> USE OpByPlace, OpByPlaceNext DEF IInv
<1> DEFINE op == [x \in Envs |-> Op(x)]
<1>r. PICK r : r = args[e].to[1]
  OBVIOUS
<1>1. r \in Envs /\ r # e /\ pc[r] = "blocked" /\ Rdv!Waits(e, r) /\ Rdv!WithPage(e, r)
  BY <1>r, Meet DEF PageRefused
<1>2. pc' = [pc EXCEPT ![e] = "panic"] /\ args' = [args EXCEPT ![e] = NoArgs]
      /\ UNCHANGED <<gen, page, got>>
  BY DEF PageRefused
<1>3. ipc'[r].dstva = ipc[r].dstva /\ \A x \in Envs \ {r} : ipc'[x] = ipc[x]
  <2>1. ipc[r] \in IpcFields
    BY <1>1 DEF Types
  <2>2. ipc'[r] = [ipc[r] EXCEPT !.perm = 0] /\ \A x \in Envs \ {r} : ipc'[x] = ipc[x]
    BY <1>1, <1>r DEF PageRefused, Types
  <2> QED BY <2>1, <2>2, SetPerm
<1>4. ASSUME NEW x \in Envs \ {e} PROVE Op(x)' = Op(x)
  <2>1. CASE x = r
    <3>1. pc[r] = "blocked" /\ pc'[r] = "blocked"
      BY <1>1, <1>2 DEF Types
    <3>2. Op(r) = Rdv!Receiving(ipc[r].dstva) /\ Op(r)' = Rdv!Receiving(ipc'[r].dstva)
      BY <3>1 DEF OpIs
    <3> QED BY <1>3, <2>1, <3>2
  <2>2. CASE x # r
    <3>1. pc'[x] = pc[x] /\ args'[x] = args[x] /\ ipc'[x] = ipc[x] /\ got'[x] = got[x]
      BY <1>2, <1>3, <2>2 DEF Types
    <3> QED BY <3>1, OpSame
  <2> QED BY <2>1, <2>2
<1>5. Becomes(e, Rdv!Failed)
  <2>1. pc'[e] = "panic"
    BY <1>2 DEF Types
  <2> QED BY <1>4, <2>1, BecomesIf DEF OpIs
<1>6. op[e].st = "sending"
  BY <1>1 DEF Rdv!Waits
<1> QED BY <1>1, <1>2, <1>5, <1>6 DEF Rdv!SendFails, Becomes

\* sys_ipc_try_send that succeeds is the exchange of the message.
LEMMA TrySendRefines ==
    ASSUME IInv, NEW e \in Envs, TrySend(e) PROVE \E r \in Envs : Rdv!Exchange(e, r)
<1> USE OpByPlace, OpByPlaceNext DEF IInv
<1> DEFINE op == [x \in Envs |-> Op(x)]
<1>r. PICK r : r = args[e].to[1]
  OBVIOUS
<1>1. /\ r \in Envs /\ r # e /\ pc[r] = "blocked" /\ Rdv!Waits(e, r)
      /\ Rdv!WithPage(e, r) = WantsPage(e, r)
      /\ op[e].msg = [value |-> args[e].value, pg |-> args[e].pg]
  BY <1>r, Meet DEF TrySend
<1>2. /\ pc' = [pc EXCEPT ![e] = "idle", ![r] = "from"] /\ args' = [args EXCEPT ![e] = NoArgs]
      /\ ipc' = [ipc EXCEPT ![r] = [recving |-> FALSE, dstva |-> ipc[r].dstva, from |-> Id(e),
                                    value |-> args[e].value, perm |-> PermOf(e, r)]]
      /\ page' = IF WantsPage(e, r) THEN [page EXCEPT ![r] = Id(e)] ELSE page
      /\ WantsPage(e, r) => args[e].pg = "good"
      /\ UNCHANGED <<gen, got>>
  BY <1>r DEF TrySend, Deliver
<1>3. op[e].msg.value = args[e].value /\ op[e].msg.pg = args[e].pg
  BY <1>1
<1> HIDE DEF op
<1>4. pc'[e] = "idle" /\ pc'[r] = "from"
  BY <1>1, <1>2 DEF Types
<1>5. Op(e)' = Rdv!Idle
  BY <1>4 DEF OpIs
<1> DEFINE message == Rdv!Returned(Rdv!Id(e), op[e].msg.value,
                                   IF Rdv!WithPage(e, r) THEN Rdv!PagePerm ELSE 0)
<1>6. Op(r)' = message
  <2>1. Op(r)' = Rdv!Returned(ipc'[r].from, ipc'[r].value, ipc'[r].perm)
    BY <1>4 DEF OpIs
  <2>2. ipc'[r].from = Id(e) /\ ipc'[r].value = args[e].value /\ ipc'[r].perm = PermOf(e, r)
    BY <1>1, <1>2 DEF Types
  <2>3. Rdv!Id(e) = Id(e)
    BY DEF Id, Rdv!Id
  <2>4. (IF Rdv!WithPage(e, r) THEN Rdv!PagePerm ELSE 0) = PermOf(e, r)
    BY <1>1 DEF PermOf, PagePerm, Rdv!PagePerm
  <2> QED BY <1>3, <2>1, <2>2, <2>3, <2>4
<1> HIDE DEF message
<1>7. ASSUME NEW x \in Envs \ {e, r} PROVE Op(x)' = Op(x)
  <2>1. pc'[x] = pc[x] /\ args'[x] = args[x] /\ ipc'[x] = ipc[x] /\ got'[x] = got[x]
    BY <1>1, <1>2 DEF Types
  <2> QED BY <2>1, OpSame
<1>8. op' = [op EXCEPT ![e] = Rdv!Idle, ![r] = message]
  BY <1>1, <1>5, <1>6, <1>7 DEF op
<1>9. page' = IF Rdv!WithPage(e, r) THEN [page EXCEPT ![r] = Rdv!Id(e)] ELSE page
  BY <1>1, <1>2 DEF Id, Rdv!Id
<1> QED BY <1>1, <1>2, <1>3, <1>8, <1>9 DEF Rdv!Exchange, op, message

\* A slot that is given to a new environment.
LEMMA ReplaceRefines ==
    ASSUME IInv, NEW e \in Envs, Replace(e) PROVE Rdv!Replace(e)
<1> USE OpByPlace, OpByPlaceNext DEF IInv
<1>1. ASSUME NEW x \in Envs \ {e} PROVE Op(x)' = Op(x)
  <2>1. pc'[x] = pc[x] /\ args'[x] = args[x] /\ ipc'[x] = ipc[x] /\ got'[x] = got[x]
    BY DEF Types, Replace
  <2> QED BY <2>1, OpSame
<1>2. pc'[e] = "idle"
  BY DEF Replace, Types
<1>3. Becomes(e, Rdv!Idle)
  BY <1>1, <1>2, BecomesIf DEF OpIs
<1> QED BY <1>3 DEF Replace, Rdv!Replace, Becomes, None, Rdv!None

\* At boot every environment is idle.
LEMMA InitRefines == Init => Rdv!Init
<1> SUFFICES ASSUME Init PROVE Rdv!Init
  OBVIOUS
<1>1. \A e \in Envs : Op(e) = Rdv!Idle
  BY OpByPlace DEF Init, OpIs
<1> QED BY <1>1 DEF Init, Rdv!Init, None, Rdv!None

\* Every step is a step of the rendezvous or invisible to it.
LEMMA NextRefines ==
    IInv /\ [Next]_vars => [Rdv!Next]_<<gen, [e \in Envs |-> Op(e)], page>>
<1> DEFINE op == [x \in Envs |-> Op(x)]
<1> SUFFICES ASSUME IInv, [Next]_vars PROVE Rdv!Next \/ UNCHANGED <<gen, op, page>>
  OBVIOUS
<1>1. CASE UNCHANGED vars
  <2>1. \A x \in Envs : Op(x)' = Op(x)
    BY <1>1, OpSame DEF vars
  <2> QED BY <1>1, <2>1 DEF vars
<1>2. ASSUME NEW e \in Envs,
             NotRecv(e) \/ Yield(e) \/ SysIpcRecv(e) \/ ReadFrom(e) \/ ReadPerm(e) \/ ReadValue(e)
      PROVE  UNCHANGED <<gen, op, page>>
  <2>1. \A x \in Envs : Op(x)' = Op(x)
    BY <1>2, HiddenSteps
  <2>2. UNCHANGED <<gen, page>>
    BY <1>2 DEF NotRecv, Yield, SysIpcRecv, ReadFrom, ReadPerm, ReadValue
  <2> QED BY <2>1, <2>2
<1>3. ASSUME NEW e \in Envs,
             \/ PageRefused(e) \/ SendBadEnv(e) \/ TrySend(e) \/ RecvInval(e) \/ Return(e)
             \/ CallSend(e) \/ CallRecv(e) \/ Replace(e)
      PROVE  Rdv!Next
  BY <1>3, CallsRefine, EndsRefine, PageRefusedRefines, TrySendRefines, ReplaceRefines DEF Rdv!Next
<1> QED BY <1>1, <1>2, <1>3 DEF Next, Step

\* lib/ipc.c and the two system calls implement the rendezvous: each
\* ipc_send that returns is one ipc_recv of the environment that it named,
\* whose sender, value, page and permission are those of this one message,
\* however many senders retry, fail or run between the receiver's loads.
THEOREM IpcImplementsRendezvous == Spec => ImplementsRendezvous
BY InitRefines, NextRefines, InvariantHolds, PTL DEF Spec, ImplementsRendezvous, Rdv!Spec
=============================================================================
