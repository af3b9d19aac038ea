-------------------------------- MODULE Ipc ---------------------------------
(***************************************************************************)
(* Messages between environments: the library routines ipc_send and        *)
(* ipc_recv (lib/ipc.c) over the two system calls (kern/syscall.c) and the *)
(* message fields of struct Env.                                           *)
(*                                                                         *)
(* A system call runs under the big kernel lock and is one step.  The      *)
(* library runs in user mode: between its system calls, and between the    *)
(* three loads with which ipc_recv fetches a message from the read-only    *)
(* envs[] array, every other environment may run.  An address is what the  *)
(* calls tell apart: none (at or above UTOP), a page, or not page-aligned; *)
(* the page a sender offers is mapped with the permission it asks for      *)
(* ("good") or is not ("bad").                                             *)
(***************************************************************************)
EXTENDS Naturals

CONSTANTS
    Envs,
    Senders,    \* the environments whose programs call ipc_send
    Receivers,  \* the environments whose programs call ipc_recv
    Mortal,     \* the environments that may be destroyed
    Values,
    MaxGen      \* bound: how often a slot is reused

ASSUME IpcAssumption ==
    /\ Senders \cup Receivers \cup Mortal \subseteq Envs
    /\ MaxGen \in Nat

VARIABLES
    gen,        \* the generation in env_id
    ipc,        \* env_ipc_recving, dstva, value, from and perm
    page,       \* the page mapped at the receiver's dstva: whose it was
    pc,         \* where the library of each environment is
    args,       \* the arguments of the ipc_send or ipc_recv in progress
    got         \* what ipc_recv has stored so far

vars == <<gen, ipc, page, pc, args, got>>

PagePerm == 7           \* PTE_P | PTE_U | PTE_W
None == <<>>
Id(e) == <<e, gen[e]>>
Messages == [value : Values, pg : {"none", "good", "bad"}]
NoArgs == [to |-> None, value |-> None, pg |-> "none"]  \* for ipc_recv pg is `pg' 
NoMsg == [from |-> None, value |-> None, perm |-> 0]
NoIpc == [recving |-> FALSE, dstva |-> "none", from |-> None, value |-> None, perm |-> 0]

Init ==
    /\ gen = [e \in Envs |-> 0]
    /\ ipc = [e \in Envs |-> NoIpc]
    /\ page = [e \in Envs |-> None]
    /\ pc = [e \in Envs |-> "idle"]
    /\ args = [e \in Envs |-> NoArgs]
    /\ got = [e \in Envs |-> NoMsg]

-----------------------------------------------------------------------------
(* lib/ipc.c: ipc_send.                                                     *)

\* A program may still hold the id of an environment that is gone.
CallSend(s) ==
    /\ s \in Senders /\ pc[s] = "idle"
    /\ \E r \in Receivers \ {s}, g \in 0..MaxGen, m \in Messages :
        /\ g <= gen[r]
        /\ args' = [args EXCEPT ![s] = [to |-> <<r, g>>, value |-> m.value, pg |-> m.pg]]
    /\ pc' = [pc EXCEPT ![s] = "try"]
    /\ UNCHANGED <<gen, ipc, page, got>>

\* envid2env without checkperm, on an id the caller holds.
BadEnv(s) == args[s].to # Id(args[s].to[1])

WantsPage(s, r) == args[s].pg # "none" /\ ipc[r].dstva = "page"

\* The while loop calls sys_yield on -E_IPC_NOT_RECV alone.
NotRecv(s) ==
    /\ pc[s] = "try" /\ ~BadEnv(s) /\ ~ipc[args[s].to[1]].recving
    /\ pc' = [pc EXCEPT ![s] = "yield"]
    /\ UNCHANGED <<gen, ipc, page, args, got>>

Yield(s) ==
    /\ pc[s] = "yield"
    /\ pc' = [pc EXCEPT ![s] = "try"]
    /\ UNCHANGED <<gen, ipc, page, args, got>>

\* Any other error is a panic.  sys_ipc_try_send has cleared the target's
\* env_ipc_perm by the time it looks at the page, or finds no memory for it.
PageRefused(s) ==
    LET r == args[s].to[1] IN
    /\ pc[s] = "try" /\ ~BadEnv(s) /\ ipc[r].recving /\ WantsPage(s, r)
    /\ ipc' = [ipc EXCEPT ![r].perm = 0]
    /\ pc' = [pc EXCEPT ![s] = "panic"]
    /\ args' = [args EXCEPT ![s] = NoArgs]
    /\ UNCHANGED <<gen, page, got>>

SendBadEnv(s) ==
    /\ pc[s] = "try" /\ BadEnv(s)
    /\ pc' = [pc EXCEPT ![s] = "panic"]
    /\ args' = [args EXCEPT ![s] = NoArgs]
    /\ UNCHANGED <<gen, ipc, page, got>>

\* Mutant: env_ipc_perm is written only when a page is transferred.
PermOfStale(s, r) == IF WantsPage(s, r) THEN PagePerm ELSE ipc[r].perm

PermOf(s, r) == IF WantsPage(s, r) THEN PagePerm ELSE 0

\* Mutant: env_ipc_recving stays set, and a second sender overwrites the
\* message before it has been read.
DeliverAgain(s, r) ==
    ipc' = [ipc EXCEPT ![r] = [@ EXCEPT !.from = Id(s), !.value = args[s].value, !.perm = PermOf(s, r)]]

Deliver(s, r) ==
    ipc' = [ipc EXCEPT ![r] = [recving |-> FALSE, dstva |-> ipc[r].dstva, from |-> Id(s),
                               value |-> args[s].value, perm |-> PermOf(s, r)]]

\* sys_ipc_try_send succeeds: the receiver becomes RUNNABLE and its
\* sys_ipc_recv returns 0.
TrySend(s) ==
    LET r == args[s].to[1] IN
    /\ pc[s] = "try" /\ ~BadEnv(s) /\ ipc[r].recving
    /\ WantsPage(s, r) => args[s].pg = "good"
    /\ Deliver(s, r)
    /\ page' = IF WantsPage(s, r) THEN [page EXCEPT ![r] = Id(s)] ELSE page
    /\ pc' = [pc EXCEPT ![s] = "idle", ![r] = "from"]
    /\ args' = [args EXCEPT ![s] = NoArgs]
    /\ UNCHANGED <<gen, got>>

-----------------------------------------------------------------------------
(* lib/ipc.c: ipc_recv.                                                     *)

CallRecv(r) ==
    /\ r \in Receivers /\ pc[r] = "idle"
    /\ \E want \in {"none", "page", "unaligned"} : args' = [args EXCEPT ![r].pg = want]
    /\ pc' = [pc EXCEPT ![r] = "recv"]
    /\ UNCHANGED <<gen, ipc, page, got>>

\* Mutant: the environment blocks without saying that it is receiving.
SysIpcRecvUnmarked(r) ==
    /\ pc[r] = "recv" /\ args[r].pg # "unaligned"
    /\ ipc' = [ipc EXCEPT ![r].dstva = args[r].pg]
    /\ pc' = [pc EXCEPT ![r] = "blocked"]
    /\ args' = [args EXCEPT ![r] = NoArgs]
    /\ UNCHANGED <<gen, page, got>>

\* sys_ipc_recv blocks until a sender wakes the environment.
SysIpcRecv(r) ==
    /\ pc[r] = "recv" /\ args[r].pg # "unaligned"
    /\ ipc' = [ipc EXCEPT ![r].dstva = args[r].pg, ![r].recving = TRUE]
    /\ pc' = [pc EXCEPT ![r] = "blocked"]
    /\ args' = [args EXCEPT ![r] = NoArgs]
    /\ UNCHANGED <<gen, page, got>>

RecvInval(r) ==
    /\ pc[r] = "recv" /\ args[r].pg = "unaligned"
    /\ got' = [got EXCEPT ![r] = [from |-> None, value |-> "E_INVAL", perm |-> 0]]
    /\ pc' = [pc EXCEPT ![r] = "done"]
    /\ args' = [args EXCEPT ![r] = NoArgs]
    /\ UNCHANGED <<gen, ipc, page>>

\* *from_env_store, *perm_store and the return value, in this order.
ReadFrom(r) ==
    /\ pc[r] = "from"
    /\ got' = [got EXCEPT ![r].from = ipc[r].from]
    /\ pc' = [pc EXCEPT ![r] = "perm"]
    /\ UNCHANGED <<gen, ipc, page, args>>

ReadPerm(r) ==
    /\ pc[r] = "perm"
    /\ got' = [got EXCEPT ![r].perm = ipc[r].perm]
    /\ pc' = [pc EXCEPT ![r] = "value"]
    /\ UNCHANGED <<gen, ipc, page, args>>

ReadValue(r) ==
    /\ pc[r] = "value"
    /\ got' = [got EXCEPT ![r].value = ipc[r].value]
    /\ pc' = [pc EXCEPT ![r] = "done"]
    /\ UNCHANGED <<gen, ipc, page, args>>

\* The program has used the result and goes on.
Return(r) ==
    /\ pc[r] = "done"
    /\ pc' = [pc EXCEPT ![r] = "idle"]
    /\ got' = [got EXCEPT ![r] = NoMsg]
    /\ UNCHANGED <<gen, ipc, page, args>>

-----------------------------------------------------------------------------
\* env_free, and env_alloc for a new environment in the same slot: a new
\* id, env_ipc_recving reset, an empty address space; env_ipc_from, value
\* and perm keep what they were.
Replace(e) ==
    /\ e \in Mortal /\ gen[e] < MaxGen
    /\ gen' = [gen EXCEPT ![e] = @ + 1]
    /\ ipc' = [ipc EXCEPT ![e].recving = FALSE]
    /\ page' = [page EXCEPT ![e] = None]
    /\ pc' = [pc EXCEPT ![e] = "idle"]
    /\ args' = [args EXCEPT ![e] = NoArgs]
    /\ got' = [got EXCEPT ![e] = NoMsg]

\* What environment e does on its own once it is scheduled.
Step(e) ==
    \/ NotRecv(e) \/ Yield(e) \/ PageRefused(e) \/ SendBadEnv(e) \/ TrySend(e)
    \/ SysIpcRecv(e) \/ RecvInval(e) \/ ReadFrom(e) \/ ReadPerm(e) \/ ReadValue(e) \/ Return(e)

Next == \E e \in Envs : Step(e) \/ CallSend(e) \/ CallRecv(e) \/ Replace(e)

\* sched_yield runs every RUNNABLE environment again and again.
Fairness == \A e \in Envs : WF_vars(Step(e))

Spec == Init /\ [][Next]_vars /\ Fairness

-----------------------------------------------------------------------------
(* Properties.                                                              *)

\* The types of the variables: ids, message fields and the steps of a call.
TypeOK ==
    LET Ids == (Envs \X (0..MaxGen)) \cup {None} IN
    /\ gen \in [Envs -> 0..MaxGen]
    /\ \A e \in Envs :
        /\ ipc[e].recving \in BOOLEAN /\ ipc[e].dstva \in {"none", "page", "unaligned"}
        /\ ipc[e].from \in Ids /\ ipc[e].perm \in {0, PagePerm}
        /\ page[e] \in Ids /\ args[e].to \in Ids
        /\ got[e].from \in Ids /\ got[e].perm \in {0, PagePerm}
        /\ pc[e] \in {"idle", "try", "yield", "panic", "recv", "blocked",
                      "from", "perm", "value", "done"}

\* An environment sleeps in sys_ipc_recv exactly while env_ipc_recving says
\* so: no message is left with nobody woken for it, and none arrives for an
\* environment that is not waiting.
AsleepIffReceiving == \A e \in Envs : pc[e] = "blocked" <=> ipc[e].recving

\* The state of the two system calls: no wake-up is lost and none comes
\* uncalled for, through retries, failed sends and reused slots.
WakeupsExact == TypeOK /\ AsleepIffReceiving

\* The call each environment is in, as its program sees it.  From the
\* moment it is woken, what ipc_recv will return is partly stored and partly
\* still in envs[].
Op(e) ==
    LET result(from, perm, value) ==
            [st |-> "returned", from |-> from, value |-> value, perm |-> perm] IN
    CASE pc[e] \in {"try", "yield"} ->
            [st |-> "sending", to |-> args[e].to,
             msg |-> [value |-> args[e].value, pg |-> args[e].pg]]
      [] pc[e] = "recv" -> [st |-> "receiving", want |-> args[e].pg]
      [] pc[e] = "blocked" -> [st |-> "receiving", want |-> ipc[e].dstva]
      [] pc[e] = "from" -> result(ipc[e].from, ipc[e].perm, ipc[e].value)
      [] pc[e] = "perm" -> result(got[e].from, ipc[e].perm, ipc[e].value)
      [] pc[e] = "value" -> result(got[e].from, got[e].perm, ipc[e].value)
      [] pc[e] = "done" -> result(got[e].from, got[e].perm, got[e].value)
      [] pc[e] = "panic" -> [st |-> "failed"]
      [] OTHER -> [st |-> "idle"]

Rdv == INSTANCE Rendezvous WITH op <- [e \in Envs |-> Op(e)]

\* The library implements a rendezvous: every ipc_send that returns was one
\* ipc_recv of the environment it named, with sender, value, page and
\* permission of that one message, however many senders retry or fail
\* around it and however often slots are reused.  A permission is returned
\* exactly when a page came with this message (ipc.c:11-12).
ImplementsRendezvous == Rdv!Spec

\* A sender and the receiver it waits for do not miss each other for ever:
\* the sender's call ends, or the receiver gets another message.
SendersMeetReceivers ==
    \A s \in Senders, r \in Receivers : Rdv!Waits(s, r) ~> ~Rdv!Waits(s, r)
=============================================================================
