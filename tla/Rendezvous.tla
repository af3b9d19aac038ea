----------------------------- MODULE Rendezvous -----------------------------
(***************************************************************************)
(* What ipc_send and ipc_recv promise a user program: a message passes     *)
(* from one sender to one receiver in a single step, whole, and only to    *)
(* the environment whose id the sender named.  gen[e] is the generation of *)
(* the environment in slot e of envs[]; op[e] is the call it is in.        *)
(***************************************************************************)
EXTENDS Naturals

CONSTANTS Envs, Values, MaxGen

VARIABLES gen, op, page

PagePerm == 7           \* PTE_P | PTE_U | PTE_W
None == <<>>            \* no environment
Id(e) == <<e, gen[e]>>

Messages == [value : Values, pg : {"none", "good", "bad"}]
Idle == [st |-> "idle"]
Sending(to, m) == [st |-> "sending", to |-> to, msg |-> m]
Receiving(want) == [st |-> "receiving", want |-> want]
Returned(from, value, perm) ==
    [st |-> "returned", from |-> from, value |-> value, perm |-> perm]
Failed == [st |-> "failed"]

Init ==
    /\ gen = [e \in Envs |-> 0]
    /\ op = [e \in Envs |-> Idle]
    /\ page = [e \in Envs |-> None]

\* A program may still hold the id of an environment that is gone.
Send(s) ==
    /\ op[s] = Idle
    /\ \E r \in Envs \ {s}, g \in 0..MaxGen, m \in Messages :
        g <= gen[r] /\ op' = [op EXCEPT ![s] = Sending(<<r, g>>, m)]
    /\ UNCHANGED <<gen, page>>

Recv(r) ==
    /\ op[r] = Idle
    /\ \E want \in {"none", "page", "unaligned"} : op' = [op EXCEPT ![r] = Receiving(want)]
    /\ UNCHANGED <<gen, page>>

Waits(s, r) ==
    /\ op[s].st = "sending" /\ op[s].to = Id(r)
    /\ op[r].st = "receiving" /\ op[r].want # "unaligned"

WithPage(s, r) == op[s].msg.pg # "none" /\ op[r].want = "page"

\* The one step in which a message changes hands.
Exchange(s, r) ==
    /\ Waits(s, r)
    /\ WithPage(s, r) => op[s].msg.pg = "good"
    /\ op' = [op EXCEPT ![s] = Idle,
                        ![r] = Returned(Id(s), op[s].msg.value,
                                        IF WithPage(s, r) THEN PagePerm ELSE 0)]
    /\ page' = IF WithPage(s, r) THEN [page EXCEPT ![r] = Id(s)] ELSE page
    /\ UNCHANGED gen

\* The receiver is gone, or the page cannot be transferred.
SendFails(s) ==
    /\ op[s].st = "sending"
    /\ \/ op[s].to # Id(op[s].to[1])
       \/ \E r \in Envs : Waits(s, r) /\ WithPage(s, r)
    /\ op' = [op EXCEPT ![s] = Failed]
    /\ UNCHANGED <<gen, page>>

RecvFails(r) ==
    /\ op[r] = Receiving("unaligned")
    /\ op' = [op EXCEPT ![r] = Returned(None, "E_INVAL", 0)]
    /\ UNCHANGED <<gen, page>>

Return(r) ==
    /\ op[r].st = "returned"
    /\ op' = [op EXCEPT ![r] = Idle]
    /\ UNCHANGED <<gen, page>>

\* The environment is destroyed and its slot given to a new one.
Replace(e) ==
    /\ gen[e] < MaxGen
    /\ gen' = [gen EXCEPT ![e] = @ + 1]
    /\ op' = [op EXCEPT ![e] = Idle]
    /\ page' = [page EXCEPT ![e] = None]

Next ==
    \/ \E e \in Envs : Send(e) \/ Recv(e) \/ SendFails(e) \/ RecvFails(e) \/ Return(e) \/ Replace(e)
    \/ \E s, r \in Envs : Exchange(s, r)

Spec == Init /\ [][Next]_<<gen, op, page>>
=============================================================================
