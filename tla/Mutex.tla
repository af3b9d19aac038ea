------------------------------- MODULE Mutex --------------------------------
(***************************************************************************)
(* What the rest of the kernel relies on in a spin lock: at any time at    *)
(* most one CPU holds it, it passes from a CPU to nobody and from nobody   *)
(* to a CPU, and only the holder gives it up.                              *)
(***************************************************************************)
CONSTANTS CPUs, NULL
VARIABLE holder

Init == holder \in CPUs \cup {NULL}

Acquire(c) == holder = NULL /\ holder' = c

Release(c) == holder = c /\ holder' = NULL

Next == \E c \in CPUs : Acquire(c) \/ Release(c)

Spec == Init /\ [][Next]_holder
=============================================================================
