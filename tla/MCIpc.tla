------------------------------- MODULE MCIpc --------------------------------
(* Ipc for TLC: two senders and a receiver whose slot may be reused.        *)
EXTENDS Ipc

CONSTANTS s1, s2, r1, v1, v2
=============================================================================
