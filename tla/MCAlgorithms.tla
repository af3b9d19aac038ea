---------------------------- MODULE MCAlgorithms ----------------------------
(* Algorithms for TLC.                                                      *)
EXTENDS Algorithms

TwoCommands == [help |-> CString(<<"a">>), kerninfo |-> CString(<<"a", "b">>)]
=============================================================================
