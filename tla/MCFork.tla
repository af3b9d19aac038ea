------------------------------- MODULE MCFork -------------------------------
(* Fork for TLC: three page tables of two entries, the scratch page and the *)
(* VGA page in the first, the program in the second, the stack in the last. *)
EXTENDS Fork

CONSTANTS parent, child

SixteenPages == [i \in 1..16 |-> i]
=============================================================================
