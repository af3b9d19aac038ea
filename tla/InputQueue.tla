----------------------------- MODULE InputQueue -----------------------------
(***************************************************************************)
(* What the console's input buffer promises: characters are read once, in  *)
(* the order they came, unless a burst fills the buffer; the character     *)
(* that would be the Size-th to wait empties it.                           *)
(***************************************************************************)
EXTENDS Integers, Sequences

CONSTANTS Size, Chars, NULL

VARIABLES
    q,      \* the characters that wait
    got     \* the character handed to the reader and not yet used, or NULL

Init == q = <<>> /\ got = NULL

Arrive(c) ==
    /\ q' = IF Len(q) + 1 = Size THEN <<>> ELSE Append(q, c)
    /\ got' = got

Read == got = NULL /\ q # <<>> /\ got' = Head(q) /\ q' = Tail(q)

Use == got # NULL /\ got' = NULL /\ q' = q

Next == (\E c \in Chars : Arrive(c)) \/ Read \/ Use

Spec == Init /\ [][Next]_<<q, got>>
=============================================================================
