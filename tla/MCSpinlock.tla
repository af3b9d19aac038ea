----------------------------- MODULE MCSpinlock -----------------------------
(* The instance of Spinlock for TLC: three CPUs as model values, so that    *)
(* two can compete for a lock the third gives back.                         *)
EXTENDS Spinlock

CONSTANTS c0, c1, c2
=============================================================================
