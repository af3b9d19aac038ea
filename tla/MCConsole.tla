------------------------------ MODULE MCConsole -----------------------------
(* Console for TLC: the monitor reads from the serial line, a user program  *)
(* from the keyboard; past cons_intr the devices make no difference.        *)
EXTENDS Console

MCScenes == {<<"monitor", "serial">>, <<"user", "keyboard">>}
\* A letter, a left shift, a right control, caps lock and delete.
MCKeys == {KEY_A, KEY_LSHIFT, KEY_CTL + 128, KEY_CAPS, KEYPAD_DOT + 128}
=============================================================================
