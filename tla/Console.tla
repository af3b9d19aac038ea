------------------------------- MODULE Console ------------------------------
(***************************************************************************)
(* The console: keyboard and serial input with the buffer between devices  *)
(* and readers, and the text screen (kern/console.c), the line editor      *)
(* (lib/readline.c) and its two readers, the kernel monitor and a user     *)
(* program that calls sys_cgetc.                                           *)
(*                                                                         *)
(* Nothing in this kernel handles the device interrupts: cons_getc polls.  *)
(* While it does, the devices go on receiving, so a call is one step per   *)
(* byte it looks at.  Characters are named; scan codes are the numbers the *)
(* hardware sends, for the keys of constant Keys.                          *)
(***************************************************************************)
EXTENDS Integers, Sequences, FiniteSets

CONSTANTS
    Keys,           \* keys that are used: their make codes, 128 more after E0
    SerialBytes,    \* what arrives on the serial line
    Outputs,        \* what monitor commands print
    Scenes,         \* pairs: who reads, and the device that is in use
    MaxHeld,        \* keys held at a time
    MaxPending,     \* bytes the keyboard controller holds
    CONSBUFSIZE, BUFLEN, CRT_COLS, CRT_ROWS,
    NULL

CRT_SIZE == CRT_COLS * CRT_ROWS
E0 == 224
KEY_CTL == 29   \* 157 on the right
KEY_LSHIFT == 42
KEY_CAPS == 58
KEY_A == 30
KEY_ENTER == 28
KEYPAD_DOT == 83 \* 211, after E0, is the delete key

Printable == {"a", "A", ".", "DEL", "RUBOUT", " ", "K"}   \* c >= ' '
Chars == Printable \cup {"^A", "BS", "LF", "CR", "TAB"}

ASSUME ConsoleAssumption ==
    /\ Scenes \subseteq {"monitor", "user"} \X {"serial", "keyboard"}
    /\ SerialBytes \subseteq Chars \cup {"NUL"} /\ Outputs \subseteq Chars
    /\ CONSBUFSIZE \in Nat \ {0, 1} /\ BUFLEN \in Nat \ {0, 1}
    /\ CRT_COLS \in Nat \ {0} /\ CRT_ROWS \in Nat \ {0, 1}
    /\ Keys \subseteq 0..255 \ {E0, E0 - 128}   \* no code of a key is the prefix E0
    /\ NULL \notin Chars \cup {"NUL"}

VARIABLES
    scene,
    held, pending,      \* the keys held down; what the controller has to say
    rx,                 \* the serial port's receive register
    shift,              \* the static of kbd_proc_data
    cons,               \* the circular buffer: buf, rpos, wpos
    pc, c,              \* where the reader is in getchar; its character
    line,               \* readline's buf[0..i-1]
    screen              \* the display: cells and crt_pos

vars == <<scene, held, pending, rx, shift, cons, pc, c, line, screen>>
devices == <<held, pending, rx>>

-----------------------------------------------------------------------------
(* The keyboard tables, for the keys above.                                 *)

shiftcode(data) ==
    CASE data \in {29, 157} -> {"CTL"}
      [] data \in {42, 54} -> {"SHIFT"}
      [] data \in {56, 184} -> {"ALT"}
      [] OTHER -> {}

togglecode(data) == IF data = KEY_CAPS THEN {"CAPSLOCK"} ELSE {}

\* normalmap, shiftmap and ctlmap; "NUL" is NO.
normalmap(data) ==
    CASE data = KEY_A -> "a" [] data = KEY_ENTER -> "LF" [] data = KEYPAD_DOT -> "."
      [] data = 211 -> "DEL" [] OTHER -> "NUL"
shiftmap(data) ==
    CASE data = KEY_A -> "A" [] data = KEY_ENTER -> "LF" [] data = KEYPAD_DOT -> "."
      [] data = 211 -> "DEL" [] OTHER -> "NUL"
ctlmap(data) ==
    CASE data = KEY_A -> "^A" [] data = KEY_ENTER -> "CR" [] data = 211 -> "DEL"
      [] OTHER -> "NUL"

charcode(mods, data) ==
    IF "CTL" \in mods THEN ctlmap(data)
    ELSE IF "SHIFT" \in mods THEN shiftmap(data) ELSE normalmap(data)

SwapCase(ch) == IF ch = "a" THEN "A" ELSE IF ch = "A" THEN "a" ELSE ch

Xor(a, b) == (a \cup b) \ (a \cap b)

\* Mutant: the top bit of a release code is not taken off.
KbdReleaseRaw(sh, data) == sh \ (shiftcode(data) \cup {"E0ESC"})

\* The branch of kbd_proc_data for a key that is released.
KbdRelease(sh, data) ==
    sh \ (shiftcode(IF "E0ESC" \in sh THEN data ELSE data % 128) \cup {"E0ESC"})

\* kbd_proc_data, of one byte: the shift state it leaves, and the character
\* (Ctrl-Alt-Del, which resets the machine, is left out).
KbdProcData(sh, data) ==
    IF data = E0 THEN <<sh \cup {"E0ESC"}, "NUL">>
    ELSE IF data >= 128 THEN <<KbdRelease(sh, data), "NUL">>
    ELSE LET d == IF "E0ESC" \in sh THEN data + 128 ELSE data
             s == Xor((sh \ {"E0ESC"}) \cup shiftcode(d), togglecode(d))
             ch == charcode(s, d)
         IN <<s, IF "CAPSLOCK" \in s THEN SwapCase(ch) ELSE ch>>

-----------------------------------------------------------------------------
(* The input buffer.                                                        *)

Wrap(i) == IF i = CONSBUFSIZE THEN 0 ELSE i

\* cons_intr, for one character: there is no test for a full buffer.
Put(b, ch) ==
    IF ch = "NUL" THEN b
    ELSE [buf |-> [b.buf EXCEPT ![b.wpos] = ch], rpos |-> b.rpos, wpos |-> Wrap(b.wpos + 1)]

\* The characters from rpos up to wpos: how many, and where the i-th is.
Count(b) == IF b.wpos >= b.rpos THEN b.wpos - b.rpos ELSE b.wpos + CONSBUFSIZE - b.rpos
Slot(b, i) == LET j == b.rpos + i - 1 IN IF j < CONSBUFSIZE THEN j ELSE j - CONSBUFSIZE
Waiting(b) == [i \in 1..Count(b) |-> b.buf[Slot(b, i)]]

-----------------------------------------------------------------------------
(* The screen.                                                              *)

\* The last lines of cga_putc.
ScrollIfFull(s) ==
    IF s.pos < CRT_SIZE THEN s
    ELSE [cells |-> [i \in 0..CRT_SIZE-1 |->
                        IF i < CRT_SIZE - CRT_COLS THEN s.cells[i + CRT_COLS] ELSE " "],
          pos |-> s.pos - CRT_COLS]

Backspace(s) == IF s.pos = 0 THEN s ELSE [cells |-> [s.cells EXCEPT ![s.pos - 1] = " "],
                                          pos |-> s.pos - 1]

Glyph(s, ch) == ScrollIfFull([cells |-> [s.cells EXCEPT ![s.pos] = ch], pos |-> s.pos + 1])

Blank(s) == Glyph(s, " ")

\* cga_putc; a tab is five blanks through cons_putc.
CgaPutc(s, ch) ==
    CASE ch = "BS" -> ScrollIfFull(Backspace(s))
      [] ch = "LF" -> ScrollIfFull([s EXCEPT !.pos = (@ + CRT_COLS) - (@ % CRT_COLS)])
      [] ch = "CR" -> ScrollIfFull([s EXCEPT !.pos = @ - (@ % CRT_COLS)])
      [] ch = "TAB" -> Blank(Blank(Blank(Blank(Blank(s)))))
      [] OTHER -> Glyph(s, ch)

Prompt(s) == CgaPutc(s, "K")

-----------------------------------------------------------------------------
\* cga_init finds the cursor where the BIOS left it.
Init ==
    /\ scene \in Scenes
    /\ held = {} /\ pending = <<>> /\ rx = NULL
    /\ shift = {}
    /\ cons = [buf |-> [i \in 0..CONSBUFSIZE-1 |-> NULL], rpos |-> 0, wpos |-> 0]
    /\ pc = "serial" /\ c = NULL
    /\ line = <<>>
    /\ \E pos \in IF scene[1] = "monitor" THEN 0..CRT_SIZE-1 ELSE {0} :
        LET s == [cells |-> [i \in 0..CRT_SIZE-1 |-> " "], pos |-> pos]
        IN screen = IF scene[1] = "monitor" THEN Prompt(s) ELSE s

\* What the keyboard sends for a key pressed (or repeated) or released.
Make(k) == IF k >= 128 THEN <<E0, k - 128>> ELSE <<k>>
Break(k) == IF k >= 128 THEN <<E0, k>> ELSE <<k + 128>>

Send(codes) ==
    /\ Len(pending) + Len(codes) <= MaxPending
    /\ pending' = pending \o codes

Press(k) ==
    /\ scene[2] = "keyboard"
    /\ Cardinality(held \cup {k}) <= MaxHeld
    /\ Send(Make(k))
    /\ held' = held \cup {k}
    /\ UNCHANGED <<scene, rx, shift, cons, pc, c, line, screen>>

Release(k) ==
    /\ k \in held
    /\ Send(Break(k))
    /\ held' = held \ {k}
    /\ UNCHANGED <<scene, rx, shift, cons, pc, c, line, screen>>

\* The receiver has no FIFO: a byte that is not read in time is overwritten.
Receive(b) ==
    /\ scene[2] = "serial"
    /\ rx' = b
    /\ UNCHANGED <<scene, held, pending, shift, cons, pc, c, line, screen>>

\* serial_intr: serial_proc_data until there is nothing.
SerialIntr ==
    /\ pc = "serial"
    /\ IF rx = NULL THEN pc' = "kbd" /\ UNCHANGED <<rx, cons>>
       ELSE rx' = NULL /\ cons' = Put(cons, rx) /\ UNCHANGED pc
    /\ UNCHANGED <<scene, held, pending, shift, c, line, screen>>

\* kbd_intr: kbd_proc_data until there is nothing.
KbdIntr ==
    /\ pc = "kbd"
    /\ IF pending = <<>> THEN pc' = "take" /\ UNCHANGED <<pending, shift, cons>>
       ELSE LET r == KbdProcData(shift, Head(pending)) IN
            /\ pending' = Tail(pending)
            /\ shift' = r[1]
            /\ cons' = Put(cons, r[2])
            /\ UNCHANGED pc
    /\ UNCHANGED <<scene, held, rx, c, line, screen>>

\* Mutant: the read position does not move.
TakeAgain ==
    /\ pc = "take"
    /\ IF cons.rpos = cons.wpos THEN pc' = "serial" /\ UNCHANGED c
       ELSE c' = cons.buf[cons.rpos] /\ pc' = "use"
    /\ UNCHANGED <<scene, devices, shift, cons, line, screen>>

\* The end of cons_getc; getchar tries again when there was nothing.
Take ==
    /\ pc = "take"
    /\ IF cons.rpos = cons.wpos THEN pc' = "serial" /\ UNCHANGED <<cons, c>>
       ELSE /\ c' = cons.buf[cons.rpos]
            /\ cons' = [cons EXCEPT !.rpos = Wrap(@ + 1)]
            /\ pc' = "use"
    /\ UNCHANGED <<scene, devices, shift, line, screen>>

Echo(ch) == screen' = CgaPutc(screen, ch)

\* Mutant: the test of the buffer's end comes after the echo.
KeepCharLate ==
    /\ Echo(c)
    /\ line' = IF Len(line) < BUFLEN - 1 THEN Append(line, c) ELSE line

\* A printable character while there is room.
KeepChar == IF Len(line) < BUFLEN - 1 THEN Echo(c) /\ line' = Append(line, c)
            ELSE UNCHANGED <<line, screen>>

\* readline, for one character.
Readline ==
    /\ pc = "use" /\ scene[1] = "monitor"
    /\ c' = NULL
    /\ \/ /\ c \in {"BS", "RUBOUT"} /\ line # <<>>
          /\ Echo("BS") /\ line' = SubSeq(line, 1, Len(line) - 1) /\ pc' = "serial"
       \/ /\ c \in Printable /\ ~(c = "RUBOUT" /\ line # <<>>)
          /\ KeepChar /\ pc' = "serial"
       \/ /\ c \in {"LF", "CR"}
          /\ Echo("LF") /\ line' = <<>> /\ pc' = "runcmd"
       \/ /\ c \notin Printable \cup {"LF", "CR"} /\ ~(c = "BS" /\ line # <<>>)
          /\ pc' = "serial" /\ UNCHANGED <<line, screen>>
    /\ UNCHANGED <<scene, devices, shift, cons>>

\* A command prints, and monitor asks for the next line.
CommandOutput(ch) ==
    /\ pc = "runcmd"
    /\ Echo(ch)
    /\ UNCHANGED <<scene, devices, shift, cons, pc, c, line>>

NextPrompt ==
    /\ pc = "runcmd"
    /\ screen' = Prompt(screen)
    /\ pc' = "serial"
    /\ UNCHANGED <<scene, devices, shift, cons, c, line>>

\* sys_cgetc returned a character to a user program.
UserGetchar ==
    /\ pc = "use" /\ scene[1] = "user"
    /\ c' = NULL /\ pc' = "serial"
    /\ UNCHANGED <<scene, devices, shift, cons, line, screen>>

Reader == SerialIntr \/ KbdIntr \/ Take \/ Readline \/ NextPrompt \/ UserGetchar

Next ==
    \/ \E k \in Keys : Press(k) \/ Release(k)
    \/ \E b \in SerialBytes : Receive(b)
    \/ \E ch \in Outputs : CommandOutput(ch)
    \/ Reader

Spec == Init /\ [][Next]_vars

-----------------------------------------------------------------------------
(* Properties.                                                              *)

\* The types of the variables: both positions stay inside cons.buf.
TypeOK ==
    /\ scene \in Scenes /\ held \subseteq Keys /\ pending \in Seq(0..255)
    /\ rx \in Chars \cup {"NUL", NULL}
    /\ shift \subseteq {"SHIFT", "CTL", "ALT", "CAPSLOCK", "E0ESC"}
    /\ cons.buf \in [0..CONSBUFSIZE-1 -> Chars \cup {NULL}]
    /\ cons.rpos \in 0..CONSBUFSIZE-1 /\ cons.wpos \in 0..CONSBUFSIZE-1
    /\ pc \in {"serial", "kbd", "take", "use", "runcmd"} /\ c \in Chars \cup {NULL}
    /\ line \in Seq(Printable)
    /\ screen.cells \in [0..CRT_SIZE-1 -> Chars] /\ screen.pos \in Nat

\* The circular buffer is a queue that a burst empties: no character is read
\* twice, reordered or invented, whatever the two positions are, and exactly
\* the CONSBUFSIZE-th one to wait loses what waits.
Queue == INSTANCE InputQueue WITH Size <- CONSBUFSIZE, q <- Waiting(cons), got <- c
ImplementsInputQueue == Queue!Spec

\* Once kbd_proc_data has seen every byte, a modifier it believes to be down
\* is the modifier of a key that is held, and no E0 escape is left over to
\* corrupt the next key.
NoStuckModifier ==
    pending = <<>> =>
        /\ "E0ESC" \notin shift
        /\ shift \ {"CAPSLOCK"} \subseteq UNION {shiftcode(k) : k \in held}

\* readline keeps to its buffer with room for the terminating zero, and the
\* screen shows what it holds: before the cursor stand the last characters of
\* the line, as far as they have not scrolled away, through backspaces, full
\* buffers, wrapped lines and scrolling.
EchoMatchesLine ==
    scene[1] = "monitor" /\ pc # "runcmd" =>
        /\ Len(line) <= BUFLEN - 1
        /\ \A i \in 0..Len(line)-1 :
              i < screen.pos => screen.cells[screen.pos - 1 - i] = line[Len(line) - i]

\* cga_putc leaves the cursor on the screen: the next character is stored
\* inside the display's memory.
CursorOnScreen == screen.pos < CRT_SIZE

\* The terminal as a whole: cga_putc and readline keep to their buffers, and
\* the screen shows the line that is being edited.
ScreenExact == TypeOK /\ CursorOnScreen /\ EchoMatchesLine
=============================================================================
