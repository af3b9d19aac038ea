--------------------------- MODULE Console_proofs ---------------------------
(***************************************************************************)
(* Proofs about module Console, for any sizes of the input buffer, of      *)
(* readline's buffer and of the screen, and any set of keys: the circular  *)
(* buffer implements InputQueue, the screen shows the line that is being   *)
(* edited, and no modifier of the keyboard driver gets stuck.              *)
(***************************************************************************)
EXTENDS Console, SequenceTheorems, TLAPS

Mods == {"SHIFT", "CTL", "ALT", "CAPSLOCK", "E0ESC"}
Rings == [buf : [0..CONSBUFSIZE-1 -> Chars \cup {NULL}],
          rpos : 0..CONSBUFSIZE-1, wpos : 0..CONSBUFSIZE-1]
Screens == [cells : [0..CRT_SIZE-1 -> Chars], pos : 0..CRT_SIZE-1]

-----------------------------------------------------------------------------
(* The inductive invariant.                                                 *)

ConsoleTypes ==
    /\ scene \in Scenes /\ held \subseteq Keys /\ pending \in Seq(0..255)
    /\ rx \in Chars \cup {"NUL", NULL}
    /\ shift \subseteq Mods
    /\ cons \in Rings
    /\ pc \in {"serial", "kbd", "take", "use", "runcmd"}
    /\ line \in Seq(Printable)
    /\ screen \in Screens

\* Only characters wait in the buffer, and the reader has one exactly when it
\* is about to use it.
ReaderInv ==
    /\ \A i \in 1..Count(cons) : cons.buf[Slot(cons, i)] \in Chars
    /\ pc = "use" => c \in Chars
    /\ pc # "use" => c = NULL

\* The screen ends with the line that is being edited.
ShowsLine(s, l) ==
    \A i \in 0..Len(l)-1 : i < s.pos => s.cells[s.pos - 1 - i] = l[Len(l) - i]
LineInv ==
    /\ Len(line) <= BUFLEN - 1
    /\ pc = "runcmd" => line = <<>>
    /\ ShowsLine(screen, line)

\* The modifiers of the keys that are held.
HeldMods == UNION {shiftcode(k) : k \in held}

\* f is the shift state of kbd_proc_data before and after every byte that the
\* keyboard controller still holds; the last one is last.
Drives(f, sh, bytes) ==
    /\ f \in [0..Len(bytes) -> SUBSET Mods] /\ f[0] = sh
    /\ \A i \in 1..Len(bytes) : f[i] = KbdProcData(f[i - 1], bytes[i])[1]
DrivesTo(sh, bytes, last) ==
    /\ bytes \in Seq(0..255) /\ last \in SUBSET Mods
    /\ \E f : Drives(f, sh, bytes) /\ f[Len(bytes)] = last

\* No prefix is pending, and only the modifiers in H are down.
Quiet(sh, H) == "E0ESC" \notin sh /\ sh \ {"CAPSLOCK"} \subseteq H

\* When it has seen all of them, it has forgotten every key that was released.
KeyboardInv == \E last : DrivesTo(shift, pending, last) /\ Quiet(last, HeldMods)

IInv == ConsoleTypes /\ ReaderInv /\ LineInv /\ KeyboardInv
-----------------------------------------------------------------------------
(* The circular buffer.                                                     *)

\* CONSBUFSIZE is a size.
LEMMA SizeFact == CONSBUFSIZE \in Nat /\ CONSBUFSIZE > 1
  BY ConsoleAssumption

\* The characters that wait form a sequence.
LEMMA WaitingIsSeq ==
    ASSUME NEW b \in Rings
    PROVE  /\ Count(b) \in 0..CONSBUFSIZE-1
           /\ \A i \in 1..Count(b) : Slot(b, i) \in 0..CONSBUFSIZE-1
           /\ Waiting(b) \in Seq(Chars \cup {NULL})
           /\ Len(Waiting(b)) = Count(b)
           /\ \A i \in 1..Count(b) : Waiting(b)[i] = b.buf[Slot(b, i)]
<1>1. /\ b.rpos \in 0..CONSBUFSIZE-1 /\ b.wpos \in 0..CONSBUFSIZE-1
      /\ b.buf \in [0..CONSBUFSIZE-1 -> Chars \cup {NULL}]
  BY DEF Rings
<1>2. Count(b) \in 0..CONSBUFSIZE-1
  BY <1>1, SizeFact DEF Count
<1>3. \A i \in 1..Count(b) : Slot(b, i) \in 0..CONSBUFSIZE-1
  BY <1>1, <1>2, SizeFact DEF Slot
<1>4. PICK n \in Nat : n = Count(b)
  BY <1>2
<1>5. Waiting(b) \in [1..n -> Chars \cup {NULL}]
  BY <1>1, <1>3, <1>4 DEF Waiting
<1>6. Waiting(b) \in Seq(Chars \cup {NULL}) /\ Len(Waiting(b)) = n
  BY <1>5
<1>7. \A i \in 1..Count(b) : Waiting(b)[i] = b.buf[Slot(b, i)]
  BY DEF Waiting
<1> QED BY <1>2, <1>3, <1>4, <1>6, <1>7

\* Two buffers in which the same characters wait.
LEMMA WaitingEqual ==
    ASSUME NEW b \in Rings, NEW s \in Seq(Chars \cup {NULL}), Len(s) = Count(b),
           \A i \in 1..Count(b) : s[i] = b.buf[Slot(b, i)]
    PROVE  Waiting(b) = s
<1>1. /\ Waiting(b) \in Seq(Chars \cup {NULL}) /\ Len(Waiting(b)) = Len(s)
      /\ \A i \in 1..Len(Waiting(b)) : Waiting(b)[i] = s[i]
  BY WaitingIsSeq
<1> QED BY <1>1, SeqEqual

\* cons_intr with a character: it is the last one that waits, unless the
\* buffer is then full and so looks empty.
LEMMA PutAppends ==
    ASSUME NEW b \in Rings, NEW ch \in Chars
    PROVE  /\ Put(b, ch) \in Rings
           /\ Waiting(Put(b, ch)) =
                 IF Len(Waiting(b)) + 1 = CONSBUFSIZE THEN <<>> ELSE Append(Waiting(b), ch)
           /\ (\A i \in 1..Count(b) : b.buf[Slot(b, i)] \in Chars) =>
                 \A i \in 1..Count(Put(b, ch)) : Put(b, ch).buf[Slot(Put(b, ch), i)] \in Chars
<1>1. PICK d : d = Put(b, ch)
  OBVIOUS
<1>2. d = [buf |-> [b.buf EXCEPT ![b.wpos] = ch], rpos |-> b.rpos, wpos |-> Wrap(b.wpos + 1)]
  BY <1>1 DEF Put, Chars, Printable
<1>3. /\ b.rpos \in 0..CONSBUFSIZE-1 /\ b.wpos \in 0..CONSBUFSIZE-1
      /\ b.buf \in [0..CONSBUFSIZE-1 -> Chars \cup {NULL}]
  BY DEF Rings
<1>4. Wrap(b.wpos + 1) \in 0..CONSBUFSIZE-1
  BY <1>3, SizeFact DEF Wrap
<1>5. d \in Rings
  <2>1. [b.buf EXCEPT ![b.wpos] = ch] \in [0..CONSBUFSIZE-1 -> Chars \cup {NULL}]
    BY <1>3
  <2> QED BY <1>2, <1>3, <1>4, <2>1 DEF Rings
<1>6. d.rpos = b.rpos /\ d.wpos = Wrap(b.wpos + 1) /\ d.buf = [b.buf EXCEPT ![b.wpos] = ch]
  BY <1>2
<1>7. CASE Count(b) + 1 = CONSBUFSIZE
  <2>1. Count(d) = 0
    BY SMTT(30), <1>3, <1>6, <1>7, SizeFact DEF Count, Wrap
  <2>2. Waiting(d) = <<>>
    BY <1>5, <2>1, WaitingIsSeq
  <2> QED BY <1>1, <1>5, <1>7, <2>1, <2>2, WaitingIsSeq
<1>8. CASE Count(b) + 1 # CONSBUFSIZE
  <2>1. Count(d) = Count(b) + 1 /\ Count(b) \in Nat
    <3>1. CASE b.wpos + 1 = CONSBUFSIZE
      BY <1>3, <1>6, <1>8, <3>1, SizeFact DEF Count, Wrap
    <3>2. CASE b.wpos + 1 # CONSBUFSIZE
      <4>1. d.wpos = b.wpos + 1 /\ d.rpos = b.rpos
        BY <1>6, <3>2 DEF Wrap
      <4>2. CASE b.wpos >= b.rpos
        BY <1>3, <4>1, <4>2 DEF Count
      <4>3. CASE ~(b.wpos >= b.rpos)
        <5>1. Count(b) = b.wpos + CONSBUFSIZE - b.rpos /\ b.wpos + 1 # b.rpos
          BY <1>3, <1>8, <4>3, SizeFact DEF Count
        <5>2. Count(d) = (b.wpos + 1) + CONSBUFSIZE - b.rpos
          BY <1>3, <4>1, <4>3, <5>1 DEF Count
        <5> QED BY <1>3, <5>1, <5>2, SizeFact
      <4> QED BY <4>2, <4>3
    <3> QED BY <3>1, <3>2
  <2>2. Slot(d, Count(b) + 1) = b.wpos
    BY <1>3, <1>6, SizeFact DEF Count, Slot
  <2>3. ASSUME NEW i \in 1..Count(b)
        PROVE  Slot(d, i) = Slot(b, i) /\ Slot(b, i) # b.wpos /\ Slot(b, i) \in 0..CONSBUFSIZE-1
    <3>1. CASE b.wpos >= b.rpos
      BY <1>3, <1>6, <3>1, SizeFact DEF Count, Slot
    <3>2. CASE ~(b.wpos >= b.rpos)
      <4>1. PICK k : k = b.wpos + CONSBUFSIZE - b.rpos
        OBVIOUS
      <4>2. Count(b) = k
        BY <3>2, <4>1 DEF Count
      <4> QED BY SMTT(30), <1>3, <1>6, <3>2, <4>1, <4>2, SizeFact DEF Slot
    <3> QED BY <3>1, <3>2
  <2>4. d.buf[b.wpos] = ch /\ \A j \in 0..CONSBUFSIZE-1 : j # b.wpos => d.buf[j] = b.buf[j]
    BY <1>3, <1>6
  <2>5. /\ d.buf[Slot(d, Count(b) + 1)] = ch
        /\ \A i \in 1..Count(b) : d.buf[Slot(d, i)] = b.buf[Slot(b, i)]
    BY <2>2, <2>3, <2>4
  <2>6. PICK s : s = Append(Waiting(b), ch)
    OBVIOUS
  <2>7. /\ s \in Seq(Chars \cup {NULL}) /\ Len(s) = Count(d)
        /\ \A i \in 1..Count(b) : s[i] = b.buf[Slot(b, i)]
        /\ s[Count(b) + 1] = ch
    BY <2>1, <2>6, WaitingIsSeq
  <2>8. \A i \in 1..Count(d) : s[i] = d.buf[Slot(d, i)]
    <3> SUFFICES ASSUME NEW i \in 1..Count(d) PROVE s[i] = d.buf[Slot(d, i)]
      OBVIOUS
    <3>1. i \in 1..Count(b) \/ i = Count(b) + 1
      BY <2>1
    <3> QED BY <2>5, <2>7, <3>1
  <2>9. Waiting(d) = s
    BY <1>5, <2>7, <2>8, WaitingEqual
  <2>10. Len(Waiting(b)) = Count(b)
    BY WaitingIsSeq
  <2>11. (\A i \in 1..Count(b) : b.buf[Slot(b, i)] \in Chars) =>
            \A i \in 1..Count(d) : d.buf[Slot(d, i)] \in Chars
    <3> SUFFICES ASSUME \A i \in 1..Count(b) : b.buf[Slot(b, i)] \in Chars, NEW i \in 1..Count(d)
                 PROVE  d.buf[Slot(d, i)] \in Chars
      OBVIOUS
    <3>1. i \in 1..Count(b) \/ i = Count(b) + 1
      BY <2>1
    <3> QED BY <2>5, <3>1
  <2> QED BY <1>1, <1>5, <1>8, <2>6, <2>9, <2>10, <2>11
<1> QED BY <1>7, <1>8

\* The end of cons_getc takes the first character that waits.
LEMMA TakeHead ==
    ASSUME NEW b \in Rings, b.rpos # b.wpos, NEW d, d = [b EXCEPT !.rpos = Wrap(@ + 1)]
    PROVE  /\ d \in Rings /\ Waiting(b) # <<>> /\ 1 \in 1..Count(b)
           /\ b.buf[b.rpos] = Head(Waiting(b)) /\ Slot(b, 1) = b.rpos
           /\ Waiting(d) = Tail(Waiting(b))
           /\ Count(d) = Count(b) - 1
           /\ \A i \in 1..Count(d) : d.buf[Slot(d, i)] = b.buf[Slot(b, i + 1)]
<1>1. /\ b.rpos \in 0..CONSBUFSIZE-1 /\ b.wpos \in 0..CONSBUFSIZE-1
      /\ b.buf \in [0..CONSBUFSIZE-1 -> Chars \cup {NULL}]
  BY DEF Rings
<1>2. d.rpos = Wrap(b.rpos + 1) /\ d.wpos = b.wpos /\ d.buf = b.buf
  BY DEF Rings
<1>3. Wrap(b.rpos + 1) \in 0..CONSBUFSIZE-1
  BY <1>1, SizeFact DEF Wrap
<1>4. d \in Rings
  BY <1>3 DEF Rings
<1>5. Count(d) = Count(b) - 1 /\ Count(b) \in Nat /\ Count(b) > 0
  <2>1. CASE b.rpos + 1 = CONSBUFSIZE
    <3>1. d.rpos = 0 /\ d.wpos = b.wpos /\ b.rpos = CONSBUFSIZE - 1 /\ ~(b.wpos >= b.rpos)
      BY <1>1, <1>2, <2>1, SizeFact DEF Wrap
    <3>2. Count(d) = b.wpos - 0 /\ Count(b) = b.wpos + CONSBUFSIZE - b.rpos
      BY <1>1, <3>1 DEF Count
    <3>3. PICK w \in Nat : w = b.wpos
      BY <1>1
    <3>4. Count(d) = w
      BY <3>2, <3>3
    <3>5. Count(b) = w + 1
      BY <3>1, <3>2, <3>3, SizeFact
    <3> QED BY <3>4, <3>5
  <2>2. CASE b.rpos + 1 # CONSBUFSIZE
    BY SMTT(30), <1>1, <1>2, <2>2, SizeFact DEF Count, Wrap
  <2> QED BY <2>1, <2>2
<1>6. Slot(b, 1) = b.rpos
  BY <1>1, SizeFact DEF Slot
<1>7. ASSUME NEW i \in 1..Count(d) PROVE Slot(d, i) = Slot(b, i + 1)
  <2>1. CASE b.rpos + 1 = CONSBUFSIZE
    <3>1. d.rpos = 0 /\ b.rpos = CONSBUFSIZE - 1
      BY <1>1, <1>2, <2>1, SizeFact DEF Wrap
    <3>2. i \in Nat /\ i > 0 /\ i < CONSBUFSIZE
      BY <1>4, SizeFact, WaitingIsSeq
    <3> QED BY <3>1, <3>2, SizeFact DEF Slot
  <2>2. CASE b.rpos + 1 # CONSBUFSIZE
    BY <1>1, <1>2, <1>5, <2>2, SizeFact DEF Slot, Wrap
  <2> QED BY <2>1, <2>2
<1>8. /\ Waiting(b) \in Seq(Chars \cup {NULL}) /\ Len(Waiting(b)) = Count(b)
      /\ \A i \in 1..Count(b) : Waiting(b)[i] = b.buf[Slot(b, i)]
  BY WaitingIsSeq
<1>9. Waiting(b) # <<>>
  BY <1>5, <1>8
<1>10. /\ Head(Waiting(b)) = Waiting(b)[1] /\ Tail(Waiting(b)) \in Seq(Chars \cup {NULL})
       /\ Len(Tail(Waiting(b))) = Count(d)
       /\ \A i \in 1..Count(d) : Tail(Waiting(b))[i] = Waiting(b)[i + 1]
  BY <1>5, <1>8, <1>9, HeadTailProperties
<1>11. \A i \in 1..Count(d) : Tail(Waiting(b))[i] = d.buf[Slot(d, i)]
  BY <1>2, <1>5, <1>7, <1>8, <1>10
<1>12. Waiting(d) = Tail(Waiting(b))
  BY <1>4, <1>10, <1>11, WaitingEqual
<1>13. 1 \in 1..Count(b)
  BY <1>5
<1>14. b.buf[b.rpos] = Head(Waiting(b))
  BY <1>6, <1>8, <1>10, <1>13
<1>15. \A i \in 1..Count(d) : d.buf[Slot(d, i)] = b.buf[Slot(b, i + 1)]
  BY <1>2, <1>7
<1> QED BY <1>4, <1>5, <1>6, <1>9, <1>12, <1>13, <1>14, <1>15
-----------------------------------------------------------------------------
(* The screen.                                                              *)

\* The screen has at least two lines of at least one column.
LEMMA ScreenSize ==
    /\ CRT_COLS \in Nat /\ CRT_COLS > 0 /\ CRT_SIZE \in Nat /\ CRT_SIZE >= CRT_COLS + CRT_COLS
    /\ BUFLEN \in Nat /\ BUFLEN > 1
<1>1. CRT_COLS \in Nat /\ CRT_COLS > 0 /\ CRT_ROWS \in Nat /\ CRT_ROWS >= 2
      /\ BUFLEN \in Nat /\ BUFLEN > 1
  BY ConsoleAssumption
<1>2. CRT_SIZE \in Nat /\ CRT_SIZE >= CRT_COLS + CRT_COLS
  <2>1. ASSUME NEW a \in Nat, NEW b \in Nat, b >= 2 PROVE a * b \in Nat /\ a * b >= a + a
    <3>1. PICK k \in Nat : b = k + 2
      <4>1. b - 2 \in Nat /\ b = (b - 2) + 2
        BY <2>1
      <4> QED BY <4>1
    <3>2. a * b = a * k + (a + a) /\ a * k \in Nat
      BY <3>1
    <3> QED BY <3>2
  <2> QED BY <1>1, <2>1 DEF CRT_SIZE
<1> QED BY <1>1, <1>2

\* The column of a position.
LEMMA Column ==
    ASSUME NEW p \in Nat
    PROVE  p % CRT_COLS \in 0..CRT_COLS-1 /\ p % CRT_COLS <= p
<1>1. ASSUME NEW a \in Nat, a > 0 PROVE p % a \in 0..a-1 /\ p % a <= p
  <2>1. p % a \in 0..a-1
    BY <1>1
  <2>2. CASE p < a
    BY <1>1, <2>1, <2>2
  <2>3. CASE p >= a
    BY <1>1, <2>1, <2>3
  <2> QED BY <1>1, <2>1, <2>2, <2>3
<1> QED BY <1>1, ScreenSize

\* The last lines of cga_putc, of a cursor that may be below the screen.
LEMMA ScrollFits ==
    ASSUME NEW cells \in [0..CRT_SIZE-1 -> Chars], NEW pos \in Nat, pos < CRT_SIZE + CRT_COLS,
           NEW s, s = [cells |-> cells, pos |-> pos], NEW t, t = ScrollIfFull(s)
    PROVE  /\ t \in Screens
           /\ pos < CRT_SIZE => t = s
           /\ pos >= CRT_SIZE =>
                /\ t.pos = pos - CRT_COLS
                /\ \A i \in 0..CRT_SIZE-CRT_COLS-1 : t.cells[i] = cells[i + CRT_COLS]
<1>1. s.cells = cells /\ s.pos = pos
  OBVIOUS
<1>2. CASE pos < CRT_SIZE
  <2>1. t = s
    BY <1>1, <1>2 DEF ScrollIfFull
  <2> QED BY <1>2, <2>1, ScreenSize DEF Screens
<1>3. CASE pos >= CRT_SIZE
  <2>1. PICK cs : cs = [i \in 0..CRT_SIZE-1 |->
                           IF i < CRT_SIZE - CRT_COLS THEN s.cells[i + CRT_COLS] ELSE " "]
    OBVIOUS
  <2>2. t = [cells |-> cs, pos |-> pos - CRT_COLS]
    <3>1. ~(s.pos < CRT_SIZE)
      BY <1>1, <1>3, ScreenSize
    <3>2. t = [cells |-> cs, pos |-> s.pos - CRT_COLS]
      BY <2>1, <3>1, Zenon DEF ScrollIfFull
    <3> QED BY <1>1, <3>2
  <2>3. cs \in [0..CRT_SIZE-1 -> Chars]
    <3>1. " " \in Chars
      BY DEF Chars, Printable
    <3>2. ASSUME NEW i \in 0..CRT_SIZE-1, i < CRT_SIZE - CRT_COLS
          PROVE  cells[i + CRT_COLS] \in Chars
      BY <3>2, ScreenSize
    <3> QED BY <1>1, <2>1, <3>1, <3>2
  <2>4. pos - CRT_COLS \in 0..CRT_SIZE-1
    BY <1>3, ScreenSize
  <2>5. t \in Screens
    BY <2>2, <2>3, <2>4 DEF Screens
  <2>6. ASSUME NEW i \in 0..CRT_SIZE-CRT_COLS-1 PROVE cs[i] = cells[i + CRT_COLS]
    <3>1. i \in 0..CRT_SIZE-1 /\ i < CRT_SIZE - CRT_COLS
      BY ScreenSize
    <3> QED BY <1>1, <2>1, <3>1
  <2> QED BY <1>3, <2>2, <2>5, <2>6, ScreenSize
<1> QED BY <1>2, <1>3, ScreenSize

\* A character is stored and stands before the cursor.
LEMMA GlyphFits ==
    ASSUME NEW s \in Screens, NEW ch \in Chars
    PROVE  /\ Glyph(s, ch) \in Screens
           /\ \A l \in Seq(Printable) :
                 ShowsLine(s, l) /\ ch \in Printable => ShowsLine(Glyph(s, ch), Append(l, ch))
<1>1. s.cells \in [0..CRT_SIZE-1 -> Chars] /\ s.pos \in 0..CRT_SIZE-1
  BY DEF Screens
<1>2. PICK cells : cells = [s.cells EXCEPT ![s.pos] = ch]
  OBVIOUS
<1>3. PICK pos : pos = s.pos + 1
  OBVIOUS
<1>4. /\ cells \in [0..CRT_SIZE-1 -> Chars] /\ pos \in Nat /\ pos <= CRT_SIZE /\ pos > 0
      /\ cells[pos - 1] = ch /\ \A i \in 0..CRT_SIZE-1 : i # pos - 1 => cells[i] = s.cells[i]
  BY <1>1, <1>2, <1>3, ScreenSize
<1>5. PICK t : t = Glyph(s, ch)
  OBVIOUS
<1>6. t = ScrollIfFull([cells |-> cells, pos |-> pos])
  BY <1>2, <1>3, <1>5 DEF Glyph
<1>7. /\ t \in Screens
      /\ pos < CRT_SIZE => t = [cells |-> cells, pos |-> pos]
      /\ pos >= CRT_SIZE => /\ t.pos = pos - CRT_COLS
                            /\ \A i \in 0..CRT_SIZE-CRT_COLS-1 : t.cells[i] = cells[i + CRT_COLS]
  BY SMTT(30), <1>4, <1>6, ScrollFits, ScreenSize
<1>8. ASSUME NEW k \in 0..CRT_SIZE, k < t.pos PROVE t.cells[t.pos - 1 - k] = cells[pos - 1 - k]
  <2>1. CASE pos < CRT_SIZE
    BY <1>7, <2>1
  <2>2. CASE pos >= CRT_SIZE
    <3>1. pos = CRT_SIZE /\ t.pos = CRT_SIZE - CRT_COLS
      <4>1. pos = CRT_SIZE
        BY <1>4, <2>2, ScreenSize
      <4>2. t.pos = pos - CRT_COLS
        BY <1>7, <2>2
      <4> QED BY <4>1, <4>2
    <3>2. t.pos - 1 - k \in 0..CRT_SIZE-CRT_COLS-1
      BY <1>8, <3>1, ScreenSize
    <3>3. t.cells[t.pos - 1 - k] = cells[(t.pos - 1 - k) + CRT_COLS]
      BY <1>7, <2>2, <3>2
    <3>4. (t.pos - 1 - k) + CRT_COLS = pos - 1 - k
      BY <3>1, ScreenSize
    <3> QED BY <3>3, <3>4
  <2> QED BY <1>4, <2>1, <2>2, ScreenSize
<1>9. t.pos \in 0..CRT_SIZE-1 /\ t.pos <= pos
  BY <1>4, <1>7, ScreenSize DEF Screens
<1>10. ASSUME NEW l \in Seq(Printable), ShowsLine(s, l), ch \in Printable
       PROVE  ShowsLine(t, Append(l, ch))
  <2>1. PICK m : m = Append(l, ch)
    OBVIOUS
  <2>2. PICK n \in Nat : n = Len(l)
    OBVIOUS
  <2>3. Len(m) = n + 1 /\ m[n + 1] = ch /\ \A i \in 1..n : m[i] = l[i]
    BY <1>10, <2>1, <2>2
  <2>4. \A i \in 0..n-1 : i < s.pos => s.cells[s.pos - 1 - i] = l[n - i]
    BY <1>10, <2>2 DEF ShowsLine
  <2>5. ASSUME NEW i \in 0..n, i < t.pos PROVE t.cells[t.pos - 1 - i] = m[n + 1 - i]
    <3>1. i \in 0..CRT_SIZE /\ i < pos
      BY <1>4, <1>9, <2>5, ScreenSize
    <3>2. t.cells[t.pos - 1 - i] = cells[pos - 1 - i]
      BY <1>8, <2>5, <3>1
    <3>3. CASE i = 0
      BY <1>4, <2>3, <3>2, <3>3
    <3>4. CASE i # 0
      <4>1. i - 1 \in 0..n-1 /\ i - 1 < s.pos
        BY <1>1, <1>3, <3>1, <3>4
      <4>2. cells[pos - 1 - i] = s.cells[pos - 1 - i]
        BY <1>3, <1>1, <1>4, <3>1, <3>4, ScreenSize
      <4>3. s.pos - 1 - (i - 1) = pos - 1 - i /\ n - (i - 1) = n + 1 - i /\ n + 1 - i \in 1..n
        BY <1>1, <1>3, <3>4
      <4>4. s.cells[pos - 1 - i] = l[n + 1 - i]
        BY <2>4, <4>1, <4>3
      <4> QED BY <2>3, <3>2, <4>2, <4>3, <4>4
    <3> QED BY <3>3, <3>4
  <2>6. \A i \in 0..Len(m)-1 : i < t.pos => t.cells[t.pos - 1 - i] = m[Len(m) - i]
    BY <2>3, <2>5
  <2> QED BY <2>1, <2>6 DEF ShowsLine
<1> QED BY <1>5, <1>7, <1>10
\* What cga_putc does to the screen, and to the line that stands on it.
LEMMA CgaPutcFits ==
    ASSUME NEW s \in Screens, NEW ch \in Chars
    PROVE  /\ CgaPutc(s, ch) \in Screens
           /\ ch \in Printable => CgaPutc(s, ch) = Glyph(s, ch)
<1>1. s.cells \in [0..CRT_SIZE-1 -> Chars] /\ s.pos \in 0..CRT_SIZE-1
      /\ s = [cells |-> s.cells, pos |-> s.pos] /\ s.pos \in Nat
  BY ScreenSize DEF Screens
<1>2. PICK col : col = s.pos % CRT_COLS
  OBVIOUS
<1>3. col \in 0..CRT_COLS-1 /\ col <= s.pos
  BY <1>1, <1>2, Column
<1>4. CASE ch = "BS"
  <2>1. CgaPutc(s, ch) = ScrollIfFull(Backspace(s))
    BY <1>4 DEF CgaPutc
  <2>2. CASE s.pos = 0
    <3>1. Backspace(s) = [cells |-> s.cells, pos |-> s.pos] /\ s.pos < CRT_SIZE + CRT_COLS
      BY <1>1, <2>2, ScreenSize DEF Backspace
    <3>2. ScrollIfFull(Backspace(s)) \in Screens
      BY <1>1, <3>1, ScrollFits
    <3> QED BY <1>4, <2>1, <3>2 DEF Printable
  <2>3. CASE s.pos # 0
    <3>1. PICK cells, pos : cells = [s.cells EXCEPT ![s.pos - 1] = " "] /\ pos = s.pos - 1
      OBVIOUS
    <3>2. Backspace(s) = [cells |-> cells, pos |-> pos]
      BY <2>3, <3>1 DEF Backspace
    <3>3. cells \in [0..CRT_SIZE-1 -> Chars] /\ pos \in Nat /\ pos < CRT_SIZE + CRT_COLS
      <4>1. " " \in Chars
        BY DEF Chars, Printable
      <4>2. cells \in [0..CRT_SIZE-1 -> Chars]
        BY <1>1, <3>1, <4>1
      <4>3. PICK p \in Nat : p = s.pos /\ p < CRT_SIZE /\ p # 0
        BY <1>1, <2>3, ScreenSize
      <4>4. pos = p - 1
        BY <3>1, <4>3
      <4>5. pos \in Nat /\ pos < CRT_SIZE + CRT_COLS
        BY <4>3, <4>4, ScreenSize
      <4> QED BY <4>2, <4>5
    <3>4. ScrollIfFull(Backspace(s)) \in Screens
      BY <3>2, <3>3, ScrollFits
    <3> QED BY <1>4, <2>1, <3>4 DEF Printable
  <2> QED BY <2>2, <2>3
<1>5. CASE ch = "LF"
  <2>1. PICK pos : pos = (s.pos + CRT_COLS) - col
    OBVIOUS
  <2>2. CgaPutc(s, ch) = ScrollIfFull([cells |-> s.cells, pos |-> pos])
    <3>1. [s EXCEPT !.pos = (@ + CRT_COLS) - (@ % CRT_COLS)] = [cells |-> s.cells, pos |-> pos]
      BY <1>1, <1>2, <2>1
    <3> QED BY <1>5, <3>1 DEF CgaPutc
  <2>3. pos \in Nat /\ pos < CRT_SIZE + CRT_COLS
    BY <1>1, <1>3, <2>1, ScreenSize
  <2>4. ScrollIfFull([cells |-> s.cells, pos |-> pos]) \in Screens
    BY <1>1, <2>3, ScrollFits
  <2> QED BY <1>5, <2>2, <2>4 DEF Printable
<1>6. CASE ch = "CR"
  <2>1. PICK pos : pos = s.pos - col
    OBVIOUS
  <2>2. CgaPutc(s, ch) = ScrollIfFull([cells |-> s.cells, pos |-> pos])
    <3>1. [s EXCEPT !.pos = @ - (@ % CRT_COLS)] = [cells |-> s.cells, pos |-> pos]
      BY <1>1, <1>2, <2>1
    <3> QED BY <1>6, <3>1 DEF CgaPutc
  <2>3. pos \in Nat /\ pos < CRT_SIZE + CRT_COLS
    BY <1>1, <1>3, <2>1, ScreenSize
  <2>4. ScrollIfFull([cells |-> s.cells, pos |-> pos]) \in Screens
    BY <1>1, <2>3, ScrollFits
  <2> QED BY <1>6, <2>2, <2>4 DEF Printable
<1>7. CASE ch = "TAB"
  <2>1. CgaPutc(s, ch) = Blank(Blank(Blank(Blank(Blank(s)))))
    BY <1>7 DEF CgaPutc
  <2>2. \A t \in Screens : Blank(t) \in Screens
    <3>1. " " \in Chars
      BY DEF Chars, Printable
    <3> QED BY <3>1, GlyphFits DEF Blank
  <2> QED BY <1>7, <2>1, <2>2 DEF Printable
<1>8. CASE ch \notin {"BS", "LF", "CR", "TAB"}
  <2>1. CgaPutc(s, ch) = Glyph(s, ch)
    BY <1>8 DEF CgaPutc
  <2> QED BY <2>1, GlyphFits
<1> QED BY <1>4, <1>5, <1>6, <1>7, <1>8

\* A backspace takes the last character of the line off the screen.
LEMMA BackspaceShows ==
    ASSUME NEW s \in Screens, NEW l \in Seq(Printable), l # <<>>, ShowsLine(s, l)
    PROVE  ShowsLine(CgaPutc(s, "BS"), SubSeq(l, 1, Len(l) - 1))
<1>1. s.cells \in [0..CRT_SIZE-1 -> Chars] /\ s.pos \in 0..CRT_SIZE-1
  BY DEF Screens
<1>2. PICK n \in Nat : n = Len(l) - 1
  OBVIOUS
<1>3. PICK m : m = SubSeq(l, 1, Len(l) - 1)
  OBVIOUS
<1>4. Len(m) = n /\ \A i \in 1..n : m[i] = l[i]
  BY <1>2, <1>3
<1>5. \A i \in 0..n : i < s.pos => s.cells[s.pos - 1 - i] = l[n + 1 - i]
  BY <1>2 DEF ShowsLine
<1>6. PICK t : t = CgaPutc(s, "BS")
  OBVIOUS
<1>7. t = ScrollIfFull(Backspace(s))
  BY <1>6 DEF CgaPutc
<1>8. CASE s.pos = 0
  <2>1. t.pos = 0
    <3>1. Backspace(s) = s /\ s.pos < CRT_SIZE
      BY <1>1, <1>8, ScreenSize DEF Backspace
    <3> QED BY <1>7, <1>8, <3>1 DEF ScrollIfFull
  <2> QED BY <1>3, <1>4, <1>6, <2>1 DEF ShowsLine
<1>9. CASE s.pos # 0
  <2>1. PICK cells : cells = [s.cells EXCEPT ![s.pos - 1] = " "]
    OBVIOUS
  <2>2. Backspace(s) = [cells |-> cells, pos |-> s.pos - 1]
    BY <1>9, <2>1 DEF Backspace
  <2>3. t = [cells |-> cells, pos |-> s.pos - 1]
    <3>1. cells \in [0..CRT_SIZE-1 -> Chars] /\ s.pos - 1 \in Nat /\ s.pos - 1 < CRT_SIZE
      <4>1. " " \in Chars
        BY DEF Chars, Printable
      <4>2. cells \in [0..CRT_SIZE-1 -> Chars]
        BY <1>1, <2>1, <4>1
      <4>3. PICK p \in Nat : p = s.pos /\ p < CRT_SIZE /\ p # 0
        BY <1>1, <1>9, ScreenSize
      <4>4. p - 1 \in Nat /\ p - 1 < CRT_SIZE
        BY <4>3, ScreenSize
      <4> QED BY <4>2, <4>3, <4>4
    <3>2. s.pos - 1 < CRT_SIZE + CRT_COLS
      BY <3>1, ScreenSize
    <3> QED BY <1>7, <2>2, <3>1, <3>2, ScrollFits
  <2>4. \A j \in 0..CRT_SIZE-1 : j # s.pos - 1 => cells[j] = s.cells[j]
    BY <1>1, <2>1
  <2>5. ASSUME NEW i \in 0..n-1, i < t.pos PROVE t.cells[t.pos - 1 - i] = m[n - i]
    <3>1. t.pos = s.pos - 1 /\ t.cells = cells
      BY <2>3
    <3>2. i + 1 \in 0..n /\ i + 1 < s.pos
      BY <1>1, <2>5, <3>1
    <3>3. s.cells[s.pos - 1 - (i + 1)] = l[n + 1 - (i + 1)]
      BY <1>5, <3>2
    <3>4. s.pos - 1 - (i + 1) = t.pos - 1 - i /\ n + 1 - (i + 1) = n - i /\ n - i \in 1..n
      BY <1>1, <3>1
    <3>5. t.pos - 1 - i \in 0..CRT_SIZE-1 /\ t.pos - 1 - i # s.pos - 1
      BY <1>1, <2>5, <3>1, ScreenSize
    <3>6. cells[t.pos - 1 - i] = s.cells[t.pos - 1 - i]
      BY <2>4, <3>5
    <3> QED BY <1>4, <3>1, <3>3, <3>4, <3>6
  <2>6. ShowsLine(t, m)
    BY <1>4, <2>5 DEF ShowsLine
  <2> QED BY <1>3, <1>6, <2>6
<1> QED BY <1>8, <1>9

-----------------------------------------------------------------------------
(* The keyboard.                                                            *)

\* The tables.
LEMMA Tables ==
    /\ \A d : shiftcode(d) \subseteq {"SHIFT", "CTL", "ALT"}
    /\ \A d : togglecode(d) \subseteq {"CAPSLOCK"}
    /\ \A mods, d : charcode(mods, d) \in Chars \cup {"NUL"}
<1>1. \A d : shiftcode(d) \subseteq {"SHIFT", "CTL", "ALT"}
  BY DEF shiftcode
<1>2. \A d : togglecode(d) \subseteq {"CAPSLOCK"}
  BY DEF togglecode
<1>3. ASSUME NEW d PROVE /\ normalmap(d) \in Chars \cup {"NUL"}
                         /\ shiftmap(d) \in Chars \cup {"NUL"}
                         /\ ctlmap(d) \in Chars \cup {"NUL"}
  BY DEF normalmap, shiftmap, ctlmap, Chars, Printable
<1>4. \A mods, d : charcode(mods, d) \in Chars \cup {"NUL"}
  BY <1>3 DEF charcode
<1> QED BY <1>1, <1>2, <1>4

\* What kbd_proc_data leaves after one byte, branch by branch.
LEMMA KbdBranches ==
    ASSUME NEW sh \in SUBSET Mods, NEW data \in 0..255, NEW r, r = KbdProcData(sh, data)
    PROVE  /\ r[1] \in SUBSET Mods /\ r[2] \in Chars \cup {"NUL"}
           /\ data = E0 => r[1] = sh \cup {"E0ESC"}
           /\ data < 128 =>
                 LET d == IF "E0ESC" \in sh THEN data + 128 ELSE data
                 IN  /\ "E0ESC" \notin r[1]
                     /\ r[1] \ {"CAPSLOCK"} \subseteq (sh \ {"CAPSLOCK"}) \cup shiftcode(d)
<1>1. CASE data = E0
  <2>1. r = <<sh \cup {"E0ESC"}, "NUL">>
    BY <1>1 DEF KbdProcData
  <2>2. r[1] = sh \cup {"E0ESC"} /\ r[2] = "NUL" /\ ~(data < 128)
    BY <1>1, <2>1 DEF E0
  <2>3. r[1] \in SUBSET Mods
    BY <2>2 DEF Mods
  <2> QED BY <1>1, <2>2, <2>3
<1>2. CASE data # E0 /\ data >= 128
  <2>1. r = <<KbdRelease(sh, data), "NUL">>
    BY <1>2 DEF KbdProcData
  <2>2. r[1] = KbdRelease(sh, data) /\ r[2] = "NUL"
    BY <2>1
  <2> QED BY <1>2, <2>2 DEF KbdRelease
<1>3. CASE data < 128
  <2>1. PICK d : d = IF "E0ESC" \in sh THEN data + 128 ELSE data
    OBVIOUS
  <2>2. PICK s : s = Xor((sh \ {"E0ESC"}) \cup shiftcode(d), togglecode(d))
    OBVIOUS
  <2>3. PICK ch : ch = charcode(s, d)
    OBVIOUS
  <2>4. PICK chr : chr = IF "CAPSLOCK" \in s THEN SwapCase(ch) ELSE ch
    OBVIOUS
  <2>5. r = <<s, chr>>
    <3>1. data # E0 /\ ~(data >= 128)
      BY <1>3 DEF E0
    <3>2. KbdProcData(sh, data) =
             LET e == IF "E0ESC" \in sh THEN data + 128 ELSE data
                 u == Xor((sh \ {"E0ESC"}) \cup shiftcode(e), togglecode(e))
                 k == charcode(u, e)
             IN <<u, IF "CAPSLOCK" \in u THEN SwapCase(k) ELSE k>>
      BY <3>1, Zenon DEF KbdProcData
    <3> QED BY <2>1, <2>2, <2>3, <2>4, <3>2
  <2>6. r[1] = s /\ r[2] = chr
    BY <2>5
  <2>7. shiftcode(d) \subseteq {"SHIFT", "CTL", "ALT"} /\ togglecode(d) \subseteq {"CAPSLOCK"}
        /\ ch \in Chars \cup {"NUL"}
    BY <2>3, Tables
  <2>8. chr \in Chars \cup {"NUL"}
    BY <2>4, <2>7 DEF SwapCase, Chars, Printable
  <2>9. s \in SUBSET Mods /\ "E0ESC" \notin s
    BY <2>2, <2>7 DEF Xor, Mods
  <2>10. s \ {"CAPSLOCK"} \subseteq (sh \ {"CAPSLOCK"}) \cup shiftcode(d)
    BY <2>2, <2>7 DEF Xor
  <2>11. data # E0 /\ ~(data >= 128)
    BY <1>3 DEF E0
  <2> QED BY <2>1, <2>6, <2>8, <2>9, <2>10, <2>11
<1> QED BY <1>1, <1>2, <1>3
\* The branches one by one: types, the prefix, a release, a press.
LEMMA KbdTypes ==
    ASSUME NEW sh \in SUBSET Mods, NEW data \in 0..255
    PROVE  /\ KbdProcData(sh, data)[1] \in SUBSET Mods
           /\ KbdProcData(sh, data)[2] \in Chars \cup {"NUL"}
<1>1. PICK r : r = KbdProcData(sh, data)
  OBVIOUS
<1>2. r[1] \in SUBSET Mods /\ r[2] \in Chars \cup {"NUL"}
  BY <1>1, KbdBranches, Zenon
<1> QED BY <1>1, <1>2

\* The prefix E0 is remembered.
LEMMA KbdPrefix ==
    ASSUME NEW sh \in SUBSET Mods
    PROVE  KbdProcData(sh, E0)[1] = sh \cup {"E0ESC"}
<1>1. PICK r : r = KbdProcData(sh, E0)
  OBVIOUS
<1>2. E0 \in 0..255
  BY DEF E0
<1>3. r[1] = sh \cup {"E0ESC"}
  BY <1>1, <1>2, KbdBranches, Zenon
<1> QED BY <1>1, <1>3

\* A release code, for the key whose number is k.
LEMMA KbdBreak ==
    ASSUME NEW sh \in SUBSET Mods, NEW data \in 0..255, data # E0, data >= 128,
           NEW k, k = IF "E0ESC" \in sh THEN data ELSE data % 128
    PROVE  KbdProcData(sh, data)[1] = sh \ (shiftcode(k) \cup {"E0ESC"})
<1>1. PICK r : r = KbdProcData(sh, data)
  OBVIOUS
<1>2. r[1] = sh \ (shiftcode(IF "E0ESC" \in sh THEN data ELSE data % 128) \cup {"E0ESC"})
  <2>1. r = <<KbdRelease(sh, data), "NUL">>
    BY <1>1 DEF KbdProcData
  <2>2. r[1] = KbdRelease(sh, data)
    BY <2>1
  <2> QED BY <2>2 DEF KbdRelease
<1> QED BY <1>1, <1>2

\* A make code, for the key whose number is k.
LEMMA KbdMake ==
    ASSUME NEW sh \in SUBSET Mods, NEW data \in 0..255, data < 128,
           NEW k, k = IF "E0ESC" \in sh THEN data + 128 ELSE data,
           NEW H, sh \ {"CAPSLOCK", "E0ESC"} \subseteq H
    PROVE  Quiet(KbdProcData(sh, data)[1], H \cup shiftcode(k))
<1>1. PICK r : r = KbdProcData(sh, data)
  OBVIOUS
<1>2. LET d == IF "E0ESC" \in sh THEN data + 128 ELSE data
      IN  /\ "E0ESC" \notin r[1]
          /\ r[1] \ {"CAPSLOCK"} \subseteq (sh \ {"CAPSLOCK"}) \cup shiftcode(d)
  BY <1>1, KbdBranches, Zenon
<1>3. "E0ESC" \notin r[1] /\ r[1] \ {"CAPSLOCK"} \subseteq (sh \ {"CAPSLOCK"}) \cup shiftcode(k)
  BY <1>2
<1> QED BY <1>1, <1>3 DEF Quiet

\* The driver's state after one more byte.
LEMMA DriveOne ==
    ASSUME NEW sh, NEW p, NEW x, DrivesTo(sh, p, x), NEW b \in 0..255
    PROVE  DrivesTo(sh, p \o <<b>>, KbdProcData(x, b)[1])
<1>0. p \in Seq(0..255) /\ x \in SUBSET Mods
  BY DEF DrivesTo
<1>1. PICK n \in Nat : n = Len(p)
  BY <1>0
<1>2. PICK f : /\ f \in [0..n -> SUBSET Mods] /\ f[0] = sh /\ f[n] = x
               /\ \A i \in 1..n : f[i] = KbdProcData(f[i - 1], p[i])[1]
  BY <1>1 DEF DrivesTo, Drives
<1>3. PICK q : q = p \o <<b>>
  OBVIOUS
<1>4. q \in Seq(0..255) /\ Len(q) = n + 1 /\ q[n + 1] = b /\ \A i \in 1..n : q[i] = p[i]
  BY <1>0, <1>1, <1>3
<1>5. PICK last : last = KbdProcData(x, b)[1]
  OBVIOUS
<1>6. last \in SUBSET Mods
  BY <1>0, <1>5, KbdTypes
<1>7. PICK g : g = [i \in 0..n+1 |-> IF i = n + 1 THEN last ELSE f[i]]
  OBVIOUS
<1>8. g \in [0..n+1 -> SUBSET Mods] /\ g[0] = sh /\ g[n + 1] = last /\ \A i \in 0..n : g[i] = f[i]
  BY <1>2, <1>6, <1>7
<1>9. ASSUME NEW i \in 1..n+1 PROVE g[i] = KbdProcData(g[i - 1], q[i])[1]
  <2>1. CASE i = n + 1
    <3>1. g[i - 1] = x /\ q[i] = b
      BY <1>2, <1>4, <1>8, <2>1
    <3> QED BY <1>5, <1>8, <2>1, <3>1
  <2>2. CASE i # n + 1
    <3>1. i \in 1..n /\ i - 1 \in 0..n
      BY <2>2
    <3>2. g[i] = f[i] /\ g[i - 1] = f[i - 1] /\ q[i] = p[i]
      BY <1>4, <1>8, <3>1
    <3> QED BY <1>2, <3>1, <3>2
  <2> QED BY <2>1, <2>2
<1>10. Drives(g, sh, q) /\ g[Len(q)] = last
  BY <1>4, <1>8, <1>9 DEF Drives
<1> QED BY <1>3, <1>4, <1>5, <1>6, <1>10 DEF DrivesTo

\* A prefix and one more byte.
LEMMA DriveTwo ==
    ASSUME NEW sh, NEW p, NEW x, DrivesTo(sh, p, x), NEW b \in 0..255
    PROVE  DrivesTo(sh, p \o (<<E0>> \o <<b>>), KbdProcData(x \cup {"E0ESC"}, b)[1])
<1>1. E0 \in 0..255
  BY DEF E0
<1>2. p \in Seq(0..255) /\ x \in SUBSET Mods
  BY DEF DrivesTo
<1>3. DrivesTo(sh, p \o <<E0>>, x \cup {"E0ESC"})
  <2>1. KbdProcData(x, E0)[1] = x \cup {"E0ESC"}
    BY <1>2, KbdPrefix
  <2>2. DrivesTo(sh, p \o <<E0>>, KbdProcData(x, E0)[1])
    BY <1>1, DriveOne
  <2> QED BY <2>1, <2>2, Zenon
<1>4. (p \o <<E0>>) \o <<b>> = p \o (<<E0>> \o <<b>>)
  <2>1. <<E0>> \in Seq(0..255) /\ <<b>> \in Seq(0..255)
    BY <1>1
  <2> QED BY <1>2, <2>1, ConcatAssociative
<1>5. DrivesTo(sh, (p \o <<E0>>) \o <<b>>, KbdProcData(x \cup {"E0ESC"}, b)[1])
  BY <1>3, DriveOne
<1> QED BY <1>4, <1>5, Zenon

\* The driver's states from its next byte on.
LEMMA DriveTail ==
    ASSUME NEW sh, NEW p, NEW x, DrivesTo(sh, p, x), p # <<>>
    PROVE  /\ sh \in SUBSET Mods /\ Head(p) \in 0..255
           /\ DrivesTo(KbdProcData(sh, Head(p))[1], Tail(p), x)
<1>0. p \in Seq(0..255) /\ x \in SUBSET Mods
  BY DEF DrivesTo
<1>1. PICK n \in Nat : n + 1 = Len(p)
  <2>1. Len(p) \in Nat /\ Len(p) # 0
    BY <1>0
  <2>2. Len(p) - 1 \in Nat /\ (Len(p) - 1) + 1 = Len(p)
    BY <2>1
  <2> QED BY <2>2
<1>2. PICK f : /\ f \in [0..n+1 -> SUBSET Mods] /\ f[0] = sh /\ f[n + 1] = x
               /\ \A i \in 1..n+1 : f[i] = KbdProcData(f[i - 1], p[i])[1]
  BY <1>1 DEF DrivesTo, Drives
<1>3. PICK q : q = Tail(p)
  OBVIOUS
<1>4. /\ q \in Seq(0..255) /\ Len(q) = n /\ Head(p) = p[1] /\ Head(p) \in 0..255
      /\ \A i \in 1..n : q[i] = p[i + 1]
  BY <1>0, <1>1, <1>3, HeadTailProperties
<1>5. PICK g : g = [i \in 0..n |-> f[i + 1]]
  OBVIOUS
<1>6. g \in [0..n -> SUBSET Mods] /\ g[0] = f[1] /\ g[n] = x /\ \A i \in 0..n : g[i] = f[i + 1]
  BY <1>2, <1>5
<1>7. ASSUME NEW i \in 1..n PROVE g[i] = KbdProcData(g[i - 1], q[i])[1]
  <2>1. i + 1 \in 1..n+1 /\ i - 1 \in 0..n /\ (i - 1) + 1 = i /\ (i + 1) - 1 = i /\ i \in 0..n
    OBVIOUS
  <2>2. f[i + 1] = KbdProcData(f[(i + 1) - 1], p[i + 1])[1]
    BY <1>2, <2>1
  <2>3. g[i] = f[i + 1] /\ g[i - 1] = f[i] /\ q[i] = p[i + 1]
    BY <1>4, <1>6, <2>1
  <2> QED BY <2>1, <2>2, <2>3
<1>8. Drives(g, f[1], q) /\ g[Len(q)] = x
  BY <1>4, <1>6, <1>7 DEF Drives
<1>9. f[1] = KbdProcData(sh, Head(p))[1]
  <2>1. 1 \in 1..n+1 /\ 1 - 1 = 0
    OBVIOUS
  <2>2. f[1] = KbdProcData(f[1 - 1], p[1])[1]
    BY <1>2, <2>1
  <2> QED BY <1>2, <1>4, <2>1, <2>2
<1>10. DrivesTo(f[1], q, x)
  BY <1>0, <1>4, <1>8 DEF DrivesTo
<1>11. sh \in SUBSET Mods
  BY <1>2
<1> QED BY <1>3, <1>4, <1>9, <1>10, <1>11

\* Keys are bytes.
LEMMA KeyRange == \A k \in Keys : k \in 0..255 /\ (k < 128 \/ k >= 128)
<1>1. \A k \in Keys : k \in 0..255
  BY ConsoleAssumption
<1> QED BY <1>1

\* The codes of a key: one byte, or two of which the first is E0.
LEMMA Codes ==
    ASSUME NEW k \in Keys
    PROVE  /\ k \in 0..255
           /\ k < 128 => /\ Make(k) = <<k>> /\ k # E0
                         /\ Break(k) = <<k + 128>> /\ k + 128 # E0 /\ k + 128 \in 0..255
                         /\ (k + 128) % 128 = k
           /\ k >= 128 => /\ Make(k) = <<E0>> \o <<k - 128>> /\ k - 128 \in 0..127
                          /\ Break(k) = <<E0>> \o <<k>> /\ k # E0 /\ (k - 128) + 128 = k
<1>1. k \in 0..255 /\ k # E0 /\ k # E0 - 128
  BY ConsoleAssumption
<1>2. CASE k < 128
  <2>1. Make(k) = <<k>> /\ Break(k) = <<k + 128>>
    BY <1>1, <1>2 DEF Make, Break
  <2>2. k + 128 # E0 /\ k + 128 \in 0..255 /\ (k + 128) % 128 = k
    BY <1>1, <1>2 DEF E0
  <2> QED BY <1>1, <1>2, <2>1, <2>2
<1>3. CASE k >= 128
  <2>1. Make(k) = <<E0, k - 128>> /\ Break(k) = <<E0, k>>
    BY <1>1, <1>3 DEF Make, Break
  <2>2. ASSUME NEW a, NEW b PROVE <<a, b>> = <<a>> \o <<b>>
    <3>1. PICK s : s = <<a>> \o <<b>>
      OBVIOUS
    <3>2. s \in Seq({a, b}) /\ Len(s) = 2 /\ s[1] = a /\ s[2] = b
      BY <3>1
    <3>3. PICK t : t = <<a, b>>
      OBVIOUS
    <3>4. t \in Seq({a, b}) /\ Len(t) = 2 /\ t[1] = a /\ t[2] = b
      BY <3>3
    <3>5. \A i \in 1..Len(s) : s[i] = t[i]
      BY <3>2, <3>4
    <3>6. s = t
      BY <3>2, <3>4, <3>5, SeqEqual
    <3> QED BY <3>1, <3>3, <3>6
  <2>3. k - 128 \in 0..127 /\ (k - 128) + 128 = k
    BY <1>1, <1>3
  <2>4. Make(k) = <<E0>> \o <<k - 128>> /\ Break(k) = <<E0>> \o <<k>>
    BY <2>1, <2>2
  <2> QED BY <1>1, <1>3, <2>3, <2>4
<1> QED BY <1>1, <1>2, <1>3

\* A key that is pressed adds its own modifier.
LEMMA PressDrives ==
    ASSUME NEW sh, NEW p, NEW x, DrivesTo(sh, p, x), NEW H, Quiet(x, H), NEW k \in Keys
    PROVE  \E y : DrivesTo(sh, p \o Make(k), y) /\ Quiet(y, H \cup shiftcode(k))
<1>1. x \in SUBSET Mods
  BY DEF DrivesTo
<1>2. "E0ESC" \notin x /\ x \ {"CAPSLOCK"} \subseteq H
  BY DEF Quiet
<1>3. CASE k < 128
  <2>1. Make(k) = <<k>> /\ k \in 0..255
    BY <1>3, Codes
  <2>2. DrivesTo(sh, p \o Make(k), KbdProcData(x, k)[1])
    BY <2>1, DriveOne
  <2>3. k = IF "E0ESC" \in x THEN k + 128 ELSE k
    BY <1>2
  <2>4. Quiet(KbdProcData(x, k)[1], H \cup shiftcode(k))
    <3>1. x \ {"CAPSLOCK", "E0ESC"} \subseteq H
      BY <1>2
    <3> QED BY <1>1, <1>3, <2>1, <2>3, <3>1, KbdMake
  <2> QED BY <2>2, <2>4
<1>4. CASE k >= 128
  <2>1. PICK b \in 0..127 : Make(k) = <<E0>> \o <<b>> /\ b + 128 = k
    BY <1>4, Codes
  <2>2. b \in 0..255 /\ b < 128
    OBVIOUS
  <2>3. PICK z : z = x \cup {"E0ESC"}
    OBVIOUS
  <2>4. DrivesTo(sh, p \o Make(k), KbdProcData(z, b)[1])
    BY <2>1, <2>2, <2>3, DriveTwo
  <2>5. z \in SUBSET Mods /\ k = IF "E0ESC" \in z THEN b + 128 ELSE b
    BY <1>1, <2>1, <2>3 DEF Mods
  <2>6. z \ {"CAPSLOCK", "E0ESC"} \subseteq H
    BY <1>2, <2>3
  <2>7. Quiet(KbdProcData(z, b)[1], H \cup shiftcode(k))
    BY <2>2, <2>5, <2>6, KbdMake
  <2> QED BY <2>4, <2>7
<1> QED BY <1>3, <1>4, KeyRange

\* A key that is released takes its modifier away.
LEMMA ReleaseDrives ==
    ASSUME NEW sh, NEW p, NEW x, DrivesTo(sh, p, x), NEW H, Quiet(x, H), NEW k \in Keys
    PROVE  \E y : DrivesTo(sh, p \o Break(k), y) /\ Quiet(y, H \ shiftcode(k))
<1>1. x \in SUBSET Mods
  BY DEF DrivesTo
<1>2. "E0ESC" \notin x /\ x \ {"CAPSLOCK"} \subseteq H
  BY DEF Quiet
<1>3. CASE k < 128
  <2>1. PICK b \in 0..255 : b = k + 128 /\ Break(k) = <<b>> /\ b # E0 /\ b % 128 = k
    BY ZenonT(60), <1>3, Codes
  <2>2. b >= 128
    BY <2>1, KeyRange
  <2>3. DrivesTo(sh, p \o Break(k), KbdProcData(x, b)[1])
    BY ZenonT(60), <2>1, DriveOne
  <2>4. k = IF "E0ESC" \in x THEN b ELSE b % 128
    BY <1>2, <2>1
  <2>5. KbdProcData(x, b)[1] = x \ (shiftcode(k) \cup {"E0ESC"})
    <3>1. x \in SUBSET Mods /\ b # E0 /\ b >= 128
      BY <1>1, <2>1, <2>2
    <3>2. PICK j : j = IF "E0ESC" \in x THEN b ELSE b % 128
      OBVIOUS
    <3>3. KbdProcData(x, b)[1] = x \ (shiftcode(j) \cup {"E0ESC"})
      BY ZenonT(60), <3>1, <3>2, KbdBreak
    <3>4. j = k
      BY <2>4, <3>2
    <3> QED BY ZenonT(60), <3>3, <3>4
  <2>6. Quiet(x \ (shiftcode(k) \cup {"E0ESC"}), H \ shiftcode(k))
    BY <1>2 DEF Quiet
  <2> QED BY <2>3, <2>5, <2>6
<1>4. CASE k >= 128
  <2>1. Break(k) = <<E0>> \o <<k>> /\ k \in 0..255 /\ k # E0
    BY ZenonT(60), <1>4, Codes
  <2>2. PICK z : z = x \cup {"E0ESC"}
    OBVIOUS
  <2>3. DrivesTo(sh, p \o Break(k), KbdProcData(z, k)[1])
    BY <2>1, <2>2, DriveTwo
  <2>4. z \in SUBSET Mods /\ k = IF "E0ESC" \in z THEN k ELSE k % 128
    BY <1>1, <2>2 DEF Mods
  <2>5. KbdProcData(z, k)[1] = z \ (shiftcode(k) \cup {"E0ESC"})
    BY <1>4, <2>1, <2>4, KbdBreak
  <2>6. Quiet(z \ (shiftcode(k) \cup {"E0ESC"}), H \ shiftcode(k))
    BY <1>2, <2>2 DEF Quiet
  <2> QED BY <2>3, <2>5, <2>6
<1> QED BY <1>3, <1>4, KeyRange
-----------------------------------------------------------------------------
(* Every step keeps the invariant, and is a step of InputQueue.             *)

\* cons_intr with what a device delivered.
LEMMA PutStep ==
    ASSUME IInv, NEW ch \in Chars \cup {"NUL"}, cons' = Put(cons, ch), c' = c
    PROVE  /\ cons' \in Rings
           /\ \A i \in 1..Count(cons') : cons'.buf[Slot(cons', i)] \in Chars
           /\ [Queue!Next]_<<Waiting(cons), c>>
<1>1. cons \in Rings /\ \A i \in 1..Count(cons) : cons.buf[Slot(cons, i)] \in Chars
  BY DEF IInv, ConsoleTypes, ReaderInv
<1>2. CASE ch = "NUL"
  <2>1. cons' = cons
    BY <1>2 DEF Put
  <2> QED BY <1>1, <2>1
<1>3. CASE ch # "NUL"
  <2>1. ch \in Chars
    BY <1>3
  <2>2. PICK d : d = Put(cons, ch)
    OBVIOUS
  <2>3. /\ d \in Rings
        /\ Waiting(d) = IF Len(Waiting(cons)) + 1 = CONSBUFSIZE THEN <<>>
                        ELSE Append(Waiting(cons), ch)
        /\ \A i \in 1..Count(d) : d.buf[Slot(d, i)] \in Chars
    BY <1>1, <2>1, <2>2, PutAppends
  <2>4. cons' = d
    BY <2>2
  <2>5. Queue!Arrive(ch)
    BY <2>3, <2>4 DEF Queue!Arrive
  <2> QED BY <2>1, <2>3, <2>4, <2>5 DEF Queue!Next
<1> QED BY <1>2, <1>3

\* A key is pressed, or repeats.
LEMMA PressKeeps ==
    ASSUME IInv, NEW k \in Keys, Press(k)
    PROVE  IInv' /\ [Queue!Next]_<<Waiting(cons), c>>
<1>1. /\ pending' = pending \o Make(k) /\ held' = held \cup {k}
      /\ scene' = scene /\ rx' = rx /\ shift' = shift /\ cons' = cons /\ pc' = pc
      /\ c' = c /\ line' = line /\ screen' = screen
  BY DEF Press, Send
<1>2. ConsoleTypes /\ ReaderInv /\ LineInv
  BY DEF IInv
<1>3. PICK x : DrivesTo(shift, pending, x) /\ Quiet(x, HeldMods)
  BY DEF IInv, KeyboardInv
<1>4. PICK y : DrivesTo(shift, pending \o Make(k), y) /\ Quiet(y, HeldMods \cup shiftcode(k))
  BY <1>3, PressDrives
<1>5. HeldMods' = HeldMods \cup shiftcode(k)
  BY <1>1 DEF HeldMods
<1>6. DrivesTo(shift', pending', y) /\ Quiet(y, HeldMods')
  BY <1>1, <1>4, <1>5
<1>7. KeyboardInv'
  BY <1>6 DEF KeyboardInv
<1>8. ConsoleTypes'
  <2>1. pending' \in Seq(0..255)
    BY <1>6 DEF DrivesTo
  <2> QED BY <1>1, <1>2, <2>1 DEF ConsoleTypes
<1>9. ReaderInv' /\ LineInv'
  BY <1>1, <1>2 DEF ReaderInv, LineInv
<1> QED BY <1>1, <1>7, <1>8, <1>9 DEF IInv

\* A key is released.
LEMMA ReleaseKeeps ==
    ASSUME IInv, NEW k \in Keys, Release(k)
    PROVE  IInv' /\ [Queue!Next]_<<Waiting(cons), c>>
<1>1. /\ k \in held /\ pending' = pending \o Break(k) /\ held' = held \ {k}
      /\ scene' = scene /\ rx' = rx /\ shift' = shift /\ cons' = cons /\ pc' = pc
      /\ c' = c /\ line' = line /\ screen' = screen
  BY DEF Release, Send
<1>2. ConsoleTypes /\ ReaderInv /\ LineInv
  BY DEF IInv
<1>3. PICK x : DrivesTo(shift, pending, x) /\ Quiet(x, HeldMods)
  BY DEF IInv, KeyboardInv
<1>4. PICK y : DrivesTo(shift, pending \o Break(k), y) /\ Quiet(y, HeldMods \ shiftcode(k))
  BY <1>3, ReleaseDrives
<1>5. HeldMods \ shiftcode(k) \subseteq HeldMods'
  BY <1>1 DEF HeldMods
<1>6. DrivesTo(shift', pending', y) /\ Quiet(y, HeldMods')
  BY <1>1, <1>4, <1>5 DEF Quiet
<1>7. KeyboardInv'
  BY <1>6 DEF KeyboardInv
<1>8. ConsoleTypes'
  <2>1. pending' \in Seq(0..255)
    BY <1>6 DEF DrivesTo
  <2> QED BY <1>1, <1>2, <2>1 DEF ConsoleTypes
<1>9. ReaderInv' /\ LineInv'
  BY <1>1, <1>2 DEF ReaderInv, LineInv
<1> QED BY <1>1, <1>7, <1>8, <1>9 DEF IInv

\* A byte arrives on the serial line.
LEMMA ReceiveKeeps ==
    ASSUME IInv, NEW b \in SerialBytes, Receive(b)
    PROVE  IInv' /\ [Queue!Next]_<<Waiting(cons), c>>
<1>1. /\ rx' = b /\ scene' = scene /\ held' = held /\ pending' = pending /\ shift' = shift
      /\ cons' = cons /\ pc' = pc /\ c' = c /\ line' = line /\ screen' = screen
  BY DEF Receive
<1>2. b \in Chars \cup {"NUL", NULL}
  BY ConsoleAssumption
<1>3. ConsoleTypes'
  BY <1>1, <1>2 DEF IInv, ConsoleTypes
<1>4. ReaderInv' /\ LineInv' /\ KeyboardInv'
  BY <1>1 DEF IInv, ReaderInv, LineInv, KeyboardInv, HeldMods
<1> QED BY <1>1, <1>3, <1>4 DEF IInv

\* serial_intr.
LEMMA SerialKeeps ==
    ASSUME IInv, SerialIntr
    PROVE  IInv' /\ [Queue!Next]_<<Waiting(cons), c>>
<1>1. /\ scene' = scene /\ held' = held /\ pending' = pending /\ shift' = shift
      /\ c' = c /\ line' = line /\ screen' = screen /\ pc = "serial"
  BY DEF SerialIntr
<1>2. ConsoleTypes /\ ReaderInv /\ LineInv
  BY DEF IInv
<1>3. KeyboardInv'
  BY <1>1 DEF IInv, KeyboardInv, HeldMods
<1>4. CASE rx = NULL
  <2>1. pc' = "kbd" /\ rx' = rx /\ cons' = cons
    BY <1>4 DEF SerialIntr
  <2>2. ConsoleTypes' /\ ReaderInv' /\ LineInv'
    BY <1>1, <1>2, <2>1 DEF ConsoleTypes, ReaderInv, LineInv
  <2> QED BY <1>1, <1>3, <2>1, <2>2 DEF IInv
<1>5. CASE rx # NULL
  <2>1. pc' = pc /\ rx' = NULL /\ cons' = Put(cons, rx) /\ rx \in Chars \cup {"NUL"}
    BY <1>2, <1>5 DEF SerialIntr, ConsoleTypes
  <2>2. /\ cons' \in Rings
        /\ \A i \in 1..Count(cons') : cons'.buf[Slot(cons', i)] \in Chars
        /\ [Queue!Next]_<<Waiting(cons), c>>
    BY <1>1, <2>1, PutStep
  <2>3. ConsoleTypes' /\ LineInv'
    BY <1>1, <1>2, <2>1, <2>2 DEF ConsoleTypes, LineInv
  <2>4. ReaderInv'
    BY <1>1, <1>2, <2>1, <2>2 DEF ReaderInv
  <2> QED BY <1>3, <2>2, <2>3, <2>4 DEF IInv
<1> QED BY <1>4, <1>5

\* kbd_intr.
LEMMA KbdKeeps ==
    ASSUME IInv, KbdIntr
    PROVE  IInv' /\ [Queue!Next]_<<Waiting(cons), c>>
<1>1. /\ scene' = scene /\ held' = held /\ rx' = rx
      /\ c' = c /\ line' = line /\ screen' = screen /\ pc = "kbd"
  BY DEF KbdIntr
<1>2. ConsoleTypes /\ ReaderInv /\ LineInv
  BY DEF IInv
<1>3. CASE pending = <<>>
  <2>1. pc' = "take" /\ pending' = pending /\ shift' = shift /\ cons' = cons
    BY <1>3 DEF KbdIntr
  <2>2. ConsoleTypes' /\ ReaderInv' /\ LineInv'
    BY <1>1, <1>2, <2>1 DEF ConsoleTypes, ReaderInv, LineInv
  <2>3. KeyboardInv'
    BY <1>1, <2>1 DEF IInv, KeyboardInv, HeldMods
  <2> QED BY <1>1, <2>1, <2>2, <2>3 DEF IInv
<1>4. CASE pending # <<>>
  <2>1. PICK r : r = KbdProcData(shift, Head(pending))
    OBVIOUS
  <2>2. pc' = pc /\ pending' = Tail(pending) /\ shift' = r[1] /\ cons' = Put(cons, r[2])
    BY <1>4, <2>1 DEF KbdIntr
  <2>3. PICK x : DrivesTo(shift, pending, x) /\ Quiet(x, HeldMods)
    BY DEF IInv, KeyboardInv
  <2>4. shift \in SUBSET Mods /\ Head(pending) \in 0..255 /\ DrivesTo(r[1], Tail(pending), x)
    BY <1>4, <2>1, <2>3, DriveTail
  <2>5. r[1] \in SUBSET Mods /\ r[2] \in Chars \cup {"NUL"}
    BY <2>1, <2>4, KbdTypes
  <2>6. HeldMods' = HeldMods
    BY <1>1 DEF HeldMods
  <2>7. KeyboardInv'
    BY <2>2, <2>3, <2>4, <2>6 DEF KeyboardInv
  <2>8. /\ cons' \in Rings
        /\ \A i \in 1..Count(cons') : cons'.buf[Slot(cons', i)] \in Chars
        /\ [Queue!Next]_<<Waiting(cons), c>>
    BY <1>1, <2>2, <2>5, PutStep
  <2>9. ConsoleTypes'
    <3>1. pending' \in Seq(0..255) /\ shift' \subseteq Mods
      BY <2>2, <2>4, <2>5 DEF DrivesTo
    <3> QED BY <1>1, <1>2, <2>2, <2>8, <3>1 DEF ConsoleTypes
  <2>10. ReaderInv' /\ LineInv'
    BY <1>1, <1>2, <2>2, <2>8 DEF ReaderInv, LineInv
  <2> QED BY <2>7, <2>8, <2>9, <2>10 DEF IInv
<1> QED BY <1>3, <1>4
\* The end of cons_getc.
LEMMA TakeKeeps ==
    ASSUME IInv, Take
    PROVE  IInv' /\ [Queue!Next]_<<Waiting(cons), c>>
<1>1. /\ scene' = scene /\ held' = held /\ pending' = pending /\ rx' = rx /\ shift' = shift
      /\ line' = line /\ screen' = screen /\ pc = "take"
  BY DEF Take, devices
<1>2. ConsoleTypes /\ ReaderInv /\ LineInv
  BY DEF IInv
<1>3. KeyboardInv'
  BY <1>1 DEF IInv, KeyboardInv, HeldMods
<1>4. CASE cons.rpos = cons.wpos
  <2>1. pc' = "serial" /\ cons' = cons /\ c' = c
    BY <1>4 DEF Take
  <2>2. ConsoleTypes' /\ ReaderInv' /\ LineInv'
    BY <1>1, <1>2, <2>1 DEF ConsoleTypes, ReaderInv, LineInv
  <2> QED BY <1>3, <2>1, <2>2 DEF IInv
<1>5. CASE cons.rpos # cons.wpos
  <2>1. PICK d : d = [cons EXCEPT !.rpos = Wrap(@ + 1)]
    OBVIOUS
  <2>2. pc' = "use" /\ c' = cons.buf[cons.rpos] /\ cons' = d
    BY <1>5, <2>1 DEF Take
  <2>3. cons \in Rings
    BY <1>2 DEF ConsoleTypes
  <2>4. /\ d \in Rings /\ Waiting(cons) # <<>> /\ 1 \in 1..Count(cons)
        /\ cons.buf[cons.rpos] = Head(Waiting(cons)) /\ Slot(cons, 1) = cons.rpos
        /\ Waiting(d) = Tail(Waiting(cons))
        /\ Count(d) = Count(cons) - 1
        /\ \A i \in 1..Count(d) : d.buf[Slot(d, i)] = cons.buf[Slot(cons, i + 1)]
    BY <1>5, <2>1, <2>3, TakeHead
  <2>5. \A i \in 1..Count(cons) : cons.buf[Slot(cons, i)] \in Chars
    BY <1>2 DEF ReaderInv
  <2>6. c' \in Chars
    BY <2>2, <2>4, <2>5
  <2>7. \A i \in 1..Count(d) : d.buf[Slot(d, i)] \in Chars
    <3> SUFFICES ASSUME NEW i \in 1..Count(d) PROVE d.buf[Slot(d, i)] \in Chars
      OBVIOUS
    <3>1. Count(cons) \in Nat
      BY <2>3, WaitingIsSeq
    <3>2. i + 1 \in 1..Count(cons)
      BY <2>4, <3>1
    <3> QED BY <2>4, <2>5, <3>2
  <2>8. ReaderInv'
    BY <2>2, <2>6, <2>7 DEF ReaderInv
  <2>9. ConsoleTypes' /\ LineInv'
    BY <1>1, <1>2, <2>2, <2>4 DEF ConsoleTypes, LineInv
  <2>10. Queue!Read
    <3>1. c = NULL
      BY <1>1, <1>2 DEF ReaderInv
    <3> QED BY <2>2, <2>4, <3>1 DEF Queue!Read
  <2> QED BY <1>3, <2>8, <2>9, <2>10 DEF IInv, Queue!Next
<1> QED BY <1>4, <1>5

\* What the steps of a reader leave alone, and that they use up a character.
LEMMA UseStep ==
    ASSUME IInv, pc = "use", c' = NULL, pc' \in {"serial", "runcmd"},
           UNCHANGED <<scene, devices, shift, cons>>
    PROVE  ReaderInv' /\ KeyboardInv' /\ Queue!Next
<1>1. /\ scene' = scene /\ held' = held /\ pending' = pending /\ rx' = rx /\ shift' = shift
      /\ cons' = cons
  BY DEF devices
<1>2. ReaderInv'
  BY <1>1 DEF IInv, ReaderInv
<1>3. KeyboardInv'
  BY <1>1 DEF IInv, KeyboardInv, HeldMods
<1>4. c # NULL
  BY ConsoleAssumption DEF IInv, ReaderInv
<1>5. Queue!Use
  BY <1>1, <1>4 DEF Queue!Use
<1> QED BY <1>2, <1>3, <1>5 DEF Queue!Next

\* One character of readline.
LEMMA ReadlineKeeps ==
    ASSUME IInv, Readline
    PROVE  IInv' /\ [Queue!Next]_<<Waiting(cons), c>>
<1>1. /\ pc = "use" /\ c' = NULL /\ pc' \in {"serial", "runcmd"}
      /\ UNCHANGED <<scene, devices, shift, cons>>
  BY DEF Readline
<1>2. ReaderInv' /\ KeyboardInv' /\ Queue!Next
  BY <1>1, UseStep
<1>3. /\ line \in Seq(Printable) /\ screen \in Screens /\ Len(line) <= BUFLEN - 1
      /\ ShowsLine(screen, line) /\ c \in Chars
  BY <1>1 DEF IInv, ConsoleTypes, LineInv, ReaderInv
<1>4. /\ line' \in Seq(Printable) /\ screen' \in Screens /\ Len(line') <= BUFLEN - 1
      /\ pc' = "runcmd" => line' = <<>>
      /\ ShowsLine(screen', line')
  <2>1. CASE /\ c \in {"BS", "RUBOUT"} /\ line # <<>>
             /\ Echo("BS") /\ line' = SubSeq(line, 1, Len(line) - 1) /\ pc' = "serial"
    <3>1. screen' = CgaPutc(screen, "BS") /\ "BS" \in Chars
      BY <2>1 DEF Echo, Chars
    <3>2. screen' \in Screens
      BY <1>3, <3>1, CgaPutcFits
    <3>3. ShowsLine(screen', line')
      BY <1>3, <2>1, <3>1, BackspaceShows
    <3>4. line' \in Seq(Printable) /\ Len(line') <= BUFLEN - 1
      BY <1>3, <2>1, ScreenSize
    <3> QED BY <2>1, <3>2, <3>3, <3>4
  <2>2. CASE c \in Printable /\ KeepChar /\ pc' = "serial"
    <3>1. CASE Len(line) < BUFLEN - 1
      <4>1. screen' = CgaPutc(screen, c) /\ line' = Append(line, c)
        BY <2>2, <3>1 DEF KeepChar, Echo
      <4>2. screen' = Glyph(screen, c) /\ screen' \in Screens
        BY <1>3, <2>2, <4>1, CgaPutcFits
      <4>3. ShowsLine(screen', line')
        BY <1>3, <2>2, <4>1, <4>2, GlyphFits
      <4>4. line' \in Seq(Printable) /\ Len(line') <= BUFLEN - 1
        BY <1>3, <2>2, <3>1, <4>1, ScreenSize
      <4> QED BY <2>2, <4>2, <4>3, <4>4
    <3>2. CASE ~(Len(line) < BUFLEN - 1)
      <4>1. line' = line /\ screen' = screen
        BY <2>2, <3>2 DEF KeepChar
      <4> QED BY <1>3, <2>2, <4>1
    <3> QED BY <3>1, <3>2
  <2>3. CASE Echo("LF") /\ line' = <<>>
    <3>1. screen' = CgaPutc(screen, "LF") /\ "LF" \in Chars
      BY <2>3 DEF Echo, Chars
    <3>2. screen' \in Screens
      BY <1>3, <3>1, CgaPutcFits
    <3>3. Len(line') = 0 /\ line' \in Seq(Printable)
      BY <2>3
    <3>4. ShowsLine(screen', line')
      BY <3>3 DEF ShowsLine
    <3> QED BY <2>3, <3>2, <3>3, <3>4, ScreenSize
  <2>4. CASE pc' = "serial" /\ line' = line /\ screen' = screen
    BY <1>3, <2>4
  <2> QED BY <2>1, <2>2, <2>3, <2>4 DEF Readline
<1>5. ConsoleTypes'
  BY <1>1, <1>4 DEF IInv, ConsoleTypes, devices
<1>6. LineInv'
  BY <1>4 DEF LineInv
<1> QED BY <1>2, <1>5, <1>6 DEF IInv

\* A user program gets its character.
LEMMA UserKeeps ==
    ASSUME IInv, UserGetchar
    PROVE  IInv' /\ [Queue!Next]_<<Waiting(cons), c>>
<1>1. pc = "use" /\ c' = NULL /\ UNCHANGED <<scene, devices, shift, cons>> /\ pc' = "serial"
      /\ line' = line /\ screen' = screen
  BY DEF UserGetchar
<1>2. ReaderInv' /\ KeyboardInv' /\ Queue!Next
  BY <1>1, UseStep
<1>3. ConsoleTypes' /\ LineInv'
  BY <1>1 DEF IInv, ConsoleTypes, LineInv, devices
<1> QED BY <1>2, <1>3 DEF IInv

\* A command prints, or the monitor prompts: the line is empty.
LEMMA PrintKeeps ==
    ASSUME IInv, NEW ch \in Chars, pc = "runcmd", screen' = CgaPutc(screen, ch),
           pc' \in {"runcmd", "serial"}, UNCHANGED <<scene, devices, shift, cons, c, line>>
    PROVE  IInv' /\ [Queue!Next]_<<Waiting(cons), c>>
<1>1. /\ scene' = scene /\ held' = held /\ pending' = pending /\ rx' = rx /\ shift' = shift
      /\ cons' = cons /\ c' = c /\ line' = line
  BY DEF devices
<1>2. screen' \in Screens
  BY CgaPutcFits DEF IInv, ConsoleTypes
<1>3. ConsoleTypes' /\ ReaderInv' /\ KeyboardInv'
  BY <1>1, <1>2 DEF IInv, ConsoleTypes, ReaderInv, KeyboardInv, HeldMods
<1>4. line = <<>> /\ Len(line) = 0
  BY DEF IInv, LineInv
<1>5. LineInv'
  BY <1>1, <1>4, ScreenSize DEF LineInv, ShowsLine
<1> QED BY <1>1, <1>3, <1>5 DEF IInv

-----------------------------------------------------------------------------
\* The console before the first key.
LEMMA InitKeeps == ASSUME Init PROVE IInv /\ Queue!Init
<1>1. /\ scene \in Scenes /\ held = {} /\ pending = <<>> /\ rx = NULL /\ shift = {}
      /\ cons = [buf |-> [i \in 0..CONSBUFSIZE-1 |-> NULL], rpos |-> 0, wpos |-> 0]
      /\ pc = "serial" /\ c = NULL /\ line = <<>>
  BY DEF Init
<1>2. cons \in Rings /\ Count(cons) = 0
  BY <1>1, SizeFact DEF Rings, Count
<1>3. Waiting(cons) = <<>>
  BY <1>2, WaitingIsSeq
<1>4. screen \in Screens
  <2>1. PICK pos \in IF scene[1] = "monitor" THEN 0..CRT_SIZE-1 ELSE {0} :
           LET s == [cells |-> [i \in 0..CRT_SIZE-1 |-> " "], pos |-> pos]
           IN screen = IF scene[1] = "monitor" THEN Prompt(s) ELSE s
    BY Zenon DEF Init
  <2>2. pos \in 0..CRT_SIZE-1
    BY ScreenSize
  <2>3. PICK s : s = [cells |-> [i \in 0..CRT_SIZE-1 |-> " "], pos |-> pos]
    OBVIOUS
  <2>4. s \in Screens /\ "K" \in Chars
    BY <2>3, <2>2 DEF Screens, Chars, Printable
  <2>5. Prompt(s) \in Screens
    BY <2>4, CgaPutcFits DEF Prompt
  <2> QED BY <2>1, <2>3, <2>4, <2>5
<1>5. ConsoleTypes
  BY <1>1, <1>2, <1>4 DEF ConsoleTypes, Mods
<1>6. ReaderInv
  BY <1>1, <1>2 DEF ReaderInv
<1>7. LineInv
  <2>1. Len(line) = 0
    BY <1>1
  <2> QED BY <1>1, <2>1, ScreenSize DEF LineInv, ShowsLine
<1>8. KeyboardInv
  <2>1. PICK f : f = [i \in 0..0 |-> {}]
    OBVIOUS
  <2>2. Len(pending) = 0 /\ pending \in Seq(0..255)
    BY <1>1
  <2>3. Drives(f, shift, pending) /\ f[Len(pending)] = {}
    BY <1>1, <2>1, <2>2 DEF Drives
  <2>4. DrivesTo(shift, pending, {})
    BY <2>2, <2>3 DEF DrivesTo
  <2>5. Quiet({}, HeldMods)
    BY DEF Quiet
  <2> QED BY <2>4, <2>5 DEF KeyboardInv
<1>9. Queue!Init
  BY <1>1, <1>3 DEF Queue!Init
<1> QED BY <1>5, <1>6, <1>7, <1>8, <1>9 DEF IInv

\* Every step keeps the invariant and is a step, or none, of the queue.
LEMMA NextKeeps == ASSUME IInv, [Next]_vars PROVE IInv' /\ [Queue!Next]_<<Waiting(cons), c>>
<1>1. CASE UNCHANGED vars
  <2>1. /\ scene' = scene /\ held' = held /\ pending' = pending /\ rx' = rx /\ shift' = shift
        /\ cons' = cons /\ pc' = pc /\ c' = c /\ line' = line /\ screen' = screen
    BY <1>1 DEF vars
  <2> QED BY <2>1 DEF IInv, ConsoleTypes, ReaderInv, LineInv, KeyboardInv, HeldMods
<1>2. ASSUME NEW k \in Keys, Press(k) \/ Release(k)
      PROVE  IInv' /\ [Queue!Next]_<<Waiting(cons), c>>
  BY <1>2, PressKeeps, ReleaseKeeps
<1>3. ASSUME NEW b \in SerialBytes, Receive(b)
      PROVE  IInv' /\ [Queue!Next]_<<Waiting(cons), c>>
  BY <1>3, ReceiveKeeps
<1>4. ASSUME NEW ch \in Outputs, CommandOutput(ch)
      PROVE  IInv' /\ [Queue!Next]_<<Waiting(cons), c>>
  <2>1. ch \in Chars
    BY ConsoleAssumption
  <2>2. /\ pc = "runcmd" /\ screen' = CgaPutc(screen, ch) /\ pc' \in {"runcmd", "serial"}
        /\ UNCHANGED <<scene, devices, shift, cons, c, line>>
    BY <1>4 DEF CommandOutput, Echo
  <2> QED BY <2>1, <2>2, PrintKeeps
<1>5. CASE NextPrompt
  <2>1. "K" \in Chars
    BY DEF Chars, Printable
  <2>2. /\ pc = "runcmd" /\ screen' = CgaPutc(screen, "K") /\ pc' \in {"runcmd", "serial"}
        /\ UNCHANGED <<scene, devices, shift, cons, c, line>>
    BY <1>5 DEF NextPrompt, Prompt
  <2> QED BY <2>1, <2>2, PrintKeeps
<1>6. CASE SerialIntr
  BY <1>6, SerialKeeps
<1>7. CASE KbdIntr
  BY <1>7, KbdKeeps
<1>8. CASE Take
  BY <1>8, TakeKeeps
<1>9. CASE Readline
  BY <1>9, ReadlineKeeps
<1>10. CASE UserGetchar
  BY <1>10, UserKeeps
<1> QED BY <1>1, <1>2, <1>3, <1>4, <1>5, <1>6, <1>7, <1>8, <1>9, <1>10 DEF Next, Reader

\* The console's part of the invariant in the words of module Console.
LEMMA InvImplies == ASSUME IInv PROVE ScreenExact /\ NoStuckModifier
<1>1. ConsoleTypes /\ ReaderInv /\ LineInv
  BY DEF IInv
<1>2. TypeOK
  <2>1. c \in Chars \cup {NULL}
    BY <1>1 DEF ReaderInv
  <2>2. /\ cons.buf \in [0..CONSBUFSIZE-1 -> Chars \cup {NULL}]
        /\ cons.rpos \in 0..CONSBUFSIZE-1 /\ cons.wpos \in 0..CONSBUFSIZE-1
    BY <1>1 DEF ConsoleTypes, Rings
  <2>3. screen.cells \in [0..CRT_SIZE-1 -> Chars] /\ screen.pos \in Nat
    BY <1>1 DEF ConsoleTypes, Screens
  <2> QED BY <1>1, <2>1, <2>2, <2>3 DEF TypeOK, ConsoleTypes, Mods
<1>3. CursorOnScreen
  BY <1>1, ScreenSize DEF CursorOnScreen, ConsoleTypes, Screens
<1>4. EchoMatchesLine
  BY <1>1 DEF EchoMatchesLine, LineInv, ShowsLine
<1>5. NoStuckModifier
  <2> SUFFICES ASSUME pending = <<>>
               PROVE  "E0ESC" \notin shift /\ shift \ {"CAPSLOCK"} \subseteq HeldMods
    BY DEF NoStuckModifier, HeldMods
  <2>1. PICK x : DrivesTo(shift, pending, x) /\ Quiet(x, HeldMods)
    BY DEF IInv, KeyboardInv
  <2>2. Len(pending) = 0
    OBVIOUS
  <2>3. x = shift
    BY <2>1, <2>2 DEF DrivesTo, Drives
  <2> QED BY <2>1, <2>3 DEF Quiet
<1> QED BY <1>2, <1>3, <1>4, <1>5 DEF ScreenExact

-----------------------------------------------------------------------------
(* The theorems.                                                            *)

\* The invariant holds in every state of the console.
THEOREM InvariantHolds == Spec => []IInv
<1>1. Init => IInv
  BY InitKeeps
<1>2. IInv /\ [Next]_vars => IInv'
  BY NextKeeps
<1> QED BY <1>1, <1>2, PTL DEF Spec

\* cons_intr and cons_getc implement the queue: whatever the sizes and the
\* two positions, no character is read twice, reordered or invented, and only
\* the CONSBUFSIZE-th to wait makes the buffer lose what waits.
THEOREM ConsoleImplementsQueue == Spec => ImplementsInputQueue
<1>1. Init => Queue!Init
  BY InitKeeps
<1>2. IInv /\ [Next]_vars => [Queue!Next]_<<Waiting(cons), c>>
  BY NextKeeps
<1> QED BY <1>1, <1>2, InvariantHolds, PTL DEF Spec, ImplementsInputQueue, Queue!Spec

\* cga_putc and readline keep to their buffers, and the screen ends with the
\* line that is being edited, for a screen and a line of any size.
THEOREM ScreenStaysExact == Spec => []ScreenExact
<1>1. IInv => ScreenExact
  BY InvImplies
<1> QED BY <1>1, InvariantHolds, PTL

\* kbd_proc_data forgets a modifier when its key is released, and every E0,
\* whatever keys are pressed together and in whatever order.
THEOREM ModifiersNeverStick == Spec => []NoStuckModifier
<1>1. IInv => NoStuckModifier
  BY InvImplies
<1> QED BY <1>1, InvariantHolds, PTL
=============================================================================
