------------------------------- MODULE Printf -------------------------------
(***************************************************************************)
(* Formatted output: vprintfmt (lib/printfmt.c) and two ways its           *)
(* characters leave, which is where they can be lost: a caller's buffer    *)
(* (snprintf), and a user program's buffer that sys_cputs empties          *)
(* (lib/printf.c).  The kernel's cprintf passes them straight to cputchar. *)
(*                                                                         *)
(* An argument list is a sequence of records: n is what va_arg returns of  *)
(* it as an integer, s as a string (NULL: a null pointer).  An int has     *)
(* IntMod values here and a long long LongMod.                             *)
(***************************************************************************)
EXTENDS CLib
LOCAL INSTANCE SequencesExt

CONSTANTS IntMod, LongMod, MAXERROR, NULL

ErrorString(err) == <<"e", Digits[err + 1]>>    \* error_string[err], shortened

Pad(c, k) == [i \in 1..(IF k > 0 THEN k ELSE 0) |-> c]

\* printnum: what it passes to putch.
RECURSIVE printnum(_, _, _, _)
printnum(num, base, width, padc) ==
    (IF num >= base THEN printnum(num \div base, base, width - 1, padc) ELSE Pad(padc, width - 1))
        \o <<Digits[(num % base) + 1]>>

getuint(arg, lflag) == IF lflag >= 2 THEN arg.n % LongMod ELSE arg.n % IntMod
getint(arg, lflag) == arg.n     \* sign extended whatever lflag is

-----------------------------------------------------------------------------
(* One conversion.  f holds the flags of the escape sequence: padc, width,  *)
(* precision, lflag, altflag.                                               *)

NoFlags == [padc |-> " ", width |-> -1, precision |-> -1, lflag |-> 0, altflag |-> FALSE]

\* process_precision: the first number is the width.
ProcessPrecision(f, n) ==
    IF f.width < 0 THEN [f EXCEPT !.width = n, !.precision = -1]
    ELSE [f EXCEPT !.precision = n]

\* case 's' ("(null)" is shortened): padding on the left unless padc is '-',
\* then at most precision characters, then whatever width is left.
String(f, arg) ==
    LET p == IF arg.s = NULL THEN CString(<<"a", "a">>) ELSE arg.s
        n == strnlen(p, f.precision)
        left == IF f.width > 0 /\ f.padc # "-" THEN Pad(f.padc, f.width - n) ELSE <<>>
        Shown(c) == IF f.altflag /\ ~Printable(c) THEN "?" ELSE c
    IN left \o [i \in 1..n |-> Shown(p[i])] \o Pad(" ", f.width - Len(left) - n)

\* case 'd': the sign goes before the padding, and width does not count it.
Signed(f, arg) ==
    LET num == getint(arg, f.lflag)
    IN IF num < 0 THEN <<"-">> \o printnum(-num, 10, f.width, f.padc)
       ELSE printnum(num, 10, f.width, f.padc)

\* case 'e': the message of an error code of either sign.
ErrorText(arg) ==
    LET err == IF arg.n < 0 THEN -arg.n ELSE arg.n
    IN IF err >= MAXERROR \/ err = 0
       THEN <<"e", "r", "r", "o", "r", " ">> \o printnum(err, 10, -1, " ")
       ELSE ErrorString(err)

Converts == {"c", "e", "s", "d", "u", "o", "p", "x"}

Convert(ch, f, arg) ==
    CASE ch = "c" -> <<arg.c>>
      [] ch = "e" -> ErrorText(arg)
      [] ch = "s" -> String(f, arg)
      [] ch = "d" -> Signed(f, arg)
      [] ch = "u" -> printnum(getuint(arg, f.lflag), 10, f.width, f.padc)
      [] ch = "o" -> printnum(getuint(arg, f.lflag), 8, f.width, f.padc)
      [] ch = "p" -> <<"0", "x">> \o printnum(arg.n % IntMod, 16, f.width, f.padc)
      [] ch = "x" -> printnum(getuint(arg, f.lflag), 16, f.width, f.padc)

-----------------------------------------------------------------------------
(* The format, read from position i.  "OUT" is what lies outside it.        *)

At(fmt, i) == IF i \in DOMAIN fmt THEN fmt[i] ELSE "OUT"
IsDigit(c) == c \in {Digits[i] : i \in 1..10}

\* A decimal number from position i: its value and the position after it.
RECURSIVE Decimal(_, _, _)
Decimal(fmt, i, n) ==
    IF IsDigit(At(fmt, i)) THEN Decimal(fmt, i + 1, n * 10 + Dig(fmt[i])) ELSE <<n, i>>

\* default: fmt moves back to the character after the last '%' before i.
RECURSIVE BackUp(_, _)
BackUp(fmt, i) == IF At(fmt, i - 1) \in {"%", "OUT"} THEN i ELSE BackUp(fmt, i - 1)

\* The two loops of vprintfmt, which end at the NUL: plain characters, and
\* the characters of an escape sequence ("reswitch").  The result is what was
\* put and how many arguments were taken; out is "OUT" past the format's end.
RECURSIVE Plain(_, _, _, _, _), Escape(_, _, _, _, _, _)
Plain(fmt, i, args, taken, out) ==
    LET ch == At(fmt, i) IN
    CASE ch = "OUT" -> [out |-> <<"OUT">>, taken |-> taken]
      [] ch = NUL -> [out |-> out, taken |-> taken]
      [] ch = "%" -> Escape(fmt, i + 1, args, taken, out, NoFlags)
      [] OTHER -> Plain(fmt, i + 1, args, taken, Append(out, ch))

Escape(fmt, i, args, taken, out, f) ==
    LET ch == At(fmt, i)
        Again(g) == Escape(fmt, i + 1, args, taken, out, g)
        num == Decimal(fmt, i, 0)
    IN CASE ch \in {"-", "0"} -> Again([f EXCEPT !.padc = ch])
         [] IsDigit(ch) /\ ch # "0" ->
                Escape(fmt, num[2], args, taken, out, ProcessPrecision(f, num[1]))
         [] ch = "*" ->
                Escape(fmt, i + 1, args, taken + 1, out, ProcessPrecision(f, args[taken + 1].n))
         [] ch = "." -> Again([f EXCEPT !.width = IF @ < 0 THEN 0 ELSE @])
         [] ch = "#" -> Again([f EXCEPT !.altflag = TRUE])
         [] ch = "l" -> Again([f EXCEPT !.lflag = @ + 1])
         [] ch \in Converts ->
                Plain(fmt, i + 1, args, taken + 1, out \o Convert(ch, f, args[taken + 1]))
         [] ch = "%" -> Plain(fmt, i + 1, args, taken, Append(out, "%"))
         [] OTHER -> Plain(fmt, BackUp(fmt, i), args, taken, Append(out, "%"))

vprintfmt(fmt, args) == Plain(fmt, 1, args, 0, <<>>)

-----------------------------------------------------------------------------
(* Where the characters go.                                                 *)

sprintputch(b, ch) ==
    [b EXCEPT !.cnt = @ + 1, !.buf = IF Len(b.buf) < b.room THEN Append(@, ch) ELSE @]

\* vsnprintf into n bytes: what is written there, and what is returned.
vsnprintf(n, fmt, args) ==
    IF n < 1 THEN [buf |-> <<>>, ret |-> "-E_INVAL"]
    ELSE LET b == FoldLeft(sprintputch, [buf |-> <<>>, room |-> n - 1, cnt |-> 0],
                           vprintfmt(fmt, args).out)
         IN [buf |-> Append(b.buf, NUL), ret |-> b.cnt]

\* Mutant: the buffer is handed over and not emptied.
putchKeeps(b, ch) ==
    LET idx == Append(b.buf, ch)
    IN IF Len(idx) = b.size - 1
       THEN [b EXCEPT !.buf = idx, !.calls = Append(@, idx), !.cnt = @ + 1]
       ELSE [b EXCEPT !.buf = idx, !.cnt = @ + 1]

\* putch of lib/printf.c: a buffer of size bytes, and the sys_cputs made.
putch(b, ch) ==
    LET idx == Append(b.buf, ch)
    IN IF Len(idx) = b.size - 1
       THEN [b EXCEPT !.buf = <<>>, !.calls = Append(@, idx), !.cnt = @ + 1]
       ELSE [b EXCEPT !.buf = idx, !.cnt = @ + 1]

\* vcprintf of lib/printf.c: the strings it passes to sys_cputs.
vcprintf(size, fmt, args) ==
    LET b == FoldLeft(putch, [buf |-> <<>>, size |-> size, calls |-> <<>>, cnt |-> 0],
                      vprintfmt(fmt, args).out)
    IN [calls |-> Append(b.calls, b.buf), ret |-> b.cnt]

-----------------------------------------------------------------------------
(* The counter of user/contador.c: digits from the least significant one,   *)
(* with NUL in the places not reached yet.                                  *)

CarryInto(d, p) == [d EXCEPT ![p] = IF @ = NUL THEN "1" ELSE Digits[Dig(@) + 2]]

\* One round of contador's loop.
RECURSIVE Increment(_, _)
Increment(d, p) ==
    IF d[p] = "9" THEN Increment([d EXCEPT ![p] = "0"], p + 1) ELSE CarryInto(d, p)

\* What is on the screen after n rounds.
contador(n) ==
    LET d[i \in 0..n] == IF i = 0 THEN <<"0">> \o [j \in 1..39 |-> NUL] ELSE Increment(d[i - 1], 1)
    IN Reverse(SelectSeq(d[n], LAMBDA c : c # NUL))
=============================================================================
