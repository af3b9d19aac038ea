-------------------------------- MODULE CLib --------------------------------
(***************************************************************************)
(* The C library's memory and string routines (lib/string.c), which the    *)
(* kernel and user programs share.  A pointer into a string is the rest of *)
(* the string, and p++ is Tail(p).                                         *)
(***************************************************************************)
EXTENDS Integers, Sequences, FiniteSets
LOCAL INSTANCE SequencesExt
LOCAL INSTANCE FiniteSetsExt

\* The characters that the inputs use, in their order in ASCII.
Ascii == <<"NUL", "^A", "TAB", "LF", "CR", " ", "#", "%", "*", "+", "-", ".", "0", "1", "2",
           "3", "4", "5", "6", "7", "8", "9", "?", "X", "a", "b", "c", "d", "e", "f", "l", "o",
           "p", "q", "r", "s", "u", "x", "z">>
CodeOf == [c \in Range(Ascii) |-> CHOOSE i \in DOMAIN Ascii : Ascii[i] = c]
Printable(c) == CodeOf[c] >= CodeOf[" "]

NUL == "NUL"
Words == 4      \* bytes that movsl and stosl handle at a time

CString(s) == s \o <<NUL>>      \* a string as it lies in memory

-----------------------------------------------------------------------------
(* Memory: a function from addresses to bytes.                              *)

\* One movs: w bytes, read before any of them is written.
Movs(m, d, s, w) == [a \in DOMAIN m |-> IF a \in d..(d + w - 1) THEN m[s + a - d] ELSE m[a]]

\* rep movs: k units of w bytes, from d and s upwards (dir 1) or downwards.
RepMovs(m, d, s, w, k, dir) ==
    LET after[i \in 0..k] ==
            IF i = 0 THEN m
            ELSE Movs(after[i - 1], d + dir * w * (i - 1), s + dir * w * (i - 1), w)
    IN after[k]

\* Mutant: regions that touch only by their last word are copied upwards.
MemmoveLateOverlap(m, dst, src, n) ==
    IF src < dst /\ src + n > dst + Words
    THEN RepMovs(m, dst + n - 1, src + n - 1, 1, n, -1)
    ELSE RepMovs(m, dst, src, 1, n, 1)

memmove(m, dst, src, n) ==
    LET down == src < dst /\ src + n > dst
        w == IF src % Words = 0 /\ dst % Words = 0 /\ n % Words = 0 THEN Words ELSE 1
    IN IF down THEN RepMovs(m, dst + n - w, src + n - w, w, n \div w, -1)
       ELSE RepMovs(m, dst, src, w, n \div w, 1)

\* rep stos: k units of w bytes that all hold the byte c.
RepStos(m, p, c, w, k) == [a \in DOMAIN m |-> IF a \in p..(p + w * k - 1) THEN c ELSE m[a]]

memset(m, v, c, n) ==
    IF n = 0 THEN m
    ELSE IF v % Words = 0 /\ n % Words = 0 THEN RepStos(m, v, c, Words, n \div Words)
    ELSE RepStos(m, v, c, 1, n)

-----------------------------------------------------------------------------
(* Strings.                                                                 *)

RECURSIVE strlen(_)
strlen(s) == IF Head(s) # NUL THEN 1 + strlen(Tail(s)) ELSE 0

\* size < 0 is the int -1 passed as a size_t.
RECURSIVE strnlen(_, _)
strnlen(s, size) ==
    IF size # 0 /\ Head(s) # NUL THEN 1 + strnlen(Tail(s), size - 1) ELSE 0

\* What strcpy, strncpy and strlcpy write at dst.
RECURSIVE strcpy(_)
strcpy(src) == <<Head(src)>> \o IF Head(src) = NUL THEN <<>> ELSE strcpy(Tail(src))

strcat(dst, src) == SubSeq(dst, 1, strlen(dst)) \o strcpy(src)

RECURSIVE strncpy(_, _)
strncpy(src, size) ==
    IF size = 0 THEN <<>>
    ELSE <<Head(src)>> \o strncpy(IF Head(src) # NUL THEN Tail(src) ELSE src, size - 1)

RECURSIVE CopyLess(_, _)
CopyLess(src, size) ==
    IF size - 1 > 0 /\ Head(src) # NUL THEN <<Head(src)>> \o CopyLess(Tail(src), size - 1)
    ELSE <<NUL>>

strlcpy(src, size) == IF size > 0 THEN CopyLess(src, size) ELSE <<>>

RECURSIVE strcmp(_, _)
strcmp(p, q) ==
    IF Head(p) # NUL /\ Head(p) = Head(q) THEN strcmp(Tail(p), Tail(q))
    ELSE CodeOf[Head(p)] - CodeOf[Head(q)]

RECURSIVE CompareFirst(_, _, _)
CompareFirst(p, q, n) ==
    IF n > 0 /\ Head(p) # NUL /\ Head(p) = Head(q) THEN CompareFirst(Tail(p), Tail(q), n - 1)
    ELSE IF n = 0 THEN 0 ELSE CodeOf[Head(p)] - CodeOf[Head(q)]

strncmp(p, q, n) == CompareFirst(p, q, n)

\* Searches return how far the pointer moved; strchr returns -1 for a null one.
RECURSIVE strfind(_, _)
strfind(s, c) == IF Head(s) = NUL \/ Head(s) = c THEN 0 ELSE 1 + strfind(Tail(s), c)

RECURSIVE strchr(_, _)
strchr(s, c) ==
    IF Head(s) = NUL THEN -1
    ELSE IF Head(s) = c THEN 0
    ELSE LET k == strchr(Tail(s), c) IN IF k = -1 THEN -1 ELSE k + 1

RECURSIVE memfind(_, _, _)
memfind(s, c, n) == IF n = 0 \/ Head(s) = c THEN 0 ELSE 1 + memfind(Tail(s), c, n - 1)

RECURSIVE memcmp(_, _, _)
memcmp(s1, s2, n) ==
    IF n = 0 THEN 0
    ELSE IF Head(s1) # Head(s2) THEN CodeOf[Head(s1)] - CodeOf[Head(s2)]
    ELSE memcmp(Tail(s1), Tail(s2), n - 1)

-----------------------------------------------------------------------------
(* strtol, of values that do not overflow a long.                           *)

Digits == <<"0", "1", "2", "3", "4", "5", "6", "7", "8", "9", "a", "b", "c", "d", "e", "f">>

\* dig of a character: letters count from 10; 99 for one that is no digit.
Dig(c) ==
    IF c \in Range(Digits) THEN (CHOOSE i \in DOMAIN Digits : Digits[i] = c) - 1
    ELSE CASE c = "l" -> 21 [] c = "o" -> 24 [] c = "p" -> 25 [] c = "s" -> 28 [] c = "u" -> 30
           [] c \in {"x", "X"} -> 33 [] c = "z" -> 35 [] OTHER -> 99

RECURSIVE SkipSpace(_)
SkipSpace(s) == IF Head(s) \in {" ", "TAB"} THEN SkipSpace(Tail(s)) ELSE s

\* The digits loop: the value and the rest of the string.
RECURSIVE Value(_, _, _)
Value(s, base, val) ==
    IF Dig(Head(s)) >= base THEN [val |-> val, rest |-> s]
    ELSE Value(Tail(s), base, val * base + Dig(Head(s)))

\* The base prefix: what follows it, and the base.
Prefix(s, base) ==
    IF base \in {0, 16} /\ s[1] = "0" /\ s[2] = "x" THEN <<SubSeq(s, 3, Len(s)), 16>>
    ELSE IF base = 0 /\ s[1] = "0" THEN <<Tail(s), 8>>
    ELSE <<s, IF base = 0 THEN 10 ELSE base>>

\* The value and endptr, as the rest of the string.
strtol(str, base) ==
    LET s == SkipSpace(str)
        signed == Head(s) \in {"+", "-"}
        pre == Prefix(IF signed THEN Tail(s) ELSE s, base)
        num == Value(pre[1], pre[2], 0)
    IN IF Head(s) = "-" THEN [num EXCEPT !.val = -@] ELSE num
=============================================================================
