------------------------------- MODULE Kdebug -------------------------------
(***************************************************************************)
(* The kernel monitor's tools: the search of the debugging tables          *)
(* (kern/kdebug.c) and the parser of a command line (kern/monitor.c).      *)
(* A stab is a record of type, value, strx and desc; indices start at 0,   *)
(* as in the code.  A string is named by its place in the string table.    *)
(***************************************************************************)
EXTENDS CLib

CONSTANTS MAXARGS, Commands

-----------------------------------------------------------------------------
(* stab_binsearch.                                                          *)

\* The nearest stab of the type at m or below, down to l (l - 1 if none).
RECURSIVE Below(_, _, _, _)
Below(stabs, m, l, type) ==
    IF m >= l /\ stabs[m].type # type THEN Below(stabs, m - 1, l, type) ELSE m

\* The loop: l and r, and reg, the caller's region with any_matches and the
\* stabs read so far.
RECURSIVE Search(_, _, _, _, _, _)
Search(stabs, l, r, type, addr, reg) ==
    IF l > r THEN reg
    ELSE LET mid == (l + r) \div 2
             m == Below(stabs, mid, l, type)
             seen == [reg EXCEPT !.read = @ \cup {i \in m..mid : i >= l}]
         IN IF m < l THEN Search(stabs, mid + 1, r, type, addr, seen)
            ELSE IF stabs[m].value < addr
            THEN Search(stabs, mid + 1, r, type, addr, [seen EXCEPT !.left = m, !.any = TRUE])
            ELSE IF stabs[m].value > addr
            THEN Search(stabs, l, m - 1, type, addr, [seen EXCEPT !.right = m - 1, !.any = TRUE])
            ELSE Search(stabs, m, r, type, addr + 1, [seen EXCEPT !.left = m, !.any = TRUE])

\* From the right end down to the stab of the type, or to left.
RECURSIVE Rightmost(_, _, _, _)
Rightmost(stabs, l, left, type) ==
    IF l > left /\ stabs[l].type # type THEN Rightmost(stabs, l - 1, left, type) ELSE l

\* The whole table is searched from the caller's region, and the left end is
\* moved to the rightmost stab of the type.
Region(reg, stabs, type) ==
    LET l == Rightmost(stabs, reg.right, reg.left, type)
    IN [left |-> l, right |-> reg.right,
        read |-> reg.read \cup {i \in l..reg.right : i > reg.left}]
Searched(stabs, left, right, type, addr) ==
    Search(stabs, left, right, type, addr,
           [left |-> left, right |-> right, any |-> FALSE, read |-> {}])

\* Mutant: a region without a stab of the type is left as it was.
StabBinsearchAny(stabs, left, right, type, addr) ==
    Region(Searched(stabs, left, right, type, addr), stabs, type)

stab_binsearch(stabs, left, right, type, addr) ==
    LET reg == Searched(stabs, left, right, type, addr)
    IN IF reg.any THEN Region(reg, stabs, type)
       ELSE [left |-> reg.left, right |-> reg.left - 1, read |-> reg.read]

-----------------------------------------------------------------------------
(* debuginfo_eip.                                                           *)

UNKNOWN == -1       \* the string "<unknown>"
Unknown(addr) == [file |-> UNKNOWN, line |-> 0, fn |-> UNKNOWN, fn_addr |-> addr, narg |-> 0]

StabSize == 12      \* bytes of a struct Stab

\* Back from the line to the file's stab, or lfile - 1.
RECURSIVE FileOf(_, _, _)
FileOf(stabs, l, lfile) ==
    IF l >= lfile /\ stabs[l].type # "SOL" /\ (stabs[l].type # "SO" \/ stabs[l].value = 0)
    THEN FileOf(stabs, l - 1, lfile) ELSE l

\* Parameters that follow the function's stab, before the last of its stabs.
RECURSIVE Params(_, _, _)
Params(stabs, l, rfun) ==
    IF l < rfun /\ stabs[l].type = "PSYM" THEN 1 + Params(stabs, l + 1, rfun) ELSE 0

\* Line stabs hold offsets in the function, where one was found.
LineAddr(fun, stabs, addr) ==
    IF fun.left <= fun.right THEN addr - stabs[fun.left].value ELSE addr

\* What the function is given to read.  tabs: are they a user program's; may
\* its UserStabData be read; how many of its stabs, from the first one, may
\* be read; the string table ("unreadable", "bad" if empty or not ended by a
\* NUL, or "good") and how many strings it holds.

\* The tests before the search.  The length of the stabs is passed to
\* user_mem_check as their number, not their bytes.
Tested(tabs, n) ==
    /\ tabs.user => tabs.usd /\ StabSize * tabs.read >= n /\ tabs.strs # "unreadable"
    /\ tabs.strs = "good"

\* A name outside the string table is not used.
Name(tabs, strx) == IF strx < tabs.size THEN strx ELSE UNKNOWN

\* The return value and *info, or a page fault of the kernel, which panics.
debuginfo_eip(stabs, n, addr, tabs) ==
    LET file == stab_binsearch(stabs, 0, n - 1, "SO", addr)
        fun == stab_binsearch(stabs, file.left, file.right, "FUN", addr)
        found == fun.left <= fun.right
        in == IF found THEN fun ELSE file
        line == stab_binsearch(stabs, in.left, in.right, "SLINE", LineAddr(fun, stabs, addr))
        src == FileOf(stabs, line.left, file.left)
        narg == IF fun.left < fun.right THEN Params(stabs, fun.left + 1, fun.right) ELSE 0
        read == file.read \cup
                (IF file.left = 0 THEN {}
                 ELSE fun.read \cup line.read \cup {i \in src..line.left : i >= file.left}
                      \cup {i \in (fun.left + 1)..(fun.left + 1 + narg) : i < fun.right})
        fault == tabs.user /\ ~(read \subseteq 0..(tabs.read - 1))
    IN IF ~Tested(tabs, n) THEN [fault |-> FALSE, ret |-> -1, info |-> Unknown(addr)]
       ELSE IF file.left = 0 THEN [fault |-> fault, ret |-> -1, info |-> Unknown(addr)]
       ELSE [fault |-> fault, ret |-> 0,
             info |-> [fn |-> IF found THEN Name(tabs, stabs[fun.left].strx) ELSE UNKNOWN,
                       fn_addr |-> IF found THEN stabs[fun.left].value ELSE addr,
                       line |-> IF line.left <= line.right THEN stabs[line.left].desc ELSE 0,
                       file |-> IF src >= file.left THEN Name(tabs, stabs[src].strx) ELSE UNKNOWN,
                       narg |-> narg]]

-----------------------------------------------------------------------------
(* runcmd.  The line is a buffer that the parser cuts with NULs; argv holds *)
(* positions in it.                                                         *)

WHITESPACE == CString(<<"TAB", "CR", "LF", " ">>)
Blank(c) == c # NUL /\ strchr(WHITESPACE, c) # -1

RECURSIVE Gobble(_, _)
Gobble(buf, i) == IF Blank(buf[i]) THEN Gobble([buf EXCEPT ![i] = NUL], i + 1) ELSE <<buf, i>>

RECURSIVE ScanPast(_, _)
ScanPast(buf, i) == IF buf[i] # NUL /\ ~Blank(buf[i]) THEN ScanPast(buf, i + 1) ELSE i

Full(argv) == Len(argv) = MAXARGS - 1

\* The parsing loop, from position i.
RECURSIVE Parse(_, _, _)
Parse(buf, i, argv) ==
    LET g == Gobble(buf, i)
    IN IF g[1][g[2]] = NUL THEN [buf |-> g[1], argv |-> argv, many |-> FALSE]
       ELSE IF Full(argv) THEN [buf |-> g[1], argv |-> argv, many |-> TRUE]
       ELSE Parse(g[1], ScanPast(g[1], g[2]), Append(argv, g[2]))

From(buf, i) == SubSeq(buf, i, Len(buf))

\* Which command runs; "none" for an empty line or too many arguments.
runcmd(line) ==
    LET p == Parse(line, 1, <<>>)
        name == {c \in DOMAIN Commands : strcmp(From(p.buf, p.argv[1]), Commands[c]) = 0}
    IN [p |-> p, runs |-> IF p.many \/ p.argv = <<>> THEN "none"
                          ELSE IF name = {} THEN "unknown" ELSE CHOOSE c \in name : TRUE]
=============================================================================
