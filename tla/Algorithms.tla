----------------------------- MODULE Algorithms -----------------------------
(***************************************************************************)
(* The pure routines of CLib, Printf, Kdebug and AddrSpace, each called     *)
(* once on every one of a bounded set of inputs and compared with what it  *)
(* is to compute.                                                          *)
(***************************************************************************)
EXTENDS Printf, Kdebug, AddrSpace
LOCAL INSTANCE SequencesExt
LOCAL INSTANCE FiniteSetsExt

CONSTANTS
    MaxAddr, MaxMove,   \* memory has 0..MaxAddr; longest memmove
    MaxStr,             \* longest string
    MaxNum, MaxWidth,   \* numbers and field widths
    MaxFmt, FmtChars,   \* what follows the first '%' of a format
    MaxLine,            \* longest command line
    NStabs, NFuns,      \* stabs searched; functions of a program
    MaxSeg,             \* longest segment of a binary
    MaxFree,            \* most pages that are free when one is loaded
    CountTo             \* how far contador counts

VARIABLES call, ret
vars == <<call, ret>>

Strs == {CString(s) : s \in BoundedSeq({"a", "b"}, MaxStr)}
Buffer(s) == s \o [i \in 1..(MaxStr + 1 - Len(s)) |-> "z"]    \* a string and what follows it
Memory == [a \in 0..MaxAddr |-> a]      \* every byte differs
Starts == 0..(MaxAddr - MaxMove)

\* The arguments of a formatted call.
Args == <<[n |-> 3, s |-> CString(<<"a", "^A", "b">>), c |-> "q"],
          [n |-> -12, s |-> CString(<<"b">>), c |-> "r"],
          [n |-> 0, s |-> NULL, c |-> "a"], [n |-> 40, s |-> CString(<<>>), c |-> "b"]>>

Formats == {CString(<<"%">> \o f) : f \in BoundedSeq(FmtChars, MaxFmt)}

\* A field as a caller asks for it, and the format that asks.
Fields == [fn : {"field"}, pad : {" ", "0", "-"}, width : 0..MaxWidth, prec : 0..MaxWidth,
           alt : BOOLEAN, s : Strs \cup {CString(<<"a", "^A", "b">>)}]
FieldFormat(q) ==
    CString(<<"%">> \o (IF q.pad = " " THEN <<>> ELSE <<q.pad>>) \o (IF q.alt THEN <<"#">> ELSE <<>>)
            \o (IF q.width = 0 THEN <<>> ELSE <<Digits[q.width + 1]>>)
            \o (IF q.prec = 0 THEN <<>> ELSE <<".", Digits[q.prec + 1]>>) \o <<"s">>)
Base(conv) == CASE conv = "o" -> 8 [] conv = "x" -> 16 [] OTHER -> 10
NumberFormat(q) ==
    CString(<<"%">> \o (IF q.zero THEN <<"0">> ELSE <<>>)
            \o (IF q.width = 0 THEN <<>> ELSE <<Digits[q.width + 1]>>) \o <<q.conv>>)

\* Stab tables with addresses that grow, two apart where they differ.
Stab(t, v, strx, desc) == [type |-> t, value |-> v, strx |-> strx, desc |-> desc]
Tables == {[i \in 0..(NStabs - 1) |-> Stab(t[i], 2 * v[i], 0, 0)] :
               t \in [0..(NStabs - 1) -> {"FUN", "SLINE"}],
               v \in {w \in [0..(NStabs - 1) -> 1..NStabs] :
                          \A i \in 1..(NStabs - 1) : w[i - 1] <= w[i]}}

\* A program: its functions, of 8 bytes each, with one line or two; the
\* second may come from an included file.  The string table: nothing, two
\* files, the included one, the names of the functions.
Inc == 3
FunName(k) == Inc + k
AllNames == FunName(NFuns) + 1
Functions == [file : {1, 2}, args : 0..2, lines : 1..2, inc : BOOLEAN]
Programs == {p \in [1..NFuns -> Functions] : \A k \in DOMAIN p : p[k].inc => p[k].lines = 2}

FunStabs(p, k) ==
    LET f == p[k]
        file == IF k > 1 /\ p[k - 1].file = f.file THEN <<>>
                ELSE <<Stab("SO", 8 * k, f.file, 0)>>
        inc(strx) == IF f.inc THEN <<Stab("SOL", 0, strx, 0)>> ELSE <<>>
    IN file \o <<Stab("FUN", 8 * k, FunName(k), 0)>>
        \o [i \in 1..f.args |-> Stab("PSYM", 8, 0, 0)] \o <<Stab("SLINE", 0, 0, 10 * k)>>
        \o (IF f.lines = 1 THEN <<>>
            ELSE inc(Inc) \o <<Stab("SLINE", 4, 0, 10 * k + 1)>> \o inc(f.file))

\* The program's table: a header, and what the compiler writes for each function.
StabsOf(p) == <<Stab("UNDF", 0, 0, 0)>> \o FlattenSeq([k \in DOMAIN p |-> FunStabs(p, k)])

\* The tables of the kernel, and a program's: whole, with some of the stabs in
\* memory that cannot be read, or with a string table that is bad or short.
AllStabs == 8 * NFuns + 1
WholeTabs == [user |-> TRUE, usd |-> TRUE, read |-> AllStabs, strs |-> "good", size |-> AllNames]
Tabs == {[WholeTabs EXCEPT !.user = FALSE], [WholeTabs EXCEPT !.usd = FALSE]}
        \cup {[WholeTabs EXCEPT !.read = r] : r \in 0..AllStabs}
        \cup {[WholeTabs EXCEPT !.strs = s] : s \in {"unreadable", "bad"}}
        \cup {[WholeTabs EXCEPT !.size = n] : n \in 1..AllNames}

\* Binaries: two segments, the second in later pages and further in the file.
Seg == [load : BOOLEAN, va : 0..(AddrBytes - 1), memsz : 0..MaxSeg, filesz : 0..MaxSeg, off : {0, 3}]
Second(s) == [s EXCEPT !.va = RoundUp(s.va + s.memsz) + 1, !.off = @ + s.filesz]
Segs == {s \in Seg : /\ s.filesz <= s.memsz
                     /\ \/ Second(s).va + s.memsz <= StackPage * PGSIZE
                        \/ s.load /\ s.va >= AddrBytes - PGSIZE /\ s.memsz > PGSIZE}
Binary == [i \in 0..(2 * MaxSeg + 3) |-> 100 + i]     \* the file's bytes

\* The kernel's file on disk: places in memory and in the file agree modulo
\* the sector, and segments share a sector only as they do in the file.
KernelSegs ==
    {k \in [1..2 -> {s \in Seg : s.load /\ s.filesz = s.memsz /\ s.va < 2 * MaxSeg}] :
        /\ \A i \in 1..2 : k[i].va % SECTSIZE = k[i].off % SECTSIZE
        /\ k[1].va + k[1].memsz <= k[2].va
        /\ \/ (k[1].va + k[1].memsz - 1) \div SECTSIZE < k[2].va \div SECTSIZE
           \/ k[2].va - k[1].va = k[2].off - k[1].off}
Disk == [i \in 0..(6 * (MaxSeg + SECTSIZE)) |-> 200 + i]

Perms == {{}, {"P", "U"}, {"P", "U", "W"}}

Calls ==
    [fn : {"bootmain"}, segs : KernelSegs, magic : BOOLEAN]
    \cup [fn : {"load_icode"}, magic : BOOLEAN, segs : {<<s, Second(s)>> : s \in Segs},
          free : 0..MaxFree]
    \cup [fn : {"usercheck"}, pte : [0..(ULIM \div PGSIZE - 1) -> Perms], va : 0..(ULIM + 1),
          len : (0..ULIM) \cup ((AddrBytes - ULIM)..(AddrBytes - 1)), perm : {{}, {"W"}}]
    \cup [fn : {"trap"}, v : 0..63, soft : BOOLEAN]
    \cup [fn : {"contador"}, n : 0..CountTo]
    \cup [fn : {"memmove"}, dst : Starts, src : Starts, n : 0..MaxMove]
    \cup [fn : {"memset"}, dst : Starts, n : 0..MaxMove]
    \cup [fn : {"copy"}, d : Strs, s : Strs, size : 0..(MaxStr + 2)]
    \cup [fn : {"compare"}, p : Strs, q : Strs, n : 0..MaxStr]
    \cup [fn : {"find"}, s : Strs, c : {"a", "b", "z"}]
    \cup [fn : {"number"}, n : (-MaxNum)..MaxNum, conv : {"d", "u", "o", "x"}, zero : BOOLEAN,
          width : 0..MaxWidth]
    \cup Fields
    \cup [fn : {"format"}, fmt : Formats, n : {0, 1, 4}, size : {2, 4}]
    \cup [fn : {"runcmd"}, line : {CString(s) : s \in BoundedSeq({"a", "b", " ", "TAB"}, MaxLine)}]
    \cup [fn : {"binsearch"}, stabs : Tables, left : {0, 1}, addr : 0..(2 * NStabs + 1)]
    \cup [fn : {"eip"}, p : Programs, k : 1..NFuns, off : {0, 3, 4, 7}, tabs : Tabs]

Init == call \in Calls /\ ret = NULL

Run(fn, result(_)) == ret = NULL /\ call.fn = fn /\ ret' = result(call) /\ UNCHANGED call

DoMemmove == Run("memmove", LAMBDA q : memmove(Memory, q.dst, q.src, q.n))
DoMemset == Run("memset", LAMBDA q : memset(Memory, q.dst, -1, q.n))
DoCopy == Run("copy", LAMBDA q : [cat |-> strcat(q.d, q.s), n |-> strncpy(q.s, q.size),
                                  l |-> strlcpy(q.s, q.size)])
DoCompare == Run("compare", LAMBDA q : [str |-> strcmp(q.p, q.q), n |-> strncmp(q.p, q.q, q.n),
                                        mem |-> memcmp(Buffer(q.p), Buffer(q.q), q.n)])
DoFind == Run("find", LAMBDA q : [chr |-> strchr(q.s, q.c), find |-> strfind(q.s, q.c),
                                  mem |-> memfind(q.s, q.c, Len(q.s))])
DoNumber == Run("number", LAMBDA q : vprintfmt(NumberFormat(q), <<[n |-> q.n]>>).out)
DoField == Run("field", LAMBDA q : vprintfmt(FieldFormat(q), <<[s |-> q.s]>>).out)
DoFormat == Run("format", LAMBDA q : [all |-> vprintfmt(q.fmt, Args),
                                      sn |-> vsnprintf(q.n, q.fmt, Args),
                                      user |-> vcprintf(q.size, q.fmt, Args)])
DoRuncmd == Run("runcmd", LAMBDA q : runcmd(q.line))
DoBinsearch ==
    Run("binsearch", LAMBDA q : stab_binsearch(q.stabs, q.left, NStabs - 1, "FUN", q.addr))
DoEip ==
    Run("eip", LAMBDA q : LET s == StabsOf(q.p) IN
            debuginfo_eip([i \in 0..(Len(s) - 1) |-> s[i + 1]], Len(s), 8 * q.k + q.off, q.tabs))
DoBootmain ==
    Run("bootmain", LAMBDA q : bootmain([a \in 0..(4 * (MaxSeg + SECTSIZE)) |-> 0], Disk,
                                        q.magic, q.segs))
DoLoadIcode == Run("load_icode", LAMBDA q : load_icode(Binary, q.magic, q.segs, q.free))
DoUserCheck == Run("usercheck", LAMBDA q : user_mem_assert(q.pte, q.va, q.len, q.perm))
DoTrap == Run("trap", LAMBDA q : TrapFrame(q.v, q.soft))
DoContador == Run("contador", LAMBDA q : contador(q.n))

Next == \/ DoMemmove \/ DoMemset \/ DoCopy \/ DoCompare \/ DoFind \/ DoNumber \/ DoField
        \/ DoFormat \/ DoRuncmd \/ DoBinsearch \/ DoEip
        \/ DoBootmain \/ DoLoadIcode \/ DoUserCheck \/ DoTrap \/ DoContador

Spec == Init /\ [][Next]_vars

-----------------------------------------------------------------------------

Returned(fn) == ret # NULL /\ call.fn = fn

\* memmove leaves dst[0..n-1] with what src[0..n-1] held before the call, how
\* ever the regions overlap and whether it copies by words or by bytes, up or
\* down, and changes nothing else; memset fills exactly its n bytes.
MoveExact ==
    /\ Returned("memmove") =>
           ret = [a \in 0..MaxAddr |-> IF a \in call.dst..(call.dst + call.n - 1)
                                       THEN Memory[call.src + a - call.dst] ELSE Memory[a]]
    /\ Returned("memset") =>
           ret = [a \in 0..MaxAddr |-> IF a \in call.dst..(call.dst + call.n - 1)
                                       THEN -1 ELSE Memory[a]]

\* strncpy and strlcpy stay in the size bytes of the destination; strlcpy ends
\* what it copied with a NUL, strncpy fills what is left with NULs; strcat
\* appends the whole string.
CopyBounded ==
    Returned("copy") =>
        LET str == SubSeq(call.s, 1, Len(call.s) - 1)
            fits == IF Len(str) < call.size THEN Len(str) ELSE call.size
        IN /\ Len(ret.n) = call.size
           /\ \A i \in 1..call.size : ret.n[i] = IF i <= fits THEN str[i] ELSE NUL
           /\ Len(ret.l) <= call.size /\ IsPrefix(SubSeq(ret.l, 1, Len(ret.l) - 1), str)
           /\ call.size > 0 => Last(ret.l) = NUL /\ Len(ret.l) = Min({call.size, Len(call.s)})
           /\ ret.cat = SubSeq(call.d, 1, Len(call.d) - 1) \o call.s

\* The sign of the difference at the first place, of the first n, where the
\* strings differ: the comparisons look at nothing after a string's end or
\* after n characters, and the searches return the first occurrence.
CompareExact ==
    /\ Returned("compare") =>
           LET Before(p, q, n) ==
                   \E i \in 1..n : /\ i \in DOMAIN p \cap DOMAIN q /\ CodeOf[p[i]] < CodeOf[q[i]]
                                   /\ \A j \in 1..(i - 1) : p[j] = q[j]
               n == Len(call.p) + Len(call.q)
           IN /\ (ret.str < 0) = Before(call.p, call.q, n) /\ (ret.str > 0) = Before(call.q, call.p, n)
              /\ (ret.n < 0) = Before(call.p, call.q, call.n)
              /\ (ret.n > 0) = Before(call.q, call.p, call.n)
              /\ (ret.mem < 0) = Before(Buffer(call.p), Buffer(call.q), call.n)
    /\ Returned("find") =>
           LET at == {i \in DOMAIN call.s : call.s[i] = call.c}
           IN /\ ret.chr = (IF at = {} THEN -1 ELSE Min(at) - 1)
              /\ ret.find = Min(at \cup {Len(call.s)}) - 1
              /\ ret.mem = (IF at = {} THEN Len(call.s) ELSE Min(at) - 1)

\* What printf writes of a number, strtol reads back to the same number (of
\* the type that the conversion prints), and the field is as wide as asked:
\* padded with zeros a negative number has one character more, its sign.
NumberRoundTrip ==
    Returned("number") =>
        LET value == IF call.conv = "d" THEN call.n ELSE call.n % IntMod
            neg == IF value < 0 THEN 1 ELSE 0
        IN /\ Len(ret) >= call.width + (IF call.width > 0 THEN neg ELSE 0)
           /\ (neg = 0 \/ call.zero \/ call.width < 2)
                  => strtol(CString(ret), Base(call.conv)) = [val |-> value, rest |-> <<NUL>>]
           /\ (value > 0 /\ ~call.zero /\ call.width = 0)
                  => strtol(CString((CASE call.conv = "o" -> <<"0">> [] call.conv = "x" -> <<"0", "x">>
                                       [] OTHER -> <<>>) \o ret), 0).val = value

\* A string field shows the first precision characters, '?' for the ones that
\* do not print when asked to, and is padded to its width on the side asked for,
\* with zeros if asked for on the left.  The comment of printfmt.c:12-13 says
\* less, that padding and a width are supported for the numeric formats only;
\* this is what printfmt.c:177-190 does, and no more than that.
FieldExact ==
    Returned("field") =>
        LET len == Len(call.s) - 1
            n == IF call.prec = 0 \/ len < call.prec THEN len ELSE call.prec
            text == [i \in 1..n |-> IF call.alt /\ call.s[i] = "^A" THEN "?" ELSE call.s[i]]
        IN ret = IF call.pad = "-" THEN text \o Pad(" ", call.width - n)
                 ELSE Pad(call.pad, call.width - n) \o text

\* A format is read to its NUL and no further, and one with no complete escape
\* sequence is printed as it is.
FormatSafe ==
    Returned("format") =>
        /\ "OUT" \notin Range(ret.all.out)
        /\ (\A i \in 2..Len(call.fmt) : call.fmt[i] \notin Converts \cup {"%"})
               => ret.all.out = SubSeq(call.fmt, 1, Len(call.fmt) - 1)

\* snprintf writes at most n bytes, a prefix of the whole text with its NUL,
\* and returns the length of the whole; a user program's cprintf passes the
\* whole text to the kernel, in order, in pieces that fit its buffer.
OutputExact ==
    Returned("format") =>
        LET whole == ret.all.out
        IN /\ Len(ret.sn.buf) <= call.n
           /\ call.n > 0 => /\ ret.sn.ret = Len(whole)
                            /\ ret.sn.buf = Append(SubSeq(whole, 1, Min({call.n - 1, Len(whole)})), NUL)
           /\ FlattenSeq(ret.user.calls) = whole /\ ret.user.ret = Len(whole)
           /\ \A i \in DOMAIN ret.user.calls : Len(ret.user.calls[i]) < call.size

\* The monitor cuts a line into its words, as many as argv has room for with
\* its terminator, and each one that runs is the first word.
TokensExact ==
    Returned("runcmd") =>
        LET black == {i \in DOMAIN call.line : call.line[i] \in {"a", "b"}}
            starts == {i \in black : i - 1 \notin black}
            WordAt(i) == SubSeq(call.line, i, Min({j \in i..Len(call.line) : j \notin black}) - 1)
        IN /\ Len(ret.p.argv) < MAXARGS
           /\ ret.p.many = (Cardinality(starts) >= MAXARGS)
           /\ Range(ret.p.argv) \subseteq starts
           /\ ~ret.p.many => /\ Range(ret.p.argv) = starts
                             /\ \A i \in starts : strcpy(From(ret.p.buf, i)) = CString(WordAt(i))
           /\ \A c \in DOMAIN Commands :
                  (ret.runs = c) <=> /\ ~ret.p.many /\ starts # {}
                                     /\ CString(WordAt(Min(starts))) = Commands[c]

\* The search returns the last stab of the type at or below the address, and
\* ends its region before the next stab of that type, whatever lies between
\* them; with no stab of the type the region is empty.
BinsearchExact ==
    Returned("binsearch") =>
        LET funs == {i \in call.left..(NStabs - 1) : call.stabs[i].type = "FUN"}
            below == {i \in funs : call.stabs[i].value <= call.addr}
        IN /\ funs = {} => ret.left > ret.right
           /\ below # {} => /\ ret.left = Max(below)
                            /\ ret.right = Min((funs \ below) \cup {NStabs}) - 1

\* For every address of a program, the debugger names the function that holds
\* it with its number of parameters, the line, and the file that the line came
\* from, an included one too; a name that the string table is too short for
\* stays "<unknown>".  It returns -1 when a test of the tables fails, but the
\* tests do not cover the tables: kdebug.c:157 asks that the memory of the
\* stabs is valid, and kdebug.c:159 tests as many bytes as there are stabs, a
\* twelfth of them.  So with the stabs partly unreadable the answer is the
\* right one or the kernel faults, and it does fault when the stab in the
\* middle, which is read first, is not there.
EipExact ==
    Returned("eip") =>
        LET f == call.p[call.k]
            t == call.tabs
            n == Len(StabsOf(call.p))
            second == f.lines = 2 /\ call.off >= 4
            Known(strx) == IF strx < t.size THEN strx ELSE UNKNOWN
            refused == t.strs # "good" \/ (t.user /\ (~t.usd \/ n > 12 * t.read))
            whole == ~t.user \/ t.read >= n
        IN /\ refused => /\ ~ret.fault /\ ret.ret = -1
                         /\ ret.info = Unknown(8 * call.k + call.off)
           /\ ~refused /\ ~ret.fault =>
                  ret.ret = 0 /\ ret.info =
                      [fn |-> Known(FunName(call.k)), fn_addr |-> 8 * call.k, narg |-> f.args,
                       line |-> 10 * call.k + (IF second THEN 1 ELSE 0),
                       file |-> Known(IF second /\ f.inc THEN Inc ELSE f.file)]
           /\ whole => ~ret.fault
           /\ ~refused /\ t.user /\ t.read <= (n - 1) \div 2 => ret.fault

\* The boot loader, which reads whole sectors to rounded addresses, leaves
\* every segment of the kernel with its own bytes of the file, although the
\* sectors of a later segment may overlap an earlier one.
BootLoadExact ==
    Returned("bootmain") /\ call.magic =>
        \A k \in 1..2 : \A i \in 0..(call.segs[k].filesz - 1) :
            ret[call.segs[k].va + i] = Disk[SECTSIZE + call.segs[k].off + i]

\* A program's memory is exactly the pages its segments touch and its stack;
\* they hold the file's bytes, zeros after them up to memsz.  The kernel
\* panics on a file that is not ELF, on a segment that passes the end of the
\* address space, when there are fewer free pages than the program and its
\* page tables need, and only then.
LoadExact ==
    Returned("load_icode") =>
        LET loads == {s \in Range(call.segs) : s.load /\ s.memsz > 0}
            End(s) == s.va + s.memsz
            pages == UNION {(s.va \div PGSIZE)..((End(s) - 1) \div PGSIZE) : s \in loads}
                     \cup {StackPage}
            need == Cardinality(pages) + Cardinality({p \div TablePages : p \in pages})
        IN /\ (ret.panic = "magic") = ~call.magic
           /\ (ret.panic # "none") = (\/ ~call.magic \/ need > call.free
                                     \/ \E s \in loads : RoundUp(End(s)) >= AddrBytes)
           /\ ret.panic = "none" =>
                  /\ {a \div PGSIZE : a \in DOMAIN ret.mem} = pages
                  /\ ret.free = call.free - need
                  /\ \A s \in loads : \A i \in 0..(s.memsz - 1) :
                         ret.mem[s.va + i] = IF i < s.filesz THEN Binary[s.off + i] ELSE 0

\* A system call goes on with a range exactly if it ends before ULIM, a length
\* that wraps around included, and every byte of it is mapped for the user with
\* the permissions asked for; else the address reported is the first byte that
\* fails, or ULIM for a range that does not end before it.  That is not what
\* pmap.c:624-629 asks for: "exactly the tests" that every byte is below ULIM
\* and permitted, which a range that ends at ULIM may pass and yet is refused,
\* and "the first erroneous virtual address", which is below ULIM if a range
\* that passes ULIM starts in a page that is not mapped.
UserRangeExact ==
    Returned("usercheck") =>
        LET Access(a) == call.perm \cup {"P", "U"} \subseteq call.pte[a \div PGSIZE]
            end == call.va + call.len
            bad == {a \in call.va..(end - 1) : ~Access(a)}
        IN /\ ret.alive = (end < ULIM /\ bad = {})
           /\ ~ret.alive => ret.addr = (IF call.va >= ULIM THEN call.va
                                       ELSE IF end >= ULIM THEN ULIM ELSE Min(bad))

\* Whatever raises it, the processor, a device or an int instruction of a
\* program, a trap reaches trap() with a frame of one layout: its own number, or
\* that of a general protection fault when it has no gate or a program may not
\* raise it, and one error word.  A program's int can raise only breakpoints and
\* system calls.
TrapFrameUniform ==
    Returned("trap") =>
        /\ Len(ret) = 2
        /\ ret[1] = call.v \/ (ret[1] = T_GPFLT /\ (call.soft \/ call.v \notin Gates))
        /\ call.soft => ret[1] \in {T_BRKPT, T_SYSCALL, T_GPFLT}

\* contador shows its count in decimal, through carries that add a digit.
CounterExact == Returned("contador") => ret = printnum(call.n, 10, -1, " ")

-----------------------------------------------------------------------------
\* lib/string.c computes what its callers rely on: moves, bounded copies,
\* comparisons and searches.
StringsExact == MoveExact /\ CopyBounded /\ CompareExact

\* Formatted output, from a format and arguments to the buffers that leave:
\* numbers, fields, odd formats, full buffers, and contador's own decimals.
FormatExact == NumberRoundTrip /\ FieldExact /\ FormatSafe /\ OutputExact /\ CounterExact

\* The kernel's debugger names the function and line of an address, and its
\* monitor runs the command that was typed.
DebuggerExact == BinsearchExact /\ EipExact /\ TokensExact

\* Byte ranges that are turned into sectors and pages, by the boot loader,
\* the program loader and the check of user memory, cover what was asked for
\* and nothing that was refused.
RangesExact == BootLoadExact /\ LoadExact /\ UserRangeExact
=============================================================================
