------------------------------ MODULE AddrSpace -----------------------------
(***************************************************************************)
(* Routines that turn byte ranges into sectors and pages: the boot loader  *)
(* (boot/main.c), the loader of user programs (kern/env.c), the check of a *)
(* range that a system call was given (kern/pmap.c), and the gates through *)
(* which a trap builds its frame (kern/trap.c, kern/trapentry.S).          *)
(*                                                                         *)
(* A segment is a record [load, va, memsz, filesz, off]; va stands for     *)
(* p_pa in the boot loader.                                                *)
(***************************************************************************)
EXTENDS Integers, Sequences, TLC
LOCAL INSTANCE SequencesExt

CONSTANTS
    SECTSIZE, PGSIZE,   \* bytes
    TablePages,         \* pages that one page table maps
    AddrBytes,          \* bytes of the address space, where va + len wraps
    ULIM, StackPage,    \* the first address users cannot see; the stack's page
    Junk                \* what a page holds when it is allocated

-----------------------------------------------------------------------------
(* The boot loader.  disk is a function from byte positions; the kernel's   *)
(* file starts at sector 1.                                                 *)

\* Whole sectors, one after the other, from the one that holds pa to the one
\* that holds the last byte: it might copy more than asked.
readseg(m, disk, pa, count, offset) ==
    LET start == pa - (pa % SECTSIZE)
        n == (pa + count - start + SECTSIZE - 1) \div SECTSIZE
        sector == offset \div SECTSIZE + 1
    IN [a \in DOMAIN m |-> IF a \in start..(start + n * SECTSIZE - 1)
                           THEN disk[sector * SECTSIZE + a - start] ELSE m[a]]

\* Every segment in the order of the headers; none of a file that is not ELF.
bootmain(m, disk, magic, segs) ==
    IF ~magic THEN m
    ELSE FoldLeft(LAMBDA mem, s : readseg(mem, disk, s.va, s.memsz, s.off), m, segs)

-----------------------------------------------------------------------------
(* The loader of user programs.  as is the address space: mem, a function   *)
(* from the byte addresses that are mapped to their contents; the page      *)
(* tables it has; the pages still free; and how the kernel panicked.        *)

RoundDown(a) == a - (a % PGSIZE)
RoundUp(a) == RoundDown(a + PGSIZE - 1)

\* page_alloc and page_insert of page p: the page that was there is freed.
MapPage(as, p) ==
    LET walk == IF p \div TablePages \in as.tables THEN 0 ELSE 1
        bytes == (p * PGSIZE)..(p * PGSIZE + PGSIZE - 1)
    IN IF as.panic # "none" THEN as
       ELSE IF as.free = 0 THEN [as EXCEPT !.panic = "page_alloc"]
       ELSE IF as.free = walk THEN [as EXCEPT !.panic = "page_insert"]
       ELSE [as EXCEPT !.mem = [a \in bytes |-> Junk] @@ @,
                       !.tables = @ \cup {p \div TablePages},
                       !.free = @ - 1 - walk + (IF p * PGSIZE \in DOMAIN as.mem THEN 1 ELSE 0)]

\* Fresh pages for every page that [va, va+len) touches.  A range that wraps
\* allocates nothing, and the assertion at the end fails.
RegionAlloc(as, va, len) ==
    IF len = 0 THEN as
    ELSE LET start == RoundDown(va)
             finish == RoundUp((va + len) % AddrBytes) % AddrBytes
             first == start \div PGSIZE
         IN IF finish < start THEN [as EXCEPT !.panic = "assert"]
            ELSE FoldLeft(MapPage, as, [i \in 1..((finish - start) \div PGSIZE) |-> first + i - 1])

Store(as, va, n, Byte(_)) ==
    [as EXCEPT !.mem = [a \in DOMAIN @ |-> IF a \in va..(va + n - 1) THEN Byte(a - va) ELSE @[a]]]

\* One program header: allocate, copy what the file has, clear the rest.
LoadSegment(as, file, s) ==
    IF ~s.load \/ as.panic # "none" THEN as
    ELSE LET got == RegionAlloc(as, s.va, s.memsz)
             copied == Store(got, s.va, s.filesz, LAMBDA i : file[s.off + i])
         IN IF got.panic # "none" THEN got
            ELSE Store(copied, s.va + s.filesz, s.memsz - s.filesz, LAMBDA i : 0)

load_icode(file, magic, segs, free) ==
    LET empty == [mem |-> <<>>, tables |-> {}, free |-> free, panic |-> "none"]
        as == FoldLeft(LAMBDA x, s : LoadSegment(x, file, s), empty, segs)
    IN IF ~magic THEN [empty EXCEPT !.panic = "magic"]
       ELSE IF as.panic # "none" THEN as
       ELSE RegionAlloc(as, StackPage * PGSIZE, PGSIZE)

-----------------------------------------------------------------------------
(* user_mem_check.  pte maps a page to its permissions, {} if not present.  *)

\* Mutant: the sum may wrap.
RangeBelowNoWrap(va, lim) == va < ULIM /\ lim < ULIM

RangeBelow(va, lim) == va < ULIM /\ lim < ULIM /\ lim >= va

\* The code advances a byte at a time, and stops at the first that fails.
user_mem_check(pte, va, len, perm) ==
    LET lim == (va + len) % AddrBytes
        bad == {a \in va..(lim - 1) : ~(perm \cup {"P"} \subseteq pte[a \div PGSIZE])}
    IN IF ~RangeBelow(va, lim) THEN [ok |-> FALSE, addr |-> IF va >= ULIM THEN va ELSE ULIM]
       ELSE IF bad # {} THEN [ok |-> FALSE, addr |-> CHOOSE a \in bad : \A b \in bad : a <= b]
       ELSE [ok |-> TRUE, addr |-> 0]

\* user_mem_assert: the environment is destroyed when the check fails.
user_mem_assert(pte, va, len, perm) ==
    LET r == user_mem_check(pte, va, len, perm \cup {"U"})
    IN [alive |-> r.ok, addr |-> r.addr]

-----------------------------------------------------------------------------
(* Gates and trap frames.                                                   *)

T_BRKPT == 3
T_GPFLT == 13
T_SYSCALL == 48
IRQ_TIMER_VECTOR == 32

\* trap_init: the vectors with a gate, and who may raise them with int n.
Gates == (0..8) \cup (10..14) \cup (16..19) \cup {IRQ_TIMER_VECTOR, T_SYSCALL}
Dpl(v) == IF v \in {T_BRKPT, T_SYSCALL} THEN 3 ELSE 0

\* The processor: vectors for which it pushes an error code.
ErrorCodes == {8, 10, 11, 12, 13, 14, 17}

\* Mutant: the handler of an alignment check pushes an error code of its own.
HasStubCodeNoAlign(v) == v \in {8, 10, 11, 12, 13, 14}

\* trapentry.S: the stubs made with TRAPHANDLER, not TRAPHANDLER_NOEC.
HasStubCode(v) == v \in {8, 10, 11, 12, 13, 14, 17}

\* The vector a trap arrives at.  soft: a program's int n, which pushes no error
\* code; the kernel has none.  Without a gate, or without the right to use it,
\* the trap is a general protection fault.
Refused(v, soft) == v \notin Gates \/ (soft /\ Dpl(v) < 3)

\* The frame that trap() gets: the words between the processor's eip and the
\* saved registers, last pushed first.
TrapFrame(v, soft) ==
    LET at == IF Refused(v, soft) THEN T_GPFLT ELSE v
        cpu == IF Refused(v, soft) \/ (~soft /\ v \in ErrorCodes) THEN <<"code">> ELSE <<>>
    IN <<at>> \o (IF HasStubCode(at) THEN <<>> ELSE <<"zero">>) \o cpu
=============================================================================
