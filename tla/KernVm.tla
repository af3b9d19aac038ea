------------------------------- MODULE KernVm -------------------------------
(***************************************************************************)
(* mem_init (kern/pmap.c): from the sizes in the NVRAM to the kernel's     *)
(* page directory and the list of free pages, on a range of machines.      *)
(*                                                                         *)
(* Until the last part of mem_init the processor runs on entry_pgdir,      *)
(* which lets it write only the first NPTE pages of memory; a write to     *)
(* another page is a page fault, and the machine stops.  Addresses are     *)
(* page numbers, except in boot_alloc, and wrap at the end of the address  *)
(* space: memory that the NKern tables at KERNBASE do not map has its      *)
(* "kernel address" below KERNBASE.                                        *)
(***************************************************************************)
EXTENDS Integers, Sequences, FiniteSets
LOCAL INSTANCE SequencesExt

CONSTANTS
    Machines,           \* records: basemem, extmem, ext16mem as the NVRAM has
                        \* them, and end, the physical end of the kernel in bytes
    PageK, OneMB, SixteenMB, Ext16K,    \* in K; ext16mem counts Ext16K at a time
    IOPHYSMEM, EXTPHYSMEM, MPENTRY,     \* page numbers
    PGSIZE, NPTE,       \* bytes of a page, pages of a table
    NUser, NKern,       \* directory entries below UTOP and from KERNBASE
    InfoSize, EnvPages, \* bytes of a PageInfo, pages of envs
    NCPU, KSTKSIZE, KSTKGAP             \* pages

ASSUME KernVmAssumption ==
    /\ 0 < MPENTRY /\ MPENTRY < IOPHYSMEM /\ IOPHYSMEM < EXTPHYSMEM
    /\ OneMB = EXTPHYSMEM * PageK /\ NCPU * (KSTKSIZE + KSTKGAP) <= NPTE
    /\ PGSIZE > 0 /\ NPTE > 0 /\ NKern > 0
    /\ IOPHYSMEM - 2 >= (4 + NKern) + 3    \* base memory: page tables and self-tests

\* Directory indices, upwards from UTOP.
UENVS == NUser
UPAGES == NUser + 1
UVPT == NUser + 2
MMIOBASE == NUser + 3
KSTACK == NUser + 4
KERNBASE == NUser + 5
NPDE == KERNBASE + NKern
KSTACKTOP == KERNBASE * NPTE        \* a page number
EntryPages == 0..(NPTE - 1)         \* entry_pgdir: one large page at KERNBASE
MappedPages == 0..(NKern * NPTE - 1)        \* what kern_pgdir maps at KERNBASE
AddrPages == NPDE * NPTE

\* KADDR, page2kva: the sum wraps.
KADDR(p) == (KERNBASE * NPTE + p) % AddrPages

\* Pages of the kernel's image that are its stacks.
bootstack == EXTPHYSMEM + 1
percpu_kstacks(i) == EXTPHYSMEM + 1 + (i + 1) * KSTKSIZE

VARIABLES
    pc, machine,
    npages, nextfree,   \* nextfree in bytes, 0 before the first boot_alloc
    at,                 \* where kern_pgdir, pages and envs were allocated
    pp_ref, free,       \* the pages array; page_free_list
    pde, pte            \* kern_pgdir: table of each entry, 0 if absent; mappings

vars == <<pc, machine, npages, nextfree, at, pp_ref, free, pde, pte>>
tables == <<pp_ref, free, pde, pte>>

Panic(why) == pc' = why /\ UNCHANGED <<machine, npages, nextfree, at, tables>>
Goto(l) == pc' = l /\ UNCHANGED machine

Steps == {"detect", "pgdir", "pages", "envs", "page_init", "check_low", "check_alloc",
          "check_page", "upages", "uenvs", "kstack", "kernbase", "mp", "check_kern", "lcr3",
          "check_all", "installed", "done"}
BeforeLcr3 == Steps \ {"check_all", "installed", "done"}

\* The pages whose kernel addresses can be written now.
Writable == IF pc \in BeforeLcr3 THEN EntryPages ELSE MappedPages

Init ==
    /\ pc = "detect" /\ machine \in Machines
    /\ npages = 0 /\ nextfree = 0 /\ at = [pgdir |-> 0, pages |-> 0, envs |-> 0]
    /\ pp_ref = <<>> /\ free = <<>> /\ pde = [i \in 0..(NPDE - 1) |-> 0] /\ pte = <<>>

-----------------------------------------------------------------------------
(* The size of memory, and the allocator for the first structures.          *)

i386_detect_memory ==
    /\ pc = "detect"
    /\ npages' = (IF machine.ext16mem > 0 THEN SixteenMB + machine.ext16mem * Ext16K
                  ELSE IF machine.extmem > 0 THEN OneMB + machine.extmem
                  ELSE machine.basemem) \div PageK
    /\ Goto("pgdir") /\ UNCHANGED <<nextfree, at, tables>>

RoundUp(n) == ((n + PGSIZE - 1) \div PGSIZE) * PGSIZE
NextFree == IF nextfree = 0 THEN RoundUp(machine.end) ELSE nextfree

\* boot_alloc(n) followed by the memset of what it returned.
boot_alloc(what, n, next) ==
    LET finish == NextFree + RoundUp(n)
    IN IF finish > (npages * PGSIZE) % (AddrPages * PGSIZE) THEN Panic("not enough memory")
       ELSE IF ~((NextFree \div PGSIZE)..(finish \div PGSIZE - 1) \subseteq Writable)
       THEN Panic("page fault")
       ELSE /\ nextfree' = finish /\ at' = [at EXCEPT ![what] = NextFree \div PGSIZE]
            /\ Goto(next) /\ UNCHANGED <<npages, pp_ref, free, pte>>

AllocPgdir ==
    /\ pc = "pgdir" /\ boot_alloc("pgdir", PGSIZE, "pages")
    /\ pde' = IF pc' = "pages" THEN [pde EXCEPT ![UVPT] = at'.pgdir] ELSE pde
AllocPages == pc = "pages" /\ boot_alloc("pages", npages * InfoSize, "envs") /\ UNCHANGED pde
AllocEnvs == pc = "envs" /\ boot_alloc("envs", EnvPages * PGSIZE, "page_init") /\ UNCHANGED pde

-----------------------------------------------------------------------------
(* The free list.                                                           *)

\* Mutant: memory is taken to be in use up to the end of the kernel's image.
PageInUseImage(i) ==
    (i >= IOPHYSMEM /\ i < RoundUp(machine.end) \div PGSIZE) \/ i = MPENTRY

PageInUse(i) == (i >= IOPHYSMEM /\ i < NextFree \div PGSIZE) \/ i = MPENTRY

\* Page 0 is skipped; every other one goes to the front of the list.
page_init ==
    /\ pc = "page_init"
    /\ pp_ref' = [i \in 0..(npages - 1) |-> IF i > 0 /\ PageInUse(i) THEN 1 ELSE 0]
    /\ free' = Reverse(SelectSeq([i \in 1..(npages - 1) |-> i], LAMBDA i : ~PageInUse(i)))
    /\ Goto("check_low") /\ UNCHANGED <<npages, nextfree, at, pde, pte>>

\* Mutant: the list stays in the order that page_init gave it.
LowFirstNot(l) == l

\* The pages of the first 4MB first, in the order they had.
LowFirst(l) ==
    SelectSeq(l, LAMBDA p : p < NPTE) \o SelectSeq(l, LAMBDA p : p >= NPTE)

\* check_page_free_list: what it asserts of the list.
ListAsserts(l) ==
    /\ \A p \in Range(l) : /\ p < npages
                           /\ p \notin {0, IOPHYSMEM, EXTPHYSMEM - 1, EXTPHYSMEM, MPENTRY}
                           /\ p < EXTPHYSMEM \/ KADDR(p) >= KADDR(NextFree \div PGSIZE)
    /\ \E p \in Range(l) : p < EXTPHYSMEM
    /\ \E p \in Range(l) : p >= EXTPHYSMEM

\* It first fills the free pages, or those of the first 4MB, with 0x97.
check_page_free_list ==
    /\ pc \in {"check_low", "check_all"}
    /\ LET l == IF pc = "check_low" THEN LowFirst(free) ELSE free
           filled == {p \in Range(l) : pc = "check_low" => p < NPTE}
       IN IF ~(filled \subseteq Writable) THEN Panic("page fault")
          ELSE IF ~ListAsserts(l) THEN Panic("check_page_free_list")
          ELSE /\ free' = l /\ Goto(IF pc = "check_low" THEN "check_alloc" ELSE "installed")
               /\ UNCHANGED <<npages, nextfree, at, pp_ref, pde, pte>>

page_free(l, p) == <<p>> \o l
Rest == SubSeq(free, 4, Len(free))

\* check_page_alloc takes three pages, frees them to an empty list and takes
\* them again, so that they go back in the order they had; it writes the last.
check_page_alloc ==
    /\ pc = "check_alloc"
    /\ IF Len(free) < 3 THEN Panic("check_page_alloc")
       ELSE IF free[3] \notin Writable THEN Panic("page fault")
       ELSE /\ free' = page_free(page_free(page_free(Rest, free[3]), free[2]), free[1])
            /\ Goto("check_page") /\ UNCHANGED <<npages, nextfree, at, pp_ref, pde, pte>>

\* check_page_installed_pgdir: the first of three pages is a page table while
\* the second is mapped, then the third in its place.
check_page_installed_pgdir ==
    /\ pc = "installed"
    /\ IF Len(free) < 3 THEN Panic("check_page_installed_pgdir")
       ELSE IF ~({free[1], free[2], free[3]} \subseteq Writable) THEN Panic("page fault")
       ELSE /\ free' = page_free(page_free(page_free(Rest, free[2]), free[3]), free[1])
            /\ Goto("done") /\ UNCHANGED <<npages, nextfree, at, pp_ref, pde, pte>>

-----------------------------------------------------------------------------
(* The mappings of kern_pgdir.  s is the part of the state they change, and *)
(* what stopped them.                                                       *)

State == [ref |-> pp_ref, free |-> free, pde |-> pde, pte |-> pte, stop |-> "no"]

\* pgdir_walk(va, create): a table for the address, which is cleared, unless
\* memory has run out.
pgdir_walk(s, va) ==
    LET d == va \div NPTE
    IN IF s.pde[d] # 0 THEN s
       ELSE IF s.free = <<>> THEN [s EXCEPT !.stop = "no page table"]
       ELSE IF Head(s.free) \notin Writable THEN [s EXCEPT !.stop = "page fault"]
       ELSE [s EXCEPT !.free = Tail(@), !.ref[Head(s.free)] = @ + 1, !.pde[d] = Head(s.free)]

Map(s, va, pa, perm) ==
    LET w == pgdir_walk(s, va)
    IN IF w.stop # "no" THEN w
       ELSE [w EXCEPT !.pte = [v \in DOMAIN @ \cup {va} |->
                                  IF v = va THEN [pa |-> pa, perm |-> perm \cup {"P"}] ELSE @[v]]]

boot_map_region(s, va, n, pa, perm) ==
    FoldLeft(LAMBDA t, i : IF t.stop = "no" THEN Map(t, va + i - 1, pa + i - 1, perm) ELSE t, s,
             [i \in 1..n |-> i])

Becomes(s, next) ==
    IF s.stop # "no" THEN Panic(s.stop)
    ELSE /\ pp_ref' = s.ref /\ free' = s.free /\ pde' = s.pde /\ pte' = s.pte
         /\ Goto(next) /\ UNCHANGED <<npages, nextfree, at>>

\* check_page, with memory for its pages, uses the first as a page table and
\* returns them in the other order; its tests of mmio_map_region leave a page
\* table behind.
check_page ==
    /\ pc = "check_page"
    /\ IF Len(free) < 3 THEN Panic("check_page")
       ELSE IF free[1] \notin Writable THEN Panic("page fault")
       ELSE LET back == page_free(page_free(page_free(Rest, free[1]), free[2]), free[3])
            IN Becomes(pgdir_walk([State EXCEPT !.free = back], MMIOBASE * NPTE), "upages")

\* The array of PageInfo, which has to fill whole pages: size % PGSIZE == 0.
MapPages ==
    /\ pc = "upages"
    /\ IF (npages * InfoSize) % PGSIZE # 0 THEN Panic("boot_map_region")
       ELSE Becomes(boot_map_region(State, UPAGES * NPTE, (npages * InfoSize) \div PGSIZE,
                                    at.pages, {"U"}), "uenvs")

\* Mutant: the user's copy of envs can be written.
MapEnvsWritable ==
    /\ pc = "uenvs"
    /\ Becomes(boot_map_region(State, UENVS * NPTE, EnvPages, at.envs, {"U", "W"}), "kstack")

MapEnvs ==
    /\ pc = "uenvs"
    /\ Becomes(boot_map_region(State, UENVS * NPTE, EnvPages, at.envs, {"U"}), "kstack")

MapBootStack ==
    /\ pc = "kstack"
    /\ Becomes(boot_map_region(State, KSTACKTOP - KSTKSIZE, KSTKSIZE, bootstack, {"W"}), "kernbase")

MapKernBase ==
    /\ pc = "kernbase"
    /\ Becomes(boot_map_region(State, KERNBASE * NPTE, NKern * NPTE, 0, {"W"}), "mp")

\* Mutant: the stacks follow each other with no gap.
StackOfCpuNoGap(i) == KSTACKTOP - KSTKSIZE - i * KSTKSIZE

\* kernelstack_va for CPU i.
StackOfCpu(i) == KSTACKTOP - KSTKSIZE - i * (KSTKSIZE + KSTKGAP)

mem_init_mp ==
    /\ pc = "mp"
    /\ Becomes(FoldLeft(LAMBDA s, i : boot_map_region(s, StackOfCpu(i - 1), KSTKSIZE,
                                                      percpu_kstacks(i - 1), {"W"}),
                        State, [i \in 1..NCPU |-> i]), "check_kern")

\* check_va2pa: -1 for ~0.
check_va2pa(v) == IF pde[v \div NPTE] = 0 \/ v \notin DOMAIN pte THEN -1 ELSE pte[v].pa

\* What check_kern_pgdir asserts.
KernAsserts ==
    /\ \A i \in 0..(RoundUp(npages * InfoSize) \div PGSIZE - 1) :
           check_va2pa(UPAGES * NPTE + i) = at.pages + i
    /\ \A i \in 0..(EnvPages - 1) : check_va2pa(UENVS * NPTE + i) = at.envs + i
    /\ \A i \in 0..(npages - 1) : check_va2pa(KADDR(i)) = i
    /\ \A c \in 0..(NCPU - 1) :
           LET base == KSTACKTOP - (KSTKSIZE + KSTKGAP) * (c + 1)
           IN /\ \A i \in 0..(KSTKSIZE - 1) :
                     check_va2pa(base + KSTKGAP + i) = percpu_kstacks(c) + i
              /\ \A i \in 0..(KSTKGAP - 1) : check_va2pa(base + i) = -1
    /\ \A d \in 0..(NPDE - 1) : (pde[d] # 0) <=> d >= UENVS

check_kern_pgdir ==
    /\ pc = "check_kern"
    /\ IF KernAsserts THEN Goto("lcr3") /\ UNCHANGED <<npages, nextfree, at, tables>>
       ELSE Panic("check_kern_pgdir")

\* lcr3(PADDR(kern_pgdir)): from here on all of memory is mapped.
LoadKernPgdir ==
    /\ pc = "lcr3" /\ Goto("check_all")
    /\ UNCHANGED <<npages, nextfree, at, tables>>

Next ==
    \/ i386_detect_memory \/ AllocPgdir \/ AllocPages \/ AllocEnvs \/ page_init
    \/ check_page_free_list \/ check_page_alloc \/ check_page \/ MapPages \/ MapEnvs
    \/ MapBootStack \/ MapKernBase \/ mem_init_mp \/ check_kern_pgdir \/ LoadKernPgdir
    \/ check_page_installed_pgdir

Spec == Init /\ [][Next]_vars

-----------------------------------------------------------------------------

\* Pages that hold something of the kernel or the machine: page 0, the start
\* code of the other CPUs, the I/O hole, the kernel, what boot_alloc gave out,
\* and the page tables.
Reserved ==
    {0, MPENTRY} \cup IOPHYSMEM..(NextFree \div PGSIZE - 1) \cup {pde[d] : d \in 0..(NPDE - 1)}

\* No page that is in use for anything is ever on the free list, none is there
\* twice, and a free page has no references (page_init, and every page table
\* and self-test that takes pages from the list and puts them back).
FreePagesSafe ==
    pc \in Steps =>
        /\ Range(free) \cap Reserved = {}
        /\ \A i, j \in DOMAIN free : free[i] = free[j] => i = j
        /\ \A p \in Range(free) : p < npages /\ pp_ref[p] = 0

\* Bytes of memory up to the end of what boot_alloc gives out.
Structures ==
    RoundUp(machine.end) + PGSIZE + RoundUp(npages * InfoSize) + EnvPages * PGSIZE

\* On entry_pgdir, which reaches 4MB of memory (entrypgdir.c:6-13), mem_init
\* never writes elsewhere in its self-tests and page tables, however much memory
\* is free: the low pages go first on the list.  Only the structures of
\* boot_alloc may end above: with the PageInfo array of over about 1.2GB of memory
\* the memset of pmap.c:158-160 faults.
BootReachable == pc = "page fault" => Structures > NPTE * PGSIZE

\* The address space that mem_init leaves: memory at KERNBASE, the read-only
\* copies for the user and nothing else that a user can see, every CPU's stack
\* with an unmapped gap below it, and nothing below UTOP.  The page directory
\* as its own page table, at UVPT, is outside the comparison.
KernMapExact ==
    pc = "done" =>
        LET Region(va, n, pa, perm) == {<<va + i, pa + i, perm \cup {"P"}>> : i \in 0..(n - 1)}
            Stack(i) == Region(KSTACKTOP - i * (KSTKSIZE + KSTKGAP) - KSTKSIZE, KSTKSIZE,
                               percpu_kstacks(i), {"W"})
        IN {<<v, pte[v].pa, pte[v].perm>> : v \in DOMAIN pte} =
               Region(KERNBASE * NPTE, NKern * NPTE, 0, {"W"})
               \cup Region(UPAGES * NPTE, (npages * InfoSize) \div PGSIZE, at.pages, {"U"})
               \cup Region(UENVS * NPTE, EnvPages, at.envs, {"U"})
               \cup UNION {Stack(i) : i \in 0..(NCPU - 1)}

Tables == 4 + NKern     \* pages that mem_init takes for page tables

\* mem_init completes, and none of its own tests fails, exactly on the machines
\* whose extended memory holds its structures and a page more (and, if all of
\* it is in the first 4MB, the page tables too), whose PageInfo array fills
\* whole pages, and whose memory is not larger than the 256MB mapped at KERNBASE
\* (pmap.h:22): beyond them page2kva wraps below first_free_page, and an
\* assertion of check_page_free_list fails (pmap.c:734).
SelfTestsPass ==
    LET small == Structures \div PGSIZE + (IF npages <= NPTE THEN Tables ELSE 0) >= npages
        large == npages > NKern * NPTE \/ Structures > NPTE * PGSIZE
        bad == small \/ large \/ (npages * InfoSize) % PGSIZE # 0
    IN /\ pc \notin Steps => bad
       /\ pc = "done" => ~bad
=============================================================================
