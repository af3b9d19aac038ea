----------------------------- MODULE PageTables -----------------------------
(***************************************************************************)
(* Physical pages and page tables: the functions of kern/pmap.c, and of    *)
(* kern/env.c that build and tear down an address space, each as the       *)
(* memory it leaves.  They run under the big kernel lock.  Virtual         *)
(* addresses are page numbers below UTOP.                                  *)
(***************************************************************************)
EXTENDS Integers, Sequences, FiniteSets

CONSTANTS
    Envs,       \* slots of envs[]
    FirstFree,  \* the list of free pages that page_init makes
    NPde,       \* page directory entries below UTOP
    NPte,       \* entries of a page table
    VgaUser,    \* VGA_USER
    RefMod,     \* 2^16 in the code: pp_ref is a uint16_t
    NULL

Pages == {FirstFree[i] : i \in DOMAIN FirstFree}
Vga == 0                              \* the frame at VGA_PHYSADDR
Frames == Pages \cup {Vga}
Pdxs == 0..NPde-1
Vas == 0..(NPde * NPte - 1)
PDX(va) == va \div NPte
Bits == {"P", "U", "W", "M"}          \* M is PTE_MAPPED

ASSUME PageTablesAssumption ==
    /\ FirstFree \in Seq(Pages)
    /\ \A i, j \in DOMAIN FirstFree : FirstFree[i] = FirstFree[j] => i = j
    /\ IsFiniteSet(Envs)
    /\ NPde \in Nat /\ NPte \in Nat /\ RefMod \in Nat /\ RefMod > 2
    /\ VgaUser \in Vas
    /\ Vga \notin Pages /\ NULL \notin Frames \cup Envs

Absent == [page |-> NULL, perm |-> {}]
Ptes == [page : Frames, perm : {b \in SUBSET Bits : "P" \in b}] \cup {Absent}

MemType ==
    [free : Seq(Pages),                         \* page_free_list
     ref : [Frames -> 0..RefMod-1],             \* pages[i].pp_ref
     dir : [Envs -> Pages \cup {NULL}],         \* the frame of env_pgdir
     pde : [Envs \X Pdxs -> Pages \cup {NULL}], \* the page tables
     pte : [Envs \X Vas -> Ptes],               \* their entries
     panic : BOOLEAN]                           \* the kernel has panicked

-----------------------------------------------------------------------------
(* kern/pmap.c, each function as the memory it leaves.                      *)

SetRef(m, p, n) == [m EXCEPT !.ref = [m.ref EXCEPT ![p] = n % RefMod]]

AddRef(m, p) == SetRef(m, p, m.ref[p] + 1)

\* page_alloc takes Head(m.free), when there is one.
PageAlloc(m) == [m EXCEPT !.free = Tail(m.free)]

\* page_free: pp_link is not NULL for every page on the list but the last.
PageFree(m, p) ==
    IF m.ref[p] # 0 \/ \E i \in 1..(Len(m.free) - 1) : m.free[i] = p
    THEN [m EXCEPT !.panic = TRUE]
    ELSE [m EXCEPT !.free = <<p>> \o m.free]

PageDecref(m, p) ==
    LET m1 == SetRef(m, p, m.ref[p] - 1) IN
    IF m1.ref[p] = 0 THEN PageFree(m1, p) ELSE m1

\* pgdir_walk with create: it fails when a page table is needed and there is
\* no memory; otherwise the table exists afterwards, zeroed if it is new.
WalkFails(m, e, va) == m.pde[<<e, PDX(va)>>] = NULL /\ m.free = <<>>

SetPde(m, e, i, p) == [m EXCEPT !.pde = [m.pde EXCEPT ![<<e, i>>] = p]]

PgdirWalk(m, e, va) ==
    IF m.pde[<<e, PDX(va)>>] # NULL THEN m
    ELSE SetPde(AddRef(PageAlloc(m), Head(m.free)), e, PDX(va), Head(m.free))

SetPte(m, e, va, entry) == [m EXCEPT !.pte = [m.pte EXCEPT ![<<e, va>>] = entry]]

\* page_remove; page_lookup finds nothing when the entry is absent.
PageRemove(m, e, va) ==
    LET p == m.pte[<<e, va>>].page IN
    IF p = NULL THEN m ELSE SetPte(PageDecref(m, p), e, va, Absent)

Entry(p, perm) == [page |-> p, perm |-> perm \cup {"P"}]

\* Mutant: the old mapping is dropped before the new reference is taken, so
\* a page mapped again where it already is goes through the free list.
PageInsertRemoveFirst(m, e, p, va, perm) ==
    IF p = NULL THEN [m EXCEPT !.panic = TRUE]
    ELSE SetPte(AddRef(PageRemove(PgdirWalk(m, e, va), e, va), p), e, va, Entry(p, perm))

\* Mutant: the old mapping is overwritten.
PageInsertOverwrite(m, e, p, va, perm) ==
    IF p = NULL THEN [m EXCEPT !.panic = TRUE]
    ELSE SetPte(AddRef(PgdirWalk(m, e, va), p), e, va, Entry(p, perm))

\* page_insert, once pgdir_walk cannot fail.  A null pp is dereferenced,
\* which is a page fault in kernel mode: user programs leave page 0 unmapped.
PageInsert(m, e, p, va, perm) ==
    IF p = NULL THEN [m EXCEPT !.panic = TRUE]
    ELSE SetPte(PageRemove(AddRef(PgdirWalk(m, e, va), p), e, va), e, va, Entry(p, perm))

-----------------------------------------------------------------------------
(* kern/env.c.                                                              *)

SetDir(m, e, p) == [m EXCEPT !.dir = [m.dir EXCEPT ![e] = p]]

\* env_setup_vm with at least one free page: the page directory, then
\* assert(!page_insert(...)) for the VGA page, which needs a page table.
EnvSetupVm(m, e) ==
    LET m1 == SetDir(AddRef(PageAlloc(m), Head(m.free)), e, Head(m.free)) IN
    IF WalkFails(m1, e, VgaUser) THEN [m1 EXCEPT !.panic = TRUE]
    ELSE PageInsert(m1, e, Vga, VgaUser, Bits)

\* region_alloc of one page.
RegionAlloc(m, e, va) == PageInsert(PageAlloc(m), e, Head(m.free), va, {"U", "W"})

\* env_free, for one page directory entry: every page of the table, then
\* the table itself.
FreeTable(m, e, i) ==
    LET after[j \in 0..NPte] ==
            IF j = 0 THEN m ELSE PageRemove(after[j - 1], e, i * NPte + (j - 1))
    IN IF m.pde[<<e, i>>] = NULL THEN m
       ELSE PageDecref(SetPde(after[NPte], e, i, NULL), m.pde[<<e, i>>])

EnvFree(m, e) ==
    LET after[i \in 0..NPde] ==
            IF i = 0 THEN m ELSE FreeTable(after[i - 1], e, i - 1)
    IN PageDecref(SetDir(after[NPde], e, NULL), m.dir[e])

\* What page_init and mem_init leave: free pages, and the frames of the I/O
\* hole with a reference that is never dropped.
FreshMem ==
    [free |-> FirstFree,
     ref |-> [p \in Frames |-> IF p = Vga THEN 1 ELSE 0],
     dir |-> [e \in Envs |-> NULL],
     pde |-> [x \in Envs \X Pdxs |-> NULL],
     pte |-> [x \in Envs \X Vas |-> Absent],
     panic |-> FALSE]

-----------------------------------------------------------------------------
\* The places of memory m that refer to frame p, by kind.
Mappings(m, p) == {x \in Envs \X Vas : m.pte[x].page = p}
Tables(m, p) == {x \in Envs \X Pdxs : m.pde[x] = p}
Directories(m, p) == {e \in Envs : m.dir[e] = p}
=============================================================================
