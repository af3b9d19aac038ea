-------------------------------- MODULE Fork --------------------------------
(***************************************************************************)
(* fork_v0 of lib/fork.c and dumbfork of user/dumbfork.c: user code that   *)
(* copies its own address space into a child, one system call at a time.   *)
(* Between two calls other environments may take the remaining memory.     *)
(* What a page holds is modelled: a tag, and for the page of the user      *)
(* stack the loop variable that fork_v0 keeps there while it copies it.    *)
(***************************************************************************)
EXTENDS PageTables

CONSTANTS
    Parent, Child,  \* two slots of envs[]
    UTEMP,          \* the scratch page
    DataVa,         \* the page of the program that holds `thisenv'
    MoreVa,         \* another page of the program
    StackVa,        \* the page of the user stack
    MorePerms,      \* what the program may have made of the page at MoreVa
    MaxSteal        \* how many pages other environments may take

UTOP == NPde * NPte
RW == {"P", "U", "W"}

ASSUME ForkAssumption ==
    /\ Envs = {Parent, Child} /\ Parent # Child
    /\ UTEMP \in Vas /\ DataVa \in Vas /\ MoreVa \in Vas /\ StackVa \in Vas
    /\ UTEMP < VgaUser /\ VgaUser < DataVa /\ MoreVa = DataVa + 1 /\ MoreVa < StackVa
    /\ PDX(UTEMP) = PDX(VgaUser)
    /\ \A perm \in MorePerms : {"P", "U"} \subseteq perm /\ perm \subseteq Bits
    /\ MaxSteal \in Nat
    \* Memory for the program itself: its page directory, up to four page
    \* tables and three pages.  pp_ref is wide enough for two environments
    \* that map a frame at every page they use.
    /\ Len(FirstFree) >= 8 /\ RefMod > 16

VARIABLES
    mem,        \* physical memory and page tables
    data,       \* the contents of every frame
    how,        \* "fork" or "dumbfork"
    pc,         \* what the parent does next
    va,         \* the loop variable
    arg,        \* the arguments of dup_or_share or duppage: page and perm
    status,     \* env_status of the child
    stolen,     \* frames that other environments have taken
    before      \* the parent's page table entries and data when it called

vars == <<mem, data, how, pc, va, arg, status, stolen, before>>

Content(tag, local) == [tag |-> tag, local |-> local]
Contents == [tag : {"zero", "vga", "data", "more", "stack", "child"}, local : 0..UTOP]
Pcs == {"exofork", "scan", "map", "alloc", "maptemp", "copy", "unmap", "start",
        "parent", "child", "panic"}

-----------------------------------------------------------------------------
\* A program that has been loaded (or spawned by an earlier fork): its data
\* and stack pages are writable, as region_alloc makes them; the page at
\* MoreVa is absent, private with some permissions, or the data page again.
ParentMem(more, alias) ==
    LET m1 == RegionAlloc(RegionAlloc(EnvSetupVm(FreshMem, Parent), Parent, DataVa),
                          Parent, StackVa) IN
    IF more = {} THEN m1
    ELSE IF alias THEN PageInsert(m1, Parent, m1.pte[<<Parent, DataVa>>].page, MoreVa, more)
    ELSE PageInsert(PageAlloc(m1), Parent, Head(m1.free), MoreVa, more)

FrameAt(m, e, v) == m.pte[<<e, v>>].page

Init ==
    /\ \E more \in MorePerms \cup {{}}, alias \in BOOLEAN :
        /\ mem = ParentMem(more, alias)
        /\ data = [p \in Frames |->
              CASE p = Vga -> Content("vga", 0)
                [] p = FrameAt(mem, Parent, DataVa) -> Content("data", 0)
                [] p = FrameAt(mem, Parent, StackVa) -> Content("stack", 0)
                [] p = FrameAt(mem, Parent, MoreVa) -> Content("more", 0)
                [] OTHER -> Content("zero", 0)]
        \* dumbfork copies [UTEXT, end), all of which has to be there.
        /\ how \in IF more = {} THEN {"fork"} ELSE {"fork", "dumbfork"}
    /\ pc = "exofork"
    /\ va = 0
    /\ arg = [page |-> 0, perm |-> {}]
    /\ status = "ENV_FREE"
    /\ stolen = {}
    /\ before = [pte |-> [v \in Vas |-> mem.pte[<<Parent, v>>]],
                 tag |-> [v \in Vas |-> IF mem.pte[<<Parent, v>>] = Absent THEN "zero"
                                        ELSE data[FrameAt(mem, Parent, v)].tag]]

At(label) == pc = label /\ ~mem.panic

\* The loop variable lives in the parent's stack page.
SetVa(v) ==
    /\ va' = v
    /\ data' = [data EXCEPT ![FrameAt(mem, Parent, StackVa)].local = v]

\* sys_exofork; every error is a panic of the parent.
Exofork ==
    /\ At("exofork")
    /\ \/ /\ mem.free # <<>>
          /\ mem' = EnvSetupVm(mem, Child)
          /\ status' = "ENV_NOT_RUNNABLE"
          /\ SetVa(IF how = "fork" THEN 0 ELSE DataVa)
          /\ pc' = "scan"
       \/ /\ pc' = "panic"          \* E_NO_FREE_ENV or E_NO_MEM
          /\ UNCHANGED <<mem, data, va, status>>
    /\ UNCHANGED <<how, arg, stolen, before>>

\* The permission bits that uvpt shows; {} where uvpd or uvpt is not present.
Uvpt(v) == mem.pte[<<Parent, v>>].perm

\* The test in dup_or_share.
Share(perm) == "W" \notin perm \/ "M" \in perm

LoopEnd == IF how = "fork" THEN UTOP ELSE MoreVa + 1

\* The head of the loop over the address space.
Scan ==
    /\ At("scan") /\ va < LoopEnd
    /\ LET perm == IF how = "fork" THEN Uvpt(va) ELSE RW IN
       \/ /\ perm = {}
          /\ SetVa(va + 1)
          /\ UNCHANGED <<pc, arg>>
       \/ /\ perm # {}
          /\ arg' = [page |-> va, perm |-> perm]
          /\ pc' = IF how = "fork" /\ Share(perm) THEN "map" ELSE "alloc"
          /\ UNCHANGED <<va, data>>
    /\ UNCHANGED <<mem, how, status, stolen, before>>

\* Mutant: the loop has copied the stack already.
LastStackSkipped ==
    /\ At("scan") /\ va = LoopEnd
    /\ pc' = "start"
    /\ UNCHANGED <<mem, data, how, va, arg, status, stolen, before>>

\* The stack the parent is running on, after the loop.
LastStack ==
    /\ At("scan") /\ va = LoopEnd
    /\ arg' = [page |-> StackVa, perm |-> RW]
    /\ pc' = "alloc"
    /\ UNCHANGED <<mem, data, how, va, status, stolen, before>>

\* sys_page_map(src, srcva, dst, dstva, perm), of pages that are mapped and
\* with permissions the source has; or its E_NO_MEM.
PageMap(src, srcva, dst, dstva, next) ==
    IF WalkFails(mem, dst, dstva)
    THEN pc' = "panic" /\ UNCHANGED mem
    ELSE pc' = next /\ mem' = PageInsert(mem, dst, FrameAt(mem, src, srcva), dstva, arg.perm)

\* dup_or_share of a page to share.
Map ==
    /\ At("map")
    /\ PageMap(Parent, arg.page, Child, arg.page, "scan")
    /\ IF pc' = "scan" THEN SetVa(va + 1) ELSE UNCHANGED <<va, data>>
    /\ UNCHANGED <<how, arg, status, stolen, before>>

\* sys_page_alloc in the child: the page is zeroed; what was mapped there is
\* dropped.
Alloc ==
    /\ At("alloc")
    /\ LET m1 == PageAlloc(mem) IN
       \/ /\ mem.free = <<>>
          /\ pc' = "panic"
          /\ UNCHANGED <<mem, data>>
       \/ /\ mem.free # <<>> /\ WalkFails(m1, Child, arg.page)
          /\ pc' = "panic"
          /\ mem' = PageFree(m1, Head(mem.free))
          /\ data' = [data EXCEPT ![Head(mem.free)] = Content("zero", 0)]
       \/ /\ mem.free # <<>> /\ ~WalkFails(m1, Child, arg.page)
          /\ pc' = "maptemp"
          /\ mem' = PageInsert(m1, Child, Head(mem.free), arg.page, arg.perm)
          /\ data' = [data EXCEPT ![Head(mem.free)] = Content("zero", 0)]
    /\ UNCHANGED <<how, va, arg, status, stolen, before>>

MapTemp ==
    /\ At("maptemp")
    /\ PageMap(Child, arg.page, Parent, UTEMP, "copy")
    /\ UNCHANGED <<data, how, va, arg, status, stolen, before>>

\* Mutant: the operands of memmove are exchanged.
CopySwapped ==
    /\ At("copy")
    /\ data' = [data EXCEPT ![FrameAt(mem, Parent, arg.page)] = data[FrameAt(mem, Parent, UTEMP)]]
    /\ pc' = "unmap"
    /\ UNCHANGED <<mem, how, va, arg, status, stolen, before>>

\* memmove(UTEMP, va, PGSIZE).
Copy ==
    /\ At("copy")
    /\ data' = [data EXCEPT ![FrameAt(mem, Parent, UTEMP)] = data[FrameAt(mem, Parent, arg.page)]]
    /\ pc' = "unmap"
    /\ UNCHANGED <<mem, how, va, arg, status, stolen, before>>

\* sys_page_unmap(0, UTEMP); the last call of dup_or_share and of duppage.
Unmap ==
    /\ At("unmap")
    /\ mem' = PageRemove(mem, Parent, UTEMP)
    /\ IF va = LoopEnd THEN pc' = "start" /\ UNCHANGED <<va, data>>
                       ELSE pc' = "scan" /\ SetVa(va + 1)
    /\ UNCHANGED <<how, arg, status, stolen, before>>

\* sys_env_set_status(pid, ENV_RUNNABLE); fork returns in the parent.
Start ==
    /\ At("start")
    /\ status' = "ENV_RUNNABLE"
    /\ pc' = "parent"
    /\ UNCHANGED <<mem, data, how, va, arg, stolen, before>>

\* The child leaves fork: thisenv = &envs[ENVX(sys_getenvid())].
ChildReturns ==
    /\ At("parent") /\ status = "ENV_RUNNABLE"
    /\ data' = [data EXCEPT ![FrameAt(mem, Child, DataVa)].tag = "child"]
    /\ pc' = "child"
    /\ UNCHANGED <<mem, how, va, arg, status, stolen, before>>

\* Another environment takes a page.
Steal ==
    /\ ~mem.panic /\ pc \notin {"parent", "child", "panic"}
    /\ mem.free # <<>> /\ Cardinality(stolen) < MaxSteal
    /\ mem' = AddRef(PageAlloc(mem), Head(mem.free))
    /\ stolen' = stolen \cup {Head(mem.free)}
    /\ UNCHANGED <<data, how, pc, va, arg, status, before>>

Next ==
    \/ Exofork \/ Scan \/ LastStack \/ Map \/ Alloc \/ MapTemp \/ Copy \/ Unmap
    \/ Start \/ ChildReturns \/ Steal

Spec == Init /\ [][Next]_vars

-----------------------------------------------------------------------------
(* Properties.                                                              *)

\* The types of the variables: fork passes only addresses below UTOP.
TypeOK ==
    /\ mem \in MemType
    /\ data \in [Frames -> Contents]
    /\ how \in {"fork", "dumbfork"} /\ pc \in Pcs /\ va \in 0..UTOP
    /\ arg \in [page : Vas, perm : SUBSET Bits]
    /\ status \in {"ENV_FREE", "ENV_NOT_RUNNABLE", "ENV_RUNNABLE"}
    /\ stolen \subseteq Pages

Mapped(e, v) == mem.pte[<<e, v>>] # Absent
Private(e, v) == {x \in Mappings(mem, FrameAt(mem, e, v)) : x[1] = e} =
                 Mappings(mem, FrameAt(mem, e, v))

\* From the moment the child may run, its address space is the parent's: the same pages
\* with the same permissions and, page by page, the parent's contents at that
\* very moment, the stack's loop variable included.  Pages that are read-only
\* or PTE_MAPPED are the parent's own frames and every other page is a frame
\* the parent does not map.  dumbfork makes every page writable and private.
ChildIsCopy ==
    status = "ENV_RUNNABLE" /\ pc # "child" =>
        \A v \in Vas :
            /\ Mapped(Child, v) <=> before.pte[v] # Absent
            /\ Mapped(Child, v) =>
                /\ data[FrameAt(mem, Child, v)] = data[FrameAt(mem, Parent, v)]
                /\ mem.pte[<<Child, v>>].perm =
                      IF how = "fork" \/ v = VgaUser THEN before.pte[v].perm ELSE RW
                /\ IF v = VgaUser \/ (how = "fork" /\ Share(before.pte[v].perm))
                   THEN FrameAt(mem, Child, v) = FrameAt(mem, Parent, v)
                   ELSE Private(Child, v)

\* fork leaves the parent's memory alone, whether it succeeds, fails half
\* way or is still copying: every page but the scratch page is mapped where
\* and how it was and holds what it held, also after the child has set its
\* `thisenv'; and the scratch page is unmapped when fork returns.
ParentIntact ==
    /\ \A v \in Vas \ {UTEMP} :
        /\ mem.pte[<<Parent, v>>] = before.pte[v]
        /\ Mapped(Parent, v) => data[FrameAt(mem, Parent, v)].tag = before.tag[v]
    /\ pc \in {"parent", "child"} => ~Mapped(Parent, UTEMP)

\* No page is lost on any path, a failing one or the stack that is copied
\* twice: what is not on the free list is in use.
NoPageLost ==
    \A p \in Pages :
        \/ \E i \in 1..Len(mem.free) : mem.free[i] = p
        \/ p \in stolen
        \/ Mappings(mem, p) # {} \/ Tables(mem, p) # {} \/ Directories(mem, p) # {}

\* The memory of parent and child stays well formed and accounted for, with
\* every call of fork failing for lack of memory at any point.
MemoryAccounted == TypeOK /\ NoPageLost
=============================================================================
