-------------------------------- MODULE Pmap --------------------------------
(***************************************************************************)
(* Physical pages and address spaces: the page allocator and page tables   *)
(* of kern/pmap.c, the system calls that edit an address space             *)
(* (kern/syscall.c), its creation and destruction (env_setup_vm,           *)
(* region_alloc and env_free in kern/env.c), and the TLB of every CPU.     *)
(*                                                                         *)
(* A handler runs under the big kernel lock and is one action; what runs   *)
(* beside it is user code on the other CPUs, which fills their TLBs.  Who  *)
(* runs where is any schedule module EnvSched allows: an environment is on *)
(* at most one CPU and that CPU has its page directory loaded.  Virtual    *)
(* addresses are page numbers below UTOP, so alignment and range checks    *)
(* have nothing left to reject.  A call that fails changes nothing here    *)
(* and is a step only where it had to undo something.  What pages hold is  *)
(* not modelled.                                                           *)
(***************************************************************************)
EXTENDS PageTables

CONSTANTS
    CPUs,
    BootEnv,    \* the environment env_create makes
    BootVa,     \* what load_icode maps in the boot environment
    Perms,      \* the permissions user programs ask for: sets of PTE bits
    Calls       \* what the user programs of this instance may do

\* The last three lift rules the kernel relies on its callers to follow: map
\* only pages that are there, fork only while there is memory for it, leave
\* the memory of a running child alone.
AllCalls == {"touch", "page", "ipc", "fork", "destroy",
             "map_unmapped", "fork_low_memory", "edit_running_child"}

ASSUME PmapAssumption ==
    /\ BootEnv \in Envs /\ BootVa \in Vas \ {VgaUser}
    /\ Len(FirstFree) >= 4      \* enough for the environment env_create makes
    /\ Perms \subseteq SUBSET Bits
    /\ Calls \subseteq AllCalls

VARIABLES
    mem,        \* physical memory and page tables, see MemType
    running,    \* the environment whose user code CPU c is executing, or NULL
    parent,     \* the live parent of an environment, or NULL
    tlb         \* what CPU c has cached of running[c]'s page tables

vars == <<mem, running, parent, tlb>>

EmptyTlb == [va \in Vas |-> Absent]

-----------------------------------------------------------------------------
Live(e) == mem.dir[e] # NULL
IsRunning(e) == \E c \in CPUs : running[c] = e

\* The machine after i386_init's env_create.
Init ==
    /\ mem = RegionAlloc(EnvSetupVm(FreshMem, BootEnv), BootEnv, BootVa)
    /\ running = [c \in CPUs |-> NULL]
    /\ parent = [e \in Envs |-> NULL]
    /\ tlb = [c \in CPUs |-> EmptyTlb]

\* Mutant: the page directory is loaded, what the TLB holds stays.
SwitchStaleTlb(c) ==
    /\ ~mem.panic
    /\ \E e \in Envs \cup {NULL} :
        /\ e # NULL => Live(e) /\ ~IsRunning(e)
        /\ running' = [running EXCEPT ![c] = e]
    /\ UNCHANGED <<mem, parent, tlb>>

\* sched_yield on CPU c: env_run loads the page directory, sched_halt the
\* kernel's; either empties the TLB.
Switch(c) ==
    /\ ~mem.panic
    /\ \E e \in Envs \cup {NULL} :
        /\ e # NULL => Live(e) /\ ~IsRunning(e)
        /\ running' = [running EXCEPT ![c] = e]
    /\ tlb' = [tlb EXCEPT ![c] = EmptyTlb]
    /\ UNCHANGED <<mem, parent>>

\* User code on CPU c touches va: the processor walks the page table.
UserAccess(c) ==
    /\ "touch" \in Calls
    /\ ~mem.panic
    /\ running[c] # NULL
    /\ \E va \in Vas :
        /\ mem.pte[<<running[c], va>>] # Absent
        /\ tlb' = [tlb EXCEPT ![c][va] = mem.pte[<<running[c], va>>]]
    /\ UNCHANGED <<mem, running, parent>>

\* running[c] makes a system call.
Syscall(c, call) ==
    /\ ~mem.panic
    /\ running[c] # NULL
    /\ call \in Calls

\* The call goes back to its caller: env_run reloads cr3, which empties this
\* CPU's TLB and no other.  By then tlb_invalidate has dropped single entries
\* of the same TLB.
Return(c) == running' = running /\ tlb' = [tlb EXCEPT ![c] = EmptyTlb]

\* envid2env with checkperm: the caller or one of its children.  The
\* callers' rule: leave the memory of a child alone while it runs.
Editable(c) ==
    {e \in Envs : /\ Live(e)
                  /\ e = running[c] \/ parent[e] = running[c]
                  /\ e # running[c] /\ IsRunning(e) => "edit_running_child" \in Calls}

ValidPerm(perm) == {"U", "P"} \subseteq perm

SysPageAlloc(c) ==
    /\ Syscall(c, "page")
    /\ \E e \in Editable(c), va \in Vas, perm \in Perms :
        /\ ValidPerm(perm)
        /\ mem.free # <<>>
        /\ LET m1 == PageAlloc(mem) IN
           mem' = IF WalkFails(m1, e, va) THEN PageFree(m1, Head(mem.free))
                  ELSE PageInsert(m1, e, Head(mem.free), va, perm)
    /\ Return(c)
    /\ UNCHANGED parent

\* Mutant: write permission is given whether or not the source has it.
MapPageAnyPerm(src, srcva, dst, dstva, perm) ==
    /\ mem.pte[<<src, srcva>>] # Absent
    /\ ~WalkFails(mem, dst, dstva)
    /\ mem' = PageInsert(mem, dst, mem.pte[<<src, srcva>>].page, dstva, perm)

\* The part sys_page_map and sys_ipc_try_send share: give `dst' the page that
\* `src' has at srcva.  Neither looks at what page_lookup returned, only at
\* whether there is a page table.
MapPage(src, srcva, dst, dstva, perm) ==
    /\ mem.pde[<<src, PDX(srcva)>>] # NULL
    /\ "W" \in perm => "W" \in mem.pte[<<src, srcva>>].perm
    /\ "map_unmapped" \notin Calls => mem.pte[<<src, srcva>>] # Absent
    /\ ~WalkFails(mem, dst, dstva)
    /\ mem' = PageInsert(mem, dst, mem.pte[<<src, srcva>>].page, dstva, perm)

SysPageMap(c) ==
    /\ Syscall(c, "page")
    /\ \E src, dst \in Editable(c), srcva, dstva \in Vas, perm \in Perms :
        ValidPerm(perm) /\ MapPage(src, srcva, dst, dstva, perm)
    /\ Return(c)
    /\ UNCHANGED parent

SysPageUnmap(c) ==
    /\ Syscall(c, "page")
    /\ \E e \in Editable(c), va \in Vas : mem' = PageRemove(mem, e, va)
    /\ Return(c)
    /\ UNCHANGED parent

\* sys_ipc_try_send with a page, to any environment blocked in sys_ipc_recv.
\* Its test of perm is weaker: one of PTE_U and PTE_P is enough.
SysIpcTrySend(c) ==
    /\ Syscall(c, "ipc")
    /\ \E dst \in Envs, srcva, dstva \in Vas, perm \in Perms :
        /\ Live(dst) /\ ~IsRunning(dst)
        /\ perm \cap {"U", "P"} # {}
        /\ MapPage(running[c], srcva, dst, dstva, perm)
    /\ Return(c)
    /\ UNCHANGED parent

SysExofork(c) ==
    /\ Syscall(c, "fork")
    /\ mem.free # <<>>
    /\ "fork_low_memory" \notin Calls => Len(mem.free) > 1
    /\ \E e \in Envs :
        /\ ~Live(e)
        /\ mem' = EnvSetupVm(mem, e)
        /\ parent' = [parent EXCEPT ![e] = running[c]]
    /\ Return(c)

\* env_destroy of a child that does not run, or of the caller; a zombie
\* that traps destroys itself in the same way.
SysEnvDestroy(c) ==
    /\ Syscall(c, "destroy")
    /\ \E e \in Envs :
        /\ Live(e)
        /\ \/ e = running[c]
           \/ parent[e] = running[c] /\ ~IsRunning(e)
        /\ mem' = EnvFree(mem, e)
        /\ parent' = [x \in Envs |-> IF x = e \/ parent[x] = e THEN NULL ELSE parent[x]]
        /\ running' = [running EXCEPT ![c] = IF e = @ THEN NULL ELSE @]
    /\ tlb' = [tlb EXCEPT ![c] = EmptyTlb]

Next ==
    \E c \in CPUs :
        \/ Switch(c) \/ UserAccess(c)
        \/ SysPageAlloc(c) \/ SysPageMap(c) \/ SysPageUnmap(c) \/ SysIpcTrySend(c)
        \/ SysExofork(c) \/ SysEnvDestroy(c)

Spec == Init /\ [][Next]_vars

-----------------------------------------------------------------------------
(* Properties.                                                              *)

\* Every variable has its type; pp_ref is a uint16_t.
TypeOK ==
    /\ mem \in MemType
    /\ running \in [CPUs -> Envs \cup {NULL}]
    /\ parent \in [Envs -> Envs \cup {NULL}]
    /\ tlb \in [CPUs -> [Vas -> Ptes]]

\* pp_ref "is the count of pointers (usually in page table entries) to this
\* page" (memlayout.h), through every sequence of maps, remaps, shares and
\* destructions; the VGA frame has the extra one page_init gave it.
RefCountExact ==
    \A p \in Frames :
        mem.ref[p] = Cardinality(Mappings(mem, p)) + Cardinality(Tables(mem, p))
                     + Cardinality(Directories(mem, p)) + (IF p = Vga THEN 1 ELSE 0)

\* A page is on page_free_list exactly when nothing refers to it, and then
\* once: no page in use can be allocated again and none is lost, also after
\* an allocation that failed half way.
FreeListExact ==
    /\ \A i, j \in 1..Len(mem.free) : mem.free[i] = mem.free[j] => i = j
    /\ \A p \in Pages :
        (\E i \in 1..Len(mem.free) : mem.free[i] = p)
            <=> Mappings(mem, p) = {} /\ Tables(mem, p) = {} /\ Directories(mem, p) = {}

\* A frame that holds a page directory or a page table belongs to one
\* environment and is mapped by no page table entry below UTOP: user code
\* cannot write translations.
TablesPrivate ==
    \A p \in Pages :
        Tables(mem, p) # {} \/ Directories(mem, p) # {} =>
            /\ Mappings(mem, p) = {}
            /\ Cardinality(Tables(mem, p)) + Cardinality(Directories(mem, p)) = 1

\* The bookkeeping of kern/pmap.c as a whole: reference counts, free list and
\* page tables describe one and the same memory after every call, the ones
\* that run out of memory included.
MemoryConsistent == TypeOK /\ RefCountExact /\ FreeListExact /\ TablesPrivate

\* None of the allocator's and env_setup_vm's checks fails, and the kernel
\* dereferences no null page.
NoPanic == ~mem.panic

\* What a CPU has cached is what the page table of the environment it runs
\* says: no user access goes to a page that has been taken away
\* (pmap.c:542: "The TLB must be invalidated if you remove an entry from the
\* page table").
TlbCoherent ==
    \A c \in CPUs, va \in Vas :
        tlb[c][va] # Absent => /\ running[c] # NULL
                               /\ tlb[c][va] = mem.pte[<<running[c], va>>]

Writable(p) == \E x \in Mappings(mem, p) : "W" \in mem.pte[x].perm

\* Sharing never creates write access: a page that is mapped, but nowhere
\* for writing, does not become writable.
NoWriteFromReadOnly ==
    [][\A p \in Pages : Mappings(mem, p) # {} /\ ~Writable(p) => ~Writable(p)']_vars
=============================================================================
