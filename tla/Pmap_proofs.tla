---------------------------- MODULE Pmap_proofs -----------------------------
(***************************************************************************)
(* Proofs about module Pmap: the TLBs agree with the page tables, and the  *)
(* bookkeeping of physical memory is exact, for any number of CPUs,        *)
(* environments, pages and page table entries.                             *)
(***************************************************************************)
EXTENDS Pmap, PageTables_proofs

-----------------------------------------------------------------------------
(* What the system calls leave alone.                                       *)

\* The shape of the state, and who runs: every CPU runs a live environment
\* or none, and no two CPUs run the same one.
FrameInv ==
    /\ mem \in Shape
    /\ running \in [CPUs -> Envs \cup {NULL}]
    /\ parent \in [Envs -> Envs \cup {NULL}]
    /\ tlb \in [CPUs -> [Vas -> Ptes]]
    /\ \A c \in CPUs : running[c] # NULL => Live(running[c])
    /\ \A c, d \in CPUs : running[c] = running[d] /\ running[c] # NULL => c = d

\* A system call on CPU c: no environment loses its page directory, and what
\* changes belongs to an environment the caller may edit.
CallFrame(c) ==
    /\ mem' \in Shape
    /\ \A f \in Envs : mem.dir[f] # NULL => mem'.dir[f] # NULL
    /\ \E e \in Envs : /\ OnlyAt(mem, mem', e)
                       /\ \/ e = running[c]
                          \/ ~IsRunning(e)
                          \/ "edit_running_child" \in Calls

\* Writing one entry of e changes nothing of the others.
LEMMA PutOnlyAt ==
    ASSUME NEW m \in Shape, NEW n, NEW e \in Envs, NEW va \in Vas, NEW entry,
           n.pte = Put(m.pte, <<e, va>>, entry)
    PROVE  OnlyAt(m, n, e)
<1>1. m.pte \in [Envs \X Vas -> Ptes]
  BY DEF Shape, PteSets
<1> QED BY <1>1 DEF OnlyAt, Put

\* The permissions the programs ask for are sets of PTE bits.
LEMMA PermType ==
    ASSUME NEW perm \in Perms PROVE perm \subseteq Bits
BY PmapAssumption

\* A memory keeps its shape through sys_page_alloc.
LEMMA SysPageAllocFrame ==
    ASSUME FrameInv, NEW c \in CPUs, SysPageAlloc(c)
    PROVE  CallFrame(c)
<1>1. PICK e \in Editable(c), va \in Vas, perm \in Perms :
          /\ mem.free # <<>>
          /\ mem' = IF WalkFails(PageAlloc(mem), e, va) THEN PageFree(PageAlloc(mem), Head(mem.free))
                    ELSE PageInsert(PageAlloc(mem), e, Head(mem.free), va, perm)
  BY DEF SysPageAlloc
<1>2. /\ e \in Envs
      /\ e = running[c] \/ ~IsRunning(e) \/ "edit_running_child" \in Calls
  BY DEF Editable
<1>3. PICK p : p = Head(mem.free)
  OBVIOUS
<1>4. PICK m1 : m1 = PageAlloc(mem)
  OBVIOUS
<1>5. /\ m1 \in Shape /\ m1.free = Tail(mem.free) /\ p \in Frames
      /\ m1.ref = mem.ref /\ m1.dir = mem.dir /\ m1.pde = mem.pde /\ m1.pte = mem.pte
      /\ m1.panic = mem.panic
  BY <1>1, <1>3, <1>4, PageAllocIs DEF FrameInv
<1>6. CASE WalkFails(m1, e, va)
  <2>1. mem' = PageFree(m1, p)
    BY <1>1, <1>3, <1>4, <1>6
  <2>2. mem' \in Shape /\ (mem').dir = m1.dir /\ (mem').pte = m1.pte
    BY <1>5, <2>1, PageFreeIs
  <2> QED BY <1>2, <1>5, <2>2 DEF CallFrame, OnlyAt
<1>7. CASE ~WalkFails(m1, e, va)
  <2>1. mem' = PageInsert(m1, e, p, va, perm)
    BY <1>1, <1>3, <1>4, <1>7
  <2>4. m1 \in Shape /\ e \in Envs /\ p \in Frames /\ perm \subseteq Bits
    BY <1>2, <1>5, PermType
  <2>2. /\ mem' \in Shape /\ (mem').pte = Put(m1.pte, <<e, va>>, Entry(p, perm))
        /\ (mem').dir = m1.dir /\ Len((mem').free) >= Len(m1.free) - 1
    BY <1>7, <2>1, <2>4, PageInsertIs
  <2>3. OnlyAt(mem, mem', e)
    BY <1>2, <1>5, <2>2, PutOnlyAt DEF FrameInv
  <2> QED BY <1>2, <1>5, <2>2, <2>3 DEF CallFrame
<1> QED BY <1>6, <1>7

\* The common part of sys_page_map and sys_ipc_try_send.
LEMMA MapPageFrame ==
    ASSUME FrameInv, NEW src \in Envs, NEW srcva \in Vas, NEW dst \in Envs, NEW dstva \in Vas,
           NEW perm \in Perms, MapPage(src, srcva, dst, dstva, perm)
    PROVE  /\ mem' \in Shape /\ (mem').dir = mem.dir /\ OnlyAt(mem, mem', dst)
<1>1. PICK p : p = mem.pte[<<src, srcva>>].page
  OBVIOUS
<1>2. p \in Frames \cup {NULL}
  <2>1. mem.pte[<<src, srcva>>] \in Ptes
    BY DEF FrameInv, Shape, PteSets
  <2> QED BY <1>1, <2>1, EntryPage
<1>3. mem' = PageInsert(mem, dst, p, dstva, perm) /\ ~WalkFails(mem, dst, dstva)
  BY <1>1 DEF MapPage
<1>4. CASE p = NULL
  <2>1. mem' = Panicked(mem)
    BY <1>3, <1>4, Zenon DEF PageInsert, Panicked
  <2>2. mem' \in Shape /\ (mem').dir = mem.dir /\ (mem').pte = mem.pte
    BY <2>1, WritePanic DEF FrameInv
  <2> QED BY <2>2 DEF OnlyAt
<1>5. CASE p # NULL
  <2>1. p \in Frames /\ perm \subseteq Bits /\ mem \in Shape
    BY <1>2, <1>5, PermType DEF FrameInv
  <2>2. /\ mem' \in Shape /\ (mem').pte = Put(mem.pte, <<dst, dstva>>, Entry(p, perm))
        /\ (mem').dir = mem.dir /\ Len((mem').free) >= Len(mem.free) - 1
    BY <1>3, <2>1, PageInsertIs
  <2>3. OnlyAt(mem, mem', dst)
    BY <2>1, <2>2, PutOnlyAt
  <2> QED BY <2>2, <2>3
<1> QED BY <1>4, <1>5

\* sys_page_map changes the destination only.
LEMMA SysPageMapFrame ==
    ASSUME FrameInv, NEW c \in CPUs, SysPageMap(c)
    PROVE  CallFrame(c)
<1>1. PICK src \in Editable(c), dst \in Editable(c), srcva \in Vas, dstva \in Vas, perm \in Perms :
          MapPage(src, srcva, dst, dstva, perm)
  BY DEF SysPageMap
<1>2. /\ src \in Envs /\ dst \in Envs
      /\ dst = running[c] \/ ~IsRunning(dst) \/ "edit_running_child" \in Calls
  BY DEF Editable
<1>3. mem' \in Shape /\ (mem').dir = mem.dir /\ OnlyAt(mem, mem', dst)
  BY <1>1, <1>2, MapPageFrame
<1> QED BY <1>2, <1>3 DEF CallFrame

\* sys_ipc_try_send with a page changes the receiver only, which does not run.
LEMMA SysIpcTrySendFrame ==
    ASSUME FrameInv, NEW c \in CPUs, SysIpcTrySend(c)
    PROVE  CallFrame(c)
<1>1. PICK dst \in Envs, srcva \in Vas, dstva \in Vas, perm \in Perms :
          ~IsRunning(dst) /\ MapPage(running[c], srcva, dst, dstva, perm)
  BY DEF SysIpcTrySend
<1>2. running[c] \in Envs
  BY DEF FrameInv, SysIpcTrySend, Syscall
<1>3. mem' \in Shape /\ (mem').dir = mem.dir /\ OnlyAt(mem, mem', dst)
  BY <1>1, <1>2, MapPageFrame
<1> QED BY <1>1, <1>3 DEF CallFrame

\* sys_page_unmap changes the environment it is called for only.
LEMMA SysPageUnmapFrame ==
    ASSUME FrameInv, NEW c \in CPUs, SysPageUnmap(c)
    PROVE  CallFrame(c)
<1>1. PICK e \in Editable(c), va \in Vas : mem' = PageRemove(mem, e, va)
  BY DEF SysPageUnmap
<1>2. /\ e \in Envs /\ mem \in Shape
      /\ e = running[c] \/ ~IsRunning(e) \/ "edit_running_child" \in Calls
  BY DEF Editable, FrameInv
<1>3. /\ mem' \in Shape /\ (mem').pte = Put(mem.pte, <<e, va>>, Absent)
      /\ (mem').dir = mem.dir /\ (mem').pde = mem.pde /\ Len((mem').free) >= Len(mem.free)
  BY <1>1, <1>2, PageRemoveIs
<1>4. OnlyAt(mem, mem', e)
  BY <1>2, <1>3, PutOnlyAt
<1> QED BY <1>2, <1>3, <1>4 DEF CallFrame

\* sys_exofork changes a slot that was free.
LEMMA SysExoforkFrame ==
    ASSUME FrameInv, NEW c \in CPUs, SysExofork(c)
    PROVE  CallFrame(c) /\ parent' \in [Envs -> Envs \cup {NULL}]
<1>1. PICK e \in Envs : /\ ~Live(e) /\ mem' = EnvSetupVm(mem, e)
                        /\ parent' = [parent EXCEPT ![e] = running[c]]
  BY DEF SysExofork
<1>2. HasFree(mem) /\ mem \in Shape /\ running[c] \in Envs
  BY DEF SysExofork, Syscall, FrameInv, HasFree
<1>3. /\ mem' \in Shape /\ (mem').dir = Put(mem.dir, e, Top(mem)) /\ Top(mem) \in Frames
      /\ OnlyAt(mem, mem', e)
      /\ Len((mem').free) >= Len(mem.free) - 2
  <2>1. PICK n : n = mem'
    OBVIOUS
  <2>2. n = EnvSetupVm(mem, e)
    BY <1>1, <2>1
  <2>3. /\ n \in Shape /\ n.dir = Put(mem.dir, e, Top(mem)) /\ Top(mem) \in Frames
        /\ OnlyAt(mem, n, e)
        /\ Len(n.free) >= Len(mem.free) - 2
    BY <1>2, <2>2, EnvSetupVmIs
  <2> QED BY <2>1, <2>3
<1>4. ~IsRunning(e)
  BY <1>1, PageTablesAssumption DEF FrameInv, IsRunning
<1>5. \A f \in Envs : mem.dir[f] # NULL => (mem').dir[f] # NULL
  <2>1. mem.dir \in [Envs -> Frames \cup {NULL}] /\ Top(mem) # NULL
    BY <1>2, <1>3, PageTablesAssumption DEF Shape, DirSets
  <2> QED BY <1>3, <2>1 DEF Put
<1>7. parent' \in [Envs -> Envs \cup {NULL}]
  BY <1>1, <1>2 DEF FrameInv
<1> QED BY <1>3, <1>4, <1>5, <1>7 DEF CallFrame

\* env_destroy takes the page directory of one environment, which is the
\* caller or does not run.
LEMMA SysEnvDestroyFrame ==
    ASSUME FrameInv, NEW c \in CPUs, SysEnvDestroy(c)
    PROVE  /\ mem' \in Shape
           /\ parent' \in [Envs -> Envs \cup {NULL}]
           /\ \E e \in Envs :
                  /\ \A f \in Envs : f # e => (mem').dir[f] = mem.dir[f]
                  /\ OnlyAt(mem, mem', e)
                  /\ e = running[c] \/ ~IsRunning(e)
                  /\ running' = [running EXCEPT ![c] = IF e = @ THEN NULL ELSE @]
<1>1. PICK e \in Envs :
          /\ Live(e) /\ (e = running[c] \/ ~IsRunning(e)) /\ mem' = EnvFree(mem, e)
          /\ parent' = [x \in Envs |-> IF x = e \/ parent[x] = e THEN NULL ELSE parent[x]]
          /\ running' = [running EXCEPT ![c] = IF e = @ THEN NULL ELSE @]
  BY DEF SysEnvDestroy
<1>2. mem \in Shape /\ mem.dir[e] # NULL
  BY <1>1 DEF FrameInv, Live
<1>3. mem' \in Shape /\ (mem').dir = Put(mem.dir, e, NULL) /\ Erased(mem, mem', e)
  BY <1>1, <1>2, EnvFreeIs
<1>4. \A f \in Envs : f # e => (mem').dir[f] = mem.dir[f]
  <2>1. mem.dir \in [Envs -> Frames \cup {NULL}]
    BY <1>2 DEF Shape, DirSets
  <2> QED BY <1>3, <2>1 DEF Put
<1>5. OnlyAt(mem, mem', e)
  BY <1>3 DEF Erased, OnlyAt
<1>6. parent' \in [Envs -> Envs \cup {NULL}]
  BY <1>1 DEF FrameInv
<1> QED BY <1>1, <1>3, <1>4, <1>5, <1>6

\* An empty TLB holds absent entries.
LEMMA AbsentType == Absent \in Ptes /\ EmptyTlb \in [Vas -> Ptes]
BY DEF Ptes, EmptyTlb

\* A system call that returns to its caller.
LEMMA ReturnFrame ==
    ASSUME FrameInv, NEW c \in CPUs, CallFrame(c), Return(c),
           parent' \in [Envs -> Envs \cup {NULL}]
    PROVE  /\ FrameInv'
           /\ TlbCoherent /\ "edit_running_child" \notin Calls => TlbCoherent'
<1>1. running' = running /\ tlb' = [tlb EXCEPT ![c] = EmptyTlb]
  BY DEF Return
<1>2. tlb' \in [CPUs -> [Vas -> Ptes]]
  BY <1>1, AbsentType DEF FrameInv
<1>3. \A d \in CPUs : running'[d] # NULL => Live(running[d])'
  BY <1>1 DEF FrameInv, CallFrame, Live
<1>4. FrameInv'
  BY <1>1, <1>2, <1>3 DEF FrameInv, CallFrame
<1>5. ASSUME TlbCoherent, "edit_running_child" \notin Calls PROVE TlbCoherent'
  <2>1. PICK e \in Envs : OnlyAt(mem, mem', e) /\ (e = running[c] \/ ~IsRunning(e))
    BY <1>5 DEF CallFrame
  <2> SUFFICES ASSUME NEW d \in CPUs, NEW va \in Vas, tlb'[d][va] # Absent
               PROVE  /\ running[d] # NULL
                      /\ tlb'[d][va] = (mem').pte[<<running[d], va>>]
    BY <1>1 DEF TlbCoherent
  <2>2. d # c
    BY <1>1 DEF FrameInv, EmptyTlb
  <2>3. tlb'[d] = tlb[d]
    BY <1>1, <2>2 DEF FrameInv
  <2>4. running[d] # NULL /\ tlb[d][va] = mem.pte[<<running[d], va>>]
    BY <1>5, <2>3 DEF TlbCoherent
  <2>5. running[d] \in Envs /\ running[d] # e
    BY <2>1, <2>2, <2>4 DEF FrameInv, IsRunning
  <2>6. (mem').pte[<<running[d], va>>] = mem.pte[<<running[d], va>>]
    BY <2>1, <2>5 DEF OnlyAt
  <2> QED BY <2>3, <2>4, <2>6
<1> QED BY <1>4, <1>5

\* sched_yield.
LEMMA SwitchFrame ==
    ASSUME FrameInv, NEW c \in CPUs, Switch(c)
    PROVE  FrameInv' /\ (TlbCoherent => TlbCoherent')
<1>1. PICK e \in Envs \cup {NULL} : /\ e # NULL => Live(e) /\ ~IsRunning(e)
                                    /\ running' = [running EXCEPT ![c] = e]
  BY DEF Switch
<1>2. tlb' = [tlb EXCEPT ![c] = EmptyTlb] /\ mem' = mem /\ parent' = parent
  BY DEF Switch
<1>3. tlb' \in [CPUs -> [Vas -> Ptes]] /\ running' \in [CPUs -> Envs \cup {NULL}]
  BY <1>1, <1>2, AbsentType DEF FrameInv
<1>4. \A d \in CPUs : running'[d] # NULL => Live(running[d])'
  BY <1>1, <1>2 DEF FrameInv, Live
<1>5. \A a, b \in CPUs : running'[a] = running'[b] /\ running'[a] # NULL => a = b
  BY <1>1 DEF FrameInv, IsRunning
<1>6. FrameInv'
  BY <1>2, <1>3, <1>4, <1>5 DEF FrameInv
<1>7. ASSUME TlbCoherent PROVE TlbCoherent'
  <2> SUFFICES ASSUME NEW d \in CPUs, NEW va \in Vas, tlb'[d][va] # Absent
               PROVE  /\ running'[d] # NULL
                      /\ tlb'[d][va] = (mem').pte[<<running'[d], va>>]
    BY DEF TlbCoherent
  <2>1. d # c
    BY <1>2 DEF FrameInv, EmptyTlb
  <2>2. tlb'[d] = tlb[d] /\ running'[d] = running[d]
    BY <1>1, <1>2, <2>1 DEF FrameInv
  <2>3. running[d] # NULL /\ tlb[d][va] = mem.pte[<<running[d], va>>]
    BY <1>7, <2>2 DEF TlbCoherent
  <2> QED BY <1>2, <2>2, <2>3
<1> QED BY <1>6, <1>7

\* User code that fills the TLB.
LEMMA UserAccessFrame ==
    ASSUME FrameInv, NEW c \in CPUs, UserAccess(c)
    PROVE  FrameInv' /\ (TlbCoherent => TlbCoherent')
<1>1. PICK va \in Vas : tlb' = [tlb EXCEPT ![c][va] = mem.pte[<<running[c], va>>]]
  BY DEF UserAccess
<1>2. mem' = mem /\ running' = running /\ parent' = parent /\ running[c] # NULL
  BY DEF UserAccess
<1>3. PICK entry : entry = mem.pte[<<running[c], va>>]
  OBVIOUS
<1>4. entry \in Ptes
  <2>1. running[c] \in Envs /\ mem.pte \in [Envs \X Vas -> Ptes]
    BY <1>2 DEF FrameInv, Shape, PteSets
  <2> QED BY <1>3, <2>1
<1>5. tlb' = [tlb EXCEPT ![c] = [tlb[c] EXCEPT ![va] = entry]]
  BY <1>1, <1>3
<1>6. tlb' \in [CPUs -> [Vas -> Ptes]]
  BY <1>4, <1>5 DEF FrameInv
<1>7. FrameInv'
  BY <1>2, <1>6 DEF FrameInv, Live
<1>8. ASSUME TlbCoherent PROVE TlbCoherent'
  <2> SUFFICES ASSUME NEW d \in CPUs, NEW v \in Vas, tlb'[d][v] # Absent
               PROVE  running[d] # NULL /\ tlb'[d][v] = mem.pte[<<running[d], v>>]
    BY <1>2 DEF TlbCoherent
  <2>1. CASE d = c /\ v = va
    <3>1. tlb'[d][v] = entry
      BY <1>5, <2>1 DEF FrameInv
    <3> QED BY <1>2, <1>3, <2>1, <3>1
  <2>2. CASE ~(d = c /\ v = va)
    <3>1. tlb'[d][v] = tlb[d][v]
      BY <1>5, <2>2 DEF FrameInv
    <3> QED BY <1>8, <3>1 DEF TlbCoherent
  <2> QED BY <2>1, <2>2
<1> QED BY <1>7, <1>8

\* env_destroy, after which the CPU empties its TLB.
LEMMA DestroyFrame ==
    ASSUME FrameInv, NEW c \in CPUs, SysEnvDestroy(c)
    PROVE  FrameInv' /\ (TlbCoherent => TlbCoherent')
<1>1. mem' \in Shape /\ parent' \in [Envs -> Envs \cup {NULL}]
  BY SysEnvDestroyFrame
<1>2. PICK e \in Envs :
          /\ \A f \in Envs : f # e => (mem').dir[f] = mem.dir[f]
          /\ OnlyAt(mem, mem', e)
          /\ e = running[c] \/ ~IsRunning(e)
          /\ running' = [running EXCEPT ![c] = IF e = @ THEN NULL ELSE @]
  BY SysEnvDestroyFrame
<1>3. tlb' = [tlb EXCEPT ![c] = EmptyTlb]
  BY DEF SysEnvDestroy
<1>4. running' = [running EXCEPT ![c] = IF e = running[c] THEN NULL ELSE running[c]]
  BY <1>2 DEF FrameInv
<1>5. tlb' \in [CPUs -> [Vas -> Ptes]] /\ running' \in [CPUs -> Envs \cup {NULL}]
  BY <1>3, <1>4, AbsentType DEF FrameInv
<1>6. \A d \in CPUs : running'[d] # NULL => running'[d] = running[d] /\ running[d] # e
  BY <1>2, <1>4 DEF FrameInv, IsRunning
<1>7. \A d \in CPUs : running'[d] # NULL => Live(running[d])'
  BY <1>2, <1>6 DEF FrameInv, Live
<1>8. \A a, b \in CPUs : running'[a] = running'[b] /\ running'[a] # NULL => a = b
  BY <1>6 DEF FrameInv
<1>9. FrameInv'
  BY <1>1, <1>5, <1>7, <1>8 DEF FrameInv
<1>10. ASSUME TlbCoherent PROVE TlbCoherent'
  <2> SUFFICES ASSUME NEW d \in CPUs, NEW va \in Vas, tlb'[d][va] # Absent
               PROVE  /\ running'[d] # NULL
                      /\ tlb'[d][va] = (mem').pte[<<running'[d], va>>]
    BY DEF TlbCoherent
  <2>1. d # c
    BY <1>3 DEF FrameInv, EmptyTlb
  <2>2. tlb'[d] = tlb[d] /\ running'[d] = running[d]
    BY <1>3, <1>4, <2>1 DEF FrameInv
  <2>3. running[d] # NULL /\ tlb[d][va] = mem.pte[<<running[d], va>>]
    BY <1>10, <2>2 DEF TlbCoherent
  <2>4. running[d] \in Envs /\ running[d] # e
    BY <1>6, <2>2, <2>3 DEF FrameInv
  <2>5. (mem').pte[<<running[d], va>>] = mem.pte[<<running[d], va>>]
    BY <1>2, <2>4 DEF OnlyAt
  <2> QED BY <2>2, <2>3, <2>5
<1> QED BY <1>9, <1>10

\* The memory env_create leaves.
LEMMA BootMemory ==
    ASSUME NEW m, m = RegionAlloc(EnvSetupVm(FreshMem, BootEnv), BootEnv, BootVa)
    PROVE  Good(m, Zero, {}) /\ m.panic = FALSE
<1>1. PICK m0 : m0 = FreshMem
  OBVIOUS
<1>2. /\ Good(m0, Zero, {}) /\ m0.free = FirstFree /\ m0.ref[Vga] = 1 /\ m0.panic = FALSE
      /\ m0.dir[BootEnv] = NULL /\ BootEnv \in Envs
  BY <1>1, GoodFresh, PmapAssumption
<1>3. PICK m1 : m1 = EnvSetupVm(m0, BootEnv)
  OBVIOUS
<1>4. FirstFree \in Seq(Pages) /\ Len(FirstFree) \in Nat /\ Len(FirstFree) >= 4
  BY PageTablesAssumption, PmapAssumption
<1>5. HasFree(m0)
  BY <1>2, <1>4, EmptySeq DEF HasFree
<1>6. /\ Good(m1, Zero, {})
      /\ \/ m1.pte = m0.pte /\ m1.panic
         \/ m1.pte = Put(m0.pte, <<BootEnv, VgaUser>>, Entry(Vga, Bits))
      /\ Len(m0.free) > 1 => m1.panic = m0.panic
  <2>1. m0.ref[Vga] + 1 < RefMod
    BY <1>2, PageTablesAssumption
  <2> QED BY <1>2, <1>3, <1>5, <2>1, ZeroHeld, GoodSetupVm
<1>7. m1.panic = FALSE
  BY <1>2, <1>4, <1>6
<1>8. Len(m1.free) >= 2 /\ m1.free \in Seq(Pages)
  <2>1. m0 \in Shape
    BY <1>2 DEF Good
  <2>2. /\ m1 \in Shape /\ m1.dir = Put(m0.dir, BootEnv, Top(m0)) /\ Top(m0) \in Frames
        /\ OnlyAt(m0, m1, BootEnv)
        /\ Len(m1.free) >= Len(m0.free) - 2
    BY <1>2, <1>3, <1>5, <2>1, EnvSetupVmIs
  <2>3. m1.free \in Seq(Pages)
    BY <1>6 DEF Good, OnlyPages
  <2>4. PICK k \in Nat : k = Len(m1.free)
    BY <2>3
  <2>5. PICK k0 \in Nat : k0 = Len(m0.free) /\ k0 >= 4
    BY <1>2, <1>4
  <2>6. k >= k0 - 2
    BY <2>2, <2>4, <2>5, Zenon
  <2>7. k >= 2
    BY <2>5, <2>6
  <2> QED BY <2>3, <2>4, <2>7, Zenon
<1>9. PICK p : p = Top(m1)
  OBVIOUS
<1>10. PICK m2 : m2 = PageAlloc(m1)
  OBVIOUS
<1>11. m2.free # <<>> /\ HasFree(m1)
  <2>1. PICK fl \in Seq(Pages) : fl = m1.free /\ Len(fl) >= 2
    BY <1>8
  <2>2. fl # <<>>
    BY <2>1, EmptySeq
  <2>3. HasFree(m1)
    BY <2>1, <2>2 DEF HasFree
  <2>4. m2.free = Tail(fl)
    <3>1. m1 \in Shape /\ m1.free # <<>>
      BY <1>6, <2>3 DEF Good, HasFree
    <3> QED BY <1>10, <2>1, <3>1, PageAllocIs
  <2>5. PICK tl \in Seq(Pages) : tl = Tail(fl) /\ Len(tl) = Len(fl) - 1
    BY <2>2, HeadTailProperties
  <2>7. Len(tl) # 0
    BY <2>1, <2>5
  <2>6. Tail(fl) # <<>>
    <3>1. tl # <<>>
      BY <2>7
    <3> QED BY <2>5, <3>1
  <2> QED BY <2>3, <2>4, <2>6
<1>12. ~WalkFails(m2, BootEnv, BootVa)
  BY <1>11 DEF WalkFails
<1>13. m = PageInsert(m2, BootEnv, p, BootVa, {"U", "W"})
  BY <1>1, <1>3, <1>9, <1>10 DEF RegionAlloc, Top
<1>14. PICK perm : perm = {"U", "W"} /\ perm \subseteq Bits
  BY DEF Bits
<1>15. m = PageInsert(m2, BootEnv, p, BootVa, perm) /\ BootVa \in Vas
  BY <1>13, <1>14, PmapAssumption
<1>16. /\ Good(m, Zero, {})
       /\ m.pte = Put(m1.pte, <<BootEnv, BootVa>>, Entry(p, perm))
       /\ m.dir = m1.dir /\ m.panic = m1.panic
       /\ p \in Pages /\ Mappings(m1, p) = {}
  BY <1>2, <1>6, <1>9, <1>10, <1>11, <1>12, <1>14, <1>15, ZeroHeld, GoodAllocInsert
<1> QED BY <1>7, <1>16

\* The machine starts in order.
LEMMA InitFrame ==
    ASSUME Init PROVE FrameInv /\ TlbCoherent /\ Good(mem, Zero, {}) /\ mem.panic = FALSE
<1>1. Good(mem, Zero, {}) /\ mem.panic = FALSE
  BY BootMemory DEF Init
<1>2. mem \in Shape
  BY <1>1 DEF Good
<1>3. FrameInv
  BY <1>2, AbsentType DEF Init, FrameInv
<1>4. TlbCoherent
  BY DEF Init, TlbCoherent, EmptyTlb
<1> QED BY <1>1, <1>3, <1>4

\* Every step keeps who runs where, and the TLBs coherent when nobody edits
\* the memory of a running child.
LEMMA NextFrame ==
    ASSUME FrameInv, [Next]_vars
    PROVE  /\ FrameInv'
           /\ TlbCoherent /\ "edit_running_child" \notin Calls => TlbCoherent'
<1>1. CASE UNCHANGED vars
  BY <1>1 DEF vars, FrameInv, TlbCoherent, Live
<1>2. ASSUME NEW c \in CPUs, Switch(c) \/ UserAccess(c) \/ SysEnvDestroy(c)
      PROVE  /\ FrameInv'
             /\ TlbCoherent /\ "edit_running_child" \notin Calls => TlbCoherent'
  BY <1>2, SwitchFrame, UserAccessFrame, DestroyFrame
<1>3. ASSUME NEW c \in CPUs,
             SysPageAlloc(c) \/ SysPageMap(c) \/ SysPageUnmap(c) \/ SysIpcTrySend(c) \/ SysExofork(c)
      PROVE  /\ FrameInv'
             /\ TlbCoherent /\ "edit_running_child" \notin Calls => TlbCoherent'
  <2>1. CallFrame(c)
    BY <1>3, SysPageAllocFrame, SysPageMapFrame, SysPageUnmapFrame, SysIpcTrySendFrame,
       SysExoforkFrame
  <2>2. Return(c)
    BY <1>3 DEF SysPageAlloc, SysPageMap, SysPageUnmap, SysIpcTrySend, SysExofork
  <2>3. parent' \in [Envs -> Envs \cup {NULL}]
    <3>1. CASE SysExofork(c)
      BY <3>1, SysExoforkFrame
    <3>2. CASE ~SysExofork(c)
      <4>1. parent' = parent
        BY <1>3, <3>2 DEF SysPageAlloc, SysPageMap, SysPageUnmap, SysIpcTrySend
      <4> QED BY <4>1 DEF FrameInv
    <3> QED BY <3>1, <3>2
  <2> QED BY <2>1, <2>2, <2>3, ReturnFrame
<1> QED BY <1>1, <1>2, <1>3 DEF Next

\* No CPU ever uses a translation that the page table of the environment it
\* runs does not hold, however the system calls on the other CPUs interleave,
\* as long as nobody edits the memory of a child while it runs.
THEOREM TlbStaysCoherent ==
    ASSUME "edit_running_child" \notin Calls
    PROVE  Spec => []TlbCoherent
<1>1. Init => FrameInv /\ TlbCoherent
  BY InitFrame
<1>2. FrameInv /\ TlbCoherent /\ [Next]_vars => (FrameInv /\ TlbCoherent)'
  BY NextFrame
<1> QED BY <1>1, <1>2, PTL DEF Spec

-----------------------------------------------------------------------------
(* The bookkeeping of physical memory.                                      *)

\* No frame is referred to so often that pp_ref, a uint16_t, comes near its
\* limit.  page_insert does not check it: this is a property of the programs
\* that run, and everything below it holds only while they respect it.
FewReferences == \A p \in Frames : mem.ref[p] + 1 < RefMod

MemInv == Good(mem, Zero, {})

WritableIn(m, p) == \E x \in Mappings(m, p) : "W" \in m.pte[x].perm

\* From m to n no page that was mapped only for reading becomes writable.
NoGain(m, n) ==
    \A p \in Pages : WritableIn(n, p) => WritableIn(m, p) \/ Mappings(m, p) = {}

\* What a step promises of memory: it stays consistent, the kernel does not
\* panic for programs that keep the callers' rules, nothing read-only becomes
\* writable.
MemStep ==
    /\ MemInv'
    /\ "map_unmapped" \notin Calls /\ "fork_low_memory" \notin Calls =>
           (mem').panic = mem.panic
    /\ NoGain(mem, mem')

\* One new entry gives write access only to a page that nobody had, or that
\* somebody could write.
LEMMA PutNoGain ==
    ASSUME NEW m \in Shape, NEW n, NEW e \in Envs, NEW va \in Vas, NEW entry \in Ptes,
           n.pte = Put(m.pte, <<e, va>>, entry),
           "W" \in entry.perm /\ entry.page \in Pages =>
               WritableIn(m, entry.page) \/ Mappings(m, entry.page) = {}
    PROVE  NoGain(m, n)
<1>1. m.pte \in [Envs \X Vas -> Ptes]
  BY DEF Shape, PteSets
<1> SUFFICES ASSUME NEW p \in Pages, NEW x \in Envs \X Vas, n.pte[x].page = p,
                    "W" \in n.pte[x].perm
             PROVE  WritableIn(m, p) \/ Mappings(m, p) = {}
  BY DEF NoGain, WritableIn, Mappings
<1>2. CASE x = <<e, va>>
  <2>1. n.pte[x] = entry
    BY <1>1, <1>2 DEF Put
  <2> QED BY <2>1
<1>3. CASE x # <<e, va>>
  <2>1. n.pte[x] = m.pte[x]
    BY <1>1, <1>3 DEF Put
  <2> QED BY <2>1 DEF WritableIn, Mappings
<1> QED BY <1>2, <1>3

\* Nothing becomes writable where no entry changes.
LEMMA SameNoGain ==
    ASSUME NEW m, NEW n, n.pte = m.pte PROVE NoGain(m, n)
BY DEF NoGain, WritableIn, Mappings

\* An absent entry gives no access.
LEMMA AbsentPerm == Absent \in Ptes /\ "W" \notin Absent.perm
BY DEF Ptes, Absent

\* Between calls no frame counts more than the places that hold it.
\* sys_page_alloc: the new page is taken off the list and mapped, or put
\* back when there is no memory for the page table.
LEMMA SysPageAllocMem ==
    ASSUME FrameInv, MemInv, NEW c \in CPUs, SysPageAlloc(c)
    PROVE  MemStep
<1>1. PICK e \in Editable(c), va \in Vas, perm \in Perms :
          /\ mem.free # <<>>
          /\ mem' = IF WalkFails(PageAlloc(mem), e, va) THEN PageFree(PageAlloc(mem), Head(mem.free))
                    ELSE PageInsert(PageAlloc(mem), e, Head(mem.free), va, perm)
  BY DEF SysPageAlloc
<1>2. e \in Envs /\ HasFree(mem) /\ Good(mem, Zero, {}) /\ perm \subseteq Bits /\ mem \in Shape
  BY <1>1, PermType DEF Editable, HasFree, MemInv, FrameInv
<1>3. PICK p : p = Top(mem)
  OBVIOUS
<1>4. PICK m1 : m1 = PageAlloc(mem)
  OBVIOUS
<1>5. PICK n : n = mem'
  OBVIOUS
<1>6. CASE WalkFails(m1, e, va)
  <2>1. n = PageFree(m1, p)
    BY <1>1, <1>3, <1>4, <1>5, <1>6 DEF Top
  <2>2. PICK one : one = With({}, p)
    OBVIOUS
  <2>3. /\ Good(m1, Zero, With({}, p))
        /\ p \in Pages \ {} /\ Count(mem, Zero, p) = 0 /\ Listed(mem.free, p)
        /\ m1.ref = mem.ref /\ m1.dir = mem.dir /\ m1.pde = mem.pde /\ m1.pte = mem.pte
        /\ m1.panic = mem.panic
    BY <1>2, <1>3, <1>4, GoodAlloc
  <2>4. Good(m1, Zero, one) /\ p \in one
    BY <2>2, <2>3 DEF With
  <2>5. /\ Good(n, Zero, Without(one, p))
        /\ n.pte = m1.pte /\ n.dir = m1.dir /\ n.panic = m1.panic
    BY <2>1, <2>4, ZeroHeld, GoodFree
  <2>6. Good(n, Zero, {}) /\ n.pte = mem.pte /\ n.panic = mem.panic
    BY <2>2, <2>3, <2>5, NoLoose
  <2> QED BY <1>5, <2>6, SameNoGain DEF MemStep, MemInv
<1>7. CASE ~WalkFails(m1, e, va)
  <2>1. n = PageInsert(m1, e, p, va, perm)
    BY <1>1, <1>3, <1>4, <1>5, <1>7 DEF Top
  <2>2. /\ Good(n, Zero, {})
        /\ n.pte = Put(mem.pte, <<e, va>>, Entry(p, perm))
        /\ n.dir = mem.dir /\ n.panic = mem.panic
        /\ p \in Pages /\ Mappings(mem, p) = {}
    BY <1>2, <1>3, <1>4, <1>7, <2>1, ZeroHeld, GoodAllocInsert
  <2>3. PICK entry \in Ptes : entry = Entry(p, perm) /\ entry.page = p
    BY <1>2, <2>2, EntryType DEF Frames
  <2>4. NoGain(mem, n)
    BY <1>2, <2>2, <2>3, PutNoGain
  <2> QED BY <1>5, <2>2, <2>4 DEF MemStep, MemInv
<1> QED BY <1>6, <1>7

\* The common part of sys_page_map and sys_ipc_try_send: both refuse to give
\* write access that the source does not have.
LEMMA MapPageMem ==
    ASSUME FrameInv, MemInv, FewReferences,
           NEW src \in Envs, NEW srcva \in Vas, NEW dst \in Envs, NEW dstva \in Vas,
           NEW perm \in Perms, MapPage(src, srcva, dst, dstva, perm)
    PROVE  MemStep
<1>1. PICK x \in Envs \X Vas : x = <<src, srcva>>
  OBVIOUS
<1>2. PICK p : p = mem.pte[x].page
  OBVIOUS
<1>3. PICK n : n = mem'
  OBVIOUS
<1>4. /\ n = PageInsert(mem, dst, p, dstva, perm) /\ ~WalkFails(mem, dst, dstva)
      /\ "W" \in perm => "W" \in mem.pte[x].perm
      /\ "map_unmapped" \notin Calls => mem.pte[x] # Absent
  BY <1>1, <1>2, <1>3 DEF MapPage
<1>5. mem \in Shape /\ Good(mem, Zero, {}) /\ perm \subseteq Bits
  BY PermType DEF FrameInv, MemInv
<1>6. p \in Frames \cup {NULL} /\ (p = NULL <=> mem.pte[x] = Absent)
  <2>1. mem.pte[x] \in Ptes
    BY <1>5 DEF Shape, PteSets
  <2> QED BY <1>2, <2>1, EntryPage
<1>7. CASE p = NULL
  <2>1. n = Panicked(mem)
    BY <1>4, <1>7, Zenon DEF PageInsert, Panicked
  <2>2. Good(n, Zero, {}) /\ n.pte = mem.pte /\ n.dir = mem.dir
    BY <1>5, <2>1, GoodPanicked
  <2> QED BY <1>3, <1>4, <1>6, <1>7, <2>2, SameNoGain DEF MemStep, MemInv
<1>8. CASE p # NULL
  <2>1. p \in Frames /\ mem.ref[p] + 1 < RefMod
    BY <1>6, <1>8 DEF FewReferences
  <2>2. Mappable(mem, p)
    BY <1>2, <1>5, <1>8, <2>1, ZeroHeld, MappedMappable
  <2>3. /\ Good(n, Zero, Without({}, p))
        /\ n.pte = Put(mem.pte, <<dst, dstva>>, Entry(p, perm))
        /\ n.dir = mem.dir /\ n.panic = mem.panic
    BY <1>4, <1>5, <2>2, ZeroHeld, GoodInsert
  <2>4. Good(n, Zero, {})
    BY <2>3, NoLoose
  <2>5. PICK entry \in Ptes : /\ entry = Entry(p, perm) /\ entry.page = p
                              /\ entry.perm = perm \cup {"P"}
    BY <1>5, <2>1, EntryType
  <2>6. "W" \in entry.perm => WritableIn(mem, p)
    BY <1>2, <1>4, <2>5 DEF WritableIn, Mappings
  <2>7. NoGain(mem, n)
    BY <1>5, <2>3, <2>5, <2>6, PutNoGain
  <2> QED BY <1>3, <2>3, <2>4, <2>7 DEF MemStep, MemInv
<1> QED BY <1>7, <1>8

\* sys_page_map keeps the memory in order.
LEMMA SysPageMapMem ==
    ASSUME FrameInv, MemInv, FewReferences, NEW c \in CPUs, SysPageMap(c)
    PROVE  MemStep
<1>1. PICK src \in Editable(c), dst \in Editable(c), srcva \in Vas, dstva \in Vas, perm \in Perms :
          MapPage(src, srcva, dst, dstva, perm)
  BY DEF SysPageMap
<1>2. src \in Envs /\ dst \in Envs
  BY DEF Editable
<1> QED BY <1>1, <1>2, MapPageMem

\* sys_ipc_try_send with a page keeps the memory in order.
LEMMA SysIpcTrySendMem ==
    ASSUME FrameInv, MemInv, FewReferences, NEW c \in CPUs, SysIpcTrySend(c)
    PROVE  MemStep
<1>1. PICK dst \in Envs, srcva \in Vas, dstva \in Vas, perm \in Perms :
          MapPage(running[c], srcva, dst, dstva, perm)
  BY DEF SysIpcTrySend
<1>2. running[c] \in Envs
  BY DEF FrameInv, SysIpcTrySend, Syscall
<1> QED BY <1>1, <1>2, MapPageMem

\* sys_page_unmap keeps the memory in order.
LEMMA SysPageUnmapMem ==
    ASSUME FrameInv, MemInv, NEW c \in CPUs, SysPageUnmap(c)
    PROVE  MemStep
<1>1. PICK e \in Editable(c), va \in Vas : mem' = PageRemove(mem, e, va)
  BY DEF SysPageUnmap
<1>2. PICK n : n = mem'
  OBVIOUS
<1>3. /\ e \in Envs /\ mem \in Shape /\ Good(mem, Zero, {}) /\ n = PageRemove(mem, e, va)
      /\ NoDebt(Zero)
  BY <1>1, <1>2, ZeroHeld DEF Editable, FrameInv, MemInv
<1>4. /\ Good(n, Zero, {})
      /\ n.pte = Put(mem.pte, <<e, va>>, Absent)
      /\ n.dir = mem.dir /\ n.pde = mem.pde /\ n.panic = mem.panic
  BY <1>3, GoodRemove
<1>5. NoGain(mem, n)
  BY <1>3, <1>4, PutNoGain, AbsentPerm
<1> QED BY <1>2, <1>4, <1>5 DEF MemStep, MemInv

\* sys_exofork: the page directory of the child, and the VGA page, which is
\* not one of the allocator's.
LEMMA SysExoforkMem ==
    ASSUME FrameInv, MemInv, FewReferences, NEW c \in CPUs, SysExofork(c)
    PROVE  MemStep
<1>1. PICK e \in Envs : ~Live(e) /\ mem' = EnvSetupVm(mem, e)
  BY DEF SysExofork
<1>2. PICK n : n = mem'
  OBVIOUS
<1>3. /\ HasFree(mem) /\ mem \in Shape /\ Good(mem, Zero, {}) /\ mem.dir[e] = NULL
      /\ mem.ref[Vga] + 1 < RefMod /\ n = EnvSetupVm(mem, e)
  BY <1>1, <1>2 DEF SysExofork, FrameInv, HasFree, MemInv, Live, FewReferences, Frames
<1>4. /\ Good(n, Zero, {})
      /\ n.pte = mem.pte \/ n.pte = Put(mem.pte, <<e, VgaUser>>, Entry(Vga, Bits))
      /\ Len(mem.free) > 1 => n.panic = mem.panic
  BY <1>3, ZeroHeld, GoodSetupVm
<1>5. "fork_low_memory" \notin Calls => Len(mem.free) > 1
  BY DEF SysExofork
<1>6. PICK entry \in Ptes : entry = Entry(Vga, Bits) /\ entry.page = Vga
  BY EntryType DEF Frames
<1>7. NoGain(mem, n)
  <2>1. CASE n.pte = mem.pte
    BY <2>1, SameNoGain
  <2>2. CASE n.pte = Put(mem.pte, <<e, VgaUser>>, Entry(Vga, Bits))
    <3>1. VgaUser \in Vas /\ Vga \notin Pages
      BY PageTablesAssumption
    <3> QED BY <1>3, <1>6, <2>2, <3>1, PutNoGain
  <2> QED BY <1>4, <2>1, <2>2
<1> QED BY <1>2, <1>4, <1>5, <1>7 DEF MemStep, MemInv

\* Erasing entries makes nothing writable.
LEMMA ErasedNoGain ==
    ASSUME NEW m, NEW n, NEW e \in Envs, Erased(m, n, e)
    PROVE  NoGain(m, n)
<1> SUFFICES ASSUME NEW p \in Pages, NEW x \in Envs \X Vas, n.pte[x].page = p,
                    "W" \in n.pte[x].perm
             PROVE  WritableIn(m, p)
  BY DEF NoGain, WritableIn, Mappings
<1>1. PICK f \in Envs, va \in Vas : x = <<f, va>>
  OBVIOUS
<1>2. n.pte[x] # Absent
  BY AbsentPerm
<1>3. n.pte[x] = m.pte[x]
  BY <1>1, <1>2 DEF Erased
<1> QED BY <1>3 DEF WritableIn, Mappings

\* env_free gives back every page, table and directory of its environment.
LEMMA SysEnvDestroyMem ==
    ASSUME FrameInv, MemInv, NEW c \in CPUs, SysEnvDestroy(c)
    PROVE  MemStep
<1>1. PICK e \in Envs : Live(e) /\ mem' = EnvFree(mem, e)
  BY DEF SysEnvDestroy
<1>2. PICK n : n = mem'
  OBVIOUS
<1>3. mem \in Shape /\ mem.dir[e] # NULL /\ Good(mem, Zero, {}) /\ n = EnvFree(mem, e)
  BY <1>1, <1>2 DEF FrameInv, Live, MemInv
<1>4. Good(n, Zero, {}) /\ n.panic = mem.panic
  BY <1>3, GoodEnvFree
<1>5. n \in Shape /\ n.dir = Put(mem.dir, e, NULL) /\ Erased(mem, n, e)
  BY <1>3, EnvFreeIs
<1>6. NoGain(mem, n)
  BY <1>5, ErasedNoGain
<1> QED BY <1>2, <1>4, <1>6 DEF MemStep, MemInv

\* Every step keeps the memory in order.
LEMMA NextMem ==
    ASSUME FrameInv, MemInv, FewReferences, [Next]_vars
    PROVE  MemStep
<1>1. CASE mem' = mem
  BY <1>1, SameNoGain DEF MemStep, MemInv
<1>2. CASE mem' # mem
  <2>1. PICK c \in CPUs : SysPageAlloc(c) \/ SysPageMap(c) \/ SysPageUnmap(c)
                             \/ SysIpcTrySend(c) \/ SysExofork(c) \/ SysEnvDestroy(c)
    BY <1>2 DEF Next, vars, Switch, UserAccess
  <2> QED BY <2>1, SysPageAllocMem, SysPageMapMem, SysPageUnmapMem, SysIpcTrySendMem,
             SysExoforkMem, SysEnvDestroyMem
<1> QED BY <1>1, <1>2

\* What Good says of a memory that no handler is in the middle of changing.
LEMMA GoodConsistent ==
    ASSUME FrameInv, MemInv
    PROVE  MemoryConsistent
<1>1. /\ mem \in Shape /\ OnlyPages(mem) /\ CountsExact(mem, Zero)
      /\ FreeExact(mem, Zero, {}) /\ Separate(mem)
  BY DEF MemInv, Good
<1>2. TypeOK
  <2>1. mem \in MemType
    BY <1>1 DEF Shape, OnlyPages, MemType, RefCounts, PteSets
  <2> QED BY <2>1 DEF TypeOK, FrameInv
<1>3. \A p \in Frames : Count(mem, Zero, p) = Refs(mem, p) /\ Refs(mem, p) \in Nat
  BY PlacesFinite DEF Count, Zero
<1>4. RefCountExact
  BY <1>1, <1>3 DEF RefCountExact, CountsExact, One, Refs
<1>5. FreeListExact
  <2>1. \A i, j \in 1..Len(mem.free) : mem.free[i] = mem.free[j] => i = j
    BY <1>1 DEF FreeExact, NoRepeat
  <2>2. ASSUME NEW p \in Pages
        PROVE  (\E i \in 1..Len(mem.free) : mem.free[i] = p)
                 <=> Mappings(mem, p) = {} /\ Tables(mem, p) = {} /\ Directories(mem, p) = {}
    <3>1. Listed(mem.free, p) <=> Refs(mem, p) = 0
      BY <1>1, <1>3 DEF FreeExact, Frames
    <3>2. Refs(mem, p) = 0 <=> Mappings(mem, p) = {} /\ Tables(mem, p) = {} /\ Directories(mem, p) = {}
      BY PlacesFinite DEF Refs
    <3> QED BY <3>1, <3>2 DEF Listed
  <2> QED BY <2>1, <2>2 DEF FreeListExact
<1>6. TablesPrivate
  BY <1>1 DEF TablesPrivate, Separate
<1> QED BY <1>2, <1>4, <1>5, <1>6 DEF MemoryConsistent

\* The bookkeeping of kern/pmap.c is exact after every system call, the ones
\* that run out of memory half way included: pp_ref counts the places that
\* refer to a frame, the free list holds exactly the pages nobody refers to,
\* and page tables and page directories are mapped by no user.
THEOREM MemoryStaysConsistent == Spec /\ []FewReferences => []MemoryConsistent
<1>1. Init => FrameInv /\ MemInv
  BY InitFrame DEF MemInv
<1>2. FrameInv /\ MemInv /\ FewReferences /\ [Next]_vars => (FrameInv /\ MemInv)'
  BY NextFrame, NextMem DEF MemStep
<1>3. FrameInv /\ MemInv => MemoryConsistent
  BY GoodConsistent
<1> QED BY <1>1, <1>2, <1>3, PTL DEF Spec

\* Where there are fewer places than pp_ref can count, no program can break
\* FewReferences.
SmallSpaces ==
    Cardinality(Envs \X Vas) + Cardinality(Envs \X Pdxs) + Cardinality(Envs) + 2 < RefMod

\* A frame has no more references than there are places.
LEMMA SmallSpacesSuffice ==
    ASSUME SmallSpaces, MemInv PROVE FewReferences
<1> SUFFICES ASSUME NEW p \in Frames PROVE mem.ref[p] + 1 < RefMod
  BY DEF FewReferences
<1>1. mem.ref[p] = Refs(mem, p) + One(p, Vga) /\ mem.ref[p] \in Nat
  BY PlacesFinite DEF MemInv, Good, CountsExact, Count, Zero, Shape, RefCounts
<1>2. IsFiniteSet(Vas) /\ IsFiniteSet(Pdxs)
  <2>1. NPde \in Int /\ NPde * NPte - 1 \in Int
    BY PageTablesAssumption
  <2> QED BY <2>1, FS_Interval DEF Vas, Pdxs
<1>3. IsFiniteSet(Envs \X Vas) /\ IsFiniteSet(Envs \X Pdxs) /\ IsFiniteSet(Envs)
  BY <1>2, FS_Product, PageTablesAssumption
<1>4. /\ Mappings(mem, p) \in SUBSET (Envs \X Vas) /\ Tables(mem, p) \in SUBSET (Envs \X Pdxs)
      /\ Directories(mem, p) \in SUBSET Envs
  BY DEF Mappings, Tables, Directories
<1>5. /\ Cardinality(Mappings(mem, p)) <= Cardinality(Envs \X Vas)
      /\ Cardinality(Tables(mem, p)) <= Cardinality(Envs \X Pdxs)
      /\ Cardinality(Directories(mem, p)) <= Cardinality(Envs)
  BY <1>3, <1>4, FS_Subset
<1>6. /\ Cardinality(Envs \X Vas) \in Nat /\ Cardinality(Envs \X Pdxs) \in Nat
      /\ Cardinality(Envs) \in Nat
  BY <1>3, FS_CardinalityType
<1>7. One(p, Vga) \in 0..1
  BY DEF One
<1> QED BY SMTT(30), <1>1, <1>5, <1>6, <1>7, PlacesFinite, PageTablesAssumption DEF Refs, SmallSpaces

\* With fewer places than pp_ref can count, which holds in every instance TLC
\* explores, the bookkeeping is exact whatever the programs do.
THEOREM SmallMemoryConsistent ==
    ASSUME SmallSpaces
    PROVE  Spec => []MemoryConsistent
<1>1. Init => FrameInv /\ MemInv
  BY InitFrame DEF MemInv
<1>2. FrameInv /\ MemInv /\ [Next]_vars => (FrameInv /\ MemInv)'
  BY NextFrame, NextMem, SmallSpacesSuffice DEF MemStep
<1>3. FrameInv /\ MemInv => MemoryConsistent
  BY GoodConsistent
<1> QED BY <1>1, <1>2, <1>3, PTL DEF Spec

\* No check of page_free or env_setup_vm fails and no null page is
\* dereferenced, for programs that map only pages that are there and fork
\* only while there is memory for it.
THEOREM KernelDoesNotPanic ==
    ASSUME "map_unmapped" \notin Calls, "fork_low_memory" \notin Calls
    PROVE  Spec /\ []FewReferences => []NoPanic
<1>1. Init => FrameInv /\ MemInv /\ NoPanic
  BY InitFrame DEF MemInv, NoPanic
<1>2. FrameInv /\ MemInv /\ NoPanic /\ FewReferences /\ [Next]_vars
          => (FrameInv /\ MemInv /\ NoPanic)'
  BY NextFrame, NextMem DEF MemStep, NoPanic
<1> QED BY <1>1, <1>2, PTL DEF Spec

\* sys_page_map and sys_ipc_try_send never make a page writable that was
\* mapped and nowhere for writing, whoever shares it with whom.
THEOREM SharingKeepsReadOnly == Spec /\ []FewReferences => NoWriteFromReadOnly
<1>1. Init => FrameInv /\ MemInv
  BY InitFrame DEF MemInv
<1>2. FrameInv /\ MemInv /\ FewReferences /\ [Next]_vars => (FrameInv /\ MemInv)'
  BY NextFrame, NextMem DEF MemStep
<1>3. FrameInv /\ MemInv /\ FewReferences /\ [Next]_vars
        => [\A p \in Pages : Mappings(mem, p) # {} /\ ~Writable(p) => ~Writable(p)']_vars
  <2>1. \A p \in Pages : (Writable(p) <=> WritableIn(mem, p))
                         /\ (Writable(p)' <=> WritableIn(mem', p))
    BY DEF Writable, WritableIn
  <2> QED BY <2>1, NextMem DEF MemStep, NoGain
<1> QED BY <1>1, <1>2, <1>3, PTL DEF Spec, NoWriteFromReadOnly
=============================================================================
