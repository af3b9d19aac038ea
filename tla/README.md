# A verification of the JOS kernel in `sisotp`

The repository is an implementation of the JOS teaching kernel (labs 1 to 4 of
an operating systems course): a 32-bit x86 kernel with environments
(processes), preemptive round-robin scheduling on several CPUs under one big
lock, a system call interface for memory, forking and message passing, and a
small user library. This directory holds TLA+ models of it, the TLC
configurations that check them, and proofs checked by TLAPS.

Paths below are relative to `src/jos/`. Files whose names end in `~` are editor
backups and are not part of the system.

## 1. Inventory

| Component | State | Operations | Talks to |
|---|---|---|---|
| Environments (`kern/env.c`) | `envs[]`: status, id, parent, run count, receive flag, page directory; `env_free_list`; `curenv` of each CPU | `env_init`, `envid2env`, `env_alloc`, `env_create`, `load_icode`, `env_free`, `env_destroy`, `env_run`, `env_pop_tf` | page tables, scheduler, lock |
| Scheduler (`kern/sched.c`) | `curenv`, `cpu_status`, `cr3` | `sched_yield`, `sched_halt` | `env_run`, lock, monitor |
| Traps (`kern/trap.c`, `kern/trapentry.S`) | the gates, `cpu_status`, `curenv`, the saved frame | `trap_init`, entry stubs, `trap`, `trap_dispatch`, `page_fault_handler` | lock, system calls, scheduler |
| System calls (`kern/syscall.c`) | none of its own | environment, page and IPC calls | environments, page tables |
| Spin lock (`kern/spinlock.c`) | `locked`, `cpu` | `spin_lock`, `spin_unlock`, `holding` | everything in the kernel |
| Memory (`kern/pmap.c`) | `pages[]` with reference counts, `page_free_list`, page directories and tables, each CPU's TLB, `nextfree`, the static of `mmio_map_region` | `mem_init` with its self-tests, `page_alloc`, `page_free`, `page_decref`, `pgdir_walk`, `page_insert`, `page_lookup`, `page_remove`, `user_mem_check`, `mmio_map_region` | environments, system calls, boot |
| Boot (`kern/init.c`, `mpentry.S`, `lapic.c`, `mpconfig.c`, `picirq.c`) | `cpus[]`, `mpentry_kstack`, `lapic`, the 8259A mask | `i386_init`, `mp_init`, `lapic_init`, `pic_init`, `boot_aps`, `lapic_startap`, `mp_main` | environments, lock |
| IPC library (`lib/ipc.c`) | none; the message fields of `struct Env` | `ipc_send` (retries), `ipc_recv`, `ipc_find_env` | IPC calls |
| Fork library (`lib/fork.c`, `user/dumbfork.c`) | its loop variable, on the stack it copies | `fork_v0`, `dup_or_share`, `dumbfork` | page calls |
| Console (`kern/console.c`, `lib/readline.c`) | circular input buffer, keyboard shift state, cursor, the line being edited | `cons_intr`, `cons_getc`, `kbd_proc_data`, `cga_putc`, `readline` | monitor, `sys_cgetc`, `sys_cputs` |
| Debug info, monitor (`kern/kdebug.c`, `kern/monitor.c`) | none | `stab_binsearch`, `debuginfo_eip`, `runcmd`, commands | panic, console |
| C library (`lib/string.c`, `lib/printfmt.c`, `lib/printf.c`) | none; `cprintf`'s buffer | string and memory routines, `strtol`, `vprintfmt`, `vsnprintf`, `vcprintf` | all |
| User programs (`user/*.c`) | their own | `primes`, `pingpong`, `contador`, ... | libraries |
| Boot loader (`boot/`) | memory | `bootmain`, `readseg` | disk |
| User runtime, RTC | none | program start and exit; CMOS reads | |

What is hard in it:

* **Concurrency.** CPUs run user code in parallel and enter the kernel at any
  time; the lock is taken in `trap`, released in `env_run` and `sched_halt`, and
  a halted CPU is recognised by `cpu_status` alone. The debugging checks of the
  lock read it without holding it. The TLBs of other CPUs are not covered by
  the lock at all, and neither is anything a CPU does before it first takes it.
* **Ownership across CPUs.** Whether an environment may be freed is decided from
  `env_status`, on a CPU other than the one that runs it.
* **Reuse.** Slots, ids and pages are recycled; flags and translations of the
  previous owner must not survive.
* **User-mode protocols over system calls.** `ipc_recv` reads a message in three
  loads, `ipc_send` retries, `fork` copies an address space that it is using.
* **Partial failure.** Memory may run out between two allocations of one call.
* **Fairness.** Neither the round robin nor the lock is fair in every case.
* **Edges.** Addresses wrap, buffers have no full test or a terminator, copies
  overlap, sizes are rounded, a page directory maps only the first 4 MB.

What makes each part correct: one CPU per environment, status and `curenv` that
agree, no loaded page directory that has been freed, an exact free list, wake-up
only of environments that wait, and eventual service (environments and
scheduler); mutual exclusion and exact misuse checks (lock); exact reference
counts, an exact page free list, private page tables, coherent TLBs and no write
access out of nothing (memory); a free list without pages in use and a mapping
exactly as in `memlayout.h` after `mem_init`; private stacks and device windows
while CPUs come up, the boot CPU in the scheduler in the end and every other one
at its lock (boot); a
rendezvous (IPC); a copy (fork); a queue, a faithful screen and no stuck key
(console); equality with a definition of the result (everything sequential).

## 2. Modules

| Module | Models | Source |
|---|---|---|
| `EnvSched` | environments, scheduler, trap path and the calls that change an environment, on any number of CPUs | `env.c`, `sched.c`, `trap.c`, `syscall.c`, `init.c` |
| `EnvSched_proofs` | theorems about it | |
| `Mutex` | abstract lock: what `EnvSched` assumes of `kernel_lock` | |
| `Spinlock` | `spinlock.c`, one memory access per step; implements `Mutex` | `spinlock.c`, `spinlock.h` |
| `Spinlock_proofs` | theorems about it, the refinement included | |
| `PageTables` | pages and page tables as operators on a memory record | `pmap.c`, `env.c` |
| `PageTables_proofs` | what each function of `PageTables` does to a memory and what it keeps; induction for its loops | |
| `Pmap` | the page calls, address space switches and TLBs, over `PageTables` | `syscall.c`, `env.c` |
| `Pmap_proofs` | theorems about it | |
| `Fork` | `fork_v0` and `dumbfork` with page contents, over `PageTables` | `lib/fork.c`, `user/dumbfork.c` |
| `Fork_proofs` | theorems about it, over the lemmas of `PageTables_proofs` | |
| `Rendezvous` | abstract message exchange: send and receive meet in one step | |
| `Ipc` | `ipc_send`, `ipc_recv` and the two calls under them; implements `Rendezvous` | `lib/ipc.c`, `syscall.c` |
| `Ipc_proofs` | theorems about it, the refinement included | |
| `SmpBoot` | from `mp_init` to the scheduler, on every CPU | `init.c`, `mpconfig.c`, `lapic.c`, `picirq.c`, `mpentry.S`, `trap.c`, `pmap.c` |
| `SmpBoot_proofs` | theorems about it | |
| `InputQueue` | abstract queue that overflows by losing what waits | |
| `Console` | keyboard, serial line, input ring, screen, `readline`; its ring implements `InputQueue` | `console.c`, `readline.c`, `monitor.c` |
| `Console_proofs` | theorems about it, the refinement included | |
| `KernVm` | `mem_init`, its self-tests included | `pmap.c`, `memlayout.h` |
| `CLib`, `Printf` | string and memory routines; formatted output; `contador` | `lib/string.c`, `lib/printfmt.c`, `lib/printf.c`, `user/contador.c` |
| `Kdebug` | symbol lookup and the monitor's tokenizer | `kdebug.c`, `monitor.c` |
| `AddrSpace` | boot loader, program loader, `user_mem_check`, gates and trap frames | `boot/main.c`, `env.c`, `pmap.c`, `trap.c`, `trapentry.S` |
| `Algorithms` | calls every routine of the last four rows on bounded inputs | |
| `MC*` | instances for TLC | |

### EnvSched

Variables carry the names of the C fields: `env_status`, `env_id`,
`env_parent_id`, `env_runs`, `env_ipc_recving`, `env_free_list`, `curenv`,
`cpu_status`, `env_cpunum`. `cr3` is the page directory a CPU has loaded, `pc` where it is, and
`kernel_lock` the holder of the lock. An id is a pair of generation and slot; the
generation wraps at `NGen` as `env_alloc` makes it wrap when the number would
become negative. `env_runs` only keeps whether it is zero.

A CPU goes `user -> spin -> kernel -> pop -> user` (or `halted` in place of
`pop`, `user`). Everything between taking and releasing the lock is one action,
which is sound because it touches only what the lock protects; trap entry, the
wait for the lock, the register restore after `env_run` has unlocked, and `hlt`
are separate steps. `env_pop_tf` writes `env_cpunum` after the unlock, in the
step `EnvPopTf`. Two places are never left, since no command leaves `monitor()`
and the CPU keeps the lock there: `monitor`, where `sched_halt` puts an idle
machine, and `debug`, where a user breakpoint (`trap.c:221`) puts a busy one. Every handler is composed of the functions it calls: for
instance `SysEnvDestroy` looks the id up (`Envid2env`), then marks the target
dying, frees it, or frees itself, and ends in `TrapReturn` or `SchedYield`, and
`SchedYield` in `EnvRun` or `SchedHalt`, as in the C code. A failed assertion
(`env_run`, `spin_lock`, `spin_unlock`) is the place `panic`.

User programs are arbitrary: on each trap they may make any call in `Calls` with
any id. Two rules are not enforced by the kernel but needed by it on more than
one CPU: `sys_env_set_status` is not used on a child that is running, dying or
receiving, and a zombie is not destroyed a second time. `Disciplined` says that
both hold; the calls `set_status_any` and `destroy_zombie` lift them one at a time.

### Spinlock and Mutex

Each read or write of the lock is a step: the two reads of `holding()`, the
`xchg`, the store of the owner. Callers may be correct or, if `Misuse`, lock
twice or unlock what they do not hold. `held` and `misused` are history
variables. `Mutex` has one variable, the holder, and `Spinlock` implements it
with the CPU whose `xchg` succeeded as holder. `EnvSched`'s `LockKernel` and the
`kernel_lock' = NULL` of `EnvRun` and `SchedHalt` are exactly the steps of `Mutex`
(`KernelLockIsMutex`).

### PageTables and Pmap

`mem` is a record: the free list (in order: `page_alloc` and `page_free` work at
its head), the reference counts, the frame of every page directory and page
table, and the entries below `UTOP`. Each function of `pmap.c` is an operator
from memory to memory (`PageAlloc`, `PageFree`, `PageDecref`, `PgdirWalk`,
`PageInsert`, `PageRemove`), and the handlers compose them as the code does.
`page_free`'s panics, `env_setup_vm`'s assertion and the dereference of a null
page set `panic`. The VGA frame, which every environment maps, has a reference
that is never dropped. Reference counts are taken modulo `RefMod`.

`Pmap!Switch` stands for the schedules of `EnvSched`, of which it only needs
`OneCpuPerEnv` and `PgdirTracksCurenv`, both part of the invariant proved there.
`UserAccess` is the processor filling its TLB. Three rules for callers are again
constants: `map_unmapped`, `fork_low_memory` and `edit_running_child` lift them.

### Fork

The parent's address space is what `load_icode` leaves, plus one more page that
is read-only, private, `PTE_MAPPED` or an alias of another page. A page holds a
tag, and the stack page also the loop variable of `fork_v0`, which the loop
changes while the stack is being copied: that is why the code copies the stack a
second time after the loop, and why `LastStack` cannot be left out. Each system
call is a step and `Steal` lets other environments take pages between any two.

### Ipc and Rendezvous

A system call is a step, and so is each of the three loads with which `ipc_recv`
reads its message. An address is none, a page, or unaligned; a page offered is
one `sys_ipc_try_send` accepts or not. Environments may be destroyed at any
point and another one started in the same slot, with the fields `env_alloc`
does not reset as they were. In `Rendezvous` a send and a receive that name each
other exchange the whole message at once; the refinement mapping `Op` says what
each call will return, partly from what has been read and partly from what is
still in `envs[]`.

### SmpBoot

A machine is what its firmware tells: where an MP structure lies, what is wrong
with it, and its table entries. Each CPU has a place `pc`, a stack `esp` and a
TSS. Everything before `lock_kernel` happens without a lock, so the read of
`mmio_map_region`'s static, the mapping and the assignment of `lapic` are
separate steps. The first STARTUP interrupt may be missed, as the comment in
`lapic_startap` allows; a CPU that runs ignores the second. Past its first
`sched_yield` a CPU leaves the kernel, traps and takes the lock again (`Trap`), in
competition with the ones still in `mp_main`, or stays in the monitor (`Monitor`).

### Console and InputQueue

Nothing in this kernel handles device interrupts: `cons_getc` polls, one byte a
step, while the devices go on. The keyboard sends the make and break codes of
keys that are pressed and released; the screen is a grid of a few cells with
`cga_putc`'s cursor; `readline` edits a line and echoes it. `InputQueue` is a
queue that loses everything waiting when the `CONSBUFSIZE`-th character arrives,
which is what a ring without a full test does.

### KernVm

`mem_init` in the order of the code, on machines whose CMOS sizes and kernel end
vary. A write to a page that the current page directory does not map, the one of
`entry.S` before `lcr3` and `kern_pgdir` after it, stops the machine with a page
fault. Kernel addresses (`KADDR`) and `boot_alloc`'s limit wrap as 32-bit numbers
do. `check_page_free_list`, `check_page_alloc`,
`check_kern_pgdir` and `check_page_installed_pgdir` are steps that assert what
they assert of the memory `mem_init` built and leave the free list in the order
they leave it; `check_page`'s own exercise of `page_insert` and `page_remove` is
reduced to its effect on the free list and the page table it leaves behind.
Sizes are scaled down: the constants keep the order of the real ones.

### Algorithms

`CLib`, `Printf`, `Kdebug` and `AddrSpace` hold sequential routines as
operators, loops as recursion and pointers as positions or rests of sequences.
The routines that can stop the kernel return how: `load_icode` a panic (bad
magic, no page, no page table, a range that wraps), `debuginfo_eip` a page fault
when it reads a stab that the program's tables do not have.
`Algorithms` picks a routine and arguments, calls it, and its invariants compare
what it returned with an independent definition of the result.

## 3. Runs

| Run | Instance | Result |
|---|---|---|
| `env_smp` | 2 CPUs, 3 slots, ids of 2 generations, 2 boot environments | holds, 1.9 million states |
| `env_live` | 2 CPUs, 4 environments that exit but do not fork, fairness | holds |
| `lock` | 3 CPUs, correct and incorrect callers, fairness | holds |
| `pmap_mem` | 2 environments, 5 pages, 2 tables of 2 entries, 2 permissions | holds |
| `pmap_tlb` | 2 CPUs, 2 environments, 6 pages, 1 table of 2 entries | holds |
| `pmap_unmapped` | as `pmap_mem`, callers that map what is not mapped | the kernel dereferences a null page |
| `ipc` | 2 senders, 1 receiver that may die and be replaced, 2 values, fairness | holds |
| `fork` | 3 tables of 2 entries, 16 pages of which others take up to 9 | holds |
| `boot` | room for 3 CPUs, tables of up to 4 processors, unusable and missing tables, fairness | holds |
| `console` | ring of 3, line buffer of 4, screen of 2 by 2, 5 keys | holds |
| `kernvm` | 156 machines, from less memory than the kernel needs to more than there are addresses | holds |
| `algorithms` | every routine on every input up to the bounds, 320 thousand states | holds |

**What they show.**

* `env_smp`: lock and program counters, free list and slots, receive flags and
  blocked environments agree (`LockAndSlotsAgree`); no environment runs twice
  (`OneCpuPerEnv`); status, `curenv` and `cr3` agree, so that `env_destroy` and
  `env_free` decide correctly (`StatusTracksCurenv`, `PgdirTracksCurenv`); no assertion fails (`NoPanic`); the monitor starts only
  on an idle machine or where the running program asks for it with a breakpoint
  (`MonitorOnlyWhenIdleOrAsked`). As action properties: a new child
  is started by its parent alone, and a zombie is freed by its own CPU alone.
* `env_live`: a RUNNABLE environment gets a CPU, if others exit but none forks and
  no program stops the machine with a breakpoint.
* `lock`: exclusion, exact misuse checks, refinement of `Mutex`, and somebody
  gets in while somebody spins.
* `pmap_mem`: reference counts and free list are exact and page tables private
  (`MemoryConsistent`) through remapping, sharing, destruction and failed
  allocations, and sharing creates no write access (`NoWriteFromReadOnly`).
* `pmap_tlb`: no CPU uses a translation that has been taken away.
* `ipc`: an environment sleeps exactly while its receive flag is set
  (`WakeupsExact`), what `ipc_recv` returns is one message of one sender
  (`ImplementsRendezvous`, the refinement), and a sender that keeps retrying
  does not miss a receiver that waits for ever (`SendersMeetReceivers`).
* `fork`: the child's memory is the parent's at the end of the fork, loop variable
  included (`ChildIsCopy`); the parent keeps its own, and its scratch page is
  unmapped (`ParentIntact`); every page is accounted for, after success and
  after a failure half way (`MemoryAccounted`).
* `boot`: no two CPUs share a boot stack or a trap stack (`StacksPrivate`),
  although one variable hands the stacks out and nothing is locked yet; one CPU
  at a time is in `lapic_init` and no two have one another's window
  (`SetupExclusive`); nobody schedules before all CPUs are up and all
  environments exist (`SchedAfterBoot`); the boot CPU gets there, and all CPUs that
  were counted get as far as the lock in `mp_main` (`EveryCpuComesUp`).
* `console`: no modifier stays down after its key is released, E0 prefixes
  included (`NoStuckModifier`); positions stay in bounds and the screen shows
  the line being edited (`ScreenExact`); input comes out in the order it went in
  (`ImplementsInputQueue`).
* `kernvm`: no page in use is on the free list (`FreePagesSafe`); a page that is not
  mapped yet is written only by `boot_alloc`'s caller, and only if the structures
  themselves pass the first 4 MB (`BootReachable`); the final address space is
  exactly the one of `memlayout.h`, `UVPT` apart (`KernMapExact`); and `mem_init`
  completes on exactly the machines with enough memory, no more than `KERNBASE`
  maps, and a `PageInfo` array of whole pages (`SelfTestsPass`).
* `algorithms`: `StringsExact` (overlapping moves, bounded copies, comparisons),
  `FormatExact` (numbers read back as themselves, field widths, every short format
  string, full buffers, carries), `DebuggerExact` (symbol search, function and
  line of an address, when -1 is returned and when the kernel faults over a table
  that is partly unreadable, the monitor's words), `RangesExact` (sectors read by the
  boot loader, pages allocated by `load_icode` and exactly when it panics, ranges
  refused by `user_mem_check`, at the end of the address space too), `TrapFrameUniform` (every
  vector that has a gate, with or without an error code, gives a frame of the
  same shape with its own number).

**Why the bounds are enough.** The conflicts in `EnvSched` need one environment
and two CPUs that disagree about it; the third slot adds a bystander, makes the
scheduler's search wrap, and lets slots be freed and reused in different orders.
Two generations make ids wrap and be reused. Symmetry is not used there: the boot
CPU is special and slots are searched in order. Its view leaves out the parent
and run count of FREE slots, which `env_alloc` sets before anything reads them.
For the safety properties of `EnvSched`, `Spinlock`, `Pmap`, `Fork`, `Ipc`,
`SmpBoot` and `Console` the proofs of section 4 remove the bounds.

In `Pmap`, five pages are what two environments need (directory and table each)
plus one data page, so every allocation is met both with and without memory, and
a page can be shared, mapped twice, and be the last one. Two entries per table
and two tables distinguish a missing table from a missing entry. The CPUs of
`pmap_tlb` are symmetric. `Fork` puts scratch and VGA page, program, and stack in
a table each; nine stolen pages are enough to make every allocation of a fork the
first one to fail. `Ipc` needs two senders for one to win over the other and one
reuse of a slot for an id to become stale; a third sender does what the second
does. `SmpBoot` needs two application processors for one to be on its way
while the boot CPU prepares the next; four table entries overflow `cpus[]`. The
ring of three wraps and overflows, the line buffer of four fills up, the screen
of four cells scrolls. `KernVm`'s constants keep the order of the real ones, and
its machines lie on both sides of every comparison in `i386_detect_memory` and
`page_init`, of the memory that `KERNBASE` maps, of the memory whose `PageInfo`
array passes `entry_pgdir`, and of the size at which `npages*PGSIZE` wraps. The inputs of `Algorithms` reach every branch of every routine, with
words of 8 and 16 bits in place of 32 and 64 and an address space of 32 bytes.

**Fairness.** `EnvSched!FairSpec` assumes that the machine as a whole keeps
running (weak fairness of `Next`) and that a CPU which keeps dispatching traps
dispatches a timer interrupt again and again (strong fairness of `TimerIrq`):
`lapic_init` programs a periodic timer and user code runs with interrupts
enabled (`env_alloc` sets `FL_IF`). It does not assume that a given CPU wins the
lock: `spin_lock` is a test-and-set loop. `Spinlock!FairSpec` assumes that a CPU
inside `spin_lock` or `spin_unlock` keeps executing and that a critical section
ends, which `env_run` or `sched_halt` at the end of every handler justify.
`Ipc!Spec` assumes that an environment which can take its next step takes it,
which is `RunnableRuns`, under the condition that it has there (no environment
forks for ever); it does not assume that a particular sender wins.
`SmpBoot!Spec` assumes that a CPU that runs goes on running, which lets the CPUs
that trap win the lock every time: an application processor may wait in
`mp_main` for ever.

**A disagreement between code and comment.** `sys_page_map` and
`sys_ipc_try_send` test the pointer `page_lookup` stores, which is set whenever a
page table exists, and not the page it returns. An unmapped address in an
existing page table therefore reaches `page_insert` as a null page where the
comment promises `-E_INVAL` (`pmap_unmapped`). All other runs keep to callers that
pass mapped addresses.

**Observations** made while modelling. Where the models contain them, a constant
or the choice of inputs selects them; they have no run.

* *Scheduling and environments.* A user breakpoint enters the monitor with the
  lock held, and the machine does nothing else from then on. `env_pop_tf` writes
  `env_cpunum` after `env_run` has given the lock back; nobody else can write or
  free that environment then. The search of `sched_yield` starts at `envs[0]`
  after every exit, not after the environment that ran last, so that an
  environment can wait for ever behind others that fork and exit (`env_live`
  therefore leaves out forking). `sys_env_set_status` can put a running
  environment on a second CPU (`set_status_any`), and on one that waits in
  `sys_ipc_recv` leaves `env_ipc_recving` set. `env_destroy` frees a zombie that is
  destroyed twice while it still runs (`destroy_zombie`).
* *Memory.* `env_setup_vm` asserts where it should return `-E_NO_MEM`
  (`fork_low_memory`). `page_remove` does not reach the TLBs of other CPUs
  (`edit_running_child`). `pp_ref` wraps after 65536 mappings of one page
  (`RefMod`). `sys_ipc_try_send` accepts one of `PTE_U` and `PTE_P` where its
  comment asks for both. `page_init` reserves from `IOPHYSMEM` whatever
  `npages_basemem` is. `boot_map_region` asserts whole pages, so `mem_init` stops
  unless the `PageInfo` array fills whole pages (memory a multiple of 2 MB).
  With more than the 256 MB that `KERNBASE` maps, `page2kva` wraps and
  `check_page_free_list` fails (`pmap.c:734`); from about 1.2 GB on the `PageInfo`
  array itself leaves the 4 MB that `entry_pgdir` maps and the `memset` of
  `pmap.c:160` faults before that. `user_mem_check` looks at every byte, reports
  `ULIM` for a range that does not end before it, also when an earlier byte is not
  mapped, and refuses a range that ends exactly at `ULIM`, where `pmap.c:624-629`
  asks for the first erroneous address and exactly the tests it names.
  `region_alloc` panics on a range that wraps around, and when memory runs out.
* *Boot.* The boot CPU sets up its TSS before the LAPIC is known, when `cpunum()`
  is 0. If its entry is not the first of the MP table, it shares TSS 0 with the
  application processor whose number is 0; if `NCPU` entries or more precede it,
  `bootcpu` points past `cpus[]`. `mpsearch` looks from 0xF0000 where its comment
  says 0xE0000. The keyboard interrupt is unmasked, and the spurious vector 39
  possible, but neither has a gate. The `xchg` loop favours nobody, so CPUs that
  trap can keep an application processor waiting at its first `lock_kernel`.
* *Libraries.* `fork_v0`'s second copy of the stack can run out of memory though
  the page has been copied before; a parent that panics leaves a NOT_RUNNABLE
  child; whatever was mapped at `UTEMP` is lost. The comment at the head of
  `printfmt.c` (12-13) says that width and padding are for the numeric formats
  only, but `%s` has them (`FormatExact` asserts what the code does). `%-5d` pads
  with `-`, `%.0s`
  prints the whole string, and a sign does not count towards the width. The
  kernel's `putch` increments the pointer and not the count. `stab_binsearch`
  leaves an element of another type in the result when all that match lie above.
  `debuginfo_eip` has as many bytes of the symbol table checked as it has elements
  (`kdebug.c:159`), a twelfth, and so may fault in the kernel where `kdebug.c:157`
  asks for the memory to be made sure of and the callee to return -1; where it
  finds no line it goes on with line 0, where `kdebug.c:209` asks for -1.
* *Console.* DEL on an empty line is stored as a character; the control map has an
  entry at 0x97 that lies on no key; a byte with the keyboard's error bit is never
  read; caps lock toggles with auto-repeat; no command leaves the monitor.

## 4. Proofs

Proved with TLAPS, for every value of the constants that the assumptions of the
modules allow:

* `EnvSched_proofs`: `InvariantHolds` (`Spec => []IInv`) and its consequences
  `TypeCorrect`, `LockAndSlots`, `NeverOnTwoCpus`, `StatusIsCurrent`, `PgdirIsCurrent`,
  `KernelNeverPanics`, `MonitorIsLast`, `ZombiesAreSafe`, `ChildrenWaitForParent`:
  every safety property of `env_smp`; and `EnvsAreProtected` (whoever writes
  `envs[]` holds the lock and is alone in the kernel; only `env_cpunum` is written
  without it, by a CPU on its way into that environment, which is not FREE). All assume `Disciplined`,
  the two rules for callers of section 2; neither can be dropped.
  `KernelLockIsMutex` needs no such rule.
* `Spinlock_proofs`: `InvariantHolds`, `LockIsExclusive`, `DebugChecksAreExact`,
  `SpinlockRefinesMutex`. No assumption but that `NULL` is not a CPU.
* `Pmap_proofs`: `TlbStaysCoherent`, if no program edits a child that runs on
  another CPU; `MemoryStaysConsistent` and `SharingKeepsReadOnly`, as long as
  `FewReferences`; `SmallMemoryConsistent`; `KernelDoesNotPanic`, if in addition
  programs map only what is mapped and fork only while there is memory.
* `Fork_proofs`: `ForkInvariant` (`Spec => []ForkInv`), `ForkLosesNoPage`,
  `ForkKeepsParent`, `ForkMakesCopy`: every property of `fork`. `ForkAssumption` is
  all they assume: the layout of the program, eight pages of memory for the
  program that forks (its directory, up to four page tables and three pages; a
  program that has been loaded had them), and a `pp_ref` that counts more than
  sixteen references (2^16 in the code; two environments with five pages in use
  each, the page tables and the references of others stay below that).
* `Ipc_proofs`: `InvariantHolds`, `SleepersWait`, `IpcImplementsRendezvous`.
* `SmpBoot_proofs`: `InvariantHolds`, `BootTypesHold`, `StacksStayPrivate`,
  `SetupStaysExclusive`, `SchedulesAfterBoot`, on machines with `BootCpuFirst`; and,
  on any table whatever, `BootcpuInCpusOrOnePast`: `bootcpu` is an element of
  `cpus[]` or, when the boot processor is listed that late, one past its end.
* `Console_proofs`: `InvariantHolds`, `ConsoleImplementsQueue`, `ScreenStaysExact`,
  `ModifiersNeverStick`.

Three hypotheses are not rules for callers:

* `FewReferences`: no frame has as many as `RefMod - 1` references. `pp_ref` is a
  `uint16_t` and `page_insert` increments it without a check, so programs that map
  one page 65536 times do break the bookkeeping. `SmallMemoryConsistent` does
  without the hypothesis where there are fewer page table entries than `pp_ref`
  can count, as in every instance TLC explores.
* `BootCpuFirst`: the MP table lists the boot processor first. `trap_init_percpu`
  runs on it before `lapic` is set, when `cpunum()` is 0, so on other machines it
  takes the TSS of another CPU (section 3, observations) and `StacksPrivate` is
  false. With `NCPU` processors before it, `bootcpu` is not an element of `cpus[]`
  (`BootcpuInCpusOrOnePast`); `SmpBootAssumption` leaves those tables to that theorem.
* `TlbStaysCoherent`'s rule is what `page_remove` needs because it invalidates the
  TLB of its own CPU only.

**EnvSched.** None of the safety properties is inductive alone. That the
scheduler never picks an environment which runs elsewhere needs status and
`curenv` to agree, on every CPU (`StatusTracksCurenv`); that a message keeps them
in agreement needs the receive flag to imply a blocked environment
(`ReceiverIsBlocked`), which in turn needs `env_alloc`'s reset, and so the free
list to hold FREE slots only (`FreeListExact`); that a handler has these to
itself needs the lock to match the program counters (`KernelExclusive`), which a
CPU leaving `hlt` gets right only if `cpu_status` is right (`CpuStatusOK`).
`IInv` is the conjunction, with `CurenvHasRun` for the new-child property and
`CpunumIsCurrent` for what `env_pop_tf` stores without the lock. The
proof follows the code: lemmas describe the state after `EnvRun`, `SchedHalt`,
`SchedYield` and `TrapReturn` once, from a precondition on the status, current
environment and page directory the handler has computed; every handler then only
establishes that precondition. The two action properties follow from `IInv` by a
case split over the actions.

**Spinlock.** The invariant says that `locked` is set exactly while some CPU
holds the lock, that the owner field names the holder or nobody, and names the
holder wherever the holder executes code that depends on it. That is what makes
two unprotected reads give the right answer: a CPU finds its own name there only
if it wrote it itself and has not taken it back. The refinement maps the
successful `xchg` of `spin_lock` to `Acquire`, that of `spin_unlock` to
`Release`, and all other steps to stuttering.

That the kernel then uses this lock as a `Mutex` is `KernelLockIsMutex` of
`EnvSched_proofs`, which closes the gap between the two models.

**PageTables and Pmap.** The bookkeeping is exact between calls and wrong in the
middle of one: `page_alloc` returns a page nobody refers to, `page_insert` counts
the new reference before it removes the old mapping, `page_decref` drops a count
before the entry is cleared. `Good(m, held, loose)` is the invariant with
these debts as arguments: `held` says by how much a count exceeds the places that
hold the frame, `loose` which pages are neither free nor referred to. Every
function has a lemma that says which fields it writes (`...Is`) and one that says
how it moves the debts (`Good...`); composed along the code they give back
`Good(m, Zero, {})` at the end of every system call, the ones that run out of
memory half way included, and that implies `MemoryConsistent`. That counts are
right modulo `RefMod` is proved from exact cardinalities of the places, under
`FewReferences`. `env_free` loops over all entries and all tables; the loops are
recursive functions, of which `PageTables_proofs` proves that they exist and that
what every round keeps holds at the end. `TlbStaysCoherent` needs none of this, only
which entries a call may change (`FrameInv`, `CallFrame`): those of the caller, whose
own CPU invalidates them, and of children, which do not run.

**Fork.** The lemmas are those of `Pmap`, with the pages other environments have
taken as `held`: a frame that is `stolen` counts one reference which no page table
of parent or child explains, so that `Good(mem, Held, {})` is kept by `Steal` and
by every call of `fork_v0` and `dumbfork`, and implies that no page is lost. No
rule like `FewReferences` is needed: only the pages of the program and the scratch
page are ever mapped (`PlacesHold`), so `FewRefs` bounds every count.

`ParentIntact` and `ChildIsCopy` speak of contents, and contents are shared
through frames. What makes `memmove` and the child's assignment to `thisenv`
harmless to the parent is that the frames they write are mapped nowhere else:
`Alone` says so of every page the child has for itself, with the scratch page as
the one exception while a page is being filled (`Scratch`, `Lent`). `Done` says
which pages the child has after each call, by the loop variable and the
arguments of the call in progress, and `Same` which of those equal the parent's:
not the page being copied, and never the stack while the loop runs, because
`SetVa` writes it. The stack becomes equal in the second copy, after which the
loop variable stays as it is, and that is the step in which `Same` comes to hold of
all pages at once. `Called` keeps what the proof needs of the program: its stack
frame is mapped once, so the loop variable is written into no other page, and its
data and stack are writable, so they are copied and not shared. `ForkInv` is the
conjunction of these with the types. That the program starts in such a state is proved from `RegionAlloc` and
`EnvSetupVm` (`ProgramIs`), for both kinds of extra page. A fork that fails, and a
kernel that panics in `env_setup_vm`, keep everything but `ChildOK`, which then
says nothing.

**Ipc.** `IInv` adds to `WakeupsExact` the types of the message fields, which
survive from one owner of a slot to the next, and what the place of a call says
of its arguments (`CallsOK`). The refinement of `Rendezvous` has one lemma per
step: the successful `sys_ipc_try_send` is the meeting; retries, `sys_ipc_recv` and
the three loads of `ipc_recv` are stutters, the loads because the mapping `Op`
takes a field from `envs[]` before it is read and from the local variable after.
That no sender writes the fields in between is `WakeupsExact` again.

**SmpBoot.** `Progress` says where every CPU is relative to the loop of
`boot_aps`: those it has passed are up, the one it is at is on its way, the rest
are off. From it follow the others: `mpentry_kstack` is not rewritten while the
CPU that must read it is on its way, and `mmio_map_region`'s static has one user
at a time. `PercpuInv`, `MmioInv`, `LockInv` and `ChipInv` say what each CPU
has set up by then. What `mp_init` finds in a table of any length is proved by
induction over the entries (`SetInduction`); that `cpus[]` is not overrun is part of it.

**Console.** The ring needs only arithmetic on two positions, done once
(`PutAppends` and its counterpart for `cons_getc`): the queue is what lies between
them, and when they meet by a write all of it is gone. For the
screen the invariant is that it ends with the line that is being edited; every
branch of `cga_putc` and every key of `readline` keeps it, a backspace because
the last cell and the last character go together, a scroll because it moves cells
and cursor by the same amount. `NoStuckModifier` speaks of the moment when the
driver has seen every byte, so its invariant must speak of the future: there is a
run of `kbd_proc_data` over the bytes still pending that ends in a state with no
prefix left and no modifier down but those of keys that are held. A key that is
pressed or released appends its codes to the end of that run, and the driver takes
a byte off its beginning. No hypothesis beyond the module's assumptions.

**Only model-checked.** Liveness (`RunnableRuns`, `SomebodyGetsIn`,
`SendersMeetReceivers`, `EveryCpuComesUp`), which needs fairness and ENABLED;
`CLib`, `Printf`, `Kdebug` and `AddrSpace`, and so the invariants of `Algorithms`,
whose operators are recursive: the provers have no induction over data, and
the lemmas about loops in `PageTables_proofs` reach only loops over an index whose
every round keeps one set. `KernVm` is model-checked for the same reason: what
`page_init`'s filter leaves on the list and what `boot_map_region`'s fold maps are
facts about recursive definitions for every length. It has no concurrency and no
inputs but the machine, of which the run tries one on each side of every
comparison.

## 5. Not modelled, and plan

Not modelled: the user runtime (`lib/entry.S`, `libmain.c`, `exit.c`,
`syscall.c`: straight-line code without state); saved registers other than what
the entry stubs push; descriptor and ELF encodings; the port protocols of LAPIC,
8259A, CMOS, serial and parallel port, beyond the state named above; what the
monitor's commands print; `ipc_find_env`; `primes` and `pingpong` as programs;
`sfork`, `duppage`, page fault upcalls and `sys_env_set_pgfault_upcall`, which the
repository leaves unimplemented. `entrypgdir.c` is mostly a table that is
commented out.

Worth doing next: `mem_init` as loops over recursive functions in place of filters
and folds, so that `FreePagesSafe` comes within reach of induction over the page
number; then `KernMapExact`.
