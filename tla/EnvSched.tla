------------------------------ MODULE EnvSched ------------------------------
(***************************************************************************)
(* The environments of the JOS kernel (kern/env.c), the scheduler          *)
(* (kern/sched.c), the trap path (kern/trap.c) and the system calls that   *)
(* change an environment's state (kern/syscall.c), on several CPUs that    *)
(* share one big kernel lock (kern/spinlock.c, see module Spinlock).       *)
(*                                                                         *)
(* A CPU is in user mode, traps, spins on the lock, runs one handler with  *)
(* the lock held and leaves the kernel through env_run or sched_halt,      *)
(* which release it.  Everything a handler does happens under the lock, so *)
(* a handler is one action; the windows the lock does not cover (trap      *)
(* entry, the restore of the registers after env_run has unlocked, the     *)
(* halted CPU) are steps of their own.                                     *)
(*                                                                         *)
(* Memory is abstracted to the page directory each CPU has loaded; module  *)
(* Pmap models pages.  User programs are arbitrary: on every trap they ask *)
(* for any call in Calls, with any environment id.                         *)
(***************************************************************************)
EXTENDS Integers, Sequences

CONSTANTS
    CPUs,     \* the processors found by mp_init
    BSP,      \* the boot processor
    NENV,     \* size of envs[]
    NGen,     \* generations an env_id can hold before it wraps (2^19 - 1 in the code)
    NBoot,    \* environments i386_init creates
    NULL,     \* no environment; as a loaded page directory, kern_pgdir
    Calls     \* what the user programs of this instance may ask for

Envs == 0..NENV-1

\* "set_status_any" and "destroy_zombie" lift the two rules below that the
\* kernel relies on its callers to follow.
AllCalls == {"exofork", "set_status", "destroy", "ipc", "fault", "breakpoint",
             "set_status_any", "destroy_zombie"}

ASSUME CPUAssumption  == BSP \in CPUs /\ NULL \notin CPUs
ASSUME NENVAssumption == NENV \in Nat \ {0} /\ NULL \notin Envs
ASSUME NGenAssumption == NGen \in Nat \ {0}
ASSUME BootAssumption == NBoot \in 1..NENV
ASSUME CallAssumption == Calls \subseteq AllCalls

VARIABLES
    env_status,       \* envs[e].env_status
    env_id,           \* envs[e].env_id, as <<generation, slot>>; 0 is <<0, 0>>
    env_parent_id,    \* envs[e].env_parent_id
    env_runs,         \* envs[e].env_runs, as 0 or 1 ("has run")
    env_ipc_recving,  \* envs[e].env_ipc_recving
    env_free_list,    \* the list that starts at env_free_list, linked by env_link
    curenv,           \* cpus[c].cpu_env
    cpu_status,       \* cpus[c].cpu_status
    cr3,              \* the page directory CPU c has loaded: an env's, or NULL
    pc,               \* where CPU c is
    kernel_lock,      \* the CPU that holds the big kernel lock, or NULL
    env_cpunum        \* envs[e].env_cpunum, which env_pop_tf writes without the lock

env_vars == <<env_id, env_parent_id, env_ipc_recving, env_free_list>>
cpu_vars == <<curenv, cpu_status, cr3, pc, kernel_lock, env_cpunum>>
vars == <<env_status, env_runs, env_vars, cpu_vars>>

Statuses == {"FREE", "DYING", "RUNNABLE", "RUNNING", "NOT_RUNNABLE"}
EnvIds == (0..NGen) \X Envs

\* user: in user mode; spin: in lock_kernel; kernel: in a handler, after the
\* lock; pop: in env_pop_tf, after the unlock; halted: in the hlt loop of
\* sched_halt; boot: in i386_init; monitor: in its endless loop in sched_halt;
\* debug: in the monitor a breakpoint has called; panic: in _panic.
Places == {"user", "spin", "kernel", "pop", "halted", "boot", "monitor", "debug", "panic"}

\* The places where a CPU works on kernel data.
Inside == {"boot", "kernel", "monitor", "debug"}

-----------------------------------------------------------------------------
(* Boot.  The first state is the one boot_aps leaves: the boot CPU holds    *)
(* the lock and every other CPU is in mp_main, about to acquire it.         *)

Init ==
    /\ env_status = [e \in Envs |-> "FREE"]
    /\ env_id = [e \in Envs |-> <<0, 0>>]
    /\ env_parent_id = [e \in Envs |-> <<0, 0>>]
    /\ env_runs = [e \in Envs |-> 0]
    /\ env_ipc_recving = [e \in Envs |-> FALSE]
    /\ env_free_list = [i \in 1..NENV |-> i - 1]
    /\ curenv = [c \in CPUs |-> NULL]
    /\ cpu_status = [c \in CPUs |-> "STARTED"]
    /\ cr3 = [c \in CPUs |-> NULL]
    /\ pc = [c \in CPUs |-> IF c = BSP THEN "boot" ELSE "spin"]
    /\ kernel_lock = BSP
    /\ \E c \in CPUs : env_cpunum = [e \in Envs |-> c]   \* zeroed: cpus[0]

\* The generation after g: it skips the ids that would be 0 or negative.
NextGeneration(g) == IF g >= NGen THEN 1 ELSE g + 1

\* Mutant: env_ipc_recving is not cleared.
EnvAllocStaleRecving(parent) ==
    LET e == Head(env_free_list) IN
    /\ env_free_list # <<>>
    /\ env_id' = [env_id EXCEPT ![e] = <<NextGeneration(env_id[e][1]), e>>]
    /\ env_parent_id' = [env_parent_id EXCEPT ![e] = parent]
    /\ env_free_list' = Tail(env_free_list)
    /\ UNCHANGED env_ipc_recving

\* env_alloc: take the head of the free list for a child of `parent'; env_alloc
\* sets its status to RUNNABLE and env_runs to 0, the caller its final status.
EnvAlloc(parent) ==
    LET e == Head(env_free_list) IN
    /\ env_free_list # <<>>
    /\ env_id' = [env_id EXCEPT ![e] = <<NextGeneration(env_id[e][1]), e>>]
    /\ env_parent_id' = [env_parent_id EXCEPT ![e] = parent]
    /\ env_ipc_recving' = [env_ipc_recving EXCEPT ![e] = FALSE]
    /\ env_free_list' = Tail(env_free_list)

-----------------------------------------------------------------------------
(* Leaving the kernel.  Each operator below ends a handler: st and runs are *)
(* env_status and env_runs as the handler has left them, cur is curenv and  *)
(* pgdir the page directory loaded on CPU c by then.                        *)

Panic(c, st, runs, cur, pgdir) ==
    /\ env_status' = st
    /\ env_runs' = runs
    /\ curenv' = [curenv EXCEPT ![c] = cur]
    /\ cr3' = [cr3 EXCEPT ![c] = pgdir]
    /\ pc' = [pc EXCEPT ![c] = "panic"]
    /\ UNCHANGED <<cpu_status, kernel_lock, env_cpunum>>

StillRunning(st, cur) == cur # NULL /\ st[cur] = "RUNNING"

\* env_run's first statement: the environment being switched from.
Preempt(st, cur) ==
    IF StillRunning(st, cur) THEN [st EXCEPT ![cur] = "RUNNABLE"] ELSE st

\* env_run up to unlock_kernel, which panics if this CPU is not the holder.
EnvRun(c, e, st, runs, cur, pgdir) ==
    LET st1 == Preempt(st, cur) IN
    IF st1[e] # "RUNNABLE" \/ kernel_lock # c
    THEN Panic(c, st1, runs, cur, pgdir)
    ELSE /\ env_status' = [st1 EXCEPT ![e] = "RUNNING"]
         /\ env_runs' = [runs EXCEPT ![e] = 1]
         /\ curenv' = [curenv EXCEPT ![c] = e]
         /\ cr3' = [cr3 EXCEPT ![c] = e]
         /\ pc' = [pc EXCEPT ![c] = "pop"]
         /\ kernel_lock' = NULL
         /\ UNCHANGED <<cpu_status, env_cpunum>>

\* Mutant: a zombie on another CPU is not counted.
SystemIdleButDying(st) == \A e \in Envs : st[e] \notin {"RUNNABLE", "RUNNING"}

\* sched_halt's loop finds no environment that could still run.
SystemIdle(st) == \A e \in Envs : st[e] \notin {"RUNNABLE", "RUNNING", "DYING"}

\* sched_halt: nothing to run here; nothing anywhere drops into the monitor,
\* with the lock held and curenv left as it is.
SchedHalt(c, st, runs, cur, pgdir) ==
    IF SystemIdle(st)
    THEN /\ env_status' = st
         /\ env_runs' = runs
         /\ curenv' = [curenv EXCEPT ![c] = cur]
         /\ cr3' = [cr3 EXCEPT ![c] = pgdir]
         /\ pc' = [pc EXCEPT ![c] = "monitor"]
         /\ UNCHANGED <<cpu_status, kernel_lock, env_cpunum>>
    ELSE IF kernel_lock # c THEN Panic(c, st, runs, NULL, NULL)
    ELSE /\ env_status' = st
         /\ env_runs' = runs
         /\ curenv' = [curenv EXCEPT ![c] = NULL]
         /\ cr3' = [cr3 EXCEPT ![c] = NULL]
         /\ cpu_status' = [cpu_status EXCEPT ![c] = "HALTED"]
         /\ pc' = [pc EXCEPT ![c] = "halted"]
         /\ kernel_lock' = NULL
         /\ UNCHANGED env_cpunum

\* Mutant: every search starts at envs[0].
CandidateFromZero(cur, i) == (i - 1) % NENV

\* The i-th environment sched_yield looks at.
Candidate(cur, i) == ((IF cur = NULL THEN -1 ELSE cur) + i) % NENV

\* Mutant: an environment running on another CPU is taken as well.
FirstRunnableOrRunning(st, cur, e) ==
    \E i \in 1..NENV :
        /\ e = Candidate(cur, i)
        /\ st[e] \in {"RUNNABLE", "RUNNING"}
        /\ \A j \in 1..(i-1) : st[Candidate(cur, j)] \notin {"RUNNABLE", "RUNNING"}

\* sched_yield's loop stops at e.
FirstRunnable(st, cur, e) ==
    \E i \in 1..NENV :
        /\ e = Candidate(cur, i)
        /\ st[e] = "RUNNABLE"
        /\ \A j \in 1..(i-1) : st[Candidate(cur, j)] # "RUNNABLE"

SchedYield(c, st, runs, cur, pgdir) ==
    \/ \E e \in Envs :
        /\ FirstRunnable(st, cur, e)
        /\ EnvRun(c, e, st, runs, cur, pgdir)
    \/ /\ \A e \in Envs : st[e] # "RUNNABLE"
       /\ StillRunning(st, cur)
       /\ EnvRun(c, cur, st, runs, cur, pgdir)
    \/ /\ \A e \in Envs : st[e] # "RUNNABLE"
       /\ ~StillRunning(st, cur)
       /\ SchedHalt(c, st, runs, cur, pgdir)

\* The end of trap(): back to the current environment if it is still running.
TrapReturn(c, st, runs) ==
    IF st[curenv[c]] = "RUNNING"
    THEN EnvRun(c, curenv[c], st, runs, curenv[c], cr3[c])
    ELSE SchedYield(c, st, runs, curenv[c], cr3[c])

-----------------------------------------------------------------------------
(* Entering the kernel.                                                     *)

\* A trap from user mode.  panicstr stops a CPU for good.  A CPU that still
\* says HALTED would take the lock twice, which spin_lock turns into a panic.
TrapFromUser(c) ==
    /\ pc[c] = "user"
    /\ \A d \in CPUs : pc[d] # "panic"
    /\ cpu_status' = [cpu_status EXCEPT ![c] = "STARTED"]
    /\ pc' = [pc EXCEPT ![c] = IF cpu_status[c] = "HALTED" THEN "panic" ELSE "spin"]
    /\ UNCHANGED <<env_status, env_runs, env_vars, curenv, cr3, kernel_lock, env_cpunum>>

\* Mutant: the lock is not taken again after hlt.
TrapFromHaltUnlocked(c) ==
    /\ pc[c] = "halted"
    /\ cpu_status' = [cpu_status EXCEPT ![c] = "STARTED"]
    /\ pc' = [pc EXCEPT ![c] = "kernel"]
    /\ UNCHANGED <<env_status, env_runs, env_vars, curenv, cr3, kernel_lock, env_cpunum>>

\* The timer interrupts hlt: a trap from kernel mode, which takes the lock
\* only because cpu_status says the CPU was halted.
TrapFromHalt(c) ==
    /\ pc[c] = "halted"
    /\ \A d \in CPUs : pc[d] # "panic"
    /\ cpu_status' = [cpu_status EXCEPT ![c] = "STARTED"]
    /\ pc' = [pc EXCEPT ![c] = IF cpu_status[c] = "HALTED" THEN "spin" ELSE "kernel"]
    /\ UNCHANGED <<env_status, env_runs, env_vars, curenv, cr3, kernel_lock, env_cpunum>>

LockKernel(c) ==
    /\ pc[c] = "spin"
    /\ kernel_lock = NULL
    /\ kernel_lock' = c
    /\ pc' = [pc EXCEPT ![c] = "kernel"]
    /\ UNCHANGED <<env_status, env_runs, env_vars, curenv, cpu_status, cr3, env_cpunum>>

\* env_pop_tf: note the CPU in env_cpunum, restore the registers from env_tf
\* and iret, with no lock held.
EnvPopTf(c) ==
    /\ pc[c] = "pop"
    /\ env_cpunum' = [env_cpunum EXCEPT ![curenv[c]] = c]
    /\ pc' = [pc EXCEPT ![c] = "user"]
    /\ UNCHANGED <<env_status, env_runs, env_vars, curenv, cpu_status, cr3, kernel_lock>>

-----------------------------------------------------------------------------
(* Handlers.                                                                *)

\* CPU c has trapped from a live environment: a system call, an exception
\* or an interrupt can be dispatched.
Trapped(c) ==
    /\ pc[c] = "kernel"
    /\ curenv[c] # NULL
    /\ env_status[curenv[c]] # "DYING"

\* i386_init: ENV_CREATE, then sched_yield.
EnvCreate(c) ==
    /\ pc[c] = "boot"
    /\ NENV - Len(env_free_list) < NBoot
    /\ EnvAlloc(<<0, 0>>)
    /\ env_status' = [env_status EXCEPT ![Head(env_free_list)] = "RUNNABLE"]
    /\ env_runs' = [env_runs EXCEPT ![Head(env_free_list)] = 0]
    /\ UNCHANGED cpu_vars

BootDone(c) ==
    /\ pc[c] = "boot"
    /\ NENV - Len(env_free_list) = NBoot
    /\ SchedYield(c, env_status, env_runs, curenv[c], cr3[c])
    /\ UNCHANGED env_vars

\* A CPU with no environment: mp_main, or the timer after hlt.
IdleYield(c) ==
    /\ pc[c] = "kernel"
    /\ curenv[c] = NULL
    /\ SchedYield(c, env_status, env_runs, curenv[c], cr3[c])
    /\ UNCHANGED env_vars

\* env_free(e) on CPU c: the address space goes, the slot returns to the list.
EnvFree(e) ==
    /\ env_free_list' = <<e>> \o env_free_list
    /\ UNCHANGED <<env_id, env_parent_id, env_ipc_recving>>

Freed(e) == [env_status EXCEPT ![e] = "FREE"]

\* Mutant: kern_pgdir is not loaded first.
PgdirAfterFreeKept(c, e) == cr3[c]

\* The page directory loaded on c after env_free(e).
PgdirAfterFree(c, e) == IF e = curenv[c] THEN NULL ELSE cr3[c]

\* trap(): a zombie is collected when it traps.
ReapZombie(c) ==
    /\ pc[c] = "kernel"
    /\ curenv[c] # NULL
    /\ env_status[curenv[c]] = "DYING"
    /\ EnvFree(curenv[c])
    /\ SchedYield(c, Freed(curenv[c]), env_runs, NULL, PgdirAfterFree(c, curenv[c]))

\* env_destroy(e) and what follows it.
MarkDying(c, e) ==
    /\ env_status[e] = "RUNNING"
    /\ curenv[c] # e
    /\ TrapReturn(c, [env_status EXCEPT ![e] = "DYING"], env_runs)
    /\ UNCHANGED env_vars

\* Mutant: an environment running on another CPU is freed at once.
DestroyOtherRunning(c, e) ==
    /\ curenv[c] # e
    /\ EnvFree(e)
    /\ TrapReturn(c, Freed(e), env_runs)

DestroyOther(c, e) ==
    /\ env_status[e] # "RUNNING"
    /\ curenv[c] # e
    /\ EnvFree(e)
    /\ TrapReturn(c, Freed(e), env_runs)

DestroySelf(c) ==
    /\ EnvFree(curenv[c])
    /\ SchedYield(c, Freed(curenv[c]), env_runs, NULL, PgdirAfterFree(c, curenv[c]))

\* envid2env: the environment id names, or NULL for -E_BAD_ENV.
Envid2env(c, id, checkperm) ==
    IF id = <<0, 0>> THEN curenv[c]
    ELSE LET e == id[2] IN
         IF \/ env_status[e] = "FREE"
            \/ env_id[e] # id
            \/ checkperm /\ e # curenv[c] /\ env_parent_id[e] # env_id[curenv[c]]
         THEN NULL ELSE e

\* The timer interrupt, and sys_yield.
TimerIrq(c) ==
    /\ Trapped(c)
    /\ SchedYield(c, env_status, env_runs, curenv[c], cr3[c])
    /\ UNCHANGED env_vars

SysYield(c) == TimerIrq(c)

\* A trap that leaves the environments alone: sys_cputs, sys_cgetc,
\* sys_getenvid, the page calls, a spurious interrupt, and every call that
\* fails.
SysReturn(c) ==
    /\ Trapped(c)
    /\ TrapReturn(c, env_status, env_runs)
    /\ UNCHANGED env_vars

\* A breakpoint: trap_dispatch calls the monitor, which no command leaves.  The
\* CPU keeps the lock, and its environment stays RUNNING.
Breakpoint(c) ==
    /\ "breakpoint" \in Calls
    /\ Trapped(c)
    /\ pc' = [pc EXCEPT ![c] = "debug"]
    /\ UNCHANGED <<env_status, env_runs, env_vars, curenv, cpu_status, cr3, kernel_lock,
                   env_cpunum>>

\* A page fault, an unexpected trap or a bad pointer given to sys_cputs.
Fault(c) ==
    /\ "fault" \in Calls
    /\ Trapped(c)
    /\ DestroySelf(c)

SysEnvDestroy(c) ==
    /\ "destroy" \in Calls
    /\ Trapped(c)
    /\ \E id \in EnvIds :
        LET e == Envid2env(c, id, TRUE) IN
        /\ e # NULL
        /\ "destroy_zombie" \notin Calls => env_status[e] # "DYING"
        /\ \/ MarkDying(c, e)
           \/ DestroyOther(c, e)
           \/ e = curenv[c] /\ DestroySelf(c)

SysExofork(c) ==
    LET e == Head(env_free_list) IN
    /\ "exofork" \in Calls
    /\ Trapped(c)
    /\ EnvAlloc(env_id[curenv[c]])
    /\ TrapReturn(c, [env_status EXCEPT ![e] = "NOT_RUNNABLE"],
                     [env_runs EXCEPT ![e] = 0])

\* The callers' rule: change the status of yourself, or of a child that is
\* neither running, dying nor waiting for a message.
MaySetStatus(c, e) ==
    \/ e = curenv[c]
    \/ /\ env_status[e] \in {"RUNNABLE", "NOT_RUNNABLE"}
       /\ ~env_ipc_recving[e]

SysEnvSetStatus(c) ==
    /\ "set_status" \in Calls
    /\ Trapped(c)
    /\ \E id \in EnvIds, status \in {"RUNNABLE", "NOT_RUNNABLE"} :
        LET e == Envid2env(c, id, TRUE) IN
        /\ e # NULL
        /\ "set_status_any" \notin Calls => MaySetStatus(c, e)
        /\ TrapReturn(c, [env_status EXCEPT ![e] = status], env_runs)
    /\ UNCHANGED env_vars

\* Mutant: env_ipc_recving of the target is not checked.
SysIpcTrySendUnchecked(c) ==
    /\ "ipc" \in Calls
    /\ Trapped(c)
    /\ \E id \in EnvIds :
        LET e == Envid2env(c, id, FALSE) IN
        /\ e # NULL
        /\ env_ipc_recving' = [env_ipc_recving EXCEPT ![e] = FALSE]
        /\ TrapReturn(c, [env_status EXCEPT ![e] = "RUNNABLE"], env_runs)
    /\ UNCHANGED <<env_id, env_parent_id, env_free_list>>

SysIpcTrySend(c) ==
    /\ "ipc" \in Calls
    /\ Trapped(c)
    /\ \E id \in EnvIds :
        LET e == Envid2env(c, id, FALSE) IN
        /\ e # NULL
        /\ env_ipc_recving[e]
        /\ env_ipc_recving' = [env_ipc_recving EXCEPT ![e] = FALSE]
        /\ TrapReturn(c, [env_status EXCEPT ![e] = "RUNNABLE"], env_runs)
    /\ UNCHANGED <<env_id, env_parent_id, env_free_list>>

SysIpcRecv(c) ==
    /\ "ipc" \in Calls
    /\ Trapped(c)
    /\ env_ipc_recving' = [env_ipc_recving EXCEPT ![curenv[c]] = TRUE]
    /\ SchedYield(c, [env_status EXCEPT ![curenv[c]] = "NOT_RUNNABLE"],
                  env_runs, curenv[c], cr3[c])
    /\ UNCHANGED <<env_id, env_parent_id, env_free_list>>

\* The loops of monitor and of sched_halt around it: no command changes kernel
\* state or leaves the monitor.
MonitorLoop(c) == pc[c] \in {"monitor", "debug"} /\ UNCHANGED vars

-----------------------------------------------------------------------------
Handler(c) ==
    \/ EnvCreate(c) \/ BootDone(c) \/ IdleYield(c) \/ ReapZombie(c)
    \/ TimerIrq(c) \/ SysYield(c) \/ SysReturn(c) \/ Breakpoint(c) \/ Fault(c)
    \/ SysEnvDestroy(c) \/ SysExofork(c) \/ SysEnvSetStatus(c)
    \/ SysIpcTrySend(c) \/ SysIpcRecv(c)

Next ==
    \E c \in CPUs :
        \/ TrapFromUser(c) \/ TrapFromHalt(c) \/ LockKernel(c) \/ EnvPopTf(c)
        \/ Handler(c) \/ MonitorLoop(c)

Spec == Init /\ [][Next]_vars

\* Some CPU always takes a step, and a CPU that keeps entering the kernel is
\* interrupted by its periodic timer again and again.  Nothing says that a
\* given CPU ever wins the lock: spin_lock is a test-and-set loop.
FairSpec ==
    /\ Spec
    /\ WF_vars(Next)
    /\ \A c \in CPUs : SF_vars(TimerIrq(c))

-----------------------------------------------------------------------------
(* Properties.                                                              *)

\* The callers follow the two rules: they change the status of no child that
\* is running, dying or receiving, and destroy no child a second time.
Disciplined == "set_status_any" \notin Calls /\ "destroy_zombie" \notin Calls

\* Every variable has the type its declaration in env.h, cpu.h, env.c and
\* spinlock.h gives it.
TypeOK ==
    /\ env_status \in [Envs -> Statuses]
    /\ env_id \in [Envs -> EnvIds]
    /\ env_parent_id \in [Envs -> EnvIds]
    /\ env_runs \in [Envs -> {0, 1}]
    /\ env_ipc_recving \in [Envs -> BOOLEAN]
    /\ env_free_list \in Seq(Envs)
    /\ curenv \in [CPUs -> Envs \cup {NULL}]
    /\ cpu_status \in [CPUs -> {"STARTED", "HALTED"}]
    /\ cr3 \in [CPUs -> Envs \cup {NULL}]
    /\ pc \in [CPUs -> Places]
    /\ kernel_lock \in CPUs \cup {NULL}
    /\ env_cpunum \in [Envs -> CPUs]

\* A CPU works on kernel data exactly while it holds the big kernel lock:
\* trap() acquires it on every way in (from user mode, and out of hlt, which
\* it recognises by cpu_status alone) and env_run and sched_halt release it
\* on every way out but the monitor.
KernelExclusive ==
    \A c \in CPUs : (kernel_lock = c) <=> pc[c] \in Inside

\* No environment is the current one of two CPUs: sched_yield never picks an
\* environment that is running elsewhere (sched.c:26-27).
OneCpuPerEnv ==
    \A c, d \in CPUs : c # d /\ curenv[c] # NULL => curenv[c] # curenv[d]

\* An environment is RUNNING or DYING exactly while some CPU has it as its
\* current one, so env_destroy's test of env_status tells whether it can free
\* the environment at once or must leave it to that CPU.
StatusTracksCurenv ==
    \A e \in Envs :
        env_status[e] \in {"RUNNING", "DYING"}
            <=> \E c \in CPUs : curenv[c] = e /\ pc[c] # "monitor"

\* The page directory in a CPU's cr3 is the one of its current environment,
\* so env_free's test e == curenv finds every page directory in use: no CPU
\* translates through a freed one.
PgdirTracksCurenv ==
    \A c \in CPUs : cr3[c] = curenv[c]
                    /\ (cr3[c] # NULL => env_status[cr3[c]] # "FREE")

\* The list fl holds exactly the environments that st calls FREE, each once.
ListExact(fl, st) ==
    /\ \A i, j \in 1..Len(fl) : fl[i] = fl[j] => i = j
    /\ \A e \in Envs : st[e] = "FREE" <=> \E i \in 1..Len(fl) : fl[i] = e

\* env_free_list holds exactly the FREE environments, each once: no slot is
\* lost or handed out twice by env_alloc.
FreeListExact == ListExact(env_free_list, env_status)

\* An allocated environment that is marked as receiving is blocked, and has
\* run (it is not one env_alloc has just recycled): a message can only wake
\* an environment that waits for it.
ReceiverIsBlocked ==
    \A e \in Envs :
        env_ipc_recving[e] /\ env_status[e] # "FREE" =>
            env_status[e] = "NOT_RUNNABLE" /\ env_runs[e] = 1

\* None of the kernel's own checks fails: the assertion of env_run, the
\* holder checks of spin_lock and spin_unlock, and trap()'s assert(curenv).
NoPanic ==
    \A c \in CPUs : pc[c] # "panic" /\ (pc[c] \in {"user", "pop"} => curenv[c] # NULL)

\* A CPU stays in the monitor with the lock, and the machine stops, for two
\* reasons only: sched_halt found no CPU with an environment to return to
\* (sched.c:83-86), or the environment that runs here, still RUNNING whatever
\* others wait for a CPU, has hit a breakpoint (trap.c:221-223).
MonitorOnlyWhenIdleOrAsked ==
    /\ (\E c \in CPUs : pc[c] = "monitor") =>
        /\ \A e \in Envs : env_status[e] \in {"FREE", "NOT_RUNNABLE"}
        /\ \A c \in CPUs : pc[c] \in {"monitor", "halted", "spin"}
    /\ \A c \in CPUs : pc[c] = "debug" =>
        /\ curenv[c] # NULL /\ env_status[curenv[c]] = "RUNNING"
        /\ \A d \in CPUs \ {c} : pc[d] \in {"user", "pop", "halted", "spin"}

\* cpu_status tells trap() whether the CPU it runs on was halted, that is,
\* whether it left the kernel without an environment.
CpuStatusOK ==
    \A c \in CPUs :
        /\ cpu_status[c] = "HALTED" <=> pc[c] = "halted"
        /\ pc[c] \in {"halted", "boot"} => curenv[c] = NULL

\* A current environment has been through env_run since it was allocated.
CurenvHasRun ==
    \A e \in Envs : env_status[e] \in {"RUNNING", "DYING"} => env_runs[e] = 1

\* An environment in user mode finds in env_cpunum the CPU it runs on
\* (user/stresssched.c prints it), though env_pop_tf stores it unlocked.
CpunumIsCurrent == \A c \in CPUs : pc[c] = "user" => env_cpunum[curenv[c]] = c

\* The inductive invariant (module EnvSched_proofs): the safety properties
\* above hold each other up.
IInv ==
    /\ TypeOK
    /\ KernelExclusive
    /\ OneCpuPerEnv
    /\ StatusTracksCurenv
    /\ PgdirTracksCurenv
    /\ FreeListExact
    /\ ReceiverIsBlocked
    /\ NoPanic
    /\ MonitorOnlyWhenIdleOrAsked
    /\ CpuStatusOK
    /\ CurenvHasRun
    /\ CpunumIsCurrent

\* Lock, slots and flags agree at every step of every handler: a CPU is in
\* the kernel exactly while it holds the lock, also after hlt; the free list
\* holds the FREE slots, each once; a message wakes only what has run and
\* waits for one; and what is written without the lock is right all the same.
LockAndSlotsAgree ==
    /\ TypeOK
    /\ KernelExclusive
    /\ FreeListExact
    /\ ReceiverIsBlocked
    /\ CpuStatusOK
    /\ CurenvHasRun
    /\ CpunumIsCurrent

\* A child sys_exofork has created starts only when its parent says so,
\* whatever messages other environments send to its id meanwhile.
ChildStartedByParent ==
    [][\A e \in Envs :
        /\ env_status[e] = "NOT_RUNNABLE"
        /\ env_runs[e] = 0
        /\ env_status'[e] \notin {"NOT_RUNNABLE", "FREE"}
        => \E c \in CPUs : /\ kernel_lock = c
                           /\ env_parent_id[e] = env_id[curenv[c]]]_vars

\* A zombie stays one until the CPU that runs it traps and frees it
\* (env.c:487-489: "A zombie environment will be freed the next time it
\* traps to the kernel").
ZombieFreedByItsCpu ==
    [][\A e \in Envs :
        env_status[e] = "DYING" /\ env_status'[e] # "DYING" =>
            /\ env_status'[e] = "FREE"
            /\ \E c \in CPUs : kernel_lock = c /\ curenv[c] = e]_vars

\* An environment that waits for a CPU gets one (or is destroyed), unless some
\* environment hits a breakpoint: the monitor then keeps the machine for ever
\* (trap.c:221-223).  The round robin of sched_yield passes over nobody.
RunnableRuns ==
    \A e \in Envs :
        env_status[e] = "RUNNABLE" ~>
            env_status[e] # "RUNNABLE" \/ \E c \in CPUs : pc[c] = "debug"
=============================================================================
