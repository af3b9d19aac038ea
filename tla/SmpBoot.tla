------------------------------- MODULE SmpBoot ------------------------------
(***************************************************************************)
(* How the machine comes up: i386_init, boot_aps and mp_main of            *)
(* kern/init.c, the entry code kern/mpentry.S, mp_init of kern/mpconfig.c, *)
(* lapic_init and lapic_startap of kern/lapic.c, pic_init of kern/picirq.c,*)
(* trap_init_percpu of kern/trap.c and mmio_map_region of kern/pmap.c.     *)
(*                                                                         *)
(* Until a CPU takes the big kernel lock nothing but this protocol keeps   *)
(* the CPUs apart.  A CPU that has scheduled comes back to the lock at     *)
(* every trap, and those still in mp_main compete with it; what handlers   *)
(* do is in module EnvSched.  A CPU is named by its local APIC id, which   *)
(* the code takes to be its position in the MP configuration table.        *)
(***************************************************************************)
EXTENDS Integers, Sequences, FiniteSets

CONSTANTS
    NCPU,       \* the size of cpus[]
    NEnvs,      \* how many environments i386_init creates
    MmioPages,  \* the pages between MMIOBASE and MMIOLIM
    Machines    \* the machines to boot on, see MachineType

NULL == -1
MachineType ==
    [ebda : BOOLEAN, at : SUBSET {"ebda", "base", "rom"},      \* where an MP structure is
     fault : {"none", "default", "signature", "sum", "version", "xsum"},
     table : Seq({"boot", "proc", "bus", "unknown"})]          \* its entries

IsProc(entry) == entry \in {"boot", "proc"}
\* Positions among the processors of the table, from 0.
ApicId(t, i) == Cardinality({j \in 1..i-1 : IsProc(t[j])})
CpusOf(m) == {ApicId(m.table, i) : i \in {j \in 1..Len(m.table) : IsProc(m.table[j])}}
BspOf(m) == CHOOSE id \in CpusOf(m) :
                \E i \in 1..Len(m.table) : m.table[i] = "boot" /\ ApicId(m.table, i) = id

ASSUME SmpBootAssumption ==
    /\ NCPU \in Nat \ {0} /\ NEnvs \in Nat
    /\ \A m \in Machines :
        /\ m \in MachineType
        /\ Cardinality({i \in 1..Len(m.table) : m.table[i] = "boot"}) = 1
        /\ BspOf(m) < NCPU     \* cpus[] has an entry for it: see mpconfig.c:185
    /\ MmioPages \in Nat /\ MmioPages >= NCPU

Ids == UNION {CpusOf(m) : m \in Machines}

VARIABLES
    machine,
    pc,             \* where each CPU is
    mp,             \* what mp_init found: bootcpu, ncpu, ismp, lapicaddr
    started,        \* cpus[i].cpu_status # CPU_UNUSED
    mpentry_kstack, \* whose percpu_kstacks[] entry boot_aps has published
    next,           \* c - cpus in the loop of boot_aps
    esp,            \* the stack a CPU runs on: NULL is bootstack
    tss,            \* the TSS a CPU has loaded; its ts_esp0 is that CPU's stack
    base, reserved, \* the static of mmio_map_region, and a CPU's copy of it
    window,         \* window[v]: which CPUs have mapped their LAPIC at v
    lapic,          \* the global pointer, an MMIO page or NULL
    lint0,          \* the CPUs that take interrupts from the 8259A
    irq,            \* the 8259A: irq_mask_8259A, didinit and what it is told
    created,        \* environments created
    holder          \* the big kernel lock

found == <<machine, mp>>
boot == <<started, mpentry_kstack, next>>
percpu == <<esp, tss>>
mmio == <<base, reserved, window, lapic>>
chips == <<lint0, irq>>
kern == <<created, holder>>
vars == <<pc, found, boot, percpu, mmio, chips, kern>>

Bsp == BspOf(machine)
Present == CpusOf(machine)

\* cpunum: before lapic is set every CPU takes itself for number 0.
cpunum(c) == IF lapic = NULL THEN 0 ELSE c

-----------------------------------------------------------------------------
(* kern/mpconfig.c.                                                         *)

\* mpsearch: the EBDA or, when there is none, the end of base memory; then
\* the BIOS ROM.
MpSearch(m) == (IF m.ebda THEN "ebda" ELSE "base") \in m.at \/ "rom" \in m.at

\* mpconfig: a structure with every signature, checksum and version right.
MpConfig(m) == MpSearch(m) /\ m.fault = "none"

\* Mutant: processors are counted without a limit.
MpEntryNoLimit(r, entry) ==
    IF r.stop \/ entry = "bus" THEN r
    ELSE [bootcpu |-> IF entry = "boot" THEN r.ncpu ELSE r.bootcpu,
          ncpu |-> IF IsProc(entry) THEN r.ncpu + 1 ELSE r.ncpu,
          ismp |-> entry # "unknown", lapicaddr |-> r.lapicaddr, stop |-> entry = "unknown"]

\* One round of mp_init's loop over the table; `stop' is i = conf->entry.
MpEntry(r, entry) ==
    IF r.stop \/ entry = "bus" THEN r
    ELSE [bootcpu |-> IF entry = "boot" THEN r.ncpu ELSE r.bootcpu,
          ncpu |-> IF IsProc(entry) /\ r.ncpu < NCPU THEN r.ncpu + 1 ELSE r.ncpu,
          ismp |-> entry # "unknown", lapicaddr |-> r.lapicaddr, stop |-> entry = "unknown"]

NoMp == [bootcpu |-> 0, ncpu |-> 0, ismp |-> FALSE, lapicaddr |-> FALSE, stop |-> FALSE]

\* The loop, over the whole table.
MpScan(m) ==
    LET first == [bootcpu |-> 0, ncpu |-> 0, ismp |-> TRUE, lapicaddr |-> TRUE, stop |-> FALSE]
        after[i \in 0..Len(m.table)] ==
            IF i = 0 THEN first ELSE MpEntry(after[i - 1], m.table[i])
    IN after[Len(m.table)]

\* "Didn't like what we found; fall back to no MP."
NoSmp(r) == [bootcpu |-> r.bootcpu, ncpu |-> 1, ismp |-> FALSE, lapicaddr |-> FALSE,
             stop |-> r.stop]

MpInit(m) ==
    IF ~MpConfig(m) THEN NoMp
    ELSE IF ~MpScan(m).ismp THEN NoSmp(MpScan(m)) ELSE MpScan(m)

-----------------------------------------------------------------------------
\* cons_init, mem_init, env_init and trap_init are done: the 8259A's mask has
\* been set by kbd_init but not written out, and trap_init_percpu has run on
\* the boot CPU, before there is a LAPIC to ask for its number.
Init ==
    /\ machine \in Machines
    /\ pc = [c \in Ids |-> IF c = Bsp THEN "mp_init" ELSE "off"]
    /\ mp = NoMp
    /\ started = {}
    /\ mpentry_kstack = NULL
    /\ next = 0
    /\ esp = [c \in Ids |-> NULL]
    /\ tss = [c \in Ids |-> IF c = Bsp THEN 0 ELSE NULL]
    /\ base = 0 /\ reserved = [c \in Ids |-> NULL]
    /\ window = [v \in 0..MmioPages-1 |-> {}]
    /\ lapic = NULL
    /\ lint0 = {}
    /\ irq = [mask |-> "keyboard", didinit |-> FALSE, chip |-> "bios"]
    /\ created = 0
    /\ holder = NULL

Goto(c, label) == pc' = [pc EXCEPT ![c] = label]

\* mp_init; bootcpu->cpu_status = CPU_STARTED only once the table was read.
MpInitStep(c) ==
    /\ pc[c] = "mp_init"
    /\ mp' = MpInit(machine)
    /\ started' = IF MpConfig(machine) THEN {mp'.bootcpu} ELSE {}
    /\ Goto(c, "lapic_init")
    /\ UNCHANGED <<machine, mpentry_kstack, next, percpu, mmio, chips, kern>>

AfterLapic(c) == IF c = Bsp THEN "pic_init" ELSE "percpu"

\* lapic_init: nothing without a LAPIC; otherwise mmio_map_region reads its
\* static `base' (it would panic at MMIOLIM, which MmioPages keeps away) ...
LapicInit(c) ==
    /\ pc[c] = "lapic_init"
    /\ IF mp.lapicaddr THEN reserved' = [reserved EXCEPT ![c] = base] /\ Goto(c, "mmio")
                       ELSE UNCHANGED reserved /\ Goto(c, AfterLapic(c))
    /\ UNCHANGED <<found, boot, percpu, base, window, lapic, chips, kern>>

\* ... maps the page there and moves `base' on; then lapic is assigned.
MmioMap(c) ==
    /\ pc[c] = "mmio"
    /\ window' = [window EXCEPT ![reserved[c]] = @ \cup {c}]
    /\ base' = reserved[c] + 1
    /\ lapic' = reserved[c]
    /\ Goto(c, "registers")
    /\ UNCHANGED <<found, boot, percpu, reserved, chips, kern>>

\* Mutant: every CPU leaves its LINT0 open.
LapicRegistersAll(c) ==
    /\ pc[c] = "registers"
    /\ lint0' = lint0 \cup {c}
    /\ Goto(c, AfterLapic(c))
    /\ UNCHANGED <<found, boot, percpu, mmio, irq, kern>>

\* The rest of lapic_init, which programs this CPU's own LAPIC: LINT0 is left
\* open if thiscpu == bootcpu.
LapicRegisters(c) ==
    /\ pc[c] = "registers"
    /\ lint0' = IF cpunum(c) = mp.bootcpu THEN lint0 \cup {c} ELSE lint0
    /\ Goto(c, AfterLapic(c))
    /\ UNCHANGED <<found, boot, percpu, mmio, irq, kern>>

\* pic_init masks everything, programs both chips and ends by writing the
\* mask irq_setmask_8259A has kept.
PicInit(c) ==
    /\ pc[c] = "pic_init"
    /\ irq' = [mask |-> irq.mask, didinit |-> TRUE, chip |-> irq.mask]
    /\ Goto(c, "lock")
    /\ UNCHANGED <<found, boot, percpu, mmio, lint0, kern>>

\* lock_kernel, of i386_init, of mp_main or of trap.
LockKernel(c) ==
    /\ pc[c] \in {"lock", "trap"}
    /\ holder = NULL
    /\ holder' = c
    /\ Goto(c, IF pc[c] = "lock" /\ c = Bsp THEN "boot_aps" ELSE "sched")
    /\ UNCHANGED <<found, boot, percpu, mmio, chips, created>>

-----------------------------------------------------------------------------
(* boot_aps and lapic_startap, on the boot CPU.                             *)

\* Mutant: the loop ends one CPU early.
BootApsLoopShort(c) ==
    /\ pc[c] = "boot_aps"
    /\ \/ /\ next >= mp.ncpu - 1
          /\ Goto(c, "create") /\ UNCHANGED <<next, mpentry_kstack>>
       \/ /\ next < mp.ncpu - 1 /\ next = cpunum(c)
          /\ next' = next + 1 /\ UNCHANGED <<pc, mpentry_kstack>>
       \/ /\ next < mp.ncpu - 1 /\ next # cpunum(c)
          /\ mpentry_kstack' = next
          /\ Goto(c, "startap") /\ UNCHANGED next
    /\ UNCHANGED <<found, started, percpu, mmio, chips, kern>>

\* The head of the loop: the next CPU is the boot CPU or one to start.
BootApsLoop(c) ==
    /\ pc[c] = "boot_aps"
    /\ \/ /\ next >= mp.ncpu
          /\ Goto(c, "create") /\ UNCHANGED <<next, mpentry_kstack>>
       \/ /\ next < mp.ncpu /\ next = cpunum(c)
          /\ next' = next + 1 /\ UNCHANGED <<pc, mpentry_kstack>>
       \/ /\ next < mp.ncpu /\ next # cpunum(c)
          /\ mpentry_kstack' = next
          /\ Goto(c, "startap") /\ UNCHANGED next
    /\ UNCHANGED <<found, started, percpu, mmio, chips, kern>>

\* The INIT interrupt: it halts the CPU, whatever it was doing.
LapicStartap(c) ==
    /\ pc[c] = "startap"
    /\ pc' = [pc EXCEPT ![c] = "sipi1", ![next] = "halted"]
    /\ UNCHANGED <<found, boot, percpu, mmio, chips, kern>>

\* The two STARTUP interrupts, of which the hardware may miss the first.  A
\* CPU that is not halted ignores one.
Startup(c) ==
    /\ \/ /\ pc[c] = "sipi1"
          /\ \E target \in {"halted", "entry"} :
                pc' = [pc EXCEPT ![c] = "sipi2", ![next] = target]
       \/ /\ pc[c] = "sipi2"
          /\ pc' = [pc EXCEPT ![c] = "wait", ![next] = IF @ = "halted" THEN "entry" ELSE @]
    /\ UNCHANGED <<found, boot, percpu, mmio, chips, kern>>

\* Mutant: the boot CPU goes on as soon as it has sent the interrupts.
BootApsNoWait(c) ==
    /\ pc[c] = "wait"
    /\ next' = next + 1
    /\ Goto(c, "boot_aps")
    /\ UNCHANGED <<found, started, mpentry_kstack, percpu, mmio, chips, kern>>

\* while(c->cpu_status != CPU_STARTED)
BootApsWait(c) ==
    /\ pc[c] = "wait"
    /\ next \in started
    /\ next' = next + 1
    /\ Goto(c, "boot_aps")
    /\ UNCHANGED <<found, started, mpentry_kstack, percpu, mmio, chips, kern>>

\* ENV_CREATE, then sched_yield.
EnvCreate(c) ==
    /\ pc[c] = "create"
    /\ IF created < NEnvs THEN created' = created + 1 /\ UNCHANGED pc
                          ELSE Goto(c, "sched") /\ UNCHANGED created
    /\ UNCHANGED <<found, boot, percpu, mmio, chips, holder>>

\* env_run or sched_halt: the CPU leaves the kernel.
LeaveKernel(c) ==
    /\ pc[c] = "sched"
    /\ holder' = NULL
    /\ Goto(c, "out")
    /\ UNCHANGED <<found, boot, percpu, mmio, chips, created>>

\* A CPU that has scheduled traps, from user mode or out of hlt, and wants the
\* lock again.
Trap(c) ==
    /\ pc[c] = "out"
    /\ Goto(c, "trap")
    /\ UNCHANGED <<found, boot, percpu, mmio, chips, kern>>

\* The monitor, of an idle machine or of a breakpoint, which never gives the lock
\* back.  When that happens depends on the environments, so here it always may.
Monitor(c) ==
    /\ pc[c] \in {"sched", "monitor"}
    /\ Goto(c, "monitor")
    /\ UNCHANGED <<found, boot, percpu, mmio, chips, kern>>

-----------------------------------------------------------------------------
(* mpentry.S and mp_main, on an application processor.                      *)

\* movl mpentry_kstack, %esp, then mp_main and lcr3.
MpEntryCode(c) ==
    /\ pc[c] = "entry"
    /\ esp' = [esp EXCEPT ![c] = mpentry_kstack]
    /\ Goto(c, "lapic_init")
    /\ UNCHANGED <<found, boot, tss, mmio, chips, kern>>

\* Mutant: the TSS of the boot CPU for everyone.
TrapInitPercpuShared(c) ==
    /\ pc[c] = "percpu"
    /\ tss' = [tss EXCEPT ![c] = mp.bootcpu]
    /\ Goto(c, "started")
    /\ UNCHANGED <<found, boot, esp, mmio, chips, kern>>

\* env_init_percpu and trap_init_percpu.
TrapInitPercpu(c) ==
    /\ pc[c] = "percpu"
    /\ tss' = [tss EXCEPT ![c] = cpunum(c)]
    /\ Goto(c, "started")
    /\ UNCHANGED <<found, boot, esp, mmio, chips, kern>>

\* xchg(&thiscpu->cpu_status, CPU_STARTED)
Started(c) ==
    /\ pc[c] = "started"
    /\ started' = started \cup {cpunum(c)}
    /\ Goto(c, "lock")
    /\ UNCHANGED <<found, mpentry_kstack, next, percpu, mmio, chips, kern>>

Step(c) ==
    \/ MpInitStep(c) \/ LapicInit(c) \/ MmioMap(c) \/ LapicRegisters(c) \/ PicInit(c)
    \/ LockKernel(c)
    \/ BootApsLoop(c) \/ LapicStartap(c) \/ Startup(c) \/ BootApsWait(c) \/ EnvCreate(c)
    \/ LeaveKernel(c) \/ Trap(c) \/ Monitor(c) \/ MpEntryCode(c) \/ TrapInitPercpu(c) \/ Started(c)

Next == \E c \in Ids : Step(c)

\* Every CPU that has been started runs.  This does not let a CPU that waits for
\* the lock get it while others take it again and again: xchg favours nobody.
Fairness == \A c \in Ids : WF_vars(Step(c))

Spec == Init /\ [][Next]_vars /\ Fairness

-----------------------------------------------------------------------------
(* Properties.                                                              *)

\* Past the first sched_yield: in the kernel, out of it, back at its lock, or in
\* the monitor for good.
Scheduling == {"sched", "out", "trap", "monitor"}

Pcs == Scheduling \cup {"off", "halted", "entry", "mp_init", "lapic_init", "mmio", "registers", "pic_init",
        "lock", "boot_aps", "startap", "sipi1", "sipi2", "wait", "create", "percpu",
        "started"}

\* The types of the variables: cpus[], percpu_kstacks[] and the GDT are only
\* indexed below NCPU, however many processors follow the boot processor in the
\* table.  With NCPU of them before it mp_init points bootcpu past cpus[]
\* (mpconfig.c:185); SmpBootAssumption leaves those tables out.
TypeOK ==
    /\ machine \in Machines
    /\ pc \in [Ids -> Pcs]
    /\ mp \in [bootcpu : 0..NCPU-1, ncpu : 0..NCPU, ismp : BOOLEAN, lapicaddr : BOOLEAN,
               stop : BOOLEAN]
    /\ started \subseteq 0..NCPU-1
    /\ mpentry_kstack \in -1..NCPU-1 /\ next \in 0..NCPU
    /\ esp \in [Ids -> -1..NCPU-1] /\ tss \in [Ids -> -1..NCPU-1]
    /\ base \in 0..MmioPages /\ reserved \in [Ids -> -1..MmioPages-1]
    /\ window \in [0..MmioPages-1 -> SUBSET Ids] /\ lapic \in -1..MmioPages-1
    /\ lint0 \subseteq Ids /\ irq.didinit \in BOOLEAN
    /\ created \in 0..NEnvs /\ holder \in Ids \cup {NULL}

\* CPUs that execute C code of the kernel, on a stack of their own.
InC == {c \in Present : pc[c] \notin {"off", "halted", "entry"}}

\* No two CPUs ever run on one boot stack, though all of them read it from
\* one variable that boot_aps overwrites.
BootStacksPrivate == \A c, d \in InC : c # d => esp[c] # esp[d]

\* "each CPU has its own kernel stack" (trap.c): no two CPUs have loaded the
\* same TSS, so no two take their traps on one stack.
TrapStacksPrivate ==
    \A c, d \in Present : c # d /\ tss[c] # NULL => tss[c] # tss[d]

\* Every CPU has stacks of its own: the one boot_aps starts it on and the one
\* it takes traps on.
StacksPrivate == BootStacksPrivate /\ TrapStacksPrivate

\* Set-up code writes state that no lock protects (the console, kern_pgdir,
\* the static of mmio_map_region, lapic, the GDT): at any time only one CPU
\* is in it, and the boot CPU is then waiting or has yet to send the second
\* STARTUP; no CPU is in the scheduler.
OneInSetup ==
    LET setup == {c \in Present :
                     pc[c] \in {"mp_init", "lapic_init", "mmio", "registers", "pic_init",
                                "percpu", "started"}}
    IN /\ Cardinality(setup) <= 1
       /\ setup \notin {{}, {Bsp}} => pc[Bsp] \in {"sipi2", "wait"}

\* Every CPU maps its LAPIC in a window of its own and the shared pointer
\* always points to a window that is mapped.
WindowsDisjoint ==
    /\ \A v \in 0..MmioPages-1 : Cardinality(window[v]) <= 1
    /\ lapic # NULL => window[lapic] # {}

\* What the CPUs set up without a lock is set up by one at a time, and they
\* do not end up in one another's device windows.
SetupExclusive == OneInSetup /\ WindowsDisjoint

\* The scheduler is first entered when every CPU that was found is up and
\* all environments exist; the 8259A, programmed with the mask chosen before
\* it was initialised, then interrupts the boot CPU and no other.
SchedAfterBoot ==
    \A c \in Present : pc[c] \in Scheduling =>
        /\ created = NEnvs
        /\ mp.ismp => /\ started = 0..mp.ncpu-1
                      /\ lint0 = {Bsp}
        /\ irq.chip = irq.mask

\* The boot CPU gets into the scheduler, also when the table has more processors
\* than cpus[] or is of no use, and every CPU mp_init counted gets as far as the
\* lock in mp_main: nobody waits for a CPU that does not answer.  Past that point
\* spinlock.c:71 promises nothing: a CPU may lose every race to those that trap.
EveryCpuComesUp ==
    <>[](\A c \in Present :
            /\ c = Bsp => pc[c] \in Scheduling
            /\ mp.ismp /\ c < mp.ncpu => pc[c] \in Scheduling \cup {"lock"})
=============================================================================
