--------------------------- MODULE SmpBoot_proofs ---------------------------
(***************************************************************************)
(* Proofs about module SmpBoot, for any number of CPUs and any tables in   *)
(* which the boot CPU is the first processor listed.  The code needs that: *)
(* trap_init_percpu runs on the boot CPU before lapic is set, so it takes  *)
(* the TSS of CPU 0.                                                       *)
(***************************************************************************)
EXTENDS SmpBoot, FiniteSetTheorems, WellFoundedInduction, TLAPS

BootCpuFirst ==
    \A m \in Machines : \A i \in 1..Len(m.table) :
        m.table[i] = "boot" => ApicId(m.table, i) = 0

-----------------------------------------------------------------------------
(* The inductive invariant.  The boot CPU is CPU 0.                         *)

\* What mp_init found: processors 0..ncpu-1 exist, and there is more than
\* one, and a LAPIC, only on a machine whose table was understood.
Found(m, r) ==
    /\ r \in [bootcpu : {0}, ncpu : 0..NCPU, ismp : BOOLEAN, lapicaddr : BOOLEAN, stop : BOOLEAN]
    /\ r.lapicaddr <=> r.ismp
    /\ r.ncpu > 1 => r.ismp
    /\ r.ismp => r.ncpu > 0
    /\ \A id \in 0..r.ncpu-1 : id \in CpusOf(m)

Early == {"mp_init", "lapic_init", "mmio", "registers", "pic_init", "lock"}
Starting == {"startap", "sipi1", "sipi2", "wait"}
BspPcs == Early \cup Starting \cup {"boot_aps", "create", "sched", "out", "trap", "monitor"}
Setup == {"lapic_init", "mmio", "registers", "percpu", "started"}
ApPcs == Setup \cup {"off", "halted", "entry", "lock", "sched", "out", "trap", "monitor"}
PreMap == {"mp_init", "lapic_init", "mmio"}
Mapped == {"registers", "percpu", "started", "lock"}

BootTypes ==
    /\ machine \in Machines
    /\ Found(machine, mp)
    /\ pc \in [Ids -> Pcs]
    /\ started \subseteq 0..NCPU-1
    /\ mpentry_kstack \in -1..NCPU-1
    /\ esp \in [Ids -> -1..NCPU-1] /\ tss \in [Ids -> -1..NCPU-1]
    /\ reserved \in [Ids -> -1..MmioPages-1]
    /\ window \in [0..MmioPages-1 -> SUBSET Ids] /\ lapic \in -1..MmioPages-1
    /\ lint0 \subseteq Ids
    /\ irq \in [mask : {"keyboard"}, didinit : BOOLEAN, chip : {"bios", "keyboard"}]
    /\ created \in 0..NEnvs /\ holder \in Ids \cup {NULL}

\* Where the CPUs are: one that the loop of boot_aps has passed is up, the
\* one it is at is being started, the others are off.
Progress ==
    /\ pc[0] \in BspPcs
    /\ next \in 0..mp.ncpu
    /\ pc[0] \in Early => next = 0
    /\ pc[0] \in Starting => 0 < next /\ next < mp.ncpu /\ mpentry_kstack = next
    /\ pc[0] \in {"create", "sched", "out", "trap", "monitor"} => next = mp.ncpu
    /\ \A c \in Ids \ {0} :
        /\ pc[c] \in ApPcs
        /\ c > next => pc[c] = "off"
        /\ c < next => pc[c] \in {"lock", "sched", "out", "trap", "monitor"}
        /\ c = next => /\ pc[0] \notin {"sipi1", "sipi2", "wait"} => pc[c] = "off"
                       /\ pc[0] = "sipi1" => pc[c] = "halted"
                       /\ pc[0] = "sipi2" => pc[c] \in Setup \cup {"halted", "entry", "lock"}
                       /\ pc[0] = "wait" => pc[c] \in Setup \cup {"entry", "lock"}

\* The big kernel lock; no application processor has it before the boot CPU
\* has given it up.
LockInv ==
    /\ \A c \in Ids : c = holder <=> pc[c] \in Starting \cup {"boot_aps", "create", "sched", "monitor"}
    /\ \A c \in Ids \ {0} : pc[c] \in {"sched", "out", "trap", "monitor"} => pc[0] \in Scheduling

\* Stacks, TSSs, and the CPUs that say they are up.
PercpuInv ==
    /\ esp[0] = NULL /\ tss[0] = 0
    /\ \A c \in Ids \ {0} : /\ pc[c] \notin {"off", "halted", "entry"} => esp[c] = c
                            /\ tss[c] \in {NULL, c}
    /\ pc[0] # "mp_init" /\ mp.ismp =>
        \A c \in 0..NCPU-1 :
            c \in started <=> \/ c = 0 \/ c < next
                              \/ c = next /\ pc[0] \in {"sipi2", "wait"} /\ pc[c] = "lock"

\* mmio_map_region's static has been moved on once by every CPU that has come
\* past it, and the pages from there on are unused.
MmioInv ==
    /\ base \in Nat
    /\ \/ base <= next
       \/ next = 0 /\ base = 1 /\ pc[0] \notin PreMap
       \/ base = next + 1 /\ pc[0] \in {"sipi2", "wait"} /\ pc[next] \in Mapped
    /\ \A c \in Ids : pc[c] = "mmio" => reserved[c] = base
    /\ \A v \in 0..MmioPages-1 : v >= base => window[v] = {}
    /\ \A v \in 0..MmioPages-1 : \A c, d \in window[v] : c = d
    /\ lapic # NULL => lapic < base /\ window[lapic] # {}
    /\ mp.ismp /\ pc[0] \notin PreMap => lapic # NULL

\* The interrupt controllers and the environments.
ChipInv ==
    /\ lint0 = IF mp.ismp /\ pc[0] \notin PreMap \cup {"registers"} THEN {0} ELSE {}
    /\ pc[0] \in {"mmio", "registers"} => mp.ismp
    /\ pc[0] \notin PreMap \cup {"registers", "pic_init"} => irq.chip = irq.mask
    /\ pc[0] \in {"sched", "out", "trap", "monitor"} => created = NEnvs

IInv == BootTypes /\ Progress /\ LockInv /\ PercpuInv /\ MmioInv /\ ChipInv

-----------------------------------------------------------------------------
(* What mp_init finds.                                                      *)

Entries == {"boot", "proc", "bus", "unknown"}

\* A table is a sequence of entries.
LEMMA TableType ==
    ASSUME NEW m \in Machines
    PROVE  /\ m.table \in Seq(Entries) /\ Len(m.table) \in Nat
           /\ \A i \in 1..Len(m.table) : m.table[i] \in Entries
           /\ \E i \in 1..Len(m.table) : m.table[i] = "boot"
<1>1. m \in MachineType /\ Cardinality({i \in 1..Len(m.table) : m.table[i] = "boot"}) = 1
  BY SmpBootAssumption, Zenon
<1>2. m.table \in Seq(Entries)
  BY <1>1 DEF MachineType, Entries
<1>3. PICK S : S = {i \in 1..Len(m.table) : m.table[i] = "boot"}
  OBVIOUS
<1>4. S # {}
  <2>1. Cardinality(S) = 1
    BY <1>1, <1>3
  <2> QED BY <2>1, FS_EmptySet
<1>5. \E i \in 1..Len(m.table) : m.table[i] = "boot"
  BY <1>3, <1>4
<1> QED BY <1>2, <1>5

\* The number of a processor is the number of processors listed before it.
LEMMA ApicIdNext ==
    ASSUME NEW t, NEW i \in Nat
    PROVE  /\ ApicId(t, i + 1) \in Nat
           /\ ApicId(t, 1) = 0
           /\ IsProc(t[i + 1]) => ApicId(t, i + 2) = ApicId(t, i + 1) + 1
           /\ ~IsProc(t[i + 1]) => ApicId(t, i + 2) = ApicId(t, i + 1)
<1> DEFINE P(k) == {j \in 1..k : IsProc(t[j])}
<1>1. ASSUME NEW k \in Nat PROVE IsFiniteSet(P(k)) /\ Cardinality(P(k)) \in Nat
  <2>1. IsFiniteSet(1..k)
    BY FS_Interval
  <2>2. P(k) \in SUBSET (1..k)
    OBVIOUS
  <2>3. IsFiniteSet(P(k))
    BY <2>1, <2>2, FS_Subset
  <2> QED BY <2>3, FS_CardinalityType
<1>2. ApicId(t, i + 1) = Cardinality(P(i)) /\ ApicId(t, i + 2) = Cardinality(P(i + 1))
  <2>1. (i + 1) - 1 = i /\ (i + 2) - 1 = i + 1
    OBVIOUS
  <2> QED BY <2>1 DEF ApicId
<1>3. ApicId(t, 1) = 0
  <2>1. {j \in 1..1-1 : IsProc(t[j])} = {}
    OBVIOUS
  <2> QED BY <2>1, FS_EmptySet DEF ApicId
<1>4. CASE IsProc(t[i + 1])
  <2>1. P(i + 1) = P(i) \cup {i + 1} /\ i + 1 \notin P(i)
    BY <1>4
  <2>2. Cardinality(P(i + 1)) = Cardinality(P(i)) + 1
    BY <1>1, <2>1, FS_AddElement
  <2> QED BY <1>1, <1>2, <1>3, <1>4, <2>2
<1>5. CASE ~IsProc(t[i + 1])
  <2>1. P(i + 1) = P(i)
    BY <1>5
  <2> QED BY <1>1, <1>2, <1>3, <1>5, <2>1
<1> QED BY <1>4, <1>5

\* A table lists at least one processor, the boot CPU.
LEMMA SomeProcessor ==
    ASSUME NEW m \in Machines
    PROVE  ApicId(m.table, Len(m.table) + 1) \in Nat /\ ApicId(m.table, Len(m.table) + 1) > 0
<1>1. PICK N \in Nat : N = Len(m.table)
  BY TableType
<1>2. PICK P : P = {j \in 1..N : IsProc(m.table[j])}
  OBVIOUS
<1>3. P # {} /\ P \subseteq 1..N
  BY <1>1, <1>2, TableType DEF IsProc
<1>4. IsFiniteSet(P)
  <2>1. IsFiniteSet(1..N)
    BY FS_Interval
  <2> QED BY <1>3, <2>1, FS_Subset
<1>5. Cardinality(P) \in Nat /\ Cardinality(P) > 0
  BY <1>3, <1>4, FS_CardinalityType, FS_EmptySet
<1>6. ApicId(m.table, Len(m.table) + 1) = Cardinality(P)
  <2>1. (N + 1) - 1 = N
    OBVIOUS
  <2> QED BY <1>1, <1>2, <2>1 DEF ApicId
<1> QED BY <1>5, <1>6

\* The boot CPU is number 0 and the numbers are naturals.
LEMMA BspIsZero ==
    ASSUME BootCpuFirst, NEW m \in Machines
    PROVE  /\ BspOf(m) = 0 /\ 0 \in CpusOf(m)
           /\ CpusOf(m) \subseteq Ids /\ CpusOf(m) \subseteq Nat
<1>1. PICK i \in 1..Len(m.table) : m.table[i] = "boot"
  BY TableType
<1>2. ApicId(m.table, i) = 0 /\ IsProc(m.table[i])
  BY <1>1 DEF BootCpuFirst, IsProc
<1>3. 0 \in CpusOf(m)
  BY <1>2 DEF CpusOf
<1>4. BspOf(m) = 0
  BY <1>1, <1>2, <1>3 DEF BspOf, BootCpuFirst
<1>5. CpusOf(m) \subseteq Ids
  BY DEF Ids
<1>6. CpusOf(m) \subseteq Nat
  <2> SUFFICES ASSUME NEW j \in 1..Len(m.table) PROVE ApicId(m.table, j) \in Nat
    BY DEF CpusOf
  <2>1. j - 1 \in Nat /\ (j - 1) + 1 = j
    BY TableType
  <2> QED BY <2>1, ApicIdNext
<1> QED BY <1>3, <1>4, <1>5, <1>6

\* The records mp_init's loop works on.
Scans == [bootcpu : Nat, ncpu : Nat, ismp : BOOLEAN, lapicaddr : BOOLEAN, stop : BOOLEAN]

FirstScan == [bootcpu |-> 0, ncpu |-> 0, ismp |-> TRUE, lapicaddr |-> TRUE, stop |-> FALSE]

\* What one round of the loop does.
LEMMA MpEntryIs ==
    ASSUME NEW r \in Scans, NEW entry, NEW q, q = MpEntry(r, entry)
    PROVE  /\ q \in Scans
           /\ r.stop \/ entry = "bus" => q = r
           /\ ~r.stop /\ entry # "bus" =>
               /\ entry = "boot" => q.bootcpu = r.ncpu
               /\ entry # "boot" => q.bootcpu = r.bootcpu
               /\ IsProc(entry) /\ r.ncpu < NCPU => q.ncpu = r.ncpu + 1
               /\ ~(IsProc(entry) /\ r.ncpu < NCPU) => q.ncpu = r.ncpu
               /\ q.ismp <=> entry # "unknown"
               /\ q.stop <=> entry = "unknown"
               /\ q.lapicaddr <=> r.lapicaddr
<1>1. NCPU \in Nat
  BY SmpBootAssumption
<1>2. CASE r.stop \/ entry = "bus"
  <2>1. q = r
    BY <1>2, Zenon DEF MpEntry
  <2> QED BY <1>2, <2>1
<1>3. CASE ~(r.stop \/ entry = "bus")
  <2>1. PICK b : b = IF entry = "boot" THEN r.ncpu ELSE r.bootcpu
    OBVIOUS
  <2>2. PICK k : k = IF IsProc(entry) /\ r.ncpu < NCPU THEN r.ncpu + 1 ELSE r.ncpu
    OBVIOUS
  <2>3. PICK l : l = r.lapicaddr
    OBVIOUS
  <2>0. PICK s, t : s = (entry # "unknown") /\ t = (entry = "unknown")
    OBVIOUS
  <2>4. q = [bootcpu |-> b, ncpu |-> k, ismp |-> s, lapicaddr |-> l, stop |-> t]
    BY <1>3, <2>0, <2>1, <2>2, <2>3, Zenon DEF MpEntry
  <2>5. b \in Nat /\ k \in Nat /\ l \in BOOLEAN
    <3>1. r.ncpu \in Nat /\ r.bootcpu \in Nat /\ r.lapicaddr \in BOOLEAN
      BY DEF Scans
    <3> QED BY <2>1, <2>2, <2>3, <3>1
  <2>6. q.bootcpu = b /\ q.ncpu = k /\ q.lapicaddr = l
    BY <2>4
  <2>7. q.ismp = s /\ q.stop = t /\ s \in BOOLEAN /\ t \in BOOLEAN
    BY <2>0, <2>4
  <2>8. q \in Scans
    BY <2>4, <2>5, <2>7 DEF Scans
  <2> QED BY <1>3, <2>0, <2>1, <2>2, <2>3, <2>6, <2>7, <2>8
<1> QED BY <1>2, <1>3

\* After i entries of m's table: the first ones are counted, up to NCPU.
Scanned(m, i, r) ==
    /\ r \in Scans
    /\ r.bootcpu = 0 /\ r.ncpu <= NCPU /\ r.lapicaddr /\ (r.stop <=> ~r.ismp)
    /\ ~r.stop => \/ r.ncpu = ApicId(m.table, i + 1)
                  \/ (r.ncpu = NCPU /\ ApicId(m.table, i + 1) >= NCPU)
    /\ \A id \in 0..r.ncpu-1 : id \in CpusOf(m)

\* Before the first entry.
LEMMA ScanStarts ==
    ASSUME NEW m \in Machines PROVE Scanned(m, 0, FirstScan)
<1>1. NCPU \in Nat /\ ApicId(m.table, 0 + 1) = 0
  BY SmpBootAssumption, ApicIdNext
<1> QED BY <1>1 DEF Scanned, FirstScan, Scans

\* One entry more.
LEMMA ScanRound ==
    ASSUME BootCpuFirst, NEW m \in Machines, NEW i \in 0..Len(m.table)-1, NEW r, Scanned(m, i, r),
           NEW q, q = MpEntry(r, m.table[i + 1])
    PROVE  Scanned(m, i + 1, q)
<1>1. PICK entry \in Entries : entry = m.table[i + 1]
  BY TableType
<1>2. PICK n : n = ApicId(m.table, i + 1)
  OBVIOUS
<1>3. PICK k : k = ApicId(m.table, i + 2)
  OBVIOUS
<1>4. n \in Nat /\ (IsProc(entry) => k = n + 1) /\ (~IsProc(entry) => k = n) /\ i \in Nat
  BY <1>1, <1>2, <1>3, ApicIdNext, TableType
<1>5. /\ q \in Scans
      /\ r.stop \/ entry = "bus" => q = r
      /\ ~r.stop /\ entry # "bus" =>
          /\ entry = "boot" => q.bootcpu = r.ncpu
          /\ entry # "boot" => q.bootcpu = r.bootcpu
          /\ IsProc(entry) /\ r.ncpu < NCPU => q.ncpu = r.ncpu + 1
          /\ ~(IsProc(entry) /\ r.ncpu < NCPU) => q.ncpu = r.ncpu
          /\ q.ismp <=> entry # "unknown"
          /\ q.stop <=> entry = "unknown"
          /\ q.lapicaddr <=> r.lapicaddr
  <2>1. r \in Scans /\ q = MpEntry(r, entry)
    BY <1>1 DEF Scanned
  <2> QED BY <2>1, MpEntryIs
<1>6. /\ r \in Scans /\ r.bootcpu = 0 /\ r.ncpu <= NCPU /\ r.lapicaddr /\ (r.stop <=> ~r.ismp)
      /\ ~r.stop => r.ncpu = n \/ (r.ncpu = NCPU /\ n >= NCPU)
      /\ \A id \in 0..r.ncpu-1 : id \in CpusOf(m)
  BY <1>2 DEF Scanned
<1>7. (i + 1) + 1 = i + 2 /\ i + 1 \in 1..Len(m.table)
  BY TableType
<1>8. r.ncpu \in Nat /\ r.bootcpu \in Nat /\ NCPU \in Nat /\ NCPU > 0
  BY <1>6, SmpBootAssumption DEF Scans
<1>9. entry = "boot" => n = 0
  BY <1>1, <1>2, <1>7 DEF BootCpuFirst
<1>10. IsProc(entry) => n \in CpusOf(m)
  BY <1>1, <1>2, <1>7 DEF CpusOf
<1>11. CASE r.stop \/ entry = "bus"
  <2>1. q = r /\ (~r.stop => k = n)
    BY <1>4, <1>5, <1>11 DEF IsProc
  <2> QED BY <1>3, <1>6, <1>7, <2>1 DEF Scanned
<1>12. CASE ~r.stop /\ entry # "bus"
  <2>1. q.bootcpu = 0
    BY <1>5, <1>6, <1>8, <1>9, <1>12
  <2>2. q.ncpu <= NCPU
    BY <1>5, <1>6, <1>8, <1>12
  <2>3. q.ncpu = k \/ (q.ncpu = NCPU /\ k >= NCPU) \/ q.stop
    BY <1>1, <1>4, <1>5, <1>6, <1>8, <1>12 DEF IsProc, Entries
  <2>4. q.lapicaddr /\ (q.stop <=> ~q.ismp)
    BY <1>5, <1>6, <1>12
  <2>5. \A id \in 0..q.ncpu-1 : id \in CpusOf(m)
    BY <1>4, <1>5, <1>6, <1>8, <1>10, <1>12
  <2> QED BY <1>3, <1>5, <1>7, <2>1, <2>2, <2>3, <2>4, <2>5 DEF Scanned
<1> QED BY <1>11, <1>12

\* The loop as a function of the number of entries read.
Rounds(m, f) ==
    f = [i \in 0..Len(m.table) |-> IF i = 0 THEN FirstScan ELSE MpEntry(f[i - 1], m.table[i])]

\* Induction over the natural numbers, for a set: the provers cannot use the
\* library's rules, which take a predicate.
LEMMA SetInduction ==
    ASSUME NEW S, 0 \in S, \A n \in Nat : n \in S => n + 1 \in S
    PROVE  Nat \subseteq S
<1> DEFINE T == {n \in Nat : n \notin S}
           Less == {x \in Nat \X Nat : x[1] < x[2]}
<1>1. IsWellFoundedOn(Less, Nat)
  <2>1. IsWellFoundedOn(OpToRel(<, Nat), Nat)
    BY NatLessThanWellFounded
  <2>2. OpToRel(<, Nat) = Less
    BY Z3 DEF OpToRel
  <2> QED BY <2>1, <2>2
<1> SUFFICES ASSUME T # {} PROVE FALSE
  OBVIOUS
<1>2. PICK x \in T : \A y \in T : ~(<<y, x>> \in Less)
  <2> HIDE DEF Less
  <2>1. T \subseteq Nat
    OBVIOUS
  <2> HIDE DEF T
  <2> QED BY <1>1, <2>1, WFMin
<1>3. x # 0
  OBVIOUS
<1>4. x - 1 \in Nat /\ <<x - 1, x>> \in Less
  BY <1>3
<1>5. x - 1 \in S
  BY <1>2, <1>4
<1> QED BY <1>4, <1>5

\* mp_init's loop has a run.
LEMMA RoundsExist ==
    ASSUME NEW m, Len(m.table) \in Nat PROVE \E f : Rounds(m, f)
<1>1. PICK N \in Nat : N = Len(m.table)
  OBVIOUS
<1> DEFINE Run(n, f) == f[0] = FirstScan /\ \A k \in 0..n-1 : f[k+1] = MpEntry(f[k], m.table[k+1])
           D == {n \in Nat : n <= N => \E f \in [0..n -> Scans] : Run(n, f)}
<1>2. 0 \in D
  <2>1. FirstScan \in Scans
    BY DEF FirstScan, Scans
  <2>2. PICK s0 \in Scans : s0 = FirstScan
    BY <2>1
  <2>3. [k \in 0..0 |-> s0] \in [0..0 -> Scans] /\ Run(0, [k \in 0..0 |-> s0])
    BY <2>2
  <2> QED BY <2>3
<1>3. ASSUME NEW n \in Nat, n \in D PROVE n + 1 \in D
  <2>0. n + 1 \in Nat
    OBVIOUS
  <2> SUFFICES ASSUME n + 1 <= N PROVE \E g \in [0..n+1 -> Scans] : Run(n + 1, g)
    BY <2>0, Zenon
  <2>1. PICK f \in [0..n -> Scans] : Run(n, f)
    BY <1>3
  <2>2. PICK s : s = MpEntry(f[n], m.table[n+1])
    OBVIOUS
  <2>3. s \in Scans
    <3>1. f[n] \in Scans
      OBVIOUS
    <3> QED BY <2>2, <3>1, MpEntryIs
  <2> DEFINE g == [k \in 0..n+1 |-> IF k = n + 1 THEN s ELSE f[k]]
  <2>4. g \in [0..n+1 -> Scans]
    BY <2>3
  <2>5. g[0] = FirstScan
    BY <2>1
  <2>6. ASSUME NEW k \in 0..(n+1)-1 PROVE g[k+1] = MpEntry(g[k], m.table[k+1])
    <3>1. CASE k = n
      <4>1. g[n+1] = s /\ g[n] = f[n]
        OBVIOUS
      <4> HIDE DEF g
      <4> QED BY <2>2, <3>1, <4>1
    <3>2. CASE k # n
      <4>1. k \in 0..n-1 /\ k + 1 \in 0..n /\ k + 1 # n + 1 /\ k # n + 1
        BY <3>2
      <4>2. g[k+1] = f[k+1] /\ g[k] = f[k]
        BY <4>1
      <4>3. f[k+1] = MpEntry(f[k], m.table[k+1])
        BY <2>1, <4>1
      <4> HIDE DEF g
      <4> QED BY <4>2, <4>3
    <3> QED BY <3>1, <3>2
  <2>7. Run(n + 1, g)
    <3> HIDE DEF g
    <3> QED BY <2>5, <2>6
  <2> QED BY <2>4, <2>7
<1>4. PICK f \in [0..N -> Scans] : Run(N, f)
  <2>1. N \in D
    <3> HIDE DEF D
    <3> QED BY <1>2, <1>3, SetInduction
  <2> QED BY <2>1
<1>5. ASSUME NEW i \in 0..N
      PROVE  f[i] = IF i = 0 THEN FirstScan ELSE MpEntry(f[i - 1], m.table[i])
  <2>1. CASE i = 0
    BY <1>4, <2>1
  <2>2. CASE i # 0
    <3>1. i - 1 \in 0..N-1 /\ (i - 1) + 1 = i
      BY <2>2
    <3>2. f[(i - 1) + 1] = MpEntry(f[i - 1], m.table[(i - 1) + 1])
      BY <1>4, <3>1
    <3> QED BY <2>2, <3>1, <3>2
  <2> QED BY <2>1, <2>2
<1> QED BY <1>1, <1>4, <1>5 DEF Rounds

\* Every round keeps what Scanned says.
LEMMA ScanEnds ==
    ASSUME BootCpuFirst, NEW m \in Machines, NEW f, Rounds(m, f)
    PROVE  Scanned(m, Len(m.table), f[Len(m.table)])
<1>1. PICK N \in Nat : N = Len(m.table)
  BY TableType
<1>2. \A i \in 0..N : f[i] = IF i = 0 THEN FirstScan ELSE MpEntry(f[i - 1], m.table[i])
  BY <1>1 DEF Rounds
<1> DEFINE D == {i \in Nat : i <= N => Scanned(m, i, f[i])}
<1>3. 0 \in D
  <2>1. f[0] = FirstScan
    BY <1>2
  <2> QED BY <2>1, ScanStarts
<1>4. ASSUME NEW i \in Nat, i \in D PROVE i + 1 \in D
  <2> SUFFICES ASSUME i + 1 <= N PROVE Scanned(m, i + 1, f[i + 1])
    OBVIOUS
  <2>1. Scanned(m, i, f[i]) /\ i \in 0..Len(m.table)-1
    BY <1>1, <1>4
  <2>2. f[i + 1] = MpEntry(f[i], m.table[i + 1])
    <3>1. i + 1 \in 0..N /\ i + 1 # 0 /\ (i + 1) - 1 = i
      OBVIOUS
    <3>2. f[i + 1] = MpEntry(f[(i + 1) - 1], m.table[i + 1])
      BY <1>2, <3>1
    <3> QED BY <3>1, <3>2
  <2> QED BY <2>1, <2>2, ScanRound
<1>5. N \in D
  <2> HIDE DEF D
  <2> QED BY <1>3, <1>4, SetInduction
<1> QED BY <1>1, <1>5

\* What mp_init leaves in bootcpu, ncpu, ismp and lapicaddr.
LEMMA MpInitFound ==
    ASSUME BootCpuFirst, NEW m \in Machines, NEW r, r = MpInit(m)
    PROVE  Found(m, r) /\ (r.ismp => MpConfig(m))
<1>1. PICK f : f = CHOOSE g : Rounds(m, g)
  OBVIOUS
<1>2. Rounds(m, f)
  BY <1>1, RoundsExist, TableType, Zenon
<1>3. PICK q : q = MpScan(m)
  OBVIOUS
<1>4. q = f[Len(m.table)]
  BY <1>1, <1>3, Zenon DEF MpScan, Rounds, FirstScan
<1>11. PICK n : n = ApicId(m.table, Len(m.table) + 1)
  OBVIOUS
<1>12. n \in Nat /\ n > 0
  BY <1>11, SomeProcessor
<1>5. /\ q \in Scans
      /\ q.bootcpu = 0 /\ q.ncpu <= NCPU /\ q.lapicaddr /\ (q.stop <=> ~q.ismp)
      /\ q.ismp => q.ncpu = n \/ q.ncpu = NCPU
      /\ \A id \in 0..q.ncpu-1 : id \in CpusOf(m)
  BY <1>2, <1>4, <1>11, ScanEnds DEF Scanned
<1>6. NCPU \in Nat /\ NCPU > 0 /\ 0 \in CpusOf(m)
  BY SmpBootAssumption, BspIsZero
<1>7. CASE ~MpConfig(m)
  <2>1. r = NoMp
    BY <1>7 DEF MpInit
  <2> QED BY <1>6, <2>1 DEF NoMp, Found
<1>8. CASE MpConfig(m) /\ ~q.ismp
  <2>1. PICK b, t : b = q.bootcpu /\ t = q.stop
    OBVIOUS
  <2>2. r = [bootcpu |-> b, ncpu |-> 1, ismp |-> FALSE, lapicaddr |-> FALSE, stop |-> t]
    BY <1>3, <1>8, <2>1, Zenon DEF MpInit, NoSmp
  <2>3. b = 0 /\ t \in BOOLEAN
    BY <1>5, <2>1 DEF Scans
  <2>4. \A id \in 0..r.ncpu-1 : id = 0
    BY <2>2
  <2> QED BY <1>6, <1>8, <2>2, <2>3, <2>4 DEF Found
<1>9. CASE MpConfig(m) /\ q.ismp
  <2>1. r = q
    BY <1>3, <1>9 DEF MpInit
  <2>2. r \in [bootcpu : {0}, ncpu : 0..NCPU, ismp : BOOLEAN, lapicaddr : BOOLEAN, stop : BOOLEAN]
    BY <1>5, <1>6, <2>1 DEF Scans
  <2> QED BY <1>5, <1>6, <1>9, <1>12, <2>1, <2>2 DEF Found
<1> QED BY <1>7, <1>8, <1>9

-----------------------------------------------------------------------------
(* What mp_init's loop makes of any table, the boot CPU wherever it is.     *)

\* After i entries of m's table.
AnyScanned(m, i, r) ==
    /\ r \in Scans /\ r.ncpu <= NCPU /\ r.bootcpu <= NCPU
    /\ r.bootcpu = NCPU =>
        \E b \in 1..i : m.table[b] = "boot" /\ ApicId(m.table, b) >= NCPU
    /\ ~r.stop => \/ r.ncpu = ApicId(m.table, i + 1)
                  \/ (r.ncpu = NCPU /\ ApicId(m.table, i + 1) >= NCPU)
    /\ r.stop => \E j \in 1..i : m.table[j] = "unknown"
    /\ \A b \in 1..i :
        /\ ~r.stop
        /\ m.table[b] = "boot" /\ ApicId(m.table, b) >= NCPU
        /\ \A j \in 1..i : m.table[j] = "boot" => j = b
        => r.bootcpu = NCPU

\* One entry more.
LEMMA AnyRound ==
    ASSUME NEW m, NEW i \in Nat, NEW r, AnyScanned(m, i, r),
           NEW q, q = MpEntry(r, m.table[i + 1])
    PROVE  AnyScanned(m, i + 1, q)
<1>1. PICK entry, n, k : /\ entry = m.table[i + 1]
                         /\ n = ApicId(m.table, i + 1) /\ k = ApicId(m.table, i + 2)
  OBVIOUS
<1>2. n \in Nat /\ (IsProc(entry) => k = n + 1) /\ (~IsProc(entry) => k = n)
  BY <1>1, ApicIdNext
<1>3. /\ q \in Scans
      /\ r.stop \/ entry = "bus" => q = r
      /\ ~r.stop /\ entry # "bus" =>
          /\ entry = "boot" => q.bootcpu = r.ncpu
          /\ entry # "boot" => q.bootcpu = r.bootcpu
          /\ IsProc(entry) /\ r.ncpu < NCPU => q.ncpu = r.ncpu + 1
          /\ ~(IsProc(entry) /\ r.ncpu < NCPU) => q.ncpu = r.ncpu
          /\ q.stop <=> entry = "unknown"
  <2>1. r \in Scans /\ q = MpEntry(r, entry)
    BY <1>1 DEF AnyScanned
  <2> QED BY <2>1, MpEntryIs
<1>4. /\ r \in Scans /\ r.ncpu <= NCPU /\ r.bootcpu <= NCPU
      /\ ~r.stop => r.ncpu = n \/ (r.ncpu = NCPU /\ n >= NCPU)
  BY <1>1 DEF AnyScanned
<1>5. r.ncpu \in Nat /\ r.bootcpu \in Nat /\ NCPU \in Nat /\ q.ncpu \in Nat
  BY <1>3, <1>4, SmpBootAssumption DEF Scans
<1>6. q.ncpu <= NCPU /\ q.bootcpu <= NCPU
  BY <1>3, <1>4, <1>5
<1>7. ASSUME q.bootcpu = NCPU
      PROVE  \E b \in 1..i+1 : m.table[b] = "boot" /\ ApicId(m.table, b) >= NCPU
  <2>1. CASE ~r.stop /\ entry = "boot"
    <3>1. r.ncpu = NCPU /\ n >= NCPU
      BY <1>2, <1>3, <1>4, <1>5, <1>7, <2>1
    <3>2. i + 1 \in 1..i+1 /\ m.table[i + 1] = "boot" /\ ApicId(m.table, i + 1) >= NCPU
      BY <1>1, <2>1, <3>1
    <3> QED BY <3>2
  <2>2. CASE r.stop \/ entry # "boot"
    <3>1. r.bootcpu = NCPU
      BY <1>3, <1>7, <2>2
    <3>2. PICK b \in 1..i : m.table[b] = "boot" /\ ApicId(m.table, b) >= NCPU
      BY <3>1 DEF AnyScanned
    <3> QED BY <3>2
  <2> QED BY <2>1, <2>2
<1>8. ~q.stop => q.ncpu = k \/ (q.ncpu = NCPU /\ k >= NCPU)
  BY <1>2, <1>3, <1>4, <1>5 DEF IsProc
<1>9. ASSUME q.stop PROVE \E j \in 1..i+1 : m.table[j] = "unknown"
  <2>1. CASE r.stop
    <3>1. PICK j \in 1..i : m.table[j] = "unknown"
      BY <2>1 DEF AnyScanned
    <3> QED BY <3>1
  <2>2. CASE ~r.stop
    BY <1>1, <1>3, <1>9, <2>2
  <2> QED BY <2>1, <2>2
<1>10. ASSUME NEW b \in 1..i+1, ~q.stop,
              m.table[b] = "boot", ApicId(m.table, b) >= NCPU,
              \A j \in 1..i+1 : m.table[j] = "boot" => j = b
       PROVE  q.bootcpu = NCPU
  <2>1. ~r.stop
    BY <1>3, <1>10
  <2>2. CASE b = i + 1
    <3>1. entry = "boot" /\ n >= NCPU
      BY <1>1, <1>10, <2>2
    <3>2. r.ncpu = NCPU
      BY <1>4, <1>5, <2>1, <3>1
    <3> QED BY <1>3, <2>1, <3>1, <3>2
  <2>3. CASE b # i + 1
    <3>1. b \in 1..i /\ i + 1 \in 1..i+1 /\ entry # "boot"
      BY <1>1, <1>10, <2>3
    <3>2. \A j \in 1..i : m.table[j] = "boot" => j = b
      BY <1>10
    <3>3. r.bootcpu = NCPU
      BY <1>10, <2>1, <3>1, <3>2 DEF AnyScanned
    <3> QED BY <1>3, <2>1, <3>1, <3>3
  <2> QED BY <2>2, <2>3
<1>11. (i + 1) + 1 = i + 2
  OBVIOUS
<1> QED BY <1>1, <1>3, <1>6, <1>7, <1>8, <1>9, <1>10, <1>11 DEF AnyScanned

\* Every round keeps what AnyScanned says.
LEMMA AnyScanEnds ==
    ASSUME NEW m, Len(m.table) \in Nat, NEW f, Rounds(m, f)
    PROVE  AnyScanned(m, Len(m.table), f[Len(m.table)])
<1>1. PICK N \in Nat : N = Len(m.table)
  OBVIOUS
<1>2. \A i \in 0..N : f[i] = IF i = 0 THEN FirstScan ELSE MpEntry(f[i - 1], m.table[i])
  BY <1>1 DEF Rounds
<1> DEFINE D == {i \in Nat : i <= N => AnyScanned(m, i, f[i])}
<1>3. 0 \in D
  <2>1. f[0] = FirstScan
    BY <1>2
  <2>2. NCPU \in Nat /\ NCPU > 0 /\ ApicId(m.table, 0 + 1) = 0
    BY SmpBootAssumption, ApicIdNext
  <2>3. AnyScanned(m, 0, FirstScan)
    BY <2>2 DEF AnyScanned, FirstScan, Scans
  <2> QED BY <2>1, <2>3
<1>4. ASSUME NEW i \in Nat, i \in D PROVE i + 1 \in D
  <2> SUFFICES ASSUME i + 1 <= N PROVE AnyScanned(m, i + 1, f[i + 1])
    OBVIOUS
  <2>1. AnyScanned(m, i, f[i])
    BY <1>4
  <2>2. f[i + 1] = MpEntry(f[i], m.table[i + 1])
    <3>1. i + 1 \in 0..N /\ i + 1 # 0 /\ (i + 1) - 1 = i
      OBVIOUS
    <3>2. f[i + 1] = MpEntry(f[(i + 1) - 1], m.table[i + 1])
      BY <1>2, <3>1
    <3> QED BY <3>1, <3>2
  <2> QED BY <2>1, <2>2, AnyRound
<1>5. N \in D
  <2> HIDE DEF D
  <2> QED BY <1>3, <1>4, SetInduction
<1> QED BY <1>1, <1>5

\* mp_init on any table whatever: it counts at most NCPU processors, and bootcpu is
\* an element of cpus[] or &cpus[NCPU], one past its end (mpconfig.c:185).  The
\* latter only if NCPU processors are listed before a boot processor, and always
\* when there is one boot processor, that far down, and every entry is understood.
THEOREM BootcpuInCpusOrOnePast ==
    ASSUME NEW m \in MachineType
    PROVE  /\ MpInit(m).ncpu \in 0..NCPU /\ MpInit(m).bootcpu \in 0..NCPU
           /\ MpInit(m).bootcpu = NCPU =>
                \E b \in 1..Len(m.table) :
                    m.table[b] = "boot" /\ ApicId(m.table, b) >= NCPU
           /\ \A b \in 1..Len(m.table) :
                /\ MpConfig(m)
                /\ m.table[b] = "boot" /\ ApicId(m.table, b) >= NCPU
                /\ \A j \in 1..Len(m.table) :
                    m.table[j] # "unknown" /\ (m.table[j] = "boot" => j = b)
                => MpInit(m).bootcpu = NCPU
<1>1. Len(m.table) \in Nat
  <2>1. m.table \in Seq({"boot", "proc", "bus", "unknown"})
    BY DEF MachineType
  <2> QED BY <2>1
<1>2. PICK f : f = CHOOSE g : Rounds(m, g)
  OBVIOUS
<1>3. Rounds(m, f)
  BY <1>1, <1>2, RoundsExist, Zenon
<1>4. PICK q : q = MpScan(m)
  OBVIOUS
<1>5. q = f[Len(m.table)]
  BY <1>2, <1>4, Zenon DEF MpScan, Rounds, FirstScan
<1>6. AnyScanned(m, Len(m.table), q)
  BY <1>1, <1>3, <1>5, AnyScanEnds
<1>7. /\ q.ncpu \in 0..NCPU /\ q.bootcpu \in 0..NCPU /\ NCPU \in Nat \ {0}
      /\ q.bootcpu = NCPU =>
            \E b \in 1..Len(m.table) : m.table[b] = "boot" /\ ApicId(m.table, b) >= NCPU
  BY <1>6, SmpBootAssumption DEF AnyScanned, Scans
<1>9. CASE ~MpConfig(m)
  <2>1. MpInit(m) = NoMp
    BY <1>9 DEF MpInit
  <2> QED BY <1>7, <1>9, <2>1 DEF NoMp
<1>10. CASE MpConfig(m)
  <2>1. PICK r : r = MpInit(m)
    OBVIOUS
  <2>2. r.bootcpu = q.bootcpu /\ r.ncpu \in 0..NCPU
    <3>1. CASE q.ismp
      <4>1. r = q
        BY <1>4, <1>10, <2>1, <3>1 DEF MpInit
      <4> QED BY <1>7, <4>1
    <3>2. CASE ~q.ismp
      <4>1. r = NoSmp(q)
        BY <1>4, <1>10, <2>1, <3>2 DEF MpInit
      <4>2. PICK b, t : b = q.bootcpu /\ t = q.stop
        OBVIOUS
      <4>3. r = [bootcpu |-> b, ncpu |-> 1, ismp |-> FALSE, lapicaddr |-> FALSE, stop |-> t]
        BY <4>1, <4>2, Zenon DEF NoSmp
      <4>4. r.bootcpu = b /\ r.ncpu = 1
        BY <4>3
      <4> QED BY <1>7, <4>2, <4>4
    <3> QED BY <3>1, <3>2
  <2>3. ASSUME NEW b \in 1..Len(m.table),
               m.table[b] = "boot", ApicId(m.table, b) >= NCPU,
               \A j \in 1..Len(m.table) :
                   m.table[j] # "unknown" /\ (m.table[j] = "boot" => j = b)
        PROVE  q.bootcpu = NCPU
    <3>1. ~q.stop
      BY <1>6, <2>3 DEF AnyScanned
    <3> QED BY <1>6, <2>3, <3>1 DEF AnyScanned
  <2> QED BY <1>7, <2>1, <2>2, <2>3
<1> QED BY <1>9, <1>10

-----------------------------------------------------------------------------
(* What the invariant says of the CPU that takes a step.                    *)

\* The constants, and what mp_init found.
Known ==
    /\ Bsp = 0 /\ 0 \in Ids /\ 0 \in Present /\ Present \subseteq Ids /\ Ids \subseteq Nat
    /\ NCPU \in Nat /\ NCPU > 0 /\ NEnvs \in Nat /\ MmioPages \in Nat /\ MmioPages >= NCPU
    /\ mp.bootcpu = 0 /\ mp.ncpu \in 0..NCPU
    /\ mp.lapicaddr <=> mp.ismp
    /\ mp.ncpu > 1 => mp.ismp
    /\ \A id \in 0..mp.ncpu-1 : id \in Ids
    /\ pc \in [Ids -> Pcs]

\* The invariant, with Known made explicit.
LEMMA Facts ==
    ASSUME BootCpuFirst, IInv
    PROVE  Known /\ BootTypes /\ Progress /\ LockInv /\ PercpuInv /\ MmioInv /\ ChipInv
<1>1. machine \in Machines /\ Found(machine, mp) /\ pc \in [Ids -> Pcs]
  BY DEF IInv, BootTypes
<1>2. /\ Bsp = 0 /\ 0 \in Present /\ Present \subseteq Ids
  BY <1>1, BspIsZero DEF Bsp, Present
<1>3. Ids \subseteq Nat
  BY BspIsZero DEF Ids
<1>4. /\ NCPU \in Nat /\ NCPU > 0 /\ NEnvs \in Nat /\ MmioPages \in Nat /\ MmioPages >= NCPU
  BY SmpBootAssumption
<1>5. /\ mp.bootcpu = 0 /\ mp.ncpu \in 0..NCPU
      /\ mp.lapicaddr <=> mp.ismp
      /\ mp.ncpu > 1 => mp.ismp
      /\ \A id \in 0..mp.ncpu-1 : id \in Present
  BY <1>1 DEF Found, Present
<1>6. Known
  BY <1>1, <1>2, <1>3, <1>4, <1>5 DEF Known
<1> QED BY <1>6 DEF IInv

\* CPU c is the one that boot_aps is starting.
BeingStarted(c) ==
    /\ c # 0 /\ c = next /\ pc[0] \in {"sipi2", "wait"} /\ next \in Nat /\ 0 < next
    /\ next < mp.ncpu /\ mpentry_kstack = next /\ mp.ismp /\ lapic # NULL
    /\ \A d \in Ids \ {0} : d # c => pc[d] \in {"off", "lock", "sched", "out", "trap", "monitor"}

\* Nothing but the boot CPU is running.
Alone == next = 0 /\ \A d \in Ids \ {0} : pc[d] = "off"

\* Who is where: some steps are the boot CPU's, the set-up of an application
\* processor happens only while the boot CPU starts it.
LEMMA Where ==
    ASSUME BootCpuFirst, IInv, NEW c \in Ids
    PROVE  /\ pc[c] \in Starting \cup {"mp_init", "pic_init", "boot_aps", "create"} => c = 0
           /\ pc[0] \in Early => Alone
           /\ pc[c] \in {"entry", "percpu", "started"} => c # 0
           /\ pc[c] \in Setup \cup {"entry"} /\ c # 0 => BeingStarted(c)
<1>1. Progress /\ MmioInv /\ Known
  BY Facts
<1>2. pc[c] \in Starting \cup {"mp_init", "pic_init", "boot_aps", "create"} => c = 0
  BY <1>1 DEF Known, Progress, Starting, ApPcs, Setup
<1>3. pc[0] \in Early => Alone
  BY <1>1 DEF Known, Progress, Early, Alone
<1>4. pc[c] \in {"entry", "percpu", "started"} => c # 0
  BY <1>1 DEF Progress, BspPcs, Early, Starting
<1>5. ASSUME pc[c] \in Setup \cup {"entry"}, c # 0
      PROVE  BeingStarted(c)
  <2>1. c = next /\ next \in Nat
    BY <1>1, <1>5 DEF Known, Progress, Setup
  <2>2. pc[0] \in {"sipi2", "wait"}
    BY <1>1, <1>5, <2>1 DEF Known, Progress, Setup
  <2>3. 0 < next /\ next < mp.ncpu /\ mpentry_kstack = next
    BY <1>1, <2>2 DEF Progress, Starting
  <2>4. mp.ismp
    BY <1>1, <2>1, <2>3 DEF Known
  <2>5. lapic # NULL
    BY <1>1, <2>2, <2>4 DEF MmioInv, PreMap
  <2>6. \A d \in Ids \ {0} : d # c => pc[d] \in {"off", "lock", "sched", "out", "trap", "monitor"}
    BY <1>1, <2>1 DEF Known, Progress
  <2> QED BY <1>5, <2>1, <2>2, <2>3, <2>4, <2>5, <2>6 DEF BeingStarted
<1> QED BY <1>2, <1>3, <1>4, <1>5

-----------------------------------------------------------------------------
(* Every step keeps the invariant.                                          *)

\* mp_init, on the boot CPU.
LEMMA MpInitStepKeeps ==
    ASSUME BootCpuFirst, IInv, NEW c \in Ids, MpInitStep(c)
    PROVE  IInv'
<1>1. Known /\ BootTypes /\ Progress /\ LockInv /\ PercpuInv /\ MmioInv /\ ChipInv
  BY Facts
<1>2. c = 0 /\ Alone
  BY Where DEF MpInitStep, Starting, Early
<1>3. /\ pc[c] = "mp_init" /\ pc' = [pc EXCEPT ![c] = "lapic_init"]
      /\ mp' = MpInit(machine)
      /\ started' = IF MpConfig(machine) THEN {mp'.bootcpu} ELSE {}
      /\ machine' = machine /\ mpentry_kstack' = mpentry_kstack /\ next' = next
      /\ esp' = esp /\ tss' = tss /\ base' = base /\ reserved' = reserved
      /\ window' = window /\ lapic' = lapic /\ lint0' = lint0 /\ irq' = irq
      /\ created' = created /\ holder' = holder
  BY <1>1, <1>2 DEF MpInitStep, Goto, found, boot, percpu, mmio, chips, kern, Known
<1>4. BootTypes'
  <2>1. pc' \in [Ids -> Pcs]
    BY <1>1, <1>2, <1>3 DEF Known, BootTypes, Pcs, Scheduling
  <2>2. Found(machine, mp)'
    BY <1>1, <1>3, MpInitFound DEF BootTypes
  <2>3. started' \subseteq 0..NCPU-1
    <3>1. Found(machine, mp')
      BY <1>1, <1>3, MpInitFound DEF BootTypes
    <3> QED BY <1>1, <1>3, <3>1 DEF Known, Found
  <2> QED BY <1>1, <1>3, <2>1, <2>2, <2>3 DEF BootTypes
<1>5. Progress'
  <2>1. mp'.ncpu \in 0..NCPU
    BY <1>4 DEF Found, BootTypes
  <2> QED BY <1>1, <1>2, <1>3, <2>1 DEF Known, Progress, Alone, BspPcs, ApPcs, Early, Starting
<1>6. LockInv'
  BY <1>1, <1>2, <1>3 DEF Known, LockInv, Scheduling, Progress, Starting, BspPcs, Early, Alone
<1>7. PercpuInv'
  <2>1. mp'.bootcpu = 0 /\ (mp'.ismp => MpConfig(machine))
    BY <1>1, <1>3, MpInitFound DEF Found, BootTypes
  <2>2. mp'.ismp => started' = {0}
    BY <1>3, <2>1
  <2> QED BY <1>1, <1>2, <1>3, <2>2 DEF Known, PercpuInv, Alone
<1>8. MmioInv'
  BY <1>1, <1>2, <1>3 DEF Known, MmioInv, Mapped, PreMap, Progress, Alone
<1>9. ChipInv'
  BY <1>1, <1>2, <1>3 DEF Known, ChipInv, PreMap, Alone
<1> QED BY <1>4, <1>5, <1>6, <1>7, <1>8, <1>9 DEF IInv

\* lapic_init without a LAPIC, which only the boot CPU does.
LEMMA LapicSkipKeeps ==
    ASSUME BootCpuFirst, IInv, NEW c \in Ids, LapicInit(c), ~mp.lapicaddr
    PROVE  IInv'
<1>1. Known /\ BootTypes /\ Progress /\ LockInv /\ PercpuInv /\ MmioInv /\ ChipInv
  BY Facts
<1>2. c = 0 /\ Alone
  BY <1>1, Where DEF LapicInit, Setup, Early, BeingStarted, Known
<1>3. /\ pc[c] = "lapic_init" /\ pc' = [pc EXCEPT ![c] = "pic_init"]
      /\ machine' = machine /\ mp' = mp /\ started' = started
      /\ mpentry_kstack' = mpentry_kstack /\ next' = next /\ esp' = esp /\ tss' = tss
      /\ base' = base /\ reserved' = reserved /\ window' = window /\ lapic' = lapic
      /\ lint0' = lint0 /\ irq' = irq /\ created' = created /\ holder' = holder
  BY <1>1, <1>2 DEF LapicInit, Goto, found, boot, percpu, mmio, chips, kern, Known, AfterLapic
<1>4. BootTypes'
  <2>1. pc' \in [Ids -> Pcs]
    BY <1>1, <1>2, <1>3 DEF Known, BootTypes, Pcs, Scheduling
  <2> QED BY <1>1, <1>3, <2>1 DEF BootTypes
<1>5. Progress'
  BY <1>1, <1>2, <1>3 DEF Known, Progress, BspPcs, ApPcs, Setup, Starting, Early, Alone
<1>6. LockInv'
  BY <1>1, <1>2, <1>3 DEF Known, LockInv, Scheduling, Progress, Starting, BspPcs, Early, Alone
<1>7. PercpuInv'
  BY <1>1, <1>2, <1>3 DEF Known, PercpuInv, Progress, Alone
<1>8. MmioInv'
  BY <1>1, <1>2, <1>3 DEF Known, MmioInv, Mapped, PreMap, Progress, Alone
<1>9. ChipInv'
  BY <1>1, <1>2, <1>3 DEF Known, ChipInv, PreMap, Alone
<1> QED BY <1>4, <1>5, <1>6, <1>7, <1>8, <1>9 DEF IInv

\* mmio_map_region reads its static.
LEMMA LapicInitKeeps ==
    ASSUME BootCpuFirst, IInv, NEW c \in Ids, LapicInit(c), mp.lapicaddr
    PROVE  IInv'
<1>1. Known /\ BootTypes /\ Progress /\ LockInv /\ PercpuInv /\ MmioInv /\ ChipInv
  BY Facts
<1>2. (c = 0 /\ Alone) \/ BeingStarted(c)
  BY Where DEF LapicInit, Setup, Early
<1>3. /\ pc[c] = "lapic_init" /\ pc' = [pc EXCEPT ![c] = "mmio"]
      /\ reserved' = [reserved EXCEPT ![c] = base]
      /\ machine' = machine /\ mp' = mp /\ started' = started
      /\ mpentry_kstack' = mpentry_kstack /\ next' = next /\ esp' = esp /\ tss' = tss
      /\ base' = base /\ window' = window /\ lapic' = lapic /\ lint0' = lint0
      /\ irq' = irq /\ created' = created /\ holder' = holder
  BY <1>1, <1>2 DEF LapicInit, Goto, found, boot, percpu, mmio, chips, kern, Known
<1>4. BootTypes'
  <2>1. pc' \in [Ids -> Pcs]
    BY <1>1, <1>2, <1>3 DEF Known, BootTypes, Pcs, Scheduling
  <2>2. reserved' \in [Ids -> -1..MmioPages-1]
    <3>1. base \in 0..MmioPages-1
      BY <1>1, <1>2, <1>3 DEF Known, MmioInv, PreMap, Mapped, BeingStarted, Alone
    <3> QED BY <1>1, <1>3, <3>1 DEF BootTypes
  <2> QED BY <1>1, <1>3, <2>1, <2>2 DEF BootTypes
<1>5. Progress'
  BY <1>1, <1>2, <1>3 DEF Known, Progress, BspPcs, ApPcs, Setup, Starting, Early, BeingStarted,
       Alone
<1>6. LockInv'
  BY <1>1, <1>2, <1>3 DEF Known, LockInv, Scheduling, Progress, Starting, BspPcs, Early, BeingStarted, Alone
<1>7. PercpuInv'
  BY <1>1, <1>2, <1>3 DEF Known, PercpuInv, Progress, BeingStarted, Alone
<1>8. MmioInv'
  <2>1. base \in Nat /\ base <= next
    <3>1. CASE c = 0 /\ Alone
      BY <1>1, <1>3, <3>1 DEF MmioInv, PreMap, Alone
    <3>2. CASE BeingStarted(c)
      BY <1>1, <1>3, <3>2 DEF MmioInv, Mapped, BeingStarted
    <3> QED BY <1>2, <3>1, <3>2
  <2>2. \A d \in Ids : d # c => pc[d] # "mmio" /\ pc'[d] = pc[d]
    BY <1>1, <1>2, <1>3 DEF Known, BeingStarted, Alone
  <2>3. pc'[c] = "mmio" /\ reserved'[c] = base
    BY <1>1, <1>3 DEF Known, BootTypes
  <2>4. \A d \in Ids : pc'[d] = "mmio" => reserved'[d] = base
    BY <2>2, <2>3
  <2>5. mp.ismp /\ pc'[0] \notin PreMap => lapic # NULL
    <3>1. 0 \in Ids
      BY <1>1 DEF Known
    <3>2. CASE c = 0
      BY <2>3, <3>2 DEF PreMap
    <3>3. CASE c # 0
      BY <1>1, <2>2, <3>1, <3>3 DEF MmioInv
    <3> QED BY <3>2, <3>3
  <2> QED BY <1>1, <1>3, <2>1, <2>4, <2>5 DEF MmioInv
<1>9. ChipInv'
  BY <1>1, <1>2, <1>3 DEF Known, ChipInv, PreMap, BeingStarted, Alone
<1> QED BY <1>4, <1>5, <1>6, <1>7, <1>8, <1>9 DEF IInv

\* mmio_map_region maps the page and moves its static on.
LEMMA MmioMapKeeps ==
    ASSUME BootCpuFirst, IInv, NEW c \in Ids, MmioMap(c)
    PROVE  IInv'
<1>1. Known /\ BootTypes /\ Progress /\ LockInv /\ PercpuInv /\ MmioInv /\ ChipInv
  BY Facts
<1>2. (c = 0 /\ Alone) \/ BeingStarted(c)
  BY Where DEF MmioMap, Setup, Early
<1>3. /\ pc[c] = "mmio" /\ pc' = [pc EXCEPT ![c] = "registers"]
      /\ window' = [window EXCEPT ![reserved[c]] = window[reserved[c]] \cup {c}]
      /\ base' = reserved[c] + 1 /\ lapic' = reserved[c]
      /\ machine' = machine /\ mp' = mp /\ started' = started
      /\ mpentry_kstack' = mpentry_kstack /\ next' = next /\ esp' = esp /\ tss' = tss
      /\ reserved' = reserved /\ lint0' = lint0 /\ irq' = irq /\ created' = created
      /\ holder' = holder
  BY <1>1, <1>2 DEF MmioMap, Goto, found, boot, percpu, mmio, chips, kern, Known
<1>4. BootTypes'
  <2>1. pc' \in [Ids -> Pcs]
    BY <1>1, <1>2, <1>3 DEF Known, BootTypes, Pcs, Scheduling
  <2>2. window' \in [0..MmioPages-1 -> SUBSET Ids]
    BY <1>1, <1>2, <1>3 DEF Known, BootTypes
  <2>3. lapic' \in -1..MmioPages-1
    BY <1>1, <1>2, <1>3 DEF Known, BootTypes
  <2> QED BY <1>1, <1>3, <2>1, <2>2, <2>3 DEF BootTypes
<1>5. Progress'
  BY <1>1, <1>2, <1>3 DEF Known, Progress, BspPcs, ApPcs, Setup, Starting, Early, BeingStarted,
       Alone
<1>6. LockInv'
  BY <1>1, <1>2, <1>3 DEF Known, LockInv, Scheduling, Progress, Starting, BspPcs, Early, BeingStarted, Alone
<1>7. PercpuInv'
  BY <1>1, <1>2, <1>3 DEF Known, PercpuInv, Progress, BeingStarted, Alone
<1>8. MmioInv'
  <2>1. reserved[c] = base /\ base \in Nat /\ base < MmioPages
    BY <1>1, <1>2, <1>3 DEF Known, MmioInv, PreMap, Mapped, BeingStarted, Alone
  <2>2. /\ \A d \in Ids : pc'[d] # "mmio"
        /\ pc'[c] = "registers"
    BY <1>1, <1>2, <1>3 DEF Known, BeingStarted, Alone
  <2>3. /\ window'[base] = {c}
        /\ \A v \in 0..MmioPages-1 : v # base => window'[v] = window[v]
    <3>1. window \in [0..MmioPages-1 -> SUBSET Ids]
      BY <1>1 DEF BootTypes
    <3>2. MmioPages \in Nat /\ base \in 0..MmioPages-1
      <4>1. MmioPages \in Nat
        BY <1>1 DEF Known
      <4> QED BY <2>1, <4>1
    <3>3. window[base] = {}
      <4>1. \A v \in 0..MmioPages-1 : v >= base => window[v] = {}
        BY <1>1 DEF MmioInv
      <4> QED BY <2>1, <3>2, <4>1
    <3> QED BY <1>3, <2>1, <3>1, <3>2, <3>3
  <2>4. \/ base' <= next
        \/ next = 0 /\ base' = 1 /\ pc'[0] \notin PreMap
        \/ base' = next + 1 /\ pc'[0] \in {"sipi2", "wait"} /\ pc'[next] \in Mapped
    <3>1. CASE c = 0 /\ Alone
      BY <1>1, <1>3, <2>1, <2>2, <3>1 DEF Alone, MmioInv, PreMap, Mapped
    <3>2. CASE BeingStarted(c)
      <4>1. base <= next /\ pc'[0] = pc[0]
        BY <1>1, <1>3, <3>2 DEF BeingStarted, MmioInv, Mapped, Known
      <4> QED BY <1>3, <2>1, <2>2, <3>2, <4>1 DEF BeingStarted, Mapped
    <3> QED BY <1>2, <3>1, <3>2
  <2>5. base' \in Nat /\ lapic' = base /\ base' = base + 1 /\ lapic' < base' /\ lapic' # NULL
    BY <1>3, <2>1 DEF NULL
  <2>6. \A v \in 0..MmioPages-1 : v >= base' => window'[v] = {}
    BY <1>1, <2>1, <2>3, <2>5 DEF MmioInv
  <2>7. \A v \in 0..MmioPages-1 : \A x, y \in window'[v] : x = y
    BY <1>1, <2>3 DEF MmioInv
  <2>8. window'[lapic'] # {}
    BY <2>3, <2>5
  <2> QED BY <1>3, <2>2, <2>4, <2>5, <2>6, <2>7, <2>8 DEF MmioInv
<1>9. ChipInv'
  BY <1>1, <1>2, <1>3 DEF Known, ChipInv, PreMap, BeingStarted, Alone
<1> QED BY <1>4, <1>5, <1>6, <1>7, <1>8, <1>9 DEF IInv

\* The rest of lapic_init on the boot CPU.
LEMMA RegistersBspKeeps ==
    ASSUME BootCpuFirst, IInv, NEW c \in Ids, LapicRegisters(c), c = 0
    PROVE  IInv'
<1>1. Known /\ BootTypes /\ Progress /\ LockInv /\ PercpuInv /\ MmioInv /\ ChipInv
  BY Facts
<1>2. c = 0 /\ Alone
  BY Where DEF LapicRegisters, Early
<1>3. /\ pc[c] = "registers" /\ pc' = [pc EXCEPT ![c] = "pic_init"]
      /\ lint0' = lint0 \cup {0}
      /\ machine' = machine /\ mp' = mp /\ started' = started
      /\ mpentry_kstack' = mpentry_kstack /\ next' = next /\ esp' = esp /\ tss' = tss
      /\ base' = base /\ reserved' = reserved /\ window' = window /\ lapic' = lapic
      /\ irq' = irq /\ created' = created /\ holder' = holder
  BY <1>1, <1>2 DEF LapicRegisters, Goto, found, boot, percpu, mmio, chips, kern, Known,
       AfterLapic, cpunum
<1>4. BootTypes'
  <2>1. pc' \in [Ids -> Pcs]
    BY <1>1, <1>2, <1>3 DEF Known, BootTypes, Pcs, Scheduling
  <2>2. lint0' \subseteq Ids
    BY <1>1, <1>2, <1>3 DEF Known, BootTypes
  <2> QED BY <1>1, <1>3, <2>1, <2>2 DEF BootTypes
<1>5. Progress'
  BY <1>1, <1>2, <1>3 DEF Known, Progress, BspPcs, ApPcs, Setup, Starting, Early, Alone
<1>6. LockInv'
  BY <1>1, <1>2, <1>3 DEF Known, LockInv, Scheduling, Progress, Starting, BspPcs, Early, Alone
<1>7. PercpuInv'
  BY <1>1, <1>2, <1>3 DEF Known, PercpuInv, Progress, Alone
<1>8. MmioInv'
  BY <1>1, <1>2, <1>3 DEF Known, MmioInv, Mapped, PreMap, Progress, Alone
<1>9. ChipInv'
  BY <1>1, <1>2, <1>3 DEF Known, ChipInv, PreMap, Alone
<1> QED BY <1>4, <1>5, <1>6, <1>7, <1>8, <1>9 DEF IInv

\* The rest of lapic_init on another.
LEMMA RegistersApKeeps ==
    ASSUME BootCpuFirst, IInv, NEW c \in Ids, LapicRegisters(c), c # 0
    PROVE  IInv'
<1>1. Known /\ BootTypes /\ Progress /\ LockInv /\ PercpuInv /\ MmioInv /\ ChipInv
  BY Facts
<1>2. BeingStarted(c)
  BY Where DEF LapicRegisters, Setup
<1>3. /\ pc[c] = "registers" /\ pc' = [pc EXCEPT ![c] = "percpu"]
      /\ machine' = machine /\ mp' = mp /\ started' = started
      /\ mpentry_kstack' = mpentry_kstack /\ next' = next /\ esp' = esp /\ tss' = tss
      /\ base' = base /\ reserved' = reserved /\ window' = window /\ lapic' = lapic
      /\ lint0' = lint0 /\ irq' = irq /\ created' = created /\ holder' = holder
  BY <1>1, <1>2 DEF LapicRegisters, Goto, found, boot, percpu, mmio, chips, kern, Known,
       AfterLapic, cpunum, BeingStarted
<1>4. BootTypes'
  <2>1. pc' \in [Ids -> Pcs]
    BY <1>1, <1>2, <1>3 DEF Known, BootTypes, Pcs, Scheduling
  <2> QED BY <1>1, <1>3, <2>1 DEF BootTypes
<1>5. Progress'
  BY <1>1, <1>2, <1>3 DEF Known, Progress, BspPcs, ApPcs, Setup, Starting, Early, BeingStarted
<1>6. LockInv'
  BY <1>1, <1>2, <1>3 DEF Known, LockInv, Scheduling, Progress, Starting, BspPcs, Early, BeingStarted
<1>7. PercpuInv'
  BY <1>1, <1>2, <1>3 DEF Known, PercpuInv, Progress, BeingStarted
<1>8. MmioInv'
  <2>1. pc'[0] = pc[0] /\ pc'[next] = "percpu" /\ \A d \in Ids : d # c => pc'[d] = pc[d]
    BY <1>1, <1>2, <1>3 DEF Known, BeingStarted
  <2> QED BY <1>1, <1>2, <1>3, <2>1 DEF Known, MmioInv, Mapped, PreMap, BeingStarted
<1>9. ChipInv'
  BY <1>1, <1>2, <1>3 DEF Known, ChipInv, PreMap, BeingStarted
<1> QED BY <1>4, <1>5, <1>6, <1>7, <1>8, <1>9 DEF IInv

\* pic_init, on the boot CPU.
LEMMA PicInitKeeps ==
    ASSUME BootCpuFirst, IInv, NEW c \in Ids, PicInit(c)
    PROVE  IInv'
<1>1. Known /\ BootTypes /\ Progress /\ LockInv /\ PercpuInv /\ MmioInv /\ ChipInv
  BY Facts
<1>2. c = 0 /\ Alone
  BY Where DEF PicInit, Starting, Early
<1>3. /\ pc[c] = "pic_init" /\ pc' = [pc EXCEPT ![c] = "lock"]
      /\ irq' = [mask |-> irq.mask, didinit |-> TRUE, chip |-> irq.mask]
      /\ machine' = machine /\ mp' = mp /\ started' = started
      /\ mpentry_kstack' = mpentry_kstack /\ next' = next /\ esp' = esp /\ tss' = tss
      /\ base' = base /\ reserved' = reserved /\ window' = window /\ lapic' = lapic
      /\ lint0' = lint0 /\ created' = created /\ holder' = holder
  BY <1>1, <1>2 DEF PicInit, Goto, found, boot, percpu, mmio, chips, kern, Known
<1>4. BootTypes'
  <2>1. pc' \in [Ids -> Pcs]
    BY <1>1, <1>2, <1>3 DEF Known, BootTypes, Pcs, Scheduling
  <2>2. irq' \in [mask : {"keyboard"}, didinit : BOOLEAN, chip : {"bios", "keyboard"}]
    BY <1>1, <1>2, <1>3 DEF Known, BootTypes
  <2> QED BY <1>1, <1>3, <2>1, <2>2 DEF BootTypes
<1>5. Progress'
  BY <1>1, <1>2, <1>3 DEF Known, Progress, BspPcs, ApPcs, Setup, Starting, Early, Alone
<1>6. LockInv'
  BY <1>1, <1>2, <1>3 DEF Known, LockInv, Scheduling, Progress, Starting, BspPcs, Early, Alone
<1>7. PercpuInv'
  BY <1>1, <1>2, <1>3 DEF Known, PercpuInv, Progress, Alone
<1>8. MmioInv'
  BY <1>1, <1>2, <1>3 DEF Known, MmioInv, Mapped, PreMap, Progress, Alone
<1>9. ChipInv'
  BY <1>1, <1>2, <1>3 DEF Known, ChipInv, PreMap, Alone
<1> QED BY <1>4, <1>5, <1>6, <1>7, <1>8, <1>9 DEF IInv

\* lock_kernel in i386_init.
LEMMA LockBspKeeps ==
    ASSUME BootCpuFirst, IInv, NEW c \in Ids, LockKernel(c), c = 0, pc[c] = "lock"
    PROVE  IInv'
<1>1. Known /\ BootTypes /\ Progress /\ LockInv /\ PercpuInv /\ MmioInv /\ ChipInv
  BY Facts
<1>2. c = 0 /\ Alone
  BY Where DEF LockKernel, Early
<1>3. /\ pc[c] = "lock" /\ pc' = [pc EXCEPT ![c] = "boot_aps"]
      /\ holder = NULL /\ holder' = 0
      /\ machine' = machine /\ mp' = mp /\ started' = started
      /\ mpentry_kstack' = mpentry_kstack /\ next' = next /\ esp' = esp /\ tss' = tss
      /\ base' = base /\ reserved' = reserved /\ window' = window /\ lapic' = lapic
      /\ lint0' = lint0 /\ irq' = irq /\ created' = created
  BY <1>1, <1>2 DEF LockKernel, Goto, found, boot, percpu, mmio, chips, kern, Known
<1>4. BootTypes'
  <2>1. pc' \in [Ids -> Pcs]
    BY <1>1, <1>2, <1>3 DEF Known, BootTypes, Pcs, Scheduling
  <2>2. holder' \in Ids \cup {NULL}
    BY <1>1, <1>2, <1>3 DEF Known, BootTypes
  <2> QED BY <1>1, <1>3, <2>1, <2>2 DEF BootTypes
<1>5. Progress'
  BY <1>1, <1>2, <1>3 DEF Known, Progress, BspPcs, ApPcs, Setup, Starting, Early, Alone
<1>6. LockInv'
  BY <1>1, <1>2, <1>3 DEF Known, LockInv, Scheduling, Progress, Starting, BspPcs, Early, Alone
<1>7. PercpuInv'
  BY <1>1, <1>2, <1>3 DEF Known, PercpuInv, Progress, Alone
<1>8. MmioInv'
  BY <1>1, <1>2, <1>3 DEF Known, MmioInv, Mapped, PreMap, Progress, Alone
<1>9. ChipInv'
  BY <1>1, <1>2, <1>3 DEF Known, ChipInv, PreMap, Alone
<1> QED BY <1>4, <1>5, <1>6, <1>7, <1>8, <1>9 DEF IInv

\* lock_kernel in mp_main and in trap: the boot CPU has scheduled and is out of the
\* kernel.
LEMMA LockAgainKeeps ==
    ASSUME BootCpuFirst, IInv, NEW c \in Ids, LockKernel(c), ~(c = 0 /\ pc[c] = "lock")
    PROVE  IInv'
<1>1. Known /\ BootTypes /\ Progress /\ LockInv /\ PercpuInv /\ MmioInv /\ ChipInv
  BY Facts
<1>2. pc[0] \in {"out", "trap"} /\ pc[c] \in {"lock", "trap"}
  BY <1>1, Where DEF LockKernel, Known, LockInv, Scheduling, Progress, BspPcs, Early, Starting, Alone, NULL
<1>3. /\ pc' = [pc EXCEPT ![c] = "sched"]
      /\ holder = NULL /\ holder' = c
      /\ machine' = machine /\ mp' = mp /\ started' = started
      /\ mpentry_kstack' = mpentry_kstack /\ next' = next /\ esp' = esp /\ tss' = tss
      /\ base' = base /\ reserved' = reserved /\ window' = window /\ lapic' = lapic
      /\ lint0' = lint0 /\ irq' = irq /\ created' = created
  BY <1>1, <1>2 DEF LockKernel, Goto, found, boot, percpu, mmio, chips, kern, Known
<1>4. BootTypes'
  <2>1. pc' \in [Ids -> Pcs]
    BY <1>1, <1>2, <1>3 DEF Known, BootTypes, Pcs, Scheduling
  <2>2. holder' \in Ids \cup {NULL}
    BY <1>1, <1>2, <1>3 DEF Known, BootTypes
  <2> QED BY <1>1, <1>3, <2>1, <2>2 DEF BootTypes
<1>5. Progress'
  BY <1>1, <1>2, <1>3 DEF Known, Progress, BspPcs, ApPcs, Setup, Starting, Early
<1>6. LockInv'
  BY <1>1, <1>2, <1>3 DEF Known, LockInv, Scheduling, Starting, NULL
<1>7. PercpuInv'
  BY <1>1, <1>2, <1>3 DEF Known, PercpuInv, Progress
<1>8. MmioInv'
  BY <1>1, <1>2, <1>3 DEF Known, MmioInv, Mapped, PreMap, Progress
<1>9. ChipInv'
  BY <1>1, <1>2, <1>3 DEF Known, ChipInv, PreMap
<1> QED BY <1>4, <1>5, <1>6, <1>7, <1>8, <1>9 DEF IInv

\* The loop of boot_aps ends.
LEMMA LoopEndsKeeps ==
    ASSUME BootCpuFirst, IInv, NEW c \in Ids, BootApsLoop(c), next >= mp.ncpu
    PROVE  IInv'
<1>1. Known /\ BootTypes /\ Progress /\ LockInv /\ PercpuInv /\ MmioInv /\ ChipInv
  BY Facts
<1>2. c = 0
  BY Where DEF BootApsLoop, Starting
<1>3. /\ pc[c] = "boot_aps" /\ pc' = [pc EXCEPT ![c] = "create"]
      /\ next >= mp.ncpu
      /\ machine' = machine /\ mp' = mp /\ started' = started
      /\ mpentry_kstack' = mpentry_kstack /\ next' = next /\ esp' = esp /\ tss' = tss
      /\ base' = base /\ reserved' = reserved /\ window' = window /\ lapic' = lapic
      /\ lint0' = lint0 /\ irq' = irq /\ created' = created /\ holder' = holder
  BY <1>1, <1>2 DEF BootApsLoop, Goto, found, boot, percpu, mmio, chips, kern, Known, Progress
<1>4. BootTypes'
  <2>1. pc' \in [Ids -> Pcs]
    BY <1>1, <1>2, <1>3 DEF Known, BootTypes, Pcs, Scheduling
  <2> QED BY <1>1, <1>3, <2>1 DEF BootTypes
<1>5. Progress'
  BY <1>1, <1>2, <1>3 DEF Known, Progress, BspPcs, ApPcs, Setup, Starting, Early
<1>6. LockInv'
  BY <1>1, <1>2, <1>3 DEF Known, LockInv, Scheduling, Progress, Starting, BspPcs, Early
<1>7. PercpuInv'
  BY <1>1, <1>2, <1>3 DEF Known, PercpuInv, Progress
<1>8. MmioInv'
  BY <1>1, <1>2, <1>3 DEF Known, MmioInv, Mapped, PreMap, Progress
<1>9. ChipInv'
  BY <1>1, <1>2, <1>3 DEF Known, ChipInv, PreMap
<1> QED BY <1>4, <1>5, <1>6, <1>7, <1>8, <1>9 DEF IInv

\* boot_aps skips the CPU it runs on.
LEMMA LoopSkipsKeeps ==
    ASSUME BootCpuFirst, IInv, NEW c \in Ids, BootApsLoop(c), next < mp.ncpu, next = 0
    PROVE  IInv'
<1>1. Known /\ BootTypes /\ Progress /\ LockInv /\ PercpuInv /\ MmioInv /\ ChipInv
  BY Facts
<1>2. c = 0
  BY Where DEF BootApsLoop, Starting
<1>3. /\ pc[c] = "boot_aps" /\ pc' = pc
      /\ next = 0 /\ next < mp.ncpu /\ next' = next + 1
      /\ machine' = machine /\ mp' = mp /\ started' = started
      /\ mpentry_kstack' = mpentry_kstack /\ esp' = esp /\ tss' = tss /\ base' = base
      /\ reserved' = reserved /\ window' = window /\ lapic' = lapic /\ lint0' = lint0
      /\ irq' = irq /\ created' = created /\ holder' = holder
  BY <1>1, <1>2 DEF BootApsLoop, Goto, found, boot, percpu, mmio, chips, kern, Known, cpunum,
       Progress
<1>4. BootTypes'
  <2>1. pc' \in [Ids -> Pcs]
    BY <1>1, <1>2, <1>3 DEF Known, BootTypes, Pcs, Scheduling
  <2> QED BY <1>1, <1>3, <2>1 DEF BootTypes
<1>5. Progress'
  <2>1. \A d \in Ids \ {0} : d > 0 /\ pc[d] = "off"
    BY <1>1, <1>3 DEF Known, Progress
  <2> QED BY <1>1, <1>2, <1>3, <2>1 DEF Known, Progress, BspPcs, ApPcs, Setup, Starting, Early
<1>6. LockInv'
  BY <1>1, <1>2, <1>3 DEF Known, LockInv, Scheduling, Progress, Starting, BspPcs, Early
<1>7. PercpuInv'
  BY <1>1, <1>2, <1>3 DEF Known, PercpuInv, Progress
<1>8. MmioInv'
  BY <1>1, <1>2, <1>3 DEF Known, MmioInv, Mapped, PreMap, Progress
<1>9. ChipInv'
  BY <1>1, <1>2, <1>3 DEF Known, ChipInv, PreMap
<1> QED BY <1>4, <1>5, <1>6, <1>7, <1>8, <1>9 DEF IInv

\* boot_aps publishes the stack of the next CPU.
LEMMA LoopStartsKeeps ==
    ASSUME BootCpuFirst, IInv, NEW c \in Ids, BootApsLoop(c), next < mp.ncpu, next # 0
    PROVE  IInv'
<1>1. Known /\ BootTypes /\ Progress /\ LockInv /\ PercpuInv /\ MmioInv /\ ChipInv
  BY Facts
<1>2. c = 0
  BY Where DEF BootApsLoop, Starting
<1>3. /\ pc[c] = "boot_aps" /\ pc' = [pc EXCEPT ![c] = "startap"]
      /\ next # 0 /\ next < mp.ncpu /\ mpentry_kstack' = next
      /\ machine' = machine /\ mp' = mp /\ started' = started /\ next' = next
      /\ esp' = esp /\ tss' = tss /\ base' = base /\ reserved' = reserved
      /\ window' = window /\ lapic' = lapic /\ lint0' = lint0 /\ irq' = irq
      /\ created' = created /\ holder' = holder
  BY <1>1, <1>2 DEF BootApsLoop, Goto, found, boot, percpu, mmio, chips, kern, Known, cpunum,
       Progress
<1>4. BootTypes'
  <2>1. pc' \in [Ids -> Pcs]
    BY <1>1, <1>2, <1>3 DEF Known, BootTypes, Pcs, Scheduling
  <2>2. mpentry_kstack' \in -1..NCPU-1
    BY <1>1, <1>2, <1>3 DEF Known, BootTypes, Progress
  <2> QED BY <1>1, <1>3, <2>1, <2>2 DEF BootTypes
<1>5. Progress'
  BY <1>1, <1>2, <1>3 DEF Known, Progress, BspPcs, ApPcs, Setup, Starting, Early
<1>6. LockInv'
  BY <1>1, <1>2, <1>3 DEF Known, LockInv, Scheduling, Progress, Starting, BspPcs, Early
<1>7. PercpuInv'
  BY <1>1, <1>2, <1>3 DEF Known, PercpuInv, Progress
<1>8. MmioInv'
  BY <1>1, <1>2, <1>3 DEF Known, MmioInv, Mapped, PreMap, Progress
<1>9. ChipInv'
  BY <1>1, <1>2, <1>3 DEF Known, ChipInv, PreMap
<1> QED BY <1>4, <1>5, <1>6, <1>7, <1>8, <1>9 DEF IInv

\* The INIT interrupt.
LEMMA LapicStartapKeeps ==
    ASSUME BootCpuFirst, IInv, NEW c \in Ids, LapicStartap(c)
    PROVE  IInv'
<1>1. Known /\ BootTypes /\ Progress /\ LockInv /\ PercpuInv /\ MmioInv /\ ChipInv
  BY Facts
<1>2. c = 0 /\ next \in Ids /\ next # 0
  BY <1>1, Where DEF LapicStartap, Starting, Known, Progress
<1>3. /\ pc[0] = "startap" /\ pc' = [pc EXCEPT ![0] = "sipi1", ![next] = "halted"]
      /\ machine' = machine /\ mp' = mp /\ started' = started
      /\ mpentry_kstack' = mpentry_kstack /\ next' = next /\ esp' = esp /\ tss' = tss
      /\ base' = base /\ reserved' = reserved /\ window' = window /\ lapic' = lapic
      /\ lint0' = lint0 /\ irq' = irq /\ created' = created /\ holder' = holder
  BY <1>1, <1>2 DEF LapicStartap, Goto, found, boot, percpu, mmio, chips, kern, Known
<1>4. BootTypes'
  <2>1. pc' \in [Ids -> Pcs]
    BY <1>1, <1>2, <1>3 DEF Known, BootTypes, Pcs, Scheduling
  <2> QED BY <1>1, <1>3, <2>1 DEF BootTypes
<1>5. Progress'
  <2>1. /\ pc'[0] = "sipi1"
        /\ \A d \in Ids : d # 0 /\ d # next => pc'[d] = pc[d]
        /\ pc'[next] = "halted"
    BY <1>1, <1>2, <1>3 DEF Known
  <2> QED BY <1>1, <1>2, <1>3, <2>1 DEF Known, Progress, BspPcs, ApPcs, Setup, Starting, Early
<1>6. LockInv'
  BY <1>1, <1>2, <1>3 DEF Known, LockInv, Scheduling, Progress, Starting, BspPcs, Early
<1>7. PercpuInv'
  BY <1>1, <1>2, <1>3 DEF Known, PercpuInv, Progress
<1>8. MmioInv'
  BY <1>1, <1>2, <1>3 DEF Known, MmioInv, Mapped, PreMap, Progress
<1>9. ChipInv'
  BY <1>1, <1>2, <1>3 DEF Known, ChipInv, PreMap
<1> QED BY <1>4, <1>5, <1>6, <1>7, <1>8, <1>9 DEF IInv

\* The first STARTUP interrupt.
LEMMA Startup1Keeps ==
    ASSUME BootCpuFirst, IInv, NEW c \in Ids, Startup(c), pc[c] = "sipi1"
    PROVE  IInv'
<1>1. Known /\ BootTypes /\ Progress /\ LockInv /\ PercpuInv /\ MmioInv /\ ChipInv
  BY Facts
<1>2. c = 0 /\ next \in Ids /\ next # 0
  BY <1>1, Where DEF Startup, Starting, Known, Progress
<1>3. /\ pc[0] = "sipi1"
      /\ \/ pc' = [pc EXCEPT ![0] = "sipi2", ![next] = "halted"]
         \/ pc' = [pc EXCEPT ![0] = "sipi2", ![next] = "entry"]
      /\ machine' = machine /\ mp' = mp /\ started' = started
      /\ mpentry_kstack' = mpentry_kstack /\ next' = next /\ esp' = esp /\ tss' = tss
      /\ base' = base /\ reserved' = reserved /\ window' = window /\ lapic' = lapic
      /\ lint0' = lint0 /\ irq' = irq /\ created' = created /\ holder' = holder
  BY <1>1, <1>2 DEF Startup, Goto, found, boot, percpu, mmio, chips, kern, Known
<1>4. BootTypes'
  <2>1. pc' \in [Ids -> Pcs]
    BY <1>1, <1>2, <1>3 DEF Known, BootTypes, Pcs, Scheduling
  <2> QED BY <1>1, <1>3, <2>1 DEF BootTypes
<1>5. Progress'
  <2>1. /\ pc'[0] = "sipi2"
        /\ \A d \in Ids : d # 0 /\ d # next => pc'[d] = pc[d]
        /\ pc'[next] \in {"halted", "entry"}
    BY <1>1, <1>2, <1>3 DEF Known
  <2> QED BY <1>1, <1>2, <1>3, <2>1 DEF Known, Progress, BspPcs, ApPcs, Setup, Starting, Early
<1>6. LockInv'
  <2>1. /\ pc'[0] = "sipi2"
        /\ \A d \in Ids : d # 0 /\ d # next => pc'[d] = pc[d]
        /\ pc'[next] \in {"halted", "entry"}
    BY <1>1, <1>2, <1>3 DEF Known
  <2> QED BY <1>1, <1>2, <1>3, <2>1 DEF Known, LockInv, Scheduling, Starting
<1>7. PercpuInv'
  <2>1. /\ pc'[0] = "sipi2"
        /\ \A d \in Ids : d # 0 /\ d # next => pc'[d] = pc[d]
        /\ pc'[next] \in {"halted", "entry"}
    BY <1>1, <1>2, <1>3 DEF Known
  <2> QED BY <1>1, <1>2, <1>3, <2>1 DEF Known, Progress, BspPcs, ApPcs, Setup, Starting, Early,
       PercpuInv
<1>8. MmioInv'
  <2>1. /\ pc'[0] = "sipi2"
        /\ \A d \in Ids : d # 0 /\ d # next => pc'[d] = pc[d]
        /\ pc'[next] \in {"halted", "entry"}
    BY <1>1, <1>2, <1>3 DEF Known
  <2> QED BY <1>1, <1>2, <1>3, <2>1 DEF Known, Progress, BspPcs, ApPcs, Setup, Starting, Early,
       MmioInv, Mapped, PreMap
<1>9. ChipInv'
  BY <1>1, <1>2, <1>3 DEF Known, ChipInv, PreMap
<1> QED BY <1>4, <1>5, <1>6, <1>7, <1>8, <1>9 DEF IInv

\* The second STARTUP interrupt.
LEMMA Startup2Keeps ==
    ASSUME BootCpuFirst, IInv, NEW c \in Ids, Startup(c), pc[c] = "sipi2"
    PROVE  IInv'
<1>1. Known /\ BootTypes /\ Progress /\ LockInv /\ PercpuInv /\ MmioInv /\ ChipInv
  BY Facts
<1>2. c = 0 /\ next \in Ids /\ next # 0
  BY <1>1, Where DEF Startup, Starting, Known, Progress
<1>3. /\ pc[0] = "sipi2"
      /\ pc' = [pc EXCEPT ![0] = "wait", ![next] = IF pc[next] = "halted" THEN "entry" ELSE pc[next]]
      /\ machine' = machine /\ mp' = mp /\ started' = started
      /\ mpentry_kstack' = mpentry_kstack /\ next' = next /\ esp' = esp /\ tss' = tss
      /\ base' = base /\ reserved' = reserved /\ window' = window /\ lapic' = lapic
      /\ lint0' = lint0 /\ irq' = irq /\ created' = created /\ holder' = holder
  BY <1>1, <1>2 DEF Startup, Goto, found, boot, percpu, mmio, chips, kern, Known
<1>4. BootTypes'
  <2>1. pc' \in [Ids -> Pcs]
    BY <1>1, <1>2, <1>3 DEF Known, BootTypes, Pcs, Scheduling
  <2> QED BY <1>1, <1>3, <2>1 DEF BootTypes
<1>5. Progress'
  <2>1. /\ pc'[0] = "wait"
        /\ \A d \in Ids : d # 0 /\ d # next => pc'[d] = pc[d]
        /\ (pc[next] = "halted" /\ pc'[next] = "entry") \/ (pc[next] # "halted" /\ pc'[next] = pc[next])
    BY <1>1, <1>2, <1>3 DEF Known
  <2> QED BY <1>1, <1>2, <1>3, <2>1 DEF Known, Progress, BspPcs, ApPcs, Setup, Starting, Early
<1>6. LockInv'
  BY <1>1, <1>2, <1>3 DEF Known, LockInv, Scheduling, Progress, Starting, BspPcs, Early
<1>7. PercpuInv'
  <2>1. /\ pc'[0] = "wait"
        /\ \A d \in Ids : d # 0 /\ d # next => pc'[d] = pc[d]
        /\ (pc[next] = "halted" /\ pc'[next] = "entry") \/ (pc[next] # "halted" /\ pc'[next] = pc[next])
    BY <1>1, <1>2, <1>3 DEF Known
  <2> QED BY <1>1, <1>2, <1>3, <2>1 DEF Known, Progress, BspPcs, ApPcs, Setup, Starting, Early,
       PercpuInv
<1>8. MmioInv'
  <2>1. /\ pc'[0] = "wait"
        /\ \A d \in Ids : d # 0 /\ d # next => pc'[d] = pc[d]
        /\ (pc[next] = "halted" /\ pc'[next] = "entry") \/ (pc[next] # "halted" /\ pc'[next] = pc[next])
    BY <1>1, <1>2, <1>3 DEF Known
  <2> QED BY <1>1, <1>2, <1>3, <2>1 DEF Known, Progress, BspPcs, ApPcs, Setup, Starting, Early,
       MmioInv, Mapped, PreMap
<1>9. ChipInv'
  BY <1>1, <1>2, <1>3 DEF Known, ChipInv, PreMap
<1> QED BY <1>4, <1>5, <1>6, <1>7, <1>8, <1>9 DEF IInv

\* boot_aps goes on when the CPU has set its status.
LEMMA BootApsWaitKeeps ==
    ASSUME BootCpuFirst, IInv, NEW c \in Ids, BootApsWait(c)
    PROVE  IInv'
<1>1. Known /\ BootTypes /\ Progress /\ LockInv /\ PercpuInv /\ MmioInv /\ ChipInv
  BY Facts
<1>2. c = 0
  BY Where DEF BootApsWait, Starting
<1>3. /\ pc[c] = "wait" /\ pc' = [pc EXCEPT ![c] = "boot_aps"]
      /\ next \in started /\ next' = next + 1
      /\ machine' = machine /\ mp' = mp /\ started' = started
      /\ mpentry_kstack' = mpentry_kstack /\ esp' = esp /\ tss' = tss /\ base' = base
      /\ reserved' = reserved /\ window' = window /\ lapic' = lapic /\ lint0' = lint0
      /\ irq' = irq /\ created' = created /\ holder' = holder
  BY <1>1, <1>2 DEF BootApsWait, Goto, found, boot, percpu, mmio, chips, kern, Known
<1>4. BootTypes'
  <2>1. pc' \in [Ids -> Pcs]
    BY <1>1, <1>2, <1>3 DEF Known, BootTypes, Pcs, Scheduling
  <2> QED BY <1>1, <1>3, <2>1 DEF BootTypes
<1>5. Progress'
  <2>1. next \in Ids /\ next # 0 /\ next < mp.ncpu /\ mp.ismp
    BY <1>1, <1>2, <1>3 DEF Known, Progress, Starting
  <2>2. pc[next] = "lock"
    BY <1>1, <1>2, <1>3, <2>1 DEF Known, PercpuInv
  <2>3. pc'[0] = "boot_aps" /\ \A d \in Ids \ {0} : pc'[d] = pc[d]
    BY <1>1, <1>2, <1>3 DEF Known
  <2> QED BY <1>1, <1>2, <1>3, <2>1, <2>2, <2>3 DEF Known, Progress, BspPcs, ApPcs, Setup,
       Starting, Early
<1>6. LockInv'
  BY <1>1, <1>2, <1>3 DEF Known, LockInv, Scheduling, Progress, Starting, BspPcs, Early
<1>7. PercpuInv'
  BY <1>1, <1>2, <1>3 DEF Known, PercpuInv, Progress
<1>8. MmioInv'
  BY <1>1, <1>2, <1>3 DEF Known, MmioInv, Mapped, PreMap, Progress
<1>9. ChipInv'
  BY <1>1, <1>2, <1>3 DEF Known, ChipInv, PreMap
<1> QED BY <1>4, <1>5, <1>6, <1>7, <1>8, <1>9 DEF IInv

\* env_create.
LEMMA CreateOneKeeps ==
    ASSUME BootCpuFirst, IInv, NEW c \in Ids, EnvCreate(c), created < NEnvs
    PROVE  IInv'
<1>1. Known /\ BootTypes /\ Progress /\ LockInv /\ PercpuInv /\ MmioInv /\ ChipInv
  BY Facts
<1>2. c = 0
  BY Where DEF EnvCreate, Starting
<1>3. /\ pc[c] = "create" /\ pc' = pc
      /\ created' = created + 1
      /\ machine' = machine /\ mp' = mp /\ started' = started
      /\ mpentry_kstack' = mpentry_kstack /\ next' = next /\ esp' = esp /\ tss' = tss
      /\ base' = base /\ reserved' = reserved /\ window' = window /\ lapic' = lapic
      /\ lint0' = lint0 /\ irq' = irq /\ holder' = holder
  BY <1>1, <1>2 DEF EnvCreate, Goto, found, boot, percpu, mmio, chips, kern, Known
<1>4. BootTypes'
  <2>1. pc' \in [Ids -> Pcs]
    BY <1>1, <1>2, <1>3 DEF Known, BootTypes, Pcs, Scheduling
  <2>2. created' \in 0..NEnvs
    BY <1>1, <1>2, <1>3 DEF Known, BootTypes
  <2> QED BY <1>1, <1>3, <2>1, <2>2 DEF BootTypes
<1>5. Progress'
  BY <1>1, <1>2, <1>3 DEF Known, Progress, BspPcs, ApPcs, Setup, Starting, Early
<1>6. LockInv'
  BY <1>1, <1>2, <1>3 DEF Known, LockInv, Scheduling, Progress, Starting, BspPcs, Early
<1>7. PercpuInv'
  BY <1>1, <1>2, <1>3 DEF Known, PercpuInv, Progress
<1>8. MmioInv'
  BY <1>1, <1>2, <1>3 DEF Known, MmioInv, Mapped, PreMap, Progress
<1>9. ChipInv'
  BY <1>1, <1>2, <1>3 DEF Known, ChipInv, PreMap
<1> QED BY <1>4, <1>5, <1>6, <1>7, <1>8, <1>9 DEF IInv

\* sched_yield on the boot CPU.
LEMMA CreateEndsKeeps ==
    ASSUME BootCpuFirst, IInv, NEW c \in Ids, EnvCreate(c), ~(created < NEnvs)
    PROVE  IInv'
<1>1. Known /\ BootTypes /\ Progress /\ LockInv /\ PercpuInv /\ MmioInv /\ ChipInv
  BY Facts
<1>2. c = 0
  BY Where DEF EnvCreate, Starting
<1>3. /\ pc[c] = "create" /\ pc' = [pc EXCEPT ![c] = "sched"]
      /\ machine' = machine /\ mp' = mp /\ started' = started
      /\ mpentry_kstack' = mpentry_kstack /\ next' = next /\ esp' = esp /\ tss' = tss
      /\ base' = base /\ reserved' = reserved /\ window' = window /\ lapic' = lapic
      /\ lint0' = lint0 /\ irq' = irq /\ created' = created /\ holder' = holder
  BY <1>1, <1>2 DEF EnvCreate, Goto, found, boot, percpu, mmio, chips, kern, Known
<1>4. BootTypes'
  <2>1. pc' \in [Ids -> Pcs]
    BY <1>1, <1>2, <1>3 DEF Known, BootTypes, Pcs, Scheduling
  <2> QED BY <1>1, <1>3, <2>1 DEF BootTypes
<1>5. Progress'
  BY <1>1, <1>2, <1>3 DEF Known, Progress, BspPcs, ApPcs, Setup, Starting, Early
<1>6. LockInv'
  BY <1>1, <1>2, <1>3 DEF Known, LockInv, Scheduling, Progress, Starting, BspPcs, Early
<1>7. PercpuInv'
  BY <1>1, <1>2, <1>3 DEF Known, PercpuInv, Progress
<1>8. MmioInv'
  BY <1>1, <1>2, <1>3 DEF Known, MmioInv, Mapped, PreMap, Progress
<1>9. ChipInv'
  <2>1. pc[0] = "create" /\ pc'[0] = "sched"
    BY <1>1, <1>2, <1>3 DEF Known, BootTypes
  <2>2. created = NEnvs
    BY <1>1 DEF Known, BootTypes
  <2> QED BY <1>1, <1>3, <2>1, <2>2 DEF ChipInv, PreMap
<1> QED BY <1>4, <1>5, <1>6, <1>7, <1>8, <1>9 DEF IInv

\* A CPU leaves the kernel.
LEMMA LeaveKernelKeeps ==
    ASSUME BootCpuFirst, IInv, NEW c \in Ids, LeaveKernel(c)
    PROVE  IInv'
<1>1. Known /\ BootTypes /\ Progress /\ LockInv /\ PercpuInv /\ MmioInv /\ ChipInv
  BY Facts
<1>2. c = holder
  BY <1>1 DEF LeaveKernel, LockInv, Scheduling
<1>3. /\ pc[c] = "sched" /\ pc' = [pc EXCEPT ![c] = "out"]
      /\ holder' = NULL
      /\ machine' = machine /\ mp' = mp /\ started' = started
      /\ mpentry_kstack' = mpentry_kstack /\ next' = next /\ esp' = esp /\ tss' = tss
      /\ base' = base /\ reserved' = reserved /\ window' = window /\ lapic' = lapic
      /\ lint0' = lint0 /\ irq' = irq /\ created' = created
  BY <1>1, <1>2 DEF LeaveKernel, Goto, found, boot, percpu, mmio, chips, kern, Known
<1>4. BootTypes'
  <2>1. pc' \in [Ids -> Pcs]
    BY <1>1, <1>2, <1>3 DEF Known, BootTypes, Pcs, Scheduling
  <2>2. holder' \in Ids \cup {NULL}
    BY <1>1, <1>2, <1>3 DEF Known, BootTypes
  <2> QED BY <1>1, <1>3, <2>1, <2>2 DEF BootTypes
<1>5. Progress'
  BY <1>1, <1>2, <1>3 DEF Known, Progress, BspPcs, ApPcs, Setup, Starting, Early
<1>6. LockInv'
  BY <1>1, <1>2, <1>3 DEF Known, LockInv, Scheduling, Starting, NULL
<1>7. PercpuInv'
  BY <1>1, <1>2, <1>3 DEF Known, PercpuInv, Progress
<1>8. MmioInv'
  <2>1. pc[0] \in {"sipi2", "wait"} => next \in Ids
    BY <1>1 DEF Known, Progress, Starting
  <2> QED BY <1>1, <1>3, <2>1 DEF Known, MmioInv, Mapped, PreMap
<1>9. ChipInv'
  BY <1>1, <1>2, <1>3 DEF Known, ChipInv, PreMap
<1> QED BY <1>4, <1>5, <1>6, <1>7, <1>8, <1>9 DEF IInv

\* A CPU that has scheduled comes back to the lock.
LEMMA TrapKeeps ==
    ASSUME BootCpuFirst, IInv, NEW c \in Ids, Trap(c)
    PROVE  IInv'
<1>1. Known /\ BootTypes /\ Progress /\ LockInv /\ PercpuInv /\ MmioInv /\ ChipInv
  BY Facts
<1>2. c # holder
  BY <1>1 DEF Trap, LockInv, Starting
<1>3. /\ pc[c] = "out" /\ pc' = [pc EXCEPT ![c] = "trap"]
      /\ holder' = holder
      /\ machine' = machine /\ mp' = mp /\ started' = started
      /\ mpentry_kstack' = mpentry_kstack /\ next' = next /\ esp' = esp /\ tss' = tss
      /\ base' = base /\ reserved' = reserved /\ window' = window /\ lapic' = lapic
      /\ lint0' = lint0 /\ irq' = irq /\ created' = created
  BY <1>1, <1>2 DEF Trap, Goto, found, boot, percpu, mmio, chips, kern, Known
<1>4. BootTypes'
  <2>1. pc' \in [Ids -> Pcs]
    BY <1>1, <1>2, <1>3 DEF Known, BootTypes, Pcs, Scheduling
  <2>2. holder' \in Ids \cup {NULL}
    BY <1>1, <1>2, <1>3 DEF Known, BootTypes
  <2> QED BY <1>1, <1>3, <2>1, <2>2 DEF BootTypes
<1>5. Progress'
  BY <1>1, <1>2, <1>3 DEF Known, Progress, BspPcs, ApPcs, Setup, Starting, Early
<1>6. LockInv'
  BY <1>1, <1>2, <1>3 DEF Known, LockInv, Scheduling, Starting, NULL
<1>7. PercpuInv'
  BY <1>1, <1>2, <1>3 DEF Known, PercpuInv, Progress
<1>8. MmioInv'
  <2>1. pc[0] \in {"sipi2", "wait"} => next \in Ids
    BY <1>1 DEF Known, Progress, Starting
  <2> QED BY <1>1, <1>3, <2>1 DEF Known, MmioInv, Mapped, PreMap
<1>9. ChipInv'
  BY <1>1, <1>2, <1>3 DEF Known, ChipInv, PreMap
<1> QED BY <1>4, <1>5, <1>6, <1>7, <1>8, <1>9 DEF IInv

\* The CPU in the kernel stays in the monitor.
LEMMA MonitorKeeps ==
    ASSUME BootCpuFirst, IInv, NEW c \in Ids, Monitor(c)
    PROVE  IInv'
<1>1. Known /\ BootTypes /\ Progress /\ LockInv /\ PercpuInv /\ MmioInv /\ ChipInv
  BY Facts
<1>2. c = holder
  BY <1>1 DEF Monitor, LockInv, Scheduling
<1>3. /\ pc[c] \in {"sched", "monitor"} /\ pc' = [pc EXCEPT ![c] = "monitor"]
      /\ holder' = holder
      /\ machine' = machine /\ mp' = mp /\ started' = started
      /\ mpentry_kstack' = mpentry_kstack /\ next' = next /\ esp' = esp /\ tss' = tss
      /\ base' = base /\ reserved' = reserved /\ window' = window /\ lapic' = lapic
      /\ lint0' = lint0 /\ irq' = irq /\ created' = created
  BY <1>1, <1>2 DEF Monitor, Goto, found, boot, percpu, mmio, chips, kern, Known
<1>4. BootTypes'
  <2>1. pc' \in [Ids -> Pcs]
    BY <1>1, <1>2, <1>3 DEF Known, BootTypes, Pcs, Scheduling
  <2>2. holder' \in Ids \cup {NULL}
    BY <1>1, <1>2, <1>3 DEF Known, BootTypes
  <2> QED BY <1>1, <1>3, <2>1, <2>2 DEF BootTypes
<1>5. Progress'
  BY <1>1, <1>2, <1>3 DEF Known, Progress, BspPcs, ApPcs, Setup, Starting, Early
<1>6. LockInv'
  BY <1>1, <1>2, <1>3 DEF Known, LockInv, Scheduling, Starting, NULL
<1>7. PercpuInv'
  BY <1>1, <1>2, <1>3 DEF Known, PercpuInv, Progress
<1>8. MmioInv'
  <2>1. pc[0] \in {"sipi2", "wait"} => next \in Ids
    BY <1>1 DEF Known, Progress, Starting
  <2> QED BY <1>1, <1>3, <2>1 DEF Known, MmioInv, Mapped, PreMap
<1>9. ChipInv'
  BY <1>1, <1>2, <1>3 DEF Known, ChipInv, PreMap
<1> QED BY <1>4, <1>5, <1>6, <1>7, <1>8, <1>9 DEF IInv

\* mpentry.S: the published stack is still the one of this CPU.
LEMMA MpEntryCodeKeeps ==
    ASSUME BootCpuFirst, IInv, NEW c \in Ids, MpEntryCode(c)
    PROVE  IInv'
<1>1. Known /\ BootTypes /\ Progress /\ LockInv /\ PercpuInv /\ MmioInv /\ ChipInv
  BY Facts
<1>2. BeingStarted(c)
  BY Where DEF MpEntryCode, Setup
<1>3. /\ pc[c] = "entry" /\ pc' = [pc EXCEPT ![c] = "lapic_init"]
      /\ esp' = [esp EXCEPT ![c] = c]
      /\ machine' = machine /\ mp' = mp /\ started' = started
      /\ mpentry_kstack' = mpentry_kstack /\ next' = next /\ tss' = tss
      /\ base' = base /\ reserved' = reserved /\ window' = window /\ lapic' = lapic
      /\ lint0' = lint0 /\ irq' = irq /\ created' = created /\ holder' = holder
  BY <1>1, <1>2 DEF MpEntryCode, Goto, found, boot, percpu, mmio, chips, kern, Known, BeingStarted
<1>4. BootTypes'
  <2>1. pc' \in [Ids -> Pcs]
    BY <1>1, <1>2, <1>3 DEF Known, BootTypes, Pcs, Scheduling
  <2>2. esp' \in [Ids -> -1..NCPU-1]
    BY <1>1, <1>2, <1>3 DEF Known, BootTypes, BeingStarted
  <2> QED BY <1>1, <1>3, <2>1, <2>2 DEF BootTypes
<1>5. Progress'
  BY <1>1, <1>2, <1>3 DEF Known, Progress, BspPcs, ApPcs, Setup, Starting, Early, BeingStarted
<1>6. LockInv'
  BY <1>1, <1>2, <1>3 DEF Known, LockInv, Scheduling, Progress, Starting, BspPcs, Early, BeingStarted
<1>7. PercpuInv'
  BY SMTT(30), <1>1, <1>2, <1>3 DEF Known, PercpuInv, Progress, BeingStarted, BootTypes
<1>8. MmioInv'
  BY <1>1, <1>2, <1>3 DEF Known, MmioInv, Mapped, PreMap, Progress, BeingStarted
<1>9. ChipInv'
  BY <1>1, <1>2, <1>3 DEF Known, ChipInv, PreMap, BeingStarted
<1> QED BY <1>4, <1>5, <1>6, <1>7, <1>8, <1>9 DEF IInv

\* trap_init_percpu on an application processor.
LEMMA TrapInitPercpuKeeps ==
    ASSUME BootCpuFirst, IInv, NEW c \in Ids, TrapInitPercpu(c)
    PROVE  IInv'
<1>1. Known /\ BootTypes /\ Progress /\ LockInv /\ PercpuInv /\ MmioInv /\ ChipInv
  BY Facts
<1>2. BeingStarted(c)
  BY Where DEF TrapInitPercpu, Setup
<1>3. /\ pc[c] = "percpu" /\ pc' = [pc EXCEPT ![c] = "started"]
      /\ tss' = [tss EXCEPT ![c] = c]
      /\ machine' = machine /\ mp' = mp /\ started' = started
      /\ mpentry_kstack' = mpentry_kstack /\ next' = next /\ esp' = esp
      /\ base' = base /\ reserved' = reserved /\ window' = window /\ lapic' = lapic
      /\ lint0' = lint0 /\ irq' = irq /\ created' = created /\ holder' = holder
  BY <1>1, <1>2 DEF TrapInitPercpu, Goto, found, boot, percpu, mmio, chips, kern, Known,
       BeingStarted, cpunum
<1>4. BootTypes'
  <2>1. pc' \in [Ids -> Pcs]
    BY <1>1, <1>2, <1>3 DEF Known, BootTypes, Pcs, Scheduling
  <2>2. tss' \in [Ids -> -1..NCPU-1]
    BY <1>1, <1>2, <1>3 DEF Known, BootTypes, BeingStarted
  <2> QED BY <1>1, <1>3, <2>1, <2>2 DEF BootTypes
<1>5. Progress'
  BY <1>1, <1>2, <1>3 DEF Known, Progress, BspPcs, ApPcs, Setup, Starting, Early, BeingStarted
<1>6. LockInv'
  BY <1>1, <1>2, <1>3 DEF Known, LockInv, Scheduling, Progress, Starting, BspPcs, Early, BeingStarted
<1>7. PercpuInv'
  BY <1>1, <1>2, <1>3 DEF Known, PercpuInv, Progress, BeingStarted
<1>8. MmioInv'
  BY <1>1, <1>2, <1>3 DEF Known, MmioInv, Mapped, PreMap, Progress, BeingStarted
<1>9. ChipInv'
  BY <1>1, <1>2, <1>3 DEF Known, ChipInv, PreMap, BeingStarted
<1> QED BY <1>4, <1>5, <1>6, <1>7, <1>8, <1>9 DEF IInv

\* cpu_status = CPU_STARTED.
LEMMA StartedKeeps ==
    ASSUME BootCpuFirst, IInv, NEW c \in Ids, Started(c)
    PROVE  IInv'
<1>1. Known /\ BootTypes /\ Progress /\ LockInv /\ PercpuInv /\ MmioInv /\ ChipInv
  BY Facts
<1>2. BeingStarted(c)
  BY Where DEF Started, Setup
<1>3. /\ pc[c] = "started" /\ pc' = [pc EXCEPT ![c] = "lock"]
      /\ started' = started \cup {c}
      /\ machine' = machine /\ mp' = mp /\ mpentry_kstack' = mpentry_kstack
      /\ next' = next /\ esp' = esp /\ tss' = tss /\ base' = base
      /\ reserved' = reserved /\ window' = window /\ lapic' = lapic /\ lint0' = lint0
      /\ irq' = irq /\ created' = created /\ holder' = holder
  BY <1>1, <1>2 DEF Started, Goto, found, boot, percpu, mmio, chips, kern, Known, BeingStarted,
       cpunum
<1>4. BootTypes'
  <2>1. pc' \in [Ids -> Pcs]
    BY <1>1, <1>2, <1>3 DEF Known, BootTypes, Pcs, Scheduling
  <2>2. started' \subseteq 0..NCPU-1
    <3>1. c \in 0..NCPU-1
      BY <1>1, <1>2 DEF Known, BeingStarted, BootTypes
    <3> QED BY <1>1, <1>3, <3>1 DEF BootTypes
  <2> QED BY <1>1, <1>3, <2>1, <2>2 DEF BootTypes
<1>5. Progress'
  BY <1>1, <1>2, <1>3 DEF Known, Progress, BspPcs, ApPcs, Setup, Starting, Early, BeingStarted
<1>6. LockInv'
  BY <1>1, <1>2, <1>3 DEF Known, LockInv, Scheduling, Progress, Starting, BspPcs, Early, BeingStarted
<1>7. PercpuInv'
  BY <1>1, <1>2, <1>3 DEF Known, PercpuInv, Progress, BeingStarted
<1>8. MmioInv'
  BY <1>1, <1>2, <1>3 DEF Known, MmioInv, Mapped, PreMap, Progress, BeingStarted
<1>9. ChipInv'
  BY <1>1, <1>2, <1>3 DEF Known, ChipInv, PreMap, BeingStarted
<1> QED BY <1>4, <1>5, <1>6, <1>7, <1>8, <1>9 DEF IInv
-----------------------------------------------------------------------------
(* The invariant holds, and what it implies.                                *)

\* The machine is in this state when i386_init gets to mp_init.
LEMMA InitKeeps == ASSUME BootCpuFirst, Init PROVE IInv
<1>1. machine \in Machines /\ Bsp = 0 /\ 0 \in Ids /\ Ids \subseteq Nat
  <2>1. machine \in Machines
    BY DEF Init
  <2>2. Bsp = 0 /\ 0 \in Ids
    BY <2>1, BspIsZero DEF Bsp
  <2>3. Ids \subseteq Nat
    BY BspIsZero DEF Ids
  <2> QED BY <2>1, <2>2, <2>3
<1>2. NCPU \in Nat /\ NCPU > 0 /\ NEnvs \in Nat /\ MmioPages \in Nat
  BY SmpBootAssumption
<1>3. /\ pc = [c \in Ids |-> IF c = 0 THEN "mp_init" ELSE "off"]
      /\ mp = NoMp /\ started = {} /\ mpentry_kstack = NULL /\ next = 0
      /\ esp = [c \in Ids |-> NULL] /\ tss = [c \in Ids |-> IF c = 0 THEN 0 ELSE NULL]
      /\ base = 0 /\ reserved = [c \in Ids |-> NULL]
      /\ window = [v \in 0..MmioPages-1 |-> {}] /\ lapic = NULL /\ lint0 = {}
      /\ irq = [mask |-> "keyboard", didinit |-> FALSE, chip |-> "bios"]
      /\ created = 0 /\ holder = NULL
  BY <1>1 DEF Init
<1>4. /\ mp \in [bootcpu : {0}, ncpu : 0..NCPU, ismp : BOOLEAN, lapicaddr : BOOLEAN,
                 stop : BOOLEAN]
      /\ mp.ncpu = 0 /\ ~mp.ismp /\ ~mp.lapicaddr
  BY <1>2, <1>3 DEF NoMp
<1>5. Found(machine, mp)
  BY <1>4 DEF Found
<1>6. /\ pc \in [Ids -> Pcs] /\ pc[0] = "mp_init"
      /\ \A c \in Ids \ {0} : pc[c] = "off"
  BY <1>1, <1>3 DEF Pcs, Scheduling
<1>7. BootTypes
  <2>1. esp \in [Ids -> -1..NCPU-1] /\ tss \in [Ids -> -1..NCPU-1] /\ mpentry_kstack \in -1..NCPU-1
    BY <1>2, <1>3 DEF NULL
  <2>2. reserved \in [Ids -> -1..MmioPages-1] /\ lapic \in -1..MmioPages-1
    BY <1>2, <1>3 DEF NULL
  <2>3. window \in [0..MmioPages-1 -> SUBSET Ids]
    BY <1>3
  <2>4. irq \in [mask : {"keyboard"}, didinit : BOOLEAN, chip : {"bios", "keyboard"}]
    BY <1>3
  <2>5. created \in 0..NEnvs /\ holder \in Ids \cup {NULL} /\ started \subseteq 0..NCPU-1 /\ lint0 \subseteq Ids
    BY <1>2, <1>3
  <2> QED BY <1>1, <1>5, <1>6, <2>1, <2>2, <2>3, <2>4, <2>5 DEF BootTypes
<1>8. Progress
  BY <1>1, <1>3, <1>4, <1>6 DEF Progress, BspPcs, ApPcs, Early, Starting
<1>9. LockInv
  BY <1>1, <1>3, <1>6 DEF LockInv, Scheduling, Starting, NULL
<1>10. PercpuInv
  BY <1>1, <1>3, <1>6 DEF PercpuInv
<1>11. MmioInv
  BY <1>1, <1>2, <1>3, <1>4, <1>6 DEF MmioInv
<1>12. ChipInv
  BY <1>3, <1>4, <1>6 DEF ChipInv, PreMap
<1> QED BY <1>7, <1>8, <1>9, <1>10, <1>11, <1>12 DEF IInv

\* Every step of every CPU keeps the invariant.
LEMMA NextKeeps == ASSUME BootCpuFirst, IInv, [Next]_vars PROVE IInv'
<1>1. CASE UNCHANGED vars
  <2>1. /\ machine' = machine /\ mp' = mp /\ pc' = pc /\ started' = started
        /\ mpentry_kstack' = mpentry_kstack /\ next' = next /\ esp' = esp /\ tss' = tss
        /\ base' = base /\ reserved' = reserved /\ window' = window /\ lapic' = lapic
        /\ lint0' = lint0 /\ irq' = irq /\ created' = created /\ holder' = holder
    BY <1>1 DEF vars, found, boot, percpu, mmio, chips, kern
  <2>2. BootTypes'
    BY <2>1 DEF IInv, BootTypes
  <2>3. Progress'
    BY <2>1 DEF IInv, Progress
  <2>4. LockInv' /\ PercpuInv'
    BY <2>1 DEF IInv, LockInv, Scheduling, PercpuInv
  <2>5. MmioInv'
    BY <2>1 DEF IInv, MmioInv
  <2>6. ChipInv'
    BY <2>1 DEF IInv, ChipInv
  <2> QED BY <2>2, <2>3, <2>4, <2>5, <2>6 DEF IInv
<1>2. ASSUME NEW c \in Ids, Step(c) PROVE IInv'
  <2>1. CASE MpInitStep(c)
    BY <2>1, MpInitStepKeeps
  <2>2. CASE LapicInit(c)
    BY <2>2, LapicSkipKeeps, LapicInitKeeps
  <2>3. CASE MmioMap(c)
    BY <2>3, MmioMapKeeps
  <2>4. CASE LapicRegisters(c)
    BY <2>4, RegistersBspKeeps, RegistersApKeeps
  <2>5. CASE PicInit(c)
    BY <2>5, PicInitKeeps
  <2>6. CASE LockKernel(c)
    BY <2>6, LockBspKeeps, LockAgainKeeps
  <2>7. CASE BootApsLoop(c)
    <3>1. next >= mp.ncpu \/ next < mp.ncpu
      BY <2>7 DEF BootApsLoop
    <3> QED BY <2>7, <3>1, LoopEndsKeeps, LoopSkipsKeeps, LoopStartsKeeps
  <2>8. CASE LapicStartap(c)
    BY <2>8, LapicStartapKeeps
  <2>9. CASE Startup(c)
    <3>1. pc[c] \in {"sipi1", "sipi2"}
      BY <2>9 DEF Startup
    <3> QED BY <2>9, <3>1, Startup1Keeps, Startup2Keeps
  <2>10. CASE BootApsWait(c)
    BY <2>10, BootApsWaitKeeps
  <2>11. CASE EnvCreate(c)
    BY <2>11, CreateOneKeeps, CreateEndsKeeps
  <2>12. CASE LeaveKernel(c) \/ Trap(c) \/ Monitor(c)
    BY <2>12, LeaveKernelKeeps, TrapKeeps, MonitorKeeps
  <2>13. CASE MpEntryCode(c)
    BY <2>13, MpEntryCodeKeeps
  <2>14. CASE TrapInitPercpu(c)
    BY <2>14, TrapInitPercpuKeeps
  <2>15. CASE Started(c)
    BY <2>15, StartedKeeps
  <2> QED BY <1>2, <2>1, <2>2, <2>3, <2>4, <2>5, <2>6, <2>7, <2>8, <2>9, <2>10, <2>11, <2>12,
             <2>13, <2>14, <2>15 DEF Step
<1> QED BY <1>1, <1>2 DEF Next

\* The invariant implies the type invariant of SmpBoot.
LEMMA InvTypeOK == ASSUME BootCpuFirst, IInv PROVE TypeOK
<1>1. Known /\ BootTypes /\ Progress /\ MmioInv
  BY Facts
<1>2. mp \in [bootcpu : 0..NCPU-1, ncpu : 0..NCPU, ismp : BOOLEAN, lapicaddr : BOOLEAN,
              stop : BOOLEAN]
  BY <1>1 DEF BootTypes, Found, Known
<1>3. next \in 0..NCPU
  BY <1>1 DEF Progress, Known
<1>4. base \in 0..MmioPages
  BY <1>1 DEF MmioInv, Progress, Known, Starting
<1>5. irq.didinit \in BOOLEAN
  BY <1>1 DEF BootTypes
<1> QED BY <1>1, <1>2, <1>3, <1>4, <1>5 DEF TypeOK, BootTypes

\* No two CPUs share a stack.
LEMMA InvStacks == ASSUME BootCpuFirst, IInv PROVE StacksPrivate
<1>1. Known /\ PercpuInv
  BY Facts
<1>2. ASSUME NEW c \in InC PROVE c \in Nat /\ esp[c] = IF c = 0 THEN -1 ELSE c
  BY <1>1 DEF InC, Known, PercpuInv, NULL
<1>3. BootStacksPrivate
  BY <1>2 DEF BootStacksPrivate
<1>4. ASSUME NEW c \in Present, tss[c] # NULL PROVE tss[c] = c
  BY <1>1, <1>4 DEF Known, PercpuInv
<1>5. TrapStacksPrivate
  BY <1>4, Zenon DEF TrapStacksPrivate
<1> QED BY <1>3, <1>5 DEF StacksPrivate

\* A set whose elements are all the same has at most one.
LEMMA AtMostOne ==
    ASSUME NEW S, \A c, d \in S : c = d
    PROVE  Cardinality(S) <= 1
<1>1. CASE S = {}
  BY <1>1, FS_EmptySet
<1>2. CASE S # {}
  <2>1. PICK c : S = {c}
    BY <1>2
  <2>2. Cardinality(S) = 1
    BY <2>1, FS_Singleton
  <2> QED BY <2>2
<1> QED BY <1>1, <1>2

\* One CPU at a time sets itself up, each in a window of its own.
LEMMA InvSetup == ASSUME BootCpuFirst, IInv PROVE SetupExclusive
<1>1. Known /\ Progress /\ MmioInv
  BY Facts
<1> DEFINE setup == {c \in Present :
                        pc[c] \in {"mp_init", "lapic_init", "mmio", "registers", "pic_init",
                                   "percpu", "started"}}
<1>2. ASSUME NEW c \in setup, NEW d \in setup PROVE c = d
  <2>1. c \in Ids /\ d \in Ids
    BY <1>1 DEF Known
  <2>2. CASE c = 0
    <3>1. pc[0] \in Early
      BY <2>2 , <1>1 DEF Early, Progress, BspPcs, Starting
    <3>2. \A e \in Ids \ {0} : pc[e] = "off"
      BY <2>1, <3>1, Where DEF Alone
    <3> QED BY <2>1, <2>2, <3>2
  <2>3. CASE c # 0
    <3>1. pc[c] \in Setup
      BY <2>1, <2>3, Where DEF Setup, Starting
    <3>2. BeingStarted(c)
      BY <2>1, <2>3, <3>1, Where
    <3> QED BY <2>1, <3>2 DEF BeingStarted
  <2> QED BY <2>2, <2>3
<1>3. Cardinality(setup) <= 1
  <2> HIDE DEF setup
  <2> QED BY <1>2, AtMostOne
<1>4. setup \notin {{}, {Bsp}} => pc[Bsp] \in {"sipi2", "wait"}
  <2> SUFFICES ASSUME setup # {}, setup # {0} PROVE pc[0] \in {"sipi2", "wait"}
    BY <1>1 DEF Known
  <2>1. PICK c \in setup : c # 0
    <3> HIDE DEF setup
    <3> QED BY <1>2
  <2>2. c \in Ids /\ pc[c] \in Setup
    BY <1>1, <2>1, Where DEF Setup, Starting, Known
  <2>3. BeingStarted(c)
    BY <2>1, <2>2, Where
  <2> QED BY <2>3 DEF BeingStarted
<1>5. OneInSetup
  BY <1>3, <1>4 DEF OneInSetup
<1>6. WindowsDisjoint
  <2>1. ASSUME NEW v \in 0..MmioPages-1 PROVE Cardinality(window[v]) <= 1
    BY <1>1, AtMostOne DEF MmioInv
  <2> QED BY <1>1, <2>1 DEF WindowsDisjoint, MmioInv
<1> QED BY <1>5, <1>6 DEF SetupExclusive

\* Nobody schedules before everything is up.
LEMMA InvSched == ASSUME BootCpuFirst, IInv PROVE SchedAfterBoot
<1>1. Known /\ BootTypes /\ Progress /\ LockInv /\ PercpuInv /\ ChipInv
  BY Facts
<1> SUFFICES ASSUME NEW c \in Present, pc[c] \in Scheduling
             PROVE  /\ created = NEnvs
                    /\ mp.ismp => started = 0..mp.ncpu-1 /\ lint0 = {Bsp}
                    /\ irq.chip = irq.mask
  BY DEF SchedAfterBoot
<1>2. pc[0] \in Scheduling
  BY <1>1 DEF Known, LockInv, Scheduling
<1>3. next = mp.ncpu /\ created = NEnvs /\ irq.chip = irq.mask
  BY <1>1, <1>2 DEF Progress, ChipInv, PreMap, Scheduling
<1>4. ASSUME mp.ismp PROVE lint0 = {Bsp}
  BY <1>1, <1>2, <1>4 DEF ChipInv, PreMap, Known, Scheduling
<1>5. ASSUME mp.ismp PROVE started = 0..mp.ncpu-1
  <2>1. mp.ncpu \in Nat /\ mp.ncpu > 0 /\ mp.ncpu <= NCPU /\ NCPU \in Nat
    BY <1>1, <1>5 DEF BootTypes, Found, Known
  <2>2. \A d \in 0..NCPU-1 : d \in started <=> d = 0 \/ d < mp.ncpu
    BY <1>1, <1>2, <1>3, <1>5 DEF PercpuInv, Scheduling
  <2>3. started \subseteq 0..NCPU-1
    BY <1>1 DEF BootTypes
  <2>4. ASSUME NEW d PROVE d \in started <=> d \in 0..mp.ncpu-1
    <3>1. d \in 0..mp.ncpu-1 => d \in 0..NCPU-1
      BY <2>1
    <3>2. CASE d \in 0..NCPU-1
      BY <2>1, <2>2, <3>2
    <3> QED BY <2>3, <3>1, <3>2
  <2> QED BY <2>4
<1> QED BY <1>3, <1>4, <1>5

-----------------------------------------------------------------------------
(* The theorems.                                                            *)

\* The invariant holds of every boot.
THEOREM InvariantHolds == BootCpuFirst => (Spec => []IInv)
<1> SUFFICES ASSUME BootCpuFirst PROVE Spec => []IInv
  OBVIOUS
<1>1. Init => IInv
  BY InitKeeps
<1>2. IInv /\ [Next]_vars => IInv'
  BY NextKeeps
<1> QED BY <1>1, <1>2, PTL DEF Spec

\* On machines whose table lists the boot processor first, cpus[],
\* percpu_kstacks[] and the MMIO window are never indexed out of bounds,
\* however many processors follow it.  Of the other tables
\* BootcpuInCpusOrOnePast says what mp_init makes.
THEOREM BootTypesHold == BootCpuFirst => (Spec => []TypeOK)
<1> SUFFICES ASSUME BootCpuFirst PROVE Spec => []TypeOK
  OBVIOUS
<1>1. IInv => TypeOK
  BY InvTypeOK
<1> QED BY <1>1, InvariantHolds, PTL

\* No two CPUs run on one boot stack, though boot_aps hands all of them out
\* through one variable, and no two take traps on one.
THEOREM StacksStayPrivate == BootCpuFirst => (Spec => []StacksPrivate)
<1> SUFFICES ASSUME BootCpuFirst PROVE Spec => []StacksPrivate
  OBVIOUS
<1>1. IInv => StacksPrivate
  BY InvStacks
<1> QED BY <1>1, InvariantHolds, PTL

\* What lapic_init, mmio_map_region and trap_init_percpu write without a lock
\* is written by one CPU at a time.
THEOREM SetupStaysExclusive == BootCpuFirst => (Spec => []SetupExclusive)
<1> SUFFICES ASSUME BootCpuFirst PROVE Spec => []SetupExclusive
  OBVIOUS
<1>1. IInv => SetupExclusive
  BY InvSetup
<1> QED BY <1>1, InvariantHolds, PTL

\* sched_yield is first called when boot_aps and ENV_CREATE are done.
THEOREM SchedulesAfterBoot == BootCpuFirst => (Spec => []SchedAfterBoot)
<1> SUFFICES ASSUME BootCpuFirst PROVE Spec => []SchedAfterBoot
  OBVIOUS
<1>1. IInv => SchedAfterBoot
  BY InvSched
<1> QED BY <1>1, InvariantHolds, PTL
=============================================================================
