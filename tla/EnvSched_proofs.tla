--------------------------- MODULE EnvSched_proofs ---------------------------
(***************************************************************************)
(* Proofs about EnvSched, for any number of CPUs, environments and         *)
(* generations.  A handler is: change the environment table, then leave    *)
(* the kernel.  Ready describes the table at the moment of leaving; the    *)
(* lemmas EnvRunKeepsInv, SchedYieldKeepsInv and TrapReturnKeepsInv show   *)
(* that every way out re-establishes IInv from it, and each handler then   *)
(* only has to establish Ready.                                            *)
(***************************************************************************)
EXTENDS EnvSched, TLAPS, SequenceTheorems

\* The environment table a handler on CPU c leaves behind: `st', `runs',
\* `recv' and `fl' are env_status, env_runs, env_ipc_recving and
\* env_free_list, `cur' is what curenv[c] has become.
Ready(c, st, runs, recv, fl, cur) ==
    /\ st \in [Envs -> Statuses]
    /\ runs \in [Envs -> {0, 1}]
    /\ recv \in [Envs -> BOOLEAN]
    /\ fl \in Seq(Envs)
    /\ cur \in Envs \cup {NULL}
    /\ cur # NULL => st[cur] \in {"RUNNING", "RUNNABLE", "NOT_RUNNABLE"}
    /\ \A e \in Envs : st[e] \in {"RUNNING", "DYING"} =>
            e = cur \/ \E d \in CPUs \ {c} : curenv[d] = e
    /\ \A d \in CPUs \ {c} : curenv[d] # NULL =>
            st[curenv[d]] \in {"RUNNING", "DYING"} /\ curenv[d] # cur
    /\ ListExact(fl, st)
    /\ \A e \in Envs : recv[e] /\ st[e] # "FREE" =>
            st[e] = "NOT_RUNNABLE" /\ runs[e] = 1
    /\ \A e \in Envs : st[e] \in {"RUNNING", "DYING"} => runs[e] = 1

\* The variables no way out of the kernel touches.
Rest(recv, fl) ==
    /\ env_ipc_recving' = recv
    /\ env_free_list' = fl
    /\ env_id' \in [Envs -> EnvIds]
    /\ env_parent_id' \in [Envs -> EnvIds]

\* CPU c is in the kernel with the lock, the state before its handler is good.
InKernel(c) == IInv /\ kernel_lock = c /\ pc[c] \in {"boot", "kernel"}

-----------------------------------------------------------------------------
\* While c is in a handler no other CPU is in the kernel, in a monitor or in panic.
LEMMA OthersOutside ==
    ASSUME NEW c \in CPUs, InKernel(c)
    PROVE  /\ \A d \in CPUs \ {c} : pc[d] \in {"user", "spin", "pop", "halted"}
           /\ pc[c] \in {"boot", "kernel"}
BY CPUAssumption DEF InKernel, IInv, TypeOK, Places, KernelExclusive, Inside, NoPanic

\* env_run of a RUNNABLE environment re-establishes the invariant.
LEMMA EnvRunKeepsInv ==
    ASSUME NEW c \in CPUs, NEW e \in Envs, NEW st, NEW runs, NEW recv, NEW fl,
           NEW cur, NEW pgdir,
           InKernel(c), Ready(c, st, runs, recv, fl, cur), Rest(recv, fl),
           Preempt(st, cur)[e] = "RUNNABLE",
           EnvRun(c, e, st, runs, cur, pgdir)
    PROVE  IInv'
<1> DEFINE st1 == Preempt(st, cur)
<1>1. /\ \A d \in CPUs \ {c} : pc[d] \in {"user", "spin", "pop", "halted"}
      /\ pc[c] \in {"boot", "kernel"}
  BY OthersOutside
<1>2. kernel_lock = c /\ IInv
  BY DEF InKernel
<1>3. /\ env_status' = [st1 EXCEPT ![e] = "RUNNING"]
      /\ env_runs' = [runs EXCEPT ![e] = 1]
      /\ curenv' = [curenv EXCEPT ![c] = e]
      /\ cr3' = [cr3 EXCEPT ![c] = e]
      /\ pc' = [pc EXCEPT ![c] = "pop"]
      /\ kernel_lock' = NULL
      /\ UNCHANGED <<cpu_status, env_cpunum>>
  BY <1>2 DEF EnvRun
<1>4. /\ st1 \in [Envs -> Statuses]
      /\ st1[e] = "RUNNABLE"
      /\ \A x \in Envs : st1[x] # st[x] => x = cur /\ st[x] = "RUNNING" /\ st1[x] = "RUNNABLE"
      /\ cur # NULL => st1[cur] # "RUNNING"
  BY NENVAssumption DEF Ready, Preempt, StillRunning, Statuses
<1>5. TypeOK'
  BY <1>2, <1>3, <1>4 DEF IInv, TypeOK, Ready, Rest, Statuses, Places
<1>6. KernelExclusive'
  BY <1>1, <1>2, <1>3, CPUAssumption DEF IInv, TypeOK, KernelExclusive, Inside
<1>7. \A d \in CPUs \ {c} : curenv[d] # NULL => curenv[d] # e
  <2>1. e # cur => st[e] = "RUNNABLE"
    BY <1>4
  <2> QED BY <2>1, <1>2 DEF Ready
<1>8. OneCpuPerEnv'
  BY <1>2, <1>3, <1>7 DEF IInv, TypeOK, OneCpuPerEnv
<1>9. StatusTracksCurenv'
  <2>1. \A d \in CPUs : pc'[d] # "monitor" /\ curenv'[d] = IF d = c THEN e ELSE curenv[d]
    BY <1>1, <1>2, <1>3 DEF IInv, TypeOK
  <2>2. \A x \in Envs : env_status'[x] = IF x = e THEN "RUNNING" ELSE st1[x]
    BY <1>3, <1>4
  <2>3. ASSUME NEW x \in Envs, env_status'[x] \in {"RUNNING", "DYING"}
        PROVE  \E d \in CPUs : curenv'[d] = x
    <3>1. CASE x = e
      BY <3>1, <2>1
    <3>2. CASE x # e
      <4>1. st1[x] \in {"RUNNING", "DYING"} /\ st[x] = st1[x] /\ x # cur
        BY <3>2, <2>2, <2>3, <1>4, NENVAssumption DEF Ready
      <4>2. PICK d \in CPUs \ {c} : curenv[d] = x
        BY <4>1 DEF Ready
      <4> QED BY <4>2, <2>1
    <3> QED BY <3>1, <3>2
  <2>4. ASSUME NEW x \in Envs, NEW d \in CPUs, curenv'[d] = x
        PROVE  env_status'[x] \in {"RUNNING", "DYING"}
    <3>1. CASE d = c
      BY <3>1, <2>1, <2>2, <2>4
    <3>2. CASE d # c
      BY <3>2, <2>1, <2>2, <2>4, <1>4, NENVAssumption DEF Ready
    <3> QED BY <3>1, <3>2
  <2> QED BY <2>1, <2>3, <2>4 DEF StatusTracksCurenv
<1>10. PgdirTracksCurenv'
  <2>1. \A d \in CPUs : cr3'[d] = curenv'[d]
    BY <1>2, <1>3 DEF IInv, TypeOK, PgdirTracksCurenv
  <2>2. \A d \in CPUs : curenv'[d] # NULL => env_status'[curenv'[d]] # "FREE"
    BY <1>2, <1>3, <1>4, NENVAssumption DEF IInv, TypeOK, Ready
  <2> QED BY <2>1, <2>2 DEF PgdirTracksCurenv
<1>11. FreeListExact'
  <2>1. \A x \in Envs : env_status'[x] = "FREE" <=> st[x] = "FREE"
    BY <1>3, <1>4
  <2>2. ListExact(env_free_list', env_status')
    BY <2>1 DEF Ready, Rest, ListExact
  <2> QED BY <2>2 DEF FreeListExact, ListExact
<1>12. ReceiverIsBlocked'
  BY <1>3, <1>4 DEF Ready, Rest, ReceiverIsBlocked
<1>13. NoPanic'
  BY <1>2, <1>3, NENVAssumption DEF IInv, TypeOK, NoPanic
<1>14. MonitorOnlyWhenIdleOrAsked'
  <2>1. \A d \in CPUs : pc'[d] \notin {"monitor", "debug"}
    BY <1>1, <1>2, <1>3 DEF IInv, TypeOK
  <2> QED BY <2>1 DEF MonitorOnlyWhenIdleOrAsked
<1>15. CpuStatusOK'
  BY <1>1, <1>2, <1>3 DEF IInv, TypeOK, CpuStatusOK
<1>16. CurenvHasRun'
  BY <1>3, <1>4 DEF Ready, CurenvHasRun
<1>17. CpunumIsCurrent'
  BY <1>2, <1>3 DEF IInv, TypeOK, CpunumIsCurrent
<1> QED
  BY <1>5, <1>6, <1>8, <1>9, <1>10, <1>11, <1>12, <1>13, <1>14, <1>15, <1>16, <1>17 DEF IInv

\* sched_halt re-establishes the invariant, in the monitor and in hlt.
LEMMA SchedHaltKeepsInv ==
    ASSUME NEW c \in CPUs, NEW st, NEW runs, NEW recv, NEW fl, NEW cur,
           InKernel(c), Ready(c, st, runs, recv, fl, cur), Rest(recv, fl),
           ~StillRunning(st, cur),
           \A e \in Envs : st[e] # "RUNNABLE",
           SchedHalt(c, st, runs, cur, cur)
    PROVE  IInv'
<1>1. /\ \A d \in CPUs \ {c} : pc[d] \in {"user", "spin", "pop", "halted"}
      /\ pc[c] \in {"boot", "kernel"}
  BY OthersOutside
<1>2. kernel_lock = c /\ IInv
  BY DEF InKernel
<1>3. cur # NULL => cur \in Envs /\ st[cur] = "NOT_RUNNABLE"
  BY DEF Ready, StillRunning
<1>4. /\ env_status' = st
      /\ env_runs' = runs
  BY <1>2 DEF SchedHalt
<1>5. FreeListExact' /\ ReceiverIsBlocked' /\ CurenvHasRun'
  BY <1>4 DEF Ready, Rest, FreeListExact, ListExact, ReceiverIsBlocked, CurenvHasRun
<1>6. CASE SystemIdle(st)
  <2>1. /\ curenv' = [curenv EXCEPT ![c] = cur]
        /\ cr3' = [cr3 EXCEPT ![c] = cur]
        /\ pc' = [pc EXCEPT ![c] = "monitor"]
        /\ UNCHANGED <<cpu_status, kernel_lock, env_cpunum>>
    BY <1>6 DEF SchedHalt
  <2>2. \A d \in CPUs \ {c} : curenv[d] = NULL
    <3>1. \A d \in CPUs : curenv[d] # NULL => curenv[d] \in Envs
      BY <1>2 DEF IInv, TypeOK
    <3>2. \A d \in CPUs \ {c} : curenv[d] # NULL => st[curenv[d]] \in {"RUNNING", "DYING"}
      BY DEF Ready
    <3> QED BY <1>6, <3>1, <3>2 DEF SystemIdle
  <2>3. TypeOK'
    BY <1>2, <1>4, <2>1 DEF IInv, TypeOK, Ready, Rest, Places
  <2>4. KernelExclusive'
    BY <1>1, <1>2, <2>1 DEF IInv, TypeOK, KernelExclusive, Inside
  <2>5. OneCpuPerEnv'
    BY <1>2, <2>1, <2>2 DEF IInv, TypeOK, OneCpuPerEnv
  <2>6. StatusTracksCurenv'
    BY <1>2, <1>4, <1>6, <2>1, <2>2, NENVAssumption
    DEF IInv, TypeOK, StatusTracksCurenv, SystemIdle
  <2>7. PgdirTracksCurenv'
    BY <1>2, <1>3, <1>4, <2>1, <2>2 DEF IInv, TypeOK, PgdirTracksCurenv
  <2>8. NoPanic'
    BY <1>2, <2>1 DEF IInv, TypeOK, NoPanic
  <2>9. MonitorOnlyWhenIdleOrAsked'
    <3>1. \A e \in Envs : env_status'[e] \in {"FREE", "NOT_RUNNABLE"}
      BY <1>4, <1>6 DEF Ready, Statuses, SystemIdle
    <3>2. \A d \in CPUs : pc'[d] \in {"monitor", "halted", "spin"}
      BY <1>1, <1>2, <2>1, <2>2 DEF IInv, TypeOK, NoPanic
    <3> QED BY <3>1, <3>2 DEF MonitorOnlyWhenIdleOrAsked
  <2>10. CpuStatusOK' /\ CpunumIsCurrent'
    BY <1>1, <1>2, <2>1 DEF IInv, TypeOK, CpuStatusOK, CpunumIsCurrent
  <2> QED
    BY <1>5, <2>3, <2>4, <2>5, <2>6, <2>7, <2>8, <2>9, <2>10 DEF IInv
<1>7. CASE ~SystemIdle(st)
  <2>1. /\ curenv' = [curenv EXCEPT ![c] = NULL]
        /\ cr3' = [cr3 EXCEPT ![c] = NULL]
        /\ cpu_status' = [cpu_status EXCEPT ![c] = "HALTED"]
        /\ pc' = [pc EXCEPT ![c] = "halted"]
        /\ kernel_lock' = NULL
        /\ env_cpunum' = env_cpunum
    BY <1>2, <1>7 DEF SchedHalt
  <2>2. TypeOK'
    BY <1>2, <1>4, <2>1 DEF IInv, TypeOK, Ready, Rest, Places
  <2>3. KernelExclusive'
    BY <1>1, <1>2, <2>1, CPUAssumption DEF IInv, TypeOK, KernelExclusive, Inside
  <2>4. OneCpuPerEnv'
    BY <1>2, <2>1 DEF IInv, TypeOK, OneCpuPerEnv
  <2>5. \A d \in CPUs : pc'[d] # "monitor" /\ curenv'[d] = IF d = c THEN NULL ELSE curenv[d]
    BY <1>1, <1>2, <2>1 DEF IInv, TypeOK
  <2>6. StatusTracksCurenv'
    <3>1. ASSUME NEW x \in Envs, st[x] \in {"RUNNING", "DYING"}
          PROVE  \E d \in CPUs : curenv'[d] = x
      <4>1. PICK d \in CPUs \ {c} : curenv[d] = x
        BY <3>1, <1>3, NENVAssumption DEF Ready
      <4> QED BY <4>1, <2>5
    <3>2. ASSUME NEW x \in Envs, NEW d \in CPUs, curenv'[d] = x
          PROVE  st[x] \in {"RUNNING", "DYING"}
      BY <3>2, <2>5, NENVAssumption DEF Ready
    <3> QED BY <3>1, <3>2, <1>4, <2>5 DEF StatusTracksCurenv
  <2>7. PgdirTracksCurenv'
    BY <1>2, <1>4, <2>1 DEF IInv, TypeOK, PgdirTracksCurenv, Ready
  <2>8. NoPanic'
    BY <1>2, <2>1 DEF IInv, TypeOK, NoPanic
  <2>9. MonitorOnlyWhenIdleOrAsked'
    <3>1. \A d \in CPUs : pc'[d] \notin {"monitor", "debug"}
      BY <1>1, <1>2, <2>1 DEF IInv, TypeOK
    <3> QED BY <3>1 DEF MonitorOnlyWhenIdleOrAsked
  <2>10. CpuStatusOK' /\ CpunumIsCurrent'
    BY <1>1, <1>2, <2>1 DEF IInv, TypeOK, CpuStatusOK, CpunumIsCurrent
  <2> QED
    BY <1>5, <2>2, <2>3, <2>4, <2>6, <2>7, <2>8, <2>9, <2>10 DEF IInv
<1> QED BY <1>6, <1>7

\* sched_yield re-establishes the invariant.
LEMMA SchedYieldKeepsInv ==
    ASSUME NEW c \in CPUs, NEW st, NEW runs, NEW recv, NEW fl, NEW cur,
           InKernel(c), Ready(c, st, runs, recv, fl, cur), Rest(recv, fl),
           SchedYield(c, st, runs, cur, cur)
    PROVE  IInv'
<1>1. CASE \E e \in Envs : FirstRunnable(st, cur, e) /\ EnvRun(c, e, st, runs, cur, cur)
  <2>1. PICK e \in Envs : FirstRunnable(st, cur, e) /\ EnvRun(c, e, st, runs, cur, cur)
    BY <1>1
  <2>2. st[e] = "RUNNABLE"
    BY <2>1 DEF FirstRunnable
  <2>3. Preempt(st, cur)[e] = "RUNNABLE"
    BY <2>2 DEF Preempt, Ready, StillRunning
  <2> QED BY <2>1, <2>3, EnvRunKeepsInv
<1>2. CASE StillRunning(st, cur) /\ EnvRun(c, cur, st, runs, cur, cur)
  <2>1. cur \in Envs /\ Preempt(st, cur)[cur] = "RUNNABLE"
    BY <1>2 DEF Preempt, Ready, StillRunning
  <2> QED BY <1>2, <2>1, EnvRunKeepsInv
<1>3. CASE /\ \A e \in Envs : st[e] # "RUNNABLE"
           /\ ~StillRunning(st, cur)
           /\ SchedHalt(c, st, runs, cur, cur)
  BY <1>3, SchedHaltKeepsInv
<1> QED BY <1>1, <1>2, <1>3 DEF SchedYield

\* The end of trap() re-establishes the invariant.
LEMMA TrapReturnKeepsInv ==
    ASSUME NEW c \in CPUs, NEW st, NEW runs, NEW recv, NEW fl,
           InKernel(c), curenv[c] # NULL,
           Ready(c, st, runs, recv, fl, curenv[c]), Rest(recv, fl),
           TrapReturn(c, st, runs)
    PROVE  IInv'
<1>1. cr3[c] = curenv[c] /\ curenv[c] \in Envs
  BY DEF InKernel, IInv, PgdirTracksCurenv, TypeOK
<1>2. CASE st[curenv[c]] = "RUNNING"
  <2>1. EnvRun(c, curenv[c], st, runs, curenv[c], cr3[c])
    BY <1>2 DEF TrapReturn
  <2>2. Preempt(st, curenv[c])[curenv[c]] = "RUNNABLE"
    BY <1>1, <1>2 DEF Preempt, StillRunning, Ready
  <2> QED BY <1>1, <2>1, <2>2, EnvRunKeepsInv
<1>3. CASE st[curenv[c]] # "RUNNING"
  <2>1. SchedYield(c, st, runs, curenv[c], curenv[c])
    BY <1>1, <1>3 DEF TrapReturn
  <2> QED BY <2>1, SchedYieldKeepsInv
<1> QED BY <1>2, <1>3

-----------------------------------------------------------------------------
(* The free list: env_free pushes in front, env_alloc takes the head.       *)

\* env_free's push keeps the list exact when the pushed slot was not on it.
LEMMA PushKeepsExact ==
    ASSUME NEW fl \in Seq(Envs), NEW st \in [Envs -> Statuses], NEW e \in Envs,
           ListExact(fl, st), st[e] # "FREE"
    PROVE  /\ <<e>> \o fl \in Seq(Envs)
           /\ ListExact(<<e>> \o fl, [st EXCEPT ![e] = "FREE"])
<1> DEFINE gl == <<e>> \o fl
           st2 == [st EXCEPT ![e] = "FREE"]
<1>1. /\ gl \in Seq(Envs)
      /\ Len(gl) = Len(fl) + 1
      /\ \A i \in 1..Len(gl) : gl[i] = IF i = 1 THEN e ELSE fl[i-1]
      /\ Len(fl) \in Nat
  BY ConcatProperties
<1>2. \A i \in 1..Len(fl) : fl[i] # e
  BY DEF ListExact
<1>3. \A i, j \in 1..Len(gl) : gl[i] = gl[j] => i = j
  <2> SUFFICES ASSUME NEW i \in 1..Len(gl), NEW j \in 1..Len(gl), gl[i] = gl[j]
               PROVE  i = j
    OBVIOUS
  <2>1. CASE i = 1 \/ j = 1
    BY <1>1, <1>2, <2>1
  <2>2. CASE i # 1 /\ j # 1
    <3>1. i-1 \in 1..Len(fl) /\ j-1 \in 1..Len(fl) /\ fl[i-1] = fl[j-1]
      BY <1>1, <2>2
    <3>2. i-1 = j-1
      BY <3>1 DEF ListExact
    <3> QED BY <3>2, <1>1
  <2> QED BY <2>1, <2>2
<1>4. ASSUME NEW x \in Envs
      PROVE  st2[x] = "FREE" <=> \E i \in 1..Len(gl) : gl[i] = x
  <2>1. CASE x = e
    BY <1>1, <2>1
  <2>2. CASE x # e
    <3>1. ASSUME st2[x] = "FREE"
          PROVE  \E i \in 1..Len(gl) : gl[i] = x
      <4>1. PICK i \in 1..Len(fl) : fl[i] = x
        BY <2>2, <3>1 DEF ListExact
      <4>2. i + 1 \in 1..Len(gl) /\ gl[i+1] = x
        BY <4>1, <1>1
      <4> QED BY <4>2
    <3>2. ASSUME NEW i \in 1..Len(gl), gl[i] = x
          PROVE  st2[x] = "FREE"
      <4>1. i - 1 \in 1..Len(fl) /\ fl[i-1] = x
        BY <3>2, <2>2, <1>1
      <4> QED BY <4>1, <2>2 DEF ListExact
    <3> QED BY <3>1, <3>2
  <2> QED BY <2>1, <2>2
<1> QED BY <1>1, <1>3, <1>4 DEF ListExact

\* env_alloc's pop keeps the list exact; the slot it takes was FREE.
LEMMA PopKeepsExact ==
    ASSUME NEW fl \in Seq(Envs), NEW st \in [Envs -> Statuses], NEW s \in Statuses,
           ListExact(fl, st), fl # <<>>, s # "FREE"
    PROVE  /\ Head(fl) \in Envs
           /\ st[Head(fl)] = "FREE"
           /\ Tail(fl) \in Seq(Envs)
           /\ Len(Tail(fl)) = Len(fl) - 1
           /\ ListExact(Tail(fl), [st EXCEPT ![Head(fl)] = s])
<1> DEFINE h == Head(fl)
           tl == Tail(fl)
           st2 == [st EXCEPT ![h] = s]
<1>1. /\ Len(fl) \in Nat /\ Len(fl) >= 1
      /\ h = fl[1] /\ h \in Envs
      /\ tl \in Seq(Envs)
      /\ Len(tl) = Len(fl) - 1
      /\ \A i \in 1..Len(tl) : tl[i] = fl[i+1]
  BY HeadTailProperties, EmptySeq
<1>2. st[h] = "FREE"
  BY <1>1 DEF ListExact
<1>3. \A i, j \in 1..Len(tl) : tl[i] = tl[j] => i = j
  <2> SUFFICES ASSUME NEW i \in 1..Len(tl), NEW j \in 1..Len(tl), tl[i] = tl[j]
               PROVE  i = j
    OBVIOUS
  <2>1. i+1 \in 1..Len(fl) /\ j+1 \in 1..Len(fl) /\ fl[i+1] = fl[j+1]
    BY <1>1
  <2>2. i+1 = j+1
    BY <2>1 DEF ListExact
  <2> QED BY <2>2, <1>1
<1>4. ASSUME NEW x \in Envs
      PROVE  st2[x] = "FREE" <=> \E i \in 1..Len(tl) : tl[i] = x
  <2>1. ASSUME st2[x] = "FREE"
        PROVE  \E i \in 1..Len(tl) : tl[i] = x
    <3>1. x # h /\ st[x] = "FREE"
      BY <2>1, <1>1
    <3>2. PICK i \in 1..Len(fl) : fl[i] = x
      BY <3>1 DEF ListExact
    <3>3. i - 1 \in 1..Len(tl) /\ tl[i-1] = x
      BY <3>1, <3>2, <1>1
    <3> QED BY <3>3
  <2>2. ASSUME NEW i \in 1..Len(tl), tl[i] = x
        PROVE  st2[x] = "FREE"
    <3>1. i + 1 \in 1..Len(fl) /\ fl[i+1] = x /\ 1 \in 1..Len(fl)
      BY <2>2, <1>1
    <3>2. st[x] = "FREE"
      BY <3>1 DEF ListExact
    <3>3. x # h
      <4> SUFFICES ASSUME x = h PROVE FALSE
        OBVIOUS
      <4>1. fl[i+1] = fl[1]
        BY <3>1, <1>1
      <4>2. i + 1 = 1
        BY <4>1, <3>1 DEF ListExact
      <4> QED BY <4>2, <1>1
    <3> QED BY <3>2, <3>3, <1>1
  <2> QED BY <2>1, <2>2
<1> QED BY <1>1, <1>2, <1>3, <1>4 DEF ListExact

-----------------------------------------------------------------------------
(* What handlers do to the environment table.                               *)

\* The table a CPU finds after the lock is Ready, unless its current
\* environment has become a zombie.
LEMMA ReadyAtEntry ==
    ASSUME NEW c \in CPUs, InKernel(c),
           curenv[c] = NULL \/ env_status[curenv[c]] # "DYING"
    PROVE  Ready(c, env_status, env_runs, env_ipc_recving, env_free_list, curenv[c])
<1>1. /\ \A d \in CPUs \ {c} : pc[d] # "monitor"
      /\ pc[c] # "monitor"
  BY OthersOutside
<1>2. IInv
  BY DEF InKernel
<1>3. \A d \in CPUs : curenv[d] # NULL =>
          curenv[d] \in Envs /\ env_status[curenv[d]] \in {"RUNNING", "DYING"}
  BY <1>1, <1>2 DEF IInv, TypeOK, StatusTracksCurenv
<1>4. \A e \in Envs : env_status[e] \in {"RUNNING", "DYING"} =>
          e = curenv[c] \/ \E d \in CPUs \ {c} : curenv[d] = e
  BY <1>2 DEF IInv, StatusTracksCurenv
<1>5. \A d \in CPUs \ {c} : curenv[d] # NULL => curenv[d] # curenv[c]
  BY <1>2 DEF IInv, OneCpuPerEnv
<1> QED
  BY <1>2, <1>3, <1>4, <1>5
  DEF Ready, IInv, TypeOK, FreeListExact, ReceiverIsBlocked, CurenvHasRun

\* Changing the status of the current environment, or of one that waits,
\* between RUNNABLE and NOT_RUNNABLE.
LEMMA ReadySetStatus ==
    ASSUME NEW c \in CPUs, NEW st, NEW runs, NEW recv, NEW fl, NEW cur,
           Ready(c, st, runs, recv, fl, cur),
           NEW e \in Envs, NEW s \in {"RUNNABLE", "NOT_RUNNABLE"},
           e = cur \/ st[e] \in {"RUNNABLE", "NOT_RUNNABLE"},
           ~recv[e]
    PROVE  Ready(c, [st EXCEPT ![e] = s], runs, recv, fl, cur)
<1> DEFINE st2 == [st EXCEPT ![e] = s]
<1>0. st \in [Envs -> Statuses] /\ st2 \in [Envs -> Statuses]
  BY DEF Ready, Statuses
<1>1. \A x \in Envs : st2[x] = IF x = e THEN s ELSE st[x]
  BY <1>0
<1>2. st[e] # "FREE"
  BY NENVAssumption DEF Ready
<1>3. ListExact(fl, st2)
  BY <1>1, <1>2 DEF Ready, ListExact
<1>4. \A d \in CPUs \ {c} : curenv[d] # NULL =>
          st2[curenv[d]] \in {"RUNNING", "DYING"} /\ curenv[d] # cur
  <2> SUFFICES ASSUME NEW d \in CPUs \ {c}, curenv[d] # NULL
               PROVE  st2[curenv[d]] \in {"RUNNING", "DYING"} /\ curenv[d] # cur
    OBVIOUS
  <2>1. st[curenv[d]] \in {"RUNNING", "DYING"} /\ curenv[d] # cur
    BY DEF Ready
  <2>2. curenv[d] # e
    BY <2>1
  <2> QED BY <2>1, <2>2, <1>0
<1> QED
  BY <1>0, <1>1, <1>3, <1>4, NENVAssumption DEF Ready

\* env_free of an environment that no other CPU has as its current one.
LEMMA ReadyFree ==
    ASSUME NEW c \in CPUs, InKernel(c), NEW e \in Envs, NEW cur,
           env_status[e] # "FREE",
           \A d \in CPUs \ {c} : curenv[d] # e,
           cur = IF e = curenv[c] THEN NULL ELSE curenv[c],
           cur # NULL => env_status[cur] # "DYING"
    PROVE  Ready(c, Freed(e), env_runs, env_ipc_recving, <<e>> \o env_free_list, cur)
<1> DEFINE st2 == Freed(e)
<1>1. IInv /\ \A d \in CPUs : pc[d] # "monitor"
  BY OthersOutside DEF InKernel
<1>2. <<e>> \o env_free_list \in Seq(Envs) /\ ListExact(<<e>> \o env_free_list, st2)
  BY <1>1, PushKeepsExact DEF IInv, TypeOK, FreeListExact, Freed
<1>3. /\ env_status \in [Envs -> Statuses]
      /\ st2 \in [Envs -> Statuses]
      /\ \A x \in Envs : st2[x] = IF x = e THEN "FREE" ELSE env_status[x]
  BY <1>1 DEF IInv, TypeOK, Statuses, Freed
<1>4. \A d \in CPUs : curenv[d] # NULL =>
          curenv[d] \in Envs /\ env_status[curenv[d]] \in {"RUNNING", "DYING"}
  BY <1>1 DEF IInv, TypeOK, StatusTracksCurenv
<1>5. cur \in Envs \cup {NULL} /\ (cur # NULL => st2[cur] = "RUNNING")
  BY <1>1, <1>3, <1>4 DEF IInv, TypeOK
<1>6. \A x \in Envs : st2[x] \in {"RUNNING", "DYING"} =>
          x = cur \/ \E d \in CPUs \ {c} : curenv[d] = x
  BY <1>1, <1>3 DEF IInv, StatusTracksCurenv
<1>7. ASSUME NEW d \in CPUs \ {c}, curenv[d] # NULL
      PROVE  st2[curenv[d]] \in {"RUNNING", "DYING"} /\ curenv[d] # cur
  BY <1>1, <1>3, <1>4, <1>7 DEF IInv, OneCpuPerEnv
<1>8. \A x \in Envs : /\ env_ipc_recving[x] /\ st2[x] # "FREE" =>
                             st2[x] = "NOT_RUNNABLE" /\ env_runs[x] = 1
                      /\ st2[x] \in {"RUNNING", "DYING"} => env_runs[x] = 1
  BY <1>1, <1>3 DEF IInv, ReceiverIsBlocked, CurenvHasRun
<1> QED
  BY <1>1, <1>2, <1>3, <1>5, <1>6, <1>7, <1>8 DEF Ready, IInv, TypeOK

-----------------------------------------------------------------------------
(* One lemma per handler.                                                   *)

\* A trapped CPU is in the kernel with the lock; its environment is RUNNING.
LEMMA TrappedFacts ==
    ASSUME NEW c \in CPUs, IInv, Trapped(c)
    PROVE  /\ InKernel(c)
           /\ curenv[c] \in Envs
           /\ curenv[c] # NULL
           /\ env_status[curenv[c]] = "RUNNING"
           /\ cr3[c] = curenv[c]
           /\ Ready(c, env_status, env_runs, env_ipc_recving, env_free_list, curenv[c])
<1>1. InKernel(c)
  BY DEF Trapped, IInv, KernelExclusive, Inside, InKernel
<1>2. /\ curenv[c] \in Envs
      /\ env_status[curenv[c]] = "RUNNING"
      /\ cr3[c] = curenv[c]
  BY DEF Trapped, IInv, TypeOK, StatusTracksCurenv, PgdirTracksCurenv
<1> QED BY <1>1, <1>2, ReadyAtEntry DEF Trapped

\* sys_yield, the timer, a CPU without an environment and the end of boot.
LEMMA YieldStep ==
    ASSUME NEW c \in CPUs, IInv,
           BootDone(c) \/ IdleYield(c) \/ TimerIrq(c) \/ SysYield(c)
    PROVE  IInv'
<1>1. InKernel(c) /\ (curenv[c] = NULL \/ env_status[curenv[c]] # "DYING")
  BY DEF BootDone, IdleYield, TimerIrq, SysYield, Trapped, InKernel, IInv,
         KernelExclusive, Inside, CpuStatusOK
<1>2. /\ SchedYield(c, env_status, env_runs, curenv[c], curenv[c])
      /\ Rest(env_ipc_recving, env_free_list)
  BY DEF BootDone, IdleYield, TimerIrq, SysYield, IInv, PgdirTracksCurenv,
         env_vars, Rest, TypeOK
<1> QED BY <1>1, <1>2, ReadyAtEntry, SchedYieldKeepsInv

\* A trap that changes no environment.
LEMMA SysReturnStep ==
    ASSUME NEW c \in CPUs, IInv, SysReturn(c)
    PROVE  IInv'
<1>1. Trapped(c) /\ TrapReturn(c, env_status, env_runs)
  BY DEF SysReturn
<1>2. Rest(env_ipc_recving, env_free_list)
  BY DEF SysReturn, env_vars, Rest, IInv, TypeOK
<1> QED BY <1>1, <1>2, TrappedFacts, TrapReturnKeepsInv

\* A breakpoint stays in the monitor, with the lock and a RUNNING environment.
LEMMA BreakpointStep ==
    ASSUME NEW c \in CPUs, IInv, Breakpoint(c)
    PROVE  IInv'
<1>1. /\ pc[c] = "kernel"
      /\ pc' = [pc EXCEPT ![c] = "debug"]
      /\ UNCHANGED <<env_status, env_runs, env_id, env_parent_id, env_ipc_recving,
                     env_free_list, curenv, cpu_status, cr3, kernel_lock, env_cpunum>>
  BY DEF Breakpoint, Trapped, env_vars
<1>2. /\ kernel_lock = c /\ curenv[c] # NULL /\ env_status[curenv[c]] = "RUNNING"
      /\ \A d \in CPUs \ {c} : pc[d] \in {"user", "spin", "pop", "halted"}
  BY TrappedFacts, OthersOutside DEF Breakpoint, InKernel
<1>3. TypeOK' /\ KernelExclusive' /\ NoPanic' /\ CpuStatusOK'
  BY <1>1 DEF IInv, TypeOK, Places, KernelExclusive, Inside, NoPanic, CpuStatusOK
<1>4. OneCpuPerEnv' /\ PgdirTracksCurenv' /\ FreeListExact' /\ ReceiverIsBlocked' /\ CurenvHasRun'
  BY <1>1 DEF IInv, OneCpuPerEnv, PgdirTracksCurenv, FreeListExact, ListExact,
              ReceiverIsBlocked, CurenvHasRun
<1>5. StatusTracksCurenv' /\ CpunumIsCurrent'
  BY <1>1 DEF IInv, TypeOK, StatusTracksCurenv, CpunumIsCurrent
<1>6. MonitorOnlyWhenIdleOrAsked'
  BY <1>1, <1>2 DEF IInv, TypeOK, MonitorOnlyWhenIdleOrAsked
<1> QED BY <1>3, <1>4, <1>5, <1>6 DEF IInv

\* Freeing the current environment and yielding: a zombie that traps, a
\* fault, and an environment that destroys itself.
LEMMA FreeCurenvStep ==
    ASSUME NEW c \in CPUs, IInv, pc[c] = "kernel", curenv[c] # NULL, DestroySelf(c)
    PROVE  IInv'
<1>1. InKernel(c)
  BY DEF InKernel, IInv, KernelExclusive, Inside
<1>2. /\ curenv[c] \in Envs
      /\ env_status[curenv[c]] # "FREE"
      /\ \A d \in CPUs \ {c} : curenv[d] # curenv[c]
  BY DEF IInv, TypeOK, StatusTracksCurenv, OneCpuPerEnv
<1>3. Ready(c, Freed(curenv[c]), env_runs, env_ipc_recving,
            <<curenv[c]>> \o env_free_list, NULL)
  BY <1>1, <1>2, ReadyFree
<1>4. /\ SchedYield(c, Freed(curenv[c]), env_runs, NULL, NULL)
      /\ Rest(env_ipc_recving, <<curenv[c]>> \o env_free_list)
  BY DEF DestroySelf, EnvFree, PgdirAfterFree, Rest, IInv, TypeOK
<1> QED BY <1>1, <1>3, <1>4, SchedYieldKeepsInv

\* What envid2env returns to a trapped CPU is an allocated environment.
LEMMA Envid2envFacts ==
    ASSUME NEW c \in CPUs, IInv, Trapped(c), NEW id \in EnvIds, NEW checkperm,
           NEW e, e = Envid2env(c, id, checkperm), e # NULL
    PROVE  e \in Envs /\ env_status[e] # "FREE"
BY TrappedFacts DEF Envid2env, EnvIds

\* sys_env_destroy: a running child only becomes a zombie; anything else is freed.
LEMMA SysEnvDestroyStep ==
    ASSUME NEW c \in CPUs, IInv, Disciplined, SysEnvDestroy(c)
    PROVE  IInv'
<1>1. Trapped(c)
  BY DEF SysEnvDestroy
<1>2. PICK id, e :
        /\ id \in EnvIds
        /\ e = Envid2env(c, id, TRUE)
        /\ e # NULL
        /\ env_status[e] # "DYING"
        /\ \/ MarkDying(c, e)
           \/ DestroyOther(c, e)
           \/ e = curenv[c] /\ DestroySelf(c)
  BY DEF SysEnvDestroy, Disciplined
<1>3. e \in Envs /\ env_status[e] # "FREE"
  BY <1>1, <1>2, Envid2envFacts
<1>4. /\ InKernel(c) /\ curenv[c] \in Envs /\ curenv[c] # NULL
      /\ env_status[curenv[c]] = "RUNNING"
      /\ Ready(c, env_status, env_runs, env_ipc_recving, env_free_list, curenv[c])
  BY <1>1, TrappedFacts
<1>5. CASE MarkDying(c, e)
  <2> DEFINE st2 == [env_status EXCEPT ![e] = "DYING"]
  <2>1. env_status[e] = "RUNNING" /\ curenv[c] # e /\ TrapReturn(c, st2, env_runs)
    BY <1>5 DEF MarkDying
  <2>2. Rest(env_ipc_recving, env_free_list)
    BY <1>5 DEF MarkDying, env_vars, Rest, IInv, TypeOK
  <2>3. Ready(c, st2, env_runs, env_ipc_recving, env_free_list, curenv[c])
    <3>1. /\ env_status \in [Envs -> Statuses]
          /\ st2 \in [Envs -> Statuses]
          /\ \A x \in Envs : st2[x] = IF x = e THEN "DYING" ELSE env_status[x]
      BY DEF IInv, TypeOK, Statuses
    <3>2. ListExact(env_free_list, st2)
      BY <1>3, <1>4, <3>1 DEF Ready, ListExact
    <3>3. \A d \in CPUs \ {c} : curenv[d] # NULL =>
              st2[curenv[d]] \in {"RUNNING", "DYING"} /\ curenv[d] # curenv[c]
      BY <1>4, <3>1 DEF Ready, IInv, TypeOK
    <3> QED BY <1>3, <1>4, <2>1, <3>1, <3>2, <3>3 DEF Ready
  <2> QED BY <1>4, <2>1, <2>2, <2>3, TrapReturnKeepsInv
<1>6. CASE DestroyOther(c, e)
  <2>1. /\ env_status[e] # "RUNNING"
        /\ curenv[c] # e
        /\ TrapReturn(c, Freed(e), env_runs)
        /\ Rest(env_ipc_recving, <<e>> \o env_free_list)
    BY <1>6 DEF DestroyOther, EnvFree, Rest, IInv, TypeOK
  <2>2. \A d \in CPUs \ {c} : curenv[d] # e
    <3>1. \A d \in CPUs \ {c} : curenv[d] # NULL => env_status[curenv[d]] \in {"RUNNING", "DYING"}
      BY <1>4 DEF Ready
    <3> QED BY <1>2, <2>1, <3>1
  <2>3. Ready(c, Freed(e), env_runs, env_ipc_recving, <<e>> \o env_free_list, curenv[c])
    BY <1>3, <1>4, <2>1, <2>2, ReadyFree
  <2> QED BY <1>4, <2>1, <2>3, TrapReturnKeepsInv
<1>7. CASE e = curenv[c] /\ DestroySelf(c)
  BY <1>1, <1>4, <1>7, FreeCurenvStep DEF Trapped
<1> QED BY <1>2, <1>5, <1>6, <1>7

\* sys_exofork: the new child comes off the free list, blocked and not receiving.
LEMMA SysExoforkStep ==
    ASSUME NEW c \in CPUs, IInv, SysExofork(c)
    PROVE  IInv'
<1> DEFINE e == Head(env_free_list)
           st2 == [env_status EXCEPT ![e] = "NOT_RUNNABLE"]
           runs2 == [env_runs EXCEPT ![e] = 0]
           recv2 == [env_ipc_recving EXCEPT ![e] = FALSE]
           fl2 == Tail(env_free_list)
<1>1. /\ Trapped(c)
      /\ EnvAlloc(env_id[curenv[c]])
      /\ TrapReturn(c, st2, runs2)
  BY DEF SysExofork
<1>2. /\ InKernel(c) /\ curenv[c] \in Envs /\ curenv[c] # NULL
      /\ env_status[curenv[c]] = "RUNNING"
      /\ Ready(c, env_status, env_runs, env_ipc_recving, env_free_list, curenv[c])
  BY <1>1, TrappedFacts
<1>3. /\ e \in Envs
      /\ env_status[e] = "FREE"
      /\ fl2 \in Seq(Envs)
      /\ ListExact(fl2, st2)
  BY <1>1, PopKeepsExact DEF IInv, TypeOK, FreeListExact, EnvAlloc, Statuses
<1>4. Rest(recv2, fl2)
  BY <1>1, <1>2, <1>3, NGenAssumption
  DEF EnvAlloc, Rest, IInv, TypeOK, EnvIds, NextGeneration
<1>5. Ready(c, st2, runs2, recv2, fl2, curenv[c])
  <2>1. /\ env_status \in [Envs -> Statuses]
        /\ st2 \in [Envs -> Statuses]
        /\ runs2 \in [Envs -> {0, 1}]
        /\ recv2 \in [Envs -> BOOLEAN]
        /\ \A x \in Envs : x # e => /\ st2[x] = env_status[x]
                                    /\ runs2[x] = env_runs[x]
                                    /\ recv2[x] = env_ipc_recving[x]
        /\ st2[e] = "NOT_RUNNABLE"
        /\ ~recv2[e]
    BY <1>3 DEF IInv, TypeOK, Statuses
  <2>2. \A d \in CPUs \ {c} : curenv[d] # NULL =>
            st2[curenv[d]] \in {"RUNNING", "DYING"} /\ curenv[d] # curenv[c]
    BY <1>2, <1>3, <2>1 DEF Ready, IInv, TypeOK
  <2> QED BY <1>2, <1>3, <2>1, <2>2 DEF Ready
<1> QED BY <1>1, <1>2, <1>4, <1>5, TrapReturnKeepsInv

\* sys_env_set_status under the callers' rule.
LEMMA SysEnvSetStatusStep ==
    ASSUME NEW c \in CPUs, IInv, Disciplined, SysEnvSetStatus(c)
    PROVE  IInv'
<1>1. Trapped(c)
  BY DEF SysEnvSetStatus
<1>2. PICK id, s, e :
        /\ id \in EnvIds
        /\ s \in {"RUNNABLE", "NOT_RUNNABLE"}
        /\ e = Envid2env(c, id, TRUE)
        /\ e # NULL
        /\ MaySetStatus(c, e)
        /\ TrapReturn(c, [env_status EXCEPT ![e] = s], env_runs)
  BY DEF SysEnvSetStatus, Disciplined
<1>3. e \in Envs
  BY <1>1, <1>2, Envid2envFacts
<1>4. Rest(env_ipc_recving, env_free_list)
  BY DEF SysEnvSetStatus, env_vars, Rest, IInv, TypeOK
<1>5. /\ InKernel(c) /\ curenv[c] # NULL
      /\ env_status[curenv[c]] = "RUNNING"
      /\ Ready(c, env_status, env_runs, env_ipc_recving, env_free_list, curenv[c])
  BY <1>1, TrappedFacts
<1>6. /\ e = curenv[c] \/ env_status[e] \in {"RUNNABLE", "NOT_RUNNABLE"}
      /\ ~env_ipc_recving[e]
  BY <1>2, <1>3, <1>5 DEF MaySetStatus, IInv, ReceiverIsBlocked
<1>7. Ready(c, [env_status EXCEPT ![e] = s], env_runs, env_ipc_recving,
            env_free_list, curenv[c])
  BY <1>2, <1>3, <1>5, <1>6, ReadySetStatus
<1> QED BY <1>2, <1>4, <1>5, <1>7, TrapReturnKeepsInv

\* sys_ipc_try_send: the target was blocked, so no CPU is on it.
LEMMA SysIpcTrySendStep ==
    ASSUME NEW c \in CPUs, IInv, SysIpcTrySend(c)
    PROVE  IInv'
<1>1. Trapped(c)
  BY DEF SysIpcTrySend
<1>2. PICK id, e :
        /\ id \in EnvIds
        /\ e = Envid2env(c, id, FALSE)
        /\ e # NULL
        /\ env_ipc_recving[e]
        /\ env_ipc_recving' = [env_ipc_recving EXCEPT ![e] = FALSE]
        /\ TrapReturn(c, [env_status EXCEPT ![e] = "RUNNABLE"], env_runs)
  BY DEF SysIpcTrySend
<1> DEFINE recv2 == [env_ipc_recving EXCEPT ![e] = FALSE]
<1>3. e \in Envs /\ env_status[e] = "NOT_RUNNABLE"
  BY <1>1, <1>2, Envid2envFacts DEF IInv, ReceiverIsBlocked
<1>4. Rest(recv2, env_free_list)
  BY <1>2 DEF SysIpcTrySend, Rest, IInv, TypeOK
<1>5. /\ InKernel(c) /\ curenv[c] # NULL
      /\ Ready(c, env_status, env_runs, env_ipc_recving, env_free_list, curenv[c])
  BY <1>1, TrappedFacts
<1>6. /\ recv2 \in [Envs -> BOOLEAN]
      /\ \A x \in Envs : recv2[x] => env_ipc_recving[x]
      /\ ~recv2[e]
  BY <1>3 DEF IInv, TypeOK
<1>7. Ready(c, env_status, env_runs, recv2, env_free_list, curenv[c])
  BY <1>5, <1>6 DEF Ready
<1>8. Ready(c, [env_status EXCEPT ![e] = "RUNNABLE"], env_runs, recv2,
            env_free_list, curenv[c])
  BY <1>3, <1>6, <1>7, ReadySetStatus
<1> QED BY <1>2, <1>4, <1>5, <1>8, TrapReturnKeepsInv

\* sys_ipc_recv: the caller blocks and gives up the CPU.
LEMMA SysIpcRecvStep ==
    ASSUME NEW c \in CPUs, IInv, SysIpcRecv(c)
    PROVE  IInv'
<1> DEFINE e == curenv[c]
           st2 == [env_status EXCEPT ![e] = "NOT_RUNNABLE"]
           recv2 == [env_ipc_recving EXCEPT ![e] = TRUE]
<1>1. /\ Trapped(c)
      /\ env_ipc_recving' = recv2
      /\ SchedYield(c, st2, env_runs, e, cr3[c])
  BY DEF SysIpcRecv
<1>2. /\ InKernel(c) /\ e \in Envs /\ e # NULL /\ cr3[c] = e
      /\ env_status[e] = "RUNNING"
      /\ Ready(c, env_status, env_runs, env_ipc_recving, env_free_list, e)
  BY <1>1, TrappedFacts
<1>3. Rest(recv2, env_free_list)
  BY <1>1 DEF SysIpcRecv, Rest, IInv, TypeOK
<1>4. ~env_ipc_recving[e] /\ env_runs[e] = 1
  BY <1>2 DEF IInv, ReceiverIsBlocked, CurenvHasRun
<1>5. Ready(c, st2, env_runs, env_ipc_recving, env_free_list, e)
  BY <1>2, <1>4, ReadySetStatus
<1>6. /\ recv2 \in [Envs -> BOOLEAN]
      /\ \A x \in Envs : recv2[x] => x = e \/ env_ipc_recving[x]
      /\ st2[e] = "NOT_RUNNABLE"
  BY <1>2 DEF IInv, TypeOK
<1>7. Ready(c, st2, env_runs, recv2, env_free_list, e)
  BY <1>4, <1>5, <1>6 DEF Ready
<1> QED BY <1>1, <1>2, <1>3, <1>7, SchedYieldKeepsInv

\* i386_init adds an environment before it schedules any.
LEMMA EnvCreateStep ==
    ASSUME NEW c \in CPUs, IInv, EnvCreate(c)
    PROVE  IInv'
<1> DEFINE e == Head(env_free_list)
<1>1. /\ EnvAlloc(<<0, 0>>)
      /\ env_status' = [env_status EXCEPT ![e] = "RUNNABLE"]
      /\ env_runs' = [env_runs EXCEPT ![e] = 0]
      /\ UNCHANGED <<curenv, cpu_status, cr3, pc, kernel_lock, env_cpunum>>
  BY DEF EnvCreate, cpu_vars
<1>2. /\ e \in Envs
      /\ env_status[e] = "FREE"
      /\ Tail(env_free_list) \in Seq(Envs)
      /\ ListExact(Tail(env_free_list), [env_status EXCEPT ![e] = "RUNNABLE"])
  BY <1>1, PopKeepsExact DEF IInv, TypeOK, FreeListExact, EnvAlloc, Statuses
<1>3. env_status' \in [Envs -> Statuses] /\ env_runs' \in [Envs -> {0, 1}]
  BY <1>1, <1>2 DEF IInv, TypeOK, Statuses
<1>4. /\ env_id' \in [Envs -> EnvIds]
      /\ env_parent_id' \in [Envs -> EnvIds]
      /\ env_ipc_recving' \in [Envs -> BOOLEAN]
      /\ env_free_list' \in Seq(Envs)
  <2>1. <<0, 0>> \in EnvIds
    BY NENVAssumption, NGenAssumption DEF EnvIds, Envs
  <2> QED BY <1>1, <1>2, <2>1, NGenAssumption
          DEF EnvAlloc, IInv, TypeOK, EnvIds, NextGeneration
<1>5. TypeOK'
  BY <1>1, <1>3, <1>4 DEF IInv, TypeOK
<1>6. KernelExclusive' /\ OneCpuPerEnv' /\ NoPanic' /\ CpuStatusOK' /\ CpunumIsCurrent'
  BY <1>1 DEF IInv, KernelExclusive, Inside, OneCpuPerEnv, NoPanic, CpuStatusOK, CpunumIsCurrent
<1>7. pc[c] = "boot" /\ \A d \in CPUs : pc[d] \notin {"monitor", "debug"}
  BY CPUAssumption DEF EnvCreate, IInv, KernelExclusive, Inside
<1>8. \A x \in Envs : env_status'[x] = IF x = e THEN "RUNNABLE" ELSE env_status[x]
  BY <1>1, <1>2 DEF IInv, TypeOK
<1>9. StatusTracksCurenv'
  BY <1>1, <1>2, <1>8 DEF IInv, StatusTracksCurenv
<1>10. PgdirTracksCurenv'
  BY <1>1, <1>8 DEF IInv, TypeOK, PgdirTracksCurenv
<1>11. FreeListExact'
  BY <1>1, <1>2 DEF EnvAlloc, FreeListExact, ListExact
<1>12. ReceiverIsBlocked'
  BY <1>1, <1>2, <1>8 DEF EnvAlloc, IInv, TypeOK, ReceiverIsBlocked
<1>13. MonitorOnlyWhenIdleOrAsked'
  BY <1>1, <1>7 DEF MonitorOnlyWhenIdleOrAsked
<1>14. CurenvHasRun'
  BY <1>1, <1>8 DEF IInv, TypeOK, CurenvHasRun
<1> QED
  BY <1>5, <1>6, <1>9, <1>10, <1>11, <1>12, <1>13, <1>14 DEF IInv

\* Trap entry, the lock and the return to user mode move one CPU's pc.
LEMMA CpuStep ==
    ASSUME NEW c \in CPUs, IInv,
           TrapFromUser(c) \/ TrapFromHalt(c) \/ LockKernel(c) \/ EnvPopTf(c)
    PROVE  IInv'
<1>1. UNCHANGED <<env_status, env_runs, env_id, env_parent_id, env_ipc_recving,
                  env_free_list, curenv, cr3>>
  BY DEF TrapFromUser, TrapFromHalt, LockKernel, EnvPopTf, env_vars
<1>2. FreeListExact' /\ ReceiverIsBlocked' /\ CurenvHasRun' /\ OneCpuPerEnv' /\ PgdirTracksCurenv'
  BY <1>1 DEF IInv, FreeListExact, ListExact, ReceiverIsBlocked, CurenvHasRun,
              OneCpuPerEnv, PgdirTracksCurenv
<1>3. \A d \in CPUs : /\ pc'[d] = "monitor" <=> pc[d] = "monitor"
                      /\ pc'[d] = "debug" <=> pc[d] = "debug"
  BY DEF TrapFromUser, TrapFromHalt, LockKernel, EnvPopTf, IInv, TypeOK
<1>4. StatusTracksCurenv'
  BY <1>1, <1>3 DEF IInv, StatusTracksCurenv
<1>5. CASE TrapFromUser(c) \/ TrapFromHalt(c)
  <2>1. /\ pc[c] \in {"user", "halted"}
        /\ pc' = [pc EXCEPT ![c] = "spin"]
        /\ cpu_status' = [cpu_status EXCEPT ![c] = "STARTED"]
        /\ UNCHANGED <<kernel_lock, env_cpunum>>
    BY <1>5 DEF TrapFromUser, TrapFromHalt, IInv, CpuStatusOK
  <2>2. TypeOK'
    BY <1>1, <2>1 DEF IInv, TypeOK, Places
  <2>3. KernelExclusive' /\ NoPanic' /\ CpuStatusOK'
    BY <1>1, <2>1 DEF IInv, TypeOK, KernelExclusive, Inside, NoPanic, CpuStatusOK
  <2>4. MonitorOnlyWhenIdleOrAsked' /\ CpunumIsCurrent'
    BY <1>1, <1>3, <2>1 DEF IInv, TypeOK, MonitorOnlyWhenIdleOrAsked, CpunumIsCurrent
  <2> QED BY <1>2, <1>4, <2>2, <2>3, <2>4 DEF IInv
<1>6. CASE LockKernel(c)
  <2>1. /\ pc[c] = "spin" /\ kernel_lock = NULL
        /\ pc' = [pc EXCEPT ![c] = "kernel"]
        /\ UNCHANGED <<cpu_status, env_cpunum>>
        /\ kernel_lock' = c
    BY <1>6 DEF LockKernel
  <2>2. TypeOK'
    BY <1>1, <2>1 DEF IInv, TypeOK, Places
  <2>3. KernelExclusive' /\ NoPanic' /\ CpuStatusOK'
    BY <1>1, <2>1, CPUAssumption DEF IInv, TypeOK, KernelExclusive, Inside, NoPanic, CpuStatusOK
  <2>4. \A d \in CPUs : pc[d] \notin {"monitor", "debug"}
    BY <2>1, CPUAssumption DEF IInv, KernelExclusive, Inside
  <2>5. MonitorOnlyWhenIdleOrAsked' /\ CpunumIsCurrent'
    BY <1>1, <1>3, <2>1, <2>4 DEF IInv, TypeOK, MonitorOnlyWhenIdleOrAsked, CpunumIsCurrent
  <2> QED BY <1>2, <1>4, <2>2, <2>3, <2>5 DEF IInv
<1>7. CASE EnvPopTf(c)
  <2>1. /\ pc[c] = "pop"
        /\ pc' = [pc EXCEPT ![c] = "user"]
        /\ env_cpunum' = [env_cpunum EXCEPT ![curenv[c]] = c]
        /\ UNCHANGED <<cpu_status, kernel_lock>>
    BY <1>7 DEF EnvPopTf
  <2>2. TypeOK'
    BY <1>1, <2>1 DEF IInv, TypeOK, Places
  <2>3. KernelExclusive' /\ NoPanic' /\ CpuStatusOK'
    BY <1>1, <2>1 DEF IInv, TypeOK, KernelExclusive, Inside, NoPanic, CpuStatusOK
  <2>4. MonitorOnlyWhenIdleOrAsked'
    BY <1>1, <1>3, <2>1 DEF IInv, TypeOK, MonitorOnlyWhenIdleOrAsked
  <2>5. CpunumIsCurrent'
    <3>1. \A d \in CPUs : pc[d] \in {"user", "pop"} => curenv[d] \in Envs
      BY DEF IInv, TypeOK, NoPanic
    <3>2. \A d \in CPUs \ {c} : pc[d] = "user" => curenv[d] # curenv[c]
      BY <2>1, <3>1, NENVAssumption DEF IInv, OneCpuPerEnv
    <3> QED BY <1>1, <2>1, <3>1, <3>2 DEF IInv, TypeOK, CpunumIsCurrent
  <2> QED BY <1>2, <1>4, <2>2, <2>3, <2>4, <2>5 DEF IInv
<1> QED BY <1>5, <1>6, <1>7

\* The state boot_aps leaves satisfies the invariant.
LEMMA InitIInv == Init => IInv
<1> SUFFICES ASSUME Init PROVE IInv
  OBVIOUS
<1>1. env_free_list \in Seq(Envs) /\ Len(env_free_list) = NENV
  <2>1. env_free_list \in [1..NENV -> Envs]
    BY NENVAssumption DEF Init, Envs
  <2> QED BY <2>1, NENVAssumption, LenProperties, SeqDef
<1>2. FreeListExact
  <2>1. \A e \in Envs : e + 1 \in 1..NENV /\ env_free_list[e + 1] = e
    BY NENVAssumption DEF Init, Envs
  <2> QED BY <1>1, <2>1, NENVAssumption DEF Init, Envs, FreeListExact, ListExact
<1>3. <<0, 0>> \in EnvIds
  BY NENVAssumption, NGenAssumption DEF EnvIds, Envs
<1>4. TypeOK
  BY <1>1, <1>3, CPUAssumption DEF Init, TypeOK, Statuses, Places
<1>5. KernelExclusive /\ OneCpuPerEnv /\ PgdirTracksCurenv /\ NoPanic /\ CpuStatusOK
  BY CPUAssumption
  DEF Init, KernelExclusive, Inside, OneCpuPerEnv, PgdirTracksCurenv, NoPanic, CpuStatusOK
<1>6. /\ StatusTracksCurenv /\ ReceiverIsBlocked /\ MonitorOnlyWhenIdleOrAsked
      /\ CurenvHasRun /\ CpunumIsCurrent
  BY NENVAssumption
  DEF Init, StatusTracksCurenv, ReceiverIsBlocked, MonitorOnlyWhenIdleOrAsked, CurenvHasRun,
      CpunumIsCurrent
<1> QED BY <1>2, <1>4, <1>5, <1>6 DEF IInv

\* Every step keeps the invariant.
LEMMA NextIInv ==
    ASSUME Disciplined, IInv, [Next]_vars
    PROVE  IInv'
<1>1. CASE UNCHANGED vars
  BY <1>1 DEF vars, env_vars, cpu_vars, IInv, TypeOK, KernelExclusive, Inside, OneCpuPerEnv,
     StatusTracksCurenv, PgdirTracksCurenv, FreeListExact, ListExact, ReceiverIsBlocked,
     NoPanic, MonitorOnlyWhenIdleOrAsked, CpuStatusOK, CurenvHasRun, CpunumIsCurrent
<1>2. ASSUME NEW c \in CPUs, Handler(c)
      PROVE  IInv'
  <2>1. CASE ReapZombie(c)
    BY <2>1, FreeCurenvStep DEF ReapZombie, DestroySelf
  <2>2. CASE Fault(c)
    BY <2>2, FreeCurenvStep DEF Fault, Trapped
  <2> QED
    BY <1>2, <2>1, <2>2, EnvCreateStep, YieldStep, SysReturnStep, BreakpointStep,
       SysEnvDestroyStep,
       SysExoforkStep, SysEnvSetStatusStep, SysIpcTrySendStep, SysIpcRecvStep DEF Handler
<1> QED
  BY <1>1, <1>2, CpuStep DEF Next, MonitorLoop

-----------------------------------------------------------------------------
\* With callers that follow the two rules of Disciplined, the invariant holds
\* in every reachable state, whatever the number of CPUs, environments and
\* generations.
THEOREM InvariantHolds ==
    ASSUME Disciplined PROVE Spec => []IInv
BY InitIInv, NextIInv, PTL DEF Spec

\* The variables keep their types.
THEOREM TypeCorrect ==
    ASSUME Disciplined PROVE Spec => []TypeOK
<1>1. IInv => TypeOK
  BY DEF IInv
<1> QED BY <1>1, InvariantHolds, PTL

\* Only a CPU that holds the lock is in the kernel, the free list is exact and
\* only environments that wait have their receive flag set.
THEOREM LockAndSlots ==
    ASSUME Disciplined PROVE Spec => []LockAndSlotsAgree
<1>1. IInv => LockAndSlotsAgree
  BY DEF IInv, LockAndSlotsAgree
<1> QED BY <1>1, InvariantHolds, PTL

\* No environment runs on two CPUs at once (sched.c:26-27).
THEOREM NeverOnTwoCpus ==
    ASSUME Disciplined PROVE Spec => []OneCpuPerEnv
<1>1. IInv => OneCpuPerEnv
  BY DEF IInv
<1> QED BY <1>1, InvariantHolds, PTL

\* env_status and curenv agree, so env_destroy's test (env.c:490) tells
\* whether another CPU is running the environment.
THEOREM StatusIsCurrent ==
    ASSUME Disciplined PROVE Spec => []StatusTracksCurenv
<1>1. IInv => StatusTracksCurenv
  BY DEF IInv
<1> QED BY <1>1, InvariantHolds, PTL

\* No CPU translates through a page directory that env_free has freed.
THEOREM PgdirIsCurrent ==
    ASSUME Disciplined PROVE Spec => []PgdirTracksCurenv
<1>1. IInv => PgdirTracksCurenv
  BY DEF IInv
<1> QED BY <1>1, InvariantHolds, PTL

\* No assertion of env_run, trap, spin_lock or spin_unlock fails.
THEOREM KernelNeverPanics ==
    ASSUME Disciplined PROVE Spec => []NoPanic
<1>1. IInv => NoPanic
  BY DEF IInv
<1> QED BY <1>1, InvariantHolds, PTL

\* The lock is kept for ever only where the machine is idle for good, or where a
\* breakpoint has stopped it.
THEOREM MonitorIsLast ==
    ASSUME Disciplined PROVE Spec => []MonitorOnlyWhenIdleOrAsked
<1>1. IInv => MonitorOnlyWhenIdleOrAsked
  BY DEF IInv
<1> QED BY <1>1, InvariantHolds, PTL

-----------------------------------------------------------------------------
(* Action properties.                                                       *)

\* Leaving the kernel changes no status but RUNNABLE and RUNNING.
LEMMA LeavingKeeps ==
    ASSUME NEW c \in CPUs, NEW st \in [Envs -> Statuses], NEW runs,
           NEW cur \in Envs \cup {NULL}, NEW pgdir, NEW x \in Envs,
           st[x] \notin {"RUNNABLE", "RUNNING"},
           \/ SchedYield(c, st, runs, cur, pgdir)
           \/ cur \in Envs /\ EnvRun(c, cur, st, runs, cur, pgdir)
    PROVE  env_status'[x] = st[x]
<1>1. ASSUME NEW e \in Envs, EnvRun(c, e, st, runs, cur, pgdir)
      PROVE  env_status'[x] = st[x]
  <2>1. Preempt(st, cur) \in [Envs -> Statuses] /\ Preempt(st, cur)[x] = st[x]
    BY DEF Preempt, StillRunning, Statuses
  <2> QED BY <1>1, <2>1 DEF EnvRun, Panic
<1>2. CASE SchedHalt(c, st, runs, cur, pgdir)
  BY <1>2 DEF SchedHalt, Panic
<1> QED BY <1>1, <1>2 DEF SchedYield, StillRunning

\* The same for the end of trap().
LEMMA TrapReturnKeeps ==
    ASSUME NEW c \in CPUs, NEW st \in [Envs -> Statuses], NEW runs,
           curenv[c] \in Envs, NEW x \in Envs,
           st[x] \notin {"RUNNABLE", "RUNNING"}, TrapReturn(c, st, runs)
    PROVE  env_status'[x] = st[x]
BY LeavingKeeps DEF TrapReturn

\* Which handlers change the status of a zombie or of a blocked environment:
\* its own CPU or its parent frees it, a message wakes it, its parent sets it.
LEMMA StatusChange ==
    ASSUME Disciplined, IInv, NEW c \in CPUs, Handler(c), NEW x \in Envs,
           env_status[x] \in {"DYING", "NOT_RUNNABLE"}, env_status'[x] # env_status[x]
    PROVE  /\ kernel_lock = c
           /\ \/ env_status'[x] = "FREE" /\ (env_status[x] = "DYING" => x = curenv[c])
              \/ /\ env_status[x] = "NOT_RUNNABLE"
                 /\ env_ipc_recving[x] \/ env_parent_id[x] = env_id[curenv[c]]
<1>1. env_status \in [Envs -> Statuses] /\ curenv[c] \in Envs \cup {NULL}
  BY DEF IInv, TypeOK
<1>2. kernel_lock = c
  BY DEF Handler, EnvCreate, BootDone, IdleYield, ReapZombie, TimerIrq, SysYield, SysReturn,
         Breakpoint, Fault, SysEnvDestroy, SysExofork, SysEnvSetStatus, SysIpcTrySend, SysIpcRecv,
         Trapped, IInv, KernelExclusive, Inside
<1>3. Trapped(c) => curenv[c] \in Envs /\ env_status[curenv[c]] = "RUNNING"
  BY TrappedFacts
<1>4. \A e \in Envs : Freed(e) \in [Envs -> Statuses]
                      /\ Freed(e)[e] = "FREE" /\ (x # e => Freed(e)[x] = env_status[x])
  BY <1>1 DEF Freed, Statuses
<1>5. ASSUME env_free_list # <<>>
      PROVE  Head(env_free_list) \in Envs /\ env_status[Head(env_free_list)] = "FREE"
  BY <1>5, PopKeepsExact DEF IInv, TypeOK, FreeListExact, Statuses
<1>6. CASE EnvCreate(c)
  BY <1>1, <1>5, <1>6 DEF EnvCreate, EnvAlloc
<1>7. CASE BootDone(c) \/ IdleYield(c) \/ TimerIrq(c) \/ SysYield(c)
  BY <1>1, <1>7, LeavingKeeps DEF BootDone, IdleYield, TimerIrq, SysYield
<1>8. CASE SysReturn(c) \/ Breakpoint(c)
  BY <1>1, <1>3, <1>8, TrapReturnKeeps DEF SysReturn, Breakpoint
<1>9. CASE ReapZombie(c) \/ Fault(c)
  <2>1. curenv[c] \in Envs
        /\ SchedYield(c, Freed(curenv[c]), env_runs, NULL, PgdirAfterFree(c, curenv[c]))
    BY <1>1, <1>9 DEF ReapZombie, Fault, DestroySelf, Trapped
  <2>2. env_status'[x] = Freed(curenv[c])[x]
    BY <1>4, <2>1, LeavingKeeps
  <2> QED BY <1>2, <1>4, <2>1, <2>2
<1>10. CASE SysEnvDestroy(c)
  <2>1. Trapped(c)
    BY <1>10 DEF SysEnvDestroy
  <2>2. PICK id, e :
          /\ id \in EnvIds
          /\ e = Envid2env(c, id, TRUE)
          /\ e # NULL
          /\ env_status[e] # "DYING"
          /\ \/ MarkDying(c, e)
             \/ DestroyOther(c, e)
             \/ e = curenv[c] /\ DestroySelf(c)
    BY <1>10 DEF SysEnvDestroy, Disciplined
  <2>3. e \in Envs
    BY <2>1, <2>2, Envid2envFacts
  <2>4. CASE MarkDying(c, e)
    <3>1. /\ [env_status EXCEPT ![e] = "DYING"] \in [Envs -> Statuses]
          /\ [env_status EXCEPT ![e] = "DYING"][x] = env_status[x]
      BY <1>1, <2>3, <2>4 DEF MarkDying, Statuses
    <3> QED BY <1>3, <2>1, <2>4, <3>1, TrapReturnKeeps DEF MarkDying
  <2>5. CASE DestroyOther(c, e)
    <3>1. env_status'[x] = Freed(e)[x]
      BY <1>3, <1>4, <2>1, <2>3, <2>5, TrapReturnKeeps DEF DestroyOther
    <3> QED BY <1>2, <1>4, <2>2, <2>3, <3>1
  <2>6. CASE e = curenv[c] /\ DestroySelf(c)
    <3>1. env_status'[x] = Freed(e)[x]
      BY <1>4, <2>3, <2>6, LeavingKeeps DEF DestroySelf
    <3> QED BY <1>2, <1>4, <2>2, <2>3, <3>1
  <2> QED BY <2>2, <2>4, <2>5, <2>6
<1>11. CASE SysExofork(c)
  <2> DEFINE st2 == [env_status EXCEPT ![Head(env_free_list)] = "NOT_RUNNABLE"]
  <2>1. st2 \in [Envs -> Statuses] /\ st2[x] = env_status[x]
    BY <1>1, <1>5, <1>11 DEF SysExofork, EnvAlloc, Statuses
  <2> QED BY <1>3, <1>11, <2>1, TrapReturnKeeps DEF SysExofork
<1>12. CASE SysEnvSetStatus(c)
  <2>1. Trapped(c)
    BY <1>12 DEF SysEnvSetStatus
  <2>2. PICK id, s, e :
          /\ id \in EnvIds
          /\ s \in {"RUNNABLE", "NOT_RUNNABLE"}
          /\ e = Envid2env(c, id, TRUE)
          /\ e # NULL
          /\ MaySetStatus(c, e)
          /\ TrapReturn(c, [env_status EXCEPT ![e] = s], env_runs)
    BY <1>12 DEF SysEnvSetStatus, Disciplined
  <2>3. e \in Envs
    BY <2>1, <2>2, Envid2envFacts
  <2>4. CASE x = e
    <3>1. x # curenv[c]
      BY <1>3, <2>1
    <3>2. env_parent_id[x] = env_id[curenv[c]]
      BY <2>2, <2>4, <3>1 DEF Envid2env
    <3>3. env_status[x] = "NOT_RUNNABLE"
      BY <2>2, <2>4, <3>1 DEF MaySetStatus
    <3> QED BY <1>2, <3>2, <3>3
  <2>5. CASE x # e
    <3>1. /\ [env_status EXCEPT ![e] = s] \in [Envs -> Statuses]
          /\ [env_status EXCEPT ![e] = s][x] = env_status[x]
      BY <1>1, <2>2, <2>3, <2>5 DEF Statuses
    <3> QED BY <1>3, <2>1, <2>2, <3>1, TrapReturnKeeps
  <2> QED BY <2>4, <2>5
<1>13. CASE SysIpcTrySend(c)
  <2>1. Trapped(c)
    BY <1>13 DEF SysIpcTrySend
  <2>2. PICK id, e :
          /\ id \in EnvIds
          /\ e = Envid2env(c, id, FALSE)
          /\ e # NULL
          /\ env_ipc_recving[e]
          /\ TrapReturn(c, [env_status EXCEPT ![e] = "RUNNABLE"], env_runs)
    BY <1>13 DEF SysIpcTrySend
  <2>3. e \in Envs /\ env_status[e] = "NOT_RUNNABLE"
    BY <2>1, <2>2, Envid2envFacts DEF IInv, ReceiverIsBlocked
  <2>4. CASE x = e
    BY <1>2, <2>2, <2>3, <2>4
  <2>5. CASE x # e
    <3>1. /\ [env_status EXCEPT ![e] = "RUNNABLE"] \in [Envs -> Statuses]
          /\ [env_status EXCEPT ![e] = "RUNNABLE"][x] = env_status[x]
      BY <1>1, <2>3, <2>5 DEF Statuses
    <3> QED BY <1>3, <2>1, <2>2, <3>1, TrapReturnKeeps
  <2> QED BY <2>4, <2>5
<1>14. CASE SysIpcRecv(c)
  <2> DEFINE st2 == [env_status EXCEPT ![curenv[c]] = "NOT_RUNNABLE"]
  <2>1. curenv[c] \in Envs /\ x # curenv[c]
    BY <1>3, <1>14 DEF SysIpcRecv
  <2>2. st2 \in [Envs -> Statuses] /\ st2[x] = env_status[x]
    BY <1>1, <2>1 DEF Statuses
  <2> QED BY <1>14, <2>1, <2>2, LeavingKeeps DEF SysIpcRecv
<1> QED
  BY <1>6, <1>7, <1>8, <1>9, <1>10, <1>11, <1>12, <1>13, <1>14 DEF Handler

\* Steps outside the handlers change no status.
LEMMA OnlyHandlers ==
    ASSUME [Next]_vars, NEW x \in Envs, env_status'[x] # env_status[x]
    PROVE  \E c \in CPUs : Handler(c)
BY DEF Next, vars, env_vars, cpu_vars, TrapFromUser, TrapFromHalt, LockKernel,
       EnvPopTf, MonitorLoop

\* A zombie is freed, and only by the CPU that runs it (env.c:487-489).
THEOREM ZombiesAreSafe ==
    ASSUME Disciplined PROVE Spec => ZombieFreedByItsCpu
<1> DEFINE A == \A e \in Envs :
        env_status[e] = "DYING" /\ env_status'[e] # "DYING" =>
            /\ env_status'[e] = "FREE"
            /\ \E c \in CPUs : kernel_lock = c /\ curenv[c] = e
<1>1. IInv /\ [Next]_vars => A
  <2> SUFFICES ASSUME IInv, [Next]_vars, NEW e \in Envs,
                      env_status[e] = "DYING", env_status'[e] # "DYING"
               PROVE  /\ env_status'[e] = "FREE"
                      /\ \E c \in CPUs : kernel_lock = c /\ curenv[c] = e
    OBVIOUS
  <2>1. PICK c \in CPUs : Handler(c)
    BY OnlyHandlers
  <2> QED BY <2>1, StatusChange
<1> QED BY <1>1, InvariantHolds, PTL DEF Spec, ZombieFreedByItsCpu

\* A child that has never run is started by its parent and by nobody else.
THEOREM ChildrenWaitForParent ==
    ASSUME Disciplined PROVE Spec => ChildStartedByParent
<1> DEFINE A == \A e \in Envs :
        /\ env_status[e] = "NOT_RUNNABLE"
        /\ env_runs[e] = 0
        /\ env_status'[e] \notin {"NOT_RUNNABLE", "FREE"}
        => \E c \in CPUs : /\ kernel_lock = c
                           /\ env_parent_id[e] = env_id[curenv[c]]
<1>1. IInv /\ [Next]_vars => A
  <2> SUFFICES ASSUME IInv, [Next]_vars, NEW e \in Envs,
                      env_status[e] = "NOT_RUNNABLE", env_runs[e] = 0,
                      env_status'[e] \notin {"NOT_RUNNABLE", "FREE"}
               PROVE  \E c \in CPUs : /\ kernel_lock = c
                                      /\ env_parent_id[e] = env_id[curenv[c]]
    OBVIOUS
  <2>1. PICK c \in CPUs : Handler(c)
    BY OnlyHandlers
  <2>2. ~env_ipc_recving[e]
    BY DEF IInv, ReceiverIsBlocked
  <2> QED BY <2>1, <2>2, StatusChange
<1> QED BY <1>1, InvariantHolds, PTL DEF Spec, ChildStartedByParent

-----------------------------------------------------------------------------
(* The big kernel lock.                                                     *)

BigLock == INSTANCE Mutex WITH holder <- kernel_lock

\* A step on CPU c leaves the lock alone or takes it back from c.
KeepsOrReleases(c) == kernel_lock' = kernel_lock \/ BigLock!Release(c)

\* env_run and sched_halt release the lock or, if it is not theirs, panic.
LEMMA LeavingReleases ==
    ASSUME NEW c, NEW st, NEW runs, NEW cur, NEW pgdir, SchedYield(c, st, runs, cur, pgdir)
    PROVE  KeepsOrReleases(c)
BY DEF SchedYield, EnvRun, SchedHalt, Panic, KeepsOrReleases, BigLock!Release

LEMMA ReturningReleases ==
    ASSUME NEW c, NEW st, NEW runs, TrapReturn(c, st, runs)
    PROVE  KeepsOrReleases(c)
<1>1. CASE st[curenv[c]] = "RUNNING"
  BY <1>1 DEF TrapReturn, EnvRun, Panic, KeepsOrReleases, BigLock!Release
<1>2. CASE st[curenv[c]] # "RUNNING"
  BY <1>2, LeavingReleases DEF TrapReturn
<1> QED BY <1>1, <1>2

\* A handler runs in the kernel, and ends in one of the two.
LEMMA HandlerReleases ==
    ASSUME NEW c \in CPUs, Handler(c)
    PROVE  KeepsOrReleases(c) /\ pc[c] \in {"boot", "kernel"}
<1>1. CASE EnvCreate(c) \/ Breakpoint(c)
  BY <1>1 DEF EnvCreate, Breakpoint, Trapped, cpu_vars, KeepsOrReleases
<1>2. CASE BootDone(c) \/ IdleYield(c) \/ ReapZombie(c) \/ TimerIrq(c) \/ SysYield(c)
  BY <1>2, LeavingReleases DEF BootDone, IdleYield, ReapZombie, TimerIrq, SysYield, Trapped
<1>3. CASE Fault(c) \/ SysIpcRecv(c)
  BY <1>3, LeavingReleases DEF Fault, DestroySelf, SysIpcRecv, Trapped
<1>4. CASE SysReturn(c) \/ SysExofork(c)
  BY <1>4, ReturningReleases DEF SysReturn, SysExofork, Trapped
<1>5. CASE SysEnvDestroy(c)
  BY <1>5, ReturningReleases, LeavingReleases
     DEF SysEnvDestroy, MarkDying, DestroyOther, DestroySelf, Trapped
<1>6. CASE SysEnvSetStatus(c)
  BY <1>6, ReturningReleases DEF SysEnvSetStatus, Trapped
<1>7. CASE SysIpcTrySend(c)
  BY <1>7, ReturningReleases DEF SysIpcTrySend, Trapped
<1> QED BY <1>1, <1>2, <1>3, <1>4, <1>5, <1>6, <1>7 DEF Handler

\* trap(), env_run and sched_halt use the big kernel lock as the abstract lock
\* that spinlock.c is proved to implement: it is only taken when free and only
\* given up by the CPU that holds it, whatever user programs do.
THEOREM KernelLockIsMutex == Spec => BigLock!Spec
<1>1. Init => BigLock!Init
  BY CPUAssumption DEF Init, BigLock!Init
<1>2. [Next]_vars => [BigLock!Next]_kernel_lock
  <2> SUFFICES ASSUME Next, kernel_lock' # kernel_lock PROVE BigLock!Next
    BY DEF vars, cpu_vars
  <2>1. PICK c \in CPUs : LockKernel(c) \/ Handler(c)
    BY DEF Next, TrapFromUser, TrapFromHalt, EnvPopTf, MonitorLoop, vars, cpu_vars
  <2>2. BigLock!Acquire(c) \/ BigLock!Release(c)
    BY <2>1, HandlerReleases DEF LockKernel, KeepsOrReleases, BigLock!Acquire
  <2> QED BY <2>2 DEF BigLock!Next
<1> QED BY <1>1, <1>2, PTL DEF Spec, BigLock!Spec

\* CPU c is in the kernel, and no other CPU is.
AloneInside(c) == kernel_lock = c /\ \A d \in CPUs \ {c} : pc[d] \notin Inside

\* CPU c is on its way to environment e, which is allocated and no other CPU's.
OwnsOnTheWayOut(c, e) ==
    /\ pc[c] = "pop" /\ curenv[c] = e
    /\ env_status[e] # "FREE"
    /\ \A d \in CPUs \ {c} : curenv[d] # e

\* The environments, their ids, flags and free list, which every CPU shares, are
\* written by nobody but the holder of the big kernel lock.  The one field written
\* after the unlock, env_cpunum (env.c:514, after env.c:565), is written by a CPU in
\* its own environment, which nobody else runs and nobody has freed by then.
LockProtectsEnvs ==
    [][/\ \/ UNCHANGED <<env_status, env_runs, env_vars>>
          \/ \E c \in CPUs : AloneInside(c)
       /\ \A e \in Envs : env_cpunum'[e] # env_cpunum[e] =>
              \E c \in CPUs : OwnsOnTheWayOut(c, e) /\ env_cpunum'[e] = c]_vars

\* Handlers leave env_cpunum alone.
LEMMA HandlerKeepsCpunum ==
    ASSUME NEW c \in CPUs, Handler(c)
    PROVE  env_cpunum' = env_cpunum
<1>1. ASSUME NEW st, NEW runs, NEW cur, NEW pgdir, SchedYield(c, st, runs, cur, pgdir)
      PROVE  env_cpunum' = env_cpunum
  BY <1>1 DEF SchedYield, EnvRun, SchedHalt, Panic
<1>2. ASSUME NEW st, NEW runs, TrapReturn(c, st, runs)
      PROVE  env_cpunum' = env_cpunum
  BY <1>1, <1>2 DEF TrapReturn, EnvRun, Panic
<1>3. CASE EnvCreate(c) \/ Breakpoint(c)
  BY <1>3 DEF EnvCreate, Breakpoint, cpu_vars
<1>4. CASE BootDone(c) \/ IdleYield(c) \/ ReapZombie(c) \/ TimerIrq(c) \/ SysYield(c)
           \/ Fault(c) \/ SysIpcRecv(c)
  BY <1>1, <1>4 DEF BootDone, IdleYield, ReapZombie, TimerIrq, SysYield, Fault, DestroySelf,
                    SysIpcRecv
<1>5. CASE SysReturn(c) \/ SysExofork(c) \/ SysEnvSetStatus(c) \/ SysIpcTrySend(c)
  BY <1>2, <1>5 DEF SysReturn, SysExofork, SysEnvSetStatus, SysIpcTrySend
<1>6. CASE SysEnvDestroy(c)
  BY <1>1, <1>2, <1>6 DEF SysEnvDestroy, MarkDying, DestroyOther, DestroySelf
<1> QED BY <1>3, <1>4, <1>5, <1>6 DEF Handler

\* A CPU that writes envs[] holds the lock and no other CPU is in the kernel, but
\* for the CPU number it leaves in its own environment after the unlock.
THEOREM EnvsAreProtected ==
    ASSUME Disciplined PROVE Spec => LockProtectsEnvs
<1> DEFINE A == /\ \/ UNCHANGED <<env_status, env_runs, env_vars>>
                   \/ \E c \in CPUs : AloneInside(c)
                /\ \A e \in Envs : env_cpunum'[e] # env_cpunum[e] =>
                       \E c \in CPUs : OwnsOnTheWayOut(c, e) /\ env_cpunum'[e] = c
<1>1. IInv /\ [Next]_vars => [A]_vars
  <2> SUFFICES ASSUME IInv, Next PROVE A
    OBVIOUS
  <2>1. ASSUME ~UNCHANGED <<env_status, env_runs, env_vars>>
        PROVE  \E c \in CPUs : AloneInside(c)
    <3>1. PICK c \in CPUs : Handler(c)
      BY <2>1 DEF Next, TrapFromUser, TrapFromHalt, LockKernel, EnvPopTf, MonitorLoop, vars
    <3>2. kernel_lock = c
      BY <3>1, HandlerReleases DEF IInv, KernelExclusive, Inside
    <3> QED BY <3>2 DEF IInv, KernelExclusive, AloneInside
  <2>2. ASSUME NEW e \in Envs, env_cpunum'[e] # env_cpunum[e]
        PROVE  \E c \in CPUs : OwnsOnTheWayOut(c, e) /\ env_cpunum'[e] = c
    <3>1. PICK c \in CPUs : EnvPopTf(c)
      BY <2>2, HandlerKeepsCpunum
         DEF Next, TrapFromUser, TrapFromHalt, LockKernel, MonitorLoop, vars, cpu_vars
    <3>2. curenv[c] = e /\ pc[c] = "pop" /\ env_cpunum'[e] = c
      BY <2>2, <3>1 DEF EnvPopTf, IInv, TypeOK
    <3>3. env_status[e] # "FREE" /\ \A d \in CPUs \ {c} : curenv[d] # e
      BY <3>2, NENVAssumption DEF IInv, StatusTracksCurenv, OneCpuPerEnv
    <3> QED BY <3>2, <3>3 DEF OwnsOnTheWayOut
  <2> QED BY <2>1, <2>2
<1> QED BY <1>1, InvariantHolds, PTL DEF Spec, LockProtectsEnvs
=============================================================================
