----------------------------- MODULE MCEnvSched -----------------------------
(* Instances of EnvSched for TLC: the CPUs are model values.  There is no   *)
(* symmetry: BSP is special, and slots are searched in order.               *)
EXTENDS EnvSched

CONSTANTS c0, c1

\* What tells states apart: env_alloc overwrites the parent and the run count of
\* a FREE slot before anything reads them, and env_cpunum is read by the
\* environment only, in user mode.
Live(field) == [e \in Envs |-> IF env_status[e] = "FREE" THEN NULL ELSE field[e]]
LiveState ==
    <<env_status, env_id, Live(env_parent_id), Live(env_runs), env_ipc_recving,
      env_free_list, curenv, cpu_status, cr3, pc, kernel_lock,
      [c \in CPUs |-> IF pc[c] = "user" THEN env_cpunum[curenv[c]] ELSE NULL]>>
=============================================================================
