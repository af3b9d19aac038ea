------------------------------ MODULE MCSmpBoot -----------------------------
(* SmpBoot for TLC: room for three CPUs in cpus[].                          *)
EXTENDS SmpBoot

Pc(table) == [ebda |-> TRUE, at |-> {"ebda"}, fault |-> "none", table |-> table]

\* Boot CPU first: as many CPUs as fit, fewer, too many, a table that cannot
\* be understood, and tables that are not found or not accepted.
BootFirst ==
    {Pc(<<"boot", "proc", "bus", "proc">>), Pc(<<"boot", "bus">>), Pc(<<"boot", "proc">>),
     Pc(<<"boot", "proc", "proc", "proc", "bus">>), Pc(<<"boot", "proc", "unknown", "proc">>)}
    \cup {[Pc(<<"boot", "proc">>) EXCEPT !.fault = f] :
              f \in {"default", "signature", "sum", "version", "xsum"}}
    \cup {[ebda |-> e, at |-> p, fault |-> "none", table |-> <<"boot", "proc", "proc">>] :
              e \in BOOLEAN, p \in SUBSET {"ebda", "base", "rom"}}
=============================================================================
