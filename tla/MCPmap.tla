------------------------------- MODULE MCPmap -------------------------------
(* Instances of Pmap for TLC: CPUs, environments and pages are model values *)
(* and nothing in Pmap tells two CPUs or two pages apart.                   *)
EXTENDS Pmap, TLC

CONSTANTS c0, c1, e0, e1, p1, p2, p3, p4, p5, p6

FivePages == <<p1, p2, p3, p4, p5>>
SixPages == <<p1, p2, p3, p4, p5, p6>>
Symmetry == Permutations(CPUs) \cup Permutations(Pages)
=============================================================================
