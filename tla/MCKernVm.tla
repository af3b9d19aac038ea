------------------------------ MODULE MCKernVm ------------------------------
(* KernVm for TLC: machines of every size from no extended memory on: up to *)
(* what one page table maps (40 pages), what is mapped at KERNBASE (80),    *)
(* what has a PageInfo array in reach of entry_pgdir (88 to 128), more than *)
(* that, and the whole address space (360); and kernels that end before, at *)
(* and after a page boundary, and as far up as memory of 40 pages allows.   *)
EXTENDS KernVm

SomeMachines ==
    [basemem : {24}, extmem : {0, 16, 36, 44, 46, 48, 50, 52}, ext16mem : {0},
     end : {167, 168, 169, 178, 200, 201}]
    \cup [basemem : {24}, extmem : {0}, end : {167, 168, 169, 178, 200, 201},
          ext16mem : {3, 5, 6, 10, 14, 22, 26, 27, 28, 40, 41, 42, 44, 46, 47, 50, 66, 170}]
=============================================================================
