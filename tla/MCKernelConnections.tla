------------------------- MODULE MCKernelConnections -------------------------
(* Small instances of KernelConnections for TLC.                           *)
EXTENDS KernelConnections, TLC

Symmetry == Permutations(Keys) \cup Permutations(Conns)
=============================================================================
