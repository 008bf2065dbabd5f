--------------------------- MODULE MCGatewayKernels ---------------------------
(***************************************************************************)
(* GatewayKernels with two kernels and two operations at a time.           *)
(***************************************************************************)
EXTENDS GatewayKernels, TLC

MCSymmetry == Permutations(Kernels) \cup Permutations(Tasks)
=============================================================================
