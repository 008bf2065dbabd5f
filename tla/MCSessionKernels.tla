-------------------------- MODULE MCSessionKernels --------------------------
(* Small instances of SessionKernels for TLC.                              *)
EXTENDS SessionKernels, TLC

Symmetry == Permutations(Requests) \cup Permutations(Sessions)
            \cup Permutations(Kernels)
=============================================================================
