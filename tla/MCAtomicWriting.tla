---------------------------- MODULE MCAtomicWriting ----------------------------
(* Small instances of AtomicWriting for TLC.                               *)
EXTENDS AtomicWriting, TLC

(* Requests and contents are interchangeable; for safety properties only.  *)
Symmetry == Permutations(Requests) \cup Permutations(Values)
=============================================================================
