----------------------------- MODULE MCRunLock -----------------------------
(* RunLock for a few interchangeable processes. *)
EXTENDS RunLock, TLC

Symmetry == Permutations(Procs)
=============================================================================
