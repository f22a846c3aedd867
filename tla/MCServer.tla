------------------------------ MODULE MCServer ------------------------------
(* Server on small instances: the request ids and the threads of Flask are *)
(* interchangeable, so safety runs may use their symmetry.                 *)
EXTENDS Server, TLC

Symmetry == Permutations(Handlers) \cup Permutations(RequestIds)
=============================================================================
