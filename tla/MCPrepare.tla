----------------------------- MODULE MCPrepare -----------------------------
(* Prepare with interchangeable prepare processes and models. *)
EXTENDS Prepare, TLC

Interchangeable == Permutations(Preparers) \cup Permutations(Models)
=============================================================================
