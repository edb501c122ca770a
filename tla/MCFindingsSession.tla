-------------------------- MODULE MCFindingsSession --------------------------
(* Symmetry for FindingsSession: processes and ids are interchangeable.      *)
EXTENDS FindingsSession, TLC

Symmetry == Permutations(Procs) \cup Permutations(Ids)
==============================================================================
