----------------------------- MODULE MCPublish -----------------------------
(* Values for the constants of Publish that a cfg file cannot write down.   *)
EXTENDS Publish, TLC

CONSTANTS a, b, t1, t2, bin, bad, big, locked, hidden, p1, p2

\* Every content differs in size or mtime, except that two large files may not.
MCStatOf == [c \in Contents |-> c]

MCSameVersion == [q \in Procs |-> "1.0"]
MCTwoVersions == [q \in Procs |-> IF q = p1 THEN "1.0" ELSE "1.1"]

PathSymmetry == Permutations(Paths)
Symmetry == Permutations(Paths) \cup Permutations(Procs)
==============================================================================
