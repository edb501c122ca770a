----------------------------- MODULE MCAnalysis -----------------------------
(* Instances of Analysis and Reports: two languages, one without a grammar   *)
(* that loads, a file too large to parse, a prose file; runs that give all   *)
(* they have, syntax errors, items over a cap, and one that is cut.          *)
EXTENDS Reports
MCSourceFiles == [a |-> "rust", b |-> "python", c |-> "large", d |-> "prose"]
OneFact(b, d) == [bytes |-> b, diagnostic |-> d]
Ended(items) == [items |-> items, capped |-> FALSE, timed_out |-> FALSE]
MCExtractions ==
  {Ended(<<OneFact(1, FALSE)>>),
   Ended(<<OneFact(4, FALSE), OneFact(1, FALSE)>>),
   Ended(<<OneFact(4, FALSE), OneFact(1, FALSE), OneFact(1, TRUE), OneFact(1, TRUE), OneFact(1, TRUE)>>),
   [items |-> <<OneFact(2, FALSE), OneFact(2, FALSE)>>, capped |-> TRUE, timed_out |-> TRUE]}
=============================================================================
