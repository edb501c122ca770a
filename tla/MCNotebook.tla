----------------------------- MODULE MCNotebook -----------------------------
(* Instances of Notebook: two contents of different length, and line ranges  *)
(* that fit one of them, both, or none because they are reversed.            *)
EXTENDS Notebook
MCLinesOf == <<1, 2>>
MCRanges == {<<1, 1>>, <<1, 2>>, <<2, 1>>}
=============================================================================
