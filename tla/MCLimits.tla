------------------------------ MODULE MCLimits ------------------------------
(* Instances of ResourceLimits: files with a misspelled key, with zeros, with *)
(* values above what SQLite can store; environments that are not valid, that  *)
(* choose a profile, that raise one limit above another; hosts that report    *)
(* both figures, in either order, too large, or not at all.                   *)
EXTENDS ResourceLimits, TLC

MCTables ==
  [lean |-> [file |-> 3, parse |-> 2, import |-> 9, response |-> 3, store |-> 12],
   audit |-> [file |-> 5, parse |-> 2, import |-> 20, response |-> 5, store |-> 20]]

Setting(profile, set) == [NoConfig EXCEPT !.profile = profile, !.keys = set @@ @]
MCConfigFiles ==
  {NoConfig, [NoConfig EXCEPT !.readable = FALSE],
   Setting("lean", "parse" :> 4),
   Setting("audit", ("file" :> 1) @@ ("store" :> 7)),
   Setting(NoProfile, ("file" :> 9) @@ ("import" :> 0)),
   Setting(NoProfile, ("file" :> 0) @@ ("store" :> 0))}

Started(profile, set) == [NoEnviron EXCEPT !.profile = profile, !.keys = set @@ @]
MCEnvirons ==
  {NoEnviron, [NoEnviron EXCEPT !.valid = FALSE],
   Started("audit", ("response" :> 2)),
   Started("lean", ("file" :> 10) @@ ("parse" :> 6)),
   Started(NoProfile, ("file" :> 1) @@ ("store" :> 3))}

Line(of, kb) == [of |-> of, kb |-> kb]
MCMemInfos ==
  {<<Line("total", 60), Line("other", Malformed), Line("available", 40)>>,
   <<Line("available", 4), Line("total", 90), Line("total", Malformed)>>,
   <<Line("total", 200), Line("available", 60)>>,
   <<Line("total", Malformed), Line("available", 40)>>}
==============================================================================
