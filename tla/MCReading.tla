------------------------------ MODULE MCReading ------------------------------
(* The components a tool call reads through, checked in one run: the files   *)
(* of the servers that own results, the pages served from a result, the scan *)
(* of a structure request, the mechanics with their cache, and the analysis  *)
(* whose rows are counted and reported.  Each has a state of its own, so a   *)
(* behaviour is of one of them and `part` says of which; the others stay as  *)
(* they began.                                                               *)
EXTENDS ResultOwner, Paging, StructureScan, Mechanics, MCAnalysis

VARIABLE part

Components == {"owner", "paging", "structure", "mechanics", "analysis"}

readingVars == <<part, ownerVars, pagingVars, scanVars, mechanicsVars, analysisVars>>

ReadingInit ==
  /\ part \in Components
  /\ OwnerInit /\ PagingInit /\ StructureInit /\ MechanicsInit
  /\ part = "paging" \/ ceiling = CHOOSE c \in Ceilings : TRUE
  /\ part = "analysis" \/ (online = TRUE /\ onHost = {})
  /\ AnalysisInit

Only(name) ==
  /\ part = name /\ UNCHANGED part
  /\ name # "owner" => UNCHANGED ownerVars
  /\ name # "paging" => UNCHANGED pagingVars
  /\ name # "structure" => UNCHANGED scanVars
  /\ name # "mechanics" => UNCHANGED mechanicsVars
  /\ name # "analysis" => UNCHANGED analysisVars

ReadingNext == \/ Only("owner") /\ OwnerNext
               \/ Only("paging") /\ PagingNext
               \/ Only("structure") /\ StructureNext
               \/ Only("mechanics") /\ MechanicsNext
               \/ Only("analysis") /\ AnalysisNext

ReadingSpec == ReadingInit /\ [][ReadingNext]_readingVars

\* The types of the component a behaviour is of.
ReadingTypeOK ==
  CASE part = "owner" -> OwnerTypeOK
    [] part = "paging" -> PagingTypeOK
    [] part = "structure" -> StructureTypeOK
    [] part = "mechanics" -> MechanicsTypeOK
    [] part = "analysis" -> AnalysisTypeOK

MCRowKinds == {[cells |-> <<1>>, file |-> "f"], [cells |-> <<4, 4>>, file |-> "g"]}
MCRowCost == [q1 |-> 1, q2 |-> 2]
==============================================================================
