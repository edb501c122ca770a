-------------------------------- MODULE MCKept --------------------------------
(* What a server keeps between calls, checked in one run: the results in its  *)
(* store, the profiles chosen for its projects with the limits that follow    *)
(* from them, and the findings of its session.  Each has a state of its own:  *)
(* `part` says which one a behaviour is of, and the others stay in one of     *)
(* their initial states.  Results are interchangeable.                        *)
EXTENDS ResultStore, MCLimits, MCNotebook

VARIABLE part

keptVars == <<part, storeVars, limitVars, notebookVars>>

SomeHost == CHOOSE host \in MemInfos : TRUE

KeptInit ==
  /\ part \in {"store", "limits", "notebook"}
  /\ StoreInit
  /\ part = "limits" \/ (configFile = NoConfig /\ memory = SomeHost)
  /\ LimitsInit
  /\ part = "notebook" \/ history = <<[p \in NotedFiles |-> NotIndexed]>>
  /\ NotebookInit

KeptNext ==
  /\ UNCHANGED part
  /\ \/ part = "store" /\ StoreNext /\ UNCHANGED <<limitVars, notebookVars>>
     \/ part = "limits" /\ LimitsNext /\ UNCHANGED <<storeVars, notebookVars>>
     \/ part = "notebook" /\ NotebookNext /\ UNCHANGED <<storeVars, limitVars>>

KeptSpec == KeptInit /\ [][KeptNext]_keptVars

Symmetry == Permutations(Results)
===============================================================================
