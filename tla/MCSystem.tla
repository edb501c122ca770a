------------------------------ MODULE MCSystem ------------------------------
(* The components around the publish path, checked in one run: the life of   *)
(* the database files, the worker pool, the import edges, the spans and the  *)
(* extraction of evidence, the calls of the server, its installed binary and *)
(* the clients it is connected to.  Each has a state of its own: `part` says *)
(* which one a behaviour is of, and the others stay in one of their initial  *)
(* states.                                                                   *)
EXTENDS Lifecycle, FilePool, MCEdges, MCLineIndex, MCEvidence, Server,
        Binary, MCClients

VARIABLE part

Parts == {"lifecycle", "pool", "edges", "spans", "evidence", "server", "binary", "clients"}

systemVars == <<part, lifecycleVars, poolVars, edgeVars, spanVars, evidenceVars,
                serverVars, binaryVars, clientVars>>

SystemInit ==
  /\ part \in Parts
  /\ part = "lifecycle" \/ (active = TRUE /\ dbName = 0)
  /\ LifecycleInit
  /\ part = "pool" \/ sampled = [i \in Index |-> Skip]
  /\ PoolInit
  /\ part = "edges" \/ disk = [f \in Paths |-> Absent]
  /\ EdgesInit
  /\ part = "spans" \/ source = <<>>
  /\ SpanInit
  /\ part = "evidence" \/ parsed = (CHOOSE t \in Trees : TRUE)
  /\ EvidenceInit
  /\ ServerInit
  /\ part = "binary" \/ target = NoBinary
  /\ BinaryInit
  /\ part = "clients" \/ (client = "claude" /\ onPath = FALSE /\ config = File("object", NoSections))
  /\ ClientsInit

Others(name) ==
  /\ part = name /\ UNCHANGED part
  /\ name # "lifecycle" => UNCHANGED lifecycleVars
  /\ name # "pool" => UNCHANGED poolVars
  /\ name # "edges" => UNCHANGED edgeVars
  /\ name # "spans" => UNCHANGED spanVars
  /\ name # "evidence" => UNCHANGED evidenceVars
  /\ name # "server" => UNCHANGED serverVars
  /\ name # "binary" => UNCHANGED binaryVars
  /\ name # "clients" => UNCHANGED clientVars

SystemNext ==
  \/ Others("lifecycle") /\ LifecycleNext
  \/ Others("pool") /\ PoolNext
  \/ Others("edges") /\ EdgesNext
  \/ Others("spans") /\ SpanNext
  \/ Others("evidence") /\ EvidenceNext
  \/ Others("server") /\ ServerNext
  \/ Others("binary") /\ BinaryNext
  \/ Others("clients") /\ ClientsNext

SystemSpec == SystemInit /\ [][SystemNext]_systemVars

\* The types of the component a behaviour is of.
SystemTypeOK ==
  CASE part = "lifecycle" -> LifecycleTypeOK
    [] part = "pool" -> PoolTypeOK
    [] part = "edges" -> EdgesTypeOK
    [] part = "spans" -> SpanTypeOK
    [] part = "evidence" -> EvidenceTypeOK
    [] part = "server" -> ServerTypeOK
    [] part = "binary" -> BinaryTypeOK
    [] part = "clients" -> ClientsTypeOK
==============================================================================
