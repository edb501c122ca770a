--------------------------- MODULE LifecycleProofs ---------------------------
(***************************************************************************)
(* Proofs about Lifecycle: a verified read is fresh for any number of     *)
(* server processes, calls, database files, logs and faults.              *)
(***************************************************************************)
EXTENDS Lifecycle, TLAPS

USE LifecycleAssumption

-----------------------------------------------------------------------------
(* The shape of the state, and what a call holds.                           *)

StateHolds == LifecycleShape /\ BlankIsNew /\ \A p \in Procs : CallHolds(p)

\* A step that changes the call of p.
CallMoves(p) ==
  call' \in [Procs -> CallStates] /\ \A q \in Procs \ {p} : call'[q] = call[q]
\* It keeps what the call knows, and its connection.
KeepsCall(p) ==
  LET c == call[p]  d == call'[p] IN
  d.kind = c.kind /\ d.since = c.since /\ d.seen = c.seen /\ d.rev = c.rev /\ d.base = c.base
KeepsConnection(p) == call'[p].file = call[p].file /\ call'[p].log = call[p].log
NoConnection(p) == call'[p].file = 0 /\ call'[p].log = 0

LEMMA GoIsAMove ==
  ASSUME call \in [Procs -> CallStates], NEW p \in Procs, NEW pc \in CallPcs, Go(p, pc)
  PROVE  CallMoves(p) /\ call'[p].pc = pc /\ KeepsCall(p) /\ KeepsConnection(p)
  BY DEF Go, CallMoves, KeepsCall, KeepsConnection, CallStates

LEMMA ReturnIsAMove ==
  ASSUME call \in [Procs -> CallStates], NEW p \in Procs, Returns(p)
  PROVE  CallMoves(p) /\ call'[p] = NoCall /\ NoConnection(p)
<1>1. NoCall \in CallStates
  BY DEF NoCall, CallStates, CallPcs
<1>2. NoCall.file = 0 /\ NoCall.log = 0
  BY DEF NoCall
<1> QED
  BY <1>1, <1>2 DEF Returns, CallMoves, NoConnection

LEMMA DiscardIsAMove ==
  ASSUME call \in [Procs -> CallStates], NEW p \in Procs, Discards(p)
  PROVE  CallMoves(p) /\ call'[p].pc = "unlink" /\ KeepsCall(p) /\ NoConnection(p)
<1> DEFINE new == [call[p] EXCEPT !.pc = "unlink", !.file = 0, !.log = 0, !.scratch = TRUE]
<1>1. call' = [call EXCEPT ![p] = new]
  BY DEF Discards, CallStates
<1>2. "unlink" \in CallPcs /\ 0 \in 0..MaxFiles /\ 0 \in 0..MaxLogs /\ TRUE \in BOOLEAN
  BY DEF CallPcs
<1>3. new \in CallStates
  BY <1>2 DEF CallStates
<1>4. /\ new.pc = "unlink" /\ new.file = 0 /\ new.log = 0
      /\ new.kind = call[p].kind /\ new.since = call[p].since /\ new.seen = call[p].seen
      /\ new.rev = call[p].rev /\ new.base = call[p].base
  BY DEF CallStates
<1> HIDE DEF new
<1> QED
  BY <1>1, <1>3, <1>4 DEF CallMoves, KeepsCall, NoConnection

LEMMA CallsHold ==
  ASSUME StateHolds, LifecycleShape', NEW p \in Procs, CallMoves(p), CallHolds(p)',
         made'.file >= made.file, made'.log >= made.log, tree' >= tree
  PROVE  \A q \in Procs : CallHolds(q)'
<1> SUFFICES ASSUME NEW q \in Procs, q # p
             PROVE  CallHolds(q)'
  OBVIOUS
<1>1. CallHolds(q) /\ call'[q] = call[q] /\ call[q] \in CallStates
  BY DEF StateHolds, CallMoves, LifecycleShape
<1>2. /\ made \in [file : 0..MaxFiles, log : 0..MaxLogs] /\ made' \in [file : 0..MaxFiles, log : 0..MaxLogs]
      /\ tree \in Nat /\ tree' \in Nat
  BY DEF StateHolds, LifecycleShape
<1>3. call[q].since \in Nat /\ call[q].file \in 0..MaxFiles /\ call[q].log \in 0..MaxLogs
  BY <1>1 DEF CallStates
<1> QED
  BY <1>1, <1>2, <1>3 DEF CallHolds

\* A step that only lets go: names are removed, and its call has no
\* connection after it and is neither publishing nor about to read.
LetsGo(p) ==
  /\ UNCHANGED <<made, files, logs, split, tree>> /\ active' \in BOOLEAN
  /\ dbName' \in {dbName, 0} /\ logName' \in {logName, 0}
  /\ CallMoves(p) /\ NoConnection(p) /\ call'[p].pc \notin OpenPcs \cup {"read"}
  /\ call'[p].since <= tree
  /\ answer' \in [Procs -> [since : Nat, got : DbIndexes]]

LEMMA GoLetsGo ==
  ASSUME StateHolds, NEW p \in Procs, NEW pc \in CallPcs \ (OpenPcs \cup {"read"}), Go(p, pc),
         call[p].file = 0
  PROVE  /\ CallMoves(p) /\ NoConnection(p) /\ call'[p].pc \notin OpenPcs \cup {"read"}
         /\ call'[p].since <= tree
<1>1. CallMoves(p) /\ call'[p].pc = pc /\ KeepsCall(p) /\ KeepsConnection(p)
  BY GoIsAMove DEF StateHolds, LifecycleShape
<1>2. call[p].log = 0 /\ call[p].since <= tree
  BY DEF StateHolds, CallHolds
<1> QED
  BY <1>1, <1>2 DEF KeepsCall, KeepsConnection, NoConnection

LEMMA ReturnLetsGo ==
  ASSUME StateHolds, NEW p \in Procs, Returns(p)
  PROVE  /\ CallMoves(p) /\ NoConnection(p) /\ call'[p].pc \notin OpenPcs \cup {"read"}
         /\ call'[p].since <= tree
<1>1. CallMoves(p) /\ call'[p] = NoCall /\ NoConnection(p)
  BY ReturnIsAMove DEF StateHolds, LifecycleShape
<1>2. tree \in Nat
  BY DEF StateHolds, LifecycleShape
<1> QED
  BY <1>1, <1>2 DEF NoCall, OpenPcs

LEMMA DiscardLetsGo ==
  ASSUME StateHolds, NEW p \in Procs, Discards(p)
  PROVE  /\ CallMoves(p) /\ NoConnection(p) /\ call'[p].pc \notin OpenPcs \cup {"read"}
         /\ call'[p].since <= tree
<1>1. CallMoves(p) /\ call'[p].pc = "unlink" /\ KeepsCall(p) /\ NoConnection(p)
  BY DiscardIsAMove DEF StateHolds, LifecycleShape
<1>2. call[p].since <= tree
  BY DEF StateHolds, CallHolds
<1> QED
  BY <1>1, <1>2 DEF KeepsCall, OpenPcs

LEMMA StartLetsGo ==
  ASSUME StateHolds, NEW p \in Procs, NEW kind \in {"sync", "on", "off"}, StartCall(p, kind)
  PROVE  LetsGo(p)
<1> DEFINE new == [NoCall EXCEPT
       !.kind = kind, !.since = tree,
       !.pc = CASE kind = "sync" -> "resolve" [] kind = "on" -> "mkdir" [] kind = "off" -> "remove",
       !.left = IF kind = "off" THEN {"db", "log"} ELSE {}]
<1>1. tree \in Nat /\ call \in [Procs -> CallStates] /\ active \in BOOLEAN
  BY DEF StateHolds, LifecycleShape
<1>2. call' = [call EXCEPT ![p] = new]
  BY DEF StartCall
<1>3. /\ new.file = 0 /\ new.log = 0 /\ new.since = tree
      /\ new.pc \in {"resolve", "mkdir", "remove"}
  BY DEF NoCall
<1>4. new \in CallStates
  <2>1. NoCall \in CallStates /\ {"resolve", "mkdir", "remove"} \subseteq CallPcs
    BY DEF NoCall, CallStates, CallPcs
  <2>2. new = [NoCall EXCEPT !.kind = kind, !.since = tree, !.pc = new.pc, !.left = new.left]
    BY DEF NoCall
  <2>3. new.left \in SUBSET {"db", "log"}
    BY DEF NoCall
  <2> HIDE DEF new
  <2> QED
    BY <1>1, <1>3, <2>1, <2>2, <2>3 DEF CallStates
<1>5. NoAnswer \in [since : Nat, got : DbIndexes]
  BY DEF NoAnswer, Blank, DbIndexes, Schemas
<1>6. answer' \in [Procs -> [since : Nat, got : DbIndexes]]
  BY <1>5 DEF StartCall, StateHolds, LifecycleShape
<1>7. UNCHANGED <<active, dbName, logName, made, files, logs, tree, split>>
  BY DEF StartCall, UnchangedNames
<1> HIDE DEF new
<1>8. CallMoves(p) /\ call'[p] = new
  BY <1>1, <1>2, <1>4 DEF CallMoves
<1> QED
  BY <1>1, <1>3, <1>6, <1>7, <1>8 DEF LetsGo, NoConnection, OpenPcs

LEMMA ReadLetsGo ==
  ASSUME StateHolds, NEW p \in Procs, VerifiedRead(p)
  PROVE  LetsGo(p)
<1>1. /\ files \in [1..MaxFiles -> DbIndexes] /\ logs \in [1..MaxLogs -> DbIndexes]
      /\ dbName \in 0..MaxFiles /\ logName \in 0..MaxLogs /\ call[p] \in CallStates
      /\ answer \in [Procs -> [since : Nat, got : DbIndexes]] /\ active \in BOOLEAN
  BY DEF StateHolds, LifecycleShape
<1>2. NamedIndex \in DbIndexes
  BY <1>1 DEF NamedIndex, Blank, DbIndexes, Schemas, Shared
<1>3. [since |-> call[p].since, got |-> NamedIndex]
        \in [since : Nat, got : DbIndexes]
  BY <1>1, <1>2 DEF CallStates
<1>4. answer' \in [Procs -> [since : Nat, got : DbIndexes]]
  BY <1>1, <1>3 DEF VerifiedRead
<1>5. UNCHANGED <<active, dbName, logName, made, files, logs, tree, split>> /\ Returns(p)
  BY DEF VerifiedRead, UnchangedNames
<1> QED
  BY <1>1, <1>4, <1>5, ReturnLetsGo DEF LetsGo

LEMMA PlainStepsLetGo ==
  ASSUME StateHolds, NEW p \in Procs,
         \/ ResolveRoot(p)
         \/ MakeDir(p)
         \/ BeginSession(p)
         \/ UnlinkMain(p)
         \/ UnlinkLogs(p)
         \/ RemoveEntry(p)
         \/ RemoveDir(p)
         \/ Die(p)
  PROVE  LetsGo(p)
<1>1. /\ call \in [Procs -> CallStates] /\ active \in BOOLEAN
      /\ answer \in [Procs -> [since : Nat, got : DbIndexes]]
  BY DEF StateHolds, LifecycleShape
<1>2. call[p].pc \notin OpenPcs => call[p].file = 0 /\ call[p].log = 0
  BY DEF StateHolds, CallHolds
<1>3. \A pc \in {"begin", "open", "create", "unlink_logs"} :
        pc \in CallPcs \ (OpenPcs \cup {"read"})
  BY DEF CallPcs, OpenPcs
<1>4. CASE ResolveRoot(p)
  <2>1. call[p].file = 0 /\ (Go(p, "begin") \/ Returns(p))
    BY <1>2, <1>4 DEF ResolveRoot, InStep, OpenPcs
  <2> QED
    BY <1>1, <1>3, <1>4, <2>1, GoLetsGo, ReturnLetsGo DEF LetsGo, ResolveRoot, UnchangedNames, UnchangedRest
<1>5. CASE MakeDir(p)
  <2>1. call[p].file = 0 /\ Go(p, "begin")
    BY <1>2, <1>5 DEF MakeDir, InStep, OpenPcs
  <2> QED
    BY <1>1, <1>3, <1>5, <2>1, GoLetsGo DEF LetsGo, MakeDir, UnchangedRest
<1>6. CASE BeginSession(p)
  <2>1. call[p].file = 0 /\ (Go(p, "open") \/ Go(p, "create") \/ Returns(p))
    BY <1>2, <1>6 DEF BeginSession, InStep, OpenPcs
  <2> QED
    BY <1>1, <1>3, <1>6, <2>1, GoLetsGo, ReturnLetsGo DEF LetsGo, BeginSession, UnchangedNames
<1>7. CASE UnlinkMain(p)
  <2>1. call[p].file = 0 /\ Go(p, "unlink_logs")
    BY <1>2, <1>7 DEF UnlinkMain, InStep, OpenPcs
  <2> QED
    BY <1>1, <1>3, <1>7, <2>1, GoLetsGo DEF LetsGo, UnlinkMain, UnchangedRest
<1>8. CASE UnlinkLogs(p)
  <2>1. call[p].file = 0 /\ Go(p, "create")
    BY <1>2, <1>8 DEF UnlinkLogs, InStep, OpenPcs
  <2> QED
    BY <1>1, <1>3, <1>8, <2>1, GoLetsGo DEF LetsGo, UnlinkLogs, UnchangedRest
<1>9. CASE RemoveEntry(p)
  <2>1. PICK entry \in call[p].left :
          /\ call' = [call EXCEPT ![p].left = @ \ {entry}]
          /\ dbName' = IF entry = "db" THEN 0 ELSE dbName
          /\ logName' = IF entry = "log" THEN 0 ELSE logName
    BY <1>9 DEF RemoveEntry
  <2>2. CallMoves(p) /\ KeepsCall(p) /\ KeepsConnection(p) /\ call'[p].pc = "remove"
    <3> DEFINE new == [call[p] EXCEPT !.left = call[p].left \ {entry}]
    <3>1. call' = [call EXCEPT ![p] = new] /\ call[p].pc = "remove"
      BY <1>1, <1>9, <2>1 DEF RemoveEntry, InStep
    <3>2. call[p] \in CallStates /\ call[p].left \ {entry} \in SUBSET {"db", "log"}
      BY <1>1 DEF CallStates
    <3>3. new \in CallStates
      BY <3>2 DEF CallStates
    <3>4. /\ new.pc = call[p].pc /\ new.file = call[p].file /\ new.log = call[p].log
          /\ new.kind = call[p].kind /\ new.since = call[p].since /\ new.seen = call[p].seen
          /\ new.rev = call[p].rev /\ new.base = call[p].base
      BY <3>2 DEF CallStates
    <3> HIDE DEF new
    <3> QED
      BY <1>1, <3>1, <3>3, <3>4 DEF CallMoves, KeepsCall, KeepsConnection
  <2>3. call[p].file = 0 /\ call[p].log = 0 /\ call[p].since <= tree
    BY <1>2, <1>9 DEF RemoveEntry, InStep, OpenPcs, StateHolds, CallHolds
  <2> QED
    BY <1>1, <1>9, <2>1, <2>2, <2>3
       DEF LetsGo, RemoveEntry, UnchangedRest, NoConnection, KeepsCall, KeepsConnection, OpenPcs
<1>10. CASE RemoveDir(p)
  BY <1>1, <1>10, ReturnLetsGo DEF LetsGo, RemoveDir, UnchangedRest
<1>11. CASE Die(p)
  BY <1>1, <1>11, ReturnLetsGo DEF LetsGo, Die, UnchangedNames
<1> QED
  BY <1>4, <1>5, <1>6, <1>7, <1>8, <1>9, <1>10, <1>11

\* A step that makes a new database file.
Makes(p) ==
  /\ dbName = 0 /\ dbName' = made.file + 1 /\ dbName' <= MaxFiles
  /\ made' = [made EXCEPT !.file = made.file + 1] /\ made'.file = dbName' /\ made'.log = made.log
  /\ UNCHANGED <<logName, files, logs, split, tree, active, answer>>
  /\ CallMoves(p) /\ NoConnection(p) /\ call'[p].pc \notin OpenPcs \cup {"read"}
  /\ call'[p].since <= tree /\ call[p].file = 0

\* A step that opens the named file, with a log that takes the named index.
OpensLog == IF Shared THEN logName ELSE made.log + 1
Opens(p) ==
  /\ dbName # 0 /\ Usable(NamedIndex) /\ OpensLog <= MaxLogs
  /\ made' = [made EXCEPT !.log = IF Shared THEN made.log ELSE OpensLog]
  /\ made'.file = made.file /\ made'.log = (IF Shared THEN made.log ELSE OpensLog)
  /\ logName' = OpensLog /\ logs' = [logs EXCEPT ![OpensLog] = Migrated(NamedIndex)]
  /\ split' = (split \/ \E q \in Procs \ {p} : call[q].file = dbName /\ call[q].log # OpensLog)
  /\ UNCHANGED <<dbName, files, tree, active, answer>>
  /\ CallMoves(p) /\ KeepsCall(p) /\ call[p].file = 0
  /\ call'[p].file = dbName /\ call'[p].log = OpensLog
  /\ call'[p].pc = "meta" \/ (call'[p].pc = "walk" /\ call[p].kind = "on")

LEMMA NamedIndexIsOne ==
  ASSUME StateHolds
  PROVE  NamedIndex \in DbIndexes /\ Migrated(NamedIndex) \in DbIndexes
<1>1. /\ files \in [1..MaxFiles -> DbIndexes] /\ logs \in [1..MaxLogs -> DbIndexes]
      /\ dbName \in 0..MaxFiles /\ logName \in 0..MaxLogs
  BY DEF StateHolds, LifecycleShape
<1>2. NamedIndex \in DbIndexes
  BY <1>1 DEF NamedIndex, Blank, DbIndexes, Schemas, Shared
<1> QED
  BY <1>2 DEF Migrated, DbIndexes, Schemas

LEMMA BindOpens ==
  ASSUME StateHolds, NEW p \in Procs, NEW pc \in {"meta", "walk"}, pc = "walk" => call[p].kind = "on",
         call[p].file = 0, dbName # 0, Usable(NamedIndex), Bind(p, pc, Migrated(NamedIndex)),
         UNCHANGED <<active, dbName, files>>, UnchangedRest
  PROVE  Opens(p)
<1>1. /\ call \in [Procs -> CallStates] /\ made \in [file : 0..MaxFiles, log : 0..MaxLogs]
      /\ dbName \in 0..MaxFiles /\ logName \in 0..made.log
  BY DEF StateHolds, LifecycleShape
<1>2. OpensLog \in 0..MaxLogs /\ OpensLog <= MaxLogs
  BY <1>1 DEF Bind, OpensLog
<1>3. /\ made' = [made EXCEPT !.log = IF Shared THEN @ ELSE OpensLog]
      /\ logName' = OpensLog /\ logs' = [logs EXCEPT ![OpensLog] = Migrated(NamedIndex)]
      /\ split' = (split \/ \E q \in Procs \ {p} : call[q].file = dbName /\ call[q].log # OpensLog)
      /\ call' = [call EXCEPT ![p].pc = pc, ![p].file = dbName, ![p].log = OpensLog]
  BY DEF Bind, OpensLog
<1>4. made'.file = made.file /\ made'.log = (IF Shared THEN made.log ELSE OpensLog)
  BY <1>1, <1>3
<1> DEFINE new == [call[p] EXCEPT !.pc = pc, !.file = dbName, !.log = OpensLog]
<1>5. call' = [call EXCEPT ![p] = new]
  BY <1>1, <1>3 DEF CallStates
<1>6. new \in CallStates
  <2>1. pc \in CallPcs /\ call[p] \in CallStates
    BY <1>1 DEF CallPcs
  <2> QED
    BY <1>1, <1>2, <2>1 DEF CallStates
<1>7. /\ new.pc = pc /\ new.file = dbName /\ new.log = OpensLog
      /\ new.kind = call[p].kind /\ new.since = call[p].since /\ new.seen = call[p].seen
      /\ new.rev = call[p].rev /\ new.base = call[p].base
  BY <1>1 DEF CallStates
<1> HIDE DEF new
<1>8. CallMoves(p) /\ call'[p] = new
  BY <1>1, <1>5, <1>6 DEF CallMoves
<1> QED
  BY <1>2, <1>3, <1>4, <1>7, <1>8 DEF Opens, KeepsCall, UnchangedRest

LEMMA OpenNamedOpens ==
  ASSUME StateHolds, NEW p \in Procs, NEW pc \in {"meta", "walk"}, pc = "walk" => call[p].kind = "on",
         call[p].file = 0, OpenNamed(p, pc), UNCHANGED <<active, dbName, files>>, UnchangedRest
  PROVE  Opens(p) \/ LetsGo(p)
<1>1. CASE dbName # 0 /\ Usable(NamedIndex) /\ Bind(p, pc, Migrated(NamedIndex))
  BY <1>1, BindOpens
<1>2. CASE (Discards(p) \/ Returns(p)) /\ UNCHANGED <<made, logName, logs, split>>
  BY <1>2, DiscardLetsGo, ReturnLetsGo DEF LetsGo, UnchangedRest, StateHolds, LifecycleShape
<1> QED
  BY <1>1, <1>2 DEF OpenNamed

LEMMA OpeningStepsOpen ==
  ASSUME StateHolds, NEW p \in Procs, \/ OpenExisting(p)
                                      \/ Create(p)
                                      \/ Connect(p)
  PROVE  Opens(p) \/ Makes(p) \/ LetsGo(p)
<1>1. /\ call \in [Procs -> CallStates] /\ active \in BOOLEAN
      /\ answer \in [Procs -> [since : Nat, got : DbIndexes]]
      /\ made \in [file : 0..MaxFiles, log : 0..MaxLogs]
  BY DEF StateHolds, LifecycleShape
<1>2. call[p].pc \notin OpenPcs => call[p].file = 0 /\ call[p].log = 0 /\ call[p].since <= tree
  BY DEF StateHolds, CallHolds
<1>3. \A pc \in {"create", "connect"} : pc \in CallPcs \ (OpenPcs \cup {"read"})
  BY DEF CallPcs, OpenPcs
<1>4. CASE OpenExisting(p)
  <2>1. call[p].file = 0 /\ call[p].log = 0 /\ call[p].since <= tree
    BY <1>2, <1>4 DEF OpenExisting, InStep, OpenPcs
  <2>2. CASE OpenNamed(p, "meta")
    BY <1>4, <2>1, <2>2, OpenNamedOpens DEF OpenExisting
  <2>3. CASE /\ call' = [call EXCEPT ![p].pc = "create", ![p].scratch = TRUE]
             /\ UNCHANGED <<made, logName, logs, split>>
    <3> DEFINE new == [call[p] EXCEPT !.pc = "create", !.scratch = TRUE]
    <3>1. call' = [call EXCEPT ![p] = new]
      BY <1>1, <2>3 DEF CallStates
    <3>2. "create" \in CallPcs /\ TRUE \in BOOLEAN /\ call[p] \in CallStates
      BY <1>1, <1>3
    <3>3. /\ new \in CallStates /\ new.pc = "create" /\ new.file = 0 /\ new.log = 0
          /\ new.since = call[p].since
      BY <2>1, <3>2 DEF CallStates
    <3> HIDE DEF new
    <3>4. CallMoves(p) /\ call'[p] = new
      BY <1>1, <3>1, <3>3 DEF CallMoves
    <3> QED
      BY <1>1, <1>3, <1>4, <2>1, <2>3, <3>3, <3>4 DEF LetsGo, OpenExisting, UnchangedRest, NoConnection
  <2> QED
    BY <1>4, <2>2, <2>3 DEF OpenExisting
<1>5. CASE Create(p)
  <2>1. call[p].file = 0
    BY <1>2, <1>5 DEF Create, InStep, OpenPcs
  <2>2. /\ CallMoves(p) /\ NoConnection(p) /\ call'[p].pc \notin OpenPcs \cup {"read"}
        /\ call'[p].since <= tree
    BY <1>3, <1>5, <2>1, GoLetsGo, ReturnLetsGo DEF Create
  <2>3. CASE dbName = 0 /\ active
    <3>1. /\ made.file < MaxFiles /\ dbName' = made.file + 1
          /\ made' = [made EXCEPT !.file = made.file + 1]
      BY <1>5, <2>3 DEF Create
    <3>2. made'.file = dbName' /\ made'.log = made.log /\ dbName' <= MaxFiles
      BY <1>1, <3>1
    <3> QED
      BY <1>5, <2>1, <2>2, <2>3, <3>1, <3>2 DEF Makes, Create, UnchangedRest
  <2>4. CASE ~(dbName = 0 /\ active)
    BY <1>1, <1>5, <2>2, <2>4 DEF LetsGo, Create, UnchangedRest
  <2> QED
    BY <2>3, <2>4
<1>6. CASE Connect(p)
  <2>1. call[p].file = 0
    BY <1>2, <1>6 DEF Connect, InStep, OpenPcs
  <2>2. CASE OpenNamed(p, IF call[p].kind = "on" THEN "walk" ELSE "meta") /\ UNCHANGED dbName
    BY <1>6, <2>1, <2>2, OpenNamedOpens DEF Connect
  <2>3. CASE (Go(p, "create") \/ Returns(p)) /\ UNCHANGED <<dbName, made, logName, logs, split>>
    BY <1>1, <1>3, <1>6, <2>1, <2>3, GoLetsGo, ReturnLetsGo DEF LetsGo, Connect, UnchangedRest
  <2> QED
    BY <1>6, <2>2, <2>3 DEF Connect
<1> QED
  BY <1>4, <1>5, <1>6

\* A step that closes a connection: it may go on to its read after its close.
Leaves(p) ==
  /\ call[p].pc \in OpenPcs /\ Closes(p)
  /\ UNCHANGED <<active, dbName, made, logs, split, tree, answer>>
  /\ CallMoves(p) /\ NoConnection(p) /\ call'[p].pc \notin OpenPcs /\ call'[p].since <= tree
  /\ call'[p].pc = "read" => call[p].pc = "close" /\ call[p].kind # "on" /\ KeepsCall(p)

\* A step that changes the index its connection sees: the row of a root, or a
\* publish.
Adopts(p) ==
  /\ call[p].pc = "meta" /\ ~ForeignRoot(Mine(p))
  /\ logs' = [logs EXCEPT ![call[p].log] = [@ EXCEPT !.root = "own"]]
  /\ UNCHANGED <<active, dbName, logName, made, files, split, tree, answer>>
  /\ CallMoves(p) /\ KeepsCall(p) /\ KeepsConnection(p) /\ call'[p].pc = "walk"
Publishes(p) ==
  /\ call[p].pc = "commit" /\ Mine(p).schema = "current"
  /\ logs' = [logs EXCEPT ![call[p].log] = Published(p)]
  /\ UNCHANGED <<active, dbName, logName, made, files, split, tree, answer>>
  /\ CallMoves(p) /\ KeepsConnection(p) /\ call'[p].pc = "close"
  /\ call'[p].kind = call[p].kind /\ call'[p].since = call[p].since
  /\ call'[p].rev = Published(p).rev

\* A step that begins or ends a walk.
Walks(p) ==
  /\ UNCHANGED <<active, dbName, logName, made, files, logs, split, tree, answer>>
  /\ CallMoves(p) /\ KeepsConnection(p)
  /\ call'[p].kind = call[p].kind /\ call'[p].since = call[p].since
  /\ \/ call[p].pc = "walk" /\ call'[p].pc = "commit" /\ call'[p].seen = tree
     \/ call[p].pc = "commit" /\ call'[p].pc = "walk"

LEMMA MineIsOne ==
  ASSUME StateHolds, NEW p \in Procs, call[p].pc \in OpenPcs
  PROVE  /\ call[p] \in CallStates /\ call[p].file \in 1..made.file /\ call[p].log \in 1..made.log
         /\ call[p].file \in 1..MaxFiles /\ call[p].log \in 1..MaxLogs
         /\ Mine(p) = logs[call[p].log] /\ Mine(p) \in DbIndexes
<1>1. /\ call[p] \in CallStates /\ made \in [file : 0..MaxFiles, log : 0..MaxLogs]
      /\ logs \in [1..MaxLogs -> DbIndexes]
  BY DEF StateHolds, LifecycleShape
<1>2. call[p].file \in 1..made.file /\ call[p].log \in 1..made.log
  BY DEF StateHolds, CallHolds
<1>3. call[p].file \in 1..MaxFiles /\ call[p].log \in 1..MaxLogs
  BY <1>1, <1>2
<1>4. Mine(p) = logs[call[p].log]
  BY <1>3 DEF Mine, Seen
<1> QED
  BY <1>1, <1>2, <1>3, <1>4

LEMMA EnsureRowAdopts ==
  ASSUME StateHolds, NEW p \in Procs, EnsureRow(p)
  PROVE  Adopts(p) \/ Leaves(p)
<1>1. call \in [Procs -> CallStates] /\ call[p].pc = "meta" /\ logs \in [1..MaxLogs -> DbIndexes]
  BY DEF StateHolds, LifecycleShape, EnsureRow, InStep
<1>2. call[p].log \in 1..MaxLogs
  BY <1>1, MineIsOne DEF OpenPcs
<1>3. CASE ~ForeignRoot(Mine(p)) /\ Go(p, "walk") /\ logs' = [logs EXCEPT ![call[p].log].root = "own"]
           /\ UNCHANGED <<files, logName>>
  <2>1. CallMoves(p) /\ call'[p].pc = "walk" /\ KeepsCall(p) /\ KeepsConnection(p)
    BY <1>1, <1>3, GoIsAMove DEF CallPcs
  <2> QED
    BY <1>1, <1>2, <1>3, <2>1 DEF Adopts, EnsureRow, UnchangedRest
<1>4. CASE (Discards(p) \/ Returns(p)) /\ Closes(p) /\ UNCHANGED logs
  <2>1. /\ CallMoves(p) /\ NoConnection(p) /\ call'[p].pc \notin OpenPcs \cup {"read"}
        /\ call'[p].since <= tree
    BY <1>4, DiscardLetsGo, ReturnLetsGo
  <2> QED
    BY <1>1, <1>4, <2>1 DEF Leaves, EnsureRow, UnchangedRest, OpenPcs
<1> QED
  BY <1>3, <1>4 DEF EnsureRow

LEMMA CommitPublishes ==
  ASSUME StateHolds, NEW p \in Procs, Commit(p)
  PROVE  Publishes(p) \/ Walks(p) \/ Leaves(p)
<1>1. call \in [Procs -> CallStates] /\ call[p].pc = "commit"
  BY DEF StateHolds, LifecycleShape, Commit, InStep
<1>2. CASE /\ Mine(p).schema = "current" /\ logs' = [logs EXCEPT ![call[p].log] = Published(p)]
           /\ call' = [call EXCEPT ![p].pc = "close", ![p].rev = Published(p).rev]
           /\ UNCHANGED <<files, logName>>
  <2> DEFINE new == [call[p] EXCEPT !.pc = "close", !.rev = Published(p).rev]
  <2>1. call' = [call EXCEPT ![p] = new]
    BY <1>1, <1>2 DEF CallStates
  <2>2. Mine(p) \in DbIndexes
    BY <1>1, MineIsOne DEF OpenPcs
  <2>3. Published(p).rev \in Nat
    BY <2>2 DEF Published, DbIndexes
  <2>4. "close" \in CallPcs
    BY DEF CallPcs
  <2>5. /\ new \in CallStates /\ new.pc = "close" /\ new.rev = Published(p).rev
        /\ new.file = call[p].file /\ new.log = call[p].log
        /\ new.kind = call[p].kind /\ new.since = call[p].since
    BY <1>1, <2>3, <2>4 DEF CallStates
  <2> HIDE DEF new
  <2>6. CallMoves(p) /\ call'[p] = new
    BY <1>1, <2>1, <2>5 DEF CallMoves
  <2> QED
    BY <1>1, <1>2, <2>5, <2>6 DEF Publishes, Commit, UnchangedRest, KeepsConnection
<1>3. CASE Go(p, "walk") /\ UNCHANGED <<files, logs, logName>>
  <2>1. CallMoves(p) /\ call'[p].pc = "walk" /\ KeepsCall(p) /\ KeepsConnection(p)
    BY <1>1, <1>3, GoIsAMove DEF CallPcs
  <2> QED
    BY <1>1, <1>3, <2>1 DEF Walks, Commit, UnchangedRest, KeepsCall
<1>4. CASE (Discards(p) \/ Returns(p)) /\ Closes(p) /\ UNCHANGED logs
  <2>1. /\ CallMoves(p) /\ NoConnection(p) /\ call'[p].pc \notin OpenPcs \cup {"read"}
        /\ call'[p].since <= tree
    BY <1>4, DiscardLetsGo, ReturnLetsGo
  <2> QED
    BY <1>1, <1>4, <2>1 DEF Leaves, Commit, UnchangedRest, OpenPcs
<1> QED
  BY <1>2, <1>3, <1>4 DEF Commit

LEMMA CloseLeaves ==
  ASSUME StateHolds, NEW p \in Procs, CloseConnection(p)
  PROVE  Leaves(p)
<1>1. call \in [Procs -> CallStates] /\ call[p].pc = "close" /\ call[p].since <= tree
  BY DEF StateHolds, LifecycleShape, CloseConnection, InStep, CallHolds
<1>2. CASE call[p].kind = "on"
  BY <1>1, <1>2, ReturnLetsGo DEF Leaves, CloseConnection, UnchangedRest, OpenPcs
<1>3. CASE call[p].kind # "on"
  <2> DEFINE new == [call[p] EXCEPT !.pc = "read", !.file = 0, !.log = 0]
  <2>1. call' = [call EXCEPT ![p] = new]
    BY <1>1, <1>3 DEF CallStates, CloseConnection
  <2>2. "read" \in CallPcs /\ 0 \in 0..MaxFiles /\ 0 \in 0..MaxLogs
    BY DEF CallPcs
  <2>3. /\ new \in CallStates /\ new.pc = "read" /\ new.file = 0 /\ new.log = 0
        /\ new.kind = call[p].kind /\ new.since = call[p].since /\ new.seen = call[p].seen
        /\ new.rev = call[p].rev /\ new.base = call[p].base
    BY <1>1, <2>2 DEF CallStates
  <2> HIDE DEF new
  <2>4. CallMoves(p) /\ call'[p] = new
    BY <1>1, <2>1, <2>3 DEF CallMoves
  <2> QED
    BY <1>1, <1>3, <2>3, <2>4 DEF Leaves, CloseConnection, UnchangedRest, NoConnection, KeepsCall, OpenPcs
<1> QED
  BY <1>2, <1>3

LEMMA WalkWalks ==
  ASSUME StateHolds, NEW p \in Procs, Walk(p)
  PROVE  Walks(p)
<1>1. call \in [Procs -> CallStates] /\ call[p].pc = "walk" /\ tree \in Nat
  BY DEF StateHolds, LifecycleShape, Walk, InStep
<1> DEFINE new == [call[p] EXCEPT !.pc = "commit", !.seen = tree, !.base = Mine(p).rev]
<1>2. call' = [call EXCEPT ![p] = new]
  BY <1>1 DEF CallStates, Walk
<1>3. "commit" \in CallPcs /\ Mine(p).rev \in Nat
  BY <1>1, MineIsOne DEF CallPcs, OpenPcs, DbIndexes
<1>4. /\ new \in CallStates /\ new.pc = "commit" /\ new.seen = tree /\ new.file = call[p].file
      /\ new.log = call[p].log /\ new.kind = call[p].kind /\ new.since = call[p].since
  BY <1>1, <1>3 DEF CallStates
<1> HIDE DEF new
<1>5. CallMoves(p) /\ call'[p] = new
  BY <1>1, <1>2, <1>4 DEF CallMoves
<1> QED
  BY <1>1, <1>4, <1>5 DEF Walks, Walk, UnchangedNames, UnchangedRest, KeepsConnection

-----------------------------------------------------------------------------
(* Every step keeps the shape and what calls hold.                          *)

Answers == [Procs -> [since : Nat, got : DbIndexes]]

LEMMA ConnectedKeepsCall ==
  ASSUME StateHolds, NEW p \in Procs, call[p].pc \in OpenPcs, KeepsConnection(p), made' = made,
         UNCHANGED tree, call'[p].pc \in OpenPcs, call'[p].since = call[p].since,
         call'[p].pc = "commit" => call'[p].seen = tree
  PROVE  CallHolds(p)'
<1>1. call[p].file \in 1..made.file /\ call[p].log \in 1..made.log /\ call[p].since <= tree
  BY DEF StateHolds, CallHolds
<1> QED
  BY <1>1 DEF CallHolds, KeepsConnection

LEMMA FreeKeepsCall ==
  ASSUME NEW p \in Procs, NoConnection(p), call'[p].pc \notin OpenPcs,
         call'[p].since <= tree, tree' = tree
  PROVE  CallHolds(p)'
  BY DEF CallHolds, NoConnection, OpenPcs

LEMMA LettingGoKeepsState ==
  ASSUME StateHolds, NEW p \in Procs, LetsGo(p)
  PROVE  StateHolds'
<1>1. LifecycleShape'
  BY DEF StateHolds, LifecycleShape, LetsGo, CallMoves
<1>2. BlankIsNew'
  BY DEF StateHolds, BlankIsNew, LetsGo
<1>3. CallHolds(p)'
  BY FreeKeepsCall DEF LetsGo
<1>4. made'.file >= made.file /\ made'.log >= made.log /\ tree' >= tree
  BY DEF LetsGo, StateHolds, LifecycleShape
<1> QED
  BY <1>1, <1>2, <1>3, <1>4, CallsHold DEF StateHolds, LetsGo

LEMMA MakingKeepsState ==
  ASSUME StateHolds, NEW p \in Procs, Makes(p)
  PROVE  StateHolds'
<1>1. LifecycleShape'
  <2>1. /\ made \in [file : 0..MaxFiles, log : 0..MaxLogs] /\ dbName' = made.file + 1
        /\ dbName' <= MaxFiles /\ logName \in 0..made.log
    BY DEF StateHolds, LifecycleShape, Makes
  <2>2. /\ made' \in [file : 0..MaxFiles, log : 0..MaxLogs]
        /\ dbName' \in 0..made'.file /\ logName' \in 0..made'.log
    BY <2>1 DEF Makes
  <2> QED
    BY <2>2 DEF StateHolds, LifecycleShape, Makes, CallMoves
<1>2. BlankIsNew'
  BY DEF StateHolds, BlankIsNew, LifecycleShape, Makes
<1>3. CallHolds(p)'
  BY FreeKeepsCall DEF Makes
<1>4. made'.file >= made.file /\ made'.log >= made.log /\ tree' >= tree
  BY DEF Makes, StateHolds, LifecycleShape
<1> QED
  BY <1>1, <1>2, <1>3, <1>4, CallsHold DEF StateHolds, Makes

LEMMA OpeningKeepsState ==
  ASSUME StateHolds, NEW p \in Procs, Opens(p)
  PROVE  StateHolds'
<1>1. /\ call[p].since <= tree /\ made \in [file : 0..MaxFiles, log : 0..MaxLogs]
      /\ dbName \in 1..made.file /\ logName \in 0..made.log
      /\ logs \in [1..MaxLogs -> DbIndexes] /\ tree \in Nat
  BY DEF StateHolds, LifecycleShape, CallHolds, Opens
<1>2. /\ made' \in [file : 0..MaxFiles, log : 0..MaxLogs] /\ made'.file = made.file
      /\ made'.log >= made.log /\ OpensLog \in 1..made'.log /\ OpensLog \in 1..MaxLogs
  BY <1>1 DEF Opens, OpensLog, Shared
<1>3. Migrated(NamedIndex) \in DbIndexes
  BY NamedIndexIsOne
<1>4. logs' \in [1..MaxLogs -> DbIndexes] /\ logs'[OpensLog] = Migrated(NamedIndex)
  BY <1>1, <1>2, <1>3 DEF Opens
<1>5. LifecycleShape'
  <2>1. split' \in BOOLEAN
    BY DEF Opens, StateHolds, LifecycleShape
  <2> QED
    BY <1>1, <1>2, <1>4, <2>1 DEF StateHolds, LifecycleShape, Opens, CallMoves
<1>6. Migrated(NamedIndex).schema # "blank"
  BY NamedIndexIsOne DEF Migrated, DbIndexes
<1>7. BlankIsNew'
  <2>1. \A l \in 1..MaxLogs : l # OpensLog => logs'[l] = logs[l]
    BY <1>1 DEF Opens
  <2> QED
    BY <1>2, <1>4, <1>6, <2>1 DEF StateHolds, BlankIsNew, Opens
<1>8. CallHolds(p)'
  <2>1. /\ call'[p].file = dbName /\ call'[p].log = OpensLog /\ call'[p].pc \in {"meta", "walk"}
        /\ call'[p].since <= tree'
    BY <1>1 DEF Opens, KeepsCall
  <2> QED
    BY <1>1, <1>2, <2>1 DEF CallHolds, OpenPcs
<1>9. tree' >= tree
  BY <1>1 DEF Opens
<1>10. made'.file >= made.file
  BY <1>1, <1>2
<1> QED
  BY <1>2, <1>5, <1>7, <1>8, <1>9, <1>10, CallsHold DEF StateHolds, Opens

LEMMA ClosingIsWritten ==
  ASSUME StateHolds, NEW p \in Procs, call[p].pc \in OpenPcs, Closes(p)
  PROVE  /\ files' \in [1..MaxFiles -> DbIndexes] /\ logName' \in {0, logName}
         /\ \A f \in 1..MaxFiles : files'[f] = files[f] \/ (f = call[p].file /\ files'[f] = Mine(p))
  BY MineIsOne DEF Closes, StateHolds, LifecycleShape

LEMMA LeavingKeepsState ==
  ASSUME StateHolds, NEW p \in Procs, Leaves(p)
  PROVE  StateHolds'
<1>1. /\ files' \in [1..MaxFiles -> DbIndexes] /\ logName' \in {0, logName}
      /\ \A f \in 1..MaxFiles : files'[f] = files[f] \/ (f = call[p].file /\ files'[f] = Mine(p))
  BY ClosingIsWritten DEF Leaves
<1>2. /\ call[p].file \in 1..made.file /\ call[p].log \in 1..MaxLogs /\ Mine(p) = logs[call[p].log]
      /\ made \in [file : 0..MaxFiles, log : 0..MaxLogs]
  BY MineIsOne DEF Leaves, StateHolds, LifecycleShape
<1>3. LifecycleShape'
  BY <1>1 DEF StateHolds, LifecycleShape, Leaves, CallMoves
<1>4. BlankIsNew'
  BY <1>1, <1>2 DEF StateHolds, BlankIsNew, Leaves
<1>5. CallHolds(p)'
  BY FreeKeepsCall DEF Leaves
<1>6. made'.file >= made.file /\ made'.log >= made.log /\ tree' >= tree
  BY DEF Leaves, StateHolds, LifecycleShape
<1> QED
  BY <1>3, <1>4, <1>5, <1>6, CallsHold DEF StateHolds, Leaves

LEMMA AdoptingKeepsState ==
  ASSUME StateHolds, NEW p \in Procs, Adopts(p)
  PROVE  StateHolds'
<1>1. call[p].log \in 1..MaxLogs /\ logs[call[p].log] \in DbIndexes /\ call[p].pc \in OpenPcs
  BY MineIsOne DEF Adopts, OpenPcs, StateHolds, LifecycleShape
<1>2. [logs[call[p].log] EXCEPT !.root = "own"] \in DbIndexes
  BY <1>1 DEF DbIndexes
<1>3. LifecycleShape'
  BY <1>1, <1>2 DEF StateHolds, LifecycleShape, Adopts, CallMoves
<1>4. \A l \in 1..MaxLogs : logs'[l].schema = logs[l].schema /\ logs'[l].rev = logs[l].rev
  BY <1>1 DEF Adopts, StateHolds, LifecycleShape, DbIndexes
<1>5. BlankIsNew'
  BY <1>4 DEF StateHolds, BlankIsNew, Adopts
<1>6. CallHolds(p)'
  BY <1>1, ConnectedKeepsCall DEF Adopts, KeepsCall, OpenPcs
<1>7. made'.file >= made.file /\ made'.log >= made.log /\ tree' >= tree
  BY DEF Adopts, StateHolds, LifecycleShape
<1> QED
  BY <1>3, <1>5, <1>6, <1>7, CallsHold DEF StateHolds, Adopts

LEMMA PublishedIsOne ==
  ASSUME StateHolds, NEW p \in Procs, call[p].pc \in OpenPcs
  PROVE  /\ Published(p) \in DbIndexes /\ Published(p).rev # 0
         /\ Published(p).root = Mine(p).root /\ Published(p).schema = Mine(p).schema
         /\ Published(p).content = call[p].seen
         /\ \/ Published(p).rev = Mine(p).rev /\ Published(p).content = Mine(p).content
            \/ Published(p).rev = Mine(p).rev + 1
<1>1. Mine(p) \in DbIndexes /\ call[p].seen \in Nat
  BY MineIsOne DEF CallStates
<1>2. CASE Mine(p).rev # 0 /\ Mine(p).content = call[p].seen
  BY <1>1, <1>2 DEF Published, DbIndexes
<1>3. CASE ~(Mine(p).rev # 0 /\ Mine(p).content = call[p].seen)
  <2>1. Published(p) = [Mine(p) EXCEPT !.rev = Mine(p).rev + 1, !.content = call[p].seen]
    BY <1>1, <1>3 DEF Published, DbIndexes
  <2>2. Mine(p).rev \in Nat /\ Mine(p).rev + 1 \in Nat /\ Mine(p).rev + 1 # 0
    BY <1>1 DEF DbIndexes
  <2> QED
    BY <1>1, <2>1, <2>2 DEF DbIndexes
<1> QED
  BY <1>2, <1>3

LEMMA PublishingKeepsState ==
  ASSUME StateHolds, NEW p \in Procs, Publishes(p)
  PROVE  StateHolds'
<1>1. call[p].log \in 1..MaxLogs /\ Mine(p) \in DbIndexes /\ call[p].pc \in OpenPcs
  BY MineIsOne DEF Publishes, OpenPcs
<1>2. Published(p) \in DbIndexes /\ Published(p).schema = "current"
  BY <1>1, PublishedIsOne DEF Publishes
<1>3. LifecycleShape'
  BY <1>1, <1>2 DEF StateHolds, LifecycleShape, Publishes, CallMoves
<1>4. \A l \in 1..MaxLogs : logs'[l] = logs[l] \/ logs'[l].schema = "current"
  BY <1>1, <1>2 DEF Publishes, StateHolds, LifecycleShape
<1>5. BlankIsNew'
  BY <1>4 DEF StateHolds, BlankIsNew, Publishes
<1>6. CallHolds(p)'
  BY <1>1, ConnectedKeepsCall DEF Publishes, OpenPcs
<1>7. made'.file >= made.file /\ made'.log >= made.log /\ tree' >= tree
  BY DEF Publishes, StateHolds, LifecycleShape
<1> QED
  BY <1>3, <1>5, <1>6, <1>7, CallsHold DEF StateHolds, Publishes

LEMMA WalkingKeepsState ==
  ASSUME StateHolds, NEW p \in Procs, Walks(p)
  PROVE  StateHolds'
<1>1. LifecycleShape' /\ BlankIsNew'
  BY DEF StateHolds, LifecycleShape, BlankIsNew, Walks, CallMoves
<1>2. CallHolds(p)'
  BY ConnectedKeepsCall DEF Walks, OpenPcs
<1>3. made'.file >= made.file /\ made'.log >= made.log /\ tree' >= tree
  BY DEF Walks, StateHolds, LifecycleShape
<1> QED
  BY <1>1, <1>2, <1>3, CallsHold DEF StateHolds, Walks

LEMMA EditKeepsState ==
  ASSUME StateHolds, EditTree
  PROVE  StateHolds'
<1>1. tree \in Nat /\ tree' = tree + 1 /\ tree' \in Nat
  BY DEF StateHolds, LifecycleShape, EditTree
<1>2. LifecycleShape' /\ BlankIsNew'
  BY <1>1 DEF StateHolds, LifecycleShape, BlankIsNew, EditTree, UnchangedNames
<1>3. ASSUME NEW p \in Procs
      PROVE  CallHolds(p)'
  <2>1. CallHolds(p) /\ call[p].since \in Nat
    BY DEF StateHolds, LifecycleShape, CallStates
  <2> QED
    BY <1>1, <2>1 DEF CallHolds, EditTree, UnchangedNames
<1> QED
  BY <1>2, <1>3 DEF StateHolds

LEMMA DamageKeepsState ==
  ASSUME StateHolds, Damage
  PROVE  StateHolds'
<1>1. /\ dbName \in 1..MaxFiles /\ dbName <= made.file /\ logName \in 0..MaxLogs
      /\ files \in [1..MaxFiles -> DbIndexes] /\ logs \in [1..MaxLogs -> DbIndexes]
      /\ made \in [file : 0..MaxFiles, log : 0..MaxLogs]
  BY DEF StateHolds, LifecycleShape, Damage
<1>2. \A index \in DbIndexes : [index EXCEPT !.schema = "corrupt"] \in DbIndexes
  BY DEF DbIndexes, Schemas
<1>3. /\ files' = [files EXCEPT ![dbName] = [@ EXCEPT !.schema = "corrupt"]]
      /\ logs' = IF logName = 0 THEN logs
                 ELSE [logs EXCEPT ![logName] = [@ EXCEPT !.schema = "corrupt"]]
  BY <1>1 DEF Damage
<1>4. files' \in [1..MaxFiles -> DbIndexes] /\ logs' \in [1..MaxLogs -> DbIndexes]
  BY <1>1, <1>2, <1>3
<1>5. LifecycleShape'
  BY <1>4 DEF StateHolds, LifecycleShape, Damage, UnchangedNames
<1>6. \A f \in 1..MaxFiles : files'[f] = files[f] \/ (f = dbName /\ files'[f].schema = "corrupt")
  BY <1>1, <1>3 DEF DbIndexes
<1>7. \A l \in 1..MaxLogs : logs'[l] = logs[l] \/ logs'[l].schema = "corrupt"
  BY <1>1, <1>3 DEF DbIndexes
<1>8. BlankIsNew'
  BY <1>1, <1>6, <1>7 DEF StateHolds, BlankIsNew, Damage, UnchangedNames
<1>9. \A p \in Procs : CallHolds(p)'
  BY DEF StateHolds, CallHolds, Damage, UnchangedNames
<1> QED
  BY <1>5, <1>8, <1>9 DEF StateHolds

-----------------------------------------------------------------------------
(* A step after which its call has no connection.                           *)

\* The last connection of a file with its name writes its log back.
WritesBack(p) ==
  /\ OnNamed(p) /\ AloneOn(p) /\ dbName' = dbName /\ logName' = 0
  /\ files' = [files EXCEPT ![dbName] = Mine(p)]
Drops(p) ==
  /\ UNCHANGED <<made, logs, split>> /\ dbName' \in {dbName, 0} /\ logName' \in {logName, 0}
  /\ CallMoves(p) /\ NoConnection(p) /\ (files' = files \/ WritesBack(p))

LEMMA LettingGoDrops ==
  ASSUME NEW p \in Procs, LetsGo(p)
  PROVE  Drops(p)
  BY DEF LetsGo, Drops

LEMMA LeavingDrops ==
  ASSUME StateHolds, NEW p \in Procs, Leaves(p)
  PROVE  Drops(p)
<1>1. call[p].file \in 1..MaxFiles
  BY MineIsOne DEF Leaves
<1>2. CASE IsOpen(p) /\ AloneOn(p) /\ dbName = call[p].file
  BY <1>1, <1>2 DEF Leaves, Drops, WritesBack, OnNamed, Closes
<1>3. CASE ~(IsOpen(p) /\ AloneOn(p) /\ dbName = call[p].file)
  BY <1>3 DEF Leaves, Drops, Closes
<1> QED
  BY <1>2, <1>3

LEMMA ConnectedIsOfNamed ==
  ASSUME StateHolds, NEW p \in Procs, OnNamed(p)
  PROVE  /\ call[p].pc \in OpenPcs /\ call[p].log \in 1..made.log /\ OfNamed(call[p].log)
         /\ dbName \in 1..MaxFiles /\ Mine(p) = logs[call[p].log]
<1>1. call[p].pc \in OpenPcs
  BY DEF StateHolds, CallHolds, OnNamed
<1> QED
  BY <1>1, MineIsOne DEF OnNamed, OfNamed

LEMMA DropsLessens ==
  ASSUME StateHolds, NEW p \in Procs, Drops(p), dbName' # 0
  PROVE  /\ dbName' = dbName /\ made' = made /\ logs' = logs /\ ~OnNamed(p)'
         /\ \A q \in Procs \ {p} : (OnNamed(q)' <=> OnNamed(q)) /\ call'[q] = call[q]
         /\ \A l \in 1..made.log : OfNamed(l)' => OfNamed(l) /\ files' = files
         /\ files'[dbName] = files[dbName] \/ (OnNamed(p) /\ files'[dbName] = Mine(p))
<1>1. dbName' = dbName /\ \A q \in Procs \ {p} : call'[q] = call[q]
  BY DEF Drops, CallMoves
<1>2. ~OnNamed(p)'
  BY DEF Drops, NoConnection, OnNamed
<1>3. \A q \in Procs \ {p} : OnNamed(q)' <=> OnNamed(q)
  BY <1>1 DEF OnNamed
<1>4. CASE WritesBack(p)
  <2>1. dbName \in 1..MaxFiles /\ files \in [1..MaxFiles -> DbIndexes]
    BY <1>4, ConnectedIsOfNamed DEF WritesBack, StateHolds, LifecycleShape
  <2>2. files'[dbName] = Mine(p) /\ OnNamed(p)
    BY <1>4, <2>1 DEF WritesBack
  <2>3. \A q \in Procs : ~OnNamed(q)'
    BY <1>2, <1>3, <1>4 DEF WritesBack, AloneOn, OnNamed
  <2>4. \A l \in 1..made.log : ~OfNamed(l)'
    BY <1>4, <2>3 DEF WritesBack, OfNamed, Shared
  <2> QED
    BY <1>1, <1>2, <1>3, <2>2, <2>4 DEF Drops
<1>5. CASE files' = files
  <2>1. ASSUME NEW l \in 1..made.log, OfNamed(l)'
        PROVE  OfNamed(l)
    <3>1. CASE \E q \in Procs : OnNamed(q)' /\ l = call'[q].log
      BY <1>1, <1>2, <1>3, <3>1, dbName' # 0 DEF OfNamed
    <3>2. CASE Shared' /\ l = logName'
      <4>1. logName' = logName /\ logName # 0
        BY <3>2 DEF Drops, Shared
      <4>2. files[dbName] = Blank => \E q \in Procs : OnNamed(q)
        BY <1>1, <1>2, <1>3, <1>5, <3>2 DEF Shared, OnNamed
      <4> QED
        BY <1>1, <3>2, <4>1, <4>2 DEF OfNamed, Shared, OnNamed
    <3> QED
      BY <2>1, <3>1, <3>2 DEF OfNamed
  <2> QED
    BY <1>1, <1>2, <1>3, <1>5, <2>1 DEF Drops
<1> QED
  BY <1>4, <1>5 DEF Drops

LEMMA DropKeepsNewer ==
  ASSUME StateHolds, NEW p \in Procs, Drops(p), dbName' # 0, NEW since \in Nat, NewerOnly(since)
  PROVE  NewerOnly(since)'
<1>1. Newer(files'[dbName], since)
  BY DropsLessens, ConnectedIsOfNamed DEF NewerOnly
<1>2. \A q \in Procs : OnNamed(q)' /\ InStep(q, "commit")' => call'[q].seen >= since
  BY DropsLessens DEF NewerOnly, InStep
<1> QED
  BY <1>1, <1>2, DropsLessens DEF NewerOnly

LEMMA DropKeepsFresh ==
  ASSUME StateHolds, NEW p \in Procs, Drops(p), dbName' # 0, NEW rev \in Nat, NEW since \in Nat,
         FreshOnly(rev, since)
  PROVE  FreshOnly(rev, since)'
<1>1. FreshAt(files'[dbName], rev, since)
  BY DropsLessens, ConnectedIsOfNamed DEF FreshOnly
<1>2. ASSUME NEW q \in Procs, OnNamed(q)', InStep(q, "commit")'
      PROVE  call'[q].seen >= since \/ Mine(q)'.rev >= rev
  <2>1. OnNamed(q) /\ call'[q] = call[q] /\ InStep(q, "commit") /\ q # p
    BY <1>2, DropsLessens DEF InStep
  <2>2. Mine(q) = logs[call[q].log] /\ call[q].log # 0
    BY <2>1, ConnectedIsOfNamed
  <2>3. Mine(q)' = Mine(q)
    BY <2>1, <2>2, DropsLessens DEF Mine, Seen
  <2> QED
    BY <2>1, <2>3 DEF FreshOnly
<1> QED
  BY <1>1, <1>2, DropsLessens DEF FreshOnly

LEMMA NewerIsFresh ==
  ASSUME NEW since \in Nat, NEW rev \in Nat \ {0}, NewerOnly(since)
  PROVE  FreshOnly(rev, since)
  BY DEF NewerOnly, FreshOnly, Newer, FreshAt

\* What a sync that has committed finds by name is fresh.
LEMMA CommittedIsFresh ==
  ASSUME StateHolds, ConnectionsHold, NEW p \in Procs, call[p].pc = "close", call[p].kind # "on",
         dbName # 0
  PROVE  FreshOnly(call[p].rev, call[p].since)
<1>1. /\ call[p].rev \in Nat \ {0} /\ call[p].since \in Nat /\ IsOpen(p)
      /\ call[p].log \in 1..made.log /\ call[p].log # 0 /\ Mine(p) \in DbIndexes
  BY MineIsOne DEF ConnectionsHold, SyncedIsFresh, CallStates, OpenPcs, IsOpen
<1>2. CASE ~OnNamed(p)
  BY <1>1, <1>2, NewerIsFresh DEF ConnectionsHold, LostIsRenewed
<1>3. CASE OnNamed(p)
  <2>1. /\ OfNamed(call[p].log) /\ Mine(p) = logs[call[p].log]
        /\ dbName \in 1..MaxFiles /\ files[dbName] \in DbIndexes
    BY <1>3, ConnectedIsOfNamed DEF StateHolds, LifecycleShape
  <2>2. Continues(files[dbName], Mine(p))
    BY <1>1, <2>1 DEF ConnectionsHold, LogsContinue
  <2>3. /\ Mine(p).root # "other" /\ Mine(p).rev >= call[p].rev
        /\ Mine(p).rev = call[p].rev => Mine(p).content >= call[p].since
        /\ files[dbName].rev = call[p].rev => files[dbName].content >= call[p].since
    BY <1>3 DEF ConnectionsHold, SyncedIsFresh
  <2>4. FreshAt(files[dbName], call[p].rev, call[p].since)
    BY <2>2, <2>3 DEF Continues, FreshAt, OfThisBuild
  <2>5. FreshAt(Mine(p), call[p].rev, call[p].since)
    BY <2>2, <2>3 DEF Continues, FreshAt, OfThisBuild
  <2>6. \A l \in 1..made.log : OfNamed(l) => l = call[p].log
    BY <1>1, <2>1 DEF ConnectionsHold, OneLogEach
  <2>7. ASSUME NEW q \in Procs, OnNamed(q)
        PROVE  Mine(q).rev >= call[p].rev
    BY <2>1, <2>3, <2>6, <2>7, ConnectedIsOfNamed
  <2> QED
    BY <2>1, <2>4, <2>5, <2>6, <2>7 DEF FreshOnly
<1> QED
  BY <1>2, <1>3

LEMMA DropKeepsConnections ==
  ASSUME StateHolds, ConnectionsHold, NEW p \in Procs, Drops(p), call'[p].pc \notin OpenPcs,
         call'[p].pc = "read" => call[p].pc = "close" /\ call[p].kind # "on" /\ KeepsCall(p)
  PROVE  ConnectionsHold'
<1>1. \A q \in Procs \ {p} : call'[q] = call[q]
  BY DEF Drops, CallMoves
<1>2. \A q \in Procs : IsOpen(q)' => q # p /\ IsOpen(q) /\ call[q].log # 0
  BY <1>1 DEF IsOpen, Drops, NoConnection, StateHolds, CallHolds
<1>3. OneLogEach'
  <2>1. ASSUME NEW q \in Procs, NEW r \in Procs, IsOpen(q)', call'[r].log = call'[q].log
        PROVE  call'[r].file = call'[q].file
    <3>1. q # p /\ IsOpen(q) /\ call'[q] = call[q] /\ call[q].log # 0
      BY <1>1, <1>2, <2>1
    <3>2. r # p
      BY <2>1, <3>1 DEF Drops, NoConnection
    <3> QED
      BY <1>1, <2>1, <3>1, <3>2 DEF ConnectionsHold, OneLogEach
  <2>2. ASSUME NEW l \in 1..made.log, OfNamed(l)'
        PROVE  OfNamed(l) /\ \A k \in 1..made.log : OfNamed(k)' => OfNamed(k)
    <3>1. dbName' # 0
      BY <2>2 DEF OfNamed
    <3> QED
      BY <2>2, <3>1, DropsLessens
  <2>3. ASSUME NEW l \in 1..made.log, OfNamed(l)', NEW q \in Procs, call'[q].log = l
        PROVE  OnNamed(q)'
    <3>1. q # p
      BY <2>3 DEF Drops, NoConnection, StateHolds, LifecycleShape
    <3>2. OnNamed(q)
      BY <1>1, <2>2, <2>3, <3>1 DEF ConnectionsHold, OneLogEach
    <3>3. dbName' # 0
      BY <2>3 DEF OfNamed
    <3> QED
      BY <3>1, <3>2, <3>3, DropsLessens
  <2>4. made' = made
    BY DEF Drops
  <2> QED
    BY <2>1, <2>2, <2>3, <2>4 DEF ConnectionsHold, OneLogEach
<1>4. LogsContinue'
  <2> SUFFICES ASSUME NEW l \in 1..made.log, OfNamed(l)'
               PROVE  Continues(files'[dbName'], logs'[l])
    BY DEF LogsContinue, Drops
  <2>1. dbName' # 0
    BY DEF OfNamed
  <2>2. OfNamed(l) /\ files' = files /\ dbName' = dbName /\ logs' = logs
    BY <2>1, DropsLessens
  <2> QED
    BY <2>2 DEF ConnectionsHold, LogsContinue
<1>5. ASSUME NEW q \in Procs
      PROVE  LostIsRenewed(q)'
  <2> SUFFICES ASSUME IsOpen(q)', dbName' # 0, ~OnNamed(q)'
               PROVE  NewerOnly(call[q].since)'
    BY <1>1, <1>2 DEF LostIsRenewed, NewerOnly
  <2>1. q # p /\ IsOpen(q) /\ ~OnNamed(q) /\ dbName # 0 /\ call'[q] = call[q]
    BY <1>1, <1>2, DropsLessens
  <2>2. PICK since \in Nat : since = call[q].since
    BY DEF StateHolds, LifecycleShape, CallStates
  <2>3. NewerOnly(since)
    BY <2>1, <2>2 DEF ConnectionsHold, LostIsRenewed
  <2>4. NewerOnly(since)'
    BY <2>3, DropKeepsNewer
  <2> QED
    BY <2>1, <2>2, <2>4 DEF NewerOnly
<1>6. SyncedIsFresh(p)'
  <2> SUFFICES ASSUME call'[p].pc = "read"
               PROVE  /\ call'[p].rev # 0
                      /\ dbName' # 0 => FreshOnly(call[p].rev, call[p].since)'
    BY DEF SyncedIsFresh, OpenPcs, FreshOnly
  <2>1. PICK rev \in Nat, since \in Nat : rev = call[p].rev /\ since = call[p].since
    BY DEF StateHolds, LifecycleShape, CallStates
  <2>2. call'[p].rev = rev /\ call'[p].since = since /\ rev # 0
    BY <2>1 DEF KeepsCall, ConnectionsHold, SyncedIsFresh
  <2>3. ASSUME dbName' # 0
        PROVE  FreshOnly(rev, since)'
    <3>1. FreshOnly(rev, since)
      BY <2>1, <2>3, CommittedIsFresh, DropsLessens
    <3> QED
      BY <2>3, <3>1, DropKeepsFresh
  <2> QED
    BY <2>2, <2>3 DEF FreshOnly
<1>7. ASSUME NEW q \in Procs \ {p}
      PROVE  SyncedIsFresh(q)'
  <2>1. SyncedIsFresh(q) /\ call'[q] = call[q] /\ call[q] \in CallStates
    BY <1>1 DEF ConnectionsHold, StateHolds, LifecycleShape
  <2>2. call[q].pc \in OpenPcs => Mine(q)' = Mine(q)
    BY <2>1, MineIsOne DEF Drops, Mine, Seen
  <2>3. OnNamed(q)' => OnNamed(q) /\ dbName' = dbName /\ files' = files
    BY <2>1 DEF OnNamed, Drops, WritesBack, AloneOn
  <2>4. ASSUME call[q].pc = "read", dbName' # 0
        PROVE  FreshOnly(call[q].rev, call[q].since)'
    <3>1. PICK rev \in Nat, since \in Nat : rev = call[q].rev /\ since = call[q].since
      BY <2>1 DEF CallStates
    <3>2. FreshOnly(rev, since)
      BY <2>1, <2>4, <3>1, DropsLessens DEF SyncedIsFresh
    <3>3. FreshOnly(rev, since)'
      BY <2>4, <3>2, DropKeepsFresh
    <3> QED
      BY <2>1, <3>1, <3>3 DEF FreshOnly
  <2> QED
    BY <2>1, <2>2, <2>3, <2>4 DEF SyncedIsFresh, OpenPcs, FreshOnly
<1> QED
  BY <1>3, <1>4, <1>5, <1>6, <1>7 DEF ConnectionsHold

-----------------------------------------------------------------------------
(* A new file has no log and no connection.                                 *)

LEMMA MakingKeepsConnections ==
  ASSUME StateHolds, ConnectionsHold, NEW p \in Procs, Makes(p)
  PROVE  ConnectionsHold'
<1>1. \A q \in Procs \ {p} : call'[q] = call[q]
  BY DEF Makes, CallMoves
<1>2. /\ made \in [file : 0..MaxFiles, log : 0..MaxLogs] /\ dbName' = made.file + 1
      /\ dbName' \in 1..MaxFiles /\ dbName' # 0 /\ dbName = 0
  BY DEF Makes, StateHolds, LifecycleShape
<1>3. \A q \in Procs : call'[q].file # dbName'
  <2>1. \A q \in Procs : call[q].file \in 0..made.file
    BY <1>2 DEF StateHolds, CallHolds
  <2> QED
    BY <1>1, <1>2, <2>1 DEF Makes, NoConnection
<1>4. files'[dbName'] = Blank
  BY <1>2 DEF Makes, StateHolds, BlankIsNew
<1>5. \A q \in Procs : ~OnNamed(q)'
  BY <1>3 DEF OnNamed
<1>6. \A l \in 1..made'.log : ~OfNamed(l)'
  BY <1>3, <1>4, <1>5 DEF OfNamed, Shared
<1>7. \A q \in Procs : IsOpen(q)' => q # p /\ IsOpen(q) /\ call[q].log # 0
  BY <1>1 DEF IsOpen, Makes, NoConnection, StateHolds, CallHolds
<1>8. OneLogEach'
  <2>1. ASSUME NEW q \in Procs, NEW r \in Procs, IsOpen(q)', call'[r].log = call'[q].log
        PROVE  call'[r].file = call'[q].file
    <3>1. q # p /\ IsOpen(q) /\ call'[q] = call[q] /\ call[q].log # 0
      BY <1>1, <1>7, <2>1
    <3>2. r # p
      BY <2>1, <3>1 DEF Makes, NoConnection
    <3> QED
      BY <1>1, <2>1, <3>1, <3>2 DEF ConnectionsHold, OneLogEach
  <2> QED
    BY <1>6, <2>1 DEF OneLogEach
<1>9. LogsContinue'
  BY <1>6 DEF LogsContinue
<1>10. \A since \in Nat : NewerOnly(since)'
  BY <1>4, <1>5, <1>6 DEF NewerOnly, Newer, OfThisBuild, Blank
<1>11. ASSUME NEW q \in Procs
       PROVE  LostIsRenewed(q)'
  BY <1>4, <1>5, <1>6 DEF LostIsRenewed, NewerOnly, Newer, OfThisBuild, Blank
<1>12. ASSUME NEW q \in Procs
       PROVE  SyncedIsFresh(q)'
  <2>1. CASE q = p
    BY <2>1 DEF SyncedIsFresh, Makes, OpenPcs
  <2>2. CASE q # p
    <3>1. SyncedIsFresh(q) /\ call'[q] = call[q]
      BY <1>1, <2>2 DEF ConnectionsHold
    <3>2. call[q].pc \in OpenPcs => Mine(q)' = Mine(q)
      BY <3>1, MineIsOne DEF Makes, Mine, Seen
    <3>3. call[q].rev # 0 => FreshOnly(call[q].rev, call[q].since)'
      BY <1>4, <1>5, <1>6, <3>1 DEF FreshOnly, FreshAt, OfThisBuild, Blank
    <3> QED
      BY <1>5, <3>1, <3>2, <3>3 DEF SyncedIsFresh, OpenPcs, FreshOnly
  <2> QED
    BY <2>1, <2>2
<1> QED
  BY <1>8, <1>9, <1>11, <1>12 DEF ConnectionsHold

-----------------------------------------------------------------------------
(* A connection opens with the log of the file, or with the first.          *)

LEMMA OpensNamed ==
  ASSUME StateHolds, ConnectionsHold, NEW p \in Procs, Opens(p), ~split'
  PROVE  /\ \A q \in Procs \ {p} : call'[q] = call[q] /\ (OnNamed(q)' <=> OnNamed(q))
                                   /\ (OnNamed(q) => Shared /\ call[q].log = logName)
         /\ OnNamed(p)' /\ dbName \in 1..MaxFiles
         /\ \A l \in 1..made'.log : OfNamed(l)' => l = OpensLog
         /\ OpensLog \in 1..MaxLogs /\ OpensLog \in 1..made'.log
         /\ Shared => OpensLog \in 1..made.log /\ OfNamed(OpensLog)
         /\ ~Shared => \A q \in Procs : call[q].log # OpensLog
<1>1. /\ made \in [file : 0..MaxFiles, log : 0..MaxLogs] /\ logName \in 0..made.log
      /\ dbName \in 1..MaxFiles
  BY DEF StateHolds, LifecycleShape, Opens
<1>2. /\ OpensLog \in 1..MaxLogs /\ OpensLog \in 1..made'.log
      /\ Shared => OpensLog \in 1..made.log /\ OfNamed(OpensLog) /\ OpensLog = logName
      /\ ~Shared => OpensLog = made.log + 1
  BY <1>1 DEF Opens, OpensLog, Shared, OfNamed
<1>3. \A q \in Procs : call[q].log \in 0..made.log
  BY <1>1 DEF StateHolds, CallHolds
<1>4. ~Shared => \A q \in Procs : call[q].log # OpensLog
  BY <1>1, <1>2, <1>3
<1>5. \A q \in Procs \ {p} : call'[q] = call[q]
  BY DEF Opens, CallMoves
<1>6. \A q \in Procs \ {p} : OnNamed(q) => call[q].log = OpensLog
  BY DEF Opens, OnNamed
<1>7. \A q \in Procs \ {p} : OnNamed(q)' <=> OnNamed(q)
  BY <1>5 DEF OnNamed, Opens
<1>8. OnNamed(p)' /\ call'[p].log = OpensLog
  BY DEF OnNamed, Opens
<1>9. \A l \in 1..made'.log : OfNamed(l)' => l = OpensLog
  <2> SUFFICES ASSUME NEW l \in 1..made'.log, OfNamed(l)'
               PROVE  l = OpensLog
    OBVIOUS
  <2>1. logName' = OpensLog
    BY DEF Opens
  <2>2. \A q \in Procs : OnNamed(q)' => call'[q].log = OpensLog
    BY <1>5, <1>6, <1>7, <1>8
  <2> QED
    BY <2>1, <2>2 DEF OfNamed
<1> QED
  BY <1>1, <1>2, <1>4, <1>5, <1>6, <1>7, <1>8, <1>9

\* The index it takes is one it found, with the schema of this build.
LEMMA OpensFound ==
  ASSUME StateHolds, ConnectionsHold, NEW p \in Procs, Opens(p), ~split'
  PROVE  /\ logs'[OpensLog].root = NamedIndex.root /\ logs'[OpensLog].rev = NamedIndex.rev
         /\ logs'[OpensLog].content = NamedIndex.content /\ logs'[OpensLog].schema = "current"
         /\ \A l \in 1..MaxLogs : l # OpensLog => logs'[l] = logs[l]
         /\ IF Shared THEN NamedIndex = logs[OpensLog] ELSE NamedIndex = files[dbName]
<1>1. OpensLog \in 1..MaxLogs /\ logs \in [1..MaxLogs -> DbIndexes]
  BY OpensNamed DEF StateHolds, LifecycleShape
<1>2. NamedIndex \in DbIndexes /\ Usable(NamedIndex)
  BY NamedIndexIsOne DEF Opens
<1>3. logs' = [logs EXCEPT ![OpensLog] = Migrated(NamedIndex)]
  BY DEF Opens
<1>4. Migrated(NamedIndex).root = NamedIndex.root /\ Migrated(NamedIndex).rev = NamedIndex.rev
      /\ Migrated(NamedIndex).content = NamedIndex.content /\ Migrated(NamedIndex).schema = "current"
  BY <1>2 DEF Usable, Migrated, DbIndexes
<1>5. IF Shared THEN NamedIndex = logs[OpensLog] ELSE NamedIndex = files[dbName]
  BY DEF NamedIndex, Opens, OpensLog
<1> QED
  BY <1>1, <1>3, <1>4, <1>5

LEMMA OpenKeepsConnections ==
  ASSUME StateHolds, ConnectionsHold, NEW p \in Procs, Opens(p), ~split'
  PROVE  ConnectionsHold'
<1>1. \A q \in Procs \ {p} : call'[q] = call[q] /\ (OnNamed(q)' <=> OnNamed(q))
  BY OpensNamed
<1>2. /\ dbName' = dbName /\ dbName # 0 /\ files' = files
      /\ call'[p].file = dbName /\ call'[p].log = OpensLog
  BY DEF Opens
<1>3. OneLogEach'
  <2>1. ASSUME NEW q \in Procs, call'[q].log = OpensLog
        PROVE  call'[q].file = dbName /\ OnNamed(q)'
    <3>1. CASE q = p
      BY <1>2, <3>1, OpensNamed
    <3>2. CASE q # p
      <4>1. OpensLog \in 1..made.log /\ OfNamed(OpensLog) /\ call[q].log = OpensLog
        BY <1>1, <2>1, <3>2, OpensNamed
      <4>2. OnNamed(q)
        BY <4>1 DEF ConnectionsHold, OneLogEach
      <4> QED
        BY <1>1, <3>2, <4>2 DEF OnNamed
    <3> QED
      BY <3>1, <3>2
  <2>2. ASSUME NEW q \in Procs, NEW r \in Procs, IsOpen(q)', call'[r].log = call'[q].log
        PROVE  call'[r].file = call'[q].file
    <3>1. CASE call'[q].log = OpensLog
      BY <2>1, <2>2, <3>1
    <3>2. CASE call'[q].log # OpensLog
      BY <1>1, <1>2, <2>2, <3>2 DEF ConnectionsHold, OneLogEach, IsOpen
    <3> QED
      BY <3>1, <3>2
  <2>3. \A l \in 1..made'.log, q \in Procs : OfNamed(l)' /\ call'[q].log = l => OnNamed(q)'
    BY <2>1, OpensNamed
  <2>4. \A l, k \in 1..made'.log : OfNamed(l)' /\ OfNamed(k)' => l = k
    BY OpensNamed
  <2> QED
    BY <2>2, <2>3, <2>4 DEF OneLogEach
<1>4. LogsContinue'
  <2>1. files[dbName] \in DbIndexes
    BY OpensNamed DEF StateHolds, LifecycleShape
  <2>2. CASE Shared
    <3>1. Continues(files[dbName], logs[OpensLog])
      BY <2>2, OpensNamed DEF ConnectionsHold, LogsContinue
    <3>2. Continues(files[dbName], logs'[OpensLog])
      BY <2>2, <3>1, OpensFound DEF Continues
    <3> QED
      BY <1>2, <3>2, OpensNamed DEF LogsContinue
  <2>3. CASE ~Shared
    <3>1. NamedIndex = files[dbName] /\ files[dbName].schema # "outdated" /\ files[dbName].rev \in Nat
      BY <2>1, <2>3, OpensFound DEF Opens, Usable, Migrated, DbIndexes
    <3>2. Continues(files[dbName], logs'[OpensLog])
      BY <3>1, OpensFound DEF Continues
    <3> QED
      BY <1>2, <3>2, OpensNamed DEF LogsContinue
  <2> QED
    BY <2>2, <2>3
<1>5. \A since : NewerOnly(since) => Newer(logs'[OpensLog], since)
  BY OpensFound, OpensNamed DEF NewerOnly, Newer, OfThisBuild
<1>6. \A rev, since : FreshOnly(rev, since) => FreshAt(logs'[OpensLog], rev, since)
  BY OpensFound, OpensNamed DEF FreshOnly, FreshAt, OfThisBuild
<1>7. \A q \in Procs : OnNamed(q)' /\ InStep(q, "commit")' => q # p /\ OnNamed(q) /\ InStep(q, "commit")
  BY <1>1 DEF Opens, InStep
<1>8. ASSUME NEW q \in Procs \ {p}, call[q].pc \in OpenPcs
      PROVE  Mine(q)'.rev = Mine(q).rev /\ Mine(q)'.root = Mine(q).root
             /\ Mine(q)'.content = Mine(q).content
  <2>1. call[q].log \in 1..MaxLogs /\ Mine(q) = logs[call[q].log] /\ call'[q] = call[q]
    BY <1>1, <1>8, MineIsOne
  <2>2. Mine(q)' = logs'[call[q].log]
    BY <2>1 DEF Mine, Seen
  <2> QED
    BY <2>1, <2>2, OpensFound, OpensNamed
<1>9. ASSUME NEW q \in Procs
      PROVE  LostIsRenewed(q)'
  <2> SUFFICES ASSUME IsOpen(q)', ~OnNamed(q)'
               PROVE  NewerOnly(call[q].since)'
    BY DEF LostIsRenewed, NewerOnly
  <2>1. q # p /\ ~OnNamed(q) /\ call'[q] = call[q] /\ IsOpen(q)
    BY <1>1, OpensNamed DEF IsOpen
  <2>2. NewerOnly(call[q].since)
    BY <1>2, <2>1 DEF ConnectionsHold, LostIsRenewed
  <2>3. Newer(logs'[OpensLog], call[q].since)
    BY <1>5, <2>2
  <2> QED
    BY <1>1, <1>2, <1>7, <2>1, <2>2, <2>3, OpensNamed DEF NewerOnly
<1>10. SyncedIsFresh(p)'
  BY DEF SyncedIsFresh, Opens, KeepsCall
<1>11. ASSUME NEW q \in Procs \ {p}
       PROVE  SyncedIsFresh(q)'
  <2>1. SyncedIsFresh(q) /\ call'[q] = call[q] /\ (OnNamed(q)' => OnNamed(q))
    BY <1>1 DEF ConnectionsHold
  <2>2. ASSUME call[q].pc = "read"
        PROVE  FreshOnly(call[q].rev, call[q].since)'
    <3>1. FreshOnly(call[q].rev, call[q].since)
      BY <1>2, <2>1, <2>2 DEF SyncedIsFresh
    <3>2. FreshAt(logs'[OpensLog], call[q].rev, call[q].since)
      BY <1>6, <3>1
    <3>3. ASSUME NEW r \in Procs, OnNamed(r)', InStep(r, "commit")'
          PROVE  call'[r].seen >= call[q].since \/ Mine(r)'.rev >= call[q].rev
      BY <1>1, <1>7, <1>8, <3>1, <3>3 DEF FreshOnly, InStep, OpenPcs
    <3> QED
      BY <1>2, <2>1, <3>1, <3>2, <3>3, OpensNamed DEF FreshOnly
  <2> QED
    BY <1>2, <1>8, <2>1, <2>2 DEF SyncedIsFresh, OpenPcs, FreshOnly
<1> QED
  BY <1>3, <1>4, <1>9, <1>10, <1>11 DEF ConnectionsHold

-----------------------------------------------------------------------------
(* A step of a connection that changes its log, or its call only.           *)

\* Names and connections stay as they are; so do the files, but for damage.
Stays(p) ==
  /\ UNCHANGED <<dbName, logName, made, files, split>>
  /\ CallMoves(p) /\ KeepsConnection(p) /\ call'[p].since = call[p].since

LEMMA StayingIsNamed ==
  ASSUME StateHolds, NEW p \in Procs, Stays(p)
  PROVE  /\ \A q \in Procs : /\ OnNamed(q)' <=> OnNamed(q)
                             /\ call'[q].file = call[q].file /\ call'[q].log = call[q].log
                             /\ call'[q].since = call[q].since
         /\ \A q \in Procs \ {p} : call'[q] = call[q]
         /\ \A l \in 1..made.log : OfNamed(l)' <=> OfNamed(l)
         /\ OneLogEach => OneLogEach'
<1>1. /\ \A q \in Procs : /\ call'[q].file = call[q].file /\ call'[q].log = call[q].log
                          /\ call'[q].since = call[q].since
      /\ \A q \in Procs \ {p} : call'[q] = call[q]
  BY DEF Stays, CallMoves, KeepsConnection
<1>2. \A q \in Procs : OnNamed(q)' <=> OnNamed(q)
  BY <1>1 DEF Stays, OnNamed
<1>3. Shared' <=> Shared
  BY <1>1 DEF Stays, Shared
<1>4. \A l \in 1..made.log : OfNamed(l)' <=> OfNamed(l)
  BY <1>1, <1>2, <1>3 DEF Stays, OfNamed
<1>5. OneLogEach => OneLogEach'
  BY <1>1, <1>2, <1>4 DEF Stays, OneLogEach, IsOpen
<1> QED
  BY <1>1, <1>2, <1>4, <1>5

LEMMA AdoptingKeepsConnections ==
  ASSUME StateHolds, ConnectionsHold, NEW p \in Procs, Adopts(p)
  PROVE  ConnectionsHold'
<1> DEFINE k == call[p].log
<1>1. Stays(p) /\ call[p].pc = "meta" /\ call'[p].pc = "walk"
  BY DEF Adopts, Stays, KeepsCall
<1>2. /\ k \in 1..made.log /\ k \in 1..MaxLogs /\ Mine(p) = logs[k] /\ Mine(p).root # "other"
      /\ logs[k] \in DbIndexes
  BY MineIsOne DEF Adopts, ForeignRoot, OpenPcs
<1>3. /\ \A l \in 1..MaxLogs : l # k => logs'[l] = logs[l]
      /\ logs'[k].root = "own" /\ logs'[k].rev = logs[k].rev /\ logs'[k].schema = logs[k].schema
      /\ logs'[k].content = logs[k].content
  BY <1>2 DEF Adopts, StateHolds, LifecycleShape, DbIndexes
<1>4. \A l \in 1..made.log : l \in 1..MaxLogs
  BY DEF StateHolds, LifecycleShape
<1> HIDE DEF k
<1>5. LogsContinue'
  <2> SUFFICES ASSUME NEW l \in 1..made.log, OfNamed(l)
               PROVE  Continues(files[dbName], logs'[l])
    BY <1>1, StayingIsNamed DEF LogsContinue, Stays
  <2>1. Continues(files[dbName], logs[l])
    BY DEF ConnectionsHold, LogsContinue
  <2> QED
    BY <1>2, <1>3, <1>4, <2>1 DEF Continues
<1>6. ASSUME NEW q \in Procs, call[q].pc \in OpenPcs
      PROVE  /\ Mine(q)'.rev = Mine(q).rev /\ (Mine(q).root # "other" => Mine(q)'.root # "other")
             /\ Mine(q)'.content = Mine(q).content
  <2>1. call[q].log \in 1..MaxLogs /\ Mine(q) = logs[call[q].log] /\ call'[q].log = call[q].log
    BY <1>1, <1>6, MineIsOne, StayingIsNamed
  <2>2. Mine(q)' = logs'[call[q].log]
    BY <2>1 DEF Mine, Seen
  <2> QED
    BY <1>3, <2>1, <2>2
<1>7. \A q \in Procs : InStep(q, "commit")' => q # p /\ InStep(q, "commit") /\ call'[q] = call[q]
  BY <1>1, StayingIsNamed DEF InStep
<1>8. \A since : \A l \in 1..made.log : Newer(logs[l], since) => Newer(logs'[l], since)
  BY <1>3, <1>4 DEF Newer, OfThisBuild
<1>9. \A rev, since : \A l \in 1..made.log : FreshAt(logs[l], rev, since) => FreshAt(logs'[l], rev, since)
  BY <1>3, <1>4 DEF FreshAt, OfThisBuild
<1>10. ASSUME NEW q \in Procs
       PROVE  LostIsRenewed(q)'
  <2>1. NewerOnly(call[q].since) => NewerOnly(call[q].since)'
    BY <1>1, <1>7, <1>8, StayingIsNamed DEF NewerOnly, Stays
  <2> QED
    BY <1>1, <2>1, StayingIsNamed DEF LostIsRenewed, ConnectionsHold, IsOpen, Stays
<1>11. SyncedIsFresh(p)'
  BY <1>1, <1>2, <1>6 DEF SyncedIsFresh, OpenPcs
<1>12. ASSUME NEW q \in Procs \ {p}
       PROVE  SyncedIsFresh(q)'
  <2>1. SyncedIsFresh(q) /\ call'[q] = call[q] /\ (OnNamed(q)' <=> OnNamed(q))
    BY <1>1, StayingIsNamed DEF ConnectionsHold
  <2>2. ASSUME call[q].pc = "read", dbName # 0
        PROVE  FreshOnly(call[q].rev, call[q].since)'
    <3>1. FreshOnly(call[q].rev, call[q].since)
      BY <2>1, <2>2 DEF SyncedIsFresh
    <3>2. ASSUME NEW r \in Procs, OnNamed(r)', InStep(r, "commit")'
          PROVE  call'[r].seen >= call[q].since \/ Mine(r)'.rev >= call[q].rev
      BY <1>1, <1>6, <1>7, <3>1, <3>2, StayingIsNamed DEF FreshOnly, InStep, OpenPcs
    <3> QED
      BY <1>1, <1>9, <2>1, <3>1, <3>2, StayingIsNamed DEF FreshOnly, Stays
  <2>3. dbName' = dbName /\ files' = files
    BY <1>1 DEF Stays
  <2> QED
    BY <1>6, <2>1, <2>2, <2>3 DEF SyncedIsFresh, OpenPcs, FreshOnly
<1> QED
  BY <1>1, <1>5, <1>10, <1>11, <1>12, StayingIsNamed DEF ConnectionsHold

LEMMA WalkingKeepsConnections ==
  ASSUME StateHolds, ConnectionsHold, NEW p \in Procs, Walks(p)
  PROVE  ConnectionsHold'
<1>1. Stays(p) /\ logs' = logs /\ tree' = tree
  BY DEF Walks, Stays
<1>2. LogsContinue'
  BY <1>1, StayingIsNamed DEF ConnectionsHold, LogsContinue, Stays
<1>3. \A q \in Procs : Mine(q)' = Mine(q)
  BY <1>1, StayingIsNamed DEF Mine, Seen, Stays
<1>4. \A q \in Procs : call[q].since <= tree
  BY DEF StateHolds, CallHolds
<1>5. \A q \in Procs : InStep(q, "commit")' =>
        call'[q].seen = tree \/ (call'[q] = call[q] /\ InStep(q, "commit"))
  BY <1>1, StayingIsNamed DEF Walks, InStep
<1>6. ASSUME NEW q \in Procs
      PROVE  LostIsRenewed(q)'
  <2>1. NewerOnly(call[q].since) => NewerOnly(call[q].since)'
    BY <1>1, <1>4, <1>5, StayingIsNamed DEF NewerOnly, Stays
  <2> QED
    BY <1>1, <2>1, StayingIsNamed DEF LostIsRenewed, ConnectionsHold, IsOpen, Stays
<1>7. ASSUME NEW rev, NEW since, since <= tree, FreshOnly(rev, since), tree >= since
      PROVE  FreshOnly(rev, since)'
  BY <1>1, <1>3, <1>5, <1>7, StayingIsNamed DEF FreshOnly, Stays
<1>8. SyncedIsFresh(p)'
  BY <1>1, <1>3, StayingIsNamed DEF SyncedIsFresh, Walks, ConnectionsHold
<1>9. ASSUME NEW q \in Procs \ {p}
      PROVE  SyncedIsFresh(q)'
  <2>1. SyncedIsFresh(q) /\ call'[q] = call[q] /\ call[q].since <= tree /\ tree >= call[q].since
    BY <1>1, <1>4, StayingIsNamed DEF ConnectionsHold, StateHolds, LifecycleShape, CallStates
  <2>2. PICK rev, since : rev = call[q].rev /\ since = call[q].since
    OBVIOUS
  <2>3. FreshOnly(rev, since) => FreshOnly(rev, since)'
    BY <1>7, <2>1, <2>2
  <2> QED
    BY <1>1, <1>3, <2>1, <2>2, <2>3, StayingIsNamed DEF SyncedIsFresh, Stays, FreshOnly
<1> QED
  BY <1>1, <1>2, <1>6, <1>8, <1>9, StayingIsNamed DEF ConnectionsHold

\* A publish goes on from the revision it found; only its own connections see
\* that log.
LEMMA PublishingKeepsConnections ==
  ASSUME StateHolds, ConnectionsHold, NEW p \in Procs, Publishes(p)
  PROVE  ConnectionsHold'
<1> DEFINE k == call[p].log  new == Published(p)
<1>1. Stays(p) /\ call[p].pc = "commit" /\ call'[p].pc = "close"
  BY DEF Publishes, Stays
<1>2. /\ k \in 1..made.log /\ k \in 1..MaxLogs /\ Mine(p) = logs[k] /\ logs[k] \in DbIndexes
      /\ call[p].seen \in Nat /\ call[p].since \in Nat /\ call[p].since <= call[p].seen
  BY MineIsOne DEF Publishes, OpenPcs, CallStates, StateHolds, CallHolds
<1>3. /\ new \in DbIndexes /\ new.rev # 0 /\ new.root = logs[k].root /\ new.schema = logs[k].schema
      /\ new.content = call[p].seen
      /\ \/ new.rev = logs[k].rev /\ new.content = logs[k].content
         \/ new.rev = logs[k].rev + 1
  BY <1>2, PublishedIsOne DEF Publishes, OpenPcs
<1>4. logs'[k] = new /\ \A l \in 1..MaxLogs : l # k => logs'[l] = logs[l]
  BY <1>2 DEF Publishes, StateHolds, LifecycleShape
<1>5. \A l \in 1..made.log : l \in 1..MaxLogs
  BY DEF StateHolds, LifecycleShape
<1>6. call'[p].rev = new.rev /\ call'[p].kind = call[p].kind
  BY DEF Publishes
<1> HIDE DEF k, new
<1>7. /\ new.rev \in Nat /\ logs[k].rev \in Nat /\ new.content \in Nat
      /\ new.rev >= logs[k].rev
  BY <1>2, <1>3 DEF DbIndexes
<1>8. ASSUME NEW l \in 1..made.log, OfNamed(l)
      PROVE  /\ Continues(files[dbName], logs[l]) /\ files[dbName] \in DbIndexes
             /\ l = k => OnNamed(p)
  <2>1. Continues(files[dbName], logs[l])
    BY <1>8 DEF ConnectionsHold, LogsContinue
  <2>2. dbName \in 1..MaxFiles
    BY <1>8 DEF OfNamed, StateHolds, LifecycleShape
  <2>3. l = k => OnNamed(p)
    BY <1>8 DEF ConnectionsHold, OneLogEach, k
  <2> QED
    BY <2>1, <2>2, <2>3 DEF StateHolds, LifecycleShape
<1>9. LogsContinue'
  <2> SUFFICES ASSUME NEW l \in 1..made.log, OfNamed(l)
               PROVE  Continues(files[dbName], logs'[l])
    BY <1>1, StayingIsNamed DEF LogsContinue, Stays
  <2>1. Continues(files[dbName], logs[l]) /\ files[dbName].rev \in Nat
    BY <1>8 DEF DbIndexes
  <2>2. CASE l = k
    BY <1>3, <1>4, <1>7, <2>1, <2>2 DEF Continues
  <2>3. CASE l # k
    BY <1>4, <1>5, <2>1, <2>3
  <2> QED
    BY <2>2, <2>3
<1>10. ASSUME NEW q \in Procs, call[q].pc \in OpenPcs
       PROVE  /\ Mine(q)'.root = Mine(q).root /\ Mine(q)'.rev >= Mine(q).rev
              /\ Mine(q)'.rev = Mine(q).rev => Mine(q)'.content = Mine(q).content
              /\ Mine(q).rev \in Nat /\ Mine(q)'.rev \in Nat
  <2>1. /\ call[q].log \in 1..MaxLogs /\ Mine(q) = logs[call[q].log] /\ call'[q].log = call[q].log
        /\ Mine(q) \in DbIndexes
    BY <1>1, <1>10, MineIsOne, StayingIsNamed
  <2>2. Mine(q)' = logs'[call[q].log]
    BY <2>1 DEF Mine, Seen
  <2>3. CASE call[q].log = k
    BY <1>3, <1>4, <1>7, <2>1, <2>2, <2>3
  <2>4. CASE call[q].log # k
    BY <1>4, <2>1, <2>2, <2>4 DEF DbIndexes
  <2> QED
    BY <2>3, <2>4
<1>11. \A q \in Procs : InStep(q, "commit")' => q # p /\ InStep(q, "commit") /\ call'[q] = call[q]
  BY <1>1, StayingIsNamed DEF InStep
<1>12. ASSUME NEW since \in Nat, NewerOnly(since)
       PROVE  NewerOnly(since)'
  <2>1. ASSUME NEW l \in 1..made.log, OfNamed(l)
        PROVE  Newer(logs'[l], since)
    <3>1. CASE l = k
      <4>1. call[p].seen >= since /\ Newer(logs[k], since)
        BY <1>1, <1>8, <1>12, <2>1, <3>1 DEF NewerOnly, InStep
      <4> QED
        BY <1>3, <1>4, <3>1, <4>1 DEF Newer, OfThisBuild
    <3>2. CASE l # k
      BY <1>4, <1>5, <1>12, <2>1, <3>2 DEF NewerOnly
    <3> QED
      BY <3>1, <3>2
  <2> QED
    BY <1>1, <1>11, <1>12, <2>1, StayingIsNamed DEF NewerOnly, Stays
<1>13. ASSUME NEW rev \in Nat, NEW since \in Nat, FreshOnly(rev, since)
       PROVE  FreshOnly(rev, since)'
  <2>1. ASSUME NEW l \in 1..made.log, OfNamed(l)
        PROVE  FreshAt(logs'[l], rev, since)
    <3>1. CASE l = k
      <4>1. call[p].seen >= since \/ logs[k].rev >= rev
        BY <1>1, <1>2, <1>8, <1>13, <2>1, <3>1 DEF FreshOnly, InStep
      <4>2. FreshAt(logs[k], rev, since)
        BY <1>13, <2>1, <3>1 DEF FreshOnly
      <4>3. new.rev = rev => new.content >= since
        BY <1>3, <1>7, <4>1, <4>2 DEF FreshAt
      <4> QED
        BY <1>3, <1>4, <3>1, <4>2, <4>3 DEF FreshAt, OfThisBuild
    <3>2. CASE l # k
      BY <1>4, <1>5, <1>13, <2>1, <3>2 DEF FreshOnly
    <3> QED
      BY <3>1, <3>2
  <2>2. ASSUME NEW q \in Procs, OnNamed(q)', InStep(q, "commit")'
        PROVE  call'[q].seen >= since \/ Mine(q)'.rev >= rev
    <3>1. OnNamed(q) /\ InStep(q, "commit") /\ call'[q] = call[q]
      BY <1>1, <1>11, <2>2, StayingIsNamed
    <3>2. call[q].seen >= since \/ Mine(q).rev >= rev
      BY <1>13, <3>1 DEF FreshOnly
    <3>3. Mine(q)'.rev >= Mine(q).rev /\ Mine(q).rev \in Nat /\ Mine(q)'.rev \in Nat
      BY <1>10, <3>1 DEF InStep, OpenPcs
    <3> QED
      BY <3>1, <3>2, <3>3
  <2> QED
    BY <1>1, <1>13, <2>1, <2>2, StayingIsNamed DEF FreshOnly, Stays
<1>14. ASSUME NEW q \in Procs
       PROVE  LostIsRenewed(q)'
  <2>1. PICK since \in Nat : since = call[q].since
    BY DEF StateHolds, LifecycleShape, CallStates
  <2>2. NewerOnly(since) => NewerOnly(since)'
    BY <1>12
  <2> QED
    BY <1>1, <2>1, <2>2, StayingIsNamed DEF LostIsRenewed, NewerOnly, ConnectionsHold, IsOpen, Stays
<1>15. SyncedIsFresh(p)'
  <2>1. Mine(p)' = new
    BY <1>1, <1>2, <1>4, StayingIsNamed DEF Mine, Seen, k
  <2>2. call[p].kind # "on" => new.root # "other"
    BY <1>1, <1>2, <1>3 DEF ConnectionsHold, SyncedIsFresh
  <2>3. OnNamed(p) /\ files[dbName].rev = new.rev => files[dbName].content >= call[p].since
    <3> SUFFICES ASSUME OnNamed(p), files[dbName].rev = new.rev
                 PROVE  files[dbName].content >= call[p].since
      OBVIOUS
    <3>1. Continues(files[dbName], logs[k]) /\ files[dbName] \in DbIndexes
      BY <1>8, ConnectedIsOfNamed DEF k
    <3>2. files[dbName].content = call[p].seen
      BY <1>3, <1>7, <3>1 DEF Continues
    <3> QED
      BY <1>2, <3>2
  <2>4. new.rev >= new.rev /\ new.content >= call[p].since
    BY <1>2, <1>3, <1>7
  <2> QED
    BY <1>1, <1>3, <1>6, <2>1, <2>2, <2>3, <2>4, StayingIsNamed DEF SyncedIsFresh, Stays
<1>16. ASSUME NEW q \in Procs \ {p}
       PROVE  SyncedIsFresh(q)'
  <2>1. SyncedIsFresh(q) /\ call'[q] = call[q] /\ (OnNamed(q)' <=> OnNamed(q))
    BY <1>1, StayingIsNamed DEF ConnectionsHold
  <2>2. PICK rev \in Nat, since \in Nat : rev = call[q].rev /\ since = call[q].since
    BY DEF StateHolds, LifecycleShape, CallStates
  <2>3. FreshOnly(rev, since) => FreshOnly(rev, since)'
    BY <1>13
  <2>4. ASSUME call[q].pc = "close", call[q].kind # "on"
        PROVE  /\ Mine(q)'.rev >= rev
               /\ Mine(q)'.rev = rev => Mine(q)'.content >= since
    BY <1>10, <2>1, <2>2, <2>4 DEF SyncedIsFresh, OpenPcs
  <2>5. dbName' = dbName /\ files' = files
    BY <1>1 DEF Stays
  <2> QED
    BY <1>10, <2>1, <2>2, <2>3, <2>4, <2>5 DEF SyncedIsFresh, FreshOnly, OpenPcs
<1> QED
  BY <1>1, <1>9, <1>14, <1>15, <1>16, StayingIsNamed DEF ConnectionsHold

-----------------------------------------------------------------------------
(* What the tree and the disk do.                                           *)

LEMMA EditKeepsConnections ==
  ASSUME ConnectionsHold, EditTree
  PROVE  ConnectionsHold'
<1> USE DEF EditTree, UnchangedNames
<1>1. (\A q \in Procs : OnNamed(q)' <=> OnNamed(q)) /\ (Shared' <=> Shared)
  BY DEF OnNamed, Shared
<1>2. /\ \A l : OfNamed(l)' <=> OfNamed(l)
      /\ \A q \in Procs : Mine(q)' = Mine(q) /\ (IsOpen(q)' <=> IsOpen(q))
  BY <1>1 DEF OfNamed, Mine, Seen, IsOpen
<1>3. OneLogEach' /\ LogsContinue'
  BY <1>1, <1>2 DEF ConnectionsHold, OneLogEach, LogsContinue
<1>4. ASSUME NEW q \in Procs
      PROVE  LostIsRenewed(q)'
  BY <1>1, <1>2 DEF ConnectionsHold, LostIsRenewed, NewerOnly, InStep
<1>5. ASSUME NEW q \in Procs
      PROVE  SyncedIsFresh(q)'
  BY <1>1, <1>2 DEF ConnectionsHold, SyncedIsFresh, FreshOnly, InStep
<1> QED
  BY <1>3, <1>4, <1>5 DEF ConnectionsHold

\* Damage changes the schema of an index that has one.
LEMMA DamageKeepsConnections ==
  ASSUME StateHolds, ConnectionsHold, Damage
  PROVE  ConnectionsHold'
<1>1. /\ dbName \in 1..MaxFiles /\ logName \in 0..MaxLogs /\ files[dbName].schema # "blank"
      /\ files \in [1..MaxFiles -> DbIndexes] /\ logs \in [1..MaxLogs -> DbIndexes]
      /\ \A l \in 1..made.log : l \in 1..MaxLogs
      /\ UNCHANGED <<active, dbName, logName, made, tree, begun, call, answer, split>>
  BY DEF StateHolds, LifecycleShape, Damage, UnchangedNames
<1>2. /\ files' = [files EXCEPT ![dbName] = [@ EXCEPT !.schema = "corrupt"]]
      /\ logs' = IF logName = 0 THEN logs
                 ELSE [logs EXCEPT ![logName] = [@ EXCEPT !.schema = "corrupt"]]
  BY <1>1 DEF Damage
<1>3. /\ files'[dbName].schema = "corrupt" /\ files'[dbName].root = files[dbName].root
      /\ files'[dbName].rev = files[dbName].rev /\ files'[dbName].content = files[dbName].content
  BY <1>1, <1>2 DEF DbIndexes
<1>4. \A l \in 1..MaxLogs :
        /\ logs'[l].root = logs[l].root /\ logs'[l].rev = logs[l].rev
        /\ logs'[l].content = logs[l].content
        /\ logs'[l].schema \in {logs[l].schema, "corrupt"}
  BY <1>1, <1>2 DEF DbIndexes
<1>5. files[dbName] # Blank /\ files'[dbName] # Blank
  BY <1>1, <1>3 DEF Blank
<1>6. (\A q \in Procs : OnNamed(q)' <=> OnNamed(q)) /\ (Shared' <=> Shared)
  BY <1>1, <1>5 DEF OnNamed, Shared
<1>7. \A l : OfNamed(l)' <=> OfNamed(l)
  BY <1>1, <1>6 DEF OfNamed
<1>8. ASSUME NEW q \in Procs, call[q].pc \in OpenPcs
      PROVE  /\ Mine(q)'.root = Mine(q).root /\ Mine(q)'.rev = Mine(q).rev
             /\ Mine(q)'.content = Mine(q).content
  <2>1. call[q].log \in 1..MaxLogs /\ Mine(q) = logs[call[q].log]
    BY <1>8, MineIsOne
  <2>2. Mine(q)' = logs'[call[q].log]
    BY <1>1, <2>1 DEF Mine, Seen
  <2> QED
    BY <1>4, <2>1, <2>2
<1>9. OneLogEach'
  BY <1>1, <1>6, <1>7 DEF ConnectionsHold, OneLogEach, IsOpen
<1>10. LogsContinue'
  <2> SUFFICES ASSUME NEW l \in 1..made.log, OfNamed(l)
               PROVE  Continues(files'[dbName], logs'[l])
    BY <1>1, <1>7 DEF LogsContinue
  <2>1. Continues(files[dbName], logs[l]) /\ l \in 1..MaxLogs
    BY <1>1 DEF ConnectionsHold, LogsContinue
  <2> QED
    BY <1>3, <1>4, <2>1 DEF Continues
<1>11. ASSUME NEW since, NewerOnly(since)
       PROVE  NewerOnly(since)'
  <2>1. Newer(files'[dbName], since)
    BY <1>3, <1>11 DEF NewerOnly, Newer, OfThisBuild
  <2>2. \A l \in 1..made.log : OfNamed(l) => Newer(logs'[l], since)
    BY <1>1, <1>4, <1>11 DEF NewerOnly, Newer, OfThisBuild
  <2> QED
    BY <1>1, <1>6, <1>7, <1>11, <2>1, <2>2 DEF NewerOnly, InStep
<1>12. ASSUME NEW rev, NEW since, FreshOnly(rev, since)
       PROVE  FreshOnly(rev, since)'
  <2>1. FreshAt(files'[dbName], rev, since)
    BY <1>3, <1>12 DEF FreshOnly, FreshAt, OfThisBuild
  <2>2. \A l \in 1..made.log : OfNamed(l) => FreshAt(logs'[l], rev, since)
    BY <1>1, <1>4, <1>12 DEF FreshOnly, FreshAt, OfThisBuild
  <2>3. ASSUME NEW q \in Procs, OnNamed(q), InStep(q, "commit")
        PROVE  call[q].seen >= since \/ Mine(q)'.rev >= rev
    BY <1>8, <1>12, <2>3 DEF FreshOnly, InStep, OpenPcs
  <2> QED
    BY <1>1, <1>6, <1>7, <2>1, <2>2, <2>3 DEF FreshOnly, InStep
<1>13. ASSUME NEW q \in Procs
       PROVE  LostIsRenewed(q)'
  <2>1. PICK since : since = call[q].since
    OBVIOUS
  <2>2. NewerOnly(since) => NewerOnly(since)'
    BY <1>11
  <2> QED
    BY <1>1, <1>6, <2>1, <2>2 DEF ConnectionsHold, LostIsRenewed, NewerOnly, IsOpen
<1>14. ASSUME NEW q \in Procs
       PROVE  SyncedIsFresh(q)'
  <2>1. PICK rev, since : rev = call[q].rev /\ since = call[q].since
    OBVIOUS
  <2>2. FreshOnly(rev, since) => FreshOnly(rev, since)'
    BY <1>12
  <2> QED
    BY <1>1, <1>3, <1>6, <1>8, <2>1, <2>2 DEF ConnectionsHold, SyncedIsFresh, FreshOnly, OpenPcs
<1> QED
  BY <1>9, <1>10, <1>13, <1>14 DEF ConnectionsHold

-----------------------------------------------------------------------------
(* The invariant and what follows.                                          *)

LEMMA LifecycleInitHolds == LifecycleInit => LifecycleInv
<1> SUFFICES ASSUME LifecycleInit
             PROVE  LifecycleInv
  OBVIOUS
<1>1. Blank \in DbIndexes /\ NoCall \in CallStates
  BY DEF Blank, DbIndexes, Schemas, NoCall, CallStates, CallPcs
<1> USE DEF LifecycleInit
<1>2. PICK first \in {Blank} \cup [schema : Schemas \ {"blank"}, root : {"own", "other"},
                                 rev : {1}, content : {1}] :
        /\ files = [[f \in 1..MaxFiles |-> Blank] EXCEPT ![1] = first]
        /\ dbName = 0 => first = Blank
  OBVIOUS
<1>3. first \in DbIndexes /\ (first.schema = "blank" => first.rev = 0)
  BY <1>1 DEF Blank, DbIndexes, Schemas
<1>4. /\ files \in [1..MaxFiles -> DbIndexes]
      /\ \A f \in 1..MaxFiles : files[f] = IF f = 1 THEN first ELSE Blank
  BY <1>1, <1>2, <1>3
<1>5. /\ made.file = dbName /\ made.log = 0 /\ dbName \in 0..1 /\ 1 \in 1..MaxFiles
      /\ made \in [file : 0..MaxFiles, log : 0..MaxLogs]
  OBVIOUS
<1>6. NoAnswer \in [since : Nat, got : DbIndexes]
  BY <1>1 DEF NoAnswer
<1>7. LifecycleShape
  <2>1. /\ call \in [Procs -> CallStates] /\ logs \in [1..MaxLogs -> DbIndexes]
        /\ answer \in [Procs -> [since : Nat, got : DbIndexes]]
    BY <1>1, <1>6
  <2>2. /\ dbName \in 0..made.file /\ logName \in 0..made.log /\ tree \in Nat
    BY <1>5
  <2>3. active \in BOOLEAN /\ split \in BOOLEAN
    BY Zenon
  <2> QED
    BY <1>4, <1>5, <2>1, <2>2, <2>3 DEF LifecycleShape
<1>8. BlankIsNew
  BY <1>2, <1>3, <1>4, <1>5 DEF BlankIsNew, Blank
<1>9. \A p \in Procs : call[p] = NoCall /\ NoCall.pc = "idle" /\ NoCall.file = 0 /\ NoCall.log = 0
  BY DEF NoCall
<1>10. \A p \in Procs : CallHolds(p)
  BY DEF CallHolds, NoCall, OpenPcs
<1>11. \A l \in 1..made.log : FALSE
  BY <1>5
<1>12. ConnectionsHold
  BY <1>9, <1>11 DEF ConnectionsHold, OneLogEach, LogsContinue, LostIsRenewed, SyncedIsFresh, IsOpen
<1> QED
  BY <1>7, <1>8, <1>10, <1>12 DEF LifecycleInv

LEMMA LifecycleStepHolds ==
  LifecycleInv /\ [LifecycleNext]_lifecycleVars => LifecycleInv'
<1> SUFFICES ASSUME LifecycleInv, [LifecycleNext]_lifecycleVars
             PROVE  LifecycleInv'
  OBVIOUS
<1>1. StateHolds /\ (~split => ConnectionsHold) /\ split \in BOOLEAN
  BY DEF LifecycleInv, StateHolds, LifecycleShape
<1>2. ASSUME StateHolds', split' = split, ~split => ConnectionsHold'
      PROVE  LifecycleInv'
  BY <1>2 DEF LifecycleInv, StateHolds
<1>3. ASSUME NEW p \in Procs, LetsGo(p)
      PROVE  LifecycleInv'
  <2>1. split' = split /\ call'[p].pc \notin OpenPcs /\ call'[p].pc # "read"
    BY <1>3 DEF LetsGo
  <2> QED
    BY <1>1, <1>2, <1>3, <2>1, LettingGoKeepsState, LettingGoDrops, DropKeepsConnections
<1>4. ASSUME NEW p \in Procs, Leaves(p)
      PROVE  LifecycleInv'
  <2>1. /\ split' = split /\ call'[p].pc \notin OpenPcs
        /\ call'[p].pc = "read" => call[p].pc = "close" /\ call[p].kind # "on" /\ KeepsCall(p)
    BY <1>4 DEF Leaves
  <2> QED
    BY <1>1, <1>2, <1>4, <2>1, LeavingKeepsState, LeavingDrops, DropKeepsConnections
<1>5. ASSUME NEW p \in Procs, Makes(p)
      PROVE  LifecycleInv'
  BY <1>1, <1>2, <1>5, MakingKeepsState, MakingKeepsConnections DEF Makes
<1>6. ASSUME NEW p \in Procs, Opens(p)
      PROVE  LifecycleInv'
  <2>1. split => split'
    BY <1>6 DEF Opens
  <2> QED
    BY <1>1, <1>6, <2>1, OpeningKeepsState, OpenKeepsConnections DEF LifecycleInv, StateHolds
<1>7. ASSUME NEW p \in Procs, Adopts(p)
      PROVE  LifecycleInv'
  BY <1>1, <1>2, <1>7, AdoptingKeepsState, AdoptingKeepsConnections DEF Adopts
<1>8. ASSUME NEW p \in Procs, Publishes(p)
      PROVE  LifecycleInv'
  BY <1>1, <1>2, <1>8, PublishingKeepsState, PublishingKeepsConnections DEF Publishes
<1>9. ASSUME NEW p \in Procs, Walks(p)
      PROVE  LifecycleInv'
  BY <1>1, <1>2, <1>9, WalkingKeepsState, WalkingKeepsConnections DEF Walks
<1>10. CASE EditTree
  BY <1>1, <1>2, <1>10, EditKeepsState, EditKeepsConnections DEF EditTree
<1>11. CASE Damage
  BY <1>1, <1>2, <1>11, DamageKeepsState, DamageKeepsConnections DEF Damage
<1>12. CASE UNCHANGED lifecycleVars
  <2>1. StateHolds'
    BY <1>1, <1>12 DEF StateHolds, LifecycleShape, BlankIsNew, CallHolds, lifecycleVars
  <2>2. ConnectionsHold => ConnectionsHold'
    BY <1>12 DEF lifecycleVars, ConnectionsHold, OneLogEach, LogsContinue, LostIsRenewed, SyncedIsFresh,
       NewerOnly, FreshOnly, OfNamed, OnNamed, Shared, Mine, Seen, IsOpen, InStep
  <2> QED
    BY <1>1, <1>2, <1>12, <2>1, <2>2 DEF lifecycleVars
<1>13. ASSUME NEW p \in Procs, NEW kind \in {"sync", "on", "off"}, StartCall(p, kind)
       PROVE  LifecycleInv'
  BY <1>1, <1>3, <1>13, StartLetsGo
<1>14. ASSUME NEW p \in Procs, \/ ResolveRoot(p)
                               \/ MakeDir(p)
                               \/ BeginSession(p)
                               \/ UnlinkMain(p)
                               \/ UnlinkLogs(p)
                               \/ RemoveEntry(p)
                               \/ RemoveDir(p)
                               \/ Die(p)
       PROVE  LifecycleInv'
  BY <1>1, <1>3, <1>14, PlainStepsLetGo
<1>15. ASSUME NEW p \in Procs, \/ OpenExisting(p)
                               \/ Create(p)
                               \/ Connect(p)
       PROVE  LifecycleInv'
  BY <1>1, <1>3, <1>5, <1>6, <1>15, OpeningStepsOpen
<1>16. ASSUME NEW p \in Procs, EnsureRow(p)
       PROVE  LifecycleInv'
  BY <1>1, <1>4, <1>7, <1>16, EnsureRowAdopts
<1>17. ASSUME NEW p \in Procs, Walk(p)
       PROVE  LifecycleInv'
  BY <1>1, <1>9, <1>17, WalkWalks
<1>18. ASSUME NEW p \in Procs, Commit(p)
       PROVE  LifecycleInv'
  BY <1>1, <1>4, <1>8, <1>9, <1>18, CommitPublishes
<1>19. ASSUME NEW p \in Procs, CloseConnection(p)
       PROVE  LifecycleInv'
  BY <1>1, <1>4, <1>19, CloseLeaves
<1>20. ASSUME NEW p \in Procs, VerifiedRead(p)
       PROVE  LifecycleInv'
  BY <1>1, <1>3, <1>20, ReadLetsGo
<1> QED
  BY <1>10, <1>11, <1>12, <1>13, <1>14, <1>15, <1>16, <1>17, <1>18, <1>19, <1>20 DEF LifecycleNext

\* The inductive invariant of the database's life.
THEOREM LifecycleInvHolds == LifecycleSpec => []LifecycleInv
  BY LifecycleInitHolds, LifecycleStepHolds, PTL DEF LifecycleSpec

LEMMA StepsKeepSplit ==
  ASSUME StateHolds, [LifecycleNext]_lifecycleVars
  PROVE  split => split'
<1>1. CASE \E p \in Procs : \/ \E kind \in {"sync", "on", "off"} : StartCall(p, kind)
                            \/ ResolveRoot(p)
                            \/ MakeDir(p)
                            \/ BeginSession(p)
                            \/ UnlinkMain(p)
                            \/ UnlinkLogs(p)
                            \/ RemoveEntry(p)
                            \/ RemoveDir(p)
                            \/ Die(p)
                            \/ VerifiedRead(p)
  BY <1>1, StartLetsGo, PlainStepsLetGo, ReadLetsGo DEF LetsGo
<1>2. CASE \E p \in Procs : \/ OpenExisting(p)
                            \/ Create(p)
                            \/ Connect(p)
  BY <1>2, OpeningStepsOpen DEF Opens, Makes, LetsGo
<1>3. CASE \E p \in Procs : \/ EnsureRow(p)
                            \/ Walk(p)
                            \/ Commit(p)
                            \/ CloseConnection(p)
  BY <1>3, EnsureRowAdopts, WalkWalks, CommitPublishes, CloseLeaves DEF Adopts, Walks, Publishes, Leaves
<1>4. CASE \/ EditTree
           \/ Damage
           \/ UNCHANGED lifecycleVars
  BY <1>4 DEF EditTree, Damage, lifecycleVars
<1> QED
  BY <1>1, <1>2, <1>3, <1>4 DEF LifecycleNext

\* An answer comes from a read at the revision its call committed.
LEMMA OnlyReadsAnswer ==
  ASSUME StateHolds, [LifecycleNext]_lifecycleVars, NEW q \in Procs,
         answer'[q] # answer[q], answer'[q] # NoAnswer
  PROVE  /\ InStep(q, "read") /\ SameRevision(q, NamedIndex) /\ NamedIndex.schema # "corrupt"
         /\ answer'[q] = [since |-> call[q].since, got |-> NamedIndex]
<1>1. answer \in [Procs -> [since : Nat, got : DbIndexes]]
  BY DEF StateHolds, LifecycleShape
<1>2. ASSUME NEW p \in Procs, \/ ResolveRoot(p)
                              \/ MakeDir(p)
                              \/ BeginSession(p)
                              \/ UnlinkMain(p)
                              \/ UnlinkLogs(p)
                              \/ RemoveEntry(p)
                              \/ RemoveDir(p)
                              \/ Die(p)
      PROVE  FALSE
  BY <1>2 DEF ResolveRoot, MakeDir, BeginSession, UnlinkMain, UnlinkLogs, RemoveEntry, RemoveDir, Die,
     UnchangedRest
<1>3. ASSUME NEW p \in Procs, \/ OpenExisting(p)
                              \/ Create(p)
                              \/ Connect(p)
                              \/ EnsureRow(p)
                              \/ Walk(p)
                              \/ Commit(p)
                              \/ CloseConnection(p)
      PROVE  FALSE
  BY <1>3 DEF OpenExisting, Create, Connect, EnsureRow, Walk, Commit, CloseConnection, UnchangedRest
<1>4. CASE \/ EditTree
           \/ Damage
           \/ UNCHANGED lifecycleVars
  BY <1>4 DEF EditTree, Damage, lifecycleVars
<1>5. ASSUME NEW p \in Procs, NEW kind \in {"sync", "on", "off"}, StartCall(p, kind)
      PROVE  FALSE
  <2>1. answer' = [answer EXCEPT ![p] = NoAnswer]
    BY <1>5 DEF StartCall
  <2> QED
    BY <1>1, <2>1
<1>6. ASSUME NEW p \in Procs, VerifiedRead(p)
      PROVE  /\ p = q /\ SameRevision(p, NamedIndex) /\ NamedIndex.schema # "corrupt"
             /\ answer'[p] = [since |-> call[p].since, got |-> NamedIndex]
  <2>1. /\ SameRevision(p, NamedIndex) /\ NamedIndex.schema # "corrupt"
        /\ answer' = [answer EXCEPT ![p] = [since |-> call[p].since, got |-> NamedIndex]]
    BY <1>6 DEF VerifiedRead
  <2> QED
    BY <1>1, <2>1
<1> QED
  BY <1>2, <1>3, <1>4, <1>5, <1>6 DEF LifecycleNext, VerifiedRead

\* Unless the log of a live database was deleted by name, a verified read
\* answers from an index of this build, made for this root, of a tree no older
\* than the call (ensure_current, with_verified_read).
THEOREM ReadsAreFresh == LifecycleSpec => []ReadIsFresh
<1>1. LifecycleInit => ReadIsFresh
  BY DEF LifecycleInit, ReadIsFresh
<1>2. LifecycleInv /\ ReadIsFresh /\ [LifecycleNext]_lifecycleVars => ReadIsFresh'
  <2> SUFFICES ASSUME LifecycleInv, ReadIsFresh, [LifecycleNext]_lifecycleVars, ~split',
                      NEW q \in Procs, answer'[q] # NoAnswer
               PROVE  /\ answer'[q].got.content >= answer'[q].since
                      /\ answer'[q].got.schema = "current" /\ answer'[q].got.root # "other"
    BY DEF ReadIsFresh
  <2>1. StateHolds /\ (split => split') /\ ~split
    <3>1. StateHolds
      BY DEF LifecycleInv, StateHolds
    <3>2. split => split'
      BY <3>1, StepsKeepSplit
    <3> QED
      BY <3>1, <3>2
  <2>2. CASE answer'[q] = answer[q]
    BY <2>1, <2>2 DEF ReadIsFresh
  <2>3. CASE answer'[q] # answer[q]
    <3>1. /\ InStep(q, "read") /\ SameRevision(q, NamedIndex) /\ NamedIndex.schema # "corrupt"
          /\ answer'[q] = [since |-> call[q].since, got |-> NamedIndex]
      BY <2>1, <2>3, OnlyReadsAnswer
    <3>2. NamedIndex \in DbIndexes
      BY <2>1, NamedIndexIsOne
    <3>3. dbName # 0
      BY <3>1 DEF NamedIndex, SameRevision, Blank
    <3>4. FreshOnly(call[q].rev, call[q].since)
      BY <2>1, <3>1, <3>3 DEF LifecycleInv, ConnectionsHold, SyncedIsFresh, InStep
    <3>5. FreshAt(NamedIndex, call[q].rev, call[q].since) /\ NamedIndex.rev = call[q].rev
      <4>1. Shared => logName \in 1..made.log /\ OfNamed(logName)
        BY <2>1, <3>3 DEF Shared, OfNamed, StateHolds, LifecycleShape
      <4> QED
        BY <3>1, <3>3, <3>4, <4>1 DEF FreshOnly, NamedIndex, SameRevision
    <3>6. NamedIndex.rev # 0 /\ NamedIndex.schema # "blank"
      <4>1. /\ \A f \in 1..MaxFiles : files[f].schema = "blank" => files[f].rev = 0
            /\ \A l \in 1..MaxLogs : logs[l].schema = "blank" => logs[l].rev = 0
            /\ dbName \in 1..MaxFiles /\ (Shared => logName \in 1..MaxLogs)
        BY <2>1, <3>3 DEF StateHolds, BlankIsNew, LifecycleShape, Shared
      <4> QED
        BY <3>1, <3>3, <4>1 DEF NamedIndex, SameRevision
    <3>7. NamedIndex.schema = "current"
      BY <3>1, <3>2, <3>5, <3>6 DEF FreshAt, OfThisBuild, DbIndexes, Schemas
    <3> QED
      BY <3>1, <3>5, <3>7 DEF FreshAt, OfThisBuild
  <2> QED
    BY <2>2, <2>3
<1> QED
  BY <1>1, <1>2, LifecycleInvHolds, PTL DEF LifecycleSpec
=============================================================================
