------------------------------ MODULE Lifecycle ------------------------------
(***************************************************************************)
(* The project database from the first call to the last: who creates it,  *)
(* discards it, rebuilds it, deletes it with the switch, and what a call  *)
(* then reads (src/src/sync/manager_orchestration.rs, manager_meta.rs,    *)
(* src/src/store/connection.rs, connection_guards.rs, migrations.rs,      *)
(* src/src/tools/project_control.rs, src/src/tools/context.rs).           *)
(*                                                                        *)
(* SQLite is external: a connection is bound to the file and to the log   *)
(* (-wal and -shm) that had the names when it opened, and the last one of *)
(* a file that still has its name writes its log back and deletes the log *)
(* by name.  A publish is one walk and one commit here; module Publish    *)
(* has its steps.  Files and logs are numbered in the order they are made.*)
(***************************************************************************)
EXTENDS Naturals, FiniteSets

CONSTANTS
  Procs,      \* server processes
  MaxFiles,   \* bound: database files made
  MaxLogs,    \* bound: logs made
  MaxTree,    \* bound: contents the project tree takes
  DbCalls,    \* bound: calls of all processes
  DbFaults    \* bound: processes killed and databases damaged

ASSUME LifecycleAssumption ==
  MaxFiles \in Nat \ {0} /\ MaxLogs \in Nat /\ MaxTree \in Nat \ {0} /\ DbCalls \in Nat /\ DbFaults \in Nat

VARIABLES
  active,    \* .planning/slugaudit exists
  dbName,    \* the file named project.db, 0 for none
  logName,   \* the log named project.db-wal, 0 for none
  files,     \* per file: the index written back to it
  logs,      \* per log: the index a connection of it sees
  made,      \* files and logs made so far
  tree,      \* the content of the project's tree
  begun,     \* processes whose session has begun
  call,      \* per process: the call it runs
  answer,    \* per process: what its last verified read answered from
  split,     \* observer: two connections of one file had different logs
  used       \* calls and faults so far

lifecycleVars == <<active, dbName, logName, files, logs, made, tree, begun,
                   call, answer, split, used>>

Blank == [schema |-> "blank", root |-> "none", rev |-> 0, content |-> 0]
Schemas == {"blank", "current", "outdated", "corrupt"}
Indexes == [schema : Schemas, root : {"none", "own", "other"}, rev : 0..DbCalls + 1, content : 0..MaxTree]
NoCall == [pc |-> "idle", kind |-> "none", file |-> 0, log |-> 0, base |-> 0, seen |-> 0,
           rev |-> 0, since |-> 0, scratch |-> FALSE, left |-> {}]
NoAnswer == [since |-> 0, got |-> Blank]
CallPcs == {"idle", "resolve", "mkdir", "begin", "open", "unlink", "unlink_logs", "create", "connect",
            "meta", "walk", "commit", "close", "read", "remove"}

LifecycleTypeOK ==
  /\ active \in BOOLEAN /\ split \in BOOLEAN /\ begun \subseteq Procs
  /\ dbName \in 0..MaxFiles /\ logName \in 0..MaxLogs
  /\ files \in [1..MaxFiles -> Indexes] /\ logs \in [1..MaxLogs -> Indexes]
  /\ made \in [file : 0..MaxFiles, log : 0..MaxLogs] /\ tree \in 1..MaxTree
  /\ used \in [calls : 0..DbCalls, faults : 0..DbFaults]
  /\ \A p \in Procs :
       /\ call[p].pc \in CallPcs /\ call[p].kind \in {"none", "sync", "on", "off"}
       /\ call[p].file \in 0..MaxFiles /\ call[p].log \in 0..MaxLogs
       /\ answer[p].got \in Indexes

\* Before the first call: off, or on with no database, or with one this or
\* another build left, perhaps for the root the folder had before it moved.
LifecycleInit ==
  /\ active \in BOOLEAN /\ dbName \in {0, 1} /\ (dbName = 1 => active)
  /\ logName = 0 /\ logs = [l \in 1..MaxLogs |-> Blank]
  /\ \E first \in {Blank} \cup [schema : Schemas \ {"blank"}, root : {"own", "other"},
                                 rev : {1}, content : {1}] :
       /\ files = [[f \in 1..MaxFiles |-> Blank] EXCEPT ![1] = first]
       /\ dbName = 0 => first = Blank
  /\ made = [file |-> dbName, log |-> 0]
  /\ tree = 1 /\ begun = {} /\ split = FALSE
  /\ call = [p \in Procs |-> NoCall] /\ answer = [p \in Procs |-> NoAnswer]
  /\ used = [calls |-> 0, faults |-> 0]

-----------------------------------------------------------------------------
\* Connections.

Seen(file, log) == IF log = 0 THEN files[file] ELSE logs[log]
Mine(p) == Seen(call[p].file, call[p].log)
IsOpen(p) == call[p].file # 0
AloneOn(p) == \A q \in Procs \ {p} : call[q].file # call[p].file

InStep(p, pc) == call[p].pc = pc
Go(p, pc) == call' = [call EXCEPT ![p].pc = pc]
Returns(p) == call' = [call EXCEPT ![p] = NoCall]

UnchangedNames == UNCHANGED <<active, dbName, logName, made>>
UnchangedRest == UNCHANGED <<tree, begun, answer, used>>

\* The connection closes: the last one of a file that has its name writes
\* the log back and deletes it by name.
Closes(p) ==
  IF IsOpen(p) /\ AloneOn(p) /\ dbName = call[p].file
  THEN files' = [files EXCEPT ![dbName] = Mine(p)] /\ logName' = 0
  ELSE UNCHANGED <<files, logName>>

\* The call of p opens the named file with the named log, or makes one; a
\* log left by a deleted file is deleted when a blank file is opened.
Shared == logName # 0 /\ ~(files[dbName] = Blank /\ \A p \in Procs : call[p].file # dbName)
Bind(p, pc, index) ==
  LET log == IF Shared THEN logName ELSE made.log + 1 IN
  /\ log <= MaxLogs
  /\ made' = [made EXCEPT !.log = IF Shared THEN @ ELSE log]
  /\ logName' = log
  /\ logs' = [logs EXCEPT ![log] = index]
  /\ split' = (split \/ \E q \in Procs \ {p} : call[q].file = dbName /\ call[q].log # log)
  /\ call' = [call EXCEPT ![p].pc = pc, ![p].file = dbName, ![p].log = log]
NamedIndex == IF dbName = 0 THEN Blank ELSE IF Shared THEN logs[logName] ELSE files[dbName]

-----------------------------------------------------------------------------
\* The start of a call.

StartCall(p, kind) ==
  /\ InStep(p, "idle") /\ used.calls < DbCalls
  /\ used' = [used EXCEPT !.calls = @ + 1]
  /\ call' = [call EXCEPT ![p] = [NoCall EXCEPT
       !.kind = kind, !.since = tree,
       !.pc = CASE kind = "sync" -> "resolve" [] kind = "on" -> "mkdir" [] kind = "off" -> "remove",
       !.left = IF kind = "off" THEN {"db", "log"} ELSE {}]]
  /\ answer' = [answer EXCEPT ![p] = NoAnswer]
  /\ begun' = IF kind = "off" THEN begun \ {p} ELSE begun
  /\ UnchangedNames /\ UNCHANGED <<files, logs, tree, split>>

\* resolve_project: no activation directory, no call.
ResolveRoot(p) ==
  /\ InStep(p, "resolve")
  /\ IF active THEN Go(p, "begin") ELSE Returns(p)
  /\ UnchangedNames /\ UnchangedRest /\ UNCHANGED <<files, logs, split>>

MakeDir(p) ==
  /\ InStep(p, "mkdir")
  /\ active' = TRUE /\ Go(p, "begin")
  /\ UNCHANGED <<dbName, logName, made, files, logs, split>> /\ UnchangedRest

\* begin_process_session: the first of a process needs the directory.
BeginSession(p) ==
  /\ InStep(p, "begin")
  /\ \/ /\ p \in begun \/ active
        /\ Go(p, IF call[p].kind = "sync" THEN "open" ELSE "create") /\ begun' = begun \cup {p}
     \/ p \notin begun /\ ~active /\ Returns(p) /\ UNCHANGED begun
  /\ UnchangedNames /\ UNCHANGED <<files, logs, split, tree, answer, used>>

-----------------------------------------------------------------------------
\* Opening.

\* ensure_current_schema: a blank database gets the schema in one write
\* transaction; any other version than this build's is for discarding.
Migrated(index) == IF index.schema = "blank" THEN [index EXCEPT !.schema = "current"] ELSE index
Usable(index) == Migrated(index).schema = "current"

\* A database that cannot be opened is discarded once: by a sync that found
\* it there, and by `on`; one made from scratch must open.
MayDiscard(p) == ~call[p].scratch
Discards(p) ==
  call' = [call EXCEPT ![p].pc = "unlink", ![p].file = 0, ![p].log = 0, ![p].scratch = TRUE]

OpenNamed(p, pc) ==
  LET index == NamedIndex IN
  /\ dbName # 0
  /\ \/ Usable(index) /\ Bind(p, pc, Migrated(index))
     \/ /\ ~Usable(index)
        /\ IF MayDiscard(p) THEN Discards(p) ELSE Returns(p)
        /\ UNCHANGED <<made, logName, logs, split>>

\* open_or_rebuild: must exist; a missing database is made from scratch.
OpenExisting(p) ==
  /\ InStep(p, "open")
  /\ \/ OpenNamed(p, "meta")
     \/ /\ dbName = 0 /\ call' = [call EXCEPT ![p].pc = "create", ![p].scratch = TRUE]
        /\ UNCHANGED <<made, logName, logs, split>>
  /\ UNCHANGED <<active, dbName, files>> /\ UnchangedRest

\* remove_database_files, one name after the other.
UnlinkMain(p) ==
  /\ InStep(p, "unlink")
  /\ dbName' = 0 /\ Go(p, "unlink_logs")
  /\ UNCHANGED <<active, logName, made, files, logs, split>> /\ UnchangedRest
UnlinkLogs(p) ==
  /\ InStep(p, "unlink_logs")
  /\ logName' = 0 /\ Go(p, "create")
  /\ UNCHANGED <<active, dbName, made, files, logs, split>> /\ UnchangedRest

\* create_with_private_permissions_if_missing: fails without the directory.
Create(p) ==
  /\ InStep(p, "create")
  /\ IF dbName = 0 /\ active
     THEN made.file < MaxFiles /\ dbName' = made.file + 1 /\ made' = [made EXCEPT !.file = @ + 1]
     ELSE UNCHANGED <<dbName, made>>
  /\ IF dbName = 0 /\ ~active THEN Returns(p) ELSE Go(p, "connect")
  /\ UNCHANGED <<active, logName, files, logs, split>> /\ UnchangedRest

\* The open that may create: a file unlinked since is made again, by SQLite.
Connect(p) ==
  /\ InStep(p, "connect")
  /\ \/ /\ OpenNamed(p, IF call[p].kind = "on" THEN "walk" ELSE "meta")
        /\ UNCHANGED dbName
     \/ /\ dbName = 0
        /\ IF active THEN Go(p, "create") ELSE Returns(p)
        /\ UNCHANGED <<dbName, made, logName, logs, split>>
  /\ UNCHANGED <<active, files>> /\ UnchangedRest

\* ensure_project_row: the row is inserted if there is none; one of another
\* root is for discarding; damage it runs into is an error of the call, with
\* no rebuild (ProjectMetaError::Other), unless it is found only at Commit.
ForeignRoot(index) == index.root = "other"
EnsureRow(p) ==
  /\ InStep(p, "meta")
  /\ \/ /\ ~ForeignRoot(Mine(p))
        /\ logs' = [logs EXCEPT ![call[p].log].root = "own"]
        /\ Go(p, "walk") /\ UNCHANGED <<files, logName>>
     \/ /\ ForeignRoot(Mine(p))
        /\ IF MayDiscard(p) THEN Discards(p) ELSE Returns(p)
        /\ Closes(p) /\ UNCHANGED logs
     \/ /\ Mine(p).schema = "corrupt"
        /\ Returns(p) /\ Closes(p) /\ UNCHANGED logs
  /\ UNCHANGED <<active, dbName, made, split>> /\ UnchangedRest

-----------------------------------------------------------------------------
\* Publishing and reading.

Walk(p) ==
  /\ InStep(p, "walk")
  /\ call' = [call EXCEPT ![p].pc = "commit", ![p].seen = tree, ![p].base = Mine(p).rev]
  /\ UnchangedNames /\ UnchangedRest /\ UNCHANGED <<files, logs, split>>

\* The revision the walk was compared with is still the current one.
BaseHolds(p) == Mine(p).rev = call[p].base
Published(p) ==
  IF Mine(p).rev # 0 /\ Mine(p).content = call[p].seen THEN Mine(p)
  ELSE [Mine(p) EXCEPT !.rev = @ + 1, !.content = call[p].seen]

Commit(p) ==
  /\ InStep(p, "commit")
  /\ \/ /\ Mine(p).schema = "current" /\ BaseHolds(p)
        /\ logs' = [logs EXCEPT ![call[p].log] = Published(p)]
        /\ call' = [call EXCEPT ![p].pc = "close", ![p].rev = Published(p).rev]
        /\ UNCHANGED <<files, logName>>
     \/ /\ Mine(p).schema = "current" /\ ~BaseHolds(p)
        /\ Go(p, "walk") /\ UNCHANGED <<files, logs, logName>>
     \/ /\ Mine(p).schema = "corrupt"
        /\ IF call[p].kind = "sync" /\ MayDiscard(p) THEN Discards(p) ELSE Returns(p)
        /\ Closes(p) /\ UNCHANGED logs
  /\ UNCHANGED <<active, dbName, made, split>> /\ UnchangedRest

CloseConnection(p) ==
  /\ InStep(p, "close")
  /\ Closes(p)
  /\ IF call[p].kind = "on" THEN Returns(p)
     ELSE call' = [call EXCEPT ![p].pc = "read", ![p].file = 0, ![p].log = 0]
  /\ UNCHANGED <<active, dbName, made, logs, split>> /\ UnchangedRest

\* Wrong variant: a read that does not compare the revisions.
AnyRevision(p, index) == TRUE

\* verify_revision_matches: the current revision is the one synced.
SameRevision(p, index) == index.rev # 0 /\ index.rev = call[p].rev

\* with_verified_read: another connection, by name, in one transaction.
VerifiedRead(p) ==
  /\ InStep(p, "read")
  /\ \/ /\ SameRevision(p, NamedIndex) /\ NamedIndex.schema # "corrupt"
        /\ answer' = [answer EXCEPT ![p] = [since |-> call[p].since, got |-> NamedIndex]]
     \/ /\ ~SameRevision(p, NamedIndex) \/ NamedIndex.schema = "corrupt"
        /\ UNCHANGED answer
  /\ Returns(p)
  /\ UnchangedNames /\ UNCHANGED <<files, logs, tree, begun, split, used>>

-----------------------------------------------------------------------------
\* Turning off, and what happens to the processes and the disk.

\* remove_dir_all: the entries it lists, in any order, then the directory,
\* which must be empty by then.
RemoveEntry(p) ==
  /\ InStep(p, "remove")
  /\ \E entry \in call[p].left :
       /\ call' = [call EXCEPT ![p].left = @ \ {entry}]
       /\ dbName' = IF entry = "db" THEN 0 ELSE dbName
       /\ logName' = IF entry = "log" THEN 0 ELSE logName
  /\ UNCHANGED <<active, made, files, logs, split>> /\ UnchangedRest
RemoveDir(p) ==
  /\ InStep(p, "remove") /\ call[p].left = {}
  /\ active' = (active /\ (dbName # 0 \/ logName # 0))
  /\ Returns(p)
  /\ UNCHANGED <<dbName, logName, made, files, logs, split>> /\ UnchangedRest

EditTree ==
  /\ tree < MaxTree /\ tree' = tree + 1
  /\ UnchangedNames /\ UNCHANGED <<files, logs, begun, call, answer, split, used>>

\* A process dies: its connection is gone, its log keeps what was committed.
Die(p) ==
  /\ ~InStep(p, "idle") /\ used.faults < DbFaults
  /\ used' = [used EXCEPT !.faults = @ + 1]
  /\ Returns(p) /\ begun' = begun \ {p}
  /\ UnchangedNames /\ UNCHANGED <<files, logs, tree, answer, split>>

\* The disk damages the named database.
Damage ==
  /\ dbName # 0 /\ used.faults < DbFaults /\ files[dbName].schema # "blank"
  /\ used' = [used EXCEPT !.faults = @ + 1]
  /\ files' = [files EXCEPT ![dbName].schema = "corrupt"]
  /\ logs' = IF logName = 0 THEN logs ELSE [logs EXCEPT ![logName].schema = "corrupt"]
  /\ UnchangedNames /\ UNCHANGED <<tree, begun, call, answer, split>>

LifecycleNext ==
  \/ \E p \in Procs :
       \/ \E kind \in {"sync", "on", "off"} : StartCall(p, kind)
       \/ ResolveRoot(p) \/ MakeDir(p) \/ BeginSession(p)
       \/ OpenExisting(p) \/ UnlinkMain(p) \/ UnlinkLogs(p) \/ Create(p) \/ Connect(p)
       \/ EnsureRow(p) \/ Walk(p) \/ Commit(p) \/ CloseConnection(p) \/ VerifiedRead(p)
       \/ RemoveEntry(p) \/ RemoveDir(p) \/ Die(p)
  \/ EditTree \/ Damage

LifecycleSpec == LifecycleInit /\ [][LifecycleNext]_lifecycleVars

-----------------------------------------------------------------------------
\* Unless the log of a live database was deleted by name (observer `split`),
\* a verified read answers from an index of this build, not made for another
\* root, of a tree no older than the call: whatever was discarded, rebuilt,
\* damaged or turned off between its sync and its read (ensure_current,
\* with_verified_read).
ReadIsFresh ==
  \A p \in Procs :
    LET a == answer[p] IN
    a # NoAnswer /\ ~split =>
      a.got.content >= a.since /\ a.got.schema = "current" /\ a.got.root # "other"

-----------------------------------------------------------------------------
(* The inductive invariant behind ReadIsFresh.                              *)

OpenPcs == {"meta", "walk", "commit", "close"}
DbIndexes == [schema : Schemas, root : {"none", "own", "other"}, rev : Nat, content : Nat]
CallStates ==
  [pc : CallPcs, kind : {"none", "sync", "on", "off"}, file : 0..MaxFiles, log : 0..MaxLogs,
   base : Nat, seen : Nat, rev : Nat, since : Nat, scratch : BOOLEAN, left : SUBSET {"db", "log"}]

LifecycleShape ==
  /\ active \in BOOLEAN /\ split \in BOOLEAN /\ tree \in Nat
  /\ made \in [file : 0..MaxFiles, log : 0..MaxLogs]
  /\ dbName \in 0..made.file /\ logName \in 0..made.log
  /\ files \in [1..MaxFiles -> DbIndexes] /\ logs \in [1..MaxLogs -> DbIndexes]
  /\ call \in [Procs -> CallStates]
  /\ answer \in [Procs -> [since : Nat, got : DbIndexes]]

\* An index without a schema has no revision, and a file not made is blank.
BlankIsNew ==
  /\ \A f \in 1..MaxFiles : files[f].schema = "blank" => files[f].rev = 0
  /\ \A l \in 1..MaxLogs : logs[l].schema = "blank" => logs[l].rev = 0
  /\ \A f \in 1..MaxFiles : f > made.file => files[f] = Blank

CallHolds(p) ==
  LET c == call[p] IN
  /\ IF c.pc \in OpenPcs THEN c.file \in 1..made.file /\ c.log \in 1..made.log
                         ELSE c.file = 0 /\ c.log = 0
  /\ c.since <= tree /\ (c.pc = "commit" => c.since <= c.seen)

\* A log is of the named file if a connection of that file has it, or if the
\* next one will.
OnNamed(p) == dbName # 0 /\ call[p].file = dbName
OfNamed(l) == dbName # 0 /\ ((Shared /\ l = logName) \/ \E p \in Procs : OnNamed(p) /\ l = call[p].log)

OneLogEach ==
  /\ \A l, k \in 1..made.log : OfNamed(l) /\ OfNamed(k) => l = k
  /\ \A l \in 1..made.log, p \in Procs : OfNamed(l) /\ call[p].log = l => OnNamed(p)
  /\ \A p, q \in Procs : IsOpen(p) /\ call[q].log = call[p].log => call[q].file = call[p].file

\* A log goes on from its file.
Continues(index, log) ==
  /\ index.rev <= log.rev /\ (index.rev = log.rev => index.content = log.content)
  /\ index.root = "other" <=> log.root = "other"
  /\ index.schema # "outdated" /\ log.schema \in {"current", "corrupt"}
LogsContinue == \A l \in 1..made.log : OfNamed(l) => Continues(files[dbName], logs[l])

\* What a read by name can come upon, now and after the commits under way.
OfThisBuild(index) == index.root # "other" /\ index.schema # "outdated"
Newer(index, since) == OfThisBuild(index) /\ (index.rev # 0 => index.content >= since)
FreshAt(index, rev, since) == OfThisBuild(index) /\ (index.rev = rev => index.content >= since)

NewerOnly(since) ==
  /\ Newer(files[dbName], since)
  /\ \A l \in 1..made.log : OfNamed(l) => Newer(logs[l], since)
  /\ \A q \in Procs : OnNamed(q) /\ InStep(q, "commit") => call[q].seen >= since
FreshOnly(rev, since) ==
  /\ FreshAt(files[dbName], rev, since)
  /\ \A l \in 1..made.log : OfNamed(l) => FreshAt(logs[l], rev, since)
  /\ \A q \in Procs : OnNamed(q) /\ InStep(q, "commit") => call[q].seen >= since \/ Mine(q).rev >= rev

\* A name goes to a later file only, so a connection whose file lost the name
\* leaves to its call what was published since the call began.
LostIsRenewed(p) == IsOpen(p) /\ dbName # 0 /\ ~OnNamed(p) => NewerOnly(call[p].since)

\* A sync has its own root; what it committed is fresh, in its log and in the
\* file; and what it then reads by name is, at the revision it committed.
SyncedIsFresh(p) ==
  LET c == call[p] IN
  /\ c.kind # "on" /\ c.pc \in {"walk", "commit", "close"} => Mine(p).root # "other"
  /\ c.kind # "on" /\ c.pc = "close" =>
       /\ c.rev # 0 /\ Mine(p).rev >= c.rev
       /\ Mine(p).rev = c.rev => Mine(p).content >= c.since
       /\ OnNamed(p) /\ files[dbName].rev = c.rev => files[dbName].content >= c.since
  /\ c.pc = "read" => c.rev # 0 /\ (dbName # 0 => FreshOnly(c.rev, c.since))

ConnectionsHold ==
  OneLogEach /\ LogsContinue /\ \A p \in Procs : LostIsRenewed(p) /\ SyncedIsFresh(p)

LifecycleInv ==
  /\ LifecycleShape /\ BlankIsNew /\ \A p \in Procs : CallHolds(p)
  /\ ~split => ConnectionsHold
=============================================================================
