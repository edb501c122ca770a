--------------------------- MODULE FindingsSession ---------------------------
(***************************************************************************)
(* The lifetime of a server process's findings database                    *)
(* (src/src/project/findings_session.rs, findings_sweep.rs and the on/off  *)
(* switch of activation.rs), for one project and several processes.        *)
(*                                                                         *)
(* A process that first touches the project picks a fresh id, creates and  *)
(* locks findings-<id>.lock, and then deletes the files of every session   *)
(* whose lock it can take.  Every operating-system call on the shared      *)
(* directory is a step of its own.  File semantics are POSIX: a deleted    *)
(* file lives on for those who have it open, and a lock belongs to the     *)
(* file that was opened and not to its name.  So the file at a lock name   *)
(* is told from an earlier one of that name by its version.                *)
(***************************************************************************)
EXTENDS Naturals

CONSTANTS
  Procs,        \* server processes; one that died may start again
  Ids,          \* session ids; a uuid is drawn once only
  LockAttempts, \* LOCK_ATTEMPTS
  MaxQuits,     \* bound: processes that die and session starts that fail
  MaxOffs,      \* bound: project_control off
  None          \* no id

ASSUME SessionAssumption == /\ None \notin Ids /\ LockAttempts \in Nat \ {0}
                            /\ MaxQuits \in Nat /\ MaxOffs \in Nat

VARIABLES
  dir,       \* the activation directory exists
  lockfile,  \* per id: the version of the file named findings-<id>.lock, 0 for none
  db,        \* per id: findings-<id>.db exists
  spent,     \* the ids drawn so far
  pc,        \* per process: where its call is
  id,        \* per process: the id of its session, or of the one it is starting
  attempt,   \* per process: times it created its lock file
  held,      \* per process: the version of its own lock file it has locked, 0 for none
  todo,      \* per process: directory entries its sweep, or its off, still has to remove
  target,    \* per process: the session its sweep looks at
  handle,    \* per process: the version of target's lock file it opened, 0 for none
  quits, offs,   \* counters of the bounds
  calm       \* observer: per process, no off has run since its session began

disk == <<dir, lockfile, db>>
sweeping == <<todo, target, handle>>
vars == <<disk, spent, pc, id, attempt, held, sweeping, quits, offs, calm>>

Starting == {"open", "lock", "check", "list", "sweep", "reap_lock", "reap_db", "reap_file"}
Pcs == {"idle", "off"} \cup Starting

Files == {"lock", "db"} \X Ids
Entries == {<<"lock", i>> : i \in {j \in Ids : lockfile[j] # 0}}
             \cup {<<"db", i>> : i \in {j \in Ids : db[j]}}

TypeOK ==
  /\ dir \in BOOLEAN
  /\ lockfile \in [Ids -> 0..LockAttempts]
  /\ db \in [Ids -> BOOLEAN]
  /\ spent \subseteq Ids
  /\ pc \in [Procs -> Pcs]
  /\ id \in [Procs -> Ids \cup {None}]
  /\ attempt \in [Procs -> 0..LockAttempts]
  /\ held \in [Procs -> 0..LockAttempts]
  /\ todo \in [Procs -> SUBSET Files]
  /\ target \in [Procs -> Ids \cup {None}]
  /\ handle \in [Procs -> 0..LockAttempts]
  /\ quits \in 0..MaxQuits /\ offs \in 0..MaxOffs
  /\ calm \in [Procs -> BOOLEAN]

Init ==
  /\ dir = FALSE
  /\ lockfile = [i \in Ids |-> 0]
  /\ db = [i \in Ids |-> FALSE]
  /\ spent = {}
  /\ pc = [p \in Procs |-> "idle"]
  /\ id = [p \in Procs |-> None]
  /\ attempt = [p \in Procs |-> 0]
  /\ held = [p \in Procs |-> 0]
  /\ todo = [p \in Procs |-> {}]
  /\ target = [p \in Procs |-> None]
  /\ handle = [p \in Procs |-> 0]
  /\ quits = 0 /\ offs = 0
  /\ calm = [p \in Procs |-> FALSE]

-----------------------------------------------------------------------------
(* Locks, and the ends of a call.                                           *)

\* Version k of session i's lock file is locked by its owner or by a sweep.
Locked(i, k) ==
  /\ k # 0
  /\ \E q \in Procs : \/ id[q] = i /\ held[q] = k
                      \/ target[q] = i /\ handle[q] = k /\ pc[q] \in {"reap_db", "reap_file"}

\* The session the process has in SESSIONS.
SessionOf(p) == IF pc[p] = "idle" THEN id[p] ELSE None

Goto(p, label) == pc' = [pc EXCEPT ![p] = label]

\* The process drops its own lock handle, the sweep's, and its session.
Drop(p) ==
  /\ pc' = [pc EXCEPT ![p] = "idle"]
  /\ id' = [id EXCEPT ![p] = None]
  /\ attempt' = [attempt EXCEPT ![p] = 0]
  /\ held' = [held EXCEPT ![p] = 0]
  /\ todo' = [todo EXCEPT ![p] = {}]
  /\ target' = [target EXCEPT ![p] = None]
  /\ handle' = [handle EXCEPT ![p] = 0]

-----------------------------------------------------------------------------
(* Starting a session: begin_process_session and take_own_lock.             *)

\* The first call on the project draws an id.
Begin(p, i) ==
  /\ pc[p] = "idle" /\ id[p] = None
  /\ i \notin spent
  /\ spent' = spent \cup {i}
  /\ id' = [id EXCEPT ![p] = i]
  /\ Goto(p, "open")
  /\ calm' = [calm EXCEPT ![p] = \A q \in Procs : pc[q] # "off"]
  /\ UNCHANGED <<lockfile, db, attempt, held, sweeping, quits, offs>>

\* A tool call finds the project on (resolve_project) before it begins.
Touch(p, i) == dir /\ Begin(p, i) /\ UNCHANGED dir

\* enable creates the directory, then begins; a session it has stays as it is.
On(p) ==
  /\ dir' = TRUE
  /\ \/ \E i \in Ids : Begin(p, i)
     \/ /\ pc[p] = "idle" /\ id[p] # None
        /\ UNCHANGED <<lockfile, db, spent, pc, id, attempt, held, sweeping, quits, offs, calm>>

\* Opens the own lock file, creating it; fails when off removed the directory.
OpenOwn(p) ==
  /\ pc[p] = "open"
  /\ IF dir
       THEN /\ attempt' = [attempt EXCEPT ![p] = @ + 1]
            /\ lockfile' = [lockfile EXCEPT ![id[p]] = attempt[p] + 1]
            /\ Goto(p, "lock")
            /\ UNCHANGED <<id, held, sweeping>>
       ELSE Drop(p) /\ UNCHANGED lockfile
  /\ UNCHANGED <<dir, db, spent, quits, offs, calm>>

LockOwn(p) ==
  /\ pc[p] = "lock"
  /\ ~Locked(id[p], attempt[p])
  /\ held' = [held EXCEPT ![p] = attempt[p]]
  /\ Goto(p, "check")
  /\ UNCHANGED <<disk, spent, id, attempt, sweeping, quits, offs, calm>>

\* lock_when_free gives up after a second of looking at a held lock.
GiveUpLock(p) ==
  /\ pc[p] = "lock"
  /\ Locked(id[p], attempt[p])
  /\ Drop(p)
  /\ UNCHANGED <<disk, spent, quits, offs, calm>>

\* Wrong variant: the lock alone is trusted.
AlwaysMarked(p) == TRUE

\* The lock is worth something only while its file still has its name.
IsMarked(p) == lockfile[id[p]] # 0

\* Wrong variant: one round too many.
MayRetryOnceMore(p) == attempt[p] <= LockAttempts
MayRetry(p) == attempt[p] < LockAttempts

CheckOwn(p) ==
  /\ pc[p] = "check"
  /\ \/ /\ IsMarked(p)
        /\ Goto(p, "list")
        /\ UNCHANGED <<id, attempt, held, sweeping>>
     \/ /\ ~IsMarked(p) /\ MayRetry(p)
        /\ held' = [held EXCEPT ![p] = 0]
        /\ Goto(p, "open")
        /\ UNCHANGED <<id, attempt, sweeping>>
     \/ /\ ~IsMarked(p) /\ ~MayRetry(p)
        /\ Drop(p)
  /\ UNCHANGED <<disk, spent, quits, offs, calm>>

-----------------------------------------------------------------------------
(* The sweep: sweep_dead_sessions and reap_if_dead.                         *)

List(p) ==
  /\ pc[p] = "list"
  /\ \/ /\ dir
        /\ todo' = [todo EXCEPT ![p] = {f \in Entries : f[2] # id[p]}]
        /\ Goto(p, "sweep")
        /\ UNCHANGED <<id, attempt, held, target, handle>>
     \/ /\ ~dir
        /\ Drop(p)
  /\ UNCHANGED <<disk, spent, quits, offs, calm>>

\* Opens the lock file of one listed session, never creating it.  A session
\* without one is taken to be finished.
ReapOpen(p) ==
  /\ pc[p] = "sweep"
  /\ \E f \in todo[p] :
       /\ target' = [target EXCEPT ![p] = f[2]]
       /\ handle' = [handle EXCEPT ![p] = lockfile[f[2]]]
       /\ todo' = [todo EXCEPT ![p] = {g \in @ : g[2] # f[2]}]
       /\ Goto(p, IF lockfile[f[2]] = 0 THEN "reap_db" ELSE "reap_lock")
  /\ UNCHANGED <<disk, spent, id, attempt, held, quits, offs, calm>>

\* Wrong variants: the sweep waits for a held lock; it gives up at the first one.
WaitForLock(p) == FALSE /\ UNCHANGED <<pc, sweeping>>
StopSweep(p) ==
  /\ target' = [target EXCEPT ![p] = None]
  /\ handle' = [handle EXCEPT ![p] = 0]
  /\ Goto(p, "sweep")
  /\ todo' = [todo EXCEPT ![p] = {}]

\* What the sweep does about a lock that is held: it leaves the session alone.
WouldBlock(p) ==
  /\ target' = [target EXCEPT ![p] = None]
  /\ handle' = [handle EXCEPT ![p] = 0]
  /\ Goto(p, "sweep")
  /\ UNCHANGED todo

ReapLock(p) ==
  /\ pc[p] = "reap_lock"
  /\ IF Locked(target[p], handle[p])
       THEN WouldBlock(p)
       ELSE Goto(p, "reap_db") /\ UNCHANGED sweeping
  /\ UNCHANGED <<disk, spent, id, attempt, held, quits, offs, calm>>

ReapDb(p) ==
  /\ pc[p] = "reap_db"
  /\ db' = [db EXCEPT ![target[p]] = FALSE]
  /\ Goto(p, "reap_file")
  /\ UNCHANGED <<dir, lockfile, spent, id, attempt, held, sweeping, quits, offs, calm>>

\* remove_file goes by name: it deletes whichever version is there now.
ReapFile(p) ==
  /\ pc[p] = "reap_file"
  /\ lockfile' = [lockfile EXCEPT ![target[p]] = 0]
  /\ target' = [target EXCEPT ![p] = None]
  /\ handle' = [handle EXCEPT ![p] = 0]
  /\ Goto(p, "sweep")
  /\ UNCHANGED <<dir, db, spent, id, attempt, held, todo, quits, offs, calm>>

\* The sweep is over: the session enters SESSIONS.
Finish(p) ==
  /\ pc[p] = "sweep" /\ todo[p] = {}
  /\ Goto(p, "idle")
  /\ UNCHANGED <<disk, spent, id, attempt, held, sweeping, quits, offs, calm>>

-----------------------------------------------------------------------------
(* Using and ending a session.                                              *)

\* with_findings_write creates the database at a session's first finding; it
\* fails in a directory that is gone.
WriteFinding(p) ==
  /\ SessionOf(p) # None /\ dir
  /\ db' = [db EXCEPT ![id[p]] = TRUE]
  /\ UNCHANGED <<dir, lockfile, spent, pc, id, attempt, held, sweeping, quits, offs, calm>>

\* disable: ends the own session, then removes the directory if it is there.
Off(p) ==
  /\ pc[p] = "idle" /\ offs < MaxOffs
  /\ offs' = offs + 1
  /\ calm' = [q \in Procs |-> FALSE]
  /\ id' = [id EXCEPT ![p] = None]
  /\ attempt' = [attempt EXCEPT ![p] = 0]
  /\ held' = [held EXCEPT ![p] = 0]
  /\ IF dir THEN Goto(p, "off") /\ todo' = [todo EXCEPT ![p] = Entries]
            ELSE UNCHANGED <<pc, todo>>
  /\ UNCHANGED <<disk, spent, target, handle, quits>>

\* remove_dir_all deletes what it listed, whoever made it; a file that is gone
\* already is no error.
OffUnlink(p) ==
  /\ pc[p] = "off"
  /\ \E f \in todo[p] :
       /\ todo' = [todo EXCEPT ![p] = @ \ {f}]
       /\ \/ /\ f[1] = "lock"
             /\ lockfile' = [lockfile EXCEPT ![f[2]] = 0]
             /\ UNCHANGED db
          \/ /\ f[1] = "db"
             /\ db' = [db EXCEPT ![f[2]] = FALSE]
             /\ UNCHANGED lockfile
  /\ UNCHANGED <<dir, spent, pc, id, attempt, held, target, handle, quits, offs, calm>>

\* The directory itself goes only when it is empty; else disable fails.
OffRmdir(p) ==
  /\ pc[p] = "off" /\ todo[p] = {}
  /\ dir' = (dir /\ Entries # {})
  /\ Goto(p, "idle")
  /\ UNCHANGED <<lockfile, db, spent, id, attempt, held, sweeping, quits, offs, calm>>

\* The process dies, whatever it was doing, or a file operation of its session
\* start fails: the system releases its locks and its files stay behind.
Quit(p) ==
  /\ pc[p] # "idle" \/ id[p] # None
  /\ quits < MaxQuits
  /\ quits' = quits + 1
  /\ Drop(p)
  /\ UNCHANGED <<disk, spent, offs, calm>>

Step(p) == \/ OpenOwn(p) \/ LockOwn(p) \/ GiveUpLock(p) \/ CheckOwn(p)
           \/ List(p) \/ ReapOpen(p) \/ ReapLock(p) \/ ReapDb(p) \/ ReapFile(p) \/ Finish(p)
           \/ OffUnlink(p) \/ OffRmdir(p)

Next == \E p \in Procs :
          \/ On(p) \/ (\E i \in Ids : Touch(p, i))
          \/ WriteFinding(p) \/ Off(p) \/ Quit(p)
          \/ Step(p)

\* A call under way runs on; nobody has to call, and nobody has to die.
Fairness == \A p \in Procs : WF_vars(Step(p))

Spec == Init /\ [][Next]_vars /\ Fairness

-----------------------------------------------------------------------------
(* Properties.                                                              *)

\* A sweep deletes the findings of a session that its process is still using.
Wipes(q, p) ==
  /\ SessionOf(p) # None /\ target[q] = SessionOf(p)
  /\ pc[q] = "reap_db" /\ pc'[q] = "reap_file"
  /\ db[target[q]] /\ ~db'[target[q]]

\* "each agent session keeps its own findings and never wipes another's"
\* (findings_session.rs:105): no sweep deletes a live session's database.
NeverWipesAnothers == [][\A p, q \in Procs : ~Wipes(q, p)]_vars

\* As long as nobody turns the project off, a session that locked its file at
\* the first attempt is out of every sweep's reach: none has decided, or can
\* any longer decide, that it is dead (the checks of take_own_lock).
FirstLockProtects ==
  \A p, q \in Procs :
    SessionOf(p) # None /\ calm[p] /\ attempt[p] = 1 =>
      ~(pc[q] \in {"reap_db", "reap_file"} /\ target[q] = id[p])

\* No process owns session i any more.
Ended(i) == \A p \in Procs : id[p] # i

\* "At its first touch it deletes the files of sessions that ended"
\* (docs/how-it-works.md): once no process dies, the findings of an ended
\* session go when any process gets as far as its sweep.
EndedFindingsGo ==
  \A i \in Ids :
    (quits = MaxQuits /\ db[i] /\ Ended(i) /\ \E p \in Procs : pc[p] = "list") ~> ~db[i]

\* Every call that starts a session returns: a sweep never waits for another's
\* lock while it holds its own.
CallsReturn == \A p \in Procs : (pc[p] # "idle") ~> (pc[p] = "idle")

==============================================================================
