----------------------------- MODULE ResultOwner -----------------------------
(***************************************************************************)
(* Which process owns which files under results/                           *)
(* (src/src/store/result_store/owner.rs, result_file.rs, the open and drop *)
(* of store.rs, and the process's slot in src/src/sync/result_stores.rs).  *)
(*                                                                         *)
(* A server's session id is drawn once per process, so all its stores in a *)
(* directory use the same lock name; a store lives as long as the slot or  *)
(* a running call holds it.  A result's database has its name only from    *)
(* its creation to the unlink that follows.  Every operating-system call   *)
(* that another process can see or disturb is a step.  A lock belongs to   *)
(* the file opened, so files at a lock name are told apart by a version.   *)
(***************************************************************************)
EXTENDS Naturals, FiniteSets

CONSTANTS
  Servers,        \* server processes, each with its session id
  Dirs,           \* runtime directories of projects
  OwnerAttempts,  \* LOCK_ATTEMPTS
  MaxVersion,     \* bound: lock files made at one name
  MaxFaults,      \* bound: processes that die, and times a project is turned off
  Nowhere         \* no directory

ASSUME OwnerAssumption == /\ Nowhere \notin Dirs /\ OwnerAttempts \in Nat \ {0}
                          /\ MaxVersion \in Nat /\ MaxFaults \in Nat

VARIABLES
  present,   \* per directory: the project is on
  locks,     \* per directory and session: version of its .lock file, 0 for none
  dbs,       \* per directory and session: a .db file of it has its name
  versions,  \* per directory and session: lock files made so far
  slot,      \* per server: the store in the slot
  clone,     \* per server: the store a running call holds
  opening,   \* per server: its for_dir, which holds the slot lock
  result,    \* per server: the result file its call is making
  alive,     \* per server
  turnOffs,      \* counter of the bound
  doomed     \* observer, per server: sessions dead when it listed the directory, less those
             \* another sweep had the lock of and those with a file that could not be swept

ownerVars == <<present, locks, dbs, versions, slot, clone, opening, result,
               alive, turnOffs, doomed>>

NoStore == [dir |-> Nowhere, version |-> 0]
Stores == [dir : Dirs, version : 1..MaxVersion] \cup {NoStore}
NotOpening == [pc |-> "no", dir |-> Nowhere, version |-> 0, attempt |-> 0,
               owners |-> {}, dbs |-> {}, orphans |-> {}, target |-> "none", handle |-> 0]
NoFile == [pc |-> "no", dir |-> Nowhere]
OpeningPcs == {"no", "open", "lock", "check", "list", "list_dbs", "sweep", "lock_owner",
               "remove_dbs", "remove_lock", "remove_orphan"}
Faults == turnOffs + Cardinality({p \in Servers : ~alive[p]})

OwnerTypeOK ==
  /\ present \in [Dirs -> BOOLEAN]
  /\ locks \in [Dirs -> [Servers -> 0..MaxVersion]]
  /\ dbs \in [Dirs -> SUBSET Servers]
  /\ versions \in [Dirs -> [Servers -> 0..MaxVersion]]
  /\ slot \in [Servers -> Stores] /\ clone \in [Servers -> Stores]
  /\ \A p \in Servers : /\ opening[p].pc \in OpeningPcs
                        /\ opening[p].attempt \in 0..OwnerAttempts
                        /\ result[p].pc \in {"no", "created", "opened"}
  /\ alive \in [Servers -> BOOLEAN] /\ turnOffs \in 0..MaxFaults
  /\ doomed \in [Servers -> SUBSET Servers]

OwnerInit ==
  /\ present = [d \in Dirs |-> TRUE]
  /\ locks = [d \in Dirs |-> [p \in Servers |-> 0]]
  /\ dbs = [d \in Dirs |-> {}]
  /\ versions = [d \in Dirs |-> [p \in Servers |-> 0]]
  /\ slot = [p \in Servers |-> NoStore]
  /\ clone = [p \in Servers |-> NoStore]
  /\ opening = [p \in Servers |-> NotOpening]
  /\ result = [p \in Servers |-> NoFile]
  /\ alive = [p \in Servers |-> TRUE]
  /\ turnOffs = 0
  /\ doomed = [p \in Servers |-> {}]

\* A store of s, or its opening once it has the lock.
Owns(d, s, v) ==
  \/ slot[s] = [dir |-> d, version |-> v]
  \/ clone[s] = [dir |-> d, version |-> v]
  \/ /\ opening[s].dir = d /\ opening[s].version = v
     /\ opening[s].pc \notin {"no", "open", "lock"}

\* The sweep of q took s's lock.
Sweeps(q, d, s, v) ==
  /\ opening[q].dir = d /\ opening[q].target = s /\ opening[q].handle = v
  /\ opening[q].pc \in {"remove_dbs", "remove_lock"}

\* Version v of s's lock file in d is locked: the lock of a process goes with it.
Held(d, s, v) ==
  (alive[s] /\ Owns(d, s, v)) \/ \E q \in Servers : alive[q] /\ Sweeps(q, d, s, v)

\* The lock names after dropping a store; it is dropped with its last holder,
\* and takes the file at its lock name with it, whichever that is.
AfterDrop(s, store, others) ==
  IF store = NoStore \/ store \in others THEN locks
  ELSE [locks EXCEPT ![store.dir][s] = 0]

At(p, label) == opening[p].pc = label
MoveTo(p, label) == opening' = [opening EXCEPT ![p].pc = label]
Stop(p) == opening' = [opening EXCEPT ![p] = NotOpening]

-----------------------------------------------------------------------------
(* for_dir, and what calls do with a store.                                 *)

\* The store in the slot is for this directory: the call holds it too.
UseSlot(p) ==
  /\ alive[p] /\ At(p, "no") /\ slot[p] # NoStore /\ clone[p] = NoStore
  /\ clone' = [clone EXCEPT ![p] = slot[p]]
  /\ UNCHANGED <<present, locks, dbs, versions, slot, opening, result, alive, turnOffs, doomed>>

\* Another directory, or the first: the slot is emptied before opening.
ReplaceSlot(p, d) ==
  /\ alive[p] /\ At(p, "no") /\ slot[p].dir # d
  /\ versions[d][p] + OwnerAttempts <= MaxVersion
  /\ locks' = AfterDrop(p, slot[p], {clone[p]})
  /\ slot' = [slot EXCEPT ![p] = NoStore]
  /\ opening' = [opening EXCEPT ![p] = [NotOpening EXCEPT !.pc = "open", !.dir = d]]
  /\ UNCHANGED <<present, dbs, versions, clone, result, alive, turnOffs, doomed>>

\* ensure_private_dir and open_lock_file; Unavailable without the project.
OpenLock(p) ==
  LET d == opening[p].dir
      v == IF locks[d][p] # 0 THEN locks[d][p] ELSE versions[d][p] + 1
  IN /\ At(p, "open") /\ alive[p]
     /\ \/ /\ present[d]
           /\ locks' = [locks EXCEPT ![d][p] = v]
           /\ versions' = [versions EXCEPT ![d][p] = IF v > @ THEN v ELSE @]
           /\ opening' = [opening EXCEPT ![p].pc = "lock", ![p].version = v,
                                         ![p].attempt = @ + 1]
        \/ /\ ~present[d]
           /\ Stop(p)
           /\ UNCHANGED <<locks, versions>>
     /\ UNCHANGED <<present, dbs, slot, clone, result, alive, turnOffs, doomed>>

\* try_lock: whoever holds it, a sweep or an older store, makes this fail.
TryLock(p) ==
  LET d == opening[p].dir
  IN /\ At(p, "lock") /\ alive[p]
     /\ IF Held(d, p, opening[p].version) THEN Stop(p) ELSE MoveTo(p, "check")
     /\ UNCHANGED <<present, locks, dbs, versions, slot, clone, result, alive, turnOffs, doomed>>

\* Wrong variant: the lock taken is trusted without looking at its name.
AnyFile(p) == TRUE
NamesSameFile(p) == locks[opening[p].dir][p] = opening[p].version

\* A sweep deleted the file between open and lock: once more, three times.
CheckLock(p) ==
  /\ At(p, "check") /\ alive[p]
  /\ \/ NamesSameFile(p) /\ MoveTo(p, "list")
     \/ /\ ~NamesSameFile(p) /\ opening[p].attempt < OwnerAttempts
        /\ opening' = [opening EXCEPT ![p].pc = "open", ![p].version = 0]
     \/ /\ ~NamesSameFile(p) /\ opening[p].attempt = OwnerAttempts
        /\ Stop(p)
  /\ UNCHANGED <<present, locks, dbs, versions, slot, clone, result, alive, turnOffs, doomed>>

\* A call that makes a result: create_private_file ...
CreateFile(p) ==
  LET d == clone[p].dir
  IN /\ alive[p] /\ clone[p] # NoStore /\ result[p] = NoFile /\ present[d]
     /\ p \notin dbs[d]
     /\ dbs' = [dbs EXCEPT ![d] = @ \cup {p}]
     /\ result' = [result EXCEPT ![p] = [pc |-> "created", dir |-> d]]
     /\ UNCHANGED <<present, locks, versions, slot, clone, opening, alive, turnOffs, doomed>>

\* ... opens it by name, which fails when it is gone ...
OpenFile(p) ==
  /\ alive[p] /\ result[p].pc = "created"
  /\ result' = [result EXCEPT ![p] = IF p \in dbs[@.dir] THEN [@ EXCEPT !.pc = "opened"] ELSE NoFile]
  /\ UNCHANGED <<present, locks, dbs, versions, slot, clone, opening, alive, turnOffs, doomed>>

\* ... and unlinks it.
UnlinkFile(p) ==
  /\ alive[p] /\ result[p].pc = "opened"
  /\ dbs' = [dbs EXCEPT ![result[p].dir] = @ \ {p}]
  /\ result' = [result EXCEPT ![p] = NoFile]
  /\ UNCHANGED <<present, locks, versions, slot, clone, opening, alive, turnOffs, doomed>>

\* The call ends.
EndStoreCall(p) ==
  /\ alive[p] /\ clone[p] # NoStore /\ result[p] = NoFile
  /\ locks' = AfterDrop(p, clone[p], {slot[p]})
  /\ clone' = [clone EXCEPT ![p] = NoStore]
  /\ UNCHANGED <<present, dbs, versions, slot, opening, result, alive, turnOffs, doomed>>

-----------------------------------------------------------------------------
(* The startup sweep.                                                       *)

\* The listing is not one moment.  Lock files read before databases are the
\* order that can mislead: a file whose lock was made in between looks orphaned.
ListLocks(p) ==
  /\ At(p, "list") /\ alive[p]
  /\ opening' = [opening EXCEPT ![p].pc = "list_dbs",
                   ![p].owners = {s \in Servers \ {p} : locks[opening[p].dir][s] # 0}]
  /\ doomed' = [doomed EXCEPT ![p] = {s \in Servers : ~alive[s]}]
  /\ UNCHANGED <<present, locks, dbs, versions, slot, clone, result, alive, turnOffs>>

ListDbs(p) ==
  LET listed == dbs[opening[p].dir] \ {p}
  IN /\ At(p, "list_dbs") /\ alive[p]
     /\ opening' = [opening EXCEPT ![p].pc = "sweep", ![p].dbs = listed,
                                   ![p].orphans = listed \ opening[p].owners]
     /\ UNCHANGED <<present, locks, dbs, versions, slot, clone, result, alive, turnOffs, doomed>>

NextOwner(p) ==
  opening' = [opening EXCEPT ![p].pc = "sweep", ![p].owners = @ \ {opening[p].target},
                             ![p].target = "none", ![p].handle = 0]

\* sweep_owner opens a listed lock file; one that is gone is passed over.
OpenOwner(p, s) ==
  LET v == locks[opening[p].dir][s]
  IN /\ At(p, "sweep") /\ alive[p] /\ s \in opening[p].owners
     /\ opening' = IF v = 0
          THEN [opening EXCEPT ![p].owners = @ \ {s}]
          ELSE [opening EXCEPT ![p].pc = "lock_owner", ![p].target = s, ![p].handle = v]
     /\ doomed' = IF v = 0 THEN [doomed EXCEPT ![p] = @ \ {s}] ELSE doomed
     /\ UNCHANGED <<present, locks, dbs, versions, slot, clone, result, alive, turnOffs>>

LockOwner(p) ==
  LET held == Held(opening[p].dir, opening[p].target, opening[p].handle)
  IN /\ At(p, "lock_owner") /\ alive[p]
     /\ \/ /\ held /\ NextOwner(p)   \* WouldBlock: a live owner, or another sweep
           /\ doomed' = [doomed EXCEPT ![p] = @ \ {opening[p].target}]
        \/ ~held /\ MoveTo(p, "remove_dbs") /\ UNCHANGED doomed
     /\ UNCHANGED <<present, locks, dbs, versions, slot, clone, result, alive, turnOffs>>

\* Wrong variant: only the lock file is removed.
NoDbs(p) == {}
\* The listed files of a dead owner, and its lock file while it is held.
DeadDbs(p) == {opening[p].target} \cap opening[p].dbs

RemoveDbs(p) ==
  /\ At(p, "remove_dbs") /\ alive[p]
  /\ dbs' = [dbs EXCEPT ![opening[p].dir] = @ \ DeadDbs(p)]
  /\ MoveTo(p, "remove_lock")
  /\ UNCHANGED <<present, locks, versions, slot, clone, result, alive, turnOffs, doomed>>

RemoveLock(p) ==
  /\ At(p, "remove_lock") /\ alive[p]
  /\ locks' = [locks EXCEPT ![opening[p].dir][opening[p].target] = 0]
  /\ NextOwner(p)
  /\ UNCHANGED <<present, dbs, versions, slot, clone, result, alive, turnOffs, doomed>>

\* Wrong variant: the listing is believed.
NeverAgain(p, s) == FALSE
\* lock_exists: a live process makes its lock before its first file.
LockExists(p, s) == locks[opening[p].dir][s] # 0

CheckOrphan(p, s) ==
  /\ At(p, "sweep") /\ alive[p] /\ opening[p].owners = {} /\ s \in opening[p].orphans
  /\ opening' = IF LockExists(p, s)
       THEN [opening EXCEPT ![p].orphans = @ \ {s}]
       ELSE [opening EXCEPT ![p].pc = "remove_orphan", ![p].target = s]
  /\ UNCHANGED <<present, locks, dbs, versions, slot, clone, result, alive, turnOffs, doomed>>

NextOrphan(p) ==
  opening' = [opening EXCEPT ![p].pc = "sweep", ![p].orphans = @ \ {opening[p].target},
                             ![p].target = "none"]

RemoveOrphan(p) ==
  /\ At(p, "remove_orphan") /\ alive[p]
  /\ dbs' = [dbs EXCEPT ![opening[p].dir] = @ \ {opening[p].target}]
  /\ NextOrphan(p)
  /\ UNCHANGED <<present, locks, versions, slot, clone, result, alive, turnOffs, doomed>>

\* The directory cannot be listed: nothing is swept (SweepOutcome.failed).
ListFails(p) ==
  /\ At(p, "list") /\ alive[p]
  /\ opening' = [opening EXCEPT ![p].pc = "sweep", ![p].owners = {}, ![p].dbs = {}, ![p].orphans = {}]
  /\ doomed' = [doomed EXCEPT ![p] = {}]
  /\ UNCHANGED <<present, locks, dbs, versions, slot, clone, result, alive, turnOffs>>

\* An operation on a file of s fails: it is counted, and the sweep goes on with
\* the rest.  A lock file is removed although a database before it was not.
FileFails(p, s) ==
  /\ alive[p]
  /\ \/ /\ At(p, "sweep") /\ s \in opening[p].owners
        /\ opening' = [opening EXCEPT ![p].owners = @ \ {s}]
     \/ /\ At(p, "sweep") /\ opening[p].owners = {} /\ s \in opening[p].orphans
        /\ opening' = [opening EXCEPT ![p].orphans = @ \ {s}]
     \/ /\ opening[p].target = s
        /\ \/ (At(p, "lock_owner") \/ At(p, "remove_lock")) /\ NextOwner(p)
           \/ At(p, "remove_dbs") /\ MoveTo(p, "remove_lock")
           \/ At(p, "remove_orphan") /\ NextOrphan(p)
  /\ doomed' = [doomed EXCEPT ![p] = @ \ {s}]
  /\ UNCHANGED <<present, locks, dbs, versions, slot, clone, result, alive, turnOffs>>

\* The store is in the slot, and the call that opened it holds it; at most one
\* call at a time is followed further.
Opened(p) ==
  /\ At(p, "sweep") /\ alive[p] /\ opening[p].owners = {} /\ opening[p].orphans = {}
  /\ LET store == [dir |-> opening[p].dir, version |-> opening[p].version]
     IN /\ slot' = [slot EXCEPT ![p] = store]
        /\ clone' = [clone EXCEPT ![p] = IF @ = NoStore THEN store ELSE @]
  /\ Stop(p)
  /\ UNCHANGED <<present, locks, dbs, versions, result, alive, turnOffs, doomed>>

-----------------------------------------------------------------------------
(* The switch and the end of a process.                                     *)

\* A process turns the project off: its directory goes, with all in it.
TurnOff(d) ==
  /\ present[d] /\ Faults < MaxFaults
  /\ present' = [present EXCEPT ![d] = FALSE]
  /\ locks' = [locks EXCEPT ![d] = [s \in Servers |-> 0]]
  /\ dbs' = [dbs EXCEPT ![d] = {}]
  /\ turnOffs' = turnOffs + 1
  /\ UNCHANGED <<versions, slot, clone, opening, result, alive, doomed>>

\* p turns it on; release_dir empties its own slot of a store held for it.
TurnOn(p, d) ==
  /\ alive[p] /\ At(p, "no")
  /\ present' = [present EXCEPT ![d] = TRUE]
  /\ IF slot[p].dir = d
       THEN /\ locks' = AfterDrop(p, slot[p], {clone[p]})
            /\ slot' = [slot EXCEPT ![p] = NoStore]
       ELSE UNCHANGED <<locks, slot>>
  /\ UNCHANGED <<dbs, versions, clone, opening, result, alive, turnOffs, doomed>>

\* A killed process leaves its lock file, and its database if it had a name.
Die(p) ==
  /\ alive[p] /\ Faults < MaxFaults
  /\ alive' = [alive EXCEPT ![p] = FALSE]
  /\ UNCHANGED <<present, locks, dbs, versions, slot, clone, opening, result, turnOffs, doomed>>

Opening(p) ==
  \/ OpenLock(p)
  \/ TryLock(p)
  \/ CheckLock(p)
  \/ ListLocks(p)
  \/ ListDbs(p)
  \/ ListFails(p)
  \/ \E s \in Servers : OpenOwner(p, s) \/ CheckOrphan(p, s) \/ FileFails(p, s)
  \/ LockOwner(p)
  \/ RemoveDbs(p)
  \/ RemoveLock(p)
  \/ RemoveOrphan(p)
  \/ Opened(p)

OwnerNext ==
  \/ \E p \in Servers :
       \/ UseSlot(p)
       \/ \E d \in Dirs : ReplaceSlot(p, d) \/ TurnOn(p, d)
       \/ Opening(p)
       \/ CreateFile(p)
       \/ OpenFile(p)
       \/ UnlinkFile(p)
       \/ EndStoreCall(p)
       \/ Die(p)
  \/ \E d \in Dirs : TurnOff(d)

OwnerSpec == OwnerInit /\ [][OwnerNext]_ownerVars

-----------------------------------------------------------------------------
(* Properties.                                                              *)

\* While a server's store holds the first lock file of its name, that file
\* keeps its name: no sweep takes it from a live server, as long as nobody
\* turned a project off (take_lock, sweep_owner and the store's drop).
FirstLockMarks ==
  \A p \in Servers : turnOffs = 0 /\ alive[p] /\ slot[p].version = 1
    => locks[slot[p].dir][p] = 1

\* No sweep takes the file that a live server so marked is making: it leaves
\* its name by its owner's unlink.
LiveFilesKept ==
  [][\A p \in Servers : turnOffs' = 0 /\ alive[p] /\ result[p].pc = "created" /\ clone[p].version = 1
       => p \in dbs[result[p].dir]']_ownerVars

\* A sweep never removes a live owner's lock file (owner.rs: "it never touches
\* a live owner's files"), also after the owner opened its store anew.
SweepSparesLive ==
  [][\A p, s \in Servers : At(p, "remove_lock") /\ ~opening'[p].pc = "remove_lock" /\ alive[s]
       => slot[s] = NoStore \/ locks[slot[s].dir][s] = locks'[slot[s].dir][s]]_ownerVars

\* What servers dead when a sweep listed the directory left there is gone when
\* that sweep is done, unless an operation on a file of that server failed, or
\* another sweep had its lock meanwhile: the other one may not have listed the
\* file it then leaves for the next.  A failure for one server spares no other.
DeadFilesGo ==
  [][\A p \in Servers : slot[p] = NoStore /\ slot'[p] # NoStore =>
       \A s \in doomed[p] : s \notin dbs[slot'[p].dir] /\ locks[slot'[p].dir][s] = 0]_ownerVars

-----------------------------------------------------------------------------
(* The inductive invariant behind the three.                                *)

HeldStores == [dir : Dirs, version : Nat \ {0}]
OpeningStates ==
  [pc : OpeningPcs, dir : Dirs \cup {Nowhere}, version : Nat, attempt : Nat,
   owners : SUBSET Servers, dbs : SUBSET Servers, orphans : SUBSET Servers,
   target : Servers \cup {"none"}, handle : Nat]

OwnerShape ==
  /\ locks \in [Dirs -> [Servers -> Nat]] /\ versions \in [Dirs -> [Servers -> Nat]]
  /\ dbs \in [Dirs -> SUBSET Servers]
  /\ slot \in [Servers -> HeldStores \cup {NoStore}] /\ clone \in [Servers -> HeldStores \cup {NoStore}]
  /\ opening \in [Servers -> OpeningStates]
  /\ result \in [Servers -> [pc : {"no", "created", "opened"}, dir : Dirs \cup {Nowhere}]]
  /\ turnOffs \in Nat /\ doomed \in [Servers -> SUBSET Servers]

\* A lock name has the latest file made for it or none; nothing is of a file
\* not made yet, and a database is made after its owner's lock.
LatestIsNamed ==
  \A d \in Dirs, s \in Servers :
    /\ locks[d][s] \in {0, versions[d][s]}
    /\ s \in dbs[d] => versions[d][s] # 0
StoresAreMade(p) ==
  \A store \in {slot[p], clone[p]} : store # NoStore => store.version <= versions[store.dir][p]

\* An opening empties the slot first, takes a lock that no store of its server
\* has, and sweeps what others made.  An orphan's first lock is no longer named.
OpeningHolds(p) ==
  LET o == opening[p] IN
  /\ o.pc = "no" => o = NotOpening
  /\ o.pc # "no" => o.dir \in Dirs /\ slot[p] = NoStore
  /\ o.pc \notin {"no", "open"} => o.version # 0 /\ o.version <= versions[o.dir][p]
  /\ o.pc \notin {"no", "open", "lock"} => clone[p] # [dir |-> o.dir, version |-> o.version]
  /\ p \notin o.owners /\ p \notin o.dbs /\ o.orphans \subseteq o.dbs
  /\ \A s \in o.dbs : versions[o.dir][s] # 0
  /\ o.pc \in {"lock_owner", "remove_dbs", "remove_lock"} =>
       o.target \in o.owners /\ o.handle # 0 /\ o.handle <= versions[o.dir][o.target]
  /\ o.pc = "remove_orphan" => o.target \in o.orphans /\ locks[o.dir][o.target] # 1

\* A call makes a result in the directory of the store it holds.
ResultHolds(p) ==
  IF result[p].pc = "no" THEN result[p] = NoFile
  ELSE clone[p] # NoStore /\ result[p].dir = clone[p].dir

\* A lock is a live owner's or a live sweep's.
LockIsExclusive ==
  \A q, s \in Servers, d \in Dirs, v \in Nat :
    alive[q] /\ Sweeps(q, d, s, v) => ~ (alive[s] /\ Owns(d, s, v))

\* A first lock that is held, past the check of its name, has its name, and a
\* result that is being made under it has its own.
FirstIsNamed ==
  turnOffs = 0 => \A p \in Servers : alive[p] =>
    /\ \A store \in {slot[p], clone[p]} : store.version = 1 => locks[store.dir][p] = 1
    /\ opening[p].pc \notin {"no", "open", "lock", "check"} /\ opening[p].version = 1
         => locks[opening[p].dir][p] = 1
    /\ result[p].pc = "created" /\ clone[p].version = 1 => p \in dbs[result[p].dir]

\* What a dead server left is still on the lists of the sweep.
LeftIsListed(p) ==
  LET o == opening[p] IN
  o.pc \notin {"no", "open", "lock", "check", "list"} => p \notin doomed[p] /\ \A s \in doomed[p] :
    /\ ~alive[s] /\ (locks[o.dir][s] # 0 => s \in o.owners)
    /\ s \in dbs[o.dir] =>
         /\ o.pc # "list_dbs" => s \in o.dbs /\ s \in o.owners \cup o.orphans
         /\ ~ (o.pc = "remove_lock" /\ s = o.target)

OwnerInv ==
  /\ OwnerShape /\ LatestIsNamed /\ LockIsExclusive /\ FirstIsNamed
  /\ \A p \in Servers : StoresAreMade(p) /\ OpeningHolds(p) /\ ResultHolds(p) /\ LeftIsListed(p)
=============================================================================
