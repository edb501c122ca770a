--------------------------- MODULE ResultOwnerProofs ---------------------------
(* Proofs about ResultOwner, for every number of servers and directories: a  *)
(* lock is one process's, a first lock that is held keeps its name, and a    *)
(* sweep removes what dead servers left and nothing a so marked server makes.*)
EXTENDS ResultOwner, TLAPS

USE DEF ownerVars

-----------------------------------------------------------------------------
(* What the invariant says of one server.                                   *)

Unlocked == {"no", "open", "lock"}
Removing == {"remove_dbs", "remove_lock"}

LEMMA OwnerFields ==
  ASSUME OwnerInv, NEW p \in Servers
  PROVE  /\ opening[p] \in OpeningStates
         /\ slot[p] \in HeldStores \cup {NoStore} /\ clone[p] \in HeldStores \cup {NoStore}
         /\ result[p] \in [pc : {"no", "created", "opened"}, dir : Dirs \cup {Nowhere}]
         /\ doomed[p] \in SUBSET Servers
         /\ StoresAreMade(p) /\ OpeningHolds(p) /\ ResultHolds(p) /\ LeftIsListed(p)
BY DEF OwnerInv, OwnerShape

LEMMA StoreFields ==
  ASSUME NEW store \in HeldStores \cup {NoStore}
  PROVE  /\ store = NoStore => store.version = 0 /\ store.dir = Nowhere
         /\ store # NoStore => store.dir \in Dirs /\ store.version \in Nat /\ store.version # 0
         /\ store = [dir |-> store.dir, version |-> store.version]
BY DEF HeldStores, NoStore

\* The lock names and databases only lose entries: what is said of the sweeps
\* of others stays.
Shrinks ==
  /\ locks' \in [Dirs -> [Servers -> Nat]] /\ dbs' \in [Dirs -> SUBSET Servers]
  /\ \A d \in Dirs, s \in Servers : locks'[d][s] \in {0, locks[d][s]}
  /\ \A d \in Dirs : dbs'[d] \subseteq dbs[d]

LEMMA OthersStay ==
  ASSUME OwnerInv, Shrinks, versions' = versions, NEW q \in Servers,
         opening'[q] = opening[q], slot'[q] = slot[q], clone'[q] = clone[q]
  PROVE  StoresAreMade(q)' /\ OpeningHolds(q)'
<1>1. StoresAreMade(q) /\ OpeningHolds(q) /\ opening[q] \in OpeningStates
  BY OwnerFields
<1>2. StoresAreMade(q)'
  BY <1>1 DEF StoresAreMade
<1>3. opening[q].pc = "remove_orphan" =>
        opening[q].dir \in Dirs /\ opening[q].target \in Servers
  BY <1>1 DEF OpeningHolds, OpeningStates
<1>4. opening[q].pc = "remove_orphan" => locks'[opening[q].dir][opening[q].target] # 1
  BY <1>1, <1>3 DEF OpeningHolds, Shrinks
<1>5. OpeningHolds(q)'
  BY <1>1, <1>4 DEF OpeningHolds
<1> QED
  BY <1>2, <1>5

LEMMA ListsStay ==
  ASSUME OwnerInv, Shrinks, NEW q \in Servers,
         opening'[q] = opening[q], doomed'[q] = doomed[q],
         \A s \in Servers : alive'[s] => alive[s]
  PROVE  LeftIsListed(q)'
<1>1. LeftIsListed(q) /\ OpeningHolds(q) /\ doomed[q] \in SUBSET Servers
  BY OwnerFields
<1>2. SUFFICES ASSUME opening[q].pc \notin {"no", "open", "lock", "check", "list"}
               PROVE  LeftIsListed(q)'
  BY DEF LeftIsListed
<1>3. opening[q].dir \in Dirs
  BY <1>1, <1>2 DEF OpeningHolds
<1>4. \A s \in doomed[q] :
        /\ locks'[opening[q].dir][s] # 0 => locks[opening[q].dir][s] # 0
        /\ s \in dbs'[opening[q].dir] => s \in dbs[opening[q].dir]
        /\ ~alive[s] => ~alive'[s]
  BY <1>1, <1>3 DEF Shrinks
<1> QED
  BY <1>1, <1>2, <1>4 DEF LeftIsListed

LEMMA LatestStays ==
  ASSUME OwnerInv, Shrinks, versions' = versions
  PROVE  LatestIsNamed'
BY DEF OwnerInv, LatestIsNamed, Shrinks

LEMMA Shrunk ==
  ASSUME OwnerInv, UNCHANGED <<locks, dbs>>
  PROVE  Shrinks
BY DEF OwnerInv, OwnerShape, Shrinks

-----------------------------------------------------------------------------
(* One server's opening goes on, and files may go.                          *)

\* The new state of the opening takes no lock that another process has.
MovesTo(p, o, d) ==
  /\ opening' = [opening EXCEPT ![p] = o] /\ doomed' = [doomed EXCEPT ![p] = d]
  /\ UNCHANGED <<versions, slot, clone, result, alive, turnOffs>>
TakesNoOwnersLock(p, o) ==
  \/ o.pc \notin Removing
  \/ opening[p].pc \in Removing /\ o.dir = opening[p].dir /\ o.target = opening[p].target
     /\ o.handle = opening[p].handle
  \/ ~ (alive[o.target] /\ Owns(o.dir, o.target, o.handle))
TakesNoSweepsLock(p, o) ==
  \/ o.pc \in Unlocked
  \/ opening[p].pc \notin Unlocked /\ o.dir = opening[p].dir /\ o.version = opening[p].version
  \/ \A q \in Servers : ~ (alive[q] /\ Sweeps(q, o.dir, p, o.version))

LEMMA ExclusiveAfterMove ==
  ASSUME OwnerInv, NEW p \in Servers, NEW o \in OpeningStates, NEW d, MovesTo(p, o, d),
         p \notin o.owners, o.pc \in Removing => o.target \in o.owners,
         TakesNoOwnersLock(p, o), TakesNoSweepsLock(p, o)
  PROVE  LockIsExclusive'
<1>1. /\ opening' = [opening EXCEPT ![p] = o] /\ opening \in [Servers -> OpeningStates]
      /\ UNCHANGED <<slot, clone, alive>>
  BY DEF MovesTo, OwnerInv, OwnerShape
<1>2. opening'[p] = o /\ \A q \in Servers \ {p} : opening'[q] = opening[q]
  BY <1>1
<1> SUFFICES ASSUME NEW q \in Servers, NEW s \in Servers, NEW e \in Dirs, NEW v \in Nat,
                    alive[q], Sweeps(q, e, s, v)', alive[s], Owns(e, s, v)'
             PROVE  FALSE
  BY <1>1 DEF LockIsExclusive
<1>3. ~ (Sweeps(q, e, s, v) /\ Owns(e, s, v))
  BY DEF OwnerInv, LockIsExclusive
<1>4. CASE q = p /\ s = p
  BY <1>2, <1>4 DEF Sweeps, Removing
<1>5. CASE q = p /\ s # p
  <2>1. Owns(e, s, v)
    BY <1>1, <1>2, <1>5 DEF Owns
  <2>2. o.dir = e /\ o.target = s /\ o.handle = v /\ o.pc \in Removing
    BY <1>2, <1>5 DEF Sweeps, Removing
  <2>3. CASE /\ opening[p].pc \in Removing /\ o.dir = opening[p].dir
             /\ o.target = opening[p].target /\ o.handle = opening[p].handle
    BY <1>3, <1>5, <2>1, <2>2, <2>3 DEF Sweeps, Removing
  <2> QED
    BY <2>1, <2>2, <2>3 DEF TakesNoOwnersLock
<1>6. CASE q # p /\ s # p
  BY <1>1, <1>2, <1>3, <1>6 DEF Sweeps, Owns
<1>7. CASE q # p /\ s = p
  <2>1. Sweeps(q, e, p, v)
    BY <1>2, <1>7 DEF Sweeps
  <2>2. CASE slot[p] = [dir |-> e, version |-> v] \/ clone[p] = [dir |-> e, version |-> v]
    BY <1>3, <1>7, <2>1, <2>2 DEF Owns
  <2>3. CASE o.dir = e /\ o.version = v /\ o.pc \notin Unlocked
    <3>1. CASE opening[p].pc \notin Unlocked /\ o.dir = opening[p].dir /\ o.version = opening[p].version
      BY <1>3, <1>7, <2>1, <2>3, <3>1 DEF Owns, Unlocked
    <3> QED
      BY <2>1, <2>3, <3>1 DEF TakesNoSweepsLock
  <2> QED
    BY <1>1, <1>2, <1>7, <2>2, <2>3 DEF Owns, Unlocked
<1> QED
  BY <1>4, <1>5, <1>6, <1>7

LEMMA OpeningMoves ==
  ASSUME OwnerInv, NEW p \in Servers, NEW o \in OpeningStates, NEW d \in SUBSET Servers,
         MovesTo(p, o, d), Shrinks,
         TakesNoOwnersLock(p, o), TakesNoSweepsLock(p, o),
         OpeningHolds(p)', LeftIsListed(p)', FirstIsNamed'
  PROVE  OwnerInv'
<1>1. /\ opening' = [opening EXCEPT ![p] = o] /\ doomed' = [doomed EXCEPT ![p] = d]
      /\ UNCHANGED <<versions, slot, clone, result, alive, turnOffs>>
  BY DEF MovesTo
<1>2. OwnerShape'
  BY <1>1 DEF OwnerInv, OwnerShape, Shrinks
<1>3. /\ opening'[p] = o /\ doomed'[p] = d
      /\ \A q \in Servers \ {p} : opening'[q] = opening[q] /\ doomed'[q] = doomed[q]
  BY <1>1 DEF OwnerInv, OwnerShape
<1>4. \A q \in Servers : OpeningHolds(q)'
  BY <1>1, <1>3, OthersStay
<1>5. \A q \in Servers : LeftIsListed(q)'
  BY <1>1, <1>3, ListsStay
<1>6. \A q \in Servers : StoresAreMade(q)' /\ ResultHolds(q)'
  <2> TAKE q \in Servers
  <2>1. StoresAreMade(q) /\ ResultHolds(q)
    BY OwnerFields
  <2> QED
    BY <1>1, <2>1 DEF StoresAreMade, ResultHolds
<1>7. LatestIsNamed'
  BY <1>1, LatestStays
<1>8. LockIsExclusive'
  <2>1. p \notin o.owners /\ (o.pc \in Removing => o.target \in o.owners)
    BY <1>3 DEF OpeningHolds, Removing
  <2> QED
    BY <2>1, ExclusiveAfterMove
<1> QED
  BY <1>2, <1>4, <1>5, <1>6, <1>7, <1>8 DEF OwnerInv

\* When no file goes, a first lock past its check is all there is to say.
LEMMA FirstAfterMove ==
  ASSUME OwnerInv, NEW p \in Servers, NEW o \in OpeningStates, NEW d, MovesTo(p, o, d),
         UNCHANGED <<locks, dbs>>,
         o.pc \notin Unlocked \cup {"check"} /\ o.version = 1 =>
           \/ locks[o.dir][p] = 1
           \/ /\ opening[p].pc \notin Unlocked \cup {"check"}
              /\ opening[p].version = 1 /\ opening[p].dir = o.dir
  PROVE  FirstIsNamed'
<1>1. /\ opening'[p] = o /\ \A q \in Servers \ {p} : opening'[q] = opening[q]
      /\ UNCHANGED <<slot, clone, result, alive, turnOffs>>
  BY DEF MovesTo, OwnerInv, OwnerShape
<1> SUFFICES ASSUME turnOffs = 0, NEW q \in Servers, alive[q]
             PROVE  /\ \A store \in {slot[q], clone[q]} : store.version = 1 => locks[store.dir][q] = 1
                    /\ opening'[q].pc \notin {"no", "open", "lock", "check"} /\ opening'[q].version = 1
                         => locks[opening'[q].dir][q] = 1
                    /\ result[q].pc = "created" /\ clone[q].version = 1 => q \in dbs[result[q].dir]
  BY <1>1 DEF FirstIsNamed
<1>2. /\ \A store \in {slot[q], clone[q]} : store.version = 1 => locks[store.dir][q] = 1
      /\ opening[q].pc \notin {"no", "open", "lock", "check"} /\ opening[q].version = 1
           => locks[opening[q].dir][q] = 1
      /\ result[q].pc = "created" /\ clone[q].version = 1 => q \in dbs[result[q].dir]
  BY DEF OwnerInv, FirstIsNamed
<1>3. opening'[q].pc \notin {"no", "open", "lock", "check"} /\ opening'[q].version = 1
        => locks[opening'[q].dir][q] = 1
  <2>1. CASE q = p
    BY <1>1, <1>2, <2>1 DEF Unlocked
  <2>2. CASE q # p
    BY <1>1, <1>2, <2>2
  <2> QED
    BY <2>1, <2>2
<1> QED
  BY <1>2, <1>3

LEMMA PureMove ==
  ASSUME OwnerInv, NEW p \in Servers, NEW o \in OpeningStates, NEW d \in SUBSET Servers,
         MovesTo(p, o, d), UNCHANGED <<locks, dbs>>,
         TakesNoOwnersLock(p, o), TakesNoSweepsLock(p, o),
         OpeningHolds(p)', LeftIsListed(p)',
         o.pc \notin Unlocked \cup {"check"} /\ o.version = 1 =>
           \/ locks[o.dir][p] = 1
           \/ /\ opening[p].pc \notin Unlocked \cup {"check"}
              /\ opening[p].version = 1 /\ opening[p].dir = o.dir
  PROVE  OwnerInv'
BY Shrunk, FirstAfterMove, OpeningMoves

\* The observer of a server is as it was.
LEMMA SameDoomed ==
  ASSUME OwnerInv, NEW p \in Servers
  PROVE  doomed = [doomed EXCEPT ![p] = doomed[p]]
BY DEF OwnerInv, OwnerShape

\* An opening that stops is forgotten.
LEMMA StopKeeps ==
  ASSUME OwnerInv, NEW p \in Servers, Stop(p),
         UNCHANGED <<locks, dbs, versions, slot, clone, result, alive, turnOffs, doomed>>
  PROVE  OwnerInv'
<1> DEFINE o == NotOpening
<1>1. /\ o \in OpeningStates /\ o.pc = "no" /\ o.owners = {} /\ o.dbs = {} /\ o.orphans = {}
  BY DEF NotOpening, OpeningStates, OpeningPcs
<1>2. opening' = [opening EXCEPT ![p] = o]
  BY DEF Stop
<1>3. opening'[p] = o
  BY <1>2 DEF OwnerInv, OwnerShape
<1> HIDE DEF o
<1>4. OpeningHolds(p)' /\ LeftIsListed(p)'
  BY <1>1, <1>3 DEF OpeningHolds, LeftIsListed, o
<1>5. MovesTo(p, o, doomed[p]) /\ doomed[p] \in SUBSET Servers
  BY <1>2, SameDoomed, OwnerFields DEF MovesTo
<1>6. TakesNoOwnersLock(p, o) /\ TakesNoSweepsLock(p, o)
  BY <1>1 DEF TakesNoOwnersLock, TakesNoSweepsLock, Unlocked, Removing
<1> QED
  BY <1>1, <1>4, <1>5, <1>6, PureMove DEF Unlocked

\* try_lock: only the lock of a file nobody has locked is taken.
LEMMA TryLockKeeps ==
  ASSUME OwnerInv, NEW p \in Servers, TryLock(p)
  PROVE  OwnerInv'
<1> DEFINE o == [opening[p] EXCEPT !.pc = "check"]
<1>1. opening[p] \in OpeningStates /\ opening[p].pc = "lock" /\ OpeningHolds(p) /\ alive[p]
  BY OwnerFields DEF TryLock, At
<1>2. CASE Stop(p)
  BY <1>2, StopKeeps DEF TryLock
<1>3. CASE ~Held(opening[p].dir, p, opening[p].version) /\ MoveTo(p, "check")
  <2>1. /\ o \in OpeningStates /\ o.pc = "check" /\ o.dir = opening[p].dir
        /\ o.version = opening[p].version /\ o.owners = opening[p].owners /\ o.dbs = opening[p].dbs
        /\ o.orphans = opening[p].orphans
    BY <1>1 DEF OpeningStates, OpeningPcs
  <2>2. opening' = [opening EXCEPT ![p] = o] /\ opening'[p] = o
    BY <1>3 DEF MoveTo, OwnerInv, OwnerShape
  <2> HIDE DEF o
  <2>3. UNCHANGED <<locks, dbs, versions, slot, clone, result, alive, turnOffs, doomed>>
    BY DEF TryLock
  <2>4. MovesTo(p, o, doomed[p]) /\ doomed[p] \in SUBSET Servers
    BY <2>2, <2>3, SameDoomed, OwnerFields DEF MovesTo
  <2>5. clone[p] # [dir |-> o.dir, version |-> o.version]
    BY <1>1, <1>3, <2>1 DEF Held, Owns
  <2>6. OpeningHolds(p)' /\ LeftIsListed(p)'
    BY <1>1, <2>1, <2>2, <2>3, <2>5 DEF OpeningHolds, LeftIsListed
  <2>7. TakesNoOwnersLock(p, o) /\ TakesNoSweepsLock(p, o)
    BY <1>3, <2>1 DEF TakesNoOwnersLock, TakesNoSweepsLock, Removing, Held
  <2> QED
    BY <2>1, <2>3, <2>4, <2>6, <2>7, PureMove
<1> QED
  BY <1>2, <1>3 DEF TryLock

\* The lock taken is that of the file that has the name, or another is tried.
LEMMA CheckLockKeeps ==
  ASSUME OwnerInv, NEW p \in Servers, CheckLock(p)
  PROVE  OwnerInv'
<1>1. opening[p] \in OpeningStates /\ opening[p].pc = "check" /\ OpeningHolds(p) /\ alive[p]
  BY OwnerFields DEF CheckLock, At
<1>2. UNCHANGED <<locks, dbs, versions, slot, clone, result, alive, turnOffs, doomed>>
  BY DEF CheckLock
<1>3. CASE NamesSameFile(p) /\ MoveTo(p, "list")
  <2> DEFINE o == [opening[p] EXCEPT !.pc = "list"]
  <2>1. /\ o \in OpeningStates /\ o.pc = "list" /\ o.dir = opening[p].dir
        /\ o.version = opening[p].version /\ o.owners = opening[p].owners /\ o.dbs = opening[p].dbs
        /\ o.orphans = opening[p].orphans
    BY <1>1 DEF OpeningStates, OpeningPcs
  <2>2. opening' = [opening EXCEPT ![p] = o] /\ opening'[p] = o
    BY <1>3 DEF MoveTo, OwnerInv, OwnerShape
  <2> HIDE DEF o
  <2>3. MovesTo(p, o, doomed[p]) /\ doomed[p] \in SUBSET Servers
    BY <1>2, <2>2, SameDoomed, OwnerFields DEF MovesTo
  <2>4. OpeningHolds(p)' /\ LeftIsListed(p)'
    BY <1>1, <1>2, <2>1, <2>2 DEF OpeningHolds, LeftIsListed
  <2>5. TakesNoOwnersLock(p, o) /\ TakesNoSweepsLock(p, o)
    BY <1>1, <2>1 DEF TakesNoOwnersLock, TakesNoSweepsLock, Removing, Unlocked
  <2>6. o.version = 1 => locks[o.dir][p] = 1
    BY <1>3, <2>1 DEF NamesSameFile
  <2> QED
    BY <1>2, <2>1, <2>3, <2>4, <2>5, <2>6, PureMove
<1>4. CASE opening' = [opening EXCEPT ![p].pc = "open", ![p].version = 0]
  <2> DEFINE o == [opening[p] EXCEPT !.pc = "open", !.version = 0]
  <2>1. /\ o \in OpeningStates /\ o.pc = "open" /\ o.dir = opening[p].dir
        /\ o.owners = opening[p].owners /\ o.dbs = opening[p].dbs /\ o.orphans = opening[p].orphans
    BY <1>1 DEF OpeningStates, OpeningPcs
  <2>2. opening' = [opening EXCEPT ![p] = o] /\ opening'[p] = o
    BY <1>4 DEF OwnerInv, OwnerShape
  <2> HIDE DEF o
  <2>3. MovesTo(p, o, doomed[p]) /\ doomed[p] \in SUBSET Servers
    BY <1>2, <2>2, SameDoomed, OwnerFields DEF MovesTo
  <2>4. OpeningHolds(p)' /\ LeftIsListed(p)'
    BY <1>1, <1>2, <2>1, <2>2 DEF OpeningHolds, LeftIsListed
  <2>5. TakesNoOwnersLock(p, o) /\ TakesNoSweepsLock(p, o)
    BY <2>1 DEF TakesNoOwnersLock, TakesNoSweepsLock, Removing, Unlocked
  <2> QED
    BY <1>2, <2>1, <2>3, <2>4, <2>5, PureMove DEF Unlocked
<1>5. CASE Stop(p)
  BY <1>2, <1>5, StopKeeps
<1> QED
  BY <1>3, <1>4, <1>5 DEF CheckLock

-----------------------------------------------------------------------------
(* The sweep.                                                               *)

\* The owners listed are all that have a lock; the dead keep none but these.
LEMMA ListLocksKeeps ==
  ASSUME OwnerInv, NEW p \in Servers, ListLocks(p)
  PROVE  OwnerInv'
<1> DEFINE own == {s \in Servers \ {p} : locks[opening[p].dir][s] # 0}
           o == [opening[p] EXCEPT !.pc = "list_dbs", !.owners = own]
           d == {s \in Servers : ~alive[s]}
<1>1. opening[p] \in OpeningStates /\ opening[p].pc = "list" /\ OpeningHolds(p) /\ alive[p]
  BY OwnerFields DEF ListLocks, At
<1>2. /\ o \in OpeningStates /\ o.pc = "list_dbs" /\ o.dir = opening[p].dir
      /\ o.version = opening[p].version /\ o.owners = own /\ o.dbs = opening[p].dbs
      /\ o.orphans = opening[p].orphans
  BY <1>1 DEF OpeningStates, OpeningPcs
<1>3. opening' = [opening EXCEPT ![p] = o] /\ opening'[p] = o
  BY DEF ListLocks, OwnerInv, OwnerShape
<1>4. doomed' = [doomed EXCEPT ![p] = d] /\ doomed'[p] = d /\ d \in SUBSET Servers
  BY DEF ListLocks, OwnerInv, OwnerShape
<1> HIDE DEF o
<1>5. UNCHANGED <<locks, dbs, versions, slot, clone, result, alive, turnOffs>>
  BY DEF ListLocks
<1>6. MovesTo(p, o, d)
  BY <1>3, <1>4, <1>5 DEF MovesTo
<1>7. OpeningHolds(p)'
  BY <1>1, <1>2, <1>3, <1>5 DEF OpeningHolds
<1>8. LeftIsListed(p)'
  BY <1>1, <1>2, <1>3, <1>4, <1>5 DEF LeftIsListed
<1>9. TakesNoOwnersLock(p, o) /\ TakesNoSweepsLock(p, o)
  BY <1>1, <1>2 DEF TakesNoOwnersLock, TakesNoSweepsLock, Removing, Unlocked
<1> HIDE DEF d, own
<1> QED
  BY <1>1, <1>2, <1>4, <1>5, <1>6, <1>7, <1>8, <1>9, PureMove DEF Unlocked

LEMMA ListDbsKeeps ==
  ASSUME OwnerInv, NEW p \in Servers, ListDbs(p)
  PROVE  OwnerInv'
<1> DEFINE listed == dbs[opening[p].dir] \ {p}
           o == [opening[p] EXCEPT !.pc = "sweep", !.dbs = listed,
                                   !.orphans = listed \ opening[p].owners]
<1>1. /\ opening[p] \in OpeningStates /\ opening[p].pc = "list_dbs"
      /\ OpeningHolds(p) /\ LeftIsListed(p) /\ alive[p]
  BY OwnerFields DEF ListDbs, At
<1>2. opening[p].dir \in Dirs /\ listed \in SUBSET Servers
  BY <1>1 DEF OpeningHolds, OwnerInv, OwnerShape
<1>3. \A s \in listed : versions[opening[p].dir][s] # 0
  BY <1>2 DEF OwnerInv, LatestIsNamed
<1>4. /\ o \in OpeningStates /\ o.pc = "sweep" /\ o.dir = opening[p].dir
      /\ o.version = opening[p].version /\ o.owners = opening[p].owners /\ o.dbs = listed
      /\ o.orphans = listed \ opening[p].owners
  BY <1>1, <1>2 DEF OpeningStates, OpeningPcs
<1>5. opening' = [opening EXCEPT ![p] = o] /\ opening'[p] = o
  BY DEF ListDbs, OwnerInv, OwnerShape
<1> HIDE DEF o
<1>6. UNCHANGED <<locks, dbs, versions, slot, clone, result, alive, turnOffs, doomed>>
  BY DEF ListDbs
<1>7. MovesTo(p, o, doomed[p]) /\ doomed[p] \in SUBSET Servers
  BY <1>5, <1>6, SameDoomed, OwnerFields DEF MovesTo
<1>8. OpeningHolds(p)'
  BY <1>1, <1>3, <1>4, <1>5, <1>6 DEF OpeningHolds
<1>9. LeftIsListed(p)'
  BY <1>1, <1>4, <1>5, <1>6 DEF LeftIsListed
<1>10. TakesNoOwnersLock(p, o) /\ TakesNoSweepsLock(p, o)
  BY <1>1, <1>4 DEF TakesNoOwnersLock, TakesNoSweepsLock, Removing, Unlocked
<1> HIDE DEF listed
<1> QED
  BY <1>1, <1>4, <1>6, <1>7, <1>8, <1>9, <1>10, PureMove DEF Unlocked

\* A lock file that is gone is another sweep's: what it left is not ours.
LEMMA OpenOwnerKeeps ==
  ASSUME OwnerInv, NEW p \in Servers, NEW s \in Servers, OpenOwner(p, s)
  PROVE  OwnerInv'
<1> DEFINE v == locks[opening[p].dir][s]
<1>1. /\ opening[p] \in OpeningStates /\ opening[p].pc = "sweep" /\ s \in opening[p].owners
      /\ OpeningHolds(p) /\ LeftIsListed(p) /\ alive[p] /\ doomed[p] \in SUBSET Servers
  BY OwnerFields DEF OpenOwner, At
<1>2. UNCHANGED <<locks, dbs, versions, slot, clone, result, alive, turnOffs>>
  BY DEF OpenOwner
<1>3. opening[p].dir \in Dirs
  BY <1>1 DEF OpeningHolds
<1>4. v \in Nat /\ v \in {0, versions[opening[p].dir][s]} /\ versions[opening[p].dir][s] \in Nat
  BY <1>3 DEF OwnerInv, OwnerShape, LatestIsNamed
<1>5. CASE v = 0
  <2> DEFINE o == [opening[p] EXCEPT !.owners = @ \ {s}]
  <2>1. /\ o \in OpeningStates /\ o.pc = "sweep" /\ o.dir = opening[p].dir
        /\ o.version = opening[p].version /\ o.owners = opening[p].owners \ {s}
        /\ o.dbs = opening[p].dbs /\ o.orphans = opening[p].orphans
    BY <1>1 DEF OpeningStates, OpeningPcs
  <2>2. opening' = [opening EXCEPT ![p] = o] /\ opening'[p] = o
    BY <1>5 DEF OpenOwner, OwnerInv, OwnerShape
  <2>3. doomed' = [doomed EXCEPT ![p] = doomed[p] \ {s}] /\ doomed'[p] = doomed[p] \ {s}
    BY <1>5 DEF OpenOwner, OwnerInv, OwnerShape
  <2> HIDE DEF o
  <2>4. MovesTo(p, o, doomed[p] \ {s}) /\ doomed[p] \ {s} \in SUBSET Servers
    BY <1>1, <1>2, <2>2, <2>3 DEF MovesTo
  <2>5. OpeningHolds(p)'
    BY <1>1, <1>2, <2>1, <2>2 DEF OpeningHolds
  <2>6. LeftIsListed(p)'
    BY <1>1, <1>2, <2>1, <2>2, <2>3 DEF LeftIsListed
  <2>7. TakesNoOwnersLock(p, o) /\ TakesNoSweepsLock(p, o)
    BY <1>1, <2>1 DEF TakesNoOwnersLock, TakesNoSweepsLock, Removing, Unlocked
  <2> QED
    BY <1>1, <1>2, <2>1, <2>4, <2>5, <2>6, <2>7, PureMove DEF Unlocked
<1>6. CASE v # 0
  <2> DEFINE o == [opening[p] EXCEPT !.pc = "lock_owner", !.target = s, !.handle = v]
  <2>1. /\ o \in OpeningStates /\ o.pc = "lock_owner" /\ o.dir = opening[p].dir
        /\ o.version = opening[p].version /\ o.owners = opening[p].owners
        /\ o.dbs = opening[p].dbs /\ o.orphans = opening[p].orphans
        /\ o.target = s /\ o.handle = v
    BY <1>1, <1>4 DEF OpeningStates, OpeningPcs
  <2>2. opening' = [opening EXCEPT ![p] = o] /\ opening'[p] = o
    BY <1>6 DEF OpenOwner, OwnerInv, OwnerShape
  <2>3. doomed' = doomed
    BY <1>6 DEF OpenOwner
  <2> HIDE DEF o
  <2>4. MovesTo(p, o, doomed[p])
    BY <1>2, <2>2, <2>3, SameDoomed DEF MovesTo
  <2>5. v # 0 /\ v <= versions[opening[p].dir][s]
    BY <1>4, <1>6
  <2>6. OpeningHolds(p)'
    BY <1>1, <1>2, <2>1, <2>2, <2>5 DEF OpeningHolds
  <2>7. LeftIsListed(p)'
    BY <1>1, <1>2, <2>1, <2>2, <2>3 DEF LeftIsListed
  <2>8. TakesNoOwnersLock(p, o) /\ TakesNoSweepsLock(p, o)
    BY <1>1, <2>1 DEF TakesNoOwnersLock, TakesNoSweepsLock, Removing, Unlocked
  <2> HIDE DEF v
  <2> QED
    BY <1>1, <1>2, <2>1, <2>4, <2>6, <2>7, <2>8, PureMove DEF Unlocked
<1> QED
  BY <1>5, <1>6

\* A sweep that has a lock has not the first lock of a live server: the only
\* file ever made at its name is the one the server itself has locked.
LEMMA SweptIsNotMarked ==
  ASSUME OwnerInv, turnOffs = 0, NEW p \in Servers, alive[p], opening[p].pc \in Removing,
         NEW d, d = opening[p].dir, NEW t, t = opening[p].target, alive[t]
  PROVE  /\ t \in Servers /\ d \in Dirs
         /\ slot[t] # [dir |-> d, version |-> 1] /\ clone[t] # [dir |-> d, version |-> 1]
         /\ ~ (/\ opening[t].pc \notin {"no", "open", "lock", "check"}
               /\ opening[t].version = 1 /\ opening[t].dir = d)
<1> DEFINE v == opening[p].handle
<1>1. OpeningHolds(p) /\ opening[p] \in OpeningStates
  BY OwnerFields
<1>2. t \in opening[p].owners /\ d \in Dirs /\ v # 0 /\ v <= versions[d][t]
  BY <1>1 DEF OpeningHolds, Removing
<1>3. t \in Servers /\ v \in Nat
  BY <1>1, <1>2 DEF OpeningStates
<1>4. locks[d][t] \in {0, versions[d][t]} /\ versions[d][t] \in Nat
  BY <1>2, <1>3 DEF OwnerInv, OwnerShape, LatestIsNamed
<1>5. locks[d][t] = 1 => v = 1
  BY <1>2, <1>3, <1>4
<1>6. ~Owns(d, t, v)
  <2>1. Sweeps(p, d, t, v)
    BY DEF Sweeps, Removing
  <2> QED
    BY <2>1, <1>2, <1>3 DEF OwnerInv, LockIsExclusive
<1>7. ASSUME Owns(d, t, 1), locks[d][t] = 1
      PROVE  FALSE
  BY <1>5, <1>6, <1>7
<1>8. /\ \A store \in {slot[t], clone[t]} : store.version = 1 => locks[store.dir][t] = 1
      /\ opening[t].pc \notin {"no", "open", "lock", "check"} /\ opening[t].version = 1
           => locks[opening[t].dir][t] = 1
  BY <1>3 DEF OwnerInv, FirstIsNamed
<1>9. slot[t] # [dir |-> d, version |-> 1]
  BY <1>7, <1>8 DEF Owns
<1>10. clone[t] # [dir |-> d, version |-> 1]
  BY <1>7, <1>8 DEF Owns
<1>11. ~ (/\ opening[t].pc \notin {"no", "open", "lock", "check"}
          /\ opening[t].version = 1 /\ opening[t].dir = d)
  BY <1>7, <1>8 DEF Owns
<1> HIDE DEF v
<1> QED
  BY <1>2, <1>3, <1>9, <1>10, <1>11

\* What FirstIsNamed says of one server, and that it is enough.
FirstOf(q) ==
  /\ \A store \in {slot[q], clone[q]} : store.version = 1 => locks[store.dir][q] = 1
  /\ opening[q].pc \notin {"no", "open", "lock", "check"} /\ opening[q].version = 1
       => locks[opening[q].dir][q] = 1
  /\ result[q].pc = "created" /\ clone[q].version = 1 => q \in dbs[result[q].dir]

LEMMA FirstOfEach ==
  ASSUME OwnerInv, turnOffs = 0, NEW q \in Servers, alive[q]
  PROVE  FirstOf(q)
BY DEF OwnerInv, FirstIsNamed, FirstOf

LEMMA FirstFromEach ==
  ASSUME turnOffs' = 0 => \A q \in Servers : alive'[q] => FirstOf(q)'
  PROVE  FirstIsNamed'
BY DEF FirstIsNamed, FirstOf

\* The answer of the lock is final: whoever has it was there first.
LEMMA LockOwnerKeeps ==
  ASSUME OwnerInv, NEW p \in Servers, LockOwner(p)
  PROVE  OwnerInv'
<1> DEFINE t == opening[p].target
           v == opening[p].handle
<1>1. /\ opening[p] \in OpeningStates /\ opening[p].pc = "lock_owner" /\ t \in opening[p].owners
      /\ OpeningHolds(p) /\ LeftIsListed(p) /\ alive[p] /\ doomed[p] \in SUBSET Servers
  BY OwnerFields DEF LockOwner, At, OpeningHolds
<1>2. UNCHANGED <<locks, dbs, versions, slot, clone, result, alive, turnOffs>>
  BY DEF LockOwner
<1>3. CASE NextOwner(p) /\ doomed' = [doomed EXCEPT ![p] = @ \ {t}]
  <2> DEFINE o == [opening[p] EXCEPT !.pc = "sweep", !.owners = @ \ {t}, !.target = "none", !.handle = 0]
  <2>1. /\ o \in OpeningStates /\ o.pc = "sweep" /\ o.dir = opening[p].dir
        /\ o.version = opening[p].version /\ o.owners = opening[p].owners \ {t}
        /\ o.dbs = opening[p].dbs /\ o.orphans = opening[p].orphans
    BY <1>1 DEF OpeningStates, OpeningPcs
  <2>2. opening' = [opening EXCEPT ![p] = o] /\ opening'[p] = o
    BY <1>3 DEF NextOwner, OwnerInv, OwnerShape
  <2>3. doomed' = [doomed EXCEPT ![p] = doomed[p] \ {t}] /\ doomed'[p] = doomed[p] \ {t}
    BY <1>3 DEF OwnerInv, OwnerShape
  <2> HIDE DEF o
  <2>4. MovesTo(p, o, doomed[p] \ {t}) /\ doomed[p] \ {t} \in SUBSET Servers
    BY <1>1, <1>2, <2>2, <2>3 DEF MovesTo
  <2>5. OpeningHolds(p)'
    BY <1>1, <1>2, <2>1, <2>2 DEF OpeningHolds
  <2>6. LeftIsListed(p)'
    BY <1>1, <1>2, <2>1, <2>2, <2>3 DEF LeftIsListed
  <2>7. TakesNoOwnersLock(p, o) /\ TakesNoSweepsLock(p, o)
    BY <1>1, <2>1 DEF TakesNoOwnersLock, TakesNoSweepsLock, Removing, Unlocked
  <2> HIDE DEF t
  <2> QED
    BY <1>1, <1>2, <2>1, <2>4, <2>5, <2>6, <2>7, PureMove DEF Unlocked
<1>4. CASE ~Held(opening[p].dir, t, v) /\ MoveTo(p, "remove_dbs") /\ UNCHANGED doomed
  <2> DEFINE o == [opening[p] EXCEPT !.pc = "remove_dbs"]
  <2>1. /\ o \in OpeningStates /\ o.pc = "remove_dbs" /\ o.dir = opening[p].dir
        /\ o.version = opening[p].version /\ o.owners = opening[p].owners
        /\ o.dbs = opening[p].dbs /\ o.orphans = opening[p].orphans
        /\ o.target = t /\ o.handle = v
    BY <1>1 DEF OpeningStates, OpeningPcs
  <2>2. opening' = [opening EXCEPT ![p] = o] /\ opening'[p] = o
    BY <1>4 DEF MoveTo, OwnerInv, OwnerShape
  <2> HIDE DEF o
  <2>3. MovesTo(p, o, doomed[p])
    BY <1>2, <1>4, <2>2, SameDoomed DEF MovesTo
  <2>4. OpeningHolds(p)'
    BY <1>1, <1>2, <2>1, <2>2 DEF OpeningHolds
  <2>5. LeftIsListed(p)'
    BY <1>1, <1>2, <1>4, <2>1, <2>2 DEF LeftIsListed
  <2>6. TakesNoOwnersLock(p, o) /\ TakesNoSweepsLock(p, o)
    BY <1>1, <1>4, <2>1 DEF TakesNoOwnersLock, TakesNoSweepsLock, Unlocked, Held
  <2> HIDE DEF t, v
  <2> QED
    BY <1>1, <1>2, <2>1, <2>3, <2>4, <2>5, <2>6, PureMove DEF Unlocked
<1> QED
  BY <1>3, <1>4 DEF LockOwner

\* The databases of a server whose lock is held go ...
LEMMA RemoveDbsKeeps ==
  ASSUME OwnerInv, NEW p \in Servers, RemoveDbs(p)
  PROVE  OwnerInv'
<1> DEFINE d == opening[p].dir
           t == opening[p].target
           o == [opening[p] EXCEPT !.pc = "remove_lock"]
<1>1. /\ opening[p] \in OpeningStates /\ opening[p].pc = "remove_dbs" /\ t \in opening[p].owners
      /\ OpeningHolds(p) /\ LeftIsListed(p) /\ alive[p] /\ doomed[p] \in SUBSET Servers /\ d \in Dirs
  BY OwnerFields DEF RemoveDbs, At, OpeningHolds
<1>2. /\ UNCHANGED <<locks, versions, slot, clone, result, alive, turnOffs, doomed>>
      /\ dbs' = [dbs EXCEPT ![d] = @ \ ({t} \cap opening[p].dbs)]
  BY DEF RemoveDbs, DeadDbs
<1>3. /\ dbs' \in [Dirs -> SUBSET Servers] /\ dbs'[d] = dbs[d] \ ({t} \cap opening[p].dbs)
      /\ \A e \in Dirs \ {d} : dbs'[e] = dbs[e]
  BY <1>1, <1>2 DEF OwnerInv, OwnerShape
<1>4. Shrinks
  BY <1>2, <1>3 DEF Shrinks, OwnerInv, OwnerShape
<1>5. /\ o \in OpeningStates /\ o.pc = "remove_lock" /\ o.dir = d
      /\ o.version = opening[p].version /\ o.owners = opening[p].owners
      /\ o.dbs = opening[p].dbs /\ o.orphans = opening[p].orphans
      /\ o.target = t /\ o.handle = opening[p].handle
  BY <1>1 DEF OpeningStates, OpeningPcs
<1>6. opening' = [opening EXCEPT ![p] = o] /\ opening'[p] = o
      /\ \A q \in Servers \ {p} : opening'[q] = opening[q]
  BY DEF RemoveDbs, MoveTo, OwnerInv, OwnerShape
<1> HIDE DEF o
<1>7. MovesTo(p, o, doomed[p])
  BY <1>2, <1>6, SameDoomed DEF MovesTo
<1>8. OpeningHolds(p)'
  BY <1>1, <1>2, <1>5, <1>6 DEF OpeningHolds
<1>9. LeftIsListed(p)'
  BY <1>1, <1>2, <1>3, <1>5, <1>6 DEF LeftIsListed
<1>10. TakesNoOwnersLock(p, o) /\ TakesNoSweepsLock(p, o)
  BY <1>1, <1>5 DEF TakesNoOwnersLock, TakesNoSweepsLock, Unlocked, Removing
<1>11. FirstIsNamed'
  <2> SUFFICES ASSUME turnOffs = 0, NEW q \in Servers, alive[q]
               PROVE  FirstOf(q)'
    BY <1>2, FirstFromEach
  <2>1. FirstOf(q)
    BY FirstOfEach
  <2>2. q = t => clone[q] # [dir |-> d, version |-> 1]
    BY <1>1, SweptIsNotMarked DEF Removing
  <2>3. result[q].pc = "created" /\ clone[q].version = 1 => q \in dbs'[result[q].dir]
    <3> SUFFICES ASSUME result[q].pc = "created", clone[q].version = 1
                 PROVE  q \in dbs'[result[q].dir]
      OBVIOUS
    <3>1. clone[q] # NoStore /\ result[q].dir = clone[q].dir
      BY OwnerFields DEF ResultHolds
    <3>2. clone[q] = [dir |-> clone[q].dir, version |-> 1] /\ clone[q].dir \in Dirs
      BY <3>1, OwnerFields, StoreFields
    <3>3. result[q].dir = d => q # t
      BY <3>1, <3>2, <2>2
    <3> QED
      BY <1>3, <2>1, <3>1, <3>2, <3>3 DEF FirstOf
  <2>4. \/ opening'[q] = opening[q]
        \/ q = p /\ opening[q].pc \notin {"no", "open", "lock", "check"}
           /\ opening'[q].version = opening[q].version /\ opening'[q].dir = opening[q].dir
    BY <1>1, <1>5, <1>6
  <2> QED
    BY <1>2, <2>1, <2>3, <2>4 DEF FirstOf
<1> HIDE DEF d, t
<1> QED
  BY <1>1, <1>4, <1>5, <1>7, <1>8, <1>9, <1>10, <1>11, OpeningMoves

\* ... and then its lock file.
LEMMA RemoveLockKeeps ==
  ASSUME OwnerInv, NEW p \in Servers, RemoveLock(p)
  PROVE  OwnerInv'
<1> DEFINE d == opening[p].dir
           t == opening[p].target
           o == [opening[p] EXCEPT !.pc = "sweep", !.owners = @ \ {t}, !.target = "none", !.handle = 0]
<1>1. /\ opening[p] \in OpeningStates /\ opening[p].pc = "remove_lock" /\ t \in opening[p].owners
      /\ OpeningHolds(p) /\ LeftIsListed(p) /\ alive[p] /\ doomed[p] \in SUBSET Servers /\ d \in Dirs
  BY OwnerFields DEF RemoveLock, At, OpeningHolds
<1>2. t \in Servers
  BY <1>1 DEF OpeningStates
<1>3. /\ UNCHANGED <<dbs, versions, slot, clone, result, alive, turnOffs, doomed>>
      /\ locks' = [locks EXCEPT ![d][t] = 0]
  BY DEF RemoveLock
<1>4. /\ locks' \in [Dirs -> [Servers -> Nat]] /\ locks'[d][t] = 0
      /\ \A e \in Dirs, s \in Servers : ~(e = d /\ s = t) => locks'[e][s] = locks[e][s]
  BY <1>1, <1>2, <1>3 DEF OwnerInv, OwnerShape
<1>5. Shrinks
  BY <1>3, <1>4 DEF Shrinks, OwnerInv, OwnerShape
<1>6. /\ o \in OpeningStates /\ o.pc = "sweep" /\ o.dir = d
      /\ o.version = opening[p].version /\ o.owners = opening[p].owners \ {t}
      /\ o.dbs = opening[p].dbs /\ o.orphans = opening[p].orphans
  BY <1>1 DEF OpeningStates, OpeningPcs
<1>7. opening' = [opening EXCEPT ![p] = o] /\ opening'[p] = o
      /\ \A q \in Servers \ {p} : opening'[q] = opening[q]
  BY DEF RemoveLock, NextOwner, OwnerInv, OwnerShape
<1> HIDE DEF o
<1>8. MovesTo(p, o, doomed[p])
  BY <1>3, <1>7, SameDoomed DEF MovesTo
<1>9. OpeningHolds(p)'
  BY <1>1, <1>3, <1>6, <1>7 DEF OpeningHolds
<1>10. LeftIsListed(p)'
  <2> SUFFICES ASSUME NEW s \in doomed[p]
               PROVE  /\ s # p /\ ~alive[s] /\ (locks'[d][s] # 0 => s \in opening[p].owners \ {t})
                      /\ s \in dbs[d] => s \in opening[p].dbs
                           /\ s \in (opening[p].owners \ {t}) \cup opening[p].orphans
    BY <1>1, <1>3, <1>6, <1>7 DEF LeftIsListed
  <2>1. s \in Servers
    BY <1>1
  <2>2. /\ s # p /\ ~alive[s] /\ (locks[d][s] # 0 => s \in opening[p].owners)
        /\ s \in dbs[d] => s \in opening[p].dbs /\ s \in opening[p].owners \cup opening[p].orphans
                             /\ s # t
    BY <1>1 DEF LeftIsListed
  <2> QED
    BY <1>1, <1>4, <2>1, <2>2
<1>11. TakesNoOwnersLock(p, o) /\ TakesNoSweepsLock(p, o)
  BY <1>1, <1>6 DEF TakesNoOwnersLock, TakesNoSweepsLock, Unlocked, Removing
<1>12. FirstIsNamed'
  <2> SUFFICES ASSUME turnOffs = 0, NEW q \in Servers, alive[q]
               PROVE  FirstOf(q)'
    BY <1>3, FirstFromEach
  <2>1. FirstOf(q)
    BY FirstOfEach
  <2>2. q = t => /\ slot[q] # [dir |-> d, version |-> 1] /\ clone[q] # [dir |-> d, version |-> 1]
                 /\ ~ (/\ opening[q].pc \notin {"no", "open", "lock", "check"}
                       /\ opening[q].version = 1 /\ opening[q].dir = d)
    BY <1>1, SweptIsNotMarked DEF Removing
  <2>3. ASSUME NEW store \in {slot[q], clone[q]}, store.version = 1
        PROVE  locks'[store.dir][q] = 1
    <3>1. store \in HeldStores \cup {NoStore}
      BY OwnerFields
    <3>2. store = [dir |-> store.dir, version |-> 1] /\ store.dir \in Dirs
      BY <2>3, <3>1, StoreFields
    <3>3. store.dir = d => q # t
      BY <2>2, <3>2
    <3> QED
      BY <1>4, <2>1, <2>3, <3>2, <3>3 DEF FirstOf
  <2>4. \/ opening'[q] = opening[q]
        \/ q = p /\ opening[q].pc \notin {"no", "open", "lock", "check"}
           /\ opening'[q].version = opening[q].version /\ opening'[q].dir = opening[q].dir
    BY <1>1, <1>6, <1>7
  <2>5. ASSUME opening[q].pc \notin {"no", "open", "lock", "check"}, opening[q].version = 1
        PROVE  locks'[opening[q].dir][q] = 1
    <3>1. opening[q].dir \in Dirs
      BY <2>5, OwnerFields DEF OpeningHolds
    <3> QED
      BY <1>4, <2>1, <2>2, <2>5, <3>1 DEF FirstOf
  <2> QED
    BY <1>3, <2>1, <2>3, <2>4, <2>5 DEF FirstOf
<1> HIDE DEF d, t
<1> QED
  BY <1>1, <1>5, <1>6, <1>8, <1>9, <1>10, <1>11, <1>12, OpeningMoves

\* An orphan has no lock: its first, if it had one, is gone for good.
LEMMA CheckOrphanKeeps ==
  ASSUME OwnerInv, NEW p \in Servers, NEW s \in Servers, CheckOrphan(p, s)
  PROVE  OwnerInv'
<1>1. /\ opening[p] \in OpeningStates /\ opening[p].pc = "sweep" /\ s \in opening[p].orphans
      /\ opening[p].owners = {} /\ OpeningHolds(p) /\ LeftIsListed(p) /\ alive[p]
      /\ doomed[p] \in SUBSET Servers
  BY OwnerFields DEF CheckOrphan, At
<1>2. UNCHANGED <<locks, dbs, versions, slot, clone, result, alive, turnOffs, doomed>>
  BY DEF CheckOrphan
<1>3. CASE LockExists(p, s)
  <2> DEFINE o == [opening[p] EXCEPT !.orphans = @ \ {s}]
  <2>1. /\ o \in OpeningStates /\ o.pc = "sweep" /\ o.dir = opening[p].dir
        /\ o.version = opening[p].version /\ o.owners = opening[p].owners
        /\ o.dbs = opening[p].dbs /\ o.orphans = opening[p].orphans \ {s}
    BY <1>1 DEF OpeningStates, OpeningPcs
  <2>2. opening' = [opening EXCEPT ![p] = o] /\ opening'[p] = o
    BY <1>3 DEF CheckOrphan, OwnerInv, OwnerShape
  <2> HIDE DEF o
  <2>3. MovesTo(p, o, doomed[p])
    BY <1>2, <2>2, SameDoomed DEF MovesTo
  <2>4. OpeningHolds(p)'
    BY <1>1, <1>2, <2>1, <2>2 DEF OpeningHolds
  <2>5. s \notin doomed[p]
    BY <1>1, <1>3 DEF LeftIsListed, LockExists
  <2>6. LeftIsListed(p)'
    BY <1>1, <1>2, <2>1, <2>2, <2>5 DEF LeftIsListed
  <2>7. TakesNoOwnersLock(p, o) /\ TakesNoSweepsLock(p, o)
    BY <1>1, <2>1 DEF TakesNoOwnersLock, TakesNoSweepsLock, Removing, Unlocked
  <2> QED
    BY <1>1, <1>2, <2>1, <2>3, <2>4, <2>6, <2>7, PureMove DEF Unlocked
<1>4. CASE ~LockExists(p, s)
  <2> DEFINE o == [opening[p] EXCEPT !.pc = "remove_orphan", !.target = s]
  <2>1. /\ o \in OpeningStates /\ o.pc = "remove_orphan" /\ o.dir = opening[p].dir
        /\ o.version = opening[p].version /\ o.owners = opening[p].owners
        /\ o.dbs = opening[p].dbs /\ o.orphans = opening[p].orphans /\ o.target = s
    BY <1>1 DEF OpeningStates, OpeningPcs
  <2>2. opening' = [opening EXCEPT ![p] = o] /\ opening'[p] = o
    BY <1>4 DEF CheckOrphan, OwnerInv, OwnerShape
  <2> HIDE DEF o
  <2>3. MovesTo(p, o, doomed[p])
    BY <1>2, <2>2, SameDoomed DEF MovesTo
  <2>4. locks[opening[p].dir][s] # 1
    BY <1>4 DEF LockExists
  <2>5. OpeningHolds(p)'
    BY <1>1, <1>2, <2>1, <2>2, <2>4 DEF OpeningHolds
  <2>6. LeftIsListed(p)'
    BY <1>1, <1>2, <2>1, <2>2 DEF LeftIsListed
  <2>7. TakesNoOwnersLock(p, o) /\ TakesNoSweepsLock(p, o)
    BY <1>1, <2>1 DEF TakesNoOwnersLock, TakesNoSweepsLock, Removing, Unlocked
  <2> QED
    BY <1>1, <1>2, <2>1, <2>3, <2>5, <2>6, <2>7, PureMove DEF Unlocked
<1> QED
  BY <1>3, <1>4

LEMMA RemoveOrphanKeeps ==
  ASSUME OwnerInv, NEW p \in Servers, RemoveOrphan(p)
  PROVE  OwnerInv'
<1> DEFINE d == opening[p].dir
           t == opening[p].target
           o == [opening[p] EXCEPT !.pc = "sweep", !.orphans = @ \ {t}, !.target = "none"]
<1>1. /\ opening[p] \in OpeningStates /\ opening[p].pc = "remove_orphan" /\ t \in opening[p].orphans
      /\ OpeningHolds(p) /\ LeftIsListed(p) /\ alive[p] /\ doomed[p] \in SUBSET Servers
      /\ d \in Dirs /\ locks[d][t] # 1
  BY OwnerFields DEF RemoveOrphan, At, OpeningHolds
<1>2. /\ UNCHANGED <<locks, versions, slot, clone, result, alive, turnOffs, doomed>>
      /\ dbs' = [dbs EXCEPT ![d] = @ \ {t}]
  BY DEF RemoveOrphan
<1>3. /\ dbs' \in [Dirs -> SUBSET Servers] /\ dbs'[d] = dbs[d] \ {t}
      /\ \A e \in Dirs \ {d} : dbs'[e] = dbs[e]
  BY <1>1, <1>2 DEF OwnerInv, OwnerShape
<1>4. Shrinks
  BY <1>2, <1>3 DEF Shrinks, OwnerInv, OwnerShape
<1>5. /\ o \in OpeningStates /\ o.pc = "sweep" /\ o.dir = d
      /\ o.version = opening[p].version /\ o.owners = opening[p].owners
      /\ o.dbs = opening[p].dbs /\ o.orphans = opening[p].orphans \ {t}
  BY <1>1 DEF OpeningStates, OpeningPcs
<1>6. opening' = [opening EXCEPT ![p] = o] /\ opening'[p] = o
      /\ \A q \in Servers \ {p} : opening'[q] = opening[q]
  BY DEF RemoveOrphan, NextOrphan, OwnerInv, OwnerShape
<1> HIDE DEF o
<1>7. MovesTo(p, o, doomed[p])
  BY <1>2, <1>6, SameDoomed DEF MovesTo
<1>8. OpeningHolds(p)'
  BY <1>1, <1>2, <1>5, <1>6 DEF OpeningHolds
<1>9. LeftIsListed(p)'
  BY <1>1, <1>2, <1>3, <1>5, <1>6 DEF LeftIsListed
<1>10. TakesNoOwnersLock(p, o) /\ TakesNoSweepsLock(p, o)
  BY <1>1, <1>5 DEF TakesNoOwnersLock, TakesNoSweepsLock, Unlocked, Removing
<1>11. FirstIsNamed'
  <2> SUFFICES ASSUME turnOffs = 0, NEW q \in Servers, alive[q]
               PROVE  FirstOf(q)'
    BY <1>2, FirstFromEach
  <2>1. FirstOf(q)
    BY FirstOfEach
  <2>2. result[q].pc = "created" /\ clone[q].version = 1 => q \in dbs'[result[q].dir]
    <3> SUFFICES ASSUME result[q].pc = "created", clone[q].version = 1
                 PROVE  q \in dbs'[result[q].dir]
      OBVIOUS
    <3>1. clone[q] # NoStore /\ result[q].dir = clone[q].dir
      BY OwnerFields DEF ResultHolds
    <3>2. clone[q].dir \in Dirs
      BY <3>1, OwnerFields, StoreFields
    <3>3. locks[clone[q].dir][q] = 1
      BY <2>1 DEF FirstOf
    <3>4. result[q].dir = d => q # t
      BY <1>1, <3>1, <3>3
    <3> QED
      BY <1>3, <2>1, <3>1, <3>2, <3>4 DEF FirstOf
  <2>3. \/ opening'[q] = opening[q]
        \/ q = p /\ opening[q].pc \notin {"no", "open", "lock", "check"}
           /\ opening'[q].version = opening[q].version /\ opening'[q].dir = opening[q].dir
    BY <1>1, <1>5, <1>6
  <2> QED
    BY <1>2, <2>1, <2>2, <2>3 DEF FirstOf
<1> HIDE DEF d, t
<1> QED
  BY <1>1, <1>4, <1>5, <1>7, <1>8, <1>9, <1>10, <1>11, OpeningMoves

\* A directory that cannot be listed: nobody's files are answered for.
LEMMA ListFailsKeeps ==
  ASSUME OwnerInv, NEW p \in Servers, ListFails(p)
  PROVE  OwnerInv'
<1> DEFINE o == [opening[p] EXCEPT !.pc = "sweep", !.owners = {}, !.dbs = {}, !.orphans = {}]
<1>1. opening[p] \in OpeningStates /\ opening[p].pc = "list" /\ OpeningHolds(p) /\ alive[p]
  BY OwnerFields DEF ListFails, At
<1>2. UNCHANGED <<locks, dbs, versions, slot, clone, result, alive, turnOffs>>
  BY DEF ListFails
<1>3. /\ o \in OpeningStates /\ o.pc = "sweep" /\ o.dir = opening[p].dir
      /\ o.version = opening[p].version /\ o.owners = {} /\ o.dbs = {} /\ o.orphans = {}
  BY <1>1 DEF OpeningStates, OpeningPcs
<1>4. opening' = [opening EXCEPT ![p] = o] /\ opening'[p] = o
  BY DEF ListFails, OwnerInv, OwnerShape
<1>5. doomed' = [doomed EXCEPT ![p] = {}] /\ doomed'[p] = {} /\ {} \in SUBSET Servers
  BY DEF ListFails, OwnerInv, OwnerShape
<1> HIDE DEF o
<1>6. MovesTo(p, o, {})
  BY <1>2, <1>4, <1>5 DEF MovesTo
<1>7. OpeningHolds(p)'
  BY <1>1, <1>2, <1>3, <1>4 DEF OpeningHolds
<1>8. LeftIsListed(p)'
  BY <1>5 DEF LeftIsListed
<1>9. TakesNoOwnersLock(p, o) /\ TakesNoSweepsLock(p, o)
  BY <1>1, <1>3 DEF TakesNoOwnersLock, TakesNoSweepsLock, Removing, Unlocked
<1> QED
  BY <1>1, <1>2, <1>3, <1>5, <1>6, <1>7, <1>8, <1>9, PureMove DEF Unlocked

\* A failure touches no file, and its server is no longer answered for.
LEMMA FileFailsKeeps ==
  ASSUME OwnerInv, NEW p \in Servers, NEW s \in Servers, FileFails(p, s)
  PROVE  OwnerInv'
<1>1. /\ opening[p] \in OpeningStates /\ OpeningHolds(p) /\ LeftIsListed(p) /\ alive[p]
      /\ doomed[p] \in SUBSET Servers
  BY OwnerFields DEF FileFails
<1>2. UNCHANGED <<locks, dbs, versions, slot, clone, result, alive, turnOffs>>
  BY DEF FileFails
<1>3. /\ doomed' = [doomed EXCEPT ![p] = doomed[p] \ {s}] /\ doomed'[p] = doomed[p] \ {s}
      /\ doomed[p] \ {s} \in SUBSET Servers
  BY <1>1 DEF FileFails, OwnerInv, OwnerShape
<1>4. CASE At(p, "sweep") /\ s \in opening[p].owners /\ opening' = [opening EXCEPT ![p].owners = @ \ {s}]
  <2> DEFINE o == [opening[p] EXCEPT !.owners = @ \ {s}]
  <2>1. /\ o \in OpeningStates /\ o.pc = "sweep" /\ o.dir = opening[p].dir
        /\ o.version = opening[p].version /\ o.owners = opening[p].owners \ {s}
        /\ o.dbs = opening[p].dbs /\ o.orphans = opening[p].orphans
    BY <1>1, <1>4 DEF At, OpeningStates, OpeningPcs
  <2>2. opening' = [opening EXCEPT ![p] = o] /\ opening'[p] = o
    BY <1>4 DEF OwnerInv, OwnerShape
  <2> HIDE DEF o
  <2>3. MovesTo(p, o, doomed[p] \ {s})
    BY <1>2, <1>3, <2>2 DEF MovesTo
  <2>4. OpeningHolds(p)'
    BY <1>1, <1>2, <1>4, <2>1, <2>2 DEF OpeningHolds, At
  <2>5. LeftIsListed(p)'
    BY <1>1, <1>2, <1>3, <1>4, <2>1, <2>2 DEF LeftIsListed, At
  <2>6. TakesNoOwnersLock(p, o) /\ TakesNoSweepsLock(p, o)
    BY <1>1, <1>4, <2>1 DEF TakesNoOwnersLock, TakesNoSweepsLock, Removing, Unlocked, At
  <2> QED
    BY <1>1, <1>2, <1>3, <1>4, <2>1, <2>3, <2>4, <2>5, <2>6, PureMove DEF Unlocked, At
<1>5. CASE /\ At(p, "sweep") /\ opening[p].owners = {} /\ s \in opening[p].orphans
           /\ opening' = [opening EXCEPT ![p].orphans = @ \ {s}]
  <2> DEFINE o == [opening[p] EXCEPT !.orphans = @ \ {s}]
  <2>1. /\ o \in OpeningStates /\ o.pc = "sweep" /\ o.dir = opening[p].dir
        /\ o.version = opening[p].version /\ o.owners = opening[p].owners
        /\ o.dbs = opening[p].dbs /\ o.orphans = opening[p].orphans \ {s}
    BY <1>1, <1>5 DEF At, OpeningStates, OpeningPcs
  <2>2. opening' = [opening EXCEPT ![p] = o] /\ opening'[p] = o
    BY <1>5 DEF OwnerInv, OwnerShape
  <2> HIDE DEF o
  <2>3. MovesTo(p, o, doomed[p] \ {s})
    BY <1>2, <1>3, <2>2 DEF MovesTo
  <2>4. OpeningHolds(p)'
    BY <1>1, <1>2, <1>5, <2>1, <2>2 DEF OpeningHolds, At
  <2>5. LeftIsListed(p)'
    BY <1>1, <1>2, <1>3, <1>5, <2>1, <2>2 DEF LeftIsListed, At
  <2>6. TakesNoOwnersLock(p, o) /\ TakesNoSweepsLock(p, o)
    BY <1>1, <1>5, <2>1 DEF TakesNoOwnersLock, TakesNoSweepsLock, Removing, Unlocked, At
  <2> QED
    BY <1>1, <1>2, <1>3, <1>5, <2>1, <2>3, <2>4, <2>5, <2>6, PureMove DEF Unlocked, At
<1>6. CASE opening[p].target = s /\ (At(p, "lock_owner") \/ At(p, "remove_lock")) /\ NextOwner(p)
  <2> DEFINE o == [opening[p] EXCEPT !.pc = "sweep", !.owners = @ \ {s}, !.target = "none", !.handle = 0]
  <2>1. /\ o \in OpeningStates /\ o.pc = "sweep" /\ o.dir = opening[p].dir
        /\ o.version = opening[p].version /\ o.owners = opening[p].owners \ {s}
        /\ o.dbs = opening[p].dbs /\ o.orphans = opening[p].orphans
    BY <1>1, <1>6 DEF OpeningStates, OpeningPcs
  <2>2. opening' = [opening EXCEPT ![p] = o] /\ opening'[p] = o
    BY <1>6 DEF NextOwner, OwnerInv, OwnerShape
  <2> HIDE DEF o
  <2>3. MovesTo(p, o, doomed[p] \ {s})
    BY <1>2, <1>3, <2>2 DEF MovesTo
  <2>4. OpeningHolds(p)'
    BY <1>1, <1>2, <1>6, <2>1, <2>2 DEF OpeningHolds, At
  <2>5. LeftIsListed(p)'
    BY <1>1, <1>2, <1>3, <1>6, <2>1, <2>2 DEF LeftIsListed, At
  <2>6. TakesNoOwnersLock(p, o) /\ TakesNoSweepsLock(p, o)
    BY <1>1, <1>6, <2>1 DEF TakesNoOwnersLock, TakesNoSweepsLock, Removing, Unlocked, At
  <2> QED
    BY <1>1, <1>2, <1>3, <1>6, <2>1, <2>3, <2>4, <2>5, <2>6, PureMove DEF Unlocked, At
<1>7. CASE opening[p].target = s /\ At(p, "remove_dbs") /\ MoveTo(p, "remove_lock")
  <2> DEFINE o == [opening[p] EXCEPT !.pc = "remove_lock"]
  <2>1. /\ o \in OpeningStates /\ o.pc = "remove_lock" /\ o.dir = opening[p].dir
        /\ o.version = opening[p].version /\ o.owners = opening[p].owners
        /\ o.dbs = opening[p].dbs /\ o.orphans = opening[p].orphans
        /\ o.target = s /\ o.handle = opening[p].handle
    BY <1>1, <1>7 DEF OpeningStates, OpeningPcs
  <2>2. opening' = [opening EXCEPT ![p] = o] /\ opening'[p] = o
    BY <1>7 DEF MoveTo, OwnerInv, OwnerShape
  <2> HIDE DEF o
  <2>3. MovesTo(p, o, doomed[p] \ {s})
    BY <1>2, <1>3, <2>2 DEF MovesTo
  <2>4. OpeningHolds(p)'
    BY <1>1, <1>2, <1>7, <2>1, <2>2 DEF OpeningHolds, At
  <2>5. LeftIsListed(p)'
    BY <1>1, <1>2, <1>3, <1>7, <2>1, <2>2 DEF LeftIsListed, At
  <2>6. TakesNoOwnersLock(p, o) /\ TakesNoSweepsLock(p, o)
    BY <1>1, <1>7, <2>1 DEF TakesNoOwnersLock, TakesNoSweepsLock, Removing, Unlocked, At
  <2> QED
    BY <1>1, <1>2, <1>3, <1>7, <2>1, <2>3, <2>4, <2>5, <2>6, PureMove DEF Unlocked, At
<1>8. CASE opening[p].target = s /\ At(p, "remove_orphan") /\ NextOrphan(p)
  <2> DEFINE o == [opening[p] EXCEPT !.pc = "sweep", !.orphans = @ \ {s}, !.target = "none"]
  <2>1. /\ o \in OpeningStates /\ o.pc = "sweep" /\ o.dir = opening[p].dir
        /\ o.version = opening[p].version /\ o.owners = opening[p].owners
        /\ o.dbs = opening[p].dbs /\ o.orphans = opening[p].orphans \ {s}
    BY <1>1, <1>8 DEF OpeningStates, OpeningPcs
  <2>2. opening' = [opening EXCEPT ![p] = o] /\ opening'[p] = o
    BY <1>8 DEF NextOrphan, OwnerInv, OwnerShape
  <2> HIDE DEF o
  <2>3. MovesTo(p, o, doomed[p] \ {s})
    BY <1>2, <1>3, <2>2 DEF MovesTo
  <2>4. OpeningHolds(p)'
    BY <1>1, <1>2, <1>8, <2>1, <2>2 DEF OpeningHolds, At
  <2>5. LeftIsListed(p)'
    BY <1>1, <1>2, <1>3, <1>8, <2>1, <2>2 DEF LeftIsListed, At
  <2>6. TakesNoOwnersLock(p, o) /\ TakesNoSweepsLock(p, o)
    BY <1>1, <1>8, <2>1 DEF TakesNoOwnersLock, TakesNoSweepsLock, Removing, Unlocked, At
  <2> QED
    BY <1>1, <1>2, <1>3, <1>8, <2>1, <2>3, <2>4, <2>5, <2>6, PureMove DEF Unlocked, At
<1> QED
  BY <1>4, <1>5, <1>6, <1>7, <1>8 DEF FileFails

-----------------------------------------------------------------------------
(* What a live server does with its own stores and files.                   *)

\* Only what is p's changes, and it comes to no lock it had not.
OwnStep(p) ==
  /\ OwnerShape' /\ UNCHANGED <<alive, doomed, turnOffs>>
  /\ \A q \in Servers \ {p} :
       /\ opening'[q] = opening[q] /\ slot'[q] = slot[q]
       /\ clone'[q] = clone[q] /\ result'[q] = result[q]
  /\ \A d \in Dirs, s \in Servers \ {p} :
       /\ locks'[d][s] = locks[d][s] /\ versions'[d][s] = versions[d][s]
       /\ s \in dbs'[d] <=> s \in dbs[d]
  /\ \A d \in Dirs :
       /\ versions[d][p] <= versions'[d][p]
       /\ locks'[d][p] = 1 => locks[d][p] = 1 \/ versions[d][p] = 0
       /\ locks'[d][p] \in {0, versions'[d][p]} /\ (p \in dbs'[d] => versions'[d][p] # 0)
  /\ opening'[p].pc \notin Removing \/ opening'[p] = opening[p]
  /\ \A d \in Dirs, v \in Nat : Owns(d, p, v)' => Owns(d, p, v)

LEMMA OthersSee ==
  ASSUME OwnerInv, NEW p \in Servers, alive[p], OwnStep(p), NEW q \in Servers \ {p}
  PROVE  /\ StoresAreMade(q)' /\ OpeningHolds(q)' /\ ResultHolds(q)' /\ LeftIsListed(q)'
         /\ turnOffs' = 0 /\ alive'[q] => FirstOf(q)'
<1>1. /\ opening'[q] = opening[q] /\ slot'[q] = slot[q] /\ clone'[q] = clone[q] /\ result'[q] = result[q]
      /\ UNCHANGED <<alive, doomed, turnOffs>>
  BY DEF OwnStep
<1>2. /\ StoresAreMade(q) /\ OpeningHolds(q) /\ ResultHolds(q) /\ LeftIsListed(q)
      /\ opening[q] \in OpeningStates /\ doomed[q] \in SUBSET Servers
      /\ slot[q] \in HeldStores \cup {NoStore} /\ clone[q] \in HeldStores \cup {NoStore}
  BY OwnerFields
<1>3. \A d \in Dirs, s \in Servers :
        /\ versions[d][s] \in Nat /\ versions'[d][s] \in Nat /\ versions[d][s] <= versions'[d][s]
  <2> TAKE d \in Dirs, s \in Servers
  <2>1. versions[d][s] \in Nat
    BY DEF OwnerInv, OwnerShape
  <2>2. versions'[d][s] \in Nat
    BY DEF OwnStep, OwnerShape
  <2>3. CASE s = p
    BY <2>1, <2>2, <2>3 DEF OwnStep
  <2>4. CASE s # p
    BY <2>1, <2>4 DEF OwnStep
  <2> QED
    BY <2>1, <2>2, <2>3, <2>4
<1>4. StoresAreMade(q)'
  <2> SUFFICES ASSUME NEW store \in {slot[q], clone[q]}, store # NoStore
               PROVE  store.version <= versions'[store.dir][q]
    BY <1>1 DEF StoresAreMade
  <2>1. store.dir \in Dirs /\ store.version <= versions[store.dir][q]
    BY <1>2, StoreFields DEF StoresAreMade
  <2> QED
    BY <2>1 DEF OwnStep
<1>5. OpeningHolds(q)'
  <2>1. CASE opening[q].pc = "no"
    <3>1. opening[q] = NotOpening
      BY <1>2, <2>1 DEF OpeningHolds
    <3> QED
      BY <1>1, <2>1, <3>1 DEF OpeningHolds, NotOpening
  <2>2. CASE opening[q].pc # "no"
    <3> DEFINE d == opening[q].dir
               t == opening[q].target
    <3>1. d \in Dirs
      BY <1>2, <2>2 DEF OpeningHolds
    <3>2. opening[q].version \in Nat /\ opening[q].handle \in Nat /\ opening[q].dbs \subseteq Servers
          /\ opening[q].owners \subseteq Servers
      BY <1>2 DEF OpeningStates
    <3>3. \A s \in opening[q].dbs : versions'[d][s] # 0
      BY <1>2, <1>3, <3>1, <3>2 DEF OpeningHolds
    <3>4. opening[q].pc \notin {"no", "open"} =>
            opening[q].version # 0 /\ opening[q].version <= versions'[d][q]
      BY <1>2, <1>3, <3>1, <3>2 DEF OpeningHolds
    <3>5. opening[q].pc \in {"lock_owner", "remove_dbs", "remove_lock"} =>
            t \in opening[q].owners /\ opening[q].handle # 0 /\ opening[q].handle <= versions'[d][t]
      BY <1>2, <1>3, <3>1, <3>2 DEF OpeningHolds
    <3>6. opening[q].pc = "remove_orphan" => t \in opening[q].orphans /\ locks'[d][t] # 1
      <4> SUFFICES ASSUME opening[q].pc = "remove_orphan"
                   PROVE  t \in opening[q].orphans /\ locks'[d][t] # 1
        OBVIOUS
      <4>1. t \in opening[q].orphans /\ locks[d][t] # 1 /\ t \in Servers /\ versions[d][t] # 0
        BY <1>2, <3>2 DEF OpeningHolds
      <4> QED
        BY <3>1, <4>1 DEF OwnStep
    <3> QED
      BY <1>1, <1>2, <3>3, <3>4, <3>5, <3>6 DEF OpeningHolds
  <2> QED
    BY <2>1, <2>2
<1>6. ResultHolds(q)'
  BY <1>1, <1>2 DEF ResultHolds
<1>7. LeftIsListed(q)'
  <2> SUFFICES ASSUME opening[q].pc \notin {"no", "open", "lock", "check", "list"}
               PROVE  LeftIsListed(q)'
    BY <1>1 DEF LeftIsListed
  <2>1. opening[q].dir \in Dirs
    BY <1>2 DEF OpeningHolds
  <2>2. \A s \in doomed[q] : s \in Servers \ {p}
    BY <1>2 DEF LeftIsListed
  <2> QED
    BY <1>1, <1>2, <2>1, <2>2 DEF LeftIsListed, OwnStep
<1>8. ASSUME turnOffs' = 0, alive'[q]
      PROVE  FirstOf(q)'
  <2>1. FirstOf(q)
    BY <1>1, <1>8, FirstOfEach
  <2>2. ASSUME NEW store \in {slot[q], clone[q]}, store.version = 1
        PROVE  locks'[store.dir][q] = 1
    <3>1. store.dir \in Dirs
      BY <1>2, <2>2, StoreFields
    <3> QED
      BY <2>1, <2>2, <3>1 DEF OwnStep, FirstOf
  <2>3. opening[q].pc # "no" => opening[q].dir \in Dirs
    BY <1>2 DEF OpeningHolds
  <2>4. result[q].pc # "no" => result[q].dir \in Dirs
    BY <1>2, StoreFields DEF ResultHolds
  <2> QED
    BY <1>1, <2>1, <2>2, <2>3, <2>4 DEF FirstOf, OwnStep
<1> QED
  BY <1>4, <1>5, <1>6, <1>7, <1>8

LEMMA OwnStepKeeps ==
  ASSUME OwnerInv, NEW p \in Servers, alive[p], OwnStep(p),
         StoresAreMade(p)', OpeningHolds(p)', ResultHolds(p)', LeftIsListed(p)',
         turnOffs = 0 => FirstOf(p)'
  PROVE  OwnerInv'
<1>1. \A q \in Servers : StoresAreMade(q)' /\ OpeningHolds(q)' /\ ResultHolds(q)' /\ LeftIsListed(q)'
  BY OthersSee
<1>2. FirstIsNamed'
  BY OthersSee, FirstFromEach DEF OwnStep
<1>3. OwnerShape'
  BY DEF OwnStep
<1>4. LatestIsNamed'
  BY DEF OwnStep, OwnerInv, LatestIsNamed
<1>5. LockIsExclusive'
  <2> SUFFICES ASSUME NEW q \in Servers, NEW s \in Servers, NEW d \in Dirs, NEW v \in Nat,
                      alive'[q], Sweeps(q, d, s, v)', alive'[s], Owns(d, s, v)'
               PROVE  FALSE
    BY DEF LockIsExclusive
  <2>1. alive[q] /\ alive[s]
    BY DEF OwnStep
  <2>2. Sweeps(q, d, s, v)
    <3>1. opening'[q] = opening[q]
      BY DEF OwnStep, Sweeps, Removing
    <3> QED
      BY <3>1 DEF Sweeps
  <2>3. Owns(d, s, v)
    BY DEF OwnStep, Owns
  <2> QED
    BY <2>1, <2>2, <2>3 DEF OwnerInv, LockIsExclusive
<1> QED
  BY <1>1, <1>2, <1>3, <1>4, <1>5 DEF OwnerInv

\* Dropping a store takes at most the lock name of its directory.
DropsAtMost(l, p, store, other) ==
  /\ l \in [Dirs -> [Servers -> Nat]]
  /\ \A d \in Dirs, s \in Servers \ {p} : l[d][s] = locks[d][s]
  /\ \A d \in Dirs :
       \/ l[d][p] = locks[d][p]
       \/ l[d][p] = 0 /\ store # NoStore /\ store # other /\ d = store.dir

LEMMA DropFacts ==
  ASSUME OwnerInv, NEW p \in Servers, NEW store \in HeldStores \cup {NoStore}, NEW other
  PROVE  DropsAtMost(AfterDrop(p, store, {other}), p, store, other)
<1> DEFINE l == AfterDrop(p, store, {other})
<1>1. locks \in [Dirs -> [Servers -> Nat]]
  BY DEF OwnerInv, OwnerShape
<1>2. CASE store = NoStore \/ store = other
  BY <1>1, <1>2 DEF AfterDrop, DropsAtMost
<1>3. CASE store # NoStore /\ store # other
  <2>1. store.dir \in Dirs
    BY <1>3, StoreFields
  <2>2. l = [locks EXCEPT ![store.dir][p] = 0]
    BY <1>3 DEF AfterDrop
  <2> HIDE DEF l
  <2>3. DropsAtMost(l, p, store, other)
    BY <1>1, <1>3, <2>1, <2>2 DEF DropsAtMost
  <2> QED
    BY <2>3 DEF l
<1> QED
  BY <1>2, <1>3

\* Where the first lock has its name, no later file was made.
LEMMA OnlyFirst ==
  ASSUME OwnerInv, NEW p \in Servers, NEW store \in {slot[p], clone[p]}, store # NoStore,
         locks[store.dir][p] = 1
  PROVE  store = [dir |-> store.dir, version |-> 1]
<1>1. store \in HeldStores \cup {NoStore} /\ StoresAreMade(p)
  BY OwnerFields
<1>2. store.dir \in Dirs /\ store.version \in Nat /\ store.version # 0
      /\ store = [dir |-> store.dir, version |-> store.version]
  BY <1>1, StoreFields
<1>3. versions[store.dir][p] = 1
  BY <1>2 DEF OwnerInv, LatestIsNamed
<1>4. store.version <= versions[store.dir][p]
  BY <1>1 DEF StoresAreMade
<1> QED
  BY <1>2, <1>3, <1>4

LEMMA UseSlotKeeps ==
  ASSUME OwnerInv, NEW p \in Servers, UseSlot(p)
  PROVE  OwnerInv'
<1>1. /\ alive[p] /\ opening[p].pc = "no" /\ clone[p] = NoStore
      /\ clone' = [clone EXCEPT ![p] = slot[p]]
      /\ UNCHANGED <<present, locks, dbs, versions, slot, opening, result, alive, turnOffs, doomed>>
  BY DEF UseSlot, At
<1>2. /\ clone'[p] = slot[p] /\ \A q \in Servers \ {p} : clone'[q] = clone[q]
      /\ clone' \in [Servers -> HeldStores \cup {NoStore}]
  BY <1>1 DEF OwnerInv, OwnerShape
<1>3. OwnStep(p)
  <2>1. OwnerShape'
    BY <1>1, <1>2 DEF OwnerInv, OwnerShape
  <2>2. \A d \in Dirs, v \in Nat : Owns(d, p, v)' => Owns(d, p, v)
    BY <1>1, <1>2 DEF Owns
  <2>3. \A d \in Dirs : locks[d][p] \in {0, versions[d][p]} /\ (p \in dbs[d] => versions[d][p] # 0)
                        /\ versions[d][p] \in Nat
    BY DEF OwnerInv, OwnerShape, LatestIsNamed
  <2> QED
    BY <1>1, <1>2, <2>1, <2>2, <2>3 DEF OwnStep, Removing
<1>4. StoresAreMade(p) /\ OpeningHolds(p) /\ ResultHolds(p)
  BY OwnerFields
<1>5. StoresAreMade(p)' /\ OpeningHolds(p)' /\ ResultHolds(p)' /\ LeftIsListed(p)'
  BY <1>1, <1>2, <1>4 DEF StoresAreMade, OpeningHolds, ResultHolds, LeftIsListed, NoFile
<1>6. turnOffs = 0 => FirstOf(p)'
  BY <1>1, <1>2, <1>4, FirstOfEach DEF FirstOf, ResultHolds, NoFile
<1> QED
  BY <1>1, <1>3, <1>5, <1>6, OwnStepKeeps

\* The slot is emptied: its store goes with its lock name unless a call has it.
DropsSlot(p) ==
  /\ locks' = AfterDrop(p, slot[p], {clone[p]}) /\ slot' = [slot EXCEPT ![p] = NoStore]
  /\ UNCHANGED <<dbs, versions, clone, result, alive, turnOffs, doomed>>

LEMMA SlotDropped ==
  ASSUME OwnerInv, NEW p \in Servers, alive[p], opening[p].pc = "no", DropsSlot(p),
         NEW o \in OpeningStates, opening' = [opening EXCEPT ![p] = o],
         o.pc \in {"no", "open"}, o.pc = "no" => o = NotOpening, o.pc = "open" => o.dir \in Dirs,
         o.owners = {}, o.dbs = {}, o.orphans = {}
  PROVE  OwnerInv'
<1> UNCHANGED <<dbs, versions, clone, result, alive, turnOffs, doomed>>
  BY DEF DropsSlot
<1>1. /\ slot'[p] = NoStore /\ \A q \in Servers \ {p} : slot'[q] = slot[q]
      /\ slot' \in [Servers -> HeldStores \cup {NoStore}]
      /\ opening'[p] = o /\ \A q \in Servers \ {p} : opening'[q] = opening[q]
      /\ opening' \in [Servers -> OpeningStates]
  BY DEF OwnerInv, OwnerShape, DropsSlot
<1>2. /\ slot[p] \in HeldStores \cup {NoStore} /\ clone[p] \in HeldStores \cup {NoStore}
      /\ StoresAreMade(p) /\ OpeningHolds(p) /\ ResultHolds(p)
  BY OwnerFields
<1>3. /\ locks' \in [Dirs -> [Servers -> Nat]]
      /\ \A d \in Dirs, s \in Servers \ {p} : locks'[d][s] = locks[d][s]
      /\ \A d \in Dirs :
           \/ locks'[d][p] = locks[d][p]
           \/ locks'[d][p] = 0 /\ slot[p] # NoStore /\ slot[p] # clone[p] /\ d = slot[p].dir
  <2>1. DropsAtMost(locks', p, slot[p], clone[p])
    BY <1>2, DropFacts DEF DropsSlot
  <2> QED
    BY <2>1 DEF DropsAtMost
<1>4. OwnStep(p)
  <2>1. OwnerShape'
    BY <1>1, <1>3 DEF OwnerInv, OwnerShape
  <2>2. \A d \in Dirs, v \in Nat : Owns(d, p, v)' => Owns(d, p, v)
    BY <1>1, OwnerAssumption DEF Owns, NoStore
  <2>3. \A d \in Dirs : locks[d][p] \in {0, versions[d][p]} /\ (p \in dbs[d] => versions[d][p] # 0)
                        /\ versions[d][p] \in Nat
    BY DEF OwnerInv, OwnerShape, LatestIsNamed
  <2> QED
    <3>1. \A d \in Dirs : locks'[d][p] \in {0, locks[d][p]}
      BY <1>3
    <3>2. \A d \in Dirs :
            /\ versions[d][p] <= versions'[d][p]
            /\ locks'[d][p] = 1 => locks[d][p] = 1 \/ versions[d][p] = 0
            /\ locks'[d][p] \in {0, versions'[d][p]} /\ (p \in dbs'[d] => versions'[d][p] # 0)
      BY <2>3, <3>1
    <3>3. opening'[p].pc \notin Removing
      BY <1>1 DEF Removing
    <3> QED
      BY <1>1, <1>3, <2>1, <2>2, <3>2, <3>3 DEF OwnStep
<1>5. StoresAreMade(p)' /\ OpeningHolds(p)' /\ ResultHolds(p)' /\ LeftIsListed(p)'
  BY <1>1, <1>2 DEF StoresAreMade, OpeningHolds, ResultHolds, LeftIsListed
<1>6. ASSUME turnOffs = 0
      PROVE  FirstOf(p)'
  <2>1. FirstOf(p)
    BY <1>6, FirstOfEach
  <2>2. ASSUME clone[p].version = 1
        PROVE  locks'[clone[p].dir][p] = 1
    <3>1. locks[clone[p].dir][p] = 1
      BY <2>1, <2>2 DEF FirstOf
    <3>2. clone[p].dir \in Dirs /\ clone[p] = [dir |-> clone[p].dir, version |-> 1] /\ clone[p] # NoStore
      BY <1>2, <2>2, StoreFields
    <3>3. slot[p] # NoStore /\ slot[p].dir = clone[p].dir => slot[p] = clone[p]
      BY <3>1, <3>2, OnlyFirst
    <3> QED
      BY <1>3, <3>1, <3>2, <3>3
  <2> QED
    BY <1>1, <2>1, <2>2 DEF FirstOf, NoStore
<1> QED
  BY <1>4, <1>5, <1>6, OwnStepKeeps

LEMMA ReplaceSlotKeeps ==
  ASSUME OwnerInv, NEW p \in Servers, NEW d \in Dirs, ReplaceSlot(p, d)
  PROVE  OwnerInv'
<1> DEFINE o == [NotOpening EXCEPT !.pc = "open", !.dir = d]
<1>1. /\ o \in OpeningStates /\ o.pc = "open" /\ o.dir = d
      /\ o.owners = {} /\ o.dbs = {} /\ o.orphans = {}
  BY DEF NotOpening, OpeningStates, OpeningPcs
<1>2. opening' = [opening EXCEPT ![p] = o]
  BY DEF ReplaceSlot
<1> HIDE DEF o
<1> QED
  BY <1>1, <1>2, SlotDropped DEF ReplaceSlot, At, DropsSlot

\* release_dir empties the slot of a store of that directory.
LEMMA TurnOnKeeps ==
  ASSUME OwnerInv, NEW p \in Servers, NEW d \in Dirs, TurnOn(p, d)
  PROVE  OwnerInv'
<1>1. alive[p] /\ opening[p].pc = "no" /\ OpeningHolds(p)
  BY OwnerFields DEF TurnOn, At
<1>2. UNCHANGED <<dbs, versions, clone, opening, result, alive, turnOffs, doomed>>
  BY DEF TurnOn
<1>3. CASE UNCHANGED <<locks, slot>>
  <2>1. OwnStep(p) /\ StoresAreMade(p)' /\ OpeningHolds(p)' /\ ResultHolds(p)' /\ LeftIsListed(p)'
    <3>1. OwnerShape' /\ \A d_1 \in Dirs, v \in Nat : Owns(d_1, p, v)' => Owns(d_1, p, v)
      BY <1>2, <1>3 DEF OwnerInv, OwnerShape, Owns
    <3>2. \A e \in Dirs : locks[e][p] \in {0, versions[e][p]} /\ (p \in dbs[e] => versions[e][p] # 0)
                          /\ versions[e][p] \in Nat
      BY DEF OwnerInv, OwnerShape, LatestIsNamed
    <3>3. OwnStep(p)
      BY <1>1, <1>2, <1>3, <3>1, <3>2 DEF OwnStep, Removing
    <3>4. StoresAreMade(p) /\ ResultHolds(p)
      BY OwnerFields
    <3> QED
      BY <1>1, <1>2, <1>3, <3>3, <3>4 DEF StoresAreMade, OpeningHolds, ResultHolds, LeftIsListed
  <2>2. turnOffs = 0 => FirstOf(p)'
    BY <1>1, <1>2, <1>3, FirstOfEach DEF FirstOf
  <2> QED
    BY <1>1, <2>1, <2>2, OwnStepKeeps
<1>4. CASE /\ locks' = AfterDrop(p, slot[p], {clone[p]}) /\ slot' = [slot EXCEPT ![p] = NoStore]
  <2>1. opening' = [opening EXCEPT ![p] = NotOpening] /\ NotOpening \in OpeningStates
    BY <1>1, <1>2 DEF OpeningHolds, OwnerInv, OwnerShape, NotOpening, OpeningStates, OpeningPcs
  <2>2. NotOpening.pc = "no" /\ NotOpening.owners = {} /\ NotOpening.dbs = {} /\ NotOpening.orphans = {}
    BY DEF NotOpening
  <2> QED
    BY <1>1, <1>2, <1>4, <2>1, <2>2, SlotDropped DEF DropsSlot
<1> QED
  BY <1>3, <1>4 DEF TurnOn

\* The names and files of a server are as its own steps leave them.
LEMMA NamesOf ==
  ASSUME OwnerInv, NEW d \in Dirs, NEW s \in Servers
  PROVE  /\ locks[d][s] \in {0, versions[d][s]} /\ (s \in dbs[d] => versions[d][s] # 0)
         /\ versions[d][s] \in Nat /\ locks[d][s] \in Nat
BY DEF OwnerInv, OwnerShape, LatestIsNamed

\* The lock file of the name is opened, or made: then it is a later one.
LEMMA OpenLockKeeps ==
  ASSUME OwnerInv, NEW p \in Servers, OpenLock(p)
  PROVE  OwnerInv'
<1> DEFINE d == opening[p].dir
           v == IF locks[d][p] # 0 THEN locks[d][p] ELSE versions[d][p] + 1
           o == [opening[p] EXCEPT !.pc = "lock", !.version = v, !.attempt = @ + 1]
<1>1. /\ opening[p].pc = "open" /\ alive[p] /\ opening[p] \in OpeningStates /\ d \in Dirs
      /\ OpeningHolds(p) /\ StoresAreMade(p) /\ ResultHolds(p) /\ slot[p] = NoStore
      /\ clone[p] \in HeldStores \cup {NoStore}
  BY OwnerFields DEF OpenLock, At, OpeningHolds
<1>2. UNCHANGED <<dbs, slot, clone, result, alive, turnOffs, doomed>>
  BY DEF OpenLock
<1>3. CASE Stop(p) /\ UNCHANGED <<locks, versions>>
  BY <1>2, <1>3, StopKeeps
<1>4. CASE /\ locks' = [locks EXCEPT ![d][p] = v]
           /\ versions' = [versions EXCEPT ![d][p] = IF v > @ THEN v ELSE @]
           /\ opening' = [opening EXCEPT ![p].pc = "lock", ![p].version = v, ![p].attempt = @ + 1]
  <2>1. locks[d][p] \in {0, versions[d][p]} /\ versions[d][p] \in Nat /\ locks[d][p] \in Nat
    BY <1>1, NamesOf
  <2>2. /\ v \in Nat /\ v # 0 /\ versions[d][p] <= v
        /\ (IF v > versions[d][p] THEN v ELSE versions[d][p]) = v
        /\ locks[d][p] # 0 => v = locks[d][p]
        /\ v = 1 => locks[d][p] = 1 \/ versions[d][p] = 0
    BY <2>1
  <2>3. /\ o \in OpeningStates /\ o.pc = "lock" /\ o.dir = d /\ o.version = v
        /\ o.owners = opening[p].owners /\ o.dbs = opening[p].dbs /\ o.orphans = opening[p].orphans
    <3>1. opening[p].attempt + 1 \in Nat
      BY <1>1 DEF OpeningStates
    <3> HIDE DEF v
    <3> QED
      BY <1>1, <2>2, <3>1 DEF OpeningStates, OpeningPcs
  <2>4. /\ opening' = [opening EXCEPT ![p] = o] /\ opening' \in [Servers -> OpeningStates]
        /\ opening'[p] = o /\ \A q \in Servers \ {p} : opening'[q] = opening[q]
    BY <1>4, <2>3 DEF OwnerInv, OwnerShape
  <2> HIDE DEF o, v
  <2>5. /\ locks' \in [Dirs -> [Servers -> Nat]] /\ locks'[d][p] = v
        /\ \A e \in Dirs, s \in Servers : ~(e = d /\ s = p) => locks'[e][s] = locks[e][s]
    BY <1>1, <1>4, <2>2 DEF OwnerInv, OwnerShape
  <2>6. /\ versions' \in [Dirs -> [Servers -> Nat]] /\ versions'[d][p] = v
        /\ \A e \in Dirs, s \in Servers : ~(e = d /\ s = p) => versions'[e][s] = versions[e][s]
    BY <1>1, <1>4, <2>2 DEF OwnerInv, OwnerShape
  <2> HIDE <1>4
  <2>7. OwnStep(p)
    <3>1. OwnerShape'
      BY <1>2, <2>4, <2>5, <2>6 DEF OwnerInv, OwnerShape
    <3>2. \A e \in Dirs, w \in Nat : Owns(e, p, w)' => Owns(e, p, w)
      BY <1>2, <2>3, <2>4 DEF Owns
    <3>3. \A e \in Dirs :
            /\ versions[e][p] <= versions'[e][p]
            /\ locks'[e][p] = 1 => locks[e][p] = 1 \/ versions[e][p] = 0
            /\ locks'[e][p] \in {0, versions'[e][p]} /\ (p \in dbs'[e] => versions'[e][p] # 0)
      <4> TAKE e \in Dirs
      <4>1. CASE e = d
        BY <1>2, <2>2, <2>5, <2>6, <4>1
      <4>2. CASE e # d
        BY <1>2, <2>5, <2>6, <4>2, NamesOf
      <4> QED
        BY <4>1, <4>2
    <3>4. opening'[p].pc \notin Removing
      BY <2>3, <2>4 DEF Removing
    <3> QED
      BY <1>2, <2>4, <2>5, <2>6, <3>1, <3>2, <3>3, <3>4 DEF OwnStep
  <2>8. \A e \in Dirs, s \in Servers : versions[e][s] \in Nat /\ versions[e][s] <= versions'[e][s]
    <3> TAKE e \in Dirs, s \in Servers
    <3>1. versions[e][s] \in Nat
      BY NamesOf
    <3> QED
      BY <2>2, <2>6, <3>1
  <2>9. StoresAreMade(p)'
    <3> SUFFICES ASSUME NEW store \in {slot[p], clone[p]}, store # NoStore
                 PROVE  store.version <= versions'[store.dir][p]
      BY <1>2 DEF StoresAreMade
    <3>1. store.dir \in Dirs /\ store.version \in Nat /\ store.version <= versions[store.dir][p]
      BY <1>1, StoreFields DEF StoresAreMade
    <3>2. versions'[store.dir][p] \in Nat
      BY <2>6, <3>1
    <3> QED
      BY <2>8, <3>1, <3>2
  <2>10. OpeningHolds(p)'
    <3>1. \A s \in o.dbs : versions'[d][s] # 0
      <4>1. \A s \in o.dbs : s \in Servers \ {p} /\ versions[d][s] # 0
        BY <1>1, <2>3 DEF OpeningHolds, OpeningStates
      <4> QED
        BY <1>1, <2>6, <4>1
    <3> QED
      BY <1>1, <1>2, <2>2, <2>3, <2>4, <2>6, <3>1 DEF OpeningHolds
  <2>11. ResultHolds(p)' /\ LeftIsListed(p)'
    BY <1>1, <1>2, <2>3, <2>4 DEF ResultHolds, LeftIsListed
  <2>12. ASSUME turnOffs = 0
         PROVE  FirstOf(p)'
    <3>1. FirstOf(p)
      BY <1>1, <2>12, FirstOfEach
    <3>2. ASSUME clone[p].version = 1
          PROVE  locks'[clone[p].dir][p] = 1
      <4>1. locks[clone[p].dir][p] = 1 /\ clone[p].dir \in Dirs
        BY <1>1, <3>1, <3>2, StoreFields DEF FirstOf
      <4> QED
        BY <2>2, <2>5, <4>1
    <3> QED
      BY <1>1, <1>2, <2>3, <2>4, <3>1, <3>2 DEF FirstOf, NoStore
  <2> QED
    BY <1>1, <2>7, <2>9, <2>10, <2>11, <2>12, OwnStepKeeps
<1> QED
  BY <1>3, <1>4 DEF OpenLock

\* The store keeps the lock of its opening.
LEMMA OpenedKeeps ==
  ASSUME OwnerInv, NEW p \in Servers, Opened(p)
  PROVE  OwnerInv'
<1> DEFINE store == [dir |-> opening[p].dir, version |-> opening[p].version]
<1>1. /\ opening[p].pc = "sweep" /\ alive[p] /\ opening[p] \in OpeningStates
      /\ OpeningHolds(p) /\ StoresAreMade(p) /\ ResultHolds(p)
      /\ clone[p] \in HeldStores \cup {NoStore}
  BY OwnerFields DEF Opened, At
<1>2. /\ UNCHANGED <<present, locks, dbs, versions, result, alive, turnOffs, doomed>>
      /\ slot' = [slot EXCEPT ![p] = store]
      /\ clone' = [clone EXCEPT ![p] = IF @ = NoStore THEN store ELSE @]
      /\ opening' = [opening EXCEPT ![p] = NotOpening]
  BY DEF Opened, Stop
<1>3. /\ opening[p].dir \in Dirs /\ opening[p].version \in Nat /\ opening[p].version # 0
      /\ opening[p].version <= versions[opening[p].dir][p]
  BY <1>1 DEF OpeningHolds, OpeningStates
<1>4. store \in HeldStores /\ store # NoStore /\ store.dir = opening[p].dir
      /\ store.version = opening[p].version
  BY <1>3 DEF HeldStores, NoStore
<1>5. NotOpening \in OpeningStates /\ NotOpening.pc = "no" /\ NotOpening.owners = {}
      /\ NotOpening.dbs = {} /\ NotOpening.orphans = {}
  BY DEF NotOpening, OpeningStates, OpeningPcs
<1> HIDE DEF store
<1>6. /\ slot'[p] = store /\ clone'[p] \in {store, clone[p]} /\ (clone[p] # NoStore => clone'[p] = clone[p])
      /\ opening'[p] = NotOpening
      /\ \A q \in Servers \ {p} : slot'[q] = slot[q] /\ clone'[q] = clone[q] /\ opening'[q] = opening[q]
      /\ slot' \in [Servers -> HeldStores \cup {NoStore}] /\ clone' \in [Servers -> HeldStores \cup {NoStore}]
      /\ opening' \in [Servers -> OpeningStates]
  BY <1>2, <1>4, <1>5 DEF OwnerInv, OwnerShape
<1>7. OwnStep(p)
  <2>1. OwnerShape'
    BY <1>2, <1>6 DEF OwnerInv, OwnerShape
  <2>2. \A d \in Dirs, v \in Nat : Owns(d, p, v)' => Owns(d, p, v)
    <3> SUFFICES ASSUME NEW d \in Dirs, NEW v \in Nat, Owns(d, p, v)'
                 PROVE  Owns(d, p, v)
      OBVIOUS
    <3>1. store = [dir |-> d, version |-> v] \/ clone[p] = [dir |-> d, version |-> v]
      BY <1>5, <1>6 DEF Owns
    <3>2. store = [dir |-> d, version |-> v] => opening[p].dir = d /\ opening[p].version = v
      BY <1>4
    <3> QED
      BY <1>1, <3>1, <3>2 DEF Owns
  <2>3. \A d \in Dirs : locks[d][p] \in {0, versions[d][p]} /\ (p \in dbs[d] => versions[d][p] # 0)
                        /\ versions[d][p] \in Nat
    BY NamesOf
  <2> QED
    BY <1>2, <1>5, <1>6, <2>1, <2>2, <2>3 DEF OwnStep, Removing
<1>8. StoresAreMade(p)'
  BY <1>1, <1>2, <1>3, <1>4, <1>6 DEF StoresAreMade
<1>9. OpeningHolds(p)' /\ LeftIsListed(p)'
  BY <1>5, <1>6 DEF OpeningHolds, LeftIsListed
<1>10. ResultHolds(p)'
  BY <1>1, <1>2, <1>6 DEF ResultHolds
<1>11. turnOffs = 0 => FirstOf(p)'
  BY <1>1, <1>2, <1>4, <1>5, <1>6, FirstOfEach DEF FirstOf, ResultHolds, NoFile
<1> QED
  BY <1>1, <1>7, <1>8, <1>9, <1>10, <1>11, OwnStepKeeps

\* A step that leaves the stores and the opening of p and drops no lock name
\* that a store or an opening of p needs.
LEMMA CallStepKeeps ==
  ASSUME OwnerInv, NEW p \in Servers, alive[p], OwnerShape',
         UNCHANGED <<versions, slot, opening, alive, turnOffs, doomed>>,
         clone'[p] \in {clone[p], NoStore},
         \A q \in Servers \ {p} : clone'[q] = clone[q] /\ result'[q] = result[q],
         \A d \in Dirs, s \in Servers \ {p} :
            locks'[d][s] = locks[d][s] /\ (s \in dbs'[d] <=> s \in dbs[d]),
         \A d \in Dirs : locks'[d][p] \in {0, locks[d][p]} /\ (p \in dbs'[d] => versions[d][p] # 0),
         ResultHolds(p)', turnOffs = 0 => FirstOf(p)'
  PROVE  OwnerInv'
<1>1. /\ StoresAreMade(p) /\ OpeningHolds(p) /\ LeftIsListed(p)
      /\ doomed[p] \in SUBSET Servers /\ opening[p] \in OpeningStates
  BY OwnerFields
<1>2. \A d \in Dirs : locks[d][p] \in {0, versions[d][p]} /\ versions[d][p] \in Nat
  BY NamesOf
<1>3. \A d \in Dirs, v \in Nat : Owns(d, p, v)' => Owns(d, p, v)
  BY OwnerAssumption DEF Owns, NoStore
<1>4. OwnStep(p)
  BY <1>2, <1>3 DEF OwnStep
<1>5. StoresAreMade(p)'
  BY <1>1 DEF StoresAreMade
<1>6. OpeningHolds(p)'
  <2>1. clone'[p] = NoStore /\ opening[p].pc \notin {"no", "open", "lock"} =>
          clone'[p] # [dir |-> opening[p].dir, version |-> opening[p].version]
    BY <1>1, OwnerAssumption DEF NoStore, OpeningHolds
  <2>2. opening[p].pc = "remove_orphan" => locks'[opening[p].dir][opening[p].target] # 1
    <3> SUFFICES ASSUME opening[p].pc = "remove_orphan"
                 PROVE  locks'[opening[p].dir][opening[p].target] # 1
      OBVIOUS
    <3>1. opening[p].target \in Servers \ {p} /\ opening[p].dir \in Dirs
          /\ locks[opening[p].dir][opening[p].target] # 1
      BY <1>1 DEF OpeningHolds, OpeningStates
    <3> QED
      BY <3>1
  <2> QED
    BY <1>1, <2>1, <2>2 DEF OpeningHolds
<1>7. LeftIsListed(p)'
  <2> SUFFICES ASSUME opening[p].pc \notin {"no", "open", "lock", "check", "list"}
               PROVE  LeftIsListed(p)'
    BY DEF LeftIsListed
  <2>1. opening[p].dir \in Dirs
    BY <1>1 DEF OpeningHolds
  <2>2. \A s \in doomed[p] : s \in Servers \ {p}
    BY <1>1 DEF LeftIsListed
  <2> QED
    BY <1>1, <2>1, <2>2 DEF LeftIsListed
<1> QED
  BY <1>4, <1>5, <1>6, <1>7, OwnStepKeeps

\* A result file: made, opened by its name, unlinked.
LEMMA ResultStep ==
  ASSUME OwnerInv, NEW p \in Servers, alive[p],
         UNCHANGED <<locks, versions, slot, clone, opening, alive, turnOffs, doomed>>,
         NEW r \in [pc : {"no", "created", "opened"}, dir : Dirs \cup {Nowhere}],
         result' = [result EXCEPT ![p] = r],
         dbs' \in [Dirs -> SUBSET Servers],
         \A d \in Dirs, s \in Servers \ {p} : s \in dbs'[d] <=> s \in dbs[d],
         \A d \in Dirs : p \in dbs'[d] => versions[d][p] # 0,
         IF r.pc = "no" THEN r = NoFile ELSE clone[p] # NoStore /\ r.dir = clone[p].dir,
         turnOffs = 0 /\ r.pc = "created" /\ clone[p].version = 1 => p \in dbs'[r.dir]
  PROVE  OwnerInv'
<1>1. result'[p] = r /\ \A q \in Servers \ {p} : result'[q] = result[q]
  BY DEF OwnerInv, OwnerShape
<1>2. OwnerShape'
  BY DEF OwnerInv, OwnerShape
<1>3. ResultHolds(p)'
  BY <1>1 DEF ResultHolds
<1>4. turnOffs = 0 => FirstOf(p)'
  BY <1>1, FirstOfEach DEF FirstOf
<1>5. \A d \in Dirs : locks'[d][p] \in {0, locks[d][p]}
  OBVIOUS
<1> QED
  BY <1>1, <1>2, <1>3, <1>4, <1>5, CallStepKeeps

LEMMA CreateFileKeeps ==
  ASSUME OwnerInv, NEW p \in Servers, CreateFile(p)
  PROVE  OwnerInv'
<1> DEFINE d == clone[p].dir
           r == [pc |-> "created", dir |-> d]
<1>1. /\ alive[p] /\ clone[p] # NoStore /\ clone[p] \in HeldStores \cup {NoStore} /\ StoresAreMade(p)
  BY OwnerFields DEF CreateFile
<1>2. /\ d \in Dirs /\ versions[d][p] # 0
  <2>1. d \in Dirs /\ clone[p].version \in Nat /\ clone[p].version # 0
    BY <1>1, StoreFields
  <2>2. versions[d][p] \in Nat
    BY <2>1, NamesOf
  <2> QED
    BY <1>1, <2>1, <2>2 DEF StoresAreMade
<1>3. /\ UNCHANGED <<locks, versions, slot, clone, opening, alive, turnOffs, doomed>>
      /\ result' = [result EXCEPT ![p] = r]
      /\ dbs' = [dbs EXCEPT ![d] = @ \cup {p}]
  BY DEF CreateFile
<1>4. /\ dbs' \in [Dirs -> SUBSET Servers] /\ p \in dbs'[d]
      /\ \A e \in Dirs, s \in Servers \ {p} : s \in dbs'[e] <=> s \in dbs[e]
      /\ \A e \in Dirs : e # d => dbs'[e] = dbs[e]
  BY <1>2, <1>3 DEF OwnerInv, OwnerShape
<1>5. \A e \in Dirs : p \in dbs'[e] => versions[e][p] # 0
  BY <1>2, <1>4, NamesOf
<1>6. /\ r \in [pc : {"no", "created", "opened"}, dir : Dirs \cup {Nowhere}]
      /\ r.pc = "created" /\ r.dir = d
  BY <1>2
<1> HIDE DEF r
<1> QED
  BY <1>1, <1>3, <1>4, <1>5, <1>6, ResultStep

LEMMA OpenFileKeeps ==
  ASSUME OwnerInv, NEW p \in Servers, OpenFile(p)
  PROVE  OwnerInv'
<1> DEFINE r == IF p \in dbs[result[p].dir] THEN [result[p] EXCEPT !.pc = "opened"] ELSE NoFile
<1>1. /\ alive[p] /\ result[p].pc = "created" /\ ResultHolds(p)
      /\ result[p] \in [pc : {"no", "created", "opened"}, dir : Dirs \cup {Nowhere}]
  BY OwnerFields DEF OpenFile
<1>2. /\ UNCHANGED <<locks, dbs, versions, slot, clone, opening, alive, turnOffs, doomed>>
      /\ result' = [result EXCEPT ![p] = r]
  BY DEF OpenFile
<1>3. /\ r \in [pc : {"no", "created", "opened"}, dir : Dirs \cup {Nowhere}]
      /\ \/ r = NoFile /\ r.pc = "no"
         \/ r.pc = "opened" /\ r.dir = result[p].dir
  BY <1>1 DEF NoFile
<1>4. IF r.pc = "no" THEN r = NoFile ELSE clone[p] # NoStore /\ r.dir = clone[p].dir
  BY <1>1, <1>3 DEF ResultHolds
<1> HIDE DEF r
<1>5. dbs' \in [Dirs -> SUBSET Servers] /\ \A d \in Dirs : p \in dbs'[d] => versions[d][p] # 0
  BY <1>2, NamesOf DEF OwnerInv, OwnerShape
<1> QED
  BY <1>1, <1>2, <1>3, <1>4, <1>5, ResultStep

LEMMA UnlinkFileKeeps ==
  ASSUME OwnerInv, NEW p \in Servers, UnlinkFile(p)
  PROVE  OwnerInv'
<1>1. /\ alive[p] /\ result[p].pc = "opened" /\ ResultHolds(p) /\ clone[p] \in HeldStores \cup {NoStore}
  BY OwnerFields DEF UnlinkFile
<1>2. result[p].dir \in Dirs
  BY <1>1, StoreFields DEF ResultHolds
<1>3. /\ UNCHANGED <<locks, versions, slot, clone, opening, alive, turnOffs, doomed>>
      /\ result' = [result EXCEPT ![p] = NoFile]
      /\ dbs' = [dbs EXCEPT ![result[p].dir] = @ \ {p}]
  BY DEF UnlinkFile
<1>4. /\ dbs' \in [Dirs -> SUBSET Servers]
      /\ \A e \in Dirs, s \in Servers \ {p} : s \in dbs'[e] <=> s \in dbs[e]
      /\ \A e \in Dirs : p \in dbs'[e] => p \in dbs[e]
  BY <1>2, <1>3 DEF OwnerInv, OwnerShape
<1>5. \A d \in Dirs : p \in dbs'[d] => versions[d][p] # 0
  BY <1>4, NamesOf
<1>6. NoFile \in [pc : {"no", "created", "opened"}, dir : Dirs \cup {Nowhere}] /\ NoFile.pc = "no"
  BY DEF NoFile
<1> QED
  BY <1>1, <1>3, <1>4, <1>5, <1>6, ResultStep

\* A call that ends drops its store, and the lock name with it only if neither
\* the slot nor an opening has a lock in that directory.
LEMMA EndStoreCallKeeps ==
  ASSUME OwnerInv, NEW p \in Servers, EndStoreCall(p)
  PROVE  OwnerInv'
<1>1. /\ alive[p] /\ clone[p] # NoStore /\ result[p] = NoFile
      /\ UNCHANGED <<dbs, versions, slot, opening, result, alive, turnOffs, doomed>>
      /\ clone' = [clone EXCEPT ![p] = NoStore]
  BY DEF EndStoreCall
<1>2. /\ slot[p] \in HeldStores \cup {NoStore} /\ clone[p] \in HeldStores \cup {NoStore}
      /\ OpeningHolds(p)
  BY OwnerFields
<1>3. /\ locks' \in [Dirs -> [Servers -> Nat]]
      /\ \A d \in Dirs, s \in Servers \ {p} : locks'[d][s] = locks[d][s]
      /\ \A d \in Dirs :
           \/ locks'[d][p] = locks[d][p]
           \/ locks'[d][p] = 0 /\ clone[p] # NoStore /\ clone[p] # slot[p] /\ d = clone[p].dir
  <2>1. DropsAtMost(locks', p, clone[p], slot[p])
    BY <1>2, DropFacts DEF EndStoreCall
  <2> QED
    BY <2>1 DEF DropsAtMost
<1>4. clone'[p] = NoStore /\ \A q \in Servers \ {p} : clone'[q] = clone[q]
  BY <1>1 DEF OwnerInv, OwnerShape
<1>5. OwnerShape'
  BY <1>1, <1>3 DEF OwnerInv, OwnerShape
<1>6. ResultHolds(p)'
  BY <1>1 DEF ResultHolds, NoFile
<1>7. ASSUME turnOffs = 0
      PROVE  FirstOf(p)'
  <2>1. FirstOf(p)
    BY <1>1, <1>7, FirstOfEach
  <2>2. ASSUME slot[p].version = 1
        PROVE  locks'[slot[p].dir][p] = 1
    <3>1. locks[slot[p].dir][p] = 1
      BY <2>1, <2>2 DEF FirstOf
    <3>2. slot[p].dir \in Dirs /\ slot[p] = [dir |-> slot[p].dir, version |-> 1]
      BY <1>2, <2>2, StoreFields
    <3>3. clone[p].dir = slot[p].dir => clone[p] = slot[p]
      BY <1>1, <3>1, <3>2, OnlyFirst
    <3> QED
      BY <1>3, <3>1, <3>2, <3>3
  <2>3. ASSUME opening[p].pc \notin {"no", "open", "lock", "check"}, opening[p].version = 1
        PROVE  locks'[opening[p].dir][p] = 1
    <3>1. /\ locks[opening[p].dir][p] = 1 /\ opening[p].dir \in Dirs
          /\ clone[p] # [dir |-> opening[p].dir, version |-> 1]
      BY <1>2, <2>1, <2>3 DEF FirstOf, OpeningHolds
    <3>2. clone[p].dir # opening[p].dir
      BY <1>1, <3>1, OnlyFirst
    <3> QED
      BY <1>3, <3>1, <3>2
  <2> QED
    BY <1>1, <1>4, <2>2, <2>3 DEF FirstOf, NoStore, NoFile
<1>8. \A d \in Dirs : locks'[d][p] \in {0, locks[d][p]} /\ (p \in dbs'[d] => versions[d][p] # 0)
  BY <1>1, <1>3, NamesOf
<1> QED
  BY <1>1, <1>3, <1>4, <1>5, <1>6, <1>7, <1>8, CallStepKeeps

-----------------------------------------------------------------------------
(* What happens to a directory and to a process.                            *)

\* Nothing is claimed of first locks once a project was turned off; the rest
\* survives the loss of every file.
LEMMA TurnOffKeeps ==
  ASSUME OwnerInv, NEW d \in Dirs, TurnOff(d)
  PROVE  OwnerInv'
<1>1. /\ UNCHANGED <<versions, slot, clone, opening, result, alive, doomed>>
      /\ locks' = [locks EXCEPT ![d] = [s \in Servers |-> 0]]
      /\ dbs' = [dbs EXCEPT ![d] = {}] /\ turnOffs' = turnOffs + 1 /\ turnOffs \in Nat
  BY DEF TurnOff, OwnerInv, OwnerShape
<1>2. /\ locks' \in [Dirs -> [Servers -> Nat]] /\ dbs' \in [Dirs -> SUBSET Servers]
      /\ locks'[d] = [s \in Servers |-> 0] /\ dbs'[d] = {}
      /\ \A e \in Dirs : e # d => locks'[e] = locks[e] /\ dbs'[e] = dbs[e]
  BY <1>1 DEF OwnerInv, OwnerShape
<1>3. Shrinks
  BY <1>2, NamesOf DEF Shrinks
<1>4. OwnerShape'
  BY <1>1, <1>2 DEF OwnerInv, OwnerShape
<1>5. FirstIsNamed'
  BY <1>1 DEF FirstIsNamed
<1>6. LockIsExclusive'
  BY <1>1 DEF OwnerInv, LockIsExclusive, Sweeps, Owns
<1>7. \A q \in Servers : StoresAreMade(q)' /\ OpeningHolds(q)' /\ ResultHolds(q)' /\ LeftIsListed(q)'
  <2> TAKE q \in Servers
  <2>1. ResultHolds(q)
    BY OwnerFields
  <2> QED
    BY <1>1, <1>3, <2>1, OthersStay, ListsStay DEF ResultHolds
<1> QED
  BY <1>1, <1>3, <1>4, <1>5, <1>6, <1>7, LatestStays DEF OwnerInv

LEMMA DieKeeps ==
  ASSUME OwnerInv, NEW p \in Servers, Die(p)
  PROVE  OwnerInv'
<1>1. /\ UNCHANGED <<locks, dbs, versions, slot, clone, opening, result, turnOffs, doomed>>
      /\ alive' = [alive EXCEPT ![p] = FALSE]
  BY DEF Die
<1>2. \A q \in Servers : alive'[q] => alive[q]
  BY <1>1 DEF OwnerInv, OwnerShape
<1>3. Shrinks
  BY <1>1, Shrunk
<1>4. OwnerShape'
  BY <1>1 DEF OwnerInv, OwnerShape
<1>5. FirstIsNamed'
  BY <1>1, <1>2 DEF OwnerInv, FirstIsNamed
<1>6. LockIsExclusive'
  BY <1>1, <1>2 DEF OwnerInv, LockIsExclusive, Sweeps, Owns
<1>7. \A q \in Servers : StoresAreMade(q)' /\ OpeningHolds(q)' /\ ResultHolds(q)' /\ LeftIsListed(q)'
  <2> TAKE q \in Servers
  <2>1. ResultHolds(q)
    BY OwnerFields
  <2> QED
    BY <1>1, <1>2, <1>3, <2>1, OthersStay, ListsStay DEF ResultHolds
<1> QED
  BY <1>1, <1>3, <1>4, <1>5, <1>6, <1>7, LatestStays DEF OwnerInv

-----------------------------------------------------------------------------
(* The invariant, and the three properties.                                 *)

LEMMA OwnerStarts ==
  ASSUME OwnerInit
  PROVE  OwnerInv
<1>1. NotOpening \in OpeningStates /\ NotOpening.pc = "no" /\ NotOpening.owners = {}
      /\ NotOpening.dbs = {} /\ NotOpening.orphans = {}
  BY DEF NotOpening, OpeningStates, OpeningPcs
<1>2. OwnerShape
  BY <1>1 DEF OwnerInit, OwnerShape, NoFile
<1>3. \A p \in Servers : StoresAreMade(p) /\ OpeningHolds(p) /\ ResultHolds(p) /\ LeftIsListed(p)
  BY <1>1 DEF OwnerInit, StoresAreMade, OpeningHolds, ResultHolds, LeftIsListed, NoFile
<1>4. LatestIsNamed /\ FirstIsNamed
  BY <1>1 DEF OwnerInit, LatestIsNamed, FirstIsNamed, NoStore, NoFile
<1>5. LockIsExclusive
  BY <1>1 DEF OwnerInit, LockIsExclusive, Sweeps
<1> QED
  BY <1>2, <1>3, <1>4, <1>5 DEF OwnerInv

LEMMA OwnerKept ==
  ASSUME OwnerInv, [OwnerNext]_ownerVars
  PROVE  OwnerInv'
<1>1. CASE UNCHANGED ownerVars
  <2>1. \A p \in Servers : StoresAreMade(p)' /\ OpeningHolds(p)' /\ ResultHolds(p)' /\ LeftIsListed(p)'
    BY <1>1, OwnerFields DEF StoresAreMade, OpeningHolds, ResultHolds, LeftIsListed
  <2>2. OwnerShape' /\ LatestIsNamed' /\ FirstIsNamed'
    BY <1>1 DEF OwnerInv, OwnerShape, LatestIsNamed, FirstIsNamed
  <2>3. LockIsExclusive'
    BY <1>1 DEF OwnerInv, LockIsExclusive, Sweeps, Owns
  <2> QED
    BY <2>1, <2>2, <2>3 DEF OwnerInv
<1>2. ASSUME NEW p \in Servers, Opening(p)
      PROVE  OwnerInv'
  BY <1>2, OpenLockKeeps, TryLockKeeps, CheckLockKeeps, ListLocksKeeps, ListDbsKeeps,
     OpenOwnerKeeps, CheckOrphanKeeps, LockOwnerKeeps, RemoveDbsKeeps, RemoveLockKeeps,
     RemoveOrphanKeeps, ListFailsKeeps, FileFailsKeeps, OpenedKeeps DEF Opening
<1>3. ASSUME NEW p \in Servers,
             \/ UseSlot(p)
             \/ \E d \in Dirs : ReplaceSlot(p, d) \/ TurnOn(p, d)
             \/ CreateFile(p)
             \/ OpenFile(p)
             \/ UnlinkFile(p)
             \/ EndStoreCall(p)
             \/ Die(p)
      PROVE  OwnerInv'
  BY <1>3, UseSlotKeeps, ReplaceSlotKeeps, TurnOnKeeps, CreateFileKeeps, OpenFileKeeps,
     UnlinkFileKeeps, EndStoreCallKeeps, DieKeeps
<1>4. CASE \E d \in Dirs : TurnOff(d)
  BY <1>4, TurnOffKeeps
<1> QED
  BY <1>1, <1>2, <1>3, <1>4 DEF OwnerNext

\* The invariant holds for every number of servers, directories and faults.
THEOREM OwnerInvHolds == OwnerSpec => []OwnerInv
<1> QED
  BY OwnerStarts, OwnerKept, PTL DEF OwnerSpec

\* While a live server's store holds the first lock file of its name, the file
\* keeps its name: no sweep of any other server takes it, nor a store of the
\* server itself that is dropped (take_lock, sweep_owner, the store's drop).
THEOREM FirstLockHolds == OwnerSpec => []FirstLockMarks
<1>1. OwnerInv => FirstLockMarks
  BY DEF OwnerInv, FirstIsNamed, FirstLockMarks
<1> QED
  BY <1>1, OwnerInvHolds, PTL

\* Only the owner's own open and its end touch what is said of a file it makes.
LEMMA MakingGoesOn ==
  ASSUME OwnerInv, [OwnerNext]_ownerVars, NEW p \in Servers, alive[p], result[p].pc = "created",
         clone[p] # NoStore
  PROVE  \/ result'[p] = result[p] /\ clone'[p] = clone[p] /\ alive'[p]
         \/ dbs' = dbs /\ result'[p].dir = result[p].dir
         \/ p \notin dbs[result[p].dir]
<1>1. /\ result \in [Servers -> [pc : {"no", "created", "opened"}, dir : Dirs \cup {Nowhere}]]
      /\ clone \in [Servers -> HeldStores \cup {NoStore}]
  BY DEF OwnerInv, OwnerShape
<1>2. CASE UNCHANGED ownerVars
  BY <1>2
<1>3. CASE \E d \in Dirs : TurnOff(d)
  BY <1>3 DEF TurnOff
<1>4. ASSUME NEW q \in Servers, Opening(q)
      PROVE  result'[p] = result[p] /\ clone'[p] = clone[p] /\ alive'[p]
  <2>1. UNCHANGED <<result, alive>>
    BY <1>4 DEF Opening, OpenLock, TryLock, CheckLock, ListLocks, ListDbs, OpenOwner, CheckOrphan,
       LockOwner, RemoveDbs, RemoveLock, RemoveOrphan, ListFails, FileFails, Opened
  <2>2. CASE Opened(q)
    BY <1>1, <2>1, <2>2 DEF Opened
  <2>3. CASE ~Opened(q)
    <3>1. UNCHANGED clone
      BY <1>4, <2>3 DEF Opening, OpenLock, TryLock, CheckLock, ListLocks, ListDbs, OpenOwner,
         CheckOrphan, LockOwner, RemoveDbs, RemoveLock, RemoveOrphan, ListFails, FileFails
    <3> QED
      BY <2>1, <3>1
  <2> QED
    BY <2>1, <2>2, <2>3
<1>5. ASSUME NEW q \in Servers,
             UseSlot(q) \/ EndStoreCall(q) \/ \E d \in Dirs : ReplaceSlot(q, d) \/ TurnOn(q, d)
      PROVE  result'[p] = result[p] /\ clone'[p] = clone[p] /\ alive'[p]
  <2>1. CASE UseSlot(q)
    BY <1>1, <2>1 DEF UseSlot
  <2>2. CASE EndStoreCall(q)
    BY <1>1, <2>2 DEF EndStoreCall, NoFile
  <2>3. CASE \E d \in Dirs : ReplaceSlot(q, d) \/ TurnOn(q, d)
    BY <2>3 DEF ReplaceSlot, TurnOn
  <2> QED
    BY <1>5, <2>1, <2>2, <2>3
<1>6. ASSUME NEW q \in Servers, CreateFile(q) \/ UnlinkFile(q)
      PROVE  result'[p] = result[p] /\ clone'[p] = clone[p] /\ alive'[p]
  BY <1>1, <1>6 DEF CreateFile, UnlinkFile, NoFile
<1>7. ASSUME NEW q \in Servers, OpenFile(q)
      PROVE  \/ dbs' = dbs /\ result'[p].dir = result[p].dir
             \/ p \notin dbs[result[p].dir]
  BY <1>1, <1>7 DEF OpenFile
<1>8. ASSUME NEW q \in Servers, Die(q)
      PROVE  dbs' = dbs /\ result'[p].dir = result[p].dir
  BY <1>8 DEF Die
<1> QED
  BY <1>2, <1>3, <1>4, <1>5, <1>6, <1>7, <1>8 DEF OwnerNext

LEMMA NoTurnOffBefore ==
  ASSUME OwnerInv, [OwnerNext]_ownerVars, turnOffs' = 0
  PROVE  turnOffs = 0
<1>1. turnOffs \in Nat
  BY DEF OwnerInv, OwnerShape
<1>2. CASE UNCHANGED ownerVars
  BY <1>2 DEF ownerVars
<1>3. CASE \E d \in Dirs : TurnOff(d)
  BY <1>1, <1>3 DEF TurnOff
<1>4. ASSUME NEW q \in Servers, Opening(q)
      PROVE  turnOffs' = turnOffs
  BY <1>4 DEF Opening, OpenLock, TryLock, CheckLock, ListLocks, ListDbs, OpenOwner, CheckOrphan,
     LockOwner, RemoveDbs, RemoveLock, RemoveOrphan, ListFails, FileFails, Opened
<1>5. CASE \E q \in Servers : \/ UseSlot(q)
                              \/ EndStoreCall(q)
                              \/ CreateFile(q)
                              \/ OpenFile(q)
                              \/ UnlinkFile(q)
                              \/ Die(q)
                              \/ \E d \in Dirs : ReplaceSlot(q, d) \/ TurnOn(q, d)
  BY <1>5 DEF UseSlot, EndStoreCall, CreateFile, OpenFile, UnlinkFile, Die, ReplaceSlot, TurnOn
<1> QED
  BY <1>2, <1>3, <1>4, <1>5 DEF OwnerNext

\* The result file a server with such a store is making has its name until its
\* owner unlinks it: no sweep removes it, not as a database of a dead owner and
\* not as an orphan (sweep_owner, lock_exists).
THEOREM LiveFilesHold == OwnerSpec => LiveFilesKept
<1> DEFINE Kept == \A p \in Servers :
       turnOffs' = 0 /\ alive[p] /\ result[p].pc = "created" /\ clone[p].version = 1
         => p \in dbs[result[p].dir]'
<1>1. ASSUME OwnerInv, OwnerInv', [OwnerNext]_ownerVars
      PROVE  Kept
  <2> SUFFICES ASSUME NEW p \in Servers, turnOffs' = 0, alive[p], result[p].pc = "created",
                      clone[p].version = 1
               PROVE  p \in dbs'[result'[p].dir]
    OBVIOUS
  <2>1. turnOffs = 0
    BY <1>1, NoTurnOffBefore
  <2>2. p \in dbs[result[p].dir]
    BY <1>1, <2>1 DEF OwnerInv, FirstIsNamed
  <2>3. CASE result'[p] = result[p] /\ clone'[p] = clone[p] /\ alive'[p]
    BY <1>1, <2>3 DEF OwnerInv, FirstIsNamed
  <2>4. CASE dbs' = dbs /\ result'[p].dir = result[p].dir
    BY <2>2, <2>4
  <2>5. clone[p] # NoStore
    BY DEF NoStore
  <2> QED
    BY <1>1, <2>2, <2>3, <2>4, <2>5, MakingGoesOn
<1>2. OwnerInv /\ OwnerInv' /\ [OwnerNext]_ownerVars => [Kept]_ownerVars
  BY <1>1
<1>3. LiveFilesKept <=> [][Kept]_ownerVars
  BY DEF LiveFilesKept
<1> HIDE DEF Kept
<1> QED
  BY <1>2, <1>3, OwnerInvHolds, PTL DEF OwnerSpec

\* A store is in the slot when its opening has swept what the dead left.
LEMMA OnlyOpenedFills ==
  ASSUME OwnerInv, [OwnerNext]_ownerVars, NEW p \in Servers, slot[p] = NoStore, slot'[p] # NoStore
  PROVE  Opened(p)
<1>1. slot \in [Servers -> HeldStores \cup {NoStore}]
  BY DEF OwnerInv, OwnerShape
<1>2. CASE \/ UNCHANGED ownerVars
           \/ \E d \in Dirs : TurnOff(d)
           \/ \E q \in Servers : UseSlot(q) \/ EndStoreCall(q) \/ CreateFile(q) \/ OpenFile(q)
                                 \/ UnlinkFile(q) \/ Die(q)
  BY <1>2 DEF TurnOff, UseSlot, EndStoreCall, CreateFile, OpenFile, UnlinkFile, Die
<1>3. ASSUME NEW q \in Servers, Opening(q)
      PROVE  Opened(p)
  <2>1. Opened(q)
    BY <1>3 DEF Opening, OpenLock, TryLock, CheckLock, ListLocks, ListDbs, OpenOwner,
       CheckOrphan, LockOwner, RemoveDbs, RemoveLock, RemoveOrphan, ListFails, FileFails
  <2>2. q = p
    BY <1>1, <2>1 DEF Opened
  <2> QED
    BY <2>1, <2>2
<1>4. ASSUME NEW q \in Servers, NEW d \in Dirs, ReplaceSlot(q, d) \/ TurnOn(q, d)
      PROVE  FALSE
  <2>1. slot' = [slot EXCEPT ![q] = NoStore] \/ slot' = slot
    BY <1>4 DEF ReplaceSlot, TurnOn
  <2> QED
    BY <1>1, <2>1
<1> QED
  BY <1>2, <1>3, <1>4 DEF OwnerNext

\* When a server has its store, nothing is left in the directory of those who
\* were dead when it listed it, lock files and databases, unless another sweep
\* had their lock meanwhile (sweep_at_startup).
THEOREM DeadFilesAreGone == OwnerSpec => DeadFilesGo
<1> DEFINE Gone == \A p \in Servers : slot[p] = NoStore /\ slot'[p] # NoStore =>
       \A s \in doomed[p] : s \notin dbs[slot'[p].dir] /\ locks[slot'[p].dir][s] = 0
<1>1. ASSUME OwnerInv, [OwnerNext]_ownerVars
      PROVE  Gone
  <2> SUFFICES ASSUME NEW p \in Servers, slot[p] = NoStore, slot'[p] # NoStore, NEW s \in doomed[p]
               PROVE  s \notin dbs[slot'[p].dir] /\ locks[slot'[p].dir][s] = 0
    OBVIOUS
  <2>1. Opened(p)
    BY <1>1, OnlyOpenedFills
  <2>2. LeftIsListed(p)
    BY <1>1, OwnerFields
  <2>3. slot'[p].dir = opening[p].dir
    BY <1>1, <2>1 DEF Opened, OwnerInv, OwnerShape
  <2> QED
    BY <2>1, <2>2, <2>3 DEF Opened, At, LeftIsListed
<1>2. OwnerInv /\ [OwnerNext]_ownerVars => [Gone]_ownerVars
  BY <1>1
<1>3. DeadFilesGo <=> [][Gone]_ownerVars
  BY DEF DeadFilesGo
<1> HIDE DEF Gone
<1> QED
  BY <1>2, <1>3, OwnerInvHolds, PTL DEF OwnerSpec
=============================================================================
