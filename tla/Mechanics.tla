------------------------------- MODULE Mechanics -------------------------------
(***************************************************************************)
(* The session's registered mechanics and the cache of their scans         *)
(* (src/src/tools/mechanic*.rs, src/src/project/mechanic_scan_cache.rs,    *)
(* src/src/tools/leads_custom.rs), used by concurrent calls of one server. *)
(*                                                                         *)
(* Two mutexes, never held together: one over the entries, one over the    *)
(* cache.  A leads call takes its catalog, opens its read of the index,    *)
(* asks the cache for each selected entry, scans the missed ones in one    *)
(* pass over the files, caches what it may, and streams the rows, scanning *)
(* again for an entry whose rows it could not hold.  Adding an entry is    *)
(* such a call between two checks.                                         *)
(*                                                                         *)
(* The scan of a query over the files of some content is known by both; a  *)
(* row is charged RowCost of its query.  Failing compilations, unknown ids *)
(* and the counters of the cache are left out.                             *)
(***************************************************************************)
EXTENDS Integers, Sequences, FiniteSets, SequencesExt, FiniteSetsExt

CONSTANTS
  Callers,      \* threads that serve calls
  MechanicIds, Queries,
  RowCost,      \* per query: bytes of its row in one file
  EntryCost,    \* bytes of a cached entry besides its rows
  CacheBudget,
  SessionCap,   \* MAX_SESSION_MECHANICS
  FileCount,    \* files of the language
  MaxContent,   \* bound: contents the project has
  MaxCalls      \* bound: calls

ASSUME MechanicsAssumption ==
  /\ RowCost \in [Queries -> Nat] /\ EntryCost \in Nat /\ CacheBudget \in Nat
  /\ SessionCap \in Nat /\ FileCount \in Nat /\ MaxContent \in Nat /\ MaxCalls \in Nat

VARIABLES
  mechanics,  \* SessionMechanics.entries
  cached,     \* the cache's entries, oldest first
  cacheBytes, \* and what they are charged
  database,   \* the project's current revision and the content it indexes
  caller,     \* per thread: its call
  calls       \* counter of the bound

mechanicsVars == <<mechanics, cached, cacheBytes, database, caller, calls>>

Entry == [id : MechanicIds, query : Queries]
Unscanned == [query |-> "none", content |-> 0, files |-> 0]
Waiting == [pc |-> "idle", adds |-> FALSE, selected |-> <<>>, read |-> [revision |-> 0, content |-> 0],
            todo |-> {}, missed |-> {}, held |-> [i \in {} |-> Unscanned], stopped |-> FALSE]
ScanBytes(rows) == EntryCost + rows.files * RowCost[rows.query]

MechanicsTypeOK ==
  /\ mechanics \in Seq(Entry)
  /\ \A i \in DOMAIN cached : cached[i].key \in [id : MechanicIds, query : Queries, revision : 1..MaxContent]
  /\ cacheBytes \in 0..CacheBudget
  /\ database.revision \in 1..MaxContent /\ database.content \in 1..MaxContent
  /\ \A t \in Callers : caller[t].pc \in {"idle", "open", "get", "insert", "done",
                                          "push", "forget", "drop"}

MechanicsInit ==
  /\ mechanics = <<>> /\ cached = <<>> /\ cacheBytes = 0
  /\ database = [revision |-> 1, content |-> 1]
  /\ caller = [t \in Callers |-> Waiting]
  /\ calls = 0

-----------------------------------------------------------------------------
(* The cache (mechanic_scan_cache.rs).                                      *)

Charged(entries) ==
  SumFunctionOnSet([i \in DOMAIN entries |-> ScanBytes(entries[i].rows)], DOMAIN entries)

\* What of a sequence is in a set, in its order.
Among(s, S) == FoldLeft(LAMBDA left, e : IF e \in S THEN Append(left, e) ELSE left, <<>>, s)

\* Wrong variant: entries of other revisions stay.
KeepStale(entries, revision) == entries
\* drop_stale: what was cached at another revision of the project goes.
DropStale(entries, revision) ==
  Among(entries, {e \in ToSet(entries) : e.key.revision = revision})

\* Wrong variant: an id is the same whatever its query.
SameId(k, key) == k.id = key.id /\ k.revision = key.revision
SameKey(k, key) == k = key

\* What the counter says once entries were dropped as stale: the sum anew.
Recounted(left) == IF left = cached THEN cacheBytes ELSE Charged(left)
\* And once some were taken out one by one (saturating_sub).
Uncharged(counted, taken) == IF Charged(taken) < counted THEN counted - Charged(taken) ELSE 0

\* How many of the oldest go until the new one fits, by the counter.
Evicted(entries, counted, bytes) ==
  LET fits(n) == n = Len(entries) \/ Uncharged(counted, SubSeq(entries, 1, n)) + bytes <= CacheBudget
  IN CHOOSE n \in 0..Len(entries) : fits(n) /\ \A m \in 0..n - 1 : ~fits(m)

\* The key of a mechanic's scan by a call, in the one project.
KeyOf(t, entry) == [id |-> entry.id, query |-> entry.query, revision |-> caller[t].read.revision]

CacheInsert(key, rows) ==
  LET bytes == ScanBytes(rows)
      fresh == DropStale(cached, key.revision)
      old == {e \in ToSet(fresh) : SameKey(e.key, key)}
      others == Among(fresh, ToSet(fresh) \ old)
      counted == Uncharged(Recounted(fresh), Among(fresh, old))
      n == Evicted(others, counted, bytes)
  IN IF bytes > CacheBudget THEN cached' = fresh /\ cacheBytes' = Recounted(fresh)
     ELSE /\ cached' = Append(SubSeq(others, n + 1, Len(others)), [key |-> key, rows |-> rows])
          /\ cacheBytes' = Uncharged(counted, SubSeq(others, 1, n)) + bytes

-----------------------------------------------------------------------------
(* Scanning (mechanic_scan.rs, mechanic_scan_cached.rs).                    *)

GiveUp(keep) == [keep EXCEPT !.files = 0, !.overflowed = TRUE]

\* The bytes of all the rows a pass holds.
RetainedBytes(pass) == MapThenSumSet(LAMBDA e : pass[e].files * RowCost[e.query], DOMAIN pass)

\* Pass.offer for the row of one entry in one file; the budget is shared.
Offer(pass, entry) ==
  LET keep == pass[entry]
  IN IF keep.overflowed THEN pass
     ELSE IF RetainedBytes(pass) + RowCost[entry.query] > CacheBudget
       THEN [pass EXCEPT ![entry] = GiveUp(keep)]
       ELSE [pass EXCEPT ![entry].files = @ + 1]

\* The pass over the first files: file by file, and in each the entries in order.
OfferFile(pass, entries) == FoldLeft(Offer, pass, entries)
NothingRetained(entries) == [e \in ToSet(entries) |-> [files |-> 0, overflowed |-> FALSE]]
RetainedAfter(files, entries) ==
  FoldLeft(LAMBDA pass, i : OfferFile(pass, entries), NothingRetained(entries), [i \in 1..files |-> i])

AllRows(query, content) == [query |-> query, content |-> content, files |-> FileCount]
Missed(t) == Among(caller[t].selected, caller[t].missed)

-----------------------------------------------------------------------------
(* A leads call, and the one an add makes.                                  *)

IsFree(id) == /\ \A i \in DOMAIN mechanics : mechanics[i].id # id
              /\ Len(mechanics) < SessionCap

\* The catalog as it is now: one entry of it, or all.
BeginLeads(t) ==
  /\ caller[t].pc = "idle" /\ calls < MaxCalls
  /\ \E selected \in {mechanics} \cup {<<mechanics[i]>> : i \in DOMAIN mechanics} :
       caller' = [caller EXCEPT ![t] = [Waiting EXCEPT !.pc = "open", !.selected = selected]]
  /\ calls' = calls + 1
  /\ UNCHANGED <<mechanics, cached, cacheBytes, database>>

\* add: check_free, then the count with the candidate selected.
BeginAdd(t, entry) ==
  /\ caller[t].pc = "idle" /\ calls < MaxCalls
  /\ IsFree(entry.id)
  /\ caller' = [caller EXCEPT ![t] = [Waiting EXCEPT !.pc = "open", !.adds = TRUE,
                                                     !.selected = <<entry>>]]
  /\ calls' = calls + 1
  /\ UNCHANGED <<mechanics, cached, cacheBytes, database>>

\* with_verified_read: everything below is read from this revision.
OpenRead(t) ==
  /\ caller[t].pc = "open"
  /\ caller' = [caller EXCEPT ![t].pc = "get", ![t].read = database,
                              ![t].todo = ToSet(caller[t].selected)]
  /\ UNCHANGED <<mechanics, cached, cacheBytes, database, calls>>

\* tally_cached asks for one entry after the other.
GetCached(t, entry) ==
  LET fresh == DropStale(cached, caller[t].read.revision)
      found == {i \in DOMAIN fresh : SameKey(fresh[i].key, KeyOf(t, entry))}
  IN /\ caller[t].pc = "get" /\ entry \in caller[t].todo
     /\ cached' = fresh /\ cacheBytes' = Recounted(fresh)
     /\ caller' = [caller EXCEPT
          ![t].todo = @ \ {entry},
          ![t].missed = IF found = {} THEN @ \cup {entry} ELSE @,
          ![t].held = IF found = {} THEN @
                      ELSE [e \in DOMAIN @ \cup {entry} |->
                              IF e = entry THEN fresh[CHOOSE i \in found : TRUE].rows ELSE @[e]]]
     /\ UNCHANGED <<mechanics, database, calls>>

\* scan: all files, or those before the deadline; rows of overflowed entries are
\* given up.
ScanMissed(t) ==
  /\ caller[t].pc = "get" /\ caller[t].todo = {}
  /\ \E upto \in 0..FileCount :
       LET pass == RetainedAfter(upto, Missed(t))
           keeps == {e \in caller[t].missed : ~pass[e].overflowed}
           held == [e \in DOMAIN caller[t].held \cup keeps |->
                      IF e \in keeps
                        THEN [query |-> e.query, content |-> caller[t].read.content,
                              files |-> pass[e].files]
                        ELSE caller[t].held[e]]
       IN /\ caller[t].missed = {} => upto = FileCount
          /\ caller' = [caller EXCEPT ![t].held = held, ![t].stopped = upto < FileCount,
                          ![t].pc = "insert", ![t].missed = @ \cap keeps]
  /\ UNCHANGED <<mechanics, cached, cacheBytes, database, calls>>

Caches(t) == ~caller[t].stopped

InsertRows(t, entry) ==
  /\ caller[t].pc = "insert" /\ entry \in caller[t].missed /\ Caches(t)
  /\ CacheInsert(KeyOf(t, entry), caller[t].held[entry])
  /\ caller' = [caller EXCEPT ![t].missed = @ \ {entry}]
  /\ UNCHANGED <<mechanics, database, calls>>

\* The rows held are streamed; another entry is scanned again, which fails the
\* call when the deadline has passed.
StreamRows(t) ==
  LET again == {e \in ToSet(caller[t].selected) : e \notin DOMAIN caller[t].held}
      whole == [e \in DOMAIN caller[t].held \cup again |->
                  IF e \in again THEN AllRows(e.query, caller[t].read.content)
                  ELSE caller[t].held[e]]
  IN /\ caller[t].pc = "insert" /\ (caller[t].missed = {} \/ ~Caches(t))
     /\ \/ /\ again = {} \/ ~caller[t].stopped \/ FileCount = 0
           /\ caller' = [caller EXCEPT ![t].held = whole, ![t].pc = "done"]
        \/ /\ again # {} /\ caller' = [caller EXCEPT ![t] = Waiting]
     /\ UNCHANGED <<mechanics, cached, cacheBytes, database, calls>>

\* The response goes out; an add registers its entry first.
EndLeads(t) ==
  /\ caller[t].pc = "done"
  /\ caller' = [caller EXCEPT ![t] = IF caller[t].adds THEN [Waiting EXCEPT !.pc = "push",
                                                             !.selected = caller[t].selected]
                                     ELSE Waiting]
  /\ UNCHANGED <<mechanics, cached, cacheBytes, database, calls>>

\* The second check, under the lock that also holds for the push.
StillFree(id) == IsFree(id)

PushEntry(t) ==
  LET entry == caller[t].selected[1]
  IN /\ caller[t].pc = "push"
     /\ mechanics' = IF StillFree(entry.id) THEN Append(mechanics, entry) ELSE mechanics
     /\ caller' = [caller EXCEPT ![t] = Waiting]
     /\ UNCHANGED <<cached, cacheBytes, database, calls>>

-----------------------------------------------------------------------------
(* remove: it is registered; its cached scans go; the entry goes.           *)

BeginRemove(t, id) ==
  /\ caller[t].pc = "idle" /\ calls < MaxCalls
  /\ \E i \in DOMAIN mechanics :
       /\ mechanics[i].id = id
       /\ caller' = [caller EXCEPT ![t] = [Waiting EXCEPT !.pc = "forget",
                                                          !.selected = <<mechanics[i]>>]]
  /\ calls' = calls + 1
  /\ UNCHANGED <<mechanics, cached, cacheBytes, database>>

ForgetScans(t) ==
  LET left == Among(cached, {e \in ToSet(cached) : e.key.id # caller[t].selected[1].id})
  IN /\ caller[t].pc = "forget"
     /\ cached' = left /\ cacheBytes' = Charged(left)
     /\ caller' = [caller EXCEPT ![t].pc = "drop"]
     /\ UNCHANGED <<mechanics, database, calls>>

\* By id: an entry added again meanwhile goes instead.
DropEntry(t) ==
  /\ caller[t].pc = "drop"
  /\ mechanics' = Among(mechanics, {e \in ToSet(mechanics) : e.id # caller[t].selected[1].id})
  /\ caller' = [caller EXCEPT ![t] = Waiting]
  /\ UNCHANGED <<cached, cacheBytes, database, calls>>

-----------------------------------------------------------------------------
(* The index.                                                               *)

\* An edit is published as the next revision.
PublishEdit ==
  /\ database.content < MaxContent
  /\ database' = [revision |-> database.revision + 1, content |-> database.content + 1]
  /\ UNCHANGED <<mechanics, cached, cacheBytes, caller, calls>>

\* The project is turned off and on, or its database found unusable: the new
\* one counts its revisions from 1 again.
RebuildIndex ==
  /\ database.content < MaxContent
  /\ database' = [revision |-> 1, content |-> database.content + 1]
  /\ UNCHANGED <<mechanics, cached, cacheBytes, caller, calls>>

MechanicsNext ==
  \/ \E t \in Callers :
       \/ BeginLeads(t)
       \/ \E entry \in Entry : \/ BeginAdd(t, entry)
                               \/ GetCached(t, entry)
                               \/ InsertRows(t, entry)
       \/ OpenRead(t)
       \/ ScanMissed(t)
       \/ StreamRows(t)
       \/ EndLeads(t)
       \/ PushEntry(t)
       \/ \E id \in MechanicIds : BeginRemove(t, id)
       \/ ForgetScans(t)
       \/ DropEntry(t)
  \/ PublishEdit
  \/ RebuildIndex

MechanicsSpec == MechanicsInit /\ [][MechanicsNext]_mechanicsVars

-----------------------------------------------------------------------------
(* Properties.                                                              *)

RegisteredOnce ==
  /\ Len(mechanics) <= SessionCap
  /\ \A i, j \in DOMAIN mechanics : mechanics[i].id = mechanics[j].id => i = j

\* The cache holds scans of every file only, all of one revision, and is
\* charged for what it holds and stays within its budget, however deadlines,
\* overflows and concurrent calls fall (mechanic_scan_cache.rs: "a stale result can neither be served nor linger").
\* Ids are registered once and the cap holds, also when adds race.
CacheIsSound ==
  /\ RegisteredOnce
  /\ cacheBytes = Charged(cached) /\ cacheBytes <= CacheBudget
  /\ \A i \in DOMAIN cached : cached[i].rows.files = FileCount
  /\ \A i, j \in DOMAIN cached : cached[i].key.revision = cached[j].key.revision

\* A call that reports no stop answers each selected mechanic with the rows of
\* its own query in every file, also when the id was removed and added anew
\* with another query while scans of the old one were running.
AnswersAreWhole ==
  \A t \in Callers : caller[t].pc = "done" =>
    \A i \in DOMAIN caller[t].selected :
      LET rows == caller[t].held[caller[t].selected[i]]
      IN /\ rows.query = caller[t].selected[i].query
         /\ ~caller[t].stopped => rows.files = FileCount

\* A call answers from the index it read (mechanic_scan_cache.rs: "a stale
\* result can neither be served nor linger").
AnswersAreCurrent ==
  \A t \in Callers : caller[t].pc = "done" =>
    \A e \in DOMAIN caller[t].held : caller[t].held[e].content = caller[t].read.content

-----------------------------------------------------------------------------
(* The inductive invariant behind the two.                                  *)

Unique(entries) == \A i, j \in DOMAIN entries : entries[i].id = entries[j].id => i = j
ScanRows == [query : Queries, content : Nat, files : Nat]
CachedScans == [key : [id : MechanicIds, query : Queries, revision : Nat], rows : ScanRows]
ScanSteps == {"idle", "open", "get", "insert", "done", "push", "forget", "drop"}

CallShape(c) ==
  /\ c \in [pc : ScanSteps, adds : BOOLEAN, selected : Seq(Entry),
            read : [revision : Nat, content : Nat], todo : SUBSET Entry, missed : SUBSET Entry,
            held : {c.held}, stopped : BOOLEAN]
  /\ c.held \in [DOMAIN c.held -> ScanRows]

MechanicsShape ==
  /\ mechanics \in Seq(Entry) /\ cached \in Seq(CachedScans)
  /\ database \in [revision : Nat, content : Nat] /\ calls \in Nat
  /\ caller = [t \in Callers |-> caller[t]]

\* Scans of every file, each of its key's query, all of one revision.
WholeScans(entries) ==
  /\ \A i \in DOMAIN entries :
       entries[i].rows.files = FileCount /\ entries[i].rows.query = entries[i].key.query
  /\ \A i, j \in DOMAIN entries : entries[i].key.revision = entries[j].key.revision

CacheHolds ==
  /\ cacheBytes = Charged(cached) /\ cacheBytes <= CacheBudget
  /\ WholeScans(cached)

\* What a call holds answers its own entries, and each it selected is held, to
\* be asked for, or missed.
CallHolds(c) ==
  LET selected == ToSet(c.selected) IN
  /\ CallShape(c) /\ Unique(c.selected)
  /\ c.todo \subseteq selected /\ c.missed \subseteq selected /\ DOMAIN c.held \subseteq selected
  /\ \A e \in DOMAIN c.held :
       /\ c.held[e].query = e.query
       /\ ~c.stopped => c.held[e].files = FileCount
  /\ c.adds \/ c.pc \in {"push", "forget", "drop"} => c.selected # <<>>
  /\ c.pc \in {"open", "get"} => ~c.stopped
  /\ c.pc = "get" => selected = c.todo \cup c.missed \cup DOMAIN c.held
  /\ c.pc = "insert" => c.missed \subseteq DOMAIN c.held
  /\ c.pc = "done" => selected = DOMAIN c.held

MechanicsInv ==
  /\ MechanicsShape /\ RegisteredOnce /\ CacheHolds
  /\ \A t \in Callers : CallHolds(caller[t])
=============================================================================
