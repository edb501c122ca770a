----------------------------- MODULE ResultStore -----------------------------
(***************************************************************************)
(* One process's store of paged results (src/src/store/result_store):      *)
(* writers that materialise a result batch by batch, the registry that     *)
(* admits it within a byte budget and reclaims older ones, and readers     *)
(* that follow cursors.                                                    *)
(*                                                                         *)
(* The registry mutex covers the entries, the admitted bytes and the       *)
(* sequence numbers.  It does not cover an entry's last access and its     *)
(* delivered flag: a reader holds the entry and stores them after the page *)
(* was read, also when the entry has left the registry meanwhile.  So      *)
(* planning what to reclaim and removing it are two steps, with nothing    *)
(* but such a store in between.  Bytes are pages of a result's file; the   *)
(* counters of the decisions are left out.                                   *)
(***************************************************************************)
EXTENDS Integers, FiniteSets, Functions

CONSTANTS
  Results,    \* result ids; a uuid is drawn once only
  Readers,    \* threads that serve continuations
  RowSizes,   \* the sizes a row can have
  Budget,     \* max_result_store_bytes
  Grace,      \* active_grace_secs
  BatchRows, BatchBytes,  \* the writer looks at its file after this much
  MaxRows,    \* bound: rows of one result
  MaxClock    \* bound: values of the clock

NoResult == "none"

ASSUME StoreAssumption ==
  /\ IsFiniteSet(Results) /\ NoResult \notin Results
  /\ RowSizes \subseteq Nat \ {0} /\ Budget \in Nat /\ Grace \in Nat
  /\ BatchRows \in Nat \ {0} /\ BatchBytes \in Nat \ {0}
  /\ MaxRows \in Nat /\ MaxClock \in Nat

VARIABLES
  clock,      \* what the system clock shows
  writer,     \* per result: its writer's state
  access,     \* per result: its entry's last_access
  delivered,  \* per result: its entry's delivered flag
  seq,        \* per result: its entry's admission number
  registered, \* the ids in Registry.entries
  admitted,   \* admitted_bytes
  nextSeq,    \* next_seq
  plan,       \* the admission that holds the registry mutex, and its victims
  reader,     \* per reader: its call
  issued,     \* per result: the ordinals of the cursors given to clients
  offered     \* observer: rows the caller gave the writer

storeVars == <<clock, writer, access, delivered, seq, registered, admitted,
               nextSeq, plan, reader, issued, offered>>

NoPlan == [of |-> NoResult, victims |-> {}]
Resting == [pc |-> "idle", id |-> NoResult, from |-> 0, next |-> -1, at |-> 0]
Fresh == [pc |-> "none", rows |-> 0, bytes |-> 0, newRows |-> 0, newBytes |-> 0,
          failed |-> FALSE, now |-> 0]
Ended(how) == [Fresh EXCEPT !.pc = how]
FileBytes == [r \in Results |-> writer[r].bytes]

StoreTypeOK ==
  /\ clock \in 0..MaxClock
  /\ \A r \in Results :
       /\ writer[r].pc \in {"none", "open", "committed", "admit", "entry", "full", "too_large", "gone"}
       /\ writer[r].rows \in 0..MaxRows /\ writer[r].bytes \in Nat
       /\ issued[r] \subseteq 0..MaxRows
  /\ access \in [Results -> 0..MaxClock]
  /\ delivered \in [Results -> BOOLEAN]
  /\ registered \subseteq Results
  /\ admitted \in 0..Budget
  /\ nextSeq \in 0..Cardinality(Results)
  /\ plan.of \in Results \cup {NoResult} /\ plan.victims \subseteq registered
  /\ \A d \in Readers : reader[d].pc \in {"idle", "lookup", "read", "serve"}

StoreInit ==
  /\ clock = 0
  /\ writer = [r \in Results |-> Fresh]
  /\ access = [r \in Results |-> 0]
  /\ delivered = [r \in Results |-> FALSE]
  /\ seq = [r \in Results |-> 0]
  /\ registered = {} /\ admitted = 0 /\ nextSeq = 0
  /\ plan = NoPlan
  /\ reader = [d \in Readers |-> Resting]
  /\ issued = [r \in Results |-> {}]
  /\ offered = [r \in Results |-> 0]

Tick ==
  /\ clock < MaxClock
  /\ clock' = clock + 1
  /\ UNCHANGED <<writer, access, delivered, seq, registered, admitted, nextSeq,
                 plan, reader, issued, offered>>

-----------------------------------------------------------------------------
(* The admission policy (registry.rs).                                      *)

Delivered(r) == delivered[r]
Idle(r, now) == ~delivered[r] /\ now - access[r] > Grace
Active(r, now) == ~Delivered(r) /\ ~Idle(r, now)

\* What an admission may reclaim, and in which order: delivered results first,
\* each kind from the longest unread to the latest.
Candidates(now) == {r \in registered : ~Active(r, now)}

\* Wrong variant: idle results go first.
IdleFirst(r, s) ==
  \/ delivered[s] /\ ~delivered[r]
  \/ delivered[s] = delivered[r] /\ access[r] < access[s]
  \/ delivered[s] = delivered[r] /\ access[r] = access[s] /\ seq[r] < seq[s]
Before(r, s) ==
  \/ delivered[r] /\ ~delivered[s]
  \/ delivered[r] = delivered[s] /\ access[r] < access[s]
  \/ delivered[r] = delivered[s] /\ access[r] = access[s] /\ seq[r] < seq[s]

Used(removed) == admitted - SumFunctionOnSet(FileBytes, removed)

\* Those candidates whose predecessors do not make room enough.
PlanReclaim(bytes, now) ==
  {r \in Candidates(now) :
     Used({s \in Candidates(now) : Before(s, r)}) + bytes > Budget}

TooLarge(r) == writer[r].bytes > Budget

\* admit under the registry mutex: refused, or what to reclaim is settled.
Plan(r) ==
  /\ writer[r].pc = "admit" /\ plan = NoPlan
  /\ LET victims == PlanReclaim(writer[r].bytes, writer[r].now)
         fits == Used(victims) + writer[r].bytes <= Budget
     IN \/ /\ TooLarge(r)
           /\ writer' = [writer EXCEPT ![r] = Ended("too_large")]
           /\ UNCHANGED plan
        \/ /\ ~TooLarge(r) /\ ~fits
           /\ writer' = [writer EXCEPT ![r] = Ended("full")]
           /\ UNCHANGED plan
        \/ /\ ~TooLarge(r) /\ fits
           /\ plan' = [of |-> r, victims |-> victims]
           /\ UNCHANGED writer
  /\ UNCHANGED <<clock, access, delivered, seq, registered, admitted, nextSeq,
                 reader, issued, offered>>

\* Wrong variant: the bytes of what was reclaimed stay charged.
StillCharged(r) == admitted + writer[r].bytes
Charge(r) == Used(plan.victims) + writer[r].bytes

\* ... and carried out; the client then gets its first cursor.
Admit(r) ==
  /\ plan.of = r
  /\ registered' = (registered \ plan.victims) \cup {r}
  /\ admitted' = Charge(r)
  /\ seq' = [seq EXCEPT ![r] = nextSeq]
  /\ nextSeq' = nextSeq + 1
  /\ plan' = NoPlan
  /\ writer' = [writer EXCEPT ![r].pc = "entry"]
  /\ issued' = [issued EXCEPT ![r] = {0}]
  /\ UNCHANGED <<clock, access, delivered, reader, offered>>

-----------------------------------------------------------------------------
(* The writer (writer.rs).                                                  *)

Begin(r) ==
  /\ writer[r].pc = "none"
  /\ writer' = [writer EXCEPT ![r].pc = "open"]
  /\ UNCHANGED <<clock, access, delivered, seq, registered, admitted, nextSeq,
                 plan, reader, issued, offered>>

\* The row of this size fills a batch.
BatchEnds(w, size) == w.newRows + 1 >= BatchRows \/ w.newBytes + size >= BatchBytes

\* The row goes in, and after a batch the file is measured.
Stored(w, size) ==
  [w EXCEPT !.rows = @ + 1, !.bytes = @ + size,
            !.failed = BatchEnds(w, size) /\ w.bytes + size > Budget,
            !.newRows = IF BatchEnds(w, size) THEN 0 ELSE @ + 1,
            !.newBytes = IF BatchEnds(w, size) THEN 0 ELSE @ + size]

\* push: a row of the wrong width, or an I/O error, fails the writer like an
\* oversized file.
Push(r, size) ==
  /\ writer[r].pc = "open" /\ offered[r] < MaxRows
  /\ offered' = [offered EXCEPT ![r] = @ + 1]
  /\ \/ ~writer[r].failed /\ writer' = [writer EXCEPT ![r] = Stored(@, size)]
     \/ writer' = [writer EXCEPT ![r].failed = TRUE]
  /\ UNCHANGED <<clock, access, delivered, seq, registered, admitted, nextSeq,
                 plan, reader, issued>>

Usable(r) == ~writer[r].failed

\* finish: the metadata is written last, the file committed and measured.
Finish(r) ==
  /\ writer[r].pc = "open" /\ Usable(r)
  /\ writer' = [writer EXCEPT ![r].pc = "committed"]
  /\ access' = [access EXCEPT ![r] = clock]
  /\ UNCHANGED <<clock, delivered, seq, registered, admitted, nextSeq, plan,
                 reader, issued, offered>>

\* The admission's own reading of the clock.
ReadClock(r) ==
  /\ writer[r].pc = "committed"
  /\ writer' = [writer EXCEPT ![r].pc = "admit", ![r].now = clock]
  /\ UNCHANGED <<clock, access, delivered, seq, registered, admitted, nextSeq,
                 plan, reader, issued, offered>>

\* The writer is dropped: after a failure, or with the call that owns it.
Abort(r) ==
  /\ writer[r].pc \in {"open", "committed"}
  /\ writer' = [writer EXCEPT ![r] = Ended("gone")]
  /\ UNCHANGED <<clock, access, delivered, seq, registered, admitted, nextSeq,
                 plan, reader, issued, offered>>

-----------------------------------------------------------------------------
(* Reading a page (store.rs lookup, reader.rs).                             *)

\* A client continues with a cursor it was given, again or for the first time.
\* (A made-up one past the end is refused in the first read: Paging.)
Continue(d, r, ord) ==
  /\ reader[d].pc = "idle"
  /\ ord \in issued[r]
  /\ reader' = [reader EXCEPT ![d] = [Resting EXCEPT !.pc = "lookup", !.id = r, !.from = ord]]
  /\ UNCHANGED <<clock, writer, access, delivered, seq, registered, admitted,
                 nextSeq, plan, issued, offered>>

\* tool_of and read_page look the result up one after the other; a result
\* reclaimed before the last of them is Expired.  Found, it is kept alive.
Lookup(d) ==
  /\ reader[d].pc = "lookup" /\ plan = NoPlan
  /\ reader' = [reader EXCEPT ![d] =
                  IF @.id \in registered THEN [@ EXCEPT !.pc = "read"] ELSE Resting]
  /\ UNCHANGED <<clock, writer, access, delivered, seq, registered, admitted,
                 nextSeq, plan, issued, offered>>

\* Wrong variant: a page that took the last row still continues.
AlwaysContinues(next, rows) == next
NextOrd(next, rows) == IF next = rows THEN -1 ELSE next

\* Rows from the cursor on until the page is full, at least one if there is
\* one; then the clock is read.
ReadRows(d) ==
  LET id == reader[d].id
      rows == writer[id].rows
  IN /\ reader[d].pc = "read"
     /\ \/ \E upto \in reader[d].from + 1 .. rows :
             reader' = [reader EXCEPT ![d].pc = "serve", ![d].at = clock,
                                      ![d].next = NextOrd(upto, rows)]
        \/ /\ reader[d].from = rows
           /\ reader' = [reader EXCEPT ![d].pc = "serve", ![d].at = clock, ![d].next = -1]
     /\ UNCHANGED <<clock, writer, access, delivered, seq, registered, admitted,
                    nextSeq, plan, issued, offered>>

\* served, without the registry mutex, and the page goes out.
Serve(d) ==
  LET id == reader[d].id
  IN /\ reader[d].pc = "serve"
     /\ access' = [access EXCEPT ![id] = reader[d].at]
     /\ delivered' = [delivered EXCEPT ![id] = @ \/ reader[d].next = -1]
     /\ issued' = [issued EXCEPT ![id] = @ \cup ({reader[d].next} \ {-1})]
     /\ reader' = [reader EXCEPT ![d] = Resting]
     /\ UNCHANGED <<clock, writer, seq, registered, admitted, nextSeq, plan, offered>>

StoreNext ==
  \/ Tick
  \/ \E r \in Results :
       \/ Begin(r)
       \/ \E size \in RowSizes : Push(r, size)
       \/ Finish(r)
       \/ ReadClock(r)
       \/ Plan(r)
       \/ Admit(r)
       \/ Abort(r)
  \/ \E d \in Readers :
       \/ \E r \in Results : \E ord \in 0..MaxRows : Continue(d, r, ord)
       \/ Lookup(d)
       \/ ReadRows(d)
       \/ Serve(d)

StoreSpec == StoreInit /\ [][StoreNext]_storeVars

-----------------------------------------------------------------------------
(* Properties.                                                              *)

\* The admitted bytes are those of the registered results, never more than
\* the budget, whatever was reclaimed, refused or read meanwhile, and the
\* state keeps its shape.
AdmittedIsHeld == StoreTypeOK /\ admitted = SumFunctionOnSet(FileBytes, registered) /\ admitted <= Budget

\* A registered result has every row its tool produced, a writer that failed
\* half-way being never admitted, and a cursor a client holds starts at a row:
\* no continuation is empty, except of a result without rows.
ResultsAreWhole ==
  /\ \A r \in registered : writer[r].rows = offered[r]
  /\ \A r \in Results : \A ord \in issued[r] : ord < writer[r].rows \/ ord = 0

\* An admission plans to reclaim only results read to their end, or unread for
\* longer than the grace period since their last page, however long ago it read
\* the clock itself.  A result not read to its end is reclaimed only when every
\* one that was read to its end goes as well, and Full is answered only when the results
\* that are active by the admission's own clock leave too little room for it
\* (plan_reclaim, all or nothing).
ReclaimIsFair ==
  [][\A r \in Results :
       /\ r \in plan'.victims \ plan.victims /\ ~delivered[r]
            => clock - access[r] > Grace /\ {s \in registered : delivered[s]} \subseteq plan'.victims
       /\ writer[r].pc = "admit" /\ writer'[r].pc = "full"
            => SumFunctionOnSet(FileBytes, {s \in registered : Active(s, writer[r].now)})
                 + writer[r].bytes > Budget]_storeVars

-----------------------------------------------------------------------------
(* The inductive invariant behind the properties.                           *)

Writers == [pc : {"none", "open", "committed", "admit", "entry", "full", "too_large", "gone"},
            rows : 0..MaxRows, bytes : Nat, newRows : Nat, newBytes : Nat,
            failed : BOOLEAN, now : 0..MaxClock]
Calls == [pc : {"idle", "lookup", "read", "serve"}, id : Results \cup {NoResult},
          from : 0..MaxRows, next : -1..MaxRows, at : 0..MaxClock]
Entries == {r \in Results : writer[r].pc = "entry"}

StoreShape ==
  /\ clock \in 0..MaxClock
  /\ writer \in [Results -> Writers]
  /\ access \in [Results -> 0..MaxClock]
  /\ delivered \in [Results -> BOOLEAN]
  /\ seq \in [Results -> Nat]
  /\ registered \subseteq Results
  /\ admitted \in Nat /\ nextSeq \in Nat
  /\ plan \in [of : Results \cup {NoResult}, victims : SUBSET registered]
  /\ reader \in [Readers -> Calls]
  /\ issued \in [Results -> SUBSET (0..MaxRows)]
  /\ offered \in [Results -> 0..MaxRows]

\* A writer that did not fail has the rows it was given, and one past its
\* commit did not fail; an admission's clock was read before.
Whole(w, given, now) ==
  /\ w.rows <= given
  /\ w.pc \in {"committed", "admit", "entry"} => ~w.failed
  /\ w.pc = "none" => given = 0 /\ ~w.failed
  /\ w.pc \in {"open", "committed", "admit", "entry"} /\ ~w.failed => w.rows = given
  /\ w.pc = "admit" => w.now <= now
WritersWhole == \A r \in Results : Whole(writer[r], offered[r], clock)

\* The registry's counters count its entries, none of which is written to.
EntriesHeld ==
  /\ registered \subseteq Entries
  /\ admitted = SumFunctionOnSet(FileBytes, registered) /\ admitted <= Budget
  /\ nextSeq = Cardinality(Entries)

\* What an admission has settled still fits when it is carried out.
PlanFits ==
  /\ plan.of = NoResult => plan = NoPlan
  /\ plan.of # NoResult =>
       /\ writer[plan.of].pc = "admit"
       /\ SumFunctionOnSet(FileBytes, registered \ plan.victims) + writer[plan.of].bytes <= Budget

\* Cursors exist of admitted results only, and start at one of their rows.
CursorsHold ==
  /\ \A r \in Results : issued[r] # {} => r \in Entries
  /\ \A r \in Results : \A ord \in issued[r] : ord < writer[r].rows \/ ord = 0
  /\ \A d \in Readers :
       /\ reader[d].pc # "idle" => reader[d].id \in Entries
       /\ reader[d].pc \in {"lookup", "read"} => reader[d].from \in issued[reader[d].id]
       /\ reader[d].pc = "serve" /\ reader[d].next # -1
            => reader[d].next \in 0 .. writer[reader[d].id].rows - 1

StoreInv == StoreShape /\ WritersWhole /\ EntriesHeld /\ PlanFits /\ CursorsHold
=============================================================================
