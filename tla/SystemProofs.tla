----------------------------- MODULE SystemProofs -----------------------------
(* Proofs about what runs around the index: the permits, counters and progress *)
(* events of a server's calls (Server), the installed binary (Binary), the     *)
(* registrations with the clients (Clients), the analysis of a pass, with its  *)
(* caps on evidence and its gate on grammar fetches (Analysis), what the tools *)
(* report of its rows (Reports), and the import edges of a revision (Edges).   *)
EXTENDS Server, Binary, Clients, Reports, Edges, FoldProofs, SequenceTheorems

(***************************************************************************)
(* Server.                                                                 *)
(***************************************************************************)

LEMMA ServerStarts == ServerInit => ServerInv
<1> SUFFICES ASSUME ServerInit
             PROVE  ServerInv
  OBVIOUS
<1>1. Holders = {}
  BY DEF ServerInit, Holders
<1>2. PermitsAdd
  BY <1>1, FS_EmptySet, ServerAssumption DEF PermitsAdd, ServerInit
<1>3. ServerShape
  BY ServerAssumption DEF ServerInit, ServerShape, Counts
<1>4. ASSUME NEW c \in ToolCalls
      PROVE  PermitIsUsed(c) /\ CountsMove(c) /\ Spaced(passed[c], last[c])
  BY <1>4 DEF ServerInit, PermitIsUsed, CountsMove, Counts, Spaced
<1> QED
  BY <1>2, <1>3, <1>4 DEF ServerInv, ServerInit

\* A permit taken from the semaphore, and one given back.
LEMMA PermitTaken ==
  ASSUME ServerShape, PermitsAdd, NEW c \in ToolCalls, permit[c] = "none", free > 0,
         permit' = [permit EXCEPT ![c] = "future"], free' = free - 1
  PROVE  PermitsAdd' /\ permit' \in [ToolCalls -> {"none", "future", "work"}] /\ free' \in Nat
<1>1. Holders' = Holders \cup {c} /\ c \notin Holders
  BY DEF Holders, ServerShape
<1>2. IsFiniteSet(Holders') /\ Cardinality(Holders') = Cardinality(Holders) + 1
  BY <1>1, FS_AddElement DEF PermitsAdd
<1>3. Cardinality(Holders) \in Nat
  BY FS_CardinalityType DEF PermitsAdd
<1>4. PermitsAdd' /\ free' \in Nat
  BY <1>2, <1>3, ServerAssumption DEF PermitsAdd, ServerShape
<1> QED
  BY <1>4 DEF ServerShape

LEMMA PermitGiven ==
  ASSUME ServerShape, PermitsAdd, NEW c \in ToolCalls, NEW holder \in {"future", "work"},
         Release(c, holder)
  PROVE  /\ PermitsAdd' /\ free' \in Nat /\ permit' \in [ToolCalls -> {"none", "future", "work"}]
         /\ \A d \in ToolCalls : permit'[d] = IF d = c /\ permit[c] = holder THEN "none" ELSE permit[d]
<1>1. CASE permit[c] = holder
  <2>1. permit' = [permit EXCEPT ![c] = "none"] /\ free' = free + 1
    BY <1>1 DEF Release
  <2>2. Holders' = Holders \ {c} /\ c \in Holders
    BY <1>1, <2>1 DEF Holders, ServerShape
  <2>3. IsFiniteSet(Holders') /\ Cardinality(Holders') = Cardinality(Holders) - 1
    BY <2>2, FS_RemoveElement DEF PermitsAdd
  <2>4. Cardinality(Holders) \in Nat
    BY FS_CardinalityType DEF PermitsAdd
  <2> QED
    BY <1>1, <2>1, <2>3, <2>4, ServerAssumption DEF PermitsAdd, ServerShape
<1>2. CASE permit[c] # holder
  <2>1. UNCHANGED <<permit, free>>
    BY <1>2 DEF Release
  <2>2. Holders' = Holders
    BY <2>1 DEF Holders
  <2> QED
    BY <1>2, <2>1, <2>2 DEF PermitsAdd, ServerShape
<1> QED
  BY <1>1, <1>2

\* A permit that changes hands stays taken.
LEMMA PermitMoved ==
  ASSUME ServerShape, PermitsAdd, NEW c \in ToolCalls, permit[c] # "none",
         permit' = [permit EXCEPT ![c] = "work"], free' = free
  PROVE  PermitsAdd' /\ permit' \in [ToolCalls -> {"none", "future", "work"}]
<1>1. Holders' = Holders
  BY DEF Holders, ServerShape
<1> QED
  BY <1>1 DEF PermitsAdd, ServerShape

LEMMA RemoveAtType ==
  ASSUME NEW S, NEW s \in Seq(S), NEW i \in DOMAIN s
  PROVE  RemoveAt(s, i) \in Seq(S)
<1>1. i \in 1..Len(s)
  OBVIOUS
<1>2. SubSeq(s, 1, i - 1) \in Seq(S) /\ SubSeq(s, i + 1, Len(s)) \in Seq(S)
  BY <1>1, SubSeqProperties
<1> QED
  BY <1>2, ConcatProperties DEF RemoveAt

\* The reports and the stamps, as long as only the calls move.
LEMMA ThrottleStays ==
  ASSUME ServerInv, UnchangedThrottle
  PROVE  /\ \A r \in reports' : SwapIsLate(r)
         /\ \A c \in ToolCalls : Spaced(passed[c], last[c])'
         /\ reports' \subseteq ReportStates /\ reported' \in [ToolCalls -> Nat] /\ clock' \in Nat
         /\ last' \in [ToolCalls -> Nat] /\ passed' \in [ToolCalls -> Seq(Nat)]
BY DEF ServerInv, ServerShape, UnchangedThrottle, Spaced, SwapIsLate

LEMMA CountsStay ==
  ASSUME ServerInv, UnchangedCounts,
         \A c \in ToolCalls : future[c] = "done" => future'[c] = "done"
  PROVE  /\ \A c \in ToolCalls : CountsMove(c)'
         /\ answered' \in [ToolCalls -> {"none", "ok", "error"}]
         /\ tally' \in [calls : Nat, errors : Nat] /\ told' \in [ToolCalls -> [calls : Nat, errors : Nat]]
BY DEF ServerInv, ServerShape, UnchangedCounts, CountsMove

LEMMA CallsKeepInv ==
  ASSUME ServerInv, NEW c \in ToolCalls,
         ReceiveCall(c) \/ Queue(c) \/ Grant \/ SpawnWork(c) \/ EndWork(c) \/ RecordCall(c) \/ Dropped(c)
  PROVE  ServerInv'
<1> USE DEF ServerInv
<1>1. UnchangedThrottle
  BY DEF ReceiveCall, Queue, Grant, SpawnWork, EndWork, RecordCall, Dropped
<1>2. SUFFICES /\ future' \in [ToolCalls -> {"new", "queueing", "waiting", "granted", "joining", "done", "gone"}]
               /\ work' \in [ToolCalls -> {"none", "running", "ok", "error", "panic"}]
               /\ permit' \in [ToolCalls -> {"none", "future", "work"}]
               /\ answered' \in [ToolCalls -> {"none", "ok", "error"}]
               /\ queue' \in Seq(ToolCalls) /\ free' \in Nat
               /\ tally' \in [calls : Nat, errors : Nat]
               /\ told' \in [ToolCalls -> [calls : Nat, errors : Nat]]
               /\ PermitsAdd' /\ \A d \in ToolCalls : PermitIsUsed(d)' /\ CountsMove(d)'
  BY <1>1, ThrottleStays DEF ServerShape
<1>3. CASE ReceiveCall(c)
  <2>1. /\ future[c] = "new" /\ future' = [future EXCEPT ![c] = "queueing"]
        /\ told' = [told EXCEPT ![c] = tally]
        /\ UNCHANGED <<work, permit, queue, free, tally, answered>>
    BY <1>3 DEF ReceiveCall, Step
  <2>2. PermitsAdd'
    BY <2>1 DEF PermitsAdd, Holders
  <2>3. ASSUME NEW d \in ToolCalls PROVE PermitIsUsed(d)'
    BY <2>1 DEF PermitIsUsed, ServerShape
  <2>4. ASSUME NEW d \in ToolCalls PROVE CountsMove(d)'
    BY <2>1 DEF CountsMove, ServerShape
  <2> QED
    BY <2>1, <2>2, <2>3, <2>4 DEF ServerShape
<1>4. CASE Queue(c)
  <2>1. /\ future[c] = "queueing" /\ future' = [future EXCEPT ![c] = "waiting"]
        /\ queue' = Append(queue, c) /\ UNCHANGED <<work, permit, free>> /\ UnchangedCounts
    BY <1>4 DEF Queue, Step
  <2>2. PermitsAdd'
    BY <2>1 DEF PermitsAdd, Holders
  <2>3. ASSUME NEW d \in ToolCalls PROVE PermitIsUsed(d)'
    BY <2>1 DEF PermitIsUsed, ServerShape
  <2>4. \A d \in ToolCalls : future[d] = "done" => future'[d] = "done"
    BY <2>1 DEF ServerShape
  <2>5. queue' \in Seq(ToolCalls)
    BY <2>1 DEF ServerShape
  <2>6. /\ future' \in [ToolCalls -> {"new", "queueing", "waiting", "granted", "joining", "done", "gone"}]
        /\ work' \in [ToolCalls -> {"none", "running", "ok", "error", "panic"}]
        /\ permit' \in [ToolCalls -> {"none", "future", "work"}] /\ free' \in Nat
    BY <2>1 DEF ServerShape
  <2> QED
    BY <2>1, <2>2, <2>3, <2>4, <2>5, <2>6, CountsStay
<1>5. CASE Grant
  <2> DEFINE g == Head(queue)
  <2>1. /\ queue # <<>> /\ free > 0
        /\ future[g] = "waiting" /\ future' = [future EXCEPT ![g] = "granted"]
        /\ permit' = [permit EXCEPT ![g] = "future"]
        /\ queue' = Tail(queue) /\ free' = free - 1 /\ UNCHANGED work /\ UnchangedCounts
    BY <1>5 DEF Grant, Step
  <2>2. g \in ToolCalls /\ queue' \in Seq(ToolCalls)
    BY <2>1, HeadTailProperties DEF ServerShape
  <2> HIDE DEF g
  <2>3. permit[g] = "none"
    BY <2>1, <2>2 DEF PermitIsUsed, ServerShape
  <2>4. PermitsAdd' /\ permit' \in [ToolCalls -> {"none", "future", "work"}] /\ free' \in Nat
    BY <2>1, <2>2, <2>3, PermitTaken
  <2>5. \A d \in ToolCalls : PermitIsUsed(d)'
    BY <2>1, <2>2, <2>3 DEF PermitIsUsed, ServerShape
  <2>6. \A d \in ToolCalls : future[d] = "done" => future'[d] = "done"
    BY <2>1 DEF ServerShape
  <2>7. /\ future' \in [ToolCalls -> {"new", "queueing", "waiting", "granted", "joining", "done", "gone"}]
        /\ work' \in [ToolCalls -> {"none", "running", "ok", "error", "panic"}]
    BY <2>1 DEF ServerShape
  <2> QED
    BY <2>1, <2>2, <2>4, <2>5, <2>6, <2>7, CountsStay
<1>6. CASE SpawnWork(c)
  <2>1. /\ future[c] = "granted" /\ future' = [future EXCEPT ![c] = "joining"]
        /\ work' = [work EXCEPT ![c] = "running"] /\ permit' = [permit EXCEPT ![c] = "work"]
        /\ UNCHANGED <<queue, free>> /\ UnchangedCounts
    BY <1>6 DEF SpawnWork, Step, MovedIntoWork
  <2>2. permit[c] = "future"
    BY <2>1 DEF PermitIsUsed
  <2>3. PermitsAdd' /\ permit' \in [ToolCalls -> {"none", "future", "work"}]
    BY <2>1, <2>2, PermitMoved
  <2>4. \A d \in ToolCalls : PermitIsUsed(d)'
    BY <2>1, <2>2 DEF PermitIsUsed, ServerShape
  <2>5. \A d \in ToolCalls : future[d] = "done" => future'[d] = "done"
    BY <2>1 DEF ServerShape
  <2>6. /\ future' \in [ToolCalls -> {"new", "queueing", "waiting", "granted", "joining", "done", "gone"}]
        /\ work' \in [ToolCalls -> {"none", "running", "ok", "error", "panic"}]
        /\ queue' \in Seq(ToolCalls) /\ free' \in Nat
    BY <2>1 DEF ServerShape
  <2> QED
    BY <2>1, <2>3, <2>4, <2>5, <2>6, CountsStay
<1>7. CASE EndWork(c)
  <2>1. /\ work[c] = "running" /\ Release(c, "work") /\ UNCHANGED <<future, queue>> /\ UnchangedCounts
    BY <1>7 DEF EndWork
  <2>2. PICK end \in {"ok", "error", "panic"} : work' = [work EXCEPT ![c] = end]
    BY <1>7 DEF EndWork
  <2>3. /\ PermitsAdd' /\ free' \in Nat /\ permit' \in [ToolCalls -> {"none", "future", "work"}]
        /\ \A d \in ToolCalls : permit'[d] = IF d = c /\ permit[c] = "work" THEN "none" ELSE permit[d]
    BY <2>1, PermitGiven
  <2>4. \A d \in ToolCalls : PermitIsUsed(d)'
    BY <2>1, <2>2, <2>3 DEF PermitIsUsed, ServerShape
  <2>5. /\ future' \in [ToolCalls -> {"new", "queueing", "waiting", "granted", "joining", "done", "gone"}]
        /\ work' \in [ToolCalls -> {"none", "running", "ok", "error", "panic"}]
        /\ queue' \in Seq(ToolCalls)
    BY <2>1, <2>2 DEF ServerShape
  <2> QED
    BY <2>1, <2>3, <2>4, <2>5, CountsStay
<1>8. CASE RecordCall(c)
  <2> DEFINE failed == IF work[c] = "ok" THEN 0 ELSE 1
  <2>1. /\ future[c] = "joining" /\ future' = [future EXCEPT ![c] = "done"]
        /\ work[c] \notin {"none", "running"}
        /\ tally' = [calls |-> tally.calls + 1, errors |-> tally.errors + failed]
        /\ answered' = [answered EXCEPT ![c] = IF work[c] = "ok" THEN "ok" ELSE "error"]
        /\ Release(c, "future") /\ UNCHANGED <<work, queue, told>>
    BY <1>8 DEF RecordCall, Step
  <2>2. /\ PermitsAdd' /\ free' \in Nat /\ permit' \in [ToolCalls -> {"none", "future", "work"}]
        /\ \A d \in ToolCalls : permit'[d] = IF d = c /\ permit[c] = "future" THEN "none" ELSE permit[d]
    BY <2>1, PermitGiven
  <2>3. \A d \in ToolCalls : PermitIsUsed(d)'
    BY <2>1, <2>2 DEF PermitIsUsed, ServerShape
  <2>4. tally.calls \in Nat /\ tally.errors \in Nat
    BY DEF ServerShape
  <2>5. ASSUME NEW d \in ToolCalls PROVE CountsMove(d)'
    <3>1. /\ told[d].calls \in Nat /\ told[d].errors \in Nat
          /\ told[d].calls <= tally.calls /\ told[d].errors <= tally.errors
      BY DEF ServerShape, CountsMove
    <3>2. tally'.calls = tally.calls + 1 /\ tally'.errors = tally.errors + failed
      BY <2>1
    <3>3. told'[d].calls < tally'.calls /\ told'[d].errors <= tally'.errors
      BY <2>1, <2>4, <3>1, <3>2
    <3>6. /\ told'[d].calls \in Nat /\ told'[d].errors \in Nat
          /\ tally'.calls \in Nat /\ tally'.errors \in Nat
      BY <2>1, <2>4, <3>1, <3>2
    <3>7. told'[d].calls <= tally'.calls /\ tally'.calls > told'[d].calls
      BY <3>3, <3>6
    <3>4. CASE d = c
      <4>1. future'[d] = "done" /\ answered'[d] = IF work[c] = "ok" THEN "ok" ELSE "error"
        BY <2>1, <3>4 DEF ServerShape
      <4>2. answered'[d] = "error" => told'[d].errors < tally'.errors
        BY <2>1, <2>4, <3>1, <3>2, <4>1
      <4> QED
        BY <3>3, <3>6, <3>7, <4>1, <4>2 DEF CountsMove
    <3>5. CASE d # c
      <4>1. future'[d] = future[d] /\ answered'[d] = answered[d]
        BY <2>1, <3>5 DEF ServerShape
      <4>2. answered[d] = "error" => told[d].errors < tally.errors
        BY <2>4, <3>1 DEF CountsMove, ServerShape
      <4>3. answered'[d] = "error" => told'[d].errors < tally'.errors
        BY <2>1, <2>4, <3>1, <3>2, <4>1, <4>2
      <4>4. answered[d] # "none" => future[d] = "done"
        BY DEF CountsMove
      <4> QED
        BY <3>3, <3>6, <3>7, <4>1, <4>3, <4>4 DEF CountsMove
    <3> QED
      BY <3>4, <3>5
  <2>6. /\ future' \in [ToolCalls -> {"new", "queueing", "waiting", "granted", "joining", "done", "gone"}]
        /\ work' \in [ToolCalls -> {"none", "running", "ok", "error", "panic"}]
        /\ answered' \in [ToolCalls -> {"none", "ok", "error"}]
        /\ queue' \in Seq(ToolCalls) /\ told' \in [ToolCalls -> [calls : Nat, errors : Nat]]
    BY <2>1 DEF ServerShape
  <2>7. tally' \in [calls : Nat, errors : Nat]
    BY <2>1, <2>4
  <2> QED
    BY <2>2, <2>3, <2>5, <2>6, <2>7
<1>9. CASE Dropped(c)
  <2>1. /\ future[c] \in {"queueing", "waiting", "granted", "joining"}
        /\ future' = [future EXCEPT ![c] = "gone"]
        /\ Release(c, "future") /\ UNCHANGED work /\ UnchangedCounts
    BY <1>9 DEF Dropped
  <2>2. /\ PermitsAdd' /\ free' \in Nat /\ permit' \in [ToolCalls -> {"none", "future", "work"}]
        /\ \A d \in ToolCalls : permit'[d] = IF d = c /\ permit[c] = "future" THEN "none" ELSE permit[d]
    BY <2>1, PermitGiven
  <2>3. \A d \in ToolCalls : PermitIsUsed(d)'
    BY <2>1, <2>2 DEF PermitIsUsed, ServerShape
  <2>4. \A d \in ToolCalls : future[d] = "done" => future'[d] = "done"
    BY <2>1 DEF ServerShape
  <2>5. queue' \in Seq(ToolCalls)
    <3>1. CASE UNCHANGED queue
      BY <3>1 DEF ServerShape
    <3>2. CASE \E i \in DOMAIN queue : queue' = RemoveAt(queue, i)
      BY <3>2, RemoveAtType DEF ServerShape
    <3> QED
      BY <1>9, <3>1, <3>2 DEF Dropped
  <2>6. /\ future' \in [ToolCalls -> {"new", "queueing", "waiting", "granted", "joining", "done", "gone"}]
        /\ work' \in [ToolCalls -> {"none", "running", "ok", "error", "panic"}]
    BY <2>1 DEF ServerShape
  <2> QED
    BY <2>1, <2>2, <2>3, <2>4, <2>5, <2>6, CountsStay
<1> QED
  BY <1>3, <1>4, <1>5, <1>6, <1>7, <1>8, <1>9

\* A stamp later by a window than the last one keeps the events apart.
LEMMA StampAdded ==
  ASSUME NEW stamps \in Seq(Nat), NEW stamp \in Nat, Spaced(stamps, stamp), NEW at \in Nat \ {0},
         stamp # 0 => at >= stamp + Window
  PROVE  Append(stamps, at) \in Seq(Nat) /\ Spaced(Append(stamps, at), at)
<1> DEFINE n == Len(stamps)
           more == Append(stamps, at)
<1>1. /\ n \in Nat /\ more \in Seq(Nat) /\ Len(more) = n + 1 /\ more[n + 1] = at
      /\ \A i \in 1..n : more[i] = stamps[i] /\ stamps[i] \in Nat
      /\ DOMAIN more = 1..n + 1 /\ DOMAIN stamps = 1..n
  OBVIOUS
<1>2. more # <<>>
  <2>1. Len(more) = n + 1 /\ Len(<<>>) = 0 /\ n \in Nat
    BY <1>1
  <2> HIDE DEF more, n
  <2> QED
    BY ONLY <2>1
<1>3. ASSUME NEW i \in 1..n PROVE at >= stamps[i] + Window
  <2>4. stamps # <<>>
    BY <1>3
  <2>1. stamps # <<>> /\ stamp # 0 /\ stamps[n] = stamp
    BY <2>4 DEF Spaced
  <2>5. Len(stamps) \in Nat /\ i \in 1..Len(stamps)
    BY <1>3
  <2>6. Len(stamps) \in 1..Len(stamps) /\ (i = Len(stamps) \/ i < Len(stamps))
    BY <2>5
  <2>3. i \in DOMAIN stamps /\ n \in DOMAIN stamps /\ (i = n \/ i < n)
        /\ stamps[i] \in Nat /\ stamps[n] \in Nat
    BY <2>5, <2>6
  <2>2. i = n \/ stamps[n] >= stamps[i] + Window
    BY <2>3 DEF Spaced
  <2> QED
    BY <2>1, <2>2, <2>3, ServerAssumption
<1>4. ASSUME NEW i \in DOMAIN more, NEW j \in DOMAIN more, i < j
      PROVE  more[j] >= more[i] + Window
  <2>1. i \in 1..n /\ more[i] = stamps[i]
    BY <1>1, <1>4
  <2>2. CASE j = n + 1
    BY <1>1, <1>3, <2>1, <2>2
  <2>3. CASE j # n + 1
    BY <1>1, <1>4, <2>1, <2>3 DEF Spaced
  <2> QED
    BY <2>2, <2>3
<1> HIDE DEF more
<1> QED
  BY <1>1, <1>2, <1>4 DEF Spaced, more

\* What the permits and the counters rest on, as long as only events move.
LEMMA EventsKeep ==
  ASSUME ServerInv, UNCHANGED <<future, work, permit, queue, free>>, UnchangedCounts,
         clock' \in Nat, reported' \in [ToolCalls -> Nat], reports' \subseteq ReportStates,
         last' \in [ToolCalls -> Nat], passed' \in [ToolCalls -> Seq(Nat)],
         \A r \in reports' : SwapIsLate(r),
         \A c \in ToolCalls : Spaced(passed'[c], last'[c])
  PROVE  ServerInv'
<1>1. ServerShape'
  BY DEF ServerInv, ServerShape, UnchangedCounts
<1>2. PermitsAdd'
  BY DEF ServerInv, PermitsAdd, Holders
<1>3. ASSUME NEW c \in ToolCalls PROVE PermitIsUsed(c)' /\ CountsMove(c)' /\ Spaced(passed[c], last[c])'
  BY DEF ServerInv, PermitIsUsed, CountsMove, UnchangedCounts, Spaced
<1> QED
  BY <1>1, <1>2, <1>3 DEF ServerInv, SwapIsLate

LEMMA ReadClockKeeps == ASSUME ServerInv, NEW c \in ToolCalls, ReadClock(c) PROVE ServerInv'
<1> DEFINE new == [call |-> c, n |-> reported[c], at |-> clock + 1, seen |-> 0, step |-> "load"]
<1>1. new \in ReportStates
  BY DEF ServerInv, ServerShape, ReportStates
<1>2. SwapIsLate(new)
  BY DEF SwapIsLate
<1> HIDE DEF new
<1>3. reports' = reports \cup {new}
  BY DEF ReadClock, new
<1>4. /\ UNCHANGED <<future, work, permit, queue, free>> /\ UnchangedCounts
      /\ clock' \in Nat /\ reported' \in [ToolCalls -> Nat]
      /\ last' \in [ToolCalls -> Nat] /\ passed' \in [ToolCalls -> Seq(Nat)]
  BY DEF ReadClock, ServerInv, ServerShape
<1>5. \A d \in ToolCalls : Spaced(passed'[d], last'[d])
  BY DEF ReadClock, ServerInv
<1>6. reports' \subseteq ReportStates /\ \A r \in reports' : SwapIsLate(r)
  BY <1>1, <1>2, <1>3 DEF ServerInv, ServerShape
<1> QED
  BY <1>4, <1>5, <1>6, EventsKeep

LEMMA LoadStampKeeps == ASSUME ServerInv, NEW r \in reports, LoadStamp(r) PROVE ServerInv'
<1> DEFINE new == [r EXCEPT !.seen = last[r.call], !.step = "swap"]
<1>1. /\ r.call \in ToolCalls /\ r.n \in Nat /\ r.at \in Nat \ {0} /\ r.seen \in Nat
      /\ r \in ReportStates /\ last[r.call] \in Nat
  BY DEF ServerInv, ServerShape, ReportStates
<1>2. new \in ReportStates /\ new.at = r.at /\ new.seen = last[r.call]
  BY <1>1 DEF ReportStates
<1> HIDE DEF new
<1>3. CASE reports' = reports \ {r}
  BY <1>3, EventsKeep DEF LoadStamp, ServerInv, ServerShape
<1>4. CASE reports' # reports \ {r}
  <2>1. /\ reports' = (reports \ {r}) \cup {new}
        /\ ~(last[r.call] # 0 /\ (IF r.at < last[r.call] THEN 0 ELSE r.at - last[r.call]) < Window)
    BY <1>4 DEF LoadStamp, new
  <2>2. SwapIsLate(new)
    BY <1>1, <1>2, <2>1, ServerAssumption DEF SwapIsLate
  <2> QED
    BY <1>2, <2>1, <2>2, EventsKeep DEF LoadStamp, ServerInv, ServerShape
<1> QED
  BY <1>3, <1>4

LEMMA SwapStampKeeps == ASSUME ServerInv, NEW r \in reports, SwapStamp(r) PROVE ServerInv'
<1>1. /\ r.call \in ToolCalls /\ r.at \in Nat \ {0} /\ SwapIsLate(r) /\ reports' = reports \ {r}
      /\ Spaced(passed[r.call], last[r.call])
      /\ last[r.call] \in Nat /\ passed[r.call] \in Seq(Nat)
  BY DEF ServerInv, ServerShape, ReportStates, SwapStamp
<1>2. CASE Swaps(r)
  <2> DEFINE more == Append(passed[r.call], r.at)
  <2>1. /\ last' = [last EXCEPT ![r.call] = r.at] /\ passed' = [passed EXCEPT ![r.call] = more]
        /\ last[r.call] = r.seen /\ r.step = "swap"
    BY <1>2 DEF SwapStamp, Swaps
  <2>2. more \in Seq(Nat) /\ Spaced(more, r.at)
    BY <1>1, <2>1, StampAdded DEF SwapIsLate
  <2> HIDE DEF more
  <2>3. last' \in [ToolCalls -> Nat] /\ passed' \in [ToolCalls -> Seq(Nat)]
    BY <1>1, <2>1, <2>2 DEF ServerInv, ServerShape
  <2>4. ASSUME NEW c \in ToolCalls PROVE Spaced(passed'[c], last'[c])
    BY <1>1, <2>1, <2>2 DEF ServerInv, ServerShape
  <2> QED
    BY <1>1, <2>3, <2>4, EventsKeep DEF SwapStamp, ServerInv, ServerShape
<1>3. CASE ~Swaps(r)
  BY <1>1, <1>3, EventsKeep DEF SwapStamp, ServerInv, ServerShape
<1> QED
  BY <1>2, <1>3

LEMMA PassKeeps == ASSUME ServerInv, Pass PROVE ServerInv'
<1>1. /\ UNCHANGED <<future, work, permit, queue, free>> /\ UnchangedCounts
      /\ clock' \in Nat /\ reported' \in [ToolCalls -> Nat]
      /\ last' \in [ToolCalls -> Nat] /\ passed' \in [ToolCalls -> Seq(Nat)]
  BY DEF Pass, ServerInv, ServerShape
<1>2. /\ \A d \in ToolCalls : Spaced(passed'[d], last'[d])
      /\ reports' \subseteq ReportStates /\ \A r \in reports' : SwapIsLate(r)
  BY DEF Pass, ServerInv, ServerShape
<1> QED
  BY <1>1, <1>2, EventsKeep

LEMMA ServerKept == ServerInv /\ [ServerNext]_serverVars => ServerInv'
<1> SUFFICES ASSUME ServerInv, [ServerNext]_serverVars
             PROVE  ServerInv'
  OBVIOUS
<1>1. CASE Pass
  BY <1>1, PassKeeps
<1>2. CASE Grant
  <2>1. Head(queue) \in ToolCalls
    BY <1>2 DEF Grant, ServerInv, ServerShape
  <2> QED
    BY <1>2, <2>1, CallsKeepInv
<1>3. ASSUME NEW c \in ToolCalls,
             \/ ReceiveCall(c) \/ Queue(c) \/ SpawnWork(c) \/ EndWork(c) \/ RecordCall(c) \/ Dropped(c)
             \/ ReadClock(c)
      PROVE  ServerInv'
  BY <1>3, CallsKeepInv, ReadClockKeeps
<1>4. ASSUME NEW r \in reports, LoadStamp(r) \/ SwapStamp(r)
      PROVE  ServerInv'
  BY <1>4, LoadStampKeeps, SwapStampKeeps
<1>5. CASE UNCHANGED serverVars
  BY <1>5, EventsKeep DEF serverVars, UnchangedCounts, ServerInv, ServerShape
<1> QED
  BY <1>1, <1>2, <1>3, <1>4, <1>5 DEF ServerNext

\* The invariant of the calls of a server.
THEOREM ServerInvHolds == ServerSpec => []ServerInv
<1> QED
  BY ServerStarts, ServerKept, PTL DEF ServerSpec

\* However calls are dropped, panic or queue, at most MAX_CONCURRENT_BLOCKING_OPS
\* works run, no permit is lost or given twice, an answered call is counted, and
\* the progress events of one call are a window apart (run_blocking,
\* record_call, should_emit).
THEOREM BoundHolds == ServerSpec => []WorksAreBounded
<1>1. ServerInv => WorksAreBounded
  <2> SUFFICES ASSUME ServerInv PROVE WorksAreBounded
    OBVIOUS
  <2> DEFINE running == {c \in ToolCalls : work[c] = "running"}
  <2>1. running \subseteq Holders
    BY DEF ServerInv, Holders, PermitIsUsed, ServerShape
  <2>2. IsFiniteSet(Holders) /\ free + Cardinality(Holders) = Permits /\ free \in Nat
    BY DEF ServerInv, PermitsAdd, ServerShape
  <2>3. Cardinality(running) <= Cardinality(Holders) /\ Cardinality(Holders) \in Nat
        /\ Cardinality(running) \in Nat
    BY <2>1, <2>2, FS_Subset, FS_CardinalityType
  <2>4. Cardinality(running) <= Permits
    BY <2>2, <2>3
  <2> QED
    BY <2>2, <2>4 DEF WorksAreBounded, ServerInv, Holders, PermitIsUsed, CountsMove, Spaced
<1> QED
  BY <1>1, ServerInvHolds, PTL

(***************************************************************************)
(* Binary.                                                                 *)
(***************************************************************************)

LEMMA FilesAre ==
  /\ NoBinary \in BinaryFiles /\ Garbled \in BinaryFiles /\ Quiet \in CommandStates
  /\ \A tag, upload \in Nat : Build(tag, upload) \in BinaryFiles
<1>1. NoBinary \in BinaryFiles /\ Garbled \in BinaryFiles
  BY DEF NoBinary, Garbled, BinaryFiles
<1>2. Quiet \in CommandStates
  BY <1>1 DEF Quiet, CommandStates, CommandPcs
<1>3. ASSUME NEW tag \in Nat, NEW upload \in Nat PROVE Build(tag, upload) \in BinaryFiles
  BY DEF Build, BinaryFiles
<1> QED
  BY <1>1, <1>2, <1>3

LEMMA BinaryStarts == BinaryInit => BinaryInv
<1> SUFFICES ASSUME BinaryInit
             PROVE  BinaryInv
  OBVIOUS
<1> DEFINE installed == [Build(1, 1) EXCEPT !.synced = TRUE]
<1>1. installed \in BinaryFiles /\ installed.state = "whole"
  BY DEF Build, BinaryFiles
<1> HIDE DEF installed
<1>2. target \in {NoBinary, installed} /\ prev = NoBinary /\ command = [c \in Commands |-> Quiet] /\ faults = 0
  BY DEF BinaryInit, installed
<1>3. uploads \in [1..MaxTag -> Nat] /\ uploads[1] > 0
  BY BinaryAssumption DEF BinaryInit
<1>4. BinaryShape
  BY <1>1, <1>2, <1>3, FilesAre DEF BinaryShape
<1>5. PlacedHold
  BY <1>1, <1>2 DEF PlacedHold, NoBinary, Exists
<1>6. ASSUME NEW c \in Commands PROVE CommandHolds(command[c], Exists(target))
  BY <1>2, <1>6 DEF CommandHolds, Quiet
<1> QED
  BY <1>4, <1>5, <1>6 DEF BinaryInv

\* A command goes on while the installed files stay.
LEMMA CommandSteps ==
  ASSUME BinaryInv, NEW c \in Commands, NEW step \in CommandStates,
         CommandHolds(step, Exists(target)),
         command' = [command EXCEPT ![c] = step], UnchangedFiles
  PROVE  BinaryInv'
<1>1. BinaryShape' /\ PlacedHold'
  BY DEF BinaryInv, BinaryShape, PlacedHold, UnchangedFiles
<1>2. ASSUME NEW d \in Commands PROVE CommandHolds(command'[d], Exists(target'))
  BY <1>2 DEF BinaryInv, BinaryShape, UnchangedFiles
<1> QED
  BY <1>1, <1>2 DEF BinaryInv

\* A command that is over, or that only cleans up, holds nothing.
LEMMA CommandEnds ==
  ASSUME BinaryInv, NEW c \in Commands, NEW end \in {"none", "error", "up_to_date", "placed", "killed"},
         \/ Ends(c, end)
         \/ command' = [command EXCEPT ![c].pc = "clean", ![c].end = end]
  PROVE  \E step \in CommandStates : command' = [command EXCEPT ![c] = step] /\ \A there : CommandHolds(step, there)
<1>1. CASE Ends(c, end)
  <2> DEFINE step == [Quiet EXCEPT !.end = end]
  <2>1. step \in CommandStates /\ step.pc = "quiet"
    BY FilesAre DEF CommandStates, Quiet
  <2> HIDE DEF step
  <2> QED
    BY <1>1, <2>1 DEF Ends, CommandHolds, step
<1>2. CASE command' = [command EXCEPT ![c].pc = "clean", ![c].end = end]
  <2> DEFINE step == [command[c] EXCEPT !.pc = "clean", !.end = end]
  <2>3. command[c] \in CommandStates
    BY DEF BinaryInv, BinaryShape
  <2>1. step \in CommandStates /\ step.pc = "clean"
    BY <2>3 DEF CommandStates, CommandPcs
  <2>2. command' = [command EXCEPT ![c] = step]
    BY <1>2 DEF BinaryInv, BinaryShape
  <2> HIDE DEF step
  <2> QED
    BY <2>1, <2>2 DEF CommandHolds
<1> QED
  BY <1>1, <1>2

\* Some release is the latest.
LEMMA LatestIs == ASSUME BinaryShape PROVE Latest \in 1..MaxTag
<1> DEFINE behind == {d \in 0..MaxTag - 1 : uploads[MaxTag - d] > 0}
           LatestTag(t) == uploads[t] > 0 /\ \A u \in t + 1..MaxTag : uploads[u] = 0
<1>1. MaxTag \in Nat /\ MaxTag >= 1 /\ uploads \in [1..MaxTag -> Nat] /\ uploads[1] > 0
  BY BinaryAssumption DEF BinaryShape
<1>2. MaxTag - 1 \in behind /\ behind \in SUBSET Nat
  BY <1>1
<1>3. PICK d \in behind : \A e \in behind : d <= e
  <2> HIDE DEF behind
  <2> QED
    BY <1>2, LeastNumber
<1>4. MaxTag - d \in 1..MaxTag /\ uploads[MaxTag - d] > 0
  BY <1>1, <1>3
<1>5. ASSUME NEW u \in (MaxTag - d) + 1..MaxTag PROVE uploads[u] = 0
  <2>1. u \in 1..MaxTag /\ MaxTag - u \in 0..MaxTag - 1 /\ MaxTag - u < d /\ MaxTag - (MaxTag - u) = u
    BY <1>1, <1>3
  <2>2. MaxTag - u \notin behind
    <3>1. d \in Int /\ MaxTag - u \in Int /\ ~(d <= MaxTag - u)
      BY <1>1, <1>3, <2>1
    <3> HIDE DEF behind
    <3> QED
      BY <1>3, <3>1
  <2>3. ~(uploads[u] > 0)
    BY <2>1, <2>2
  <2> QED
    BY <1>1, <2>1, <2>3
<1>6. \E t \in 1..MaxTag : LatestTag(t)
  BY <1>4, <1>5
<1> HIDE DEF behind
<1> QED
  BY <1>6 DEF Latest

\* The steps of a command before it touches the installed files.
LEMMA CommandsPrepare ==
  ASSUME BinaryInv, NEW c \in Commands,
         \/ StartCommand(c) \/ StageInstall(c) \/ AskLatest(c) \/ DownloadBinary(c) \/ DownloadSums(c)
         \/ Verify(c) \/ MarkExecutable(c) \/ CopyTarget(c) \/ CleanUp(c) \/ ReadStartupFile(c)
  PROVE  BinaryInv'
<1>1. UnchangedFiles
  BY DEF StartCommand, StageInstall, AskLatest, DownloadBinary, DownloadSums, Verify,
         MarkExecutable, CopyTarget, CleanUp, ReadStartupFile
<1>2. /\ command \in [Commands -> CommandStates] /\ command[c] \in CommandStates
      /\ CommandHolds(command[c], Exists(target)) /\ target \in BinaryFiles
  BY DEF BinaryInv, BinaryShape
<1>3. SUFFICES \E step \in CommandStates :
                 command' = [command EXCEPT ![c] = step] /\ CommandHolds(step, Exists(target))
  BY <1>1, CommandSteps
<1>4. ASSUME NEW end \in {"none", "error", "up_to_date", "placed", "killed"},
             \/ Ends(c, end)
             \/ command' = [command EXCEPT ![c].pc = "clean", ![c].end = end]
      PROVE  \E step \in CommandStates :
               command' = [command EXCEPT ![c] = step] /\ CommandHolds(step, Exists(target))
  BY <1>4, CommandEnds
<1>5. CASE StartCommand(c)
  <2>1. PICK kind \in {"install", "update"}, current \in 0..1 :
          command' = [command EXCEPT ![c] = [Quiet EXCEPT
            !.kind = kind, !.current = current, !.pc = IF kind = "install" THEN "stage" ELSE "latest"]]
    BY <1>5 DEF StartCommand
  <2> DEFINE step == [Quiet EXCEPT
            !.kind = kind, !.current = current, !.pc = IF kind = "install" THEN "stage" ELSE "latest"]
  <2>2. step \in CommandStates /\ step.pc \in {"stage", "latest"}
    BY FilesAre DEF CommandStates, CommandPcs, Quiet
  <2> HIDE DEF step
  <2> QED
    BY <2>1, <2>2 DEF CommandHolds, step
<1>6. CASE StageInstall(c) /\ ~Ends(c, "error")
  <2> DEFINE build == Build(command[c].current, 1)
             step == [command[c] EXCEPT !.staged = build, !.pc = "mark"]
  <2>1. build \in BinaryFiles /\ build.state = "whole"
    BY <1>2, FilesAre DEF CommandStates, Build
  <2> HIDE DEF build
  <2>2. step \in CommandStates /\ step.pc = "mark" /\ step.staged = build
    BY <1>2, <2>1 DEF CommandStates, CommandPcs
  <2>3. command' = [command EXCEPT ![c] = step]
    BY <1>2, <1>6 DEF StageInstall, build
  <2> HIDE DEF step
  <2> QED
    BY <2>1, <2>2, <2>3 DEF CommandHolds, Whole
<1>7. CASE AskLatest(c) /\ ~Ends(c, "error") /\ ~Ends(c, "up_to_date")
  <2> DEFINE step == [command[c] EXCEPT !.tag = Latest, !.pc = "download"]
  <2>1. Latest \in 1..MaxTag /\ Latest \in Nat
    BY LatestIs, BinaryAssumption DEF BinaryInv
  <2>2. step \in CommandStates /\ step.pc = "download" /\ step.tag = Latest
    BY <1>2, <2>1 DEF CommandStates, CommandPcs
  <2>3. command' = [command EXCEPT ![c] = step]
    BY <1>2, <1>7 DEF AskLatest
  <2> HIDE DEF step
  <2> QED
    BY <2>1, <2>2, <2>3 DEF CommandHolds
<1>8. CASE DownloadBinary(c) /\ ~(command' = [command EXCEPT ![c].pc = "clean", ![c].end = "error"])
  <2>1. command[c].pc = "download" /\ command[c].tag \in 1..MaxTag /\ uploads[command[c].tag] \in Nat
        /\ command[c].tag \in Nat
    BY <1>2, <1>8, BinaryAssumption DEF DownloadBinary, AtStep, CommandHolds, BinaryInv, BinaryShape
  <2>2. PICK file \in {Build(command[c].tag, uploads[command[c].tag]), Garbled} :
          command' = [command EXCEPT ![c].staged = file, ![c].pc = "sums"]
    BY <1>8 DEF DownloadBinary
  <2>3. file \in BinaryFiles
    BY <2>1, <2>2, FilesAre
  <2> DEFINE step == [command[c] EXCEPT !.staged = file, !.pc = "sums"]
  <2>4. step \in CommandStates /\ step.pc = "sums" /\ step.tag = command[c].tag
    BY <1>2, <2>3 DEF CommandStates, CommandPcs
  <2>5. command' = [command EXCEPT ![c] = step]
    BY <1>2, <2>2
  <2> HIDE DEF step
  <2> QED
    BY <2>1, <2>4, <2>5 DEF CommandHolds
<1>9. CASE DownloadSums(c) /\ ~(command' = [command EXCEPT ![c].pc = "clean", ![c].end = "error"])
  <2>1. command[c].pc = "sums" /\ command[c].tag \in 1..MaxTag /\ uploads[command[c].tag] \in Nat
    BY <1>2, <1>9 DEF DownloadSums, AtStep, CommandHolds, BinaryInv, BinaryShape
  <2> DEFINE step == [command[c] EXCEPT !.sums = uploads[command[c].tag], !.pc = "verify"]
  <2>2. step \in CommandStates /\ step.pc = "verify"
    BY <1>2, <2>1 DEF CommandStates, CommandPcs
  <2>3. command' = [command EXCEPT ![c] = step]
    BY <1>2, <1>9 DEF DownloadSums
  <2> HIDE DEF step
  <2> QED
    BY <2>2, <2>3 DEF CommandHolds
<1>10. CASE Verify(c)
  <2> DEFINE pc == IF Verified(c) THEN "mark" ELSE "clean"
             end == IF Verified(c) THEN command[c].end ELSE "error"
             step == [command[c] EXCEPT !.pc = pc, !.end = end]
  <2>1. pc \in {"mark", "clean"} /\ end \in {"none", "error", "up_to_date", "placed", "killed"}
        /\ (pc = "mark" => Whole(command[c].staged))
    BY <1>2 DEF CommandStates, Verified
  <2> HIDE DEF pc, end
  <2>2. step \in CommandStates /\ step.pc = pc /\ step.staged = command[c].staged
    BY <1>2, <2>1 DEF CommandStates, CommandPcs
  <2>3. command' = [command EXCEPT ![c] = step]
    BY <1>2, <1>10 DEF Verify, pc, end
  <2> HIDE DEF step
  <2> QED
    BY <2>1, <2>2, <2>3 DEF CommandHolds
<1>11. CASE MarkExecutable(c) /\ ~(command' = [command EXCEPT ![c].pc = "clean", ![c].end = "error"])
  <2> DEFINE pc == IF Exists(target) THEN "copy" ELSE "place"
             step == [command[c] EXCEPT !.pc = pc]
  <2>1. pc \in {"copy", "place"} /\ (pc = "copy" => Exists(target))
    OBVIOUS
  <2>4. Whole(command[c].staged)
    BY <1>2, <1>11 DEF MarkExecutable, AtStep, CommandHolds
  <2>3. command' = [command EXCEPT ![c] = step]
    BY <1>2, <1>11 DEF MarkExecutable, GoTo
  <2> HIDE DEF pc
  <2>2. step \in CommandStates /\ step.pc = pc /\ step.staged = command[c].staged
    BY <1>2, <2>1 DEF CommandStates, CommandPcs
  <2> HIDE DEF step
  <2> QED
    BY <2>1, <2>2, <2>3, <2>4 DEF CommandHolds
<1>12. CASE CopyTarget(c) /\ ~(command' = [command EXCEPT ![c].pc = "clean", ![c].end = "error"])
  <2> DEFINE copy == [target EXCEPT !.synced = FALSE]
             step == [command[c] EXCEPT !.kept = copy, !.pc = "sync"]
  <2>1. Whole(command[c].staged) /\ Exists(target)
    BY <1>2, <1>12 DEF CopyTarget, AtStep, CommandHolds
  <2>2. copy \in BinaryFiles /\ copy.state \in {"whole", "torn"}
    BY <1>2, <2>1 DEF BinaryFiles, Exists, BinaryInv, PlacedHold
  <2>3. command' = [command EXCEPT ![c] = step]
    BY <1>2, <1>12 DEF CopyTarget
  <2> HIDE DEF copy
  <2>4. step \in CommandStates /\ step.pc = "sync" /\ step.staged = command[c].staged /\ step.kept = copy
    BY <1>2, <2>2 DEF CommandStates, CommandPcs
  <2> HIDE DEF step
  <2> QED
    BY <2>1, <2>2, <2>3, <2>4 DEF CommandHolds
<1>13. CASE CleanUp(c)
  <2>1. command[c].end \in {"none", "error", "up_to_date", "placed", "killed"}
    BY <1>2 DEF CommandStates
  <2> QED
    BY <1>4, <1>13, <2>1 DEF CleanUp
<1>14. CASE ReadStartupFile(c) /\ ~Ends(c, "placed")
  <2> DEFINE on == pathLines > 0
             step == [command[c] EXCEPT !.onPath = on, !.pc = "append"]
  <2>1. on \in BOOLEAN
    OBVIOUS
  <2>3. command' = [command EXCEPT ![c] = step]
    BY <1>2, <1>14 DEF ReadStartupFile
  <2> HIDE DEF on
  <2>2. step \in CommandStates /\ step.pc = "append"
    BY <1>2, <2>1 DEF CommandStates, CommandPcs
  <2> HIDE DEF step
  <2> QED
    BY <2>2, <2>3 DEF CommandHolds
<1> QED
  BY <1>4, <1>5, <1>6, <1>7, <1>8, <1>9, <1>10, <1>11, <1>12, <1>13, <1>14

\* A command that is over leaves the files to the invariant of the others.
LEMMA FilesMove ==
  ASSUME BinaryInv, NEW c \in Commands, NEW step \in CommandStates,
         CommandHolds(step, Exists(target')),
         command' = [command EXCEPT ![c] = step],
         target' \in BinaryFiles, prev' \in BinaryFiles, PlacedHold', Exists(target) => Exists(target'),
         faults' \in Nat, UNCHANGED uploads
  PROVE  BinaryInv'
<1>1. BinaryShape'
  BY DEF BinaryInv, BinaryShape
<1>2. ASSUME NEW d \in Commands PROVE CommandHolds(command'[d], Exists(target'))
  <2>1. CASE d = c
    BY <2>1 DEF BinaryInv, BinaryShape
  <2>2. CASE d # c
    <3>1. command'[d] = command[d]
      BY <2>2 DEF BinaryInv, BinaryShape
    <3>2. CommandHolds(command[d], Exists(target))
      BY DEF BinaryInv
    <3> QED
      BY <3>1, <3>2 DEF CommandHolds
  <2> QED
    BY <2>1, <2>2
<1> QED
  BY <1>1, <1>2 DEF BinaryInv

LEMMA RetainKeeps == ASSUME BinaryInv, NEW c \in Commands, SyncAndRetain(c) PROVE BinaryInv'
<1>1. /\ command \in [Commands -> CommandStates] /\ command[c] \in CommandStates
      /\ CommandHolds(command[c], Exists(target)) /\ target \in BinaryFiles /\ prev \in BinaryFiles
      /\ command[c].pc = "sync" /\ UNCHANGED <<target, uploads, faults>> /\ faults \in Nat
      /\ command[c].kept \in BinaryFiles
  BY DEF BinaryInv, BinaryShape, SyncAndRetain, AtStep, CommandStates
<1>2. CASE prev' = Synced(command[c].kept) /\ GoTo(c, "place")
  <2> DEFINE step == [command[c] EXCEPT !.pc = "place"]
             copy == [command[c].kept EXCEPT !.synced = TRUE]
  <2>1. copy \in BinaryFiles /\ copy.synced /\ copy.state = command[c].kept.state
    BY <1>1 DEF BinaryFiles
  <2>2. step \in CommandStates /\ step.pc = "place" /\ step.staged = command[c].staged
    BY <1>1 DEF CommandStates, CommandPcs
  <2>3. command' = [command EXCEPT ![c] = step] /\ prev' = copy
    BY <1>1, <1>2 DEF GoTo, Synced
  <2> HIDE DEF step, copy
  <2>4. CommandHolds(step, Exists(target'))
    BY <1>1, <2>2 DEF CommandHolds
  <2>5. PlacedHold'
    <3>1. Exists(target') /\ prev'.state \in {"whole", "torn"} /\ prev'.synced
      BY <1>1, <2>1, <2>3 DEF CommandHolds
    <3>2. target'.state # "garbled" /\ (faults' = 0 => target'.state # "torn")
      BY <1>1 DEF BinaryInv, PlacedHold
    <3> QED
      BY <3>1, <3>2 DEF PlacedHold
  <2> QED
    BY <1>1, <2>1, <2>2, <2>3, <2>4, <2>5, FilesMove
<1>3. CASE command' = [command EXCEPT ![c].pc = "clean", ![c].end = "error"] /\ UNCHANGED prev
  <2>1. PICK step \in CommandStates :
          command' = [command EXCEPT ![c] = step] /\ \A there : CommandHolds(step, there)
    BY <1>3, CommandEnds
  <2>2. PlacedHold'
    BY <1>1, <1>3 DEF BinaryInv, PlacedHold
  <2> QED
    BY <1>1, <1>3, <2>1, <2>2, FilesMove
<1> QED
  BY <1>2, <1>3 DEF SyncAndRetain

LEMMA PlaceKeeps == ASSUME BinaryInv, NEW c \in Commands, PlaceBinary(c) PROVE BinaryInv'
<1>1. /\ command \in [Commands -> CommandStates] /\ command[c] \in CommandStates
      /\ CommandHolds(command[c], Exists(target)) /\ target \in BinaryFiles /\ prev \in BinaryFiles
      /\ command[c].pc = "place" /\ UNCHANGED <<prev, uploads, faults>> /\ faults \in Nat
      /\ command[c].staged \in BinaryFiles
  BY DEF BinaryInv, BinaryShape, PlaceBinary, AtStep, CommandStates
<1>2. CASE command' # [command EXCEPT ![c].pc = "clean", ![c].end = "error"]
  <2> DEFINE pc == IF command[c].kind = "install" THEN "path" ELSE "clean"
             step == [command[c] EXCEPT !.staged = NoBinary, !.end = "placed", !.pc = pc]
  <2>1. pc \in {"path", "clean"}
    OBVIOUS
  <2>2. command' = [command EXCEPT ![c] = step] /\ target' = command[c].staged
    BY <1>1, <1>2 DEF PlaceBinary
  <2> HIDE DEF pc
  <2>3. step \in CommandStates /\ step.pc = pc
    BY <1>1, <2>1, FilesAre DEF CommandStates, CommandPcs
  <2> HIDE DEF step
  <2>4. CommandHolds(step, Exists(target'))
    BY <2>1, <2>3 DEF CommandHolds
  <2>5. target'.state = "whole"
    BY <1>1, <2>2 DEF CommandHolds, Whole
  <2>6. PlacedHold' /\ Exists(target')
    BY <1>1, <2>5 DEF BinaryInv, PlacedHold, Exists
  <2> QED
    BY <1>1, <2>2, <2>3, <2>4, <2>6, FilesMove
<1>3. CASE command' = [command EXCEPT ![c].pc = "clean", ![c].end = "error"] /\ UNCHANGED target
  <2>1. PICK step \in CommandStates :
          command' = [command EXCEPT ![c] = step] /\ \A there : CommandHolds(step, there)
    BY <1>3, CommandEnds
  <2>2. PlacedHold'
    BY <1>1, <1>3 DEF BinaryInv, PlacedHold
  <2> QED
    BY <1>1, <1>3, <2>1, <2>2, FilesMove
<1>4. CASE command' = [command EXCEPT ![c].pc = "clean", ![c].end = "error"] /\ target' = command[c].staged
  <2>1. PICK step \in CommandStates :
          command' = [command EXCEPT ![c] = step] /\ \A there : CommandHolds(step, there)
    BY <1>4, CommandEnds
  <2>2. target'.state = "whole"
    BY <1>1, <1>4 DEF CommandHolds, Whole
  <2>3. PlacedHold' /\ Exists(target')
    BY <1>1, <2>2 DEF BinaryInv, PlacedHold, Exists
  <2> QED
    BY <1>1, <1>4, <2>1, <2>3, FilesMove
<1> QED
  BY <1>2, <1>3, <1>4 DEF PlaceBinary

\* Ending a command, with or without a fault, leaves the files alone.
LEMMA EndKeeps ==
  ASSUME BinaryInv, NEW c \in Commands, AppendLine(c) \/ KillCommand(c)
  PROVE  BinaryInv'
<1>1. /\ UNCHANGED <<target, prev, uploads>> /\ faults' \in {faults, faults + 1} /\ faults \in Nat
      /\ target \in BinaryFiles /\ prev \in BinaryFiles
  BY DEF AppendLine, KillCommand, BinaryInv, BinaryShape
<1>2. \E end \in {"placed", "killed"} : Ends(c, end)
  BY DEF AppendLine, KillCommand
<1>3. PICK step \in CommandStates :
        command' = [command EXCEPT ![c] = step] /\ \A there : CommandHolds(step, there)
  BY <1>2, CommandEnds
<1>4. faults' \in Nat /\ (faults' = 0 => faults = 0)
  BY <1>1
<1>5. PlacedHold'
  BY <1>1, <1>4 DEF BinaryInv, PlacedHold
<1> QED
  BY <1>1, <1>3, <1>4, <1>5, FilesMove

LEMMA PowerKeeps == ASSUME BinaryInv, LosePower PROVE BinaryInv'
<1>1. /\ target \in BinaryFiles /\ prev \in BinaryFiles /\ PlacedHold /\ faults \in Nat
      /\ command \in [Commands -> CommandStates] /\ uploads' = uploads /\ faults' = faults + 1
      /\ uploads \in [1..MaxTag -> Nat] /\ uploads[1] > 0
  BY DEF BinaryInv, BinaryShape, LosePower
<1>2. prev' = prev
  BY <1>1 DEF LosePower, Survives, PlacedHold
<1>3. target' = target \/ (target' = [target EXCEPT !.state = "torn"])
  BY DEF LosePower, Survives
<1>4. target' \in BinaryFiles /\ target'.state # "garbled" /\ (Exists(target) => Exists(target'))
  BY <1>1, <1>3 DEF BinaryFiles, PlacedHold, Exists
<1>5. PlacedHold'
  BY <1>1, <1>2, <1>4 DEF PlacedHold
<1> DEFINE over == [Quiet EXCEPT !.end = "killed"]
<1>6. over \in CommandStates /\ over.pc = "quiet"
  BY FilesAre DEF CommandStates, Quiet
<1> HIDE DEF over
<1>7. command' = [c \in Commands |-> IF AtStep(c, "quiet") THEN command[c] ELSE over]
  BY DEF LosePower, over
<1>8. command' \in [Commands -> CommandStates]
  BY <1>1, <1>6, <1>7
<1>9. ASSUME NEW c \in Commands PROVE CommandHolds(command'[c], Exists(target'))
  <2>1. command'[c].pc = "quiet"
    BY <1>6, <1>7 DEF AtStep
  <2> QED
    BY <2>1 DEF CommandHolds
<1> QED
  BY <1>1, <1>2, <1>4, <1>5, <1>8, <1>9 DEF BinaryInv, BinaryShape

LEMMA UploadKeeps == ASSUME BinaryInv, Upload PROVE BinaryInv'
<1>1. uploads' \in [1..MaxTag -> Nat] /\ uploads'[1] > 0
  BY BinaryAssumption DEF BinaryInv, BinaryShape, Upload
<1>2. BinaryShape'
  BY <1>1 DEF BinaryInv, BinaryShape, Upload
<1>3. PlacedHold'
  BY DEF BinaryInv, PlacedHold, Upload
<1> QED
  BY <1>2, <1>3 DEF BinaryInv, Upload

LEMMA BinaryKept == BinaryInv /\ [BinaryNext]_binaryVars => BinaryInv'
<1> SUFFICES ASSUME BinaryInv, [BinaryNext]_binaryVars
             PROVE  BinaryInv'
  OBVIOUS
<1>1. ASSUME NEW c \in Commands,
             \/ StartCommand(c) \/ StageInstall(c) \/ AskLatest(c) \/ DownloadBinary(c) \/ DownloadSums(c)
             \/ Verify(c) \/ MarkExecutable(c) \/ CopyTarget(c) \/ CleanUp(c) \/ ReadStartupFile(c)
      PROVE  BinaryInv'
  BY <1>1, CommandsPrepare
<1>2. ASSUME NEW c \in Commands,
             SyncAndRetain(c) \/ PlaceBinary(c) \/ AppendLine(c) \/ KillCommand(c)
      PROVE  BinaryInv'
  BY <1>2, RetainKeeps, PlaceKeeps, EndKeeps
<1>3. CASE Upload \/ LosePower
  BY <1>3, UploadKeeps, PowerKeeps
<1>4. CASE UNCHANGED binaryVars
  BY <1>4 DEF binaryVars, BinaryInv, BinaryShape, PlacedHold
<1> QED
  BY <1>1, <1>2, <1>3, <1>4 DEF BinaryNext

\* The invariant of the installed files and the commands under way.
THEOREM BinaryInvHolds == BinarySpec => []BinaryInv
<1> QED
  BY BinaryStarts, BinaryKept, PTL DEF BinarySpec

\* Whatever commands run at once, fail or are killed, and whenever the power is
\* lost: no unverified file is placed, the target does not go away, and it or
\* what it displaced is whole, or was torn before it was retained
\* (place_staged_binary, retain_previous_binary, verify_checksum).
THEOREM RunnableHolds == BinarySpec => []BinaryIsRunnable
<1>1. BinaryInv => BinaryIsRunnable
  BY DEF BinaryInv, BinaryShape, BinaryFiles, PlacedHold, BinaryIsRunnable, Exists, Whole, RetainedTorn
<1> QED
  BY <1>1, BinaryInvHolds, PTL

(***************************************************************************)
(* Clients.                                                                *)
(***************************************************************************)

\* What the sections of a shape are, and what is written into them.
LEMMA ShapeOf ==
  ASSUME NEW a \in DOMAIN Agents
  PROVE  /\ Agents[a].shape \in Shapes
         /\ SectionsOf[Agents[a].shape] \subseteq SectionNames
         /\ Agents[a].shape # "Unknown" =>
              WriteSection[Agents[a].shape] \in SectionsOf[Agents[a].shape]
<1>1. Agents[a].shape \in Shapes
  BY ClientsAssumption
<1> QED
  BY <1>1 DEF Shapes, SectionsOf, SectionNames, WriteSection

LEMMA ClientsStart == ClientsInit => ClientsInv
<1> SUFFICES ASSUME ClientsInit
             PROVE  ClientsInv
  OBVIOUS
<1>1. PICK kind \in Kinds, sections \in [SectionNames -> {"no_section", "odd", "none", "old"}] :
        config = File(kind, sections) /\ (kind # "object" => sections = NoSections)
  BY DEF ClientsInit
<1>2. config \in ConfigFiles /\ (config.kind # "object" => config.sections = NoSections)
  BY <1>1 DEF File, ConfigFiles, Entries
<1>3. Ready \in RunStates
  BY DEF Ready, RunStates, File, ConfigFiles, NoSections, Kinds, Entries
<1>4. ClientsShape
  BY <1>2, <1>3 DEF ClientsInit, ClientsShape
<1>5. RegistrationsHold
  BY DEF ClientsInit, RegistrationsHold, Ready
<1>6. ASSUME NEW r \in Runs PROVE RunHolds(r)
  BY <1>6 DEF ClientsInit, RunHolds, Ready
<1> QED
  BY <1>4, <1>5, <1>6 DEF ClientsInv

\* What a command may be, whatever was written.
Sensible(state) ==
  /\ state.pc # "over" => state.end = "none"
  /\ state.pc \in {"add", "load", "stage", "rename"} => state.kind \in {"connect", "disconnect"}
  /\ state.pc \in {"load", "stage", "rename"} \/ state.wrote => ConfigWritable
  /\ state.pc \in {"stage", "rename"} =>
       Connects(state.loaded) = (state.kind = "connect") /\ state.loaded.kind = "object"

\* A command goes on and leaves the file and its litter.
LEMMA RunSteps ==
  ASSUME ClientsInv, NEW r \in Runs, NEW state \in RunStates, Sensible(state),
         state.wrote => run[r].wrote /\ state.kind = run[r].kind,
         r \in litter => state.pc = "rename" \/ state.end = "killed",
         run' = [run EXCEPT ![r] = state], UnchangedClients
  PROVE  ClientsInv'
<1>1. ClientsShape'
  BY DEF ClientsInv, ClientsShape, UnchangedClients
<1>2. ASSUME NEW s \in Runs PROVE run'[s] = IF s = r THEN state ELSE run[s]
  BY DEF ClientsInv, ClientsShape
<1>3. IsConnected' = IsConnected /\ ConfigWritable' = ConfigWritable /\ \A file : Connects(file)' = Connects(file)
  BY DEF IsConnected, Connects, ConfigWritable, WritesConfigFile, HasShape, This, UnchangedClients
<1>4. RegistrationsHold'
  <2>1. ASSUME NEW s \in Runs, run'[s].wrote, writer' = s PROVE IsConnected' = (run'[s].kind = "connect")
    BY <1>2, <1>3, <2>1 DEF ClientsInv, RegistrationsHold, UnchangedClients
  <2>2. (config'.kind # "object" => writer' = "client")
    BY DEF ClientsInv, RegistrationsHold, UnchangedClients
  <2>3. ASSUME NEW s \in litter' PROVE run'[s].pc = "rename" \/ run'[s].end = "killed"
    BY <1>2, <2>3 DEF ClientsInv, ClientsShape, RegistrationsHold, UnchangedClients
  <2> QED
    BY <2>1, <2>2, <2>3 DEF RegistrationsHold
<1>5. ASSUME NEW s \in Runs PROVE RunHolds(s)'
  <2>1. CASE s = r
    BY <1>2, <1>3, <2>1 DEF RunHolds, Sensible
  <2>2. CASE s # r
    BY <1>2, <1>3, <2>2 DEF RunHolds, ClientsInv
  <2> QED
    BY <2>1, <2>2
<1> QED
  BY <1>1, <1>4, <1>5 DEF ClientsInv

\* What is known of a command before its step.
LEMMA RunIs ==
  ASSUME ClientsInv, NEW r \in Runs
  PROVE  /\ run \in [Runs -> RunStates] /\ run[r] \in RunStates /\ Sensible(run[r])
         /\ config \in ConfigFiles /\ client \in DOMAIN Agents
         /\ r \in litter => run[r].pc = "rename" \/ run[r].end = "killed"
BY DEF ClientsInv, ClientsShape, RegistrationsHold, RunHolds, Sensible

\* Ending a command, and sending it to its last step, keep what it wrote.
LEMMA RunEnds ==
  ASSUME ClientsInv, NEW r \in Runs, NEW end \in {"refused", "ok", "error", "nothing", "killed"},
         Finish(r, end), r \notin litter \/ end = "killed", UnchangedClients
  PROVE  ClientsInv'
<1> DEFINE state == [run[r] EXCEPT !.pc = "over", !.end = end]
<1>1. /\ state \in RunStates /\ state.pc = "over" /\ state.end = end
      /\ state.wrote = run[r].wrote /\ state.kind = run[r].kind
  BY RunIs DEF RunStates
<1>2. run' = [run EXCEPT ![r] = state]
  BY RunIs DEF Finish
<1> HIDE DEF state
<1>3. Sensible(state)
  BY <1>1, RunIs DEF Sensible
<1> QED
  BY <1>1, <1>2, <1>3, RunSteps

LEMMA RunGoesOn ==
  ASSUME ClientsInv, NEW r \in Runs, NEW pc \in {"load", "remove"}, To(r, pc),
         r \notin litter, run[r].pc # "over",
         pc = "load" => ConfigWritable /\ run[r].kind \in {"connect", "disconnect"}, UnchangedClients
  PROVE  ClientsInv'
<1> DEFINE state == [run[r] EXCEPT !.pc = pc]
<1>1. /\ state \in RunStates /\ state.pc = pc /\ state.end = run[r].end
      /\ state.wrote = run[r].wrote /\ state.kind = run[r].kind
  BY RunIs DEF RunStates
<1>2. run' = [run EXCEPT ![r] = state]
  BY RunIs DEF To
<1> HIDE DEF state
<1>3. Sensible(state)
  BY <1>1, RunIs DEF Sensible
<1> QED
  BY <1>1, <1>2, <1>3, RunSteps

LEMMA BeginKeeps ==
  ASSUME ClientsInv, NEW r \in Runs, BeginConnect(r) \/ BeginDisconnect(r)
  PROVE  ClientsInv'
<1>1. run[r] = Ready /\ UnchangedClients
  BY DEF BeginConnect, BeginDisconnect
<1>2. Ready \in RunStates
  BY DEF Ready, RunStates, File, ConfigFiles, NoSections, Kinds, Entries
<1>3. r \notin litter
  BY <1>1, RunIs DEF Ready
<1>4. ASSUME NEW state \in RunStates, run' = [run EXCEPT ![r] = state],
             state.kind \in {"connect", "disconnect"}, state.pc \in {"load", "over", "add", "remove"},
             state.wrote = FALSE, state.pc = "load" => ConfigWritable, state.pc # "over" => state.end = "none"
      PROVE  ClientsInv'
  <2>1. Sensible(state)
    BY <1>4 DEF Sensible
  <2> QED
    BY <1>1, <1>3, <1>4, <2>1, RunSteps
<1>5. CASE BeginDisconnect(r)
  <2> DEFINE pc == IF ConfigWritable /\ config.kind \notin {"missing", "dangling"} THEN "load" ELSE "remove"
             state == [Ready EXCEPT !.kind = "disconnect", !.pc = pc]
  <2>1. pc \in {"load", "remove"} /\ (pc = "load" => ConfigWritable)
    OBVIOUS
  <2>2. run' = [run EXCEPT ![r] = state]
    BY <1>5 DEF BeginDisconnect
  <2> HIDE DEF pc
  <2>3. /\ state \in RunStates /\ state.pc = pc /\ state.end = "none" /\ state.kind = "disconnect"
        /\ state.wrote = FALSE
    BY <1>2, <2>1 DEF RunStates, Ready
  <2> HIDE DEF state
  <2> QED
    BY <1>4, <2>1, <2>2, <2>3
<1>6. CASE BeginConnect(r)
  <2> DEFINE go(pc, end) == [Ready EXCEPT !.kind = "connect", !.pc = pc, !.end = end]
  <2>1. \/ run' = [run EXCEPT ![r] = go("over", "refused")]
        \/ run' = [run EXCEPT ![r] = go("load", "none")] /\ ConfigWritable
        \/ run' = [run EXCEPT ![r] = go("add", "none")]
    BY <1>6 DEF BeginConnect
  <2>2. ASSUME NEW pc \in {"load", "over", "add"}, NEW end \in {"none", "refused"}
        PROVE  /\ go(pc, end) \in RunStates /\ go(pc, end).pc = pc /\ go(pc, end).end = end
               /\ go(pc, end).kind = "connect" /\ go(pc, end).wrote = FALSE
    BY <1>2, <2>2 DEF RunStates, Ready
  <2> HIDE DEF go
  <2> QED
    BY <1>4, <2>1, <2>2
<1> QED
  BY <1>5, <1>6

LEMMA RunAddKeeps == ASSUME ClientsInv, NEW r \in Runs, RunAdd(r) PROVE ClientsInv'
<1>1. run[r].pc = "add" /\ UnchangedClients /\ r \notin litter
  BY RunIs DEF RunAdd, Reached, Sensible
<1>2. CASE Finish(r, "ok") \/ Finish(r, "error")
  BY <1>1, <1>2, RunEnds
<1>3. CASE To(r, "load") /\ ConfigWritable
  <2>1. run[r].kind \in {"connect", "disconnect"}
    BY <1>1, RunIs DEF Sensible
  <2> QED
    BY <1>1, <1>3, <2>1, RunGoesOn
<1> QED
  BY <1>2, <1>3 DEF RunAdd

LEMMA RunRemoveKeeps == ASSUME ClientsInv, NEW r \in Runs, RunRemove(r) \/ KillRun(r) PROVE ClientsInv'
<1>1. CASE KillRun(r)
  BY <1>1, RunEnds DEF KillRun
<1>2. CASE RunRemove(r)
  <2>1. run[r].pc = "remove" /\ UnchangedClients /\ r \notin litter
    BY <1>2, RunIs DEF RunRemove, Reached, Sensible
  <2>2. \E end \in {"ok", "error", "nothing"} : Finish(r, end)
    BY <1>2 DEF RunRemove
  <2> QED
    BY <2>1, <2>2, RunEnds
<1> QED
  BY <1>1, <1>2

\* What goes into the file is an object; `is_connected` sees an entry put in,
\* and nothing where the entries were taken out.
LEMMA InsertIsSeen ==
  ASSUME NEW file \in ConfigFiles, NEW edited \in Inserts(file), ConfigWritable, client \in DOMAIN Agents
  PROVE  edited \in ConfigFiles /\ edited.kind = "object" /\ Connects(edited)
<1> DEFINE s == WriteSection[This.shape]
<1>1. This.home /\ HasShape /\ s \in SectionsOf[This.shape] /\ SectionsOf[This.shape] \subseteq SectionNames
  BY ShapeOf DEF ConfigWritable, HasShape, This
<1>2. file.kind = "object" /\ edited = [file EXCEPT !.sections[s] = "new"]
  BY DEF Inserts
<1> HIDE DEF s
<1>3. edited \in ConfigFiles /\ edited.kind = "object" /\ edited.sections[s] = "new"
  BY <1>1, <1>2 DEF ConfigFiles, Entries
<1> QED
  BY <1>1, <1>3 DEF Connects

LEMMA WithoutIsUnseen ==
  ASSUME NEW file \in ConfigFiles, client \in DOMAIN Agents,
         file.kind # "object" => file.sections = NoSections
  PROVE  /\ Without(file) \in ConfigFiles /\ ~Connects(Without(file))
         /\ Without(file) # file => Without(file).kind = "object"
<1> DEFINE sections == [s \in SectionNames |->
             IF s \in Cleared /\ file.sections[s] \in {"old", "new"} THEN "none" ELSE file.sections[s]]
<1>1. /\ Without(file).kind = file.kind /\ Without(file).sections = sections
      /\ Without(file) = [kind |-> file.kind, sections |-> sections]
  BY DEF Without, ConfigFiles
<1>2. file.sections \in [SectionNames -> Entries] /\ file.kind \in Kinds
      /\ file = [kind |-> file.kind, sections |-> file.sections]
  BY DEF ConfigFiles
<1>3. sections \in [SectionNames -> Entries]
  BY <1>2 DEF Entries
<1>4. ~Connects(Without(file))
  <2>1. \A s \in SectionsOf[This.shape] : s \in SectionNames
    BY ShapeOf DEF This
  <2>2. \A s \in SectionsOf[This.shape] : sections[s] \notin {"old", "new"}
    BY <2>1 DEF Cleared
  <2> QED
    BY <1>1, <2>2 DEF Connects
<1>5. ASSUME file.kind # "object" PROVE sections = file.sections
  BY <1>2, <1>5 DEF NoSections
<1> QED
  BY <1>1, <1>2, <1>3, <1>4, <1>5 DEF ConfigFiles

LEMMA LoadKeeps == ASSUME ClientsInv, NEW r \in Runs, LoadConfig(r) PROVE ClientsInv'
<1>1. /\ run[r].pc = "load" /\ UnchangedClients /\ r \notin litter /\ ConfigWritable
      /\ run[r].kind \in {"connect", "disconnect"} /\ run[r].end = "none"
  BY RunIs DEF LoadConfig, Reached, Sensible
<1> DEFINE file == Parsed(config)
<1>2. file \in ConfigFiles /\ (file.kind # "object" => file.sections = NoSections)
  BY RunIs DEF Parsed, File, ConfigFiles, NoSections, Kinds, Entries, ClientsInv, ClientsShape
<1>3. \/ run[r].kind = "connect" /\ \E edited \in Inserts(file) :
           run' = [run EXCEPT ![r].loaded = edited, ![r].pc = "stage"]
      \/ run[r].kind = "disconnect" /\
           run' = [run EXCEPT ![r].loaded = Without(file),
                              ![r].pc = IF Without(file) = file THEN "remove" ELSE "stage"]
      \/ Finish(r, "error")
  BY DEF LoadConfig
<1> HIDE DEF file
<1>4. ASSUME NEW loaded \in ConfigFiles, NEW pc \in {"stage", "remove"},
             run' = [run EXCEPT ![r].loaded = loaded, ![r].pc = pc],
             pc = "stage" => Connects(loaded) = (run[r].kind = "connect") /\ loaded.kind = "object"
      PROVE  ClientsInv'
  <2> DEFINE state == [run[r] EXCEPT !.loaded = loaded, !.pc = pc]
  <2>1. /\ state \in RunStates /\ state.pc = pc /\ state.end = run[r].end /\ state.loaded = loaded
        /\ state.wrote = run[r].wrote /\ state.kind = run[r].kind
    BY RunIs DEF RunStates
  <2>2. run' = [run EXCEPT ![r] = state]
    BY <1>4, RunIs
  <2> HIDE DEF state
  <2>3. Sensible(state)
    BY <1>1, <1>4, <2>1 DEF Sensible
  <2> QED
    BY <1>1, <2>1, <2>2, <2>3, RunSteps
<1>5. CASE Finish(r, "error")
  BY <1>1, <1>5, RunEnds
<1>6. CASE run[r].kind = "connect" /\ \E edited \in Inserts(file) :
             run' = [run EXCEPT ![r].loaded = edited, ![r].pc = "stage"]
  <2>1. PICK edited \in Inserts(file) : run' = [run EXCEPT ![r].loaded = edited, ![r].pc = "stage"]
    BY <1>6
  <2>2. edited \in ConfigFiles /\ edited.kind = "object" /\ Connects(edited) = TRUE
    BY <1>1, <1>2, InsertIsSeen, RunIs DEF Connects
  <2> QED
    BY <1>4, <1>6, <2>1, <2>2
<1>7. CASE /\ run[r].kind = "disconnect"
           /\ run' = [run EXCEPT ![r].loaded = Without(file),
                                 ![r].pc = IF Without(file) = file THEN "remove" ELSE "stage"]
  <2>1. /\ Without(file) \in ConfigFiles /\ Connects(Without(file)) = FALSE
        /\ Without(file) # file => Without(file).kind = "object"
    BY <1>2, WithoutIsUnseen, RunIs DEF Connects
  <2>2. CASE Without(file) = file
    <3>1. run' = [run EXCEPT ![r].loaded = Without(file), ![r].pc = "remove"]
      BY <1>7, <2>2
    <3> QED
      BY <1>4, <2>1, <3>1
  <2>3. CASE Without(file) # file
    <3>1. run' = [run EXCEPT ![r].loaded = Without(file), ![r].pc = "stage"]
      BY <1>7, <2>3
    <3> QED
      BY <1>4, <1>7, <2>1, <2>3, <3>1
  <2> QED
    BY <2>2, <2>3
<1> QED
  BY <1>3, <1>5, <1>6, <1>7

\* What a step that changes the run, the litter, the file or its writer owes.
LEMMA RunChanges ==
  ASSUME ClientsInv, NEW r \in Runs, NEW state \in RunStates, Sensible(state),
         run' = [run EXCEPT ![r] = state], UNCHANGED <<client, onPath>>,
         litter' \subseteq litter \cup {r},
         r \in litter' => state.pc = "rename" \/ state.end = "killed",
         \/ UNCHANGED <<config, writer>> /\ state.wrote = run[r].wrote /\ state.kind = run[r].kind
         \/ /\ config' \in ConfigFiles /\ config'.kind = "object" /\ writer' = r
            /\ Connects(config') = (state.kind = "connect")
  PROVE  ClientsInv'
<1>1. ClientsShape' /\ (config'.kind # "object" => writer' = "client")
  BY DEF ClientsInv, ClientsShape, RegistrationsHold
<1>2. ASSUME NEW s \in Runs PROVE run'[s] = IF s = r THEN state ELSE run[s]
  BY DEF ClientsInv, ClientsShape
<1>3. ConfigWritable' = ConfigWritable /\ IsConnected' = Connects(config') /\ \A file : Connects(file)' = Connects(file)
  BY DEF IsConnected, Connects, ConfigWritable, WritesConfigFile, HasShape, This
<1>4. RegistrationsHold'
  <2>1. ASSUME NEW s \in Runs, run'[s].wrote, writer' = s PROVE IsConnected' = (run'[s].kind = "connect")
    <3>1. CASE UNCHANGED <<config, writer>> /\ state.wrote = run[r].wrote /\ state.kind = run[r].kind
      BY <1>2, <1>3, <2>1, <3>1 DEF ClientsInv, RegistrationsHold, IsConnected
    <3>2. CASE writer' = r /\ Connects(config') = (state.kind = "connect")
      BY <1>2, <1>3, <2>1, <3>2
    <3> QED
      BY <3>1, <3>2
  <2>2. ASSUME NEW s \in litter' PROVE run'[s].pc = "rename" \/ run'[s].end = "killed"
    BY <1>2, <2>2 DEF ClientsInv, ClientsShape, RegistrationsHold
  <2> QED
    BY <1>1, <2>1, <2>2 DEF RegistrationsHold
<1>5. ASSUME NEW s \in Runs PROVE RunHolds(s)'
  <2>1. CASE s = r
    BY <1>2, <1>3, <2>1 DEF RunHolds, Sensible
  <2>2. CASE s # r
    BY <1>2, <1>3, <2>2 DEF RunHolds, ClientsInv
  <2> QED
    BY <2>1, <2>2
<1> QED
  BY <1>1, <1>4, <1>5 DEF ClientsInv

LEMMA StageKeeps == ASSUME ClientsInv, NEW r \in Runs, StageConfig(r) PROVE ClientsInv'
<1>1. run[r].pc = "stage" /\ r \notin litter /\ UNCHANGED <<client, config, onPath, writer>>
  BY RunIs DEF StageConfig, Reached, Sensible
<1>2. CASE Finish(r, "error") /\ UNCHANGED litter
  BY <1>1, <1>2, RunEnds DEF UnchangedClients
<1>3. CASE To(r, "rename") /\ litter' = litter \cup {r}
  <2> DEFINE state == [run[r] EXCEPT !.pc = "rename"]
  <2>1. /\ state \in RunStates /\ state.pc = "rename" /\ state.end = run[r].end
        /\ state.wrote = run[r].wrote /\ state.kind = run[r].kind /\ state.loaded = run[r].loaded
    BY RunIs DEF RunStates
  <2>2. run' = [run EXCEPT ![r] = state]
    BY <1>3, RunIs DEF To
  <2> HIDE DEF state
  <2>3. Sensible(state)
    BY <1>1, <2>1, RunIs DEF Sensible
  <2> QED
    BY <1>1, <1>3, <2>1, <2>2, <2>3, RunChanges
<1> QED
  BY <1>2, <1>3 DEF StageConfig

LEMMA RenameKeeps == ASSUME ClientsInv, NEW r \in Runs, RenameConfig(r) PROVE ClientsInv'
<1>1. /\ run[r].pc = "rename" /\ litter' = litter \ {r} /\ UNCHANGED <<client, onPath>>
      /\ ConfigWritable /\ Connects(run[r].loaded) = (run[r].kind = "connect")
      /\ run[r].loaded.kind = "object" /\ run[r].loaded \in ConfigFiles /\ run[r].end = "none"
  BY RunIs DEF RenameConfig, Reached, Sensible, RunStates
<1>2. CASE Finish(r, "error") /\ UNCHANGED <<config, writer>>
  <2> DEFINE state == [run[r] EXCEPT !.pc = "over", !.end = "error"]
  <2>1. /\ state \in RunStates /\ state.pc = "over" /\ state.end = "error"
        /\ state.wrote = run[r].wrote /\ state.kind = run[r].kind
    BY RunIs DEF RunStates
  <2>2. run' = [run EXCEPT ![r] = state]
    BY <1>2, RunIs DEF Finish
  <2> HIDE DEF state
  <2>3. Sensible(state)
    BY <1>1, <2>1 DEF Sensible
  <2> QED
    BY <1>1, <1>2, <2>1, <2>2, <2>3, RunChanges
<1>3. CASE /\ config' = run[r].loaded /\ writer' = r
           /\ run' = [run EXCEPT ![r].wrote = TRUE, ![r].touched = TRUE,
                                 ![r].pc = IF run[r].kind = "connect" THEN "over" ELSE "remove",
                                 ![r].end = IF run[r].kind = "connect" THEN "ok" ELSE @]
  <2> DEFINE pc == IF run[r].kind = "connect" THEN "over" ELSE "remove"
             end == IF run[r].kind = "connect" THEN "ok" ELSE run[r].end
             state == [run[r] EXCEPT !.wrote = TRUE, !.touched = TRUE, !.pc = pc, !.end = end]
  <2>1. pc \in {"over", "remove"} /\ end \in {"ok", "none"} /\ (pc # "over" => end = "none")
    BY <1>1
  <2>2. run' = [run EXCEPT ![r] = state]
    BY <1>3, RunIs
  <2> HIDE DEF pc, end
  <2>3. /\ state \in RunStates /\ state.pc = pc /\ state.end = end
        /\ state.wrote = TRUE /\ state.kind = run[r].kind
    BY <2>1, RunIs DEF RunStates
  <2> HIDE DEF state
  <2>4. Sensible(state)
    BY <1>1, <2>1, <2>3 DEF Sensible
  <2>5. config' \in ConfigFiles /\ config'.kind = "object" /\ Connects(config') = (state.kind = "connect")
    BY <1>1, <1>3, <2>3
  <2> QED
    BY <1>1, <1>3, <2>2, <2>3, <2>4, <2>5, RunChanges
<1> QED
  BY <1>2, <1>3 DEF RenameConfig

\* What the client itself writes is a config file that is the client's.
LEMMA ClientWritesFiles ==
  ASSUME ClientsInv, NEW r, ClientAdds(r) \/ ClientRemoves(r) \/ ClientSaves
  PROVE  /\ UNCHANGED <<client, run, litter>> /\ writer' = "client"
         /\ config' \in ConfigFiles /\ (config'.kind # "object" => config'.sections = NoSections)
<1>1. /\ config \in ConfigFiles /\ (config.kind # "object" => config.sections = NoSections)
      /\ client \in DOMAIN Agents
  BY DEF ClientsInv, ClientsShape
<1> DEFINE file == Parsed(config)
<1>2. file \in ConfigFiles /\ (file.kind # "object" => file.sections = NoSections)
      /\ (config.kind \in {"missing", "empty", "object"} => file.kind = "object")
  BY <1>1 DEF Parsed, File, ConfigFiles, NoSections, Kinds, Entries
<1>3. SectionsOf[This.shape] \subseteq SectionNames
  BY <1>1, ShapeOf DEF This
<1> HIDE DEF file
<1>4. CASE ClientSaves
  BY <1>2, <1>4 DEF ClientSaves, ClientWrites, file
<1>5. CASE ClientAdds(r)
  <2>1. PICK s \in SectionsOf[This.shape] : ClientWrites([file EXCEPT !.sections[s] = "new"])
    BY <1>5 DEF ClientAdds, file
  <2>2. file.kind = "object"
    BY <1>2, <1>5 DEF ClientAdds
  <2> QED
    BY <1>2, <1>3, <2>1, <2>2 DEF ClientWrites, ConfigFiles, Entries
<1>6. CASE ClientRemoves(r)
  <2>1. PICK s \in SectionsOf[This.shape] : ClientWrites([config EXCEPT !.sections[s] = "none"])
    BY <1>6 DEF ClientRemoves
  <2>2. config.kind = "object"
    BY <1>6 DEF ClientRemoves
  <2> QED
    BY <1>1, <1>3, <2>1, <2>2 DEF ClientWrites, ConfigFiles, Entries
<1> QED
  BY <1>4, <1>5, <1>6

\* What the client writes, and a changed PATH, leave every command as it is.
LEMMA WorldKeeps ==
  ASSUME ClientsInv, UNCHANGED <<client, run, litter>>,
         \/ UNCHANGED <<config, writer>>
         \/ /\ config' \in ConfigFiles /\ (config'.kind # "object" => config'.sections = NoSections)
            /\ writer' = "client"
  PROVE  ClientsInv'
<1>1. client \in DOMAIN Agents
  BY DEF ClientsInv, ClientsShape
<1>2. ConfigWritable' = ConfigWritable /\ \A file : Connects(file)' = Connects(file)
  BY DEF Connects, ConfigWritable, WritesConfigFile, HasShape, This
<1>3. ASSUME NEW r \in Runs PROVE RunHolds(r)'
  BY <1>2 DEF RunHolds, ClientsInv
<1>4. ClientsShape'
  BY DEF ClientsInv, ClientsShape
<1>5. RegistrationsHold'
  <2>1. CASE UNCHANGED <<config, writer>>
    BY <1>1, <1>2, <2>1 DEF ClientsInv, RegistrationsHold, IsConnected
  <2>2. CASE writer' = "client"
    BY <1>1, <2>2, ClientsAssumption DEF ClientsInv, RegistrationsHold
  <2> QED
    BY <2>1, <2>2
<1> QED
  BY <1>3, <1>4, <1>5 DEF ClientsInv

LEMMA ClientsKept == ClientsInv /\ [ClientsNext]_clientVars => ClientsInv'
<1> SUFFICES ASSUME ClientsInv, [ClientsNext]_clientVars
             PROVE  ClientsInv'
  OBVIOUS
<1>1. CASE UNCHANGED clientVars
  <2>1. UNCHANGED <<client, config, run, litter, writer>>
    BY <1>1 DEF clientVars
  <2> QED
    BY <2>1 DEF ClientsInv, ClientsShape, RegistrationsHold, IsConnected, Connects, RunHolds,
                ConfigWritable, WritesConfigFile, HasShape, This
<1>2. ASSUME NEW r \in Runs, BeginConnect(r) \/ BeginDisconnect(r) PROVE ClientsInv'
  BY <1>2, BeginKeeps
<1>3. ASSUME NEW r \in Runs, RunAdd(r) PROVE ClientsInv'
  BY <1>3, RunAddKeeps
<1>4. ASSUME NEW r \in Runs, LoadConfig(r) PROVE ClientsInv'
  BY <1>4, LoadKeeps
<1>5. ASSUME NEW r \in Runs, StageConfig(r) PROVE ClientsInv'
  BY <1>5, StageKeeps
<1>6. ASSUME NEW r \in Runs, RenameConfig(r) PROVE ClientsInv'
  BY <1>6, RenameKeeps
<1>7. ASSUME NEW r \in Runs, RunRemove(r) \/ KillRun(r) PROVE ClientsInv'
  BY <1>7, RunRemoveKeeps
<1>8. ASSUME NEW r \in Runs, ClientAdds(r) \/ ClientRemoves(r) PROVE ClientsInv'
  BY <1>8, ClientWritesFiles, WorldKeeps
<1>9. ASSUME ClientSaves PROVE ClientsInv'
  BY <1>9, ClientWritesFiles, WorldKeeps
<1>10. ASSUME PathChanges PROVE ClientsInv'
  BY <1>10, WorldKeeps DEF PathChanges
<1> QED
  BY <1>1, <1>2, <1>3, <1>4, <1>5, <1>6, <1>7, <1>8, <1>9, <1>10 DEF ClientsNext

\* However commands, clients' saves and kills interleave, a command's last step
\* follows from what it wrote (connect_agent, disconnect_agent).
THEOREM ClientsInvHolds == ClientsSpec => []ClientsInv
<1> QED
  BY ClientsStart, ClientsKept, PTL DEF ClientsSpec

\* A connect that wrote the file is seen by `is_connected`, a disconnect left
\* nothing it sees, a file that is no object is never replaced, and only a
\* killed command leaves its temporary file (connect_config_file,
\* disconnect_config_file, write_atomic).
THEOREM RegistrationsProved == ClientsSpec => []RegistrationsHold
<1>1. ClientsInv => RegistrationsHold
  BY DEF ClientsInv
<1> QED
  BY <1>1, ClientsInvHolds, PTL

(***************************************************************************)
(* Analysis: the caps.                                                     *)
(***************************************************************************)

Budgets == [kept : Seq(Facts), dropped : BOOLEAN, stopped : BOOLEAN]
AdmitsAll(items, budgets) ==
  /\ budgets[0] = Unspent
  /\ \A k \in 1..Len(items) : budgets[k] = Admit(items[k], budgets[k - 1])

LEMMA AdmitType == ASSUME NEW item \in Facts, NEW b \in Budgets PROVE Admit(item, b) \in Budgets
<1>1. Append(b.kept, item) \in Seq(Facts)
  BY AppendProperties DEF Budgets
<1>2. /\ [b EXCEPT !.stopped = TRUE] \in Budgets /\ [b EXCEPT !.dropped = TRUE] \in Budgets
      /\ [b EXCEPT !.kept = Append(b.kept, item)] \in Budgets
  BY <1>1 DEF Budgets
<1> QED
  BY <1>2 DEF Admit

\* apply_evidence_limits admits one item after the other.
LEMMA LimitedRuns ==
  ASSUME NEW items \in Seq(Facts)
  PROVE  \E budgets \in [0..Len(items) -> Budgets] :
           /\ AdmitsAll(items, budgets)
           /\ Limited(items) = [kept |-> budgets[Len(items)].kept,
                                discarded |-> budgets[Len(items)].dropped \/ budgets[Len(items)].stopped]
<1> DEFINE n == Len(items)
           step == [i \in 1..n |-> [v \in Budgets |-> Admit(items[i], v)]]
           Rec(h) == [s \in SUBSET (1..n) |->
                        IF s = {} THEN Unspent ELSE Admit(items[Max(s)], h[s \ {Max(s)}])]
<1>1. n \in Nat /\ DOMAIN items = 1..n /\ \A i \in 1..n : items[i] \in Facts
  BY LenProperties, ElementOfSeq
<1>2. Unspent \in Budgets
  BY EmptySeq DEF Unspent, Budgets
<1>3. \A i \in 1..n, v \in Budgets : step[i][v] = Admit(items[i], v) /\ step[i][v] \in Budgets
  BY <1>1, AdmitType
<1>4. PICK g \in [SUBSET (1..n) -> Budgets] : FoldOf(1..n, Unspent, LastIn(n), step, g)
  <2> HIDE DEF n, step
  <2> QED
    BY <1>1, <1>2, <1>3, SequenceFoldExists
<1>5. ASSUME NEW s \in SUBSET (1..n)
      PROVE  g[s] = IF s = {} THEN Unspent ELSE Admit(items[Max(s)], g[s \ {Max(s)}])
  <2>1. g[s] = IF s = {} THEN Unspent ELSE step[LastIn(n)[s]][g[s \ {LastIn(n)[s]}]]
    BY <1>4 DEF FoldOf
  <2>2. CASE s # {}
    <3>1. LastIn(n)[s] = Max(s) /\ Max(s) \in s /\ s \ {Max(s)} \in SUBSET (1..n)
      BY <1>1, <2>2, MaxIsIn DEF LastIn
    <3>2. Max(s) \in 1..n /\ g[s \ {Max(s)}] \in Budgets
      BY <1>4, <3>1
    <3>3. step[Max(s)][g[s \ {Max(s)}]] = Admit(items[Max(s)], g[s \ {Max(s)}])
      BY <1>3, <3>2
    <3> HIDE DEF step
    <3> QED
      BY <2>1, <2>2, <3>1, <3>3
  <2> QED
    BY <2>1, <2>2
<1>6. g = Rec(g)
  <2>1. g = [s \in SUBSET (1..n) |-> g[s]]
    BY <1>4
  <2> QED
    BY <2>1, <1>5
<1>7. PICK h : h = Rec(h) /\ FoldLeft(LAMBDA b, i : Admit(i, b), Unspent, items) = h[1..n]
  <2> DEFINE it == CHOOSE h : h = Rec(h)
  <2>1. FoldLeft(LAMBDA b, i : Admit(i, b), Unspent, items) = it[1..n]
    BY <1>1 DEF FoldLeft, MapThenFoldSet
  <2>2. it = Rec(it)
    BY <1>6
  <2> QED
    BY <2>1, <2>2
<1>8. ASSUME NEW s \in SUBSET (1..n)
      PROVE  h[s] = IF s = {} THEN Unspent ELSE Admit(items[Max(s)], h[s \ {Max(s)}])
  BY <1>7
<1>9. h[1..0] = Unspent
  <2>1. 1..0 = {}
    OBVIOUS
  <2> QED
    BY <2>1, <1>8
<1>10. ASSUME NEW k \in 1..n PROVE h[1..k] = Admit(items[k], h[1 .. (k - 1)])
  <2>1. /\ 1..k \in SUBSET (1..n) /\ 1..k # {} /\ Max(1..k) = k
        /\ (1..k) \ {k} = 1 .. (k - 1)
    BY <1>1, MaxOfSegment
  <2>2. h[1..k] = Admit(items[Max(1..k)], h[(1..k) \ {Max(1..k)}])
    BY <2>1, <1>8
  <2> QED
    BY <2>1, <2>2
<1> DEFINE T == {k \in 0..n : h[1..k] \in Budgets}
<1>11. \A k \in 0..n : k \in T
  <2>1. 0 \in T
    BY <1>1, <1>2, <1>9
  <2>2. ASSUME NEW k \in 1..n, k - 1 \in T PROVE k \in T
    <3>1. h[1..k] \in Budgets
      BY <1>1, <1>10, <2>2, AdmitType
    <3> QED
      BY <1>1, <3>1
  <2> HIDE DEF T, n
  <2> QED
    BY <1>1, <2>1, <2>2, UpTo
<1> DEFINE budgets == [k \in 0..n |-> h[1..k]]
<1>12. budgets \in [0..n -> Budgets]
  BY <1>11
<1>13. AdmitsAll(items, budgets)
  <2>1. budgets[0] = Unspent
    BY <1>1, <1>9
  <2>2. ASSUME NEW k \in 1..n PROVE budgets[k] = Admit(items[k], budgets[k - 1])
    <3>1. k \in 0..n /\ k - 1 \in 0..n
      BY <1>1
    <3> QED
      BY <1>10, <3>1
  <2> QED
    BY <2>1, <2>2 DEF AdmitsAll
<1>14. Limited(items) = [kept |-> budgets[n].kept, discarded |-> budgets[n].dropped \/ budgets[n].stopped]
  <2>1. n \in 0..n
    BY <1>1
  <2>2. budgets[n] = h[1..n]
    BY <2>1
  <2> HIDE DEF budgets, n
  <2> QED
    BY <1>7, <2>2 DEF Limited
<1> HIDE DEF budgets
<1> QED
  BY <1>12, <1>13, <1>14

-----------------------------------------------------------------------------
\* The bytes of what is kept.
BytesOf(s) == [i \in DOMAIN s |-> s[i].bytes]

LEMMA SizeIsNat == ASSUME NEW s \in Seq(Facts) PROVE SizeOf(s) \in Nat
<1>1. DOMAIN s = 1..Len(s) /\ Len(s) \in Nat /\ IsFiniteSet(DOMAIN s)
  BY LenProperties, FS_Interval
<1>2. ASSUME NEW i \in DOMAIN s PROVE BytesOf(s)[i] \in Nat
  <2>1. s[i] \in Facts
    BY <1>1, ElementOfSeq
  <2> QED
    BY <2>1 DEF Facts, BytesOf
<1>3. SumFunctionOnSet(BytesOf(s), DOMAIN s) \in Nat
  BY <1>1, <1>2, SumIsNat
<1> QED
  BY <1>3 DEF SizeOf, BytesOf

LEMMA SizeOfNothing == SizeOf(<<>>) = 0
<1>1. DOMAIN <<>> = {}
  OBVIOUS
<1> QED
  BY <1>1, SumOfNothing DEF SizeOf

LEMMA SizeGrows ==
  ASSUME NEW s \in Seq(Facts), NEW item \in Facts
  PROVE  SizeOf(Append(s, item)) = SizeOf(s) + item.bytes
<1> DEFINE t == Append(s, item)
           n == Len(s)
<1>1. /\ t \in Seq(Facts) /\ n \in Nat /\ DOMAIN s = 1..n /\ DOMAIN t = 1 .. (n + 1)
      /\ \A i \in 1..n : t[i] = s[i]
      /\ t[n + 1] = item
  BY AppendProperties, LenProperties
<1>2. DOMAIN t = DOMAIN s \cup {n + 1} /\ n + 1 \notin DOMAIN s /\ IsFiniteSet(DOMAIN s)
  <2>1. IsFiniteSet(1..n)
    BY <1>1, FS_Interval
  <2> HIDE DEF t, n
  <2> QED
    BY <1>1, <2>1
<1>3. ASSUME NEW i \in DOMAIN t PROVE BytesOf(t)[i] \in Nat
  <2>1. i \in 1..Len(t)
    BY <1>1, LenProperties
  <2>2. t[i] \in Facts
    BY <1>1, <2>1, ElementOfSeq
  <2> QED
    BY <2>2 DEF Facts, BytesOf
<1>4. \A i \in DOMAIN s : BytesOf(s)[i] \in Nat /\ BytesOf(s)[i] = BytesOf(t)[i]
  BY <1>1, <1>2, <1>3 DEF BytesOf
<1>5. BytesOf(t)[n + 1] = item.bytes
  BY <1>1, <1>2 DEF BytesOf
<1> HIDE DEF t, n
<1>6. SumFunctionOnSet(BytesOf(t), DOMAIN s \cup {n + 1})
        = SumFunctionOnSet(BytesOf(t), DOMAIN s) + BytesOf(t)[n + 1]
  <2>1. \A i \in DOMAIN s \cup {n + 1} : BytesOf(t)[i] \in Nat
    BY <1>2, <1>3
  <2> DEFINE added == n + 1
             fun == BytesOf(t)
             before == DOMAIN s
  <2>2. IsFiniteSet(before) /\ added \notin before /\ \A i \in before \cup {added} : fun[i] \in Nat
    BY <1>2, <2>1
  <2> HIDE DEF added, fun, before
  <2>3. SumFunctionOnSet(fun, before \cup {added}) = SumFunctionOnSet(fun, before) + fun[added]
    BY <2>2, SumWith
  <2> QED
    BY <2>3 DEF added, fun, before
<1>7. SumFunctionOnSet(BytesOf(s), DOMAIN s) = SumFunctionOnSet(BytesOf(t), DOMAIN s)
  BY <1>2, <1>4, SumSame
<1>8. SizeOf(t) = SizeOf(s) + item.bytes
  BY <1>2, <1>5, <1>6, <1>7 DEF SizeOf, BytesOf
<1> QED
  BY <1>8 DEF t

-----------------------------------------------------------------------------
\* After k items: what is kept fits, and is all of them unless one was discarded.
KeptOf(b, items, k) ==
  /\ Len(b.kept) <= k /\ Len(b.kept) <= MaxItems - 1
  /\ SizeOf(b.kept) <= MaxBytes - MarkerBytes
  /\ b.dropped \/ b.stopped => Len(b.kept) < k
  /\ ~ (b.dropped \/ b.stopped) => Len(b.kept) = k /\ \A i \in 1..k : b.kept[i] = items[i]

LEMMA Caps ==
  /\ MaxItems \in Nat \ {0} /\ MaxBytes \in Nat /\ MarkerBytes \in 0..MaxBytes
  /\ SatSub(MaxItems, 1) = MaxItems - 1 /\ SatSub(MaxBytes, MarkerBytes) = MaxBytes - MarkerBytes
BY AnalysisAssumption DEF SatSub

LEMMA AdmitKeeps ==
  ASSUME NEW items \in Seq(Facts), NEW k \in 1..Len(items), NEW b \in Budgets, KeptOf(b, items, k - 1)
  PROVE  KeptOf(Admit(items[k], b), items, k)
<1> DEFINE item == items[k]
           next == Admit(item, b)
<1>1. /\ item \in Facts /\ item.bytes \in Nat /\ k \in Nat /\ k >= 1
      /\ b.kept \in Seq(Facts) /\ b.dropped \in BOOLEAN /\ b.stopped \in BOOLEAN
      /\ Len(b.kept) \in Nat /\ SizeOf(b.kept) \in Nat
  <2>1. k \in Nat /\ k >= 1 /\ item \in Facts
    BY LenProperties, ElementOfSeq
  <2>2. b.kept \in Seq(Facts) /\ b.dropped \in BOOLEAN /\ b.stopped \in BOOLEAN
    BY DEF Budgets
  <2>3. item.bytes \in Nat
    BY <2>1 DEF Facts
  <2> HIDE DEF item
  <2> QED
    BY <2>1, <2>2, <2>3, LenProperties, SizeIsNat
<1>2. /\ Len(b.kept) <= k - 1 /\ Len(b.kept) <= MaxItems - 1 /\ SizeOf(b.kept) <= MaxBytes - MarkerBytes
      /\ (b.dropped \/ b.stopped => Len(b.kept) < k - 1)
      /\ (~(b.dropped \/ b.stopped) => Len(b.kept) = k - 1 /\ \A i \in 1 .. (k - 1) : b.kept[i] = items[i])
  BY DEF KeptOf
<1>3. \/ b.stopped /\ next = b
      \/ ~b.stopped /\ next = [b EXCEPT !.stopped = TRUE]
      \/ ~b.stopped /\ next = [b EXCEPT !.dropped = TRUE]
      \/ /\ ~b.stopped /\ ~(Len(b.kept) >= MaxItems - 1)
         /\ ~(SizeOf(b.kept) + item.bytes > MaxBytes - MarkerBytes)
         /\ next = [b EXCEPT !.kept = Append(@, item)]
  BY Caps DEF Admit
<1>100. SUFFICES KeptOf(next, items, k)
  OBVIOUS
<1> HIDE DEF next, item
<1>4. ASSUME next.kept = b.kept, next.dropped \/ next.stopped PROVE KeptOf(next, items, k)
  <2>1. Len(b.kept) < k
    <3>1. Len(b.kept) <= k - 1
      BY <1>2
    <3> QED
      BY ONLY <1>1, <3>1
  <2>2. Len(next.kept) < k /\ Len(next.kept) <= k /\ Len(next.kept) <= MaxItems - 1
        /\ SizeOf(next.kept) <= MaxBytes - MarkerBytes
    BY <1>1, <1>2, <1>4, <2>1
  <2> QED
    BY <1>4, <2>2, Zenon DEF KeptOf
<1>5. CASE b.stopped /\ next = b
  <2>1. next.kept = b.kept /\ (next.dropped \/ next.stopped)
    BY <1>5, Zenon
  <2> QED
    BY <1>4, <2>1, Zenon
<1>6. CASE next = [b EXCEPT !.stopped = TRUE] \/ next = [b EXCEPT !.dropped = TRUE]
  <2>1. next.kept = b.kept /\ (next.dropped \/ next.stopped)
    BY <1>6 DEF Budgets
  <2> QED
    BY <1>4, <2>1, Zenon
<1>7. CASE /\ ~b.stopped /\ ~(Len(b.kept) >= MaxItems - 1)
           /\ ~(SizeOf(b.kept) + item.bytes > MaxBytes - MarkerBytes)
           /\ next = [b EXCEPT !.kept = Append(@, item)]
  <2> DEFINE longer == Append(b.kept, item)
  <2>1. next.kept = longer /\ next.dropped = b.dropped /\ next.stopped = b.stopped
    BY <1>7 DEF Budgets
  <2>2. /\ longer \in Seq(Facts) /\ Len(longer) = Len(b.kept) + 1 /\ longer[Len(b.kept) + 1] = item
        /\ \A i \in 1..Len(b.kept) : longer[i] = b.kept[i]
    BY <1>1, AppendProperties
  <2>3. SizeOf(longer) = SizeOf(b.kept) + item.bytes
    BY <1>1, SizeGrows
  <2> HIDE DEF longer
  <2>4. Len(longer) <= k /\ Len(longer) <= MaxItems - 1 /\ SizeOf(longer) <= MaxBytes - MarkerBytes
    <3>1. Len(b.kept) < MaxItems - 1 /\ SizeOf(b.kept) + item.bytes <= MaxBytes - MarkerBytes
      <4>1. ~(Len(b.kept) >= MaxItems - 1) /\ ~(SizeOf(b.kept) + item.bytes > MaxBytes - MarkerBytes)
        BY <1>7
      <4> QED
        BY ONLY <4>1, <1>1, Caps
    <3>2. Len(b.kept) <= k - 1
      BY <1>2
    <3>3. Len(longer) <= k /\ Len(longer) <= MaxItems - 1
      BY ONLY <1>1, <2>2, <3>1, <3>2, Caps
    <3> QED
      BY ONLY <2>3, <3>1, <3>3
  <2>5. CASE b.dropped
    BY <1>1, <1>2, <2>1, <2>2, <2>4, <2>5 DEF KeptOf
  <2>6. CASE ~b.dropped
    <3>1. Len(longer) = k /\ \A i \in 1 .. (k - 1) : longer[i] = items[i]
      BY <1>1, <1>2, <1>7, <2>2, <2>6
    <3>2. longer[k] = items[k]
      BY <1>1, <1>2, <1>7, <2>2, <2>6 DEF item
    <3>3. \A i \in 1..k : longer[i] = items[i]
      BY <1>1, <3>1, <3>2
    <3> QED
      <4>1. ~ (next.dropped \/ next.stopped) /\ next.kept = longer
        BY <1>7, <2>1, <2>6, Zenon
      <4> QED
        BY ONLY <2>4, <3>1, <3>3, <4>1, Zenon DEF KeptOf
  <2> QED
    BY <2>5, <2>6, Zenon
<1>8. KeptOf(next, items, k)
  BY <1>3, <1>5, <1>6, <1>7, Zenon
<1> QED
  BY <1>8

\* What apply_evidence_limits promises of any list of items.
Capped(items, l) ==
  /\ l.kept \in Seq(Facts) /\ l.discarded \in BOOLEAN
  /\ (l.discarded <=> l.kept # items) /\ Len(l.kept) <= Len(items)
  /\ Len(l.kept) + (IF l.discarded THEN 1 ELSE 0) <= MaxItems
  /\ SizeOf(l.kept) + (IF l.discarded THEN MarkerBytes ELSE 0) <= MaxBytes

\* What is kept is all there is, or it is less and says so; with the marker it
\* fits the caps (apply_evidence_limits).
THEOREM CapsHold == ASSUME NEW items \in Seq(Facts) PROVE Capped(items, Limited(items))
<1> DEFINE n == Len(items)
<1>1. n \in Nat
  BY LenProperties
<1>2. PICK budgets \in [0..n -> Budgets] :
        /\ AdmitsAll(items, budgets)
        /\ Limited(items) = [kept |-> budgets[n].kept, discarded |-> budgets[n].dropped \/ budgets[n].stopped]
  BY LimitedRuns
<1> DEFINE T == {k \in 0..n : KeptOf(budgets[k], items, k)}
<1>3. 0 \in T
  <2>1. Unspent.kept = <<>> /\ ~Unspent.dropped /\ ~Unspent.stopped /\ Len(<<>>) = 0
    BY DEF Unspent
  <2>2. KeptOf(Unspent, items, 0)
    BY <2>1, SizeOfNothing, Caps DEF KeptOf
  <2>3. budgets[0] = Unspent
    BY <1>2 DEF AdmitsAll
  <2> QED
    BY <1>1, <2>2, <2>3
<1>4. ASSUME NEW k \in 1..n, k - 1 \in T PROVE k \in T
  <2>1. KeptOf(budgets[k - 1], items, k - 1) /\ budgets[k - 1] \in Budgets
    BY <1>2, <1>4
  <2>2. budgets[k] = Admit(items[k], budgets[k - 1])
    BY <1>2 DEF AdmitsAll
  <2>3. KeptOf(budgets[k], items, k)
    BY <2>1, <2>2, AdmitKeeps
  <2> QED
    BY <1>1, <2>3
<1>5. KeptOf(budgets[n], items, n) /\ budgets[n] \in Budgets
  <2>1. n \in 0..n
    BY <1>1
  <2>2. n \in T
    <3> HIDE DEF T, n
    <3> QED
      BY <1>1, <1>3, <1>4, <2>1, UpTo
  <2> QED
    BY <1>2, <2>1, <2>2
<1> DEFINE b == budgets[n]
<1>6. /\ b.kept \in Seq(Facts) /\ b.dropped \in BOOLEAN /\ b.stopped \in BOOLEAN
      /\ Len(b.kept) \in Nat /\ SizeOf(b.kept) \in Nat
  <2>1. b.kept \in Seq(Facts) /\ b.dropped \in BOOLEAN /\ b.stopped \in BOOLEAN
    BY <1>5 DEF Budgets
  <2> HIDE DEF b
  <2> QED
    BY <2>1, LenProperties, SizeIsNat
<1> HIDE DEF b
<1>7. /\ KeptOf(b, items, n)
      /\ Limited(items) = [kept |-> b.kept, discarded |-> b.dropped \/ b.stopped]
  BY <1>2, <1>5 DEF b
<1>8. CASE b.dropped \/ b.stopped
  <2>1. Len(b.kept) < n /\ Len(b.kept) <= Len(items) /\ b.kept # items
    BY <1>1, <1>6, <1>7, <1>8 DEF KeptOf
  <2>3. Limited(items).kept = b.kept /\ Limited(items).discarded = TRUE
    <3>1. (b.dropped \/ b.stopped) = TRUE
      BY <1>8, Zenon
    <3>2. Limited(items) = [kept |-> b.kept, discarded |-> TRUE]
      BY <1>7, <3>1, Zenon
    <3> QED
      BY <3>2
  <2>2. Len(b.kept) + 1 <= MaxItems /\ SizeOf(b.kept) + MarkerBytes <= MaxBytes
    BY <1>6, <1>7, Caps DEF KeptOf
  <2> QED
    BY <1>6, <2>1, <2>2, <2>3 DEF Capped
<1>9. CASE ~(b.dropped \/ b.stopped)
  <2>1. Len(b.kept) = Len(items) /\ \A i \in 1..Len(items) : b.kept[i] = items[i]
    BY <1>7, <1>9 DEF KeptOf
  <2>2. b.kept = items
    BY <1>6, <2>1, SeqEqual
  <2>3. Len(b.kept) + 0 <= MaxItems /\ SizeOf(b.kept) + 0 <= MaxBytes
    BY <1>6, <1>7, Caps DEF KeptOf
  <2> QED
    BY <1>1, <1>6, <1>7, <1>9, <2>2, <2>3 DEF Capped
<1> QED
  BY <1>8, <1>9

-----------------------------------------------------------------------------
(* Analysis: the rows.                                                      *)

FoundByPack == [items : Seq(Facts), capped : BOOLEAN, timed_out : BOOLEAN]

\* A row that says of its evidence what is true, of a file that was analyzed.
GoodRow(row, available) ==
  row \in RowStates /\ Honest(row) /\ row.available = available /\ row.available # "no_row"

\* to_file_record keeps what is said of the evidence true when it cuts it.
LEMMA StoredIsHonest ==
  ASSUME NEW row \in RowStates, NEW e \in FoundByPack, row.kept = e.items,
         row.completeness = "Full" => Diagnostics(e.items) = {} /\ ~e.capped /\ ~e.timed_out,
         row.completeness \in {"ContentOnly", "Unavailable"} => e.items = <<>>,
         row.available = "Available" => row.outcome # "NotAttempted",
         row.available # "Available" => e.items = <<>> /\ row.outcome \in {"NotAttempted", "Withheld"},
         row.available # "no_row"
  PROVE  GoodRow(Stored(row, e), row.available)
<1> DEFINE l == Limited(row.kept)
           s == Stored(row, e)
<1>1. /\ e.items \in Seq(Facts) /\ l = Limited(e.items)
      /\ Capped(e.items, l)
  <2>1. e.items \in Seq(Facts)
    BY DEF FoundByPack
  <2> QED
    BY <2>1, CapsHold
<1>2. l.kept \in Seq(Facts) /\ l.discarded \in BOOLEAN
  BY <1>1 DEF Capped
<1>3. e.items = <<>> => l.kept = <<>> /\ ~l.discarded
  <2>1. ASSUME e.items = <<>> PROVE l.kept = <<>>
    <3>1. Len(l.kept) <= 0
      BY <1>1, <2>1 DEF Capped
    <3>2. Len(l.kept) \in Nat
      BY <1>2, LenProperties
    <3>3. Len(l.kept) = 0
      BY <3>1, <3>2
    <3> QED
      BY <1>2, <3>3, EmptySeq
  <2> QED
    BY <1>1, <2>1 DEF Capped
<1>4. s = [row EXCEPT !.kept = l.kept, !.marker = l.discarded, !.of = e,
                      !.completeness = Downgraded(@, l.discarded)]
  BY DEF Stored
<1> HIDE DEF l
<1>5. Downgraded(row.completeness, l.discarded)
        \in {"Full", "Partial", "ContentOnly", "Unavailable"}
  BY DEF Downgraded, RowStates
<1>6. /\ s \in RowStates /\ s.kept = l.kept /\ s.marker = l.discarded /\ s.of = e
      /\ s.completeness = Downgraded(row.completeness, l.discarded)
      /\ s.available = row.available /\ s.outcome = row.outcome
  BY <1>2, <1>4, <1>5 DEF RowStates, FoundByPack
<1> HIDE DEF s
<1>7. s.completeness = "Full" => row.completeness = "Full" /\ ~l.discarded
  BY <1>6 DEF Downgraded
<1>8. s.completeness \in {"ContentOnly", "Unavailable"} => s.completeness = row.completeness
  BY <1>6 DEF Downgraded
<1>9. s.completeness = "Full" =>
        s.kept = e.items /\ Diagnostics(s.kept) = {} /\ ~e.capped /\ ~e.timed_out /\ ~s.marker
  BY <1>1, <1>6, <1>7 DEF Capped
<1>10. s.marker <=> (s.available = "Available" /\ s.outcome # "NotAttempted" /\ s.kept # e.items)
  BY <1>1, <1>3, <1>6, Zenon DEF Capped
<1>11. s.completeness \in {"ContentOnly", "Unavailable"} => s.kept = <<>>
  BY <1>3, <1>6, <1>8
<1>12. /\ Len(s.kept) + (IF s.marker THEN 1 ELSE 0) <= MaxItems
       /\ SizeOf(s.kept) + (IF s.marker THEN MarkerBytes ELSE 0) <= MaxBytes
  BY <1>1, <1>6, Zenon DEF Capped
<1>13. Honest(s)
  BY <1>6, <1>9, <1>10, <1>11, <1>12, Zenon DEF Honest
<1> QED
  BY <1>6, <1>13 DEF GoodRow, s

LEMMA NothingIsFound == NothingFound \in FoundByPack /\ NothingFound.items = <<>>
BY EmptySeq DEF NothingFound, FoundByPack

\* The rows no caps apply to.
LEMMA PlainIsHonest ==
  ASSUME NEW available \in {"no_row", "Unavailable", "LoadFailed"},
         NEW completeness \in {"ContentOnly", "Unavailable"},
         NEW outcome \in {"NotAttempted", "Withheld"}
  PROVE  /\ Row(available, outcome, completeness, <<>>) \in RowStates
         /\ Honest(Row(available, outcome, completeness, <<>>))
<1> DEFINE row == Row(available, outcome, completeness, <<>>)
<1>1. /\ row \in RowStates /\ row.available = available /\ row.outcome = outcome
      /\ row.completeness = completeness /\ row.kept = <<>> /\ row.marker = FALSE
  BY EmptySeq, NothingIsFound DEF Row, RowStates, FoundByPack
<1> HIDE DEF row
<1>2. Len(row.kept) + (IF row.marker THEN 1 ELSE 0) <= MaxItems
  <2>1. Len(row.kept) = 0
    BY <1>1
  <2> QED
    BY <1>1, <2>1, Caps
<1>3. SizeOf(row.kept) + (IF row.marker THEN MarkerBytes ELSE 0) <= MaxBytes
  BY <1>1, SizeOfNothing, Caps
<1>4. Honest(row)
  BY <1>1, <1>2, <1>3 DEF Honest
<1> QED
  BY <1>1, <1>4 DEF row

LEMMA NoRowIsHonest == NoRow \in RowStates /\ Honest(NoRow) /\ NoRow.available = "no_row"
BY PlainIsHonest DEF NoRow, Row

LEMMA LoadFailedIsHonest == GoodRow(LoadFailedResult, "LoadFailed")
BY PlainIsHonest DEF LoadFailedResult, GoodRow, Row

LEMMA WithoutGrammarIsHonest ==
  ASSUME NEW f \in Names
  PROVE  GoodRow(Stored(WithoutGrammar(f), NothingFound), "Unavailable")
<1> DEFINE row == WithoutGrammar(f)
<1>1. PICK outcome \in {"NotAttempted", "Withheld"}, completeness \in {"ContentOnly", "Unavailable"} :
        row = Row("Unavailable", outcome, completeness, <<>>)
  BY DEF WithoutGrammar, WithoutContent, WithheldResult, ContentOnly
<1> HIDE DEF row
<1>2. row \in RowStates
  BY <1>1, PlainIsHonest
<1>3. /\ row.available = "Unavailable" /\ row.outcome = outcome
      /\ row.completeness = completeness /\ row.kept = <<>>
  BY <1>1 DEF Row
<1>4. GoodRow(Stored(row, NothingFound), row.available)
  BY <1>2, <1>3, NothingIsFound, StoredIsHonest
<1> QED
  BY <1>3, <1>4 DEF row

LEMMA FailedIsHonest == GoodRow(Stored(FailedResult, NothingFound), "Available")
<1>1. /\ FailedResult \in RowStates /\ FailedResult.available = "Available"
      /\ FailedResult.outcome = "Failed" /\ FailedResult.completeness = "ContentOnly"
      /\ FailedResult.kept = <<>>
  BY EmptySeq, NothingIsFound DEF FailedResult, Row, RowStates, FoundByPack
<1> QED
  BY <1>1, NothingIsFound, StoredIsHonest

LEMMA ParsedIsHonest ==
  ASSUME NEW e \in Extractions
  PROVE  GoodRow(Stored(IF e.timed_out THEN TimeoutResult(e) ELSE SucceededResult(e), e), "Available")
<1>1. e \in FoundByPack /\ e.items \in Seq(Facts)
  BY AnalysisAssumption DEF FoundByPack
<1>2. Cardinality(Diagnostics(e.items)) \in Nat
      /\ (Cardinality(Diagnostics(e.items)) = 0 => Diagnostics(e.items) = {})
  <2>1. Diagnostics(e.items) \subseteq 1..Len(e.items) /\ Len(e.items) \in Nat
    BY <1>1, LenProperties DEF Diagnostics
  <2>2. IsFiniteSet(Diagnostics(e.items))
    <3>1. IsFiniteSet(1..Len(e.items))
      BY <2>1, FS_Interval
    <3> QED
      BY <2>1, <3>1, FS_Subset
  <2> QED
    BY <2>2, FS_CardinalityType, FS_EmptySet
<1>3. CASE e.timed_out
  <2> DEFINE row == TimeoutResult(e)
  <2>1. /\ row \in RowStates /\ row.available = "Available" /\ row.outcome = "Failed"
        /\ row.completeness = (IF e.items = <<>> THEN "ContentOnly" ELSE "Partial") /\ row.kept = e.items
    BY <1>1, NothingIsFound DEF TimeoutResult, Row, RowStates, FoundByPack
  <2> HIDE DEF row
  <2>2. GoodRow(Stored(row, e), row.available)
    BY <1>1, <2>1, StoredIsHonest
  <2> QED
    BY <1>3, <2>1, <2>2 DEF row
<1>4. CASE ~e.timed_out
  <2> DEFINE row == SucceededResult(e)
             errors == Cardinality(Diagnostics(e.items))
  <2>1. /\ row.available = "Available"
        /\ row.outcome = (IF errors > 0 THEN "SyntaxErrors" ELSE "Succeeded")
        /\ row.completeness = (IF errors > 0 \/ e.capped THEN "Partial" ELSE "Full") /\ row.kept = e.items
        /\ row.marker = FALSE /\ row.of = NothingFound /\ row.count = errors
        /\ row \in RowStates
    BY <1>1, <1>2, NothingIsFound DEF SucceededResult, Row, RowStates, FoundByPack
  <2> HIDE DEF row
  <2>2. row.completeness = "Full" => errors = 0 /\ ~e.capped
    BY <1>2, <2>1
  <2>3. row.completeness = "Full" => Diagnostics(e.items) = {} /\ ~e.capped /\ ~e.timed_out
    BY <1>2, <1>4, <2>2
  <2>4. row.completeness \notin {"ContentOnly", "Unavailable"} /\ row.outcome # "NotAttempted"
    BY <2>1
  <2>5. GoodRow(Stored(row, e), row.available)
    BY <1>1, <2>1, <2>3, <2>4, StoredIsHonest
  <2> QED
    BY <1>4, <2>1, <2>5 DEF row
<1> QED
  BY <1>3, <1>4

-----------------------------------------------------------------------------
(* Analysis: the gate and the pass.                                         *)

LEMMA AnalysisStarts == AnalysisInit => AnalysisInv
<1> SUFFICES ASSUME AnalysisInit
             PROVE  AnalysisInv
  OBVIOUS
<1>1. NoRow \in RowStates /\ Honest(NoRow)
  BY NoRowIsHonest
<1>2. Idle \in JobStates /\ Idle.at = "idle"
  BY DEF Idle, JobStates
<1>3. AnalysisShape
  BY <1>1, <1>2, AnalysisAssumption DEF AnalysisInit, AnalysisShape, NoPass
<1>4. RestHolds /\ RetriesHold
  BY DEF AnalysisInit, RestHolds, RetriesHold, NoPass
<1>5. ~CoolingDown /\ Rationed
  BY AnalysisAssumption DEF AnalysisInit, CoolingDown, Rationed
<1>6. \A w \in AnalysisWorkers : JobHolds(w)
  BY <1>2 DEF AnalysisInit, JobHolds, IsAt
<1> QED
  BY <1>1, <1>3, <1>4, <1>5, <1>6 DEF AnalysisInit, AnalysisInv

\* Those who pay are finitely many, and fewer when fewer pay.
LEMMA FewerPay ==
  ASSUME NEW some \in SUBSET AnalysisWorkers, NEW less \in SUBSET some
  PROVE  /\ Cardinality(less) \in Nat /\ Cardinality(some) \in Nat
         /\ Cardinality(less) <= Cardinality(some)
         /\ Cardinality(some) <= Cardinality(AnalysisWorkers) /\ Cardinality(AnalysisWorkers) \in Nat
         /\ \A w \in some : w \notin less => Cardinality(less) + 1 <= Cardinality(some)
<1>1. IsFiniteSet(AnalysisWorkers) /\ IsFiniteSet(some) /\ IsFiniteSet(less)
  BY AnalysisAssumption, FS_Subset
<1>2. /\ Cardinality(less) \in Nat /\ Cardinality(some) \in Nat
      /\ Cardinality(AnalysisWorkers) \in Nat
  BY <1>1, FS_CardinalityType
<1>3. /\ Cardinality(less) <= Cardinality(some)
      /\ Cardinality(some) <= Cardinality(AnalysisWorkers)
  BY <1>1, FS_Subset
<1>4. ASSUME NEW w \in some, w \notin less PROVE Cardinality(less) + 1 <= Cardinality(some)
  <2>1. less \cup {w} \in SUBSET some /\ Cardinality(less \cup {w}) = Cardinality(less) + 1
    BY <1>1, <1>4, FS_AddElement
  <2>2. Cardinality(less \cup {w}) <= Cardinality(some)
    BY <1>1, <2>1, FS_Subset
  <2> QED
    BY <2>1, <2>2
<1> QED
  BY <1>2, <1>3, <1>4

LEMMA WorksInPass ==
  ASSUME AnalysisInv, NEW w \in AnalysisWorkers, ~IsAt(w, "idle")
  PROVE  /\ pass.on /\ job[w].file \in Names /\ SourceFiles[job[w].file] \in Languages
         /\ SourceFiles[job[w].file] \notin NoGrammar
BY DEF AnalysisInv, RestHolds, IsAt, Idle, JobHolds, Languages

\* While the gate stays as it is and no one begins to pay, the ration holds.
LEMMA RationKeeps ==
  ASSUME AnalysisInv, UNCHANGED <<age, burst>>, CoolingDown => Paying' \subseteq Paying
  PROVE  Rationed'
<1>1. CoolingDown' = CoolingDown
  BY DEF CoolingDown
<1>2. CASE CoolingDown
  <2>1. Paying \in SUBSET AnalysisWorkers /\ Paying' \in SUBSET Paying
    BY <1>2 DEF Paying
  <2>2. Cardinality(Paying') <= Cardinality(Paying) /\ Cardinality(Paying') \in Nat /\ Cardinality(Paying) \in Nat
    BY <2>1, FewerPay
  <2>3. burst \in Nat /\ burst + Cardinality(Paying) <= Cardinality(AnalysisWorkers)
    BY <1>2 DEF AnalysisInv, AnalysisShape, Rationed
  <2>4. Cardinality(AnalysisWorkers) \in Nat
    BY <2>1, FewerPay
  <2>5. burst + Cardinality(Paying') <= Cardinality(AnalysisWorkers)
    BY ONLY <2>2, <2>3, <2>4
  <2> QED
    BY <1>1, <1>2, <2>5 DEF Rationed
<1>3. CASE ~CoolingDown
  BY <1>1, <1>3 DEF AnalysisInv, Rationed
<1> QED
  BY <1>2, <1>3

\* A worker goes on while the gate stays as it is: nothing it has in hand is
\* lost, and while the gate is shut no one else begins to pay.
LEMMA WorkKeeps ==
  ASSUME AnalysisInv, AnalysisShape', pass.on, UNCHANGED <<age, burst, calm, rows, changed>>,
         pass'.on, pass'.due = pass.due,
         \A f \in Names : Honest(found'[f]), \A w \in AnalysisWorkers : JobHolds(w)',
         CoolingDown => Paying' \subseteq Paying,
         \A f \in Names : InHand(f) => InHand(f)',
         \A f \in Names : found'[f].available = "LoadFailed" =>
           found[f].available = "LoadFailed" \/ CoolingDown \/ SourceFiles[f] \in BrokenGrammars
  PROVE  AnalysisInv'
<1>1. CoolingDown' = CoolingDown
  BY DEF CoolingDown
<1>2. Rationed'
  BY RationKeeps
<1>3. RetriesHold'
  BY <1>1 DEF AnalysisInv, RetriesHold
<1>4. RestHolds'
  BY DEF RestHolds
<1> QED
  BY <1>2, <1>3, <1>4 DEF AnalysisInv

\* A worker hands in a row.
LEMMA ReportShape ==
  ASSUME AnalysisInv, NEW w \in AnalysisWorkers, ~IsAt(w, "idle"),
         NEW row, NEW available, GoodRow(row, available), Report(w, row)
  PROVE  /\ found' \in [Names -> RowStates] /\ job' \in [AnalysisWorkers -> JobStates]
         /\ \A f \in Names : found'[f] = IF f = job[w].file THEN row ELSE found[f]
         /\ \A v \in AnalysisWorkers : job'[v] = IF v = w THEN Idle ELSE job[v]
         /\ \A f \in Names : Honest(found'[f])
         /\ row # NoRow /\ (todo \subseteq todo' => \A f \in Names : InHand(f) => InHand(f)')
<1>1. /\ found \in [Names -> RowStates] /\ job \in [AnalysisWorkers -> JobStates]
      /\ \A f \in Names : Honest(found[f])
  BY DEF AnalysisInv, AnalysisShape
<1>2. job[w].file \in Names
  BY WorksInPass
<1>3. Idle \in JobStates /\ row \in RowStates /\ Honest(row) /\ row # NoRow
  BY NoRowIsHonest DEF Idle, JobStates, GoodRow
<1>4. /\ found' \in [Names -> RowStates] /\ job' \in [AnalysisWorkers -> JobStates]
      /\ \A f \in Names : found'[f] = IF f = job[w].file THEN row ELSE found[f]
      /\ \A v \in AnalysisWorkers : job'[v] = IF v = w THEN Idle ELSE job[v]
  BY <1>1, <1>2, <1>3 DEF Report
<1>5. \A f \in Names : Honest(found'[f])
  BY <1>1, <1>3, <1>4
<1>6. ASSUME todo \subseteq todo', NEW f \in Names, InHand(f) PROVE InHand(f)'
  <2>1. CASE f \in todo
    BY <1>6, <2>1 DEF InHand
  <2>2. CASE found[f] # NoRow
    BY <1>3, <1>4, <2>2 DEF InHand
  <2>3. CASE \E v \in AnalysisWorkers : ~IsAt(v, "idle") /\ job[v].file = f
    <3>1. PICK v \in AnalysisWorkers : ~IsAt(v, "idle") /\ job[v].file = f
      BY <2>3
    <3>2. CASE v = w
      BY <1>3, <1>4, <3>1, <3>2 DEF InHand
    <3>3. CASE v # w
      <4>1. ~IsAt(v, "idle")' /\ job'[v].file = f
        BY <1>4, <3>1, <3>3 DEF IsAt
      <4> QED
        BY <4>1 DEF InHand
    <3> QED
      BY <3>2, <3>3
  <2> QED
    BY <1>6, <2>1, <2>2, <2>3 DEF InHand
<1> QED
  BY <1>3, <1>4, <1>5, <1>6

\* Handing it in leaves the gate, and the worker pays no more.
LEMMA ReportKeeps ==
  ASSUME AnalysisInv, NEW w \in AnalysisWorkers, ~IsAt(w, "idle"),
         NEW row, NEW available, GoodRow(row, available), Report(w, row),
         UNCHANGED <<online, age, burst, calm, todo>>, UnchangedPass,
         onHost \subseteq onHost', onHost' \subseteq Languages,
         available = "LoadFailed" => CoolingDown \/ SourceFiles[job[w].file] \in BrokenGrammars
  PROVE  AnalysisInv'
<1>1. /\ found' \in [Names -> RowStates] /\ job' \in [AnalysisWorkers -> JobStates]
      /\ \A f \in Names : found'[f] = IF f = job[w].file THEN row ELSE found[f]
      /\ \A v \in AnalysisWorkers : job'[v] = IF v = w THEN Idle ELSE job[v]
      /\ \A f \in Names : Honest(found'[f])
      /\ \A f \in Names : InHand(f) => InHand(f)'
  BY ReportShape
<1>2. AnalysisShape'
  BY <1>1 DEF AnalysisInv, AnalysisShape, UnchangedPass
<1>3. ASSUME NEW v \in AnalysisWorkers PROVE JobHolds(v)'
  BY <1>1 DEF AnalysisInv, JobHolds, IsAt, Idle
<1>4. Paying' \subseteq Paying
  BY <1>1 DEF Paying, IsAt, Idle
<1>5. pass.on
  BY WorksInPass
<1>6. ASSUME NEW f \in Names, found'[f].available = "LoadFailed"
      PROVE  found[f].available = "LoadFailed" \/ CoolingDown \/ SourceFiles[f] \in BrokenGrammars
  BY <1>1, <1>6 DEF GoodRow
<1>7. UNCHANGED <<age, burst, calm, rows, changed>> /\ pass' = pass
  BY DEF UnchangedPass
<1> QED
  BY <1>1, <1>2, <1>3, <1>4, <1>5, <1>6, <1>7, WorkKeeps

\* A worker goes to its next step with the file it has.
LEMMA JobMoves ==
  ASSUME AnalysisInv, NEW w \in AnalysisWorkers, ~IsAt(w, "idle"),
         NEW step \in {"load", "parse", "fetch_failed"}, JobAt(w, step),
         UNCHANGED <<online, age, burst, calm, todo, found>>, UnchangedPass,
         onHost \subseteq onHost', onHost' \subseteq Languages,
         CoolingDown => \/ step = "parse"
                        \/ step = "load" /\ SourceFiles[job[w].file] \in onHost'
                        \/ step = "fetch_failed" /\ w \in Paying
  PROVE  AnalysisInv'
<1>1. job \in [AnalysisWorkers -> JobStates] /\ job[w] \in JobStates
  BY DEF AnalysisInv, AnalysisShape
<1>2. /\ job' \in [AnalysisWorkers -> JobStates] /\ job'[w].at = step
      /\ \A v \in AnalysisWorkers : job'[v].file = job[v].file /\ (v # w => job'[v].at = job[v].at)
  BY <1>1 DEF JobAt, JobStates
<1>3. AnalysisShape'
  BY <1>2 DEF AnalysisInv, AnalysisShape, UnchangedPass
<1>4. pass.on /\ job[w].file \in Names /\ SourceFiles[job[w].file] \in Languages
  BY WorksInPass
<1>5. ASSUME NEW v \in AnalysisWorkers PROVE JobHolds(v)'
  BY <1>2, <1>4 DEF AnalysisInv, JobHolds, IsAt
<1>6. ASSUME CoolingDown PROVE Paying' \subseteq Paying
  <2>1. ASSUME NEW v \in Paying', v # w PROVE v \in Paying
    BY <1>2, <2>1 DEF Paying, IsAt
  <2>2. w \in Paying' => w \in Paying
    BY <1>2, <1>6 DEF Paying, IsAt
  <2> QED
    BY <2>1, <2>2
<1>7. ASSUME NEW f \in Names, InHand(f) PROVE InHand(f)'
  BY <1>2, <1>7 DEF InHand, IsAt
<1>8. UNCHANGED <<age, burst, calm, rows, changed>> /\ pass' = pass
  BY DEF UnchangedPass
<1>9. \A f \in Names : Honest(found'[f])
  BY DEF AnalysisInv
<1> QED
  BY <1>3, <1>4, <1>5, <1>6, <1>7, <1>8, <1>9, WorkKeeps

LEMMA AskGateKeeps == ASSUME AnalysisInv, NEW w \in AnalysisWorkers, AskGate(w) PROVE AnalysisInv'
<1>1. /\ ~IsAt(w, "idle") /\ UNCHANGED <<online, onHost, age, burst, calm, todo>> /\ UnchangedPass
      /\ onHost \subseteq Languages
  BY DEF AskGate, IsAt, UnchangedHost, AnalysisInv, AnalysisShape
<1>2. CASE BlocksFetch(SourceFiles[job[w].file]) /\ Report(w, LoadFailedResult)
  <2>1. CoolingDown
    BY <1>2 DEF BlocksFetch
  <2> QED
    BY <1>1, <1>2, <2>1, LoadFailedIsHonest, ReportKeeps
<1>3. CASE ~BlocksFetch(SourceFiles[job[w].file]) /\ JobAt(w, "load") /\ UNCHANGED found
  <2>1. CoolingDown => SourceFiles[job[w].file] \in onHost'
    BY <1>1, <1>3 DEF BlocksFetch
  <2> QED
    BY <1>1, <1>3, <2>1, JobMoves
<1> QED
  BY <1>2, <1>3 DEF AskGate

LEMMA LoadGrammarKeeps == ASSUME AnalysisInv, NEW w \in AnalysisWorkers, LoadGrammar(w) PROVE AnalysisInv'
<1> DEFINE language == SourceFiles[job[w].file]
<1>1. /\ ~IsAt(w, "idle") /\ IsAt(w, "load") /\ UNCHANGED <<online, age, burst, calm, todo>> /\ UnchangedPass
      /\ onHost \subseteq Languages
  BY DEF LoadGrammar, IsAt, AnalysisInv, AnalysisShape
<1>2. language \in Languages
  BY <1>1, WorksInPass
<1>3. \/ onHost' = onHost \cup {language} /\ language \in BrokenGrammars /\ Report(w, LoadFailedResult)
      \/ onHost' = onHost \cup {language} /\ JobAt(w, "parse") /\ UNCHANGED found
      \/ UNCHANGED onHost /\ language \notin onHost /\ JobAt(w, "fetch_failed") /\ UNCHANGED found
  BY DEF LoadGrammar
<1>4. CASE onHost' = onHost \cup {language} /\ language \in BrokenGrammars /\ Report(w, LoadFailedResult)
  BY <1>1, <1>2, <1>4, LoadFailedIsHonest, ReportKeeps
<1>5. CASE onHost' = onHost \cup {language} /\ JobAt(w, "parse") /\ UNCHANGED found
  BY <1>1, <1>2, <1>5, JobMoves
<1>6. CASE UNCHANGED onHost /\ language \notin onHost /\ JobAt(w, "fetch_failed") /\ UNCHANGED found
  <2>1. w \in Paying
    BY <1>1, <1>6 DEF Paying
  <2> QED
    BY <1>1, <1>6, <2>1, JobMoves
<1> QED
  BY <1>3, <1>4, <1>5, <1>6

\* The first failed fetch shuts the gate; those after it were let through before.
LEMMA FetchFailureKeeps ==
  ASSUME AnalysisInv, NEW w \in AnalysisWorkers, RecordFetchFailure(w)
  PROVE  AnalysisInv'
<1>1. /\ ~IsAt(w, "idle") /\ IsAt(w, "fetch_failed") /\ Report(w, LoadFailedResult)
      /\ age' = 0 /\ calm' = FALSE /\ burst' = (IF CoolingDown THEN burst + 1 ELSE 1)
      /\ UNCHANGED <<online, onHost, todo>> /\ UnchangedPass
  BY DEF RecordFetchFailure, IsAt
<1>2. /\ found' \in [Names -> RowStates] /\ job' \in [AnalysisWorkers -> JobStates]
      /\ \A v \in AnalysisWorkers : job'[v] = IF v = w THEN Idle ELSE job[v]
      /\ \A f \in Names : Honest(found'[f])
      /\ \A f \in Names : InHand(f) => InHand(f)'
  BY <1>1, LoadFailedIsHonest, ReportShape
<1>3. AnalysisShape'
  <2>1. age' \in 0..Cooldown /\ calm' \in BOOLEAN
    <3>1. Cooldown \in Nat /\ age' = 0
      BY <1>1, AnalysisAssumption
    <3>2. age' \in 0..Cooldown
      BY ONLY <3>1
    <3>3. calm' \in BOOLEAN
      BY <1>1, Zenon
    <3> QED
      BY <3>2, <3>3
  <2>2. burst' \in Nat
    <3>1. burst \in Nat
      BY DEF AnalysisInv, AnalysisShape
    <3> QED
      BY <1>1, <3>1
  <2> QED
    BY <1>1, <1>2, <2>1, <2>2 DEF AnalysisInv, AnalysisShape, UnchangedPass
<1>4. ASSUME NEW v \in AnalysisWorkers PROVE JobHolds(v)'
  BY <1>2 DEF AnalysisInv, JobHolds, IsAt, Idle
<1>5. pass'.on /\ pass' = pass /\ rows' = rows
  BY <1>1, WorksInPass DEF UnchangedPass
<1>6. RestHolds'
  BY <1>5 DEF RestHolds
<1>7. RetriesHold'
  BY <1>1, <1>2, <1>5 DEF AnalysisInv, RetriesHold
<1>8. Rationed'
  <2>1. CoolingDown'
    BY <1>1, AnalysisAssumption DEF CoolingDown
  <2>2. w \in Paying /\ Paying \in SUBSET AnalysisWorkers
    BY <1>1 DEF Paying
  <2>3. Paying' \in SUBSET (Paying \ {w})
    BY <1>1, <1>2 DEF Paying, IsAt, Idle
  <2>4. Cardinality(Paying') + 1 <= Cardinality(Paying) /\ Cardinality(Paying) <= Cardinality(AnalysisWorkers)
        /\ Cardinality(Paying') \in Nat /\ Cardinality(Paying) \in Nat /\ Cardinality(AnalysisWorkers) \in Nat
    <3>1. Paying' \in SUBSET Paying /\ w \notin Paying'
      BY <2>3
    <3> QED
      BY <2>2, <3>1, FewerPay
  <2>5. burst \in Nat /\ (CoolingDown => burst + Cardinality(Paying) <= Cardinality(AnalysisWorkers))
    BY DEF AnalysisInv, AnalysisShape, Rationed
  <2>6. burst' + Cardinality(Paying') <= Cardinality(AnalysisWorkers)
    <3>1. CASE CoolingDown
      <4>1. burst' = burst + 1 /\ burst + Cardinality(Paying) <= Cardinality(AnalysisWorkers)
        BY <1>1, <2>5, <3>1
      <4> QED
        BY ONLY <2>4, <2>5, <4>1
    <3>2. CASE ~CoolingDown
      <4>1. burst' = 1
        BY <1>1, <3>2
      <4> QED
        BY ONLY <2>4, <4>1
    <3> QED
      BY <3>1, <3>2
  <2> QED
    BY <2>1, <2>6 DEF Rationed
<1> QED
  BY <1>2, <1>3, <1>4, <1>5, <1>6, <1>7, <1>8 DEF AnalysisInv

LEMMA TakeFileKeeps == ASSUME AnalysisInv, NEW w \in AnalysisWorkers, TakeFile(w) PROVE AnalysisInv'
<1>1. IsAt(w, "idle") /\ pass.on /\ UNCHANGED <<online, onHost, age, burst, calm>> /\ UnchangedPass
  BY DEF TakeFile, UnchangedHost
<1>2. PICK f \in todo :
        /\ todo' = todo \ {f}
        /\ \/ /\ found' = [found EXCEPT ![f] = Stored(WithoutGrammar(f), NothingFound)]
              /\ UNCHANGED job
           \/ /\ SourceFiles[f] \notin NoGrammar
              /\ job' = [job EXCEPT ![w] = [at |-> "gate", file |-> f]]
              /\ UNCHANGED found
  BY DEF TakeFile
<1>3. /\ found \in [Names -> RowStates] /\ job \in [AnalysisWorkers -> JobStates] /\ f \in Names
      /\ \A g \in Names : Honest(found[g])
  BY DEF AnalysisInv, AnalysisShape
<1>4. UNCHANGED <<age, burst, calm, rows, changed>> /\ pass' = pass
  BY <1>1 DEF UnchangedPass
<1>5. CASE found' = [found EXCEPT ![f] = Stored(WithoutGrammar(f), NothingFound)] /\ UNCHANGED job
  <2> DEFINE row == Stored(WithoutGrammar(f), NothingFound)
  <2>1. row \in RowStates /\ Honest(row) /\ row.available = "Unavailable" /\ row # NoRow
    BY <1>3, WithoutGrammarIsHonest, NoRowIsHonest DEF GoodRow
  <2> HIDE DEF row
  <2>2. found' \in [Names -> RowStates] /\ \A g \in Names : found'[g] = IF g = f THEN row ELSE found[g]
    BY <1>3, <1>5, <2>1 DEF row
  <2>3. AnalysisShape'
    BY <1>1, <1>2, <1>5, <2>2 DEF AnalysisInv, AnalysisShape, UnchangedPass
  <2>4. \A g \in Names : Honest(found'[g])
    BY <1>3, <2>1, <2>2
  <2>5. ASSUME NEW v \in AnalysisWorkers PROVE JobHolds(v)'
    BY <1>5 DEF AnalysisInv, JobHolds, IsAt
  <2>6. Paying' \subseteq Paying
    BY <1>1, <1>5 DEF Paying, IsAt
  <2>7. ASSUME NEW g \in Names, InHand(g) PROVE InHand(g)'
    BY <1>2, <1>5, <2>1, <2>2, <2>7 DEF InHand, IsAt
  <2>8. ASSUME NEW g \in Names, found'[g].available = "LoadFailed" PROVE found[g].available = "LoadFailed"
    BY <2>1, <2>2, <2>8
  <2> QED
    BY <1>1, <1>4, <2>3, <2>4, <2>5, <2>6, <2>7, <2>8, WorkKeeps
<1>6. CASE /\ SourceFiles[f] \notin NoGrammar
           /\ job' = [job EXCEPT ![w] = [at |-> "gate", file |-> f]] /\ UNCHANGED found
  <2> DEFINE taken == [at |-> "gate", file |-> f]
  <2>1. taken \in JobStates /\ taken.at = "gate" /\ taken.file = f
    BY <1>3 DEF JobStates
  <2> HIDE DEF taken
  <2>2. /\ job' \in [AnalysisWorkers -> JobStates]
        /\ \A v \in AnalysisWorkers : job'[v] = IF v = w THEN taken ELSE job[v]
    BY <1>3, <1>6, <2>1 DEF taken
  <2>3. AnalysisShape'
    BY <1>1, <1>2, <1>6, <2>2 DEF AnalysisInv, AnalysisShape, UnchangedPass
  <2>4. SourceFiles[f] \in Languages
    BY <1>3, <1>6 DEF Languages
  <2>5. ASSUME NEW v \in AnalysisWorkers PROVE JobHolds(v)'
    BY <1>3, <2>1, <2>2, <2>4 DEF AnalysisInv, JobHolds, IsAt
  <2>6. Paying' \subseteq Paying
    BY <1>1, <2>1, <2>2 DEF Paying, IsAt
  <2>7. ASSUME NEW g \in Names, InHand(g) PROVE InHand(g)'
    <3>1. CASE g = f
      BY <2>1, <2>2, <3>1 DEF InHand, IsAt
    <3>2. CASE g # f /\ (g \in todo \/ found[g] # NoRow)
      BY <1>2, <1>6, <3>2 DEF InHand
    <3>3. ASSUME NEW v \in AnalysisWorkers, ~IsAt(v, "idle"), job[v].file = g PROVE InHand(g)'
      BY <1>1, <2>2, <3>3 DEF InHand, IsAt
    <3> QED
      BY <2>7, <3>1, <3>2, <3>3 DEF InHand
  <2>8. \A g \in Names : Honest(found'[g])
    BY <1>3, <1>6
  <2>9. ASSUME NEW g \in Names, found'[g].available = "LoadFailed" PROVE found[g].available = "LoadFailed"
    BY <1>6, <2>9
  <2> QED
    BY <1>1, <1>4, <2>3, <2>5, <2>6, <2>7, <2>8, <2>9, WorkKeeps
<1> QED
  BY <1>2, <1>5, <1>6

LEMMA ParseKeeps == ASSUME AnalysisInv, NEW w \in AnalysisWorkers, Parse(w) PROVE AnalysisInv'
<1>1. /\ ~IsAt(w, "idle") /\ UNCHANGED <<online, onHost, age, burst, calm, todo>> /\ UnchangedPass
      /\ onHost \subseteq Languages
  BY DEF Parse, IsAt, UnchangedHost, AnalysisInv, AnalysisShape
<1>2. CASE \E e \in Extractions :
             Report(w, Stored(IF e.timed_out THEN TimeoutResult(e) ELSE SucceededResult(e), e))
  BY <1>1, <1>2, ParsedIsHonest, ReportKeeps
<1>3. CASE Report(w, Stored(FailedResult, NothingFound))
  BY <1>1, <1>3, FailedIsHonest, ReportKeeps
<1> QED
  BY <1>2, <1>3 DEF Parse

LEMMA SpendKeeps == ASSUME AnalysisInv, SpendDeadline PROVE AnalysisInv'
<1>1. /\ pass.on /\ pass' = [pass EXCEPT !.spent = TRUE]
      /\ UNCHANGED <<online, onHost, age, burst, calm, rows, changed, todo, job, found>>
  BY DEF SpendDeadline, UnchangedHost
<1>2. pass' \in [on : BOOLEAN, spent : BOOLEAN, due : BOOLEAN] /\ pass'.on = pass.on /\ pass'.due = pass.due
  BY <1>1 DEF AnalysisInv, AnalysisShape
<1>3. AnalysisShape'
  BY <1>1, <1>2 DEF AnalysisInv, AnalysisShape
<1>4. ASSUME NEW v \in AnalysisWorkers PROVE JobHolds(v)'
  BY <1>1 DEF AnalysisInv, JobHolds, IsAt
<1>5. Paying' = Paying /\ \A f \in Names : InHand(f) = InHand(f)'
  BY <1>1 DEF Paying, InHand, IsAt
<1>6. \A f \in Names : Honest(found'[f])
  BY <1>1 DEF AnalysisInv
<1> QED
  BY <1>1, <1>2, <1>3, <1>4, <1>5, <1>6, WorkKeeps

\* A pass that begins with the gate open takes up every row that failed to load.
LEMMA StartPassKeeps == ASSUME AnalysisInv, StartPass PROVE AnalysisInv'
<1>1. /\ ~pass.on /\ pass' = [on |-> TRUE, spent |-> FALSE, due |-> RetryDue]
      /\ todo' = {f \in Names : rows[f] = NoRow} \cup changed \cup Retries
      /\ UNCHANGED <<online, onHost, age, rows, changed, job, found, burst, calm>>
  BY DEF StartPass
<1>2. pass' \in [on : BOOLEAN, spent : BOOLEAN, due : BOOLEAN] /\ pass'.on /\ pass'.due = ~CoolingDown
  <2>1. RetryDue \in BOOLEAN
    BY DEF RetryDue
  <2> QED
    BY <1>1, <2>1 DEF RetryDue
<1>3. todo' \subseteq Names
  BY <1>1 DEF Retries, AnalysisInv, AnalysisShape
<1>4. AnalysisShape'
  BY <1>1, <1>2, <1>3 DEF AnalysisInv, AnalysisShape
<1>5. \A f \in Names : found'[f] = NoRow
  BY <1>1 DEF AnalysisInv, RestHolds
<1>6. RetriesHold'
  <2>1. ASSUME pass'.due PROVE ~CoolingDown'
    BY <1>1, <1>2, <2>1 DEF CoolingDown
  <2>2. ASSUME pass'.due, NEW f \in Names, rows'[f].available = "LoadFailed" PROVE InHand(f)'
    BY <1>1, <1>2, <2>2 DEF Retries, RetryDue, InHand
  <2>3. ASSUME NEW f \in Names PROVE found'[f].available # "LoadFailed"
    BY <1>5, NoRowIsHonest
  <2> QED
    BY <2>1, <2>2, <2>3 DEF RetriesHold
<1>7. Rationed'
  BY <1>1 DEF AnalysisInv, Rationed, CoolingDown, Paying, IsAt
<1>8. RestHolds'
  BY <1>2 DEF RestHolds
<1>9. /\ \A w \in AnalysisWorkers : JobHolds(w)'
      /\ \A f \in Names : Honest(rows'[f]) /\ Honest(found'[f])
  BY <1>1 DEF AnalysisInv, JobHolds, IsAt
<1> QED
  BY <1>4, <1>6, <1>7, <1>8, <1>9 DEF AnalysisInv

\* The end of a pass leaves nothing in hand.
LEMMA EndPassKeeps == ASSUME AnalysisInv, EndPass PROVE AnalysisInv'
<1>1. /\ pass' = NoPass /\ calm' = TRUE
      /\ job' = [w \in AnalysisWorkers |-> Idle] /\ todo' = {} /\ found' = [f \in Names |-> NoRow]
      /\ UNCHANGED <<online, onHost, age, burst>>
      /\ \/ /\ rows' = [f \in Names |-> IF found[f] = NoRow THEN rows[f] ELSE found[f]]
            /\ changed' = {f \in changed : found[f] = NoRow}
         \/ UNCHANGED <<rows, changed>>
  BY DEF EndPass
<1>2. /\ rows \in [Names -> RowStates] /\ found \in [Names -> RowStates] /\ changed \subseteq Names
      /\ \A f \in Names : Honest(rows[f]) /\ Honest(found[f])
  BY DEF AnalysisInv, AnalysisShape
<1>3. /\ rows' \in [Names -> RowStates] /\ changed' \subseteq Names
      /\ \A f \in Names : Honest(rows'[f])
  BY <1>1, <1>2
<1>4. NoRow \in RowStates /\ Honest(NoRow) /\ Idle \in JobStates /\ Idle.at = "idle"
  BY NoRowIsHonest DEF Idle, JobStates
<1>5. /\ found' \in [Names -> RowStates] /\ \A f \in Names : found'[f] = NoRow /\ Honest(found'[f])
      /\ job' \in [AnalysisWorkers -> JobStates] /\ \A w \in AnalysisWorkers : job'[w] = Idle
  BY <1>1, <1>4
<1>6. pass' \in [on : BOOLEAN, spent : BOOLEAN, due : BOOLEAN] /\ ~pass'.on
  BY <1>1 DEF NoPass
<1>7. AnalysisShape'
  BY <1>1, <1>3, <1>5, <1>6 DEF AnalysisInv, AnalysisShape
<1>8. RestHolds' /\ RetriesHold' /\ \A w \in AnalysisWorkers : JobHolds(w)'
  BY <1>1, <1>4, <1>5, <1>6 DEF RestHolds, RetriesHold, JobHolds, IsAt
<1>9. Rationed'
  <2>1. Paying' = {}
    BY <1>4, <1>5 DEF Paying, IsAt
  <2>2. Paying \in SUBSET AnalysisWorkers /\ Cardinality({}) = 0
    BY FS_EmptySet DEF Paying
  <2>3. Cardinality(Paying) \in Nat /\ Cardinality(AnalysisWorkers) \in Nat
    BY <2>2, FewerPay
  <2>4. CASE CoolingDown
    <3>1. burst \in Nat /\ burst + Cardinality(Paying) <= Cardinality(AnalysisWorkers)
      BY <2>4 DEF AnalysisInv, AnalysisShape, Rationed
    <3>2. burst + 0 <= Cardinality(AnalysisWorkers)
      BY ONLY <2>3, <3>1
    <3> QED
      BY <1>1, <2>1, <2>2, <2>4, <3>2 DEF Rationed, CoolingDown
  <2>5. CASE ~CoolingDown
    BY <1>1, <2>5 DEF AnalysisInv, Rationed, CoolingDown
  <2> QED
    BY <2>4, <2>5
<1> QED
  BY <1>3, <1>5, <1>7, <1>8, <1>9 DEF AnalysisInv

\* Time opens the gate again, and with it begins a new burst.
LEMMA TickKeeps == ASSUME AnalysisInv, Tick PROVE AnalysisInv'
<1>1. /\ CoolingDown /\ age' = age + 1 /\ burst' = (IF age + 1 = Cooldown THEN 0 ELSE burst)
      /\ UNCHANGED <<online, onHost, calm, todo, job, found, rows, changed, pass>>
  BY DEF Tick, UnchangedPass
<1>2. age \in Nat /\ age < Cooldown /\ burst \in Nat /\ Cooldown \in Nat
  BY <1>1, AnalysisAssumption DEF AnalysisInv, AnalysisShape, CoolingDown
<1>3. age' \in 0..Cooldown /\ burst' \in Nat
  BY <1>1, <1>2
<1>4. AnalysisShape'
  BY <1>1, <1>3 DEF AnalysisInv, AnalysisShape
<1>5. Rationed'
  <2>1. Paying' = Paying
    BY <1>1 DEF Paying, IsAt
  <2>2. CASE age + 1 = Cooldown
    <3>1. ~CoolingDown' /\ burst' = 0
      BY <1>1, <1>2, <2>2 DEF CoolingDown
    <3> QED
      BY <3>1 DEF Rationed
  <2>3. CASE age + 1 # Cooldown
    <3>1. CoolingDown' /\ burst' = burst
      BY <1>1, <1>2, <2>3 DEF CoolingDown
    <3> QED
      BY <1>1, <2>1, <3>1 DEF AnalysisInv, Rationed
  <2> QED
    BY <2>2, <2>3
<1>6. RetriesHold'
  <2>1. \A f \in Names : InHand(f)' = InHand(f)
    BY <1>1 DEF InHand, IsAt
  <2> QED
    BY <1>1, <2>1 DEF AnalysisInv, RetriesHold
<1>7. RestHolds' /\ \A w \in AnalysisWorkers : JobHolds(w)'
  BY <1>1 DEF AnalysisInv, RestHolds, JobHolds, IsAt
<1> QED
  BY <1>1, <1>4, <1>5, <1>6, <1>7 DEF AnalysisInv

\* What the invariant does not look at.
LEMMA OutsideKeeps ==
  ASSUME AnalysisInv, online' \in BOOLEAN, changed' \subseteq Names,
         UNCHANGED <<onHost, age, rows, todo, job, found, pass, burst, calm>>
  PROVE  AnalysisInv'
<1>1. AnalysisShape'
  BY DEF AnalysisInv, AnalysisShape
<1>2. RestHolds' /\ Rationed' /\ \A w \in AnalysisWorkers : JobHolds(w)'
  BY DEF AnalysisInv, RestHolds, Rationed, Paying, CoolingDown, JobHolds, IsAt
<1>3. RetriesHold'
  <2>1. \A f \in Names : InHand(f)' = InHand(f)
    BY DEF InHand, IsAt
  <2> QED
    BY <2>1 DEF AnalysisInv, RetriesHold, CoolingDown
<1> QED
  BY <1>1, <1>2, <1>3 DEF AnalysisInv

\* A tool that fetches a grammar can only spare a worker its fetch.
LEMMA ToolFetchKeeps ==
  ASSUME AnalysisInv, NEW language \in Languages, ToolFetch(language)
  PROVE  AnalysisInv'
<1>1. /\ onHost' = onHost \cup {language}
      /\ UNCHANGED <<online, age, rows, changed, todo, job, found, pass, burst, calm>>
  BY DEF ToolFetch, UnchangedPass
<1>2. AnalysisShape'
  BY <1>1 DEF AnalysisInv, AnalysisShape
<1>3. Rationed'
  <2>1. Paying' \subseteq Paying
    BY <1>1 DEF Paying, IsAt
  <2> QED
    BY <1>1, <2>1, RationKeeps
<1>4. RestHolds' /\ \A w \in AnalysisWorkers : JobHolds(w)'
  BY <1>1 DEF AnalysisInv, RestHolds, JobHolds, IsAt
<1>5. RetriesHold'
  <2>1. \A f \in Names : InHand(f)' = InHand(f)
    BY <1>1 DEF InHand, IsAt
  <2> QED
    BY <1>1, <2>1 DEF AnalysisInv, RetriesHold, CoolingDown
<1>6. \A f \in Names : Honest(rows[f])' /\ Honest(found[f])'
  BY <1>1 DEF AnalysisInv
<1> QED
  BY <1>2, <1>3, <1>4, <1>5, <1>6 DEF AnalysisInv

LEMMA AnalysisKept == AnalysisInv /\ [AnalysisNext]_analysisVars => AnalysisInv'
<1> SUFFICES ASSUME AnalysisInv, [AnalysisNext]_analysisVars
             PROVE  AnalysisInv'
  OBVIOUS
<1>1. online \in BOOLEAN /\ changed \subseteq Names
  BY DEF AnalysisInv, AnalysisShape
<1>2. CASE Network
  BY <1>1, <1>2, OutsideKeeps DEF Network, UnchangedPass
<1>3. ASSUME NEW f \in Names, EditSource(f) PROVE AnalysisInv'
  BY <1>1, <1>3, OutsideKeeps DEF EditSource, UnchangedHost
<1>4. CASE UNCHANGED analysisVars
  BY <1>1, <1>4, OutsideKeeps DEF analysisVars
<1>5. ASSUME NEW w \in AnalysisWorkers,
             \/ TakeFile(w) \/ AskGate(w) \/ LoadGrammar(w) \/ RecordFetchFailure(w) \/ Parse(w)
      PROVE  AnalysisInv'
  BY <1>5, TakeFileKeeps, AskGateKeeps, LoadGrammarKeeps, FetchFailureKeeps, ParseKeeps
<1> QED
  BY <1>2, <1>3, <1>4, <1>5, StartPassKeeps, SpendKeeps, EndPassKeeps, TickKeeps, ToolFetchKeeps
  DEF AnalysisNext

\* The inductive invariant of the passes: shapes, honest rows, the ration and
\* the files that must be retried (analyze, FetchGate, add_load_failed_retries).
THEOREM AnalysisInvHolds == AnalysisSpec => []AnalysisInv
BY AnalysisStarts, AnalysisKept, PTL DEF AnalysisSpec

\* What a stored row says of its evidence is true, whatever the grammar gave
\* and however the pass ended (to_file_record).
THEOREM HonestyHolds == AnalysisSpec => []AnalysisIsHonest
<1>1. AnalysisInv => AnalysisIsHonest
  BY DEF AnalysisInv, AnalysisIsHonest
<1> QED
  BY <1>1, AnalysisInvHolds, PTL

\* Offline, a host pays for at most one failed fetch per worker until the gate
\* opens again, for any number of files, passes and workers (FetchGate).
THEOREM RationHolds == AnalysisSpec => []FetchesAreRationed
<1>1. AnalysisInv => FetchesAreRationed
  <2> SUFFICES ASSUME AnalysisInv
               PROVE  burst <= Cardinality(AnalysisWorkers)
    BY DEF FetchesAreRationed
  <2>1. burst \in Nat /\ Paying \in SUBSET AnalysisWorkers
    BY DEF AnalysisInv, AnalysisShape, Paying
  <2>2. Cardinality(Paying) \in Nat /\ Cardinality(AnalysisWorkers) \in Nat
    BY <2>1, FewerPay
  <2>3. CASE CoolingDown
    <3>1. burst + Cardinality(Paying) <= Cardinality(AnalysisWorkers)
      BY <2>3 DEF AnalysisInv, Rationed
    <3> QED
      BY ONLY <2>1, <2>2, <3>1
  <2>4. CASE ~CoolingDown
    <3>1. burst = 0
      BY <2>4 DEF AnalysisInv, Rationed
    <3> QED
      BY ONLY <2>2, <3>1
  <2> QED
    BY <2>3, <2>4
<1> QED
  BY <1>1, AnalysisInvHolds, PTL

\* A pass that began with the gate open and in which no fetch failed leaves
\* only the rows of grammars that do not load (add_load_failed_retries).
THEOREM GrammarsDoReturn == AnalysisSpec => GrammarsReturn
<1> DEFINE Returned == pass.on /\ ~pass'.on /\ ~pass.spent /\ pass.due /\ calm =>
                         \A f \in Names : rows'[f].available = "LoadFailed" => SourceFiles[f] \in BrokenGrammars
<1>1. AnalysisInv /\ [AnalysisNext]_analysisVars => [Returned]_analysisVars
  <2> SUFFICES ASSUME AnalysisInv, AnalysisNext, pass.on, ~pass'.on, ~pass.spent, pass.due, calm,
                      NEW f \in Names, rows'[f].available = "LoadFailed"
               PROVE  SourceFiles[f] \in BrokenGrammars
    OBVIOUS
  <2>1. EndPass
    <3>1. pass \in [on : BOOLEAN, spent : BOOLEAN, due : BOOLEAN]
      BY DEF AnalysisInv, AnalysisShape
    <3>2. ~SpendDeadline /\ \A l \in Languages : ~ToolFetch(l)
      BY <3>1 DEF SpendDeadline, ToolFetch, UnchangedPass
    <3>3. ASSUME NEW w \in AnalysisWorkers,
                 TakeFile(w) \/ AskGate(w) \/ LoadGrammar(w) \/ RecordFetchFailure(w) \/ Parse(w)
          PROVE  FALSE
      BY <3>3 DEF TakeFile, AskGate, LoadGrammar, RecordFetchFailure, Parse, UnchangedPass
    <3>4. ~StartPass /\ ~Network /\ ~Tick /\ \A g \in Names : ~EditSource(g)
      BY DEF StartPass, Network, Tick, EditSource, UnchangedPass
    <3> QED
      BY <3>2, <3>3, <3>4 DEF AnalysisNext
  <2>2. /\ todo = {} /\ \A w \in AnalysisWorkers : IsAt(w, "idle")
        /\ rows' = [g \in Names |-> IF found[g] = NoRow THEN rows[g] ELSE found[g]]
    BY <2>1 DEF EndPass
  <2>3. /\ \A g \in Names : rows[g].available = "LoadFailed" => InHand(g)
        /\ \A g \in Names : found[g].available = "LoadFailed" => SourceFiles[g] \in BrokenGrammars
    BY DEF AnalysisInv, RetriesHold
  <2>4. CASE found[f] = NoRow
    BY <2>2, <2>3, <2>4 DEF InHand
  <2>5. CASE found[f] # NoRow
    BY <2>2, <2>3, <2>5
  <2> QED
    BY <2>4, <2>5
<1> QED
  BY <1>1, AnalysisInvHolds, PTL DEF AnalysisSpec, GrammarsReturn

(***************************************************************************)
(* Edges: resolution.                                                      *)
(***************************************************************************)

\* What a resolver may answer: a file that is known, with some confidence, or
\* none.
Answers(known) ==
  [kind : {"Resolved", "Unresolved", "External"}, confidence : {"none", "Low", "High"},
   to : known \cup {NoFile}]
Sound(r, known) ==
  /\ r \in Answers(known)
  /\ IF r.kind = "Resolved" THEN r.to \in known /\ r.confidence # "none" ELSE r.to = NoFile

LEMMA NoneIsSound ==
  ASSUME NEW known
  PROVE  /\ Sound(Unresolved, known) /\ Sound(External, known)
         /\ Unresolved.kind = "Unresolved" /\ External.kind = "External"
BY DEF Sound, Answers, Unresolved, External, Resolution

LEMMA ForcedIsSound ==
  ASSUME NEW known, NEW r, Sound(r, known)
  PROVE  Sound(Forced(r), known) /\ Forced(r).kind = r.kind
BY DEF Sound, Answers, Forced

LEMMA LeastIs ==
  ASSUME NEW s, s \subseteq Nat, s # {}
  PROVE  Min(s) \in s
<1>1. \E i \in s : \A j \in s : i <= j
  BY LeastNumber
<1> QED
  BY <1>1 DEF Min

LEMMA PickIsSound ==
  ASSUME NEW known, NEW candidates, DOMAIN candidates \subseteq Nat
  PROVE  Sound(Pick(candidates, known), known)
<1> DEFINE hits == {i \in DOMAIN candidates : candidates[i] \in known}
<1>1. CASE hits = {}
  BY <1>1, NoneIsSound DEF Pick
<1>2. CASE hits # {}
  <2> DEFINE confidence == IF Cardinality(hits) = 1 THEN "High" ELSE "Low"
             to == candidates[Min(hits)]
  <2>1. to \in known
    <3>1. hits \subseteq Nat
      OBVIOUS
    <3>2. Min(hits) \in hits
      <4> HIDE DEF hits
      <4> QED
        BY <1>2, <3>1, LeastIs
    <3> QED
      BY <3>2
  <2>2. Pick(candidates, known) = Resolution("Resolved", confidence, to)
    BY <1>2 DEF Pick
  <2>3. confidence \in {"Low", "High"}
    OBVIOUS
  <2> HIDE DEF confidence, to
  <2> QED
    BY <2>1, <2>2, <2>3 DEF Resolution, Sound, Answers
<1> QED
  BY <1>1, <1>2

LEMMA FirstIsSound ==
  ASSUME NEW known, NEW resolutions, DOMAIN resolutions \subseteq Nat,
         \A i \in DOMAIN resolutions : Sound(resolutions[i], known)
  PROVE  Sound(FirstOf(resolutions), known)
<1> DEFINE hits == {i \in DOMAIN resolutions : resolutions[i].kind = "Resolved"}
<1>1. CASE hits = {}
  BY <1>1, NoneIsSound DEF FirstOf
<1>2. CASE hits # {}
  <2>1. hits \subseteq Nat
    OBVIOUS
  <2>2. Min(hits) \in hits
    <3> HIDE DEF hits
    <3> QED
      BY <1>2, <2>1, LeastIs
  <2> QED
    BY <1>2, <2>2 DEF FirstOf
<1> QED
  BY <1>1, <1>2

\* The places of joined sequences, and what is there.
LEMMA JoinedIs ==
  ASSUME NEW X, NEW s \in Seq(X), NEW t \in Seq(X)
  PROVE  /\ s \o t \in Seq(X) /\ DOMAIN (s \o t) \subseteq Nat
         /\ \A i \in DOMAIN (s \o t) : (s \o t)[i] \in X
<1> DEFINE u == s \o t
<1>1. u \in Seq(X)
  BY ConcatProperties
<1> HIDE DEF u
<1>2. Len(u) \in Nat /\ DOMAIN u = 1..Len(u)
  BY <1>1, LenProperties
<1>3. \A i \in DOMAIN u : u[i] \in X
  BY <1>1, <1>2, ElementOfSeq
<1>4. DOMAIN u \subseteq Nat
  BY <1>2
<1> QED
  BY <1>1, <1>3, <1>4 DEF u

-----------------------------------------------------------------------------
(* The resolvers of the languages.                                          *)

LEMMA ModuleFileSound ==
  ASSUME NEW dir, NEW known
  PROVE  Sound(ModuleFile(dir, known), known)
<1>1. CASE dir = <<>>
  BY <1>1, NoneIsSound DEF ModuleFile
<1>2. CASE dir # <<>>
  <2> DEFINE four(a, b, c, d) == <<a, b, c, d>>
             candidates == <<WithExt(dir, "rs"), Named(dir, "mod", "rs"), Named(dir, "lib", "rs"),
                             Named(dir, "main", "rs")>>
  <2>1. ASSUME NEW a, NEW b, NEW c, NEW d PROVE DOMAIN four(a, b, c, d) \subseteq Nat
    OBVIOUS
  <2>2. DOMAIN candidates \subseteq Nat
    BY <2>1
  <2>3. ModuleFile(dir, known) = Pick(candidates, known)
    BY <1>2 DEF ModuleFile
  <2> HIDE DEF candidates
  <2> QED
    BY <2>2, <2>3, PickIsSound
<1> QED
  BY <1>1, <1>2

LEMMA RustPathSound ==
  ASSUME NEW names, NEW base, NEW known
  PROVE  Sound(RustPath(names, base, known), known)
<1> DEFINE path(k) == base \o SubSeq(names, 1, Len(names) + 1 - k)
           two(a, b) == <<a, b>>
           at(k) == Pick(two(WithExt(path(k), "rs"), Named(path(k), "mod", "rs")), known)
           answers == [k \in 1..Len(names) |-> at(k)]
<1>1. ASSUME NEW a, NEW b PROVE DOMAIN two(a, b) \subseteq Nat
  OBVIOUS
<1>2. RustPath(names, base, known) = FirstOf(answers)
  BY DEF RustPath
<1> HIDE DEF two, path
<1>3. \A k : Sound(at(k), known)
  BY <1>1, PickIsSound
<1> HIDE DEF at
<1>4. DOMAIN answers \subseteq Nat /\ \A k \in DOMAIN answers : Sound(answers[k], known)
  BY <1>3
<1> HIDE DEF answers
<1> QED
  BY <1>2, <1>4, FirstIsSound

LEMMA FromBaseSound ==
  ASSUME NEW names, NEW base, NEW known
  PROVE  Sound(FromBase(names, base, known), known)
BY ModuleFileSound, RustPathSound DEF FromBase

LEMMA FirstResolvedSound ==
  ASSUME NEW names, NEW bases, NEW known, Len(bases) = 2
  PROVE  Sound(FirstResolved(names, bases, known), known)
<1> DEFINE named(k) == FromBase(names, bases[k], known)
           module(k) == ModuleFile(bases[k], known)
           X == {named(k) : k \in 1..2} \cup {module(k) : k \in 1..2}
           s == [k \in 1..2 |-> named(k)]
           t == [k \in 1..2 |-> module(k)]
<1>1. \A k : Sound(named(k), known) /\ Sound(module(k), known)
  BY FromBaseSound, ModuleFileSound
<1>2. FirstResolved(names, bases, known) = Forced(FirstOf(s \o t))
  BY DEF FirstResolved
<1> HIDE DEF named, module
<1>3. s \in Seq(X) /\ t \in Seq(X)
  BY SeqDef
<1>4. \A r \in X : Sound(r, known)
  BY <1>1
<1> HIDE DEF s, t, X
<1> DEFINE u == s \o t
<1>5. DOMAIN u \subseteq Nat /\ \A i \in DOMAIN u : Sound(u[i], known)
  BY <1>3, <1>4, JoinedIs
<1> HIDE DEF u
<1>6. Sound(FirstOf(u), known)
  BY <1>5, FirstIsSound
<1> QED
  BY <1>2, <1>6, ForcedIsSound DEF u

LEMMA RustSound ==
  ASSUME NEW ref, NEW file, NEW known
  PROVE  Sound(ResolveRust(ref, file, known), known)
<1> DEFINE two(a, b) == <<a, b>>
<1>1. ASSUME NEW a, NEW b PROVE DOMAIN two(a, b) = 1..2 /\ two(a, b)[1] = a /\ two(a, b)[2] = b /\ Len(two(a, b)) = 2
  OBVIOUS
<1>2. CASE ref.form = "crate"
  <2> DEFINE base == CrateSrc(file, known)
             path == RustPath(ref.names, base, known)
             module == Forced(ModuleFile(base, known))
  <2>1. ResolveRust(ref, file, known) = IF ref.names = <<>> THEN CrateRoot(base, known)
                                        ELSE FirstOf(two(path, module))
    BY <1>2 DEF ResolveRust
  <2>2. Sound(path, known) /\ Sound(module, known)
    BY RustPathSound, ModuleFileSound, ForcedIsSound
  <2>3. CrateRoot(base, known) = Pick(two(Named(base, "lib", "rs"), Named(base, "main", "rs")), known)
    BY DEF CrateRoot
  <2> HIDE DEF two, path, module, base
  <2>4. Sound(CrateRoot(base, known), known)
    BY <1>1, <2>3, PickIsSound
  <2>5. DOMAIN two(path, module) \subseteq Nat /\ \A i \in DOMAIN two(path, module) : Sound(two(path, module)[i], known)
    BY <1>1, <2>2
  <2>6. Sound(FirstOf(two(path, module)), known)
    BY <2>5, FirstIsSound
  <2> QED
    BY <2>1, <2>4, <2>6
<1>3. CASE ref.form = "self"
  <2> DEFINE bases == two(ModuleDir(file), file.dir)
  <2>1. ResolveRust(ref, file, known) = FirstResolved(ref.names, bases, known)
    BY <1>3 DEF ResolveRust
  <2> HIDE DEF two
  <2>2. Len(bases) = 2
    BY <1>1
  <2> HIDE DEF bases
  <2> QED
    BY <2>1, <2>2, FirstResolvedSound
<1>4. CASE ref.form = "super"
  <2> DEFINE bases == two(Ancestor(ModuleDir(file), ref.up), Ancestor(file.dir, ref.up))
  <2>1. ResolveRust(ref, file, known) = FirstResolved(ref.names, bases, known)
    BY <1>4 DEF ResolveRust
  <2> HIDE DEF two
  <2>2. Len(bases) = 2
    BY <1>1
  <2> HIDE DEF bases
  <2> QED
    BY <2>1, <2>2, FirstResolvedSound
<1>5. CASE ref.form \notin {"crate", "self", "super"}
  <2> DEFINE local == Forced(FromBase(ref.names, ModuleDir(file), known))
  <2>1. ResolveRust(ref, file, known) = IF local.kind = "Resolved" THEN local ELSE External
    BY <1>5 DEF ResolveRust
  <2>2. Sound(local, known)
    BY FromBaseSound, ForcedIsSound
  <2> HIDE DEF local
  <2> QED
    BY <2>1, <2>2, NoneIsSound
<1> QED
  BY <1>2, <1>3, <1>4, <1>5

LEMMA CandidatesAreSequence ==
  ASSUME NEW path, NEW language \in {"python", "javascript"}
  PROVE  DOMAIN Candidates(path, language) \subseteq Nat
<1> DEFINE exts == Extensions[language]
           n == Len(exts)
           with(k) == WithExt(path, exts[k])
           index(k) == Named(path, IndexStem[language], exts[k])
           bare == WithExt(path, "")
           stem == Named(path, IndexStem[language], "")
           X == {bare, stem} \cup {with(k) : k \in 1..n} \cup {index(k) : k \in 1..n}
           one == [k \in 1..n |-> with(k)]
           other == [k \in 1..n |-> index(k)]
<1>1. n \in Nat
  BY DEF Extensions
<1>2. Candidates(path, language) = ((<<bare>> \o one) \o other) \o <<stem>>
  BY DEF Candidates
<1> HIDE DEF with, index, bare, stem, n
<1>3. one \in Seq(X) /\ other \in Seq(X)
  BY <1>1, SeqDef
<1>4. <<bare>> \in Seq(X) /\ <<stem>> \in Seq(X)
  OBVIOUS
<1> HIDE DEF one, other, X
<1>5. <<bare>> \o one \in Seq(X)
  BY <1>3, <1>4, JoinedIs
<1>6. (<<bare>> \o one) \o other \in Seq(X)
  BY <1>3, <1>5, JoinedIs
<1> QED
  BY <1>2, <1>4, <1>6, JoinedIs

LEMMA CandidatePathsSound ==
  ASSUME NEW path, NEW language \in {"python", "javascript"}, NEW known
  PROVE  Sound(CandidatePaths(path, language, known), known)
BY CandidatesAreSequence, PickIsSound, NoneIsSound DEF CandidatePaths

\* resolve_one: what is resolved is a file that is known, of any import.
LEMMA ResolveIsSound ==
  ASSUME NEW ref, NEW file, NEW known, LanguageOf(file) # "none"
  PROVE  /\ Sound(Resolve(ref, file, known), known)
         /\ ref.form = "unmodeled" => Resolve(ref, file, known).kind = "Unresolved"
<1>1. CASE ref.form = "unmodeled"
  BY <1>1, NoneIsSound DEF Resolve
<1>2. CASE ref.form # "unmodeled" /\ LanguageOf(file) = "rust"
  BY <1>2, RustSound DEF Resolve
<1>3. CASE ref.form # "unmodeled" /\ LanguageOf(file) # "rust"
  <2> DEFINE language == LanguageOf(file)
             r == ResolveGeneric(ref, file, language, known)
  <2>1. language \in {"python", "javascript"}
    BY <1>3 DEF LanguageOf
  <2> HIDE DEF language
  <2>2. Sound(PythonDots(ref, file, known), known)
    <3> DEFINE base == Ancestor(file.dir, ref.up)
               only(a) == <<a>>
               init == only(Named(base, "__init__", "py"))
    <3>1. ASSUME NEW a PROVE DOMAIN only(a) \subseteq Nat
      OBVIOUS
    <3>2. DOMAIN init \subseteq Nat
      BY <3>1
    <3>3. PythonDots(ref, file, known) =
            IF ref.up > Len(file.dir) THEN Unresolved
            ELSE IF ref.names = <<>> THEN Pick(init, known)
            ELSE CandidatePaths(base \o ref.names, "python", known)
      BY DEF PythonDots
    <3> HIDE DEF init
    <3> QED
      BY <3>2, <3>3, PickIsSound, CandidatePathsSound, NoneIsSound
  <2>3. Sound(r, known)
    <3>1. CASE ref.form = "relative"
      BY <2>1, <3>1, CandidatePathsSound, NoneIsSound DEF ResolveGeneric
    <3>2. CASE ref.form = "dots"
      BY <2>2, <3>2 DEF ResolveGeneric
    <3>3. CASE ref.form = "dotted"
      BY <2>1, <3>3, CandidatePathsSound DEF ResolveGeneric
    <3>4. CASE ref.form \notin {"relative", "dots", "dotted"}
      BY <3>4, NoneIsSound DEF ResolveGeneric
    <3> QED
      BY <3>1, <3>2, <3>3, <3>4
  <2> QED
    BY <1>3, <2>3 DEF Resolve, language
<1> QED
  BY <1>1, <1>2, <1>3, NoneIsSound

-----------------------------------------------------------------------------
(* A publish.                                                               *)

\* The fields of an edge.
LEMMA EdgeFields ==
  ASSUME NEW from, NEW n, NEW ref, NEW r
  PROVE  LET e == Edge(from, n, ref, r)
         IN /\ e.from = from /\ e.n = n /\ e.ref = ref
            /\ e.kind = r.kind /\ e.confidence = r.confidence /\ e.to = r.to
BY DEF Edge

\* An edge of an import of a file, and where it may lead.
EdgeOf(e, state) ==
  /\ e.from \in Paths /\ e.n \in DOMAIN Imports(e.from, state)
  /\ e.ref = Imports(e.from, state)[e.n]
Leads(e, known) ==
  IF e.kind = "Resolved" THEN e.to \in known /\ e.confidence # "none" ELSE e.to = NoFile
Settled(e, known) == e.kind = "Unresolved" => Resolve(e.ref, e.from, known).kind # "Resolved"

LEMMA ImportsAreOf ==
  ASSUME NEW file, NEW state, NEW n \in DOMAIN Imports(file, state)
  PROVE  LanguageOf(file) # "none" /\ state[file] \in {"v1", "v2"}
<1>1. DOMAIN << >> = {}
  OBVIOUS
<1> QED
  BY <1>1 DEF Imports

LEMMA ReResolvedIs ==
  ASSUME NEW e, NEW known, EdgeOf(e, disk), Leads(e, known)
  PROVE  LET d == ReResolved(e, known)
         IN /\ EdgeOf(d, disk) /\ d.from = e.from /\ d.n = e.n
            /\ Leads(d, known) /\ Settled(d, known)
<1> DEFINE r == Resolve(e.ref, e.from, known)
           d == ReResolved(e, known)
<1>1. Sound(r, known) /\ (e.ref.form = "unmodeled" => r.kind = "Unresolved")
  BY ImportsAreOf, ResolveIsSound DEF EdgeOf
<1>2. CASE e.kind = "Unresolved" /\ e.ref.form # "unmodeled" /\ r.kind = "Resolved"
  <2>1. d = Edge(e.from, e.n, e.ref, r)
    BY <1>2 DEF ReResolved
  <2> HIDE DEF r, d
  <2>2. d.from = e.from /\ d.n = e.n /\ d.ref = e.ref /\ d.kind = r.kind /\ d.confidence = r.confidence /\ d.to = r.to
    BY <2>1, EdgeFields
  <2> QED
    BY <1>1, <1>2, <2>2 DEF EdgeOf, Leads, Settled, Sound, d
<1>3. CASE ~(e.kind = "Unresolved" /\ e.ref.form # "unmodeled" /\ r.kind = "Resolved")
  <2>1. d = e
    BY <1>3 DEF ReResolved
  <2>2. Settled(e, known)
    BY <1>1, <1>3 DEF Settled
  <2> HIDE DEF d
  <2> QED
    BY <2>1, <2>2 DEF d
<1> QED
  BY <1>2, <1>3

LEMMA PublishKeepsEdges ==
  ASSUME EdgesInv, PublishEdges
  PROVE  EdgesInv'
<1> DEFINE deleted == On(stored) \ On(disk)
           upserts == {f \in On(disk) : stored[f] # disk[f]}
           known == On(disk)
           after == AfterDeletions(deleted)
           kept == {e \in after : e.from \notin upserts}
           new == UNION {StoredEdges(f, disk, known) : f \in upserts}
           written == kept \cup new
<1>1. /\ stored' = disk /\ disk' = disk
      /\ edges' = IF On(stored) # On(disk) THEN {ReResolved(e, known) : e \in written} ELSE written
      /\ disk \in [Paths -> FileStates] /\ stored \in [Paths -> FileStates]
  BY DEF PublishEdges, EdgesInv
<1>2. /\ \A e \in edges : EdgeOf(e, stored) /\ Leads(e, On(stored)) /\ Settled(e, On(stored))
      /\ \A f \in Paths : \A n \in DOMAIN Imports(f, stored) : \E e \in edges : e.from = f /\ e.n = n
      /\ \A e, d \in edges : e.from = d.from /\ e.n = d.n => e = d
  BY DEF EdgesInv, EdgesAreSound, EdgeOf, Leads, Settled
<1>3. upserts \subseteq Paths /\ \A f \in Paths : f \in known <=> disk[f] # Absent
  BY DEF On
<1>4. \A f \in Paths : stored[f] \in {"v1", "v2"} /\ f \notin deleted /\ f \notin upserts =>
        stored[f] = disk[f] /\ Imports(f, disk) = Imports(f, stored)
  BY DEF On, Absent, Imports
<1>5. \A f \in Paths : disk[f] \in {"v1", "v2"} /\ f \notin upserts =>
        stored[f] = disk[f] /\ f \notin deleted /\ Imports(f, disk) = Imports(f, stored)
  BY DEF On, Absent, Imports
<1> DEFINE left(e) == IF e.to \in deleted THEN Edge(e.from, e.n, e.ref, Unresolved) ELSE e
<1>6. after = {left(e) : e \in {x \in edges : x.from \notin deleted}}
  BY DEF AfterDeletions
<1>7. ASSUME NEW e \in edges
      PROVE  /\ left(e).from = e.from /\ left(e).n = e.n /\ left(e).ref = e.ref
             /\ Leads(left(e), known)
             /\ On(stored) = On(disk) => left(e) = e \/ e.kind # "Unresolved" \/ left(e).kind = "Unresolved"
             /\ left(e) = e \/ left(e).kind = "Unresolved"
  <2>1. CASE e.to \in deleted
    <3>1. left(e) = Edge(e.from, e.n, e.ref, Unresolved)
      BY <2>1
    <3>2. Unresolved.kind = "Unresolved" /\ Unresolved.to = NoFile
      BY DEF Unresolved, Resolution
    <3> HIDE DEF left
    <3>3. left(e).from = e.from /\ left(e).n = e.n /\ left(e).ref = e.ref /\ left(e).kind = "Unresolved" /\ left(e).to = NoFile
      BY <3>1, <3>2, EdgeFields
    <3> QED
      BY <3>3 DEF Leads
  <2>2. CASE e.to \notin deleted
    <3>1. left(e) = e
      BY <2>2
    <3>2. Leads(e, known)
      BY <1>2, <2>2 DEF Leads, On
    <3> HIDE DEF left
    <3> QED
      BY <3>1, <3>2
  <2> QED
    BY <2>1, <2>2
<1>8. ASSUME NEW d \in kept
      PROVE  /\ \E e \in edges : d = left(e) /\ e.from = d.from /\ e.n = d.n /\ e.from \notin deleted
             /\ EdgeOf(d, disk) /\ Leads(d, known) /\ d.from \notin upserts
             /\ On(stored) = On(disk) => Settled(d, known)
  <2>1. PICK e \in edges : d = left(e) /\ e.from \notin deleted
    BY <1>6
  <2>2. d.from = e.from /\ d.n = e.n /\ d.ref = e.ref /\ Leads(d, known)
    BY <1>7, <2>1
  <2>3. EdgeOf(e, stored) /\ e.from \notin upserts
    BY <1>2, <2>2
  <2>4. stored[e.from] \in {"v1", "v2"}
    BY <2>3, ImportsAreOf DEF EdgeOf
  <2>5. EdgeOf(d, disk)
    BY <1>4, <2>1, <2>2, <2>3, <2>4 DEF EdgeOf
  <2>6. On(stored) = On(disk) => Settled(d, known)
    <3>1. On(stored) = On(disk) => deleted = {}
      OBVIOUS
    <3>2. On(stored) = On(disk) => d = e
      BY <2>1, <3>1
    <3> QED
      BY <1>2, <3>2
  <2> QED
    BY <2>1, <2>2, <2>3, <2>5, <2>6
<1>9. ASSUME NEW d \in new
      PROVE  EdgeOf(d, disk) /\ Leads(d, known) /\ d.from \in upserts /\ Settled(d, known)
             /\ d = Edge(d.from, d.n, Imports(d.from, disk)[d.n], Resolve(Imports(d.from, disk)[d.n], d.from, known))
  <2>1. PICK f \in upserts : d \in StoredEdges(f, disk, known)
    OBVIOUS
  <2>2. PICK n \in DOMAIN Imports(f, disk) :
          d = Edge(f, n, Imports(f, disk)[n], Resolve(Imports(f, disk)[n], f, known))
    BY <2>1 DEF StoredEdges
  <2> DEFINE ref == Imports(f, disk)[n]
             r == Resolve(ref, f, known)
  <2>3. d.from = f /\ d.n = n /\ d.ref = ref /\ d.kind = r.kind /\ d.confidence = r.confidence /\ d.to = r.to
    BY <2>2, EdgeFields
  <2>4. Sound(r, known)
    BY ImportsAreOf, ResolveIsSound
  <2>5. EdgeOf(d, disk)
    BY <1>3, <2>3 DEF EdgeOf
  <2>6. Leads(d, known)
    <3> HIDE DEF r
    <3> QED
      BY <2>3, <2>4 DEF Leads, Sound
  <2>7. Settled(d, known)
    BY <2>3 DEF Settled
  <2> QED
    BY <2>2, <2>3, <2>5, <2>6, <2>7
<1>10. ASSUME NEW f \in Paths, NEW n \in DOMAIN Imports(f, disk)
       PROVE  \E e \in written : e.from = f /\ e.n = n
  <2>1. disk[f] \in {"v1", "v2"}
    BY ImportsAreOf
  <2>2. CASE f \in upserts
    <3> DEFINE d == Edge(f, n, Imports(f, disk)[n], Resolve(Imports(f, disk)[n], f, known))
    <3>1. d \in StoredEdges(f, disk, known)
      BY DEF StoredEdges
    <3>2. d.from = f /\ d.n = n
      BY EdgeFields
    <3> HIDE DEF d
    <3> QED
      BY <2>2, <3>1, <3>2
  <2>3. CASE f \notin upserts
    <3>1. f \notin deleted /\ n \in DOMAIN Imports(f, stored)
      BY <1>5, <2>1, <2>3
    <3>2. PICK e \in edges : e.from = f /\ e.n = n
      BY <1>2, <3>1
    <3>3. left(e) \in after /\ left(e).from = f /\ left(e).n = n
      BY <1>6, <1>7, <3>1, <3>2
    <3> HIDE DEF left, after
    <3> QED
      BY <2>3, <3>3
  <2> QED
    BY <2>2, <2>3
<1> HIDE DEF kept, new, left, after, upserts, deleted
<1>11. ASSUME NEW d \in written, NEW e \in written, d.from = e.from, d.n = e.n
       PROVE  d = e
  <2>1. CASE d \in kept /\ e \in kept
    <3>1. PICK x \in edges : d = left(x) /\ x.from = d.from /\ x.n = d.n
      BY <1>8, <2>1
    <3>2. PICK y \in edges : e = left(y) /\ y.from = e.from /\ y.n = e.n
      BY <1>8, <2>1
    <3>3. x = y
      BY <1>2, <1>11, <3>1, <3>2
    <3> QED
      BY <3>1, <3>2, <3>3
  <2>2. CASE d \in new /\ e \in new
    <3>1. d = Edge(d.from, d.n, Imports(d.from, disk)[d.n], Resolve(Imports(d.from, disk)[d.n], d.from, known))
      BY <1>9, <2>2
    <3>2. e = Edge(e.from, e.n, Imports(e.from, disk)[e.n], Resolve(Imports(e.from, disk)[e.n], e.from, known))
      BY <1>9, <2>2
    <3> QED
      BY <1>11, <3>1, <3>2, Zenon
  <2> QED
    BY <1>8, <1>9, <1>11, <2>1, <2>2
<1>12. ASSUME NEW d \in written PROVE EdgeOf(d, disk) /\ Leads(d, known)
  BY <1>8, <1>9
<1>13. \A d \in edges' : EdgeOf(d, disk) /\ Leads(d, known) /\ Settled(d, known)
  <2>1. CASE On(stored) # On(disk)
    BY <1>1, <1>12, <2>1, ReResolvedIs
  <2>2. CASE On(stored) = On(disk)
    BY <1>1, <1>8, <1>9, <2>2
  <2> QED
    BY <2>1, <2>2
<1>14. \A f \in Paths : \A n \in DOMAIN Imports(f, disk) : \E e \in edges' : e.from = f /\ e.n = n
  <2>1. CASE On(stored) # On(disk)
    <3> SUFFICES ASSUME NEW f \in Paths, NEW n \in DOMAIN Imports(f, disk)
                 PROVE  \E e \in edges' : e.from = f /\ e.n = n
      OBVIOUS
    <3>1. PICK e \in written : e.from = f /\ e.n = n
      BY <1>10
    <3>2. ReResolved(e, known).from = f /\ ReResolved(e, known).n = n
      BY <1>12, <3>1, ReResolvedIs
    <3>3. ReResolved(e, known) \in edges'
      BY <1>1, <2>1
    <3> QED
      BY <3>2, <3>3
  <2>2. CASE On(stored) = On(disk)
    BY <1>1, <1>10, <2>2
  <2> QED
    BY <2>1, <2>2
<1>15. \A e, d \in edges' : e.from = d.from /\ e.n = d.n => e = d
  <2>1. CASE On(stored) # On(disk)
    <3> SUFFICES ASSUME NEW e \in edges', NEW d \in edges', e.from = d.from, e.n = d.n
                 PROVE  e = d
      OBVIOUS
    <3>1. PICK x \in written : e = ReResolved(x, known)
      BY <1>1, <2>1
    <3>2. PICK y \in written : d = ReResolved(y, known)
      BY <1>1, <2>1
    <3>3. x.from = e.from /\ x.n = e.n /\ y.from = d.from /\ y.n = d.n
      BY <1>12, <3>1, <3>2, ReResolvedIs
    <3>4. x = y
      BY <1>11, <3>3
    <3> QED
      BY <3>1, <3>2, <3>4
  <2>2. CASE On(stored) = On(disk)
    BY <1>1, <1>11, <2>2
  <2> QED
    BY <2>1, <2>2
<1>16. /\ \A f : Imports(f, stored)' = Imports(f, disk)
       /\ On(stored)' = known
       /\ \A ref, f : Resolve(ref, f, On(stored))' = Resolve(ref, f, known)
  BY <1>1 DEF Imports, On
<1> HIDE DEF known
<1>17. EdgesAreSound'
  BY <1>13, <1>14, <1>15, <1>16 DEF EdgesAreSound, EdgeOf, Leads, Settled
<1> QED
  BY <1>1, <1>17 DEF EdgesInv

LEMMA EdgesStart == EdgesInit => EdgesInv
<1> SUFFICES ASSUME EdgesInit PROVE EdgesInv
  OBVIOUS
<1>1. DOMAIN << >> = {}
  OBVIOUS
<1>2. \A f \in Paths : DOMAIN Imports(f, stored) = {}
  BY <1>1 DEF EdgesInit, Imports, Absent
<1> QED
  BY <1>2 DEF EdgesInit, EdgesInv, EdgesAreSound, FileStates, Absent

LEMMA EdgesSteps == EdgesInv /\ [EdgesNext]_edgeVars => EdgesInv'
<1> SUFFICES ASSUME EdgesInv, [EdgesNext]_edgeVars PROVE EdgesInv'
  OBVIOUS
<1>1. CASE UNCHANGED <<stored, edges>> /\ disk' \in [Paths -> FileStates]
  <2>1. /\ \A f : Imports(f, stored)' = Imports(f, stored)
        /\ On(stored)' = On(stored)
        /\ \A ref, f : Resolve(ref, f, On(stored))' = Resolve(ref, f, On(stored))
    BY <1>1 DEF Imports, On
  <2>2. EdgesAreSound'
    BY <1>1, <2>1 DEF EdgesInv, EdgesAreSound
  <2> QED
    BY <1>1, <2>2 DEF EdgesInv
<1>2. CASE EditFile
  BY <1>1, <1>2 DEF EditFile, EdgesInv
<1>3. CASE UNCHANGED edgeVars
  BY <1>1, <1>3 DEF edgeVars, EdgesInv
<1> QED
  BY <1>2, <1>3, PublishKeepsEdges DEF EdgesNext

\* Whatever files come, go and change between publishes, every import of every
\* indexed file has one edge, to a file that is there or to none, and none that
\* would resolve is left unresolved (revision_edges.rs, graph/).
THEOREM EdgesHold == EdgesSpec => []EdgesAreSound
<1>1. EdgesInv /\ [EdgesNext]_edgeVars => EdgesInv'
  BY EdgesSteps
<1>2. EdgesInv => EdgesAreSound
  BY DEF EdgesInv
<1> QED
  BY <1>1, <1>2, EdgesStart, PTL DEF EdgesSpec

(***************************************************************************)
(* Reports: what each row is a result of.                                  *)
(***************************************************************************)

\* What to_file_record leaves as it was.
LEMMA StoredLeaves ==
  ASSUME NEW row \in RowStates, NEW e
  PROVE  LET s == Stored(row, e) IN
         /\ s.available = row.available /\ s.outcome = row.outcome /\ s.of = e
         /\ \/ s.completeness = row.completeness
            \/ row.completeness = "Full" /\ s.completeness = "Partial"
<1> DEFINE l == Limited(row.kept)
           s == Stored(row, e)
<1>1. s = [row EXCEPT !.kept = l.kept, !.marker = l.discarded, !.of = e,
                      !.completeness = Downgraded(@, l.discarded)]
  BY DEF Stored
<1> HIDE DEF l
<1>2. /\ s.available = row.available /\ s.outcome = row.outcome /\ s.of = e
      /\ s.completeness = Downgraded(row.completeness, l.discarded)
  BY <1>1 DEF RowStates
<1> HIDE DEF s
<1>3. \/ s.completeness = row.completeness
      \/ row.completeness = "Full" /\ s.completeness = "Partial"
  BY <1>2 DEF Downgraded
<1> QED
  BY <1>2, <1>3 DEF s

\* Where nothing was found nothing is kept, marked or capped.
Bare(r) ==
  r.kept = <<>> /\ r.marker = FALSE /\ r.of.items = <<>> /\ r.of.capped = FALSE /\ r.of.timed_out = FALSE

\* The four ways an analysis ends, as the counts tell them apart.
Passed(f, r) ==
  /\ SourceFiles[f] \in NoGrammar /\ r.available = "Unavailable" /\ Bare(r)
  /\ r.outcome = (IF SourceFiles[f] = "large" THEN "Withheld" ELSE "NotAttempted")
Unloaded(f, r) ==
  /\ SourceFiles[f] \notin NoGrammar /\ r.available = "LoadFailed" /\ r.outcome = "NotAttempted" /\ Bare(r)
Broke(f, r) ==
  /\ SourceFiles[f] \notin NoGrammar /\ r.available = "Available" /\ r.outcome = "Failed"
  /\ Bare(r) \/ r.of.timed_out = TRUE
Read(f, r) ==
  /\ SourceFiles[f] \notin NoGrammar /\ r.available = "Available"
  /\ r.outcome \in {"Succeeded", "SyntaxErrors"} /\ r.of.timed_out = FALSE
  /\ r.of.capped => r.completeness = "Partial"
EndsAs(f, r) == Passed(f, r) \/ Unloaded(f, r) \/ Broke(f, r) \/ Read(f, r)

LEMMA BareIs ==
  ASSUME NEW r \in RowStates, Honest(r), r.of = NothingFound,
         r.completeness \in {"ContentOnly", "Unavailable"}
  PROVE  Bare(r)
<1>1. r.kept = <<>> /\ r.of.items = <<>> /\ r.of.capped = FALSE /\ r.of.timed_out = FALSE
  BY DEF Honest, NothingFound
<1>2. r.marker = FALSE
  <2>1. r.marker \in BOOLEAN
    BY DEF RowStates
  <2>2. r.marker => r.kept # r.of.items
    BY Zenon DEF Honest
  <2> QED
    BY <1>1, <2>1, <2>2
<1> QED
  BY <1>1, <1>2 DEF Bare

LEMMA PassedIs ==
  ASSUME NEW f \in Names, SourceFiles[f] \in NoGrammar
  PROVE  Passed(f, Stored(WithoutGrammar(f), NothingFound))
<1> DEFINE row == WithoutGrammar(f)
           r == Stored(row, NothingFound)
           outcome == IF SourceFiles[f] = "large" THEN "Withheld" ELSE "NotAttempted"
<1>1. PICK completeness \in {"ContentOnly", "Unavailable"} :
        row = Row("Unavailable", outcome, completeness, <<>>)
  BY DEF WithoutGrammar, WithoutContent, WithheldResult, ContentOnly
<1>2. outcome \in {"NotAttempted", "Withheld"}
  OBVIOUS
<1> HIDE DEF row, outcome
<1>3. row \in RowStates
  BY <1>1, <1>2, PlainIsHonest
<1>4. row.available = "Unavailable" /\ row.outcome = outcome /\ row.completeness = completeness
  BY <1>1 DEF Row
<1>5. /\ r.available = "Unavailable" /\ r.outcome = outcome /\ r.of = NothingFound
      /\ r.completeness = completeness
  BY <1>3, <1>4, StoredLeaves
<1>6. r \in RowStates /\ Honest(r)
  BY WithoutGrammarIsHonest DEF GoodRow, row
<1> HIDE DEF r
<1>7. Bare(r)
  BY <1>5, <1>6, BareIs
<1> QED
  BY <1>5, <1>7 DEF Passed, r, row, outcome

LEMMA UnloadedIs ==
  ASSUME NEW f \in Names, SourceFiles[f] \notin NoGrammar
  PROVE  Unloaded(f, LoadFailedResult)
<1>1. LoadFailedResult \in RowStates /\ Honest(LoadFailedResult)
  BY LoadFailedIsHonest DEF GoodRow
<1>2. /\ LoadFailedResult.available = "LoadFailed" /\ LoadFailedResult.outcome = "NotAttempted"
      /\ LoadFailedResult.completeness = "ContentOnly" /\ LoadFailedResult.of = NothingFound
  BY DEF LoadFailedResult, Row
<1> QED
  BY <1>1, <1>2, BareIs DEF Unloaded

LEMMA BrokeIs ==
  ASSUME NEW f \in Names, SourceFiles[f] \notin NoGrammar
  PROVE  Broke(f, Stored(FailedResult, NothingFound))
<1> DEFINE r == Stored(FailedResult, NothingFound)
<1>1. /\ FailedResult \in RowStates /\ FailedResult.available = "Available"
      /\ FailedResult.outcome = "Failed" /\ FailedResult.completeness = "ContentOnly"
  BY EmptySeq, NothingIsFound DEF FailedResult, Row, RowStates, FoundByPack
<1>2. /\ r.available = "Available" /\ r.outcome = "Failed" /\ r.of = NothingFound
      /\ r.completeness = "ContentOnly"
  BY <1>1, StoredLeaves
<1>3. r \in RowStates /\ Honest(r)
  BY FailedIsHonest DEF GoodRow
<1> HIDE DEF r
<1>4. Bare(r)
  BY <1>2, <1>3, BareIs
<1> QED
  BY <1>2, <1>4 DEF Broke, r

LEMMA ReadIs ==
  ASSUME NEW f \in Names, SourceFiles[f] \notin NoGrammar, NEW e \in Extractions
  PROVE  LET r == Stored(IF e.timed_out THEN TimeoutResult(e) ELSE SucceededResult(e), e) IN
         Broke(f, r) \/ Read(f, r)
<1>1. e \in FoundByPack /\ e.items \in Seq(Facts) /\ e.timed_out \in BOOLEAN
  BY AnalysisAssumption DEF FoundByPack
<1>2. Cardinality(Diagnostics(e.items)) \in Nat
  <2>1. Diagnostics(e.items) \subseteq 1..Len(e.items) /\ Len(e.items) \in Nat
    BY <1>1, LenProperties DEF Diagnostics
  <2>2. IsFiniteSet(1..Len(e.items))
    BY <2>1, FS_Interval
  <2>3. IsFiniteSet(Diagnostics(e.items))
    BY <2>1, <2>2, FS_Subset
  <2> QED
    BY <2>3, FS_CardinalityType
<1>3. CASE e.timed_out
  <2> DEFINE row == TimeoutResult(e)
             r == Stored(row, e)
  <2>1. row \in RowStates /\ row.available = "Available" /\ row.outcome = "Failed"
    BY <1>1, NothingIsFound DEF TimeoutResult, Row, RowStates, FoundByPack
  <2> HIDE DEF row
  <2>2. r.available = "Available" /\ r.outcome = "Failed" /\ r.of = e
    BY <2>1, StoredLeaves
  <2> HIDE DEF r
  <2>3. Broke(f, r)
    BY <1>1, <1>3, <2>2 DEF Broke
  <2> QED
    BY <1>3, <2>3 DEF r, row
<1>4. CASE ~e.timed_out
  <2> DEFINE row == SucceededResult(e)
             r == Stored(row, e)
             errors == Cardinality(Diagnostics(e.items))
  <2>1. /\ row \in RowStates /\ row.available = "Available"
        /\ row.outcome = (IF errors > 0 THEN "SyntaxErrors" ELSE "Succeeded")
        /\ row.completeness = (IF errors > 0 \/ e.capped THEN "Partial" ELSE "Full")
    BY <1>1, <1>2, NothingIsFound DEF SucceededResult, Row, RowStates, FoundByPack
  <2> HIDE DEF row, errors
  <2>2. /\ r.available = "Available" /\ r.outcome = row.outcome /\ r.of = e
        /\ r.completeness = row.completeness \/ row.completeness = "Full"
    BY <2>1, StoredLeaves
  <2> HIDE DEF r
  <2>3. row.outcome \in {"Succeeded", "SyntaxErrors"} /\ (e.capped => row.completeness = "Partial")
    BY <2>1
  <2>4. Read(f, r)
    BY <1>1, <1>4, <2>2, <2>3 DEF Read
  <2> QED
    BY <1>4, <2>4 DEF r, row
<1> QED
  BY <1>3, <1>4

LEMMA AnalyzedEnds ==
  ASSUME NEW f \in Names, NEW r, Analyzed(f, r), r # NoRow
  PROVE  EndsAs(f, r)
<1>1. CASE SourceFiles[f] \in NoGrammar
  BY <1>1, PassedIs DEF Analyzed, EndsAs
<1>2. CASE SourceFiles[f] \notin NoGrammar
  BY <1>2, UnloadedIs, BrokeIs, ReadIs DEF Analyzed, EndsAs
<1> QED
  BY <1>1, <1>2

-----------------------------------------------------------------------------
(* Reports: that each row stays a result of its file.                       *)

\* What a worker of a pass hands in.
LEMMA HandedIn ==
  ASSUME ReportsInv, NEW w \in AnalysisWorkers, ~IsAt(w, "idle"),
         NEW row, NEW available, GoodRow(row, available), Report(w, row), rows' = rows,
         \/ row = LoadFailedResult
         \/ row = Stored(FailedResult, NothingFound)
         \/ \E e \in Extractions :
              row = Stored(IF e.timed_out THEN TimeoutResult(e) ELSE SucceededResult(e), e)
  PROVE  \A f \in Names : Analyzed(f, rows'[f]) /\ Analyzed(f, found'[f])
<1>1. AnalysisInv /\ \A f \in Names : Analyzed(f, rows[f]) /\ Analyzed(f, found[f])
  BY DEF ReportsInv
<1>2. \A f \in Names : found'[f] = IF f = job[w].file THEN row ELSE found[f]
  BY <1>1, ReportShape
<1>3. job[w].file \in Names /\ SourceFiles[job[w].file] \notin NoGrammar
  BY <1>1 DEF AnalysisInv, JobHolds, Languages
<1>4. Analyzed(job[w].file, row)
  BY <1>3 DEF Analyzed
<1> QED
  BY <1>1, <1>2, <1>4

LEMMA ReportsStart == AnalysisInit => ReportsInv
BY AnalysisStarts DEF AnalysisInit, ReportsInv, Analyzed

LEMMA RowsStay ==
  ASSUME ReportsInv, rows' = rows, found' = found
  PROVE  \A f \in Names : Analyzed(f, rows'[f]) /\ Analyzed(f, found'[f])
BY DEF ReportsInv

LEMMA ReportsKept == ReportsInv /\ [AnalysisNext]_analysisVars => ReportsInv'
<1> SUFFICES ASSUME ReportsInv, [AnalysisNext]_analysisVars
             PROVE  ReportsInv'
  OBVIOUS
<1> DEFINE Goal == \A f \in Names : Analyzed(f, rows'[f]) /\ Analyzed(f, found'[f])
<1>1. AnalysisInv /\ \A f \in Names : Analyzed(f, rows[f]) /\ Analyzed(f, found[f])
  BY DEF ReportsInv
<1>2. rows \in [Names -> RowStates] /\ found \in [Names -> RowStates]
  BY <1>1 DEF AnalysisInv, AnalysisShape
<1>3. ASSUME NEW w \in AnalysisWorkers, TakeFile(w) PROVE Goal
  <2>1. PICK f \in todo :
          IF SourceFiles[f] \in NoGrammar
          THEN found' = [found EXCEPT ![f] = Stored(WithoutGrammar(f), NothingFound)]
          ELSE UNCHANGED found
    BY <1>3 DEF TakeFile
  <2>2. rows' = rows
    BY <1>3 DEF TakeFile, UnchangedPass
  <2>3. CASE SourceFiles[f] \in NoGrammar
    <3>1. \A g \in Names : found'[g] = IF g = f THEN Stored(WithoutGrammar(f), NothingFound) ELSE found[g]
      BY <1>2, <2>1, <2>3
    <3>2. Analyzed(f, Stored(WithoutGrammar(f), NothingFound))
      BY <2>3 DEF Analyzed
    <3> QED
      BY <1>1, <2>2, <3>1, <3>2
  <2>4. CASE SourceFiles[f] \notin NoGrammar
    BY <2>1, <2>2, <2>4, RowsStay
  <2> QED
    BY <2>3, <2>4
<1>4. ASSUME NEW w \in AnalysisWorkers, AskGate(w) \/ LoadGrammar(w) \/ RecordFetchFailure(w) PROVE Goal
  <2>1. rows' = rows /\ (Report(w, LoadFailedResult) \/ found' = found) /\ ~IsAt(w, "idle")
    BY <1>4 DEF AskGate, LoadGrammar, RecordFetchFailure, UnchangedPass, IsAt
  <2>2. CASE found' = found
    BY <2>1, <2>2, RowsStay
  <2>3. CASE Report(w, LoadFailedResult)
    BY <2>1, <2>3, LoadFailedIsHonest, HandedIn
  <2> QED
    BY <2>1, <2>2, <2>3
<1>5. ASSUME NEW w \in AnalysisWorkers, Parse(w) PROVE Goal
  <2>1. rows' = rows /\ ~IsAt(w, "idle")
    BY <1>5 DEF Parse, IsAt, UnchangedPass
  <2>2. ASSUME NEW e \in Extractions,
               Report(w, Stored(IF e.timed_out THEN TimeoutResult(e) ELSE SucceededResult(e), e))
        PROVE  Goal
    BY <2>1, <2>2, ParsedIsHonest, HandedIn
  <2>3. CASE Report(w, Stored(FailedResult, NothingFound))
    BY <2>1, <2>3, FailedIsHonest, HandedIn
  <2> QED
    BY <1>5, <2>2, <2>3 DEF Parse
<1>6. ASSUME EndPass PROVE Goal
  <2>1. found' = [f \in Names |-> NoRow]
    BY <1>6 DEF EndPass
  <2>2. rows' = rows \/ rows' = [f \in Names |-> IF found[f] = NoRow THEN rows[f] ELSE found[f]]
    BY <1>6 DEF EndPass
  <2>3. \A f \in Names : rows'[f] = rows[f] \/ rows'[f] = found[f]
    BY <2>2
  <2>4. \A f \in Names : found'[f] = NoRow
    BY <2>1
  <2>5. ASSUME NEW f \in Names PROVE Analyzed(f, rows'[f]) /\ Analyzed(f, found'[f])
    <3>1. Analyzed(f, rows'[f])
      BY <1>1, <2>3
    <3>2. Analyzed(f, found'[f])
      BY <2>4 DEF Analyzed
    <3> QED
      BY <3>1, <3>2
  <2> QED
    BY <2>5
<1>7. ASSUME StartPass PROVE Goal
  BY <1>7, RowsStay DEF StartPass
<1>8. ASSUME \/ Network \/ Tick \/ SpendDeadline
             \/ (\E f \in Names : EditSource(f)) \/ (\E l \in Languages : ToolFetch(l))
      PROVE  Goal
  BY <1>8, RowsStay DEF Network, Tick, SpendDeadline, EditSource, ToolFetch, UnchangedPass
<1>9. ASSUME UNCHANGED analysisVars PROVE Goal
  BY <1>9, RowsStay DEF analysisVars
<1>10. Goal
  BY <1>3, <1>4, <1>5, <1>6, <1>7, <1>8, <1>9 DEF AnalysisNext
<1>11. AnalysisInv'
  BY <1>1, AnalysisKept
<1> QED
  BY <1>10, <1>11 DEF ReportsInv

\* The inductive invariant of the reports: every row is a result analyze gives
\* for a file of its kind, stored under the caps (analyze, to_file_record).
THEOREM ReportsInvHolds == AnalysisSpec => []ReportsInv
BY ReportsStart, ReportsKept, PTL DEF AnalysisSpec

-----------------------------------------------------------------------------
(* Reports: which files a count reads.                                      *)

LEMMA StoredFileIs ==
  ASSUME ReportsInv, NEW f \in StoredFiles
  PROVE  f \in Names /\ rows[f] \in RowStates /\ Honest(rows[f]) /\ EndsAs(f, rows[f])
<1>1. f \in Names /\ rows[f] # NoRow
  BY DEF StoredFiles
<1>2. rows \in [Names -> RowStates] /\ Honest(rows[f]) /\ Analyzed(f, rows[f])
  BY <1>1 DEF ReportsInv, AnalysisInv, AnalysisShape
<1> QED
  BY <1>1, <1>2, AnalyzedEnds

\* The language a row says, by what its file is.
LEMMA LanguageIs ==
  ASSUME NEW f \in StoredFiles
  PROVE  /\ KindOf[f] = (IF SourceFiles[f] = "binary" THEN "binary" ELSE "indexed")
         /\ SourceFiles[f] \notin NoGrammar =>
              StoredLanguage(f) \notin {NoLanguage, "prose"} /\ f \in IndexedFiles
         /\ SourceFiles[f] = "large" =>
              StoredLanguage(f) \notin {NoLanguage, "prose"} /\ f \in IndexedFiles
         /\ StoredLanguage(f) # NoLanguage => f \in IndexedFiles
<1>1. f \in Names
  BY DEF StoredFiles
<1>2. KindOf[f] = IF SourceFiles[f] = "binary" THEN "binary" ELSE "indexed"
  BY <1>1 DEF KindOf
<1>3. SourceFiles[f] # "binary" => f \in IndexedFiles
  BY <1>2 DEF IndexedFiles
<1>4. ASSUME SourceFiles[f] \notin NoGrammar
      PROVE  StoredLanguage(f) \notin {NoLanguage, "prose"} /\ SourceFiles[f] # "binary"
  <2>1. SourceFiles[f] \in Languages
    BY <1>1, <1>4 DEF Languages
  <2>2. SourceFiles[f] \notin {"none", "prose", "foreign", "binary", "large"} /\ SourceFiles[f] # NoLanguage
    BY <1>4, <2>1, ReportsAssumption DEF NoGrammar
  <2>3. StoredLanguage(f) = SourceFiles[f]
    BY <2>2 DEF StoredLanguage
  <2> QED
    BY <2>2, <2>3
<1>5. ASSUME SourceFiles[f] = "large"
      PROVE  StoredLanguage(f) \notin {NoLanguage, "prose"} /\ SourceFiles[f] # "binary"
  <2>1. StoredLanguage(f) = LargeFilesAre
    BY <1>5 DEF StoredLanguage
  <2> QED
    BY <1>5, <2>1, ReportsAssumption DEF NoGrammar
<1>6. StoredLanguage(f) # NoLanguage => SourceFiles[f] # "binary"
  BY DEF StoredLanguage
<1> QED
  BY <1>2, <1>3, <1>4, <1>5, <1>6

\* What was read is counted as parsed, what a grammar was asked for and did
\* not give as not parsed, and what is neither has nothing.
LEMMA FileIs ==
  ASSUME ReportsInv, NEW f \in StoredFiles
  PROVE  /\ f \in ParsedFiles <=> Read(f, rows[f])
         /\ f \in FilesNotParsed => ~Read(f, rows[f])
         /\ Unloaded(f, rows[f]) \/ Broke(f, rows[f]) => f \in FilesNotParsed
         /\ StoredLanguage(f) \notin {NoLanguage, "prose"} =>
              f \in ParsedFiles \/ f \in FilesNotParsed
         /\ ~Read(f, rows[f]) /\ f \notin FilesNotParsed => Bare(rows[f])
<1>1. EndsAs(f, rows[f])
  BY StoredFileIs
<1>2. /\ SourceFiles[f] \notin NoGrammar =>
           StoredLanguage(f) \notin {NoLanguage, "prose"} /\ f \in IndexedFiles
      /\ StoredLanguage(f) # NoLanguage => f \in IndexedFiles
  BY LanguageIs
<1>3. ASSUME Read(f, rows[f]) PROVE f \in ParsedFiles /\ f \notin FilesNotParsed
  <2>1. SourceFiles[f] \notin NoGrammar /\ rows[f].outcome \in {"Succeeded", "SyntaxErrors"}
        /\ rows[f].available = "Available"
    BY <1>3 DEF Read
  <2> QED
    BY <1>2, <2>1 DEF ParsedFiles, FilesNotParsed, ParserFailure
<1>4. ASSUME f \in ParsedFiles PROVE Read(f, rows[f])
  <2>1. rows[f].outcome \in {"Succeeded", "SyntaxErrors"}
    BY <1>4 DEF ParsedFiles
  <2> QED
    BY <1>1, <2>1 DEF EndsAs, Passed, Unloaded, Broke
<1>5. ASSUME Unloaded(f, rows[f]) \/ Broke(f, rows[f]) PROVE f \in FilesNotParsed
  <2>1. SourceFiles[f] \notin NoGrammar /\ (rows[f].available # "Available" \/ rows[f].outcome = "Failed")
    BY <1>5 DEF Unloaded, Broke
  <2> QED
    BY <1>2, <2>1 DEF FilesNotParsed, ParserFailure
<1>6. ASSUME Passed(f, rows[f]), StoredLanguage(f) \notin {NoLanguage, "prose"} PROVE f \in FilesNotParsed
  <2>1. rows[f].available # "Available"
    BY <1>6 DEF Passed
  <2> QED
    BY <1>2, <1>6, <2>1 DEF FilesNotParsed, ParserFailure
<1>7. Passed(f, rows[f]) => Bare(rows[f])
  BY DEF Passed
<1> QED
  BY <1>1, <1>3, <1>4, <1>5, <1>6, <1>7 DEF EndsAs

\* A file's rows of a mechanic: none where nothing was found, and of calls only
\* where the language has them.
LEMMA RowsAre ==
  ASSUME ReportsInv, NEW f \in StoredFiles, NEW mechanic \in LeadMechanics
  PROVE  /\ RowsIn(mechanic, f) \in Nat
         /\ Bare(rows[f]) => RowsIn(mechanic, f) = 0
         /\ RowsIn(mechanic, f) > 0 => mechanic # "credential_files"
         /\ mechanic = "calls" /\ RowsIn(mechanic, f) > 0 => StoredLanguage(f) \in CallLanguages
<1> DEFINE kept == rows[f].kept
           diagnostics == Diagnostics(kept)
           others == DOMAIN kept \ diagnostics
<1>1. kept \in Seq(Facts)
  BY StoredFileIs DEF RowStates
<1>2. DOMAIN kept = 1..Len(kept) /\ Len(kept) \in Nat
  BY <1>1, LenProperties
<1>3. IsFiniteSet(DOMAIN kept)
  BY <1>2, FS_Interval
<1>4. diagnostics \in SUBSET DOMAIN kept /\ others \in SUBSET DOMAIN kept
  BY DEF Diagnostics
<1> DEFINE all == DOMAIN kept
<1>5. Cardinality(diagnostics) \in Nat /\ Cardinality(others) \in Nat
  <2> HIDE DEF diagnostics, others, all
  <2>1. IsFiniteSet(diagnostics) /\ IsFiniteSet(others)
    BY <1>3, <1>4, FS_Subset DEF all
  <2> QED
    BY <2>1, FS_CardinalityType
<1>6. ASSUME Bare(rows[f]) PROVE Cardinality(diagnostics) = 0 /\ Cardinality(others) = 0 /\ rows[f].marker = FALSE
  <2>1. kept = <<>> /\ rows[f].marker = FALSE
    BY <1>6 DEF Bare
  <2>2. DOMAIN kept = {}
    BY <1>2, <2>1
  <2>3. diagnostics = {} /\ others = {}
    BY <1>4, <2>2
  <2> QED
    BY <2>1, <2>3, FS_EmptySet
<1>7. mechanic = "calls" => RowsIn(mechanic, f) = IF StoredLanguage(f) \in CallLanguages THEN Cardinality(others) ELSE 0
  BY DEF RowsIn
<1>8. mechanic = "diagnostics" => RowsIn(mechanic, f) = Cardinality(diagnostics) + (IF rows[f].marker THEN 1 ELSE 0)
  BY DEF RowsIn
<1>9. mechanic = "credential_files" => RowsIn(mechanic, f) = 0
  BY DEF RowsIn
<1>10. mechanic = "calls" \/ mechanic = "diagnostics" \/ mechanic = "credential_files"
  BY DEF LeadMechanics
<1> HIDE DEF diagnostics, others, kept, all
<1> DEFINE marked == IF rows[f].marker THEN 1 ELSE 0
<1>14. marked \in Nat /\ (rows[f].marker = FALSE => marked = 0)
  OBVIOUS
<1> HIDE DEF marked
<1>11. CASE mechanic = "calls"
  <2>1. \/ RowsIn(mechanic, f) = Cardinality(others) /\ StoredLanguage(f) \in CallLanguages
        \/ RowsIn(mechanic, f) = 0
    BY <1>7, <1>11
  <2>2. RowsIn(mechanic, f) \in Nat
    BY <1>5, <2>1
  <2>4. ASSUME Bare(rows[f]) PROVE RowsIn(mechanic, f) = 0
    <3>1. Cardinality(others) = 0
      BY <1>6, <2>4
    <3> QED
      BY ONLY <2>1, <3>1
  <2>3. RowsIn(mechanic, f) > 0 => StoredLanguage(f) \in CallLanguages
    BY <2>1
  <2> QED
    BY <1>11, <2>2, <2>3, <2>4
<1>12. CASE mechanic = "diagnostics"
  <2>1. RowsIn(mechanic, f) = Cardinality(diagnostics) + marked
    BY <1>8, <1>12 DEF marked
  <2>2. RowsIn(mechanic, f) \in Nat
    BY <1>5, <1>14, <2>1
  <2>3. ASSUME Bare(rows[f]) PROVE RowsIn(mechanic, f) = 0
    <3>1. Cardinality(diagnostics) = 0 /\ marked = 0
      BY <1>6, <1>14, <2>3
    <3> QED
      BY ONLY <2>1, <3>1
  <2> QED
    BY <1>12, <2>2, <2>3
<1>13. CASE mechanic = "credential_files"
  BY <1>9, <1>13
<1> QED
  BY <1>10, <1>11, <1>12, <1>13

-----------------------------------------------------------------------------
(* Reports: the totals.                                                     *)

LEMMA FilesAreFinite == IsFiniteSet(StoredFiles) /\ \A files \in SUBSET StoredFiles : IsFiniteSet(files)
<1>1. StoredFiles \in SUBSET Names
  BY DEF StoredFiles
<1>2. IsFiniteSet(StoredFiles)
  BY <1>1, ReportsAssumption, FS_Subset
<1> QED
  BY <1>2, FS_Subset

LEMMA CountsAre ==
  ASSUME ReportsInv, NEW mechanic \in LeadMechanics
  PROVE  LET c == MechanicCount(mechanic) IN
         /\ c.count = CountOf(mechanic, ParsedFiles) + CountOf(mechanic, FilesNotParsed)
         /\ c.files <= Cardinality(StoredFiles) /\ (c.count > 0 <=> c.files > 0)
         /\ c.count > 0 /\ FilesNotParsed = {} => c.covers # {}
<1> DEFINE has == [f \in StoredFiles |-> RowsIn(mechanic, f)]
           some == {f \in StoredFiles : RowsIn(mechanic, f) > 0}
           rest == StoredFiles \ ParsedFiles
           neither == rest \ FilesNotParsed
           count == CountOf(mechanic, StoredFiles)
<1>1. \A f \in StoredFiles : has[f] \in Nat /\ has[f] = RowsIn(mechanic, f)
  BY RowsAre
<1>2. /\ ParsedFiles \in SUBSET StoredFiles /\ FilesNotParsed \in SUBSET rest
      /\ rest \in SUBSET StoredFiles /\ neither \in SUBSET StoredFiles
      /\ rest \ FilesNotParsed = neither /\ StoredFiles \ ParsedFiles = rest
  <2>1. ParsedFiles \in SUBSET StoredFiles /\ FilesNotParsed \in SUBSET StoredFiles
    BY DEF ParsedFiles, FilesNotParsed, IndexedFiles
  <2>2. \A f \in FilesNotParsed : f \notin ParsedFiles
    BY <2>1, FileIs
  <2> QED
    BY <2>1, <2>2
<1>3. ASSUME NEW files \in SUBSET StoredFiles
      PROVE  CountOf(mechanic, files) = SumFunctionOnSet(has, files)
  <2> DEFINE own == [f \in files |-> RowsIn(mechanic, f)]
  <2>1. IsFiniteSet(files)
    BY FilesAreFinite
  <2>2. \A f \in files : own[f] \in Nat /\ own[f] = has[f]
    BY <1>1
  <2>3. CountOf(mechanic, files) = SumFunctionOnSet(own, files)
    BY DEF CountOf
  <2> HIDE DEF own, has
  <2> QED
    BY <2>1, <2>2, <2>3, SumSame
<1>4. \A f \in neither : has[f] = 0
  <2> SUFFICES ASSUME NEW f \in neither PROVE has[f] = 0
    OBVIOUS
  <2>1. f \in StoredFiles /\ f \notin ParsedFiles /\ f \notin FilesNotParsed
    OBVIOUS
  <2>2. Bare(rows[f])
    BY <2>1, FileIs
  <2> QED
    BY <1>1, <2>1, <2>2, RowsAre
<1>5. count = CountOf(mechanic, ParsedFiles) + CountOf(mechanic, FilesNotParsed)
  <2> HIDE DEF has, rest, neither
  <2>1. IsFiniteSet(StoredFiles) /\ IsFiniteSet(rest) /\ IsFiniteSet(neither)
        /\ IsFiniteSet(FilesNotParsed) /\ IsFiniteSet(ParsedFiles)
    BY <1>2, FilesAreFinite, FS_Subset
  <2>2. SumFunctionOnSet(has, StoredFiles) = SumFunctionOnSet(has, ParsedFiles) + SumFunctionOnSet(has, rest)
    BY <1>1, <1>2, <2>1, SumSplit
  <2>3. \A f \in rest : has[f] \in Nat
    BY <1>1, <1>2
  <2>4. SumFunctionOnSet(has, rest) = SumFunctionOnSet(has, FilesNotParsed) + SumFunctionOnSet(has, neither)
    BY <1>2, <2>1, <2>3, SumSplit
  <2>5. SumFunctionOnSet(has, neither) = 0
    BY <1>4, <2>1, SumOfZeros
  <2>6. SumFunctionOnSet(has, FilesNotParsed) \in Nat /\ SumFunctionOnSet(has, ParsedFiles) \in Nat
    BY <1>1, <1>2, <2>1, <2>3, SumIsNat
  <2>7. FilesNotParsed \in SUBSET StoredFiles /\ StoredFiles \in SUBSET StoredFiles
    BY <1>2
  <2>8. /\ count = SumFunctionOnSet(has, StoredFiles)
        /\ CountOf(mechanic, ParsedFiles) = SumFunctionOnSet(has, ParsedFiles)
        /\ CountOf(mechanic, FilesNotParsed) = SumFunctionOnSet(has, FilesNotParsed)
    BY <1>2, <1>3, <2>7
  <2> QED
    BY ONLY <2>2, <2>4, <2>5, <2>6, <2>8
<1>6. count > 0 <=> \E f \in StoredFiles : RowsIn(mechanic, f) > 0
  <2>1. StoredFiles \in SUBSET StoredFiles
    OBVIOUS
  <2>2. count = SumFunctionOnSet(has, StoredFiles)
    BY <1>3, <2>1
  <2>3. SumFunctionOnSet(has, StoredFiles) > 0 <=> \E f \in StoredFiles : has[f] > 0
    <3> HIDE DEF has
    <3> QED
      BY <1>1, FilesAreFinite, SumPositive
  <2> HIDE DEF has, count
  <2> QED
    BY <1>1, <2>2, <2>3
<1>7. /\ some \in SUBSET StoredFiles /\ Cardinality(some) <= Cardinality(StoredFiles)
      /\ (Cardinality(some) > 0 <=> some # {})
  <2>1. some \in SUBSET StoredFiles
    OBVIOUS
  <2> HIDE DEF some
  <2>2. IsFiniteSet(some) /\ Cardinality(some) <= Cardinality(StoredFiles)
    BY <2>1, FilesAreFinite, FS_Subset
  <2>3. Cardinality(some) \in Nat /\ (Cardinality(some) = 0 <=> some = {})
    BY <2>2, FS_CardinalityType, FS_EmptySet
  <2> QED
    BY <2>1, <2>2, <2>3
<1>8. ASSUME NEW f \in StoredFiles, RowsIn(mechanic, f) > 0, FilesNotParsed = {}
      PROVE  Covers(mechanic) # {}
  <2>1. Read(f, rows[f])
    BY <1>8, FileIs, RowsAre
  <2>2. f \in ParsedFiles
    BY <2>1, FileIs
  <2>3. StoredLanguage(f) \in LanguagesOf(ParsedFiles)
    BY <2>2 DEF LanguagesOf, ParsedFiles
  <2>4. CASE mechanic = "calls"
    <3>1. StoredLanguage(f) \in CallLanguages
      BY <1>8, <2>4, RowsAre
    <3>2. Covers(mechanic) = LanguagesOf(ParsedFiles) \cap CallLanguages
      BY <2>4 DEF Covers
    <3> QED
      BY <2>3, <3>1, <3>2
  <2>5. CASE mechanic = "diagnostics"
    <3>1. Covers(mechanic) = LanguagesOf(ParsedFiles)
      BY <2>5 DEF Covers
    <3> QED
      BY <2>3, <3>1
  <2>6. mechanic # "credential_files"
    BY <1>8, RowsAre
  <2> QED
    BY <2>4, <2>5, <2>6 DEF LeadMechanics
<1>9. /\ MechanicCount(mechanic).count = count /\ MechanicCount(mechanic).files = Cardinality(some)
      /\ MechanicCount(mechanic).covers = Covers(mechanic)
  BY DEF MechanicCount
<1>10. some # {} <=> \E f \in StoredFiles : RowsIn(mechanic, f) > 0
  OBVIOUS
<1> HIDE DEF count, some
<1>11. count > 0 /\ FilesNotParsed = {} => Covers(mechanic) # {}
  BY <1>6, <1>8
<1> QED
  BY <1>5, <1>6, <1>7, <1>9, <1>10, <1>11

\* Two parts without a file in common, of one set.
LEMMA PartsAdd ==
  ASSUME NEW S, IsFiniteSet(S), NEW a \in SUBSET S, NEW b \in SUBSET S, a \cap b = {}
  PROVE  /\ Cardinality(a) \in Nat /\ Cardinality(b) \in Nat /\ Cardinality(S) \in Nat
         /\ Cardinality(a) + Cardinality(b) = Cardinality(a \cup b)
         /\ Cardinality(a) + Cardinality(b) <= Cardinality(S)
<1>1. IsFiniteSet(a) /\ IsFiniteSet(b) /\ a \cup b \in SUBSET S
  BY FS_Subset
<1>2. Cardinality(a \cup b) = Cardinality(a) + Cardinality(b) - Cardinality(a \cap b)
  BY <1>1, FS_Union
<1>3. Cardinality(a) \in Nat /\ Cardinality(b) \in Nat /\ Cardinality(S) \in Nat /\ Cardinality(a \cap b) = 0
  BY <1>1, FS_CardinalityType, FS_EmptySet
<1>4. Cardinality(a \cup b) <= Cardinality(S)
  BY <1>1, FS_Subset
<1> QED
  BY ONLY <1>2, <1>3, <1>4

LEMMA KindsAddUp ==
  Envelope.file_kind["indexed"] + Envelope.file_kind["binary"] = Cardinality(StoredFiles)
<1> DEFINE of(k) == {f \in StoredFiles : KindOf[f] = k}
<1>1. /\ Envelope.file_kind["indexed"] = Cardinality(of("indexed"))
      /\ Envelope.file_kind["binary"] = Cardinality(of("binary"))
  BY DEF Envelope, GroupedBy
<1>2. of("indexed") \in SUBSET StoredFiles /\ of("binary") \in SUBSET StoredFiles
  OBVIOUS
<1>3. of("indexed") \cap of("binary") = {} /\ of("indexed") \cup of("binary") = StoredFiles
  BY LanguageIs
<1> HIDE DEF of
<1>4. Cardinality(of("indexed")) + Cardinality(of("binary")) = Cardinality(StoredFiles)
  BY <1>2, <1>3, FilesAreFinite, PartsAdd
<1> QED
  BY <1>1, <1>4

LEMMA CompletenessAddsUp ==
  ASSUME ReportsInv
  PROVE  SumFunctionOnSet(Envelope.extraction_completeness, DOMAIN Envelope.extraction_completeness)
           = Cardinality(StoredFiles)
<1> DEFINE values == {"Full", "Partial", "ContentOnly", "Unavailable"}
           of(c) == {f \in StoredFiles : Completeness[f] = c}
           sizes == [c \in values |-> Cardinality(of(c))]
           worse == values \ {"Full"}
           none == worse \ {"Partial"}
           unread == none \ {"ContentOnly"}
<1>1. Envelope.extraction_completeness = sizes /\ DOMAIN sizes = values
  BY DEF Envelope, GroupedBy
<1>2. \A f \in StoredFiles : Completeness[f] \in values
  <2> SUFFICES ASSUME NEW f \in StoredFiles PROVE Completeness[f] \in values
    OBVIOUS
  <2>1. f \in Names /\ rows[f] \in RowStates
    BY StoredFileIs
  <2>2. Completeness[f] = rows[f].completeness
    BY <2>1 DEF Completeness
  <2> QED
    BY <2>1, <2>2 DEF RowStates
<1>3. \A c \in values : of(c) \in SUBSET StoredFiles /\ sizes[c] = Cardinality(of(c)) /\ sizes[c] \in Nat
  BY FilesAreFinite, FS_CardinalityType
<1>4. unread = {"Unavailable"} /\ unread \ {"Unavailable"} = {} /\ IsFiniteSet(unread)
  <2>1. unread = {"Unavailable"} /\ unread \ {"Unavailable"} = {}
    OBVIOUS
  <2> QED
    BY <2>1, FS_Singleton
<1>5. IsFiniteSet(none) /\ IsFiniteSet(worse) /\ IsFiniteSet(values)
  <2>1. none = unread \cup {"ContentOnly"} /\ worse = none \cup {"Partial"} /\ values = worse \cup {"Full"}
    OBVIOUS
  <2> HIDE DEF none, worse, values, unread
  <2> QED
    BY <1>4, <2>1, FS_AddElement
<1>6. /\ "Full" \in values /\ "Partial" \in worse /\ "ContentOnly" \in none /\ "Unavailable" \in unread
      /\ worse \subseteq values /\ none \subseteq values /\ unread \subseteq values
  OBVIOUS
<1>7. /\ of("Full") \cap of("Partial") = {}
      /\ (of("Full") \cup of("Partial")) \cap of("ContentOnly") = {}
      /\ (of("Full") \cup of("Partial") \cup of("ContentOnly")) \cap of("Unavailable") = {}
      /\ of("Full") \cup of("Partial") \cup of("ContentOnly") \cup of("Unavailable") = StoredFiles
  BY <1>2
<1>8. values \ {"Full"} = worse /\ worse \ {"Partial"} = none /\ none \ {"ContentOnly"} = unread
  OBVIOUS
<1>9. "Full" \in values /\ "Partial" \in values /\ "ContentOnly" \in values /\ "Unavailable" \in values
  OBVIOUS
<1> HIDE DEF values, worse, none, unread, sizes, of
<1>10. SumFunctionOnSet(sizes, values) = sizes["Full"] + SumFunctionOnSet(sizes, worse)
  BY <1>3, <1>5, <1>6, <1>8, SumWithout
<1>11. SumFunctionOnSet(sizes, worse) = sizes["Partial"] + SumFunctionOnSet(sizes, none)
  <2>1. \A c \in worse : sizes[c] \in Nat
    BY <1>3, <1>6
  <2> QED
    BY <1>5, <1>6, <1>8, <2>1, SumWithout
<1>12. SumFunctionOnSet(sizes, none) = sizes["ContentOnly"] + SumFunctionOnSet(sizes, unread)
  <2>1. \A c \in none : sizes[c] \in Nat
    BY <1>3, <1>6
  <2> QED
    BY <1>5, <1>6, <1>8, <2>1, SumWithout
<1>13. SumFunctionOnSet(sizes, unread) = sizes["Unavailable"] + SumFunctionOnSet(sizes, {})
  <2>1. \A c \in unread : sizes[c] \in Nat
    BY <1>3, <1>6
  <2> QED
    BY <1>4, <1>6, <2>1, SumWithout
<1>14. SumFunctionOnSet(sizes, {}) = 0
  BY SumOfNothing
<1>15. /\ of("Full") \in SUBSET StoredFiles /\ of("Partial") \in SUBSET StoredFiles
       /\ of("ContentOnly") \in SUBSET StoredFiles /\ of("Unavailable") \in SUBSET StoredFiles
  BY <1>3, <1>9
<1>16. Cardinality(of("Full")) + Cardinality(of("Partial")) = Cardinality(of("Full") \cup of("Partial"))
  BY <1>7, <1>15, FilesAreFinite, PartsAdd
<1>17. Cardinality(of("Full") \cup of("Partial")) + Cardinality(of("ContentOnly"))
         = Cardinality(of("Full") \cup of("Partial") \cup of("ContentOnly"))
  <2>1. of("Full") \cup of("Partial") \in SUBSET StoredFiles
    BY <1>15
  <2> QED
    BY <1>7, <1>15, <2>1, FilesAreFinite, PartsAdd
<1>18. Cardinality(of("Full") \cup of("Partial") \cup of("ContentOnly")) + Cardinality(of("Unavailable"))
         = Cardinality(StoredFiles)
  <2>1. of("Full") \cup of("Partial") \cup of("ContentOnly") \in SUBSET StoredFiles
    BY <1>15
  <2> QED
    BY <1>7, <1>15, <2>1, FilesAreFinite, PartsAdd
<1>19. /\ sizes["Full"] = Cardinality(of("Full")) /\ sizes["Partial"] = Cardinality(of("Partial"))
       /\ sizes["ContentOnly"] = Cardinality(of("ContentOnly"))
       /\ sizes["Unavailable"] = Cardinality(of("Unavailable"))
       /\ sizes["Full"] \in Nat /\ sizes["Partial"] \in Nat
       /\ sizes["ContentOnly"] \in Nat /\ sizes["Unavailable"] \in Nat
  BY <1>3, <1>9
<1>20. SumFunctionOnSet(sizes, values) = Cardinality(StoredFiles)
  BY ONLY <1>10, <1>11, <1>12, <1>13, <1>14, <1>16, <1>17, <1>18, <1>19
<1> QED
  BY <1>1, <1>20

\* What was withheld and what was cut are failures, and no file is both.
LEMMA FailuresAre ==
  ASSUME ReportsInv
  PROVE  Envelope.oversize + Envelope.timed_out <= Cardinality(ParserFailures)
<1> DEFINE oversize == {f \in IndexedFiles : rows[f].outcome = "Withheld"}
           cut == {f \in IndexedFiles : Cut(f)}
<1>1. Envelope.oversize = Cardinality(oversize) /\ Envelope.timed_out = Cardinality(cut)
  BY DEF Envelope
<1>2. ParserFailures \in SUBSET StoredFiles /\ IndexedFiles \in SUBSET StoredFiles
  BY DEF ParserFailures, IndexedFiles
<1>3. ASSUME NEW f \in oversize PROVE f \in ParserFailures /\ f \notin cut
  <2>1. f \in StoredFiles /\ f \in IndexedFiles /\ rows[f].outcome = "Withheld"
    BY <1>2
  <2>2. Passed(f, rows[f]) /\ SourceFiles[f] = "large"
    BY <2>1, StoredFileIs DEF EndsAs, Passed, Unloaded, Broke, Read
  <2>3. StoredLanguage(f) # "prose" /\ rows[f].available # "Available"
    BY <2>1, <2>2, LanguageIs DEF Passed
  <2> QED
    BY <2>1, <2>3 DEF ParserFailures, ParserFailure, Cut
<1>4. ASSUME NEW f \in cut PROVE f \in ParserFailures
  <2>1. f \in StoredFiles /\ f \in IndexedFiles /\ rows[f].outcome = "Failed"
    BY <1>2 DEF Cut
  <2>2. Broke(f, rows[f])
    BY <2>1, StoredFileIs DEF EndsAs, Passed, Unloaded, Read
  <2>3. StoredLanguage(f) # "prose"
    BY <2>1, <2>2, LanguageIs DEF Broke
  <2> QED
    BY <2>1, <2>3 DEF ParserFailures, ParserFailure
<1>5. oversize \in SUBSET ParserFailures /\ cut \in SUBSET ParserFailures /\ oversize \cap cut = {}
  BY <1>3, <1>4
<1> HIDE DEF oversize, cut
<1>6. Cardinality(oversize) + Cardinality(cut) <= Cardinality(ParserFailures)
  BY <1>2, <1>5, FilesAreFinite, PartsAdd
<1> QED
  BY <1>1, <1>6

\* What has no evidence has a reason, and prose has none.
LEMMA SilentFiles ==
  ASSUME ReportsInv
  PROVE  /\ \A f \in IndexedFiles : ~HasEvidence(f) =>
              \/ StoredLanguage(f) = "prose" \/ f \in ParserFailures
              \/ rows[f].of.items = <<>>
         /\ Envelope.prose <= Envelope.without_evidence
<1>1. IndexedFiles \in SUBSET StoredFiles
  BY DEF IndexedFiles
<1>2. ASSUME NEW f \in IndexedFiles, ~HasEvidence(f)
      PROVE  rows[f].of.items = <<>> \/ f \in ParserFailures
  <2>1. f \in StoredFiles /\ Honest(rows[f]) /\ EndsAs(f, rows[f]) /\ rows[f] \in RowStates
    BY <1>1, StoredFileIs
  <2>2. rows[f].kept = <<>> /\ ~rows[f].marker
    BY <1>2 DEF HasEvidence
  <2>3. CASE Passed(f, rows[f]) \/ Unloaded(f, rows[f])
    BY <2>3 DEF Passed, Unloaded, Bare
  <2>4. CASE Broke(f, rows[f]) \/ Read(f, rows[f])
    <3>1. rows[f].available = "Available" /\ rows[f].outcome # "NotAttempted"
      BY <2>4 DEF Broke, Read
    <3>2. rows[f].kept = rows[f].of.items
      BY <2>1, <2>2, <3>1 DEF Honest
    <3> QED
      BY <2>2, <3>2
  <2> QED
    BY <2>1, <2>3, <2>4 DEF EndsAs
<1> DEFINE prose == {f \in IndexedFiles : StoredLanguage(f) = "prose"}
           silent == {f \in IndexedFiles : ~HasEvidence(f)}
<1>3. Envelope.prose = Cardinality(prose) /\ Envelope.without_evidence = Cardinality(silent)
  BY DEF Envelope
<1>4. ASSUME NEW f \in prose PROVE f \in silent
  <2>1. f \in StoredFiles /\ f \in IndexedFiles /\ StoredLanguage(f) = "prose"
    BY <1>1
  <2>2. SourceFiles[f] \in NoGrammar
    BY <2>1, LanguageIs
  <2>3. Passed(f, rows[f])
    BY <2>1, <2>2, StoredFileIs DEF EndsAs, Unloaded, Broke, Read
  <2> QED
    BY <2>1, <2>3 DEF Passed, Bare, HasEvidence
<1>5. prose \in SUBSET silent /\ silent \in SUBSET StoredFiles
  BY <1>1, <1>4
<1> HIDE DEF prose, silent
<1>6. IsFiniteSet(silent)
  BY <1>5, FilesAreFinite
<1>7. Cardinality(prose) <= Cardinality(silent)
  BY <1>5, <1>6, FS_Subset
<1> QED
  BY <1>2, <1>3, <1>7

\* While no file is missing and nothing was cut, the rows are all there is.
LEMMA NothingIsLeftOut ==
  ASSUME ReportsInv, FilesNotParsed = {}, Envelope.evidence_capped = 0,
         Envelope.extraction_completeness["Partial"] = 0,
         NEW f \in StoredFiles
  PROVE  rows[f].kept = rows[f].of.items /\ ~rows[f].of.capped
<1>1. Honest(rows[f]) /\ EndsAs(f, rows[f]) /\ rows[f] \in RowStates /\ f \in Names
  BY StoredFileIs
<1> DEFINE marked == {g \in StoredFiles : rows[g].marker}
           cut == {g \in StoredFiles : Completeness[g] = "Partial"}
<1>2. Cardinality(marked) = 0 /\ Cardinality(cut) = 0
  BY DEF Envelope, GroupedBy
<1>3. marked \in SUBSET StoredFiles /\ cut \in SUBSET StoredFiles
  OBVIOUS
<1>4. marked = {} /\ cut = {}
  <2> HIDE DEF marked, cut
  <2>1. IsFiniteSet(marked) /\ IsFiniteSet(cut)
    BY <1>3, FilesAreFinite
  <2> QED
    BY <1>2, <2>1, FS_EmptySet
<1>5. ~rows[f].marker /\ rows[f].completeness # "Partial"
  BY <1>1, <1>4 DEF Completeness
<1>6. ~Unloaded(f, rows[f]) /\ ~Broke(f, rows[f])
  BY FileIs
<1>7. CASE Passed(f, rows[f])
  BY <1>7 DEF Passed, Bare
<1>8. CASE Read(f, rows[f])
  <2>1. rows[f].available = "Available" /\ rows[f].outcome # "NotAttempted"
        /\ (rows[f].of.capped => rows[f].completeness = "Partial")
    BY <1>8 DEF Read
  <2>2. rows[f].kept = rows[f].of.items
    BY <1>1, <1>5, <2>1 DEF Honest
  <2> QED
    BY <1>5, <2>1, <2>2
<1> QED
  BY <1>1, <1>6, <1>7, <1>8 DEF EndsAs

\* Whatever the files, their grammars and the passes: a file that a grammar
\* could have read was read or is counted as not parsed, the totals add up, and
\* without such files and cuts they are all there is (LeadsResponse,
\* CompletenessEnvelope).
THEOREM GapsHold == AnalysisSpec => []GapsAreReported
<1>1. ReportsInv => GapsAreReported
  <2> SUFFICES ASSUME ReportsInv PROVE GapsAreReported
    OBVIOUS
  <2>1. ASSUME NEW f \in StoredFiles, StoredLanguage(f) \notin {NoLanguage, "prose"}
        PROVE  (f \in ParsedFiles) # (f \in FilesNotParsed)
    BY <2>1, FileIs
  <2>2. FilesNotParsed = {} /\ Envelope.evidence_capped = 0 /\ Envelope.extraction_completeness["Partial"] = 0 =>
          \A f \in StoredFiles : rows[f].kept = rows[f].of.items /\ ~rows[f].of.capped
    BY NothingIsLeftOut
  <2> QED
    BY <2>1, <2>2, CountsAre, KindsAddUp, CompletenessAddsUp, FailuresAre, SilentFiles, Zenon
       DEF GapsAreReported
<1> QED
  BY <1>1, ReportsInvHolds, PTL
=============================================================================
