-------------------------------- MODULE Server --------------------------------
(***************************************************************************)
(* How a tool call runs: the semaphore, the blocking thread, the progress  *)
(* notifications and the counters (src/src/server_runner.rs,               *)
(* server_progress.rs, progress.rs, tools/tool_counters.rs, server.rs).    *)
(*                                                                         *)
(* Tokio is external: a semaphore gives its permits first come, first      *)
(* served; a future may be dropped while it awaits; a closure on a         *)
(* blocking thread runs to its end, or panics, whatever its future does.   *)
(***************************************************************************)
EXTENDS Naturals, Sequences, FiniteSets, SequencesExt

CONSTANTS
  ToolCalls,   \* calls of the clients
  Permits,     \* MAX_CONCURRENT_BLOCKING_OPS
  Window,      \* the throttle's window, in ticks
  MaxClock,    \* bound: ticks
  Reporting,   \* the calls whose work reports samples
  Samples      \* bound: samples of one call

ASSUME ServerAssumption ==
  Reporting \subseteq ToolCalls /\ Permits \in Nat \ {0} /\ Window \in Nat \ {0} /\ MaxClock \in Nat /\ Samples \in Nat

VARIABLES
  future,    \* per call: where its future is, "gone" if it was dropped
  work,      \* per call: "none", "running", "ok", "error" or "panic"
  permit,    \* per call: who holds its permit: "none", "future" or "work"
  queue,     \* calls waiting for a permit, in order
  free,      \* permits of the semaphore
  clock,     \* ticks
  reports,   \* reporting threads of the works: [call, now, last, at] per report under way
  reported,  \* per call: samples reported so far
  last,      \* per call: the throttle's stamp of the last event that passed
  passed,    \* observer: per call, the stamps of the events that passed
  tally,     \* ToolCounters
  told,      \* per call: the snapshot taken when it began
  answered   \* per call: what the client got: "none", "ok" or "error"

serverVars == <<future, work, permit, queue, free, clock, reports, reported, last, passed,
                tally, told, answered>>

Counts == [calls |-> 0, errors |-> 0]

\* SlugAuditServer::with_manager: one semaphore for all tools.
ServerInit ==
  /\ future = [c \in ToolCalls |-> "new"] /\ work = [c \in ToolCalls |-> "none"]
  /\ permit = [c \in ToolCalls |-> "none"] /\ queue = <<>> /\ free = Permits
  /\ clock = 0 /\ reports = {} /\ reported = [c \in ToolCalls |-> 0]
  /\ last = [c \in ToolCalls |-> 0] /\ passed = [c \in ToolCalls |-> <<>>]
  /\ tally = Counts /\ told = [c \in ToolCalls |-> Counts] /\ answered = [c \in ToolCalls |-> "none"]

UnchangedThrottle == UNCHANGED <<clock, reports, reported, last, passed>>
UnchangedCounts == UNCHANGED <<tally, told, answered>>
Step(c, from, to) == future[c] = from /\ future' = [future EXCEPT ![c] = to]

\* run_blocking: the snapshot, then the first notification is awaited.
ReceiveCall(c) ==
  /\ Step(c, "new", "queueing") /\ told' = [told EXCEPT ![c] = tally]
  /\ UNCHANGED <<work, permit, queue, free, tally, answered>> /\ UnchangedThrottle

\* acquire_owned.
Queue(c) ==
  /\ Step(c, "queueing", "waiting") /\ queue' = Append(queue, c)
  /\ UNCHANGED <<work, permit, free>> /\ UnchangedThrottle /\ UnchangedCounts
Grant ==
  /\ queue # <<>> /\ free > 0
  /\ LET c == Head(queue) IN
     Step(c, "waiting", "granted") /\ permit' = [permit EXCEPT ![c] = "future"]
  /\ queue' = Tail(queue) /\ free' = free - 1
  /\ UNCHANGED work /\ UnchangedThrottle /\ UnchangedCounts

\* Wrong variant: the permit stays with the future.
KeptByFuture == "future"
\* spawn_blocking: the permit moves into the closure.
MovedIntoWork == "work"
SpawnWork(c) ==
  /\ Step(c, "granted", "joining")
  /\ work' = [work EXCEPT ![c] = "running"] /\ permit' = [permit EXCEPT ![c] = MovedIntoWork]
  /\ UNCHANGED <<queue, free>> /\ UnchangedThrottle /\ UnchangedCounts

\* Wrong variant: a permit is given back whoever holds it.
ReleaseTwice(c, holder) == permit' = [permit EXCEPT ![c] = "none"] /\ free' = free + 1
Release(c, holder) ==
  IF permit[c] = holder
  THEN permit' = [permit EXCEPT ![c] = "none"] /\ free' = free + 1
  ELSE UNCHANGED <<permit, free>>

\* The closure ends when its threads have; it drops its permit however it ends.
EndWork(c) ==
  /\ work[c] = "running" /\ \A r \in reports : r.call # c
  /\ \E end \in {"ok", "error", "panic"} : work' = [work EXCEPT ![c] = end]
  /\ Release(c, "work")
  /\ UNCHANGED <<future, queue>> /\ UnchangedThrottle /\ UnchangedCounts

\* The future joins the closure, notifies, records and answers.
RecordCall(c) ==
  /\ Step(c, "joining", "done") /\ work[c] \notin {"none", "running"}
  /\ tally' = [calls |-> tally.calls + 1,
               errors |-> tally.errors + (IF work[c] = "ok" THEN 0 ELSE 1)]
  /\ answered' = [answered EXCEPT ![c] = IF work[c] = "ok" THEN "ok" ELSE "error"]
  /\ Release(c, "future")
  /\ UNCHANGED <<work, queue, told>> /\ UnchangedThrottle

\* A future is dropped at an await: it leaves the queue, and gives back the
\* permit it holds.
Dropped(c) ==
  /\ future[c] \in {"queueing", "waiting", "granted", "joining"}
  /\ future' = [future EXCEPT ![c] = "gone"]
  /\ IF future[c] = "waiting"
     THEN \E i \in DOMAIN queue : queue[i] = c /\ queue' = RemoveAt(queue, i)
     ELSE UNCHANGED queue
  /\ Release(c, "future")
  /\ UNCHANGED work /\ UnchangedThrottle /\ UnchangedCounts

-----------------------------------------------------------------------------
\* Sampling events of the pool's threads pass a throttle.

\* should_emit: the clock is read, then the stamp; an event too soon after
\* the last one is dropped.
ReadClock(c) ==
  /\ c \in Reporting /\ work[c] = "running" /\ reported[c] < Samples
  /\ reported' = [reported EXCEPT ![c] = @ + 1]
  /\ reports' = reports \cup {[call |-> c, n |-> reported[c], at |-> clock + 1, seen |-> 0, step |-> "load"]}
  /\ UNCHANGED <<future, work, permit, queue, free, clock, last, passed>> /\ UnchangedCounts
LoadStamp(r) ==
  LET seen == last[r.call]
      early == seen # 0 /\ (IF r.at < seen THEN 0 ELSE r.at - seen) < Window
  IN
  /\ r.step = "load"
  /\ reports' = (reports \ {r}) \cup (IF early THEN {} ELSE {[r EXCEPT !.seen = seen, !.step = "swap"]})
  /\ UNCHANGED <<future, work, permit, queue, free, clock, reported, last, passed>> /\ UnchangedCounts

\* Wrong variant: the stamp is stored without a comparison.
Stores(r) == TRUE
\* compare_exchange: of two threads that saw one stamp, one passes.
Swaps(r) == last[r.call] = r.seen
SwapStamp(r) ==
  /\ r.step = "swap" /\ reports' = reports \ {r}
  /\ IF Swaps(r)
     THEN /\ last' = [last EXCEPT ![r.call] = r.at]
          /\ passed' = [passed EXCEPT ![r.call] = Append(@, r.at)]
     ELSE UNCHANGED <<last, passed>>
  /\ UNCHANGED <<future, work, permit, queue, free, clock, reported>> /\ UnchangedCounts

Pass ==
  /\ clock < MaxClock /\ clock' = clock + 1
  /\ UNCHANGED <<future, work, permit, queue, free, reports, reported, last, passed>> /\ UnchangedCounts

ServerNext ==
  \/ Grant \/ Pass
  \/ \E c \in ToolCalls : \/ ReceiveCall(c) \/ Queue(c) \/ SpawnWork(c) \/ EndWork(c)
                          \/ RecordCall(c) \/ Dropped(c) \/ ReadClock(c)
  \/ \E r \in reports : LoadStamp(r) \/ SwapStamp(r)

ServerSpec == ServerInit /\ [][ServerNext]_serverVars

ServerTypeOK ==
  /\ \A c \in ToolCalls :
       /\ future[c] \in {"new", "queueing", "waiting", "granted", "joining", "done", "gone"}
       /\ work[c] \in {"none", "running", "ok", "error", "panic"}
       /\ permit[c] \in {"none", "future", "work"} /\ answered[c] \in {"none", "ok", "error"}
  /\ queue \in Seq(ToolCalls) /\ free \in 0..Permits /\ clock \in 0..MaxClock
  /\ tally \in [calls : Nat, errors : Nat]

\* However calls are dropped, panic or queue, no more than Permits works run
\* at once, every permit is free or held by one call, and a call that is
\* answered is one the counters moved for, as an error if it failed; and of
\* the events of one call's threads, those that pass are a window apart.
WorksAreBounded ==
  /\ Cardinality({c \in ToolCalls : work[c] = "running"}) <= Permits
  /\ free + Cardinality({c \in ToolCalls : permit[c] # "none"}) = Permits
  /\ \A c \in ToolCalls : permit[c] = "work" <=> work[c] = "running"
  /\ \A c \in ToolCalls :
       answered[c] # "none" =>
         /\ tally.calls > told[c].calls
         /\ answered[c] = "error" => tally.errors > told[c].errors
  /\ \A c \in ToolCalls : \A i, j \in DOMAIN passed[c] :
       i < j => passed[c][j] >= passed[c][i] + Window

-----------------------------------------------------------------------------
(* The inductive invariant behind WorksAreBounded.                          *)

ReportStates == [call : ToolCalls, n : Nat, at : Nat \ {0}, seen : Nat, step : {"load", "swap"}]
ServerShape ==
  /\ future \in [ToolCalls -> {"new", "queueing", "waiting", "granted", "joining", "done", "gone"}]
  /\ work \in [ToolCalls -> {"none", "running", "ok", "error", "panic"}]
  /\ permit \in [ToolCalls -> {"none", "future", "work"}]
  /\ answered \in [ToolCalls -> {"none", "ok", "error"}]
  /\ queue \in Seq(ToolCalls) /\ free \in Nat /\ clock \in Nat
  /\ tally \in [calls : Nat, errors : Nat] /\ told \in [ToolCalls -> [calls : Nat, errors : Nat]]
  /\ reports \subseteq ReportStates /\ reported \in [ToolCalls -> Nat]
  /\ last \in [ToolCalls -> Nat] /\ passed \in [ToolCalls -> Seq(Nat)]

\* The calls that hold a permit are finitely many, whatever the clients send.
Holders == {c \in ToolCalls : permit[c] # "none"}
PermitsAdd == IsFiniteSet(Holders) /\ free + Cardinality(Holders) = Permits

\* A permit is a granted future's or a running work's, and work is started once.
PermitIsUsed(c) ==
  /\ work[c] # "none" => future[c] \in {"joining", "done", "gone"}
  /\ permit[c] = "future" <=> future[c] = "granted"
  /\ permit[c] = "work" <=> work[c] = "running"

\* The counters never fall behind what a call was told, and are past it when
\* the call is answered, which is once.
CountsMove(c) ==
  /\ told[c].calls <= tally.calls /\ told[c].errors <= tally.errors
  /\ answered[c] # "none" =>
       /\ future[c] = "done" /\ tally.calls > told[c].calls
       /\ answered[c] = "error" => tally.errors > told[c].errors

\* The stamp is that of the last event that passed.
Spaced(stamps, stamp) ==
  /\ stamps = <<>> <=> stamp = 0
  /\ stamps # <<>> => stamps[Len(stamps)] = stamp
  /\ \A i, j \in DOMAIN stamps : i < j => stamps[j] >= stamps[i] + Window

\* A thread about to swap found its event late enough after the stamp it saw.
SwapIsLate(r) == r.step = "swap" /\ r.seen # 0 => r.at >= r.seen + Window

ServerInv ==
  /\ ServerShape /\ PermitsAdd /\ \A r \in reports : SwapIsLate(r)
  /\ \A c \in ToolCalls : PermitIsUsed(c) /\ CountsMove(c) /\ Spaced(passed[c], last[c])
===============================================================================
