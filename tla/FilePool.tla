------------------------------- MODULE FilePool -------------------------------
(***************************************************************************)
(* One pass of a sync over the discovered files on the bounded pool of    *)
(* workers (src/src/sync/file_pool.rs), with what pass 2 does to a file:   *)
(* sample it and claim its bytes of the import ceiling                     *)
(* (src/src/sync/sample_batch.rs).  Every atomic operation of a worker is  *)
(* a step; the deadline may pass at any time.                              *)
(***************************************************************************)
EXTENDS Naturals, FiniteSets, FiniteSetsExt

CONSTANTS
  Workers,      \* the threads spawned: min(files, cores, MAX_CONCURRENT_BLOCKING_OPS)
  PoolFiles,    \* number of discovered files
  Bytes,        \* sizes a sampled file may have
  ImportLimit,  \* max_total_import_bytes
  Skip, Fail    \* the other outcomes of sampling: recorded as skipped, unreadable

ASSUME FilePoolAssumption ==
  /\ Workers # {} /\ IsFiniteSet(Workers) /\ PoolFiles \in Nat \ {0}
  /\ Bytes \subseteq Nat /\ ImportLimit \in Nat /\ Skip \notin Nat /\ Fail \notin Nat /\ Skip # Fail

VARIABLES
  sampled,    \* what sampling each file gives
  nextIndex,  \* next_index: the files claimed so far, plus one
  errorFlag,  \* error_flag
  errorSlot,  \* error_slot
  totalBytes, \* total_bytes: claimed of the import ceiling
  sent,       \* outcomes in the channel, per file
  worker,     \* per worker: where it is, the file it holds, the error it aborts with
  expired,    \* the deadline has passed
  verdict     \* what the run returned

poolVars == <<sampled, nextIndex, errorFlag, errorSlot, totalBytes, sent, worker, expired, verdict>>

Index == 1..PoolFiles
Nothing == "none"
PoolErrors == {"time_budget", "read", "import_too_large"}
ErrorOrNone == PoolErrors \cup {Nothing}
Outcomes == Bytes \cup {Skip, Fail}
WorkerPcs == {"check", "claim", "deadline", "process", "send", "raise", "record", "done"}
Verdicts == ErrorOrNone \cup {"ok", "lost"}

PoolTypeOK ==
  /\ sampled \in [Index -> Outcomes]
  /\ nextIndex \in Nat \ {0} /\ errorFlag \in BOOLEAN /\ totalBytes \in Nat
  /\ errorSlot \in ErrorOrNone
  /\ sent \in [Index -> BOOLEAN] /\ expired \in BOOLEAN
  /\ worker \in [Workers -> [pc : WorkerPcs, idx : Nat, error : ErrorOrNone]]
  /\ verdict \in Verdicts

PoolInit ==
  /\ sampled \in [Index -> Outcomes]
  /\ nextIndex = 1 /\ errorFlag = FALSE /\ errorSlot = Nothing /\ totalBytes = 0
  /\ sent = [i \in Index |-> FALSE]
  /\ worker = [w \in Workers |-> [pc |-> "check", idx |-> 0, error |-> Nothing]]
  /\ expired = FALSE /\ verdict = Nothing

Is(w, pc) == worker[w].pc = pc
Move(w, pc) == worker' = [worker EXCEPT ![w].pc = pc]
Aborts(w, error) == worker' = [worker EXCEPT ![w].pc = "raise", ![w].error = error]

\* The loop's condition: a raised flag ends the worker.
CheckFlag(w) ==
  /\ Is(w, "check")
  /\ Move(w, IF errorFlag THEN "done" ELSE "claim")
  /\ UNCHANGED <<sampled, nextIndex, errorFlag, errorSlot, totalBytes, sent, expired, verdict>>

\* fetch_add on next_index; past the last file the worker returns.
ClaimIndex(w) ==
  /\ Is(w, "claim")
  /\ nextIndex' = nextIndex + 1
  /\ worker' = [worker EXCEPT ![w].idx = nextIndex,
                              ![w].pc = IF nextIndex <= PoolFiles THEN "deadline" ELSE "done"]
  /\ UNCHANGED <<sampled, errorFlag, errorSlot, totalBytes, sent, expired, verdict>>

CheckDeadline(w) ==
  /\ Is(w, "deadline")
  /\ IF expired THEN Aborts(w, "time_budget") ELSE Move(w, "process")
  /\ UNCHANGED <<sampled, nextIndex, errorFlag, errorSlot, totalBytes, sent, expired, verdict>>

\* Wrong variant: the ceiling is compared with the total before the file.
TotalFits(bytes) == totalBytes <= ImportLimit

\* claim_bytes: one fetch_update, which leaves the total alone when it fails.
ClaimFits(bytes) == totalBytes + bytes <= ImportLimit

ProcessFile(w) ==
  LET outcome == sampled[worker[w].idx] IN
  /\ Is(w, "process")
  /\ \/ outcome = Skip /\ Move(w, "send") /\ UNCHANGED totalBytes
     \/ outcome = Fail /\ Aborts(w, "read") /\ UNCHANGED totalBytes
     \/ /\ outcome \in Bytes /\ ClaimFits(outcome)
        /\ totalBytes' = totalBytes + outcome /\ Move(w, "send")
     \/ /\ outcome \in Bytes /\ ~ClaimFits(outcome)
        /\ Aborts(w, "import_too_large") /\ UNCHANGED totalBytes
  /\ UNCHANGED <<sampled, nextIndex, errorFlag, errorSlot, sent, expired, verdict>>

\* The receiver outlives the workers, so a send is delivered.
SendOutcome(w) ==
  /\ Is(w, "send")
  /\ sent' = [sent EXCEPT ![worker[w].idx] = TRUE]
  /\ Move(w, "check")
  /\ UNCHANGED <<sampled, nextIndex, errorFlag, errorSlot, totalBytes, expired, verdict>>

\* abort: the flag, then the slot, which the first error keeps.
RaiseFlag(w) ==
  /\ Is(w, "raise")
  /\ errorFlag' = TRUE /\ Move(w, "record")
  /\ UNCHANGED <<sampled, nextIndex, errorSlot, totalBytes, sent, expired, verdict>>
RecordError(w) ==
  /\ Is(w, "record")
  /\ errorSlot' = IF errorSlot = Nothing THEN worker[w].error ELSE errorSlot
  /\ Move(w, "done")
  /\ UNCHANGED <<sampled, nextIndex, errorFlag, totalBytes, sent, expired, verdict>>

\* collect, once every worker has been joined: the recorded error, or the
\* outcomes in order; a file without one is reported as lost.
Collect ==
  /\ verdict = Nothing /\ \A w \in Workers : Is(w, "done")
  /\ verdict' = IF errorSlot # Nothing THEN errorSlot
                ELSE IF \A i \in Index : sent[i] THEN "ok" ELSE "lost"
  /\ UNCHANGED <<sampled, nextIndex, errorFlag, errorSlot, totalBytes, sent, worker, expired>>

DeadlinePasses ==
  /\ ~expired /\ expired' = TRUE
  /\ UNCHANGED <<sampled, nextIndex, errorFlag, errorSlot, totalBytes, sent, worker, verdict>>

PoolNext ==
  \/ \E w \in Workers :
       \/ CheckFlag(w) \/ ClaimIndex(w) \/ CheckDeadline(w) \/ ProcessFile(w)
       \/ SendOutcome(w) \/ RaiseFlag(w) \/ RecordError(w)
  \/ Collect \/ DeadlinePasses

PoolSpec == PoolInit /\ [][PoolNext]_poolVars

-----------------------------------------------------------------------------
\* No outcome is lost: a run that recorded no error has one for every file,
\* whatever the workers did in between (SamplingResultLost is unreachable).
NoOutcomeLost == verdict # "lost"

CountedBytes(i) == IF sampled[i] \in Bytes THEN sampled[i] ELSE 0
ImportBytes == MapThenSumSet(CountedBytes, Index)

\* What a pass says of the import ceiling does not depend on the order the
\* workers claimed bytes in: a successful import fits, counts every file once
\* and lost none, and a pass refused as too large really is (claim_bytes).
ImportVerdict ==
  /\ NoOutcomeLost
  /\ verdict = "ok" => ImportBytes <= ImportLimit /\ totalBytes = ImportBytes
  /\ verdict = "import_too_large" => ImportBytes > ImportLimit

=============================================================================
