------------------------------- MODULE Analysis -------------------------------
(***************************************************************************)
(* What one pass of a sync records of a file's grammar                     *)
(* (src/src/sync/analyze.rs, analyze_results.rs), the gate that stops      *)
(* grammar fetches after one failed (src/src/parse/fetch_gate.rs), and the *)
(* caps on the evidence stored with a file (src/src/sync/evidence_limits.rs*)
(* and to_file_record of sample.rs).  The language pack is external: it    *)
(* fetches a grammar that is not on this host and hands back the items.    *)
(*                                                                         *)
(* A pass analyzes its files one after the other; the workers of the model *)
(* do so at the same time, so that the passes of several calls share the   *)
(* gate.  A pass stores what was found all together, or nothing when its   *)
(* deadline is spent.                                                      *)
(***************************************************************************)
EXTENDS Naturals, Sequences, SequencesExt, FiniteSetsExt

CONSTANTS
  AnalysisWorkers,
  SourceFiles,    \* per file: its language, "none", "prose", "foreign" (not in the pack),
                  \* "binary" or "large" (over max_parse_bytes)
  Extractions,    \* what the grammar may give: [items, capped, timed_out]
  BrokenGrammars, \* languages whose grammar is fetched but does not load
  Cooldown,       \* GRAMMAR_FETCH_COOLDOWN, in ticks
  MaxItems, MaxItemBytes, MaxBytes, MarkerBytes   \* ResourceLimits.evidence

\* An item is its size and whether it is a diagnostic.
Facts == [bytes : Nat, diagnostic : BOOLEAN]
ASSUME AnalysisAssumption ==
  /\ Cooldown \in Nat \ {0} /\ MaxItems \in Nat \ {0} /\ MaxItemBytes \in Nat
  /\ MaxBytes \in Nat /\ MarkerBytes \in 0..MaxBytes /\ IsFiniteSet(AnalysisWorkers)
  /\ Extractions \subseteq [items : Seq(Facts), capped : BOOLEAN, timed_out : BOOLEAN]

VARIABLES
  online,   \* the network is there
  onHost,   \* languages whose grammar is on this host
  age,      \* ticks since the last failed fetch of this process, Cooldown if longer or never
  rows,     \* per file: the stored row, NoRow if there is none
  changed,  \* files edited since their row was stored
  todo,     \* files of the running pass nobody took yet
  job,      \* per worker: what it does
  found,    \* the rows of the running pass
  pass,     \* [on, spent, due]: a pass runs, its deadline is spent, it began with the gate open
  burst,    \* observer: fetches failed since the gate was last open
  calm      \* observer: no fetch failed since the pass began

analysisVars == <<online, onHost, age, rows, changed, todo, job, found, pass, burst, calm>>

Names == DOMAIN SourceFiles
NoGrammar == {"none", "prose", "foreign", "binary", "large"}
Languages == {SourceFiles[f] : f \in Names} \ NoGrammar
NothingFound == [items |-> <<>>, capped |-> FALSE, timed_out |-> FALSE]
Row(available, outcome, completeness, kept) ==
  [available |-> available, outcome |-> outcome, completeness |-> completeness,
   kept |-> kept, count |-> 0, marker |-> FALSE, of |-> NothingFound]
NoRow == Row("no_row", "NotAttempted", "Unavailable", <<>>)
NoPass == [on |-> FALSE, spent |-> FALSE, due |-> FALSE]
Idle == [at |-> "idle", file |-> "none"]

-----------------------------------------------------------------------------
\* The caps on evidence.

Diagnostics(items) == {i \in DOMAIN items : items[i].diagnostic}
SizeOf(items) == SumFunctionOnSet([i \in DOMAIN items |-> items[i].bytes], DOMAIN items)
SatSub(a, b) == IF a < b THEN 0 ELSE a - b

\* admit: an item over the cap of one item is dropped, one that does not fit
\* the file's caps ends the file.
Admit(item, budget) ==
  LET full == Len(budget.kept) >= SatSub(MaxItems, 1)
      over == SizeOf(budget.kept) + item.bytes > SatSub(MaxBytes, MarkerBytes)
  IN IF budget.stopped THEN budget
     ELSE IF full THEN [budget EXCEPT !.stopped = TRUE]
     ELSE IF item.bytes > MaxItemBytes THEN [budget EXCEPT !.dropped = TRUE]
     ELSE IF over THEN [budget EXCEPT !.stopped = TRUE]
     ELSE [budget EXCEPT !.kept = Append(@, item)]

Unspent == [kept |-> <<>>, dropped |-> FALSE, stopped |-> FALSE]
\* apply_evidence_limits: what is kept, and the marker of what was discarded.
Limited(items) ==
  LET budget == FoldLeft(LAMBDA b, i : Admit(i, b), Unspent, items)
  IN [kept |-> budget.kept, discarded |-> budget.dropped \/ budget.stopped]

\* Wrong variant: the completeness of the run is kept whatever was discarded.
Trusted(completeness, discarded) == completeness

\* to_file_record: a Full run whose items were cut is Partial.
Downgraded(completeness, discarded) ==
  IF discarded /\ completeness = "Full" THEN "Partial" ELSE completeness

\* The row of an analyzed file.
Stored(row, extraction) ==
  LET limited == Limited(row.kept) IN
  [row EXCEPT !.kept = limited.kept, !.marker = limited.discarded, !.of = extraction,
              !.completeness = Downgraded(@, limited.discarded)]

-----------------------------------------------------------------------------
\* The results of analyze.

WithoutContent == Row("Unavailable", "NotAttempted", "Unavailable", <<>>)
ContentOnly == Row("Unavailable", "NotAttempted", "ContentOnly", <<>>)
WithheldResult == Row("Unavailable", "Withheld", "ContentOnly", <<>>)
LoadFailedResult == Row("LoadFailed", "NotAttempted", "ContentOnly", <<>>)
FailedResult == Row("Available", "Failed", "ContentOnly", <<>>)
TimeoutResult(e) ==
  Row("Available", "Failed", IF e.items = <<>> THEN "ContentOnly" ELSE "Partial", e.items)
SucceededResult(e) ==
  LET errors == Cardinality(Diagnostics(e.items)) IN
  [Row("Available", IF errors > 0 THEN "SyntaxErrors" ELSE "Succeeded",
       IF errors > 0 \/ e.capped THEN "Partial" ELSE "Full", e.items) EXCEPT !.count = errors]

\* The files no grammar is asked for.
WithoutGrammar(f) ==
  CASE SourceFiles[f] = "binary" -> WithoutContent
    [] SourceFiles[f] = "large" -> WithheldResult
    [] OTHER -> ContentOnly

-----------------------------------------------------------------------------
\* The gate.

CoolingDown == age < Cooldown
RetryDue == ~CoolingDown
\* Wrong variant: the gate is not asked.
NeverBlocks(language) == FALSE
BlocksFetch(language) == CoolingDown /\ language \notin onHost

UnchangedHost == UNCHANGED <<online, onHost, age, burst, calm>>
UnchangedPass == UNCHANGED <<rows, changed, pass>>
IsAt(w, step) == job[w].at = step
JobAt(w, step) == job' = [job EXCEPT ![w].at = step]
Report(w, row) ==
  /\ found' = [found EXCEPT ![job[w].file] = row]
  /\ job' = [job EXCEPT ![w] = Idle]

\* Wrong variant: LoadFailed rows are unchanged files like any other.
NoRetries == {}
\* add_load_failed_retries, when load_failed_retry_due.
Retries == {f \in Names : RetryDue /\ rows[f].available = "LoadFailed"}

StartPass ==
  /\ ~pass.on
  /\ pass' = [on |-> TRUE, spent |-> FALSE, due |-> RetryDue]
  /\ todo' = {f \in Names : rows[f] = NoRow} \cup changed \cup Retries
  /\ UNCHANGED <<online, onHost, age, rows, changed, job, found, burst, calm>>

TakeFile(w) ==
  /\ IsAt(w, "idle") /\ pass.on /\ ~pass.spent
  /\ \E f \in todo :
       /\ todo' = todo \ {f}
       /\ IF SourceFiles[f] \in NoGrammar
          THEN /\ found' = [found EXCEPT ![f] = Stored(WithoutGrammar(f), NothingFound)]
               /\ UNCHANGED job
          ELSE /\ job' = [job EXCEPT ![w] = [at |-> "gate", file |-> f]]
               /\ UNCHANGED found
  /\ UnchangedHost /\ UnchangedPass

\* blocks_fetch, then cooldown_result or the pack.
AskGate(w) ==
  /\ IsAt(w, "gate")
  /\ IF BlocksFetch(SourceFiles[job[w].file])
     THEN Report(w, LoadFailedResult)
     ELSE JobAt(w, "load") /\ UNCHANGED found
  /\ UNCHANGED todo /\ UnchangedHost /\ UnchangedPass

\* The pack loads the grammar, fetching it first if it is not on this host.
LoadGrammar(w) ==
  LET language == SourceFiles[job[w].file] IN
  /\ IsAt(w, "load")
  /\ \/ /\ language \in onHost \/ online
        /\ onHost' = onHost \cup {language}
        /\ IF language \in BrokenGrammars
           THEN Report(w, LoadFailedResult)
           ELSE JobAt(w, "parse") /\ UNCHANGED found
     \/ /\ language \notin onHost /\ ~online
        /\ JobAt(w, "fetch_failed") /\ UNCHANGED <<onHost, found>>
  /\ UNCHANGED <<online, age, burst, calm, todo>> /\ UnchangedPass

\* record_fetch_failure, then load_failed_result.
RecordFetchFailure(w) ==
  /\ IsAt(w, "fetch_failed")
  /\ age' = 0 /\ calm' = FALSE
  /\ burst' = IF CoolingDown THEN burst + 1 ELSE 1
  /\ Report(w, LoadFailedResult)
  /\ UNCHANGED <<online, onHost, todo>> /\ UnchangedPass

\* run_extraction: it ends in time, at the file's allowance, at the sync's, or
\* in an error that is no load failure.
Parse(w) ==
  /\ IsAt(w, "parse")
  /\ \/ \E e \in Extractions :
          Report(w, Stored(IF e.timed_out THEN TimeoutResult(e) ELSE SucceededResult(e), e))
     \/ Report(w, Stored(FailedResult, NothingFound))
  /\ UNCHANGED todo /\ UnchangedHost /\ UnchangedPass

\* The sync's deadline is found spent before a file is taken, or in a parse.
SpendDeadline ==
  /\ pass.on /\ ~pass.spent
  /\ todo # {} \/ \E w \in AnalysisWorkers : IsAt(w, "parse")
  /\ pass' = [pass EXCEPT !.spent = TRUE]
  /\ UNCHANGED <<rows, changed, todo, job, found>> /\ UnchangedHost

\* A spent pass stores nothing; its workers stop at their next file.
EndPass ==
  /\ pass.on
  /\ \/ /\ ~pass.spent /\ todo = {} /\ \A w \in AnalysisWorkers : IsAt(w, "idle")
        /\ rows' = [f \in Names |-> IF found[f] = NoRow THEN rows[f] ELSE found[f]]
        /\ changed' = {f \in changed : found[f] = NoRow}
     \/ /\ pass.spent /\ \A w \in AnalysisWorkers : job[w].at \in {"idle", "parse"}
        /\ UNCHANGED <<rows, changed>>
  /\ pass' = NoPass /\ calm' = TRUE
  /\ job' = [w \in AnalysisWorkers |-> Idle] /\ todo' = {} /\ found' = [f \in Names |-> NoRow]
  /\ UNCHANGED <<online, onHost, age, burst>>

-----------------------------------------------------------------------------
\* The world.

EditSource(f) ==
  /\ ~pass.on /\ f \notin changed /\ changed' = changed \cup {f}
  /\ UNCHANGED <<rows, pass, todo, job, found>> /\ UnchangedHost
Network ==
  /\ online' = ~online
  /\ UNCHANGED <<onHost, age, burst, calm, todo, job, found>> /\ UnchangedPass
Tick ==
  /\ CoolingDown /\ age' = age + 1
  /\ burst' = IF age + 1 = Cooldown THEN 0 ELSE burst
  /\ UNCHANGED <<online, onHost, calm, todo, job, found>> /\ UnchangedPass

\* A structure query, a mechanic's scan or the check of a new mechanic asks
\* the pack for its grammar without the gate.  (Offline it is an error of that
\* call, and the gate does not hear of it.)
ToolFetch(language) ==
  /\ online /\ onHost' = onHost \cup {language}
  /\ UNCHANGED <<online, age, burst, calm, todo, job, found>> /\ UnchangedPass

AnalysisInit ==
  /\ online \in BOOLEAN /\ onHost \in SUBSET Languages /\ age = Cooldown
  /\ rows = [f \in Names |-> NoRow] /\ changed = {} /\ todo = {}
  /\ job = [w \in AnalysisWorkers |-> Idle] /\ found = [f \in Names |-> NoRow]
  /\ pass = NoPass /\ burst = 0 /\ calm = TRUE

AnalysisNext ==
  \/ StartPass \/ SpendDeadline \/ EndPass \/ Network \/ Tick
  \/ \E language \in Languages : ToolFetch(language)
  \/ \E f \in Names : EditSource(f)
  \/ \E w \in AnalysisWorkers : \/ TakeFile(w) \/ AskGate(w) \/ LoadGrammar(w)
                                \/ RecordFetchFailure(w) \/ Parse(w)

AnalysisSpec == AnalysisInit /\ [][AnalysisNext]_analysisVars

AnalysisTypeOK ==
  /\ online \in BOOLEAN /\ onHost \subseteq Languages /\ age \in 0..Cooldown
  /\ changed \subseteq Names /\ todo \subseteq Names /\ calm \in BOOLEAN /\ burst \in Nat
  /\ \A w \in AnalysisWorkers :
       job[w].at \in {"idle", "gate", "load", "parse", "fetch_failed"} /\ job[w].file \in Names \cup {"none"}

-----------------------------------------------------------------------------
\* What a row says of its evidence is true after the caps: Full is everything
\* the grammar gave and nothing wrong with it; what was cut says so and still
\* fits the caps with its marker; a row without a grammar has no evidence and
\* no outcome (to_file_record, ParserRun::validate).
Honest(r) ==
  /\ r.completeness = "Full" =>
       r.kept = r.of.items /\ Diagnostics(r.kept) = {} /\ ~r.of.capped /\ ~r.of.timed_out /\ ~r.marker
  /\ r.marker <=> (r.available = "Available" /\ r.outcome # "NotAttempted" /\ r.kept # r.of.items)
  /\ r.completeness \in {"ContentOnly", "Unavailable"} => r.kept = <<>>
  /\ Len(r.kept) + (IF r.marker THEN 1 ELSE 0) <= MaxItems
  /\ SizeOf(r.kept) + (IF r.marker THEN MarkerBytes ELSE 0) <= MaxBytes
  /\ r.available # "Available" => r.outcome \in {"NotAttempted", "Withheld"}
AnalysisIsHonest == \A f \in Names : Honest(rows[f])

\* The passes of an offline host pay for a failed fetch at most once per
\* worker before the gate opens again, however many files and passes there
\* are (fetch_gate.rs).  Of the fetches of ToolFetch it says nothing: each
\* pays by itself.
FetchesAreRationed == burst <= Cardinality(AnalysisWorkers)

\* A grammar that could not be fetched is not lost: a pass that began with the
\* gate open and in which no fetch failed leaves no row LoadFailed but those
\* of grammars that do not load (load_failed_retry_due).
GrammarsReturn ==
  [][pass.on /\ ~pass'.on /\ ~pass.spent /\ pass.due /\ calm =>
       \A f \in Names : rows'[f].available = "LoadFailed" => SourceFiles[f] \in BrokenGrammars]_analysisVars

-----------------------------------------------------------------------------
(* The inductive invariant behind the three.                                *)

RowStates ==
  [available : {"no_row", "Unavailable", "LoadFailed", "Available"},
   outcome : {"NotAttempted", "Withheld", "Failed", "SyntaxErrors", "Succeeded"},
   completeness : {"Full", "Partial", "ContentOnly", "Unavailable"},
   kept : Seq(Facts), count : Nat, marker : BOOLEAN,
   of : [items : Seq(Facts), capped : BOOLEAN, timed_out : BOOLEAN]]
JobStates == [at : {"idle", "gate", "load", "parse", "fetch_failed"}, file : Names \cup {"none"}]

AnalysisShape ==
  /\ online \in BOOLEAN /\ onHost \subseteq Languages /\ age \in 0..Cooldown
  /\ rows \in [Names -> RowStates] /\ found \in [Names -> RowStates]
  /\ changed \subseteq Names /\ todo \subseteq Names /\ job \in [AnalysisWorkers -> JobStates]
  /\ pass \in [on : BOOLEAN, spent : BOOLEAN, due : BOOLEAN] /\ burst \in Nat /\ calm \in BOOLEAN

\* A worker has a file whose grammar it asks for; between passes there is none.
JobHolds(w) == ~IsAt(w, "idle") => job[w].file \in Names /\ SourceFiles[job[w].file] \in Languages
RestHolds ==
  ~pass.on => calm /\ todo = {} /\ (\A w \in AnalysisWorkers : job[w] = Idle) /\ \A f \in Names : found[f] = NoRow

\* While the gate is shut only a worker that passed it before can still pay.
Paying ==
  {w \in AnalysisWorkers : \/ IsAt(w, "fetch_failed")
                           \/ IsAt(w, "load") /\ SourceFiles[job[w].file] \notin onHost}
Rationed == IF CoolingDown THEN burst + Cardinality(Paying) <= Cardinality(AnalysisWorkers) ELSE burst = 0

\* A pass that began with the gate open has every row that failed to load in
\* hand, and as long as no fetch failed it, the gate stays open.
InHand(f) ==
  \/ f \in todo \/ found[f] # NoRow
  \/ \E w \in AnalysisWorkers : ~IsAt(w, "idle") /\ job[w].file = f
RetriesHold ==
  pass.on /\ pass.due =>
    /\ \A f \in Names : rows[f].available = "LoadFailed" => InHand(f)
    /\ calm => ~CoolingDown /\ \A f \in Names :
                  found[f].available = "LoadFailed" => SourceFiles[f] \in BrokenGrammars

AnalysisInv ==
  /\ AnalysisShape /\ RestHolds /\ Rationed /\ RetriesHold
  /\ \A f \in Names : Honest(rows[f]) /\ Honest(found[f])
  /\ \A w \in AnalysisWorkers : JobHolds(w)
================================================================================
