------------------------------- MODULE Reports -------------------------------
(* What `report` and `leads` tell of the rows that the analysis stored: how  *)
(* many files there are of each kind and completeness, what the mechanics    *)
(* count and over which languages, and how much of it is only a floor.  Both *)
(* read one snapshot of the files table, so each answer is a function of its *)
(* rows.                                                                     *)
EXTENDS Analysis

CONSTANTS
  LargeFilesAre,  \* the language of the files over max_parse_bytes
  CallLanguages   \* languages whose calls are extracted

NoLanguage == "null"
StoredLanguage(f) ==
  CASE SourceFiles[f] \in {"none", "binary"} -> NoLanguage
    [] SourceFiles[f] = "large" -> LargeFilesAre
    [] OTHER -> SourceFiles[f]
\* A file is withheld only once a grammar was chosen for it: what has no
\* language of the pack is answered before its size is looked at (analyze).
ASSUME ReportsAssumption ==
  /\ IsFiniteSet(Names) /\ LargeFilesAre \notin NoGrammar \cup {NoLanguage}
  /\ NoLanguage \notin Languages
KindOf == [f \in Names |-> IF SourceFiles[f] = "binary" THEN "binary" ELSE "indexed"]

StoredFiles == {f \in Names : rows[f] # NoRow}
IndexedFiles == {f \in StoredFiles : KindOf[f] = "indexed"}

-----------------------------------------------------------------------------
(* The predicates the two tools share.                                      *)

\* Wrong variant: only a grammar that failed to load is a failure.
OnlyLoadFailures(f) ==
  /\ f \in IndexedFiles /\ StoredLanguage(f) # "prose"
  /\ rows[f].available = "LoadFailed" \/ rows[f].outcome = "Failed"
\* PARSER_FAILURE_PREDICATE
ParserFailure(f) ==
  /\ f \in IndexedFiles /\ StoredLanguage(f) # "prose"
  /\ rows[f].available # "Available" \/ rows[f].outcome = "Failed"

\* files_not_parsed: those with a language, which some grammar could have read.
FilesNotParsed == {f \in StoredFiles : ParserFailure(f) /\ StoredLanguage(f) # NoLanguage}

\* PARSED_FILES
ParsedFiles ==
  {f \in IndexedFiles : StoredLanguage(f) # NoLanguage /\ rows[f].outcome \in {"Succeeded", "SyntaxErrors"}}

-----------------------------------------------------------------------------
(* The counts of `leads`.                                                   *)

LeadMechanics == {"calls", "diagnostics", "credential_files"}

\* The rows a mechanic counts in one file; the marker of a cap is a Diagnostic.
RowsIn(mechanic, f) ==
  CASE mechanic = "calls" ->
         IF StoredLanguage(f) \in CallLanguages
         THEN Cardinality(DOMAIN rows[f].kept \ Diagnostics(rows[f].kept)) ELSE 0
    [] mechanic = "diagnostics" ->
         Cardinality(Diagnostics(rows[f].kept)) + (IF rows[f].marker THEN 1 ELSE 0)
    [] mechanic = "credential_files" -> 0

\* LanguagesRead, covers
LanguagesOf(files) == {StoredLanguage(f) : f \in files} \ {NoLanguage}
Covers(mechanic) ==
  CASE mechanic = "calls" -> LanguagesOf(ParsedFiles) \cap CallLanguages
    [] mechanic = "diagnostics" -> LanguagesOf(ParsedFiles)
    [] mechanic = "credential_files" -> LanguagesOf(StoredFiles)

\* count_all
CountOf(mechanic, files) == SumFunctionOnSet([f \in files |-> RowsIn(mechanic, f)], files)
MechanicCount(mechanic) ==
  [count |-> CountOf(mechanic, StoredFiles),
   files |-> Cardinality({f \in StoredFiles : RowsIn(mechanic, f) > 0}),
   covers |-> Covers(mechanic)]

-----------------------------------------------------------------------------
(* The completeness of `report`.                                            *)

GroupedBy(column, value) == Cardinality({f \in StoredFiles : column[f] = value})
Completeness == [f \in Names |-> rows[f].completeness]
HasEvidence(f) == rows[f].kept # <<>> \/ rows[f].marker
Cut(f) == rows[f].outcome = "Failed" /\ rows[f].of.timed_out

\* CompletenessEnvelope
Envelope ==
  [file_kind |-> [k \in {"indexed", "binary"} |-> GroupedBy(KindOf, k)],
   extraction_completeness |->
     [c \in {"Full", "Partial", "ContentOnly", "Unavailable"} |-> GroupedBy(Completeness, c)],
   evidence_capped |-> Cardinality({f \in StoredFiles : rows[f].marker}),
   without_evidence |-> Cardinality({f \in IndexedFiles : ~HasEvidence(f)}),
   prose |-> Cardinality({f \in IndexedFiles : StoredLanguage(f) = "prose"}),
   oversize |-> Cardinality({f \in IndexedFiles : rows[f].outcome = "Withheld"}),
   timed_out |-> Cardinality({f \in IndexedFiles : Cut(f)})]

\* parser_failures: the total and the list are of one predicate.
ParserFailures == {f \in StoredFiles : ParserFailure(f)}

-----------------------------------------------------------------------------
\* Nothing an answer leaves out goes untold.  Every file a grammar could read
\* was read to its end or is counted as not parsed, never both; while none is
\* and nothing was capped or stopped early, the counts are all the grammars
\* gave, and otherwise they are a floor (docs/how-it-works.md, LeadsResponse).
\* What the envelope groups adds up to the files there are, and a file without
\* evidence is prose, a failure, or a file in which there was nothing to find.
\* (The rows change with the end of a pass only.)
GapsAreReported ==
  ~pass.on /\ StoredFiles # {} =>
  LET e == Envelope IN
  /\ \A f \in StoredFiles :
       StoredLanguage(f) \notin {NoLanguage, "prose"} =>
         ((f \in ParsedFiles) # (f \in FilesNotParsed))
  /\ FilesNotParsed = {} /\ e.evidence_capped = 0 /\ e.extraction_completeness["Partial"] = 0 =>
       \A f \in StoredFiles : rows[f].kept = rows[f].of.items /\ ~rows[f].of.capped
  /\ \A m \in LeadMechanics :
       LET c == MechanicCount(m) IN
       /\ c.count = CountOf(m, ParsedFiles) + CountOf(m, FilesNotParsed)
       /\ c.files <= Cardinality(StoredFiles) /\ (c.count > 0 <=> c.files > 0)
       /\ c.count > 0 /\ FilesNotParsed = {} => c.covers # {}
  /\ e.file_kind["indexed"] + e.file_kind["binary"] = Cardinality(StoredFiles)
  /\ SumFunctionOnSet(e.extraction_completeness, DOMAIN e.extraction_completeness)
       = Cardinality(StoredFiles)
  /\ e.oversize + e.timed_out <= Cardinality(ParserFailures)
  /\ \A f \in IndexedFiles : ~HasEvidence(f) =>
       \/ StoredLanguage(f) = "prose" \/ f \in ParserFailures
       \/ rows[f].of.items = <<>>
  /\ e.prose <= e.without_evidence

-----------------------------------------------------------------------------
(* The inductive invariant behind it: what each row is a result of.         *)

Analyzed(f, r) ==
  \/ r = NoRow
  \/ /\ SourceFiles[f] \in NoGrammar
     /\ r = Stored(WithoutGrammar(f), NothingFound)
  \/ /\ SourceFiles[f] \notin NoGrammar
     /\ \/ r = LoadFailedResult
        \/ r = Stored(FailedResult, NothingFound)
        \/ \E e \in Extractions : r = Stored(IF e.timed_out THEN TimeoutResult(e) ELSE SucceededResult(e), e)

ReportsInv == AnalysisInv /\ \A f \in Names : Analyzed(f, rows[f]) /\ Analyzed(f, found[f])
==============================================================================
