----------------------------- MODULE StructureScan -----------------------------
(***************************************************************************)
(* The multi-file scan of the structure tool (src/src/tools/               *)
(* structure_source.rs, structure_exec.rs, structure_page.rs): a request   *)
(* loads a window of the language's files, parses them until its time is   *)
(* over, and says where a new request goes on.                             *)
(*                                                                         *)
(* A chain is a first request and the ones that resume it with             *)
(* start_after_file; each reads one revision, and the tree may change      *)
(* between them.  Paths are numbered in their order.  Captures, matches    *)
(* and the compilation of queries are left out; how matches are paged is   *)
(* Paging's.                                                               *)
(***************************************************************************)
EXTENDS Integers, Sequences, FiniteSets, SequencesExt

CONSTANTS
  LastPath,     \* paths are 1..LastPath
  FileSizes,    \* bytes of content a file may have
  ParseLimits,  \* values max_parse_bytes may have
  WindowBytes,  \* MAX_MULTI_FILE_TOTAL_BYTES
  MaxTreeMoves  \* bound: edits between requests

ASSUME ScanAssumption ==
  /\ LastPath \in Nat /\ FileSizes \subseteq Nat \ {0} /\ ParseLimits \subseteq Nat
  /\ WindowBytes \in Nat /\ MaxTreeMoves \in Nat

VARIABLES
  sizes,     \* per path: bytes of its indexed content, 0 when there is no such file
  chain,     \* where the chain is, and what its answers said of each file
  untouched, \* files no edit touched since the chain began
  treeMoves  \* counter of the bound

scanVars == <<sizes, chain, untouched, treeMoves>>

ScanPaths == 1..LastPath
NoChain == [open |-> FALSE, start |-> 0, loaded |-> 0, parsed |-> {}, twice |-> {},
            over |-> {}, timedOut |-> {}]

StructureTypeOK ==
  /\ sizes \in [ScanPaths -> FileSizes \cup {0}]
  /\ chain.open \in BOOLEAN /\ chain.start \in 0..LastPath
  /\ chain.loaded \in 0..WindowBytes
  /\ untouched \subseteq ScanPaths
  /\ treeMoves \in 0..MaxTreeMoves

StructureInit ==
  /\ sizes = [f \in ScanPaths |-> 0]
  /\ chain = NoChain /\ untouched = {} /\ treeMoves = 0

-----------------------------------------------------------------------------
(* One window (fetch_sources_for_language).                                 *)

\* file_filter, in path order.
Matching(start) == {f \in ScanPaths : sizes[f] > 0 /\ f > start}

PerFileLimit(limit) == Min({limit, WindowBytes})

\* A file over the limit is counted and passed.
PassOverLarge(window, f) == [window EXCEPT !.over = @ \cup {f}, !.last = f]

\* Wrong variant: the first file that no longer fits counts as examined.
CutAfter(window, f) == [window EXCEPT !.full = TRUE, !.last = f]
CutBefore(window, f) == [window EXCEPT !.full = TRUE]

FitsWindow(window, f) == window.bytes + sizes[f] <= WindowBytes

Examine(window, f, limit) ==
  IF window.full THEN window
  ELSE IF sizes[f] > PerFileLimit(limit) THEN PassOverLarge(window, f)
  ELSE IF ~FitsWindow(window, f) THEN CutBefore(window, f)
  ELSE [window EXCEPT !.files = Append(@, f), !.bytes = @ + sizes[f], !.last = f]

EmptyWindow(start) == [files |-> <<>>, bytes |-> 0, over |-> {}, last |-> start, full |-> FALSE]
\* Only the rows of the filter are met, in the order of their paths.
ExamineMatching(window, f, start, limit) ==
  IF f \in Matching(start) THEN Examine(window, f, limit) ELSE window

SourceWindow(start, limit) ==
  FoldLeft(LAMBDA window, f : ExamineMatching(window, f, start, limit),
           EmptyWindow(start), [f \in ScanPaths |-> f])

\* The files past the window are counted by a query of their own.
NotScanned(window) == IF window.full THEN Matching(window.last) ELSE {}

-----------------------------------------------------------------------------
(* One request (run_query, completeness_of, extra_of).                      *)

\* A parse that timed out is named, and the next request skips it.
ResumeAt(window, parsed) == window.files[parsed + 1]

\* What a request adds to the chain, and whether it says that more is left.  A
\* file that yields no tree is named, and counts as parsed.
Answered(window, parsed, timedOut, next) ==
  LET scanned == {window.files[i] : i \in 1..parsed}
  IN chain' = [open |-> next # 0, start |-> next, loaded |-> window.bytes,
               parsed |-> chain.parsed \cup scanned,
               twice |-> chain.twice \cup (chain.parsed \cap scanned),
               over |-> chain.over \cup window.over,
               timedOut |-> chain.timedOut \cup timedOut]

\* ensure_indexed_language: there is a file to scan.
Indexed == Matching(0) # {}

\* Every file of the window is parsed.
ScanWindow(limit) ==
  LET window == SourceWindow(chain.start, limit)
  IN /\ chain.open /\ Indexed
     /\ Answered(window, Len(window.files), {},
                 IF NotScanned(window) = {} THEN 0 ELSE window.last)
     /\ UNCHANGED <<sizes, untouched, treeMoves>>

\* The time is over while a file is parsed: the rest of the window stays.
TimeOut(limit) ==
  LET window == SourceWindow(chain.start, limit)
  IN /\ chain.open /\ Indexed
     /\ \E parsed \in 0..Len(window.files) - 1 :
          Answered(window, parsed, {window.files[parsed + 1]}, ResumeAt(window, parsed))
     /\ UNCHANGED <<sizes, untouched, treeMoves>>

\* The time is over between two files or while matches are collected, or the
\* language is indexed no more: the request is refused, and the caller stops.
Refuse(limit) ==
  /\ chain.open /\ (Indexed => SourceWindow(chain.start, limit).files # <<>>)
  /\ chain' = NoChain
  /\ UNCHANGED <<sizes, untouched, treeMoves>>

BeginChain ==
  /\ ~chain.open
  /\ chain' = [NoChain EXCEPT !.open = TRUE]
  /\ untouched' = ScanPaths
  /\ UNCHANGED <<sizes, treeMoves>>

\* A file appears, changes its size or goes.
EditTree(f, size) ==
  /\ treeMoves < MaxTreeMoves /\ sizes[f] # size
  /\ sizes' = [sizes EXCEPT ![f] = size]
  /\ untouched' = untouched \ {f}
  /\ treeMoves' = treeMoves + 1
  /\ UNCHANGED chain

StructureNext ==
  \/ BeginChain
  \/ \E limit \in ParseLimits : ScanWindow(limit) \/ TimeOut(limit) \/ Refuse(limit)
  \/ \E f \in ScanPaths, size \in FileSizes \cup {0} : EditTree(f, size)

StructureSpec == StructureInit /\ [][StructureNext]_scanVars

-----------------------------------------------------------------------------
(* Properties.                                                              *)

\* Every resume point lies further on than the files parsed before it.
ParsedOnce ==
  /\ chain.twice = {} /\ chain.parsed \cap chain.timedOut = {}
  /\ chain.open => \A f \in chain.parsed \cup chain.timedOut : f <= chain.start

\* When a chain says that nothing is left, its answers have accounted for each
\* file that was there all along: parsed, without a tree, over the limit, or
\* named as the one whose parse ran out of time (structure.rs, the fields of
\* StructureResponse).  None is parsed by two requests of a chain, also when
\* files appear, grow and go between them, and the one whose parse ran out of
\* time is not tried again.
NoFileMissed ==
  /\ ParsedOnce
  /\ ~chain.open /\ chain # NoChain =>
       \A f \in untouched : sizes[f] > 0 => f \in chain.parsed \cup chain.over \cup chain.timedOut

-----------------------------------------------------------------------------
(* The inductive invariant behind it.                                       *)

ChainShape ==
  /\ sizes \in [ScanPaths -> FileSizes \cup {0}]
  /\ untouched \subseteq ScanPaths /\ treeMoves \in 0..MaxTreeMoves
  /\ chain \in [open : BOOLEAN, start : 0..LastPath, loaded : 0..WindowBytes,
                parsed : SUBSET ScanPaths, twice : SUBSET ScanPaths, over : SUBSET ScanPaths,
                timedOut : SUBSET ScanPaths]

Accounted == chain.parsed \cup chain.over \cup chain.timedOut

\* An open chain has accounted for what lies before its resume point.
ChainInv ==
  /\ ChainShape /\ NoFileMissed
  /\ chain.open => \A f \in untouched : sizes[f] > 0 /\ f <= chain.start => f \in Accounted
================================================================================
