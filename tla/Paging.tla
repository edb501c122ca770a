-------------------------------- MODULE Paging --------------------------------
(***************************************************************************)
(* How a stored result is cut into pages (src/src/tools/paginate.rs and    *)
(* the paged tools query, leads, structure, finding_read, mechanic list).  *)
(*                                                                         *)
(* A first call stores every row and serves the first page; a continuation *)
(* names the result and a row to go on from, may ask for another page size *)
(* (not finding_read) or row limit (leads), and meets whatever the process *)
(* has become meanwhile: the result reclaimed, the process restarted, the  *)
(* index moved on, the limits configured anew.  A call is one step; its    *)
(* interleaving with writers, readers and syncs is modelled in ResultStore *)
(* and Publish.                                                            *)
(*                                                                         *)
(* Sizes are lengths of serialized JSON.  A row has a fixed part and cells *)
(* of text whose characters take one byte; a finding's one cell is its     *)
(* description.  Saturating additions never saturate at these sizes.       *)
(***************************************************************************)
EXTENDS Integers, Sequences, FiniteSets, SequencesExt

CONSTANTS
  RowKinds,    \* rows: [cells |-> lengths of the text cells, file |-> the file]
  Base,        \* length of a row whose cells are empty
  PageSizes,   \* what a caller may ask for as page_bytes
  DefaultSize, \* default_page_bytes
  Ceilings,    \* max_query_response_bytes, as configured at one time or another
  MatchCap,    \* max_structure_matches
  Limits,      \* what a leads caller may ask for as limit
  MaxPageRows, MaxMoves  \* bounds: rows of a result, moves of the index or process

ASSUME PagingAssumption ==
  /\ Base \in Nat \ {0} /\ DefaultSize \in Nat \ {0} /\ MatchCap \in Nat \ {0}
  /\ PageSizes \subseteq Nat /\ Limits \subseteq Nat /\ Ceilings \subseteq Nat \ {0}
  /\ \A row \in RowKinds : row.cells \in Seq(Nat)
  /\ MaxPageRows \in Nat /\ MaxMoves \in Nat

VARIABLES
  stored,   \* the result a client reads
  kept,     \* the store still has it
  cursors,  \* the rows at which the client was given a cursor
  process,  \* restarts of the server so far
  ceiling,  \* the configured ceiling
  index,    \* the index revision
  page      \* the last response

pagingVars == <<stored, kept, cursors, process, ceiling, index, page>>

Tools == {"query", "leads", "structure", "finding_read", "mechanic"}
Unset == -1  \* an omitted page_bytes or limit
NoCap == MaxPageRows + 1
Nothing == [tool |-> "none"]
Refused(code) == [kind |-> code]

PagingTypeOK ==
  /\ stored # Nothing => /\ stored.tool \in Tools /\ Len(stored.rows) <= MaxPageRows
                         /\ stored.bytes \in 1..stored.ceiling
                         /\ stored.cap \in 1..NoCap
  /\ kept \in BOOLEAN /\ cursors \subseteq 1..MaxPageRows
  /\ ceiling \in Ceilings /\ index \in 0..MaxMoves /\ process \in 0..MaxMoves
  /\ page.kind \in {"none", "page", "invalid", "unknown", "expired"}

PagingInit ==
  /\ stored = Nothing /\ kept = FALSE /\ cursors = {}
  /\ process = 0 /\ index = 0
  /\ ceiling \in Ceilings
  /\ page = Refused("none")

-----------------------------------------------------------------------------
(* Page sizes (page_size.rs).                                               *)

SmallerOf(a, b) == IF a <= b THEN a ELSE b
LargerOf(a, b) == IF a >= b THEN a ELSE b

\* Wrong variant: what the caller asks for is what it gets.
Unclamped(wanted) == IF wanted = Unset THEN DefaultSize ELSE wanted
\* resolve: a first call's page size.
Resolved(wanted) == SmallerOf(IF wanted = Unset THEN DefaultSize ELSE wanted, ceiling)

\* A continuation's: its own, else that of the first call, never above the
\* ceiling in force then.
ContinuedSize(res, wanted) ==
  IF wanted = Unset THEN res.bytes ELSE SmallerOf(wanted, res.ceiling)

AtCeiling(res, bytes) == bytes >= res.ceiling
ByteCut(res, bytes) == IF AtCeiling(res, bytes) THEN "ceiling" ELSE "page_bytes"

-----------------------------------------------------------------------------
(* Lengths, and clipping a first row that is larger than the page.          *)

Total(cells) == SumFunction(cells)

\* "detail_clipped" is true in a clipped finding: a byte less than false.
FindingLength(description, clipped) == Base + description + IF clipped THEN 0 ELSE 1
Length(tool, row) ==
  IF tool = "finding_read" THEN FindingLength(Total(row.cells), FALSE)
  ELSE Base + Total(row.cells)

\* share_room: from the shortest cell on, an equal part of what is left, or
\* what the cell needs.
Grant(cost, room, count) == SmallerOf(cost, room \div count)

\* The cell of s that is served after the others of s.
LongestOf(cells, s) ==
  CHOOSE i \in s : \A j \in s : cells[j] < cells[i] \/ (cells[j] = cells[i] /\ j <= i)

GrantTo(cells, i, share) ==
  LET grant == Grant(cells[i], share.room, share.left)
  IN [room |-> share.room - grant, left |-> share.left - 1,
      grants |-> [share.grants EXCEPT ![i] = grant]]

ShareRoom(cells, room) ==
  MapThenFoldSet(LAMBDA i, share : GrantTo(cells, i, share),
                 [room |-> room, left |-> Len(cells), grants |-> [i \in DOMAIN cells |-> 0]],
                 LAMBDA i : i, LAMBDA s : LongestOf(cells, s), DOMAIN cells).grants

\* clip_value keeps one character at least, so a continuation makes progress.
ClipValue(cost, grant) == LargerOf(grant, SmallerOf(cost, 1))

\* clip_row: all but the cells' text stays.
ClippedCells(cells, bytes) ==
  LET grants == ShareRoom(cells, LargerOf(bytes - Base, 0))
  IN [i \in DOMAIN cells |-> ClipValue(cells[i], grants[i])]

\* clip_description: the longest prefix that fits; the whole text when that is
\* all of it, or when not even an empty one fits.
ClippedDescription(description, bytes) ==
  LET low == CHOOSE n \in 0..description :
               /\ n = 0 \/ FindingLength(n, TRUE) <= bytes
               /\ \A m \in n + 1 .. description : FindingLength(m, TRUE) > bytes
      restored == low = description \/ (low = 0 /\ FindingLength(0, TRUE) > bytes)
  IN IF restored THEN FindingLength(description, FALSE) ELSE FindingLength(low, TRUE)

\* What the first row of a page takes in the response ...
FirstReturned(tool, row, bytes) ==
  IF Length(tool, row) <= bytes THEN Length(tool, row)
  ELSE CASE tool = "query" -> Base + Total(ClippedCells(row.cells, bytes))
         [] tool = "finding_read" -> ClippedDescription(Total(row.cells), bytes)
         [] OTHER -> Length(tool, row)
\* ... and what it is counted as when the next one is weighed.
FirstCounted(tool, row, bytes) ==
  IF tool = "query" THEN FirstReturned(tool, row, bytes) ELSE Length(tool, row)

-----------------------------------------------------------------------------
(* One page (read_page with each tool's accept, and its response).          *)

\* The rows from the k-th on count as long as they are.
Rest(res, from, k) ==
  Total([j \in 1..k - 1 |-> Length(res.tool, res.rows[from + 1 + j])])

\* Wrong variant: a first row larger than the page is refused.
FitsAlways(res, from, k, bytes, cap) ==
  k <= cap /\ FirstCounted(res.tool, res.rows[from + 1], bytes) + Rest(res, from, k) <= bytes
\* accept: the first row is always taken.
Fits(res, from, k, bytes, cap) ==
  \/ k = 1
  \/ /\ k <= cap
     /\ FirstCounted(res.tool, res.rows[from + 1], bytes) + Rest(res, from, k) <= bytes

Taken(res, from, bytes, cap) ==
  LET left == Len(res.rows) - from
      refused == {k \in 1..left : ~Fits(res, from, k, bytes, cap)}
  IN IF refused = {} THEN left ELSE Min(refused) - 1

\* A leads continuation may bring its own limit, at least 1.
CapOf(res, limit) ==
  IF res.tool = "leads" /\ limit # Unset THEN LargerOf(limit, 1) ELSE res.cap

\* Why the row after those taken was refused.
CutBy(res, from, taken, bytes, cap) ==
  IF taken < cap THEN ByteCut(res, bytes)
  ELSE IF res.tool = "structure" THEN "match_cap" ELSE "limit"

\* Distinct files among the first n rows, counted as they were stored.
FilesSeen(res, n) == Cardinality({res.rows[i].file : i \in 1..n})

RevisionOf(res) == res.revision

Served(res, from, taken, bytes, cap, more) ==
  [kind |-> "page", from |-> from, taken |-> taken, cap |-> cap, bytes |-> bytes,
   cursor |-> IF more THEN from + taken ELSE 0,
   used |-> IF taken = 0 THEN 0
            ELSE FirstReturned(res.tool, res.rows[from + 1], bytes) + Rest(res, from, taken),
   limited |-> IF more THEN CutBy(res, from, taken, bytes, cap) ELSE res.partial,
   complete |-> ~more /\ res.partial = "none",
   covered |-> FilesSeen(res, IF more THEN from + taken ELSE Len(res.rows)),
   revision |-> RevisionOf(res)]

Respond(res, from, taken, bytes, cap) ==
  /\ page' = Served(res, from, taken, bytes, cap, from + taken < Len(res.rows))
  /\ cursors' = cursors \cup ({page'.cursor} \ {0})

\* A first call: the rows are stored with the page size, ceiling, cap and
\* revision of this moment.
FirstCall(tool, rows, wanted, cap, partial) ==
  LET res == [tool |-> tool, rows |-> rows, bytes |-> Resolved(wanted),
              ceiling |-> ceiling, revision |-> index, partial |-> partial,
              process |-> process, cap |-> cap]
  IN /\ stored' = res /\ kept' = TRUE
     /\ Respond(res, 0, Taken(res, 0, res.bytes, cap), res.bytes, cap)

\* continue_page refuses a cursor of another process, of a result that is gone,
\* or of another tool, in that order and whatever else the call says.
RefuseCursor(tool) ==
  /\ cursors # {}
  /\ \/ stored.process # process /\ page' = Refused("unknown")
     \/ stored.process = process /\ ~kept /\ page' = Refused("expired")
     \/ stored.process = process /\ kept /\ stored.tool # tool /\ page' = Refused("unknown")
  /\ UNCHANGED <<stored, kept, cursors, process, ceiling, index>>

Continuation(ord, wanted, limit) ==
  /\ UNCHANGED <<stored, kept>>
  /\ \E bytes \in {ContinuedSize(stored, wanted)}, cap \in {CapOf(stored, limit)} :
       Respond(stored, ord, Taken(stored, ord, bytes, cap), bytes, cap)

\* A call that gives a cursor is a continuation, another one a first call.
Call(tool, wanted, limit, cap, partial) ==
  /\ \/ wanted = 0 /\ page' = Refused("invalid") /\ UNCHANGED <<stored, kept, cursors>>
     \/ /\ wanted # 0 /\ stored = Nothing
        /\ \E rows \in BoundedSeq(RowKinds, MaxPageRows) : FirstCall(tool, rows, wanted, cap, partial)
     \/ /\ wanted # 0 /\ kept /\ stored.process = process /\ stored.tool = tool
        /\ \E ord \in cursors : Continuation(ord, wanted, limit)
  /\ UNCHANGED <<process, ceiling, index>>

QueryPage == \E wanted \in PageSizes \cup {Unset} : Call("query", wanted, Unset, NoCap, "none")

\* leads: a limit is at least one row, and stored for the continuations.
LeadsPage ==
  \E wanted \in PageSizes \cup {Unset}, limit \in Limits \cup {Unset} :
    Call("leads", wanted, limit, IF limit = Unset THEN NoCap ELSE LargerOf(limit, 1), "none")

\* structure: the match cap of the first call goes with the result, and its
\* pages tell what cut the scan short.
StructurePage ==
  \E wanted \in PageSizes \cup {Unset}, partial \in {"none", "scan_window", "time_budget"} :
    Call("structure", wanted, Unset, MatchCap, partial)

\* finding_read: no page size of the caller's, ever.
FindingReadPage == Call("finding_read", Unset, Unset, NoCap, "none")

MechanicListPage ==
  \E wanted \in PageSizes \cup {Unset} : Call("mechanic", wanted, Unset, NoCap, "none")

\* The store gives the result up for another one.
ReclaimIt ==
  /\ kept /\ kept' = FALSE
  /\ UNCHANGED <<stored, cursors, process, ceiling, index, page>>

\* A restart forgets every result; the index and the limits move on their own.
RestartServer ==
  /\ process < MaxMoves /\ stored # Nothing
  /\ process' = process + 1 /\ kept' = FALSE
  /\ UNCHANGED <<stored, cursors, ceiling, index, page>>

MoveIndex ==
  /\ index < MaxMoves /\ stored # Nothing
  /\ index' = index + 1
  /\ UNCHANGED <<stored, kept, cursors, process, ceiling, page>>

Reconfigure(c) ==
  /\ ceiling' = c
  /\ UNCHANGED <<stored, kept, cursors, process, index, page>>

PagingNext ==
  \/ \E tool \in Tools : RefuseCursor(tool)
  \/ QueryPage
  \/ LeadsPage
  \/ StructurePage
  \/ FindingReadPage
  \/ MechanicListPage
  \/ ReclaimIt
  \/ RestartServer
  \/ MoveIndex
  \/ \E c \in Ceilings : Reconfigure(c)

PagingSpec == PagingInit /\ [][PagingNext]_pagingVars

-----------------------------------------------------------------------------
(* Properties.                                                              *)

IsPage == page.kind = "page"
First == stored.rows[page.from + 1]

\* A page that says ceiling or match_cap is as long as any page_bytes makes it.
CutIsFinal ==
  page.limited \in {"ceiling", "match_cap"} =>
    \A wanted \in PageSizes \ {0} :
      Taken(stored, page.from, ContinuedSize(stored, wanted), page.cap) <= page.taken

\* A clipped cell has at most one character less than any other kept one, and
\* no room is left over (share_room).
ClipIsFair ==
  stored.tool = "query" /\ page.taken > 0 /\ Length("query", First) > page.bytes =>
    LET cells == ClippedCells(First.cells, page.bytes)
    IN /\ Base + Total(cells) >= page.bytes
       /\ \A i, j \in DOMAIN cells : cells[i] < First.cells[i] => cells[j] <= cells[i] + 1

\* A page with a cursor holds at least one row, so following cursors reaches
\* the end of a result whatever its rows' sizes; it is larger than page_bytes
\* only for the sake of one row (one that leads and structure return whole, a
\* query row of which one character per cell is left, or a finding); and
\* page_bytes stays under the ceiling in force when the result was made.  When
\* it says ceiling or match_cap, no page_bytes would have given more rows
\* (page_size.rs: "raising page_bytes would return nothing more"), and a query
\* row that had to be clipped was clipped fairly.  Every page names the revision
\* the rows were read at, however the index moved since.
PagesAreSound ==
  IsPage =>
    /\ CutIsFinal /\ ClipIsFair
    /\ page.cursor # 0 => page.taken > 0
    /\ page.used > page.bytes =>
         /\ page.taken = 1
         /\ stored.tool = "query" => \A i \in DOMAIN First.cells :
                                       ClippedCells(First.cells, page.bytes)[i] <= 1
    /\ page.bytes <= stored.ceiling
    /\ page.revision = stored.revision

-----------------------------------------------------------------------------
(* The inductive invariant behind them.                                     *)

StoredFits ==
  /\ stored.tool \in Tools /\ stored.rows \in BoundedSeq(RowKinds, MaxPageRows)
  /\ stored.ceiling \in Ceilings /\ stored.bytes \in 1..stored.ceiling /\ stored.cap \in Nat \ {0}
  /\ stored.partial \in {"none", "scan_window", "time_budget"}
  /\ cursors \subseteq 0..Len(stored.rows)

\* A page is what the stored rows give from its first row on, for its size and cap.
PageFits ==
  LET taken == Taken(stored, page.from, page.bytes, page.cap)
  IN /\ page.from \in 0..Len(stored.rows) /\ page.bytes \in 1..stored.ceiling
     /\ page.cap \in Nat \ {0}
     /\ page = Served(stored, page.from, taken, page.bytes, page.cap,
                      page.from + taken < Len(stored.rows))

PagingInv ==
  /\ ceiling \in Ceilings
  /\ stored = Nothing => ~kept /\ cursors = {} /\ ~IsPage
  /\ stored # Nothing => StoredFits
  /\ IsPage => PageFits
=============================================================================
