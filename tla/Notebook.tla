------------------------------- MODULE Notebook -------------------------------
(* The tools `finding`, `finding_read` and `finding_clear` of one process:   *)
(* what the model concluded about a file, tied to the content it was shown.  *)
(* A call syncs, reads the index in one transaction and writes the findings  *)
(* database in another; other calls publish, write, clear and switch the     *)
(* project off and on in between.                                            *)
EXTENDS Integers, Sequences, FiniteSets

CONSTANTS
  Notes,         \* concurrent calls
  NotedFiles,    \* project-relative paths
  LinesOf,       \* lines of each content, by hash; -1: stored without content
  Titles,        \* category and title
  Bodies,        \* severity and description
  Ranges,        \* line ranges that callers name
  MaxPublished,  \* bound: revisions
  MaxEntries,    \* bound: entries made in one findings database
  MaxSessions,   \* bound: times the project is on
  MaxTime        \* bound: readings of the clock

ASSUME NotebookAssumption ==
  /\ LinesOf \in [DOMAIN LinesOf -> Int] /\ 0 \notin DOMAIN LinesOf
  /\ Ranges \subseteq Int \X Int
  /\ MaxEntries \in Nat /\ MaxSessions \in Nat \ {0} /\ MaxTime \in Nat \ {0}

VARIABLES
  history,  \* the files table of each revision published
  on,       \* the session of this process, 0 while the project is off
  sessionsBegun,    \* sessions begun so far
  books,    \* per session: its findings database
  hostClock, \* the clock of the host
  notes,    \* per call: where it is and what it holds
  readings  \* the answer of finding_read, until the next step

notebookVars == <<history, on, sessionsBegun, books, hostClock, notes, readings>>

NotIndexed == 0
Contents == DOMAIN LinesOf
Current == Len(history)
NoReading == [revision |-> 1, listed |-> <<>>, open |-> 0]
NoBook == [made |-> FALSE, entries |-> <<>>, last |-> 0]
Free == [at |-> "free"]
Requests ==
  [path : NotedFiles, title : Titles, body : Bodies, range : Ranges]

NoteAt(c, at) == notes[c].at = at
EndsCall(c) == notes' = [notes EXCEPT ![c] = Free]
NothingRead == readings' = NoReading
UnchangedIndex == UNCHANGED <<history, on, sessionsBegun, hostClock>>

-----------------------------------------------------------------------------
(* finding                                                                  *)

\* validate_text_fields, then the sync.
StartFinding(c, request) ==
  /\ NoteAt(c, "free") /\ on # 0
  /\ request.range[1] > 0 /\ request.range[1] <= request.range[2]
  /\ notes' = [notes EXCEPT ![c] = [at |-> "fetch", request |-> request, revision |-> Current]]
  /\ UnchangedIndex /\ UNCHANGED books /\ NothingRead

\* verify_revision_matches
RevisionHolds(c) == on # 0 /\ notes[c].revision = Current

\* fetch_file and validate_line_range: the hash and the lines are of one row.
FetchFile(c) ==
  LET hash == history[Current][notes[c].request.path] IN
  /\ NoteAt(c, "fetch")
  /\ IF RevisionHolds(c) /\ hash # NotIndexed /\ LinesOf[hash] >= notes[c].request.range[2]
     THEN notes' = [notes EXCEPT ![c] =
            [at |-> "locate", request |-> @.request, revision |-> @.revision, hash |-> hash]]
     ELSE EndsCall(c)
  /\ UnchangedIndex /\ UNCHANGED books /\ NothingRead

\* findings_path
LocateBook(c) ==
  /\ NoteAt(c, "locate")
  /\ IF on = 0 THEN EndsCall(c)
     ELSE notes' = [notes EXCEPT ![c] =
            [at |-> "write", request |-> @.request, revision |-> @.revision, hash |-> @.hash,
             session |-> on]]
  /\ UnchangedIndex /\ UNCHANGED books /\ NothingRead

\* Wrong variant: the content is no part of what makes two findings the same.
SameWhatever(entry, request, hash) ==
  /\ entry.path = request.path
  /\ entry.range = request.range /\ entry.title = request.title
\* find_restated
Restates(entry, request, hash) ==
  /\ entry.path = request.path /\ entry.hash = hash
  /\ entry.range = request.range /\ entry.title = request.title

\* refresh_restated
Refreshed(entry, note) ==
  [entry EXCEPT !.body = note.request.body, !.revision = note.revision]

\* at_least_timestamp: the clock, but not before the newest entry.
NotBefore(entries) ==
  CHOOSE t \in {hostClock} \cup {entries[i].created : i \in DOMAIN entries} :
    t >= hostClock /\ \A i \in DOMAIN entries : t >= entries[i].created

\* insert_new: AUTOINCREMENT gives no id twice.
NewEntry(book, note) ==
  [id |-> book.last + 1, path |-> note.request.path, hash |-> note.hash,
   range |-> note.request.range, title |-> note.request.title, body |-> note.request.body,
   created |-> NotBefore(book.entries), revision |-> note.revision]

Identity(entry) == <<entry.path, entry.hash, entry.range, entry.title>>

\* with_findings_write around persist_finding: a directory that is gone is
\* `project_not_enabled`, a file that is not there is created.
InsertFinding(c) ==
  LET note == notes[c]
      book == books[note.session]
      restated == {i \in DOMAIN book.entries : Restates(book.entries[i], note.request, note.hash)}
      entry == NewEntry(book, note)
  IN
  /\ NoteAt(c, "write")
  /\ \/ on = 0 /\ UNCHANGED books
     \/ /\ on # 0 /\ restated # {}
        /\ LET i == CHOOSE i \in restated : \A j \in restated : i <= j IN
           books' = [books EXCEPT ![note.session].entries[i] = Refreshed(@, note)]
     \/ /\ on # 0 /\ restated = {} /\ book.last < MaxEntries
        /\ books' = [books EXCEPT ![note.session] =
             [made |-> TRUE, entries |-> Append(@.entries, entry), last |-> entry.id]]
  /\ EndsCall(c)
  /\ UnchangedIndex /\ NothingRead

-----------------------------------------------------------------------------
(* finding_clear and finding_read                                           *)

\* A session without a findings database has nothing to clear.
StartClear(c) ==
  /\ NoteAt(c, "free") /\ on # 0 /\ books[on].made
  /\ notes' = [notes EXCEPT ![c] = [at |-> "clear"]]
  /\ UnchangedIndex /\ UNCHANGED books /\ NothingRead

ClearFindings(c) ==
  /\ NoteAt(c, "clear")
  /\ IF on = 0 THEN UNCHANGED books
     ELSE books' = [books EXCEPT ![on] = [made |-> TRUE, entries |-> <<>>, last |-> @.last]]
  /\ EndsCall(c)
  /\ UnchangedIndex /\ NothingRead

StartRead(c) ==
  /\ NoteAt(c, "free") /\ on # 0
  /\ notes' = [notes EXCEPT ![c] = [at |-> "verify", revision |-> Current]]
  /\ UnchangedIndex /\ UNCHANGED books /\ NothingRead

VerifyRead(c) ==
  /\ NoteAt(c, "verify")
  /\ IF RevisionHolds(c) THEN notes' = [notes EXCEPT ![c].at = "collect"] ELSE EndsCall(c)
  /\ UnchangedIndex /\ UNCHANGED books /\ NothingRead

\* HashLookup::is_current, in the transaction of the revision.
IsCurrent(entry, revision) == history[revision][entry.path] = entry.hash

\* each_session_finding, in id order; count_current counts the same of them.
CollectFindings(c) ==
  LET revision == notes[c].revision
      entries == books[on].entries
  IN
  /\ NoteAt(c, "collect")
  /\ IF on = 0 THEN NothingRead
     ELSE readings' =
            [revision |-> revision,
             listed |-> [i \in DOMAIN entries |->
               [id |-> entries[i].id, path |-> entries[i].path, hash |-> entries[i].hash,
                status |-> IF IsCurrent(entries[i], revision) THEN "current" ELSE "stale"]],
             open |-> Cardinality({i \in DOMAIN entries : IsCurrent(entries[i], revision)})]
  /\ EndsCall(c)
  /\ UnchangedIndex /\ UNCHANGED books

-----------------------------------------------------------------------------
(* What other calls do meanwhile.                                           *)

PublishFile(path, content) ==
  /\ on # 0 /\ Current < MaxPublished /\ history[Current][path] # content
  /\ history' = Append(history, [history[Current] EXCEPT ![path] = content])
  /\ UNCHANGED <<on, sessionsBegun, hostClock, notes, books>> /\ NothingRead

\* `off` removes every file of the directory; `on` begins another session.
\* The index that `on` imports is that of the tree.
SwitchOff ==
  /\ on # 0 /\ on' = 0
  /\ books' = [s \in DOMAIN books |-> NoBook]
  /\ UNCHANGED <<history, sessionsBegun, hostClock, notes>> /\ NothingRead

SwitchOn ==
  /\ on = 0 /\ sessionsBegun < MaxSessions
  /\ sessionsBegun' = sessionsBegun + 1 /\ on' = sessionsBegun + 1
  /\ UNCHANGED <<history, hostClock, notes, books>> /\ NothingRead

\* The clock of the host is set back (bound: it does not move on in between).
SetClock(t) ==
  /\ t < hostClock /\ hostClock' = t
  /\ UNCHANGED <<history, on, sessionsBegun, notes, books>> /\ NothingRead

NotebookInit ==
  /\ history \in {<<files>> : files \in [NotedFiles -> {NotIndexed} \cup Contents]}
  /\ on = 1 /\ sessionsBegun = 1 /\ hostClock = MaxTime
  /\ books = [s \in 1..MaxSessions |-> NoBook]
  /\ notes = [c \in Notes |-> Free]
  /\ readings = NoReading

NotebookNext ==
  \/ \E c \in Notes :
       \/ \E request \in Requests : StartFinding(c, request)
       \/ FetchFile(c) \/ LocateBook(c) \/ InsertFinding(c)
       \/ StartClear(c) \/ ClearFindings(c)
       \/ StartRead(c) \/ VerifyRead(c) \/ CollectFindings(c)
  \/ \E path \in NotedFiles, content \in {NotIndexed} \cup Contents : PublishFile(path, content)
  \/ SwitchOff \/ SwitchOn
  \/ \E t \in 1..MaxTime : SetClock(t)

NotebookSpec == NotebookInit /\ [][NotebookNext]_notebookVars

-----------------------------------------------------------------------------
NotebookTypeOK ==
  /\ on \in 0..sessionsBegun /\ sessionsBegun \in 1..MaxSessions /\ hostClock \in 1..MaxTime
  /\ \A s \in DOMAIN books : Len(books[s].entries) <= books[s].last /\ books[s].last <= MaxEntries
  /\ \A c \in Notes :
       notes[c].at \in {"free", "fetch", "locate", "write", "clear", "verify", "collect"}

\* A finding stays about what the model was shown, whatever is published,
\* restated, cleared or switched off while it is written: its revision is one
\* in which its file had its hash, and its lines are lines of that content.
\* What is said twice of one content is one entry.  Entries are in the order
\* of their times although the clock may be set back.  finding_read calls
\* an entry current exactly when its file had its hash in the revision that
\* was answered (finding.rs, finding_insert.rs, finding_read_rows.rs).
FindingsAreSound ==
  /\ NotebookTypeOK
  /\ \A s \in DOMAIN books :
       LET entries == books[s].entries IN
       /\ \A i \in DOMAIN entries :
            /\ IsCurrent(entries[i], entries[i].revision)
            /\ entries[i].range[2] <= LinesOf[entries[i].hash]
       /\ \A i, j \in DOMAIN entries : i < j =>
            /\ Identity(entries[i]) # Identity(entries[j])
            /\ entries[i].id < entries[j].id /\ entries[i].created <= entries[j].created
  /\ \A i \in DOMAIN readings.listed :
       LET e == readings.listed[i] IN
       (e.status = "current") <=> (history[readings.revision][e.path] = e.hash)
  /\ readings.open = Cardinality({i \in DOMAIN readings.listed : readings.listed[i].status = "current"})

-----------------------------------------------------------------------------
(* The inductive invariant behind FindingsAreSound.                         *)

FileTables == [NotedFiles -> {NotIndexed} \cup Contents]

Entry == [id : Nat, path : NotedFiles, hash : Contents, range : Ranges, title : Titles,
          body : Bodies, created : Nat, revision : Nat]
Book == [made : BOOLEAN, entries : Seq(Entry), last : Nat]

NoteStates ==
  [at : {"free", "clear"}] \cup [at : {"verify", "collect"}, revision : Nat]
  \cup [at : {"fetch"}, request : Requests, revision : Nat]
  \cup [at : {"locate"}, request : Requests, revision : Nat, hash : Contents]
  \cup [at : {"write"}, request : Requests, revision : Nat, hash : Contents,
        session : 1..MaxSessions]

NotebookShape ==
  /\ history \in Seq(FileTables) /\ history # <<>>
  /\ on \in 0..sessionsBegun /\ sessionsBegun \in 1..MaxSessions /\ hostClock \in 1..MaxTime
  /\ books \in [1..MaxSessions -> Book] /\ notes \in [Notes -> NoteStates]

\* A call past the fetch holds a hash its file had in its revision, and a range
\* of lines of that content.
NoteHolds(note, tables) ==
  /\ note.at \in {"fetch", "locate", "write", "verify", "collect"} => note.revision \in 1..Len(tables)
  /\ note.at \in {"locate", "write"} =>
       /\ tables[note.revision][note.request.path] = note.hash
       /\ note.request.range[2] <= LinesOf[note.hash]

\* An entry is about what was shown.
EntryHolds(entry, tables) ==
  /\ entry.revision \in 1..Len(tables) /\ tables[entry.revision][entry.path] = entry.hash
  /\ entry.range[2] <= LinesOf[entry.hash]

\* Of two entries the later has the greater id and no earlier time, and says
\* something else.
InOrder(earlier, later) ==
  /\ Identity(earlier) # Identity(later)
  /\ earlier.id < later.id /\ earlier.created <= later.created

BookHolds(book, tables) ==
  /\ Len(book.entries) <= book.last /\ book.last <= MaxEntries
  /\ \A i \in DOMAIN book.entries :
       book.entries[i].id <= book.last /\ EntryHolds(book.entries[i], tables)
  /\ \A i, j \in DOMAIN book.entries : i < j => InOrder(book.entries[i], book.entries[j])

ReadingHolds(reading, tables) ==
  /\ \A i \in DOMAIN reading.listed :
       LET e == reading.listed[i] IN
       (e.status = "current") <=> (tables[reading.revision][e.path] = e.hash)
  /\ reading.open = Cardinality({i \in DOMAIN reading.listed : reading.listed[i].status = "current"})

NotebookInv ==
  /\ NotebookShape /\ ReadingHolds(readings, history)
  /\ \A c \in Notes : NoteHolds(notes[c], history)
  /\ \A s \in 1..MaxSessions : BookHolds(books[s], history)
=============================================================================
