------------------------------- MODULE Publish -------------------------------
(***************************************************************************)
(* The publish path of the source sync (src/src/sync/publish_*.rs,         *)
(* revision*.rs, discovery.rs, sample*.rs, revalidate.rs): how one tool    *)
(* call walks a tree that other programs keep editing, hashes it, diffs it *)
(* against the stored rows, reads the changed files a second time,         *)
(* re-checks them, and commits one revision under compare-and-swap, while  *)
(* other server processes do the same against the same SQLite file.        *)
(*                                                                         *)
(* Every read of one file and every SQL statement outside a transaction is *)
(* a step of its own; the Immediate write transaction is one step.  A file *)
(* is read in one step (a torn read hashes to no real content and fails    *)
(* the pass-2 comparison).  A file's bytes are a member of Contents; the   *)
(* sets below say how the code classifies them.                            *)
(***************************************************************************)
EXTENDS Naturals, FiniteSets

CONSTANTS
  Paths,        \* project-relative paths
  Unrep,        \* the paths whose names are not UTF-8 (no files row can hold them)
  Contents,     \* file contents, with the state of the file's permissions
  Binary,       \* contents with a NUL byte where sniff_kind looks
  NonUtf8,      \* contents that are not valid UTF-8
  Oversize,     \* contents over max_file_bytes
  Unreadable,   \* files that cannot be opened
  Unstatable,   \* files whose metadata cannot be read either
  StatOf,       \* size and mtime of each content, as one value
  Flaky,        \* contents whose grammar may fail to load
  Procs,        \* server processes (one sync at a time each)
  Version,      \* the parser-pack version each process was built with
  Versions,     \* all parser-pack versions
  MaxRetries,   \* MAX_CAS_RETRIES
  MaxCalls,     \* bound: tool calls per process
  MaxEdits,     \* bound: edits of the tree
  Endless,      \* TRUE: edits never stop (MaxEdits is not counted)
  MaxTampers,   \* bound: edits of files.content behind the program's back
  Absent,       \* the state of a path with no file
  None          \* no value (SQL NULL, Rust None)

ASSUME PathAssumption == Unrep \subseteq Paths
ASSUME ContentAssumption ==
  /\ \A S \in {Binary, NonUtf8, Oversize, Unreadable, Unstatable, Flaky} : S \subseteq Contents
  /\ Unstatable \subseteq Unreadable
  /\ DOMAIN StatOf = Contents
  /\ Absent \notin Contents /\ None \notin Contents /\ Absent # None
ASSUME VersionAssumption == Version \in [Procs -> Versions] /\ None \notin Versions
ASSUME BoundAssumption ==
  /\ MaxRetries \in Nat /\ MaxCalls \in Nat /\ MaxEdits \in Nat /\ MaxTampers \in Nat
  /\ Endless \in BOOLEAN

VARIABLES
  disk,      \* the tree: path -> content or Absent
  files,     \* the files table: path -> row or None
  head,      \* the current revision: id (0: none), parser pack version, manifest
  unrep,     \* the unrepresentable_paths table
  pc,        \* per process: where its sync call is
  attempt,   \* per process: retries so far in this call
  base,      \* per process: the baseline this attempt read
  work,      \* per process: what this attempt has gathered
  synced,    \* per process: the revision id the call reports
  calls, edits, tampers,   \* counters of the bounds
  seen,      \* observer: per process and path, what the disk held since the call began
  era,       \* observer: per path, what the disk held since head was committed
  calm,      \* observer: per process, no edit and no foreign commit since its baseline read
  meddled,   \* observer: per process, rows tampered with since it verified them
  late       \* observer: per process and path, what the disk held since pass 2 ended

db == <<files, head, unrep>>
observers == <<seen, era, calm, meddled, late>>
vars == <<disk, db, pc, attempt, base, work, synced, calls, edits, tampers, observers>>

-----------------------------------------------------------------------------
(* Identities, rows and what an attempt gathers.                            *)

\* SourceIdentity of content that was read (hash_file, hash_bytes).
HashId(c) == <<"hash", c>>

\* stat_identity: size and mtime instead of bytes; unknown when the stat fails.
StatId(c) == <<"stat", IF c \in Unstatable THEN None ELSE StatOf[c]>>

Idents == {HashId(c) : c \in Contents} \cup {StatId(c) : c \in Contents}

Reasons == {"oversize", "not_utf8", "unreadable", "stat_failed"}

\* One row of the files table.  by: the pack version that parsed it.
Row == [kind: {"indexed", "binary"}, reason: {None}, content: Contents \cup {None},
        ident: Idents, by: Versions, parser: {"Loaded", "LoadFailed"}]
       \cup
       [kind: {"skipped"}, reason: Reasons, content: {None},
        ident: Idents, by: {None}, parser: {"Unavailable"}]

\* SkippedRecord; ident is None until collect_skipped has run its stat.
SkipRecord == [reason: Reasons, ident: Idents \cup {None}]

\* NULL is told apart from every value it stands in for.
ASSUME NoneAssumption == None \notin Idents \cup Row \cup SkipRecord

\* kind: the walk's verdict per path; ident: the pass-1 hash; rec: the skip
\* record; changed, deleted: the diff; sample: the pass-2 content; checked:
\* the upserts revalidated so far.
Kinds == {"unlisted", "gone", "listed", "unrep", "unreadable", "indexed", "binary"}
Work == [kind: [Paths -> Kinds],
         ident: [Paths -> Idents \cup {None}],
         rec: [Paths -> SkipRecord \cup {None}],
         changed: SUBSET Paths, deleted: SUBSET Paths,
         sample: [Paths -> Contents \cup {None}],
         checked: SUBSET Paths]

NoWork == [kind |-> [p \in Paths |-> "unlisted"],
           ident |-> [p \in Paths |-> None],
           rec |-> [p \in Paths |-> None],
           changed |-> {}, deleted |-> {},
           sample |-> [p \in Paths |-> None],
           checked |-> {}]

NoRevision == [rev |-> 0, pack |-> None, manifest |-> [p \in Paths |-> None]]
NoBaseline == [rev |-> 0, pack |-> None]
Baselines == [rev: Nat, pack: Versions \cup {None}]

Manifests == [Paths -> Idents \cup {None}]
Revisions == [rev: Nat, pack: Versions \cup {None}, manifest: Manifests]

Stages == {"idle", "baseline", "walk", "pass1", "retries", "verify", "unrep", "recheck",
           "pass2", "prepare", "read"}

\* The identity pass 1 gave each path: a hash, or a skipped file's identity.
PassOne(w) == [p \in Paths |-> IF w.ident[p] # None THEN w.ident[p]
                               ELSE IF w.rec[p] # None THEN w.rec[p].ident
                               ELSE None]

Discovered(w) == {p \in Paths : w.kind[p] \in {"indexed", "binary"}}
Pending(w) == {p \in Paths : w.rec[p] # None /\ w.rec[p].ident = None}
Upserts(w) == {p \in Paths : w.sample[p] # None}

\* parser_version_changed, also TRUE when nothing was ever published.
PackChanged(self) == base[self].pack # Version[self]

\* Wrong variant: a new pack version does not re-read unchanged files.
SampleChangedOnly(self) ==
  {p \in Discovered(work[self]) : work[self].ident[p] # None /\ p \in work[self].changed}

\* files_to_sample: every hashed file when the pack changed, else the changed ones.
ToSample(self) ==
  {p \in Discovered(work[self]) :
     /\ work[self].ident[p] # None
     /\ PackChanged(self) \/ p \in work[self].changed}

\* sample_file's verdict on what it finds at a path whose walk kind is k.
SampleOutcome(c, k) ==
  CASE c = Absent -> "vanished"
    [] c \in Unstatable -> "error"
    [] c \in Oversize -> "oversize"
    [] c \in Unreadable -> "error"
    [] c \in NonUtf8 /\ k # "binary" -> "not_utf8"
    [] OTHER -> "sample"

\* hash_one's verdict: it opens the file, so permissions come before size.
HashOutcome(c) ==
  CASE c = Absent -> "vanished"
    [] c \in Unreadable -> "error"
    [] c \in Oversize -> "oversize"
    [] OTHER -> "hash"

\* The row upsert_file writes for a sample, and the one upsert_skipped_file writes.
FileRow(self, p, parser) ==
  LET w == work[self] IN
  [kind |-> w.kind[p], reason |-> None,
   content |-> IF w.kind[p] = "binary" THEN None ELSE w.sample[p],
   ident |-> HashId(w.sample[p]), by |-> Version[self], parser |-> parser]

SkipRow(r) == [kind |-> "skipped", reason |-> r.reason, content |-> None,
               ident |-> r.ident, by |-> None, parser |-> "Unavailable"]

\* A row whose text no longer hashes to its content_hash (content_mismatches).
Mismatched(row) == row # None /\ row.content # None /\ HashId(row.content) # row.ident

-----------------------------------------------------------------------------
(* What happens around a sync: edits of the tree, edits of the database     *)
(* file by another program, and the ends of a call.                         *)

Nothing == [p \in Paths |-> {}]
Present == [p \in Paths |-> {disk[p]}]

Edit(p, c) ==
  /\ c # disk[p]
  /\ Endless \/ edits < MaxEdits
  /\ edits' = IF Endless THEN edits ELSE edits + 1
  /\ disk' = [disk EXCEPT ![p] = c]
  /\ seen' = [q \in Procs |-> IF pc[q] = "idle" THEN seen[q]
                              ELSE [seen[q] EXCEPT ![p] = @ \cup {c}]]
  /\ era' = [era EXCEPT ![p] = @ \cup {c}]
  /\ late' = [q \in Procs |-> IF pc[q] = "prepare" THEN [late[q] EXCEPT ![p] = @ \cup {c}]
                              ELSE late[q]]
  /\ calm' = [q \in Procs |-> FALSE]
  /\ UNCHANGED <<db, pc, attempt, base, work, synced, calls, tampers, meddled>>

Tamper(p, c) ==
  /\ tampers < MaxTampers
  /\ files[p] # None
  /\ files[p].content \notin {None, c}
  /\ files' = [files EXCEPT ![p].content = c]
  /\ tampers' = tampers + 1
  /\ meddled' = [q \in Procs |-> IF pc[q] = "idle" THEN {} ELSE meddled[q] \cup {p}]
  /\ UNCHANGED <<disk, head, unrep, pc, attempt, base, work, synced, calls, edits,
                 seen, era, calm, late>>

\* Drop everything one attempt gathered; the next step of the process is at s.
Forget(self, s) ==
  /\ pc' = [pc EXCEPT ![self] = s]
  /\ base' = [base EXCEPT ![self] = NoBaseline]
  /\ work' = [work EXCEPT ![self] = NoWork]
  /\ calm' = [calm EXCEPT ![self] = FALSE]
  /\ meddled' = [meddled EXCEPT ![self] = {}]
  /\ late' = [late EXCEPT ![self] = Nothing]

\* The call ends, with an answer or an error.
EndCall(self) ==
  /\ Forget(self, "idle")
  /\ attempt' = [attempt EXCEPT ![self] = 0]
  /\ synced' = [synced EXCEPT ![self] = 0]
  /\ seen' = [seen EXCEPT ![self] = Nothing]
  /\ UNCHANGED <<disk, db, calls, edits, tampers, era>>

\* Wrong variants: one retry too many; a retry that is not counted.
MayRetryOnceMore(self) == attempt[self] <= MaxRetries

RetryUncounted(self) ==
  /\ Forget(self, "baseline")
  /\ UNCHANGED <<disk, db, attempt, synced, calls, edits, tampers, seen, era>>

\* publish_with_limits on ChangedDuringSample or StaleBaseline: start over, or
\* give up once MAX_CAS_RETRIES attempts were retried.
MayRetry(self) == attempt[self] < MaxRetries

RetryOrFail(self) ==
  IF MayRetry(self)
  THEN /\ Forget(self, "baseline")
       /\ attempt' = [attempt EXCEPT ![self] = @ + 1]
       /\ UNCHANGED <<disk, db, synced, calls, edits, tampers, seen, era>>
  ELSE EndCall(self)

\* A call ends early at any point: the shared deadline passed, a database or
\* limit error, or the process was killed.  A transaction not committed is gone.
Abort(self) == pc[self] # "idle" /\ EndCall(self)

\* Step to stage s having gathered w; nothing outside the process changes.
Gather(self, s, w) ==
  /\ pc' = [pc EXCEPT ![self] = s]
  /\ work' = [work EXCEPT ![self] = w]
  /\ UNCHANGED <<disk, db, attempt, base, synced, calls, edits, tampers, observers>>

-----------------------------------------------------------------------------
(* Pass 1: baseline, walk, hash, diff.                                      *)

\* A tool call reaches publish_with_limits; its window of freshness opens.
BeginCall(self) ==
  /\ pc[self] = "idle" /\ calls[self] < MaxCalls
  /\ calls' = [calls EXCEPT ![self] = @ + 1]
  /\ pc' = [pc EXCEPT ![self] = "baseline"]
  /\ seen' = [seen EXCEPT ![self] = Present]
  /\ UNCHANGED <<disk, db, attempt, base, work, synced, edits, tampers, era, calm, meddled,
                 late>>

\* try_publish reads the current revision before it looks at the disk.
ReadBaseline(self) ==
  /\ pc[self] = "baseline"
  /\ base' = [base EXCEPT ![self] = [rev |-> head.rev, pack |-> head.pack]]
  /\ pc' = [pc EXCEPT ![self] = "walk"]
  /\ calm' = [calm EXCEPT ![self] = TRUE]
  /\ UNCHANGED <<disk, db, attempt, work, synced, calls, edits, tampers, seen, era, meddled,
                 late>>

\* The walker lists one directory entry, or finds no file there.
ListEntry(self, p) ==
  /\ pc[self] = "walk" /\ work[self].kind[p] = "unlisted"
  /\ Gather(self, "walk", [work[self] EXCEPT !.kind[p] =
                             IF disk[p] = Absent THEN "gone" ELSE "listed"])

\* collect_file_entry opens a listed file and sniffs it.  The kind found here
\* is the one the whole attempt uses.
SniffEntry(self, p) ==
  LET c == disk[p]
      w == work[self]
  IN
  /\ pc[self] = "walk" /\ w.kind[p] = "listed"
  /\ IF c = Absent THEN RetryOrFail(self)
     ELSE LET k == IF p \in Unrep THEN "unrep"
                   ELSE IF c \in Unreadable THEN "unreadable"
                   ELSE IF c \in Binary THEN "binary" ELSE "indexed"
          IN Gather(self, "walk",
               [w EXCEPT !.kind[p] = k,
                         !.rec[p] = IF k = "unreadable"
                                    THEN [reason |-> "unreadable", ident |-> None]
                                    ELSE @])

EndWalk(self) ==
  /\ pc[self] = "walk"
  /\ \A p \in Paths : work[self].kind[p] \notin {"unlisted", "listed"}
  /\ Gather(self, "pass1", work[self])

\* collect_skipped stats one skipped file (skipped_record).  It runs after the
\* walk, after pass 1 and after pass 2, for the skips each of them produced; a
\* not_utf8 skip keeps the pass-1 hash as its identity.
StatSkipped(self, p) ==
  LET c == disk[p]
      w == work[self]
      r == w.rec[p].reason
  IN
  /\ p \in Pending(w)
  /\ \/ pc[self] = "prepare"
     \/ /\ pc[self] = "pass1"
        /\ \/ w.kind[p] = "unreadable"
           \/ \A q \in Discovered(w) : w.ident[q] # None \/ w.rec[q] # None
  /\ IF c = Absent THEN RetryOrFail(self)
     ELSE Gather(self, pc[self],
            [w EXCEPT !.rec[p] =
               [reason |-> IF c \in Unstatable THEN "stat_failed" ELSE r,
                ident  |-> IF r = "not_utf8" THEN w.ident[p] ELSE StatId(c)]])

\* hash_all_with_deadline: the workers of the pool hash files in any order.
HashFile(self, p) ==
  LET w == work[self]
      outcome == HashOutcome(disk[p])
  IN
  /\ pc[self] = "pass1"
  /\ \A q \in Pending(w) : w.kind[q] # "unreadable"
  /\ p \in Discovered(w) /\ w.ident[p] = None /\ w.rec[p] = None
  /\ CASE outcome = "vanished" -> RetryOrFail(self)
       [] outcome = "error" -> EndCall(self)
       [] outcome = "oversize" ->
            Gather(self, "pass1",
              [w EXCEPT !.rec[p] = [reason |-> "oversize", ident |-> None]])
       [] outcome = "hash" ->
            Gather(self, "pass1", [w EXCEPT !.ident[p] = HashId(disk[p])])

\* diff_against_stored compares with the stored hashes (manifest::compare).
DiffAgainstStored(self) ==
  LET w == work[self]
      now == PassOne(w)
      present == {p \in Paths : now[p] # None}
  IN
  /\ pc[self] = "pass1"
  /\ Pending(w) = {}
  /\ \A p \in Discovered(w) : w.ident[p] # None \/ w.rec[p] # None
  /\ Gather(self, "retries",
       [w EXCEPT
          !.changed = {p \in present : files[p] = None \/ files[p].ident # now[p]},
          !.deleted = {p \in Paths \ present : files[p] # None}])

LoadFailedPaths(w) ==
  {p \in Paths : /\ PassOne(w)[p] # None
                 /\ files[p] # None /\ files[p].parser = "LoadFailed"}

\* add_load_failed_retries, from a second SELECT, when the fetch gate says a
\* retry is due.
AddLoadFailedRetries(self) ==
  LET w == work[self] IN
  /\ pc[self] = "retries"
  /\ \/ Gather(self, "verify", [w EXCEPT !.changed = @ \cup LoadFailedPaths(w)])
     \/ Gather(self, "verify", w)

\* Wrong variant: the stored text is trusted.
NoRepairs(self) == {}

\* content_mismatches and force_content_repairs: rows whose text does not hash
\* to content_hash are treated as modified when their file was hashed.
Repairs(self) == {p \in Paths : Mismatched(files[p]) /\ work[self].ident[p] # None}

VerifyStored(self) ==
  /\ pc[self] = "verify"
  /\ pc' = [pc EXCEPT ![self] = "unrep"]
  /\ work' = [work EXCEPT ![self].changed = @ \cup Repairs(self)]
  /\ meddled' = [meddled EXCEPT ![self] = {}]
  /\ UNCHANGED <<disk, db, attempt, base, synced, calls, edits, tampers, seen, era, calm,
                 late>>

\* replace_unrepresentable_paths, in a transaction of its own; then try_publish
\* branches on whether there is anything to write.
ReplaceUnrepresentable(self) ==
  LET w == work[self] IN
  /\ pc[self] = "unrep"
  /\ unrep' = {p \in Paths : w.kind[p] = "unrep"}
  /\ pc' = [pc EXCEPT ![self] =
              IF w.changed = {} /\ w.deleted = {} /\ ~PackChanged(self)
              THEN "recheck" ELSE "pass2"]
  /\ UNCHANGED <<disk, files, head, attempt, base, work, synced, calls, edits, tampers,
                 observers>>

\* The call has its revision: r is what the tool's read must find current.
Synced(self, r) ==
  /\ pc' = [pc EXCEPT ![self] = "read"]
  /\ synced' = [synced EXCEPT ![self] = r]
  /\ work' = [work EXCEPT ![self] = NoWork]
  /\ base' = [base EXCEPT ![self] = NoBaseline]
  /\ late' = [late EXCEPT ![self] = Nothing]

\* unchanged_report: nothing to write, unless another process moved the baseline.
UnchangedReport(self) ==
  /\ pc[self] = "recheck"
  /\ IF head.rev = base[self].rev
     THEN /\ Synced(self, base[self].rev)
          /\ UNCHANGED <<disk, db, attempt, calls, edits, tampers, seen, era, calm, meddled>>
     ELSE RetryOrFail(self)

-----------------------------------------------------------------------------
(* Pass 2: sample the changed files, check them twice, commit.              *)

\* sample_all_with_deadline: the workers read the changed files in any order.
SampleFile(self, p) ==
  LET w == work[self]
      outcome == SampleOutcome(disk[p], w.kind[p])
  IN
  /\ pc[self] = "pass2"
  /\ p \in ToSample(self) /\ w.sample[p] = None /\ w.rec[p] = None
  /\ CASE outcome = "vanished" -> RetryOrFail(self)
       [] outcome = "error" -> EndCall(self)
       [] outcome \in {"oversize", "not_utf8"} ->
            Gather(self, "pass2",
              [w EXCEPT !.rec[p] = [reason |-> outcome, ident |-> None]])
       [] outcome = "sample" -> Gather(self, "pass2", [w EXCEPT !.sample[p] = disk[p]])

\* Wrong variants: nothing is compared; a file pass 2 had to skip counts as changed.
AnySamples(w) == TRUE

SkipsDoNotMatch(w) ==
  \A p \in w.changed : w.ident[p] # None => w.sample[p] # None /\ HashId(w.sample[p]) = w.ident[p]

\* check_samples_match_pass1: every sample must hash to what pass 1 saw.
SamplesMatch(w) == \A p \in Upserts(w) : HashId(w.sample[p]) = w.ident[p]

CheckSamples(self) ==
  LET w == work[self] IN
  /\ pc[self] = "pass2"
  /\ \A p \in ToSample(self) : w.sample[p] # None \/ w.rec[p] # None
  /\ IF SamplesMatch(w)
     THEN /\ pc' = [pc EXCEPT ![self] = "prepare"]
          /\ late' = [late EXCEPT ![self] = Present]
          /\ UNCHANGED <<disk, db, attempt, base, work, synced, calls, edits, tampers,
                         seen, era, calm, meddled>>
     ELSE RetryOrFail(self)

\* revalidate_unchanged_since_sample reads one upsert again (still_matches).
Revalidate(self, p) ==
  LET w == work[self]
      outcome == SampleOutcome(disk[p], w.kind[p])
  IN
  /\ pc[self] = "prepare" /\ Pending(w) = {}
  /\ p \in Upserts(w) \ w.checked
  /\ CASE outcome = "error" -> EndCall(self)
       [] outcome = "sample" /\ HashId(disk[p]) = HashId(w.sample[p]) ->
            Gather(self, "prepare", [w EXCEPT !.checked = @ \cup {p}])
       [] OTHER -> RetryOrFail(self)

\* Wrong variant: the samples are not read again.
NeverRevalidated(w) == Pending(w) = {}

\* commit_attempt is past revalidate_unchanged_since_sample.
Revalidated(w) == Pending(w) = {} /\ w.checked = Upserts(w)

\* Wrong variant: the transaction does not compare the baseline.
AnyBaseline(self) == TRUE

\* assert_baseline, inside the Immediate transaction.
BaselineHolds(self) == head.rev = base[self].rev

\* The files table after apply_deletions, upsert_file and upsert_skipped_files.
\* failed: the upserts whose grammar could not be loaded.
NewFiles(self, failed) ==
  LET w == work[self] IN
  [p \in Paths |->
     CASE w.rec[p] # None -> SkipRow(w.rec[p])
       [] w.rec[p] = None /\ w.sample[p] # None ->
            FileRow(self, p, IF p \in failed THEN "LoadFailed" ELSE "Loaded")
       [] w.rec[p] = None /\ w.sample[p] = None /\ p \in w.deleted -> None
       [] OTHER -> files[p]]

\* publish_revision: one Immediate transaction.  Revision ids are the row ids
\* of an AUTOINCREMENT table, and every inserted revision becomes current.
PublishRevision(self) ==
  LET w == work[self] IN
  /\ pc[self] = "prepare" /\ Revalidated(w)
  /\ IF BaselineHolds(self)
     THEN /\ \E failed \in SUBSET {p \in Upserts(w) : w.sample[p] \in Flaky} :
               files' = NewFiles(self, failed)
          /\ head' = [rev |-> head.rev + 1, pack |-> Version[self],
                      manifest |-> PassOne(w)]
          /\ Synced(self, head.rev + 1)
          /\ era' = Present
          /\ calm' = [q \in Procs |-> FALSE]
          /\ UNCHANGED <<disk, unrep, attempt, calls, edits, tampers, seen, meddled>>
     ELSE RetryOrFail(self)

\* Wrong variant: the read does not compare revisions.
AnswersAnyRevision(self) == pc[self] = "read"

\* with_verified_read opens the database afresh; inside one read transaction it
\* compares the current revision with the synced one and runs the tool's query.
Answers(self) == pc[self] = "read" /\ head.rev = synced[self]

VerifiedRead(self) ==
  /\ Answers(self)
  /\ EndCall(self)

StaleRevision(self) ==
  /\ pc[self] = "read" /\ head.rev # synced[self]
  /\ EndCall(self)

-----------------------------------------------------------------------------

\* A database nobody has published to, or one that a sync left exact for an
\* earlier state of the tree.
RowOf(c, v) ==
  CASE c \in Unreadable ->
         [kind |-> "skipped",
          reason |-> IF c \in Unstatable THEN "stat_failed" ELSE "unreadable",
          content |-> None, ident |-> StatId(c), by |-> None, parser |-> "Unavailable"]
    [] c \notin Unreadable /\ c \in Oversize ->
         [kind |-> "skipped", reason |-> "oversize", content |-> None,
          ident |-> StatId(c), by |-> None, parser |-> "Unavailable"]
    [] c \notin Unreadable \cup Oversize /\ c \in NonUtf8 \ Binary ->
         [kind |-> "skipped", reason |-> "not_utf8", content |-> None,
          ident |-> HashId(c), by |-> None, parser |-> "Unavailable"]
    [] OTHER ->
         [kind |-> IF c \in Binary THEN "binary" ELSE "indexed", reason |-> None,
          content |-> IF c \in Binary THEN None ELSE c,
          ident |-> HashId(c), by |-> v, parser |-> "Loaded"]

RowAt(p, c, v) == IF p \in Unrep \/ c = Absent THEN None ELSE RowOf(c, v)

ExactIndex(tree, v) ==
  /\ files = [p \in Paths |-> RowAt(p, tree[p], v)]
  /\ head = [rev |-> 1, pack |-> v,
             manifest |-> [p \in Paths |-> IF RowAt(p, tree[p], v) = None THEN None
                                           ELSE RowAt(p, tree[p], v).ident]]
  /\ unrep = {p \in Unrep : tree[p] # Absent}

EmptyIndex == files = [p \in Paths |-> None] /\ head = NoRevision /\ unrep = {}

Init ==
  /\ disk \in [Paths -> Contents \cup {Absent}]
  /\ EmptyIndex \/ \E tree \in [Paths -> Contents \cup {Absent}], v \in Versions :
                     ExactIndex(tree, v)
  /\ pc = [q \in Procs |-> "idle"]
  /\ attempt = [q \in Procs |-> 0]
  /\ base = [q \in Procs |-> NoBaseline]
  /\ work = [q \in Procs |-> NoWork]
  /\ synced = [q \in Procs |-> 0]
  /\ calls = [q \in Procs |-> 0] /\ edits = 0 /\ tampers = 0
  /\ seen = [q \in Procs |-> Nothing]
  /\ late = [q \in Procs |-> Nothing]
  /\ era = Present
  /\ calm = [q \in Procs |-> FALSE]
  /\ meddled = [q \in Procs |-> {}]

\* The steps of a sync call that is under way.
Step(self) ==
  \/ ReadBaseline(self) \/ EndWalk(self)
  \/ DiffAgainstStored(self) \/ AddLoadFailedRetries(self)
  \/ VerifyStored(self) \/ ReplaceUnrepresentable(self)
  \/ UnchangedReport(self) \/ CheckSamples(self) \/ PublishRevision(self)
  \/ VerifiedRead(self) \/ StaleRevision(self)
  \/ \E p \in Paths : \/ ListEntry(self, p) \/ SniffEntry(self, p)
                      \/ StatSkipped(self, p) \/ HashFile(self, p)
                      \/ SampleFile(self, p) \/ Revalidate(self, p)

Environment == \E p \in Paths : \/ \E c \in Contents \cup {Absent} : Edit(p, c)
                                \/ \E c \in Contents : Tamper(p, c)

Next == Environment \/ \E self \in Procs : BeginCall(self) \/ Step(self) \/ Abort(self)

\* The runtime keeps running the threads of a call until it returns; nothing
\* obliges a client to call, an editor to edit, or a process to die.
Spec == Init /\ [][Next]_vars /\ \A self \in Procs : WF_vars(Step(self))

-----------------------------------------------------------------------------
(* Properties.                                                              *)

TypeOK ==
  /\ disk \in [Paths -> Contents \cup {Absent}]
  /\ files \in [Paths -> Row \cup {None}]
  /\ head \in Revisions
  /\ unrep \subseteq Paths
  /\ pc \in [Procs -> Stages]
  /\ attempt \in [Procs -> 0..MaxRetries]
  /\ base \in [Procs -> Baselines]
  /\ work \in [Procs -> Work]
  /\ synced \in [Procs -> Nat]
  /\ calls \in [Procs -> Nat] /\ edits \in Nat /\ tampers \in Nat
  /\ seen \in [Procs -> [Paths -> SUBSET (Contents \cup {Absent})]]
  /\ late \in [Procs -> [Paths -> SUBSET (Contents \cup {Absent})]]
  /\ era \in [Paths -> SUBSET (Contents \cup {Absent})]
  /\ calm \in [Procs -> BOOLEAN]
  /\ meddled \in [Procs -> SUBSET Paths]

\* The stored entry for a path is one the disk justified at some moment at
\* which it held a member of S.
Justified(row, S) ==
  \/ row = None /\ Absent \in S
  \/ row # None /\ \E c \in S \ {Absent} : row.ident \in {HashId(c), StatId(c)}

\* A tool is only answered from an index whose every entry the disk justified
\* at some moment of that tool's own call: with_verified_read never serves a
\* state of the tree that was over before the call began.
AnswerIsFresh ==
  \A q \in Procs : Answers(q) =>
    \A p \in Paths \ Unrep : Justified(files[p], seen[q][p])

\* publish_revision "stops an older sample from committing after a newer one":
\* every entry of a new revision was observed after the revision it replaces
\* was committed.
RevisionsMoveForward ==
  [][head'.rev # head.rev =>
       \A p \in Paths \ Unrep : Justified(files'[p], era[p])]_vars

\* publish "fails closed into a retry rather than publishing a revision that
\* doesn't match a real, stable disk state": each text a commit writes was still,
\* or again, in its file after the last file of the attempt had been sampled.
CommitsWhatHeld ==
  [][\A q \in Procs : pc[q] = "prepare" /\ pc'[q] = "read" =>
       \A p \in Upserts(work[q]) : work[q].rec[p] = None => work[q].sample[p] \in late[q][p]]_vars

\* The manifest of a revision names the bytes each of its indexed rows holds,
\* though it is computed from pass 1 and the rows are written from pass 2.
ManifestCoversIndexed ==
  \A p \in Paths : files[p] # None /\ files[p].kind # "skipped" =>
    head.manifest[p] = files[p].ident

\* Every indexed row was parsed by the pack version its revision is pinned to,
\* though most rows of a revision were written by earlier ones and processes of
\* different versions share the database.
RowsMatchPack ==
  \A p \in Paths : files[p] # None /\ files[p].kind # "skipped" => files[p].by = head.pack

\* A retry is spent only on an attempt during which the tree or the current
\* revision really changed: no file, however odd, makes publish retry by itself.
RetriesHaveACause == [][\A q \in Procs : attempt'[q] > attempt[q] => ~calm[q]]_vars

\* Text edited in the database behind the program's back is never served,
\* unless it was edited after this call verified the stored rows.
ServedTextIsVerified ==
  \A q \in Procs : Answers(q) =>
    \A p \in Paths : Mismatched(files[p]) => p \in meddled[q]

\* However the tree keeps changing, a call that began returns.
EveryCallReturns == \A q \in Procs : pc[q] # "idle" ~> pc[q] = "idle"

\* Nothing was edited during this process's call so far.
Quiet(q) == \A p \in Paths : seen[q][p] = {disk[p]}

\* docs/how-it-works.md:5 "Every tool answer matches the code on disk at the
\* moment of the call": after a call no edit disturbed, each row is the one a
\* fresh read of the file gives.
AnswerMatchesDisk ==
  \A q \in Procs : Answers(q) /\ Quiet(q) =>
    \A p \in Paths \ Unrep :
      LET row == RowAt(p, disk[p], head.pack) IN
      /\ files[p] = None <=> row = None
      /\ row # None => files[p].kind = row.kind /\ files[p].content = row.content

\* The sync implements the promise of ProjectIndex.  The index it offers is the
\* identities of the files table, to a call whose revision is still current.
Representable == Paths \ Unrep

Promise == INSTANCE ProjectIndex WITH
  Paths <- Representable,
  Identities <- [c \in Contents |-> {HashId(c), StatId(c)}],
  disk <- [p \in Representable |-> disk[p]],
  index <- [p \in Representable |-> IF files[p] = None THEN None ELSE files[p].ident],
  window <- [q \in Procs |-> [p \in Representable |-> seen[q][p]]],
  phase <- [q \in Procs |-> IF Answers(q) THEN "offered"
                            ELSE IF pc[q] = "idle" THEN "closed" ELSE "open"]

KeepsPromise == Promise!Spec

-----------------------------------------------------------------------------
(* The inductive invariant behind AnswerIsFresh.                            *)

AfterDiff == {"retries", "verify", "unrep", "recheck", "pass2", "prepare"}

\* Everything gathered in w was on the disk at some moment of the call, during
\* which path p held the members of S[p].
Observed(w, S) ==
  \A p \in Paths :
    /\ w.kind[p] = "gone" => Absent \in S[p]
    /\ w.ident[p] # None => \E c \in S[p] \ {Absent} : w.ident[p] = HashId(c)
    /\ w.rec[p] # None /\ w.rec[p].ident # None =>
         \E c \in S[p] \ {Absent} : w.rec[p].ident \in {HashId(c), StatId(c)}
    /\ w.sample[p] # None => w.sample[p] \in S[p] \ {Absent}

\* An attempt hashes the files it discovered and records the ones it skips.
Shaped(w) ==
  \A p \in Paths :
    /\ w.kind[p] = "unrep" => p \in Unrep
    /\ w.kind[p] = "unreadable" => w.rec[p] # None
    /\ w.ident[p] # None => p \in Discovered(w)
    /\ w.sample[p] # None => p \in Discovered(w)
    /\ w.rec[p] # None => w.kind[p] \in {"unreadable", "indexed", "binary"}

\* Every path was walked; every file found was hashed or has a skip record.
Walked(w) == \A p \in Paths : w.kind[p] \notin {"unlisted", "listed"}
Hashed(w) ==
  \A p \in Paths :
    /\ p \in Discovered(w) => w.ident[p] # None \/ w.rec[p] # None
    /\ w.ident[p] = None /\ w.rec[p] # None => w.rec[p].ident # None

\* The rows f differ from what pass 1 saw exactly where the diff says.
DiffFits(w, f) ==
  \A p \in Paths : p \notin w.changed \cup w.deleted =>
    IF f[p] = None THEN PassOne(w)[p] = None ELSE f[p].ident = PassOne(w)[p]

DiffSides(w) ==
  \A p \in Paths : /\ p \in w.changed => PassOne(w)[p] # None
                   /\ p \in w.deleted => PassOne(w)[p] = None

CallInv(q) ==
  LET w == work[q] IN
  /\ pc[q] # "idle" => \A p \in Paths : disk[p] \in seen[q][p]
  /\ pc[q] \in {"idle", "baseline", "read"} => w = NoWork
  /\ Observed(w, seen[q]) /\ Shaped(w)
  /\ pc[q] \in AfterDiff \cup {"pass1"} => Walked(w)
  /\ pc[q] \in AfterDiff => Hashed(w) /\ DiffSides(w)
  /\ base[q].rev <= head.rev
  /\ pc[q] \in AfterDiff /\ base[q].rev = head.rev => DiffFits(w, files)
  /\ pc[q] = "recheck" => w.changed = {} /\ w.deleted = {}
  /\ pc[q] = "prepare" => \A p \in ToSample(q) : w.sample[p] # None \/ w.rec[p] # None
  /\ synced[q] <= head.rev
  /\ Answers(q) => \A p \in Paths \ Unrep : Justified(files[p], seen[q][p])

SyncInv == TypeOK /\ \A q \in Procs : CallInv(q)

-----------------------------------------------------------------------------
(* The inductive invariant behind the properties of revisions, repairs and  *)
(* retries.  It stands on SyncInv.                                          *)

InAttempt == Stages \ {"idle", "baseline", "read"}
AfterVerify == {"unrep", "recheck", "pass2", "prepare"}

\* A row with text is recorded under a hash, never under size and mtime.
RowsAreHashed ==
  \A p \in Paths : files[p] # None /\ files[p].kind # "skipped" =>
    \E c \in Contents : files[p].ident = HashId(c)

\* Only hashed files are sampled; a skip without a hash is recorded under its stat.
Traced(w) ==
  \A p \in Paths :
    /\ w.sample[p] # None => w.ident[p] # None
    /\ w.ident[p] = None /\ w.rec[p] # None /\ w.rec[p].ident # None =>
         \E c \in Contents : w.rec[p].ident = StatId(c)

\* What w says of each path is still so.
Matches(w) ==
  \A p \in Paths :
    /\ w.kind[p] \notin {"unlisted", "gone"} => disk[p] # Absent
    /\ w.ident[p] # None => w.ident[p] = HashId(disk[p])
    /\ w.sample[p] # None =>
         w.sample[p] = disk[p] /\ SampleOutcome(disk[p], w.kind[p]) = "sample"

StepInv(q) ==
  LET w == work[q]
      current == base[q].rev = head.rev
  IN
  /\ Traced(w)
  /\ current => Observed(w, era)
  /\ pc[q] \in InAttempt /\ current => base[q].pack = head.pack
  /\ pc[q] \in InAttempt /\ calm[q] => current /\ Matches(w)
  /\ pc[q] \in AfterVerify /\ current =>
       \A p \in Paths : Mismatched(files[p]) => p \in meddled[q] \cup w.changed \cup w.deleted
  /\ Answers(q) => \A p \in Paths : Mismatched(files[p]) => p \in meddled[q]
  /\ pc[q] = "prepare" => SamplesMatch(w) /\ \A p \in Paths : disk[p] \in late[q][p]
  /\ \A p \in w.checked : pc[q] = "prepare" /\ w.sample[p] \in late[q][p]

RevisionInv ==
  /\ SyncInv
  /\ RowsAreHashed /\ ManifestCoversIndexed /\ RowsMatchPack
  /\ \A p \in Paths : disk[p] \in era[p]
  /\ \A q \in Procs : StepInv(q)
=============================================================================
