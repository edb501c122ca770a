# A TLA+ model of SlugAudit

SlugAudit is an MCP server that answers questions about a source tree from a
SQLite index. There is no watcher: before every tool call it walks the tree,
hashes it, and commits what changed as one *revision*. Several server processes
(one per agent session) share the database of a project, and editors change the
tree at any time. The specifications in this directory model that system, TLC
checks them on small instances, and TLAPS proves the central theorems for every
instance.

Run everything from this directory:

    tlc -workers 2 -config race.cfg MCPublish.tla      # a run
    tlapm PublishProofs.tla                            # the proofs of a module

## Inventory

Source paths are relative to `src/src/`. `PROJECT.json` has the same list with
the files of each part, and the definition of each module that stands for each
stretch of code.

| Part | State it keeps | What is hard | What makes it correct | Module |
|---|---|---|---|---|
| Publish path (`sync/publish_*.rs`, `revision*.rs`, `discovery.rs`, `sample*.rs`, `revalidate.rs`) and verified read (`tools/context.rs`) | tables `files`, `revisions`, `unrepresentable_paths`; per attempt: baseline, walk, hashes, diff, samples | the tree and the database change between any two steps; retries | an answer comes from an index the disk justified during the call; older samples never replace newer ones; calls return | `Publish`, `ProjectIndex` |
| Worker pool (`sync/file_pool.rs`, `sample_batch.rs`) | next index, error flag, first error, bytes claimed | workers, errors and the deadline race | every outcome is delivered or an error returned; the ceiling holds | `FilePool` |
| Import edges (`sync/revision_edges.rs`, `graph/`) | `dependency_edges` | the set of paths changes under stored edges | no edge leads to a file that is gone, none stays unresolved that resolves | `Edges` |
| Analysis and fetch gate (`sync/analyze*.rs`, `evidence_limits.rs`, `parse/fetch_gate.rs`) | rows of a pass, time of the last failed fetch | grammars fail, are fetched later, are cut; caps | what was cut says so; failed grammars come back and are not hammered | `Analysis` |
| Evidence (`evidence/`, `model/span.rs`) | the stack of a walk; the line index of a source | a deadline or a depth ends any walk; calls are found twice; bytes and characters differ | an extraction that tells of no cut has everything once, where it says it is | `Evidence`, `LineIndex` |
| Database lifecycle (`sync/manager_*.rs`, `store/connection*.rs`, `store/migrations.rs`, `tools/project_control.rs`) | `project.db`, its log, metadata; the directory | other processes open, rebuild or delete the same files | a read answers from an index of this build, root and call | `Lifecycle` |
| Findings sessions (`project/findings_session.rs`, `findings_sweep.rs`, `activation.rs`) | a lock file and a findings database per session | files are deleted under open handles; processes die | a live session's findings are never swept, a dead one's are | `FindingsSession` |
| Finding tools (`tools/finding*.rs`) | findings rows | a finding outlives the content it is about | a finding names the content and revision the model was shown | `Notebook` |
| Result store (`store/result_store/`, `sync/result_stores.rs`) | stored results, admitted bytes, cursors; owner files | reclaiming under readers; a killed owner | the budget holds, active results stay, no live owner is swept | `ResultStore`, `ResultOwner` |
| Paging (`tools/paginate.rs`, `page*.rs`, `leads_page.rs`, `query_clip.rs`) | cursors | limits and revision move between pages | pages are a partition of one result of one revision | `Paging` |
| Structure search (`tools/structure*.rs`) | none; the client holds the resume point | files come and go in a chain of requests | no file is missed without a word | `StructureScan` |
| Mechanics (`tools/mechanic*.rs`, `project/session_mechanics.rs`, `mechanic_scan_cache.rs`) | registered mechanics, cached scans | concurrent adds, scans cut short | a cached scan is whole and current | `Mechanics` |
| Leads and report (`tools/leads*.rs`, `report*.rs`, `sql_predicates.rs`) | none | a file only some steps read | counts say what they leave out | `Reports` |
| Limits (`model/limits.rs`, `profile.rs`, `env_overrides.rs`, `limit_overrides.rs`, `project/global_config.rs`, `session_profile.rs`) | session profiles, warnings given | four layers and two clamps | a limit a human set holds, or a warning says why not | `ResourceLimits` |
| Server runner (`server.rs`, `server_runner.rs`, `server_progress.rs`) | permits, counters, the stamp of the throttle | dropped futures, panics | permits return, work is bounded | `Server` |
| Install and update (`install*.rs`, `update*.rs`) | the binary, the retained one | crashes, power loss, two commands | some binary is whole | `Binary` |
| Connect (`connect*.rs`, `connect/`) | the clients' configuration files | a hung client, an old section, a crash | what was registered is connected, what was removed is not | `Clients` |
| Ignore rules, command line, menus, gates, benches | none that outlives a call | | see "Not modelled" | |

The parts meet in four places: the SQLite file (published by one process, read
by all), the activation directory (which `off` deletes under everyone), the
tree, which the program only reads, and the memory of one server (result store,
mechanics, profiles, permits).

## Modules

**`ProjectIndex`** is what the index promises the tools, without saying how: a
map from paths to identities, offered to a call only when the disk justified
each entry at some moment of that call, and withdrawn when another call replaces
it.

**`Publish`** models one sync call from `publish_with_limits` to the end of
`with_verified_read`, by any number of processes. Its state:

| Variable | In the code |
|---|---|
| `disk` | the source tree: path to content |
| `files`, `head`, `unrep` | the tables `files`, `revisions` (current row) and `unrepresentable_paths` |
| `pc`, `attempt`, `base`, `work`, `synced` | the position of each process in its call, `attempt` of `publish_cas.rs`, `expected_current`, the values of `DiffState` and `CommitInputs`, `SyncedProject.revision_id` |
| `calls`, `edits`, `tampers` | counters of the bounds |
| `seen`, `era`, `calm`, `meddled`, `late` | observers: what the disk held since the call, the revision, the end of pass 2 began; what was edited since the baseline or the check |

A file's bytes are one value of `Contents`; constant sets say how the code
classifies it (`Binary`, `NonUtf8`, `Oversize`, `Unreadable`, `Unstatable`,
`Flaky` for a grammar that may fail to load). An identity is a hash of the
content or, for a skipped file, of its size and mtime. Each read of a file and
each SQL statement outside a transaction is a step of its own, so every
interleaving of edits, two passes and other processes is there; the Immediate
transaction is one step. The steps, in the order of the code:

| Action | Code |
|---|---|
| `BeginCall`, `ReadBaseline` | `publish`, `current_revision_row` |
| `ListEntry`, `SniffEntry`, `EndWalk` | the walk; `collect_file_entry` reads the first bytes for the kind |
| `StatSkipped` | `collect_skipped` / `skipped_record`, after the walk, pass 1 and pass 2 |
| `HashFile` | `hash_one` in the pool, any order |
| `DiffAgainstStored`, `AddLoadFailedRetries` | `diff_against_stored`, with its two SELECTs apart |
| `VerifyStored` | `content_mismatches`, `force_content_repairs` |
| `ReplaceUnrepresentable` | its own transaction, then the branch of `try_publish` |
| `UnchangedReport` | the answer without a commit |
| `SampleFile`, `CheckSamples` | pass 2 and `check_samples_match_pass1` |
| `Revalidate` | `revalidate_unchanged_since_sample` |
| `PublishRevision` | the write transaction with `assert_baseline` |
| `VerifiedRead`, `StaleRevision` | `with_verified_read` and its refusal |
| `Abort` | deadline, database or limit error, or a killed process, at any point |
| `Edit`, `Tamper` | the environment |

Stale baselines, changed samples and vanished files go through `RetryOrFail`,
which throws the attempt away as `publish_with_limits` does.

**`MCPublish`** gives values to the constants. **`PublishProofs`** has the
theorems, the refinement among them.

**`FindingsSession`** models the life of each process's `findings-<id>.db`
(`project/findings_session.rs`, `findings_sweep.rs`) with the on/off switch
(`project/activation.rs`). Its state: the directory (`dir`), the files in it
(`lockfile`, `db`), and per process its entry in `SESSIONS` or the one it is
making (`id`), the lock handle it keeps (`held`), the loop counter of
`take_own_lock` (`attempt`), what its sweep or its `off` has left to do (`todo`)
and the lock file its sweep has open (`target`, `handle`). Each operating-system
call is an action: `OpenOwn`, `LockOwn`, `CheckOwn` are one round of
`take_own_lock`; `List` and `ReapOpen` to `ReapFile` are `sweep_dead_sessions`
and `reap_if_dead`; `Off`, `OffUnlink`, `OffRmdir` are `disable`. Locks follow
the opened file and removals follow the name, as on POSIX systems, so a lock
file has a version: the attempt that created it. Who holds a lock is not stored
but derived (`Locked`). A process that dies (`Quit`) drops its handles and
leaves its files. `calm` is an observer: no `off` since this session began.
**`MCFindingsSession`** adds the symmetry.

**`Lifecycle`** has the connections of several processes to the files that have
the name `project.db` and to the log of each; SQLite is external, down to the
last connection that writes the log back and deletes it by name. `ensure_current`
is the chain `MakeDir`, `BeginSession`, `OpenExisting` or `Create`, `Connect`,
`EnsureRow`, `Walk`, `Commit`, `CloseConnection`, each with its error branch;
discarding is `UnlinkMain` and `UnlinkLogs`, `off` is `RemoveEntry` and
`RemoveDir`; `VerifiedRead` opens a second connection by name. A publish is one
walk and one commit here.

**`FilePool`** is `run_worker` one atomic operation at a time (`CheckFlag`,
`ClaimIndex`, `CheckDeadline`, `ProcessFile`, `SendOutcome`; `RaiseFlag` and
`RecordError` for `abort`) and `Collect`.

**`Edges`** computes `Resolve` for Rust, Python and JavaScript references over a
set of paths, and `PublishEdges` does to the stored edges what `publish_revision`
does: drop, null, store, resolve the unresolved again.

**`Analysis`** is one pass over the files: `AskGate`, `LoadGrammar`,
`RecordFetchFailure`, `Parse`, `SpendDeadline`, and what `to_file_record` stores
under the caps; `StartPass` adds the retries the gate allows, `EndPass` stores
all rows or none. Its workers run side by side, which is more than a pass does
(it analyzes one file after another) and covers passes of two calls on one gate.
`ToolFetch` is a tool that asks the language pack for a grammar past the gate. **`Reports`** extends it: the predicates, counts and groups of
`leads` and `report` as functions of the rows.

**`Evidence`** runs the walks with their explicit stacks (`VisitBinding`,
`VisitImport`, `VisitRust`, `Recover` for macro arguments, `VisitQueried`), any
of which the deadline may end. A tree is given by numbers: a node's number is
its place in the source, `last` the last node below it, `kids` and `inside` its
children and the nodes that reparsing a macro's arguments gives. An outermost macro is reparsed even if
its arguments are empty, a nested one need not be (`Opens`), and a range that
cannot be sliced ends like a parse that failed. What a file has
(`HasSymbol`, `HasImport`, `HasCall`) is said of the tree alone, without a walk.
**`MCEvidence`** writes the trees as nested nodes and numbers them.

**`LineIndex`** is the table a source's positions are looked up in, and the two
producers of spans: rows of the parse tree, or of the index where a tree is of
text put together from macro arguments. A text is a sequence of kinds of bytes
(newline, ASCII, first byte of a longer character, continuation).

**`ResultStore`** has the writers, the registry's two-step admission (`Plan`,
`Admit`) and the readers that touch entries outside its mutex. **`ResultOwner`**
has the lock files and databases under `results/`, one operating-system call at
a time; the listing or any operation on a listed file may fail (`ListFails`,
`FileFails`), and the sweep goes on with the rest. **`Paging`** cuts a stored result into pages, one call per step.
**`StructureScan`** follows a chain of requests. **`Mechanics`** has the
registrations and the scan cache, each behind a mutex of its own; the cache's
byte counter is kept step by step as the code keeps it (`Recounted` after a
drop, `Uncharged` and `Evicted` on insertion), and that it is the sum of what is
cached is part of the invariant.

**`ResourceLimits`** derives five limits (file, parse, import, response, store)
anew for each call: the table of the profile, config.json on it, the environment
last, each followed by the clamp of what is parsed. The five stand for the rest,
which pass through the same helpers. **`Notebook`** has the calls of `finding`,
`finding_clear` and `finding_read` with a step per transaction; publishes and
switches of other calls fall in between.

**`Server`** has the semaphore, the closure on a blocking thread, the future
that may be dropped, the counters and the throttle. **`Binary`** has install and
update with a page cache that a power loss empties. **`Clients`** has connect
and disconnect over a client's command line and config file. A client's own `mcp
add` and `mcp remove` write the config while a command waits for them, and also
after the command was killed and left them running (`ClientAdds`,
`ClientRemoves`), so a registration may be there although `add` timed out.

The `MC` modules give instances. Components that share no state are checked in
one run: a variable `part` says which one a behaviour is of, the others stay in
one of their initial states. **`MCKept`** joins `ResultStore`, `ResourceLimits`
and `Notebook`; **`MCReading`** joins `ResultOwner`, `Paging`, `StructureScan`,
`Mechanics` and `Reports`; **`MCSystem`** joins `Lifecycle`, `FilePool`,
`Edges`, `LineIndex`, `Evidence`, `Server`, `Binary` and `Clients`.

The theorems are in modules of their own: **`PublishProofs`**,
**`FindingProofs`** (`FindingsSession`, `Notebook`), **`ResultOwnerProofs`**,
**`LifecycleProofs`**; **`BudgetProofs`** has those of the components that keep
within bytes, `ResultStore`, `FilePool` and `Mechanics`, from the laws of sums
and folds in **`FoldProofs`**; **`ReadingProofs`** those of `StructureScan`,
`Paging`, `ResourceLimits`, `LineIndex` and `Evidence`; **`SystemProofs`** those
of `Server`, `Binary`, `Clients`, `Analysis`, `Reports` and `Edges`.

## Runs

| Run | Instance | What it shows |
|---|---|---|
| `race` | 2 processes, 2 paths, 2 texts, 1 edit, 1 retry | answers are justified by the disk during their own call, revisions move forward only, `Publish` implements `ProjectIndex` (`KeepsPromise`) |
| `settled` | as `race`, processes of different parser packs | rows agree with manifest and pack and held at one late moment |
| `odd_files` | 1 process, 1 path of any kind of content, 2 edits, 2 calls, 1 edit of the stored text | types; retries have a cause; altered text is not served |
| `storm` | 2 processes, 1 path, edits without end | every call returns |
| `sessions` | 2 processes, 3 session ids, 2 lock attempts, 1 death, 1 off | the first lock protects; starts return; what ended is removed |
| `kept` | store: 3 results, 1 reader, a budget of 2 pages; limits: 2 projects, 6 configuration files, 5 environments, 4 hosts, 3 choices; notebook: 2 calls, 1 file of 2 contents, 2 revisions, 2 sessions, 2 entries, a clock set back | admitted bytes are what is held; results are whole; reclaiming is fair; limits are as set; findings are sound |
| `reading` | owners: 2 servers, 2 lock attempts, 1 kill or off; paging: page sizes 0, 4, 7, 12 under ceilings 3 and 10; structure: 4 paths, 3 sizes, 4 changes of tree; mechanics: 2 callers, 3 calls, 2 ids, 2 queries; analysis: 2 workers, 4 files (Rust, Python without a loadable grammar, over the limit, prose), 4 extractions | live files are kept and dead ones go; pages are sound and of one revision; no file missed; cache and answers whole; rows honest, gaps reported, fetches rationed, grammars return |
| `system` | lifecycle: 2 processes, 3 files, 3 logs, 2 calls each, 1 fault; pool: 2 workers, 3 files of 1 or 3 bytes, a ceiling of 4; edges: 2 edits; spans: every text of up to 4 characters of 1 to 3 bytes, newlines among them, blocks of 3 bytes; evidence: the trees of `MCEvidence`, depth 4, macros 2 deep; server: 3 calls, 2 permits; binary: 2 commands, 2 uploads, 1 fault; clients: 2 runs | a verified read is fresh; the verdict of the import; edges, spans, evidence, permits, binary, registrations |

Four runs end in a counterexample, each against a sentence of the repository:

- `find_kind`: the kind of a file is taken during the walk and used for the
  whole attempt, but guarded by a hash taken later. A file that turns from
  binary to text in between is published without its text, and since its hash
  then matches, no later sync repairs it (`sync/discovery.rs:186`) - against
  "Every tool answer matches the code on disk at the moment of the call"
  (`docs/how-it-works.md:5`).
- `find_wipe_race`: a session whose first lock file was just removed by one
  sweep is without a lock file until it makes the second. A sweep of a third
  process that looks in between takes it for finished and, later, deletes its
  findings and its new lock file by name (`project/findings_sweep.rs:78`) -
  against "each agent session keeps its own findings and never wipes another's"
  (`project/findings_session.rs:105`).
- `find_sweep_live`: `sweep_owner` locks the file it opened and then removes
  whatever has that name. A server that dropped its store and opened it again in
  between loses its new lock file (`store/result_store/owner.rs:220`) - against
  "it never touches a live owner's files" (`owner.rs:6`).
- `find_stale_scan`: cached scans are found by project and revision id, and a
  rebuilt database issues the same ids again (`project/mechanic_scan_cache.rs:185`)
  - against "a stale result can neither be served nor linger" (`:7`).

In the first, a call that no edit disturbed gives the wrong row, which is why
`AnswerMatchesDisk` is stated for quiet calls only. `AnswerIsFresh`, which does
hold, is about identities and says nothing of a row's kind.

### The bounds, and why they are enough

One edit reaches every window of the publish path, because it can fall between
any two steps; what needs two (content that changes and changes back) needs no
second process and is in `odd_files`. One retry is enough to throw an attempt
away and to exhaust the counter (`MAX_CAS_RETRIES` is 4 in the code; the proofs
hold for any value). Two processes are enough for a baseline to move.

In `FindingsSession` an id is a first touch, so 3 ids are three starts; 2 lock
attempts allow a retry and giving up (`LOCK_ATTEMPTS` is 3 in the code). The
race of two sweeps over a starting session needs three processes and is
`find_wipe_race`; `sessions` shows with two what does hold.

Everywhere else the sizes are the smallest that reach both sides of each
comparison: a row larger than a page and two that fill it exactly; a result
that fits the budget only after reclaiming; an item over the cap of an item,
more items than the cap of their number, and items that leave no room for the
marker; a limit below, at and above what SQLite stores; two files that pass the
import ceiling one by one and not together; one fault, because the code makes no
promise about two. `Cooldown`, clocks and revisions count to 2: before, at and
after a boundary. `SetClock` only sets the clock back, `MaxEntries` bounds the
findings of a session.

Symmetry is used where only safety is checked (`race`, `settled`,
`find_wipe_race`, and the results of `kept`). Deadlock is not checked: with the
calls of the bound used up, everything stops.

### Fairness

Only the steps of a call under way are weakly fair, per process (`Step`): the
threads of a call run until it returns. Nothing obliges a client to call, an
editor to edit or a process to die, and no fairness is asked of `Abort`, so
`storm` does not rely on the deadline. `FindingsSession` has the same kind of
fairness. The other components are checked for safety and for what a step may
do; `DeadFilesGo`, `GrammarsReturn` say what is gone or retried when a sweep or
a pass *ends*, without asking that it does.

## What the model says that no run is named for

Disagreements of code and comment met while modelling, which the definitions
keep as the code has them:

- The number of syntax errors of a row is taken before the caps, so it cannot
  be derived from the stored diagnostics (`model/parser.rs:68`,
  `sync/evidence_limits.rs:112`). The marker of a cap is itself counted as a
  diagnostic by `leads`.
- An edge that resolved to a worse candidate keeps it when a better one appears
  (`sync/revision_edges.rs:36`, against `docs/how-it-works.md:46`).
- The manifest hash is over pass 1's identities, also when pass 2 then skips a
  file (`sync/publish_diff.rs:118`, `sync/revision.rs:86`); a slow process may
  replace the table of non-UTF-8 paths by an older walk's set
  (`sync/publish_attempt.rs:185`, `sync/publish.rs:212`).
- `off` ends only the session of the process that runs it but removes the lock
  files of all (`project/activation.rs:205`, `:213`). Another process keeps its
  entry in `SESSIONS`, goes on without a lock file once the project is on again,
  and the next start deletes its findings. With `MaxOffs = 1` and two processes
  `NeverWipesAnothers` fails this way too (in 18 steps); `find_wipe_race` keeps
  `MaxOffs = 0` to show the race by itself, and `FirstLockProtects` excepts
  sessions that saw an `off`.
- A structure query (`tools/structure_exec.rs:233`), a mechanic's scan
  (`tools/mechanic_scan.rs:225`) and the check of a new mechanic
  (`tools/mechanic_catalog.rs:161`) have the language pack fetch a grammar that
  is not on the host, the gate open or not, though the comment on the gate says
  such grammars "are not requested" (`parse/fetch_gate.rs:8`). `ToolFetch` keeps
  this; `FetchesAreRationed` speaks of the fetches of sync passes only.
- A verified read opens the database by name and looks for the revision id its
  sync committed. A database rebuilt in between may have issued the same id
  (the cause of `find_stale_scan`), so the read may be of another revision with
  that id. `ReadIsFresh` says what still holds: the answer is of this build and
  root and no older than the call; it does not say that it is of the sync's own
  commit.
- A finding's hash is read in a transaction that ended before the write
  (`tools/finding.rs:102`; `finding.rs:75` says it was verified while the write
  ran). What is stored is still a hash the file had in the revision named. A
  write whose path was found before an `off` and an `on` creates the database of
  the session that ended.
- `max_result_store_bytes: 0` is reported as ignored, but keeps the store's
  budget from following `max_query_response_bytes` (`project/global_config.rs:291`).
  `parse` is clamped to the file limit of config.json before the environment
  raises that limit, though the comment on it names the effective one (`:69`).
  `LimitsAreAsSet` therefore says nothing of `parse` but its bound.
- A tool and the sync before it derive their limits separately, so an edit of
  config.json in between gives one call two sets.
- `health` reads the revision and its two counts in separate statements outside a
  transaction (`tools/health.rs:245`), so a sync of another server may publish
  between them, though the comment on the answer (`:164`) promises one unit: it
  speaks of failures, and the counts may be of a later revision than the id.
- A retained binary may be one that an earlier power loss had torn
  (`install.rs:150`); `RetainedTorn` excepts it.

## Proofs

A theorem here is for every value of a module's constants, under the module's
named assumptions and nothing else. Each inductive invariant was checked by TLC
on the instances above before it was proved. Most proofs have one lemma per
action; where several actions do the same to the state, a lemma about that
effect comes first.

### Publish path (`PublishProofs`)

For every set of paths, contents, processes, parser packs and every bound:

- `TypeCorrect`, `AnswersAreFresh` (`AnswerIsFresh`), from `SyncInvHolds`;
- `ManifestHolds`, `PackHolds`, `ServedTextHolds` (`ManifestCoversIndexed`,
  `RowsMatchPack`, `ServedTextIsVerified`), `RevisionsAdvance`, `CommitsHeld`,
  `RetriesAreCaused` (the action properties `RevisionsMoveForward`,
  `CommitsWhatHeld`, `RetriesHaveACause`), from `RevisionInvHolds`;
- `PromiseKept`: `Spec => KeepsPromise`, that `Publish` implements
  `ProjectIndex`.

`AnswerIsFresh` alone is not inductive: whether a commit is justified depends on
what the attempt gathered long before. `SyncInv` says, per process: what the
attempt holds was on the disk since the call began (`Observed`); it hashed what
it discovered and recorded what it skipped (`Shaped`, `Walked`, `Hashed`); and
*as long as the baseline is still current*, the rows differ from what pass 1
found only where the diff says (`DiffFits`). A commit by another process breaks
`DiffFits`' premise for everyone else, because revision numbers only grow, and
that is the whole use of the compare-and-swap. The step that commits
(`CommittedRows`) then goes row by row: a skip row has an observed identity, an
upserted row an observed content, a deleted path was not found, and a row that
was left alone matches pass 1 by `DiffFits`. The environment's steps only make
the sets of what was seen grow.

`RevisionInv` adds what relates rows to each other and to revisions. Of the
rows: only hashed files have a text (`RowsAreHashed`), the manifest names their
bytes, they are of the revision's pack. Of a process (`StepInv`): where an
attempt has a sample it has an identity from pass 1 (`Traced`), which is why
pass 2 can be compared with it at all; an attempt whose baseline is current has
seen only what the disk held since that revision (`Observed(w, era)`), which
makes revisions go forward; an attempt no edit disturbed has a current baseline
and agrees with the disk (`Matches`), so whatever throws it away was caused; and
after the check of the stored text, a row that does not match its hash is about
to be replaced or was altered after the check. A quiet retry and the last check
of the samples are the two places where these meet.

The refinement maps the rows to the abstract index, `seen` to what justified it.
`PromiseInit` and `PromiseNext` show initial states and steps: only
`PublishRevision` and `VerifiedRead` are steps of the abstract specification,
all others stutter, and `RevisionInv` is what makes the commit a justified
replacement.

Assumptions: `Version` is a function into `Versions`, the bounds are numbers,
`Absent` and `None` are neither contents nor identities nor rows, and `Unrep` is
a set of paths.

### Findings (`FindingProofs`)

For any number of processes, ids, lock attempts, deaths and offs:
`SessionTypeCorrect`, `FirstLockHolds` (`FirstLockProtects`), from
`SessionInvHolds`.

`FirstLockProtects` speaks of finished sessions only, and whether a sweep may
hold the lock of one was decided while it was starting. `SessionInv` adds: ids
have one owner (`Owned`), a session that has made no file is known to no sweep
(`Unseen`), no file or handle is newer than the owner's last attempt
(`Versions`), and as long as the first lock file has its name, a sweep that has
decided against the session holds the lock and the owner does not (`Guarded`).
`CheckOwn` turns that into `Marked`. The step that fails for later attempts is
`Guarded`: a sweep that found no file holds no lock. The proofs use only
`SessionAssumption` (the bounds are numbers, `LockAttempts` is positive, `None`
is no id).

For any number of calls, files, contents, sessions and publishes:
`FindingsHold` (`FindingsAreSound`), from `NotebookHolds`. `finding` works in
transactions that end before the next begins, so `NotebookInv` says what a call
carries over the gap: the hash its file had in the revision it names, and a
range of lines of that content (`NoteHolds`). The history of revisions only
grows, so a publish in the gap leaves that true; it is `tables` at the call's
revision, not the newest, that the entry is about. Entries have growing ids, no
falling times and no two identities alike (`InOrder`). Restating an entry takes
out the one with its identity, of which `InOrder` makes at most one; that the
last entry has the greatest time is what gives `at_least_timestamp` a value when
the clock was set back (`NotBeforeIsLate`).

### Results (`ResultOwnerProofs`, `BudgetProofs`, `FoldProofs`)

For any number of servers, directories, kills, offs and lock attempts:
`FirstLockHolds` (`FirstLockMarks`), `LiveFilesHold` (`LiveFilesKept`) and
`DeadFilesAreGone` (`DeadFilesGo`), from `OwnerInvHolds`. A lock is on a file
and a sweep removes names, so everything depends on which file has the name.
`OwnerInv` says: a name has the latest file made for it or none
(`LatestIsNamed`); nobody holds a lock another holds (`LockIsExclusive`); a
first file that is held still has its name (`FirstIsNamed`), since a sweep that
got its lock found it without an owner; an orphan's first file is named no more
(`OpeningHolds`); and what the dead left stays on the lists of the sweep that
saw it until the sweep removes it (`LeftIsListed`). The proof of the last
showed a case the property had left out, which TLC then confirmed with three
servers: while one sweep holds a dead server's lock another is refused it, and
passes on. `DeadFilesGo` excepts it, and a dead server with a file on which an
operation of the sweep failed (`ListFailsKeeps`, `FileFailsKeeps`): such a file
stays until a later sweep, and what failed for one server's files changes
nothing for another's.

For any results, sizes, budget and readers: `AdmittedBytesHold`
(`AdmittedIsHeld`), `ResultsHold` (`ResultsAreWhole`), `ReclaimsFairly`
(`ReclaimIsFair`), from `StoreInvHolds`. `StoreInv` says that a registered
result is one no writer touches (`EntriesHeld`), that the counter is the sum of
their files, and that a plan which found room still finds it when it is carried
out, because the registry is locked from `Plan` to `Admit` (`PlanFits`).
`ReclaimIsFair` needs the order of reclaiming: of the results that were spared,
the first in `Before` could not be, so everything before it is a victim, read
results first. The sum and the count need the assumption that `Results` is
finite.

For any workers, files, bytes and ceiling: `PoolInvariant`, `OutcomesKept`,
`ClaimsStayBelow`, and `VerdictHolds` (`ImportVerdict`). `PoolInv` says an index
is claimed once, a raised flag has an error that was or will be recorded, a
worker that aborts carries one, and the claimed bytes never pass the ceiling.
`ClaimInv` adds that the total is the sum over the files whose bytes were
claimed, and that a refusal means those and the refused file exceed the ceiling
together. So the verdict depends on the files and not on who claimed first.

`FoldProofs` has the facts on sums these use. The library defines a sum by a
fold over any order of choice, and its induction theorems take an operator as a
parameter, which the provers cannot instantiate. `FoldProofs` therefore proves
by hand, for sets and from the well-foundedness of the naturals (`WFMin`), that
the fold's function exists, that the order does not matter, and from it
`SumWithout` (one element out) and `SumSplit` (any subset out). For sequences the
order is fixed, and `SequenceFoldExists`, `MaxOfSegment`, `UpTo` and `FoldSteps`
give what a fold made of each prefix.

### Database lifecycle (`LifecycleProofs`)

For any number of processes, files, logs and faults: `ReadsAreFresh`
(`ReadIsFresh`), from `LifecycleInvHolds`. The read opens by name what the sync
committed through another connection, so `LifecycleInv` says what a name can
lead to. Unless the log of a live database was deleted by name (`split`): each
file that has connections has one log (`OneLogEach`), which goes on from the
file (`LogsContinue`); a name goes to later files only, so a connection whose
file lost the name leaves to its call what was published since it began
(`LostIsRenewed`); a commit goes on from the revision it is based on, so at the
revision a sync committed nothing by that name is older than its call
(`SyncedIsFresh`, `FreshOnly`).

### Server, binary, clients (`SystemProofs`)

- `BoundHolds` (`WorksAreBounded`), from `ServerInvHolds`: `ServerInv` says a
  permit is a granted future's or a running work's (`PermitIsUsed`), so what is
  free and the holders add up to `Permits` however futures are dropped
  (`PermitsAdd`; the holders are finite even if the calls are not). The counters
  never fall behind what a call was told, and the stamp of the throttle is that
  of the last event that passed, which a thread about to swap it has compared
  its event with.
- `RunnableHolds` (`BinaryIsRunnable`), from `BinaryInvHolds`: past its check a
  command stages a whole build only, it retains only a target that was there,
  and what is retained was synced before it got its name, so no power loss
  reaches it.
- `RegistrationsProved` (`RegistrationsHold`), from `ClientsInvHolds`: a command
  at the file holds an object that `is_connected` sees exactly when it is a
  connect, a file that is no object has no sections and is never staged, and a
  temporary file is of a command before its rename or killed. It assumes the
  table of clients is well-typed (`ClientsAssumption`).

### Analysis (`SystemProofs`)

For any files, grammars, caps, workers and cool-down: `HonestyHolds`
(`AnalysisIsHonest`), `RationHolds` (`FetchesAreRationed`) and `GrammarsDoReturn`
(`GrammarsReturn`), from `AnalysisInvHolds`.

- The caps first, as a fact about any list of items (`CapsHold`): after k items
  what is kept fits the caps, less the room for the marker, and is all of them
  unless one was discarded (`KeptOf`); `AdmitKeeps` is the step from k - 1 to k.
  `StoredIsHonest` carries that to any row that was honest before the caps.
- A worker that passed the gate before it shut can still fail a fetch, so the
  number of failed fetches alone is not inductive: `Rationed` bounds it together
  with the workers that can still pay (`Paying`), of whom nobody is new while the
  gate is shut. A worker whose grammar is on this host does not pay.
- `GrammarsReturn` speaks of the end of a pass about its beginning:
  `RetriesHold` says each row that failed to load is waiting, taken or done
  (`InHand`), and as long as no fetch failed the gate has not shut, so what is
  found `LoadFailed` is a grammar that does not load.

`AnalysisAssumption` takes `MaxItems` positive and `MarkerBytes` at most
`MaxBytes`: `evidence` is not among the limits a config or the environment
changes, and each profile's are far above the 512 bytes of the marker.

### Mechanics (`BudgetProofs`)

For any callers, ids, queries, costs and budget: `CacheStaysSound`
(`CacheIsSound`) and `AnswersStayWhole` (`AnswersAreWhole`), from
`MechanicsHold`. The cache and the entries have a mutex each and no step holds
both, so what ties them is what a call carries (`CallHolds`): the entries it
selected are those it holds rows of, those it missed and those it has still to
ask for, and each row it holds is of the entry's own query, over every file
unless the call was stopped. That a row's query is in its key is what keeps an
id that was removed and added anew from the rows of the old one.

- What `drop_stale`, `remove_id` and a removal leave is a subsequence: its
  elements have different places in what it is left of (`AmongPlaces`), so ids
  stay unique, it is no longer and is charged no more (`ChargedLess`).
- The counter is the sum: what `Uncharged` and `Recounted` make of it is the
  charge of what is left (`ChargedInParts`, `RecountedIs`), so subtracting never
  goes below zero.
- An insertion fits: `EvictedFits` follows the evictions one by one from the
  front until there is room, which there is in the empty cache at the latest,
  rows above the budget being never inserted.
- The rows of a pass are a fold over files of folds over entries;
  `RetainedHolds` says that after n files an entry holds n files' rows or has
  given up all of them, for each budget shared in any way.

### Structure scan and pages (`ReadingProofs`)

For any paths, sizes, parse limits, edits and timeouts: `NoFileIsMissed`
(`NoFileMissed`), from `ChainInvHolds`. `NoFileMissed` speaks of a chain that
ended; `ChainInv` adds for one that is open that every untouched file up to its
resume point is accounted for: parsed, over the limit or timed out. A step is
the fold of `SourceWindow` over the paths: after k of them the window is in
order, holds or has passed every matching file up to `last`, and, once full,
has examined nothing since. That the cut file is not `last` is what makes the
next request begin at it.

For any rows, cells, page sizes, ceilings and calls: `PagesHold`
(`PagesAreSound`), from `PagingInvHolds`. `PagingInv` says the stored result is
as a first call made it and the last page is `Served` of its rows, so the rest
is about the operators:

- `share_room` serves the cells from the shortest on, each an equal part of the
  room that is left. Before the first grant that falls short the room holds at
  least that grant for each cell left; from then on it stays between g and
  g + 1 times the cells left (`GrantMoves`, `OneMoreGrant`), so no later cell
  gets less than g or more than g + 1, and nothing of the room is left over.
  `SharedFairly` and `ClippedFairly` carry this through the fold, whose order is
  the model's own, to the clipped row.
- What a page takes is the longest run of rows that fits (`TakenIs`), and a page
  that fits in fewer bytes takes no more rows (`SmallerPage`), so at the ceiling
  no other `page_bytes` gives a longer one.

`PagingAssumption` says that sizes, caps and ceilings are positive numbers and
that a row's cells have lengths; a `ceiling` starts at any of `Ceilings`.

### Import edges (`SystemProofs`)

For any paths, references and order of edits: `EdgesHold` (`EdgesAreSound`). With
the types of the stored files (`EdgesInv`) the property is inductive by itself,
and all of the proof is in the one action `PublishEdges`, which does four things
to the edges in turn. An edge is kept only if its importer's text was, so its
reference is still the importer's n-th; what is added is of importers whose
edges were dropped, so no import has two. A resolved edge whose target went is
made unresolved before the last step looks at it. That step asks the resolver
for the new set of paths, so what it leaves does not resolve there, and what the
resolver returns is among the paths it was given, for each of the three
languages.

### Leads and report (`SystemProofs`)

For any files, languages, grammars and caps: `GapsHold` (`GapsAreReported`), from
`ReportsInvHolds`. The counts are read off rows, and whether they add up depends
on which rows there can be: `ReportsInv` says each is a result that `analyze`
gives for a file of that kind. From this a file that has a language is in
exactly one of the two groups, a row that was neither cut nor capped holds all
its items (`CapsHold` again), and a file without evidence falls under one of the
reasons. The rest is counting: the outcomes and the kinds are disjoint and
together are the stored files, and the calls of two disjoint groups of files are
the sum of theirs (`SumSplit`), zero only if each is (`SumOfZeros`,
`SumPositive`).

`ReportsAssumption`: files are finitely many, and a file is withheld for its size
only if it has a language of the pack, since `analyze` answers prose and what it
does not know before it looks at the size.

### Limits (`ReadingProofs`)

For any tables, configurations, environments, hosts and choices of profile:
`LimitsHold` (`LimitsAreAsSet`), from `LimitsInvHolds`. `LimitsInv` ties the
last derivation to what it read (`Derived`): the configuration and the profile
in force gave its table, its limits and its warnings, and those were logged. Any
step that changes a source forgets the derivation or makes it anew; the process
limits a start installs are not among what a call derives. The property then
follows layer by layer: the environment replaces a key the file set, the clamp
of what is parsed comes last, and each value that was refused or clamped has a
warning. `LimitsAssumption`: settings are numbers or unset, and the two tables
read no more than SQLite stores; that the adaptive one does not either is
proved.

### Spans (`ReadingProofs`)

For any source and any block size: `SpansHold` (`SpanIsExact`), from
`SpanInvHolds`. The index never changes after it is built, so `SpanInv` says it
is what `new` made and that the last span is exact, and the proof is about the
lookup. An entry of the table is the characters before its block (`TableIs`), by
the sum over the blocks so far, so a count from the table and a count from the
start agree wherever a character lies over the edge of a block
(`CharsBeforeIs`). The greatest of the first `line` starts is the last newline
before the byte (`LineStartIs`), whose column is therefore a difference of two
exact counts (`PositionIs`). A tree's row is the index's line, since no newline
is within a character (`RowIs`), so it does not matter which of the two a
producer takes. A later byte has a later line or a column that is no less
(`PositionsAreInOrder`): `Span::new` never refuses. `LineAssumption` is that a
source is UTF-8, which Rust's `str` is.

### Evidence (`ReadingProofs`)

For any set of trees, any depths, and any deadlines and failed parses:
`EvidenceHolds` (`EvidenceIsExact`), from `EvidenceInvHolds`. The property speaks
of an extraction that ended, and of walks that each know only their stack.
`EvidenceInv` says what holds in between:

- what is pending lies in the order of the source, a macro's arguments before its
  siblings, and no two pending nodes have a node below them in common
  (`PendingInTurn`);
- what is carried down with a node is what the tree says of it: its depth, its
  caller, whether it is below an import (`PendingIsTrue`); `CallerUnder`,
  `CallerInside`, `DepthUnder` and `BelowAnImport` are the step from a node to
  its children, by `AboveUnder`: what is above a child is what is above its
  parent, and the parent;
- what a walk gave is before everything it has pending (`GivenIsPast`), so it
  cannot give a node twice; keys are below their counters;
- while nothing was cut, a node that a walk has passed, one that is neither
  pending nor below a pending one, was given if it had to be (`NothingLost`).

A visit takes the first pending node off and puts its children on (`Replaced`),
after which exactly the visited node is passed more than before. The query for
calls starts none below the depth of the walks and does not say so. That loses
nothing: the first walk went over the same nodes to the same depth and would
have told, which `NothingLost` keeps as the depth of what it passed. A call of
Rust whose range was seen is lost only to a node before it, the outer one of the
two, and `GivenCall` says that.

`EvidenceAssumption`: the depths are numbers, positive for walks and macros, and
each file is a tree (`IsTree`): numbered in the order of the source, the nodes
below one being those of its children and arguments one after another, and
arguments only in macros of Rust.

### Model-checked only

- Liveness (`EveryCallReturns`, `CallsReturn`, `EndedFindingsGo`): beyond TLAPS.
- `AnswersAreCurrent` does not hold (run `find_stale_scan`).
- The type invariants of the `MC` modules, of the instances only.

## Plan

Next, in order of importance:

1. `Lifecycle` composed with `Publish` over one database, so that a rebuilt
   database meets a running attempt.
2. The parts of the tools not modelled yet: health, the filters of leads, the
   statements `query` allows.
3. Reference definitions for pure algorithms: capped reads, ignore patterns.

## Not modelled

Formatting, logging and the shape of answers; SQL text and the statements
`query` allows; the language packs, whose results are an input of `Analysis`,
and how a reference is cut out of an import's text; ignore-file matching (a
third-party crate decides which paths a walk lists, and `Publish` takes any set
of paths); command line, menus, build gates, benches and fuzz targets.

Simplified where no property could tell the difference: `LineIndex.CheckedSpan`
leaves out the refusal of a position beyond `u32` (`model/span.rs`) or `i64`, and
`Evidence` the walk that ends on one, since a source is far below both; `Edges` has two of
the six JavaScript extensions, and no imports in the languages that pass through
the same generic resolver with other extensions; in `Server` the increments and loads of `record_call`
(`tool_counters.rs:72`) are one step.

Within modules: in `Publish` torn reads (they hash to no content and fail the
comparison of the passes) and the ceiling on imported bytes (an `Abort`;
`FilePool` has it); in `FindingsSession` and `ResultOwner` Windows file
semantics, network file systems (the docs warn of both), a lock kept alive by a
forked child, the older `findings.db`, a single entry of `results/` that cannot
be read while the rest can; in `Lifecycle` symlinks, permissions and
the waits for a busy database; in `Paging` the encoding of rows; in
`StructureScan` the compilation of queries and requests for one file; in
`Mechanics` the files mechanics are read from; in `Reports` path filters, the
dependency sections and `health`; in `ResourceLimits` the limits that pass
through the same helpers as the five; in `Notebook` the lengths of texts and the
filter of `finding_read`; in `Clients` a client that saves its config between
our read and our rename: the file is replaced whole, no lock exists that both
would take, and the code promises nothing about it.
