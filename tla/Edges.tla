--------------------------------- MODULE Edges ---------------------------------
(***************************************************************************)
(* Import edges: how an import resolves to a file (src/src/graph/), and    *)
(* what a publish stores, drops and resolves again of the edges            *)
(* (src/src/sync/revision.rs, revision_edges.rs).                          *)
(*                                                                         *)
(* A path is [dir, stem, ext] with dir a sequence of names.  The text of   *)
(* an import is what extraction makes of it: its form, the levels it goes  *)
(* up and the names that follow; `unmodeled` is syntax no resolver knows.  *)
(***************************************************************************)
EXTENDS Naturals, Sequences, FiniteSets, SequencesExt

CONSTANTS
  Paths,       \* the paths files may have
  ImportsOf,   \* per path and version: the imports its text has, in order
  EdgeEdits    \* bound: edits of the tree

ASSUME EdgesAssumption ==
  EdgeEdits \in Nat /\ DOMAIN ImportsOf = Paths \X {"v1", "v2"}

VARIABLES
  disk,     \* per path: "absent", its version, or "skipped" (too large, not text)
  stored,   \* the same of the files table
  edges,    \* dependency_edges
  edits

edgeVars == <<disk, stored, edges, edits>>

Forms == {"crate", "self", "super", "local", "relative", "dots", "dotted", "bare", "package", "unmodeled"}
Absent == "absent"
NoFile == [dir |-> <<>>, stem |-> "", ext |-> ""]
FileStates == {Absent, "v1", "v2", "skipped"}

-----------------------------------------------------------------------------
\* Paths (normalize_join, parent_dir, candidate lists).

Named(dir, stem, ext) == [dir |-> dir, stem |-> stem, ext |-> ext]
Parent(dir) == IF dir = <<>> THEN <<>> ELSE Front(dir)
WithExt(path, ext) == Named(Front(path), Last(path), ext)
Ancestor(dir, n) == SubSeq(dir, 1, IF n > Len(dir) THEN 0 ELSE Len(dir) - n)

Resolution(kind, confidence, to) == [kind |-> kind, confidence |-> confidence, to |-> to]
Unresolved == Resolution("Unresolved", "none", NoFile)
External == Resolution("External", "none", NoFile)
Forced(r) == IF r.kind = "Resolved" THEN [r EXCEPT !.confidence = "Low"] ELSE r

\* pick: the first candidate that exists, of High confidence if it is the only one.
Pick(candidates, known) ==
  LET found == {i \in DOMAIN candidates : candidates[i] \in known} IN
  IF found = {} THEN Unresolved
  ELSE Resolution("Resolved", IF Cardinality(found) = 1 THEN "High" ELSE "Low", candidates[Min(found)])

FirstOf(resolutions) ==
  LET hits == {i \in DOMAIN resolutions : resolutions[i].kind = "Resolved"} IN
  IF hits = {} THEN Unresolved ELSE resolutions[Min(hits)]

-----------------------------------------------------------------------------
\* Rust.

\* rust_module_dir: where the children of a file's module live.
ModuleDir(file) == IF file.stem \in {"mod", "lib", "main"} THEN file.dir ELSE Append(file.dir, file.stem)

\* crate_src_dir: src beside the nearest manifest above the file.
CrateSrc(file, known) ==
  LET manifests == {n \in 0..Len(file.dir) : Named(SubSeq(file.dir, 1, n), "Cargo", "toml") \in known}
      nearest == CHOOSE n \in manifests : \A k \in manifests : k <= n
  IN IF manifests = {} THEN <<"src">> ELSE Append(SubSeq(file.dir, 1, nearest), "src")

ModuleFile(dir, known) ==
  IF dir = <<>> THEN Unresolved
  ELSE Pick(<<WithExt(dir, "rs"), Named(dir, "mod", "rs"), Named(dir, "lib", "rs"), Named(dir, "main", "rs")>>, known)

\* resolve_rust_path: the longest prefix of the names that is a module file.
RustPath(names, base, known) ==
  FirstOf([k \in 1..Len(names) |->
    LET path == base \o SubSeq(names, 1, Len(names) + 1 - k)
    IN Pick(<<WithExt(path, "rs"), Named(path, "mod", "rs")>>, known)])

FromBase(names, base, known) ==
  IF names = <<>> THEN ModuleFile(base, known) ELSE RustPath(names, base, known)

\* first_resolved: the names from each base, else the module file of each.
FirstResolved(names, bases, known) ==
  Forced(FirstOf([k \in 1..Len(bases) |-> FromBase(names, bases[k], known)]
                 \o [k \in 1..Len(bases) |-> ModuleFile(bases[k], known)]))

CrateRoot(base, known) == Pick(<<Named(base, "lib", "rs"), Named(base, "main", "rs")>>, known)

ResolveRust(ref, file, known) ==
  CASE ref.form = "crate" ->
         LET base == CrateSrc(file, known) IN
         IF ref.names = <<>> THEN CrateRoot(base, known)
         ELSE FirstOf(<<RustPath(ref.names, base, known), Forced(ModuleFile(base, known))>>)
    [] ref.form = "self" -> FirstResolved(ref.names, <<ModuleDir(file), file.dir>>, known)
    [] ref.form = "super" ->
         FirstResolved(ref.names, <<Ancestor(ModuleDir(file), ref.up), Ancestor(file.dir, ref.up)>>, known)
    [] OTHER ->
         LET local == Forced(FromBase(ref.names, ModuleDir(file), known))
         IN IF local.kind = "Resolved" THEN local ELSE External

-----------------------------------------------------------------------------
\* Python, JavaScript and the other languages.

Extensions == [python |-> <<"py">>, javascript |-> <<"js", "ts">>]
IndexStem == [python |-> "__init__", javascript |-> "index"]

\* candidate_paths: the path, the path with each extension, then its index.
Candidates(path, language) ==
  LET exts == Extensions[language] IN
  <<WithExt(path, "")>>
  \o [k \in 1..Len(exts) |-> WithExt(path, exts[k])]
  \o [k \in 1..Len(exts) |-> Named(path, IndexStem[language], exts[k])]
  \o <<Named(path, IndexStem[language], "")>>

CandidatePaths(path, language, known) ==
  IF path = <<>> THEN Unresolved ELSE Pick(Candidates(path, language), known)

\* resolve_python_relative: above the root nothing resolves; dots alone name
\* the package.
PythonDots(ref, file, known) ==
  LET base == Ancestor(file.dir, ref.up) IN
  IF ref.up > Len(file.dir) THEN Unresolved
  ELSE IF ref.names = <<>> THEN Pick(<<Named(base, "__init__", "py")>>, known)
  ELSE CandidatePaths(base \o ref.names, "python", known)

ResolveGeneric(ref, file, language, known) ==
  CASE ref.form = "relative" ->
         IF ref.up > Len(file.dir) THEN Unresolved
         ELSE CandidatePaths(Ancestor(file.dir, ref.up) \o ref.names, language, known)
    [] ref.form = "dots" -> PythonDots(ref, file, known)
    [] ref.form = "dotted" -> CandidatePaths(ref.names, language, known)
    [] OTHER -> External

LanguageOf(file) ==
  CASE file.ext = "rs" -> "rust" [] file.ext = "py" -> "python" [] file.ext = "js" -> "javascript"
    [] OTHER -> "none"

\* resolve_one of the registry.
Resolve(ref, file, known) ==
  IF ref.form = "unmodeled" THEN Unresolved
  ELSE IF LanguageOf(file) = "rust" THEN ResolveRust(ref, file, known)
  ELSE ResolveGeneric(ref, file, LanguageOf(file), known)

-----------------------------------------------------------------------------
\* Publishing.

On(state) == {f \in Paths : state[f] # Absent}
Imports(file, state) ==
  IF LanguageOf(file) = "none" \/ state[file] \notin {"v1", "v2"} THEN <<>> ELSE ImportsOf[<<file, state[file]>>]

Edge(file, n, ref, r) ==
  [from |-> file, n |-> n, ref |-> ref, kind |-> r.kind, confidence |-> r.confidence, to |-> r.to]

\* resolve_and_store: every import of an upserted file has one edge.
StoredEdges(file, state, known) ==
  {Edge(file, n, Imports(file, state)[n], Resolve(Imports(file, state)[n], file, known)) :
     n \in DOMAIN Imports(file, state)}

\* apply_deletions: edges of deleted files go, edges to them lose the target.
AfterDeletions(deleted) ==
  {IF e.to \in deleted THEN Edge(e.from, e.n, e.ref, Unresolved) ELSE e :
     e \in {x \in edges : x.from \notin deleted}}

\* Wrong variant: an edge found Unresolved stays so.
LeftUnresolved(e, known) == e

\* re_resolve_unresolved: a modeled edge whose target appeared gets it.
ReResolved(e, known) ==
  LET r == Resolve(e.ref, e.from, known) IN
  IF e.kind = "Unresolved" /\ e.ref.form # "unmodeled" /\ r.kind = "Resolved"
  THEN Edge(e.from, e.n, e.ref, r) ELSE e

\* publish_revision: deletions, upserts, their edges, then the Unresolved
\* ones of all files if a path came or went.
PublishEdges ==
  LET deleted == On(stored) \ On(disk)
      upserts == {f \in On(disk) : stored[f] # disk[f]}
      known == On(disk)
      kept == {e \in AfterDeletions(deleted) : e.from \notin upserts}
      written == kept \cup UNION {StoredEdges(f, disk, known) : f \in upserts}
  IN /\ stored # disk
     /\ stored' = disk
     /\ edges' = IF On(stored) # On(disk) THEN {ReResolved(e, known) : e \in written} ELSE written
     /\ UNCHANGED <<disk, edits>>

EditFile ==
  /\ edits < EdgeEdits /\ edits' = edits + 1
  /\ \E f \in Paths, to \in FileStates : to # disk[f] /\ disk' = [disk EXCEPT ![f] = to]
  /\ UNCHANGED <<stored, edges>>

EdgesInit ==
  /\ disk \in [Paths -> {Absent, "v1"}] /\ stored = [f \in Paths |-> Absent]
  /\ edges = {} /\ edits = 0

EdgesNext == PublishEdges \/ EditFile
EdgesSpec == EdgesInit /\ [][EdgesNext]_edgeVars

EdgesTypeOK ==
  /\ disk \in [Paths -> FileStates] /\ stored \in [Paths -> FileStates] /\ edits \in 0..EdgeEdits
  /\ \A e \in edges : /\ e.kind \in {"Resolved", "Unresolved", "External"}
                      /\ e.confidence \in {"none", "Low", "High"} /\ e.ref.form \in Forms
                      /\ e.to \in Paths \cup {NoFile}

-----------------------------------------------------------------------------
\* What a query of dependency_edges may rely on, whatever was added, removed
\* or skipped since an importer was last indexed: every import of every
\* indexed file has one edge, and there are no others; a Resolved edge leads to
\* a file that is stored, the others lead nowhere; and no import that would
\* resolve is still Unresolved (revision_edges.rs).
EdgesAreSound ==
  /\ \A e \in edges : /\ e.from \in Paths /\ e.n \in DOMAIN Imports(e.from, stored)
                      /\ e.ref = Imports(e.from, stored)[e.n]
  /\ \A f \in Paths : \A n \in DOMAIN Imports(f, stored) :
       \E e \in edges : e.from = f /\ e.n = n
  /\ \A e, d \in edges : e.from = d.from /\ e.n = d.n => e = d
  /\ \A e \in edges :
       /\ IF e.kind = "Resolved" THEN e.to \in On(stored) /\ e.confidence # "none" ELSE e.to = NoFile
       /\ e.kind = "Unresolved" => Resolve(e.ref, e.from, On(stored)).kind # "Resolved"

EdgesInv ==
  /\ disk \in [Paths -> FileStates] /\ stored \in [Paths -> FileStates]
  /\ EdgesAreSound
================================================================================
