---------------------------- MODULE PublishProofs ----------------------------
(* Theorems about Publish, for every set of paths, contents and processes   *)
(* and every bound.                                                         *)
EXTENDS Publish, TLAPS

USE DEF vars, db, observers, Nothing, Present

\* Every value an attempt stores in its work record keeps it a work record.
LEMMA WorkUpdates ==
  ASSUME NEW w \in Work, NEW p \in Paths
  PROVE  /\ \A k \in Kinds : [w EXCEPT !.kind[p] = k] \in Work
         /\ \A i \in Idents \cup {None} : [w EXCEPT !.ident[p] = i] \in Work
         /\ \A r \in SkipRecord \cup {None} : [w EXCEPT !.rec[p] = r] \in Work
         /\ \A c \in Contents \cup {None} : [w EXCEPT !.sample[p] = c] \in Work
         /\ [w EXCEPT !.checked = @ \cup {p}] \in Work
  BY DEF Work

LEMMA NoWorkType == NoWork \in Work
  BY DEF NoWork, Work, Kinds

LEMMA IdentTypes ==
  /\ \A c \in Contents : HashId(c) \in Idents /\ StatId(c) \in Idents
  BY DEF Idents

LEMMA GatherType ==
  ASSUME TypeOK, NEW self \in Procs, NEW s \in Stages, NEW w \in Work, Gather(self, s, w)
  PROVE  TypeOK'
  BY DEF TypeOK, Gather

LEMMA EndCallType ==
  ASSUME TypeOK, NEW self \in Procs, EndCall(self)
  PROVE  TypeOK'
  BY NoWorkType, BoundAssumption DEF TypeOK, EndCall, Forget, Stages, Baselines, NoBaseline

LEMMA RetryType ==
  ASSUME TypeOK, NEW self \in Procs, RetryOrFail(self)
  PROVE  TypeOK'
<1>1. CASE MayRetry(self)
  <2>1. attempt[self] + 1 \in 0..MaxRetries
    BY <1>1, BoundAssumption DEF MayRetry, TypeOK
  <2>2. /\ Forget(self, "baseline")
        /\ attempt' = [attempt EXCEPT ![self] = attempt[self] + 1]
        /\ UNCHANGED <<disk, db, synced, calls, edits, tampers, seen, era>>
    BY <1>1 DEF RetryOrFail
  <2> QED
    BY <2>1, <2>2, NoWorkType DEF TypeOK, Forget, Stages, Baselines, NoBaseline
<1>2. CASE ~MayRetry(self)
  BY <1>2, EndCallType DEF RetryOrFail
<1> QED
  BY <1>1, <1>2

LEMMA TypeInit == Init => TypeOK
<1> SUFFICES ASSUME Init PROVE TypeOK
  OBVIOUS
<1>1. files \in [Paths -> Row \cup {None}]
  <2>1. \A p \in Paths, c \in Contents \cup {Absent}, v \in Versions :
          RowAt(p, c, v) \in Row \cup {None}
    <3> SUFFICES ASSUME NEW c \in Contents, NEW v \in Versions PROVE RowOf(c, v) \in Row
      BY DEF RowAt
    <3> QED
      BY IdentTypes DEF RowOf, Row, Reasons
  <2>2. EmptyIndex => files \in [Paths -> Row \cup {None}]
    BY DEF EmptyIndex
  <2>3. ASSUME NEW tree \in [Paths -> Contents \cup {Absent}], NEW v \in Versions,
               ExactIndex(tree, v)
        PROVE  files \in [Paths -> Row \cup {None}]
    BY <2>1, <2>3 DEF ExactIndex
  <2> QED
    BY <2>2, <2>3 DEF Init
<1>2. head \in Revisions
  <2>1. \A p \in Paths, c \in Contents \cup {Absent}, v \in Versions :
          RowAt(p, c, v) # None => RowAt(p, c, v).ident \in Idents
    <3> SUFFICES ASSUME NEW c \in Contents, NEW v \in Versions PROVE RowOf(c, v).ident \in Idents
      BY DEF RowAt
    <3> QED
      BY IdentTypes DEF RowOf
  <2>2. CASE EmptyIndex
    BY <2>2 DEF EmptyIndex, NoRevision, Revisions, Manifests
  <2>3. ASSUME NEW tree \in [Paths -> Contents \cup {Absent}], NEW v \in Versions,
               ExactIndex(tree, v)
        PROVE  head \in Revisions
    BY <2>1, <2>3 DEF ExactIndex, Revisions, Manifests
  <2> QED
    BY <2>2, <2>3 DEF Init
<1>3. unrep \subseteq Paths
  BY PathAssumption DEF Init, EmptyIndex, ExactIndex
<1> QED
  BY <1>1, <1>2, <1>3, NoWorkType, BoundAssumption
     DEF Init, TypeOK, Stages, Baselines, NoBaseline

LEMMA TypeEnvironment ==
  ASSUME TypeOK, Environment
  PROVE  TypeOK'
<1>1. ASSUME NEW p \in Paths, NEW c \in Contents \cup {Absent}, Edit(p, c)
      PROVE  TypeOK'
  BY <1>1 DEF TypeOK, Edit
<1>2. ASSUME NEW p \in Paths, NEW c \in Contents, Tamper(p, c)
      PROVE  TypeOK'
  <2>1. files' \in [Paths -> Row \cup {None}]
    <3>1. files[p] \in [kind: {"indexed", "binary"}, reason: {None},
                        content: Contents \cup {None}, ident: Idents, by: Versions,
                        parser: {"Loaded", "LoadFailed"}]
      BY <1>2 DEF TypeOK, Tamper, Row
    <3>2. [files[p] EXCEPT !.content = c] \in Row
      BY <3>1 DEF Row
    <3> QED
      BY <1>2, <3>2 DEF TypeOK, Tamper
  <2> QED
    BY <1>2, <2>1 DEF TypeOK, Tamper
<1> QED
  BY <1>1, <1>2 DEF Environment

\* Steps that only rewrite what one attempt has gathered.
LEMMA TypeWalk ==
  ASSUME TypeOK, NEW self \in Procs, NEW p \in Paths,
         ListEntry(self, p) \/ SniffEntry(self, p)
  PROVE  TypeOK'
<1> DEFINE w == work[self]
<1>w. w \in Work /\ self \in Procs
  BY DEF TypeOK
<1>1. CASE ListEntry(self, p)
  BY <1>w, <1>1, WorkUpdates, GatherType DEF ListEntry, Kinds, Stages
<1>2. CASE SniffEntry(self, p)
  <2> DEFINE k == IF p \in Unrep THEN "unrep"
                  ELSE IF disk[p] \in Unreadable THEN "unreadable"
                  ELSE IF disk[p] \in Binary THEN "binary" ELSE "indexed"
             r == IF k = "unreadable" THEN [reason |-> "unreadable", ident |-> None]
                  ELSE w.rec[p]
             v == [w EXCEPT !.kind[p] = k, !.rec[p] = r]
  <2>1. CASE disk[p] = Absent
    BY <1>2, <2>1, RetryType DEF SniffEntry
  <2>2. CASE disk[p] # Absent
    <3>1. r \in SkipRecord \cup {None}
      BY <1>w DEF SkipRecord, Reasons, Work
    <3>2. k \in Kinds
      BY DEF Kinds
    <3>3. v \in Work
      BY <1>w, <3>1, <3>2 DEF Work
    <3>4. Gather(self, "walk", v)
      BY <1>2, <2>2 DEF SniffEntry
    <3> QED
      BY <3>3, <3>4, GatherType DEF Stages
  <2> QED
    BY <2>1, <2>2
<1> QED
  BY <1>1, <1>2

LEMMA TypePassOne ==
  ASSUME TypeOK, NEW self \in Procs, NEW p \in Paths,
         StatSkipped(self, p) \/ HashFile(self, p)
  PROVE  TypeOK'
<1> DEFINE w == work[self]
<1>w. w \in Work
  BY DEF TypeOK
<1>d. disk[p] \in Contents \cup {Absent}
  BY DEF TypeOK
<1>1. CASE StatSkipped(self, p)
  <2> DEFINE r == [reason |-> IF disk[p] \in Unstatable THEN "stat_failed" ELSE w.rec[p].reason,
                   ident |-> IF w.rec[p].reason = "not_utf8" THEN w.ident[p]
                             ELSE StatId(disk[p])]
  <2>1. CASE disk[p] = Absent
    BY <1>1, <2>1, RetryType DEF StatSkipped
  <2>2. CASE disk[p] # Absent
    <3>1. w.rec[p] \in SkipRecord /\ pc[self] \in Stages
      BY <1>w, <1>1 DEF StatSkipped, Pending, Work, TypeOK
    <3>2. r \in SkipRecord
      BY <1>w, <1>d, <2>2, <3>1, IdentTypes DEF SkipRecord, Reasons, Work
    <3> QED
      BY <1>w, <1>1, <2>2, <3>1, <3>2, WorkUpdates, GatherType DEF StatSkipped
  <2> QED
    BY <2>1, <2>2
<1>2. CASE HashFile(self, p)
  <2>1. CASE HashOutcome(disk[p]) = "vanished"
    BY <1>2, <2>1, RetryType DEF HashFile
  <2>2. CASE HashOutcome(disk[p]) = "error"
    BY <1>2, <2>2, EndCallType DEF HashFile
  <2>3. CASE HashOutcome(disk[p]) = "oversize"
    BY <1>w, <1>2, <2>3, WorkUpdates, GatherType
       DEF HashFile, SkipRecord, Reasons, Stages
  <2>4. CASE HashOutcome(disk[p]) = "hash"
    BY <1>w, <1>d, <1>2, <2>4, IdentTypes, WorkUpdates, GatherType
       DEF HashFile, HashOutcome, Stages
  <2> QED
    BY <2>1, <2>2, <2>3, <2>4 DEF HashOutcome
<1> QED
  BY <1>1, <1>2

LEMMA TypeDiff ==
  ASSUME TypeOK, NEW self \in Procs,
         \/ ReadBaseline(self) \/ EndWalk(self) \/ DiffAgainstStored(self)
         \/ AddLoadFailedRetries(self) \/ VerifyStored(self) \/ ReplaceUnrepresentable(self)
  PROVE  TypeOK'
<1> DEFINE w == work[self]
<1>w. w \in Work
  BY DEF TypeOK
<1>1. CASE ReadBaseline(self)
  BY <1>1 DEF ReadBaseline, TypeOK, Baselines, Revisions, Stages
<1>2. CASE EndWalk(self)
  BY <1>w, <1>2, GatherType DEF EndWalk, Stages
<1>3. CASE DiffAgainstStored(self)
  <2> DEFINE now == PassOne(w)
             present == {p \in Paths : now[p] # None}
             changed == {p \in present : files[p] = None \/ files[p].ident # now[p]}
             deleted == {p \in Paths \ present : files[p] # None}
  <2>1. Gather(self, "retries", [w EXCEPT !.changed = changed, !.deleted = deleted])
    BY <1>3 DEF DiffAgainstStored
  <2>2. changed \subseteq Paths /\ deleted \subseteq Paths
    OBVIOUS
  <2> HIDE DEF changed, deleted
  <2>3. [w EXCEPT !.changed = changed, !.deleted = deleted] \in Work
    BY <1>w, <2>2 DEF Work
  <2> QED
    BY <2>1, <2>3, GatherType DEF Stages
<1>6. CASE AddLoadFailedRetries(self)
  <2>1. LoadFailedPaths(w) \subseteq Paths
    BY DEF LoadFailedPaths
  <2>2. [w EXCEPT !.changed = @ \cup LoadFailedPaths(w)] \in Work
    BY <1>w, <2>1 DEF Work
  <2> QED
    BY <1>w, <1>6, <2>2, GatherType DEF AddLoadFailedRetries, Stages
<1>4. CASE VerifyStored(self)
  <2>1. [w EXCEPT !.changed = @ \cup Repairs(self)] \in Work
    <3>1. Repairs(self) \subseteq Paths
      BY DEF Repairs
    <3> QED
      BY <1>w, <3>1 DEF Work
  <2>2. work' = [work EXCEPT ![self] = [w EXCEPT !.changed = @ \cup Repairs(self)]]
    BY <1>4 DEF VerifyStored
  <2> QED
    BY <1>4, <2>1, <2>2 DEF VerifyStored, TypeOK, Stages
<1>5. CASE ReplaceUnrepresentable(self)
  BY <1>5 DEF ReplaceUnrepresentable, TypeOK, Stages
<1> QED
  BY <1>1, <1>2, <1>3, <1>4, <1>5, <1>6

LEMMA SyncedType ==
  ASSUME TypeOK, NEW self \in Procs, NEW r \in Nat, Synced(self, r)
  PROVE  /\ pc' \in [Procs -> Stages]
         /\ base' \in [Procs -> Baselines]
         /\ work' \in [Procs -> Work]
         /\ synced' \in [Procs -> Nat]
         /\ late' \in [Procs -> [Paths -> SUBSET (Contents \cup {Absent})]]
  BY NoWorkType DEF Synced, TypeOK, Stages, Baselines, NoBaseline

LEMMA TypePassTwo ==
  ASSUME TypeOK, NEW self \in Procs, NEW p \in Paths,
         SampleFile(self, p) \/ Revalidate(self, p)
  PROVE  TypeOK'
<1> DEFINE w == work[self]
           outcome == SampleOutcome(disk[p], w.kind[p])
<1>w. w \in Work
  BY DEF TypeOK
<1>d. disk[p] \in Contents \cup {Absent}
  BY DEF TypeOK
<1>o. /\ outcome \in {"vanished", "error", "oversize", "not_utf8", "sample"}
      /\ outcome = "sample" => disk[p] # Absent
  BY DEF SampleOutcome
<1>1. CASE SampleFile(self, p)
  <2> HIDE DEF outcome
  <2>1. CASE outcome = "vanished"
    BY <1>1, <2>1, RetryType DEF SampleFile, outcome
  <2>2. CASE outcome = "error"
    BY <1>1, <2>2, EndCallType DEF SampleFile, outcome
  <2>3. CASE outcome \in {"oversize", "not_utf8"}
    <3>1. [reason |-> outcome, ident |-> None] \in SkipRecord
      BY <2>3 DEF SkipRecord, Reasons
    <3>2. Gather(self, "pass2", [w EXCEPT !.rec[p] = [reason |-> outcome, ident |-> None]])
      BY <1>1, <2>3 DEF SampleFile, outcome
    <3> QED
      BY <1>w, <3>1, <3>2, WorkUpdates, GatherType DEF Stages
  <2>4. CASE outcome = "sample"
    <3>1. Gather(self, "pass2", [w EXCEPT !.sample[p] = disk[p]])
      BY <1>1, <2>4 DEF SampleFile, outcome
    <3> QED
      BY <1>w, <1>d, <1>o, <2>4, <3>1, WorkUpdates, GatherType DEF Stages
  <2> QED
    BY <1>o, <2>1, <2>2, <2>3, <2>4
<1>2. CASE Revalidate(self, p)
  <2>1. \/ RetryOrFail(self) \/ EndCall(self)
        \/ Gather(self, "prepare", [w EXCEPT !.checked = @ \cup {p}])
    BY <1>2 DEF Revalidate
  <2> QED
    BY <1>w, <2>1, WorkUpdates, RetryType, EndCallType, GatherType DEF Stages
<1> QED
  BY <1>1, <1>2

LEMMA TypeCommit ==
  ASSUME TypeOK, NEW self \in Procs, Shaped(work[self]),
         UnchangedReport(self) \/ CheckSamples(self) \/ PublishRevision(self)
  PROVE  TypeOK'
<1> DEFINE w == work[self]
<1>w. w \in Work
  BY DEF TypeOK
<1>1. CASE UnchangedReport(self)
  <2>1. CASE head.rev = base[self].rev
    <3>1. base[self].rev \in Nat
      BY DEF TypeOK, Baselines
    <3>2. /\ Synced(self, base[self].rev)
          /\ UNCHANGED <<disk, db, attempt, calls, edits, tampers, seen, era, calm, meddled>>
      BY <1>1, <2>1 DEF UnchangedReport
    <3> QED
      BY <3>1, <3>2, SyncedType DEF TypeOK
  <2>2. CASE head.rev # base[self].rev
    BY <1>1, <2>2, RetryType DEF UnchangedReport
  <2> QED
    BY <2>1, <2>2
<1>2. CASE CheckSamples(self)
  <2>1. CASE SamplesMatch(w)
    <3>1. late' \in [Procs -> [Paths -> SUBSET (Contents \cup {Absent})]]
      <4>1. Present \in [Paths -> SUBSET (Contents \cup {Absent})]
        BY DEF TypeOK
      <4> QED
        BY <1>2, <2>1, <4>1 DEF CheckSamples, TypeOK
    <3>2. pc' \in [Procs -> Stages]
      BY <1>2, <2>1 DEF CheckSamples, TypeOK, Stages
    <3> QED
      BY <1>2, <2>1, <3>1, <3>2 DEF CheckSamples, TypeOK
  <2>2. CASE ~SamplesMatch(w)
    BY <1>2, <2>2, RetryType DEF CheckSamples
  <2> QED
    BY <2>1, <2>2
<1>3. CASE PublishRevision(self)
  <2>1. CASE BaselineHolds(self)
    <3>1. PICK failed \in SUBSET Paths : files' = NewFiles(self, failed)
      BY <1>3, <2>1 DEF PublishRevision, Upserts
    <3>2. /\ head' = [rev |-> head.rev + 1, pack |-> Version[self], manifest |-> PassOne(w)]
          /\ Synced(self, head.rev + 1)
          /\ era' = [p \in Paths |-> {disk[p]}]
          /\ calm' = [q \in Procs |-> FALSE]
          /\ UNCHANGED <<disk, unrep, attempt, calls, edits, tampers, seen, meddled>>
          /\ Pending(w) = {}
      BY <1>3, <2>1 DEF PublishRevision, Revalidated
    <3>3. head' \in Revisions /\ head.rev + 1 \in Nat
      <4>1. PassOne(w) \in Manifests
        BY <1>w DEF PassOne, Manifests, Work, SkipRecord
      <4> QED
        BY <3>2, <4>1, VersionAssumption DEF TypeOK, Revisions
    <3>4. ASSUME NEW p \in Paths
          PROVE  NewFiles(self, failed)[p] \in Row \cup {None}
      <4>1. CASE w.rec[p] # None
        <5>1. w.rec[p].reason \in Reasons /\ w.rec[p].ident \in Idents
          BY <1>w, <3>2, <4>1 DEF Work, SkipRecord, Pending
        <5>2. SkipRow(w.rec[p]) \in Row
          BY <5>1 DEF SkipRow, Row
        <5> QED
          BY <4>1, <5>2 DEF NewFiles
      <4>2. CASE w.rec[p] = None /\ w.sample[p] # None
        <5>1. w.sample[p] \in Contents
          BY <1>w, <4>2 DEF Work
        <5>2. w.kind[p] \in {"indexed", "binary"}
          BY <4>2 DEF Shaped, Discovered
        <5>3. \A parser \in {"Loaded", "LoadFailed"} : FileRow(self, p, parser) \in Row
          BY <5>1, <5>2, IdentTypes, VersionAssumption DEF FileRow, Row
        <5> QED
          BY <4>2, <5>3 DEF NewFiles
      <4>3. CASE w.rec[p] = None /\ w.sample[p] = None
        BY <4>3 DEF NewFiles, TypeOK
      <4> QED
        BY <4>1, <4>2, <4>3
    <3> QED
      BY <3>1, <3>2, <3>3, <3>4, SyncedType DEF TypeOK, NewFiles
  <2>2. CASE ~BaselineHolds(self)
    BY <1>3, <2>2, RetryType DEF PublishRevision
  <2> QED
    BY <2>1, <2>2
<1> QED
  BY <1>1, <1>2, <1>3

-----------------------------------------------------------------------------
(* The invariant of one call: what a step of a call, of another call, or of *)
(* the environment leaves of it.                                            *)

LEMMA EmptyWork == \A S : Observed(NoWork, S) /\ Shaped(NoWork)
  BY DEF NoWork, Observed, Shaped, Discovered

LEMMA ObservedGrows ==
  ASSUME NEW w, NEW S, NEW T, \A p \in Paths : S[p] \subseteq T[p], Observed(w, S)
  PROVE  Observed(w, T)
  BY DEF Observed

LEMMA OthersKeep ==
  ASSUME SyncInv, NEW q \in Procs, UNCHANGED <<disk, files, head>>,
         pc'[q] = pc[q], base'[q] = base[q], work'[q] = work[q],
         synced'[q] = synced[q], seen'[q] = seen[q]
  PROVE  CallInv(q)'
<1>1. CallInv(q)
  BY DEF SyncInv
<1> QED
  BY <1>1 DEF CallInv, ToSample, PackChanged, Answers, Justified, DiffFits

LEMMA EndCallKeeps ==
  ASSUME SyncInv, NEW self \in Procs, EndCall(self)
  PROVE  SyncInv'
<1>1. TypeOK'
  BY EndCallType DEF SyncInv
<1>2. ASSUME NEW q \in Procs PROVE CallInv(q)'
  <2>1. CASE q # self
    BY <2>1, OthersKeep DEF EndCall, Forget, SyncInv, TypeOK
  <2>2. CASE q = self
    <3>1. /\ pc'[q] = "idle" /\ work'[q] = NoWork /\ base'[q].rev = 0 /\ synced'[q] = 0
          /\ head' = head /\ head.rev \in Nat
      BY <2>2 DEF EndCall, Forget, SyncInv, TypeOK, NoBaseline, Revisions
    <3> QED
      BY <3>1, EmptyWork DEF CallInv, Answers, AfterDiff
  <2> QED
    BY <2>1, <2>2
<1> QED
  BY <1>1, <1>2 DEF SyncInv

LEMMA RetryKeeps ==
  ASSUME SyncInv, NEW self \in Procs, pc[self] # "idle", RetryOrFail(self)
  PROVE  SyncInv'
<1>1. CASE ~MayRetry(self)
  BY <1>1, EndCallKeeps DEF RetryOrFail
<1>2. CASE MayRetry(self)
  <2>0. /\ Forget(self, "baseline")
        /\ UNCHANGED <<disk, db, synced, calls, edits, tampers, seen, era>>
    BY <1>2 DEF RetryOrFail
  <2>1. TypeOK'
    BY RetryType DEF SyncInv
  <2>2. ASSUME NEW q \in Procs PROVE CallInv(q)'
    <3>1. CASE q # self
      BY <2>0, <3>1, OthersKeep DEF Forget, SyncInv, TypeOK
    <3>2. CASE q = self
      <4>1. /\ pc'[q] = "baseline" /\ work'[q] = NoWork /\ base'[q].rev = 0
            /\ synced'[q] = synced[q] /\ seen'[q] = seen[q]
            /\ head' = head /\ head.rev \in Nat /\ disk' = disk
        BY <2>0, <3>2 DEF Forget, SyncInv, TypeOK, NoBaseline, Revisions
      <4>2. CallInv(q) /\ pc[q] # "idle"
        BY <3>2 DEF SyncInv
      <4> QED
        BY <4>1, <4>2, EmptyWork DEF CallInv, Answers, AfterDiff
    <3> QED
      BY <3>1, <3>2
  <2> QED
    BY <2>1, <2>2 DEF SyncInv
<1> QED
  BY <1>1, <1>2

LEMMA GatherKeeps ==
  ASSUME SyncInv, NEW self \in Procs, NEW s \in InAttempt, NEW w \in Work,
         pc[self] \in InAttempt, Gather(self, s, w),
         Observed(w, seen[self]), Shaped(w),
         s \in AfterDiff \cup {"pass1"} => Walked(w),
         s \in AfterDiff => Hashed(w) /\ DiffSides(w),
         s \in AfterDiff /\ base[self].rev = head.rev => DiffFits(w, files),
         s = "recheck" => w.changed = {} /\ w.deleted = {},
         s = "prepare" =>
           \A p \in Discovered(w) :
             w.ident[p] # None /\ (PackChanged(self) \/ p \in w.changed) =>
               w.sample[p] # None \/ w.rec[p] # None
  PROVE  SyncInv'
<1>1. TypeOK'
  BY GatherType DEF SyncInv, InAttempt
<1>2. ASSUME NEW q \in Procs PROVE CallInv(q)'
  <2>1. CASE q # self
    BY <2>1, OthersKeep DEF Gather, SyncInv, TypeOK
  <2>2. CASE q = self
    <3>1. /\ pc'[q] = s /\ work'[q] = w
          /\ UNCHANGED <<disk, files, head, base, synced, seen>>
      BY <2>2 DEF Gather, SyncInv, TypeOK
    <3>2. CallInv(q) /\ pc[q] # "idle"
      BY <2>2 DEF SyncInv, InAttempt
    <3> QED
      BY <2>2, <3>1, <3>2 DEF CallInv, Answers, ToSample, PackChanged, InAttempt
  <2> QED
    BY <2>1, <2>2
<1> QED
  BY <1>1, <1>2 DEF SyncInv

LEMMA JustifiedGrows ==
  ASSUME NEW row, NEW S, NEW T, S \subseteq T, Justified(row, S)
  PROVE  Justified(row, T)
  BY DEF Justified

LEMMA EditKeeps ==
  ASSUME SyncInv, NEW p \in Paths, NEW c \in Contents \cup {Absent}, Edit(p, c)
  PROVE  SyncInv'
<1>1. TypeOK'
  BY TypeEnvironment DEF Environment, SyncInv
<1>2. ASSUME NEW q \in Procs PROVE CallInv(q)'
  <2>1. /\ UNCHANGED <<files, head, pc, base, work, synced>>
        /\ disk' = [disk EXCEPT ![p] = c]
        /\ CallInv(q)
    BY DEF Edit, SyncInv
  <2>2. CASE pc[q] = "idle"
    <3>1. seen'[q] = seen[q]
      BY <2>2 DEF Edit, SyncInv, TypeOK
    <3> QED
      BY <2>1, <2>2, <3>1
         DEF CallInv, Answers, ToSample, PackChanged, DiffFits, AfterDiff
  <2>3. CASE pc[q] # "idle"
    <3>1. /\ \A r \in Paths : seen[q][r] \subseteq seen'[q][r]
          /\ c \in seen'[q][p]
      BY <2>3 DEF Edit, SyncInv, TypeOK
    <3>2. \A r \in Paths : disk'[r] \in seen'[q][r]
      BY <2>1, <2>3, <3>1 DEF CallInv, SyncInv, TypeOK
    <3>3. Observed(work[q], seen'[q])
      BY <2>1, <3>1, ObservedGrows DEF CallInv
    <3>4. Answers(q) => \A r \in Paths \ Unrep : Justified(files[r], seen'[q][r])
      BY <2>1, <3>1, JustifiedGrows DEF CallInv
    <3> QED
      BY <2>1, <2>3, <3>2, <3>3, <3>4
         DEF CallInv, Answers, ToSample, PackChanged, DiffFits
  <2> QED
    BY <2>2, <2>3
<1> QED
  BY <1>1, <1>2 DEF SyncInv

LEMMA TamperKeeps ==
  ASSUME SyncInv, NEW p \in Paths, NEW c \in Contents, Tamper(p, c)
  PROVE  SyncInv'
<1>1. TypeOK'
  BY TypeEnvironment DEF Environment, SyncInv
<1>2. ASSUME NEW r \in Paths
      PROVE  /\ files'[r] = None <=> files[r] = None
             /\ files[r] # None => files'[r].ident = files[r].ident
  <2>1. files \in [Paths -> Row \cup {None}] /\ None \notin Row
    BY NoneAssumption DEF SyncInv, TypeOK
  <2>2. files' \in [Paths -> Row \cup {None}]
    BY <1>1 DEF TypeOK
  <2>3. CASE r # p
    BY <2>1, <2>3 DEF Tamper
  <2>4. CASE r = p
    <3>1. files'[p] = [files[p] EXCEPT !.content = c] /\ files[p] \in Row
      BY <2>1 DEF Tamper
    <3>2. files[p] \in [kind: {"indexed", "binary"}, reason: {None},
                        content: Contents \cup {None}, ident: Idents, by: Versions,
                        parser: {"Loaded", "LoadFailed"}]
      BY <3>1 DEF Row, Tamper
    <3>3. files'[p] \in Row /\ files'[p].ident = files[p].ident
      BY <3>1, <3>2 DEF Row
    <3> QED
      BY <2>1, <2>4, <3>1, <3>3
  <2> QED
    BY <2>3, <2>4
<1>3. ASSUME NEW q \in Procs PROVE CallInv(q)'
  <2>1. UNCHANGED <<disk, head, pc, base, work, synced, seen>> /\ CallInv(q)
    BY DEF Tamper, SyncInv
  <2>2. DiffFits(work[q], files) => DiffFits(work[q], files')
    BY <1>2 DEF DiffFits
  <2>3. \A S : \A r \in Paths : Justified(files[r], S) => Justified(files'[r], S)
    BY <1>2 DEF Justified
  <2> QED
    BY <2>1, <2>2, <2>3 DEF CallInv, Answers, ToSample, PackChanged
<1> QED
  BY <1>1, <1>3 DEF SyncInv

LEMMA BeginKeeps ==
  ASSUME SyncInv, NEW self \in Procs, BeginCall(self) \/ ReadBaseline(self)
  PROVE  SyncInv'
<1>1. CASE BeginCall(self)
  <2>1. TypeOK'
    BY <1>1 DEF BeginCall, SyncInv, TypeOK, Stages
  <2>2. ASSUME NEW q \in Procs PROVE CallInv(q)'
    <3>1. CASE q # self
      BY <1>1, <3>1, OthersKeep DEF BeginCall, SyncInv, TypeOK
    <3>2. CASE q = self
      <4>1. /\ pc'[q] = "baseline" /\ seen'[q] = [p \in Paths |-> {disk[p]}]
            /\ UNCHANGED <<disk, files, head, base, work, synced>>
            /\ CallInv(q) /\ pc[q] = "idle"
        BY <1>1, <3>2 DEF BeginCall, SyncInv, TypeOK
      <4> QED
        BY <4>1, EmptyWork DEF CallInv, Answers, AfterDiff
    <3> QED
      BY <3>1, <3>2
  <2> QED
    BY <2>1, <2>2 DEF SyncInv
<1>2. CASE ReadBaseline(self)
  <2>1. TypeOK'
    BY <1>2, TypeDiff DEF SyncInv
  <2>2. ASSUME NEW q \in Procs PROVE CallInv(q)'
    <3>1. CASE q # self
      BY <1>2, <3>1, OthersKeep DEF ReadBaseline, SyncInv, TypeOK
    <3>2. CASE q = self
      <4>1. /\ pc'[q] = "walk" /\ base'[q].rev = head.rev
            /\ UNCHANGED <<disk, files, head, work, synced, seen>>
            /\ CallInv(q) /\ pc[q] = "baseline" /\ head.rev \in Nat
        BY <1>2, <3>2 DEF ReadBaseline, SyncInv, TypeOK, Revisions
      <4> QED
        BY <4>1, EmptyWork DEF CallInv, Answers, AfterDiff
    <3> QED
      BY <3>1, <3>2
  <2> QED
    BY <2>1, <2>2 DEF SyncInv
<1> QED
  BY <1>1, <1>2

\* What SyncInv says of one process's attempt, under the names the steps use.
LEMMA Attempt ==
  ASSUME SyncInv, NEW self \in Procs, pc[self] \in InAttempt
  PROVE  /\ work[self] \in Work /\ head.rev \in Nat /\ base[self].rev \in Nat
         /\ Observed(work[self], seen[self]) /\ Shaped(work[self])
         /\ \A p \in Paths : disk[p] \in seen[self][p] /\ disk[p] \in Contents \cup {Absent}
         /\ pc[self] \in AfterDiff \cup {"pass1"} => Walked(work[self])
         /\ pc[self] \in AfterDiff => Hashed(work[self]) /\ DiffSides(work[self])
         /\ pc[self] \in AfterDiff /\ base[self].rev = head.rev => DiffFits(work[self], files)
  BY DEF SyncInv, CallInv, TypeOK, InAttempt, Revisions, Baselines

LEMMA WalkKeeps ==
  ASSUME SyncInv, NEW self \in Procs, NEW p \in Paths,
         ListEntry(self, p) \/ SniffEntry(self, p)
  PROVE  SyncInv'
<1> DEFINE w == work[self]
<1>0. pc[self] = "walk" /\ pc[self] \in InAttempt
  BY DEF ListEntry, SniffEntry, InAttempt, Stages
<1>1. CASE ListEntry(self, p)
  <2> DEFINE v == [w EXCEPT !.kind[p] = IF disk[p] = Absent THEN "gone" ELSE "listed"]
  <2>1. v \in Work
    BY <1>0, Attempt, WorkUpdates DEF Kinds
  <2>2. Observed(v, seen[self])
    BY <1>0, Attempt DEF Observed, Work
  <2>3. Shaped(v)
    BY <1>0, <1>1, Attempt DEF Shaped, Work, Discovered, ListEntry
  <2>4. Gather(self, "walk", v)
    BY <1>1 DEF ListEntry
  <2> HIDE DEF v
  <2> QED
    BY <1>0, <2>1, <2>2, <2>3, <2>4, GatherKeeps DEF AfterDiff
<1>2. CASE SniffEntry(self, p)
  <2>1. CASE disk[p] = Absent
    BY <1>0, <1>2, <2>1, RetryKeeps DEF SniffEntry
  <2>2. CASE disk[p] # Absent
    <3> DEFINE k == IF p \in Unrep THEN "unrep"
                    ELSE IF disk[p] \in Unreadable THEN "unreadable"
                    ELSE IF disk[p] \in Binary THEN "binary" ELSE "indexed"
               r == IF k = "unreadable" THEN [reason |-> "unreadable", ident |-> None]
                    ELSE w.rec[p]
               v == [w EXCEPT !.kind[p] = k, !.rec[p] = r]
    <3>0. w.kind[p] = "listed" /\ w \in Work
      BY <1>0, <1>2, Attempt DEF SniffEntry
    <3>1. w.rec[p] = None /\ w.ident[p] = None /\ w.sample[p] = None
      BY <1>0, <3>0, Attempt DEF Shaped, Discovered
    <3>2. r \in SkipRecord \cup {None} /\ (r # None => k = "unreadable" /\ r.ident = None)
      BY <3>1 DEF SkipRecord, Reasons
    <3>3. k \in {"unrep", "unreadable", "binary", "indexed"} /\ (k = "unrep" => p \in Unrep)
          /\ (k = "unreadable" => r # None)
      <4>1. [reason |-> "unreadable", ident |-> None] # None
        BY NoneAssumption DEF SkipRecord, Reasons
      <4> QED
        BY <4>1
    <3>4. Gather(self, "walk", v)
      BY <1>2, <2>2 DEF SniffEntry
    <3> HIDE DEF k, r
    <3>5. v \in Work
      BY <3>0, <3>2, <3>3 DEF Work, Kinds
    <3>6. Observed(v, seen[self])
      BY <1>0, <3>0, <3>2, <3>3, Attempt DEF Observed, Work
    <3>7. Shaped(v)
      BY <1>0, <3>0, <3>1, <3>2, <3>3, Attempt DEF Shaped, Work, Discovered
    <3> HIDE DEF v
    <3> QED
      BY <1>0, <3>4, <3>5, <3>6, <3>7, GatherKeeps DEF AfterDiff
  <2> QED
    BY <2>1, <2>2
<1> QED
  BY <1>1, <1>2

LEMMA EndWalkKeeps ==
  ASSUME SyncInv, NEW self \in Procs, EndWalk(self)
  PROVE  SyncInv'
<1>1. pc[self] \in InAttempt /\ "pass1" \in InAttempt
  BY DEF EndWalk, InAttempt, Stages
<1>2. Walked(work[self]) /\ Gather(self, "pass1", work[self])
  BY DEF EndWalk, Walked
<1> QED
  BY <1>1, <1>2, Attempt, GatherKeeps DEF AfterDiff

LEMMA StatKeeps ==
  ASSUME SyncInv, NEW self \in Procs, NEW p \in Paths, StatSkipped(self, p)
  PROVE  SyncInv'
<1> DEFINE w == work[self]
           c == disk[p]
           r == [reason |-> IF c \in Unstatable THEN "stat_failed" ELSE w.rec[p].reason,
                 ident |-> IF w.rec[p].reason = "not_utf8" THEN w.ident[p] ELSE StatId(c)]
           v == [w EXCEPT !.rec[p] = r]
<1>0. pc[self] \in {"pass1", "prepare"} /\ pc[self] \in InAttempt
  BY DEF StatSkipped, InAttempt, Stages
<1>1. CASE c = Absent
  BY <1>0, <1>1, RetryKeeps DEF StatSkipped
<1>2. CASE c # Absent
  <2>1. w \in Work /\ w.rec[p] # None /\ w.rec[p] \in SkipRecord
    BY <1>0, Attempt DEF StatSkipped, Pending, Work
  <2>2. c \in Contents /\ c \in seen[self][p] \ {Absent}
    BY <1>0, <1>2, Attempt
  <2>3. r \in SkipRecord /\ r # None
    BY <2>1, <2>2, IdentTypes, NoneAssumption DEF SkipRecord, Reasons, Work
  <2>4. v \in Work
    BY <2>1, <2>3 DEF Work
  <2>5. Gather(self, pc[self], v)
    BY <1>2 DEF StatSkipped
  <2>6. Observed(v, seen[self])
    BY <1>0, <2>1, <2>2, Attempt DEF Observed, Work
  <2>7. Shaped(v) /\ Walked(v)
    BY <1>0, <2>1, <2>3, Attempt DEF Shaped, Walked, Work, Discovered, AfterDiff
  <2>8. pc[self] \in AfterDiff =>
          /\ Hashed(v) /\ DiffSides(v)
          /\ base[self].rev = head.rev => DiffFits(v, files)
    <3> SUFFICES ASSUME pc[self] \in AfterDiff
                 PROVE  /\ Hashed(v) /\ DiffSides(v)
                        /\ base[self].rev = head.rev => DiffFits(v, files)
      OBVIOUS
    <3>1. w.ident[p] # None
      BY <1>0, <2>1, Attempt DEF Hashed, StatSkipped, Pending
    <3>2. PassOne(v) = PassOne(w)
      BY <2>1, <3>1 DEF PassOne, Work
    <3>3. Hashed(v)
      BY <1>0, <2>1, <2>3, <3>1, Attempt DEF Hashed, Discovered, Work
    <3>4. v.changed = w.changed /\ v.deleted = w.deleted
      BY <2>1 DEF Work
    <3> HIDE DEF v, r
    <3> QED
      BY <1>0, <3>2, <3>3, <3>4, Attempt DEF DiffSides, DiffFits
  <2>9. pc[self] = "prepare" =>
          \A x \in Discovered(v) :
            v.ident[x] # None /\ (PackChanged(self) \/ x \in v.changed) =>
              v.sample[x] # None \/ v.rec[x] # None
    BY <2>1, <2>3 DEF SyncInv, CallInv, ToSample, Discovered, Work
  <2> HIDE DEF v
  <2> QED
    BY <1>0, <2>4, <2>5, <2>6, <2>7, <2>8, <2>9, GatherKeeps DEF AfterDiff
<1> QED
  BY <1>1, <1>2

LEMMA HashKeeps ==
  ASSUME SyncInv, NEW self \in Procs, NEW p \in Paths, HashFile(self, p)
  PROVE  SyncInv'
<1> DEFINE w == work[self]
           outcome == HashOutcome(disk[p])
<1>0. pc[self] = "pass1" /\ pc[self] \in InAttempt /\ p \in Discovered(w)
      /\ w.ident[p] = None /\ w.rec[p] = None
  BY DEF HashFile, InAttempt, Stages
<1>1. w \in Work /\ Observed(w, seen[self]) /\ Shaped(w) /\ Walked(w)
  BY <1>0, Attempt
<1>2. CASE outcome = "vanished" \/ outcome = "error"
  <2>1. RetryOrFail(self) \/ EndCall(self)
    BY <1>2 DEF HashFile
  <2> QED
    BY <1>0, <2>1, RetryKeeps, EndCallKeeps
<1>3. CASE outcome = "oversize"
  <2> DEFINE r == [reason |-> "oversize", ident |-> None]
             v == [w EXCEPT !.rec[p] = r]
  <2>1. Gather(self, "pass1", v)
    BY <1>3 DEF HashFile
  <2>2. r \in SkipRecord /\ r # None
    BY NoneAssumption DEF SkipRecord, Reasons
  <2>3. v \in Work
    BY <1>1, <2>2 DEF Work
  <2>4. Observed(v, seen[self]) /\ Walked(v)
    BY <1>1, <2>2 DEF Observed, Walked, Work
  <2>5. Shaped(v)
    BY <1>0, <1>1, <2>2 DEF Shaped, Discovered, Work
  <2> HIDE DEF v
  <2> QED
    BY <1>0, <2>1, <2>3, <2>4, <2>5, GatherKeeps DEF AfterDiff
<1>4. CASE outcome = "hash"
  <2> DEFINE v == [w EXCEPT !.ident[p] = HashId(disk[p])]
  <2>1. disk[p] \in seen[self][p] \ {Absent} /\ disk[p] \in Contents
    BY <1>0, <1>4, Attempt DEF HashOutcome
  <2>2. Gather(self, "pass1", v)
    BY <1>4 DEF HashFile
  <2>3. v \in Work
    BY <1>1, <2>1, IdentTypes, WorkUpdates
  <2>4. Observed(v, seen[self]) /\ Walked(v)
    BY <1>1, <2>1 DEF Observed, Walked, Work
  <2>5. Shaped(v)
    BY <1>0, <1>1 DEF Shaped, Discovered, Work
  <2> HIDE DEF v
  <2> QED
    BY <1>0, <2>2, <2>3, <2>4, <2>5, GatherKeeps DEF AfterDiff
<1> QED
  BY <1>2, <1>3, <1>4 DEF HashOutcome

LEMMA DiffKeeps ==
  ASSUME SyncInv, NEW self \in Procs, DiffAgainstStored(self)
  PROVE  SyncInv'
<1> DEFINE w == work[self]
           now == PassOne(w)
           present == {p \in Paths : now[p] # None}
           changed == {p \in present : files[p] = None \/ files[p].ident # now[p]}
           deleted == {p \in Paths \ present : files[p] # None}
           v == [w EXCEPT !.changed = changed, !.deleted = deleted]
<1>0. /\ pc[self] = "pass1" /\ pc[self] \in InAttempt /\ Pending(w) = {}
      /\ "retries" \in InAttempt
      /\ \A p \in Discovered(w) : w.ident[p] # None \/ w.rec[p] # None
  BY DEF DiffAgainstStored, InAttempt, Stages
<1>1. w \in Work /\ Observed(w, seen[self]) /\ Shaped(w) /\ Walked(w)
  BY <1>0, Attempt
<1>2. Gather(self, "retries", v)
  BY DEF DiffAgainstStored
<1>3. changed \subseteq Paths /\ deleted \subseteq Paths
  OBVIOUS
<1>4. \A p \in Paths : /\ p \in changed => now[p] # None
                       /\ p \in deleted => now[p] = None
                       /\ p \notin changed \cup deleted =>
                            IF files[p] = None THEN now[p] = None ELSE files[p].ident = now[p]
  OBVIOUS
<1>5. v.changed = changed /\ v.deleted = deleted
      /\ v.kind = w.kind /\ v.ident = w.ident /\ v.rec = w.rec /\ v.sample = w.sample
  BY <1>1 DEF Work
<1>6. v \in Work
  <2> HIDE DEF changed, deleted
  <2> QED
    BY <1>1, <1>3 DEF Work
<1> HIDE DEF v, changed, deleted, now
<1>7. PassOne(v) = now
  BY <1>5 DEF PassOne, now
<1>8. Observed(v, seen[self]) /\ Shaped(v) /\ Walked(v) /\ Hashed(v)
  BY <1>0, <1>1, <1>5 DEF Observed, Shaped, Walked, Hashed, Discovered, Pending
<1>9. DiffSides(v) /\ DiffFits(v, files)
  BY <1>4, <1>5, <1>7 DEF DiffSides, DiffFits
<1> QED
  BY <1>0, <1>2, <1>6, <1>8, <1>9, GatherKeeps DEF AfterDiff

\* Adding paths that pass 1 found to the changed ones keeps what a diff says.
LEMMA MoreChanged ==
  ASSUME NEW w \in Work, NEW f, NEW more \in SUBSET Paths, Shaped(w), Walked(w), Hashed(w),
         DiffSides(w), \A p \in more : PassOne(w)[p] # None
  PROVE  LET v == [w EXCEPT !.changed = @ \cup more] IN
         /\ v \in Work /\ Shaped(v) /\ Walked(v) /\ Hashed(v) /\ DiffSides(v)
         /\ \A S : Observed(w, S) => Observed(v, S)
         /\ DiffFits(w, f) => DiffFits(v, f)
<1> DEFINE v == [w EXCEPT !.changed = @ \cup more]
<1>1. /\ v.changed = w.changed \cup more /\ v.deleted = w.deleted
      /\ v.kind = w.kind /\ v.ident = w.ident /\ v.rec = w.rec /\ v.sample = w.sample
  BY DEF Work
<1>2. v \in Work
  BY DEF Work
<1> HIDE DEF v
<1>3. PassOne(v) = PassOne(w) /\ Discovered(v) = Discovered(w)
  BY <1>1 DEF PassOne, Discovered
<1>4. Shaped(v) /\ Walked(v) /\ Hashed(v)
  BY <1>1, <1>3 DEF Shaped, Walked, Hashed
<1>5. \A S : Observed(w, S) => Observed(v, S)
  BY <1>1 DEF Observed
<1>6. DiffSides(v) /\ (DiffFits(w, f) => DiffFits(v, f))
  BY <1>1, <1>3 DEF DiffSides, DiffFits
<1> QED
  BY <1>2, <1>4, <1>5, <1>6 DEF v

LEMMA LoadFailedKeeps ==
  ASSUME SyncInv, NEW self \in Procs, AddLoadFailedRetries(self)
  PROVE  SyncInv'
<1> DEFINE w == work[self]
           v == [w EXCEPT !.changed = @ \cup LoadFailedPaths(w)]
<1>0. /\ pc[self] = "retries" /\ pc[self] \in InAttempt /\ pc[self] \in AfterDiff
      /\ "verify" \in InAttempt /\ "verify" \in AfterDiff
  BY DEF AddLoadFailedRetries, InAttempt, Stages, AfterDiff
<1>1. /\ w \in Work /\ Observed(w, seen[self]) /\ Shaped(w) /\ Walked(w)
      /\ Hashed(w) /\ DiffSides(w)
      /\ base[self].rev = head.rev => DiffFits(w, files)
  BY <1>0, Attempt
<1>2. LoadFailedPaths(w) \in SUBSET Paths /\ \A p \in LoadFailedPaths(w) : PassOne(w)[p] # None
  BY DEF LoadFailedPaths
<1>3. /\ v \in Work /\ Observed(v, seen[self]) /\ Shaped(v) /\ Walked(v)
      /\ Hashed(v) /\ DiffSides(v)
      /\ base[self].rev = head.rev => DiffFits(v, files)
  BY <1>1, <1>2, MoreChanged
<1>4. Gather(self, "verify", v) \/ Gather(self, "verify", w)
  BY DEF AddLoadFailedRetries
<1> HIDE DEF v
<1> QED
  BY <1>0, <1>1, <1>3, <1>4, GatherKeeps

LEMMA VerifyKeeps ==
  ASSUME SyncInv, NEW self \in Procs, VerifyStored(self)
  PROVE  SyncInv'
<1> DEFINE w == work[self]
           v == [w EXCEPT !.changed = @ \cup Repairs(self)]
<1>0. pc[self] = "verify" /\ pc[self] \in InAttempt /\ pc[self] \in AfterDiff
  BY DEF VerifyStored, InAttempt, Stages, AfterDiff
<1>1. /\ w \in Work /\ Observed(w, seen[self]) /\ Shaped(w) /\ Walked(w)
      /\ Hashed(w) /\ DiffSides(w)
      /\ base[self].rev = head.rev => DiffFits(w, files)
  BY <1>0, Attempt
<1>2. Repairs(self) \in SUBSET Paths /\ \A p \in Repairs(self) : PassOne(w)[p] # None
  BY DEF Repairs, PassOne
<1>3. /\ Observed(v, seen[self]) /\ Shaped(v) /\ Walked(v) /\ Hashed(v) /\ DiffSides(v)
      /\ base[self].rev = head.rev => DiffFits(v, files)
  BY <1>1, <1>2, MoreChanged
<1>4. /\ pc' = [pc EXCEPT ![self] = "unrep"]
      /\ work' = [work EXCEPT ![self] = v]
      /\ UNCHANGED <<disk, files, head, base, synced, seen>>
  BY DEF VerifyStored
<1> HIDE DEF v
<1>5. TypeOK'
  BY TypeDiff DEF SyncInv
<1>6. ASSUME NEW q \in Procs PROVE CallInv(q)'
  <2>1. CASE q # self
    BY <1>4, <2>1, OthersKeep DEF SyncInv, TypeOK
  <2>2. CASE q = self
    <3>1. pc'[q] = "unrep" /\ work'[q] = v /\ CallInv(q) /\ pc[q] # "idle"
      BY <1>0, <1>4, <2>2 DEF SyncInv, TypeOK
    <3> QED
      BY <1>3, <1>4, <2>2, <3>1 DEF CallInv, Answers
  <2> QED
    BY <2>1, <2>2
<1> QED
  BY <1>5, <1>6 DEF SyncInv

LEMMA UnrepKeeps ==
  ASSUME SyncInv, NEW self \in Procs, ReplaceUnrepresentable(self)
  PROVE  SyncInv'
<1>1. TypeOK'
  BY TypeDiff DEF SyncInv
<1>2. ASSUME NEW q \in Procs PROVE CallInv(q)'
  <2>1. UNCHANGED <<disk, files, head, base, work, synced, seen>> /\ CallInv(q)
    BY DEF ReplaceUnrepresentable, SyncInv
  <2>2. CASE q # self
    BY <2>1, <2>2, OthersKeep DEF ReplaceUnrepresentable, SyncInv, TypeOK
  <2>3. CASE q = self
    <3>1. /\ pc[q] = "unrep" /\ pc'[q] \in {"recheck", "pass2"}
          /\ pc'[q] = "recheck" => work[q].changed = {} /\ work[q].deleted = {}
      BY <2>3 DEF ReplaceUnrepresentable, SyncInv, TypeOK
    <3> QED
      BY <2>1, <3>1 DEF CallInv, Answers, AfterDiff
  <2> QED
    BY <2>2, <2>3
<1> QED
  BY <1>1, <1>2 DEF SyncInv

LEMMA SampleKeeps ==
  ASSUME SyncInv, NEW self \in Procs, NEW p \in Paths, SampleFile(self, p)
  PROVE  SyncInv'
<1> DEFINE w == work[self]
           outcome == SampleOutcome(disk[p], w.kind[p])
<1>0. /\ pc[self] = "pass2" /\ pc[self] \in InAttempt /\ pc[self] \in AfterDiff
      /\ p \in Discovered(w) /\ w.ident[p] # None /\ w.sample[p] = None /\ w.rec[p] = None
  BY DEF SampleFile, ToSample, InAttempt, Stages, AfterDiff
<1>1. /\ w \in Work /\ Observed(w, seen[self]) /\ Shaped(w) /\ Walked(w)
      /\ Hashed(w) /\ DiffSides(w)
      /\ base[self].rev = head.rev => DiffFits(w, files)
  BY <1>0, Attempt
<1>2. CASE outcome = "vanished" \/ outcome = "error"
  <2>1. RetryOrFail(self) \/ EndCall(self)
    BY <1>2 DEF SampleFile
  <2> QED
    BY <1>0, <2>1, RetryKeeps, EndCallKeeps
<1>3. CASE outcome \in {"oversize", "not_utf8"}
  <2> DEFINE r == [reason |-> outcome, ident |-> None]
             v == [w EXCEPT !.rec[p] = r]
  <2>1. Gather(self, "pass2", v)
    BY <1>3 DEF SampleFile
  <2>2. r \in SkipRecord /\ r # None /\ r.ident = None
    BY <1>3, NoneAssumption DEF SkipRecord, Reasons
  <2> HIDE DEF outcome, r
  <2>3. v \in Work
    BY <1>1, <2>2 DEF Work
  <2>4. Observed(v, seen[self]) /\ Walked(v)
    BY <1>1, <2>2 DEF Observed, Walked, Work
  <2>5. Shaped(v) /\ Hashed(v)
    BY <1>0, <1>1, <2>2 DEF Shaped, Hashed, Discovered, Work
  <2>6. PassOne(v) = PassOne(w) /\ v.changed = w.changed /\ v.deleted = w.deleted
    BY <1>0, <1>1 DEF PassOne, Work
  <2> HIDE DEF v
  <2>7. DiffSides(v) /\ (base[self].rev = head.rev => DiffFits(v, files))
    BY <1>1, <2>6 DEF DiffSides, DiffFits
  <2> QED
    BY <1>0, <2>1, <2>3, <2>4, <2>5, <2>7, GatherKeeps
<1>4. CASE outcome = "sample"
  <2> DEFINE v == [w EXCEPT !.sample[p] = disk[p]]
  <2>1. Gather(self, "pass2", v)
    BY <1>4 DEF SampleFile
  <2>2. disk[p] \in seen[self][p] \ {Absent} /\ disk[p] \in Contents
    BY <1>0, <1>4, Attempt DEF SampleOutcome
  <2>3. v \in Work
    BY <1>1, <2>2, WorkUpdates
  <2>4. Observed(v, seen[self]) /\ Walked(v)
    BY <1>1, <2>2 DEF Observed, Walked, Work
  <2>5. Shaped(v) /\ Hashed(v)
    BY <1>0, <1>1 DEF Shaped, Hashed, Discovered, Work
  <2>6. PassOne(v) = PassOne(w) /\ v.changed = w.changed /\ v.deleted = w.deleted
    BY <1>1 DEF PassOne, Work
  <2> HIDE DEF v
  <2>7. DiffSides(v) /\ (base[self].rev = head.rev => DiffFits(v, files))
    BY <1>1, <2>6 DEF DiffSides, DiffFits
  <2> QED
    BY <1>0, <2>1, <2>3, <2>4, <2>5, <2>7, GatherKeeps
<1> QED
  BY <1>2, <1>3, <1>4 DEF SampleOutcome

LEMMA CheckKeeps ==
  ASSUME SyncInv, NEW self \in Procs, CheckSamples(self)
  PROVE  SyncInv'
<1> DEFINE w == work[self]
<1>0. /\ pc[self] = "pass2" /\ pc[self] \in InAttempt /\ pc[self] \in AfterDiff
      /\ "prepare" \in InAttempt /\ "prepare" \in AfterDiff
  BY DEF CheckSamples, InAttempt, Stages, AfterDiff
<1>1. CASE ~SamplesMatch(w)
  BY <1>0, <1>1, RetryKeeps DEF CheckSamples
<1>2. CASE SamplesMatch(w)
  <2>1. /\ pc' = [pc EXCEPT ![self] = "prepare"]
        /\ UNCHANGED <<disk, files, head, base, work, synced, seen>>
    BY <1>2 DEF CheckSamples
  <2>2. TypeOK'
    BY <1>0, Attempt, TypeCommit DEF SyncInv
  <2>3. ASSUME NEW q \in Procs PROVE CallInv(q)'
    <3>1. CASE q # self
      BY <2>1, <3>1, OthersKeep DEF SyncInv, TypeOK
    <3>2. CASE q = self
      <4>1. /\ pc[q] = "pass2" /\ pc'[q] = "prepare" /\ CallInv(q)
            /\ \A p \in ToSample(q) : w.sample[p] # None \/ w.rec[p] # None
        BY <1>0, <2>1, <3>2 DEF CheckSamples, SyncInv, TypeOK
      <4> QED
        BY <2>1, <3>2, <4>1 DEF CallInv, Answers, ToSample, PackChanged, AfterDiff
    <3> QED
      BY <3>1, <3>2
  <2> QED
    BY <2>2, <2>3 DEF SyncInv
<1> QED
  BY <1>1, <1>2

LEMMA RevalidateKeeps ==
  ASSUME SyncInv, NEW self \in Procs, NEW p \in Paths, Revalidate(self, p)
  PROVE  SyncInv'
<1> DEFINE w == work[self]
           v == [w EXCEPT !.checked = @ \cup {p}]
<1>0. pc[self] = "prepare" /\ pc[self] \in InAttempt /\ pc[self] \in AfterDiff
  BY DEF Revalidate, InAttempt, Stages, AfterDiff
<1>1. RetryOrFail(self) \/ EndCall(self) \/ Gather(self, "prepare", v)
  BY DEF Revalidate
<1>2. /\ w \in Work /\ Observed(w, seen[self]) /\ Shaped(w) /\ Walked(w)
      /\ Hashed(w) /\ DiffSides(w)
      /\ base[self].rev = head.rev => DiffFits(w, files)
  BY <1>0, Attempt
<1>3. v \in Work
  BY <1>2, WorkUpdates
<1>4. /\ v.kind = w.kind /\ v.ident = w.ident /\ v.rec = w.rec /\ v.sample = w.sample
      /\ v.changed = w.changed /\ v.deleted = w.deleted
  BY <1>2 DEF Work
<1> HIDE DEF v
<1>5. PassOne(v) = PassOne(w) /\ Discovered(v) = Discovered(w)
  BY <1>4 DEF PassOne, Discovered
<1>6. Observed(v, seen[self]) /\ Shaped(v) /\ Walked(v) /\ Hashed(v)
  BY <1>2, <1>4, <1>5 DEF Observed, Shaped, Walked, Hashed
<1>7. DiffSides(v) /\ (base[self].rev = head.rev => DiffFits(v, files))
  BY <1>2, <1>4, <1>5 DEF DiffSides, DiffFits
<1>8. \A x \in Discovered(v) :
        v.ident[x] # None /\ (PackChanged(self) \/ x \in v.changed) =>
          v.sample[x] # None \/ v.rec[x] # None
  BY <1>0, <1>4, <1>5 DEF SyncInv, CallInv, ToSample
<1> QED
  BY <1>0, <1>1, <1>3, <1>6, <1>7, <1>8, RetryKeeps, EndCallKeeps, GatherKeeps

\* Once every path is walked and hashed, no identity means no file was found.
LEMMA NothingFound ==
  ASSUME NEW w, NEW S, NEW p \in Paths \ Unrep, Observed(w, S), Shaped(w), Walked(w),
         Hashed(w), w \in Work, PassOne(w)[p] = None
  PROVE  Absent \in S[p]
<1>1. w.ident[p] = None /\ (w.rec[p] # None => w.rec[p].ident = None)
  BY DEF PassOne
<1>2. w.rec[p] = None /\ p \notin Discovered(w)
  BY <1>1 DEF Hashed
<1>3. w.kind[p] = "gone"
  BY <1>2 DEF Walked, Shaped, Discovered, Work, Kinds
<1> QED
  BY <1>3 DEF Observed

\* A row with the identity pass 1 gave its path is one the disk justified.
LEMMA SameIdentity ==
  ASSUME NEW w, NEW S, NEW p \in Paths \ Unrep, Observed(w, S), Shaped(w), Walked(w),
         Hashed(w), w \in Work, NEW row \in Row \cup {None},
         IF row = None THEN PassOne(w)[p] = None ELSE row.ident = PassOne(w)[p]
  PROVE  Justified(row, S[p])
<1>1. CASE row = None
  BY <1>1, NothingFound DEF Justified
<1>2. CASE row # None
  <2>1. row.ident \in Idents /\ row.ident # None
    BY <1>2, NoneAssumption DEF Row
  <2>2. CASE w.ident[p] # None
    BY <1>2, <2>2 DEF Observed, PassOne, Justified
  <2>3. CASE w.ident[p] = None
    <3>1. w.rec[p] # None /\ w.rec[p].ident # None /\ row.ident = w.rec[p].ident
      BY <1>2, <2>1, <2>3 DEF PassOne
    <3> QED
      BY <1>2, <3>1 DEF Observed, Justified
  <2> QED
    BY <2>2, <2>3
<1> QED
  BY <1>1, <1>2

LEMMA UnchangedKeeps ==
  ASSUME SyncInv, NEW self \in Procs, UnchangedReport(self)
  PROVE  SyncInv'
<1> DEFINE w == work[self]
<1>0. pc[self] = "recheck" /\ pc[self] \in InAttempt /\ pc[self] \in AfterDiff
  BY DEF UnchangedReport, InAttempt, Stages, AfterDiff
<1>1. CASE head.rev # base[self].rev
  BY <1>0, <1>1, RetryKeeps DEF UnchangedReport
<1>2. CASE head.rev = base[self].rev
  <2>1. /\ w \in Work /\ Observed(w, seen[self]) /\ Shaped(w) /\ Walked(w)
        /\ Hashed(w) /\ DiffFits(w, files) /\ w.changed = {} /\ w.deleted = {}
    BY <1>0, <1>2, Attempt DEF SyncInv, CallInv
  <2>2. \A p \in Paths \ Unrep : Justified(files[p], seen[self][p])
    BY <2>1, SameIdentity DEF DiffFits, SyncInv, TypeOK
  <2>3. /\ pc' = [pc EXCEPT ![self] = "read"]
        /\ synced' = [synced EXCEPT ![self] = base[self].rev]
        /\ work' = [work EXCEPT ![self] = NoWork]
        /\ base' = [base EXCEPT ![self] = NoBaseline]
        /\ UNCHANGED <<disk, files, head, seen>>
    BY <1>2 DEF UnchangedReport, Synced
  <2>4. TypeOK'
    BY TypeCommit, <2>1 DEF SyncInv
  <2>5. ASSUME NEW q \in Procs PROVE CallInv(q)'
    <3>1. CASE q # self
      BY <2>3, <3>1, OthersKeep DEF SyncInv, TypeOK
    <3>2. CASE q = self
      <4>1. /\ pc'[q] = "read" /\ work'[q] = NoWork /\ base'[q].rev = 0
            /\ synced'[q] = base[q].rev /\ head.rev \in Nat
            /\ CallInv(q) /\ pc[q] # "idle"
        BY <1>0, <2>3, <3>2 DEF SyncInv, TypeOK, NoBaseline, Revisions
      <4> QED
        BY <1>2, <2>2, <2>3, <3>2, <4>1, EmptyWork DEF CallInv, AfterDiff
    <3> QED
      BY <3>1, <3>2
  <2> QED
    BY <2>4, <2>5 DEF SyncInv
<1> QED
  BY <1>1, <1>2

\* The heart of the argument: under an unmoved baseline, every row the
\* transaction leaves is one the disk justified while the attempt observed S.
LEMMA CommittedRows ==
  ASSUME SyncInv, NEW self \in Procs, PublishRevision(self), BaselineHolds(self),
         NEW S, Observed(work[self], S),
         NEW failed \in SUBSET Paths, NEW p \in Paths \ Unrep,
         NewFiles(self, failed)[p] \in Row \cup {None}
  PROVE  Justified(NewFiles(self, failed)[p], S[p])
<1> DEFINE w == work[self]
           row == NewFiles(self, failed)[p]
<1>0. /\ pc[self] = "prepare" /\ pc[self] \in InAttempt /\ pc[self] \in AfterDiff
      /\ Pending(w) = {}
  BY DEF PublishRevision, Revalidated, InAttempt, Stages, AfterDiff
<1>1. /\ w \in Work /\ Observed(w, S) /\ Shaped(w) /\ Walked(w)
      /\ Hashed(w) /\ DiffFits(w, files) /\ DiffSides(w)
  BY <1>0, Attempt DEF BaselineHolds
<1>2. CASE w.rec[p] # None
  <2>1. /\ w.rec[p].reason \in Reasons /\ w.rec[p].ident \in Idents /\ w.rec[p].ident # None
    BY <1>0, <1>1, <1>2 DEF Work, SkipRecord, Pending
  <2>2. row = SkipRow(w.rec[p]) /\ row.ident = w.rec[p].ident /\ row # None
    <3>1. SkipRow(w.rec[p]) \in Row
      BY <2>1 DEF SkipRow, Row
    <3> QED
      BY <1>2, <3>1, NoneAssumption DEF NewFiles, SkipRow
  <2> QED
    BY <1>1, <1>2, <2>1, <2>2 DEF Observed, Justified
<1>3. CASE w.rec[p] = None /\ w.sample[p] # None
  <2>1. w.sample[p] \in S[p] \ {Absent} /\ w.sample[p] \in Contents
        /\ w.kind[p] \in {"indexed", "binary"}
    BY <1>1, <1>3 DEF Observed, Shaped, Discovered, Work
  <2>2. PICK parser \in {"Loaded", "LoadFailed"} : row = FileRow(self, p, parser)
    BY <1>3 DEF NewFiles
  <2>3. row.ident = HashId(w.sample[p]) /\ row # None
    <3>1. FileRow(self, p, parser) \in Row
      BY <2>1, IdentTypes, VersionAssumption DEF FileRow, Row
    <3> QED
      BY <2>2, <3>1, NoneAssumption DEF FileRow
  <2> QED
    BY <2>1, <2>3 DEF Justified
<1>4. CASE w.rec[p] = None /\ w.sample[p] = None /\ p \in w.deleted
  <2>1. row = None
    BY <1>4 DEF NewFiles
  <2>2. PassOne(w)[p] = None
    BY <1>1, <1>4 DEF DiffSides
  <2> QED
    BY <1>1, <2>1, <2>2, SameIdentity
<1>5. CASE w.rec[p] = None /\ w.sample[p] = None /\ p \notin w.deleted
  <2>1. row = files[p]
    BY <1>5 DEF NewFiles
  <2>2. p \notin w.changed
    <3> SUFFICES ASSUME p \in w.changed PROVE FALSE
      OBVIOUS
    <3>1. w.ident[p] # None
      BY <1>1, <1>5 DEF DiffSides, PassOne
    <3>2. p \in ToSample(self)
      BY <1>1, <3>1 DEF Shaped, ToSample
    <3> QED
      BY <1>0, <1>5, <3>2 DEF SyncInv, CallInv
  <2>3. IF row = None THEN PassOne(w)[p] = None ELSE row.ident = PassOne(w)[p]
    BY <1>1, <1>5, <2>1, <2>2 DEF DiffFits
  <2> HIDE DEF row
  <2> QED
    BY <1>1, <2>3, SameIdentity DEF row
<1> QED
  BY <1>2, <1>3, <1>4, <1>5

LEMMA CommitKeeps ==
  ASSUME SyncInv, NEW self \in Procs, PublishRevision(self)
  PROVE  SyncInv'
<1>0. pc[self] = "prepare" /\ pc[self] \in InAttempt
  BY DEF PublishRevision, InAttempt, Stages
<1>1. CASE ~BaselineHolds(self)
  BY <1>0, <1>1, RetryKeeps DEF PublishRevision
<1>2. CASE BaselineHolds(self)
  <2>1. TypeOK'
    BY <1>0, Attempt, TypeCommit DEF SyncInv
  <2>2. /\ pc' = [pc EXCEPT ![self] = "read"]
        /\ synced' = [synced EXCEPT ![self] = head.rev + 1]
        /\ work' = [work EXCEPT ![self] = NoWork]
        /\ base' = [base EXCEPT ![self] = NoBaseline]
        /\ head'.rev = head.rev + 1 /\ head.rev \in Nat
        /\ UNCHANGED <<disk, seen>>
    BY <1>0, <1>2, Attempt DEF PublishRevision, Synced
  <2>3. \A p \in Paths \ Unrep : Justified(files'[p], seen[self][p])
    <3>1. PICK failed \in SUBSET Paths : files' = NewFiles(self, failed)
      BY <1>2 DEF PublishRevision, Upserts
    <3>2. \A p \in Paths : files'[p] \in Row \cup {None}
      BY <2>1 DEF TypeOK
    <3>3. Observed(work[self], seen[self])
      BY <1>0, Attempt
    <3> QED
      BY <1>2, <3>1, <3>2, <3>3, CommittedRows
  <2>4. ASSUME NEW q \in Procs PROVE CallInv(q)'
    <3>1. CASE q # self
      <4>1. /\ pc'[q] = pc[q] /\ synced'[q] = synced[q] /\ work'[q] = work[q]
            /\ base'[q] = base[q] /\ CallInv(q)
            /\ base[q].rev \in Nat /\ synced[q] \in Nat
        BY <2>2, <3>1 DEF SyncInv, TypeOK, Baselines
      <4>2. base'[q].rev < head'.rev /\ synced'[q] < head'.rev
        BY <2>2, <4>1 DEF CallInv
      <4> QED
        BY <2>2, <4>1, <4>2 DEF CallInv, Answers, ToSample, PackChanged
    <3>2. CASE q = self
      <4>1. /\ pc'[q] = "read" /\ work'[q] = NoWork /\ base'[q].rev = 0
            /\ synced'[q] = head'.rev /\ CallInv(q) /\ pc[q] # "idle"
        BY <1>0, <2>2, <3>2 DEF SyncInv, TypeOK, NoBaseline
      <4> QED
        BY <2>2, <2>3, <3>2, <4>1, EmptyWork DEF CallInv, AfterDiff
    <3> QED
      BY <3>1, <3>2
  <2> QED
    BY <2>1, <2>4 DEF SyncInv
<1> QED
  BY <1>1, <1>2

-----------------------------------------------------------------------------
(* The theorems.                                                            *)

LEMMA SyncInvInit == Init => SyncInv
<1> SUFFICES ASSUME Init PROVE SyncInv
  OBVIOUS
<1>1. TypeOK
  BY TypeInit
<1>2. ASSUME NEW q \in Procs PROVE CallInv(q)
  <2>1. /\ pc[q] = "idle" /\ work[q] = NoWork /\ base[q].rev = 0 /\ synced[q] = 0
    BY DEF Init, NoBaseline
  <2>2. head.rev \in Nat
    BY <1>1 DEF TypeOK, Revisions
  <2> QED
    BY <2>1, <2>2, EmptyWork DEF CallInv, Answers, AfterDiff
<1> QED
  BY <1>1, <1>2 DEF SyncInv

LEMMA SyncInvNext == SyncInv /\ [Next]_vars => SyncInv'
<1> SUFFICES ASSUME SyncInv, [Next]_vars PROVE SyncInv'
  OBVIOUS
<1>1. CASE Environment
  BY <1>1, EditKeeps, TamperKeeps DEF Environment
<1>2. ASSUME NEW self \in Procs, BeginCall(self) \/ Abort(self) PROVE SyncInv'
  BY <1>2, BeginKeeps, EndCallKeeps DEF Abort
<1>3. ASSUME NEW self \in Procs, Step(self) PROVE SyncInv'
  <2>1. CASE ReadBaseline(self)
    BY <2>1, BeginKeeps
  <2>2. CASE EndWalk(self)
    BY <2>2, EndWalkKeeps
  <2>3. CASE DiffAgainstStored(self)
    BY <2>3, DiffKeeps
  <2>15. CASE AddLoadFailedRetries(self)
    BY <2>15, LoadFailedKeeps
  <2>4. CASE VerifyStored(self)
    BY <2>4, VerifyKeeps
  <2>5. CASE ReplaceUnrepresentable(self)
    BY <2>5, UnrepKeeps
  <2>6. CASE UnchangedReport(self)
    BY <2>6, UnchangedKeeps
  <2>7. CASE CheckSamples(self)
    BY <2>7, CheckKeeps
  <2>8. CASE PublishRevision(self)
    BY <2>8, CommitKeeps
  <2>9. CASE VerifiedRead(self) \/ StaleRevision(self)
    BY <2>9, EndCallKeeps DEF VerifiedRead, StaleRevision
  <2>10. ASSUME NEW p \in Paths, ListEntry(self, p) \/ SniffEntry(self, p) PROVE SyncInv'
    BY <2>10, WalkKeeps
  <2>11. ASSUME NEW p \in Paths, StatSkipped(self, p) PROVE SyncInv'
    BY <2>11, StatKeeps
  <2>12. ASSUME NEW p \in Paths, HashFile(self, p) PROVE SyncInv'
    BY <2>12, HashKeeps
  <2>13. ASSUME NEW p \in Paths, SampleFile(self, p) PROVE SyncInv'
    BY <2>13, SampleKeeps
  <2>14. ASSUME NEW p \in Paths, Revalidate(self, p) PROVE SyncInv'
    BY <2>14, RevalidateKeeps
  <2> QED
    BY <1>3, <2>1, <2>2, <2>3, <2>4, <2>5, <2>6, <2>7, <2>8, <2>9, <2>10, <2>11, <2>12,
       <2>13, <2>14, <2>15 DEF Step
<1>4. CASE UNCHANGED vars
  BY <1>4 DEF SyncInv, TypeOK, CallInv, Answers, ToSample, PackChanged, BaselineHolds
<1> QED
  BY <1>1, <1>2, <1>3, <1>4 DEF Next

\* The inductive invariant: a call under way holds only what the disk showed it
\* since it began, and its diff fits the files table while its baseline is current.
THEOREM SyncInvHolds == Spec => []SyncInv
  BY SyncInvInit, SyncInvNext, PTL DEF Spec

\* Whatever files, edits and processes there are, the sync's state keeps its
\* shape: in particular no call is ever retried more than MAX_CAS_RETRIES times.
THEOREM TypeCorrect == Spec => []TypeOK
<1>1. SyncInv => TypeOK
  BY DEF SyncInv
<1> QED
  BY <1>1, SyncInvHolds, PTL

\* with_verified_read serves a tool only from an index whose every entry the
\* disk justified at some moment of that tool's own call.
THEOREM AnswersAreFresh == Spec => []AnswerIsFresh
<1>1. SyncInv => AnswerIsFresh
  BY DEF SyncInv, CallInv, AnswerIsFresh
<1> QED
  BY <1>1, SyncInvHolds, PTL

(***************************************************************************)
(* What Publish promises of revisions, repairs and retries: RevisionInv    *)
(* stands on SyncInv, and ProjectIndex is what the rows implement.         *)
(***************************************************************************)
(* What a step leaves of the invariant.                                     *)

LEMMA EmptyWorkSteps == Traced(NoWork) /\ NoWork.checked = {}
  BY DEF NoWork, Traced

LEMMA OtherStepInv ==
  ASSUME RevisionInv, NEW q \in Procs, UNCHANGED <<disk, files, head, era>>,
         pc'[q] = pc[q], base'[q] = base[q], work'[q] = work[q], synced'[q] = synced[q],
         calm'[q] = calm[q], meddled'[q] = meddled[q], late'[q] = late[q]
  PROVE  StepInv(q)'
<1>1. StepInv(q)
  BY DEF RevisionInv
<1> QED
  BY <1>1 DEF StepInv, Observed, Matches, Answers, SamplesMatch, Upserts

\* A step of one process that leaves the tree, the rows and the revision alone.
LEMMA OwnStep ==
  ASSUME RevisionInv, SyncInv', NEW self \in Procs, UNCHANGED <<disk, files, head, era>>,
         \A q \in Procs \ {self} :
           /\ pc'[q] = pc[q] /\ base'[q] = base[q] /\ work'[q] = work[q]
           /\ synced'[q] = synced[q] /\ calm'[q] = calm[q] /\ meddled'[q] = meddled[q]
           /\ late'[q] = late[q],
         StepInv(self)'
  PROVE  RevisionInv'
<1>1. \A q \in Procs : StepInv(q)'
  BY OtherStepInv
<1> QED
  BY <1>1 DEF RevisionInv, RowsAreHashed, ManifestCoversIndexed, RowsMatchPack

\* What the invariant says of one attempt, under the names the steps use.
LEMMA Held ==
  ASSUME RevisionInv, NEW self \in Procs, pc[self] \in InAttempt
  PROVE  LET w == work[self] IN
         /\ SyncInv /\ TypeOK /\ w \in Work /\ Shaped(w) /\ Traced(w)
         /\ \A p \in Paths : disk[p] \in era[p] /\ disk[p] \in Contents \cup {Absent}
         /\ base[self].rev = head.rev => Observed(w, era)
         /\ base[self].rev = head.rev => base[self].pack = head.pack
         /\ calm[self] => base[self].rev = head.rev /\ Matches(w)
  BY Attempt DEF RevisionInv, StepInv, SyncInv

LEMMA Started ==
  ASSUME RevisionInv, NEW self \in Procs, pc'[self] \in {"idle", "baseline"},
         work'[self] = NoWork
  PROVE  StepInv(self)'
  BY EmptyWork, EmptyWorkSteps DEF StepInv, InAttempt, AfterVerify, Answers

LEMMA EndCallSteps ==
  ASSUME RevisionInv, SyncInv', NEW self \in Procs, EndCall(self)
  PROVE  RevisionInv'
<1>1. /\ pc'[self] = "idle" /\ work'[self] = NoWork
      /\ UNCHANGED <<disk, files, head, era>>
      /\ \A q \in Procs \ {self} :
           /\ pc'[q] = pc[q] /\ base'[q] = base[q] /\ work'[q] = work[q]
           /\ synced'[q] = synced[q] /\ calm'[q] = calm[q] /\ meddled'[q] = meddled[q]
           /\ late'[q] = late[q]
  BY DEF EndCall, Forget, RevisionInv, SyncInv, TypeOK
<1> QED
  BY <1>1, Started, OwnStep

LEMMA RetrySteps ==
  ASSUME RevisionInv, SyncInv', NEW self \in Procs, RetryOrFail(self)
  PROVE  RevisionInv'
<1>1. CASE ~MayRetry(self)
  BY <1>1, EndCallSteps DEF RetryOrFail
<1>2. CASE MayRetry(self)
  <2>1. /\ pc'[self] = "baseline" /\ work'[self] = NoWork
        /\ UNCHANGED <<disk, files, head, era>>
        /\ \A q \in Procs \ {self} :
             /\ pc'[q] = pc[q] /\ base'[q] = base[q] /\ work'[q] = work[q]
             /\ synced'[q] = synced[q] /\ calm'[q] = calm[q] /\ meddled'[q] = meddled[q]
             /\ late'[q] = late[q]
    BY <1>2 DEF RetryOrFail, Forget, RevisionInv, SyncInv, TypeOK
  <2> QED
    BY <2>1, Started, OwnStep
<1> QED
  BY <1>1, <1>2

LEMMA GatherSteps ==
  ASSUME RevisionInv, SyncInv', NEW self \in Procs, NEW s \in InAttempt, NEW w,
         pc[self] \in InAttempt, Gather(self, s, w), Traced(w),
         base[self].rev = head.rev => Observed(w, era),
         calm[self] => Matches(w),
         s \in AfterVerify /\ base[self].rev = head.rev =>
           \A p \in Paths : Mismatched(files[p]) =>
             p \in meddled[self] \cup w.changed \cup w.deleted,
         s = "prepare" => pc[self] = "prepare" /\ SamplesMatch(w),
         \A p \in w.checked : s = "prepare" /\ w.sample[p] \in late[self][p]
  PROVE  RevisionInv'
<1>1. /\ pc'[self] = s /\ work'[self] = w
      /\ UNCHANGED <<disk, files, head, era, base, synced, calm, meddled, late>>
      /\ \A q \in Procs \ {self} : pc'[q] = pc[q] /\ work'[q] = work[q]
  BY DEF Gather, RevisionInv, SyncInv, TypeOK
<1>2. StepInv(self)
  BY DEF RevisionInv
<1>3. s # "read" /\ pc[self] # "read"
  BY DEF InAttempt
<1>4. StepInv(self)'
  BY <1>1, <1>2, <1>3 DEF StepInv, Observed, Matches, Answers, SamplesMatch, Upserts
<1> QED
  BY <1>1, <1>4, OwnStep

-----------------------------------------------------------------------------
(* The environment, and the ends of an attempt.                             *)

LEMMA EditSteps ==
  ASSUME RevisionInv, SyncInv', NEW p \in Paths, NEW c \in Contents \cup {Absent}, Edit(p, c)
  PROVE  RevisionInv'
<1>1. /\ UNCHANGED <<files, head, pc, base, work, synced, meddled>>
      /\ disk' = [disk EXCEPT ![p] = c]
      /\ era' = [era EXCEPT ![p] = @ \cup {c}]
      /\ calm' = [q \in Procs |-> FALSE]
      /\ TypeOK /\ \A x \in Paths : disk[x] \in era[x]
  BY DEF Edit, RevisionInv, SyncInv
<1>2. (\A x \in Paths : era[x] \subseteq era'[x] /\ disk'[x] \in era'[x])
  BY <1>1 DEF TypeOK
<1>3. ASSUME NEW q \in Procs PROVE StepInv(q)'
  <2>1. StepInv(q)
    BY DEF RevisionInv
  <2>2. Observed(work[q], era) => Observed(work[q], era')
    BY <1>2, ObservedGrows
  <2>3. /\ \A x \in Paths : late[q][x] \subseteq late'[q][x]
        /\ pc[q] = "prepare" /\ (\A x \in Paths : disk[x] \in late[q][x]) =>
             \A x \in Paths : disk'[x] \in late'[q][x]
    BY <1>1 DEF Edit, TypeOK
  <2>4. work[q].checked \subseteq Paths
    BY <1>1 DEF TypeOK, Work
  <2> QED
    BY <1>1, <2>1, <2>2, <2>3, <2>4 DEF StepInv, Answers
<1> QED
  BY <1>1, <1>2, <1>3 DEF RevisionInv, RowsAreHashed, ManifestCoversIndexed, RowsMatchPack

LEMMA TamperSteps ==
  ASSUME RevisionInv, SyncInv', NEW p \in Paths, NEW c \in Contents, Tamper(p, c)
  PROVE  RevisionInv'
<1>1. /\ UNCHANGED <<disk, head, era, pc, base, work, synced, calm, late>>
      /\ meddled' = [q \in Procs |-> IF pc[q] = "idle" THEN {} ELSE meddled[q] \cup {p}]
      /\ TypeOK /\ \A x \in Paths : x # p => files'[x] = files[x]
  BY DEF Tamper, RevisionInv, SyncInv, TypeOK
<1>2. /\ files[p] # None /\ files'[p] # None
      /\ files'[p].kind = files[p].kind /\ files'[p].ident = files[p].ident
      /\ files'[p].by = files[p].by
  <2>1. /\ files[p] \in Row /\ files[p] # None /\ files[p].content # None
        /\ files'[p] = [files[p] EXCEPT !.content = c]
    BY <1>1 DEF Tamper, TypeOK
  <2>2. files[p] \in [kind: {"indexed", "binary"}, reason: {None},
                      content: Contents \cup {None}, ident: Idents, by: Versions,
                      parser: {"Loaded", "LoadFailed"}]
    BY <2>1 DEF Row
  <2>3. files'[p] \in Row
    BY <2>1, <2>2 DEF Row
  <2> QED
    BY <2>1, <2>2, <2>3, NoneAssumption
<1>3. ASSUME NEW q \in Procs PROVE StepInv(q)'
  <2>1. StepInv(q)
    BY DEF RevisionInv
  <2>2. pc[q] # "idle" => meddled'[q] = meddled[q] \cup {p}
    BY <1>1
  <2>3. pc[q] # "idle" =>
          \A x \in Paths : Mismatched(files'[x]) => Mismatched(files[x]) \/ x \in meddled'[q]
    BY <1>1, <2>2
  <2>4. \A x \in AfterVerify : x # "idle"
    BY DEF AfterVerify
  <2> QED
    BY <1>1, <2>1, <2>2, <2>3, <2>4 DEF StepInv, Answers, Observed, Matches, SamplesMatch, Upserts
<1> QED
  BY <1>1, <1>2, <1>3 DEF RevisionInv, RowsAreHashed, ManifestCoversIndexed, RowsMatchPack

LEMMA BeginSteps ==
  ASSUME RevisionInv, SyncInv', NEW self \in Procs, BeginCall(self) \/ ReadBaseline(self)
  PROVE  RevisionInv'
<1>0. TypeOK /\ CallInv(self)
  BY DEF RevisionInv, SyncInv
<1>1. CASE BeginCall(self)
  <2>1. /\ pc'[self] = "baseline" /\ work'[self] = NoWork
        /\ UNCHANGED <<disk, files, head, era, base, work, synced, calm, meddled, late>>
        /\ \A q \in Procs \ {self} : pc'[q] = pc[q]
    BY <1>0, <1>1 DEF BeginCall, CallInv, TypeOK
  <2> QED
    BY <2>1, Started, OwnStep
<1>2. CASE ReadBaseline(self)
  <2>1. /\ pc'[self] = "walk" /\ work'[self] = NoWork
        /\ base'[self].rev = head.rev /\ base'[self].pack = head.pack
        /\ UNCHANGED <<disk, files, head, era, work, synced, meddled, late>>
        /\ \A q \in Procs \ {self} :
             pc'[q] = pc[q] /\ base'[q] = base[q] /\ calm'[q] = calm[q]
    BY <1>0, <1>2 DEF ReadBaseline, CallInv, TypeOK
  <2>2. Matches(NoWork)'
    BY DEF Matches, NoWork
  <2>3. StepInv(self)'
    BY <2>1, <2>2, EmptyWork, EmptyWorkSteps DEF StepInv, Answers, AfterVerify
  <2> QED
    BY <2>1, <2>3, OwnStep
<1> QED
  BY <1>1, <1>2

-----------------------------------------------------------------------------
(* Pass 1.                                                                  *)

LEMMA WalkSteps ==
  ASSUME RevisionInv, SyncInv', NEW self \in Procs, NEW p \in Paths,
         ListEntry(self, p) \/ SniffEntry(self, p)
  PROVE  RevisionInv'
<1> DEFINE w == work[self]
<1>0. pc[self] = "walk" /\ pc[self] \in InAttempt /\ "walk" \notin AfterVerify
  BY DEF ListEntry, SniffEntry, InAttempt, Stages, AfterVerify
<1>1. /\ w \in Work /\ Shaped(w) /\ Traced(w)
      /\ \A x \in Paths : disk[x] \in era[x] /\ disk[x] \in Contents \cup {Absent}
      /\ base[self].rev = head.rev => Observed(w, era)
      /\ calm[self] => Matches(w)
  BY <1>0, Held
<1>c. w.checked = {}
  BY <1>0, <1>1 DEF RevisionInv, StepInv, Work
<1>2. CASE ListEntry(self, p)
  <2> DEFINE v == [w EXCEPT !.kind[p] = IF disk[p] = Absent THEN "gone" ELSE "listed"]
  <2>1. Gather(self, "walk", v) /\ w.kind[p] = "unlisted"
    BY <1>2 DEF ListEntry
  <2>2. w.sample[p] = None
    BY <1>1, <2>1 DEF Shaped, Discovered
  <2>3. Traced(v) /\ v.checked = {}
    BY <1>1, <1>c DEF Traced, Work
  <2>4. base[self].rev = head.rev => Observed(v, era)
    BY <1>1 DEF Observed, Work
  <2>5. calm[self] => Matches(v)
    BY <1>1, <2>2 DEF Matches, Work
  <2> HIDE DEF v
  <2> QED
    BY <1>0, <2>1, <2>3, <2>4, <2>5, GatherSteps
<1>3. CASE SniffEntry(self, p) /\ disk[p] = Absent
  BY <1>3, RetrySteps DEF SniffEntry
<1>4. CASE SniffEntry(self, p) /\ disk[p] # Absent
  <2> DEFINE k == IF p \in Unrep THEN "unrep"
                  ELSE IF disk[p] \in Unreadable THEN "unreadable"
                  ELSE IF disk[p] \in Binary THEN "binary" ELSE "indexed"
             r == IF k = "unreadable" THEN [reason |-> "unreadable", ident |-> None]
                  ELSE w.rec[p]
             v == [w EXCEPT !.kind[p] = k, !.rec[p] = r]
  <2>1. Gather(self, "walk", v) /\ w.kind[p] = "listed"
    BY <1>4 DEF SniffEntry
  <2>2. w.sample[p] = None /\ w.ident[p] = None /\ w.rec[p] = None
    BY <1>1, <2>1 DEF Shaped, Discovered
  <2>3. k \in Kinds /\ k \notin {"gone", "listed", "unlisted"}
    BY DEF Kinds
  <2>4. r = None \/ r.ident = None
    BY <2>2
  <2> HIDE DEF k, r
  <2>5. Traced(v) /\ v.checked = {}
    BY <1>1, <1>c, <2>4 DEF Traced, Work
  <2>6. base[self].rev = head.rev => Observed(v, era)
    BY <1>1, <2>3, <2>4 DEF Observed, Work
  <2>7. calm[self] => Matches(v)
    BY <1>1, <1>4, <2>2, <2>3 DEF Matches, Work
  <2> HIDE DEF v
  <2> QED
    BY <1>0, <2>1, <2>5, <2>6, <2>7, GatherSteps
<1> QED
  BY <1>2, <1>3, <1>4

LEMMA StatSteps ==
  ASSUME RevisionInv, SyncInv', NEW self \in Procs, NEW p \in Paths, StatSkipped(self, p)
  PROVE  RevisionInv'
<1> DEFINE w == work[self]
           r == w.rec[p].reason
           new == [reason |-> IF disk[p] \in Unstatable THEN "stat_failed" ELSE r,
                   ident  |-> IF r = "not_utf8" THEN w.ident[p] ELSE StatId(disk[p])]
           v == [w EXCEPT !.rec[p] = new]
<1>0. /\ pc[self] \in {"pass1", "prepare"} /\ pc[self] \in InAttempt
      /\ w.rec[p] # None /\ w.rec[p].ident = None
  BY DEF StatSkipped, Pending, InAttempt, Stages
<1>1. /\ w \in Work /\ Shaped(w) /\ Traced(w)
      /\ \A x \in Paths : disk[x] \in era[x] /\ disk[x] \in Contents \cup {Absent}
      /\ base[self].rev = head.rev => Observed(w, era)
      /\ calm[self] => Matches(w)
  BY <1>0, Held
<1>2. CASE disk[p] = Absent
  BY <1>2, RetrySteps DEF StatSkipped
<1>3. CASE disk[p] # Absent
  <2>1. Gather(self, pc[self], v)
    BY <1>3 DEF StatSkipped
  <2>2. /\ v.checked = w.checked /\ v.sample = w.sample /\ v.ident = w.ident
        /\ v.kind = w.kind /\ v.changed = w.changed /\ v.deleted = w.deleted
        /\ v.rec = [w.rec EXCEPT ![p] = new]
    BY <1>1 DEF Work
  <2>3. /\ new.ident = w.ident[p] \/ new.ident = StatId(disk[p])
        /\ disk[p] \in Contents
    BY <1>1, <1>3
  <2> HIDE DEF new, v
  <2>4. Traced(v)
    BY <1>1, <2>2, <2>3 DEF Traced, Work
  <2>5. base[self].rev = head.rev => Observed(v, era)
    BY <1>1, <1>3, <2>2, <2>3 DEF Observed, Work
  <2>6. calm[self] => Matches(v)
    BY <1>1, <2>2 DEF Matches
  <2>7. pc[self] = "prepare" => SamplesMatch(v)
    BY <2>2 DEF RevisionInv, StepInv, SamplesMatch, Upserts
  <2>8. \A x \in v.checked : pc[self] = "prepare" /\ v.sample[x] \in late[self][x]
    BY <2>2 DEF RevisionInv, StepInv
  <2>9. pc[self] \in AfterVerify /\ base[self].rev = head.rev =>
          \A x \in Paths : Mismatched(files[x]) =>
            x \in meddled[self] \cup v.changed \cup v.deleted
    BY <2>2 DEF RevisionInv, StepInv
  <2> QED
    BY <1>0, <2>1, <2>4, <2>5, <2>6, <2>7, <2>8, <2>9, GatherSteps
<1> QED
  BY <1>2, <1>3

\* Steps before the repairs are known, from an attempt that has checked nothing.
LEMMA EarlySteps ==
  ASSUME RevisionInv, SyncInv', NEW self \in Procs, NEW s \in InAttempt \ AfterVerify, NEW w,
         pc[self] \in InAttempt \ AfterVerify, Gather(self, s, w), Traced(w),
         base[self].rev = head.rev => Observed(w, era),
         calm[self] => Matches(w),
         w.checked = work[self].checked
  PROVE  RevisionInv'
<1>1. pc[self] # "prepare" /\ s # "prepare"
  BY DEF AfterVerify
<1>2. \A p \in w.checked : FALSE
  BY <1>1 DEF RevisionInv, StepInv
<1> QED
  BY <1>1, <1>2, GatherSteps

LEMMA HashSteps ==
  ASSUME RevisionInv, SyncInv', NEW self \in Procs, NEW p \in Paths, HashFile(self, p)
  PROVE  RevisionInv'
<1> DEFINE w == work[self]
           outcome == HashOutcome(disk[p])
<1>0. /\ pc[self] = "pass1" /\ "pass1" \in InAttempt \ AfterVerify
      /\ p \in Discovered(w) /\ w.ident[p] = None /\ w.rec[p] = None
  BY DEF HashFile, InAttempt, Stages, AfterVerify
<1>1. /\ w \in Work /\ Shaped(w) /\ Traced(w)
      /\ \A x \in Paths : disk[x] \in era[x] /\ disk[x] \in Contents \cup {Absent}
      /\ base[self].rev = head.rev => Observed(w, era)
      /\ calm[self] => Matches(w)
  BY <1>0, Held
<1>2. CASE outcome \in {"vanished", "error"}
  BY <1>2, RetrySteps, EndCallSteps DEF HashFile
<1>3. CASE outcome = "oversize"
  <2> DEFINE r == [reason |-> "oversize", ident |-> None]
             v == [w EXCEPT !.rec[p] = r]
  <2>1. Gather(self, "pass1", v)
    BY <1>3 DEF HashFile
  <2>2. r.ident = None
    OBVIOUS
  <2> HIDE DEF r
  <2>3. Traced(v) /\ v.checked = w.checked
    BY <1>1, <2>2 DEF Traced, Work
  <2>4. base[self].rev = head.rev => Observed(v, era)
    BY <1>1, <2>2 DEF Observed, Work
  <2>5. calm[self] => Matches(v)
    BY <1>1 DEF Matches, Work
  <2> HIDE DEF v
  <2> QED
    BY <1>0, <2>1, <2>3, <2>4, <2>5, EarlySteps
<1>4. CASE outcome = "hash"
  <2> DEFINE v == [w EXCEPT !.ident[p] = HashId(disk[p])]
  <2>1. Gather(self, "pass1", v) /\ disk[p] # Absent
    BY <1>4 DEF HashFile, HashOutcome
  <2>2. Traced(v) /\ v.checked = w.checked
    BY <1>0, <1>1 DEF Traced, Work
  <2>3. base[self].rev = head.rev => Observed(v, era)
    BY <1>1, <2>1 DEF Observed, Work
  <2>4. calm[self] => Matches(v)
    BY <1>1 DEF Matches, Work
  <2> HIDE DEF v
  <2> QED
    BY <1>0, <2>1, <2>2, <2>3, <2>4, EarlySteps
<1> QED
  BY <1>2, <1>3, <1>4 DEF HashOutcome

LEMMA DiffSteps ==
  ASSUME RevisionInv, SyncInv', NEW self \in Procs,
         EndWalk(self) \/ DiffAgainstStored(self) \/ AddLoadFailedRetries(self)
  PROVE  RevisionInv'
<1> DEFINE w == work[self]
<1>0. /\ pc[self] \in InAttempt \ AfterVerify
      /\ {"pass1", "retries", "verify"} \subseteq InAttempt \ AfterVerify
  BY DEF EndWalk, DiffAgainstStored, AddLoadFailedRetries, InAttempt, Stages, AfterVerify
<1>1. /\ w \in Work /\ Traced(w)
      /\ base[self].rev = head.rev => Observed(w, era)
      /\ calm[self] => Matches(w)
  BY <1>0, Held
<1>2. PICK s \in {"pass1", "retries", "verify"}, C \in SUBSET Paths, D \in SUBSET Paths :
        Gather(self, s, [w EXCEPT !.changed = C, !.deleted = D])
  <2>1. CASE EndWalk(self)
    <3>1. w = [w EXCEPT !.changed = w.changed, !.deleted = w.deleted]
      BY <1>1 DEF Work
    <3>2. w.changed \in SUBSET Paths /\ w.deleted \in SUBSET Paths
      BY <1>1 DEF Work
    <3>3. Gather(self, "pass1", [w EXCEPT !.changed = w.changed, !.deleted = w.deleted])
      BY <2>1, <3>1 DEF EndWalk
    <3> QED
      BY <3>2, <3>3
  <2>2. CASE DiffAgainstStored(self)
    BY <2>2 DEF DiffAgainstStored
  <2>3. CASE AddLoadFailedRetries(self)
    <3>1. \A C : [w EXCEPT !.changed = C] = [w EXCEPT !.changed = C, !.deleted = w.deleted]
      BY <1>1 DEF Work
    <3>2. w = [w EXCEPT !.changed = w.changed]
      BY <1>1 DEF Work
    <3>3. \E C \in SUBSET Paths : Gather(self, "verify", [w EXCEPT !.changed = C])
      BY <1>1, <2>3, <3>2 DEF AddLoadFailedRetries, LoadFailedPaths, Work
    <3> QED
      BY <1>1, <3>1, <3>3 DEF Work
  <2> QED
    BY <2>1, <2>2, <2>3
<1> DEFINE v == [w EXCEPT !.changed = C, !.deleted = D]
<1>3. /\ v.kind = w.kind /\ v.ident = w.ident /\ v.rec = w.rec
      /\ v.sample = w.sample /\ v.checked = w.checked
  BY <1>1 DEF Work
<1> HIDE DEF v
<1>4. Traced(v) /\ (base[self].rev = head.rev => Observed(v, era)) /\ (calm[self] => Matches(v))
  BY <1>1, <1>3 DEF Traced, Observed, Matches
<1> QED
  BY <1>0, <1>2, <1>3, <1>4, EarlySteps DEF v

-----------------------------------------------------------------------------
(* Repairs: which stored rows an attempt may leave as they are.             *)

\* A row whose text was edited has a file that pass 1 hashed, or is in the diff.
LEMMA EditedRowsAreSeen ==
  ASSUME RevisionInv, NEW self \in Procs, pc[self] \in AfterDiff, base[self].rev = head.rev,
         NEW p \in Paths, Mismatched(files[p])
  PROVE  work[self].ident[p] # None \/ p \in work[self].changed \cup work[self].deleted
<1> DEFINE w == work[self]
<1> SUFFICES ASSUME w.ident[p] = None, p \notin w.changed \cup w.deleted PROVE FALSE
  OBVIOUS
<1>0. pc[self] \in InAttempt
  BY DEF AfterDiff, InAttempt, Stages
<1>1. w \in Work /\ Traced(w) /\ Hashed(w) /\ DiffFits(w, files) /\ TypeOK
  BY <1>0, Held, Attempt
<1>2. files[p] # None /\ files[p].kind # "skipped"
  BY <1>1 DEF Mismatched, TypeOK, Row
<1>3. PICK c \in Contents : files[p].ident = HashId(c)
  BY <1>2 DEF RevisionInv, RowsAreHashed
<1>4. HashId(c) # None
  BY IdentTypes, NoneAssumption
<1>5. PassOne(w)[p] = HashId(c)
  BY <1>1, <1>2, <1>3 DEF DiffFits
<1>6. w.rec[p] # None /\ w.rec[p].ident = HashId(c)
  BY <1>4, <1>5 DEF PassOne
<1>7. PICK d \in Contents : w.rec[p].ident = StatId(d)
  BY <1>1, <1>4, <1>6 DEF Traced
<1> QED
  BY <1>6, <1>7 DEF HashId, StatId

LEMMA VerifySteps ==
  ASSUME RevisionInv, SyncInv', NEW self \in Procs, VerifyStored(self)
  PROVE  RevisionInv'
<1> DEFINE w == work[self]
           v == [w EXCEPT !.changed = @ \cup Repairs(self)]
<1>0. /\ pc[self] = "verify" /\ pc[self] \in InAttempt /\ pc[self] \in AfterDiff
      /\ "unrep" \in InAttempt /\ "unrep" \in AfterVerify
  BY DEF VerifyStored, InAttempt, Stages, AfterDiff, AfterVerify
<1>1. /\ w \in Work /\ Traced(w) /\ TypeOK
      /\ base[self].rev = head.rev => Observed(w, era) /\ base[self].pack = head.pack
      /\ calm[self] => base[self].rev = head.rev /\ Matches(w)
  BY <1>0, Held
<1>2. /\ pc'[self] = "unrep" /\ work'[self] = v
      /\ UNCHANGED <<disk, files, head, era, base, synced, calm, late>>
      /\ \A q \in Procs \ {self} :
           pc'[q] = pc[q] /\ work'[q] = work[q] /\ meddled'[q] = meddled[q]
  BY <1>1 DEF VerifyStored, TypeOK
<1>3. /\ v.kind = w.kind /\ v.ident = w.ident /\ v.rec = w.rec /\ v.sample = w.sample
      /\ v.checked = w.checked /\ v.deleted = w.deleted
      /\ v.changed = w.changed \cup Repairs(self)
  BY <1>1 DEF Work
<1>4. base[self].rev = head.rev =>
        \A p \in Paths : Mismatched(files[p]) => p \in v.changed \cup v.deleted
  BY <1>0, <1>3, EditedRowsAreSeen DEF Repairs
<1>5. \A p \in w.checked : FALSE
  BY <1>0 DEF RevisionInv, StepInv
<1> HIDE DEF v
<1>6. Traced(v) /\ (base[self].rev = head.rev => Observed(v, era)) /\ (calm[self] => Matches(v))
  BY <1>1, <1>3 DEF Traced, Observed, Matches
<1>7. StepInv(self)'
  BY <1>1, <1>2, <1>3, <1>4, <1>5, <1>6 DEF StepInv, Answers, Observed, Matches
<1> QED
  BY <1>2, <1>7, OwnStep

LEMMA UnrepSteps ==
  ASSUME RevisionInv, SyncInv', NEW self \in Procs, ReplaceUnrepresentable(self)
  PROVE  RevisionInv'
<1>1. /\ pc[self] = "unrep" /\ pc'[self] \in {"recheck", "pass2"}
      /\ UNCHANGED <<disk, files, head, era, base, work, synced, calm, meddled, late>>
      /\ \A q \in Procs \ {self} : pc'[q] = pc[q]
  BY DEF ReplaceUnrepresentable, RevisionInv, SyncInv, TypeOK
<1>2. StepInv(self)
  BY DEF RevisionInv
<1>3. StepInv(self)'
  BY <1>1, <1>2
     DEF StepInv, Answers, Observed, Matches, SamplesMatch, Upserts, InAttempt, AfterVerify, Stages
<1> QED
  BY <1>1, <1>3, OwnStep

LEMMA UnchangedSteps ==
  ASSUME RevisionInv, SyncInv', NEW self \in Procs, UnchangedReport(self)
  PROVE  RevisionInv'
<1>1. CASE head.rev # base[self].rev
  BY <1>1, RetrySteps DEF UnchangedReport
<1>2. CASE head.rev = base[self].rev
  <2>1. /\ pc[self] = "recheck" /\ pc'[self] = "read" /\ work'[self] = NoWork
        /\ UNCHANGED <<disk, files, head, era, calm, meddled>>
        /\ \A q \in Procs \ {self} :
             /\ pc'[q] = pc[q] /\ base'[q] = base[q] /\ work'[q] = work[q]
             /\ synced'[q] = synced[q] /\ late'[q] = late[q]
    BY <1>2 DEF UnchangedReport, Synced, RevisionInv, SyncInv, TypeOK
  <2>2. work[self].changed = {} /\ work[self].deleted = {}
    BY <2>1 DEF RevisionInv, SyncInv, CallInv
  <2>3. \A p \in Paths : Mismatched(files[p]) => p \in meddled[self]
    BY <1>2, <2>1, <2>2 DEF RevisionInv, StepInv, AfterVerify
  <2>4. StepInv(self)'
    BY <2>1, <2>3, EmptyWork, EmptyWorkSteps DEF StepInv, InAttempt, AfterVerify
  <2> QED
    BY <2>1, <2>4, OwnStep
<1> QED
  BY <1>1, <1>2

-----------------------------------------------------------------------------
(* Pass 2 and the commit.                                                   *)

LEMMA SampleSteps ==
  ASSUME RevisionInv, SyncInv', NEW self \in Procs, NEW p \in Paths, SampleFile(self, p)
  PROVE  RevisionInv'
<1> DEFINE w == work[self]
           outcome == SampleOutcome(disk[p], w.kind[p])
<1>0. /\ pc[self] = "pass2" /\ pc[self] \in AfterVerify /\ "pass2" \in InAttempt
      /\ p \in Discovered(w) /\ w.ident[p] # None /\ w.sample[p] = None /\ w.rec[p] = None
  BY DEF SampleFile, ToSample, InAttempt, Stages, AfterVerify
<1>1. /\ w \in Work /\ Shaped(w) /\ Traced(w)
      /\ \A x \in Paths : disk[x] \in era[x] /\ disk[x] \in Contents \cup {Absent}
      /\ base[self].rev = head.rev => Observed(w, era)
      /\ calm[self] => Matches(w)
  BY <1>0, Held
<1>2. \A x \in w.checked : FALSE
  BY <1>0 DEF RevisionInv, StepInv
<1>3. base[self].rev = head.rev =>
        \A x \in Paths : Mismatched(files[x]) => x \in meddled[self] \cup w.changed \cup w.deleted
  BY <1>0 DEF RevisionInv, StepInv
<1>4. CASE outcome \in {"vanished", "error"}
  BY <1>4, RetrySteps, EndCallSteps DEF SampleFile
<1>5. CASE outcome \in {"oversize", "not_utf8"}
  <2> DEFINE r == [reason |-> outcome, ident |-> None]
             v == [w EXCEPT !.rec[p] = r]
  <2>1. Gather(self, "pass2", v)
    BY <1>5 DEF SampleFile
  <2>2. r.ident = None
    OBVIOUS
  <2> HIDE DEF r
  <2>3. /\ v.kind = w.kind /\ v.ident = w.ident /\ v.sample = w.sample
        /\ v.rec = [w.rec EXCEPT ![p] = r]
        /\ v.checked = w.checked /\ v.changed = w.changed /\ v.deleted = w.deleted
    BY <1>1 DEF Work
  <2> HIDE DEF v
  <2>4. Traced(v) /\ (calm[self] => Matches(v))
    BY <1>1, <2>2, <2>3 DEF Traced, Matches, Work
  <2>5. base[self].rev = head.rev => Observed(v, era)
    BY <1>1, <2>2, <2>3 DEF Observed, Work
  <2> QED
    BY <1>0, <1>2, <1>3, <2>1, <2>3, <2>4, <2>5, GatherSteps
<1>6. CASE outcome = "sample"
  <2> DEFINE v == [w EXCEPT !.sample[p] = disk[p]]
  <2>1. Gather(self, "pass2", v)
    BY <1>6 DEF SampleFile
  <2>2. disk[p] # Absent
    BY <1>6 DEF SampleOutcome
  <2>3. /\ v.kind = w.kind /\ v.ident = w.ident /\ v.rec = w.rec
        /\ v.sample = [w.sample EXCEPT ![p] = disk[p]]
        /\ v.checked = w.checked /\ v.changed = w.changed /\ v.deleted = w.deleted
    BY <1>1 DEF Work
  <2> HIDE DEF v
  <2>4. Traced(v)
    BY <1>0, <1>1, <2>3 DEF Traced, Work
  <2>5. calm[self] => Matches(v)
    BY <1>1, <1>6, <2>3 DEF Matches, Work
  <2>6. base[self].rev = head.rev => Observed(v, era)
    BY <1>1, <2>2, <2>3 DEF Observed, Work
  <2> QED
    BY <1>0, <1>2, <1>3, <2>1, <2>3, <2>4, <2>5, <2>6, GatherSteps
<1> QED
  BY <1>4, <1>5, <1>6 DEF SampleOutcome

LEMMA CheckSteps ==
  ASSUME RevisionInv, SyncInv', NEW self \in Procs, CheckSamples(self)
  PROVE  RevisionInv'
<1> DEFINE w == work[self]
<1>1. CASE ~SamplesMatch(w)
  BY <1>1, RetrySteps DEF CheckSamples
<1>2. CASE SamplesMatch(w)
  <2>1. /\ pc[self] = "pass2" /\ pc'[self] = "prepare"
        /\ UNCHANGED <<disk, files, head, era, base, work, synced, calm, meddled>>
        /\ \A p \in Paths : disk[p] \in late'[self][p]
        /\ \A q \in Procs \ {self} : pc'[q] = pc[q] /\ late'[q] = late[q]
    BY <1>2 DEF CheckSamples, RevisionInv, SyncInv, TypeOK
  <2>2. StepInv(self)
    BY DEF RevisionInv
  <2>3. StepInv(self)'
    BY <1>2, <2>1, <2>2
       DEF StepInv, Answers, Observed, Matches, SamplesMatch, Upserts, InAttempt, AfterVerify, Stages
  <2> QED
    BY <2>1, <2>3, OwnStep
<1> QED
  BY <1>1, <1>2

LEMMA RevalidateSteps ==
  ASSUME RevisionInv, SyncInv', NEW self \in Procs, NEW p \in Paths, Revalidate(self, p)
  PROVE  RevisionInv'
<1> DEFINE w == work[self]
           v == [w EXCEPT !.checked = @ \cup {p}]
<1>0. pc[self] = "prepare" /\ pc[self] \in InAttempt /\ pc[self] \in AfterVerify
  BY DEF Revalidate, InAttempt, Stages, AfterVerify
<1>1. \/ RetryOrFail(self) \/ EndCall(self)
      \/ Gather(self, "prepare", v) /\ HashId(disk[p]) = HashId(w.sample[p])
  BY DEF Revalidate
<1>2. CASE RetryOrFail(self) \/ EndCall(self)
  BY <1>2, RetrySteps, EndCallSteps
<1>3. CASE Gather(self, "prepare", v) /\ HashId(disk[p]) = HashId(w.sample[p])
  <2>1. /\ w \in Work /\ Traced(w)
        /\ base[self].rev = head.rev => Observed(w, era)
        /\ calm[self] => Matches(w)
    BY <1>0, Held
  <2>2. /\ v.kind = w.kind /\ v.ident = w.ident /\ v.rec = w.rec /\ v.sample = w.sample
        /\ v.checked = w.checked \cup {p} /\ v.changed = w.changed /\ v.deleted = w.deleted
    BY <2>1 DEF Work
  <2> HIDE DEF v
  <2>3. /\ Traced(v) /\ (calm[self] => Matches(v))
        /\ base[self].rev = head.rev => Observed(v, era)
    BY <2>1, <2>2 DEF Traced, Matches, Observed
  <2>4. w.sample[p] \in late[self][p]
    BY <1>0, <1>3 DEF HashId, RevisionInv, StepInv
  <2>5. \A x \in v.checked : v.sample[x] \in late[self][x]
    BY <2>2, <2>4 DEF RevisionInv, StepInv
  <2>6. SamplesMatch(v)
    BY <1>0, <2>2 DEF RevisionInv, StepInv, SamplesMatch, Upserts
  <2>7. base[self].rev = head.rev =>
          \A x \in Paths : Mismatched(files[x]) => x \in meddled[self] \cup v.changed \cup v.deleted
    BY <1>0, <2>2 DEF RevisionInv, StepInv
  <2> QED
    BY <1>0, <1>3, <2>3, <2>5, <2>6, <2>7, GatherSteps
<1> QED
  BY <1>1, <1>2, <1>3

\* The rows one transaction leaves, told by what the attempt did with their paths.
LEMMA CommittedKinds ==
  ASSUME RevisionInv, NEW self \in Procs, PublishRevision(self), BaselineHolds(self),
         NEW failed \in SUBSET Paths, NEW p \in Paths
  PROVE  LET w == work[self]
             row == NewFiles(self, failed)[p]
         IN
         \/ row = None
         \/ row.kind = "skipped" /\ row.content = None
         \/ /\ w.sample[p] \in Contents /\ row.ident = HashId(w.sample[p])
            /\ row.content \in {None, w.sample[p]} /\ row.by = Version[self]
            /\ PassOne(w)[p] = row.ident
         \/ /\ row = files[p] /\ p \notin w.changed \cup w.deleted
            /\ ~PackChanged(self) /\ PassOne(w)[p] = row.ident
<1> DEFINE w == work[self]
           row == NewFiles(self, failed)[p]
<1>0. /\ pc[self] = "prepare" /\ pc[self] \in InAttempt /\ pc[self] \in AfterDiff
  BY DEF PublishRevision, InAttempt, Stages, AfterDiff
<1>1. /\ w \in Work /\ Shaped(w) /\ Traced(w) /\ DiffFits(w, files) /\ DiffSides(w)
      /\ SamplesMatch(w) /\ CallInv(self)
  BY <1>0, Held, Attempt DEF BaselineHolds, RevisionInv, StepInv, SyncInv
<1>2. CASE w.rec[p] # None
  BY <1>2 DEF NewFiles, SkipRow
<1>3. CASE w.rec[p] = None /\ w.sample[p] # None
  <2>1. row = FileRow(self, p, IF p \in failed THEN "LoadFailed" ELSE "Loaded")
    BY <1>3 DEF NewFiles
  <2>2. w.ident[p] # None /\ w.ident[p] = HashId(w.sample[p])
    BY <1>1, <1>3 DEF Traced, SamplesMatch, Upserts
  <2>3. w.sample[p] \in Contents
    BY <1>1, <1>3 DEF Work
  <2> QED
    BY <2>1, <2>2, <2>3 DEF FileRow, PassOne
<1>4. CASE w.rec[p] = None /\ w.sample[p] = None /\ p \in w.deleted
  BY <1>4 DEF NewFiles
<1>5. CASE w.rec[p] = None /\ w.sample[p] = None /\ p \notin w.deleted /\ files[p] # None
  <2>1. row = files[p]
    BY <1>5 DEF NewFiles
  <2>2. w.ident[p] # None => p \notin ToSample(self)
    BY <1>0, <1>1, <1>5 DEF CallInv
  <2>3. w.ident[p] # None => p \notin w.changed /\ ~PackChanged(self)
    BY <1>1, <2>2 DEF Shaped, ToSample
  <2>4. w.ident[p] # None \/ PassOne(w)[p] = None
    BY <1>5 DEF PassOne
  <2>5. p \notin w.changed
    BY <1>1, <2>3, <2>4 DEF DiffSides
  <2>6. files[p].ident = PassOne(w)[p] /\ files[p] \in Row
    BY <1>1, <1>5, <2>5 DEF DiffFits, RevisionInv, SyncInv, TypeOK
  <2>7. files[p].ident # None
    BY <2>6, NoneAssumption DEF Row
  <2> QED
    BY <1>5, <2>1, <2>3, <2>4, <2>5, <2>6, <2>7
<1>6. CASE w.rec[p] = None /\ w.sample[p] = None /\ p \notin w.deleted /\ files[p] = None
  BY <1>6 DEF NewFiles
<1> QED
  BY <1>2, <1>3, <1>4, <1>5, <1>6

LEMMA CommitSteps ==
  ASSUME RevisionInv, SyncInv', NEW self \in Procs, PublishRevision(self)
  PROVE  RevisionInv'
<1> DEFINE w == work[self]
<1>0. pc[self] = "prepare" /\ pc[self] \in InAttempt /\ pc[self] \in AfterVerify
  BY DEF PublishRevision, InAttempt, Stages, AfterVerify
<1>1. CASE ~BaselineHolds(self)
  BY <1>1, RetrySteps DEF PublishRevision
<1>2. CASE BaselineHolds(self)
  <2>1. PICK failed \in SUBSET Paths : files' = NewFiles(self, failed)
    BY <1>2 DEF PublishRevision, Upserts
  <2>2. /\ head' = [rev |-> head.rev + 1, pack |-> Version[self], manifest |-> PassOne(w)]
        /\ era' = [p \in Paths |-> {disk[p]}] /\ calm' = [q \in Procs |-> FALSE]
        /\ pc'[self] = "read" /\ work'[self] = NoWork /\ synced'[self] = head.rev + 1
        /\ UNCHANGED <<disk, meddled>>
        /\ \A q \in Procs \ {self} :
             /\ pc'[q] = pc[q] /\ base'[q] = base[q] /\ work'[q] = work[q]
             /\ synced'[q] = synced[q] /\ late'[q] = late[q]
    BY <1>2 DEF PublishRevision, Synced, RevisionInv, SyncInv, TypeOK
  <2>3. ~PackChanged(self) => head.pack = Version[self]
    BY <1>0, <1>2, Held DEF PackChanged, BaselineHolds
  <2>4. RowsAreHashed'
    BY <1>2, <2>1, CommittedKinds DEF RowsAreHashed, RevisionInv
  <2>5. ManifestCoversIndexed'
    BY <1>2, <2>1, <2>2, CommittedKinds DEF ManifestCoversIndexed
  <2>6. RowsMatchPack'
    BY <1>2, <2>1, <2>2, <2>3, CommittedKinds DEF RowsMatchPack, RevisionInv
  <2>7. \A p \in Paths : Mismatched(files'[p]) => p \in meddled[self]
    <3>1. SUFFICES ASSUME NEW p \in Paths, Mismatched(files'[p]) PROVE p \in meddled[self]
      OBVIOUS
    <3>2. files'[p] = files[p] /\ p \notin w.changed \cup w.deleted
      BY <1>2, <2>1, <3>1, CommittedKinds DEF Mismatched
    <3> QED
      BY <1>0, <1>2, <3>1, <3>2 DEF RevisionInv, StepInv, BaselineHolds
  <2>8. StepInv(self)'
    BY <2>2, <2>7, EmptyWork, EmptyWorkSteps DEF StepInv, InAttempt, AfterVerify
  <2>9. ASSUME NEW q \in Procs, q # self PROVE StepInv(q)'
    <3>1. StepInv(q) /\ CallInv(q) /\ head.rev \in Nat /\ base[q].rev \in Nat /\ synced[q] \in Nat
      BY DEF RevisionInv, SyncInv, TypeOK, Baselines, Revisions
    <3>2. base'[q].rev # head'.rev /\ synced'[q] # head'.rev
      BY <2>2, <2>9, <3>1 DEF CallInv
    <3> QED
      BY <2>2, <2>9, <3>1, <3>2 DEF StepInv, Answers, SamplesMatch, Upserts
  <2> QED
    BY <2>2, <2>4, <2>5, <2>6, <2>8, <2>9 DEF RevisionInv
<1> QED
  BY <1>1, <1>2

-----------------------------------------------------------------------------
(* The invariant of every behaviour.                                        *)

LEMMA RevisionInvInit == Init => RevisionInv
<1> SUFFICES ASSUME Init PROVE RevisionInv
  OBVIOUS
<1>1. SyncInv
  BY SyncInvInit
<1>2. \A q \in Procs : StepInv(q)
  BY EmptyWork, EmptyWorkSteps DEF Init, StepInv, InAttempt, AfterVerify, Answers
<1>3. \A c \in Contents, v \in Versions :
        RowOf(c, v).kind # "skipped" => RowOf(c, v).ident = HashId(c) /\ RowOf(c, v).by = v
  BY DEF RowOf
<1>4. ASSUME EmptyIndex
      PROVE  RowsAreHashed /\ ManifestCoversIndexed /\ RowsMatchPack
  BY <1>4 DEF EmptyIndex, RowsAreHashed, ManifestCoversIndexed, RowsMatchPack
<1>5. ASSUME NEW tree \in [Paths -> Contents \cup {Absent}], NEW v \in Versions,
             ExactIndex(tree, v)
      PROVE  RowsAreHashed /\ ManifestCoversIndexed /\ RowsMatchPack
  <2>1. ASSUME NEW p \in Paths, files[p] # None
        PROVE  /\ tree[p] \in Contents /\ files[p] = RowOf(tree[p], v)
               /\ head.manifest[p] = files[p].ident /\ head.pack = v
    BY <1>5, <2>1 DEF ExactIndex, RowAt
  <2>2. ASSUME NEW p \in Paths, files[p] # None, files[p].kind # "skipped"
        PROVE  files[p].ident = HashId(tree[p]) /\ files[p].by = v
    BY <1>3, <2>1, <2>2
  <2> QED
    BY <2>1, <2>2 DEF RowsAreHashed, ManifestCoversIndexed, RowsMatchPack
<1>6. RowsAreHashed /\ ManifestCoversIndexed /\ RowsMatchPack
  BY <1>4, <1>5 DEF Init
<1>7. \A p \in Paths : disk[p] \in era[p]
  BY DEF Init
<1> QED
  BY <1>1, <1>2, <1>6, <1>7 DEF RevisionInv

LEMMA RevisionInvNext == RevisionInv /\ [Next]_vars => RevisionInv'
<1> SUFFICES ASSUME RevisionInv, [Next]_vars PROVE RevisionInv'
  OBVIOUS
<1>0. SyncInv'
  BY SyncInvNext DEF RevisionInv
<1>1. CASE Environment
  BY <1>0, <1>1, EditSteps, TamperSteps DEF Environment
<1>2. ASSUME NEW self \in Procs, BeginCall(self) \/ Abort(self) PROVE RevisionInv'
  BY <1>0, <1>2, BeginSteps, EndCallSteps DEF Abort
<1>3. ASSUME NEW self \in Procs, Step(self) PROVE RevisionInv'
  <2>1. CASE ReadBaseline(self)
    BY <1>0, <2>1, BeginSteps
  <2>2. CASE EndWalk(self) \/ DiffAgainstStored(self) \/ AddLoadFailedRetries(self)
    BY <1>0, <2>2, DiffSteps
  <2>3. CASE VerifyStored(self)
    BY <1>0, <2>3, VerifySteps
  <2>4. CASE ReplaceUnrepresentable(self)
    BY <1>0, <2>4, UnrepSteps
  <2>5. CASE UnchangedReport(self)
    BY <1>0, <2>5, UnchangedSteps
  <2>6. CASE CheckSamples(self)
    BY <1>0, <2>6, CheckSteps
  <2>7. CASE PublishRevision(self)
    BY <1>0, <2>7, CommitSteps
  <2>8. CASE VerifiedRead(self) \/ StaleRevision(self)
    BY <1>0, <2>8, EndCallSteps DEF VerifiedRead, StaleRevision
  <2>9. ASSUME NEW p \in Paths, ListEntry(self, p) \/ SniffEntry(self, p) PROVE RevisionInv'
    BY <1>0, <2>9, WalkSteps
  <2>10. ASSUME NEW p \in Paths, StatSkipped(self, p) PROVE RevisionInv'
    BY <1>0, <2>10, StatSteps
  <2>11. ASSUME NEW p \in Paths, HashFile(self, p) PROVE RevisionInv'
    BY <1>0, <2>11, HashSteps
  <2>12. ASSUME NEW p \in Paths, SampleFile(self, p) PROVE RevisionInv'
    BY <1>0, <2>12, SampleSteps
  <2>13. ASSUME NEW p \in Paths, Revalidate(self, p) PROVE RevisionInv'
    BY <1>0, <2>13, RevalidateSteps
  <2> QED
    BY <1>3, <2>1, <2>2, <2>3, <2>4, <2>5, <2>6, <2>7, <2>8, <2>9, <2>10, <2>11, <2>12,
       <2>13 DEF Step
<1>4. CASE UNCHANGED vars
  <2>1. \A q \in Procs : StepInv(q)'
    BY <1>4, OtherStepInv
  <2> QED
    BY <1>0, <1>4, <2>1 DEF RevisionInv, RowsAreHashed, ManifestCoversIndexed, RowsMatchPack
<1> QED
  BY <1>1, <1>2, <1>3, <1>4 DEF Next

\* The inductive invariant: an attempt on the current baseline has seen only what
\* the disk held since that revision was committed; while nothing disturbs it, all
\* it gathered is still so; and it will rewrite every row whose text was edited.
THEOREM RevisionInvHolds == Spec => []RevisionInv
  BY RevisionInvInit, RevisionInvNext, PTL DEF Spec

\* publish_revision: the manifest of a revision, computed from pass 1, names the
\* bytes of each of its rows with text or bytes, written from pass 2.
THEOREM ManifestHolds == Spec => []ManifestCoversIndexed
<1>1. RevisionInv => ManifestCoversIndexed
  BY DEF RevisionInv
<1> QED
  BY <1>1, RevisionInvHolds, PTL

\* files_to_sample re-reads every file when the pack changed: whatever versions
\* share a database, a revision's rows were all parsed by its own pack version.
THEOREM PackHolds == Spec => []RowsMatchPack
<1>1. RevisionInv => RowsMatchPack
  BY DEF RevisionInv
<1> QED
  BY <1>1, RevisionInvHolds, PTL

\* content_mismatches: text edited behind the program's back is never served
\* unless it was edited after the call verified the stored rows.
THEOREM ServedTextHolds == Spec => []ServedTextIsVerified
<1>1. RevisionInv => ServedTextIsVerified
  BY DEF RevisionInv, StepInv, ServedTextIsVerified
<1> QED
  BY <1>1, RevisionInvHolds, PTL

-----------------------------------------------------------------------------
(* What a step may never do.                                                *)

\* The workers' steps end the attempt or add to what it gathered.
LEMMA HashOutcomes ==
  ASSUME NEW self \in Procs, NEW p \in Paths, HashFile(self, p)
  PROVE  \/ disk[p] = Absent /\ RetryOrFail(self)
         \/ EndCall(self)
         \/ \E w : Gather(self, "pass1", w)
<1> DEFINE outcome == HashOutcome(disk[p])
<1>1. CASE outcome = "vanished"
  BY <1>1 DEF HashFile, HashOutcome
<1>2. CASE outcome = "error"
  BY <1>2 DEF HashFile
<1>3. CASE outcome = "oversize"
  BY <1>3 DEF HashFile
<1>4. CASE outcome = "hash"
  BY <1>4 DEF HashFile
<1> QED
  BY <1>1, <1>2, <1>3, <1>4 DEF HashOutcome

LEMMA SampleOutcomes ==
  ASSUME NEW self \in Procs, NEW p \in Paths, SampleFile(self, p)
  PROVE  \/ disk[p] = Absent /\ RetryOrFail(self)
         \/ EndCall(self)
         \/ \E w : Gather(self, "pass2", w)
<1> DEFINE outcome == SampleOutcome(disk[p], work[self].kind[p])
<1>1. CASE outcome = "vanished"
  BY <1>1 DEF SampleFile, SampleOutcome
<1>2. CASE outcome = "error"
  BY <1>2 DEF SampleFile
<1>3. CASE outcome \in {"oversize", "not_utf8"}
  BY <1>3 DEF SampleFile
<1>4. CASE outcome = "sample"
  BY <1>4 DEF SampleFile
<1> QED
  BY <1>1, <1>2, <1>3, <1>4 DEF SampleOutcome

\* Only a commit under an unmoved baseline moves the revision, or takes a call
\* from its last checks to its read.
LEMMA OnlyCommitsMove ==
  ASSUME RevisionInv, Next, NEW q \in Procs,
         \/ head' # head
         \/ pc[q] = "prepare" /\ pc'[q] = "read"
  PROVE  \E self \in Procs :
           /\ PublishRevision(self) /\ BaselineHolds(self)
           /\ pc[q] = "prepare" /\ pc'[q] = "read" => self = q
<1>0. TypeOK
  BY DEF RevisionInv, SyncInv
<1>1. ASSUME NEW self \in Procs, EndCall(self) PROVE FALSE
  BY <1>0, <1>1 DEF EndCall, Forget, TypeOK
<1>2. ASSUME NEW self \in Procs, RetryOrFail(self) PROVE FALSE
  BY <1>0, <1>1, <1>2 DEF RetryOrFail, Forget, TypeOK
<1>3. ASSUME NEW self \in Procs, NEW s, NEW w, Gather(self, s, w), s # "read" PROVE FALSE
  BY <1>0, <1>3 DEF Gather, TypeOK
<1>4. CASE Environment
  <2>1. ASSUME NEW p \in Paths, NEW c \in Contents \cup {Absent}, Edit(p, c) PROVE FALSE
    BY <2>1 DEF Edit
  <2>2. ASSUME NEW p \in Paths, NEW c \in Contents, Tamper(p, c) PROVE FALSE
    BY <1>0, <2>2 DEF Tamper, TypeOK
  <2> QED
    BY <1>4, <2>1, <2>2 DEF Environment
<1>5. ASSUME NEW self \in Procs, BeginCall(self) \/ Abort(self) PROVE FALSE
  BY <1>0, <1>1, <1>5 DEF BeginCall, Abort, TypeOK
<1>6. ASSUME NEW self \in Procs, Step(self)
      PROVE  /\ PublishRevision(self) /\ BaselineHolds(self)
             /\ pc[q] = "prepare" /\ pc'[q] = "read" => self = q
  <2>1. CASE ReadBaseline(self) \/ VerifyStored(self) \/ ReplaceUnrepresentable(self)
    BY <1>0, <2>1 DEF ReadBaseline, VerifyStored, ReplaceUnrepresentable, TypeOK
  <2>2. CASE EndWalk(self) \/ DiffAgainstStored(self) \/ AddLoadFailedRetries(self)
    BY <1>3, <2>2 DEF EndWalk, DiffAgainstStored, AddLoadFailedRetries
  <2>3. CASE UnchangedReport(self)
    BY <1>0, <1>2, <2>3 DEF UnchangedReport, Synced, TypeOK
  <2>4. CASE CheckSamples(self)
    BY <1>0, <1>2, <2>4 DEF CheckSamples, TypeOK
  <2>5. CASE PublishRevision(self)
    BY <1>0, <1>2, <2>5 DEF PublishRevision, Synced, TypeOK
  <2>6. CASE VerifiedRead(self) \/ StaleRevision(self)
    BY <1>1, <2>6 DEF VerifiedRead, StaleRevision
  <2>7. ASSUME NEW p \in Paths, ListEntry(self, p) \/ SniffEntry(self, p) PROVE FALSE
    BY <1>2, <1>3, <2>7 DEF ListEntry, SniffEntry
  <2>8. ASSUME NEW p \in Paths, StatSkipped(self, p) PROVE FALSE
    BY <1>2, <1>3, <2>8 DEF StatSkipped
  <2>9. ASSUME NEW p \in Paths, HashFile(self, p) PROVE FALSE
    BY <1>1, <1>2, <1>3, <2>9, HashOutcomes
  <2>10. ASSUME NEW p \in Paths, SampleFile(self, p) PROVE FALSE
    BY <1>1, <1>2, <1>3, <2>10, SampleOutcomes
  <2>11. ASSUME NEW p \in Paths, Revalidate(self, p) PROVE FALSE
    BY <1>1, <1>2, <1>3, <2>11 DEF Revalidate
  <2> QED
    BY <1>6, <2>1, <2>2, <2>3, <2>4, <2>5, <2>6, <2>7, <2>8, <2>9, <2>10, <2>11 DEF Step
<1> QED
  BY <1>4, <1>5, <1>6 DEF Next

\* An attempt that nothing disturbed since it read its baseline does not retry.
LEMMA CalmSteps ==
  ASSUME RevisionInv, NEW self \in Procs, calm[self], Step(self)
  PROVE  attempt' = attempt \/ EndCall(self)
<1> DEFINE w == work[self]
<1>0. pc[self] \in InAttempt =>
        /\ base[self].rev = head.rev /\ Matches(w) /\ Shaped(w) /\ Traced(w)
  BY Held
<1>1. CASE \/ ReadBaseline(self) \/ VerifyStored(self) \/ ReplaceUnrepresentable(self)
           \/ EndWalk(self) \/ DiffAgainstStored(self) \/ AddLoadFailedRetries(self)
  BY <1>1 DEF ReadBaseline, VerifyStored, ReplaceUnrepresentable, EndWalk, DiffAgainstStored,
              AddLoadFailedRetries, Gather
<1>2. CASE UnchangedReport(self)
  BY <1>0, <1>2 DEF UnchangedReport, InAttempt, Stages
<1>3. CASE CheckSamples(self)
  <2>1. SamplesMatch(w)
    BY <1>0, <1>3 DEF CheckSamples, InAttempt, Stages, SamplesMatch, Upserts, Matches, Traced
  <2> QED
    BY <1>3, <2>1 DEF CheckSamples
<1>4. CASE PublishRevision(self)
  BY <1>0, <1>4 DEF PublishRevision, BaselineHolds, InAttempt, Stages
<1>5. CASE VerifiedRead(self) \/ StaleRevision(self)
  BY <1>5 DEF VerifiedRead, StaleRevision
<1>6. ASSUME NEW p \in Paths, ListEntry(self, p) \/ SniffEntry(self, p)
      PROVE  attempt' = attempt
  <2>1. SniffEntry(self, p) => disk[p] # Absent
    BY <1>0 DEF SniffEntry, InAttempt, Stages, Matches
  <2> QED
    BY <1>6, <2>1 DEF ListEntry, SniffEntry, Gather
<1>7. ASSUME NEW p \in Paths, StatSkipped(self, p) PROVE attempt' = attempt
  <2>1. disk[p] # Absent
    BY <1>0, <1>7 DEF StatSkipped, Pending, InAttempt, Stages, Matches, Shaped
  <2> QED
    BY <1>7, <2>1 DEF StatSkipped, Gather
<1>8. ASSUME NEW p \in Paths, HashFile(self, p) PROVE attempt' = attempt \/ EndCall(self)
  <2>1. disk[p] # Absent
    BY <1>0, <1>8 DEF HashFile, Discovered, InAttempt, Stages, Matches
  <2> QED
    BY <1>8, <2>1, HashOutcomes DEF Gather
<1>9. ASSUME NEW p \in Paths, SampleFile(self, p) PROVE attempt' = attempt \/ EndCall(self)
  <2>1. disk[p] # Absent
    BY <1>0, <1>9 DEF SampleFile, ToSample, Discovered, InAttempt, Stages, Matches
  <2> QED
    BY <1>9, <2>1, SampleOutcomes DEF Gather
<1>10. ASSUME NEW p \in Paths, Revalidate(self, p) PROVE attempt' = attempt \/ EndCall(self)
  <2>1. w.sample[p] = disk[p] /\ SampleOutcome(disk[p], w.kind[p]) = "sample"
    BY <1>0, <1>10 DEF Revalidate, Upserts, InAttempt, Stages, Matches
  <2> QED
    BY <1>10, <2>1 DEF Revalidate, Gather
<1> QED
  BY <1>1, <1>2, <1>3, <1>4, <1>5, <1>6, <1>7, <1>8, <1>9, <1>10 DEF Step

\* publish_revision "stops an older sample from committing after a newer one":
\* every entry of a new revision was seen after the one it replaces was committed.
THEOREM RevisionsAdvance == Spec => RevisionsMoveForward
<1>1. RevisionInv /\ RevisionInv' /\ [Next]_vars =>
        (head'.rev # head.rev => \A p \in Paths \ Unrep : Justified(files'[p], era[p]))
  <2> SUFFICES ASSUME RevisionInv, RevisionInv', [Next]_vars, head'.rev # head.rev,
                      NEW p \in Paths \ Unrep
               PROVE  Justified(files'[p], era[p])
    OBVIOUS
  <2>1. Next
    OBVIOUS
  <2>2. PICK q \in Procs : TRUE
    <3>1. ~Environment
      BY DEF Environment, Edit, Tamper
    <3> QED
      BY <2>1, <3>1 DEF Next
  <2>3. PICK self \in Procs : PublishRevision(self) /\ BaselineHolds(self)
    <3>1. head' # head
      OBVIOUS
    <3> QED
      BY <2>1, <2>2, <3>1, OnlyCommitsMove
  <2>4. PICK failed \in SUBSET Paths : files' = NewFiles(self, failed)
    BY <2>3 DEF PublishRevision, Upserts
  <2>5. SyncInv /\ Observed(work[self], era)
    BY <2>3 DEF RevisionInv, StepInv, BaselineHolds
  <2>6. files'[p] \in Row \cup {None}
    BY DEF RevisionInv, SyncInv, TypeOK
  <2> QED
    BY <2>3, <2>4, <2>5, <2>6, CommittedRows
<1> QED
  BY <1>1, RevisionInvHolds, PTL DEF Spec, RevisionsMoveForward

\* revalidate_unchanged_since_sample: each text a commit writes was still, or
\* again, in its file after the last file of the attempt had been sampled.
THEOREM CommitsHeld == Spec => CommitsWhatHeld
<1>1. RevisionInv /\ [Next]_vars =>
        \A q \in Procs : pc[q] = "prepare" /\ pc'[q] = "read" =>
          \A p \in Upserts(work[q]) :
            work[q].rec[p] = None => work[q].sample[p] \in late[q][p]
  <2> SUFFICES ASSUME RevisionInv, [Next]_vars, NEW q \in Procs,
                      pc[q] = "prepare", pc'[q] = "read"
               PROVE  \A p \in Upserts(work[q]) : work[q].sample[p] \in late[q][p]
    OBVIOUS
  <2>1. Next
    OBVIOUS
  <2>2. PublishRevision(q)
    BY <2>1, OnlyCommitsMove
  <2> QED
    BY <2>2 DEF PublishRevision, Revalidated, RevisionInv, StepInv
<1> QED
  BY <1>1, RevisionInvHolds, PTL DEF Spec, CommitsWhatHeld

\* publish_with_limits retries only an attempt during which the tree or the
\* current revision changed: no file makes it retry by itself.
THEOREM RetriesAreCaused == Spec => RetriesHaveACause
<1>1. RevisionInv /\ [Next]_vars =>
        \A q \in Procs : attempt'[q] > attempt[q] => ~calm[q]
  <2> SUFFICES ASSUME RevisionInv, [Next]_vars, NEW q \in Procs, calm[q]
               PROVE  ~(attempt'[q] > attempt[q])
    OBVIOUS
  <2>0. TypeOK /\ attempt[q] \in Nat
    BY BoundAssumption DEF RevisionInv, SyncInv, TypeOK
  <2>1. ASSUME NEW self \in Procs, EndCall(self) PROVE attempt'[q] \in {0, attempt[q]}
    BY <2>0, <2>1 DEF EndCall, TypeOK
  <2>2. CASE UNCHANGED attempt
    BY <2>0, <2>2
  <2>3. ASSUME NEW self \in Procs, Step(self) PROVE attempt'[q] \in {0, attempt[q]}
    <3>1. CASE self = q
      BY <2>1, <2>3, <3>1, CalmSteps
    <3>2. CASE self # q
      <4>1. ASSUME RetryOrFail(self) PROVE attempt'[q] = attempt[q]
        BY <2>0, <3>2, <4>1 DEF RetryOrFail, EndCall, TypeOK
      <4>2. ASSUME EndCall(self) PROVE attempt'[q] = attempt[q]
        BY <2>0, <3>2, <4>2 DEF EndCall, TypeOK
      <4>3. CASE \/ ReadBaseline(self) \/ VerifyStored(self) \/ ReplaceUnrepresentable(self)
                 \/ EndWalk(self) \/ DiffAgainstStored(self) \/ AddLoadFailedRetries(self)
                 \/ UnchangedReport(self) \/ CheckSamples(self) \/ PublishRevision(self)
        BY <4>1, <4>3 DEF ReadBaseline, VerifyStored, ReplaceUnrepresentable, EndWalk,
             DiffAgainstStored, AddLoadFailedRetries, UnchangedReport, CheckSamples,
             PublishRevision, Gather
      <4>4. CASE VerifiedRead(self) \/ StaleRevision(self)
        BY <4>2, <4>4 DEF VerifiedRead, StaleRevision
      <4>5. ASSUME NEW p \in Paths, ListEntry(self, p) \/ SniffEntry(self, p) \/ StatSkipped(self, p)
            PROVE  attempt'[q] = attempt[q]
        BY <4>1, <4>5 DEF ListEntry, SniffEntry, StatSkipped, Gather
      <4>6. ASSUME NEW p \in Paths, HashFile(self, p) PROVE attempt'[q] = attempt[q]
        BY <4>1, <4>2, <4>6, HashOutcomes DEF Gather
      <4>7. ASSUME NEW p \in Paths, SampleFile(self, p) PROVE attempt'[q] = attempt[q]
        BY <4>1, <4>2, <4>7, SampleOutcomes DEF Gather
      <4>8. ASSUME NEW p \in Paths, Revalidate(self, p) PROVE attempt'[q] = attempt[q]
        BY <4>1, <4>2, <4>8 DEF Revalidate, Gather
      <4> QED
        BY <2>3, <4>3, <4>4, <4>5, <4>6, <4>7, <4>8 DEF Step
    <3> QED
      BY <3>1, <3>2
  <2>4. CASE Environment
    BY <2>0, <2>4 DEF Environment, Edit, Tamper
  <2>5. ASSUME NEW self \in Procs, BeginCall(self) \/ Abort(self)
        PROVE  attempt'[q] \in {0, attempt[q]}
    BY <2>1, <2>5 DEF BeginCall, Abort
  <2> QED
    BY <2>0, <2>2, <2>3, <2>4, <2>5 DEF Next
<1> QED
  BY <1>1, RevisionInvHolds, PTL DEF Spec, RetriesHaveACause

-----------------------------------------------------------------------------
(* The sync implements ProjectIndex: each step is a step of the promise, or *)
(* leaves what it speaks of alone.                                          *)

Phase(q) == IF Answers(q) THEN "offered" ELSE IF pc[q] = "idle" THEN "closed" ELSE "open"
Entry(p) == IF files[p] = None THEN None ELSE files[p].ident

\* Processes that did not move keep their phase while the revision stands.
LEMMA SamePhase ==
  ASSUME NEW q \in Procs, pc'[q] = pc[q], synced'[q] = synced[q], head' = head
  PROVE  Phase(q)' = Phase(q)
  BY DEF Phase, Answers

\* A step inside an attempt is no step of the promise.
LEMMA AttemptStutters ==
  ASSUME NEW self \in Procs, UNCHANGED <<disk, files, head, seen>>,
         \A q \in Procs \ {self} : pc'[q] = pc[q] /\ synced'[q] = synced[q],
         pc[self] \notin {"idle", "read"}, pc'[self] \notin {"idle", "read"}
  PROVE  UNCHANGED Promise!vars
<1>1. \A q \in Procs : Phase(q)' = Phase(q)
  BY SamePhase DEF Phase, Answers
<1> QED
  BY <1>1 DEF Promise!vars, Phase

\* The end of a call closes it in the promise.
LEMMA EndCloses ==
  ASSUME TypeOK, NEW self \in Procs, pc[self] # "idle", EndCall(self)
  PROVE  Promise!Close(self)
<1>1. /\ UNCHANGED <<disk, files, head>> /\ pc'[self] = "idle"
      /\ seen' = [seen EXCEPT ![self] = [p \in Paths |-> {}]]
      /\ \A q \in Procs \ {self} : pc'[q] = pc[q] /\ synced'[q] = synced[q]
  BY DEF EndCall, Forget, TypeOK
<1>2. Phase(self) # "closed" /\ Phase(self)' = "closed"
  BY <1>1 DEF Phase, Answers
<1>3. \A q \in Procs \ {self} : Phase(q)' = Phase(q)
  BY <1>1, SamePhase
<1>4. \A q \in Procs : [p \in Representable |-> seen'[q][p]]
                       = IF q = self THEN [p \in Representable |-> {}]
                         ELSE [p \in Representable |-> seen[q][p]]
  BY <1>1 DEF TypeOK, Representable
<1> QED
  BY <1>1, <1>2, <1>3, <1>4 DEF Promise!Close, Phase

LEMMA RetryClosesOrStutters ==
  ASSUME TypeOK, NEW self \in Procs, pc[self] \notin {"idle", "read"}, RetryOrFail(self)
  PROVE  Promise!Close(self) \/ UNCHANGED Promise!vars
<1>1. CASE ~MayRetry(self)
  BY <1>1, EndCloses DEF RetryOrFail
<1>2. CASE MayRetry(self)
  <2>1. /\ UNCHANGED <<disk, files, head, seen>> /\ pc'[self] = "baseline"
        /\ \A q \in Procs \ {self} : pc'[q] = pc[q] /\ synced'[q] = synced[q]
    BY <1>2 DEF RetryOrFail, Forget, TypeOK
  <2> QED
    BY <2>1, AttemptStutters
<1> QED
  BY <1>1, <1>2

LEMMA GatherStutters ==
  ASSUME TypeOK, NEW self \in Procs, pc[self] \notin {"idle", "read"},
         NEW s, s \notin {"idle", "read"}, NEW w, Gather(self, s, w)
  PROVE  UNCHANGED Promise!vars
<1>1. /\ UNCHANGED <<disk, files, head, seen, synced>> /\ pc'[self] = s
      /\ \A q \in Procs \ {self} : pc'[q] = pc[q]
  BY DEF Gather, TypeOK
<1> QED
  BY <1>1, AttemptStutters

LEMMA EditIsEdit ==
  ASSUME TypeOK, NEW p \in Paths, NEW c \in Contents \cup {Absent}, Edit(p, c)
  PROVE  (\E x \in Representable : Promise!Edit(x, c)) \/ UNCHANGED Promise!vars
<1>1. /\ UNCHANGED <<files, head, pc, synced>>
      /\ disk' = [disk EXCEPT ![p] = c]
      /\ seen' = [q \in Procs |-> IF pc[q] = "idle" THEN seen[q]
                                  ELSE [seen[q] EXCEPT ![p] = @ \cup {c}]]
  BY DEF Edit
<1>2. \A q \in Procs : Phase(q)' = Phase(q) /\ (Phase(q) = "closed" <=> pc[q] = "idle")
  BY <1>1, SamePhase DEF Phase, Answers
<1>3. CASE p \in Representable
  <2>1. [x \in Representable |-> disk'[x]] = [[x \in Representable |-> disk[x]] EXCEPT ![p] = c]
    BY <1>1, <1>3 DEF TypeOK, Representable
  <2>2. ASSUME NEW q \in Procs
        PROVE  [x \in Representable |-> seen'[q][x]] =
                 IF Phase(q) = "closed" THEN [x \in Representable |-> seen[q][x]]
                 ELSE [[x \in Representable |-> seen[q][x]] EXCEPT ![p] = @ \cup {c}]
    BY <1>1, <1>2, <1>3 DEF TypeOK, Representable
  <2>3. Promise!Edit(p, c)
    BY <1>1, <1>2, <2>1, <2>2 DEF Promise!Edit, Phase
  <2> QED
    BY <1>3, <2>3
<1>4. CASE p \notin Representable
  <2>1. \A x \in Representable : disk'[x] = disk[x] /\ \A q \in Procs : seen'[q][x] = seen[q][x]
    BY <1>1, <1>4 DEF TypeOK, Representable
  <2> QED
    BY <1>1, <1>2, <2>1 DEF Promise!vars, Phase
<1> QED
  BY <1>3, <1>4

LEMMA TamperStutters ==
  ASSUME TypeOK, TypeOK', NEW p \in Paths, NEW c \in Contents, Tamper(p, c)
  PROVE  UNCHANGED Promise!vars
<1>1. /\ UNCHANGED <<disk, head, pc, synced, seen>>
      /\ files[p] \in Row /\ files[p] # None /\ files[p].content # None
      /\ files' = [files EXCEPT ![p].content = c]
  BY DEF Tamper, TypeOK
<1>2. files[p] \in [kind: {"indexed", "binary"}, reason: {None},
                    content: Contents \cup {None}, ident: Idents, by: Versions,
                    parser: {"Loaded", "LoadFailed"}]
  BY <1>1 DEF Row
<1>3. files'[p] \in Row /\ files'[p].ident = files[p].ident
  BY <1>1, <1>2 DEF TypeOK, Row
<1>4. \A x \in Paths : Entry(x)' = Entry(x)
  BY <1>1, <1>3, NoneAssumption DEF Entry, TypeOK
<1>5. \A q \in Procs : Phase(q)' = Phase(q)
  BY <1>1, SamePhase
<1> QED
  BY <1>1, <1>4, <1>5 DEF Promise!vars, Phase, Entry, Representable

\* What Publish calls justified is what the promise asks of an entry.
LEMMA SameJustified ==
  ASSUME TypeOK, TypeOK', NEW q \in Procs, seen' = seen,
         \A p \in Paths \ Unrep : Justified(files'[p], seen[q][p])
  PROVE  \A p \in Representable :
           \/ Entry(p)' = None /\ Absent \in seen[q][p]
           \/ \E c \in seen[q][p] \ {Absent} : Entry(p)' \in [d \in Contents |-> {HashId(d), StatId(d)}][c]
<1> SUFFICES ASSUME NEW p \in Representable
             PROVE  \/ Entry(p)' = None /\ Absent \in seen[q][p]
                    \/ \E c \in seen[q][p] \ {Absent} :
                         Entry(p)' \in [d \in Contents |-> {HashId(d), StatId(d)}][c]
  OBVIOUS
<1>1. Justified(files'[p], seen[q][p]) /\ seen[q][p] \subseteq Contents \cup {Absent}
  BY DEF TypeOK, Representable
<1>2. CASE files'[p] = None
  BY <1>1, <1>2 DEF Justified, Entry
<1>3. CASE files'[p] # None
  <2>1. PICK c \in seen[q][p] \ {Absent} : files'[p].ident \in {HashId(c), StatId(c)}
    BY <1>1, <1>3 DEF Justified
  <2>2. [d \in Contents |-> {HashId(d), StatId(d)}][c] = {HashId(c), StatId(c)}
    BY <1>1
  <2>3. Entry(p)' = files'[p].ident
    BY <1>3 DEF Entry
  <2> QED
    BY <2>1, <2>2, <2>3
<1> QED
  BY <1>2, <1>3

LEMMA UnchangedOffers ==
  ASSUME RevisionInv, RevisionInv', NEW self \in Procs, UnchangedReport(self)
  PROVE  Promise!Close(self) \/ Promise!Offer(self) \/ UNCHANGED Promise!vars
<1>0. TypeOK /\ TypeOK' /\ pc[self] = "recheck"
  BY DEF RevisionInv, SyncInv, UnchangedReport
<1>1. CASE head.rev # base[self].rev
  BY <1>0, <1>1, RetryClosesOrStutters DEF UnchangedReport
<1>2. CASE head.rev = base[self].rev
  <2>1. /\ UNCHANGED <<disk, files, head, seen>>
        /\ pc'[self] = "read" /\ synced'[self] = head.rev
        /\ \A q \in Procs \ {self} : pc'[q] = pc[q] /\ synced'[q] = synced[q]
    BY <1>0, <1>2 DEF UnchangedReport, Synced, TypeOK
  <2>2. Phase(self) = "open" /\ Phase(self)' = "offered" /\ Answers(self)'
    BY <1>0, <2>1 DEF Phase, Answers
  <2>3. \A q \in Procs \ {self} : Phase(q)' = Phase(q)
    BY <2>1, SamePhase
  <2>4. \A p \in Paths \ Unrep : Justified(files'[p], seen[self][p])
    BY <2>1, <2>2 DEF RevisionInv, SyncInv, CallInv
  <2>5. \A p \in Representable :
           \/ Entry(p) = None /\ Absent \in seen[self][p]
           \/ \E c \in seen[self][p] \ {Absent} : Entry(p) \in [d \in Contents |-> {HashId(d), StatId(d)}][c]
    BY <1>0, <2>1, <2>4, SameJustified DEF Entry
  <2>6. Promise!Offer(self)
    BY <2>1, <2>2, <2>3, <2>5
       DEF Promise!Offer, Promise!JustifiedFor, Promise!Justified, Phase, Entry
  <2> QED
    BY <2>6
<1> QED
  BY <1>1, <1>2

LEMMA CommitReplaces ==
  ASSUME RevisionInv, RevisionInv', NEW self \in Procs, PublishRevision(self)
  PROVE  Promise!Close(self) \/ Promise!Replace(self) \/ UNCHANGED Promise!vars
<1>0. TypeOK /\ TypeOK' /\ pc[self] = "prepare"
  BY DEF RevisionInv, SyncInv, PublishRevision
<1>1. CASE ~BaselineHolds(self)
  BY <1>0, <1>1, RetryClosesOrStutters DEF PublishRevision
<1>2. CASE BaselineHolds(self)
  <2>1. /\ UNCHANGED <<disk, seen>> /\ head'.rev = head.rev + 1
        /\ pc'[self] = "read" /\ synced'[self] = head.rev + 1
        /\ \A q \in Procs \ {self} : pc'[q] = pc[q] /\ synced'[q] = synced[q]
    BY <1>0, <1>2 DEF PublishRevision, Synced, TypeOK
  <2>2. Phase(self) = "open" /\ Phase(self)' = "offered" /\ Answers(self)'
    BY <1>0, <2>1 DEF Phase, Answers
  <2>3. ASSUME NEW q \in Procs \ {self}
        PROVE  Phase(q)' = IF Phase(q) = "offered" THEN "open" ELSE Phase(q)
    <3>1. head.rev \in Nat /\ synced[q] \in Nat /\ synced[q] <= head.rev
      BY DEF RevisionInv, SyncInv, CallInv, TypeOK, Revisions
    <3>2. ~Answers(q)'
      BY <2>1, <3>1 DEF Answers
    <3> QED
      BY <2>1, <3>2 DEF Phase, Answers
  <2>4. \A p \in Paths \ Unrep : Justified(files'[p], seen[self][p])
    BY <2>1, <2>2 DEF RevisionInv, SyncInv, CallInv
  <2>5. \A p \in Representable :
           \/ Entry(p)' = None /\ Absent \in seen[self][p]
           \/ \E c \in seen[self][p] \ {Absent} : Entry(p)' \in [d \in Contents |-> {HashId(d), StatId(d)}][c]
    BY <1>0, <2>1, <2>4, SameJustified
  <2>6. Promise!Replace(self)
    BY <2>1, <2>2, <2>3, <2>5
       DEF Promise!Replace, Promise!JustifiedFor, Promise!Justified, Phase, Entry
  <2> QED
    BY <2>6
<1> QED
  BY <1>1, <1>2

LEMMA BeginOpens ==
  ASSUME TypeOK, NEW self \in Procs, BeginCall(self)
  PROVE  Promise!Open(self)
<1>1. /\ UNCHANGED <<disk, files, head, synced>> /\ pc[self] = "idle" /\ pc'[self] = "baseline"
      /\ seen' = [seen EXCEPT ![self] = [p \in Paths |-> {disk[p]}]]
      /\ \A q \in Procs \ {self} : pc'[q] = pc[q]
  BY DEF BeginCall, TypeOK
<1>2. Phase(self) = "closed" /\ Phase(self)' = "open"
  BY <1>1 DEF Phase, Answers
<1>3. \A q \in Procs \ {self} : Phase(q)' = Phase(q)
  BY <1>1, SamePhase
<1>4. \A q \in Procs : [p \in Representable |-> seen'[q][p]]
                       = IF q = self THEN [p \in Representable |-> {[x \in Representable |-> disk[x]][p]}]
                         ELSE [p \in Representable |-> seen[q][p]]
  BY <1>1 DEF TypeOK, Representable
<1> QED
  BY <1>1, <1>2, <1>3, <1>4 DEF Promise!Open, Phase

LEMMA PromiseInit == Init => Promise!Init
<1> SUFFICES ASSUME Init PROVE Promise!Init
  OBVIOUS
<1>1. \A q \in Procs : Phase(q) = "closed"
  BY DEF Init, Phase, Answers
<1>2. [p \in Representable |-> disk[p]] \in [Representable -> Contents \cup {Absent}]
  BY DEF Init, Representable
<1>3. \A q \in Procs : [p \in Representable |-> seen[q][p]] = [p \in Representable |-> {}]
  BY DEF Init, Representable
<1> QED
  BY <1>1, <1>2, <1>3 DEF Promise!Init, Phase

LEMMA PromiseNext ==
  RevisionInv /\ RevisionInv' /\ [Next]_vars => [Promise!Next]_(Promise!vars)
<1> SUFFICES ASSUME RevisionInv, RevisionInv', [Next]_vars
             PROVE  Promise!Next \/ UNCHANGED Promise!vars
  OBVIOUS
<1>0. TypeOK /\ TypeOK'
  BY DEF RevisionInv, SyncInv
<1>1. CASE Environment
  BY <1>0, <1>1, EditIsEdit, TamperStutters DEF Environment, Promise!Next
<1>2. ASSUME NEW self \in Procs, BeginCall(self) \/ Abort(self)
      PROVE  Promise!Next
  BY <1>0, <1>2, BeginOpens, EndCloses DEF Abort, Promise!Next
<1>3. ASSUME NEW self \in Procs, Step(self)
      PROVE  \/ Promise!Close(self) \/ Promise!Offer(self) \/ Promise!Replace(self)
             \/ UNCHANGED Promise!vars
  <2>1. CASE ReadBaseline(self) \/ VerifyStored(self) \/ ReplaceUnrepresentable(self)
    <3>1. /\ UNCHANGED <<disk, files, head, seen, synced>>
          /\ \A q \in Procs \ {self} : pc'[q] = pc[q]
          /\ pc[self] \notin {"idle", "read"} /\ pc'[self] \notin {"idle", "read"}
      BY <1>0, <2>1 DEF ReadBaseline, VerifyStored, ReplaceUnrepresentable, TypeOK
    <3> QED
      BY <3>1, AttemptStutters
  <2>2. CASE EndWalk(self) \/ DiffAgainstStored(self) \/ AddLoadFailedRetries(self)
    BY <1>0, <2>2, GatherStutters DEF EndWalk, DiffAgainstStored, AddLoadFailedRetries
  <2>3. CASE UnchangedReport(self)
    BY <2>3, UnchangedOffers
  <2>4. CASE CheckSamples(self)
    <3>1. CASE ~SamplesMatch(work[self])
      BY <1>0, <2>4, <3>1, RetryClosesOrStutters DEF CheckSamples
    <3>2. CASE SamplesMatch(work[self])
      <4>1. /\ UNCHANGED <<disk, files, head, seen, synced>>
            /\ \A q \in Procs \ {self} : pc'[q] = pc[q]
            /\ pc[self] \notin {"idle", "read"} /\ pc'[self] \notin {"idle", "read"}
        BY <1>0, <2>4, <3>2 DEF CheckSamples, TypeOK
      <4> QED
        BY <4>1, AttemptStutters
    <3> QED
      BY <3>1, <3>2
  <2>5. CASE PublishRevision(self)
    BY <2>5, CommitReplaces
  <2>6. CASE VerifiedRead(self) \/ StaleRevision(self)
    BY <1>0, <2>6, EndCloses DEF VerifiedRead, StaleRevision, Answers
  <2>7. ASSUME NEW p \in Paths, ListEntry(self, p) \/ SniffEntry(self, p)
        PROVE  Promise!Close(self) \/ UNCHANGED Promise!vars
    BY <1>0, <2>7, RetryClosesOrStutters, GatherStutters DEF ListEntry, SniffEntry
  <2>8. ASSUME NEW p \in Paths, StatSkipped(self, p)
        PROVE  Promise!Close(self) \/ UNCHANGED Promise!vars
    BY <1>0, <2>8, RetryClosesOrStutters, GatherStutters DEF StatSkipped
  <2>9. ASSUME NEW p \in Paths, HashFile(self, p) \/ SampleFile(self, p)
        PROVE  Promise!Close(self) \/ UNCHANGED Promise!vars
    <3>1. pc[self] \notin {"idle", "read"}
      BY <2>9 DEF HashFile, SampleFile
    <3> QED
      BY <1>0, <2>9, <3>1, HashOutcomes, SampleOutcomes, RetryClosesOrStutters,
         GatherStutters, EndCloses
  <2>10. ASSUME NEW p \in Paths, Revalidate(self, p)
         PROVE  Promise!Close(self) \/ UNCHANGED Promise!vars
    <3>1. /\ pc[self] \notin {"idle", "read"}
          /\ \/ RetryOrFail(self) \/ EndCall(self)
             \/ \E w : Gather(self, "prepare", w)
      BY <2>10 DEF Revalidate
    <3> QED
      BY <1>0, <3>1, RetryClosesOrStutters, GatherStutters, EndCloses
  <2> QED
    BY <1>3, <2>1, <2>2, <2>3, <2>4, <2>5, <2>6, <2>7, <2>8, <2>9, <2>10 DEF Step
<1>4. CASE UNCHANGED vars
  <2>1. \A q \in Procs : Phase(q)' = Phase(q)
    BY <1>4, SamePhase
  <2> QED
    BY <1>4, <2>1 DEF Promise!vars, Phase
<1> QED
  BY <1>1, <1>2, <1>3, <1>4 DEF Next, Promise!Next

\* Passes, diffs, revisions and retries implement the promise of ProjectIndex: an
\* index is offered only to a call that the disk justified it for, and withdrawn
\* from every other call when one call replaces it.
THEOREM PromiseKept == Spec => KeepsPromise
  BY PromiseInit, PromiseNext, RevisionInvHolds, PTL DEF Spec, KeepsPromise, Promise!Spec
=============================================================================
