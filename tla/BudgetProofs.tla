---------------------------- MODULE BudgetProofs ----------------------------
(***************************************************************************)
(* What is kept within a byte budget, for any number of results, readers,  *)
(* files, workers, callers and entries: what the result store admits and   *)
(* reclaims, what the worker pool of a sync claims of the import ceiling,  *)
(* and what the cache of the mechanics' scans holds.  Each is a sum, over  *)
(* the registered results, the sampled files or the cached scans; the laws *)
(* of sums and of folds are those of FoldProofs.                           *)
(***************************************************************************)
EXTENDS ResultStore, FilePool, Mechanics, FoldProofs, SequenceTheorems

-----------------------------------------------------------------------------
(* The result store.                                                        *)

\* Every set of results is finite, and a file has its bytes.
LEMMA ResultFacts ==
  ASSUME StoreShape, NEW S \in SUBSET Results
  PROVE  /\ IsFiniteSet(S) /\ Cardinality(S) \in Nat /\ Cardinality(S) <= Cardinality(Results)
         /\ \A r \in S : FileBytes[r] \in Nat
         /\ SumFunctionOnSet(FileBytes, S) \in Nat
<1>1. IsFiniteSet(Results)
  BY StoreAssumption DEF StoreAssumption
<1>2. IsFiniteSet(S) /\ Cardinality(S) <= Cardinality(Results)
  BY <1>1, FS_Subset
<1>3. Cardinality(S) \in Nat
  BY <1>2, FS_CardinalityType
<1>4. \A r \in S : FileBytes[r] \in Nat
  BY DEF StoreShape, Writers, FileBytes
<1>5. SumFunctionOnSet(FileBytes, S) \in Nat
  BY <1>2, <1>4, SumIsNat
<1> QED
  BY <1>2, <1>3, <1>4, <1>5

LEMMA BoundFacts ==
  /\ MaxRows \in Nat /\ MaxClock \in Nat /\ Budget \in Nat /\ Grace \in Nat
  /\ RowSizes \subseteq Nat /\ NoResult \notin Results
BY StoreAssumption DEF StoreAssumption

LEMMA StoreInitInv == StoreInit => StoreInv
<1> SUFFICES ASSUME StoreInit PROVE StoreInv
  OBVIOUS
<1> USE BoundFacts
<1>1. Fresh \in Writers /\ Resting \in Calls /\ Fresh.pc = "none" /\ Resting.pc = "idle"
      /\ Fresh.rows = 0 /\ Fresh.failed = FALSE
  BY DEF Fresh, Resting, Writers, Calls
<1>2. StoreShape
  <2>1. writer \in [Results -> Writers] /\ reader \in [Readers -> Calls]
    BY <1>1 DEF StoreInit
  <2>2. plan \in [of : Results \cup {NoResult}, victims : SUBSET registered]
    BY DEF StoreInit, NoPlan
  <2> QED
    BY <2>1, <2>2 DEF StoreInit, StoreShape
<1>3. WritersWhole
  <2>1. Fresh.rows <= 0
    BY <1>1
  <2>2. Whole(Fresh, 0, 0)
    BY <1>1, <2>1, Zenon DEF Whole
  <2> QED
    BY <2>2 DEF StoreInit, WritersWhole
<1>4. EntriesHeld
  <2>1. Entries = {}
    BY <1>1 DEF StoreInit, Entries
  <2>2. Cardinality(Entries) = 0
    BY <2>1, FS_EmptySet
  <2>3. SumFunctionOnSet(FileBytes, registered) = 0
    BY SumOfNothing DEF StoreInit
  <2> QED
    BY <2>2, <2>3 DEF StoreInit, EntriesHeld
<1>5. PlanFits
  BY DEF StoreInit, PlanFits, NoPlan
<1>6. CursorsHold
  BY <1>1 DEF StoreInit, CursorsHold
<1> QED
  BY <1>2, <1>3, <1>4, <1>5, <1>6 DEF StoreInv

-----------------------------------------------------------------------------
(* A writer moves on, and it is neither an entry nor held by an admission.   *)

WriterMoves(r, w) ==
  /\ writer' = [writer EXCEPT ![r] = w]
  /\ writer[r].pc # "entry" /\ w.pc # "entry" /\ plan.of # r
  /\ UNCHANGED <<seq, delivered, registered, admitted, nextSeq, plan, reader, issued>>

LEMMA WriterMovesInv ==
  ASSUME StoreInv, NEW r \in Results, NEW w \in Writers, WriterMoves(r, w)
  PROVE  /\ writer' \in [Results -> Writers]
         /\ writer'[r] = w /\ \A s \in Results \ {r} : writer'[s] = writer[s]
         /\ EntriesHeld' /\ PlanFits' /\ CursorsHold'
<1>1. /\ writer' \in [Results -> Writers]
      /\ writer'[r] = w /\ \A s \in Results \ {r} : writer'[s] = writer[s]
  BY DEF StoreInv, StoreShape, WriterMoves
<1>2. Entries' = Entries
  BY <1>1 DEF WriterMoves, Entries
<1>3. ASSUME NEW S \in SUBSET registered
      PROVE  SumFunctionOnSet(FileBytes', S) = SumFunctionOnSet(FileBytes, S)
  <2>1. S \in SUBSET Results /\ r \notin S
    BY DEF StoreInv, EntriesHeld, Entries, WriterMoves
  <2>2. IsFiniteSet(S) /\ \A s \in S : FileBytes[s] \in Nat
    BY <2>1, ResultFacts DEF StoreInv
  <2>3. \A s \in S : FileBytes[s] = FileBytes'[s]
    BY <2>1, <1>1 DEF FileBytes
  <2> QED
    BY <2>2, <2>3, SumSame
<1>4. EntriesHeld'
  <2>1. registered' = registered /\ admitted' = admitted /\ nextSeq' = nextSeq
    BY DEF WriterMoves
  <2>2. SumFunctionOnSet(FileBytes', registered) = SumFunctionOnSet(FileBytes, registered)
    BY <1>3
  <2> QED
    BY <2>1, <2>2, <1>2 DEF StoreInv, EntriesHeld
<1>5. PlanFits'
  <2>1. registered' = registered /\ plan' = plan
    BY DEF WriterMoves
  <2>2. SumFunctionOnSet(FileBytes', registered \ plan.victims)
          = SumFunctionOnSet(FileBytes, registered \ plan.victims)
    BY <1>3
  <2>3. plan.of # NoResult => plan.of \in Results \ {r}
    BY DEF StoreInv, StoreShape, WriterMoves
  <2>4. plan.of # NoResult => writer'[plan.of] = writer[plan.of]
    BY <2>3, <1>1
  <2> QED
    BY <2>1, <2>2, <2>4 DEF StoreInv, PlanFits, NoPlan
<1>6. CursorsHold'
  <2>1. reader' = reader /\ issued' = issued /\ r \notin Entries
    BY DEF WriterMoves, Entries
  <2>2. issued[r] = {}
    BY <2>1 DEF StoreInv, CursorsHold
  <2>3. \A s \in Results : \A ord \in issued[s] : ord < writer'[s].rows \/ ord = 0
    BY <2>2, <1>1 DEF StoreInv, CursorsHold
  <2>4. ASSUME NEW d \in Readers, reader[d].pc = "serve", reader[d].next # -1
        PROVE  reader[d].next \in 0 .. writer'[reader[d].id].rows - 1
    <3>1. reader[d].id \in Entries /\ reader[d].next \in 0 .. writer[reader[d].id].rows - 1
      BY <2>4 DEF StoreInv, CursorsHold
    <3>2. reader[d].id \in Results \ {r}
      BY <3>1, <2>1 DEF Entries
    <3> QED
      BY <3>1, <3>2, <1>1
  <2> QED
    BY <2>1, <2>3, <2>4, <1>2 DEF StoreInv, CursorsHold
<1> QED
  BY <1>1, <1>4, <1>5, <1>6

\* What is left to show of a writer's step: its own record.
LEMMA WriterMovesWhole ==
  ASSUME StoreInv, NEW r \in Results, NEW w \in Writers, WriterMoves(r, w),
         UNCHANGED clock, offered' \in [Results -> 0..MaxRows],
         \A s \in Results \ {r} : offered'[s] = offered[s],
         Whole(w, offered'[r], clock), access' \in [Results -> 0..MaxClock]
  PROVE  StoreInv'
<1>1. /\ writer' \in [Results -> Writers]
      /\ writer'[r] = w /\ \A s \in Results \ {r} : writer'[s] = writer[s]
      /\ EntriesHeld' /\ PlanFits' /\ CursorsHold'
  BY WriterMovesInv
<1>2. StoreShape'
  BY <1>1 DEF StoreInv, StoreShape, WriterMoves
<1>3. \A s \in Results : Whole(writer'[s], offered'[s], clock)
  BY <1>1 DEF StoreInv, WritersWhole
<1>4. WritersWhole'
  BY <1>3 DEF WritersWhole
<1> QED
  BY <1>1, <1>2, <1>4 DEF StoreInv

LEMMA BeginInv ==
  ASSUME StoreInv, NEW r \in Results, Begin(r) PROVE StoreInv'
<1> DEFINE w == [writer[r] EXCEPT !.pc = "open"]
<1>1. /\ w \in Writers /\ w.pc = "open" /\ w.rows = writer[r].rows /\ w.failed = writer[r].failed
      /\ writer[r].pc = "none"
  BY DEF StoreInv, StoreShape, Writers, Begin
<1>2. writer' = [writer EXCEPT ![r] = w]
  BY DEF Begin
<1> HIDE DEF w
<1>3. WriterMoves(r, w)
  BY <1>1, <1>2, BoundFacts DEF Begin, WriterMoves, StoreInv, PlanFits
<1>4. Whole(writer[r], offered[r], clock)
  BY DEF StoreInv, WritersWhole
<1>6. writer[r].rows = offered[r] /\ offered[r] <= offered[r]
  <2>1. offered[r] = 0 /\ writer[r].rows <= offered[r]
    BY <1>1, <1>4, Zenon DEF Whole
  <2>2. writer[r].rows \in 0..MaxRows
    BY DEF StoreInv, StoreShape, Writers
  <2> QED
    BY <2>1, <2>2, BoundFacts
<1>5. Whole(w, offered[r], clock)
  BY <1>1, <1>4, <1>6, Zenon DEF Whole
<1> QED
  BY <1>1, <1>3, <1>5, WriterMovesWhole DEF Begin, StoreInv, StoreShape

LEMMA PushInv ==
  ASSUME StoreInv, NEW r \in Results, NEW size \in RowSizes, Push(r, size) PROVE StoreInv'
<1> DEFINE w == writer'[r]
           more == Stored(writer[r], size)
           bad == [writer[r] EXCEPT !.failed = TRUE]
<1>0. /\ writer[r] \in Writers /\ Whole(writer[r], offered[r], clock) /\ size \in Nat
      /\ offered[r] \in 0..MaxRows /\ MaxRows \in Nat /\ writer[r].pc = "open"
      /\ offered[r] < MaxRows /\ offered' = [offered EXCEPT ![r] = @ + 1]
  BY BoundFacts DEF StoreInv, StoreShape, WritersWhole, Push
<1>1. offered[r] + 1 \in 0..MaxRows
  BY <1>0
<1>2. offered' \in [Results -> 0..MaxRows] /\ offered'[r] = offered[r] + 1
      /\ \A s \in Results \ {r} : offered'[s] = offered[s]
  BY <1>0, <1>1 DEF StoreInv, StoreShape
<1>3. ASSUME NEW v \in Writers, writer' = [writer EXCEPT ![r] = v], v.pc = "open",
             Whole(v, offered[r] + 1, clock)
      PROVE  StoreInv'
  <2>1. WriterMoves(r, v)
    BY <1>0, <1>3, BoundFacts DEF Push, WriterMoves, StoreInv, PlanFits
  <2> QED
    BY <2>1, <1>2, <1>3, WriterMovesWhole DEF Push, StoreInv, StoreShape
<1>4. CASE ~writer[r].failed /\ writer' = [writer EXCEPT ![r] = more]
  <2>1. more \in Writers /\ more.pc = "open" /\ more.rows = writer[r].rows + 1
    <3>0. writer[r].rows = offered[r]
      BY <1>0, <1>4, Zenon DEF Whole
    <3>1. writer[r].rows + 1 \in 0..MaxRows
      BY <1>1, <3>0
    <3>2. writer[r].newRows \in Nat /\ writer[r].newBytes \in Nat /\ writer[r].bytes \in Nat
      BY <1>0 DEF Writers
    <3>4. BatchEnds(writer[r], size) \in BOOLEAN
      BY DEF BatchEnds
    <3>5. /\ writer[r].bytes + size \in Nat
          /\ (IF BatchEnds(writer[r], size) THEN 0 ELSE writer[r].newRows + 1) \in Nat
          /\ (IF BatchEnds(writer[r], size) THEN 0 ELSE writer[r].newBytes + size) \in Nat
      BY <1>0, <3>2, <3>4
    <3>6. (BatchEnds(writer[r], size) /\ writer[r].bytes + size > Budget) \in BOOLEAN
      OBVIOUS
    <3> QED
      BY <3>1, <3>5, <3>6, <1>0 DEF Writers, Stored
  <2> HIDE DEF more
  <2>2. Whole(more, offered[r] + 1, clock)
    <3>1. writer[r].rows = offered[r]
      BY <1>0, <1>4, Zenon DEF Whole
    <3>2. more.rows = offered[r] + 1 /\ more.rows <= offered[r] + 1
      BY <2>1, <3>1, <1>1
    <3> QED
      BY <2>1, <3>2, Zenon DEF Whole
  <2> QED
    BY <2>1, <2>2, <1>3, <1>4
<1>5. CASE writer' = [writer EXCEPT ![r].failed = TRUE]
  <2>1. /\ bad \in Writers /\ bad.pc = "open" /\ bad.rows = writer[r].rows /\ bad.failed = TRUE
        /\ writer' = [writer EXCEPT ![r] = bad]
    BY <1>0, <1>5 DEF Writers
  <2> HIDE DEF bad
  <2>2. Whole(bad, offered[r] + 1, clock)
    <3>1. writer[r].rows <= offered[r]
      BY <1>0, Zenon DEF Whole
    <3>3. writer[r].rows \in 0..MaxRows
      BY <1>0 DEF Writers
    <3>2. bad.rows <= offered[r] + 1
      BY <2>1, <3>1, <3>3, <1>0
    <3> QED
      BY <2>1, <3>2, Zenon DEF Whole
  <2> QED
    BY <2>1, <2>2, <1>3
<1>6. \/ ~writer[r].failed /\ writer' = [writer EXCEPT ![r] = more]
      \/ writer' = [writer EXCEPT ![r].failed = TRUE]
  BY DEF Push
<1> QED
  BY <1>4, <1>5, <1>6

LEMMA FinishInv ==
  ASSUME StoreInv, NEW r \in Results, Finish(r) PROVE StoreInv'
<1> DEFINE w == [writer[r] EXCEPT !.pc = "committed"]
<1>1. /\ w \in Writers /\ w.pc = "committed" /\ w.rows = writer[r].rows /\ w.failed = writer[r].failed
      /\ writer[r].pc = "open" /\ ~writer[r].failed
  BY DEF StoreInv, StoreShape, Writers, Finish, Usable
<1>2. writer' = [writer EXCEPT ![r] = w]
  BY DEF Finish
<1> HIDE DEF w
<1>3. WriterMoves(r, w)
  BY <1>1, <1>2, BoundFacts DEF Finish, WriterMoves, StoreInv, PlanFits
<1>4. Whole(writer[r], offered[r], clock)
  BY DEF StoreInv, WritersWhole
<1>5. Whole(w, offered[r], clock)
  BY <1>1, <1>4, Zenon DEF Whole
<1>6. access' \in [Results -> 0..MaxClock]
  BY DEF Finish, StoreInv, StoreShape
<1> QED
  BY <1>1, <1>3, <1>5, <1>6, WriterMovesWhole DEF Finish, StoreInv, StoreShape

LEMMA ReadClockInv ==
  ASSUME StoreInv, NEW r \in Results, ReadClock(r) PROVE StoreInv'
<1> DEFINE w == [writer[r] EXCEPT !.pc = "admit", !.now = clock]
<1>0. clock \in 0..MaxClock /\ clock <= clock /\ writer[r] \in Writers /\ writer[r].pc = "committed"
  BY BoundFacts DEF StoreInv, StoreShape, ReadClock
<1>1. /\ w \in Writers /\ w.pc = "admit" /\ w.rows = writer[r].rows /\ w.failed = writer[r].failed
      /\ w.now = clock
  BY <1>0 DEF Writers
<1>2. writer' = [writer EXCEPT ![r] = w]
  BY DEF ReadClock
<1> HIDE DEF w
<1>3. WriterMoves(r, w)
  BY <1>0, <1>1, <1>2, BoundFacts DEF ReadClock, WriterMoves, StoreInv, PlanFits
<1>4. Whole(writer[r], offered[r], clock)
  BY DEF StoreInv, WritersWhole
<1>5. Whole(w, offered[r], clock)
  BY <1>0, <1>1, <1>4, Zenon DEF Whole
<1> QED
  BY <1>1, <1>3, <1>5, WriterMovesWhole DEF ReadClock, StoreInv, StoreShape

\* A writer that is dropped or refused leaves nothing.
LEMMA EndedFacts ==
  ASSUME NEW how \in {"gone", "full", "too_large"}
  PROVE  Ended(how) \in Writers /\ Ended(how).pc = how /\ Ended(how).rows = 0
<1>1. 0 \in 0..MaxRows /\ 0 \in 0..MaxClock /\ 0 \in Nat
  BY BoundFacts
<1>2. Fresh \in Writers /\ Fresh.rows = 0
  BY <1>1 DEF Fresh, Writers
<1> QED
  BY <1>2 DEF Ended, Writers

LEMMA EndedInv ==
  ASSUME StoreInv, NEW r \in Results, NEW w \in Writers,
         w.rows = 0, w.pc \in {"gone", "full", "too_large"},
         writer' = [writer EXCEPT ![r] = w],
         writer[r].pc # "entry", plan.of # r,
         UNCHANGED <<clock, access, delivered, seq, registered, admitted, nextSeq,
                     plan, reader, issued, offered>>
  PROVE  StoreInv'
<1>1. WriterMoves(r, w)
  BY DEF WriterMoves
<1>2. offered[r] \in 0..MaxRows
  BY DEF StoreInv, StoreShape
<1>3. w.rows <= offered[r]
  BY <1>2, BoundFacts
<1>4. Whole(w, offered[r], clock)
  BY <1>3, Zenon DEF Whole
<1> QED
  BY <1>1, <1>4, WriterMovesWhole DEF StoreInv, StoreShape

LEMMA AbortInv ==
  ASSUME StoreInv, NEW r \in Results, Abort(r) PROVE StoreInv'
<1>1. writer[r].pc # "entry" /\ plan.of # r
  BY BoundFacts DEF Abort, StoreInv, PlanFits
<1> QED
  BY <1>1, EndedFacts, EndedInv DEF Abort

-----------------------------------------------------------------------------
(* An admission.                                                            *)

\* Where a sum over the registered results is split.
LEMMA SplitFacts ==
  ASSUME StoreInv, NEW part \in SUBSET registered
  PROVE  /\ part \in SUBSET Results /\ registered \ part \in SUBSET Results
         /\ SumFunctionOnSet(FileBytes, part) \in Nat
         /\ SumFunctionOnSet(FileBytes, registered \ part) \in Nat
         /\ admitted = SumFunctionOnSet(FileBytes, part) + SumFunctionOnSet(FileBytes, registered \ part)
         /\ Used(part) = SumFunctionOnSet(FileBytes, registered \ part)
<1>1. part \in SUBSET Results /\ registered \ part \in SUBSET Results /\ registered \in SUBSET Results
  BY DEF StoreInv, StoreShape
<1>2. /\ SumFunctionOnSet(FileBytes, part) \in Nat
      /\ SumFunctionOnSet(FileBytes, registered \ part) \in Nat
      /\ IsFiniteSet(registered) /\ \A r \in registered : FileBytes[r] \in Nat
  BY <1>1, ResultFacts DEF StoreInv
<1>3. SumFunctionOnSet(FileBytes, registered)
        = SumFunctionOnSet(FileBytes, part) + SumFunctionOnSet(FileBytes, registered \ part)
  BY <1>2, SumSplit
<1>4. admitted = SumFunctionOnSet(FileBytes, registered)
  BY DEF StoreInv, EntriesHeld
<1> QED
  BY <1>1, <1>2, <1>3, <1>4 DEF Used

LEMMA PlanInv ==
  ASSUME StoreInv, NEW r \in Results, Plan(r) PROVE StoreInv'
<1> DEFINE victims == PlanReclaim(writer[r].bytes, writer[r].now)
           fits == Used(victims) + writer[r].bytes <= Budget
<1>1. writer[r].pc = "admit" /\ plan = NoPlan /\ plan.of # r
  BY BoundFacts DEF Plan, NoPlan
<1>2. CASE writer' = [writer EXCEPT ![r] = Ended("too_large")] /\ UNCHANGED plan
  BY <1>1, <1>2, EndedFacts, EndedInv DEF Plan
<1>3. CASE writer' = [writer EXCEPT ![r] = Ended("full")] /\ UNCHANGED plan
  BY <1>1, <1>3, EndedFacts, EndedInv DEF Plan
<1>4. CASE fits /\ plan' = [of |-> r, victims |-> victims] /\ UNCHANGED writer
  <2>1. victims \in SUBSET registered
    BY DEF PlanReclaim, Candidates
  <2>2. SumFunctionOnSet(FileBytes, registered \ victims) + writer[r].bytes <= Budget
    <3> HIDE DEF victims
    <3> QED
      BY <1>4, <2>1, SplitFacts
  <2>3. UNCHANGED <<clock, writer, access, delivered, seq, registered, admitted, nextSeq,
                    reader, issued, offered>>
    BY <1>4 DEF Plan
  <2> HIDE DEF victims
  <2>4. plan' \in [of : Results \cup {NoResult}, victims : SUBSET registered]
        /\ plan'.of = r /\ plan'.victims = victims
    BY <1>4, <2>1
  <2>5. StoreShape'
    BY <2>3, <2>4 DEF StoreInv, StoreShape
  <2>6. WritersWhole'
    BY <2>3 DEF StoreInv, WritersWhole
  <2>7. Entries' = Entries /\ FileBytes' = FileBytes
    BY <2>3 DEF Entries, FileBytes
  <2>8. EntriesHeld' /\ CursorsHold'
    BY <2>3, <2>7 DEF StoreInv, EntriesHeld, CursorsHold
  <2>9. PlanFits'
    BY <1>1, <2>2, <2>3, <2>4, <2>7, BoundFacts DEF PlanFits
  <2> QED
    BY <2>5, <2>6, <2>8, <2>9 DEF StoreInv
<1> QED
  BY <1>2, <1>3, <1>4 DEF Plan

\* The sum over the results that stay, and the one admitted.
LEMMA AdmitSums ==
  ASSUME StoreInv, NEW r \in Results, Admit(r)
  PROVE  /\ plan.victims \in SUBSET registered /\ writer[r].pc = "admit" /\ r \notin registered
         /\ writer' \in [Results -> Writers]
         /\ writer'[r].pc = "entry" /\ writer'[r].rows = writer[r].rows
         /\ (writer'[r].failed <=> writer[r].failed)
         /\ \A s \in Results \ {r} : writer'[s] = writer[s]
         /\ FileBytes' = FileBytes
         /\ admitted' = SumFunctionOnSet(FileBytes, registered') /\ admitted' \in Nat
         /\ admitted' <= Budget
<1> DEFINE stay == registered \ plan.victims
           w == [writer[r] EXCEPT !.pc = "entry"]
<1>1. plan.of = r /\ plan.of # NoResult /\ plan.victims \in SUBSET registered
  BY BoundFacts DEF Admit, StoreInv, StoreShape
<1>2. writer[r].pc = "admit" /\ SumFunctionOnSet(FileBytes, stay) + writer[r].bytes <= Budget
  BY <1>1 DEF StoreInv, PlanFits
<1>3. r \notin registered
  BY <1>2 DEF StoreInv, EntriesHeld, Entries
<1>4. /\ w \in Writers /\ w.pc = "entry" /\ w.rows = writer[r].rows /\ w.bytes = writer[r].bytes
      /\ (w.failed <=> writer[r].failed) /\ writer' = [writer EXCEPT ![r] = w]
  BY DEF StoreInv, StoreShape, Writers, Admit
<1> HIDE DEF w
<1>5. writer' \in [Results -> Writers] /\ writer'[r] = w /\ \A s \in Results \ {r} : writer'[s] = writer[s]
  BY <1>4 DEF StoreInv, StoreShape
<1>6. FileBytes' = FileBytes
  BY <1>4, <1>5 DEF FileBytes
<1>7. admitted' = SumFunctionOnSet(FileBytes, stay) + writer[r].bytes /\ registered' = stay \cup {r}
  BY <1>1, SplitFacts DEF Admit, Charge
<1>8. stay \in SUBSET Results /\ stay \cup {r} \in SUBSET Results /\ r \notin stay
  BY <1>3 DEF StoreInv, StoreShape
<1>9. /\ IsFiniteSet(stay) /\ \A s \in stay \cup {r} : FileBytes[s] \in Nat
      /\ SumFunctionOnSet(FileBytes, stay \cup {r}) \in Nat
  BY <1>8, ResultFacts DEF StoreInv
<1>10. SumFunctionOnSet(FileBytes, stay \cup {r}) = SumFunctionOnSet(FileBytes, stay) + FileBytes[r]
  BY <1>8, <1>9, SumWith
<1>11. FileBytes[r] = writer[r].bytes
  BY DEF FileBytes
<1> QED
  BY <1>1, <1>2, <1>3, <1>4, <1>5, <1>6, <1>7, <1>9, <1>10, <1>11

LEMMA AdmitInv ==
  ASSUME StoreInv, NEW r \in Results, Admit(r) PROVE StoreInv'
<1>1. /\ plan.victims \in SUBSET registered /\ writer[r].pc = "admit" /\ r \notin registered
      /\ writer' \in [Results -> Writers]
      /\ writer'[r].pc = "entry" /\ writer'[r].rows = writer[r].rows
      /\ (writer'[r].failed <=> writer[r].failed)
      /\ \A s \in Results \ {r} : writer'[s] = writer[s]
      /\ FileBytes' = FileBytes
      /\ admitted' = SumFunctionOnSet(FileBytes, registered') /\ admitted' \in Nat
      /\ admitted' <= Budget
  BY AdmitSums
<1>2. /\ registered' = (registered \ plan.victims) \cup {r} /\ seq' = [seq EXCEPT ![r] = nextSeq]
      /\ nextSeq' = nextSeq + 1 /\ plan' = NoPlan /\ issued' = [issued EXCEPT ![r] = {0}]
      /\ UNCHANGED <<clock, access, delivered, reader, offered>>
  BY DEF Admit
<1>3. Entries' = Entries \cup {r} /\ r \notin Entries
  BY <1>1 DEF Entries
<1>4. StoreShape'
  <2>1. plan' \in [of : Results \cup {NoResult}, victims : SUBSET registered']
    BY <1>2 DEF NoPlan
  <2>2. issued' \in [Results -> SUBSET (0..MaxRows)] /\ seq' \in [Results -> Nat] /\ nextSeq' \in Nat
    BY <1>2, BoundFacts DEF StoreInv, StoreShape
  <2>3. registered' \subseteq Results
    BY <1>2 DEF StoreInv, StoreShape
  <2> QED
    BY <1>1, <1>2, <2>1, <2>2, <2>3 DEF StoreInv, StoreShape
<1>5. WritersWhole'
  <2>1. ASSUME NEW s \in Results PROVE Whole(writer'[s], offered[s], clock)
    <3>1. Whole(writer[s], offered[s], clock)
      BY DEF StoreInv, WritersWhole
    <3>2. CASE s = r
      BY <3>1, <3>2, <1>1, Zenon DEF Whole
    <3>3. CASE s # r
      BY <3>1, <3>3, <1>1
    <3> QED
      BY <3>2, <3>3
  <2> QED
    BY <2>1, <1>2 DEF WritersWhole
<1>6. EntriesHeld'
  <2>1. Entries \in SUBSET Results
    BY DEF Entries
  <2>2. IsFiniteSet(Entries)
    BY <2>1, ResultFacts DEF StoreInv
  <2>3. Cardinality(Entries') = Cardinality(Entries) + 1
    BY <1>3, <2>2, FS_AddElement
  <2>4. nextSeq' = Cardinality(Entries')
    BY <2>3, <1>2 DEF StoreInv, EntriesHeld
  <2>5. registered' \subseteq Entries'
    BY <1>2, <1>3 DEF StoreInv, EntriesHeld
  <2> QED
    BY <1>1, <2>4, <2>5 DEF EntriesHeld
<1>7. PlanFits'
  BY <1>2 DEF PlanFits, NoPlan
<1>8. CursorsHold'
  <2>1. /\ \A s \in Results \ {r} : issued'[s] = issued[s]
        /\ issued'[r] = {0}
    BY <1>2 DEF StoreInv, StoreShape
  <2>2. \A s \in Results : issued'[s] # {} => s \in Entries'
    BY <2>1, <1>3 DEF StoreInv, CursorsHold
  <2>3. \A s \in Results : \A ord \in issued'[s] : ord < writer'[s].rows \/ ord = 0
    BY <2>1, <1>1 DEF StoreInv, CursorsHold
  <2>4. ASSUME NEW d \in Readers
        PROVE  /\ reader[d].pc # "idle" => reader[d].id \in Entries'
               /\ reader[d].pc \in {"lookup", "read"} => reader[d].from \in issued'[reader[d].id]
               /\ reader[d].pc = "serve" /\ reader[d].next # -1
                    => reader[d].next \in 0 .. writer'[reader[d].id].rows - 1
    <3>1. CASE reader[d].pc = "idle"
      BY <3>1
    <3>2. CASE reader[d].pc # "idle"
      <4>1. reader[d].id \in Entries /\ reader[d].id \in Results \ {r}
        BY <3>2, <1>3 DEF StoreInv, CursorsHold, Entries
      <4>2. issued'[reader[d].id] = issued[reader[d].id] /\ writer'[reader[d].id] = writer[reader[d].id]
        BY <4>1, <2>1, <1>1
      <4> QED
        BY <4>1, <4>2, <1>3 DEF StoreInv, CursorsHold
    <3> QED
      BY <3>1, <3>2
  <2> QED
    BY <2>2, <2>3, <2>4, <1>2 DEF CursorsHold
<1> QED
  BY <1>4, <1>5, <1>6, <1>7, <1>8 DEF StoreInv

-----------------------------------------------------------------------------
(* A reader's step, which leaves the registry alone.                        *)

\* d's call becomes c, and the cursors given out are now `given`.
ReaderMoves(d, c) ==
  /\ reader' = [reader EXCEPT ![d] = c]
  /\ UNCHANGED <<clock, writer, seq, registered, admitted, nextSeq, plan, offered>>

\* What a call holds, of the cursors given out and the results that are entries.
ReaderHolds(c, given) ==
  /\ c.pc # "idle" => c.id \in Entries
  /\ c.pc \in {"lookup", "read"} => c.from \in given[c.id]
  /\ c.pc = "serve" /\ c.next # -1 => c.next \in 0 .. writer[c.id].rows - 1

LEMMA ReaderMovesInv ==
  ASSUME StoreInv, NEW d \in Readers, NEW c \in Calls, ReaderMoves(d, c), ReaderHolds(c, issued'),
         access' \in [Results -> 0..MaxClock], delivered' \in [Results -> BOOLEAN],
         issued' \in [Results -> SUBSET (0..MaxRows)],
         \A r \in Results : issued[r] \subseteq issued'[r],
         \A r \in Results : issued'[r] # {} => r \in Entries,
         \A r \in Results : \A ord \in issued'[r] : ord < writer[r].rows \/ ord = 0
  PROVE  StoreInv'
<1>1. reader' \in [Readers -> Calls] /\ reader'[d] = c /\ \A e \in Readers \ {d} : reader'[e] = reader[e]
  BY DEF StoreInv, StoreShape, ReaderMoves
<1>2. StoreShape'
  BY <1>1 DEF StoreInv, StoreShape, ReaderMoves
<1>3. WritersWhole'
  BY DEF StoreInv, WritersWhole, ReaderMoves
<1>4. Entries' = Entries /\ FileBytes' = FileBytes
  BY DEF ReaderMoves, Entries, FileBytes
<1>5. EntriesHeld' /\ PlanFits'
  BY <1>4 DEF StoreInv, EntriesHeld, PlanFits, ReaderMoves
<1>6. ASSUME NEW e \in Readers PROVE ReaderHolds(reader'[e], issued')
  <2>1. CASE e = d
    BY <2>1, <1>1
  <2>2. CASE e # d
    <3>1. reader'[e] = reader[e]
      BY <2>2, <1>1
    <3>2. reader[e].pc \in {"lookup", "read"} => reader[e].id \in Results
      BY DEF StoreInv, CursorsHold, Entries
    <3> QED
      BY <3>1, <3>2 DEF StoreInv, CursorsHold, ReaderHolds
  <2> QED
    BY <2>1, <2>2
<1>7. CursorsHold'
  <2>1. writer' = writer
    BY DEF ReaderMoves
  <2> QED
    BY <1>4, <1>6, <2>1 DEF CursorsHold, ReaderHolds
<1> QED
  BY <1>2, <1>3, <1>5, <1>7 DEF StoreInv

\* The same for a step that gives no cursor out and touches no entry.
LEMMA ReaderMovesOnly ==
  ASSUME StoreInv, NEW d \in Readers, NEW c \in Calls, ReaderMoves(d, c), ReaderHolds(c, issued),
         UNCHANGED <<access, delivered, issued>>
  PROVE  StoreInv'
<1>1. ReaderHolds(c, issued')
  OBVIOUS
<1> QED
  BY <1>1, ReaderMovesInv DEF StoreInv, StoreShape, CursorsHold

LEMMA RestingFacts == Resting \in Calls /\ Resting.pc = "idle"
BY BoundFacts DEF Resting, Calls

LEMMA ContinueInv ==
  ASSUME StoreInv, NEW d \in Readers, NEW r \in Results, NEW ord \in 0..MaxRows, Continue(d, r, ord)
  PROVE  StoreInv'
<1> DEFINE c == [Resting EXCEPT !.pc = "lookup", !.id = r, !.from = ord]
<1>1. c \in Calls /\ c.pc = "lookup" /\ c.id = r /\ c.from = ord
  BY RestingFacts DEF Calls
<1>2. ReaderMoves(d, c)
  BY DEF Continue, ReaderMoves
<1> HIDE DEF c
<1>3. r \in Entries /\ ord \in issued[r]
  BY DEF Continue, StoreInv, CursorsHold
<1>4. ReaderHolds(c, issued)
  BY <1>1, <1>3 DEF ReaderHolds
<1> QED
  BY <1>1, <1>2, <1>4, ReaderMovesOnly DEF Continue

LEMMA LookupInv ==
  ASSUME StoreInv, NEW d \in Readers, Lookup(d) PROVE StoreInv'
<1> DEFINE found == [reader[d] EXCEPT !.pc = "read"]
           c == IF reader[d].id \in registered THEN found ELSE Resting
<1>1. /\ found \in Calls /\ found.pc = "read" /\ found.id = reader[d].id /\ found.from = reader[d].from
      /\ reader[d].pc = "lookup"
  BY DEF StoreInv, StoreShape, Calls, Lookup
<1>2. ReaderMoves(d, c)
  BY DEF Lookup, ReaderMoves
<1> HIDE DEF found
<1>3. ReaderHolds(found, issued)
  BY <1>1 DEF ReaderHolds, StoreInv, CursorsHold
<1>4. ReaderHolds(Resting, issued)
  BY RestingFacts DEF ReaderHolds
<1>5. c \in Calls /\ ReaderHolds(c, issued)
  BY <1>1, <1>3, <1>4, RestingFacts
<1> HIDE DEF c
<1> QED
  BY <1>2, <1>5, ReaderMovesOnly DEF Lookup

LEMMA ReadRowsInv ==
  ASSUME StoreInv, NEW d \in Readers, ReadRows(d) PROVE StoreInv'
<1> DEFINE id == reader[d].id
           rows == writer[id].rows
<1>1. /\ reader[d] \in Calls /\ reader[d].pc = "read" /\ id \in Entries /\ id \in Results
      /\ rows \in 0..MaxRows /\ clock \in 0..MaxClock /\ reader[d].from \in 0..MaxRows
  BY DEF StoreInv, StoreShape, CursorsHold, Entries, ReadRows, Calls, Writers
<1>2. ASSUME NEW next \in -1..MaxRows, next # -1 => next \in 0 .. rows - 1,
             reader' = [reader EXCEPT ![d].pc = "serve", ![d].at = clock, ![d].next = next]
      PROVE  StoreInv'
  <2> DEFINE c == [reader[d] EXCEPT !.pc = "serve", !.at = clock, !.next = next]
  <2>1. c \in Calls /\ c.pc = "serve" /\ c.next = next /\ c.id = id
    BY <1>1 DEF Calls
  <2>2. reader' = [reader EXCEPT ![d] = c]
    BY <1>2
  <2> HIDE DEF c
  <2>3. ReaderMoves(d, c)
    BY <2>2 DEF ReadRows, ReaderMoves
  <2>4. ReaderHolds(c, issued)
    BY <2>1, <1>1, <1>2 DEF ReaderHolds
  <2> QED
    BY <2>1, <2>3, <2>4, ReaderMovesOnly DEF ReadRows
<1>3. ASSUME NEW upto \in reader[d].from + 1 .. rows
      PROVE  /\ NextOrd(upto, rows) \in -1..MaxRows
             /\ NextOrd(upto, rows) # -1 => NextOrd(upto, rows) \in 0 .. rows - 1
  BY <1>1, BoundFacts DEF NextOrd
<1>4. -1 \in -1..MaxRows
  BY BoundFacts
<1> HIDE DEF rows
<1>5. CASE \E upto \in reader[d].from + 1 .. rows :
             reader' = [reader EXCEPT ![d].pc = "serve", ![d].at = clock,
                                      ![d].next = NextOrd(upto, rows)]
  BY <1>2, <1>3, <1>5
<1>6. CASE reader' = [reader EXCEPT ![d].pc = "serve", ![d].at = clock, ![d].next = -1]
  BY <1>2, <1>4, <1>6
<1> QED
  BY <1>5, <1>6 DEF ReadRows, rows

LEMMA ServeInv ==
  ASSUME StoreInv, NEW d \in Readers, Serve(d) PROVE StoreInv'
<1> DEFINE id == reader[d].id
<1>1. /\ reader[d].pc = "serve" /\ id \in Entries /\ id \in Results /\ reader[d].at \in 0..MaxClock
      /\ reader[d].next \in -1..MaxRows
      /\ reader[d].next # -1 => reader[d].next \in 0 .. writer[id].rows - 1
  BY DEF StoreInv, StoreShape, CursorsHold, Entries, Serve, Calls
<1>2. ReaderMoves(d, Resting) /\ ReaderHolds(Resting, issued')
  BY RestingFacts DEF Serve, ReaderMoves, ReaderHolds
<1>3. access' \in [Results -> 0..MaxClock]
  BY <1>1 DEF Serve, StoreInv, StoreShape
<1>4. delivered' \in [Results -> BOOLEAN]
  BY <1>1 DEF Serve, StoreInv, StoreShape
<1>5. /\ \A r \in Results \ {id} : issued'[r] = issued[r]
      /\ issued'[id] = issued[id] \cup ({reader[d].next} \ {-1})
      /\ issued' \in [Results -> SUBSET (0..MaxRows)]
  <2>1. {reader[d].next} \ {-1} \subseteq 0..MaxRows
    BY <1>1, BoundFacts
  <2> QED
    BY <2>1, <1>1 DEF Serve, StoreInv, StoreShape
<1>6. \A ord \in {reader[d].next} \ {-1} : ord < writer[id].rows
  <2>1. writer[id].rows \in 0..MaxRows
    BY <1>1 DEF StoreInv, StoreShape, Writers
  <2> QED
    BY <2>1, <1>1, BoundFacts
<1>7. /\ \A r \in Results : issued[r] \subseteq issued'[r]
      /\ \A r \in Results : issued'[r] # {} => r \in Entries
      /\ \A r \in Results : \A ord \in issued'[r] : ord < writer[r].rows \/ ord = 0
  BY <1>1, <1>5, <1>6 DEF StoreInv, CursorsHold
<1> QED
  BY <1>2, <1>3, <1>4, <1>5, <1>7, RestingFacts, ReaderMovesInv

LEMMA TickInv ==
  ASSUME StoreInv, Tick PROVE StoreInv'
<1>1. clock' \in 0..MaxClock /\ clock' = clock + 1 /\ clock \in 0..MaxClock
  BY BoundFacts DEF Tick, StoreInv, StoreShape
<1>2. StoreShape'
  BY <1>1 DEF Tick, StoreInv, StoreShape
<1>3. Entries' = Entries /\ FileBytes' = FileBytes
  BY DEF Tick, Entries, FileBytes
<1>4. EntriesHeld' /\ PlanFits' /\ CursorsHold'
  BY <1>3 DEF Tick, StoreInv, EntriesHeld, PlanFits, CursorsHold
<1>5. WritersWhole'
  <2>1. ASSUME NEW r \in Results PROVE Whole(writer[r], offered[r], clock + 1)
    <3>1. Whole(writer[r], offered[r], clock) /\ writer[r].now \in 0..MaxClock
      BY DEF StoreInv, StoreShape, Writers, WritersWhole
    <3>2. writer[r].now <= clock => writer[r].now <= clock + 1
      BY <1>1, <3>1, BoundFacts
    <3> QED
      BY <3>1, <3>2, Zenon DEF Whole
  <2> QED
    BY <2>1, <1>1 DEF Tick, WritersWhole
<1> QED
  BY <1>2, <1>4, <1>5 DEF StoreInv

LEMMA StoreNextInv == StoreInv /\ [StoreNext]_storeVars => StoreInv'
<1> SUFFICES ASSUME StoreInv, [StoreNext]_storeVars PROVE StoreInv'
  OBVIOUS
<1>1. CASE Tick
  BY <1>1, TickInv
<1>2. ASSUME NEW r \in Results,
             \/ Begin(r)
             \/ \E size \in RowSizes : Push(r, size)
             \/ Finish(r)
             \/ ReadClock(r)
             \/ Plan(r)
             \/ Admit(r)
             \/ Abort(r)
      PROVE  StoreInv'
  BY <1>2, BeginInv, PushInv, FinishInv, ReadClockInv, PlanInv, AdmitInv, AbortInv
<1>3. ASSUME NEW d \in Readers,
             \/ \E r \in Results : \E ord \in 0..MaxRows : Continue(d, r, ord)
             \/ Lookup(d)
             \/ ReadRows(d)
             \/ Serve(d)
      PROVE  StoreInv'
  BY <1>3, ContinueInv, LookupInv, ReadRowsInv, ServeInv
<1>4. CASE UNCHANGED storeVars
  <2>1. Entries' = Entries /\ FileBytes' = FileBytes
    BY <1>4 DEF storeVars, Entries, FileBytes
  <2> QED
    BY <1>4, <2>1 DEF storeVars, StoreInv, StoreShape, WritersWhole, EntriesHeld, PlanFits, CursorsHold
<1> QED
  BY <1>1, <1>2, <1>3, <1>4 DEF StoreNext

\* The inductive invariant of the store, for any results, readers, sizes,
\* budget and bounds.
THEOREM StoreInvHolds == StoreSpec => []StoreInv
BY StoreInitInv, StoreNextInv, PTL DEF StoreSpec

\* The admitted bytes are always those of the registered results and within
\* the budget (ResultStore::admit), and the state keeps its shape.
THEOREM AdmittedBytesHold == StoreSpec => []AdmittedIsHeld
<1>1. StoreInv => AdmittedIsHeld
  <2> SUFFICES ASSUME StoreInv PROVE AdmittedIsHeld
    OBVIOUS
  <2>1. admitted = SumFunctionOnSet(FileBytes, registered) /\ admitted <= Budget /\ admitted \in 0..Budget
    BY BoundFacts DEF StoreInv, StoreShape, EntriesHeld
  <2>2. nextSeq \in 0..Cardinality(Results)
    <3>1. Entries \in SUBSET Results /\ nextSeq = Cardinality(Entries)
      BY DEF Entries, StoreInv, EntriesHeld
    <3>2. Results \in SUBSET Results
      OBVIOUS
    <3>3. /\ Cardinality(Entries) \in Nat /\ Cardinality(Entries) <= Cardinality(Results)
          /\ Cardinality(Results) \in Nat
      BY <3>1, <3>2, ResultFacts DEF StoreInv
    <3> QED
      BY <3>1, <3>3
  <2>3. StoreTypeOK
    BY <2>1, <2>2 DEF StoreInv, StoreShape, StoreTypeOK, Writers, Calls
  <2> QED
    BY <2>1, <2>3 DEF AdmittedIsHeld
<1> QED
  BY <1>1, StoreInvHolds, PTL

\* A registered result has all its rows, and every cursor starts at one
\* (ResultWriter::finish, ResultReader::read_page).
THEOREM ResultsHold == StoreSpec => []ResultsAreWhole
<1>1. StoreInv => ResultsAreWhole
  <2> SUFFICES ASSUME StoreInv PROVE ResultsAreWhole
    OBVIOUS
  <2>1. ASSUME NEW r \in registered PROVE writer[r].rows = offered[r]
    <3>1. r \in Results /\ writer[r].pc = "entry" /\ Whole(writer[r], offered[r], clock)
      BY DEF StoreInv, StoreShape, EntriesHeld, Entries, WritersWhole
    <3> QED
      BY <3>1, Zenon DEF Whole
  <2> QED
    BY <2>1 DEF StoreInv, CursorsHold, ResultsAreWhole
<1> QED
  BY <1>1, StoreInvHolds, PTL

-----------------------------------------------------------------------------
(* What an admission may reclaim.                                           *)

\* Of results there is one that none of them goes before.
LEMMA FirstToGo ==
  ASSUME StoreInv, NEW S \in SUBSET Results, S # {}
  PROVE  \E r \in S : \A s \in S : ~Before(s, r)
<1> DEFINE read == {r \in S : delivered[r]}
           kind == IF read # {} THEN read ELSE S
           ages == {access[r] : r \in kind}
<1>1. kind \in SUBSET Results /\ kind # {} /\ kind \subseteq S
  OBVIOUS
<1>2. ASSUME NEW r \in kind, NEW s \in S, Before(s, r) PROVE s \in kind
  BY <1>2 DEF Before
<1> HIDE DEF kind
<1>3. PICK age \in ages : \A other \in ages : age <= other
  <2>1. ages \in SUBSET Nat /\ ages # {}
    BY <1>1, BoundFacts DEF StoreInv, StoreShape
  <2> HIDE DEF ages
  <2> QED
    BY <2>1, LeastNumber
<1> DEFINE old == {r \in kind : access[r] = age}
           turns == {seq[r] : r \in old}
<1>4. PICK turn \in turns : \A other \in turns : turn <= other
  <2>1. old # {} /\ old \in SUBSET Results
    BY <1>1, <1>3
  <2>2. \A r \in Results : seq[r] \in Nat
    BY DEF StoreInv, StoreShape
  <2> HIDE DEF old
  <2>3. turns \in SUBSET Nat /\ turns # {}
    BY <2>1, <2>2
  <2> HIDE DEF turns
  <2> QED
    BY <2>3, LeastNumber
<1>5. PICK r \in old : seq[r] = turn
  BY <1>4
<1>6. ASSUME NEW s \in S, Before(s, r) PROVE FALSE
  <2>1. r \in kind /\ s \in kind /\ r \in Results /\ s \in Results
    BY <1>1, <1>2, <1>5, <1>6
  <2>2. access[s] \in Int /\ access[r] \in Int /\ seq[s] \in Int /\ seq[r] \in Int
    BY <2>1, BoundFacts DEF StoreInv, StoreShape
  <2>3. access[r] = age /\ age <= access[s]
    BY <2>1, <1>3, <1>5
  <2>4. access[s] = access[r] => seq[r] <= seq[s]
    BY <2>1, <2>3, <1>4, <1>5
  <2>5. delivered[r] <=> delivered[s]
    BY <2>1 DEF kind
  <2> QED
    BY <2>2, <2>3, <2>4, <2>5, <1>6 DEF Before
<1> QED
  BY <1>1, <1>5, <1>6

\* The more is removed, the less stays.
LEMMA UsedFalls ==
  ASSUME StoreInv, NEW more \in SUBSET registered, NEW less \in SUBSET more
  PROVE  Used(more) <= Used(less) /\ Used(more) \in Nat /\ Used(less) \in Nat
<1>1. /\ Used(more) = SumFunctionOnSet(FileBytes, registered \ more)
      /\ Used(less) = SumFunctionOnSet(FileBytes, registered \ less)
      /\ Used(more) \in Nat /\ Used(less) \in Nat
  BY SplitFacts
<1> DEFINE kept == registered \ less
           part == registered \ more
<1>2. part \in SUBSET kept /\ kept \in SUBSET Results /\ kept \ part \in SUBSET Results
  BY DEF StoreInv, StoreShape
<1>3. IsFiniteSet(kept) /\ (\A r \in kept : FileBytes[r] \in Nat)
      /\ SumFunctionOnSet(FileBytes, kept \ part) \in Nat
  BY <1>2, ResultFacts DEF StoreInv
<1>4. SumFunctionOnSet(FileBytes, kept)
        = SumFunctionOnSet(FileBytes, part) + SumFunctionOnSet(FileBytes, kept \ part)
  BY <1>2, <1>3, SumSplit
<1> QED
  BY <1>1, <1>3, <1>4

\* What is planned to go, when something unread goes, has everything read.
LEMMA ReadGoFirst ==
  ASSUME StoreInv, NEW bytes \in Nat, NEW now \in 0..MaxClock, now <= clock,
         NEW r \in PlanReclaim(bytes, now), ~delivered[r]
  PROVE  /\ clock - access[r] > Grace
         /\ {s \in registered : delivered[s]} \subseteq PlanReclaim(bytes, now)
<1>0. r \in registered /\ r \in Results /\ ~Active(r, now)
      /\ Used({s \in Candidates(now) : Before(s, r)}) + bytes > Budget
  BY DEF PlanReclaim, Candidates, StoreInv, StoreShape
<1>1. now - access[r] > Grace
  BY <1>0 DEF Active, Idle, Delivered
<1>2. clock \in Int /\ now \in Int /\ access[r] \in Int /\ Grace \in Int
  BY <1>0, BoundFacts DEF StoreInv, StoreShape
<1>3. ASSUME NEW s \in registered, delivered[s] PROVE s \in PlanReclaim(bytes, now)
  <2> DEFINE Ahead(x) == {t \in Candidates(now) : Before(t, x)}
  <2>1. s \in Candidates(now)
    BY <1>3 DEF Candidates, Active, Delivered
  <2>2. Ahead(s) \subseteq Ahead(r)
    BY <1>3 DEF Before
  <2>3. Ahead(r) \in SUBSET registered
    BY DEF Candidates
  <2>4. Used(Ahead(r)) + bytes > Budget
    BY <1>0
  <2> HIDE DEF Ahead
  <2>5. Used(Ahead(r)) <= Used(Ahead(s)) /\ Used(Ahead(r)) \in Nat /\ Used(Ahead(s)) \in Nat
    BY <2>2, <2>3, UsedFalls
  <2>6. Used(Ahead(s)) + bytes > Budget
    BY <2>4, <2>5, BoundFacts
  <2> QED
    BY <2>1, <2>6 DEF PlanReclaim, Ahead
<1> QED
  BY <1>1, <1>2, <1>3

\* A plan that does not make room reclaims all it may.
LEMMA FullIsFull ==
  ASSUME StoreInv, NEW bytes \in Nat, NEW now \in 0..MaxClock,
         ~(Used(PlanReclaim(bytes, now)) + bytes <= Budget)
  PROVE  SumFunctionOnSet(FileBytes, {s \in registered : Active(s, now)}) + bytes > Budget
<1> DEFINE all == Candidates(now)
           victims == PlanReclaim(bytes, now)
           spared == all \ victims
           Ahead(x) == {t \in all : Before(t, x)}
<1>0. all \in SUBSET registered /\ victims \in SUBSET registered /\ spared \in SUBSET Results
  BY DEF Candidates, PlanReclaim, StoreInv, StoreShape
<1>1. spared = {}
  <2> SUFFICES ASSUME spared # {} PROVE FALSE
    OBVIOUS
  <2>1. PICK r \in spared : \A s \in spared : ~Before(s, r)
    BY <1>0, FirstToGo
  <2>2. Ahead(r) \subseteq victims
    BY <2>1
  <2>3. ~(Used(Ahead(r)) + bytes > Budget)
    BY <2>1 DEF PlanReclaim
  <2> HIDE DEF Ahead, victims
  <2>4. Used(victims) <= Used(Ahead(r)) /\ Used(victims) \in Nat /\ Used(Ahead(r)) \in Nat
    BY <2>2, <1>0, UsedFalls
  <2> QED
    BY <2>3, <2>4, BoundFacts DEF victims
<1>2. victims = all
  BY <1>1 DEF PlanReclaim
<1>3. registered \ all = {s \in registered : Active(s, now)}
  BY DEF Candidates
<1>4. Used(all) = SumFunctionOnSet(FileBytes, registered \ all) /\ Used(all) \in Nat
  BY <1>0, SplitFacts
<1>5. ~(Used(all) + bytes <= Budget)
  BY <1>2
<1>6. Used(all) = SumFunctionOnSet(FileBytes, {s \in registered : Active(s, now)})
  BY <1>3, <1>4
<1> HIDE DEF all
<1>7. Used(all) + bytes > Budget
  BY <1>4, <1>5, BoundFacts
<1> QED
  BY <1>6, <1>7

\* What one step may reclaim or refuse.
FairStep ==
  \A r \in Results :
       /\ r \in plan'.victims \ plan.victims /\ ~delivered[r]
            => clock - access[r] > Grace /\ {s \in registered : delivered[s]} \subseteq plan'.victims
       /\ writer[r].pc = "admit" /\ writer'[r].pc = "full"
            => SumFunctionOnSet(FileBytes, {s \in registered : Active(s, writer[r].now)})
                 + writer[r].bytes > Budget

LEMMA PlanIsFair == ASSUME StoreInv, NEW r \in Results, Plan(r) PROVE FairStep
<1> DEFINE victims == PlanReclaim(writer[r].bytes, writer[r].now)
<1>1. /\ writer[r].pc = "admit" /\ plan = NoPlan
      /\ writer[r].bytes \in Nat /\ writer[r].now \in 0..MaxClock
  BY DEF Plan, StoreInv, StoreShape, Writers
<1>2. writer[r].now <= clock
  <2>1. Whole(writer[r], offered[r], clock)
    BY DEF StoreInv, WritersWhole
  <2> QED
    BY <2>1, <1>1, Zenon DEF Whole
<1>3. CASE writer' = [writer EXCEPT ![r] = Ended("too_large")] /\ UNCHANGED plan
  <2>1. \A s \in Results : writer'[s].pc = "full" => writer[s].pc = "full"
    BY <1>3, EndedFacts DEF StoreInv, StoreShape
  <2> QED
    BY <2>1, <1>3 DEF FairStep
<1>4. CASE /\ ~(Used(victims) + writer[r].bytes <= Budget)
           /\ writer' = [writer EXCEPT ![r] = Ended("full")] /\ UNCHANGED plan
  <2>1. \A s \in Results \ {r} : writer'[s] = writer[s]
    BY <1>4 DEF StoreInv, StoreShape
  <2>2. SumFunctionOnSet(FileBytes, {s \in registered : Active(s, writer[r].now)})
          + writer[r].bytes > Budget
    BY <1>1, <1>4, FullIsFull
  <2>3. \A s \in Results : writer[s].pc = "admit" /\ writer'[s].pc = "full" => s = r
    BY <2>1
  <2> QED
    BY <2>2, <2>3, <1>4 DEF FairStep
<1>5. CASE plan' = [of |-> r, victims |-> victims] /\ UNCHANGED writer
  <2>1. plan'.victims = victims /\ victims \subseteq registered
    BY <1>5 DEF PlanReclaim, Candidates
  <2>2. ASSUME NEW s \in victims, ~delivered[s]
        PROVE  clock - access[s] > Grace /\ {t \in registered : delivered[t]} \subseteq victims
    BY <2>2, <1>1, <1>2, ReadGoFirst
  <2> HIDE DEF victims
  <2> QED
    BY <2>1, <2>2, <1>5 DEF FairStep
<1> QED
  BY <1>3, <1>4, <1>5 DEF Plan

LEMMA StoreStepIsFair == StoreInv /\ [StoreNext]_storeVars => FairStep
<1> SUFFICES ASSUME StoreInv, [StoreNext]_storeVars PROVE FairStep
  OBVIOUS
<1>1. ASSUME plan'.victims \subseteq plan.victims,
             \A r \in Results : writer'[r].pc = "full" => writer[r].pc = "full"
      PROVE  FairStep
  BY <1>1 DEF FairStep
<1>2. CASE \E r \in Results : Plan(r)
  BY <1>2, PlanIsFair
<1>3. CASE \E r \in Results : Admit(r)
  <2>1. plan'.victims = {} /\ \A r \in Results : writer'[r].pc = "full" => writer[r].pc = "full"
    BY <1>3 DEF Admit, NoPlan, StoreInv, StoreShape, Writers
  <2> QED
    BY <2>1, <1>1
<1>4. ASSUME NEW r \in Results,
             \/ Begin(r)
             \/ \E size \in RowSizes : Push(r, size)
             \/ Finish(r)
             \/ ReadClock(r)
             \/ Abort(r)
      PROVE  FairStep
  <2>1. plan' = plan
    BY <1>4 DEF Begin, Push, Finish, ReadClock, Abort
  <2>2. /\ writer'[r].pc # "full"
        /\ \A s \in Results \ {r} : writer'[s] = writer[s]
    <3>1. writer \in [Results -> Writers]
      BY DEF StoreInv, StoreShape
    <3>2. CASE Begin(r)
      BY <3>1, <3>2 DEF Begin, Writers
    <3>3. ASSUME NEW size \in RowSizes, Push(r, size)
          PROVE  writer'[r].pc # "full" /\ \A s \in Results \ {r} : writer'[s] = writer[s]
      <4>1. writer[r].pc = "open" /\ writer[r] \in Writers
        BY <3>1, <3>3 DEF Push
      <4>2. Stored(writer[r], size).pc = "open"
        BY <4>1 DEF Stored, Writers
      <4>3. CASE writer' = [writer EXCEPT ![r] = Stored(@, size)]
        BY <3>1, <4>2, <4>3
      <4>4. CASE writer' = [writer EXCEPT ![r].failed = TRUE]
        BY <3>1, <4>1, <4>4 DEF Writers
      <4> QED
        BY <3>3, <4>3, <4>4 DEF Push
    <3>4. CASE Finish(r)
      BY <3>1, <3>4 DEF Finish, Writers
    <3>5. CASE ReadClock(r)
      BY <3>1, <3>5 DEF ReadClock, Writers
    <3>6. CASE Abort(r)
      BY <3>1, <3>6, EndedFacts DEF Abort
    <3> QED
      BY <1>4, <3>2, <3>3, <3>4, <3>5, <3>6
  <2> QED
    BY <2>1, <2>2, <1>1
<1>5. CASE UNCHANGED <<writer, plan>>
  BY <1>1, <1>5
<1> QED
  BY <1>2, <1>3, <1>4, <1>5
     DEF StoreNext, storeVars, Tick, Continue, Lookup, ReadRows, Serve

\* An admission reclaims what was read to its end before anything else, what
\* was not only past its grace period, and answers Full only when the active
\* results leave no room (registry::plan_reclaim).
THEOREM ReclaimsFairly == StoreSpec => ReclaimIsFair
<1>1. StoreInv /\ [StoreNext]_storeVars => [FairStep]_storeVars
  BY StoreStepIsFair
<1> QED
  BY <1>1, StoreInvHolds, PTL DEF StoreSpec, ReclaimIsFair, FairStep

-----------------------------------------------------------------------------
(* The worker pool of a sync: no outcome is lost, and the bytes claimed     *)
(* stay within the ceiling.                                                 *)

\* A worker that holds a file it has not yet sent or given up.
Holds(w, i) == worker[w].idx = i /\ worker[w].pc \in {"deadline", "process", "send", "raise"}

\* Every claimed index is accounted for.
ClaimedIsKnown ==
  \A i \in Index : i < nextIndex => sent[i] \/ errorFlag \/ \E w \in Workers : Holds(w, i)
\* A raised flag has its error in the slot, or on the way there.
FlagHasError == errorFlag => errorSlot # Nothing \/ \E w \in Workers : Is(w, "record")
AbortHasError ==
  \A w \in Workers : /\ worker[w].pc \in {"raise", "record"} => worker[w].error # Nothing
                     /\ Is(w, "record") => errorFlag
HeldIsIndex == \A w \in Workers : worker[w].pc \in {"deadline", "process", "send"} => worker[w].idx \in Index
\* Only the flag or the end of the files makes a worker return.
DoneHasReason == \A w \in Workers : Is(w, "done") => errorFlag \/ nextIndex > PoolFiles
CeilingKept == totalBytes <= ImportLimit

PoolInv ==
  /\ PoolTypeOK /\ ClaimedIsKnown /\ FlagHasError /\ AbortHasError /\ HeldIsIndex
  /\ DoneHasReason /\ CeilingKept /\ NoOutcomeLost

USE FilePoolAssumption DEF FilePoolAssumption

\* The errors, and that none of them stands for no error.
LEMMA ErrorFacts ==
  /\ Nothing \in ErrorOrNone /\ PoolErrors \subseteq ErrorOrNone /\ Nothing \notin PoolErrors
  /\ {"time_budget", "read", "import_too_large"} \subseteq PoolErrors
  /\ ErrorOrNone \subseteq Verdicts /\ {"ok", "lost"} \subseteq Verdicts /\ "lost" \notin ErrorOrNone
BY DEF ErrorOrNone, PoolErrors, Nothing, Verdicts

WorkerStates == [pc : WorkerPcs, idx : Nat, error : ErrorOrNone]

\* A worker that moves on keeps its file and its error; the others stay.
LEMMA MoveEffect ==
  ASSUME PoolTypeOK, NEW w \in Workers, NEW pc \in WorkerPcs, Move(w, pc)
  PROVE  /\ worker' \in [Workers -> WorkerStates]
         /\ worker'[w].pc = pc /\ worker'[w].idx = worker[w].idx /\ worker'[w].error = worker[w].error
         /\ \A v \in Workers \ {w} : worker'[v] = worker[v]
BY DEF PoolTypeOK, Move, WorkerStates

\* A worker that aborts keeps its file and holds the error; the others stay.
LEMMA AbortEffect ==
  ASSUME PoolTypeOK, NEW w \in Workers, NEW e \in PoolErrors, Aborts(w, e)
  PROVE  /\ worker' \in [Workers -> WorkerStates]
         /\ worker'[w].pc = "raise" /\ worker'[w].idx = worker[w].idx /\ worker'[w].error = e
         /\ \A v \in Workers \ {w} : worker'[v] = worker[v]
<1>1. e \in ErrorOrNone /\ "raise" \in WorkerPcs BY ErrorFacts DEF WorkerPcs
<1> QED BY <1>1 DEF PoolTypeOK, Aborts, WorkerStates

\* The initial state: nothing is claimed.
LEMMA PoolInitInv == PoolInit => PoolInv
<1> SUFFICES ASSUME PoolInit PROVE PoolInv
  OBVIOUS
<1>1. PoolTypeOK
  <2>1. worker \in [Workers -> WorkerStates] BY ErrorFacts DEF PoolInit, WorkerStates, WorkerPcs
  <2>2. nextIndex \in Nat \ {0} /\ totalBytes \in Nat BY DEF PoolInit
  <2>3. sent \in [Index -> BOOLEAN] BY DEF PoolInit
  <2>4. errorSlot \in ErrorOrNone /\ verdict \in Verdicts BY ErrorFacts DEF PoolInit
  <2> QED BY <2>1, <2>2, <2>3, <2>4 DEF PoolInit, PoolTypeOK, WorkerStates
<1>2. ClaimedIsKnown /\ FlagHasError /\ CeilingKept BY DEF PoolInit, ClaimedIsKnown, FlagHasError, CeilingKept, Index
<1>3. AbortHasError /\ HeldIsIndex /\ DoneHasReason
  BY DEF PoolInit, AbortHasError, HeldIsIndex, DoneHasReason, Is
<1>4. NoOutcomeLost BY DEF PoolInit, NoOutcomeLost, Nothing
<1> QED BY <1>1, <1>2, <1>3, <1>4 DEF PoolInv

\* Every step of a worker, the collection and the clock keep the invariant.
LEMMA PoolNextInv == PoolInv /\ [PoolNext]_poolVars => PoolInv'
<1> SUFFICES ASSUME PoolInv, [PoolNext]_poolVars PROVE PoolInv'
  OBVIOUS
<1> USE DEF PoolInv, PoolTypeOK, WorkerPcs, Is, Holds, Index
<1>1. ASSUME NEW w \in Workers, CheckFlag(w) PROVE PoolInv'
  <2>1. PoolTypeOK' BY <1>1, ErrorFacts DEF CheckFlag, Move
  <2>2. ClaimedIsKnown' BY <1>1, ErrorFacts DEF CheckFlag, Move, ClaimedIsKnown
  <2>3. FlagHasError' BY <1>1, ErrorFacts DEF CheckFlag, Move, FlagHasError
  <2>4. AbortHasError' BY <1>1, ErrorFacts DEF CheckFlag, Move, AbortHasError
  <2>5. HeldIsIndex' BY <1>1, ErrorFacts DEF CheckFlag, Move, HeldIsIndex
  <2>6. DoneHasReason' BY <1>1, ErrorFacts DEF CheckFlag, Move, DoneHasReason
  <2>7. CeilingKept' BY <1>1, ErrorFacts DEF CheckFlag, Move, CeilingKept
  <2>8. NoOutcomeLost' BY <1>1, ErrorFacts DEF CheckFlag, Move, NoOutcomeLost
  <2> QED BY <2>1, <2>2, <2>3, <2>4, <2>5, <2>6, <2>7, <2>8 DEF PoolInv
<1>2. ASSUME NEW w \in Workers, ClaimIndex(w) PROVE PoolInv'
  <2>1. PoolTypeOK' BY <1>2, ErrorFacts DEF ClaimIndex
  <2>2. ClaimedIsKnown' BY <1>2, ErrorFacts DEF ClaimIndex, ClaimedIsKnown
  <2>3. FlagHasError' BY <1>2, ErrorFacts DEF ClaimIndex, FlagHasError
  <2>4. AbortHasError' BY <1>2, ErrorFacts DEF ClaimIndex, AbortHasError
  <2>5. HeldIsIndex' BY <1>2, ErrorFacts DEF ClaimIndex, HeldIsIndex
  <2>6. DoneHasReason' BY <1>2, ErrorFacts DEF ClaimIndex, DoneHasReason
  <2>7. CeilingKept' BY <1>2, ErrorFacts DEF ClaimIndex, CeilingKept
  <2>8. NoOutcomeLost' BY <1>2, ErrorFacts DEF ClaimIndex, NoOutcomeLost
  <2> QED BY <2>1, <2>2, <2>3, <2>4, <2>5, <2>6, <2>7, <2>8 DEF PoolInv
<1>3. ASSUME NEW w \in Workers, CheckDeadline(w) PROVE PoolInv'
  <2>0. UNCHANGED <<sampled, nextIndex, errorFlag, errorSlot, totalBytes, sent, expired, verdict>>
    BY <1>3 DEF CheckDeadline
  <2>1. Is(w, "deadline") /\ (Move(w, "process") \/ \E e \in PoolErrors : Aborts(w, e))
    BY <1>3, ErrorFacts DEF CheckDeadline
  <2>2. worker' \in [Workers -> WorkerStates] /\ worker'[w].idx = worker[w].idx
        /\ \A v \in Workers \ {w} : worker'[v] = worker[v]
    BY <2>1, MoveEffect, AbortEffect, ErrorFacts
  <2>3. worker'[w].pc \in {"process", "send", "raise"} /\ (worker'[w].pc = "raise" => worker'[w].error # Nothing)
    BY <2>1, MoveEffect, AbortEffect, ErrorFacts
  <2>4. PoolTypeOK' BY <2>0, <2>1, <2>2 DEF WorkerStates
  <2>5. ClaimedIsKnown'
    <3>1. \A v \in Workers, i \in Index : Holds(v, i) => Holds(v, i)' BY <2>1, <2>2, <2>3
    <3> QED BY <2>0, <3>1 DEF ClaimedIsKnown
  <2>6. FlagHasError' BY <2>0, <2>1, <2>2, <2>3 DEF FlagHasError
  <2>7. AbortHasError' BY <2>0, <2>1, <2>2, <2>3 DEF AbortHasError
  <2>8. HeldIsIndex' BY <2>0, <2>1, <2>2, <2>3 DEF HeldIsIndex
  <2>9. DoneHasReason' BY <2>0, <2>1, <2>2, <2>3 DEF DoneHasReason
  <2>10. CeilingKept' BY <2>0, <2>1, <2>2, <2>3 DEF CeilingKept
  <2>11. NoOutcomeLost' BY <2>0, <2>1, <2>2, <2>3 DEF NoOutcomeLost
  <2> QED BY <2>4, <2>5, <2>6, <2>7, <2>8, <2>9, <2>10, <2>11
<1>4. ASSUME NEW w \in Workers, ProcessFile(w) PROVE PoolInv'
  <2> DEFINE outcome == sampled[worker[w].idx]
  <2>a. \/ UNCHANGED totalBytes
        \/ outcome \in Bytes /\ ClaimFits(outcome) /\ totalBytes' = totalBytes + outcome
    BY <1>4 DEF ProcessFile
  <2>b. totalBytes' \in Nat /\ (CeilingKept => CeilingKept')
    <3>1. CASE UNCHANGED totalBytes BY <3>1 DEF CeilingKept
    <3>2. CASE outcome \in Bytes /\ ClaimFits(outcome) /\ totalBytes' = totalBytes + outcome
      <4>1. outcome \in Nat /\ totalBytes \in Nat BY <3>2
      <4>2. totalBytes' \in Nat /\ totalBytes' <= ImportLimit BY <3>2, <4>1 DEF ClaimFits
      <4> QED BY <4>2 DEF CeilingKept
    <3> QED BY <2>a, <3>1, <3>2
  <2>0. totalBytes' \in Nat /\ (CeilingKept => CeilingKept')
        /\ UNCHANGED <<sampled, nextIndex, errorFlag, errorSlot, sent, expired, verdict>>
    BY <1>4, <2>b DEF ProcessFile
  <2>1. Is(w, "process") /\ (Move(w, "send") \/ \E e \in PoolErrors : Aborts(w, e))
    BY <1>4, ErrorFacts DEF ProcessFile
  <2>2. worker' \in [Workers -> WorkerStates] /\ worker'[w].idx = worker[w].idx
        /\ \A v \in Workers \ {w} : worker'[v] = worker[v]
    BY <2>1, MoveEffect, AbortEffect, ErrorFacts
  <2>3. worker'[w].pc \in {"process", "send", "raise"} /\ (worker'[w].pc = "raise" => worker'[w].error # Nothing)
    BY <2>1, MoveEffect, AbortEffect, ErrorFacts
  <2>4. PoolTypeOK' BY <2>0, <2>1, <2>2 DEF WorkerStates
  <2>5. ClaimedIsKnown'
    <3>1. \A v \in Workers, i \in Index : Holds(v, i) => Holds(v, i)' BY <2>1, <2>2, <2>3
    <3> QED BY <2>0, <3>1 DEF ClaimedIsKnown
  <2>6. FlagHasError' BY <2>0, <2>1, <2>2, <2>3 DEF FlagHasError
  <2>7. AbortHasError' BY <2>0, <2>1, <2>2, <2>3 DEF AbortHasError
  <2>8. HeldIsIndex' BY <2>0, <2>1, <2>2, <2>3 DEF HeldIsIndex
  <2>9. DoneHasReason' BY <2>0, <2>1, <2>2, <2>3 DEF DoneHasReason
  <2>10. CeilingKept' BY <2>0
  <2>11. NoOutcomeLost' BY <2>0, <2>1, <2>2, <2>3 DEF NoOutcomeLost
  <2> QED BY <2>4, <2>5, <2>6, <2>7, <2>8, <2>9, <2>10, <2>11
<1>5. ASSUME NEW w \in Workers, SendOutcome(w) PROVE PoolInv'
  <2>1. PoolTypeOK' BY <1>5, ErrorFacts DEF SendOutcome, Move
  <2>2. ClaimedIsKnown' BY <1>5, ErrorFacts DEF SendOutcome, Move, ClaimedIsKnown
  <2>3. FlagHasError' BY <1>5, ErrorFacts DEF SendOutcome, Move, FlagHasError
  <2>4. AbortHasError' BY <1>5, ErrorFacts DEF SendOutcome, Move, AbortHasError
  <2>5. HeldIsIndex' BY <1>5, ErrorFacts DEF SendOutcome, Move, HeldIsIndex
  <2>6. DoneHasReason' BY <1>5, ErrorFacts DEF SendOutcome, Move, DoneHasReason
  <2>7. CeilingKept' BY <1>5, ErrorFacts DEF SendOutcome, Move, CeilingKept
  <2>8. NoOutcomeLost' BY <1>5, ErrorFacts DEF SendOutcome, Move, NoOutcomeLost
  <2> QED BY <2>1, <2>2, <2>3, <2>4, <2>5, <2>6, <2>7, <2>8 DEF PoolInv
<1>6. ASSUME NEW w \in Workers, RaiseFlag(w) PROVE PoolInv'
  <2>1. PoolTypeOK' BY <1>6, ErrorFacts DEF RaiseFlag, Move
  <2>2. ClaimedIsKnown' BY <1>6, ErrorFacts DEF RaiseFlag, Move, ClaimedIsKnown
  <2>3. FlagHasError' BY <1>6, ErrorFacts DEF RaiseFlag, Move, FlagHasError
  <2>4. AbortHasError' BY <1>6, ErrorFacts DEF RaiseFlag, Move, AbortHasError
  <2>5. HeldIsIndex' BY <1>6, ErrorFacts DEF RaiseFlag, Move, HeldIsIndex
  <2>6. DoneHasReason' BY <1>6, ErrorFacts DEF RaiseFlag, Move, DoneHasReason
  <2>7. CeilingKept' BY <1>6, ErrorFacts DEF RaiseFlag, Move, CeilingKept
  <2>8. NoOutcomeLost' BY <1>6, ErrorFacts DEF RaiseFlag, Move, NoOutcomeLost
  <2> QED BY <2>1, <2>2, <2>3, <2>4, <2>5, <2>6, <2>7, <2>8 DEF PoolInv
<1>7. ASSUME NEW w \in Workers, RecordError(w) PROVE PoolInv'
  <2>1. PoolTypeOK' BY <1>7, ErrorFacts DEF RecordError, Move
  <2>2. ClaimedIsKnown' BY <1>7, ErrorFacts DEF RecordError, Move, ClaimedIsKnown
  <2>3. FlagHasError'
    <3>1. errorSlot' # Nothing BY <1>7 DEF RecordError, AbortHasError
    <3> QED BY <3>1 DEF FlagHasError
  <2>4. AbortHasError' BY <1>7, ErrorFacts DEF RecordError, Move, AbortHasError
  <2>5. HeldIsIndex' BY <1>7, ErrorFacts DEF RecordError, Move, HeldIsIndex
  <2>6. DoneHasReason' BY <1>7 DEF RecordError, Move, AbortHasError, DoneHasReason
  <2>7. CeilingKept' BY <1>7, ErrorFacts DEF RecordError, Move, CeilingKept
  <2>8. NoOutcomeLost' BY <1>7, ErrorFacts DEF RecordError, Move, NoOutcomeLost
  <2> QED BY <2>1, <2>2, <2>3, <2>4, <2>5, <2>6, <2>7, <2>8 DEF PoolInv
<1>8. ASSUME Collect PROVE PoolInv'
  <2>1. errorSlot = Nothing => \A i \in Index : sent[i]
    <3> SUFFICES ASSUME errorSlot = Nothing, NEW i \in Index PROVE sent[i]
      OBVIOUS
    <3>1. ~errorFlag BY <1>8 DEF Collect, FlagHasError
    <3>2. nextIndex > PoolFiles BY <1>8, <3>1 DEF Collect, DoneHasReason
    <3>3. \A w \in Workers : ~Holds(w, i) BY <1>8 DEF Collect
    <3> QED BY <3>1, <3>2, <3>3 DEF ClaimedIsKnown
  <2>2. verdict' \in Verdicts /\ verdict' # "lost" BY <1>8, <2>1, ErrorFacts DEF Collect
  <2>3. UNCHANGED <<sampled, nextIndex, errorFlag, errorSlot, totalBytes, sent, worker, expired>>
    BY <1>8 DEF Collect
  <2>4. PoolTypeOK' BY <2>2, <2>3
  <2> QED BY <2>2, <2>3, <2>4 DEF ClaimedIsKnown, FlagHasError, AbortHasError, HeldIsIndex,
       DoneHasReason, CeilingKept, NoOutcomeLost
<1>9. CASE DeadlinePasses
  BY <1>9 DEF DeadlinePasses, ClaimedIsKnown, FlagHasError, AbortHasError, HeldIsIndex,
     DoneHasReason, CeilingKept, NoOutcomeLost
<1>10. CASE UNCHANGED poolVars
  BY <1>10 DEF poolVars, ClaimedIsKnown, FlagHasError, AbortHasError, HeldIsIndex,
     DoneHasReason, CeilingKept, NoOutcomeLost
<1> QED BY <1>1, <1>2, <1>3, <1>4, <1>5, <1>6, <1>7, <1>8, <1>9, <1>10 DEF PoolNext

\* Every behaviour of the pool keeps the invariant.
THEOREM PoolInvariant == PoolSpec => []PoolInv
<1>1. PoolInit => PoolInv BY PoolInitInv
<1>2. PoolInv /\ [PoolNext]_poolVars => PoolInv' BY PoolNextInv
<1> QED BY <1>1, <1>2, PTL DEF PoolSpec

\* A pass that recorded no error has an outcome for every file, for any
\* number of workers and files: SamplingResultLost is unreachable.
THEOREM OutcomesKept == PoolSpec => []NoOutcomeLost
<1>1. PoolInv => NoOutcomeLost BY DEF PoolInv
<1> QED BY <1>1, PoolInvariant, PTL

\* The bytes claimed by concurrent workers never exceed the import ceiling.
THEOREM ClaimsStayBelow == PoolSpec => [](totalBytes <= ImportLimit)
<1>1. PoolInv => totalBytes <= ImportLimit BY DEF PoolInv, CeilingKept
<1> QED BY <1>1, PoolInvariant, PTL

-----------------------------------------------------------------------------
(* What the pool says of the import ceiling.                                *)

\* A worker that holds a file whose outcome is still to be sent.
Holding(w) == worker[w].pc \in {"deadline", "process", "send"}

\* A file is claimed by one worker, once.
HeldOnce ==
  /\ \A w \in Workers : Holding(w) => worker[w].idx < nextIndex /\ ~sent[worker[w].idx]
  /\ \A v, w \in Workers : Holding(v) /\ Holding(w) /\ worker[v].idx = worker[w].idx => v = w
  /\ \A i \in Index : sent[i] => i < nextIndex

\* The bytes of the files, and the files whose bytes were claimed.
Counted == [i \in Index |-> CountedBytes(i)]
Claimed == {i \in Index : sent[i] \/ \E w \in Workers : Is(w, "send") /\ worker[w].idx = i}
TotalIsClaimed == totalBytes = SumFunctionOnSet(Counted, Claimed)

\* A worker that found the import too large was right.
RefusedRightly ==
  /\ \A w \in Workers : worker[w].error = "import_too_large"
       => SumFunctionOnSet(Counted, Index) > ImportLimit
  /\ errorSlot = "import_too_large" => SumFunctionOnSet(Counted, Index) > ImportLimit
  /\ verdict = "import_too_large" => SumFunctionOnSet(Counted, Index) > ImportLimit
OkIsComplete == verdict = "ok" => \A i \in Index : sent[i]

ClaimInv == PoolInv /\ HeldOnce /\ TotalIsClaimed /\ RefusedRightly /\ OkIsComplete

LEMMA CountedFacts ==
  ASSUME PoolTypeOK, NEW S \in SUBSET Index
  PROVE  /\ IsFiniteSet(S) /\ \A i \in S : Counted[i] \in Nat
         /\ SumFunctionOnSet(Counted, S) \in Nat
<1>1. IsFiniteSet(Index)
  BY FS_Interval DEF Index
<1>2. IsFiniteSet(S)
  BY <1>1, FS_Subset
<1>3. \A i \in S : Counted[i] \in Nat
  BY DEF PoolTypeOK, Counted, CountedBytes
<1> QED
  BY <1>2, <1>3, SumIsNat

\* The sum of the model is the one of the lemmas.
LEMMA ImportBytesIs == ASSUME PoolTypeOK PROVE ImportBytes = SumFunctionOnSet(Counted, Index)
<1> DEFINE Rec(h) == [s \in SUBSET Index |->
                        IF s = {} THEN 0 ELSE CountedBytes(Some(s)) + h[s \ {Some(s)}]]
           it == CHOOSE h : h = Rec(h)
<1>1. IsFiniteSet(Index) /\ \A i \in Index : Counted[i] \in Nat
  BY CountedFacts
<1>2. PICK g \in [SUBSET Index -> Nat] :
        SumOf(Index, Counted, g) /\ SumFunctionOnSet(Counted, Index) = g[Index]
  BY <1>1, SumIs
<1>3. \A s \in SUBSET Index : s # {} => Some(s) \in Index /\ Counted[Some(s)] = CountedBytes(Some(s))
  BY SomeIsIn DEF Counted
<1>4. g = Rec(g)
  <2>1. g = [s \in SUBSET Index |-> g[s]]
    BY <1>2
  <2>2. \A s \in SUBSET Index : g[s] = IF s = {} THEN 0 ELSE CountedBytes(Some(s)) + g[s \ {Some(s)}]
    BY <1>2, <1>3 DEF SumOf
  <2> QED
    BY <2>1, <2>2
<1>5. it = Rec(it)
  BY <1>4
<1>6. ImportBytes = it[Index]
  BY DEF ImportBytes, MapThenSumSet, MapThenFoldSet, Some
<1> HIDE DEF it
<1>7. SumOf(Index, Counted, it)
  BY <1>3, <1>5 DEF SumOf
<1>8. it[Index] = g[Index]
  BY <1>1, <1>2, <1>7, SumAgree
<1> QED
  BY <1>2, <1>6, <1>8

\* A worker that keeps its file, and does not begin to hold it.
LEMMA HeldKept ==
  ASSUME ClaimInv, NEW w \in Workers, UNCHANGED <<nextIndex, sent>>,
         worker'[w].idx = worker[w].idx, Holding(w)' => Holding(w),
         \A v \in Workers \ {w} : worker'[v] = worker[v]
  PROVE  HeldOnce'
<1>1. ASSUME NEW v \in Workers PROVE worker'[v].idx = worker[v].idx /\ (Holding(v)' => Holding(v))
  BY DEF Holding
<1> QED
  BY <1>1 DEF ClaimInv, HeldOnce

LEMMA ClaimsKept ==
  ASSUME ClaimInv, NEW w \in Workers, UNCHANGED <<sampled, sent, totalBytes>>,
         worker'[w].idx = worker[w].idx, Is(w, "send")' <=> Is(w, "send"),
         \A v \in Workers \ {w} : worker'[v] = worker[v]
  PROVE  TotalIsClaimed' /\ Counted' = Counted
<1>1. Counted' = Counted
  BY DEF Counted, CountedBytes
<1>2. \A v \in Workers : worker'[v].idx = worker[v].idx /\ (Is(v, "send")' <=> Is(v, "send"))
  BY DEF Is
<1>3. Claimed' = Claimed
  BY <1>2 DEF Claimed
<1> QED
  BY <1>1, <1>3 DEF ClaimInv, TotalIsClaimed

\* Another error, or none, says nothing of the ceiling.
LEMMA RefusedKept ==
  ASSUME ClaimInv, NEW w \in Workers, UNCHANGED verdict, Counted' = Counted,
         worker'[w].error = worker[w].error \/ worker'[w].error # "import_too_large",
         errorSlot' = errorSlot \/ errorSlot' = worker[w].error,
         \A v \in Workers \ {w} : worker'[v] = worker[v]
  PROVE  RefusedRightly'
<1>1. \A v \in Workers : worker'[v].error = "import_too_large" => worker[v].error = "import_too_large"
  OBVIOUS
<1> QED
  BY <1>1 DEF ClaimInv, RefusedRightly

LEMMA ClaimInitInv == PoolInit => ClaimInv
<1> SUFFICES ASSUME PoolInit PROVE ClaimInv
  OBVIOUS
<1>1. PoolInv
  BY PoolInitInv
<1>2. HeldOnce
  BY DEF PoolInit, HeldOnce, Holding
<1>3. Claimed = {}
  BY DEF PoolInit, Claimed, Is
<1>4. TotalIsClaimed
  BY <1>3, SumOfNothing DEF PoolInit, TotalIsClaimed
<1>5. RefusedRightly /\ OkIsComplete
  BY DEF PoolInit, RefusedRightly, OkIsComplete, Nothing
<1> QED
  BY <1>1, <1>2, <1>4, <1>5 DEF ClaimInv

\* The claim of one file: it was not claimed before, and what its bytes make
\* of the total, or of the ceiling.
LEMMA ProcessClaims ==
  ASSUME ClaimInv, NEW w \in Workers, ProcessFile(w)
  PROVE  HeldOnce' /\ TotalIsClaimed' /\ RefusedRightly'
<1> DEFINE i == worker[w].idx
           outcome == sampled[i]
<1>1. /\ PoolTypeOK /\ Is(w, "process") /\ i \in Index /\ i \notin Claimed
      /\ UNCHANGED <<sampled, nextIndex, errorFlag, errorSlot, sent, expired, verdict>>
  <2>1. PoolTypeOK /\ Is(w, "process") /\ i \in Index /\ Holding(w)
    BY DEF ClaimInv, PoolInv, HeldIsIndex, ProcessFile, Is, Holding
  <2>2. ~sent[i] /\ \A v \in Workers : Is(v, "send") /\ worker[v].idx = i => v = w
    BY <2>1 DEF ClaimInv, HeldOnce, Holding, Is
  <2> QED
    BY <2>1, <2>2 DEF Claimed, Is, ProcessFile
<1>2. outcome \in Outcomes /\ Counted[i] = CountedBytes(i) /\ Counted' = Counted
  BY <1>1 DEF PoolTypeOK, Counted, CountedBytes
<1>3. ASSUME NEW e \in PoolErrors, Aborts(w, e), UNCHANGED totalBytes,
             e = "import_too_large" => SumFunctionOnSet(Counted, Index) > ImportLimit
      PROVE  HeldOnce' /\ TotalIsClaimed' /\ RefusedRightly'
  <2>1. /\ worker'[w].pc = "raise" /\ worker'[w].idx = worker[w].idx /\ worker'[w].error = e
        /\ \A v \in Workers \ {w} : worker'[v] = worker[v]
    BY <1>1, <1>3, AbortEffect
  <2>2. HeldOnce'
    BY <2>1, <1>1, HeldKept DEF Holding
  <2>3. TotalIsClaimed'
    BY <2>1, <1>1, <1>3, ClaimsKept DEF Is
  <2>4. RefusedRightly'
    BY <2>1, <1>1, <1>2, <1>3 DEF ClaimInv, RefusedRightly
  <2> QED
    BY <2>2, <2>3, <2>4
<1>4. ASSUME Move(w, "send"), totalBytes' = totalBytes + Counted[i]
      PROVE  HeldOnce' /\ TotalIsClaimed' /\ RefusedRightly'
  <2>1. /\ worker'[w].pc = "send" /\ worker'[w].idx = i /\ worker'[w].error = worker[w].error
        /\ \A v \in Workers \ {w} : worker'[v] = worker[v]
    BY <1>1, <1>4, MoveEffect DEF WorkerPcs
  <2>2. HeldOnce'
    BY <2>1, <1>1, HeldKept DEF Holding, Is
  <2>3. Claimed' = Claimed \cup {i}
    <3>1. \A v \in Workers, j \in Index : (Is(v, "send")' /\ worker'[v].idx = j)
             <=> (v = w /\ j = i) \/ (Is(v, "send") /\ worker[v].idx = j)
      BY <2>1, <1>1 DEF Is
    <3> QED
      BY <3>1, <1>1 DEF Claimed
  <2>4. Claimed \in SUBSET Index /\ Claimed \cup {i} \in SUBSET Index
    BY <1>1 DEF Claimed
  <2>5. SumFunctionOnSet(Counted, Claimed \cup {i}) = SumFunctionOnSet(Counted, Claimed) + Counted[i]
    BY <2>4, <1>1, CountedFacts, SumWith
  <2>6. TotalIsClaimed'
    BY <2>3, <2>5, <1>2, <1>4 DEF ClaimInv, TotalIsClaimed
  <2>7. RefusedRightly'
    BY <2>1, <1>1, <1>2, RefusedKept
  <2> QED
    BY <2>2, <2>6, <2>7
<1>5. totalBytes \in Nat /\ totalBytes = SumFunctionOnSet(Counted, Claimed)
  BY <1>1 DEF PoolTypeOK, ClaimInv, TotalIsClaimed
<1>6. CASE outcome = Skip /\ Move(w, "send") /\ UNCHANGED totalBytes
  <2>1. Counted[i] = 0
    BY <1>2, <1>6 DEF CountedBytes
  <2>2. totalBytes' = totalBytes + Counted[i]
    BY <2>1, <1>5, <1>6
  <2> QED
    BY <2>2, <1>4, <1>6
<1>7. CASE outcome = Fail /\ Aborts(w, "read") /\ UNCHANGED totalBytes
  BY <1>3, <1>7 DEF PoolErrors
<1>8. CASE outcome \in Bytes /\ totalBytes' = totalBytes + outcome /\ Move(w, "send")
  BY <1>2, <1>4, <1>8 DEF CountedBytes
<1>9. CASE outcome \in Bytes /\ ~ClaimFits(outcome) /\ Aborts(w, "import_too_large") /\ UNCHANGED totalBytes
  <2>1. outcome = Counted[i] /\ outcome \in Nat
    BY <1>2, <1>9 DEF CountedBytes
  <2>2. Claimed \cup {i} \in SUBSET Index /\ Claimed \in SUBSET Index
        /\ Index \ (Claimed \cup {i}) \in SUBSET Index /\ Index \in SUBSET Index
    BY <1>1 DEF Claimed
  <2>3. SumFunctionOnSet(Counted, Claimed \cup {i}) = totalBytes + outcome
    <3>1. IsFiniteSet(Claimed) /\ \A j \in Claimed \cup {i} : Counted[j] \in Nat
      BY <2>2, <1>1, CountedFacts
    <3>2. SumFunctionOnSet(Counted, Claimed \cup {i}) = SumFunctionOnSet(Counted, Claimed) + Counted[i]
      BY <3>1, <1>1, SumWith
    <3> QED
      BY <2>1, <3>2, <1>5
  <2>4. SumFunctionOnSet(Counted, Index)
          = SumFunctionOnSet(Counted, Claimed \cup {i})
              + SumFunctionOnSet(Counted, Index \ (Claimed \cup {i}))
    BY <2>2, <1>1, CountedFacts, SumSplit
  <2>5. SumFunctionOnSet(Counted, Index \ (Claimed \cup {i})) \in Nat
    BY <2>2, <1>1, CountedFacts
  <2>6. ~(totalBytes + outcome <= ImportLimit)
    BY <1>9 DEF ClaimFits
  <2>7. SumFunctionOnSet(Counted, Index) > ImportLimit
    BY <2>1, <2>3, <2>4, <2>5, <2>6, <1>5
  <2> QED
    BY <2>7, <1>3, <1>9 DEF PoolErrors
<1> QED
  BY <1>6, <1>7, <1>8, <1>9 DEF ProcessFile

LEMMA ClaimNextInv == ClaimInv /\ [PoolNext]_poolVars => ClaimInv'
<1> SUFFICES ASSUME ClaimInv, [PoolNext]_poolVars PROVE ClaimInv'
  OBVIOUS
<1>0. PoolInv' /\ PoolTypeOK
  BY PoolNextInv DEF ClaimInv, PoolInv
<1>1. ASSUME NEW w \in Workers, CheckFlag(w) PROVE ClaimInv'
  <2>1. /\ UNCHANGED <<sampled, nextIndex, errorFlag, errorSlot, totalBytes, sent, expired, verdict>>
        /\ Is(w, "check") /\ \E pc \in {"done", "claim"} : Move(w, pc)
    BY <1>1 DEF CheckFlag
  <2>2. /\ worker'[w].pc \in {"done", "claim"} /\ worker'[w].idx = worker[w].idx
        /\ worker'[w].error = worker[w].error /\ \A v \in Workers \ {w} : worker'[v] = worker[v]
    BY <2>1, <1>0, MoveEffect DEF WorkerPcs
  <2>3. HeldOnce'
    BY <2>1, <2>2, HeldKept DEF Holding
  <2>4. TotalIsClaimed' /\ Counted' = Counted
    BY <2>1, <2>2, ClaimsKept DEF Is
  <2>5. RefusedRightly'
    BY <2>1, <2>2, <2>4, RefusedKept
  <2> QED
    BY <1>0, <2>1, <2>3, <2>4, <2>5 DEF ClaimInv, OkIsComplete
<1>2. ASSUME NEW w \in Workers, ClaimIndex(w) PROVE ClaimInv'
  <2>1. /\ UNCHANGED <<sampled, errorFlag, errorSlot, totalBytes, sent, expired, verdict>>
        /\ Is(w, "claim") /\ nextIndex' = nextIndex + 1 /\ nextIndex \in Nat \ {0}
    BY <1>0, <1>2 DEF ClaimIndex, PoolTypeOK
  <2>2. /\ worker'[w].idx = nextIndex /\ worker'[w].error = worker[w].error
        /\ worker'[w].pc \in {"deadline", "done"}
        /\ worker'[w].pc = "deadline" => nextIndex \in Index
        /\ \A v \in Workers \ {w} : worker'[v] = worker[v]
    BY <1>0, <1>2, <2>1 DEF ClaimIndex, PoolTypeOK, Index
  <2>3. HeldOnce'
    <3>1. \A v \in Workers \ {w} : Holding(v)' => Holding(v) /\ worker'[v].idx = worker[v].idx
      BY <2>2 DEF Holding
    <3>2. \A v \in Workers : Holding(v) => worker[v].idx < nextIndex /\ worker[v].idx \in Nat
      BY <1>0 DEF ClaimInv, HeldOnce, PoolTypeOK
    <3>3. nextIndex \in Index => ~sent[nextIndex]
      BY <2>1 DEF ClaimInv, HeldOnce
    <3>4. Holding(w)' => nextIndex \in Index
      BY <2>2 DEF Holding
    <3>5. ASSUME NEW v \in Workers, Holding(v)'
          PROVE  worker'[v].idx < nextIndex' /\ ~sent'[worker'[v].idx]
      <4>1. CASE v = w
        BY <4>1, <2>1, <2>2, <3>3, <3>4, <3>5
      <4>2. CASE v # w
        <5>1. worker'[v].idx = worker[v].idx /\ worker[v].idx < nextIndex /\ worker[v].idx \in Nat
              /\ ~sent[worker[v].idx]
          BY <4>2, <3>1, <3>2, <3>5 DEF ClaimInv, HeldOnce
        <5> QED
          BY <5>1, <2>1
      <4> QED
        BY <4>1, <4>2
    <3>6. ASSUME NEW u \in Workers, NEW v \in Workers, Holding(u)', Holding(v)',
                 worker'[u].idx = worker'[v].idx, u # v
          PROVE  FALSE
      <4>1. CASE u = w
        BY <4>1, <2>1, <2>2, <3>1, <3>2, <3>6
      <4>2. CASE v = w
        BY <4>2, <2>1, <2>2, <3>1, <3>2, <3>6
      <4>3. CASE u # w /\ v # w
        BY <4>3, <3>1, <3>6 DEF ClaimInv, HeldOnce
      <4> QED
        BY <4>1, <4>2, <4>3
    <3>7. \A j \in Index : sent'[j] => j < nextIndex'
      <4>1. \A j \in Index : j \in Nat /\ (sent[j] => j < nextIndex)
        BY DEF ClaimInv, HeldOnce, Index
      <4> QED
        BY <4>1, <2>1
    <3> QED
      BY <3>5, <3>6, <3>7 DEF HeldOnce
  <2>4. TotalIsClaimed' /\ Counted' = Counted
    <3>1. \A v \in Workers, j \in Index :
             (Is(v, "send")' /\ worker'[v].idx = j) <=> (Is(v, "send") /\ worker[v].idx = j)
      BY <2>1, <2>2 DEF Is
    <3>2. Claimed' = Claimed
      BY <3>1, <2>1 DEF Claimed
    <3>3. Counted' = Counted
      BY <2>1 DEF Counted, CountedBytes
    <3> QED
      BY <3>2, <3>3, <2>1 DEF ClaimInv, TotalIsClaimed
  <2>5. RefusedRightly'
    BY <2>1, <2>2, <2>4, RefusedKept
  <2> QED
    BY <1>0, <2>1, <2>3, <2>4, <2>5 DEF ClaimInv, OkIsComplete
<1>3. ASSUME NEW w \in Workers, CheckDeadline(w) PROVE ClaimInv'
  <2>1. /\ UNCHANGED <<sampled, nextIndex, errorFlag, errorSlot, totalBytes, sent, expired, verdict>>
        /\ Is(w, "deadline") /\ (Move(w, "process") \/ Aborts(w, "time_budget"))
    BY <1>3 DEF CheckDeadline
  <2>2. /\ worker'[w].pc \in {"process", "raise"} /\ worker'[w].idx = worker[w].idx
        /\ worker'[w].error = worker[w].error \/ worker'[w].error = "time_budget"
        /\ \A v \in Workers \ {w} : worker'[v] = worker[v]
    BY <2>1, <1>0, MoveEffect, AbortEffect DEF WorkerPcs, PoolErrors
  <2>3. HeldOnce'
    BY <2>1, <2>2, HeldKept DEF Holding, Is
  <2>4. TotalIsClaimed' /\ Counted' = Counted
    BY <2>1, <2>2, ClaimsKept DEF Is
  <2>5. RefusedRightly'
    BY <2>1, <2>2, <2>4, RefusedKept
  <2> QED
    BY <1>0, <2>1, <2>3, <2>4, <2>5 DEF ClaimInv, OkIsComplete
<1>4. ASSUME NEW w \in Workers, ProcessFile(w) PROVE ClaimInv'
  <2>1. HeldOnce' /\ TotalIsClaimed' /\ RefusedRightly'
    BY <1>4, ProcessClaims
  <2>2. UNCHANGED <<sent, verdict>>
    BY <1>4 DEF ProcessFile
  <2> QED
    BY <1>0, <2>1, <2>2 DEF ClaimInv, OkIsComplete
<1>5. ASSUME NEW w \in Workers, SendOutcome(w) PROVE ClaimInv'
  <2> DEFINE i == worker[w].idx
  <2>1. /\ UNCHANGED <<sampled, nextIndex, errorFlag, errorSlot, totalBytes, expired, verdict>>
        /\ Is(w, "send") /\ Move(w, "check") /\ sent' = [sent EXCEPT ![i] = TRUE]
    BY <1>5 DEF SendOutcome
  <2>2. /\ worker'[w].pc = "check" /\ worker'[w].idx = worker[w].idx
        /\ worker'[w].error = worker[w].error /\ \A v \in Workers \ {w} : worker'[v] = worker[v]
    BY <2>1, <1>0, MoveEffect DEF WorkerPcs
  <2>3. i \in Index /\ i < nextIndex /\ Holding(w)
    BY <2>1 DEF ClaimInv, PoolInv, HeldIsIndex, HeldOnce, Holding, Is
  <2>4. sent'[i] /\ \A j \in Index : j # i => sent'[j] = sent[j]
    BY <2>1, <2>3, <1>0 DEF PoolTypeOK
  <2>5. HeldOnce'
    <3>1. \A v \in Workers : Holding(v)' => v # w /\ Holding(v) /\ worker'[v].idx = worker[v].idx
      BY <2>2 DEF Holding
    <3>2. \A v \in Workers : Holding(v)' => worker[v].idx # i /\ worker[v].idx \in Index
      BY <3>1, <2>3 DEF ClaimInv, HeldOnce, PoolInv, HeldIsIndex, Holding
    <3> QED
      BY <3>1, <3>2, <2>1, <2>3, <2>4 DEF ClaimInv, HeldOnce
  <2>6. Claimed' = Claimed
    <3>1. \A v \in Workers, j \in Index :
             (Is(v, "send") /\ worker[v].idx = j) <=> (v = w /\ j = i) \/ (Is(v, "send")' /\ worker'[v].idx = j)
      BY <2>1, <2>2, <2>3 DEF Is
    <3>2. \A j \in Index : sent'[j] <=> j = i \/ sent[j]
      BY <2>4
    <3> QED
      BY <3>1, <3>2, <2>3 DEF Claimed
  <2>7. TotalIsClaimed' /\ Counted' = Counted
    BY <2>1, <2>6 DEF ClaimInv, TotalIsClaimed, Counted, CountedBytes
  <2>8. RefusedRightly'
    BY <2>1, <2>2, <2>7, RefusedKept
  <2>9. OkIsComplete'
    BY <2>1, <2>4 DEF ClaimInv, OkIsComplete
  <2> QED
    BY <1>0, <2>5, <2>7, <2>8, <2>9 DEF ClaimInv
<1>6. ASSUME NEW w \in Workers, RaiseFlag(w) \/ RecordError(w) PROVE ClaimInv'
  <2>1. /\ UNCHANGED <<sampled, nextIndex, totalBytes, sent, expired, verdict>>
        /\ worker[w].pc \in {"raise", "record"} /\ \E pc \in {"record", "done"} : Move(w, pc)
        /\ errorSlot' = errorSlot \/ errorSlot' = worker[w].error
    BY <1>6 DEF RaiseFlag, RecordError, Is
  <2>2. /\ worker'[w].pc \in {"record", "done"} /\ worker'[w].idx = worker[w].idx
        /\ worker'[w].error = worker[w].error /\ \A v \in Workers \ {w} : worker'[v] = worker[v]
    BY <2>1, <1>0, MoveEffect DEF WorkerPcs
  <2>3. HeldOnce'
    BY <2>1, <2>2, HeldKept DEF Holding
  <2>4. TotalIsClaimed' /\ Counted' = Counted
    BY <2>1, <2>2, ClaimsKept DEF Is
  <2>5. RefusedRightly'
    BY <2>1, <2>2, <2>4, RefusedKept
  <2> QED
    BY <1>0, <2>1, <2>3, <2>4, <2>5 DEF ClaimInv, OkIsComplete
<1>7. CASE Collect
  <2>1. UNCHANGED <<sampled, nextIndex, errorFlag, errorSlot, totalBytes, sent, worker, expired>>
    BY <1>7 DEF Collect
  <2>2. verdict' = "import_too_large" => errorSlot = "import_too_large"
    BY <1>7 DEF Collect
  <2>3. verdict' = "ok" => \A i \in Index : sent[i]
    BY <1>7, <1>0 DEF Collect, PoolTypeOK, ErrorOrNone, PoolErrors, Nothing
  <2>4. HeldOnce'
    BY <2>1 DEF ClaimInv, HeldOnce, Holding
  <2>5. TotalIsClaimed' /\ Counted' = Counted
    BY <2>1 DEF ClaimInv, TotalIsClaimed, Counted, CountedBytes, Claimed, Is
  <2>6. RefusedRightly'
    BY <2>1, <2>2, <2>5 DEF ClaimInv, RefusedRightly
  <2>7. OkIsComplete'
    BY <2>1, <2>3 DEF OkIsComplete
  <2> QED
    BY <1>0, <2>4, <2>5, <2>6, <2>7 DEF ClaimInv
<1>8. CASE DeadlinePasses \/ UNCHANGED poolVars
  <2>1. UNCHANGED <<sampled, nextIndex, errorFlag, errorSlot, totalBytes, sent, worker, verdict>>
    BY <1>8 DEF DeadlinePasses, poolVars
  <2> QED
    BY <1>0, <2>1 DEF ClaimInv, HeldOnce, Holding, TotalIsClaimed, Counted, CountedBytes, Claimed, Is,
       RefusedRightly, OkIsComplete
<1> QED
  BY <1>1, <1>2, <1>3, <1>4, <1>5, <1>6, <1>7, <1>8 DEF PoolNext

\* What a pass says of the import ceiling does not depend on the order the
\* workers claimed their bytes in (claim_bytes), for any pool and any files.
THEOREM VerdictHolds == PoolSpec => []ImportVerdict
<1>1. ClaimInv => ImportVerdict
  <2> SUFFICES ASSUME ClaimInv PROVE ImportVerdict
    OBVIOUS
  <2>1. PoolTypeOK /\ NoOutcomeLost /\ CeilingKept
    BY DEF ClaimInv, PoolInv
  <2>2. ImportBytes = SumFunctionOnSet(Counted, Index)
    BY <2>1, ImportBytesIs
  <2>3. verdict = "ok" => Claimed = Index
    BY DEF ClaimInv, OkIsComplete, Claimed
  <2>4. verdict = "ok" => totalBytes = ImportBytes
    BY <2>2, <2>3 DEF ClaimInv, TotalIsClaimed
  <2>5. verdict = "ok" => ImportBytes <= ImportLimit
    BY <2>1, <2>4 DEF CeilingKept
  <2> QED
    BY <2>1, <2>2, <2>4, <2>5 DEF ClaimInv, RefusedRightly, ImportVerdict
<1>2. ClaimInv /\ [PoolNext]_poolVars => ClaimInv'
  BY ClaimNextInv
<1> QED
  BY <1>1, <1>2, ClaimInitInv, PTL DEF PoolSpec

-----------------------------------------------------------------------------
(* The mechanics' cache: what is kept of a sequence.                        *)

AmongSteps(s, S, run) ==
  /\ run[0] = <<>>
  /\ \A k \in 1..Len(s) : run[k] = IF s[k] \in S THEN Append(run[k - 1], s[k]) ELSE run[k - 1]

LEMMA AmongRuns ==
  ASSUME NEW X, NEW s \in Seq(X), NEW S
  PROVE  \E run \in [0..Len(s) -> Seq(X)] : AmongSteps(s, S, run) /\ Among(s, S) = run[Len(s)]
<1> DEFINE n == Len(s)
           step == [i \in 1..n |-> [v \in Seq(X) |-> IF s[i] \in S THEN Append(v, s[i]) ELSE v]]
           Rec(h) == [d \in SUBSET (1..n) |->
                        IF d = {} THEN <<>>
                        ELSE IF s[Max(d)] \in S THEN Append(h[d \ {Max(d)}], s[Max(d)]) ELSE h[d \ {Max(d)}]]
<1>1. n \in Nat /\ DOMAIN s = 1..n /\ \A i \in 1..n : s[i] \in X
  BY LenProperties, ElementOfSeq
<1>2. <<>> \in Seq(X)
  BY EmptySeq
<1>3. \A i \in 1..n, v \in Seq(X) :
        /\ step[i][v] = (IF s[i] \in S THEN Append(v, s[i]) ELSE v)
        /\ step[i][v] \in Seq(X)
  BY <1>1, AppendProperties
<1>4. PICK g \in [SUBSET (1..n) -> Seq(X)] : FoldOf(1..n, <<>>, LastIn(n), step, g)
  <2> HIDE DEF n, step
  <2> QED
    BY <1>1, <1>2, <1>3, SequenceFoldExists
<1>5. ASSUME NEW d \in SUBSET (1..n)
      PROVE  g[d] = IF d = {} THEN <<>>
                    ELSE IF s[Max(d)] \in S THEN Append(g[d \ {Max(d)}], s[Max(d)]) ELSE g[d \ {Max(d)}]
  <2>1. g[d] = IF d = {} THEN <<>> ELSE step[LastIn(n)[d]][g[d \ {LastIn(n)[d]}]]
    BY <1>4 DEF FoldOf
  <2>2. CASE d # {}
    <3>1. LastIn(n)[d] = Max(d) /\ Max(d) \in d /\ d \ {Max(d)} \in SUBSET (1..n)
      BY <1>1, <2>2, MaxIsIn DEF LastIn
    <3>2. Max(d) \in 1..n /\ g[d \ {Max(d)}] \in Seq(X)
      BY <1>4, <3>1
    <3> HIDE DEF step
    <3> QED
      BY <1>3, <2>1, <2>2, <3>1, <3>2
  <2> QED
    BY <2>1, <2>2
<1>6. g = Rec(g)
  <2>1. g = [d \in SUBSET (1..n) |-> g[d]]
    BY <1>4
  <2> QED
    BY <2>1, <1>5
<1>7. PICK h : h = Rec(h) /\ Among(s, S) = h[1..n]
  <2> DEFINE it == CHOOSE h : h = Rec(h)
  <2>1. Among(s, S) = it[1..n]
    BY <1>1 DEF Among, FoldLeft, MapThenFoldSet
  <2>2. it = Rec(it)
    BY <1>6
  <2> QED
    BY <2>1, <2>2
<1>8. h[{}] = <<>>
  <2>1. {} \in SUBSET (1..n)
    OBVIOUS
  <2> QED
    BY <1>7, <2>1
<1>9. ASSUME NEW d \in SUBSET (1..n), d # {}, h[d \ {Max(d)}] \in Seq(X)
      PROVE  h[d] = step[Max(d)][h[d \ {Max(d)}]]
  <2>1. Max(d) \in 1..n
    BY <1>1, <1>9, MaxIsIn
  <2>2. h[d] = IF s[Max(d)] \in S THEN Append(h[d \ {Max(d)}], s[Max(d)]) ELSE h[d \ {Max(d)}]
    BY <1>7, <1>9
  <2> HIDE DEF step
  <2> QED
    BY <1>3, <1>9, <2>1, <2>2
<1>10. PICK run \in [0..n -> Seq(X)] :
         /\ run[0] = <<>> /\ run[n] = h[1..n]
         /\ \A k \in 1..n : run[k] = step[k][run[k - 1]]
  <2>1. /\ n \in Nat /\ <<>> \in Seq(X) /\ \A i \in 1..n, v \in Seq(X) : step[i][v] \in Seq(X)
        /\ \A d \in SUBSET (1..n) : d # {} /\ h[d \ {Max(d)}] \in Seq(X) =>
             h[d] = step[Max(d)][h[d \ {Max(d)}]]
    BY <1>1, <1>2, <1>3, <1>9
  <2>2. FoldsBy(n, Seq(X), <<>>, step, h)
    BY <1>8, <2>1 DEF FoldsBy
  <2> HIDE DEF n, step
  <2> QED
    BY <2>2, FoldSteps
<1>11. AmongSteps(s, S, run)
  <2>1. ASSUME NEW k \in 1..n
        PROVE  run[k] = IF s[k] \in S THEN Append(run[k - 1], s[k]) ELSE run[k - 1]
    <3>1. run[k - 1] \in Seq(X)
      <4> HIDE DEF n, step
      <4>1. k - 1 \in 0..n
        BY <1>1
      <4> QED
        BY <1>10, <4>1
    <3> HIDE DEF step
    <3> QED
      BY <1>3, <1>10, <3>1
  <2> QED
    BY <1>10, <2>1 DEF AmongSteps
<1> QED
  BY <1>7, <1>10, <1>11

\* The places in s of what is kept of it.
PlacesOf(s, S, kept, k, place) ==
  /\ place \in [1..Len(kept) -> 1..k]
  /\ \A i \in 1..Len(kept) : kept[i] = s[place[i]] /\ s[place[i]] \in S
  /\ \A i, j \in 1..Len(kept) : place[i] = place[j] => i = j
  /\ \A p \in 1..k : s[p] \in S => \E i \in 1..Len(kept) : place[i] = p

LEMMA AmongPlaces ==
  ASSUME NEW X, NEW s \in Seq(X), NEW S
  PROVE  /\ Among(s, S) \in Seq(X)
         /\ \E place : PlacesOf(s, S, Among(s, S), Len(s), place)
<1> DEFINE n == Len(s)
<1>1. n \in Nat /\ \A i \in 1..n : s[i] \in X
  BY LenProperties, ElementOfSeq
<1>2. PICK run \in [0..n -> Seq(X)] : AmongSteps(s, S, run) /\ Among(s, S) = run[n]
  BY AmongRuns
<1> DEFINE T == {k \in 0..n : \E place : PlacesOf(s, S, run[k], k, place)}
<1>3. 0 \in T
  <2>1. run[0] = <<>> /\ Len(<<>>) = 0
    BY <1>2 DEF AmongSteps
  <2>2. PlacesOf(s, S, <<>>, 0, <<>>)
    <3>1. 1..0 = {} /\ Len(<<>>) = 0
      OBVIOUS
    <3>2. <<>> \in [{} -> {}]
      OBVIOUS
    <3> QED
      BY <3>1, <3>2 DEF PlacesOf
  <2> QED
    BY <1>1, <2>1, <2>2
<1>4. ASSUME NEW k \in 1..n, k - 1 \in T PROVE k \in T
  <2> DEFINE was == run[k - 1]
             m == Len(was)
             is == run[k]
  <2>1. PICK place : PlacesOf(s, S, was, k - 1, place)
    BY <1>4
  <2>2. was \in Seq(X) /\ m \in Nat /\ s[k] \in X /\ k \in Nat /\ k - 1 \in Nat
    BY <1>1, <1>2, LenProperties
  <2>3. is = IF s[k] \in S THEN Append(was, s[k]) ELSE was
    BY <1>2 DEF AmongSteps
  <2> HIDE DEF was, is, m, T, n
  <2>4. CASE s[k] \notin S
    <3>1. is = was
      BY <2>3, <2>4
    <3>2. /\ place \in [1..m -> 1 .. (k - 1)]
          /\ \A i \in 1..m : was[i] = s[place[i]] /\ s[place[i]] \in S
          /\ \A i, j \in 1..m : place[i] = place[j] => i = j
          /\ \A p \in 1 .. (k - 1) : s[p] \in S => \E i \in 1..m : place[i] = p
      BY <2>1 DEF PlacesOf, m
    <3>3. place \in [1..m -> 1..k]
      BY <2>2, <3>2
    <3>4. ASSUME NEW p \in 1..k, s[p] \in S PROVE \E i \in 1..m : place[i] = p
      <4>1. p \in 1 .. (k - 1)
        BY <2>2, <2>4, <3>4
      <4> QED
        BY <3>2, <3>4, <4>1
    <3>5. PlacesOf(s, S, is, k, place)
      BY <3>1, <3>2, <3>3, <3>4 DEF PlacesOf, m
    <3> QED
      BY <3>5 DEF T, is
  <2>5. CASE s[k] \in S
    <3> DEFINE more == [i \in 1 .. (m + 1) |-> IF i = m + 1 THEN k ELSE place[i]]
    <3>1. /\ Len(is) = m + 1 /\ is[m + 1] = s[k]
          /\ \A i \in 1..m : is[i] = was[i]
      BY <2>2, <2>3, <2>5, AppendProperties DEF m
    <3>2. /\ place \in [1..m -> 1 .. (k - 1)]
          /\ \A i \in 1..m : was[i] = s[place[i]] /\ s[place[i]] \in S
          /\ \A i, j \in 1..m : place[i] = place[j] => i = j
          /\ \A p \in 1 .. (k - 1) : s[p] \in S => \E i \in 1..m : place[i] = p
      BY <2>1 DEF PlacesOf, m
    <3>3. /\ more[m + 1] = k
          /\ \A i \in 1..m : more[i] = place[i] /\ place[i] \in 1 .. (k - 1)
      BY <2>2, <3>2
    <3>4. more \in [1 .. (m + 1) -> 1..k]
      BY <2>2, <3>2
    <3> HIDE DEF more
    <3>5. \A i \in 1 .. (m + 1) : is[i] = s[more[i]] /\ s[more[i]] \in S
      BY <2>2, <2>5, <3>1, <3>2, <3>3
    <3>6. \A i, j \in 1 .. (m + 1) : more[i] = more[j] => i = j
      BY <2>2, <3>2, <3>3
    <3>7. ASSUME NEW p \in 1..k, s[p] \in S PROVE \E i \in 1 .. (m + 1) : more[i] = p
      <4>1. CASE p = k
        BY <2>2, <3>3, <4>1
      <4>2. CASE p # k
        <5>1. p \in 1 .. (k - 1)
          BY <2>2, <4>2
        <5>2. PICK i \in 1..m : place[i] = p
          BY <3>2, <3>7, <5>1
        <5>3. i \in 1 .. (m + 1) /\ more[i] = p
          BY <2>2, <3>3, <5>2
        <5> QED
          BY <5>3
      <4> QED
        BY <4>1, <4>2
    <3>8. PlacesOf(s, S, is, k, more)
      BY <3>1, <3>4, <3>5, <3>6, <3>7 DEF PlacesOf
    <3> QED
      BY <3>8 DEF T, is
  <2> QED
    BY <2>4, <2>5
<1>5. n \in T
  <2> HIDE DEF T, n
  <2>1. n \in 0..n
    BY <1>1
  <2> QED
    BY <1>1, <1>3, <1>4, <2>1, UpTo
<1> QED
  BY <1>1, <1>2, <1>5

-----------------------------------------------------------------------------
\* What the cache is charged.
BytesIn(entries) == [i \in DOMAIN entries |-> ScanBytes(entries[i].rows)]

LEMMA ScanIsCharged ==
  ASSUME NEW s \in Seq(CachedScans), NEW i \in 1..Len(s)
  PROVE  BytesIn(s)[i] = ScanBytes(s[i].rows) /\ BytesIn(s)[i] \in Nat
<1>1. DOMAIN s = 1..Len(s) /\ s[i] \in CachedScans
  BY LenProperties, ElementOfSeq
<1>2. s[i].rows.query \in Queries /\ s[i].rows.files \in Nat
  BY <1>1 DEF CachedScans, ScanRows
<1>3. RowCost[s[i].rows.query] \in Nat /\ EntryCost \in Nat
  BY <1>2, MechanicsAssumption
<1>4. s[i].rows.files * RowCost[s[i].rows.query] \in Nat
  BY <1>2, <1>3
<1> QED
  BY <1>1, <1>3, <1>4 DEF BytesIn, ScanBytes

LEMMA ChargedIs ==
  ASSUME NEW s \in Seq(CachedScans)
  PROVE  Charged(s) = SumFunctionOnSet(BytesIn(s), 1..Len(s)) /\ Charged(s) \in Nat
<1>1. DOMAIN s = 1..Len(s) /\ Len(s) \in Nat /\ IsFiniteSet(1..Len(s))
  BY LenProperties, FS_Interval
<1>2. Charged(s) = SumFunctionOnSet(BytesIn(s), 1..Len(s))
  BY <1>1 DEF Charged, BytesIn
<1>3. SumFunctionOnSet(BytesIn(s), 1..Len(s)) \in Nat
  BY <1>1, ScanIsCharged, SumIsNat
<1> QED
  BY <1>2, <1>3

LEMMA NothingCharged == Charged(<<>>) = 0
<1>1. DOMAIN <<>> = {}
  OBVIOUS
<1> QED
  BY <1>1, SumOfNothing DEF Charged

LEMMA ChargedMore ==
  ASSUME NEW s \in Seq(CachedScans), NEW e \in CachedScans
  PROVE  /\ Append(s, e) \in Seq(CachedScans)
         /\ Charged(Append(s, e)) = Charged(s) + ScanBytes(e.rows)
<1> DEFINE t == Append(s, e)
           n == Len(s)
           fun == BytesIn(t)
<1>1. /\ t \in Seq(CachedScans) /\ n \in Nat /\ Len(t) = n + 1
      /\ \A i \in 1..n : t[i] = s[i]
      /\ t[n + 1] = e
  BY AppendProperties, LenProperties
<1>2. \A i \in 1 .. (n + 1) : fun[i] \in Nat /\ fun[i] = ScanBytes(t[i].rows)
  BY <1>1, ScanIsCharged
<1>3. \A i \in 1..n : BytesIn(s)[i] \in Nat /\ BytesIn(s)[i] = ScanBytes(s[i].rows)
  BY ScanIsCharged
<1>4. Charged(t) = SumFunctionOnSet(fun, 1 .. (n + 1)) /\ Charged(s) = SumFunctionOnSet(BytesIn(s), 1..n)
  <2>1. Charged(t) = SumFunctionOnSet(fun, 1..Len(t)) /\ Charged(s) = SumFunctionOnSet(BytesIn(s), 1..n)
    BY <1>1, ChargedIs
  <2> QED
    BY <1>1, <2>1
<1> HIDE DEF t, n, fun
<1>5. SumFunctionOnSet(fun, 1 .. (n + 1)) = SumFunctionOnSet(fun, 1..n) + fun[n + 1]
  BY <1>1, <1>2, SumToNext
<1>6. SumFunctionOnSet(BytesIn(s), 1..n) = SumFunctionOnSet(fun, 1..n)
  <2>1. IsFiniteSet(1..n)
    BY <1>1, UpToFinite
  <2>2. ASSUME NEW i \in 1..n PROVE BytesIn(s)[i] \in Nat /\ BytesIn(s)[i] = fun[i]
    <3>1. i \in 1 .. (n + 1) /\ t[i] = s[i]
      BY <1>1
    <3> QED
      BY <1>2, <1>3, <3>1
  <2> QED
    BY <2>1, <2>2, SumSame
<1>7. fun[n + 1] = ScanBytes(e.rows)
  BY <1>1, <1>2
<1>8. t \in Seq(CachedScans) /\ Charged(t) = Charged(s) + ScanBytes(e.rows)
  BY <1>1, <1>4, <1>5, <1>6, <1>7
<1> QED
  BY <1>8 DEF t

\* What is kept of the cache is charged no more than all of it.
LEMMA ChargedLess ==
  ASSUME NEW s \in Seq(CachedScans), NEW S
  PROVE  Charged(Among(s, S)) <= Charged(s)
<1> DEFINE n == Len(s)
           fun == BytesIn(s)
           Upto(k) == SumFunctionOnSet(fun, 1..k)
<1>1. n \in Nat /\ \A i \in 1..n : s[i] \in CachedScans
  BY LenProperties, ElementOfSeq
<1>2. PICK run \in [0..n -> Seq(CachedScans)] : AmongSteps(s, S, run) /\ Among(s, S) = run[n]
  BY AmongRuns
<1>3. \A i \in 1..n : fun[i] \in Nat /\ fun[i] = ScanBytes(s[i].rows)
  BY ScanIsCharged
<1> DEFINE T == {k \in 0..n : Charged(run[k]) <= Upto(k)}
<1> HIDE DEF n, fun
<1>4. \A k \in 0..n : Upto(k) \in Nat
  <2> TAKE k \in 0..n
  <2>1. k \in Nat /\ \A i \in 1..k : fun[i] \in Nat
    BY <1>1, <1>3
  <2>2. IsFiniteSet(1..k)
    BY <2>1, FS_Interval
  <2> QED
    BY <2>1, <2>2, SumIsNat
<1>5. 0 \in T
  <2>1. run[0] = <<>> /\ 0 \in 0..n
    BY <1>1, <1>2 DEF AmongSteps
  <2>2. Upto(0) \in Nat
    BY <1>4, <2>1
  <2> QED
    BY <2>1, <2>2, NothingCharged
<1>6. ASSUME NEW k \in 1..n, k - 1 \in T PROVE k \in T
  <2> DEFINE m == k - 1
             was == run[m]
  <2>1. /\ m \in Nat /\ k = m + 1 /\ k \in 0..n /\ m \in 0..n /\ was \in Seq(CachedScans)
        /\ s[k] \in CachedScans /\ fun[k] = ScanBytes(s[k].rows) /\ fun[k] \in Nat
        /\ \A i \in 1 .. (m + 1) : fun[i] \in Nat
    BY <1>1, <1>2, <1>3
  <2>2. Charged(was) <= Upto(m) /\ Upto(m) \in Nat /\ Charged(was) \in Nat
    BY <1>4, <1>6, <2>1, ChargedIs
  <2>3. run[k] = IF s[k] \in S THEN Append(was, s[k]) ELSE was
    BY <1>2 DEF AmongSteps, n
  <2>4. Upto(k) = Upto(m) + fun[k]
    <3> HIDE DEF m
    <3>1. SumFunctionOnSet(fun, 1 .. (m + 1)) = SumFunctionOnSet(fun, 1..m) + fun[m + 1]
      BY <2>1, SumToNext
    <3> QED
      BY <2>1, <3>1
  <2> HIDE DEF Upto, m, was
  <2>5. Charged(run[k]) = Charged(was) \/ Charged(run[k]) = Charged(was) + fun[k]
    BY <2>1, <2>3, ChargedMore
  <2>6. Charged(run[k]) <= Upto(k)
    BY <2>1, <2>2, <2>4, <2>5
  <2> QED
    BY <2>1, <2>6
<1>7. n \in T
  <2> HIDE DEF T
  <2>1. n \in 0..n
    BY <1>1
  <2> QED
    BY <1>1, <1>5, <1>6, <2>1, UpTo
<1>8. Charged(s) = Upto(n)
  BY ChargedIs DEF n, fun
<1> QED
  BY <1>2, <1>7, <1>8

\* Kept in two parts, the cache is charged for both.
LEMMA ChargedInParts ==
  ASSUME NEW s \in Seq(CachedScans), NEW S, NEW R,
         \A i \in 1..Len(s) : (s[i] \in S) <=> ~(s[i] \in R)
  PROVE  Charged(s) = Charged(Among(s, S)) + Charged(Among(s, R))
<1> DEFINE n == Len(s)
           fun == BytesIn(s)
           Upto(k) == SumFunctionOnSet(fun, 1..k)
<1>1. /\ n \in Nat /\ \A i \in 1..n : s[i] \in CachedScans
      /\ \A i \in 1..n : (s[i] \in S) <=> ~(s[i] \in R)
  BY LenProperties, ElementOfSeq
<1>2. PICK run \in [0..n -> Seq(CachedScans)] : AmongSteps(s, S, run) /\ Among(s, S) = run[n]
  BY AmongRuns
<1>3. PICK other \in [0..n -> Seq(CachedScans)] : AmongSteps(s, R, other) /\ Among(s, R) = other[n]
  BY AmongRuns
<1>4. \A i \in 1..n : fun[i] \in Nat /\ fun[i] = ScanBytes(s[i].rows)
  BY ScanIsCharged
<1>5. /\ run[0] = <<>> /\ other[0] = <<>>
      /\ \A k \in 1..n : /\ run[k] = IF s[k] \in S THEN Append(run[k - 1], s[k]) ELSE run[k - 1]
                         /\ other[k] = IF s[k] \in R THEN Append(other[k - 1], s[k]) ELSE other[k - 1]
  BY <1>2, <1>3 DEF AmongSteps
<1> DEFINE T == {k \in 0..n : Upto(k) = Charged(run[k]) + Charged(other[k])}
<1> HIDE DEF n, fun
<1>6. 0 \in T
  <2>1. 1..0 = {} /\ 0 \in 0..n
    BY <1>1
  <2>2. Upto(0) = 0
    BY <2>1, SumOfNothing
  <2> QED
    BY <1>5, <2>1, <2>2, NothingCharged
<1>7. ASSUME NEW k \in 1..n, k - 1 \in T PROVE k \in T
  <2> DEFINE m == k - 1
             left == run[m]
             right == other[m]
  <2>1. /\ m \in Nat /\ k = m + 1 /\ k \in 0..n /\ m \in 0..n
        /\ left \in Seq(CachedScans) /\ right \in Seq(CachedScans)
        /\ s[k] \in CachedScans /\ fun[k] = ScanBytes(s[k].rows) /\ fun[k] \in Nat
        /\ \A i \in 1 .. (m + 1) : fun[i] \in Nat
    BY <1>1, <1>2, <1>3, <1>4
  <2>2. Upto(m) = Charged(left) + Charged(right) /\ Charged(left) \in Nat /\ Charged(right) \in Nat
    BY <1>7, <2>1, ChargedIs
  <2>3. /\ run[k] = IF s[k] \in S THEN Append(left, s[k]) ELSE left
        /\ other[k] = IF s[k] \in R THEN Append(right, s[k]) ELSE right
    BY <1>5
  <2>4. Upto(k) = Upto(m) + fun[k]
    <3> HIDE DEF m
    <3>1. SumFunctionOnSet(fun, 1 .. (m + 1)) = SumFunctionOnSet(fun, 1..m) + fun[m + 1]
      BY <2>1, SumToNext
    <3> QED
      BY <2>1, <3>1
  <2> HIDE DEF Upto, m, left, right
  <2>5. CASE s[k] \in S
    <3>1. Charged(run[k]) = Charged(left) + fun[k] /\ other[k] = right
      BY <1>1, <2>1, <2>3, <2>5, ChargedMore
    <3> QED
      BY <2>1, <2>2, <2>4, <3>1
  <2>6. CASE s[k] \notin S
    <3>1. Charged(other[k]) = Charged(right) + fun[k] /\ run[k] = left
      BY <1>1, <2>1, <2>3, <2>6, ChargedMore
    <3> QED
      BY <2>1, <2>2, <2>4, <3>1
  <2> QED
    BY <2>5, <2>6
<1>8. n \in T
  <2> HIDE DEF T
  <2>1. n \in 0..n
    BY <1>1
  <2> QED
    BY <1>1, <1>6, <1>7, <2>1, UpTo
<1>9. Charged(s) = Upto(n)
  BY ChargedIs DEF n, fun
<1> QED
  BY <1>2, <1>3, <1>8, <1>9

\* Cut in two, likewise.
LEMMA ChargedFront ==
  ASSUME NEW s \in Seq(CachedScans), NEW k \in 0..Len(s)
  PROVE  /\ SubSeq(s, 1, k) \in Seq(CachedScans) /\ SubSeq(s, k + 1, Len(s)) \in Seq(CachedScans)
         /\ Charged(s) = Charged(SubSeq(s, 1, k)) + Charged(SubSeq(s, k + 1, Len(s)))
<1> DEFINE n == Len(s)
           Fore(m) == SubSeq(s, 1, m)
           Aft(m) == SubSeq(s, k + 1, m)
           T == {m \in 0..n : m >= k => Charged(Fore(m)) = Charged(Fore(k)) + Charged(Aft(m))}
<1>1. n \in Nat /\ k \in 0..n /\ \A i \in 1..n : s[i] \in CachedScans
  BY LenProperties, ElementOfSeq
<1>2. \A m \in 0..n : Fore(m) \in Seq(CachedScans) /\ Aft(m) \in Seq(CachedScans)
  <2> TAKE m \in 0..n
  <2>1. m \in Int /\ k + 1 \in Int /\ (\A i \in 1..m : s[i] \in CachedScans)
        /\ (\A i \in (k + 1) .. m : s[i] \in CachedScans)
    BY <1>1
  <2>2. Fore(m) \in Seq(CachedScans)
    BY <2>1, SubSeqProperties
  <2>3. Aft(m) \in Seq(CachedScans)
    <3> DEFINE lo == k + 1
    <3>1. lo \in Int /\ \A i \in lo..m : s[i] \in CachedScans
      BY <2>1
    <3> HIDE DEF lo
    <3>2. SubSeq(s, lo, m) \in Seq(CachedScans)
      BY <2>1, <3>1, SubSeqProperties
    <3> QED
      BY <3>2 DEF lo
  <2> QED
    BY <2>2, <2>3
<1>3. \A m \in 0..n : Charged(Fore(m)) \in Nat /\ Charged(Aft(m)) \in Nat
  BY <1>2, ChargedIs
<1>4. \A m \in 0..n : m <= k => Charged(Aft(m)) = 0
  <2> TAKE m \in 0..n
  <2> HAVE m <= k
  <2>1. m \in Int /\ k + 1 \in Int /\ m < k + 1
    BY <1>1
  <2>2. Aft(m) = <<>>
    BY <2>1, SubSeqEmpty
  <2> QED
    BY <2>2, NothingCharged
<1>5. 0 \in T
  <2>1. CASE k = 0
    <3>1. Charged(Aft(0)) = 0 /\ Charged(Fore(0)) \in Nat
      BY <1>1, <1>3, <1>4, <2>1
    <3> QED
      BY <1>1, <2>1, <3>1
  <2>2. CASE k # 0
    BY <1>1, <2>2
  <2> QED
    BY <2>1, <2>2
<1>6. ASSUME NEW m \in 1..n, m - 1 \in T PROVE m \in T
  <2>1. CASE m < k
    BY <1>1, <2>1
  <2>2. CASE m = k
    <3>1. Charged(Aft(k)) = 0 /\ Charged(Fore(k)) \in Nat
      BY <1>1, <1>3, <1>4
    <3> QED
      BY <1>1, <2>2, <3>1
  <2>3. CASE m > k
    <3> DEFINE was == m - 1
    <3>1. /\ was \in 0..n /\ was >= k /\ m \in 1..n /\ 1 \in 1..n /\ m \in 1..n
          /\ k + 1 \in 1..n /\ m \in (k + 1) .. n /\ s[m] \in CachedScans
      BY <1>1, <2>3
    <3>2. Charged(Fore(was)) = Charged(Fore(k)) + Charged(Aft(was))
      BY <1>6, <3>1
    <3>3. Fore(m) = Append(Fore(was), s[m])
      <4>1. SubSeq(s, 1, m) = SubSeq(s, 1, m - 1) \o <<s[m]>>
        BY <3>1, SubSeqRecursiveSecond
      <4> QED
        BY <1>2, <3>1, <4>1, AppendIsConcat
    <3>4. Aft(m) = Append(Aft(was), s[m])
      <4> DEFINE lo == k + 1
      <4>1. lo \in 1..n /\ m \in lo..n
        BY <3>1
      <4> HIDE DEF lo
      <4>2. SubSeq(s, lo, m) = SubSeq(s, lo, m - 1) \o <<s[m]>>
        BY <4>1, SubSeqRecursiveSecond
      <4>3. Aft(m) = Aft(was) \o <<s[m]>>
        BY <4>2 DEF lo
      <4> QED
        BY <1>2, <3>1, <4>3, AppendIsConcat
    <3>5. /\ Fore(was) \in Seq(CachedScans) /\ Aft(was) \in Seq(CachedScans)
          /\ Charged(Fore(k)) \in Nat /\ Charged(Aft(was)) \in Nat /\ Charged(Fore(was)) \in Nat
      BY <1>1, <1>2, <1>3, <3>1
    <3> HIDE DEF Fore, Aft, was
    <3>6. /\ Charged(Fore(m)) = Charged(Fore(was)) + ScanBytes(s[m].rows)
          /\ Charged(Aft(m)) = Charged(Aft(was)) + ScanBytes(s[m].rows)
      BY <3>1, <3>3, <3>4, <3>5, ChargedMore
    <3>7. ScanBytes(s[m].rows) \in Nat
      BY <3>1, ScanIsCharged DEF n
    <3> QED
      BY <1>1, <3>1, <3>2, <3>5, <3>6, <3>7
  <2> QED
    BY <1>1, <2>1, <2>2, <2>3
<1>7. n \in T
  <2> HIDE DEF T, n
  <2>1. n \in 0..n
    BY <1>1
  <2> QED
    BY <1>1, <1>5, <1>6, <2>1, UpTo
<1>8. Fore(n) = s
  BY SubSeqFull
<1>9. n >= k /\ n \in 0..n
  BY <1>1
<1>10. Charged(Fore(n)) = Charged(Fore(k)) + Charged(Aft(n))
  <2> HIDE DEF n, Fore, Aft
  <2> QED
    BY <1>7, <1>9
<1>11. /\ Fore(k) \in Seq(CachedScans) /\ Aft(n) \in Seq(CachedScans)
       /\ Charged(s) = Charged(Fore(k)) + Charged(Aft(n))
  <2> HIDE DEF n, Fore, Aft, T
  <2> QED
    BY <1>1, <1>2, <1>8, <1>9, <1>10
<1> QED
  BY <1>11

-----------------------------------------------------------------------------
\* The pass over the files: what is retained of each entry.
Passes(entries) == [ToSet(entries) -> [files : Nat, overflowed : BOOLEAN]]

LEMMA Members ==
  ASSUME NEW X, NEW s \in Seq(X)
  PROVE  /\ \A i \in 1..Len(s) : s[i] \in ToSet(s)
         /\ \A e \in ToSet(s) : e \in X /\ \E i \in 1..Len(s) : s[i] = e
         /\ DOMAIN s = 1..Len(s) /\ Len(s) \in Nat
<1>1. DOMAIN s = 1..Len(s) /\ Len(s) \in Nat /\ \A i \in 1..Len(s) : s[i] \in X
  BY LenProperties, ElementOfSeq
<1> QED
  BY <1>1 DEF ToSet

LEMMA OfferOne ==
  ASSUME NEW U, NEW pass \in [U -> [files : Nat, overflowed : BOOLEAN]], NEW e \in U
  PROVE  /\ Offer(pass, e) \in [U -> [files : Nat, overflowed : BOOLEAN]]
         /\ \A f \in U : f # e => Offer(pass, e)[f] = pass[f]
         /\ ~Offer(pass, e)[e].overflowed => ~pass[e].overflowed /\ Offer(pass, e)[e].files = pass[e].files + 1
<1> DEFINE keep == pass[e]
<1>1. /\ keep \in [files : Nat, overflowed : BOOLEAN] /\ keep.files \in Nat /\ keep.files + 1 \in Nat
  OBVIOUS
<1>2. GiveUp(keep) \in [files : Nat, overflowed : BOOLEAN] /\ GiveUp(keep).overflowed
  BY <1>1 DEF GiveUp
<1>3. \/ keep.overflowed /\ Offer(pass, e) = pass
      \/ ~keep.overflowed /\ Offer(pass, e) = [pass EXCEPT ![e] = GiveUp(keep)]
      \/ ~keep.overflowed /\ Offer(pass, e) = [pass EXCEPT ![e].files = @ + 1]
  BY Zenon DEF Offer
<1>4. CASE keep.overflowed /\ Offer(pass, e) = pass
  BY <1>4
<1>5. CASE Offer(pass, e) = [pass EXCEPT ![e] = GiveUp(keep)]
  BY <1>2, <1>5
<1>6. CASE ~keep.overflowed /\ Offer(pass, e) = [pass EXCEPT ![e].files = @ + 1]
  <2> DEFINE more == [keep EXCEPT !.files = @ + 1]
  <2>1. /\ more \in [files : Nat, overflowed : BOOLEAN] /\ more.files = keep.files + 1
        /\ more.overflowed = keep.overflowed
    BY <1>1
  <2>2. Offer(pass, e) = [pass EXCEPT ![e] = more]
    BY <1>6
  <2> HIDE DEF more
  <2>3. /\ Offer(pass, e) \in [U -> [files : Nat, overflowed : BOOLEAN]]
        /\ \A f \in U : f # e => Offer(pass, e)[f] = pass[f]
        /\ Offer(pass, e)[e] = more
    BY <2>1, <2>2
  <2> QED
    BY <1>6, <2>1, <2>3
<1> QED
  BY <1>3, <1>4, <1>5, <1>6

OfferSteps(entries, pass, run) ==
  /\ run[0] = pass
  /\ \A k \in 1..Len(entries) : run[k] = Offer(run[k - 1], entries[k])

LEMMA OfferRuns ==
  ASSUME NEW entries \in Seq(Entry), NEW pass \in Passes(entries)
  PROVE  \E run \in [0..Len(entries) -> Passes(entries)] :
           OfferSteps(entries, pass, run) /\ OfferFile(pass, entries) = run[Len(entries)]
<1> DEFINE n == Len(entries)
           V == Passes(entries)
           step == [i \in 1..n |-> [v \in V |-> Offer(v, entries[i])]]
           Rec(h) == [d \in SUBSET (1..n) |->
                        IF d = {} THEN pass ELSE Offer(h[d \ {Max(d)}], entries[Max(d)])]
<1>1. n \in Nat /\ DOMAIN entries = 1..n /\ \A i \in 1..n : entries[i] \in ToSet(entries)
  BY Members
<1>2. \A i \in 1..n, v \in V : step[i][v] = Offer(v, entries[i]) /\ step[i][v] \in V
  BY <1>1, OfferOne DEF Passes
<1>3. PICK g \in [SUBSET (1..n) -> V] : FoldOf(1..n, pass, LastIn(n), step, g)
  <2> HIDE DEF n, step, V
  <2>1. pass \in V
    BY DEF V
  <2> QED
    BY <1>1, <1>2, <2>1, SequenceFoldExists
<1>4. ASSUME NEW d \in SUBSET (1..n)
      PROVE  g[d] = IF d = {} THEN pass ELSE Offer(g[d \ {Max(d)}], entries[Max(d)])
  <2>1. g[d] = IF d = {} THEN pass ELSE step[LastIn(n)[d]][g[d \ {LastIn(n)[d]}]]
    BY <1>3 DEF FoldOf
  <2>2. CASE d # {}
    <3>1. LastIn(n)[d] = Max(d) /\ Max(d) \in d /\ d \ {Max(d)} \in SUBSET (1..n)
      BY <1>1, <2>2, MaxIsIn DEF LastIn
    <3>2. Max(d) \in 1..n /\ g[d \ {Max(d)}] \in V
      BY <1>3, <3>1
    <3> HIDE DEF step, V
    <3> QED
      BY <1>2, <2>1, <2>2, <3>1, <3>2
  <2> QED
    BY <2>1, <2>2
<1>5. g = Rec(g)
  <2>1. g = [d \in SUBSET (1..n) |-> g[d]]
    BY <1>3
  <2> QED
    BY <2>1, <1>4
<1>6. PICK h : h = Rec(h) /\ OfferFile(pass, entries) = h[1..n]
  <2> DEFINE it == CHOOSE h : h = Rec(h)
  <2>1. OfferFile(pass, entries) = it[1..n]
    BY <1>1 DEF OfferFile, FoldLeft, MapThenFoldSet
  <2>2. it = Rec(it)
    BY <1>5
  <2> QED
    BY <2>1, <2>2
<1>7. h[{}] = pass
  <2>1. {} \in SUBSET (1..n)
    OBVIOUS
  <2> QED
    BY <1>6, <2>1
<1>8. ASSUME NEW d \in SUBSET (1..n), d # {}, h[d \ {Max(d)}] \in V
      PROVE  h[d] = step[Max(d)][h[d \ {Max(d)}]]
  <2>1. Max(d) \in 1..n
    BY <1>1, <1>8, MaxIsIn
  <2>2. h[d] = Offer(h[d \ {Max(d)}], entries[Max(d)])
    BY <1>6, <1>8
  <2> HIDE DEF step, V
  <2> QED
    BY <1>2, <1>8, <2>1, <2>2
<1>9. PICK run \in [0..n -> V] :
        /\ run[0] = pass /\ run[n] = h[1..n]
        /\ \A k \in 1..n : run[k] = step[k][run[k - 1]]
  <2>1. /\ n \in Nat /\ pass \in V /\ \A i \in 1..n, v \in V : step[i][v] \in V
        /\ \A d \in SUBSET (1..n) : d # {} /\ h[d \ {Max(d)}] \in V =>
             h[d] = step[Max(d)][h[d \ {Max(d)}]]
    BY <1>1, <1>2, <1>8
  <2> HIDE DEF n, step, V
  <2>2. FoldsBy(n, V, pass, step, h)
    BY <1>7, <2>1 DEF FoldsBy
  <2> QED
    BY <2>2, FoldSteps
<1>10. OfferSteps(entries, pass, run)
  <2>1. ASSUME NEW k \in 1..n PROVE run[k] = Offer(run[k - 1], entries[k])
    <3>1. run[k - 1] \in V
      BY <1>1, <1>9
    <3> HIDE DEF step, V
    <3> QED
      BY <1>2, <1>9, <3>1
  <2> QED
    BY <1>9, <2>1 DEF OfferSteps
<1> QED
  BY <1>6, <1>9, <1>10

\* After a file each entry that did not overflow has one file more.
LEMMA OfferFileAdds ==
  ASSUME NEW entries \in Seq(Entry), Unique(entries), NEW pass \in Passes(entries), NEW files \in Nat,
         \A e \in ToSet(entries) : ~pass[e].overflowed => pass[e].files = files
  PROVE  /\ OfferFile(pass, entries) \in Passes(entries)
         /\ \A e \in ToSet(entries) :
              ~OfferFile(pass, entries)[e].overflowed => OfferFile(pass, entries)[e].files = files + 1
<1> DEFINE n == Len(entries)
<1>1. /\ n \in Nat /\ \A i \in 1..n : entries[i] \in ToSet(entries)
      /\ \A e \in ToSet(entries) : \E i \in 1..n : entries[i] = e
      /\ \A i, j \in 1..n : entries[i] = entries[j] => i = j
  BY Members DEF Unique
<1>2. PICK run \in [0..n -> Passes(entries)] :
        OfferSteps(entries, pass, run) /\ OfferFile(pass, entries) = run[n]
  BY OfferRuns
<1> DEFINE Offered(k, v) ==
             \A i \in 1..n : ~v[entries[i]].overflowed =>
               v[entries[i]].files = IF i <= k THEN files + 1 ELSE files
           T == {k \in 0..n : Offered(k, run[k])}
<1>3. 0 \in T
  <2>1. run[0] = pass /\ \A i \in 1..n : ~(i <= 0)
    BY <1>1, <1>2 DEF OfferSteps
  <2>2. Offered(0, pass)
    BY <1>1, <2>1
  <2> QED
    BY <1>1, <2>1, <2>2
<1>4. ASSUME NEW k \in 1..n, k - 1 \in T PROVE k \in T
  <2> DEFINE was == run[k - 1]
             e == entries[k]
             is == run[k]
  <2>1. /\ was \in Passes(entries) /\ Offered(k - 1, was) /\ e \in ToSet(entries)
        /\ is = Offer(was, e) /\ k \in Nat /\ k \in 0..n
    BY <1>1, <1>2, <1>4 DEF OfferSteps
  <2>2. /\ is \in Passes(entries)
        /\ \A f \in ToSet(entries) : f # e => is[f] = was[f]
        /\ ~is[e].overflowed => ~was[e].overflowed /\ is[e].files = was[e].files + 1
    <3> DEFINE all == ToSet(entries)
    <3>1. Passes(entries) = [all -> [files : Nat, overflowed : BOOLEAN]]
      BY DEF Passes
    <3> HIDE DEF was, is, e, all
    <3>2. was \in [all -> [files : Nat, overflowed : BOOLEAN]] /\ e \in all /\ is = Offer(was, e)
      BY <2>1, <3>1 DEF all
    <3>3. /\ is \in [all -> [files : Nat, overflowed : BOOLEAN]]
          /\ \A f \in all : f # e => is[f] = was[f]
          /\ ~is[e].overflowed => ~was[e].overflowed /\ is[e].files = was[e].files + 1
      BY <3>2, OfferOne
    <3> QED
      BY <3>1, <3>3 DEF all
  <2>3. ASSUME NEW i \in 1..n, ~is[entries[i]].overflowed
        PROVE  is[entries[i]].files = IF i <= k THEN files + 1 ELSE files
    <3>1. CASE i = k
      <4>1. ~was[entries[i]].overflowed /\ ~(i <= k - 1)
        BY <2>1, <2>2, <2>3, <3>1
      <4>2. was[entries[i]].files = files
        BY <2>1, <4>1
      <4> QED
        BY <2>1, <2>2, <2>3, <3>1, <4>2
    <3>2. CASE i # k
      <4>1. entries[i] # e /\ entries[i] \in ToSet(entries)
        BY <1>1, <3>2
      <4>2. is[entries[i]] = was[entries[i]]
        BY <2>2, <4>1
      <4>3. i <= k - 1 <=> i <= k
        BY <1>1, <2>1, <3>2
      <4>4. was[entries[i]].files = IF i <= k - 1 THEN files + 1 ELSE files
        BY <2>1, <2>3, <4>2
      <4> QED
        BY <4>2, <4>3, <4>4
    <3> QED
      BY <3>1, <3>2
  <2>4. Offered(k, is)
    BY <2>3
  <2> HIDE DEF Offered
  <2> QED
    BY <2>1, <2>4
<1>5. n \in T
  <2> HIDE DEF T, n
  <2>1. n \in 0..n
    BY <1>1
  <2> QED
    BY <1>1, <1>3, <1>4, <2>1, UpTo
<1>6. n \in 0..n /\ Offered(n, run[n]) /\ \A i \in 1..n : i <= n
  BY <1>1, <1>5
<1>7. ASSUME NEW e \in ToSet(entries), ~run[n][e].overflowed PROVE run[n][e].files = files + 1
  <2>1. PICK i \in 1..n : entries[i] = e
    BY <1>1
  <2> QED
    BY <1>6, <1>7, <2>1
<1> HIDE DEF n
<1> QED
  BY <1>2, <1>6, <1>7

LEMMA OfferFileStays ==
  ASSUME NEW entries \in Seq(Entry), NEW pass \in Passes(entries)
  PROVE  OfferFile(pass, entries) \in Passes(entries)
<1>1. PICK run \in [0..Len(entries) -> Passes(entries)] : OfferFile(pass, entries) = run[Len(entries)]
  BY OfferRuns
<1>2. Len(entries) \in 0..Len(entries)
  BY LenProperties
<1> QED
  BY <1>1, <1>2

FileSteps(files, entries, run) ==
  /\ run[0] = NothingRetained(entries)
  /\ \A k \in 1..files : run[k] = OfferFile(run[k - 1], entries)

LEMMA RetainedRuns ==
  ASSUME NEW entries \in Seq(Entry), NEW files \in Nat
  PROVE  \E run \in [0..files -> Passes(entries)] :
           FileSteps(files, entries, run) /\ RetainedAfter(files, entries) = run[files]
<1> DEFINE n == files
           V == Passes(entries)
           none == NothingRetained(entries)
           numbers == [i \in 1..n |-> i]
           step == [i \in 1..n |-> [v \in V |-> OfferFile(v, entries)]]
           Rec(h) == [d \in SUBSET (1..n) |->
                        IF d = {} THEN none ELSE OfferFile(h[d \ {Max(d)}], entries)]
<1>1. none \in V /\ DOMAIN numbers = 1..n
  BY DEF NothingRetained, Passes
<1>2. \A i \in 1..n, v \in V : step[i][v] = OfferFile(v, entries) /\ step[i][v] \in V
  BY OfferFileStays
<1>3. PICK g \in [SUBSET (1..n) -> V] : FoldOf(1..n, none, LastIn(n), step, g)
  <2>1. n \in Nat
    OBVIOUS
  <2> HIDE DEF n, step, V, none
  <2> QED
    BY <1>1, <1>2, <2>1, SequenceFoldExists
<1>4. ASSUME NEW d \in SUBSET (1..n)
      PROVE  g[d] = IF d = {} THEN none ELSE OfferFile(g[d \ {Max(d)}], entries)
  <2>1. g[d] = IF d = {} THEN none ELSE step[LastIn(n)[d]][g[d \ {LastIn(n)[d]}]]
    BY <1>3 DEF FoldOf
  <2>2. CASE d # {}
    <3>1. LastIn(n)[d] = Max(d) /\ Max(d) \in d /\ d \ {Max(d)} \in SUBSET (1..n)
      BY <2>2, MaxIsIn DEF LastIn
    <3>2. Max(d) \in 1..n /\ g[d \ {Max(d)}] \in V
      BY <1>3, <3>1
    <3> HIDE DEF step, V, none
    <3> QED
      BY <1>2, <2>1, <2>2, <3>1, <3>2
  <2> QED
    BY <2>1, <2>2
<1>5. g = Rec(g)
  <2>1. g = [d \in SUBSET (1..n) |-> g[d]]
    BY <1>3
  <2> QED
    BY <2>1, <1>4
<1>6. PICK h : h = Rec(h) /\ RetainedAfter(files, entries) = h[1..n]
  <2> DEFINE it == CHOOSE h : h = Rec(h)
  <2>1. RetainedAfter(files, entries) = it[1..n]
    BY <1>1 DEF RetainedAfter, FoldLeft, MapThenFoldSet
  <2>2. it = Rec(it)
    BY <1>5
  <2> QED
    BY <2>1, <2>2
<1>7. h[{}] = none
  <2>1. {} \in SUBSET (1..n)
    OBVIOUS
  <2> QED
    BY <1>6, <2>1
<1>8. ASSUME NEW d \in SUBSET (1..n), d # {}, h[d \ {Max(d)}] \in V
      PROVE  h[d] = step[Max(d)][h[d \ {Max(d)}]]
  <2>1. Max(d) \in 1..n
    BY <1>8, MaxIsIn
  <2>2. h[d] = OfferFile(h[d \ {Max(d)}], entries)
    BY <1>6, <1>8
  <2> HIDE DEF step, V
  <2> QED
    BY <1>2, <1>8, <2>1, <2>2
<1>9. PICK run \in [0..n -> V] :
        /\ run[0] = none /\ run[n] = h[1..n]
        /\ \A k \in 1..n : run[k] = step[k][run[k - 1]]
  <2>1. /\ n \in Nat /\ none \in V /\ \A i \in 1..n, v \in V : step[i][v] \in V
        /\ \A d \in SUBSET (1..n) : d # {} /\ h[d \ {Max(d)}] \in V =>
             h[d] = step[Max(d)][h[d \ {Max(d)}]]
    BY <1>1, <1>2, <1>8
  <2> HIDE DEF n, step, V, none
  <2>2. FoldsBy(n, V, none, step, h)
    BY <1>7, <2>1 DEF FoldsBy
  <2> QED
    BY <2>2, FoldSteps
<1>10. FileSteps(files, entries, run)
  <2>1. ASSUME NEW k \in 1..n PROVE run[k] = OfferFile(run[k - 1], entries)
    <3>1. run[k - 1] \in V
      BY <1>9
    <3> HIDE DEF step, V
    <3> QED
      BY <1>2, <1>9, <3>1
  <2> QED
    BY <1>9, <2>1 DEF FileSteps
<1> QED
  BY <1>6, <1>9, <1>10

\* After so many files each entry that did not overflow has the rows of all.
LEMMA RetainedHolds ==
  ASSUME NEW entries \in Seq(Entry), Unique(entries), NEW files \in Nat
  PROVE  /\ RetainedAfter(files, entries) \in Passes(entries)
         /\ \A e \in ToSet(entries) :
              ~RetainedAfter(files, entries)[e].overflowed => RetainedAfter(files, entries)[e].files = files
<1>1. PICK run \in [0..files -> Passes(entries)] :
        FileSteps(files, entries, run) /\ RetainedAfter(files, entries) = run[files]
  BY RetainedRuns
<1> DEFINE All(k, v) == \A e \in ToSet(entries) : ~v[e].overflowed => v[e].files = k
           T == {k \in 0..files : All(k, run[k])}
<1>2. 0 \in T
  <2>1. run[0] = NothingRetained(entries)
    BY <1>1 DEF FileSteps
  <2>2. All(0, NothingRetained(entries))
    BY DEF NothingRetained
  <2> QED
    BY <2>1, <2>2
<1>3. ASSUME NEW k \in 1..files, k - 1 \in T PROVE k \in T
  <2> DEFINE m == k - 1
             was == run[m]
  <2>1. /\ m \in Nat /\ k = m + 1 /\ k \in 0..files /\ was \in Passes(entries) /\ All(m, was)
        /\ run[k] = OfferFile(was, entries)
    BY <1>1, <1>3 DEF FileSteps
  <2> HIDE DEF m, was
  <2>2. All(m + 1, OfferFile(was, entries))
    BY <2>1, OfferFileAdds
  <2> HIDE DEF All
  <2>3. All(k, run[k])
    BY <2>1, <2>2
  <2> QED
    BY <2>1, <2>3
<1>4. files \in 0..files /\ files \in T
  <2> HIDE DEF T
  <2>1. files \in 0..files
    OBVIOUS
  <2> QED
    BY <1>2, <1>3, <2>1, UpTo
<1> QED
  BY <1>1, <1>4

-----------------------------------------------------------------------------
(* What the sequences of the cache and of the entries keep.                 *)

LEMMA AmongKeeps ==
  ASSUME NEW X, NEW s \in Seq(X), NEW S
  PROVE  /\ Among(s, S) \in Seq(X) /\ ToSet(Among(s, S)) = ToSet(s) \cap S
         /\ Len(Among(s, S)) <= Len(s)
<1> DEFINE kept == Among(s, S)
           m == Len(kept)
           n == Len(s)
<1>1. PICK place : PlacesOf(s, S, kept, n, place)
  BY AmongPlaces
<1>2. /\ kept \in Seq(X) /\ DOMAIN kept = 1..m /\ DOMAIN s = 1..n /\ m \in Nat /\ n \in Nat
      /\ \A i \in 1..m : kept[i] \in ToSet(kept)
      /\ \A e \in ToSet(kept) : \E i \in 1..m : kept[i] = e
      /\ \A i \in 1..n : s[i] \in ToSet(s)
      /\ \A e \in ToSet(s) : \E i \in 1..n : s[i] = e
  BY AmongPlaces, Members
<1> HIDE DEF kept, m, n
<1>3. /\ place \in [1..m -> 1..n]
      /\ \A i \in 1..m : kept[i] = s[place[i]] /\ s[place[i]] \in S
      /\ \A i, j \in 1..m : place[i] = place[j] => i = j
      /\ \A p \in 1..n : s[p] \in S => \E i \in 1..m : place[i] = p
  BY <1>1 DEF PlacesOf, m
<1>4. ASSUME NEW e \in ToSet(kept) PROVE e \in ToSet(s) \cap S
  <2>1. PICK i \in 1..m : kept[i] = e
    BY <1>2
  <2>2. place[i] \in 1..n
    BY <1>3
  <2> QED
    BY <1>2, <1>3, <2>1, <2>2
<1>5. ASSUME NEW e \in ToSet(s) \cap S PROVE e \in ToSet(kept)
  <2>1. PICK p \in 1..n : s[p] = e
    BY <1>2
  <2>2. PICK i \in 1..m : place[i] = p
    BY <1>3, <2>1
  <2> QED
    BY <1>2, <1>3, <2>1, <2>2
<1>6. m <= n
  <2>1. place \in Injection(1..m, 1..n)
    BY <1>3 DEF Injection, IsInjective
  <2>2. IsFiniteSet(1..n) /\ Cardinality(1..n) = n /\ Cardinality(1..m) = m
    BY <1>2, UpToFinite
  <2> QED
    BY <2>1, <2>2, FS_Injection
<1> QED
  BY <1>2, <1>4, <1>5, <1>6 DEF kept, m, n

LEMMA UniqueAmong ==
  ASSUME NEW s \in Seq(Entry), Unique(s), NEW S
  PROVE  Unique(Among(s, S))
<1> DEFINE kept == Among(s, S)
           m == Len(kept)
           n == Len(s)
<1>1. PICK place : PlacesOf(s, S, kept, n, place)
  BY AmongPlaces
<1>2. DOMAIN kept = 1..m /\ DOMAIN s = 1..n
  BY AmongPlaces, LenProperties
<1> HIDE DEF kept, m, n
<1>3. /\ place \in [1..m -> 1..n]
      /\ \A i \in 1..m : kept[i] = s[place[i]]
      /\ \A i, j \in 1..m : place[i] = place[j] => i = j
  BY <1>1 DEF PlacesOf, m
<1>4. ASSUME NEW i \in 1..m, NEW j \in 1..m, kept[i].id = kept[j].id PROVE i = j
  <2>1. place[i] \in 1..n /\ place[j] \in 1..n /\ s[place[i]].id = s[place[j]].id
    BY <1>3, <1>4
  <2>2. place[i] = place[j]
    BY <1>2, <2>1 DEF Unique
  <2> QED
    BY <1>3, <2>2
<1>5. Unique(kept)
  BY <1>2, <1>4 DEF Unique
<1> QED
  BY <1>5 DEF kept

\* Scans out of a sequence of whole ones.
LEMMA WholeWithin ==
  ASSUME NEW s \in Seq(CachedScans), WholeScans(s), NEW part \in Seq(CachedScans),
         \A i \in 1..Len(part) : \E j \in 1..Len(s) : part[i] = s[j]
  PROVE  WholeScans(part)
<1>1. DOMAIN s = 1..Len(s) /\ DOMAIN part = 1..Len(part)
  BY LenProperties
<1>2. ASSUME NEW i \in 1..Len(part)
      PROVE  part[i].rows.files = FileCount /\ part[i].rows.query = part[i].key.query
  <2>1. PICK j \in 1..Len(s) : part[i] = s[j]
    OBVIOUS
  <2> QED
    BY <1>1, <2>1 DEF WholeScans
<1>3. ASSUME NEW i \in 1..Len(part), NEW k \in 1..Len(part)
      PROVE  part[i].key.revision = part[k].key.revision
  <2>1. PICK j \in 1..Len(s) : part[i] = s[j]
    OBVIOUS
  <2>2. PICK l \in 1..Len(s) : part[k] = s[l]
    OBVIOUS
  <2> QED
    BY <1>1, <2>1, <2>2 DEF WholeScans
<1> QED
  BY <1>1, <1>2, <1>3 DEF WholeScans

LEMMA WholeAmong ==
  ASSUME NEW s \in Seq(CachedScans), WholeScans(s), NEW S
  PROVE  Among(s, S) \in Seq(CachedScans) /\ WholeScans(Among(s, S))
<1> DEFINE kept == Among(s, S)
<1>1. kept \in Seq(CachedScans) /\ ToSet(kept) \subseteq ToSet(s)
  BY AmongKeeps
<1> HIDE DEF kept
<1>2. \A i \in 1..Len(kept) : \E j \in 1..Len(s) : kept[i] = s[j]
  <2>1. \A i \in 1..Len(kept) : kept[i] \in ToSet(s)
    BY <1>1, Members
  <2>2. \A e \in ToSet(s) : \E j \in 1..Len(s) : s[j] = e
    BY Members
  <2> QED
    BY <2>1, <2>2
<1>3. WholeScans(kept)
  BY <1>1, <1>2, WholeWithin
<1> QED
  BY <1>1, <1>3 DEF kept

\* The cache without what is of another revision.
LEMMA DropStaleHolds ==
  ASSUME NEW s \in Seq(CachedScans), WholeScans(s), NEW revision
  PROVE  /\ DropStale(s, revision) \in Seq(CachedScans) /\ WholeScans(DropStale(s, revision))
         /\ Charged(DropStale(s, revision)) <= Charged(s)
         /\ \A i \in 1..Len(DropStale(s, revision)) : DropStale(s, revision)[i].key.revision = revision
<1> DEFINE S == {e \in ToSet(s) : e.key.revision = revision}
           kept == Among(s, S)
<1>1. DropStale(s, revision) = kept
  BY DEF DropStale
<1>2. /\ kept \in Seq(CachedScans) /\ WholeScans(kept) /\ Charged(kept) <= Charged(s)
      /\ ToSet(kept) \subseteq S
  <2> HIDE DEF S
  <2> QED
    BY WholeAmong, ChargedLess, AmongKeeps
<1> HIDE DEF kept
<1>3. \A i \in 1..Len(kept) : kept[i] \in ToSet(kept)
  BY <1>2, Members
<1> QED
  BY <1>1, <1>2, <1>3

LEMMA BytesAreNat ==
  ASSUME NEW rows \in ScanRows
  PROVE  ScanBytes(rows) \in Nat
<1>1. rows.query \in Queries /\ rows.files \in Nat
  BY DEF ScanRows
<1>2. RowCost[rows.query] \in Nat /\ EntryCost \in Nat
  BY <1>1, MechanicsAssumption
<1>3. rows.files * RowCost[rows.query] \in Nat
  BY <1>1, <1>2
<1> QED
  BY <1>2, <1>3 DEF ScanBytes

\* What eviction leaves has room for the new rows, and is counted right.
RoomIsMade(s, counted, bytes, left) ==
  /\ left \in Seq(CachedScans) /\ Charged(left) + bytes <= CacheBudget
  /\ Uncharged(counted, SubSeq(s, 1, Evicted(s, counted, bytes))) = Charged(left)
  /\ \A i \in 1..Len(left) : \E j \in 1..Len(s) : left[i] = s[j]

\* It does when the counter is right.
LEMMA EvictedFits ==
  ASSUME NEW s \in Seq(CachedScans), NEW counted, counted = Charged(s), NEW bytes \in Nat, bytes <= CacheBudget,
         NEW left, left = SubSeq(s, Evicted(s, counted, bytes) + 1, Len(s))
  PROVE  RoomIsMade(s, counted, bytes, left)
<1> DEFINE n == Len(s)
           Left(k) == SubSeq(s, k + 1, n)
           Remains(k) == Uncharged(counted, SubSeq(s, 1, k))
           Fits(k) == k = n \/ Remains(k) + bytes <= CacheBudget
           places == {k \in 1 .. (n + 1) : Fits(n + 1 - k)}
           First(k) == Fits(k) /\ \A m \in 0 .. (k - 1) : ~Fits(m)
<1>1. n \in Nat /\ CacheBudget \in Nat /\ \A i \in 1..n : s[i] \in CachedScans
  BY LenProperties, ElementOfSeq, MechanicsAssumption
<1>2. \A k \in 0..n : Left(k) \in Seq(CachedScans) /\ Charged(Left(k)) \in Nat /\ Remains(k) = Charged(Left(k))
  <2> TAKE k \in 0..n
  <2>1. /\ SubSeq(s, 1, k) \in Seq(CachedScans) /\ Left(k) \in Seq(CachedScans)
        /\ counted = Charged(SubSeq(s, 1, k)) + Charged(Left(k))
    BY ChargedFront
  <2>2. Charged(SubSeq(s, 1, k)) \in Nat /\ Charged(Left(k)) \in Nat
    BY <2>1, ChargedIs
  <2> HIDE DEF Left
  <2> QED
    BY <2>1, <2>2 DEF Uncharged
<1>3. \E k \in 0..n : First(k)
  <2>1. 1 \in places
    BY <1>1
  <2>2. Max(places) \in places /\ \A k \in places : Max(places) >= k
    <3>1. n + 1 \in Nat /\ places \in SUBSET (1 .. (n + 1)) /\ places # {}
      <4>1. places \subseteq 1 .. (n + 1)
        OBVIOUS
      <4> HIDE DEF places
      <4> QED
        BY <1>1, <2>1, <4>1
    <3> HIDE DEF places
    <3> DEFINE top == n + 1
    <3>2. top \in Nat /\ places \in SUBSET (1..top)
      BY <3>1
    <3> HIDE DEF top
    <3> QED
      BY <3>1, <3>2, MaxIsIn
  <2> DEFINE top == Max(places)
             k == n + 1 - top
  <2>3. /\ top \in 1 .. (n + 1) /\ Fits(n + 1 - top)
        /\ \A i \in 1 .. (n + 1) : Fits(n + 1 - i) => top >= i
    <3> HIDE DEF Fits, top
    <3>1. top \in places /\ \A i \in places : top >= i
      BY <2>2 DEF top
    <3> QED
      BY <3>1
  <2> HIDE DEF top, Fits, places
  <2>4. k \in 0..n /\ Fits(k)
    BY <1>1, <2>3
  <2>5. ASSUME NEW m \in 0 .. (k - 1) PROVE ~Fits(m)
    <3> DEFINE i == n + 1 - m
    <3>1. i \in 1 .. (n + 1) /\ ~(top >= i) /\ m \in 0..n /\ n + 1 - i = m
      BY <1>1, <2>3
    <3> HIDE DEF i
    <3> QED
      BY <2>3, <3>1
  <2> QED
    BY <2>4, <2>5
<1>4. PICK k \in 0..n : First(k) /\ Evicted(s, counted, bytes) = k /\ left = Left(k)
  <2> DEFINE keep == CHOOSE k \in 0..n : First(k)
  <2>1. keep \in 0..n /\ First(keep)
    <3> HIDE DEF First
    <3> QED
      BY <1>3
  <2>2. Evicted(s, counted, bytes) = keep
    BY DEF Evicted
  <2> HIDE DEF keep, First
  <2> QED
    BY <2>1, <2>2
<1>5. Left(k) \in Seq(CachedScans) /\ \A i \in 1..Len(Left(k)) : \E j \in 1..n : Left(k)[i] = s[j]
  <2>1. k + 1 \in Int /\ n \in Int /\ \A i \in (k + 1) .. n : s[i] \in CachedScans
    BY <1>1
  <2>2. /\ Left(k) \in Seq(CachedScans)
        /\ Len(Left(k)) = IF k + 1 <= n THEN n - (k + 1) + 1 ELSE 0
        /\ \A i \in 1 .. (n - (k + 1) + 1) : Left(k)[i] = s[k + 1 + i - 1]
    <3> DEFINE lo == k + 1
    <3>1. lo \in Int /\ \A i \in lo..n : s[i] \in CachedScans
      BY <2>1
    <3> HIDE DEF lo
    <3>2. /\ SubSeq(s, lo, n) \in Seq(CachedScans)
          /\ Len(SubSeq(s, lo, n)) = IF lo <= n THEN n - lo + 1 ELSE 0
          /\ \A i \in 1 .. (n - lo + 1) : SubSeq(s, lo, n)[i] = s[lo + i - 1]
      BY <2>1, <3>1, SubSeqProperties
    <3> QED
      BY <3>2 DEF lo
  <2> HIDE DEF Left
  <2>3. ASSUME NEW i \in 1..Len(Left(k)) PROVE \E j \in 1..n : Left(k)[i] = s[j]
    <3>1. i \in 1 .. (n - (k + 1) + 1) /\ k + 1 + i - 1 \in 1..n
      BY <1>1, <2>2
    <3> QED
      BY <2>2, <3>1
  <2> QED
    BY <2>2, <2>3
<1>6. Charged(Left(k)) + bytes <= CacheBudget /\ Remains(k) = Charged(Left(k))
  <2> SUFFICES Charged(Left(k)) + bytes <= CacheBudget
    BY <1>2
  <2>1. CASE k = n
    <3>1. n \in Int /\ n + 1 \in Int /\ n < n + 1
      BY <1>1
    <3>2. Left(k) = <<>>
      BY <2>1, <3>1, SubSeqEmpty
    <3>3. Charged(Left(k)) = 0
      BY <3>2, NothingCharged
    <3> HIDE DEF Left
    <3> QED
      BY <1>1, <3>3
  <2>2. CASE k # n
    <3>1. Remains(k) + bytes <= CacheBudget /\ Remains(k) = Charged(Left(k))
      BY <1>2, <1>4, <2>2
    <3> HIDE DEF Left, Holds
    <3> QED
      BY <3>1
  <2> QED
    BY <2>1, <2>2
<1> HIDE DEF Left
<1> QED
  BY <1>4, <1>5, <1>6 DEF RoomIsMade

-----------------------------------------------------------------------------
(* The invariant of the mechanics, action by action.                        *)

CallsHold == caller = [t \in Callers |-> caller[t]] /\ \A t \in Callers : CallHolds(caller[t])
EntriesHold == mechanics \in Seq(Entry) /\ RegisteredOnce
ScansHold == cached \in Seq(CachedScans) /\ CacheHolds
RestHolds == database \in [revision : Nat, content : Nat] /\ calls \in Nat

LEMMA MechanicsParts == MechanicsInv <=> CallsHold /\ EntriesHold /\ ScansHold /\ RestHolds
BY DEF MechanicsInv, MechanicsShape, CallsHold, EntriesHold, ScansHold, RestHolds

LEMMA MechanicsPartsNext ==
  CallsHold' /\ EntriesHold' /\ ScansHold' /\ RestHolds' => MechanicsInv'
BY DEF MechanicsInv, MechanicsShape, CallsHold, EntriesHold, ScansHold, RestHolds

LEMMA CallMoves ==
  ASSUME MechanicsInv, NEW t \in Callers, NEW c, CallHolds(c), caller' = [caller EXCEPT ![t] = c]
  PROVE  CallsHold'
<1>1. caller' = [u \in Callers |-> caller'[u]] /\ \A u \in Callers : caller'[u] = IF u = t THEN c ELSE caller[u]
  BY DEF MechanicsInv, MechanicsShape
<1>2. \A u \in Callers : CallHolds(caller[u])
  BY DEF MechanicsInv
<1>3. \A u \in Callers : CallHolds(caller'[u])
  BY <1>1, <1>2
<1> QED
  BY <1>1, <1>3 DEF CallsHold

LEMMA EntriesSame ==
  ASSUME MechanicsInv, mechanics' = mechanics
  PROVE  EntriesHold'
BY DEF MechanicsInv, MechanicsShape, EntriesHold, RegisteredOnce

\* The counter of a cache that holds is what is left is charged.
LEMMA RecountedIs ==
  ASSUME MechanicsInv, NEW s
  PROVE  Recounted(s) = Charged(s)
BY DEF MechanicsInv, CacheHolds, Recounted

LEMMA ScansSame ==
  ASSUME MechanicsInv, cached' = cached, cacheBytes' = cacheBytes
  PROVE  ScansHold'
BY DEF MechanicsInv, MechanicsShape, ScansHold, CacheHolds

\* A call at its start, with the entries it is for.
Starts(c, pc, adds, selected) ==
  \/ c = [Waiting EXCEPT !.pc = pc, !.adds = adds, !.selected = selected]
  \/ adds = FALSE /\ c = [Waiting EXCEPT !.pc = pc, !.selected = selected]
  \/ pc = "idle" /\ adds = FALSE /\ selected = <<>> /\ c = Waiting

LEMMA StartHolds ==
  ASSUME NEW pc \in {"idle", "open", "push", "forget", "drop"}, NEW adds \in BOOLEAN,
         NEW selected \in Seq(Entry), Unique(selected),
         adds \/ pc \in {"push", "forget", "drop"} => selected # <<>>,
         NEW c, Starts(c, pc, adds, selected)
  PROVE  CallHolds(c)
<1> DEFINE none == [i \in {} |-> Unscanned]
<1>1. DOMAIN none = {} /\ none \in [{} -> ScanRows]
  OBVIOUS
<1> HIDE DEF none
<1>2. /\ Waiting = [pc |-> "idle", adds |-> FALSE, selected |-> <<>>,
                   read |-> [revision |-> 0, content |-> 0],
                   todo |-> {}, missed |-> {}, held |-> none, stopped |-> FALSE]
  BY DEF Waiting, none
<1>3. /\ c = [pc |-> pc, adds |-> adds, selected |-> selected, read |-> [revision |-> 0, content |-> 0],
             todo |-> {}, missed |-> {}, held |-> none, stopped |-> FALSE]
  <2>1. CASE c = [Waiting EXCEPT !.pc = pc, !.adds = adds, !.selected = selected]
    BY <1>2, <2>1
  <2>2. CASE adds = FALSE /\ c = [Waiting EXCEPT !.pc = pc, !.selected = selected]
    BY <1>2, <2>2
  <2>3. CASE pc = "idle" /\ adds = FALSE /\ selected = <<>> /\ c = Waiting
    BY <1>2, <2>3
  <2> QED
    BY <2>1, <2>2, <2>3 DEF Starts
<1>4. /\ c.pc = pc /\ c.adds = adds /\ c.selected = selected /\ c.todo = {} /\ c.missed = {}
      /\ c.stopped = FALSE /\ c.held = none
  BY <1>3
<1>5. CallShape(c)
  <2>1. c \in [pc : ScanSteps, adds : BOOLEAN, selected : Seq(Entry),
              read : [revision : Nat, content : Nat], todo : SUBSET Entry, missed : SUBSET Entry,
              held : {c.held}, stopped : BOOLEAN]
    BY <1>3 DEF ScanSteps
  <2> QED
    BY <1>1, <1>4, <2>1 DEF CallShape
<1> QED
  BY <1>1, <1>4, <1>5 DEF CallHolds

LEMMA WaitingHolds == CallHolds(Waiting)
<1>1. Starts(Waiting, "idle", FALSE, <<>>)
  BY DEF Starts
<1>2. <<>> \in Seq(Entry) /\ Unique(<<>>)
  BY DEF Unique
<1> QED
  BY <1>1, <1>2, StartHolds

LEMMA OneEntry ==
  ASSUME NEW entry \in Entry
  PROVE  <<entry>> \in Seq(Entry) /\ Unique(<<entry>>) /\ <<entry>> # <<>>
BY DEF Unique

LEMMA MechanicsBegins == MechanicsInit => MechanicsInv
<1> SUFFICES ASSUME MechanicsInit PROVE MechanicsInv
  OBVIOUS
<1>1. CallsHold
  BY WaitingHolds DEF MechanicsInit, CallsHold
<1>2. EntriesHold
  <2>1. mechanics = <<>> /\ Len(<<>>) = 0 /\ SessionCap \in Nat /\ DOMAIN <<>> = {} /\ <<>> \in Seq(Entry)
    BY MechanicsAssumption DEF MechanicsInit
  <2> QED
    BY <2>1 DEF EntriesHold, RegisteredOnce
<1>3. ScansHold
  <2>1. cached = <<>> /\ cacheBytes = 0 /\ CacheBudget \in Nat /\ <<>> \in Seq(CachedScans)
    BY MechanicsAssumption DEF MechanicsInit
  <2>2. DOMAIN <<>> = {}
    OBVIOUS
  <2>3. WholeScans(<<>>)
    BY <2>2 DEF WholeScans
  <2> QED
    BY <2>1, <2>3, NothingCharged DEF ScansHold, CacheHolds
<1>4. RestHolds
  BY DEF MechanicsInit, RestHolds
<1> QED
  BY <1>1, <1>2, <1>3, <1>4, MechanicsParts

\* What a call in progress is.
LEMMA CallIs ==
  ASSUME MechanicsInv, NEW t \in Callers
  PROVE  /\ CallHolds(caller[t]) /\ CallShape(caller[t]) /\ caller[t].selected \in Seq(Entry)
         /\ Unique(caller[t].selected) /\ caller[t].adds \in BOOLEAN
         /\ caller[t].adds \/ caller[t].pc \in {"push", "forget", "drop"} => caller[t].selected # <<>>
<1>1. CallHolds(caller[t])
  BY DEF MechanicsInv
<1> DEFINE c == caller[t]
<1> HIDE DEF c
<1>2. CallHolds(c)
  BY <1>1 DEF c
<1>3. /\ CallShape(c) /\ Unique(c.selected)
      /\ c.adds \/ c.pc \in {"push", "forget", "drop"} => c.selected # <<>>
  BY <1>2 DEF CallHolds
<1>4. c.selected \in Seq(Entry) /\ c.adds \in BOOLEAN
  BY <1>3 DEF CallShape
<1> QED
  BY <1>2, <1>3, <1>4 DEF c

LEMMA FirstOf ==
  ASSUME NEW s \in Seq(Entry), s # <<>>
  PROVE  s[1] \in Entry
<1>1. Len(s) # 0 /\ Len(s) \in Nat
  BY LenProperties, EmptySeq
<1>2. 1 \in 1..Len(s)
  BY <1>1
<1> QED
  BY <1>2, ElementOfSeq

LEMMA BeginLeadsKeeps ==
  ASSUME MechanicsInv, NEW t \in Callers, BeginLeads(t) PROVE MechanicsInv'
<1>1. PICK selected \in {mechanics} \cup {<<mechanics[i]>> : i \in DOMAIN mechanics} :
        caller' = [caller EXCEPT ![t] = [Waiting EXCEPT !.pc = "open", !.selected = selected]]
  BY DEF BeginLeads
<1>2. mechanics \in Seq(Entry) /\ Unique(mechanics)
  BY DEF MechanicsInv, MechanicsShape, RegisteredOnce, Unique
<1>3. selected \in Seq(Entry) /\ Unique(selected)
  <2>1. \A i \in DOMAIN mechanics : mechanics[i] \in Entry
    BY <1>2, LenProperties, ElementOfSeq
  <2> QED
    BY <1>1, <1>2, <2>1, OneEntry
<1> DEFINE c == [Waiting EXCEPT !.pc = "open", !.selected = selected]
<1>4. Starts(c, "open", FALSE, selected)
  BY DEF Starts
<1>5. CallsHold'
  <2> HIDE DEF c
  <2>1. CallHolds(c)
    BY <1>3, <1>4, StartHolds
  <2> QED
    BY <1>1, <2>1, CallMoves DEF c
<1>6. EntriesHold' /\ ScansHold'
  BY EntriesSame, ScansSame DEF BeginLeads
<1>7. RestHolds'
  BY DEF BeginLeads, MechanicsInv, MechanicsShape, RestHolds
<1> QED
  BY <1>5, <1>6, <1>7, MechanicsPartsNext

LEMMA BeginAddKeeps ==
  ASSUME MechanicsInv, NEW t \in Callers, NEW entry \in Entry, BeginAdd(t, entry) PROVE MechanicsInv'
<1> DEFINE s == <<entry>>
           c == [Waiting EXCEPT !.pc = "open", !.adds = TRUE, !.selected = s]
<1>1. caller' = [caller EXCEPT ![t] = c] /\ Starts(c, "open", TRUE, s)
  BY DEF BeginAdd, Starts
<1>2. CallsHold'
  <2>1. s \in Seq(Entry) /\ Unique(s) /\ s # <<>>
    BY OneEntry
  <2> HIDE DEF s, c
  <2>2. CallHolds(c)
    BY <1>1, <2>1, StartHolds
  <2> QED
    BY <1>1, <2>2, CallMoves
<1>3. EntriesHold' /\ ScansHold'
  BY EntriesSame, ScansSame DEF BeginAdd
<1>4. RestHolds'
  BY DEF BeginAdd, MechanicsInv, MechanicsShape, RestHolds
<1> QED
  BY <1>2, <1>3, <1>4, MechanicsPartsNext

LEMMA BeginRemoveKeeps ==
  ASSUME MechanicsInv, NEW t \in Callers, NEW id \in MechanicIds, BeginRemove(t, id) PROVE MechanicsInv'
<1>1. PICK i \in DOMAIN mechanics :
        caller' = [caller EXCEPT ![t] = [Waiting EXCEPT !.pc = "forget", !.selected = <<mechanics[i]>>]]
  BY DEF BeginRemove
<1>2. mechanics[i] \in Entry
  <2>1. mechanics \in Seq(Entry)
    BY DEF MechanicsInv, MechanicsShape
  <2> QED
    BY <1>1, <2>1, LenProperties, ElementOfSeq
<1> DEFINE s == <<mechanics[i]>>
           c == [Waiting EXCEPT !.pc = "forget", !.selected = s]
<1>3. caller' = [caller EXCEPT ![t] = c] /\ Starts(c, "forget", FALSE, s)
  BY <1>1 DEF Starts
<1>4. CallsHold'
  <2>1. s \in Seq(Entry) /\ Unique(s) /\ s # <<>>
    BY <1>2, OneEntry
  <2> HIDE DEF s, c
  <2>2. CallHolds(c)
    BY <1>3, <2>1, StartHolds
  <2> QED
    BY <1>3, <2>2, CallMoves
<1>5. EntriesHold' /\ ScansHold'
  BY EntriesSame, ScansSame DEF BeginRemove
<1>6. RestHolds'
  BY DEF BeginRemove, MechanicsInv, MechanicsShape, RestHolds
<1> QED
  BY <1>4, <1>5, <1>6, MechanicsPartsNext

LEMMA EndLeadsKeeps ==
  ASSUME MechanicsInv, NEW t \in Callers, EndLeads(t) PROVE MechanicsInv'
<1> DEFINE selected == caller[t].selected
           c == [Waiting EXCEPT !.pc = "push", !.selected = selected]
<1>1. \/ caller[t].adds /\ caller' = [caller EXCEPT ![t] = c]
      \/ caller' = [caller EXCEPT ![t] = Waiting]
  BY DEF EndLeads
<1>2. selected \in Seq(Entry) /\ Unique(selected) /\ (caller[t].adds => selected # <<>>)
  BY CallIs
<1>3. Starts(c, "push", FALSE, selected)
  BY DEF Starts
<1>4. caller[t].adds => CallHolds(c)
  <2> HIDE DEF c, selected
  <2> QED
    BY <1>2, <1>3, StartHolds
<1>5. CallsHold'
  <2> HIDE DEF c
  <2> QED
    BY <1>1, <1>4, WaitingHolds, CallMoves
<1>6. EntriesHold' /\ ScansHold' /\ RestHolds'
  BY EntriesSame, ScansSame DEF EndLeads, MechanicsInv, MechanicsShape, RestHolds
<1> QED
  BY <1>5, <1>6, MechanicsPartsNext

LEMMA PushEntryKeeps ==
  ASSUME MechanicsInv, NEW t \in Callers, PushEntry(t) PROVE MechanicsInv'
<1> DEFINE entry == caller[t].selected[1]
<1>1. entry \in Entry
  <2>1. caller[t].selected \in Seq(Entry) /\ caller[t].selected # <<>>
    BY CallIs DEF PushEntry
  <2> QED
    BY <2>1, FirstOf
<1>2. CallsHold'
  BY WaitingHolds, CallMoves DEF PushEntry
<1>3. EntriesHold'
  <2>1. mechanics \in Seq(Entry) /\ RegisteredOnce
    BY DEF MechanicsInv, MechanicsShape
  <2>2. CASE StillFree(entry.id)
    <3>1. mechanics' = Append(mechanics, entry)
      BY <2>2 DEF PushEntry
    <3> HIDE DEF entry
    <3> DEFINE n == Len(mechanics)
    <3>2. /\ mechanics' \in Seq(Entry) /\ n \in Nat /\ Len(mechanics') = n + 1
          /\ \A i \in 1..n : mechanics'[i] = mechanics[i]
          /\ mechanics'[n + 1] = entry
          /\ DOMAIN mechanics = 1..n /\ DOMAIN mechanics' = 1 .. (n + 1)
      <4>1. mechanics' \in Seq(Entry) /\ n \in Nat /\ Len(mechanics') = n + 1
        BY <1>1, <2>1, <3>1, AppendProperties, LenProperties
      <4> QED
        BY <1>1, <2>1, <3>1, <4>1, AppendProperties, LenProperties
    <3>3. n < SessionCap /\ \A i \in 1..n : mechanics[i].id # entry.id
      BY <2>2, <3>2 DEF StillFree, IsFree
    <3>4. \A i, j \in 1..n : mechanics[i].id = mechanics[j].id => i = j
      BY <2>1, <3>2 DEF RegisteredOnce
    <3> HIDE DEF n
    <3>5. Len(mechanics') <= SessionCap
      BY <3>2, <3>3, MechanicsAssumption
    <3>6. \A i, j \in 1 .. (n + 1) : mechanics'[i].id = mechanics'[j].id => i = j
      BY <3>2, <3>3, <3>4
    <3> QED
      BY <3>2, <3>5, <3>6 DEF EntriesHold, RegisteredOnce
  <2>3. CASE ~StillFree(entry.id)
    <3>1. mechanics' = mechanics
      BY <2>3 DEF PushEntry
    <3> QED
      BY <3>1, EntriesSame
  <2> QED
    BY <2>2, <2>3
<1>4. ScansHold' /\ RestHolds'
  BY ScansSame DEF PushEntry, MechanicsInv, MechanicsShape, RestHolds
<1> QED
  BY <1>2, <1>3, <1>4, MechanicsPartsNext

LEMMA DropEntryKeeps ==
  ASSUME MechanicsInv, NEW t \in Callers, DropEntry(t) PROVE MechanicsInv'
<1>1. CallsHold'
  BY WaitingHolds, CallMoves DEF DropEntry
<1>2. EntriesHold'
  <2> DEFINE S == {e \in ToSet(mechanics) : e.id # caller[t].selected[1].id}
  <2>1. mechanics' = Among(mechanics, S)
    BY DEF DropEntry
  <2>2. mechanics \in Seq(Entry) /\ Unique(mechanics) /\ Len(mechanics) <= SessionCap
    BY DEF MechanicsInv, MechanicsShape, RegisteredOnce, Unique
  <2> HIDE DEF S
  <2>3. mechanics' \in Seq(Entry) /\ Len(mechanics') <= Len(mechanics) /\ Unique(mechanics')
    BY <2>1, <2>2, AmongKeeps, UniqueAmong
  <2>4. Len(mechanics) \in Nat /\ Len(mechanics') \in Nat /\ SessionCap \in Nat
    BY <2>2, <2>3, LenProperties, MechanicsAssumption
  <2>5. Len(mechanics') <= SessionCap
    BY <2>2, <2>3, <2>4
  <2> QED
    BY <2>3, <2>5 DEF EntriesHold, RegisteredOnce, Unique
<1>3. ScansHold' /\ RestHolds'
  BY ScansSame DEF DropEntry, MechanicsInv, MechanicsShape, RestHolds
<1> QED
  BY <1>1, <1>2, <1>3, MechanicsPartsNext

LEMMA IndexMovesKeep ==
  ASSUME MechanicsInv, PublishEdit \/ RebuildIndex PROVE MechanicsInv'
<1>1. caller' = caller /\ mechanics' = mechanics /\ cached' = cached /\ cacheBytes' = cacheBytes /\ calls' = calls
  BY DEF PublishEdit, RebuildIndex
<1>2. database' \in [revision : Nat, content : Nat]
  <2>1. database.revision \in Nat /\ database.content \in Nat
    BY DEF MechanicsInv, MechanicsShape
  <2> QED
    BY <2>1 DEF PublishEdit, RebuildIndex
<1>3. EntriesHold' /\ ScansHold'
  BY <1>1, EntriesSame, ScansSame
<1>4. CallsHold' /\ RestHolds'
  BY <1>1, <1>2 DEF CallsHold, RestHolds, MechanicsInv, MechanicsShape
<1> QED
  BY <1>3, <1>4, MechanicsPartsNext

CallFields(c) ==
  [pc : ScanSteps, adds : BOOLEAN, selected : Seq(Entry), read : [revision : Nat, content : Nat],
   todo : SUBSET Entry, missed : SUBSET Entry, held : {c.held}, stopped : BOOLEAN]

\* The record of a call with what a step changes of it.
Becomes(d, c, pc, read, todo, missed, held, stopped) ==
  d = [pc |-> pc, adds |-> c.adds, selected |-> c.selected, read |-> read, todo |-> todo,
       missed |-> missed, held |-> held, stopped |-> stopped]

LEMMA CallWith ==
  ASSUME NEW c, CallShape(c), NEW pc, NEW read, NEW todo, NEW missed, NEW held, NEW stopped, NEW d,
         Becomes(d, c, pc, read, todo, missed, held, stopped),
         pc \in ScanSteps, read \in [revision : Nat, content : Nat],
         todo \in SUBSET Entry, missed \in SUBSET Entry,
         held \in [DOMAIN held -> ScanRows], stopped \in BOOLEAN
  PROVE  /\ CallShape(d) /\ d.pc = pc /\ d.adds = c.adds /\ d.selected = c.selected /\ d.read = read
         /\ d.todo = todo /\ d.missed = missed /\ d.held = held /\ d.stopped = stopped
<1>1. c.adds \in BOOLEAN /\ c.selected \in Seq(Entry)
  BY DEF CallShape
<1>2. /\ d.pc = pc /\ d.adds = c.adds /\ d.selected = c.selected /\ d.read = read
      /\ d.todo = todo /\ d.missed = missed /\ d.held = held /\ d.stopped = stopped
  BY DEF Becomes
<1>3. d \in CallFields(d)
  BY <1>1 DEF CallFields, Becomes
<1> QED
  BY <1>2, <1>3 DEF CallShape, CallFields

LEMMA CallParts ==
  ASSUME NEW c, CallShape(c)
  PROVE  /\ c = [pc |-> c.pc, adds |-> c.adds, selected |-> c.selected, read |-> c.read, todo |-> c.todo,
                 missed |-> c.missed, held |-> c.held, stopped |-> c.stopped]
         /\ c.pc \in ScanSteps /\ c.adds \in BOOLEAN /\ c.selected \in Seq(Entry)
         /\ c.read \in [revision : Nat, content : Nat] /\ c.todo \in SUBSET Entry
         /\ c.missed \in SUBSET Entry /\ c.stopped \in BOOLEAN
         /\ c.held \in [DOMAIN c.held -> ScanRows]
BY DEF CallShape

LEMMA OpenReadKeeps ==
  ASSUME MechanicsInv, NEW t \in Callers, OpenRead(t) PROVE MechanicsInv'
<1> DEFINE c == caller[t]
           d == [c EXCEPT !.pc = "get", !.read = database, !.todo = ToSet(c.selected)]
<1>1. c.pc = "open" /\ caller' = [caller EXCEPT ![t] = d]
  <2>1. caller = [u \in Callers |-> caller[u]]
    BY DEF MechanicsInv, MechanicsShape
  <2> QED
    BY <2>1 DEF OpenRead
<1>2. CallHolds(c) /\ CallShape(c) /\ database \in [revision : Nat, content : Nat]
  BY CallIs DEF MechanicsInv, MechanicsShape
<1>3. CallHolds(d)
  <2> DEFINE all == ToSet(c.selected)
             from == c.pc
             adds == c.adds
             selected == c.selected
             read == c.read
             todo == c.todo
             missed == c.missed
             held == c.held
             stopped == c.stopped
             new == database
  <2>1. /\ c = [pc |-> from, adds |-> adds, selected |-> selected, read |-> read, todo |-> todo,
                missed |-> missed, held |-> held, stopped |-> stopped]
        /\ missed \in SUBSET Entry /\ stopped \in BOOLEAN /\ selected \in Seq(Entry)
        /\ held \in [DOMAIN held -> ScanRows] /\ new \in [revision : Nat, content : Nat]
    <3> HIDE DEF c
    <3> QED
      BY <1>2, CallParts
  <2>2. all \in SUBSET Entry
    BY <2>1, Members
  <2>3. d = [c EXCEPT !.pc = "get", !.read = new, !.todo = all]
    OBVIOUS
  <2> HIDE DEF c, d, all, from, adds, selected, read, todo, missed, held, stopped, new
  <2>4. d = [pc |-> "get", adds |-> adds, selected |-> selected, read |-> new,
             todo |-> all, missed |-> missed, held |-> held, stopped |-> stopped]
    BY <2>1, <2>3
  <2>5. Becomes(d, c, "get", new, all, missed, held, stopped)
    BY <2>4 DEF adds, selected, Becomes
  <2>6. /\ CallShape(d) /\ d.pc = "get" /\ d.adds = c.adds /\ d.selected = c.selected
        /\ d.todo = all /\ d.missed = missed /\ d.held = held /\ d.stopped = stopped
    <3>1. "get" \in ScanSteps
      BY DEF ScanSteps
    <3> QED
      BY <1>2, <2>1, <2>2, <2>5, <3>1, CallWith
  <2>7. /\ d.todo = ToSet(c.selected) /\ d.missed = c.missed /\ d.held = c.held /\ d.stopped = c.stopped
        /\ c.pc = "open"
    BY <1>1, <2>6 DEF all, missed, held, stopped, c
  <2> QED
    BY <1>2, <2>6, <2>7 DEF CallHolds, c
<1>4. CallsHold'
  <2> HIDE DEF d
  <2> QED
    BY <1>1, <1>3, CallMoves
<1>5. EntriesHold' /\ ScansHold' /\ RestHolds'
  BY EntriesSame, ScansSame DEF OpenRead, MechanicsInv, MechanicsShape, RestHolds
<1> QED
  BY <1>4, <1>5, MechanicsPartsNext

LEMMA ForgetScansKeeps ==
  ASSUME MechanicsInv, NEW t \in Callers, ForgetScans(t) PROVE MechanicsInv'
<1> DEFINE c == caller[t]
           d == [c EXCEPT !.pc = "drop"]
           S == {e \in ToSet(cached) : e.key.id # c.selected[1].id}
<1>1. c.pc = "forget" /\ caller' = [caller EXCEPT ![t] = d]
  <2>1. caller = [u \in Callers |-> caller[u]]
    BY DEF MechanicsInv, MechanicsShape
  <2> QED
    BY <2>1 DEF ForgetScans
<1>2. CallHolds(c) /\ CallShape(c)
  BY CallIs
<1>3. CallHolds(d)
  <2> HIDE DEF c
  <2>1. /\ c = [pc |-> c.pc, adds |-> c.adds, selected |-> c.selected, read |-> c.read, todo |-> c.todo,
                missed |-> c.missed, held |-> c.held, stopped |-> c.stopped]
        /\ c.todo \in SUBSET Entry /\ c.missed \in SUBSET Entry /\ c.stopped \in BOOLEAN
        /\ c.read \in [revision : Nat, content : Nat]
        /\ c.held \in [DOMAIN c.held -> ScanRows]
    BY <1>2, CallParts
  <2>2. Becomes(d, c, "drop", c.read, c.todo, c.missed, c.held, c.stopped)
    BY <2>1 DEF Becomes
  <2> HIDE DEF d
  <2>3. /\ CallShape(d) /\ d.pc = "drop" /\ d.adds = c.adds /\ d.selected = c.selected
        /\ d.todo = c.todo /\ d.missed = c.missed /\ d.held = c.held /\ d.stopped = c.stopped
    <3>1. "drop" \in ScanSteps
      BY DEF ScanSteps
    <3> QED
      BY <1>2, <2>1, <2>2, <3>1, CallWith
  <2> QED
    BY <1>1, <1>2, <2>3 DEF CallHolds, c
<1>4. CallsHold'
  <2> HIDE DEF d
  <2> QED
    BY <1>1, <1>3, CallMoves
<1>5. ScansHold'
  <2>1. cached' = Among(cached, S) /\ cacheBytes' = Charged(cached')
    BY DEF ForgetScans
  <2>2. cached \in Seq(CachedScans) /\ WholeScans(cached) /\ cacheBytes = Charged(cached) /\ cacheBytes <= CacheBudget
    BY DEF MechanicsInv, MechanicsShape, CacheHolds
  <2> HIDE DEF S
  <2>3. cached' \in Seq(CachedScans) /\ WholeScans(cached') /\ Charged(cached') <= Charged(cached)
    BY <2>1, <2>2, WholeAmong, ChargedLess
  <2>4. Charged(cached) \in Nat /\ Charged(cached') \in Nat /\ CacheBudget \in Nat
    BY <2>2, <2>3, ChargedIs, MechanicsAssumption
  <2>5. cacheBytes' <= CacheBudget
    BY <2>1, <2>2, <2>3, <2>4
  <2> QED
    BY <2>1, <2>3, <2>5 DEF ScansHold, CacheHolds
<1>6. EntriesHold' /\ RestHolds'
  BY EntriesSame DEF ForgetScans, MechanicsInv, MechanicsShape, RestHolds
<1> QED
  BY <1>4, <1>5, <1>6, MechanicsPartsNext

\* What a call that asks or inserts is.
LEMMA CallDetails ==
  ASSUME NEW c, CallHolds(c)
  PROVE  /\ CallShape(c) /\ Unique(c.selected)
         /\ c.todo \subseteq ToSet(c.selected) /\ c.missed \subseteq ToSet(c.selected)
         /\ DOMAIN c.held \subseteq ToSet(c.selected)
         /\ \A e \in DOMAIN c.held : c.held[e].query = e.query /\ (~c.stopped => c.held[e].files = FileCount)
         /\ c.adds => c.selected # <<>>
         /\ c.pc = "get" => ~c.stopped /\ ToSet(c.selected) = c.todo \cup c.missed \cup DOMAIN c.held
         /\ c.pc = "insert" => c.missed \subseteq DOMAIN c.held
         /\ c.pc = "done" => ToSet(c.selected) = DOMAIN c.held
BY DEF CallHolds

\* A call after a step of its work on the rows.
WorkHolds(selected, pc, todo, missed, held, stopped) ==
  /\ pc \in {"get", "insert", "done"} /\ stopped \in BOOLEAN
  /\ todo \subseteq selected /\ missed \subseteq selected
  /\ DOMAIN held \subseteq selected /\ held \in [DOMAIN held -> ScanRows]
  /\ \A e \in DOMAIN held : held[e].query = e.query /\ (~stopped => held[e].files = FileCount)
  /\ pc = "get" => ~stopped /\ selected = todo \cup missed \cup DOMAIN held
  /\ pc = "insert" => missed \subseteq DOMAIN held
  /\ pc = "done" => selected = DOMAIN held

LEMMA CallWorks ==
  ASSUME NEW c, CallHolds(c), NEW d, NEW pc, NEW todo, NEW missed, NEW held, NEW stopped,
         Becomes(d, c, pc, c.read, todo, missed, held, stopped),
         WorkHolds(ToSet(c.selected), pc, todo, missed, held, stopped)
  PROVE  CallHolds(d)
<1>1. /\ CallShape(c) /\ Unique(c.selected) /\ (c.adds => c.selected # <<>>)
      /\ c.read \in [revision : Nat, content : Nat] /\ ToSet(c.selected) \subseteq Entry
  <2>1. CallShape(c) /\ Unique(c.selected) /\ (c.adds => c.selected # <<>>)
    BY CallDetails
  <2>2. c.selected \in Seq(Entry) /\ c.read \in [revision : Nat, content : Nat]
    BY <2>1, CallParts
  <2>3. ToSet(c.selected) \subseteq Entry
    BY <2>2, Members
  <2> QED
    BY <2>1, <2>2, <2>3
<1>2. pc \in ScanSteps /\ pc \notin {"open", "push", "forget", "drop"}
  BY DEF ScanSteps, WorkHolds
<1>3. /\ todo \in SUBSET Entry /\ missed \in SUBSET Entry /\ stopped \in BOOLEAN
      /\ held \in [DOMAIN held -> ScanRows]
  BY <1>1 DEF WorkHolds
<1>4. /\ CallShape(d) /\ d.pc = pc /\ d.adds = c.adds /\ d.selected = c.selected
      /\ d.todo = todo /\ d.missed = missed /\ d.held = held /\ d.stopped = stopped
  BY <1>1, <1>2, <1>3, CallWith
<1> QED
  BY <1>1, <1>2, <1>4 DEF CallHolds, WorkHolds

\* The records such steps leave.
LEMMA BecomesByRows ==
  ASSUME NEW c, CallShape(c), NEW todo, NEW missed, NEW held, NEW d,
         d = [c EXCEPT !.todo = todo, !.missed = missed, !.held = held]
  PROVE  Becomes(d, c, c.pc, c.read, todo, missed, held, c.stopped)
<1> DEFINE from == c.pc
           adds == c.adds
           selected == c.selected
           read == c.read
           oldTodo == c.todo
           oldMissed == c.missed
           oldHeld == c.held
           stopped == c.stopped
<1>1. c = [pc |-> from, adds |-> adds, selected |-> selected, read |-> read, todo |-> oldTodo,
           missed |-> oldMissed, held |-> oldHeld, stopped |-> stopped]
  BY CallParts
<1> HIDE DEF from, adds, selected, read, oldTodo, oldMissed, oldHeld, stopped
<1>2. d = [pc |-> from, adds |-> adds, selected |-> selected, read |-> read, todo |-> todo,
           missed |-> missed, held |-> held, stopped |-> stopped]
  BY <1>1
<1> QED
  BY <1>2 DEF Becomes, from, adds, selected, read, stopped

LEMMA BecomesByScan ==
  ASSUME NEW c, CallShape(c), NEW held, NEW stopped, NEW pc, NEW missed, NEW d,
         d = [c EXCEPT !.held = held, !.stopped = stopped, !.pc = pc, !.missed = missed]
  PROVE  Becomes(d, c, pc, c.read, c.todo, missed, held, stopped)
<1> DEFINE from == c.pc
           adds == c.adds
           selected == c.selected
           read == c.read
           todo == c.todo
           oldMissed == c.missed
           oldHeld == c.held
           oldStopped == c.stopped
<1>1. c = [pc |-> from, adds |-> adds, selected |-> selected, read |-> read, todo |-> todo,
           missed |-> oldMissed, held |-> oldHeld, stopped |-> oldStopped]
  BY CallParts
<1> HIDE DEF from, adds, selected, read, todo, oldMissed, oldHeld, oldStopped
<1>2. d = [pc |-> pc, adds |-> adds, selected |-> selected, read |-> read, todo |-> todo,
           missed |-> missed, held |-> held, stopped |-> stopped]
  BY <1>1
<1> QED
  BY <1>2 DEF Becomes, adds, selected, read, todo

\* What the cache has of an entry, at the revision of the call.
FoundFor(fresh, key) == {i \in DOMAIN fresh : SameKey(fresh[i].key, key)}

LEMMA FoundRows ==
  ASSUME NEW fresh \in Seq(CachedScans), WholeScans(fresh), NEW key, FoundFor(fresh, key) # {}
  PROVE  LET rows == fresh[CHOOSE i \in FoundFor(fresh, key) : TRUE].rows
         IN  rows \in ScanRows /\ rows.query = key.query /\ rows.files = FileCount
<1> DEFINE k == CHOOSE i \in FoundFor(fresh, key) : TRUE
<1>1. k \in FoundFor(fresh, key)
  OBVIOUS
<1> HIDE DEF k
<1>2. k \in DOMAIN fresh /\ fresh[k].key = key
  BY <1>1 DEF FoundFor, SameKey
<1>3. fresh[k] \in CachedScans
  BY <1>2, LenProperties, ElementOfSeq
<1>4. fresh[k].rows \in ScanRows
  BY <1>3 DEF CachedScans
<1>5. fresh[k].rows.query = key.query /\ fresh[k].rows.files = FileCount
  BY <1>2 DEF WholeScans
<1> QED
  BY <1>4, <1>5 DEF k

LEMMA GetCachedKeeps ==
  ASSUME MechanicsInv, NEW t \in Callers, NEW entry \in Entry, GetCached(t, entry) PROVE MechanicsInv'
<1> DEFINE c == caller[t]
           fresh == DropStale(cached, c.read.revision)
           found == FoundFor(fresh, KeyOf(t, entry))
           rows == fresh[CHOOSE i \in found : TRUE].rows
           todo == c.todo \ {entry}
           missed == IF found = {} THEN c.missed \cup {entry} ELSE c.missed
           held == IF found = {} THEN c.held
                   ELSE [e \in DOMAIN c.held \cup {entry} |-> IF e = entry THEN rows ELSE c.held[e]]
           d == [c EXCEPT !.todo = todo, !.missed = missed, !.held = held]
<1>1. /\ c.pc = "get" /\ entry \in c.todo /\ caller' = [caller EXCEPT ![t] = d]
      /\ cached' = fresh /\ cacheBytes' = Charged(fresh)
  <2>1. caller = [u \in Callers |-> caller[u]]
    BY DEF MechanicsInv, MechanicsShape
  <2>2. Recounted(fresh) = Charged(fresh)
    BY RecountedIs
  <2> QED
    BY <2>1, <2>2 DEF GetCached, FoundFor
<1>2. CallHolds(c)
  BY CallIs
<1>3. cached \in Seq(CachedScans) /\ WholeScans(cached) /\ cacheBytes = Charged(cached) /\ cacheBytes <= CacheBudget
  BY DEF MechanicsInv, MechanicsShape, CacheHolds
<1>4. fresh \in Seq(CachedScans) /\ WholeScans(fresh) /\ Charged(fresh) <= Charged(cached)
  BY <1>3, DropStaleHolds
<1>5. found # {} => rows \in ScanRows /\ rows.query = entry.query /\ rows.files = FileCount
  <2>1. KeyOf(t, entry).query = entry.query
    BY DEF KeyOf
  <2> DEFINE key == KeyOf(t, entry)
  <2> HIDE DEF fresh, key
  <2> QED
    BY <1>4, <2>1, FoundRows DEF key
<1>6. CallHolds(d)
  <2> HIDE DEF rows, found, fresh, c
  <2>1. /\ CallShape(c) /\ ~c.stopped /\ c.todo \subseteq ToSet(c.selected) /\ c.missed \subseteq ToSet(c.selected)
        /\ DOMAIN c.held \subseteq ToSet(c.selected)
        /\ \A e \in DOMAIN c.held : c.held[e].query = e.query /\ c.held[e].files = FileCount
        /\ ToSet(c.selected) = c.todo \cup c.missed \cup DOMAIN c.held
    BY <1>1, <1>2, CallDetails
  <2>2. /\ c.held \in [DOMAIN c.held -> ScanRows] /\ c.stopped \in BOOLEAN
        /\ c = [pc |-> c.pc, adds |-> c.adds, selected |-> c.selected, read |-> c.read, todo |-> c.todo,
                missed |-> c.missed, held |-> c.held, stopped |-> c.stopped]
    BY <2>1, CallParts
  <2>3. /\ held \in [DOMAIN held -> ScanRows]
        /\ \A e \in DOMAIN held : held[e].query = e.query /\ held[e].files = FileCount
        /\ DOMAIN held = IF found = {} THEN DOMAIN c.held ELSE DOMAIN c.held \cup {entry}
    <3>1. CASE found = {}
      BY <2>1, <2>2, <3>1
    <3>2. CASE found # {}
      BY <1>5, <2>1, <2>2, <3>2
    <3> QED
      BY <3>1, <3>2
  <2>4. /\ todo \subseteq ToSet(c.selected) /\ missed \subseteq ToSet(c.selected)
        /\ DOMAIN held \subseteq ToSet(c.selected)
        /\ ToSet(c.selected) = todo \cup missed \cup DOMAIN held
    <3> HIDE DEF held
    <3> QED
      BY <1>1, <2>1, <2>3
  <2>5. Becomes(d, c, "get", c.read, todo, missed, held, c.stopped)
    <3> HIDE DEF held, missed, todo
    <3>1. c.pc = "get"
      BY <1>1
    <3>2. Becomes(d, c, c.pc, c.read, todo, missed, held, c.stopped)
      BY <2>1, BecomesByRows
    <3> QED
      BY <3>1, <3>2
  <2>6. \A e \in DOMAIN held : held[e].query = e.query /\ (~c.stopped => held[e].files = FileCount)
    BY <2>3
  <2> HIDE DEF d, held, missed, todo
  <2>7. WorkHolds(ToSet(c.selected), "get", todo, missed, held, c.stopped)
    BY <2>1, <2>2, <2>3, <2>4, <2>6 DEF WorkHolds
  <2> QED
    BY <1>2, <2>5, <2>7, CallWorks
<1>7. CallsHold'
  <2> HIDE DEF d
  <2> QED
    BY <1>1, <1>6, CallMoves
<1>8. ScansHold'
  <2> HIDE DEF fresh
  <2>1. Charged(cached) \in Nat /\ Charged(fresh) \in Nat /\ CacheBudget \in Nat
    BY <1>3, <1>4, ChargedIs, MechanicsAssumption
  <2>2. Charged(fresh) <= CacheBudget
    BY <1>3, <1>4, <2>1
  <2> QED
    BY <1>1, <1>4, <2>2 DEF ScansHold, CacheHolds
<1>9. EntriesHold' /\ RestHolds'
  BY EntriesSame DEF GetCached, MechanicsInv, MechanicsShape, RestHolds
<1> QED
  BY <1>7, <1>8, <1>9, MechanicsPartsNext

LEMMA BecomesByEnd ==
  ASSUME NEW c, CallShape(c), NEW held, NEW pc, NEW missed, NEW d,
         \/ d = [c EXCEPT !.held = held, !.pc = pc] /\ missed = c.missed
         \/ d = [c EXCEPT !.missed = missed] /\ held = c.held /\ pc = c.pc
  PROVE  Becomes(d, c, pc, c.read, c.todo, missed, held, c.stopped)
<1> DEFINE from == c.pc
           adds == c.adds
           selected == c.selected
           read == c.read
           todo == c.todo
           oldMissed == c.missed
           oldHeld == c.held
           stopped == c.stopped
<1>1. c = [pc |-> from, adds |-> adds, selected |-> selected, read |-> read, todo |-> todo,
           missed |-> oldMissed, held |-> oldHeld, stopped |-> stopped]
  BY CallParts
<1>2. \/ d = [c EXCEPT !.held = held, !.pc = pc] /\ missed = oldMissed
      \/ d = [c EXCEPT !.missed = missed] /\ held = oldHeld /\ pc = from
  OBVIOUS
<1> HIDE DEF from, adds, selected, read, todo, oldMissed, oldHeld, stopped
<1>3. d = [pc |-> pc, adds |-> adds, selected |-> selected, read |-> read, todo |-> todo,
           missed |-> missed, held |-> held, stopped |-> stopped]
  BY <1>1, <1>2
<1> QED
  BY <1>3 DEF Becomes, adds, selected, read, todo, stopped

\* What a pass leaves a call: rows of as many files for each entry it kept.
ScanLeaves(c, upto, pass, keeps, held) ==
  /\ pass = RetainedAfter(upto, Among(c.selected, c.missed))
  /\ keeps = {e \in c.missed : ~pass[e].overflowed}
  /\ held = [e \in DOMAIN c.held \cup keeps |->
               IF e \in keeps THEN [query |-> e.query, content |-> c.read.content, files |-> pass[e].files]
               ELSE c.held[e]]

LEMMA ScanHolds ==
  ASSUME NEW c, CallHolds(c), c.pc = "get", c.todo = {}, NEW upto \in 0..FileCount,
         NEW pass, NEW keeps, NEW held, ScanLeaves(c, upto, pass, keeps, held)
  PROVE  WorkHolds(ToSet(c.selected), "insert", {}, c.missed \cap keeps, held, upto < FileCount)
<1> DEFINE entries == Among(c.selected, c.missed)
<1>1. /\ CallShape(c) /\ Unique(c.selected) /\ ~c.stopped
      /\ c.missed \subseteq ToSet(c.selected) /\ DOMAIN c.held \subseteq ToSet(c.selected)
      /\ \A e \in DOMAIN c.held : c.held[e].query = e.query /\ c.held[e].files = FileCount
  BY CallDetails
<1>2. /\ c.selected \in Seq(Entry) /\ c.held \in [DOMAIN c.held -> ScanRows]
      /\ c.read.content \in Nat
  BY <1>1, CallParts
<1>3. entries \in Seq(Entry) /\ Unique(entries) /\ ToSet(entries) = c.missed
  <2>1. entries \in Seq(Entry) /\ ToSet(entries) = ToSet(c.selected) \cap c.missed
    BY <1>2, AmongKeeps
  <2>2. Unique(entries)
    BY <1>1, <1>2, UniqueAmong
  <2> HIDE DEF entries
  <2> QED
    BY <1>1, <2>1, <2>2
<1> HIDE DEF entries
<1>4. upto \in Nat /\ FileCount \in Nat /\ upto <= FileCount
  BY MechanicsAssumption
<1>5. /\ pass \in [c.missed -> [files : Nat, overflowed : BOOLEAN]]
      /\ \A e \in c.missed : ~pass[e].overflowed => pass[e].files = upto
  <2>1. pass = RetainedAfter(upto, entries)
    BY DEF entries, ScanLeaves
  <2>2. /\ pass \in Passes(entries)
        /\ \A e \in ToSet(entries) : ~pass[e].overflowed => pass[e].files = upto
    BY <1>3, <1>4, <2>1, RetainedHolds
  <2> QED
    BY <1>3, <2>2 DEF Passes
<1>6. /\ DOMAIN held = DOMAIN c.held \cup keeps /\ keeps \subseteq c.missed
      /\ \A e \in keeps : held[e] = [query |-> e.query, content |-> c.read.content, files |-> upto]
      /\ \A e \in DOMAIN c.held : e \notin keeps => held[e] = c.held[e]
  <2>1. keeps = {e \in c.missed : ~pass[e].overflowed}
    BY DEF ScanLeaves
  <2>2. \A e \in keeps : pass[e].files = upto
    BY <1>5, <2>1
  <2> QED
    BY <2>1, <2>2 DEF ScanLeaves
<1>7. \A e \in keeps : held[e] \in ScanRows /\ held[e].query = e.query /\ held[e].files = upto
  <2> TAKE e \in keeps
  <2>1. e \in Entry
    BY <1>1, <1>2, <1>6, Members
  <2>2. e.query \in Queries
    BY <2>1 DEF Entry
  <2> QED
    BY <1>2, <1>4, <1>6, <2>2 DEF ScanRows
<1>8. \A e \in DOMAIN c.held \ keeps :
        held[e] \in ScanRows /\ held[e].query = e.query /\ held[e].files = FileCount
  BY <1>1, <1>2, <1>6
<1>9. held = [e \in DOMAIN held |-> held[e]]
  BY DEF ScanLeaves
<1>10. held \in [DOMAIN held -> ScanRows]
  BY <1>6, <1>7, <1>8, <1>9
<1>11. \A e \in DOMAIN held : held[e].query = e.query /\ (~(upto < FileCount) => held[e].files = FileCount)
  <2> TAKE e \in DOMAIN held
  <2>1. CASE e \in keeps
    <3>1. held[e].query = e.query /\ held[e].files = upto
      BY <1>7, <2>1
    <3> QED
      BY ONLY <1>4, <3>1
  <2>2. CASE e \notin keeps
    BY <1>6, <1>8, <2>2
  <2> QED
    BY <2>1, <2>2
<1>12. /\ c.missed \cap keeps \subseteq ToSet(c.selected) /\ c.missed \cap keeps \subseteq DOMAIN held
       /\ DOMAIN held \subseteq ToSet(c.selected) /\ (upto < FileCount) \in BOOLEAN
  BY <1>1, <1>6
<1> HIDE DEF entries
<1> QED
  BY ONLY <1>10, <1>11, <1>12 DEF WorkHolds

LEMMA ScanMissedKeeps ==
  ASSUME MechanicsInv, NEW t \in Callers, ScanMissed(t) PROVE MechanicsInv'
<1> DEFINE c == caller[t]
           pass(upto) == RetainedAfter(upto, Among(c.selected, c.missed))
           keeps(upto) == {e \in c.missed : ~pass(upto)[e].overflowed}
           held(upto) == [e \in DOMAIN c.held \cup keeps(upto) |->
                            IF e \in keeps(upto)
                              THEN [query |-> e.query, content |-> c.read.content,
                                    files |-> pass(upto)[e].files]
                            ELSE c.held[e]]
           next(upto) == [c EXCEPT !.held = held(upto), !.stopped = upto < FileCount,
                                   !.pc = "insert", !.missed = c.missed \cap keeps(upto)]
<1>1. PICK upto \in 0..FileCount : caller' = [caller EXCEPT ![t] = next(upto)]
  <2>1. caller = [u \in Callers |-> caller[u]]
    BY DEF MechanicsInv, MechanicsShape
  <2>2. PICK upto \in 0..FileCount :
          caller' = [caller EXCEPT ![t].held = held(upto), ![t].stopped = upto < FileCount,
                                   ![t].pc = "insert", ![t].missed = @ \cap keeps(upto)]
    BY DEF ScanMissed, Missed
  <2> HIDE DEF held, keeps
  <2>3. caller' = [caller EXCEPT ![t] = next(upto)]
    BY <2>1, <2>2
  <2> QED
    BY <2>3
<1>2. c.pc = "get" /\ c.todo = {} /\ CallHolds(c) /\ CallShape(c)
  BY CallIs DEF ScanMissed
<1> DEFINE aPass == pass(upto)
           aKeeps == keeps(upto)
           aHeld == held(upto)
           stopped == upto < FileCount
           left == c.missed \cap aKeeps
           d == next(upto)
<1>3. CallHolds(d)
  <2>1. /\ ScanLeaves(c, upto, aPass, aKeeps, aHeld)
        /\ d = [c EXCEPT !.held = aHeld, !.stopped = stopped, !.pc = "insert", !.missed = left]
    BY DEF ScanLeaves
  <2> HIDE DEF c, aPass, aKeeps, aHeld, d
  <2>2. WorkHolds(ToSet(c.selected), "insert", {}, left, aHeld, stopped)
    BY <1>1, <1>2, <2>1, ScanHolds
  <2> HIDE DEF left, stopped
  <2>3. Becomes(d, c, "insert", c.read, c.todo, left, aHeld, stopped)
    BY <1>2, <2>1, BecomesByScan
  <2>4. Becomes(d, c, "insert", c.read, {}, left, aHeld, stopped)
    BY <1>2, <2>3
  <2> QED
    BY <1>2, <2>2, <2>4, CallWorks
<1>4. CallsHold'
  <2> HIDE DEF next
  <2> QED
    BY <1>1, <1>3, CallMoves
<1>5. EntriesHold' /\ ScansHold' /\ RestHolds'
  BY EntriesSame, ScansSame DEF ScanMissed, MechanicsInv, MechanicsShape, RestHolds
<1> QED
  BY <1>4, <1>5, MechanicsPartsNext

\* The cache after an insertion of whole rows.
LEMMA InsertHolds ==
  ASSUME MechanicsInv, NEW key \in [id : MechanicIds, query : Queries, revision : Nat],
         NEW rows \in ScanRows, rows.query = key.query, rows.files = FileCount, CacheInsert(key, rows)
  PROVE  ScansHold'
<1> DEFINE fresh == DropStale(cached, key.revision)
           old == {e \in ToSet(fresh) : SameKey(e.key, key)}
           S == ToSet(fresh) \ old
           others == Among(fresh, S)
           bytes == ScanBytes(rows)
           counted == Uncharged(Recounted(fresh), Among(fresh, old))
           n == Evicted(others, counted, bytes)
           left == SubSeq(others, n + 1, Len(others))
           scan == [key |-> key, rows |-> rows]
<1>1. /\ bytes > CacheBudget => cached' = fresh /\ cacheBytes' = Charged(fresh)
      /\ ~(bytes > CacheBudget) => /\ cached' = Append(left, scan)
                                   /\ cacheBytes' = Uncharged(counted, SubSeq(others, 1, n)) + bytes
  <2>1. Recounted(fresh) = Charged(fresh)
    BY RecountedIs
  <2> QED
    BY <2>1 DEF CacheInsert
<1>2. cached \in Seq(CachedScans) /\ WholeScans(cached) /\ cacheBytes = Charged(cached) /\ cacheBytes <= CacheBudget
  BY DEF MechanicsInv, MechanicsShape, CacheHolds
<1>3. /\ fresh \in Seq(CachedScans) /\ WholeScans(fresh) /\ Charged(fresh) <= Charged(cached)
      /\ \A i \in 1..Len(fresh) : fresh[i].key.revision = key.revision
  BY <1>2, DropStaleHolds
<1>4. bytes \in Nat /\ CacheBudget \in Nat
  BY BytesAreNat, MechanicsAssumption
<1>5. scan \in CachedScans /\ scan.key = key /\ scan.rows = rows
  BY DEF CachedScans
<1> HIDE DEF fresh, bytes, scan
<1>6. CASE bytes > CacheBudget
  <2>1. cached' = fresh /\ cacheBytes' = Charged(fresh)
    BY <1>1, <1>6
  <2>2. Charged(fresh) \in Nat /\ Charged(cached) \in Nat
    BY <1>2, <1>3, ChargedIs
  <2>3. Charged(fresh) <= CacheBudget
    BY <1>2, <1>3, <1>4, <2>2
  <2> QED
    BY <1>3, <2>1, <2>3 DEF ScansHold, CacheHolds
<1>7. CASE ~(bytes > CacheBudget)
  <2>1. /\ cached' = Append(left, scan) /\ bytes <= CacheBudget
        /\ cacheBytes' = Uncharged(counted, SubSeq(others, 1, n)) + bytes
    <3> HIDE DEF left, n, counted, others
    <3> QED
      BY <1>1, <1>4, <1>7
  <2>2. /\ others \in Seq(CachedScans) /\ WholeScans(others)
        /\ \A i \in 1..Len(others) : others[i].key.revision = key.revision
    <3> HIDE DEF S
    <3>1. others \in Seq(CachedScans) /\ WholeScans(others) /\ ToSet(others) \subseteq ToSet(fresh)
      BY <1>3, WholeAmong, AmongKeeps
    <3> HIDE DEF others
    <3>2. \A e \in ToSet(fresh) : e.key.revision = key.revision
      BY <1>3, Members
    <3>3. \A i \in 1..Len(others) : others[i] \in ToSet(fresh)
      BY <3>1, Members
    <3> QED
      BY <3>1, <3>2, <3>3
  <2>7. counted = Charged(others)
    <3> DEFINE gone == Among(fresh, old)
    <3>1. \A i \in 1..Len(fresh) : (fresh[i] \in old) <=> ~(fresh[i] \in S)
      BY <1>3, Members
    <3>2. gone \in Seq(CachedScans)
      <4> HIDE DEF old
      <4> QED
        BY <1>3, WholeAmong
    <3> HIDE DEF old, S
    <3>3. Charged(fresh) = Charged(gone) + Charged(others)
      BY <1>3, <3>1, ChargedInParts
    <3> HIDE DEF others, gone
    <3>4. Charged(gone) \in Nat /\ Charged(others) \in Nat
      BY <2>2, <3>2, ChargedIs
    <3>5. Recounted(fresh) = Charged(fresh)
      BY RecountedIs
    <3>6. counted = Uncharged(Charged(fresh), gone)
      BY <3>5 DEF gone
    <3> HIDE DEF counted
    <3> QED
      BY <3>3, <3>4, <3>6 DEF Uncharged
  <2> HIDE DEF others, counted
  <2>3. /\ left \in Seq(CachedScans) /\ Charged(left) + bytes <= CacheBudget
        /\ Uncharged(counted, SubSeq(others, 1, n)) = Charged(left)
        /\ \A i \in 1..Len(left) : \E j \in 1..Len(others) : left[i] = others[j]
    <3>1. left = SubSeq(others, Evicted(others, counted, bytes) + 1, Len(others))
      OBVIOUS
    <3>2. n = Evicted(others, counted, bytes)
      OBVIOUS
    <3> HIDE DEF left, n
    <3> QED
      <4>1. /\ others \in Seq(CachedScans) /\ counted = Charged(others) /\ bytes \in Nat /\ bytes <= CacheBudget
        BY <1>4, <2>1, <2>2, <2>7
      <4>2. RoomIsMade(others, counted, bytes, left)
        BY <3>1, <4>1, EvictedFits
      <4> QED
        BY <3>2, <4>2 DEF RoomIsMade
  <2> HIDE DEF left, n
  <2>4. WholeScans(left) /\ \A i \in 1..Len(left) : left[i].key.revision = key.revision
    <3>1. WholeScans(left)
      BY <2>2, <2>3, WholeWithin
    <3> QED
      BY <2>2, <2>3, <3>1
  <2>5. cached' \in Seq(CachedScans) /\ cacheBytes' = Charged(left) + bytes /\ cacheBytes' = Charged(cached')
    BY <1>5, <2>1, <2>3, ChargedMore DEF bytes
  <2>6. WholeScans(cached')
    <3> DEFINE size == Len(left)
    <3>1. size \in Nat /\ DOMAIN left = 1..size /\ Len(cached') = size + 1
      BY <1>5, <2>1, <2>3, AppendProperties, LenProperties
    <3>2. /\ DOMAIN cached' = 1 .. (size + 1) /\ cached'[size + 1] = scan
          /\ \A i \in 1..size : cached'[i] = left[i]
      BY <1>5, <2>1, <2>3, <2>5, <3>1, AppendProperties, LenProperties
    <3>3. \A i \in 1 .. (size + 1) :
            /\ cached'[i].rows.files = FileCount /\ cached'[i].rows.query = cached'[i].key.query
            /\ cached'[i].key.revision = key.revision
      <4> TAKE i \in 1 .. (size + 1)
      <4>1. CASE i = size + 1
        BY <1>5, <3>2, <4>1
      <4>2. CASE i # size + 1
        <5>1. i \in 1..size
          BY <3>1, <4>2
        <5> QED
          BY <2>4, <3>1, <3>2, <5>1 DEF WholeScans
      <4> QED
        BY <4>1, <4>2
    <3> QED
      BY <3>2, <3>3 DEF WholeScans
  <2> QED
    BY <2>1, <2>3, <2>5, <2>6 DEF ScansHold, CacheHolds
<1> QED
  BY <1>6, <1>7

LEMMA InsertRowsKeeps ==
  ASSUME MechanicsInv, NEW t \in Callers, NEW entry \in Entry, InsertRows(t, entry) PROVE MechanicsInv'
<1> DEFINE c == caller[t]
           missed == c.missed \ {entry}
           d == [c EXCEPT !.missed = missed]
<1>1. /\ c.pc = "insert" /\ entry \in c.missed /\ ~c.stopped
      /\ CacheInsert(KeyOf(t, entry), c.held[entry]) /\ caller' = [caller EXCEPT ![t] = d]
  <2>1. caller = [u \in Callers |-> caller[u]]
    BY DEF MechanicsInv, MechanicsShape
  <2> QED
    BY <2>1 DEF InsertRows, Caches
<1>2. CallHolds(c) /\ CallShape(c)
  BY CallIs
<1>3. /\ c.todo \subseteq ToSet(c.selected) /\ c.missed \subseteq ToSet(c.selected)
      /\ DOMAIN c.held \subseteq ToSet(c.selected) /\ c.missed \subseteq DOMAIN c.held
      /\ \A e \in DOMAIN c.held : c.held[e].query = e.query /\ (~c.stopped => c.held[e].files = FileCount)
      /\ c.held \in [DOMAIN c.held -> ScanRows] /\ c.stopped \in BOOLEAN
      /\ c.read \in [revision : Nat, content : Nat]
  <2> HIDE DEF c
  <2> QED
    BY <1>1, <1>2, CallDetails, CallParts
<1>4. ScansHold'
  <2> DEFINE key == KeyOf(t, entry)
             rows == c.held[entry]
  <2>1. key \in [id : MechanicIds, query : Queries, revision : Nat] /\ key.query = entry.query
    BY <1>3 DEF KeyOf, Entry
  <2>2. rows \in ScanRows /\ rows.query = entry.query /\ rows.files = FileCount
    <3> HIDE DEF c
    <3> QED
      BY <1>1, <1>3
  <2>3. CacheInsert(key, rows)
    BY <1>1
  <2> HIDE DEF key, rows
  <2> QED
    BY <2>1, <2>2, <2>3, InsertHolds
<1>5. CallHolds(d)
  <2> HIDE DEF c
  <2>1. WorkHolds(ToSet(c.selected), "insert", c.todo, missed, c.held, c.stopped)
    BY <1>3 DEF WorkHolds
  <2>2. Becomes(d, c, c.pc, c.read, c.todo, missed, c.held, c.stopped)
    <3> HIDE DEF missed
    <3> QED
      BY <1>2, BecomesByEnd
  <2>3. Becomes(d, c, "insert", c.read, c.todo, missed, c.held, c.stopped)
    BY <1>1, <2>2
  <2> HIDE DEF d, missed
  <2> QED
    BY <1>2, <2>1, <2>3, CallWorks
<1>6. CallsHold'
  <2> HIDE DEF d
  <2> QED
    BY <1>1, <1>5, CallMoves
<1>7. EntriesHold' /\ RestHolds'
  BY EntriesSame DEF InsertRows, MechanicsInv, MechanicsShape, RestHolds
<1> QED
  BY <1>4, <1>6, <1>7, MechanicsPartsNext

LEMMA StreamRowsKeeps ==
  ASSUME MechanicsInv, NEW t \in Callers, StreamRows(t) PROVE MechanicsInv'
<1> DEFINE c == caller[t]
           again == {e \in ToSet(c.selected) : e \notin DOMAIN c.held}
           whole == [e \in DOMAIN c.held \cup again |->
                       IF e \in again THEN AllRows(e.query, c.read.content) ELSE c.held[e]]
           d == [c EXCEPT !.held = whole, !.pc = "done"]
<1>1. caller' = [caller EXCEPT ![t] = d] \/ caller' = [caller EXCEPT ![t] = Waiting]
  <2>1. caller = [u \in Callers |-> caller[u]]
    BY DEF MechanicsInv, MechanicsShape
  <2>2. \/ caller' = [caller EXCEPT ![t].held = whole, ![t].pc = "done"]
        \/ caller' = [caller EXCEPT ![t] = Waiting]
    BY DEF StreamRows
  <2> HIDE DEF whole
  <2> QED
    BY <2>1, <2>2
<1>2. CallHolds(c) /\ CallShape(c)
  BY CallIs
<1>3. CallHolds(d)
  <2> HIDE DEF c
  <2>1. /\ c.todo \subseteq ToSet(c.selected) /\ c.missed \subseteq ToSet(c.selected)
        /\ DOMAIN c.held \subseteq ToSet(c.selected)
        /\ \A e \in DOMAIN c.held : c.held[e].query = e.query /\ (~c.stopped => c.held[e].files = FileCount)
        /\ c.held \in [DOMAIN c.held -> ScanRows] /\ c.stopped \in BOOLEAN
        /\ c.read.content \in Nat /\ c.selected \in Seq(Entry)
    BY <1>2, CallDetails, CallParts
  <2>2. \A e \in again : AllRows(e.query, c.read.content) \in ScanRows
    <3> TAKE e \in again
    <3>1. e \in Entry
      BY <2>1, Members
    <3>2. e.query \in Queries /\ FileCount \in Nat
      BY <3>1, MechanicsAssumption DEF Entry
    <3> QED
      BY <2>1, <3>2 DEF AllRows, ScanRows
  <2>3. DOMAIN whole = ToSet(c.selected) /\ whole \in [DOMAIN whole -> ScanRows]
    BY <2>1, <2>2
  <2>4. \A e \in DOMAIN whole : whole[e].query = e.query /\ (~c.stopped => whole[e].files = FileCount)
    BY <2>1, <2>3 DEF AllRows
  <2>5. Becomes(d, c, "done", c.read, c.todo, c.missed, whole, c.stopped)
    <3> HIDE DEF whole
    <3> QED
      BY <1>2, BecomesByEnd
  <2> HIDE DEF whole, d
  <2>6. WorkHolds(ToSet(c.selected), "done", c.todo, c.missed, whole, c.stopped)
    BY <2>1, <2>3, <2>4 DEF WorkHolds
  <2> QED
    BY <1>2, <2>5, <2>6, CallWorks
<1>4. CallsHold'
  <2> HIDE DEF d
  <2> QED
    BY <1>1, <1>3, WaitingHolds, CallMoves
<1>5. EntriesHold' /\ ScansHold' /\ RestHolds'
  BY EntriesSame, ScansSame DEF StreamRows, MechanicsInv, MechanicsShape, RestHolds
<1> QED
  BY <1>4, <1>5, MechanicsPartsNext

LEMMA MechanicsKept == MechanicsInv /\ [MechanicsNext]_mechanicsVars => MechanicsInv'
<1> SUFFICES ASSUME MechanicsInv, [MechanicsNext]_mechanicsVars PROVE MechanicsInv'
  OBVIOUS
<1>1. CASE UNCHANGED mechanicsVars
  BY <1>1 DEF mechanicsVars, MechanicsInv, MechanicsShape, RegisteredOnce, CacheHolds
<1>2. ASSUME NEW t \in Callers, BeginLeads(t) PROVE MechanicsInv'
  BY <1>2, BeginLeadsKeeps
<1>3. ASSUME NEW t \in Callers, NEW entry \in Entry, BeginAdd(t, entry) PROVE MechanicsInv'
  BY <1>3, BeginAddKeeps
<1>4. ASSUME NEW t \in Callers, NEW entry \in Entry, GetCached(t, entry) PROVE MechanicsInv'
  BY <1>4, GetCachedKeeps
<1>5. ASSUME NEW t \in Callers, NEW entry \in Entry, InsertRows(t, entry) PROVE MechanicsInv'
  BY <1>5, InsertRowsKeeps
<1>6. ASSUME NEW t \in Callers, OpenRead(t) PROVE MechanicsInv'
  BY <1>6, OpenReadKeeps
<1>7. ASSUME NEW t \in Callers, ScanMissed(t) PROVE MechanicsInv'
  BY <1>7, ScanMissedKeeps
<1>8. ASSUME NEW t \in Callers, StreamRows(t) PROVE MechanicsInv'
  BY <1>8, StreamRowsKeeps
<1>9. ASSUME NEW t \in Callers, EndLeads(t) PROVE MechanicsInv'
  BY <1>9, EndLeadsKeeps
<1>10. ASSUME NEW t \in Callers, PushEntry(t) PROVE MechanicsInv'
  BY <1>10, PushEntryKeeps
<1>11. ASSUME NEW t \in Callers, NEW id \in MechanicIds, BeginRemove(t, id) PROVE MechanicsInv'
  BY <1>11, BeginRemoveKeeps
<1>12. ASSUME NEW t \in Callers, ForgetScans(t) PROVE MechanicsInv'
  BY <1>12, ForgetScansKeeps
<1>13. ASSUME NEW t \in Callers, DropEntry(t) PROVE MechanicsInv'
  BY <1>13, DropEntryKeeps
<1>14. CASE PublishEdit \/ RebuildIndex
  BY <1>14, IndexMovesKeep
<1> QED
  BY <1>1, <1>2, <1>3, <1>4, <1>5, <1>6, <1>7, <1>8, <1>9, <1>10, <1>11, <1>12, <1>13, <1>14
     DEF MechanicsNext

\* The invariant holds throughout: ids are registered once, the cache is charged
\* for what it holds, and each call holds rows for its own entries.
THEOREM MechanicsHold == MechanicsSpec => []MechanicsInv
<1>1. MechanicsInit => MechanicsInv
  BY MechanicsBegins
<1>2. MechanicsInv /\ [MechanicsNext]_mechanicsVars => MechanicsInv'
  BY MechanicsKept
<1> QED
  BY <1>1, <1>2, PTL DEF MechanicsSpec

\* The cache holds scans of every file of one revision within its budget, and
\* ids are registered once, however adds, removals and calls interleave.
THEOREM CacheStaysSound == MechanicsSpec => []CacheIsSound
<1>1. MechanicsInv => CacheIsSound
  BY DEF MechanicsInv, CacheHolds, WholeScans, CacheIsSound
<1> QED
  BY <1>1, MechanicsHold, PTL

\* A call that was not stopped answers each selected mechanic with the rows of
\* its own query in every file.
THEOREM AnswersStayWhole == MechanicsSpec => []AnswersAreWhole
<1>1. MechanicsInv => AnswersAreWhole
  <2> SUFFICES ASSUME MechanicsInv, NEW t \in Callers, caller[t].pc = "done",
                      NEW i \in DOMAIN caller[t].selected
               PROVE  LET rows == caller[t].held[caller[t].selected[i]]
                      IN /\ rows.query = caller[t].selected[i].query
                         /\ ~caller[t].stopped => rows.files = FileCount
    BY DEF AnswersAreWhole
  <2> DEFINE c == caller[t]
  <2>1. CallHolds(c) /\ c.selected \in Seq(Entry) /\ c.pc = "done" /\ i \in DOMAIN c.selected
    BY CallIs
  <2> HIDE DEF c
  <2>2. /\ ToSet(c.selected) = DOMAIN c.held
        /\ \A e \in DOMAIN c.held : c.held[e].query = e.query /\ (~c.stopped => c.held[e].files = FileCount)
    BY <2>1, CallDetails
  <2>3. c.selected[i] \in ToSet(c.selected)
    BY <2>1, Members
  <2>4. /\ c.held[c.selected[i]].query = c.selected[i].query
        /\ ~c.stopped => c.held[c.selected[i]].files = FileCount
    BY <2>2, <2>3
  <2> QED
    BY <2>4 DEF c
<1> QED
  BY <1>1, MechanicsHold, PTL
=============================================================================
