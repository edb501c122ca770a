---------------------------- MODULE ReadingProofs ----------------------------
(* Proofs about what a tool call reads and under which limits: that a chain   *)
(* of structure requests accounts for every file (StructureScan), what a page *)
(* of a stored result holds and says (Paging), that the limits in force are   *)
(* those the files, the profile and the overrides give (ResourceLimits), that *)
(* a span is where counting puts it (LineIndex), and that the evidence of a   *)
(* file is what its tree has (Evidence).                                      *)
EXTENDS StructureScan, Paging, ResourceLimits, LineIndex, Evidence, FoldProofs, SequenceTheorems

(***************************************************************************)
(* StructureScan.                                                          *)
(***************************************************************************)

-----------------------------------------------------------------------------
(* The structure scan: what a window holds.                                 *)

LEMMA InSequence ==
  ASSUME NEW X, NEW s \in Seq(X)
  PROVE  /\ \A i \in 1..Len(s) : s[i] \in ToSet(s) /\ s[i] \in X
         /\ \A e \in ToSet(s) : e \in X /\ \E i \in 1..Len(s) : s[i] = e
         /\ DOMAIN s = 1..Len(s) /\ Len(s) \in Nat
<1>1. DOMAIN s = 1..Len(s) /\ Len(s) \in Nat /\ \A i \in 1..Len(s) : s[i] \in X
  BY LenProperties, ElementOfSeq
<1> QED
  BY <1>1 DEF ToSet

Windows == [files : Seq(ScanPaths), bytes : 0..WindowBytes, over : SUBSET ScanPaths,
            last : 0..LastPath, full : BOOLEAN]

\* After the paths up to k: the window's files and those passed over are all the
\* matching ones up to the last examined, in the order of their paths.
WindowHolds(start, k, w) ==
  /\ w \in Windows /\ (w.last = start \/ w.last \in 1..k) /\ w.last >= start
  /\ \A f \in ScanPaths : f \in ToSet(w.files) \cup w.over <=> f \in Matching(start) /\ f <= w.last
  /\ \A i, j \in 1..Len(w.files) : i < j => w.files[i] < w.files[j]
  /\ ~w.full => \A f \in Matching(start) : f <= k => f <= w.last
  /\ w.files = <<>> => w.bytes = 0
  /\ w.full => w.files # <<>>

Sized == sizes \in [ScanPaths -> Nat]

LEMMA ScanFacts ==
  /\ LastPath \in Nat /\ WindowBytes \in Nat /\ FileSizes \subseteq Nat \ {0} /\ ParseLimits \subseteq Nat
  /\ MaxTreeMoves \in Nat
BY ScanAssumption

LEMMA SmallerLimit ==
  ASSUME NEW limit \in Nat
  PROVE  PerFileLimit(limit) \in Nat /\ PerFileLimit(limit) <= WindowBytes /\ PerFileLimit(limit) <= limit
<1>1. WindowBytes \in Nat
  BY ScanFacts
<1>2. \E x \in {limit, WindowBytes} : \A y \in {limit, WindowBytes} : x <= y
  BY <1>1
<1> DEFINE m == CHOOSE x \in {limit, WindowBytes} : \A y \in {limit, WindowBytes} : x <= y
<1>3. m \in {limit, WindowBytes} /\ \A y \in {limit, WindowBytes} : m <= y
  BY <1>2
<1>4. PerFileLimit(limit) = m
  BY DEF PerFileLimit, Min
<1> HIDE DEF m
<1> QED
  BY <1>1, <1>3, <1>4

\* The window after one more file, which matches and is not past it.
LEMMA ExamineSteps ==
  ASSUME NEW w \in Windows, NEW f \in ScanPaths, NEW limit \in Nat, Sized
  PROVE  \/ w.full /\ Examine(w, f, limit) = w
         \/ /\ ~w.full /\ sizes[f] > PerFileLimit(limit)
            /\ Examine(w, f, limit) = [w EXCEPT !.over = w.over \cup {f}, !.last = f]
         \/ /\ ~w.full /\ sizes[f] <= WindowBytes /\ w.bytes + sizes[f] > WindowBytes
            /\ Examine(w, f, limit) = [w EXCEPT !.full = TRUE]
         \/ /\ ~w.full /\ w.bytes + sizes[f] <= WindowBytes
            /\ Examine(w, f, limit) = [w EXCEPT !.files = Append(w.files, f), !.bytes = w.bytes + sizes[f],
                                                !.last = f]
<1>1. sizes[f] \in Nat /\ w.bytes \in Nat /\ WindowBytes \in Nat
  BY ScanFacts DEF Sized, Windows
<1>2. PerFileLimit(limit) \in Nat /\ PerFileLimit(limit) <= WindowBytes
  BY SmallerLimit
<1>3. CASE w.full
  BY <1>3 DEF Examine
<1>4. CASE ~w.full /\ sizes[f] > PerFileLimit(limit)
  BY <1>4 DEF Examine, PassOverLarge
<1>5. CASE ~w.full /\ ~(sizes[f] > PerFileLimit(limit))
  <2>1. sizes[f] <= WindowBytes
    BY <1>1, <1>2, <1>5
  <2>2. CASE FitsWindow(w, f)
    <3>1. Examine(w, f, limit) = [w EXCEPT !.files = Append(w.files, f), !.bytes = w.bytes + sizes[f],
                                           !.last = f]
      BY <1>5, <2>2 DEF Examine
    <3>2. w.bytes + sizes[f] <= WindowBytes
      BY <2>2 DEF FitsWindow
    <3> QED
      BY <1>5, <3>1, <3>2
  <2>3. CASE ~FitsWindow(w, f)
    <3>1. Examine(w, f, limit) = [w EXCEPT !.full = TRUE]
      BY <1>5, <2>3 DEF Examine, CutBefore
    <3>2. w.bytes + sizes[f] > WindowBytes
      BY <1>1, <2>3 DEF FitsWindow
    <3> QED
      BY <1>5, <2>1, <3>1, <3>2
  <2> QED
    BY <2>2, <2>3
<1> QED
  BY <1>3, <1>4, <1>5

LEMMA ExamineStays ==
  ASSUME NEW w \in Windows, NEW f \in ScanPaths, NEW start, NEW limit \in Nat, Sized
  PROVE  ExamineMatching(w, f, start, limit) \in Windows
<1> DEFINE x == Examine(w, f, limit)
<1>1. /\ f \in 0..LastPath /\ sizes[f] \in Nat /\ w.bytes \in Nat /\ w.bytes + sizes[f] \in Nat
      /\ Append(w.files, f) \in Seq(ScanPaths) /\ w.over \cup {f} \in SUBSET ScanPaths /\ WindowBytes \in Nat
  <2>1. f \in 0..LastPath /\ sizes[f] \in Nat /\ w.bytes \in Nat /\ WindowBytes \in Nat
    BY ScanFacts DEF Sized, Windows, ScanPaths
  <2>2. w.files \in Seq(ScanPaths) /\ w.over \in SUBSET ScanPaths
    BY SMTT(40) DEF Windows
  <2> QED
    BY <2>1, <2>2, AppendProperties
<1>2. x \in Windows
  <2>1. CASE x = w
    BY <2>1
  <2>2. CASE x = [w EXCEPT !.over = w.over \cup {f}, !.last = f]
    <3> DEFINE over == w.over \cup {f}
    <3> HIDE DEF over, x
    <3> QED
      BY <1>1, <2>2 DEF Windows, over
  <2>3. CASE x = [w EXCEPT !.full = TRUE]
    <3> HIDE DEF x
    <3> QED
      BY <2>3 DEF Windows
  <2>4. CASE w.bytes + sizes[f] <= WindowBytes
             /\ x = [w EXCEPT !.files = Append(w.files, f), !.bytes = w.bytes + sizes[f], !.last = f]
    <3> DEFINE files == Append(w.files, f)
               bytes == w.bytes + sizes[f]
    <3>1. bytes \in 0..WindowBytes
      BY <1>1, <2>4
    <3> HIDE DEF files, bytes, x
    <3>2. x = [w EXCEPT !.files = files, !.bytes = bytes, !.last = f] /\ files \in Seq(ScanPaths)
      BY <1>1, <2>4 DEF files, bytes
    <3> QED
      BY <1>1, <3>1, <3>2 DEF Windows
  <2> QED
    BY <2>1, <2>2, <2>3, <2>4, ExamineSteps, ZenonT(60)
<1> QED
  BY <1>2 DEF ExamineMatching

WindowSteps(start, limit, run) ==
  /\ run[0] = EmptyWindow(start)
  /\ \A k \in ScanPaths : run[k] = ExamineMatching(run[k - 1], k, start, limit)

LEMMA WindowRuns ==
  ASSUME NEW start \in 0..LastPath, NEW limit \in Nat, Sized
  PROVE  \E run \in [0..LastPath -> Windows] :
           WindowSteps(start, limit, run) /\ SourceWindow(start, limit) = run[LastPath]
<1> DEFINE n == LastPath
           V == Windows
           none == EmptyWindow(start)
           numbers == [i \in ScanPaths |-> i]
           step == [i \in 1..n |-> [v \in V |-> ExamineMatching(v, i, start, limit)]]
           Rec(h) == [d \in SUBSET ScanPaths |->
                        IF d = {} THEN none
                                  ELSE ExamineMatching(h[d \ {Max(d)}], numbers[Max(d)], start, limit)]
<1>0. n \in Nat /\ ScanPaths = 1..n /\ WindowBytes \in Nat
  BY ScanFacts DEF ScanPaths
<1>1. none \in V /\ DOMAIN numbers = 1..n /\ \A i \in 1..n : numbers[i] = i
  BY <1>0 DEF EmptyWindow, Windows
<1>2. \A i \in 1..n, v \in V : step[i][v] = ExamineMatching(v, i, start, limit) /\ step[i][v] \in V
  BY <1>0, ExamineStays
<1>3. PICK g \in [SUBSET (1..n) -> V] : FoldOf(1..n, none, LastIn(n), step, g)
  <2> HIDE DEF n, step, V, none
  <2> QED
    BY <1>0, <1>1, <1>2, SequenceFoldExists
<1>4. ASSUME NEW d \in SUBSET (1..n)
      PROVE  g[d] = IF d = {} THEN none ELSE ExamineMatching(g[d \ {Max(d)}], Max(d), start, limit)
  <2>1. g[d] = IF d = {} THEN none ELSE step[LastIn(n)[d]][g[d \ {LastIn(n)[d]}]]
    BY <1>3 DEF FoldOf
  <2>2. CASE d # {}
    <3>1. LastIn(n)[d] = Max(d) /\ Max(d) \in d /\ d \ {Max(d)} \in SUBSET (1..n)
      BY <1>0, <2>2, MaxIsIn DEF LastIn
    <3>2. Max(d) \in 1..n /\ g[d \ {Max(d)}] \in V
      BY <1>3, <3>1
    <3> HIDE DEF step, V
    <3> QED
      BY <1>2, <2>1, <2>2, <3>1, <3>2
  <2> QED
    BY <2>1, <2>2
<1>11. \A d \in SUBSET (1..n) : d # {} => Max(d) \in 1..n /\ numbers[Max(d)] = Max(d)
  <2>1. \A d \in SUBSET (1..n) : d # {} => Max(d) \in 1..n
    BY <1>0, MaxIsIn
  <2> HIDE DEF numbers
  <2> QED
    BY <1>1, <2>1
<1>5. g = Rec(g)
  <2>1. g = [d \in SUBSET (1..n) |-> g[d]]
    BY <1>3
  <2>2. ASSUME NEW d \in SUBSET ScanPaths
        PROVE  g[d] = IF d = {} THEN none
                      ELSE ExamineMatching(g[d \ {Max(d)}], numbers[Max(d)], start, limit)
    <3> HIDE DEF numbers, none
    <3> QED
      BY <1>0, <1>4, <1>11
  <2> QED
    BY <1>0, <2>1, <2>2
<1>6. PICK h : h = Rec(h) /\ SourceWindow(start, limit) = h[1..n]
  <2> DEFINE it == CHOOSE h : h = Rec(h)
  <2>1. SourceWindow(start, limit) = it[1..n]
    <3>1. SourceWindow(start, limit) = it[ScanPaths]
      BY DEF SourceWindow, FoldLeft, MapThenFoldSet
    <3> QED
      BY <1>0, <3>1
  <2>2. it = Rec(it)
    BY <1>5
  <2> QED
    BY <2>1, <2>2
<1>7. h[{}] = none
  <2>1. {} \in SUBSET (1..n)
    OBVIOUS
  <2> QED
    BY <1>6, <2>1
<1>8. ASSUME NEW d \in SUBSET (1..n), d # {}, h[d \ {Max(d)}] \in V
      PROVE  h[d] = step[Max(d)][h[d \ {Max(d)}]]
  <2>1. Max(d) \in 1..n
    BY <1>0, <1>8, MaxIsIn
  <2>2. h[d] = ExamineMatching(h[d \ {Max(d)}], numbers[Max(d)], start, limit)
    BY <1>0, <1>6, <1>8
  <2>3. numbers[Max(d)] = Max(d)
    BY <1>8, <1>11
  <2> HIDE DEF step, V, numbers
  <2> QED
    BY <1>2, <1>8, <2>1, <2>2, <2>3
<1>9. PICK run \in [0..n -> V] :
        /\ run[0] = none /\ run[n] = h[1..n]
        /\ \A k \in 1..n : run[k] = step[k][run[k - 1]]
  <2>1. /\ n \in Nat /\ none \in V /\ \A i \in 1..n, v \in V : step[i][v] \in V
        /\ \A d \in SUBSET (1..n) : d # {} /\ h[d \ {Max(d)}] \in V =>
             h[d] = step[Max(d)][h[d \ {Max(d)}]]
    BY <1>0, <1>1, <1>2, <1>8
  <2> HIDE DEF n, step, V, none
  <2>2. FoldsBy(n, V, none, step, h)
    BY <1>7, <2>1 DEF FoldsBy
  <2> QED
    BY <2>2, FoldSteps
<1>10. WindowSteps(start, limit, run)
  <2>1. ASSUME NEW k \in 1..n PROVE run[k] = ExamineMatching(run[k - 1], k, start, limit)
    <3>1. run[k - 1] \in V
      <4> HIDE DEF n, step, V
      <4>1. k - 1 \in 0..n
        BY <1>0
      <4> QED
        BY <1>9, <4>1
    <3> HIDE DEF step, V
    <3> QED
      BY <1>2, <1>9, <3>1
  <2> QED
    BY <1>0, <1>9, <2>1 DEF WindowSteps
<1> QED
  BY <1>6, <1>9, <1>10

LEMMA NothingRead ==
  ASSUME NEW start \in 0..LastPath
  PROVE  WindowHolds(start, 0, EmptyWindow(start))
<1> DEFINE none == EmptyWindow(start)
<1>1. LastPath \in Nat /\ WindowBytes \in Nat /\ ScanPaths = 1..LastPath
  BY ScanFacts DEF ScanPaths
<1>2. /\ none.files = <<>> /\ none.over = {} /\ none.last = start /\ none.full = FALSE
      /\ none.bytes = 0 /\ none \in Windows /\ start >= start
  BY <1>1 DEF EmptyWindow, Windows
<1>3. ToSet(<<>>) = {} /\ Len(<<>>) = 0
  BY DEF ToSet
<1>4. \A f \in Matching(start) : f \in 1..LastPath /\ f > start
  BY <1>1 DEF Matching
<1> HIDE DEF none
<1>5. \A f \in ScanPaths : f \in ToSet(none.files) \cup none.over <=> f \in Matching(start) /\ f <= none.last
  <2>1. \A f \in ScanPaths : ~(f \in Matching(start) /\ f <= start)
    BY <1>1, <1>4
  <2> QED
    BY <1>2, <1>3, <2>1
<1>6. \A f \in Matching(start) : ~(f <= 0)
  BY <1>1, <1>4
<1>7. WindowHolds(start, 0, none)
  BY <1>2, <1>3, <1>5, <1>6 DEF WindowHolds
<1> QED
  BY <1>7 DEF none

\* What the window gets when it takes one more file at its end.
LEMMA AppendInOrder ==
  ASSUME NEW s \in Seq(ScanPaths), NEW k \in ScanPaths,
         \A i, j \in 1..Len(s) : i < j => s[i] < s[j],
         \A f \in ToSet(s) : f < k
  PROVE  LET t == Append(s, k)
         IN /\ ToSet(t) = ToSet(s) \cup {k} /\ t # <<>> /\ t \in Seq(ScanPaths)
            /\ \A i, j \in 1..Len(t) : i < j => t[i] < t[j]
<1> DEFINE t == Append(s, k)
           n == Len(s)
           m == Len(t)
<1>1. /\ n \in Nat /\ m = n + 1 /\ t[m] = k /\ t \in Seq(ScanPaths)
      /\ \A i \in 1..n : t[i] = s[i] /\ s[i] \in ToSet(s)
      /\ \A f \in ToSet(s) : \E i \in 1..n : s[i] = f
  BY InSequence, AppendProperties, LenProperties
<1>2. /\ \A i \in 1..m : t[i] \in ToSet(t)
      /\ \A f \in ToSet(t) : \E i \in 1..m : t[i] = f
  <2>1. t \in Seq(ScanPaths)
    BY <1>1
  <2> HIDE DEF t
  <2> QED
    BY <2>1, InSequence
<1>3. t # <<>>
  BY AppendProperties
<1> HIDE DEF t, n, m
<1>4. ToSet(t) = ToSet(s) \cup {k}
  <2>1. m \in 1..m /\ \A i \in 1..n : i \in 1..m
    BY <1>1
  <2>2. ASSUME NEW f \in ToSet(t) PROVE f \in ToSet(s) \cup {k}
    <3>1. PICK i \in 1..m : t[i] = f
      BY <1>2
    <3>2. i \in 1..n \/ i = m
      BY <1>1
    <3> QED
      BY <1>1, <3>1, <3>2
  <2>3. ASSUME NEW f \in ToSet(s) PROVE f \in ToSet(t)
    <3>1. PICK i \in 1..n : s[i] = f
      BY <1>1
    <3> QED
      BY <1>1, <1>2, <2>1, <3>1
  <2> QED
    BY <1>1, <1>2, <2>1, <2>2, <2>3
<1>5. ASSUME NEW i \in 1..m, NEW j \in 1..m, i < j PROVE t[i] < t[j]
  <2>1. i \in 1..n /\ (j \in 1..n \/ j = m)
    BY <1>1, <1>5
  <2>2. CASE j \in 1..n
    <3>1. s[i] < s[j]
      BY <1>5, <2>1, <2>2 DEF n
    <3> QED
      BY <1>1, <2>1, <2>2, <3>1
  <2>3. CASE j = m
    <3>1. s[i] < k
      BY <1>1, <2>1
    <3> QED
      BY <1>1, <2>1, <2>3, <3>1
  <2> QED
    BY <2>1, <2>2, <2>3
<1> QED
  BY <1>1, <1>3, <1>4, <1>5 DEF t, m

\* One more path: what the window holds up to it.
LEMMA WindowGrows ==
  ASSUME NEW start \in 0..LastPath, NEW limit \in Nat, Sized, NEW k \in ScanPaths,
         NEW w, WindowHolds(start, k - 1, w)
  PROVE  WindowHolds(start, k, ExamineMatching(w, k, start, limit))
<1> DEFINE x == ExamineMatching(w, k, start, limit)
           All == Matching(start)
<1>1. /\ k \in 1..LastPath /\ LastPath \in Nat /\ ScanPaths = 1..LastPath /\ WindowBytes \in Nat
      /\ sizes[k] \in Nat
  BY ScanFacts DEF ScanPaths, Sized
<1>2. \A f \in All : f \in 1..LastPath /\ f > start /\ f \in ScanPaths
  BY <1>1 DEF Matching
<1>3. /\ w \in Windows /\ (w.last = start \/ w.last \in 1 .. (k - 1)) /\ w.last >= start
      /\ \A f \in ScanPaths : f \in ToSet(w.files) \cup w.over <=> f \in All /\ f <= w.last
      /\ \A i, j \in 1..Len(w.files) : i < j => w.files[i] < w.files[j]
      /\ ~w.full => \A f \in All : f <= k - 1 => f <= w.last
      /\ w.files = <<>> => w.bytes = 0
      /\ w.full => w.files # <<>>
  BY DEF WindowHolds
<1>4. /\ w.files \in Seq(ScanPaths) /\ w.over \in SUBSET ScanPaths /\ w.bytes \in Nat
      /\ w.full \in BOOLEAN /\ w.last \in 0..LastPath
  BY <1>3, <1>1 DEF Windows
<1>5. x \in Windows
  BY <1>3, ExamineStays
<1> HIDE DEF All
<1>6. w.last = start \/ w.last \in 1..k
  BY <1>1, <1>3
<1>7. CASE x = w /\ (w.full \/ k \notin All)
  <2>1. ~w.full => \A f \in All : f <= k => f <= w.last
    <3>1. SUFFICES ASSUME ~w.full, NEW f \in All, f <= k PROVE f <= w.last
      OBVIOUS
    <3>2. f # k /\ f \in 1..LastPath
      BY <1>2, <1>7, <3>1
    <3>3. f <= k - 1
      BY <1>1, <3>1, <3>2
    <3> QED
      BY <1>3, <3>1, <3>3
  <2>2. WindowHolds(start, k, w)
    BY <1>3, <1>6, <2>1, SMTT(40) DEF WindowHolds, All
  <2> QED
    BY <1>7, <2>2
<1>8. CASE k \in All /\ ~w.full
  <2>1. w.last < k /\ k >= start /\ \A f \in All : f <= k => f <= w.last \/ f = k
    <3>1. k > start /\ start \in Int
      BY <1>1, <1>2, <1>8
    <3>2. w.last < k
      BY <1>1, <1>3, <3>1
    <3>3. \A f \in All : f <= k => f <= k - 1 \/ f = k
      BY <1>1, <1>2
    <3>4. k >= start
      BY <1>1, <3>1
    <3> QED
      BY <1>3, <1>8, <3>2, <3>3, <3>4
  <2>2. \A f \in All : f <= w.last \/ f = k <=> f <= k
    BY <1>1, <1>2, <1>4, <2>1
  <2>3. x = Examine(w, k, limit)
    BY <1>8 DEF ExamineMatching, All
  <2>4. \A f \in ScanPaths : f \in ToSet(w.files) \cup w.over \cup {k} <=> f \in All /\ f <= k
    BY <1>3, <1>8, <2>2
  <2>5. CASE x = [w EXCEPT !.over = w.over \cup {k}, !.last = k]
    <3> DEFINE over == w.over \cup {k}
    <3> HIDE DEF over, x
    <3>1. x.files = w.files /\ x.bytes = w.bytes /\ x.over = over /\ x.last = k /\ x.full = w.full
      BY <1>3, <2>5 DEF Windows, over
    <3>2. \A f \in ScanPaths : f \in ToSet(x.files) \cup x.over <=> f \in All /\ f <= x.last
      BY <2>4, <3>1 DEF over
    <3>3. k \in 1..k
      BY <1>1
    <3>4. WindowHolds(start, k, x)
      BY <1>3, <1>5, <1>8, <2>1, <3>1, <3>2, <3>3 DEF WindowHolds, All
    <3> QED
      BY <3>4 DEF x
  <2>6. CASE x = [w EXCEPT !.full = TRUE] /\ sizes[k] <= WindowBytes /\ w.bytes + sizes[k] > WindowBytes
    <3> HIDE DEF x
    <3>1. x.files = w.files /\ x.bytes = w.bytes /\ x.over = w.over /\ x.last = w.last /\ x.full = TRUE
      BY <1>3, <2>6 DEF Windows
    <3>2. w.files # <<>>
      <4>1. w.bytes # 0
        BY ONLY <1>1, <1>4, <2>6
      <4> QED
        BY <1>3, <4>1
    <3>3. WindowHolds(start, k, x)
      BY <1>3, <1>5, <1>6, <3>1, <3>2 DEF WindowHolds, All
    <3> QED
      BY <3>3 DEF x
  <2>7. CASE x = [w EXCEPT !.files = Append(w.files, k), !.bytes = w.bytes + sizes[k], !.last = k]
    <3> DEFINE files == Append(w.files, k)
               bytes == w.bytes + sizes[k]
    <3>1. \A f \in ToSet(w.files) : f < k
      <4>1. \A f \in ToSet(w.files) : f \in ScanPaths /\ f <= w.last
        BY <1>3, <1>4, InSequence
      <4> QED
        BY <1>1, <1>4, <2>1, <4>1
    <3>2. /\ ToSet(files) = ToSet(w.files) \cup {k} /\ files # <<>>
          /\ \A i, j \in 1..Len(files) : i < j => files[i] < files[j]
      BY <1>3, <1>4, <3>1, AppendInOrder
    <3> HIDE DEF files, bytes, x
    <3>3. x.files = files /\ x.bytes = bytes /\ x.over = w.over /\ x.last = k /\ x.full = w.full
      BY <1>3, <2>7 DEF Windows, files, bytes
    <3>4. \A f \in ScanPaths : f \in ToSet(x.files) \cup x.over <=> f \in All /\ f <= x.last
      BY <2>4, <3>2, <3>3
    <3>5. k \in 1..k
      BY <1>1
    <3>6. WindowHolds(start, k, x)
      BY <1>3, <1>5, <1>8, <2>1, <3>2, <3>3, <3>4, <3>5 DEF WindowHolds, All
    <3> QED
      BY <3>6 DEF x
  <2> QED
    BY <1>3, <1>8, <2>3, <2>5, <2>6, <2>7, ExamineSteps
<1>9. k \notin All \/ w.full => x = w
  <2>1. w.full => Examine(w, k, limit) = w
    BY DEF Examine
  <2> QED
    BY <2>1 DEF ExamineMatching, All
<1> QED
  BY <1>4, <1>7, <1>8, <1>9

LEMMA WindowIsWhole ==
  ASSUME NEW start \in 0..LastPath, NEW limit \in Nat, Sized
  PROVE  WindowHolds(start, LastPath, SourceWindow(start, limit))
<1>1. PICK run \in [0..LastPath -> Windows] :
        WindowSteps(start, limit, run) /\ SourceWindow(start, limit) = run[LastPath]
  BY WindowRuns
<1> DEFINE T == {k \in 0..LastPath : WindowHolds(start, k, run[k])}
<1>2. LastPath \in Nat /\ ScanPaths = 1..LastPath /\ 0 \in 0..LastPath /\ LastPath \in 0..LastPath
  BY ScanFacts DEF ScanPaths
<1>3. 0 \in T
  BY <1>1, <1>2, NothingRead DEF WindowSteps
<1>4. ASSUME NEW k \in 1..LastPath, k - 1 \in T PROVE k \in T
  <2> DEFINE was == run[k - 1]
  <2>1. run[k] = ExamineMatching(was, k, start, limit) /\ k \in 0..LastPath /\ k \in ScanPaths
    BY <1>1, <1>2 DEF WindowSteps
  <2>2. WindowHolds(start, k - 1, was)
    BY <1>4
  <2> HIDE DEF was
  <2>3. WindowHolds(start, k, ExamineMatching(was, k, start, limit))
    BY <2>1, <2>2, WindowGrows
  <2> QED
    BY <2>1, <2>3
<1>5. \A k \in 0..LastPath : k \in T
  <2> HIDE DEF T
  <2> QED
    BY <1>2, <1>3, <1>4, UpTo
<1> QED
  BY <1>1, <1>2, <1>5

-----------------------------------------------------------------------------
(* The chain of requests.                                                   *)

\* What a request's window says, of the file its request ends at: everything
\* that matches is read, passed over, or lies further on.
LEMMA WindowFacts ==
  ASSUME NEW limit \in ParseLimits, ChainShape, NEW w, w = SourceWindow(chain.start, limit)
  PROVE  /\ w.files \in Seq(ScanPaths) /\ w.over \in SUBSET ScanPaths /\ w.bytes \in 0..WindowBytes
         /\ w.last \in 0..LastPath /\ w.last >= chain.start
         /\ \A f \in ScanPaths :
              f \in ToSet(w.files) \cup w.over <=> sizes[f] > 0 /\ f > chain.start /\ f <= w.last
         /\ \A i, j \in 1..Len(w.files) : i < j => w.files[i] < w.files[j]
         /\ ~w.full => \A f \in ScanPaths : sizes[f] > 0 /\ f > chain.start => f <= w.last
         /\ w.full => w.files # <<>>
<1>1. /\ limit \in Nat /\ LastPath \in Nat /\ chain.start \in 0..LastPath /\ ScanPaths = 1..LastPath
      /\ WindowBytes \in Nat
  BY ScanFacts DEF ChainShape, ScanPaths
<1>2. Sized
  <2>1. FileSizes \cup {0} \subseteq Nat
    BY ScanFacts
  <2> QED
    BY <2>1 DEF Sized, ChainShape
<1>3. WindowHolds(chain.start, LastPath, w)
  BY <1>1, <1>2, WindowIsWhole
<1>4. /\ w \in Windows /\ w.last >= chain.start
      /\ \A f \in ScanPaths :
           f \in ToSet(w.files) \cup w.over <=> f \in Matching(chain.start) /\ f <= w.last
      /\ \A i, j \in 1..Len(w.files) : i < j => w.files[i] < w.files[j]
      /\ ~w.full => \A f \in Matching(chain.start) : f <= LastPath => f <= w.last
      /\ w.full => w.files # <<>>
  BY <1>3 DEF WindowHolds
<1>5. \A f \in ScanPaths : f \in Matching(chain.start) <=> sizes[f] > 0 /\ f > chain.start
  BY DEF Matching
<1>6. w.files \in Seq(ScanPaths) /\ w.over \in SUBSET ScanPaths /\ w.bytes \in 0..WindowBytes /\ w.last \in 0..LastPath
  BY <1>4 DEF Windows
<1>7. \A f \in ScanPaths : f <= LastPath
  BY <1>1
<1> QED
  BY <1>4, <1>5, <1>6, <1>7

\* An answer that resumes at its point, or says that nothing is left.
AnswerFits(bytes, scanned, over, out, next) ==
  /\ bytes \in 0..WindowBytes /\ next \in 0..LastPath
  /\ scanned \in SUBSET ScanPaths /\ over \in SUBSET ScanPaths /\ out \in SUBSET ScanPaths
  /\ scanned \cap out = {} /\ \A f \in scanned \cup out : f > chain.start
  /\ next # 0 => next >= chain.start /\ \A f \in scanned \cup out : f <= next
  /\ \A f \in ScanPaths :
       sizes[f] > 0 /\ f > chain.start /\ (next = 0 \/ f <= next) => f \in scanned \cup over \cup out

Answering(bytes, scanned, over, out, next) ==
  /\ chain' = [open |-> next # 0, start |-> next, loaded |-> bytes,
               parsed |-> chain.parsed \cup scanned,
               twice |-> chain.twice \cup (chain.parsed \cap scanned),
               over |-> chain.over \cup over, timedOut |-> chain.timedOut \cup out]
  /\ UNCHANGED <<sizes, untouched, treeMoves>>

\* Such an answer keeps the account of the chain.
LEMMA AnswerKeeps ==
  ASSUME ChainInv, chain.open, NEW bytes, NEW scanned, NEW over, NEW out, NEW next,
         AnswerFits(bytes, scanned, over, out, next), Answering(bytes, scanned, over, out, next)
  PROVE  ChainInv'
<1>0. /\ bytes \in 0..WindowBytes /\ next \in 0..LastPath
      /\ scanned \in SUBSET ScanPaths /\ over \in SUBSET ScanPaths /\ out \in SUBSET ScanPaths
      /\ scanned \cap out = {} /\ \A f \in scanned \cup out : f > chain.start
      /\ next # 0 => next >= chain.start /\ \A f \in scanned \cup out : f <= next
      /\ \A f \in ScanPaths :
           sizes[f] > 0 /\ f > chain.start /\ (next = 0 \/ f <= next) => f \in scanned \cup over \cup out
  BY DEF AnswerFits
<1>1. /\ ChainShape /\ chain.twice = {} /\ chain.parsed \cap chain.timedOut = {}
      /\ \A f \in chain.parsed \cup chain.timedOut : f <= chain.start
      /\ \A f \in untouched : sizes[f] > 0 /\ f <= chain.start => f \in Accounted
  BY DEF ChainInv, NoFileMissed, ParsedOnce
<1>2. /\ chain.start \in 0..LastPath /\ chain.parsed \in SUBSET ScanPaths /\ chain.over \in SUBSET ScanPaths
      /\ chain.timedOut \in SUBSET ScanPaths /\ untouched \subseteq ScanPaths
      /\ LastPath \in Nat /\ ScanPaths = 1..LastPath /\ sizes' = sizes /\ untouched' = untouched
      /\ treeMoves' = treeMoves
  BY <1>1, ScanFacts DEF ChainShape, ScanPaths, Answering
<1>3. /\ chain'.open <=> next # 0
      /\ chain'.start = next /\ chain'.parsed = chain.parsed \cup scanned
      /\ chain'.twice = chain.twice \cup (chain.parsed \cap scanned)
      /\ chain'.over = chain.over \cup over /\ chain'.timedOut = chain.timedOut \cup out
      /\ chain' \in [open : BOOLEAN, start : 0..LastPath, loaded : 0..WindowBytes,
                    parsed : SUBSET ScanPaths, twice : SUBSET ScanPaths, over : SUBSET ScanPaths,
                    timedOut : SUBSET ScanPaths]
  BY <1>0, <1>1, <1>2 DEF Answering, ChainShape
<1>4. ChainShape'
  BY <1>1, <1>2, <1>3 DEF ChainShape
<1>5. \A f \in chain.parsed \cup chain.timedOut : f \notin scanned \cup out
  BY <1>0, <1>1, <1>2
<1>6. ParsedOnce'
  <2>1. chain'.twice = {} /\ chain'.parsed \cap chain'.timedOut = {}
    BY <1>0, <1>1, <1>3, <1>5
  <2>2. ASSUME next # 0, NEW f \in chain.parsed \cup chain.timedOut \cup scanned \cup out PROVE f <= next
    <3>1. f <= chain.start \/ f <= next
      BY <1>0, <1>1, <2>2
    <3>2. f \in 1..LastPath
      BY <1>0, <1>2
    <3> QED
      BY <1>0, <1>2, <2>2, <3>1, <3>2
  <2> QED
    BY <1>3, <2>1, <2>2 DEF ParsedOnce
<1>7. ASSUME NEW f \in untouched, sizes[f] > 0, next = 0 \/ f <= next PROVE f \in Accounted'
  <2>1. f \in 1..LastPath
    BY <1>2
  <2>2. CASE f <= chain.start
    BY <1>1, <1>3, <1>7, <2>2 DEF Accounted
  <2>3. CASE f > chain.start
    <3>1. f \in scanned \cup over \cup out
      BY <1>0, <1>2, <1>7, <2>3
    <3> QED
      BY <1>3, <3>1 DEF Accounted
  <2> QED
    BY <1>2, <2>1, <2>2, <2>3
<1> HIDE DEF Accounted
<1>8. NoFileMissed'
  <2>1. next = 0 => \A f \in untouched : sizes[f] > 0 => f \in (chain'.parsed \cup chain'.over \cup chain'.timedOut)
    BY <1>7 DEF Accounted
  <2> QED
    BY <1>2, <1>3, <1>6, <2>1 DEF NoFileMissed
<1>9. chain'.open => \A f \in untouched' : sizes'[f] > 0 /\ f <= chain'.start => f \in Accounted'
  BY <1>2, <1>3, <1>7
<1> QED
  BY <1>4, <1>8, <1>9 DEF ChainInv

LEMMA ScanWindowKeeps ==
  ASSUME ChainInv, NEW limit \in ParseLimits, ScanWindow(limit)
  PROVE  ChainInv'
<1> DEFINE w == SourceWindow(chain.start, limit)
           scanned == {w.files[i] : i \in 1..Len(w.files)}
           next == IF NotScanned(w) = {} THEN 0 ELSE w.last
<1>1. /\ chain.open /\ UNCHANGED <<sizes, untouched, treeMoves>>
      /\ chain' = [open |-> next # 0, start |-> next, loaded |-> w.bytes,
                   parsed |-> chain.parsed \cup scanned,
                   twice |-> chain.twice \cup (chain.parsed \cap scanned),
                   over |-> chain.over \cup w.over, timedOut |-> chain.timedOut \cup {}]
  BY DEF ScanWindow, Answered
<1>2. /\ ChainShape /\ chain.start \in 0..LastPath /\ LastPath \in Nat /\ ScanPaths = 1..LastPath
  BY ScanFacts DEF ChainInv, ChainShape, ScanPaths
<1>3. /\ w.files \in Seq(ScanPaths) /\ w.over \in SUBSET ScanPaths /\ w.bytes \in 0..WindowBytes
      /\ w.last \in 0..LastPath /\ w.last >= chain.start
      /\ \A f \in ScanPaths :
           f \in ToSet(w.files) \cup w.over <=> sizes[f] > 0 /\ f > chain.start /\ f <= w.last
      /\ ~w.full => \A f \in ScanPaths : sizes[f] > 0 /\ f > chain.start => f <= w.last
      /\ w.full => w.files # <<>>
  BY <1>2, WindowFacts
<1>4. NotScanned(w) = IF w.full THEN {f \in ScanPaths : sizes[f] > 0 /\ f > w.last} ELSE {}
  BY DEF NotScanned, Matching
<1> HIDE DEF w
<1>5. scanned = ToSet(w.files) /\ scanned \in SUBSET ScanPaths
  BY <1>3, InSequence
<1> HIDE DEF scanned, next
<1>6. next \in 0..LastPath /\ (next # 0 => next = w.last)
  BY <1>2, <1>3 DEF next
<1>7. \A f \in scanned : f \in ScanPaths /\ f > chain.start /\ f <= w.last
  BY <1>3, <1>5
<1>8. ASSUME NEW f \in ScanPaths, sizes[f] > 0, f > chain.start, next = 0 \/ f <= next
      PROVE  f \in scanned \cup w.over
  <2>1. f \in 1..LastPath
    BY <1>2
  <2>2. f <= w.last
    <3>1. CASE next # 0
      BY <1>6, <1>8, <3>1
    <3>2. CASE next = 0 /\ ~w.full
      BY <1>3, <1>8, <3>2
    <3>3. CASE next = 0 /\ w.full
      <4>1. w.last # 0
        <5>1. PICK i \in 1..Len(w.files) : TRUE
          BY <1>3, <3>3, EmptySeq, LenProperties
        <5>2. w.files[i] \in scanned
          BY <1>3, <1>5, InSequence
        <5> QED
          BY <1>2, <1>3, <1>7, <5>2
      <4>2. NotScanned(w) = {}
        BY <3>3, <4>1 DEF next
      <4>3. ~(f > w.last)
        BY <1>4, <1>8, <3>3, <4>2
      <4> QED
        BY <1>3, <2>1, <4>3
    <3> QED
      BY <3>1, <3>2, <3>3
  <2> QED
    BY <1>3, <1>5, <1>8, <2>2
<1> DEFINE none == {}
<1>9. none \in SUBSET ScanPaths /\ scanned \cap none = {} /\ scanned \cup none = scanned
  OBVIOUS
<1>10. /\ \A f \in scanned \cup none : f > chain.start
       /\ next # 0 => next >= chain.start /\ \A f \in scanned \cup none : f <= next
       /\ \A f \in ScanPaths :
            sizes[f] > 0 /\ f > chain.start /\ (next = 0 \/ f <= next) => f \in scanned \cup w.over \cup none
  BY <1>3, <1>6, <1>7, <1>8
<1>11. chain' = [open |-> next # 0, start |-> next, loaded |-> w.bytes,
                 parsed |-> chain.parsed \cup scanned,
                 twice |-> chain.twice \cup (chain.parsed \cap scanned),
                 over |-> chain.over \cup w.over, timedOut |-> chain.timedOut \cup none]
  BY <1>1
<1> HIDE DEF none
<1>12. AnswerFits(w.bytes, scanned, w.over, none, next)
  BY <1>3, <1>5, <1>6, <1>9, <1>10 DEF AnswerFits
<1>13. Answering(w.bytes, scanned, w.over, none, next)
  BY <1>1, <1>11 DEF Answering
<1> QED
  BY <1>1, <1>12, <1>13, AnswerKeeps

LEMMA TimeOutKeeps ==
  ASSUME ChainInv, NEW limit \in ParseLimits, TimeOut(limit)
  PROVE  ChainInv'
<1> DEFINE w == SourceWindow(chain.start, limit)
           n == Len(w.files)
<1>1. PICK p \in 0 .. (n - 1) :
        Answered(w, p, {w.files[p + 1]}, w.files[p + 1])
  BY DEF TimeOut, ResumeAt
<1> DEFINE q == p + 1
           next == w.files[q]
           out == {next}
           scanned == {w.files[i] : i \in 1..p}
<1>2. /\ chain.open /\ UNCHANGED <<sizes, untouched, treeMoves>>
      /\ chain' = [open |-> next # 0, start |-> next, loaded |-> w.bytes,
                   parsed |-> chain.parsed \cup scanned,
                   twice |-> chain.twice \cup (chain.parsed \cap scanned),
                   over |-> chain.over \cup w.over, timedOut |-> chain.timedOut \cup out]
  BY <1>1 DEF TimeOut, Answered
<1>3. /\ ChainShape /\ chain.start \in 0..LastPath /\ LastPath \in Nat /\ ScanPaths = 1..LastPath
  BY ScanFacts DEF ChainInv, ChainShape, ScanPaths
<1>4. /\ w.files \in Seq(ScanPaths) /\ w.over \in SUBSET ScanPaths /\ w.bytes \in 0..WindowBytes
      /\ w.last \in 0..LastPath
      /\ \A f \in ScanPaths :
           f \in ToSet(w.files) \cup w.over <=> sizes[f] > 0 /\ f > chain.start /\ f <= w.last
      /\ \A i, j \in 1..n : i < j => w.files[i] < w.files[j]
  BY <1>3, WindowFacts
<1> HIDE DEF w
<1>5. /\ n \in Nat /\ \A i \in 1..n : w.files[i] \in ToSet(w.files) /\ w.files[i] \in ScanPaths
      /\ \A f \in ToSet(w.files) : \E i \in 1..n : w.files[i] = f
  BY <1>4, InSequence
<1> HIDE DEF n
<1>6. /\ q \in 1..n /\ p \in Nat /\ \A i \in 1..p : i \in 1..n /\ i < q
      /\ \A i \in 1..n : i \in 1..p \/ i = q \/ q < i
  BY <1>1, <1>5
<1> HIDE DEF q
<1>7. /\ next \in ScanPaths /\ next \in ToSet(w.files) /\ next # 0 /\ next > chain.start /\ next <= w.last
  <2>1. next \in ScanPaths /\ next \in ToSet(w.files)
    BY <1>5, <1>6
  <2> HIDE DEF next
  <2> QED
    BY <1>3, <1>4, <2>1
<1>8. ASSUME NEW f \in scanned PROVE f \in ScanPaths /\ f \in ToSet(w.files) /\ f < next /\ f > chain.start
  <2>1. PICK i \in 1..p : f = w.files[i]
    OBVIOUS
  <2>2. i \in 1..n /\ w.files[i] < w.files[q]
    BY <1>4, <1>6
  <2>3. f \in ScanPaths /\ f \in ToSet(w.files) /\ f < next
    BY <1>5, <2>1, <2>2
  <2> QED
    BY <1>4, <2>3
<1>9. ASSUME NEW f \in ToSet(w.files), f <= next PROVE f \in scanned \cup out
  <2>1. PICK i \in 1..n : w.files[i] = f
    BY <1>5
  <2>2. CASE i \in 1..p
    BY <2>1, <2>2
  <2>3. CASE i = q
    BY <2>1, <2>3
  <2>4. CASE q < i
    <3>1. next < f
      BY <1>4, <1>6, <2>1, <2>4
    <3>2. f \in 1..LastPath /\ next \in 1..LastPath
      BY <1>3, <1>5, <1>7, <2>1
    <3> QED
      BY <1>9, <3>1, <3>2
  <2> QED
    BY <1>6, <2>2, <2>3, <2>4
<1> HIDE DEF scanned, next
<1>10. \A f \in ScanPaths :
         sizes[f] > 0 /\ f > chain.start /\ (next = 0 \/ f <= next) => f \in scanned \cup w.over \cup out
  <2>1. SUFFICES ASSUME NEW f \in ScanPaths, sizes[f] > 0, f > chain.start, f <= next
                 PROVE  f \in scanned \cup w.over \cup out
    BY <1>7
  <2>2. f <= w.last
    BY <1>3, <1>4, <1>7, <2>1
  <2>3. f \in ToSet(w.files) \cup w.over
    BY <1>4, <2>1, <2>2
  <2> HIDE DEF out
  <2> QED
    BY <1>9, <2>1, <2>3
<1>11. /\ next \in 0..LastPath /\ scanned \in SUBSET ScanPaths /\ out \in SUBSET ScanPaths
       /\ scanned \cap out = {} /\ next >= chain.start
       /\ \A f \in scanned \cup out : f > chain.start /\ f <= next
  <2>1. next \in 1..LastPath
    BY <1>3, <1>7
  <2>2. scanned \in SUBSET ScanPaths /\ out \in SUBSET ScanPaths
    BY <1>7, <1>8
  <2>3. next \notin scanned
    BY <1>8, <2>1
  <2>4. \A f \in scanned : f <= next
    BY <1>3, <1>8, <2>1
  <2> QED
    BY <1>3, <1>7, <1>8, <2>1, <2>2, <2>3, <2>4
<1> HIDE DEF out
<1>12. AnswerFits(w.bytes, scanned, w.over, out, next)
  BY <1>4, <1>10, <1>11 DEF AnswerFits
<1>13. Answering(w.bytes, scanned, w.over, out, next)
  BY <1>2 DEF Answering
<1> QED
  BY <1>2, <1>12, <1>13, AnswerKeeps

LEMMA ChainStarts == StructureInit => ChainInv
<1> SUFFICES ASSUME StructureInit PROVE ChainInv
  OBVIOUS
<1>1. 0 \in 0..LastPath /\ 0 \in 0..WindowBytes /\ 0 \in 0..MaxTreeMoves
  BY ScanFacts
<1>2. /\ sizes = [f \in ScanPaths |-> 0] /\ untouched = {} /\ treeMoves = 0
      /\ chain = [open |-> FALSE, start |-> 0, loaded |-> 0, parsed |-> {}, twice |-> {},
                  over |-> {}, timedOut |-> {}]
  BY DEF StructureInit, NoChain
<1>3. ChainShape
  BY <1>1, <1>2 DEF ChainShape
<1>4. NoFileMissed
  BY <1>2 DEF NoFileMissed, ParsedOnce
<1> QED
  BY <1>2, <1>3, <1>4 DEF ChainInv

LEMMA ChainSteps == ChainInv /\ [StructureNext]_scanVars => ChainInv'
<1> SUFFICES ASSUME ChainInv, [StructureNext]_scanVars PROVE ChainInv'
  OBVIOUS
<1>1. /\ LastPath \in Nat /\ WindowBytes \in Nat /\ MaxTreeMoves \in Nat /\ ScanPaths = 1..LastPath
      /\ 0 \in 0..LastPath /\ 0 \in 0..WindowBytes /\ ChainShape
  BY ScanFacts DEF ScanPaths, ChainInv
<1>2. CASE BeginChain
  <2>1. /\ sizes' = sizes /\ treeMoves' = treeMoves /\ untouched' = ScanPaths
        /\ chain' = [open |-> TRUE, start |-> 0, loaded |-> 0, parsed |-> {}, twice |-> {},
                     over |-> {}, timedOut |-> {}]
    BY <1>2 DEF BeginChain, NoChain
  <2>2. ChainShape'
    BY <1>1, <2>1 DEF ChainShape
  <2>3. NoFileMissed'
    BY <2>1 DEF NoFileMissed, ParsedOnce
  <2>4. \A f \in untouched' : ~(f <= chain'.start)
    BY <1>1, <2>1
  <2> QED
    BY <2>2, <2>3, <2>4 DEF ChainInv
<1>3. ASSUME NEW limit \in ParseLimits, Refuse(limit) PROVE ChainInv'
  <2>1. /\ sizes' = sizes /\ treeMoves' = treeMoves /\ untouched' = untouched
        /\ chain' = [open |-> FALSE, start |-> 0, loaded |-> 0, parsed |-> {}, twice |-> {},
                     over |-> {}, timedOut |-> {}]
        /\ chain' = NoChain
    BY <1>3 DEF Refuse, NoChain
  <2>2. ChainShape'
    BY <1>1, <2>1 DEF ChainShape
  <2>3. NoFileMissed'
    BY <2>1 DEF NoFileMissed, ParsedOnce
  <2> QED
    BY <2>1, <2>2, <2>3 DEF ChainInv
<1>4. ASSUME NEW f \in ScanPaths, NEW size \in FileSizes \cup {0}, EditTree(f, size) PROVE ChainInv'
  <2>1. /\ treeMoves < MaxTreeMoves /\ sizes' = [sizes EXCEPT ![f] = size] /\ chain' = chain
        /\ untouched' = untouched \ {f} /\ treeMoves' = treeMoves + 1
    BY <1>4 DEF EditTree
  <2>2. ChainShape'
    BY <1>1, <2>1 DEF ChainShape
  <2>3. \A g \in untouched' : g \in untouched /\ sizes'[g] = sizes[g]
    BY <1>1, <2>1 DEF ChainShape
  <2>4. NoFileMissed'
    BY <2>1, <2>3 DEF NoFileMissed, ParsedOnce, ChainInv
  <2>5. chain'.open => \A g \in untouched' : sizes'[g] > 0 /\ g <= chain'.start => g \in Accounted'
    BY <2>1, <2>3 DEF ChainInv, Accounted
  <2> QED
    BY <2>2, <2>4, <2>5 DEF ChainInv
<1>5. CASE UNCHANGED scanVars
  BY <1>5 DEF scanVars, ChainInv, ChainShape, NoFileMissed, ParsedOnce, Accounted
<1> QED
  BY <1>2, <1>3, <1>4, <1>5, ScanWindowKeeps, TimeOutKeeps DEF StructureNext

THEOREM ChainInvHolds == StructureSpec => []ChainInv
<1> QED
  BY ChainStarts, ChainSteps, PTL DEF StructureSpec

\* A chain of structure requests that says nothing is left has accounted for
\* every file that was there all along (structure_source.rs, structure_exec.rs).
THEOREM NoFileIsMissed == StructureSpec => []NoFileMissed
<1>1. ChainInv => NoFileMissed
  BY DEF ChainInv
<1> QED
  BY <1>1, ChainInvHolds, PTL

(***************************************************************************)
(* Paging.                                                                 *)
(***************************************************************************)

LEMMA PagingFacts ==
  /\ Base \in Nat /\ Base > 0 /\ DefaultSize \in Nat /\ DefaultSize > 0 /\ MatchCap \in Nat /\ MatchCap > 0
  /\ PageSizes \subseteq Nat /\ Limits \subseteq Nat /\ Ceilings \subseteq Nat \ {0}
  /\ \A row \in RowKinds : row.cells \in Seq(Nat)
  /\ MaxPageRows \in Nat /\ MaxMoves \in Nat
BY PagingAssumption

LEMMA SmallerLarger ==
  ASSUME NEW a \in Nat, NEW b \in Nat
  PROVE  /\ SmallerOf(a, b) \in Nat /\ SmallerOf(a, b) <= a /\ SmallerOf(a, b) <= b
         /\ SmallerOf(a, b) = a \/ SmallerOf(a, b) = b
         /\ LargerOf(a, b) \in Nat /\ LargerOf(a, b) >= a /\ LargerOf(a, b) >= b
         /\ LargerOf(a, b) = a \/ LargerOf(a, b) = b
BY DEF SmallerOf, LargerOf

\* The smaller of a size asked for and a ceiling is a size.
LEMMA WithinCeiling ==
  ASSUME NEW a \in Nat, a > 0, NEW b \in Nat, b > 0
  PROVE  SmallerOf(a, b) \in 1..b
BY DEF SmallerOf

LEMMA BoundedRows ==
  ASSUME NEW rows \in BoundedSeq(RowKinds, MaxPageRows)
  PROVE  rows \in Seq(RowKinds) /\ Len(rows) \in Nat
<1>1. rows \in Seq(RowKinds)
  BY SeqDef DEF BoundedSeq, SeqOf
<1> QED
  BY <1>1, LenProperties

-----------------------------------------------------------------------------
(* share_room: one grant.                                                   *)

\* The equal part of what is left.
LEMMA Floor ==
  ASSUME NEW room \in Nat, NEW left \in Nat, left > 0
  PROVE  LET q == room \div left
         IN q \in Nat /\ q * left <= room /\ room < q * left + left
OBVIOUS

\* A grant that falls short is the equal part, and no earlier one is larger; once
\* one fell short of its cell, no longer cell gets more than one above it.
LEMMA GrantMoves ==
  ASSUME NEW cost \in Nat, NEW room \in Nat, NEW left \in Nat, left > 0
  PROVE  LET g == Grant(cost, room, left)
         IN /\ g \in Nat /\ g <= cost /\ room - g \in Nat /\ g * (left - 1) <= room - g
            /\ \A a \in Nat : a * left <= room => a * (left - 1) <= room - g
            /\ g < cost => /\ room - g <= (g + 1) * (left - 1)
                           /\ \A a \in Nat : a * left <= room => a <= g
            /\ \A b \in Nat : b * left <= room /\ room <= (b + 1) * left /\ b + 1 <= cost =>
                 g <= b + 1 /\ room - g <= (b + 1) * (left - 1)
<1> DEFINE q == room \div left
           g == Grant(cost, room, left)
<1>1. q \in Nat /\ q * left <= room /\ room < q * left + left
  BY Floor
<1>2. g \in Nat /\ g <= cost /\ g <= q /\ (g = cost \/ g = q)
  BY <1>1, SmallerLarger DEF Grant
<1> HIDE DEF q, g
<1>3. g * left <= q * left /\ g * left <= room /\ g <= room
  BY <1>1, <1>2
<1>4. \A a \in Nat : a * (left - 1) = a * left - a /\ (a + 1) * (left - 1) = a * left + left - a - 1
  OBVIOUS
<1>5. room - g \in Nat /\ g * (left - 1) <= room - g
  BY <1>2, <1>3, <1>4
<1>6. \A a \in Nat : a * left <= room => a <= q
  BY <1>1
<1>7. ASSUME NEW a \in Nat, a * left <= room PROVE a * (left - 1) <= room - g
  <2>1. a <= q
    BY <1>6, <1>7
  <2>2. a * (left - 1) <= q * (left - 1)
    BY <1>1, <2>1
  <2>3. q * (left - 1) = q * left - q
    BY <1>1, <1>4
  <2>4. a * (left - 1) \in Nat /\ q * left \in Nat
    BY <1>1
  <2> QED
    BY <1>1, <1>2, <2>2, <2>3, <2>4
<1>8. ASSUME g < cost PROVE room - g <= (g + 1) * (left - 1)
  <2>1. g = q
    BY <1>2, <1>8
  <2>2. (g + 1) * (left - 1) = g * left + left - g - 1
    BY <1>2, <1>4
  <2>3. room < g * left + left /\ g * left \in Nat
    BY <1>1, <2>1
  <2> QED
    BY <1>2, <2>2, <2>3
<1>9. ASSUME NEW b \in Nat, b * left <= room, room <= (b + 1) * left, b + 1 <= cost
      PROVE  g <= b + 1 /\ room - g <= (b + 1) * (left - 1)
  <2>1. (b + 1) * left = b * left + left /\ b * left \in Nat
    OBVIOUS
  <2>2. b <= q /\ q <= b + 1
    BY <1>1, <1>6, <1>9, <2>1
  <2>3. (b + 1) * (left - 1) = b * left + left - b - 1
    BY <1>4
  <2>4. CASE q = b
    <3>1. g = b
      BY <1>2, <1>9, <2>4
    <3>2. room < b * left + left
      BY <1>1, <2>4
    <3> QED
      BY <2>1, <2>3, <3>1, <3>2
  <2>5. CASE q = b + 1
    <3>1. g = b + 1
      BY <1>2, <1>9, <2>5
    <3> QED
      BY <1>9, <2>1, <2>3, <3>1
  <2> QED
    BY <1>1, <2>2, <2>4, <2>5
<1>10. g < cost => \A a \in Nat : a * left <= room => a <= g
  BY <1>2, <1>6
<1> QED
  BY <1>2, <1>5, <1>7, <1>8, <1>9, <1>10 DEF g

-----------------------------------------------------------------------------
(* share_room: all of them.                                                 *)

\* i is served after every other cell of s.
ServedLast(cells, s, i) ==
  i \in s /\ \A j \in s : cells[j] < cells[i] \/ (cells[j] = cells[i] /\ j <= i)

LEMMA LongestIsLast ==
  ASSUME NEW n \in Nat, NEW cells \in [1..n -> Nat], NEW s \in SUBSET (1..n), s # {}
  PROVE  ServedLast(cells, s, LongestOf(cells, s))
<1> DEFINE T == {t \in SUBSET (1..n) : t = {} \/ \E i \in t : ServedLast(cells, t, i)}
<1>1. ASSUME NEW t \in SUBSET (1..n), \A u \in SUBSET (1..n) : u \subseteq t /\ u # t => u \in T
      PROVE  t \in T
  <2>1. CASE t = {}
    BY <2>1
  <2>2. CASE t # {}
    <3>1. PICK e \in t : TRUE
      BY <2>2
    <3> DEFINE u == t \ {e}
    <3>2. u \in T
      BY <1>1, <3>1
    <3>3. CASE u = {}
      <4>1. t = {e} /\ e \in 1..n
        BY <3>1, <3>3
      <4>2. ServedLast(cells, t, e)
        BY <4>1 DEF ServedLast
      <4> QED
        BY <2>2, <4>1, <4>2
    <3>4. CASE u # {}
      <4>1. PICK i \in u : ServedLast(cells, u, i)
        BY <3>2, <3>4
      <4>2. i \in 1..n /\ e \in 1..n /\ t = u \cup {e} /\ \A j \in t : j \in 1..n /\ cells[j] \in Nat
        BY <3>1, <4>1
      <4>3. \A j \in u : cells[j] < cells[i] \/ (cells[j] = cells[i] /\ j <= i)
        BY <4>1 DEF ServedLast
      <4> HIDE DEF u
      <4>4. CASE cells[i] < cells[e] \/ (cells[i] = cells[e] /\ i <= e)
        <5>1. \A j \in t : cells[j] < cells[e] \/ (cells[j] = cells[e] /\ j <= e)
          BY <4>2, <4>3, <4>4
        <5>2. ServedLast(cells, t, e)
          BY <4>2, <5>1 DEF ServedLast
        <5> QED
          BY <4>2, <5>2
      <4>5. CASE cells[e] < cells[i] \/ (cells[e] = cells[i] /\ e <= i)
        <5>1. \A j \in t : cells[j] < cells[i] \/ (cells[j] = cells[i] /\ j <= i)
          BY <4>2, <4>3, <4>5
        <5>2. ServedLast(cells, t, i)
          BY <4>1, <4>2, <5>1 DEF ServedLast
        <5> QED
          BY <4>2, <5>2
      <4>6. cells[i] \in Nat /\ cells[e] \in Nat
        BY <4>2
      <4>7. \/ cells[i] < cells[e] \/ (cells[i] = cells[e] /\ i <= e)
            \/ cells[e] < cells[i] \/ (cells[e] = cells[i] /\ e <= i)
        BY <4>2, <4>6
      <4> HIDE DEF T
      <4> QED
        BY <4>4, <4>5, <4>7
    <3> QED
      BY <3>3, <3>4
  <2> QED
    BY <2>1, <2>2
<1>2. \A t \in SUBSET (1..n) : t \in T
  <2>1. IsFiniteSet(1..n)
    BY UpToFinite
  <2> HIDE DEF T
  <2> QED
    BY <1>1, <2>1, SubsetsBySet
<1>3. \E i \in s : ServedLast(cells, s, i)
  BY <1>2
<1>4. LongestOf(cells, s) = CHOOSE i \in s : ServedLast(cells, s, i)
  BY DEF LongestOf, ServedLast
<1> QED
  BY <1>3, <1>4

Shares(n) == [room : Nat, left : Int, grants : [1..n -> Nat]]

\* The function share_room's fold is defined with: nothing is granted yet, or one
\* more grant, to the cell served last.
SharesBy(cells, n, room, h) ==
  /\ h[{}] = [room |-> room, left |-> n, grants |-> [i \in 1..n |-> 0]]
  /\ \A d \in SUBSET (1..n) :
       d # {} => h[d] = GrantTo(cells, LongestOf(cells, d), h[d \ {LongestOf(cells, d)}])

\* There is a cell left to serve.
MoreToServe(cells, n, i, v) ==
  n \in Nat /\ cells \in [1..n -> Nat] /\ i \in 1..n /\ v \in Shares(n) /\ v.left > 0

LEMMA GrantStays ==
  ASSUME NEW cells, NEW n, NEW i, NEW v, MoreToServe(cells, n, i, v)
  PROVE  Grant(cells[i], v.room, v.left) \in Nat /\ GrantTo(cells, i, v) \in Shares(n)
<1> DEFINE g == Grant(cells[i], v.room, v.left)
           x == GrantTo(cells, i, v)
<1>1. cells[i] \in Nat /\ v.left > 0 /\ i \in 1..n /\ v.room \in Nat /\ v.left \in Nat /\ v.grants \in [1..n -> Nat]
  BY DEF Shares, MoreToServe
<1>2. g \in Nat /\ v.room - g \in Nat
  BY <1>1, GrantMoves
<1>3. x = [room |-> v.room - g, left |-> v.left - 1, grants |-> [v.grants EXCEPT ![i] = g]]
  BY DEF GrantTo
<1> HIDE DEF g, x
<1> QED
  BY <1>1, <1>2, <1>3 DEF Shares, g, x

LEMMA GrantIs ==
  ASSUME NEW cells, NEW i, NEW v
  PROVE  GrantTo(cells, i, v) =
           [room |-> v.room - Grant(cells[i], v.room, v.left), left |-> v.left - 1,
            grants |-> [v.grants EXCEPT ![i] = Grant(cells[i], v.room, v.left)]]
BY DEF GrantTo

LEMMA ShareRuns ==
  ASSUME NEW n \in Nat, NEW cells \in [1..n -> Nat], Len(cells) = n, NEW room \in Nat
  PROVE  \E h : SharesBy(cells, n, room, h) /\ ShareRoom(cells, room) = h[1..n].grants
<1> DEFINE V == Shares(n)
           none == [room |-> room, left |-> n, grants |-> [i \in 1..n |-> 0]]
           last(d) == LongestOf(cells, d)
           pick == [d \in SUBSET (1..n) |-> last(d)]
           step == [i \in 1..n |-> [v \in V |-> IF v.left > 0 THEN GrantTo(cells, i, v) ELSE v]]
           Rec(h) == [d \in SUBSET (1..n) |->
                        IF d = {} THEN none ELSE GrantTo(cells, last(d), h[d \ {last(d)}])]
<1>1. IsFiniteSet(1..n) /\ Cardinality(1..n) = n /\ none \in V /\ DOMAIN cells = 1..n
  BY UpToFinite DEF Shares
<1>2. \A d \in SUBSET (1..n) : d # {} => last(d) \in d /\ pick[d] = last(d)
  BY LongestIsLast DEF ServedLast
<1>3. \A i \in 1..n, v \in V : step[i][v] \in V
  <2>1. ASSUME NEW i \in 1..n, NEW v \in V, v.left > 0 PROVE GrantTo(cells, i, v) \in V
    <3>1. MoreToServe(cells, n, i, v)
      BY <2>1 DEF MoreToServe
    <3> QED
      BY <3>1, GrantStays
  <2> HIDE DEF V
  <2> QED
    BY <2>1
<1>4. PICK g \in [SUBSET (1..n) -> V] : FoldOf(1..n, none, pick, step, g)
  <2>1. \A d \in SUBSET (1..n) : d # {} => pick[d] \in d
    BY <1>2
  <2> HIDE DEF none, pick, step, V
  <2> QED
    BY <1>1, <1>3, <2>1, FoldExists
<1>5. ASSUME NEW d \in SUBSET (1..n)
      PROVE  g[d] = IF d = {} THEN none ELSE step[last(d)][g[d \ {last(d)}]]
  <2>1. g[d] = IF d = {} THEN none ELSE step[pick[d]][g[d \ {pick[d]}]]
    BY <1>4 DEF FoldOf
  <2>2. d # {} => pick[d] = last(d)
    BY <1>2
  <2> HIDE DEF none, pick, step
  <2> QED
    BY <2>1, <2>2
<1> DEFINE T == {d \in SUBSET (1..n) : g[d].left = n - Cardinality(d)}
<1>6. \A d \in SUBSET (1..n) : IsFiniteSet(d) /\ Cardinality(d) \in Nat /\ Cardinality(d) <= n
  <2>1. SUFFICES ASSUME NEW d \in SUBSET (1..n)
                 PROVE  IsFiniteSet(d) /\ Cardinality(d) \in Nat /\ Cardinality(d) <= n
    OBVIOUS
  <2> DEFINE all == 1..n
  <2>2. IsFiniteSet(all) /\ Cardinality(all) = n /\ d \in SUBSET all
    BY <1>1
  <2> HIDE DEF all
  <2> QED
    BY <2>2, FS_Subset, FS_CardinalityType
<1>7. \A d \in SUBSET (1..n) : d # {} =>
        /\ d \ {last(d)} \in SUBSET (1..n) /\ last(d) \in 1..n /\ d \ {last(d)} # d
        /\ Cardinality(d \ {last(d)}) = Cardinality(d) - 1
  <2>1. SUFFICES ASSUME NEW d \in SUBSET (1..n), d # {}
                 PROVE  /\ d \ {last(d)} \in SUBSET (1..n) /\ last(d) \in 1..n /\ d \ {last(d)} # d
                        /\ Cardinality(d \ {last(d)}) = Cardinality(d) - 1
    OBVIOUS
  <2> DEFINE i == last(d)
  <2>2. i \in d /\ IsFiniteSet(d)
    BY <1>2, <1>6, <2>1
  <2> HIDE DEF i
  <2>3. Cardinality(d \ {i}) = Cardinality(d) - 1
    BY <2>2, FS_RemoveElement
  <2>4. d \ {i} \in SUBSET (1..n) /\ i \in 1..n /\ d \ {i} # d
    BY <2>2
  <2> QED
    BY <2>3, <2>4 DEF i
<1>8. ASSUME NEW d \in SUBSET (1..n), d # {}, d \ {last(d)} \in T
      PROVE  d \in T /\ g[d] = GrantTo(cells, last(d), g[d \ {last(d)}])
  <2> DEFINE was == g[d \ {last(d)}]
             i == last(d)
  <2>1. was \in V /\ i \in 1..n /\ was.left = n - (Cardinality(d) - 1) /\ was.left > 0
    <3>1. d \ {i} \in SUBSET (1..n) /\ i \in 1..n /\ Cardinality(d \ {i}) = Cardinality(d) - 1
      BY <1>7, <1>8
    <3>2. was \in V
      BY <1>4, <3>1
    <3>3. was.left = n - (Cardinality(d) - 1)
      BY <1>8, <3>1
    <3>4. Cardinality(d) \in Nat /\ Cardinality(d) <= n
      BY <1>6
    <3> HIDE DEF was, i, V
    <3> QED
      BY <3>1, <3>2, <3>3, <3>4
  <2>2. g[d] = step[i][was]
    BY <1>5, <1>8
  <2> HIDE DEF was, i
  <2>3. g[d] = GrantTo(cells, i, was)
    BY <2>1, <2>2
  <2>4. g[d].left = was.left - 1
    <3> DEFINE x == GrantTo(cells, i, was)
    <3>1. x.left = was.left - 1
      BY DEF GrantTo
    <3> QED
      BY <2>3, <3>1
  <2>5. g[d].left = n - Cardinality(d)
    BY <1>6, <2>1, <2>4
  <2> QED
    BY <2>3, <2>5 DEF was, i
<1>9. \A d \in SUBSET (1..n) : d \in T
  <2>1. ASSUME NEW d \in SUBSET (1..n), \A e \in SUBSET (1..n) : e \subseteq d /\ e # d => e \in T
        PROVE  d \in T
    <3>1. CASE d = {}
      <4>1. g[d] = none /\ Cardinality(d) = 0
        BY <1>5, <3>1, FS_EmptySet
      <4> QED
        BY <4>1
    <3>2. CASE d # {}
      <4>1. d \ {last(d)} \in T
        <5> HIDE DEF T
        <5> QED
          BY <1>7, <2>1, <3>2
      <4> QED
        BY <1>8, <3>2, <4>1
    <3> QED
      BY <3>1, <3>2
  <2> DEFINE all == 1..n
  <2>2. \A d \in SUBSET all : (\A e \in SUBSET all : e \subseteq d /\ e # d => e \in T) => d \in T
    BY <2>1
  <2>3. IsFiniteSet(all)
    BY <1>1
  <2> HIDE DEF T, all
  <2>4. \A d \in SUBSET all : d \in T
    BY <2>2, <2>3, SubsetsBySet
  <2> QED
    BY <2>4 DEF all
<1>10. g = Rec(g)
  <2>1. g = [d \in SUBSET (1..n) |-> g[d]]
    BY <1>4
  <2>2. ASSUME NEW d \in SUBSET (1..n)
        PROVE  g[d] = IF d = {} THEN none ELSE GrantTo(cells, last(d), g[d \ {last(d)}])
    <3>1. CASE d = {}
      BY <1>5, <3>1
    <3>2. CASE d # {}
      <4>1. d \ {last(d)} \in T
        BY <1>7, <1>9, <3>2
      <4> HIDE DEF T, none
      <4> QED
        BY <1>8, <3>2, <4>1
    <3> QED
      BY <3>1, <3>2
  <2> QED
    BY <2>1, <2>2
<1>11. PICK h : h = Rec(h) /\ ShareRoom(cells, room) = h[1..n].grants
  <2> DEFINE it == CHOOSE h : h = Rec(h)
  <2>1. ShareRoom(cells, room) = it[1..n].grants
    BY <1>1 DEF ShareRoom, MapThenFoldSet
  <2>2. it = Rec(it)
    BY <1>10
  <2> QED
    BY <2>1, <2>2
<1>12. h[{}] = none
  <2>1. {} \in SUBSET (1..n)
    OBVIOUS
  <2> QED
    BY <1>11, <2>1
<1>13. \A d \in SUBSET (1..n) : d # {} => h[d] = GrantTo(cells, last(d), h[d \ {last(d)}])
  BY <1>11
<1> QED
  BY <1>11, <1>12, <1>13 DEF SharesBy

\* A sum of smaller values is no larger.
LEMMA SumNoLarger ==
  ASSUME NEW S, IsFiniteSet(S), NEW fun, NEW other,
         \A x \in S : fun[x] \in Nat /\ other[x] \in Nat /\ fun[x] <= other[x]
  PROVE  SumFunctionOnSet(fun, S) <= SumFunctionOnSet(other, S)
<1> DEFINE T == {s \in SUBSET S : SumFunctionOnSet(fun, s) <= SumFunctionOnSet(other, s)}
<1>1. ASSUME NEW s \in SUBSET S, \A t \in SUBSET S : t \subseteq s /\ t # s => t \in T
      PROVE  s \in T
  <2>1. CASE s = {}
    BY <2>1, SumOfNothing
  <2>2. CASE s # {}
    <3>1. PICK x \in s : TRUE
      BY <2>2
    <3> DEFINE rest == s \ {x}
    <3>2. IsFiniteSet(s) /\ rest \in T /\ IsFiniteSet(rest)
      BY <1>1, <3>1, FS_Subset
    <3>3. \A y \in s : fun[y] \in Nat /\ other[y] \in Nat
      OBVIOUS
    <3>4. /\ SumFunctionOnSet(fun, s) = fun[x] + SumFunctionOnSet(fun, rest)
          /\ SumFunctionOnSet(other, s) = other[x] + SumFunctionOnSet(other, rest)
      BY <3>1, <3>2, <3>3, SumWithout
    <3>5. SumFunctionOnSet(fun, rest) \in Nat /\ SumFunctionOnSet(other, rest) \in Nat
      BY <3>2, <3>3, SumIsNat
    <3>6. fun[x] \in Nat /\ other[x] \in Nat /\ fun[x] <= other[x]
      BY <3>1
    <3>7. SumFunctionOnSet(fun, rest) <= SumFunctionOnSet(other, rest)
      BY <3>2
    <3>8. SumFunctionOnSet(fun, s) <= SumFunctionOnSet(other, s)
      <4> HIDE DEF rest
      <4> QED
        BY ONLY <3>4, <3>5, <3>6, <3>7
    <3> QED
      BY <3>8
  <2> QED
    BY <2>1, <2>2
<1>2. \A s \in SUBSET S : s \in T
  <2> HIDE DEF T
  <2> QED
    BY <1>1, SubsetsBySet
<1> QED
  BY <1>2

\* Changing one value changes the sum by as much.
LEMMA SumChanged ==
  ASSUME NEW S, IsFiniteSet(S), NEW fun \in [S -> Nat], NEW x \in S, NEW v \in Nat, fun[x] = 0
  PROVE  SumFunctionOnSet([fun EXCEPT ![x] = v], S) = SumFunctionOnSet(fun, S) + v
<1> DEFINE rest == S \ {x}
           other == [fun EXCEPT ![x] = v]
<1>1. other \in [S -> Nat] /\ other[x] = v /\ \A y \in rest : other[y] = fun[y] /\ fun[y] \in Nat
  OBVIOUS
<1>2. IsFiniteSet(rest)
  BY FS_Subset
<1> HIDE DEF other
<1>3. /\ SumFunctionOnSet(fun, S) = fun[x] + SumFunctionOnSet(fun, rest)
      /\ SumFunctionOnSet(other, S) = other[x] + SumFunctionOnSet(other, rest)
  BY <1>1, SumWithout
<1> HIDE DEF rest
<1>4. SumFunctionOnSet(fun, rest) = SumFunctionOnSet(other, rest) /\ SumFunctionOnSet(fun, rest) \in Nat
  BY <1>1, <1>2, SumSame, SumIsNat
<1> QED
  BY <1>1, <1>3, <1>4 DEF other

\* What has been granted when the cells of d have been served.
GrantsHold(cells, n, room, d, a) ==
  /\ a \in Shares(n) /\ a.left = n - Cardinality(d)
  /\ SumFunctionOnSet(a.grants, 1..n) + a.room = room
  /\ \A i \in d : a.grants[i] <= cells[i] /\ a.grants[i] * a.left <= a.room
  /\ \A i \in (1..n) \ d : a.grants[i] = 0
  /\ \A i \in d : a.grants[i] < cells[i] =>
       /\ a.room <= (a.grants[i] + 1) * a.left
       /\ \A j \in d : a.grants[j] <= a.grants[i] + 1

LEMMA OneMoreGrant ==
  ASSUME NEW n \in Nat, NEW cells \in [1..n -> Nat], NEW room \in Nat,
         NEW d \in SUBSET (1..n), NEW x \in d, ServedLast(cells, d, x),
         NEW a, GrantsHold(cells, n, room, d \ {x}, a)
  PROVE  GrantsHold(cells, n, room, d, GrantTo(cells, x, a))
<1> DEFINE e == d \ {x}
           g == Grant(cells[x], a.room, a.left)
           b == GrantTo(cells, x, a)
           left == a.left
           was == a.grants
           next == b.grants
<1>1. /\ a \in Shares(n) /\ left = n - Cardinality(e)
      /\ SumFunctionOnSet(was, 1..n) + a.room = room
      /\ \A i \in e : was[i] <= cells[i] /\ was[i] * left <= a.room
      /\ \A i \in (1..n) \ e : was[i] = 0
      /\ \A i \in e : was[i] < cells[i] =>
           a.room <= (was[i] + 1) * left /\ \A j \in e : was[j] <= was[i] + 1
  BY DEF GrantsHold
<1>2. /\ x \in 1..n /\ IsFiniteSet(d) /\ Cardinality(e) = Cardinality(d) - 1
      /\ Cardinality(d) \in Nat /\ Cardinality(d) <= n /\ Cardinality(e) \in Nat
  <2> DEFINE all == 1..n
  <2>1. IsFiniteSet(all) /\ Cardinality(all) = n /\ d \in SUBSET all /\ e \in SUBSET all
    BY UpToFinite
  <2> HIDE DEF all
  <2>2. IsFiniteSet(d) /\ Cardinality(d) <= n /\ IsFiniteSet(e)
    BY <2>1, FS_Subset
  <2>3. Cardinality(e) = Cardinality(d) - 1
    BY <2>2, FS_RemoveElement
  <2> QED
    BY <2>2, <2>3, FS_CardinalityType
<1>3. left \in Nat /\ left > 0 /\ left - 1 = n - Cardinality(d)
  <2> HIDE DEF e, left
  <2> QED
    BY <1>1, <1>2
<1>4. /\ a.room \in Nat /\ cells[x] \in Nat /\ was \in [1..n -> Nat]
  BY <1>1, <1>2 DEF Shares
<1>5. /\ g \in Nat /\ b \in Shares(n) /\ b.room = a.room - g /\ b.left = left - 1
      /\ next = [was EXCEPT ![x] = g]
  <2>1. a \in Shares(n) /\ x \in 1..n /\ a.left > 0
    BY <1>1, <1>2, <1>3
  <2>2. g \in Nat /\ b \in Shares(n)
    <3>1. MoreToServe(cells, n, x, a)
      BY <2>1 DEF MoreToServe
    <3> QED
      BY <3>1, GrantStays
  <2>3. b = [room |-> a.room - g, left |-> left - 1, grants |-> [was EXCEPT ![x] = g]]
    BY GrantIs
  <2> HIDE DEF g, b, left, was
  <2> QED
    BY <2>2, <2>3
<1>6. /\ g <= cells[x] /\ b.room \in Nat /\ g * (left - 1) <= b.room
      /\ \A k \in Nat : k * left <= a.room => k * (left - 1) <= b.room
      /\ g < cells[x] => /\ b.room <= (g + 1) * (left - 1)
                         /\ \A k \in Nat : k * left <= a.room => k <= g
      /\ \A k \in Nat : k * left <= a.room /\ a.room <= (k + 1) * left /\ k + 1 <= cells[x] =>
           g <= k + 1 /\ b.room <= (k + 1) * (left - 1)
  <2> HIDE DEF g, b
  <2>1. b.room = a.room - g
    BY <1>5
  <2> QED
    <3> DEFINE cost == cells[x]
               had == a.room
    <3>1. cost \in Nat /\ had \in Nat /\ g = Grant(cost, had, left) /\ b.room = had - g
      BY <1>4, <2>1 DEF g
    <3> HIDE DEF cost, had, left
    <3>2. /\ g <= cost /\ b.room \in Nat /\ g * (left - 1) <= b.room
          /\ \A k \in Nat : k * left <= had => k * (left - 1) <= b.room
          /\ g < cost => /\ b.room <= (g + 1) * (left - 1)
                         /\ \A k \in Nat : k * left <= had => k <= g
          /\ \A k \in Nat : k * left <= had /\ had <= (k + 1) * left /\ k + 1 <= cost =>
               g <= k + 1 /\ b.room <= (k + 1) * (left - 1)
      <4>1. LET p == Grant(cost, had, left)
            IN /\ p \in Nat /\ p <= cost /\ had - p \in Nat /\ p * (left - 1) <= had - p
               /\ \A k \in Nat : k * left <= had => k * (left - 1) <= had - p
               /\ p < cost => /\ had - p <= (p + 1) * (left - 1)
                              /\ \A k \in Nat : k * left <= had => k <= p
               /\ \A k \in Nat : k * left <= had /\ had <= (k + 1) * left /\ k + 1 <= cost =>
                    p <= k + 1 /\ had - p <= (k + 1) * (left - 1)
        BY <1>3, <3>1, GrantMoves, Zenon
      <4> QED
        BY <3>1, <4>1
    <3> QED
      BY <3>2 DEF cost, had
<1>7. d = e \cup {x} /\ x \notin e /\ \A i \in e : cells[i] <= cells[x] /\ i \in 1..n /\ cells[i] \in Nat
  BY <1>4 DEF ServedLast
<1>8. next[x] = g /\ (\A i \in e : next[i] = was[i]) /\ \A i \in (1..n) \ d : next[i] = was[i]
  <2> HIDE DEF e, g, was, next
  <2> QED
    BY <1>2, <1>4, <1>5, <1>7
<1>9. SumFunctionOnSet(next, 1..n) + b.room = room
  <2> DEFINE all == 1..n
  <2>1. was[x] = 0 /\ IsFiniteSet(all) /\ was \in [all -> Nat] /\ x \in all
    BY <1>1, <1>2, <1>4, <1>7, UpToFinite
  <2>2. next = [was EXCEPT ![x] = g]
    BY <1>5
  <2>3. SumFunctionOnSet(was, all) + a.room = room
    BY <1>1
  <2> HIDE DEF all, was, next, g
  <2>4. SumFunctionOnSet(next, all) = SumFunctionOnSet(was, all) + g
    <3>1. g \in Nat
      BY <1>5
    <3>2. SumFunctionOnSet([was EXCEPT ![x] = g], all) = SumFunctionOnSet(was, all) + g
      BY <2>1, <3>1, SumChanged, Zenon
    <3> QED
      BY <2>2, <3>2
  <2>5. SumFunctionOnSet(was, all) \in Nat
    BY <2>1, SumIsNat
  <2>6. b.room = a.room - g
    BY <1>5
  <2>7. SumFunctionOnSet(next, all) + b.room = room
    BY <1>4, <1>5, <2>3, <2>4, <2>5, <2>6
  <2> QED
    BY <2>7 DEF all
<1> HIDE DEF e, g, b, left, was, next
<1>10. \A i \in e : was[i] \in Nat /\ cells[i] \in Nat
  BY <1>4, <1>7
<1>11. \A i \in d : next[i] <= cells[i] /\ next[i] * (left - 1) <= b.room
  BY <1>1, <1>6, <1>7, <1>8, <1>10
<1>12. ASSUME NEW i \in d, next[i] < cells[i]
       PROVE  b.room <= (next[i] + 1) * (left - 1) /\ \A j \in d : next[j] <= next[i] + 1
  <2>1. CASE i = x
    <3>1. g < cells[x] /\ next[i] = g
      BY <1>8, <1>12, <2>1
    <3>2. \A j \in e : was[j] <= g
      BY <1>1, <1>6, <1>10, <3>1
    <3>3. \A j \in d : next[j] <= g + 1
      BY <1>5, <1>7, <1>8, <1>10, <3>1, <3>2
    <3> QED
      BY <1>6, <3>1, <3>3
  <2>2. CASE i \in e
    <3> DEFINE k == was[i]
    <3>1. next[i] = k /\ k < cells[i] /\ k \in Nat
      BY <1>8, <1>10, <1>12, <2>2
    <3>2. k * left <= a.room /\ a.room <= (k + 1) * left /\ \A j \in e : was[j] <= k + 1
      BY <1>1, <2>2, <3>1
    <3>3. k + 1 <= cells[x]
      <4>1. cells[i] \in Nat /\ cells[i] <= cells[x]
        BY <1>7, <2>2
      <4> HIDE DEF k
      <4> QED
        BY <1>4, <3>1, <4>1
    <3> HIDE DEF k
    <3>4. g <= k + 1 /\ b.room <= (k + 1) * (left - 1)
      BY <1>6, <3>1, <3>2, <3>3
    <3> QED
      BY <1>7, <1>8, <3>1, <3>2, <3>4
  <2> QED
    BY <1>7, <2>1, <2>2
<1>13. \A i \in (1..n) \ d : next[i] = 0
  BY <1>1, <1>7, <1>8
<1>14. b.left = left - 1
  BY <1>5
<1>15. GrantsHold(cells, n, room, d, b)
  BY <1>3, <1>5, <1>9, <1>11, <1>12, <1>13, <1>14 DEF GrantsHold, next
<1> QED
  BY <1>15 DEF b

LEMMA NothingGranted ==
  ASSUME NEW n \in Nat, NEW cells \in [1..n -> Nat], NEW room \in Nat
  PROVE  GrantsHold(cells, n, room, {}, [room |-> room, left |-> n, grants |-> [i \in 1..n |-> 0]])
<1> DEFINE zero == [i \in 1..n |-> 0]
           a == [room |-> room, left |-> n, grants |-> zero]
<1>1. a \in Shares(n) /\ a.left = n /\ a.room = room /\ a.grants = zero
  BY DEF Shares
<1>2. Cardinality({}) = 0
  BY FS_EmptySet
<1>3. SumFunctionOnSet(zero, 1..n) = 0
  <2>1. IsFiniteSet(1..n) /\ \A x \in 1..n : zero[x] = 0
    BY UpToFinite
  <2> HIDE DEF zero
  <2> QED
    BY <2>1, SumOfZeros
<1>4. SumFunctionOnSet(zero, 1..n) + room = room /\ \A i \in 1..n : zero[i] = 0
  BY <1>3
<1> HIDE DEF a, zero
<1>5. GrantsHold(cells, n, room, {}, a)
  BY <1>1, <1>2, <1>4 DEF GrantsHold
<1> QED
  BY <1>5 DEF a, zero

\* share_room: no cell gets more than it needs and all of them no more than the
\* room; when one gets less, no room is left, and no other gets more than one
\* above it.
LEMMA SharedFairly ==
  ASSUME NEW n \in Nat, NEW cells \in [1..n -> Nat], Len(cells) = n, NEW room \in Nat
  PROVE  LET grants == ShareRoom(cells, room)
         IN /\ grants \in [1..n -> Nat] /\ SumFunctionOnSet(grants, 1..n) <= room
            /\ \A i \in 1..n : grants[i] <= cells[i]
            /\ \A i \in 1..n : grants[i] < cells[i] =>
                 /\ SumFunctionOnSet(grants, 1..n) = room
                 /\ \A j \in 1..n : grants[j] <= grants[i] + 1
<1> DEFINE all == 1..n
<1>1. PICK h : SharesBy(cells, n, room, h) /\ ShareRoom(cells, room) = h[all].grants
  BY ShareRuns
<1> DEFINE T == {d \in SUBSET all : GrantsHold(cells, n, room, d, h[d])}
<1>2. /\ h[{}] = [room |-> room, left |-> n, grants |-> [i \in 1..n |-> 0]]
      /\ \A d \in SUBSET all :
           d # {} => h[d] = GrantTo(cells, LongestOf(cells, d), h[d \ {LongestOf(cells, d)}])
  BY <1>1 DEF SharesBy
<1>3. IsFiniteSet(all) /\ Cardinality(all) = n /\ all \in SUBSET all
  BY UpToFinite
<1>4. ASSUME NEW d \in SUBSET all, \A e \in SUBSET all : e \subseteq d /\ e # d => e \in T
      PROVE  d \in T
  <2>1. CASE d = {}
    <3>1. GrantsHold(cells, n, room, {}, h[{}])
      BY <1>2, NothingGranted
    <3> QED
      BY <2>1, <3>1
  <2>2. CASE d # {}
    <3> DEFINE x == LongestOf(cells, d)
               e == d \ {x}
               a == h[e]
    <3>1. ServedLast(cells, d, x) /\ x \in d
      BY <2>2, LongestIsLast DEF ServedLast
    <3>2. e \in T /\ h[d] = GrantTo(cells, x, a)
      <4> HIDE DEF T
      <4> QED
        BY <1>2, <1>4, <2>2, <3>1
    <3>3. GrantsHold(cells, n, room, e, a)
      BY <3>2
    <3> HIDE DEF x, a
    <3>4. GrantsHold(cells, n, room, d, GrantTo(cells, x, a))
      BY <3>1, <3>3, OneMoreGrant
    <3> QED
      BY <3>2, <3>4
  <2> QED
    BY <2>1, <2>2
<1>5. all \in T
  <2> HIDE DEF T, all
  <2> QED
    BY <1>3, <1>4, SubsetsBySet, ZenonT(60)
<1> DEFINE a == h[all]
           grants == a.grants
<1>6. /\ a \in Shares(n) /\ a.left = n - n
      /\ SumFunctionOnSet(grants, all) + a.room = room
      /\ \A i \in all : grants[i] <= cells[i]
      /\ \A i \in all : grants[i] < cells[i] =>
           a.room <= (grants[i] + 1) * a.left /\ \A j \in all : grants[j] <= grants[i] + 1
  <2>1. GrantsHold(cells, n, room, all, a) /\ Cardinality(all) = n
    BY <1>3, <1>5
  <2> QED
    BY <2>1 DEF GrantsHold
<1>7. a.left = 0 /\ a.room \in Nat /\ grants \in [all -> Nat]
  BY <1>6 DEF Shares
<1> HIDE DEF a, grants
<1>8. SumFunctionOnSet(grants, all) \in Nat
  <2> HIDE DEF all
  <2> QED
    BY <1>3, <1>7, SumIsNat
<1>9. ASSUME NEW i \in all, grants[i] < cells[i] PROVE a.room = 0
  <2>1. a.room <= (grants[i] + 1) * a.left /\ grants[i] \in Nat
    BY <1>6, <1>7, <1>9
  <2> QED
    BY <1>7, <2>1
<1>10. /\ SumFunctionOnSet(grants, all) <= room
       /\ \A i \in all : grants[i] < cells[i] => SumFunctionOnSet(grants, all) = room
  BY <1>6, <1>7, <1>8, <1>9
<1>11. ShareRoom(cells, room) = grants
  BY <1>1 DEF a, grants
<1> QED
  BY <1>6, <1>7, <1>10, <1>11

\* clip_row: what a row is cut to.  Either it fits, or one character of each cell
\* is left; and a row that had to be cut uses the page up, and shares it fairly.
LEMMA ClippedFairly ==
  ASSUME NEW n \in Nat, NEW cells \in [1..n -> Nat], Len(cells) = n, NEW bytes \in Nat
  PROVE  LET cut == ClippedCells(cells, bytes)
         IN /\ cut \in [1..n -> Nat] /\ Total(cut) \in Nat
            /\ Base + Total(cut) > bytes => \A i \in 1..n : cut[i] <= 1
            /\ Base + Total(cells) > bytes =>
                 /\ Base + Total(cut) >= bytes
                 /\ \A i, j \in 1..n : cut[i] < cells[i] => cut[j] <= cut[i] + 1
<1> DEFINE room == LargerOf(bytes - Base, 0)
           grants == ShareRoom(cells, room)
           cut == ClippedCells(cells, bytes)
           all == 1..n
           granted == SumFunctionOnSet(grants, all)
<1>1. DOMAIN cells = all /\ IsFiniteSet(all) /\ Base \in Nat /\ room \in Nat
  <2>1. bytes - Base \in Int /\ Base \in Nat
    BY PagingFacts
  <2> QED
    BY <2>1, UpToFinite DEF LargerOf
<1>2. (room > 0 => room = bytes - Base) /\ (bytes >= Base => room = bytes - Base)
  <2>1. bytes - Base \in Int /\ Base \in Nat
    BY PagingFacts
  <2> QED
    BY <2>1 DEF LargerOf
<1> HIDE DEF room
<1>3. /\ grants \in [all -> Nat] /\ granted <= room
      /\ \A i \in all : grants[i] <= cells[i]
      /\ \A i \in all : grants[i] < cells[i] =>
           granted = room /\ \A j \in all : grants[j] <= grants[i] + 1
  BY <1>1, SharedFairly
<1>4. cut = [i \in all |-> ClipValue(cells[i], grants[i])]
  BY <1>1 DEF ClippedCells, room
<1> HIDE DEF grants, cut, granted
<1>5. ASSUME NEW i \in all
      PROVE  /\ grants[i] \in Nat /\ cells[i] \in Nat /\ grants[i] <= cells[i]
             /\ cut[i] \in Nat /\ cut[i] >= grants[i]
             /\ cut[i] = grants[i] \/ (cut[i] = 1 /\ grants[i] = 0 /\ cells[i] >= 1)
  <2>1. grants[i] \in Nat /\ cells[i] \in Nat /\ grants[i] <= cells[i]
    BY <1>3
  <2>2. cut[i] = LargerOf(grants[i], SmallerOf(cells[i], 1))
    BY <1>4 DEF ClipValue
  <2> DEFINE g == grants[i]
             c == cells[i]
  <2> HIDE DEF g, c
  <2>3. LargerOf(g, SmallerOf(c, 1)) \in Nat /\ LargerOf(g, SmallerOf(c, 1)) >= g
        /\ (LargerOf(g, SmallerOf(c, 1)) = g \/ (LargerOf(g, SmallerOf(c, 1)) = 1 /\ g = 0 /\ c >= 1))
    BY <2>1 DEF LargerOf, SmallerOf, g, c
  <2> QED
    BY <2>1, <2>2, <2>3 DEF g, c
<1>6. /\ cut \in [all -> Nat] /\ DOMAIN cut = all
      /\ Total(cut) = SumFunctionOnSet(cut, all) /\ Total(cells) = SumFunctionOnSet(cells, all)
  <2>1. cut \in [all -> Nat]
    BY <1>4, <1>5
  <2> QED
    BY <1>1, <2>1 DEF Total, SumFunction
<1>7. /\ SumFunctionOnSet(cut, all) \in Nat /\ SumFunctionOnSet(cells, all) \in Nat /\ granted \in Nat
      /\ granted <= SumFunctionOnSet(cut, all)
  <2> HIDE DEF all
  <2>1. \A i \in all : cut[i] \in Nat /\ cells[i] \in Nat /\ grants[i] \in Nat /\ grants[i] <= cut[i]
    BY <1>5
  <2> QED
    BY <1>1, <2>1, SumIsNat, SumNoLarger DEF granted
\* When a cell keeps more than one character, each is cut to what it was granted.
<1>8. ASSUME NEW i \in all, cut[i] > 1 PROVE Base + Total(cut) <= bytes
  <2>1. grants[i] > 1
    BY <1>5, <1>8
  <2>2. \A j \in all : cut[j] = grants[j]
    <3>1. SUFFICES ASSUME NEW j \in all, cut[j] # grants[j] PROVE FALSE
      OBVIOUS
    <3>2. grants[j] = 0 /\ cells[j] >= 1 /\ cells[j] \in Nat /\ grants[j] < cells[j]
      BY <1>5, <3>1
    <3>3. grants[i] <= grants[j] + 1 /\ grants[i] \in Nat
      BY <1>3, <1>5, <3>2
    <3> QED
      BY <2>1, <3>2, <3>3
  <2>3. SumFunctionOnSet(cut, all) = granted
    <3> HIDE DEF all
    <3>1. \A j \in all : cut[j] \in Nat /\ cut[j] = grants[j]
      BY <1>5, <2>2
    <3> QED
      BY <1>1, <3>1, SumSame DEF granted
  <2>4. granted > 0
    <3> HIDE DEF all
    <3>1. \A j \in all : grants[j] \in Nat
      BY <1>5
    <3>2. granted = grants[i] + SumFunctionOnSet(grants, all \ {i})
      BY <1>1, <3>1, SumWithout DEF granted
    <3>3. SumFunctionOnSet(grants, all \ {i}) \in Nat
      <4>1. IsFiniteSet(all \ {i})
        BY <1>1, FS_Subset
      <4> QED
        BY <3>1, <4>1, SumIsNat
    <3> QED
      BY <1>5, <2>1, <3>2, <3>3
  <2>5. room = bytes - Base
    BY <1>1, <1>2, <1>3, <1>7, <2>4
  <2> QED
    BY <1>1, <1>3, <1>6, <1>7, <2>3, <2>5
<1>9. Base + Total(cut) > bytes => \A i \in all : cut[i] <= 1
  <2>1. SUFFICES ASSUME Base + Total(cut) > bytes, NEW i \in all, ~(cut[i] <= 1) PROVE FALSE
    OBVIOUS
  <2>2. cut[i] > 1
    BY <1>5, <2>1
  <2> QED
    BY <1>1, <1>6, <1>7, <1>8, <2>1, <2>2
<1>10. ASSUME Base + Total(cells) > bytes PROVE Base + Total(cut) >= bytes
  <2>1. CASE bytes < Base
    BY <1>1, <1>6, <1>7, <2>1
  <2>2. CASE bytes >= Base
    <3>1. room = bytes - Base
      BY <1>2, <2>2
    <3>2. \E i \in all : grants[i] < cells[i]
      <4>1. SUFFICES ASSUME \A i \in all : ~(grants[i] < cells[i]) PROVE FALSE
        OBVIOUS
      <4>2. SumFunctionOnSet(grants, all) = SumFunctionOnSet(cells, all)
        <5>1. \A i \in all : grants[i] \in Nat /\ grants[i] = cells[i]
          BY <1>5, <4>1
        <5> HIDE DEF all
        <5> QED
          BY <1>1, <5>1, SumSame
      <4> QED
        BY <1>1, <1>3, <1>6, <1>7, <1>10, <3>1, <4>2 DEF granted
    <3>3. granted = room
      BY <1>3, <3>2
    <3> QED
      BY <1>1, <1>6, <1>7, <3>1, <3>3
  <2> QED
    BY <1>1, <2>1, <2>2
<1>11. ASSUME NEW i \in all, NEW j \in all, cut[i] < cells[i] PROVE cut[j] <= cut[i] + 1
  <2>1. grants[i] < cells[i]
    BY <1>5, <1>11
  <2>2. grants[j] <= grants[i] + 1
    BY <1>3, <2>1
  <2>3. /\ grants[i] \in Nat /\ grants[j] \in Nat /\ cut[i] \in Nat /\ cut[j] \in Nat /\ cut[i] >= grants[i]
        /\ cut[j] = grants[j] \/ cut[j] = 1
    BY <1>5
  <2> QED
    BY <2>2, <2>3
<1> QED
  BY <1>6, <1>7, <1>9, <1>10, <1>11 DEF cut

-----------------------------------------------------------------------------
(* Rows and pages.                                                          *)

LEMMA RowFacts ==
  ASSUME NEW row \in RowKinds
  PROVE  \E n \in Nat : /\ row.cells \in [1..n -> Nat] /\ Len(row.cells) = n /\ DOMAIN row.cells = 1..n
                        /\ Total(row.cells) \in Nat
<1>1. row.cells \in Seq(Nat)
  BY PagingFacts
<1> DEFINE n == Len(row.cells)
           all == 1..n
<1>2. n \in Nat /\ row.cells \in [all -> Nat] /\ DOMAIN row.cells = all
  BY <1>1, LenProperties
<1>3. IsFiniteSet(all) /\ \A i \in all : row.cells[i] \in Nat
  BY <1>2, UpToFinite
<1>4. Total(row.cells) = SumFunctionOnSet(row.cells, all)
  BY <1>2 DEF Total, SumFunction
<1> HIDE DEF all
<1>5. SumFunctionOnSet(row.cells, all) \in Nat
  BY <1>3, SumIsNat
<1> QED
  BY <1>2, <1>4, <1>5 DEF all

\* What a first row takes, and is counted as.
FirstRowIs(tool, row, bytes) ==
  LET length == Length(tool, row)
      returned == FirstReturned(tool, row, bytes)
      counted == FirstCounted(tool, row, bytes)
  IN /\ length \in Nat /\ length >= 1
     /\ returned \in Nat /\ counted \in Nat /\ returned <= counted
     /\ length <= bytes \/ tool # "query" => counted = length
     /\ tool = "query" /\ length > bytes =>
          /\ counted >= bytes
          /\ returned > bytes => \A i \in DOMAIN row.cells : ClippedCells(row.cells, bytes)[i] <= 1
          /\ Base + Total(ClippedCells(row.cells, bytes)) >= bytes
          /\ \A i, j \in DOMAIN row.cells :
               ClippedCells(row.cells, bytes)[i] < row.cells[i] =>
                 ClippedCells(row.cells, bytes)[j] <= ClippedCells(row.cells, bytes)[i] + 1

LEMMA DescriptionClipped ==
  ASSUME NEW d \in Nat, NEW bytes \in Nat
  PROVE  /\ ClippedDescription(d, bytes) \in Nat
         /\ ClippedDescription(d, bytes) <= FindingLength(d, FALSE)
<1> DEFINE Longest(n) == /\ n = 0 \/ FindingLength(n, TRUE) <= bytes
                         /\ \A m \in (n + 1) .. d : FindingLength(m, TRUE) > bytes
           low == CHOOSE n \in 0..d : Longest(n)
<1>1. Base \in Nat
  BY PagingFacts
<1>2. \E n \in 0..d : Longest(n)
  <2>1. CASE Base + d <= bytes
    <3>1. d \in 0..d /\ Longest(d)
      BY <1>1, <2>1 DEF FindingLength
    <3> QED
      BY <3>1
  <2>2. CASE Base + d > bytes /\ bytes >= Base
    <3> DEFINE n == bytes - Base
    <3>1. n \in 0..d /\ n \in Nat /\ Base + n = bytes
      BY <1>1, <2>2
    <3>2. \A m \in (n + 1) .. d : m \in Nat /\ Base + m > bytes
      BY <1>1, <3>1
    <3> HIDE DEF n
    <3>3. Longest(n)
      BY <1>1, <3>1, <3>2 DEF FindingLength
    <3> QED
      BY <3>1, <3>3
  <2>3. CASE bytes < Base
    <3>1. \A m \in (0 + 1) .. d : m \in Nat /\ Base + m > bytes
      BY <1>1, <2>3
    <3>2. 0 \in 0..d /\ Longest(0)
      BY <1>1, <3>1 DEF FindingLength
    <3> QED
      BY <3>2
  <2>4. Base + d <= bytes \/ (Base + d > bytes /\ bytes >= Base) \/ bytes < Base
    BY <1>1
  <2> HIDE DEF Longest
  <2> QED
    BY <2>1, <2>2, <2>3, <2>4
<1>3. low \in 0..d
  BY <1>2
<1>4. \/ ClippedDescription(d, bytes) = FindingLength(d, FALSE)
      \/ ClippedDescription(d, bytes) = FindingLength(low, TRUE)
  BY DEF ClippedDescription
<1> HIDE DEF low
<1> QED
  BY <1>1, <1>3, <1>4 DEF FindingLength

LEMMA FirstRow ==
  ASSUME NEW tool \in Tools, NEW row \in RowKinds, NEW bytes \in Nat
  PROVE  FirstRowIs(tool, row, bytes)
<1> DEFINE cells == row.cells
           cut == ClippedCells(cells, bytes)
           length == Length(tool, row)
           returned == FirstReturned(tool, row, bytes)
           counted == FirstCounted(tool, row, bytes)
<1>1. PICK n \in Nat : /\ cells \in [1..n -> Nat] /\ Len(cells) = n /\ DOMAIN cells = 1..n
                       /\ Total(cells) \in Nat
  BY RowFacts
<1>2. /\ Total(cut) \in Nat
      /\ Base + Total(cut) > bytes => \A i \in 1..n : cut[i] <= 1
      /\ Base + Total(cells) > bytes =>
           /\ Base + Total(cut) >= bytes
           /\ \A i, j \in 1..n : cut[i] < cells[i] => cut[j] <= cut[i] + 1
  BY <1>1, ClippedFairly
<1>3. Base \in Nat /\ Base >= 1
  BY PagingFacts
<1>4. length = IF tool = "finding_read" THEN Base + Total(cells) + 1 ELSE Base + Total(cells)
  BY <1>1, <1>3 DEF Length, FindingLength
<1>5. /\ returned = IF length <= bytes THEN length
                    ELSE IF tool = "query" THEN Base + Total(cut)
                    ELSE IF tool = "finding_read" THEN ClippedDescription(Total(cells), bytes)
                    ELSE length
      /\ counted = IF tool = "query" THEN returned ELSE length
  BY DEF FirstReturned, FirstCounted
<1>6. /\ ClippedDescription(Total(cells), bytes) \in Nat
      /\ ClippedDescription(Total(cells), bytes) <= Base + Total(cells) + 1
  <2>1. FindingLength(Total(cells), FALSE) = Base + Total(cells) + 1
    BY DEF FindingLength
  <2> HIDE DEF cells
  <2> QED
    BY <1>1, <2>1, DescriptionClipped
<1> HIDE DEF cells, cut, length, returned, counted
<1>7. length \in Nat /\ length >= 1
  BY <1>1, <1>3, <1>4
<1>8. returned \in Nat /\ counted \in Nat /\ returned <= counted
  <2>1. CASE tool = "query"
    BY <1>2, <1>3, <1>5, <1>7, <2>1
  <2>2. CASE tool = "finding_read"
    BY <1>4, <1>5, <1>6, <1>7, <2>2
  <2>3. CASE tool # "query" /\ tool # "finding_read"
    BY <1>5, <1>7, <2>3
  <2> QED
    BY <2>1, <2>2, <2>3
<1>9. length <= bytes \/ tool # "query" => counted = length
  BY <1>5
<1>10. ASSUME tool = "query", length > bytes
       PROVE  /\ counted = Base + Total(cut) /\ counted >= bytes
              /\ returned > bytes => \A i \in 1..n : cut[i] <= 1
              /\ Base + Total(cut) >= bytes
              /\ \A i, j \in 1..n : cut[i] < cells[i] => cut[j] <= cut[i] + 1
  <2>1. length = Base + Total(cells)
    BY <1>4, <1>10
  <2>2. ~(length <= bytes)
    BY <1>7, <1>10
  <2>3. returned = Base + Total(cut) /\ counted = returned
    BY <1>5, <1>10, <2>2
  <2>4. Base + Total(cells) > bytes
    BY <1>10, <2>1
  <2> QED
    BY <1>2, <2>3, <2>4
<1> QED
  BY <1>1, <1>7, <1>8, <1>9, <1>10 DEF FirstRowIs, cells, cut, length, returned, counted

\* The rows after the first: they take some bytes each.
LEMMA RestIs ==
  ASSUME NEW res, res.tool \in Tools, res.rows \in Seq(RowKinds),
         NEW from \in Nat, NEW k \in Nat, k >= 1, from + k <= Len(res.rows)
  PROVE  Rest(res, from, k) \in Nat /\ (k = 1 => Rest(res, from, k) = 0) /\ (k > 1 => Rest(res, from, k) >= 1)
<1> DEFINE m == k - 1
           all == 1..m
           tail == [j \in all |-> Length(res.tool, res.rows[from + 1 + j])]
           total == SumFunctionOnSet(tail, all)
<1>1. m \in Nat /\ IsFiniteSet(all)
  BY UpToFinite
<1>2. ASSUME NEW j \in all PROVE tail[j] \in Nat /\ tail[j] >= 1
  <2> DEFINE i == from + 1 + j
  <2>1. Len(res.rows) \in Nat
    BY LenProperties
  <2>2. i \in 1..Len(res.rows)
    BY <2>1
  <2>3. res.rows[i] \in RowKinds
    <3> HIDE DEF i
    <3> QED
      BY <2>2, ElementOfSeq
  <2> HIDE DEF i
  <2>4. FirstRowIs(res.tool, res.rows[i], 0)
    BY <2>3, FirstRow
  <2>5. Length(res.tool, res.rows[i]) \in Nat /\ Length(res.tool, res.rows[i]) >= 1
    BY <2>4 DEF FirstRowIs
  <2> QED
    BY <2>5 DEF i
<1>3. Rest(res, from, k) = total
  BY DEF Rest, Total, SumFunction
<1>4. DOMAIN tail = all
  OBVIOUS
<1> HIDE DEF tail
<1>5. total \in Nat
  <2> HIDE DEF all
  <2> QED
    BY <1>1, <1>2, SumIsNat
<1>6. CASE k = 1
  <2>1. all = {}
    BY <1>6
  <2>2. total = 0
    BY <2>1, SumOfNothing
  <2> QED
    BY <1>3, <1>6, <2>2
<1>7. CASE k > 1
  <2>1. 1 \in all
    BY <1>7
  <2> HIDE DEF all
  <2>2. total = tail[1] + SumFunctionOnSet(tail, all \ {1})
    BY <1>1, <1>2, <2>1, SumWithout
  <2>3. SumFunctionOnSet(tail, all \ {1}) \in Nat
    <3>1. IsFiniteSet(all \ {1})
      BY <1>1, FS_Subset
    <3> QED
      BY <1>2, <3>1, SumIsNat
  <2> HIDE DEF total
  <2>4. total >= 1
    BY <1>2, <2>1, <2>2, <2>3
  <2> QED
    BY <1>3, <1>5, <1>7, <2>4
<1> QED
  BY <1>3, <1>5, <1>6, <1>7

\* A page takes the rows up to the first that does not fit, and always one.
LEMMA TakenIs ==
  ASSUME NEW res, res.rows \in Seq(RowKinds), NEW from \in 0..Len(res.rows), NEW bytes, NEW cap
  PROVE  LET taken == Taken(res, from, bytes, cap)
             left == Len(res.rows) - from
         IN /\ taken \in 0..left /\ left \in Nat /\ (left > 0 => taken > 0)
            /\ \A k \in 1..taken : Fits(res, from, k, bytes, cap)
            /\ taken < left => ~Fits(res, from, taken + 1, bytes, cap)
<1> DEFINE left == Len(res.rows) - from
           refused == {k \in 1..left : ~Fits(res, from, k, bytes, cap)}
           taken == Taken(res, from, bytes, cap)
<1>1. left \in Nat /\ Len(res.rows) \in Nat
  BY LenProperties
<1>2. taken = IF refused = {} THEN left ELSE Min(refused) - 1
  BY DEF Taken
<1>3. Fits(res, from, 1, bytes, cap)
  BY DEF Fits
<1> HIDE DEF left, taken
<1>4. CASE refused = {}
  BY <1>1, <1>2, <1>4 DEF left, taken
<1>5. CASE refused # {}
  <2> DEFINE low == Min(refused)
  <2>1. low \in refused /\ \A k \in refused : low <= k
    <3>1. refused \in SUBSET Nat
      BY <1>1
    <3> HIDE DEF refused
    <3>2. \E k \in refused : \A j \in refused : k <= j
      BY <1>5, <3>1, LeastNumber
    <3> QED
      BY <3>2 DEF Min
  <2>2. low \in 1..left /\ ~Fits(res, from, low, bytes, cap) /\ low # 1
    BY <1>3, <2>1
  <2>3. taken = low - 1
    BY <1>2, <1>5
  <2>4. \A k \in 1..left : k < low => Fits(res, from, k, bytes, cap)
    BY <1>1, <2>1, <2>2
  <2> HIDE DEF low, refused
  <2>5. taken \in 0..left /\ taken > 0 /\ taken + 1 = low /\ \A k \in 1..taken : k \in 1..left /\ k < low
    BY <1>1, <2>2, <2>3
  <2> QED
    BY <1>1, <2>2, <2>4, <2>5 DEF left, taken
<1> QED
  BY <1>4, <1>5

\* A result of rows, and a place in it.
InRows(res, from) ==
  res.tool \in Tools /\ res.rows \in Seq(RowKinds) /\ from \in 0..Len(res.rows)

LEMMA FirstOfPage ==
  ASSUME NEW res, NEW from, InRows(res, from), NEW bytes \in Nat, from < Len(res.rows)
  PROVE  FirstRowIs(res.tool, res.rows[from + 1], bytes)
<1> DEFINE i == from + 1
<1>1. Len(res.rows) \in Nat /\ i \in 1..Len(res.rows)
  BY LenProperties DEF InRows
<1> HIDE DEF i
<1>2. res.rows[i] \in RowKinds /\ res.tool \in Tools
  BY <1>1, ElementOfSeq DEF InRows
<1>3. FirstRowIs(res.tool, res.rows[i], bytes)
  BY <1>2, FirstRow
<1> QED
  BY <1>3 DEF i

\* Where the page was cut by its bytes, a smaller page takes no row more.
LEMMA SmallerPage ==
  ASSUME NEW res, NEW from, InRows(res, from), NEW bytes \in Nat, NEW less \in Nat, less <= bytes,
         NEW cap \in Nat, Taken(res, from, bytes, cap) < cap,
         from + Taken(res, from, bytes, cap) < Len(res.rows)
  PROVE  Taken(res, from, less, cap) <= Taken(res, from, bytes, cap)
<1> DEFINE taken == Taken(res, from, bytes, cap)
           other == Taken(res, from, less, cap)
           left == Len(res.rows) - from
           row == res.rows[from + 1]
           k == taken + 1
           counted(b) == FirstCounted(res.tool, row, b)
<1>1. res.tool \in Tools /\ res.rows \in Seq(RowKinds) /\ from \in 0..Len(res.rows) /\ Len(res.rows) \in Nat
  BY LenProperties DEF InRows
<1>2. /\ taken \in 0..left /\ left \in Nat /\ (left > 0 => taken > 0)
      /\ taken < left => ~Fits(res, from, k, bytes, cap)
  BY <1>1, TakenIs
<1>3. other \in 0..left /\ \A j \in 1..other : Fits(res, from, j, less, cap)
  BY <1>1, TakenIs
<1>4. taken < left /\ taken > 0 /\ k \in Nat /\ k > 1 /\ k <= cap /\ from + k <= Len(res.rows) /\ from < Len(res.rows)
  <2> HIDE DEF taken
  <2>1. from \in Nat /\ left = Len(res.rows) - from
    BY <1>1
  <2> QED
    BY <1>1, <1>2, <2>1 DEF taken
<1>5. Rest(res, from, k) \in Nat /\ Rest(res, from, k) >= 1
  <2> HIDE DEF k
  <2> QED
    BY <1>1, <1>4, RestIs
<1>6. FirstRowIs(res.tool, row, bytes) /\ FirstRowIs(res.tool, row, less)
  BY <1>4, FirstOfPage
<1>7. ~(counted(bytes) + Rest(res, from, k) <= bytes)
  BY <1>2, <1>4 DEF Fits
<1>8. SUFFICES ASSUME ~(other <= taken) PROVE FALSE
  OBVIOUS
<1>9. counted(less) + Rest(res, from, k) <= less
  <2>1. k \in 1..other
    <3> HIDE DEF taken, other
    <3> QED
      BY <1>2, <1>3, <1>8
  <2>2. Fits(res, from, k, less, cap)
    BY <1>3, <2>1
  <2>3. k # 1
    BY <1>4
  <2> QED
    BY <2>2, <2>3 DEF Fits
<1> DEFINE length == Length(res.tool, row)
           more == Rest(res, from, k)
           big == counted(bytes)
           small == counted(less)
<1>10. /\ length \in Nat /\ big \in Nat /\ small \in Nat
       /\ length <= less \/ res.tool # "query" => small = length
       /\ length <= bytes \/ res.tool # "query" => big = length
       /\ res.tool = "query" /\ length > less => small >= less
  BY <1>6 DEF FirstRowIs
<1> HIDE DEF length, more, big, small, taken, other, k
<1>11. more \in Nat /\ more >= 1 /\ ~(big + more <= bytes) /\ small + more <= less
  BY <1>5, <1>7, <1>9 DEF more, big, small
<1> QED
  BY <1>10, <1>11

LEMMA PagesFitTheirRows ==
  ASSUME stored # Nothing, StoredFits
  PROVE  /\ \A from \in 0..Len(stored.rows) : InRows(stored, from)
         /\ stored.bytes \in Nat /\ stored.ceiling \in Nat /\ stored.bytes <= stored.ceiling /\ stored.bytes > 0
         /\ stored.cap \in Nat /\ stored.cap > 0
<1>1. stored.rows \in Seq(RowKinds)
  BY BoundedRows DEF StoredFits
<1>2. Ceilings \subseteq Nat
  BY PagingFacts
<1>3. \A from \in 0..Len(stored.rows) : InRows(stored, from)
  BY <1>1 DEF StoredFits, InRows
<1>4. stored.ceiling \in Nat /\ stored.bytes \in 1..stored.ceiling
  BY <1>2 DEF StoredFits
<1>5. stored.cap \in Nat /\ stored.cap > 0
  BY DEF StoredFits
<1> QED
  BY <1>3, <1>4, <1>5

\* A page of the stored rows is sound.
LEMMA FitIsSound ==
  ASSUME stored # Nothing, StoredFits, PageFits
  PROVE  PagesAreSound
<1> DEFINE from == page.from
           bytes == page.bytes
           cap == page.cap
           taken == Taken(stored, from, bytes, cap)
           len == Len(stored.rows)
           row == stored.rows[from + 1]
           more == from + taken < len
           returned == FirstReturned(stored.tool, row, bytes)
           counted == FirstCounted(stored.tool, row, bytes)
           length == Length(stored.tool, row)
           rest == Rest(stored, from, taken)
<1>1. /\ from \in 0..len /\ bytes \in 1..stored.ceiling /\ cap \in Nat \ {0}
      /\ page = Served(stored, from, taken, bytes, cap, more)
  BY DEF PageFits
<1>2. /\ page.taken = taken
      /\ page.cursor = IF more THEN from + taken ELSE 0
      /\ page.used = IF taken = 0 THEN 0 ELSE returned + rest
      /\ page.limited = IF more THEN CutBy(stored, from, taken, bytes, cap) ELSE stored.partial
  BY <1>1 DEF Served
<1>3. /\ InRows(stored, from) /\ stored.ceiling \in Nat /\ stored.bytes \in Nat
      /\ stored.bytes <= stored.ceiling /\ stored.bytes > 0
      /\ stored.tool \in Tools /\ stored.rows \in Seq(RowKinds) /\ len \in Nat
      /\ stored.partial \in {"none", "scan_window", "time_budget"}
  <2>1. stored.rows \in Seq(RowKinds) /\ stored.tool \in Tools
    BY <1>1, PagesFitTheirRows DEF InRows
  <2>2. len \in Nat
    BY <2>1, LenProperties
  <2> QED
    BY <1>1, <2>1, <2>2, PagesFitTheirRows DEF StoredFits
<1>4. bytes \in Nat /\ bytes <= stored.ceiling /\ cap \in Nat /\ cap > 0 /\ from \in Nat /\ from <= len
  BY <1>1, <1>3
<1>5. /\ taken \in 0 .. (len - from) /\ (len - from > 0 => taken > 0)
      /\ \A k \in 1..taken : Fits(stored, from, k, bytes, cap)
  BY <1>1, <1>3, TakenIs
<1>6. taken > 0 => FirstRowIs(stored.tool, row, bytes) /\ from < len
  <2>1. taken > 0 => from < len
    BY <1>3, <1>4, <1>5
  <2> QED
    BY <1>3, <1>4, <2>1, FirstOfPage
<1>7. page.cursor # 0 => page.taken > 0
  <2>1. more => taken > 0
    BY <1>3, <1>4, <1>5
  <2> QED
    BY <1>2, <2>1
<1>8. ASSUME page.used > page.bytes
      PROVE  /\ page.taken = 1
             /\ stored.tool = "query" => \A i \in DOMAIN First.cells :
                                           ClippedCells(First.cells, page.bytes)[i] <= 1
  <2>1. taken \in Nat /\ taken > 0 /\ returned + rest > bytes
    BY <1>2, <1>3, <1>4, <1>5, <1>8
  <2>2. /\ returned \in Nat /\ counted \in Nat /\ returned <= counted /\ length \in Nat
        /\ stored.tool = "query" => counted = returned
    BY <1>6, <2>1 DEF FirstRowIs, FirstCounted
  <2>3. rest \in Nat /\ (taken = 1 => rest = 0)
    <3>1. from + taken <= len
      BY <1>3, <1>4, <1>5
    <3> HIDE DEF taken
    <3> QED
      BY <1>3, <1>4, <2>1, <3>1, RestIs
  <2>4. taken = 1
    <3>1. SUFFICES ASSUME taken # 1 PROVE FALSE
      OBVIOUS
    <3>2. taken \in 1..taken
      BY <2>1
    <3>3. Fits(stored, from, taken, bytes, cap)
      BY <1>5, <3>2
    <3>4. counted + rest <= bytes
      BY <3>1, <3>3 DEF Fits
    <3> HIDE DEF counted, rest, returned, bytes, taken
    <3> QED
      BY <1>4, <2>1, <2>2, <2>3, <3>4
  <2>5. ASSUME stored.tool = "query"
        PROVE  \A i \in DOMAIN row.cells : ClippedCells(row.cells, bytes)[i] <= 1
    <3>1. returned > bytes
      <4> HIDE DEF returned, rest, bytes, taken
      <4> QED
        BY <1>4, <2>1, <2>2, <2>3, <2>4
    <3>2. length > bytes
      <4>1. length <= bytes => returned = length
        BY SMTT(40) DEF FirstReturned
      <4> HIDE DEF returned, length, bytes
      <4> QED
        BY <1>4, <2>2, <3>1, <4>1
    <3> QED
      BY <1>6, <2>1, <2>5, <3>1, <3>2 DEF FirstRowIs
  <2> QED
    BY <1>2, <2>4, <2>5 DEF First
<1>9. ClipIsFair
  <2>1. SUFFICES ASSUME stored.tool = "query", page.taken > 0, Length("query", First) > page.bytes
                 PROVE  LET cells == ClippedCells(First.cells, page.bytes)
                        IN /\ Base + Total(cells) >= page.bytes
                           /\ \A i, j \in DOMAIN cells : cells[i] < First.cells[i] => cells[j] <= cells[i] + 1
    BY DEF ClipIsFair
  <2>2. taken > 0 /\ length > bytes
    BY <1>2, <2>1 DEF First
  <2>3. DOMAIN ClippedCells(row.cells, bytes) = DOMAIN row.cells
    BY DEF ClippedCells
  <2>4. FirstRowIs(stored.tool, row, bytes)
    BY <1>6, <2>2
  <2> QED
    BY <2>1, <2>2, <2>3, <2>4 DEF FirstRowIs, First
<1>10. CutIsFinal
  <2>1. SUFFICES ASSUME page.limited \in {"ceiling", "match_cap"}, NEW wanted \in PageSizes \ {0}
                 PROVE  Taken(stored, from, ContinuedSize(stored, wanted), cap) <= page.taken
    BY DEF CutIsFinal
  <2> DEFINE size == ContinuedSize(stored, wanted)
             other == Taken(stored, from, size, cap)
  <2>2. size \in Nat /\ size <= stored.ceiling
    <3>1. wanted \in Nat
      BY PagingFacts
    <3> QED
      BY <1>3, <3>1, SmallerLarger DEF ContinuedSize
  <2>3. more /\ page.limited = CutBy(stored, from, taken, bytes, cap)
    BY <1>2, <1>3, <2>1
  <2>4. CASE taken < cap
    <3>1. page.limited = ByteCut(stored, bytes)
      BY <2>3, <2>4 DEF CutBy
    <3>2. bytes >= stored.ceiling
      BY <2>1, <3>1 DEF ByteCut, AtCeiling
    <3>3. size <= bytes
      BY <1>3, <1>4, <2>2, <3>2
    <3> HIDE DEF size
    <3>4. other <= taken
      BY <1>3, <1>4, <2>2, <2>3, <2>4, <3>3, SmallerPage
    <3> QED
      BY <1>2, <3>4 DEF size
  <2>5. CASE ~(taken < cap)
    <3>1. other \in 0 .. (len - from) /\ \A k \in 1..other : Fits(stored, from, k, size, cap)
      BY <1>1, <1>3, TakenIs
    <3>2. taken \in Nat /\ taken >= cap
      BY <1>3, <1>4, <1>5, <2>5
    <3>3. other \in Nat /\ (other > 0 => other \in 1..other)
      BY <1>3, <1>4, <3>1
    <3>4. other > 1 => other <= cap
      <4> HIDE DEF other
      <4> QED
        BY <3>1, <3>3 DEF Fits
    <3> HIDE DEF other, taken
    <3>5. other <= taken
      BY <1>4, <3>2, <3>3, <3>4
    <3> QED
      BY <1>2, <3>5 DEF other, taken
  <2> QED
    BY <2>4, <2>5
<1>11. page.bytes <= stored.ceiling
  BY <1>4
<1>12. page.revision = stored.revision
  BY <1>1 DEF Served, RevisionOf
<1> QED
  BY <1>7, <1>8, <1>9, <1>10, <1>11, <1>12 DEF PagesAreSound

-----------------------------------------------------------------------------
(* The calls.                                                               *)

\* What a response tells of its page, and the cursor it adds.
LEMMA ServedPage ==
  ASSUME NEW res, NEW from, InRows(res, from), NEW bytes, NEW cap
  PROVE  LET taken == Taken(res, from, bytes, cap)
             p == Served(res, from, taken, bytes, cap, from + taken < Len(res.rows))
         IN /\ p.kind = "page" /\ p.from = from /\ p.bytes = bytes /\ p.cap = cap
            /\ p.cursor \in 0..Len(res.rows)
<1> DEFINE taken == Taken(res, from, bytes, cap)
           len == Len(res.rows)
           more == from + taken < len
           p == Served(res, from, taken, bytes, cap, more)
<1>1. taken \in 0 .. (len - from) /\ from \in 0..len /\ len \in Nat
  BY TakenIs, LenProperties DEF InRows
<1>2. /\ p.kind = "page" /\ p.from = from /\ p.bytes = bytes /\ p.cap = cap
      /\ p.cursor = IF more THEN from + taken ELSE 0
  BY DEF Served
<1> HIDE DEF p, taken, len
<1>3. p.cursor \in 0..len
  BY <1>1, <1>2
<1> QED
  BY <1>2, <1>3 DEF p, taken, len

\* A response from the stored rows, whose size and cap are sound, keeps the
\* invariant.
LEMMA RespondKeeps ==
  ASSUME PagingInv, NEW res, stored' = res, res # Nothing, ceiling' = ceiling,
         res.tool \in Tools, res.rows \in BoundedSeq(RowKinds, MaxPageRows),
         res.ceiling \in Ceilings, res.bytes \in 1..res.ceiling, res.cap \in Nat \ {0},
         res.partial \in {"none", "scan_window", "time_budget"},
         cursors \subseteq 0..Len(res.rows),
         NEW from \in 0..Len(res.rows), NEW bytes \in 1..res.ceiling, NEW cap \in Nat \ {0},
         Respond(res, from, Taken(res, from, bytes, cap), bytes, cap)
  PROVE  PagingInv'
<1> DEFINE taken == Taken(res, from, bytes, cap)
           p == Served(res, from, taken, bytes, cap, from + taken < Len(res.rows))
<1>1. page' = p /\ cursors' = cursors \cup ({p.cursor} \ {0})
  BY DEF Respond
<1>2. res.rows \in Seq(RowKinds)
  BY BoundedRows
<1>3. /\ p.kind = "page" /\ p.from = from /\ p.bytes = bytes /\ p.cap = cap
      /\ p.cursor \in 0..Len(res.rows)
  <2>1. InRows(res, from)
    BY <1>2 DEF InRows
  <2> QED
    BY <2>1, ServedPage
<1>4. p = Served(res, p.from, Taken(res, p.from, p.bytes, p.cap), p.bytes, p.cap,
                 p.from + Taken(res, p.from, p.bytes, p.cap) < Len(res.rows))
  BY <1>3
<1> HIDE DEF p
<1>5. cursors' \subseteq 0..Len(res.rows)
  BY <1>1, <1>3
<1>6. StoredFits'
  BY <1>5 DEF StoredFits
<1>7. PageFits'
  BY <1>1, <1>3, <1>4 DEF PageFits
<1>8. ceiling' \in Ceilings
  BY DEF PagingInv
<1> QED
  BY <1>1, <1>3, <1>6, <1>7, <1>8 DEF PagingInv

\* A refusal, or a step that leaves the result and the page alone.
LEMMA RefusalKeeps ==
  ASSUME PagingInv, stored' = stored, ceiling' \in Ceilings, cursors' = cursors,
         kept' = kept \/ stored # Nothing \/ kept' = FALSE,
         page' = page \/ page'.kind \in {"invalid", "unknown", "expired"}
  PROVE  PagingInv'
<1>1. IsPage' => page' = page /\ IsPage
  BY DEF IsPage
<1>2. (stored' = Nothing => ~kept' /\ cursors' = {} /\ ~IsPage') /\ (stored' # Nothing => StoredFits')
  BY <1>1 DEF PagingInv, StoredFits
<1>3. IsPage' => PageFits'
  BY <1>1 DEF PagingInv, PageFits
<1> QED
  BY <1>2, <1>3 DEF PagingInv

\* What a caller may ask for.
Asks(tool, wanted, limit, cap, partial) ==
  /\ tool \in Tools /\ wanted \in PageSizes \cup {Unset} /\ limit \in Limits \cup {Unset}
  /\ cap \in Nat \ {0} /\ partial \in {"none", "scan_window", "time_budget"}

LEMMA CallKeeps ==
  ASSUME PagingInv, NEW tool, NEW wanted, NEW limit, NEW cap, NEW partial,
         Asks(tool, wanted, limit, cap, partial), Call(tool, wanted, limit, cap, partial)
  PROVE  PagingInv'
<1>1. /\ tool \in Tools /\ (wanted \in Nat \/ wanted = Unset) /\ (limit \in Nat \/ limit = Unset)
      /\ cap \in Nat \ {0} /\ partial \in {"none", "scan_window", "time_budget"}
      /\ ceiling \in Ceilings /\ ceiling \in Nat /\ ceiling > 0 /\ DefaultSize \in Nat /\ DefaultSize > 0
  BY PagingFacts DEF Asks, PagingInv
<1>2. ceiling' = ceiling /\ process' = process /\ index' = index
  BY DEF Call
<1>3. CASE wanted = 0 /\ page' = Refused("invalid") /\ UNCHANGED <<stored, kept, cursors>>
  <2>1. page'.kind = "invalid"
    BY <1>3 DEF Refused
  <2> QED
    BY <1>1, <1>2, <1>3, <2>1, RefusalKeeps
<1>4. ASSUME wanted # 0, stored = Nothing, NEW rows \in BoundedSeq(RowKinds, MaxPageRows),
             FirstCall(tool, rows, wanted, cap, partial)
      PROVE  PagingInv'
  <2> DEFINE bytes == Resolved(wanted)
             res == [tool |-> tool, rows |-> rows, bytes |-> bytes, ceiling |-> ceiling, revision |-> index,
                     partial |-> partial, process |-> process, cap |-> cap]
  <2>1. stored' = res /\ Respond(res, 0, Taken(res, 0, bytes, cap), bytes, cap)
    BY <1>4 DEF FirstCall
  <2>2. bytes \in 1..ceiling
    <3>1. wanted # Unset => wanted \in Nat /\ wanted > 0
      BY <1>1, <1>4
    <3> DEFINE asked == IF wanted = Unset THEN DefaultSize ELSE wanted
    <3>2. asked \in Nat /\ asked > 0
      BY <1>1, <3>1
    <3>3. bytes = SmallerOf(asked, ceiling)
      BY DEF Resolved
    <3> HIDE DEF asked
    <3> QED
      BY <1>1, <3>2, <3>3, WithinCeiling
  <2> HIDE DEF bytes
  <2>3. /\ res.tool = tool /\ res.rows = rows /\ res.bytes = bytes /\ res.ceiling = ceiling
        /\ res.partial = partial /\ res.cap = cap
    OBVIOUS
  <2>4. res # Nothing
    BY <1>1, <2>3 DEF Nothing, Tools
  <2> HIDE DEF res
  <2>5. cursors = {} /\ 0 \in 0..Len(rows)
    <3>1. Len(rows) \in Nat
      BY <1>4, BoundedRows
    <3> QED
      BY <1>4, <3>1 DEF PagingInv
  <2> QED
    BY <1>1, <1>2, <1>4, <2>1, <2>2, <2>3, <2>4, <2>5, RespondKeeps
<1>5. ASSUME wanted # 0, kept, stored.tool = tool, NEW ord \in cursors, Continuation(ord, wanted, limit)
      PROVE  PagingInv'
  <2> DEFINE bytes == ContinuedSize(stored, wanted)
             most == CapOf(stored, limit)
  <2>1. stored' = stored /\ Respond(stored, ord, Taken(stored, ord, bytes, most), bytes, most)
    BY <1>5 DEF Continuation
  <2>2. stored # Nothing /\ StoredFits
    BY <1>5 DEF PagingInv
  <2>3. /\ stored.tool \in Tools /\ stored.rows \in BoundedSeq(RowKinds, MaxPageRows)
        /\ stored.ceiling \in Ceilings /\ stored.bytes \in 1..stored.ceiling /\ stored.cap \in Nat \ {0}
        /\ stored.partial \in {"none", "scan_window", "time_budget"}
        /\ cursors \subseteq 0..Len(stored.rows) /\ ord \in 0..Len(stored.rows)
    BY <1>5, <2>2 DEF StoredFits
  <2>4. bytes \in 1..stored.ceiling
    <3> DEFINE top == stored.ceiling
    <3>1. top \in Nat /\ top > 0
      <4>1. Ceilings \subseteq Nat \ {0}
        BY PagingFacts
      <4>2. top \in Nat \ {0}
        BY <2>3, <4>1
      <4> HIDE DEF top
      <4> QED
        BY <4>2
    <3>2. CASE wanted = Unset
      BY <2>3, <3>2 DEF ContinuedSize
    <3>3. CASE wanted # Unset
      <4>1. wanted \in Nat /\ wanted > 0 /\ bytes = SmallerOf(wanted, stored.ceiling)
        BY <1>1, <1>5, <3>3 DEF ContinuedSize
      <4>2. bytes = SmallerOf(wanted, top)
        BY <4>1
      <4>3. SmallerOf(wanted, top) \in 1..top
        <5> HIDE DEF top
        <5> QED
          BY <3>1, <4>1, WithinCeiling
      <4> QED
        BY <4>2, <4>3
    <3> QED
      BY <3>2, <3>3
  <2>5. most \in Nat \ {0}
    <3>1. CASE stored.tool = "leads" /\ limit # Unset
      <4>1. most = LargerOf(limit, 1) /\ limit \in Nat
        BY <1>1, <3>1 DEF CapOf
      <4> HIDE DEF most
      <4> QED
        BY <4>1, SmallerLarger
    <3>2. CASE ~(stored.tool = "leads" /\ limit # Unset)
      BY <2>3, <3>2 DEF CapOf
    <3> QED
      BY <3>1, <3>2
  <2> HIDE DEF bytes, most
  <2> QED
    BY <1>2, <2>1, <2>2, <2>3, <2>4, <2>5, RespondKeeps
<1>6. \/ wanted = 0 /\ page' = Refused("invalid") /\ UNCHANGED <<stored, kept, cursors>>
      \/ /\ wanted # 0 /\ stored = Nothing
         /\ \E rows \in BoundedSeq(RowKinds, MaxPageRows) : FirstCall(tool, rows, wanted, cap, partial)
      \/ /\ wanted # 0 /\ kept /\ stored.process = process /\ stored.tool = tool
         /\ \E ord \in cursors : Continuation(ord, wanted, limit)
  BY DEF Call
<1> QED
  BY <1>3, <1>4, <1>5, <1>6

LEMMA PagingSteps == PagingInv /\ [PagingNext]_pagingVars => PagingInv'
<1> SUFFICES ASSUME PagingInv, [PagingNext]_pagingVars
             PROVE  PagingInv'
  OBVIOUS
<1>1. /\ NoCap \in Nat \ {0} /\ MatchCap \in Nat \ {0} /\ Limits \subseteq Nat /\ ceiling \in Ceilings
  BY PagingFacts DEF NoCap, PagingInv
<1> HIDE DEF NoCap
<1>2. ASSUME NEW tool, NEW wanted, NEW limit, NEW cap, NEW partial,
             tool \in Tools, wanted \in PageSizes \cup {Unset}, limit \in Limits \cup {Unset},
             cap \in Nat \ {0}, partial \in {"none", "scan_window", "time_budget"},
             Call(tool, wanted, limit, cap, partial)
      PROVE  PagingInv'
  <2>1. Asks(tool, wanted, limit, cap, partial)
    BY <1>2 DEF Asks
  <2> QED
    BY <1>2, <2>1, CallKeeps
<1>3. {"query", "leads", "structure", "finding_read", "mechanic"} = Tools
  BY DEF Tools
<1>4. CASE QueryPage \/ MechanicListPage \/ FindingReadPage
  <2>1. PICK tool \in Tools, wanted \in PageSizes \cup {Unset} : Call(tool, wanted, Unset, NoCap, "none")
    BY <1>3, <1>4 DEF QueryPage, MechanicListPage, FindingReadPage
  <2> QED
    BY <1>1, <1>2, <2>1
<1>5. CASE LeadsPage
  <2>1. PICK wanted \in PageSizes \cup {Unset}, limit \in Limits \cup {Unset} :
          Call("leads", wanted, limit, IF limit = Unset THEN NoCap ELSE LargerOf(limit, 1), "none")
    BY <1>5 DEF LeadsPage
  <2> DEFINE cap == IF limit = Unset THEN NoCap ELSE LargerOf(limit, 1)
  <2>2. cap \in Nat \ {0}
    <3>1. limit # Unset => LargerOf(limit, 1) \in Nat /\ LargerOf(limit, 1) >= 1
      BY <1>1, SmallerLarger
    <3> QED
      BY <1>1, <3>1
  <2>3. Call("leads", wanted, limit, cap, "none")
    BY <2>1
  <2> HIDE DEF cap
  <2> QED
    BY <1>2, <1>3, <2>2, <2>3
<1>6. CASE StructurePage
  <2>1. PICK wanted \in PageSizes \cup {Unset}, partial \in {"none", "scan_window", "time_budget"} :
          Call("structure", wanted, Unset, MatchCap, partial)
    BY <1>6 DEF StructurePage
  <2> QED
    BY <1>1, <1>2, <1>3, <2>1
<1>7. ASSUME NEW tool \in Tools, RefuseCursor(tool) PROVE PagingInv'
  <2>1. /\ stored' = stored /\ ceiling' = ceiling /\ cursors' = cursors /\ kept' = kept
        /\ page' = Refused("unknown") \/ page' = Refused("expired")
    BY <1>7 DEF RefuseCursor
  <2>2. page'.kind \in {"invalid", "unknown", "expired"}
    BY <2>1 DEF Refused
  <2> QED
    BY <1>1, <2>1, <2>2, RefusalKeeps
<1>8. CASE ReclaimIt \/ RestartServer \/ MoveIndex \/ UNCHANGED pagingVars
  <2>1. /\ stored' = stored /\ ceiling' = ceiling /\ cursors' = cursors /\ page' = page
        /\ kept' = kept \/ kept' = FALSE
    BY <1>8 DEF ReclaimIt, RestartServer, MoveIndex, pagingVars
  <2> QED
    BY <1>1, <2>1, RefusalKeeps
<1>9. ASSUME NEW c \in Ceilings, Reconfigure(c) PROVE PagingInv'
  <2>1. /\ stored' = stored /\ ceiling' \in Ceilings /\ cursors' = cursors /\ page' = page /\ kept' = kept
    BY <1>9 DEF Reconfigure
  <2> QED
    BY <2>1, RefusalKeeps
<1> QED
  BY <1>4, <1>5, <1>6, <1>7, <1>8, <1>9 DEF PagingNext

LEMMA PagingStarts == PagingInit => PagingInv
<1> SUFFICES ASSUME PagingInit PROVE PagingInv
  OBVIOUS
<1>1. ~IsPage
  BY DEF PagingInit, IsPage, Refused
<1> QED
  BY <1>1 DEF PagingInit, PagingInv

\* The inductive invariant of paging: the stored result is as a first call made
\* it, and the last page is what its rows give from the page's first row on.
THEOREM PagingInvHolds == PagingSpec => []PagingInv
<1>1. PagingInv /\ [PagingNext]_pagingVars => PagingInv'
  BY PagingSteps
<1> QED
  BY <1>1, PagingStarts, PTL DEF PagingSpec

\* Whatever rows, cells, page sizes and ceilings there are: a page with a cursor
\* holds a row, it is too long only for the sake of one row, a row that is cut is
\* cut fairly, a page that says ceiling or match_cap is as long as any page_bytes
\* makes it, and the revision it names is the one its rows were read at
\* (paginate.rs, page_size.rs, query_clip.rs).
THEOREM PagesHold == PagingSpec => []PagesAreSound
<1>1. PagingInv => PagesAreSound
  <2>1. ~IsPage => PagesAreSound
    BY DEF PagesAreSound
  <2> QED
    BY <2>1, FitIsSound DEF PagingInv
<1> QED
  BY <1>1, PagingInvHolds, PTL

(***************************************************************************)
(* ResourceLimits.                                                         *)
(***************************************************************************)

LEMMA TheKeys ==
  /\ Keys = {"file", "parse", "import", "response", "store"}
  /\ ConfigKeys = {"file", "parse", "import", "store"}
BY DEF Keys, ConfigKeys, NoLimits

LEMMA LowerHigher ==
  ASSUME NEW a \in Int, NEW b \in Int
  PROVE  /\ LowerOf(a, b) \in Int /\ LowerOf(a, b) <= a /\ LowerOf(a, b) <= b
         /\ LowerOf(a, b) = a \/ LowerOf(a, b) = b
         /\ HigherOf(a, b) \in Int /\ HigherOf(a, b) >= a /\ HigherOf(a, b) >= b
         /\ HigherOf(a, b) = a \/ HigherOf(a, b) = b
BY DEF LowerOf, HigherOf

\* parse_proc_meminfo: both figures of a host that was measured are numbers.
LEMMA HostIsMeasured ==
  ASSUME memory \in MemInfos, Detected(memory) # Undetected
  PROVE  LET host == Detected(memory) IN host.total \in Nat /\ host.available \in Nat
<1> DEFINE lines == memory
           host == Detected(memory)
           Line == [of : {"total", "available", "other"}, kb : Nat \cup {Malformed}]
<1>1. lines \in Seq(Line) /\ Len(lines) \in Nat /\ DOMAIN lines = 1..Len(lines)
  BY LimitsAssumption, LenProperties
<1>2. \A i \in DOMAIN lines : lines[i].kb \in Nat \cup {Malformed}
  <2>1. \A i \in DOMAIN lines : lines[i] \in Line
    <3> HIDE DEF Line
    <3> QED
      BY <1>1, ElementOfSeq
  <2> QED
    BY <2>1
<1>3. /\ Found(lines, Len(lines))
      /\ \A i \in LinesRead(lines) : lines[i].kb # Malformed
      /\ host = [k \in DOMAIN Undetected |-> LastOf(lines, k)]
  BY DEF Detected
<1>4. DOMAIN Undetected = {"total", "available"}
  BY DEF Undetected
<1>5. ASSUME NEW k \in {"total", "available"}
      PROVE  LastOf(lines, k) \in Nat
  <2> DEFINE mine == {i \in LinesRead(lines) : lines[i].of = k}
  <2>1. mine # {} /\ mine \subseteq 1..Len(lines)
    <3> DEFINE all == {i \in 1..Len(lines) : lines[i].of = k}
    <3>1. all # {} /\ all \subseteq Nat
      BY <1>1, <1>3, <1>4 DEF Found
    <3>2. PICK i \in all : \A j \in all : i <= j
      <4> HIDE DEF all
      <4> QED
        BY <3>1, LeastNumber
    <3>3. ~Found(lines, i - 1)
      BY <1>1, <1>4, <3>2 DEF Found
    <3> QED
      BY <1>1, <3>2, <3>3 DEF LinesRead
  <2>2. PICK last \in mine : \A j \in mine : j <= last
    <3> DEFINE n == Len(lines)
               back == {n - i : i \in mine}
    <3>1. n \in Nat /\ back # {} /\ back \subseteq Nat
      BY <1>1, <2>1
    <3>2. PICK low \in back : \A j \in back : low <= j
      <4> HIDE DEF back
      <4> QED
        BY <3>1, LeastNumber
    <3>3. PICK i \in mine : low = n - i
      BY <3>2
    <3>4. \A j \in mine : n - i <= n - j
      BY <3>2, <3>3
    <3> QED
      BY <1>1, <2>1, <3>4, SMTT(40)
  <2> DEFINE it == CHOOSE i \in LinesRead(lines) :
                     lines[i].of = k /\ \A j \in LinesRead(lines) : lines[j].of = k => j <= i
  <2>3. it \in LinesRead(lines)
    BY <2>2
  <2>4. LastOf(lines, k) = lines[it].kb
    BY DEF LastOf
  <2> HIDE DEF it
  <2> QED
    BY <1>2, <1>3, <2>3, <2>4 DEF LinesRead
<1>6. host.total = LastOf(lines, "total") /\ host.available = LastOf(lines, "available")
  BY <1>3, <1>4
<1> QED
  BY <1>5, <1>6

Tabled(limits) == limits \in [Keys -> Nat] /\ limits.file <= SqliteMax

\* The table of any profile that can be used here.
LEMMA TableIsTabled ==
  ASSUME memory \in MemInfos, NEW profile \in Profiles, profile # NoProfile, Sizable(profile)
  PROVE  Tabled(Table(profile))
<1>1. CASE profile = "adaptive"
  <2> DEFINE host == Detected(memory)
             most == HigherOf(host.total \div 10, Tables["audit"].file)
             file == LowerOf(most, SqliteMax)
             import == HigherOf(host.available \div 2, 4)
  <2>1. host.total \in Nat /\ host.available \in Nat
    BY <1>1, HostIsMeasured DEF Sizable
  <2>2. Tables["audit"].file \in Nat /\ SqliteMax \in Nat /\ ParseDefault \in Nat
    BY LimitsAssumption, TheKeys
  <2>3. host.total \div 10 \in Nat /\ host.available \div 2 \in Nat
    <3> HIDE DEF host
    <3> QED
      BY <2>1
  <2>4. most \in Nat /\ import \in Nat
    BY <2>2, <2>3 DEF HigherOf
  <2>5. file \in Nat /\ file <= SqliteMax /\ StoreBudget(file) \in Nat
    <3> HIDE DEF most
    <3> QED
      BY <2>2, <2>4 DEF LowerOf, StoreBudget
  <2>6. Table(profile) = [file |-> file, parse |-> ParseDefault, response |-> file,
                          store |-> StoreBudget(file), import |-> import]
    BY <1>1 DEF Table, Adaptive
  <2> HIDE DEF file, import
  <2> QED
    BY <2>2, <2>4, <2>5, <2>6, TheKeys DEF Tabled
<1>2. CASE profile # "adaptive"
  BY <1>2, LimitsAssumption DEF Profiles, Table, Tabled
<1> QED
  BY <1>1, <1>2

Set(keys, from) == keys \in [from -> Nat \cup {NotSet}]

\* What is laid over a table is a table again: each limit that is set is that,
\* but for the cap of what can be stored.
LEMMA LaidIsTabled ==
  ASSUME NEW from, from = Keys \/ from = ConfigKeys, NEW keys, Set(keys, from), NEW limits, Tabled(limits)
  PROVE  /\ Tabled(Lay(keys, limits))
         /\ \A k \in from : keys[k] > 0 => Lay(keys, limits)[k] = Storable(k, keys[k])
         /\ \A k \in from : ~(keys[k] > 0) => Lay(keys, limits)[k] = limits[k]
         /\ \A k \in Keys \ from : Lay(keys, limits)[k] = limits[k]
<1> DEFINE laid == Lay(keys, limits)
<1>1. SqliteMax \in Nat /\ from \subseteq Keys /\ DOMAIN keys = from /\ NotSet = -1
  BY LimitsAssumption DEF Set, ConfigKeys, NotSet
<1>2. \A k \in from : keys[k] \in Nat \cup {-1}
  BY <1>1 DEF Set
<1>3. /\ \A k \in from : keys[k] > 0 => laid[k] = Storable(k, keys[k])
      /\ \A k \in from : ~(keys[k] > 0) => laid[k] = limits[k]
      /\ \A k \in Keys \ from : laid[k] = limits[k]
  BY <1>1 DEF Lay
<1>4. \A k \in from : keys[k] > 0 => Storable(k, keys[k]) \in Nat
  BY <1>1, <1>2 DEF Storable, LowerOf
<1>5. \A k \in Keys : laid[k] \in Nat
  BY <1>3, <1>4 DEF Tabled
<1>6. laid \in [Keys -> Nat]
  <2>1. laid = [k \in Keys |-> laid[k]]
    BY DEF Lay
  <2> HIDE DEF laid
  <2> QED
    BY <1>5, <2>1
<1>7. laid.file <= SqliteMax
  <2>1. CASE "file" \in from /\ keys["file"] > 0
    BY <1>1, <1>2, <1>3, <2>1 DEF Storable, LowerOf
  <2>2. CASE ~("file" \in from /\ keys["file"] > 0)
    BY <1>3, <2>2, TheKeys DEF Tabled
  <2> QED
    BY <2>1, <2>2
<1> QED
  BY <1>3, <1>6, <1>7 DEF Tabled

\* clamp_parse_to_file_bytes
LEMMA ClampedIsTabled ==
  ASSUME NEW limits, Tabled(limits)
  PROVE  LET clamped == ParseClamped(limits)
         IN /\ Tabled(clamped) /\ clamped.parse <= clamped.file
            /\ \A k \in Keys \ {"parse"} : clamped[k] = limits[k]
            /\ clamped.parse # limits.parse => {w[2] : w \in ClampWarning(limits)} = {"parse"}
<1> DEFINE clamped == ParseClamped(limits)
<1>1. limits.parse \in Nat /\ limits.file \in Nat /\ limits \in [Keys -> Nat]
  BY TheKeys DEF Tabled
<1>2. /\ clamped = [limits EXCEPT !["parse"] = LowerOf(limits.parse, limits.file)]
      /\ LowerOf(limits.parse, limits.file) \in Nat
      /\ LowerOf(limits.parse, limits.file) <= limits.file
      /\ LowerOf(limits.parse, limits.file) # limits.parse => limits.parse > limits.file
  <2> DEFINE parse == limits.parse
             file == limits.file
  <2>1. clamped = [limits EXCEPT !["parse"] = LowerOf(parse, file)]
    BY DEF ParseClamped
  <2>2. parse \in Nat /\ file \in Nat
    BY <1>1
  <2> HIDE DEF parse, file
  <2>3. /\ LowerOf(parse, file) \in Nat /\ LowerOf(parse, file) <= file
        /\ LowerOf(parse, file) # parse => parse > file
    BY <2>2 DEF LowerOf
  <2> QED
    BY <2>1, <2>3 DEF parse, file
<1>3. clamped \in [Keys -> Nat] /\ \A k \in Keys \ {"parse"} : clamped[k] = limits[k]
  BY <1>1, <1>2
<1>4. clamped.parse = LowerOf(limits.parse, limits.file) /\ clamped.file = limits.file
  BY <1>1, <1>2, TheKeys
<1>5. clamped.parse # limits.parse => {w[2] : w \in ClampWarning(limits)} = {"parse"}
  <2>1. ASSUME NEW x PROVE {w[2] : w \in {<<"clamp", "parse", x>>}} = {"parse"}
    OBVIOUS
  <2>2. clamped.parse # limits.parse => ClampWarning(limits) = {<<"clamp", "parse", limits.parse>>}
    BY <1>2, <1>4 DEF ClampWarning
  <2> QED
    BY <2>1, <2>2
<1>6. Tabled(clamped) /\ clamped.parse <= clamped.file
  <2> HIDE DEF clamped
  <2> QED
    BY <1>2, <1>3, <1>4 DEF Tabled
<1> QED
  BY <1>3, <1>5, <1>6

\* EnvOverrides::apply
LEMMA EnvIsTabled ==
  ASSUME NEW env, Set(env.keys, Keys), NEW limits, Tabled(limits), NEW pinned \in BOOLEAN
  PROVE  LET laid == EnvLaid(env, limits, pinned)
             over == Lay(env.keys, limits)
         IN /\ Tabled(laid)
            /\ \A k \in Keys \ {"store"} : laid[k] = over[k]
            /\ laid.store = IF env.keys.store > 0 THEN env.keys.store
                            ELSE IF pinned THEN limits.store ELSE StoreBudget(laid.response)
<1> DEFINE laid == EnvLaid(env, limits, pinned)
           over == Lay(env.keys, limits)
           store == IF env.keys.store > 0 THEN env.keys.store
                    ELSE IF pinned THEN limits.store ELSE StoreBudget(over.response)
<1>1. Tabled(over)
  BY LaidIsTabled
<1>2. laid = [over EXCEPT !["store"] = store]
  BY DEF EnvLaid
<1>3. store \in Nat
  <2>1. env.keys["store"] \in Nat \cup {-1} /\ limits.store \in Nat /\ over.response \in Nat
    BY <1>1, TheKeys DEF Set, NotSet, Tabled
  <2> HIDE DEF over
  <2> QED
    BY <2>1 DEF StoreBudget
<1> HIDE DEF over
<1>4. laid \in [Keys -> Nat] /\ (\A k \in Keys \ {"store"} : laid[k] = over[k]) /\ laid["store"] = store
  <2> HIDE DEF store
  <2> QED
    BY <1>1, <1>2, <1>3, TheKeys DEF Tabled
<1>5. laid.response = over.response /\ laid.file = over.file
  BY <1>4, TheKeys
<1>6. Tabled(laid)
  <2> HIDE DEF laid
  <2> QED
    BY <1>1, <1>4, <1>5 DEF Tabled
<1>7. store = IF env.keys.store > 0 THEN env.keys.store
              ELSE IF pinned THEN limits.store ELSE StoreBudget(laid.response)
  BY <1>5
<1>8. \A k \in Keys \ {"store"} : laid[k] = Lay(env.keys, limits)[k]
  BY <1>4 DEF over
<1> HIDE DEF store
<1>9. laid.store = store
  BY <1>4
<1> HIDE DEF laid
<1> QED
  BY <1>6, <1>7, <1>8, <1>9 DEF laid

\* Every source a call reads is well formed.
LEMMA SourcesAreSet ==
  ASSUME LimitsInv
  PROVE  /\ Set(configFile.keys, ConfigKeys) /\ Set(environ.keys, Keys)
         /\ \A root \in Projects, chosen \in [Projects -> Profiles] :
              ProfileOf(root, chosen, environ) \in Profiles \ {NoProfile}
<1>1. Set(NoEnviron.keys, Keys) /\ NoEnviron.profile \in Profiles
  BY DEF NoEnviron, Set, Profiles
<1>2. environ.profile \in Profiles /\ configFile.profile \in Profiles
  BY <1>1, LimitsAssumption DEF LimitsInv
<1> QED
  BY <1>1, <1>2, LimitsAssumption DEF LimitsInv, Set, ProfileOf, Profiles, NoProfile

\* A key that is 0, or that no stored value may reach, is warned of.
LEMMA KeyIsWarned ==
  ASSUME NEW from, NEW keys, NEW k \in DOMAIN keys,
         keys[k] = 0 \/ (k = "file" /\ keys[k] > SqliteMax)
  PROVE  \E w \in Warnings(from, keys) : w[2] = k
<1>1. <<from, k, keys[k]>> \in Warnings(from, keys)
  BY DEF Warnings
<1> QED
  BY <1>1

\* The limits a human set, and the warnings, of what a call is derived from.
LEMMA EffectiveAsSet ==
  ASSUME LimitsInv, lastCall.kind = "limits"
  PROVE  LimitsAreAsSet
<1> DEFINE profile == ProfileOf(lastCall.root, session, environ)
           table == Table(profile)
           file == configFile.keys
           env == environ.keys
           a == WithConfig(profile)
           b == ParseClamped(a)
           pinned == file.store # NotSet
           c == EnvLaid(environ, b, pinned)
           limits == lastCall.limits
           warned == {w[2] : w \in warnings}
<1>1. /\ lastCall.root \in Projects /\ Sizable(profile) /\ lastCall.config = configFile
      /\ lastCall.table = table /\ limits = ParseClamped(c) /\ ResolveWarnings(profile) \subseteq warnings
      /\ session \in [Projects -> Profiles]
  BY DEF LimitsInv, Derived, EffectiveLimits, WithEnv
<1>2. /\ Set(file, ConfigKeys) /\ Set(env, Keys) /\ profile \in Profiles /\ profile # NoProfile
  BY <1>1, SourcesAreSet
<1>3. Tabled(table)
  BY <1>1, <1>2, TableIsTabled DEF LimitsInv
<1>4. a = Lay(file, table)
  BY DEF WithConfig
<1>5. {w[2] : w \in ClampWarning(a)} \subseteq warned /\ {w[2] : w \in ClampWarning(c)} \subseteq warned
  <2>1. ClampWarning(a) \subseteq warnings /\ ClampWarning(c) \subseteq warnings
    BY <1>1 DEF ResolveWarnings, WithEnv
  <2> QED
    BY <2>1
<1>6. /\ \A k \in ConfigKeys : file[k] = 0 \/ (k = "file" /\ file[k] > SqliteMax) => k \in warned
      /\ \A k \in Keys : k = "file" /\ env[k] > SqliteMax => k \in warned
  <2>1. Warnings("config", file) \subseteq warnings /\ Warnings("env", env) \subseteq warnings
    BY <1>1 DEF ResolveWarnings
  <2>2. DOMAIN file = ConfigKeys /\ DOMAIN env = Keys
    BY <1>2 DEF Set
  <2> QED
    BY <2>1, <2>2, KeyIsWarned
<1>7. (session[lastCall.root] \in {"lean", "audit"} => table = Tables[session[lastCall.root]])
  BY <1>1 DEF ProfileOf, Table, NoProfile
<1> HIDE DEF profile, table, a, b, c, limits, warned, file, env
<1>8. /\ Tabled(a)
      /\ \A k \in ConfigKeys : file[k] > 0 => a[k] = Storable(k, file[k])
      /\ \A k \in ConfigKeys : ~(file[k] > 0) => a[k] = table[k]
      /\ \A k \in Keys \ ConfigKeys : a[k] = table[k]
  <2> DEFINE from == ConfigKeys
             laid == Lay(file, table)
  <2>1. from = ConfigKeys /\ Set(file, from)
    BY <1>2
  <2> HIDE DEF from
  <2>2. /\ Tabled(laid)
        /\ \A k \in from : file[k] > 0 => laid[k] = Storable(k, file[k])
        /\ \A k \in from : ~(file[k] > 0) => laid[k] = table[k]
        /\ \A k \in Keys \ from : laid[k] = table[k]
    BY <1>3, <2>1, LaidIsTabled
  <2> QED
    BY <1>4, <2>2 DEF from
<1>9. /\ Tabled(b) /\ b.parse <= b.file /\ (\A k \in Keys \ {"parse"} : b[k] = a[k])
      /\ b.parse # a.parse => "parse" \in warned
  BY <1>5, <1>8, ClampedIsTabled DEF b
<1> DEFINE over == Lay(env, b)
<1>10. /\ \A k \in Keys : env[k] > 0 => over[k] = Storable(k, env[k])
       /\ \A k \in Keys : ~(env[k] > 0) => over[k] = b[k]
  BY <1>2, <1>9, LaidIsTabled
<1>11. /\ Tabled(c) /\ (\A k \in Keys \ {"store"} : c[k] = over[k])
       /\ c.store = IF env.store > 0 THEN env.store ELSE IF pinned THEN b.store ELSE StoreBudget(c.response)
  <2> DEFINE laid == EnvLaid(environ, b, pinned)
  <2>1. Set(environ.keys, Keys) /\ pinned \in BOOLEAN
    BY <1>2 DEF env
  <2> HIDE DEF pinned
  <2>2. /\ Tabled(laid)
        /\ \A k \in Keys \ {"store"} : laid[k] = Lay(environ.keys, b)[k]
        /\ laid.store = IF environ.keys.store > 0 THEN environ.keys.store
                        ELSE IF pinned THEN b.store ELSE StoreBudget(laid.response)
    BY <1>9, <2>1, EnvIsTabled
  <2> HIDE DEF laid
  <2>3. c = laid
    BY DEF c, laid
  <2> QED
    BY <2>2, <2>3 DEF env, over
<1>12. /\ Tabled(limits) /\ limits.parse <= limits.file /\ (\A k \in Keys \ {"parse"} : limits[k] = c[k])
       /\ limits.parse # c.parse => "parse" \in warned
  BY <1>1, <1>5, <1>11, ClampedIsTabled
<1> HIDE DEF over
<1>13. ASSUME NEW k \in Keys
       PROVE  /\ SetTo(k) = IF env[k] > 0 THEN env[k]
                            ELSE IF k \in ConfigKeys /\ file[k] > 0 THEN file[k] ELSE -1
              /\ env[k] \in Nat \cup {-1} /\ (k \in ConfigKeys => file[k] \in Nat \cup {-1})
  BY <1>1, <1>2 DEF SetTo, NotSet, Set, file, env
<1> DEFINE set(k) == SetTo(k)
<1>14. set("store") # -1 => limits["store"] = set("store")
  BY <1>8, <1>9, <1>11, <1>12, <1>13, TheKeys DEF NotSet, Storable
<1>15. \A k \in {"file", "import", "response"} : set(k) # -1 => limits[k] = Storable(k, set(k))
  BY <1>8, <1>9, <1>10, <1>11, <1>12, <1>13, TheKeys
<1>16. \A k \in {"file", "import", "response"} : set(k) = -1 => limits[k] = table[k]
  BY <1>8, <1>9, <1>10, <1>11, <1>12, <1>13, TheKeys
<1>17. set("store") = -1 => limits["store"] = StoreBudget(limits["response"]) \/ "store" \in warned
  BY <1>6, <1>8, <1>9, <1>11, <1>12, <1>13, TheKeys DEF NotSet
<1>18. set("parse") # -1 /\ limits["parse"] # set("parse") => "parse" \in warned
  BY <1>8, <1>9, <1>10, <1>11, <1>12, <1>13, TheKeys DEF Storable
<1>19. set("file") # -1 /\ limits["file"] # set("file") => "file" \in warned
  <2>1. SqliteMax \in Nat
    BY LimitsAssumption
  <2>2. set("file") # -1 => set("file") \in Nat
    BY <1>13, TheKeys
  <2>3. set("file") # -1 /\ limits["file"] # set("file") => set("file") > SqliteMax
    BY <1>15, <2>1, <2>2 DEF Storable, LowerOf
  <2>4. set("file") > SqliteMax /\ set("file") # -1 => "file" \in warned
    BY <1>6, <1>13, TheKeys
  <2> QED
    BY <2>3, <2>4
<1>20. \A k \in Keys : set(k) # -1 /\ limits[k] # set(k) => k \in warned
  BY <1>14, <1>15, <1>18, <1>19, TheKeys DEF Storable
<1>21. \A k \in ConfigKeys : file[k] = 0 => k \in warned
  BY <1>6
<1>22. LimitsTypeOK
  BY DEF LimitsInv, LimitsTypeOK, Profiles, NoProfile
<1>23. \A k \in Keys \ {"parse"} : set(k) # NotSet => limits[k] = Storable(k, set(k))
  BY <1>14, <1>15, TheKeys DEF NotSet, Storable
<1>24. limits.parse <= limits.file /\ limits.file <= SqliteMax
  BY <1>12 DEF Tabled
<1> QED
  BY <1>1, <1>7, <1>16, <1>17, <1>20, <1>21, <1>22, <1>23, <1>24
  DEF LimitsAreAsSet, NotSet, limits, warned, table, file

\* effective_limits: what is derived is kept with what it warns of.
LEMMA DeriveKeeps ==
  ASSUME LimitsInv, NEW root \in Projects, NEW chosen, session' = chosen, chosen \in [Projects -> Profiles],
         Derive(root, chosen), UNCHANGED <<configFile, environ, memory, serving, processLimits>>
  PROVE  LimitsInv'
<1> DEFINE profile == ProfileOf(root, chosen, environ)
<1>1. CASE lastCall' = [kind |-> "config"] \/ lastCall' = [kind |-> "memory"]
  BY <1>1 DEF LimitsInv
<1>2. CASE /\ Sizable(profile)
           /\ lastCall' = [kind |-> "limits", root |-> root, config |-> configFile,
                           table |-> Table(profile), limits |-> EffectiveLimits(profile)]
           /\ warnings' = warnings \cup ResolveWarnings(profile)
  <2>1. /\ lastCall'.kind = "limits" /\ lastCall'.root = root /\ lastCall'.config = configFile
        /\ lastCall'.table = Table(profile) /\ lastCall'.limits = EffectiveLimits(profile)
    BY <1>2
  <2>2. ProfileOf(root, session, environ)' = profile
    BY DEF ProfileOf
  <2>3. \A p : /\ Table(p)' = Table(p) /\ Sizable(p)' = Sizable(p)
               /\ EffectiveLimits(p)' = EffectiveLimits(p) /\ ResolveWarnings(p)' = ResolveWarnings(p)
    BY DEF Table, Sizable, EffectiveLimits, ResolveWarnings, WithEnv, WithConfig
  <2>4. ProfileOf(lastCall.root, session, environ)' = profile
    BY <2>1, <2>2
  <2> HIDE DEF profile
  <2>5. Derived'
    BY <1>2, <2>1, <2>3, <2>4 DEF Derived
  <2> QED
    BY <2>1, <2>5 DEF LimitsInv
<1> QED
  BY <1>1, <1>2 DEF Derive

LEMMA LimitsStart == LimitsInit => LimitsInv
<1> SUFFICES ASSUME LimitsInit PROVE LimitsInv
  OBVIOUS
<1>1. NoLimits \in [Keys -> Nat]
  BY TheKeys DEF NoLimits
<1> QED
  BY <1>1 DEF LimitsInit, LimitsInv, NoDerivation, Profiles

LEMMA LimitsSteps == LimitsInv /\ [LimitsNext]_limitVars => LimitsInv'
<1> SUFFICES ASSUME LimitsInv, [LimitsNext]_limitVars
             PROVE  LimitsInv'
  OBVIOUS
<1>1. ASSUME NEW env \in Environs, StartServer(env)
      PROVE  LimitsInv'
  <2> DEFINE profile == IF env.profile = NoProfile THEN "adaptive" ELSE env.profile
             over == EnvLaid(env, Table(profile), FALSE)
  <2>1. /\ Sizable(profile) /\ processLimits' = ParseClamped(over) /\ environ' = env /\ serving' = TRUE
        /\ session' = [p \in Projects |-> NoProfile] /\ lastCall' = NoDerivation
        /\ UNCHANGED <<configFile, memory>>
    BY <1>1 DEF StartServer
  <2>2. profile \in Profiles /\ profile # NoProfile /\ Set(env.keys, Keys)
    BY LimitsAssumption DEF Profiles, NoProfile, Set
  <2> HIDE DEF profile
  <2>3. Tabled(over)
    BY <2>1, <2>2, TableIsTabled, EnvIsTabled DEF LimitsInv
  <2> HIDE DEF over
  <2>4. processLimits' \in [Keys -> Nat]
    BY <2>1, <2>3, ClampedIsTabled DEF Tabled
  <2>5. session' \in [Projects -> Profiles] /\ lastCall'.kind = "none"
    BY <2>1 DEF Profiles, NoDerivation
  <2> QED
    BY <2>1, <2>4, <2>5 DEF LimitsInv
<1>2. CASE StopServer
  BY <1>2 DEF StopServer, LimitsInv, NoDerivation
<1>3. ASSUME NEW root \in Projects, CallTool(root)
      PROVE  LimitsInv'
  <2>1. session \in [Projects -> Profiles]
    BY DEF LimitsInv
  <2> QED
    BY <1>3, <2>1, DeriveKeeps DEF CallTool
<1>4. ASSUME NEW root \in Projects, NEW profile \in ChosenProfiles, EnableProject(root, profile)
      PROVE  LimitsInv'
  <2>1. session' \in [Projects -> Profiles]
    BY <1>4, LimitsAssumption DEF EnableProject, LimitsInv
  <2>2. Derive(root, session') /\ UNCHANGED <<configFile, environ, memory, serving, processLimits>>
    BY <1>4 DEF EnableProject
  <2> DEFINE chosen == session'
  <2>3. session' = chosen /\ chosen \in [Projects -> Profiles] /\ Derive(root, chosen)
    BY <2>1, <2>2
  <2> HIDE DEF chosen
  <2> QED
    BY <2>2, <2>3, DeriveKeeps
<1>5. ASSUME NEW content \in ConfigFiles, EditConfig(content)
      PROVE  LimitsInv'
  BY <1>5 DEF EditConfig, LimitsInv, NoDerivation
<1>6. ASSUME NEW lines \in MemInfos, Measure(lines)
      PROVE  LimitsInv'
  BY <1>6 DEF Measure, LimitsInv, NoDerivation
<1>7. CASE UNCHANGED limitVars
  <2>1. \A p : /\ Table(p)' = Table(p) /\ Sizable(p)' = Sizable(p)
               /\ EffectiveLimits(p)' = EffectiveLimits(p) /\ ResolveWarnings(p)' = ResolveWarnings(p)
    BY <1>7 DEF limitVars, Table, Sizable, EffectiveLimits, ResolveWarnings, WithEnv, WithConfig
  <2>2. ProfileOf(lastCall.root, session, environ)' = ProfileOf(lastCall.root, session, environ)
    BY <1>7 DEF limitVars, ProfileOf
  <2> QED
    BY <1>7, <2>1, <2>2 DEF limitVars, LimitsInv, Derived
<1> QED
  BY <1>1, <1>2, <1>3, <1>4, <1>5, <1>6, <1>7 DEF LimitsNext

\* The inductive invariant of the limits: the last derivation is what the files,
\* the environment and the profiles in force give (limit_overrides.rs).
THEOREM LimitsInvHolds == LimitsSpec => []LimitsInv
<1>1. LimitsInv /\ [LimitsNext]_limitVars => LimitsInv'
  BY LimitsSteps
<1> QED
  BY <1>1, LimitsStart, PTL DEF LimitsSpec

\* Whatever tables, files, environments and hosts there are: a call runs under
\* the limits a human set, the environment before the file, whoever chose the
\* profile, and a limit that is not what was set was warned of
\* (env_overrides.rs, limit_overrides.rs, profile.rs).
THEOREM LimitsHold == LimitsSpec => []LimitsAreAsSet
<1>1. LimitsInv => LimitsAreAsSet
  <2>1. LimitsInv => LimitsTypeOK
    BY DEF LimitsInv, LimitsTypeOK, Profiles, NoProfile
  <2> QED
    BY <2>1, EffectiveAsSet DEF LimitsAreAsSet
<1> QED
  BY <1>1, LimitsInvHolds, PTL

(***************************************************************************)
(* LineIndex.                                                              *)
(***************************************************************************)

-----------------------------------------------------------------------------
(* Spans (module LineIndex).                                                *)

\* A set of numbers up to n has a greatest element.
LEMMA GreatestUpTo ==
  ASSUME NEW n \in Nat, NEW s \in SUBSET (0..n), s # {}
  PROVE  Max(s) \in s /\ \A x \in s : Max(s) >= x
<1> DEFINE less == {n - x : x \in s}
<1>1. less \in SUBSET Nat /\ less # {}
  <2>1. \A x \in s : n - x \in Nat
    OBVIOUS
  <2> QED
    BY <2>1
<1>2. PICK d \in less : \A m \in less : d <= m
  BY <1>1, LeastNumber
<1>3. PICK top \in s : d = n - top
  BY <1>2
<1>4. ASSUME NEW x \in s PROVE top >= x
  <2>1. n - x \in less
    OBVIOUS
  <2>2. d <= n - x
    BY <2>1, <1>2
  <2>3. x \in 0..n /\ top \in 0..n
    OBVIOUS
  <2> QED
    BY <1>3, <2>2, <2>3
<1> QED
  BY <1>4 DEF Max

\* A finite set is split by any other in two.
LEMMA CountsAdd ==
  ASSUME NEW S, IsFiniteSet(S), NEW A, NEW B, A \cup B = S, A \cap B = {}
  PROVE  /\ Cardinality(S) = Cardinality(A) + Cardinality(B)
         /\ Cardinality(S) \in Nat /\ Cardinality(A) \in Nat /\ Cardinality(B) \in Nat
<1>1. IsFiniteSet(A) /\ IsFiniteSet(B)
  BY FS_Subset
<1>2. Cardinality(A \cup B) = Cardinality(A) + Cardinality(B) - Cardinality(A \cap B)
  BY <1>1, FS_Union
<1>3. Cardinality({}) = 0
  BY FS_EmptySet
<1>4. Cardinality(S) \in Nat /\ Cardinality(A) \in Nat /\ Cardinality(B) \in Nat
  BY <1>1, FS_CardinalityType
<1>5. Cardinality(A \cup B) = Cardinality(S) /\ Cardinality(A \cap B) = 0
  BY <1>3
<1> QED
  BY <1>2, <1>4, <1>5

TextOK ==
  /\ source \in Seq(ByteKinds)
  /\ \A k \in 1..Size : source[k] = "continuation" => k > 1 /\ source[k - 1] \in {"leading", "continuation"}

\* The state of an index: what new made of the source, which nothing changes.
SpanInv ==
  /\ source \in SourceTexts
  /\ later_line_starts = LineStarts /\ block_chars = BlockChars
  /\ SpanIsExact

LEMMA TextOf == SpanInv => TextOK /\ Size \in Nat
<1> SUFFICES ASSUME SpanInv PROVE TextOK /\ Size \in Nat
  OBVIOUS
<1>1. source \in Seq(ByteKinds)
  BY LineAssumption DEF SpanInv
<1>2. DOMAIN source = 1..Size /\ Size \in Nat
  BY <1>1 DEF Size
<1> QED
  BY <1>1, <1>2, LineAssumption DEF SpanInv, TextOK

LEMMA CharsFinite ==
  ASSUME NEW first \in Nat, NEW last \in Nat
  PROVE  IsFiniteSet({k \in first..last : source[k] # "continuation"}) /\ CharsIn(first, last) \in Nat
<1>1. IsFiniteSet(first..last)
  BY FS_Interval
<1> DEFINE s == {k \in first..last : source[k] # "continuation"}
<1>2. IsFiniteSet(s)
  <2>1. s \subseteq first..last
    OBVIOUS
  <2> QED
    BY <1>1, <2>1, FS_Subset
<1> QED
  BY <1>2, FS_CardinalityType DEF CharsIn

\* Characters are counted in two parts as in one.
LEMMA CharsAdd ==
  ASSUME NEW first \in Nat, NEW mid \in Nat, NEW last \in Nat, first <= mid + 1, mid <= last
  PROVE  CharsIn(first, last) = CharsIn(first, mid) + CharsIn(mid + 1, last)
<1> DEFINE S == {k \in first..last : source[k] # "continuation"}
           A == {k \in first..mid : source[k] # "continuation"}
           B == {k \in mid + 1 .. last : source[k] # "continuation"}
<1>1. A \cup B = S /\ A \cap B = {}
  OBVIOUS
<1>2. IsFiniteSet(S)
  BY CharsFinite
<1> HIDE DEF S, A, B
<1>3. Cardinality(S) = Cardinality(A) + Cardinality(B)
  BY <1>1, <1>2, CountsAdd
<1> QED
  BY <1>3 DEF CharsIn, S, A, B

\* Without a longer character, bytes are characters.
LEMMA AsciiChars ==
  ASSUME TextOK, IsAscii, NEW o \in 0..Size
  PROVE  CharsIn(1, o) = o
<1>2. o \in Nat /\ Size \in Nat
  BY DEF TextOK, Size
<1>1. {k \in 1..o : source[k] # "continuation"} = 1..o
  <2>1. \A k \in 1..o : source[k] \in {"newline", "ascii"}
    BY <1>2 DEF IsAscii
  <2> QED
    BY <2>1
<1> QED
  BY <1>1, <1>2, UpToFinite DEF CharsIn

\* The table's i-th entry is the count up to the end of its i-th block.
LEMMA TableIs ==
  ASSUME TextOK, Size \in Nat
  PROVE  /\ Chunks \in Nat
         /\ \A k \in 1..Chunks : (k - 1) * BlockBytes \in Nat /\ (k - 1) * BlockBytes < Size
         /\ \A i \in 0..Chunks :
              SumFunctionOnSet(ChunkChars, 1..i) = CharsIn(1, Smaller(i * BlockBytes, Size))
<1> DEFINE B == BlockBytes
           N == Size
           C == Chunks
<1>1. B \in Nat \ {0} /\ N \in Nat
  BY LineAssumption
<1>2. C \in Nat /\ C * B <= N + B - 1 /\ N <= C * B
  BY <1>1 DEF Chunks
<1> HIDE DEF B, N, C
<1>3. ASSUME NEW k \in 1..C
      PROVE  (k - 1) * B \in Nat /\ (k - 1) * B < N /\ k * B = (k - 1) * B + B
  <2>1. k * B <= C * B
    BY <1>1, <1>2
  <2>2. k * B = (k - 1) * B + B /\ (k - 1) * B \in Nat /\ k * B \in Nat
    BY <1>1
  <2>3. C * B \in Nat
    BY <1>1, <1>2
  <2> QED
    BY <1>1, <1>2, <2>1, <2>2, <2>3
<1> DEFINE T == {i \in 0..C : SumFunctionOnSet(ChunkChars, 1..i) = CharsIn(1, Smaller(i * B, N))}
<1>4. 0 \in T
  <2>1. 1..0 = {} /\ 0 * B = 0 /\ Smaller(0, N) = 0
    BY <1>1 DEF Smaller
  <2>2. SumFunctionOnSet(ChunkChars, {}) = 0
    BY SumOfNothing
  <2>3. {k \in 1..0 : source[k] # "continuation"} = {}
    OBVIOUS
  <2>4. CharsIn(1, 0) = 0
    BY <2>3, FS_EmptySet DEF CharsIn
  <2>5. SumFunctionOnSet(ChunkChars, 1..0) = CharsIn(1, Smaller(0 * B, N))
    BY <2>1, <2>2, <2>4
  <2> QED
    BY <2>5, <1>2
<1>5. \A k \in 1..C : ChunkChars[k] = CharsIn((k - 1) * B + 1, Smaller(k * B, N)) /\ ChunkChars[k] \in Nat
  <2>1. TAKE k \in 1..C
  <2>2. ChunkChars[k] = CharsIn((k - 1) * B + 1, Smaller(k * B, N))
    BY DEF ChunkChars, B, N, C
  <2>3. (k - 1) * B + 1 \in Nat /\ Smaller(k * B, N) \in Nat
    BY <1>1, <1>3 DEF Smaller
  <2> QED
    BY <2>2, <2>3, CharsFinite
<1>6. ASSUME NEW k \in 1..C, k - 1 \in T PROVE k \in T
  <2> DEFINE m == k - 1
  <2>1. m \in Nat /\ m + 1 = k /\ \A i \in 1 .. (m + 1) : ChunkChars[i] \in Nat
    BY <1>2, <1>5
  <2>2. SumFunctionOnSet(ChunkChars, 1 .. (m + 1)) = SumFunctionOnSet(ChunkChars, 1..m) + ChunkChars[m + 1]
    BY <2>1, SumToNext
  <2>3. SumFunctionOnSet(ChunkChars, 1..m) = CharsIn(1, Smaller(m * B, N))
    BY <1>6
  <2> DEFINE done == m * B
             end == Smaller(k * B, N)
  <2>4. done \in Nat /\ end \in Nat /\ done <= end /\ Smaller(m * B, N) = done
    BY <1>1, <1>3 DEF Smaller
  <2>5. ChunkChars[m + 1] = CharsIn(done + 1, end)
    BY <2>1, <1>5
  <2> HIDE DEF done, end, m
  <2>6. CharsIn(1, end) = CharsIn(1, done) + CharsIn(done + 1, end)
    BY <2>4, CharsAdd
  <2>7. SumFunctionOnSet(ChunkChars, 1..k) = CharsIn(1, end)
    BY <2>1, <2>2, <2>3, <2>4, <2>5, <2>6
  <2> QED
    BY <2>7, <1>2 DEF end
<1>7. \A i \in 0..C : i \in T
  <2> HIDE DEF T
  <2> QED
    BY <1>2, <1>4, <1>6, UpTo
<1> QED
  BY <1>2, <1>3, <1>7 DEF B, N, C

\* Flooring gives the last place at or before a byte where a character begins.
LEMMA FloorIs ==
  ASSUME TextOK, Size \in Nat, NEW o \in 0..Size
  PROVE  /\ FloorToBoundary(o) \in 0..o /\ IsBoundary(FloorToBoundary(o))
         /\ \A p \in FloorToBoundary(o) + 1 .. o : ~IsBoundary(p)
<1> DEFINE within == {p \in 0 .. Smaller(o, Size) : IsBoundary(p)}
<1>1. Smaller(o, Size) = o /\ o \in Nat
  BY DEF Smaller
<1>2. within \in SUBSET (0..o) /\ 0 \in within
  BY <1>1 DEF IsBoundary
<1>3. FloorToBoundary(o) = Max(within)
  BY DEF FloorToBoundary
<1>4. \A p \in 0..o : IsBoundary(p) => p \in within
  BY <1>1
<1>5. \A p \in within : IsBoundary(p)
  OBVIOUS
<1> HIDE DEF within
<1>6. Max(within) \in within /\ \A p \in within : Max(within) >= p
  BY <1>1, <1>2, GreatestUpTo
<1>7. Max(within) \in 0..o
  BY <1>2, <1>6
<1>8. \A p \in Max(within) + 1 .. o : ~IsBoundary(p)
  <2> SUFFICES ASSUME NEW p \in Max(within) + 1 .. o, IsBoundary(p) PROVE FALSE
    OBVIOUS
  <2>1. p \in 0..o /\ ~(Max(within) >= p)
    BY <1>7
  <2> QED
    BY <1>4, <1>6, <2>1
<1> QED
  BY <1>3, <1>5, <1>6, <1>7, <1>8

\* The table and the bytes of one block give the characters before an offset.
LEMMA CharsBeforeIs ==
  ASSUME TextOK, Size \in Nat, block_chars = BlockChars, NEW o \in 0..Size
  PROVE  CharsBefore(o) = CharsIn(1, o)
<1>1. CASE IsAscii
  <2>1. block_chars = <<>>
    BY <1>1 DEF BlockChars
  <2> QED
    BY <1>1, <2>1, AsciiChars DEF CharsBefore
<1>2. CASE ~IsAscii
  <2> DEFINE block == o \div BlockBytes
             whole == block * BlockBytes
  <2>1. BlockBytes \in Nat \ {0} /\ o \in Nat
    BY LineAssumption
  <2>2. block \in Nat /\ whole \in Nat /\ whole <= o
    BY <2>1
  <2>3. Chunks \in Nat
    BY TableIs
  <2>4. block \in 0..Chunks
    <3>1. Size + BlockBytes - 1 \in Nat /\ whole <= Size + BlockBytes - 1
      BY <2>1, <2>2
    <3>2. block <= (Size + BlockBytes - 1) \div BlockBytes
      BY <2>1, <2>2, <3>1
    <3> QED
      BY <2>2, <2>3, <3>2 DEF Chunks
  <2>5. block_chars = [i \in 1 .. (Chunks + 1) |-> SumFunctionOnSet(ChunkChars, 1 .. (i - 1))]
    BY <1>2 DEF BlockChars
  <2>6. block + 1 \in DOMAIN block_chars /\ block + 1 \in 1 .. (Chunks + 1) /\ (block + 1) - 1 = block
    BY <2>3, <2>4, <2>5
  <2>7. block_chars # <<>>
    BY <2>6
  <2>8. block_chars[block + 1] = SumFunctionOnSet(ChunkChars, 1..block)
    BY <2>5, <2>6
  <2>9. SumFunctionOnSet(ChunkChars, 1..block) = CharsIn(1, whole)
    <3>1. Smaller(whole, Size) = whole
      BY <2>1, <2>2 DEF Smaller
    <3> HIDE DEF block
    <3>2. SumFunctionOnSet(ChunkChars, 1..block) = CharsIn(1, Smaller(block * BlockBytes, Size))
      BY <2>4, TableIs
    <3> QED
      BY <3>1, <3>2
  <2>10. CharsBefore(o) = block_chars[block + 1] + CharsIn(whole + 1, o)
    BY <2>6, <2>7 DEF CharsBefore
  <2> HIDE DEF block, whole
  <2>11. CharsIn(1, o) = CharsIn(1, whole) + CharsIn(whole + 1, o)
    BY <2>1, <2>2, CharsAdd
  <2> QED
    BY <2>8, <2>9, <2>10, <2>11
<1> QED
  BY <1>1, <1>2

LineAt(at) == {k \in 1..at : source[k] = "newline"}

\* The start of a line is the last newline before it, or the start of the text.
LEMMA LineStartIs ==
  ASSUME TextOK, Size \in Nat, later_line_starts = LineStarts, NEW at \in 0..Size
  PROVE  LET start == LineStart(LineOf(at))
         IN /\ LineOf(at) = Cardinality(LineAt(at)) /\ LineOf(at) \in Nat
            /\ start \in 0..at /\ (start = 0 \/ source[start] = "newline")
            /\ \A k \in start + 1 .. at : source[k] # "newline"
<1> DEFINE before == {s \in later_line_starts : s <= at}
           under(s) == {t \in later_line_starts : t < s}
           taken == {s \in later_line_starts : Cardinality(under(s)) < LineOf(at)}
           start == IF before = {} THEN 0 ELSE Max(before)
<1>1. before = LineAt(at) /\ IsFiniteSet(later_line_starts) /\ later_line_starts \subseteq 1..Size
  <2>1. later_line_starts \subseteq 1..Size /\ before = LineAt(at)
    BY DEF LineStarts, LineAt
  <2> QED
    BY <2>1, UpToFinite, FS_Subset
<1>0. at \in Nat /\ \A s \in later_line_starts : s \in Nat
  BY <1>1
<1>2. IsFiniteSet(before) /\ LineOf(at) = Cardinality(before) /\ Cardinality(before) \in Nat
  <2>1. before \subseteq later_line_starts
    OBVIOUS
  <2>2. LineOf(at) = Cardinality(before)
    BY DEF LineOf
  <2> HIDE DEF before
  <2> QED
    BY <1>1, <2>1, <2>2, FS_Subset, FS_CardinalityType
<1>3. \A s \in later_line_starts : IsFiniteSet(under(s)) /\ Cardinality(under(s)) \in Nat
  <2> TAKE s \in later_line_starts
  <2>1. under(s) \subseteq later_line_starts
    OBVIOUS
  <2> QED
    BY <1>1, <2>1, FS_Subset, FS_CardinalityType
<1>4. \A s \in later_line_starts : Cardinality(under(s)) < Cardinality(before) <=> s <= at
  <2> TAKE s \in later_line_starts
  <2>1. CASE s <= at
    <3>1. under(s) \subseteq before /\ s \in before /\ s \notin under(s)
      BY ONLY <2>1, <1>0, s \in later_line_starts
    <3>2. under(s) # before
      BY <3>1
    <3> HIDE DEF before, under
    <3>3. Cardinality(under(s)) < Cardinality(before)
      BY <1>2, <1>3, <3>1, <3>2, FS_Subset
    <3> QED
      BY <2>1, <3>3
  <2>2. CASE ~(s <= at)
    <3>1. before \subseteq under(s)
      BY ONLY <2>2, <1>0, s \in later_line_starts
    <3> HIDE DEF before, under
    <3>2. Cardinality(before) <= Cardinality(under(s))
      BY <1>3, <3>1, FS_Subset
    <3> QED
      BY <2>2, <3>2, <1>2, <1>3
  <2> QED
    BY <2>1, <2>2
<1>5. taken = before
  BY <1>2, <1>4
<1>6. LineStart(LineOf(at)) = start
  BY <1>5 DEF LineStart
<1>7. start \in 0..at /\ (start = 0 \/ source[start] = "newline") /\ \A k \in start + 1 .. at : source[k] # "newline"
  <2>1. CASE before = {}
    BY <1>1, <2>1 DEF LineAt
  <2>2. CASE before # {}
    <3>1. before \in SUBSET (0..at) /\ at \in Nat
      BY <1>0
    <3>2. start = Max(before)
      BY <2>2
    <3>3. \A k \in 1..at : source[k] = "newline" <=> k \in before
      BY <1>1 DEF LineAt
    <3> HIDE DEF before, start
    <3>4. Max(before) \in before /\ \A x \in before : Max(before) >= x
      BY <2>2, <3>1, GreatestUpTo
    <3>5. start \in 1..at
      BY <1>1, <3>2, <3>4 DEF LineAt
    <3>6. \A k \in start + 1 .. at : source[k] # "newline"
      <4> SUFFICES ASSUME NEW k \in start + 1 .. at, source[k] = "newline" PROVE FALSE
        OBVIOUS
      <4>1. k \in 1..at /\ ~(start >= k)
        BY <3>5
      <4> QED
        BY <3>2, <3>3, <3>4, <4>1
    <3> QED
      BY <3>2, <3>3, <3>4, <3>5, <3>6
  <2> QED
    BY <2>1, <2>2
<1> QED
  BY <1>1, <1>2, <1>6, <1>7

\* The place the index finds for a byte is the one counting gives.
LEMMA PositionIs ==
  ASSUME TextOK, Size \in Nat, later_line_starts = LineStarts, block_chars = BlockChars,
         NEW o \in 0..Size
  PROVE  LET at == FloorToBoundary(o)
             start == LineStart(LineOf(at))
         IN /\ at \in 0..o /\ start \in 0..at /\ CharsIn(1, start) \in Nat
            /\ CharsIn(1, at) = CharsIn(1, start) + CharsIn(start + 1, at)
            /\ Position(o) = [line |-> LineOf(at), column |-> CharsIn(1, at) - CharsIn(1, start)]
            /\ Position(o).line \in Nat /\ Position(o).column \in Nat
            /\ CountedAt(o, Position(o).line, Position(o).column)
<1> DEFINE at == FloorToBoundary(o)
           start == LineStart(LineOf(at))
<1>1. /\ at \in 0..o /\ IsBoundary(at) /\ \A p \in at + 1 .. o : ~IsBoundary(p)
      /\ at \in 0..Size /\ at \in Nat
  BY FloorIs
<1>2. Position(o) = [line |-> LineOf(at), column |-> CharsBefore(at) - CharsBefore(start)]
  BY DEF Position
<1> HIDE DEF at
<1>3. /\ LineOf(at) = Cardinality(LineAt(at)) /\ LineOf(at) \in Nat
      /\ start \in 0..at /\ (start = 0 \/ source[start] = "newline")
      /\ \A k \in start + 1 .. at : source[k] # "newline"
  BY <1>1, LineStartIs
<1> HIDE DEF start
<1>4. start \in Nat /\ start + 1 \in Nat /\ 1 \in Nat /\ start \in 0..Size /\ start <= at
  BY <1>1, <1>3
<1>5. CharsBefore(at) = CharsIn(1, at) /\ CharsBefore(start) = CharsIn(1, start)
  BY <1>1, <1>4, CharsBeforeIs
<1>6. CharsIn(1, at) = CharsIn(1, start) + CharsIn(start + 1, at)
  BY <1>1, <1>4, CharsAdd
<1>7. CharsIn(1, start) \in Nat /\ CharsIn(start + 1, at) \in Nat
  BY <1>1, <1>4, CharsFinite
<1>8. Position(o).line = Cardinality(LineAt(at)) /\ Position(o).column = CharsIn(start + 1, at)
  BY <1>2, <1>3, <1>5, <1>6, <1>7
<1>9. CountedAt(o, Position(o).line, Position(o).column)
  BY <1>1, <1>3, <1>8 DEF CountedAt, LineAt
<1> QED
  BY <1>1, <1>2, <1>3, <1>5, <1>6, <1>7, <1>8, <1>9 DEF at, start

\* Between a byte and the place it is floored to no line ends.
LEMMA RowIs ==
  ASSUME TextOK, Size \in Nat, later_line_starts = LineStarts, NEW o \in 0..Size
  PROVE  RowOf(o) = LineOf(FloorToBoundary(o))
<1> DEFINE at == FloorToBoundary(o)
<1>1. /\ at \in 0..o /\ \A p \in at + 1 .. o : ~IsBoundary(p)
      /\ at \in 0..Size /\ at \in Nat /\ o \in Nat
  BY FloorIs
<1> HIDE DEF at
<1>2. ASSUME NEW k \in at + 1 .. o, source[k] = "newline" PROVE FALSE
  <2>1. k \in 1..Size /\ k # Size /\ source[k + 1] = "continuation"
    BY <1>1, <1>2 DEF IsBoundary
  <2>2. k + 1 \in 1..Size /\ (k + 1) - 1 = k
    BY <2>1
  <2>3. source[k] \in {"leading", "continuation"}
    BY <2>1, <2>2 DEF TextOK
  <2> QED
    BY <1>2, <2>3
<1>3. {k \in 1..o : source[k] = "newline"} = LineAt(at)
  BY <1>1, <1>2 DEF LineAt
<1>4. LineOf(at) = Cardinality(LineAt(at))
  BY <1>1, LineStartIs
<1> QED
  BY <1>3, <1>4 DEF RowOf, at

\* A later byte is at a later place or the same.
LEMMA PositionsAreInOrder ==
  ASSUME TextOK, Size \in Nat, later_line_starts = LineStarts, block_chars = BlockChars,
         NEW first \in 0..Size, NEW last \in 0..Size, first <= last
  PROVE  /\ Position(first).line <= Position(last).line
         /\ Position(first).line = Position(last).line => Position(first).column <= Position(last).column
<1> DEFINE a == FloorToBoundary(first)
           b == FloorToBoundary(last)
           lineA == LineOf(a)
           lineB == LineOf(b)
<1>1. /\ a \in 0..first /\ IsBoundary(a)
      /\ b \in 0..last /\ \A p \in b + 1 .. last : ~IsBoundary(p)
  BY FloorIs
<1>2. Position(first) = [line |-> lineA, column |-> CharsIn(1, a) - CharsIn(1, LineStart(lineA))]
  BY PositionIs
<1>3. Position(last) = [line |-> lineB, column |-> CharsIn(1, b) - CharsIn(1, LineStart(lineB))]
  BY PositionIs
<1>4. CharsIn(1, LineStart(lineA)) \in Nat /\ CharsIn(1, LineStart(lineB)) \in Nat
  BY PositionIs
<1> HIDE DEF a, b
<1>5. a <= b /\ a \in Nat /\ b \in Nat /\ a + 1 \in Nat /\ 1 \in Nat /\ a \in 0..Size /\ b \in 0..Size
  BY <1>1
<1>6. lineA = Cardinality(LineAt(a)) /\ lineB = Cardinality(LineAt(b)) /\ lineA \in Nat /\ lineB \in Nat
  BY <1>5, LineStartIs
<1>7. LineAt(a) \subseteq LineAt(b) /\ LineAt(b) \subseteq 1..b
  BY <1>5 DEF LineAt
<1>8. lineA <= lineB
  BY <1>5, <1>6, <1>7, UpToFinite, FS_Subset
<1>9. CharsIn(1, a) \in Nat /\ CharsIn(1, b) \in Nat /\ CharsIn(a + 1, b) \in Nat
  BY <1>5, CharsFinite
<1>10. CharsIn(1, b) = CharsIn(1, a) + CharsIn(a + 1, b)
  BY <1>5, CharsAdd
<1> HIDE DEF lineA, lineB
<1> QED
  BY <1>2, <1>3, <1>4, <1>8, <1>9, <1>10

\* Whichever producer makes it, a span of a node is exact.
LEMMA TakenSpanIs ==
  ASSUME TextOK, Size \in Nat, later_line_starts = LineStarts, block_chars = BlockChars,
         NEW first \in 0..Size, NEW last \in 0..Size, first <= last, NEW how \in {"tree", "index"}
  PROVE  LET start == Position(first)
             end == Position(last)
         IN /\ CheckedSpan(first, last, PositionIn(how, first), PositionIn(how, last))
                 = [availability |-> "Present", start_byte |-> first, end_byte |-> last,
                    start_line |-> start.line + 1, start_column |-> start.column,
                    end_line |-> end.line + 1, end_column |-> end.column]
            /\ CountedAt(first, start.line, start.column) /\ CountedAt(last, end.line, end.column)
            /\ start.line \in Nat /\ end.line \in Nat /\ start.line <= end.line
            /\ start.line = end.line => start.column <= end.column
<1>1. \A o \in 0..Size : PositionIn(how, o) = Position(o)
  <2> TAKE o \in 0..Size
  <2>1. Position(o) = [line |-> Position(o).line, column |-> Position(o).column]
    BY DEF Position
  <2>2. RowOf(o) = Position(o).line
    BY RowIs DEF Position
  <2> QED
    BY <2>1, <2>2 DEF PositionIn
<1> DEFINE start == Position(first)
           end == Position(last)
<1>2. /\ CountedAt(first, start.line, start.column) /\ CountedAt(last, end.line, end.column)
      /\ start.line \in Nat /\ end.line \in Nat /\ start.column \in Nat /\ end.column \in Nat
  BY PositionIs
<1>3. start.line <= end.line /\ (start.line = end.line => start.column <= end.column)
  BY PositionsAreInOrder
<1>4. PositionIn(how, first) = start /\ PositionIn(how, last) = end
  BY <1>1
<1> HIDE DEF start, end
<1>5. ~Reversed(first, last, start, end)
  BY <1>2, <1>3 DEF Reversed
<1> QED
  BY <1>2, <1>3, <1>4, <1>5 DEF CheckedSpan, start, end

\* The inductive invariant of spans: the index is what new made of the source.
THEOREM SpanInvHolds == SpanSpec => []SpanInv
<1>1. SpanInit => SpanInv
  BY DEF SpanInit, SpanInv, SpanIsExact
<1>2. SpanInv /\ [SpanNext]_spanVars => SpanInv'
  <2> SUFFICES ASSUME SpanInv, [SpanNext]_spanVars PROVE SpanInv'
    OBVIOUS
  <2>1. CASE UNCHANGED spanVars
    BY <2>1, ZenonT(60) DEF spanVars, SpanInv, SpanIsExact, CountedAt, IsBoundary, CharsIn, Size, LineStarts,
                BlockChars, IsAscii, Chunks, ChunkChars
  <2>2. CASE SpanNext
    <3>1. PICK first \in 0..Size, last \in 0..Size, how \in {"tree", "index"} :
             first <= last /\ TakeSpan(first, last, how)
      BY <2>2 DEF SpanNext
    <3>2. TextOK /\ Size \in Nat /\ later_line_starts = LineStarts /\ block_chars = BlockChars
      BY TextOf DEF SpanInv
    <3> DEFINE start == Position(first)
               end == Position(last)
    <3>3. /\ span' = [availability |-> "Present", start_byte |-> first, end_byte |-> last,
                      start_line |-> start.line + 1, start_column |-> start.column,
                      end_line |-> end.line + 1, end_column |-> end.column]
          /\ CountedAt(first, start.line, start.column) /\ CountedAt(last, end.line, end.column)
          /\ start.line \in Nat /\ end.line \in Nat /\ start.line <= end.line
          /\ start.line = end.line => start.column <= end.column
      BY <3>1, <3>2, TakenSpanIs DEF TakeSpan
    <3>4. source' = source /\ later_line_starts' = later_line_starts /\ block_chars' = block_chars
      BY <3>1 DEF TakeSpan
    <3>5. LineStarts' = LineStarts /\ BlockChars' = BlockChars
      BY <3>4 DEF LineStarts, BlockChars, IsAscii, Chunks, ChunkChars, CharsIn, Size
    <3>6. \A o, line, column : CountedAt(o, line, column)' <=> CountedAt(o, line, column)
      BY <3>4 DEF CountedAt, IsBoundary, CharsIn, Size
    <3> HIDE DEF start, end
    <3>7. /\ span'.availability = "Present" /\ span'.start_byte = first /\ span'.end_byte = last
          /\ span'.start_line - 1 = start.line /\ span'.start_column = start.column
          /\ span'.end_line - 1 = end.line /\ span'.end_column = end.column
          /\ span'.start_line <= span'.end_line
          /\ span'.start_line = span'.end_line => span'.start_column <= span'.end_column
      BY <3>3
    <3>8. SpanIsExact'
      BY <3>1, <3>3, <3>6, <3>7 DEF SpanIsExact
    <3> QED
      BY <3>4, <3>5, <3>8 DEF SpanInv
  <2> QED
    BY <2>1, <2>2
<1> QED
  BY <1>1, <1>2, PTL DEF SpanSpec

\* For any source and block size: the span stored for a node is the one counting
\* gives, from either producer, and no node loses its span (SpanIsExact).
THEOREM SpansHold == SpanSpec => []SpanIsExact
<1>1. SpanInv => SpanIsExact
  BY DEF SpanInv
<1> QED
  BY <1>1, SpanInvHolds, PTL

(***************************************************************************)
(* Evidence.                                                               *)
(***************************************************************************)

-----------------------------------------------------------------------------
(* Evidence: what the numbering of a tree says (module Evidence).           *)

\* The nodes right below p: those of the arguments and the children.
UnderOf(t, p) == Range(t.inside[p]) \cup Range(t.kids[p])

LEMMA TreeNodes ==
  ASSUME NEW t, IsTree(t)
  PROVE  /\ NodesOf(t) = 1..t.last[1] /\ t.last[1] \in Nat /\ 1 \in NodesOf(t)
         /\ \A x \in NodesOf(t) :
              /\ x \in Nat /\ x >= 1 /\ x <= t.last[1]
              /\ t.last[x] \in NodesOf(t) /\ t.last[x] \in Nat /\ x <= t.last[x]
              /\ t.kind[x] \in NodeKinds /\ t.name[x] \in Words(t) /\ t.at[x] \in Range(t.at)
              /\ t.kids[x] \in Seq(NodesOf(t)) /\ t.inside[x] \in Seq(NodesOf(t))
<1> DEFINE nodes == NodesOf(t)
<1>1. /\ t.last[1] \in Nat /\ 1 \in nodes /\ nodes = 1..t.last[1]
      /\ t.kind \in [nodes -> NodeKinds] /\ DOMAIN t.name = nodes /\ DOMAIN t.at = nodes
      /\ t.last \in [nodes -> nodes]
      /\ t.kids \in [nodes -> Seq(nodes)] /\ t.inside \in [nodes -> Seq(nodes)]
      /\ \A x \in nodes : Below(t, x, x)
  BY DEF IsTree
<1> HIDE DEF nodes
<1>2. ASSUME NEW x \in nodes
      PROVE  /\ x \in Nat /\ x >= 1 /\ x <= t.last[1] /\ t.last[x] \in nodes /\ t.last[x] \in Nat
             /\ x <= t.last[x]
  <2>1. t.last[x] \in nodes /\ Below(t, x, x)
    BY <1>1
  <2> QED
    BY <1>1, <2>1 DEF Below
<1>3. ASSUME NEW x \in nodes
      PROVE  /\ t.kind[x] \in NodeKinds /\ t.name[x] \in Words(t) /\ t.at[x] \in Range(t.at)
             /\ t.kids[x] \in Seq(nodes) /\ t.inside[x] \in Seq(nodes)
  <2>1. t.name[x] \in Range(t.name) /\ t.at[x] \in Range(t.at)
    BY <1>1 DEF Range
  <2> QED
    BY <1>1, <2>1 DEF Words
<1> QED
  BY <1>1, <1>2, <1>3 DEF nodes

\* The order of the tree: below a node come its children's, one after another.
LEMMA TreeOrder ==
  ASSUME NEW t, IsTree(t), NEW p \in NodesOf(t)
  PROVE  /\ \A y \in NodesOf(t) : Below(t, p, y) => t.last[y] <= t.last[p]
         /\ InTurn(t, t.inside[p]) /\ InTurn(t, t.kids[p])
         /\ \A i \in DOMAIN t.inside[p], j \in DOMAIN t.kids[p] : t.last[t.inside[p][i]] < t.kids[p][j]
         /\ \A y \in NodesOf(t) : (p < y /\ Below(t, p, y)) <=> \E c \in UnderOf(t, p) : Below(t, c, y)
         /\ t.inside[p] # <<>> => t.kind[p] = "macro" /\ t.language = "rust"
BY DEF IsTree, UnderOf

LEMMA InRange == \A s : \A c : c \in Range(s) <=> \E i \in DOMAIN s : s[i] = c
BY DEF Range

LEMMA SeqDomain == ASSUME NEW X, NEW s \in Seq(X) PROVE DOMAIN s = 1..Len(s) /\ Len(s) \in Nat
OBVIOUS

LEMMA KnownRange ==
  ASSUME NEW X, NEW s \in Seq(X), NEW c \in Range(s)
  PROVE  c \in X
<1>1. PICK i \in DOMAIN s : s[i] = c
  BY InRange
<1>2. s[i] \in X
  OBVIOUS
<1> QED
  BY <1>1, <1>2

LEMMA UnderIsNode ==
  ASSUME NEW t, IsTree(t), NEW p \in NodesOf(t), NEW c \in UnderOf(t, p)
  PROVE  /\ c \in NodesOf(t) /\ c \in Nat /\ p \in Nat /\ t.last[c] \in Nat /\ t.last[p] \in Nat
         /\ p < c /\ c <= t.last[c] /\ t.last[c] <= t.last[p] /\ Below(t, p, c) /\ Below(t, c, c)
<1>1. c \in NodesOf(t)
  BY TreeNodes, KnownRange DEF UnderOf
<1>2. Below(t, c, c)
  BY <1>1, TreeNodes DEF Below
<1>3. p < c /\ Below(t, p, c)
  BY <1>1, <1>2, TreeOrder
<1>4. t.last[c] <= t.last[p]
  BY <1>1, <1>3, TreeOrder
<1> QED
  BY <1>1, <1>2, <1>3, <1>4, TreeNodes

\* Two children have no node below them in common.
LEMMA SiblingsApart ==
  ASSUME NEW t, IsTree(t), NEW p \in NodesOf(t), NEW c \in UnderOf(t, p), NEW d \in UnderOf(t, p)
  PROVE  c = d \/ t.last[c] < d \/ t.last[d] < c
<1> DEFINE in == t.inside[p]
           kids == t.kids[p]
<1>1. in \in Seq(NodesOf(t)) /\ kids \in Seq(NodesOf(t))
  BY TreeNodes
<1>2. \A i, j \in DOMAIN in : i < j => t.last[in[i]] < in[j]
  BY TreeOrder DEF InTurn
<1>3. \A i, j \in DOMAIN kids : i < j => t.last[kids[i]] < kids[j]
  BY TreeOrder DEF InTurn
<1>4. \A i \in DOMAIN in, j \in DOMAIN kids : t.last[in[i]] < kids[j]
  BY TreeOrder
<1>5. c \in Range(in) \cup Range(kids) /\ d \in Range(in) \cup Range(kids)
  BY DEF UnderOf
<1> HIDE DEF in, kids
<1>6. \A i, j \in DOMAIN in : i = j \/ i < j \/ j < i
  BY <1>1, SeqDomain
<1>7. \A i, j \in DOMAIN kids : i = j \/ i < j \/ j < i
  BY <1>1, SeqDomain
<1>8. (\A e : e \in Range(in) <=> \E i \in DOMAIN in : in[i] = e)
      /\ \A e : e \in Range(kids) <=> \E i \in DOMAIN kids : kids[i] = e
  BY InRange
<1>9. CASE c \in Range(in) /\ d \in Range(in)
  BY <1>2, <1>6, <1>8, <1>9
<1>10. CASE c \in Range(kids) /\ d \in Range(kids)
  BY <1>3, <1>7, <1>8, <1>10
<1>11. CASE c \in Range(in) /\ d \in Range(kids)
  BY <1>4, <1>8, <1>11
<1>12. CASE c \in Range(kids) /\ d \in Range(in)
  BY <1>4, <1>8, <1>12
<1> QED
  BY <1>5, <1>9, <1>10, <1>11, <1>12

LEMMA AboveUnder ==
  ASSUME NEW t, IsTree(t), NEW p \in NodesOf(t), NEW c \in UnderOf(t, p)
  PROVE  Above(t, c) = Above(t, p) \cup {p} /\ p \notin Above(t, p)
<1>1. /\ c \in NodesOf(t) /\ c \in Nat /\ p \in Nat /\ t.last[c] \in Nat /\ t.last[p] \in Nat
      /\ p < c /\ c <= t.last[c] /\ t.last[c] <= t.last[p] /\ Below(t, p, c)
  BY UnderIsNode
<1>2. ASSUME NEW y \in Above(t, p) PROVE y \in Above(t, c)
  <2>1. y \in NodesOf(t) /\ y < p /\ Below(t, y, p)
    BY DEF Above
  <2>2. y \in Nat /\ t.last[y] \in Nat /\ t.last[p] <= t.last[y]
    BY <2>1, TreeNodes, TreeOrder
  <2>3. y < c /\ Below(t, y, c)
    BY <2>1, <2>2, <1>1 DEF Below
  <2> QED
    BY <2>1, <2>3 DEF Above
<1>3. p \in Above(t, c) /\ p \notin Above(t, p)
  BY <1>1 DEF Above
<1>4. ASSUME NEW y \in Above(t, c), y # p PROVE y \in Above(t, p)
  <2>1. y \in NodesOf(t) /\ y < c /\ y <= c /\ c <= t.last[y] /\ y \in Nat /\ t.last[y] \in Nat
    BY TreeNodes DEF Above, Below
  <2>2. CASE y < p
    BY <2>1, <2>2, <1>1 DEF Above, Below
  <2>3. CASE p < y
    <3>1. Below(t, p, y)
      BY <2>1, <2>3, <1>1 DEF Below
    <3>2. PICK d \in UnderOf(t, p) : Below(t, d, y)
      BY <2>1, <2>3, <3>1, TreeOrder
    <3>3. /\ d \in NodesOf(t) /\ d \in Nat /\ t.last[d] \in Nat /\ d <= y /\ y <= t.last[d]
      BY <3>2, UnderIsNode DEF Below
    <3>4. t.last[y] <= t.last[d]
      BY <3>2, <3>3, <2>1, TreeOrder
    <3>5. c = d \/ t.last[c] < d \/ t.last[d] < c
      BY SiblingsApart
    <3> QED
      BY <3>3, <3>4, <3>5, <2>1, <1>1
  <2> QED
    BY <2>1, <2>2, <2>3, <1>1, <1>4
<1> QED
  BY <1>2, <1>3, <1>4

LEMMA OneParent ==
  ASSUME NEW t, IsTree(t), NEW p \in NodesOf(t), NEW q \in NodesOf(t), NEW c,
         c \in UnderOf(t, p), c \in UnderOf(t, q)
  PROVE  p = q
<1>1. Above(t, p) \cup {p} = Above(t, q) \cup {q}
  BY AboveUnder
<1>2. p \in Nat /\ q \in Nat
  BY TreeNodes
<1>3. p \in Above(t, q) \/ p = q
  BY <1>1
<1>4. q \in Above(t, p) \/ p = q
  BY <1>1
<1> QED
  BY <1>2, <1>3, <1>4 DEF Above

LEMMA KidIsNotInside ==
  ASSUME NEW t, IsTree(t), NEW p \in NodesOf(t), NEW q \in NodesOf(t), NEW c,
         c \in Range(t.kids[p])
  PROVE  c \notin Range(t.inside[q])
<1> SUFFICES ASSUME c \in Range(t.inside[q]) PROVE FALSE
  OBVIOUS
<1>1. c \in UnderOf(t, p) /\ c \in UnderOf(t, q)
  BY DEF UnderOf
<1>2. p = q
  BY <1>1, OneParent
<1>3. t.inside[p] \in Seq(NodesOf(t)) /\ t.kids[p] \in Seq(NodesOf(t))
  BY TreeNodes
<1>4. PICK i \in DOMAIN t.inside[p] : t.inside[p][i] = c
  BY <1>2, InRange
<1>5. PICK j \in DOMAIN t.kids[p] : t.kids[p][j] = c
  BY InRange
<1>6. t.last[c] < c
  BY <1>4, <1>5, TreeOrder
<1>7. c \in Nat /\ t.last[c] \in Nat /\ c <= t.last[c]
  BY <1>1, UnderIsNode
<1> QED
  BY <1>6, <1>7

LEMMA HiddenUnder ==
  ASSUME NEW t, IsTree(t), NEW p \in NodesOf(t), NEW c \in UnderOf(t, p)
  PROVE  /\ c \in Range(t.kids[p]) => (Hidden(t, c) <=> Hidden(t, p))
         /\ c \in Range(t.inside[p]) => Hidden(t, c)
         /\ Hidden(t, p) => Hidden(t, c)
<1>1. /\ c \in NodesOf(t) /\ c \in Nat /\ p \in Nat /\ t.last[c] \in Nat /\ t.last[p] \in Nat
      /\ p < c /\ c <= t.last[c] /\ t.last[c] <= t.last[p] /\ Below(t, p, c) /\ Below(t, c, c)
  BY UnderIsNode
<1>2. ASSUME Hidden(t, p) PROVE Hidden(t, c)
  <2>1. PICK z \in NodesOf(t) : \E d \in Range(t.inside[z]) : Below(t, d, p)
    BY <1>2 DEF Hidden
  <2>2. PICK d \in Range(t.inside[z]) : Below(t, d, p)
    BY <2>1
  <2>3. d \in UnderOf(t, z)
    BY DEF UnderOf
  <2>4. d \in NodesOf(t) /\ d \in Nat /\ t.last[d] \in Nat
    BY <2>3, UnderIsNode
  <2>5. t.last[p] <= t.last[d] /\ d <= p
    BY <2>2, <2>4, TreeOrder DEF Below
  <2>6. Below(t, d, c)
    BY <2>4, <2>5, <1>1 DEF Below
  <2> QED
    BY <2>6 DEF Hidden
<1>3. ASSUME c \in Range(t.kids[p]), Hidden(t, c) PROVE Hidden(t, p)
  <2>1. PICK z \in NodesOf(t) : \E d \in Range(t.inside[z]) : Below(t, d, c)
    BY <1>3 DEF Hidden
  <2>2. PICK d \in Range(t.inside[z]) : Below(t, d, c)
    BY <2>1
  <2>3. d \in UnderOf(t, z)
    BY DEF UnderOf
  <2>4. d \in NodesOf(t) /\ d \in Nat /\ t.last[d] \in Nat
    BY <2>3, UnderIsNode
  <2>5. d # c
    BY <1>3, KidIsNotInside
  <2>6. d \in Above(t, c)
    BY <2>2, <2>4, <2>5, <1>1 DEF Above, Below
  <2>7. d \in Above(t, p) \/ d = p
    BY <2>6, AboveUnder
  <2>8. Below(t, d, p)
    BY <2>7, <1>1 DEF Above, Below
  <2> QED
    BY <2>8 DEF Hidden
<1>4. ASSUME c \in Range(t.inside[p]) PROVE Hidden(t, c)
  BY <1>4, <1>1 DEF Hidden
<1> QED
  BY <1>2, <1>3, <1>4

\* A greatest element is the maximum.
LEMMA MaxIs ==
  ASSUME NEW s, NEW m \in s, \A x \in s : x \in Nat /\ m >= x
  PROVE  Max(s) = m
<1>1. \A top \in s : (\A x \in s : top >= x) => top = m
  OBVIOUS
<1> QED
  BY <1>1 DEF Max

\* caller_below follows the tree: the caller of what is below a node.
LEMMA CallerUnder ==
  ASSUME NEW t, IsTree(t), NEW p \in NodesOf(t), NEW c \in UnderOf(t, p)
  PROVE  CallerOf(t, c) = IF t.kind[p] = "function" THEN t.name[p] ELSE CallerOf(t, p)
<1> DEFINE below == {y \in Above(t, c) : t.kind[y] = "function"}
           above == {y \in Above(t, p) : t.kind[y] = "function"}
<1>1. Above(t, c) = Above(t, p) \cup {p}
  BY AboveUnder
<1>2. CASE t.kind[p] = "function"
  <2>1. p \in below
    BY <1>1, <1>2
  <2>2. \A y \in below : y \in Nat /\ p >= y
    <3>1. ASSUME NEW y \in Above(t, p) \cup {p} PROVE y \in Nat /\ p >= y
      <4>1. y \in NodesOf(t) /\ (y = p \/ y < p)
        BY DEF Above
      <4> QED
        BY <4>1, TreeNodes
    <3> QED
      BY <3>1, <1>1
  <2>3. Max(below) = p
    <3> HIDE DEF below
    <3> QED
      BY <2>1, <2>2, MaxIs
  <2> QED
    BY <2>1, <2>3, <1>2 DEF CallerOf
<1>3. CASE t.kind[p] # "function"
  <2>1. below = above
    BY <1>1, <1>3
  <2> QED
    BY <2>1, <1>3 DEF CallerOf
<1> QED
  BY <1>2, <1>3

LEMMA CallerInside ==
  ASSUME NEW t, IsTree(t), NEW p \in NodesOf(t), NEW c \in Range(t.inside[p])
  PROVE  CallerOf(t, c) = CallerOf(t, p)
<1>1. t.inside[p] # <<>>
  BY InRange
<1>2. t.kind[p] = "macro"
  BY <1>1, TreeOrder
<1>3. c \in UnderOf(t, p)
  BY DEF UnderOf
<1> QED
  BY <1>2, <1>3, CallerUnder

LEMMA DepthUnder ==
  ASSUME NEW t, IsTree(t), NEW p \in NodesOf(t), NEW c \in UnderOf(t, p)
  PROVE  Depth(t, c) = Depth(t, p) + 1 /\ Depth(t, p) \in Nat
<1>1. Above(t, c) = Above(t, p) \cup {p} /\ p \notin Above(t, p)
  BY AboveUnder
<1>2. IsFiniteSet(Above(t, p))
  <2>1. Above(t, p) \subseteq 1..t.last[1]
    BY TreeNodes DEF Above
  <2>2. IsFiniteSet(1..t.last[1])
    <3>1. t.last[1] \in Int /\ 1 \in Int
      BY TreeNodes
    <3> QED
      BY <3>1, FS_Interval
  <2> QED
    BY <2>1, <2>2, FS_Subset
<1>3. Cardinality(Above(t, p) \cup {p}) = Cardinality(Above(t, p)) + 1
  BY <1>1, <1>2, FS_AddElement
<1>4. Cardinality(Above(t, p)) \in Nat
  BY <1>2, FS_CardinalityType
<1> QED
  BY <1>1, <1>3, <1>4 DEF Depth

LEMMA BelowAnImport ==
  ASSUME NEW t, IsTree(t), NEW p \in NodesOf(t), NEW c \in Range(t.kids[p])
  PROVE  BelowImport(t, c) <=> t.kind[p] = "import"
<1>1. \A q \in NodesOf(t) : c \in Range(t.kids[q]) => q = p
  BY OneParent DEF UnderOf
<1> QED
  BY <1>1 DEF BelowImport

LEMMA TheRoot ==
  ASSUME NEW t, IsTree(t)
  PROVE  /\ 1 \in NodesOf(t) /\ ~Hidden(t, 1) /\ Depth(t, 1) = 0 /\ CallerOf(t, 1) = ""
         /\ ~BelowImport(t, 1)
         /\ \A x \in NodesOf(t) : Below(t, 1, x)
<1>1. \A q \in NodesOf(t) : 1 \notin UnderOf(t, q)
  <2>1. ASSUME NEW q \in NodesOf(t), 1 \in UnderOf(t, q) PROVE FALSE
    <3>1. q < 1 /\ q >= 1 /\ q \in Nat
      BY <2>1, UnderIsNode, TreeNodes
    <3> QED
      BY <3>1
  <2> QED
    BY <2>1
<1>2. ~Hidden(t, 1)
  <2>1. ASSUME NEW z \in NodesOf(t), NEW c \in Range(t.inside[z]), Below(t, c, 1) PROVE FALSE
    <3>1. c \in UnderOf(t, z)
      BY DEF UnderOf
    <3>2. c \in NodesOf(t) /\ c \in Nat /\ c >= 1 /\ c <= 1
      BY <3>1, <2>1, UnderIsNode, TreeNodes DEF Below
    <3>3. c = 1
      BY <3>2
    <3> QED
      BY <3>1, <3>3, <1>1
  <2> QED
    BY <2>1 DEF Hidden
<1>3. Above(t, 1) = {}
  <2>1. \A y \in NodesOf(t) : ~(y < 1)
    BY TreeNodes
  <2> QED
    BY <2>1 DEF Above
<1>4. Depth(t, 1) = 0 /\ CallerOf(t, 1) = ""
  BY <1>3, FS_EmptySet DEF Depth, CallerOf
<1>5. ~BelowImport(t, 1)
  BY <1>1 DEF BelowImport, UnderOf
<1>6. \A x \in NodesOf(t) : Below(t, 1, x)
  BY TreeNodes DEF Below
<1> QED
  BY <1>2, <1>4, <1>5, <1>6, TreeNodes

\* What is below a node: itself, what is below a child or below an argument.
LEMMA BelowSplits ==
  ASSUME NEW t, IsTree(t), NEW p \in NodesOf(t), NEW x \in NodesOf(t), Below(t, p, x)
  PROVE  \/ x = p
         \/ \E c \in Range(t.kids[p]) : Below(t, c, x)
         \/ \E c \in Range(t.inside[p]) : Below(t, c, x)
<1>1. p \in Nat /\ x \in Nat /\ p <= x
  BY TreeNodes DEF Below
<1>2. CASE p < x
  BY <1>2, TreeOrder DEF UnderOf
<1> QED
  BY <1>1, <1>2

LEMMA BelowHides ==
  ASSUME NEW t, IsTree(t), NEW p \in NodesOf(t), NEW x \in NodesOf(t), NEW c \in Range(t.inside[p]),
         Below(t, c, x)
  PROVE  Hidden(t, x)
BY DEF Hidden

-----------------------------------------------------------------------------
(* Evidence: what is pending.                                               *)

LEMMA JoinPoints ==
  ASSUME NEW X, NEW a \in Seq(X), NEW b \in Seq(X)
  PROVE  /\ a \o b \in Seq(X)
         /\ \A i \in DOMAIN a : i \in DOMAIN (a \o b) /\ (a \o b)[i] = a[i]
         /\ \A j \in DOMAIN b : Len(a) + j \in DOMAIN (a \o b) /\ (a \o b)[Len(a) + j] = b[j]
         /\ \A k \in DOMAIN (a \o b) :
              \/ k \in DOMAIN a /\ (a \o b)[k] = a[k]
              \/ k > Len(a) /\ k - Len(a) \in DOMAIN b /\ (a \o b)[k] = b[k - Len(a)]
BY ConcatProperties

LEMMA TailPoints ==
  ASSUME NEW X, NEW s \in Seq(X), s # <<>>
  PROVE  /\ Head(s) \in X /\ 1 \in DOMAIN s /\ Head(s) = s[1] /\ Tail(s) \in Seq(X)
         /\ \A i \in DOMAIN Tail(s) : i \in Nat /\ i >= 1 /\ i + 1 \in DOMAIN s /\ Tail(s)[i] = s[i + 1]
         /\ \A i \in DOMAIN s : i = 1 \/ (i - 1 \in DOMAIN Tail(s) /\ Tail(s)[i - 1] = s[i])
<1>1. Len(s) \in Nat /\ DOMAIN s = 1..Len(s) /\ Len(s) # 0
  BY EmptySeq
<1>2. Tail(s) \in Seq(X) /\ Len(Tail(s)) = Len(s) - 1 /\ DOMAIN Tail(s) = 1..(Len(s) - 1)
  BY HeadTailProperties
<1>3. \A i \in 1..(Len(s) - 1) : Tail(s)[i] = s[i + 1]
  BY HeadTailProperties
<1>4. Head(s) = s[1] /\ Head(s) \in X
  BY HeadTailProperties
<1>5. ASSUME NEW i \in DOMAIN s, i # 1
      PROVE  i - 1 \in DOMAIN Tail(s) /\ Tail(s)[i - 1] = s[i]
  <2>1. i - 1 \in 1..(Len(s) - 1) /\ (i - 1) + 1 = i
    BY <1>1, <1>5
  <2> QED
    BY <2>1, <1>2, <1>3
<1> QED
  BY <1>1, <1>2, <1>3, <1>4, <1>5

PendingsOf(t) == [node : NodesOf(t), depth : Nat, caller : Words(t), level : Nat]

LEMMA EntryNode ==
  ASSUME NEW t, IsTree(t), NEW s \in Seq(PendingsOf(t)), NEW i \in DOMAIN s
  PROVE  /\ s[i] \in PendingsOf(t)
         /\ s[i].node \in NodesOf(t) /\ s[i].node \in Nat /\ t.last[s[i].node] \in Nat
         /\ s[i].node <= t.last[s[i].node]
<1>1. s[i] \in PendingsOf(t)
  OBVIOUS
<1>2. s[i].node \in NodesOf(t)
  BY <1>1 DEF PendingsOf
<1> QED
  BY <1>1, <1>2, TreeNodes

LEMMA OrderJoin ==
  ASSUME NEW t, IsTree(t), NEW a \in Seq(PendingsOf(t)), NEW b \in Seq(PendingsOf(t)),
         EntriesInTurn(t, a), EntriesInTurn(t, b),
         \A i \in DOMAIN a, j \in DOMAIN b : t.last[a[i].node] < b[j].node
  PROVE  EntriesInTurn(t, a \o b)
<1> SUFFICES ASSUME NEW i \in DOMAIN (a \o b), NEW j \in DOMAIN (a \o b), i < j
             PROVE  t.last[(a \o b)[i].node] < (a \o b)[j].node
  BY DEF EntriesInTurn
<1>1. /\ DOMAIN a = 1..Len(a) /\ Len(a) \in Nat /\ DOMAIN b = 1..Len(b) /\ Len(b) \in Nat
      /\ a \o b \in Seq(PendingsOf(t))
  BY SeqDomain, JoinPoints
<1>2. i \in Nat /\ j \in Nat
  BY <1>1, SeqDomain
<1>3. \/ i \in DOMAIN a /\ (a \o b)[i] = a[i]
      \/ i > Len(a) /\ i - Len(a) \in DOMAIN b /\ (a \o b)[i] = b[i - Len(a)]
  BY JoinPoints
<1>4. \/ j \in DOMAIN a /\ (a \o b)[j] = a[j]
      \/ j > Len(a) /\ j - Len(a) \in DOMAIN b /\ (a \o b)[j] = b[j - Len(a)]
  BY JoinPoints
<1>5. CASE i \in DOMAIN a /\ (a \o b)[i] = a[i] /\ j \in DOMAIN a /\ (a \o b)[j] = a[j]
  BY <1>5 DEF EntriesInTurn
<1>6. CASE /\ i \in DOMAIN a /\ (a \o b)[i] = a[i]
           /\ j > Len(a) /\ j - Len(a) \in DOMAIN b /\ (a \o b)[j] = b[j - Len(a)]
  BY <1>6
<1>7. CASE /\ i > Len(a) /\ i - Len(a) \in DOMAIN b /\ (a \o b)[i] = b[i - Len(a)]
           /\ j > Len(a) /\ j - Len(a) \in DOMAIN b /\ (a \o b)[j] = b[j - Len(a)]
  <2>1. i - Len(a) < j - Len(a)
    BY <1>1, <1>2
  <2> QED
    BY <2>1, <1>7 DEF EntriesInTurn
<1>8. ~(i > Len(a) /\ j \in DOMAIN a)
  BY <1>1, <1>2
<1> QED
  BY <1>3, <1>4, <1>5, <1>6, <1>7, <1>8

LEMMA OrderTail ==
  ASSUME NEW t, IsTree(t), NEW s \in Seq(PendingsOf(t)), s # <<>>, EntriesInTurn(t, s)
  PROVE  /\ EntriesInTurn(t, Tail(s))
         /\ \A j \in DOMAIN Tail(s) : t.last[Head(s).node] < Tail(s)[j].node
<1>1. /\ 1 \in DOMAIN s /\ Head(s) = s[1]
      /\ \A i \in DOMAIN Tail(s) : i \in Nat /\ i >= 1 /\ i + 1 \in DOMAIN s /\ Tail(s)[i] = s[i + 1]
  BY TailPoints
<1>2. ASSUME NEW i \in DOMAIN Tail(s), NEW j \in DOMAIN Tail(s), i < j
      PROVE  t.last[Tail(s)[i].node] < Tail(s)[j].node
  <2>1. i + 1 < j + 1 /\ i + 1 \in DOMAIN s /\ j + 1 \in DOMAIN s
    BY <1>1, <1>2
  <2> QED
    BY <2>1, <1>1 DEF EntriesInTurn
<1>3. ASSUME NEW j \in DOMAIN Tail(s) PROVE t.last[Head(s).node] < Tail(s)[j].node
  <2>1. 1 < j + 1 /\ j + 1 \in DOMAIN s
    BY <1>1
  <2> QED
    BY <2>1, <1>1 DEF EntriesInTurn
<1> QED
  BY <1>2, <1>3 DEF EntriesInTurn

LEMMA WaitsJoin ==
  ASSUME NEW t, NEW X, NEW a \in Seq(X), NEW b \in Seq(X), NEW x
  PROVE  WaitsIn(t, a \o b, x) <=> WaitsIn(t, a, x) \/ WaitsIn(t, b, x)
<1>1. ASSUME WaitsIn(t, a, x) PROVE WaitsIn(t, a \o b, x)
  BY <1>1, JoinPoints DEF WaitsIn
<1>2. ASSUME WaitsIn(t, b, x) PROVE WaitsIn(t, a \o b, x)
  <2>1. PICK j \in DOMAIN b : Below(t, b[j].node, x)
    BY <1>2 DEF WaitsIn
  <2>2. Len(a) + j \in DOMAIN (a \o b) /\ (a \o b)[Len(a) + j] = b[j]
    BY JoinPoints
  <2> QED
    BY <2>1, <2>2 DEF WaitsIn
<1>3. ASSUME WaitsIn(t, a \o b, x) PROVE WaitsIn(t, a, x) \/ WaitsIn(t, b, x)
  BY <1>3, JoinPoints DEF WaitsIn
<1> QED
  BY <1>1, <1>2, <1>3

LEMMA WaitsHead ==
  ASSUME NEW t, NEW X, NEW s \in Seq(X), s # <<>>, NEW x
  PROVE  WaitsIn(t, s, x) <=> Below(t, Head(s).node, x) \/ WaitsIn(t, Tail(s), x)
<1>1. ASSUME WaitsIn(t, s, x) PROVE Below(t, Head(s).node, x) \/ WaitsIn(t, Tail(s), x)
  BY <1>1, TailPoints DEF WaitsIn
<1>2. ASSUME WaitsIn(t, Tail(s), x) PROVE WaitsIn(t, s, x)
  BY <1>2, TailPoints DEF WaitsIn
<1>3. ASSUME Below(t, Head(s).node, x) PROVE WaitsIn(t, s, x)
  BY <1>3, TailPoints DEF WaitsIn
<1> QED
  BY <1>1, <1>2, <1>3

LEMMA NoneWaits ==
  ASSUME NEW t, NEW x
  PROVE  ~WaitsIn(t, <<>>, x) /\ EntriesInTurn(t, <<>>)
BY DEF WaitsIn, EntriesInTurn

\* Nodes put in front of what is pending.
Pushed(nodes, depth, caller, level) ==
  [k \in DOMAIN nodes |-> Pending(nodes[k], depth, caller, level)]

LEMMA PushedIs ==
  ASSUME NEW t, IsTree(t), NEW nodes \in Seq(NodesOf(t)), NEW depth \in Nat,
         NEW caller \in Words(t), NEW level \in Nat, InTurn(t, nodes)
  PROVE  LET new == Pushed(nodes, depth, caller, level) IN
         /\ new \in Seq(PendingsOf(t)) /\ DOMAIN new = DOMAIN nodes
         /\ \A k \in DOMAIN new : /\ new[k].node = nodes[k] /\ new[k].node \in Range(nodes)
                                  /\ new[k].depth = depth /\ new[k].caller = caller
         /\ EntriesInTurn(t, new)
         /\ \A x : WaitsIn(t, new, x) <=> \E c \in Range(nodes) : Below(t, c, x)
<1> DEFINE new == Pushed(nodes, depth, caller, level)
<1>1. DOMAIN new = DOMAIN nodes
  BY DEF Pushed
<1>2. ASSUME NEW k \in DOMAIN nodes
      PROVE  /\ new[k] = [node |-> nodes[k], depth |-> depth, caller |-> caller, level |-> level]
             /\ new[k] \in PendingsOf(t)
             /\ new[k].node = nodes[k] /\ new[k].node \in Range(nodes)
             /\ new[k].depth = depth /\ new[k].caller = caller
  <2>1. new[k] = [node |-> nodes[k], depth |-> depth, caller |-> caller, level |-> level]
    BY DEF Pushed, Pending
  <2>2. nodes[k] \in NodesOf(t)
    OBVIOUS
  <2>3. nodes[k] \in Range(nodes)
    BY InRange
  <2> QED
    BY <2>1, <2>2, <2>3 DEF PendingsOf
<1>3. new \in Seq(PendingsOf(t))
  <2>1. DOMAIN nodes = 1..Len(nodes) /\ Len(nodes) \in Nat
    BY SeqDomain
  <2>2. new = [k \in 1..Len(nodes) |-> new[k]]
    BY <2>1 DEF Pushed
  <2>3. \A k \in 1..Len(nodes) : new[k] \in PendingsOf(t)
    BY <2>1, <1>2
  <2> HIDE DEF new
  <2> QED
    BY <2>1, <2>2, <2>3, IsASeq
<1>4. EntriesInTurn(t, new)
  BY <1>1, <1>2 DEF EntriesInTurn, InTurn
<1>5. \A x : WaitsIn(t, new, x) <=> \E c \in Range(nodes) : Below(t, c, x)
  <2>1. \A x : WaitsIn(t, new, x) <=> \E k \in DOMAIN nodes : Below(t, nodes[k], x)
    BY <1>1, <1>2 DEF WaitsIn
  <2> QED
    BY <2>1, InRange
<1> QED
  BY <1>1, <1>2, <1>3, <1>4, <1>5

\* A visit puts what is below the node in the place of the node.
LEMMA Replaced ==
  ASSUME NEW t, IsTree(t), NEW s \in Seq(PendingsOf(t)), s # <<>>, EntriesInTurn(t, s),
         NEW new \in Seq(PendingsOf(t)), EntriesInTurn(t, new),
         \A k \in DOMAIN new : new[k].node \in UnderOf(t, Head(s).node)
  PROVE  /\ new \o Tail(s) \in Seq(PendingsOf(t)) /\ EntriesInTurn(t, new \o Tail(s))
         /\ \A i \in DOMAIN (new \o Tail(s)) :
              /\ Head(s).node < (new \o Tail(s))[i].node
              /\ \/ \E k \in DOMAIN new : (new \o Tail(s))[i] = new[k]
                 \/ \E k \in DOMAIN s : (new \o Tail(s))[i] = s[k]
<1> DEFINE p == Head(s).node
<1>1. /\ Head(s) \in PendingsOf(t) /\ Tail(s) \in Seq(PendingsOf(t))
      /\ \A i \in DOMAIN Tail(s) : i + 1 \in DOMAIN s /\ Tail(s)[i] = s[i + 1]
  BY TailPoints
<1>2. p \in NodesOf(t) /\ p \in Nat /\ t.last[p] \in Nat /\ p <= t.last[p]
  BY <1>1, TreeNodes DEF PendingsOf
<1>3. EntriesInTurn(t, Tail(s)) /\ \A j \in DOMAIN Tail(s) : t.last[p] < Tail(s)[j].node
  BY OrderTail
<1>4. ASSUME NEW k \in DOMAIN new
      PROVE  /\ p < new[k].node /\ t.last[new[k].node] <= t.last[p]
             /\ t.last[new[k].node] \in Nat /\ new[k].node \in Nat
  BY <1>2, UnderIsNode
<1>5. \A j \in DOMAIN Tail(s) : Tail(s)[j].node \in Nat
  BY <1>1, EntryNode
<1> HIDE DEF p
<1>6. \A k \in DOMAIN new, j \in DOMAIN Tail(s) : t.last[new[k].node] < Tail(s)[j].node
  BY <1>2, <1>3, <1>4, <1>5
<1>7. new \o Tail(s) \in Seq(PendingsOf(t)) /\ EntriesInTurn(t, new \o Tail(s))
  BY <1>1, <1>3, <1>6, OrderJoin, JoinPoints
<1>8. ASSUME NEW i \in DOMAIN (new \o Tail(s))
      PROVE  /\ p < (new \o Tail(s))[i].node
             /\ \/ \E k \in DOMAIN new : (new \o Tail(s))[i] = new[k]
                \/ \E k \in DOMAIN s : (new \o Tail(s))[i] = s[k]
  <2>1. \/ i \in DOMAIN new /\ (new \o Tail(s))[i] = new[i]
        \/ i - Len(new) \in DOMAIN Tail(s) /\ (new \o Tail(s))[i] = Tail(s)[i - Len(new)]
    BY <1>1, JoinPoints
  <2>2. CASE i \in DOMAIN new /\ (new \o Tail(s))[i] = new[i]
    BY <2>2, <1>4
  <2>3. CASE i - Len(new) \in DOMAIN Tail(s) /\ (new \o Tail(s))[i] = Tail(s)[i - Len(new)]
    <3>1. PICK j \in DOMAIN Tail(s) : (new \o Tail(s))[i] = Tail(s)[j]
      BY <2>3
    <3>2. t.last[p] < Tail(s)[j].node /\ Tail(s)[j].node \in Nat
      BY <1>3, <1>5
    <3>3. p < Tail(s)[j].node
      BY <3>2, <1>2
    <3>4. \E k \in DOMAIN s : Tail(s)[j] = s[k]
      BY <1>1
    <3> QED
      BY <3>1, <3>3, <3>4
  <2> QED
    BY <2>1, <2>2, <2>3
<1> QED
  BY <1>7, <1>8 DEF p

-----------------------------------------------------------------------------
(* Evidence: what is given.                                                 *)

ItemsOf(t) ==
  [kind : {"Symbol", "Import", "Call"}, key : {"binding", "generic_import", "call"} \X Nat,
   node : NodesOf(t), at : Range(t.at), name : Words(t), caller : Words(t)]
CountersType == [walkers : Nat, calls : Nat]

KeyKind(kind) ==
  CASE kind = "Symbol" -> "binding" [] kind = "Import" -> "generic_import" [] OTHER -> "call"
CounterOf(c, kind) == IF kind = "Call" THEN c.calls ELSE c.walkers
Keyed(its, c) ==
  \A k \in DOMAIN its : /\ its[k].key[1] = KeyKind(its[k].kind)
                        /\ its[k].key[2] < CounterOf(c, its[k].kind)
\* What EvidenceIsExact says of the items there are.
Facts(t, its) == \A k \in DOMAIN its : IsFact(t, its[k])
OneCall(t, its) ==
  \A j, k \in DOMAIN its : j # k =>
    /\ its[j].key # its[k].key
    /\ its[j].kind = its[k].kind =>
         /\ its[j].node # its[k].node
         /\ t.language = "rust" /\ its[j].kind = "Call" => its[j].at # its[k].at
ItemsRight(t, its, c) ==
  its \in Seq(ItemsOf(t)) /\ c \in CountersType /\ Keyed(its, c) /\ Facts(t, its) /\ OneCall(t, its)

LEMMA AppendPoints ==
  ASSUME NEW X, NEW s \in Seq(X), NEW e \in X
  PROVE  /\ Append(s, e) \in Seq(X) /\ s \o <<e>> = Append(s, e)
         /\ \A i \in DOMAIN s : i \in DOMAIN Append(s, e) /\ Append(s, e)[i] = s[i]
         /\ \A k \in DOMAIN Append(s, e) :
              \/ k \in DOMAIN s /\ Append(s, e)[k] = s[k]
              \/ k = Len(s) + 1 /\ Append(s, e)[k] = e
         /\ Len(s) + 1 \in DOMAIN Append(s, e) /\ Append(s, e)[Len(s) + 1] = e
BY AppendProperties, AppendIsConcat

\* One more item: a fact, of a node behind those of its kind.
LEMMA GiveOne ==
  ASSUME NEW t, IsTree(t), NEW its, NEW c, NEW d \in CountersType, NEW item \in ItemsOf(t),
         ItemsRight(t, its, c), IsFact(t, item),
         item.key = <<KeyKind(item.kind), CounterOf(c, item.kind)>>,
         CounterOf(d, item.kind) = CounterOf(c, item.kind) + 1,
         \A kind \in {"Symbol", "Import", "Call"} : CounterOf(c, kind) <= CounterOf(d, kind),
         \A k \in DOMAIN its : its[k].kind = item.kind => its[k].node < item.node,
         t.language = "rust" /\ item.kind = "Call" =>
           \A k \in DOMAIN its : its[k].kind = "Call" => its[k].at # item.at
  PROVE  ItemsRight(t, Append(its, item), d)
<1> DEFINE more == Append(its, item)
<1>1. its \in Seq(ItemsOf(t)) /\ c \in CountersType /\ Keyed(its, c) /\ Facts(t, its) /\ OneCall(t, its)
  BY DEF ItemsRight
<1>2. /\ more \in Seq(ItemsOf(t))
      /\ \A k \in DOMAIN more : \/ k \in DOMAIN its /\ more[k] = its[k]
                                \/ k = Len(its) + 1 /\ more[k] = item
  BY <1>1, AppendPoints
<1> HIDE DEF more
<1>3. \A kind : CounterOf(c, kind) \in Nat /\ CounterOf(d, kind) \in Nat
  BY <1>1 DEF CounterOf, CountersType
<1>4. ASSUME NEW k \in DOMAIN its
      PROVE  /\ its[k] \in ItemsOf(t) /\ its[k].kind \in {"Symbol", "Import", "Call"}
             /\ its[k].key[2] \in Nat /\ its[k].node \in Nat
             /\ its[k].key[1] = KeyKind(its[k].kind)
             /\ its[k].key[2] < CounterOf(c, its[k].kind)
  <2>1. its[k] \in ItemsOf(t)
    BY <1>1
  <2>2. its[k].key \in {"binding", "generic_import", "call"} \X Nat /\ its[k].node \in NodesOf(t)
        /\ its[k].kind \in {"Symbol", "Import", "Call"}
    BY <2>1 DEF ItemsOf
  <2> QED
    BY <2>1, <2>2, <1>1, TreeNodes DEF Keyed
<1>5. item.kind \in {"Symbol", "Import", "Call"} /\ item.node \in Nat
  BY TreeNodes DEF ItemsOf
<1>6. item.key[1] = KeyKind(item.kind) /\ item.key[2] = CounterOf(c, item.kind)
  OBVIOUS
<1>7. Keyed(more, d)
  <2> SUFFICES ASSUME NEW k \in DOMAIN more
               PROVE  /\ more[k].key[1] = KeyKind(more[k].kind)
                      /\ more[k].key[2] < CounterOf(d, more[k].kind)
    BY DEF Keyed
  <2>1. CASE k \in DOMAIN its /\ more[k] = its[k]
    <3>1. CounterOf(c, its[k].kind) <= CounterOf(d, its[k].kind)
      BY <2>1, <1>4
    <3> QED
      BY <2>1, <3>1, <1>3, <1>4
  <2>2. CASE more[k] = item
    BY <2>2, <1>3, <1>5, <1>6
  <2> QED
    BY <2>1, <2>2, <1>2
<1>8. Facts(t, more)
  BY <1>1, <1>2 DEF Facts
<1>9. ASSUME NEW k \in DOMAIN its
      PROVE  /\ its[k].key # item.key
             /\ its[k].kind = item.kind =>
                  /\ its[k].node # item.node
                  /\ t.language = "rust" /\ item.kind = "Call" => its[k].at # item.at
  <2>1. its[k].key # item.key
    <3>1. CASE its[k].kind = item.kind
      <4>1. its[k].key[2] < item.key[2] /\ its[k].key[2] \in Nat
        BY <3>1, <1>4, <1>6
      <4>2. item.key[2] \in Nat
        BY <1>3, <1>6
      <4> QED
        BY <4>1, <4>2
    <3>2. CASE its[k].kind # item.kind
      <4>1. KeyKind(its[k].kind) # KeyKind(item.kind)
        BY <3>2, <1>4, <1>5 DEF KeyKind
      <4> QED
        BY <4>1, <1>4, <1>6
    <3> QED
      BY <3>1, <3>2
  <2>2. its[k].kind = item.kind => its[k].node # item.node
    BY <1>4, <1>5
  <2> QED
    BY <2>1, <2>2
<1>10. OneCall(t, more)
  <2> SUFFICES ASSUME NEW j \in DOMAIN more, NEW k \in DOMAIN more, j # k
               PROVE  /\ more[j].key # more[k].key
                      /\ more[j].kind = more[k].kind =>
                           /\ more[j].node # more[k].node
                           /\ t.language = "rust" /\ more[j].kind = "Call" => more[j].at # more[k].at
    BY DEF OneCall
  <2>1. CASE j \in DOMAIN its /\ more[j] = its[j] /\ k \in DOMAIN its /\ more[k] = its[k]
    BY <2>1, <1>1 DEF OneCall
  <2>2. CASE j \in DOMAIN its /\ more[j] = its[j] /\ more[k] = item
    BY <2>2, <1>9
  <2>3. CASE more[j] = item /\ k \in DOMAIN its /\ more[k] = its[k]
    BY <2>3, <1>9
  <2> QED
    BY <2>1, <2>2, <2>3, <1>2
<1> QED
  BY <1>2, <1>7, <1>8, <1>10 DEF ItemsRight, more

LEMMA CountersGrow ==
  ASSUME NEW t, IsTree(t), NEW its, NEW c, NEW d \in CountersType, ItemsRight(t, its, c),
         \A kind \in {"Symbol", "Import", "Call"} : CounterOf(c, kind) <= CounterOf(d, kind)
  PROVE  ItemsRight(t, its, d)
<1>1. its \in Seq(ItemsOf(t)) /\ c \in CountersType /\ Keyed(its, c) /\ Facts(t, its) /\ OneCall(t, its)
  BY DEF ItemsRight
<1>2. ASSUME NEW k \in DOMAIN its PROVE its[k].key[2] < CounterOf(d, its[k].kind)
  <2>1. its[k] \in ItemsOf(t)
    BY <1>1
  <2>2. its[k].key[2] \in Nat /\ its[k].kind \in {"Symbol", "Import", "Call"}
    BY <2>1 DEF ItemsOf
  <2>3. its[k].key[2] < CounterOf(c, its[k].kind)
    BY <1>1 DEF Keyed
  <2>4. CounterOf(c, its[k].kind) \in Nat /\ CounterOf(d, its[k].kind) \in Nat
    BY <1>1 DEF CounterOf, CountersType
  <2>5. CounterOf(c, its[k].kind) <= CounterOf(d, its[k].kind)
    BY <2>2
  <2> QED
    BY <2>2, <2>3, <2>4, <2>5
<1>3. Keyed(its, d)
  BY <1>1, <1>2 DEF Keyed
<1> QED
  BY <1>1, <1>3 DEF ItemsRight

-----------------------------------------------------------------------------
(* Evidence: the inductive invariant, by its parts.                         *)

TrueOf(t, w, e) ==
  /\ ~Hidden(t, e.node) /\ e.depth = Depth(t, e.node)
  /\ w = "imports" => (Suppressed(e) <=> BelowImport(t, e.node))
  /\ w = "calls" => e.caller = CallerOf(t, e.node)
StackRight(t, w, s) ==
  /\ s \in Seq(PendingsOf(t)) /\ EntriesInTurn(t, s)
  /\ \A i \in DOMAIN s : TrueOf(t, w, s[i])
  /\ s # <<>> => w \in {"bindings", "imports", "calls"}
RecoveryRight(t, w, r) ==
  /\ r \in Seq(PendingsOf(t)) /\ EntriesInTurn(t, r)
  /\ \A i \in DOMAIN r : Hidden(t, r[i].node) /\ r[i].caller = CallerOf(t, r[i].node)
  /\ r # <<>> => w = "calls" /\ t.language = "rust"
Before(t, r, s) == \A i \in DOMAIN r, j \in DOMAIN s : t.last[r[i].node] < s[j].node

KindsGiven(w, its) ==
  \A k \in DOMAIN its :
    \/ its[k].kind = "Symbol" /\ w # "parse"
    \/ its[k].kind = "Import" /\ w \in {"imports", "calls", "done"}
    \/ its[k].kind = "Call" /\ w \in {"calls", "done"}
Behind(w, its, s, r) ==
  \A k \in DOMAIN its :
    w \in DOMAIN Makes /\ its[k].kind = Makes[w] =>
      /\ \A i \in DOMAIN s : its[k].node < s[i].node
      /\ \A i \in DOMAIN r : its[k].node < r[i].node

Extracting ==
  /\ parsed \in Trees /\ walk \in {"parse", "bindings", "imports", "calls", "done"}
  /\ spent \in BOOLEAN /\ truncated \in BOOLEAN /\ timed_out \in BOOLEAN
  /\ walk = "imports" => ~parsed.packImports
  /\ walk = "calls" => parsed.language # "other"
  /\ StackRight(parsed, walk, stack) /\ RecoveryRight(parsed, walk, recovery)
  /\ Before(parsed, recovery, stack)
  /\ ItemsRight(parsed, items, counters)
  /\ KindsGiven(walk, items) /\ Behind(walk, items, stack, recovery)
  /\ NothingLost

LEMMA AllPassed ==
  ASSUME Extracting, walk = "done"
  PROVE  ~truncated /\ ~timed_out =>
           \A x \in Nodes : /\ HasSymbol(parsed, x) => GivenAs("Symbol", x)
                            /\ HasImport(parsed, x) => GivenAs("Import", x)
                            /\ HasCall(parsed, x) => GivenCall(x)
<1>1. \A x : Passed("bindings", x) /\ Passed("imports", x) /\ Passed("calls", x)
  BY DEF Passed, Later
<1> QED
  BY <1>1 DEF Extracting, NothingLost

LEMMA ExtractingIsInv == Extracting => EvidenceInv
<1> SUFFICES ASSUME Extracting PROVE EvidenceInv
  OBVIOUS
<1>1. EvidenceTypeOK
  <2>1. Pendings = PendingsOf(parsed)
    BY DEF Pendings, PendingsOf, Nodes
  <2>2. ItemsOf(parsed) =
          [kind : {"Symbol", "Import", "Call"}, key : {"binding", "generic_import", "call"} \X Nat,
           node : Nodes, at : Range(parsed.at), name : Words(parsed), caller : Words(parsed)]
    BY DEF ItemsOf, Nodes
  <2>3. CountersType = [walkers : Nat, calls : Nat]
    BY DEF CountersType
  <2>4. /\ stack \in Seq(PendingsOf(parsed)) /\ recovery \in Seq(PendingsOf(parsed))
        /\ items \in Seq(ItemsOf(parsed)) /\ counters \in CountersType
    BY DEF Extracting, StackRight, RecoveryRight, ItemsRight
  <2> QED
    BY <2>1, <2>2, <2>3, <2>4 DEF Extracting, EvidenceTypeOK
<1>2. PendingInTurn
  BY DEF Extracting, StackRight, RecoveryRight, Before, PendingInTurn
<1>3. PendingIsTrue
  BY DEF Extracting, StackRight, RecoveryRight, TrueOf, PendingIsTrue
<1>4. GivenIsPast
  BY DEF Extracting, ItemsRight, Keyed, KeyKind, CounterOf, KindsGiven, Behind, GivenIsPast
<1>5. NothingLost
  BY DEF Extracting
<1>6. EvidenceIsExact
  <2>1. Facts(parsed, items) /\ OneCall(parsed, items)
    BY DEF Extracting, ItemsRight
  <2> QED
    BY <2>1, AllPassed DEF Facts, OneCall, EvidenceIsExact
<1> QED
  BY <1>1, <1>2, <1>3, <1>4, <1>5, <1>6 DEF EvidenceInv

LEMMA ExtractingFacts ==
  ASSUME Extracting
  PROVE  /\ parsed \in Trees /\ IsTree(parsed) /\ Nodes = NodesOf(parsed)
         /\ parsed.packImports \in BOOLEAN /\ parsed.language \in {"rust", "queried", "other"}
         /\ MaxWalkDepth \in Nat /\ MaxMacroDepth \in Nat /\ ProbeDepth \in Nat
         /\ stack \in Seq(PendingsOf(parsed)) /\ recovery \in Seq(PendingsOf(parsed))
         /\ items \in Seq(ItemsOf(parsed)) /\ counters \in CountersType
BY EvidenceAssumption DEF Extracting, StackRight, RecoveryRight, ItemsRight, Nodes

-----------------------------------------------------------------------------
(* Evidence: what a step keeps.                                             *)

ItemsKept == \A k \in DOMAIN items : k \in DOMAIN items' /\ items'[k] = items[k]

LEMMA GivenKept ==
  ASSUME parsed' = parsed, ItemsKept, NEW x
  PROVE  /\ \A kind : GivenAs(kind, x) => GivenAs(kind, x)'
         /\ GivenCall(x) => GivenCall(x)'
<1>1. \A kind : GivenAs(kind, x) => GivenAs(kind, x)'
  BY DEF ItemsKept, GivenAs
<1>2. GivenCall(x) => GivenCall(x)'
  BY DEF ItemsKept, GivenCall
<1> QED
  BY <1>1, <1>2

\* What a walk has to give of a node.
FoundBy(w, x) ==
  /\ w = "bindings" => /\ Hidden(parsed, x) \/ Depth(parsed, x) < MaxWalkDepth
                       /\ HasSymbol(parsed, x) => GivenAs("Symbol", x)
  /\ w = "imports" => (HasImport(parsed, x) => GivenAs("Import", x))
  /\ w = "calls" => (HasCall(parsed, x) => GivenCall(x))
Walks == {"bindings", "imports", "calls"}
Whole == ~truncated /\ ~timed_out

LosesNone == Whole => \A x \in Nodes, w \in Walks : Passed(w, x) => FoundBy(w, x)

LEMMA LostIs == NothingLost <=> LosesNone
<1>1. ASSUME NEW x \in Nodes
      PROVE  (\A w \in Walks : Passed(w, x) => FoundBy(w, x)) <=>
             /\ Passed("bindings", x) => /\ Hidden(parsed, x) \/ Depth(parsed, x) < MaxWalkDepth
                                         /\ HasSymbol(parsed, x) => GivenAs("Symbol", x)
             /\ Passed("imports", x) /\ HasImport(parsed, x) => GivenAs("Import", x)
             /\ Passed("calls", x) /\ HasCall(parsed, x) => GivenCall(x)
  BY DEF Walks, FoundBy
<1> QED
  BY <1>1 DEF NothingLost, LosesNone, Whole

LEMMA FoundKept ==
  ASSUME parsed' = parsed, ItemsKept, NEW x, NEW w, FoundBy(w, x)
  PROVE  FoundBy(w, x)'
<1>1. /\ \A kind : GivenAs(kind, x) => GivenAs(kind, x)'
      /\ GivenCall(x) => GivenCall(x)'
  BY GivenKept
<1> QED
  BY <1>1 DEF FoundBy

\* A step of a walk loses nothing if it gives what it passes.
LEMMA WalkLosesNothing ==
  ASSUME Extracting, parsed' = parsed, walk' = walk, ItemsKept, Whole' => Whole,
         Whole' => \A x \in Nodes : Waiting(x) /\ ~Waiting(x)' => FoundBy(walk, x)'
  PROVE  NothingLost'
<1>a. (NothingLost <=> LosesNone)'
  BY LostIs, PTL
<1> SUFFICES ASSUME Whole', NEW x \in Nodes, NEW w \in Walks, Passed(w, x)'
             PROVE  FoundBy(w, x)'
  BY <1>a DEF LosesNone, Nodes
<1>1. Whole
  OBVIOUS
<1>2. NothingLost
  BY DEF Extracting
<1>3. CASE Passed(w, x)
  <2>1. FoundBy(w, x)
    BY <1>1, <1>2, <1>3, LostIs DEF LosesNone
  <2> QED
    BY <2>1, FoundKept
<1>4. CASE ~Passed(w, x)
  <2>1. walk = w /\ Waiting(x) /\ ~Waiting(x)'
    BY <1>4 DEF Passed
  <2> QED
    BY <2>1
<1> QED
  BY <1>3, <1>4

AllAfter(p, s) == \A i \in DOMAIN s : p < s[i].node
HasNode(p, s) == \E i \in DOMAIN s : s[i].node = p
OnlyOf(p, its, more) ==
  \A k \in DOMAIN more : (k \in DOMAIN its /\ more[k] = its[k]) \/ more[k].node = p

\* What was given is behind what is pending.
LEMMA BehindAfter ==
  ASSUME NEW t, IsTree(t), NEW w, NEW its \in Seq(ItemsOf(t)), NEW more \in Seq(ItemsOf(t)),
         NEW s \in Seq(PendingsOf(t)), NEW r \in Seq(PendingsOf(t)),
         NEW u \in Seq(PendingsOf(t)), NEW v \in Seq(PendingsOf(t)), NEW p \in Nat,
         Behind(w, its, s, r),
         HasNode(p, s) \/ HasNode(p, r), AllAfter(p, u), AllAfter(p, v), OnlyOf(p, its, more)
  PROVE  Behind(w, more, u, v)
<1> SUFFICES ASSUME NEW k \in DOMAIN more, w \in DOMAIN Makes, more[k].kind = Makes[w]
             PROVE  /\ \A i \in DOMAIN u : more[k].node < u[i].node
                    /\ \A i \in DOMAIN v : more[k].node < v[i].node
  BY DEF Behind
<1>1. more[k].node \in Nat /\ more[k].node <= p
  <2>1. more[k] \in ItemsOf(t)
    OBVIOUS
  <2>2. more[k].node \in Nat
    BY <2>1, TreeNodes DEF ItemsOf
  <2>3. CASE k \in DOMAIN its /\ more[k] = its[k]
    <3>1. more[k].node < p
      BY <2>3 DEF Behind, HasNode
    <3> QED
      BY <3>1, <2>2
  <2> QED
    BY <2>2, <2>3 DEF OnlyOf
<1>2. (\A i \in DOMAIN u : u[i].node \in Nat) /\ \A i \in DOMAIN v : v[i].node \in Nat
  BY EntryNode
<1> QED
  BY <1>1, <1>2 DEF AllAfter

\* A step gives nothing, or one item of node p.
GivesOf(p) ==
  \/ items' = items
  \/ \E item \in ItemsOf(parsed) :
       items' = Append(items, item) /\ item.node = p /\ item.kind = Makes[walk]
\* What is left of p is pending, and what is not has been found.
LeavesOf(p, new, args) ==
  /\ FoundBy(walk, p)'
  /\ \A x \in Nodes :
       /\ \A c \in Range(parsed.kids[p]) : Below(parsed, c, x) => WaitsIn(parsed, new, x) \/ FoundBy(walk, x)'
       /\ \A c \in Range(parsed.inside[p]) : Below(parsed, c, x) => WaitsIn(parsed, args, x) \/ FoundBy(walk, x)'
KeepsFile ==
  /\ parsed' = parsed /\ walk' = walk
  /\ spent' \in BOOLEAN /\ truncated' \in BOOLEAN /\ timed_out' \in BOOLEAN
  /\ Whole' => Whole

LEMMA GivesPoints ==
  ASSUME Extracting, NEW p, GivesOf(p)
  PROVE  /\ ItemsKept
         /\ \A k \in DOMAIN items' : \/ k \in DOMAIN items /\ items'[k] = items[k]
                                     \/ items'[k].node = p /\ items'[k].kind = Makes[walk]
<1>1. items \in Seq(ItemsOf(parsed))
  BY ExtractingFacts
<1>2. CASE items' = items
  BY <1>2 DEF ItemsKept
<1>3. CASE \E item \in ItemsOf(parsed) :
             items' = Append(items, item) /\ item.node = p /\ item.kind = Makes[walk]
  <2>1. PICK item \in ItemsOf(parsed) :
             items' = Append(items, item) /\ item.node = p /\ item.kind = Makes[walk]
    BY <1>3
  <2>2. /\ \A i \in DOMAIN items : i \in DOMAIN Append(items, item) /\ Append(items, item)[i] = items[i]
        /\ \A k \in DOMAIN Append(items, item) :
             \/ k \in DOMAIN items /\ Append(items, item)[k] = items[k]
             \/ k = Len(items) + 1 /\ Append(items, item)[k] = item
    BY <1>1, AppendPoints
  <2> QED
    BY <2>1, <2>2 DEF ItemsKept
<1> QED
  BY <1>2, <1>3 DEF GivesOf

LEMMA KindsKept ==
  ASSUME Extracting, NEW p, GivesOf(p), walk \in Walks
  PROVE  KindsGiven(walk, items')
<1>1. \A k \in DOMAIN items' : \/ k \in DOMAIN items /\ items'[k] = items[k]
                               \/ items'[k].node = p /\ items'[k].kind = Makes[walk]
  BY GivesPoints
<1>2. KindsGiven(walk, items)
  BY DEF Extracting
<1> QED
  BY <1>1, <1>2 DEF KindsGiven, Walks, Makes

LEMMA StackVisit ==
  ASSUME Extracting, stack # <<>>, recovery = <<>>, NEW p, p = Head(stack).node,
         NEW new \in Seq(PendingsOf(parsed)), EntriesInTurn(parsed, new),
         \A k \in DOMAIN new : new[k].node \in Range(parsed.kids[p]) /\ TrueOf(parsed, walk, new[k]),
         NEW args, RecoveryRight(parsed, walk, args),
         \A k \in DOMAIN args : args[k].node \in Range(parsed.inside[p]),
         KeepsFile, stack' = new \o Tail(stack), recovery' = args,
         GivesOf(p), ItemsRight(parsed, items', counters'),
         Whole' => LeavesOf(p, new, args)
  PROVE  Extracting'
<1> DEFINE rest == new \o Tail(stack)
<1>1. /\ parsed \in Trees /\ IsTree(parsed) /\ Nodes = NodesOf(parsed)
      /\ stack \in Seq(PendingsOf(parsed)) /\ items \in Seq(ItemsOf(parsed))
  BY ExtractingFacts
<1>2. StackRight(parsed, walk, stack) /\ walk \in Walks
  BY DEF Extracting, StackRight, Walks
<1>3. /\ 1 \in DOMAIN stack /\ Head(stack) = stack[1] /\ Head(stack) \in PendingsOf(parsed)
      /\ Tail(stack) \in Seq(PendingsOf(parsed))
      /\ \A i \in DOMAIN Tail(stack) : i + 1 \in DOMAIN stack /\ Tail(stack)[i] = stack[i + 1]
  BY <1>1, TailPoints
<1>4. p \in Nodes /\ p \in Nat /\ parsed.last[p] \in Nat
  BY <1>1, <1>3, TreeNodes DEF PendingsOf
<1>5. args \in Seq(PendingsOf(parsed)) /\ EntriesInTurn(parsed, args)
  BY DEF RecoveryRight
<1>6. /\ \A k \in DOMAIN new : new[k].node \in UnderOf(parsed, p)
      /\ \A k \in DOMAIN args : args[k].node \in UnderOf(parsed, p)
  BY DEF UnderOf
<1>7. /\ rest \in Seq(PendingsOf(parsed)) /\ EntriesInTurn(parsed, rest)
      /\ \A i \in DOMAIN rest : /\ p < rest[i].node
                                /\ \/ \E k \in DOMAIN new : rest[i] = new[k]
                                   \/ \E k \in DOMAIN stack : rest[i] = stack[k]
  BY <1>1, <1>2, <1>6, Replaced DEF StackRight
<1> HIDE DEF rest
<1>8. StackRight(parsed, walk, rest)
  <2>1. \A i \in DOMAIN rest : TrueOf(parsed, walk, rest[i])
    BY <1>2, <1>7 DEF StackRight
  <2> QED
    BY <1>2, <1>7, <2>1 DEF StackRight, Walks
<1>9. Before(parsed, args, rest)
  <2> SUFFICES ASSUME NEW i \in DOMAIN args, NEW j \in DOMAIN rest
               PROVE  parsed.last[args[i].node] < rest[j].node
    BY DEF Before
  <2>1. /\ args[i].node \in Nat /\ parsed.last[args[i].node] \in Nat
        /\ parsed.last[args[i].node] <= parsed.last[p]
    BY <1>1, <1>4, <1>6, UnderIsNode
  <2>2. rest[j].node \in Nat
    BY <1>1, <1>7, EntryNode
  <2>3. \/ \E k \in DOMAIN new : rest[j] = new[k]
        \/ \E k \in DOMAIN Tail(stack) : rest[j] = Tail(stack)[k]
    <3>1. \/ j \in DOMAIN new /\ (new \o Tail(stack))[j] = new[j]
          \/ j > Len(new) /\ j - Len(new) \in DOMAIN Tail(stack)
             /\ (new \o Tail(stack))[j] = Tail(stack)[j - Len(new)]
      BY <1>3, JoinPoints DEF rest
    <3> QED
      BY <3>1 DEF rest
  <2>4. CASE \E k \in DOMAIN new : rest[j] = new[k]
    <3>1. PICK m \in DOMAIN parsed.inside[p] : parsed.inside[p][m] = args[i].node
      BY InRange
    <3>2. PICK k \in DOMAIN new : rest[j] = new[k]
      BY <2>4
    <3>3. PICK n \in DOMAIN parsed.kids[p] : parsed.kids[p][n] = rest[j].node
      BY <3>2, InRange
    <3> QED
      BY <1>1, <1>4, <3>1, <3>3, TreeOrder
  <2>5. CASE \E k \in DOMAIN Tail(stack) : rest[j] = Tail(stack)[k]
    <3>1. parsed.last[p] < rest[j].node
      BY <2>5, <1>1, <1>2, OrderTail DEF StackRight
    <3> QED
      BY <3>1, <2>1, <2>2, <1>4
  <2> QED
    BY <2>3, <2>4, <2>5
<1>10. Behind(walk, items', rest, args)
  <2>1. Behind(walk, items, stack, recovery)
    BY DEF Extracting
  <2>2. items' \in Seq(ItemsOf(parsed))
    BY DEF ItemsRight
  <2>3. OnlyOf(p, items, items')
    BY GivesPoints DEF OnlyOf
  <2>4. AllAfter(p, args)
    BY <1>1, <1>4, <1>6, UnderIsNode DEF AllAfter
  <2>5. AllAfter(p, rest)
    BY <1>7 DEF AllAfter
  <2>6. recovery \in Seq(PendingsOf(parsed))
    BY ExtractingFacts
  <2>7. HasNode(p, stack)
    BY <1>3 DEF HasNode
  <2> QED
    BY ONLY <1>1, <1>4, <1>5, <1>7, <2>1, <2>2, <2>3, <2>4, <2>5, <2>6, <2>7, BehindAfter
<1>11. NothingLost'
  <2>1. ASSUME Whole', NEW x \in Nodes, Waiting(x), ~Waiting(x)' PROVE FoundBy(walk, x)'
    <3>1. ~WaitsIn(parsed, rest, x) /\ ~WaitsIn(parsed, args, x)
      BY <2>1 DEF Waiting, KeepsFile, rest
    <3>2. ~WaitsIn(parsed, new, x) /\ ~WaitsIn(parsed, Tail(stack), x)
      BY <1>3, <3>1, WaitsJoin DEF rest
    <3>3. WaitsIn(parsed, stack, x)
      BY <2>1, NoneWaits DEF Waiting
    <3>4. Below(parsed, p, x)
      BY <1>1, <3>2, <3>3, WaitsHead
    <3>5. \/ x = p
          \/ \E c \in Range(parsed.kids[p]) : Below(parsed, c, x)
          \/ \E c \in Range(parsed.inside[p]) : Below(parsed, c, x)
      BY <1>1, <1>4, <3>4, BelowSplits
    <3>6. LeavesOf(p, new, args)
      BY <2>1
    <3> QED
      BY <3>1, <3>2, <3>5, <3>6 DEF LeavesOf
  <2>2. ItemsKept
    BY GivesPoints
  <2> QED
    BY <2>1, <2>2, WalkLosesNothing DEF KeepsFile
<1>12. KindsGiven(walk, items')
  BY <1>2, KindsKept
<1>13. parsed' = parsed /\ walk' = walk /\ stack' = rest /\ recovery' = args
  BY DEF KeepsFile, rest
<1>14. /\ parsed' \in Trees /\ walk' \in {"parse", "bindings", "imports", "calls", "done"}
       /\ spent' \in BOOLEAN /\ truncated' \in BOOLEAN /\ timed_out' \in BOOLEAN
       /\ walk' = "imports" => ~parsed'.packImports
       /\ walk' = "calls" => parsed'.language # "other"
  BY <1>1, <1>2, <1>13 DEF KeepsFile, Extracting
<1> QED
  BY <1>8, <1>9, <1>10, <1>11, <1>12, <1>13, <1>14 DEF Extracting

-----------------------------------------------------------------------------
(* Evidence: the visits.                                                    *)

LEMMA FirstNamedIs ==
  ASSUME NEW among \in SUBSET Nat, NEW naming,
         NEW words, "" \in words, \A x \in among : naming[x] \in words
  PROVE  FirstNamed(among, naming) \in words
<1> DEFINE named == {x \in among : naming[x] # ""}
<1>1. CASE named = {}
  <2>1. FirstNamed(among, naming) = ""
    BY <1>1 DEF FirstNamed
  <2> QED
    BY <2>1
<1>2. CASE named # {}
  <2>1. PICK m \in named : \A x \in named : m <= x
    BY <1>2, LeastNumber
  <2>2. Min(named) \in named
    BY <2>1 DEF Min
  <2> QED
    BY <1>2, <2>2 DEF FirstNamed
<1> QED
  BY <1>1, <1>2

LEMMA NameIs ==
  ASSUME NEW t, IsTree(t), NEW x \in NodesOf(t)
  PROVE  IdentifierName(t, x) \in Words(t)
<1>w. "" \in Words(t)
  BY DEF Words
<1>1. \A y \in NodesOf(t) : Range(t.kids[y]) \in SUBSET NodesOf(t)
  BY TreeNodes, KnownRange
<1>2. NodesOf(t) \in SUBSET Nat
  BY TreeNodes
<1>3. ASSUME NEW naming, \A y \in NodesOf(t) : naming[y] \in Words(t), NEW y \in NodesOf(t)
      PROVE  FirstNamed(Range(t.kids[y]), naming) \in Words(t)
  <2>1. Range(t.kids[y]) \in SUBSET Nat /\ \A z \in Range(t.kids[y]) : naming[z] \in Words(t)
    BY <1>1, <1>2, <1>3
  <2> QED
    BY <1>w, <2>1, FirstNamedIs
<1>4. \A y \in NodesOf(t) : Identifier(t)[y] \in Words(t)
  BY <1>w, TreeNodes DEF Identifier
<1>5. ASSUME NEW deeper, \A y \in NodesOf(t) : deeper[y] \in Words(t)
      PROVE  \A y \in NodesOf(t) : OwnOr(t, deeper)[y] \in Words(t)
  <2> SUFFICES ASSUME NEW y \in NodesOf(t) PROVE OwnOr(t, deeper)[y] \in Words(t)
    OBVIOUS
  <2>1. FirstNamed(Range(t.kids[y]), Identifier(t)) \in Words(t)
    BY <1>3, <1>4
  <2>2. FirstNamed(Range(t.kids[y]), deeper) \in Words(t)
    BY <1>3, <1>5
  <2> QED
    BY <2>1, <2>2 DEF OwnOr
<1>6. \A y \in NodesOf(t) : NameBelow(t)[y] \in Words(t)
  <2> DEFINE none == [y \in NodesOf(t) |-> ""]
  <2>1. \A y \in NodesOf(t) : none[y] \in Words(t)
    BY <1>w
  <2> HIDE DEF none
  <2>2. \A y \in NodesOf(t) : OwnOr(t, none)[y] \in Words(t)
    BY <2>1, <1>5
  <2>3. \A y \in NodesOf(t) : OwnOr(t, OwnOr(t, none))[y] \in Words(t)
    BY <2>2, <1>5
  <2>4. \A y \in NodesOf(t) : OwnOr(t, OwnOr(t, OwnOr(t, none)))[y] \in Words(t)
    BY <2>3, <1>5
  <2> QED
    BY <2>4 DEF NameBelow, none
<1>7. FirstNamed(Range(t.kids[x]), Identifier(t)) \in Words(t)
  BY <1>3, <1>4
<1> QED
  BY <1>6, <1>7 DEF IdentifierName

LEMMA Earlier ==
  ASSUME Extracting, walk \in Walks, NEW p, HasNode(p, stack) \/ HasNode(p, recovery)
  PROVE  \A k \in DOMAIN items : items[k].kind = Makes[walk] => items[k].node < p
<1>1. Behind(walk, items, stack, recovery)
  BY DEF Extracting
<1> QED
  BY <1>1 DEF Behind, HasNode, Walks, Makes

WalkCounter(w) == IF w = "calls" THEN "calls" ELSE "walkers"

LEMMA CounterMoves ==
  ASSUME NEW c \in CountersType, NEW w \in Walks,
         NEW d, d = [c EXCEPT ![WalkCounter(w)] = @ + 1]
  PROVE  /\ d \in CountersType /\ CounterOf(d, Makes[w]) = CounterOf(c, Makes[w]) + 1
         /\ \A kind \in {"Symbol", "Import", "Call"} : CounterOf(c, kind) <= CounterOf(d, kind)
BY DEF CountersType, Walks, WalkCounter, CounterOf, Makes

LEMMA GiveItem ==
  ASSUME Extracting, walk \in Walks, NEW p, HasNode(p, stack) \/ HasNode(p, recovery),
         NEW item \in ItemsOf(parsed), item.node = p, item.kind = Makes[walk],
         item.key = <<KeyKind(Makes[walk]), CounterOf(counters, Makes[walk])>>, IsFact(parsed, item),
         items' = Append(items, item), counters' = [counters EXCEPT ![WalkCounter(walk)] = @ + 1],
         parsed.language = "rust" /\ walk = "calls" => NotYetSeen(p)
  PROVE  /\ GivesOf(p) /\ ItemsRight(parsed, items', counters')
         /\ \E k \in DOMAIN items' : items'[k] = item
<1>1. IsTree(parsed) /\ items \in Seq(ItemsOf(parsed)) /\ counters \in CountersType
      /\ ItemsRight(parsed, items, counters)
  BY ExtractingFacts DEF Extracting
<1>2. /\ counters' \in CountersType
      /\ CounterOf(counters', Makes[walk]) = CounterOf(counters, Makes[walk]) + 1
      /\ \A kind \in {"Symbol", "Import", "Call"} : CounterOf(counters, kind) <= CounterOf(counters', kind)
  BY <1>1, CounterMoves
<1>3. \A k \in DOMAIN items : items[k].kind = item.kind => items[k].node < item.node
  BY Earlier
<1>4. item.at = parsed.at[p]
  BY DEF IsFact
<1>5. parsed.language = "rust" /\ item.kind = "Call" =>
        \A k \in DOMAIN items : items[k].kind = "Call" => items[k].at # item.at
  BY <1>4 DEF NotYetSeen, Walks, Makes
<1>6. ItemsRight(parsed, Append(items, item), counters')
  BY <1>1, <1>2, <1>3, <1>5, GiveOne
<1>7. Len(items) + 1 \in DOMAIN Append(items, item) /\ Append(items, item)[Len(items) + 1] = item
  BY <1>1, AppendPoints
<1> QED
  BY <1>6, <1>7 DEF GivesOf

LEMMA GiveNothing ==
  ASSUME Extracting, items' = items, NEW p,
         counters' = counters \/ (walk \in Walks /\ counters' = [counters EXCEPT ![WalkCounter(walk)] = @ + 1])
  PROVE  GivesOf(p) /\ ItemsRight(parsed, items', counters')
<1>1. IsTree(parsed) /\ counters \in CountersType /\ ItemsRight(parsed, items, counters)
  BY ExtractingFacts DEF Extracting
<1>2. CASE counters' = counters
  BY <1>1, <1>2 DEF GivesOf
<1>3. CASE walk \in Walks /\ counters' = [counters EXCEPT ![WalkCounter(walk)] = @ + 1]
  <2>1. /\ counters' \in CountersType
        /\ \A kind \in {"Symbol", "Import", "Call"} : CounterOf(counters, kind) <= CounterOf(counters', kind)
    BY <1>1, <1>3, CounterMoves
  <2>2. ItemsRight(parsed, items, counters')
    BY <1>1, <2>1, CountersGrow
  <2> QED
    BY <2>2 DEF GivesOf
<1> QED
  BY <1>2, <1>3

\* The next node of a walk and its children.
LEMMA NextOfWalk ==
  ASSUME Extracting, stack # <<>>
  PROVE  /\ Head(stack) \in PendingsOf(parsed) /\ Head(stack).node \in Nodes
         /\ Head(stack).node \in NodesOf(parsed)
         /\ walk \in Walks /\ TrueOf(parsed, walk, Head(stack)) /\ HasNode(Head(stack).node, stack)
<1>1. /\ stack \in Seq(PendingsOf(parsed)) /\ Nodes = NodesOf(parsed)
      /\ StackRight(parsed, walk, stack)
  BY ExtractingFacts DEF Extracting
<1>2. 1 \in DOMAIN stack /\ Head(stack) = stack[1] /\ Head(stack) \in PendingsOf(parsed)
  BY <1>1, TailPoints
<1> QED
  BY <1>1, <1>2 DEF StackRight, Walks, HasNode, PendingsOf

KidsPending(t, e, p, caller, new) ==
  /\ new \in Seq(PendingsOf(t)) /\ EntriesInTurn(t, new)
  /\ \A k \in DOMAIN new :
       /\ new[k].node \in Range(t.kids[p]) /\ new[k].caller = caller
       /\ Hidden(t, new[k].node) <=> Hidden(t, p)
       /\ e.depth = Depth(t, p) => new[k].depth = Depth(t, new[k].node)
       /\ BelowImport(t, new[k].node) <=> t.kind[p] = "import"
       /\ CallerOf(t, new[k].node) = IF t.kind[p] = "function" THEN t.name[p] ELSE CallerOf(t, p)
  /\ \A x : WaitsIn(t, new, x) <=> \E c \in Range(t.kids[p]) : Below(t, c, x)

LEMMA KidsOfNext ==
  ASSUME NEW t, IsTree(t), NEW e \in PendingsOf(t), NEW caller \in Words(t), NEW p, p = e.node,
         NEW new, new = Pushed(t.kids[p], e.depth + 1, caller, e.level)
  PROVE  KidsPending(t, e, p, caller, new)
<1>1. p \in NodesOf(t) /\ e.depth + 1 \in Nat /\ e.level \in Nat
  BY DEF PendingsOf
<1>2. t.kids[p] \in Seq(NodesOf(t)) /\ InTurn(t, t.kids[p])
  BY <1>1, TreeNodes, TreeOrder
<1>3. /\ new \in Seq(PendingsOf(t)) /\ EntriesInTurn(t, new)
      /\ \A k \in DOMAIN new : /\ new[k].node \in Range(t.kids[p])
                               /\ new[k].depth = e.depth + 1 /\ new[k].caller = caller
      /\ \A x : WaitsIn(t, new, x) <=> \E c \in Range(t.kids[p]) : Below(t, c, x)
  BY <1>1, <1>2, PushedIs
<1>4. ASSUME NEW k \in DOMAIN new
      PROVE  /\ Hidden(t, new[k].node) <=> Hidden(t, p)
             /\ e.depth = Depth(t, p) => new[k].depth = Depth(t, new[k].node)
             /\ BelowImport(t, new[k].node) <=> t.kind[p] = "import"
             /\ CallerOf(t, new[k].node) = IF t.kind[p] = "function" THEN t.name[p] ELSE CallerOf(t, p)
  <2>1. new[k].node \in UnderOf(t, p) /\ new[k].node \in Range(t.kids[p])
    BY <1>3 DEF UnderOf
  <2>2. Hidden(t, new[k].node) <=> Hidden(t, p)
    BY <1>1, <2>1, HiddenUnder
  <2>3. Depth(t, new[k].node) = Depth(t, p) + 1
    BY <1>1, <2>1, DepthUnder
  <2>4. BelowImport(t, new[k].node) <=> t.kind[p] = "import"
    BY <1>1, <2>1, BelowAnImport
  <2>5. CallerOf(t, new[k].node) = IF t.kind[p] = "function" THEN t.name[p] ELSE CallerOf(t, p)
    BY <1>1, <2>1, CallerUnder
  <2> QED
    BY <1>3, <2>2, <2>3, <2>4, <2>5
<1> QED
  BY <1>3, <1>4 DEF KidsPending

LEMMA NoNameIs == \A t : "" \in Words(t)
BY DEF Words

\* A walk gives the item of its kind of its next node.
LEMMA GiveOf ==
  ASSUME Extracting, walk \in Walks, NEW p \in NodesOf(parsed), HasNode(p, stack) \/ HasNode(p, recovery),
         NEW name \in Words(parsed), NEW caller \in Words(parsed),
         NEW item,
         item = Item(Makes[walk], <<KeyKind(Makes[walk]), CounterOf(counters, Makes[walk])>>, p, name, caller),
         IsFact(parsed, item), items' = Append(items, item),
         counters' = [counters EXCEPT ![WalkCounter(walk)] = @ + 1],
         parsed.language = "rust" /\ walk = "calls" => NotYetSeen(p)
  PROVE  /\ GivesOf(p) /\ ItemsRight(parsed, items', counters')
         /\ \E k \in DOMAIN items' : /\ items'[k].kind = Makes[walk] /\ items'[k].node = p
                                     /\ items'[k].at = parsed.at[p]
<1> DEFINE key == <<KeyKind(Makes[walk]), CounterOf(counters, Makes[walk])>>
<1>1. IsTree(parsed) /\ counters \in CountersType
  BY ExtractingFacts
<1>2. parsed.at[p] \in Range(parsed.at)
  BY <1>1, TreeNodes
<1>3. Makes[walk] \in {"Symbol", "Import", "Call"}
  BY DEF Walks, Makes
<1>4. key \in {"binding", "generic_import", "call"} \X Nat
  <2>1. KeyKind(Makes[walk]) \in {"binding", "generic_import", "call"}
    BY DEF KeyKind
  <2>2. CounterOf(counters, Makes[walk]) \in Nat
    BY <1>1 DEF CountersType, CounterOf
  <2> QED
    BY <2>1, <2>2
<1> HIDE DEF key
<1>5. item = [kind |-> Makes[walk], key |-> key, node |-> p, at |-> parsed.at[p], name |-> name,
              caller |-> caller]
  BY DEF Item, key
<1>6. item \in ItemsOf(parsed)
  <2> DEFINE kind == Makes[walk]
  <2>1. kind \in {"Symbol", "Import", "Call"}
    BY <1>3
  <2>2. item = [kind |-> kind, key |-> key, node |-> p, at |-> parsed.at[p], name |-> name,
                caller |-> caller]
    BY <1>5
  <2> HIDE DEF kind
  <2> QED
    BY ONLY <1>2, <1>4, <2>1, <2>2, p \in NodesOf(parsed), name \in Words(parsed),
            caller \in Words(parsed) DEF ItemsOf
<1>7. /\ item.kind = Makes[walk] /\ item.node = p /\ item.at = parsed.at[p]
      /\ item.key = <<KeyKind(Makes[walk]), CounterOf(counters, Makes[walk])>>
  BY <1>5 DEF key
<1>8. /\ GivesOf(p) /\ ItemsRight(parsed, items', counters')
      /\ \E k \in DOMAIN items' : items'[k] = item
  BY <1>6, <1>7, GiveItem
<1> QED
  BY <1>7, <1>8

LEMMA GivesSome ==
  ASSUME NEW X, NEW s \in Seq(X), NEW item
  PROVE  s \o <<item>> = Append(s, item) /\ s \o <<>> = s /\ Len(<<item>>) = 1 /\ Len(<<>>) = 0
<1>1. s \in Seq(X \cup {item}) /\ item \in X \cup {item}
  <2>1. \A i \in 1..Len(s) : s[i] \in X \cup {item}
    OBVIOUS
  <2> QED
    BY <2>1, SeqMonotonic
<1> QED
  BY <1>1, AppendIsConcat, ConcatEmptySeq

LEMMA GiveSymbol ==
  ASSUME Extracting, VisitBinding, NEW p, p = Head(stack).node
  PROVE  /\ GivesOf(p) /\ ItemsRight(parsed, items', counters')
         /\ HasSymbol(parsed, p) => GivenAs("Symbol", p)'
<1> DEFINE name == IdentifierName(parsed, p)
           item == Item("Symbol", <<"binding", counters.walkers>>, p, name, "")
<1>1. /\ IsTree(parsed) /\ counters \in CountersType /\ items \in Seq(ItemsOf(parsed))
  BY ExtractingFacts
<1>2. /\ walk = "bindings" /\ stack # <<>> /\ items' = items \o BindingItems(p)
      /\ counters' = [counters EXCEPT !.walkers = @ + Len(BindingItems(p))]
  BY DEF VisitBinding, Visits, Gives
<1>3. /\ p \in NodesOf(parsed) /\ ~Hidden(parsed, p) /\ HasNode(p, stack) /\ walk \in Walks
  BY <1>2, NextOfWalk DEF TrueOf
<1>4. "" \in Words(parsed) /\ name \in Words(parsed)
  BY <1>1, <1>3, NoNameIs, NameIs
<1>5. items \o <<item>> = Append(items, item) /\ items \o <<>> = items
      /\ Len(<<item>>) = 1 /\ Len(<<>>) = 0
  BY <1>1, GivesSome
<1>6. BindingItems(p) = IF parsed.kind[p] = "binding" /\ name # "" THEN <<item>> ELSE <<>>
  BY DEF BindingItems
<1>7. /\ item.kind = "Symbol" /\ item.node = p /\ item.at = parsed.at[p] /\ item.name = name
      /\ item = Item(Makes[walk], <<KeyKind(Makes[walk]), CounterOf(counters, Makes[walk])>>, p, name, "")
  BY <1>2 DEF Item, Makes, KeyKind, CounterOf
<1> HIDE DEF item
<1>8. CASE parsed.kind[p] = "binding" /\ name # ""
  <2>1. items' = Append(items, item)
    BY <1>2, <1>5, <1>6, <1>8
  <2>2. counters' = [counters EXCEPT ![WalkCounter(walk)] = @ + 1]
    BY <1>2, <1>5, <1>6, <1>8 DEF WalkCounter
  <2>3. IsFact(parsed, item)
    BY <1>3, <1>7, <1>8 DEF IsFact, HasSymbol
  <2>4. /\ parsed.language = "rust" /\ walk = "calls" => NotYetSeen(p)
        /\ Makes[walk] = "Symbol"
    BY <1>2 DEF Makes
  <2> HIDE DEF name
  <2>5. /\ GivesOf(p) /\ ItemsRight(parsed, items', counters')
        /\ \E k \in DOMAIN items' : /\ items'[k].kind = Makes[walk] /\ items'[k].node = p
                                    /\ items'[k].at = parsed.at[p]
    BY ONLY Extracting, <1>3, <1>4, <1>7, <2>1, <2>2, <2>3, <2>4, GiveOf, ZenonT(60)
  <2> QED
    BY <2>4, <2>5 DEF GivenAs
<1>9. CASE ~(parsed.kind[p] = "binding" /\ name # "")
  <2>1. items' = items
    BY <1>2, <1>5, <1>6, <1>9
  <2>2. counters' = counters
    <3>1. counters' = [counters EXCEPT !.walkers = @ + 0]
      BY <1>2, <1>5, <1>6, <1>9
    <3> QED
      BY ONLY <3>1, <1>1 DEF CountersType
  <2>3. ~HasSymbol(parsed, p)
    BY <1>9 DEF HasSymbol
  <2> QED
    BY <2>1, <2>2, <2>3, GiveNothing
<1> QED
  BY <1>8, <1>9

LEMMA ChildrenAre ==
  ASSUME NEW e, NEW caller
  PROVE  Children(e, caller) = Pushed(parsed.kids[e.node], e.depth + 1, caller, e.level)
BY DEF Children, Pushed

\* The children of the next node of a walk.
LEMMA NextIs ==
  ASSUME Extracting, stack # <<>>, NEW e, e = Head(stack), NEW p, p = e.node,
         NEW caller \in Words(parsed), NEW new, new = Children(e, caller)
  PROVE  KidsPending(parsed, e, p, caller, new)
<1>1. IsTree(parsed)
  BY ExtractingFacts
<1>2. e \in PendingsOf(parsed)
  BY NextOfWalk
<1>3. new = Pushed(parsed.kids[p], e.depth + 1, caller, e.level)
  BY ChildrenAre
<1> QED
  BY <1>1, <1>2, <1>3, KidsOfNext

LEMMA NoRecovery ==
  ASSUME Extracting, recovery = <<>>
  PROVE  RecoveryRight(parsed, walk, recovery) /\ \A k \in DOMAIN recovery : FALSE
BY DEF Extracting

LEMMA VisitBindingKeeps ==
  ASSUME Extracting, VisitBinding, NEW e, e = Head(stack), NEW p, p = e.node,
         NEW new, new = Children(e, "")
  PROVE  Extracting'
<1>1. IsTree(parsed) /\ Nodes = NodesOf(parsed) /\ "" \in Words(parsed)
  BY ExtractingFacts, NoNameIs
<1>2. /\ walk = "bindings" /\ stack # <<>> /\ recovery = <<>> /\ e.depth < MaxWalkDepth
      /\ stack' = new \o Tail(stack)
      /\ walk' = walk /\ recovery' = recovery /\ parsed' = parsed
      /\ truncated' = truncated /\ timed_out' = timed_out /\ spent' = spent
  BY DEF VisitBinding, Visits, UnchangedFile
<1>3. p \in NodesOf(parsed) /\ e.depth = Depth(parsed, p) /\ ~Hidden(parsed, p)
  BY <1>2, NextOfWalk DEF TrueOf
<1>4. /\ new \in Seq(PendingsOf(parsed)) /\ EntriesInTurn(parsed, new)
      /\ \A k \in DOMAIN new : /\ new[k].node \in Range(parsed.kids[p])
                               /\ ~Hidden(parsed, new[k].node) /\ new[k].depth = Depth(parsed, new[k].node)
      /\ \A x : WaitsIn(parsed, new, x) <=> \E c \in Range(parsed.kids[p]) : Below(parsed, c, x)
  <2>1. KidsPending(parsed, e, p, "", new)
    BY <1>1, <1>2, NextIs
  <2> QED
    BY <1>3, <2>1 DEF KidsPending
<1>5. \A k \in DOMAIN new : new[k].node \in Range(parsed.kids[p]) /\ TrueOf(parsed, walk, new[k])
  BY <1>2, <1>4 DEF TrueOf
<1>6. /\ GivesOf(p) /\ ItemsRight(parsed, items', counters')
      /\ HasSymbol(parsed, p) => GivenAs("Symbol", p)'
  BY GiveSymbol
<1>7. RecoveryRight(parsed, walk, recovery) /\ \A k \in DOMAIN recovery : FALSE
  BY <1>2, NoRecovery
<1>8. KeepsFile
  BY <1>2 DEF KeepsFile, Extracting, Whole
<1>9. LeavesOf(p, new, recovery)
  <2>1. FoundBy(walk, p)'
    BY <1>2, <1>3, <1>6 DEF FoundBy
  <2>2. ASSUME NEW x \in Nodes, NEW c \in Range(parsed.inside[p]), Below(parsed, c, x)
        PROVE  FoundBy(walk, x)'
    <3>1. Hidden(parsed, x)
      BY <1>1, <1>3, <2>2, BelowHides
    <3> QED
      BY <1>2, <3>1 DEF FoundBy, HasSymbol
  <2> QED
    BY <2>1, <2>2, <1>4 DEF LeavesOf
<1> QED
  BY <1>2, <1>4, <1>5, <1>6, <1>7, <1>8, <1>9, StackVisit

LEMMA GiveImport ==
  ASSUME Extracting, VisitImport, NEW e, e = Head(stack), NEW p, p = e.node
  PROVE  /\ GivesOf(p) /\ ItemsRight(parsed, items', counters')
         /\ HasImport(parsed, p) => GivenAs("Import", p)'
<1> DEFINE item == Item("Import", <<"generic_import", counters.walkers>>, p, "", "")
<1>1. /\ IsTree(parsed) /\ counters \in CountersType /\ items \in Seq(ItemsOf(parsed))
      /\ parsed.packImports \in BOOLEAN
  BY ExtractingFacts
<1>2. /\ walk = "imports" /\ stack # <<>> /\ items' = items \o ImportItems(e)
      /\ counters' = [counters EXCEPT !.walkers = @ + Len(ImportItems(e))]
  BY DEF VisitImport, Visits, Gives
<1>3. /\ p \in NodesOf(parsed) /\ ~Hidden(parsed, p) /\ HasNode(p, stack) /\ walk \in Walks
      /\ Suppressed(e) <=> BelowImport(parsed, p)
  BY <1>2, NextOfWalk DEF TrueOf
<1>4. "" \in Words(parsed) /\ ~parsed.packImports
  BY <1>2, NoNameIs DEF Extracting
<1>5. items \o <<item>> = Append(items, item) /\ items \o <<>> = items
      /\ Len(<<item>>) = 1 /\ Len(<<>>) = 0
  BY <1>1, GivesSome
<1>6. ImportItems(e) = IF parsed.kind[p] = "import" /\ ~Suppressed(e) THEN <<item>> ELSE <<>>
  BY DEF ImportItems
<1>7. /\ item.kind = "Import" /\ item.node = p /\ item.at = parsed.at[p]
      /\ item = Item(Makes[walk], <<KeyKind(Makes[walk]), CounterOf(counters, Makes[walk])>>, p, "", "")
  BY <1>2 DEF Item, Makes, KeyKind, CounterOf
<1> HIDE DEF item
<1>8. CASE parsed.kind[p] = "import" /\ ~Suppressed(e)
  <2>1. items' = Append(items, item)
    BY <1>2, <1>5, <1>6, <1>8
  <2>2. counters' = [counters EXCEPT ![WalkCounter(walk)] = @ + 1]
    BY <1>2, <1>5, <1>6, <1>8 DEF WalkCounter
  <2>3. IsFact(parsed, item)
    BY <1>3, <1>4, <1>7, <1>8 DEF IsFact, HasImport
  <2>4. /\ parsed.language = "rust" /\ walk = "calls" => NotYetSeen(p)
        /\ Makes[walk] = "Import"
    BY <1>2 DEF Makes
  <2>5. /\ GivesOf(p) /\ ItemsRight(parsed, items', counters')
        /\ \E k \in DOMAIN items' : /\ items'[k].kind = Makes[walk] /\ items'[k].node = p
                                    /\ items'[k].at = parsed.at[p]
    BY ONLY Extracting, <1>3, <1>4, <1>7, <2>1, <2>2, <2>3, <2>4, GiveOf, ZenonT(60)
  <2> QED
    BY <2>4, <2>5 DEF GivenAs
<1>9. CASE ~(parsed.kind[p] = "import" /\ ~Suppressed(e))
  <2>1. items' = items
    BY <1>2, <1>5, <1>6, <1>9
  <2>2. counters' = counters
    <3>1. counters' = [counters EXCEPT !.walkers = @ + 0]
      BY <1>2, <1>5, <1>6, <1>9
    <3> QED
      BY ONLY <3>1, <1>1 DEF CountersType
  <2>3. ~HasImport(parsed, p)
    BY <1>3, <1>9 DEF HasImport
  <2> QED
    BY <2>1, <2>2, <2>3, GiveNothing
<1> QED
  BY <1>8, <1>9

LEMMA VisitImportKeeps ==
  ASSUME Extracting, VisitImport, NEW e, e = Head(stack), NEW p, p = e.node,
         NEW new, new = Children(e, parsed.kind[p])
  PROVE  Extracting'
<1>1. IsTree(parsed) /\ Nodes = NodesOf(parsed)
  BY ExtractingFacts
<1>2. /\ walk = "imports" /\ stack # <<>> /\ recovery = <<>>
      /\ stack' = new \o Tail(stack)
      /\ walk' = walk /\ recovery' = recovery /\ parsed' = parsed
      /\ truncated' = truncated /\ timed_out' = timed_out /\ spent' = spent
  BY DEF VisitImport, Visits, UnchangedFile
<1>3. p \in NodesOf(parsed) /\ e.depth = Depth(parsed, p) /\ ~Hidden(parsed, p)
  BY <1>2, NextOfWalk DEF TrueOf
<1>4. parsed.kind[p] \in Words(parsed)
  BY <1>1, <1>3, TreeNodes DEF Words
<1>5. /\ new \in Seq(PendingsOf(parsed)) /\ EntriesInTurn(parsed, new)
      /\ \A k \in DOMAIN new : /\ new[k].node \in Range(parsed.kids[p]) /\ new[k].caller = parsed.kind[p]
                               /\ ~Hidden(parsed, new[k].node) /\ new[k].depth = Depth(parsed, new[k].node)
                               /\ BelowImport(parsed, new[k].node) <=> parsed.kind[p] = "import"
      /\ \A x : WaitsIn(parsed, new, x) <=> \E c \in Range(parsed.kids[p]) : Below(parsed, c, x)
  <2>1. KidsPending(parsed, e, p, parsed.kind[p], new)
    BY <1>2, <1>4, NextIs
  <2>2. /\ new \in Seq(PendingsOf(parsed)) /\ EntriesInTurn(parsed, new)
        /\ \A x : WaitsIn(parsed, new, x) <=> \E c \in Range(parsed.kids[p]) : Below(parsed, c, x)
    BY <2>1 DEF KidsPending
  <2>3. ASSUME NEW k \in DOMAIN new
        PROVE  /\ new[k].node \in Range(parsed.kids[p]) /\ new[k].caller = parsed.kind[p]
               /\ ~Hidden(parsed, new[k].node) /\ new[k].depth = Depth(parsed, new[k].node)
    BY <1>3, <2>1 DEF KidsPending
  <2>4. ASSUME NEW k \in DOMAIN new
        PROVE  BelowImport(parsed, new[k].node) <=> parsed.kind[p] = "import"
    BY <2>1, Zenon DEF KidsPending
  <2>5. ASSUME NEW k \in DOMAIN new
        PROVE  /\ new[k].node \in Range(parsed.kids[p]) /\ new[k].caller = parsed.kind[p]
               /\ ~Hidden(parsed, new[k].node) /\ new[k].depth = Depth(parsed, new[k].node)
               /\ BelowImport(parsed, new[k].node) <=> parsed.kind[p] = "import"
    BY <2>3, <2>4, Zenon
  <2> QED
    BY <2>2, <2>5, Zenon
<1>6. \A k \in DOMAIN new : new[k].node \in Range(parsed.kids[p]) /\ TrueOf(parsed, walk, new[k])
  <2> SUFFICES ASSUME NEW k \in DOMAIN new PROVE TrueOf(parsed, walk, new[k])
    BY <1>5
  <2>1. new[k].caller = parsed.kind[p] /\ (BelowImport(parsed, new[k].node) <=> parsed.kind[p] = "import")
    BY <1>5, ZenonT(60)
  <2>2. Suppressed(new[k]) <=> BelowImport(parsed, new[k].node)
    BY <2>1, Zenon DEF Suppressed
  <2>3. ~Hidden(parsed, new[k].node) /\ new[k].depth = Depth(parsed, new[k].node) /\ walk # "calls"
    BY <1>2, <1>5
  <2> QED
    BY <2>2, <2>3, Zenon DEF TrueOf
<1>7. /\ GivesOf(p) /\ ItemsRight(parsed, items', counters')
      /\ HasImport(parsed, p) => GivenAs("Import", p)'
  BY GiveImport
<1>8. RecoveryRight(parsed, walk, recovery) /\ \A k \in DOMAIN recovery : FALSE
  BY <1>2, NoRecovery
<1>9. KeepsFile
  BY <1>2 DEF KeepsFile, Extracting, Whole
<1>10. LeavesOf(p, new, recovery)
  <2>1. FoundBy(walk, p)'
    BY <1>2, <1>7 DEF FoundBy
  <2>2. ASSUME NEW x \in Nodes, NEW c \in Range(parsed.inside[p]), Below(parsed, c, x)
        PROVE  FoundBy(walk, x)'
    <3>1. Hidden(parsed, x)
      BY <1>1, <1>3, <2>2, BelowHides
    <3> QED
      BY <1>2, <3>1 DEF FoundBy, HasImport
  <2> QED
    BY <2>1, <2>2, <1>5 DEF LeavesOf
<1> QED
  BY <1>2, <1>5, <1>6, <1>7, <1>8, <1>9, <1>10, StackVisit, ZenonT(60)

\* A call that is given, or one of its range that was.
LEMMA GiveCall ==
  ASSUME Extracting, walk = "calls", NEW e, NEW p \in NodesOf(parsed), p = e.node,
         HasNode(p, stack) \/ HasNode(p, recovery),
         e.caller \in Words(parsed), e.caller = CallerOf(parsed, p), HasCall(parsed, p),
         parsed.language = "rust" => NotYetSeen(p), parsed' = parsed,
         items' = Append(items, CallItem(e)), counters' = [counters EXCEPT !.calls = @ + 1]
  PROVE  GivesOf(p) /\ ItemsRight(parsed, items', counters') /\ GivenCall(p)'
<1> DEFINE item == CallItem(e)
<1>1. IsTree(parsed) /\ p \in Nat /\ parsed.name[p] \in Words(parsed)
  BY ExtractingFacts, TreeNodes
<1>2. /\ item.kind = "Call" /\ item.node = p /\ item.at = parsed.at[p]
      /\ item.name = parsed.name[p] /\ item.caller = e.caller
      /\ item = Item(Makes[walk], <<KeyKind(Makes[walk]), CounterOf(counters, Makes[walk])>>, p,
                     parsed.name[p], e.caller)
  BY DEF CallItem, Item, Makes, KeyKind, CounterOf
<1> HIDE DEF item
<1>3. IsFact(parsed, item)
  BY <1>2 DEF IsFact
<1>4. /\ counters' = [counters EXCEPT ![WalkCounter(walk)] = @ + 1] /\ items' = Append(items, item)
      /\ walk \in Walks /\ Makes[walk] = "Call"
  BY DEF WalkCounter, item, Walks, Makes
<1>5. parsed.language = "rust" /\ walk = "calls" => NotYetSeen(p)
  OBVIOUS
<1>6. /\ GivesOf(p) /\ ItemsRight(parsed, items', counters')
      /\ \E k \in DOMAIN items' : /\ items'[k].kind = Makes[walk] /\ items'[k].node = p
                                  /\ items'[k].at = parsed.at[p]
  BY ONLY Extracting, p \in NodesOf(parsed), e.caller \in Words(parsed),
          HasNode(p, stack) \/ HasNode(p, recovery), <1>1, <1>2, <1>3, <1>4, <1>5, GiveOf, ZenonT(60)
<1>7. PICK k \in DOMAIN items' : /\ items'[k].kind = "Call" /\ items'[k].node = p
                                 /\ items'[k].at = parsed.at[p]
  BY <1>4, <1>6
<1>8. p <= p
  BY <1>1
<1>9. GivenCall(p)'
  BY <1>7, <1>8 DEF GivenCall
<1> QED
  BY <1>6, <1>9

LEMMA SeenCall ==
  ASSUME Extracting, walk = "calls", NEW p \in NodesOf(parsed), HasNode(p, stack) \/ HasNode(p, recovery),
         parsed.language = "rust", ~NotYetSeen(p), parsed' = parsed, items' = items
  PROVE  GivenCall(p)'
<1>1. PICK k \in DOMAIN items : items[k].kind = "Call" /\ items[k].at = parsed.at[p]
  BY DEF NotYetSeen
<1>2. walk \in Walks /\ Makes[walk] = "Call"
  BY DEF Walks, Makes
<1>3. items[k].node < p
  BY <1>1, <1>2, Earlier
<1>4. items \in Seq(ItemsOf(parsed)) /\ IsTree(parsed)
  BY ExtractingFacts
<1>5. items[k] \in ItemsOf(parsed)
  BY <1>4
<1>6. items[k].node \in Nat /\ p \in Nat
  BY <1>4, <1>5, TreeNodes DEF ItemsOf
<1>7. items[k].node <= p
  BY <1>3, <1>6
<1>8. GivenCall(p)
  BY <1>1, <1>7 DEF GivenCall
<1> QED
  BY <1>8, GivenKept DEF ItemsKept

LEMMA CallerBelowIs ==
  ASSUME Extracting, NEW p \in NodesOf(parsed), NEW caller \in Words(parsed)
  PROVE  CallerBelow(p, caller) \in Words(parsed)
<1>1. parsed.name[p] \in Words(parsed)
  BY ExtractingFacts, TreeNodes
<1> QED
  BY <1>1 DEF CallerBelow

\* In the walk over calls the children carry their callers.
LEMMA CallersCarried ==
  ASSUME NEW t, NEW e, NEW p, NEW caller, NEW new, KidsPending(t, e, p, caller, new),
         caller = (IF t.kind[p] = "function" THEN t.name[p] ELSE e.caller), e.caller = CallerOf(t, p),
         e.depth = Depth(t, p), ~Hidden(t, p)
  PROVE  \A k \in DOMAIN new : new[k].node \in Range(t.kids[p]) /\ TrueOf(t, "calls", new[k])
<1>1. ASSUME NEW k \in DOMAIN new
      PROVE  /\ new[k].node \in Range(t.kids[p]) /\ new[k].caller = CallerOf(t, new[k].node)
             /\ ~Hidden(t, new[k].node) /\ new[k].depth = Depth(t, new[k].node)
  BY DEF KidsPending
<1> QED
  BY <1>1 DEF TrueOf

LEMMA NoArguments ==
  ASSUME Extracting, parsed.language # "rust", NEW p \in NodesOf(parsed)
  PROVE  Range(parsed.inside[p]) = {}
<1>1. IsTree(parsed)
  BY ExtractingFacts
<1>2. parsed.inside[p] = <<>>
  BY <1>1, TreeOrder
<1> QED
  BY <1>2 DEF Range

LEMMA NotTooDeep ==
  ASSUME Extracting, Whole, walk = "calls", NEW c \in Nodes, ~Hidden(parsed, c)
  PROVE  Depth(parsed, c) < MaxWalkDepth
<1>1. Passed("bindings", c)
  BY DEF Passed, Later
<1> QED
  BY <1>1 DEF Extracting, NothingLost, Whole

LEMMA GiveQueried ==
  ASSUME Extracting, VisitQueried, NEW e, e = Head(stack), NEW p, p = e.node
  PROVE  /\ GivesOf(p) /\ ItemsRight(parsed, items', counters')
         /\ HasCall(parsed, p) => GivenCall(p)'
<1> DEFINE item == CallItem(e)
           new == IF parsed.kind[p] = "call" THEN <<item>> ELSE <<>>
<1>1. counters \in CountersType /\ items \in Seq(ItemsOf(parsed))
      /\ parsed.language \in {"rust", "queried", "other"}
  BY ExtractingFacts
<1>2. /\ walk = "calls" /\ stack # <<>> /\ parsed.language # "rust" /\ parsed' = parsed
      /\ items' = items \o new /\ counters' = [counters EXCEPT !.calls = @ + Len(new)]
  BY DEF VisitQueried, Visits, Gives, UnchangedFile
<1>3. parsed.language = "queried"
  BY <1>1, <1>2 DEF Extracting
<1>4. /\ p \in NodesOf(parsed) /\ HasNode(p, stack) /\ e.caller = CallerOf(parsed, p)
      /\ e \in PendingsOf(parsed)
  BY <1>2, NextOfWalk DEF TrueOf
<1>5. e.caller \in Words(parsed)
  BY <1>4 DEF PendingsOf
<1>6. items \o <<item>> = Append(items, item) /\ items \o <<>> = items
      /\ Len(<<item>>) = 1 /\ Len(<<>>) = 0
  BY <1>1, GivesSome
<1>7. HasCall(parsed, p) <=> parsed.kind[p] = "call"
  BY <1>3 DEF HasCall
<1> HIDE DEF item
<1>8. CASE parsed.kind[p] = "call"
  <2>1. items' = Append(items, CallItem(e)) /\ counters' = [counters EXCEPT !.calls = @ + 1]
    BY <1>2, <1>6, <1>8 DEF item
  <2>2. HasCall(parsed, p) /\ (parsed.language = "rust" => NotYetSeen(p))
    BY <1>2, <1>7, <1>8
  <2> QED
    BY <1>2, <1>4, <1>5, <2>1, <2>2, GiveCall
<1>9. CASE parsed.kind[p] # "call"
  <2>1. items' = items
    BY <1>2, <1>6, <1>9
  <2>2. counters' = counters
    <3>1. counters' = [counters EXCEPT !.calls = @ + 0]
      BY <1>2, <1>6, <1>9
    <3> QED
      BY ONLY <3>1, <1>1 DEF CountersType
  <2> QED
    BY <1>7, <1>9, <2>1, <2>2, GiveNothing
<1> QED
  BY <1>8, <1>9

LEMMA VisitQueriedKeeps ==
  ASSUME Extracting, VisitQueried, NEW e, e = Head(stack), NEW p, p = e.node,
         NEW kids, kids = Children(e, CallerBelow(p, e.caller)),
         NEW new, new = (IF e.depth + 1 < MaxWalkDepth THEN kids ELSE <<>>)
  PROVE  Extracting'
<1>1. IsTree(parsed) /\ Nodes = NodesOf(parsed) /\ MaxWalkDepth \in Nat
  BY ExtractingFacts
<1>2. /\ walk = "calls" /\ stack # <<>> /\ recovery = <<>> /\ parsed.language # "rust"
      /\ stack' = new \o Tail(stack)
      /\ walk' = walk /\ recovery' = recovery /\ parsed' = parsed
      /\ truncated' = truncated /\ timed_out' = timed_out /\ spent' = spent
  BY DEF VisitQueried, Visits, UnchangedFile
<1>3. /\ p \in NodesOf(parsed) /\ e.depth = Depth(parsed, p) /\ ~Hidden(parsed, p)
      /\ e.caller = CallerOf(parsed, p) /\ e \in PendingsOf(parsed)
  BY <1>2, NextOfWalk DEF TrueOf
<1>4. CallerBelow(p, e.caller) \in Words(parsed)
  BY <1>3, CallerBelowIs DEF PendingsOf
<1>5. KidsPending(parsed, e, p, CallerBelow(p, e.caller), kids)
  BY <1>2, <1>4, NextIs
<1>6. \A k \in DOMAIN kids : kids[k].node \in Range(parsed.kids[p]) /\ TrueOf(parsed, "calls", kids[k])
  BY <1>3, <1>5, CallersCarried DEF CallerBelow
<1>7. kids \in Seq(PendingsOf(parsed)) /\ EntriesInTurn(parsed, kids)
      /\ \A x : WaitsIn(parsed, kids, x) <=> \E c \in Range(parsed.kids[p]) : Below(parsed, c, x)
  BY <1>5 DEF KidsPending
<1>8. /\ new \in Seq(PendingsOf(parsed)) /\ EntriesInTurn(parsed, new)
      /\ \A k \in DOMAIN new : new[k].node \in Range(parsed.kids[p]) /\ TrueOf(parsed, walk, new[k])
  <2>1. CASE e.depth + 1 < MaxWalkDepth
    BY <2>1, <1>2, <1>6, <1>7
  <2>2. CASE ~(e.depth + 1 < MaxWalkDepth)
    <3>1. new = <<>> /\ new \in Seq(PendingsOf(parsed)) /\ \A k \in DOMAIN new : FALSE
      BY <2>2
    <3> QED
      BY <3>1, NoneWaits
  <2> QED
    BY <2>1, <2>2
<1>9. /\ GivesOf(p) /\ ItemsRight(parsed, items', counters')
      /\ HasCall(parsed, p) => GivenCall(p)'
  BY GiveQueried
<1>10. RecoveryRight(parsed, walk, recovery) /\ \A k \in DOMAIN recovery : FALSE
  BY <1>2, NoRecovery
<1>11. KeepsFile
  BY <1>2 DEF KeepsFile, Extracting, Whole
<1>12. Whole' => LeavesOf(p, new, recovery)
  <2> SUFFICES ASSUME Whole PROVE LeavesOf(p, new, recovery)
    BY <1>11 DEF KeepsFile
  <2>1. FoundBy(walk, p)'
    BY <1>2, <1>9 DEF FoundBy
  <2>2. Range(parsed.inside[p]) = {}
    BY <1>2, <1>3, NoArguments
  <2>3. ASSUME NEW x \in Nodes, NEW c \in Range(parsed.kids[p]), Below(parsed, c, x)
        PROVE  WaitsIn(parsed, new, x)
    <3>1. c \in UnderOf(parsed, p)
      BY DEF UnderOf
    <3>2. c \in Nodes /\ ~Hidden(parsed, c) /\ Depth(parsed, c) = e.depth + 1
      BY <1>1, <1>3, <3>1, UnderIsNode, HiddenUnder, DepthUnder
    <3>3. e.depth + 1 < MaxWalkDepth
      BY <1>2, <3>2, NotTooDeep
    <3> QED
      BY <1>7, <2>3, <3>3
  <2> QED
    BY <2>1, <2>2, <2>3 DEF LeavesOf
<1> QED
  BY <1>2, <1>8, <1>9, <1>10, <1>11, <1>12, StackVisit

\* The arguments of a macro that are to be scanned.
FragmentPending(t, x, level, parse, args) ==
  /\ args \in Seq(PendingsOf(t)) /\ EntriesInTurn(t, args)
  /\ \A k \in DOMAIN args : /\ args[k].node \in Range(t.inside[x]) /\ Hidden(t, args[k].node)
                            /\ args[k].caller = CallerOf(t, args[k].node)
  /\ args # <<>> => t.language = "rust"
  /\ (level < MaxMacroDepth /\ parse = "tree") \/ t.inside[x] = <<>> =>
       \A y : WaitsIn(t, args, y) <=> \E c \in Range(t.inside[x]) : Below(t, c, y)

LEMMA FragmentIs ==
  ASSUME IsTree(parsed), ProbeDepth \in Nat, MaxMacroDepth \in Nat, NEW x \in NodesOf(parsed),
         NEW level \in Nat, NEW caller \in Words(parsed), caller = CallerOf(parsed, x), NEW parse,
         NEW args, args = Fragment(x, level, caller, parse)
  PROVE  FragmentPending(parsed, x, level, parse, args)
<1> DEFINE in == parsed.inside[x]
<1>1. in \in Seq(NodesOf(parsed)) /\ InTurn(parsed, in) /\ (in # <<>> => parsed.language = "rust")
  BY TreeNodes, TreeOrder
<1>2. CASE level >= MaxMacroDepth \/ parse # "tree"
  <2>1. args = <<>>
    BY <1>2 DEF Fragment
  <2>2. args \in Seq(PendingsOf(parsed)) /\ (\A k \in DOMAIN args : FALSE) /\ EntriesInTurn(parsed, args)
    BY <2>1, NoneWaits
  <2>3. ~(level < MaxMacroDepth /\ parse = "tree")
    BY <1>2
  <2>4. in = <<>> => \A y : WaitsIn(parsed, args, y) <=> \E c \in Range(in) : Below(parsed, c, y)
    <3>1. \A y : ~WaitsIn(parsed, args, y)
      BY <2>1, NoneWaits
    <3>2. in = <<>> => Range(in) = {}
      BY DEF Range
    <3> QED
      BY <3>1, <3>2
  <2> QED
    BY <2>1, <2>2, <2>3, <2>4 DEF FragmentPending
<1>3. CASE level < MaxMacroDepth /\ parse = "tree"
  <2>1. ~(level >= MaxMacroDepth \/ parse # "tree")
    BY <1>3
  <2>2. args = Pushed(in, ProbeDepth, caller, level)
    BY <2>1 DEF Fragment, Pushed
  <2>3. /\ args \in Seq(PendingsOf(parsed)) /\ DOMAIN args = DOMAIN in
        /\ \A k \in DOMAIN args : args[k].node \in Range(in) /\ args[k].caller = caller
        /\ EntriesInTurn(parsed, args)
        /\ \A y : WaitsIn(parsed, args, y) <=> \E c \in Range(in) : Below(parsed, c, y)
    <3> HIDE DEF in
    <3> QED
      BY <1>1, <2>2, PushedIs
  <2>4. ASSUME NEW k \in DOMAIN args
        PROVE  /\ Hidden(parsed, args[k].node) /\ args[k].caller = CallerOf(parsed, args[k].node)
               /\ args[k].node \in Range(in)
    <3>1. args[k].node \in Range(in) /\ args[k].caller = caller /\ args[k].node \in UnderOf(parsed, x)
      BY <2>3 DEF UnderOf
    <3> QED
      BY <3>1, HiddenUnder, CallerInside
  <2>5. args # <<>> => parsed.language = "rust"
    <3>1. in = <<>> => args = <<>>
      BY <2>2 DEF Pushed
    <3> QED
      BY <1>1, <3>1
  <2> QED
    BY <2>3, <2>4, <2>5 DEF FragmentPending
<1> QED
  <2>1. level >= MaxMacroDepth \/ level < MaxMacroDepth
    OBVIOUS
  <2> QED
    BY <1>2, <1>3, <2>1

\* Arguments that are not scanned are said to be cut.
LEMMA OpenSays ==
  ASSUME Extracting, NEW x, NEW level \in Nat, NEW caller, NEW parse \in Parses,
         OpenFragment(x, level, caller, parse)
  PROVE  /\ spent' \in BOOLEAN /\ truncated' \in BOOLEAN /\ timed_out' \in BOOLEAN
         /\ Whole' => Whole
         /\ Whole' => (level < MaxMacroDepth /\ parse = "tree") \/ parsed.inside[x] = <<>>
<1>1. spent \in BOOLEAN /\ truncated \in BOOLEAN /\ timed_out \in BOOLEAN /\ MaxMacroDepth \in Nat
  BY ExtractingFacts DEF Extracting
<1>2. CASE ~Opens(x, level) /\ parse = "tree" /\ UNCHANGED <<truncated, timed_out, spent>>
  BY <1>1, <1>2 DEF Opens, Whole
<1>3. CASE /\ parsed.kind[x] = "macro" /\ level >= MaxMacroDepth
           /\ parse = "tree" /\ truncated' = TRUE /\ UNCHANGED <<timed_out, spent>>
  BY <1>1, <1>3 DEF Whole
<1>4. CASE parsed.kind[x] = "macro" /\ level < MaxMacroDepth /\ WithoutTree(parse)
  <2>1. WithoutTree(parse)
    BY <1>4
  <2>2. spent' \in BOOLEAN /\ truncated' \in BOOLEAN /\ timed_out' \in BOOLEAN
    BY <1>1, <2>1, Zenon DEF WithoutTree
  <2>3. Whole' => Whole /\ parse # "failed" /\ parse # "cut"
    BY <2>1, Zenon DEF WithoutTree, Whole
  <2>4. Whole' => parse = "tree"
    BY <2>3 DEF Parses
  <2>5. level < MaxMacroDepth
    BY <1>1, <1>4
  <2> QED
    BY <2>2, <2>3, <2>4, <2>5
<1> QED
  BY <1>2, <1>3, <1>4 DEF OpenFragment

LEMMA GiveRust ==
  ASSUME Extracting, VisitRust, NEW e, e = Head(stack), NEW p, p = e.node
  PROVE  /\ GivesOf(p) /\ ItemsRight(parsed, items', counters')
         /\ HasCall(parsed, p) => GivenCall(p)'
<1>1. counters \in CountersType /\ items \in Seq(ItemsOf(parsed))
  BY ExtractingFacts
<1>2. /\ walk = "calls" /\ stack # <<>> /\ parsed.language = "rust" /\ parsed' = parsed
      /\ items' = IF IsCall(p) /\ NotYetSeen(p) THEN Append(items, CallItem(e)) ELSE items
      /\ counters' = IF IsCall(p) THEN [counters EXCEPT !.calls = @ + 1] ELSE counters
  BY DEF VisitRust, Visits
<1>3. /\ p \in NodesOf(parsed) /\ HasNode(p, stack) /\ e.caller = CallerOf(parsed, p)
      /\ e \in PendingsOf(parsed) /\ ~Hidden(parsed, p) /\ walk \in Walks
  BY <1>2, NextOfWalk DEF TrueOf
<1>4. e.caller \in Words(parsed)
  BY <1>3 DEF PendingsOf
<1>5. HasCall(parsed, p) <=> IsCall(p)
  BY <1>2, <1>3 DEF HasCall, IsCall
<1>6. CASE IsCall(p) /\ NotYetSeen(p)
  <2>1. items' = Append(items, CallItem(e)) /\ counters' = [counters EXCEPT !.calls = @ + 1]
    BY <1>2, <1>6
  <2> QED
    BY <1>2, <1>3, <1>4, <1>5, <1>6, <2>1, GiveCall
<1>7. CASE IsCall(p) /\ ~NotYetSeen(p)
  <2>1. items' = items
    BY <1>2, <1>7
  <2>2. counters' = [counters EXCEPT ![WalkCounter(walk)] = @ + 1]
    BY <1>2, <1>7 DEF WalkCounter
  <2>3. GivenCall(p)'
    BY <1>2, <1>3, <1>7, <2>1, SeenCall
  <2> QED
    BY <1>3, <2>1, <2>2, <2>3, GiveNothing
<1>8. CASE ~IsCall(p)
  <2>1. items' = items /\ counters' = counters
    BY <1>2, <1>8
  <2> QED
    BY <1>5, <1>8, <2>1, GiveNothing
<1> QED
  BY <1>6, <1>7, <1>8

LEMMA VisitRustKeeps ==
  ASSUME Extracting, VisitRust, NEW e, e = Head(stack), NEW p, p = e.node,
         NEW new, new = Children(e, CallerBelow(p, e.caller))
  PROVE  Extracting'
<1>1. /\ IsTree(parsed) /\ Nodes = NodesOf(parsed) /\ ProbeDepth \in Nat /\ MaxMacroDepth \in Nat
  BY ExtractingFacts
<1>2. /\ walk = "calls" /\ stack # <<>> /\ recovery = <<>> /\ parsed.language = "rust"
      /\ stack' = new \o Tail(stack) /\ walk' = walk /\ parsed' = parsed
  BY DEF VisitRust, Visits
<1>3. PICK parse \in Parses : /\ OpenFragment(p, 0, e.caller, parse)
                              /\ recovery' = Fragment(p, 0, e.caller, parse)
  BY DEF VisitRust
<1>4. /\ p \in NodesOf(parsed) /\ e.depth = Depth(parsed, p) /\ ~Hidden(parsed, p)
      /\ e.caller = CallerOf(parsed, p) /\ e \in PendingsOf(parsed)
  BY <1>2, NextOfWalk DEF TrueOf
<1>5. e.caller \in Words(parsed) /\ CallerBelow(p, e.caller) \in Words(parsed)
  BY <1>4, CallerBelowIs DEF PendingsOf
<1>6. KidsPending(parsed, e, p, CallerBelow(p, e.caller), new)
  BY <1>2, <1>5, NextIs
<1>7. \A k \in DOMAIN new : new[k].node \in Range(parsed.kids[p]) /\ TrueOf(parsed, "calls", new[k])
  BY <1>4, <1>6, CallersCarried DEF CallerBelow
<1>8. new \in Seq(PendingsOf(parsed)) /\ EntriesInTurn(parsed, new)
      /\ \A x : WaitsIn(parsed, new, x) <=> \E c \in Range(parsed.kids[p]) : Below(parsed, c, x)
  BY <1>6 DEF KidsPending
<1>9. /\ GivesOf(p) /\ ItemsRight(parsed, items', counters')
      /\ HasCall(parsed, p) => GivenCall(p)'
  BY GiveRust
<1>10. FragmentPending(parsed, p, 0, parse, recovery')
  <2>1. 0 \in Nat
    OBVIOUS
  <2> QED
    BY <1>1, <1>3, <1>4, <1>5, <2>1, FragmentIs
<1>11. /\ RecoveryRight(parsed, walk, recovery')
      /\ \A k \in DOMAIN recovery' : recovery'[k].node \in Range(parsed.inside[p])
  BY <1>2, <1>10 DEF FragmentPending, RecoveryRight
<1>12. /\ spent' \in BOOLEAN /\ truncated' \in BOOLEAN /\ timed_out' \in BOOLEAN
       /\ Whole' => Whole
       /\ Whole' => (0 < MaxMacroDepth /\ parse = "tree") \/ parsed.inside[p] = <<>>
  <2>1. 0 \in Nat
    OBVIOUS
  <2> QED
    BY <1>3, <2>1, OpenSays
<1>13. KeepsFile
  BY <1>2, <1>12 DEF KeepsFile
<1>14. Whole' => LeavesOf(p, new, recovery')
  <2> SUFFICES ASSUME Whole' PROVE LeavesOf(p, new, recovery')
    OBVIOUS
  <2>1. FoundBy(walk, p)'
    BY <1>2, <1>9 DEF FoundBy
  <2>2. \A y : WaitsIn(parsed, recovery', y) <=> \E c \in Range(parsed.inside[p]) : Below(parsed, c, y)
    BY <1>10, <1>12 DEF FragmentPending
  <2> QED
    BY <2>1, <2>2, <1>8 DEF LeavesOf
<1> QED
  BY <1>2, <1>7, <1>8, <1>9, <1>11, <1>13, <1>14, StackVisit

\* A visit of the scan of a macro's arguments.
LEMMA RecoveryVisit ==
  ASSUME Extracting, recovery # <<>>, NEW p, p = Head(recovery).node,
         NEW new \in Seq(PendingsOf(parsed)), EntriesInTurn(parsed, new),
         \A k \in DOMAIN new : /\ new[k].node \in UnderOf(parsed, p) /\ Hidden(parsed, new[k].node)
                               /\ new[k].caller = CallerOf(parsed, new[k].node),
         KeepsFile, stack' = stack, recovery' = new \o Tail(recovery),
         GivesOf(p), ItemsRight(parsed, items', counters'),
         Whole' => /\ FoundBy(walk, p)'
                   /\ \A x \in Nodes, c \in UnderOf(parsed, p) : Below(parsed, c, x) => WaitsIn(parsed, new, x)
  PROVE  Extracting'
<1> DEFINE rest == new \o Tail(recovery)
<1>1. /\ parsed \in Trees /\ IsTree(parsed) /\ Nodes = NodesOf(parsed)
      /\ stack \in Seq(PendingsOf(parsed)) /\ recovery \in Seq(PendingsOf(parsed))
      /\ items \in Seq(ItemsOf(parsed))
  BY ExtractingFacts
<1>2. /\ RecoveryRight(parsed, walk, recovery) /\ StackRight(parsed, walk, stack)
      /\ walk = "calls" /\ parsed.language = "rust" /\ walk \in Walks
  BY DEF Extracting, RecoveryRight, Walks
<1>3. /\ 1 \in DOMAIN recovery /\ Head(recovery) = recovery[1] /\ Head(recovery) \in PendingsOf(parsed)
      /\ Tail(recovery) \in Seq(PendingsOf(parsed))
  BY <1>1, TailPoints
<1>4. p \in Nodes /\ p \in Nat /\ parsed.last[p] \in Nat /\ p <= parsed.last[p]
  BY <1>1, <1>3, TreeNodes DEF PendingsOf
<1>5. /\ rest \in Seq(PendingsOf(parsed)) /\ EntriesInTurn(parsed, rest)
      /\ \A i \in DOMAIN rest : /\ p < rest[i].node
                                /\ \/ \E k \in DOMAIN new : rest[i] = new[k]
                                   \/ \E k \in DOMAIN recovery : rest[i] = recovery[k]
  BY <1>1, <1>2, Replaced DEF RecoveryRight
<1> HIDE DEF rest
<1>6. RecoveryRight(parsed, walk, rest)
  <2>1. \A i \in DOMAIN rest : Hidden(parsed, rest[i].node) /\ rest[i].caller = CallerOf(parsed, rest[i].node)
    BY <1>2, <1>5 DEF RecoveryRight
  <2> QED
    BY <1>2, <1>5, <2>1 DEF RecoveryRight
<1>7. \A j \in DOMAIN stack : parsed.last[p] < stack[j].node /\ stack[j].node \in Nat
  BY <1>1, <1>3, EntryNode DEF Extracting, Before
<1>8. Before(parsed, rest, stack)
  <2> SUFFICES ASSUME NEW i \in DOMAIN rest, NEW j \in DOMAIN stack
               PROVE  parsed.last[rest[i].node] < stack[j].node
    BY DEF Before
  <2>1. CASE \E k \in DOMAIN new : rest[i] = new[k]
    <3>1. parsed.last[rest[i].node] \in Nat /\ parsed.last[rest[i].node] <= parsed.last[p]
      BY <2>1, <1>1, <1>4, UnderIsNode
    <3> QED
      BY <3>1, <1>4, <1>7
  <2>2. CASE \E k \in DOMAIN recovery : rest[i] = recovery[k]
    BY <2>2 DEF Extracting, Before
  <2> QED
    BY <1>5, <2>1, <2>2
<1>9. Behind(walk, items', stack, rest)
  <2>1. Behind(walk, items, stack, recovery)
    BY DEF Extracting
  <2>2. items' \in Seq(ItemsOf(parsed))
    BY DEF ItemsRight
  <2>3. OnlyOf(p, items, items')
    BY GivesPoints DEF OnlyOf
  <2>4. AllAfter(p, rest)
    BY <1>5 DEF AllAfter
  <2>5. AllAfter(p, stack)
    BY <1>4, <1>7 DEF AllAfter
  <2>6. HasNode(p, recovery)
    BY <1>3 DEF HasNode
  <2> QED
    BY <1>1, <1>4, <1>5, <2>1, <2>2, <2>3, <2>4, <2>5, <2>6, BehindAfter
<1>10. NothingLost'
  <2>1. ASSUME Whole', NEW x \in Nodes, Waiting(x), ~Waiting(x)' PROVE FoundBy(walk, x)'
    <3>1. ~WaitsIn(parsed, rest, x) /\ ~WaitsIn(parsed, stack, x)
      BY <2>1 DEF Waiting, KeepsFile, rest
    <3>2. ~WaitsIn(parsed, new, x) /\ ~WaitsIn(parsed, Tail(recovery), x)
      BY <1>3, <3>1, WaitsJoin DEF rest
    <3>3. WaitsIn(parsed, recovery, x)
      BY <2>1, <3>1 DEF Waiting
    <3>4. Below(parsed, p, x)
      BY <1>1, <3>2, <3>3, WaitsHead
    <3>5. x = p \/ \E c \in UnderOf(parsed, p) : Below(parsed, c, x)
      BY <1>1, <1>4, <3>4, BelowSplits DEF UnderOf
    <3> QED
      BY <2>1, <3>2, <3>5
  <2>2. ItemsKept
    BY GivesPoints
  <2> QED
    BY <2>1, <2>2, WalkLosesNothing DEF KeepsFile
<1>11. KindsGiven(walk, items')
  BY <1>2, KindsKept
<1>12. parsed' = parsed /\ walk' = walk /\ stack' = stack /\ recovery' = rest
  BY DEF KeepsFile, rest
<1>13. /\ parsed' \in Trees /\ walk' \in {"parse", "bindings", "imports", "calls", "done"}
       /\ spent' \in BOOLEAN /\ truncated' \in BOOLEAN /\ timed_out' \in BOOLEAN
       /\ walk' = "imports" => ~parsed'.packImports
       /\ walk' = "calls" => parsed'.language # "other"
  BY <1>1, <1>2, <1>12 DEF KeepsFile
<1> QED
  BY <1>2, <1>6, <1>8, <1>9, <1>10, <1>11, <1>12, <1>13 DEF Extracting

LEMMA NextOfRecovery ==
  ASSUME Extracting, recovery # <<>>, NEW e, e = Head(recovery), NEW p, p = e.node
  PROVE  /\ e \in PendingsOf(parsed) /\ p \in NodesOf(parsed) /\ HasNode(p, recovery)
         /\ Hidden(parsed, p) /\ e.caller = CallerOf(parsed, p) /\ e.caller \in Words(parsed)
         /\ e.level + 1 \in Nat /\ walk = "calls" /\ walk \in Walks /\ parsed.language = "rust"
<1>1. recovery \in Seq(PendingsOf(parsed)) /\ RecoveryRight(parsed, walk, recovery)
  BY ExtractingFacts DEF Extracting
<1>2. 1 \in DOMAIN recovery /\ Head(recovery) = recovery[1] /\ Head(recovery) \in PendingsOf(parsed)
  BY <1>1, TailPoints
<1>3. p \in NodesOf(parsed) /\ e.caller \in Words(parsed) /\ e.level + 1 \in Nat
  BY <1>2 DEF PendingsOf
<1> QED
  BY <1>1, <1>2, <1>3 DEF RecoveryRight, HasNode, Walks

LEMMA GiveRecovered ==
  ASSUME Extracting, Recover, NEW e, e = Head(recovery), NEW p, p = e.node
  PROVE  /\ GivesOf(p) /\ ItemsRight(parsed, items', counters')
         /\ HasCall(parsed, p) => GivenCall(p)'
<1> DEFINE row == IsCall(p) /\ parsed.name[p] # "" /\ NotYetSeen(p)
<1>1. /\ recovery # <<>> /\ parsed' = parsed
      /\ items' = IF row THEN Append(items, CallItem(e)) ELSE items
      /\ counters' = IF row THEN [counters EXCEPT !.calls = @ + 1] ELSE counters
  BY DEF Recover
<1>2. /\ p \in NodesOf(parsed) /\ HasNode(p, recovery) /\ Hidden(parsed, p)
      /\ e.caller = CallerOf(parsed, p) /\ e.caller \in Words(parsed)
      /\ walk = "calls" /\ parsed.language = "rust"
  BY <1>1, NextOfRecovery
<1>3. HasCall(parsed, p) <=> IsCall(p) /\ parsed.name[p] # ""
  BY <1>2 DEF HasCall, IsCall
<1>4. CASE row
  <2>1. items' = Append(items, CallItem(e)) /\ counters' = [counters EXCEPT !.calls = @ + 1]
    BY <1>1, <1>4
  <2>2. HasCall(parsed, p) /\ NotYetSeen(p)
    BY <1>3, <1>4
  <2> QED
    BY <1>1, <1>2, <2>1, <2>2, GiveCall
<1>5. CASE ~row
  <2>1. items' = items /\ counters' = counters
    BY <1>1, <1>5
  <2>2. HasCall(parsed, p) => ~NotYetSeen(p)
    BY <1>3, <1>5
  <2>3. HasCall(parsed, p) => GivenCall(p)'
    BY <1>1, <1>2, <2>1, <2>2, SeenCall
  <2> QED
    BY <2>1, <2>3, GiveNothing
<1> QED
  BY <1>4, <1>5

LEMMA RecoverKeeps ==
  ASSUME Extracting, Recover, NEW e, e = Head(recovery), NEW p, p = e.node,
         NEW kids, kids = Children(e, CallerBelow(p, e.caller))
  PROVE  Extracting'
<1>1. /\ IsTree(parsed) /\ Nodes = NodesOf(parsed) /\ ProbeDepth \in Nat /\ MaxMacroDepth \in Nat
      /\ recovery \in Seq(PendingsOf(parsed))
  BY ExtractingFacts
<1>2. /\ recovery # <<>> /\ parsed' = parsed /\ walk' = walk /\ stack' = stack
  BY ZenonT(60) DEF Recover
<1>3. PICK parse \in Parses :
        /\ OpenFragment(p, e.level + 1, e.caller, parse)
        /\ recovery' = Fragment(p, e.level + 1, e.caller, parse) \o (kids \o Tail(recovery))
  BY DEF Recover
<1>4. /\ e \in PendingsOf(parsed) /\ p \in NodesOf(parsed) /\ Hidden(parsed, p)
      /\ e.caller = CallerOf(parsed, p) /\ e.caller \in Words(parsed) /\ e.level + 1 \in Nat
      /\ walk = "calls" /\ parsed.language = "rust"
  BY <1>2, NextOfRecovery
<1> DEFINE args == Fragment(p, e.level + 1, e.caller, parse)
           new == args \o kids
<1>5. CallerBelow(p, e.caller) \in Words(parsed)
  BY <1>4, CallerBelowIs
<1>6. kids = Pushed(parsed.kids[p], e.depth + 1, CallerBelow(p, e.caller), e.level)
  BY ChildrenAre
<1>7. KidsPending(parsed, e, p, CallerBelow(p, e.caller), kids)
  BY <1>1, <1>4, <1>5, <1>6, KidsOfNext
<1>8. FragmentPending(parsed, p, e.level + 1, parse, args)
  BY <1>1, <1>4, FragmentIs, SMTT(40)
<1> HIDE DEF args
<1>9. ASSUME NEW k \in DOMAIN kids
      PROVE  /\ kids[k].node \in Range(parsed.kids[p]) /\ Hidden(parsed, kids[k].node)
             /\ kids[k].caller = CallerOf(parsed, kids[k].node)
  <2>1. /\ kids[k].node \in Range(parsed.kids[p]) /\ kids[k].caller = CallerBelow(p, e.caller)
        /\ CallerOf(parsed, kids[k].node) =
             IF parsed.kind[p] = "function" THEN parsed.name[p] ELSE CallerOf(parsed, p)
    BY <1>7 DEF KidsPending
  <2>2. Hidden(parsed, kids[k].node)
    BY <1>1, <1>4, <2>1, HiddenUnder DEF UnderOf
  <2> QED
    BY <1>4, <2>1, <2>2 DEF CallerBelow
<1>10. /\ args \in Seq(PendingsOf(parsed)) /\ EntriesInTurn(parsed, args)
       /\ kids \in Seq(PendingsOf(parsed)) /\ EntriesInTurn(parsed, kids)
  BY <1>7, <1>8 DEF KidsPending, FragmentPending
<1>11. \A i \in DOMAIN args, j \in DOMAIN kids : parsed.last[args[i].node] < kids[j].node
  <2> SUFFICES ASSUME NEW i \in DOMAIN args, NEW j \in DOMAIN kids
               PROVE  parsed.last[args[i].node] < kids[j].node
    OBVIOUS
  <2>1. args[i].node \in Range(parsed.inside[p])
    BY <1>8 DEF FragmentPending
  <2>2. PICK m \in DOMAIN parsed.inside[p] : parsed.inside[p][m] = args[i].node
    BY <2>1, InRange
  <2>3. PICK n \in DOMAIN parsed.kids[p] : parsed.kids[p][n] = kids[j].node
    BY <1>9, InRange
  <2> QED
    BY <1>1, <1>4, <2>2, <2>3, TreeOrder
<1>12. new \in Seq(PendingsOf(parsed)) /\ EntriesInTurn(parsed, new)
  BY <1>1, <1>10, <1>11, OrderJoin, JoinPoints
<1>13. ASSUME NEW k \in DOMAIN new
       PROVE  /\ new[k].node \in UnderOf(parsed, p) /\ Hidden(parsed, new[k].node)
              /\ new[k].caller = CallerOf(parsed, new[k].node)
  <2>1. \/ k \in DOMAIN args /\ new[k] = args[k]
        \/ k - Len(args) \in DOMAIN kids /\ new[k] = kids[k - Len(args)]
    BY <1>10, JoinPoints
  <2> HIDE DEF new
  <2>2. CASE k \in DOMAIN args /\ new[k] = args[k]
    BY <2>2, <1>8 DEF FragmentPending, UnderOf
  <2>3. CASE k - Len(args) \in DOMAIN kids /\ new[k] = kids[k - Len(args)]
    <3>1. PICK j \in DOMAIN kids : new[k] = kids[j]
      BY <2>3, SMTT(40)
    <3> QED
      BY <3>1, <1>9 DEF UnderOf
  <2> QED
    BY <2>1, <2>2, <2>3
<1>14. recovery' = new \o Tail(recovery)
  <2>1. Tail(recovery) \in Seq(PendingsOf(parsed))
    BY <1>1, <1>2, TailPoints
  <2>2. args \o (kids \o Tail(recovery)) = (args \o kids) \o Tail(recovery)
    BY <1>10, <2>1, ConcatAssociative
  <2> QED
    BY <1>3, <2>2 DEF args
<1>15. /\ GivesOf(p) /\ ItemsRight(parsed, items', counters')
       /\ HasCall(parsed, p) => GivenCall(p)'
  BY GiveRecovered
<1>16. /\ spent' \in BOOLEAN /\ truncated' \in BOOLEAN /\ timed_out' \in BOOLEAN
       /\ Whole' => Whole
       /\ Whole' => (e.level + 1 < MaxMacroDepth /\ parse = "tree") \/ parsed.inside[p] = <<>>
  BY <1>3, <1>4, OpenSays
<1>17. KeepsFile
  BY <1>2, <1>16 DEF KeepsFile
<1>18. ASSUME Whole'
       PROVE  /\ FoundBy(walk, p)'
              /\ \A x \in Nodes, c \in UnderOf(parsed, p) : Below(parsed, c, x) => WaitsIn(parsed, new, x)
  <2>1. FoundBy(walk, p)'
    BY <1>2, <1>4, <1>15 DEF FoundBy
  <2>2. \A x : WaitsIn(parsed, args, x) <=> \E c \in Range(parsed.inside[p]) : Below(parsed, c, x)
    BY <1>8, <1>16, <1>18 DEF FragmentPending
  <2>3. \A x : WaitsIn(parsed, kids, x) <=> \E c \in Range(parsed.kids[p]) : Below(parsed, c, x)
    BY <1>7 DEF KidsPending
  <2>4. \A x : WaitsIn(parsed, new, x) <=> WaitsIn(parsed, args, x) \/ WaitsIn(parsed, kids, x)
    BY <1>10, WaitsJoin
  <2> HIDE DEF new
  <2> QED
    BY <2>1, <2>2, <2>3, <2>4 DEF UnderOf
<1>19. p = Head(recovery).node
  OBVIOUS
<1> HIDE DEF new
<1> QED
  BY <1>2, <1>12, <1>13, <1>14, <1>15, <1>17, <1>18, RecoveryVisit

-----------------------------------------------------------------------------
(* Evidence: what ends a branch or a walk, and the next walk.               *)

LEMMA NothingPending ==
  ASSUME NEW t, NEW w
  PROVE  StackRight(t, w, <<>>) /\ RecoveryRight(t, w, <<>>)
<1>1. \A X : <<>> \in Seq(X)
  OBVIOUS
<1>2. EntriesInTurn(t, <<>>) /\ \A i \in DOMAIN <<>> : FALSE
  BY NoneWaits
<1> QED
  BY <1>1, <1>2 DEF StackRight, RecoveryRight

\* A cut is said, after which nothing is promised of what was lost.
LEMMA CutKeeps ==
  ASSUME Extracting, parsed' = parsed, walk' = walk, items' = items, counters' = counters,
         spent' \in BOOLEAN, truncated' \in BOOLEAN, timed_out' \in BOOLEAN, ~Whole',
         \/ stack' = <<>> /\ recovery' = recovery
         \/ stack' = stack /\ recovery' = <<>>
  PROVE  Extracting'
<1>1. StackRight(parsed, walk, stack') /\ RecoveryRight(parsed, walk, recovery')
  BY NothingPending DEF Extracting
<1>2. Before(parsed, recovery', stack') /\ Behind(walk, items, stack', recovery')
  <2>1. Before(parsed, recovery, stack) /\ Behind(walk, items, stack, recovery)
    BY DEF Extracting
  <2>2. \A i \in DOMAIN <<>> : FALSE
    OBVIOUS
  <2> QED
    BY <2>1, <2>2 DEF Before, Behind
<1>3. NothingLost'
  BY DEF NothingLost, Whole
<1> QED
  BY <1>1, <1>2, <1>3 DEF Extracting

LEMMA StopKeeps == ASSUME Extracting, Stop \/ StopRecovery PROVE Extracting'
<1>1. CASE Stop
  <2>1. /\ parsed' = parsed /\ walk' = walk /\ items' = items /\ counters' = counters
        /\ spent' \in BOOLEAN /\ truncated' \in BOOLEAN /\ timed_out' \in BOOLEAN /\ ~Whole'
        /\ stack' = <<>> /\ recovery' = recovery
    BY <1>1 DEF Stop, UnchangedFile, Extracting, Whole
  <2> QED
    BY <2>1, CutKeeps
<1>2. CASE StopRecovery
  <2>1. /\ parsed' = parsed /\ walk' = walk /\ items' = items /\ counters' = counters
        /\ spent' \in BOOLEAN /\ truncated' \in BOOLEAN /\ timed_out' \in BOOLEAN /\ ~Whole'
        /\ stack' = stack /\ recovery' = <<>>
    BY <1>2 DEF StopRecovery, UnchangedFile, Extracting, Whole
  <2> QED
    BY <2>1, CutKeeps
<1> QED
  BY <1>1, <1>2

LEMMA TooDeepKeeps ==
  ASSUME Extracting, TooDeep, NEW p, p = Head(stack).node, NEW new, new = <<>>
  PROVE  Extracting'
<1>1. /\ stack # <<>> /\ recovery = <<>> /\ truncated' = TRUE /\ stack' = Tail(stack)
      /\ walk' = walk /\ recovery' = recovery /\ items' = items /\ counters' = counters
      /\ timed_out' = timed_out /\ parsed' = parsed /\ spent' = spent
  BY DEF TooDeep, UnchangedFile
<1>2. /\ new \in Seq(PendingsOf(parsed)) /\ EntriesInTurn(parsed, new) /\ \A k \in DOMAIN new : FALSE
  BY NoneWaits
<1>3. RecoveryRight(parsed, walk, recovery) /\ \A k \in DOMAIN recovery : FALSE
  BY <1>1, NoRecovery
<1>4. KeepsFile /\ ~Whole'
  BY <1>1 DEF KeepsFile, Extracting, Whole
<1>5. stack' = new \o Tail(stack)
  <2>1. Tail(stack) \in Seq(PendingsOf(parsed))
    BY <1>1, ExtractingFacts, TailPoints
  <2> QED
    BY <1>1, <2>1, ConcatEmptySeq
<1>6. GivesOf(p) /\ ItemsRight(parsed, items', counters')
  BY <1>1, GiveNothing
<1> QED
  BY <1>1, <1>2, <1>3, <1>4, <1>5, <1>6, StackVisit

LEMMA PassTooDeepKeeps ==
  ASSUME Extracting, PassTooDeep, NEW p, p = Head(recovery).node, NEW new, new = <<>>
  PROVE  Extracting'
<1>1. /\ recovery # <<>> /\ truncated' = TRUE /\ recovery' = Tail(recovery)
      /\ walk' = walk /\ stack' = stack /\ items' = items /\ counters' = counters
      /\ timed_out' = timed_out /\ parsed' = parsed /\ spent' = spent
  BY DEF PassTooDeep, UnchangedFile
<1>2. /\ new \in Seq(PendingsOf(parsed)) /\ EntriesInTurn(parsed, new) /\ \A k \in DOMAIN new : FALSE
  BY NoneWaits
<1>3. KeepsFile /\ ~Whole'
  BY <1>1 DEF KeepsFile, Extracting, Whole
<1>4. recovery' = new \o Tail(recovery)
  <2>1. Tail(recovery) \in Seq(PendingsOf(parsed))
    BY <1>1, ExtractingFacts, TailPoints
  <2> QED
    BY <1>1, <2>1, ConcatEmptySeq
<1>5. GivesOf(p) /\ ItemsRight(parsed, items', counters')
  BY <1>1, GiveNothing
<1> QED
  BY <1>1, <1>2, <1>3, <1>4, <1>5, RecoveryVisit

\* A sequence of one element.
LEMMA OnlyOne ==
  ASSUME NEW X, NEW e \in X
  PROVE  <<e>> \in Seq(X) /\ DOMAIN <<e>> = {1} /\ <<e>>[1] = e
<1>1. <<e>> \in Seq(X) /\ Len(<<e>>) = 1 /\ <<e>>[1] = e
  OBVIOUS
<1>2. DOMAIN <<e>> = 1 .. Len(<<e>>)
  BY <1>1
<1>3. 1 .. 1 = {1}
  OBVIOUS
<1> QED
  BY <1>1, <1>2, <1>3

\* Before its root is visited a walk has passed nothing.
LEMMA RootPending ==
  ASSUME Extracting, NEW w \in Walks, NEW s, s = <<RootEntry>>
  PROVE  StackRight(parsed, w, s) /\ \A x \in Nodes : WaitsIn(parsed, s, x)
<1>1. IsTree(parsed) /\ Nodes = NodesOf(parsed) /\ "" \in Words(parsed)
  BY ExtractingFacts, NoNameIs
<1>2. /\ 1 \in NodesOf(parsed) /\ ~Hidden(parsed, 1) /\ Depth(parsed, 1) = 0 /\ CallerOf(parsed, 1) = ""
      /\ ~BelowImport(parsed, 1) /\ \A x \in NodesOf(parsed) : Below(parsed, 1, x)
  BY <1>1, TheRoot
<1>3. /\ RootEntry \in PendingsOf(parsed) /\ RootEntry.node = 1 /\ RootEntry.depth = 0
      /\ RootEntry.caller = ""
  BY <1>1, <1>2 DEF RootEntry, Pending, PendingsOf
<1>4. ~Suppressed(RootEntry)
  BY <1>3 DEF Suppressed
<1>5. TrueOf(parsed, w, RootEntry)
  BY <1>2, <1>3, <1>4 DEF TrueOf
<1> HIDE DEF RootEntry
<1>6. s \in Seq(PendingsOf(parsed)) /\ DOMAIN s = {1} /\ s[1] = RootEntry
  BY <1>3, OnlyOne
<1>7. EntriesInTurn(parsed, s)
  BY <1>6 DEF EntriesInTurn
<1>8. StackRight(parsed, w, s)
  BY <1>5, <1>6, <1>7 DEF StackRight, Walks
<1>9. \A x \in Nodes : WaitsIn(parsed, s, x)
  BY <1>1, <1>2, <1>3, <1>6 DEF WaitsIn
<1> QED
  BY <1>8, <1>9

LEMMA WithoutSays ==
  ASSUME Extracting, NEW parse \in Parses, WithoutTree(parse)
  PROVE  /\ spent' \in BOOLEAN /\ truncated' \in BOOLEAN /\ timed_out' \in BOOLEAN
         /\ Whole' => Whole /\ parse = "tree"
<1>1. spent \in BOOLEAN /\ truncated \in BOOLEAN /\ timed_out \in BOOLEAN
  BY DEF Extracting
<1>2. spent' \in BOOLEAN /\ truncated' \in BOOLEAN /\ timed_out' \in BOOLEAN
  BY <1>1, Zenon DEF WithoutTree
<1>3. Whole' => Whole /\ parse # "failed" /\ parse # "cut"
  BY Zenon DEF WithoutTree, Whole
<1> QED
  BY <1>2, <1>3 DEF Parses

\* The walk that comes next starts from the root, or none does.
LEMMA NextWalkKeeps ==
  ASSUME Extracting, stack = <<>>, recovery = <<>>, NEW w \in Walks \cup {"done"}, walk' = w, walk # "done",
         parsed' = parsed, recovery' = recovery, items' = items, counters' = counters,
         spent' \in BOOLEAN, truncated' \in BOOLEAN, timed_out' \in BOOLEAN, Whole' => Whole,
         IF w = "done" THEN stack' = <<>> ELSE stack' = <<RootEntry>>,
         w = "imports" => ~parsed.packImports, w = "calls" => parsed.language # "other",
         KindsGiven(w, items),
         w \in Walks => \A k \in DOMAIN items : items[k].kind # Makes[w],
         Whole' => \A x \in Nodes, v \in Walks : w \in Later[v] => FoundBy(v, x)
  PROVE  Extracting'
<1>1. IsTree(parsed) /\ Nodes = NodesOf(parsed) /\ parsed \in Trees
  BY ExtractingFacts
<1>2. StackRight(parsed, w, stack') /\ RecoveryRight(parsed, w, recovery')
  BY NothingPending, RootPending
<1>3. Before(parsed, recovery', stack') /\ \A i \in DOMAIN recovery' : FALSE
  <2>1. \A i \in DOMAIN recovery' : FALSE
    OBVIOUS
  <2> QED
    BY <2>1 DEF Before
<1>4. Behind(w, items, stack', recovery')
  <2>1. CASE w = "done"
    <3>1. w \notin DOMAIN Makes
      BY <2>1 DEF Makes
    <3> QED
      BY <3>1 DEF Behind
  <2>2. CASE w # "done"
    BY <2>2 DEF Behind
  <2> QED
    BY <2>1, <2>2
<1>5. NothingLost'
  <2>1. (NothingLost <=> LosesNone)'
    BY LostIs, PTL
  <2>2. ItemsKept
    BY DEF ItemsKept
  <2> SUFFICES ASSUME Whole', NEW x \in Nodes, NEW v \in Walks, Passed(v, x)'
               PROVE  FoundBy(v, x)'
    BY <2>1 DEF LosesNone, Nodes
  <2>3. w \in Walks => WaitsIn(parsed, stack', x)
    <3>1. w \in Walks => stack' = <<RootEntry>>
      BY DEF Walks
    <3> QED
      BY <3>1, RootPending
  <2>4. w \in Later[v]
    BY <2>3 DEF Passed, Waiting
  <2>5. FoundBy(v, x)
    BY <2>4
  <2> QED
    BY <2>2, <2>5, FoundKept
<1>6. ItemsRight(parsed, items', counters')
  BY DEF Extracting
<1>7. w \in {"parse", "bindings", "imports", "calls", "done"}
  BY DEF Walks
<1> QED
  BY <1>1, <1>2, <1>3, <1>4, <1>5, <1>6, <1>7 DEF Extracting

LEMMA ParseFileKeeps == ASSUME Extracting, ParseFile PROVE Extracting'
<1>1. PICK parse \in Parses :
        /\ WithoutTree(parse)
        /\ IF parse = "tree" THEN walk' = "bindings" /\ stack' = <<RootEntry>>
           ELSE walk' = "done" /\ stack' = <<>>
  BY DEF ParseFile
<1>2. /\ walk = "parse" /\ parsed' = parsed /\ recovery' = recovery /\ items' = items
      /\ counters' = counters
  BY DEF ParseFile
<1>3. stack = <<>> /\ recovery = <<>>
  BY <1>2 DEF Extracting, StackRight, RecoveryRight
<1>4. /\ spent' \in BOOLEAN /\ truncated' \in BOOLEAN /\ timed_out' \in BOOLEAN
      /\ Whole' => Whole /\ parse = "tree"
  BY <1>1, WithoutSays
<1>5. \A k \in DOMAIN items : FALSE
  BY <1>2 DEF Extracting, KindsGiven
<1>6. KindsGiven(walk', items)
  BY <1>5 DEF KindsGiven
<1>7. CASE parse = "tree"
  <2>1. walk' = "bindings" /\ stack' = <<RootEntry>>
    BY <1>1, <1>7
  <2>2. \A v \in Walks : "bindings" \notin Later[v]
    BY DEF Walks, Later
  <2>3. "bindings" \in Walks
    BY DEF Walks
  <2> QED
    BY <1>2, <1>3, <1>4, <1>5, <1>6, <2>1, <2>2, <2>3, NextWalkKeeps
<1>8. CASE parse # "tree"
  <2>1. walk' = "done" /\ stack' = <<>> /\ ~Whole'
    BY <1>1, <1>4, <1>8
  <2>2. "done" \notin Walks
    BY DEF Walks
  <2> QED
    BY <1>2, <1>3, <1>4, <1>6, <2>1, <2>2, NextWalkKeeps
<1> QED
  BY <1>7, <1>8

LEMMA EndWalkKeeps == ASSUME Extracting, EndWalk PROVE Extracting'
<1>1. PICK parse \in Parses :
        /\ IF NextWalk = "calls" /\ parsed.language = "queried" THEN WithoutTree(parse)
           ELSE parse = "tree" /\ UNCHANGED <<truncated, timed_out, spent>>
        /\ IF NextWalk = "done" \/ parse # "tree" \/ (NextWalk = "calls" /\ parsed.language = "other")
           THEN walk' = "done" /\ stack' = <<>>
           ELSE walk' = NextWalk /\ stack' = <<RootEntry>>
  BY DEF EndWalk
<1>2. /\ walk \in Walks /\ stack = <<>> /\ recovery = <<>> /\ parsed' = parsed /\ recovery' = recovery
      /\ items' = items /\ counters' = counters
  BY DEF EndWalk, Walks
<1>3. /\ spent' \in BOOLEAN /\ truncated' \in BOOLEAN /\ timed_out' \in BOOLEAN
      /\ Whole' => Whole /\ parse = "tree"
  <2>1. CASE NextWalk = "calls" /\ parsed.language = "queried"
    BY <1>1, <2>1, WithoutSays
  <2>2. CASE ~(NextWalk = "calls" /\ parsed.language = "queried")
    BY <1>1, <2>2 DEF Extracting, Whole
  <2> QED
    BY <2>1, <2>2
<1>4. /\ NextWalk \in {"imports", "calls", "done"}
      /\ NextWalk = "imports" => walk = "bindings" /\ ~parsed.packImports
      /\ NextWalk = "calls" => walk = "imports" \/ (walk = "bindings" /\ parsed.packImports)
      /\ NextWalk = "done" => walk = "calls"
  BY <1>2, ExtractingFacts DEF NextWalk, Walks
<1> DEFINE w == walk'
<1>5. /\ w \in {"imports", "calls", "done"} /\ (w # "done" => w = NextWalk)
      /\ IF w = "done" THEN stack' = <<>> ELSE stack' = <<RootEntry>>
      /\ w = "imports" => ~parsed.packImports
      /\ w = "calls" => parsed.language # "other"
      /\ w = "done" => NextWalk = "done" \/ parse # "tree" \/ (NextWalk = "calls" /\ parsed.language = "other")
  BY <1>1, <1>4
<1> HIDE DEF w
<1>6. KindsGiven(walk, items)
  BY DEF Extracting
<1>7. KindsGiven(w, items)
  BY <1>2, <1>4, <1>5, <1>6 DEF KindsGiven, Walks
<1>8. w \in Walks => \A k \in DOMAIN items : items[k].kind # Makes[w]
  BY <1>4, <1>5, <1>6 DEF KindsGiven, Makes, Walks
<1>9. ASSUME Whole', NEW x \in Nodes, NEW v \in Walks, w \in Later[v]
      PROVE  FoundBy(v, x)
  <2>1. Whole /\ parse = "tree" /\ LosesNone
    BY <1>3, <1>9, LostIs DEF Extracting
  <2>2. ~Waiting(x)
    BY <1>2, NoneWaits DEF Waiting
  <2>3. CASE Passed(v, x)
    BY <2>1, <2>3 DEF LosesNone
  <2>4. CASE ~Passed(v, x)
    <3>1. walk # v /\ walk \notin Later[v]
      BY <2>2, <2>4 DEF Passed
    <3>2. \/ v = "imports" /\ parsed.packImports
          \/ v = "imports" /\ walk = "bindings" /\ w = "done"
          \/ v = "calls" /\ walk # "calls" /\ w = "done"
      BY <1>2, <1>4, <1>5, <1>9, <3>1 DEF Later, Walks
    <3>3. w = "done" => NextWalk = "done" \/ (NextWalk = "calls" /\ parsed.language = "other")
      BY <1>5, <2>1
    <3>4. \/ v = "imports" /\ parsed.packImports
          \/ v = "calls" /\ parsed.language = "other"
      BY <1>4, <3>2, <3>3
    <3>5. v = "imports" => ~HasImport(parsed, x)
      BY <3>4 DEF HasImport
    <3>6. v = "calls" => ~HasCall(parsed, x)
      BY <3>4 DEF HasCall
    <3> QED
      BY <3>4, <3>5, <3>6 DEF FoundBy
  <2> QED
    BY <2>3, <2>4
<1>10. w \in Walks \cup {"done"} /\ walk' = w /\ walk # "done"
  BY <1>2, <1>5 DEF Walks, w
<1> QED
  BY <1>2, <1>3, <1>5, <1>7, <1>8, <1>9, <1>10, NextWalkKeeps

LEMMA SpendKeeps == ASSUME Extracting, Spend \/ UNCHANGED evidenceVars PROVE Extracting'
<1>1. /\ parsed' = parsed /\ walk' = walk /\ stack' = stack /\ recovery' = recovery /\ items' = items
      /\ counters' = counters /\ truncated' = truncated /\ timed_out' = timed_out
      /\ spent' \in BOOLEAN
  BY DEF Spend, evidenceVars, Extracting
<1>2. NothingLost'
  BY <1>1 DEF Extracting, NothingLost, Passed, Waiting, GivenAs, GivenCall, Nodes
<1> QED
  BY <1>1, <1>2 DEF Extracting

LEMMA ExtractingStarts == EvidenceInit => Extracting
<1> SUFFICES ASSUME EvidenceInit PROVE Extracting
  OBVIOUS
<1>1. /\ parsed \in Trees /\ walk = "parse" /\ stack = <<>> /\ recovery = <<>> /\ items = <<>>
      /\ counters = [walkers |-> 0, calls |-> 0]
      /\ spent = FALSE /\ truncated = FALSE /\ timed_out = FALSE
  BY DEF EvidenceInit
<1>2. \A i \in DOMAIN <<>> : FALSE
  OBVIOUS
<1>3. StackRight(parsed, walk, stack) /\ RecoveryRight(parsed, walk, recovery)
  BY <1>1, NothingPending
<1>4. ItemsRight(parsed, items, counters)
  BY <1>1, <1>2 DEF ItemsRight, CountersType, Keyed, Facts, OneCall
<1>5. Before(parsed, recovery, stack) /\ KindsGiven(walk, items) /\ Behind(walk, items, stack, recovery)
  BY <1>1, <1>2 DEF Before, KindsGiven, Behind
<1>6. NothingLost
  <2>1. \A v \in Walks, x \in Nodes : ~Passed(v, x)
    BY <1>1 DEF Walks, Passed, Later
  <2> QED
    BY <2>1, LostIs DEF LosesNone
<1> QED
  BY <1>1, <1>3, <1>4, <1>5, <1>6 DEF Extracting

LEMMA ExtractingSteps == Extracting /\ [EvidenceNext]_evidenceVars => Extracting'
<1> SUFFICES ASSUME Extracting, [EvidenceNext]_evidenceVars PROVE Extracting'
  OBVIOUS
<1>1. ASSUME ParseFile PROVE Extracting'
  BY <1>1, ParseFileKeeps
<1>2. ASSUME Stop \/ StopRecovery PROVE Extracting'
  BY <1>2, StopKeeps
<1>3. ASSUME TooDeep PROVE Extracting'
  BY <1>3, TooDeepKeeps
<1>4. ASSUME VisitBinding PROVE Extracting'
  BY <1>4, VisitBindingKeeps
<1>5. ASSUME VisitImport PROVE Extracting'
  BY <1>5, VisitImportKeeps
<1>6. ASSUME VisitRust PROVE Extracting'
  BY <1>6, VisitRustKeeps
<1>7. ASSUME VisitQueried PROVE Extracting'
  BY <1>7, VisitQueriedKeeps
<1>8. ASSUME PassTooDeep PROVE Extracting'
  BY <1>8, PassTooDeepKeeps
<1>9. ASSUME Recover PROVE Extracting'
  BY <1>9, RecoverKeeps
<1>10. ASSUME EndWalk PROVE Extracting'
  BY <1>10, EndWalkKeeps
<1>11. ASSUME Spend \/ UNCHANGED evidenceVars PROVE Extracting'
  BY <1>11, SpendKeeps
<1> QED
  BY <1>1, <1>2, <1>3, <1>4, <1>5, <1>6, <1>7, <1>8, <1>9, <1>10, <1>11 DEF EvidenceNext

\* The inductive invariant of the extraction (src/src/evidence/mod.rs, its walkers): what is pending
\* comes in the order of the source with what the tree says of it, what was given is behind it, and
\* while nothing was cut a walk has given all it has passed.
THEOREM EvidenceInvHolds == EvidenceSpec => []EvidenceInv
<1>1. EvidenceSpec => []Extracting
  BY ExtractingStarts, ExtractingSteps, PTL DEF EvidenceSpec
<1> QED
  BY <1>1, ExtractingIsInv, PTL

\* An extraction that says nothing of a cut has every binding, import and call of the file, those in
\* the arguments of macros included, each once and with its caller; a cut one has nothing that is not
\* there.
THEOREM EvidenceHolds == EvidenceSpec => []EvidenceIsExact
<1>1. EvidenceInv => EvidenceIsExact
  BY DEF EvidenceInv
<1> QED
  BY <1>1, EvidenceInvHolds, PTL
=============================================================================
