----------------------------- MODULE HomeProofs -----------------------------
(***************************************************************************)
(* HomeCurrent and StatsAgree, for any histories, banks, catalogues of     *)
(* labs and limits, and any number of steps of the user.                   *)
(*                                                                         *)
(* What the pages show is computed from the rows when they are refreshed.  *)
(* So the proof has three parts.  The functions: a sort puts first what is *)
(* ahead of all others, the tallies of a group add up to those of what is  *)
(* grouped.  The rows: however attempts and labs are started, saved,       *)
(* abandoned and finished, one attempt at most is active, only the         *)
(* finished have answers and the last finish is the latest.  The pages:    *)
(* what could make a page stale leaves it, makes its refresh due or is set *)
(* aside.                                                                  *)
(***************************************************************************)
EXTENDS StudyHome, StudyProofs

-----------------------------------------------------------------------------
(* Sorting.  A strict total order of a finite set gives its elements the    *)
(* ranks 0..n-1, each once.                                                 *)

IsOrder(S, ahead) ==
    /\ \A x \in S : ahead[x] \subseteq S /\ x \notin ahead[x]
    /\ \A x, y \in S : x # y => (y \in ahead[x] <=> x \notin ahead[y])
    /\ \A x, y \in S : y \in ahead[x] => ahead[y] \subseteq ahead[x]

\* Each element once, in order.
Sorts(s, S, ahead) ==
    /\ s \in Seq(S) /\ Len(s) = Cardinality(S)
    /\ \A x \in S : \E k \in DOMAIN s : s[k] = x
    /\ \A j, k \in DOMAIN s : j < k => s[j] \in ahead[s[k]]

LEMMA RanksDiffer ==
    ASSUME NEW S, IsFiniteSet(S), NEW ahead, IsOrder(S, ahead)
    PROVE  /\ \A x \in S : Cardinality(ahead[x]) \in 0..(Cardinality(S) - 1)
           /\ \A x, y \in S : y \in ahead[x] => Cardinality(ahead[y]) < Cardinality(ahead[x])
<1>1. \A x \in S : IsFiniteSet(ahead[x]) /\ Cardinality(ahead[x]) \in Nat
  BY FS_Subset, FS_CardinalityType DEF IsOrder
<1>2. Cardinality(S) \in Nat
  BY FS_CardinalityType
<1>3. ASSUME NEW x \in S PROVE Cardinality(ahead[x]) <= Cardinality(S) - 1
  <2>1. ahead[x] \subseteq S \ {x}
    BY DEF IsOrder
  <2>2. IsFiniteSet(S \ {x}) /\ Cardinality(S \ {x}) = Cardinality(S) - 1
    BY FS_RemoveElement
  <2> QED
    BY <2>1, <2>2, FS_Subset
<1>4. ASSUME NEW x \in S, NEW y \in S, y \in ahead[x]
      PROVE  Cardinality(ahead[y]) < Cardinality(ahead[x])
  <2>1. ahead[y] \subseteq ahead[x] \ {y}
    BY <1>4 DEF IsOrder
  <2>2. IsFiniteSet(ahead[x] \ {y}) /\ Cardinality(ahead[x] \ {y}) = Cardinality(ahead[x]) - 1
    BY <1>1, <1>4, FS_RemoveElement
  <2>3. Cardinality(ahead[y]) <= Cardinality(ahead[x]) - 1
    BY <2>1, <2>2, FS_Subset
  <2> QED
    BY <1>1, <2>3
<1> QED
  BY <1>1, <1>2, <1>3, <1>4

LEMMA InRankSorts ==
    ASSUME NEW S, IsFiniteSet(S), NEW ahead, IsOrder(S, ahead)
    PROVE  Sorts(InRank(S, ahead), S, ahead)
<1> DEFINE n == Cardinality(S)
           rank == [x \in S |-> Cardinality(ahead[x])]
           s == InRank(S, ahead)
<1>1. n \in Nat
  BY FS_CardinalityType
<1>2. rank \in [S -> 0..(n - 1)]
  BY RanksDiffer
<1>3. \A x, y \in S : y \in ahead[x] => rank[y] < rank[x]
  BY RanksDiffer
<1>4. \A x, y \in S : rank[x] = rank[y] => x = y
  <2> SUFFICES ASSUME NEW x \in S, NEW y \in S, x # y, rank[x] = rank[y] PROVE FALSE
    OBVIOUS
  <2>1. y \in ahead[x] \/ x \in ahead[y]
    BY DEF IsOrder
  <2>2. rank[y] < rank[x] \/ rank[x] < rank[y]
    BY <1>3, <2>1
  <2>3. rank[x] \in Int /\ rank[y] \in Int
    <3> HIDE DEF rank, n
    <3> QED
      BY <1>1, <1>2
  <2> HIDE DEF rank
  <2> QED
    BY <2>2, <2>3
<1>5. rank \in Surjection(S, 0..(n - 1))
  <2> HIDE DEF rank, n
  <2>1. rank \in Injection(S, 0..(n - 1))
    BY <1>2, <1>4 DEF Injection, IsInjective
  <2>2. 0 \in Int /\ n - 1 \in Int
    BY <1>1
  <2>3. IsFiniteSet(0..(n - 1)) /\ Cardinality(0..(n - 1)) = n
    BY <1>1, <2>2, FS_Interval
  <2> QED
    BY <2>1, <2>3, FS_Injection DEF n
<1>6. ASSUME NEW k \in 1..n PROVE s[k] \in S /\ rank[s[k]] = k - 1
  <2>1. s[k] = CHOOSE x \in S : Cardinality(ahead[x]) = k - 1
    BY DEF InRank
  <2>2. \E x \in S : Cardinality(ahead[x]) = k - 1
    <3>1. k - 1 \in 0..(n - 1)
      BY <1>1
    <3>2. \E x \in S : rank[x] = k - 1
      <4> HIDE DEF rank, n
      <4> QED
        BY <1>5, <3>1 DEF Surjection
    <3> QED
      BY <3>2
  <2>3. s[k] \in S /\ Cardinality(ahead[s[k]]) = k - 1
    <3> HIDE DEF s
    <3> QED
      BY <2>1, <2>2
  <2> QED
    BY <2>3
<1>7. s = [k \in 1..n |-> s[k]]
  BY DEF InRank
<1> HIDE DEF s, rank, n
<1>8. s \in Seq(S) /\ Len(s) = n /\ DOMAIN s = 1..n
  <2>1. s \in [1..n -> S]
    BY <1>6, <1>7
  <2> QED
    BY <1>1, <2>1
<1>9. ASSUME NEW x \in S PROVE \E k \in DOMAIN s : s[k] = x
  <2>1. rank[x] \in 0..(n - 1)
    BY <1>2
  <2>2. rank[x] + 1 \in 1..n /\ (rank[x] + 1) - 1 = rank[x]
    BY <1>1, <2>1
  <2>3. s[rank[x] + 1] = x
    BY <1>4, <1>6, <2>2
  <2> QED
    BY <1>8, <2>2, <2>3
<1>10. ASSUME NEW j \in 1..n, NEW k \in 1..n, j < k PROVE s[j] \in ahead[s[k]]
  <2>1. rank[s[j]] = j - 1 /\ rank[s[k]] = k - 1 /\ s[j] \in S /\ s[k] \in S
    BY <1>6
  <2>2. s[j] # s[k] /\ ~(rank[s[k]] < rank[s[j]])
    BY <1>1, <1>10, <2>1
  <2>3. s[k] \notin ahead[s[j]]
    BY <1>3, <2>1, <2>2
  <2> QED
    BY <2>1, <2>2, <2>3 DEF IsOrder
<1> QED
  BY <1>8, <1>9, <1>10 DEF Sorts, n, s

LEMMA FirstInOrder ==
    ASSUME NEW S, NEW ahead, NEW s, Sorts(s, S, ahead), NEW x \in S, ahead[x] = {}
    PROVE  Len(s) \in Nat /\ Len(s) > 0 /\ DOMAIN s = 1..Len(s) /\ s[1] = x
<1>1. DOMAIN s = 1..Len(s) /\ Len(s) \in Nat
  BY DEF Sorts
<1>2. PICK k \in DOMAIN s : s[k] = x
  BY DEF Sorts
<1>3. Len(s) > 0 /\ 1 \in DOMAIN s
  BY <1>1, <1>2
<1>4. CASE k = 1
  BY <1>1, <1>2, <1>3, <1>4
<1>5. CASE k # 1
  <2>1. 1 < k
    BY <1>1, <1>2, <1>5
  <2>2. s[1] \in ahead[s[k]]
    BY <1>2, <1>3, <2>1 DEF Sorts
  <2> QED
    BY <1>2, <2>2
<1> QED
  BY <1>4, <1>5

\* The first of a sorted sequence is ahead of all others.
LEMMA FirstIsAhead ==
    ASSUME NEW S, IsFiniteSet(S), S # {}, NEW ahead, NEW s, Sorts(s, S, ahead)
    PROVE  Len(s) > 0 /\ 1 \in DOMAIN s /\ s[1] \in S /\ \A x \in S : x = s[1] \/ s[1] \in ahead[x]
<1>1. DOMAIN s = 1..Len(s) /\ Len(s) \in Nat
  BY DEF Sorts
<1>2. PICK y \in S : TRUE
  OBVIOUS
<1>3. PICK m \in DOMAIN s : s[m] = y
  BY DEF Sorts
<1>4. Len(s) > 0 /\ 1 \in DOMAIN s /\ s[1] \in S
  BY <1>1, <1>3 DEF Sorts
<1>5. ASSUME NEW x \in S PROVE x = s[1] \/ s[1] \in ahead[x]
  <2>1. PICK k \in DOMAIN s : s[k] = x
    BY DEF Sorts
  <2>2. CASE k = 1
    BY <2>1, <2>2
  <2>3. CASE k # 1
    <3>1. 1 < k
      BY <1>1, <2>1, <2>3
    <3> QED
      BY <1>4, <2>1, <3>1 DEF Sorts
  <2> QED
    BY <2>2, <2>3
<1> QED
  BY <1>4, <1>5

\* The later ones come first, those of one time in their order.
Later(ids, time) == [k \in ids |-> {j \in ids : time[j] > time[k] \/ (time[j] = time[k] /\ j < k)}]

LEMMA LaterIsOrder ==
    ASSUME NEW ids, ids \subseteq Int, NEW time, \A k \in ids : time[k] \in Int
    PROVE  IsOrder(ids, Later(ids, time))
<1> DEFINE A == Later(ids, time)
<1>1. \A k \in ids : A[k] = {j \in ids : time[j] > time[k] \/ (time[j] = time[k] /\ j < k)}
  BY DEF Later
<1> HIDE DEF A
<1>2. \A k \in ids : A[k] \subseteq ids /\ k \notin A[k]
  BY <1>1
<1>3. ASSUME NEW j \in ids, NEW k \in ids, j # k PROVE k \in A[j] <=> j \notin A[k]
  <2>1. time[j] \in Int /\ time[k] \in Int /\ j \in Int /\ k \in Int
    OBVIOUS
  <2>2. k \in A[j] <=> (time[k] > time[j] \/ (time[k] = time[j] /\ k < j))
    BY <1>1
  <2>3. j \in A[k] <=> (time[j] > time[k] \/ (time[j] = time[k] /\ j < k))
    BY <1>1
  <2> QED
    BY <1>3, <2>1, <2>2, <2>3
<1>4. ASSUME NEW j \in ids, NEW k \in ids, k \in A[j] PROVE A[k] \subseteq A[j]
  <2> SUFFICES ASSUME NEW i \in A[k] PROVE i \in A[j]
    OBVIOUS
  <2>1. i \in ids /\ (time[i] > time[k] \/ (time[i] = time[k] /\ i < k))
    BY <1>1
  <2>2. time[k] > time[j] \/ (time[k] = time[j] /\ k < j)
    BY <1>1, <1>4
  <2>3. time[i] \in Int /\ time[j] \in Int /\ time[k] \in Int /\ i \in Int /\ j \in Int /\ k \in Int
    BY <2>1
  <2>4. time[i] > time[j] \/ (time[i] = time[j] /\ i < j)
    BY <2>1, <2>2, <2>3
  <2> QED
    BY <1>1, <2>1, <2>4
<1>5. IsOrder(ids, A)
  BY <1>2, <1>3, <1>4 DEF IsOrder
<1> QED
  BY <1>5 DEF A

-----------------------------------------------------------------------------
(* The rows: what has been finished has the times 1..Clock-1, and the last  *)
(* one is among the attempts or the labs.                                   *)

IsRow(r) ==
    /\ DOMAIN r = RowFields /\ r.answered \in Nat
    /\ r.status = "finished" <=> r.finish # None
    /\ DOMAIN r.sheet \subseteq Questions /\ IsFiniteSet(DOMAIN r.sheet)
    /\ r.finish = None => DOMAIN r.sheet = {}
    /\ r.status = "active" => r.finish = None

Over(rows) == {i \in DOMAIN rows : rows[i].finish # None}
Time(rows, runs) == 1 + Len(runs) + Cardinality(Over(rows))

Timely(rows, runs, now) ==
    /\ \A i \in Over(rows) : rows[i].finish \in 1..(now - 1)
    /\ \A k \in DOMAIN runs : runs[k].finish \in 1..(now - 1)
    /\ \A j, k \in DOMAIN runs : j < k => runs[j].finish <= runs[k].finish
    /\ now > 1 => \/ \E i \in Over(rows) : rows[i].finish = now - 1
                  \/ \E k \in DOMAIN runs : runs[k].finish = now - 1

Rows(rows, runs) ==
    /\ rows \in Seq({rows[i] : i \in DOMAIN rows}) /\ runs \in Seq({runs[k] : k \in DOMAIN runs})
    /\ \A i \in DOMAIN rows : IsRow(rows[i])
    /\ \A i, j \in DOMAIN rows : rows[i].status = "active" /\ rows[j].status = "active" => i = j
    /\ Timely(rows, runs, Time(rows, runs))

LEMMA ClockIsTime == Clock = Time(exams, labRuns)
BY DEF Clock, Time, Over

LEMMA RowsDomains ==
    ASSUME NEW rows, NEW runs, Rows(rows, runs)
    PROVE  /\ DOMAIN rows = 1..Len(rows) /\ Len(rows) \in Nat /\ IsFiniteSet(DOMAIN rows)
           /\ DOMAIN runs = 1..Len(runs) /\ Len(runs) \in Nat
           /\ IsFiniteSet(Over(rows)) /\ Cardinality(Over(rows)) \in Nat
           /\ Time(rows, runs) \in Nat \ {0}
<1>1. DOMAIN rows = 1..Len(rows) /\ Len(rows) \in Nat /\ DOMAIN runs = 1..Len(runs) /\ Len(runs) \in Nat
  BY DEF Rows
<1>2. 1 \in Int /\ Len(rows) \in Int
  BY <1>1
<1>3. IsFiniteSet(DOMAIN rows)
  BY <1>1, <1>2, FS_Interval
<1>4. IsFiniteSet(Over(rows)) /\ Cardinality(Over(rows)) \in Nat
  <2>1. Over(rows) \subseteq DOMAIN rows
    BY DEF Over
  <2> QED
    BY <1>3, <2>1, FS_Subset, FS_CardinalityType
<1>5. Time(rows, runs) \in Nat \ {0}
  BY <1>1, <1>4 DEF Time
<1> QED
  BY <1>1, <1>3, <1>4, <1>5

LEMMA WhenIsNat ==
    ASSUME Rows(exams, labRuns)
    PROVE  /\ \A i \in DOMAIN exams : When(exams[i]) \in 0..(Clock - 1)
           /\ \A k \in DOMAIN labRuns : When(labRuns[k]) = labRuns[k].finish /\ When(labRuns[k]) \in 1..(Clock - 1)
           /\ Clock \in Nat \ {0}
<1>1. Clock = Time(exams, labRuns) /\ Clock \in Nat \ {0}
  BY ClockIsTime, RowsDomains
<1>2. Timely(exams, labRuns, Clock)
  BY <1>1 DEF Rows
<1> HIDE DEF Clock
<1>3. None \notin Nat
  BY TimesAssumption
<1> QED
  BY <1>1, <1>2, <1>3 DEF Timely, Over, When

-----------------------------------------------------------------------------
(* Histories.                                                              *)

LEMMA CountsTo == ASSUME NEW n \in Nat PROVE Cardinality(1..n) = n
<1>1. 1 \in Int /\ n \in Int
  OBVIOUS
<1>2. Cardinality(1..n) = IF 1 > n THEN 0 ELSE (n - 1) + 1
  BY <1>1, FS_Interval
<1> QED
  BY <1>2

LEMMA UptoKeeps ==
    ASSUME NEW S, NEW s \in Seq(S), NEW n \in Nat
    PROVE  /\ Upto(n, s) \in Seq(S)
           /\ Len(Upto(n, s)) = IF Len(s) < n THEN Len(s) ELSE n
           /\ \A k \in 1..Len(Upto(n, s)) : Upto(n, s)[k] = s[k]
<1>1. Len(s) \in Nat
  OBVIOUS
<1> DEFINE m == IF Len(s) < n THEN Len(s) ELSE n
<1>2. m \in 0..Len(s)
  BY <1>1
<1>3. Upto(n, s) = SubSeq(s, 1, m)
  BY DEF Upto
<1> HIDE DEF m
<1>4. SubSeq(s, 1, m) \in Seq(S) /\ Len(SubSeq(s, 1, m)) = m /\ \A k \in 1..m : SubSeq(s, 1, m)[k] = s[k]
  BY <1>1, <1>2
<1> QED
  BY <1>3, <1>4 DEF m

Times == [i \in DOMAIN exams |-> When(exams[i])]

LEMMA NewestSorts ==
    ASSUME Rows(exams, labRuns), NEW ids \in SUBSET DOMAIN exams
    PROVE  IsFiniteSet(ids) /\ Sorts(NewestFirst(ids), ids, Later(ids, Times))
<1>1. IsFiniteSet(ids) /\ ids \subseteq Int
  <2>1. DOMAIN exams \subseteq Int
    BY RowsDomains
  <2> QED
    BY <2>1, RowsDomains, FS_Subset
<1>2. \A i \in ids : Times[i] = When(exams[i]) /\ Times[i] \in Int
  BY WhenIsNat DEF Times
<1>3. NewestFirst(ids) = InRank(ids, Later(ids, Times))
  <2>1. Later(ids, Times)
          = [x \in ids |-> {y \in ids : \/ When(exams[y]) > When(exams[x])
                                        \/ When(exams[y]) = When(exams[x]) /\ y < x}]
    BY <1>2 DEF Later
  <2> QED
    BY <2>1 DEF NewestFirst, Ranked
<1> QED
  BY <1>1, <1>2, <1>3, LaterIsOrder, InRankSorts

Newest == NewestFirst(DOMAIN exams)[1]

LEMMA NewestIsLast ==
    ASSUME Rows(exams, labRuns), exams # <<>>
    PROVE  Newest \in DOMAIN exams /\ \A i \in DOMAIN exams : When(exams[i]) <= When(exams[Newest])
<1> DEFINE ids == DOMAIN exams
           s == NewestFirst(ids)
<1>1. IsFiniteSet(ids) /\ Sorts(s, ids, Later(ids, Times))
  BY NewestSorts
<1>2. ids # {}
  BY RowsDomains DEF Rows
<1>3. s[1] \in ids /\ \A i \in ids : i = s[1] \/ s[1] \in Later(ids, Times)[i]
  <2> HIDE DEF ids, s
  <2> QED
    BY <1>1, <1>2, FirstIsAhead
<1>4. ASSUME NEW i \in ids PROVE When(exams[i]) <= When(exams[s[1]])
  <2>1. When(exams[i]) \in Int /\ When(exams[s[1]]) \in Int
    BY <1>3, WhenIsNat
  <2>2. CASE s[1] \in Later(ids, Times)[i]
    <3>1. Times[s[1]] > Times[i] \/ Times[s[1]] = Times[i]
      BY <2>2 DEF Later
    <3> HIDE DEF s
    <3> QED
      BY <1>3, <2>1, <3>1 DEF Times
  <2> QED
    BY <1>3, <2>1, <2>2
<1> QED
  BY <1>3, <1>4 DEF Newest

LEMMA ExamHistoryHeads ==
    ASSUME Rows(exams, labRuns), NEW n \in Nat \ {0}
    PROVE  /\ ExamHistory(n) \in Seq({x \in Range(ExamHistory(n)) : When(x) \in Nat})
           /\ ExamHistory(n) = <<>> <=> exams = <<>>
           /\ exams # <<>> => /\ ExamHistory(n)[1] = ExamItem(Newest)
                              /\ \A k \in DOMAIN ExamHistory(n) :
                                    When(ExamHistory(n)[k]) <= When(ExamItem(Newest))
<1> DEFINE s == NewestFirst(DOMAIN exams)
           ids == Upto(n, s)
           h == ExamHistory(n)
<1>1. s \in Seq(DOMAIN exams) /\ Len(s) = Len(exams)
  <2>1. Sorts(s, DOMAIN exams, Later(DOMAIN exams, Times))
    BY NewestSorts
  <2>2. Cardinality(DOMAIN exams) = Len(exams)
    <3>1. DOMAIN exams = 1..Len(exams) /\ 1 \in Int /\ Len(exams) \in Int /\ Len(exams) \in Nat
      BY RowsDomains
    <3>2. Cardinality(1..Len(exams)) = Len(exams)
      BY <3>1, CountsTo
    <3> QED
      BY <3>1, <3>2
  <2> QED
    BY <2>1, <2>2 DEF Sorts
<1>2. /\ ids \in Seq(DOMAIN exams) /\ Len(ids) = IF Len(s) < n THEN Len(s) ELSE n
      /\ \A k \in 1..Len(ids) : ids[k] = s[k]
  <2> HIDE DEF s
  <2> QED
    BY <1>1, UptoKeeps
<1>3. h = [k \in DOMAIN ids |-> ExamItem(ids[k])]
  BY DEF ExamHistory
<1>4. DOMAIN exams = 1..Len(exams) /\ Len(exams) \in Nat /\ exams \in Seq({exams[i] : i \in DOMAIN exams})
  BY RowsDomains DEF Rows
<1>5. Newest = s[1]
  BY DEF Newest
<1> HIDE DEF s, ids, h
<1>6. DOMAIN h = 1..Len(ids) /\ Len(ids) \in Nat /\ \A k \in DOMAIN h : ids[k] \in DOMAIN exams /\ h[k] = ExamItem(ids[k])
  BY <1>2, <1>3
<1>7. \A i \in DOMAIN exams : When(ExamItem(i)) = When(exams[i]) /\ When(ExamItem(i)) \in Nat
  BY WhenIsNat DEF When, ExamItem
<1>8. h \in Seq({x \in Range(h) : When(x) \in Nat})
  <2>1. \A k \in DOMAIN h : h[k] \in {x \in Range(h) : When(x) \in Nat}
    BY <1>6, <1>7 DEF Range
  <2>2. h \in [1..Len(ids) -> {x \in Range(h) : When(x) \in Nat}]
    BY <1>3, <1>6, <2>1
  <2> QED
    BY <1>6, <2>2
<1>9. h = <<>> <=> exams = <<>>
  <2>1. h = <<>> <=> Len(ids) = 0
    BY <1>6, <1>8
  <2>2. exams = <<>> <=> Len(exams) = 0
    BY <1>4
  <2> QED
    BY <1>1, <1>2, <1>4, <2>1, <2>2
<1>10. ASSUME exams # <<>>
       PROVE  h[1] = ExamItem(Newest) /\ \A k \in DOMAIN h : When(h[k]) <= When(ExamItem(Newest))
  <2>1. 1 \in DOMAIN h
    BY <1>6, <1>8, <1>9, <1>10
  <2>2. ids[1] = Newest
    BY <1>2, <1>5, <1>6, <2>1
  <2>3. \A i \in DOMAIN exams : When(ExamItem(i)) <= When(ExamItem(Newest))
    BY <1>7, <1>10, NewestIsLast
  <2> QED
    BY <1>6, <2>1, <2>2, <2>3
<1> QED
  BY <1>8, <1>9, <1>10 DEF h

LastLab == labRuns[Len(labRuns)]

LEMMA LabHistoryHeads ==
    ASSUME Rows(exams, labRuns), NEW n \in Nat \ {0}
    PROVE  /\ LabHistory(n) \in Seq({x \in Range(LabHistory(n)) : When(x) \in Nat})
           /\ LabHistory(n) = <<>> <=> labRuns = <<>>
           /\ labRuns # <<>> => /\ LabHistory(n)[1] = LabItem(LastLab)
                                /\ \A k \in DOMAIN LabHistory(n) :
                                      When(LabHistory(n)[k]) <= When(LabItem(LastLab))
                                /\ \A k \in DOMAIN labRuns : labRuns[k].finish <= LabItem(LastLab).finish
                                /\ When(LabItem(LastLab)) = LastLab.finish /\ LabItem(LastLab).finish = LastLab.finish
<1> DEFINE S == {labRuns[k] : k \in DOMAIN labRuns}
           s == Reverse(labRuns)
           runs == Upto(n, s)
           h == LabHistory(n)
<1>1. DOMAIN labRuns = 1..Len(labRuns) /\ Len(labRuns) \in Nat /\ labRuns \in Seq(S)
  BY RowsDomains DEF Rows
<1>2. s \in Seq(S) /\ Len(s) = Len(labRuns) /\ \A k \in 1..Len(labRuns) : s[k] = labRuns[(Len(labRuns) - k) + 1]
  <2>1. s = [i \in 1..Len(labRuns) |-> labRuns[(Len(labRuns) - i) + 1]]
    BY DEF Reverse
  <2>2. \A i \in 1..Len(labRuns) : (Len(labRuns) - i) + 1 \in DOMAIN labRuns
    BY <1>1
  <2>3. s \in [1..Len(labRuns) -> S]
    BY <2>1, <2>2
  <2> HIDE DEF s, S
  <2> QED
    BY <1>1, <2>1, <2>3
<1>3. /\ runs \in Seq(S) /\ Len(runs) = IF Len(s) < n THEN Len(s) ELSE n
      /\ \A k \in 1..Len(runs) : runs[k] = s[k]
  <2> HIDE DEF s, S
  <2> QED
    BY <1>2, UptoKeeps
<1>4. h = [k \in DOMAIN runs |-> LabItem(runs[k])]
  BY DEF LabHistory
<1>5. \A x \in S : When(LabItem(x)) = x.finish /\ LabItem(x).finish = x.finish /\ x.finish \in Nat
  <2>1. \A k \in DOMAIN labRuns : When(labRuns[k]) = labRuns[k].finish /\ labRuns[k].finish \in Nat
    BY WhenIsNat
  <2> QED
    BY <2>1, TimesAssumption DEF When, LabItem
<1> DEFINE last == LabItem(LastLab)
<1>6. \A x \in S : labRuns # <<>> => LastLab \in S /\ x.finish <= last.finish
  <2> SUFFICES ASSUME labRuns # <<>>, NEW k \in DOMAIN labRuns PROVE LastLab \in S /\ labRuns[k].finish <= last.finish
    OBVIOUS
  <2>1. Len(labRuns) \in DOMAIN labRuns
    BY <1>1
  <2>2. LastLab \in S
    BY <2>1 DEF LastLab
  <2>3. k = Len(labRuns) \/ k < Len(labRuns)
    BY <1>1
  <2>4. k = Len(labRuns) \/ labRuns[k].finish <= labRuns[Len(labRuns)].finish
    BY <2>1, <2>3 DEF Rows, Timely
  <2>5. labRuns[k].finish <= LastLab.finish
    BY <1>5, <2>2, <2>4 DEF LastLab
  <2> QED
    BY <1>5, <2>2, <2>5
<1> HIDE DEF s, runs, h, S, last
<1>7. DOMAIN h = 1..Len(runs) /\ Len(runs) \in Nat /\ \A k \in DOMAIN h : runs[k] \in S /\ h[k] = LabItem(runs[k])
  BY <1>3, <1>4
<1>8. h \in Seq({x \in Range(h) : When(x) \in Nat})
  <2>1. \A k \in DOMAIN h : h[k] \in {x \in Range(h) : When(x) \in Nat}
    BY <1>5, <1>7 DEF Range
  <2>2. h \in [1..Len(runs) -> {x \in Range(h) : When(x) \in Nat}]
    BY <1>4, <1>7, <2>1
  <2> QED
    BY <1>7, <2>2
<1>9. h = <<>> <=> labRuns = <<>>
  <2>1. h = <<>> <=> Len(runs) = 0
    BY <1>7, <1>8
  <2>2. labRuns = <<>> <=> Len(labRuns) = 0
    BY <1>1
  <2> QED
    BY <1>1, <1>2, <1>3, <2>1, <2>2
<1>10. ASSUME labRuns # <<>>
       PROVE  /\ h[1] = last /\ \A k \in DOMAIN h : When(h[k]) <= When(last)
              /\ \A k \in DOMAIN labRuns : labRuns[k].finish <= last.finish
              /\ When(last) = LastLab.finish /\ last.finish = LastLab.finish
  <2>1. 1 \in DOMAIN h /\ Len(labRuns) > 0
    BY <1>1, <1>7, <1>8, <1>9, <1>10
  <2>2. runs[1] = LastLab
    <3>1. 1 \in 1..Len(runs) /\ 1 \in 1..Len(labRuns)
      BY <1>1, <1>7, <2>1
    <3>2. runs[1] = s[1] /\ s[1] = labRuns[(Len(labRuns) - 1) + 1]
      BY <1>2, <1>3, <3>1
    <3>3. (Len(labRuns) - 1) + 1 = Len(labRuns)
      BY <1>1
    <3> QED
      BY <3>2, <3>3 DEF LastLab
  <2>3. LastLab \in S
    BY <1>7, <2>1, <2>2
  <2>4. \A x \in S : When(LabItem(x)) <= When(last)
    BY <1>5, <1>6, <1>10, <2>3 DEF last
  <2>5. \A k \in DOMAIN labRuns : labRuns[k] \in S
    BY DEF S
  <2> QED
    BY <1>5, <1>6, <1>7, <1>10, <2>1, <2>2, <2>3, <2>4, <2>5 DEF last
<1> QED
  BY <1>8, <1>9, <1>10 DEF h, last

-----------------------------------------------------------------------------
(* The feed: what heads one of the histories heads it.                      *)

\* What heads two histories together
Head2(es, ls) ==
    IF ls = <<>> \/ (es # <<>> /\ When(es[1]) >= When(ls[1])) THEN es[1] ELSE ls[1]

LEMMA FeedHeads ==
    ASSUME NEW S, \A x \in S : When(x) \in Nat, NEW es \in Seq(S), NEW ls \in Seq(S),
           \A k \in DOMAIN es : When(es[k]) <= When(es[1]),
           \A k \in DOMAIN ls : When(ls[k]) <= When(ls[1]),
           es # <<>> \/ ls # <<>>
    PROVE  ActivityFeed(es, ls)[1] = Head2(es, ls)
<1> DEFINE all == es \o ls
           t == [k \in DOMAIN all |-> When(all[k])]
           byAge == InRank(DOMAIN all, Later(DOMAIN all, t))
           feed == [n \in DOMAIN byAge |-> all[byAge[n]]]
           m == IF ls = <<>> \/ (es # <<>> /\ When(es[1]) >= When(ls[1])) THEN 1 ELSE Len(es) + 1
<1>1. /\ all \in Seq(S) /\ Len(es) \in Nat /\ Len(ls) \in Nat /\ Len(all) = Len(es) + Len(ls)
      /\ DOMAIN all = 1..(Len(es) + Len(ls))
      /\ \A k \in 1..Len(es) : all[k] = es[k] /\ k \in DOMAIN es /\ es[k] \in S
      /\ \A k \in (Len(es) + 1)..(Len(es) + Len(ls)) :
            all[k] = ls[k - Len(es)] /\ k - Len(es) \in DOMAIN ls /\ ls[k - Len(es)] \in S
  OBVIOUS
<1>2. (es = <<>> <=> Len(es) = 0) /\ (ls = <<>> <=> Len(ls) = 0)
  OBVIOUS
<1>3. \A k \in DOMAIN all : t[k] = When(all[k]) /\ t[k] \in Nat
  <2>1. \A k \in DOMAIN all : all[k] \in S
    BY <1>1
  <2> QED
    BY <2>1
<1>4. DOMAIN all \subseteq Int /\ IsFiniteSet(DOMAIN all)
  <2>1. 1 \in Int /\ Len(es) + Len(ls) \in Int
    BY <1>1
  <2> QED
    BY <1>1, <2>1, FS_Interval
<1>5. Sorts(byAge, DOMAIN all, Later(DOMAIN all, t))
  <2> HIDE DEF all, t
  <2>1. IsOrder(DOMAIN all, Later(DOMAIN all, t))
    <3>1. \A k \in DOMAIN all : t[k] \in Int
      BY <1>3
    <3> QED
      BY <1>4, <3>1, LaterIsOrder
  <2> QED
    BY <1>4, <2>1, InRankSorts
<1>6. ActivityFeed(es, ls) = Upto(6, feed)
  <2>1. Later(DOMAIN all, t)
          = [k \in DOMAIN all |-> {j \in DOMAIN all : \/ When(all[j]) > When(all[k])
                                                      \/ When(all[j]) = When(all[k]) /\ j < k}]
    BY <1>3 DEF Later
  <2> QED
    BY <2>1 DEF ActivityFeed, Ranked
<1>7. m \in DOMAIN all /\ all[m] = Head2(es, ls)
  BY <1>1, <1>2 DEF Head2
<1>8. Later(DOMAIN all, t)[m] = {}
  <2> SUFFICES ASSUME NEW k \in DOMAIN all, t[k] > t[m] \/ (t[k] = t[m] /\ k < m) PROVE FALSE
    BY <1>7 DEF Later
  <2>1. t[k] = When(all[k]) /\ t[m] = When(all[m]) /\ t[k] \in Nat /\ t[m] \in Nat
    BY <1>3, <1>7
  <2>2. CASE k \in 1..Len(es)
    <3>1. es # <<>> /\ 1 \in 1..Len(es) /\ When(all[k]) <= When(es[1]) /\ When(es[1]) \in Nat
      BY <1>1, <1>2, <2>2
    <3>2. CASE m = 1
      <4>1. all[m] = es[1]
        BY <1>1, <3>1, <3>2
      <4>2. k \in Nat /\ k >= 1
        BY <1>1, <2>2
      <4>3. t[m] = When(es[1])
        BY <2>1, <4>1
      <4> HIDE DEF all, t, m
      <4>4. t[k] <= t[m]
        BY <2>1, <3>1, <4>3
      <4>5. ~(k < m)
        BY <3>2, <4>2
      <4>6. ~(t[k] > t[m])
        BY <2>1, <4>4
      <4>7. t[k] > t[m] \/ (t[k] = t[m] /\ k < m)
        OBVIOUS
      <4> QED
        BY ONLY <4>5, <4>6, <4>7, Zenon
    <3>3. CASE m # 1
      <4>1. ls # <<>> /\ ~(When(es[1]) >= When(ls[1])) /\ m = Len(es) + 1
        BY <3>1, <3>3
      <4>2. 1 \in DOMAIN ls /\ all[m] = ls[1] /\ When(ls[1]) \in Nat
        BY <1>1, <1>2, <4>1
      <4> HIDE DEF all, t, m
      <4> QED
        BY <2>1, <3>1, <4>1, <4>2
    <3> QED
      BY <3>2, <3>3
  <2>3. CASE k \in (Len(es) + 1)..(Len(es) + Len(ls))
    <3>1. ls # <<>> /\ 1 \in DOMAIN ls /\ When(all[k]) <= When(ls[1]) /\ When(ls[1]) \in Nat
      BY <1>1, <1>2, <2>3
    <3>2. When(ls[1]) <= When(all[m])
      <4>1. CASE es # <<>> /\ When(es[1]) >= When(ls[1])
        <5>1. all[m] = es[1] /\ When(es[1]) \in Nat
          BY <1>1, <1>2, <4>1
        <5> QED
          BY <3>1, <4>1, <5>1
      <4>2. CASE ~(es # <<>> /\ When(es[1]) >= When(ls[1]))
        <5>1. all[m] = ls[1]
          BY <1>1, <1>2, <3>1, <4>2
        <5> QED
          BY <3>1, <5>1
      <4> QED
        BY <4>1, <4>2
    <3>3. m <= k
      BY <1>1, <1>2, <2>3, <3>1
    <3>4. k \in Int /\ m \in Int
      BY <1>4, <1>7
    <3> HIDE DEF all, t, m
    <3> QED
      BY <2>1, <3>1, <3>2, <3>3, <3>4
  <2>4. k \in 1..Len(es) \/ k \in (Len(es) + 1)..(Len(es) + Len(ls))
    BY <1>1
  <2> QED
    BY <2>2, <2>3, <2>4
<1> HIDE DEF all, t, byAge, m
<1>9. Len(byAge) \in Nat /\ Len(byAge) > 0 /\ DOMAIN byAge = 1..Len(byAge) /\ byAge[1] = m
  BY <1>5, <1>7, <1>8, FirstInOrder
<1>10. feed \in Seq(S) /\ Len(feed) > 0 /\ feed[1] = all[m]
  <2>1. \A n \in DOMAIN byAge : byAge[n] \in DOMAIN all
    BY <1>5 DEF Sorts
  <2>2. \A n \in DOMAIN byAge : all[byAge[n]] \in S
    BY <1>1, <2>1
  <2>3. feed \in [1..Len(byAge) -> S]
    BY <1>9, <2>2
  <2>4. feed \in Seq(S) /\ Len(feed) = Len(byAge)
    BY <1>9, <2>3
  <2> QED
    BY <1>9, <2>4
<1> HIDE DEF feed
<1>11. Upto(6, feed)[1] = feed[1]
  <2>1. Len(feed) \in Nat /\ 6 \in Nat /\ feed \in Seq(S)
    BY <1>10
  <2> DEFINE u == Upto(6, feed)
  <2>2. Len(u) = IF Len(feed) < 6 THEN Len(feed) ELSE 6
    BY <2>1, UptoKeeps
  <2>3. \A k \in 1..Len(u) : u[k] = feed[k]
    BY <2>1, UptoKeeps
  <2> HIDE DEF u
  <2>4. Len(u) \in Nat /\ Len(u) > 0
    BY <1>10, <2>1, <2>2
  <2> QED
    BY <2>3, <2>4 DEF u
<1> QED
  BY <1>6, <1>7, <1>10, <1>11

-----------------------------------------------------------------------------
(* The weakest domain.                                                     *)

IsTally(t) == t.right \in Nat /\ t.total \in Nat \ {0}

\* s is at most as good as t.
AtMost(s, t) == s.right * t.total <= t.right * s.total

LEMMA WeakerIs ==
    ASSUME NEW s, NEW t, IsTally(s), IsTally(t)
    PROVE  /\ Weaker(s, t) <=> ~AtMost(t, s)
           /\ AtMost(s, t) \/ AtMost(t, s)
<1>1. s.right * t.total \in Int /\ t.right * s.total \in Int
  BY DEF IsTally
<1> QED
  BY <1>1 DEF Weaker, AtMost

LEMMA CrossMultiply ==
    \A a, b, c \in Nat, x, y, z \in Nat \ {0} : a * y <= b * x /\ b * z <= c * y => a * z <= c * x
<1> SUFFICES ASSUME NEW a \in Nat, NEW b \in Nat, NEW c \in Nat,
                    NEW x \in Nat \ {0}, NEW y \in Nat \ {0}, NEW z \in Nat \ {0},
                    a * y <= b * x, b * z <= c * y
             PROVE  a * z <= c * x
  OBVIOUS
<1>1. (a * y) * z <= (b * x) * z
  BY Z3
<1>2. (b * z) * x <= (c * y) * x
  BY Z3
<1>3. y * (a * z) <= y * (c * x)
  BY <1>1, <1>2, Z3
<1>4. a * z \in Int /\ c * x \in Int /\ y \in Int /\ y > 0
  OBVIOUS
<1> QED
  BY <1>3, <1>4, Cancels

LEMMA AtMostIsTransitive ==
    ASSUME NEW s, NEW t, NEW u, IsTally(s), IsTally(t), IsTally(u), AtMost(s, t), AtMost(t, u)
    PROVE  AtMost(s, u)
BY CrossMultiply DEF IsTally, AtMost

Tallies(totals) ==
    /\ IsFiniteSet(DOMAIN totals) /\ DOMAIN totals \subseteq Int
    /\ \A d \in DOMAIN totals : IsTally(totals[d])

Weakness(totals) ==
    [e \in DOMAIN totals |-> {d \in DOMAIN totals :
        IF Weaker(totals[d], totals[e]) THEN TRUE
        ELSE /\ ~Weaker(totals[e], totals[d])
             /\ \/ totals[d].total > totals[e].total
                \/ totals[d].total = totals[e].total /\ d < e}]

LEMMA WeaknessIsOrder == ASSUME NEW totals, Tallies(totals) PROVE IsOrder(DOMAIN totals, Weakness(totals))
<1> DEFINE D == DOMAIN totals
           A == Weakness(totals)
           M(d, e) == AtMost(totals[d], totals[e])
           n(d) == totals[d].total
<1>1. \A d, e \in D : M(d, e) \/ M(e, d)
  BY WeakerIs DEF Tallies
<1>2. ASSUME NEW d \in D, NEW e \in D, NEW f \in D, M(d, e), M(e, f) PROVE M(d, f)
  BY <1>2, AtMostIsTransitive DEF Tallies
<1>3. \A d \in D : n(d) \in Int /\ d \in Int
  BY DEF Tallies, IsTally
<1>4. ASSUME NEW d \in D, NEW e \in D
      PROVE  d \in A[e] <=> \/ ~M(e, d)
                            \/ M(d, e) /\ (n(d) > n(e) \/ (n(d) = n(e) /\ d < e))
  <2>1. /\ Weaker(totals[d], totals[e]) <=> ~M(e, d)
        /\ Weaker(totals[e], totals[d]) <=> ~M(d, e)
    BY WeakerIs DEF Tallies
  <2>2. d \in A[e] <=> IF Weaker(totals[d], totals[e]) THEN TRUE
                       ELSE /\ ~Weaker(totals[e], totals[d])
                            /\ (n(d) > n(e) \/ (n(d) = n(e) /\ d < e))
    BY DEF Weakness
  <2> HIDE DEF M, A, n
  <2> QED
    BY <2>1, <2>2
<1>5. \A e \in D : A[e] \subseteq D
  BY DEF Weakness
<1> HIDE DEF A, M, n
<1>6. ASSUME NEW d \in D PROVE d \notin A[d]
  <2>1. M(d, d) /\ n(d) \in Int /\ d \in Int
    BY <1>1, <1>3
  <2> QED
    BY <1>4, <2>1
<1>7. ASSUME NEW d \in D, NEW e \in D, d # e PROVE e \in A[d] <=> d \notin A[e]
  <2>1. n(d) \in Int /\ n(e) \in Int /\ d \in Int /\ e \in Int
    BY <1>3
  <2>2. M(d, e) \/ M(e, d)
    BY <1>1
  <2> QED
    BY <1>4, <1>7, <2>1, <2>2
<1>8. ASSUME NEW f \in D, NEW e \in D, e \in A[f] PROVE A[e] \subseteq A[f]
  <2> SUFFICES ASSUME NEW d \in D, d \in A[e] PROVE d \in A[f]
    BY <1>5
  <2>1. n(d) \in Int /\ n(e) \in Int /\ n(f) \in Int /\ d \in Int /\ e \in Int /\ f \in Int
    BY <1>3
  <2>2. M(d, e) /\ M(e, f)
    BY <1>1, <1>4, <1>8
  <2>3. M(d, f)
    BY <1>2, <2>2
  <2>4. M(f, d) => M(f, e) /\ M(e, d)
    BY <1>2, <2>2
  <2> QED
    BY <1>4, <1>8, <2>1, <2>2, <2>3, <2>4
<1>9. IsOrder(D, A)
  BY <1>5, <1>6, <1>7, <1>8 DEF IsOrder
<1> QED
  BY <1>9 DEF A

LEMMA WeakestHeads ==
    ASSUME NEW totals, Tallies(totals)
    PROVE  /\ WeakestFirst(totals) = <<>> <=> DOMAIN totals = {}
           /\ DOMAIN totals # {} =>
                 /\ WeakestFirst(totals)[1] \in DOMAIN totals
                 /\ \A d \in DOMAIN totals : ~Weaker(totals[d], totals[WeakestFirst(totals)[1]])
<1> DEFINE D == DOMAIN totals
           A == Weakness(totals)
           w == WeakestFirst(totals)
<1>1. w = InRank(D, A)
  BY DEF WeakestFirst, Ranked, Weakness
<1>2. IsFiniteSet(D) /\ Sorts(w, D, A)
  BY <1>1, WeaknessIsOrder, InRankSorts DEF Tallies
<1>3. \A d, e \in D : d \in A[e] => ~Weaker(totals[e], totals[d])
  <2> SUFFICES ASSUME NEW d \in D, NEW e \in D, d \in A[e], Weaker(totals[e], totals[d]) PROVE FALSE
    OBVIOUS
  <2>1. Weaker(totals[d], totals[e])
    BY DEF Weakness
  <2>2. AtMost(totals[e], totals[d]) \/ AtMost(totals[d], totals[e])
    BY WeakerIs DEF Tallies
  <2> QED
    BY <2>1, <2>2, WeakerIs DEF Tallies
<1>4. ASSUME NEW d \in D PROVE ~Weaker(totals[d], totals[d])
  <2>1. AtMost(totals[d], totals[d])
    BY WeakerIs DEF Tallies
  <2> QED
    BY <2>1, WeakerIs DEF Tallies
<1> HIDE DEF D, A, w
<1>5. ASSUME D # {} PROVE w # <<>> /\ w[1] \in D /\ \A d \in D : ~Weaker(totals[d], totals[w[1]])
  <2>1. Len(w) > 0 /\ w[1] \in D /\ \A x \in D : x = w[1] \/ w[1] \in A[x]
    BY <1>2, <1>5, FirstIsAhead
  <2>2. w # <<>>
    BY <2>1
  <2> QED
    BY <1>3, <1>4, <2>1, <2>2
<1>6. ASSUME D = {} PROVE w = <<>>
  <2>1. w \in Seq(D) /\ Len(w) = 0
    BY <1>2, <1>6, FS_EmptySet DEF Sorts
  <2> QED
    BY <2>1
<1> QED
  BY <1>5, <1>6 DEF D, w

LEMMA ImageIsFinite == ASSUME NEW S, IsFiniteSet(S), NEW f PROVE IsFiniteSet({f[x] : x \in S})
<1> DEFINE g == [x \in S |-> f[x]]
<1>1. g \in Surjection(S, {f[x] : x \in S})
  BY DEF Surjection
<1> QED
  BY <1>1, FS_Surjection

LEMMA TotalsAreTallies ==
    ASSUME NEW answers, IsFiniteSet(answers), \A a \in answers : Prefix(a) \in Int
    PROVE  Tallies(ByDomain(answers))
<1> DEFINE totals == ByDomain(answers)
           D == {Prefix(a) : a \in answers}
           f == [a \in answers |-> Prefix(a)]
<1>1. DOMAIN totals = D /\ D \subseteq Int
  BY DEF ByDomain
<1>2. IsFiniteSet(D)
  <2>1. D = {f[a] : a \in answers}
    OBVIOUS
  <2> HIDE DEF f
  <2> QED
    BY <2>1, ImageIsFinite
<1>3. ASSUME NEW d \in D PROVE IsTally(totals[d])
  <2> DEFINE part == {a \in answers : Prefix(a) = d}
             right == {a \in part : Outcome(a)}
  <2>1. totals[d] = Tally(part)
    BY DEF ByDomain
  <2>2. part \subseteq answers /\ right \subseteq answers /\ part # {}
    BY <1>3
  <2> HIDE DEF part
  <2>3. IsFiniteSet(part) /\ IsFiniteSet(right) /\ Cardinality(part) \in Nat /\ Cardinality(right) \in Nat
    BY <2>2, FS_Subset, FS_CardinalityType
  <2>4. Cardinality(part) # 0
    BY <2>2, <2>3, FS_EmptySet
  <2>5. Tally(part).right = Cardinality(right) /\ Tally(part).total = Cardinality(part)
    BY DEF Tally
  <2> QED
    BY <2>1, <2>3, <2>4, <2>5 DEF IsTally
<1> QED
  BY <1>1, <1>2, <1>3 DEF Tallies

LEMMA ScoredIsFinite ==
    ASSUME Rows(exams, labRuns)
    PROVE  /\ \A i \in DOMAIN exams : IsFiniteSet(ScoredOf(i))
           /\ \A cert : /\ IsFiniteSet(Scored(cert)) /\ \A a \in Scored(cert) : Prefix(a) \in Int
<1>1. ASSUME NEW i \in DOMAIN exams PROVE IsFiniteSet(ScoredOf(i))
  <2> DEFINE Q == DOMAIN exams[i].sheet
             f == [q \in Q |-> <<i, q>>]
  <2>1. IsFiniteSet(Q)
    BY DEF Rows, IsRow
  <2>2. AnswersOf(i) = {f[q] : q \in Q}
    BY DEF AnswersOf
  <2>3. IsFiniteSet({f[q] : q \in Q})
    <3> HIDE DEF f, Q
    <3> QED
      BY <2>1, ImageIsFinite
  <2>4. ScoredOf(i) \subseteq AnswersOf(i)
    BY DEF ScoredOf
  <2> QED
    BY <2>2, <2>3, <2>4, FS_Subset
<1>2. ASSUME NEW cert PROVE IsFiniteSet(Scored(cert)) /\ \A a \in Scored(cert) : Prefix(a) \in Int
  <2> DEFINE f == [i \in DOMAIN exams |-> ScoredOf(i)]
             all == UNION {ScoredOf(i) : i \in DOMAIN exams}
  <2>1. {ScoredOf(i) : i \in DOMAIN exams} = {f[i] : i \in DOMAIN exams}
    OBVIOUS
  <2>2. IsFiniteSet({f[i] : i \in DOMAIN exams})
    <3> HIDE DEF f
    <3> QED
      BY RowsDomains, ImageIsFinite
  <2>3. IsFiniteSet(all)
    BY <1>1, <2>1, <2>2, FS_UNION
  <2>4. Scored(cert) \subseteq all
    BY DEF Scored
  <2>5. ASSUME NEW a \in all PROVE Prefix(a) \in Int
    <3>1. PICK i \in DOMAIN exams : a \in AnswersOf(i)
      BY DEF ScoredOf
    <3>2. a[2] \in Questions
      BY <3>1 DEF AnswersOf, Rows, IsRow
    <3> QED
      BY <3>2, DomainsAssumption DEF Prefix
  <2> QED
    BY <2>3, <2>4, <2>5, FS_Subset
<1> QED
  BY <1>1, <1>2

LEMMA DomainTotalsAreTallies ==
    ASSUME Rows(exams, labRuns), NEW cert
    PROVE  Tallies(DomainTotals(cert))
BY ScoredIsFinite, TotalsAreTallies DEF DomainTotals

LEMMA SmallestNumber == ASSUME NEW S, S \subseteq Nat, S # {} PROVE \E l \in S : \A m \in S : l <= m
<1>1. PICK n \in S : TRUE
  OBVIOUS
<1> DEFINE Upwards == {0..m : m \in {x \in S : x <= n}}
<1>2. n \in Nat /\ IsFiniteSet(0..n)
  <2>1. n \in Nat /\ 0 \in Int /\ n \in Int
    OBVIOUS
  <2> QED
    BY <2>1, FS_Interval
<1>3. Upwards \subseteq SUBSET (0..n) /\ Upwards # {}
  <2>1. \A m \in S : m <= n => 0..m \subseteq 0..n
    BY <1>2
  <2> QED
    BY <1>2, <2>1
<1>4. PICK T \in Upwards : \A U \in Upwards : U \subseteq T => U = T
  <2> DEFINE D == 0..n
  <2>1. IsFiniteSet(D) /\ Upwards \subseteq SUBSET D /\ Upwards # {}
    BY <1>2, <1>3
  <2> HIDE DEF Upwards, D
  <2> QED
    BY <2>1, SmallestSet
<1>5. PICK l \in S : l <= n /\ T = 0..l
  <2>1. T \in Upwards
    BY <1>4
  <2>2. \E l \in {x \in S : x <= n} : T = 0..l
    BY ONLY <2>1, Zenon
  <2> QED
    BY ONLY <2>2, Zenon
<1>6. ASSUME NEW m \in S PROVE l <= m
  <2> SUFFICES ASSUME m < l PROVE FALSE
    BY <1>5
  <2>1. m \in Nat /\ l \in Nat /\ m <= n
    BY <1>2, <1>5
  <2>2. 0..m \in Upwards
    BY <2>1
  <2>5. 0..m \subseteq T
    <3>1. \A x \in 0..m : x \in 0..l
      BY <2>1
    <3> QED
      BY <1>5, <3>1
  <2>3. 0..m = 0..l
    BY <1>4, <1>5, <2>2, <2>5
  <2>4. l \in 0..l /\ l \notin 0..m
    BY <2>1
  <2> QED
    BY <2>3, <2>4
<1> QED
  BY <1>6

\* A suggestion is for a domain none is weaker than, and for a gold lab.
AdvisesRightly(next, totals, catalogue) ==
    /\ next = None <=> DOMAIN totals = {}
    /\ next # None =>
          /\ next.domain \in DOMAIN totals
          /\ \A d \in DOMAIN totals : ~Weaker(totals[d], totals[next.domain])
          /\ next.lab # None => catalogue[next.lab].gold

LEMMA AdviceIsRight ==
    ASSUME Rows(exams, labRuns), DOMAIN labs \subseteq Nat, NEW cert
    PROVE  AdvisesRightly(Advice(cert), DomainTotals(cert), labs)
<1> DEFINE totals == DomainTotals(cert)
           weak == WeakestFirst(totals)
           gold == {l \in DOMAIN labs : /\ labs[l].gold /\ labs[l].domain = weak[1]
                                        /\ cert = None \/ cert \in labs[l].certs}
           lab == IF gold = {} THEN None ELSE CHOOSE l \in gold : \A m \in gold : l <= m
           some == [domain |-> weak[1], lab |-> lab]
<1>1. /\ weak = <<>> <=> DOMAIN totals = {}
      /\ DOMAIN totals # {} => /\ weak[1] \in DOMAIN totals
                               /\ \A d \in DOMAIN totals : ~Weaker(totals[d], totals[weak[1]])
  BY DomainTotalsAreTallies, WeakestHeads
<1>2. gold # {} => lab \in gold
  <2> SUFFICES ASSUME gold # {} PROVE lab \in gold
    OBVIOUS
  <2>1. gold \subseteq Nat /\ \A l \in gold : labs[l].gold
    OBVIOUS
  <2>2. \E l \in gold : \A m \in gold : l <= m
    <3> HIDE DEF gold
    <3> QED
      BY <2>1, SmallestNumber
  <2>3. lab = CHOOSE l \in gold : \A m \in gold : l <= m
    OBVIOUS
  <2> HIDE DEF gold, lab
  <2> QED
    BY <2>2, <2>3
<1>8. (lab # None => labs[lab].gold) /\ lab \in Nat \cup {None}
  <2>1. gold # {} => lab \in gold
    BY <1>2
  <2>2. gold = {} => lab = None
    OBVIOUS
  <2>3. gold \subseteq Nat /\ \A l \in gold : labs[l].gold
    OBVIOUS
  <2> HIDE DEF gold, lab
  <2> QED
    BY <2>1, <2>2, <2>3
<1>3. DOMAIN totals # {} => some # None
  <2>1. SUFFICES ASSUME DOMAIN totals # {} PROVE some # None
    OBVIOUS
  <2>2. weak[1] \in Int
    BY <1>1, <2>1, DomainTotalsAreTallies DEF Tallies
  <2>3. lab \in Nat \cup {None}
    BY <1>8
  <2> HIDE DEF weak, lab
  <2>4. some \in [domain : Int, lab : Nat \cup {None}]
    BY <2>2, <2>3
  <2> QED
    BY <2>4, RecordsAssumption
<1>4. Advice(cert) = IF weak = <<>> THEN None ELSE some
  BY DEF Advice
<1> HIDE DEF totals, weak, gold, lab
<1>5. some.domain = weak[1] /\ some.lab = lab
  OBVIOUS
<1>6. CASE weak = <<>>
  BY <1>1, <1>4, <1>6 DEF AdvisesRightly, totals
<1>7. CASE weak # <<>>
  BY <1>1, <1>3, <1>4, <1>5, <1>7, <1>8 DEF AdvisesRightly, totals
<1> QED
  BY <1>6, <1>7

-----------------------------------------------------------------------------
(* The dashboard.                                                          *)

\* What HomeCurrent says of the cards.
CardsAreRight(h) ==
    LET active == {i \in DOMAIN exams : exams[i].status = "active"}
        finished == {i \in DOMAIN exams : exams[i].status = "finished"}
        tally(d) == Tally({a \in Scored(None) : Prefix(a) = d})
    IN  /\ active = IF h.resume = None THEN {} ELSE {h.resume.exam}
        /\ \A i \in active : h.resume.answered = exams[i].answered
        /\ h.first <=> exams = <<>> /\ labRuns = <<>>
        /\ finished # {} \/ labRuns # <<>> => h.last.finish = Clock - 1
        /\ h.last # None => h.feed[1] = h.last
        /\ h.next # None =>
              /\ \A a \in Scored(None) : ~Weaker(tally(Prefix(a)), tally(h.next.domain))
              /\ h.next.lab # None => labs[h.next.lab].gold

LEMMA ToResumeIsRight ==
    ASSUME Rows(exams, labRuns)
    PROVE  LET active == {i \in DOMAIN exams : exams[i].status = "active"}
           IN  /\ active = IF ToResume = None THEN {} ELSE {ToResume.exam}
               /\ \A i \in active : ToResume.answered = exams[i].answered
               /\ exams = <<>> => ToResume = None
<1> DEFINE active == {i \in DOMAIN exams : exams[i].status = "active"}
           i == CHOOSE j \in active : \A k \in active : k <= j
           what == [exam |-> i, answered |-> exams[i].answered]
<1>1. ToResume = IF active = {} THEN None ELSE what
  BY DEF ToResume
<1>2. ASSUME active # {} PROVE active = {i} /\ what # None
  <2>1. PICK j \in active : active = {j}
    <3>1. \A k, l \in active : k = l
      BY DEF Rows
    <3> HIDE DEF active
    <3> QED
      BY <1>2, <3>1
  <2>2. j \in Int /\ j \in Nat /\ exams[j].answered \in Nat
    <3>1. j \in DOMAIN exams
      OBVIOUS
    <3> HIDE DEF active
    <3> QED
      BY <3>1, RowsDomains DEF Rows, IsRow
  <2>3. \E x \in active : \A k \in active : k <= x
    <3> HIDE DEF active
    <3> QED
      BY <2>1, <2>2
  <2>4. i \in active
    <3> HIDE DEF active
    <3> QED
      BY <2>3
  <2> HIDE DEF i, active
  <2>5. i = j
    BY <2>1, <2>4
  <2>6. what \in [exam : Nat, answered : Nat]
    BY <2>2, <2>5
  <2> QED
    BY <2>1, <2>5, <2>6, RecordsAssumption
<1>3. exams = <<>> => active = {}
  OBVIOUS
<1>4. what.exam = i /\ what.answered = exams[i].answered
  OBVIOUS
<1> HIDE DEF i, active, what
<1>5. /\ active = IF ToResume = None THEN {} ELSE {ToResume.exam}
      /\ \A x \in active : ToResume.answered = exams[x].answered
      /\ exams = <<>> => ToResume = None
  BY <1>1, <1>2, <1>3, <1>4
<1> QED
  BY <1>5 DEF active

Latest == Head2(ExamHistory(1), LabHistory(1))

LEMMA LatestIsLast ==
    ASSUME Rows(exams, labRuns), exams # <<>> \/ labRuns # <<>>
    PROVE  /\ LatestActivity = Latest
           /\ When(Latest) \in 0..(Clock - 1)
           /\ \A i \in DOMAIN exams : When(exams[i]) <= When(Latest)
           /\ \A k \in DOMAIN labRuns : labRuns[k].finish <= When(Latest)
<1> DEFINE e == ExamHistory(1)
           l == LabHistory(1)
<1>1. 1 \in Nat \ {0}
  OBVIOUS
<1>2. /\ e = <<>> <=> exams = <<>>
      /\ exams # <<>> => e[1] = ExamItem(Newest)
  BY <1>1, ExamHistoryHeads
<1>3. /\ l = <<>> <=> labRuns = <<>>
      /\ labRuns # <<>> => /\ l[1] = LabItem(LastLab)
                           /\ \A k \in DOMAIN labRuns : labRuns[k].finish <= LabItem(LastLab).finish
                           /\ When(LabItem(LastLab)) = LastLab.finish
                           /\ LabItem(LastLab).finish = LastLab.finish
  BY <1>1, LabHistoryHeads
<1>4. LatestActivity = Latest
  BY <1>2, <1>3 DEF LatestActivity, Latest, Head2
<1>5. Latest = IF l = <<>> \/ (e # <<>> /\ When(e[1]) >= When(l[1])) THEN e[1] ELSE l[1]
  BY DEF Latest, Head2
<1> HIDE DEF e, l
<1>6. exams # <<>> => /\ When(e[1]) \in 0..(Clock - 1)
                      /\ \A i \in DOMAIN exams : When(exams[i]) <= When(e[1])
  <2> SUFFICES ASSUME exams # <<>> PROVE /\ When(e[1]) \in 0..(Clock - 1)
                                         /\ \A i \in DOMAIN exams : When(exams[i]) <= When(e[1])
    OBVIOUS
  <2>1. Newest \in DOMAIN exams /\ \A i \in DOMAIN exams : When(exams[i]) <= When(exams[Newest])
    BY NewestIsLast
  <2>2. When(ExamItem(Newest)) = When(exams[Newest])
    BY DEF When, ExamItem
  <2>3. When(exams[Newest]) \in 0..(Clock - 1)
    BY <2>1, WhenIsNat
  <2> HIDE DEF Clock
  <2> QED
    BY <1>2, <2>1, <2>2, <2>3
<1>7. labRuns # <<>> => /\ When(l[1]) \in 0..(Clock - 1)
                        /\ \A k \in DOMAIN labRuns : labRuns[k].finish <= When(l[1])
  <2> SUFFICES ASSUME labRuns # <<>> PROVE /\ When(l[1]) \in 0..(Clock - 1)
                                           /\ \A k \in DOMAIN labRuns : labRuns[k].finish <= When(l[1])
    OBVIOUS
  <2>1. Len(labRuns) \in DOMAIN labRuns
    BY RowsDomains DEF Rows
  <2>2. LastLab.finish \in 1..(Clock - 1) /\ Clock \in Nat
    BY <2>1, WhenIsNat DEF LastLab
  <2> HIDE DEF Clock
  <2> QED
    BY <1>3, <2>2
<1>8. /\ \A i \in DOMAIN exams : When(exams[i]) \in 0..(Clock - 1)
      /\ \A k \in DOMAIN labRuns : labRuns[k].finish \in 1..(Clock - 1)
      /\ Clock \in Nat
  BY WhenIsNat
<1>9. (exams = <<>> => DOMAIN exams = {}) /\ (labRuns = <<>> => DOMAIN labRuns = {})
  OBVIOUS
<1> HIDE DEF Clock
<1>10. CASE l = <<>> \/ (e # <<>> /\ When(e[1]) >= When(l[1]))
  <2>1. Latest = e[1] /\ exams # <<>>
    BY <1>2, <1>3, <1>5, <1>10
  <2>2. \A k \in DOMAIN labRuns : labRuns[k].finish <= When(e[1])
    BY <1>2, <1>3, <1>6, <1>7, <1>8, <1>9, <1>10, <2>1
  <2> QED
    BY <1>4, <1>6, <2>1, <2>2
<1>11. CASE ~(l = <<>> \/ (e # <<>> /\ When(e[1]) >= When(l[1])))
  <2>1. Latest = l[1] /\ labRuns # <<>>
    BY <1>3, <1>5, <1>11
  <2>2. \A i \in DOMAIN exams : When(exams[i]) <= When(l[1])
    BY <1>2, <1>3, <1>6, <1>7, <1>8, <1>9, <1>11, <2>1
  <2> QED
    BY <1>4, <1>7, <2>1, <2>2
<1> QED
  BY <1>10, <1>11

LEMMA DashboardIsRight ==
    ASSUME Rows(exams, labRuns), DOMAIN labs \subseteq Nat
    PROVE  CardsAreRight(Dashboard(ToResume))
<1> DEFINE h == Dashboard(ToResume)
           es == ExamHistory(Recent)
           ls == LabHistory(Recent)
           totals == DomainTotals(None)
           tally(d) == Tally({a \in Scored(None) : Prefix(a) = d})
           history == es # <<>> \/ ls # <<>> \/ ToResume # None
<1>1. /\ h.resume = ToResume /\ h.next = Advice(None) /\ h.last = LatestActivity
      /\ h.feed = ActivityFeed(es, ls)
      /\ h.first = (Advice(None) = None /\ ~history)
  BY DEF Dashboard
<1>2. AdvisesRightly(Advice(None), totals, labs)
  BY AdviceIsRight
<1>3. DOMAIN totals = {Prefix(a) : a \in Scored(None)} /\ \A d \in DOMAIN totals : totals[d] = tally(d)
  BY DEF DomainTotals, ByDomain
<1>4. /\ es \in Seq({x \in Range(es) : When(x) \in Nat}) /\ (es = <<>> <=> exams = <<>>)
      /\ exams # <<>> => es[1] = ExamItem(Newest) /\ \A k \in DOMAIN es : When(es[k]) <= When(ExamItem(Newest))
  BY RecentAssumption, ExamHistoryHeads
<1>5. /\ ls \in Seq({x \in Range(ls) : When(x) \in Nat}) /\ (ls = <<>> <=> labRuns = <<>>)
      /\ labRuns # <<>> => ls[1] = LabItem(LastLab) /\ \A k \in DOMAIN ls : When(ls[k]) <= When(LabItem(LastLab))
  BY RecentAssumption, LabHistoryHeads
<1>6. exams = <<>> => DOMAIN totals = {}
  <2> SUFFICES ASSUME exams = <<>> PROVE DOMAIN totals = {}
    OBVIOUS
  <2>1. DOMAIN exams = {}
    OBVIOUS
  <2>2. Scored(None) = {}
    BY <2>1 DEF Scored
  <2> QED
    BY <1>3, <2>2
<1> HIDE DEF h, es, ls, totals
<1>7. h.first <=> exams = <<>> /\ labRuns = <<>>
  <2>1. exams = <<>> => Advice(None) = None
    BY <1>2, <1>6 DEF AdvisesRightly
  <2>2. exams = <<>> => ToResume = None
    BY ToResumeIsRight
  <2> QED
    BY <1>1, <1>4, <1>5, <2>1, <2>2
<1>8. ASSUME {i \in DOMAIN exams : exams[i].status = "finished"} # {} \/ labRuns # <<>>
      PROVE  h.last.finish = Clock - 1
  <2>1. Over(exams) # {} \/ labRuns # <<>>
    BY <1>8 DEF Rows, IsRow, Over
  <2>2. exams # <<>> \/ labRuns # <<>>
    <3>1. exams = <<>> => Over(exams) = {}
      BY DEF Over
    <3> QED
      BY <2>1, <3>1
  <2>3. /\ LatestActivity = Latest /\ When(Latest) \in 0..(Clock - 1)
        /\ \A i \in DOMAIN exams : When(exams[i]) <= When(Latest)
        /\ \A k \in DOMAIN labRuns : labRuns[k].finish <= When(Latest)
    BY <2>2, LatestIsLast
  <2>4. Clock \in Nat /\ Clock > 1
    <3>1. Clock \in Nat \ {0} /\ Timely(exams, labRuns, Clock)
      BY ClockIsTime, RowsDomains DEF Rows
    <3>2. \/ \E i \in DOMAIN exams : exams[i].finish \in 1..(Clock - 1)
          \/ \E k \in DOMAIN labRuns : labRuns[k].finish \in 1..(Clock - 1)
      <4>1. labRuns # <<>> => 1 \in DOMAIN labRuns
        BY RowsDomains DEF Rows
      <4> HIDE DEF Clock
      <4> QED
        BY <2>1, <3>1, <4>1 DEF Timely, Over
    <3> HIDE DEF Clock
    <3> QED
      BY <3>1, <3>2
  <2>5. Timely(exams, labRuns, Clock)
    BY ClockIsTime DEF Rows
  <2> HIDE DEF Clock
  <2>6. When(Latest) >= Clock - 1
    <3>1. CASE \E i \in Over(exams) : exams[i].finish = Clock - 1
      <4>1. PICK i \in Over(exams) : exams[i].finish = Clock - 1
        BY <3>1
      <4>2. When(exams[i]) = Clock - 1 /\ i \in DOMAIN exams
        BY <4>1 DEF When, Over
      <4> QED
        BY <2>3, <2>4, <4>2
    <3>2. CASE \E k \in DOMAIN labRuns : labRuns[k].finish = Clock - 1
      BY <2>3, <2>4, <3>2
    <3> QED
      BY <2>4, <2>5, <3>1, <3>2 DEF Timely
  <2>7. When(Latest) = Clock - 1 /\ When(Latest) # 0
    BY <2>3, <2>4, <2>6
  <2>8. Latest.finish = Clock - 1
    BY <2>7 DEF When
  <2> QED
    BY <1>1, <2>3, <2>8
<1>9. ASSUME h.last # None PROVE h.feed[1] = h.last
  <2>1. ~(ExamHistory(1) = <<>> /\ LabHistory(1) = <<>>)
    BY <1>1, <1>9 DEF LatestActivity
  <2>2. exams # <<>> \/ labRuns # <<>>
    <3>1. 1 \in Nat \ {0}
      OBVIOUS
    <3> QED
      BY <2>1, <3>1, ExamHistoryHeads, LabHistoryHeads
  <2> DEFINE S == {x \in Range(es) \cup Range(ls) : When(x) \in Nat}
  <2>3. es \in Seq(S) /\ ls \in Seq(S) /\ \A x \in S : When(x) \in Nat
    <3>1. {x \in Range(es) : When(x) \in Nat} \subseteq S /\ {x \in Range(ls) : When(x) \in Nat} \subseteq S
      OBVIOUS
    <3>2. \A x \in S : When(x) \in Nat
      OBVIOUS
    <3> HIDE DEF S
    <3> QED
      BY <1>4, <1>5, <3>1, <3>2
  <2>4. ActivityFeed(es, ls)[1] = Head2(es, ls)
    <3>1. \A k \in DOMAIN es : When(es[k]) <= When(es[1])
      BY <1>4
    <3>2. \A k \in DOMAIN ls : When(ls[k]) <= When(ls[1])
      BY <1>5
    <3> HIDE DEF S
    <3> QED
      BY <1>4, <1>5, <2>2, <2>3, <3>1, <3>2, FeedHeads
  <2>5. Head2(es, ls) = Latest
    <3>1. 1 \in Nat \ {0}
      OBVIOUS
    <3>2. /\ ExamHistory(1) = <<>> <=> exams = <<>>
          /\ exams # <<>> => ExamHistory(1)[1] = ExamItem(Newest)
          /\ LabHistory(1) = <<>> <=> labRuns = <<>>
          /\ labRuns # <<>> => LabHistory(1)[1] = LabItem(LastLab)
      BY <3>1, ExamHistoryHeads, LabHistoryHeads
    <3> QED
      BY <1>4, <1>5, <2>2, <3>2 DEF Head2, Latest
  <2>6. LatestActivity = Latest
    BY <2>2, LatestIsLast
  <2> QED
    BY <1>1, <2>4, <2>5, <2>6
<1>10. ASSUME h.next # None
       PROVE  /\ \A a \in Scored(None) : ~Weaker(tally(Prefix(a)), tally(h.next.domain))
              /\ h.next.lab # None => labs[h.next.lab].gold
  <2>1. /\ h.next.domain \in DOMAIN totals
        /\ \A d \in DOMAIN totals : ~Weaker(totals[d], totals[h.next.domain])
        /\ h.next.lab # None => labs[h.next.lab].gold
    BY <1>1, <1>2, <1>10 DEF AdvisesRightly
  <2>2. \A a \in Scored(None) : Prefix(a) \in DOMAIN totals
    BY <1>3
  <2> HIDE DEF tally
  <2> QED
    BY <1>3, <2>1, <2>2
<1>11. CardsAreRight(h)
  BY <1>1, <1>7, <1>8, <1>9, <1>10, ToResumeIsRight DEF CardsAreRight
<1> QED
  BY <1>11 DEF h

-----------------------------------------------------------------------------
(* The statistics page: groups count together what they divide.             *)

Group(A, group, k) == {a \in A : group[a] = k}

LEMMA GroupsCount ==
    ASSUME NEW A, IsFiniteSet(A), NEW K, IsFiniteSet(K), NEW group, \A a \in A : group[a] \in K,
           NEW f, DOMAIN f = K, \A k \in K : f[k] = Cardinality(Group(A, group, k))
    PROVE  SumFunction(f) = Cardinality(A)
<1> DEFINE sets == [k \in K |-> Group(A, group, k)]
<1>1. \A k \in K : IsFiniteSet(sets[k]) /\ f[k] = Cardinality(sets[k])
  <2>1. \A k \in K : Group(A, group, k) \subseteq A
    BY DEF Group
  <2> QED
    BY <2>1, FS_Subset
<1>2. \A j, k \in K : j # k => sets[j] \cap sets[k] = {}
  BY DEF Group
<1>3. UNION {sets[k] : k \in K} = A
  BY DEF Group
<1>5. IsFiniteSet(K)
  OBVIOUS
<1>4. Cardinality(UNION {sets[x] : x \in K}) = SumFunctionOnSet(f, K)
  <2> HIDE DEF sets
  <2>1. ASSUME NEW parts, \A x \in K : IsFiniteSet(parts[x]) /\ f[x] = Cardinality(parts[x]),
               \A x, y \in K : x # y => parts[x] \cap parts[y] = {}
        PROVE  /\ IsFiniteSet(UNION {parts[x] : x \in K})
               /\ Cardinality(UNION {parts[x] : x \in K}) = SumFunctionOnSet(f, K)
    BY ONLY <1>5, <2>1, UnionCounts
  <2> QED
    BY ONLY <1>1, <1>2, <2>1
<1> QED
  BY <1>3, <1>4 DEF SumFunction

OfDomain(A, d) == {a \in A : Prefix(a) = d}
RightOnes(A) == {a \in A : Outcome(a)}

LEMMA TallyCounts ==
    ASSUME NEW A
    PROVE  /\ Tally(A) = [right |-> Cardinality(RightOnes(A)), total |-> Cardinality(A)]
           /\ Tally(A).right = Cardinality(RightOnes(A)) /\ Tally(A).total = Cardinality(A)
BY DEF Tally, RightOnes

LEMMA TotalsAre ==
    ASSUME NEW A
    PROVE  /\ DOMAIN ByDomain(A) = {Prefix(a) : a \in A}
           /\ \A d \in DOMAIN ByDomain(A) : ByDomain(A)[d] = Tally(OfDomain(A, d))
BY DEF ByDomain, OfDomain

\* Tallies of groups add up, in both columns.
LEMMA TalliesAddUp ==
    ASSUME NEW A, IsFiniteSet(A), NEW K, IsFiniteSet(K), NEW group, \A a \in A : group[a] \in K,
           NEW f, \A k \in K : f[k] = Tally(Group(A, group, k))
    PROVE  /\ SumFunction([k \in K |-> f[k].right]) = Cardinality(RightOnes(A))
           /\ SumFunction([k \in K |-> f[k].total]) = Cardinality(A)
<1> DEFINE g == [k \in K |-> f[k].right]
           h == [k \in K |-> f[k].total]
           B == RightOnes(A)
<1>1. B \subseteq A /\ IsFiniteSet(B)
  BY FS_Subset DEF RightOnes
<1>2. ASSUME NEW k \in K
      PROVE  g[k] = Cardinality(Group(B, group, k)) /\ h[k] = Cardinality(Group(A, group, k))
  <2>1. RightOnes(Group(A, group, k)) = Group(B, group, k)
    BY DEF RightOnes, Group
  <2> QED
    BY <2>1, TallyCounts
<1>3. DOMAIN g = K /\ DOMAIN h = K
  OBVIOUS
<1> HIDE DEF g, h, B
<1>4. SumFunction(g) = Cardinality(B)
  <2>1. \A a \in B : group[a] \in K
    BY <1>1
  <2> QED
    BY <1>1, <1>2, <1>3, <2>1, GroupsCount
<1>5. SumFunction(h) = Cardinality(A)
  BY <1>2, <1>3, GroupsCount
<1> QED
  BY <1>4, <1>5 DEF g, h, B

-----------------------------------------------------------------------------
(* The cells: domain and version.                                          *)

CellOf(a) == <<Prefix(a), Named(exams[a[1]].version)>>

LEMMA CellsAddUp ==
    ASSUME Rows(exams, labRuns), NEW cert, NEW d \in DOMAIN DomainTotals(cert)
    PROVE  LET cells == Cells(cert, None)
               keys == {k \in DOMAIN cells : k[1] = d}
           IN  /\ {k[1] : k \in DOMAIN cells} = DOMAIN DomainTotals(cert)
               /\ SumFunction([k \in keys |-> cells[k].right]) = DomainTotals(cert)[d].right
               /\ SumFunction([k \in keys |-> cells[k].total]) = DomainTotals(cert)[d].total
<1> DEFINE S == Scored(cert)
           cells == Cells(cert, None)
           keys == {k \in DOMAIN cells : k[1] = d}
           A == OfDomain(S, d)
           group == [a \in A |-> CellOf(a)]
<1>1. cells = [k \in {CellOf(a) : a \in S} |-> Tally({a \in S : CellOf(a) = k})]
  <2>1. {a \in S : None = None \/ exams[a[1]].version = None} = S
    OBVIOUS
  <2> QED
    BY <2>1 DEF Cells, CellOf
<1>2. /\ DOMAIN DomainTotals(cert) = {Prefix(a) : a \in S}
      /\ DomainTotals(cert)[d] = Tally(A)
  BY TotalsAre DEF DomainTotals
<1>3. IsFiniteSet(S)
  BY ScoredIsFinite
<1>4. DOMAIN cells = {CellOf(a) : a \in S} /\ \A k \in DOMAIN cells : cells[k] = Tally({a \in S : CellOf(a) = k})
  BY <1>1
<1>5. \A a \in S : CellOf(a)[1] = Prefix(a)
  BY DEF CellOf
<1> HIDE DEF S, cells
<1>6. {k[1] : k \in DOMAIN cells} = {Prefix(a) : a \in S}
  BY <1>4, <1>5
<1>7. IsFiniteSet(A) /\ IsFiniteSet(keys)
  <2> DEFINE f == [a \in S |-> CellOf(a)]
  <2>1. DOMAIN cells = {f[a] : a \in S}
    BY <1>4
  <2>2. IsFiniteSet(DOMAIN cells)
    <3> HIDE DEF f
    <3> QED
      BY <1>3, <2>1, ImageIsFinite
  <2>3. A \subseteq S
    BY DEF OfDomain
  <2> QED
    BY <1>3, <2>2, <2>3, FS_Subset
<1>8. \A a \in A : group[a] \in keys
  BY <1>4, <1>5 DEF OfDomain
<1>9. \A k \in keys : cells[k] = Tally(Group(A, group, k))
  <2> SUFFICES ASSUME NEW k \in keys PROVE cells[k] = Tally(Group(A, group, k))
    OBVIOUS
  <2>1. Group(A, group, k) = {a \in S : CellOf(a) = k}
    BY <1>5 DEF OfDomain, Group
  <2> QED
    BY <1>4, <2>1
<1>10. /\ SumFunction([k \in keys |-> cells[k].right]) = Cardinality(RightOnes(A))
       /\ SumFunction([k \in keys |-> cells[k].total]) = Cardinality(A)
  <2> HIDE DEF A, group, keys
  <2> QED
    BY <1>7, <1>8, <1>9, TalliesAddUp
<1> HIDE DEF A
<1>11. DomainTotals(cert)[d].right = Cardinality(RightOnes(A)) /\ DomainTotals(cert)[d].total = Cardinality(A)
  BY <1>2, TallyCounts
<1> QED
  BY <1>2, <1>6, <1>10, <1>11 DEF cells

-----------------------------------------------------------------------------
(* The trend: attempts.                                                    *)

LEMMA ScoredAre ==
    ASSUME NEW cert, NEW a
    PROVE  a \in Scored(cert) <=> /\ a[1] \in DOMAIN exams /\ a \in ScoredOf(a[1])
                                  /\ Matches(a, cert)
<1>1. \A i \in DOMAIN exams : a \in ScoredOf(i) => a[1] = i
  BY DEF ScoredOf, AnswersOf
<1> QED
  BY <1>1 DEF Scored

TrendIds(cert) ==
    {i \in DOMAIN exams : /\ exams[i].finish # None
                          /\ cert # None => \E a \in AnswersOf(i) : Matches(a, cert)}

LEMMA TrendShowsAll ==
    ASSUME Rows(exams, labRuns), NEW cert, Len(DomainTrend(cert)) < Recent
    PROVE  \E drawn : /\ DOMAIN drawn = DOMAIN DomainTrend(cert) /\ IsFiniteSet(DOMAIN drawn)
                      /\ \A a \in Scored(cert) : \E n \in DOMAIN drawn : drawn[n] = a[1]
                      /\ \A n \in DOMAIN drawn : drawn[n] \in DOMAIN exams
                      /\ \A m, n \in DOMAIN drawn : drawn[m] = drawn[n] => m = n
                      /\ \A n \in DOMAIN drawn :
                            DomainTrend(cert)[n] = ByDomain({a \in Scored(cert) : a[1] = drawn[n]})
<1> DEFINE ids == TrendIds(cert)
           s == NewestFirst(ids)
           u == Upto(Recent, s)
           drawn == Reverse(u)
           series == DomainTrend(cert)
<1>1. ids \subseteq DOMAIN exams /\ Sorts(s, ids, Later(ids, Times)) /\ ids \subseteq Int
  <2>1. ids \subseteq DOMAIN exams
    BY DEF TrendIds
  <2>2. DOMAIN exams \subseteq Int
    BY RowsDomains
  <2> QED
    BY <2>1, <2>2, NewestSorts
<1>2. series = [k \in DOMAIN drawn |-> ByDomain({a \in ScoredOf(drawn[k]) : Matches(a, cert)})]
  BY DEF DomainTrend, TrendIds
<1>3. s \in Seq(ids) /\ Recent \in Nat
  BY <1>1, RecentAssumption DEF Sorts
<1>4. drawn = [k \in 1..Len(u) |-> u[(Len(u) - k) + 1]]
  BY DEF Reverse
<1> HIDE DEF ids, s, series
<1>5. /\ u \in Seq(ids) /\ Len(u) = IF Len(s) < Recent THEN Len(s) ELSE Recent
      /\ \A k \in 1..Len(u) : u[k] = s[k]
  BY <1>3, UptoKeeps
<1> HIDE DEF u
<1>6. Len(u) \in Nat /\ Len(s) \in Nat /\ DOMAIN drawn = 1..Len(u) /\ DOMAIN series = 1..Len(u)
  BY <1>2, <1>3, <1>4, <1>5
<1> HIDE DEF drawn
<1>7. Len(series) = Len(u)
  BY <1>2, <1>6
<1>8. Len(s) = Len(u) /\ \A k \in 1..Len(s) : u[k] = s[k]
  BY <1>3, <1>5, <1>6, <1>7 DEF series
<1>9. \A n \in DOMAIN drawn : /\ (Len(u) - n) + 1 \in DOMAIN s /\ drawn[n] = s[(Len(u) - n) + 1]
                              /\ drawn[n] \in ids
  <2> TAKE n \in DOMAIN drawn
  <2>1. (Len(u) - n) + 1 \in 1..Len(u)
    BY <1>6
  <2> QED
    BY <1>3, <1>4, <1>6, <1>8, <2>1
<1>10. ASSUME NEW i \in ids PROVE \E n \in DOMAIN drawn : drawn[n] = i
  <2>1. PICK k \in DOMAIN s : s[k] = i
    BY <1>1 DEF Sorts
  <2>2. k \in 1..Len(u)
    BY <1>3, <1>8, <2>1
  <2> DEFINE n == (Len(u) - k) + 1
  <2>3. n \in 1..Len(u) /\ (Len(u) - n) + 1 = k
    BY <1>6, <2>2
  <2> HIDE DEF n
  <2> QED
    BY <1>6, <1>9, <2>1, <2>3
<1>11. ASSUME NEW m \in DOMAIN drawn, NEW n \in DOMAIN drawn, m < n PROVE drawn[m] # drawn[n]
  <2> DEFINE j == (Len(u) - n) + 1
             k == (Len(u) - m) + 1
  <2>1. j \in DOMAIN s /\ k \in DOMAIN s /\ drawn[n] = s[j] /\ drawn[m] = s[k]
    BY <1>9
  <2>2. j < k
    BY <1>6, <1>11
  <2> HIDE DEF j, k
  <2>3. s[j] \in Later(ids, Times)[s[k]] /\ s[k] \in ids
    BY <1>1, <1>3, <2>1, <2>2 DEF Sorts
  <2>4. s[k] \notin Later(ids, Times)[s[k]]
    <3>1. Times[s[k]] \in Int /\ s[k] \in Int
      BY <1>1, <2>3, WhenIsNat DEF Times
    <3> QED
      BY <2>3, <3>1 DEF Later
  <2> QED
    BY <2>1, <2>3, <2>4
<1>12. \A m, n \in DOMAIN drawn : drawn[m] = drawn[n] => m = n
  <2> SUFFICES ASSUME NEW m \in DOMAIN drawn, NEW n \in DOMAIN drawn, m # n PROVE drawn[m] # drawn[n]
    OBVIOUS
  <2>1. m < n \/ n < m
    BY <1>6
  <2> QED
    BY <1>11, <2>1
<1>13. ASSUME NEW a \in Scored(cert) PROVE a[1] \in ids
  <2>1. a[1] \in DOMAIN exams /\ a \in AnswersOf(a[1]) /\ Matches(a, cert)
    BY ScoredAre DEF ScoredOf
  <2>2. exams[a[1]].finish # None
    <3>1. DOMAIN exams[a[1]].sheet # {}
      BY <2>1 DEF AnswersOf
    <3> QED
      BY <2>1, <3>1 DEF Rows, IsRow
  <2> QED
    BY <2>1, <2>2 DEF ids, TrendIds
<1>14. ASSUME NEW n \in DOMAIN drawn
       PROVE  series[n] = ByDomain({a \in Scored(cert) : a[1] = drawn[n]})
  <2>1. drawn[n] \in DOMAIN exams
    BY <1>1, <1>9
  <2>2. \A a \in ScoredOf(drawn[n]) : a[1] = drawn[n]
    BY DEF ScoredOf, AnswersOf
  <2>3. {a \in ScoredOf(drawn[n]) : Matches(a, cert)} = {a \in Scored(cert) : a[1] = drawn[n]}
    BY <2>1, <2>2, ScoredAre
  <2> QED
    BY <1>2, <2>3
<1>15. IsFiniteSet(DOMAIN drawn)
  <2>1. 1 \in Int /\ Len(u) \in Int
    BY <1>6
  <2> QED
    BY <1>6, <2>1, FS_Interval
<1>16. \A n \in DOMAIN drawn : drawn[n] \in DOMAIN exams
  BY <1>1, <1>9
<1> QED
  BY <1>6, <1>10, <1>12, <1>13, <1>14, <1>15, <1>16 DEF series

LEMMA TrendAddsUp ==
    ASSUME Rows(exams, labRuns), NEW cert, Len(DomainTrend(cert)) < Recent,
           NEW d \in DOMAIN DomainTotals(cert)
    PROVE  LET series == DomainTrend(cert)
               points == {n \in DOMAIN series : d \in DOMAIN series[n]}
           IN  /\ SumFunction([n \in points |-> series[n][d].right]) = DomainTotals(cert)[d].right
               /\ SumFunction([n \in points |-> series[n][d].total]) = DomainTotals(cert)[d].total
<1> DEFINE S == Scored(cert)
           series == DomainTrend(cert)
           points == {n \in DOMAIN series : d \in DOMAIN series[n]}
           A == OfDomain(S, d)
<1>1. PICK drawn : /\ DOMAIN drawn = DOMAIN series /\ IsFiniteSet(DOMAIN drawn)
                   /\ \A a \in S : \E n \in DOMAIN drawn : drawn[n] = a[1]
                   /\ \A m, n \in DOMAIN drawn : drawn[m] = drawn[n] => m = n
                   /\ \A n \in DOMAIN drawn : series[n] = ByDomain({a \in S : a[1] = drawn[n]})
  BY TrendShowsAll
<1>2. DomainTotals(cert)[d] = Tally(A)
  BY TotalsAre DEF DomainTotals
<1>3. IsFiniteSet(S)
  BY ScoredIsFinite
<1> HIDE DEF S, series
<1> DEFINE group == [a \in A |-> CHOOSE n \in DOMAIN drawn : drawn[n] = a[1]]
           f == [n \in points |-> series[n][d]]
<1>4. \A a \in A : group[a] \in DOMAIN drawn /\ drawn[group[a]] = a[1]
  BY <1>1 DEF OfDomain
<1> HIDE DEF group
<1>5. IsFiniteSet(A) /\ IsFiniteSet(points)
  <2>1. A \subseteq S /\ points \subseteq DOMAIN drawn
    BY <1>1 DEF OfDomain
  <2> QED
    BY <1>1, <1>3, <2>1, FS_Subset
<1>6. \A a \in A : group[a] \in points
  <2> SUFFICES ASSUME NEW a \in A PROVE d \in DOMAIN series[group[a]]
    BY <1>1, <1>4
  <2> DEFINE B == {b \in S : b[1] = drawn[group[a]]}
  <2>1. a \in B /\ Prefix(a) = d
    BY <1>4 DEF OfDomain
  <2>2. series[group[a]] = ByDomain(B)
    BY <1>1, <1>4
  <2> HIDE DEF B
  <2> QED
    BY <2>1, <2>2, TotalsAre
<1>7. \A n \in points : f[n] = Tally(Group(A, group, n))
  <2> SUFFICES ASSUME NEW n \in points PROVE series[n][d] = Tally(Group(A, group, n))
    OBVIOUS
  <2> DEFINE B == {b \in S : b[1] = drawn[n]}
  <2>1. series[n] = ByDomain(B) /\ d \in DOMAIN series[n] /\ n \in DOMAIN drawn
    BY <1>1
  <2>2. OfDomain(B, d) = Group(A, group, n)
    <3>1. \A a \in A : a[1] = drawn[n] <=> group[a] = n
      BY <1>1, <1>4, <2>1
    <3> QED
      BY <3>1 DEF OfDomain, Group
  <2> HIDE DEF B
  <2>3. series[n][d] = Tally(OfDomain(B, d))
    BY <2>1, TotalsAre
  <2> QED
    BY <2>2, <2>3
<1>8. /\ SumFunction([n \in points |-> f[n].right]) = Cardinality(RightOnes(A))
      /\ SumFunction([n \in points |-> f[n].total]) = Cardinality(A)
  <2> HIDE DEF A, points, f
  <2> QED
    BY <1>5, <1>6, <1>7, TalliesAddUp
<1>9. /\ [n \in points |-> f[n].right] = [n \in points |-> series[n][d].right]
      /\ [n \in points |-> f[n].total] = [n \in points |-> series[n][d].total]
  OBVIOUS
<1> HIDE DEF A
<1>10. DomainTotals(cert)[d].right = Cardinality(RightOnes(A)) /\ DomainTotals(cert)[d].total = Cardinality(A)
  BY <1>2, TallyCounts
<1> QED
  BY <1>8, <1>9, <1>10 DEF series

\* What StatsAgree says of the panels and the filters they were made with.
BoardAgrees(b, f) ==
    LET domains == DOMAIN b.bars
        right(t) == t.right
        total(t) == t.total
        sums(g, keys) == [right |-> SumOver(g, keys, right), total |-> SumOver(g, keys, total)]
    IN  /\ b.certBox = f.cert /\ b.versionBox = f.version
        /\ f.version = None =>
              /\ {k[1] : k \in DOMAIN b.cells} = domains
              /\ \A d \in domains : sums(b.cells, {k \in DOMAIN b.cells : k[1] = d}) = b.bars[d]
        /\ f.version \notin {None, "unknown"} => DOMAIN b.cells # {}
        /\ Len(b.series) < Recent =>
              \A d \in domains :
                 LET points == {n \in DOMAIN b.series : d \in DOMAIN b.series[n]}
                 IN  sums([n \in points |-> b.series[n][d]], points) = b.bars[d]
        /\ (b.next = None) <=> (domains = {})
        /\ \A d \in domains : ~Weaker(b.bars[d], b.bars[b.next.domain])

LEMMA CellsOfAll ==
    ASSUME Rows(exams, labRuns), NEW cert
    PROVE  {k[1] : k \in DOMAIN Cells(cert, None)} = DOMAIN DomainTotals(cert)
<1> DEFINE S == Scored(cert)
<1>1. DOMAIN Cells(cert, None) = {CellOf(a) : a \in S}
  <2>1. {a \in S : None = None \/ exams[a[1]].version = None} = S
    OBVIOUS
  <2> QED
    BY <2>1 DEF Cells, CellOf
<1>2. \A a \in S : CellOf(a)[1] = Prefix(a)
  BY DEF CellOf
<1>3. DOMAIN DomainTotals(cert) = {Prefix(a) : a \in S}
  BY TotalsAre DEF DomainTotals
<1> QED
  BY <1>1, <1>2, <1>3

\* A version that is offered, and is not the name of none, has answers.
LEMMA OfferedHasAnswers ==
    ASSUME NEW cert, NEW version \in ExamVersions(cert), version # "unknown"
    PROVE  DOMAIN Cells(cert, version) # {}
<1>1. PICK a \in Scored(cert) : version = Named(exams[a[1]].version)
  BY DEF ExamVersions
<1>2. exams[a[1]].version = version
  BY <1>1 DEF Named
<1> DEFINE chosen == {b \in Scored(cert) : version = None \/ exams[b[1]].version = version}
<1>3. a \in chosen
  BY <1>2
<1>4. DOMAIN Cells(cert, version) = {<<Prefix(b), Named(exams[b[1]].version)>> : b \in chosen}
  BY DEF Cells
<1> QED
  BY <1>3, <1>4

LEMMA BoardIsRight ==
    ASSUME Rows(exams, labRuns), DOMAIN labs \subseteq Nat, NEW f,
           f.version = None \/ f.version \in ExamVersions(f.cert)
    PROVE  BoardAgrees(Board(f), f)
<1> DEFINE b == Board(f)
           totals == DomainTotals(f.cert)
           series == DomainTrend(f.cert)
<1>1. /\ b.bars = totals /\ b.cells = Cells(f.cert, f.version) /\ b.series = series
      /\ b.next = Advice(f.cert) /\ b.certBox = f.cert
      /\ b.versionBox = IF f.version \in ExamVersions(f.cert) THEN f.version ELSE None
  BY DEF Board
<1>2. AdvisesRightly(b.next, totals, labs)
  BY <1>1, AdviceIsRight
<1>3. \A d \in DOMAIN totals : totals[d] = [right |-> totals[d].right, total |-> totals[d].total]
  <2> SUFFICES ASSUME NEW d \in DOMAIN totals
               PROVE  totals[d] = [right |-> totals[d].right, total |-> totals[d].total]
    OBVIOUS
  <2>1. totals[d] = Tally(OfDomain(Scored(f.cert), d))
    BY TotalsAre DEF DomainTotals
  <2> QED
    BY <2>1, TallyCounts
<1>4. ASSUME f.version = None
      PROVE  /\ {k[1] : k \in DOMAIN b.cells} = DOMAIN totals
             /\ \A d \in DOMAIN totals :
                   /\ SumFunction([k \in {j \in DOMAIN b.cells : j[1] = d} |-> b.cells[k].right]) = totals[d].right
                   /\ SumFunction([k \in {j \in DOMAIN b.cells : j[1] = d} |-> b.cells[k].total]) = totals[d].total
  <2>1. b.cells = Cells(f.cert, None)
    BY <1>1, <1>4
  <2> HIDE DEF b
  <2> QED
    BY <2>1, CellsOfAll, CellsAddUp
<1>5. ASSUME Len(series) < Recent, NEW d \in DOMAIN totals
      PROVE  LET points == {n \in DOMAIN series : d \in DOMAIN series[n]}
             IN  /\ SumFunction([n \in points |-> series[n][d].right]) = totals[d].right
                 /\ SumFunction([n \in points |-> series[n][d].total]) = totals[d].total
  BY <1>5, TrendAddsUp
<1>6. f.version \notin {None, "unknown"} => DOMAIN b.cells # {}
  BY <1>1, OfferedHasAnswers
<1>7. b.versionBox = f.version
  BY <1>1
<1> HIDE DEF b, totals, series
<1>8. ASSUME NEW d \in DOMAIN totals, Len(series) < Recent
      PROVE  LET points == {n \in DOMAIN series : d \in DOMAIN series[n]}
                 g == [n \in points |-> series[n][d]]
             IN  /\ [k \in points |-> g[k].right] = [n \in points |-> series[n][d].right]
                 /\ [k \in points |-> g[k].total] = [n \in points |-> series[n][d].total]
  OBVIOUS
<1>9. BoardAgrees(b, f)
  <2>1. b.certBox = f.cert /\ b.versionBox = f.version
    BY <1>1, <1>7
  <2>2. (b.next = None) <=> (DOMAIN totals = {})
    BY <1>2 DEF AdvisesRightly
  <2>3. \A d \in DOMAIN totals : ~Weaker(totals[d], totals[b.next.domain])
    BY <1>2 DEF AdvisesRightly
  <2>4. ASSUME f.version = None, NEW d \in DOMAIN totals
        PROVE  [right |-> SumFunction([k \in {j \in DOMAIN b.cells : j[1] = d} |-> b.cells[k].right]),
                total |-> SumFunction([k \in {j \in DOMAIN b.cells : j[1] = d} |-> b.cells[k].total])] = totals[d]
    BY <1>3, <1>4, <2>4
  <2>5. ASSUME Len(series) < Recent, NEW d \in DOMAIN totals
        PROVE  LET points == {n \in DOMAIN series : d \in DOMAIN series[n]}
                   g == [n \in points |-> series[n][d]]
               IN  [right |-> SumFunction([k \in points |-> g[k].right]),
                    total |-> SumFunction([k \in points |-> g[k].total])] = totals[d]
    BY <1>3, <1>5, <1>8, <2>5
  <2> QED
    BY <1>1, <1>4, <1>6, <2>1, <2>2, <2>3, <2>4, <2>5 DEF BoardAgrees, SumOver
<1> QED
  BY <1>9 DEF b

-----------------------------------------------------------------------------
(* What saving an attempt does to the rows.                                 *)

SittingIs(s, rows) ==
    /\ s = [id |-> s.id, answered |-> s.answered, version |-> s.version] /\ s.answered \in Nat
    /\ s.id # None => s.id \in DOMAIN rows /\ rows[s.id].finish = None

\* Answers are not lost.
Keeps(rows, later) ==
    /\ DOMAIN rows \subseteq DOMAIN later
    /\ \A i \in DOMAIN rows : DOMAIN rows[i].sheet # {} =>
          later[i].sheet = rows[i].sheet /\ later[i].version = rows[i].version

IsSequence(s) == s \in Seq({s[i] : i \in DOMAIN s})
PlaceOf(rows, s) == IF s.id = None THEN Len(rows) + 1 ELSE s.id

LEMMA PutIs ==
    ASSUME NEW rows, IsSequence(rows), NEW s, NEW row,
           s.id # None => s.id \in DOMAIN rows
    PROVE  LET p == Put(rows, s, row)
               n == PlaceOf(rows, s)
           IN  /\ IsSequence(p) /\ DOMAIN p = DOMAIN rows \cup {n}
               /\ p[n] = row /\ \A i \in DOMAIN rows : i # n => p[i] = rows[i]
               /\ n \in Nat \ {0} /\ (s.id = None => n \notin DOMAIN rows)
<1> DEFINE p == Put(rows, s, row)
           n == PlaceOf(rows, s)
<1>1. DOMAIN rows = 1..Len(rows) /\ Len(rows) \in Nat
  BY DEF IsSequence
<1>2. CASE s.id = None
  <2>1. p = Append(rows, row) /\ n = Len(rows) + 1
    BY <1>2 DEF Put, PlaceOf
  <2>2. DOMAIN p = 1..n /\ p[n] = row /\ \A i \in DOMAIN rows : p[i] = rows[i]
    BY <1>1, <2>1
  <2> HIDE DEF p, n
  <2>3. DOMAIN p = DOMAIN rows \cup {n} /\ n \in Nat \ {0} /\ n \notin DOMAIN rows
    BY <1>1, <2>1, <2>2
  <2>4. p \in Seq({rows[i] : i \in DOMAIN rows} \cup {row})
    BY <2>1 DEF IsSequence
  <2>5. IsSequence(p)
    BY <2>4 DEF IsSequence
  <2> QED
    BY <2>1, <2>2, <2>3, <2>5 DEF p, n
<1>3. CASE s.id # None
  <2>1. p = [rows EXCEPT ![s.id] = row] /\ n = s.id /\ n \in DOMAIN rows
    BY <1>3 DEF Put, PlaceOf
  <2> HIDE DEF p, n
  <2>2. DOMAIN p = DOMAIN rows /\ p[n] = row /\ \A i \in DOMAIN rows : i # n => p[i] = rows[i]
    BY <2>1
  <2>3. p = [i \in 1..Len(rows) |-> p[i]]
    BY <1>1, <2>1
  <2>4. IsSequence(p)
    BY <1>1, <2>2, <2>3 DEF IsSequence
  <2>5. n \in Nat \ {0} /\ DOMAIN p = DOMAIN rows \cup {n}
    BY <1>1, <2>1, <2>2
  <2> QED
    BY <1>3, <2>2, <2>4, <2>5 DEF p, n
<1> QED
  BY <1>2, <1>3

\* Rows of which none gets or loses a finish.
LEMMA SameTimes ==
    ASSUME NEW rows, NEW runs, Rows(rows, runs), NEW p, Over(p) = Over(rows),
           \A i \in Over(rows) : p[i].finish = rows[i].finish
    PROVE  Timely(p, runs, Time(p, runs))
<1>1. Time(p, runs) = Time(rows, runs)
  BY DEF Time
<1>2. Timely(rows, runs, Time(rows, runs))
  BY DEF Rows
<1> QED
  BY <1>1, <1>2 DEF Timely

LEMMA AbandonedIs ==
    ASSUME Rows(exams, labRuns)
    PROVE  /\ DOMAIN Abandoned = DOMAIN exams /\ IsSequence(Abandoned)
           /\ Len(Abandoned) = Len(exams)
           /\ \A i \in DOMAIN exams :
                 /\ IsRow(Abandoned[i]) /\ Abandoned[i].status # "active"
                 /\ Abandoned[i].finish = exams[i].finish /\ Abandoned[i].sheet = exams[i].sheet
                 /\ Abandoned[i].version = exams[i].version
<1> DEFINE A == Abandoned
<1>1. DOMAIN exams = 1..Len(exams) /\ Len(exams) \in Nat
  BY RowsDomains
<1>2. DOMAIN A = DOMAIN exams
  BY DEF Abandoned
<1>3. ASSUME NEW i \in DOMAIN exams
      PROVE  /\ IsRow(A[i]) /\ A[i].status # "active"
             /\ A[i].finish = exams[i].finish /\ A[i].sheet = exams[i].sheet
             /\ A[i].version = exams[i].version
  <2>1. IsRow(exams[i])
    BY DEF Rows
  <2>2. A[i] = IF exams[i].status = "active" THEN [exams[i] EXCEPT !.status = "abandoned"] ELSE exams[i]
    BY DEF Abandoned
  <2> HIDE DEF A
  <2>3. CASE exams[i].status = "active"
    <3> DEFINE r == exams[i]
    <3>1. A[i] = [r EXCEPT !.status = "abandoned"]
      BY <2>2, <2>3
    <3>2. IsRow(r) /\ r.status = "active"
      BY <2>1, <2>3
    <3> HIDE DEF r
    <3>3. DOMAIN r = RowFields
      BY <3>2 DEF IsRow
    <3>4. /\ DOMAIN A[i] = RowFields /\ A[i].status = "abandoned" /\ A[i].answered = r.answered
          /\ A[i].finish = r.finish /\ A[i].sheet = r.sheet /\ A[i].version = r.version
      BY <3>1, <3>3 DEF RowFields
    <3>5. IsRow(A[i])
      BY <3>2, <3>4 DEF IsRow
    <3> QED
      BY <3>4, <3>5 DEF r
  <2>4. CASE exams[i].status # "active"
    BY <2>1, <2>2, <2>4
  <2> QED
    BY <2>3, <2>4
<1>4. A = [i \in 1..Len(exams) |-> A[i]]
  BY <1>1 DEF Abandoned
<1> HIDE DEF A
<1>5. IsSequence(A) /\ Len(A) = Len(exams)
  BY <1>1, <1>2, <1>4 DEF IsSequence
<1> QED
  BY <1>2, <1>3, <1>5 DEF A

LEMMA AbandonedKeeps ==
    ASSUME Rows(exams, labRuns)
    PROVE  Rows(Abandoned, labRuns) /\ Keeps(exams, Abandoned)
<1> DEFINE A == Abandoned
<1>1. /\ DOMAIN A = DOMAIN exams /\ IsSequence(A)
      /\ \A i \in DOMAIN exams :
            /\ IsRow(A[i]) /\ A[i].status # "active"
            /\ A[i].finish = exams[i].finish /\ A[i].sheet = exams[i].sheet
            /\ A[i].version = exams[i].version
  BY AbandonedIs
<1> HIDE DEF A
<1>2. Over(A) = Over(exams) /\ \A i \in Over(exams) : A[i].finish = exams[i].finish
  BY <1>1 DEF Over
<1>3. Timely(A, labRuns, Time(A, labRuns))
  BY <1>2, SameTimes
<1>4. Rows(A, labRuns)
  BY <1>1, <1>3 DEF Rows, IsSequence
<1> QED
  BY <1>1, <1>4 DEF A, Keeps

LEMMA ActiveRowIs ==
    ASSUME NEW s, s.answered \in Nat
    PROVE  IsRow(ActiveRow(s)) /\ ActiveRow(s).finish = None
<1> DEFINE r == ActiveRow(s)
<1>1. /\ DOMAIN r = RowFields /\ r.answered = s.answered /\ r.status = "active"
      /\ r.finish = None /\ r.sheet = <<>>
  BY DEF ActiveRow, RowFields
<1> HIDE DEF r
<1>2. DOMAIN r.sheet = {}
  BY <1>1
<1>3. IsRow(r)
  BY <1>1, <1>2, FS_EmptySet DEF IsRow
<1> QED
  BY <1>1, <1>3 DEF r

\* upsert_active_session
LEMMA SaveKeeps ==
    ASSUME Rows(exams, labRuns), NEW s, SittingIs(s, exams)
    PROVE  LET p == Put(Abandoned, s, ActiveRow(s))
           IN  Rows(p, labRuns) /\ Keeps(exams, p) /\ SittingIs([s EXCEPT !.id = RowId(s)], p)
<1> DEFINE A == Abandoned
           row == ActiveRow(s)
           p == Put(A, s, row)
           n == PlaceOf(A, s)
<1>1. /\ DOMAIN A = DOMAIN exams /\ IsSequence(A) /\ Len(A) = Len(exams)
      /\ \A i \in DOMAIN exams :
            /\ IsRow(A[i]) /\ A[i].status # "active"
            /\ A[i].finish = exams[i].finish /\ A[i].sheet = exams[i].sheet
            /\ A[i].version = exams[i].version
  BY AbandonedIs
<1>2. IsRow(row) /\ row.finish = None
  BY ActiveRowIs DEF SittingIs
<1>3. n = RowId(s)
  BY <1>1 DEF PlaceOf, RowId
<1>4. s.id # None => s.id \in DOMAIN A /\ exams[s.id].finish = None
  BY <1>1 DEF SittingIs
<1> HIDE DEF A, row
<1>5. /\ IsSequence(p) /\ DOMAIN p = DOMAIN A \cup {n}
      /\ p[n] = row /\ \A i \in DOMAIN A : i # n => p[i] = A[i]
      /\ n \in Nat \ {0} /\ (s.id = None => n \notin DOMAIN A)
  <2>1. IsSequence(A) /\ (s.id # None => s.id \in DOMAIN A)
    BY <1>1, <1>4
  <2> QED
    BY ONLY <2>1, PutIs
<1>6. s.id # None => n = s.id
  BY DEF PlaceOf
<1> HIDE DEF p, n
<1>7. n \notin Over(exams)
  BY <1>1, <1>4, <1>5, <1>6 DEF Over
<1>8. Over(p) = Over(exams) /\ \A i \in Over(exams) : p[i].finish = exams[i].finish
  BY <1>1, <1>2, <1>5, <1>7 DEF Over
<1>9. Timely(p, labRuns, Time(p, labRuns))
  BY <1>8, SameTimes
<1>10. \A i \in DOMAIN p : i # n => i \in DOMAIN exams /\ p[i] = A[i]
  BY <1>1, <1>5
<1>11. \A i \in DOMAIN p : IsRow(p[i]) /\ (p[i].status = "active" => i = n)
  BY <1>1, <1>2, <1>5, <1>10
<1>12. Rows(p, labRuns)
  BY <1>5, <1>9, <1>11 DEF Rows, IsSequence
<1>13. Keeps(exams, p)
  <2>1. ASSUME NEW i \in DOMAIN exams, DOMAIN exams[i].sheet # {} PROVE i # n
    <3>1. exams[i].finish # None
      BY <2>1 DEF Rows, IsRow
    <3> QED
      BY <1>7, <3>1 DEF Over
  <2> QED
    BY <1>1, <1>5, <2>1 DEF Keeps
<1>14. SittingIs([s EXCEPT !.id = n], p)
  <2> DEFINE t == [s EXCEPT !.id = n]
  <2>1. s = [id |-> s.id, answered |-> s.answered, version |-> s.version] /\ s.answered \in Nat
    BY DEF SittingIs
  <2>2. t = [id |-> n, answered |-> s.answered, version |-> s.version]
    BY <2>1
  <2> HIDE DEF t
  <2>3. /\ t = [id |-> t.id, answered |-> t.answered, version |-> t.version]
        /\ t.answered \in Nat /\ t.id = n
    BY <2>1, <2>2
  <2> QED
    BY <1>2, <1>5, <2>3 DEF SittingIs, t
<1> QED
  BY <1>3, <1>12, <1>13, <1>14 DEF p, A, row

\* finish_and_score
LEMMA FinishedRowIs ==
    ASSUME Rows(exams, labRuns), NEW s, s.answered \in Nat, NEW sheet \in Outcomes
    PROVE  LET row == FinishedRow(s, sheet)
           IN  IsRow(row) /\ row.finish = Time(exams, labRuns) /\ row.status # "active"
<1> DEFINE r == ActiveRow(s)
           row == FinishedRow(s, sheet)
           score == (100 * Cardinality({q \in DOMAIN sheet : sheet[q] = TRUE})) \div Cardinality(DOMAIN sheet)
<1>1. /\ DOMAIN r = RowFields /\ r.answered = s.answered
  BY DEF ActiveRow, RowFields
<1>2. row = [r EXCEPT !.status = "finished", !.finish = Clock, !.score = score,
                      !.passed = (score >= PassMark), !.sheet = sheet]
  BY DEF FinishedRow
<1> HIDE DEF r, row, score
<1>3. /\ DOMAIN row = RowFields /\ row.answered = s.answered /\ row.status = "finished"
      /\ row.finish = Clock /\ row.sheet = sheet
  <2> HIDE DEF Clock
  <2> QED
    BY <1>1, <1>2 DEF RowFields
<1>4. Clock = Time(exams, labRuns) /\ Clock \in Nat /\ Clock # None
  BY ClockIsTime, RowsDomains, TimesAssumption
<1>5. DOMAIN sheet \subseteq Questions /\ IsFiniteSet(DOMAIN sheet)
  BY OutcomesAssumption
<1> HIDE DEF Clock
<1>6. IsRow(row)
  BY <1>3, <1>4, <1>5 DEF IsRow
<1> QED
  BY <1>3, <1>4, <1>6 DEF row

LEMMA FinishKeeps ==
    ASSUME Rows(exams, labRuns), NEW s, SittingIs(s, exams), NEW sheet \in Outcomes
    PROVE  LET p == Put(exams, s, FinishedRow(s, sheet))
           IN  Rows(p, labRuns) /\ Keeps(exams, p)
<1> DEFINE row == FinishedRow(s, sheet)
           p == Put(exams, s, row)
           n == PlaceOf(exams, s)
           now == Time(exams, labRuns)
<1>1. IsRow(row) /\ row.finish = now /\ row.status # "active"
  BY FinishedRowIs DEF SittingIs
<1>2. IsSequence(exams) /\ (s.id # None => s.id \in DOMAIN exams /\ exams[s.id].finish = None)
  BY DEF Rows, IsSequence, SittingIs
<1> HIDE DEF row
<1>3. /\ IsSequence(p) /\ DOMAIN p = DOMAIN exams \cup {n}
      /\ p[n] = row /\ \A i \in DOMAIN exams : i # n => p[i] = exams[i]
      /\ n \in Nat \ {0} /\ (s.id = None => n \notin DOMAIN exams)
  <2> DEFINE rows == exams
  <2>1. IsSequence(rows) /\ (s.id # None => s.id \in DOMAIN rows) /\ p = Put(rows, s, row) /\ n = PlaceOf(rows, s)
    BY <1>2
  <2> HIDE DEF rows, p, n
  <2>2. /\ IsSequence(p) /\ DOMAIN p = DOMAIN rows \cup {n}
        /\ p[n] = row /\ \A i \in DOMAIN rows : i # n => p[i] = rows[i]
        /\ n \in Nat \ {0} /\ (s.id = None => n \notin DOMAIN rows)
    BY ONLY <2>1, PutIs
  <2> QED
    BY <2>2 DEF rows
<1>4. s.id # None => n = s.id
  BY DEF PlaceOf
<1>5. now \in Nat \ {0} /\ now # None /\ IsFiniteSet(Over(exams)) /\ Cardinality(Over(exams)) \in Nat /\ Len(labRuns) \in Nat
  BY RowsDomains, TimesAssumption
<1> HIDE DEF p, n
<1>6. n \notin Over(exams)
  BY <1>2, <1>3, <1>4 DEF Over
<1>7. now = 1 + Len(labRuns) + Cardinality(Over(exams))
  BY DEF Time
<1>8. Timely(exams, labRuns, now)
  BY DEF Rows
<1> HIDE DEF now
<1>9. Over(p) = Over(exams) \cup {n} /\ \A i \in Over(exams) : p[i].finish = exams[i].finish
  BY <1>1, <1>3, <1>5, <1>6 DEF Over
<1>10. Time(p, labRuns) = now + 1
  <2>1. Cardinality(Over(exams) \cup {n}) = Cardinality(Over(exams)) + 1
    BY <1>5, <1>6, FS_AddElement
  <2> QED
    BY <1>5, <1>7, <1>9, <2>1 DEF Time
<1>11. Timely(p, labRuns, now + 1)
  <2>1. \A i \in Over(p) : p[i].finish \in 1..now
    BY <1>1, <1>3, <1>5, <1>8, <1>9 DEF Timely
  <2>2. \A k \in DOMAIN labRuns : labRuns[k].finish \in 1..now
    BY <1>5, <1>8 DEF Timely
  <2>3. n \in Over(p) /\ p[n].finish = now
    BY <1>1, <1>3, <1>9
  <2>4. (now + 1) - 1 = now
    BY <1>5
  <2> QED
    BY <1>8, <2>1, <2>2, <2>3, <2>4 DEF Timely
<1>12. \A i \in DOMAIN p : /\ IsRow(p[i])
                           /\ p[i].status = "active" => i \in DOMAIN exams /\ p[i] = exams[i]
  BY <1>1, <1>3 DEF Rows
<1>13. Rows(p, labRuns)
  BY <1>3, <1>10, <1>11, <1>12 DEF Rows, IsSequence
<1>14. Keeps(exams, p)
  <2>1. ASSUME NEW i \in DOMAIN exams, DOMAIN exams[i].sheet # {} PROVE i # n
    <3>1. exams[i].finish # None
      BY <2>1 DEF Rows, IsRow
    <3> QED
      BY <1>6, <3>1 DEF Over
  <2> QED
    BY <1>3, <2>1 DEF Keeps
<1> QED
  BY <1>13, <1>14 DEF p, row

\* save_lab_result
LEMMA LabKeeps ==
    ASSUME Rows(exams, labRuns), NEW score
    PROVE  Rows(exams, Append(labRuns, [score |-> score, finish |-> Clock]))
<1> DEFINE run == [score |-> score, finish |-> Clock]
           runs == Append(labRuns, run)
           now == Time(exams, labRuns)
           n == Len(labRuns) + 1
<1>1. /\ DOMAIN labRuns = 1..Len(labRuns) /\ Len(labRuns) \in Nat
      /\ Cardinality(Over(exams)) \in Nat /\ now \in Nat \ {0} /\ Clock = now
  BY RowsDomains, ClockIsTime
<1>2. run.finish = now
  BY <1>1
<1>3. now = 1 + Len(labRuns) + Cardinality(Over(exams))
  BY DEF Time
<1>4. Timely(exams, labRuns, now)
  BY DEF Rows
<1>5. IsSequence(labRuns)
  BY DEF Rows, IsSequence
<1> HIDE DEF run, now
<1>6. /\ DOMAIN runs = 1..n /\ Len(runs) = n /\ runs[n] = run
      /\ \A k \in DOMAIN labRuns : runs[k] = labRuns[k]
  BY <1>1, <1>5 DEF IsSequence
<1>7. IsSequence(runs)
  <2>1. runs \in Seq({labRuns[k] : k \in DOMAIN labRuns} \cup {run})
    BY <1>5 DEF IsSequence
  <2> HIDE DEF runs
  <2> QED
    BY <2>1 DEF IsSequence
<1> HIDE DEF runs
<1>8. Time(exams, runs) = now + 1
  BY <1>1, <1>3, <1>6 DEF Time
<1>9. \A k \in DOMAIN runs : k = n \/ k \in DOMAIN labRuns
  BY <1>1, <1>6
<1>10. Timely(exams, runs, now + 1)
  <2>1. \A i \in Over(exams) : exams[i].finish \in 1..now
    BY <1>1, <1>4 DEF Timely
  <2>2. \A k \in DOMAIN runs : runs[k].finish \in 1..now
    BY <1>1, <1>2, <1>4, <1>6, <1>9 DEF Timely
  <2>3. n \in DOMAIN runs /\ runs[n].finish = now
    BY <1>1, <1>2, <1>6
  <2>4. (now + 1) - 1 = now
    BY <1>1
  <2>5. ASSUME NEW j \in DOMAIN runs, NEW k \in DOMAIN runs, j < k
        PROVE  runs[j].finish <= runs[k].finish
    <3>1. j \in DOMAIN labRuns
      BY <1>1, <1>6, <2>5
    <3>2. CASE k = n
      <4>1. runs[j].finish \in 1..now
        BY <2>2
      <4> QED
        BY <1>1, <2>3, <3>2, <4>1
    <3>3. CASE k \in DOMAIN labRuns
      BY <1>4, <1>6, <2>5, <3>1, <3>3 DEF Timely
    <3> QED
      BY <1>9, <3>2, <3>3
  <2> QED
    BY <2>1, <2>2, <2>3, <2>4, <2>5 DEF Timely
<1>11. Rows(exams, runs)
  BY <1>7, <1>8, <1>10 DEF Rows, IsSequence
<1> QED
  BY <1>11 DEF runs, run

LEMMA HistoriesAreRows == ASSUME NEW h \in Histories PROVE Rows(h, <<>>)
<1> DEFINE runs == <<>>
           over == {i \in DOMAIN h : h[i].finish # None}
<1>1. /\ h \in Seq(Range(h))
      /\ {h[i].finish : i \in over} = 1..Cardinality(over)
      /\ \A i, j \in DOMAIN h : h[i].status = "active" /\ h[j].status = "active" => i = j
      /\ \A i \in DOMAIN h :
            /\ DOMAIN h[i] = RowFields /\ h[i].answered \in Nat
            /\ h[i].status = "finished" <=> h[i].finish # None
            /\ DOMAIN h[i].sheet \subseteq Questions /\ IsFiniteSet(DOMAIN h[i].sheet)
            /\ h[i].finish = None => DOMAIN h[i].sheet = {}
  BY HistoriesAssumption
<1>2. \A i \in DOMAIN h : IsRow(h[i])
  BY <1>1 DEF IsRow
<1>3. over = Over(h)
  BY DEF Over
<1>4. Cardinality(over) \in Nat
  <2>0. h \in Seq(Range(h))
    BY <1>1
  <2>1. DOMAIN h = 1..Len(h) /\ Len(h) \in Nat
    BY ONLY <2>0
  <2>2. 1 \in Int /\ Len(h) \in Int
    BY <2>1
  <2>3. IsFiniteSet(DOMAIN h)
    BY <2>1, <2>2, FS_Interval
  <2>4. over \subseteq DOMAIN h
    OBVIOUS
  <2> HIDE DEF over
  <2> QED
    BY <2>3, <2>4, FS_Subset, FS_CardinalityType
<1>5. Len(runs) = 0 /\ DOMAIN runs = {} /\ runs \in Seq({runs[k] : k \in DOMAIN runs})
  OBVIOUS
<1> DEFINE times == {h[i].finish : i \in over}
<1>6. \A i \in over : h[i].finish \in times
  OBVIOUS
<1>7. \A t \in times : \E i \in over : h[i].finish = t
  OBVIOUS
<1>8. times = 1..Cardinality(over)
  BY <1>1
<1> HIDE DEF over, runs, times
<1>9. Time(h, runs) = Cardinality(over) + 1
  BY <1>3, <1>4, <1>5 DEF Time
<1>10. Timely(h, runs, Cardinality(over) + 1)
  <2> DEFINE c == Cardinality(over)
  <2>1. (c + 1) - 1 = c
    BY <1>4
  <2>2. c + 1 > 1 => c \in times
    BY <1>4, <1>8
  <2> QED
    BY <1>3, <1>5, <1>6, <1>7, <1>8, <2>1, <2>2 DEF Timely
<1>11. h \in Seq({h[i] : i \in DOMAIN h})
  BY <1>1 DEF Range
<1> QED
  BY <1>1, <1>2, <1>5, <1>9, <1>10, <1>11 DEF Rows, runs

-----------------------------------------------------------------------------
(* The invariant.                                                          *)

\* An answer to a question of the track that was graded, of an attempt of that
\* version.
IsOffered(rows, cert, version) ==
    \E i \in DOMAIN rows : \E q \in DOMAIN rows[i].sheet :
        /\ rows[i].sheet[q] # None /\ (cert = None \/ FirstCert(q) = cert)
        /\ version = Named(rows[i].version)

LEMMA OfferedIs == ASSUME NEW cert, NEW version PROVE version \in ExamVersions(cert) <=> IsOffered(exams, cert, version)
<1>1. ASSUME NEW a \in Scored(cert), version = Named(exams[a[1]].version)
      PROVE  IsOffered(exams, cert, version)
  <2>1. a[1] \in DOMAIN exams /\ a \in ScoredOf(a[1]) /\ Matches(a, cert)
    BY ScoredAre
  <2>2. PICK q \in DOMAIN exams[a[1]].sheet : a = <<a[1], q>>
    BY <2>1 DEF ScoredOf, AnswersOf
  <2>3. exams[a[1]].sheet[q] # None /\ (cert = None \/ FirstCert(q) = cert)
    BY <2>1, <2>2 DEF ScoredOf, Outcome, Matches
  <2> QED
    BY <1>1, <2>1, <2>3 DEF IsOffered
<1>2. ASSUME NEW i \in DOMAIN exams, NEW q \in DOMAIN exams[i].sheet, exams[i].sheet[q] # None,
             cert = None \/ FirstCert(q) = cert, version = Named(exams[i].version)
      PROVE  version \in ExamVersions(cert)
  <2> DEFINE a == <<i, q>>
  <2>1. a[1] = i /\ a[2] = q
    OBVIOUS
  <2>2. a \in AnswersOf(i)
    BY DEF AnswersOf
  <2> HIDE DEF a
  <2>3. a \in ScoredOf(i) /\ Matches(a, cert)
    BY <1>2, <2>1, <2>2 DEF ScoredOf, Outcome, Matches
  <2>4. a \in Scored(cert)
    BY <2>1, <2>3, ScoredAre
  <2> QED
    BY <1>2, <2>1, <2>4 DEF ExamVersions
<1> QED
  BY <1>1, <1>2 DEF ExamVersions, IsOffered

LEMMA OfferedStays ==
    ASSUME NEW rows, NEW later, Keeps(rows, later), NEW cert, NEW version, IsOffered(rows, cert, version)
    PROVE  IsOffered(later, cert, version)
<1>1. PICK i \in DOMAIN rows : \E q \in DOMAIN rows[i].sheet :
          /\ rows[i].sheet[q] # None /\ (cert = None \/ FirstCert(q) = cert)
          /\ version = Named(rows[i].version)
  BY DEF IsOffered
<1>2. DOMAIN rows[i].sheet # {}
  BY <1>1
<1>3. i \in DOMAIN later /\ later[i].sheet = rows[i].sheet /\ later[i].version = rows[i].version
  BY <1>2 DEF Keeps
<1> QED
  BY <1>1, <1>3 DEF IsOffered

\* A filter asks for nothing, or for what was offered; the panels are those of the
\* filters.
FilterIs(f, rows) ==
    /\ f = [cert |-> f.cert, version |-> f.version]
    /\ f.version = None \/ IsOffered(rows, f.cert, f.version)

BoardIs(b, f, rows) ==
    b # None => BoardAgrees(b, f) /\ \A version \in b.offered : IsOffered(rows, f.cert, version)

RowsInv == Rows(exams, labRuns) /\ DOMAIN labs \subseteq Nat
SittingInv == front = "exam" => SittingIs(sitting, exams)
BoardInv == FilterIs(filter, exams) /\ BoardIs(board, filter, exams)
PendingInv == pending \subseteq {"dashboard", "stats"}
HomeInv == RowsInv /\ SittingInv /\ PendingInv /\ BoardInv /\ HomeCurrent

LEMMA KeepsItself == ASSUME NEW rows PROVE Keeps(rows, rows)
BY DEF Keeps

LEMMA BoardStays ==
    ASSUME NEW rows, NEW later, Keeps(rows, later), NEW f, NEW b, FilterIs(f, rows), BoardIs(b, f, rows)
    PROVE  FilterIs(f, later) /\ BoardIs(b, f, later)
BY OfferedStays DEF FilterIs, BoardIs

LEMMA HomeInitially == ASSUME HomeInit PROVE HomeInv
<1>1. exams \in Histories /\ labRuns = <<>> /\ labs \in Catalogues /\ front = "closed"
  BY DEF HomeInit
<1>2. RowsInv
  BY <1>1, HistoriesAreRows, CataloguesAssumption DEF RowsInv
<1>3. SittingInv /\ PendingInv
  BY <1>1 DEF SittingInv, PendingInv, HomeInit
<1>4. HomeCurrent
  BY <1>1 DEF HomeCurrent, OnDashboard
<1>5. filter = [cert |-> None, version |-> None] /\ board = None
  BY DEF HomeInit, NoFilter
<1>6. FilterIs(filter, exams)
  <2> DEFINE f == [cert |-> None, version |-> None]
  <2>1. f.cert = None /\ f.version = None
    OBVIOUS
  <2> QED
    BY <1>5, <2>1 DEF FilterIs
<1>7. BoardIs(board, filter, exams)
  BY <1>5 DEF BoardIs
<1> QED
  BY <1>2, <1>3, <1>4, <1>6, <1>7 DEF HomeInv, BoardInv

\* The cards stay right while the rows and the labs are the same.
LEMMA CardsStay ==
    ASSUME NEW h, CardsAreRight(h), UNCHANGED <<exams, labRuns, labs>>, home' = h
    PROVE  HomeCurrent'
<1> DEFINE S == Scored(None)
           tally(d) == Tally({a \in S : Prefix(a) = d})
           active == {i \in DOMAIN exams : exams[i].status = "active"}
           finished == {i \in DOMAIN exams : exams[i].status = "finished"}
<1>1. exams' = exams /\ labRuns' = labRuns /\ labs' = labs
  OBVIOUS
<1>2. S' = S
  BY <1>1 DEF Scored, ScoredOf, AnswersOf, Outcome, Matches
<1>3. active' = active /\ finished' = finished /\ Clock' = Clock
  BY <1>1 DEF Clock
<1>4. ASSUME NEW d PROVE tally(d)' = tally(d)
  <2> HIDE DEF S
  <2> QED
    BY <1>1, <1>2 DEF Tally, Outcome, Prefix
<1>5. CardsAreRight(h)
  OBVIOUS
<1>6. /\ active = IF h.resume = None THEN {} ELSE {h.resume.exam}
      /\ \A i \in active : h.resume.answered = exams[i].answered
      /\ h.first <=> exams = <<>> /\ labRuns = <<>>
      /\ finished # {} \/ labRuns # <<>> => h.last.finish = Clock - 1
      /\ h.last # None => h.feed[1] = h.last
      /\ h.next # None =>
            /\ \A a \in S : ~Weaker(tally(Prefix(a)), tally(h.next.domain))
            /\ h.next.lab # None => labs[h.next.lab].gold
  BY <1>5 DEF CardsAreRight
<1> HIDE DEF S, tally, active, finished, Clock
<1>7. /\ active' = IF home'.resume = None THEN {} ELSE {home'.resume.exam}
      /\ \A i \in active' : home'.resume.answered = exams'[i].answered
      /\ home'.first <=> exams' = <<>> /\ labRuns' = <<>>
      /\ finished' # {} \/ labRuns' # <<>> => home'.last.finish = Clock' - 1
      /\ home'.last # None => home'.feed[1] = home'.last
      /\ home'.next # None =>
            /\ \A a \in S' : ~Weaker(tally(Prefix(a))', tally(home.next.domain)')
            /\ home'.next.lab # None => labs'[home'.next.lab].gold
  BY <1>1, <1>2, <1>3, <1>4, <1>6
<1> QED
  BY <1>7 DEF HomeCurrent, S, tally, active, finished, Weaker, Prefix

-----------------------------------------------------------------------------
(* The steps.                                                              *)

LEMMA Saved ==
    ASSUME RowsInv, NEW s, SittingIs(s, exams), SaveSitting(s), UNCHANGED <<labRuns, labs>>
    PROVE  RowsInv' /\ Keeps(exams, exams') /\ SittingIs(sitting', exams')
<1> DEFINE p == Put(Abandoned, s, ActiveRow(s))
<1>1. Rows(p, labRuns) /\ Keeps(exams, p) /\ SittingIs([s EXCEPT !.id = RowId(s)], p)
  BY SaveKeeps DEF RowsInv
<1>2. \/ exams' = p /\ sitting' = [s EXCEPT !.id = RowId(s)]
      \/ exams' = exams /\ sitting' = s
  BY DEF SaveSitting
<1> HIDE DEF p
<1> QED
  BY <1>1, <1>2, KeepsItself DEF RowsInv

\* A page that is left, or closed: its attempt is saved, or not.
LEMMA Left ==
    ASSUME RowsInv, SittingIs(sitting, exams), UNCHANGED <<labRuns, labs>>,
           exams' \in {exams, Put(Abandoned, sitting, ActiveRow(sitting))}
    PROVE  RowsInv' /\ Keeps(exams, exams')
<1> DEFINE p == Put(Abandoned, sitting, ActiveRow(sitting))
<1>1. Rows(p, labRuns) /\ Keeps(exams, p)
  BY SaveKeeps DEF RowsInv
<1>2. exams' = p \/ exams' = exams
  OBVIOUS
<1> HIDE DEF p
<1> QED
  BY <1>1, <1>2, KeepsItself DEF RowsInv

\* The panels do not change.
LEMMA SameBoard ==
    ASSUME HomeInv, Keeps(exams, exams'), UNCHANGED <<filter, board>>
    PROVE  BoardInv'
<1>1. FilterIs(filter, exams) /\ BoardIs(board, filter, exams)
  BY DEF HomeInv, BoardInv
<1>2. FilterIs(filter, exams') /\ BoardIs(board, filter, exams')
  BY <1>1, BoardStays
<1> QED
  BY <1>2 DEF BoardInv

LEMMA DashboardShown ==
    ASSUME HomeInv, ShowDashboard, UNCHANGED <<exams, labRuns, labs>>
    PROVE  HomeCurrent'
<1>1. CASE home' = Dashboard(ToResume) /\ aside' = FALSE
  <2>1. CardsAreRight(Dashboard(ToResume))
    BY DashboardIsRight DEF HomeInv, RowsInv
  <2> DEFINE h == Dashboard(ToResume)
  <2>2. CardsAreRight(h) /\ home' = h
    BY <1>1, <2>1
  <2> HIDE DEF h
  <2> QED
    BY <2>2, CardsStay
<1>2. CASE aside' = TRUE
  BY <1>2 DEF HomeCurrent
<1> QED
  BY <1>1, <1>2 DEF ShowDashboard

LEMMA BoardShown ==
    ASSUME HomeInv, NEW f, FilterIs(f, exams), ShowBoard(f), UNCHANGED exams
    PROVE  BoardInv'
<1>1. filter' = f /\ (board' = Board(f) \/ board' = None)
  BY DEF ShowBoard
<1>2. BoardAgrees(Board(f), f)
  <2>1. f.version = None \/ f.version \in ExamVersions(f.cert)
    BY OfferedIs DEF FilterIs
  <2> QED
    BY <2>1, BoardIsRight DEF HomeInv, RowsInv
<1>3. \A version \in Board(f).offered : IsOffered(exams, f.cert, version)
  <2>1. Board(f).offered = ExamVersions(f.cert)
    BY DEF Board
  <2> QED
    BY <2>1, OfferedIs
<1>4. BoardIs(Board(f), f, exams)
  BY <1>2, <1>3 DEF BoardIs
<1>5. BoardIs(None, f, exams)
  BY DEF BoardIs
<1> QED
  BY <1>1, <1>4, <1>5 DEF BoardInv

LEMMA FilterChosen ==
    ASSUME HomeInv, ChooseFilter
    PROVE  BoardInv'
<1>1. /\ board # None /\ UNCHANGED exams
      /\ \/ \E cert \in {"ccna", "ccnp", None} : ShowBoard([cert |-> cert, version |-> None])
         \/ \E version \in board.offered \cup {None} : ShowBoard([filter EXCEPT !.version = version])
  BY DEF ChooseFilter, CertChosen, homeRows
<1>2. FilterIs(filter, exams) /\ \A version \in board.offered : IsOffered(exams, filter.cert, version)
  BY <1>1 DEF HomeInv, BoardInv, BoardIs
<1>3. ASSUME NEW cert, ShowBoard([cert |-> cert, version |-> None]) PROVE BoardInv'
  <2> DEFINE f == [cert |-> cert, version |-> None]
  <2>1. f = [cert |-> f.cert, version |-> f.version] /\ f.version = None /\ ShowBoard(f)
    BY <1>3
  <2> HIDE DEF f
  <2>2. FilterIs(f, exams)
    BY <2>1 DEF FilterIs
  <2> QED
    BY <1>1, <2>1, <2>2, BoardShown
<1>4. ASSUME NEW version \in board.offered \cup {None}, ShowBoard([filter EXCEPT !.version = version])
      PROVE  BoardInv'
  <2> DEFINE f == [filter EXCEPT !.version = version]
  <2>1. filter = [cert |-> filter.cert, version |-> filter.version]
    BY <1>2 DEF FilterIs
  <2>2. f = [cert |-> filter.cert, version |-> version] /\ ShowBoard(f)
    BY <1>4, <2>1
  <2> HIDE DEF f
  <2>3. f = [cert |-> f.cert, version |-> f.version] /\ f.cert = filter.cert /\ f.version = version
    BY <2>2
  <2>4. FilterIs(f, exams)
    BY <1>2, <2>3 DEF FilterIs
  <2> QED
    BY <1>1, <2>2, <2>4, BoardShown
<1> QED
  BY <1>1, <1>3, <1>4

LEMMA PageRefreshed ==
    ASSUME HomeInv, NEW page, RefreshShown(page)
    PROVE  HomeInv'
<1>1. /\ exams' = exams /\ labRuns' = labRuns /\ labs' = labs /\ front' = front /\ sitting' = sitting
      /\ page \in pending /\ pending' = pending \ {page}
  BY DEF RefreshShown, homeRows
<1>2. RowsInv' /\ SittingInv' /\ PendingInv' /\ page \in {"dashboard", "stats"}
  BY <1>1 DEF HomeInv, RowsInv, SittingInv, PendingInv
<1>3. CASE page = "dashboard" /\ front = page
  <2>1. ShowDashboard /\ UNCHANGED <<filter, board>>
    BY <1>3 DEF RefreshShown
  <2>2. HomeCurrent'
    BY <1>1, <2>1, DashboardShown
  <2>3. BoardInv'
    BY <1>1, <2>1, KeepsItself, SameBoard
  <2> QED
    BY <1>2, <2>2, <2>3 DEF HomeInv
<1>4. CASE page = "stats" /\ front = page
  <2>1. ShowBoard(filter)
    BY <1>4 DEF RefreshShown
  <2>2. BoardInv'
    BY <1>1, <2>1, BoardShown DEF HomeInv, BoardInv
  <2>3. HomeCurrent'
    BY <1>1, <1>4 DEF HomeCurrent, OnDashboard
  <2> QED
    BY <1>2, <2>2, <2>3 DEF HomeInv
<1>5. CASE front # page
  <2>1. UNCHANGED homePages
    BY <1>5 DEF RefreshShown
  <2>2. UNCHANGED <<filter, board>> /\ home' = home /\ aside' = aside
    BY <2>1 DEF homePages
  <2>3. BoardInv'
    BY <1>1, <2>2, KeepsItself, SameBoard
  <2>4. HomeCurrent'
    <3> SUFFICES ASSUME (OnDashboard /\ "dashboard" \notin pending /\ ~aside)' PROVE HomeCurrent'
      BY DEF HomeCurrent
    <3>1. OnDashboard /\ "dashboard" \notin pending /\ ~aside
      BY <1>1, <1>5, <2>2 DEF OnDashboard
    <3>2. CardsAreRight(home)
      BY <3>1 DEF HomeInv, HomeCurrent, CardsAreRight
    <3> QED
      BY <1>1, <2>2, <3>2, CardsStay
  <2> QED
    BY <1>2, <2>3, <2>4 DEF HomeInv
<1> QED
  BY <1>2, <1>3, <1>4, <1>5

LEMMA NotOnDashboard ==
    ASSUME front' # "dashboard" \/ "dashboard" \in pending' \/ aside'
    PROVE  HomeCurrent'
BY DEF HomeCurrent, OnDashboard

LEMMA ExamResumed ==
    ASSUME HomeInv, ResumeExam, UNCHANGED <<labRuns, labs>>
    PROVE  RowsInv' /\ Keeps(exams, exams') /\ SittingInv' /\ front' = "exam"
<1> DEFINE s == [id |-> ToResume.exam, answered |-> ToResume.answered,
                 version |-> exams[ToResume.exam].version]
<1>1. ToResume # None /\ SaveSitting(s) /\ front' = "exam"
  BY DEF ResumeExam
<1>2. s = [id |-> s.id, answered |-> s.answered, version |-> s.version]
      /\ s.id = ToResume.exam /\ s.answered = ToResume.answered
  OBVIOUS
<1>3. /\ {i \in DOMAIN exams : exams[i].status = "active"} = {ToResume.exam}
      /\ \A i \in {j \in DOMAIN exams : exams[j].status = "active"} : ToResume.answered = exams[i].answered
  BY <1>1, ToResumeIsRight DEF HomeInv, RowsInv
<1>4. /\ ToResume.exam \in DOMAIN exams /\ exams[ToResume.exam].status = "active"
      /\ ToResume.answered = exams[ToResume.exam].answered
  BY <1>3
<1>5. exams[ToResume.exam].finish = None /\ exams[ToResume.exam].answered \in Nat
  BY <1>4 DEF HomeInv, RowsInv, Rows, IsRow
<1> HIDE DEF s
<1>6. SittingIs(s, exams)
  BY <1>2, <1>4, <1>5 DEF SittingIs
<1>7. RowsInv' /\ Keeps(exams, exams') /\ SittingIs(sitting', exams')
  BY <1>1, <1>6, Saved DEF HomeInv
<1> QED
  BY <1>1, <1>7 DEF SittingInv

LEMMA ExamStarted ==
    ASSUME HomeInv, StartNew, UNCHANGED <<labRuns, labs>>
    PROVE  RowsInv' /\ Keeps(exams, exams') /\ SittingInv' /\ front' = "exam"
<1> DEFINE s == [id |-> None, answered |-> 0, version |-> ExamVersion]
<1>1. (SaveSitting(s) \/ (exams' = Abandoned /\ sitting' = s)) /\ front' = "exam"
  BY DEF StartNew
<1>2. s = [id |-> s.id, answered |-> s.answered, version |-> s.version] /\ s.id = None /\ s.answered \in Nat
  OBVIOUS
<1> HIDE DEF s
<1>3. SittingIs(s, exams) /\ SittingIs(s, Abandoned)
  BY <1>2 DEF SittingIs
<1>4. CASE SaveSitting(s)
  BY <1>1, <1>3, <1>4, Saved DEF HomeInv, SittingInv
<1>5. CASE exams' = Abandoned /\ sitting' = s
  BY <1>1, <1>3, <1>5, AbandonedKeeps DEF HomeInv, RowsInv, SittingInv
<1> QED
  BY <1>1, <1>4, <1>5

LEMMA HomeSteps == ASSUME HomeInv, [HomeNext]_homeVars PROVE HomeInv'
<1> USE DEF homePages, homeRows
<1>1. CASE ChooseFilter
  <2>1. /\ UNCHANGED <<exams, labRuns, labs, front, sitting, pending, home>> /\ front = "stats"
    BY <1>1 DEF ChooseFilter
  <2>2. BoardInv'
    BY <1>1, FilterChosen
  <2>3. HomeCurrent'
    BY <2>1, NotOnDashboard
  <2> QED
    BY <2>1, <2>2, <2>3 DEF HomeInv, RowsInv, SittingInv, PendingInv
<1>2. CASE StartAnExam
  <2>1. (ResumeExam \/ StartNew) /\ UNCHANGED <<labRuns, labs, pending, filter, board>>
    BY <1>2 DEF StartAnExam
  <2>2. RowsInv' /\ Keeps(exams, exams') /\ SittingInv' /\ front' = "exam"
    BY <2>1, ExamResumed, ExamStarted
  <2>3. BoardInv'
    BY <2>1, <2>2, SameBoard
  <2> QED
    BY <2>1, <2>2, <2>3, NotOnDashboard DEF HomeInv, PendingInv
<1>3. CASE ContinueActivity
  <2>1. /\ ResumeExam \/ (front' = "elsewhere" /\ UNCHANGED <<exams, sitting>>)
        /\ UNCHANGED <<labRuns, labs, pending, filter, board>>
    BY <1>3 DEF ContinueActivity
  <2>2. RowsInv' /\ Keeps(exams, exams') /\ SittingInv' /\ front' \in {"exam", "elsewhere"}
    <3>1. CASE ResumeExam
      BY <2>1, <3>1, ExamResumed
    <3>2. CASE front' = "elsewhere" /\ UNCHANGED <<exams, sitting>>
      BY <2>1, <3>2, KeepsItself DEF HomeInv, RowsInv, SittingInv
    <3> QED
      BY <2>1, <3>1, <3>2
  <2>3. BoardInv'
    BY <2>1, <2>2, SameBoard
  <2> QED
    BY <2>1, <2>2, <2>3, NotOnDashboard DEF HomeInv, PendingInv
<1>4. CASE FollowCard
  <2>1. /\ front' \in {"elsewhere", "lab"}
        /\ UNCHANGED <<exams, labRuns, labs, sitting, pending, filter, board>>
    BY <1>4 DEF FollowCard, Follow
  <2>2. BoardInv'
    BY <2>1, KeepsItself, SameBoard
  <2> QED
    BY <2>1, <2>2, NotOnDashboard DEF HomeInv, RowsInv, SittingInv, PendingInv
<1>5. CASE AnswerOne
  <2> DEFINE s == [sitting EXCEPT !.answered = @ + 1]
  <2>1. /\ front = "exam" /\ SaveSitting(s)
        /\ UNCHANGED <<labRuns, labs, front, pending, filter, board>>
    BY <1>5 DEF AnswerOne
  <2>2. SittingIs(sitting, exams)
    BY <2>1 DEF HomeInv, SittingInv
  <2>3. s = [id |-> sitting.id, answered |-> sitting.answered + 1, version |-> sitting.version]
    BY <2>2 DEF SittingIs
  <2> HIDE DEF s
  <2>4. /\ s = [id |-> s.id, answered |-> s.answered, version |-> s.version]
        /\ s.id = sitting.id /\ s.answered = sitting.answered + 1
    BY <2>3
  <2>5. SittingIs(s, exams)
    BY <2>2, <2>4 DEF SittingIs
  <2>6. RowsInv' /\ Keeps(exams, exams') /\ SittingIs(sitting', exams')
    BY <2>1, <2>5, Saved DEF HomeInv
  <2>7. BoardInv'
    BY <2>1, <2>6, SameBoard
  <2> QED
    BY <2>1, <2>6, <2>7, NotOnDashboard DEF HomeInv, SittingInv, PendingInv
<1>6. CASE PauseExam
  <2>1. /\ front = "exam" /\ front' = "dashboard" /\ pending' = pending \cup {"dashboard"}
        /\ exams' \in {exams, Put(Abandoned, sitting, ActiveRow(sitting))}
        /\ UNCHANGED <<labRuns, labs, filter, board>>
    BY <1>6 DEF PauseExam, SelectPage
  <2>2. RowsInv' /\ Keeps(exams, exams')
    BY <2>1, Left DEF HomeInv, SittingInv
  <2>3. BoardInv'
    BY <2>1, <2>2, SameBoard
  <2> QED
    BY <2>1, <2>2, <2>3, NotOnDashboard DEF HomeInv, SittingInv, PendingInv
<1>7. CASE CloseApp
  <2>1. /\ front' = "closed" /\ pending' = {} /\ UNCHANGED <<labRuns, labs, filter, board>>
        /\ IF front = "exam" THEN exams' \in {exams, Put(Abandoned, sitting, ActiveRow(sitting))}
           ELSE UNCHANGED exams
    BY <1>7 DEF CloseApp
  <2>2. RowsInv' /\ Keeps(exams, exams')
    <3>1. CASE front = "exam"
      BY <2>1, <3>1, Left DEF HomeInv, SittingInv
    <3>2. CASE front # "exam"
      BY <2>1, <3>2, KeepsItself DEF HomeInv, RowsInv
    <3> QED
      BY <3>1, <3>2
  <2>3. BoardInv'
    BY <2>1, <2>2, SameBoard
  <2> QED
    BY <2>1, <2>2, <2>3, NotOnDashboard DEF HomeInv, SittingInv, PendingInv
<1>8. CASE OpenApp
  <2>1. /\ front' = "dashboard" /\ ShowDashboard /\ filter' = NoFilter /\ board' = None
        /\ UNCHANGED <<exams, labRuns, labs, sitting, pending>>
    BY <1>8 DEF OpenApp
  <2>2. HomeCurrent'
    BY <2>1, DashboardShown
  <2> DEFINE f == [cert |-> None, version |-> None]
  <2>3. f = [cert |-> f.cert, version |-> f.version] /\ f.version = None /\ NoFilter = f
    BY DEF NoFilter
  <2> HIDE DEF f
  <2>4. BoardInv'
    BY <2>1, <2>3 DEF BoardInv, FilterIs, BoardIs
  <2> QED
    BY <2>1, <2>2, <2>4 DEF HomeInv, RowsInv, SittingInv, PendingInv
<1>9. ASSUME NEW page \in {"dashboard", "stats", "elsewhere"}, ChooseTab(page) PROVE HomeInv'
  <2>1. /\ front' = page /\ pending' = pending \cup ({page} \cap {"dashboard", "stats"})
        /\ UNCHANGED <<exams, labRuns, labs, sitting, filter, board>>
    BY <1>9 DEF ChooseTab, SelectPage
  <2>2. BoardInv'
    BY <2>1, KeepsItself, SameBoard
  <2>3. HomeCurrent'
    <3>1. front' # "dashboard" \/ "dashboard" \in pending'
      BY <2>1
    <3> QED
      BY <3>1, NotOnDashboard
  <2> QED
    BY <1>9, <2>1, <2>2, <2>3 DEF HomeInv, RowsInv, SittingInv, PendingInv
<1>10. ASSUME NEW page \in {"dashboard", "stats", "elsewhere"}, RefreshShown(page) PROVE HomeInv'
  BY <1>10, PageRefreshed
<1>11. ASSUME NEW sheet \in Outcomes, EndExam(sheet) PROVE HomeInv'
  <2> DEFINE p == Put(exams, sitting, FinishedRow(sitting, sheet))
  <2>1. /\ front = "exam" /\ front' = "elsewhere" /\ (exams' = exams \/ exams' = p)
        /\ UNCHANGED <<labRuns, labs, pending, filter, board>>
    BY <1>11 DEF EndExam
  <2>2. Rows(p, labRuns) /\ Keeps(exams, p)
    BY <2>1, FinishKeeps DEF HomeInv, RowsInv, SittingInv
  <2> HIDE DEF p
  <2>3. RowsInv' /\ Keeps(exams, exams')
    BY <2>1, <2>2, KeepsItself DEF HomeInv, RowsInv
  <2>4. BoardInv'
    BY <2>1, <2>3, SameBoard
  <2> QED
    BY <2>1, <2>3, <2>4, NotOnDashboard DEF HomeInv, SittingInv, PendingInv
<1>12. ASSUME NEW score \in LabScores, EndLab(score) PROVE HomeInv'
  <2> DEFINE runs == Append(labRuns, [score |-> score, finish |-> Clock])
  <2>1. /\ front' = "elsewhere" /\ (labRuns' = labRuns \/ labRuns' = runs)
        /\ UNCHANGED <<exams, labs, sitting, pending, filter, board>>
    BY <1>12 DEF EndLab
  <2>2. Rows(exams, runs)
    BY LabKeeps DEF HomeInv, RowsInv
  <2> HIDE DEF runs
  <2>3. RowsInv'
    BY <2>1, <2>2 DEF HomeInv, RowsInv
  <2>4. BoardInv'
    BY <2>1, KeepsItself, SameBoard
  <2> QED
    BY <2>1, <2>3, <2>4, NotOnDashboard DEF HomeInv, SittingInv, PendingInv
<1>13. ASSUME NEW catalogue \in Catalogues, ChangeLabs(catalogue) PROVE HomeInv'
  <2>1. /\ labs' = catalogue /\ aside' = TRUE
        /\ UNCHANGED <<exams, labRuns, front, sitting, pending, filter, board>>
    BY <1>13 DEF ChangeLabs
  <2>2. BoardInv'
    BY <2>1, KeepsItself, SameBoard
  <2>3. RowsInv'
    BY <2>1, CataloguesAssumption DEF HomeInv, RowsInv
  <2> QED
    BY <2>1, <2>2, <2>3, NotOnDashboard DEF HomeInv, SittingInv, PendingInv
<1>14. CASE UNCHANGED homeVars
  <2>1. UNCHANGED <<exams, labRuns, labs, front, sitting, pending, home, filter, board, aside>>
    BY <1>14 DEF homeVars
  <2>2. BoardInv'
    BY <2>1, KeepsItself, SameBoard
  <2>3. HomeCurrent'
    <3> SUFFICES ASSUME (OnDashboard /\ "dashboard" \notin pending /\ ~aside)' PROVE HomeCurrent'
      BY DEF HomeCurrent
    <3>1. OnDashboard /\ "dashboard" \notin pending /\ ~aside
      BY <2>1 DEF OnDashboard
    <3>2. CardsAreRight(home)
      BY <3>1 DEF HomeInv, HomeCurrent, CardsAreRight
    <3> QED
      BY <2>1, <3>2, CardsStay
  <2> QED
    BY <2>1, <2>2, <2>3 DEF HomeInv, RowsInv, SittingInv, PendingInv
<1> QED
  BY <1>1, <1>2, <1>3, <1>4, <1>5, <1>6, <1>7, <1>8, <1>9, <1>10, <1>11, <1>12, <1>13, <1>14 DEF HomeNext

-----------------------------------------------------------------------------
(* Theorems.                                                               *)

LEMMA HomeInvariant == HomeSpec => []HomeInv
<1>1. HomeInit => HomeInv
  BY HomeInitially
<1>2. HomeInv /\ [HomeNext]_homeVars => HomeInv'
  BY HomeSteps
<1> QED
  BY <1>1, <1>2, PTL DEF HomeSpec

\* The dashboard tells what the rows and the labs say: the exam to resume, the last
\* activity, the domain none is weaker than, a lab that is there (refresh,
\* _on_nav_clicked, _on_exam_paused).
THEOREM DashboardIsCurrent == HomeSpec => []HomeCurrent
<1>1. HomeInv => HomeCurrent
  BY DEF HomeInv
<1> QED
  BY <1>1, HomeInvariant, PTL

\* The panels of the statistics page agree with each other and with the filters
\* that the boxes show (_rebuild, _on_cert_changed).
THEOREM StatisticsAgree == HomeSpec => []StatsAgree
<1>1. HomeInv => StatsAgree
  <2> SUFFICES ASSUME HomeInv, board # None PROVE StatsAgree
    BY DEF StatsAgree
  <2>1. BoardAgrees(board, filter)
    BY DEF HomeInv, BoardInv, BoardIs
  <2> QED
    BY <2>1 DEF StatsAgree, BoardAgrees
<1> QED
  BY <1>1, HomeInvariant, PTL
=============================================================================
