-------------------------- MODULE QueryTableProofs --------------------------
(* What a worker draws and counts, and the roundings of its share, for any *)
(* queries, dials and number of workers.                                   *)
EXTENDS QueryTable, FiniteSetTheorems, SequenceTheorems, TLAPS

LEMMA Quotient ==
  ASSUME NEW a \in Nat, NEW n \in Nat \ {0}
  PROVE  /\ a \div n \in Nat
         /\ n * (a \div n) <= a
         /\ a < n * (a \div n) + n
  OBVIOUS

(* Sums over queries, folded by the laws of FoldLaws.                      *)
Plus(a, b) == a + b
AnyOf(S) == CHOOSE x \in S : TRUE
Adding == INSTANCE FoldLaws WITH op <- Plus, choose <- AnyOf

SumOver(f, S) == Adding!Fold(0, f, S)

LEMMA TotalIsSum ==
  ASSUME NEW f \in [Queries -> Nat]
  PROVE  Total(f) = SumOver(f, Queries)
  BY DEF Total, FoldFunction, FoldFunctionOnSet, MapThenFoldSet, SumOver,
         Adding!Fold, Adding!MapThenFoldSet, Plus, AnyOf

LEMMA QueriesFold ==
  ASSUME NEW S \in SUBSET Queries
  PROVE  IsFiniteSet(S) /\ Adding!IsFiniteSet(S) /\ Adding!Chooses(S)
<1>1. IsFiniteSet(S)
  BY TableAssumption, FS_Subset
<1>2. Adding!IsFiniteSet(S) <=> IsFiniteSet(S)
  BY DEF IsFiniteSet, Adding!IsFiniteSet
<1>3. Adding!Chooses(S)
  BY DEF Adding!Chooses, AnyOf
<1> QED
  BY <1>1, <1>2, <1>3

LEMMA PlusLaws == Adding!Closed(Nat) /\ Adding!Commutes(Nat) /\ 0 \in Nat
  BY DEF Plus, Adding!Closed, Adding!Commutes

LEMMA SumTyped ==
  ASSUME NEW f \in [Queries -> Nat], NEW S \in SUBSET Queries
  PROVE  SumOver(f, S) \in Nat
<1>1. \A s \in S : f[s] \in Nat
  OBVIOUS
<1> QED
  BY ONLY <1>1, QueriesFold, PlusLaws, Adding!FoldType DEF SumOver

LEMMA SumEmpty == ASSUME NEW f PROVE SumOver(f, {}) = 0
  BY Adding!FoldEmpty DEF SumOver

LEMMA SumPick ==
  ASSUME NEW f \in [Queries -> Nat], NEW S \in SUBSET Queries, NEW q \in S
  PROVE  SumOver(f, S) = f[q] + SumOver(f, S \ {q})
<1>1. Adding!IsFiniteSet(S) /\ Adding!Chooses(S) /\ \A s \in S : f[s] \in Nat
  BY QueriesFold
<1>2. \A x \in S : Adding!Fold(0, f, S) = Plus(f[x], Adding!Fold(0, f, S \ {x}))
  BY ONLY <1>1, PlusLaws, Adding!FoldPick
<1> QED
  BY <1>2 DEF SumOver, Plus

LEMMA SumSame ==
  ASSUME NEW f, NEW g, NEW S \in SUBSET Queries, \A s \in S : f[s] = g[s]
  PROVE  SumOver(f, S) = SumOver(g, S)
  BY ONLY QueriesFold, Adding!FoldSame, \A s \in S : f[s] = g[s], S \in SUBSET Queries DEF SumOver

LEMMA SumZero ==
  ASSUME NEW f \in [Queries -> Nat], \A q \in Queries : f[q] = 0
  PROVE  SumOver(f, Queries) = 0
<1>1. Adding!Closed({0}) /\ 0 \in {0} /\ \A q \in Queries : f[q] \in {0}
  BY DEF Adding!Closed, Plus
<1>2. Adding!Fold(0, f, Queries) \in {0}
  BY ONLY <1>1, QueriesFold, Adding!FoldType
<1> QED
  BY <1>2 DEF SumOver

(* One count more is one more in all; no count is above the sum.           *)
LEMMA SumBut ==
  ASSUME NEW f \in [Queries -> Nat], NEW q \in Queries
  PROVE  /\ SumOver([f EXCEPT ![q] = @ + 1], Queries) = SumOver(f, Queries) + 1
         /\ f[q] <= SumOver(f, Queries)
<1> DEFINE g == [f EXCEPT ![q] = @ + 1]
           S == Queries \ {q}
<1>1. g \in [Queries -> Nat] /\ g[q] = f[q] + 1 /\ \A s \in S : f[s] = g[s]
  OBVIOUS
<1> HIDE DEF g
<1>2. SumOver(f, S) = SumOver(g, S) /\ SumOver(f, S) \in Nat
  BY <1>1, SumSame, SumTyped
<1>3. SumOver(f, Queries) = f[q] + SumOver(f, S) /\ SumOver(g, Queries) = g[q] + SumOver(g, S)
  BY <1>1, SumPick
<1> QED
  BY <1>1, <1>2, <1>3 DEF g
-----------------------------------------------------------------------------

LEMMA Product ==
  ASSUME NEW n \in Nat, NEW x \in Int, NEW y \in Int, x <= y
  PROVE  n * x <= n * y
  OBVIOUS

(* In a second, ten periods, n workers.                                    *)
SentPerSecond(n) == 10 * n * WorkerQps(n)

(* How far the rate of n workers is from the dials, whatever these say:    *)
(* they send at most 9 n + 1 queries a second more than the dials ask for, *)
(* at most n - 2 less, and none at all exactly when the dials ask for less *)
(* than n - 1 (worker.py 57).                                              *)
THEOREM SharesRound ==
  ASSUME total_qps \in Nat, NEW n \in Nat \ {0}
  PROVE  /\ total_qps - n + 2 <= SentPerSecond(n)
         /\ SentPerSecond(n) <= total_qps + 1 + 9 * n
         /\ SentPerSecond(n) = 0 <=> total_qps + 1 < n
<1> DEFINE T == total_qps
           share == (T + 1) \div n
           w == WorkerQps(n)
<1>1. T \in Nat /\ T + 1 \in Nat
  OBVIOUS
<1> HIDE DEF T
<1>2. share \in Nat /\ n * share <= T + 1 /\ T + 1 < n * share + n
  BY <1>1, Quotient
<1> HIDE DEF share
<1>3. (share + 9) \div 10 \in Nat
      /\ share <= 10 * ((share + 9) \div 10) /\ 10 * ((share + 9) \div 10) <= share + 9
  BY <1>2
<1>4. w = (share + 9) \div 10
  BY DEF WorkerQps, share, T
<1> HIDE DEF w
<1>5. w \in Nat /\ share <= 10 * w /\ 10 * w <= share + 9
  BY <1>3, <1>4
<1>6. n * share <= n * (10 * w) /\ n * (10 * w) <= n * (share + 9)
  BY <1>2, <1>5, Product
<1>7. n * (10 * w) = 10 * n * w /\ n * (share + 9) = n * share + 9 * n
  BY <1>2, <1>5
<1>8. SentPerSecond(n) = 10 * n * w
  BY DEF SentPerSecond, w
<1>9. T + 1 < n => share = 0
  <2>1. ASSUME T + 1 < n, share >= 1 PROVE FALSE
    BY <1>1, <1>2, <2>1, Product
  <2> QED
    BY <1>2, <2>1
<1>10. SentPerSecond(n) = 0 <=> T + 1 < n
  <2>1. CASE share = 0
    <3>1. w = 0 /\ n * share = 0
      BY <1>4, <2>1
    <3> QED
      BY <1>1, <1>2, <1>8, <3>1
  <2>2. CASE share # 0
    <3>1. w >= 1
      BY <1>2, <1>5, <2>2
    <3>2. n * 10 <= n * (10 * w)
      BY <1>5, <3>1, Product
    <3> QED
      BY <1>7, <1>8, <1>9, <2>2, <3>2
  <2> QED
    BY <2>1, <2>2
<1> QED
  BY <1>1, <1>2, <1>5, <1>6, <1>7, <1>8, <1>10 DEF T
-----------------------------------------------------------------------------
(* The workload in its sorted order, and its probabilities: row i holds    *)
(* the sum of the dials up to it.                                          *)
Rows == Cardinality(Queries)

SortedWorkload ==
  /\ dials \in [Queries -> 0..MaxDial]
  /\ workload_l \in SetToSeqs(Queries)
  /\ ByQps(workload_l)

FirstQueries(k) == {workload_l[j] : j \in 1..k}
Cumulated(k) == SumOver(dials, FirstQueries(k))

LEMMA WorkloadSorted ==
  ASSUME SortedWorkload
  PROVE  /\ Rows \in Nat /\ workload_l \in [1..Rows -> Queries]
         /\ DOMAIN workload_l = 1..Rows /\ Len(workload_l) = Rows
         /\ \A i, j \in 1..Rows : i # j => workload_l[i] # workload_l[j]
         /\ \A i, j \in 1..Rows : i < j => dials[workload_l[i]] <= dials[workload_l[j]]
         /\ \A q \in Queries : \E k \in 1..Rows : workload_l[k] = q
         /\ dials \in [Queries -> Nat] /\ MaxDial \in Nat
<1>1. Rows \in Nat /\ MaxDial \in Nat
  BY TableAssumption, FS_CardinalityType DEF Rows
<1>2. /\ workload_l \in [1..Rows -> Queries]
      /\ \A i, j \in 1..Rows : i # j => workload_l[i] # workload_l[j]
  BY DEF SortedWorkload, SetToSeqs, Rows
<1>3. workload_l \in Injection(1..Rows, Queries)
  BY <1>2 DEF Injection, IsInjective
<1>4. Cardinality(1..Rows) = Cardinality(Queries)
  BY <1>1, FS_Interval DEF Rows
<1>5. workload_l \in Surjection(1..Rows, Queries)
  BY <1>3, <1>4, TableAssumption, FS_Injection
<1>6. DOMAIN workload_l = 1..Rows /\ Len(workload_l) = Rows
  BY <1>1, <1>2
<1>7. \A q \in Queries : \E k \in 1..Rows : workload_l[k] = q
  BY <1>5 DEF Surjection
<1>8. \A i, j \in 1..Rows : i < j => dials[workload_l[i]] <= dials[workload_l[j]]
  BY <1>6 DEF SortedWorkload, ByQps
<1>9. dials \in [Queries -> Nat]
  BY <1>1 DEF SortedWorkload
<1> QED
  BY <1>1, <1>2, <1>6, <1>7, <1>8, <1>9

LEMMA CumulatedStep ==
  ASSUME SortedWorkload
  PROVE  /\ \A k \in 0..Rows : Cumulated(k) \in Nat
         /\ Cumulated(0) = 0
         /\ \A k \in 1..Rows : Cumulated(k) = Cumulated(k - 1) + dials[workload_l[k]]
         /\ Cumulated(Rows) = total_qps
<1>1. \A k \in 0..Rows : FirstQueries(k) \in SUBSET Queries
  BY WorkloadSorted DEF FirstQueries
<1>2. \A k \in 0..Rows : Cumulated(k) \in Nat
  BY <1>1, WorkloadSorted, SumTyped DEF Cumulated
<1>3. Cumulated(0) = 0
  BY SumEmpty DEF Cumulated, FirstQueries
<1>4. ASSUME NEW k \in 1..Rows
      PROVE  Cumulated(k) = Cumulated(k - 1) + dials[workload_l[k]]
  <2>1. workload_l[k] \in FirstQueries(k)
    BY DEF FirstQueries
  <2>2. FirstQueries(k) \ {workload_l[k]} = FirstQueries(k - 1)
    <3>1. \A j \in 1..k : j # k => workload_l[j] # workload_l[k]
      BY WorkloadSorted
    <3> QED
      BY <3>1 DEF FirstQueries
  <2>3. SumOver(dials, FirstQueries(k))
          = dials[workload_l[k]] + SumOver(dials, FirstQueries(k) \ {workload_l[k]})
    BY <1>1, <2>1, WorkloadSorted, SumPick, SMTT(30)
  <2>4. Cumulated(k - 1) \in Nat /\ dials[workload_l[k]] \in Nat
    BY <1>2, WorkloadSorted
  <2>5. Cumulated(k) = dials[workload_l[k]] + Cumulated(k - 1)
    BY ONLY <2>2, <2>3, Zenon DEF Cumulated
  <2> QED
    BY ONLY <2>4, <2>5
<1>5. FirstQueries(Rows) = Queries
  BY WorkloadSorted DEF FirstQueries
<1>6. Cumulated(Rows) = total_qps
  BY <1>5, WorkloadSorted, TotalIsSum DEF Cumulated, total_qps
<1> QED
  BY <1>2, <1>3, <1>4, <1>6

LEMMA CumulatedRises ==
  ASSUME SortedWorkload, NEW i \in 0..Rows
  PROVE  \A j \in i..Rows : Cumulated(i) <= Cumulated(j)
<1> DEFINE Good == {j \in 0..Rows : i <= j => Cumulated(i) <= Cumulated(j)}
<1>1. 0 \in Good
  BY WorkloadSorted, CumulatedStep
<1>2. ASSUME NEW k \in 1..Rows, k - 1 \in Good
      PROVE  k \in Good
  <2>1. /\ Cumulated(k) = Cumulated(k - 1) + dials[workload_l[k]]
        /\ Cumulated(k - 1) \in Nat /\ Cumulated(i) \in Nat /\ Cumulated(k) \in Nat
    BY CumulatedStep, WorkloadSorted
  <2>2. dials[workload_l[k]] \in Nat
    BY WorkloadSorted
  <2> QED
    BY <1>2, <2>1, <2>2, SMTT(30)
<1> HIDE DEF Good
<1>3. \A k \in 0..Rows : k \in Good
  BY <1>1, <1>2, WorkloadSorted, Adding!IndexInduction
<1> QED
  BY <1>3, WorkloadSorted DEF Good

(* The table starts anew at a row without queries: those before it have    *)
(* none either.                                                            *)
LEMMA CumulatedZero ==
  ASSUME SortedWorkload, NEW k \in 1..Rows, dials[workload_l[k]] = 0
  PROVE  Cumulated(k) = 0
<1> DEFINE Good == {j \in 0..k : Cumulated(j) = 0}
<1>1. k \in Nat /\ 0 \in Good
  BY CumulatedStep
<1>2. ASSUME NEW j \in 1..k, j - 1 \in Good
      PROVE  j \in Good
  <2>1. dials[workload_l[j]] <= dials[workload_l[k]] /\ dials[workload_l[j]] \in Nat
    BY WorkloadSorted
  <2>2. Cumulated(j) = Cumulated(j - 1) + dials[workload_l[j]]
    BY CumulatedStep, WorkloadSorted
  <2> QED
    BY <1>2, <2>1, <2>2
<1> HIDE DEF Good
<1>3. k \in Good
  BY <1>1, <1>2, Adding!IndexInduction
<1> QED
  BY <1>3 DEF Good
-----------------------------------------------------------------------------
TextInv ==
  /\ query \in Texts /\ pass \in Passes \cup {0}
  /\ phase \in {"table", "text", "run", "sent", "gone", "count", "paused", "failed"}

Running == phase \in {"run", "sent", "gone", "count"}

(* The rows so far, and all of them once queries are drawn.                *)
RowsUpTo(m) == [i \in 1..m |-> Cumulated(i)]
RowsInv ==
  /\ \E m \in 0..Rows : probabilities = RowsUpTo(m)
  /\ Running => probabilities = RowsUpTo(Rows) /\ total_qps > 0

(* Every draw that is not left was attempted; what is in hand is what is   *)
(* not counted yet.                                                        *)
DrawsInv ==
  /\ periods \in 0..MaxPeriods /\ left \in 0..WorkerQps(NWorkers)
  /\ attempts \in [Queries -> Nat]
  /\ phase \in {"table", "text"} => left = 0
  /\ SumOver(attempts, Queries) + left = periods * WorkerQps(NWorkers)

HandInv ==
  /\ stats \in [Queries -> Nat]
  /\ hand \in Queries \cup {NoQuery}
  /\ phase \in {"table", "text", "run"} => hand = NoQuery
  /\ phase \in {"sent", "gone", "count"} => hand \in Queries
  /\ \A q \in Queries : attempts[q] = stats[q] + (IF q = hand THEN 1 ELSE 0)

CountInv == DrawsInv /\ HandInv

TableInv == SortedWorkload /\ TextInv /\ RowsInv /\ CountInv

LEMMA TextTypes ==
  /\ <<>> \in Texts /\ Passes = 1..4 /\ Len(ALL_PARAM_TOKENS) = 4
  /\ MaxPeriods \in Nat
<1>1. MaxLen \in Nat /\ MaxPeriods \in Nat
  BY TableAssumption
<1>2. <<>> \in [1..0 -> Chars]
  OBVIOUS
<1>3. <<>> \in Texts
  BY <1>1, <1>2 DEF Texts, BoundedSeq, SeqOf
<1> QED
  BY <1>1, <1>3 DEF Passes, ALL_PARAM_TOKENS

LEMMA ShareTyped ==
  ASSUME SortedWorkload
  PROVE  /\ total_qps \in Nat
         /\ WorkerQps(NWorkers) \in Nat
         /\ NWorkers \in Nat \ {0}
<1>1. total_qps \in Nat
  BY WorkloadSorted, TotalIsSum, SumTyped DEF total_qps
<1>2. NWorkers \in Nat \ {0}
  BY TableAssumption
<1> DEFINE T == total_qps + 1
<1>3. T \in Nat
  BY <1>1
<1> HIDE DEF T
<1>4. T \div NWorkers \in Nat
  BY <1>2, <1>3, Quotient
<1>5. (T \div NWorkers + 9) \div 10 \in Nat
  BY <1>4
<1> QED
  BY <1>1, <1>2, <1>5 DEF WorkerQps, T

LEMMA TableInvInit == TableInit => TableInv
<1> SUFFICES ASSUME TableInit PROVE TableInv
  OBVIOUS
<1>1. SortedWorkload
  BY DEF TableInit, SortedWorkload
<1>2. TextInv
  BY TextTypes DEF TableInit, TextInv
<1>3. RowsInv
  <2>1. probabilities = RowsUpTo(0) /\ 0 \in 0..Rows
    BY <1>1, WorkloadSorted DEF TableInit, RowsUpTo
  <2> QED
    BY <2>1 DEF TableInit, RowsInv, Running
<1>4. CountInv
  <2>1. /\ stats \in [Queries -> Nat] /\ attempts \in [Queries -> Nat]
        /\ \A q \in Queries : stats[q] = 0 /\ attempts[q] = 0
    BY DEF TableInit
  <2>2. SumOver(attempts, Queries) = 0
    BY <2>1, SumZero
  <2>3. DrawsInv
    BY <1>1, <2>1, <2>2, ShareTyped, TextTypes DEF TableInit, DrawsInv
  <2>4. HandInv
    BY <2>1, TableAssumption DEF TableInit, HandInv
  <2> QED
    BY <2>3, <2>4 DEF CountInv
<1> QED
  BY <1>1, <1>2, <1>3, <1>4 DEF TableInv

(* The workload stays, and with it whatever is made of it alone.           *)
LEMMA SameWorkload ==
  ASSUME SortedWorkload, UNCHANGED <<dials, workload_l>>
  PROVE  /\ SortedWorkload' /\ total_qps' = total_qps
         /\ WorkerQps(NWorkers)' = WorkerQps(NWorkers)
         /\ \A m \in 0..Rows : RowsUpTo(m)' = RowsUpTo(m)
  BY DEF SortedWorkload, ByQps, total_qps, WorkerQps, RowsUpTo, Cumulated, FirstQueries

LEMMA RowAdded ==
  ASSUME SortedWorkload, NEW m \in 0..Rows, probabilities = RowsUpTo(m), AddRow
  PROVE  m + 1 \in 0..Rows /\ probabilities' = RowsUpTo(m + 1)
<1>1. Len(probabilities) = m /\ m + 1 \in 1..Rows /\ m \in Nat
  BY WorkloadSorted DEF AddRow, RowsUpTo
<1>2. RowDial = dials[workload_l[m + 1]] /\ RowDial \in Nat
  BY <1>1, WorkloadSorted DEF RowDial
<1>3. Cumulated(m + 1) = Cumulated(m) + RowDial /\ Cumulated(m) \in Nat
  <2>1. Cumulated(m + 1) = Cumulated((m + 1) - 1) + dials[workload_l[m + 1]]
    BY <1>1, CumulatedStep
  <2>2. (m + 1) - 1 = m
    BY <1>1
  <2> QED
    BY <1>2, <2>1, <2>2, CumulatedStep
<1>4. RowProbability = Cumulated(m + 1)
  <2>1. CASE RowDial = 0
    BY <1>1, <1>2, <2>1, CumulatedZero DEF RowProbability
  <2>2. CASE RowDial # 0 /\ m = 0
    <3>1. probabilities = <<>>
      BY <2>2 DEF RowsUpTo
    <3> QED
      BY <1>2, <1>3, <2>2, <3>1, CumulatedStep DEF RowProbability
  <2>3. CASE RowDial # 0 /\ m # 0
    <3>1. probabilities # <<>> /\ Last(probabilities) = Cumulated(m)
      BY <1>1, <2>3 DEF RowsUpTo, Last
    <3> QED
      BY <1>2, <1>3, <2>3, <3>1 DEF RowProbability
  <2> QED
    BY <2>1, <2>2, <2>3
<1>5. Append(RowsUpTo(m), Cumulated(m + 1)) = RowsUpTo(m + 1)
  BY <1>1 DEF RowsUpTo
<1> QED
  BY <1>1, <1>4, <1>5 DEF AddRow

(* The steps around a query touch neither the table nor the text.          *)
Around ==
  QueryReturns \/ ServerGone \/ Reconnect \/ Raise \/ Count \/ Interrupt

LEMMA AroundIs ==
  ASSUME Around
  PROVE  /\ UNCHANGED <<tableVars, periods, left, attempts>>
         /\ phase' \in {"run", "gone", "count", "paused", "failed"}
         /\ Running' => Running
         /\ \/ Count
            \/ UNCHANGED <<hand, stats>> /\ phase' # "run"
  BY DEF Around, QueryReturns, ServerGone, Reconnect, Raise, Count, Interrupt, Reach,
     runVars, Running

LEMMA TextHolds ==
  ASSUME TableInv, [TableNext]_vars
  PROVE  TextInv'
<1> USE TextTypes DEF TableInv, TextInv
<1>1. CASE AddRow
  BY <1>1 DEF AddRow
<1>2. CASE Tokenize
  BY <1>2 DEF Tokenize
<1>3. CASE Parse
  BY <1>3 DEF Parse
<1>4. CASE StartPeriod
  BY <1>4 DEF StartPeriod, tableVars, textVars
<1>5. CASE Around
  BY <1>5, AroundIs DEF tableVars, textVars
<1>6. ASSUME NEW x, Draw(x) PROVE TextInv'
  BY <1>6 DEF Draw, tableVars, textVars
<1>7. CASE UNCHANGED vars
  BY <1>7 DEF vars, tableVars, textVars
<1> QED
  BY <1>1, <1>2, <1>3, <1>4, <1>5, <1>6, <1>7 DEF TableNext, Around

LEMMA WorkloadStays ==
  ASSUME [TableNext]_vars
  PROVE  UNCHANGED <<dials, workload_l>>
<1>1. CASE Around
  BY <1>1, AroundIs DEF tableVars
<1> QED
  BY <1>1 DEF TableNext, AddRow, Tokenize, Parse, StartPeriod, Draw, Around, vars, tableVars

LEMMA RowsHold ==
  ASSUME TableInv, [TableNext]_vars
  PROVE  SortedWorkload' /\ RowsInv'
<1>1. UNCHANGED <<dials, workload_l>>
  BY WorkloadStays
<1>2. /\ SortedWorkload /\ SortedWorkload' /\ total_qps' = total_qps
      /\ \A m \in 0..Rows : RowsUpTo(m)' = RowsUpTo(m)
      /\ Rows \in Nat /\ Rows' = Rows
  BY <1>1, SameWorkload, WorkloadSorted DEF TableInv, Rows
<1>3. PICK m \in 0..Rows : probabilities = RowsUpTo(m)
  BY DEF TableInv, RowsInv
<1>4. CASE AddRow
  <2>1. m + 1 \in 0..Rows /\ probabilities' = RowsUpTo(m + 1) /\ phase' = "text"
    BY <1>2, <1>3, <1>4, RowAdded DEF AddRow
  <2> QED
    BY <1>2, <2>1 DEF RowsInv, Running
<1>5. CASE UNCHANGED probabilities /\ (Running' => Running)
  BY <1>2, <1>3, <1>5 DEF RowsInv, TableInv
<1>6. CASE StartPeriod
  <2>1. CASE phase = "run"
    BY <1>5, <1>6, <2>1 DEF StartPeriod, Running, tableVars
  <2>2. CASE Len(probabilities) = Len(workload_l) /\ total_qps > 0
    <3>1. Len(RowsUpTo(m)) = m /\ Len(workload_l) = Rows
      BY <1>2, WorkloadSorted DEF RowsUpTo
    <3>2. m = Rows
      BY <1>3, <2>2, <3>1
    <3> QED
      BY <1>2, <1>3, <1>6, <2>2, <3>2 DEF StartPeriod, RowsInv, tableVars
  <2> QED
    BY <1>6, <2>1, <2>2 DEF StartPeriod
<1>7. ASSUME NEW x, Draw(x) PROVE RowsInv'
  BY <1>5, <1>7 DEF Draw, Running, tableVars
<1>8. CASE Around
  BY <1>5, <1>8, AroundIs DEF tableVars
<1>9. CASE Tokenize \/ Parse \/ UNCHANGED vars
  BY <1>5, <1>9 DEF Tokenize, Parse, Running, vars, tableVars
<1> QED
  BY <1>2, <1>4, <1>6, <1>7, <1>8, <1>9 DEF TableNext, Around
-----------------------------------------------------------------------------
(* Of the total_qps equal parts of random(), those below Cumulated(k) and  *)
(* not below Cumulated(k - 1) draw query k.                                *)
Parts == 0..(total_qps - 1)

LEMMA PartOf ==
  ASSUME SortedWorkload, NEW x \in Parts
  PROVE  \E k \in 1..Rows : Cumulated(k - 1) <= x /\ x < Cumulated(k)
<1> DEFINE Good == {k \in 0..Rows :
             x < Cumulated(k) => \E j \in 1..Rows : Cumulated(j - 1) <= x /\ x < Cumulated(j)}
<1>0. /\ \A k \in 0..Rows : Cumulated(k) \in Nat
      /\ Cumulated(0) = 0 /\ Cumulated(Rows) = total_qps /\ Rows \in Nat
  BY CumulatedStep, WorkloadSorted
<1>x. x \in Nat /\ x < total_qps
  BY <1>0 DEF Parts
<1>1. 0 \in Good
  BY <1>0, <1>x
<1>2. ASSUME NEW k \in 1..Rows, k - 1 \in Good
      PROVE  k \in Good
  <2>1. CASE x < Cumulated(k - 1)
    BY <1>0, <1>2, <2>1
  <2>2. CASE ~ (x < Cumulated(k - 1))
    <3>1. Cumulated(k - 1) \in Nat /\ k \in 0..Rows
      BY <1>0
    <3>2. Cumulated(k - 1) <= x
      BY <1>x, <2>2, <3>1
    <3> QED
      BY <3>1, <3>2
  <2> QED
    BY <2>1, <2>2
<1> HIDE DEF Good
<1>3. Rows \in Good
  BY <1>0, <1>1, <1>2, Adding!IndexInduction
<1> QED
  BY <1>0, <1>x, <1>3 DEF Good

LEMMA DrawnAt ==
  ASSUME SortedWorkload, probabilities = RowsUpTo(Rows), NEW x \in Parts,
         NEW k \in 1..Rows, Cumulated(k - 1) <= x, x < Cumulated(k)
  PROVE  RandomQuery(x) = workload_l[k]
<1> DEFINE below == {i \in DOMAIN probabilities : probabilities[i] <= x}
<1>1. \A i \in 0..Rows : Cumulated(i) \in Nat
  BY CumulatedStep
<1>2. x \in Int /\ Rows \in Nat /\ k - 1 \in 0..Rows
  BY WorkloadSorted, ShareTyped DEF Parts
<1>3. \A i \in 1..(k - 1) : Cumulated(i) <= x
  <2>1. \A i \in 1..(k - 1) : Cumulated(i) <= Cumulated(k - 1)
    BY <1>2, CumulatedRises
  <2> QED
    BY <1>1, <1>2, <2>1
<1>4. \A i \in k..Rows : ~ (Cumulated(i) <= x)
  <2>1. \A i \in k..Rows : Cumulated(k) <= Cumulated(i)
    BY <1>2, CumulatedRises
  <2> QED
    BY <1>1, <1>2, <2>1
<1>5. DOMAIN probabilities = 1..Rows /\ \A i \in 1..Rows : probabilities[i] = Cumulated(i)
  BY DEF RowsUpTo
<1>6. below = 1..(k - 1)
  BY <1>2, <1>3, <1>4, <1>5
<1>7. Cardinality(1..(k - 1)) = k - 1
  BY <1>2, FS_Interval
<1>8. FindGt(x) = k - 1
  BY <1>6, <1>7 DEF FindGt
<1> QED
  BY <1>8 DEF RandomQuery

LEMMA DrawnIsQuery ==
  ASSUME SortedWorkload, probabilities = RowsUpTo(Rows), NEW x \in Parts
  PROVE  RandomQuery(x) \in Queries
<1>1. PICK k \in 1..Rows : Cumulated(k - 1) <= x /\ x < Cumulated(k)
  BY PartOf
<1>2. RandomQuery(x) = workload_l[k]
  BY <1>1, DrawnAt
<1> QED
  BY <1>2, WorkloadSorted

LEMMA PartsOf ==
  ASSUME SortedWorkload, probabilities = RowsUpTo(Rows), NEW k \in 1..Rows
  PROVE  {x \in Parts : RandomQuery(x) = workload_l[k]} = Cumulated(k - 1)..(Cumulated(k) - 1)
<1>1. /\ \A i \in 0..Rows : Cumulated(i) \in Nat
      /\ Cumulated(Rows) = total_qps /\ Rows \in Nat
      /\ k - 1 \in 0..Rows /\ k \in 0..Rows
  BY CumulatedStep, WorkloadSorted
<1>2. ASSUME NEW x \in Parts, RandomQuery(x) = workload_l[k]
      PROVE  x \in Cumulated(k - 1)..(Cumulated(k) - 1)
  <2>1. PICK j \in 1..Rows : Cumulated(j - 1) <= x /\ x < Cumulated(j)
    BY PartOf
  <2>2. RandomQuery(x) = workload_l[j]
    BY <2>1, DrawnAt
  <2>3. j = k
    BY <1>2, <2>2, WorkloadSorted
  <2> QED
    BY <1>1, <2>1, <2>3 DEF Parts
<1>3. ASSUME NEW x \in Cumulated(k - 1)..(Cumulated(k) - 1)
      PROVE  x \in Parts /\ RandomQuery(x) = workload_l[k]
  <2>1. Cumulated(k) <= Cumulated(Rows)
    BY <1>1, CumulatedRises
  <2>2. x \in Parts
    BY <1>1, <2>1 DEF Parts
  <2>3. Cumulated(k - 1) <= x /\ x < Cumulated(k)
    BY <1>1
  <2> QED
    BY <2>2, <2>3, DrawnAt
<1> QED
  BY <1>2, <1>3

LEMMA DrawsHold ==
  ASSUME TableInv, [TableNext]_vars
  PROVE  DrawsInv'
<1> DEFINE W == WorkerQps(NWorkers)
<1>1. SortedWorkload /\ W' = W /\ W \in Nat /\ MaxPeriods \in Nat
  BY WorkloadStays, SameWorkload, ShareTyped, TextTypes DEF TableInv
<1> HIDE DEF W
<1>2. /\ periods \in 0..MaxPeriods /\ left \in 0..W
      /\ attempts \in [Queries -> Nat]
      /\ phase \in {"table", "text"} => left = 0
      /\ SumOver(attempts, Queries) + left = periods * W
      /\ SumOver(attempts, Queries) \in Nat
  BY SumTyped DEF TableInv, CountInv, DrawsInv, W
<1>3. CASE /\ UNCHANGED <<periods, left, attempts>>
           /\ phase' \in {"table", "text"} => phase \in {"table", "text"}
  BY <1>1, <1>2, <1>3 DEF DrawsInv, W
<1>4. CASE AddRow \/ Tokenize \/ Parse \/ UNCHANGED vars
  <2>1. UNCHANGED runVars
    BY <1>4 DEF AddRow, Tokenize, Parse, vars
  <2>2. phase' \in {"table", "text"} => phase \in {"table", "text"}
    BY <1>4 DEF AddRow, Tokenize, Parse, vars
  <2> QED
    BY <1>3, <2>1, <2>2 DEF runVars
<1>5. CASE Around
  BY <1>3, <1>5, AroundIs
<1>6. CASE StartPeriod
  <2>1. /\ left = 0 /\ periods' = periods + 1 /\ left' = W /\ attempts' = attempts
        /\ periods < MaxPeriods /\ phase' = "run"
    BY <1>2, <1>6 DEF StartPeriod, W
  <2>2. periods' * W = periods * W + W
    BY <1>1, <1>2, <2>1
  <2>3. SumOver(attempts, Queries) + W = periods' * W
    BY <1>1, <1>2, <2>1, <2>2
  <2> QED
    BY <1>1, <1>2, <2>1, <2>3 DEF DrawsInv, W
<1>7. ASSUME NEW x \in Parts, Draw(x)
      PROVE  DrawsInv'
  <2>1. RandomQuery(x) \in Queries
    BY <1>7, DrawnIsQuery DEF TableInv, RowsInv, Running, Draw
  <2>2. /\ attempts' = [attempts EXCEPT ![RandomQuery(x)] = @ + 1]
        /\ left > 0 /\ left' = left - 1 /\ periods' = periods /\ phase' = "sent"
    BY <1>7 DEF Draw
  <2>3. SumOver(attempts', Queries) = SumOver(attempts, Queries) + 1
    BY <1>2, <2>1, <2>2, SumBut
  <2>4. attempts' \in [Queries -> Nat]
    BY <1>2, <2>1, <2>2
  <2>5. SumOver(attempts', Queries) + left' = periods' * W
    <3>1. periods * W \in Nat
      BY <1>1, <1>2
    <3> QED
      BY <1>1, <1>2, <2>2, <2>3, <3>1
  <2> QED
    BY <1>1, <1>2, <2>2, <2>4, <2>5 DEF DrawsInv, W
<1> QED
  BY <1>4, <1>5, <1>6, <1>7 DEF TableNext, Around, Parts

(* A draw takes a query in hand and counting lets it go; nothing between   *)
(* the two does either.                                                    *)
LEMMA HandHolds ==
  ASSUME TableInv, [TableNext]_vars
  PROVE  HandInv'
<1> USE DEF TableInv, CountInv, HandInv
<1>0. NoQuery \notin Queries
  BY TableAssumption
<1>1. CASE AddRow \/ Tokenize \/ Parse \/ UNCHANGED vars
  <2>1. UNCHANGED runVars
    BY <1>1 DEF AddRow, Tokenize, Parse, vars
  <2>2. \/ UNCHANGED phase
        \/ phase' \in {"table", "text", "failed"} /\ phase \in {"table", "text"}
    BY <1>1 DEF AddRow, Tokenize, Parse, vars
  <2> QED
    BY <2>1, <2>2 DEF runVars
<1>2. CASE StartPeriod
  BY <1>2 DEF StartPeriod
<1>3. ASSUME NEW x \in Parts, Draw(x)
      PROVE  HandInv'
  <2>1. RandomQuery(x) \in Queries
    BY <1>3, DrawnIsQuery DEF RowsInv, Running, Draw
  <2>2. /\ hand = NoQuery /\ hand' = RandomQuery(x) /\ stats' = stats /\ phase' = "sent"
        /\ attempts' = [attempts EXCEPT ![RandomQuery(x)] = @ + 1]
    BY <1>3 DEF Draw
  <2>3. attempts \in [Queries -> Nat]
    BY DEF DrawsInv
  <2> QED
    BY <1>0, <2>1, <2>2, <2>3
<1>4. CASE Count
  <2>1. /\ hand \in Queries /\ hand' = NoQuery /\ attempts' = attempts /\ phase' = "run"
        /\ stats' = [stats EXCEPT ![hand] = @ + 1]
    BY <1>4 DEF Count
  <2> QED
    BY <1>0, <2>1
<1>5. CASE Around /\ ~Count
  BY <1>5, AroundIs DEF Around, QueryReturns, ServerGone, Reconnect, Raise, Interrupt, Reach
<1> QED
  BY <1>1, <1>2, <1>3, <1>4, <1>5 DEF TableNext, Around, Parts

LEMMA TableInvHolds == TableSpec => []TableInv
<1>1. TableInv /\ [TableNext]_vars => TableInv'
  BY TextHolds, RowsHold, DrawsHold, HandHolds DEF TableInv, CountInv
<1> QED
  BY <1>1, TableInvInit, PTL DEF TableSpec
-----------------------------------------------------------------------------
(* The variables keep their types: no sum leaves the table, no count the   *)
(* draws of the periods, no workload its order.                            *)
THEOREM TableTyped == TableSpec => []TableTypeOK
<1>1. ASSUME TableInv PROVE TableTypeOK
  <2> DEFINE W == WorkerQps(NWorkers)
  <2>1. /\ W \in Nat /\ MaxPeriods \in Nat /\ total_qps \in Nat
    BY <1>1, ShareTyped, TextTypes DEF TableInv
  <2>2. probabilities \in BoundedSeq(0..total_qps, Rows)
    <3>1. PICK m \in 0..Rows : probabilities = RowsUpTo(m)
      BY <1>1 DEF TableInv, RowsInv
    <3>2. /\ \A i \in 0..Rows : Cumulated(i) \in Nat
          /\ Cumulated(Rows) = total_qps /\ Rows \in Nat
      BY <1>1, CumulatedStep, WorkloadSorted DEF TableInv
    <3>3. \A i \in 0..Rows : Cumulated(i) <= total_qps
      BY <1>1, <3>2, CumulatedRises DEF TableInv
    <3>4. probabilities \in [1..m -> 0..total_qps]
      BY <2>1, <3>1, <3>2, <3>3 DEF RowsUpTo
    <3> QED
      BY <3>2, <3>4 DEF BoundedSeq, SeqOf
  <2>3. {stats, attempts} \subseteq [Queries -> 0..(MaxPeriods * W)]
    <3>1. /\ periods \in 0..MaxPeriods /\ left \in 0..W
          /\ attempts \in [Queries -> Nat]
          /\ SumOver(attempts, Queries) + left = periods * W
          /\ SumOver(attempts, Queries) \in Nat
      BY <1>1, SumTyped DEF TableInv, CountInv, DrawsInv
    <3> HIDE DEF W
    <3>2. W * periods <= W * MaxPeriods
      BY <2>1, <3>1, Product
    <3>3. W * periods = periods * W /\ W * MaxPeriods = MaxPeriods * W
      BY <2>1, <3>1
    <3>4. SumOver(attempts, Queries) <= MaxPeriods * W /\ MaxPeriods * W \in Nat
      BY <2>1, <3>1, <3>2, <3>3
    <3>5. \A q \in Queries : attempts[q] <= SumOver(attempts, Queries)
      BY <3>1, SumBut
    <3>6. /\ stats \in [Queries -> Nat]
          /\ \A q \in Queries : stats[q] <= attempts[q]
      BY <1>1, <3>1 DEF TableInv, CountInv, HandInv
    <3>7. \A q \in Queries :
            attempts[q] \in 0..(MaxPeriods * W) /\ stats[q] \in 0..(MaxPeriods * W)
      BY <3>1, <3>4, <3>5, <3>6
    <3> QED
      BY <3>1, <3>6, <3>7
  <2>4. left \in 0..WorkerQps(NWorkers) /\ periods \in 0..MaxPeriods /\ hand \in Queries \cup {NoQuery}
    BY <1>1 DEF TableInv, CountInv, DrawsInv, HandInv
  <2> QED
    BY <1>1, <2>2, <2>3, <2>4 DEF TableTypeOK, TableInv, SortedWorkload, TextInv, Rows, W
<1> QED
  BY <1>1, TableInvHolds, PTL

(* For any queries, dials and shares, and whatever ways the attempts end   *)
(* in, reconnects and pauses in the middle of one included, each attempt   *)
(* was counted exactly once, but for the one in hand (worker.py 61-97).    *)
THEOREM AttemptsCounted == TableSpec => []AttemptsCount
<1>1. TableInv => AttemptsCount
  BY DEF TableInv, CountInv, HandInv, AttemptsCount
<1> QED
  BY <1>1, TableInvHolds, PTL

(* Whatever the dials, a query is drawn in as many parts of random() as    *)
(* its dial says, and no draw leaves the table (query_table.py 32-50).     *)
THEOREM DrawsMatch == TableSpec => []DrawsMatchDials
<1>1. ASSUME TableInv, phase = "run", NEW q \in Queries
      PROVE  Cardinality({x \in Parts : RandomQuery(x) = q}) = dials[q]
  <2>1. SortedWorkload /\ probabilities = RowsUpTo(Rows)
    BY <1>1 DEF TableInv, RowsInv, Running
  <2>2. PICK k \in 1..Rows : workload_l[k] = q
    BY <2>1, WorkloadSorted
  <2>3. {x \in Parts : RandomQuery(x) = q} = Cumulated(k - 1)..(Cumulated(k) - 1)
    BY <2>1, <2>2, PartsOf
  <2>4. /\ Cumulated(k) = Cumulated(k - 1) + dials[q]
        /\ Cumulated(k) \in Nat /\ Cumulated(k - 1) \in Nat /\ dials[q] \in Nat
    BY <2>1, <2>2, CumulatedStep, WorkloadSorted
  <2> DEFINE a == Cumulated(k - 1)
             b == Cumulated(k) - 1
  <2>5. a \in Int /\ b \in Int /\ (IF a > b THEN 0 ELSE b - a + 1) = dials[q]
    BY <2>4
  <2> HIDE DEF a, b
  <2>6. Cardinality(a..b) = dials[q]
    BY <2>5, FS_Interval
  <2> QED
    BY <2>3, <2>6 DEF a, b
<1>2. TableInv => DrawsMatchDials
  BY <1>1 DEF DrawsMatchDials, Parts
<1> QED
  BY <1>2, TableInvHolds, PTL
-----------------------------------------------------------------------------
(* FlattenSeq, a sequence at a time.                                       *)
Joins(g, ss, k) == g = [i \in 1..k |-> IF i = 1 THEN ss[i] ELSE g[i - 1] \o ss[i]]
Joined(ss, k) ==
  IF k = 0 THEN <<>> ELSE (CHOOSE g : Joins(g, ss, Len(ss)))[k]

LEMMA JoinsExist ==
  ASSUME NEW ss, NEW n \in Nat
  PROVE  \E g : Joins(g, ss, n)
<1> DEFINE Good == {k \in 0..n : \E g : Joins(g, ss, k)}
<1>1. 0 \in Good
  <2>1. Joins(<<>>, ss, 0)
    BY DEF Joins
  <2> QED
    BY <2>1
<1>2. ASSUME NEW k \in 1..n, k - 1 \in Good
      PROVE  k \in Good
  <2>1. PICK g : Joins(g, ss, k - 1)
    BY <1>2
  <2> DEFINE last == IF k = 1 THEN ss[k] ELSE g[k - 1] \o ss[k]
             h == [i \in 1..k |-> IF i = k THEN last ELSE g[i]]
             new == [i \in 1..k |-> IF i = 1 THEN ss[i] ELSE h[i - 1] \o ss[i]]
  <2>2. ASSUME NEW i \in 1..k PROVE h[i] = new[i]
    <3>1. CASE i = k
      BY <3>1
    <3>2. CASE i # k
      <4>1. i \in 1..(k - 1) /\ h[i] = g[i]
        BY <3>2
      <4>2. g[i] = IF i = 1 THEN ss[i] ELSE g[i - 1] \o ss[i]
        BY <2>1, <4>1 DEF Joins
      <4>3. i # 1 => h[i - 1] = g[i - 1]
        BY <4>1
      <4> QED
        BY <4>1, <4>2, <4>3
    <3> QED
      BY <3>1, <3>2
  <2>3. h = new
    BY <2>2
  <2>4. Joins(h, ss, k)
    BY <2>3, Zenon DEF Joins
  <2> QED
    BY <2>4
<1> HIDE DEF Good
<1>3. n \in Good
  BY <1>1, <1>2, Adding!IndexInduction
<1> QED
  BY <1>3 DEF Good

LEMMA JoinedStep ==
  ASSUME NEW A, NEW ss \in Seq(Seq(A))
  PROVE  /\ Joined(ss, 0) = <<>>
         /\ \A k \in 1..Len(ss) : Joined(ss, k) = Joined(ss, k - 1) \o ss[k]
         /\ \A k \in 0..Len(ss) : Joined(ss, k) \in Seq(A)
         /\ FlattenSeq(ss) = Joined(ss, Len(ss))
<1> DEFINE n == Len(ss)
           g == CHOOSE f : Joins(f, ss, n)
           W == Seq(A)
<1>0. n \in Nat /\ \A k \in 1..n : ss[k] \in W
  OBVIOUS
<1>1. Joins(g, ss, n)
  BY <1>0, JoinsExist, Zenon
<1>2. Joined(ss, 0) = <<>> /\ \A k \in 1..n : Joined(ss, k) = g[k]
  BY DEF Joined
<1>3. \A k \in 1..n : g[k] = IF k = 1 THEN ss[k] ELSE g[k - 1] \o ss[k]
  BY <1>1, Zenon DEF Joins
<1>4. FlattenSeq(ss) = Joined(ss, n)
  <2>1. CASE n = 0
    <3>1. ss = <<>>
      BY <2>1, EmptySeq
    <3> QED
      BY <2>1, <3>1 DEF FlattenSeq, Joined
  <2>2. CASE n # 0
    <3>1. FlattenSeq(ss) = g[n]
      BY <2>2 DEF FlattenSeq, Joins
    <3> QED
      BY <1>0, <1>2, <2>2, <3>1
  <2> QED
    BY <2>1, <2>2
<1>w. <<>> \in W /\ \A s, t \in W : s \o t \in W /\ <<>> \o s = s
  BY EmptySeq, ConcatProperties, ConcatEmptySeq
<1> HIDE DEF n, g, W
<1>5. ASSUME NEW k \in 1..n PROVE Joined(ss, k) = Joined(ss, k - 1) \o ss[k]
  <2>1. CASE k = 1
    <3>1. <<>> \o ss[k] = ss[k] /\ k - 1 = 0
      BY <1>0, <1>w, <2>1
    <3>2. Joined(ss, k) = ss[k] /\ Joined(ss, 0) = <<>>
      BY <1>2, <1>3, <2>1
    <3> QED
      BY ONLY <3>1, <3>2, Zenon
  <2>2. CASE k # 1
    <3>1. k - 1 \in 1..n
      BY <1>0, <2>2
    <3>2. Joined(ss, k) = g[k] /\ Joined(ss, k - 1) = g[k - 1]
      BY <1>2, <3>1
    <3>3. g[k] = g[k - 1] \o ss[k]
      BY <1>3, <2>2
    <3> QED
      BY ONLY <3>2, <3>3, Zenon
  <2> QED
    BY <2>1, <2>2
<1> DEFINE Good == {k \in 0..n : Joined(ss, k) \in W}
<1>6. 0 \in Good
  <2>1. 0 \in 0..n
    BY <1>0
  <2> QED
    BY ONLY <1>2, <1>w, <2>1, Zenon
<1>7. ASSUME NEW k \in 1..n, k - 1 \in Good
      PROVE  k \in Good
  <2>1. k \in 0..n /\ ss[k] \in W
    BY <1>0
  <2>2. Joined(ss, k - 1) \in W
    BY ONLY <1>7, Zenon
  <2>3. Joined(ss, k - 1) \o ss[k] \in W
    BY ONLY <1>w, <2>1, <2>2, Zenon
  <2> QED
    BY ONLY <1>5, <1>7, <2>1, <2>3, Zenon
<1> HIDE DEF Good
<1>8. \A k \in 0..n : k \in Good
  BY ONLY <1>0, <1>6, <1>7, Adding!IndexInduction
<1>9. \A k \in 0..n : Joined(ss, k) \in W
  BY ONLY <1>8, Zenon DEF Good
<1> QED
  BY ONLY <1>2, <1>4, <1>5, <1>9, Zenon DEF n, W

(* Whatever is joined the same way is the same.                            *)
LEMMA JoinedAlone ==
  ASSUME NEW A, NEW ss \in Seq(Seq(A)), NEW h, h[0] = <<>>,
         \A k \in 1..Len(ss) : h[k] = h[k - 1] \o ss[k]
  PROVE  \A k \in 0..Len(ss) : h[k] = Joined(ss, k)
<1> DEFINE n == Len(ss)
           Good == {k \in 0..n : h[k] = Joined(ss, k)}
<1>0. n \in Nat /\ 0 \in 0..n /\ \A k \in 1..n : k \in 0..n
  OBVIOUS
<1>a. Joined(ss, 0) = <<>> /\ \A k \in 1..n : Joined(ss, k) = Joined(ss, k - 1) \o ss[k]
  BY ONLY ss \in Seq(Seq(A)), JoinedStep, Zenon
<1>b. h[0] = <<>> /\ \A k \in 1..n : h[k] = h[k - 1] \o ss[k]
  OBVIOUS
<1> HIDE DEF n
<1>1. 0 \in Good
  BY ONLY <1>0, <1>a, <1>b, Zenon
<1>2. ASSUME NEW k \in 1..n, k - 1 \in Good
      PROVE  k \in Good
  <2>1. h[k - 1] = Joined(ss, k - 1)
    BY ONLY <1>2, Zenon
  <2>2. h[k] = Joined(ss, k)
    BY ONLY <1>2, <1>a, <1>b, <2>1, Zenon
  <2> QED
    BY ONLY <1>0, <1>2, <2>2, Zenon
<1> HIDE DEF Good
<1>3. \A k \in 0..n : k \in Good
  BY ONLY <1>0, <1>1, <1>2, Adding!IndexInduction
<1> QED
  BY ONLY <1>3, Zenon DEF Good, n

LEMMA FlattenOne ==
  ASSUME NEW A, NEW s \in Seq(A)
  PROVE  FlattenSeq(<<s>>) = s
<1>1. <<s>> \in Seq(Seq(A)) /\ Len(<<s>>) = 1 /\ <<s>>[1] = s
  OBVIOUS
<1>2. FlattenSeq(<<s>>) = <<>> \o s
  <2>1. /\ Joined(<<s>>, 0) = <<>>
        /\ \A k \in 1..1 : Joined(<<s>>, k) = Joined(<<s>>, k - 1) \o <<s>>[k]
        /\ FlattenSeq(<<s>>) = Joined(<<s>>, 1)
    BY ONLY <1>1, JoinedStep
  <2>2. 1 \in 1..1 /\ 1 - 1 = 0
    OBVIOUS
  <2> QED
    BY ONLY <1>1, <2>1, <2>2
<1> QED
  BY <1>2, ConcatEmptySeq

LEMMA FlattenConcat ==
  ASSUME NEW A, NEW s \in Seq(Seq(A)), NEW t \in Seq(Seq(A))
  PROVE  FlattenSeq(s \o t) = FlattenSeq(s) \o FlattenSeq(t)
<1> DEFINE m == Len(s)
           n == Len(t)
           W == Seq(A)
           st == s \o t
           h == [k \in 0..(m + n) |->
                   IF k <= m THEN Joined(s, k) ELSE Joined(s, m) \o Joined(t, k - m)]
<1>1. /\ m \in Nat /\ n \in Nat /\ st \in Seq(Seq(A)) /\ Len(st) = m + n
      /\ \A k \in 1..m : st[k] = s[k]
      /\ \A k \in (m + 1)..(m + n) : st[k] = t[k - m]
      /\ \A k \in 1..n : t[k] \in W
  BY ConcatProperties
<1>2. /\ \A k \in 1..m : Joined(s, k) = Joined(s, k - 1) \o s[k]
      /\ \A k \in 0..m : Joined(s, k) \in W
      /\ FlattenSeq(s) = Joined(s, m) /\ Joined(s, 0) = <<>>
  BY JoinedStep
<1>3. /\ \A k \in 1..n : Joined(t, k) = Joined(t, k - 1) \o t[k]
      /\ \A k \in 0..n : Joined(t, k) \in W
      /\ FlattenSeq(t) = Joined(t, n) /\ Joined(t, 0) = <<>>
  BY JoinedStep
<1>w. \A u, v, w \in W : (u \o v) \o w = u \o (v \o w) /\ u \o <<>> = u
  BY ConcatAssociative, ConcatEmptySeq, SMTT(30)
<1>0. \A k \in 0..(m + n) :
        h[k] = IF k <= m THEN Joined(s, k) ELSE Joined(s, m) \o Joined(t, k - m)
  OBVIOUS
<1> HIDE DEF m, n, W, st, h
<1>4. Joined(s, m) \in W /\ Joined(s, m) \o <<>> = Joined(s, m)
  <2>1. m \in 0..m
    BY <1>1
  <2> QED
    BY ONLY <1>2, <1>w, <2>1, Zenon
<1>c. \A j \in 0..n : h[m + j] = Joined(s, m) \o Joined(t, j)
  <2> TAKE j \in 0..n
  <2>1. m + j \in 0..(m + n) /\ (m + j) - m = j
    BY <1>1
  <2>2. CASE j = 0
    <3>1. h[m + j] = Joined(s, m)
      BY <1>0, <1>1, <2>1, <2>2
    <3>2. Joined(t, j) = <<>>
      BY <1>3, <2>2
    <3> QED
      BY ONLY <1>4, <3>1, <3>2, Zenon
  <2>3. CASE j # 0
    <3>1. ~ (m + j <= m)
      BY <1>1, <2>3
    <3>2. h[m + j] = Joined(s, m) \o Joined(t, (m + j) - m)
      BY ONLY <1>0, <2>1, <3>1, Zenon
    <3> QED
      BY ONLY <2>1, <3>2, Zenon
  <2> QED
    BY <2>2, <2>3
<1>d. \A k \in 0..m : h[k] = Joined(s, k)
  <2> TAKE k \in 0..m
  <2>1. k \in 0..(m + n) /\ k <= m
    BY <1>1
  <2> QED
    BY ONLY <1>0, <2>1, Zenon
<1>5. ASSUME NEW k \in 1..(m + n) PROVE h[k] = h[k - 1] \o st[k]
  <2>1. CASE k <= m
    <3>1. k \in 1..m /\ k \in 0..m /\ k - 1 \in 0..m
      BY <1>1, <2>1
    <3>2. h[k] = Joined(s, k) /\ h[k - 1] = Joined(s, k - 1) /\ st[k] = s[k]
      BY ONLY <1>1, <1>d, <3>1, Zenon
    <3> QED
      BY ONLY <1>2, <3>1, <3>2, Zenon
  <2>2. CASE ~ (k <= m)
    <3> DEFINE j == k - m
    <3>1. /\ j \in 1..n /\ j \in 0..n /\ j - 1 \in 0..n
          /\ k = m + j /\ k - 1 = m + (j - 1) /\ k \in (m + 1)..(m + n)
      BY <1>1, <2>2
    <3>2. st[k] = t[j]
      BY <1>1, <3>1
    <3> HIDE DEF j
    <3>3. h[m + j] = Joined(s, m) \o Joined(t, j) /\ h[m + (j - 1)] = Joined(s, m) \o Joined(t, j - 1)
      BY ONLY <1>c, <3>1, Zenon
    <3>4. /\ Joined(t, j) = Joined(t, j - 1) \o t[j]
          /\ Joined(t, j - 1) \in W /\ t[j] \in W
      BY ONLY <1>1, <1>3, <3>1, Zenon
    <3>5. (Joined(s, m) \o Joined(t, j - 1)) \o t[j] = Joined(s, m) \o (Joined(t, j - 1) \o t[j])
      BY ONLY <1>4, <1>w, <3>4, Zenon
    <3> QED
      BY ONLY <3>1, <3>2, <3>3, <3>4, <3>5, Zenon
  <2> QED
    BY <2>1, <2>2
<1>6. 0 \in 0..m /\ n \in 0..n
  BY <1>1
<1>7. h[0] = <<>> /\ h[m + n] = Joined(s, m) \o Joined(t, n)
  BY ONLY <1>2, <1>6, <1>c, <1>d, Zenon
<1>8. \A k \in 0..(m + n) : h[k] = Joined(st, k)
  <2>1. \A k \in 1..Len(st) : h[k] = h[k - 1] \o st[k]
    BY ONLY <1>1, <1>5, Zenon
  <2>2. \A k \in 0..Len(st) : h[k] = Joined(st, k)
    BY ONLY <1>1, <1>7, <2>1, JoinedAlone, Zenon
  <2> QED
    BY ONLY <1>1, <2>2, Zenon
<1>9. FlattenSeq(st) = Joined(st, m + n)
  BY ONLY <1>1, JoinedStep
<1>10. m + n \in 0..(m + n)
  BY <1>1
<1> QED
  BY ONLY <1>2, <1>3, <1>7, <1>8, <1>9, <1>10, Zenon DEF st
-----------------------------------------------------------------------------
Rising(f) == \A i, j \in DOMAIN f : i < j => f[i] < f[j]

LEMMA OrderExists ==
  ASSUME NEW n \in Nat, NEW S \in SUBSET (1..n)
  PROVE  \E f \in SetToSeqs(S) : Rising(f)
<1> DEFINE Low(k) == S \cap (1..k)
           Good == {k \in 0..n : \E f \in SetToSeqs(Low(k)) : Rising(f)}
<1>0. ASSUME NEW k \in 0..n
      PROVE  IsFiniteSet(Low(k)) /\ Cardinality(Low(k)) \in Nat
  <2>1. IsFiniteSet(1..n) /\ Low(k) \in SUBSET (1..n)
    BY FS_Interval
  <2> QED
    BY ONLY <2>1, FS_Subset, FS_CardinalityType
<1>1. 0 \in Good
  <2>1. Low(0) = {} /\ Cardinality({}) = 0
    BY FS_EmptySet
  <2>2. <<>> \in SetToSeqs({}) /\ Rising(<<>>)
    BY <2>1 DEF SetToSeqs, Rising
  <2> QED
    BY <2>1, <2>2
<1>2. ASSUME NEW k \in 1..n, k - 1 \in Good
      PROVE  k \in Good
  <2>1. PICK f \in SetToSeqs(Low(k - 1)) : Rising(f)
    BY <1>2
  <2>2. CASE k \notin S
    <3>1. Low(k) = Low(k - 1)
      BY <2>2
    <3> QED
      BY <2>1, <3>1
  <2>3. CASE k \in S
    <3> DEFINE m == Cardinality(Low(k - 1))
               g == [i \in 1..(m + 1) |-> IF i = m + 1 THEN k ELSE f[i]]
    <3>1. m \in Nat /\ IsFiniteSet(Low(k - 1))
      BY <1>0
    <3>2. Low(k) = Low(k - 1) \cup {k} /\ k \notin Low(k - 1)
      BY <2>3
    <3>3. Cardinality(Low(k)) = m + 1
      BY ONLY <3>1, <3>2, FS_AddElement
    <3> HIDE DEF m
    <3>4. f \in [1..m -> Low(k - 1)] /\ \A i, j \in 1..m : i # j => f[i] # f[j]
      BY DEF SetToSeqs, m
    <3>5. \A i, j \in 1..m : i < j => f[i] < f[j]
      BY <2>1, <3>4 DEF Rising
    <3>6. \A i \in 1..m : f[i] \in S /\ f[i] \in Int /\ f[i] < k
      BY <3>4
    <3>7. /\ g \in [1..(m + 1) -> Low(k)] /\ DOMAIN g = 1..(m + 1) /\ g[m + 1] = k
          /\ \A i \in 1..m : g[i] = f[i]
      BY <3>1, <3>2, <3>4
    <3> HIDE DEF g, Low
    <3>8. \A i, j \in 1..(m + 1) : i < j => g[i] < g[j]
      BY <3>1, <3>5, <3>6, <3>7
    <3>9. \A i, j \in 1..(m + 1) : i # j => g[i] # g[j]
      <4> SUFFICES ASSUME NEW i \in 1..(m + 1), NEW j \in 1..(m + 1), i < j
                   PROVE  g[i] # g[j]
        BY <3>1
      <4>1. g[i] < g[j] /\ g[i] \in Int /\ g[j] \in Int
        BY <3>1, <3>6, <3>7, <3>8, SMTT(30)
      <4> QED
        BY ONLY <4>1
    <3>10. g \in SetToSeqs(Low(k)) /\ Rising(g)
      BY <3>3, <3>7, <3>8, <3>9 DEF SetToSeqs, Rising
    <3> QED
      BY <3>10
  <2> QED
    BY <2>2, <2>3
<1>3. Low(n) = S
  OBVIOUS
<1> HIDE DEF Good
<1>4. n \in Good
  BY <1>1, <1>2, Adding!IndexInduction
<1> QED
  BY <1>3, <1>4 DEF Good

LEMMA InOrderIs ==
  ASSUME NEW n \in Nat, NEW S \in SUBSET (1..n)
  PROVE  LET f == InOrder(S)
             m == Len(f)
         IN /\ m \in Nat /\ f \in [1..m -> S]
            /\ \A i, j \in 1..m : i < j => f[i] < f[j]
            /\ \A x \in S : \E i \in 1..m : f[i] = x
<1> DEFINE f == InOrder(S)
           m == Cardinality(S)
<1>0. IsFiniteSet(1..n)
  BY FS_Interval
<1>1. IsFiniteSet(S) /\ m \in Nat
  BY <1>0, FS_Subset, FS_CardinalityType
<1>2. f \in SetToSeqs(S) /\ Rising(f)
  BY OrderExists DEF InOrder, Rising
<1> HIDE DEF f
<1>3. f \in [1..m -> S] /\ \A i, j \in 1..m : i # j => f[i] # f[j]
  BY <1>2 DEF SetToSeqs
<1> HIDE DEF m
<1>4. Len(f) = m /\ DOMAIN f = 1..m
  BY <1>1, <1>3
<1>5. f \in Injection(1..m, S)
  BY <1>3 DEF Injection, IsInjective
<1>6. Cardinality(1..m) = Cardinality(S)
  BY <1>1, FS_Interval DEF m
<1>7. f \in Surjection(1..m, S)
  BY <1>1, <1>5, <1>6, FS_Injection
<1>8. \A x \in S : \E i \in 1..m : f[i] = x
  BY <1>7 DEF Surjection
<1>9. \A i, j \in 1..m : i < j => f[i] < f[j]
  BY <1>2, <1>4 DEF Rising
<1> QED
  BY <1>1, <1>3, <1>4, <1>8, <1>9 DEF f
-----------------------------------------------------------------------------
(* What split_and_fold cuts: the tokens start with a special character and *)
(* do not overlap themselves.                                              *)
Token(p) == ALL_PARAM_TOKENS[p]

LEMMA TokenIs ==
  ASSUME NEW p \in 1..4
  PROVE  /\ Token(p) \in Seq(Chars) /\ Len(Token(p)) \in {1, 2}
         /\ Token(p)[1] \in Special
         /\ Len(Token(p)) = 2 => Token(p)[1] = "@" /\ Token(p)[2] \in {"M", "T"}
<1>1. /\ Token(1) = <<"@", "M">> /\ Token(2) = <<"@", "T">>
      /\ Token(3) = <<"@">> /\ Token(4) = <<"^">>
  BY DEF Token, ALL_PARAM_TOKENS
<1>2. {"@", "M", "T", "^"} \subseteq Chars /\ {"@", "^"} \subseteq Special
  BY DEF Chars, Special
<1>3. p = 1 \/ p = 2 \/ p = 3 \/ p = 4
  OBVIOUS
<1>4. ASSUME NEW x \in {"M", "T"}, Token(p) = <<"@", x>>
      PROVE  /\ Token(p) \in Seq(Chars) /\ Len(Token(p)) = 2
             /\ Token(p)[1] = "@" /\ Token(p)[2] = x
  <2>1. "@" \in Chars /\ x \in Chars
    BY <1>2
  <2> HIDE DEF Chars
  <2>2. <<"@", x>> \in Seq(Chars) /\ Len(<<"@", x>>) = 2
        /\ <<"@", x>>[1] = "@" /\ <<"@", x>>[2] = x
    BY ONLY <2>1
  <2> QED
    BY ONLY <1>4, <2>2, Zenon
<1>5. CASE p = 3 \/ p = 4
  BY ONLY <1>1, <1>2, <1>5
<1> QED
  BY ONLY <1>1, <1>2, <1>3, <1>4, <1>5

LEMMA StartsAt ==
  ASSUME NEW s \in Seq(Chars), NEW p \in 1..4
  PROVE  LET c == Token(p)
         IN \A i : i \in Starts(s, c) <=>
              /\ i \in 1..(Len(s) - Len(c) + 1)
              /\ s[i] = c[1] /\ (Len(c) = 2 => s[i + 1] = c[2])
<1> DEFINE c == Token(p)
<1>1. c \in Seq(Chars) /\ Len(c) \in {1, 2} /\ Len(s) \in Nat
  BY TokenIs
<1> HIDE DEF c
<1>2. ASSUME NEW i \in 1..(Len(s) - Len(c) + 1)
      PROVE  SubSeq(s, i, i + Len(c) - 1) = c
               <=> s[i] = c[1] /\ (Len(c) = 2 => s[i + 1] = c[2])
  <2> DEFINE u == SubSeq(s, i, i + Len(c) - 1)
  <2>1. u \in Seq(Chars) /\ Len(u) = Len(c)
    BY <1>1
  <2>2. u[1] = s[i] /\ (Len(c) = 2 => u[2] = s[i + 1])
    <3>1. \A j \in 1..Len(c) : u[j] = s[i + j - 1]
      BY <1>1
    <3>2. 1 \in 1..Len(c) /\ (Len(c) = 2 => 2 \in 1..Len(c))
      <4>1. \A n \in {1, 2} : 1 \in 1..n /\ (n = 2 => 2 \in 1..n)
        OBVIOUS
      <4> QED
        BY ONLY <1>1, <4>1, Zenon
    <3>3. i + 1 - 1 = i /\ i + 2 - 1 = i + 1
      BY <1>1
    <3> HIDE DEF u
    <3> QED
      BY <3>1, <3>2, <3>3
  <2> HIDE DEF u
  <2>3. u = c <=> \A j \in 1..Len(c) : u[j] = c[j]
    <3>1. ASSUME \A j \in 1..Len(c) : u[j] = c[j] PROVE u = c
      BY ONLY <1>1, <2>1, <3>1, SeqEqual
    <3> QED
      BY ONLY <3>1, Zenon
  <2>4. (\A j \in 1..Len(c) : u[j] = c[j]) <=> u[1] = c[1] /\ (Len(c) = 2 => u[2] = c[2])
    BY <1>1
  <2> QED
    BY <2>2, <2>3, <2>4 DEF u
<1> QED
  BY <1>2 DEF Starts, c

(* A token in a part of a text is one in the text.                         *)
LEMMA StartsInside ==
  ASSUME NEW s \in Seq(Chars), NEW p \in 1..4,
         NEW a \in 1..(Len(s) + 1), NEW b \in (a - 1)..Len(s),
         NEW i \in Starts(SubSeq(s, a, b), Token(p))
  PROVE  /\ i \in Nat \ {0} /\ a + i - 1 \in Starts(s, Token(p))
         /\ a + i - 1 + Len(Token(p)) - 1 <= b
<1> DEFINE c == Token(p)
           u == SubSeq(s, a, b)
<1>1. Len(c) \in {1, 2} /\ Len(s) \in Nat
  BY TokenIs, SMTT(30)
<1>2. /\ u \in Seq(Chars) /\ Len(u) = b - a + 1
      /\ \A j \in 1..(b - a + 1) : u[j] = s[a + j - 1]
  BY <1>1
<1> HIDE DEF u
<1>3. i \in 1..(Len(u) - Len(c) + 1) /\ u[i] = c[1] /\ (Len(c) = 2 => u[i + 1] = c[2])
  <2>1. i \in Starts(u, Token(p))
    BY DEF u
  <2> QED
    BY ONLY <1>2, <2>1, p \in 1..4, StartsAt, SMTT(30)
<1> HIDE DEF c
<1>4. /\ i \in Nat \ {0} /\ i \in 1..(b - a + 1)
      /\ Len(c) = 2 => i + 1 \in 1..(b - a + 1) /\ a + (i + 1) - 1 = a + i - 1 + 1
      /\ a + i - 1 + Len(c) - 1 <= b
      /\ a + i - 1 \in 1..(Len(s) - Len(c) + 1)
  <2> DEFINE n == Len(s)
             k == Len(c)
  <2>1. /\ n \in Nat /\ k \in {1, 2} /\ i \in 1..(b - a + 1 - k + 1)
        /\ a \in 1..(n + 1) /\ b \in (a - 1)..n
    <3>1. i \in 1..(b - a + 1 - k + 1)
      BY ONLY <1>2, <1>3
    <3>2. n \in Nat /\ k \in {1, 2}
      BY ONLY <1>1
    <3> QED
      BY <3>1, <3>2
  <2> HIDE DEF n, k
  <2>2. /\ i \in Nat \ {0} /\ i \in 1..(b - a + 1)
        /\ k = 2 => i + 1 \in 1..(b - a + 1) /\ a + (i + 1) - 1 = a + i - 1 + 1
        /\ a + i - 1 + k - 1 <= b
        /\ a + i - 1 \in 1..(n - k + 1)
    BY ONLY <2>1
  <2> QED
    BY <2>2, Zenon DEF n, k
<1>5. s[a + i - 1] = c[1] /\ (Len(c) = 2 => s[a + i - 1 + 1] = c[2])
  <2>1. u[i] = s[a + i - 1] /\ (Len(c) = 2 => u[i + 1] = s[a + (i + 1) - 1])
    BY ONLY <1>2, <1>4, Zenon
  <2> QED
    BY ONLY <1>3, <1>4, <2>1, Zenon
<1>6. a + i - 1 \in Starts(s, c)
  BY ONLY <1>4, <1>5, s \in Seq(Chars), p \in 1..4, StartsAt DEF c
<1> QED
  BY <1>4, <1>6 DEF c

Cuts(s, c) == InOrder(Starts(s, c))
From(s, c, k) == IF k = 1 THEN 1 ELSE Cuts(s, c)[k - 1] + Len(c)
To(s, c, k) == IF k > Len(Cuts(s, c)) THEN Len(s) ELSE Cuts(s, c)[k] - 1

LEMMA CutsAre ==
  ASSUME NEW s \in Seq(Chars), NEW p \in 1..4
  PROVE  LET c == Token(p)
             m == Len(Cuts(s, c))
         IN /\ m \in Nat
            /\ \A k \in 1..m : Cuts(s, c)[k] \in Starts(s, c) /\ Cuts(s, c)[k] \in Nat
            /\ \A i, j \in 1..m : i < j => Cuts(s, c)[i] + Len(c) <= Cuts(s, c)[j]
            /\ \A x \in Starts(s, c) : \E k \in 1..m : Cuts(s, c)[k] = x
<1> DEFINE c == Token(p)
           f == Cuts(s, c)
           m == Len(f)
           n == Len(s)
<1>1. c \in Seq(Chars) /\ Len(c) \in {1, 2} /\ n \in Nat
  BY TokenIs
<1> HIDE DEF c, n
<1>2. Starts(s, c) \in SUBSET (1..n)
  <2>1. \A i \in 1..(n - Len(c) + 1) : i \in 1..n
    BY <1>1
  <2> QED
    BY <2>1 DEF Starts, n
<1>3. /\ m \in Nat /\ f \in [1..m -> Starts(s, c)]
      /\ \A i, j \in 1..m : i < j => f[i] < f[j]
      /\ \A x \in Starts(s, c) : \E k \in 1..m : f[k] = x
  BY ONLY <1>1, <1>2, InOrderIs DEF Cuts
<1> HIDE DEF f, m
<1>4. ASSUME NEW i \in 1..m, NEW j \in 1..m, i < j
      PROVE  f[i] + Len(c) <= f[j]
  <2>1. f[i] \in Starts(s, c) /\ f[j] \in Starts(s, c) /\ f[i] < f[j]
    BY <1>3, <1>4
  <2>2. f[i] \in Nat /\ f[j] \in Nat
    BY <1>2, <2>1
  <2>3. /\ s[f[i]] = c[1] /\ (Len(c) = 2 => s[f[i] + 1] = c[2])
        /\ s[f[j]] = c[1]
    BY ONLY <2>1, s \in Seq(Chars), p \in 1..4, StartsAt DEF c
  <2>4. Len(c) = 2 => c[1] # c[2]
    BY TokenIs DEF c
  <2>5. Len(c) = 2 => f[j] # f[i] + 1
    BY <2>3, <2>4
  <2>6. CASE Len(c) = 1
    BY <2>1, <2>2, <2>6
  <2>7. CASE Len(c) = 2
    BY <2>1, <2>2, <2>5, <2>7
  <2> QED
    BY <1>1, <2>6, <2>7
<1>5. \A k \in 1..m : f[k] \in Starts(s, c) /\ f[k] \in Nat
  BY <1>2, <1>3
<1> QED
  BY <1>3, <1>4, <1>5 DEF f, m, c

LEMMA PiecesLie ==
  ASSUME NEW s \in Seq(Chars), NEW p \in 1..4
  PROVE  LET c == Token(p)
             m == Len(Cuts(s, c))
         IN /\ \A k \in 1..(m + 1) :
                 /\ From(s, c, k) \in 1..(Len(s) + 1)
                 /\ To(s, c, k) \in (From(s, c, k) - 1)..Len(s)
            /\ From(s, c, 1) = 1 /\ To(s, c, m + 1) = Len(s)
            /\ \A k \in 1..m :
                 /\ To(s, c, k) = Cuts(s, c)[k] - 1
                 /\ From(s, c, k + 1) = Cuts(s, c)[k] + Len(c)
<1> DEFINE c == Token(p)
           f == Cuts(s, c)
           m == Len(f)
           n == Len(s)
<1>1. Len(c) \in {1, 2} /\ n \in Nat
  BY TokenIs
<1>2. /\ m \in Nat
      /\ \A k \in 1..m : f[k] \in Starts(s, c) /\ f[k] \in Nat
      /\ \A i, j \in 1..m : i < j => f[i] + Len(c) <= f[j]
  BY ONLY s \in Seq(Chars), p \in 1..4, CutsAre
<1>3. \A k \in 1..m : f[k] \in 1..(n - Len(c) + 1)
  BY <1>2 DEF Starts
<1>4. From(s, c, 1) = 1 /\ To(s, c, m + 1) = n
  BY <1>2 DEF From, To
<1>5. \A k \in 1..m : To(s, c, k) = f[k] - 1 /\ From(s, c, k + 1) = f[k] + Len(c)
  <2> TAKE k \in 1..m
  <2>1. ~ (k > m) /\ k + 1 # 1 /\ (k + 1) - 1 = k
    BY <1>2
  <2> QED
    BY ONLY <2>1, Zenon DEF From, To
<1> HIDE DEF c, f, m, n
<1>6. ASSUME NEW k \in 1..(m + 1)
      PROVE  From(s, c, k) \in 1..(n + 1) /\ To(s, c, k) \in (From(s, c, k) - 1)..n
  <2>0. k \in Int /\ m \in Nat /\ Len(c) \in Nat /\ n \in Nat
    BY <1>1, <1>2
  <2>1. CASE k = 1
    <3>1. CASE m = 0
      BY <1>1, <1>4, <2>1, <3>1
    <3>2. CASE m # 0
      <4>1. k \in 1..m
        BY <1>2, <2>1, <3>2
      <4>2. To(s, c, k) = f[k] - 1 /\ f[k] \in 1..(n - Len(c) + 1) /\ From(s, c, k) = 1
        BY ONLY <1>3, <1>4, <1>5, <2>1, <4>1, Zenon
      <4> QED
        BY <1>1, <4>2
    <3> QED
      BY <3>1, <3>2
  <2>2. CASE k # 1
    <3> DEFINE j == k - 1
    <3>1. j \in 1..m /\ k = j + 1
      BY <2>0, <2>2
    <3> HIDE DEF j
    <3>2. From(s, c, k) = f[j] + Len(c) /\ f[j] \in 1..(n - Len(c) + 1)
      BY ONLY <1>3, <1>5, <3>1, Zenon
    <3>3. CASE k = m + 1
      BY <1>1, <1>4, <3>2, <3>3
    <3>4. CASE k # m + 1
      <4>1. k \in 1..m /\ j < k
        BY <2>0, <3>1, <3>4
      <4>2. To(s, c, k) = f[k] - 1 /\ f[k] \in 1..(n - Len(c) + 1) /\ f[j] + Len(c) <= f[k]
        BY ONLY <1>2, <1>3, <1>5, <3>1, <4>1, Zenon
      <4> QED
        BY <1>1, <3>2, <4>2
    <3> QED
      BY <3>3, <3>4
  <2> QED
    BY <2>1, <2>2
<1> QED
  BY <1>4, <1>5, <1>6 DEF c, f, m, n

(* The list that split_and_fold builds, one entry after the other.         *)
LEMMA SplitIs ==
  ASSUME NEW s \in Seq(Chars), NEW p \in 1..4
  PROVE  LET c == Token(p)
             m == Len(Cuts(s, c))
             l == SplitAndFold(s, c)
         IN /\ l \in Seq(Seq(Chars)) /\ Len(l) = 2 * m + 1 /\ m \in Nat
            /\ \A k \in 1..(m + 1) : l[2 * k - 1] = SubSeq(s, From(s, c, k), To(s, c, k))
            /\ \A k \in 1..m : l[2 * k] = c
<1> DEFINE c == Token(p)
           m == Len(Cuts(s, c))
           l == SplitAndFold(s, c)
           entry(j) == IF j % 2 = 0 THEN c
                       ELSE SubSeq(s, From(s, c, (j + 1) \div 2), To(s, c, (j + 1) \div 2))
<1>0. m \in Nat
  BY ONLY s \in Seq(Chars), p \in 1..4, CutsAre
<1>1. m \in Nat /\ c \in Seq(Chars) /\ Len(s) \in Nat
  BY <1>0, TokenIs
<1>2. l = [j \in 1..(2 * m + 1) |-> entry(j)]
  BY Zenon DEF SplitAndFold, Cuts, From, To
<1>3. \A k \in 1..(m + 1) : SubSeq(s, From(s, c, k), To(s, c, k)) \in Seq(Chars)
  <2> TAKE k \in 1..(m + 1)
  <2>1. /\ From(s, c, k) \in 1..(Len(s) + 1)
        /\ To(s, c, k) \in (From(s, c, k) - 1)..Len(s)
    BY ONLY s \in Seq(Chars), p \in 1..4, PiecesLie
  <2>2. From(s, c, k) \in Int /\ To(s, c, k) \in Int
        /\ \A i \in From(s, c, k)..To(s, c, k) : i \in 1..Len(s)
    BY <1>1, <2>1
  <2>3. \A i \in 1..Len(s) : s[i] \in Chars
    OBVIOUS
  <2> QED
    BY ONLY <2>2, <2>3, SubSeqProperties
<1> HIDE DEF l
<1>4. ASSUME NEW j \in 1..(2 * m + 1) PROVE entry(j) \in Seq(Chars)
  <2>1. CASE j % 2 = 0
    BY <1>1, <2>1
  <2>2. CASE j % 2 # 0
    <3>1. (j + 1) \div 2 \in 1..(m + 1)
      BY <1>1
    <3> QED
      BY <1>3, <2>2, <3>1
  <2> QED
    BY <2>1, <2>2
<1>5. ASSUME NEW k \in 1..(m + 1)
      PROVE  l[2 * k - 1] = SubSeq(s, From(s, c, k), To(s, c, k))
  <2>1. 2 * k - 1 \in 1..(2 * m + 1) /\ (2 * k - 1) % 2 # 0 /\ ((2 * k - 1) + 1) \div 2 = k
    BY <1>1
  <2> QED
    BY ONLY <1>2, <2>1
<1>6. ASSUME NEW k \in 1..m PROVE l[2 * k] = c
  <2>1. 2 * k \in 1..(2 * m + 1) /\ (2 * k) % 2 = 0
    BY <1>1
  <2> QED
    BY ONLY <1>2, <2>1
<1>7. 2 * m + 1 \in Nat
  BY <1>1
<1> HIDE DEF entry, m
<1>8. l \in [1..(2 * m + 1) -> Seq(Chars)]
  BY ONLY <1>2, <1>4
<1>9. l \in Seq(Seq(Chars)) /\ Len(l) = 2 * m + 1
  <2> DEFINE k == 2 * m + 1
  <2>1. k \in Nat /\ l \in [1..k -> Seq(Chars)]
    BY ONLY <1>7, <1>8
  <2> HIDE DEF k
  <2>2. l \in Seq(Seq(Chars)) /\ Len(l) = k
    BY ONLY <2>1, SeqDef
  <2> QED
    BY <2>2 DEF k
<1> QED
  BY ONLY <1>1, <1>5, <1>6, <1>9 DEF l, m

(* No token before number p is left in s.                                  *)
Free(s, p) == \A r \in 1..p : Starts(s, Token(r)) = {}

LEMMA PiecesFree ==
  ASSUME NEW s \in Seq(Chars), NEW p \in 1..4, Free(s, p - 1),
         NEW k \in 1..(Len(Cuts(s, Token(p))) + 1)
  PROVE  Free(SubSeq(s, From(s, Token(p), k), To(s, Token(p), k)), p)
<1> DEFINE c == Token(p)
           f == Cuts(s, c)
           m == Len(f)
           a == From(s, c, k)
           b == To(s, c, k)
<1>0. /\ m \in Nat /\ Len(c) \in {1, 2} /\ Len(s) \in Nat
  <2>1. m \in Nat
    BY ONLY s \in Seq(Chars), p \in 1..4, CutsAre
  <2> QED
    BY <2>1, TokenIs, SMTT(30)
<1>1. /\ a \in 1..(Len(s) + 1) /\ b \in (a - 1)..Len(s)
      /\ \A j \in 1..m : To(s, c, j) = f[j] - 1 /\ From(s, c, j + 1) = f[j] + Len(c)
  BY ONLY s \in Seq(Chars), p \in 1..4, k \in 1..(m + 1), PiecesLie
<1>2. /\ \A i, j \in 1..m : i < j => f[i] + Len(c) <= f[j]
      /\ \A j \in 1..m : f[j] \in Nat
      /\ \A x \in Starts(s, c) : \E j \in 1..m : f[j] = x
  BY ONLY s \in Seq(Chars), p \in 1..4, CutsAre
<1> SUFFICES ASSUME NEW r \in 1..p, NEW i \in Starts(SubSeq(s, a, b), Token(r))
             PROVE  FALSE
  BY Zenon DEF Free
<1>3. /\ i \in Nat \ {0} /\ a + i - 1 \in Starts(s, Token(r))
      /\ a + i - 1 + Len(Token(r)) - 1 <= b
  <2>1. r \in 1..4
    OBVIOUS
  <2> QED
    BY ONLY <1>1, <2>1, s \in Seq(Chars), i \in Starts(SubSeq(s, a, b), Token(r)), StartsInside
<1>4. CASE r # p
  <2>1. r \in 1..(p - 1)
    BY <1>4
  <2> QED
    BY ONLY <1>3, <2>1, Free(s, p - 1) DEF Free
<1>5. CASE r = p
  <2>1. PICK q \in 1..m : f[q] = a + i - 1
    BY ONLY <1>2, <1>3, <1>5, Zenon DEF c
  <2> DEFINE C == Len(c)
  <2>2. a + i - 1 + C - 1 <= b /\ C \in {1, 2}
    BY ONLY <1>0, <1>3, <1>5, Zenon DEF c
  <2>3. f[q] \in Nat /\ a \in Nat /\ b \in Int /\ k \in 1..(m + 1)
    BY <1>0, <1>1, <1>2
  <2> HIDE DEF C, c, f, m, a, b
  <2>4. CASE q < k
    <3> DEFINE j == k - 1
    <3>1. j \in 1..m /\ k = j + 1 /\ (q < j \/ q = j)
      BY <1>0, <2>3, <2>4
    <3> HIDE DEF j
    <3>2. a = f[j] + C /\ f[j] \in Nat /\ (q < j => f[q] + C <= f[j])
      BY ONLY <1>1, <1>2, <3>1, <2>1, Zenon DEF a, C
    <3>3. q = j => f[q] = f[j]
      OBVIOUS
    <3>4. f[q] <= f[j]
      BY ONLY <2>2, <2>3, <3>1, <3>2, <3>3, SMTT(30)
    <3>5. \A y, z \in Nat : z + C + i - 1 = y => ~ (y <= z)
      BY ONLY <2>2, <1>3
    <3>6. f[j] + C + i - 1 = f[q]
      BY ONLY <2>1, <3>2, Zenon
    <3> QED
      BY ONLY <2>3, <3>2, <3>4, <3>5, <3>6, Zenon
  <2>5. CASE ~ (q < k)
    <3>1. k \in 1..m /\ (k < q \/ k = q)
      BY <1>0, <2>3, <2>5
    <3>2. b = f[k] - 1 /\ f[k] \in Nat /\ (k < q => f[k] + C <= f[q])
      BY ONLY <1>1, <1>2, <3>1, <2>1, Zenon DEF b, C
    <3>3. k = q => f[q] = f[k]
      OBVIOUS
    <3>4. f[k] <= f[q]
      BY ONLY <2>2, <2>3, <3>1, <3>2, <3>3, SMTT(30)
    <3> QED
      BY ONLY <1>3, <2>1, <2>2, <2>3, <3>2, <3>4, SMTT(30)
  <2> QED
    BY <2>4, <2>5
<1> QED
  BY <1>4, <1>5

(* Nothing is lost.                                                        *)
LEMMA SplitWhole ==
  ASSUME NEW s \in Seq(Chars), NEW p \in 1..4
  PROVE  FlattenSeq(SplitAndFold(s, Token(p))) = s
<1> DEFINE c == Token(p)
           f == Cuts(s, c)
           m == Len(f)
           n == Len(s)
           l == SplitAndFold(s, c)
           From1(k) == From(s, c, k)
           To1(k) == To(s, c, k)
           end(j) == IF j % 2 = 0 THEN From1(j \div 2 + 1) - 1 ELSE To1((j + 1) \div 2)
           h == [j \in 0..(2 * m + 1) |-> SubSeq(s, 1, end(j))]
<1>1. /\ l \in Seq(Seq(Chars)) /\ Len(l) = 2 * m + 1 /\ m \in Nat
      /\ \A k \in 1..(m + 1) : l[2 * k - 1] = SubSeq(s, From1(k), To1(k))
      /\ \A k \in 1..m : l[2 * k] = c
  BY ONLY s \in Seq(Chars), p \in 1..4, SplitIs
<1>2. /\ \A k \in 1..(m + 1) : From1(k) \in 1..(n + 1) /\ To1(k) \in (From1(k) - 1)..n
      /\ From1(1) = 1 /\ To1(m + 1) = n
      /\ \A k \in 1..m : To1(k) = f[k] - 1 /\ From1(k + 1) = f[k] + Len(c)
  BY ONLY s \in Seq(Chars), p \in 1..4, PiecesLie
<1>3. \A k \in 1..m : f[k] \in Starts(s, c) /\ f[k] \in Nat
  BY ONLY s \in Seq(Chars), p \in 1..4, CutsAre
<1>4. Len(c) \in {1, 2} /\ n \in Nat
  BY TokenIs
<1>5. \A k \in 1..m : f[k] \in 1..(n - Len(c) + 1) /\ SubSeq(s, f[k], f[k] + Len(c) - 1) = c
  BY <1>3 DEF Starts
<1>6. \A j \in 0..(2 * m + 1) : h[j] = SubSeq(s, 1, end(j))
  OBVIOUS
<1> HIDE DEF h, l, c, f, m, From1, To1
<1>7. h[0] = <<>>
  <2>1. 0 \in 0..(2 * m + 1) /\ 0 % 2 = 0 /\ 0 \div 2 + 1 = 1
    BY <1>1
  <2>2. h[0] = SubSeq(s, 1, 0)
    BY ONLY <1>2, <1>6, <2>1
  <2> QED
    BY <2>2, SubSeqEmpty
<1>8. ASSUME NEW k \in 1..(m + 1) PROVE h[2 * k - 1] = h[2 * k - 1 - 1] \o l[2 * k - 1]
  <2> DEFINE j == 2 * k - 1
             a == From1(k)
             b == To1(k)
  <2>1. /\ j \in 0..(2 * m + 1) /\ j - 1 \in 0..(2 * m + 1)
        /\ j % 2 # 0 /\ (j + 1) \div 2 = k /\ (j - 1) % 2 = 0 /\ (j - 1) \div 2 + 1 = k
    BY <1>1
  <2> HIDE DEF j
  <2>2. h[j] = SubSeq(s, 1, b) /\ h[j - 1] = SubSeq(s, 1, a - 1)
    BY ONLY <1>6, <2>1
  <2>3. a \in 1..(n + 1) /\ b \in (a - 1)..n /\ a - 1 \in (1 - 1)..n /\ 1 \in 1..(n + 1)
        /\ a - 1 + 1 = a
    BY <1>2, <1>4
  <2> HIDE DEF a, b
  <2>4. SubSeq(s, 1, a - 1) \o SubSeq(s, (a - 1) + 1, b) = SubSeq(s, 1, b)
    BY ONLY s \in Seq(Chars), <2>3, ConcatAdjacentSubSeq DEF n
  <2>5. l[j] = SubSeq(s, a, b)
    BY ONLY <1>1, Zenon, k \in 1..(m + 1) DEF j, a, b
  <2>6. SubSeq(s, 1, a - 1) \o SubSeq(s, a, b) = SubSeq(s, 1, b)
    BY ONLY <2>3, <2>4, Zenon
  <2>7. h[j] = h[j - 1] \o l[j]
    BY ONLY <2>2, <2>5, <2>6, Zenon
  <2> QED
    BY ONLY <2>7, Zenon DEF j
<1>9. ASSUME NEW k \in 1..m PROVE h[2 * k] = h[2 * k - 1] \o l[2 * k]
  <2> DEFINE j == 2 * k
             a == f[k]
             b == f[k] + Len(c) - 1
  <2>1. /\ j \in 0..(2 * m + 1) /\ j - 1 \in 0..(2 * m + 1)
        /\ j % 2 = 0 /\ j \div 2 + 1 = k + 1 /\ (j - 1) % 2 # 0 /\ (j - 1 + 1) \div 2 = k
    BY <1>1
  <2> HIDE DEF j
  <2>2. h[j] = SubSeq(s, 1, From1(k + 1) - 1) /\ h[j - 1] = SubSeq(s, 1, To1(k))
    BY ONLY <1>6, <2>1
  <2>3. a \in 1..(n - Len(c) + 1) /\ From1(k + 1) = a + Len(c) /\ To1(k) = a - 1
    BY ONLY <1>2, <1>5, k \in 1..m, Zenon
  <2>4. /\ b \in (a - 1)..n /\ a - 1 \in (1 - 1)..n /\ 1 \in 1..(n + 1) /\ a - 1 + 1 = a
        /\ From1(k + 1) - 1 = b
    BY <1>4, <2>3, SMTT(30)
  <2>5. SubSeq(s, a, b) = c /\ l[j] = c
    BY ONLY <1>1, <1>5, k \in 1..m, Zenon DEF j
  <2> HIDE DEF a, b
  <2>6. SubSeq(s, 1, a - 1) \o SubSeq(s, (a - 1) + 1, b) = SubSeq(s, 1, b)
    BY ONLY s \in Seq(Chars), <2>4, ConcatAdjacentSubSeq DEF n
  <2>7. SubSeq(s, 1, a - 1) \o SubSeq(s, a, b) = SubSeq(s, 1, b)
    BY ONLY <2>4, <2>6, Zenon
  <2>8. h[j] = SubSeq(s, 1, b) /\ h[j - 1] = SubSeq(s, 1, a - 1)
    BY ONLY <2>2, <2>3, <2>4, Zenon
  <2>9. h[j] = h[j - 1] \o l[j]
    BY ONLY <2>5, <2>7, <2>8, Zenon
  <2> QED
    BY ONLY <2>9, Zenon DEF j
<1>10. ASSUME NEW j \in 1..Len(l) PROVE h[j] = h[j - 1] \o l[j]
  <2>1. CASE j % 2 # 0
    <3> DEFINE k == (j + 1) \div 2
    <3>1. k \in 1..(m + 1) /\ j = 2 * k - 1
      BY <1>1, <2>1, SMTT(30)
    <3> HIDE DEF k
    <3> QED
      BY ONLY <1>8, <3>1, Zenon
  <2>2. CASE j % 2 = 0
    <3> DEFINE k == j \div 2
    <3>1. k \in 1..m /\ j = 2 * k
      BY <1>1, <2>2
    <3> HIDE DEF k
    <3> QED
      BY ONLY <1>9, <3>1, Zenon
  <2> QED
    BY <2>1, <2>2
<1>11. h[Len(l)] = Joined(l, Len(l)) /\ FlattenSeq(l) = Joined(l, Len(l))
  <2>1. Len(l) \in 0..Len(l)
    BY <1>1
  <2>2. \A j \in 0..Len(l) : h[j] = Joined(l, j)
    BY ONLY <1>1, <1>7, <1>10, JoinedAlone
  <2>3. FlattenSeq(l) = Joined(l, Len(l))
    BY ONLY <1>1, JoinedStep
  <2> QED
    BY ONLY <2>1, <2>2, <2>3, Zenon
<1>12. h[Len(l)] = s
  <2> DEFINE j == 2 * m + 1
  <2>1. j \in 0..(2 * m + 1) /\ j % 2 # 0 /\ (j + 1) \div 2 = m + 1 /\ Len(l) = j
    BY <1>1
  <2> HIDE DEF j
  <2>2. h[j] = SubSeq(s, 1, To1(m + 1))
    BY ONLY <1>6, <2>1
  <2>3. SubSeq(s, 1, n) = s
    BY SubSeqFull
  <2> QED
    BY ONLY <1>2, <2>1, <2>2, <2>3, Zenon
<1> QED
  BY ONLY <1>11, <1>12, Zenon DEF l, c

LEMMA SplitHead ==
  ASSUME NEW s \in Seq(Chars), NEW p \in 1..4
  PROVE  LET first == SplitAndFold(s, Token(p))[1]
         IN first # <<>> => s # <<>> /\ first[1] = s[1]
<1> DEFINE c == Token(p)
           m == Len(Cuts(s, c))
           l == SplitAndFold(s, c)
           b == To(s, c, 1)
<1>1. m \in Nat /\ \A k \in 1..(m + 1) : l[2 * k - 1] = SubSeq(s, From(s, c, k), To(s, c, k))
  BY ONLY s \in Seq(Chars), p \in 1..4, SplitIs
<1>2. /\ \A k \in 1..(m + 1) : To(s, c, k) \in (From(s, c, k) - 1)..Len(s)
      /\ From(s, c, 1) = 1
  BY ONLY s \in Seq(Chars), p \in 1..4, PiecesLie
<1>3. 1 \in 1..(m + 1) /\ 2 * 1 - 1 = 1 /\ Len(s) \in Nat
  BY <1>1
<1>4. l[1] = SubSeq(s, 1, b) /\ b \in (1 - 1)..Len(s)
  BY ONLY <1>1, <1>2, <1>3, Zenon
<1> HIDE DEF l, b
<1>5. CASE b = 0
  BY <1>4, <1>5, SubSeqEmpty DEF l, c
<1>6. CASE b # 0
  <2>1. SubSeq(s, 1, b)[1] = s[1] /\ s # <<>>
    BY <1>3, <1>4, <1>6
  <2> QED
    BY ONLY <1>4, <2>1, Zenon DEF l, c
<1> QED
  BY ONLY <1>3, <1>4, <1>5, <1>6

(* A "@" is not the start of a longer token.                               *)
Apart(l) == \A j \in 1..Len(l) :
  j % 2 = 0 /\ j < Len(l) /\ l[j] = <<"@">> /\ l[j + 1] # <<>> => l[j + 1][1] \notin {"M", "T"}

LEMMA SplitApart ==
  ASSUME NEW s \in Seq(Chars), NEW p \in 1..4, Free(s, p - 1)
  PROVE  Apart(SplitAndFold(s, Token(p)))
<1> DEFINE c == Token(p)
           f == Cuts(s, c)
           m == Len(f)
           l == SplitAndFold(s, c)
           n == Len(s)
<1>1. /\ Len(l) = 2 * m + 1 /\ m \in Nat
      /\ \A k \in 1..(m + 1) : l[2 * k - 1] = SubSeq(s, From(s, c, k), To(s, c, k))
      /\ \A k \in 1..m : l[2 * k] = c
  BY ONLY s \in Seq(Chars), p \in 1..4, SplitIs
<1>2. /\ \A k \in 1..(m + 1) : To(s, c, k) \in (From(s, c, k) - 1)..n
      /\ \A k \in 1..m : From(s, c, k + 1) = f[k] + Len(c)
  BY ONLY s \in Seq(Chars), p \in 1..4, PiecesLie
<1>3. \A k \in 1..m : f[k] \in Starts(s, c)
  BY ONLY s \in Seq(Chars), p \in 1..4, CutsAre
<1> HIDE DEF l, f, m
<1> SUFFICES ASSUME NEW j \in 1..Len(l), j % 2 = 0, j < Len(l), l[j] = <<"@">>, l[j + 1] # <<>>
             PROVE  l[j + 1][1] \notin {"M", "T"}
  BY DEF Apart, l, c
<1> DEFINE k == j \div 2
           b == To(s, c, k + 1)
<1>4. k \in 1..m /\ j = 2 * k /\ j + 1 = 2 * (k + 1) - 1 /\ k + 1 \in 1..(m + 1)
  BY <1>1
<1> HIDE DEF k
<1>5. c = <<"@">> /\ f[k] \in Starts(s, c) /\ l[j + 1] = SubSeq(s, From(s, c, k + 1), b)
      /\ From(s, c, k + 1) = f[k] + Len(c) /\ b \in (From(s, c, k + 1) - 1)..n
  BY ONLY <1>1, <1>2, <1>3, <1>4, l[j] = <<"@">>, Zenon
<1>6. p = 3
  <2>1. Token(1) = <<"@", "M">> /\ Token(2) = <<"@", "T">> /\ Token(4) = <<"^">>
    BY DEF Token, ALL_PARAM_TOKENS
  <2>2. p = 1 \/ p = 2 \/ p = 3 \/ p = 4
    OBVIOUS
  <2>3. <<"@", "M">> # <<"@">> /\ <<"@", "T">> # <<"@">> /\ <<"^">> # <<"@">>
    <3>1. <<"@", "M">>[2] = "M" /\ Len(<<"@", "M">>) = 2 /\ Len(<<"@">>) = 1 /\ Len(<<"@", "T">>) = 2
          /\ <<"^">>[1] = "^" /\ <<"@">>[1] = "@" /\ "^" # "@"
      OBVIOUS
    <3> QED
      BY <3>1
  <2> QED
    BY ONLY <1>5, <2>1, <2>2, <2>3, Zenon DEF c
<1> DEFINE x == f[k]
           y == l[j + 1]
<1>7. Len(c) = 1 /\ c[1] = "@"
  BY ONLY <1>5
<1> HIDE DEF c, b, x, y
<1>8. x \in 1..n /\ n \in Nat /\ s[x] = "@"
  <2>1. x \in Starts(s, c)
    BY ONLY <1>5 DEF x
  <2>2. x \in 1..(n - Len(c) + 1) /\ s[x] = c[1]
    BY ONLY <2>1, s \in Seq(Chars), p \in 1..4, StartsAt DEF c
  <2>3. n \in Nat
    OBVIOUS
  <2> QED
    BY ONLY <1>7, <2>2, <2>3
<1>9. y = SubSeq(s, x + 1, b) /\ b \in x..n
  <2>1. From(s, c, k + 1) = x + Len(c)
    BY ONLY <1>5 DEF x
  <2>2. y = SubSeq(s, From(s, c, k + 1), b) /\ b \in (From(s, c, k + 1) - 1)..n
    BY ONLY <1>5 DEF y
  <2>3. From(s, c, k + 1) = x + 1 /\ From(s, c, k + 1) - 1 = x
    BY ONLY <1>7, <1>8, <2>1
  <2> QED
    BY ONLY <2>2, <2>3
<1>10. y # <<>>
  BY ONLY l[j + 1] # <<>> DEF y
<1>11. x + 1 <= n /\ y[1] = s[x + 1]
  <2>1. CASE b = x
    <3>1. SubSeq(s, x + 1, b) = <<>>
      BY <1>8, <2>1, SubSeqEmpty
    <3> QED
      BY ONLY <1>9, <1>10, <3>1
  <2>2. CASE b # x
    <3>1. x + 1 <= b /\ b <= n /\ b \in Nat
      BY <1>8, <1>9, <2>2
    <3>2. SubSeq(s, x + 1, b)[1] = s[x + 1]
      BY ONLY <1>8, <3>1, s \in Seq(Chars) DEF n
    <3> QED
      BY ONLY <1>8, <1>9, <3>1, <3>2
  <2> QED
    BY <2>1, <2>2
<1>12. ASSUME NEW r \in {1, 2}, y[1] = Token(r)[2] PROVE FALSE
  <2>1. r \in 1..4 /\ r \in 1..2 /\ Len(Token(r)) = 2 /\ Token(r)[1] = "@"
    BY DEF Token, ALL_PARAM_TOKENS
  <2>2. x \in 1..(n - Len(Token(r)) + 1)
    BY ONLY <1>8, <1>11, <2>1
  <2>3. x \in Starts(s, Token(r))
    BY ONLY <1>8, <1>11, <1>12, <2>1, <2>2, s \in Seq(Chars), StartsAt DEF n
  <2>4. r \in 1..(p - 1)
    BY ONLY <1>6, <2>1
  <2> QED
    BY ONLY <2>3, <2>4, Free(s, p - 1) DEF Free
<1>13. Token(1)[2] = "M" /\ Token(2)[2] = "T"
  BY DEF Token, ALL_PARAM_TOKENS
<1>14. y[1] \notin {"M", "T"}
  BY ONLY <1>12, <1>13, Zenon
<1> QED
  BY ONLY <1>14 DEF y

(* A list of pieces without tokens before number p, and of such tokens.    *)
Alternates(l, p) == \A j \in 1..Len(l) :
  /\ j % 2 = 1 => Free(l[j], p)
  /\ j % 2 = 0 => \E r \in 1..p : l[j] = Token(r)

LEMMA SplitAlternates ==
  ASSUME NEW s \in Seq(Chars), NEW p \in 1..4, Free(s, p - 1)
  PROVE  Alternates(SplitAndFold(s, Token(p)), p)
<1> DEFINE c == Token(p)
           m == Len(Cuts(s, c))
           l == SplitAndFold(s, c)
<1>1. /\ Len(l) = 2 * m + 1 /\ m \in Nat
      /\ \A k \in 1..(m + 1) : l[2 * k - 1] = SubSeq(s, From(s, c, k), To(s, c, k))
      /\ \A k \in 1..m : l[2 * k] = c
  BY ONLY s \in Seq(Chars), p \in 1..4, SplitIs
<1>2. \A k \in 1..(m + 1) : Free(SubSeq(s, From(s, c, k), To(s, c, k)), p)
  BY ONLY s \in Seq(Chars), p \in 1..4, Free(s, p - 1), PiecesFree
<1> HIDE DEF l, m
<1>3. ASSUME NEW j \in 1..Len(l), j % 2 = 1 PROVE Free(l[j], p)
  <2> DEFINE k == (j + 1) \div 2
  <2>1. k \in 1..(m + 1) /\ j = 2 * k - 1
    BY <1>1, <1>3
  <2> HIDE DEF k
  <2> QED
    BY ONLY <1>1, <1>2, <2>1, Zenon
<1>4. ASSUME NEW j \in 1..Len(l), j % 2 = 0 PROVE \E r \in 1..p : l[j] = Token(r)
  <2> DEFINE k == j \div 2
  <2>1. k \in 1..m /\ j = 2 * k
    BY <1>1, <1>4
  <2>2. p \in 1..p
    OBVIOUS
  <2> HIDE DEF k
  <2> QED
    BY ONLY <1>1, <2>1, <2>2, Zenon DEF c
<1> QED
  BY <1>3, <1>4 DEF Alternates, l, c

LEMMA Parity ==
  /\ \A x, y \in Nat : x % 2 = 0 /\ y % 2 = 1 => (x + y) % 2 = 1 /\ 1 \in 1..y
  /\ \A x \in Nat : x % 2 = 1 => (x + 1) % 2 = 0 /\ x + 1 # 0
  OBVIOUS

LEMMA ListsJoin ==
  ASSUME NEW p \in 1..4,
         NEW u \in Seq(Seq(Chars)), Alternates(u, p), Apart(u), Len(u) % 2 = 0,
         NEW v \in Seq(Seq(Chars)), Alternates(v, p), Apart(v), Len(v) % 2 = 1,
         Len(u) # 0 /\ u[Len(u)] = <<"@">> /\ v[1] # <<>> => v[1][1] \notin {"M", "T"}
  PROVE  Alternates(u \o v, p) /\ Apart(u \o v) /\ Len(u \o v) % 2 = 1
<1> DEFINE a == Len(u)
           b == Len(v)
           w == u \o v
<1>1. /\ a \in Nat /\ b \in Nat /\ a % 2 = 0 /\ b % 2 = 1 /\ Len(w) = a + b
      /\ \A j \in 1..a : w[j] = u[j]
      /\ \A j \in 1..b : w[a + j] = v[j]
  BY ConcatProperties, SMTT(30)
<1> HIDE DEF a, b, w
<1>0. a \in Nat /\ b \in Nat /\ a % 2 = 0 /\ b % 2 = 1 /\ Len(w) = a + b
  BY <1>1
<1>2. ASSUME NEW j \in 1..Len(w), ~ (j <= a)
      PROVE  /\ j - a \in 1..b /\ j = a + (j - a) /\ (j - a) % 2 = j % 2
             /\ w[j] = v[j - a]
  <2>1. j - a \in 1..b /\ j = a + (j - a) /\ (j - a) % 2 = j % 2
    BY ONLY <1>0, <1>2, j \in 1..Len(w)
  <2> QED
    BY <1>1, <2>1
<1>3. ASSUME NEW j \in 1..Len(w)
      PROVE  /\ j % 2 = 1 => Free(w[j], p)
             /\ j % 2 = 0 => \E r \in 1..p : w[j] = Token(r)
  <2>1. CASE j <= a
    <3>1. j \in 1..a
      BY <1>1, <2>1
    <3> QED
      BY ONLY <1>1, <3>1, Alternates(u, p), Zenon DEF Alternates, a
  <2>2. CASE ~ (j <= a)
    BY ONLY <1>2, <2>2, Alternates(v, p), Zenon DEF Alternates, b
  <2> QED
    BY <2>1, <2>2
<1>4. Len(w) % 2 = 1 /\ 1 \in 1..b
  BY ONLY <1>0, Parity, Zenon
<1>5. ASSUME NEW j \in 1..Len(w), j % 2 = 0, j < Len(w), w[j] = <<"@">>, w[j + 1] # <<>>
      PROVE  w[j + 1][1] \notin {"M", "T"}
  <2>1. CASE j < a
    <3>1. j \in 1..a /\ j + 1 \in 1..a
      BY ONLY <1>0, <2>1, j \in 1..Len(w)
    <3> QED
      BY ONLY <1>1, <1>5, <2>1, <3>1, Apart(u), Zenon DEF Apart, a
  <2>2. CASE j = a
    <3>0. j \in Nat /\ j # 0
      OBVIOUS
    <3>1. j \in 1..a /\ 1 \in 1..b /\ a # 0 /\ j + 1 = a + 1
      BY ONLY <1>0, <1>4, <2>2, <3>0
    <3>2. w[j] = u[a] /\ w[j + 1] = v[1]
      BY ONLY <1>1, <2>2, <3>1, Zenon
    <3> QED
      BY ONLY <1>5, <3>1, <3>2, Zenon,
         Len(u) # 0 /\ u[Len(u)] = <<"@">> /\ v[1] # <<>> => v[1][1] \notin {"M", "T"} DEF a
  <2>3. CASE j > a
    <3> DEFINE i == j - a
    <3>1. ~ (j <= a)
      BY ONLY <1>0, <2>3, j \in 1..Len(w)
    <3>2. i \in 1..b /\ i % 2 = 0 /\ w[j] = v[i]
      BY ONLY <1>2, <1>5, <3>1, Zenon
    <3>3. i < b /\ i + 1 \in 1..b /\ j + 1 = a + (i + 1)
      BY ONLY <1>0, <1>5, <2>3, j \in 1..Len(w)
    <3> HIDE DEF i
    <3>4. w[j + 1] = v[i + 1]
      BY ONLY <1>1, <3>3, SMTT(30)
    <3> QED
      BY ONLY <1>5, <3>2, <3>3, <3>4, Apart(v), Zenon DEF Apart, b
  <2> QED
    BY <1>1, <2>1, <2>2, <2>3
<1> QED
  BY ONLY <1>3, <1>5, <1>4, Zenon DEF w, Alternates, Apart

LEMMA TokenJoins ==
  ASSUME NEW p \in 1..4,
         NEW u \in Seq(Seq(Chars)), Alternates(u, p), Apart(u), Len(u) % 2 = 1,
         NEW t \in Seq(Chars), \E r \in 1..p : t = Token(r)
  PROVE  LET w == u \o <<t>>
         IN Alternates(w, p) /\ Apart(w) /\ Len(w) % 2 = 0 /\ Len(w) # 0 /\ w[Len(w)] = t
<1> DEFINE a == Len(u)
           w == u \o <<t>>
<1>1. /\ a \in Nat /\ a % 2 = 1 /\ Len(w) = a + 1
      /\ \A j \in 1..a : w[j] = u[j]
      /\ w[a + 1] = t
  <2>1. <<t>> \in Seq(Seq(Chars)) /\ Len(<<t>>) = 1 /\ <<t>>[1] = t
    OBVIOUS
  <2> QED
    BY ONLY <2>1, u \in Seq(Seq(Chars)), Len(u) % 2 = 1, ConcatProperties
<1> HIDE DEF a, w
<1>2. ASSUME NEW j \in 1..Len(w)
      PROVE  /\ j % 2 = 1 => Free(w[j], p)
             /\ j % 2 = 0 => \E r \in 1..p : w[j] = Token(r)
  <2>1. CASE j <= a
    <3>1. j \in 1..a
      BY <1>1, <2>1
    <3> QED
      BY ONLY <1>1, <3>1, Alternates(u, p), Zenon DEF Alternates, a
  <2>2. CASE ~ (j <= a)
    <3>1. j = a + 1 /\ j % 2 # 1
      BY <1>1, <2>2, SMTT(30)
    <3> QED
      BY ONLY <1>1, <3>1, \E r \in 1..p : t = Token(r), Zenon
  <2> QED
    BY <2>1, <2>2
<1>3. ASSUME NEW j \in 1..Len(w), j % 2 = 0, j < Len(w), w[j] = <<"@">>, w[j + 1] # <<>>
      PROVE  w[j + 1][1] \notin {"M", "T"}
  <2>1. j \in 1..a /\ j + 1 \in 1..a /\ j < a
    BY <1>1, <1>3
  <2> QED
    BY ONLY <1>1, <1>3, <2>1, Apart(u), Zenon DEF Apart, a
<1>4. Len(w) % 2 = 0 /\ Len(w) # 0 /\ w[Len(w)] = t
  <2>1. a \in Nat /\ a % 2 = 1 /\ Len(w) = a + 1
    BY <1>1
  <2>2. Len(w) % 2 = 0 /\ Len(w) # 0
    BY ONLY <2>1, Parity, Zenon
  <2> QED
    BY ONLY <1>1, <2>2, Zenon
<1> QED
  BY ONLY <1>2, <1>3, <1>4, Zenon DEF w, Alternates, Apart

(* What one pass makes of the list of the passes before it.                *)
Entry(l, p, j) == IF l[j] \in {Token(i) : i \in 1..(p - 1)} THEN <<l[j]>>
                  ELSE SplitAndFold(l[j], Token(p))
Entries(l, p) == [j \in DOMAIN l |-> Entry(l, p, j)]

CutUpTo(l, p, q) ==
  /\ l \in Seq(Seq(Chars)) /\ Len(l) % 2 = 1
  /\ Alternates(l, p) /\ Apart(l)
  /\ FlattenSeq(l) = q

LEMMA EntryOf ==
  ASSUME NEW p \in 1..4, NEW l \in Seq(Seq(Chars)), Alternates(l, p - 1), NEW j \in 1..Len(l)
  PROVE  /\ j % 2 = 1 => Entry(l, p, j) = SplitAndFold(l[j], Token(p))
         /\ j % 2 = 0 => Entry(l, p, j) = <<l[j]>> /\ \E r \in 1..p : l[j] = Token(r)
<1>1. CASE j % 2 = 1
  <2>1. Free(l[j], p - 1)
    BY <1>1 DEF Alternates
  <2>2. ASSUME NEW r \in 1..(p - 1) PROVE l[j] # Token(r)
    <3>1. r \in 1..4 /\ Token(r) \in Seq(Chars) /\ Len(Token(r)) \in {1, 2}
      BY TokenIs, SMTT(30)
    <3>2. 1 \in Starts(Token(r), Token(r))
      <4>1. \A n \in {1, 2} : 1 \in 1..(n - n + 1) /\ 1 + 1 = 2
        OBVIOUS
      <4>2. 1 \in 1..(Len(Token(r)) - Len(Token(r)) + 1) /\ 1 + 1 = 2
        BY ONLY <3>1, <4>1, Zenon
      <4> QED
        BY ONLY <3>1, <4>2, StartsAt
    <3> QED
      BY ONLY <2>1, <3>2, r \in 1..(p - 1), Zenon DEF Free
  <2> QED
    BY ONLY <1>1, <2>2 DEF Entry
<1>2. CASE j % 2 = 0
  <2>1. PICK r \in 1..(p - 1) : l[j] = Token(r)
    BY <1>2 DEF Alternates
  <2>2. r \in 1..p
    OBVIOUS
  <2> QED
    BY ONLY <1>2, <2>1, <2>2 DEF Entry
<1>3. j % 2 = 1 \/ j % 2 = 0
  <2>1. \A i \in Nat : i % 2 = 1 \/ i % 2 = 0
    OBVIOUS
  <2>2. j \in Nat
    OBVIOUS
  <2> QED
    BY ONLY <2>1, <2>2, Zenon
<1> QED
  BY ONLY <1>1, <1>2, <1>3

LEMMA PassCuts ==
  ASSUME NEW p \in 1..4, NEW l, NEW q, CutUpTo(l, p - 1, q)
  PROVE  CutUpTo(FlattenSeq(Entries(l, p)), p, q)
<1> DEFINE n == Len(l)
           e == Entries(l, p)
           G(k) == Joined(e, k)
           L == Seq(Seq(Chars))
           Same(k) == /\ G(k) \in L /\ Alternates(G(k), p) /\ Apart(G(k))
                      /\ FlattenSeq(G(k)) = Joined(l, k)
           Odd(k) == k % 2 = 1 => Len(G(k)) % 2 = 1
           Even(k) == k % 2 = 0 => /\ Len(G(k)) % 2 = 0
                                   /\ Len(G(k)) # 0 => k \in 1..n /\ G(k)[Len(G(k))] = l[k]
           Good == {k \in 0..n : Same(k) /\ Odd(k) /\ Even(k)}
<1>1. /\ l \in L /\ n \in Nat /\ n % 2 = 1 /\ DOMAIN l = 1..n
      /\ Alternates(l, p - 1) /\ Apart(l) /\ FlattenSeq(l) = q
      /\ \A k \in 1..n : l[k] \in Seq(Chars)
  BY DEF CutUpTo
<1>2. /\ FlattenSeq(l) = Joined(l, n) /\ Joined(l, 0) = <<>>
      /\ \A k \in 1..n : Joined(l, k) = Joined(l, k - 1) \o l[k]
  BY ONLY <1>1, JoinedStep
<1>3. ASSUME NEW k \in 1..n
      PROVE  /\ e[k] = Entry(l, p, k) /\ e[k] \in L
             /\ k % 2 = 1 \/ k % 2 = 0
             /\ k % 2 = 1 => Free(l[k], p - 1) /\ e[k] = SplitAndFold(l[k], Token(p))
             /\ k % 2 = 0 => e[k] = <<l[k]>> /\ \E r \in 1..p : l[k] = Token(r)
  <2>1. e[k] = Entry(l, p, k)
    BY <1>1 DEF Entries
  <2>2. /\ k % 2 = 1 => Entry(l, p, k) = SplitAndFold(l[k], Token(p))
        /\ k % 2 = 0 => Entry(l, p, k) = <<l[k]>> /\ \E r \in 1..p : l[k] = Token(r)
    BY ONLY <1>1, p \in 1..4, k \in 1..n, EntryOf
  <2>3. SplitAndFold(l[k], Token(p)) \in L
    BY ONLY <1>1, p \in 1..4, k \in 1..n, SplitIs
  <2>4. <<l[k]>> \in L
    BY <1>1
  <2>5. k % 2 = 1 \/ k % 2 = 0
    <3>1. \A i \in Nat : i % 2 = 1 \/ i % 2 = 0
      OBVIOUS
    <3>2. k \in Nat
      OBVIOUS
    <3> QED
      BY ONLY <3>1, <3>2, Zenon
  <2>6. k % 2 = 1 => Free(l[k], p - 1)
    BY ONLY <1>1, k \in 1..n, Zenon DEF Alternates
  <2> QED
    BY ONLY <2>1, <2>2, <2>3, <2>4, <2>5, <2>6, Zenon
<1>4. e \in Seq(L) /\ Len(e) = n
  <2>1. e \in [1..n -> L]
    BY <1>1, <1>3 DEF Entries
  <2>2. n \in Nat
    BY <1>1
  <2> HIDE DEF e, n, L
  <2>3. Len(e) = n
    <3>1. DOMAIN e = 1..n /\ e \in Seq(L)
      BY ONLY <2>1, <2>2, SeqDef
    <3> QED
      BY ONLY <2>2, <3>1, SMT
  <2>4. e \in Seq(L)
    BY ONLY <2>1, <2>2, SeqDef
  <2> QED
    BY ONLY <2>3, <2>4
<1>5. /\ G(0) = <<>> /\ FlattenSeq(e) = G(n)
      /\ \A k \in 1..n : G(k) = G(k - 1) \o e[k]
      /\ \A k \in 0..n : G(k) \in L
  BY ONLY <1>4, JoinedStep
<1> HIDE DEF e, n
<1>6. 0 \in Good
  <2>1. G(0) \in L /\ Len(G(0)) = 0 /\ FlattenSeq(<<>>) = <<>> /\ 0 \in 0..n /\ 0 % 2 = 0
    BY <1>1, <1>5 DEF FlattenSeq
  <2>2. \A j \in 1..0 : FALSE
    OBVIOUS
  <2>3. Same(0)
    BY ONLY <1>2, <1>5, <2>1, <2>2, Zenon DEF Alternates, Apart
  <2> HIDE DEF Same, G
  <2>4. Odd(0) /\ Even(0)
    BY ONLY <2>1
  <2> QED
    BY ONLY <2>1, <2>3, <2>4, Zenon
<1>7. ASSUME NEW k \in 1..n, k - 1 \in Good
      PROVE  k \in Good
  <2> DEFINE u == G(k - 1)
             v == e[k]
  <2>0. /\ Same(k - 1) /\ Odd(k - 1) /\ Even(k - 1)
        /\ k \in 0..n /\ l[k] \in Seq(Chars) /\ k - 1 + 1 = k
    BY <1>1, <1>7
  <2>1. G(k) = u \o v /\ u \in L /\ v \in L
    BY ONLY <1>3, <1>5, <2>0, k \in 1..n, Zenon
  <2>2. FlattenSeq(u) = Joined(l, k - 1) /\ Alternates(u, p) /\ Apart(u)
    BY ONLY <2>0, Zenon
  <2> HIDE DEF v
  <2>3. FlattenSeq(G(k)) = FlattenSeq(u) \o FlattenSeq(v)
    BY ONLY <2>1, FlattenConcat
  <2>4. ASSUME k % 2 = 1 PROVE Same(k) /\ Odd(k) /\ Even(k)
    <3>1. v = SplitAndFold(l[k], Token(p)) /\ Free(l[k], p - 1)
      BY ONLY <1>3, <2>4, k \in 1..n, Zenon DEF v
    <3>2. Alternates(v, p) /\ Apart(v) /\ FlattenSeq(v) = l[k]
      BY ONLY <2>0, <3>1, p \in 1..4, SplitAlternates, SplitApart, SplitWhole
    <3>3. Len(v) % 2 = 1
      <4> DEFINE m == Len(Cuts(l[k], Token(p)))
      <4>1. Len(v) = 2 * m + 1 /\ m \in Nat
        BY ONLY <2>0, <3>1, p \in 1..4, SplitIs
      <4>2. \A i \in Nat : (2 * i + 1) % 2 = 1
        OBVIOUS
      <4> HIDE DEF m
      <4> QED
        BY ONLY <4>1, <4>2, Zenon
    <3>4. (k - 1) % 2 = 0 /\ k % 2 # 0
      <4>1. \A i \in Nat : i % 2 = 1 => (i - 1) % 2 = 0 /\ i % 2 # 0
        OBVIOUS
      <4>2. k \in Nat
        OBVIOUS
      <4> QED
        BY ONLY <2>4, <4>1, <4>2, Zenon
    <3>5. Len(u) % 2 = 0 /\ (Len(u) # 0 => k - 1 \in 1..n /\ u[Len(u)] = l[k - 1])
      BY ONLY <2>0, <3>4, Zenon
    <3>6. Len(u) # 0 /\ u[Len(u)] = <<"@">> /\ v[1] # <<>> => v[1][1] \notin {"M", "T"}
      <4> SUFFICES ASSUME Len(u) # 0, u[Len(u)] = <<"@">>, v[1] # <<>>
                   PROVE  v[1][1] \notin {"M", "T"}
        OBVIOUS
      <4>1. l[k] # <<>> /\ v[1][1] = l[k][1]
        BY ONLY <2>0, <3>1, v[1] # <<>>, p \in 1..4, SplitHead
      <4>2. k - 1 \in 1..n /\ l[k - 1] = <<"@">>
        BY ONLY <3>5, Len(u) # 0, u[Len(u)] = <<"@">>, Zenon
      <4>3. k - 1 < n
        BY ONLY <1>1, k \in 1..n
      <4>4. l[k][1] \notin {"M", "T"}
        BY ONLY <1>1, <2>0, <3>4, <4>1, <4>2, <4>3, Zenon DEF Apart, n
      <4> QED
        BY ONLY <4>1, <4>4, Zenon
    <3> HIDE DEF u, G
    <3>7. Alternates(u \o v, p) /\ Apart(u \o v) /\ Len(u \o v) % 2 = 1
      BY ONLY <2>1, <2>2, <3>2, <3>3, <3>5, <3>6, p \in 1..4, ListsJoin
    <3>8. FlattenSeq(G(k)) = Joined(l, k)
      BY ONLY <1>2, <2>2, <2>3, <3>2, k \in 1..n, Zenon
    <3>9. G(k) \in L
      BY ONLY <1>5, <2>0, Zenon
    <3> QED
      BY ONLY <2>1, <3>4, <3>7, <3>8, <3>9, Zenon
  <2>5. ASSUME k % 2 = 0 PROVE Same(k) /\ Odd(k) /\ Even(k)
    <3>1. v = <<l[k]>> /\ \E r \in 1..p : l[k] = Token(r)
      BY ONLY <1>3, <2>5, k \in 1..n, Zenon DEF v
    <3>2. FlattenSeq(v) = l[k]
      BY ONLY <2>0, <3>1, FlattenOne
    <3>3. (k - 1) % 2 = 1 /\ k % 2 # 1
      <4>1. \A i \in Nat \ {0} : i % 2 = 0 => (i - 1) % 2 = 1 /\ i % 2 # 1
        OBVIOUS
      <4>2. k \in Nat \ {0}
        OBVIOUS
      <4> QED
        BY ONLY <2>5, <4>1, <4>2, Zenon
    <3>4. Len(u) % 2 = 1
      BY ONLY <2>0, <3>3, Zenon
    <3> HIDE DEF u, G
    <3>5. LET w == u \o <<l[k]>>
          IN Alternates(w, p) /\ Apart(w) /\ Len(w) % 2 = 0 /\ Len(w) # 0 /\ w[Len(w)] = l[k]
      BY ONLY <2>0, <2>1, <2>2, <3>1, <3>4, p \in 1..4, TokenJoins
    <3>6. G(k) = u \o <<l[k]>>
      BY ONLY <2>1, <3>1, Zenon
    <3>7. FlattenSeq(G(k)) = Joined(l, k)
      BY ONLY <1>2, <2>2, <2>3, <3>2, k \in 1..n, Zenon
    <3>8. G(k) \in L
      BY ONLY <1>5, <2>0, Zenon
    <3> QED
      BY ONLY <3>3, <3>5, <3>6, <3>7, <3>8, k \in 1..n, Zenon
  <2>6. k % 2 = 1 \/ k % 2 = 0
    BY ONLY <1>3, k \in 1..n, Zenon
  <2> HIDE DEF Same, Odd, Even
  <2> QED
    BY ONLY <2>0, <2>4, <2>5, <2>6, Zenon
<1> HIDE DEF Good
<1>8. n \in Good
  <2>1. \A k \in 0..n : k \in Good
    BY ONLY <1>1, <1>6, <1>7, Adding!IndexInduction
  <2>2. n \in 0..n
    BY <1>1
  <2> QED
    BY ONLY <2>1, <2>2, Zenon
<1>9. Same(n) /\ Odd(n)
  BY ONLY <1>8, Zenon DEF Good
<1> QED
  BY ONLY <1>1, <1>2, <1>5, <1>9, Zenon DEF CutUpTo, e
-----------------------------------------------------------------------------
(* Between two passes of tokenize_query the text is cut at the tokens of   *)
(* the passes done, all four once pass is back at 0.                       *)
PassesDone == IF pass = 0 THEN 4 ELSE pass - 1
CutInv == phase = "text" => CutUpTo(string_list, PassesDone, query)

LEMMA NewTextCut ==
  ASSUME NEW q \in Texts
  PROVE  CutUpTo(<<q>>, 0, q)
<1> DEFINE l == <<q>>
<1>1. q \in Seq(Chars)
  BY DEF Texts, BoundedSeq, SeqOf
<1>2. l \in Seq(Seq(Chars)) /\ Len(l) = 1
  BY <1>1
<1>3. FlattenSeq(l) = q
  BY ONLY <1>1, FlattenOne
<1>4. Alternates(l, 0)
  BY DEF Alternates, Free
<1>5. Apart(l)
  BY DEF Apart
<1> QED
  BY ONLY <1>2, <1>3, <1>4, <1>5 DEF CutUpTo, l

LEMMA CutHolds ==
  ASSUME TableInv, CutInv, [TableNext]_vars
  PROVE  CutInv'
<1>0. pass \in 0..4 /\ Passes = 1..4 /\ Len(ALL_PARAM_TOKENS) = 4
  BY TextTypes DEF TableInv, TextInv
<1>1. CASE AddRow
  <2>1. query' \in Texts /\ string_list' = <<query'>> /\ PassesDone' = 0
    BY <1>1 DEF AddRow, PassesDone
  <2>2. CutUpTo(<<query'>>, 0, query')
    BY ONLY <2>1, NewTextCut
  <2> QED
    BY ONLY <2>1, <2>2, Zenon DEF CutInv
<1>2. CASE Tokenize
  <2>1. phase = "text" /\ pass \in 1..4 /\ query' = query
    BY <1>0, <1>2 DEF Tokenize
  <2>2. string_list' = FlattenSeq(Entries(string_list, pass))
    BY <1>2, Zenon DEF Tokenize, Entries, Entry, Token
  <2>3. PassesDone = pass - 1 /\ PassesDone' = pass
    BY <1>0, <1>2 DEF Tokenize, PassesDone
  <2>4. CutUpTo(string_list, pass - 1, query)
    BY <2>1, <2>3, Zenon DEF CutInv
  <2>5. CutUpTo(FlattenSeq(Entries(string_list, pass)), pass, query)
    BY ONLY <2>1, <2>4, PassCuts
  <2> QED
    BY ONLY <2>1, <2>2, <2>3, <2>5, Zenon DEF CutInv
<1>3. CASE Parse \/ StartPeriod \/ Around \/ \E x \in Parts : Draw(x)
  <2>1. phase' # "text"
    BY <1>3, AroundIs DEF Parse, StartPeriod, Draw
  <2> QED
    BY ONLY <2>1 DEF CutInv
<1>4. CASE UNCHANGED vars
  <2>1. phase' = phase /\ pass' = pass /\ query' = query /\ string_list' = string_list
    BY <1>4 DEF vars, tableVars, textVars
  <2> QED
    BY ONLY <2>1, CutInv, Zenon DEF CutInv, PassesDone
<1> QED
  BY <1>1, <1>2, <1>3, <1>4 DEF TableNext, Around, Parts

(* A text without a token has no special character.                        *)
LEMMA NoneSpecial ==
  ASSUME NEW s \in Seq(Chars), Free(s, 4)
  PROVE  ToSet(s) \cap Special = {}
<1>1. Starts(s, Token(3)) = {} /\ Starts(s, Token(4)) = {}
  BY DEF Free
<1>2. Len(Token(3)) = 1 /\ Token(3)[1] = "@" /\ Len(Token(4)) = 1 /\ Token(4)[1] = "^"
  BY DEF Token, ALL_PARAM_TOKENS
<1>3. ASSUME NEW i \in 1..Len(s) PROVE s[i] \notin Special
  <2>1. ASSUME NEW p \in 1..4, NEW c, Len(Token(p)) = 1, Token(p)[1] = c
        PROVE  i \notin Starts(s, Token(p)) => s[i] # c
    <3>1. i \in 1..(Len(s) - 1 + 1) /\ 1 # 2
      OBVIOUS
    <3>2. i \in 1..(Len(s) - Len(Token(p)) + 1) /\ Len(Token(p)) # 2
      BY ONLY <2>1, <3>1, Zenon
    <3>3. s \in Seq(Chars) /\ p \in 1..4
      OBVIOUS
    <3> QED
      BY ONLY <2>1, <3>2, <3>3, StartsAt, Zenon
  <2>2. i \notin Starts(s, Token(3)) => s[i] # "@"
    BY ONLY <1>2, <2>1, 3 \in 1..4
  <2>3. i \notin Starts(s, Token(4)) => s[i] # "^"
    BY ONLY <1>2, <2>1, 4 \in 1..4
  <2> QED
    BY ONLY <1>1, <2>2, <2>3, Zenon DEF Special
<1>4. DOMAIN s = 1..Len(s)
  OBVIOUS
<1> QED
  BY <1>3, <1>4 DEF ToSet

(* query_table.py 18, "ordered very specifically": whatever the text, it   *)
(* is cut at the longest tokens, nothing of it is lost, and no token is    *)
(* left inside a piece.                                                    *)
THEOREM TokensLongest == TableSpec => []TokensAreLongest
<1>1. TableInit => CutInv
  BY DEF TableInit, CutInv
<1>2. ASSUME CutInv, phase = "text", pass = 0
      PROVE  TokensAreLongest
  <2> DEFINE l == string_list
  <2>1. CutUpTo(l, 4, query)
    BY <1>2 DEF CutInv, PassesDone
  <2>2. /\ l \in Seq(Seq(Chars)) /\ DOMAIN l = 1..Len(l)
        /\ Alternates(l, 4) /\ Apart(l) /\ FlattenSeq(l) = query
    BY <2>1 DEF CutUpTo
  <2>3. ASSUME NEW j \in 1..Len(l)
        PROVE  /\ j % 2 = 1 => ToSet(l[j]) \cap Special = {}
               /\ j % 2 = 0 => l[j] \in ToSet(ALL_PARAM_TOKENS)
               /\ l[j] = <<"@">> /\ l[j + 1] # <<>> => Head(l[j + 1]) \notin {"M", "T"}
    <3>1. l[j] \in Seq(Chars) /\ (j % 2 = 1 \/ j % 2 = 0)
      BY <2>2
    <3>2. CASE j % 2 = 1
      <4>1. ToSet(l[j]) \cap Special = {}
        BY <2>2, <3>1, <3>2, NoneSpecial DEF Alternates
      <4>2. "@" \in ToSet(<<"@">>) /\ "@" \in Special
        BY DEF ToSet, Special
      <4> QED
        BY <3>2, <4>1, <4>2
    <3>3. CASE j % 2 = 0
      <4>1. PICK r \in 1..4 : l[j] = Token(r)
        BY <2>2, <3>3 DEF Alternates
      <4>2. l[j] \in ToSet(ALL_PARAM_TOKENS)
        BY <4>1 DEF Token, ToSet, ALL_PARAM_TOKENS
      <4>3. j < Len(l)
        <5>1. Len(l) % 2 = 1
          BY <2>1, Zenon DEF CutUpTo
        <5>2. j # Len(l)
          BY ONLY <3>3, <5>1
        <5>3. l \in Seq(Seq(Chars))
          BY ONLY <2>2, Zenon
        <5> QED
          BY ONLY <5>2, <5>3, j \in 1..Len(l)
      <4>4. l[j + 1] \in Seq(Chars)
        BY <2>2, <4>3
      <4>5. l[j] = <<"@">> /\ l[j + 1] # <<>> => l[j + 1][1] \notin {"M", "T"}
        BY ONLY <2>2, <3>3, <4>3, j \in 1..Len(l), Zenon DEF Apart
      <4>6. l[j + 1] # <<>> => Head(l[j + 1]) = l[j + 1][1]
        BY ONLY <4>4
      <4> QED
        BY ONLY <3>3, <4>2, <4>5, <4>6
    <3> QED
      BY ONLY <3>1, <3>2, <3>3
  <2> QED
    BY ONLY <2>2, <2>3, Zenon DEF TokensAreLongest, l
<1>3. CutInv => TokensAreLongest
  BY <1>2 DEF TokensAreLongest
<1>4. TableInv /\ CutInv /\ [TableNext]_vars => CutInv'
  BY CutHolds
<1> QED
  BY <1>1, <1>3, <1>4, TableInvHolds, PTL DEF TableSpec
=============================================================================
