--------------------------- MODULE LiveModeProofs ---------------------------
(* The rounds of the collector and the widgets of the page, for any plans  *)
(* and any number of widgets.                                              *)
EXTENDS LiveMode, FiniteSetTheorems, TLAPS

(* What the lock protects: outside of it prev_pc accounts for every row of *)
(* the last round, and inside for every row but those still to be written. *)
Accounted(q) == q \in DOMAIN prev /\ prev[q] = rows[q]

RoundInv ==
  /\ stage \in {"none", "sleep", "lock", "write", "dead"}
  /\ stage \in {"none", "sleep", "dead"} => \A q \in DOMAIN rows : Accounted(q)
  /\ stage = "write" => \A q \in DOMAIN rows \ todo : Accounted(q)

LEMMA RoundInit == LiveInit => RoundInv
  BY DEF LiveInit, RoundInv, Empty

LEMMA RoundStep == RoundInv /\ [LiveNext]_vars => RoundInv'
<1> SUFFICES ASSUME RoundInv, [LiveNext]_vars PROVE RoundInv'
  OBVIOUS
<1> USE DEF RoundInv, Accounted
<1>1. CASE UNCHANGED <<stage, rows, todo, prev>>
  BY <1>1
<1>2. CASE Query
  BY <1>2 DEF Query
<1>3. CASE QueryFails
  BY <1>3 DEF QueryFails, Empty
<1>4. CASE Acquire
  BY <1>4 DEF Acquire
<1>5. CASE WriteRow
  <2>1. PICK q \in todo : todo' = todo \ {q} /\ prev' = With(prev, q, rows[q])
    BY <1>5 DEF WriteRow
  <2> DEFINE new == With(prev, q, rows[q])
  <2>2. /\ DOMAIN new = DOMAIN prev \cup {q}
        /\ new[q] = rows[q]
        /\ \A r \in DOMAIN prev \ {q} : new[r] = prev[r]
    BY DEF With
  <2>3. prev' = new
    BY <2>1
  <2> HIDE DEF new
  <2>4. \A r \in DOMAIN rows \ todo' : Accounted(r)'
    <3> SUFFICES ASSUME NEW r \in DOMAIN rows, r \notin todo'
                 PROVE  r \in DOMAIN prev' /\ prev'[r] = rows[r]
      BY <1>5 DEF WriteRow
    <3>1. CASE r = q
      BY <2>2, <2>3, <3>1
    <3>2. CASE r # q
      BY <1>5, <2>1, <2>2, <2>3, <3>2 DEF WriteRow
    <3> QED
      BY <3>1, <3>2
  <2> QED
    BY <1>5, <2>4 DEF WriteRow
<1>6. CASE Release
  BY <1>6 DEF Release
<1>7. CASE Launch
  BY <1>7 DEF Launch
<1> QED
  BY <1>1, <1>2, <1>3, <1>4, <1>5, <1>6, <1>7 DEF LiveNext, Collect, List, Execute, Drop,
     CopyStats, Broken, SettingsUpdated, NoAnswer, OnWorkloadReceive, ClickResort,
     vars, collectorVars, pageVars

LEMMA CopiedOutsideTheLock ==
  ASSUME [LiveNext]_vars, page = "asking", page' = "half"
  PROVE  stage \notin {"none", "dead", "write"}
  BY DEF LiveNext, Collect, Query, QueryFails, Acquire, WriteRow, Release, Launch, List,
     Execute, Drop, CopyStats, Broken, SettingsUpdated, NoAnswer, OnWorkloadReceive,
     ClickResort, vars, collectorVars, pageVars

(* The page is sent whole rounds, however the collector's rows and the     *)
(* server's copies interleave.                                             *)
THEOREM WholeRounds == LiveSpec => SnapshotIsARound
<1>1. LiveSpec => []RoundInv
  BY RoundInit, RoundStep, PTL DEF LiveSpec
<1>2. RoundInv /\ [LiveNext]_vars
        => [page = "asking" /\ page' = "half" =>
              stage = "lock" \/ \A q \in DOMAIN rows : q \in DOMAIN prev /\ prev[q] = rows[q]]_vars
  BY CopiedOutsideTheLock DEF RoundInv, Accounted
<1> QED
  BY <1>1, <1>2, PTL DEF LiveSpec, SnapshotIsARound
-----------------------------------------------------------------------------
(* onWorkloadReceive, a tuple at a time: WidgetsAfter(tuples, w, k) is what *)
(* the first k tuples make of the widgets w.                               *)
Widget(q, w) == IF q \in w.shown \/ w.n >= MAX_QUERIES THEN w
                ELSE [shown |-> w.shown \cup {q}, n |-> w.n + 1]
Latest(S) == Max(S)
Showing == INSTANCE FoldLaws WITH op <- Widget, choose <- Latest

WidgetsAfter(tuples, w, k) == Showing!Fold(w, tuples, 1..k)

LEMMA WidgetsFold ==
  ASSUME NEW tuples, DOMAIN tuples = 1..Len(tuples), NEW w,
         w = [shown |-> w.shown, n |-> w.n]
  PROVE  Widgets(tuples, w.shown, w.n) = WidgetsAfter(tuples, w, Len(tuples))
  BY DEF Widgets, FoldLeft, MapThenFoldSet, WidgetsAfter, Showing!Fold,
         Showing!MapThenFoldSet, Widget, Latest

LEMMA IndicesFinite == ASSUME NEW n \in Nat PROVE Showing!IsFiniteSet(1..n)
<1>1. IsFiniteSet(1..n)
  BY FS_Interval
<1>2. Showing!IsFiniteSet(1..n) <=> IsFiniteSet(1..n)
  BY DEF IsFiniteSet, Showing!IsFiniteSet
<1> QED
  BY <1>1, <1>2

LEMMA HasGreatest ==
  ASSUME NEW n \in Nat, NEW S \in SUBSET (1..n), S # {}
  PROVE  \E x \in S : \A y \in S : x >= y
<1> DEFINE Good == {T \in SUBSET (1..n) : T # {} => \E x \in T : \A y \in T : x >= y}
<1>1. ASSUME NEW T \in SUBSET (1..n), \A U \in SUBSET T : U # T => U \in Good, T # {}
      PROVE  \E x \in T : \A y \in T : x >= y
  <2>1. PICK t \in T : TRUE
    BY <1>1
  <2>2. CASE T \ {t} = {}
    BY <2>1, <2>2
  <2>3. CASE T \ {t} # {}
    <3>1. PICK x \in T \ {t} : \A y \in T \ {t} : x >= y
      BY <1>1, <2>1, <2>3
    <3>2. CASE x >= t
      BY <3>1, <3>2
    <3>3. CASE ~ (x >= t)
      BY <3>1, <3>3
    <3> QED
      BY <3>2, <3>3
  <2> QED
    BY <2>2, <2>3
<1>2. \A T \in SUBSET (1..n) : (\A U \in SUBSET T : U # T => U \in Good) => T \in Good
  BY <1>1
<1>3. Showing!IsFiniteSet(1..n)
  BY IndicesFinite
<1> HIDE DEF Good
<1>4. \A T \in SUBSET (1..n) : T \in Good
  BY ONLY <1>2, <1>3, Showing!SetInduction
<1> QED
  BY <1>4 DEF Good

LEMMA TuplesChosen ==
  ASSUME NEW n \in Nat
  PROVE  /\ Showing!IsFiniteSet(1..n) /\ Showing!Chooses(1..n)
         /\ n # 0 => Latest(1..n) = n
<1>1. Showing!IsFiniteSet(1..n)
  BY IndicesFinite
<1>2. ASSUME NEW T \in SUBSET (1..n), T # {}
      PROVE  Latest(T) \in T
  BY <1>2, HasGreatest DEF Latest, Max
<1>3. ASSUME n # 0 PROVE Latest(1..n) = n
  <2> DEFINE m == Latest(1..n)
  <2>1. m \in 1..n /\ \A y \in 1..n : m >= y
    BY <1>3, HasGreatest DEF Latest, Max
  <2> HIDE DEF m
  <2>2. m = n
    BY <1>3, <2>1
  <2> QED
    BY <2>2 DEF m
<1> QED
  BY <1>1, <1>2, <1>3 DEF Showing!Chooses

LEMMA WidgetsStep ==
  ASSUME NEW tuples, NEW w
  PROVE  /\ WidgetsAfter(tuples, w, 0) = w
         /\ \A k \in Nat \ {0} :
              WidgetsAfter(tuples, w, k) = Widget(tuples[k], WidgetsAfter(tuples, w, k - 1))
<1>1. WidgetsAfter(tuples, w, 0) = w
  <2>1. 1..0 = {}
    OBVIOUS
  <2> QED
    BY <2>1, Showing!FoldEmpty DEF WidgetsAfter
<1>2. ASSUME NEW k \in Nat \ {0}
      PROVE  WidgetsAfter(tuples, w, k) = Widget(tuples[k], WidgetsAfter(tuples, w, k - 1))
  <2>1. Showing!IsFiniteSet(1..k) /\ Showing!Chooses(1..k) /\ Latest(1..k) = k
    BY TuplesChosen
  <2>2. 1..k # {} /\ (1..k) \ {k} = 1..(k - 1)
    OBVIOUS
  <2>3. Showing!Fold(w, tuples, 1..k)
          = Widget(tuples[Latest(1..k)], Showing!Fold(w, tuples, (1..k) \ {Latest(1..k)}))
    BY ONLY <2>1, <2>2, Showing!FoldStep
  <2> QED
    BY <2>1, <2>2, <2>3 DEF WidgetsAfter
<1> QED
  BY <1>1, <1>2

(* What holds of the widgets v after k tuples, in the order of the tuples: *)
(* they are counted, and a plan is left out only when there are as many    *)
(* as the page takes.                                                      *)
Counted(w) == /\ IsFiniteSet(w.shown) /\ w.n = Cardinality(w.shown)
              /\ w.n \in 0..MAX_QUERIES
Tuples(tuples, k) == {tuples[i] : i \in 1..k}
WidgetsKept(tuples, w, k, v) ==
  /\ v = [shown |-> v.shown, n |-> v.n]
  /\ Counted(v)
  /\ v.shown \subseteq w.shown \cup Tuples(tuples, k)
  /\ Tuples(tuples, k) \subseteq v.shown \/ v.n = MAX_QUERIES

(* Of fresh widgets: no plan is shown that came after one left out.        *)
FirstServed(tuples, k, v) ==
  \A i, j \in 1..k : tuples[i] \notin v.shown /\ tuples[j] \in v.shown => j < i

LEMMA WidgetAdded ==
  ASSUME NEW q, NEW w, w = [shown |-> w.shown, n |-> w.n], Counted(w)
  PROVE  /\ Widget(q, w) = [shown |-> Widget(q, w).shown, n |-> Widget(q, w).n]
         /\ Counted(Widget(q, w))
         /\ \/ Widget(q, w) = w /\ (q \in w.shown \/ w.n = MAX_QUERIES)
            \/ /\ Widget(q, w).shown = w.shown \cup {q}
               /\ q \notin w.shown /\ w.n # MAX_QUERIES
<1>1. MAX_QUERIES \in Nat
  BY LiveAssumption
<1>2. CASE q \in w.shown \/ w.n >= MAX_QUERIES
  <2>1. Widget(q, w) = w
    BY <1>2 DEF Widget
  <2>2. q \in w.shown \/ w.n = MAX_QUERIES
    BY <1>1, <1>2 DEF Counted
  <2> QED
    BY <2>1, <2>2
<1>3. CASE ~ (q \in w.shown \/ w.n >= MAX_QUERIES)
  <2>1. Widget(q, w) = [shown |-> w.shown \cup {q}, n |-> w.n + 1]
    BY <1>3 DEF Widget
  <2>2. /\ IsFiniteSet(w.shown \cup {q})
        /\ Cardinality(w.shown \cup {q}) = Cardinality(w.shown) + 1
    BY <1>3, FS_AddElement DEF Counted
  <2>3. w.n + 1 \in 0..MAX_QUERIES /\ w.n # MAX_QUERIES
    BY <1>1, <1>3 DEF Counted
  <2> QED
    BY <1>3, <2>1, <2>2, <2>3 DEF Counted
<1> QED
  BY <1>2, <1>3

LEMMA WidgetsHold ==
  ASSUME NEW tuples, NEW n \in Nat,
         NEW w, w = [shown |-> w.shown, n |-> w.n], Counted(w)
  PROVE  \A k \in 0..n : WidgetsKept(tuples, w, k, WidgetsAfter(tuples, w, k))
<1> DEFINE V(k) == WidgetsAfter(tuples, w, k)
           Good == {k \in 0..n : WidgetsKept(tuples, w, k, V(k))}
<1>1. 0 \in Good
  BY WidgetsStep DEF WidgetsKept, Tuples
<1>2. ASSUME NEW k \in 1..n, k - 1 \in Good
      PROVE  k \in Good
  <2>0. k \in Nat \ {0}
    OBVIOUS
  <2>1. V(k) = Widget(tuples[k], V(k - 1))
    BY ONLY <2>0, WidgetsStep
  <2>2. WidgetsKept(tuples, w, k - 1, V(k - 1))
    BY <1>2
  <2>3. Tuples(tuples, k) = Tuples(tuples, k - 1) \cup {tuples[k]}
    BY DEF Tuples
  <2> HIDE DEF V
  <2>4. WidgetsKept(tuples, w, k, V(k))
    <3> DEFINE u == V(k - 1)
    <3>1. /\ u = [shown |-> u.shown, n |-> u.n] /\ Counted(u)
          /\ u.shown \subseteq w.shown \cup Tuples(tuples, k - 1)
          /\ Tuples(tuples, k - 1) \subseteq u.shown \/ u.n = MAX_QUERIES
      BY <2>2 DEF WidgetsKept
    <3> HIDE DEF u
    <3>2. /\ V(k) = [shown |-> V(k).shown, n |-> V(k).n]
          /\ Counted(V(k))
          /\ \/ V(k) = u /\ (tuples[k] \in u.shown \/ u.n = MAX_QUERIES)
             \/ /\ V(k).shown = u.shown \cup {tuples[k]}
                /\ tuples[k] \notin u.shown /\ u.n # MAX_QUERIES
      BY ONLY <2>1, <3>1, WidgetAdded DEF u
    <3> QED
      BY <2>3, <3>1, <3>2 DEF WidgetsKept
  <2> QED
    BY <2>4
<1> HIDE DEF Good
<1>3. \A k \in 0..n : k \in Good
  BY ONLY <1>1, <1>2, n \in Nat, Showing!IndexInduction
<1> QED
  BY <1>3 DEF Good

LEMMA FirstComeFirstServed ==
  ASSUME NEW tuples, NEW n \in Nat,
         \A i, j \in 1..n : i # j => tuples[i] # tuples[j],
         NEW w, w = [shown |-> {}, n |-> 0]
  PROVE  \A k \in 0..n : FirstServed(tuples, k, WidgetsAfter(tuples, w, k))
<1> DEFINE V(k) == WidgetsAfter(tuples, w, k)
           Good == {k \in 0..n : FirstServed(tuples, k, V(k))}
<1>0. Counted(w) /\ w = [shown |-> w.shown, n |-> w.n]
  BY LiveAssumption, FS_EmptySet DEF Counted
<1>1. 0 \in Good
  BY DEF FirstServed
<1>2. ASSUME NEW k \in 1..n, k - 1 \in Good
      PROVE  k \in Good
  <2> DEFINE u == V(k - 1)
  <2>0. k \in Nat \ {0} /\ k - 1 \in 0..n /\ n \in Nat
    OBVIOUS
  <2>1. V(k) = Widget(tuples[k], u)
    BY ONLY <2>0, WidgetsStep
  <2>2. WidgetsKept(tuples, w, k - 1, u)
    BY ONLY <1>0, <2>0, WidgetsHold
  <2>3. FirstServed(tuples, k - 1, u)
    BY <1>2
  <2>4. tuples[k] \notin u.shown
    <3>1. \A i \in 1..(k - 1) : tuples[i] # tuples[k]
      OBVIOUS
    <3>2. u.shown \subseteq Tuples(tuples, k - 1)
      BY <2>2 DEF WidgetsKept
    <3> QED
      BY <3>1, <3>2 DEF Tuples
  <2> HIDE DEF V, u
  <2>5. \/ V(k) = u
        \/ V(k).shown = u.shown \cup {tuples[k]} /\ u.n # MAX_QUERIES
    BY <2>1, <2>2, WidgetAdded DEF WidgetsKept
  <2>6. ASSUME NEW i \in 1..k, NEW j \in 1..k,
               tuples[i] \notin V(k).shown, tuples[j] \in V(k).shown
        PROVE  j < i
    <3>1. CASE V(k) = u
      <4>1. j # k
        BY <2>4, <2>6, <3>1
      <4>2. CASE i = k
        BY <4>1, <4>2
      <4>3. CASE i # k
        BY <2>3, <2>6, <3>1, <4>1, <4>3 DEF FirstServed
      <4> QED
        BY <4>2, <4>3
    <3>2. CASE V(k).shown = u.shown \cup {tuples[k]} /\ u.n # MAX_QUERIES
      <4>1. i # k /\ tuples[i] \notin u.shown
        BY <2>6, <3>2
      <4>2. tuples[i] \in Tuples(tuples, k - 1)
        BY <4>1 DEF Tuples
      <4> QED
        BY <2>2, <3>2, <4>1, <4>2 DEF WidgetsKept
    <3> QED
      BY <2>5, <3>1, <3>2
  <2>7. FirstServed(tuples, k, V(k))
    BY <2>6 DEF FirstServed
  <2> QED
    BY <2>7
<1> HIDE DEF Good
<1>3. \A k \in 0..n : k \in Good
  BY ONLY <1>1, <1>2, n \in Nat, Showing!IndexInduction
<1> QED
  BY <1>3 DEF Good
-----------------------------------------------------------------------------
LEMMA PartialIs ==
  ASSUME NEW S, NEW f
  PROVE  f \in Partial(S) <=> DOMAIN f \subseteq Queries /\ f \in [DOMAIN f -> S]
  BY DEF Partial

LEMMA PartialMade ==
  ASSUME NEW S, NEW f \in Partial(S), NEW q \in Queries, NEW v \in S
  PROVE  With(f, q, v) \in Partial(S)
<1>1. DOMAIN f \cup {q} \subseteq Queries
  BY PartialIs
<1>2. With(f, q, v) \in [DOMAIN f \cup {q} -> S]
  BY PartialIs DEF With
<1> QED
  BY <1>1, <1>2 DEF Partial

LEMMA EmptyPartial == ASSUME NEW S PROVE Empty \in Partial(S) /\ DOMAIN Empty = {}
<1>1. Empty \in [{} -> S] /\ DOMAIN Empty = {}
  BY DEF Empty
<1> QED
  BY <1>1 DEF Partial

(* Besides the types: no rows are left when the collector has the lock no  *)
(* more, and the widgets are counted.                                      *)
CollectorTyped ==
  /\ execs \in Counts /\ rows \in Counts /\ prev \in Counts
  /\ stage \in {"none", "sleep", "lock", "write", "dead"}
  /\ todo \subseteq DOMAIN rows
  /\ stage # "write" => todo = {}
  /\ stats \in Rates
PageTyped ==
  /\ page \in {"asking", "half", "waiting", "stopped"}
  /\ copy \in Rates /\ dial \in Rates
  /\ resort \in BOOLEAN
  /\ count \in 0..MAX_QUERIES

LiveInv == CollectorTyped /\ PageTyped /\ WidgetsCounted

LEMMA LiveInvInit == LiveInit => LiveInv
<1> SUFFICES ASSUME LiveInit PROVE LiveInv
  OBVIOUS
<1>1. CollectorTyped
  BY EmptyPartial DEF LiveInit, CollectorTyped, Counts, Rates
<1>2. PageTyped
  <2>1. MAX_QUERIES \in Nat
    BY LiveAssumption
  <2>2. count = 0 /\ count \in 0..MAX_QUERIES
    BY <2>1 DEF LiveInit
  <2>3. copy \in Rates /\ dial \in Rates
    BY EmptyPartial DEF LiveInit, Rates
  <2> QED
    BY <2>2, <2>3 DEF LiveInit, PageTyped
<1>3. WidgetsCounted
  <2>1. count = 0 /\ DOMAIN dial = {}
    BY EmptyPartial DEF LiveInit
  <2> QED
    BY ONLY <2>1, FS_EmptySet DEF WidgetsCounted
<1> QED
  BY <1>1, <1>2, <1>3 DEF LiveInv

LEMMA CollectorHolds ==
  ASSUME CollectorTyped, [LiveNext]_vars
  PROVE  CollectorTyped'
<1> USE DEF CollectorTyped
<1>1. CASE UNCHANGED <<execs, collectorVars>>
  BY <1>1 DEF collectorVars
<1>2. ASSUME NEW q \in Queries, List(q) PROVE CollectorTyped'
  BY <1>2, LiveAssumption, PartialMade DEF List, Counts, collectorVars
<1>3. ASSUME NEW q \in Queries, Execute(q) PROVE CollectorTyped'
  <2>1. DOMAIN execs \subseteq Queries /\ execs \in [DOMAIN execs -> 0..MaxExecs]
    BY PartialIs DEF Counts
  <2>2. execs' \in [DOMAIN execs -> 0..MaxExecs]
    BY <1>3, <2>1, LiveAssumption DEF Execute
  <2>3. execs' \in Counts
    BY <2>1, <2>2 DEF Counts, Partial
  <2> QED
    BY <1>3, <2>3 DEF Execute, collectorVars
<1>4. ASSUME NEW q \in Queries, Drop(q) PROVE CollectorTyped'
  <2>1. DOMAIN execs \subseteq Queries /\ execs \in [DOMAIN execs -> 0..MaxExecs]
    BY PartialIs DEF Counts
  <2>2. execs' \in [DOMAIN execs \ {q} -> 0..MaxExecs] /\ DOMAIN execs \ {q} \subseteq Queries
    BY <1>4, <2>1 DEF Drop, Restrict
  <2>3. execs' \in Counts
    BY <2>2 DEF Counts, Partial
  <2> QED
    BY <1>4, <2>3 DEF Drop, collectorVars
<1>5. CASE Query
  BY <1>5 DEF Query
<1>6. CASE QueryFails
  BY <1>6, EmptyPartial DEF QueryFails, Counts
<1>7. CASE Acquire
  BY <1>7 DEF Acquire
<1>8. CASE WriteRow
  <2>1. PICK q \in todo :
          /\ todo' = todo \ {q}
          /\ stats' = IF Moved(q) THEN With(stats, q, rows[q] - prev[q]) ELSE stats
          /\ prev' = With(prev, q, rows[q])
    BY <1>8 DEF WriteRow
  <2>2. q \in Queries /\ rows[q] \in 0..MaxExecs
    BY PartialIs DEF Counts
  <2>3. prev' \in Counts
    BY <2>1, <2>2, PartialMade DEF Counts
  <2>4. stats' \in Rates
    <3>1. CASE Moved(q)
      <4>1. prev[q] \in 0..MaxExecs /\ MaxExecs \in Nat
        BY <3>1, PartialIs, LiveAssumption DEF Moved, Counts
      <4>2. rows[q] - prev[q] \in -MaxExecs..MaxExecs
        BY <2>2, <4>1
      <4> QED
        BY <2>1, <2>2, <3>1, <4>2, PartialMade DEF Rates
    <3>2. CASE ~ Moved(q)
      BY <2>1, <3>2
    <3> QED
      BY <3>1, <3>2
  <2> QED
    BY <1>8, <2>1, <2>3, <2>4 DEF WriteRow
<1>9. CASE Release
  BY <1>9 DEF Release
<1>10. CASE Launch
  BY <1>10 DEF Launch
<1> QED
  BY <1>1, <1>2, <1>3, <1>4, <1>5, <1>6, <1>7, <1>8, <1>9, <1>10
     DEF LiveNext, Collect, CopyStats, Broken, SettingsUpdated, NoAnswer,
         OnWorkloadReceive, ClickResort, vars

(* The tuples are the plans of the copy, each once.                        *)
LEMMA TuplesOfCopy ==
  ASSUME NEW f \in Rates, NEW tuples \in SetToSeqs(DOMAIN f)
  PROVE  /\ Len(tuples) \in Nat /\ DOMAIN tuples = 1..Len(tuples)
         /\ \A i, j \in 1..Len(tuples) : i # j => tuples[i] # tuples[j]
         /\ Tuples(tuples, Len(tuples)) = DOMAIN f
<1> DEFINE S == DOMAIN f
           n == Cardinality(S)
<1>1. S \subseteq Queries
  BY PartialIs DEF Rates
<1>2. IsFiniteSet(S) /\ n \in Nat
  BY <1>1, LiveAssumption, FS_Subset, FS_CardinalityType
<1>3. tuples \in [1..n -> S] /\ \A i, j \in 1..n : i # j => tuples[i] # tuples[j]
  BY DEF SetToSeqs
<1> HIDE DEF S, n
<1>4. Len(tuples) = n /\ DOMAIN tuples = 1..n
  BY <1>2, <1>3
<1>5. tuples \in Injection(1..n, S)
  BY <1>3 DEF Injection, IsInjective
<1>6. Cardinality(1..n) = Cardinality(S)
  BY <1>2, FS_Interval DEF n
<1>7. tuples \in Surjection(1..n, S)
  BY <1>2, <1>5, <1>6, FS_Injection
<1>8. Tuples(tuples, n) = S
  BY <1>3, <1>7 DEF Tuples, Surjection
<1> QED
  BY <1>2, <1>3, <1>4, <1>8 DEF S

(* What onWorkloadReceive makes of the widgets.                            *)
LEMMA Received ==
  ASSUME LiveInv, OnWorkloadReceive
  PROVE  \E tuples \in SetToSeqs(DOMAIN copy) :
           LET w == WidgetsAfter(tuples, Cleared, Len(tuples))
           IN /\ Sorted(tuples)
              /\ Cleared = [shown |-> Cleared.shown, n |-> Cleared.n] /\ Counted(Cleared)
              /\ WidgetsKept(tuples, Cleared, Len(tuples), w)
              /\ dial' = [q \in w.shown |-> IF q \in DOMAIN copy THEN copy[q] ELSE dial[q]]
              /\ count' = w.n
<1>1. PICK tuples \in SetToSeqs(DOMAIN copy) :
        /\ Sorted(tuples)
        /\ LET w == Widgets(tuples, Cleared.shown, Cleared.n)
           IN /\ dial' = [q \in w.shown |-> IF q \in DOMAIN copy THEN copy[q] ELSE dial[q]]
              /\ count' = w.n
  BY DEF OnWorkloadReceive
<1>2. Cleared = [shown |-> Cleared.shown, n |-> Cleared.n]
  BY DEF Cleared
<1>3. Counted(Cleared)
  <2>1. CASE resort
    BY <2>1, LiveAssumption, FS_EmptySet DEF Cleared, Counted
  <2>2. CASE ~ resort
    <3>1. DOMAIN dial \subseteq Queries
      BY PartialIs DEF LiveInv, PageTyped, Rates
    <3>2. IsFiniteSet(DOMAIN dial)
      BY <3>1, LiveAssumption, FS_Subset
    <3> QED
      BY <2>2, <3>2 DEF Cleared, Counted, LiveInv, PageTyped, WidgetsCounted
  <2> QED
    BY <2>1, <2>2
<1>4. copy \in Rates
  BY DEF LiveInv, PageTyped
<1>5. Len(tuples) \in Nat /\ DOMAIN tuples = 1..Len(tuples)
  BY <1>4, TuplesOfCopy
<1>6. Widgets(tuples, Cleared.shown, Cleared.n) = WidgetsAfter(tuples, Cleared, Len(tuples))
  BY ONLY <1>2, <1>5, WidgetsFold
<1>7. WidgetsKept(tuples, Cleared, Len(tuples), WidgetsAfter(tuples, Cleared, Len(tuples)))
  <2>1. Len(tuples) \in 0..Len(tuples)
    BY <1>5
  <2> QED
    BY ONLY <1>2, <1>3, <1>5, <2>1, WidgetsHold
<1> QED
  BY <1>1, <1>2, <1>3, <1>6, <1>7

LEMMA PageHolds ==
  ASSUME LiveInv, [LiveNext]_vars
  PROVE  PageTyped' /\ WidgetsCounted'
<1> USE DEF PageTyped, WidgetsCounted
<1>0. PageTyped /\ WidgetsCounted /\ stats \in Rates
  BY DEF LiveInv, CollectorTyped
<1>1. CASE UNCHANGED pageVars
  BY <1>0, <1>1 DEF pageVars
<1>2. CASE CopyStats
  BY <1>0, <1>2 DEF CopyStats
<1>3. CASE Broken
  BY <1>0, <1>3, EmptyPartial DEF Broken, Rates
<1>4. CASE SettingsUpdated
  BY <1>0, <1>4 DEF SettingsUpdated
<1>5. CASE NoAnswer
  BY <1>0, <1>5, EmptyPartial DEF NoAnswer, Rates
<1>6. CASE OnWorkloadReceive
  <2>1. PICK tuples \in SetToSeqs(DOMAIN copy) :
          LET w == WidgetsAfter(tuples, Cleared, Len(tuples))
          IN /\ WidgetsKept(tuples, Cleared, Len(tuples), w)
             /\ dial' = [q \in w.shown |-> IF q \in DOMAIN copy THEN copy[q] ELSE dial[q]]
             /\ count' = w.n
    BY <1>6, Received
  <2> DEFINE w == WidgetsAfter(tuples, Cleared, Len(tuples))
  <2>2. w.shown \subseteq Cleared.shown \cup DOMAIN copy
    BY <1>0, <2>1, TuplesOfCopy DEF WidgetsKept
  <2>3. w.n = Cardinality(w.shown) /\ w.n \in 0..MAX_QUERIES
    BY <2>1 DEF WidgetsKept, Counted
  <2>4. dial' = [q \in w.shown |-> IF q \in DOMAIN copy THEN copy[q] ELSE dial[q]]
        /\ count' = w.n
    BY <2>1
  <2> HIDE DEF w
  <2>5. Cleared.shown \subseteq DOMAIN dial
    BY DEF Cleared
  <2>6. /\ DOMAIN dial \subseteq Queries /\ dial \in [DOMAIN dial -> -MaxExecs..MaxExecs]
        /\ DOMAIN copy \subseteq Queries /\ copy \in [DOMAIN copy -> -MaxExecs..MaxExecs]
    BY <1>0, PartialIs DEF Rates
  <2>7. dial' \in [w.shown -> -MaxExecs..MaxExecs] /\ w.shown \subseteq Queries
    BY <2>2, <2>4, <2>5, <2>6
  <2>8. dial' \in Rates /\ DOMAIN dial' = w.shown
    BY <2>7 DEF Rates, Partial
  <2>9. page' = "asking" /\ copy' \in Rates /\ resort' = FALSE
    BY <1>6, EmptyPartial DEF OnWorkloadReceive, Rates
  <2> QED
    BY <2>3, <2>4, <2>8, <2>9
<1>7. CASE ClickResort
  BY <1>0, <1>7 DEF ClickResort
<1> QED
  BY <1>1, <1>2, <1>3, <1>4, <1>5, <1>6, <1>7
     DEF LiveNext, Collect, Query, QueryFails, Acquire, WriteRow, Release, Launch, List,
         Execute, Drop, vars

LEMMA LiveInvHolds == LiveSpec => []LiveInv
<1>1. LiveInv /\ [LiveNext]_vars => LiveInv'
  BY CollectorHolds, PageHolds DEF LiveInv
<1> QED
  BY <1>1, LiveInvInit, PTL DEF LiveSpec
-----------------------------------------------------------------------------
(* The variables keep their types: no rate but of counts of the database,  *)
(* no row to write but of the last round, no widget but of a plan.         *)
THEOREM LiveTyped == LiveSpec => []LiveTypeOK
<1>1. LiveInv => LiveTypeOK
  BY DEF LiveInv, CollectorTyped, PageTyped, LiveTypeOK
<1> QED
  BY <1>1, LiveInvHolds, PTL

(* CURRENT_QUERIES is the number of widgets, whatever the resorts and the  *)
(* answers (live.js 3-28, 57-66).                                          *)
THEOREM WidgetsAreCounted == LiveSpec => []WidgetsCounted
<1>1. LiveInv => WidgetsCounted
  BY DEF LiveInv
<1> QED
  BY <1>1, LiveInvHolds, PTL

LEMMA TopShown ==
  ASSUME LiveInv, OnWorkloadReceive, resort
  PROVE  /\ DOMAIN dial' \subseteq DOMAIN copy
         /\ \A q \in DOMAIN copy \ DOMAIN dial' :
              /\ count' = MAX_QUERIES
              /\ \A r \in DOMAIN dial' : copy[r] >= copy[q]
<1>1. PICK tuples \in SetToSeqs(DOMAIN copy) :
        LET w == WidgetsAfter(tuples, Cleared, Len(tuples))
        IN /\ Sorted(tuples)
           /\ WidgetsKept(tuples, Cleared, Len(tuples), w)
           /\ dial' = [q \in w.shown |-> IF q \in DOMAIN copy THEN copy[q] ELSE dial[q]]
           /\ count' = w.n
  BY Received
<1> DEFINE n == Len(tuples)
           w == WidgetsAfter(tuples, Cleared, n)
<1>2. Cleared = [shown |-> {}, n |-> 0]
  BY DEF Cleared
<1>3. /\ n \in Nat /\ DOMAIN tuples = 1..n
      /\ \A i, j \in 1..n : i # j => tuples[i] # tuples[j]
      /\ Tuples(tuples, n) = DOMAIN copy
  BY TuplesOfCopy DEF LiveInv, PageTyped
<1>4. FirstServed(tuples, n, w)
  <2>1. n \in 0..n
    BY <1>3
  <2> QED
    BY ONLY <1>2, <1>3, <2>1, FirstComeFirstServed
<1>5. WidgetsKept(tuples, Cleared, n, w) /\ DOMAIN dial' = w.shown /\ count' = w.n
      /\ Sorted(tuples)
  BY <1>1
<1> HIDE DEF w, n
<1>6. w.shown \subseteq DOMAIN copy
  BY <1>2, <1>3, <1>5 DEF WidgetsKept
<1>7. ASSUME NEW q \in DOMAIN copy \ w.shown
      PROVE  w.n = MAX_QUERIES /\ \A r \in w.shown : copy[r] >= copy[q]
  <2>1. w.n = MAX_QUERIES
    BY <1>3, <1>5, <1>7 DEF WidgetsKept
  <2>2. PICK i \in 1..n : tuples[i] = q
    BY <1>3 DEF Tuples
  <2>3. ASSUME NEW r \in w.shown PROVE copy[r] >= copy[q]
    <3>1. PICK j \in 1..n : tuples[j] = r
      BY <1>3, <1>6 DEF Tuples
    <3>2. j < i
      BY <1>4, <2>2, <3>1 DEF FirstServed
    <3> QED
      BY <1>3, <1>5, <2>2, <3>1, <3>2 DEF Sorted
  <2> QED
    BY <2>1, <2>3
<1> QED
  BY <1>5, <1>6, <1>7

(* After a resort the page shows the busiest plans, and leaves one out     *)
(* only when it shows MAX_QUERIES others (live.js 71-94).                  *)
THEOREM TopIsShown == LiveSpec => TopAfterResort
<1> DEFINE Top == /\ DOMAIN dial' \subseteq DOMAIN copy
                  /\ \A q \in DOMAIN copy \ DOMAIN dial' :
                       /\ count' = MAX_QUERIES
                       /\ \A r \in DOMAIN dial' : copy[r] >= copy[q]
<1>1. ASSUME LiveInv, [LiveNext]_vars, page = "half", page' = "asking", resort
      PROVE  Top
  <2>1. OnWorkloadReceive
    BY <1>1 DEF LiveNext, Collect, Query, QueryFails, Acquire, WriteRow, Release, Launch,
       List, Execute, Drop, CopyStats, Broken, SettingsUpdated, NoAnswer, ClickResort,
       vars, collectorVars, pageVars
  <2> QED
    BY ONLY <1>1, <2>1, TopShown
<1>2. LiveInv /\ [LiveNext]_vars => [page = "half" /\ page' = "asking" /\ resort => Top]_vars
  BY <1>1
<1> QED
  BY <1>2, LiveInvHolds, PTL DEF LiveSpec, TopAfterResort
=============================================================================
