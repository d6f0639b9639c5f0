------------------------------ MODULE FoldLaws ------------------------------
(* What a fold of the community modules computes: for an operator and a    *)
(* way to choose the next element that the instance names.                 *)
(*                                                                         *)
(* The induction theorems of the library take an operator, here induction  *)
(* is over a set: the sets that are Good.                                  *)
(***************************************************************************)
EXTENDS Folds, FiniteSetTheorems, TLAPS

CONSTANTS
  op(_, _),     (* op(next element's value, what was folded of the others)   *)
  choose(_)     (* the next element of a set                                 *)

Fold(base, f, S) == MapThenFoldSet(op, base, LAMBDA i : f[i], choose, S)
Chooses(S) == \A T \in SUBSET S : T # {} => choose(T) \in T
Closed(V) == \A t, u \in V : op(t, u) \in V
Commutes(V) == \A t, u, v \in V : op(t, op(u, v)) = op(u, op(t, v))

(* A finite set is Good when every set is whose smaller subsets are.       *)
LEMMA SetInduction ==
  ASSUME NEW S, IsFiniteSet(S), NEW Good,
         \A T \in SUBSET S : (\A U \in SUBSET T : U # T => U \in Good) => T \in Good
  PROVE  \A T \in SUBSET S : T \in Good
<1> DEFINE Bad == {T \in SUBSET S : T \notin Good}
<1> SUFFICES ASSUME Bad # {} PROVE FALSE
  OBVIOUS
<1>1. IsWellFoundedOn(StrictSubsetOrdering(S), SUBSET S)
  <2>1. FiniteSubsetsOf(S) = SUBSET S
    BY FS_FiniteSubsetsOfFinite
  <2>2. IsWellFoundedOn(StrictSubsetOrdering(S), FiniteSubsetsOf(S))
    BY ONLY FS_StrictSubsetOrderingWellFounded, Zenon
  <2> QED
    BY <2>1, <2>2, Zenon
<1>2. PICK T \in Bad : \A U \in Bad : ~ (<<U, T>> \in StrictSubsetOrdering(S))
  <2>1. Bad \subseteq SUBSET S
    OBVIOUS
  <2> HIDE DEF Bad
  <2> QED
    BY <1>1, <2>1, WFMin
<1> QED
  BY <1>2 DEF StrictSubsetOrdering

(* The recursion in MapThenFoldSet has a solution, and only one.           *)
Iterates(g, base, f, S) ==
  g = [s \in SUBSET S |->
         IF s = {} THEN base ELSE op(f[choose(s)], g[s \ {choose(s)}])]
Iterate(base, f, S) == CHOOSE g : Iterates(g, base, f, S)

LEMMA IterateAt ==
  ASSUME NEW g, NEW base, NEW f, NEW S, Iterates(g, base, f, S), NEW s \in SUBSET S
  PROVE  g[s] = IF s = {} THEN base ELSE op(f[choose(s)], g[s \ {choose(s)}])
<1> DEFINE h == [r \in SUBSET S |->
         IF r = {} THEN base ELSE op(f[choose(r)], g[r \ {choose(r)}])]
<1>1. h[s] = IF s = {} THEN base ELSE op(f[choose(s)], g[s \ {choose(s)}])
  OBVIOUS
<1>2. g = h
  BY DEF Iterates
<1> QED
  BY <1>1, <1>2, Zenon

LEMMA IteratesAgree ==
  ASSUME NEW base, NEW f, NEW S, IsFiniteSet(S), Chooses(S),
         NEW T \in SUBSET S, NEW U \in SUBSET T,
         NEW g, NEW h, Iterates(g, base, f, T), Iterates(h, base, f, U)
  PROVE  g[U] = h[U]
<1> DEFINE Good == {s \in SUBSET U : g[s] = h[s]}
<1>1. ASSUME NEW s \in SUBSET U, \A r \in SUBSET s : r # s => r \in Good
      PROVE  s \in Good
  <2>1. /\ g[s] = IF s = {} THEN base ELSE op(f[choose(s)], g[s \ {choose(s)}])
        /\ h[s] = IF s = {} THEN base ELSE op(f[choose(s)], h[s \ {choose(s)}])
    BY IterateAt
  <2>2. s # {} => choose(s) \in s
    BY DEF Chooses
  <2>3. s # {} => s \ {choose(s)} \in Good
    BY <1>1, <2>2
  <2> QED
    BY <2>1, <2>3
<1>2. IsFiniteSet(U)
  BY FS_Subset
<1> HIDE DEF Good
<1>3. U \in Good
  BY <1>1, <1>2, SetInduction
<1> QED
  BY <1>3 DEF Good

LEMMA IterateExists ==
  ASSUME NEW base, NEW f, NEW S, IsFiniteSet(S), Chooses(S)
  PROVE  \A T \in SUBSET S : Iterates(Iterate(base, f, T), base, f, T)
<1> DEFINE G(T) == Iterate(base, f, T)
           Good == {T \in SUBSET S : Iterates(G(T), base, f, T)}
<1>1. ASSUME NEW T \in SUBSET S, \A U \in SUBSET T : U # T => U \in Good
      PROVE  T \in Good
  <2> DEFINE rest(s) == s \ {choose(s)}
             h == [s \in SUBSET T |->
                     IF s = {} THEN base ELSE op(f[choose(s)], G(rest(s))[rest(s)])]
  <2>1. ASSUME NEW s \in SUBSET T, s # {}
        PROVE  rest(s) \in SUBSET T /\ rest(s) # T /\ rest(s) # s
    BY <2>1 DEF Chooses
  <2>2. \A U \in SUBSET T : U # T => Iterates(G(U), base, f, U)
    BY <1>1
  <2>3. ASSUME NEW r \in SUBSET T, r # T
        PROVE  h[r] = G(r)[r]
    <3> HIDE DEF G
    <3>1. G(r)[r] = IF r = {} THEN base ELSE op(f[choose(r)], G(r)[rest(r)])
      BY <2>2, <2>3, IterateAt
    <3>2. r # {} => G(r)[rest(r)] = G(rest(r))[rest(r)]
      BY <2>1, <2>2, <2>3, IteratesAgree
    <3> QED
      BY <3>1, <3>2
  <2>4. \A s \in SUBSET T : s # {} => h[rest(s)] = G(rest(s))[rest(s)]
    BY <2>1, <2>3
  <2>5. Iterates(h, base, f, T)
    <3> DEFINE k == [s \in SUBSET T |->
                       IF s = {} THEN base ELSE op(f[choose(s)], h[rest(s)])]
    <3>1. ASSUME NEW s \in SUBSET T PROVE h[s] = k[s]
      <4> HIDE DEF G
      <4>1. h[s] = IF s = {} THEN base ELSE op(f[choose(s)], G(rest(s))[rest(s)])
        BY Zenon
      <4>2. k[s] = IF s = {} THEN base ELSE op(f[choose(s)], h[rest(s)])
        BY Zenon
      <4> QED
        BY <2>4, <4>1, <4>2
    <3>2. h = k
      BY <3>1
    <3> QED
      BY <3>2 DEF Iterates
  <2> HIDE DEF h
  <2>6. Iterates(G(T), base, f, T)
    BY <2>5, Zenon DEF Iterate
  <2> QED
    BY <2>6
<1> HIDE DEF Good
<1>2. \A T \in SUBSET S : T \in Good
  BY <1>1, SetInduction
<1> QED
  BY <1>2 DEF Good

LEMMA FoldIsIterate ==
  ASSUME NEW f, NEW S, NEW base
  PROVE  Fold(base, f, S) = Iterate(base, f, S)[S]
  BY DEF MapThenFoldSet, Fold, Iterates, Iterate

LEMMA FoldEmpty ==
  ASSUME NEW base, NEW f
  PROVE  Fold(base, f, {}) = base
<1>1. Chooses({}) /\ IsFiniteSet({})
  BY FS_EmptySet DEF Chooses
<1>2. Iterates(Iterate(base, f, {}), base, f, {})
  BY <1>1, IterateExists
<1> QED
  BY <1>2, IterateAt, FoldIsIterate

(* A fold takes the chosen element and folds the rest.                     *)
LEMMA FoldStep ==
  ASSUME NEW base, NEW f, NEW S, IsFiniteSet(S), Chooses(S), S # {}
  PROVE  Fold(base, f, S) = op(f[choose(S)], Fold(base, f, S \ {choose(S)}))
<1> DEFINE R == S \ {choose(S)}
<1>1. R \in SUBSET S
  OBVIOUS
<1>2. Iterates(Iterate(base, f, S), base, f, S) /\ Iterates(Iterate(base, f, R), base, f, R)
  BY <1>1, IterateExists
<1>3. Iterate(base, f, S)[S] = op(f[choose(S)], Iterate(base, f, S)[R])
  BY <1>2, IterateAt
<1>4. Iterate(base, f, S)[R] = Iterate(base, f, R)[R]
  BY <1>1, <1>2, IteratesAgree
<1> QED
  BY <1>3, <1>4, FoldIsIterate

(* Typed values fold to a typed value.                                     *)
LEMMA FoldType ==
  ASSUME NEW V, NEW base \in V, NEW f, NEW S, IsFiniteSet(S), Chooses(S),
         Closed(V),
         \A s \in S : f[s] \in V
  PROVE  Fold(base, f, S) \in V
<1> DEFINE Good == {T \in SUBSET S : Fold(base, f, T) \in V}
<1>1. ASSUME NEW T \in SUBSET S, \A U \in SUBSET T : U # T => U \in Good
      PROVE  T \in Good
  <2>1. CASE T = {}
    BY <2>1, FoldEmpty
  <2>2. CASE T # {}
    <3>1. IsFiniteSet(T) /\ Chooses(T) /\ choose(T) \in T
      BY <2>2, FS_Subset DEF Chooses
    <3>2. Fold(base, f, T \ {choose(T)}) \in V
      BY <1>1, <3>1
    <3> QED
      BY <2>2, <3>1, <3>2, FoldStep DEF Closed
  <2> QED
    BY <2>1, <2>2
<1> HIDE DEF Good
<1>2. S \in Good
  BY <1>1, SetInduction
<1> QED
  BY <1>2 DEF Good

(* Only the values on the set matter.                                      *)
LEMMA FoldSame ==
  ASSUME NEW base, NEW f, NEW g, NEW S, IsFiniteSet(S), Chooses(S),
         \A s \in S : f[s] = g[s]
  PROVE  Fold(base, f, S) = Fold(base, g, S)
<1> DEFINE Good == {T \in SUBSET S : Fold(base, f, T) = Fold(base, g, T)}
<1>1. ASSUME NEW T \in SUBSET S, \A U \in SUBSET T : U # T => U \in Good
      PROVE  T \in Good
  <2>1. CASE T = {}
    BY <2>1, FoldEmpty
  <2>2. CASE T # {}
    <3>1. IsFiniteSet(T) /\ Chooses(T) /\ choose(T) \in T
      BY <2>2, FS_Subset DEF Chooses
    <3>2. Fold(base, f, T \ {choose(T)}) = Fold(base, g, T \ {choose(T)})
      BY <1>1, <3>1
    <3>3. f[choose(T)] = g[choose(T)]
      BY <3>1
    <3> QED
      BY <2>2, <3>1, <3>2, <3>3, FoldStep
  <2> QED
    BY <2>1, <2>2
<1> HIDE DEF Good
<1>2. S \in Good
  BY <1>1, SetInduction
<1> QED
  BY <1>2 DEF Good

(* With an operator that does not mind the order, any element may be taken *)
(* first.                                                                  *)
LEMMA FoldPick ==
  ASSUME NEW V, NEW base \in V, NEW f, NEW S, IsFiniteSet(S), Chooses(S),
         Closed(V), Commutes(V),
         \A s \in S : f[s] \in V
  PROVE  \A x \in S : Fold(base, f, S) = op(f[x], Fold(base, f, S \ {x}))
<1> DEFINE Good == {T \in SUBSET S :
                     \A y \in T : Fold(base, f, T) = op(f[y], Fold(base, f, T \ {y}))}
<1>1. ASSUME NEW T \in SUBSET S, \A U \in SUBSET T : U # T => U \in Good,
             NEW y \in T
      PROVE  Fold(base, f, T) = op(f[y], Fold(base, f, T \ {y}))
  <2> DEFINE c == choose(T)
             R == T \ {c}
             Q == T \ {y}
  <2>1. c \in T /\ IsFiniteSet(T) /\ Chooses(T)
    BY FS_Subset DEF Chooses
  <2>2. Fold(base, f, T) = op(f[c], Fold(base, f, R))
    <3>1. T # {}
      OBVIOUS
    <3> QED
      BY ONLY <2>1, <3>1, FoldStep
  <2> HIDE DEF c
  <2>3. CASE c = y
    BY <2>2, <2>3
  <2>4. CASE c # y
    <3>1. R \ {y} = Q \ {c}
      OBVIOUS
    <3>2. Fold(base, f, R) = op(f[y], Fold(base, f, R \ {y}))
      BY <1>1, <2>1, <2>4
    <3>3. Fold(base, f, Q) = op(f[c], Fold(base, f, Q \ {c}))
      BY <1>1, <2>1, <2>4
    <3>4. IsFiniteSet(R \ {y}) /\ Chooses(R \ {y})
      BY <2>1, FS_Subset DEF Chooses
    <3>5. Fold(base, f, R \ {y}) \in V
      BY <3>4, FoldType
    <3>6. f[c] \in V /\ f[y] \in V
      BY <2>1
    <3>7. op(f[c], op(f[y], Fold(base, f, R \ {y}))) = op(f[y], op(f[c], Fold(base, f, R \ {y})))
      BY <3>5, <3>6, Zenon DEF Commutes
    <3> QED
      BY <2>2, <3>1, <3>2, <3>3, <3>7
  <2> QED
    BY <2>3, <2>4
<1>2. \A T \in SUBSET S : (\A U \in SUBSET T : U # T => U \in Good) => T \in Good
  BY <1>1
<1> HIDE DEF Good
<1>3. S \in Good
  BY <1>2, SetInduction
<1> QED
  BY <1>3 DEF Good

(* Induction over indices.                                                 *)
LEMMA IndexInduction ==
  ASSUME NEW n \in Nat, NEW Good, 0 \in Good,
         \A k \in 1..n : k - 1 \in Good => k \in Good
  PROVE  \A k \in 0..n : k \in Good
<1> DEFINE Sets == {T \in SUBSET (1..n) : \A k \in 0..n : T = 1..k => k \in Good}
<1>1. ASSUME NEW T \in SUBSET (1..n), \A U \in SUBSET T : U # T => U \in Sets,
             NEW k \in 0..n, T = 1..k
      PROVE  k \in Good
  <2>1. CASE k = 0
    BY <2>1
  <2>2. CASE k # 0
    <3>1. 1..(k-1) \in SUBSET T /\ k \in T /\ k \notin 1..(k-1)
      BY <1>1, <2>2
    <3>2. 1..(k-1) \in Sets
      BY <1>1, <3>1
    <3> QED
      BY <2>2, <3>2
  <2> QED
    BY <2>1, <2>2
<1>2. \A T \in SUBSET (1..n) : (\A U \in SUBSET T : U # T => U \in Sets) => T \in Sets
  BY <1>1
<1>3. IsFiniteSet(1..n)
  BY FS_Interval
<1> HIDE DEF Sets
<1>4. \A T \in SUBSET (1..n) : T \in Sets
  BY <1>2, <1>3, SetInduction
<1>5. \A k \in 0..n : 1..k \in Sets
  <2> TAKE k \in 0..n
  <2> 1..k \in SUBSET (1..n)
    OBVIOUS
  <2> QED
    BY <1>4
<1> QED
  BY <1>5 DEF Sets
=============================================================================
