---------------------------- MODULE AccountProofs ---------------------------
(***************************************************************************)
(* Proofs about what an account owns, Loft and Purse, for any tablets and  *)
(* page slots, any catalogue of packs, coins and currencies, any prices,   *)
(* budget, capacity and number of connections.                             *)
(*                                                                         *)
(* Loft: every page slot holds a copy that is owned, once on its page; a   *)
(* request hits the copy that its client addressed; ascension is paid off  *)
(* one unlock at a time; and neither a load nor a visit to an older binary *)
(* loses a tablet.  Purse: no count goes below zero; the talents and the   *)
(* points left make up the budget; and an exchange takes and gives exactly *)
(* what it should.                                                         *)
(*                                                                         *)
(* Slots are bound, talents clamped and counts summed one after the other. *)
(* So the module begins with folds over a finite set: the smallest subset  *)
(* that is not in a set of good ones (a set, no operator) carries          *)
(* induction over a finite set, and over the steps of a fold, whose        *)
(* function exists and is unique.                                          *)
(***************************************************************************)
EXTENDS Loft, Purse, FiniteSetTheorems, SequenceTheorems, WellFoundedInduction, TLAPS

\* Of some subsets of a finite set, one has none of the others inside.
LEMMA SmallestSubset ==
  ASSUME NEW S, IsFiniteSet(S), NEW Bad \in SUBSET SUBSET S, Bad # {}
  PROVE  \E T \in Bad : \A U \in Bad : U \subseteq T => U = T
<1> DEFINE R == StrictSubsetOrdering(S)
<1>1. FiniteSubsetsOf(S) = SUBSET S
  BY FS_FiniteSubsetsOfFinite
<1>2. IsWellFoundedOn(R, FiniteSubsetsOf(S))
  BY FS_StrictSubsetOrderingWellFounded
<1>3. Bad \subseteq FiniteSubsetsOf(S)
  BY <1>1
<1> HIDE DEF R
<1>4. PICK T \in Bad : \A U \in Bad : <<U, T>> \notin R
  BY <1>2, <1>3, WFMin
<1>5. \A U \in Bad : U \subseteq T => U = T
  BY <1>4 DEF R, StrictSubsetOrdering
<1> QED
  BY <1>5

\* A set of subsets of a finite set that has a set whenever it has the smaller
\* ones has them all.
LEMMA SubsetInduction ==
  ASSUME NEW S, IsFiniteSet(S), NEW Good \in SUBSET SUBSET S,
         \A T \in SUBSET S :
           (\A U \in SUBSET T : U # T => U \in Good) => T \in Good
  PROVE  Good = SUBSET S
<1> SUFFICES ASSUME Good # SUBSET S PROVE FALSE
  OBVIOUS
<1> DEFINE Bad == (SUBSET S) \ Good
<1>1. Bad # {} /\ Bad \in SUBSET SUBSET S
  OBVIOUS
<1> HIDE DEF Bad
<1>2. PICK T \in Bad : \A U \in Bad : U \subseteq T => U = T
  BY <1>1, SmallestSubset
<1>3. \A U \in SUBSET T : U # T => U \in Good
  BY <1>2 DEF Bad
<1> QED
  BY <1>2, <1>3 DEF Bad

\* The same, one element at a time.
LEMMA SetInduction ==
  ASSUME NEW S, IsFiniteSet(S), NEW Good \in SUBSET SUBSET S, {} \in Good,
         \A T \in Good : \A x \in S \ T : T \cup {x} \in Good
  PROVE  S \in Good
<1>1. ASSUME NEW T \in SUBSET S, \A U \in SUBSET T : U # T => U \in Good
      PROVE  T \in Good
  <2>1. CASE T = {}
    BY <2>1
  <2>2. CASE T # {}
    <3>1. PICK x \in T : TRUE
      BY <2>2
    <3>2. T \ {x} \in Good
      BY <1>1, <3>1
    <3>3. (T \ {x}) \cup {x} = T /\ x \in S \ (T \ {x})
      BY <3>1
    <3> QED
      BY <3>2, <3>3
  <2> QED
    BY <2>1, <2>2
<1> QED
  BY <1>1, SubsetInduction

-----------------------------------------------------------------------------
\* g folds G over the subsets of S, with c for the element that goes first.
FoldsTo(g, G, c, base, S) ==
  g = [s \in SUBSET S |-> IF s = {} THEN base ELSE G[<<c[s], g[s \ {c[s]}]>>]]

LEMMA FoldUnique ==
  ASSUME NEW S, IsFiniteSet(S), NEW G, NEW c, NEW base,
         \A s \in SUBSET S : s # {} => c[s] \in s,
         NEW T \in SUBSET S, NEW U \in SUBSET S, NEW g, NEW h,
         FoldsTo(g, G, c, base, T), FoldsTo(h, G, c, base, U)
  PROVE  \A s \in (SUBSET T) \cap (SUBSET U) : g[s] = h[s]
<1> DEFINE Good == {s \in SUBSET (T \cap U) : g[s] = h[s]}
<1>1. ASSUME NEW s \in SUBSET (T \cap U),
             \A r \in SUBSET s : r # s => r \in Good
      PROVE  s \in Good
  <2>1. /\ g[s] = IF s = {} THEN base ELSE G[<<c[s], g[s \ {c[s]}]>>]
        /\ h[s] = IF s = {} THEN base ELSE G[<<c[s], h[s \ {c[s]}]>>]
    BY DEF FoldsTo
  <2>2. CASE s = {}
    BY <2>1, <2>2
  <2>3. CASE s # {}
    <3>1. c[s] \in s
      BY <2>3
    <3>2. s \ {c[s]} \in Good
      BY <1>1, <3>1
    <3>3. g[s \ {c[s]}] = h[s \ {c[s]}]
      BY <3>2
    <3> QED
      BY <2>1, <2>3, <3>3
  <2> QED
    BY <2>2, <2>3
<1>2. IsFiniteSet(T \cap U)
  BY FS_Subset
<1>3. Good \in SUBSET SUBSET (T \cap U)
  OBVIOUS
<1>4. Good = SUBSET (T \cap U)
  <2> DEFINE B == T \cap U
  <2>1. \A s \in SUBSET B : (\A r \in SUBSET s : r # s => r \in Good) => s \in Good
    BY <1>1
  <2>2. IsFiniteSet(B) /\ Good \in SUBSET SUBSET B
    BY <1>2, <1>3
  <2> HIDE DEF Good, B
  <2>3. Good = SUBSET B
    BY <2>1, <2>2, SubsetInduction
  <2> QED
    BY <2>3 DEF B
<1> QED
  BY <1>4

LEMMA FoldExists ==
  ASSUME NEW S, IsFiniteSet(S), NEW G, NEW c, NEW base,
         \A s \in SUBSET S : s # {} => c[s] \in s
  PROVE  \E g : FoldsTo(g, G, c, base, S)
<1> DEFINE Good == {T \in SUBSET S : \E g : FoldsTo(g, G, c, base, T)}
           F(T) == CHOOSE g : FoldsTo(g, G, c, base, T)
           A == [T \in SUBSET S |-> F(T)]
<1>1. \A T \in Good : FoldsTo(A[T], G, c, base, T)
  BY Zenon
<1> HIDE DEF A
<1>2. ASSUME NEW T \in SUBSET S, \A U \in SUBSET T : U # T => U \in Good
      PROVE  T \in Good
  <2> DEFINE v == [s \in SUBSET T |->
                     IF s # T THEN A[s][s]
                     ELSE IF T = {} THEN base
                     ELSE G[<<c[T], A[T \ {c[T]}][T \ {c[T]}]>>]]
  <2>1. ASSUME NEW s \in SUBSET T
        PROVE  v[s] = IF s = {} THEN base ELSE G[<<c[s], v[s \ {c[s]}]>>]
    <3>1. CASE s = T /\ T = {}
      BY <3>1
    <3>2. CASE s = T /\ T # {}
      <4>1. T \ {c[T]} # T /\ T \ {c[T]} \in SUBSET T
        BY <3>2
      <4>2. v[T \ {c[T]}] = A[T \ {c[T]}][T \ {c[T]}]
        BY <4>1
      <4>3. v[T] = G[<<c[T], A[T \ {c[T]}][T \ {c[T]}]>>]
        BY <3>2
      <4> HIDE DEF v
      <4> QED
        BY <3>2, <4>2, <4>3
    <3>3. CASE s # T /\ s = {}
      <4>1. FoldsTo(A[s], G, c, base, s)
        BY <1>1, <1>2, <3>3
      <4>2. A[s][s] = base
        BY <3>3, <4>1 DEF FoldsTo
      <4> QED
        BY <3>3, <4>2
    <3>4. CASE s # T /\ s # {}
      <4> DEFINE r == s \ {c[s]}
      <4>1. r \in SUBSET s /\ r \in SUBSET T /\ r # T /\ r # s
        BY <3>4
      <4>2. FoldsTo(A[s], G, c, base, s) /\ FoldsTo(A[r], G, c, base, r)
        BY <1>1, <1>2, <3>4, <4>1
      <4>3. A[s][s] = G[<<c[s], A[s][r]>>]
        <5>1. A[s] = [t \in SUBSET s |->
                        IF t = {} THEN base ELSE G[<<c[t], A[s][t \ {c[t]}]>>]]
          BY <4>2 DEF FoldsTo
        <5> QED
          BY <3>4, <5>1
      <4>4. A[s][r] = A[r][r]
        <5>1. s \in SUBSET S /\ r \in SUBSET S /\ r \in (SUBSET s) \cap (SUBSET r)
          BY <4>1
        <5> HIDE DEF r
        <5> QED
          BY <4>2, <5>1, FoldUnique
      <4>5. v[s] = A[s][s] /\ v[r] = A[r][r]
        BY <3>4, <4>1
      <4> HIDE DEF v, r
      <4>6. v[s] = G[<<c[s], v[r]>>]
        BY <4>3, <4>4, <4>5
      <4> QED
        BY <3>4, <4>6 DEF r
    <3> QED
      BY <3>1, <3>2, <3>3, <3>4
  <2>2. v = [s \in SUBSET T |-> v[s]]
    OBVIOUS
  <2> HIDE DEF v
  <2>3. FoldsTo(v, G, c, base, T)
    BY <2>1, <2>2 DEF FoldsTo
  <2> QED
    BY <2>3
<1>3. Good \in SUBSET SUBSET S
  OBVIOUS
<1>4. S \in Good
  <2> HIDE DEF Good
  <2> QED
    BY <1>2, <1>3, SubsetInduction
<1> QED
  BY <1>4

LEMMA FoldType ==
  ASSUME NEW S, IsFiniteSet(S), NEW G, NEW c, NEW base, NEW M,
         \A s \in SUBSET S : s # {} => c[s] \in s,
         base \in M, \A x \in S, m \in M : G[<<x, m>>] \in M,
         NEW g, FoldsTo(g, G, c, base, S)
  PROVE  \A s \in SUBSET S : g[s] \in M
<1> DEFINE Good == {s \in SUBSET S : g[s] \in M}
<1>1. ASSUME NEW s \in SUBSET S, \A r \in SUBSET s : r # s => r \in Good
      PROVE  s \in Good
  <2>1. g[s] = IF s = {} THEN base ELSE G[<<c[s], g[s \ {c[s]}]>>]
    BY DEF FoldsTo
  <2>2. CASE s = {}
    BY <2>1, <2>2
  <2>3. CASE s # {}
    <3>1. c[s] \in s
      BY <2>3
    <3>2. s \ {c[s]} \in Good
      BY <1>1, <3>1
    <3> QED
      BY <2>1, <2>3, <3>1, <3>2
  <2> QED
    BY <2>2, <2>3
<1>2. \A s \in SUBSET S : (\A r \in SUBSET s : r # s => r \in Good) => s \in Good
  BY <1>1
<1>3. Good = SUBSET S
  <2>1. Good \in SUBSET SUBSET S
    OBVIOUS
  <2> HIDE DEF Good
  <2> QED
    BY <1>2, <2>1, SubsetInduction
<1> QED
  BY <1>3

-----------------------------------------------------------------------------
(* First and last elements.                                                *)

\* Some things of which any two are in order have a last one.
LEMMA LastExists ==
  ASSUME NEW S, IsFiniteSet(S), S # {}, NEW R,
         \A a, b \in S : <<a, b>> \in R \/ <<b, a>> \in R,
         \A a, b, c \in S : <<a, b>> \in R /\ <<b, c>> \in R => <<a, c>> \in R
  PROVE  \E m \in S : \A n \in S : <<n, m>> \in R
<1> DEFINE Good == {T \in SUBSET S : T # {} => \E m \in T : \A n \in T : <<n, m>> \in R}
<1>1. {} \in Good
  OBVIOUS
<1>2. ASSUME NEW T \in Good, NEW x \in S \ T PROVE T \cup {x} \in Good
  <2>1. <<x, x>> \in R
    OBVIOUS
  <2>2. CASE T = {}
    BY <2>1, <2>2
  <2>3. CASE T # {}
    <3>1. PICK m \in T : \A n \in T : <<n, m>> \in R
      BY <2>3
    <3>2. m \in S /\ x \in S /\ T \subseteq S
      OBVIOUS
    <3>3. CASE <<x, m>> \in R
      <4>1. m \in T \cup {x} /\ \A n \in T \cup {x} : <<n, m>> \in R
        BY <3>1, <3>3
      <4> QED
        BY <4>1
    <3>4. CASE <<m, x>> \in R
      <4>1. x \in T \cup {x} /\ \A n \in T \cup {x} : <<n, x>> \in R
        BY <2>1, <3>1, <3>2, <3>4
      <4> QED
        BY <4>1
    <3> QED
      BY <3>2, <3>3, <3>4
  <2> QED
    BY <2>2, <2>3
<1>3. S \in Good
  <2>1. Good \in SUBSET SUBSET S /\ \A T \in Good : \A x \in S \ T : T \cup {x} \in Good
    BY <1>2
  <2> HIDE DEF Good
  <2> QED
    BY <1>1, <2>1, SetInduction
<1> QED
  BY <1>3

\* A finite set of naturals has a largest and a least.
LEMMA LargestNat ==
  ASSUME NEW S \in SUBSET Nat, IsFiniteSet(S), S # {}
  PROVE  \E m \in S : \A n \in S : n <= m
<1> DEFINE R == {p \in Nat \X Nat : p[1] <= p[2]}
<1>1. \A a, b \in S : <<a, b>> \in R <=> a <= b
  OBVIOUS
<1>2. \A a, b, c \in S : a \in Nat /\ (a <= b \/ b <= a) /\ (a <= b /\ b <= c => a <= c)
  OBVIOUS
<1> HIDE DEF R
<1>3. \E m \in S : \A n \in S : <<n, m>> \in R
  BY <1>1, <1>2, LastExists
<1> QED
  BY <1>1, <1>3

LEMMA LeastNat ==
  ASSUME NEW S \in SUBSET Nat, IsFiniteSet(S), S # {}
  PROVE  \E m \in S : \A n \in S : m <= n
<1> DEFINE R == {p \in Nat \X Nat : p[2] <= p[1]}
<1>1. \A a, b \in S : <<a, b>> \in R <=> b <= a
  OBVIOUS
<1>2. \A a, b, c \in S : a \in Nat /\ (a <= b \/ b <= a) /\ (b <= a /\ c <= b => c <= a)
  OBVIOUS
<1> HIDE DEF R
<1>3. \E m \in S : \A n \in S : <<n, m>> \in R
  BY <1>1, <1>2, LastExists
<1> QED
  BY <1>1, <1>3

-----------------------------------------------------------------------------
(* Sums.                                                                   *)

Pick(s) == CHOOSE x \in s : TRUE

Sums(f, S, g) ==
  g = [s \in SUBSET S |-> IF s = {} THEN 0 ELSE f[Pick(s)] + g[s \ {Pick(s)}]]

LEMMA SumIs ==
  ASSUME NEW f, NEW S
  PROVE  SumFunctionOnSet(f, S) = (CHOOSE g : Sums(f, S, g))[S]
  BY DEF SumFunctionOnSet, FoldFunctionOnSet, MapThenFoldSet, Sums, Pick

LEMMA PickIn == ASSUME NEW s, s # {} PROVE Pick(s) \in s
  BY DEF Pick

\* The sums over the subsets of S exist, and are naturals.
LEMMA SumsExist ==
  ASSUME NEW D, NEW f \in [D -> Nat], NEW S \in SUBSET D, IsFiniteSet(S)
  PROVE  \E g : Sums(f, S, g) /\ \A s \in SUBSET S : g[s] \in Nat
<1> DEFINE G == [p \in S \X Nat |-> f[p[1]] + p[2]]
           c == [s \in SUBSET S |-> Pick(s)]
<1>1. \A s \in SUBSET S : s # {} => c[s] \in s
  BY PickIn
<1>2. \A x \in S, m \in Nat : G[<<x, m>>] = f[x] + m /\ G[<<x, m>>] \in Nat
  OBVIOUS
<1>3. \A s \in SUBSET S : c[s] = Pick(s)
  OBVIOUS
<1> HIDE DEF G, c
<1>4. PICK g : FoldsTo(g, G, c, 0, S)
  BY <1>1, FoldExists
<1>5. \A s \in SUBSET S : g[s] \in Nat
  <2>1. 0 \in Nat
    OBVIOUS
  <2> QED
    BY <1>1, <1>2, <1>4, <2>1, FoldType
<1>6. ASSUME NEW s \in SUBSET S
      PROVE  g[s] = IF s = {} THEN 0 ELSE f[Pick(s)] + g[s \ {Pick(s)}]
  <2>1. g[s] = IF s = {} THEN 0 ELSE G[<<c[s], g[s \ {c[s]}]>>]
    BY <1>4 DEF FoldsTo
  <2>2. CASE s = {}
    BY <2>1, <2>2
  <2>3. CASE s # {}
    <3>1. c[s] \in S /\ g[s \ {c[s]}] \in Nat
      BY <1>1, <1>5, <2>3
    <3>2. g[s] = f[c[s]] + g[s \ {c[s]}]
      BY <1>2, <2>1, <2>3, <3>1
    <3> QED
      BY <1>3, <2>3, <3>2
  <2> QED
    BY <2>2, <2>3
<1>7. g = [s \in SUBSET S |-> g[s]]
  BY <1>4 DEF FoldsTo
<1>8. Sums(f, S, g)
  BY <1>6, <1>7 DEF Sums
<1> QED
  BY <1>5, <1>8

\* There are no others.
LEMMA SumsUnique ==
  ASSUME NEW f, NEW S, IsFiniteSet(S), NEW T \in SUBSET S, NEW g, NEW h,
         Sums(f, S, g), Sums(f, T, h)
  PROVE  \A s \in SUBSET T : g[s] = h[s]
<1> DEFINE Good == {s \in SUBSET T : g[s] = h[s]}
<1>1. ASSUME NEW s \in SUBSET T, \A r \in SUBSET s : r # s => r \in Good
      PROVE  s \in Good
  <2>1. /\ g[s] = IF s = {} THEN 0 ELSE f[Pick(s)] + g[s \ {Pick(s)}]
        /\ h[s] = IF s = {} THEN 0 ELSE f[Pick(s)] + h[s \ {Pick(s)}]
    BY DEF Sums
  <2>2. CASE s = {}
    BY <2>1, <2>2
  <2>3. CASE s # {}
    <3>1. Pick(s) \in s
      BY <2>3, PickIn
    <3>2. s \ {Pick(s)} \in Good
      BY <1>1, <3>1
    <3>3. g[s \ {Pick(s)}] = h[s \ {Pick(s)}]
      BY <3>2
    <3> QED
      BY <2>1, <2>3, <3>3
  <2> QED
    BY <2>2, <2>3
<1>2. \A s \in SUBSET T : (\A r \in SUBSET s : r # s => r \in Good) => s \in Good
  BY <1>1
<1>3. IsFiniteSet(T)
  BY FS_Subset
<1>4. Good = SUBSET T
  <2>1. Good \in SUBSET SUBSET T
    OBVIOUS
  <2> HIDE DEF Good
  <2> QED
    BY <1>2, <1>3, <2>1, SubsetInduction
<1> QED
  BY <1>4

\* How a sum is built.
LEMMA SumSteps ==
  ASSUME NEW D, NEW f \in [D -> Nat], NEW S \in SUBSET D, IsFiniteSet(S)
  PROVE  /\ SumFunctionOnSet(f, S) \in Nat
         /\ S = {} => SumFunctionOnSet(f, S) = 0
         /\ S # {} => SumFunctionOnSet(f, S) =
                        f[Pick(S)] + SumFunctionOnSet(f, S \ {Pick(S)})
<1> DEFINE T == S \ {Pick(S)}
           g == CHOOSE x : Sums(f, S, x)
           h == CHOOSE x : Sums(f, T, x)
<1>1. T \in SUBSET D /\ T \in SUBSET S /\ IsFiniteSet(T)
  BY FS_Subset
<1>2. Sums(f, S, g)
  BY SumsExist
<1>3. Sums(f, T, h)
  <2> HIDE DEF T
  <2> QED
    BY <1>1, SumsExist
<1>4. SumFunctionOnSet(f, S) = g[S]
  BY SumIs
<1>5. SumFunctionOnSet(f, T) = h[T]
  BY SumIs
<1> HIDE DEF g, h
<1>6. g[S] = IF S = {} THEN 0 ELSE f[Pick(S)] + g[T]
  BY <1>2 DEF Sums
<1>7. g[T] = h[T]
  <2> HIDE DEF T
  <2> QED
    BY <1>1, <1>2, <1>3, SumsUnique
<1>8. PICK x : Sums(f, S, x) /\ \A s \in SUBSET S : x[s] \in Nat
  BY SumsExist
<1>9. g[S] \in Nat
  <2>1. x[S] = g[S]
    BY <1>2, <1>8, SumsUnique
  <2> QED
    BY <1>8, <2>1
<1> QED
  BY <1>4, <1>5, <1>6, <1>7, <1>9

LEMMA SumEmpty ==
  ASSUME NEW D, NEW f \in [D -> Nat]
  PROVE  SumFunctionOnSet(f, {}) = 0
  BY SumSteps, FS_EmptySet

\* A sum grows by the value of an element that it gets, whichever comes first.
LEMMA SumAdd ==
  ASSUME NEW D, NEW f \in [D -> Nat], NEW S \in SUBSET D, IsFiniteSet(S), NEW x \in D \ S
  PROVE  SumFunctionOnSet(f, S \cup {x}) = f[x] + SumFunctionOnSet(f, S)
<1> DEFINE F(T) == SumFunctionOnSet(f, T)
           Good == {T \in SUBSET S : \A y \in D \ T : F(T \cup {y}) = f[y] + F(T)}
<1>1. ASSUME NEW T \in SUBSET S, \A U \in SUBSET T : U # T => U \in Good
      PROVE  T \in Good
  <2> SUFFICES ASSUME NEW y \in D \ T PROVE F(T \cup {y}) = f[y] + F(T)
    OBVIOUS
  <2> DEFINE W == T \cup {y}
             p == Pick(W)
             U == T \ {p}
  <2>1. /\ IsFiniteSet(T) /\ IsFiniteSet(W) /\ IsFiniteSet(U)
        /\ W \in SUBSET D /\ T \in SUBSET D /\ U \in SUBSET D /\ W # {}
    <3>1. IsFiniteSet(T)
      BY FS_Subset
    <3>2. IsFiniteSet(W) /\ IsFiniteSet(U)
      BY <3>1, FS_AddElement, FS_RemoveElement
    <3> QED
      BY <3>1, <3>2
  <2>2. p \in W
    <3> HIDE DEF W
    <3> QED
      BY <2>1, PickIn
  <2>3. F(W) = f[p] + F(W \ {p})
    <3> HIDE DEF W
    <3> QED
      BY <2>1, SumSteps
  <2>4. CASE p = y
    <3>1. W \ {p} = T
      BY <2>4
    <3> QED
      BY <2>3, <2>4, <3>1
  <2>5. CASE p # y
    <3>1. p \in T /\ W \ {p} = U \cup {y} /\ y \in D \ U /\ U \cup {p} = T /\ p \in D \ U
      BY <2>2, <2>5
    <3>2. U \in Good
      BY <1>1, <3>1
    <3> HIDE DEF F, W, U, p
    <3>3. F(U \cup {y}) = f[y] + F(U) /\ F(U \cup {p}) = f[p] + F(U)
      BY <3>1, <3>2
    <3>4. F(U) \in Nat
      BY <2>1, SumSteps DEF F
    <3>5. f[y] \in Nat /\ f[p] \in Nat
      BY <3>1
    <3>6. F(W) = f[p] + (f[y] + F(U)) /\ F(T) = f[p] + F(U)
      BY <2>3, <3>1, <3>3
    <3> QED
      BY <3>4, <3>5, <3>6 DEF W
  <2> QED
    BY <2>4, <2>5
<1>2. \A T \in SUBSET S : (\A U \in SUBSET T : U # T => U \in Good) => T \in Good
  BY <1>1
<1>3. Good = SUBSET S
  <2>1. Good \in SUBSET SUBSET S
    OBVIOUS
  <2> HIDE DEF Good
  <2> QED
    BY <1>2, <2>1, SubsetInduction
<1>4. S \in Good
  BY <1>3
<1> QED
  BY <1>4

LEMMA SumSame ==
  ASSUME NEW D, NEW E, NEW f \in [D -> Nat], NEW h \in [E -> Nat],
         NEW S \in SUBSET (D \cap E), IsFiniteSet(S), \A x \in S : f[x] = h[x]
  PROVE  SumFunctionOnSet(f, S) = SumFunctionOnSet(h, S)
<1> DEFINE F(T) == SumFunctionOnSet(f, T)
           H(T) == SumFunctionOnSet(h, T)
           Good == {T \in SUBSET S : F(T) = H(T)}
<1>1. {} \in Good
  BY SumEmpty
<1>2. ASSUME NEW T \in Good, NEW x \in S \ T PROVE T \cup {x} \in Good
  <2>1. IsFiniteSet(T) /\ T \in SUBSET D /\ T \in SUBSET E /\ x \in D \ T /\ x \in E \ T
    BY FS_Subset
  <2>2. F(T \cup {x}) = f[x] + F(T) /\ H(T \cup {x}) = h[x] + H(T)
    BY <2>1, SumAdd
  <2>3. F(T) = H(T) /\ f[x] = h[x]
    OBVIOUS
  <2> HIDE DEF F, H
  <2> QED
    BY <2>2, <2>3
<1>3. S \in Good
  <2>1. Good \in SUBSET SUBSET S /\ \A T \in Good : \A x \in S \ T : T \cup {x} \in Good
    BY <1>2
  <2> HIDE DEF Good
  <2> QED
    BY <1>1, <2>1, SetInduction
<1> QED
  BY <1>3

\* The sum of two functions sums to both sums.
LEMMA SumPlus ==
  ASSUME NEW D, NEW f \in [D -> Nat], NEW h \in [D -> Nat], NEW k \in [D -> Nat],
         NEW S \in SUBSET D, IsFiniteSet(S), \A x \in S : k[x] = f[x] + h[x]
  PROVE  SumFunctionOnSet(k, S) = SumFunctionOnSet(f, S) + SumFunctionOnSet(h, S)
<1> DEFINE F(T) == SumFunctionOnSet(f, T)
           H(T) == SumFunctionOnSet(h, T)
           K(T) == SumFunctionOnSet(k, T)
           Good == {T \in SUBSET S : K(T) = F(T) + H(T)}
<1>1. {} \in Good
  BY SumEmpty
<1>2. ASSUME NEW T \in Good, NEW x \in S \ T PROVE T \cup {x} \in Good
  <2>1. IsFiniteSet(T) /\ T \in SUBSET D /\ x \in D \ T
    BY FS_Subset
  <2>2. /\ F(T \cup {x}) = f[x] + F(T) /\ H(T \cup {x}) = h[x] + H(T)
        /\ K(T \cup {x}) = k[x] + K(T)
    BY <2>1, SumAdd
  <2>3. K(T) = F(T) + H(T) /\ k[x] = f[x] + h[x]
    OBVIOUS
  <2>4. F(T) \in Nat /\ H(T) \in Nat /\ f[x] \in Nat /\ h[x] \in Nat
    BY <2>1, SumSteps
  <2>5. T \cup {x} \in SUBSET S
    OBVIOUS
  <2> HIDE DEF F, H, K
  <2> QED
    BY <2>2, <2>3, <2>4, <2>5
<1>3. S \in Good
  <2>1. Good \in SUBSET SUBSET S /\ \A T \in Good : \A x \in S \ T : T \cup {x} \in Good
    BY <1>2
  <2> HIDE DEF Good
  <2> QED
    BY <1>1, <2>1, SetInduction
<1> QED
  BY <1>3

LEMMA SumZero ==
  ASSUME NEW D, NEW f \in [D -> Nat], NEW S \in SUBSET D, IsFiniteSet(S),
         \A x \in S : f[x] = 0
  PROVE  SumFunctionOnSet(f, S) = 0
<1>1. SumFunctionOnSet(f, S) = SumFunctionOnSet(f, S) + SumFunctionOnSet(f, S)
  BY SumPlus
<1>2. SumFunctionOnSet(f, S) \in Nat
  BY SumSteps
<1> DEFINE n == SumFunctionOnSet(f, S)
<1>3. n = n + n /\ n \in Nat
  BY <1>1, <1>2
<1> HIDE DEF n
<1>4. n = 0
  BY <1>3
<1> QED
  BY <1>4 DEF n

\* One where x is and zero elsewhere.
One(x, S) == [y \in S |-> IF y = x THEN 1 ELSE 0]

LEMMA SumOne ==
  ASSUME NEW S, IsFiniteSet(S), NEW x \in S
  PROVE  One(x, S) \in [S -> Nat] /\ SumFunctionOnSet(One(x, S), S) = 1
<1> DEFINE T == S \ {x}
           f == One(x, S)
<1>1. /\ f \in [S -> Nat] /\ IsFiniteSet(T) /\ T \in SUBSET S /\ x \in S \ T
      /\ T \cup {x} = S /\ f[x] = 1 /\ \A y \in T : f[y] = 0
  BY FS_RemoveElement DEF One
<1> HIDE DEF f, T
<1>2. SumFunctionOnSet(f, T \cup {x}) = f[x] + SumFunctionOnSet(f, T)
  BY <1>1, SumAdd
<1>3. SumFunctionOnSet(f, T) = 0
  BY <1>1, SumZero
<1>4. SumFunctionOnSet(f, S) = 1
  BY <1>1, <1>2, <1>3
<1> QED
  BY <1>1, <1>4 DEF f

\* Every element of T is counted where h sends it, and nowhere else.
Hits(h, T, S) == [i \in S |-> Cardinality({n \in T : h[n] = i})]

LEMMA SumHits ==
  ASSUME NEW S, IsFiniteSet(S), NEW N, IsFiniteSet(N), NEW h \in [N -> S]
  PROVE  Hits(h, N, S) \in [S -> Nat] /\ SumFunctionOnSet(Hits(h, N, S), S) = Cardinality(N)
<1> DEFINE F(T) == Hits(h, T, S)
           Good == {T \in SUBSET N : SumFunctionOnSet(F(T), S) = Cardinality(T)}
<1>1. ASSUME NEW T \in SUBSET N
      PROVE  /\ F(T) \in [S -> Nat] /\ \A i \in S : IsFiniteSet({n \in T : h[n] = i})
             /\ IsFiniteSet(T) /\ Cardinality(T) \in Nat
  <2>1. IsFiniteSet(T) /\ Cardinality(T) \in Nat
    BY FS_Subset, FS_CardinalityType
  <2>2. ASSUME NEW i \in S
        PROVE  LET C == {n \in T : h[n] = i} IN IsFiniteSet(C) /\ Cardinality(C) \in Nat
    <3> DEFINE C == {n \in T : h[n] = i}
    <3>1. C \in SUBSET T
      OBVIOUS
    <3> HIDE DEF C
    <3>2. IsFiniteSet(C) /\ Cardinality(C) \in Nat
      BY <2>1, <3>1, FS_Subset, FS_CardinalityType
    <3> QED
      BY <3>2 DEF C
  <2> QED
    BY <2>1, <2>2 DEF Hits
<1>2. {} \in Good
  <2>1. \A i \in S : {n \in {} : h[n] = i} = {}
    OBVIOUS
  <2>2. \A i \in S : F({})[i] = 0
    BY <2>1, FS_EmptySet DEF Hits
  <2>3. SumFunctionOnSet(F({}), S) = 0
    <3>1. F({}) \in [S -> Nat]
      BY <1>1
    <3> HIDE DEF F
    <3> QED
      BY <2>2, <3>1, SumZero
  <2> QED
    BY <2>3, FS_EmptySet
<1>3. ASSUME NEW T \in Good, NEW x \in N \ T PROVE T \cup {x} \in Good
  <2> DEFINE W == T \cup {x}
             o == One(h[x], S)
  <2>1. ASSUME NEW i \in S PROVE F(W)[i] = F(T)[i] + o[i]
    <3> DEFINE C == {n \in T : h[n] = i}
    <3>1. IsFiniteSet(C) /\ x \notin C
      BY <1>1
    <3>2. Cardinality(C \cup {x}) = Cardinality(C) + 1
      <4> HIDE DEF C
      <4> QED
        BY <3>1, FS_AddElement
    <3>3. {n \in W : h[n] = i} = IF h[x] = i THEN C \cup {x} ELSE C
      OBVIOUS
    <3>4. /\ F(W)[i] = Cardinality({n \in W : h[n] = i}) /\ F(T)[i] = Cardinality(C)
          /\ o[i] = IF h[x] = i THEN 1 ELSE 0
      BY DEF Hits, One
    <3>5. Cardinality(C) \in Nat
      <4> HIDE DEF C
      <4> QED
        BY <3>1, FS_CardinalityType
    <3>6. F(W)[i] = IF h[x] = i THEN Cardinality(C \cup {x}) ELSE Cardinality(C)
      <4>1. CASE h[x] = i
        BY <3>3, <3>4, <4>1
      <4>2. CASE h[x] # i
        BY <3>3, <3>4, <4>2
      <4> QED
        BY <4>1, <4>2
    <3> HIDE DEF C, F, W, o
    <3> QED
      BY <3>2, <3>4, <3>5, <3>6
  <2>2. F(W) \in [S -> Nat] /\ F(T) \in [S -> Nat]
    BY <1>1
  <2>3. o \in [S -> Nat] /\ SumFunctionOnSet(o, S) = 1
    BY SumOne
  <2>4. SumFunctionOnSet(F(W), S) = SumFunctionOnSet(F(T), S) + SumFunctionOnSet(o, S)
    <3> HIDE DEF F, W, o
    <3> QED
      BY <2>1, <2>2, <2>3, SumPlus
  <2>5. Cardinality(W) = Cardinality(T) + 1
    <3>1. IsFiniteSet(T) /\ x \notin T
      BY <1>1
    <3> QED
      BY <3>1, FS_AddElement
  <2>6. SumFunctionOnSet(F(T), S) = Cardinality(T)
    OBVIOUS
  <2>7. SumFunctionOnSet(F(W), S) = Cardinality(W)
    <3> HIDE DEF F, W, o
    <3> QED
      BY <2>3, <2>4, <2>5, <2>6
  <2> QED
    BY <2>7
<1>4. N \in Good
  <2>1. Good \in SUBSET SUBSET N /\ \A T \in Good : \A x \in N \ T : T \cup {x} \in Good
    BY <1>3
  <2> HIDE DEF Good
  <2> QED
    BY <1>2, <2>1, SetInduction
<1>5. F(N) \in [S -> Nat]
  BY <1>1
<1> QED
  BY <1>4, <1>5

-----------------------------------------------------------------------------
(* What a grant brings is a natural number of everything.                  *)

LEMMA Assumed ==
  /\ \A S \in {Counted, DOMAIN Packs, DOMAIN Coins, Pos, Talents, Insc} : IsFiniteSet(S)
  /\ Insc \cap Pay = {} /\ None \notin Insc /\ Fillable \subseteq Insc
  /\ \A p \in DOMAIN Packs : Packs[p] \in Seq(Items \X (Nat \ {0}))
  /\ \A i \in DOMAIN Coins : Coins[i] \in Pay \X Nat
  /\ DOMAIN Packs \subseteq Items /\ DOMAIN Coins \subseteq Items
  /\ Talents \subseteq Nat /\ Budget \in Nat /\ Budget > 0
  /\ LastPage \in Nat /\ LastPage > 0 /\ MaxUid \in Nat
  /\ ExchangePrice \in Nat /\ PagePrice \in Nat /\ MergeSize \in Nat
  /\ Prices \subseteq Nat /\ Quantities \subseteq Nat
  /\ MaxCount \in [Counted -> Nat]
  /\ Insc \subseteq Counted /\ Pay \subseteq Counted /\ Stock \subseteq Counted
<1>1. Insc \subseteq Counted /\ Pay \subseteq Counted /\ Stock \subseteq Counted
  BY DEF Counted
<1>2. DOMAIN Packs \subseteq Items /\ DOMAIN Coins \subseteq Items
  BY DEF Items
<1>3. IsFiniteSet(Insc)
  BY <1>1, PurseAssumption, FS_Subset
<1> QED
  BY <1>1, <1>2, <1>3, PurseAssumption

LEMMA Times == ASSUME NEW a \in Nat, NEW b \in Nat PROVE a * b \in Nat
  OBVIOUS

\* SumFunction is the sum over the whole domain.
LEMMA SumWhole ==
  ASSUME NEW D, NEW f \in [D -> Nat], IsFiniteSet(D)
  PROVE  SumFunction(f) \in Nat
<1>1. SumFunction(f) = SumFunctionOnSet(f, D)
  BY DEF SumFunction
<1>2. D \in SUBSET D
  OBVIOUS
<1>3. SumFunctionOnSet(f, D) \in Nat
  BY <1>2, SumSteps
<1> QED
  BY <1>1, <1>3

Rows == [DOMAIN Packs -> [Items -> Nat]]

\* A row of Content, from the row of the next depth.
Parts(d, h, p, i) ==
  [n \in DOMAIN Packs[p] |->
     LET child == Packs[p][n][1] IN Packs[p][n][2] *
       IF child \in DOMAIN Packs
       THEN IF d < 4 THEN h[child][i] ELSE 0
       ELSE IF child = i THEN 1 ELSE 0]

RowOf(d, h) ==
  [p \in DOMAIN Packs |-> [i \in Items |-> SumFunction(Parts(d, h, p, i))]]

LEMMA RowType ==
  ASSUME NEW d \in 0 .. 4, NEW h, d < 4 => h \in Rows
  PROVE  RowOf(d, h) \in Rows
<1>1. ASSUME NEW p \in DOMAIN Packs, NEW i \in Items
      PROVE  SumFunction(Parts(d, h, p, i)) \in Nat
  <2> DEFINE s == Packs[p]
  <2>1. s \in Seq(Items \X (Nat \ {0})) /\ DOMAIN s = 1 .. Len(s) /\ Len(s) \in Nat
    BY Assumed
  <2>2. IsFiniteSet(DOMAIN s)
    BY <2>1, FS_Interval
  <2>3. ASSUME NEW n \in DOMAIN s PROVE Parts(d, h, p, i)[n] \in Nat
    <3> DEFINE child == s[n][1]
               m == IF child \in DOMAIN Packs
                    THEN IF d < 4 THEN h[child][i] ELSE 0
                    ELSE IF child = i THEN 1 ELSE 0
    <3>1. s[n] \in Items \X (Nat \ {0})
      BY <2>1
    <3>2. s[n][2] \in Nat
      BY <3>1
    <3>3. m \in Nat
      BY DEF Rows
    <3>4. Parts(d, h, p, i)[n] = s[n][2] * m
      BY DEF Parts
    <3> HIDE DEF m, s
    <3> QED
      BY <3>2, <3>3, <3>4, Times
  <2>4. Parts(d, h, p, i) \in [DOMAIN s -> Nat]
    <3>1. Parts(d, h, p, i) = [n \in DOMAIN s |-> Parts(d, h, p, i)[n]]
      BY DEF Parts
    <3> QED
      BY <2>3, <3>1
  <2> HIDE DEF s
  <2> QED
    BY <2>2, <2>4, SumWhole
<1> QED
  BY <1>1 DEF RowOf, Rows

LEMMA LastRow == ASSUME NEW h, NEW k PROVE RowOf(4, h) = RowOf(4, k)
<1>1. ASSUME NEW p \in DOMAIN Packs, NEW i \in Items
      PROVE  Parts(4, h, p, i) = Parts(4, k, p, i)
  <2>1. \A n \in DOMAIN Packs[p] : Parts(4, h, p, i)[n] = Parts(4, k, p, i)[n]
    BY DEF Parts
  <2>2. /\ Parts(4, h, p, i) = [n \in DOMAIN Packs[p] |-> Parts(4, h, p, i)[n]]
        /\ Parts(4, k, p, i) = [n \in DOMAIN Packs[p] |-> Parts(4, k, p, i)[n]]
    BY DEF Parts
  <2> QED
    BY <2>1, <2>2
<1> QED
  BY <1>1 DEF RowOf

IsContent(f) == f = [d \in 0 .. 4 |-> RowOf(d, f[d + 1])]

\* The recursion over the depth has a solution.
LEMMA ContentRows == \A d \in 0 .. 4 : Content[d] = RowOf(d, Content[d + 1])
<1> DEFINE r4 == RowOf(4, 0)
           r3 == RowOf(3, r4)
           r2 == RowOf(2, r3)
           r1 == RowOf(1, r2)
           r0 == RowOf(0, r1)
           f == [d \in 0 .. 4 |-> IF d = 4 THEN r4 ELSE IF d = 3 THEN r3
                                  ELSE IF d = 2 THEN r2 ELSE IF d = 1 THEN r1 ELSE r0]
<1>1. /\ f[4] = r4 /\ f[3] = r3 /\ f[2] = r2 /\ f[1] = r1 /\ f[0] = r0
  BY DEF RowOf
<1>2. /\ f[4] = RowOf(4, f[5]) /\ f[3] = RowOf(3, f[4]) /\ f[2] = RowOf(2, f[3])
      /\ f[1] = RowOf(1, f[2]) /\ f[0] = RowOf(0, f[1])
  BY <1>1, LastRow
<1>3. \A d \in 0 .. 4 : f[d] = RowOf(d, f[d + 1])
  <2> HIDE DEF f
  <2>1. \A d \in 0 .. 4 : d = 0 \/ d = 1 \/ d = 2 \/ d = 3 \/ d = 4
    OBVIOUS
  <2>2. 0 + 1 = 1 /\ 1 + 1 = 2 /\ 2 + 1 = 3 /\ 3 + 1 = 4 /\ 4 + 1 = 5
    OBVIOUS
  <2> QED
    BY <1>2, <2>1, <2>2
<1>4. f = [d \in 0 .. 4 |-> f[d]]
  OBVIOUS
<1> HIDE DEF f
<1>5. IsContent(f)
  BY <1>3, <1>4 DEF IsContent
<1>6. Content = CHOOSE g : IsContent(g)
  BY DEF Content, IsContent, RowOf, Parts
<1>7. IsContent(Content)
  BY <1>5, <1>6
<1> QED
  BY <1>7 DEF IsContent

LEMMA ContentType == \A d \in 0 .. 4 : Content[d] \in Rows
<1>1. Content[4] \in Rows
  <2>1. Content[4] = RowOf(4, Content[5])
    BY ContentRows
  <2> QED
    BY <2>1, RowType
<1>2. ASSUME NEW d \in 0 .. 3, Content[d + 1] \in Rows PROVE Content[d] \in Rows
  <2>1. Content[d] = RowOf(d, Content[d + 1]) /\ d \in 0 .. 4
    BY ContentRows
  <2> QED
    BY <1>2, <2>1, RowType
<1>3. Content[3] \in Rows
  BY <1>1, <1>2
<1>4. Content[2] \in Rows
  BY <1>2, <1>3
<1>5. Content[1] \in Rows
  BY <1>2, <1>4
<1>6. Content[0] \in Rows
  BY <1>2, <1>5
<1>7. \A d \in 0 .. 4 : d = 0 \/ d = 1 \/ d = 2 \/ d = 3 \/ d = 4
  OBVIOUS
<1> QED
  BY <1>1, <1>3, <1>4, <1>5, <1>6, <1>7

LEMMA ContentsType == ASSUME NEW item \in Items, NEW i \in Items PROVE Contents[item][i] \in Nat
<1>1. Content[0] \in Rows
  BY ContentType
<1>2. Contents[item][i] =
        IF item \in DOMAIN Packs THEN Content[0][item][i] ELSE IF item = i THEN 1 ELSE 0
  BY DEF Contents
<1>3. CASE item \in DOMAIN Packs
  BY <1>1, <1>2, <1>3 DEF Rows
<1>4. CASE item \notin DOMAIN Packs
  BY <1>2, <1>4
<1> QED
  BY <1>3, <1>4

LEMMA CreditsType == ASSUME NEW item \in Items, NEW pay \in Pay PROVE Credits[item][pay] \in Nat
<1> DEFINE D == {i \in DOMAIN Coins : Coins[i][1] = pay}
           f == [i \in D |-> Coins[i][2] * Contents[item][i]]
<1>1. IsFiniteSet(D)
  <2>1. D \in SUBSET DOMAIN Coins /\ IsFiniteSet(DOMAIN Coins)
    BY Assumed
  <2> HIDE DEF D
  <2> QED
    BY <2>1, FS_Subset
<1>2. ASSUME NEW i \in D PROVE Coins[i][2] * Contents[item][i] \in Nat
  <2>1. Coins[i][2] \in Nat /\ i \in Items
    BY Assumed
  <2>2. Contents[item][i] \in Nat
    BY <2>1, ContentsType
  <2> QED
    BY <2>1, <2>2, Times
<1>3. f \in [D -> Nat]
  BY <1>2
<1>4. SumFunction(f) \in Nat
  <2> HIDE DEF f, D
  <2> QED
    BY <1>1, <1>3, SumWhole
<1>5. Credits[item][pay] = SumFunction(f)
  BY DEF Credits
<1> QED
  BY <1>4, <1>5

LEMMA CountedItems == \A i \in Counted : i \in Pay \/ i \in Items
  BY DEF Counted, Items

\* Counts stay natural numbers, whatever is granted.
LEMMA GrantedType ==
  ASSUME NEW h \in [Counted -> Nat], NEW item \in Items, NEW qty \in Nat
  PROVE  Granted(h, item, qty) \in [Counted -> Nat]
<1>1. ASSUME NEW i \in Counted PROVE Granted(h, item, qty)[i] \in Nat
  <2>1. Granted(h, item, qty)[i] =
          IF i \in Pay THEN h[i] + qty * Credits[item][i]
          ELSE IF i \in Unlimited /\ qty * Contents[item][i] > 0 THEN 1
          ELSE h[i] + qty * Contents[item][i]
    BY DEF Granted
  <2>2. CASE i \in Pay
    <3>1. qty * Credits[item][i] \in Nat
      BY <2>2, CreditsType, Times
    <3> QED
      BY <2>1, <2>2, <3>1
  <2>3. CASE i \notin Pay
    <3>1. i \in Items
      BY <2>3, CountedItems
    <3>2. qty * Contents[item][i] \in Nat
      BY <3>1, ContentsType, Times
    <3> QED
      BY <2>1, <2>3, <3>2
  <2> QED
    BY <2>2, <2>3
<1>2. Granted(h, item, qty) = [i \in Counted |-> Granted(h, item, qty)[i]]
  BY DEF Granted
<1> QED
  BY <1>1, <1>2

\* And so do they in a record that is migrated.
LEMMA MigratedType ==
  ASSUME NEW old \in [Items -> Nat], IsFiniteSet({item \in Items \ Insc : old[item] > 0})
  PROVE  Migrated(old) \in [Counted -> Nat]
<1> DEFINE S == {item \in Items \ Insc : old[item] > 0}
           base == [i \in Counted |-> IF i \in Insc THEN old[i] ELSE 0]
           M == [Counted -> Nat]
           G == [p \in S \X M |-> Granted(p[2], p[1], old[p[1]])]
           c == [s \in SUBSET S |-> Pick(s)]
           Folds(g) == g = [s \in SUBSET S |->
                              IF s = {} THEN base
                              ELSE Granted(g[s \ {Pick(s)}], Pick(s), old[Pick(s)])]
<1>1. base \in M
  <2>1. Insc \subseteq Items
    BY DEF Items
  <2> QED
    BY <2>1
<1>2. \A s \in SUBSET S : s # {} => c[s] \in s
  BY PickIn
<1>3. \A x \in S, m \in M : G[<<x, m>>] = Granted(m, x, old[x]) /\ G[<<x, m>>] \in M
  BY GrantedType
<1>4. \A s \in SUBSET S : c[s] = Pick(s)
  OBVIOUS
<1>5. IsFiniteSet(S) /\ S \in SUBSET S
  OBVIOUS
<1>6. Migrated(old) = (CHOOSE g : Folds(g))[S]
  BY DEF Migrated, FoldSet, MapThenFoldSet, Pick
<1> HIDE DEF G, c, M, base, S
<1>7. PICK k : FoldsTo(k, G, c, base, S)
  BY <1>2, <1>5, FoldExists
<1>8. \A s \in SUBSET S : k[s] \in M
  BY <1>1, <1>2, <1>3, <1>5, <1>7, FoldType
<1>9. ASSUME NEW s \in SUBSET S
      PROVE  k[s] = IF s = {} THEN base
                    ELSE Granted(k[s \ {Pick(s)}], Pick(s), old[Pick(s)])
  <2>1. k[s] = IF s = {} THEN base ELSE G[<<c[s], k[s \ {c[s]}]>>]
    BY <1>7 DEF FoldsTo
  <2>2. CASE s = {}
    BY <2>1, <2>2
  <2>3. CASE s # {}
    <3>1. c[s] \in S /\ k[s \ {c[s]}] \in M
      BY <1>2, <1>8, <2>3
    <3>2. k[s] = Granted(k[s \ {c[s]}], c[s], old[c[s]])
      BY <1>3, <2>1, <2>3, <3>1
    <3> QED
      BY <1>4, <2>3, <3>2
  <2> QED
    BY <2>2, <2>3
<1>10. Folds(k)
  <2>1. k = [s \in SUBSET S |-> k[s]]
    BY <1>7 DEF FoldsTo
  <2> QED
    BY <1>9, <2>1
<1> HIDE DEF Folds
<1>11. PICK g : g = (CHOOSE x : Folds(x)) /\ Folds(g)
  BY <1>10
\* Any solution has the type.
<1>12. g[S] \in M
  <2> DEFINE Good == {s \in SUBSET S : g[s] \in M}
  <2>1. ASSUME NEW s \in SUBSET S, \A r \in SUBSET s : r # s => r \in Good
        PROVE  s \in Good
    <3>1. g[s] = IF s = {} THEN base ELSE Granted(g[s \ {Pick(s)}], Pick(s), old[Pick(s)])
      BY <1>11 DEF Folds
    <3>2. CASE s = {}
      BY <1>1, <3>1, <3>2
    <3>3. CASE s # {}
      <4>1. Pick(s) \in s /\ Pick(s) \in S
        BY <3>3, PickIn
      <4>2. g[s \ {Pick(s)}] \in M
        BY <2>1, <4>1
      <4>3. Granted(g[s \ {Pick(s)}], Pick(s), old[Pick(s)]) \in M
        BY <1>3, <4>1, <4>2
      <4> QED
        BY <3>1, <3>3, <4>3
    <3> QED
      BY <3>2, <3>3
  <2>2. /\ \A s \in SUBSET S : (\A r \in SUBSET s : r # s => r \in Good) => s \in Good
        /\ Good \in SUBSET SUBSET S
    BY <2>1
  <2>3. Good = SUBSET S
    <3> HIDE DEF Good
    <3> QED
      BY <1>5, <2>2, SubsetInduction
  <2> QED
    BY <1>5, <2>3
<1> QED
  BY <1>6, <1>11, <1>12 DEF M

-----------------------------------------------------------------------------
(* Talents.                                                                *)

Least(a, b) == IF a < b THEN a ELSE b

\* The ranks of the lower ids, clamped: what was wished, or the whole budget.
LEMMA ClampedPrefix ==
  ASSUME NEW wish \in [Talents -> Nat]
  PROVE  /\ Clamped(wish) \in [Talents -> Nat]
         /\ SumFunctionOnSet(Clamped(wish), Talents) <= Budget
<1> DEFINE k == Clamped(wish)
           W(T) == SumFunctionOnSet(wish, T)
           K(T) == SumFunctionOnSet(k, T)
           P(t) == {s \in Talents : s < t}
           Low(T) == \A a \in T, b \in Talents : b < a => b \in T
           Good == {T \in SUBSET Talents : Low(T) => K(T) = Least(Budget, W(T))}
<1>1. Budget \in Nat /\ Talents \subseteq Nat /\ IsFiniteSet(Talents)
  BY Assumed
<1>2. \A T \in SUBSET Talents : IsFiniteSet(T) /\ W(T) \in Nat
  BY <1>1, FS_Subset, SumSteps
<1>3. ASSUME NEW t \in Talents
      PROVE  LET left == Budget - W(P(t)) IN
             k[t] = IF left <= 0 THEN 0 ELSE IF wish[t] > left THEN left ELSE wish[t]
  BY DEF Clamped
<1>4. k \in [Talents -> Nat]
  <2>1. ASSUME NEW t \in Talents PROVE k[t] \in Nat
    <3>1. W(P(t)) \in Nat /\ wish[t] \in Nat
      BY <1>2
    <3> HIDE DEF W, k, P
    <3> QED
      BY <1>1, <1>3, <3>1
  <2>2. k = [t \in Talents |-> k[t]]
    BY DEF Clamped
  <2> HIDE DEF k
  <2> QED
    BY <2>1, <2>2
<1>5. \A T \in SUBSET Talents : K(T) \in Nat
  <2> HIDE DEF k
  <2> QED
    BY <1>1, <1>2, <1>4, SumSteps
<1>6. ASSUME NEW T \in SUBSET Talents, \A U \in SUBSET T : U # T => U \in Good, Low(T)
      PROVE  K(T) = Least(Budget, W(T))
  <2>1. CASE T = {}
    <3>1. W(T) = 0
      BY <2>1, SumEmpty
    <3>2. K(T) = 0
      <4> HIDE DEF k
      <4> QED
        BY <1>4, <2>1, SumEmpty
    <3> HIDE DEF W, K
    <3> QED
      BY <1>1, <3>1, <3>2 DEF Least
  <2>2. CASE T # {}
    <3>1. PICK m \in T : \A n \in T : n <= m
      BY <1>1, <1>2, <2>2, LargestNat
    <3> DEFINE U == P(m)
    <3>2. \A n \in T : n # m => n < m
      BY <1>1, <3>1
    <3>3. m \notin U /\ U \cup {m} = T /\ U \in SUBSET T /\ U # T
      <4>1. \A n \in T : n \in U \cup {m}
        BY <3>2
      <4>2. \A n \in U : n \in T
        BY <1>6, <3>1
      <4>3. m \notin U
        BY <1>1, <3>1
      <4> QED
        BY <3>1, <4>1, <4>2, <4>3
    <3>4. Low(U)
      BY <1>1
    <3>5. K(U) = Least(Budget, W(U))
      BY <1>6, <3>3, <3>4
    <3>6. W(T) = wish[m] + W(U)
      <4>1. U \in SUBSET Talents /\ IsFiniteSet(U) /\ m \in Talents \ U
        BY <1>2, <3>3
      <4> HIDE DEF U
      <4>2. W(U \cup {m}) = wish[m] + W(U)
        BY <4>1, SumAdd
      <4> QED
        BY <3>3, <4>2
    <3>7. K(T) = k[m] + K(U)
      <4>1. U \in SUBSET Talents /\ IsFiniteSet(U) /\ m \in Talents \ U
        BY <1>2, <3>3
      <4> HIDE DEF U, k
      <4>2. K(U \cup {m}) = k[m] + K(U)
        BY <1>4, <4>1, SumAdd
      <4> QED
        BY <3>3, <4>2
    <3>8. k[m] = IF Budget - W(U) <= 0 THEN 0
                 ELSE IF wish[m] > Budget - W(U) THEN Budget - W(U) ELSE wish[m]
      BY <1>3
    <3>9. W(U) \in Nat /\ wish[m] \in Nat
      BY <1>2, <3>3
    <3> HIDE DEF W, K, U, k
    <3> QED
      BY <1>1, <3>5, <3>6, <3>7, <3>8, <3>9 DEF Least
  <2> QED
    BY <2>1, <2>2
<1>7. /\ \A T \in SUBSET Talents :
           (\A U \in SUBSET T : U # T => U \in Good) => T \in Good
      /\ Good \in SUBSET SUBSET Talents
  BY <1>6
<1>8. Good = SUBSET Talents
  <2> HIDE DEF Good
  <2> QED
    BY <1>1, <1>7, SubsetInduction
<1>9. K(Talents) = Least(Budget, W(Talents))
  <2>1. Talents \in Good /\ Low(Talents)
    BY <1>8
  <2> QED
    BY <2>1
<1>10. W(Talents) \in Nat
  BY <1>2
<1>11. K(Talents) <= Budget
  <2> HIDE DEF W, K
  <2> QED
    BY <1>1, <1>9, <1>10 DEF Least
<1> QED
  BY <1>4, <1>11

-----------------------------------------------------------------------------
(* The invariant: types, and the budget.                                   *)

IInv == TypeOK /\ TalentsShareTheBudget

LEMMA SettleStep ==
  ASSUME NEW wish \in [Talents -> Nat], Settle(wish)
  PROVE  /\ ranks' \in [Talents -> Nat] /\ echo' \in Nat
         /\ TalentsShareTheBudget'
<1> DEFINE n == SumFunctionOnSet(ranks', Talents)
<1>1. ranks' \in [Talents -> Nat] /\ n <= Budget
  BY ClampedPrefix DEF Settle
<1>2. n \in Nat /\ Budget \in Nat
  BY <1>1, Assumed, SumSteps
<1>3. echo' = Larger(0, Budget - n)
  BY DEF Settle
<1>4. TalentsShareTheBudget' <=> n + echo' = Budget
  BY DEF TalentsShareTheBudget
<1> HIDE DEF n
<1>5. echo' = Budget - n
  BY <1>1, <1>2, <1>3 DEF Larger
<1> QED
  BY <1>1, <1>2, <1>4, <1>5

LEMMA DebitedType ==
  ASSUME NEW h \in [Counted -> Nat], NEW pay, NEW amount \in Nat
  PROVE  Debited(h, pay, amount) \in [Counted -> Nat]
<1>1. ASSUME NEW i \in Counted PROVE Larger(0, h[i] - amount) \in Nat
  BY DEF Larger
<1> QED
  BY <1>1 DEF Debited

\* How often an inscription is asked for: as often as some place asks for it.
LEMMA NeededType ==
  ASSUME NEW n \in Nat, NEW S, NEW sources \in [1 .. n -> S], NEW i
  PROVE  Needed(sources, i) \in Nat /\ (i \notin S => Needed(sources, i) = 0)
<1> DEFINE C == {m \in DOMAIN sources : sources[m] = i}
<1>1. IsFiniteSet(1 .. n) /\ C \in SUBSET (1 .. n)
  BY FS_Interval
<1>2. i \notin S => C = {}
  OBVIOUS
<1>3. Needed(sources, i) = Cardinality(C)
  BY DEF Needed
<1> HIDE DEF C
<1>4. IsFiniteSet(C)
  BY <1>1, FS_Subset
<1> QED
  BY <1>2, <1>3, <1>4, FS_CardinalityType, FS_EmptySet

\* An exchange that the inventory covers takes, gives and charges.
LEMMA ExchangedType ==
  ASSUME have \in [Counted -> Nat], NEW n \in Nat, NEW sources \in [1 .. n -> Insc],
         NEW target, NEW pay, NEW price \in Nat,
         \A i \in Insc : have[i] >= Needed(sources, i),
         pay \notin Insc, pay \in Counted => have[pay] >= price
  PROVE  Exchanged(sources, target, pay, price) \in [Counted -> Nat]
<1>1. ASSUME NEW i \in Counted
      PROVE  have[i] - Needed(sources, i) + (IF i = target THEN 1 ELSE 0)
               - (IF i = pay THEN price ELSE 0) \in Nat
  <2>1. /\ Needed(sources, i) \in Nat /\ (i \notin Insc => Needed(sources, i) = 0)
        /\ have[i] \in Nat
    BY NeededType
  <2>2. CASE i \in Insc
    <3>1. i # pay /\ have[i] >= Needed(sources, i)
      BY <2>2
    <3> QED
      BY <2>1, <3>1
  <2>3. CASE i \notin Insc
    BY <2>1, <2>3
  <2> QED
    BY <2>2, <2>3
<1> QED
  BY <1>1 DEF Exchanged

-----------------------------------------------------------------------------
(* The steps.                                                              *)

\* A step that leaves the talents alone keeps their sum.
LEMMA SameTalents ==
  ASSUME IInv, UNCHANGED <<ranks, echo>>
  PROVE  ranks' \in [Talents -> Nat] /\ echo' \in Nat /\ TalentsShareTheBudget'
  BY DEF IInv, TypeOK, TalentsShareTheBudget

LEMMA NoSocketsType == NoSockets \in Sockets /\ Idle \in Call
<1>1. NoSockets \in Sockets
  BY DEF NoSockets, Sockets
<1>2. 0 \in 0 .. MaxUid /\ 0 \in 0 .. LastPage
  BY Assumed
<1> QED
  BY <1>1, <1>2 DEF Idle, Call

\* A step that only counts.
LEMMA CountStep ==
  ASSUME IInv, have' \in [Counted -> Nat],
         UNCHANGED <<heroes, socks, next, open, call>>,
         \/ UNCHANGED <<ranks, echo>>
         \/ ranks' \in [Talents -> Nat] /\ echo' \in Nat /\ TalentsShareTheBudget'
  PROVE  IInv'
<1>1. ranks' \in [Talents -> Nat] /\ echo' \in Nat /\ TalentsShareTheBudget'
  BY SameTalents
<1>2. TypeOK'
  BY <1>1 DEF IInv, TypeOK
<1> QED
  BY <1>1, <1>2 DEF IInv

LEMMA PurchaseStep ==
  ASSUME IInv, NEW item \in Items, NEW qty \in Quantities, NEW pay \in Pay,
         NEW price \in Prices, Purchase(item, qty, pay, price)
  PROVE  IInv'
<1> DEFINE new == qty * Contents[item][Tablet]
<1>1. qty \in Nat /\ price \in Nat /\ Tablet \in Items /\ MaxUid \in Nat
  BY Assumed DEF Items
<1>2. new \in Nat
  BY <1>1, ContentsType, Times
<1>3. have' \in [Counted -> Nat]
  <2>1. Debited(have, pay, price) \in [Counted -> Nat]
    BY <1>1, DebitedType DEF IInv, TypeOK
  <2> QED
    BY <1>1, <2>1, GrantedType DEF Purchase
<1>4. /\ next + new <= MaxUid + 1 /\ next' = next + new
      /\ heroes' \subseteq Heroes
      /\ socks' = [u \in DOMAIN socks \cup next .. next + new - 1 |->
                     IF u \in DOMAIN socks THEN socks[u] ELSE NoSockets]
      /\ UNCHANGED <<open, ranks, echo, call>>
  BY DEF Purchase, Grants, IInv, TypeOK
<1> HIDE DEF new
<1>5. /\ next \in 1 .. MaxUid + 1 /\ DOMAIN socks \subseteq 1 .. next - 1
      /\ \A u \in DOMAIN socks : socks[u] \in Sockets
  BY DEF IInv, TypeOK
<1>6. /\ next' \in 1 .. MaxUid + 1
      /\ DOMAIN socks' \subseteq 1 .. next' - 1
  BY <1>1, <1>2, <1>4, <1>5
<1>7. \A u \in DOMAIN socks' : socks'[u] \in Sockets
  BY <1>4, <1>5, NoSocketsType
<1>8. ranks' \in [Talents -> Nat] /\ echo' \in Nat /\ TalentsShareTheBudget'
  BY <1>4, SameTalents
<1>9. TypeOK'
  BY <1>3, <1>4, <1>6, <1>7, <1>8 DEF IInv, TypeOK
<1> QED
  BY <1>8, <1>9 DEF IInv

\* A merge and a gold exchange, on any inventory that has its type.
LEMMA MergeCounts ==
  ASSUME have \in [Counted -> Nat], MergeSome
  PROVE  \E sources \in [1 .. MergeSize -> Insc], target \in Insc :
           /\ have' = Exchanged(sources, target, None, 0)
           /\ \A i \in Insc : have[i] >= Needed(sources, i)
           /\ have' \in [Counted -> Nat]
           /\ UNCHANGED <<heroes, socks, next, open, ranks, echo, call>>
<1>1. PICK tiers \in {<<Bronze, Silver>>, <<Silver, Gold>>} :
        \E sources \in [1 .. MergeSize -> tiers[1]], target \in tiers[2] : Merge(sources, target)
  BY DEF MergeSome
<1>2. tiers[1] \subseteq Insc /\ tiers[2] \subseteq Insc
  BY DEF Insc
<1>3. PICK sources \in [1 .. MergeSize -> tiers[1]], target \in tiers[2] : Merge(sources, target)
  BY <1>1
<1>4. sources \in [1 .. MergeSize -> Insc] /\ target \in Insc /\ MergeSize \in Nat
  BY <1>2, Assumed
<1>5. /\ have' = Exchanged(sources, target, None, 0)
      /\ \A i \in Insc : have[i] >= Needed(sources, i)
      /\ UNCHANGED <<heroes, socks, next, open, ranks, echo, call>>
  BY <1>3 DEF Merge
<1>6. have' \in [Counted -> Nat]
  <2>1. None \notin Insc /\ 0 \in Nat /\ (None \in Counted => have[None] >= 0)
    BY Assumed
  <2> QED
    BY <1>4, <1>5, <2>1, ExchangedType
<1> QED
  BY <1>4, <1>5, <1>6

LEMMA ExchangeCounts ==
  ASSUME have \in [Counted -> Nat], ExchangeSome
  PROVE  \E source, target \in Insc, pay \in Pay :
           /\ have' = Exchanged(<<source>>, target, pay, ExchangePrice)
           /\ \A i \in Insc : have[i] >= Needed(<<source>>, i)
           /\ have[pay] >= ExchangePrice
           /\ have' \in [Counted -> Nat]
           /\ UNCHANGED <<heroes, socks, next, open, ranks, echo, call>>
<1>1. PICK source \in Gold, target \in Gold, pay \in Pay : ExchangeGold(source, target, pay)
  BY DEF ExchangeSome
<1>2. source \in Insc /\ target \in Insc /\ pay \notin Insc /\ ExchangePrice \in Nat
  BY Assumed DEF Insc
<1>3. /\ have' = Exchanged(<<source>>, target, pay, ExchangePrice)
      /\ have[source] >= 1 /\ have[pay] >= ExchangePrice
      /\ UNCHANGED <<heroes, socks, next, open, ranks, echo, call>>
  BY <1>1 DEF ExchangeGold
<1>4. ASSUME NEW i \in Insc PROVE have[i] >= Needed(<<source>>, i)
  <2> DEFINE C == {m \in DOMAIN <<source>> : <<source>>[m] = i}
  <2>1. C = IF i = source THEN {1} ELSE {}
    OBVIOUS
  <2>2. Cardinality(C) = IF i = source THEN 1 ELSE 0
    BY <2>1, FS_Singleton, FS_EmptySet
  <2>3. have[i] \in Nat
    BY Assumed
  <2>4. Needed(<<source>>, i) = Cardinality(C)
    BY DEF Needed
  <2> HIDE DEF C
  <2> QED
    BY <1>3, <2>2, <2>3, <2>4
<1>5. have' \in [Counted -> Nat]
  <2>1. <<source>> \in [1 .. 1 -> Insc] /\ 1 \in Nat
    BY <1>2
  <2> DEFINE sources == <<source>>
  <2> HIDE DEF sources
  <2>2. Exchanged(sources, target, pay, ExchangePrice) \in [Counted -> Nat]
    BY <1>2, <1>3, <1>4, <2>1, ExchangedType DEF sources
  <2> QED
    BY <1>3, <2>2 DEF sources
<1> QED
  BY <1>2, <1>3, <1>4, <1>5

LEMMA ExchangeStep ==
  ASSUME IInv, MergeSome \/ ExchangeSome
  PROVE  IInv'
<1>1. have \in [Counted -> Nat]
  BY DEF IInv, TypeOK
<1>2. /\ have' \in [Counted -> Nat]
      /\ UNCHANGED <<heroes, socks, next, open, ranks, echo, call>>
  BY <1>1, MergeCounts, ExchangeCounts
<1> QED
  BY <1>2, CountStep

LEMMA UseUpStep ==
  ASSUME IInv, NEW i \in Insc \cup Stock, NEW qty \in Quantities, UseUp(i, qty)
  PROVE  IInv'
<1>1. qty \in Nat /\ i \in Counted
  BY Assumed
<1>2. Larger(0, have[i] - qty) \in Nat
  BY <1>1 DEF Larger, IInv, TypeOK
<1>3. have' \in [Counted -> Nat]
  BY <1>1, <1>2 DEF UseUp, IInv, TypeOK
<1> QED
  BY <1>3, CountStep DEF UseUp

LEMMA ReturnSocketsStep ==
  ASSUME IInv, NEW u \in 1 .. MaxUid, ReturnSockets(u)
  PROVE  IInv'
<1>1. ASSUME NEW i \in Counted
      PROVE  have[i] + Cardinality({p \in Pos : socks[u][p] = i}) \in Nat
  <2> DEFINE C == {p \in Pos : socks[u][p] = i}
  <2>1. C \in SUBSET Pos /\ IsFiniteSet(Pos) /\ have[i] \in Nat
    BY Assumed DEF IInv, TypeOK
  <2> HIDE DEF C
  <2>2. Cardinality(C) \in Nat
    BY <2>1, FS_Subset, FS_CardinalityType
  <2>3. have[i] + Cardinality(C) \in Nat
    BY <2>1, <2>2
  <2> QED
    BY <2>3 DEF C
<1>2. have' \in [Counted -> Nat]
  BY <1>1 DEF ReturnSockets
<1>3. /\ DOMAIN socks' \subseteq 1 .. next - 1
      /\ \A v \in DOMAIN socks' : socks'[v] \in Sockets
      /\ UNCHANGED <<heroes, next, open, ranks, echo, call>>
  BY DEF ReturnSockets, IInv, TypeOK
<1>4. ranks' \in [Talents -> Nat] /\ echo' \in Nat /\ TalentsShareTheBudget'
  BY <1>3, SameTalents
<1>5. TypeOK'
  BY <1>2, <1>3, <1>4 DEF IInv, TypeOK
<1> QED
  BY <1>4, <1>5 DEF IInv

LEMMA TalentStep ==
  ASSUME IInv,
         \/ \E T \in SUBSET Talents : \E rows \in [T -> 0 .. Budget] : ApplyTalentUpdate(rows)
         \/ ResetTalents
         \/ \E cost \in Prices : UnlockTalent(cost)
  PROVE  IInv'
<1>1. have \in [Counted -> Nat] /\ ranks \in [Talents -> Nat] /\ Budget \in Nat
  BY Assumed DEF IInv, TypeOK
<1>2. CASE \E T \in SUBSET Talents : \E rows \in [T -> 0 .. Budget] : ApplyTalentUpdate(rows)
  <2>1. PICK T \in SUBSET Talents : \E rows \in [T -> 0 .. Budget] : ApplyTalentUpdate(rows)
    BY <1>2
  <2>2. PICK rows \in [T -> 0 .. Budget] : ApplyTalentUpdate(rows)
    BY <2>1
  <2> DEFINE wish == [t \in Talents |-> IF t \in DOMAIN rows THEN rows[t] ELSE ranks[t]]
  <2>3. wish \in [Talents -> Nat]
    BY <1>1
  <2>4. Settle(wish) /\ UNCHANGED <<have, heroes, socks, next, open, call>>
    BY <2>2 DEF ApplyTalentUpdate
  <2> HIDE DEF wish
  <2> QED
    BY <1>1, <2>3, <2>4, SettleStep, CountStep
<1>3. CASE ResetTalents
  <2> DEFINE wish == [t \in Talents |-> 0]
  <2>1. wish \in [Talents -> Nat]
    OBVIOUS
  <2>2. Settle(wish) /\ UNCHANGED <<have, heroes, socks, next, open, call>>
    BY <1>3 DEF ResetTalents
  <2> HIDE DEF wish
  <2> QED
    BY <1>1, <2>1, <2>2, SettleStep, CountStep
<1>4. CASE \E cost \in Prices : UnlockTalent(cost)
  <2>1. PICK cost \in Prices : UnlockTalent(cost)
    BY <1>4
  <2>2. /\ Settle(ranks) /\ UNCHANGED <<heroes, socks, next, open, call>>
        /\ have' = Debited(have, "rune", cost) /\ cost \in Nat
    BY <2>1, Assumed DEF UnlockTalent
  <2>3. have' \in [Counted -> Nat]
    BY <1>1, <2>2, DebitedType
  <2> QED
    BY <1>1, <2>2, <2>3, SettleStep, CountStep
<1> QED
  BY <1>2, <1>3, <1>4

\* A step of a connection that is in the middle of a request.
LEMMA CallStep ==
  ASSUME IInv, NEW c \in Conns, NEW r \in Call, call' = [call EXCEPT ![c] = r],
         have' \in [Counted -> Nat], open' \in 1 .. LastPage,
         DOMAIN socks' = DOMAIN socks, \A u \in DOMAIN socks : socks'[u] \in Sockets,
         UNCHANGED <<heroes, next, ranks, echo>>
  PROVE  IInv'
<1>1. ranks' \in [Talents -> Nat] /\ echo' \in Nat /\ TalentsShareTheBudget'
  BY SameTalents
<1>2. call' \in [Conns -> Call]
  BY DEF IInv, TypeOK
<1>3. TypeOK'
  BY <1>1, <1>2 DEF IInv, TypeOK
<1> QED
  BY <1>1, <1>3 DEF IInv

LEMMA PageStep ==
  ASSUME IInv, NEW c \in Conns,
         \/ \E page \in 1 .. LastPage, pay \in Pay \cup {None} : PayPage(c, page, pay)
         \/ UnlockPage(c)
  PROVE  IInv'
<1>1. /\ have \in [Counted -> Nat] /\ call[c] \in Call /\ open \in 1 .. LastPage
      /\ \A u \in DOMAIN socks : socks[u] \in Sockets
  BY DEF IInv, TypeOK
<1>2. CASE \E page \in 1 .. LastPage, pay \in Pay \cup {None} : PayPage(c, page, pay)
  <2>1. PICK page \in 1 .. LastPage, pay \in Pay \cup {None} : PayPage(c, page, pay)
    BY <1>2
  <2> DEFINE r == [Idle EXCEPT !.at = "unlock", !.page = page]
  <2>2. r \in Call
    <3>1. page \in 0 .. LastPage /\ "unlock" \in {"idle", "unlock", "fill"}
      BY Assumed
    <3> DEFINE x == [Idle EXCEPT !.at = "unlock"]
    <3>2. x \in Call
      BY <3>1, NoSocketsType DEF Call
    <3>3. r = [x EXCEPT !.page = page]
      OBVIOUS
    <3> HIDE DEF x, r
    <3> QED
      BY <3>1, <3>2, <3>3 DEF Call
  <2>3. /\ have' = Debited(have, pay, PagePrice)
        /\ call' = [call EXCEPT ![c] = r]
        /\ UNCHANGED <<heroes, socks, next, open, ranks, echo>>
    BY <2>1 DEF PayPage
  <2>4. have' \in [Counted -> Nat]
    BY <1>1, <2>3, DebitedType, Assumed
  <2> HIDE DEF r
  <2> QED
    BY <1>1, <2>2, <2>3, <2>4, CallStep
<1>3. CASE UnlockPage(c)
  <2>1. call[c].page \in 0 .. LastPage
    BY <1>1 DEF Call
  <2>2. Larger(open, call[c].page) \in 1 .. LastPage
    BY <1>1, <2>1, Assumed DEF Larger
  <2>3. /\ open' = Larger(open, call[c].page)
        /\ call' = [call EXCEPT ![c] = Idle]
        /\ UNCHANGED <<have, heroes, socks, next, ranks, echo>>
    BY <1>3 DEF UnlockPage
  <2> QED
    BY <1>1, <2>2, <2>3, CallStep, NoSocketsType
<1> QED
  BY <1>2, <1>3

LEMMA FillStep ==
  ASSUME IInv, NEW c \in Conns,
         \/ \E u \in 1 .. MaxUid, sock \in Sockets : AskFill(c, u, sock)
         \/ GiveBack(c) \/ Fill(c)
  PROVE  IInv'
<1>1. /\ have \in [Counted -> Nat] /\ call[c] \in Call /\ open \in 1 .. LastPage
      /\ \A u \in DOMAIN socks : socks[u] \in Sockets
      /\ call[c].owed \in Sockets /\ call[c].sock \in Sockets
  BY DEF IInv, TypeOK, Call
<1>2. CASE \E u \in 1 .. MaxUid, sock \in Sockets : AskFill(c, u, sock)
  <2>1. PICK u \in 1 .. MaxUid, sock \in Sockets : AskFill(c, u, sock)
    BY <1>2
  <2> DEFINE owed == [p \in Pos |-> IF \E q \in Pos : sock[q] = socks[u][p]
                                    THEN None ELSE socks[u][p]]
             r == [at |-> "fill", uid |-> u, page |-> 0, sock |-> sock, owed |-> owed]
  <2>2. u \in DOMAIN socks
    BY <2>1 DEF AskFill
  <2>3. owed \in Sockets
    BY <1>1, <2>2 DEF Sockets
  <2>4. r \in Call
    <3>1. u \in 0 .. MaxUid /\ 0 \in 0 .. LastPage
      BY Assumed
    <3> HIDE DEF owed
    <3> QED
      BY <2>3, <3>1 DEF Call
  <2>5. /\ call' = [call EXCEPT ![c] = r]
        /\ UNCHANGED <<have, heroes, socks, next, open, ranks, echo>>
    BY <2>1 DEF AskFill
  <2> HIDE DEF r, owed
  <2> QED
    BY <1>1, <2>4, <2>5, CallStep
<1>3. CASE GiveBack(c)
  <2>1. PICK p \in Pos :
          /\ call[c].owed[p] # None
          /\ have' = [have EXCEPT ![call[c].owed[p]] = @ + 1]
          /\ call' = [call EXCEPT ![c].owed[p] = None]
    BY <1>3 DEF GiveBack
  <2> DEFINE i == call[c].owed[p]
             owed == [call[c].owed EXCEPT ![p] = None]
             r == [call[c] EXCEPT !.owed = owed]
  <2>2. i \in Counted
    BY <1>1, <2>1, Assumed DEF Sockets
  <2>3. have' \in [Counted -> Nat]
    BY <1>1, <2>1, <2>2
  <2>4. owed \in Sockets
    BY <1>1 DEF Sockets
  <2>5. r \in Call
    <3> HIDE DEF owed
    <3> QED
      BY <1>1, <2>4 DEF Call
  <2>6. call' = [call EXCEPT ![c] = r]
    BY <2>1
  <2>7. UNCHANGED <<heroes, socks, next, open, ranks, echo>>
    BY <1>3 DEF GiveBack
  <2> HIDE DEF r, owed, i
  <2> QED
    BY <1>1, <2>3, <2>5, <2>6, <2>7, CallStep
<1>4. CASE Fill(c)
  <2>1. /\ socks' = [u \in DOMAIN socks |-> IF u = call[c].uid THEN call[c].sock ELSE socks[u]]
        /\ call' = [call EXCEPT ![c] = Idle]
        /\ UNCHANGED <<have, heroes, next, open, ranks, echo>>
    BY <1>4 DEF Fill
  <2>2. DOMAIN socks' = DOMAIN socks /\ \A u \in DOMAIN socks : socks'[u] \in Sockets
    BY <1>1, <2>1
  <2> QED
    BY <1>1, <2>1, <2>2, CallStep, NoSocketsType
<1> QED
  BY <1>2, <1>3, <1>4

LEMMA InitInv == Init => IInv
<1> SUFFICES ASSUME Init PROVE IInv
  OBVIOUS
<1>1. have \in [Counted -> Nat]
  <2>1. PICK misplaced \in SUBSET DOMAIN Packs, kept \in SUBSET Insc :
          LET old == [i \in Items |-> IF i \in misplaced \cup kept THEN 1 ELSE 0] IN
          have = [Migrated(old) EXCEPT !["emblem"] = MaxCount["emblem"],
                                       !["rune"] = MaxCount["rune"]]
    BY DEF Init
  <2> DEFINE old == [i \in Items |-> IF i \in misplaced \cup kept THEN 1 ELSE 0]
             S == {item \in Items \ Insc : old[item] > 0}
  <2>2. old \in [Items -> Nat]
    OBVIOUS
  <2>3. S \in SUBSET DOMAIN Packs
    OBVIOUS
  <2>4. IsFiniteSet(S)
    <3> HIDE DEF S
    <3> QED
      BY <2>3, Assumed, FS_Subset
  <2>5. Migrated(old) \in [Counted -> Nat]
    <3> HIDE DEF old
    <3> QED
      BY <2>2, <2>4, MigratedType
  <2>6. MaxCount["emblem"] \in Nat /\ MaxCount["rune"] \in Nat
    BY Assumed DEF Pay
  <2>7. have = [Migrated(old) EXCEPT !["emblem"] = MaxCount["emblem"],
                                     !["rune"] = MaxCount["rune"]]
    BY <2>1
  <2> HIDE DEF old
  <2> QED
    BY <2>5, <2>6, <2>7
<1>2. /\ heroes = {} /\ socks = [u \in {} |-> NoSockets] /\ next = 1 /\ open = 1
      /\ ranks = [t \in Talents |-> 0] /\ echo = Budget /\ call = [c \in Conns |-> Idle]
  BY DEF Init
<1>3. SumFunctionOnSet(ranks, Talents) = 0 /\ ranks \in [Talents -> Nat]
  <2>1. ranks \in [Talents -> Nat] /\ \A t \in Talents : ranks[t] = 0
    BY <1>2
  <2>2. Talents \in SUBSET Talents /\ IsFiniteSet(Talents)
    BY Assumed
  <2> QED
    BY <2>1, <2>2, SumZero
<1>4. TalentsShareTheBudget
  BY <1>2, <1>3, Assumed DEF TalentsShareTheBudget
<1>5. /\ next \in 1 .. MaxUid + 1 /\ open \in 1 .. LastPage /\ echo \in Nat
      /\ heroes \subseteq Heroes /\ call \in [Conns -> Call]
      /\ DOMAIN socks = {}
  BY <1>2, Assumed, NoSocketsType
<1>6. TypeOK
  BY <1>1, <1>3, <1>5 DEF TypeOK
<1> QED
  BY <1>4, <1>6 DEF IInv

LEMMA NextInv == IInv /\ [Next]_vars => IInv'
<1> SUFFICES ASSUME IInv, [Next]_vars PROVE IInv'
  OBVIOUS
<1>1. CASE UNCHANGED vars
  <2>1. have' \in [Counted -> Nat]
    BY <1>1 DEF vars, IInv, TypeOK
  <2> QED
    BY <1>1, <2>1, CountStep DEF vars
<1>2. CASE Restart
  <2>1. /\ call' = [c \in Conns |-> Idle]
        /\ UNCHANGED <<have, heroes, socks, next, open, ranks, echo>>
    BY <1>2 DEF Restart
  <2>2. TalentsShareTheBudget'
    BY <2>1, SameTalents
  <2> QED
    BY <2>1, <2>2, NoSocketsType DEF IInv, TypeOK
<1> QED
  BY <1>1, <1>2, PurchaseStep, ExchangeStep, UseUpStep, ReturnSocketsStep, TalentStep,
     PageStep, FillStep DEF Next

\* In every state the inventory has its type and the talents their budget.
THEOREM Invariance == Spec => []IInv
  BY InitInv, NextInv, PTL DEF Spec

\* No count ever goes below zero, whatever purchases, exchanges and refunds of an
\* account's connections cross (the clamps and checks of accounts.go), every UID
\* is older than the next, and pages and sockets stay in their ranges.
THEOREM TypeCorrect == Spec => []TypeOK
<1>1. IInv => TypeOK
  BY DEF IInv
<1> QED
  BY <1>1, Invariance, PTL

\* clampTalentInfos leaves ranks and Echo that make up the budget, for any ids,
\* any number of them and any ranks that a client sends.
THEOREM BudgetTheorem == Spec => []TalentsShareTheBudget
<1>1. IInv => TalentsShareTheBudget
  BY DEF IInv
<1> QED
  BY <1>1, Invariance, PTL

-----------------------------------------------------------------------------
(* Exchanges.                                                              *)

\* What a collection loses and gets on its way balances in the sums as well.
LEMMA SumBalance ==
  ASSUME NEW D, NEW S \in SUBSET D, IsFiniteSet(S),
         NEW before \in [D -> Nat], NEW after \in [D -> Nat],
         NEW in \in [S -> Nat], NEW out \in [S -> Nat],
         \A x \in S : before[x] + in[x] = after[x] + out[x]
  PROVE  SumFunctionOnSet(before, S) + SumFunctionOnSet(in, S) =
           SumFunctionOnSet(after, S) + SumFunctionOnSet(out, S)
<1> DEFINE a == [x \in S |-> before[x]]
           b == [x \in S |-> after[x]]
           k == [x \in S |-> before[x] + in[x]]
<1>1. /\ a \in [S -> Nat] /\ b \in [S -> Nat] /\ k \in [S -> Nat]
      /\ \A x \in S : k[x] = a[x] + in[x]
      /\ \A x \in S : k[x] = b[x] + out[x]
  OBVIOUS
<1>2. \A x \in S : before[x] = a[x]
  OBVIOUS
<1>3. \A x \in S : after[x] = b[x]
  OBVIOUS
<1>4. a \in [S -> Nat] /\ b \in [S -> Nat]
  BY <1>1
<1>5. S \in SUBSET (D \cap S) /\ S \in SUBSET S
  OBVIOUS
<1> HIDE DEF a, b, k
<1>6. SumFunctionOnSet(before, S) = SumFunctionOnSet(a, S)
  BY <1>5, <1>2, <1>4, SumSame
<1>7. SumFunctionOnSet(after, S) = SumFunctionOnSet(b, S)
  BY <1>5, <1>3, <1>4, SumSame
<1>8. SumFunctionOnSet(k, S) = SumFunctionOnSet(a, S) + SumFunctionOnSet(in, S)
  BY <1>1, <1>5, SumPlus
<1>9. SumFunctionOnSet(k, S) = SumFunctionOnSet(b, S) + SumFunctionOnSet(out, S)
  BY <1>1, <1>5, SumPlus
<1> QED
  BY <1>6, <1>7, <1>8, <1>9

\* A user has a number of inscriptions.
LEMMA InscriptionsType ==
  ASSUME NEW h \in [Counted -> Nat] PROVE Inscriptions(h) \in Nat
<1>1. Insc \in SUBSET Counted /\ IsFiniteSet(Insc)
  BY Assumed
<1> QED
  BY <1>1, SumSteps DEF Inscriptions

\* The same of the inscriptions of a user.
LEMMA InscriptionsBalance ==
  ASSUME NEW before \in [Counted -> Nat], NEW after \in [Counted -> Nat],
         NEW in \in [Insc -> Nat], NEW out \in [Insc -> Nat],
         \A i \in Insc : before[i] + in[i] = after[i] + out[i]
  PROVE  Inscriptions(before) + SumFunctionOnSet(in, Insc) =
           Inscriptions(after) + SumFunctionOnSet(out, Insc)
<1>1. IsFiniteSet(Insc) /\ Insc \in SUBSET Counted
  BY Assumed
<1> QED
  BY <1>1, SumBalance DEF Inscriptions

\* An exchange takes as many inscriptions as it names, and gives one.
LEMMA ExchangedSum ==
  ASSUME NEW before \in [Counted -> Nat], NEW after \in [Counted -> Nat], NEW n \in Nat,
         NEW sources \in [1 .. n -> Insc], NEW target \in Insc,
         \A i \in Insc : after[i] = before[i] - Needed(sources, i) + (IF i = target THEN 1 ELSE 0)
  PROVE  Inscriptions(after) + n = Inscriptions(before) + 1
<1> DEFINE N == 1 .. n
           o == One(target, Insc)
           t == Hits(sources, N, Insc)
<1>1. IsFiniteSet(Insc) /\ Insc \in SUBSET Counted
  BY Assumed
<1>2. IsFiniteSet(N) /\ Cardinality(N) = n
  BY FS_Interval
<1>3. o \in [Insc -> Nat] /\ SumFunctionOnSet(o, Insc) = 1
  BY <1>1, SumOne
<1>4. t \in [Insc -> Nat] /\ SumFunctionOnSet(t, Insc) = n
  <2>1. sources \in [N -> Insc]
    OBVIOUS
  <2> HIDE DEF N
  <2>2. t \in [Insc -> Nat] /\ SumFunctionOnSet(t, Insc) = Cardinality(N)
    BY <1>1, <1>2, <2>1, SumHits
  <2> QED
    BY <1>2, <2>2
<1>5. ASSUME NEW i \in Insc PROVE before[i] + o[i] = after[i] + t[i]
  <2>1. t[i] = Needed(sources, i) /\ o[i] = IF i = target THEN 1 ELSE 0
    BY DEF Hits, Needed, One
  <2>2. before[i] \in Nat /\ t[i] \in Nat /\ o[i] \in Nat
    BY <1>1, <1>3, <1>4
  <2>3. after[i] = before[i] - t[i] + o[i]
    BY <2>1
  <2> HIDE DEF t, o
  <2> QED
    BY <2>2, <2>3
<1> HIDE DEF t, o
<1>6. \A i \in Insc : before[i] + o[i] = after[i] + t[i]
  BY <1>5
<1>7. o \in [Insc -> Nat] /\ t \in [Insc -> Nat]
  BY <1>3, <1>4
<1>8. Inscriptions(before) + SumFunctionOnSet(o, Insc) =
        Inscriptions(after) + SumFunctionOnSet(t, Insc)
  BY <1>6, <1>7, InscriptionsBalance
<1> QED
  BY <1>3, <1>4, <1>8, InscriptionsType

LEMMA MergeIsWhole ==
  ASSUME have \in [Counted -> Nat], MergeSome
  PROVE  /\ Inscriptions(have') = Inscriptions(have) - MergeSize + 1
         /\ \A pay \in Pay : have'[pay] = have[pay]
<1>1. PICK sources \in [1 .. MergeSize -> Insc], target \in Insc :
           /\ have' = Exchanged(sources, target, None, 0)
           /\ have' \in [Counted -> Nat]
  BY MergeCounts
<1>2. MergeSize \in Nat /\ None \notin Insc
  BY Assumed
<1>3. \A i \in Insc : have'[i] = have[i] - Needed(sources, i) + (IF i = target THEN 1 ELSE 0)
  <2>1. \A i \in Insc : Needed(sources, i) \in Nat /\ have[i] \in Nat /\ i \in Counted
    BY <1>2, NeededType, Assumed
  <2> QED
    BY <1>1, <1>2, <2>1 DEF Exchanged
<1>4. Inscriptions(have') + MergeSize = Inscriptions(have) + 1
  BY <1>1, <1>2, <1>3, ExchangedSum
<1>5. Inscriptions(have') \in Nat /\ Inscriptions(have) \in Nat
  BY <1>1, InscriptionsType
<1>6. ASSUME NEW pay \in Pay PROVE have'[pay] = have[pay]
  <2>1. pay \notin Insc /\ pay \in Counted
    BY Assumed
  <2>2. Needed(sources, pay) = 0 /\ have[pay] \in Nat
    BY <1>2, <2>1, NeededType
  <2> QED
    BY <1>1, <2>1, <2>2 DEF Exchanged
<1> QED
  BY <1>2, <1>4, <1>5, <1>6

LEMMA ExchangeIsPaid ==
  ASSUME have \in [Counted -> Nat], ExchangeSome
  PROVE  /\ Inscriptions(have') = Inscriptions(have)
         /\ \E pay \in Pay : have'[pay] = have[pay] - ExchangePrice
<1>1. PICK source \in Insc, target \in Insc, pay \in Pay :
           /\ have' = Exchanged(<<source>>, target, pay, ExchangePrice)
           /\ have' \in [Counted -> Nat]
  BY ExchangeCounts
<1> DEFINE sources == <<source>>
<1>2. sources \in [1 .. 1 -> Insc] /\ 1 \in Nat
  OBVIOUS
<1>3. pay \notin Insc /\ pay \in Counted /\ ExchangePrice \in Nat
  BY Assumed
<1>4. have' = Exchanged(sources, target, pay, ExchangePrice)
  BY <1>1
<1> HIDE DEF sources
<1>5. \A i \in Insc : have'[i] = have[i] - Needed(sources, i) + (IF i = target THEN 1 ELSE 0)
  <2>1. \A i \in Insc : Needed(sources, i) \in Nat /\ have[i] \in Nat /\ i \in Counted
    BY <1>2, NeededType, Assumed
  <2> QED
    BY <1>3, <1>4, <2>1 DEF Exchanged
<1>6. Inscriptions(have') + 1 = Inscriptions(have) + 1
  BY <1>1, <1>2, <1>5, ExchangedSum
<1>7. Inscriptions(have') \in Nat /\ Inscriptions(have) \in Nat
  BY <1>1, InscriptionsType
<1>8. have'[pay] = have[pay] - ExchangePrice
  <2>1. Needed(sources, pay) = 0 /\ have[pay] \in Nat /\ pay # target
    BY <1>2, <1>3, NeededType
  <2> QED
    BY <1>3, <1>4, <2>1 DEF Exchanged
<1> QED
  BY <1>6, <1>7, <1>8

\* ExchangeInscriptionSet takes every source it names, a duplicate as often as it
\* is named, gives one, and ExchangeInscriptionPaid charges its price, for any
\* number of inscriptions and whatever crosses.
THEOREM ExchangeTheorem == Spec => ExchangeIsWhole
<1> DEFINE A == have' # have =>
       /\ MergeSome => /\ Inscriptions(have') = Inscriptions(have) - MergeSize + 1
                       /\ \A pay \in Pay : have'[pay] = have[pay]
       /\ ExchangeSome => /\ Inscriptions(have') = Inscriptions(have)
                          /\ \E pay \in Pay : have'[pay] = have[pay] - ExchangePrice
<1>1. IInv => [A]_vars
  <2> SUFFICES ASSUME IInv PROVE A
    OBVIOUS
  <2>1. have \in [Counted -> Nat]
    BY DEF IInv, TypeOK
  <2> QED
    BY <2>1, MergeIsWhole, ExchangeIsPaid
<1>2. ExchangeIsWhole <=> [][A]_vars
  BY DEF ExchangeIsWhole
<1> HIDE DEF A
<1> QED
  BY <1>1, <1>2, Invariance, PTL

-----------------------------------------------------------------------------
(* Loft: the loft that a legacy record becomes.                            *)

\* The assumption, fact by fact.
LEMMA Loose ==
  /\ None \notin Ids /\ Keys \subseteq Nat \X Nat /\ IsFiniteSet(Keys)
  /\ Cost \in Nat /\ Cost > 0 /\ MaxUid \in Nat /\ MaxOwned \in Nat /\ MaxEmblem \in Nat /\ MaxCopies \in Nat
  BY LoftAssumption

\* Of some page slots, one comes after all the others.
LEMMA LastKeyIn ==
  ASSUME NEW K \in SUBSET Keys, K # {}
  PROVE  LastKey(K) \in K
<1> DEFINE Upto(l, k) == l[1] < k[1] \/ (l[1] = k[1] /\ l[2] <= k[2])
           R == {p \in Keys \X Keys : Upto(p[1], p[2])}
<1>1. IsFiniteSet(K) /\ \A k \in K : k \in Keys /\ k[1] \in Nat /\ k[2] \in Nat
  BY Loose, FS_Subset
<1>2. \A a, b \in K : <<a, b>> \in R <=> Upto(a, b)
  BY <1>1
<1>3. /\ \A a, b \in K : Upto(a, b) \/ Upto(b, a)
      /\ \A a, b, c \in K : Upto(a, b) /\ Upto(b, c) => Upto(a, c)
  BY <1>1
<1> HIDE DEF R, Upto
<1>4. \E m \in K : \A n \in K : <<n, m>> \in R
  BY <1>1, <1>2, <1>3, LastExists
<1>5. \E m \in K : \A n \in K : Upto(n, m)
  BY <1>2, <1>4
<1> QED
  BY <1>5 DEF LastKey, Upto

\* Instances whose ids have no bound yet.
Minted == [uid : Nat \ {0}, id : Ids, awake : BOOLEAN]

\* The first copy is a copy.
LEMMA FirstCopyIs ==
  ASSUME NEW v \in Seq(Minted), NEW id, NEW taken
  PROVE  LET u == FirstCopy(v, id, taken) IN
         /\ u = 0 => ~ \E i \in DOMAIN v : v[i].id = id /\ v[i].uid \notin taken
         /\ u # 0 => \E i \in DOMAIN v : v[i].id = id /\ v[i].uid \notin taken /\ v[i].uid = u
<1> DEFINE found == {i \in DOMAIN v : v[i].id = id /\ v[i].uid \notin taken}
<1>1. CASE found = {}
  BY <1>1 DEF FirstCopy
<1>2. CASE found # {}
  <2>1. found \in SUBSET Nat /\ IsFiniteSet(found)
    <3>1. DOMAIN v = 1 .. Len(v) /\ Len(v) \in Nat
      OBVIOUS
    <3>2. IsFiniteSet(1 .. Len(v)) /\ found \in SUBSET (1 .. Len(v))
      BY <3>1, FS_Interval
    <3>3. found \in SUBSET Nat
      BY <3>1
    <3> DEFINE N == 1 .. Len(v)
    <3>4. IsFiniteSet(N) /\ found \in SUBSET N
      BY <3>2
    <3> HIDE DEF found, N
    <3>5. IsFiniteSet(found)
      BY <3>4, FS_Subset
    <3> QED
      BY <3>3, <3>5
  <2>2. \E m \in found : \A n \in found : m <= n
    <3> HIDE DEF found
    <3> QED
      BY <1>2, <2>1, LeastNat
  <2>3. Min(found) \in found
    <3> HIDE DEF found
    <3> QED
      BY <2>2 DEF Min
  <2>4. v[Min(found)].uid \in Nat \ {0}
    <3>1. \A i \in DOMAIN v : v[i] \in Minted
      OBVIOUS
    <3>2. \A x \in Minted : x.uid \in Nat \ {0}
      BY DEF Minted
    <3>3. Min(found) \in DOMAIN v
      BY <2>3
    <3> QED
      BY <3>1, <3>2, <3>3
  <2>5. FirstCopy(v, id, taken) = v[Min(found)].uid
    BY <1>2 DEF FirstCopy
  <2> QED
    BY <2>3, <2>4, <2>5
<1> QED
  BY <1>1, <1>2

\* What makes copies and page slots a loft.
Fits(v, s, n) ==
  /\ \A k, l \in Keys : s[k] # 0 =>
       /\ s[k] \in Uids(v)
       /\ k # l /\ k[1] = l[1] => s[k] # s[l]
  /\ \A i, j \in DOMAIN v : v[i].uid = v[j].uid => i = j
  /\ \A i \in DOMAIN v : v[i].uid < n
  /\ Len(v) < n

Record == [owned : Seq(Ids), awake : SUBSET Ids, slots : [Keys -> Ids \cup {None}]]

\* The states of a migration.
Partial ==
  {m \in [inst : Seq(Minted), slots : [Keys -> Nat], next : Nat \ {0}, bound : [Ids -> Nat]] :
     /\ Fits(m.inst, m.slots, m.next)
     /\ \A d \in Ids : m.bound[d] \in Uids(m.inst) \cup {0}}

\* A record begins with a copy of each id, and nothing on the pages.
LEMMA UnboundType ==
  ASSUME NEW r \in Record
  PROVE  /\ Unbound(r) \in Partial
         /\ Len(Unbound(r).inst) = Len(r.owned) /\ Unbound(r).next = Len(r.owned) + 1
         /\ \A k \in Keys : Unbound(r).slots[k] = 0
         /\ \A i \in 1 .. Len(r.owned) :
              Unbound(r).inst[i] = [uid |-> i, id |-> r.owned[i], awake |-> r.owned[i] \in r.awake]
<1> DEFINE v == [i \in DOMAIN r.owned |->
                   [uid |-> i, id |-> r.owned[i], awake |-> r.owned[i] \in r.awake]]
           s == [k \in Keys |-> 0]
           n == Len(r.owned) + 1
           b == [d \in Ids |-> 0]
<1>1. r.owned \in Seq(Ids) /\ Len(r.owned) \in Nat /\ DOMAIN r.owned = 1 .. Len(r.owned)
  BY DEF Record
<1>2. \A i \in 1 .. Len(r.owned) : r.owned[i] \in Ids
  BY <1>1
<1>3. \A i \in 1 .. Len(r.owned) :
        [uid |-> i, id |-> r.owned[i], awake |-> r.owned[i] \in r.awake] \in Minted
  BY <1>2 DEF Minted
<1>4. v \in [1 .. Len(r.owned) -> Minted]
  BY <1>1, <1>3
<1>5. v \in Seq(Minted) /\ Len(v) = Len(r.owned) /\ DOMAIN v = 1 .. Len(r.owned)
  BY <1>1, <1>4
<1>6. \A i \in 1 .. Len(r.owned) :
        v[i] = [uid |-> i, id |-> r.owned[i], awake |-> r.owned[i] \in r.awake]
  BY <1>1
<1>7. \A i \in 1 .. Len(r.owned) : v[i].uid = i
  BY <1>6
<1>8. s \in [Keys -> Nat] /\ \A k \in Keys : s[k] = 0
  OBVIOUS
<1>9. b \in [Ids -> Nat] /\ \A d \in Ids : b[d] = 0
  OBVIOUS
<1>10. n \in Nat \ {0} /\ n = Len(r.owned) + 1
  BY <1>1
<1>11. Unbound(r) = [inst |-> v, slots |-> s, next |-> n, bound |-> b]
  BY DEF Unbound
<1> HIDE DEF v, s, n, b
<1>12. Fits(v, s, n)
  <2>1. \A k \in Keys : ~(s[k] # 0)
    BY <1>8
  <2>2. \A i \in DOMAIN v : v[i].uid = i /\ i \in Nat /\ i <= Len(r.owned)
    BY <1>1, <1>5, <1>7
  <2>3. \A i, j \in DOMAIN v : v[i].uid = v[j].uid => i = j
    BY <2>2
  <2>4. \A i \in DOMAIN v : v[i].uid < n
    BY <1>1, <1>10, <2>2
  <2>5. Len(v) < n
    BY <1>1, <1>5, <1>10
  <2> QED
    BY <2>1, <2>3, <2>4, <2>5 DEF Fits
<1>13. [inst |-> v, slots |-> s, next |-> n, bound |-> b] \in Partial
  BY <1>5, <1>8, <1>9, <1>10, <1>12 DEF Partial
<1> QED
  BY <1>5, <1>6, <1>8, <1>10, <1>11, <1>13

\* A state of a migration, field by field.
LEMMA PartialFields ==
  ASSUME NEW m \in Partial
  PROVE  /\ m.inst \in Seq(Minted) /\ m.slots \in [Keys -> Nat] /\ m.next \in Nat \ {0}
         /\ m.bound \in [Ids -> Nat] /\ Fits(m.inst, m.slots, m.next)
         /\ \A d \in Ids : m.bound[d] \in Uids(m.inst) \cup {0}
  BY DEF Partial

\* A state of a migration, put together from its fields.
LEMMA PartialMade ==
  ASSUME NEW v \in Seq(Minted), NEW s \in [Keys -> Nat], NEW n \in Nat \ {0},
         NEW b \in [Ids -> Nat], Fits(v, s, n), \A d \in Ids : b[d] \in Uids(v) \cup {0}
  PROVE  [inst |-> v, slots |-> s, next |-> n, bound |-> b] \in Partial
  BY DEF Partial

\* A slot may take any owned copy that its page does not have.
LEMMA FitsPlaced ==
  ASSUME NEW v, NEW s, NEW n, Fits(v, s, n), NEW key \in Keys, NEW u \in Uids(v),
         \A k \in Keys : k[1] = key[1] => s[k] # u,
         NEW t, \A k \in Keys : t[k] = IF k = key THEN u ELSE s[k]
  PROVE  Fits(v, t, n)
<1>1. ASSUME NEW k \in Keys, NEW l \in Keys, t[k] # 0
      PROVE  t[k] \in Uids(v) /\ (k # l /\ k[1] = l[1] => t[k] # t[l])
  BY <1>1 DEF Fits
<1> QED
  BY <1>1 DEF Fits

\* A new copy can be appended.
LEMMA FitsMinted ==
  ASSUME NEW v \in Seq(Minted), NEW s \in [Keys -> Nat], NEW n \in Nat \ {0}, Fits(v, s, n),
         NEW x \in Minted, x.uid = n
  PROVE  /\ Append(v, x) \in Seq(Minted) /\ Fits(Append(v, x), s, n + 1)
         /\ Uids(Append(v, x)) = Uids(v) \cup {n} /\ n \notin Uids(v)
         /\ \A k \in Keys : s[k] # n
<1> DEFINE w == Append(v, x)
<1>1. /\ w \in Seq(Minted) /\ Len(v) \in Nat /\ Len(w) = Len(v) + 1
      /\ DOMAIN v = 1 .. Len(v) /\ DOMAIN w = 1 .. Len(v) + 1
  OBVIOUS
<1>2. \A i \in DOMAIN w : w[i] = IF i = Len(v) + 1 THEN x ELSE v[i]
  OBVIOUS
<1>3. \A i \in DOMAIN w : i \in DOMAIN v \/ i = Len(v) + 1
  BY <1>1
<1> HIDE DEF w
<1>4. \A i \in DOMAIN v : i \in DOMAIN w /\ w[i] = v[i] /\ v[i].uid < n /\ v[i].uid \in Nat
  <2>1. \A i \in DOMAIN v : v[i] \in Minted
    OBVIOUS
  <2>2. \A y \in Minted : y.uid \in Nat
    BY DEF Minted
  <2>3. \A i \in DOMAIN v : v[i].uid < n
    BY DEF Fits
  <2>4. \A i \in DOMAIN v : i \in DOMAIN w /\ w[i] = v[i]
    BY <1>1, <1>2
  <2> QED
    BY <2>1, <2>2, <2>3, <2>4
<1>5. Len(v) + 1 \in DOMAIN w /\ w[Len(v) + 1] = x
  BY <1>1, <1>2
<1>6. Uids(w) = Uids(v) \cup {n}
  <2>1. Uids(w) \subseteq Uids(v) \cup {n}
    BY <1>3, <1>4, <1>5 DEF Uids
  <2>2. Uids(v) \subseteq Uids(w)
    BY <1>4 DEF Uids
  <2>3. n \in Uids(w)
    BY <1>5 DEF Uids
  <2> QED
    BY <2>1, <2>2, <2>3
<1>7. n \notin Uids(v)
  BY <1>4 DEF Uids
<1>8. \A k \in Keys : s[k] # n
  <2>1. \A k \in Keys : s[k] # 0 => s[k] \in Uids(v)
    BY DEF Fits
  <2> QED
    BY <1>7, <2>1
<1>9. \A i, j \in DOMAIN w : w[i].uid = w[j].uid => i = j
  <2>1. \A i, j \in DOMAIN v : v[i].uid = v[j].uid => i = j
    BY DEF Fits
  <2> SUFFICES ASSUME NEW i \in DOMAIN w, NEW j \in DOMAIN w, w[i].uid = w[j].uid
               PROVE  i = j
    OBVIOUS
  <2>2. CASE i \in DOMAIN v /\ j \in DOMAIN v
    BY <1>4, <2>1, <2>2
  <2>3. CASE i \in DOMAIN v /\ j = Len(v) + 1
    BY <1>4, <1>5, <2>3
  <2>4. CASE i = Len(v) + 1 /\ j \in DOMAIN v
    BY <1>4, <1>5, <2>4
  <2> QED
    BY <1>3, <2>2, <2>3, <2>4
<1>10. \A i \in DOMAIN w : w[i].uid < n + 1
  BY <1>3, <1>4, <1>5
<1>11. Len(w) < n + 1
  BY <1>1 DEF Fits
<1>12. Fits(w, s, n + 1)
  BY <1>6, <1>9, <1>10, <1>11 DEF Fits
<1> QED
  BY <1>1, <1>6, <1>7, <1>8, <1>12 DEF w

\* A step of a migration keeps what makes a loft.
LEMMA BindSound ==
  ASSUME NEW r \in Record, NEW m \in Partial, NEW key \in Keys
  PROVE  Bind(r, m, key) \in Partial
<1> DEFINE id == r.slots[key]
           taken == {m.slots[k] : k \in {k \in Keys : k[1] = key[1]}} \ {0}
           free == FirstCopy(m.inst, id, taken)
           uid == IF m.bound[id] \in taken \cup {0} THEN free ELSE m.bound[id]
           new == [uid |-> m.next, id |-> id, awake |-> id \in r.awake]
<1>1. /\ m.inst \in Seq(Minted) /\ m.slots \in [Keys -> Nat] /\ m.next \in Nat \ {0}
      /\ m.bound \in [Ids -> Nat] /\ Fits(m.inst, m.slots, m.next)
  BY PartialFields
<1>2. \A d \in Ids : m.bound[d] \in Uids(m.inst) \cup {0}
  BY PartialFields
<1>3. id \in Ids \cup {None}
  BY DEF Record
<1>4. CASE id = None
  BY <1>4 DEF Bind
<1>5. CASE id \in Ids /\ uid # 0
  <2>1. id # None
    BY <1>5, Loose
  <2>2. uid \in Uids(m.inst) /\ uid \notin taken
    <3>1. CASE m.bound[id] \in taken \cup {0}
      <4>1. uid = free
        BY <3>1
      <4> HIDE DEF taken
      <4>2. \E i \in DOMAIN m.inst : m.inst[i].uid \notin taken /\ m.inst[i].uid = free
        BY <1>1, <1>5, <4>1, FirstCopyIs
      <4> QED
        BY <4>1, <4>2 DEF Uids
    <3>2. CASE m.bound[id] \notin taken \cup {0}
      BY <1>2, <1>5, <3>2
    <3> QED
      BY <3>1, <3>2
  <2>3. uid \in Nat
    <3>1. \A i \in DOMAIN m.inst : m.inst[i] \in Minted
      BY <1>1
    <3>2. \A x \in Minted : x.uid \in Nat
      BY DEF Minted
    <3> HIDE DEF uid
    <3> QED
      BY <2>2, <3>1, <3>2 DEF Uids
  <2>4. \A k \in Keys : k[1] = key[1] => m.slots[k] # uid
    <3>1. \A k \in Keys : k[1] = key[1] /\ m.slots[k] # 0 => m.slots[k] \in taken
      OBVIOUS
    <3> HIDE DEF uid, taken
    <3> QED
      BY <1>5, <2>2, <3>1
  <2> DEFINE s == [m.slots EXCEPT ![key] = uid]
             b == [m.bound EXCEPT ![id] = uid]
  <2>5. Bind(r, m, key) = [inst |-> m.inst, slots |-> s, next |-> m.next, bound |-> b]
    BY <1>5, <2>1 DEF Bind
  <2> HIDE DEF uid, id
  <2>6. s \in [Keys -> Nat] /\ b \in [Ids -> Nat]
    BY <1>1, <2>3
  <2>7. Fits(m.inst, s, m.next)
    <3>1. \A k \in Keys : s[k] = IF k = key THEN uid ELSE m.slots[k]
      BY <1>1
    <3>2. Fits(m.inst, m.slots, m.next) /\ uid \in Uids(m.inst)
      BY <1>1, <2>2
    <3> HIDE DEF s
    <3> QED
      BY <2>4, <3>1, <3>2, FitsPlaced
  <2>8. \A d \in Ids : b[d] \in Uids(m.inst) \cup {0}
    BY <1>1, <1>2, <2>2
  <2> HIDE DEF s, b
  <2> QED
    <3>1. [inst |-> m.inst, slots |-> s, next |-> m.next, bound |-> b] \in Partial
      BY <1>1, <2>6, <2>7, <2>8, PartialMade
    <3> QED
      BY <2>5, <3>1
<1>6. CASE id \in Ids /\ uid = 0
  <2>1. id # None
    BY <1>6, Loose
  <2>2. CASE FirstCopy(m.inst, id, {}) # 0
    <3>1. Bind(r, m, key) = m
      BY <1>6, <2>1, <2>2 DEF Bind
    <3> QED
      BY <3>1
  <2>3. CASE FirstCopy(m.inst, id, {}) = 0
    <3> DEFINE v == Append(m.inst, new)
               s == [m.slots EXCEPT ![key] = m.next]
               b == [m.bound EXCEPT ![id] = m.next]
    <3>1. Bind(r, m, key) = [inst |-> v, slots |-> s, next |-> m.next + 1, bound |-> b]
      BY <1>6, <2>1, <2>3 DEF Bind
    <3>2. new \in Minted /\ new.uid = m.next
      BY <1>1, <1>6 DEF Minted
    <3> HIDE DEF new, uid, id
    <3>3. /\ v \in Seq(Minted) /\ Fits(v, m.slots, m.next + 1)
          /\ Uids(v) = Uids(m.inst) \cup {m.next} /\ \A k \in Keys : m.slots[k] # m.next
      BY <1>1, <3>2, FitsMinted
    <3>4. s \in [Keys -> Nat] /\ b \in [Ids -> Nat]
      BY <1>1
    <3>5. m.next + 1 \in Nat \ {0}
      BY <1>1
    <3> HIDE DEF v
    <3>6. Fits(v, s, m.next + 1)
      <4>1. Fits(v, m.slots, m.next + 1) /\ m.next \in Uids(v)
        BY <1>1, <3>3
      <4>2. \A k \in Keys : k[1] = key[1] => m.slots[k] # m.next
        BY <3>3
      <4>3. \A k \in Keys : s[k] = IF k = key THEN m.next ELSE m.slots[k]
        BY <1>1
      <4> HIDE DEF s
      <4> QED
        BY <4>1, <4>2, <4>3, FitsPlaced
    <3>7. \A d \in Ids : b[d] \in Uids(v) \cup {0}
      BY <1>1, <1>2, <3>3
    <3> HIDE DEF s, b
    <3> DEFINE n == m.next + 1
    <3>8. v \in Seq(Minted) /\ n \in Nat \ {0} /\ Fits(v, s, n)
      BY <3>3, <3>6, <3>5
    <3> HIDE DEF n
    <3>9. [inst |-> v, slots |-> s, next |-> n, bound |-> b] \in Partial
      BY <3>4, <3>7, <3>8, PartialMade
    <3> QED
      BY <3>1, <3>9 DEF n
  <2> QED
    BY <2>2, <2>3
<1> QED
  BY <1>3, <1>4, <1>5, <1>6

\* A migration binds one slot after the other, and is sound after each.
LEMMA MigrateSteps ==
  ASSUME NEW r \in Record
  PROVE  \E g : /\ Migrate(r) = g[Keys]
                /\ \A s \in SUBSET Keys :
                     /\ g[s] = IF s = {} THEN Unbound(r)
                               ELSE Bind(r, g[s \ {LastKey(s)}], LastKey(s))
                     /\ g[s] \in Partial
<1> DEFINE base == Unbound(r)
           G == [p \in Keys \X Partial |-> Bind(r, p[2], p[1])]
           c == [s \in SUBSET Keys |-> LastKey(s)]
           Folds(g) == g = [s \in SUBSET Keys |->
                              IF s = {} THEN base
                              ELSE Bind(r, g[s \ {LastKey(s)}], LastKey(s))]
<1>1. base \in Partial
  BY UnboundType
<1>2. \A s \in SUBSET Keys : c[s] = LastKey(s) /\ (s # {} => c[s] \in s)
  BY LastKeyIn
<1>3. \A x \in Keys, m \in Partial : G[<<x, m>>] = Bind(r, m, x) /\ G[<<x, m>>] \in Partial
  BY BindSound
<1>4. IsFiniteSet(Keys) /\ Keys \in SUBSET Keys
  BY Loose
<1>5. Migrate(r) = (CHOOSE g : Folds(g))[Keys]
  BY DEF Migrate, MapThenFoldSet
<1> HIDE DEF G, c, base
<1>6. PICK k : FoldsTo(k, G, c, base, Keys)
  BY <1>2, <1>4, FoldExists
<1>7. \A s \in SUBSET Keys : k[s] \in Partial
  BY <1>1, <1>2, <1>3, <1>4, <1>6, FoldType
<1>8. ASSUME NEW s \in SUBSET Keys
      PROVE  k[s] = IF s = {} THEN base ELSE Bind(r, k[s \ {LastKey(s)}], LastKey(s))
  <2>1. k[s] = IF s = {} THEN base ELSE G[<<c[s], k[s \ {c[s]}]>>]
    BY <1>6 DEF FoldsTo
  <2>2. CASE s = {}
    BY <2>1, <2>2
  <2>3. CASE s # {}
    <3>1. c[s] \in Keys /\ k[s \ {c[s]}] \in Partial
      BY <1>2, <1>7, <2>3
    <3>2. k[s] = Bind(r, k[s \ {c[s]}], c[s])
      BY <1>3, <2>1, <2>3, <3>1
    <3> QED
      BY <1>2, <2>3, <3>2
  <2> QED
    BY <2>2, <2>3
<1>9. Folds(k)
  <2>1. k = [s \in SUBSET Keys |-> k[s]]
    BY <1>6 DEF FoldsTo
  <2> QED
    BY <1>8, <2>1
<1> HIDE DEF Folds
<1>10. PICK g : g = (CHOOSE x : Folds(x)) /\ Folds(g)
  BY <1>9
<1>11. \A s \in SUBSET Keys :
         g[s] = IF s = {} THEN base ELSE Bind(r, g[s \ {LastKey(s)}], LastKey(s))
  BY <1>10 DEF Folds
<1>12. \A s \in SUBSET Keys : g[s] \in Partial
  <2> DEFINE Good == {s \in SUBSET Keys : g[s] \in Partial}
  <2>1. ASSUME NEW s \in SUBSET Keys, \A t \in SUBSET s : t # s => t \in Good
        PROVE  s \in Good
    <3>1. CASE s = {}
      BY <1>1, <1>11, <3>1
    <3>2. CASE s # {}
      <4>1. LastKey(s) \in s /\ LastKey(s) \in Keys
        BY <3>2, LastKeyIn
      <4>2. g[s \ {LastKey(s)}] \in Partial
        BY <2>1, <4>1
      <4>3. Bind(r, g[s \ {LastKey(s)}], LastKey(s)) \in Partial
        BY <4>1, <4>2, BindSound
      <4> QED
        BY <1>11, <3>2, <4>3
    <3> QED
      BY <3>1, <3>2
  <2>2. /\ \A s \in SUBSET Keys : (\A t \in SUBSET s : t # s => t \in Good) => s \in Good
        /\ Good \in SUBSET SUBSET Keys
    BY <2>1
  <2>3. Good = SUBSET Keys
    <3> HIDE DEF Good
    <3> QED
      BY <1>4, <2>2, SubsetInduction
  <2> QED
    BY <2>3
<1>13. Migrate(r) = g[Keys]
  BY <1>5, <1>10
<1> QED
  BY <1>11, <1>12, <1>13 DEF base

\* What a migration ends in.
LEMMA MigrateSound ==
  ASSUME NEW r \in Record
  PROVE  Migrate(r) \in Partial
<1>1. PICK g : /\ Migrate(r) = g[Keys]
               /\ \A s \in SUBSET Keys : g[s] \in Partial
  BY MigrateSteps
<1> QED
  BY <1>1

-----------------------------------------------------------------------------
(* Loft: what an older binary writes back.                                 *)

\* The mirror is a legacy record; it has an id where the slots have a copy of it.
LEMMA MirrorType ==
  ASSUME NEW v \in Seq(Minted), NEW s \in [Keys -> Nat], NEW n, Fits(v, s, n)
  PROVE  LET r == Mirror(v, s) IN
         /\ r \in Record
         /\ Len(r.owned) = Len(v) /\ \A i \in 1 .. Len(v) : r.owned[i] = v[i].id
         /\ \A i \in 1 .. Len(v) : v[i].awake => v[i].id \in r.awake
         /\ \A k \in Keys : s[k] = 0 => r.slots[k] = None
         /\ \A k \in Keys : s[k] # 0 =>
              /\ Place(v, s[k]) \in 1 .. Len(v) /\ v[Place(v, s[k])].uid = s[k]
              /\ r.slots[k] = v[Place(v, s[k])].id
<1> DEFINE o == [i \in DOMAIN v |-> v[i].id]
           a == {v[i].id : i \in {j \in DOMAIN v : v[j].awake}}
           t == [k \in Keys |-> IF s[k] \in Uids(v) THEN Copy(v, s[k]).id ELSE None]
<1>1. DOMAIN v = 1 .. Len(v) /\ Len(v) \in Nat /\ \A i \in 1 .. Len(v) : v[i] \in Minted
  OBVIOUS
<1>2. \A i \in 1 .. Len(v) : v[i].id \in Ids /\ v[i].uid # 0
  BY <1>1 DEF Minted
<1>3. o \in [1 .. Len(v) -> Ids] /\ \A i \in 1 .. Len(v) : o[i] = v[i].id
  BY <1>1, <1>2
<1>4. o \in Seq(Ids) /\ Len(o) = Len(v)
  BY <1>1, <1>3
<1>5. a \in SUBSET Ids /\ \A i \in 1 .. Len(v) : v[i].awake => v[i].id \in a
  BY <1>1, <1>2
<1>6. ASSUME NEW k \in Keys, s[k] \in Uids(v)
      PROVE  Place(v, s[k]) \in 1 .. Len(v) /\ v[Place(v, s[k])].uid = s[k]
  BY <1>1, <1>6 DEF Uids, Place
<1>7. \A k \in Keys : s[k] # 0 => s[k] \in Uids(v)
  BY DEF Fits
<1>8. \A k \in Keys : s[k] = 0 => s[k] \notin Uids(v)
  BY <1>1, <1>2 DEF Uids
<1>9. \A k \in Keys : s[k] = 0 => t[k] = None
  BY <1>8
<1>10. \A k \in Keys : s[k] # 0 => t[k] = v[Place(v, s[k])].id
  BY <1>7 DEF Copy
<1>11. \A k \in Keys : t[k] \in Ids \cup {None}
  BY <1>2, <1>6, <1>7, <1>9, <1>10
<1>12. t \in [Keys -> Ids \cup {None}]
  BY <1>11
<1>13. Mirror(v, s) = [owned |-> o, awake |-> a, slots |-> t]
  BY DEF Mirror
<1> HIDE DEF o, a, t
<1>14. Mirror(v, s) \in Record
  BY <1>4, <1>5, <1>12, <1>13 DEF Record
<1>15. \A k \in Keys : s[k] # 0 =>
         Place(v, s[k]) \in 1 .. Len(v) /\ v[Place(v, s[k])].uid = s[k]
  BY <1>6, <1>7
<1> QED
  BY <1>3, <1>4, <1>5, <1>9, <1>10, <1>13, <1>14, <1>15

\* Some copy of the id of a slot is in none of the other slots T of its page.
Spare(v, s, key, T, h) ==
  \E i \in 1 .. Len(v) :
    /\ v[i].id = Mirror(v, s).slots[key]
    /\ ~ \E k \in T : /\ k[1] = key[1] /\ h[k] = i
                      /\ s[k] # 0 /\ Mirror(v, s).slots[k] = Mirror(v, s).slots[key]

\* A page on which copies of an id are apart leaves one for each of its slots:
\* they are not all in the other slots.
LEMMA CopiesSuffice ==
  ASSUME NEW v \in Seq(Minted), NEW s \in [Keys -> Nat], NEW n, Fits(v, s, n),
         NEW key \in Keys, s[key] # 0, NEW T \in SUBSET (Keys \ {key}), NEW h
  PROVE  Spare(v, s, key, T, h)
<1> SUFFICES ASSUME \A i \in 1 .. Len(v) : v[i].id = Mirror(v, s).slots[key] =>
                      \E k \in T : /\ k[1] = key[1] /\ h[k] = i /\ s[k] # 0
                                  /\ Mirror(v, s).slots[k] = Mirror(v, s).slots[key]
             PROVE  FALSE
  BY DEF Spare
<1> DEFINE t == Mirror(v, s).slots
           id == t[key]
           D == {k \in Keys : k[1] = key[1] /\ s[k] # 0 /\ t[k] = id}
           E == {k \in T : k[1] = key[1] /\ s[k] # 0 /\ t[k] = id}
           C == {i \in 1 .. Len(v) : v[i].id = id}
           p == [k \in D |-> Place(v, s[k])]
           q == [i \in C |-> CHOOSE k \in E : h[k] = i]
<1>1. /\ \A k \in Keys : s[k] # 0 =>
           Place(v, s[k]) \in 1 .. Len(v) /\ v[Place(v, s[k])].uid = s[k]
      /\ \A k \in Keys : s[k] # 0 => t[k] = v[Place(v, s[k])].id
  BY MirrorType
<1>2. IsFiniteSet(D) /\ IsFiniteSet(E) /\ IsFiniteSet(C)
  <2>1. IsFiniteSet(Keys) /\ D \in SUBSET Keys /\ E \in SUBSET Keys
    BY Loose
  <2> DEFINE N == 1 .. Len(v)
  <2>2. IsFiniteSet(N) /\ C \in SUBSET N
    BY FS_Interval
  <2> HIDE DEF D, E, C, N
  <2> QED
    BY <2>1, <2>2, FS_Subset
<1>3. p \in Injection(D, C)
  <2>1. p \in [D -> C]
    BY <1>1
  <2>2. ASSUME NEW k \in D, NEW l \in D, p[k] = p[l] PROVE k = l
    <3>1. Place(v, s[k]) = Place(v, s[l])
      BY <2>2
    <3>2. s[k] = s[l]
      BY <1>1, <3>1
    <3>3. k[1] = l[1] /\ s[k] # 0
      OBVIOUS
    <3> QED
      BY <3>2, <3>3 DEF Fits
  <2> HIDE DEF p, D, C
  <2> QED
    BY <2>1, <2>2 DEF Injection, IsInjective
<1>4. q \in Injection(C, E)
  <2>1. \A i \in C : \E k \in E : h[k] = i
    OBVIOUS
  <2>2. \A i \in C : q[i] \in E /\ h[q[i]] = i
    BY <2>1
  <2>3. q = [i \in C |-> q[i]]
    OBVIOUS
  <2> HIDE DEF q, C, E
  <2>4. q \in [C -> E]
    BY <2>2, <2>3
  <2>5. \A i, j \in C : q[i] = q[j] => i = j
    BY <2>2
  <2> QED
    BY <2>4, <2>5 DEF Injection, IsInjective
<1>5. E \in SUBSET D /\ key \in D /\ key \notin E
  OBVIOUS
<1> HIDE DEF D, E, C, p, q
<1>6. Cardinality(D) <= Cardinality(C)
  BY <1>2, <1>3, FS_Injection
<1>7. Cardinality(C) <= Cardinality(E)
  BY <1>2, <1>4, FS_Injection
<1>8. Cardinality(E) <= Cardinality(D) /\ Cardinality(E) # Cardinality(D)
  BY <1>2, <1>5, FS_Subset
<1>9. Cardinality(D) \in Nat /\ Cardinality(E) \in Nat /\ Cardinality(C) \in Nat
  BY <1>2, FS_CardinalityType
<1> QED
  BY <1>6, <1>7, <1>8, <1>9

\* What a migration of a mirror has made of the slots T.
Kept(v, s, T, m) ==
  /\ m.inst = Unbound(Mirror(v, s)).inst /\ m.next = Len(v) + 1
  /\ \A k \in Keys :
       IF k \in T /\ s[k] # 0
       THEN m.slots[k] \in 1 .. Len(v) /\ v[m.slots[k]].id = Mirror(v, s).slots[k]
       ELSE m.slots[k] = 0
  /\ \A d \in Ids : m.bound[d] # 0 => m.bound[d] \in 1 .. Len(v) /\ v[m.bound[d]].id = d

\* Another slot is filled with a copy of its id, if it had one.
LEMMA BindKept ==
  ASSUME NEW v \in Seq(Minted), NEW s \in [Keys -> Nat], NEW n, Fits(v, s, n),
         NEW key \in Keys, NEW T \in SUBSET (Keys \ {key}), NEW m \in Partial, Kept(v, s, T, m)
  PROVE  Kept(v, s, T \cup {key}, Bind(Mirror(v, s), m, key))
<1> DEFINE r == Mirror(v, s)
           id == r.slots[key]
           taken == {m.slots[k] : k \in {k \in Keys : k[1] = key[1]}} \ {0}
           free == FirstCopy(m.inst, id, taken)
           uid == IF m.bound[id] \in taken \cup {0} THEN free ELSE m.bound[id]
<1>1. /\ m.inst \in Seq(Minted) /\ m.slots \in [Keys -> Nat] /\ m.bound \in [Ids -> Nat]
  BY PartialFields
<1>2. /\ r \in Record /\ Len(r.owned) = Len(v) /\ \A i \in 1 .. Len(v) : r.owned[i] = v[i].id
      /\ \A k \in Keys : s[k] = 0 => r.slots[k] = None
  BY MirrorType
<1>3. \A k \in Keys : s[k] # 0 => r.slots[k] \in Ids
  <2>1. \A k \in Keys : s[k] # 0 => Place(v, s[k]) \in 1 .. Len(v) /\ r.slots[k] = v[Place(v, s[k])].id
    BY MirrorType
  <2>2. \A i \in 1 .. Len(v) : v[i] \in Minted
    OBVIOUS
  <2>3. \A x \in Minted : x.id \in Ids
    BY DEF Minted
  <2> HIDE DEF r
  <2> QED
    BY <2>1, <2>2, <2>3
<1>4. /\ Len(m.inst) = Len(v) /\ Len(v) \in Nat /\ DOMAIN m.inst = 1 .. Len(v)
      /\ \A i \in 1 .. Len(v) : m.inst[i].uid = i /\ m.inst[i].id = v[i].id
  <2>1. m.inst = Unbound(r).inst
    BY DEF Kept
  <2> HIDE DEF r
  <2>2. /\ Len(Unbound(r).inst) = Len(r.owned)
        /\ \A i \in 1 .. Len(r.owned) :
             Unbound(r).inst[i] = [uid |-> i, id |-> r.owned[i], awake |-> r.owned[i] \in r.awake]
    BY <1>2, UnboundType
  <2>3. Len(m.inst) = Len(v) /\ Len(v) \in Nat /\ DOMAIN m.inst = 1 .. Len(v)
    BY <1>1, <1>2, <2>1, <2>2
  <2>4. ASSUME NEW i \in 1 .. Len(v) PROVE m.inst[i].uid = i /\ m.inst[i].id = v[i].id
    <3>1. m.inst[i] = [uid |-> i, id |-> r.owned[i], awake |-> r.owned[i] \in r.awake]
      BY <1>2, <2>1, <2>2
    <3> QED
      BY <1>2, <3>1
  <2> QED
    BY <2>3, <2>4
<1>5. CASE s[key] = 0
  <2>1. id = None
    BY <1>2, <1>5
  <2>2. Bind(r, m, key) = m
    BY <2>1 DEF Bind
  <2> HIDE DEF r
  <2> QED
    BY <1>5, <2>2 DEF Kept, r
<1>6. CASE s[key] # 0
  <2>1. id \in Ids /\ id # None
    BY <1>3, <1>6, Loose
  <2>2. \A d \in Ids : m.bound[d] # 0 => m.bound[d] \in 1 .. Len(v) /\ v[m.bound[d]].id = d
    BY DEF Kept
  <2>3. free # 0 => free \in 1 .. Len(v) /\ v[free].id = id
    <3> SUFFICES ASSUME free # 0 PROVE free \in 1 .. Len(v) /\ v[free].id = id
      OBVIOUS
    <3> HIDE DEF taken, id
    <3>1. m.inst \in Seq(Minted)
      BY <1>1
    <3>2. \E i \in DOMAIN m.inst : m.inst[i].id = id /\ m.inst[i].uid = free
      BY <3>1, FirstCopyIs
    <3> HIDE DEF free
    <3> QED
      BY <1>4, <3>2
  <2>4. ASSUME uid = 0 PROVE FALSE
    <3>1. free = 0
      BY <2>4
    <3> HIDE DEF taken, id
    <3>2. \A i \in DOMAIN m.inst : m.inst[i].id = id => m.inst[i].uid \in taken
      BY <1>1, <3>1, FirstCopyIs
    <3>3. \A i \in 1 .. Len(v) : v[i].id = id => i \in taken
      BY <1>4, <3>2
    <3>4. ASSUME NEW i \in 1 .. Len(v), v[i].id = id
          PROVE  \E k \in T : /\ k[1] = key[1] /\ m.slots[k] = i
                              /\ s[k] # 0 /\ r.slots[k] = r.slots[key]
      <4>1. PICK k \in Keys : k[1] = key[1] /\ m.slots[k] = i /\ i # 0
        BY <3>3, <3>4 DEF taken
      <4>2. k \in T /\ s[k] # 0 /\ v[m.slots[k]].id = r.slots[k]
        BY <4>1 DEF Kept
      <4> QED
        BY <3>4, <4>1, <4>2 DEF id
    <3>5. \A i \in 1 .. Len(v) : v[i].id = r.slots[key] =>
            \E k \in T : /\ k[1] = key[1] /\ m.slots[k] = i
                        /\ s[k] # 0 /\ r.slots[k] = r.slots[key]
      BY <3>4 DEF id
    <3>6. Spare(v, s, key, T, m.slots)
      BY <1>6, CopiesSuffice
    <3> QED
      BY <3>5, <3>6 DEF Spare
  <2>5. uid \in 1 .. Len(v) /\ v[uid].id = id
    <3> HIDE DEF free, taken
    <3> QED
      BY <2>1, <2>2, <2>3, <2>4
  <2> DEFINE x == [m.slots EXCEPT ![key] = uid]
             b == [m.bound EXCEPT ![id] = uid]
  <2>6. Bind(r, m, key) = [inst |-> m.inst, slots |-> x, next |-> m.next, bound |-> b]
    BY <2>1, <2>4 DEF Bind
  <2>7. \A k \in Keys : x[k] = IF k = key THEN uid ELSE m.slots[k]
    BY <1>1
  <2>8. \A d \in Ids : b[d] = IF d = id THEN uid ELSE m.bound[d]
    BY <1>1
  <2> HIDE DEF x, b, uid
  <2>9. ASSUME NEW k \in Keys
        PROVE  IF k \in T \cup {key} /\ s[k] # 0
               THEN x[k] \in 1 .. Len(v) /\ v[x[k]].id = r.slots[k]
               ELSE x[k] = 0
    <3>1. IF k \in T /\ s[k] # 0
          THEN m.slots[k] \in 1 .. Len(v) /\ v[m.slots[k]].id = r.slots[k]
          ELSE m.slots[k] = 0
      BY DEF Kept
    <3> HIDE DEF r
    <3> QED
      BY <1>6, <2>5, <2>7, <3>1 DEF id
  <2>10. \A d \in Ids : b[d] # 0 => b[d] \in 1 .. Len(v) /\ v[b[d]].id = d
    BY <2>2, <2>5, <2>8
  <2>11. m.inst = Unbound(r).inst /\ m.next = Len(v) + 1
    BY DEF Kept
  <2> HIDE DEF id, r
  <2> DEFINE w == [inst |-> m.inst, slots |-> x, next |-> m.next, bound |-> b]
  <2>12. w.inst = m.inst /\ w.slots = x /\ w.next = m.next /\ w.bound = b
    OBVIOUS
  <2>13. Bind(r, m, key) = w
    BY <2>6
  <2> HIDE DEF w
  <2>14. Kept(v, s, T \cup {key}, w)
    BY <2>9, <2>10, <2>11, <2>12 DEF Kept, r
  <2> QED
    BY <2>13, <2>14 DEF r
<1> QED
  BY <1>5, <1>6

\* A migration of a mirror keeps the copies, and fills every slot that had one.
LEMMA MigrateKept ==
  ASSUME NEW v \in Seq(Minted), NEW s \in [Keys -> Nat], NEW n, Fits(v, s, n)
  PROVE  Kept(v, s, Keys, Migrate(Mirror(v, s)))
<1> DEFINE r == Mirror(v, s)
<1>1. r \in Record /\ Len(r.owned) = Len(v)
  BY MirrorType
<1>2. PICK g : /\ Migrate(r) = g[Keys]
               /\ \A T \in SUBSET Keys :
                    /\ g[T] = IF T = {} THEN Unbound(r)
                              ELSE Bind(r, g[T \ {LastKey(T)}], LastKey(T))
                    /\ g[T] \in Partial
  <2> HIDE DEF r
  <2> QED
    BY <1>1, MigrateSteps
<1> DEFINE Good == {T \in SUBSET Keys : Kept(v, s, T, g[T])}
<1>3. ASSUME NEW T \in SUBSET Keys, \A U \in SUBSET T : U # T => U \in Good
      PROVE  T \in Good
  <2>1. CASE T = {}
    <3>1. g[T] = Unbound(r)
      BY <1>2, <2>1
    <3>2. Unbound(r).next = Len(v) + 1 /\ \A k \in Keys : Unbound(r).slots[k] = 0
      <4> HIDE DEF r
      <4> QED
        BY <1>1, UnboundType
    <3>3. \A d \in Ids : Unbound(r).bound[d] = 0
      BY DEF Unbound
    <3> HIDE DEF Good
    <3>4. Kept(v, s, T, g[T])
      BY <2>1, <3>1, <3>2, <3>3 DEF Kept
    <3> QED
      BY <3>4 DEF Good
  <2>2. CASE T # {}
    <3> DEFINE key == LastKey(T)
               U == T \ {key}
    <3>1. key \in T
      BY <2>2, LastKeyIn
    <3>2. U \in SUBSET (Keys \ {key}) /\ U \in Good /\ U \cup {key} = T /\ key \in Keys
      BY <1>3, <3>1
    <3>3. Kept(v, s, U, g[U]) /\ g[U] \in Partial /\ g[T] = Bind(r, g[U], key)
      BY <1>2, <2>2, <3>2
    <3> HIDE DEF U, key
    <3>4. Kept(v, s, U \cup {key}, Bind(r, g[U], key))
      BY <3>2, <3>3, BindKept
    <3> QED
      BY <3>2, <3>3, <3>4
  <2> QED
    BY <2>1, <2>2
<1>4. /\ \A T \in SUBSET Keys : (\A U \in SUBSET T : U # T => U \in Good) => T \in Good
      /\ Good \in SUBSET SUBSET Keys
  BY <1>3
<1>5. Good = SUBSET Keys
  <2>1. IsFiniteSet(Keys)
    BY Loose
  <2> HIDE DEF Good
  <2> QED
    BY <1>4, <2>1, SubsetInduction
<1> QED
  BY <1>2, <1>5

-----------------------------------------------------------------------------
(* Loft: the inductive invariant.                                          *)

\* A request for a slot names one; the copies and the slots are a loft.
LoftInv ==
  /\ LoftTypeOK
  /\ Fits(inst, slots, next)
  /\ \A c \in Conns : asked[c].at = "wear" => asked[c].key \in Keys

\* Instances are copies whose ids have a bound.
LEMMA InstanceMinted ==
  /\ Instance \subseteq Minted
  /\ \A v \in Seq(Instance) : v \in Seq(Minted)
  /\ \A v \in Seq(Instance) : \A i \in DOMAIN v : v[i] \in Instance
  /\ \A s \in [Keys -> 0 .. MaxUid] : s \in [Keys -> Nat]
<1>1. \A x \in Instance : x \in Minted
  BY Loose DEF Instance, Minted
<1>2. Instance \subseteq Minted
  BY <1>1
<1>3. \A v \in Seq(Instance) : v \in Seq(Minted)
  BY <1>2
<1>4. \A v \in Seq(Instance) : \A i \in DOMAIN v : v[i] \in Instance
  OBVIOUS
<1>5. \A s \in [Keys -> 0 .. MaxUid] : s \in [Keys -> Nat]
  BY Loose
<1> QED
  BY <1>2, <1>3, <1>4, <1>5

\* Copies whose UIDs are below the bound are instances.
LEMMA FitsInstances ==
  ASSUME NEW v \in Seq(Minted), NEW s \in [Keys -> Nat], NEW n \in Nat \ {0},
         Fits(v, s, n), n <= MaxUid + 1
  PROVE  v \in Seq(Instance) /\ s \in [Keys -> 0 .. MaxUid] /\ n \in 1 .. MaxUid + 1
<1>1. Len(v) \in Nat /\ DOMAIN v = 1 .. Len(v) /\ \A i \in DOMAIN v : v[i] \in Minted
  OBVIOUS
<1>2. \A i \in DOMAIN v : v[i].uid \in 1 .. MaxUid /\ v[i] \in Instance
  <2>1. \A x \in Minted : x.uid \in Nat \ {0} /\ (x.uid \in 1 .. MaxUid => x \in Instance)
    BY DEF Minted, Instance
  <2>2. \A i \in DOMAIN v : v[i].uid < n
    BY DEF Fits
  <2>3. \A u \in Nat \ {0} : u < n => u \in 1 .. MaxUid
    BY Loose
  <2> QED
    BY <1>1, <2>1, <2>2, <2>3
<1>3. v \in Seq(Instance)
  <2>1. v = [i \in 1 .. Len(v) |-> v[i]]
    BY <1>1
  <2>2. v \in [1 .. Len(v) -> Instance]
    BY <1>1, <1>2, <2>1
  <2> QED
    BY <1>1, <2>2
<1>4. \A k \in Keys : s[k] \in 0 .. MaxUid
  <2>1. \A k \in Keys : s[k] # 0 => s[k] \in Uids(v)
    BY DEF Fits
  <2>2. \A u \in Uids(v) : u \in 0 .. MaxUid
    BY <1>2 DEF Uids
  <2>3. 0 \in 0 .. MaxUid
    BY Loose
  <2> QED
    BY <2>1, <2>2, <2>3
<1>5. n \in 1 .. MaxUid + 1
  BY Loose
<1> QED
  BY <1>3, <1>4, <1>5

\* Copies and slots that stay as they are, or slots that only lose copies, are
\* a loft still.
LEMMA FitsCleared ==
  ASSUME NEW v, NEW s, NEW n, NEW t, Fits(v, s, n), \A k \in Keys : t[k] \in {s[k], 0}
  PROVE  Fits(v, t, n)
<1>1. ASSUME NEW k \in Keys, NEW l \in Keys, t[k] # 0
      PROVE  t[k] \in Uids(v) /\ (k # l /\ k[1] = l[1] => t[k] # t[l])
  <2>1. t[k] = s[k] /\ s[k] # 0 /\ t[l] \in {s[l], 0}
    BY <1>1
  <2>2. s[k] \in Uids(v) /\ (k # l /\ k[1] = l[1] => s[k] # s[l])
    BY <2>1 DEF Fits
  <2> QED
    BY <1>1, <2>1, <2>2
<1> QED
  BY <1>1 DEF Fits

\* What the load leaves on the pages is owned, and once on its page.
LEMMA NormalizeFits ==
  ASSUME NEW v, NEW s \in [Keys -> Nat], NEW n, NEW t \in [Keys -> 0 .. MaxUid], Fits(v, s, n)
  PROVE  Normalize(v, t) \in [Keys -> 0 .. MaxUid] /\ Fits(v, Normalize(v, t), n)
<1> DEFINE w == Normalize(v, t)
           Dropped(k) == \/ t[k] \notin Uids(v)
                         \/ \E l \in Keys : l[1] = k[1] /\ l[2] < k[2] /\ t[l] = t[k]
<1>1. w = [k \in Keys |-> IF Dropped(k) THEN 0 ELSE t[k]]
  BY DEF Normalize
<1>2. w \in [Keys -> 0 .. MaxUid] /\ \A k \in Keys : w[k] = IF Dropped(k) THEN 0 ELSE t[k]
  <2>1. 0 \in 0 .. MaxUid
    BY Loose
  <2> HIDE DEF Dropped
  <2> QED
    BY <1>1, <2>1
<1> HIDE DEF w, Dropped
<1>3. \A k \in Keys : w[k] # 0 => ~Dropped(k) /\ w[k] = t[k]
  BY <1>2
<1>4. \A k, l \in Keys : k # l /\ k[1] = l[1] => l[2] < k[2] \/ k[2] < l[2]
  BY Loose
<1>5. ASSUME NEW k \in Keys, NEW l \in Keys, w[k] # 0
      PROVE  w[k] \in Uids(v) /\ (k # l /\ k[1] = l[1] => w[k] # w[l])
  <2>1. ~Dropped(k) /\ w[k] = t[k]
    BY <1>3, <1>5
  <2>2. w[k] \in Uids(v)
    BY <2>1 DEF Dropped
  <2>3. ASSUME k # l, k[1] = l[1], w[k] = w[l] PROVE FALSE
    <3>1. ~Dropped(l) /\ w[l] = t[l]
      BY <1>3, <1>5, <2>3
    <3>2. t[k] = t[l]
      BY <2>1, <2>3, <3>1
    <3>3. CASE l[2] < k[2]
      BY <2>1, <2>3, <3>2, <3>3 DEF Dropped
    <3>4. CASE k[2] < l[2]
      BY <3>1, <2>3, <3>2, <3>4 DEF Dropped
    <3> QED
      BY <1>4, <2>3, <3>3, <3>4
  <2> QED
    BY <2>2, <2>3
<1>6. Fits(v, w, n)
  BY <1>5 DEF Fits
<1> QED
  BY <1>2, <1>6 DEF w

\* In a loft there is nothing to drop.
LEMMA NormalizeIdle ==
  ASSUME NEW v, NEW s \in [Keys -> Nat], NEW n, Fits(v, s, n)
  PROVE  Normalize(v, s) = s
<1>1. ASSUME NEW k \in Keys
      PROVE  (IF \/ s[k] \notin Uids(v)
                 \/ \E l \in Keys : l[1] = k[1] /\ l[2] < k[2] /\ s[l] = s[k]
              THEN 0 ELSE s[k]) = s[k]
  <2>1. CASE s[k] = 0
    BY <2>1
  <2>2. CASE s[k] # 0
    <3>1. s[k] \in Uids(v)
      BY <2>2 DEF Fits
    <3>2. \A l \in Keys : k # l /\ k[1] = l[1] => s[k] # s[l]
      BY <2>2 DEF Fits
    <3>3. \A l \in Keys : l[2] < k[2] => k # l
      BY Loose
    <3> QED
      BY <3>1, <3>2, <3>3
  <2> QED
    BY <2>1, <2>2
<1>2. s = [k \in Keys |-> s[k]]
  OBVIOUS
<1> QED
  BY <1>1, <1>2 DEF Normalize

\* Copies keep their UIDs when only flags change.
LEMMA FitsRewritten ==
  ASSUME NEW v, NEW s, NEW n, NEW w, Fits(v, s, n), DOMAIN w = DOMAIN v, Len(w) = Len(v),
         \A i \in DOMAIN v : w[i].uid = v[i].uid
  PROVE  Fits(w, s, n)
<1>1. Uids(w) = Uids(v)
  BY DEF Uids
<1> QED
  BY <1>1 DEF Fits

\* Setting the flag of a copy keeps the others, and every UID and id.
LEMMA Rewritten ==
  ASSUME inst \in Seq(Instance), NEW uid, NEW flag \in BOOLEAN, Rewrite(uid, flag)
  PROVE  /\ inst' \in Seq(Instance) /\ DOMAIN inst' = DOMAIN inst /\ Len(inst') = Len(inst)
         /\ \A i \in DOMAIN inst :
              /\ inst'[i].uid = inst[i].uid
              /\ inst[i].uid = uid => inst'[i] = [inst[i] EXCEPT !.awake = flag]
              /\ inst[i].uid # uid => inst'[i] = inst[i]
<1>1. DOMAIN inst = 1 .. Len(inst) /\ Len(inst) \in Nat /\ \A i \in DOMAIN inst : inst[i] \in Instance
  OBVIOUS
<1>2. \A x \in Instance : /\ [x EXCEPT !.awake = flag] \in Instance
                          /\ [x EXCEPT !.awake = flag].uid = x.uid
  BY DEF Instance
<1>3. \A i \in DOMAIN inst :
        inst'[i] = IF inst[i].uid = uid THEN [inst[i] EXCEPT !.awake = flag] ELSE inst[i]
  BY DEF Rewrite
<1>4. \A i \in DOMAIN inst : inst'[i] \in Instance
  BY <1>1, <1>2, <1>3
<1>5. inst' \in [1 .. Len(inst) -> Instance]
  BY <1>1, <1>4 DEF Rewrite
<1>6. inst' \in Seq(Instance) /\ DOMAIN inst' = DOMAIN inst /\ Len(inst') = Len(inst)
  BY <1>1, <1>5
<1>7. ASSUME NEW i \in DOMAIN inst
      PROVE  /\ inst'[i].uid = inst[i].uid
             /\ inst[i].uid = uid => inst'[i] = [inst[i] EXCEPT !.awake = flag]
             /\ inst[i].uid # uid => inst'[i] = inst[i]
  BY <1>1, <1>2, <1>3
<1> QED
  BY <1>6, <1>7

\* The copies other than uid are in w where they were in v, or one place before.
Spared(v, w, uid) ==
  \A i \in DOMAIN v : v[i].uid # uid => \E j \in {i, i - 1} : j \in DOMAIN w /\ w[j] = v[i]

\* What the removal of the copy uid makes of a loft.
Without(v, s, n, uid, w, t) ==
  /\ w \in Seq(Instance) /\ t \in [Keys -> 0 .. MaxUid] /\ Fits(w, t, n)
  /\ Spared(v, w, uid)
  /\ \A j \in DOMAIN w : \E i \in DOMAIN v : w[j] = v[i]

\* A loft from which a copy is gone, from the vector and from the pages.
LEMMA Removed ==
  ASSUME NEW v \in Seq(Instance), NEW s \in [Keys -> 0 .. MaxUid], NEW n, Fits(v, s, n),
         n \in Nat, NEW uid \in Uids(v), NEW w, w = RemoveAt(v, Place(v, uid)),
         NEW t, t = [k \in Keys |-> IF s[k] = uid THEN 0 ELSE s[k]]
  PROVE  Without(v, s, n, uid, w, t)
<1> DEFINE p == Place(v, uid)
           Old(j) == IF j < p THEN j ELSE j + 1
<1>1. DOMAIN v = 1 .. Len(v) /\ Len(v) \in Nat /\ \A i \in DOMAIN v : v[i] \in Instance
  OBVIOUS
<1>2. p \in DOMAIN v /\ v[p].uid = uid
  BY DEF Uids, Place
<1>3. \A i, j \in DOMAIN v : v[i].uid = v[j].uid => i = j
  BY DEF Fits
<1>4. w = SubSeq(v, 1, p - 1) \o SubSeq(v, p + 1, Len(v))
  BY DEF RemoveAt
<1> HIDE DEF p
<1>5. p \in 1 .. Len(v)
  BY <1>1, <1>2
<1> DEFINE a == SubSeq(v, 1, p - 1)
           b == SubSeq(v, p + 1, Len(v))
<1>6. /\ a \in Seq(Instance) /\ Len(a) = p - 1 /\ \A i \in 1 .. p - 1 : a[i] = v[i]
  BY <1>1, <1>5
<1>7. /\ b \in Seq(Instance) /\ Len(b) = Len(v) - p
      /\ \A i \in 1 .. Len(v) - p : b[i] = v[p + i]
  <2>1. p + 1 \in 1 .. Len(v) + 1 /\ Len(v) \in p .. Len(v)
    BY <1>1, <1>5
  <2>2. /\ b \in Seq(Instance)
        /\ Len(b) = IF p + 1 <= Len(v) THEN Len(v) - (p + 1) + 1 ELSE 0
        /\ \A i \in 1 .. Len(v) - (p + 1) + 1 : b[i] = v[p + 1 + i - 1]
    BY <2>1, SubSeqProperties
  <2> HIDE DEF b
  <2>3. p \in Nat /\ Len(v) \in Nat /\ p <= Len(v)
    BY <1>1, <1>5
  <2>4. /\ p + 1 <= Len(v) => Len(v) - (p + 1) + 1 = Len(v) - p
        /\ ~(p + 1 <= Len(v)) => Len(v) - p = 0
    BY <2>3
  <2>5. Len(b) = Len(v) - p
    BY <2>2, <2>4
  <2>6. ASSUME NEW i \in 1 .. Len(v) - p PROVE b[i] = v[p + i]
    <3>1. i \in 1 .. Len(v) - (p + 1) + 1 /\ p + 1 + i - 1 = p + i
      BY <1>1, <1>5
    <3> QED
      BY <2>2, <3>1
  <2> QED
    BY <2>2, <2>5, <2>6
<1> HIDE DEF a, b
<1>8. w \in Seq(Instance) /\ Len(w) = Len(v) - 1 /\ DOMAIN w = 1 .. Len(v) - 1
  <2>1. w = a \o b
    BY <1>4 DEF a, b
  <2>2. w \in Seq(Instance) /\ Len(w) = Len(a) + Len(b)
    <3>1. a \in Seq(Instance) /\ b \in Seq(Instance)
      BY <1>6, <1>7
    <3> QED
      BY <2>1, <3>1, ConcatProperties
  <2>3. DOMAIN w = 1 .. Len(w)
    BY <2>2
  <2> QED
    BY <1>1, <1>5, <1>6, <1>7, <2>2, <2>3
<1>9. \A j \in DOMAIN w : Old(j) \in DOMAIN v /\ Old(j) # p /\ w[j] = v[Old(j)]
  <2> SUFFICES ASSUME NEW j \in 1 .. Len(v) - 1
               PROVE  Old(j) \in DOMAIN v /\ Old(j) # p /\ w[j] = v[Old(j)]
    BY <1>8
  <2>1. w = a \o b
    BY <1>4 DEF a, b
  <2>2. CASE j < p
    <3>1. j \in 1 .. p - 1 /\ j \in 1 .. Len(v)
      BY <1>1, <1>5, <2>2
    <3>2. w[j] = a[j]
      <4>1. /\ a \in Seq(Instance) /\ b \in Seq(Instance) /\ j \in 1 .. Len(a) + Len(b)
            /\ j <= Len(a)
        BY <1>1, <1>5, <1>6, <1>7, <3>1
      <4> QED
        BY <2>1, <4>1, ConcatProperties
    <3> QED
      BY <1>1, <1>5, <1>6, <2>2, <3>1, <3>2
  <2>3. CASE ~(j < p)
    <3>1. j - (p - 1) \in 1 .. Len(v) - p /\ p + (j - (p - 1)) = j + 1 /\ j + 1 \in 1 .. Len(v)
      BY <1>1, <1>5, <2>3
    <3>2. w[j] = b[j - (p - 1)]
      <4>1. /\ a \in Seq(Instance) /\ b \in Seq(Instance) /\ j \in 1 .. Len(a) + Len(b)
            /\ ~(j <= Len(a)) /\ Len(a) = p - 1
        BY <1>1, <1>5, <1>6, <1>7, <2>3
      <4> QED
        BY <2>1, <4>1, ConcatProperties
    <3>3. w[j] = v[j + 1]
      BY <1>7, <3>1, <3>2
    <3> QED
      BY <1>1, <1>5, <2>3, <3>1, <3>3
  <2> QED
    BY <2>2, <2>3
<1>10. \A i \in DOMAIN v : v[i].uid # uid =>
         \E j \in {i, i - 1} : j \in DOMAIN w /\ w[j] = v[i] /\ Old(j) = i
  <2> SUFFICES ASSUME NEW i \in DOMAIN v, v[i].uid # uid
               PROVE  \E j \in {i, i - 1} : j \in DOMAIN w /\ w[j] = v[i] /\ Old(j) = i
    OBVIOUS
  <2>1. i # p /\ i \in 1 .. Len(v)
    BY <1>1, <1>2
  <2>2. CASE i < p
    <3>1. i \in DOMAIN w /\ Old(i) = i
      BY <1>1, <1>5, <1>8, <2>1, <2>2
    <3> QED
      BY <1>9, <3>1
  <2>3. CASE i > p
    <3>1. i - 1 \in DOMAIN w /\ Old(i - 1) = i
      BY <1>1, <1>5, <1>8, <2>1, <2>3
    <3> QED
      BY <1>9, <3>1
  <2> QED
    BY <1>5, <2>1, <2>2, <2>3
<1>11. t \in [Keys -> 0 .. MaxUid] /\ \A k \in Keys : t[k] = IF s[k] = uid THEN 0 ELSE s[k]
  BY Loose
<1>12. Fits(w, t, n)
  <2>1. \A u \in Uids(v) : u # uid => u \in Uids(w)
    BY <1>10 DEF Uids
  <2>2. ASSUME NEW k \in Keys, NEW l \in Keys, t[k] # 0
        PROVE  t[k] \in Uids(w) /\ (k # l /\ k[1] = l[1] => t[k] # t[l])
    <3>1. s[k] # uid /\ t[k] = s[k] /\ s[k] # 0 /\ t[l] \in {s[l], 0}
      BY <1>11, <2>2
    <3>2. s[k] \in Uids(v) /\ (k # l /\ k[1] = l[1] => s[k] # s[l])
      BY <3>1 DEF Fits
    <3> QED
      BY <2>1, <2>2, <3>1, <3>2
  <2>3. \A i, j \in DOMAIN w : w[i].uid = w[j].uid => i = j
    <3> SUFFICES ASSUME NEW i \in DOMAIN w, NEW j \in DOMAIN w, w[i].uid = w[j].uid
                 PROVE  i = j
      OBVIOUS
    <3>1. Old(i) = Old(j)
      BY <1>3, <1>9
    <3>2. i \in Nat /\ j \in Nat /\ p \in Nat
      BY <1>5, <1>8
    <3> QED
      BY <3>1, <3>2
  <2>4. \A i \in DOMAIN w : w[i].uid < n
    BY <1>9 DEF Fits
  <2>5. Len(v) < n
    BY DEF Fits
  <2>6. Len(w) < n
    BY <1>1, <1>8, <2>5
  <2> QED
    BY <2>2, <2>3, <2>4, <2>6 DEF Fits
<1>13. Spared(v, w, uid) /\ \A j \in DOMAIN w : \E i \in DOMAIN v : w[j] = v[i]
  BY <1>9, <1>10 DEF Spared
<1> QED
  BY <1>8, <1>11, <1>12, <1>13 DEF Without

\* A copy goes from the other slots of a page into one of them.
LEMMA Equipped ==
  ASSUME NEW v, NEW s \in [Keys -> 0 .. MaxUid], NEW n, Fits(v, s, n), NEW key \in Keys,
         NEW uid \in Uids(v), uid \in 0 .. MaxUid, NEW t,
         t = [k \in Keys |-> IF k = key THEN uid
                             ELSE IF k[1] = key[1] /\ s[k] = uid THEN 0 ELSE s[k]]
  PROVE  t \in [Keys -> 0 .. MaxUid] /\ Fits(v, t, n)
<1>1. 0 \in 0 .. MaxUid
  BY Loose
<1>2. t \in [Keys -> 0 .. MaxUid]
  BY <1>1
<1>3. \A k \in Keys : t[k] = IF k = key THEN uid
                             ELSE IF k[1] = key[1] /\ s[k] = uid THEN 0 ELSE s[k]
  OBVIOUS
<1>4. ASSUME NEW k \in Keys, NEW l \in Keys, t[k] # 0
      PROVE  t[k] \in Uids(v) /\ (k # l /\ k[1] = l[1] => t[k] # t[l])
  <2>1. s[k] # 0 => s[k] \in Uids(v) /\ (k # l /\ k[1] = l[1] => s[k] # s[l])
    BY DEF Fits
  <2>2. CASE k = key
    BY <1>3, <1>4, <2>2
  <2>3. CASE k # key
    <3>1. t[k] = s[k] /\ (k[1] = key[1] => s[k] # uid)
      BY <1>3, <1>4, <2>3
    <3>2. CASE l = key
      BY <1>3, <1>4, <2>1, <3>1, <3>2
    <3>3. CASE l # key
      BY <1>3, <1>4, <2>1, <3>1, <3>3
    <3> QED
      BY <3>2, <3>3
  <2> QED
    BY <2>2, <2>3
<1>5. Fits(v, t, n)
  BY <1>4 DEF Fits
<1> QED
  BY <1>2, <1>5

\* The parts of the invariant.
LEMMA LoftFacts ==
  ASSUME LoftInv
  PROVE  /\ inst \in Seq(Instance) /\ slots \in [Keys -> 0 .. MaxUid]
         /\ next \in 1 .. MaxUid + 1 /\ next \in Nat /\ emblem \in 0 .. MaxEmblem
         /\ asked \in [Conns -> Request] /\ Fits(inst, slots, next)
         /\ \A c \in Conns : asked[c].at = "wear" => asked[c].key \in Keys
         /\ inst \in Seq(Minted) /\ slots \in [Keys -> Nat]
<1>1. /\ inst \in Seq(Instance) /\ slots \in [Keys -> 0 .. MaxUid]
      /\ next \in 1 .. MaxUid + 1 /\ emblem \in 0 .. MaxEmblem
      /\ asked \in [Conns -> Request] /\ Fits(inst, slots, next)
      /\ \A c \in Conns : asked[c].at = "wear" => asked[c].key \in Keys
  BY DEF LoftInv, LoftTypeOK
<1>2. next \in Nat
  BY <1>1, Loose
<1> QED
  BY <1>1, <1>2, InstanceMinted

\* The invariant from the parts, after a step.
LEMMA LoftMade ==
  ASSUME inst' \in Seq(Instance), slots' \in [Keys -> 0 .. MaxUid], next' \in 1 .. MaxUid + 1,
         emblem' \in 0 .. MaxEmblem, asked' \in [Conns -> Request], Fits(inst', slots', next'),
         \A c \in Conns : asked'[c].at = "wear" => asked'[c].key \in Keys
  PROVE  LoftInv'
  BY DEF LoftInv, LoftTypeOK, Fits, Uids

\* A connection takes up a request, or is done with one.
LEMMA AskedChanged ==
  ASSUME LoftInv, NEW c \in Conns, NEW r \in Request, r.at = "wear" => r.key \in Keys,
         asked' = [asked EXCEPT ![c] = r]
  PROVE  /\ asked' \in [Conns -> Request]
         /\ \A d \in Conns : asked'[d].at = "wear" => asked'[d].key \in Keys
<1>1. asked \in [Conns -> Request] /\ \A d \in Conns : asked[d].at = "wear" => asked[d].key \in Keys
  BY LoftFacts
<1>2. asked' \in [Conns -> Request] /\ \A d \in Conns : asked'[d] = IF d = c THEN r ELSE asked[d]
  BY <1>1
<1> QED
  BY <1>1, <1>2

\* A connection without a request waits for one.
LEMMA NoRequestType == NoRequest \in Request /\ NoRequest.at = "idle"
  BY Loose DEF NoRequest, Request

\* A request looks its position up.
LEMMA BeginSound ==
  ASSUME LoftInv, NEW c \in Conns, NEW r, Begin(c, r), NEW i, r.uid = At(i),
         r = [at |-> r.at, uid |-> At(i), key |-> r.key],
         r.at \in {"wear", "wake", "delete", "sleep"}, r.key \in Keys \cup {None},
         r.at = "wear" => r.key \in Keys
  PROVE  LoftInv'
<1>1. At(i) \in 0 .. MaxUid
  <2>1. \A j \in DOMAIN inst : inst[j] \in Instance
    BY LoftFacts, InstanceMinted
  <2>2. \A x \in Instance : x.uid \in 0 .. MaxUid
    BY Loose DEF Instance
  <2>3. 0 \in 0 .. MaxUid
    BY Loose
  <2> QED
    BY <2>1, <2>2, <2>3 DEF At
<1>2. r \in Request
  BY <1>1 DEF Request
<1>3. asked' = [asked EXCEPT ![c] = r] /\ UNCHANGED <<inst, slots, next, emblem>>
  BY DEF Begin
<1>4. /\ asked' \in [Conns -> Request]
      /\ \A d \in Conns : asked'[d].at = "wear" => asked'[d].key \in Keys
  BY <1>2, <1>3, AskedChanged
<1> QED
  BY <1>3, <1>4, LoftFacts, LoftMade

\* A request ends.
LEMMA DoneSound ==
  ASSUME LoftInv, NEW c \in Conns, Done(c)
  PROVE  /\ asked' \in [Conns -> Request]
         /\ \A d \in Conns : asked'[d].at = "wear" => asked'[d].key \in Keys
  BY AskedChanged, NoRequestType DEF Done

\* A copy goes into a slot, if it is still owned.
LEMMA WearSound ==
  ASSUME LoftInv, NEW c \in Conns, Wear(c)
  PROVE  LoftInv'
<1>1. asked[c] \in Request /\ asked[c].key \in Keys
  BY LoftFacts DEF Wear
<1>2. asked[c].uid \in 0 .. MaxUid
  BY <1>1 DEF Request
<1>3. EquipTablet(asked[c].key, asked[c].uid) /\ Done(c) /\ UNCHANGED <<inst, next, emblem>>
  BY DEF Wear
<1>4. slots' \in [Keys -> 0 .. MaxUid] /\ Fits(inst, slots', next)
  <2> DEFINE key == asked[c].key
             uid == asked[c].uid
  <2>1. CASE uid \in Uids(inst)
    <3>1. slots' = [k \in Keys |-> IF k = key THEN uid
                                   ELSE IF k[1] = key[1] /\ slots[k] = uid THEN 0 ELSE slots[k]]
      BY <1>3, <2>1 DEF EquipTablet
    <3>2. key \in Keys /\ uid \in 0 .. MaxUid
      BY <1>1, <1>2
    <3> HIDE DEF key, uid
    <3>3. slots \in [Keys -> 0 .. MaxUid] /\ Fits(inst, slots, next)
      BY LoftFacts
    <3> QED
      BY <2>1, <3>1, <3>2, <3>3, Equipped
  <2>2. CASE uid \notin Uids(inst)
    <3>1. slots' = slots
      BY <1>3, <2>2 DEF EquipTablet
    <3> QED
      BY <3>1, LoftFacts
  <2> QED
    BY <2>1, <2>2
<1>5. inst' = inst /\ next' = next /\ emblem' = emblem
  BY <1>3
<1>6. Fits(inst', slots', next')
  BY <1>4, <1>5
<1>7. /\ asked' \in [Conns -> Request]
      /\ \A d \in Conns : asked'[d].at = "wear" => asked'[d].key \in Keys
  BY <1>3, DoneSound
<1> QED
  BY <1>4, <1>5, <1>6, <1>7, LoftFacts, LoftMade

\* The flags change, and perhaps the wallet.
LEMMA RewriteSound ==
  ASSUME LoftInv, NEW uid, NEW flag \in BOOLEAN, Rewrite(uid, flag),
         UNCHANGED <<slots, next>>, emblem' \in 0 .. MaxEmblem, asked' \in [Conns -> Request],
         \A d \in Conns : asked'[d].at = "wear" => asked'[d].key \in Keys
  PROVE  LoftInv'
<1>1. inst \in Seq(Instance) /\ Fits(inst, slots, next)
  BY LoftFacts
<1>2. /\ inst' \in Seq(Instance) /\ DOMAIN inst' = DOMAIN inst /\ Len(inst') = Len(inst)
      /\ \A i \in DOMAIN inst : inst'[i].uid = inst[i].uid
  BY <1>1, Rewritten
<1>3. Fits(inst', slots, next)
  BY <1>1, <1>2, FitsRewritten
<1>4. Fits(inst', slots', next')
  BY <1>3
<1> QED
  BY <1>2, <1>4, LoftFacts, LoftMade

\* A copy goes, from the vector and from the pages.
LEMMA DeleteSound ==
  ASSUME LoftInv, NEW c \in Conns, Delete(c)
  PROVE  LoftInv'
<1>1. DeleteTablet(asked[c].uid) /\ Done(c) /\ UNCHANGED <<next, emblem>>
  BY DEF Delete
<1>2. inst' \in Seq(Instance) /\ slots' \in [Keys -> 0 .. MaxUid] /\ Fits(inst', slots', next)
  <2> DEFINE uid == asked[c].uid
  <2>1. CASE uid \in Uids(inst)
    <3>1. /\ inst' = RemoveAt(inst, Place(inst, uid))
          /\ slots' = [k \in Keys |-> IF slots[k] = uid THEN 0 ELSE slots[k]]
      BY <1>1, <2>1 DEF DeleteTablet
    <3> HIDE DEF uid
    <3>2. /\ inst \in Seq(Instance) /\ slots \in [Keys -> 0 .. MaxUid]
          /\ Fits(inst, slots, next) /\ next \in Nat
      BY LoftFacts
    <3>3. Without(inst, slots, next, uid, inst', slots')
      BY <2>1, <3>1, <3>2, Removed
    <3> QED
      BY <3>3 DEF Without
  <2>2. CASE uid \notin Uids(inst)
    <3>1. inst' = inst /\ slots' = slots
      BY <1>1, <2>2 DEF DeleteTablet
    <3> QED
      BY <3>1, LoftFacts
  <2> QED
    BY <2>1, <2>2
<1>3. next' = next /\ emblem' = emblem /\ Fits(inst', slots', next')
  BY <1>1, <1>2
<1>4. /\ asked' \in [Conns -> Request]
      /\ \A d \in Conns : asked'[d].at = "wear" => asked'[d].key \in Keys
  BY <1>1, DoneSound
<1> QED
  BY <1>2, <1>3, <1>4, LoftFacts, LoftMade

\* An unlock is paid and clears the flag, or does nothing.
LEMMA SleepSound ==
  ASSUME LoftInv, NEW c \in Conns, Sleep(c)
  PROVE  LoftInv'
<1>1. SleepTablet(asked[c].uid) /\ Done(c) /\ UNCHANGED <<slots, next>>
  BY DEF Sleep
<1>2. /\ asked' \in [Conns -> Request]
      /\ \A d \in Conns : asked'[d].at = "wear" => asked'[d].key \in Keys
  BY <1>1, DoneSound
<1>3. CASE emblem' = emblem - Cost /\ Rewrite(asked[c].uid, FALSE) /\ emblem >= Cost
  <2>1. emblem \in 0 .. MaxEmblem
    BY LoftFacts
  <2>2. emblem' \in 0 .. MaxEmblem
    BY <1>3, <2>1, Loose
  <2> QED
    BY <1>1, <1>2, <1>3, <2>2, RewriteSound
<1>4. CASE UNCHANGED <<emblem, inst>>
  BY <1>1, <1>2, <1>4, LoftFacts, LoftMade
<1>5. \/ emblem' = emblem - Cost /\ Rewrite(asked[c].uid, FALSE) /\ emblem >= Cost
      \/ UNCHANGED <<emblem, inst>>
  BY <1>1 DEF SleepTablet
<1> QED
  BY <1>3, <1>4, <1>5

\* A purchase appends a copy with the next UID.
LEMMA GrantSound ==
  ASSUME LoftInv, NEW id \in Ids, Grant(id)
  PROVE  LoftInv'
<1> DEFINE x == [uid |-> next, id |-> id, awake |-> FALSE]
<1>1. inst' = Append(inst, x) /\ next' = next + 1 /\ next <= MaxUid
  BY DEF Grant
<1>2. UNCHANGED <<slots, emblem, asked>>
  BY DEF Grant
<1>3. next \in 1 .. MaxUid + 1 /\ next \in Nat
  BY LoftFacts
<1>4. next \in 1 .. MaxUid /\ next \in Nat \ {0} /\ next + 1 \in 1 .. MaxUid + 1
  BY <1>1, <1>3, Loose
<1>5. x \in Instance /\ x \in Minted /\ x.uid = next
  BY <1>4 DEF Instance, Minted
<1> HIDE DEF x
<1>6. inst' \in Seq(Instance)
  <2>1. inst \in Seq(Instance)
    BY LoftFacts
  <2> QED
    BY <1>1, <1>5, <2>1
<1>7. Fits(inst', slots, next + 1)
  <2>1. inst \in Seq(Minted) /\ slots \in [Keys -> Nat] /\ Fits(inst, slots, next)
    BY LoftFacts
  <2> QED
    BY <1>1, <1>4, <1>5, <2>1, FitsMinted
<1>8. Fits(inst', slots', next') /\ next' \in 1 .. MaxUid + 1
  BY <1>1, <1>2, <1>4, <1>7
<1> QED
  BY <1>2, <1>6, <1>8, LoftFacts, LoftMade

\* Page slots are normalised.
LEMMA NormalizeSound ==
  ASSUME LoftInv, NEW t \in [Keys -> 0 .. MaxUid], slots' = Normalize(inst, t),
         UNCHANGED <<inst, next, emblem>>, asked' \in [Conns -> Request],
         \A d \in Conns : asked'[d].at = "wear" => asked'[d].key \in Keys
  PROVE  LoftInv'
<1>1. slots' \in [Keys -> 0 .. MaxUid] /\ Fits(inst, slots', next)
  <2>1. slots \in [Keys -> Nat] /\ Fits(inst, slots, next)
    BY LoftFacts
  <2> QED
    BY <2>1, NormalizeFits
<1>2. Fits(inst', slots', next')
  BY <1>1
<1> QED
  BY <1>1, <1>2, LoftFacts, LoftMade

\* The server stops and loads.
LEMMA LoadSound ==
  ASSUME LoftInv, Load
  PROVE  LoftInv'
<1>1. asked' = [c \in Conns |-> NoRequest] /\ slots' = Normalize(inst, slots)
  BY DEF Load
<1>2. UNCHANGED <<inst, next, emblem>>
  BY DEF Load
<1>3. /\ asked' \in [Conns -> Request]
      /\ \A d \in Conns : asked'[d].at = "wear" => asked'[d].key \in Keys
  BY <1>1, NoRequestType
<1>4. slots \in [Keys -> 0 .. MaxUid]
  BY LoftFacts
<1> QED
  BY <1>1, <1>2, <1>3, <1>4, NormalizeSound

\* The loft that an older binary leaves.
LEMMA OldBinaryMade ==
  ASSUME LoftInv, OldBinary
  PROVE  /\ Kept(inst, slots, Keys, Migrate(Mirror(inst, slots)))
         /\ inst' = Unbound(Mirror(inst, slots)).inst /\ next' = Len(inst) + 1
         /\ Mirror(inst, slots) \in Record /\ Len(inst') = Len(inst)
         /\ Fits(inst', slots', next')
         /\ inst' \in Seq(Minted) /\ slots' \in [Keys -> Nat] /\ next' \in Nat \ {0}
<1> DEFINE m == Migrate(Mirror(inst, slots))
<1>1. inst' = m.inst /\ slots' = m.slots /\ next' = m.next
  BY DEF OldBinary
<1>2. inst \in Seq(Minted) /\ slots \in [Keys -> Nat] /\ Fits(inst, slots, next)
  BY LoftFacts
<1>3. Mirror(inst, slots) \in Record /\ Len(Mirror(inst, slots).owned) = Len(inst)
  BY <1>2, MirrorType
<1>4. m \in Partial
  BY <1>3, MigrateSound
<1>5. Kept(inst, slots, Keys, m)
  BY <1>2, MigrateKept
<1>6. inst' = Unbound(Mirror(inst, slots)).inst /\ next' = Len(inst) + 1
  BY <1>1, <1>5 DEF Kept
<1>7. Len(inst') = Len(inst)
  BY <1>3, <1>6, UnboundType
<1> HIDE DEF m
<1>8. /\ m.inst \in Seq(Minted) /\ m.slots \in [Keys -> Nat] /\ m.next \in Nat \ {0}
      /\ Fits(m.inst, m.slots, m.next)
  BY <1>4, PartialFields
<1> QED
  BY <1>1, <1>3, <1>5, <1>6, <1>7, <1>8 DEF m

\* The server loads what an older binary left.
LEMMA OldBinarySound ==
  ASSUME LoftInv, OldBinary
  PROVE  LoftInv'
<1>1. /\ Fits(inst', slots', next') /\ next' = Len(inst) + 1
      /\ inst' \in Seq(Minted) /\ slots' \in [Keys -> Nat] /\ next' \in Nat \ {0}
  BY OldBinaryMade
<1>2. next' <= MaxUid + 1
  <2>1. Len(inst) < next /\ Len(inst) \in Nat /\ next \in 1 .. MaxUid + 1
    BY LoftFacts DEF Fits
  <2> QED
    BY <1>1, <2>1, Loose
<1>3. inst' \in Seq(Instance) /\ slots' \in [Keys -> 0 .. MaxUid] /\ next' \in 1 .. MaxUid + 1
  BY <1>1, <1>2, FitsInstances
<1>4. UNCHANGED <<emblem, asked>>
  BY DEF OldBinary
<1> QED
  BY <1>1, <1>3, <1>4, LoftFacts, LoftMade

\* The tool clears every flag.
LEMMA ClearAscensionSound ==
  ASSUME LoftInv, ClearAscension
  PROVE  LoftInv'
<1>1. inst' = [i \in DOMAIN inst |-> [inst[i] EXCEPT !.awake = FALSE]]
  BY DEF ClearAscension
<1>2. slots' = Normalize(inst, slots) /\ UNCHANGED <<next, emblem, asked>>
  BY DEF ClearAscension
<1>3. inst \in Seq(Instance) /\ slots \in [Keys -> Nat] /\ Fits(inst, slots, next)
  BY LoftFacts
<1>4. slots' = slots
  BY <1>2, <1>3, NormalizeIdle
<1>5. \A x \in Instance : /\ [x EXCEPT !.awake = FALSE] \in Instance
                          /\ [x EXCEPT !.awake = FALSE].uid = x.uid
  BY DEF Instance
<1>6. DOMAIN inst = 1 .. Len(inst) /\ Len(inst) \in Nat /\ \A i \in DOMAIN inst : inst[i] \in Instance
  BY <1>3
<1>7. \A i \in DOMAIN inst : inst'[i] \in Instance /\ inst'[i].uid = inst[i].uid
  BY <1>1, <1>5, <1>6
<1>8. inst' \in [1 .. Len(inst) -> Instance]
  BY <1>1, <1>6, <1>7
<1>9. inst' \in Seq(Instance) /\ DOMAIN inst' = DOMAIN inst /\ Len(inst') = Len(inst)
  BY <1>6, <1>8
<1>10. Fits(inst', slots, next)
  BY <1>3, <1>7, <1>9, FitsRewritten
<1>11. Fits(inst', slots', next')
  BY <1>2, <1>4, <1>10
<1> QED
  BY <1>2, <1>4, <1>9, <1>11, LoftFacts, LoftMade

\* The tool fills slots from a backup.
LEMMA RestorePagesSound ==
  ASSUME LoftInv, RestorePages
  PROVE  LoftInv'
<1>1. PICK uid \in [Ids -> 0 .. MaxUid], backup \in [Keys -> Ids \cup {None}] :
        slots' = Normalize(inst,
          [k \in Keys |-> IF slots[k] = 0 /\ backup[k] # None THEN uid[backup[k]]
                          ELSE slots[k]])
  BY DEF RestorePages
<1>2. UNCHANGED <<inst, next, emblem, asked>>
  BY DEF RestorePages
<1> DEFINE t == [k \in Keys |-> IF slots[k] = 0 /\ backup[k] # None THEN uid[backup[k]]
                                ELSE slots[k]]
<1>3. t \in [Keys -> 0 .. MaxUid]
  <2>1. slots \in [Keys -> 0 .. MaxUid]
    BY LoftFacts
  <2>2. \A k \in Keys : backup[k] # None => backup[k] \in Ids
    OBVIOUS
  <2> QED
    BY <2>1, <2>2
<1>4. slots' = Normalize(inst, t)
  BY <1>1
<1> HIDE DEF t
<1> QED
  BY <1>2, <1>3, <1>4, NormalizeSound, LoftFacts

\* Every legacy record becomes a loft.
LEMMA LoftInitSound ==
  ASSUME LoftInit
  PROVE  LoftInv
<1>1. PICK r \in Legacy : /\ Migrate(r).next <= MaxUid + 1
                          /\ inst = Migrate(r).inst
                          /\ slots = Migrate(r).slots
                          /\ next = Migrate(r).next
  BY DEF LoftInit
<1>2. r \in Record
  <2>1. \A o \in UNION {[1 .. n -> Ids] : n \in 0 .. MaxOwned} : o \in Seq(Ids)
    <3> SUFFICES ASSUME NEW n \in 0 .. MaxOwned, NEW o \in [1 .. n -> Ids] PROVE o \in Seq(Ids)
      OBVIOUS
    <3> QED
      OBVIOUS
  <2> QED
    BY <2>1 DEF Legacy, Record
<1>3. Migrate(r) \in Partial
  BY <1>2, MigrateSound
<1> DEFINE m == Migrate(r)
<1> HIDE DEF m
<1>4. /\ m.inst \in Seq(Minted) /\ m.slots \in [Keys -> Nat] /\ m.next \in Nat \ {0}
      /\ Fits(m.inst, m.slots, m.next)
  BY <1>3, PartialFields DEF m
<1>5. inst = m.inst /\ slots = m.slots /\ next = m.next /\ m.next <= MaxUid + 1
  BY <1>1 DEF m
<1>6. /\ inst \in Seq(Instance) /\ slots \in [Keys -> 0 .. MaxUid] /\ next \in 1 .. MaxUid + 1
      /\ Fits(inst, slots, next)
  BY <1>4, <1>5, FitsInstances
<1>7. emblem \in 0 .. MaxEmblem
  BY Loose DEF LoftInit
<1>8. asked \in [Conns -> Request] /\ \A c \in Conns : asked[c].at = "idle"
  BY NoRequestType DEF LoftInit
<1> QED
  BY <1>6, <1>7, <1>8 DEF LoftInv, LoftTypeOK

\* Every step keeps the invariant.
LEMMA LoftStep ==
  ASSUME LoftInv, [LoftNext]_loftVars
  PROVE  LoftInv'
<1>1. ASSUME NEW c \in Conns, NEW i, NEW key \in Keys, AskWear(c, i, key) PROVE LoftInv'
  <2> DEFINE r == [at |-> "wear", uid |-> At(i), key |-> key]
  <2>1. Begin(c, r)
    BY <1>1 DEF AskWear
  <2>2. r.at = "wear" /\ r.uid = At(i) /\ r.key = key
    OBVIOUS
  <2>3. r = [at |-> r.at, uid |-> At(i), key |-> r.key]
    OBVIOUS
  <2> HIDE DEF r
  <2> QED
    BY <2>1, <2>2, <2>3, BeginSound
<1>2. ASSUME NEW c \in Conns, NEW i, NEW at \in {"wake", "delete", "sleep"},
             Begin(c, [at |-> at, uid |-> At(i), key |-> None])
      PROVE  LoftInv'
  <2> DEFINE r == [at |-> at, uid |-> At(i), key |-> None]
  <2>1. Begin(c, r)
    BY <1>2
  <2>2. r.at = at /\ r.uid = At(i) /\ r.key = None
    OBVIOUS
  <2>3. r = [at |-> r.at, uid |-> At(i), key |-> r.key]
    OBVIOUS
  <2> HIDE DEF r
  <2> QED
    BY <2>1, <2>2, <2>3, BeginSound
<1>3. ASSUME NEW c \in Conns, NEW i, AskWake(c, i) \/ AskDelete(c, i) \/ AskSleep(c, i)
      PROVE  LoftInv'
  <2>1. \E at \in {"wake", "delete", "sleep"} :
          Begin(c, [at |-> at, uid |-> At(i), key |-> None])
    BY <1>3 DEF AskWake, AskDelete, AskSleep
  <2> QED
    BY <1>2, <2>1
<1>4. ASSUME NEW c \in Conns, Wake(c) PROVE LoftInv'
  <2>1. Rewrite(asked[c].uid, TRUE) /\ Done(c) /\ UNCHANGED <<slots, next, emblem>>
    BY <1>4 DEF Wake, SetTabletAwake
  <2>2. emblem' \in 0 .. MaxEmblem
    BY <2>1, LoftFacts
  <2>3. /\ asked' \in [Conns -> Request]
        /\ \A d \in Conns : asked'[d].at = "wear" => asked'[d].key \in Keys
    BY <2>1, DoneSound
  <2> QED
    BY <2>1, <2>2, <2>3, RewriteSound
<1>5. ASSUME NEW key \in Keys, Unequip(key) PROVE LoftInv'
  <2>1. slots' = [slots EXCEPT ![key] = 0] /\ UNCHANGED <<inst, next, emblem, asked>>
    BY <1>5 DEF Unequip
  <2>2. slots \in [Keys -> 0 .. MaxUid] /\ Fits(inst, slots, next)
    BY LoftFacts
  <2>3. slots' \in [Keys -> 0 .. MaxUid] /\ \A k \in Keys : slots'[k] \in {slots[k], 0}
    <3>1. 0 \in 0 .. MaxUid
      BY Loose
    <3> QED
      BY <2>1, <2>2, <3>1
  <2>4. Fits(inst, slots', next)
    BY <2>2, <2>3, FitsCleared
  <2>5. Fits(inst', slots', next')
    BY <2>1, <2>4
  <2> QED
    BY <2>1, <2>3, <2>5, LoftFacts, LoftMade
<1>6. CASE UNCHANGED loftVars
  BY <1>6 DEF loftVars, LoftInv, LoftTypeOK, Fits, Uids
<1>7. CASE LoftNext
  BY <1>1, <1>3, <1>4, <1>5, <1>7, WearSound, DeleteSound, SleepSound, GrantSound, LoadSound,
     OldBinarySound, ClearAscensionSound, RestorePagesSound DEF LoftNext
<1> QED
  BY <1>6, <1>7

\* Loft: the copies and the page slots fit together in every reachable state.
THEOREM LoftInvariance == LoftSpec => []LoftInv
<1>1. LoftInit => LoftInv
  BY LoftInitSound
<1>2. LoftInv /\ [LoftNext]_loftVars => LoftInv'
  BY LoftStep
<1> QED
  BY <1>1, <1>2, PTL DEF LoftSpec

\* Loft: every slot of every page holds a copy that is owned, once on its page.
THEOREM LoftTheorem == LoftSpec => []SlotsHoldOwnedCopies
<1>1. LoftInv => SlotsHoldOwnedCopies
  BY DEF LoftInv, SlotsHoldOwnedCopies, Fits
<1> QED
  BY <1>1, LoftInvariance, PTL

-----------------------------------------------------------------------------
(* Loft: what a step may do.                                               *)

\* A request that ends has left the copies that it did not address in place.
LEMMA RewriteSpares ==
  ASSUME inst \in Seq(Instance), NEW uid, NEW flag \in BOOLEAN, Rewrite(uid, flag)
  PROVE  Spared(inst, inst', uid)
<1>1. DOMAIN inst' = DOMAIN inst /\ \A i \in DOMAIN inst : inst[i].uid # uid => inst'[i] = inst[i]
  BY DEF Rewrite
<1>2. \A i \in DOMAIN inst : i \in {i, i - 1}
  OBVIOUS
<1> QED
  BY <1>1, <1>2 DEF Spared

\* A request that ends changes or removes the copy that it addressed, at most.
LEMMA RequestSpares ==
  ASSUME LoftInv, NEW c \in Conns, Wear(c) \/ Wake(c) \/ Delete(c) \/ Sleep(c)
  PROVE  Spared(inst, inst', asked[c].uid) /\ \A d \in Conns : asked'[d] # asked[d] => d = c
<1> DEFINE uid == asked[c].uid
<1>1. \A d \in Conns : asked'[d] # asked[d] => d = c
  <2>1. Done(c)
    BY DEF Wear, Wake, Delete, Sleep
  <2>2. asked \in [Conns -> Request]
    BY LoftFacts
  <2> QED
    BY <2>1, <2>2 DEF Done
<1>2. inst \in Seq(Instance)
  BY LoftFacts
<1>3. CASE inst' = inst
  <2>1. \A i \in DOMAIN inst : i \in {i, i - 1} /\ i \in DOMAIN inst' /\ inst'[i] = inst[i]
    BY <1>3
  <2> QED
    BY <1>1, <2>1 DEF Spared
<1>4. CASE Rewrite(uid, TRUE)
  BY <1>1, <1>2, <1>4, RewriteSpares
<1>5. CASE Rewrite(uid, FALSE)
  BY <1>1, <1>2, <1>5, RewriteSpares
<1>6. CASE DeleteTablet(uid) /\ uid \in Uids(inst)
  <2>1. /\ inst' = RemoveAt(inst, Place(inst, uid))
        /\ slots' = [k \in Keys |-> IF slots[k] = uid THEN 0 ELSE slots[k]]
        /\ uid \in Uids(inst)
    BY <1>6 DEF DeleteTablet
  <2>2. /\ slots \in [Keys -> 0 .. MaxUid] /\ Fits(inst, slots, next) /\ next \in Nat
    BY LoftFacts
  <2> HIDE DEF uid
  <2>3. Without(inst, slots, next, uid, inst', slots')
    BY <1>2, <2>1, <2>2, Removed
  <2> QED
    BY <1>1, <2>3 DEF Without, uid
<1>7. \/ inst' = inst \/ Rewrite(uid, TRUE) \/ Rewrite(uid, FALSE)
      \/ DeleteTablet(uid) /\ uid \in Uids(inst)
  <2>1. CASE Wear(c)
    BY <2>1 DEF Wear
  <2>2. CASE Wake(c)
    BY <2>2 DEF Wake, SetTabletAwake
  <2>3. CASE Delete(c)
    BY <2>3 DEF Delete, DeleteTablet
  <2>4. CASE Sleep(c)
    BY <2>4 DEF Sleep, SleepTablet
  <2> QED
    BY <2>1, <2>2, <2>3, <2>4
<1> QED
  BY <1>3, <1>4, <1>5, <1>6, <1>7

\* Nothing else ends a request, except a stop of the server.
LEMMA SparedStep ==
  ASSUME LoftInv, LoftNext, NEW c \in Conns, asked[c].at # "idle", asked'[c] # asked[c], ~Load
  PROVE  Spared(inst, inst', asked[c].uid)
<1>1. asked \in [Conns -> Request]
  BY LoftFacts
<1>2. ASSUME NEW d \in Conns, NEW r, Begin(d, r) PROVE FALSE
  <2>1. asked[d] = NoRequest /\ asked' = [asked EXCEPT ![d] = r]
    BY <1>2 DEF Begin
  <2>2. c = d
    BY <1>1, <2>1
  <2> QED
    BY <2>1, <2>2 DEF NoRequest
<1>3. ASSUME NEW d \in Conns, NEW i, NEW key \in Keys,
             AskWear(d, i, key) \/ AskWake(d, i) \/ AskDelete(d, i) \/ AskSleep(d, i)
      PROVE  FALSE
  BY <1>2, <1>3 DEF AskWear, AskWake, AskDelete, AskSleep
<1>4. ASSUME NEW d \in Conns, NEW i, AskWake(d, i) \/ AskDelete(d, i) \/ AskSleep(d, i)
      PROVE  FALSE
  BY <1>2, <1>4 DEF AskWake, AskDelete, AskSleep
<1>5. ASSUME NEW key \in Keys, Unequip(key) PROVE FALSE
  BY <1>5 DEF Unequip
<1>6. ASSUME NEW id \in Ids, Grant(id) PROVE FALSE
  BY <1>6 DEF Grant
<1>7. ASSUME OldBinary \/ ClearAscension \/ RestorePages PROVE FALSE
  BY <1>7 DEF OldBinary, ClearAscension, RestorePages
<1>8. \E d \in Conns : Wear(d) \/ Wake(d) \/ Delete(d) \/ Sleep(d)
  BY <1>3, <1>4, <1>5, <1>6, <1>7 DEF LoftNext
<1> QED
  BY <1>8, RequestSpares

\* Loft: a request changes or removes no copy but the one its client addressed.
THEOREM OnlyTheAddressedCopyHolds == LoftSpec => OnlyTheAddressedCopy
<1>1. LoftInv /\ [LoftNext]_loftVars =>
        [\A c \in Conns : asked[c].at # "idle" /\ asked'[c] # asked[c] /\ ~Load =>
           \A i \in DOMAIN inst : inst[i].uid # asked[c].uid =>
             \E j \in {i, i - 1} : j \in DOMAIN inst' /\ inst'[j] = inst[i]]_loftVars
  BY SparedStep DEF Spared
<1> QED
  BY <1>1, LoftInvariance, PTL DEF LoftSpec, OnlyTheAddressedCopy

-----------------------------------------------------------------------------
\* The ascended copies that a step clears.
Slept ==
  {i \in DOMAIN inst : inst[i].awake /\ \E j \in DOMAIN inst' :
     inst'[j].uid = inst[i].uid /\ ~inst'[j].awake}

PaidOff == emblem' >= 0 /\ emblem' = emblem - Cost * Cardinality(Slept)

\* Nothing is due when no flag is cleared.
LEMMA NoneSlept ==
  ASSUME LoftInv, emblem' = emblem,
         \A j \in DOMAIN inst' : \A i \in DOMAIN inst :
           inst'[j].uid = inst[i].uid /\ inst[i].awake => inst'[j].awake
  PROVE  PaidOff
<1>1. Slept = {}
  BY DEF Slept
<1>2. Cardinality(Slept) = 0
  BY <1>1, FS_EmptySet
<1>3. emblem \in Nat /\ Cost \in Nat
  BY Loose, LoftFacts
<1> QED
  BY <1>2, <1>3 DEF PaidOff

\* Steps that leave flags and wallet alone.
LEMMA StillPaid ==
  ASSUME LoftInv, emblem' = emblem,
         \A j \in DOMAIN inst' : \E i \in DOMAIN inst : inst'[j] = inst[i]
  PROVE  PaidOff
<1>1. \A i, j \in DOMAIN inst : inst[i].uid = inst[j].uid => i = j
  BY LoftFacts DEF Fits
<1>2. ASSUME NEW j \in DOMAIN inst', NEW i \in DOMAIN inst, inst'[j].uid = inst[i].uid,
             inst[i].awake
      PROVE  inst'[j].awake
  <2>1. PICK k \in DOMAIN inst : inst'[j] = inst[k]
    OBVIOUS
  <2>2. k = i
    BY <1>1, <1>2, <2>1
  <2> QED
    BY <1>2, <2>1, <2>2
<1> QED
  BY <1>2, NoneSlept

\* Setting a flag clears none.
LEMMA WakePaid ==
  ASSUME LoftInv, NEW c \in Conns, Wake(c)
  PROVE  PaidOff
<1> DEFINE uid == asked[c].uid
<1>1. inst \in Seq(Instance) /\ Rewrite(uid, TRUE) /\ emblem' = emblem
  BY LoftFacts DEF Wake, SetTabletAwake
<1> HIDE DEF uid
<1>2. /\ DOMAIN inst' = DOMAIN inst
      /\ \A i \in DOMAIN inst :
           /\ inst'[i].uid = inst[i].uid
           /\ inst[i].uid = uid => inst'[i] = [inst[i] EXCEPT !.awake = TRUE]
           /\ inst[i].uid # uid => inst'[i] = inst[i]
  BY <1>1, Rewritten
<1>3. \A i, j \in DOMAIN inst : inst[i].uid = inst[j].uid => i = j
  BY LoftFacts DEF Fits
<1>4. \A i \in DOMAIN inst : inst[i] \in Instance
  BY <1>1
<1>5. \A x \in Instance : [x EXCEPT !.awake = TRUE].awake
  BY DEF Instance
<1>6. \A i \in DOMAIN inst : inst[i].awake => inst'[i].awake
  BY <1>2, <1>4, <1>5
<1>7. \A j \in DOMAIN inst' : \A i \in DOMAIN inst :
        inst'[j].uid = inst[i].uid /\ inst[i].awake => inst'[j].awake
  BY <1>2, <1>3, <1>6
<1> QED
  BY <1>1, <1>7, NoneSlept

\* One unlock clears one flag, for one price.
LEMMA SleepPaid ==
  ASSUME LoftInv, NEW c \in Conns, Sleep(c)
  PROVE  PaidOff
<1> DEFINE uid == asked[c].uid
           p == Place(inst, uid)
<1>1. \/ /\ uid \in Uids(inst) /\ inst[p].awake /\ emblem >= Cost
         /\ emblem' = emblem - Cost /\ Rewrite(uid, FALSE)
      \/ emblem' = emblem /\ inst' = inst
  BY DEF Sleep, SleepTablet, Copy
<1>2. CASE emblem' = emblem /\ inst' = inst
  BY <1>2, StillPaid
<1>3. CASE /\ uid \in Uids(inst) /\ inst[p].awake /\ emblem >= Cost
           /\ emblem' = emblem - Cost /\ Rewrite(uid, FALSE)
  <2>1. p \in DOMAIN inst /\ inst[p].uid = uid
    BY <1>3 DEF Uids, Place
  <2> HIDE DEF uid, p
  <2>2. inst \in Seq(Instance)
    BY LoftFacts
  <2>3. /\ DOMAIN inst' = DOMAIN inst
        /\ \A i \in DOMAIN inst :
             /\ inst'[i].uid = inst[i].uid
             /\ inst[i].uid = uid => inst'[i] = [inst[i] EXCEPT !.awake = FALSE]
             /\ inst[i].uid # uid => inst'[i] = inst[i]
    BY <1>3, <2>2, Rewritten
  <2>4. \A i, j \in DOMAIN inst : inst[i].uid = inst[j].uid => i = j
    BY LoftFacts DEF Fits
  <2>5. \A x \in Instance : ~[x EXCEPT !.awake = FALSE].awake
    BY DEF Instance
  <2>6. p \in Slept
    <3>1. inst[p] \in Instance
      BY <2>1, <2>2
    <3>2. ~inst'[p].awake /\ inst'[p].uid = inst[p].uid /\ p \in DOMAIN inst'
      BY <2>1, <2>3, <2>5, <3>1
    <3> QED
      BY <1>3, <2>1, <3>2 DEF Slept
  <2>7. ASSUME NEW i \in Slept PROVE i = p
    <3>1. PICK j \in DOMAIN inst' : inst'[j].uid = inst[i].uid /\ ~inst'[j].awake
      BY DEF Slept
    <3>2. i \in DOMAIN inst /\ inst[i].awake
      BY DEF Slept
    <3>3. i = j
      BY <2>3, <2>4, <3>1, <3>2
    <3>4. inst[i].uid = uid
      BY <2>3, <3>1, <3>2, <3>3
    <3> QED
      BY <2>1, <2>4, <3>2, <3>4
  <2>8. Slept = {p}
    BY <2>6, <2>7
  <2>9. Cardinality(Slept) = 1
    BY <2>8, FS_Singleton
  <2>10. emblem \in Nat /\ Cost \in Nat
    BY Loose, LoftFacts
  <2> QED
    BY <1>3, <2>9, <2>10 DEF PaidOff
<1> QED
  BY <1>1, <1>2, <1>3

\* A new copy has a new UID.
LEMMA GrantPaid ==
  ASSUME LoftInv, NEW id \in Ids, Grant(id)
  PROVE  PaidOff
<1> DEFINE x == [uid |-> next, id |-> id, awake |-> FALSE]
<1>1. inst' = Append(inst, x) /\ emblem' = emblem /\ x.uid = next
  BY DEF Grant
<1> HIDE DEF x
<1>2. inst \in Seq(Instance) /\ next \in Nat
  BY LoftFacts
<1>3. \A i \in DOMAIN inst : inst[i].uid < next
  BY LoftFacts DEF Fits
<1>4. \A i, j \in DOMAIN inst : inst[i].uid = inst[j].uid => i = j
  BY LoftFacts DEF Fits
<1>5. ASSUME NEW j \in DOMAIN inst', NEW i \in DOMAIN inst, inst'[j].uid = inst[i].uid,
             inst[i].awake
      PROVE  inst'[j].awake
  <2>1. \/ j \in DOMAIN inst /\ inst'[j] = inst[j]
        \/ inst'[j] = x
    BY <1>1, <1>2
  <2>2. inst[i].uid # next
    <3>1. inst[i].uid < next
      BY <1>3
    <3>2. inst[i].uid \in Nat
      <4>1. inst[i] \in Instance
        BY <1>2
      <4> QED
        BY <4>1, Loose DEF Instance
    <3> QED
      BY <1>2, <3>1, <3>2
  <2>3. j \in DOMAIN inst /\ inst'[j] = inst[j]
    BY <1>1, <1>5, <2>1, <2>2
  <2> QED
    BY <1>4, <1>5, <2>3
<1> QED
  BY <1>1, <1>5, NoneSlept

\* The copies that are left have the flags they had.
LEMMA DeletePaid ==
  ASSUME LoftInv, NEW c \in Conns, Delete(c)
  PROVE  PaidOff
<1> DEFINE uid == asked[c].uid
<1>1. DeleteTablet(uid) /\ emblem' = emblem
  BY DEF Delete
<1> HIDE DEF uid
<1>2. CASE uid \in Uids(inst)
  <2>1. /\ inst' = RemoveAt(inst, Place(inst, uid))
        /\ slots' = [k \in Keys |-> IF slots[k] = uid THEN 0 ELSE slots[k]]
    BY <1>1, <1>2 DEF DeleteTablet
  <2>2. /\ inst \in Seq(Instance) /\ slots \in [Keys -> 0 .. MaxUid]
        /\ Fits(inst, slots, next) /\ next \in Nat
    BY LoftFacts
  <2>3. Without(inst, slots, next, uid, inst', slots')
    BY <1>2, <2>1, <2>2, Removed
  <2>4. \A j \in DOMAIN inst' : \E i \in DOMAIN inst : inst'[j] = inst[i]
    BY <2>3 DEF Without
  <2> QED
    BY <1>1, <2>4, StillPaid
<1>3. CASE uid \notin Uids(inst)
  <2>1. inst' = inst
    BY <1>1, <1>3 DEF DeleteTablet
  <2> QED
    BY <1>1, <2>1, StillPaid
<1> QED
  BY <1>2, <1>3

\* Every step of the server pays for what it clears.
LEMMA PaidStep ==
  ASSUME LoftInv, LoftNext
  PROVE  PaidOff \/ OldBinary \/ ClearAscension
<1>1. ASSUME inst' = inst, emblem' = emblem PROVE PaidOff
  BY <1>1, StillPaid
<1>2. ASSUME NEW c \in Conns, NEW i, NEW key \in Keys, AskWear(c, i, key) PROVE PaidOff
  BY <1>1, <1>2 DEF AskWear, Begin
<1>3. ASSUME NEW c \in Conns, NEW i, AskWake(c, i) \/ AskDelete(c, i) \/ AskSleep(c, i)
      PROVE  PaidOff
  BY <1>1, <1>3 DEF AskWake, AskDelete, AskSleep, Begin
<1>4. ASSUME NEW c \in Conns, Wear(c) PROVE PaidOff
  BY <1>1, <1>4 DEF Wear
<1>5. ASSUME NEW key \in Keys, Unequip(key) PROVE PaidOff
  BY <1>1, <1>5 DEF Unequip
<1>6. ASSUME Load \/ RestorePages PROVE PaidOff
  BY <1>1, <1>6 DEF Load, RestorePages
<1> QED
  BY <1>2, <1>3, <1>4, <1>5, <1>6, WakePaid, SleepPaid, GrantPaid, DeletePaid DEF LoftNext

\* Loft: ascension is cleared by one paid unlock, never on credit; only an
\* older binary and the tool that clears all flags may do it for nothing.
THEOREM AscensionIsPaidOffHolds == LoftSpec => AscensionIsPaidOff
<1>1. LoftInv /\ [LoftNext]_loftVars =>
        [LET slept == {i \in DOMAIN inst : inst[i].awake /\ \E j \in DOMAIN inst' :
                         inst'[j].uid = inst[i].uid /\ ~inst'[j].awake}
         IN \/ emblem' >= 0 /\ emblem' = emblem - Cost * Cardinality(slept)
            \/ OldBinary \/ ClearAscension]_loftVars
  BY PaidStep DEF PaidOff, Slept
<1> QED
  BY <1>1, LoftInvariance, PTL DEF LoftSpec, AscensionIsPaidOff

-----------------------------------------------------------------------------
(* Loft: what survives a stop of the server.                               *)

\* A load leaves the loft as it was.
LEMMA LoadKeeps ==
  ASSUME LoftInv, Load
  PROVE  loft' = loft
<1>1. slots \in [Keys -> Nat] /\ Fits(inst, slots, next)
  BY LoftFacts
<1>2. Normalize(inst, slots) = slots
  BY <1>1, NormalizeIdle
<1> QED
  BY <1>2 DEF Load, loft

\* Every copy, slot and ascension of a loft.
Preserved ==
  /\ [i \in DOMAIN inst |-> inst[i].id] = [i \in DOMAIN inst' |-> inst'[i].id]
  /\ \A k \in Keys :
       IF slots[k] = 0 THEN slots'[k] = 0
       ELSE slots'[k] # 0 /\ Copy(inst', slots'[k]).id = Copy(inst, slots[k]).id
  /\ \A i \in DOMAIN inst : inst[i].awake => inst'[i].awake

\* A visit to an older binary keeps it all.
LEMMA OldBinaryKeeps ==
  ASSUME LoftInv, OldBinary
  PROVE  Preserved
<1> DEFINE r == Mirror(inst, slots)
           m == Migrate(r)
<1>1. inst' = Unbound(r).inst /\ r \in Record /\ Kept(inst, slots, Keys, m) /\ slots' = m.slots
  BY OldBinaryMade DEF OldBinary
<1>2. inst \in Seq(Minted) /\ slots \in [Keys -> Nat] /\ Fits(inst, slots, next)
  BY LoftFacts
<1>3. /\ Len(r.owned) = Len(inst) /\ \A i \in 1 .. Len(inst) : r.owned[i] = inst[i].id
      /\ \A i \in 1 .. Len(inst) : inst[i].awake => inst[i].id \in r.awake
  BY <1>2, MirrorType
<1>4. \A k \in Keys : slots[k] # 0 => r.slots[k] = Copy(inst, slots[k]).id
  BY <1>2, MirrorType DEF Copy
<1>5. \A k \in Keys :
        IF slots[k] # 0 THEN slots'[k] \in 1 .. Len(inst) /\ inst[slots'[k]].id = r.slots[k]
        ELSE slots'[k] = 0
  BY <1>1 DEF Kept
<1> HIDE DEF r, m
<1>6. /\ Len(inst') = Len(inst)
      /\ \A i \in 1 .. Len(inst) :
           inst'[i] = [uid |-> i, id |-> r.owned[i], awake |-> r.owned[i] \in r.awake]
  BY <1>1, <1>3, UnboundType
<1>7. DOMAIN inst = 1 .. Len(inst) /\ DOMAIN inst' = 1 .. Len(inst) /\ Len(inst) \in Nat
  <2>1. inst' \in Seq(Minted)
    BY OldBinaryMade
  <2> QED
    BY <1>2, <1>6, <2>1
<1>8. ASSUME NEW i \in 1 .. Len(inst)
      PROVE  /\ inst'[i].uid = i /\ inst'[i].id = inst[i].id
             /\ r.owned[i] \in r.awake => inst'[i].awake
  <2>1. inst'[i] = [uid |-> i, id |-> r.owned[i], awake |-> r.owned[i] \in r.awake]
    BY <1>6
  <2>2. inst'[i].uid = i /\ inst'[i].id = r.owned[i]
    BY <2>1
  <2>3. ASSUME r.owned[i] \in r.awake PROVE inst'[i].awake
    <3> DEFINE b == r.owned[i] \in r.awake
    <3>1. inst'[i] = [uid |-> i, id |-> r.owned[i], awake |-> b]
      BY <2>1
    <3>2. b = TRUE
      BY <2>3
    <3> HIDE DEF b
    <3> QED
      BY <3>1, <3>2
  <2> QED
    BY <1>3, <2>2, <2>3
<1>9. [i \in DOMAIN inst |-> inst[i].id] = [i \in DOMAIN inst' |-> inst'[i].id]
  BY <1>7, <1>8
<1>10. ASSUME NEW i \in DOMAIN inst, inst[i].awake PROVE inst'[i].awake
  <2>1. r.owned[i] \in r.awake
    BY <1>3, <1>7, <1>10
  <2> QED
    BY <1>7, <1>8, <2>1
<1>11. ASSUME NEW u \in 1 .. Len(inst) PROVE Copy(inst', u).id = inst[u].id
  <2>1. Place(inst', u) = u
    BY <1>7, <1>8 DEF Place
  <2> QED
    BY <1>8, <2>1 DEF Copy
<1>12. ASSUME NEW k \in Keys
       PROVE  IF slots[k] = 0 THEN slots'[k] = 0
              ELSE slots'[k] # 0 /\ Copy(inst', slots'[k]).id = Copy(inst, slots[k]).id
  <2>1. CASE slots[k] = 0
    BY <1>5, <2>1
  <2>2. CASE slots[k] # 0
    <3>1. slots'[k] \in 1 .. Len(inst) /\ inst[slots'[k]].id = r.slots[k]
      BY <1>5, <2>2
    <3>2. Copy(inst', slots'[k]).id = r.slots[k]
      BY <1>11, <3>1
    <3>3. slots'[k] # 0
      BY <1>7, <3>1
    <3> QED
      BY <1>4, <2>2, <3>2, <3>3
  <2> QED
    BY <2>1, <2>2
<1> QED
  BY <1>9, <1>10, <1>12 DEF Preserved

\* Among the slots of a page with a copy that is owned, the normalisation
\* leaves it in the first.
LEMMA FirstSlotKept ==
  ASSUME NEW v, NEW t \in [Keys -> Nat], NEW key \in Keys, t[key] \in Uids(v)
  PROVE  \E l \in Keys : l[1] = key[1] /\ Normalize(v, t)[l] = t[key]
<1> DEFINE L == {l \in Keys : l[1] = key[1] /\ t[l] = t[key]}
           R == {p \in Keys \X Keys : p[2][2] <= p[1][2]}
<1>1. IsFiniteSet(L) /\ L # {}
  <2>1. IsFiniteSet(Keys) /\ L \in SUBSET Keys /\ key \in L
    BY Loose
  <2> HIDE DEF L
  <2> QED
    BY <2>1, FS_Subset
<1>2. \A a, b \in L : <<a, b>> \in R <=> b[2] <= a[2]
  OBVIOUS
<1>3. \A a \in L : a \in Keys /\ a[1] = key[1] /\ t[a] = t[key] /\ a[2] \in Nat
  BY Loose
<1>4. \A l \in Keys : l[1] = key[1] /\ t[l] = t[key] => l \in L
  OBVIOUS
<1> HIDE DEF L, R
<1>5. /\ \A a, b \in L : <<a, b>> \in R \/ <<b, a>> \in R
      /\ \A a, b, c \in L : <<a, b>> \in R /\ <<b, c>> \in R => <<a, c>> \in R
  BY <1>2, <1>3
<1>6. PICK l \in L : \A k \in L : <<k, l>> \in R
  BY <1>1, <1>5, LastExists
<1>7. \A k \in L : ~(k[2] < l[2])
  <2> SUFFICES ASSUME NEW k \in L PROVE ~(k[2] < l[2])
    OBVIOUS
  <2>1. l[2] <= k[2]
    BY <1>2, <1>6
  <2>2. l[2] \in Nat /\ k[2] \in Nat
    BY <1>3
  <2> QED
    BY <2>1, <2>2
<1>8. Normalize(v, t)[l] = t[l]
  <2>1. t[l] \in Uids(v) /\ l \in Keys
    BY <1>3
  <2>2. ~ \E k \in Keys : k[1] = l[1] /\ k[2] < l[2] /\ t[k] = t[l]
    BY <1>3, <1>7, <1>4
  <2> QED
    BY <2>1, <2>2 DEF Normalize
<1> QED
  BY <1>3, <1>8

\* A copy that was on a page is still there after pages are restored.
LEMMA RestoreKeeps ==
  ASSUME LoftInv, RestorePages, NEW key \in Keys, slots[key] # 0
  PROVE  \E l \in Keys : l[1] = key[1] /\ slots'[l] = slots[key]
<1>1. PICK uid \in [Ids -> 0 .. MaxUid], backup \in [Keys -> Ids \cup {None}] :
        slots' = Normalize(inst,
          [k \in Keys |-> IF slots[k] = 0 /\ backup[k] # None THEN uid[backup[k]]
                          ELSE slots[k]])
  BY DEF RestorePages
<1> DEFINE t == [k \in Keys |-> IF slots[k] = 0 /\ backup[k] # None THEN uid[backup[k]]
                                ELSE slots[k]]
<1>2. slots \in [Keys -> Nat] /\ slots[key] \in Uids(inst)
  BY LoftFacts DEF Fits
<1>3. t \in [Keys -> Nat] /\ t[key] = slots[key]
  <2>1. \A k \in Keys : backup[k] # None => uid[backup[k]] \in Nat
    BY Loose
  <2> QED
    BY <1>2, <2>1
<1>4. slots' = Normalize(inst, t)
  BY <1>1
<1> HIDE DEF t
<1> QED
  BY <1>2, <1>3, <1>4, FirstSlotKept

\* Loft: a load finds nothing to drop, a visit to an older binary keeps every
\* copy, slot and ascension, and restored pages lose no copy.
THEOREM LoadingLosesNothingHolds == LoftSpec => LoadingLosesNothing
<1>1. ASSUME LoftInv
      PROVE  /\ loft' = loft \/ ~Load
             /\ \/ /\ [i \in DOMAIN inst |-> inst[i].id] = [i \in DOMAIN inst' |-> inst'[i].id]
                   /\ \A k \in Keys :
                        IF slots[k] = 0 THEN slots'[k] = 0
                        ELSE slots'[k] # 0 /\ Copy(inst', slots'[k]).id = Copy(inst, slots[k]).id
                   /\ \A i \in DOMAIN inst : inst[i].awake => inst'[i].awake
                \/ ~OldBinary
             /\ \/ \A k \in Keys : slots[k] # 0 =>
                     \E l \in Keys : l[1] = k[1] /\ slots'[l] = slots[k]
                \/ ~RestorePages
  <2>1. loft' = loft \/ ~Load
    BY <1>1, LoadKeeps
  <2>2. Preserved \/ ~OldBinary
    BY <1>1, OldBinaryKeeps
  <2>3. \/ \A k \in Keys : slots[k] # 0 =>
             \E l \in Keys : l[1] = k[1] /\ slots'[l] = slots[k]
        \/ ~RestorePages
    BY <1>1, RestoreKeeps
  <2> QED
    BY <2>1, <2>2, <2>3 DEF Preserved
<1> QED
  BY <1>1, LoftInvariance, PTL DEF LoftSpec, LoadingLosesNothing
=============================================================================
