-------------------------- MODULE RegressionProofs --------------------------
(***************************************************************************)
(* Theorems about Regression.                                              *)
(***************************************************************************)
EXTENDS Regression, FiniteSetTheorems, SequenceTheorems, WellFoundedInduction, TLAPS

-----------------------------------------------------------------------------
(* Intervals, and counting.                                                 *)

LEMMA Interval ==
  ASSUME NEW n \in Nat
  PROVE  IsFiniteSet(1 .. n) /\ Cardinality(1 .. n) = n
<1>1. 1 \in Int /\ n \in Int
  OBVIOUS
<1>2. Cardinality(1 .. n) = IF 1 > n THEN 0 ELSE n - 1 + 1
  BY <1>1, FS_Interval
<1> QED BY <1>1, <1>2, FS_Interval

LEMMA Smaller ==
  ASSUME NEW S, IsFiniteSet(S), NEW A \in SUBSET S, NEW x \in S \ A
  PROVE  /\ IsFiniteSet(A) /\ Cardinality(A) \in Nat /\ Cardinality(S) \in Nat
         /\ Cardinality(A) < Cardinality(S)
<1>1. IsFiniteSet(A) /\ Cardinality(A) \in Nat /\ Cardinality(S) \in Nat
  BY FS_Subset, FS_CardinalityType
<1>2. IsFiniteSet(A \cup {x}) /\ Cardinality(A \cup {x}) = Cardinality(A) + 1
  BY <1>1, FS_AddElement
<1>3. A \cup {x} \subseteq S
  OBVIOUS
<1>4. Cardinality(A \cup {x}) <= Cardinality(S)
  BY <1>3, FS_Subset
<1> QED BY <1>1, <1>2, <1>4

LEMMA SameSize ==
  ASSUME NEW S, NEW T, IsFiniteSet(T), NEW f \in [S -> T],
         \A x, y \in S : f[x] = f[y] => x = y, \A y \in T : \E x \in S : f[x] = y
  PROVE  IsFiniteSet(S) /\ Cardinality(S) = Cardinality(T)
<1>1. f \in Injection(S, T) /\ f \in Surjection(S, T)
  BY DEF Injection, Surjection, IsInjective
<1> QED BY <1>1, FS_Injection

LEMMA LeastElement ==
  ASSUME NEW A \in SUBSET Nat, A # {}
  PROVE  \E n \in A : \A m \in A : n <= m
<1> DEFINE T == {1 .. n : n \in A}
           R == StrictSubsetOrdering(Nat)
<1>1. IsWellFoundedOn(R, FiniteSubsetsOf(Nat))
  BY FS_StrictSubsetOrderingWellFounded
<1>2. T \subseteq FiniteSubsetsOf(Nat) /\ T # {}
  <2>1. \A n \in A : IsFiniteSet(1 .. n) /\ 1 .. n \subseteq Nat
    BY FS_Interval
  <2> QED BY <2>1 DEF FiniteSubsetsOf
<1>3. \E x \in T : \A y \in T : <<y, x>> \notin R
  <2> HIDE DEF T, R
  <2> QED BY <1>1, <1>2, WFMin
<1>4. PICK n \in A : \A m \in A : <<1 .. m, 1 .. n>> \notin R
  BY <1>3
<1>5. ASSUME NEW m \in A, m < n PROVE FALSE
  <2>1. /\ 1 .. m \subseteq 1 .. n /\ n \in 1 .. n /\ n \notin 1 .. m
        /\ 1 .. m \subseteq Nat /\ 1 .. n \subseteq Nat
    BY <1>5
  <2> QED BY <1>4, <2>1 DEF StrictSubsetOrdering
<1> QED BY <1>5

(* Induction, for a set of naturals.                                        *)
LEMMA AllNaturals ==
  ASSUME NEW N \in SUBSET Nat, 0 \in N, \A n \in N : n + 1 \in N
  PROVE  N = Nat
<1> SUFFICES ASSUME N # Nat PROVE FALSE
  OBVIOUS
<1>1. Nat \ N \in SUBSET Nat /\ Nat \ N # {}
  OBVIOUS
<1>2. PICK n \in Nat \ N : \A m \in Nat \ N : n <= m
  BY <1>1, LeastElement
<1>3. n - 1 \in N
  BY <1>2
<1> QED BY <1>2, <1>3

-----------------------------------------------------------------------------
(* A finite set in a strict order.                                          *)

StrictOrder(S, R) ==
  /\ \A x \in S : <<x, x>> \notin R
  /\ \A x, y, z \in S : <<x, y>> \in R /\ <<y, z>> \in R => <<x, z>> \in R
  /\ \A x, y \in S : x = y \/ <<x, y>> \in R \/ <<y, x>> \in R

Below(S, R, x) == {y \in S : <<y, x>> \in R}

(* f lists S in the order R. *)
Lists(f, S, R) ==
  /\ f \in [1 .. Cardinality(S) -> S]
  /\ \A x \in S : \E k \in 1 .. Cardinality(S) : f[k] = x
  /\ \A i, k \in 1 .. Cardinality(S) : i < k <=> <<f[i], f[k]>> \in R
  /\ \A i, k \in 1 .. Cardinality(S) : f[i] = f[k] => i = k

LEMMA RankGrows ==
  ASSUME NEW S, NEW R, IsFiniteSet(S), StrictOrder(S, R), NEW x \in S, NEW y \in S, <<x, y>> \in R
  PROVE  Cardinality(Below(S, R, x)) < Cardinality(Below(S, R, y))
<1>1. Below(S, R, y) \subseteq S /\ IsFiniteSet(Below(S, R, y))
  BY FS_Subset DEF Below
<1>2. Below(S, R, x) \in SUBSET Below(S, R, y)
  BY DEF Below, StrictOrder
<1>3. x \in Below(S, R, y) \ Below(S, R, x)
  BY DEF Below, StrictOrder
<1> HIDE DEF Below
<1> QED BY <1>1, <1>2, <1>3, Smaller

LEMMA Ranks ==
  ASSUME NEW S, NEW R, IsFiniteSet(S), StrictOrder(S, R)
  PROVE  /\ Cardinality(S) \in Nat
         /\ \A x \in S : Cardinality(Below(S, R, x)) + 1 \in 1 .. Cardinality(S)
         /\ \A k \in 1 .. Cardinality(S) : \E x \in S : Cardinality(Below(S, R, x)) = k - 1
<1> DEFINE n == Cardinality(S)
           rank == [x \in S |-> Cardinality(Below(S, R, x)) + 1]
<1>1. n \in Nat
  BY FS_CardinalityType
<1>2. ASSUME NEW x \in S PROVE rank[x] \in 1 .. n
  <2>1. Below(S, R, x) \in SUBSET S /\ x \in S \ Below(S, R, x)
    BY DEF Below, StrictOrder
  <2>2. Cardinality(Below(S, R, x)) \in Nat /\ Cardinality(Below(S, R, x)) < n
    BY <2>1, Smaller
  <2> QED BY <1>1, <2>2
<1>3. ASSUME NEW x \in S, NEW y \in S, rank[x] = rank[y] PROVE x = y
  <2>1. Cardinality(Below(S, R, x)) = Cardinality(Below(S, R, y))
    <3>1. Below(S, R, x) \in SUBSET S /\ Below(S, R, y) \in SUBSET S
      BY DEF Below
    <3>2. Cardinality(Below(S, R, x)) \in Nat /\ Cardinality(Below(S, R, y)) \in Nat
      BY <3>1, FS_Subset, FS_CardinalityType
    <3> QED BY <1>3, <3>2
  <2>2. Cardinality(Below(S, R, x)) \in Nat
    <3>1. Below(S, R, x) \in SUBSET S
      BY DEF Below
    <3> QED BY <3>1, FS_Subset, FS_CardinalityType
  <2>3. <<x, y>> \notin R
    BY <2>1, <2>2, RankGrows
  <2>4. <<y, x>> \notin R
    BY <2>1, <2>2, RankGrows
  <2> QED BY <2>3, <2>4 DEF StrictOrder
<1>4. rank \in Injection(S, 1 .. n)
  BY <1>2, <1>3 DEF Injection, IsInjective
<1>5. IsFiniteSet(1 .. n) /\ Cardinality(1 .. n) = n
  BY <1>1, Interval
<1>6. rank \in Surjection(S, 1 .. n)
  BY <1>4, <1>5, FS_Injection
<1>7. \A k \in 1 .. n : \E x \in S : Cardinality(Below(S, R, x)) = k - 1
  <2> SUFFICES ASSUME NEW k \in 1 .. n PROVE \E x \in S : Cardinality(Below(S, R, x)) = k - 1
    OBVIOUS
  <2>1. PICK x \in S : rank[x] = k
    BY <1>6 DEF Surjection
  <2>2. Cardinality(Below(S, R, x)) \in Nat
    <3>1. Below(S, R, x) \in SUBSET S
      BY DEF Below
    <3> QED BY <3>1, FS_Subset, FS_CardinalityType
  <2> QED BY <1>1, <2>1, <2>2
<1> QED BY <1>1, <1>2, <1>7

LEMMA InOrderLists ==
  ASSUME NEW S, NEW R, IsFiniteSet(S), StrictOrder(S, R)
  PROVE  Cardinality(S) \in Nat /\ Lists(InOrder(S, R), S, R)
<1> DEFINE n == Cardinality(S)
           f == InOrder(S, R)
<1>1. n \in Nat
  BY FS_CardinalityType
<1>2. f = [k \in 1 .. n |-> CHOOSE x \in S : Cardinality(Below(S, R, x)) = k - 1]
  BY DEF InOrder, Below
<1> HIDE DEF f
<1>3. \A k \in 1 .. n : f[k] \in S /\ Cardinality(Below(S, R, f[k])) = k - 1
  BY <1>2, Ranks
<1>4. f \in [1 .. n -> S]
  BY <1>2, <1>3
<1>5. ASSUME NEW i \in 1 .. n, NEW k \in 1 .. n, <<f[i], f[k]>> \in R PROVE i < k
  <2>1. Cardinality(Below(S, R, f[i])) < Cardinality(Below(S, R, f[k]))
    BY <1>3, <1>5, RankGrows
  <2> QED BY <1>3, <2>1
<1>6. ASSUME NEW i \in 1 .. n, NEW k \in 1 .. n, f[i] = f[k] PROVE i = k
  <2>1. i - 1 = k - 1
    BY <1>3, <1>6
  <2> QED BY <2>1
<1>7. ASSUME NEW i \in 1 .. n, NEW k \in 1 .. n, i < k PROVE <<f[i], f[k]>> \in R
  <2>1. f[i] \in S /\ f[k] \in S /\ f[i] # f[k]
    BY <1>3, <1>6, <1>7
  <2>2. <<f[k], f[i]>> \notin R
    BY <1>5, <1>7
  <2> QED BY <2>1, <2>2 DEF StrictOrder
<1>8. ASSUME NEW x \in S PROVE \E k \in 1 .. n : f[k] = x
  <2>1. Cardinality(Below(S, R, x)) + 1 \in 1 .. n
    BY Ranks
  <2>2. PICK k \in 1 .. n : k = Cardinality(Below(S, R, x)) + 1
    BY <2>1
  <2>3. Cardinality(Below(S, R, x)) \in Nat
    <3>1. Below(S, R, x) \in SUBSET S
      BY DEF Below
    <3> QED BY <3>1, FS_Subset, FS_CardinalityType
  <2>4. f[k] \in S /\ Cardinality(Below(S, R, f[k])) = Cardinality(Below(S, R, x))
    BY <1>3, <2>2, <2>3
  <2>5. <<f[k], x>> \notin R /\ <<x, f[k]>> \notin R
    BY <2>3, <2>4, RankGrows
  <2> QED BY <2>4, <2>5 DEF StrictOrder
<1> QED BY <1>1, <1>4, <1>5, <1>6, <1>7, <1>8 DEF Lists, f

-----------------------------------------------------------------------------
(* Copies of some elements of a sequence.                                   *)

Picks(f, n, I) ==
  /\ n \in Nat /\ f \in [1 .. n -> I]
  /\ \A x \in I : \E k \in 1 .. n : f[k] = x
  /\ \A i, k \in 1 .. n : i < k <=> f[i] < f[k]

LEMMA KeptIs ==
  ASSUME NEW X, NEW seq \in Seq(X), NEW I \in SUBSET DOMAIN seq
  PROVE  /\ Kept(seq, I) \in Seq(X) /\ Len(Kept(seq, I)) = Cardinality(I)
         /\ \E f : /\ Picks(f, Cardinality(I), I)
                   /\ Kept(seq, I) = [k \in 1 .. Cardinality(I) |-> seq[f[k]]]
<1> DEFINE R == {p \in I \X I : p[1] < p[2]}
           f == InOrder(I, R)
           n == Cardinality(I)
<1>1. I \subseteq 1 .. Len(seq) /\ I \subseteq Nat /\ DOMAIN seq = 1 .. Len(seq) /\ Len(seq) \in Nat
  OBVIOUS
<1>2. IsFiniteSet(I)
  BY <1>1, Interval, FS_Subset
<1>3. \A x, y \in I : <<x, y>> \in R <=> x < y
  OBVIOUS
<1> HIDE DEF R
<1>4. StrictOrder(I, R)
  BY <1>1, <1>3 DEF StrictOrder
<1>5. n \in Nat /\ Lists(f, I, R)
  BY <1>2, <1>4, InOrderLists
<1> HIDE DEF f
<1>6. Picks(f, n, I)
  BY <1>3, <1>5 DEF Lists, Picks
<1>7. Kept(seq, I) = [k \in 1 .. n |-> seq[f[k]]]
  BY DEF Kept, f, R
<1>8. \A k \in 1 .. n : seq[f[k]] \in X
  BY <1>1, <1>6 DEF Picks
<1>9. [k \in 1 .. n |-> seq[f[k]]] \in Seq(X) /\ Len([k \in 1 .. n |-> seq[f[k]]]) = n
  BY <1>5, <1>8
<1> QED BY <1>6, <1>7, <1>9

(* Of the positions that are kept, each copy has one.                       *)
LEMMA KeptElements ==
  ASSUME NEW X, NEW seq \in Seq(X), NEW I \in SUBSET DOMAIN seq
  PROVE  /\ DOMAIN Kept(seq, I) = 1 .. Cardinality(I)
         /\ \A k \in DOMAIN Kept(seq, I) : \E i \in I : Kept(seq, I)[k] = seq[i]
         /\ \A i \in I : \E k \in DOMAIN Kept(seq, I) : Kept(seq, I)[k] = seq[i]
         /\ ToSet(Kept(seq, I)) = {seq[i] : i \in I}
<1> DEFINE n == Cardinality(I)
           t == Kept(seq, I)
<1>1. PICK f : Picks(f, n, I) /\ t = [k \in 1 .. n |-> seq[f[k]]]
  BY KeptIs
<1> HIDE DEF t, n
<1>2. DOMAIN t = 1 .. n
  BY <1>1
<1>3. \A k \in 1 .. n : f[k] \in I /\ t[k] = seq[f[k]]
  BY <1>1 DEF Picks
<1>4. \A i \in I : \E k \in 1 .. n : t[k] = seq[i]
  BY <1>1, <1>3 DEF Picks
<1>5. ToSet(t) = {seq[i] : i \in I}
  <2>1. ToSet(t) \subseteq {seq[i] : i \in I}
    BY <1>2, <1>3 DEF ToSet
  <2>2. {seq[i] : i \in I} \subseteq ToSet(t)
    BY <1>2, <1>4 DEF ToSet
  <2> QED BY <2>1, <2>2
<1> QED BY <1>2, <1>3, <1>4, <1>5 DEF n, t

LEMMA KeptAll ==
  ASSUME NEW X, NEW seq \in Seq(X)
  PROVE  Kept(seq, DOMAIN seq) = seq
<1> DEFINE n == Len(seq)
           S == 1 .. n
           R == {p \in S \X S : p[1] < p[2]}
           f == InOrder(S, R)
<1>1. n \in Nat /\ DOMAIN seq = S
  OBVIOUS
<1>2. Cardinality(S) = n
  BY <1>1, Interval
<1>3. \A x \in S : {y \in S : <<y, x>> \in R} = 1 .. (x - 1)
  BY <1>1
<1>4. \A x \in S : Cardinality({y \in S : <<y, x>> \in R}) = x - 1
  <2> SUFFICES ASSUME NEW x \in S PROVE Cardinality({y \in S : <<y, x>> \in R}) = x - 1
    OBVIOUS
  <2>1. x - 1 \in Nat
    BY <1>1
  <2>2. Cardinality(1 .. (x - 1)) = x - 1
    BY <2>1, Interval
  <2> QED BY <1>3, <2>2
<1>5. f = [k \in S |-> CHOOSE x \in S : Cardinality({y \in S : <<y, x>> \in R}) = k - 1]
  BY <1>2 DEF InOrder
<1> DEFINE rank(x) == Cardinality({y \in S : <<y, x>> \in R})
<1>6. \A x \in S : rank(x) = x - 1
  BY <1>4
<1>7. \A k \in S : f[k] = CHOOSE x \in S : rank(x) = k - 1
  BY <1>5
<1> HIDE DEF f, rank
<1>8. ASSUME NEW k \in S PROVE f[k] = k
  <2>1. k \in S /\ rank(k) = k - 1
    BY <1>6
  <2>2. f[k] \in S /\ rank(f[k]) = k - 1
    BY <1>7, <2>1
  <2>3. f[k] - 1 = k - 1
    BY <1>6, <2>2
  <2> QED BY <1>1, <2>2, <2>3
<1>9. Kept(seq, DOMAIN seq) = [k \in S |-> seq[f[k]]]
  BY <1>1, <1>2 DEF Kept, f
<1>10. [k \in S |-> seq[f[k]]] = [k \in S |-> seq[k]]
  BY <1>8
<1> QED BY <1>1, <1>9, <1>10

-----------------------------------------------------------------------------
(* The names of a snapshot.                                                 *)

Distinct(names) == \A i, j \in DOMAIN names : names[i] = names[j] => i = j

LEMMA FirstSeenIs ==
  ASSUME NEW X, NEW results \in Seq(X), NEW N, \A x \in X : x.name \in N
  PROVE  /\ FirstSeen(results) \in Seq(N) /\ Distinct(FirstSeen(results))
         /\ ToSet(FirstSeen(results)) = {e.name : e \in ToSet(results)}
<1> DEFINE I == {k \in DOMAIN results : \A j \in 1 .. k - 1 : results[j].name # results[k].name}
           n == Cardinality(I)
           names == FirstSeen(results)
<1>1. I \in SUBSET DOMAIN results /\ DOMAIN results = 1 .. Len(results) /\ Len(results) \in Nat
  OBVIOUS
<1>2. PICK f : Picks(f, n, I) /\ Kept(results, I) = [k \in 1 .. n |-> results[f[k]]]
  BY <1>1, KeptIs
<1>3. names = [k \in 1 .. n |-> results[f[k]].name]
  BY <1>2 DEF FirstSeen
<1>a. \A k \in I : k \in 1 .. Len(results) /\ \A j \in 1 .. k - 1 : results[j].name # results[k].name
  BY <1>1
<1>b. \A k \in 1 .. Len(results) :
        (\A j \in 1 .. k - 1 : results[j].name # results[k].name) => k \in I
  BY <1>1
<1> HIDE DEF I, n, names
<1>4. n \in Nat /\ \A k \in 1 .. n : f[k] \in I /\ f[k] \in 1 .. Len(results)
  BY <1>2, <1>a DEF Picks
<1>5. \A k \in 1 .. n : names[k] = results[f[k]].name /\ names[k] \in N
  BY <1>1, <1>3, <1>4
<1>6. names \in Seq(N) /\ DOMAIN names = 1 .. n
  <2> DEFINE g(k) == results[f[k]].name
  <2>1. \A k \in 1 .. n : g(k) \in N
    BY <1>3, <1>5
  <2>2. names = [k \in 1 .. n |-> g(k)]
    BY <1>3
  <2> HIDE DEF g
  <2> QED BY <1>4, <2>1, <2>2
<1>7. Distinct(names)
  <2> SUFFICES ASSUME NEW i \in 1 .. n, NEW j \in 1 .. n, i < j PROVE names[i] # names[j]
    BY <1>4, <1>6 DEF Distinct
  <2>1. f[i] \in 1 .. f[j] - 1
    BY <1>1, <1>2, <1>4 DEF Picks
  <2> QED BY <1>a, <1>4, <1>5, <2>1
<1>8. ASSUME NEW k \in 1 .. Len(results) PROVE \E i \in 1 .. n : names[i] = results[k].name
  <2> DEFINE A == {j \in 1 .. Len(results) : results[j].name = results[k].name}
  <2>1. A \in SUBSET Nat /\ A # {}
    BY <1>1
  <2>2. PICK m \in A : \A j \in A : m <= j
    BY <2>1, LeastElement
  <2>3. m \in 1 .. Len(results) /\ \A j \in 1 .. m - 1 : j \in 1 .. Len(results) /\ j \notin A
    BY <1>1, <2>2
  <2>4. m \in I
    BY <1>b, <2>2, <2>3
  <2>5. PICK i \in 1 .. n : f[i] = m
    BY <1>2, <2>4 DEF Picks
  <2> QED BY <1>5, <2>2, <2>5
<1>9. ToSet(names) = {e.name : e \in ToSet(results)}
  <2>1. ToSet(names) \subseteq {e.name : e \in ToSet(results)}
    BY <1>1, <1>4, <1>5, <1>6 DEF ToSet
  <2>2. {e.name : e \in ToSet(results)} \subseteq ToSet(names)
    BY <1>1, <1>6, <1>8 DEF ToSet
  <2> QED BY <2>1, <2>2
<1> QED BY <1>6, <1>7, <1>9 DEF names

-----------------------------------------------------------------------------
(* The order of the names: a strict weak order, in which the names of one   *)
(* letter stand together.                                                   *)

Name == Seq(DOMAIN Cols)

LEMMA RankType ==
  ASSUME NEW t \in DOMAIN Cols
  PROVE  Rank[t] \in Nat
BY BenchmarksAssumption

LEMMA PrecedesIrreflexive ==
  ASSUME NEW a \in Name
  PROVE  ~Precedes(a, a)
<1> SUFFICES ASSUME Precedes(a, a) PROVE FALSE
  OBVIOUS
<1>1. PICK k \in 1 .. Len(a) : k = Len(a) + 1 \/ Rank[a[k]] < Rank[a[k]]
  BY DEF Precedes
<1>2. Rank[a[k]] \in Nat
  BY RankType DEF Name
<1> QED BY <1>1, <1>2 DEF Name

LEMMA PrecedesTransitive ==
  ASSUME NEW a \in Name, NEW b \in Name, NEW c \in Name, Precedes(a, b), Precedes(b, c)
  PROVE  Precedes(a, c)
<1> DEFINE At(x, y, k) == /\ k <= Len(x) + 1
                          /\ \A i \in 1 .. k - 1 : Alike(x[i], y[i])
                          /\ k = Len(x) + 1 \/ Rank[x[k]] < Rank[y[k]]
<1>1. PICK k \in 1 .. Len(b) : At(a, b, k)
  BY DEF Precedes
<1>2. PICK l \in 1 .. Len(c) : At(b, c, l)
  BY DEF Precedes
<1>3. Len(a) \in Nat /\ Len(b) \in Nat /\ Len(c) \in Nat
  BY DEF Name
<1>4. /\ \A i \in 1 .. Len(a) : Rank[a[i]] \in Nat
      /\ \A i \in 1 .. Len(b) : Rank[b[i]] \in Nat
      /\ \A i \in 1 .. Len(c) : Rank[c[i]] \in Nat
  BY RankType DEF Name
<1>5. CASE k <= l
  <2>1. k \in 1 .. Len(c) /\ k <= Len(a) + 1
    BY <1>1, <1>2, <1>3, <1>5
  <2>2. \A i \in 1 .. k - 1 : Alike(a[i], c[i])
    BY <1>1, <1>2, <1>3, <1>5 DEF Alike
  <2>3. k = Len(a) + 1 \/ Rank[a[k]] < Rank[c[k]]
    <3> SUFFICES ASSUME k # Len(a) + 1 PROVE Rank[a[k]] < Rank[c[k]]
      OBVIOUS
    <3>1. Rank[a[k]] < Rank[b[k]] /\ k \in 1 .. Len(a)
      BY <1>1, <1>3
    <3>2. Rank[b[k]] <= Rank[c[k]]
      BY <1>1, <1>2, <1>3, <1>4, <1>5, <2>1 DEF Alike
    <3> QED BY <1>1, <1>4, <2>1, <3>1, <3>2
  <2> QED BY <2>1, <2>2, <2>3 DEF Precedes
<1>6. CASE l < k
  <2>1. l \in 1 .. Len(a) /\ l \in 1 .. Len(b) /\ l <= Len(a) + 1 /\ l # Len(b) + 1
    BY <1>1, <1>2, <1>3, <1>6
  <2>2. \A i \in 1 .. l - 1 : Alike(a[i], c[i])
    BY <1>1, <1>2, <1>3, <1>6 DEF Alike
  <2>3. Rank[a[l]] < Rank[c[l]]
    <3>1. Rank[b[l]] < Rank[c[l]]
      BY <1>2, <2>1
    <3>2. Rank[a[l]] = Rank[b[l]]
      BY <1>1, <1>3, <1>6, <2>1 DEF Alike
    <3> QED BY <3>1, <3>2
  <2> QED BY <2>1, <2>2, <2>3 DEF Precedes
<1> QED BY <1>1, <1>2, <1>5, <1>6

LEMMA PrecedesSplits ==
  ASSUME NEW a \in Name, NEW b \in Name, NEW c \in Name, Precedes(a, b)
  PROVE  Precedes(a, c) \/ Precedes(c, b)
<1>1. PICK k \in 1 .. Len(b) : /\ k <= Len(a) + 1
                               /\ \A i \in 1 .. k - 1 : Alike(a[i], b[i])
                               /\ k = Len(a) + 1 \/ Rank[a[k]] < Rank[b[k]]
  BY DEF Precedes
<1>2. Len(a) \in Nat /\ Len(b) \in Nat /\ Len(c) \in Nat
  BY DEF Name
<1>3. /\ \A i \in 1 .. Len(a) : Rank[a[i]] \in Nat
      /\ \A i \in 1 .. Len(b) : Rank[b[i]] \in Nat
      /\ \A i \in 1 .. Len(c) : Rank[c[i]] \in Nat
  BY RankType DEF Name
<1> DEFINE A == {i \in 1 .. k : i > Len(c) \/ ~Alike(c[i], b[i])}
<1>4. CASE A = {}
  <2>1. k <= Len(c) /\ \A i \in 1 .. k : Alike(c[i], b[i])
    BY <1>1, <1>2, <1>4
  <2>2. k \in 1 .. Len(c) /\ \A i \in 1 .. k - 1 : Alike(a[i], c[i])
    BY <1>1, <1>2, <2>1 DEF Alike
  <2>3. k = Len(a) + 1 \/ Rank[a[k]] < Rank[c[k]]
    BY <1>1, <2>1 DEF Alike
  <2>4. Precedes(a, c)
    BY <1>1, <2>2, <2>3 DEF Precedes
  <2> QED BY <2>4
<1>5. CASE A # {}
  <2>0. A \in SUBSET Nat
    BY <1>1
  <2>1. PICK i \in A : \A j \in A : i <= j
    <3> HIDE DEF A
    <3> QED BY <1>5, <2>0, LeastElement
  <2>2. i \in 1 .. k /\ (i > Len(c) \/ ~Alike(c[i], b[i]))
    OBVIOUS
  <2>3. \A j \in 1 .. i - 1 : j <= Len(c) /\ Alike(c[j], b[j])
    <3>1. \A j \in 1 .. i - 1 : j \in 1 .. k /\ j \notin A
      BY <2>1, <2>2
    <3> QED BY <1>2, <3>1
  <2>4. i <= Len(c) + 1 /\ i \in 1 .. Len(b)
    <3>1. i = 1 \/ i - 1 \in 1 .. i - 1
      BY <2>2
    <3> QED BY <1>2, <2>2, <2>3, <3>1
  <2>5. CASE i = Len(c) + 1 \/ Rank[c[i]] < Rank[b[i]]
    <3>1. Precedes(c, b)
      BY <2>3, <2>4, <2>5 DEF Precedes
    <3> QED BY <3>1
  <2>6. CASE ~(i = Len(c) + 1 \/ Rank[c[i]] < Rank[b[i]])
    <3>1. i \in 1 .. Len(c) /\ Rank[b[i]] < Rank[c[i]]
      BY <1>2, <1>3, <2>2, <2>4, <2>6 DEF Alike
    <3>2. \A j \in 1 .. i - 1 : Alike(a[j], c[j])
      BY <1>1, <2>2, <2>3 DEF Alike
    <3>3. i = Len(a) + 1 \/ Rank[a[i]] < Rank[c[i]]
      <4>1. CASE i = k
        <5> SUFFICES ASSUME i # Len(a) + 1 PROVE Rank[a[i]] < Rank[c[i]]
          OBVIOUS
        <5>1. Rank[a[i]] < Rank[b[i]] /\ i \in 1 .. Len(a)
          BY <1>1, <1>2, <4>1
        <5> QED BY <1>3, <2>4, <3>1, <5>1
      <4>2. CASE i # k
        <5>1. Alike(a[i], b[i])
          BY <1>1, <2>2, <4>2
        <5> QED BY <3>1, <5>1 DEF Alike
      <4> QED BY <4>1, <4>2
    <3>4. Precedes(a, c)
      BY <1>1, <1>2, <2>2, <3>1, <3>2, <3>3 DEF Precedes
    <3> QED BY <3>4
  <2> QED BY <2>5, <2>6
<1> QED BY <1>4, <1>5

LEMMA LettersTogether ==
  ASSUME NEW a \in Name, NEW b \in Name, NEW c \in Name, ~Precedes(b, a), ~Precedes(c, b),
         LetterOf(a) = LetterOf(c), LetterOf(a) # "?"
  PROVE  LetterOf(b) = LetterOf(a)
<1>1. ASSUME NEW x \in Name, NEW y \in Name, ~Precedes(y, x), x # <<>>
      PROVE  /\ y # <<>> /\ Head(x) \in DOMAIN Cols /\ Head(y) \in DOMAIN Cols
             /\ Rank[Head(x)] <= Rank[Head(y)]
  <2>1. Len(x) \in Nat /\ 1 \in 1 .. Len(x) /\ Head(x) = x[1] /\ x[1] \in DOMAIN Cols
    BY <1>1 DEF Name
  <2>2. \A i \in 1 .. 1 - 1 : Alike(y[i], x[i])
    OBVIOUS
  <2>3. 1 <= Len(y) + 1 /\ Len(y) \in Nat
    BY DEF Name
  <2>4. ~(1 = Len(y) + 1) /\ ~(Rank[y[1]] < Rank[x[1]])
    BY <1>1, <2>1, <2>2, <2>3 DEF Precedes
  <2>5. y # <<>> /\ Head(y) = y[1] /\ y[1] \in DOMAIN Cols
    BY <2>3, <2>4 DEF Name
  <2> QED BY <2>1, <2>4, <2>5, RankType
<1>2. a # <<>>
  BY DEF LetterOf
<1>3. /\ b # <<>> /\ Head(a) \in DOMAIN Cols /\ Head(b) \in DOMAIN Cols
      /\ Rank[Head(a)] <= Rank[Head(b)]
  BY <1>1, <1>2
<1>4. c # <<>> /\ Head(c) \in DOMAIN Cols /\ Rank[Head(b)] <= Rank[Head(c)]
  BY <1>1, <1>3
<1>5. First[Head(a)] = First[Head(c)]
  BY <1>2, <1>4 DEF LetterOf
<1>6. First[Head(b)] = First[Head(a)]
  BY <1>3, <1>4, <1>5, BenchmarksAssumption
<1> QED BY <1>2, <1>3, <1>6 DEF LetterOf

-----------------------------------------------------------------------------
(* Sorting the names.                                                       *)

Earlier(names, i, j) == \/ Precedes(names[i], names[j])
                        \/ (~Precedes(names[j], names[i]) /\ i < j)

Arranges(f, names) ==
  /\ f \in [DOMAIN names -> DOMAIN names]
  /\ \A x \in DOMAIN names : \E k \in DOMAIN names : f[k] = x
  /\ \A i, k \in DOMAIN names : i < k <=> Earlier(names, f[i], f[k])
  /\ \A i, k \in DOMAIN names : f[i] = f[k] => i = k

LEMMA SortedIs ==
  ASSUME NEW names \in Seq(Name)
  PROVE  \E f : Arranges(f, names) /\ Sorted(names) = [k \in DOMAIN names |-> names[f[k]]]
<1> DEFINE S == DOMAIN names
           R == {p \in S \X S : \/ Precedes(names[p[1]], names[p[2]])
                                \/ (~Precedes(names[p[2]], names[p[1]]) /\ p[1] < p[2])}
           f == InOrder(S, R)
<1>1. S = 1 .. Len(names) /\ Len(names) \in Nat /\ \A i \in S : names[i] \in Name
  OBVIOUS
<1>2. IsFiniteSet(S) /\ Cardinality(S) = Len(names)
  BY <1>1, Interval
<1>3. \A i, j \in S : <<i, j>> \in R <=> Earlier(names, i, j)
  BY DEF Earlier
<1>4. Sorted(names) = [k \in S |-> names[f[k]]]
  BY DEF Sorted
<1> HIDE DEF R, S, f
<1>5. StrictOrder(S, R)
  <2>1. \A x \in S : <<x, x>> \notin R
    BY <1>1, <1>3, PrecedesIrreflexive DEF Earlier
  <2>2. ASSUME NEW x \in S, NEW y \in S, NEW z \in S, <<x, y>> \in R, <<y, z>> \in R
        PROVE  <<x, z>> \in R
    <3>1. Earlier(names, x, y) /\ Earlier(names, y, z)
      BY <1>3, <2>2
    <3>2. names[x] \in Name /\ names[y] \in Name /\ names[z] \in Name
      BY <1>1
    <3>3. CASE Precedes(names[x], names[y]) /\ Precedes(names[y], names[z])
      BY <1>3, <3>2, <3>3, PrecedesTransitive DEF Earlier
    <3>4. CASE Precedes(names[x], names[y]) /\ ~Precedes(names[z], names[y])
      BY <1>3, <3>2, <3>4, PrecedesSplits DEF Earlier
    <3>5. CASE ~Precedes(names[y], names[x]) /\ Precedes(names[y], names[z])
      BY <1>3, <3>2, <3>5, PrecedesSplits DEF Earlier
    <3>6. CASE ~Precedes(names[y], names[x]) /\ ~Precedes(names[z], names[y]) /\ x < y /\ y < z
      <4>1. ~Precedes(names[z], names[x])
        BY <3>2, <3>6, PrecedesSplits
      <4>2. x < z
        BY <1>1, <3>6
      <4> QED BY <1>3, <4>1, <4>2 DEF Earlier
    <3>7. Precedes(names[x], names[y]) \/ (~Precedes(names[y], names[x]) /\ x < y)
      BY <3>1 DEF Earlier
    <3>8. Precedes(names[y], names[z]) \/ (~Precedes(names[z], names[y]) /\ y < z)
      BY <3>1 DEF Earlier
    <3> QED BY <3>3, <3>4, <3>5, <3>6, <3>7, <3>8
  <2>3. ASSUME NEW x \in S, NEW y \in S, x # y PROVE <<x, y>> \in R \/ <<y, x>> \in R
    <3>1. x < y \/ y < x
      BY <1>1, <2>3
    <3>2. CASE Precedes(names[x], names[y]) \/ Precedes(names[y], names[x])
      BY <1>3, <3>2 DEF Earlier
    <3>3. CASE ~Precedes(names[x], names[y]) /\ ~Precedes(names[y], names[x])
      BY <1>3, <3>1, <3>3 DEF Earlier
    <3> QED BY <3>2, <3>3
  <2> QED BY <2>1, <2>2, <2>3 DEF StrictOrder
<1>6. Lists(f, S, R)
  BY <1>2, <1>5, InOrderLists DEF f
<1>7. Arranges(f, names)
  BY <1>1, <1>2, <1>3, <1>6 DEF Lists, Arranges, S
<1> QED BY <1>4, <1>7 DEF S

-----------------------------------------------------------------------------
(* The groups.                                                              *)

LEMMA GreatestElement ==
  ASSUME NEW k \in Nat, NEW A \in SUBSET (1 .. k), A # {}
  PROVE  Max(A) \in A /\ \A x \in A : x <= Max(A)
<1> DEFINE B == {k - x : x \in A}
<1>0. \A x \in A : x \in 1 .. k /\ k - x \in Nat
  OBVIOUS
<1>1. B \in SUBSET Nat /\ B # {}
  BY <1>0
<1>2. PICK m \in B : \A y \in B : m <= y
  <2> HIDE DEF B
  <2> QED BY <1>1, LeastElement
<1>3. PICK a \in A : m = k - a
  OBVIOUS
<1>4. \A x \in A : a >= x
  <2> SUFFICES ASSUME NEW x \in A PROVE a >= x
    OBVIOUS
  <2>1. k - x \in B /\ x \in 1 .. k /\ a \in 1 .. k
    BY <1>0
  <2>2. k - a <= k - x
    BY <1>2, <1>3, <2>1
  <2> QED BY <2>1, <2>2
<1>5. Max(A) \in A /\ \A x \in A : Max(A) >= x
  BY <1>3, <1>4 DEF Max
<1> QED BY <1>5

Run(s, g, k) ==
  /\ g \in 1 .. k /\ \A i \in g .. k : LetterOf(s[i]) = LetterOf(s[k])
  /\ g = 1 \/ LetterOf(s[g - 1]) # LetterOf(s[g])

LEMMA GroupStartIs ==
  ASSUME NEW s \in Seq(Name), NEW k \in 1 .. Len(s)
  PROVE  Run(s, GroupStart(s, k), k)
<1> DEFINE A == {i \in 1 .. k : i = 1 \/ LetterOf(s[i - 1]) # LetterOf(s[i])}
           g == GroupStart(s, k)
<1>1. k \in Nat /\ 1 \in A
  OBVIOUS
<1>2. g = Max(A)
  BY DEF GroupStart
<1>3. g \in A /\ \A x \in A : x <= g
  <2>1. A \in SUBSET (1 .. k) /\ A # {}
    BY <1>1
  <2> HIDE DEF A, g
  <2> QED BY <1>1, <1>2, <2>1, GreatestElement
<1>4. \A i \in 1 .. k : (i = 1 \/ LetterOf(s[i - 1]) # LetterOf(s[i])) => i \in A
  OBVIOUS
<1>5. g \in 1 .. k /\ (g = 1 \/ LetterOf(s[g - 1]) # LetterOf(s[g]))
  BY <1>3
<1> HIDE DEF A, g
<1>6. \A i \in g + 1 .. k : LetterOf(s[i - 1]) = LetterOf(s[i])
  <2> SUFFICES ASSUME NEW i \in g + 1 .. k PROVE LetterOf(s[i - 1]) = LetterOf(s[i])
    OBVIOUS
  <2>1. i \in 1 .. k /\ ~(i <= g) /\ i # 1
    BY <1>1, <1>5
  <2>2. i \notin A
    BY <1>3, <2>1
  <2> QED BY <1>4, <2>1, <2>2
<1> DEFINE B == {i \in g .. k : LetterOf(s[i]) # LetterOf(s[k])}
<1>7. B = {}
  <2> SUFFICES ASSUME B # {} PROVE FALSE
    OBVIOUS
  <2>1. B \in SUBSET (1 .. k)
    BY <1>1, <1>5
  <2>2. Max(B) \in B /\ \A x \in B : x <= Max(B)
    <3> HIDE DEF B
    <3> QED BY <1>1, <2>1, GreatestElement
  <2> DEFINE m == Max(B)
  <2>3. m \in g .. k /\ LetterOf(s[m]) # LetterOf(s[k])
    BY <2>2
  <2>4. \A i \in g .. k : LetterOf(s[i]) # LetterOf(s[k]) => i <= m
    BY <2>2
  <2> HIDE DEF m, B
  <2>5. m + 1 \in g + 1 .. k /\ m + 1 \in g .. k /\ ~(m + 1 <= m) /\ m + 1 - 1 = m
    BY <1>1, <1>5, <2>3
  <2>6. LetterOf(s[m + 1]) = LetterOf(s[k])
    BY <2>4, <2>5
  <2> QED BY <1>6, <2>3, <2>5, <2>6
<1>8. \A i \in g .. k : LetterOf(s[i]) = LetterOf(s[k])
  BY <1>7
<1> QED BY <1>5, <1>8 DEF Run, g

(* In a sorted sequence the positions of a letter up to k are those of the  *)
(* group.                                                                   *)
Ascending(s) == \A i, k \in DOMAIN s : i < k => ~Precedes(s[k], s[i])

LEMMA GroupIsLetter ==
  ASSUME NEW s \in Seq(Name), Ascending(s), NEW k \in 1 .. Len(s), NEW g \in 1 .. k, Run(s, g, k),
         LetterOf(s[k]) # "?", NEW i \in 1 .. k
  PROVE  LetterOf(s[i]) = LetterOf(s[k]) <=> i >= g
<1>1. ASSUME i >= g PROVE LetterOf(s[i]) = LetterOf(s[k])
  BY <1>1 DEF Run
<1>2. ASSUME i < g, LetterOf(s[i]) = LetterOf(s[k]) PROVE FALSE
  <2>1. g # 1 /\ g - 1 \in 1 .. Len(s) /\ g \in 1 .. Len(s) /\ i \in 1 .. Len(s) /\ i <= g - 1
    BY <1>2
  <2>2. LetterOf(s[g - 1]) # LetterOf(s[g]) /\ LetterOf(s[g]) = LetterOf(s[k])
    BY <2>1 DEF Run
  <2>3. i < g - 1
    BY <1>2, <2>1, <2>2
  <2>4. s[i] \in Name /\ s[g - 1] \in Name /\ s[g] \in Name /\ DOMAIN s = 1 .. Len(s)
    BY <2>1
  <2>5. ~Precedes(s[g - 1], s[i]) /\ ~Precedes(s[g], s[g - 1])
    BY <2>1, <2>3, <2>4 DEF Ascending
  <2>6. LetterOf(s[g - 1]) = LetterOf(s[i])
    BY <1>2, <2>2, <2>4, <2>5, LettersTogether
  <2> QED BY <1>2, <2>2, <2>6
<1> QED BY <1>1, <1>2

LEMMA SortedAscends ==
  ASSUME NEW names \in Seq(Name), NEW f, Arranges(f, names),
         Sorted(names) = [k \in DOMAIN names |-> names[f[k]]]
  PROVE  /\ Sorted(names) \in Seq(Name) /\ Len(Sorted(names)) = Len(names)
         /\ DOMAIN Sorted(names) = 1 .. Len(names) /\ Ascending(Sorted(names))
<1>1. DOMAIN names = 1 .. Len(names) /\ Len(names) \in Nat /\ \A i \in DOMAIN names : names[i] \in Name
  OBVIOUS
<1>2. \A k \in DOMAIN names : f[k] \in DOMAIN names /\ names[f[k]] \in Name
  BY <1>1 DEF Arranges
<1>3. [k \in 1 .. Len(names) |-> names[f[k]]] \in Seq(Name)
  BY <1>1, <1>2
<1>4. Sorted(names) \in Seq(Name) /\ DOMAIN Sorted(names) = 1 .. Len(names)
  BY <1>1, <1>3
<1>5. Len(Sorted(names)) = Len(names)
  BY <1>1, <1>4
<1>6. Ascending(Sorted(names))
  <2> SUFFICES ASSUME NEW i \in DOMAIN names, NEW k \in DOMAIN names, i < k,
                      Precedes(names[f[k]], names[f[i]])
               PROVE  FALSE
    BY <1>1, <1>4 DEF Ascending
  <2>1. Earlier(names, f[i], f[k])
    BY DEF Arranges
  <2>2. Precedes(names[f[i]], names[f[k]])
    BY <2>1 DEF Earlier
  <2> QED BY <1>2, <2>2, PrecedesTransitive, PrecedesIrreflexive
<1> QED BY <1>4, <1>5, <1>6

Before(names, p) ==
  {q \in DOMAIN names : LetterOf(names[q]) = LetterOf(names[p]) /\ Earlier(names, q, p)}

LEMMA PlaceIs ==
  ASSUME NEW names \in Seq(Name), Distinct(names), NEW p \in DOMAIN names
  PROVE  PlaceOf(names[p], names) = 1 + Cardinality(Before(names, p))
<1> DEFINE n == names[p]
           B == {k \in DOMAIN names :
                   /\ LetterOf(names[k]) = LetterOf(n) /\ names[k] # n
                   /\ Precedes(names[k], n)
                      \/ (~Precedes(n, names[k]) /\ \E j \in DOMAIN names : j > k /\ names[j] = n)}
<1>1. DOMAIN names = 1 .. Len(names) /\ Len(names) \in Nat /\ \A i \in DOMAIN names : names[i] \in Name
  OBVIOUS
<1>2. ASSUME NEW k \in DOMAIN names
      PROVE  /\ (\E j \in DOMAIN names : j > k /\ names[j] = n) <=> k < p
             /\ names[k] # n <=> k # p
  <2>1. \A j \in DOMAIN names : names[j] = n <=> j = p
    BY DEF Distinct
  <2> QED BY <1>1, <2>1
<1>3. ASSUME NEW k \in B PROVE k \in Before(names, p)
  <2>1. k \in DOMAIN names
    OBVIOUS
  <2> QED BY <1>2, <2>1 DEF Before, Earlier
<1>4. ASSUME NEW k \in Before(names, p) PROVE k \in B
  <2>1. k \in DOMAIN names /\ Earlier(names, k, p) /\ LetterOf(names[k]) = LetterOf(n)
    BY DEF Before
  <2>2. k # p
    BY <1>1, <2>1, PrecedesIrreflexive DEF Earlier
  <2>3. names[k] # n
    BY <1>2, <2>1, <2>2
  <2>4. Precedes(names[k], n)
        \/ (~Precedes(n, names[k]) /\ \E j \in DOMAIN names : j > k /\ names[j] = n)
    BY <1>2, <2>1 DEF Earlier
  <2> QED BY <2>1, <2>3, <2>4
<1>5. B = Before(names, p)
  BY <1>3, <1>4
<1>6. PlaceOf(names[p], names) = 1 + Cardinality(B)
  BY DEF PlaceOf
<1> QED BY <1>5, <1>6

LEMMA GroupPlace ==
  ASSUME NEW names \in Seq(Name), NEW f, Arranges(f, names),
         Sorted(names) = [k \in DOMAIN names |-> names[f[k]]],
         NEW k \in DOMAIN names, NEW g, Run(Sorted(names), g, k), LetterOf(Sorted(names)[k]) # "?"
  PROVE  Cardinality(Before(names, f[k])) = k - g
<1> DEFINE s == Sorted(names)
           S == g .. k - 1
           T == Before(names, f[k])
           h == [i \in S |-> f[i]]
<1>1. s \in Seq(Name) /\ Len(s) = Len(names) /\ DOMAIN s = 1 .. Len(names) /\ Ascending(s)
  BY SortedAscends
<1>2. DOMAIN names = 1 .. Len(names) /\ Len(names) \in Nat /\ k \in 1 .. Len(s) /\ g \in 1 .. k
  BY <1>1 DEF Run
<1>3. \A i \in DOMAIN names : s[i] = names[f[i]] /\ f[i] \in DOMAIN names
  BY DEF Arranges
<1>4. \A i \in 1 .. k : LetterOf(s[i]) = LetterOf(s[k]) <=> i >= g
  <2> HIDE DEF s
  <2> QED BY <1>1, <1>2, GroupIsLetter DEF s
<1>5. \A q \in DOMAIN names : q \in T <=> LetterOf(names[q]) = LetterOf(s[k]) /\ Earlier(names, q, f[k])
  BY <1>3 DEF Before
<1>6. T \subseteq DOMAIN names
  BY DEF Before
<1> HIDE DEF s, T
<1>7. \A i \in S : i \in DOMAIN names /\ i \in 1 .. k /\ i >= g /\ i < k
  BY <1>2
<1>8. \A i \in S : f[i] \in T
  <2> SUFFICES ASSUME NEW i \in S PROVE f[i] \in T
    OBVIOUS
  <2>1. LetterOf(names[f[i]]) = LetterOf(s[k])
    BY <1>3, <1>4, <1>7
  <2>2. Earlier(names, f[i], f[k])
    BY <1>7 DEF Arranges
  <2> QED BY <1>3, <1>5, <1>7, <2>1, <2>2
<1>9. ASSUME NEW q \in T PROVE \E i \in S : f[i] = q
  <2>1. q \in DOMAIN names /\ LetterOf(names[q]) = LetterOf(s[k]) /\ Earlier(names, q, f[k])
    BY <1>5, <1>6
  <2>2. PICK i \in DOMAIN names : f[i] = q
    BY <2>1 DEF Arranges
  <2>3. i < k
    BY <2>1, <2>2 DEF Arranges
  <2>4. i \in 1 .. k /\ LetterOf(s[i]) = LetterOf(s[k])
    BY <1>2, <1>3, <2>1, <2>2, <2>3
  <2>5. i \in S
    BY <1>2, <1>4, <2>3, <2>4
  <2> QED BY <2>2, <2>5
<1>10. IsFiniteSet(T)
  BY <1>2, <1>6, Interval, FS_Subset
<1>11. Cardinality(S) = Cardinality(T)
  <2>1. h \in [S -> T] /\ \A i \in S : h[i] = f[i]
    BY <1>8
  <2>2. \A x, y \in S : h[x] = h[y] => x = y
    BY <1>7, <2>1 DEF Arranges
  <2>3. \A y \in T : \E x \in S : h[x] = y
    BY <1>9, <2>1
  <2> HIDE DEF h, S
  <2> QED BY <1>10, <2>1, <2>2, <2>3, SameSize
<1>12. Cardinality(S) = k - g
  <2>1. g \in Int /\ k - 1 \in Int
    BY <1>2
  <2>2. Cardinality(S) = IF g > k - 1 THEN 0 ELSE k - 1 - g + 1
    BY <2>1, FS_Interval
  <2> QED BY <1>2, <2>2
<1> QED BY <1>11, <1>12 DEF T

(* m lists the names, with the letter and the place of each.                *)
ListsGroups(m, names) ==
  /\ DOMAIN m = 1 .. Len(names)
  /\ \A k \in DOMAIN m : /\ m[k].name \in ToSet(names) /\ m[k].letter = LetterOf(m[k].name)
                         /\ m[k].letter # "?" => m[k].j = PlaceOf(m[k].name, names)
  /\ \A n \in ToSet(names) : \E k \in DOMAIN m : m[k].name = n
  /\ \A i, k \in DOMAIN m : m[i].name = m[k].name => i = k
  /\ \A i, k \in DOMAIN m : m[k].letter # "?" /\ m[i].letter = m[k].letter /\ m[i].j = m[k].j => i = k

LEMMA GroupsAre ==
  ASSUME NEW names \in Seq(Name), Distinct(names)
  PROVE  ListsGroups(groupMethodsByLetter(names), names)
<1> DEFINE s == Sorted(names)
           m == groupMethodsByLetter(names)
           D == DOMAIN names
<1>1. PICK f : Arranges(f, names) /\ s = [k \in D |-> names[f[k]]]
  BY SortedIs
<1>2. s \in Seq(Name) /\ Len(s) = Len(names) /\ DOMAIN s = 1 .. Len(names) /\ Ascending(s)
  BY <1>1, SortedAscends
<1>3. D = 1 .. Len(names) /\ Len(names) \in Nat
  OBVIOUS
<1>4. /\ DOMAIN m = D
      /\ \A k \in D : m[k] = [letter |-> LetterOf(s[k]), j |-> k + 1 - GroupStart(s, k), name |-> s[k]]
  BY <1>2, <1>3 DEF groupMethodsByLetter
<1>a. \A k \in D : /\ m[k].letter = LetterOf(s[k]) /\ m[k].name = s[k]
                    /\ m[k].j = k + 1 - GroupStart(s, k)
  BY <1>4
<1>5. \A k \in D : s[k] = names[f[k]] /\ f[k] \in D
  BY <1>1 DEF Arranges
<1>6. \A k \in D : Run(s, GroupStart(s, k), k) /\ GroupStart(s, k) \in 1 .. k
  <2> SUFFICES ASSUME NEW k \in D PROVE Run(s, GroupStart(s, k), k)
    BY DEF Run
  <2> QED BY <1>2, <1>3, GroupStartIs
<1>7. ASSUME NEW k \in D, LetterOf(s[k]) # "?" PROVE m[k].j = PlaceOf(s[k], names)
  <2>1. Cardinality(Before(names, f[k])) = k - GroupStart(s, k)
    BY <1>1, <1>6, <1>7, GroupPlace
  <2>2. PlaceOf(names[f[k]], names) = 1 + Cardinality(Before(names, f[k]))
    BY <1>5, PlaceIs
  <2>3. m[k].j = k + 1 - GroupStart(s, k)
    BY <1>4
  <2> QED BY <1>3, <1>5, <1>6, <2>1, <2>2, <2>3
<1>8. ASSUME NEW k \in D
      PROVE  /\ m[k].name \in ToSet(names) /\ m[k].letter = LetterOf(m[k].name)
             /\ m[k].letter # "?" => m[k].j = PlaceOf(m[k].name, names)
  BY <1>a, <1>5, <1>7 DEF ToSet
<1>9. ASSUME NEW n \in ToSet(names) PROVE \E k \in D : m[k].name = n
  <2>1. PICK q \in D : names[q] = n
    BY DEF ToSet
  <2>2. PICK k \in D : f[k] = q
    BY <1>1 DEF Arranges
  <2>3. m[k].name = names[f[k]]
    BY <1>a, <1>5
  <2> QED BY <2>1, <2>2, <2>3
<1>10. ASSUME NEW i \in D, NEW k \in D, m[i].name = m[k].name PROVE i = k
  <2>1. names[f[i]] = names[f[k]]
    BY <1>a, <1>5, <1>10
  <2>2. f[i] = f[k]
    BY <1>5, <2>1 DEF Distinct
  <2> QED BY <1>1, <2>2 DEF Arranges
<1>11. ASSUME NEW i \in D, NEW k \in D, m[k].letter # "?", m[i].letter = m[k].letter, m[i].j = m[k].j, i <= k
       PROVE  i = k
  <2> DEFINE a == GroupStart(s, i)
             b == GroupStart(s, k)
  <2>1. /\ i \in 1 .. Len(s) /\ k \in 1 .. Len(s) /\ i \in 1 .. k /\ a \in 1 .. i /\ b \in 1 .. k
        /\ Run(s, a, i) /\ Run(s, b, k)
    BY <1>2, <1>3, <1>6, <1>11
  <2>2. LetterOf(s[k]) # "?" /\ LetterOf(s[i]) = LetterOf(s[k]) /\ i + 1 - a = k + 1 - b
    BY <1>a, <1>11
  <2> HIDE DEF a, b, s
  <2>3. \A q \in 1 .. i : LetterOf(s[q]) = LetterOf(s[i]) <=> q >= a
    BY <1>2, <2>1, <2>2, GroupIsLetter
  <2>4. \A q \in 1 .. k : LetterOf(s[q]) = LetterOf(s[k]) <=> q >= b
    BY <1>2, <2>1, <2>2, GroupIsLetter
  <2>5. i >= b /\ a \in 1 .. k /\ a >= b
    <3>1. LetterOf(s[a]) = LetterOf(s[i])
      BY <2>1, <2>3
    <3> QED BY <2>1, <2>2, <2>4, <3>1
  <2>6. b >= a
    <3>1. b \in 1 .. i /\ LetterOf(s[b]) = LetterOf(s[k])
      BY <2>1, <2>4, <2>5
    <3> QED BY <2>2, <2>3, <3>1
  <2> QED BY <1>3, <2>1, <2>2, <2>5, <2>6
<1>12. ASSUME NEW i \in D, NEW k \in D, m[k].letter # "?", m[i].letter = m[k].letter, m[i].j = m[k].j
       PROVE  i = k
  <2>1. CASE i <= k
    BY <1>11, <1>12, <2>1
  <2>2. CASE k <= i
    BY <1>11, <1>12, <2>2
  <2> QED BY <1>3, <2>1, <2>2
<1> HIDE DEF m, D
<1> QED BY <1>3, <1>4, <1>8, <1>9, <1>10, <1>12 DEF ListsGroups, m

-----------------------------------------------------------------------------
(* Versions.                                                                *)

Parsed(t) == t \in DOMAIN Tags /\ Tags[t].nums # <<>>

LexLess(a, b, c, d, w, x, y, z) ==
  \/ a < w
  \/ a = w /\ b < x
  \/ a = w /\ b = x /\ c < y
  \/ a = w /\ b = x /\ c = y /\ d < z

LEMMA NumsAre ==
  ASSUME NEW t, Parsed(t)
  PROVE  /\ Tags[t].nums[1] \in Nat /\ Tags[t].nums[2] \in Nat /\ Tags[t].nums[3] \in Nat
         /\ Tags[t].order \in Nat /\ Tags[t].nums \in Seq(Nat) /\ Len(Tags[t].nums) = 3
<1>1. Tags[t].nums \in Nat \X Nat \X Nat /\ Tags[t].order \in Nat
  BY BenchmarksAssumption DEF Parsed
<1>2. PICK a \in Nat, b \in Nat, c \in Nat : Tags[t].nums = <<a, b, c>>
  BY <1>1
<1> QED BY <1>1, <1>2

LEMMA KeyIs ==
  ASSUME NEW s \in Seq(Nat), Len(s) = 3, NEW o \in Nat
  PROVE  LET p == Append(s, o) IN p[1] = s[1] /\ p[2] = s[2] /\ p[3] = s[3] /\ p[4] = o
<1>1. /\ \A i \in 1 .. Len(s) : Append(s, o)[i] = s[i]
      /\ Append(s, o)[Len(s) + 1] = o
  <2> DEFINE N == Nat
  <2>1. s \in Seq(N) /\ o \in N
    OBVIOUS
  <2> HIDE DEF N
  <2> QED BY ONLY <2>1, AppendProperties
<1>2. 1 \in 1 .. Len(s) /\ 2 \in 1 .. Len(s) /\ 3 \in 1 .. Len(s) /\ Len(s) + 1 = 4
  OBVIOUS
<1> QED BY <1>1, <1>2

LEMMA OlderIs ==
  ASSUME NEW t, NEW u, Parsed(t), Parsed(u)
  PROVE  Older(t, u) <=>
           LexLess(Tags[t].nums[1], Tags[t].nums[2], Tags[t].nums[3], Tags[t].order,
                   Tags[u].nums[1], Tags[u].nums[2], Tags[u].nums[3], Tags[u].order)
<1> DEFINE p == Append(Tags[t].nums, Tags[t].order)
           q == Append(Tags[u].nums, Tags[u].order)
<1>a. \A x \in {t, u} : /\ Tags[x].nums \in Seq(Nat) /\ Len(Tags[x].nums) = 3 /\ Tags[x].order \in Nat
  BY NumsAre
<1>1. /\ p[1] = Tags[t].nums[1] /\ p[2] = Tags[t].nums[2] /\ p[3] = Tags[t].nums[3] /\ p[4] = Tags[t].order
      /\ q[1] = Tags[u].nums[1] /\ q[2] = Tags[u].nums[2] /\ q[3] = Tags[u].nums[3] /\ q[4] = Tags[u].order
  BY <1>a, KeyIs
<1>2. Older(t, u) <=> \E k \in 1 .. 4 : (\A i \in 1 .. k - 1 : p[i] = q[i]) /\ p[k] < q[k]
  BY DEF Older
<1> HIDE DEF p, q
<1>3. ASSUME NEW k \in 1 .. 4, \A i \in 1 .. k - 1 : p[i] = q[i], p[k] < q[k]
      PROVE  LexLess(p[1], p[2], p[3], p[4], q[1], q[2], q[3], q[4])
  <2>1. k = 1 \/ k = 2 \/ k = 3 \/ k = 4
    OBVIOUS
  <2> QED BY <1>3, <2>1 DEF LexLess
<1>4. ASSUME LexLess(p[1], p[2], p[3], p[4], q[1], q[2], q[3], q[4])
      PROVE  \E k \in 1 .. 4 : (\A i \in 1 .. k - 1 : p[i] = q[i]) /\ p[k] < q[k]
  <2>1. CASE p[1] < q[1]
    <3>1. \A i \in 1 .. 1 - 1 : p[i] = q[i]
      OBVIOUS
    <3> QED BY <2>1, <3>1
  <2>2. CASE p[1] = q[1] /\ p[2] < q[2]
    <3>1. \A i \in 1 .. 2 - 1 : p[i] = q[i]
      <4>1. \A i \in 1 .. 2 - 1 : i = 1
        OBVIOUS
      <4> QED BY <2>2, <4>1
    <3> QED BY <2>2, <3>1
  <2>3. CASE p[1] = q[1] /\ p[2] = q[2] /\ p[3] < q[3]
    <3>1. \A i \in 1 .. 3 - 1 : p[i] = q[i]
      <4>1. \A i \in 1 .. 3 - 1 : i = 1 \/ i = 2
        OBVIOUS
      <4> QED BY <2>3, <4>1
    <3> QED BY <2>3, <3>1
  <2>4. CASE p[1] = q[1] /\ p[2] = q[2] /\ p[3] = q[3] /\ p[4] < q[4]
    <3>1. \A i \in 1 .. 4 - 1 : p[i] = q[i]
      <4>1. \A i \in 1 .. 4 - 1 : i = 1 \/ i = 2 \/ i = 3
        OBVIOUS
      <4> QED BY <2>4, <4>1
    <3> QED BY <2>4, <3>1
  <2> QED BY <1>4, <2>1, <2>2, <2>3, <2>4 DEF LexLess
<1>5. Older(t, u) <=> LexLess(p[1], p[2], p[3], p[4], q[1], q[2], q[3], q[4])
  BY <1>2, <1>3, <1>4
<1> QED BY <1>1, <1>5

LEMMA OlderIsStrict ==
  ASSUME NEW F, \A t \in F : Parsed(t)
  PROVE  /\ \A t \in F : ~Older(t, t)
         /\ \A t, u, v \in F : Older(t, u) /\ Older(u, v) => Older(t, v)
         /\ \A t, u \in F : t = u \/ Older(t, u) \/ Older(u, t)
         /\ \A t, u \in F : Older(t, u) => NoNewer(t, u)
<1>1. ASSUME NEW t \in F PROVE ~Older(t, t)
  BY OlderIs, NumsAre DEF LexLess
<1>2. ASSUME NEW t \in F, NEW u \in F, NEW v \in F, Older(t, u), Older(u, v) PROVE Older(t, v)
  <2>1. /\ LexLess(Tags[t].nums[1], Tags[t].nums[2], Tags[t].nums[3], Tags[t].order,
                   Tags[u].nums[1], Tags[u].nums[2], Tags[u].nums[3], Tags[u].order)
        /\ LexLess(Tags[u].nums[1], Tags[u].nums[2], Tags[u].nums[3], Tags[u].order,
                   Tags[v].nums[1], Tags[v].nums[2], Tags[v].nums[3], Tags[v].order)
    BY <1>2, OlderIs
  <2>2. LexLess(Tags[t].nums[1], Tags[t].nums[2], Tags[t].nums[3], Tags[t].order,
                Tags[v].nums[1], Tags[v].nums[2], Tags[v].nums[3], Tags[v].order)
    <3>1. \A x \in {t, u, v} : /\ Tags[x].nums[1] \in Nat /\ Tags[x].nums[2] \in Nat
                               /\ Tags[x].nums[3] \in Nat /\ Tags[x].order \in Nat
      BY NumsAre
    <3> QED BY <2>1, <3>1 DEF LexLess
  <2> QED BY <2>2, OlderIs
<1>3. ASSUME NEW t \in F, NEW u \in F, t # u, ~Older(t, u), ~Older(u, t) PROVE FALSE
  <2>1. /\ ~LexLess(Tags[t].nums[1], Tags[t].nums[2], Tags[t].nums[3], Tags[t].order,
                    Tags[u].nums[1], Tags[u].nums[2], Tags[u].nums[3], Tags[u].order)
        /\ ~LexLess(Tags[u].nums[1], Tags[u].nums[2], Tags[u].nums[3], Tags[u].order,
                    Tags[t].nums[1], Tags[t].nums[2], Tags[t].nums[3], Tags[t].order)
    BY <1>3, OlderIs
  <2>2. Tags[t].order = Tags[u].order
    <3>1. \A x \in {t, u} : /\ Tags[x].nums[1] \in Nat /\ Tags[x].nums[2] \in Nat
                            /\ Tags[x].nums[3] \in Nat /\ Tags[x].order \in Nat
      BY NumsAre
    <3> QED BY <2>1, <3>1 DEF LexLess
  <2> QED BY <1>3, <2>2, BenchmarksAssumption DEF Parsed
<1>4. ASSUME NEW t \in F, NEW u \in F, Older(t, u) PROVE NoNewer(t, u)
  <2>1. LexLess(Tags[t].nums[1], Tags[t].nums[2], Tags[t].nums[3], Tags[t].order,
                Tags[u].nums[1], Tags[u].nums[2], Tags[u].nums[3], Tags[u].order)
    BY <1>4, OlderIs
  <2> QED BY <2>1, NumsAre DEF LexLess, NoNewer
<1> QED BY <1>1, <1>2, <1>3, <1>4

ByAge(all) == \A i, j \in DOMAIN all : i < j => NoNewer(all[i], all[j])

LEMMA OldestFirstIs ==
  ASSUME NEW F \in SUBSET DOMAIN Tags, IsFiniteSet(F), NEW all \in OldestFirst(F)
  PROVE  all \in Seq(F) /\ ToSet(all) = F /\ ByAge(all) /\ Distinct(all)
<1> DEFINE R == {p \in F \X F : Older(p[1], p[2])}
           n == Cardinality(F)
<1>1. /\ \A t \in F : Parsed(t)
      /\ all = InOrder(F, R)
  BY DEF OldestFirst, parseBaseline, Parsed
<1>2. \A t, u \in F : <<t, u>> \in R <=> Older(t, u)
  OBVIOUS
<1> HIDE DEF R
<1>3. StrictOrder(F, R)
  <2>1. \A x \in F : <<x, x>> \notin R
    BY <1>1, <1>2, OlderIsStrict
  <2>2. \A x, y, z \in F : <<x, y>> \in R /\ <<y, z>> \in R => <<x, z>> \in R
    BY <1>1, <1>2, OlderIsStrict
  <2>3. \A x, y \in F : x = y \/ <<x, y>> \in R \/ <<y, x>> \in R
    <3> SUFFICES ASSUME NEW x \in F, NEW y \in F PROVE x = y \/ <<x, y>> \in R \/ <<y, x>> \in R
      OBVIOUS
    <3>1. x = y \/ Older(x, y) \/ Older(y, x)
      BY <1>1, OlderIsStrict
    <3>2. CASE Older(x, y)
      BY <1>2, <3>2
    <3>3. CASE Older(y, x)
      BY <1>2, <3>3
    <3> QED BY <3>1, <3>2, <3>3
  <2> QED BY <2>1, <2>2, <2>3 DEF StrictOrder
<1>4. n \in Nat /\ Lists(all, F, R)
  BY <1>1, <1>3, InOrderLists
<1>5. all \in [1 .. n -> F] /\ DOMAIN all = 1 .. n
  BY <1>4 DEF Lists
<1>6. all \in Seq(F)
  BY <1>4, <1>5
<1>7. ToSet(all) = F
  BY <1>4, <1>5 DEF Lists, ToSet
<1>8. ByAge(all)
  <2> SUFFICES ASSUME NEW i \in 1 .. n, NEW j \in 1 .. n, i < j PROVE NoNewer(all[i], all[j])
    BY <1>5 DEF ByAge
  <2>1. <<all[i], all[j]>> \in R /\ all[i] \in F /\ all[j] \in F
    BY <1>4, <1>5 DEF Lists
  <2>2. Older(all[i], all[j])
    BY <1>2, <2>1
  <2> QED BY <1>1, <2>1, <2>2, OlderIsStrict
<1>9. Distinct(all)
  BY <1>4, <1>5 DEF Lists, Distinct
<1> QED BY <1>6, <1>7, <1>8, <1>9

LEMMA LatestIs ==
  ASSUME NEW F \in SUBSET DOMAIN Tags, NEW t \in Latest(F)
  PROVE  t \in F /\ \A u \in F : NoNewer(u, t)
<1>1. /\ \A u \in F : Parsed(u)
      /\ t \in F /\ \A u \in F \ {t} : Older(u, t)
  BY DEF Latest, parseBaseline, Parsed
<1>2. \A u \in F \ {t} : NoNewer(u, t)
  BY <1>1, OlderIsStrict
<1>3. NoNewer(t, t)
  BY <1>1, NumsAre DEF NoNewer
<1> QED BY <1>1, <1>2, <1>3

(* The suites do the same with their own copies of the shared operators.    *)
LEMMA SuitesShare ==
  ASSUME NEW w, NEW r, NEW F
  PROVE  /\ G!uniqueNames(r) = FirstSeen(r) /\ C!uniqueOperations(r) = FirstSeen(r)
         /\ G!Latest(F) = Latest(F) /\ C!Latest(F) = Latest(F)
         /\ G!OldestFirst(F) = OldestFirst(F) /\ C!OldestFirst(F) = OldestFirst(F)
         /\ G!groupMethodsByLetter(r) = groupMethodsByLetter(r)
         /\ C!groupMethodsByLetter(r) = groupMethodsByLetter(r)
<1>1. G!uniqueNames(r) = FirstSeen(r) /\ C!uniqueOperations(r) = FirstSeen(r)
  BY DEF G!uniqueNames, C!uniqueOperations, G!FirstSeen, C!FirstSeen, FirstSeen, G!Kept, C!Kept, Kept,
         G!InOrder, C!InOrder, InOrder, G!Cardinality, C!Cardinality, Cardinality
<1>2. G!Latest(F) = Latest(F) /\ C!Latest(F) = Latest(F)
  BY DEF G!Latest, C!Latest, Latest, G!parseBaseline, C!parseBaseline, parseBaseline,
         G!Older, C!Older, Older
<1>3. G!OldestFirst(F) = OldestFirst(F) /\ C!OldestFirst(F) = OldestFirst(F)
  BY DEF G!OldestFirst, C!OldestFirst, OldestFirst, G!parseBaseline, C!parseBaseline, parseBaseline,
         G!Older, C!Older, Older, G!InOrder, C!InOrder, InOrder, G!Cardinality, C!Cardinality, Cardinality
<1>4. /\ G!groupMethodsByLetter(r) = groupMethodsByLetter(r)
      /\ C!groupMethodsByLetter(r) = groupMethodsByLetter(r)
  BY DEF G!groupMethodsByLetter, C!groupMethodsByLetter, groupMethodsByLetter, G!Sorted, C!Sorted, Sorted,
         G!InOrder, C!InOrder, InOrder, G!Cardinality, C!Cardinality, Cardinality, G!Precedes, C!Precedes, Precedes, G!Alike, C!Alike, Alike,
         G!LetterOf, C!LetterOf, LetterOf, G!GroupStart, C!GroupStart, GroupStart, G!Max, C!Max, Max
<1> QED BY <1>1, <1>2, <1>3, <1>4

-----------------------------------------------------------------------------
(* What a run reads, as a function of its tool and its disk.                *)

Tools == {"google", "custom"}
Snapshot(t, w, f) ==
  {s.results : s \in {x \in IF f = Live THEN w.live[t] ELSE w[t][f] : x.parses}}
Folders(t, w) == {f \in w.folders : Tags[f].v /\ (t = "google" => w.google[f] # {})}

LEMMA SnapshotIs ==
  ASSUME NEW t \in Tools, NEW w \in Worlds, NEW f \in DOMAIN Tags \cup {Live},
         NEW r \in Snapshot(t, w, f)
  PROVE  /\ r \in Seq(Entry(t)) /\ \A u \in Snapshot(t, w, f) : u = r
         /\ \A x \in Entry(t) : x.name \in Name /\ x.time \in 0 .. MAX_NS
<1> DEFINE file == IF f = Live THEN w.live[t] ELSE w[t][f]
<1>1. IsFile(file, t)
  BY RegressionAssumption DEF Tools
<1>2. \A u \in Snapshot(t, w, f) : \E s \in file : u = s.results
  BY DEF Snapshot
<1>3. \A u \in Snapshot(t, w, f) : u \in Seq(Entry(t)) /\ u = r
  <2> HIDE DEF file
  <2> QED BY <1>1, <1>2 DEF IsFile
<1>4. \A x \in Entry(t) : x.name \in Name /\ x.time \in 0 .. MAX_NS
  BY DEF Entry, Tools, Name
<1> QED BY <1>3, <1>4

LEMMA FoldersAre ==
  ASSUME NEW t \in Tools, NEW w \in Worlds
  PROVE  Folders(t, w) \in SUBSET DOMAIN Tags /\ IsFiniteSet(Folders(t, w))
<1>1. w.folders \subseteq DOMAIN Tags /\ IsFiniteSet(w.folders)
  BY RegressionAssumption
<1>2. Folders(t, w) \subseteq w.folders
  BY DEF Folders
<1> QED BY <1>1, <1>2, FS_Subset

LEMMA Reading ==
  tool \in Tools =>
    /\ \A f : loadResults(f) = Snapshot(tool, world, f)
    /\ \A r : Names(r) = FirstSeen(r)
    /\ OwnFolders = Folders(tool, world)
    /\ \A all \in Baselines : all \in OldestFirst(Folders(tool, world))
    /\ \A f \in latestBaseline : f \in Latest(Folders(tool, world))
<1> SUFFICES ASSUME tool \in Tools
             PROVE  /\ \A f : loadResults(f) = Snapshot(tool, world, f)
                    /\ \A r : Names(r) = FirstSeen(r)
                    /\ OwnFolders = Folders(tool, world)
                    /\ \A all \in Baselines : all \in OldestFirst(Folders(tool, world))
                    /\ \A f \in latestBaseline : f \in Latest(Folders(tool, world))
  OBVIOUS
<1>1. \A f : loadResults(f) = Snapshot(tool, world, f)
  BY DEF loadResults, File, Snapshot
<1>2. \A r : Names(r) = FirstSeen(r)
  BY SuitesShare DEF Names
<1>3. /\ Google => G!OwnFolders(world) = Folders(tool, world)
      /\ ~Google => C!OwnFolders(world) = Folders(tool, world)
  <2>1. CASE Google
    <3>1. G!OwnFolders(world) \subseteq Folders(tool, world)
      BY <2>1 DEF G!OwnFolders, G!isGoogleBaselineName, Folders, Google
    <3>2. Folders(tool, world) \subseteq G!OwnFolders(world)
      BY <2>1 DEF G!OwnFolders, G!isGoogleBaselineName, Folders, Google
    <3> QED BY <2>1, <3>1, <3>2
  <2>2. CASE ~Google
    <3>1. C!OwnFolders(world) \subseteq Folders(tool, world)
      BY <2>2 DEF C!OwnFolders, C!isCustomBaselineName, Folders, Google
    <3>2. Folders(tool, world) \subseteq C!OwnFolders(world)
      BY <2>2 DEF C!OwnFolders, C!isCustomBaselineName, Folders, Google
    <3> QED BY <2>2, <3>1, <3>2
  <2> QED BY <2>1, <2>2
<1>4. OwnFolders = Folders(tool, world)
  BY <1>3 DEF OwnFolders
<1>5. \A all \in Baselines : all \in OldestFirst(Folders(tool, world))
  <2>1. CASE Google
    <3>1. Baselines = IF world.present THEN G!OldestFirst(Folders(tool, world)) ELSE {}
      BY <1>3, <2>1 DEF Baselines, G!printList
    <3> QED BY <3>1, SuitesShare
  <2>2. CASE ~Google
    <3>1. Baselines = IF world.present THEN C!OldestFirst(Folders(tool, world)) ELSE {}
      BY <1>3, <2>2 DEF Baselines, C!printList
    <3> QED BY <3>1, SuitesShare
  <2> QED BY <2>1, <2>2
<1>6. \A f \in latestBaseline : f \in Latest(Folders(tool, world))
  <2>1. CASE Google
    <3>1. latestBaseline = IF world.present THEN G!Latest(Folders(tool, world)) ELSE {}
      BY <1>3, <2>1 DEF latestBaseline, G!latestBaseline
    <3> QED BY <3>1, SuitesShare
  <2>2. CASE ~Google
    <3>1. latestBaseline = IF world.present THEN C!Latest(Folders(tool, world)) ELSE {}
      BY <1>3, <2>2 DEF latestBaseline, C!latestBaseline
    <3> QED BY <3>1, SuitesShare
  <2> QED BY <2>1, <2>2
<1> QED BY <1>1, <1>2, <1>4, <1>5, <1>6

LEMMA IdsAre ==
  ASSUME NEW t \in Tools, NEW w \in Worlds, NEW f \in DOMAIN Tags \cup {Live},
         NEW r \in Snapshot(t, w, f)
  PROVE  /\ FirstSeen(r) \in Seq(Name) /\ Distinct(FirstSeen(r))
         /\ ToSet(FirstSeen(r)) = {e.name : e \in ToSet(r)}
         /\ ListsGroups(groupMethodsByLetter(FirstSeen(r)), FirstSeen(r))
<1>1. r \in Seq(Entry(t)) /\ \A x \in Entry(t) : x.name \in Name
  BY SnapshotIs
<1>2. /\ FirstSeen(r) \in Seq(Name) /\ Distinct(FirstSeen(r))
      /\ ToSet(FirstSeen(r)) = {e.name : e \in ToSet(r)}
  BY <1>1, FirstSeenIs
<1> QED BY <1>2, GroupsAre

-----------------------------------------------------------------------------
(* The commands list and methods.                                           *)

ListWords(a) == a = << <<"list">> >>
HelpWords(a) == Len(a) = 1 /\ a[1] \in Help
MethodWords(a) == a # <<>> /\ Len(a) <= 2 /\ a[1] = <<"methods">>
Comparing(a) == ~ListWords(a) /\ ~HelpWords(a) /\ ~MethodWords(a)

ComparisonPhases == {"resolve", "load", "print", "summary", "json", "md"}

Ids(r) == groupMethodsByLetter(FirstSeen(r))

EveryVersion(a) == Len(a) = 2 => a[2] = <<>>
Listed(a, own, lst) == IF EveryVersion(a) THEN ToSet(lst) = own ELSE lst = a[2]

(* An id on the screen is one of a baseline that is done with; and those of *)
(* such a baseline are all there, each once.                                *)
Shown(t, w, lst, p, shown) ==
  /\ \A k \in DOMAIN shown : \E q \in DOMAIN lst :
       /\ q < p /\ shown[k].of = lst[q]
       /\ \E r \in Snapshot(t, w, lst[q]) : \E i \in DOMAIN Ids(r) : shown[k].id = Ids(r)[i]
  /\ \A i, k \in DOMAIN shown :
       shown[i].of = shown[k].of /\ shown[i].id.name = shown[k].id.name => i = k
AllShown(t, w, lst, p, shown) ==
  \A q \in DOMAIN lst : q < p =>
    \A r \in Snapshot(t, w, lst[q]) : \A i \in DOMAIN Ids(r) :
      \E k \in DOMAIN shown : shown[k].of = lst[q] /\ shown[k].id = Ids(r)[i]

ListingInv(t, w, a, ph, ex, p, lst, shown) ==
  /\ lst \in Seq(DOMAIN Tags) /\ ByAge(lst) /\ Distinct(lst)
  /\ shown \in Seq(ToSet(shown)) /\ p \in Nat \ {0}
  /\ Shown(t, w, lst, p, shown) /\ AllShown(t, w, lst, p, shown)
  /\ ph # "done" => ex = -1
  /\ ph = "args" => p = 1 /\ lst = <<>> /\ shown = <<>>
  /\ ph = "methods" => MethodWords(a) /\ Listed(a, Folders(t, w), lst) /\ p <= Len(lst) + 1
  /\ ph \in ComparisonPhases => Comparing(a) /\ lst = <<>> /\ shown = <<>>
  /\ ph = "done" /\ ex = 0 /\ (ListWords(a) \/ MethodWords(a)) => Listed(a, Folders(t, w), lst)
  /\ ph = "done" /\ ex = 0 /\ MethodWords(a) => p = Len(lst) + 1

LEMMA ListingStarts ==
  ASSUME NEW t, NEW w, NEW a
  PROVE  ListingInv(t, w, a, "args", -1, 1, <<>>, <<>>)
<1>1. <<>> \in Seq(DOMAIN Tags) /\ ByAge(<<>>) /\ Distinct(<<>>) /\ <<>> \in Seq(ToSet(<<>>))
  BY DEF ByAge, Distinct
<1>2. Shown(t, w, <<>>, 1, <<>>) /\ AllShown(t, w, <<>>, 1, <<>>)
  BY DEF Shown, AllShown
<1> QED BY <1>1, <1>2 DEF ListingInv, ComparisonPhases

(* A step that shows nothing.                                               *)
LEMMA ListingStays ==
  ASSUME NEW t, NEW w, NEW a, NEW ph, NEW ex, NEW p, NEW lst, NEW shown,
         ListingInv(t, w, a, ph, ex, p, lst, shown)
  PROVE  /\ ListingInv(t, w, a, "done", 1, p, lst, shown)
         /\ \A ph2 \in ComparisonPhases, p2 \in Nat \ {0} :
              Comparing(a) /\ ph \in ComparisonPhases \cup {"args"}
                => ListingInv(t, w, a, ph2, -1, p2, lst, shown)
         /\ Comparing(a) \/ HelpWords(a) => ListingInv(t, w, a, "done", 0, p, lst, shown)
<1>1. ListingInv(t, w, a, "done", 1, p, lst, shown)
  BY DEF ListingInv, ComparisonPhases
<1>2. ASSUME NEW ph2 \in ComparisonPhases, NEW p2 \in Nat \ {0},
             Comparing(a), ph \in ComparisonPhases \cup {"args"}
      PROVE  ListingInv(t, w, a, ph2, -1, p2, lst, shown)
  <2>1. lst = <<>> /\ shown = <<>>
    BY <1>2 DEF ListingInv
  <2>2. ListingInv(t, w, a, "args", -1, 1, <<>>, <<>>)
    BY ListingStarts
  <2>3. Shown(t, w, <<>>, p2, <<>>) /\ AllShown(t, w, <<>>, p2, <<>>)
    BY DEF Shown, AllShown
  <2> QED BY <1>2, <2>1, <2>2, <2>3 DEF ListingInv, ComparisonPhases
<1>3. ASSUME Comparing(a) \/ HelpWords(a) PROVE ~ListWords(a) /\ ~MethodWords(a)
  <2>1. CASE Comparing(a)
    BY <2>1 DEF Comparing
  <2>2. CASE HelpWords(a)
    <3>1. a[1] # <<"list">> /\ a[1] # <<"methods">>
      <4>1. <<"list">> \notin Help /\ <<"methods">> \notin Help
        BY DEF Help
      <4> QED BY <2>2, <4>1 DEF HelpWords
    <3>2. a # << <<"list">> >>
      BY <3>1
    <3> QED BY <3>1, <3>2 DEF ListWords, MethodWords
  <2> QED BY <1>3, <2>1, <2>2
<1>4. ASSUME Comparing(a) \/ HelpWords(a) PROVE ListingInv(t, w, a, "done", 0, p, lst, shown)
  <2> HIDE DEF Shown, AllShown
  <2> QED BY <1>3, <1>4 DEF ListingInv, ComparisonPhases
<1> QED BY <1>1, <1>2, <1>4

LEMMA ListingListed ==
  ASSUME NEW t \in Tools, NEW w \in Worlds, NEW a, ListWords(a),
         NEW all \in OldestFirst(Folders(t, w)), NEW ex, NEW lst, NEW p, NEW shown,
         ListingInv(t, w, a, "args", ex, p, lst, shown)
  PROVE  ListingInv(t, w, a, "done", 0, p, all, shown)
<1>1. /\ all \in Seq(Folders(t, w)) /\ ToSet(all) = Folders(t, w) /\ ByAge(all) /\ Distinct(all)
      /\ Folders(t, w) \in SUBSET DOMAIN Tags
  BY FoldersAre, OldestFirstIs
<1>2. all \in Seq(DOMAIN Tags)
  BY <1>1
<1>3. p = 1 /\ shown = <<>> /\ shown \in Seq(ToSet(shown))
  BY DEF ListingInv
<1>4. Shown(t, w, all, p, shown) /\ AllShown(t, w, all, p, shown)
  <2>1. \A q \in DOMAIN all : ~(q < 1)
    BY <1>2
  <2> QED BY <1>3, <2>1 DEF Shown, AllShown
<1>5. EveryVersion(a) /\ ~MethodWords(a)
  BY DEF ListWords, MethodWords, EveryVersion
<1> QED BY <1>1, <1>2, <1>3, <1>4, <1>5 DEF ListingInv, Listed, ComparisonPhases

LEMMA ListingBegins ==
  ASSUME NEW t \in Tools, NEW w \in Worlds, NEW a \in Argvs, MethodWords(a),
         NEW all \in OldestFirst(Folders(t, w)), NEW ex, NEW lst, NEW p, NEW shown,
         ListingInv(t, w, a, "args", ex, p, lst, shown), NEW new,
         new = IF EveryVersion(a) THEN all ELSE Kept(all, {k \in DOMAIN all : <<all[k]>> = a[2]}),
         EveryVersion(a) \/ new # <<>>
  PROVE  ListingInv(t, w, a, "methods", -1, p, new, shown)
<1>1. /\ all \in Seq(Folders(t, w)) /\ ToSet(all) = Folders(t, w) /\ ByAge(all) /\ Distinct(all)
      /\ Folders(t, w) \in SUBSET DOMAIN Tags
  BY FoldersAre, OldestFirstIs
<1>2. all \in Seq(DOMAIN Tags)
  BY <1>1
<1>3. p = 1 /\ shown = <<>> /\ shown \in Seq(ToSet(shown))
  BY DEF ListingInv
<1>5. new \in Seq(DOMAIN Tags) /\ ByAge(new) /\ Distinct(new) /\ Listed(a, Folders(t, w), new)
  <2>1. CASE EveryVersion(a)
    BY <1>1, <1>2, <2>1 DEF Listed
  <2>2. CASE ~EveryVersion(a)
    <3> DEFINE I == {k \in DOMAIN all : <<all[k]>> = a[2]}
    <3>1. I \in SUBSET DOMAIN all /\ new = Kept(all, I) /\ new # <<>>
      BY <2>2
    <3>2. \A k \in I : k \in DOMAIN all /\ <<all[k]>> = a[2]
      OBVIOUS
    <3>3. \A i, k \in I : i = k
      BY <1>1, <3>2 DEF Distinct
    <3> HIDE DEF I
    <3>a. /\ Kept(all, I) \in Seq(DOMAIN Tags) /\ Len(Kept(all, I)) = Cardinality(I)
          /\ \E f : /\ Picks(f, Cardinality(I), I)
                    /\ Kept(all, I) = [k \in 1 .. Cardinality(I) |-> all[f[k]]]
      BY <1>2, <3>1, KeptIs
    <3>b. PICK f : /\ Picks(f, Cardinality(I), I)
                   /\ Kept(all, I) = [k \in 1 .. Cardinality(I) |-> all[f[k]]]
      BY <3>a
    <3>4. /\ Picks(f, Cardinality(I), I) /\ new = [k \in 1 .. Cardinality(I) |-> all[f[k]]]
          /\ new \in Seq(DOMAIN Tags) /\ Len(new) = Cardinality(I)
      BY <3>1, <3>a, <3>b
    <3>5. Cardinality(I) = 1
      <4>1. I # {}
        <5> SUFFICES ASSUME I = {} PROVE FALSE
          OBVIOUS
        <5>1. Cardinality(I) = 0
          BY FS_EmptySet
        <5> QED BY <3>1, <3>4, <5>1
      <4>2. PICK i \in I : I = {i}
        BY <3>3, <4>1
      <4> QED BY <4>2, FS_Singleton
    <3>6. new = <<all[f[1]]>> /\ f[1] \in I
      <4>1. 1 \in 1 .. Cardinality(I) /\ f[1] \in I
        BY <3>4, <3>5 DEF Picks
      <4>2. new = [k \in 1 .. 1 |-> all[f[k]]]
        BY <3>4, <3>5
      <4>3. new[1] = all[f[1]] /\ Len(new) = 1
        BY <3>4, <3>5, <4>2
      <4> DEFINE x == all[f[1]]
      <4>4. new \in Seq(DOMAIN Tags) /\ Len(new) = 1 /\ new[1] = x
        BY <3>4, <4>3
      <4> HIDE DEF x
      <4>5. new = <<x>>
        BY ONLY <4>4
      <4> QED BY <4>1, <4>5 DEF x
    <3>7. new = a[2]
      BY <3>2, <3>6
    <3>8. ByAge(new) /\ Distinct(new)
      <4>1. \A i, j \in DOMAIN new : i = j /\ ~(i < j)
        BY <3>4, <3>5
      <4> QED BY <4>1 DEF ByAge, Distinct
    <3> QED BY <2>2, <3>4, <3>7, <3>8 DEF Listed
  <2> QED BY <2>1, <2>2
<1>6. Shown(t, w, new, p, shown) /\ AllShown(t, w, new, p, shown)
  <2>1. \A q \in DOMAIN new : ~(q < 1)
    BY <1>5
  <2> QED BY <1>3, <2>1 DEF Shown, AllShown
<1>7. p <= Len(new) + 1 /\ p \in Nat \ {0}
  BY <1>3, <1>5
<1> HIDE DEF MethodWords
<1> QED BY <1>3, <1>5, <1>6, <1>7 DEF ListingInv, ComparisonPhases

(* s followed by v.                                                         *)
Joins(s, v, u) ==
  /\ u \in Seq(ToSet(u)) /\ DOMAIN u = 1 .. Len(s) + Len(v) /\ Len(s) \in Nat
  /\ \A k \in 1 .. Len(s) : u[k] = s[k]
  /\ \A k \in 1 .. Len(v) : Len(s) + k \in DOMAIN u /\ u[Len(s) + k] = v[k]
  /\ \A k \in DOMAIN u :
       k \in 1 .. Len(s) \/ (k - Len(s) \in 1 .. Len(v) /\ u[k] = v[k - Len(s)])

LEMMA Joined ==
  ASSUME NEW s, s \in Seq(ToSet(s)), NEW v, v \in Seq(ToSet(v)), NEW u, u = s \o v
  PROVE  Joins(s, v, u)
<1> DEFINE X == ToSet(s) \cup ToSet(v)
<1>1. s \in Seq(X) /\ v \in Seq(X) /\ Len(v) \in Nat /\ Len(s) \in Nat
  OBVIOUS
<1> HIDE DEF X
<1>2. /\ u \in Seq(X) /\ Len(u) = Len(s) + Len(v)
      /\ \A k \in 1 .. Len(s) : u[k] = s[k]
      /\ \A k \in 1 .. Len(v) : u[Len(s) + k] = v[k]
  BY <1>1
<1>3. DOMAIN u = 1 .. Len(s) + Len(v)
  BY <1>1, <1>2
<1>4. u \in Seq(ToSet(u))
  <2>1. Len(u) \in Nat /\ DOMAIN u = 1 .. Len(u)
    BY <1>2
  <2>2. \A k \in 1 .. Len(u) : u[k] \in ToSet(u)
    BY ONLY <2>1 DEF ToSet
  <2>3. u = [k \in 1 .. Len(u) |-> u[k]] /\ Len(u) \in Nat
    <3>1. u \in Seq(X)
      BY <1>2
    <3> QED BY ONLY <3>1
  <2> QED BY ONLY <2>2, <2>3
<1>5. \A k \in 1 .. Len(v) : Len(s) + k \in DOMAIN u /\ u[Len(s) + k] = v[k]
  BY <1>1, <1>2, <1>3
<1>6. ASSUME NEW k \in DOMAIN u, k \notin 1 .. Len(s)
      PROVE  k - Len(s) \in 1 .. Len(v) /\ u[k] = v[k - Len(s)]
  <2>1. k - Len(s) \in 1 .. Len(v) /\ Len(s) + (k - Len(s)) = k
    BY <1>1, <1>3, <1>6
  <2> QED BY <1>5, <2>1
<1> QED BY <1>1, <1>2, <1>3, <1>4, <1>5, <1>6 DEF Joins

LEMMA ListingGrows ==
  ASSUME NEW t \in Tools, NEW w \in Worlds, NEW a, NEW ex, NEW lst, NEW p, NEW shown,
         ListingInv(t, w, a, "methods", ex, p, lst, shown), p \in DOMAIN lst,
         NEW r \in Snapshot(t, w, lst[p])
  PROVE  ListingInv(t, w, a, "methods", -1, p + 1, lst,
                    shown \o [k \in DOMAIN Ids(r) |-> [of |-> lst[p], id |-> Ids(r)[k]]])
<1> DEFINE names == FirstSeen(r)
           m == Ids(r)
           n == Len(names)
           g == [k \in 1 .. n |-> [of |-> lst[p], id |-> m[k]]]
           u == shown \o [k \in DOMAIN m |-> [of |-> lst[p], id |-> m[k]]]
           v2 == [k \in 1 .. n |-> g[k]]
           u2 == shown \o v2
<1>1. /\ lst \in Seq(DOMAIN Tags) /\ Distinct(lst) /\ shown \in Seq(ToSet(shown)) /\ p \in Nat \ {0}
      /\ Shown(t, w, lst, p, shown) /\ AllShown(t, w, lst, p, shown) /\ p <= Len(lst)
      /\ ByAge(lst) /\ MethodWords(a) /\ Listed(a, Folders(t, w), lst)
  BY DEF ListingInv
<1>2. lst[p] \in DOMAIN Tags \cup {Live}
  BY <1>1
<1>3. names \in Seq(Name) /\ ListsGroups(m, names) /\ \A v \in Snapshot(t, w, lst[p]) : v = r
  BY <1>2, IdsAre, SnapshotIs DEF Ids
<1>4. n \in Nat /\ DOMAIN m = 1 .. n /\ \A i, k \in 1 .. n : m[i].name = m[k].name => i = k
  BY <1>3 DEF ListsGroups
<1>5. u = u2
  BY <1>4
<1>6. \A k \in 1 .. n : g[k].of = lst[p] /\ g[k].id = m[k]
  OBVIOUS
<1> HIDE DEF g
<1>7. /\ u2 \in Seq(ToSet(u2)) /\ DOMAIN u2 = 1 .. Len(shown) + n /\ Len(shown) \in Nat
      /\ \A k \in 1 .. Len(shown) : u2[k] = shown[k]
      /\ \A k \in 1 .. n : Len(shown) + k \in DOMAIN u2 /\ u2[Len(shown) + k] = g[k]
      /\ \A k \in DOMAIN u2 : k \in 1 .. Len(shown) \/ (k - Len(shown) \in 1 .. n /\ u2[k] = g[k - Len(shown)])
  <2> HIDE DEF m, n, u
  <2>1. v2 \in Seq(ToSet(v2)) /\ Len(v2) = n /\ \A k \in 1 .. n : v2[k] = g[k]
    <3> DEFINE Y == {g[k] : k \in 1 .. n}
    <3>1. \A k \in 1 .. n : g[k] \in Y
      OBVIOUS
    <3>2. n \in Nat /\ DOMAIN v2 = 1 .. n /\ \A k \in 1 .. n : v2[k] = g[k]
      BY <1>4
    <3>3. v2 \in Seq(Y) /\ Len(v2) = n
      <4> HIDE DEF Y
      <4> QED BY <3>1, <1>4
    <3>4. ToSet(v2) = Y
      BY <3>2 DEF ToSet
    <3> QED BY <3>2, <3>3, <3>4
  <2>2. shown \in Seq(ToSet(shown)) /\ u2 = shown \o v2
    BY <1>1
  <2> HIDE DEF v2, u2
  <2>3. Joins(shown, v2, u2)
    BY ONLY <2>1, <2>2, Joined
  <2> QED BY <2>1, <2>3 DEF Joins
<1> HIDE DEF u2, u, m, n, names
<1>8. DOMAIN shown = 1 .. Len(shown)
  BY <1>1
<1>9. \A k \in DOMAIN u2 :
        \/ k \in DOMAIN shown /\ u2[k] = shown[k]
        \/ k - Len(shown) \in 1 .. n /\ u2[k].of = lst[p] /\ u2[k].id = m[k - Len(shown)]
  BY <1>6, <1>7, <1>8
<1>10. Shown(t, w, lst, p + 1, u2)
  <2>1. ASSUME NEW k \in DOMAIN u2
        PROVE  \E q \in DOMAIN lst :
                 /\ q < p + 1 /\ u2[k].of = lst[q]
                 /\ \E v \in Snapshot(t, w, lst[q]) : \E i \in DOMAIN Ids(v) : u2[k].id = Ids(v)[i]
    <3>1. CASE k \in DOMAIN shown /\ u2[k] = shown[k]
      <4>1. PICK q \in DOMAIN lst :
               /\ q < p /\ shown[k].of = lst[q]
               /\ \E v \in Snapshot(t, w, lst[q]) : \E i \in DOMAIN Ids(v) : shown[k].id = Ids(v)[i]
        BY <1>1, <3>1 DEF Shown
      <4>2. q < p + 1
        BY <1>1, <4>1
      <4> QED BY <3>1, <4>1, <4>2
    <3>2. CASE k - Len(shown) \in 1 .. n /\ u2[k].of = lst[p] /\ u2[k].id = m[k - Len(shown)]
      <4>1. p < p + 1
        BY <1>1
      <4> QED BY <1>4, <3>2, <4>1 DEF m
    <3> QED BY <1>9, <3>1, <3>2
  <2>2. ASSUME NEW i \in DOMAIN u2, NEW k \in DOMAIN u2, u2[i].of = u2[k].of,
               u2[i].id.name = u2[k].id.name
        PROVE  i = k
    <3>1. \A j \in DOMAIN shown : shown[j].of # lst[p]
      <4> SUFFICES ASSUME NEW j \in DOMAIN shown, shown[j].of = lst[p] PROVE FALSE
        OBVIOUS
      <4>1. PICK q \in DOMAIN lst : q < p /\ shown[j].of = lst[q]
        BY <1>1 DEF Shown
      <4>2. q = p
        BY <1>1, <4>1 DEF Distinct
      <4> QED BY <1>1, <4>1, <4>2
    <3>2. CASE i \in DOMAIN shown /\ u2[i] = shown[i]
      <4>1. k \in DOMAIN shown /\ u2[k] = shown[k]
        BY <1>9, <2>2, <3>1, <3>2
      <4> QED BY <1>1, <2>2, <3>2, <4>1 DEF Shown
    <3>3. CASE i - Len(shown) \in 1 .. n /\ u2[i].of = lst[p] /\ u2[i].id = m[i - Len(shown)]
      <4>1. k - Len(shown) \in 1 .. n /\ u2[k].id = m[k - Len(shown)]
        BY <1>9, <2>2, <3>1, <3>3
      <4>2. i - Len(shown) = k - Len(shown)
        BY <1>4, <2>2, <3>3, <4>1
      <4>3. i \in Nat /\ k \in Nat
        BY <1>7
      <4> QED BY <1>7, <4>2, <4>3
    <3> QED BY <1>9, <3>2, <3>3
  <2> QED BY <2>1, <2>2 DEF Shown
<1>11. AllShown(t, w, lst, p + 1, u2)
  <2> SUFFICES ASSUME NEW q \in DOMAIN lst, q < p + 1, NEW v \in Snapshot(t, w, lst[q]),
                      NEW i \in DOMAIN Ids(v)
               PROVE  \E k \in DOMAIN u2 : u2[k].of = lst[q] /\ u2[k].id = Ids(v)[i]
    BY DEF AllShown
  <2>1. CASE q < p
    <3>1. PICK k \in DOMAIN shown : shown[k].of = lst[q] /\ shown[k].id = Ids(v)[i]
      BY <1>1, <2>1 DEF AllShown
    <3>2. k \in DOMAIN u2 /\ u2[k] = shown[k]
      BY <1>4, <1>7, <1>8
    <3> QED BY <3>1, <3>2
  <2>2. CASE q = p
    <3>1. v = r /\ i \in 1 .. n
      BY <1>3, <1>4, <2>2 DEF m
    <3>2. Len(shown) + i \in DOMAIN u2 /\ u2[Len(shown) + i] = g[i]
      BY <1>7, <3>1
    <3> QED BY <1>6, <2>2, <3>1, <3>2 DEF m
  <2>3. q \in Nat
    BY <1>1
  <2> QED BY <1>1, <2>1, <2>2, <2>3
<1>12. ListingInv(t, w, a, "methods", -1, p + 1, lst, u2)
  <2>1. p + 1 \in Nat \ {0} /\ p + 1 <= Len(lst) + 1
    BY <1>1
  <2> QED BY <1>1, <1>7, <1>10, <1>11, <2>1 DEF ListingInv, ComparisonPhases
<1> QED BY <1>5, <1>12 DEF u, m

LEMMA ListingEnds ==
  ASSUME NEW t, NEW w, NEW a, NEW ex, NEW lst, NEW p, NEW shown,
         ListingInv(t, w, a, "methods", ex, p, lst, shown), p \notin DOMAIN lst
  PROVE  ListingInv(t, w, a, "done", 0, p, lst, shown)
<1>1. lst \in Seq(DOMAIN Tags) /\ p \in Nat \ {0} /\ p <= Len(lst) + 1
  BY DEF ListingInv
<1>2. p = Len(lst) + 1
  BY <1>1
<1> HIDE DEF MethodWords, ListWords, Listed
<1> QED BY <1>2 DEF ListingInv, ComparisonPhases

LInv ==
  /\ tool \in Tools /\ argv \in Argvs /\ world \in Worlds
  /\ ListingInv(tool, world, argv, phase, exit, pos, listing, ids)

LEMMA Commands ==
  /\ IsList <=> ListWords(argv)
  /\ IsHelp <=> HelpWords(argv)
  /\ IsMethods <=> MethodWords(argv)
  /\ IsComparison <=> Comparing(argv)
<1>1. (IsList <=> ListWords(argv)) /\ (IsHelp <=> HelpWords(argv)) /\ (IsMethods <=> MethodWords(argv))
  BY DEF IsList, ListWords, IsHelp, HelpWords, IsMethods, MethodWords
<1>2. ASSUME IsComparison PROVE Comparing(argv)
  BY <1>1, <1>2 DEF IsComparison, Comparing
<1>3. ASSUME Comparing(argv) PROVE IsComparison
  BY <1>1, <1>3 DEF IsComparison, Comparing
<1> QED BY <1>1, <1>2, <1>3

LEMMA LInvStays ==
  ASSUME LInv, UNCHANGED <<inputs, listing, ids>>
  PROVE  /\ Throw => LInv'
         /\ phase \in ComparisonPhases \cup {"args"} /\ IsComparison /\ phase' \in ComparisonPhases
            /\ exit' = exit /\ phase # "done" /\ pos' \in Nat \ {0} => LInv'
         /\ (IsComparison \/ IsHelp) /\ phase' = "done" /\ exit' = 0 /\ pos' = pos => LInv'
<1>1. /\ tool' \in Tools /\ argv' \in Argvs /\ world' \in Worlds
      /\ tool' = tool /\ argv' = argv /\ world' = world /\ listing' = listing /\ ids' = ids
  BY DEF LInv, inputs
<1>2. ListingInv(tool, world, argv, phase, exit, pos, listing, ids)
  BY DEF LInv
<1>3. ASSUME Throw PROVE LInv'
  <2>1. phase' = "done" /\ exit' = 1 /\ pos' = pos
    BY <1>3 DEF Throw
  <2>2. ListingInv(tool, world, argv, "done", 1, pos, listing, ids)
    BY <1>2, ListingStays
  <2> QED BY <1>1, <2>1, <2>2 DEF LInv
<1>4. ASSUME phase \in ComparisonPhases \cup {"args"}, IsComparison, phase' \in ComparisonPhases,
             exit' = exit, phase # "done", pos' \in Nat \ {0}
      PROVE  LInv'
  <2>1. exit' = -1
    BY <1>2, <1>4 DEF ListingInv
  <2>2. ListingInv(tool, world, argv, phase', -1, pos', listing, ids)
    BY <1>2, <1>4, Commands, ListingStays
  <2> QED BY <1>1, <2>1, <2>2 DEF LInv
<1>5. ASSUME IsComparison \/ IsHelp, phase' = "done", exit' = 0, pos' = pos PROVE LInv'
  <2>1. ListingInv(tool, world, argv, "done", 0, pos, listing, ids)
    BY <1>2, <1>5, Commands, ListingStays
  <2> QED BY <1>1, <1>5, <2>1 DEF LInv
<1> QED BY <1>3, <1>4, <1>5

LEMMA LInvStarts == Init => LInv
<1> SUFFICES ASSUME Init PROVE LInv
  OBVIOUS
<1>1. /\ phase = "args" /\ exit = -1 /\ pos = 1 /\ listing = <<>> /\ ids = <<>>
      /\ tool \in Tools /\ argv \in Argvs /\ world \in Worlds
  BY DEF Init, Tools
<1>2. ListingInv(tool, world, argv, "args", -1, 1, <<>>, <<>>)
  BY ListingStarts
<1> QED BY <1>1, <1>2 DEF LInv

LEMMA LInvSteps == LInv /\ [Next]_vars => LInv'
<1> SUFFICES ASSUME LInv, [Next]_vars PROVE LInv'
  OBVIOUS
<1>1. /\ tool \in Tools /\ argv \in Argvs /\ world \in Worlds
      /\ ListingInv(tool, world, argv, phase, exit, pos, listing, ids)
      /\ pos \in Nat \ {0}
  BY DEF LInv, ListingInv
<1>a. \A f : loadResults(f) = Snapshot(tool, world, f)
  BY <1>1, Reading
<1>b. \A all \in Baselines : all \in OldestFirst(Folders(tool, world))
  BY <1>1, Reading
<1>c. phase \in ComparisonPhases => IsComparison
  BY <1>1, Commands DEF ListingInv
<1>2. ASSUME printUsage PROVE LInv'
  <2>1. /\ UNCHANGED <<inputs, listing, ids>> /\ IsHelp /\ phase' = "done" /\ exit' = 0 /\ pos' = pos
    BY <1>2 DEF printUsage, Return
  <2> QED BY <2>1, LInvStays
<1>3. ASSUME printList PROVE LInv'
  <2>1. /\ UNCHANGED inputs /\ phase = "args" /\ phase' = "done" /\ exit' = 0
        /\ pos' = pos /\ ids' = ids /\ ListWords(argv) /\ listing' \in OldestFirst(Folders(tool, world))
    BY <1>3, <1>b, Commands DEF printList, Return
  <2>2. ListingInv(tool, world, argv, "done", 0, pos, listing', ids)
    BY <1>1, <2>1, ListingListed
  <2> QED BY <1>1, <2>1, <2>2 DEF LInv, inputs
<1>4. ASSUME ListThrows PROVE LInv'
  <2>1. UNCHANGED <<inputs, listing, ids>> /\ Throw
    BY <1>4 DEF ListThrows, Throw
  <2> QED BY <2>1, LInvStays
<1>5. ASSUME MethodsBegin PROVE LInv'
  <2>1. /\ UNCHANGED inputs /\ phase = "args" /\ phase' = "methods" /\ exit' = exit
        /\ pos' = pos /\ ids' = ids /\ MethodWords(argv) /\ (EveryVersion(argv) \/ listing' # <<>>)
    BY <1>5, Commands DEF MethodsBegin, AnyVersion, EveryVersion
  <2>2. PICK all \in OldestFirst(Folders(tool, world)) :
           listing' = IF EveryVersion(argv) THEN all
                      ELSE Kept(all, {k \in DOMAIN all : <<all[k]>> = argv[2]})
    BY <1>5, <1>b DEF MethodsBegin, AnyVersion, EveryVersion
  <2>3. ListingInv(tool, world, argv, "methods", -1, pos, listing', ids)
    BY <1>1, <2>1, <2>2, ListingBegins
  <2>4. exit = -1
    BY <1>1, <2>1 DEF ListingInv
  <2> QED BY <1>1, <2>1, <2>3, <2>4 DEF LInv, inputs
<1>6. ASSUME MethodsUnknown PROVE LInv'
  <2>1. UNCHANGED <<inputs, listing, ids>> /\ Throw
    BY <1>6 DEF MethodsUnknown, Throw
  <2> QED BY <2>1, LInvStays
<1>7. ASSUME MethodsOfBaseline PROVE LInv'
  <2>1. /\ UNCHANGED inputs /\ phase = "methods" /\ phase' = "methods" /\ exit' = exit
        /\ pos' = pos + 1 /\ listing' = listing /\ pos \in DOMAIN listing
    BY <1>7 DEF MethodsOfBaseline
  <2>2. PICK r \in Snapshot(tool, world, listing[pos]) :
           ids' = ids \o [k \in DOMAIN Ids(r) |-> [of |-> listing[pos], id |-> Ids(r)[k]]]
    <3>1. \A r : G!printMethods(r) = Ids(r) /\ C!printMethods(r) = Ids(r)
      BY SuitesShare DEF G!printMethods, C!printMethods, Ids
    <3>2. PICK r \in Snapshot(tool, world, listing[pos]) :
             LET printed == IF Google THEN G!printMethods(r) ELSE C!printMethods(r) IN
               ids' = ids \o [k \in DOMAIN printed |-> [of |-> listing[pos], id |-> printed[k]]]
      BY <1>7, <1>a DEF MethodsOfBaseline
    <3>3. (IF Google THEN G!printMethods(r) ELSE C!printMethods(r)) = Ids(r)
      BY <3>1
    <3> QED BY <3>2, <3>3
  <2>3. ListingInv(tool, world, argv, "methods", -1, pos + 1, listing, ids')
    BY <1>1, <2>1, <2>2, ListingGrows
  <2>4. exit = -1
    BY <1>1, <2>1 DEF ListingInv
  <2> QED BY <1>1, <2>1, <2>3, <2>4 DEF LInv, inputs
<1>8. ASSUME MethodsLoadFails PROVE LInv'
  <2>1. UNCHANGED <<inputs, listing, ids>> /\ Throw
    BY <1>8 DEF MethodsLoadFails, Throw
  <2> QED BY <2>1, LInvStays
<1>9. ASSUME MethodsEnd PROVE LInv'
  <2>1. /\ UNCHANGED inputs /\ phase = "methods" /\ phase' = "done" /\ exit' = 0
        /\ pos' = pos /\ listing' = listing /\ ids' = ids /\ pos \notin DOMAIN listing
    BY <1>9 DEF MethodsEnd, Return
  <2>2. ListingInv(tool, world, argv, "done", 0, pos, listing, ids)
    BY <1>1, <2>1, ListingEnds
  <2> QED BY <1>1, <2>1, <2>2 DEF LInv, inputs
<1>10. ASSUME ChooseFiles PROVE LInv'
  <2>1. /\ UNCHANGED <<inputs, listing, ids>> /\ phase = "args" /\ IsComparison
        /\ phase' = "resolve" /\ exit' = exit /\ pos' = pos
    BY <1>10 DEF ChooseFiles
  <2> QED BY <1>1, <2>1, LInvStays DEF ComparisonPhases
<1>11. ASSUME NoBaseline \/ ResolveThrows \/ LoadThrows PROVE LInv'
  <2>1. UNCHANGED <<inputs, listing, ids>> /\ Throw
    BY <1>11 DEF NoBaseline, ResolveThrows, LoadThrows, Throw
  <2> QED BY <2>1, LInvStays
<1>12. ASSUME Resolve PROVE LInv'
  <2>1. /\ UNCHANGED <<inputs, listing, ids>> /\ phase = "resolve"
        /\ phase' = "load" /\ exit' = exit /\ pos' = pos
    BY <1>12 DEF Resolve
  <2> QED BY <1>1, <1>c, <2>1, LInvStays DEF ComparisonPhases
<1>13. ASSUME Load PROVE LInv'
  <2>1. /\ UNCHANGED <<inputs, listing, ids>> /\ phase = "load"
        /\ phase' = "print" /\ exit' = exit /\ pos' = pos
    BY <1>13 DEF Load
  <2> QED BY <1>1, <1>c, <2>1, LInvStays DEF ComparisonPhases
<1>14. ASSUME PrintEntry PROVE LInv'
  <2>1. /\ UNCHANGED <<inputs, listing, ids>> /\ phase = "print"
        /\ phase' = "print" /\ exit' = exit /\ pos' = pos + 1
    BY <1>14 DEF PrintEntry
  <2>2. pos' \in Nat \ {0}
    BY <1>1, <2>1
  <2> QED BY <1>c, <2>1, <2>2, LInvStays DEF ComparisonPhases
<1>15. ASSUME EndRegression PROVE LInv'
  <2>1. /\ UNCHANGED <<inputs, listing, ids>> /\ phase = "print"
        /\ phase' = "summary" /\ exit' = exit /\ pos' = pos
    BY <1>15 DEF EndRegression
  <2> QED BY <1>1, <1>c, <2>1, LInvStays DEF ComparisonPhases
<1>16. ASSUME printSummary PROVE LInv'
  <2>1. /\ UNCHANGED <<inputs, listing, ids>> /\ phase = "summary"
        /\ phase' = "json" /\ exit' = exit /\ pos' = pos
    BY <1>16 DEF printSummary
  <2> QED BY <1>1, <1>c, <2>1, LInvStays DEF ComparisonPhases
<1>17. ASSUME exportJson PROVE LInv'
  <2>1. /\ UNCHANGED <<inputs, listing, ids>> /\ phase = "json"
        /\ phase' = "md" /\ exit' = exit /\ pos' = pos
    BY <1>17 DEF exportJson
  <2> QED BY <1>1, <1>c, <2>1, LInvStays DEF ComparisonPhases
<1>18. ASSUME exportMarkdown PROVE LInv'
  <2>1. /\ UNCHANGED <<inputs, listing, ids>> /\ phase = "md"
        /\ phase' = "done" /\ exit' = 0 /\ pos' = pos
    BY <1>18 DEF exportMarkdown, Return
  <2> QED BY <1>c, <2>1, LInvStays DEF ComparisonPhases
<1>19. ASSUME UNCHANGED vars PROVE LInv'
  <2>1. UNCHANGED <<tool, argv, world, phase, exit, pos, listing, ids>>
    BY <1>19 DEF vars, inputs
  <2> QED BY <1>1, <2>1 DEF LInv
<1> QED BY <1>2, <1>3, <1>4, <1>5, <1>6, <1>7, <1>8, <1>9, <1>10, <1>11, <1>12, <1>13, <1>14,
           <1>15, <1>16, <1>17, <1>18, <1>19 DEF Next

(* A word that spells an id of the list is resolved to its benchmark.       *)
LEMMA IdResolves ==
  ASSUME NEW names, ListsGroups(groupMethodsByLetter(names), names),
         NEW i \in DOMAIN groupMethodsByLetter(names), NEW w, looksLikeMethodId(w),
         LetterOf(w) = groupMethodsByLetter(names)[i].letter,
         Number(Tail(w)) = groupMethodsByLetter(names)[i].j
  PROVE  resolveMethodId(w, names) = {groupMethodsByLetter(names)[i].name}
<1> DEFINE m == groupMethodsByLetter(names)
           L == LetterOf(w)
           N == Number(Tail(w))
<1>1. \A k, j \in DOMAIN m : m[k].letter # "?" /\ m[j].letter = m[k].letter /\ m[j].j = m[k].j => j = k
  BY DEF ListsGroups
<1>2. ToSet(m) = {m[k] : k \in DOMAIN m}
  BY DEF ToSet
<1>3. resolveMethodId(w, names) =
        {x.name : x \in {y \in {z \in ToSet(m) : z.letter = L} : y.j = N}}
  BY DEF resolveMethodId, Members
<1>4. L # "?"
  <2>1. Head(w) \in Letters /\ w # <<>>
    BY DEF looksLikeMethodId
  <2> QED BY <2>1, BenchmarksAssumption DEF LetterOf
<1>5. i \in DOMAIN m /\ m[i].letter = L /\ m[i].j = N
  OBVIOUS
<1> HIDE DEF m, L, N
<1>6. {y \in {z \in ToSet(m) : z.letter = L} : y.j = N} = {m[i]}
  <2>1. m[i] \in ToSet(m)
    BY <1>2, <1>5
  <2>2. \A y \in ToSet(m) : y.letter = L /\ y.j = N => y = m[i]
    BY <1>1, <1>2, <1>4, <1>5
  <2> QED BY <1>5, <2>1, <2>2
<1>7. resolveMethodId(w, names) = {m[i].name}
  BY <1>3, <1>6
<1> QED BY <1>7 DEF m

LEMMA LInvShows == LInv => ListingIsFaithful
<1> SUFFICES ASSUME LInv PROVE ListingIsFaithful
  OBVIOUS
<1>1. /\ tool \in Tools /\ argv \in Argvs /\ world \in Worlds
      /\ ListingInv(tool, world, argv, phase, exit, pos, listing, ids)
  BY DEF LInv
<1>2. /\ listing \in Seq(DOMAIN Tags) /\ ByAge(listing) /\ Distinct(listing)
      /\ Shown(tool, world, listing, pos, ids) /\ AllShown(tool, world, listing, pos, ids)
      /\ exit = 0 => phase = "done"
  BY <1>1 DEF ListingInv
<1>3. /\ exit = 0 /\ (IsList \/ IsMethods) => Listed(argv, Folders(tool, world), listing)
      /\ exit = 0 /\ IsMethods => pos = Len(listing) + 1
  BY <1>1, <1>2, Commands DEF ListingInv
<1>a. /\ \A f : loadResults(f) = Snapshot(tool, world, f)
      /\ \A r : Names(r) = FirstSeen(r)
      /\ OwnFolders = Folders(tool, world)
  BY <1>1, Reading
<1>b. \A q \in DOMAIN listing : listing[q] \in DOMAIN Tags \cup {Live}
  BY <1>2
<1>4. \A i, j \in DOMAIN listing : i < j => NoNewer(listing[i], listing[j])
  BY <1>2 DEF ByAge
<1>5. exit = 0 /\ (IsList \/ IsMethods) =>
        IF AnyVersion THEN ToSet(listing) = OwnFolders ELSE listing = argv[2]
  BY <1>3, <1>a DEF Listed, AnyVersion, EveryVersion
<1>6. ASSUME NEW k \in DOMAIN ids
      PROVE  \E r \in loadResults(ids[k].of) :
               LET id == ids[k].id IN
                 /\ id.name \in ToSet(Names(r)) /\ id.letter = LetterOf(id.name)
                 /\ id.letter # "?" => id.j = PlaceOf(id.name, Names(r))
                 /\ \A w \in UNION {ToSet(a) : a \in Argvs} :
                      ReadsAs(w, id) => resolveMethodId(w, Names(r)) = {id.name}
  <2>1. PICK q \in DOMAIN listing :
           /\ ids[k].of = listing[q]
           /\ \E r \in Snapshot(tool, world, listing[q]) : \E i \in DOMAIN Ids(r) : ids[k].id = Ids(r)[i]
    BY <1>2 DEF Shown
  <2>2. PICK r \in Snapshot(tool, world, listing[q]) : \E i \in DOMAIN Ids(r) : ids[k].id = Ids(r)[i]
    BY <2>1
  <2>3. PICK i \in DOMAIN Ids(r) : ids[k].id = Ids(r)[i]
    BY <2>2
  <2>4. ListsGroups(Ids(r), FirstSeen(r))
    BY <1>1, <1>b, IdsAre DEF Ids
  <2>5. LET id == ids[k].id IN
          /\ id.name \in ToSet(FirstSeen(r)) /\ id.letter = LetterOf(id.name)
          /\ id.letter # "?" => id.j = PlaceOf(id.name, FirstSeen(r))
    BY <2>3, <2>4 DEF ListsGroups
  <2>6. ASSUME NEW w, ReadsAs(w, ids[k].id) PROVE resolveMethodId(w, FirstSeen(r)) = {ids[k].id.name}
    <3>1. looksLikeMethodId(w) /\ LetterOf(w) = Ids(r)[i].letter /\ Number(Tail(w)) = Ids(r)[i].j
      BY <2>3, <2>6 DEF ReadsAs
    <3>2. ListsGroups(groupMethodsByLetter(FirstSeen(r)), FirstSeen(r))
          /\ i \in DOMAIN groupMethodsByLetter(FirstSeen(r))
          /\ Ids(r)[i] = groupMethodsByLetter(FirstSeen(r))[i]
      BY <2>3, <2>4 DEF Ids
    <3> QED BY <2>3, <3>1, <3>2, IdResolves
  <2> QED BY <1>a, <2>1, <2>2, <2>5, <2>6
<1>7. ASSUME exit = 0, IsMethods, NEW t \in ToSet(listing), NEW r \in loadResults(t), NEW e \in ToSet(r)
      PROVE  Cardinality({k \in DOMAIN ids : ids[k].of = t /\ ids[k].id.name = e.name}) = 1
  <2>1. PICK q \in DOMAIN listing : t = listing[q]
    BY DEF ToSet
  <2>2. r \in Snapshot(tool, world, listing[q])
    BY <1>a, <2>1
  <2>3. ListsGroups(Ids(r), FirstSeen(r)) /\ e.name \in ToSet(FirstSeen(r))
    BY <1>1, <1>b, <2>2, IdsAre DEF Ids
  <2>4. PICK i \in DOMAIN Ids(r) : Ids(r)[i].name = e.name
    BY <2>3 DEF ListsGroups
  <2>5. q < pos
    BY <1>2, <1>3, <1>7
  <2>6. PICK k \in DOMAIN ids : ids[k].of = t /\ ids[k].id = Ids(r)[i]
    BY <1>2, <2>1, <2>2, <2>5 DEF AllShown
  <2>7. \A j \in DOMAIN ids : ids[j].of = t /\ ids[j].id.name = e.name => j = k
    BY <1>2, <2>4, <2>6 DEF Shown
  <2>8. {j \in DOMAIN ids : ids[j].of = t /\ ids[j].id.name = e.name} = {k}
    BY <2>4, <2>6, <2>7
  <2> QED BY <2>8, FS_Singleton
<1> QED BY <1>4, <1>5, <1>6, <1>7 DEF ListingIsFaithful

(* In every state, `list` and `methods` have named folders oldest first and *)
(* shown benchmarks under ids that count those of a letter, and each word   *)
(* of a command line that the tool takes for such an id is resolved to its  *)
(* benchmark; when they end well they have named every baseline, or the one *)
(* asked for, and shown each benchmark once.                                *)
THEOREM ListingFaithful == Spec => []ListingIsFaithful
<1>1. Spec => []LInv
  BY LInvStarts, LInvSteps, PTL DEF Spec
<1> QED BY <1>1, LInvShows, PTL

-----------------------------------------------------------------------------
(* One turn of the printing loop, for both tools.                           *)

WidthOf(t) == IF t = "google" THEN G!Width ELSE C!Width
Border(t, at) == drawBorder(at, WidthOf(t))
GroupName(t, e) == IF t = "google" THEN G!baseName(e.name) ELSE e.suite
Cns(t, c, e) == IF t = "google" THEN G!getCns(c, e.name) ELSE C!getCns(c, e.name, e.iter)
RowFor(t, e, cns) ==
  IF t = "google" THEN [name |-> e.name, b |-> e.time, c |-> cns]
  ELSE [suite |-> e.suite, name |-> e.name, iter |-> e.iter, b |-> e.time, c |-> cns]
HeadFor(t, h, labels) ==
  [at |-> "head", of |-> h,
   cols |-> IF t = "google"
              THEN G!Line(nameCell(h, G!TEST_W), labelCell(labels.current),
                          labelCell(labels.baseline), DELTA_W)
              ELSE C!Line(nameCell(h, C!TEST_W), C!ITER_W, labelCell(labels.current),
                          labelCell(labels.baseline), DELTA_W)]
Longer(x, y) == IF x >= y THEN x ELSE y
LineFor(t, e, cns) ==
  IF t = "google"
    THEN [at |-> "row", of |-> e.name, c |-> bar(cns, Longer(e.time, cns)),
          b |-> bar(e.time, Longer(e.time, cns)),
          cols |-> G!Line(nameCell(e.name, G!TEST_W), valueCell(cns), valueCell(e.time),
                          deltaCell(e.time, cns))]
    ELSE [at |-> "row", of |-> e.name, iter |-> C!convertIter(e.iter),
          c |-> bar(cns, Longer(e.time, cns)), b |-> bar(e.time, Longer(e.time, cns)),
          cols |-> C!Line(nameCell(e.name, C!TEST_W), C!ITER_W, valueCell(cns), valueCell(e.time),
                          deltaCell(e.time, cns))]

Closed(t, rep) == IF rep.group # NoGroup THEN Append(rep.out, Border(t, "bottom")) ELSE rep.out
OutBefore(t, rep, e, labels) ==
  LET h == GroupName(t, e) IN
    IF rep.group # h
      THEN Closed(t, rep) \o << Border(t, "top"), HeadFor(t, h, labels), Border(t, "mid") >>
    ELSE IF t # "google" /\ rep.lastRow \notin {<<>>, e.name} THEN Append(rep.out, Border(t, "mid"))
    ELSE rep.out
MdBefore(rep, h) == IF rep.group # h THEN Append(rep.md, [at |-> "title", of |-> h]) ELSE rep.md

Printed(t, rep, e, c, labels) ==
  LET cns == Cns(t, c, e)
      row == RowFor(t, e, cns)
      h == GroupName(t, e)
  IN  [out |-> Append(OutBefore(t, rep, e, labels), LineFor(t, e, cns)),
       md |-> Append(MdBefore(rep, h), [at |-> "row", row |-> row]),
       rows |-> Append(rep.rows, row), group |-> h,
       lastRow |-> IF t = "google" THEN rep.lastRow ELSE e.name]

IsReport(rep) ==
  rep = [out |-> rep.out, md |-> rep.md, rows |-> rep.rows, group |-> rep.group,
         lastRow |-> rep.lastRow]

LEMMA SameWidths ==
  ASSUME NEW x, NEW y, NEW z
  PROVE  /\ G!displayWidth(x) = displayWidth(x) /\ C!displayWidth(x) = displayWidth(x)
         /\ G!nameCell(x, y) = nameCell(x, y) /\ C!nameCell(x, y) = nameCell(x, y)
         /\ G!labelCell(x) = labelCell(x) /\ C!labelCell(x) = labelCell(x)
         /\ G!valueCell(x) = valueCell(x) /\ C!valueCell(x) = valueCell(x)
         /\ G!deltaCell(x, y) = deltaCell(x, y) /\ C!deltaCell(x, y) = deltaCell(x, y)
         /\ G!bar(x, y) = bar(x, y) /\ C!bar(x, y) = bar(x, y)
         /\ G!DELTA_W = DELTA_W /\ C!DELTA_W = DELTA_W
         /\ G!NoGroup = NoGroup /\ C!NoGroup = NoGroup
         /\ G!drawBorder(x, y) = drawBorder(x, y) /\ C!drawBorder(x, y) = drawBorder(x, y)
<1>1. G!displayWidth(x) = displayWidth(x) /\ C!displayWidth(x) = displayWidth(x)
  BY DEF G!displayWidth, C!displayWidth, displayWidth
<1>2. G!nameCell(x, y) = nameCell(x, y) /\ C!nameCell(x, y) = nameCell(x, y)
  BY DEF G!nameCell, C!nameCell, nameCell, G!displayWidth, C!displayWidth, displayWidth,
         G!truncateCell, C!truncateCell, truncateCell, G!padCell, C!padCell, padCell
<1>3. G!labelCell(x) = labelCell(x) /\ C!labelCell(x) = labelCell(x)
  BY DEF G!labelCell, C!labelCell, labelCell, G!displayWidth, C!displayWidth, displayWidth,
         G!padCell, C!padCell, padCell, G!VAL_W, C!VAL_W, VAL_W
<1>4. G!DigitCount(y) = DigitCount(y) /\ C!DigitCount(y) = DigitCount(y)
  BY DEF G!DigitCount, C!DigitCount, DigitCount, G!Powers, C!Powers, Powers
<1>5. G!valueCell(x) = valueCell(x) /\ C!valueCell(x) = valueCell(x)
  BY DEF G!valueCell, C!valueCell, valueCell, G!padCell, C!padCell, padCell, G!VAL_W, C!VAL_W, VAL_W,
         G!DUR_W, C!DUR_W, DUR_W, G!BAR_W, C!BAR_W, BAR_W, G!formatDuration, C!formatDuration, formatDuration,
         G!formatMagnitude, C!formatMagnitude, formatMagnitude,
         G!DigitCount, C!DigitCount, DigitCount, G!Powers, C!Powers, Powers
<1>6. G!deltaCell(x, y) = deltaCell(x, y) /\ C!deltaCell(x, y) = deltaCell(x, y)
  BY DEF G!deltaCell, C!deltaCell, deltaCell, G!padCell, C!padCell, padCell,
         G!DELTA_W, C!DELTA_W, DELTA_W, G!deltaText, C!deltaText, deltaText, G!Gap, C!Gap, Gap,
         G!DigitCount, C!DigitCount, DigitCount, G!Powers, C!Powers, Powers
<1>7. G!bar(x, y) = bar(x, y) /\ C!bar(x, y) = bar(x, y)
  BY DEF G!bar, C!bar, bar, G!BAR_W, C!BAR_W, BAR_W
<1>8. G!DELTA_W = DELTA_W /\ C!DELTA_W = DELTA_W /\ G!NoGroup = NoGroup /\ C!NoGroup = NoGroup
  BY DEF G!DELTA_W, C!DELTA_W, DELTA_W, G!NoGroup, C!NoGroup, NoGroup
<1>9. G!drawBorder(x, y) = drawBorder(x, y) /\ C!drawBorder(x, y) = drawBorder(x, y)
  BY DEF G!drawBorder, C!drawBorder, drawBorder
<1> QED BY <1>1, <1>2, <1>3, <1>5, <1>6, <1>7, <1>8, <1>9

LEMMA GooglePrints ==
  ASSUME NEW rep, IsReport(rep), NEW e, NEW c, NEW labels
  PROVE  G!printEntry(rep, e, c, labels) = Printed("google", rep, e, c, labels)
<1> DEFINE h == G!baseName(e.name)
           cns == G!getCns(c, e.name)
           row == RowFor("google", e, cns)
           line == LineFor("google", e, cns)
           closed == IF rep.group # NoGroup THEN G!endTable(rep) ELSE rep
           open == IF rep.group # h THEN G!setHeader(closed, h, labels) ELSE rep
<1>1. G!printEntry(rep, e, c, labels) = G!printComparisonRow(open, e, cns)
  BY SameWidths DEF G!printEntry
<1>2. closed = [out |-> Closed("google", rep), md |-> rep.md, rows |-> rep.rows,
                group |-> rep.group, lastRow |-> rep.lastRow]
  BY SameWidths DEF G!endTable, IsReport, Closed, Border, WidthOf
<1> HIDE DEF closed, h
<1>3. G!setHeader(closed, h, labels) =
        [out |-> Closed("google", rep) \o << Border("google", "top"), HeadFor("google", h, labels),
                                             Border("google", "mid") >>,
         md |-> Append(rep.md, [at |-> "title", of |-> h]),
         rows |-> rep.rows, group |-> h, lastRow |-> rep.lastRow]
  <2>1. /\ G!drawBorder("top", G!Width) = Border("google", "top")
        /\ G!drawBorder("mid", G!Width) = Border("google", "mid")
    BY SameWidths DEF Border, WidthOf
  <2>2. [at |-> "head", of |-> h,
         cols |-> G!Line(G!nameCell(h, G!TEST_W), G!labelCell(labels.current),
                         G!labelCell(labels.baseline), G!DELTA_W)] = HeadFor("google", h, labels)
    BY SameWidths DEF HeadFor
  <2>3. G!setHeader(closed, h, labels) =
          [out |-> closed.out \o << G!drawBorder("top", G!Width),
                     [at |-> "head", of |-> h,
                      cols |-> G!Line(G!nameCell(h, G!TEST_W), G!labelCell(labels.current),
                                      G!labelCell(labels.baseline), G!DELTA_W)],
                     G!drawBorder("mid", G!Width) >>,
           md |-> Append(closed.md, [at |-> "title", of |-> h]),
           rows |-> closed.rows, group |-> h, lastRow |-> closed.lastRow]
    <3> DEFINE three == << G!drawBorder("top", G!Width),
                           [at |-> "head", of |-> h,
                            cols |-> G!Line(G!nameCell(h, G!TEST_W), G!labelCell(labels.current),
                                            G!labelCell(labels.baseline), G!DELTA_W)],
                           G!drawBorder("mid", G!Width) >>
               title == [at |-> "title", of |-> h]
    <3>1. G!setHeader(closed, h, labels) =
            [closed EXCEPT !.out = @ \o three, !.md = Append(@, title), !.group = h]
      BY DEF G!setHeader
    <3> HIDE DEF three, title
    <3>2. G!setHeader(closed, h, labels) =
            [out |-> closed.out \o three, md |-> Append(closed.md, title),
             rows |-> closed.rows, group |-> h, lastRow |-> closed.lastRow]
      BY <1>2, <3>1
    <3> QED BY <3>2 DEF three, title
  <2> QED BY <1>2, <2>1, <2>2, <2>3
<1>4. open = [out |-> OutBefore("google", rep, e, labels), md |-> MdBefore(rep, h),
              rows |-> rep.rows, group |-> h, lastRow |-> rep.lastRow]
  <2>1. GroupName("google", e) = h
    BY DEF GroupName, h
  <2>2. CASE rep.group # h
    BY <1>3, <2>1, <2>2 DEF OutBefore, MdBefore
  <2>3. CASE rep.group = h
    <3>1. OutBefore("google", rep, e, labels) = rep.out /\ MdBefore(rep, h) = rep.md
      BY <2>1, <2>3 DEF OutBefore, MdBefore
    <3>2. open = rep
      BY <2>3
    <3> HIDE DEF open
    <3> QED BY <2>3, <3>1, <3>2 DEF IsReport
  <2> QED BY <2>2, <2>3
<1> HIDE DEF open
<1>5. G!printComparisonRow(open, e, cns) =
        [out |-> Append(open.out, line), md |-> Append(open.md, [at |-> "row", row |-> row]),
         rows |-> Append(open.rows, row), group |-> open.group, lastRow |-> open.lastRow]
  <2> DEFINE max == IF e.time >= cns THEN e.time ELSE cns
             line2 == [at |-> "row", of |-> e.name, c |-> G!bar(cns, max), b |-> G!bar(e.time, max),
                       cols |-> G!Line(G!nameCell(e.name, G!TEST_W), G!valueCell(cns),
                                       G!valueCell(e.time), G!deltaCell(e.time, cns))]
  <2>1. line2 = line
    <3> HIDE DEF cns
    <3> QED BY SameWidths DEF LineFor, Longer
  <2>2. G!printComparisonRow(open, e, cns) =
          [open EXCEPT !.out = Append(@, line2), !.md = Append(@, [at |-> "row", row |-> row]),
                       !.rows = Append(@, row)]
    BY DEF G!printComparisonRow, RowFor
  <2> HIDE DEF line, line2, row, cns
  <2> QED BY <1>4, <2>1, <2>2
<1>6. /\ Cns("google", c, e) = cns /\ GroupName("google", e) = h
  BY DEF Cns, GroupName, h
<1> HIDE DEF cns, row, line
<1>7. G!printEntry(rep, e, c, labels) =
        [out |-> Append(OutBefore("google", rep, e, labels), line),
         md |-> Append(MdBefore(rep, h), [at |-> "row", row |-> row]),
         rows |-> Append(rep.rows, row), group |-> h, lastRow |-> rep.lastRow]
  BY <1>1, <1>4, <1>5
<1> QED BY <1>6, <1>7 DEF Printed, row, line

LEMMA CustomPrints ==
  ASSUME NEW rep, IsReport(rep), NEW e, NEW c, NEW labels
  PROVE  C!printEntry(rep, e, c, labels) = Printed("custom", rep, e, c, labels)
<1> DEFINE h == e.suite
           cns == C!getCns(c, e.name, e.iter)
           row == RowFor("custom", e, cns)
           line == LineFor("custom", e, cns)
           closed == IF rep.group # NoGroup THEN C!endTable(rep) ELSE rep
           open == IF rep.group # h THEN C!setHeader(closed, h, labels) ELSE rep
<1>1. C!printEntry(rep, e, c, labels) = C!printComparisonRow(open, e, cns)
  BY SameWidths DEF C!printEntry
<1>2. closed = [out |-> Closed("custom", rep), md |-> rep.md, rows |-> rep.rows,
                group |-> rep.group, lastRow |-> rep.lastRow]
  BY SameWidths DEF C!endTable, IsReport, Closed, Border, WidthOf
<1> HIDE DEF closed, h
<1>3. C!setHeader(closed, h, labels) =
        [out |-> Closed("custom", rep) \o << Border("custom", "top"), HeadFor("custom", h, labels),
                                             Border("custom", "mid") >>,
         md |-> Append(rep.md, [at |-> "title", of |-> h]),
         rows |-> rep.rows, group |-> h, lastRow |-> <<>>]
  <2>1. /\ C!drawBorder("top", C!Width) = Border("custom", "top")
        /\ C!drawBorder("mid", C!Width) = Border("custom", "mid")
    BY SameWidths DEF Border, WidthOf
  <2>2. [at |-> "head", of |-> h,
         cols |-> C!Line(C!nameCell(h, C!TEST_W), C!ITER_W, C!labelCell(labels.current),
                         C!labelCell(labels.baseline), C!DELTA_W)] = HeadFor("custom", h, labels)
    BY SameWidths DEF HeadFor
  <2>3. C!setHeader(closed, h, labels) =
          [out |-> closed.out \o << C!drawBorder("top", C!Width),
                     [at |-> "head", of |-> h,
                      cols |-> C!Line(C!nameCell(h, C!TEST_W), C!ITER_W, C!labelCell(labels.current),
                                      C!labelCell(labels.baseline), C!DELTA_W)],
                     C!drawBorder("mid", C!Width) >>,
           md |-> Append(closed.md, [at |-> "title", of |-> h]),
           rows |-> closed.rows, group |-> h, lastRow |-> <<>>]
    <3> DEFINE three == << C!drawBorder("top", C!Width),
                           [at |-> "head", of |-> h,
                            cols |-> C!Line(C!nameCell(h, C!TEST_W), C!ITER_W, C!labelCell(labels.current),
                                            C!labelCell(labels.baseline), C!DELTA_W)],
                           C!drawBorder("mid", C!Width) >>
               title == [at |-> "title", of |-> h]
    <3>1. C!setHeader(closed, h, labels) =
            [closed EXCEPT !.out = @ \o three, !.md = Append(@, title), !.group = h, !.lastRow = <<>>]
      BY DEF C!setHeader
    <3> HIDE DEF three, title
    <3>2. C!setHeader(closed, h, labels) =
            [out |-> closed.out \o three, md |-> Append(closed.md, title),
             rows |-> closed.rows, group |-> h, lastRow |-> <<>>]
      BY <1>2, <3>1
    <3> QED BY <3>2 DEF three, title
  <2> QED BY <1>2, <2>1, <2>2, <2>3
<1> DEFINE openLast == IF rep.group # h THEN <<>> ELSE rep.lastRow
           openOut == IF rep.group # h
                        THEN Closed("custom", rep) \o << Border("custom", "top"), HeadFor("custom", h, labels),
                                                         Border("custom", "mid") >>
                        ELSE rep.out
<1>4. open = [out |-> openOut, md |-> MdBefore(rep, h), rows |-> rep.rows, group |-> h,
              lastRow |-> openLast]
  <2>2. CASE rep.group # h
    BY <1>3, <2>2 DEF MdBefore
  <2>3. CASE rep.group = h
    <3>1. openOut = rep.out /\ MdBefore(rep, h) = rep.md /\ openLast = rep.lastRow
      BY <2>3 DEF MdBefore
    <3>2. open = rep
      BY <2>3
    <3> HIDE DEF open, openOut, openLast
    <3> QED BY <2>3, <3>1, <3>2 DEF IsReport
  <2> QED BY <2>2, <2>3
<1> HIDE DEF open
<1> DEFINE before == C!drawGroupSeparatorIfNeeded(open, e.name)
<1>a. before = [out |-> OutBefore("custom", rep, e, labels), md |-> MdBefore(rep, h),
                rows |-> rep.rows, group |-> h, lastRow |-> e.name]
  <2>1. C!drawBorder("mid", C!Width) = Border("custom", "mid")
    BY SameWidths DEF Border, WidthOf
  <2>2. before = [open EXCEPT !.out = IF openLast \notin {<<>>, e.name}
                                        THEN Append(@, Border("custom", "mid")) ELSE @,
                              !.lastRow = e.name]
    <3> HIDE DEF openOut, openLast
    <3> QED BY <1>4, <2>1 DEF C!drawGroupSeparatorIfNeeded
  <2>3. OutBefore("custom", rep, e, labels) =
          IF openLast \notin {<<>>, e.name} THEN Append(openOut, Border("custom", "mid")) ELSE openOut
    <3>1. GroupName("custom", e) = h
      BY DEF GroupName, h
    <3>2. CASE rep.group # h
      BY <3>1, <3>2 DEF OutBefore
    <3>3. CASE rep.group = h
      BY <3>1, <3>3 DEF OutBefore
    <3> QED BY <3>2, <3>3
  <2> HIDE DEF openOut, openLast
  <2> QED BY <1>4, <2>2, <2>3
<1> HIDE DEF before
<1>5. C!printComparisonRow(open, e, cns) =
        [out |-> Append(before.out, line), md |-> Append(before.md, [at |-> "row", row |-> row]),
         rows |-> Append(before.rows, row), group |-> before.group, lastRow |-> before.lastRow]
  <2> DEFINE max == IF e.time >= cns THEN e.time ELSE cns
             line2 == [at |-> "row", of |-> e.name, iter |-> C!convertIter(e.iter),
                       c |-> C!bar(cns, max), b |-> C!bar(e.time, max),
                       cols |-> C!Line(C!nameCell(e.name, C!TEST_W), C!ITER_W, C!valueCell(cns),
                                       C!valueCell(e.time), C!deltaCell(e.time, cns))]
  <2>1. line2 = line
    <3> HIDE DEF cns
    <3> QED BY SameWidths DEF LineFor, Longer
  <2>2. C!printComparisonRow(open, e, cns) =
          [before EXCEPT !.out = Append(@, line2), !.md = Append(@, [at |-> "row", row |-> row]),
                       !.rows = Append(@, row)]
    BY DEF C!printComparisonRow, RowFor, before
  <2> HIDE DEF line, line2, row, cns
  <2> QED BY <1>a, <2>1, <2>2
<1>6. /\ Cns("custom", c, e) = cns /\ GroupName("custom", e) = h
  BY DEF Cns, GroupName, h
<1> HIDE DEF cns, row, line
<1>7. C!printEntry(rep, e, c, labels) =
        [out |-> Append(OutBefore("custom", rep, e, labels), line),
         md |-> Append(MdBefore(rep, h), [at |-> "row", row |-> row]),
         rows |-> Append(rep.rows, row), group |-> h, lastRow |-> e.name]
  BY <1>1, <1>5, <1>a
<1> QED BY <1>6, <1>7 DEF Printed, row, line

-----------------------------------------------------------------------------
(* Sequences that grow, and the rows among their lines.                     *)

IsSeq(s) == s \in Seq(ToSet(s))

LEMMA Extended ==
  ASSUME NEW s, IsSeq(s), NEW x
  PROVE  /\ IsSeq(Append(s, x)) /\ Len(s) \in Nat /\ DOMAIN s = 1 .. Len(s)
         /\ Len(Append(s, x)) = Len(s) + 1 /\ DOMAIN Append(s, x) = 1 .. Len(s) + 1
         /\ \A k \in 1 .. Len(s) : Append(s, x)[k] = s[k]
         /\ Append(s, x)[Len(s) + 1] = x
<1> DEFINE X == ToSet(s) \cup {x}
           u == Append(s, x)
<1>1. s \in Seq(X) /\ x \in X /\ Len(s) \in Nat /\ DOMAIN s = 1 .. Len(s)
  BY DEF IsSeq
<1> HIDE DEF X
<1>2. /\ u \in Seq(X) /\ Len(u) = Len(s) + 1
      /\ \A k \in 1 .. Len(s) : u[k] = s[k]
      /\ u[Len(s) + 1] = x
  BY <1>1, AppendProperties
<1> HIDE DEF u
<1>3. DOMAIN u = 1 .. Len(s) + 1
  BY <1>1, <1>2
<1>4. IsSeq(u)
  BY <1>1, <1>2 DEF IsSeq, ToSet
<1> QED BY <1>1, <1>2, <1>3, <1>4 DEF u

Counts(lines, n) ==
  /\ n \in Nat /\ RowsUpTo(lines, Len(lines)) = n
  /\ \A k \in DOMAIN lines : lines[k].at = "row" => RowsUpTo(lines, k) \in 1 .. n

LEMMA RowsGrow ==
  ASSUME NEW s, IsSeq(s), NEW x
  PROVE  /\ \A k \in 0 .. Len(s) :
              RowsUpTo(Append(s, x), k) = RowsUpTo(s, k) /\ RowsUpTo(s, k) \in Nat
         /\ RowsUpTo(Append(s, x), Len(s) + 1) = RowsUpTo(s, Len(s)) + (IF x.at = "row" THEN 1 ELSE 0)
<1> DEFINE u == Append(s, x)
           n == Len(s)
           A(k) == {j \in 1 .. k : s[j].at = "row"}
           B(k) == {j \in 1 .. k : u[j].at = "row"}
<1>1. n \in Nat /\ u[n + 1] = x /\ \A k \in 1 .. n : u[k] = s[k]
  BY Extended
<1> HIDE DEF u, n
<1>2. ASSUME NEW k \in 0 .. n PROVE A(k) = B(k) /\ IsFiniteSet(A(k)) /\ Cardinality(A(k)) \in Nat
  <2>1. k \in Nat /\ \A j \in 1 .. k : u[j] = s[j]
    BY <1>1, <1>2
  <2>2. IsFiniteSet(1 .. k) /\ A(k) \subseteq 1 .. k
    BY <2>1, Interval
  <2>3. A(k) = B(k)
    BY <2>1
  <2>4. IsFiniteSet(A(k))
    <3> HIDE DEF A
    <3> QED BY <2>2, FS_Subset
  <2> HIDE DEF A, B
  <2> QED BY <2>3, <2>4, FS_CardinalityType
<1>3. \A k \in 0 .. n : RowsUpTo(u, k) = RowsUpTo(s, k) /\ RowsUpTo(s, k) \in Nat
  <2>1. \A k : RowsUpTo(u, k) = Cardinality(B(k)) /\ RowsUpTo(s, k) = Cardinality(A(k))
    BY DEF RowsUpTo
  <2> HIDE DEF A, B
  <2> QED BY <1>2, <2>1
<1>4. CASE x.at = "row"
  <2>1. B(n + 1) = A(n) \cup {n + 1} /\ n + 1 \notin A(n)
    <3>1. B(n + 1) \subseteq A(n) \cup {n + 1}
      BY <1>1
    <3>2. A(n) \cup {n + 1} \subseteq B(n + 1)
      BY <1>1, <1>4
    <3> QED BY <1>1, <3>1, <3>2
  <2>2. IsFiniteSet(A(n)) /\ n \in 0 .. n
    BY <1>1, <1>2
  <2>3. RowsUpTo(u, n + 1) = Cardinality(B(n + 1)) /\ RowsUpTo(s, n) = Cardinality(A(n))
    BY DEF RowsUpTo
  <2> HIDE DEF A, B
  <2>4. Cardinality(B(n + 1)) = Cardinality(A(n)) + 1
    BY <2>1, <2>2, FS_AddElement
  <2> QED BY <1>3, <1>4, <2>3, <2>4 DEF u, n
<1>5. CASE x.at # "row"
  <2>1. B(n + 1) = A(n)
    <3>1. B(n + 1) \subseteq A(n)
      BY <1>1, <1>5
    <3>2. A(n) \subseteq B(n + 1)
      BY <1>1
    <3> QED BY <3>1, <3>2
  <2>2. RowsUpTo(u, n + 1) = Cardinality(B(n + 1)) /\ RowsUpTo(s, n) = Cardinality(A(n))
    BY DEF RowsUpTo
  <2>3. n \in 0 .. n
    BY <1>1
  <2> HIDE DEF A, B
  <2>4. RowsUpTo(u, n + 1) = RowsUpTo(s, n) /\ RowsUpTo(s, n) \in Nat
    BY <1>3, <2>1, <2>2, <2>3
  <2> QED BY <1>3, <1>5, <2>4 DEF u, n
<1> QED BY <1>4, <1>5

LEMMA CountsGrow ==
  ASSUME NEW s, IsSeq(s), NEW n, Counts(s, n), NEW x
  PROVE  /\ x.at # "row" => Counts(Append(s, x), n)
         /\ x.at = "row" => Counts(Append(s, x), n + 1) /\ RowsUpTo(Append(s, x), Len(s) + 1) = n + 1
         /\ \A k \in DOMAIN s : RowsUpTo(Append(s, x), k) = RowsUpTo(s, k)
<1> DEFINE u == Append(s, x)
           l == Len(s)
           R(k) == RowsUpTo(u, k)
           Q(k) == RowsUpTo(s, k)
<1>1. /\ l \in Nat /\ DOMAIN s = 1 .. l /\ Len(u) = l + 1 /\ DOMAIN u = 1 .. l + 1
      /\ u[l + 1] = x /\ \A k \in 1 .. l : u[k] = s[k]
  BY Extended
<1>2. /\ \A k \in 0 .. l : R(k) = Q(k) /\ Q(k) \in Nat
      /\ R(l + 1) = Q(l) + (IF x.at = "row" THEN 1 ELSE 0)
  BY RowsGrow
<1>3. n \in Nat /\ Q(l) = n /\ \A k \in 1 .. l : s[k].at = "row" => Q(k) \in 1 .. n
  BY <1>1 DEF Counts
<1>4. \A m : Counts(u, m) <=> /\ m \in Nat /\ R(Len(u)) = m
                              /\ \A k \in DOMAIN u : u[k].at = "row" => R(k) \in 1 .. m
  BY DEF Counts
<1> HIDE DEF u, l, R, Q
<1>5. ASSUME x.at # "row" PROVE Counts(u, n)
  <2>1. \A k \in DOMAIN u : u[k].at = "row" => R(k) \in 1 .. n
    BY <1>1, <1>2, <1>3, <1>5
  <2> QED BY <1>1, <1>2, <1>3, <1>4, <1>5, <2>1
<1>6. ASSUME x.at = "row" PROVE Counts(u, n + 1) /\ R(l + 1) = n + 1
  <2>1. R(l + 1) = n + 1 /\ n + 1 \in Nat
    BY <1>1, <1>2, <1>3, <1>6
  <2>2. ASSUME NEW k \in DOMAIN u, u[k].at = "row" PROVE R(k) \in 1 .. n + 1
    <3>1. CASE k = l + 1
      BY <1>3, <2>1, <3>1
    <3>2. CASE k \in 1 .. l
      BY <1>1, <1>2, <1>3, <2>2, <3>2
    <3> QED BY <1>1, <3>1, <3>2
  <2> QED BY <1>1, <1>4, <2>1, <2>2
<1>7. \A k \in DOMAIN s : R(k) = Q(k)
  BY <1>1, <1>2
<1> QED BY <1>5, <1>6, <1>7 DEF u, l, R, Q

LEMMA CountsStart == Counts(<<>>, 0)
<1>1. {j \in 1 .. 0 : <<>>[j].at = "row"} = {}
  OBVIOUS
<1>2. RowsUpTo(<<>>, Len(<<>>)) = 0
  BY <1>1, FS_EmptySet DEF RowsUpTo
<1> QED BY <1>2 DEF Counts

(* The rows of the markdown are the rows.                                   *)
MdInv(lines, rows) ==
  /\ IsSeq(lines) /\ IsSeq(rows) /\ Counts(lines, Len(rows))
  /\ \A k \in DOMAIN lines : lines[k].at = "row" => lines[k].row = rows[RowsUpTo(lines, k)]

LEMMA MdGrows ==
  ASSUME NEW lines, NEW rows, MdInv(lines, rows), NEW h, NEW row
  PROVE  /\ MdInv(Append(lines, [at |-> "title", of |-> h]), rows)
         /\ MdInv(Append(lines, [at |-> "row", row |-> row]), Append(rows, row))
<1> DEFINE n == Len(rows)
           l == Len(lines)
<1>1. IsSeq(lines) /\ IsSeq(rows) /\ Counts(lines, n) /\ n \in Nat
  BY DEF MdInv, Counts
<1>2. MdInv(Append(lines, [at |-> "title", of |-> h]), rows)
  <2> DEFINE x == [at |-> "title", of |-> h]
             u == Append(lines, x)
  <2>1. x.at # "row"
    OBVIOUS
  <2> HIDE DEF x
  <2>2. /\ IsSeq(u) /\ l \in Nat /\ DOMAIN lines = 1 .. l /\ DOMAIN u = 1 .. l + 1 /\ u[l + 1] = x
        /\ \A k \in 1 .. l : u[k] = lines[k]
    BY <1>1, Extended
  <2>3. Counts(u, n) /\ \A k \in DOMAIN lines : RowsUpTo(u, k) = RowsUpTo(lines, k)
    BY <1>1, <2>1, CountsGrow
  <2> HIDE DEF u, n, l
  <2>4. \A k \in DOMAIN u : u[k].at = "row" => k \in DOMAIN lines /\ u[k] = lines[k]
    BY <2>1, <2>2
  <2>5. \A k \in DOMAIN u : u[k].at = "row" => u[k].row = rows[RowsUpTo(u, k)]
    BY <2>3, <2>4 DEF MdInv
  <2> QED BY <1>1, <2>2, <2>3, <2>5 DEF MdInv, u, n, x
<1>3. MdInv(Append(lines, [at |-> "row", row |-> row]), Append(rows, row))
  <2> DEFINE x == [at |-> "row", row |-> row]
             u == Append(lines, x)
             v == Append(rows, row)
  <2>1. x.at = "row" /\ x.row = row
    OBVIOUS
  <2> HIDE DEF x
  <2>2. /\ IsSeq(u) /\ l \in Nat /\ DOMAIN lines = 1 .. l /\ DOMAIN u = 1 .. l + 1 /\ u[l + 1] = x
        /\ \A k \in 1 .. l : u[k] = lines[k]
    BY <1>1, Extended
  <2>3. /\ Counts(u, n + 1) /\ \A k \in DOMAIN lines : RowsUpTo(u, k) = RowsUpTo(lines, k)
        /\ RowsUpTo(u, l + 1) = n + 1
    BY <1>1, <2>1, CountsGrow
  <2>4. IsSeq(v) /\ Len(v) = n + 1 /\ v[n + 1] = row /\ \A k \in 1 .. n : v[k] = rows[k]
    BY <1>1, Extended
  <2>5. \A k \in DOMAIN lines : lines[k].at = "row" =>
          RowsUpTo(lines, k) \in 1 .. n /\ lines[k].row = rows[RowsUpTo(lines, k)]
    BY <1>1 DEF MdInv, Counts
  <2> HIDE DEF u, n, l, v
  <2>6. \A k \in DOMAIN u : u[k].at = "row" => u[k].row = v[RowsUpTo(u, k)]
    <3> SUFFICES ASSUME NEW k \in DOMAIN u, u[k].at = "row" PROVE u[k].row = v[RowsUpTo(u, k)]
      OBVIOUS
    <3>1. CASE k = l + 1
      BY <2>1, <2>2, <2>3, <2>4, <3>1
    <3>2. CASE k \in 1 .. l
      BY <2>2, <2>3, <2>4, <2>5, <3>2
    <3> QED BY <2>2, <3>1, <3>2
  <2> QED BY <2>2, <2>3, <2>4, <2>6 DEF MdInv, u, v, x
<1> QED BY <1>2, <1>3

-----------------------------------------------------------------------------
(* The words of a command line, and the benchmarks they ask for.            *)

VersionsOf(a) ==
  IF a = <<>> \/ tryParseVersionArg(a[1]) = {} THEN 0
  ELSE IF Len(a) = 1 \/ tryParseVersionArg(a[2]) = {} THEN 1 ELSE 2
WordsOf(a) == Join(SubSeq(a, VersionsOf(a) + 1, Len(a)))
AskedBy(s, n, names) ==
  IF looksLikeMethodId(s)
    THEN LetterOf(n) = LetterOf(s) /\ PlaceOf(n, names) = Number(Tail(s))
  ELSE IF looksLikeLetterGroup(s) THEN LetterOf(n) = LetterOf(s)
  ELSE s \in {<<>>, n}

LEMMA ArgumentsAre ==
  /\ Versions = VersionsOf(argv) /\ Words = WordsOf(argv)
  /\ \A n, names : Asked(n, names) <=> AskedBy(WordsOf(argv), n, names)
<1>1. Versions = VersionsOf(argv)
  BY DEF Versions, VersionsOf
<1>2. Words = WordsOf(argv)
  BY <1>1 DEF Words, WordsOf
<1>3. ASSUME NEW n, NEW names PROVE Asked(n, names) <=> AskedBy(WordsOf(argv), n, names)
  <2>1. CASE looksLikeMethodId(WordsOf(argv))
    BY <1>2, <2>1 DEF Asked, AskedBy
  <2>2. CASE ~looksLikeMethodId(WordsOf(argv)) /\ looksLikeLetterGroup(WordsOf(argv))
    BY <1>2, <2>2 DEF Asked, AskedBy
  <2>3. CASE ~looksLikeMethodId(WordsOf(argv)) /\ ~looksLikeLetterGroup(WordsOf(argv))
    BY <1>2, <2>3 DEF Asked, AskedBy
  <2> QED BY <2>1, <2>2, <2>3
<1> QED BY <1>1, <1>2, <1>3

(* What Resolve leaves for Load.                                            *)
ResolvedTo(s, names, flt, grp) ==
  IF looksLikeMethodId(s) THEN grp = {} /\ flt \in resolveMethodId(s, names)
  ELSE IF looksLikeLetterGroup(s) THEN grp # {} /\ grp \subseteq resolveLetterGroup(s, names)
  ELSE grp = {} /\ flt = s

KeepNames(b, c, wanted) ==
  [base |-> Kept(b, {k \in DOMAIN b : b[k].name \in wanted}),
   cur |-> Kept(c, {k \in DOMAIN c : c[k].name \in wanted})]

LEMMA SuitesFilter ==
  ASSUME NEW b, NEW c, NEW n, NEW g
  PROVE  /\ \A s \in G!applyMethodFilter(b, c, n) : s = KeepNames(b, c, {n})
         /\ \A s \in C!applyMethodFilter(b, c, n) : s = KeepNames(b, c, {n})
         /\ \A s \in G!applyGroupFilter(b, c, g) : s = KeepNames(b, c, g)
         /\ \A s \in C!applyGroupFilter(b, c, g) : s = KeepNames(b, c, g)
<1>1. \A s, I : G!Kept(s, I) = Kept(s, I) /\ C!Kept(s, I) = Kept(s, I)
  BY DEF G!Kept, C!Kept, Kept, G!InOrder, C!InOrder, InOrder, G!Cardinality, C!Cardinality, Cardinality
<1>2. \A s : {k \in DOMAIN s : s[k].name = n} = {k \in DOMAIN s : s[k].name \in {n}}
  OBVIOUS
<1>3. /\ G!filterByName(b, n) = KeepNames(b, c, {n}).base
      /\ G!filterByName(c, n) = KeepNames(b, c, {n}).cur
      /\ C!filterByOperation(b, n) = KeepNames(b, c, {n}).base
      /\ C!filterByOperation(c, n) = KeepNames(b, c, {n}).cur
  BY <1>1, <1>2 DEF G!filterByName, C!filterByOperation, KeepNames
<1>4. /\ G!filterByNames(b, g) = KeepNames(b, c, g).base
      /\ G!filterByNames(c, g) = KeepNames(b, c, g).cur
      /\ C!filterByOperations(b, g) = KeepNames(b, c, g).base
      /\ C!filterByOperations(c, g) = KeepNames(b, c, g).cur
  BY <1>1 DEF G!filterByNames, C!filterByOperations, KeepNames
<1>5. \A w : KeepNames(b, c, w) = [base |-> KeepNames(b, c, w).base, cur |-> KeepNames(b, c, w).cur]
  BY DEF KeepNames
<1> HIDE DEF KeepNames
<1> QED BY <1>3, <1>4, <1>5 DEF G!applyMethodFilter, C!applyMethodFilter, G!applyGroupFilter, C!applyGroupFilter

LEMMA ResolvedIsAsked ==
  ASSUME NEW s, NEW names, ListsGroups(groupMethodsByLetter(names), names), NEW flt, NEW grp,
         ResolvedTo(s, names, flt, grp)
  PROVE  /\ grp = {} /\ flt # <<>> => \A n \in ToSet(names) : n = flt <=> AskedBy(s, n, names)
         /\ grp = {} /\ flt = <<>> => \A n \in ToSet(names) : AskedBy(s, n, names)
         /\ \A g \in grp : \A n \in ToSet(names) : n \in g <=> AskedBy(s, n, names)
<1> DEFINE m == groupMethodsByLetter(names)
           L == LetterOf(s)
           N == Number(Tail(s))
<1>1. /\ \A k \in DOMAIN m : /\ m[k].name \in ToSet(names) /\ m[k].letter = LetterOf(m[k].name)
                             /\ m[k].letter # "?" => m[k].j = PlaceOf(m[k].name, names)
      /\ \A n \in ToSet(names) : \E k \in DOMAIN m : m[k].name = n
      /\ \A i, k \in DOMAIN m : m[k].letter # "?" /\ m[i].letter = m[k].letter /\ m[i].j = m[k].j => i = k
  BY DEF ListsGroups
<1>2. ToSet(m) = {m[k] : k \in DOMAIN m}
  BY DEF ToSet
<1>3. resolveMethodId(s, names) =
        {x.name : x \in {y \in {z \in ToSet(m) : z.letter = L} : y.j = N}}
  BY DEF resolveMethodId, Members
<1>4. \A g \in resolveLetterGroup(s, names) : g = {x.name : x \in {z \in ToSet(m) : z.letter = L}}
  BY DEF resolveLetterGroup, Members
<1>5. looksLikeMethodId(s) \/ looksLikeLetterGroup(s) => L # "?"
  <2>1. looksLikeMethodId(s) \/ looksLikeLetterGroup(s) => Head(s) \in Letters /\ s # <<>>
    BY DEF looksLikeMethodId, looksLikeLetterGroup
  <2> QED BY <2>1, BenchmarksAssumption DEF LetterOf
<1> HIDE DEF m, L, N
<1>6. CASE looksLikeMethodId(s)
  <2>1. grp = {} /\ flt \in resolveMethodId(s, names) /\ L # "?"
    BY <1>5, <1>6 DEF ResolvedTo
  <2>2. PICK i \in DOMAIN m : m[i].name = flt /\ m[i].letter = L /\ m[i].j = N
    BY <1>2, <1>3, <2>1
  <2>3. flt # <<>>
    <3>1. LetterOf(flt) # "?"
      BY <1>1, <2>1, <2>2
    <3> QED BY <3>1 DEF LetterOf
  <2>4. ASSUME NEW n \in ToSet(names) PROVE n = flt <=> AskedBy(s, n, names)
    <3>1. AskedBy(s, n, names) <=> LetterOf(n) = L /\ PlaceOf(n, names) = N
      BY <1>6 DEF AskedBy, L, N
    <3>2. PICK k \in DOMAIN m : m[k].name = n
      BY <1>1
    <3>3. ASSUME n = flt PROVE AskedBy(s, n, names)
      BY <1>1, <2>1, <2>2, <3>1, <3>3
    <3>4. ASSUME AskedBy(s, n, names) PROVE n = flt
      <4>1. m[k].letter = L /\ m[k].j = N
        BY <1>1, <2>1, <3>1, <3>2, <3>4
      <4>2. i = k
        BY <1>1, <2>1, <2>2, <4>1
      <4> QED BY <2>2, <3>2, <4>2
    <3> QED BY <3>3, <3>4
  <2> QED BY <2>1, <2>3, <2>4
<1>7. CASE ~looksLikeMethodId(s) /\ looksLikeLetterGroup(s)
  <2>1. grp # {} /\ grp \subseteq resolveLetterGroup(s, names)
    BY <1>7 DEF ResolvedTo
  <2>2. ASSUME NEW g \in grp, NEW n \in ToSet(names) PROVE n \in g <=> AskedBy(s, n, names)
    <3>1. AskedBy(s, n, names) <=> LetterOf(n) = L
      BY <1>7 DEF AskedBy, L
    <3>2. g = {x.name : x \in {z \in ToSet(m) : z.letter = L}}
      BY <1>4, <2>1
    <3>3. PICK k \in DOMAIN m : m[k].name = n
      BY <1>1
    <3>4. ASSUME n \in g PROVE LetterOf(n) = L
      <4>1. PICK z \in ToSet(m) : z.letter = L /\ z.name = n
        BY <3>2, <3>4
      <4> QED BY <1>1, <1>2, <4>1
    <3>5. ASSUME LetterOf(n) = L PROVE n \in g
      <4>1. m[k] \in ToSet(m) /\ m[k].letter = L
        BY <1>1, <1>2, <3>3, <3>5
      <4> QED BY <3>2, <3>3, <4>1
    <3> QED BY <3>1, <3>4, <3>5
  <2> QED BY <2>1, <2>2
<1>8. CASE ~looksLikeMethodId(s) /\ ~looksLikeLetterGroup(s)
  <2>1. grp = {} /\ flt = s
    BY <1>8 DEF ResolvedTo
  <2>2. \A n : AskedBy(s, n, names) <=> s \in {<<>>, n}
    BY <1>8 DEF AskedBy
  <2> QED BY <2>1, <2>2
<1> QED BY <1>6, <1>7, <1>8

(* What Load leaves: the entries asked for, and on the other side all the   *)
(* entries of their names.                                                  *)
LoadedFrom(b, c, s, bs, cr) ==
  /\ bs = Kept(b, {k \in DOMAIN b : AskedBy(s, b[k].name, FirstSeen(b))})
  /\ \E K \in SUBSET DOMAIN c :
       /\ cr = Kept(c, K)
       /\ \A i \in DOMAIN c : (\E x \in ToSet(bs) : x.name = c[i].name) => i \in K

FilteredBy(b, c, flt, grp, s) ==
  IF grp # {} THEN \E g \in grp : s = KeepNames(b, c, g)
  ELSE IF flt # <<>> THEN s = KeepNames(b, c, {flt})
  ELSE s = [base |-> b, cur |-> c]

LEMMA LoadedIs ==
  ASSUME NEW t \in Tools, NEW b \in Seq(Entry(t)), NEW c \in Seq(Entry(t)), NEW s,
         NEW flt, NEW grp, ResolvedTo(s, FirstSeen(b), flt, grp),
         ListsGroups(groupMethodsByLetter(FirstSeen(b)), FirstSeen(b)),
         ToSet(FirstSeen(b)) = {e.name : e \in ToSet(b)},
         NEW f, FilteredBy(b, c, flt, grp, f)
  PROVE  /\ LoadedFrom(b, c, s, f.base, f.cur)
         /\ f.base \in Seq(Entry(t)) /\ f.cur \in Seq(Entry(t))
<1> DEFINE names == FirstSeen(b)
           I == {k \in DOMAIN b : AskedBy(s, b[k].name, names)}
<1>1. \A k \in DOMAIN b : b[k].name \in ToSet(names)
  BY DEF ToSet
<1>2. ASSUME NEW w, f = KeepNames(b, c, w), \A n \in ToSet(names) : n \in w <=> AskedBy(s, n, names)
      PROVE  /\ LoadedFrom(b, c, s, f.base, f.cur)
             /\ f.base \in Seq(Entry(t)) /\ f.cur \in Seq(Entry(t))
  <2> DEFINE J == {k \in DOMAIN b : b[k].name \in w}
             K == {k \in DOMAIN c : c[k].name \in w}
  <2>1. I = J
    BY <1>1, <1>2
  <2>2. f.base = Kept(b, J) /\ f.cur = Kept(c, K)
    BY <1>2 DEF KeepNames
  <2>3. J \in SUBSET DOMAIN b /\ K \in SUBSET DOMAIN c
    OBVIOUS
  <2>4. /\ \A k \in J : b[k].name \in w
        /\ \A k \in DOMAIN c : k \in K <=> c[k].name \in w
    OBVIOUS
  <2> HIDE DEF J, K
  <2>5. ToSet(f.base) = {b[k] : k \in J}
    BY <2>2, <2>3, KeptElements
  <2>7. \A i \in DOMAIN c : (\E x \in ToSet(f.base) : x.name = c[i].name) => i \in K
    BY <2>4, <2>5
  <2>8. f.base \in Seq(Entry(t)) /\ f.cur \in Seq(Entry(t))
    BY <2>2, <2>3, KeptIs
  <2> QED BY <2>1, <2>2, <2>3, <2>7, <2>8 DEF LoadedFrom
<1>3. CASE grp # {}
  <2>1. PICK g \in grp : f = KeepNames(b, c, g)
    BY <1>3 DEF FilteredBy
  <2>2. \A n \in ToSet(names) : n \in g <=> AskedBy(s, n, names)
    BY ResolvedIsAsked
  <2> QED BY <1>2, <2>1, <2>2
<1>4. CASE grp = {} /\ flt # <<>>
  <2>1. f = KeepNames(b, c, {flt})
    BY <1>4 DEF FilteredBy
  <2>2. \A n \in ToSet(names) : n = flt <=> AskedBy(s, n, names)
    BY <1>4, ResolvedIsAsked
  <2>3. \A n \in ToSet(names) : n \in {flt} <=> AskedBy(s, n, names)
    BY <2>2
  <2> QED BY <1>2, <2>1, <2>3
<1>5. CASE grp = {} /\ flt = <<>>
  <2>1. f = [base |-> b, cur |-> c]
    BY <1>5 DEF FilteredBy
  <2>2. \A n \in ToSet(names) : AskedBy(s, n, names)
    BY <1>5, ResolvedIsAsked
  <2>3. I = DOMAIN b
    BY <1>1, <2>2
  <2>4. Kept(b, DOMAIN b) = b /\ Kept(c, DOMAIN c) = c
    BY KeptAll
  <2> QED BY <2>1, <2>3, <2>4 DEF LoadedFrom
<1> QED BY <1>3, <1>4, <1>5

-----------------------------------------------------------------------------
(* The time on the other side, and the summary.                             *)

(* The time of the first entry of c for the benchmark of e, or 0.           *)
PlacesFor(t, c, e) ==
  {i \in DOMAIN c : c[i].name = e.name /\ (t = "google" \/ c[i].iter = e.iter)}
FirstOf(t, c, e, time) ==
  LET same == PlacesFor(t, c, e) IN
    IF same = {} THEN time = 0
    ELSE \E i \in same : time = c[i].time /\ \A j \in same : i <= j

LEMMA CnsIs ==
  ASSUME NEW t \in Tools, NEW c \in Seq(Entry(t)), NEW e
  PROVE  FirstOf(t, c, e, Cns(t, c, e))
<1> DEFINE I == {i \in 1 .. Len(c) : c[i].name = e.name /\ (t = "google" \/ c[i].iter = e.iter)}
           k == IF I # {} THEN CHOOSE x \in I : \A y \in I : x <= y ELSE 0
<1>1. DOMAIN c = 1 .. Len(c) /\ Len(c) \in Nat
  OBVIOUS
<1>2. I = PlacesFor(t, c, e)
  BY <1>1 DEF PlacesFor
<1>3. I # {} => k \in I /\ \A y \in I : k <= y
  <2> SUFFICES ASSUME I # {} PROVE k \in I /\ \A y \in I : k <= y
    OBVIOUS
  <2>1. I \in SUBSET Nat
    BY <1>1
  <2>2. \E n \in I : \A m \in I : n <= m
    <3> HIDE DEF I
    <3> QED BY <2>1, LeastElement
  <2> HIDE DEF I
  <2> QED BY <2>2
<1>4. \A i \in I : i # 0
  BY <1>1
<1>5. Cns(t, c, e) = IF k = 0 THEN 0 ELSE c[k].time
  <2>1. CASE t = "google"
    <3>1. I = {i \in 1 .. Len(c) : c[i].name = e.name}
      BY <2>1
    <3>2. Cns(t, c, e) = G!getCns(c, e.name)
      BY <2>1 DEF Cns
    <3>3. G!SelectInSeq(c, LAMBDA r : r.name = e.name) =
            LET J == {i \in 1 .. Len(c) : c[i].name = e.name} IN IF J # {} THEN G!Min(J) ELSE 0
      BY DEF G!SelectInSeq
    <3>4. G!SelectInSeq(c, LAMBDA r : r.name = e.name) = k
      <4> HIDE DEF I
      <4> QED BY <3>1, <3>3 DEF G!Min
    <3>5. G!getCns(c, e.name) = IF k = 0 THEN 0 ELSE c[k].time
      <4> HIDE DEF k
      <4> QED BY <3>4 DEF G!getCns
    <3> QED BY <3>2, <3>5
  <2>2. CASE t # "google"
    <3>1. I = {i \in 1 .. Len(c) : c[i].name = e.name /\ c[i].iter = e.iter}
      BY <2>2
    <3>2. Cns(t, c, e) = C!getCns(c, e.name, e.iter)
      BY <2>2 DEF Cns
    <3>3. C!SelectInSeq(c, LAMBDA r : r.name = e.name /\ r.iter = e.iter) =
            LET J == {i \in 1 .. Len(c) : c[i].name = e.name /\ c[i].iter = e.iter} IN IF J # {} THEN C!Min(J) ELSE 0
      BY DEF C!SelectInSeq
    <3>4. C!SelectInSeq(c, LAMBDA r : r.name = e.name /\ r.iter = e.iter) = k
      <4> HIDE DEF I
      <4> QED BY <3>1, <3>3 DEF C!Min
    <3>5. C!getCns(c, e.name, e.iter) = IF k = 0 THEN 0 ELSE c[k].time
      <4> HIDE DEF k
      <4> QED BY <3>4 DEF C!getCns
    <3> QED BY <3>2, <3>5
  <2> QED BY <2>1, <2>2
<1>6. I = {} => k = 0
  OBVIOUS
<1> HIDE DEF I, k
<1>7. CASE I = {}
  BY <1>2, <1>5, <1>6, <1>7 DEF FirstOf
<1>8. CASE I # {}
  <2>1. k \in I /\ (\A y \in I : k <= y) /\ Cns(t, c, e) = c[k].time
    BY <1>3, <1>4, <1>5, <1>8
  <2> QED BY <1>2, <1>8, <2>1 DEF FirstOf
<1> QED BY <1>7, <1>8

(* The first of some of the entries, among them all those of the benchmark, *)
(* is the first of all.                                                     *)
LEMMA FirstOfKept ==
  ASSUME NEW X, NEW t, NEW c \in Seq(X), NEW e, NEW K \in SUBSET DOMAIN c,
         PlacesFor(t, c, e) \subseteq K, NEW time, FirstOf(t, Kept(c, K), e, time)
  PROVE  FirstOf(t, c, e, time)
<1> DEFINE n == Cardinality(K)
           u == Kept(c, K)
           P == PlacesFor(t, c, e)
           Q == PlacesFor(t, u, e)
<1>1. PICK f : Picks(f, n, K) /\ u = [k \in 1 .. n |-> c[f[k]]]
  BY KeptIs
<1>2. DOMAIN u = 1 .. n /\ \A k \in 1 .. n : f[k] \in K /\ u[k] = c[f[k]]
  <2> HIDE DEF u, n
  <2> QED BY <1>1 DEF Picks
<1>3. K \subseteq DOMAIN c /\ DOMAIN c \subseteq Nat /\ n \in Nat
  BY <1>1 DEF Picks
<1>4. \A k \in 1 .. n : k \in Q <=> f[k] \in P
  <2> HIDE DEF u, n
  <2> QED BY <1>2, <1>3 DEF PlacesFor
<1>5. Q \subseteq 1 .. n /\ P \subseteq K
  <2> HIDE DEF u, n
  <2> QED BY <1>2 DEF PlacesFor
<1>6. \A j \in P : \E k \in Q : f[k] = j
  <2> HIDE DEF u, n, P, Q
  <2> QED BY <1>1, <1>4, <1>5 DEF Picks
<1>7. \A k, j \in 1 .. n : k <= j => f[k] <= f[j]
  <2>1. \A k, j \in 1 .. n : f[j] < f[k] => j < k
    BY <1>1 DEF Picks
  <2>2. \A k \in 1 .. n : f[k] \in Nat
    BY <1>2, <1>3
  <2> HIDE DEF n
  <2> QED BY <1>3, <2>1, <2>2
<1>8. IF Q = {} THEN time = 0 ELSE \E i \in Q : time = u[i].time /\ \A j \in Q : i <= j
  BY DEF FirstOf
<1> HIDE DEF n, u, P, Q
<1>9. CASE P = {}
  <2>1. Q = {}
    BY <1>4, <1>5, <1>9
  <2> QED BY <1>8, <1>9, <2>1 DEF FirstOf, P
<1>10. CASE P # {}
  <2>1. Q # {}
    BY <1>6, <1>10
  <2>2. PICK i \in Q : time = u[i].time /\ \A j \in Q : i <= j
    BY <1>8, <2>1
  <2>3. f[i] \in P /\ time = c[f[i]].time
    BY <1>2, <1>4, <1>5, <2>2
  <2>4. ASSUME NEW j \in P PROVE f[i] <= j
    <3>1. PICK k \in Q : f[k] = j
      BY <1>6
    <3>2. i <= k
      BY <2>2
    <3> QED BY <1>5, <1>7, <2>2, <3>1, <3>2
  <2> QED BY <1>10, <2>3, <2>4 DEF FirstOf, P
<1> QED BY <1>9, <1>10

LEMMA TimeIs ==
  /\ \A x \in 0 .. MAX_NS : x \in Nat /\ x < 1000000000
  /\ 0 \in 0 .. MAX_NS
<1>1. MAX_NS \in Nat /\ MAX_NS < 1000000000
  BY SMT DEF MAX_NS
<1>2. \A x \in 0 .. MAX_NS : x \in Nat /\ x <= MAX_NS
  BY <1>1
<1>3. 0 \in 0 .. MAX_NS
  BY <1>1
<1>4. \A x \in 0 .. MAX_NS : x < 1000000000
  BY <1>1, <1>2
<1> QED BY <1>2, <1>3, <1>4

LEMMA CnsType ==
  ASSUME NEW t \in Tools, NEW c \in Seq(Entry(t)), NEW e
  PROVE  Cns(t, c, e) \in 0 .. MAX_NS
<1>1. \A x \in ToSet(c) : x.time \in 0 .. MAX_NS
  <2>1. \A x \in Entry(t) : x.time \in 0 .. MAX_NS
    BY DEF Entry, Tools
  <2>2. ToSet(c) \subseteq Entry(t)
    BY DEF ToSet
  <2> QED BY <2>1, <2>2
<1>2. 0 \in 0 .. MAX_NS
  BY TimeIs
<1>3. FirstOf(t, c, e, Cns(t, c, e))
  BY CnsIs
<1>4. \A i \in PlacesFor(t, c, e) : c[i] \in ToSet(c)
  BY DEF PlacesFor, ToSet
<1> QED BY <1>1, <1>2, <1>3, <1>4 DEF FirstOf

RowsOf(t, bs, cr, rows) ==
  /\ IsSeq(rows) /\ Len(rows) <= Len(bs)
  /\ \A k \in DOMAIN rows : rows[k] = RowFor(t, bs[k], Cns(t, cr, bs[k]))

LEMMA RowsAre ==
  ASSUME NEW t \in Tools, NEW bs \in Seq(Entry(t)), NEW cr \in Seq(Entry(t)), NEW rows,
         RowsOf(t, bs, cr, rows), NEW k \in DOMAIN rows
  PROVE  /\ k \in DOMAIN bs /\ bs[k] \in Entry(t)
         /\ rows[k].name = bs[k].name /\ rows[k].b = bs[k].time /\ rows[k].c = Cns(t, cr, bs[k])
         /\ t # "google" => rows[k].suite = bs[k].suite /\ rows[k].iter = bs[k].iter
         /\ rows[k].b \in 0 .. MAX_NS /\ rows[k].c \in 0 .. MAX_NS
<1>1. k \in DOMAIN bs /\ rows[k] = RowFor(t, bs[k], Cns(t, cr, bs[k]))
  BY DEF RowsOf, IsSeq
<1>2. bs[k] \in Entry(t) /\ bs[k].time \in 0 .. MAX_NS
  <2>1. \A x \in Entry(t) : x.time \in 0 .. MAX_NS
    BY DEF Entry, Tools
  <2> QED BY <1>1, <2>1
<1>3. Cns(t, cr, bs[k]) \in 0 .. MAX_NS
  BY CnsType
<1>4. /\ rows[k].name = bs[k].name /\ rows[k].b = bs[k].time /\ rows[k].c = Cns(t, cr, bs[k])
      /\ t # "google" => rows[k].suite = bs[k].suite /\ rows[k].iter = bs[k].iter
  BY <1>1 DEF RowFor
<1> QED BY <1>1, <1>2, <1>3, <1>4

CountedOf(rows) ==
  [faster |-> Cardinality({k \in DOMAIN rows : Faster(rows[k].b, rows[k].c)}),
   slower |-> Cardinality({k \in DOMAIN rows : Slower(rows[k].b, rows[k].c)}),
   tied |-> Cardinality({k \in DOMAIN rows : Noise(rows[k].b, rows[k].c)})]

(* From less to more by one per cent of the whole.                          *)
Much(less, more, whole) == less < more /\ whole <= 100 * (more - less)

LEMMA IsMuch ==
  ASSUME NEW b \in Nat, NEW c \in Nat
  PROVE  /\ Faster(b, c) <=> Much(c, b, c)
         /\ Slower(b, c) <=> 0 < b /\ Much(b, c, c)
<1>1. \A g, x \in Nat : x > 0 => (g <= (x - 1) \div 100 <=> 100 * g < x)
  <2> SUFFICES ASSUME NEW g \in Nat, NEW x \in Nat, x > 0
               PROVE  g <= (x - 1) \div 100 <=> 100 * g < x
    OBVIOUS
  <2> DEFINE q == (x - 1) \div 100
  <2>1. q \in Int /\ 100 * q <= x - 1 /\ x - 1 < 100 * q + 100
    OBVIOUS
  <2> HIDE DEF q
  <2>2. g <= q <=> 100 * g < x
    BY <2>1
  <2> QED BY <2>2 DEF q
<1>2. CASE b > c
  <2>1. Gap(b, c) = b - c /\ b - c \in Nat /\ b # 0
    BY <1>2 DEF Gap
  <2>2. c > 0 => (Gap(b, c) <= (c - 1) \div 100 <=> 100 * (b - c) < c)
    BY <1>1, <2>1
  <2>3. Noise(b, c) <=> c > 0 /\ 100 * (b - c) < c
    BY <2>1, <2>2 DEF Noise
  <2> QED BY <1>2, <2>1, <2>3 DEF Faster, Slower, Much
<1>3. CASE b < c
  <2>1. Gap(b, c) = c - b /\ c - b \in Nat /\ c > 0
    BY <1>3 DEF Gap
  <2>2. Gap(b, c) <= (c - 1) \div 100 <=> 100 * (c - b) < c
    BY <1>1, <2>1
  <2>3. Noise(b, c) <=> b = 0 \/ 100 * (c - b) < c
    BY <2>1, <2>2 DEF Noise
  <2> QED BY <1>3, <2>1, <2>3 DEF Faster, Slower, Much
<1>4. CASE b = c
  BY <1>4 DEF Faster, Slower, Much
<1> QED BY <1>2, <1>3, <1>4

LEMMA SummaryIs ==
  ASSUME NEW rows, IsSeq(rows), \A k \in DOMAIN rows : rows[k].b \in Nat /\ rows[k].c \in Nat
  PROVE  LET s == CountedOf(rows) IN
         /\ s.faster + s.slower + s.tied = Len(rows)
         /\ s.faster = Cardinality({k \in DOMAIN rows : Much(rows[k].c, rows[k].b, rows[k].c)})
         /\ s.slower = Cardinality({k \in DOMAIN rows :
                        0 < rows[k].b /\ Much(rows[k].b, rows[k].c, rows[k].c)})
<1> DEFINE D == 1 .. Len(rows)
           F == {k \in D : Faster(rows[k].b, rows[k].c)}
           S == {k \in D : Slower(rows[k].b, rows[k].c)}
           N == {k \in D : Noise(rows[k].b, rows[k].c)}
           More == {k \in D : Much(rows[k].c, rows[k].b, rows[k].c)}
           Less == {k \in D : 0 < rows[k].b /\ Much(rows[k].b, rows[k].c, rows[k].c)}
<1>1. DOMAIN rows = D /\ Len(rows) \in Nat
  BY DEF IsSeq
<1>2. IsFiniteSet(D) /\ Cardinality(D) = Len(rows)
  BY <1>1, Interval
<1>3. ASSUME NEW b \in Nat, NEW c \in Nat
      PROVE  /\ Faster(b, c) \/ Slower(b, c) \/ Noise(b, c)
             /\ ~(Faster(b, c) /\ Slower(b, c)) /\ ~(Faster(b, c) /\ Noise(b, c))
             /\ ~(Slower(b, c) /\ Noise(b, c))
  <2>1. b = c => Noise(b, c)
    <3>1. CASE b = 0
      BY <3>1 DEF Noise
    <3>2. CASE b = c /\ c > 0
      <4>1. Gap(b, c) = 0 /\ (c - 1) \div 100 >= 0
        BY <3>2 DEF Gap
      <4> QED BY <3>2, <4>1 DEF Noise
    <3> QED BY <3>1, <3>2
  <2>2. CASE Noise(b, c)
    BY <2>2 DEF Faster, Slower
  <2>3. CASE ~Noise(b, c)
    <3>1. b > c \/ b < c
      BY <2>1, <2>3
    <3>2. (Faster(b, c) <=> b > c) /\ (Slower(b, c) <=> b < c)
      <4>1. ASSUME b > c PROVE Faster(b, c)
        BY <2>3, <4>1 DEF Faster
      <4>2. ASSUME b < c PROVE Slower(b, c)
        BY <2>3, <4>2 DEF Slower
      <4> QED BY <4>1, <4>2 DEF Faster, Slower
    <3> QED BY <2>3, <3>1, <3>2
  <2> QED BY <2>2, <2>3
<1>4. \A k \in D : rows[k].b \in Nat /\ rows[k].c \in Nat
  BY <1>1
<1>5. /\ D = F \cup S \cup N /\ (F \cup S) \cap N = {} /\ F \cap S = {}
      /\ F = More /\ S = Less
  <2>1. D \subseteq F \cup S \cup N
    BY <1>3, <1>4
  <2>2. (F \cup S) \cap N = {} /\ F \cap S = {}
    BY <1>3, <1>4
  <2>3. \A k \in D : /\ Faster(rows[k].b, rows[k].c) <=> Much(rows[k].c, rows[k].b, rows[k].c)
                     /\ Slower(rows[k].b, rows[k].c)
                          <=> 0 < rows[k].b /\ Much(rows[k].b, rows[k].c, rows[k].c)
    BY <1>4, IsMuch
  <2>4. F = More /\ S = Less
    BY <2>3
  <2> QED BY <2>1, <2>2, <2>4
<1>6. F \subseteq D /\ S \subseteq D /\ N \subseteq D /\ More \subseteq D /\ Less \subseteq D
  OBVIOUS
<1>7. CountedOf(rows) = [faster |-> Cardinality(F), slower |-> Cardinality(S), tied |-> Cardinality(N)]
  BY <1>1 DEF CountedOf
<1>8. /\ Cardinality(More) = Cardinality({k \in DOMAIN rows : Much(rows[k].c, rows[k].b, rows[k].c)})
      /\ Cardinality(Less) = Cardinality({k \in DOMAIN rows :
                                0 < rows[k].b /\ Much(rows[k].b, rows[k].c, rows[k].c)})
  BY <1>1
<1> HIDE DEF D, F, S, N, More, Less
<1>9. IsFiniteSet(F) /\ IsFiniteSet(S) /\ IsFiniteSet(N) /\ IsFiniteSet(More) /\ IsFiniteSet(Less)
  BY <1>2, <1>6, FS_Subset
<1>10. /\ Cardinality(F) \in Nat /\ Cardinality(S) \in Nat /\ Cardinality(N) \in Nat
       /\ Cardinality(F) = Cardinality(More) /\ Cardinality(S) = Cardinality(Less)
  BY <1>5, <1>9, FS_CardinalityType
<1>11. IsFiniteSet(F \cup S) /\ Cardinality(F \cup S) = Cardinality(F) + Cardinality(S)
  <2>1. /\ IsFiniteSet(F \cup S)
        /\ Cardinality(F \cup S) = Cardinality(F) + Cardinality(S) - Cardinality(F \cap S)
    BY <1>9, FS_Union
  <2>2. Cardinality(F \cap S) = 0
    BY <1>5, FS_EmptySet
  <2> QED BY <1>10, <2>1, <2>2
<1>12. Cardinality(D) = Cardinality(F) + Cardinality(S) + Cardinality(N)
  <2>1. Cardinality((F \cup S) \cup N)
          = Cardinality(F \cup S) + Cardinality(N) - Cardinality((F \cup S) \cap N)
    BY <1>9, <1>11, FS_Union
  <2>2. Cardinality((F \cup S) \cap N) = 0
    BY <1>5, FS_EmptySet
  <2> QED BY <1>5, <1>10, <1>11, <2>1, <2>2
<1> QED BY <1>2, <1>7, <1>8, <1>10, <1>12

-----------------------------------------------------------------------------
(* A comparison.                                                            *)

Early == {"args", "methods", "resolve", "load"}
After == {"print", "summary", "json", "md"}
Full(a, ph, ex) == ph = "done" /\ ex = 0 /\ Comparing(a)

Chosen(t, w, a, fs) ==
  /\ VersionsOf(a) = 2 => <<fs.current>> = a[1] /\ <<fs.baseline>> = a[2]
  /\ VersionsOf(a) = 1 => fs.current = Live /\ <<fs.baseline>> = a[1]
  /\ VersionsOf(a) = 0 => /\ fs.current = Live /\ fs.baseline \in Folders(t, w)
                          /\ \A u \in Folders(t, w) : NoNewer(u, fs.baseline)

IsLoaded(t, w, a, fs, bs, cr) ==
  \E b \in Snapshot(t, w, fs.baseline), c \in Snapshot(t, w, fs.current) :
    LoadedFrom(b, c, WordsOf(a), bs, cr)

IsResolved(t, w, a, fs, flt, grp) ==
  \A r \in Snapshot(t, w, fs.baseline) : ResolvedTo(WordsOf(a), FirstSeen(r), flt, grp)

Files == [{"current", "baseline"} -> DOMAIN Tags \cup {Live}]

RepInv(t, bs, cr, rep) ==
  /\ bs \in Seq(Entry(t)) /\ cr \in Seq(Entry(t))
  /\ IsReport(rep) /\ RowsOf(t, bs, cr, rep.rows) /\ MdInv(rep.md, rep.rows)

SavedInv(ph, rep, sum, sav) ==
  /\ sav = [json |-> sav.json, md |-> sav.md]
  /\ sum \subseteq {CountedOf(rep.rows)}
  /\ sav.json \subseteq {rep.rows} /\ sav.md \subseteq {[body |-> rep.md, result |-> sum]}
  /\ ph \in {"print", "summary"} => sum = {}
  /\ ph \in {"print", "summary", "json"} => sav = NoReports
  /\ ph = "md" => sav.md = {}

CompareInv(t, w, a, ph, ex, fs, flt, grp, bs, cr, p, rep, sum, sav) ==
  /\ ph # "done" => ex = -1
  /\ ex = 1 => sav = NoReports
  /\ ph \in ComparisonPhases => Comparing(a)
  /\ ph \in Early => bs = <<>> /\ cr = <<>> /\ rep = EmptyReport /\ sum = {} /\ sav = NoReports
  /\ ph \in {"args", "resolve", "load"} => p = 1
  /\ ph \in {"args", "resolve"} => grp = {}
  /\ fs \in Files /\ (ph \in ComparisonPhases \/ Full(a, ph, ex) => Chosen(t, w, a, fs))
  /\ ph = "resolve" => flt = WordsOf(a)
  /\ ph = "load" => IsResolved(t, w, a, fs, flt, grp)
  /\ ph \in After \/ Full(a, ph, ex) => IsLoaded(t, w, a, fs, bs, cr)
  /\ RepInv(t, bs, cr, rep) /\ SavedInv(ph, rep, sum, sav)
  /\ ph = "print" => p = Len(rep.rows) + 1
  /\ ph \in {"summary", "json", "md"} \/ Full(a, ph, ex) => Len(rep.rows) = Len(bs)

LEMMA EmptyReportIs ==
  ASSUME NEW t
  PROVE  /\ RepInv(t, <<>>, <<>>, EmptyReport) /\ \A ph : SavedInv(ph, EmptyReport, {}, NoReports)
         /\ Len(EmptyReport.rows) = 0
<1>1. EmptyReport.rows = <<>> /\ EmptyReport.md = <<>> /\ IsReport(EmptyReport)
  BY DEF EmptyReport, IsReport
<1>2. RowsOf(t, <<>>, <<>>, <<>>)
  BY DEF RowsOf, IsSeq
<1>3. MdInv(<<>>, <<>>)
  BY CountsStart DEF MdInv, IsSeq
<1>4. RepInv(t, <<>>, <<>>, EmptyReport)
  BY <1>1, <1>2, <1>3 DEF RepInv
<1>5. ASSUME NEW ph PROVE SavedInv(ph, EmptyReport, {}, NoReports)
  BY DEF SavedInv, NoReports
<1> QED BY <1>1, <1>4, <1>5

LEMMA CStarts ==
  ASSUME NEW t, NEW w, NEW a, NEW fs \in Files, NEW flt
  PROVE  CompareInv(t, w, a, "args", -1, fs, flt, {}, <<>>, <<>>, 1, EmptyReport, {}, NoReports)
BY EmptyReportIs DEF CompareInv, ComparisonPhases, Early, After, Full

(* The run throws, or is about the other commands.                          *)
LEMMA CLeaves ==
  ASSUME NEW t, NEW w, NEW a, NEW ph \in Early, NEW ex, NEW fs, NEW flt, NEW grp, NEW bs, NEW cr,
         NEW p, NEW rep, NEW sum, NEW sav,
         CompareInv(t, w, a, ph, ex, fs, flt, grp, bs, cr, p, rep, sum, sav)
  PROVE  /\ CompareInv(t, w, a, "done", 1, fs, flt, grp, bs, cr, p, rep, sum, sav)
         /\ \A p2 : CompareInv(t, w, a, "methods", -1, fs, flt, grp, bs, cr, p2, rep, sum, sav)
         /\ ~Comparing(a) => CompareInv(t, w, a, "done", 0, fs, flt, grp, bs, cr, p, rep, sum, sav)
<1>1. /\ bs = <<>> /\ cr = <<>> /\ rep = EmptyReport /\ sum = {} /\ sav = NoReports /\ fs \in Files
  BY DEF CompareInv
<1>2. RepInv(t, bs, cr, rep) /\ \A x : SavedInv(x, rep, sum, sav)
  BY <1>1, EmptyReportIs
<1> QED BY <1>1, <1>2 DEF CompareInv, ComparisonPhases, Early, After, Full

LEMMA CChooses ==
  ASSUME NEW t, NEW w, NEW a, NEW ex, NEW fs, NEW flt, NEW grp, NEW bs, NEW cr,
         NEW p, NEW rep, NEW sum, NEW sav,
         CompareInv(t, w, a, "args", ex, fs, flt, grp, bs, cr, p, rep, sum, sav),
         Comparing(a), NEW fs2 \in Files, Chosen(t, w, a, fs2)
  PROVE  CompareInv(t, w, a, "resolve", -1, fs2, WordsOf(a), grp, bs, cr, p, rep, sum, sav)
<1>1. /\ bs = <<>> /\ cr = <<>> /\ rep = EmptyReport /\ sum = {} /\ sav = NoReports
      /\ p = 1 /\ grp = {}
  BY DEF CompareInv, Early
<1>2. RepInv(t, bs, cr, rep) /\ \A x : SavedInv(x, rep, sum, sav)
  BY <1>1, EmptyReportIs
<1> QED BY <1>1, <1>2 DEF CompareInv, ComparisonPhases, Early, After, Full

LEMMA CResolves ==
  ASSUME NEW t, NEW w, NEW a, NEW ex, NEW fs, NEW flt, NEW grp, NEW bs, NEW cr,
         NEW p, NEW rep, NEW sum, NEW sav,
         CompareInv(t, w, a, "resolve", ex, fs, flt, grp, bs, cr, p, rep, sum, sav),
         NEW flt2, NEW grp2, IsResolved(t, w, a, fs, flt2, grp2)
  PROVE  CompareInv(t, w, a, "load", -1, fs, flt2, grp2, bs, cr, p, rep, sum, sav)
<1>1. /\ bs = <<>> /\ cr = <<>> /\ rep = EmptyReport /\ sum = {} /\ sav = NoReports
      /\ p = 1 /\ Comparing(a) /\ fs \in Files /\ Chosen(t, w, a, fs)
  BY DEF CompareInv, Early, ComparisonPhases
<1>2. RepInv(t, bs, cr, rep) /\ \A x : SavedInv(x, rep, sum, sav)
  BY <1>1, EmptyReportIs
<1> QED BY <1>1, <1>2 DEF CompareInv, ComparisonPhases, Early, After, Full

LEMMA CLoads ==
  ASSUME NEW t, NEW w, NEW a, NEW ex, NEW fs, NEW flt, NEW grp, NEW bs, NEW cr,
         NEW p, NEW rep, NEW sum, NEW sav,
         CompareInv(t, w, a, "load", ex, fs, flt, grp, bs, cr, p, rep, sum, sav),
         NEW bs2 \in Seq(Entry(t)), NEW cr2 \in Seq(Entry(t)), IsLoaded(t, w, a, fs, bs2, cr2)
  PROVE  CompareInv(t, w, a, "print", -1, fs, flt, grp, bs2, cr2, p, rep, sum, sav)
<1>1. /\ rep = EmptyReport /\ sum = {} /\ sav = NoReports
      /\ p = 1 /\ Comparing(a) /\ fs \in Files /\ Chosen(t, w, a, fs)
  BY DEF CompareInv, Early, ComparisonPhases
<1>2. \A x : SavedInv(x, rep, sum, sav)
  BY <1>1, EmptyReportIs
<1>3. RepInv(t, bs2, cr2, rep) /\ p = Len(rep.rows) + 1
  <2>1. RepInv(t, <<>>, <<>>, rep) /\ Len(rep.rows) = 0 /\ rep.rows = <<>>
    BY <1>1, EmptyReportIs DEF EmptyReport
  <2>2. RowsOf(t, bs2, cr2, rep.rows)
    BY <2>1 DEF RowsOf, RepInv
  <2> QED BY <1>1, <2>1, <2>2 DEF RepInv
<1> QED BY <1>1, <1>2, <1>3 DEF CompareInv, ComparisonPhases, Early, After, Full

LEMMA CPrints ==
  ASSUME NEW t \in Tools, NEW w, NEW a, NEW ex, NEW fs, NEW flt, NEW grp, NEW bs, NEW cr,
         NEW p, NEW rep, NEW sum, NEW sav,
         CompareInv(t, w, a, "print", ex, fs, flt, grp, bs, cr, p, rep, sum, sav),
         p \in DOMAIN bs, NEW labels
  PROVE  CompareInv(t, w, a, "print", -1, fs, flt, grp, bs, cr, p + 1,
                    Printed(t, rep, bs[p], cr, labels), sum, sav)
<1> DEFINE new == Printed(t, rep, bs[p], cr, labels)
           row == RowFor(t, bs[p], Cns(t, cr, bs[p]))
           h == GroupName(t, bs[p])
<1>1. /\ sum = {} /\ sav = NoReports /\ Comparing(a) /\ fs \in Files /\ Chosen(t, w, a, fs)
      /\ RepInv(t, bs, cr, rep) /\ IsLoaded(t, w, a, fs, bs, cr) /\ p = Len(rep.rows) + 1
  BY DEF CompareInv, ComparisonPhases, After, SavedInv
<1>2. /\ IsReport(new) /\ new.rows = Append(rep.rows, row)
      /\ new.md = Append(MdBefore(rep, h), [at |-> "row", row |-> row])
  BY DEF Printed, IsReport
<1> HIDE DEF new
<1>3. \A x : SavedInv(x, new, sum, sav)
  BY <1>1 DEF SavedInv, NoReports
<1>4. IsSeq(rep.rows) /\ MdInv(rep.md, rep.rows) /\ RowsOf(t, bs, cr, rep.rows)
  BY <1>1 DEF RepInv, RowsOf
<1>5. MdInv(new.md, new.rows)
  <2>1. MdInv(MdBefore(rep, h), rep.rows)
    <3>1. CASE rep.group # h
      BY <1>4, <3>1, MdGrows DEF MdBefore
    <3>2. CASE rep.group = h
      BY <1>4, <3>2 DEF MdBefore
    <3> QED BY <3>1, <3>2
  <2> HIDE DEF row, h
  <2> QED BY <1>2, <2>1, MdGrows
<1>6. RowsOf(t, bs, cr, new.rows) /\ Len(new.rows) = p
  <2>1. /\ IsSeq(new.rows) /\ Len(rep.rows) \in Nat /\ DOMAIN rep.rows = 1 .. Len(rep.rows)
        /\ Len(new.rows) = p /\ DOMAIN new.rows = 1 .. p
        /\ \A k \in 1 .. Len(rep.rows) : new.rows[k] = rep.rows[k]
        /\ new.rows[p] = row
    <3> HIDE DEF row
    <3> QED BY <1>1, <1>2, <1>4, Extended
  <2>2. p <= Len(bs)
    BY <1>1 DEF RepInv
  <2>3. \A k \in 1 .. p : k \in 1 .. Len(rep.rows) \/ k = p
    BY <1>1, <2>1
  <2> QED BY <1>4, <2>1, <2>2, <2>3 DEF RowsOf
<1>7. RepInv(t, bs, cr, new) /\ p + 1 = Len(new.rows) + 1
  BY <1>1, <1>2, <1>5, <1>6 DEF RepInv
<1>8. CompareInv(t, w, a, "print", -1, fs, flt, grp, bs, cr, p + 1, new, sum, sav)
  BY <1>1, <1>3, <1>7 DEF CompareInv, ComparisonPhases, Early, After, Full
<1> QED BY <1>8 DEF new

(* After the loop the table may be closed, and the results are counted and  *)
(* saved.                                                                   *)
LEMMA CEnds ==
  ASSUME NEW t \in Tools, NEW w, NEW a, NEW ex, NEW fs, NEW flt, NEW grp, NEW bs, NEW cr,
         NEW p, NEW rep, NEW sum, NEW sav,
         CompareInv(t, w, a, "print", ex, fs, flt, grp, bs, cr, p, rep, sum, sav),
         p \notin DOMAIN bs, NEW rep2, IsReport(rep2), rep2.rows = rep.rows, rep2.md = rep.md
  PROVE  CompareInv(t, w, a, "summary", -1, fs, flt, grp, bs, cr, p, rep2, sum, sav)
<1>1. /\ sum = {} /\ sav = NoReports /\ Comparing(a) /\ fs \in Files /\ Chosen(t, w, a, fs)
      /\ RepInv(t, bs, cr, rep) /\ IsLoaded(t, w, a, fs, bs, cr) /\ p = Len(rep.rows) + 1
  BY DEF CompareInv, ComparisonPhases, After, SavedInv
<1>2. \A x : SavedInv(x, rep2, sum, sav)
  BY <1>1 DEF SavedInv, NoReports
<1>3. RepInv(t, bs, cr, rep2)
  BY <1>1 DEF RepInv
<1>4. Len(rep2.rows) = Len(bs)
  <2>1. Len(rep.rows) <= Len(bs) /\ Len(rep.rows) \in Nat /\ DOMAIN bs = 1 .. Len(bs) /\ Len(bs) \in Nat
    BY <1>1 DEF RepInv, RowsOf, IsSeq
  <2> QED BY <1>1, <2>1
<1> QED BY <1>1, <1>2, <1>3, <1>4 DEF CompareInv, ComparisonPhases, Early, After, Full

LEMMA CSums ==
  ASSUME NEW t \in Tools, NEW w, NEW a, NEW ex, NEW fs, NEW flt, NEW grp, NEW bs, NEW cr,
         NEW p, NEW rep, NEW sum, NEW sav, NEW ph \in {"summary", "json", "md"},
         CompareInv(t, w, a, ph, ex, fs, flt, grp, bs, cr, p, rep, sum, sav)
  PROVE  /\ ph = "summary" => \A sum2 \in SUBSET {CountedOf(rep.rows)} :
              CompareInv(t, w, a, "json", -1, fs, flt, grp, bs, cr, p, rep, sum2, sav)
         /\ ph = "json" => /\ CompareInv(t, w, a, "md", -1, fs, flt, grp, bs, cr, p, rep, sum, sav)
                           /\ CompareInv(t, w, a, "md", -1, fs, flt, grp, bs, cr, p, rep, sum,
                                         [sav EXCEPT !.json = {rep.rows}])
         /\ ph = "md" => /\ CompareInv(t, w, a, "done", 0, fs, flt, grp, bs, cr, p, rep, sum, sav)
                         /\ CompareInv(t, w, a, "done", 0, fs, flt, grp, bs, cr, p, rep, sum,
                                       [sav EXCEPT !.md = {[body |-> rep.md, result |-> sum]}])
<1>1. /\ Comparing(a) /\ fs \in Files /\ Chosen(t, w, a, fs) /\ SavedInv(ph, rep, sum, sav)
      /\ RepInv(t, bs, cr, rep) /\ IsLoaded(t, w, a, fs, bs, cr) /\ Len(rep.rows) = Len(bs)
  BY DEF CompareInv, ComparisonPhases, After
<1>2. ASSUME NEW ph2 \in {"json", "md", "done"}, NEW ex2, ex2 = (IF ph2 = "done" THEN 0 ELSE -1),
             NEW sum2, NEW sav2, SavedInv(ph2, rep, sum2, sav2)
      PROVE  CompareInv(t, w, a, ph2, ex2, fs, flt, grp, bs, cr, p, rep, sum2, sav2)
  <2> HIDE DEF SavedInv
  <2> QED BY <1>1, <1>2 DEF CompareInv, ComparisonPhases, Early, After, Full
<1>3. ASSUME ph = "summary", NEW sum2 \in SUBSET {CountedOf(rep.rows)}
      PROVE  CompareInv(t, w, a, "json", -1, fs, flt, grp, bs, cr, p, rep, sum2, sav)
  <2>1. SavedInv("json", rep, sum2, sav)
    BY <1>1, <1>3 DEF SavedInv, NoReports
  <2> QED BY <1>2, <2>1
<1>4. ASSUME ph = "json"
      PROVE  /\ CompareInv(t, w, a, "md", -1, fs, flt, grp, bs, cr, p, rep, sum, sav)
             /\ CompareInv(t, w, a, "md", -1, fs, flt, grp, bs, cr, p, rep, sum,
                           [sav EXCEPT !.json = {rep.rows}])
  <2>1. SavedInv("md", rep, sum, sav)
    BY <1>1, <1>4 DEF SavedInv, NoReports
  <2>2. SavedInv("md", rep, sum, [sav EXCEPT !.json = {rep.rows}])
    <3>0. sav = [json |-> {}, md |-> {}] /\ sum \subseteq {CountedOf(rep.rows)}
      BY <1>1, <1>4 DEF SavedInv, NoReports
    <3>1. [sav EXCEPT !.json = {rep.rows}] = [json |-> {rep.rows}, md |-> {}]
      BY <3>0
    <3> QED BY <3>0, <3>1 DEF SavedInv
  <2> QED BY <1>2, <2>1, <2>2
<1>5. ASSUME ph = "md"
      PROVE  /\ CompareInv(t, w, a, "done", 0, fs, flt, grp, bs, cr, p, rep, sum, sav)
             /\ CompareInv(t, w, a, "done", 0, fs, flt, grp, bs, cr, p, rep, sum,
                           [sav EXCEPT !.md = {[body |-> rep.md, result |-> sum]}])
  <2>1. SavedInv("done", rep, sum, sav)
    BY <1>1, <1>5 DEF SavedInv
  <2>2. SavedInv("done", rep, sum, [sav EXCEPT !.md = {[body |-> rep.md, result |-> sum]}])
    <3>1. sav = [json |-> sav.json, md |-> sav.md] /\ sav.json \subseteq {rep.rows}
      BY <1>1 DEF SavedInv
    <3>2. [sav EXCEPT !.md = {[body |-> rep.md, result |-> sum]}]
            = [json |-> sav.json, md |-> {[body |-> rep.md, result |-> sum]}]
      BY <3>1
    <3> QED BY <1>1, <3>1, <3>2 DEF SavedInv
  <2> QED BY <1>2, <2>1, <2>2
<1> QED BY <1>3, <1>4, <1>5

CInv ==
  /\ tool \in Tools /\ argv \in Argvs /\ world \in Worlds
  /\ CompareInv(tool, world, argv, phase, exit, files, filter, group, base, cur, pos, report,
                summary, saved)

LEMMA CInvStarts == Init => CInv
<1> SUFFICES ASSUME Init PROVE CInv
  OBVIOUS
<1>1. /\ phase = "args" /\ exit = -1 /\ pos = 1 /\ group = {} /\ base = <<>> /\ cur = <<>>
      /\ report = EmptyReport /\ summary = {} /\ saved = NoReports
      /\ tool \in Tools /\ argv \in Argvs /\ world \in Worlds
      /\ files = [current |-> Live, baseline |-> Live]
  BY DEF Init, Tools
<1>2. files \in Files
  BY <1>1 DEF Files
<1>3. CompareInv(tool, world, argv, "args", -1, files, filter, {}, <<>>, <<>>, 1, EmptyReport, {}, NoReports)
  BY <1>2, CStarts
<1> QED BY <1>1, <1>3 DEF CInv

LEMMA FilteredIs ==
  tool \in Tools =>
    \A b, c : \A s \in Filtered(b, c) : FilteredBy(b, c, filter, group, s)
<1> SUFFICES ASSUME tool \in Tools, NEW b, NEW c, NEW s \in Filtered(b, c)
             PROVE  FilteredBy(b, c, filter, group, s)
  OBVIOUS
<1>1. CASE group # {}
  <2>1. PICK g \in group : s \in IF Google THEN G!applyGroupFilter(b, c, g) ELSE C!applyGroupFilter(b, c, g)
    BY <1>1 DEF Filtered
  <2>2. s = KeepNames(b, c, g)
    BY <2>1, SuitesFilter
  <2> QED BY <1>1, <2>2 DEF FilteredBy
<1>2. CASE group = {} /\ filter # <<>>
  <2>1. s \in IF Google THEN G!applyMethodFilter(b, c, filter) ELSE C!applyMethodFilter(b, c, filter)
    BY <1>2 DEF Filtered
  <2>2. s = KeepNames(b, c, {filter})
    BY <2>1, SuitesFilter
  <2> QED BY <1>2, <2>2 DEF FilteredBy
<1>3. CASE group = {} /\ filter = <<>>
  <2>1. s = [base |-> b, cur |-> c]
    BY <1>3 DEF Filtered
  <2> QED BY <1>3, <2>1 DEF FilteredBy
<1> QED BY <1>1, <1>2, <1>3

LEMMA CInvResolves == CInv /\ Resolve => CInv'
<1> SUFFICES ASSUME CInv, Resolve PROVE CInv'
  OBVIOUS
<1>1. /\ tool \in Tools /\ argv \in Argvs /\ world \in Worlds
      /\ phase = "resolve" /\ phase' = "load"
      /\ UNCHANGED <<tool, argv, world, files, base, cur, pos, report, summary, saved, exit>>
  BY DEF CInv, Resolve, inputs
<1>2. CompareInv(tool, world, argv, "resolve", exit, files, filter, group, base, cur, pos, report,
                 summary, saved)
  BY <1>1 DEF CInv
<1>3. filter = WordsOf(argv) /\ group = {} /\ files \in Files /\ exit = -1
  BY <1>2 DEF CompareInv, Early
<1>4. files.baseline \in DOMAIN Tags \cup {Live}
  BY <1>3 DEF Files
<1>5. IsResolved(tool, world, argv, files, filter', group')
  <2> SUFFICES ASSUME NEW r \in Snapshot(tool, world, files.baseline)
               PROVE  ResolvedTo(WordsOf(argv), FirstSeen(r), filter', group')
    BY DEF IsResolved
  <2>1. \A u \in loadResults(files.baseline) : u = r
    BY <1>1, <1>4, Reading, SnapshotIs
  <2>2. Names(r) = FirstSeen(r)
    BY <1>1, Reading
  <2>3. CASE looksLikeMethodId(filter)
    <3>1. (\E u \in loadResults(files.baseline) : filter' \in resolveMethodId(filter, Names(u))) /\ group' = group
      <4>1. ~looksLikeLetterGroup(filter)
        BY <2>3 DEF looksLikeMethodId, looksLikeLetterGroup
      <4> QED BY <2>3, <4>1 DEF Resolve
    <3>2. filter' \in resolveMethodId(filter, FirstSeen(r))
      BY <2>1, <2>2, <3>1
    <3> QED BY <1>3, <2>3, <3>1, <3>2 DEF ResolvedTo
  <2>4. CASE ~looksLikeMethodId(filter) /\ looksLikeLetterGroup(filter)
    <3>1. /\ filter' = filter
          /\ \E u \in loadResults(files.baseline) :
               \E g \in resolveLetterGroup(filter, Names(u)) : group' = {g}
      BY <2>4 DEF Resolve, looksLikeMethodId, looksLikeLetterGroup
    <3>2. \E g \in resolveLetterGroup(filter, FirstSeen(r)) : group' = {g}
      BY <2>1, <2>2, <3>1
    <3> QED BY <1>3, <2>4, <3>2 DEF ResolvedTo
  <2>5. CASE ~looksLikeMethodId(filter) /\ ~looksLikeLetterGroup(filter)
    <3>1. filter' = filter /\ group' = group
      BY <2>5 DEF Resolve
    <3> QED BY <1>3, <2>5, <3>1 DEF ResolvedTo
  <2> QED BY <2>3, <2>4, <2>5
<1>6. CompareInv(tool, world, argv, "load", -1, files, filter', group', base, cur, pos, report,
                 summary, saved)
  BY <1>2, <1>5, CResolves
<1> QED BY <1>1, <1>3, <1>6 DEF CInv

LEMMA CInvChooses == CInv /\ ChooseFiles => CInv'
<1> SUFFICES ASSUME CInv, ChooseFiles PROVE CInv'
  OBVIOUS
<1>1. /\ tool \in Tools /\ argv \in Argvs /\ world \in Worlds
      /\ phase = "args" /\ phase' = "resolve" /\ Comparing(argv)
      /\ UNCHANGED <<tool, argv, world, group, base, cur, pos, report, summary, saved, exit>>
  BY Commands DEF CInv, ChooseFiles, inputs
<1>2. /\ CompareInv(tool, world, argv, "args", exit, files, filter, group, base, cur, pos, report,
                    summary, saved)
      /\ exit = -1
  BY <1>1 DEF CInv, CompareInv
<1>3. filter' = WordsOf(argv)
  BY ArgumentsAre DEF ChooseFiles, Words
<1>4. files' \in Files /\ Chosen(tool, world, argv, files')
  <2>a. Versions = VersionsOf(argv)
    BY ArgumentsAre
  <2>b. Versions \in {0, 1, 2}
    BY DEF Versions
  <2>1. CASE Versions = 2
    <3>1. files' = [current |-> baselinePath(1), baseline |-> baselinePath(2)]
      BY <2>1 DEF ChooseFiles
    <3>2. /\ \E t \in DOMAIN Tags : argv[1] = <<t>>
          /\ \E t \in DOMAIN Tags : argv[2] = <<t>>
      BY <2>1 DEF Versions, tryParseVersionArg
    <3>3. /\ baselinePath(1) \in DOMAIN Tags /\ <<baselinePath(1)>> = argv[1]
          /\ baselinePath(2) \in DOMAIN Tags /\ <<baselinePath(2)>> = argv[2]
      BY <3>2 DEF baselinePath
    <3>4. files' \in Files /\ <<files'.current>> = argv[1] /\ <<files'.baseline>> = argv[2]
      BY <3>1, <3>3 DEF Files
    <3>5. VersionsOf(argv) = 2
      BY <2>1, <2>a
    <3>6. VersionsOf(argv) # 1 /\ VersionsOf(argv) # 0
      BY <3>5
    <3> QED BY <3>4, <3>6 DEF Chosen
  <2>2. CASE Versions = 1
    <3>1. files' = [current |-> Live, baseline |-> baselinePath(1)]
      BY <2>2 DEF ChooseFiles
    <3>2. \E t \in DOMAIN Tags : argv[1] = <<t>>
      BY <2>2 DEF Versions, tryParseVersionArg
    <3>3. baselinePath(1) \in DOMAIN Tags /\ <<baselinePath(1)>> = argv[1]
      BY <3>2 DEF baselinePath
    <3>4. files' \in Files /\ files'.current = Live /\ <<files'.baseline>> = argv[1]
      BY <3>1, <3>3 DEF Files
    <3>5. VersionsOf(argv) = 1
      BY <2>2, <2>a
    <3>6. VersionsOf(argv) # 2 /\ VersionsOf(argv) # 0
      BY <3>5
    <3> QED BY <3>4, <3>6 DEF Chosen
  <2>3. CASE Versions = 0
    <3>1. PICK f \in latestBaseline : files' = [current |-> Live, baseline |-> f]
      BY <2>3 DEF ChooseFiles
    <3>2. /\ f \in Latest(Folders(tool, world))
          /\ Folders(tool, world) \in SUBSET DOMAIN Tags
      BY <1>1, Reading, FoldersAre
    <3>3. f \in Folders(tool, world) /\ \A u \in Folders(tool, world) : NoNewer(u, f)
      BY <3>2, LatestIs
    <3>4. files'.current = Live /\ files'.baseline = f /\ files' \in Files
      BY <3>1, <3>2, <3>3 DEF Files
    <3>5. VersionsOf(argv) = 0
      BY <2>3, <2>a
    <3>6. VersionsOf(argv) # 2 /\ VersionsOf(argv) # 1
      BY <3>5
    <3> QED BY <3>3, <3>4, <3>6 DEF Chosen
  <2> QED BY <2>b, <2>1, <2>2, <2>3
<1>5. CompareInv(tool, world, argv, "resolve", -1, files', WordsOf(argv), group, base, cur, pos,
                 report, summary, saved)
  BY <1>1, <1>2, <1>4, CChooses
<1> QED BY <1>1, <1>2, <1>3, <1>5 DEF CInv

LEMMA CInvLoads == CInv /\ Load => CInv'
<1> SUFFICES ASSUME CInv, Load PROVE CInv'
  OBVIOUS
<1>1. /\ tool \in Tools /\ argv \in Argvs /\ world \in Worlds
      /\ phase = "load" /\ phase' = "print"
      /\ UNCHANGED <<tool, argv, world, files, filter, group, pos, report, summary, saved, exit>>
  BY DEF CInv, Load, inputs
<1>2. /\ CompareInv(tool, world, argv, "load", exit, files, filter, group, base, cur, pos, report,
                    summary, saved)
      /\ exit = -1
  BY <1>1 DEF CInv, CompareInv
<1>3. files \in Files /\ IsResolved(tool, world, argv, files, filter, group)
  BY <1>2 DEF CompareInv
<1>4. files.baseline \in DOMAIN Tags \cup {Live} /\ files.current \in DOMAIN Tags \cup {Live}
  BY <1>3 DEF Files
<1>5. PICK b \in Snapshot(tool, world, files.baseline), c \in Snapshot(tool, world, files.current) :
         \E s \in Filtered(b, c) : base' = s.base /\ cur' = s.cur
  BY <1>1, Reading DEF Load
<1>6. PICK s \in Filtered(b, c) : base' = s.base /\ cur' = s.cur
  BY <1>5
<1>7. /\ b \in Seq(Entry(tool)) /\ c \in Seq(Entry(tool))
      /\ ListsGroups(groupMethodsByLetter(FirstSeen(b)), FirstSeen(b))
      /\ ToSet(FirstSeen(b)) = {e.name : e \in ToSet(b)}
  BY <1>1, <1>4, SnapshotIs, IdsAre
<1>8. FilteredBy(b, c, filter, group, s)
  BY <1>1, FilteredIs
<1>9. ResolvedTo(WordsOf(argv), FirstSeen(b), filter, group)
  BY <1>3 DEF IsResolved
<1>10. /\ LoadedFrom(b, c, WordsOf(argv), base', cur')
       /\ base' \in Seq(Entry(tool)) /\ cur' \in Seq(Entry(tool))
  BY <1>1, <1>6, <1>7, <1>8, <1>9, LoadedIs
<1>11. IsLoaded(tool, world, argv, files, base', cur')
  BY <1>10 DEF IsLoaded
<1>12. CompareInv(tool, world, argv, "print", -1, files, filter, group, base', cur', pos, report,
                  summary, saved)
  BY <1>2, <1>10, <1>11, CLoads
<1> QED BY <1>1, <1>2, <1>12 DEF CInv

LEMMA ReportType ==
  ASSUME CInv PROVE IsReport(report)
BY DEF CInv, CompareInv, RepInv

LEMMA PrintedIs ==
  ASSUME tool \in Tools, IsReport(report), PrintEntry
  PROVE  report' = Printed(tool, report, base[pos], cur, Labels)
<1>1. CASE tool = "google"
  <2>1. report' = G!printEntry(report, base[pos], cur, Labels)
    BY <1>1 DEF PrintEntry, Google
  <2> QED BY <1>1, <2>1, GooglePrints
<1>2. CASE tool = "custom"
  <2>1. report' = C!printEntry(report, base[pos], cur, Labels)
    BY <1>2 DEF PrintEntry, Google
  <2> QED BY <1>2, <2>1, CustomPrints
<1> QED BY <1>1, <1>2 DEF Tools

LEMMA EndedIs ==
  ASSUME tool \in Tools, IsReport(report), EndRegression
  PROVE  report' = [out |-> Closed(tool, report), md |-> report.md, rows |-> report.rows,
                    group |-> report.group, lastRow |-> report.lastRow]
<1>1. CASE report.group = NoGroup
  BY <1>1 DEF EndRegression, Closed, IsReport
<1>2. CASE report.group # NoGroup /\ tool = "google"
  <2>1. report' = G!endTable(report)
    BY <1>2 DEF EndRegression, Google
  <2> QED BY <1>2, <2>1, SameWidths DEF G!endTable, IsReport, Closed, Border, WidthOf
<1>3. CASE report.group # NoGroup /\ tool = "custom"
  <2>1. report' = C!endTable(report)
    BY <1>3 DEF EndRegression, Google
  <2> QED BY <1>3, <2>1, SameWidths DEF C!endTable, IsReport, Closed, Border, WidthOf
<1> QED BY <1>1, <1>2, <1>3 DEF Tools

LEMMA CInvSteps == LInv /\ CInv /\ [Next]_vars => CInv'
<1> SUFFICES ASSUME LInv, CInv, [Next]_vars PROVE CInv'
  OBVIOUS
<1>1. /\ tool \in Tools /\ argv \in Argvs /\ world \in Worlds
      /\ CompareInv(tool, world, argv, phase, exit, files, filter, group, base, cur, pos, report,
                    summary, saved)
      /\ phase # "done" => exit = -1
      /\ IsReport(report)
  BY ReportType DEF CInv, CompareInv
<1>2. ASSUME Throw, phase \in Early PROVE CInv'
  <2>1. /\ phase' = "done" /\ exit' = 1
        /\ UNCHANGED <<tool, argv, world, files, filter, group, base, cur, pos, report, summary, saved>>
    BY <1>2 DEF Throw, inputs, sides
  <2>2. CompareInv(tool, world, argv, "done", 1, files, filter, group, base, cur, pos, report,
                   summary, saved)
    BY <1>1, <1>2, CLeaves
  <2> QED BY <1>1, <2>1, <2>2 DEF CInv
<1>3. ASSUME phase \in Early, phase' = "done", exit' = 0, ~Comparing(argv), pos' = pos,
             UNCHANGED <<inputs, sides, report, summary, saved>>
      PROVE  CInv'
  <2>1. CompareInv(tool, world, argv, "done", 0, files, filter, group, base, cur, pos, report,
                   summary, saved)
    BY <1>1, <1>3, CLeaves
  <2> QED BY <1>1, <1>3, <2>1 DEF CInv, inputs, sides
<1>4. ASSUME phase \in Early, phase' = "methods", exit' = exit, phase # "done",
             UNCHANGED <<inputs, sides, report, summary, saved>>
      PROVE  CInv'
  <2>1. CompareInv(tool, world, argv, "methods", -1, files, filter, group, base, cur, pos', report,
                   summary, saved)
    BY <1>1, <1>4, CLeaves
  <2> QED BY <1>1, <1>4, <2>1 DEF CInv, inputs, sides
<1>5. ASSUME printUsage PROVE CInv'
  <2>1. IsHelp /\ ~IsComparison
    BY <1>5 DEF printUsage, IsComparison
  <2>2. ~Comparing(argv)
    BY <2>1, Commands
  <2> QED BY <1>3, <1>5, <2>2 DEF printUsage, Return, Early
<1>6. ASSUME printList PROVE CInv'
  <2>1. IsList /\ ~IsComparison
    BY <1>6 DEF printList, IsComparison
  <2>2. ~Comparing(argv)
    BY <2>1, Commands
  <2> QED BY <1>3, <1>6, <2>2 DEF printList, Return, Early
<1>7. ASSUME ListThrows \/ MethodsUnknown \/ MethodsLoadFails \/ NoBaseline \/ ResolveThrows \/ LoadThrows
      PROVE  CInv'
  <2>1. Throw /\ phase \in Early
    BY <1>7 DEF ListThrows, MethodsUnknown, MethodsLoadFails, NoBaseline, ResolveThrows, LoadThrows, Early
  <2> QED BY <1>2, <2>1
<1>8. ASSUME MethodsBegin PROVE CInv'
  BY <1>4, <1>8 DEF MethodsBegin, Early
<1>9. ASSUME MethodsOfBaseline PROVE CInv'
  BY <1>4, <1>9 DEF MethodsOfBaseline, Early
<1>10. ASSUME MethodsEnd PROVE CInv'
  <2>1. phase = "methods" /\ phase' = "done" /\ exit' = 0 /\ pos' = pos
        /\ UNCHANGED <<tool, argv, world, files, filter, group, base, cur, report, summary, saved>>
    BY <1>10 DEF MethodsEnd, Return, inputs, sides
  <2>2. MethodWords(argv)
    BY <2>1 DEF LInv, ListingInv
  <2>3. ~Comparing(argv)
    BY <2>2 DEF Comparing
  <2> QED BY <1>3, <2>1, <2>3 DEF Early, inputs, sides
<1>11. ASSUME ChooseFiles \/ Resolve \/ Load PROVE CInv'
  BY <1>11, CInvChooses, CInvResolves, CInvLoads
<1>12. ASSUME PrintEntry PROVE CInv'
  <2>1. /\ phase = "print" /\ phase' = "print" /\ pos' = pos + 1 /\ pos \in DOMAIN base
        /\ UNCHANGED <<tool, argv, world, files, filter, group, base, cur, summary, saved, exit>>
    BY <1>12 DEF PrintEntry, inputs, sides
  <2>2. report' = Printed(tool, report, base[pos], cur, Labels)
    BY <1>1, <1>12, PrintedIs
  <2>3. CompareInv(tool, world, argv, "print", -1, files, filter, group, base, cur, pos + 1,
                   Printed(tool, report, base[pos], cur, Labels), summary, saved)
    BY <1>1, <2>1, CPrints
  <2> QED BY <1>1, <2>1, <2>2, <2>3 DEF CInv
<1>13. ASSUME EndRegression PROVE CInv'
  <2>1. /\ phase = "print" /\ phase' = "summary" /\ pos \notin DOMAIN base
        /\ UNCHANGED <<tool, argv, world, files, filter, group, base, cur, pos, summary, saved, exit>>
    BY <1>13 DEF EndRegression, inputs, sides
  <2>2. report' = [out |-> Closed(tool, report), md |-> report.md, rows |-> report.rows,
                   group |-> report.group, lastRow |-> report.lastRow]
    BY <1>1, <1>13, EndedIs
  <2>3. IsReport(report') /\ report'.rows = report.rows /\ report'.md = report.md
    BY <2>2 DEF IsReport
  <2>4. CompareInv(tool, world, argv, "summary", -1, files, filter, group, base, cur, pos,
                   report', summary, saved)
    BY <1>1, <2>1, <2>3, CEnds
  <2> QED BY <1>1, <2>1, <2>4 DEF CInv
<1>14. ASSUME printSummary PROVE CInv'
  <2>1. /\ phase = "summary" /\ phase' = "json"
        /\ UNCHANGED <<tool, argv, world, files, filter, group, base, cur, pos, report, saved, exit>>
        /\ summary' \in SUBSET {CountedOf(report.rows)}
    BY <1>14 DEF printSummary, inputs, sides, Counted, CountedOf
  <2>2. CompareInv(tool, world, argv, "json", -1, files, filter, group, base, cur, pos,
                   report, summary', saved)
    BY <1>1, <2>1, CSums
  <2> QED BY <1>1, <2>1, <2>2 DEF CInv
<1>15. ASSUME exportJson PROVE CInv'
  <2>1. /\ phase = "json" /\ phase' = "md"
        /\ UNCHANGED <<tool, argv, world, files, filter, group, base, cur, pos, report, summary, exit>>
        /\ saved' = saved \/ saved' = [saved EXCEPT !.json = {report.rows}]
    BY <1>15 DEF exportJson, inputs, sides
  <2>2. /\ CompareInv(tool, world, argv, "md", -1, files, filter, group, base, cur, pos, report,
                      summary, saved)
        /\ CompareInv(tool, world, argv, "md", -1, files, filter, group, base, cur, pos, report,
                      summary, [saved EXCEPT !.json = {report.rows}])
    BY <1>1, <2>1, CSums
  <2>3. CompareInv(tool, world, argv, "md", -1, files, filter, group, base, cur, pos, report,
                   summary, saved')
    BY <2>1, <2>2
  <2> QED BY <1>1, <2>1, <2>3 DEF CInv
<1>16. ASSUME exportMarkdown PROVE CInv'
  <2>1. /\ phase = "md" /\ phase' = "done" /\ exit' = 0
        /\ UNCHANGED <<tool, argv, world, files, filter, group, base, cur, pos, report, summary>>
        /\ saved' = saved \/ saved' = [saved EXCEPT !.md = {[body |-> report.md, result |-> summary]}]
    BY <1>16 DEF exportMarkdown, Return, inputs, sides
  <2>2. /\ CompareInv(tool, world, argv, "done", 0, files, filter, group, base, cur, pos, report,
                      summary, saved)
        /\ CompareInv(tool, world, argv, "done", 0, files, filter, group, base, cur, pos, report,
                      summary, [saved EXCEPT !.md = {[body |-> report.md, result |-> summary]}])
    BY <1>1, <2>1, CSums
  <2>3. CompareInv(tool, world, argv, "done", 0, files, filter, group, base, cur, pos, report,
                   summary, saved')
    BY <2>1, <2>2
  <2> QED BY <1>1, <2>1, <2>3 DEF CInv
<1>17. ASSUME UNCHANGED vars PROVE CInv'
  <2>1. UNCHANGED <<tool, argv, world, phase, exit, files, filter, group, base, cur, pos, report,
                    summary, saved>>
    BY <1>17 DEF vars, inputs, sides
  <2> QED BY <1>1, <2>1 DEF CInv
<1> QED BY <1>5, <1>6, <1>7, <1>8, <1>9, <1>10, <1>11, <1>12, <1>13, <1>14, <1>15, <1>16, <1>17 DEF Next

LEMMA CInvReports == CInv => ReportIsFaithful
<1> SUFFICES ASSUME CInv, Compared PROVE ReportIsFaithful
  BY DEF ReportIsFaithful
<1> DEFINE rows == report.rows
<1>1. /\ tool \in Tools /\ argv \in Argvs /\ world \in Worlds
      /\ CompareInv(tool, world, argv, phase, exit, files, filter, group, base, cur, pos, report,
                    summary, saved)
  BY DEF CInv
<1>2. Full(argv, phase, exit)
  <2>1. Comparing(argv) /\ exit = 0
    BY Commands DEF Compared
  <2> QED BY <1>1, <2>1 DEF CompareInv, Full
<1>3. /\ files \in Files /\ Chosen(tool, world, argv, files) /\ IsLoaded(tool, world, argv, files, base, cur)
      /\ RepInv(tool, base, cur, report) /\ SavedInv(phase, report, summary, saved)
      /\ Len(rows) = Len(base)
  BY <1>1, <1>2 DEF CompareInv
<1>4. PICK b \in Snapshot(tool, world, files.baseline), c \in Snapshot(tool, world, files.current) :
         LoadedFrom(b, c, WordsOf(argv), base, cur)
  BY <1>3 DEF IsLoaded
<1>5. /\ files.baseline \in DOMAIN Tags \cup {Live} /\ files.current \in DOMAIN Tags \cup {Live}
  BY <1>3 DEF Files
<1>6. b \in Seq(Entry(tool)) /\ c \in Seq(Entry(tool))
  BY <1>1, <1>5, SnapshotIs
<1>7. /\ \A f : loadResults(f) = Snapshot(tool, world, f)
      /\ \A r : Names(r) = FirstSeen(r)
      /\ OwnFolders = Folders(tool, world)
  BY <1>1, Reading
<1> DEFINE asked == Kept(b, {k \in DOMAIN b : Asked(b[k].name, Names(b))})
<1>8. asked = base
  <2>1. {k \in DOMAIN b : Asked(b[k].name, Names(b))}
          = {k \in DOMAIN b : AskedBy(WordsOf(argv), b[k].name, FirstSeen(b))}
    BY <1>7, ArgumentsAre
  <2> QED BY <1>4, <2>1 DEF LoadedFrom
<1>9. /\ Versions = 2 => <<files.current>> = argv[1] /\ <<files.baseline>> = argv[2]
      /\ Versions = 1 => files.current = Live /\ <<files.baseline>> = argv[1]
      /\ Versions = 0 => /\ files.current = Live /\ files.baseline \in OwnFolders
                         /\ \A t \in OwnFolders : NoNewer(t, files.baseline)
  BY <1>3, <1>7, ArgumentsAre DEF Chosen
<1>10. /\ base \in Seq(Entry(tool)) /\ cur \in Seq(Entry(tool)) /\ IsReport(report)
       /\ RowsOf(tool, base, cur, rows) /\ MdInv(report.md, rows) /\ IsSeq(rows)
  BY <1>3 DEF RepInv, RowsOf
<1>11. ASSUME NEW k \in DOMAIN rows
       PROVE  /\ Matches(base[k], rows[k]) /\ rows[k].b = base[k].time
              /\ IsTimeFor(rows[k].c, c, rows[k])
  <2> DEFINE e == base[k]
  <2>1. /\ k \in DOMAIN base
        /\ rows[k].name = e.name /\ rows[k].b = e.time /\ rows[k].c = Cns(tool, cur, e)
        /\ tool # "google" => rows[k].suite = e.suite /\ rows[k].iter = e.iter
    BY <1>1, <1>10, RowsAre
  <2>2. Matches(e, rows[k])
    BY <2>1 DEF Matches, Google
  <2>3. PlacesFor(tool, c, rows[k]) = PlacesFor(tool, c, e) /\ e \in ToSet(base)
    BY <2>1 DEF PlacesFor, ToSet
  <2>4. PICK K \in SUBSET DOMAIN c :
           /\ cur = Kept(c, K)
           /\ \A i \in DOMAIN c : (\E x \in ToSet(base) : x.name = c[i].name) => i \in K
    BY <1>4 DEF LoadedFrom
  <2>5. PlacesFor(tool, c, e) \subseteq K
    BY <2>3, <2>4 DEF PlacesFor
  <2>6. FirstOf(tool, cur, e, Cns(tool, cur, e))
    BY <1>1, <1>10, CnsIs
  <2>7. FirstOf(tool, c, e, rows[k].c)
    <3> HIDE DEF e, rows
    <3> QED BY <1>6, <2>1, <2>4, <2>5, <2>6, FirstOfKept
  <2>8. IsTimeFor(rows[k].c, c, rows[k])
    <3> DEFINE r == rows[k]
               same == {i \in DOMAIN c : c[i].name = r.name /\ (Google \/ c[i].iter = r.iter)}
    <3>1. same = PlacesFor(tool, c, e)
      BY <2>3 DEF PlacesFor, Google
    <3>2. IF same = {} THEN r.c = 0 ELSE \E i \in same : r.c = c[i].time /\ \A j \in same : i <= j
      BY <2>7, <3>1 DEF FirstOf
    <3> QED BY <3>2 DEF IsTimeFor
  <2> QED BY <2>1, <2>2, <2>8
<1>12. saved.json \subseteq {rows}
  BY <1>3 DEF SavedInv
<1>13. ASSUME NEW m \in saved.md
       PROVE  /\ RowsUpTo(m.body, Len(m.body)) = Len(rows)
              /\ \A k \in DOMAIN m.body :
                   m.body[k].at = "row" => m.body[k].row = RowOf(m.body, rows, k)
              /\ m.result = summary
  <2>1. m = [body |-> report.md, result |-> summary]
    BY <1>3 DEF SavedInv
  <2>2. m.body = report.md /\ m.result = summary
    BY <2>1
  <2> QED BY <1>10, <2>2 DEF MdInv, Counts, RowOf
<1>14. ASSUME NEW s \in summary
       PROVE  /\ s.faster + s.slower + s.tied = Len(rows)
              /\ s.faster = Cardinality({k \in DOMAIN rows :
                    rows[k].c < rows[k].b /\ rows[k].c <= 100 * (rows[k].b - rows[k].c)})
              /\ s.slower = Cardinality({k \in DOMAIN rows :
                    0 < rows[k].b /\ rows[k].b < rows[k].c /\ rows[k].c <= 100 * (rows[k].c - rows[k].b)})
  <2>1. s = CountedOf(rows)
    BY <1>3 DEF SavedInv
  <2>2. \A k \in DOMAIN rows : rows[k].b \in Nat /\ rows[k].c \in Nat
    <3> HIDE DEF rows
    <3> QED BY <1>1, <1>10, RowsAre, TimeIs
  <2> HIDE DEF rows
  <2>3. /\ s.faster + s.slower + s.tied = Len(rows)
        /\ s.faster = Cardinality({k \in DOMAIN rows : Much(rows[k].c, rows[k].b, rows[k].c)})
        /\ s.slower = Cardinality({k \in DOMAIN rows :
                        0 < rows[k].b /\ Much(rows[k].b, rows[k].c, rows[k].c)})
    BY <1>10, <2>1, <2>2, SummaryIs
  <2> QED BY <2>3 DEF Much
<1>15. b \in loadResults(files.baseline) /\ c \in loadResults(files.current)
  BY <1>7
<1>16. LET rws == report.rows IN
       /\ Versions = 2 => <<files.current>> = argv[1] /\ <<files.baseline>> = argv[2]
       /\ Versions = 1 => files.current = Live /\ <<files.baseline>> = argv[1]
       /\ Versions = 0 => /\ files.current = Live /\ files.baseline \in OwnFolders
                          /\ \A t \in OwnFolders : NoNewer(t, files.baseline)
       /\ Len(rws) = Len(asked)
       /\ \A k \in DOMAIN rws :
            /\ Matches(asked[k], rws[k]) /\ rws[k].b = asked[k].time
            /\ IsTimeFor(rws[k].c, c, rws[k])
       /\ saved.json \subseteq {rws}
       /\ \A m \in saved.md :
            /\ RowsUpTo(m.body, Len(m.body)) = Len(rws)
            /\ \A k \in DOMAIN m.body :
                 m.body[k].at = "row" => m.body[k].row = RowOf(m.body, rws, k)
            /\ m.result = summary
       /\ \A s \in summary :
            /\ s.faster + s.slower + s.tied = Len(rws)
            /\ s.faster = Cardinality({k \in DOMAIN rws :
                  rws[k].c < rws[k].b /\ rws[k].c <= 100 * (rws[k].b - rws[k].c)})
            /\ s.slower = Cardinality({k \in DOMAIN rws :
                  0 < rws[k].b /\ rws[k].b < rws[k].c /\ rws[k].c <= 100 * (rws[k].c - rws[k].b)})
  <2>1. asked = base
    BY <1>8
  <2> HIDE DEF asked
  <2>2. Len(rows) = Len(asked)
    BY <1>3, <2>1
  <2>3. \A k \in DOMAIN rows :
            /\ Matches(asked[k], rows[k]) /\ rows[k].b = asked[k].time
            /\ IsTimeFor(rows[k].c, c, rows[k])
    BY <1>11, <2>1
  <2> QED BY <1>9, <1>12, <1>13, <1>14, <2>2, <2>3
<1> QED BY <1>15, <1>16 DEF ReportIsFaithful

(* A comparison that ends well has compared the files the tags name, or the *)
(* newest baseline of its tool with the live run; exactly the benchmarks    *)
(* asked for, each with the time of the first entry for it on the other     *)
(* side (the custom tool looks at the operation and the iterations, not at  *)
(* the suite); and the summary and the files hold what was printed.         *)
THEOREM ReportFaithful == Spec => []ReportIsFaithful
<1>1. Spec => []LInv
  BY LInvStarts, LInvSteps, PTL DEF Spec
<1>2. Spec => []CInv
  BY <1>1, CInvStarts, CInvSteps, PTL DEF Spec
<1> QED BY <1>2, CInvReports, PTL

-----------------------------------------------------------------------------
(* Widths and bars.                                                         *)

LEMMA Divides ==
  ASSUME NEW x \in Nat, NEW y \in Nat \ {0}
  PROVE  x \div y \in Nat /\ (x \div y) * y <= x /\ x < (x \div y) * y + y
<1>1. x = y * (x \div y) + (x % y) /\ 0 <= x % y /\ x % y < y /\ x \div y \in Int /\ x % y \in Int
  OBVIOUS
<1> DEFINE q == x \div y
           r == x % y
<1> HIDE DEF q, r
<1>2. q \in Int /\ r \in Int /\ x = y * q + r /\ 0 <= r /\ r < y
  BY <1>1 DEF q, r
<1>3. q * y = y * q
  BY <1>2
<1>4. q >= 0
  <2> SUFFICES ASSUME q <= -1 PROVE FALSE
    BY <1>2
  <2>1. y * q <= y * (-1)
    BY <1>2
  <2> QED BY <1>2, <2>1
<1>5. q \in Nat /\ q * y <= x /\ x < q * y + y
  BY <1>2, <1>3, <1>4
<1> QED BY <1>5 DEF q

LEMMA QuotientAtMost ==
  ASSUME NEW x \in Nat, NEW y \in Nat \ {0}, NEW k \in Nat, x < k * y + y
  PROVE  x \div y <= k
<1> DEFINE q == x \div y
<1>1. q \in Nat /\ q * y <= x
  BY Divides
<1> HIDE DEF q
<1>2. ASSUME q >= k + 1 PROVE FALSE
  <2>1. q * y >= (k + 1) * y
    BY <1>1, <1>2
  <2>2. (k + 1) * y = k * y + y
    OBVIOUS
  <2>3. q * y \in Nat /\ k * y \in Nat
    BY <1>1
  <2> QED BY <1>1, <2>1, <2>2, <2>3
<1> QED BY <1>1, <1>2 DEF q

LEMMA QuotientGrows ==
  ASSUME NEW x \in Nat, NEW z \in Nat, x <= z, NEW y \in Nat \ {0}
  PROVE  x \div y <= z \div y
<1>1. z \div y \in Nat /\ z < (z \div y) * y + y
  BY Divides
<1> DEFINE k == z \div y
<1> HIDE DEF k
<1>2. k \in Nat /\ z < k * y + y /\ k * y \in Nat
  BY <1>1 DEF k
<1>3. x < k * y + y
  BY <1>2
<1>4. x \div y <= k
  BY <1>2, <1>3, QuotientAtMost
<1> QED BY <1>4 DEF k

LEMMA BarsAre ==
  ASSUME NEW b \in Nat, NEW c \in Nat
  PROVE  LET m == Longer(b, c) IN
         /\ bar(b, m) \in 0 .. BAR_W /\ bar(c, m) \in 0 .. BAR_W
         /\ c > b => bar(c, m) >= bar(b, m)
         /\ b > c => bar(b, m) >= bar(c, m)
<1> DEFINE m == Longer(b, c)
           y == 2 * m
<1>1. m \in Nat /\ b <= m /\ c <= m
  BY DEF Longer
<1> HIDE DEF m
<1>2. CASE m = 0
  <2>1. bar(b, m) = 0 /\ bar(c, m) = 0
    BY <1>2 DEF bar
  <2> QED BY <1>1, <1>2, <2>1 DEF BAR_W, m
<1>3. CASE m # 0
  <2>1. y \in Nat \ {0}
    BY <1>1, <1>3
  <2>2. \A n : bar(n, m) = (20 * n + m) \div y
    <3>1. \A n : 2 * BAR_W * n + m = 20 * n + m
      BY DEF BAR_W
    <3> QED BY <1>3, <3>1 DEF bar
  <2>3. 20 * b + m \in Nat /\ 20 * c + m \in Nat
    BY <1>1
  <2>4. 20 * b + m < 10 * y + y /\ 20 * c + m < 10 * y + y
    BY <1>1, <1>3
  <2> HIDE DEF y
  <2>5. /\ (20 * b + m) \div y \in Nat /\ (20 * c + m) \div y \in Nat
        /\ (20 * b + m) \div y <= 10 /\ (20 * c + m) \div y <= 10
    BY <2>1, <2>3, <2>4, Divides, QuotientAtMost
  <2>6. b <= c => (20 * b + m) \div y <= (20 * c + m) \div y
    <3>1. b <= c => 20 * b + m <= 20 * c + m
      BY <1>1
    <3> QED BY <2>1, <2>3, <3>1, QuotientGrows
  <2>7. c <= b => (20 * c + m) \div y <= (20 * b + m) \div y
    <3>1. c <= b => 20 * c + m <= 20 * b + m
      BY <1>1
    <3> QED BY <2>1, <2>3, <3>1, QuotientGrows
  <2> DEFINE B == (20 * b + m) \div y
             D == (20 * c + m) \div y
  <2>8. B \in 0 .. 10 /\ D \in 0 .. 10 /\ (b <= c => B <= D) /\ (c <= b => D <= B)
    BY <2>5, <2>6, <2>7
  <2>9. bar(b, m) = B /\ bar(c, m) = D
    BY <2>2
  <2> HIDE DEF B, D
  <2>10. /\ bar(b, m) \in 0 .. BAR_W /\ bar(c, m) \in 0 .. BAR_W
         /\ c > b => bar(c, m) >= bar(b, m)
         /\ b > c => bar(b, m) >= bar(c, m)
    BY <2>8, <2>9 DEF BAR_W
  <2> QED BY <2>10 DEF m
<1> QED BY <1>2, <1>3

LEMMA DigitsAre ==
  ASSUME NEW n \in Nat, NEW d \in 1 .. 9, n < Powers[d]
  PROVE  DigitCount(n) \in 1 .. d
<1> DEFINE Fits(k) == n < Powers[k] /\ (k = 1 \/ n >= Powers[k - 1])
<1>1. /\ Powers[1] = 10 /\ Powers[2] = 100 /\ Powers[3] = 1000 /\ Powers[4] = 10000
      /\ Powers[5] = 100000 /\ Powers[6] = 1000000 /\ Powers[7] = 10000000
      /\ Powers[8] = 100000000 /\ Powers[9] = 1000000000
  BY SMT DEF Powers
<1>2. \A k \in 1 .. 9 : Powers[k] \in Nat
  BY SMT, <1>1
<1>3. \A i, k \in 1 .. 9 : i <= k => Powers[i] <= Powers[k]
  BY SMT, <1>1
<1> DEFINE A == {k \in 1 .. 9 : n < Powers[k]}
<1>4. A \in SUBSET Nat /\ A # {}
  OBVIOUS
<1>5. PICK m \in A : \A k \in A : m <= k
  <2> HIDE DEF A
  <2> QED BY <1>4, LeastElement
<1>6. m \in 1 .. 9 /\ Fits(m)
  <2>1. m \in 1 .. 9 /\ n < Powers[m]
    OBVIOUS
  <2>2. CASE m = 1
    BY <2>1, <2>2
  <2>3. CASE m # 1
    <3>1. m - 1 \in 1 .. 9 /\ ~(m <= m - 1)
      BY <2>1, <2>3
    <3>2. ~(n < Powers[m - 1])
      BY <1>5, <3>1
    <3> QED BY <1>2, <2>1, <3>1, <3>2
  <2> QED BY <2>2, <2>3
<1>7. DigitCount(n) = CHOOSE k \in 1 .. 9 : Fits(k)
  BY DEF DigitCount
<1>8. DigitCount(n) \in 1 .. 9 /\ Fits(DigitCount(n))
  <2> HIDE DEF Fits
  <2> QED BY <1>6, <1>7
<1> DEFINE x == DigitCount(n)
<1>9. x \in 1 .. 9 /\ (x = 1 \/ n >= Powers[x - 1])
  BY <1>8
<1> HIDE DEF x
<1>10. x <= d
  <2> SUFFICES ASSUME x > d PROVE FALSE
    BY <1>9
  <2>1. x # 1 /\ x - 1 \in 1 .. 9 /\ d <= x - 1
    BY <1>9
  <2>2. Powers[d] <= Powers[x - 1] /\ Powers[d] \in Nat /\ Powers[x - 1] \in Nat
    BY <1>2, <1>3, <2>1
  <2> QED BY <1>9, <2>1, <2>2
<1> QED BY <1>9, <1>10 DEF x

LEMMA WidthIsNat ==
  ASSUME NEW name \in Name
  PROVE  displayWidth(name) \in Nat
<1> DEFINE n == Len(name)
           Step(f, m) == f = [i \in 0 .. m |-> IF i = 0 THEN 0 ELSE f[i - 1] + Cols[name[i]]]
<1>1. n \in Nat /\ \A i \in 1 .. n : Cols[name[i]] \in Nat
  BY BenchmarksAssumption DEF Name
<1>2. \E f : Step(f, n)
  <2> DEFINE N == {m \in Nat : m <= n => \E f : Step(f, m)}
  <2>1. 0 \in N
    <3>1. Step([i \in 0 .. 0 |-> 0], 0)
      OBVIOUS
    <3> QED BY <3>1
  <2>2. ASSUME NEW m \in N PROVE m + 1 \in N
    <3>1. CASE m + 1 <= n
      <4>1. PICK f : Step(f, m)
        BY <3>1
      <4> DEFINE g == [i \in 0 .. m + 1 |-> IF i <= m THEN f[i] ELSE f[m] + Cols[name[m + 1]]]
      <4>2. Step(g, m + 1)
        <5>1. ASSUME NEW i \in 0 .. m + 1
              PROVE  g[i] = IF i = 0 THEN 0 ELSE g[i - 1] + Cols[name[i]]
          <6>1. CASE i = 0
            BY <4>1, <6>1
          <6>2. CASE i \in 1 .. m
            <7>1. i \in 0 .. m /\ i - 1 \in 0 .. m /\ i <= m /\ i - 1 <= m /\ i # 0
              BY <6>2
            <7>2. f[i] = f[i - 1] + Cols[name[i]]
              BY <4>1, <7>1
            <7>3. g[i] = f[i] /\ g[i - 1] = f[i - 1]
              BY <7>1
            <7> HIDE DEF g
            <7> QED BY <7>1, <7>2, <7>3
          <6>3. CASE i = m + 1
            <7>1. i # 0 /\ i - 1 = m /\ ~(i <= m) /\ m \in 0 .. m + 1
              BY <6>3
            <7>2. g[i] = f[m] + Cols[name[m + 1]] /\ g[m] = f[m]
              BY <6>3, <7>1
            <7> HIDE DEF g
            <7> QED BY <6>3, <7>1, <7>2
          <6> QED BY <6>1, <6>2, <6>3
        <5>2. g = [i \in 0 .. m + 1 |-> g[i]]
          OBVIOUS
        <5> HIDE DEF g
        <5> QED BY <5>1, <5>2
      <4>3. \E h : Step(h, m + 1)
        BY <4>2
      <4> HIDE DEF Step
      <4> QED BY <3>1, <4>3
    <3>2. CASE ~(m + 1 <= n)
      BY <3>2
    <3> QED BY <3>1, <3>2
  <2>3. N = Nat
    <3>1. N \in SUBSET Nat
      OBVIOUS
    <3> HIDE DEF N
    <3> QED BY <2>1, <2>2, <3>1, AllNaturals
  <2> QED BY <1>1, <2>3
<1> DEFINE cols == CHOOSE f : Step(f, n)
<1>3. displayWidth(name) = cols[n]
  BY DEF displayWidth
<1>4. Step(cols, n)
  <2> HIDE DEF Step
  <2> QED BY <1>2
<1> HIDE DEF cols
<1>5. cols[0] = 0 /\ \A i \in 1 .. n : cols[i] = cols[i - 1] + Cols[name[i]]
  BY <1>1, <1>4
<1> DEFINE N == {m \in Nat : m <= n => cols[m] \in Nat}
<1>6. 0 \in N
  BY <1>5
<1>7. ASSUME NEW m \in N PROVE m + 1 \in N
  <2>1. CASE m + 1 <= n
    <3>1. m + 1 \in 1 .. n /\ m \in Nat /\ m <= n /\ (m + 1) - 1 = m
      BY <1>1, <2>1
    <3>2. cols[m + 1] = cols[m] + Cols[name[m + 1]] /\ Cols[name[m + 1]] \in Nat /\ cols[m] \in Nat
      BY <1>1, <1>5, <3>1
    <3> QED BY <3>2
  <2>2. CASE ~(m + 1 <= n)
    BY <2>2
  <2> QED BY <2>1, <2>2
<1>8. N = Nat
  <2>1. N \in SUBSET Nat
    OBVIOUS
  <2> HIDE DEF N
  <2> QED BY <1>6, <1>7, <2>1, AllNaturals
<1>9. n \in N
  BY <1>1, <1>8
<1> QED BY <1>1, <1>3, <1>9

LEMMA NameFits ==
  ASSUME NEW name \in Name, NEW w \in Nat
  PROVE  nameCell(name, w) = w
<1>1. displayWidth(name) \in Nat
  BY WidthIsNat
<1> DEFINE d == displayWidth(name)
<1> HIDE DEF d
<1>2. d \in Nat /\ nameCell(name, w) = padCell(1 + truncateCell(d, w - 1), w)
  BY <1>1 DEF d, nameCell
<1>3. 1 + truncateCell(d, w - 1) \in Int /\ 1 + truncateCell(d, w - 1) <= w
  BY <1>2 DEF truncateCell
<1> QED BY <1>2, <1>3 DEF padCell

LEMMA DurationFits ==
  ASSUME NEW ns \in 0 .. MAX_NS
  PROVE  formatDuration(ns) \in 1 .. 10
<1>1. ns \in Nat /\ ns < 1000000000
  BY TimeIs
<1>2. Powers[3] = 1000 /\ Powers[4] = 10000 /\ 3 \in 1 .. 9 /\ 4 \in 1 .. 9
  BY SMT DEF Powers
<1>3. CASE ns < 1000
  <2>1. DigitCount(ns) \in 1 .. 3
    BY <1>1, <1>2, <1>3, DigitsAre
  <2> QED BY <1>3, <2>1 DEF formatDuration
<1>4. ASSUME NEW unit \in {1000, 1000000}, ns < 1000 * unit
      PROVE  formatMagnitude(ns, unit) \in 4 .. 7
  <2>1. unit \div 200 \in Nat /\ unit \div 200 < unit /\ unit \in Nat \ {0}
    BY <1>4
  <2> DEFINE x == ns + (unit \div 200)
  <2>2. x \in Nat /\ x < 1000 * unit + unit
    BY <1>1, <1>4, <2>1
  <2>3. x \div unit \in Nat /\ x \div unit <= 1000
    <3> HIDE DEF x
    <3> QED BY <2>1, <2>2, Divides, QuotientAtMost
  <2>4. DigitCount(x \div unit) \in 1 .. 4
    <3>1. x \div unit < Powers[4]
      BY <1>2, <2>3
    <3> HIDE DEF x
    <3> QED BY <1>2, <2>3, <3>1, DigitsAre
  <2>5. formatMagnitude(ns, unit) = DigitCount(x \div unit) + 3
    BY DEF formatMagnitude
  <2> HIDE DEF x
  <2> QED BY <2>4, <2>5
<1>5. CASE ~(ns < 1000) /\ ns < 1000000
  <2>1. formatMagnitude(ns, 1000) \in 4 .. 7
    BY <1>4, <1>5
  <2> QED BY <1>5, <2>1 DEF formatDuration
<1>6. CASE ~(ns < 1000) /\ ~(ns < 1000000)
  <2>1. formatMagnitude(ns, 1000000) \in 4 .. 7
    BY <1>1, <1>4, <1>6
  <2> QED BY <1>6, <2>1 DEF formatDuration
<1> QED BY <1>3, <1>5, <1>6

LEMMA ValueFits ==
  ASSUME NEW ns \in 0 .. MAX_NS
  PROVE  valueCell(ns) = VAL_W
<1> DEFINE d == formatDuration(ns)
<1>1. d \in 1 .. 10
  BY DurationFits
<1> HIDE DEF d
<1>2. padCell(d, DUR_W) = 10
  BY <1>1 DEF padCell, DUR_W
<1>3. valueCell(ns) = padCell(1 + padCell(d, DUR_W) + 1 + BAR_W, VAL_W)
  BY DEF valueCell, d
<1> QED BY <1>2, <1>3 DEF padCell, BAR_W, VAL_W

(* The change in tenths of a percent.                                      *)
Scaled(g, c) == (1000 * g + (c \div 2)) \div (10 * c)

LEMMA ScaledQuotient ==
  ASSUME NEW g \in Nat, NEW c \in Nat \ {0}, NEW K \in Nat, g \div c < K
  PROVE  Scaled(g, c) \in Nat /\ Scaled(g, c) <= 100 * K
<1> DEFINE q == g \div c
           half == c \div 2
           x == 1000 * g + half
           y == 10 * c
<1>1. q \in Nat /\ q < K /\ g < q * c + c /\ q * c \in Nat
  <2>1. q \in Nat /\ g < q * c + c
    BY Divides
  <2>2. q < K
    OBVIOUS
  <2> HIDE DEF q
  <2> QED BY <2>1, <2>2
<1>2. half \in Nat /\ half < c
  OBVIOUS
<1> HIDE DEF q, half
<1>3. g < K * c /\ K * c \in Nat
  <2>1. (q + 1) * c <= K * c
    BY <1>1
  <2>2. (q + 1) * c = q * c + c /\ K * c \in Nat
    BY <1>1
  <2> QED BY <1>1, <2>1, <2>2
<1>4. x \in Nat /\ y \in Nat \ {0} /\ (100 * K) * y = 1000 * (K * c)
  BY <1>2
<1> HIDE DEF y
<1>5. x < (100 * K) * y + y
  <2>1. y = 10 * c
    BY DEF y
  <2> QED BY <1>2, <1>3, <1>4, <2>1
<1> HIDE DEF x
<1>6. x \div y \in Nat /\ x \div y <= 100 * K
  BY <1>4, <1>5, Divides, QuotientAtMost
<1> QED BY <1>6 DEF x, y, half, Scaled

Huge(b, c) == c > 0 /\ Gap(b, c) \div c >= 99999

LEMMA ChangeFits ==
  ASSUME NEW b \in Nat, NEW c \in Nat, ~Huge(b, c)
  PROVE  deltaCell(b, c) = DELTA_W
<1>1. CASE b = 0 \/ c = 0
  BY <1>1 DEF deltaCell, deltaText, padCell, DELTA_W
<1>2. CASE b # 0 /\ c # 0
  <2> DEFINE g == Gap(b, c)
             x == Scaled(g, c)
  <2>1. g \in Nat /\ c \in Nat \ {0}
    BY <1>2 DEF Gap
  <2>2. PICK K \in Nat : K = 99999
    BY SMT
  <2>3. g \div c < K
    <3>1. g \div c \in Nat
      BY <2>1, Divides
    <3>2. ~(g \div c >= K)
      BY SMT, <2>1, <2>2 DEF Huge
    <3> HIDE DEF g
    <3> QED BY <3>1, <3>2
  <2>4. x \in Nat /\ x <= 100 * K
    <3> HIDE DEF g
    <3>1. g \in Nat /\ c \in Nat \ {0} /\ K \in Nat /\ g \div c < K
      BY <2>1, <2>3
    <3> QED BY <3>1, ScaledQuotient
  <2>5. deltaText(b, c) = DigitCount(x) + 4
    BY <1>2 DEF deltaText, Scaled
  <2> HIDE DEF x, g
  <2>6. x < Powers[7] /\ 7 \in 1 .. 9
    BY SMT, <2>2, <2>4 DEF Powers
  <2>7. DigitCount(x) \in 1 .. 7
    BY <2>4, <2>6, DigitsAre
  <2> QED BY <2>5, <2>7 DEF deltaCell, padCell, DELTA_W
<1> QED BY <1>1, <1>2

LEMMA BaseNameIs ==
  ASSUME NEW name \in Name
  PROVE  G!baseName(name) \in Name
<1>1. ASSUME NEW s \in Name, NEW I \in SUBSET (1 .. Len(s)), I # {}, NEW k \in I
      PROVE  SubSeq(s, 1, k - 1) \in Name
  BY <1>1 DEF Name
<1> DEFINE I == {i \in 1 .. Len(name) : name[i] = "/"}
           slash == IF I # {} THEN CHOOSE x \in I : \A y \in I : x <= y ELSE 0
           stem == IF slash = 0 THEN name ELSE SubSeq(name, 1, slash - 1)
           J == {i \in 1 .. Len(stem) : stem[i] = "_"}
           last == IF J # {} THEN CHOOSE x \in J : \A y \in J : x >= y ELSE 0
<1>2. G!SelectInSeq(name, LAMBDA t : t = "/") = slash
  BY DEF G!SelectInSeq, G!Min
<1>3. stem \in Name
  <2>1. CASE I = {}
    BY <2>1
  <2>2. CASE I # {}
    <3>1. I \in SUBSET Nat /\ I \in SUBSET (1 .. Len(name))
      OBVIOUS
    <3>2. slash \in I
      <4>1. \E n \in I : \A m \in I : n <= m
        <5> HIDE DEF I
        <5> QED BY <2>2, <3>1, LeastElement
      <4> HIDE DEF I
      <4> QED BY <2>2, <4>1
    <3>3. slash # 0
      <4> HIDE DEF slash
      <4> QED BY <3>1, <3>2
    <3>4. SubSeq(name, 1, slash - 1) \in Name
      <4> HIDE DEF I, slash
      <4> QED BY <1>1, <2>2, <3>1, <3>2
    <3> HIDE DEF slash
    <3> QED BY <3>3, <3>4
  <2> QED BY <2>1, <2>2
<1> HIDE DEF slash
<1>4. G!SelectLastInSeq(stem, LAMBDA t : t = "_") = last
  <2> HIDE DEF stem
  <2> QED BY DEF G!SelectLastInSeq, G!Max
<1>5. G!baseName(name) = IF last = 0 THEN stem ELSE SubSeq(stem, 1, last - 1)
  <2>1. G!baseName(name) =
          IF G!SelectLastInSeq(stem, LAMBDA t : t = "_") = 0 THEN stem
          ELSE SubSeq(stem, 1, G!SelectLastInSeq(stem, LAMBDA t : t = "_") - 1)
    BY <1>2 DEF G!baseName
  <2> HIDE DEF stem, last
  <2> QED BY <1>4, <2>1
<1> HIDE DEF stem
<1>6. CASE J = {}
  <2>1. last = 0
    BY <1>6
  <2> HIDE DEF last
  <2> QED BY <1>3, <1>5, <2>1
<1>7. CASE J # {}
  <2>1. J \in SUBSET (1 .. Len(stem)) /\ Len(stem) \in Nat
    <3>1. Len(stem) \in Nat
      BY <1>3 DEF Name
    <3> QED BY <3>1
  <2>2. last \in J
    <3>1. last = Max(J)
      BY <1>7 DEF Max
    <3> HIDE DEF J, last
    <3> QED BY <1>7, <2>1, <3>1, GreatestElement
  <2>3. last # 0
    <3> HIDE DEF last, J
    <3> QED BY <2>1, <2>2
  <2>4. SubSeq(stem, 1, last - 1) \in Name
    <3> HIDE DEF J, last
    <3> QED BY <1>1, <1>3, <1>7, <2>1, <2>2
  <2> HIDE DEF last
  <2> QED BY <1>5, <2>3, <2>4
<1> QED BY <1>6, <1>7

LEMMA HeadFits ==
  ASSUME NEW t \in Tools, NEW e \in Entry(t), NEW labels,
         labelCell(labels.current) = VAL_W /\ labelCell(labels.baseline) = VAL_W
  PROVE  HeadFor(t, GroupName(t, e), labels).cols = WidthOf(t)
<1> DEFINE h == GroupName(t, e)
<1>1. h \in Name
  <2>1. CASE t = "google"
    <3>1. e.name \in Name /\ h = G!baseName(e.name)
      BY <2>1 DEF Entry, Name, GroupName
    <3> QED BY <3>1, BaseNameIs
  <2>2. CASE t # "google"
    BY <2>2 DEF Entry, Name, GroupName
  <2> QED BY <2>1, <2>2
<1> HIDE DEF h
<1>2. G!TEST_W \in Nat /\ C!TEST_W \in Nat
  BY DEF G!TEST_W, C!TEST_W
<1>3. nameCell(h, G!TEST_W) = G!TEST_W /\ nameCell(h, C!TEST_W) = C!TEST_W
  BY <1>1, <1>2, NameFits
<1>4. G!VAL_W = VAL_W /\ C!VAL_W = VAL_W /\ G!DELTA_W = DELTA_W /\ C!DELTA_W = DELTA_W
  BY DEF G!VAL_W, C!VAL_W, VAL_W, G!DELTA_W, C!DELTA_W, DELTA_W
<1>5. HeadFor(t, h, labels).cols = WidthOf(t)
  BY <1>3, <1>4 DEF HeadFor, WidthOf, G!Width, C!Width
<1> QED BY <1>5 DEF h

LEMMA RowFits ==
  ASSUME NEW t \in Tools, NEW e \in Entry(t), NEW cns \in 0 .. MAX_NS,
         ~Huge(e.time, cns)
  PROVE  LineFor(t, e, cns).cols = WidthOf(t)
<1>1. e.name \in Name /\ e.time \in 0 .. MAX_NS
  BY DEF Entry, Name, Tools
<1>2. G!TEST_W \in Nat /\ C!TEST_W \in Nat
  BY DEF G!TEST_W, C!TEST_W
<1>3. nameCell(e.name, G!TEST_W) = G!TEST_W /\ nameCell(e.name, C!TEST_W) = C!TEST_W
  BY <1>1, <1>2, NameFits
<1>4. G!VAL_W = VAL_W /\ C!VAL_W = VAL_W /\ G!DELTA_W = DELTA_W /\ C!DELTA_W = DELTA_W
  BY DEF G!VAL_W, C!VAL_W, VAL_W, G!DELTA_W, C!DELTA_W, DELTA_W
<1>5. valueCell(cns) = VAL_W /\ valueCell(e.time) = VAL_W
  BY <1>1, ValueFits
<1>6. deltaCell(e.time, cns) = DELTA_W
  BY <1>1, TimeIs, ChangeFits
<1> QED BY <1>3, <1>4, <1>5, <1>6 DEF LineFor, WidthOf, G!Width, C!Width

-----------------------------------------------------------------------------
(* The lines on the terminal.                                               *)

Kinds == {"top", "head", "mid", "row", "bottom"}

(* Which line may follow which.                                             *)
InTable(t, o, k) ==
  /\ o[k].at \in Kinds
  /\ o[k].at = "top" <=> k = 1 \/ o[k - 1].at = "bottom"
  /\ o[k].at = "head" <=> k > 1 /\ o[k - 1].at = "top"
  /\ o[k].at = "bottom" => k > 1 /\ o[k - 1].at = "row"
  /\ o[k].at = "mid" => k > 1 /\ (o[k - 1].at = "head" \/ (o[k - 1].at = "row" /\ t # "google"))

(* A row and its place.                                                     *)
RowStands(t, o, rows, k) ==
  LET r == rows[RowsUpTo(o, k)] IN
    /\ k > 2 /\ HeadOf(o, k) \in 1 .. k /\ o[HeadOf(o, k)].of = GroupName(t, r)
    /\ (r.c > r.b => o[k].c >= o[k].b) /\ (r.b > r.c => o[k].b >= o[k].c)
    /\ o[k - 1].at \in {"row", "mid"}
    /\ o[k - 1].at = "row" => t = "google" \/ o[k - 1].of = o[k].of
    /\ o[k - 2].at = "row" /\ o[k - 1].at = "mid" => o[k - 2].of # o[k].of

AsWide(t, o, rows, fits, k) ==
  \/ o[k].cols = WidthOf(t)
  \/ o[k].at = "head" /\ ~fits
  \/ o[k].at = "row" /\ Huge(rows[RowsUpTo(o, k)].b, rows[RowsUpTo(o, k)].c)

LineStands(t, o, rows, fits, k) ==
  InTable(t, o, k) /\ (o[k].at = "row" => RowStands(t, o, rows, k)) /\ AsWide(t, o, rows, fits, k)

Whole(t, o, rows, fits) ==
  /\ IsSeq(o) /\ IsSeq(rows) /\ Counts(o, Len(rows))
  /\ \A k \in DOMAIN o : LineStands(t, o, rows, fits, k)

EndsWith(o, at) == o # <<>> /\ o[Len(o)].at = at
Titled(o, h) == HeadOf(o, Len(o)) \in 1 .. Len(o) /\ o[HeadOf(o, Len(o))].of = h

LEMMA LengthIs ==
  ASSUME NEW s, IsSeq(s)
  PROVE  Len(s) \in Nat /\ DOMAIN s = 1 .. Len(s) /\ (s # <<>> <=> Len(s) > 0)
BY DEF IsSeq

LEMMA HeadsGrow ==
  ASSUME NEW s, IsSeq(s), NEW x
  PROVE  /\ \A k \in 1 .. Len(s) : HeadOf(Append(s, x), k) = HeadOf(s, k)
         /\ x.at = "head" => HeadOf(Append(s, x), Len(s) + 1) = Len(s) + 1
         /\ x.at # "head" => HeadOf(Append(s, x), Len(s) + 1) = HeadOf(s, Len(s))
<1> DEFINE u == Append(s, x)
           n == Len(s)
           A(k) == {j \in 1 .. k : s[j].at = "head"}
           B(k) == {j \in 1 .. k : u[j].at = "head"}
<1>1. n \in Nat /\ u[n + 1] = x /\ \A k \in 1 .. n : u[k] = s[k]
  BY Extended
<1>2. \A k : HeadOf(u, k) = Max(B(k)) /\ HeadOf(s, k) = Max(A(k))
  BY DEF HeadOf
<1> HIDE DEF u, n
<1>3. ASSUME NEW k \in 0 .. n PROVE A(k) = B(k)
  BY <1>1
<1>4. ASSUME x.at # "head" PROVE B(n + 1) = A(n)
  <2>1. B(n + 1) \subseteq A(n)
    BY <1>1, <1>4
  <2>2. A(n) \subseteq B(n + 1)
    BY <1>1
  <2> QED BY <2>1, <2>2
<1>5. ASSUME x.at = "head" PROVE Max(B(n + 1)) = n + 1
  <2> DEFINE S == B(n + 1)
  <2>1. S \in SUBSET (1 .. n + 1) /\ n + 1 \in S /\ n + 1 \in Nat
    BY <1>1, <1>5
  <2> HIDE DEF S
  <2>2. Max(S) \in S /\ \A y \in S : y <= Max(S)
    BY <2>1, GreatestElement
  <2> DEFINE m == Max(S)
  <2>a. m \in 1 .. n + 1 /\ n + 1 <= m
    BY <2>1, <2>2
  <2> HIDE DEF m
  <2>b. m = n + 1
    BY <1>1, <2>a
  <2>3. Max(S) = n + 1
    BY <2>b DEF m
  <2> QED BY <2>3 DEF S
<1> HIDE DEF A, B
<1>6. /\ \A k \in 1 .. n : HeadOf(u, k) = HeadOf(s, k)
      /\ x.at = "head" => HeadOf(u, n + 1) = n + 1
      /\ x.at # "head" => HeadOf(u, n + 1) = HeadOf(s, n)
  <2>1. \A k \in 1 .. n : HeadOf(u, k) = HeadOf(s, k)
    BY <1>1, <1>2, <1>3
  <2> QED BY <1>2, <1>4, <1>5, <2>1
<1> QED BY <1>6 DEF u, n

(* One line more: only the new one has to be looked at.                     *)
LEMMA WholeGrows ==
  ASSUME NEW t, NEW o, NEW rows, NEW fits, Whole(t, o, rows, fits), NEW x,
         NEW more, IsSeq(more), Len(rows) <= Len(more), \A k \in 1 .. Len(rows) : more[k] = rows[k],
         Len(more) = Len(rows) + (IF x.at = "row" THEN 1 ELSE 0),
         LineStands(t, Append(o, x), more, fits, Len(o) + 1)
  PROVE  Whole(t, Append(o, x), more, fits)
<1> DEFINE u == Append(o, x)
           n == Len(o)
<1>1. /\ IsSeq(o) /\ IsSeq(rows) /\ Counts(o, Len(rows))
      /\ \A k \in DOMAIN o : LineStands(t, o, rows, fits, k)
  BY DEF Whole
<1>2. /\ IsSeq(u) /\ n \in Nat /\ DOMAIN o = 1 .. n /\ DOMAIN u = 1 .. n + 1
      /\ \A k \in 1 .. n : u[k] = o[k]
  BY <1>1, Extended
<1>3. /\ \A k \in 1 .. n : RowsUpTo(u, k) = RowsUpTo(o, k)
      /\ Counts(u, Len(more))
  <2>1. \A k \in 0 .. n : RowsUpTo(u, k) = RowsUpTo(o, k)
    BY <1>1, RowsGrow
  <2>2. \A k \in 1 .. n : k \in 0 .. n
    BY <1>2
  <2>3. /\ x.at # "row" => Counts(u, Len(rows))
        /\ x.at = "row" => Counts(u, Len(rows) + 1)
    BY <1>1, CountsGrow
  <2>4. Counts(u, Len(more))
    <3>1. Len(rows) \in Nat
      BY <1>1, LengthIs
    <3> HIDE DEF u
    <3> QED BY <2>3, <3>1
  <2> QED BY <2>1, <2>2, <2>4
<1>4. \A k \in 1 .. n : HeadOf(u, k) = HeadOf(o, k)
  BY <1>1, HeadsGrow
<1>5. LineStands(t, u, more, fits, n + 1)
  OBVIOUS
<1> HIDE DEF u, n
<1>6. ASSUME NEW k \in 1 .. n PROVE LineStands(t, u, more, fits, k)
  <2>1. LineStands(t, o, rows, fits, k) /\ u[k] = o[k] /\ (k > 1 => u[k - 1] = o[k - 1])
        /\ (k > 2 => u[k - 2] = o[k - 2])
    BY <1>1, <1>2
  <2>2. k \in Nat
    BY <1>2
  <2>3. InTable(t, u, k)
    <3>1. InTable(t, o, k)
      BY <2>1 DEF LineStands
    <3>2. CASE k = 1
      BY <2>1, <3>1, <3>2 DEF InTable
    <3>3. CASE k > 1
      BY <2>1, <3>1, <3>3 DEF InTable
    <3> QED BY <1>2, <3>2, <3>3
  <2>4. ASSUME u[k].at = "row"
        PROVE  RowStands(t, u, more, k) /\ more[RowsUpTo(u, k)] = rows[RowsUpTo(o, k)]
    <3>1. RowStands(t, o, rows, k)
      BY <2>1, <2>4 DEF LineStands
    <3>2. RowsUpTo(o, k) \in 1 .. Len(rows)
      BY <1>1, <1>2, <2>1, <2>4 DEF Counts
    <3>3. more[RowsUpTo(u, k)] = rows[RowsUpTo(o, k)]
      BY <1>3, <3>2
    <3>4. HeadOf(u, k) = HeadOf(o, k) /\ k > 2 /\ HeadOf(o, k) \in 1 .. k
      BY <1>4, <3>1 DEF RowStands
    <3>5. u[HeadOf(u, k)] = o[HeadOf(o, k)]
      BY <1>2, <3>4
    <3>6. u[k - 1] = o[k - 1] /\ u[k - 2] = o[k - 2]
      BY <2>1, <2>2, <3>4
    <3> DEFINE r == rows[RowsUpTo(o, k)]
    <3>7. more[RowsUpTo(u, k)] = r
      BY <3>3
    <3>8. /\ k > 2 /\ HeadOf(o, k) \in 1 .. k /\ o[HeadOf(o, k)].of = GroupName(t, r)
          /\ (r.c > r.b => o[k].c >= o[k].b) /\ (r.b > r.c => o[k].b >= o[k].c)
          /\ o[k - 1].at \in {"row", "mid"}
          /\ o[k - 1].at = "row" => t = "google" \/ o[k - 1].of = o[k].of
          /\ o[k - 2].at = "row" /\ o[k - 1].at = "mid" => o[k - 2].of # o[k].of
      BY <3>1 DEF RowStands
    <3> HIDE DEF r
    <3>9. RowStands(t, u, more, k)
      BY <2>1, <3>4, <3>5, <3>6, <3>7, <3>8 DEF RowStands
    <3> QED BY <3>3, <3>9
  <2>5. AsWide(t, u, more, fits, k)
    <3>1. AsWide(t, o, rows, fits, k)
      BY <2>1 DEF LineStands
    <3> QED BY <2>1, <2>4, <3>1 DEF AsWide
  <2> QED BY <2>3, <2>4, <2>5 DEF LineStands
<1>7. \A k \in DOMAIN u : LineStands(t, u, more, fits, k)
  <2>1. \A k \in DOMAIN u : k \in 1 .. n \/ k = n + 1
    BY <1>2
  <2> QED BY <1>5, <1>6, <2>1
<1>8. Whole(t, u, more, fits)
  BY <1>2, <1>3, <1>7 DEF Whole
<1> QED BY <1>8 DEF u

-----------------------------------------------------------------------------
(* The lines one at a time.                                                 *)

LEMMA BorderIs ==
  ASSUME NEW t, NEW at
  PROVE  Border(t, at).at = at /\ Border(t, at).cols = WidthOf(t)
BY DEF Border, drawBorder

LEMMA NextLine ==
  ASSUME NEW o, IsSeq(o), NEW x
  PROVE  LET u == Append(o, x)  k == Len(o) + 1 IN
         /\ IsSeq(u) /\ u # <<>> /\ Len(u) = k /\ u[k] = x /\ k \in Nat /\ k > 0
         /\ (k > 1 <=> o # <<>>) /\ (o # <<>> => u[k - 1] = o[Len(o)])
         /\ (Len(o) > 1 => u[k - 2] = o[Len(o) - 1])
         /\ EndsWith(u, x.at)
<1> DEFINE u == Append(o, x)
           n == Len(o)
<1>1. /\ IsSeq(u) /\ n \in Nat /\ Len(u) = n + 1 /\ u[n + 1] = x
      /\ \A k \in 1 .. n : u[k] = o[k]
  BY Extended
<1>2. (o # <<>> <=> n > 0) /\ (u # <<>> <=> Len(u) > 0)
  BY <1>1, LengthIs
<1> HIDE DEF u, n
<1>3. n > 0 => u[n] = o[n] /\ (n + 1) - 1 = n
  BY <1>1
<1>4. n > 1 => u[n - 1] = o[n - 1] /\ (n + 1) - 2 = n - 1
  BY <1>1
<1>5. EndsWith(u, x.at)
  BY <1>1, <1>2 DEF EndsWith
<1>6. /\ IsSeq(u) /\ u # <<>> /\ Len(u) = n + 1 /\ u[n + 1] = x /\ n + 1 \in Nat /\ n + 1 > 0
      /\ (n + 1 > 1 <=> o # <<>>) /\ (o # <<>> => u[(n + 1) - 1] = o[n])
      /\ (n > 1 => u[(n + 1) - 2] = o[n - 1])
      /\ EndsWith(u, x.at)
  BY <1>1, <1>2, <1>3, <1>4, <1>5
<1> QED BY <1>6 DEF u, n

LEMMA LineFollows ==
  ASSUME NEW t, NEW o, NEW rows, NEW fits, Whole(t, o, rows, fits),
         NEW x, x.at \in {"top", "head", "mid", "bottom"},
         x.cols = WidthOf(t) \/ (x.at = "head" /\ ~fits),
         x.at = "top" <=> o = <<>> \/ EndsWith(o, "bottom"),
         x.at = "head" <=> EndsWith(o, "top"),
         x.at = "bottom" => EndsWith(o, "row"),
         x.at = "mid" => EndsWith(o, "head") \/ (EndsWith(o, "row") /\ t # "google")
  PROVE  /\ Whole(t, Append(o, x), rows, fits) /\ EndsWith(Append(o, x), x.at)
         /\ \A h : Titled(o, h) /\ x.at # "head" => Titled(Append(o, x), h)
         /\ x.at = "head" => Titled(Append(o, x), x.of)
<1> DEFINE u == Append(o, x)
           n == Len(o)
           k == n + 1
<1>1. IsSeq(o) /\ IsSeq(rows) /\ Len(rows) \in Nat /\ n \in Nat
  BY LengthIs DEF Whole
<1>2. /\ IsSeq(u) /\ u # <<>> /\ Len(u) = k /\ u[k] = x /\ k \in Nat /\ k > 0
      /\ (k > 1 <=> o # <<>>) /\ (o # <<>> => u[k - 1] = o[n])
      /\ EndsWith(u, x.at)
  <2>1. IsSeq(o)
    BY <1>1
  <2> QED BY ONLY <2>1, NextLine
<1>3. \A at : EndsWith(o, at) <=> k > 1 /\ u[k - 1].at = at
  BY <1>2 DEF EndsWith
<1> HIDE DEF u, n
<1>4. InTable(t, u, k)
  <2>1. u[k].at = x.at /\ x.at \in Kinds
    BY <1>2 DEF Kinds
  <2>2. k = 1 <=> o = <<>>
    BY <1>2
  <2>3. x.at = "top" <=> k = 1 \/ u[k - 1].at = "bottom"
    <3>1. CASE k = 1
      BY <2>2, <3>1
    <3>2. CASE k # 1
      BY <1>2, <1>3, <2>2, <3>2
    <3> QED BY <3>1, <3>2
  <2> QED BY <1>3, <2>1, <2>3 DEF InTable
<1>5. AsWide(t, u, rows, fits, k)
  BY <1>2 DEF AsWide
<1>6. LineStands(t, u, rows, fits, k)
  BY <1>2, <1>4, <1>5 DEF LineStands
<1>7. Whole(t, u, rows, fits)
  <2>1. x.at # "row" /\ Len(rows) <= Len(rows) /\ Len(rows) = Len(rows) + 0
    BY <1>1
  <2> QED BY <1>1, <1>6, <2>1, WholeGrows DEF u, n
<1>8. ASSUME NEW h, Titled(o, h), x.at # "head" PROVE Titled(u, h)
  <2>1. HeadOf(u, k) = HeadOf(o, n)
    BY <1>1, <1>8, HeadsGrow DEF u, n
  <2>2. HeadOf(o, n) \in 1 .. n /\ o[HeadOf(o, n)].of = h
    BY <1>8 DEF Titled, n
  <2>3. \A i \in 1 .. n : u[i] = o[i]
    BY <1>1, Extended DEF u, n
  <2> QED BY <1>1, <1>2, <2>1, <2>2, <2>3 DEF Titled
<1>9. ASSUME x.at = "head" PROVE Titled(u, x.of)
  <2>1. HeadOf(u, k) = k
    BY <1>1, <1>9, HeadsGrow DEF u, n
  <2> QED BY <1>2, <2>1 DEF Titled
<1> QED BY <1>2, <1>7, <1>8, <1>9 DEF u

(* Two lines before a row: what the line in between separates.              *)
Divided(o, name) ==
  Len(o) > 1 /\ o[Len(o)].at = "mid" /\ o[Len(o) - 1].at = "row" => o[Len(o) - 1].of # name

LEMMA RowFollows ==
  ASSUME NEW t \in Tools, NEW o, NEW rows, NEW fits, Whole(t, o, rows, fits),
         NEW e \in Entry(t), NEW cns \in 0 .. MAX_NS, Titled(o, GroupName(t, e)),
         Len(o) > 1, EndsWith(o, "row") \/ EndsWith(o, "mid"),
         EndsWith(o, "row") => t = "google" \/ o[Len(o)].of = e.name,
         Divided(o, e.name)
  PROVE  LET u == Append(o, LineFor(t, e, cns)) IN
         /\ Whole(t, u, Append(rows, RowFor(t, e, cns)), fits) /\ EndsWith(u, "row")
         /\ Titled(u, GroupName(t, e)) /\ u[Len(u)].of = e.name
<1> DEFINE x == LineFor(t, e, cns)
           r == RowFor(t, e, cns)
           u == Append(o, x)
           more == Append(rows, r)
           n == Len(o)
           k == n + 1
           h == GroupName(t, e)
<1>1. /\ x.at = "row" /\ x.of = e.name
      /\ x.c = bar(cns, Longer(e.time, cns)) /\ x.b = bar(e.time, Longer(e.time, cns))
  BY DEF LineFor
<1>2. r.b = e.time /\ r.c = cns /\ GroupName(t, r) = h
  BY DEF RowFor, GroupName
<1>3. e.time \in Nat /\ cns \in Nat
  <2>1. e.time \in 0 .. MAX_NS
    BY DEF Entry, Tools
  <2> QED BY <2>1, TimeIs
<1>4. (r.c > r.b => x.c >= x.b) /\ (r.b > r.c => x.b >= x.c)
  BY <1>1, <1>2, <1>3, BarsAre
<1>5. ~Huge(r.b, r.c) => x.cols = WidthOf(t)
  BY <1>2, RowFits
<1> HIDE DEF x, r, h
<1>6. IsSeq(o) /\ IsSeq(rows) /\ Len(rows) \in Nat /\ n \in Nat /\ Counts(o, Len(rows))
  BY LengthIs DEF Whole
<1>7. /\ IsSeq(u) /\ u # <<>> /\ Len(u) = k /\ u[k] = x /\ k \in Nat /\ k > 2
      /\ u[k - 1] = o[n] /\ u[k - 2] = o[n - 1] /\ o # <<>>
      /\ EndsWith(u, "row")
  <2>1. o # <<>> /\ k > 2
    BY <1>6 DEF EndsWith
  <2> QED BY <1>1, <1>6, <2>1, NextLine
<1>8. /\ IsSeq(more) /\ Len(more) = Len(rows) + 1 /\ more[Len(rows) + 1] = r
      /\ \A i \in 1 .. Len(rows) : more[i] = rows[i]
  BY <1>6, Extended
<1>9. RowsUpTo(u, k) = Len(rows) + 1
  BY <1>1, <1>6, CountsGrow
<1>10. HeadOf(u, k) = HeadOf(o, n)
  BY <1>1, <1>6, HeadsGrow
<1>11. HeadOf(o, n) \in 1 .. n /\ o[HeadOf(o, n)].of = h
  BY DEF Titled, h
<1>12. u[HeadOf(u, k)].of = h
  <2>1. \A i \in 1 .. n : u[i] = o[i]
    BY <1>6, Extended
  <2> HIDE DEF u, n
  <2> QED BY <1>10, <1>11, <2>1
<1>13. o[n].at = "row" \/ o[n].at = "mid"
  BY DEF EndsWith
<1>14. (o[n].at = "row" => t = "google" \/ o[n].of = e.name)
       /\ (o[n - 1].at = "row" /\ o[n].at = "mid" => o[n - 1].of # e.name)
  BY <1>7 DEF EndsWith, Divided
<1> HIDE DEF u, more, n
<1>15. RowStands(t, u, more, k)
  <2>1. more[RowsUpTo(u, k)] = r
    BY <1>8, <1>9
  <2>2. HeadOf(u, k) \in 1 .. k
    BY <1>6, <1>10, <1>11
  <2> HIDE DEF k
  <2> QED BY <1>1, <1>2, <1>4, <1>7, <1>12, <1>13, <1>14, <2>1, <2>2 DEF RowStands
<1>16. InTable(t, u, k)
  <2>1. u[k].at = "row" /\ u[k - 1].at \in {"row", "mid"} /\ k # 1
    BY <1>1, <1>7, <1>13
  <2> HIDE DEF k
  <2> QED BY <2>1 DEF InTable, Kinds
<1>17. AsWide(t, u, more, fits, k)
  BY <1>1, <1>5, <1>7, <1>8, <1>9 DEF AsWide
<1>18. LineStands(t, u, more, fits, k)
  BY <1>15, <1>16, <1>17 DEF LineStands
<1>19. Whole(t, u, more, fits)
  <2>1. /\ LineStands(t, Append(o, x), more, fits, Len(o) + 1)
        /\ IsSeq(more) /\ Len(rows) <= Len(more) /\ \A i \in 1 .. Len(rows) : more[i] = rows[i]
        /\ Len(more) = Len(rows) + (IF x.at = "row" THEN 1 ELSE 0)
    <3>1. LineStands(t, Append(o, x), more, fits, Len(o) + 1)
      BY <1>18 DEF u, n
    <3>2. Len(rows) <= Len(more) /\ Len(more) = Len(rows) + (IF x.at = "row" THEN 1 ELSE 0)
      BY <1>1, <1>6, <1>8
    <3> QED BY <1>8, <3>1, <3>2
  <2> QED BY <2>1, WholeGrows DEF u
<1>20. Titled(u, h)
  <2>1. HeadOf(u, k) \in 1 .. k
    BY <1>6, <1>10, <1>11
  <2> QED BY <1>7, <1>12, <2>1 DEF Titled
<1>21. u[Len(u)].of = e.name
  BY <1>1, <1>7
<1> QED BY <1>7, <1>19, <1>20, <1>21 DEF u, more, x, r, h

-----------------------------------------------------------------------------
(* A turn of the loop leaves the tables whole.                              *)

Named(t, e) == GroupName(t, e) # NoGroup /\ e.name # <<>>

(* The table that is open: its group, and the operation of its last row.    *)
LastInv(t, rep) ==
  /\ rep.group = NoGroup => rep.out = <<>>
  /\ rep.group # NoGroup =>
       /\ Len(rep.out) > 1 /\ EndsWith(rep.out, "row") /\ Titled(rep.out, rep.group)
       /\ t # "google" => rep.lastRow = rep.out[Len(rep.out)].of /\ rep.lastRow # <<>>

Fit(labels) == labelCell(labels.current) = VAL_W /\ labelCell(labels.baseline) = VAL_W

LEMMA ThreeMore ==
  ASSUME NEW s, IsSeq(s), NEW a, NEW b, NEW c
  PROVE  s \o <<a, b, c>> = Append(Append(Append(s, a), b), c)
<1> DEFINE X == ToSet(s) \cup {a, b, c}
<1>1. s \in Seq(X) /\ a \in X /\ b \in X /\ c \in X
  BY DEF IsSeq
<1> HIDE DEF X
<1> QED BY <1>1

(* A line that does not end the sequence with a row leaves two lines at     *)
(* least behind a first one.                                                *)
LEMMA Longer1 ==
  ASSUME NEW o, IsSeq(o), o # <<>>, NEW x
  PROVE  Len(Append(o, x)) > 1 /\ IsSeq(Append(o, x))
<1>1. Len(o) > 0 /\ Len(o) \in Nat
  BY LengthIs
<1>2. Len(Append(o, x)) = Len(o) + 1 /\ IsSeq(Append(o, x))
  BY Extended
<1> QED BY <1>1, <1>2

(* The table of another group ends, and a new one is opened and headed.     *)
LEMMA TableOpens ==
  ASSUME NEW t \in Tools, NEW rep, NEW e \in Entry(t), NEW labels, rep.group # GroupName(t, e),
         Whole(t, rep.out, rep.rows, Fit(labels)), LastInv(t, rep)
  PROVE  LET o == OutBefore(t, rep, e, labels) IN
         /\ Whole(t, o, rep.rows, Fit(labels)) /\ Titled(o, GroupName(t, e))
         /\ Len(o) > 1 /\ EndsWith(o, "mid") /\ o[Len(o) - 1].at = "head"
<1> DEFINE rows == rep.rows
           fits == Fit(labels)
           h == GroupName(t, e)
           o1 == Closed(t, rep)
           top == Border(t, "top")
           head == HeadFor(t, h, labels)
           mid == Border(t, "mid")
           o2 == Append(o1, top)
           o3 == Append(o2, head)
           o4 == Append(o3, mid)
<1>1. /\ top.at = "top" /\ top.cols = WidthOf(t) /\ mid.at = "mid" /\ mid.cols = WidthOf(t)
  BY BorderIs
<1>2. /\ head.at = "head" /\ head.of = h /\ (fits => head.cols = WidthOf(t))
  <2>1. head.at = "head" /\ head.of = h
    BY DEF HeadFor
  <2>2. fits => head.cols = WidthOf(t)
    BY HeadFits DEF Fit
  <2> QED BY <2>1, <2>2
<1>3. Whole(t, o1, rows, fits) /\ (o1 = <<>> \/ EndsWith(o1, "bottom"))
  <2>1. CASE rep.group = NoGroup
    BY <2>1 DEF Closed, LastInv
  <2>2. CASE rep.group # NoGroup
    <3> DEFINE bottom == Border(t, "bottom")
    <3>1. bottom.at = "bottom" /\ bottom.cols = WidthOf(t)
      BY BorderIs
    <3>2. EndsWith(rep.out, "row")
      BY <2>2 DEF LastInv
    <3> HIDE DEF bottom
    <3>3. Whole(t, Append(rep.out, bottom), rows, fits) /\ EndsWith(Append(rep.out, bottom), "bottom")
      <4>1. ~EndsWith(rep.out, "top") /\ ~EndsWith(rep.out, "bottom") /\ rep.out # <<>>
        BY <3>2 DEF EndsWith
      <4> QED BY <3>1, <3>2, <4>1, LineFollows
    <3> QED BY <2>2, <3>3 DEF Closed, bottom
  <2> QED BY <2>1, <2>2
<1>4. OutBefore(t, rep, e, labels) = o4
  <2>1. IsSeq(o1)
    BY <1>3 DEF Whole
  <2>2. OutBefore(t, rep, e, labels) = o1 \o <<top, head, mid>>
    BY DEF OutBefore
  <2> HIDE DEF o1, top, head, mid
  <2> QED BY <2>1, <2>2, ThreeMore
<1> HIDE DEF o1, top, head, mid, h, fits
<1>5. Whole(t, o2, rows, fits) /\ EndsWith(o2, "top")
  <2>1. ~EndsWith(o1, "top")
    BY <1>3 DEF EndsWith
  <2> QED BY <1>1, <1>3, <2>1, LineFollows
<1> HIDE DEF o2
<1>6. Whole(t, o3, rows, fits) /\ EndsWith(o3, "head") /\ Titled(o3, h)
  <2>1. ~EndsWith(o2, "bottom") /\ o2 # <<>>
    BY <1>5 DEF EndsWith
  <2> QED BY <1>2, <1>5, <2>1, LineFollows
<1> HIDE DEF o3
<1>7. Whole(t, o4, rows, fits) /\ EndsWith(o4, "mid") /\ Titled(o4, h)
  <2>1. ~EndsWith(o3, "top") /\ ~EndsWith(o3, "bottom") /\ o3 # <<>>
    BY <1>6 DEF EndsWith
  <2> QED BY <1>1, <1>6, <2>1, LineFollows
<1>8. Len(o4) > 1 /\ o4[Len(o4) - 1].at = "head"
  <2>1. IsSeq(o3) /\ o3 # <<>> /\ o3[Len(o3)].at = "head"
    BY <1>6 DEF EndsWith, Whole
  <2>2. Len(o4) = Len(o3) + 1 /\ Len(o3) \in Nat /\ Len(o3) > 0 /\ o4[Len(o3)] = o3[Len(o3)]
    BY <2>1, Extended, LengthIs
  <2> HIDE DEF o4
  <2>3. Len(o4) - 1 = Len(o3)
    BY <2>2
  <2> QED BY <2>1, <2>2, <2>3
<1> QED BY <1>4, <1>7, <1>8 DEF fits, rows, h

(* Before a row: its table is open, and what stands above it fits it.       *)
LEMMA RoomForRow ==
  ASSUME NEW t \in Tools, NEW rep, NEW e \in Entry(t), NEW labels, Named(t, e),
         Whole(t, rep.out, rep.rows, Fit(labels)), LastInv(t, rep)
  PROVE  LET o == OutBefore(t, rep, e, labels) IN
         /\ Whole(t, o, rep.rows, Fit(labels)) /\ Titled(o, GroupName(t, e))
         /\ Len(o) > 1 /\ (EndsWith(o, "row") \/ EndsWith(o, "mid"))
         /\ EndsWith(o, "row") => t = "google" \/ o[Len(o)].of = e.name
         /\ Divided(o, e.name)
<1> DEFINE h == GroupName(t, e)
           o == OutBefore(t, rep, e, labels)
           out == rep.out
<1>1. CASE rep.group # h
  <2>1. /\ Whole(t, o, rep.rows, Fit(labels)) /\ Titled(o, h)
        /\ Len(o) > 1 /\ EndsWith(o, "mid") /\ o[Len(o) - 1].at = "head"
    BY <1>1, TableOpens
  <2> HIDE DEF o
  <2>2. ~EndsWith(o, "row") /\ Divided(o, e.name)
    BY <2>1 DEF EndsWith, Divided
  <2> QED BY <2>1, <2>2 DEF o
<1>2. CASE rep.group = h
  <2>1. /\ Len(out) > 1 /\ EndsWith(out, "row") /\ Titled(out, h) /\ IsSeq(out)
        /\ t # "google" => rep.lastRow = out[Len(out)].of /\ rep.lastRow # <<>>
    BY <1>2 DEF LastInv, Named, Whole
  <2>2. CASE t # "google" /\ rep.lastRow # e.name
    <3> DEFINE mid == Border(t, "mid")
               u == Append(out, mid)
    <3>1. mid.at = "mid" /\ mid.cols = WidthOf(t)
      BY BorderIs
    <3>2. o = u
      BY <1>2, <2>1, <2>2 DEF OutBefore
    <3> HIDE DEF mid, o
    <3>3. Whole(t, u, rep.rows, Fit(labels)) /\ EndsWith(u, "mid") /\ Titled(u, h)
      <4>1. ~EndsWith(out, "top") /\ ~EndsWith(out, "bottom") /\ out # <<>>
        BY <2>1 DEF EndsWith
      <4> QED BY <2>1, <2>2, <3>1, <4>1, LineFollows
    <3>4. Len(u) = Len(out) + 1 /\ Len(out) \in Nat /\ u[Len(out)] = out[Len(out)]
      BY <2>1, Extended
    <3> HIDE DEF u
    <3>5. Len(u) > 1 /\ u[Len(u) - 1].of # e.name
      BY <2>1, <2>2, <3>4
    <3>6. ~EndsWith(u, "row")
      BY <3>3 DEF EndsWith
    <3> QED BY <3>2, <3>3, <3>5, <3>6 DEF Divided, o
  <2>3. CASE t = "google" \/ rep.lastRow = e.name
    <3>1. o = out
      BY <1>2, <2>3 DEF OutBefore
    <3>2. Divided(out, e.name)
      BY <2>1 DEF EndsWith, Divided
    <3> HIDE DEF o
    <3> QED BY <2>1, <2>3, <3>1, <3>2 DEF o
  <2> QED BY <2>2, <2>3
<1> QED BY <1>1, <1>2

LEMMA TPrints ==
  ASSUME NEW t \in Tools, NEW rep, NEW e \in Entry(t), NEW cr \in Seq(Entry(t)), NEW labels, Named(t, e),
         Whole(t, rep.out, rep.rows, Fit(labels)), LastInv(t, rep)
  PROVE  LET new == Printed(t, rep, e, cr, labels) IN
         Whole(t, new.out, new.rows, Fit(labels)) /\ LastInv(t, new)
<1> DEFINE o == OutBefore(t, rep, e, labels)
           cns == Cns(t, cr, e)
           u == Append(o, LineFor(t, e, cns))
           more == Append(rep.rows, RowFor(t, e, cns))
           new == Printed(t, rep, e, cr, labels)
<1>1. /\ new.out = u /\ new.rows = more /\ new.group = GroupName(t, e)
      /\ t # "google" => new.lastRow = e.name
  BY DEF Printed
<1>2. cns \in 0 .. MAX_NS
  BY CnsType
<1>3. /\ Whole(t, o, rep.rows, Fit(labels)) /\ Titled(o, GroupName(t, e))
      /\ Len(o) > 1 /\ (EndsWith(o, "row") \/ EndsWith(o, "mid"))
      /\ EndsWith(o, "row") => t = "google" \/ o[Len(o)].of = e.name
      /\ Divided(o, e.name)
  BY RoomForRow
<1> HIDE DEF o, cns, new
<1>4. /\ Whole(t, u, more, Fit(labels)) /\ EndsWith(u, "row")
      /\ Titled(u, GroupName(t, e)) /\ u[Len(u)].of = e.name
  BY <1>2, <1>3, RowFollows
<1>5. Len(u) > 1
  <2>1. IsSeq(o) /\ o # <<>>
    BY <1>3 DEF Whole, EndsWith
  <2> QED BY <2>1, Longer1
<1> HIDE DEF u, more
<1>6. LastInv(t, new)
  BY <1>1, <1>4, <1>5 DEF LastInv, Named
<1> QED BY <1>1, <1>4, <1>6 DEF new

(* The loop is over: the last table is closed.                              *)
LEMMA TEnds ==
  ASSUME NEW t \in Tools, NEW rep, NEW fits, Whole(t, rep.out, rep.rows, fits), LastInv(t, rep)
  PROVE  /\ Whole(t, Closed(t, rep), rep.rows, fits)
         /\ Closed(t, rep) = <<>> \/ EndsWith(Closed(t, rep), "bottom")
<1>1. CASE rep.group = NoGroup
  BY <1>1 DEF Closed, LastInv
<1>2. CASE rep.group # NoGroup
  <2> DEFINE bottom == Border(t, "bottom")
  <2>1. bottom.at = "bottom" /\ bottom.cols = WidthOf(t)
    BY BorderIs
  <2>2. EndsWith(rep.out, "row")
    BY <1>2 DEF LastInv
  <2> HIDE DEF bottom
  <2>3. Whole(t, Append(rep.out, bottom), rep.rows, fits) /\ EndsWith(Append(rep.out, bottom), "bottom")
    <3>1. ~EndsWith(rep.out, "top") /\ ~EndsWith(rep.out, "bottom") /\ rep.out # <<>>
      BY <2>2 DEF EndsWith
    <3> QED BY <2>1, <2>2, <3>1, LineFollows
  <2> QED BY <1>2, <2>3 DEF Closed, bottom
<1> QED BY <1>1, <1>2

-----------------------------------------------------------------------------
(* The tables are whole in every state.                                     *)

LabelsOf(fs) == [current |-> labelFor(fs.current), baseline |-> labelFor(fs.baseline)]

TabInv(t, ph, fs, bs, rep) ==
  (\A k \in DOMAIN bs : Named(t, bs[k])) =>
    /\ Whole(t, rep.out, rep.rows, Fit(LabelsOf(fs)))
    /\ ph = "print" => LastInv(t, rep)
    /\ ph # "print" => rep.out = <<>> \/ EndsWith(rep.out, "bottom")

TInv == TabInv(tool, phase, files, base, report)

LEMMA NoTables ==
  ASSUME NEW t, NEW ph, NEW fs, NEW bs
  PROVE  TabInv(t, ph, fs, bs, EmptyReport)
<1>1. EmptyReport.out = <<>> /\ EmptyReport.rows = <<>> /\ EmptyReport.group = NoGroup
  BY DEF EmptyReport
<1>2. LastInv(t, EmptyReport)
  BY <1>1 DEF LastInv
<1>3. Whole(t, <<>>, <<>>, Fit(LabelsOf(fs)))
  <2>1. IsSeq(<<>>) /\ Len(<<>>) = 0 /\ DOMAIN <<>> = {}
    BY DEF IsSeq
  <2> QED BY <2>1, CountsStart DEF Whole
<1> HIDE DEF EmptyReport
<1> QED BY <1>1, <1>2, <1>3 DEF TabInv

LEMMA TInvPrints ==
  ASSUME CInv, TInv, PrintEntry PROVE TInv'
<1>1. /\ tool \in Tools /\ phase = "print" /\ pos \in DOMAIN base
      /\ base \in Seq(Entry(tool)) /\ cur \in Seq(Entry(tool)) /\ IsReport(report)
      /\ UNCHANGED <<tool, phase, files, base>>
  BY DEF CInv, CompareInv, RepInv, PrintEntry, inputs, sides
<1>2. report' = Printed(tool, report, base[pos], cur, Labels)
  BY <1>1, PrintedIs
<1>3. Labels = LabelsOf(files)
  BY DEF Labels, LabelsOf
<1>4. base[pos] \in Entry(tool)
  BY <1>1
<1>5. ASSUME \A k \in DOMAIN base : Named(tool, base[k])
      PROVE  /\ Whole(tool, report'.out, report'.rows, Fit(LabelsOf(files)))
             /\ LastInv(tool, report')
  <2>1. Whole(tool, report.out, report.rows, Fit(Labels)) /\ LastInv(tool, report)
    BY <1>1, <1>3, <1>5 DEF TInv, TabInv
  <2>2. Named(tool, base[pos])
    BY <1>1, <1>5
  <2> DEFINE e == base[pos]
             labels == Labels
             new == Printed(tool, report, e, cur, labels)
  <2>3. e \in Entry(tool) /\ Named(tool, e) /\ cur \in Seq(Entry(tool)) /\ tool \in Tools
    BY <1>1, <1>4, <2>2
  <2> HIDE DEF e, labels
  <2>4. Whole(tool, new.out, new.rows, Fit(labels)) /\ LastInv(tool, new)
    BY <2>1, <2>3, TPrints DEF labels
  <2> QED BY <1>2, <1>3, <2>4 DEF e, labels
<1>6. TabInv(tool, "print", files, base, report')
  BY <1>5 DEF TabInv
<1> QED BY <1>1, <1>6 DEF TInv

LEMMA TInvEnds ==
  ASSUME CInv, TInv, EndRegression PROVE TInv'
<1>1. /\ tool \in Tools /\ phase = "print" /\ phase' = "summary" /\ IsReport(report)
      /\ UNCHANGED <<tool, files, base>>
  BY DEF CInv, CompareInv, RepInv, EndRegression, inputs, sides
<1>2. report'.out = Closed(tool, report) /\ report'.rows = report.rows
  BY <1>1, EndedIs
<1>3. TabInv(tool, "summary", files, base, report')
  <2> SUFFICES ASSUME \A k \in DOMAIN base : Named(tool, base[k])
               PROVE  /\ Whole(tool, report'.out, report'.rows, Fit(LabelsOf(files)))
                      /\ report'.out = <<>> \/ EndsWith(report'.out, "bottom")
    BY DEF TabInv
  <2>1. Whole(tool, report.out, report.rows, Fit(LabelsOf(files))) /\ LastInv(tool, report)
    BY <1>1 DEF TInv, TabInv
  <2>2. /\ Whole(tool, Closed(tool, report), report.rows, Fit(LabelsOf(files)))
        /\ Closed(tool, report) = <<>> \/ EndsWith(Closed(tool, report), "bottom")
    BY <1>1, <2>1, TEnds
  <2> QED BY <1>2, <2>2
<1> QED BY <1>1, <1>3 DEF TInv

LEMMA TInvStarts == Init => TInv
BY NoTables DEF Init, TInv

LEMMA TInvSteps == CInv /\ TInv /\ [Next]_vars => TInv'
<1> SUFFICES ASSUME CInv, TInv, [Next]_vars PROVE TInv'
  OBVIOUS
<1>1. ASSUME phase \in Early, report' = report PROVE TInv'
  <2>1. report' = EmptyReport
    BY <1>1 DEF CInv, CompareInv
  <2> QED BY <2>1, NoTables DEF TInv
<1>2. ASSUME UNCHANGED <<tool, files, base, report>>, (phase = "print") = (phase' = "print") PROVE TInv'
  <2>1. TabInv(tool, phase', files, base, report)
    BY <1>2 DEF TInv, TabInv
  <2> QED BY <1>2, <2>1 DEF TInv
<1>3. ASSUME Throw, phase \in Early PROVE TInv'
  BY <1>1, <1>3 DEF Throw
<1>4. ASSUME printUsage \/ printList \/ ListThrows \/ MethodsBegin \/ MethodsUnknown PROVE TInv'
  BY <1>1, <1>3, <1>4 DEF printUsage, printList, ListThrows, MethodsBegin, MethodsUnknown, Early
<1>5. ASSUME MethodsOfBaseline \/ MethodsLoadFails \/ MethodsEnd PROVE TInv'
  BY <1>1, <1>3, <1>5 DEF MethodsOfBaseline, MethodsLoadFails, MethodsEnd, Early
<1>6. ASSUME NoBaseline \/ ResolveThrows \/ LoadThrows PROVE TInv'
  BY <1>3, <1>6 DEF NoBaseline, ResolveThrows, LoadThrows, Early
<1>7. ASSUME ChooseFiles PROVE TInv'
  BY <1>1, <1>7 DEF ChooseFiles, Early
<1>8. ASSUME Resolve PROVE TInv'
  BY <1>1, <1>8 DEF Resolve, Early
<1>9. ASSUME Load PROVE TInv'
  BY <1>1, <1>9 DEF Load, Early
<1>10. ASSUME printSummary \/ exportJson \/ exportMarkdown PROVE TInv'
  <2>1. /\ UNCHANGED <<tool, files, base, report>>
        /\ phase # "print" /\ phase' # "print"
    BY <1>10 DEF printSummary, exportJson, exportMarkdown, Return, inputs, sides
  <2> QED BY <1>2, <2>1
<1>11. ASSUME UNCHANGED vars PROVE TInv'
  <2>1. UNCHANGED <<tool, files, base, report, phase>>
    BY <1>11 DEF vars, inputs, sides
  <2> QED BY <1>2, <2>1
<1>12. ASSUME PrintEntry \/ EndRegression PROVE TInv'
  BY <1>12, TInvPrints, TInvEnds
<1> QED BY <1>4, <1>5, <1>6, <1>7, <1>8, <1>9, <1>10, <1>11, <1>12 DEF Next

LEMMA TInvShows == CInv /\ TInv => TablesAreWhole
<1> SUFFICES ASSUME CInv, TInv, \A e \in ToSet(base) : ~Unnamed(e) PROVE TablesAreWhole
  BY DEF TablesAreWhole
<1> DEFINE out == report.out
           rows == report.rows
<1>1. tool \in Tools /\ base \in Seq(Entry(tool)) /\ (phase # "done" => exit = -1)
  BY DEF CInv, CompareInv, RepInv
<1>2. \A r : GroupOf(r) = GroupName(tool, r) /\ TooWide(r) = Huge(r.b, r.c)
  BY DEF GroupOf, GroupName, Google, TooWide, Huge
<1>3. \A k \in DOMAIN base : Named(tool, base[k])
  <2>1. \A k \in DOMAIN base : base[k] \in ToSet(base)
    BY DEF ToSet
  <2> QED BY <1>2, <2>1 DEF Unnamed, Named
<1>4. /\ Whole(tool, out, rows, Fit(LabelsOf(files)))
      /\ phase = "print" => LastInv(tool, report)
      /\ phase # "print" => out = <<>> \/ EndsWith(out, "bottom")
  BY <1>3 DEF TInv, TabInv
<1>5. LabelsFit <=> Fit(LabelsOf(files))
  BY DEF LabelsFit, Fit, LabelsOf, Labels
<1>6. (IF Google THEN G!Width ELSE C!Width) = WidthOf(tool)
  BY DEF WidthOf, Google
<1>7. /\ IsSeq(out) /\ Len(out) \in Nat /\ DOMAIN out = 1 .. Len(out)
      /\ \A k \in DOMAIN out : LineStands(tool, out, rows, Fit(LabelsOf(files)), k)
  BY <1>4, LengthIs DEF Whole
<1>8. out # <<>> => out[Len(out)].at # "mid"
  <2>1. out # <<>> => EndsWith(out, "row") \/ EndsWith(out, "bottom")
    BY <1>4 DEF LastInv
  <2> QED BY <2>1 DEF EndsWith
<1>9. phase \in {"summary", "json", "md"} \/ Compared => out = <<>> \/ out[Len(out)].at = "bottom"
  <2>1. phase \in {"summary", "json", "md"} \/ Compared => phase # "print"
    BY <1>1 DEF Compared
  <2> QED BY <1>4, <2>1 DEF EndsWith
<1> DEFINE At(k) == out[k].at
           width == IF Google THEN G!Width ELSE C!Width
<1>10. ASSUME NEW k \in DOMAIN out
       PROVE  /\ At(k) = "top" <=> k = 1 \/ At(k - 1) = "bottom"
              /\ At(k) = "head" <=> k > 1 /\ At(k - 1) = "top"
              /\ At(k) = "bottom" => At(k - 1) = "row"
              /\ At(k) = "mid" => At(k - 1) = "head" \/ (At(k - 1) = "row" /\ k < Len(out) /\ ~Google)
  <2>1. InTable(tool, out, k)
    BY <1>7 DEF LineStands
  <2>2. out[k].at = "mid" => k < Len(out)
    <3>1. out # <<>>
      BY <1>7, LengthIs
    <3> HIDE DEF out
    <3> QED BY <1>7, <1>8, <3>1
  <2> HIDE DEF out
  <2> QED BY <2>1, <2>2 DEF InTable, Google
<1>11. ASSUME NEW k \in DOMAIN out, At(k) = "row"
       PROVE  LET r == RowOf(out, rows, k) IN
            /\ out[HeadOf(out, k)].of = GroupOf(r)
            /\ (r.c > r.b => out[k].c >= out[k].b) /\ (r.b > r.c => out[k].b >= out[k].c)
            /\ At(k - 1) \in {"row", "mid"}
            /\ At(k - 1) = "row" => Google \/ out[k - 1].of = out[k].of
            /\ At(k - 2) = "row" /\ At(k - 1) = "mid" => out[k - 2].of # out[k].of
  <2>1. RowStands(tool, out, rows, k)
    BY <1>7, <1>11 DEF LineStands
  <2>2. RowOf(out, rows, k) = rows[RowsUpTo(out, k)]
    BY DEF RowOf
  <2> HIDE DEF out, rows
  <2> QED BY <1>2, <2>1, <2>2 DEF RowStands, Google
<1>12. ASSUME NEW k \in DOMAIN out
       PROVE  \/ out[k].cols = width
              \/ At(k) = "head" /\ ~LabelsFit
              \/ At(k) = "row" /\ TooWide(RowOf(out, rows, k))
  <2>1. AsWide(tool, out, rows, Fit(LabelsOf(files)), k)
    BY <1>7 DEF LineStands
  <2>2. RowOf(out, rows, k) = rows[RowsUpTo(out, k)]
    BY DEF RowOf
  <2>3. width = WidthOf(tool)
    BY <1>6
  <2> HIDE DEF out, rows, width
  <2> QED BY <1>2, <1>5, <2>1, <2>2, <2>3 DEF AsWide
<1> HIDE DEF At, width
<1>13. \A k \in DOMAIN out :
         /\ At(k) = "top" <=> k = 1 \/ At(k - 1) = "bottom"
         /\ At(k) = "head" <=> k > 1 /\ At(k - 1) = "top"
         /\ At(k) = "bottom" => At(k - 1) = "row"
         /\ At(k) = "mid" => At(k - 1) = "head" \/ (At(k - 1) = "row" /\ k < Len(out) /\ ~Google)
         /\ At(k) = "row" => LET r == RowOf(out, rows, k) IN
              /\ out[HeadOf(out, k)].of = GroupOf(r)
              /\ (r.c > r.b => out[k].c >= out[k].b) /\ (r.b > r.c => out[k].b >= out[k].c)
              /\ At(k - 1) \in {"row", "mid"}
              /\ At(k - 1) = "row" => Google \/ out[k - 1].of = out[k].of
              /\ At(k - 2) = "row" /\ At(k - 1) = "mid" => out[k - 2].of # out[k].of
         /\ \/ out[k].cols = width
            \/ At(k) = "head" /\ ~LabelsFit
            \/ At(k) = "row" /\ TooWide(RowOf(out, rows, k))
  BY <1>10, <1>11, <1>12
<1> QED BY <1>9, <1>13 DEF TablesAreWhole, At, width

(* While no benchmark has the group that stands for none, or (custom tool)  *)
(* an empty operation, the tables on the terminal are whole: a table is     *)
(* opened, headed, separated and closed where printRegression() should, and *)
(* every row stands in the table of its own group with the longer bar on    *)
(* the slower side.  Every line is as wide as the borders, but a head whose *)
(* labels do not fit and a row whose change reaches ten million per cent.   *)
(* Times are below a second (RegressionAssumption).                         *)
THEOREM TablesWhole == Spec => []TablesAreWhole
<1>1. Spec => []LInv
  BY LInvStarts, LInvSteps, PTL DEF Spec
<1>2. Spec => []CInv
  BY <1>1, CInvStarts, CInvSteps, PTL DEF Spec
<1>3. Spec => []TInv
  BY <1>2, TInvStarts, TInvSteps, PTL DEF Spec
<1> QED BY <1>2, <1>3, TInvShows, PTL

-----------------------------------------------------------------------------
(* Types.                                                                   *)

Phases == {"args", "methods", "resolve", "load", "print", "summary", "json", "md", "done"}

InBars(x) == x.at = "row" => x.b \in 0 .. BAR_W /\ x.c \in 0 .. BAR_W
Bars(o) == IsSeq(o) /\ \A k \in DOMAIN o : InBars(o[k])

LEMMA BarsGrow ==
  ASSUME NEW o, Bars(o), NEW x, InBars(x) PROVE Bars(Append(o, x))
<1> DEFINE u == Append(o, x)
<1>1. /\ IsSeq(u) /\ Len(o) \in Nat /\ DOMAIN o = 1 .. Len(o) /\ DOMAIN u = 1 .. Len(o) + 1
      /\ u[Len(o) + 1] = x /\ \A k \in 1 .. Len(o) : u[k] = o[k]
  BY Extended DEF Bars
<1> HIDE DEF u
<1>2. ASSUME NEW k \in DOMAIN u PROVE InBars(u[k])
  <2>1. CASE k = Len(o) + 1
    BY <1>1, <2>1
  <2>2. CASE k # Len(o) + 1
    <3>1. k \in 1 .. Len(o)
      BY <1>1, <2>2
    <3> QED BY <1>1, <3>1 DEF Bars
  <2> QED BY <2>1, <2>2
<1>3. Bars(u)
  BY <1>1, <1>2 DEF Bars
<1> QED BY <1>3 DEF u

LEMMA BarsClosed ==
  ASSUME NEW t, NEW rep, Bars(rep.out) PROVE Bars(Closed(t, rep))
<1>1. InBars(Border(t, "bottom"))
  BY BorderIs DEF InBars
<1> QED BY <1>1, BarsGrow DEF Closed

LEMMA BarsPrint ==
  ASSUME NEW t \in Tools, NEW rep, NEW e \in Entry(t), NEW cr \in Seq(Entry(t)), NEW labels, Bars(rep.out)
  PROVE  Bars(Printed(t, rep, e, cr, labels).out)
<1> DEFINE h == GroupName(t, e)
           cns == Cns(t, cr, e)
           o == OutBefore(t, rep, e, labels)
           row == LineFor(t, e, cns)
           top == Border(t, "top")
           head == HeadFor(t, h, labels)
           mid == Border(t, "mid")
           o1 == Closed(t, rep)
<1>1. InBars(top) /\ InBars(mid) /\ InBars(head)
  <2>1. head.at = "head"
    BY DEF HeadFor
  <2> QED BY <2>1, BorderIs DEF InBars
<1>2. InBars(row)
  <2>1. row.c = bar(cns, Longer(e.time, cns)) /\ row.b = bar(e.time, Longer(e.time, cns))
    BY DEF LineFor
  <2>2. e.time \in Nat /\ cns \in Nat
    <3>1. e.time \in 0 .. MAX_NS
      BY DEF Entry, Tools
    <3>2. cns \in 0 .. MAX_NS
      BY CnsType
    <3> QED BY <3>1, <3>2, TimeIs
  <2> HIDE DEF cns, row
  <2> QED BY <2>1, <2>2, BarsAre DEF InBars
<1>3. Bars(o)
  <2>1. CASE rep.group # h
    <3>1. Bars(o1) /\ IsSeq(o1)
      BY BarsClosed DEF Bars
    <3>2. o = o1 \o <<top, head, mid>>
      BY <2>1 DEF OutBefore
    <3> HIDE DEF o, o1, top, head, mid
    <3>3. o = Append(Append(Append(o1, top), head), mid)
      BY <3>1, <3>2, ThreeMore
    <3>4. Bars(Append(o1, top))
      BY <1>1, <3>1, BarsGrow
    <3>5. Bars(Append(Append(o1, top), head))
      BY <1>1, <3>4, BarsGrow
    <3>6. Bars(Append(Append(Append(o1, top), head), mid))
      BY <1>1, <3>5, BarsGrow
    <3> QED BY <3>3, <3>6
  <2>2. CASE rep.group = h
    <3>1. o = rep.out \/ o = Append(rep.out, mid)
      BY <2>2 DEF OutBefore
    <3> HIDE DEF o, mid
    <3> QED BY <1>1, <3>1, BarsGrow
  <2> QED BY <2>1, <2>2
<1>4. Printed(t, rep, e, cr, labels).out = Append(o, row)
  BY DEF Printed
<1> HIDE DEF o, row
<1> QED BY <1>2, <1>3, <1>4, BarsGrow

(* What the other invariants leave open.                                    *)
YInv ==
  /\ phase \in Phases /\ exit \in {-1, 0, 1} /\ (exit = -1 <=> phase # "done")
  /\ group = {} \/ \E g : group = {g}
  /\ pos \in 1 .. Len(base) + Len(listing) + 1
  /\ Bars(report.out)

LEMMA Lengths ==
  ASSUME LInv, CInv PROVE Len(base) \in Nat /\ Len(listing) \in Nat /\ pos \in Nat \ {0}
BY DEF LInv, ListingInv, CInv, CompareInv, RepInv

LEMMA YInvStarts == Init => YInv
<1> SUFFICES ASSUME Init PROVE YInv
  OBVIOUS
<1>1. Bars(<<>>)
  BY DEF Bars, IsSeq
<1>2. EmptyReport.out = <<>>
  BY DEF EmptyReport
<1>3. pos \in 1 .. Len(base) + Len(listing) + 1
  BY DEF Init
<1> QED BY <1>1, <1>2, <1>3 DEF Init, YInv, Phases

LEMMA YInvSteps ==
  ASSUME LInv, LInv', CInv, CInv', YInv, [Next]_vars
  PROVE  YInv'
<1>1. /\ Len(base) \in Nat /\ Len(listing) \in Nat /\ pos \in Nat \ {0}
      /\ Len(base') \in Nat /\ Len(listing') \in Nat
  <2>1. Len(base) \in Nat /\ Len(listing) \in Nat /\ pos \in Nat \ {0}
    BY Lengths
  <2>2. (Len(base) \in Nat)' /\ (Len(listing) \in Nat)'
    BY DEF LInv, ListingInv, CInv, CompareInv, RepInv
  <2> QED BY <2>1, <2>2
<1>2. phase \in {"args", "resolve", "load"} => pos = 1
  BY DEF CInv, CompareInv
<1>3. /\ phase \in Phases /\ exit \in {-1, 0, 1} /\ (exit = -1 <=> phase # "done")
      /\ group = {} \/ \E g : group = {g}
      /\ pos \in 1 .. Len(base) + Len(listing) + 1
      /\ Bars(report.out)
  BY DEF YInv
<1>4. ASSUME phase' \in Phases, exit' \in {-1, 0, 1}, exit' = -1 <=> phase' # "done",
             group' = group, report' = report,
             \/ pos' = pos /\ base' = base /\ listing' = listing
             \/ pos = 1 /\ pos' = 1
             \/ pos' = pos + 1 /\ pos \in DOMAIN listing /\ listing' = listing
      PROVE  YInv'
  <2>1. pos' \in 1 .. Len(base') + Len(listing') + 1
    <3>1. CASE pos' = pos + 1 /\ pos \in DOMAIN listing /\ listing' = listing
      <4>1. DOMAIN listing = 1 .. Len(listing)
        BY DEF LInv, ListingInv
      <4> QED BY <1>1, <3>1, <4>1
    <3>2. CASE pos' = pos /\ base' = base /\ listing' = listing
      BY <1>3, <3>2
    <3>3. CASE pos' = 1
      BY <1>1, <3>3
    <3> QED BY <1>4, <3>1, <3>2, <3>3
  <2> QED BY <1>3, <1>4, <2>1 DEF YInv
<1>5. ASSUME Throw PROVE YInv'
  <2>1. /\ phase' = "done" /\ exit' = 1 /\ group' = group /\ report' = report
        /\ pos' = pos /\ base' = base /\ listing' = listing
    BY <1>5 DEF Throw, sides
  <2> QED BY <1>4, <2>1 DEF Phases
<1>6. ASSUME printUsage \/ printList \/ MethodsEnd PROVE YInv'
  <2>1. /\ phase' = "done" /\ exit' = 0 /\ group' = group /\ report' = report
        /\ \/ pos' = pos /\ base' = base /\ listing' = listing
           \/ pos = 1 /\ pos' = 1
    BY <1>2, <1>6 DEF printUsage, printList, MethodsEnd, Return, sides
  <2> QED BY <1>4, <2>1 DEF Phases
<1>7. ASSUME ListThrows \/ MethodsUnknown \/ MethodsLoadFails \/ NoBaseline \/ ResolveThrows \/ LoadThrows
      PROVE  YInv'
  BY <1>5, <1>7 DEF ListThrows, MethodsUnknown, MethodsLoadFails, NoBaseline, ResolveThrows, LoadThrows
<1>8. ASSUME MethodsBegin \/ MethodsOfBaseline PROVE YInv'
  <2>1. /\ phase' = "methods" /\ phase # "done" /\ exit' = exit /\ group' = group /\ report' = report
        /\ \/ pos = 1 /\ pos' = 1
           \/ pos' = pos + 1 /\ pos \in DOMAIN listing /\ listing' = listing
    BY <1>2, <1>8 DEF MethodsBegin, MethodsOfBaseline, sides
  <2> QED BY <1>3, <1>4, <2>1 DEF Phases
<1>9. ASSUME ChooseFiles PROVE YInv'
  <2>1. /\ phase' = "resolve" /\ phase # "done" /\ exit' = exit /\ group' = group /\ report' = report
        /\ pos' = pos /\ base' = base /\ listing' = listing
    BY <1>9 DEF ChooseFiles
  <2> QED BY <1>3, <1>4, <2>1 DEF Phases
<1>10. ASSUME Resolve PROVE YInv'
  <2>1. /\ phase' = "load" /\ phase # "done" /\ exit' = exit /\ report' = report
        /\ pos' = pos /\ base' = base /\ listing' = listing
    BY <1>10 DEF Resolve
  <2>2. group' = group \/ \E g : group' = {g}
    <3>1. CASE looksLikeMethodId(filter)
      <4>1. ~looksLikeLetterGroup(filter)
        BY <3>1 DEF looksLikeMethodId, looksLikeLetterGroup
      <4> QED BY <1>10, <3>1, <4>1 DEF Resolve
    <3>2. CASE ~looksLikeMethodId(filter) /\ looksLikeLetterGroup(filter)
      BY <1>10, <3>2 DEF Resolve
    <3>3. CASE ~looksLikeMethodId(filter) /\ ~looksLikeLetterGroup(filter)
      BY <1>10, <3>3 DEF Resolve
    <3> QED BY <3>1, <3>2, <3>3
  <2>3. group' = {} \/ \E g : group' = {g}
    BY <1>3, <2>2
  <2>4. exit' = -1 /\ phase' # "done"
    BY <1>3, <2>1
  <2> QED BY <1>3, <2>1, <2>3, <2>4 DEF YInv, Phases
<1>11. ASSUME Load PROVE YInv'
  <2>1. /\ phase' = "print" /\ phase # "done" /\ exit' = exit /\ group' = group /\ report' = report
        /\ pos = 1 /\ pos' = 1
    BY <1>2, <1>11 DEF Load
  <2> QED BY <1>3, <1>4, <2>1 DEF Phases
<1>12. ASSUME PrintEntry PROVE YInv'
  <2>1. /\ tool \in Tools /\ pos \in DOMAIN base /\ phase = "print" /\ pos' = pos + 1
        /\ base \in Seq(Entry(tool)) /\ cur \in Seq(Entry(tool)) /\ IsReport(report)
        /\ UNCHANGED <<phase, exit, group, base, listing>>
    BY <1>12 DEF CInv, CompareInv, RepInv, PrintEntry, sides
  <2>2. Bars(report'.out)
    <3>1. report' = Printed(tool, report, base[pos], cur, Labels)
      BY <1>12, <2>1, PrintedIs
    <3>2. base[pos] \in Entry(tool)
      BY <2>1
    <3> DEFINE labels == Labels
               e == base[pos]
    <3> HIDE DEF labels, e
    <3>3. e \in Entry(tool)
      BY <3>2 DEF e
    <3>4. Bars(Printed(tool, report, e, cur, labels).out)
      BY <1>3, <2>1, <3>3, BarsPrint
    <3> QED BY <3>1, <3>4 DEF labels, e
  <2>3. pos' \in 1 .. Len(base) + Len(listing) + 1
    <3>1. pos \in 1 .. Len(base)
      BY <2>1
    <3> QED BY <1>1, <2>1, <3>1
  <2> QED BY <1>3, <2>1, <2>2, <2>3 DEF YInv
<1>13. ASSUME EndRegression PROVE YInv'
  <2>1. /\ tool \in Tools /\ phase = "print" /\ phase' = "summary" /\ IsReport(report)
        /\ UNCHANGED <<exit, group, base, listing, pos>>
    BY <1>13 DEF CInv, CompareInv, RepInv, EndRegression, sides
  <2>2. Bars(report'.out)
    <3>1. report'.out = Closed(tool, report)
      BY <1>13, <2>1, EndedIs
    <3> QED BY <1>3, <3>1, BarsClosed
  <2>3. exit' = -1 /\ phase' # "done"
    BY <1>3, <2>1
  <2> QED BY <1>3, <2>1, <2>2, <2>3 DEF YInv, Phases
<1>14. ASSUME printSummary \/ exportJson PROVE YInv'
  <2>1. /\ phase' \in {"json", "md"} /\ phase # "done" /\ exit' = exit /\ group' = group /\ report' = report
        /\ pos' = pos /\ base' = base /\ listing' = listing
    BY <1>14 DEF printSummary, exportJson, sides
  <2> QED BY <1>3, <1>4, <2>1 DEF Phases
<1>15. ASSUME exportMarkdown PROVE YInv'
  <2>1. /\ phase' = "done" /\ exit' = 0 /\ group' = group /\ report' = report
        /\ pos' = pos /\ base' = base /\ listing' = listing
    BY <1>15 DEF exportMarkdown, Return, sides
  <2> QED BY <1>4, <2>1 DEF Phases
<1>16. ASSUME UNCHANGED vars PROVE YInv'
  <2>1. /\ UNCHANGED <<phase, exit, group, report, pos, base, listing>>
    BY <1>16 DEF vars, sides
  <2> QED BY <1>3, <1>4, <2>1
<1> QED BY <1>6, <1>7, <1>8, <1>9, <1>10, <1>11, <1>12, <1>13, <1>14, <1>15, <1>16 DEF Next

LEMMA OneAtMost ==
  ASSUME NEW S, S = {} \/ \E x : S = {x} PROVE Cardinality(S) <= 1
<1>1. CASE S = {}
  BY <1>1, FS_EmptySet
<1>2. CASE \E x : S = {x}
  <2>1. PICK x : S = {x}
    BY <1>2
  <2> QED BY <2>1, FS_Singleton
<1> QED BY <1>1, <1>2

LEMMA TypesFollow == LInv /\ CInv /\ YInv => TypeOK
<1> SUFFICES ASSUME LInv, CInv, YInv PROVE TypeOK
  OBVIOUS
<1>1. /\ tool \in Tools /\ argv \in Argvs /\ world \in Worlds
      /\ CompareInv(tool, world, argv, phase, exit, files, filter, group, base, cur, pos, report,
                    summary, saved)
  BY DEF CInv
<1>2. /\ files \in Files /\ (exit = 1 => saved = NoReports)
      /\ base \in Seq(Entry(tool)) /\ cur \in Seq(Entry(tool))
      /\ summary \subseteq {CountedOf(report.rows)}
  BY <1>1 DEF CompareInv, RepInv, SavedInv
<1>3. ASSUME NEW r \in ToSet(base) \cup ToSet(cur) PROVE r.time \in Nat /\ r.name \in Seq(DOMAIN Cols)
  <2>1. r \in Entry(tool)
    BY <1>2 DEF ToSet
  <2>2. r.time \in 0 .. MAX_NS /\ r.name \in Seq(DOMAIN Cols)
    BY <1>1, <2>1 DEF Entry, Tools
  <2> QED BY <2>2, TimeIs
<1>4. Cardinality(group) <= 1
  BY OneAtMost DEF YInv
<1>5. Cardinality(summary) <= 1
  <2> DEFINE s == CountedOf(report.rows)
  <2>1. summary \subseteq {s}
    BY <1>2
  <2> HIDE DEF s
  <2>2. summary = {} \/ \E x : summary = {x}
    BY <2>1
  <2> QED BY <2>2, OneAtMost
<1>6. \A k \in DOMAIN report.out :
        report.out[k].at = "row" => report.out[k].b \in 0 .. BAR_W /\ report.out[k].c \in 0 .. BAR_W
  BY DEF YInv, Bars, InBars
<1> QED BY <1>1, <1>2, <1>3, <1>4, <1>5, <1>6 DEF TypeOK, YInv, Phases, Tools, Files

(* Everything a run builds up keeps its type: where main() stands and what  *)
(* it exits with, the cursor of its loops, the entries loaded, the bars of  *)
(* the table, and that a run that throws saves nothing.                     *)
THEOREM TypeCorrect == Spec => []TypeOK
<1>1. Spec => []LInv
  BY LInvStarts, LInvSteps, PTL DEF Spec
<1>2. Spec => []CInv
  BY <1>1, CInvStarts, CInvSteps, PTL DEF Spec
<1>3. LInv /\ LInv' /\ CInv /\ CInv' /\ YInv /\ [Next]_vars => YInv'
  BY YInvSteps
<1>4. Spec => []YInv
  BY <1>1, <1>2, <1>3, YInvStarts, PTL DEF Spec
<1> QED BY <1>1, <1>2, <1>4, TypesFollow, PTL
=============================================================================
