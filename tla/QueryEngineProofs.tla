-------------------------- MODULE QueryEngineProofs --------------------------
(***************************************************************************)
(* Theorems about QueryEngine, for any records, schemas, queries and sizes *)
(* of page: a query answers what its definition over the set of live       *)
(* records says, sums included, and only certain records of certain columns *)
(* leave std::sort without an order.                                       *)
(***************************************************************************)
EXTENDS QueryEngine, FiniteSetTheorems, SequenceTheorems, WellFoundedInduction, TLAPS

-----------------------------------------------------------------------------
(* Natural numbers.                                                        *)

(* The least element of a set of naturals: the intervals 1 .. n are finite  *)
(* sets, which strict inclusion orders well.                                *)
LEMMA LeastElement ==
  ASSUME NEW A \in SUBSET Nat, A # {}
  PROVE  \E n \in A : \A m \in A : n <= m
<1> DEFINE T == {1 .. n : n \in A}
           R == StrictSubsetOrdering(Nat)
<1>1. IsWellFoundedOn(R, FiniteSubsetsOf(Nat))
  BY FS_StrictSubsetOrderingWellFounded
<1>2. T \subseteq FiniteSubsetsOf(Nat) /\ T # {}
  <2>1. \A n \in A : IsFiniteSet(1 .. n) /\ 1 .. n \subseteq Nat
    BY FS_Interval
  <2> QED BY <2>1 DEF FiniteSubsetsOf
<1>3. \E x \in T : \A y \in T : <<y, x>> \notin R
  <2> HIDE DEF T, R
  <2> QED BY <1>1, <1>2, WFMin
<1>4. PICK n \in A : \A m \in A : <<1 .. m, 1 .. n>> \notin R
  BY <1>3
<1>5. ASSUME NEW m \in A, m < n PROVE FALSE
  <2>1. /\ 1 .. m \subseteq 1 .. n /\ n \in 1 .. n /\ n \notin 1 .. m
        /\ 1 .. m \subseteq Nat /\ 1 .. n \subseteq Nat
    BY <1>5
  <2> QED BY <1>4, <2>1 DEF StrictSubsetOrdering
<1> QED BY <1>5

(* Induction, for a set of naturals.                                        *)
LEMMA AllNaturals ==
  ASSUME NEW N \in SUBSET Nat, 0 \in N, \A n \in N : n + 1 \in N
  PROVE  N = Nat
<1> SUFFICES ASSUME N # Nat PROVE FALSE
  OBVIOUS
<1>1. Nat \ N \in SUBSET Nat /\ Nat \ N # {}
  OBVIOUS
<1>2. PICK n \in Nat \ N : \A m \in Nat \ N : n <= m
  BY <1>1, LeastElement
<1>3. n - 1 \in N
  BY <1>2
<1> QED BY <1>2, <1>3

-----------------------------------------------------------------------------
(* Sums.  MapThenSumSet(Number, S) is h[S] of a function h that takes the   *)
(* elements of a set away one by one, in an order of its own.               *)

Some(s) == CHOOSE x \in s : TRUE
Rest(h, s) == IF s = {} THEN 0 ELSE Number(Some(s)) + h[s \ {Some(s)}]
IsSum(h, S) == h = [s \in SUBSET S |-> Rest(h, s)]

Numbered(S) == IsFiniteSet(S) /\ \A x \in S : Number(x) \in Int

SumOver(S) == MapThenSumSet(Number, S)

LEMMA SomeIs ==
  ASSUME NEW s, s # {}
  PROVE  Some(s) \in s
BY DEF Some

(* What a subset of a finite set of positions is, and one without an element. *)
LEMMA Subsets ==
  ASSUME NEW S, Numbered(S), NEW T \in SUBSET S
  PROVE  /\ Numbered(T) /\ Cardinality(T) \in Nat
         /\ Cardinality(T) <= Cardinality(S)
         /\ Cardinality(T) = 0 <=> T = {}
         /\ \A x \in T : Cardinality(T \ {x}) = Cardinality(T) - 1 /\ T \ {x} \in SUBSET S
<1>1. IsFiniteSet(T) /\ Cardinality(T) <= Cardinality(S) /\ Cardinality(T) \in Nat
  BY FS_Subset, FS_CardinalityType DEF Numbered
<1>2. Cardinality(T) = 0 <=> T = {}
  BY <1>1, FS_EmptySet
<1>3. \A x \in T : Cardinality(T \ {x}) = Cardinality(T) - 1
  BY <1>1, FS_RemoveElement
<1> QED BY <1>1, <1>2, <1>3 DEF Numbered

(* Such a function exists: one that is right up to n elements gives one     *)
(* that is right up to n + 1.                                               *)
LEMMA SumExists ==
  ASSUME NEW S, Numbered(S)
  PROVE  \E h : IsSum(h, S)
<1> DEFINE RightUpTo(h, n) == \A s \in SUBSET S : Cardinality(s) <= n => h[s] = Rest(h, s)
           N == {n \in Nat : \E h \in [SUBSET S -> Int] : RightUpTo(h, n)}
<1>1. 0 \in N
  <2> DEFINE h == [s \in SUBSET S |-> 0]
  <2>1. h \in [SUBSET S -> Int] /\ \A s \in SUBSET S : h[s] = 0
    OBVIOUS
  <2>2. \A s \in SUBSET S : Cardinality(s) <= 0 => s = {}
    BY Subsets
  <2> HIDE DEF h
  <2>3. RightUpTo(h, 0)
    BY <2>1, <2>2 DEF Rest
  <2> QED BY <2>1, <2>3
<1>2. ASSUME NEW n \in N PROVE n + 1 \in N
  <2>1. PICK h \in [SUBSET S -> Int] : RightUpTo(h, n)
    BY DEF N
  <2> DEFINE g == [s \in SUBSET S |-> IF Cardinality(s) <= n THEN h[s] ELSE Rest(h, s)]
  <2>2. n \in Nat
    OBVIOUS
  <2>3. ASSUME NEW s \in SUBSET S, s # {}
        PROVE  /\ Some(s) \in s /\ s \ {Some(s)} \in SUBSET S
               /\ Cardinality(s \ {Some(s)}) = Cardinality(s) - 1 /\ Cardinality(s) \in Nat
               /\ Number(Some(s)) \in Int
    BY <2>3, SomeIs, Subsets DEF Numbered
  <2>4. \A s \in SUBSET S : Rest(h, s) \in Int
    BY <2>3 DEF Rest
  <2>5. g \in [SUBSET S -> Int] /\ \A s \in SUBSET S : Cardinality(s) <= n => g[s] = h[s]
    BY <2>4
  <2>6. \A s \in SUBSET S : ~(Cardinality(s) <= n) => g[s] = Rest(h, s)
    OBVIOUS
  <2> HIDE DEF g
  <2>7. ASSUME NEW s \in SUBSET S, Cardinality(s) <= n + 1 PROVE g[s] = Rest(g, s)
    <3>1. Rest(g, s) = Rest(h, s)
      <4>1. CASE s = {}
        BY <4>1 DEF Rest
      <4>2. CASE s # {}
        <5>1. g[s \ {Some(s)}] = h[s \ {Some(s)}]
          BY <2>2, <2>3, <2>5, <2>7, <4>2
        <5> QED BY <4>2, <5>1 DEF Rest
      <4> QED BY <4>1, <4>2
    <3> QED BY <2>1, <2>5, <2>6, <3>1
  <2>8. RightUpTo(g, n + 1)
    BY <2>7
  <2> QED BY <2>2, <2>5, <2>8
<1> HIDE DEF N
<1>3. N = Nat
  <2>1. N \in SUBSET Nat
    BY DEF N
  <2> QED BY <1>1, <1>2, <2>1, AllNaturals
<1>4. PICK h \in [SUBSET S -> Int] : RightUpTo(h, Cardinality(S))
  <2>1. Cardinality(S) \in N
    BY <1>3, Subsets
  <2> QED BY <2>1 DEF N
<1>5. \A s \in SUBSET S : h[s] = Rest(h, s)
  BY <1>4, Subsets
<1>6. h = [s \in SUBSET S |-> h[s]]
  OBVIOUS
<1>7. IsSum(h, S)
  BY <1>5, <1>6 DEF IsSum
<1> QED BY <1>7

(* The fold is such a function, of which CHOOSE picks one.                  *)
LEMMA SumIs ==
  ASSUME NEW S, Numbered(S)
  PROVE  \E h : IsSum(h, S) /\ SumOver(S) = h[S]
<1>1. PICK g : g = [s \in SUBSET S |-> IF s = {} THEN 0
                      ELSE LET x == CHOOSE x \in s : TRUE IN Number(x) + g[s \ {x}]]
  BY SumExists DEF IsSum, Rest, Some
<1>2. \E h : /\ h = [s \in SUBSET S |-> IF s = {} THEN 0
                      ELSE LET x == CHOOSE x \in s : TRUE IN Number(x) + h[s \ {x}]]
             /\ MapThenSumSet(Number, S) = h[S]
  BY <1>1 DEF MapThenSumSet, MapThenFoldSet
<1> QED BY <1>2 DEF IsSum, Rest, Some, SumOver

(* The order does not matter: any element may be taken away first.          *)
Removable(h, T) == h[T] \in Int /\ \A x \in T : h[T] = Number(x) + h[T \ {x}]

LEMMA RemovableStep ==
  ASSUME NEW S, Numbered(S), NEW h, IsSum(h, S), NEW T \in SUBSET S,
         \A U \in SUBSET S : Cardinality(U) < Cardinality(T) => Removable(h, U)
  PROVE  Removable(h, T)
<1> DEFINE c == Some(T)
<1>1. h[T] = Rest(h, T)
  BY DEF IsSum
<1>2. CASE T = {}
  BY <1>1, <1>2 DEF Rest, Removable
<1>3. CASE T # {}
  <2>1. c \in T /\ h[T] = Number(c) + h[T \ {c}]
    BY <1>1, <1>3, SomeIs DEF Rest
  <2>2. ASSUME NEW x \in T
        PROVE  T \ {x} \in SUBSET S /\ Removable(h, T \ {x}) /\ Number(x) \in Int
    <3>1. T \ {x} \in SUBSET S /\ Cardinality(T \ {x}) = Cardinality(T) - 1 /\ Cardinality(T) \in Nat
      BY Subsets
    <3> QED BY <3>1 DEF Numbered
  <2> HIDE DEF c
  <2>3. h[T] \in Int
    <3>1. Removable(h, T \ {c}) /\ Number(c) \in Int
      BY <2>1, <2>2
    <3> QED BY <2>1, <3>1 DEF Removable
  <2>4. ASSUME NEW x \in T PROVE h[T] = Number(x) + h[T \ {x}]
    <3>1. CASE x = c
      BY <2>1, <3>1
    <3>2. CASE x # c
      <4> DEFINE V == T \ {c}
                 W == T \ {x}
                 U == V \ {x}
      <4>1. x \in V /\ c \in W /\ U = W \ {c} /\ U = V \ {x}
        BY <2>1, <3>2
      <4>2. Removable(h, V) /\ Removable(h, W) /\ V \in SUBSET S
        BY <2>1, <2>2
      <4>3. Removable(h, U)
        <5>1. U \in SUBSET S /\ Cardinality(U) = Cardinality(V) - 1 /\ Cardinality(V) \in Nat
          BY <4>1, <4>2, Subsets
        <5>2. Cardinality(V) = Cardinality(T) - 1 /\ Cardinality(T) \in Nat
          BY <2>1, Subsets
        <5>3. Cardinality(U) < Cardinality(T)
          BY <5>1, <5>2
        <5> QED BY <5>1, <5>3
      <4>4. h[T] = Number(c) + h[V] /\ Number(x) \in Int /\ Number(c) \in Int
        BY <2>1, <2>2
      <4> HIDE DEF U, V, W
      <4>5. h[V] = Number(x) + h[U] /\ h[W] = Number(c) + h[U] /\ h[U] \in Int
        BY <4>1, <4>2, <4>3 DEF Removable
      <4>6. h[T] = Number(x) + h[W]
        BY <4>4, <4>5
      <4> QED BY <4>6 DEF W
    <3> QED BY <3>1, <3>2
  <2> QED BY <2>3, <2>4 DEF Removable
<1> QED BY <1>2, <1>3

LEMMA SumRemove ==
  ASSUME NEW S, Numbered(S), NEW h, IsSum(h, S)
  PROVE  \A T \in SUBSET S : Removable(h, T)
<1> DEFINE N == {n \in Nat : \A T \in SUBSET S : Cardinality(T) < n => Removable(h, T)}
<1>1. \A T \in SUBSET S : Cardinality(T) \in Nat
  BY Subsets
<1>2. 0 \in N
  BY <1>1
<1>3. ASSUME NEW n \in N PROVE n + 1 \in N
  <2>1. n \in Nat /\ \A T \in SUBSET S : Cardinality(T) < n => Removable(h, T)
    OBVIOUS
  <2>2. ASSUME NEW T \in SUBSET S, Cardinality(T) < n + 1 PROVE Removable(h, T)
    <3>1. \A U \in SUBSET S : Cardinality(U) < Cardinality(T) => Removable(h, U)
      BY <1>1, <2>1, <2>2
    <3> QED BY <3>1, RemovableStep
  <2> QED BY <2>1, <2>2
<1> HIDE DEF N
<1>4. N = Nat
  <2>1. N \in SUBSET Nat
    BY DEF N
  <2> QED BY <1>2, <1>3, <2>1, AllNaturals
<1> SUFFICES ASSUME NEW T \in SUBSET S PROVE Removable(h, T)
  OBVIOUS
<1>5. Cardinality(T) + 1 \in N /\ Cardinality(T) < Cardinality(T) + 1
  BY <1>1, <1>4
<1> QED BY <1>5 DEF N

(* Two sets add up what they share to the same.                             *)
LEMMA SumAgrees ==
  ASSUME NEW S, Numbered(S), NEW R \in SUBSET S, NEW h, IsSum(h, S), NEW g, IsSum(g, R)
  PROVE  g[R] = h[R]
<1> DEFINE N == {n \in Nat : \A T \in SUBSET R : Cardinality(T) < n => g[T] = h[T]}
<1>1. Numbered(R) /\ \A T \in SUBSET R : T \in SUBSET S /\ Cardinality(T) \in Nat
  BY Subsets
<1>2. 0 \in N
  BY <1>1
<1>3. ASSUME NEW n \in N PROVE n + 1 \in N
  <2>1. n \in Nat /\ \A T \in SUBSET R : Cardinality(T) < n => g[T] = h[T]
    OBVIOUS
  <2>2. ASSUME NEW T \in SUBSET R, Cardinality(T) < n + 1 PROVE g[T] = h[T]
    <3>1. g[T] = Rest(g, T) /\ h[T] = Rest(h, T)
      BY <1>1 DEF IsSum
    <3>2. CASE T = {}
      BY <3>1, <3>2 DEF Rest
    <3>3. CASE T # {}
      <4>1. /\ T \ {Some(T)} \in SUBSET R /\ Cardinality(T) \in Nat
            /\ Cardinality(T \ {Some(T)}) = Cardinality(T) - 1
        BY <1>1, <3>3, SomeIs, Subsets
      <4>2. g[T \ {Some(T)}] = h[T \ {Some(T)}]
        BY <2>1, <2>2, <4>1
      <4> QED BY <3>1, <3>3, <4>2 DEF Rest
    <3> QED BY <3>2, <3>3
  <2> QED BY <2>1, <2>2
<1> HIDE DEF N
<1>4. N = Nat
  <2>1. N \in SUBSET Nat
    BY DEF N
  <2> QED BY <1>2, <1>3, <2>1, AllNaturals
<1>5. Cardinality(R) + 1 \in N /\ Cardinality(R) < Cardinality(R) + 1
  BY <1>1, <1>4
<1> QED BY <1>5 DEF N

(* Nothing adds up to 0.                                                    *)
LEMMA SumOverEmpty ==
  SumOver({}) = 0 /\ Numbered({})
<1>1. Numbered({})
  BY FS_EmptySet DEF Numbered
<1>2. PICK h : IsSum(h, {}) /\ SumOver({}) = h[{}]
  BY <1>1, SumIs
<1>3. h[{}] = Rest(h, {})
  BY <1>2 DEF IsSum
<1> QED BY <1>1, <1>2, <1>3 DEF Rest

(* One number more.                                                         *)
LEMMA SumOverAdd ==
  ASSUME NEW S, Numbered(S), NEW x, x \notin S, Number(x) \in Int
  PROVE  /\ SumOver(S) \in Int
         /\ SumOver(S \cup {x}) = SumOver(S) + Number(x)
<1> DEFINE T == S \cup {x}
<1>1. Numbered(T) /\ S \in SUBSET T /\ T \ {x} = S /\ x \in T
  BY FS_AddElement DEF Numbered
<1>2. PICK h : IsSum(h, T) /\ SumOver(T) = h[T]
  BY <1>1, SumIs
<1>3. PICK g : IsSum(g, S) /\ SumOver(S) = g[S]
  BY SumIs
<1> HIDE DEF T
<1>4. g[S] = h[S]
  BY <1>1, <1>2, <1>3, SumAgrees
<1>5. Removable(h, T) /\ Removable(h, S)
  BY <1>1, <1>2, SumRemove
<1>6. h[T] = Number(x) + h[S] /\ h[S] \in Int
  BY <1>1, <1>5 DEF Removable
<1>7. SumOver(T) = SumOver(S) + Number(x) /\ SumOver(S) \in Int
  BY <1>2, <1>3, <1>4, <1>6
<1> QED BY <1>7 DEF T

-----------------------------------------------------------------------------
(* Records and validation.                                                 *)

Typed == [type : Types, v : Int]

LEMMA ValuesTyped == \A k \in Fields : Values[k] \subseteq Typed
BY RecordAssumption DEF Typed

(* The data of a record: some fields, each set to one of its values.        *)
LEMMA DataIs ==
  ASSUME NEW d
  PROVE  d \in Data <=> /\ d = [k \in DOMAIN d |-> d[k]]
                        /\ DOMAIN d \subseteq Fields
                        /\ \A k \in DOMAIN d : d[k] \in Values[k]
<1> DEFINE Any == UNION {Values[k] : k \in Fields}
           Over(S) == {e \in [S -> Any] : \A k \in S : e[k] \in Values[k]}
<1>1. Data = UNION {Over(S) : S \in SUBSET Fields}
  BY Zenon DEF Data
<1>2. ASSUME d \in Data
      PROVE  /\ d = [k \in DOMAIN d |-> d[k]] /\ DOMAIN d \subseteq Fields
             /\ \A k \in DOMAIN d : d[k] \in Values[k]
  <2> HIDE DEF Over
  <2>1. PICK S \in SUBSET Fields : d \in Over(S)
    BY <1>1, <1>2
  <2>2. d \in [S -> Any] /\ \A k \in S : d[k] \in Values[k]
    BY <2>1 DEF Over
  <2> QED BY <2>2
<1>3. ASSUME /\ d = [k \in DOMAIN d |-> d[k]] /\ DOMAIN d \subseteq Fields
             /\ \A k \in DOMAIN d : d[k] \in Values[k]
      PROVE  d \in Data
  <2>1. \A k \in DOMAIN d : d[k] \in Any
    BY <1>3
  <2> HIDE DEF Any
  <2>2. d \in [DOMAIN d -> Any]
    BY <1>3, <2>1
  <2>3. d \in Over(DOMAIN d)
    BY <1>3, <2>2
  <2> HIDE DEF Over
  <2> QED BY <1>1, <1>3, <2>3
<1> QED BY <1>2, <1>3

(* A record without fields is one, and setField() and removeField() keep it one. *)
LEMMA DataKept ==
  /\ NoData \in Data
  /\ \A d \in Data : \A key \in Fields :
       /\ \A value \in Values[key] : setField(d, key, value) \in Data
       /\ removeField(d, key) \in Data
<1>1. NoData \in Data
  <2>1. DOMAIN NoData = {} /\ NoData = [k \in DOMAIN NoData |-> NoData[k]]
    BY DEF NoData
  <2> QED BY <2>1, DataIs
<1>2. ASSUME NEW d \in Data, NEW key \in Fields, NEW value \in Values[key]
      PROVE  setField(d, key, value) \in Data
  <2> DEFINE e == setField(d, key, value)
  <2>1. /\ DOMAIN e = DOMAIN d \cup {key}
        /\ \A k \in DOMAIN e : e[k] = IF k = key THEN value ELSE d[k]
        /\ e = [k \in DOMAIN e |-> e[k]]
    BY DEF setField
  <2> HIDE DEF e
  <2>2. e \in Data
    BY <2>1, DataIs
  <2> QED BY <2>2 DEF e
<1>3. ASSUME NEW d \in Data, NEW key \in Fields
      PROVE  removeField(d, key) \in Data
  <2> DEFINE e == removeField(d, key)
  <2>1. /\ DOMAIN e = DOMAIN d \ {key}
        /\ \A k \in DOMAIN e : e[k] = d[k]
        /\ e = [k \in DOMAIN e |-> e[k]]
    BY DEF removeField
  <2> HIDE DEF e
  <2>2. e \in Data
    BY <2>1, DataIs
  <2> QED BY <2>2 DEF e
<1> QED BY <1>1, <1>2, <1>3

(* validate() says OK when no column is out of order.                       *)
LEMMA ValidateOK ==
  ASSUME NEW s \in Schemas, NEW d, validate(d, s) = "OK"
  PROVE  \A k \in DOMAIN s : Verdict(d, s[k]) = "OK"
<1> DEFINE Bad == {k \in DOMAIN s : Verdict(d, s[k]) # "OK"}
           First == CHOOSE k \in Bad : \A j \in Bad : k <= j
<1> SUFFICES ASSUME Bad # {} PROVE FALSE
  OBVIOUS
<1>1. Bad \in SUBSET Nat
  BY QueryAssumption
<1>2. First \in Bad
  <2>1. \E k \in Bad : \A j \in Bad : k <= j
    BY <1>1, LeastElement
  <2> HIDE DEF Bad
  <2> QED BY <2>1
<1>3. validate(d, s) = Verdict(d, s[First])
  BY DEF validate
<1> QED BY <1>2, <1>3

(* What a valid record holds in a column it does not miss, NaN apart, has   *)
(* one type.                                                               *)
TypeOf(col) == CASE col.type \in {"INT", "DOUBLE"} -> "number"
                 [] col.type = "STRING" -> "string"
                 [] OTHER -> "bool"

LEMMA ColumnFilled ==
  ASSUME NEW s \in Schemas, NEW d, validate(d, s) = "OK", NEW k \in DOMAIN s,
         ~(s[k].nullable /\ ~hasField(d, s[k].name)),
         ~(s[k].type = "DOUBLE" /\ getFieldRef(d, s[k].name).type = "nan")
  PROVE  getFieldRef(d, s[k].name).type = TypeOf(s[k])
<1> DEFINE col == s[k]
           x == getFieldRef(d, col.name)
<1>1. Verdict(d, col) = "OK"
  BY ValidateOK
<1>2. hasField(d, col.name) /\ TypeFits(col.type, d[col.name])
  BY <1>1 DEF Verdict
<1>3. x = d[col.name]
  BY <1>2 DEF getFieldRef, hasField
<1> QED BY <1>2, <1>3 DEF TypeFits, TypeOf, isNumber

(* A field that a record has, or Null.                                      *)
LEMMA FieldTyped ==
  ASSUME NEW d \in Data, NEW key
  PROVE  getFieldRef(d, key) \in Typed
<1>1. Null \in Typed
  BY DEF Null, Typed, Types
<1> QED BY <1>1, DataIs, ValuesTyped DEF getFieldRef

-----------------------------------------------------------------------------
(* Pages and positions.                                                    *)

(* A record the table may hold: a live one was validated.                   *)
Rows(s) == {r \in [data : Data, deleted : BOOLEAN] : ~r.deleted => validate(r.data, s) = "OK"}

PagesOK(ps) == /\ ps \in Seq(Seq(Rows(schema)))
               /\ \A k \in DOMAIN ps : Len(ps[k]) \in 1 .. PageSlots

(* A position is that of a record, and every record has one.                *)
LEMMA PositionIs ==
  ASSUME PagesOK(pages)
  PROVE  /\ Len(pages) \in Nat /\ DOMAIN pages = 1 .. Len(pages)
         /\ \A k \in DOMAIN pages : /\ Len(pages[k]) \in 1 .. PageSlots
                                    /\ DOMAIN pages[k] = 1 .. Len(pages[k])
         /\ \A pos \in RecordPositions : /\ pos = <<pos[1], pos[2]>>
                                   /\ pos[1] \in Nat /\ pos[2] \in Nat
                                   /\ pos[1] \in 1 .. Len(pages) /\ pos[2] \in 1 .. Len(pages[pos[1]])
                                   /\ At(pos) \in Rows(schema)
         /\ \A i \in 1 .. Len(pages) : \A k \in 1 .. Len(pages[i]) :
              <<i, k>> \in RecordPositions /\ At(<<i, k>>) = pages[i][k]
<1>1. Len(pages) \in Nat /\ DOMAIN pages = 1 .. Len(pages) /\ PageSlots \in Nat
  BY QueryAssumption DEF PagesOK
<1>2. \A k \in DOMAIN pages :
        /\ pages[k] \in Seq(Rows(schema)) /\ Len(pages[k]) \in 1 .. PageSlots
        /\ DOMAIN pages[k] = 1 .. Len(pages[k])
        /\ \A i \in DOMAIN pages[k] : pages[k][i] \in Rows(schema)
  BY DEF PagesOK
<1>3. ASSUME NEW pos \in RecordPositions
      PROVE  /\ pos = <<pos[1], pos[2]>> /\ pos[1] \in Nat /\ pos[2] \in Nat
             /\ pos[1] \in 1 .. Len(pages) /\ pos[2] \in 1 .. Len(pages[pos[1]])
             /\ At(pos) \in Rows(schema)
  <2>1. /\ pos = <<pos[1], pos[2]>> /\ pos[1] \in 1 .. Len(pages) /\ pos[2] \in 1 .. PageSlots
        /\ pos[2] <= Len(pages[pos[1]])
    BY DEF RecordPositions
  <2>2. pos[2] \in 1 .. Len(pages[pos[1]])
    BY <1>1, <1>2, <2>1
  <2> QED BY <1>1, <1>2, <2>1, <2>2 DEF At
<1>4. ASSUME NEW i \in 1 .. Len(pages), NEW k \in 1 .. Len(pages[i])
      PROVE  <<i, k>> \in RecordPositions /\ At(<<i, k>>) = pages[i][k]
  <2>1. k \in 1 .. PageSlots /\ k <= Len(pages[i])
    BY <1>1, <1>2
  <2> QED BY <2>1 DEF RecordPositions, At
<1> QED BY <1>1, <1>2, <1>3, <1>4

LEMMA PositionsFinite ==
  ASSUME PagesOK(pages), NEW S \in SUBSET RecordPositions
  PROVE  IsFiniteSet(S) /\ Cardinality(S) \in Nat
<1>1. IsFiniteSet(1 .. Len(pages)) /\ IsFiniteSet(1 .. PageSlots)
  BY PositionIs, QueryAssumption, FS_Interval
<1>2. IsFiniteSet((1 .. Len(pages)) \X (1 .. PageSlots))
  BY <1>1, FS_Product
<1>3. S \subseteq (1 .. Len(pages)) \X (1 .. PageSlots)
  BY DEF RecordPositions
<1>4. IsFiniteSet(S)
  BY <1>2, <1>3, FS_Subset
<1> QED BY <1>4, FS_CardinalityType

-----------------------------------------------------------------------------
(* Types, and what each place of a query's life fixes.                     *)

Results == [records : Seq(Nat \X Nat), totalMatched : Nat, value : Int, nan : BOOLEAN,
            found : BOOLEAN, status : {"OK", "NOT_FOUND"}]
ByIDs == {[kind |-> "byID", id |-> pos] : pos \in (1 .. MaxRecords) \X (1 .. PageSlots)}

TableInv == schema \in Schemas /\ draft \in Data /\ PagesOK(pages)

QueryInv ==
  /\ phase \in {"idle", "scan", "finish", "done", "undefined"}
  /\ phase = "idle" => query = NoQuery /\ page = 1 /\ slot = 1 /\ result = NoAnswer
  /\ phase = "scan" => query \in Queries
  /\ phase \in {"finish", "undefined"} => query \in Queries /\ query.kind = "select"
  /\ phase = "done" => query \in Queries \cup ByIDs
  /\ page \in 1 .. Len(pages) + 1 /\ slot \in 1 .. PageSlots + 1
  /\ result \in Results
  /\ Elements(result.records) \subseteq RecordPositions

LEMMA EmptyIs ==
  /\ NoAnswer \in Results /\ NoAnswer.records = <<>> /\ NoAnswer.totalMatched = 0 /\ NoAnswer.value = 0
  /\ NoAnswer.found = FALSE /\ NoAnswer.nan = FALSE /\ Elements(<<>>) = {}
<1>1. <<>> \in Seq(Nat \X Nat) /\ DOMAIN <<>> = {}
  OBVIOUS
<1> QED BY <1>1 DEF NoAnswer, Results, Elements

LEMMA ElementsAppend ==
  ASSUME NEW s \in Seq(Nat \X Nat), NEW x \in Nat \X Nat
  PROVE  /\ Append(s, x) \in Seq(Nat \X Nat) /\ Len(Append(s, x)) = Len(s) + 1
         /\ \A k \in 1 .. Len(s) : Append(s, x)[k] = s[k]
         /\ Append(s, x)[Len(s) + 1] = x
         /\ DOMAIN Append(s, x) = 1 .. Len(s) + 1
         /\ DOMAIN s = 1 .. Len(s) /\ Len(s) \in Nat
         /\ Elements(Append(s, x)) = Elements(s) \cup {x}
<1> DEFINE t == Append(s, x)
<1>1. /\ t \in Seq(Nat \X Nat) /\ Len(t) = Len(s) + 1
      /\ \A k \in 1 .. Len(s) : t[k] = s[k]
      /\ t[Len(s) + 1] = x
      /\ DOMAIN t = 1 .. Len(s) + 1
      /\ DOMAIN s = 1 .. Len(s) /\ Len(s) \in Nat
  OBVIOUS
<1> HIDE DEF t
<1>2. Elements(t) \subseteq Elements(s) \cup {x}
  <2>1. \A k \in DOMAIN t : k = Len(s) + 1 \/ k \in DOMAIN s
    BY <1>1
  <2>2. \A k \in DOMAIN t : t[k] = x \/ (k \in DOMAIN s /\ t[k] = s[k])
    BY <1>1, <2>1
  <2> QED BY <2>2 DEF Elements
<1>3. Elements(s) \cup {x} \subseteq Elements(t)
  <2>1. Len(s) + 1 \in DOMAIN t /\ \A k \in DOMAIN s : k \in DOMAIN t /\ t[k] = s[k]
    BY <1>1
  <2> QED BY <1>1, <2>1 DEF Elements
<1>4. Elements(t) = Elements(s) \cup {x}
  BY <1>2, <1>3
<1> QED BY <1>1, <1>4 DEF t

(* What an insert and a delete leave is still pages of valid records.       *)
LEMMA AddOK ==
  ASSUME schema \in Schemas, PagesOK(pages), NEW r \in Rows(schema)
  PROVE  PagesOK(AddRecord(r))
<1> DEFINE ps == AddRecord(r)
           n == Len(pages)
<1>0. n \in Nat /\ DOMAIN pages = 1 .. n /\ PageSlots \in Nat \ {0}
      /\ \A k \in DOMAIN pages : /\ pages[k] \in Seq(Rows(schema))
                                 /\ Len(pages[k]) \in 1 .. PageSlots
  BY QueryAssumption DEF PagesOK
<1>1. CASE LastFull
  <2>1. <<r>> \in Seq(Rows(schema)) /\ Len(<<r>>) = 1
    OBVIOUS
  <2>2. ps = Append(pages, <<r>>)
    BY <1>1 DEF AddRecord
  <2>3. ps \in Seq(Seq(Rows(schema))) /\ DOMAIN ps = 1 .. n + 1
        /\ ps[n + 1] = <<r>> /\ \A k \in 1 .. n : ps[k] = pages[k]
    BY <2>1, <2>2 DEF PagesOK
  <2> HIDE DEF ps
  <2>4. \A k \in DOMAIN ps : Len(ps[k]) \in 1 .. PageSlots
    <3>1. ASSUME NEW k \in DOMAIN ps PROVE Len(ps[k]) \in 1 .. PageSlots
      <4>1. CASE k = n + 1
        <5>1. ps[k] = <<r>>
          BY <2>3, <4>1
        <5>2. Len(ps[k]) = 1
          BY <2>1, <5>1
        <5> QED BY <1>0, <5>2
      <4>2. CASE k \in 1 .. n
        BY <1>0, <2>3, <4>2
      <4> QED BY <1>0, <2>3, <4>1, <4>2
    <3> QED BY <3>1
  <2> QED BY <2>3, <2>4 DEF PagesOK, ps
<1>2. CASE ~LastFull
  <2>1. pages # <<>> /\ Len(pages[n]) # PageSlots
    BY <1>2 DEF LastFull
  <2>2. n \in DOMAIN pages
    BY <1>0, <2>1 DEF PagesOK
  <2> DEFINE p == Append(pages[n], r)
  <2>3. p \in Seq(Rows(schema)) /\ Len(p) = Len(pages[n]) + 1
    BY <1>0, <2>2
  <2>4. Len(p) \in 1 .. PageSlots
    BY <1>0, <2>1, <2>2, <2>3
  <2>5. ps = [pages EXCEPT ![n] = p]
    BY <1>2 DEF AddRecord
  <2> HIDE DEF p, ps
  <2>6. DOMAIN ps = DOMAIN pages /\ \A k \in DOMAIN ps : ps[k] = IF k = n THEN p ELSE pages[k]
    BY <2>5
  <2>7. ps \in Seq(Seq(Rows(schema)))
    <3>1. pages \in Seq(Seq(Rows(schema))) /\ n \in 1 .. Len(pages)
      BY <1>0, <2>2 DEF PagesOK
    <3> QED BY <2>3, <2>5, <3>1, ExceptSeq
  <2>8. \A k \in DOMAIN ps : Len(ps[k]) \in 1 .. PageSlots
    BY <1>0, <2>4, <2>6
  <2> QED BY <2>7, <2>8 DEF PagesOK, ps
<1> QED BY <1>1, <1>2

LEMMA DeleteOK ==
  ASSUME schema \in Schemas, PagesOK(pages), NEW pos \in RecordPositions
  PROVE  PagesOK([pages EXCEPT ![pos[1]][pos[2]] = [data |-> NoData, deleted |-> TRUE]])
<1> DEFINE r == [data |-> NoData, deleted |-> TRUE]
           i == pos[1]
           p == [pages[i] EXCEPT ![pos[2]] = r]
           ps == [pages EXCEPT ![i] = p]
<1>0. DOMAIN pages = 1 .. Len(pages)
      /\ \A k \in DOMAIN pages : /\ pages[k] \in Seq(Rows(schema))
                                 /\ Len(pages[k]) \in 1 .. PageSlots
  BY PositionIs DEF PagesOK
<1>1. r \in Rows(schema)
  BY DataKept DEF Rows
<1>2. i \in DOMAIN pages
  BY PositionIs
<1> HIDE DEF r
<1>3. p \in Seq(Rows(schema)) /\ Len(p) = Len(pages[i])
  <2>1. pages[i] \in Seq(Rows(schema)) /\ pos[2] \in 1 .. Len(pages[i])
    BY <1>0, <1>2, PositionIs
  <2> QED BY <1>1, <2>1, ExceptSeq
<1> HIDE DEF p
<1>4. ps \in Seq(Seq(Rows(schema))) /\ DOMAIN ps = DOMAIN pages
  <2>1. pages \in Seq(Seq(Rows(schema))) /\ i \in 1 .. Len(pages)
    BY <1>0, <1>2 DEF PagesOK
  <2> QED BY <1>3, <2>1, ExceptSeq
<1>5. \A k \in DOMAIN ps : Len(ps[k]) \in 1 .. PageSlots
  BY <1>0, <1>2, <1>3, <1>4
<1>6. PagesOK(ps)
  BY <1>4, <1>5 DEF PagesOK
<1> QED BY <1>6 DEF ps, p, r

(* A field is an integer wherever a record has it, and where it has not.    *)
LEMMA NumberIs ==
  ASSUME PagesOK(pages), NEW pos \in RecordPositions
  PROVE  Number(pos) \in Int
<1>1. At(pos).data \in Data
  BY PositionIs DEF Rows
<1>2. getFieldRef(At(pos).data, query.field) \in Typed
  BY <1>1, FieldTyped
<1> QED BY <1>2 DEF Number, Typed

(* Where a scan is.                                                         *)
LEMMA AtRecordIs ==
  ASSUME PagesOK(pages), QueryInv, AtRecord
  PROVE  /\ page \in Nat /\ slot \in Nat /\ <<page, slot>> \in Nat \X Nat
         /\ <<page, slot>> \in RecordPositions /\ At(<<page, slot>>) = Current
         /\ Number(<<page, slot>>) \in Int
         /\ slot + 1 \in 1 .. PageSlots + 1
<1>1. page \in 1 .. Len(pages) /\ slot \in 1 .. Len(pages[page])
  <2>1. page \in 1 .. Len(pages)
    BY PositionIs DEF QueryInv, AtRecord
  <2>2. Len(pages[page]) \in Nat /\ slot \in Nat
    BY <2>1, PositionIs, QueryAssumption DEF QueryInv
  <2> QED BY <2>1, <2>2, QueryAssumption DEF QueryInv, AtRecord
<1>2. Len(pages[page]) \in 1 .. PageSlots /\ Len(pages) \in Nat /\ PageSlots \in Nat
  BY <1>1, PositionIs, QueryAssumption
<1>3. <<page, slot>> \in RecordPositions /\ At(<<page, slot>>) = pages[page][slot]
  BY <1>1, PositionIs
<1>4. Number(<<page, slot>>) \in Int
  BY <1>3, NumberIs
<1> QED BY <1>1, <1>2, <1>3, <1>4 DEF Current

(* A step of the scan that leaves the records of the result, or adds one.   *)
LEMMA ScanStepTyped ==
  ASSUME PagesOK(pages), QueryInv, AtRecord, Advance, Scanning,
         result' \in Results,
         \/ result'.records = result.records
         \/ result'.records = Append(result.records, <<page, slot>>),
         phase' = "scan" \/ (phase' = "finish" /\ query.kind = "select")
  PROVE  QueryInv'
<1>1. pages' = pages /\ query' = query /\ page' = page /\ slot' = slot + 1 /\ phase = "scan"
  BY DEF Advance, Scanning, AtRecord
<1>2. RecordPositions' = RecordPositions
  BY <1>1 DEF RecordPositions
<1>3. Elements(result'.records) \subseteq RecordPositions
  <2>1. result.records \in Seq(Nat \X Nat) /\ <<page, slot>> \in Nat \X Nat
        /\ <<page, slot>> \in RecordPositions /\ Elements(result.records) \subseteq RecordPositions
    BY AtRecordIs DEF QueryInv, Results
  <2>2. Elements(Append(result.records, <<page, slot>>)) = Elements(result.records) \cup {<<page, slot>>}
    BY <2>1, ElementsAppend
  <2> QED BY <2>1, <2>2
<1>4. Elements(result.records)' \subseteq RecordPositions'
  BY <1>2, <1>3 DEF Elements
<1>5. slot' \in 1 .. PageSlots + 1 /\ page' \in 1 .. Len(pages') + 1 /\ query' \in Queries
  BY <1>1, AtRecordIs DEF QueryInv
<1> QED BY <1>1, <1>4, <1>5 DEF QueryInv

(* The start, and then each step: the table first, the query after it.      *)
LEMMA TypeInit ==
  QueryInit => TableInv /\ QueryInv
<1> SUFFICES ASSUME QueryInit PROVE TableInv /\ QueryInv
  OBVIOUS
<1>1. PagesOK(pages)
  <2>1. pages \in Seq(Seq(Rows(schema))) /\ DOMAIN pages = {}
    BY DEF QueryInit
  <2> QED BY <2>1 DEF PagesOK
<1>2. draft \in Data /\ schema \in Schemas
  BY DataKept DEF QueryInit
<1>3. page \in 1 .. Len(pages) + 1 /\ slot \in 1 .. PageSlots + 1
  BY QueryAssumption DEF QueryInit
<1> QED BY <1>1, <1>2, <1>3, EmptyIs DEF QueryInit, TableInv, QueryInv

LEMMA TableStep ==
  TableInv /\ [QueryNext]_queryVars => TableInv'
<1> SUFFICES ASSUME TableInv, [QueryNext]_queryVars PROVE TableInv'
  OBVIOUS
<1> USE DEF TableInv
<1>1. CASE UNCHANGED tableVars
  BY <1>1 DEF tableVars, PagesOK
<1>2. ASSUME NEW key \in Fields, RemoveField(key) PROVE TableInv'
  BY <1>2, DataKept DEF RemoveField, BetweenQueries, PagesOK
<1>3. ASSUME NEW key \in Fields, NEW value \in Values[key], SetField(key, value) PROVE TableInv'
  BY <1>3, DataKept DEF SetField, BetweenQueries, PagesOK
<1>4. CASE insertRecord
  <2>1. schema' = schema /\ draft' = NoData
    BY <1>4 DEF insertRecord, BetweenQueries
  <2>2. PagesOK(pages)'
    <3>1. CASE validate(draft, schema) = "OK"
      <4> DEFINE r == [data |-> draft, deleted |-> FALSE]
      <4>1. r \in Rows(schema)
        BY <3>1 DEF Rows
      <4>2. pages' = AddRecord(r)
        BY <1>4, <3>1 DEF insertRecord
      <4>3. PagesOK(pages')
        BY <4>1, <4>2, AddOK
      <4> QED BY <2>1, <4>3 DEF PagesOK
    <3>2. CASE validate(draft, schema) # "OK"
      <4>1. pages' = pages
        BY <1>4, <3>2 DEF insertRecord
      <4> QED BY <2>1, <4>1 DEF PagesOK
    <3> QED BY <3>1, <3>2
  <2> QED BY <2>1, <2>2, DataKept
<1>5. ASSUME NEW pos \in RecordPositions, deleteRecord(pos) PROVE TableInv'
  <2>1. schema' = schema /\ draft' = draft
    BY <1>5 DEF deleteRecord, BetweenQueries
  <2>2. PagesOK(pages')
    BY <1>5, DeleteOK DEF deleteRecord
  <2>3. PagesOK(pages)'
    BY <2>1, <2>2 DEF PagesOK
  <2> QED BY <2>1, <2>3
<1>6. ASSUME NEW q \in Queries, Ask(q) PROVE UNCHANGED tableVars
  BY <1>6 DEF Ask
<1>7. ASSUME NEW pos, selectByID(pos) PROVE UNCHANGED tableVars
  BY <1>7 DEF selectByID, tableVars
<1>8. CASE Scan
  BY <1>1, <1>8 DEF Scan, Skip, Select, Count, Sum, Compare, NextPage, ScanEnds, finishSelect,
                    Scanning, tableVars
<1>9. CASE TakeAnswer
  BY <1>1, <1>9 DEF TakeAnswer
<1>10. CASE UNCHANGED queryVars
  BY <1>1, <1>10 DEF queryVars, tableVars
<1> QED BY <1>1, <1>2, <1>3, <1>4, <1>5, <1>6, <1>7, <1>8, <1>9, <1>10 DEF QueryNext

(* A permutation of a result's records is as long and holds the same.       *)
LEMMA SortsKeep ==
  ASSUME NEW s \in Seq(Nat \X Nat), NEW t \in Sorts(s)
  PROVE  t \in Seq(Nat \X Nat) /\ Len(t) = Len(s) /\ Elements(t) = Elements(s) /\ Ordered(t)
<1>1. t \in [DOMAIN s -> Elements(s)] /\ Elements(t) = Elements(s) /\ Ordered(t)
  BY DEF Sorts
<1>2. DOMAIN s = 1 .. Len(s) /\ Len(s) \in Nat /\ Elements(s) \subseteq Nat \X Nat
  BY DEF Elements
<1>3. t \in [1 .. Len(s) -> Nat \X Nat]
  BY <1>1, <1>2
<1> HIDE DEF Sorts
<1>4. t \in Seq(Nat \X Nat) /\ Len(t) = Len(s)
  BY <1>2, <1>3
<1> QED BY <1>1, <1>4

(* A select ends with its records as they are, or sorted, or is lost.       *)
Lost == phase' = "undefined" /\ result' = result /\ ~IsWeakOrder(Elements(result.records))

LEMMA FinishIs ==
  ASSUME result \in Results, finishSelect
  PROVE  \/ Lost
         \/ /\ phase' = "done"
            /\ \E s \in Seq(Nat \X Nat) :
                 /\ result' = [result EXCEPT !.records = s] /\ result' \in Results
                 /\ result'.records = s /\ result'.totalMatched = result.totalMatched
                 /\ Len(s) = Len(result.records) /\ Elements(s) = Elements(result.records)
                 /\ IF query.sort # NoSort /\ Len(result.records) > 1
                      THEN Ordered(s) ELSE s = result.records
<1> DEFINE Sorting == query.sort # NoSort /\ Len(result.records) > 1
<1>1. result.records \in Seq(Nat \X Nat)
  BY DEF Results
<1> SUFFICES ASSUME ~Lost
             PROVE  /\ phase' = "done"
                    /\ \E s \in Seq(Nat \X Nat) :
                         /\ result' = [result EXCEPT !.records = s]
                         /\ Len(s) = Len(result.records) /\ Elements(s) = Elements(result.records)
                         /\ IF Sorting THEN Ordered(s) ELSE s = result.records
  <2> SUFFICES ASSUME NEW s \in Seq(Nat \X Nat), result' = [result EXCEPT !.records = s]
               PROVE  /\ result' \in Results /\ result'.records = s
                      /\ result'.totalMatched = result.totalMatched
    OBVIOUS
  <2> QED BY DEF Results
<1>2. CASE Sorting
  <2>1. phase' = "done" /\ \E t \in Sorts(result.records) : result' = [result EXCEPT !.records = t]
    BY <1>2 DEF finishSelect, sortResults, Lost
  <2>2. PICK t \in Sorts(result.records) : result' = [result EXCEPT !.records = t]
    BY <2>1
  <2>3. /\ t \in Seq(Nat \X Nat) /\ Len(t) = Len(result.records)
        /\ Elements(t) = Elements(result.records) /\ Ordered(t)
    BY <1>1, SortsKeep
  <2> QED BY <1>2, <2>1, <2>2, <2>3
<1>3. CASE ~Sorting
  <2>1. phase' = "done" /\ result' = result
    BY <1>3 DEF finishSelect
  <2>2. result = [result EXCEPT !.records = result.records]
    BY DEF Results
  <2> QED BY <1>1, <1>3, <2>1, <2>2
<1> QED BY <1>2, <1>3

LEMMA QueryStep ==
  TableInv /\ QueryInv /\ [QueryNext]_queryVars => QueryInv'
<1> SUFFICES ASSUME TableInv, QueryInv, [QueryNext]_queryVars PROVE QueryInv'
  OBVIOUS
<1>0. PagesOK(pages) /\ result \in Results /\ result.records \in Seq(Nat \X Nat)
      /\ PageSlots \in Nat \ {0} /\ NoQuery \notin Queries \cup ByIDs
      /\ Len(pages) \in Nat
  BY PositionIs, QueryAssumption DEF TableInv, QueryInv, Results, ByIDs
<1>1. ASSUME BetweenQueries, pages' \in Seq(Seq(Rows(schema))) PROVE QueryInv'
  <2>1. Len(pages') \in Nat /\ 1 \in 1 .. Len(pages') + 1 /\ 1 \in 1 .. PageSlots + 1
    BY <1>0, <1>1
  <2>2. Elements(NoAnswer.records)' \subseteq RecordPositions'
    BY EmptyIs DEF NoAnswer, Elements
  <2>3. /\ phase' = "idle" /\ query' = NoQuery /\ page' = 1 /\ slot' = 1 /\ result' = NoAnswer
    BY <1>1 DEF BetweenQueries, QueryInv
  <2>4. Elements(result'.records) \subseteq RecordPositions'
    BY <2>3, EmptyIs
  <2> QED BY <2>1, <2>3, <2>4, EmptyIs DEF QueryInv, Elements
<1>2. ASSUME BetweenQueries, [QueryNext]_queryVars PROVE QueryInv'
  <2>1. TableInv'
    BY TableStep
  <2>2. schema' = schema
    BY <1>2 DEF BetweenQueries
  <2> QED BY <1>1, <1>2, <2>1, <2>2 DEF TableInv, PagesOK, Rows
<1>3. ASSUME NEW key \in Fields, RemoveField(key) PROVE BetweenQueries
  BY <1>3 DEF RemoveField
<1>4. ASSUME NEW key \in Fields, NEW value \in Values[key], SetField(key, value) PROVE BetweenQueries
  BY <1>4 DEF SetField
<1>5. CASE insertRecord
  BY <1>2, <1>5 DEF insertRecord
<1>6. ASSUME NEW pos \in RecordPositions, deleteRecord(pos) PROVE BetweenQueries
  BY <1>6 DEF deleteRecord
<1>7. ASSUME NEW q \in Queries, Ask(q) PROVE QueryInv'
  <2>1. /\ phase' = "scan" /\ query' = q /\ page' = 1 /\ slot' = 1 /\ result' = NoAnswer
        /\ pages' = pages
    BY <1>7 DEF Ask, tableVars
  <2>2. Elements(result'.records) \subseteq RecordPositions'
    BY <2>1, EmptyIs
  <2> QED BY <1>0, <1>7, <2>1, <2>2, EmptyIs DEF QueryInv, Elements
<1>8. ASSUME NEW pos \in (1 .. MaxRecords) \X (1 .. PageSlots), selectByID(pos) PROVE QueryInv'
  <2>1. /\ phase' = "done" /\ query' = [kind |-> "byID", id |-> pos] /\ pages' = pages
        /\ page' = page /\ slot' = slot
    BY <1>8 DEF selectByID
  <2>2. query' \in ByIDs
    BY <2>1 DEF ByIDs
  <2>3. RecordPositions' = RecordPositions
    BY <2>1 DEF RecordPositions
  <2>4. result' \in Results /\ Elements(result'.records) \subseteq RecordPositions
    <3>1. CASE pos \in RecordPositions /\ ~At(pos).deleted
      <4>1. result' = [NoAnswer EXCEPT !.records = <<pos>>, !.totalMatched = 1]
        BY <1>8, <3>1 DEF selectByID
      <4>2. pos \in Nat \X Nat
        BY <1>0, <3>1, PositionIs
      <4>3. <<pos>> \in Seq(Nat \X Nat) /\ Elements(<<pos>>) = {pos}
        BY <4>2 DEF Elements
      <4> QED BY <3>1, <4>1, <4>3, EmptyIs DEF Results
    <3>2. CASE ~(pos \in RecordPositions /\ ~At(pos).deleted)
      <4>1. result' = [NoAnswer EXCEPT !.status = "NOT_FOUND"]
        BY <1>8, <3>2 DEF selectByID
      <4> QED BY <4>1, EmptyIs DEF Results
    <3> QED BY <3>1, <3>2
  <2> QED BY <2>1, <2>2, <2>3, <2>4 DEF QueryInv, Elements
<1>9. CASE Skip
  <2>1. AtRecord /\ Advance /\ Scanning /\ result' = result /\ phase' = "scan"
    BY <1>9 DEF Skip, AtRecord
  <2> QED BY <1>0, <2>1, ScanStepTyped
<1>10. CASE Select
  <2> DEFINE t == Append(result.records, <<page, slot>>)
  <2>1. AtRecord /\ Advance /\ Scanning /\ query.kind = "select"
        /\ result' = [result EXCEPT !.records = t, !.totalMatched = @ + 1]
    BY <1>10 DEF Select
  <2>2. phase' = "scan" \/ phase' = "finish"
    BY <1>10 DEF Select, AtRecord
  <2>3. t \in Seq(Nat \X Nat)
    BY <1>0, <2>1, AtRecordIs
  <2> HIDE DEF t
  <2>4. result' \in Results /\ result'.records = t
    <3>1. result.totalMatched + 1 \in Nat
      BY <1>0 DEF Results
    <3>2. result' = [[result EXCEPT !.records = t] EXCEPT !.totalMatched = result.totalMatched + 1]
      BY <1>0, <2>1 DEF Results
    <3> QED BY <1>0, <2>3, <3>1, <3>2 DEF Results
  <2> QED BY <1>0, <2>1, <2>2, <2>4, ScanStepTyped DEF t
<1>11. CASE Count
  <2>1. AtRecord /\ Advance /\ Scanning /\ phase' = "scan"
        /\ result' = [result EXCEPT !.totalMatched = @ + 1]
    BY <1>11 DEF Count, AtRecord
  <2>2. result' \in Results /\ result'.records = result.records
    <3> DEFINE n == result.totalMatched + 1
    <3>1. n \in Nat /\ result' = [result EXCEPT !.totalMatched = n]
      BY <1>0, <2>1 DEF Results
    <3> HIDE DEF n
    <3> QED BY <1>0, <3>1 DEF Results
  <2> QED BY <1>0, <2>1, <2>2, ScanStepTyped
<1>12. CASE Sum
  <2>1. AtRecord /\ Advance /\ Scanning /\ phase' = "scan"
        /\ result' = [result EXCEPT !.value = @ + Number(<<page, slot>>), !.totalMatched = @ + 1,
                                    !.nan = @ \/ IsNaN(<<page, slot>>)]
    BY <1>12 DEF Sum, AtRecord
  <2>2. Number(<<page, slot>>) \in Int
    BY <1>0, <2>1, AtRecordIs
  <2>3. result' \in Results /\ result'.records = result.records
    <3> DEFINE v == result.value + Number(<<page, slot>>)
           n == result.nan \/ IsNaN(<<page, slot>>)
    <3>1. result.totalMatched + 1 \in Nat /\ v \in Int /\ n \in BOOLEAN
      BY <1>0, <2>2 DEF Results
    <3>2. result' = [result EXCEPT !.value = v, !.totalMatched = result.totalMatched + 1, !.nan = n]
      BY <1>0, <2>1 DEF Results
    <3> HIDE DEF v, n
    <3> QED BY <1>0, <3>1, <3>2 DEF Results
  <2> QED BY <1>0, <2>1, <2>3, ScanStepTyped
<1>13. CASE Compare
  <2> DEFINE num == Number(<<page, slot>>)
             none == IsNaN(<<page, slot>>)
  <2>1. /\ AtRecord /\ Advance /\ Scanning /\ phase' = "scan"
        /\ \/ result' = [result EXCEPT !.value = num, !.nan = none, !.found = TRUE]
           \/ result' = result
    BY <1>13 DEF Compare, AtRecord
  <2>2. num \in Int /\ none \in BOOLEAN
    BY <1>0, <2>1, AtRecordIs DEF IsNaN
  <2> HIDE DEF num, none
  <2>3. result' \in Results /\ result'.records = result.records
    BY <1>0, <2>1, <2>2 DEF Results
  <2> QED BY <1>0, <2>1, <2>3, ScanStepTyped
<1>14. CASE NextPage
  <2>1. /\ pages' = pages /\ query' = query /\ result' = result /\ phase' = "scan" /\ phase = "scan"
        /\ page' = page + 1 /\ slot' = 1 /\ page <= Len(pages)
    BY <1>14 DEF NextPage, Scanning
  <2>2. RecordPositions' = RecordPositions
    BY <2>1 DEF RecordPositions
  <2>3. page' \in 1 .. Len(pages') + 1 /\ slot' \in 1 .. PageSlots + 1
    BY <1>0, <2>1 DEF QueryInv
  <2> QED BY <2>1, <2>2, <2>3 DEF QueryInv
<1>15. CASE ScanEnds
  <2>1. /\ pages' = pages /\ query' = query /\ result' = result /\ phase = "scan"
        /\ page' = page /\ slot' = slot
        /\ phase' = IF query.kind = "select" THEN "finish" ELSE "done"
    BY <1>15 DEF ScanEnds, Scanning
  <2>2. RecordPositions' = RecordPositions
    BY <2>1 DEF RecordPositions
  <2> QED BY <2>1, <2>2 DEF QueryInv
<1>16. CASE finishSelect
  <2>1. /\ pages' = pages /\ query' = query /\ page' = page /\ slot' = slot
        /\ phase = "finish"
    BY <1>16 DEF finishSelect, Scanning
  <2>2. /\ result' \in Results /\ Elements(result'.records) = Elements(result.records)
        /\ phase' \in {"done", "undefined"}
    BY <1>0, <1>16, FinishIs DEF Lost
  <2>3. RecordPositions' = RecordPositions
    BY <2>1 DEF RecordPositions
  <2> QED BY <2>1, <2>2, <2>3 DEF QueryInv, Elements
<1>17. CASE TakeAnswer
  <2>1. /\ phase' = "idle" /\ query' = NoQuery /\ page' = 1 /\ slot' = 1 /\ result' = NoAnswer
        /\ pages' = pages
    BY <1>17 DEF TakeAnswer, tableVars
  <2>2. Elements(result'.records) \subseteq RecordPositions'
    BY <2>1, EmptyIs
  <2> QED BY <1>0, <2>1, <2>2, EmptyIs DEF QueryInv, Elements
<1>18. CASE UNCHANGED queryVars
  <2>1. /\ pages' = pages /\ query' = query /\ page' = page /\ slot' = slot
        /\ phase' = phase /\ result' = result
    BY <1>18 DEF queryVars
  <2>2. RecordPositions' = RecordPositions
    BY <2>1 DEF RecordPositions
  <2> QED BY <2>1, <2>2 DEF QueryInv
<1> QED
  BY <1>2, <1>3, <1>4, <1>5, <1>6, <1>7, <1>8, <1>9, <1>10, <1>11, <1>12, <1>13, <1>14, <1>15,
     <1>16, <1>17, <1>18 DEF QueryNext, Scan

(* No state violates the types of QueryEngine: pages within their capacity  *)
(* of records that validate() accepted, a scan that is never outside them,  *)
(* and a result of positions of the table.                                  *)
THEOREM TypeCorrect == QuerySpec => []QueryTypeOK
<1>1. TableInv /\ QueryInv /\ [QueryNext]_queryVars => (TableInv /\ QueryInv)'
  BY TableStep, QueryStep
<1>2. TableInv /\ QueryInv => QueryTypeOK
  <2> SUFFICES ASSUME TableInv, QueryInv PROVE QueryTypeOK
    OBVIOUS
  <2>1. pages \in Seq(Seq([data : Data, deleted : BOOLEAN]))
    <3> DEFINE All == [data : Data, deleted : BOOLEAN]
    <3>1. pages \in Seq(Seq(Rows(schema))) /\ Rows(schema) \subseteq All
      BY DEF TableInv, PagesOK, Rows
    <3> HIDE DEF All
    <3>2. \A s \in Seq(Rows(schema)) : s \in Seq(All)
      BY <3>1
    <3>3. pages \in Seq(Seq(All))
      BY <3>1, <3>2
    <3> QED BY <3>3 DEF All
  <2>2. query = NoQuery <=> phase = "idle"
    BY QueryAssumption DEF QueryInv, ByIDs
  <2>3. result.totalMatched \in Nat
    BY DEF QueryInv, Results
  <2> QED BY <2>1, <2>2, <2>3 DEF QueryTypeOK, TableInv, QueryInv, PagesOK
<1> QED BY <1>1, <1>2, TypeInit, PTL DEF QuerySpec

-----------------------------------------------------------------------------
(* What the scan has collected, for the wanted records before its place.   *)

Before(pos) == pos[1] < page \/ (pos[1] = page /\ pos[2] < slot)
Passed == {pos \in AllWanted : Before(pos)}

InScanOrder(s) == \A j, k \in DOMAIN s : j < k => Precedes(s[j], s[k])
Leads(a, S) == a \in S /\ \A b \in S \ {a} : Precedes(a, b)
Extreme(r, S) ==
  IF S = {} THEN ~r.found /\ ~r.nan /\ r.value = 0
  ELSE /\ r.found
       /\ r.nan <=> \E a \in S : Leads(a, S) /\ IsNaN(a)
       /\ ~r.nan => /\ \E a \in S : ~IsNaN(a) /\ r.value = Number(a)
                    /\ \A a \in S : ~IsNaN(a) => ~Better(Number(a), r.value)
Total(r, S) == r.value = SumOver(S) /\ (r.nan <=> \E a \in S : IsNaN(a))
Selected(r, S) == /\ Elements(r.records) = S /\ Cardinality(S) = Len(r.records)
                  /\ r.totalMatched = Len(r.records) /\ InScanOrder(r.records)

(* r is right about the records in S.                                       *)
Right(r, S) == /\ query.kind = "select" => Selected(r, S)
               /\ query.kind \in {"count", "avg"} => r.totalMatched = Cardinality(S)
               /\ query.kind \in {"sum", "avg"} => Total(r, S)
               /\ query.kind \in {"max", "min"} => Extreme(r, S)

LimitInv ==
  /\ phase = "scan" /\ query.kind = "select" /\ query.limit # 0 =>
       Len(result.records) < query.limit
  /\ phase = "finish" =>
       IF query.limit = 0 THEN Passed = AllWanted
       ELSE Len(result.records) <= query.limit
            /\ (Passed = AllWanted \/ Len(result.records) = query.limit)

(* What is lost in std::sort was no order.                                  *)
LostInv == phase = "undefined" => /\ Elements(result.records) \subseteq AllWanted
                               /\ ~IsWeakOrder(Elements(result.records))

RightInv == /\ phase \in {"scan", "finish"} => Right(result, Passed)
            /\ LimitInv
            /\ AnswerIsRight
            /\ LostInv

LEMMA SumKept ==
  ASSUME pages' = pages, query' = query, NEW T, T = Passed'
  PROVE  SumOver(Passed)' = SumOver(T)
<1>1. \A S : MapThenSumSet(Number, S)' = MapThenSumSet(Number, S)
  BY DEF MapThenSumSet, MapThenFoldSet, Number, At, getFieldRef
<1> QED BY <1>1 DEF SumOver, MapThenSumSet, MapThenFoldSet, Number, At, getFieldRef

(* Nothing that an answer is about changes during a query.                  *)
LEMMA WantedKept ==
  ASSUME pages' = pages, query' = query
  PROVE  AllWanted' = AllWanted
BY DEF AllWanted, RecordPositions, Satisfies, At, evaluatePredicate

LEMMA RightKept ==
  ASSUME pages' = pages, query' = query, NEW T, T = Passed', Right(result', T)
  PROVE  Right(result, Passed)'
<1>1. \A a : Number(a)' = Number(a) /\ (IsNaN(a)' <=> IsNaN(a))
  BY DEF Number, IsNaN, At
<1>2. SumOver(Passed)' = SumOver(T)
  BY SumKept
<1>3. Total(result', T) => Total(result, Passed)'
  BY <1>1, <1>2 DEF Total
<1>4. Extreme(result', T) => Extreme(result, Passed)'
  BY <1>1 DEF Extreme, Leads, Precedes, Better
<1>5. Selected(result', T) => Selected(result, Passed)'
  BY DEF Selected, InScanOrder, Elements, Precedes
<1> QED BY <1>3, <1>4, <1>5 DEF Right

(* The wanted records before the place of the scan precede the others.      *)
LEMMA PassedIs ==
  ASSUME PagesOK(pages), page \in Nat, slot \in Nat
  PROVE  /\ Passed \subseteq AllWanted /\ AllWanted \subseteq RecordPositions
         /\ IsFiniteSet(Passed) /\ Cardinality(Passed) \in Nat /\ Numbered(Passed)
         /\ \A a \in Passed, b \in AllWanted \ Passed : Precedes(a, b)
<1>1. Passed \subseteq AllWanted /\ AllWanted \subseteq RecordPositions
  BY DEF Passed, AllWanted
<1>2. IsFiniteSet(Passed) /\ Cardinality(Passed) \in Nat
  BY <1>1, PositionsFinite
<1>3. Numbered(Passed)
  BY <1>1, <1>2, NumberIs DEF Numbered
<1>4. ASSUME NEW a \in Passed, NEW b \in AllWanted \ Passed PROVE Precedes(a, b)
  <2>1. a[1] \in Nat /\ a[2] \in Nat /\ b[1] \in Nat /\ b[2] \in Nat
    BY <1>1, PositionIs
  <2>2. Before(a) /\ ~Before(b)
    BY DEF Passed
  <2> QED BY <2>1, <2>2 DEF Before, Precedes
<1> QED BY <1>1, <1>2, <1>3, <1>4

(* The code stops at the records that the definition of the answer is about. *)
LEMMA WantedIs ==
  ASSUME PagesOK(pages), QueryInv, AtRecord
  PROVE  Wanted(Current) <=> <<page, slot>> \in AllWanted
<1> DEFINE pos == <<page, slot>>
           r == Current
           agg == query.kind \notin {"select", "count"}
           number == isNumber(getFieldRef(r.data, query.field))
<1>1. pos \in RecordPositions /\ At(pos) = r
  BY AtRecordIs
<1>2. Matches(r) <=> Satisfies(r)
  BY DEF Matches, Satisfies, evaluateAll, Elements
<1>3. number => hasField(r.data, query.field)
  BY DEF hasField, getFieldRef, Null, isNumber
<1> HIDE DEF pos, r
<1>4. ASSUME pos \in AllWanted PROVE Satisfies(r) /\ (agg => number)
  BY <1>1, <1>4 DEF AllWanted
<1>5. ASSUME Satisfies(r), agg => number PROVE pos \in AllWanted
  BY <1>1, <1>5 DEF AllWanted
<1>6. ASSUME Wanted(r) PROVE Matches(r) /\ (agg => number)
  BY <1>6 DEF Wanted, Numeric
<1>7. ASSUME Matches(r), agg => number PROVE Wanted(r)
  BY <1>3, <1>7 DEF Wanted, Numeric
<1>8. Wanted(r) <=> pos \in AllWanted
  BY <1>2, <1>4, <1>5, <1>6, <1>7
<1> QED BY <1>8 DEF r, pos

(* A step over a record adds it to those passed, if it is wanted.           *)
LEMMA PassedStep ==
  ASSUME PagesOK(pages), QueryInv, AtRecord, Advance, Scanning
  PROVE  /\ pages' = pages /\ query' = query /\ AllWanted' = AllWanted
         /\ ~Wanted(Current) => Passed' = Passed
         /\ Wanted(Current) => Passed' = Passed \cup {<<page, slot>>}
         /\ <<page, slot>> \notin Passed
         /\ \A a \in Passed : Precedes(a, <<page, slot>>)
<1> DEFINE pos == <<page, slot>>
<1>1. pages' = pages /\ query' = query /\ AllWanted' = AllWanted
  BY WantedKept DEF Scanning
<1>2. page \in Nat /\ slot \in Nat /\ page' = page /\ slot' = slot + 1
  BY AtRecordIs DEF Advance
<1>3. \A a \in AllWanted : a[1] \in Nat /\ a[2] \in Nat /\ a = <<a[1], a[2]>>
  BY PositionIs DEF AllWanted
<1>4. \A a \in AllWanted : Before(a)' <=> Before(a) \/ (a[1] = page /\ a[2] = slot)
  BY <1>2, <1>3 DEF Before
<1>5. \A a \in AllWanted : a = pos <=> (a[1] = page /\ a[2] = slot)
  BY <1>3
<1>6. pos[1] = page /\ pos[2] = slot
  OBVIOUS
<1>7. pos \in AllWanted <=> Wanted(Current)
  BY WantedIs
<1> HIDE DEF pos
<1>8. Passed' = {a \in AllWanted : Before(a)'}
  BY <1>1 DEF Passed
<1>9. \A a \in AllWanted : Before(a)' <=> Before(a) \/ a = pos
  BY <1>4, <1>5
<1>10. Passed' = {a \in AllWanted : Before(a) \/ a = pos}
  BY <1>8, <1>9
<1>11. ~Wanted(Current) => Passed' = Passed
  BY <1>7, <1>10 DEF Passed
<1>12. Wanted(Current) => Passed' = Passed \cup {pos}
  BY <1>7, <1>10 DEF Passed
<1>13. pos \notin Passed
  BY <1>2, <1>6 DEF Passed, Before
<1>14. \A a \in Passed : Precedes(a, pos)
  BY <1>2, <1>3, <1>6 DEF Passed, Before, Precedes
<1> QED BY <1>1, <1>11, <1>12, <1>13, <1>14 DEF pos

(* A scan starts with nothing.                                              *)
Fresh == PagesOK(pages) /\ page = 1 /\ slot = 1 /\ result = NoAnswer

LEMMA FreshRight ==
  Fresh => Right(result, Passed)
<1> SUFFICES ASSUME Fresh PROVE Right(result, Passed)
  OBVIOUS
<1>1. Passed = {}
  <2>1. \A a \in AllWanted : a[1] \in Nat /\ a[2] \in Nat /\ a[1] >= 1 /\ a[2] >= 1
    <3>1. \A a \in AllWanted : a \in RecordPositions
      BY DEF AllWanted
    <3> QED BY <3>1, PositionIs DEF RecordPositions, Fresh
  <2>2. \A a \in AllWanted : ~Before(a)
    BY <2>1 DEF Before, Fresh
  <2> QED BY <2>2 DEF Passed
<1>2. Cardinality({}) = 0 /\ SumOver({}) = 0
  BY FS_EmptySet, SumOverEmpty
<1>3. Selected(NoAnswer, {})
  BY <1>2, EmptyIs DEF Selected, InScanOrder
<1>4. Extreme(NoAnswer, {}) /\ Total(NoAnswer, {})
  BY <1>2, EmptyIs DEF Extreme, Total
<1> QED BY <1>1, <1>2, <1>3, <1>4, EmptyIs DEF Right, Fresh

(* Each kind of query keeps its result right as it passes a wanted record.  *)
LEMMA SelectRight ==
  ASSUME result \in Results, NEW S, IsFiniteSet(S), NEW x \in Nat \X Nat, x \notin S,
         Selected(result, S), \A a \in S : Precedes(a, x),
         NEW r, r.records = Append(result.records, x), r.totalMatched = result.totalMatched + 1
  PROVE  Selected(r, S \cup {x})
<1> DEFINE s == result.records
           t == Append(s, x)
<1>1. s \in Seq(Nat \X Nat) /\ result.totalMatched \in Nat
  BY DEF Results
<1>2. /\ Len(t) = Len(s) + 1 /\ \A k \in 1 .. Len(s) : t[k] = s[k]
      /\ t[Len(s) + 1] = x /\ DOMAIN t = 1 .. Len(s) + 1
      /\ DOMAIN s = 1 .. Len(s) /\ Len(s) \in Nat
      /\ Elements(t) = Elements(s) \cup {x}
  BY <1>1, ElementsAppend
<1>3. /\ Elements(s) = S /\ Cardinality(S) = Len(s) /\ result.totalMatched = Len(s)
      /\ InScanOrder(s)
  BY DEF Selected
<1> HIDE DEF s, t
<1>4. Cardinality(S \cup {x}) = Len(s) + 1
  BY <1>3, FS_AddElement
<1>5. InScanOrder(t)
  <2> SUFFICES ASSUME NEW j \in DOMAIN t, NEW k \in DOMAIN t, j < k PROVE Precedes(t[j], t[k])
    BY DEF InScanOrder
  <2>1. j \in DOMAIN s /\ t[j] = s[j]
    BY <1>2
  <2>2. CASE k = Len(s) + 1
    <3>1. s[j] \in S
      BY <1>3, <2>1 DEF Elements
    <3> QED BY <1>2, <2>1, <2>2, <3>1
  <2>3. CASE k \in DOMAIN s
    BY <1>2, <1>3, <2>1, <2>3 DEF InScanOrder
  <2> QED BY <1>2, <2>2, <2>3
<1>6. r.records = t
  BY DEF t, s
<1> QED BY <1>2, <1>3, <1>4, <1>5, <1>6 DEF Selected

LEMMA ExtremeStep ==
  ASSUME NEW S, NEW x, x \notin S, Number(x) \in Int, result.value \in Int,
         \A a \in S : Number(a) \in Int, \A a \in S : Precedes(a, x) /\ ~Precedes(x, a),
         S # {} => \E a \in S : Leads(a, S),
         Extreme(result, S), result \in Results,
         NEW r, r = IF ~result.found \/ Beats(x)
                      THEN [result EXCEPT !.value = Number(x), !.nan = IsNaN(x), !.found = TRUE]
                      ELSE result
  PROVE  Extreme(r, S \cup {x})
<1> DEFINE T == S \cup {x}
<1>1. \A m \in Int : ~Better(m, m)
  BY DEF Better
<1>2. \A k, l, m \in Int : ~Better(k, l) /\ Better(m, l) => ~Better(k, m)
  BY DEF Better
<1>3. CASE S = {}
  <2>1. r.value = Number(x) /\ r.found /\ (r.nan <=> IsNaN(x))
    <3>1. ~result.found
      BY <1>3 DEF Extreme
    <3>2. r = [result EXCEPT !.value = Number(x), !.nan = IsNaN(x), !.found = TRUE]
      BY <3>1
    <3>3. IsNaN(x) \in BOOLEAN
      BY DEF IsNaN
    <3> QED BY <3>2, <3>3 DEF Results
  <2>2. T = {x} /\ Leads(x, T)
    BY <1>3 DEF Leads
  <2> HIDE DEF T
  <2>3. T # {} /\ \A a : a \in T <=> a = x
    BY <2>2
  <2>4. Extreme(r, T)
    BY <1>1, <2>1, <2>2, <2>3 DEF Extreme
  <2> QED BY <2>4 DEF T
<1>4. CASE S # {}
  <2>1. /\ result.found
        /\ result.nan <=> \E a \in S : Leads(a, S) /\ IsNaN(a)
        /\ ~result.nan => /\ \E a \in S : ~IsNaN(a) /\ result.value = Number(a)
                          /\ \A a \in S : ~IsNaN(a) => ~Better(Number(a), result.value)
    BY <1>4 DEF Extreme
  <2>2. \A a : Leads(a, T) <=> Leads(a, S)
    BY <1>4 DEF Leads
  <2>3. (\E a \in T : Leads(a, T) /\ IsNaN(a)) <=> (\E a \in S : Leads(a, S) /\ IsNaN(a))
    <3>1. \A a : Leads(a, S) => a \in S /\ a \in T
      BY DEF Leads
    <3> HIDE DEF T
    <3> QED BY <2>2, <3>1
  <2>4. T # {} /\ \A a : a \in T <=> a \in S \/ a = x
    OBVIOUS
  <2> HIDE DEF T
  <2>5. CASE Beats(x)
    <3>1. ~IsNaN(x) /\ ~result.nan /\ Better(Number(x), result.value)
      BY <2>5 DEF Beats
    <3>2. r.value = Number(x) /\ r.found /\ ~r.nan
      BY <2>5, <3>1 DEF Results
    <3>3. \A a \in S : ~IsNaN(a) => ~Better(Number(a), Number(x))
      BY <1>2, <2>1, <3>1
    <3>4. \A a \in T : ~IsNaN(a) => ~Better(Number(a), Number(x))
      BY <1>1, <2>4, <3>3
    <3>5. \E a \in T : ~IsNaN(a) /\ r.value = Number(a)
      BY <2>4, <3>1, <3>2
    <3>6. ~ \E a \in T : Leads(a, T) /\ IsNaN(a)
      BY <2>1, <2>3, <3>1
    <3>7. Extreme(r, T)
      BY <2>4, <3>2, <3>4, <3>5, <3>6 DEF Extreme
    <3> QED BY <3>7 DEF T
  <2>6. CASE ~Beats(x)
    <3>1. r = result /\ (IsNaN(x) \/ result.nan \/ ~Better(Number(x), result.value))
      BY <2>1, <2>6 DEF Beats
    <3>2. ~r.nan => \A a \in T : ~IsNaN(a) => ~Better(Number(a), r.value)
      BY <2>1, <2>4, <3>1
    <3>3. ~r.nan => \E a \in T : ~IsNaN(a) /\ r.value = Number(a)
      BY <2>1, <2>4, <3>1
    <3>4. r.found /\ (r.nan <=> \E a \in T : Leads(a, T) /\ IsNaN(a))
      BY <2>1, <2>3, <3>1
    <3>5. Extreme(r, T)
      BY <2>4, <3>2, <3>3, <3>4 DEF Extreme
    <3> QED BY <3>5 DEF T
  <2> QED BY <2>5, <2>6
<1> QED BY <1>3, <1>4

(* What is right about all wanted records is the answer.                    *)
LEMMA AggregateAnswer ==
  query \in Queries /\ query.kind # "select" /\ Right(result, AllWanted) => AnswerIsRight
<1> SUFFICES ASSUME query \in Queries, query.kind # "select", Right(result, AllWanted)
             PROVE  AnswerIsRight
  OBVIOUS
<1>1. query.kind # "byID"
  BY QueryAssumption
<1>2. query.kind \in {"max", "min"} => RightExtreme
  <2> SUFFICES ASSUME query.kind \in {"max", "min"} PROVE RightExtreme
    OBVIOUS
  <2>1. Extreme(result, AllWanted)
    BY DEF Right
  <2>2. \A a : Foremost(a) <=> Leads(a, AllWanted)
    BY DEF Foremost, Leads
  <2> QED BY <2>1, <2>2 DEF Extreme, RightExtreme
<1>3. query.kind \in {"sum", "avg"} => RightSum
  BY DEF Right, Total, RightSum, SumOver
<1> QED BY <1>1, <1>2, <1>3 DEF AnswerIsRight, Right

(* The same of a select.                                                    *)
LEMMA SelectAnswer ==
  query \in Queries /\ query.kind = "select" /\ RightSelection => AnswerIsRight
<1>1. query \in Queries /\ query.kind = "select" => query.kind # "byID"
  OBVIOUS
<1> QED BY <1>1 DEF AnswerIsRight

(* A step that ends a select with s, which holds the right records.         *)
LEMMA SelectionKept ==
  ASSUME pages' = pages, query' = query, NEW s, result'.records = s,
         result'.totalMatched = Len(s), NEW S, S = Elements(s), S \subseteq AllWanted,
         Cardinality(S) = Len(s), \A a \in S, b \in AllWanted \ S : Precedes(a, b),
         IF query.limit = 0 THEN S = AllWanted
         ELSE Len(s) <= query.limit /\ (S = AllWanted \/ Len(s) = query.limit),
         IF query.sort = NoSort THEN InScanOrder(s) ELSE Ordered(s)
  PROVE  RightSelection'
<1>1. AllWanted' = AllWanted
  BY WantedKept
<1>2. \A a, b : SortsBefore(a, b)' <=> SortsBefore(a, b)
  BY DEF SortsBefore, SortKey, At
<1>3. Ordered(s)' <=> Ordered(s)
  BY <1>2 DEF Ordered
<1>4. Elements(s)' = Elements(s)
  BY DEF Elements
<1> QED BY <1>1, <1>3, <1>4 DEF RightSelection, InScanOrder

LEMMA FinishRight ==
  ASSUME TableInv, QueryInv, RightInv, finishSelect, ~Lost
  PROVE  RightSelection' /\ phase' = "done"
<1>1. pages' = pages /\ query' = query /\ query \in Queries /\ query.kind = "select" /\ phase = "finish"
  BY DEF finishSelect, Scanning, QueryInv
<1>2. PICK s \in Seq(Nat \X Nat) :
           /\ result'.records = s /\ result'.totalMatched = result.totalMatched
           /\ Len(s) = Len(result.records) /\ Elements(s) = Elements(result.records)
           /\ IF query.sort # NoSort /\ Len(result.records) > 1
                THEN Ordered(s) ELSE s = result.records
  BY FinishIs DEF QueryInv
<1>0. phase' = "done"
  BY FinishIs DEF QueryInv
<1>3. Selected(result, Passed)
  BY <1>1 DEF RightInv, Right
<1>4. /\ Elements(s) = Passed /\ Cardinality(Passed) = Len(s) /\ result'.totalMatched = Len(s)
  BY <1>2, <1>3 DEF Selected
<1>5. /\ Passed \subseteq AllWanted
      /\ \A a \in Passed, b \in AllWanted \ Passed : Precedes(a, b)
  <2>1. page \in Nat /\ slot \in Nat
    BY PositionIs, QueryAssumption DEF TableInv, QueryInv
  <2> QED BY <2>1, PassedIs DEF TableInv
<1>6. IF query.limit = 0 THEN Passed = AllWanted
      ELSE Len(s) <= query.limit /\ (Passed = AllWanted \/ Len(s) = query.limit)
  BY <1>1, <1>2 DEF RightInv, LimitInv
<1>7. IF query.sort = NoSort THEN InScanOrder(s) ELSE Ordered(s)
  <2>1. CASE query.sort = NoSort
    BY <1>2, <1>3, <2>1 DEF Selected
  <2>2. CASE query.sort # NoSort /\ Len(result.records) > 1
    BY <1>2, <1>4, <2>2
  <2>3. CASE query.sort # NoSort /\ ~(Len(result.records) > 1)
    <3>1. Ordered(s)
      <4>1. DOMAIN s = 1 .. Len(s) /\ Len(s) \in Nat /\ Len(s) <= 1
        BY <1>2, <2>3
      <4>2. \A j, k \in DOMAIN s : ~(j < k)
        BY <4>1
      <4> QED BY <4>2 DEF Ordered
    <3> QED BY <2>3, <3>1
  <2> QED BY <2>1, <2>2, <2>3
<1> QED BY <1>0, <1>1, <1>2, <1>4, <1>5, <1>6, <1>7, SelectionKept

(* The records passed precede the place of the scan, not the reverse, and   *)
(* one of them precedes the others.                                        *)
LEMMA PassedLed ==
  ASSUME PagesOK(pages), page \in Nat, slot \in Nat,
         NEW x \in Nat \X Nat, \A a \in Passed : Precedes(a, x)
  PROVE  /\ \A a \in Passed : ~Precedes(x, a)
         /\ Passed # {} => \E a \in Passed : Leads(a, Passed)
<1>1. \A a \in Passed : a = <<a[1], a[2]>> /\ a[1] \in Nat /\ a[2] \in Nat
  BY PassedIs, PositionIs
<1>2. \A a \in Passed : ~Precedes(x, a)
  <2>1. x[1] \in Nat /\ x[2] \in Nat
    OBVIOUS
  <2> QED BY <1>1, <2>1 DEF Precedes
<1>3. ASSUME Passed # {} PROVE \E a \in Passed : Leads(a, Passed)
  <2> DEFINE A == {a[1] : a \in Passed}
  <2>1. A \in SUBSET Nat /\ A # {}
    BY <1>1, <1>3
  <2>2. PICK i \in A : \A m \in A : i <= m
    BY <2>1, LeastElement
  <2> DEFINE B == {a[2] : a \in {b \in Passed : b[1] = i}}
  <2>3. B \in SUBSET Nat /\ B # {}
    BY <1>1, <2>2
  <2>4. PICK k \in B : \A m \in B : k <= m
    BY <2>3, LeastElement
  <2>5. PICK a \in Passed : a[1] = i /\ a[2] = k
    BY <2>4
  <2>6. ASSUME NEW b \in Passed, b # a PROVE Precedes(a, b)
    <3>1. b[1] \in A /\ (b[1] = i => b[2] \in B)
      OBVIOUS
    <3> HIDE DEF A, B
    <3>2. i <= b[1] /\ (b[1] = i => k <= b[2])
      BY <2>2, <2>4, <3>1
    <3>3. b[1] = i => b[2] # k
      BY <1>1, <2>5, <2>6
    <3> QED BY <1>1, <2>5, <3>2, <3>3 DEF Precedes
  <2> QED BY <2>5, <2>6 DEF Leads
<1> QED BY <1>2, <1>3

(* A step over a record keeps the result right.                             *)
LEMMA RecordRight ==
  ASSUME PagesOK(pages), QueryInv, RightInv, AtRecord, Skip \/ Select \/ Count \/ Sum \/ Compare
  PROVE  Right(result, Passed)'
<1> DEFINE pos == <<page, slot>>
           T == Passed \cup {pos}
<1>0. Advance /\ Scanning /\ phase = "scan"
  BY DEF Skip, Select, Count, Sum, Compare, AtRecord
<1>1. /\ pages' = pages /\ query' = query
      /\ ~Wanted(Current) => Passed' = Passed
      /\ Wanted(Current) => Passed' = T
      /\ pos \notin Passed
      /\ \A a \in Passed : Precedes(a, pos)
  BY <1>0, PassedStep
<1>2. Right(result, Passed) /\ result \in Results
  BY <1>0 DEF RightInv, QueryInv
<1>3. /\ IsFiniteSet(Passed) /\ Cardinality(Passed) \in Nat /\ Numbered(Passed)
      /\ pos \in Nat \X Nat /\ Number(pos) \in Int /\ page \in Nat /\ slot \in Nat
  BY AtRecordIs, PassedIs
<1> HIDE DEF pos, T
<1>10. /\ \A a \in Passed : ~Precedes(pos, a)
       /\ Passed # {} => \E a \in Passed : Leads(a, Passed)
  BY <1>1, <1>3, PassedLed
<1>4. CASE Skip
  <2>1. result' = result /\ Passed' = Passed
    BY <1>1, <1>4 DEF Skip
  <2>2. Right(result', Passed)
    BY <1>2, <2>1
  <2> QED BY <1>1, <2>1, <2>2, RightKept
<1>5. Cardinality(T) = Cardinality(Passed) + 1 /\ SumOver(T) = SumOver(Passed) + Number(pos)
  BY <1>1, <1>3, FS_AddElement, SumOverAdd DEF T
<1>6. CASE Select
  <2>1. /\ query.kind = "select" /\ Passed' = T
        /\ result' = [result EXCEPT !.records = Append(@, pos), !.totalMatched = @ + 1]
    BY <1>1, <1>6 DEF Select, pos
  <2>2. result'.records = Append(result.records, pos) /\ result'.totalMatched = result.totalMatched + 1
    BY <1>2, <2>1 DEF Results
  <2>3. Selected(result, Passed)
    BY <1>2, <2>1 DEF Right
  <2>4. Selected(result', T)
    BY <1>1, <1>2, <1>3, <2>2, <2>3, SelectRight DEF T
  <2>5. Right(result', T)
    BY <2>1, <2>4 DEF Right
  <2> QED BY <1>1, <2>1, <2>5, RightKept
<1>7. CASE Count
  <2>1. /\ query.kind = "count" /\ Passed' = T
        /\ result' = [result EXCEPT !.totalMatched = @ + 1]
    BY <1>1, <1>7 DEF Count
  <2>2. result'.totalMatched = result.totalMatched + 1
    BY <1>2, <2>1 DEF Results
  <2>3. Right(result', T)
    BY <1>2, <1>5, <2>1, <2>2 DEF Right
  <2> QED BY <1>1, <2>1, <2>3, RightKept
<1>8. CASE Sum
  <2>1. /\ query.kind \in {"sum", "avg"} /\ Passed' = T
        /\ result' = [result EXCEPT !.value = @ + Number(pos), !.totalMatched = @ + 1,
                                    !.nan = @ \/ IsNaN(pos)]
    BY <1>1, <1>8 DEF Sum, pos
  <2>2. /\ result'.totalMatched = result.totalMatched + 1
        /\ result'.value = result.value + Number(pos)
        /\ result'.nan <=> result.nan \/ IsNaN(pos)
    BY <1>2, <2>1 DEF Results
  <2>3. (\E a \in T : IsNaN(a)) <=> (\E a \in Passed : IsNaN(a)) \/ IsNaN(pos)
    BY DEF T
  <2>4. Total(result, Passed) => Total(result', T)
    BY <1>5, <2>2, <2>3 DEF Total
  <2>5. Right(result', T)
    BY <1>2, <1>5, <2>1, <2>2, <2>4 DEF Right
  <2> QED BY <1>1, <2>1, <2>5, RightKept
<1>9. CASE Compare
  <2>1. /\ query.kind \in {"max", "min"} /\ Passed' = T
        /\ result' = IF ~result.found \/ Beats(pos)
                       THEN [result EXCEPT !.value = Number(pos), !.nan = IsNaN(pos), !.found = TRUE]
                       ELSE result
    BY <1>1, <1>9 DEF Compare, pos
  <2>2. result.value \in Int /\ \A a \in Passed : Number(a) \in Int
    BY <1>2, <1>3 DEF Results, Numbered
  <2>3. Extreme(result, Passed)
    BY <1>2, <2>1 DEF Right
  <2>4. Extreme(result', T)
    BY <1>1, <1>2, <1>3, <1>10, <2>1, <2>2, <2>3, ExtremeStep DEF T
  <2>5. Right(result', T)
    BY <2>1, <2>4 DEF Right
  <2> QED BY <1>1, <2>1, <2>5, RightKept
<1> QED BY <1>4, <1>6, <1>7, <1>8, <1>9

(* A select stops in the step that reaches its limit.                       *)
LEMMA RecordLimit ==
  ASSUME PagesOK(pages), QueryInv, RightInv, AtRecord, Skip \/ Select \/ Count \/ Sum \/ Compare
  PROVE  LimitInv' /\ phase' \in {"scan", "finish"}
<1>0. phase = "scan" /\ query' = query /\ query \in Queries
  BY DEF Skip, Select, Count, Sum, Compare, AtRecord, Scanning, QueryInv
<1>1. CASE Skip
  BY <1>0, <1>1 DEF Skip, LimitInv, RightInv
<1>2. CASE Count \/ Sum \/ Compare
  <2>1. phase' = "scan" /\ query.kind # "select"
    BY <1>0, <1>2 DEF Count, Sum, Compare
  <2> QED BY <1>0, <2>1 DEF LimitInv
<1>3. CASE Select
  <2> DEFINE n == Len(result.records)
             m == Len(result'.records)
  <2>1. /\ query.kind = "select"
        /\ result' = [result EXCEPT !.records = Append(@, <<page, slot>>), !.totalMatched = @ + 1]
        /\ phase' = IF query.limit > 0 /\ m >= query.limit THEN "finish" ELSE phase
    BY <1>3 DEF Select
  <2>2. result.records \in Seq(Nat \X Nat) /\ <<page, slot>> \in Nat \X Nat
    BY AtRecordIs DEF QueryInv, Results
  <2>3. m = n + 1 /\ n \in Nat
    <3>1. result'.records = Append(result.records, <<page, slot>>)
      BY <2>1 DEF QueryInv, Results
    <3> QED BY <2>2, <3>1, ElementsAppend
  <2>4. query.limit \in Nat
    BY <1>0, <2>1, QueryAssumption
  <2>5. query.limit # 0 => n < query.limit
    BY <1>0, <2>1 DEF RightInv, LimitInv
  <2> HIDE DEF n, m
  <2>6. CASE query.limit > 0 /\ m >= query.limit
    <3>1. phase' = "finish" /\ query.limit # 0 /\ m = query.limit
      BY <2>1, <2>3, <2>4, <2>5, <2>6
    <3> QED BY <1>0, <2>4, <3>1 DEF LimitInv, m
  <2>7. CASE ~(query.limit > 0 /\ m >= query.limit)
    <3>1. phase' = "scan" /\ (query.limit # 0 => m < query.limit)
      BY <1>0, <2>1, <2>3, <2>4, <2>7
    <3> QED BY <1>0, <3>1 DEF LimitInv, m
  <2> QED BY <2>6, <2>7
<1> QED BY <1>1, <1>2, <1>3

(* Past the last page every record is passed; a new page changes nothing.   *)
LEMMA PassedAll ==
  ASSUME PagesOK(pages), page \in Nat, page > Len(pages)
  PROVE  Passed = AllWanted
<1>1. \A a \in AllWanted : a[1] \in 1 .. Len(pages) /\ Len(pages) \in Nat
  BY PositionIs DEF AllWanted
<1> QED BY <1>1 DEF Passed, Before

LEMMA PassedKept ==
  ASSUME PagesOK(pages), QueryInv, NextPage
  PROVE  Passed' = Passed
<1>1. AllWanted' = AllWanted
  BY WantedKept DEF NextPage, Scanning
<1>2. page \in Nat /\ slot \in Nat /\ slot > Len(pages[page]) /\ page' = page + 1 /\ slot' = 1
  BY PositionIs, QueryAssumption DEF NextPage, QueryInv
<1>3. \A a \in AllWanted : a[1] \in Nat /\ a[2] \in 1 .. Len(pages[a[1]]) /\ Len(pages[a[1]]) \in Nat
  <2>1. \A a \in AllWanted : a \in RecordPositions
    BY DEF AllWanted
  <2> QED BY <2>1, PositionIs
<1>4. \A a \in AllWanted : Before(a)' <=> Before(a)
  <2> SUFFICES ASSUME NEW a \in AllWanted PROVE Before(a)' <=> Before(a)
    OBVIOUS
  <2>1. a[1] \in Nat /\ a[2] \in Nat /\ a[2] >= 1 /\ a[2] <= Len(pages[a[1]]) /\ Len(pages[a[1]]) \in Nat
    BY <1>3
  <2>2. CASE a[1] = page
    BY <1>2, <2>1, <2>2 DEF Before
  <2>3. CASE a[1] # page
    BY <1>2, <2>1, <2>3 DEF Before
  <2> QED BY <2>2, <2>3
<1> QED BY <1>1, <1>4 DEF Passed

(* What was no order is none in the next state.                             *)
LEMMA LostKept ==
  ASSUME pages' = pages, query' = query, result' = result,
         Elements(result.records) \subseteq AllWanted, ~IsWeakOrder(Elements(result.records))
  PROVE  LostInv'
<1>1. AllWanted' = AllWanted
  BY WantedKept
<1>2. \A a, b : SortsBefore(a, b)' <=> SortsBefore(a, b)
  BY DEF SortsBefore, SortKey, At
<1>3. \A a, b : Tied(a, b)' <=> Tied(a, b)
  BY <1>2 DEF Tied
<1>4. IsWeakOrder(Elements(result.records))' <=> IsWeakOrder(Elements(result.records))
  BY <1>3 DEF IsWeakOrder, Elements
<1> QED BY <1>1, <1>4 DEF LostInv, Elements

(* No step gets a result wrong.                                             *)
LEMMA RightStep ==
  TableInv /\ QueryInv /\ RightInv /\ [QueryNext]_queryVars => RightInv'
<1> SUFFICES ASSUME TableInv, QueryInv, RightInv, [QueryNext]_queryVars PROVE RightInv'
  OBVIOUS
<1>0. PagesOK(pages) /\ page \in Nat /\ slot \in Nat
  BY PositionIs, QueryAssumption DEF TableInv, QueryInv
<1>1. ASSUME phase' = "idle" PROVE RightInv'
  BY <1>1 DEF RightInv, LimitInv, LostInv, AnswerIsRight
<1>2. ASSUME NEW key \in Fields, RemoveField(key) PROVE phase' = "idle"
  BY <1>2 DEF RemoveField, BetweenQueries
<1>3. ASSUME NEW key \in Fields, NEW value \in Values[key], SetField(key, value) PROVE phase' = "idle"
  BY <1>3 DEF SetField, BetweenQueries
<1>4. CASE insertRecord
  BY <1>1, <1>4 DEF insertRecord, BetweenQueries
<1>5. ASSUME NEW pos \in RecordPositions, deleteRecord(pos) PROVE phase' = "idle"
  BY <1>5 DEF deleteRecord, BetweenQueries
<1>6. ASSUME NEW q \in Queries, Ask(q) PROVE RightInv'
  <2>1. phase' = "scan" /\ query' = q /\ page' = 1 /\ slot' = 1 /\ result' = NoAnswer
        /\ pages' = pages /\ schema' = schema
    BY <1>6 DEF Ask, tableVars
  <2>2. Fresh'
    BY <1>0, <2>1 DEF Fresh, PagesOK
  <2>3. Right(result, Passed)'
    BY <2>2, FreshRight, PTL
  <2>4. q.kind = "select" => q.limit \in Nat
    BY <1>6, QueryAssumption
  <2>5. LimitInv'
    <3>1. Len(result'.records) = 0
      BY <2>1, EmptyIs
    <3> QED BY <2>1, <2>4, <3>1 DEF LimitInv
  <2> QED BY <2>1, <2>3, <2>5 DEF RightInv, AnswerIsRight, LostInv
<1>7. ASSUME NEW pos \in (1 .. MaxRecords) \X (1 .. PageSlots), selectByID(pos) PROVE RightInv'
  <2>1. /\ phase' = "done" /\ query' = [kind |-> "byID", id |-> pos] /\ pages' = pages
        /\ result' = IF pos \in RecordPositions /\ ~At(pos).deleted
                       THEN [NoAnswer EXCEPT !.records = <<pos>>, !.totalMatched = 1]
                       ELSE [NoAnswer EXCEPT !.status = "NOT_FOUND"]
    BY <1>7 DEF selectByID
  <2>2. query'.kind = "byID" /\ query'.id = pos
    BY <2>1
  <2>3. result'.records = IF pos \in RecordPositions /\ ~At(pos).deleted THEN <<pos>> ELSE <<>>
    BY <2>1 DEF NoAnswer
  <2>4. RecordPositions' = RecordPositions /\ At(pos)' = At(pos)
    BY <2>1 DEF RecordPositions, At
  <2>5. AnswerIsRight'
    BY <2>2, <2>3, <2>4 DEF AnswerIsRight, At
  <2> QED BY <2>1, <2>5 DEF RightInv, LimitInv, LostInv
<1>8. CASE Skip \/ Select \/ Count \/ Sum \/ Compare
  <2>1. AtRecord
    BY <1>8 DEF Skip, Select, Count, Sum, Compare
  <2>2. Right(result, Passed)'
    BY <1>0, <1>8, <2>1, RecordRight
  <2>3. LimitInv' /\ phase' \in {"scan", "finish"}
    BY <1>0, <1>8, <2>1, RecordLimit
  <2> QED BY <2>2, <2>3 DEF RightInv, AnswerIsRight, LostInv
<1>9. CASE NextPage
  <2>1. /\ pages' = pages /\ query' = query /\ result' = result /\ phase = "scan" /\ phase' = "scan"
    BY <1>9 DEF NextPage, Scanning
  <2>2. Passed' = Passed
    BY <1>0, <1>9, PassedKept
  <2>3. Right(result', Passed)
    BY <2>1 DEF RightInv
  <2>4. Right(result, Passed)'
    BY <2>1, <2>2, <2>3, RightKept
  <2> QED BY <2>1, <2>4 DEF RightInv, LimitInv, AnswerIsRight, LostInv
<1>10. CASE ScanEnds
  <2>1. /\ pages' = pages /\ query' = query /\ result' = result /\ phase = "scan"
        /\ page' = page /\ slot' = slot /\ page > Len(pages) /\ query \in Queries
        /\ phase' = IF query.kind = "select" THEN "finish" ELSE "done"
    BY <1>10 DEF ScanEnds, Scanning, QueryInv
  <2>2. Passed = AllWanted
    BY <1>0, <2>1, PassedAll
  <2>3. AllWanted' = AllWanted
    BY <2>1, WantedKept
  <2>4. Passed' = Passed
    BY <2>1, <2>3 DEF Passed, Before
  <2>5. Right(result', Passed)
    BY <2>1 DEF RightInv
  <2>6. Right(result, Passed)'
    BY <2>1, <2>4, <2>5, RightKept
  <2>7. CASE query.kind = "select"
    <3>1. phase' = "finish"
      BY <2>1, <2>7
    <3>2. LimitInv'
      <4>1. CASE query.limit = 0
        BY <2>1, <2>2, <2>3, <2>4, <3>1, <4>1 DEF LimitInv
      <4>2. CASE query.limit # 0
        <5>1. Len(result.records) < query.limit /\ Len(result.records) \in Nat /\ query.limit \in Nat
          <6>1. result.records \in Seq(Nat \X Nat)
            BY DEF QueryInv, Results
          <6> QED BY <2>1, <2>7, <4>2, <6>1, QueryAssumption DEF RightInv, LimitInv
        <5> QED BY <2>1, <2>2, <2>3, <2>4, <3>1, <4>2, <5>1 DEF LimitInv
      <4> QED BY <4>1, <4>2
    <3> QED BY <2>6, <3>1, <3>2 DEF RightInv, AnswerIsRight, LostInv
  <2>8. CASE query.kind # "select"
    <3>1. phase' = "done"
      BY <2>1, <2>8
    <3>2. Right(result, AllWanted)'
      <4>1. (Passed = AllWanted)'
        BY <2>2, <2>3, <2>4
      <4> QED BY <2>6, <4>1
    <3>3. (query \in Queries /\ query.kind # "select" /\ Right(result, AllWanted))'
      BY <2>1, <2>8, <3>2
    <3>4. AnswerIsRight'
      BY <3>3, AggregateAnswer, PTL
    <3> QED BY <3>1, <3>4 DEF RightInv, LimitInv, LostInv
  <2> QED BY <2>7, <2>8
<1>11. CASE finishSelect
  <2>1. phase = "finish" /\ query' = query /\ pages' = pages /\ page' = page /\ slot' = slot
    BY <1>11 DEF finishSelect, Scanning
  <2>2. CASE Lost
    <3>1. phase' = "undefined" /\ result' = result
      BY <2>2 DEF Lost
    <3>2. Elements(result.records) \subseteq AllWanted
      BY <2>1 DEF RightInv, Right, Selected, QueryInv, Passed
    <3>3. ~IsWeakOrder(Elements(result.records))
      BY <2>2 DEF Lost
    <3>4. LostInv'
      BY <2>1, <3>1, <3>2, <3>3, LostKept
    <3> QED BY <3>1, <3>4 DEF RightInv, LimitInv, AnswerIsRight
  <2>3. CASE ~Lost
    <3>1. phase' = "done"
      BY <1>11, <2>3, FinishRight
    <3>2. (query \in Queries /\ query.kind = "select" /\ RightSelection)'
      <4>1. RightSelection'
        BY <1>11, <2>3, FinishRight
      <4> QED BY <2>1, <4>1 DEF QueryInv
    <3>3. AnswerIsRight'
      BY <3>2, SelectAnswer, PTL
    <3> QED BY <3>1, <3>3 DEF RightInv, LimitInv, LostInv
  <2> QED BY <2>2, <2>3
<1>12. CASE TakeAnswer
  BY <1>1, <1>12 DEF TakeAnswer
<1>13. CASE UNCHANGED queryVars
  <2>1. /\ pages' = pages /\ query' = query /\ page' = page /\ slot' = slot
        /\ phase' = phase /\ result' = result
    BY <1>13 DEF queryVars
  <2>2. AllWanted' = AllWanted
    BY <2>1, WantedKept
  <2>3. Passed' = Passed
    BY <2>1, <2>2 DEF Passed, Before
  <2>4. phase \in {"scan", "finish"} => Right(result, Passed)'
    BY <2>1, <2>3, RightKept DEF RightInv
  <2>5. LimitInv'
    BY <2>1, <2>2, <2>3 DEF RightInv, LimitInv
  <2>6. AnswerIsRight'
    <3>1. AnswerIsRight
      BY DEF RightInv
    <3>2. \A S : MapThenSumSet(Number, S)' = MapThenSumSet(Number, S)
      BY <2>1 DEF MapThenSumSet, MapThenFoldSet, Number, At, getFieldRef
    <3>3. RightSelection' = RightSelection
      BY <2>1, <2>2 DEF RightSelection, Ordered, SortsBefore, SortKey, At, Elements
    <3>4. RightExtreme' = RightExtreme
      BY <2>1, <2>2 DEF RightExtreme, Foremost, Better, Number, IsNaN, At
    <3>5. MapThenSumSet(Number, AllWanted)' = MapThenSumSet(Number, AllWanted)
      BY <2>1, <2>2, <3>2 DEF MapThenSumSet, MapThenFoldSet, Number, At, getFieldRef
    <3>6. RightSum' = RightSum
      BY <2>1, <2>2, <3>5 DEF RightSum, IsNaN, At
    <3> QED BY <2>1, <2>2, <3>1, <3>3, <3>4, <3>6 DEF AnswerIsRight, RecordPositions, At
  <2>7. LostInv'
    <3>1. CASE phase = "undefined"
      BY <2>1, <3>1, LostKept DEF RightInv, LostInv
    <3> QED BY <2>1, <3>1 DEF LostInv
  <2> QED BY <2>1, <2>4, <2>5, <2>6, <2>7 DEF RightInv
<1> QED
  BY <1>1, <1>2, <1>3, <1>4, <1>5, <1>6, <1>7, <1>8, <1>9, <1>10, <1>11, <1>12, <1>13 DEF QueryNext, Scan

IInv == TableInv /\ QueryInv /\ RightInv

(* The inductive invariant holds in every reachable state.                  *)
LEMMA Invariant == QuerySpec => []IInv
<1>1. QueryInit => IInv
  BY TypeInit DEF QueryInit, IInv, RightInv, LimitInv, LostInv, AnswerIsRight
<1>2. IInv /\ [QueryNext]_queryVars => IInv'
  BY TableStep, QueryStep, RightStep DEF IInv
<1> QED BY <1>1, <1>2, PTL DEF QuerySpec

(* A query that answers says what its definition over the set of live       *)
(* records says: the first matches up to the limit, once each and in order, *)
(* their number, the sum of a field, an extreme of it, the record of an id. *)
(* It says nothing of one that is lost in std::sort.                        *)
THEOREM AnswersAreRight == QuerySpec => []AnswerIsRight
BY Invariant, PTL DEF IInv, RightInv

(* Where a comparator is no order, two keys compare and a third, of another *)
(* type, compares with neither.                                            *)
LEMMA NoOrder ==
  ASSUME NEW S, ~IsWeakOrder(S), \A a \in S : SortKey(a) \in Typed
  PROVE  \E a, b, c \in S : SortsBefore(a, b) /\ SortKey(c).type # SortKey(a).type
<1>1. PICK a, b, c \in S : Tied(a, b) /\ Tied(b, c) /\ ~Tied(a, c)
  BY DEF IsWeakOrder
<1>2. /\ SortKey(a).v \in Int /\ SortKey(b).v \in Int /\ SortKey(c).v \in Int
  BY DEF Typed
<1>3. \A x, y : compareValues(SortKey(x), SortKey(y), "LT") <=>
                /\ SortKey(x).type = SortKey(y).type /\ SortKey(x).type \in {"string", "number"}
                /\ SortKey(x).v < SortKey(y).v
  BY DEF compareValues, Holds
<1> DEFINE Less(x, y) == /\ SortKey(x).type = SortKey(y).type
                         /\ SortKey(x).type \in {"string", "number"}
                         /\ SortKey(x).v < SortKey(y).v
<1>4. \A x, y : SortsBefore(x, y) <=> IF query.sort.order = "ASC" THEN Less(x, y) ELSE Less(y, x)
  BY <1>3 DEF SortsBefore
<1>5. \A x, y : Tied(x, y) <=> ~Less(x, y) /\ ~Less(y, x)
  BY <1>4 DEF Tied
<1>6. /\ ~Less(a, b) /\ ~Less(b, a) /\ ~Less(b, c) /\ ~Less(c, b)
      /\ Less(a, c) \/ Less(c, a)
  BY <1>1, <1>5
<1>7. SortKey(a).type = SortKey(c).type /\ SortKey(a).type \in {"string", "number"}
      /\ SortKey(a).v # SortKey(c).v
  BY <1>2, <1>6
<1>8. SortKey(b).type # SortKey(a).type
  BY <1>2, <1>6, <1>7
<1>9. SortsBefore(a, c) \/ SortsBefore(c, a)
  BY <1>4, <1>6
<1> QED BY <1>7, <1>8, <1>9

(* A query is lost in std::sort only when two of its records are in order   *)
(* and a third compares with neither; in a column of the schema validate()  *)
(* has let in no such records unless one lacks a value that the column may  *)
(* miss, or has NaN in a DOUBLE.                                            *)
THEOREM SortsAreDefined == QuerySpec => []SortIsDefined
<1>1. IInv => SortIsDefined
  <2> SUFFICES ASSUME IInv, phase = "undefined"
               PROVE  LET S == Elements(result.records) IN
                        /\ \E a, b, c \in S : SortsBefore(a, b) /\ SortKey(c).type # SortKey(a).type
                        /\ \A k \in DOMAIN schema :
                             schema[k].name = query.sort.field =>
                               \E c \in S : MissesOrIsNaN(c, schema[k])
    BY DEF SortIsDefined
  <2> DEFINE S == Elements(result.records)
  <2>1. schema \in Schemas /\ PagesOK(pages) /\ S \subseteq AllWanted /\ ~IsWeakOrder(S)
    BY DEF IInv, TableInv, RightInv, LostInv
  <2>2. ASSUME NEW a \in S
        PROVE  At(a).data \in Data /\ validate(At(a).data, schema) = "OK"
    <3>1. a \in RecordPositions /\ ~At(a).deleted
      BY <2>1 DEF AllWanted, Satisfies
    <3> QED BY <2>1, <3>1, PositionIs DEF Rows
  <2>3. \A a \in S : SortKey(a) \in Typed
    BY <2>2, FieldTyped DEF SortKey
  <2> HIDE DEF S
  <2>4. PICK a, b, c \in S : SortsBefore(a, b) /\ SortKey(c).type # SortKey(a).type
    BY <2>1, <2>3, NoOrder
  <2>5. ASSUME NEW k \in DOMAIN schema, schema[k].name = query.sort.field,
               \A x \in S : ~MissesOrIsNaN(x, schema[k])
        PROVE  FALSE
    <3>1. \A x \in S : SortKey(x).type = TypeOf(schema[k])
      BY <2>1, <2>2, <2>5, ColumnFilled DEF MissesOrIsNaN, SortKey
    <3> QED BY <2>4, <3>1
  <2> QED BY <2>4, <2>5 DEF S
<1> QED BY <1>1, Invariant, PTL
=============================================================================
