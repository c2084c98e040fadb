---------------------------- MODULE DatabaseProofs ----------------------------
(***************************************************************************)
(* What Database guarantees for every number of objects, names, tables and *)
(* addresses.                                                              *)
(***************************************************************************)
EXTENDS Database, FiniteSetTheorems, SequenceTheorems, TLAPS

-----------------------------------------------------------------------------
(* The inductive invariant.                                                *)

Injective(s) == \A i, j \in DOMAIN s : s[i] = s[j] => i = j

(* The object o and the heap h: each Table of o is named once, and both     *)
(* indices lead to it, by its own name and its own id.                      *)
Agrees(o, h) ==
  LET own == Elements(o.tables) IN
    /\ Injective(o.tables)
    /\ DOMAIN o.index = {h[a].name : a \in own}
    /\ DOMAIN o.tableIndex = {h[a].id : a \in own}
    /\ \A a \in own : /\ o.index[h[a].name] = h[a].id
                      /\ o.tableIndex[h[a].id] = a
                      /\ h[a].id < o.nextTableId

(* Of an object adrift only that it names no Table twice.                   *)
Settled(o, h, d, drifting) == Injective(o.tables) /\ (d \notin drifting => Agrees(o, h))

ObjectInv == \A d \in Dbs : Usable(d) => Settled(db[d], heap, d, adrift)

AllOwned == UNION {Owned(d) : d \in Dbs}

(* Each Table on the heap is some one object's, or leaked.                  *)
OwnerInv ==
  /\ \A d, e \in Dbs : d # e => Owned(d) \cap Owned(e) = {}
  /\ DOMAIN heap = leaked \cup AllOwned
  /\ leaked \cap AllOwned = {}

FileInv == file # NoFile => Len(file.tables) <= MaxTables

(* Only a move gives a dead object members, and a torn one never dies.      *)
TornInv == \A d \in torn : db[d] # Gone

IInv == TypeOK /\ ObjectInv /\ OwnerInv /\ FileInv /\ TornInv
-----------------------------------------------------------------------------
(* Partial functions, and the sequences of tables_.                         *)

LEMMA PartialFunction ==
  ASSUME NEW S, NEW T, NEW f
  PROVE  f \in PartialFunctions(S, T) <=>
           /\ f = [x \in DOMAIN f |-> f[x]]
           /\ DOMAIN f \subseteq S
           /\ \A x \in DOMAIN f : f[x] \in T
<1>1. ASSUME f \in PartialFunctions(S, T)
      PROVE  /\ f = [x \in DOMAIN f |-> f[x]]
             /\ DOMAIN f \subseteq S
             /\ \A x \in DOMAIN f : f[x] \in T
  <2>1. PICK D \in SUBSET S : f \in [D -> T]
    BY <1>1 DEF PartialFunctions
  <2> QED BY <2>1
<1>2. ASSUME /\ f = [x \in DOMAIN f |-> f[x]]
             /\ DOMAIN f \subseteq S
             /\ \A x \in DOMAIN f : f[x] \in T
      PROVE  f \in PartialFunctions(S, T)
  <2>1. f \in [DOMAIN f -> T] /\ DOMAIN f \in SUBSET S
    BY <1>2
  <2> QED BY <2>1 DEF PartialFunctions
<1> QED BY <1>1, <1>2

LEMMA ExtendType ==
  ASSUME NEW S, NEW T, NEW f \in PartialFunctions(S, T), NEW k \in S, NEW v \in T
  PROVE  Extend(f, k, v) \in PartialFunctions(S, T)
<1>1. DOMAIN f \subseteq S /\ \A x \in DOMAIN f : f[x] \in T
  BY PartialFunction
<1>2. Extend(f, k, v) \in [DOMAIN f \cup {k} -> T]
  BY <1>1 DEF Extend
<1> QED BY <1>1, <1>2 DEF PartialFunctions

LEMMA EraseType ==
  ASSUME NEW S, NEW T, NEW f \in PartialFunctions(S, T), NEW ks
  PROVE  Erase(f, ks) \in PartialFunctions(S, T)
<1>1. DOMAIN f \subseteq S /\ \A x \in DOMAIN f : f[x] \in T
  BY PartialFunction
<1>2. Erase(f, ks) \in [DOMAIN f \ ks -> T]
  BY <1>1 DEF Erase
<1> QED BY <1>1, <1>2 DEF PartialFunctions

LEMMA AppendElements ==
  ASSUME NEW S, NEW s \in Seq(S), NEW a \in S
  PROVE  /\ Append(s, a) \in Seq(S) /\ Len(Append(s, a)) = Len(s) + 1
         /\ Elements(Append(s, a)) = Elements(s) \cup {a}
         /\ Injective(s) /\ a \notin Elements(s) => Injective(Append(s, a))
<1>1. /\ Append(s, a) \in Seq(S) /\ Len(Append(s, a)) = Len(s) + 1
      /\ Len(s) \in Nat /\ DOMAIN s = 1 .. Len(s)
      /\ DOMAIN Append(s, a) = 1 .. Len(s) + 1
      /\ \A k \in 1 .. Len(s) : Append(s, a)[k] = s[k]
      /\ Append(s, a)[Len(s) + 1] = a
  OBVIOUS
<1>2. \A k \in 1 .. Len(s) + 1 : k \in 1 .. Len(s) \/ k = Len(s) + 1
  BY <1>1
<1>3. Len(s) + 1 \in 1 .. Len(s) + 1 /\ \A k \in 1 .. Len(s) : k \in 1 .. Len(s) + 1
  BY <1>1
<1>4. Elements(Append(s, a)) = Elements(s) \cup {a}
  BY <1>1, <1>2, <1>3 DEF Elements
<1>5. ASSUME Injective(s), a \notin Elements(s)
      PROVE  Injective(Append(s, a))
  BY <1>1, <1>2, <1>5 DEF Injective, Elements
<1> QED BY <1>1, <1>4, <1>5

LEMMA Interval ==
  ASSUME NEW n \in Nat
  PROVE  IsFiniteSet(1 .. n) /\ Cardinality(1 .. n) = n
<1>1. 1 \in Int /\ n \in Int
  OBVIOUS
<1>2. Cardinality(1 .. n) = IF 1 > n THEN 0 ELSE n - 1 + 1
  BY <1>1, FS_Interval
<1> QED BY <1>1, <1>2, FS_Interval

Kept(s, gone) == {k \in DOMAIN s : s[k] \notin gone}
Enumerates(f, n, K) == /\ f \in [1 .. n -> K]
                       /\ \A i, j \in 1 .. n : i < j => f[i] < f[j]
                       /\ \A k \in K : \E i \in 1 .. n : f[i] = k

(* erase(remove_if(...)) lists the places it keeps, all and in their order.  *)
LEMMA RemovedEnumerates ==
  ASSUME NEW S, NEW s \in Seq(S), NEW gone, NEW rest \in Removed(s, gone)
  PROVE  \E n \in Nat : \E f :
           /\ n = Cardinality(Kept(s, gone)) /\ n <= Len(s)
           /\ Enumerates(f, n, Kept(s, gone))
           /\ rest = [i \in 1 .. n |-> s[f[i]]]
<1> DEFINE kept == Kept(s, gone)
           n == Cardinality(kept)
<1>1. PICK f \in [1 .. n -> kept] : /\ \A i, j \in DOMAIN f : i < j => f[i] < f[j]
                                    /\ rest = [k \in DOMAIN f |-> s[f[k]]]
  BY DEF Removed, Kept
<1>2. Len(s) \in Nat /\ kept \subseteq 1 .. Len(s)
  BY DEF Kept
<1> HIDE DEF kept
<1>3. IsFiniteSet(1 .. Len(s)) /\ Cardinality(1 .. Len(s)) = Len(s)
  BY <1>2, Interval
<1>4. IsFiniteSet(kept) /\ n \in Nat /\ n <= Len(s)
  <2>1. kept \in SUBSET (1 .. Len(s))
    BY <1>2
  <2>2. IsFiniteSet(kept) /\ Cardinality(kept) <= Cardinality(1 .. Len(s))
    BY <2>1, <1>3, FS_Subset
  <2>3. Cardinality(kept) \in Nat
    BY <2>2, FS_CardinalityType
  <2> QED BY <1>3, <2>2, <2>3
<1> HIDE DEF n
<1>5. IsFiniteSet(1 .. n) /\ Cardinality(1 .. n) = n
  BY <1>4, Interval
<1>6. \A i, j \in 1 .. n : f[i] = f[j] => i = j
  <2> SUFFICES ASSUME NEW i \in 1 .. n, NEW j \in 1 .. n, i < j
               PROVE  f[i] < f[j] /\ f[i] \in Nat /\ f[j] \in Nat
    BY <1>4, <1>2
  <2>1. f[i] \in 1 .. Len(s) /\ f[j] \in 1 .. Len(s)
    BY <1>2
  <2> QED BY <1>1, <1>2, <2>1
<1>7. f \in Injection(1 .. n, kept)
  BY <1>1, <1>6 DEF Injection, IsInjective
<1>8. f \in Surjection(1 .. n, kept)
  BY <1>4, <1>5, <1>7, FS_Injection DEF n
<1>9. \A k \in kept : \E i \in 1 .. n : f[i] = k
  BY <1>8 DEF Surjection
<1>10. Enumerates(f, n, kept) /\ rest = [i \in 1 .. n |-> s[f[i]]]
  BY <1>1, <1>9 DEF Enumerates
<1> QED BY <1>4, <1>10 DEF n, kept

LEMMA RemovedElements ==
  ASSUME NEW S, NEW s \in Seq(S), NEW gone, NEW rest \in Removed(s, gone)
  PROVE  /\ rest \in Seq(S) /\ Len(rest) <= Len(s)
         /\ Elements(rest) = Elements(s) \ gone
         /\ Injective(s) => Injective(rest)
<1> DEFINE kept == Kept(s, gone)
<1>1. PICK n, f : /\ n \in Nat /\ n <= Len(s) /\ Enumerates(f, n, kept)
                  /\ rest = [i \in 1 .. n |-> s[f[i]]]
  BY RemovedEnumerates
<1>2. /\ f \in [1 .. n -> kept] /\ kept \subseteq DOMAIN s
      /\ \A i, j \in 1 .. n : i < j => f[i] < f[j]
      /\ \A k \in kept : \E i \in 1 .. n : f[i] = k
  BY <1>1 DEF Enumerates, Kept
<1> HIDE DEF kept
<1>3. /\ rest \in Seq(S) /\ Len(rest) = n /\ DOMAIN rest = 1 .. n
      /\ \A k \in 1 .. n : rest[k] = s[f[k]] /\ f[k] \in kept /\ f[k] \in DOMAIN s
  <2>1. \A k \in 1 .. n : f[k] \in kept /\ f[k] \in DOMAIN s /\ s[f[k]] \in S
    BY <1>1, <1>2
  <2>2. n \in Nat /\ rest = [k \in 1 .. n |-> s[f[k]]]
    BY <1>1, <1>2
  <2> QED BY <2>1, <2>2
<1>4. Elements(rest) = Elements(s) \ gone
  <2>1. ASSUME NEW a \in Elements(s) \ gone PROVE a \in Elements(rest)
    <3>1. PICK k \in DOMAIN s : s[k] = a
      BY <2>1 DEF Elements
    <3>2. PICK i \in 1 .. n : f[i] = k
      BY <1>2, <2>1, <3>1 DEF kept, Kept
    <3> QED BY <1>3, <3>1, <3>2 DEF Elements
  <2>2. ASSUME NEW a \in Elements(rest) PROVE a \in Elements(s) \ gone
    <3>1. PICK i \in 1 .. n : s[f[i]] = a /\ f[i] \in kept
      BY <1>3, <2>2 DEF Elements
    <3> QED BY <3>1 DEF Elements, kept, Kept
  <2> QED BY <2>1, <2>2
<1>5. ASSUME Injective(s) PROVE Injective(rest)
  <2> SUFFICES ASSUME NEW i \in 1 .. n, NEW j \in 1 .. n, rest[i] = rest[j] PROVE i = j
    BY <1>3 DEF Injective
  <2>1. f[i] = f[j]
    BY <1>3, <1>5 DEF Injective
  <2>2. \A k \in 1 .. n : k \in Nat /\ f[k] \in Nat
    <3>1. DOMAIN s = 1 .. Len(s) /\ Len(s) \in Nat
      OBVIOUS
    <3>2. n \in Nat /\ \A k \in 1 .. n : f[k] \in 1 .. Len(s)
      BY <1>1, <1>3, <3>1
    <3> QED BY <3>1, <3>2
  <2>3. ~(i < j) /\ ~(j < i)
    BY <1>2, <2>1, <2>2
  <2> QED BY <2>2, <2>3
<1> QED BY <1>1, <1>3, <1>4, <1>5

(* The least element of a set of naturals, without induction: the intervals *)
(* 1 .. n are finite sets, which strict inclusion orders well.              *)
LEMMA LeastElement ==
  ASSUME NEW A \in SUBSET Nat, A # {}
  PROVE  \E n \in A : \A m \in A : n <= m
<1> DEFINE T == {1 .. n : n \in A}
           R == StrictSubsetOrdering(Nat)
<1>1. IsWellFoundedOn(R, FiniteSubsetsOf(Nat))
  BY FS_StrictSubsetOrderingWellFounded
<1>2. T \subseteq FiniteSubsetsOf(Nat) /\ T # {}
  <2>1. \A n \in A : IsFiniteSet(1 .. n) /\ 1 .. n \subseteq Nat
    BY FS_Interval
  <2> QED BY <2>1 DEF FiniteSubsetsOf
<1>3. \E x \in T : \A y \in T : <<y, x>> \notin R
  <2> HIDE DEF T, R
  <2> QED BY <1>1, <1>2, WFMin
<1>4. PICK n \in A : \A m \in A : <<1 .. m, 1 .. n>> \notin R
  BY <1>3
<1>5. ASSUME NEW m \in A, m < n PROVE FALSE
  <2>1. /\ 1 .. m \subseteq 1 .. n /\ n \in 1 .. n /\ n \notin 1 .. m
        /\ 1 .. m \subseteq Nat /\ 1 .. n \subseteq Nat
    BY <1>5
  <2> QED BY <1>4, <2>1 DEF StrictSubsetOrdering
<1> QED BY <1>5

LEMMA GreatestElement ==
  ASSUME NEW A \in SUBSET Nat, A # {}, NEW b \in Nat, \A n \in A : n <= b
  PROVE  \E n \in A : \A m \in A : m <= n
<1> DEFINE B == {b - n : n \in A}
<1>1. B \in SUBSET Nat /\ B # {}
  <2>1. \A n \in A : b - n \in Nat
    OBVIOUS
  <2> QED BY <2>1
<1>2. \E x \in B : \A y \in B : x <= y
  <2> HIDE DEF B
  <2> QED BY <1>1, LeastElement
<1>3. PICK n \in A : \A m \in A : b - n <= b - m
  BY <1>2
<1> QED BY <1>3

(* A set of naturals is enumerated in increasing order in one way only.     *)
LEMMA IncreasingUnique ==
  ASSUME NEW n \in Nat, NEW K, \A k \in K : k \in Nat,
         NEW f, Enumerates(f, n, K), NEW g, Enumerates(g, n, K)
  PROVE  \A i \in 1 .. n : f[i] = g[i]
<1> USE DEF Enumerates
<1> DEFINE A == {i \in 1 .. n : f[i] # g[i]}
<1> SUFFICES ASSUME A # {} PROVE FALSE
  OBVIOUS
<1>1. A \in SUBSET Nat
  OBVIOUS
<1>2. \E i \in A : \A j \in A : i <= j
  <2> HIDE DEF A
  <2> QED BY <1>1, LeastElement
<1>3. PICK i \in 1 .. n : f[i] # g[i] /\ \A j \in 1 .. n : f[j] # g[j] => i <= j
  BY <1>2
<1>4. \A j \in 1 .. n : j \in Nat /\ f[j] \in Nat /\ g[j] \in Nat /\ f[j] \in K /\ g[j] \in K
  <2>1. f \in [1 .. n -> K] /\ g \in [1 .. n -> K]
    OBVIOUS
  <2>2. \A j \in 1 .. n : f[j] \in K /\ g[j] \in K
    BY <2>1
  <2> HIDE DEF Enumerates
  <2>3. \A j \in 1 .. n : j \in Nat
    OBVIOUS
  <2> QED BY <2>2, <2>3
<1>5. PICK j \in 1 .. n : g[j] = f[i]
  BY <1>4
<1>6. PICK k \in 1 .. n : f[k] = g[i]
  BY <1>4
<1>7. CASE f[i] < g[i]
  <2>1. j < i
    <3>1. g[j] < g[i] /\ g[j] # g[i]
      BY <1>4, <1>5, <1>7
    <3>2. ~(i < j)
      BY <1>4, <3>1
    <3> QED BY <1>4, <3>1, <3>2
  <2>2. f[j] = g[j]
    BY <1>3, <1>4, <2>1
  <2>3. f[j] < f[i]
    BY <2>1
  <2> QED BY <1>4, <1>5, <2>2, <2>3
<1>8. CASE g[i] < f[i]
  <2>1. k < i
    <3>1. f[k] < f[i] /\ f[k] # f[i]
      BY <1>4, <1>6, <1>8
    <3>2. ~(i < k)
      BY <1>4, <3>1
    <3> QED BY <1>4, <3>1, <3>2
  <2>2. f[k] = g[k]
    BY <1>3, <1>4, <2>1
  <2>3. g[k] < g[i]
    BY <2>1
  <2> QED BY <1>4, <1>6, <2>2, <2>3
<1> QED BY <1>3, <1>4, <1>7, <1>8

(* What is left when the element at one place goes.                         *)
LEMMA RemovedOne ==
  ASSUME NEW S, NEW s \in Seq(S), Injective(s), NEW m \in DOMAIN s,
         NEW rest \in Removed(s, {s[m]})
  PROVE  /\ DOMAIN rest = 1 .. Len(s) - 1
         /\ \A i \in 1 .. Len(s) - 1 : rest[i] = IF i < m THEN s[i] ELSE s[i + 1]
<1> DEFINE gone == {s[m]}
           kept == Kept(s, gone)
           N == Len(s)
<1>1. PICK n, f : /\ n \in Nat /\ n = Cardinality(kept) /\ Enumerates(f, n, kept)
                  /\ rest = [i \in 1 .. n |-> s[f[i]]]
  BY RemovedEnumerates
<1>2. N \in Nat /\ DOMAIN s = 1 .. N /\ m \in 1 .. N
  OBVIOUS
<1>3. kept = (1 .. N) \ {m}
  BY <1>2 DEF Injective, Kept
<1> HIDE DEF N, kept, gone
<1>4. n = N - 1
  <2>1. IsFiniteSet(1 .. N) /\ Cardinality(1 .. N) = N
    BY <1>2, Interval
  <2>2. Cardinality((1 .. N) \ {m}) = Cardinality(1 .. N) - 1
    BY <1>2, <2>1, FS_RemoveElement
  <2> QED BY <1>1, <1>3, <2>1, <2>2
<1>5. /\ f \in [1 .. n -> kept]
      /\ \A i, j \in 1 .. n : i < j => f[i] < f[j]
      /\ \A k \in kept : \E i \in 1 .. n : f[i] = k
  BY <1>1 DEF Enumerates
<1> DEFINE g == [i \in 1 .. n |-> IF i < m THEN i ELSE i + 1]
<1>6. g \in [1 .. n -> kept]
  BY <1>2, <1>3, <1>4
<1>7. \A i, j \in 1 .. n : i < j => g[i] < g[j]
  BY <1>2, <1>4
<1>8. \A k \in kept : \E i \in 1 .. n : g[i] = k
  <2> SUFFICES ASSUME NEW k \in 1 .. N, k # m PROVE \E i \in 1 .. n : g[i] = k
    BY <1>3
  <2>1. CASE k < m
    BY <1>2, <1>4, <2>1
  <2>2. CASE k > m
    <3>1. k - 1 \in 1 .. n /\ ~(k - 1 < m) /\ k - 1 + 1 = k
      BY <1>2, <1>4, <2>2
    <3> QED BY <3>1
  <2> QED BY <1>2, <2>1, <2>2
<1> HIDE DEF g
<1>9. \A i \in 1 .. n : f[i] = g[i]
  <2>1. \A k \in kept : k \in Nat
    BY <1>2, <1>3
  <2>2. Enumerates(g, n, kept)
    BY <1>6, <1>7, <1>8 DEF Enumerates
  <2>3. n \in Nat /\ Enumerates(f, n, kept)
    BY <1>1
  <2> QED BY <2>1, <2>2, <2>3, IncreasingUnique
<1> QED BY <1>1, <1>4, <1>9 DEF g, N

-----------------------------------------------------------------------------
(* What the operations make of one object.                                 *)

LEMMA ObjectFields ==
  ASSUME NEW o \in Objects
  PROVE  /\ o.tables \in Seq(Addr) /\ Elements(o.tables) \subseteq Addr
         /\ o.index \in PartialFunctions(Names, Ids)
         /\ o.tableIndex \in PartialFunctions(Ids, Addr)
         /\ o.nextTableId \in 0 .. MaxId
BY DEF Objects, Elements

LEMMA EmptyAgrees ==
  /\ Empty \in Objects /\ Len(Empty.tables) = 0 /\ Elements(Empty.tables) = {}
  /\ \A h : Agrees(Empty, h)
  /\ \A h, d, S : Settled(Empty, h, d, S)
<1>1. /\ DOMAIN <<>> = {} /\ Len(<<>>) = 0 /\ <<>> \in Seq(Addr)
      /\ <<>> \in PartialFunctions(Names, Ids) /\ <<>> \in PartialFunctions(Ids, Addr)
  <2>1. DOMAIN <<>> = {} /\ <<>> \in Seq(Addr) /\ Len(<<>>) = 0
    OBVIOUS
  <2>2. \A T : <<>> \in [{} -> T]
    OBVIOUS
  <2>3. \A S, T : <<>> \in PartialFunctions(S, T)
    BY <2>2 DEF PartialFunctions
  <2> QED BY <2>1, <2>3
<1>2. 0 \in 0 .. MaxId
  BY DatabaseAssumption
<1>3. Empty \in Objects /\ Len(Empty.tables) = 0 /\ Elements(Empty.tables) = {}
  BY <1>1, <1>2 DEF Empty, Objects, Elements
<1>4. Injective(Empty.tables) /\ \A h : Agrees(Empty, h)
  BY <1>1 DEF Agrees, Empty, Elements, Injective
<1>5. \A h, d, S : Settled(Empty, h, d, S)
  BY <1>4 DEF Settled
<1> QED BY <1>3, <1>4, <1>5

(* Agreement is about the names and ids of the object's own Tables.         *)
LEMMA AgreesKept ==
  ASSUME NEW o, NEW h, NEW g, Agrees(o, h),
         \A a \in Elements(o.tables) : g[a].name = h[a].name /\ g[a].id = h[a].id
  PROVE  Agrees(o, g)
<1>1. /\ {h[a].name : a \in Elements(o.tables)} = {g[a].name : a \in Elements(o.tables)}
      /\ {h[a].id : a \in Elements(o.tables)} = {g[a].id : a \in Elements(o.tables)}
  OBVIOUS
<1> QED BY <1>1 DEF Agrees

LEMMA SettledKept ==
  ASSUME NEW o, NEW h, NEW g, NEW d, NEW S, NEW T, Settled(o, h, d, S), d \in S => d \in T,
         \A a \in Elements(o.tables) : g[a].name = h[a].name /\ g[a].id = h[a].id
  PROVE  Settled(o, g, d, T)
BY AgreesKept DEF Settled

(* The object that createTable() makes of o.                                *)
Created(o, n, a) ==
  [tables |-> Append(o.tables, a),
   index |-> Extend(o.index, n, o.nextTableId),
   tableIndex |-> Extend(o.tableIndex, o.nextTableId, a),
   nextTableId |-> o.nextTableId + 1]

LEMMA CreatedUpdates ==
  ASSUME NEW o \in Objects, NEW n, NEW a, NEW q,
         q = [o EXCEPT !.tables = Append(@, a),
                       !.index = Extend(@, n, o.nextTableId),
                       !.tableIndex = Extend(@, o.nextTableId, a),
                       !.nextTableId = @ + 1]
  PROVE  q = Created(o, n, a)
<1>1. /\ q.tables = Append(o.tables, a) /\ q.index = Extend(o.index, n, o.nextTableId)
      /\ q.tableIndex = Extend(o.tableIndex, o.nextTableId, a)
      /\ q.nextTableId = o.nextTableId + 1
  BY DEF Objects
<1>2. q = [tables |-> q.tables, index |-> q.index,
           tableIndex |-> q.tableIndex, nextTableId |-> q.nextTableId]
  BY DEF Objects
<1> QED BY <1>1, <1>2 DEF Created

LEMMA SettledCreate ==
  ASSUME NEW o \in Objects, NEW h, NEW g, NEW d, NEW drifting, Settled(o, h, d, drifting),
         NEW n \in Names, n \notin DOMAIN o.index, o.nextTableId < MaxId,
         NEW a \in Addr, a \notin Elements(o.tables),
         g[a].name = n, g[a].id = o.nextTableId,
         \A b \in Elements(o.tables) : g[b] = h[b],
         NEW p, p = Created(o, n, a)
  PROVE  /\ p \in Objects /\ Settled(p, g, d, drifting)
         /\ Len(p.tables) = Len(o.tables) + 1
         /\ Elements(p.tables) = Elements(o.tables) \cup {a}
<1> DEFINE tid == o.nextTableId
<1>1. /\ o.tables \in Seq(Addr)
      /\ o.index \in PartialFunctions(Names, Ids)
      /\ o.tableIndex \in PartialFunctions(Ids, Addr)
      /\ tid \in 0 .. MaxId
  BY ObjectFields
<1>2. tid \in Ids /\ tid + 1 \in 0 .. MaxId /\ tid < tid + 1
  BY <1>1, DatabaseAssumption DEF Ids
<1>3. /\ p.tables = Append(o.tables, a) /\ p.index = Extend(o.index, n, tid)
      /\ p.tableIndex = Extend(o.tableIndex, tid, a) /\ p.nextTableId = tid + 1
      /\ p = [tables |-> p.tables, index |-> p.index,
              tableIndex |-> p.tableIndex, nextTableId |-> p.nextTableId]
  BY DEF Created
<1> HIDE DEF tid
<1>4. /\ Append(o.tables, a) \in Seq(Addr) /\ Len(Append(o.tables, a)) = Len(o.tables) + 1
      /\ Elements(Append(o.tables, a)) = Elements(o.tables) \cup {a}
      /\ Injective(o.tables) /\ a \notin Elements(o.tables) => Injective(Append(o.tables, a))
  BY <1>1, AppendElements
<1>5. /\ p.index \in PartialFunctions(Names, Ids)
      /\ DOMAIN p.index = DOMAIN o.index \cup {n}
      /\ p.index[n] = tid
      /\ \A x \in DOMAIN o.index : x # n => p.index[x] = o.index[x]
  <2> DEFINE E == Extend(o.index, n, tid)
  <2>1. /\ E \in PartialFunctions(Names, Ids)
        /\ DOMAIN E = DOMAIN o.index \cup {n} /\ E[n] = tid
        /\ \A x \in DOMAIN o.index : x # n => E[x] = o.index[x]
    <3>1. E \in PartialFunctions(Names, Ids)
      BY <1>1, <1>2, ExtendType
    <3> QED BY <3>1 DEF Extend
  <2> HIDE DEF E
  <2>2. p.index = E
    BY <1>3 DEF E
  <2> QED BY <2>1, <2>2
<1>6. /\ p.tableIndex \in PartialFunctions(Ids, Addr)
      /\ DOMAIN p.tableIndex = DOMAIN o.tableIndex \cup {tid}
      /\ p.tableIndex[tid] = a
      /\ \A x \in DOMAIN o.tableIndex : x # tid => p.tableIndex[x] = o.tableIndex[x]
  <2> DEFINE E == Extend(o.tableIndex, tid, a)
  <2>1. /\ E \in PartialFunctions(Ids, Addr)
        /\ DOMAIN E = DOMAIN o.tableIndex \cup {tid} /\ E[tid] = a
        /\ \A x \in DOMAIN o.tableIndex : x # tid => E[x] = o.tableIndex[x]
    <3>1. E \in PartialFunctions(Ids, Addr)
      BY <1>1, <1>2, ExtendType
    <3> QED BY <3>1 DEF Extend
  <2> HIDE DEF E
  <2>2. p.tableIndex = E
    BY <1>3 DEF E
  <2> QED BY <2>1, <2>2
<1>7. p \in Objects
  BY <1>2, <1>3, <1>4, <1>5, <1>6 DEF Objects
<1>8. g[a].name = n /\ g[a].id = tid /\ p.nextTableId = tid + 1
  BY <1>3 DEF tid
<1>9. ASSUME Agrees(o, h)
      PROVE  \A b \in Elements(o.tables) :
               /\ g[b] = h[b] /\ h[b].name \in DOMAIN o.index /\ h[b].id \in DOMAIN o.tableIndex
               /\ h[b].name # n /\ h[b].id < tid /\ h[b].id # tid /\ h[b].id < tid + 1
               /\ o.index[h[b].name] = h[b].id /\ o.tableIndex[h[b].id] = b
  <2> SUFFICES ASSUME NEW b \in Elements(o.tables)
               PROVE  /\ g[b] = h[b] /\ h[b].name \in DOMAIN o.index /\ h[b].id \in DOMAIN o.tableIndex
                      /\ h[b].name # n /\ h[b].id < tid /\ h[b].id # tid /\ h[b].id < tid + 1
                      /\ o.index[h[b].name] = h[b].id /\ o.tableIndex[h[b].id] = b
    OBVIOUS
  <2>1. /\ g[b] = h[b] /\ h[b].name \in DOMAIN o.index /\ h[b].id \in DOMAIN o.tableIndex
        /\ o.index[h[b].name] = h[b].id /\ o.tableIndex[h[b].id] = b /\ h[b].id < tid
    BY <1>9 DEF Agrees, tid
  <2>2. h[b].id \in 0 .. MaxId
    BY <2>1, <1>1, PartialFunction DEF Ids
  <2>3. h[b].id # tid /\ h[b].id < tid + 1
    BY <2>1, <2>2, <1>1
  <2> QED BY <2>1, <2>3
<1>10. ASSUME Agrees(o, h)
       PROVE  Agrees(p, g)
  <2>1. Injective(p.tables) /\ Elements(p.tables) = Elements(o.tables) \cup {a}
    BY <1>3, <1>4, <1>10 DEF Agrees
  <2>2. /\ DOMAIN o.index = {h[b].name : b \in Elements(o.tables)}
        /\ DOMAIN o.tableIndex = {h[b].id : b \in Elements(o.tables)}
    BY <1>10 DEF Agrees
  <2>3. DOMAIN p.index = {g[b].name : b \in Elements(p.tables)}
    <3>1. {g[b].name : b \in Elements(o.tables)} = {h[b].name : b \in Elements(o.tables)}
      BY <1>9, <1>10
    <3>2. {g[b].name : b \in Elements(o.tables) \cup {a}}
            = {g[b].name : b \in Elements(o.tables)} \cup {g[a].name}
      OBVIOUS
    <3> QED BY <1>5, <1>8, <2>1, <2>2, <3>1, <3>2
  <2>4. DOMAIN p.tableIndex = {g[b].id : b \in Elements(p.tables)}
    <3>1. {g[b].id : b \in Elements(o.tables)} = {h[b].id : b \in Elements(o.tables)}
      BY <1>9, <1>10
    <3>2. {g[b].id : b \in Elements(o.tables) \cup {a}}
            = {g[b].id : b \in Elements(o.tables)} \cup {g[a].id}
      OBVIOUS
    <3> QED BY <1>6, <1>8, <2>1, <2>2, <3>1, <3>2
  <2>5. \A b \in Elements(p.tables) : /\ p.index[g[b].name] = g[b].id
                                      /\ p.tableIndex[g[b].id] = b
                                      /\ g[b].id < p.nextTableId
    BY <1>2, <1>5, <1>6, <1>8, <1>9, <1>10, <2>1
  <2> QED BY <2>1, <2>3, <2>4, <2>5 DEF Agrees
<1>11. Settled(p, g, d, drifting)
  <2>1. Injective(p.tables)
    BY <1>3, <1>4 DEF Settled
  <2> QED BY <1>10, <2>1 DEF Settled
<1> QED BY <1>3, <1>4, <1>7, <1>11

(* The Tables of o with the id i: for one that dropTable() looked up, one.  *)
WithId(o, h, i) == {a \in Elements(o.tables) : h[a].id = i}

LEMMA DropsOne ==
  ASSUME NEW o, NEW h, Agrees(o, h), NEW n \in DOMAIN o.index
  PROVE  \E a \in Elements(o.tables) :
           /\ h[a].name = n /\ h[a].id = o.index[n]
           /\ WithId(o, h, o.index[n]) = {a}
<1>1. PICK a \in Elements(o.tables) : h[a].name = n
  BY DEF Agrees
<1>2. h[a].id = o.index[n]
  BY <1>1 DEF Agrees
<1>3. \A b \in Elements(o.tables) : h[b].id = h[a].id => b = a
  BY DEF Agrees
<1> QED BY <1>1, <1>2, <1>3 DEF WithId

(* The object that dropTable() makes of o.                                  *)
Dropped(o, n, rest) ==
  [tables |-> rest,
   index |-> Erase(o.index, {n}),
   tableIndex |-> Erase(o.tableIndex, {o.index[n]}),
   nextTableId |-> o.nextTableId]

LEMMA DroppedUpdates ==
  ASSUME NEW o \in Objects, NEW n, NEW rest, NEW q,
         q = [o EXCEPT !.tables = rest,
                       !.index = Erase(@, {n}),
                       !.tableIndex = Erase(@, {o.index[n]})]
  PROVE  q = Dropped(o, n, rest)
<1>1. /\ q.tables = rest /\ q.index = Erase(o.index, {n})
      /\ q.tableIndex = Erase(o.tableIndex, {o.index[n]})
      /\ q.nextTableId = o.nextTableId
  BY DEF Objects
<1>2. q = [tables |-> q.tables, index |-> q.index,
           tableIndex |-> q.tableIndex, nextTableId |-> q.nextTableId]
  BY DEF Objects
<1> QED BY <1>1, <1>2 DEF Dropped

LEMMA SettledDrop ==
  ASSUME NEW o \in Objects, NEW h, NEW g, NEW d, NEW drifting, Settled(o, h, d, drifting),
         NEW n \in DOMAIN o.index,
         NEW rest \in Removed(o.tables, WithId(o, h, o.index[n])),
         \A b \in Elements(o.tables) \ WithId(o, h, o.index[n]) : g[b] = h[b]
  PROVE  Dropped(o, n, rest) \in Objects /\ Settled(Dropped(o, n, rest), g, d, drifting)
<1> DEFINE gone == WithId(o, h, o.index[n])
           p == Dropped(o, n, rest)
           own == Elements(o.tables)
           tid == o.index[n]
<1>1. /\ o.tables \in Seq(Addr)
      /\ o.index \in PartialFunctions(Names, Ids)
      /\ o.tableIndex \in PartialFunctions(Ids, Addr)
      /\ o.nextTableId \in 0 .. MaxId
  BY ObjectFields
<1>2. /\ p.tables = rest /\ p.index = Erase(o.index, {n})
      /\ p.tableIndex = Erase(o.tableIndex, {tid}) /\ p.nextTableId = o.nextTableId
      /\ p = [tables |-> p.tables, index |-> p.index,
              tableIndex |-> p.tableIndex, nextTableId |-> p.nextTableId]
  BY DEF Dropped
<1> HIDE DEF tid, own, p
<1>4. /\ rest \in Seq(Addr) /\ Len(rest) <= Len(o.tables)
      /\ Elements(rest) = own \ gone
      /\ Injective(o.tables) => Injective(rest)
  BY <1>1, RemovedElements DEF own
<1> HIDE DEF gone
<1>5. p.index \in PartialFunctions(Names, Ids) /\ p.tableIndex \in PartialFunctions(Ids, Addr)
  <2>1. Erase(o.index, {n}) \in PartialFunctions(Names, Ids)
    BY <1>1, EraseType
  <2>2. Erase(o.tableIndex, {tid}) \in PartialFunctions(Ids, Addr)
    BY <1>1, EraseType
  <2> QED BY <1>2, <2>1, <2>2
<1>6. p \in Objects
  BY <1>1, <1>2, <1>4, <1>5 DEF Objects
<1>7. /\ DOMAIN p.index = DOMAIN o.index \ {n}
      /\ \A x \in DOMAIN p.index : p.index[x] = o.index[x]
      /\ DOMAIN p.tableIndex = DOMAIN o.tableIndex \ {tid}
      /\ \A x \in DOMAIN p.tableIndex : p.tableIndex[x] = o.tableIndex[x]
  BY <1>2 DEF Erase
<1>8. SUFFICES ASSUME Agrees(o, h) PROVE Agrees(p, g)
  <2>1. Injective(p.tables)
    BY <1>2, <1>4 DEF Settled
  <2> QED BY <1>6, <1>8, <2>1 DEF Settled, p
<1>3. PICK a \in own : h[a].name = n /\ h[a].id = tid /\ gone = {a}
  BY <1>8, DropsOne DEF own, tid, gone
<1>11. /\ Injective(o.tables)
      /\ DOMAIN o.index = {h[b].name : b \in own}
      /\ DOMAIN o.tableIndex = {h[b].id : b \in own}
      /\ \A b \in own : /\ o.index[h[b].name] = h[b].id
                        /\ o.tableIndex[h[b].id] = b
                        /\ h[b].id < o.nextTableId
  BY <1>8 DEF Agrees, own
<1>9. \A b \in own \ {a} : /\ g[b] = h[b] /\ h[b].name # n /\ h[b].id # tid
                           /\ h[b].name \in DOMAIN p.index /\ h[b].id \in DOMAIN p.tableIndex
  <2>1. \A b \in own : h[b].name = n => h[b].id = tid
    BY <1>11 DEF tid
  <2>2. \A b \in own : h[b].id = tid => b = a
    BY <1>3 DEF own, WithId, gone, tid
  <2>3. \A b \in own \ {a} : g[b] = h[b]
    BY <1>3 DEF own, gone, tid
  <2> QED BY <1>7, <1>11, <2>1, <2>2, <2>3
<1>10. Agrees(p, g)
  <2>1. Injective(p.tables) /\ Elements(p.tables) = own \ {a}
    BY <1>2, <1>3, <1>4, <1>11
  <2>2. DOMAIN p.index = {g[b].name : b \in own \ {a}}
    <3>1. \A x \in DOMAIN p.index : \E b \in own \ {a} : g[b].name = x
      BY <1>3, <1>7, <1>11, <1>9
    <3> QED BY <1>9, <3>1
  <2>3. DOMAIN p.tableIndex = {g[b].id : b \in own \ {a}}
    <3>1. \A x \in DOMAIN p.tableIndex : \E b \in own \ {a} : g[b].id = x
      BY <1>3, <1>7, <1>11, <1>9
    <3> QED BY <1>9, <3>1
  <2>4. \A b \in own \ {a} : /\ p.index[g[b].name] = g[b].id
                             /\ p.tableIndex[g[b].id] = b
                             /\ g[b].id < p.nextTableId
    <3> SUFFICES ASSUME NEW b \in own \ {a}
                 PROVE  /\ p.index[h[b].name] = h[b].id
                        /\ p.tableIndex[h[b].id] = b
                        /\ h[b].id < p.nextTableId
      BY <1>9
    <3>1. h[b].name \in DOMAIN p.index /\ h[b].id \in DOMAIN p.tableIndex
      BY <1>9
    <3>2. /\ o.index[h[b].name] = h[b].id /\ o.tableIndex[h[b].id] = b
          /\ h[b].id < o.nextTableId
      BY <1>11
    <3>3. p.index[h[b].name] = h[b].id
      BY <1>7, <3>1, <3>2
    <3>4. p.tableIndex[h[b].id] = b
      BY <1>7, <3>1, <3>2
    <3> QED BY <1>2, <3>2, <3>3, <3>4
  <2> QED BY <2>1, <2>2, <2>3, <2>4 DEF Agrees
<1> QED BY <1>10

-----------------------------------------------------------------------------
(* new, and what a load builds.                                             *)

LEMMA FreshAddresses ==
  ASSUME NEW n \in Nat, NEW f \in Fresh(n)
  PROVE  /\ f \in [1 .. n -> Addr] /\ f \in Seq(Addr) /\ Len(f) = n /\ DOMAIN f = 1 .. n
         /\ Injective(f)
         /\ Elements(f) \subseteq Addr \ DOMAIN heap
<1>1. f \in [1 .. n -> Addr \ DOMAIN heap] /\ \A i, j \in 1 .. n : i < j => f[i] < f[j]
  BY DEF Fresh, Free
<1>2. f \in Seq(Addr) /\ Len(f) = n /\ DOMAIN f = 1 .. n
  BY <1>1
<1>3. Injective(f)
  <2>1. \A i \in 1 .. n : f[i] \in Nat
    BY <1>1, DatabaseAssumption DEF Addr
  <2>2. \A i, j \in 1 .. n : i < j \/ j < i \/ i = j
    OBVIOUS
  <2>3. ASSUME NEW i \in 1 .. n, NEW j \in 1 .. n, i < j PROVE f[i] # f[j]
    BY <1>1, <2>1, <2>3
  <2> QED BY <1>2, <2>2, <2>3 DEF Injective
<1> QED BY <1>1, <1>2, <1>3 DEF Elements

LEMMA Withs ==
  ASSUME NEW n \in Nat, NEW f \in Fresh(n), NEW ts, NEW k \in 1 .. n
  PROVE  With(heap, f, ts)[f[k]] = ts[k]
<1>1. /\ DOMAIN f = 1 .. n /\ Injective(f) /\ f[k] \notin DOMAIN heap
      /\ f[k] \in Elements(f)
  BY FreshAddresses DEF Elements
<1>2. (CHOOSE i \in DOMAIN f : f[i] = f[k]) = k
  BY <1>1 DEF Injective
<1> QED BY <1>1, <1>2 DEF With

LEMMA TopIdBounds ==
  ASSUME NEW ts \in Seq(TableObject), ts # <<>>
  PROVE  /\ TopId(ts) + 1 \in 0 .. MaxId
         /\ \A k \in DOMAIN ts : ts[k].id < TopId(ts) + 1
<1> DEFINE ids == {ts[k].id : k \in DOMAIN ts}
           A == {0} \cup ids
<1>1. /\ Len(ts) \in Nat /\ DOMAIN ts = 1 .. Len(ts) /\ 1 \in DOMAIN ts
      /\ \A k \in DOMAIN ts : ts[k] \in TableObject
  <2>1. Len(ts) # 0
    OBVIOUS
  <2> QED BY <2>1
<1>2. \A k \in DOMAIN ts : ts[k].id \in 0 .. MaxId /\ ts[k].id < MaxId
  BY <1>1 DEF TableObject, Ids
<1>3. MaxId \in Nat /\ 0 < MaxId
  BY <1>1, <1>2, DatabaseAssumption
<1>4. A \in SUBSET Nat /\ A # {} /\ \A x \in A : x <= MaxId /\ x < MaxId
  BY <1>2, <1>3
<1>5. \E x \in A : \A y \in A : y <= x
  <2> HIDE DEF A
  <2> QED BY <1>3, <1>4, GreatestElement
<1>6. \E x \in A : \A k \in DOMAIN ts : ts[k].id <= x
  BY <1>5
<1>7. TopId(ts) \in A /\ \A k \in DOMAIN ts : ts[k].id <= TopId(ts)
  BY <1>6 DEF TopId
<1>8. TopId(ts) \in Nat /\ TopId(ts) < MaxId
  <2> HIDE DEF A
  <2> QED BY <1>4, <1>7
<1> HIDE DEF A, ids
<1> QED BY <1>2, <1>3, <1>7, <1>8

Holds(h, f, ts) == \A k \in DOMAIN ts : h[f[k]] = ts[k]

(* An object that load() makes of a list: adrift if it has duplicates.      *)
LEMMA SettledLoaded ==
  ASSUME NEW ts \in Seq(TableObject), NEW d, NEW drifting, d \notin drifting => Distinct(ts),
         NEW f \in Seq(Addr), Len(f) = Len(ts), Injective(f),
         NEW g, Holds(g, f, ts), NEW p \in Loaded(ts, f)
  PROVE  /\ p \in Objects /\ Settled(p, g, d, drifting)
         /\ p.tables = f
<1>1. /\ Len(ts) \in Nat /\ DOMAIN ts = 1 .. Len(ts) /\ DOMAIN f = DOMAIN ts
      /\ \A k \in DOMAIN ts : ts[k] \in TableObject /\ f[k] \in Addr
  OBVIOUS
<1>2. \A k \in DOMAIN ts : ts[k].name \in Names /\ ts[k].id \in Ids
  BY <1>1 DEF TableObject
<1> DEFINE names == {t.name : t \in Elements(ts)}
           ids == {t.id : t \in Elements(ts)}
<1>3. /\ p.tables = f
      /\ p.index \in [names -> ids]
      /\ \A n \in names : \E t \in Elements(ts) : t.name = n /\ p.index[n] = t.id
      /\ p.tableIndex \in [ids -> Elements(f)]
      /\ \A i \in ids : \E k \in DOMAIN f : ts[k].id = i /\ p.tableIndex[i] = f[k]
      /\ p.nextTableId = IF f = <<>> THEN 0 ELSE TopId(ts) + 1
      /\ p = [tables |-> p.tables, index |-> p.index,
              tableIndex |-> p.tableIndex, nextTableId |-> p.nextTableId]
  <2> DEFINE top == IF f = <<>> THEN 0 ELSE TopId(ts) + 1
  <2>2. PICK ix \in IdsInserted(ts), tx \in TablesInserted(ts, f) :
          p = [tables |-> f, index |-> ix, tableIndex |-> tx, nextTableId |-> top]
    BY DEF Loaded
  <2>3. /\ ix \in [names -> ids]
        /\ \A n \in DOMAIN ix : \E t \in Elements(ts) : t.name = n /\ ix[n] = t.id
    BY <2>2 DEF IdsInserted
  <2>4. /\ tx \in [ids -> Elements(f)]
        /\ \A i \in DOMAIN tx : \E k \in DOMAIN f : ts[k].id = i /\ tx[i] = f[k]
    BY <2>2 DEF TablesInserted
  <2> HIDE DEF names, ids
  <2> QED BY <2>2, <2>3, <2>4 DEF top
<1>4. /\ DOMAIN p.index = {ts[k].name : k \in DOMAIN ts}
      /\ DOMAIN p.tableIndex = {ts[k].id : k \in DOMAIN ts}
      /\ names \subseteq Names /\ ids \subseteq Ids /\ Elements(f) \subseteq Addr
      /\ \A k \in DOMAIN ts : ts[k].name \in names /\ ts[k].id \in ids
  <2>1. names = {ts[k].name : k \in DOMAIN ts} /\ ids = {ts[k].id : k \in DOMAIN ts}
    BY DEF Elements
  <2>2. Elements(f) \subseteq Addr
    BY <1>1 DEF Elements
  <2> HIDE DEF names, ids
  <2>3. DOMAIN p.index = names /\ DOMAIN p.tableIndex = ids
    BY <1>3
  <2> QED BY <1>2, <2>1, <2>2, <2>3
<1> HIDE DEF names, ids
<1>5. ASSUME Distinct(ts) PROVE \A k \in DOMAIN ts : p.index[ts[k].name] = ts[k].id
  <2> SUFFICES ASSUME NEW k \in DOMAIN ts PROVE p.index[ts[k].name] = ts[k].id
    OBVIOUS
  <2>1. PICK t \in Elements(ts) : t.name = ts[k].name /\ p.index[ts[k].name] = t.id
    BY <1>3, <1>4
  <2>2. t = ts[k]
    BY <1>5, <2>1 DEF Elements, Distinct
  <2> QED BY <2>1, <2>2
<1>6. ASSUME Distinct(ts) PROVE \A k \in DOMAIN ts : p.tableIndex[ts[k].id] = f[k]
  <2> SUFFICES ASSUME NEW k \in DOMAIN ts PROVE p.tableIndex[ts[k].id] = f[k]
    OBVIOUS
  <2>1. PICK j \in DOMAIN f : ts[j].id = ts[k].id /\ p.tableIndex[ts[k].id] = f[j]
    BY <1>3, <1>4
  <2>2. j = k
    BY <1>1, <1>6, <2>1 DEF Distinct
  <2> QED BY <2>1, <2>2
<1>7. p.index \in PartialFunctions(Names, Ids)
  <2>1. p.index \in [names -> Ids]
    BY <1>3, <1>4
  <2> QED BY <1>4, <2>1 DEF PartialFunctions
<1>8. p.tableIndex \in PartialFunctions(Ids, Addr)
  <2>1. p.tableIndex \in [ids -> Addr]
    BY <1>3, <1>4
  <2> QED BY <1>4, <2>1 DEF PartialFunctions
<1>9. /\ p.nextTableId \in 0 .. MaxId
      /\ \A k \in DOMAIN ts : ts[k].id < p.nextTableId
  <2>1. CASE f = <<>>
    <3>1. DOMAIN ts = {} /\ p.nextTableId = 0
      BY <1>1, <1>3, <2>1
    <3> QED BY <3>1, DatabaseAssumption
  <2>2. CASE f # <<>>
    <3>1. ts # <<>>
      BY <1>1, <2>2
    <3>2. p.nextTableId = TopId(ts) + 1
      BY <1>3, <2>2
    <3> QED BY <3>1, <3>2, TopIdBounds
  <2> QED BY <2>1, <2>2
<1>10. p \in Objects
  BY <1>3, <1>7, <1>8, <1>9 DEF Objects
<1>11. Elements(p.tables) = {f[k] : k \in DOMAIN ts}
  BY <1>1, <1>3 DEF Elements
<1>12. ASSUME Distinct(ts) PROVE Agrees(p, g)
  <2>1. /\ {g[a].name : a \in {f[k] : k \in DOMAIN ts}} = {ts[k].name : k \in DOMAIN ts}
        /\ {g[a].id : a \in {f[k] : k \in DOMAIN ts}} = {ts[k].id : k \in DOMAIN ts}
    BY DEF Holds
  <2>2. \A k \in DOMAIN ts : /\ p.index[g[f[k]].name] = g[f[k]].id
                             /\ p.tableIndex[g[f[k]].id] = f[k]
                             /\ g[f[k]].id < p.nextTableId
    BY <1>5, <1>6, <1>9, <1>12 DEF Holds
  <2>3. Injective(p.tables)
    BY <1>3
  <2> QED BY <1>4, <1>11, <2>1, <2>2, <2>3 DEF Agrees
<1>13. Settled(p, g, d, drifting)
  BY <1>3, <1>12 DEF Settled
<1> QED BY <1>3, <1>10, <1>13

-----------------------------------------------------------------------------
(* The objects together.                                                    *)

OwnedBy(o) == IF o = Gone THEN {} ELSE Elements(o.tables)

LEMMA UsableFacts ==
  ASSUME IInv, NEW d \in Dbs, Usable(d)
  PROVE  /\ db[d] \in Objects /\ db[d] # Gone /\ d \notin torn
         /\ Settled(db[d], heap, d, adrift) /\ Len(db[d].tables) <= MaxTables
         /\ Owned(d) = Elements(db[d].tables) /\ Owned(d) = OwnedBy(db[d])
         /\ Owned(d) \subseteq DOMAIN heap \ leaked
         /\ \A a \in Owned(d) : heap[a] \in TableObject
<1>1. /\ db[d] \in Objects /\ db[d] # Gone /\ d \notin torn
      /\ Settled(db[d], heap, d, adrift) /\ Len(db[d].tables) <= MaxTables
      /\ Owned(d) = Elements(db[d].tables)
  BY DEF IInv, TypeOK, ObjectInv, Usable, Owned
<1>2. Owned(d) \subseteq AllOwned
  BY DEF AllOwned
<1>3. Owned(d) \subseteq DOMAIN heap \ leaked
  BY <1>2 DEF IInv, OwnerInv
<1>4. \A a \in Owned(d) : heap[a] \in TableObject
  BY <1>3 DEF IInv, TypeOK
<1> QED BY <1>1, <1>3, <1>4 DEF OwnedBy

(* A step that makes p of the object d, keeps the Tables of the others and  *)
(* gives or takes no Table but those d owns before or after.                *)
LEMMA OneObject ==
  ASSUME IInv, NEW d \in Dbs, d \notin torn, Owned(d) = OwnedBy(db[d]),
         NEW p \in Objects \cup {Gone},
         p # Gone => Len(p.tables) <= MaxTables /\ Settled(p, heap', d, adrift'),
         adrift' \subseteq Dbs, \A c \in Dbs \ {d} : c \in adrift' <=> c \in adrift,
         db' = [db EXCEPT ![d] = p],
         DOMAIN heap' = (DOMAIN heap \ Owned(d)) \cup OwnedBy(p),
         \A a \in DOMAIN heap \ Owned(d) : a \notin OwnedBy(p) /\ heap'[a] = heap[a],
         \A a \in OwnedBy(p) : heap'[a] \in TableObject,
         UNCHANGED <<file, torn, leaked>>
  PROVE  IInv'
<1>1. /\ db \in [Dbs -> Objects \cup {Gone}] /\ torn \subseteq Dbs /\ leaked \subseteq Addr
      /\ file' = file /\ torn' = torn /\ leaked' = leaked
      /\ DOMAIN heap \subseteq Addr /\ DOMAIN heap = leaked \cup AllOwned
      /\ leaked \cap AllOwned = {}
      /\ \A e, c \in Dbs : e # c => Owned(e) \cap Owned(c) = {}
  BY DEF IInv, TypeOK, OwnerInv
<1>2. \A e \in Dbs \ {d} : /\ db'[e] = db[e]
                           /\ Usable(e)' = Usable(e)
                           /\ Owned(e)' = Owned(e)
                           /\ Owned(e) \subseteq DOMAIN heap \ Owned(d)
  <2> SUFFICES ASSUME NEW e \in Dbs, e # d
               PROVE  /\ db'[e] = db[e]
                      /\ Usable(e)' = Usable(e)
                      /\ Owned(e)' = Owned(e)
                      /\ Owned(e) \subseteq DOMAIN heap \ Owned(d)
    OBVIOUS
  <2>1. db'[e] = db[e]
    BY <1>1
  <2>2. Usable(e)' = Usable(e)
    BY <1>1, <2>1 DEF Usable
  <2>3. Owned(e)' = Owned(e)
    BY <2>1, <2>2 DEF Owned
  <2>4. Owned(e) \subseteq AllOwned
    BY DEF AllOwned
  <2> QED BY <1>1, <2>1, <2>2, <2>3, <2>4
<1>3. db'[d] = p /\ Usable(d)' = (p # Gone) /\ Owned(d)' = OwnedBy(p)
  BY <1>1 DEF Usable, Owned, OwnedBy
<1>4. OwnedBy(p) \subseteq Addr
  BY ObjectFields DEF OwnedBy
<1>5. TypeOK'
  <2>1. db' \in [Dbs -> Objects \cup {Gone}]
    BY <1>1
  <2>2. \A e \in Dbs : db'[e] # Gone => Len(db'[e].tables) <= MaxTables
    BY <1>2, <1>3 DEF IInv, TypeOK
  <2>3. DOMAIN heap' \subseteq Addr
    BY <1>1, <1>4
  <2>4. \A a \in DOMAIN heap' : heap'[a] \in IF a \in leaked' THEN {Lost} ELSE TableObject
    <3> SUFFICES ASSUME NEW a \in DOMAIN heap'
                 PROVE  heap'[a] \in IF a \in leaked THEN {Lost} ELSE TableObject
      BY <1>1
    <3>1. CASE a \in OwnedBy(p)
      <4>1. a \notin leaked
        <5>1. Owned(d) \subseteq AllOwned
          BY DEF AllOwned
        <5> QED BY <1>1, <3>1, <5>1
      <4> QED BY <3>1, <4>1
    <3>2. CASE a \in DOMAIN heap \ Owned(d)
      BY <3>2 DEF IInv, TypeOK
    <3> QED BY <3>1, <3>2
  <2>5. /\ file' \in Files \cup {NoFile}
        /\ torn' \subseteq Dbs /\ adrift' \subseteq Dbs /\ leaked' \subseteq Addr
    BY <1>1 DEF IInv, TypeOK
  <2> QED BY <2>1, <2>2, <2>3, <2>4, <2>5 DEF TypeOK
<1>6. ObjectInv'
  <2> SUFFICES ASSUME NEW e \in Dbs, Usable(e)' PROVE Settled(db'[e], heap', e, adrift')
    BY DEF ObjectInv
  <2>1. CASE e = d
    BY <1>3, <2>1
  <2>2. CASE e # d
    <3>1. Usable(e) /\ db'[e] = db[e] /\ Owned(e) \subseteq DOMAIN heap \ Owned(d)
      BY <1>2, <2>2
    <3>2. Settled(db[e], heap, e, adrift) /\ Owned(e) = Elements(db[e].tables)
      BY <3>1, UsableFacts
    <3>3. \A a \in Elements(db[e].tables) :
            heap'[a].name = heap[a].name /\ heap'[a].id = heap[a].id
      BY <3>1, <3>2
    <3>4. Settled(db[e], heap', e, adrift)
      BY <3>2, <3>3, SettledKept
    <3>5. e \in adrift' <=> e \in adrift
      BY <2>2
    <3> QED BY <3>1, <3>4, <3>5 DEF Settled
  <2> QED BY <2>1, <2>2
<1>7. OwnerInv'
  <2>1. \A e, c \in Dbs : e # c => Owned(e)' \cap Owned(c)' = {}
    <3> SUFFICES ASSUME NEW e \in Dbs, NEW c \in Dbs, e # c
                 PROVE  Owned(e)' \cap Owned(c)' = {}
      OBVIOUS
    <3>1. CASE e = d
      BY <1>2, <1>3, <3>1
    <3>2. CASE c = d
      BY <1>2, <1>3, <3>2
    <3>3. CASE e # d /\ c # d
      BY <1>1, <1>2, <3>3
    <3> QED BY <3>1, <3>2, <3>3
  <2>2. AllOwned' = (AllOwned \ Owned(d)) \cup OwnedBy(p)
    <3>1. ASSUME NEW a \in AllOwned' PROVE a \in (AllOwned \ Owned(d)) \cup OwnedBy(p)
      <4>1. PICK e \in Dbs : a \in Owned(e)'
        BY <3>1 DEF AllOwned
      <4> QED BY <1>1, <1>2, <1>3, <4>1 DEF AllOwned
    <3>2. ASSUME NEW a \in AllOwned, a \notin Owned(d) PROVE a \in AllOwned'
      <4>1. PICK e \in Dbs : a \in Owned(e)
        BY <3>2 DEF AllOwned
      <4>2. a \in Owned(e)'
        BY <1>2, <3>2, <4>1
      <4> QED BY <4>2 DEF AllOwned
    <3>3. OwnedBy(p) \subseteq AllOwned'
      BY <1>3 DEF AllOwned
    <3> QED BY <3>1, <3>2, <3>3
  <2>3. Owned(d) \subseteq AllOwned
    BY DEF AllOwned
  <2>4. DOMAIN heap' = leaked' \cup AllOwned' /\ leaked' \cap AllOwned' = {}
    BY <1>1, <2>2, <2>3
  <2> QED BY <2>1, <2>4 DEF OwnerInv
<1>8. FileInv' /\ TornInv'
  <2>1. FileInv'
    BY <1>1 DEF IInv, FileInv
  <2>2. TornInv'
    BY <1>1, <1>2 DEF IInv, TornInv
  <2> QED BY <2>1, <2>2
<1> QED BY <1>5, <1>6, <1>7, <1>8 DEF IInv

-----------------------------------------------------------------------------
(* One lemma for each step.                                                 *)

LEMMA InitInv == Init => IInv
<1> SUFFICES ASSUME Init PROVE IInv
  OBVIOUS
<1>1. \A d \in Dbs : db[d] = Gone /\ ~Usable(d) /\ Owned(d) = {}
  BY DEF Init, Usable, Owned
<1>2. DOMAIN heap = {}
  BY DEF Init
<1>3. TypeOK
  BY <1>1, <1>2 DEF Init, TypeOK
<1>4. OwnerInv
  BY <1>1, <1>2 DEF Init, OwnerInv, AllOwned
<1> QED BY <1>1, <1>3, <1>4 DEF Init, IInv, ObjectInv, FileInv, TornInv

LEMMA StutterInv == IInv /\ UNCHANGED vars => IInv'
<1> SUFFICES ASSUME IInv, UNCHANGED vars PROVE IInv'
  OBVIOUS
<1>1. /\ db' = db /\ heap' = heap /\ file' = file
      /\ torn' = torn /\ adrift' = adrift /\ leaked' = leaked
  BY DEF vars
<1>2. \A d \in Dbs : Usable(d)' = Usable(d) /\ Owned(d)' = Owned(d)
  BY <1>1 DEF Usable, Owned
<1>3. TypeOK'
  BY <1>1 DEF IInv, TypeOK
<1>4. ObjectInv'
  BY <1>1, <1>2 DEF IInv, ObjectInv
<1>5. AllOwned' = AllOwned
  BY <1>2 DEF AllOwned
<1>6. OwnerInv'
  BY <1>1, <1>2, <1>5 DEF IInv, OwnerInv
<1>7. FileInv' /\ TornInv'
  BY <1>1 DEF IInv, FileInv, TornInv
<1> QED BY <1>3, <1>4, <1>6, <1>7 DEF IInv

LEMMA AbsentFacts ==
  ASSUME IInv, NEW d \in Dbs, db[d] = Gone
  PROVE  d \notin torn /\ Owned(d) = {} /\ OwnedBy(db[d]) = {}
BY DEF IInv, TornInv, Owned, Usable, OwnedBy

LEMMA ConstructInv ==
  ASSUME IInv, NEW d \in Dbs, Construct(d)
  PROVE  IInv'
<1>1. /\ db' = [db EXCEPT ![d] = Empty]
      /\ heap' = heap /\ UNCHANGED <<file, torn, leaked>> /\ adrift' = adrift
      /\ d \notin torn /\ Owned(d) = {} /\ Owned(d) = OwnedBy(db[d])
  BY AbsentFacts DEF Construct
<1>2. /\ Empty \in Objects \cup {Gone} /\ Empty # Gone
      /\ OwnedBy(Empty) = {} /\ Settled(Empty, heap', d, adrift')
      /\ Len(Empty.tables) <= MaxTables
  BY EmptyAgrees, DatabaseAssumption DEF OwnedBy
<1>3. adrift' \subseteq Dbs
  BY <1>1 DEF IInv, TypeOK
<1> QED BY <1>1, <1>2, <1>3, OneObject

LEMMA DestroyInv ==
  ASSUME IInv, NEW d \in Dbs, Destroy(d)
  PROVE  IInv'
<1>1. /\ db' = [db EXCEPT ![d] = Gone]
      /\ heap' = Erase(heap, Owned(d)) /\ UNCHANGED <<file, torn, leaked>>
      /\ adrift' = adrift \ {d}
      /\ d \notin torn /\ Owned(d) = OwnedBy(db[d])
  BY UsableFacts DEF Destroy
<1>2. OwnedBy(Gone) = {} /\ Gone \in Objects \cup {Gone}
  BY DEF OwnedBy
<1>3. /\ DOMAIN heap' = DOMAIN heap \ Owned(d)
      /\ \A a \in DOMAIN heap \ Owned(d) : heap'[a] = heap[a]
  BY <1>1 DEF Erase
<1>4. adrift' \subseteq Dbs
  BY <1>1 DEF IInv, TypeOK
<1> QED BY <1>1, <1>2, <1>3, <1>4, OneObject

LEMMA CreateFacts ==
  ASSUME IInv, NEW d \in Dbs, NEW n \in Names, createTable(d, n)
  PROVE  /\ Usable(d) /\ Len(db[d].tables) < MaxTables
         /\ n \notin DOMAIN db[d].index /\ db[d].nextTableId < MaxId
         /\ UNCHANGED <<file, torn, leaked>> /\ adrift' = adrift
         /\ \E a \in Addr \ DOMAIN heap :
              /\ db' = [db EXCEPT ![d] = Created(db[d], n, a)]
              /\ heap'[a] = [name |-> n, id |-> db[d].nextTableId, data |-> New]
              /\ DOMAIN heap' = DOMAIN heap \cup {a}
              /\ \A b \in DOMAIN heap : heap'[b] = heap[b]
<1> DEFINE o == db[d]
           tid == o.nextTableId
<1>1. /\ Usable(d) /\ Len(o.tables) < MaxTables /\ n \notin DOMAIN o.index /\ tid < MaxId
      /\ UNCHANGED <<file, torn, leaked>> /\ adrift' = adrift
  BY DEF createTable, HasRoom, hasTable, nextTableID
<1>2. PICK f \in Fresh(1) :
        /\ heap' = Extend(heap, f[1], [name |-> n, id |-> tid, data |-> New])
        /\ db' = [db EXCEPT ![d].tables = Append(@, f[1]),
                            ![d].index = Extend(@, n, tid),
                            ![d].tableIndex = Extend(@, tid, f[1]),
                            ![d].nextTableId = @ + 1]
  BY DEF createTable, nextTableID
<1> DEFINE a == f[1]
<1>3. a \in Addr \ DOMAIN heap
  <2>1. 1 \in Nat /\ 1 \in 1 .. 1
    OBVIOUS
  <2>2. f \in [1 .. 1 -> Addr] /\ Elements(f) \subseteq Addr \ DOMAIN heap /\ DOMAIN f = 1 .. 1
    BY <2>1, FreshAddresses
  <2> QED BY <2>1, <2>2 DEF Elements
<1>4. db' = [db EXCEPT ![d] = Created(o, n, a)]
  <2>1. o \in Objects
    BY <1>1, UsableFacts
  <2>2. [o EXCEPT !.tables = Append(@, a), !.index = Extend(@, n, tid),
                  !.tableIndex = Extend(@, tid, a), !.nextTableId = @ + 1] = Created(o, n, a)
    BY <2>1, CreatedUpdates
  <2> QED BY <1>2, <2>2 DEF IInv, TypeOK
<1>5. /\ heap'[a] = [name |-> n, id |-> tid, data |-> New]
      /\ DOMAIN heap' = DOMAIN heap \cup {a}
      /\ \A b \in DOMAIN heap : heap'[b] = heap[b]
  BY <1>2, <1>3 DEF Extend
<1> QED BY <1>1, <1>3, <1>4, <1>5

LEMMA CreateInv ==
  ASSUME IInv, NEW d \in Dbs, NEW n \in Names, createTable(d, n)
  PROVE  IInv'
<1> DEFINE o == db[d]
           tid == o.nextTableId
<1>1. /\ o \in Objects /\ o # Gone /\ d \notin torn
      /\ Settled(o, heap, d, adrift) /\ Owned(d) = Elements(o.tables)
      /\ Owned(d) = OwnedBy(db[d])
      /\ Owned(d) \subseteq DOMAIN heap
      /\ \A a \in Owned(d) : heap[a] \in TableObject
  BY CreateFacts, UsableFacts
<1>2. /\ Len(o.tables) < MaxTables /\ n \notin DOMAIN o.index /\ tid < MaxId
      /\ UNCHANGED <<file, torn, leaked>> /\ adrift' = adrift
  BY CreateFacts
<1>3. PICK a \in Addr \ DOMAIN heap :
        /\ db' = [db EXCEPT ![d] = Created(o, n, a)]
        /\ heap'[a] = [name |-> n, id |-> tid, data |-> New]
        /\ DOMAIN heap' = DOMAIN heap \cup {a}
        /\ \A b \in DOMAIN heap : heap'[b] = heap[b]
  BY CreateFacts
<1> DEFINE p == Created(o, n, a)
<1>4. heap'[a] \in TableObject
  <2>1. tid \in Ids
    BY <1>1, <1>2, ObjectFields, DatabaseAssumption DEF Ids
  <2> QED BY <1>3, <2>1, DatabaseAssumption DEF TableObject
<1> HIDE DEF o, tid, p
<1>5. /\ p \in Objects /\ Settled(p, heap', d, adrift)
      /\ Len(p.tables) = Len(o.tables) + 1
      /\ Elements(p.tables) = Elements(o.tables) \cup {a}
  <2>1. a \in Addr /\ a \notin Elements(o.tables)
    BY <1>1
  <2>2. heap'[a].name = n /\ heap'[a].id = o.nextTableId
    BY <1>3 DEF tid
  <2>3. \A b \in Elements(o.tables) : heap'[b] = heap[b]
    BY <1>1, <1>3
  <2>4. o \in Objects /\ Settled(o, heap, d, adrift) /\ n \notin DOMAIN o.index /\ o.nextTableId < MaxId
    BY <1>1, <1>2 DEF tid
  <2>5. p = Created(o, n, a)
    BY DEF p
  <2>6. p \in Objects
    BY <2>1, <2>2, <2>3, <2>4, <2>5, SettledCreate
  <2>7. Settled(p, heap', d, adrift)
    BY <2>1, <2>2, <2>3, <2>4, <2>5, SettledCreate
  <2>8. /\ Len(Append(o.tables, a)) = Len(o.tables) + 1
        /\ Elements(Append(o.tables, a)) = Elements(o.tables) \cup {a}
    BY <2>1, <2>4, ObjectFields, AppendElements
  <2> QED BY <2>5, <2>6, <2>7, <2>8 DEF Created
<1>6. p # Gone /\ OwnedBy(p) = Owned(d) \cup {a}
  BY <1>1, <1>5, DatabaseAssumption DEF OwnedBy
<1>7. Len(p.tables) <= MaxTables
  <2>1. Len(o.tables) \in Nat
    BY <1>1, ObjectFields
  <2> QED BY <1>2, <1>5, <2>1, DatabaseAssumption
<1>8. /\ DOMAIN heap' = (DOMAIN heap \ Owned(d)) \cup OwnedBy(p)
      /\ \A b \in DOMAIN heap \ Owned(d) : b \notin OwnedBy(p) /\ heap'[b] = heap[b]
      /\ \A b \in OwnedBy(p) : heap'[b] \in TableObject
  BY <1>1, <1>3, <1>4, <1>6
<1>9. db' = [db EXCEPT ![d] = p]
  BY <1>3 DEF p
<1>10. adrift' \subseteq Dbs
  BY <1>2 DEF IInv, TypeOK
<1> QED BY <1>1, <1>2, <1>5, <1>6, <1>7, <1>8, <1>9, <1>10, OneObject

(* The Tables that dropTable() deletes: one, unless the object is adrift.   *)
Going(d, n) == WithId(db[d], heap, db[d].index[n])

LEMMA DropFacts ==
  ASSUME IInv, NEW d \in Dbs, NEW n \in Names, dropTable(d, n)
  PROVE  /\ Usable(d) /\ n \in DOMAIN db[d].index
         /\ UNCHANGED <<file, torn, leaked>> /\ adrift' = adrift
         /\ \E rest \in Removed(db[d].tables, Going(d, n)) :
              db' = [db EXCEPT ![d] = Dropped(db[d], n, rest)]
         /\ DOMAIN heap' = DOMAIN heap \ Going(d, n)
         /\ \A b \in DOMAIN heap \ Going(d, n) : heap'[b] = heap[b]
<1> DEFINE o == db[d]
           gone == {a \in Owned(d) : heap[a].id = o.index[n]}
<1>1. /\ Usable(d) /\ n \in DOMAIN o.index
      /\ UNCHANGED <<file, torn, leaked>> /\ adrift' = adrift
  BY DEF dropTable, hasTable
<1>2. /\ heap' = Erase(heap, gone)
      /\ \E rest \in Removed(o.tables, gone) :
           db' = [db EXCEPT ![d].tables = rest,
                            ![d].index = Erase(@, {n}),
                            ![d].tableIndex = Erase(@, {o.index[n]})]
  BY DEF dropTable
<1>3. o \in Objects /\ gone = Going(d, n)
  BY <1>1, UsableFacts DEF Going, WithId
<1>4. PICK rest \in Removed(o.tables, gone) :
        db' = [db EXCEPT ![d].tables = rest,
                         ![d].index = Erase(@, {n}),
                         ![d].tableIndex = Erase(@, {o.index[n]})]
  BY <1>2
<1>5. db' = [db EXCEPT ![d] = Dropped(o, n, rest)]
  <2>1. [o EXCEPT !.tables = rest, !.index = Erase(@, {n}),
                  !.tableIndex = Erase(@, {o.index[n]})] = Dropped(o, n, rest)
    BY <1>3, DroppedUpdates
  <2> QED BY <1>4, <2>1 DEF IInv, TypeOK
<1>6. /\ DOMAIN heap' = DOMAIN heap \ gone
      /\ \A b \in DOMAIN heap \ gone : heap'[b] = heap[b]
  BY <1>2 DEF Erase
<1> QED BY <1>1, <1>3, <1>5, <1>6

LEMMA DropInv ==
  ASSUME IInv, NEW d \in Dbs, NEW n \in Names, dropTable(d, n)
  PROVE  IInv'
<1> DEFINE o == db[d]
           gone == Going(d, n)
<1>1. /\ o \in Objects /\ o # Gone /\ d \notin torn
      /\ Settled(o, heap, d, adrift) /\ Owned(d) = Elements(o.tables)
      /\ Owned(d) = OwnedBy(db[d]) /\ Len(o.tables) <= MaxTables
      /\ Owned(d) \subseteq DOMAIN heap
      /\ \A a \in Owned(d) : heap[a] \in TableObject
  BY DropFacts, UsableFacts
<1>2. n \in DOMAIN o.index /\ UNCHANGED <<file, torn, leaked>> /\ adrift' = adrift
  BY DropFacts
<1>3. PICK rest \in Removed(o.tables, gone) : db' = [db EXCEPT ![d] = Dropped(o, n, rest)]
  BY DropFacts
<1>4. /\ DOMAIN heap' = DOMAIN heap \ gone
      /\ \A b \in DOMAIN heap \ gone : heap'[b] = heap[b]
      /\ gone \subseteq Owned(d) /\ gone = WithId(o, heap, o.index[n])
  BY <1>1, DropFacts DEF Going, WithId
<1> DEFINE p == Dropped(o, n, rest)
<1> HIDE DEF o, gone
<1>5. p \in Objects /\ Settled(p, heap', d, adrift)
  <2>1. /\ rest \in Removed(o.tables, WithId(o, heap, o.index[n]))
        /\ \A b \in Elements(o.tables) \ WithId(o, heap, o.index[n]) : heap'[b] = heap[b]
    BY <1>1, <1>3, <1>4
  <2> QED BY <1>1, <1>2, <2>1, SettledDrop
<1>6. Len(rest) <= Len(o.tables) /\ Elements(rest) = Elements(o.tables) \ gone /\ rest \in Seq(Addr)
  BY <1>1, <1>3, ObjectFields, RemovedElements
<1>7. p # Gone /\ p.tables = rest /\ OwnedBy(p) = Owned(d) \ gone
  BY <1>1, <1>5, <1>6, DatabaseAssumption DEF OwnedBy, Dropped
<1>8. Len(rest) <= MaxTables
  <2>1. Len(o.tables) \in Nat /\ Len(rest) \in Nat
    BY <1>1, <1>6, ObjectFields
  <2> QED BY <1>1, <1>6, <2>1, DatabaseAssumption
<1>9. /\ DOMAIN heap' = (DOMAIN heap \ Owned(d)) \cup OwnedBy(p)
      /\ \A b \in DOMAIN heap \ Owned(d) : b \notin OwnedBy(p) /\ heap'[b] = heap[b]
      /\ \A b \in OwnedBy(p) : heap'[b] \in TableObject
  BY <1>1, <1>4, <1>7
<1>10. db' = [db EXCEPT ![d] = p] /\ adrift' \subseteq Dbs
  BY <1>2, <1>3 DEF IInv, TypeOK
<1> HIDE DEF p
<1> QED BY <1>1, <1>2, <1>5, <1>7, <1>8, <1>9, <1>10, OneObject

LEMMA ChangeFacts ==
  ASSUME IInv, NEW d \in Dbs, NEW a \in Owned(d), NEW t \in TableObject, ChangeTable(d, a, t)
  PROVE  /\ Usable(d) /\ a \in DOMAIN heap /\ db' = db /\ UNCHANGED <<file, torn, leaked>>
         /\ adrift' = IF t.name = heap[a].name /\ t.id = heap[a].id
                        THEN adrift ELSE adrift \cup {d}
         /\ DOMAIN heap' = DOMAIN heap /\ heap'[a] = t
         /\ \A b \in DOMAIN heap : b # a => heap'[b] = heap[b]
<1>1. /\ Usable(d) /\ db' = db /\ UNCHANGED <<file, torn, leaked>>
      /\ adrift' = IF t.name = heap[a].name /\ t.id = heap[a].id
                     THEN adrift ELSE adrift \cup {d}
      /\ heap' = [heap EXCEPT ![a] = t]
  BY DEF ChangeTable
<1>2. a \in DOMAIN heap
  BY <1>1, UsableFacts
<1> QED BY <1>1, <1>2

LEMMA ChangeInv ==
  ASSUME IInv, NEW d \in Dbs, NEW a \in Owned(d), NEW t \in TableObject, ChangeTable(d, a, t)
  PROVE  IInv'
<1> DEFINE o == db[d]
<1>1. /\ o \in Objects /\ o # Gone /\ d \notin torn
      /\ Settled(o, heap, d, adrift) /\ Owned(d) = Elements(o.tables)
      /\ Owned(d) = OwnedBy(db[d]) /\ Len(o.tables) <= MaxTables
      /\ Owned(d) \subseteq DOMAIN heap
      /\ \A b \in Owned(d) : heap[b] \in TableObject
  BY UsableFacts DEF ChangeTable
<1>2. /\ db' = db /\ UNCHANGED <<file, torn, leaked>>
      /\ adrift' = IF t.name = heap[a].name /\ t.id = heap[a].id
                     THEN adrift ELSE adrift \cup {d}
      /\ DOMAIN heap' = DOMAIN heap /\ heap'[a] = t
      /\ \A b \in DOMAIN heap : b # a => heap'[b] = heap[b]
  BY ChangeFacts
<1>3. adrift' \subseteq Dbs /\ \A c \in Dbs \ {d} : c \in adrift' <=> c \in adrift
  BY <1>2 DEF IInv, TypeOK
<1>4. Settled(o, heap', d, adrift')
  <2>1. CASE t.name = heap[a].name /\ t.id = heap[a].id
    <3>1. \A b \in Elements(o.tables) : heap'[b].name = heap[b].name /\ heap'[b].id = heap[b].id
      BY <1>1, <1>2, <2>1
    <3>2. (d \in adrift') = (d \in adrift)
      BY <1>2, <2>1
    <3> HIDE DEF o
    <3> QED BY <1>1, <3>1, <3>2, SettledKept
  <2>2. CASE ~(t.name = heap[a].name /\ t.id = heap[a].id)
    <3>1. d \in adrift'
      BY <1>2, <2>2
    <3> QED BY <1>1, <3>1 DEF Settled
  <2> QED BY <2>1, <2>2
<1>5. db' = [db EXCEPT ![d] = o]
  BY <1>2 DEF IInv, TypeOK
<1>6. /\ DOMAIN heap' = (DOMAIN heap \ Owned(d)) \cup OwnedBy(o)
      /\ \A b \in DOMAIN heap \ Owned(d) : b \notin OwnedBy(o) /\ heap'[b] = heap[b]
      /\ \A b \in OwnedBy(o) : heap'[b] \in TableObject
  BY <1>1, <1>2
<1> HIDE DEF o
<1> QED BY <1>1, <1>2, <1>3, <1>4, <1>5, <1>6, OneObject

(* Two objects: d takes the members of e and its own Tables are deleted.    *)
LEMMA MoveInv ==
  ASSUME IInv, NEW d \in Dbs, NEW e \in Dbs, d # e, d \notin torn, Usable(e),
         Owned(d) = OwnedBy(db[d]), MoveMembers(d, e),
         DOMAIN heap' = DOMAIN heap \ Owned(d),
         \A a \in DOMAIN heap \ Owned(d) : heap'[a] = heap[a],
         UNCHANGED <<file, torn, leaked>>
  PROVE  IInv'
<1>1. /\ db \in [Dbs -> Objects \cup {Gone}] /\ torn \subseteq Dbs /\ leaked \subseteq Addr
      /\ file' = file /\ torn' = torn /\ leaked' = leaked
      /\ DOMAIN heap \subseteq Addr /\ DOMAIN heap = leaked \cup AllOwned
      /\ leaked \cap AllOwned = {}
      /\ \A b, c \in Dbs : b # c => Owned(b) \cap Owned(c) = {}
      /\ db[e] \in Objects /\ db[e] # Gone /\ e \notin torn
      /\ Settled(db[e], heap, e, adrift) /\ Len(db[e].tables) <= MaxTables
  BY UsableFacts DEF IInv, TypeOK, OwnerInv
<1>2. /\ Empty \in Objects /\ Empty # Gone /\ Len(Empty.tables) <= MaxTables
      /\ Elements(Empty.tables) = {} /\ Settled(Empty, heap', e, adrift')
  BY EmptyAgrees, DatabaseAssumption
<1>3. /\ db'[d] = db[e] /\ db'[e] = Empty
      /\ \A c \in Dbs \ {d, e} : db'[c] = db[c]
      /\ db' \in [Dbs -> Objects \cup {Gone}]
      /\ adrift' = Drifts(d, e \in adrift) \ {e}
  BY <1>1, <1>2 DEF MoveMembers
<1>10. /\ adrift' \subseteq Dbs /\ (d \in adrift' <=> e \in adrift)
       /\ \A c \in Dbs \ {d, e} : c \in adrift' <=> c \in adrift
  BY <1>3 DEF Drifts, IInv, TypeOK
<1>4. \A c \in Dbs : c # d => Owned(c) \subseteq DOMAIN heap \ Owned(d)
  <2> SUFFICES ASSUME NEW c \in Dbs, c # d PROVE Owned(c) \subseteq DOMAIN heap \ Owned(d)
    OBVIOUS
  <2>1. Owned(c) \subseteq AllOwned
    BY DEF AllOwned
  <2> QED BY <1>1, <2>1
<1>5. /\ Usable(d)' /\ Usable(e)'
      /\ Owned(d)' = Owned(e) /\ Owned(e)' = {}
      /\ \A c \in Dbs \ {d, e} : Usable(c)' = Usable(c) /\ Owned(c)' = Owned(c)
  BY <1>1, <1>2, <1>3 DEF Usable, Owned
<1>6. TypeOK'
  <2>1. \A c \in Dbs : db'[c] # Gone => Len(db'[c].tables) <= MaxTables
    BY <1>1, <1>2, <1>3 DEF IInv, TypeOK
  <2>2. DOMAIN heap' \subseteq Addr
    BY <1>1
  <2>3. \A a \in DOMAIN heap' : heap'[a] \in IF a \in leaked' THEN {Lost} ELSE TableObject
    BY <1>1 DEF IInv, TypeOK
  <2>4. /\ file' \in Files \cup {NoFile}
        /\ torn' \subseteq Dbs /\ adrift' \subseteq Dbs /\ leaked' \subseteq Addr
    BY <1>1, <1>10 DEF IInv, TypeOK
  <2> QED BY <1>3, <2>1, <2>2, <2>3, <2>4 DEF TypeOK
<1>7. ObjectInv'
  <2>1. \A c \in Dbs : c # d /\ Usable(c) => Settled(db[c], heap', c, adrift)
    <3> SUFFICES ASSUME NEW c \in Dbs, c # d, Usable(c)
                 PROVE  Settled(db[c], heap', c, adrift)
      OBVIOUS
    <3>1. Settled(db[c], heap, c, adrift) /\ Owned(c) = Elements(db[c].tables)
      BY UsableFacts
    <3>2. \A a \in Elements(db[c].tables) :
            heap'[a].name = heap[a].name /\ heap'[a].id = heap[a].id
      BY <1>4, <3>1
    <3> QED BY <3>1, <3>2, SettledKept
  <2> SUFFICES ASSUME NEW c \in Dbs, Usable(c)' PROVE Settled(db'[c], heap', c, adrift')
    BY DEF ObjectInv
  <2>2. CASE c = d
    <3>1. db'[c] = db[e] /\ (c \in adrift' <=> e \in adrift) /\ e # d /\ Usable(e)
      BY <1>3, <1>10, <2>2
    <3>2. Settled(db[e], heap', e, adrift)
      BY <2>1, <3>1
    <3> QED BY <3>1, <3>2 DEF Settled
  <2>3. CASE c = e
    BY <1>2, <1>3, <2>3
  <2>4. CASE c # d /\ c # e
    <3>1. db'[c] = db[c] /\ (c \in adrift' <=> c \in adrift) /\ Usable(c)
      BY <1>3, <1>5, <1>10, <2>4
    <3>2. Settled(db[c], heap', c, adrift)
      BY <2>1, <2>4, <3>1
    <3> QED BY <3>1, <3>2 DEF Settled
  <2> QED BY <2>2, <2>3, <2>4
<1>8. OwnerInv'
  <2>1. \A b, c \in Dbs : b # c => Owned(b)' \cap Owned(c)' = {}
    BY <1>1, <1>5
  <2>2. AllOwned' = AllOwned \ Owned(d)
    <3>1. ASSUME NEW a \in AllOwned' PROVE a \in AllOwned \ Owned(d)
      <4>1. PICK c \in Dbs : a \in Owned(c)'
        BY <3>1 DEF AllOwned
      <4>2. PICK b \in Dbs \ {d} : a \in Owned(b)
        BY <1>5, <4>1
      <4> QED BY <1>4, <4>2 DEF AllOwned
    <3>2. ASSUME NEW a \in AllOwned, a \notin Owned(d) PROVE a \in AllOwned'
      <4>1. PICK c \in Dbs : a \in Owned(c)
        BY <3>2 DEF AllOwned
      <4>2. \E b \in Dbs : a \in Owned(b)'
        BY <1>5, <3>2, <4>1
      <4> QED BY <4>2 DEF AllOwned
    <3> QED BY <3>1, <3>2
  <2>3. Owned(d) \subseteq AllOwned
    BY DEF AllOwned
  <2>4. DOMAIN heap' = leaked' \cup AllOwned' /\ leaked' \cap AllOwned' = {}
    BY <1>1, <2>2, <2>3
  <2> QED BY <2>1, <2>4 DEF OwnerInv
<1>9. FileInv' /\ TornInv'
  <2>1. FileInv'
    BY <1>1 DEF IInv, FileInv
  <2>2. TornInv'
    BY <1>1, <1>2, <1>3 DEF IInv, TornInv
  <2> QED BY <2>1, <2>2
<1> QED BY <1>6, <1>7, <1>8, <1>9 DEF IInv

LEMMA MoveConstructInv ==
  ASSUME IInv, NEW d \in Dbs, NEW e \in Dbs, MoveConstruct(d, e)
  PROVE  IInv'
<1>1. /\ d # e /\ Usable(e) /\ MoveMembers(d, e) /\ heap' = heap
      /\ UNCHANGED <<file, torn, leaked>>
      /\ d \notin torn /\ Owned(d) = {} /\ Owned(d) = OwnedBy(db[d])
  BY AbsentFacts DEF MoveConstruct, Usable
<1> QED BY <1>1, MoveInv

LEMMA MoveAssignInv ==
  ASSUME IInv, NEW d \in Dbs, NEW e \in Dbs, MoveAssign(d, e)
  PROVE  IInv'
<1>1. /\ d # e /\ Usable(e) /\ MoveMembers(d, e) /\ heap' = Erase(heap, Owned(d))
      /\ UNCHANGED <<file, torn, leaked>>
      /\ d \notin torn /\ Owned(d) = OwnedBy(db[d])
  BY UsableFacts DEF MoveAssign
<1>2. /\ DOMAIN heap' = DOMAIN heap \ Owned(d)
      /\ \A a \in DOMAIN heap \ Owned(d) : heap'[a] = heap[a]
  BY <1>1 DEF Erase
<1> QED BY <1>1, <1>2, MoveInv

LEMMA SaveInv ==
  ASSUME IInv, NEW d \in Dbs, save(d)
  PROVE  IInv'
<1> DEFINE o == db[d]
           ts == [k \in DOMAIN o.tables |-> heap[o.tables[k]]]
<1>1. /\ o \in Objects /\ Owned(d) = Elements(o.tables)
      /\ Len(o.tables) <= MaxTables
      /\ \A a \in Owned(d) : heap[a] \in TableObject
  BY UsableFacts DEF save
<1>2. /\ file' = [named |-> TRUE, tables |-> ts]
      /\ db' = db /\ heap' = heap
      /\ torn' = torn /\ adrift' = adrift /\ leaked' = leaked
  BY DEF save, toJson
<1>3. Len(o.tables) \in Nat /\ DOMAIN o.tables = 1 .. Len(o.tables)
  BY <1>1, ObjectFields
<1>4. \A k \in DOMAIN o.tables : o.tables[k] \in Elements(o.tables)
  BY DEF Elements
<1>5. ts \in Seq(TableObject) /\ Len(ts) = Len(o.tables) /\ DOMAIN ts = DOMAIN o.tables
  <2>1. \A k \in 1 .. Len(o.tables) : heap[o.tables[k]] \in TableObject
    BY <1>1, <1>3, <1>4
  <2>2. ts = [k \in 1 .. Len(o.tables) |-> heap[o.tables[k]]]
    BY <1>3
  <2> HIDE DEF ts, o
  <2> QED BY <1>3, <2>1, <2>2
<1> HIDE DEF ts, o
<1>7. file' \in Files /\ Len(file'.tables) <= MaxTables
  BY <1>1, <1>2, <1>5 DEF Files
<1>8. \A c \in Dbs : Usable(c)' = Usable(c) /\ Owned(c)' = Owned(c)
  BY <1>2 DEF Usable, Owned
<1>9. TypeOK'
  BY <1>2, <1>7 DEF IInv, TypeOK
<1>10. ObjectInv'
  BY <1>2, <1>8 DEF IInv, ObjectInv
<1>11. AllOwned' = AllOwned
  BY <1>8 DEF AllOwned
<1>12. OwnerInv'
  BY <1>2, <1>8, <1>11 DEF IInv, OwnerInv
<1>13. FileInv' /\ TornInv'
  BY <1>2, <1>7 DEF IInv, FileInv, TornInv
<1> QED BY <1>9, <1>10, <1>12, <1>13 DEF IInv

(* A damaged envelope has as many tables as the saved one, and if all of    *)
(* them are tables it has the same.                                         *)
LEMMA EnvelopeTables ==
  ASSUME IInv, NEW e \in Envelopes
  PROVE  /\ file # NoFile /\ file.tables \in Seq(TableObject)
         /\ DOMAIN e.tables = 1 .. Len(file.tables)
         /\ AllTables(e.tables) => e.tables = file.tables
<1>1. /\ file # NoFile /\ file \in Files /\ file.tables \in Seq(TableObject)
      /\ file = [named |-> file.named, tables |-> file.tables]
  BY DEF Envelopes, IInv, TypeOK, Files
<1>2. e = file \/ e \in Damaged(file)
  BY <1>1 DEF Envelopes
<1>3. DOMAIN file.tables = 1 .. Len(file.tables)
  BY <1>1
<1>4. CASE e = file \/ e = [file EXCEPT !.named = FALSE]
  <2>1. e.tables = file.tables
    BY <1>1, <1>4
  <2> QED BY <1>1, <1>3, <2>1
<1>5. ASSUME NEW k \in DOMAIN file.tables, NEW bad \in {NullTable, BadTable},
             e = [file EXCEPT !.tables[k] = bad]
      PROVE  DOMAIN e.tables = 1 .. Len(file.tables) /\ ~AllTables(e.tables)
  <2>1. e.tables = [file.tables EXCEPT ![k] = bad]
    BY <1>1, <1>5
  <2>2. DOMAIN e.tables = DOMAIN file.tables /\ e.tables[k] = bad
    BY <2>1
  <2> QED BY <1>3, <2>2 DEF AllTables, IsTable
<1> QED BY <1>1, <1>2, <1>4, <1>5 DEF Damaged

(* A load that throws: the scratch Tables stay, and the live ones of d too  *)
(* unless the load had come as far as deleting them.                        *)
LEMMA LeakInv ==
  ASSUME IInv, NEW d \in Dbs, Usable(d), NEW new, new \subseteq Addr \ DOMAIN heap,
         NEW gone,
         \/ gone = {} /\ torn' = torn
         \/ gone = Owned(d) /\ torn' = torn \cup {d},
         DOMAIN heap' = (DOMAIN heap \ gone) \cup new,
         \A a \in DOMAIN heap \ gone : heap'[a] = heap[a],
         \A a \in new : heap'[a] = Lost,
         leaked' = leaked \cup new,
         UNCHANGED <<db, file, adrift>>
  PROVE  IInv'
<1>1. /\ db \in [Dbs -> Objects \cup {Gone}] /\ torn \subseteq Dbs /\ leaked \subseteq Addr
      /\ db' = db /\ file' = file /\ adrift' = adrift
      /\ DOMAIN heap \subseteq Addr /\ DOMAIN heap = leaked \cup AllOwned
      /\ leaked \cap AllOwned = {}
      /\ \A b, c \in Dbs : b # c => Owned(b) \cap Owned(c) = {}
      /\ gone \subseteq DOMAIN heap \ leaked /\ gone \subseteq Owned(d)
  BY UsableFacts DEF IInv, TypeOK, OwnerInv
<1>2. \A c \in Dbs : Usable(c)' => Usable(c)
  BY <1>1 DEF Usable
<1>3. \A c \in Dbs : Owned(c)' = Owned(c) \ gone
  <2> SUFFICES ASSUME NEW c \in Dbs PROVE Owned(c)' = Owned(c) \ gone
    OBVIOUS
  <2>1. CASE c # d
    <3>1. Usable(c)' = Usable(c)
      BY <1>1, <2>1 DEF Usable
    <3>2. Owned(c)' = Owned(c)
      BY <1>1, <3>1 DEF Owned
    <3> QED BY <1>1, <2>1, <3>2
  <2>2. CASE c = d /\ torn' = torn /\ gone = {}
    BY <1>1, <2>2 DEF Usable, Owned
  <2>3. CASE c = d /\ torn' = torn \cup {d} /\ gone = Owned(d)
    <3>1. ~Usable(c)'
      BY <2>3 DEF Usable
    <3> QED BY <2>3, <3>1 DEF Owned
  <2> QED BY <2>1, <2>2, <2>3
<1>4. TypeOK'
  <2>1. \A a \in DOMAIN heap' : heap'[a] \in IF a \in leaked' THEN {Lost} ELSE TableObject
    <3> SUFFICES ASSUME NEW a \in DOMAIN heap'
                 PROVE  heap'[a] \in IF a \in leaked' THEN {Lost} ELSE TableObject
      OBVIOUS
    <3>1. CASE a \in new
      BY <3>1
    <3>2. CASE a \in DOMAIN heap \ gone
      BY <3>2 DEF IInv, TypeOK
    <3> QED BY <3>1, <3>2
  <2>2. DOMAIN heap' \subseteq Addr /\ torn' \subseteq Dbs /\ leaked' \subseteq Addr
    BY <1>1
  <2> QED BY <1>1, <2>1, <2>2 DEF IInv, TypeOK
<1>5. ObjectInv'
  <2> SUFFICES ASSUME NEW c \in Dbs, Usable(c)' PROVE Settled(db[c], heap', c, adrift)
    BY <1>1 DEF ObjectInv
  <2>1. Usable(c) /\ Settled(db[c], heap, c, adrift) /\ Owned(c) = Elements(db[c].tables)
    BY <1>2, UsableFacts
  <2>2. Owned(c) \subseteq DOMAIN heap \ gone
    <3>1. Owned(c)' = Elements(db[c].tables)
      BY <1>1 DEF Owned
    <3>2. Owned(c) \subseteq DOMAIN heap
      BY <2>1, UsableFacts
    <3> QED BY <1>3, <2>1, <3>1, <3>2
  <2>3. \A a \in Elements(db[c].tables) :
          heap'[a].name = heap[a].name /\ heap'[a].id = heap[a].id
    BY <2>1, <2>2
  <2> QED BY <2>1, <2>3, SettledKept
<1>6. OwnerInv'
  <2>1. \A b, c \in Dbs : b # c => Owned(b)' \cap Owned(c)' = {}
    BY <1>1, <1>3
  <2>2. AllOwned' = AllOwned \ gone
    BY <1>3 DEF AllOwned
  <2>3. DOMAIN heap' = leaked' \cup AllOwned' /\ leaked' \cap AllOwned' = {}
    BY <1>1, <2>2
  <2> QED BY <2>1, <2>3 DEF OwnerInv
<1>7. FileInv' /\ TornInv'
  <2>1. FileInv'
    BY <1>1 DEF IInv, FileInv
  <2>2. TornInv'
    BY <1>1 DEF IInv, TornInv, Usable
  <2> QED BY <2>1, <2>2
<1> QED BY <1>4, <1>5, <1>6, <1>7 DEF IInv

LEMMA LoadTableThrowsInv ==
  ASSUME IInv, NEW d \in Dbs, LoadTableThrows(d)
  PROVE  IInv'
<1>1. PICK e \in Envelopes : \E k \in DOMAIN e.tables : \E f \in Fresh(k) :
        /\ heap' = With(heap, f, [j \in 1 .. k |-> Lost])
        /\ leaked' = leaked \cup Elements(f)
  BY DEF LoadTableThrows
<1>2. PICK k \in DOMAIN e.tables : \E f \in Fresh(k) :
        /\ heap' = With(heap, f, [j \in 1 .. k |-> Lost])
        /\ leaked' = leaked \cup Elements(f)
  BY <1>1
<1>3. PICK f \in Fresh(k) : /\ heap' = With(heap, f, [j \in 1 .. k |-> Lost])
                            /\ leaked' = leaked \cup Elements(f)
  BY <1>2
<1>4. k \in Nat
  BY EnvelopeTables
<1>5. Elements(f) \subseteq Addr \ DOMAIN heap /\ DOMAIN f = 1 .. k
  BY <1>4, FreshAddresses
<1>6. /\ DOMAIN heap' = (DOMAIN heap \ {}) \cup Elements(f)
      /\ \A a \in DOMAIN heap \ {} : heap'[a] = heap[a]
  BY <1>3 DEF With
<1>7. \A a \in Elements(f) : heap'[a] = Lost
  BY <1>3, <1>4, <1>5, Withs DEF Elements
<1>8. Usable(d) /\ UNCHANGED <<db, file, adrift>> /\ torn' = torn
  BY DEF LoadTableThrows
<1> QED BY <1>3, <1>5, <1>6, <1>7, <1>8, LeakInv

LEMMA LoadNameThrowsInv ==
  ASSUME IInv, NEW d \in Dbs, LoadNameThrows(d)
  PROVE  IInv'
<1>1. PICK e \in Envelopes :
        /\ AllTables(e.tables)
        /\ \E f \in Fresh(Len(e.tables)) :
             /\ heap' = Erase(With(heap, f, [k \in DOMAIN f |-> Lost]), Owned(d))
             /\ leaked' = leaked \cup Elements(f)
  BY DEF LoadNameThrows
<1>2. PICK f \in Fresh(Len(e.tables)) :
        /\ heap' = Erase(With(heap, f, [k \in DOMAIN f |-> Lost]), Owned(d))
        /\ leaked' = leaked \cup Elements(f)
  BY <1>1
<1>3. Len(e.tables) \in Nat
  BY <1>1, EnvelopeTables
<1>4. Elements(f) \subseteq Addr \ DOMAIN heap /\ DOMAIN f = 1 .. Len(e.tables)
  BY <1>3, FreshAddresses
<1>5. /\ Usable(d) /\ UNCHANGED <<db, file, adrift>>
      /\ torn' = IF Owned(d) = {} THEN torn ELSE torn \cup {d}
  BY DEF LoadNameThrows
<1>6. Owned(d) \subseteq DOMAIN heap
  BY <1>5, UsableFacts
<1>7. /\ DOMAIN heap' = (DOMAIN heap \ Owned(d)) \cup Elements(f)
      /\ \A a \in DOMAIN heap \ Owned(d) : heap'[a] = heap[a]
  BY <1>2, <1>4, <1>6 DEF Erase, With
<1>8. \A a \in Elements(f) : heap'[a] = Lost
  <2>1. \A a \in Elements(f) : With(heap, f, [k \in DOMAIN f |-> Lost])[a] = Lost
    BY <1>3, <1>4, Withs DEF Elements
  <2> QED BY <1>2, <1>4, <1>6, <2>1 DEF Erase, With
<1> QED BY <1>2, <1>4, <1>5, <1>7, <1>8, LeakInv

LEMMA LoadInv ==
  ASSUME IInv, NEW d \in Dbs, load(d)
  PROVE  IInv'
<1> DEFINE ts == file.tables
           n == Len(file.tables)
<1>1. PICK e \in Envelopes :
        /\ AllTables(e.tables)
        /\ \E f \in Fresh(Len(e.tables)) :
             /\ heap' = Erase(With(heap, f, e.tables), Owned(d))
             /\ \E q \in Loaded(e.tables, f) : db' = [db EXCEPT ![d] = q]
        /\ adrift' = Drifts(d, ~Distinct(e.tables))
  BY DEF load
<1>2. /\ ts \in Seq(TableObject) /\ Len(ts) <= MaxTables
      /\ e.tables = ts
  BY <1>1, EnvelopeTables DEF IInv, FileInv
<1>3. PICK f \in Fresh(n) : /\ heap' = Erase(With(heap, f, ts), Owned(d))
                            /\ \E q \in Loaded(ts, f) : db' = [db EXCEPT ![d] = q]
  BY <1>1, <1>2
<1>4. n \in Nat /\ DOMAIN ts = 1 .. n
  BY <1>2
<1>5. /\ f \in Seq(Addr) /\ Len(f) = n /\ DOMAIN f = 1 .. n /\ Injective(f)
      /\ Elements(f) \subseteq Addr \ DOMAIN heap
  BY <1>4, FreshAddresses
<1>6. /\ Usable(d) /\ UNCHANGED <<file, torn, leaked>>
      /\ d \notin torn /\ Owned(d) = OwnedBy(db[d])
      /\ Owned(d) \subseteq DOMAIN heap
  BY UsableFacts DEF load
<1>7. /\ DOMAIN heap' = (DOMAIN heap \ Owned(d)) \cup Elements(f)
      /\ \A a \in DOMAIN heap \ Owned(d) : heap'[a] = heap[a]
  BY <1>3, <1>5, <1>6 DEF Erase, With
<1>8. \A k \in DOMAIN ts : heap'[f[k]] = ts[k]
  <2>1. \A k \in 1 .. n : With(heap, f, ts)[f[k]] = ts[k] /\ f[k] \in Elements(f)
    BY <1>4, <1>5, Withs DEF Elements
  <2> QED BY <1>3, <1>4, <1>5, <1>6, <2>1 DEF Erase, With
<1>9. PICK p \in Loaded(ts, f) : db' = [db EXCEPT ![d] = p]
  BY <1>3
<1>14. adrift' = Drifts(d, ~Distinct(ts)) /\ Len(f) = Len(ts)
  BY <1>1, <1>2, <1>5
<1> HIDE DEF ts, n
<1>15. /\ adrift' \subseteq Dbs
       /\ d \notin adrift' => Distinct(ts)
       /\ \A c \in Dbs \ {d} : c \in adrift' <=> c \in adrift
  BY <1>14 DEF Drifts, IInv, TypeOK
<1>10. p \in Objects /\ Settled(p, heap', d, adrift') /\ p.tables = f
  <2>1. /\ ts \in Seq(TableObject) /\ f \in Seq(Addr) /\ Injective(f)
        /\ p \in Loaded(ts, f) /\ Holds(heap', f, ts)
    BY <1>2, <1>5, <1>8, <1>9 DEF Holds
  <2>2. Settled(p, heap', d, adrift')
    BY <1>14, <1>15, <2>1, SettledLoaded
  <2>3. p \in Objects /\ p.tables = f
    BY <1>14, <1>15, <2>1, SettledLoaded
  <2> QED BY <2>2, <2>3
<1>11. p # Gone /\ OwnedBy(p) = Elements(f) /\ Len(p.tables) <= MaxTables
  BY <1>2, <1>10, <1>14, DatabaseAssumption DEF OwnedBy
<1>12. \A a \in OwnedBy(p) : heap'[a] \in TableObject
  <2>1. \A k \in DOMAIN ts : ts[k] \in TableObject
    BY <1>2
  <2> QED BY <1>4, <1>5, <1>8, <1>11, <2>1 DEF Elements
<1>13. /\ DOMAIN heap' = (DOMAIN heap \ Owned(d)) \cup OwnedBy(p)
       /\ \A a \in DOMAIN heap \ Owned(d) : a \notin OwnedBy(p) /\ heap'[a] = heap[a]
  BY <1>5, <1>7, <1>11
<1> QED BY <1>6, <1>9, <1>10, <1>11, <1>12, <1>13, <1>15, OneObject

-----------------------------------------------------------------------------
(* The steps together.                                                      *)

Failures(d) == LoadTableFails(d) \/ CallFails(d)

LEMMA FailuresChangeNothing ==
  ASSUME NEW d \in Dbs, Failures(d)
  PROVE  UNCHANGED vars
BY DEF Failures, LoadTableFails, CallFails

LEMMA NextInv ==
  ASSUME IInv, [Next]_vars
  PROVE  IInv'
<1>1. CASE UNCHANGED vars
  BY <1>1, StutterInv
<1>2. ASSUME NEW d \in Dbs, Construct(d) \/ Destroy(d) PROVE IInv'
  BY <1>2, ConstructInv, DestroyInv
<1>3. ASSUME NEW d \in Dbs, NEW e \in Dbs, MoveConstruct(d, e) \/ MoveAssign(d, e) PROVE IInv'
  BY <1>3, MoveConstructInv, MoveAssignInv
<1>4. ASSUME NEW d \in Dbs, NEW n \in Names, createTable(d, n) \/ dropTable(d, n) PROVE IInv'
  BY <1>4, CreateInv, DropInv
<1>5. ASSUME NEW d \in Dbs, NEW a \in Owned(d), NEW t \in TableObject, ChangeTable(d, a, t)
      PROVE  IInv'
  BY <1>5, ChangeInv
<1>6. ASSUME NEW d \in Dbs, save(d) \/ load(d) PROVE IInv'
  BY <1>6, SaveInv, LoadInv
<1>7. ASSUME NEW d \in Dbs, LoadTableThrows(d) \/ LoadNameThrows(d) PROVE IInv'
  BY <1>7, LoadTableThrowsInv, LoadNameThrowsInv
<1>8. ASSUME NEW d \in Dbs, Failures(d) PROVE IInv'
  BY <1>8, FailuresChangeNothing, StutterInv
<1> QED BY <1>1, <1>2, <1>3, <1>4, <1>5, <1>6, <1>7, <1>8 DEF Next, Failures

(* The inductive invariant holds in every reachable state.                  *)
THEOREM Invariant == Spec => []IInv
<1>1. IInv /\ [Next]_vars => IInv'
  BY NextInv
<1> QED BY InitInv, <1>1, PTL DEF Spec

(* The members, the Tables and the file keep their types.                   *)
THEOREM TypeCorrect == Spec => []TypeOK
<1>1. IInv => TypeOK
  BY DEF IInv
<1> QED BY Invariant, <1>1, PTL

LEMMA InvOwnership ==
  ASSUME IInv
  PROVE  Ownership
<1>1. \A d \in Dbs : Usable(d) => Injective(db[d].tables)
  BY DEF IInv, ObjectInv, Settled
<1> QED BY <1>1 DEF IInv, OwnerInv, AllOwned, Ownership, Injective

LEMMA InvLookups ==
  ASSUME IInv
  PROVE  LookupsAgree
<1> SUFFICES ASSUME NEW d \in Dbs, Usable(d), d \notin adrift
             PROVE  /\ DOMAIN db[d].index = {heap[a].name : a \in Owned(d)}
                    /\ DOMAIN db[d].tableIndex = {heap[a].id : a \in Owned(d)}
                    /\ \A a \in Owned(d) : /\ getTable(d, heap[a].name) = {a}
                                           /\ heap[a].id < db[d].nextTableId
  BY DEF LookupsAgree
<1>1. Agrees(db[d], heap) /\ Owned(d) = Elements(db[d].tables)
  BY UsableFacts DEF Settled
<1>2. ASSUME NEW a \in Owned(d) PROVE getTable(d, heap[a].name) = {a}
  <2>1. /\ heap[a].name \in DOMAIN db[d].index
        /\ db[d].index[heap[a].name] = heap[a].id
        /\ heap[a].id \in DOMAIN db[d].tableIndex
        /\ db[d].tableIndex[heap[a].id] = a
    BY <1>1 DEF Agrees
  <2> QED BY <2>1 DEF getTable, hasTable
<1> QED BY <1>1, <1>2 DEF Agrees

(* Whatever is created, moved, dropped, loaded and destroyed, in any order  *)
(* and on any number of objects, every Table has exactly one owner.         *)
THEOREM EveryTableHasOneOwner == Spec => []Ownership
<1>1. IInv => Ownership
  BY InvOwnership
<1> QED BY Invariant, <1>1, PTL

(* The name and id indices find each table of an object and nothing else,   *)
(* whatever is called, until a Table is given another name or id.           *)
THEOREM IndicesFindEachTable == Spec => []LookupsAgree
<1>1. IInv => LookupsAgree
  BY InvLookups
<1> QED BY Invariant, <1>1, PTL

-----------------------------------------------------------------------------
(* Database implements Catalog.                                             *)

Line == [name : Names, data : Contents]

(* The list an object shows, in the order of tables_.                       *)
ListOf(o, h) == [k \in DOMAIN o.tables |-> [name |-> h[o.tables[k]].name,
                                            data |-> h[o.tables[k]].data]]

LEMMA ShownList ==
  ASSUME IInv, NEW d \in Dbs, Usable(d)
  PROVE  /\ Shown(d) = ListOf(db[d], heap)
         /\ Shown(d) \in Seq(Line) /\ Len(Shown(d)) = Len(db[d].tables)
         /\ Cat!Alive(d) /\ Shown(d) # Lost
<1> DEFINE o == db[d]
           n == Len(o.tables)
<1>1. /\ o \in Objects /\ o # Gone /\ d \notin torn
      /\ Owned(d) = Elements(o.tables)
      /\ \A a \in Owned(d) : heap[a] \in TableObject
  BY UsableFacts
<1>2. n \in Nat /\ DOMAIN o.tables = 1 .. n
  BY <1>1, ObjectFields
<1>3. \A k \in 1 .. n : heap[o.tables[k]] \in TableObject
  BY <1>1, <1>2 DEF Elements
<1>4. Shown(d) = ListOf(o, heap)
  BY <1>1 DEF Shown, toJson, Listed, ListOf
<1>5. ListOf(o, heap) \in Seq(Line) /\ Len(ListOf(o, heap)) = n
  <2>1. \A k \in 1 .. n : [name |-> heap[o.tables[k]].name,
                           data |-> heap[o.tables[k]].data] \in Line
    BY <1>3 DEF TableObject, Line
  <2>2. ListOf(o, heap) = [k \in 1 .. n |-> [name |-> heap[o.tables[k]].name,
                                             data |-> heap[o.tables[k]].data]]
    BY <1>2 DEF ListOf
  <2> HIDE DEF o, n
  <2> QED BY <1>2, <2>1, <2>2
<1>6. Shown(d) \notin {Gone, Lost}
  BY <1>4, <1>5, DatabaseAssumption DEF Line
<1> QED BY <1>4, <1>5, <1>6 DEF Cat!Alive, Catalogs

LEMMA ShownType ==
  ASSUME NEW d \in Dbs
  PROVE  /\ Catalogs[d] = Shown(d) /\ Catalogs'[d] = Shown(d)'
         /\ db[d] = Gone => Shown(d) = Gone
         /\ db'[d] = Gone => Shown(d)' = Gone
BY DEF Catalogs, Shown

LEMMA StaysCatalog == IInv' => Cat!IsCatalog
BY DEF Catalogs, Cat!IsCatalog, IInv, TypeOK

(* An object whose members and Tables are kept shows what it showed.        *)
LEMMA ShownKept ==
  ASSUME IInv, NEW d \in Dbs, db'[d] = db[d], d \in torn' <=> d \in torn,
         \A a \in Owned(d) : heap'[a] = heap[a]
  PROVE  Shown(d)' = Shown(d)
<1>1. CASE ~Usable(d)
  BY <1>1 DEF Shown, Usable
<1>2. CASE Usable(d)
  <2>1. /\ Shown(d) = ListOf(db[d], heap) /\ Owned(d) = Elements(db[d].tables)
        /\ db[d] # Gone /\ d \notin torn
    BY <1>2, ShownList, UsableFacts
  <2>2. Shown(d)' = ListOf(db[d], heap')
    BY <2>1 DEF Shown, toJson, Listed, ListOf
  <2>3. \A k \in DOMAIN db[d].tables : heap'[db[d].tables[k]] = heap[db[d].tables[k]]
    BY <2>1 DEF Elements
  <2> QED BY <2>1, <2>2, <2>3 DEF ListOf
<1> QED BY <1>1, <1>2

(* A step that keeps the members and the Tables of every object but d.      *)
LEMMA OthersShown ==
  ASSUME IInv, NEW S \in SUBSET Dbs, NEW d \in S,
         \A c \in Dbs \ S : /\ db'[c] = db[c] /\ (c \in torn' <=> c \in torn)
                            /\ c \in adrift' <=> c \in adrift,
         \A a \in DOMAIN heap \ Owned(d) : heap'[a] = heap[a]
  PROVE  Cat!Others(S)
<1> SUFFICES ASSUME NEW c \in Dbs \ S PROVE Shown(c)' = Shown(c)
  BY ShownType DEF Cat!Others, Cat!Stays, Cat!Strays
<1>1. Owned(c) \subseteq DOMAIN heap \ Owned(d)
  <2>1. Owned(c) \subseteq AllOwned
    BY DEF AllOwned
  <2> QED BY <2>1 DEF IInv, OwnerInv
<1> QED BY <1>1, ShownKept

ListTyped ==
  \A d \in Dbs : Usable(d) => /\ Shown(d) = ListOf(db[d], heap)
                              /\ Shown(d) \in Seq(Line)
                              /\ Len(Shown(d)) = Len(db[d].tables)
                              /\ DOMAIN db[d].tables = 1 .. Len(db[d].tables)
                              /\ Cat!Alive(d)

LEMMA ListsTyped == IInv => ListTyped
<1> SUFFICES ASSUME IInv, NEW d \in Dbs, Usable(d)
             PROVE  /\ Shown(d) = ListOf(db[d], heap)
                    /\ Shown(d) \in Seq(Line)
                    /\ Len(Shown(d)) = Len(db[d].tables)
                    /\ DOMAIN db[d].tables = 1 .. Len(db[d].tables)
                    /\ Cat!Alive(d)
  BY DEF ListTyped
<1>1. db[d].tables \in Seq(Addr)
  BY UsableFacts, ObjectFields
<1> QED BY <1>1, ShownList

LEMMA AfterStep == IInv' => ListTyped'
BY ListsTyped, PTL

LEMMA EmptyList ==
  ASSUME IInv', NEW d \in Dbs, Usable(d)', db'[d] = Empty
  PROVE  Shown(d)' = <<>>
<1>1. Shown(d)' \in Seq(Line) /\ Len(Shown(d)') = 0
  BY AfterStep, EmptyAgrees DEF ListTyped
<1> QED BY <1>1

LEMMA ListKept ==
  ASSUME NEW o, NEW h, NEW g, \A a \in Elements(o.tables) : g[a] = h[a]
  PROVE  ListOf(o, g) = ListOf(o, h)
BY DEF ListOf, Elements

LEMMA StoredKept == ASSUME file' = file PROVE Stored' = Stored /\ Mixed' = Mixed
BY DEF Stored, Mixed

(* What every step of the database is to the catalog.                       *)
CatalogStep == [Cat!Next]_(Cat!catVars)

(* A call that changes nothing of the catalog is a stuttering step.         *)
LEMMA Seen ==
  ASSUME file' = file, IInv', Cat!Call
  PROVE  CatalogStep
<1>1. Stored' = Stored /\ Mixed' = Mixed /\ Cat!IsCatalog
  BY StoredKept, StaysCatalog
<1>2. CASE Catalogs' = Catalogs /\ adrift' = adrift
  BY <1>1, <1>2 DEF CatalogStep, Cat!catVars
<1>3. CASE Catalogs' # Catalogs \/ adrift' # adrift
  BY <1>1, <1>3 DEF CatalogStep, Cat!Next
<1> QED BY <1>2, <1>3

LEMMA OneStep ==
  ASSUME IInv, IInv', NEW d \in Dbs, file' = file, torn' = torn,
         \A c \in Dbs \ {d} : db'[c] = db[c] /\ (c \in adrift' <=> c \in adrift),
         \A a \in DOMAIN heap \ Owned(d) : heap'[a] = heap[a],
         \/ Cat!Construct(d) \/ Cat!Destroy(d) \/ Cat!Load(d) \/ Cat!Lose(d)
         \/ Cat!Change(d) \/ Cat!Drop(d) \/ (\E n \in Names : Cat!Create(d, n))
  PROVE  CatalogStep
<1>1. Cat!Others({d})
  BY OthersShown
<1> QED BY <1>1, Seen DEF Cat!Call

-----------------------------------------------------------------------------

LEMMA ConstructStep ==
  ASSUME IInv, IInv', NEW d \in Dbs, Construct(d)
  PROVE  CatalogStep
<1>1. /\ db[d] = Gone /\ db' = [db EXCEPT ![d] = Empty] /\ heap' = heap
      /\ file' = file /\ torn' = torn /\ d \notin torn /\ adrift' = adrift
  BY AbsentFacts DEF Construct
<1>2. db'[d] = Empty /\ \A c \in Dbs \ {d} : db'[c] = db[c]
  BY <1>1 DEF IInv, TypeOK
<1>3. Empty # Gone
  BY EmptyAgrees, DatabaseAssumption
<1>4. Shown(d) = Gone /\ Shown(d)' = <<>>
  BY <1>1, <1>2, <1>3, EmptyList, ShownType DEF Usable
<1>5. Cat!Construct(d)
  BY <1>1, <1>4, ShownType DEF Cat!Construct, Cat!Stays, Cat!Strays
<1> QED BY <1>1, <1>2, <1>5, OneStep

LEMMA DestroyStep ==
  ASSUME IInv, IInv', NEW d \in Dbs, Destroy(d)
  PROVE  CatalogStep
<1>1. /\ Usable(d) /\ db' = [db EXCEPT ![d] = Gone] /\ heap' = Erase(heap, Owned(d))
      /\ file' = file /\ torn' = torn /\ adrift' = adrift \ {d}
  BY DEF Destroy
<1>2. db'[d] = Gone /\ \A c \in Dbs \ {d} : db'[c] = db[c]
  BY <1>1 DEF IInv, TypeOK
<1>3. \A a \in DOMAIN heap \ Owned(d) : heap'[a] = heap[a]
  BY <1>1 DEF Erase
<1>4. Cat!Destroy(d)
  BY <1>1, <1>2, ShownList, ShownType DEF Cat!Destroy, Cat!Strays
<1> QED BY <1>1, <1>2, <1>3, <1>4, OneStep

LEMMA MoveStep ==
  ASSUME IInv, IInv', NEW d \in Dbs, NEW e \in Dbs, d # e, d \notin torn, Usable(e),
         MoveMembers(d, e), file' = file, torn' = torn,
         \A a \in DOMAIN heap \ Owned(d) : heap'[a] = heap[a]
  PROVE  CatalogStep
<1>1. /\ db'[d] = db[e] /\ db'[e] = Empty
      /\ \A c \in Dbs \ {d, e} : db'[c] = db[c] /\ (c \in adrift' <=> c \in adrift)
      /\ (d \in adrift' <=> e \in adrift) /\ e \notin adrift'
  BY DEF MoveMembers, Drifts, IInv, TypeOK
<1>2. Empty # Gone /\ db[e] # Gone /\ e \notin torn /\ Owned(e) = Elements(db[e].tables)
  BY EmptyAgrees, UsableFacts, DatabaseAssumption
<1>3. Usable(d)' /\ Usable(e)'
  BY <1>1, <1>2 DEF Usable
<1>4. Shown(e)' = <<>>
  BY <1>1, <1>3, EmptyList
<1>5. Shown(d)' = Shown(e)
  <2>1. Shown(d)' = ListOf(db[e], heap') /\ Shown(e) = ListOf(db[e], heap)
    BY <1>1, <1>3, AfterStep, ShownList DEF ListTyped
  <2>2. Owned(e) \subseteq DOMAIN heap \ Owned(d)
    <3>1. Owned(e) \subseteq AllOwned
      BY DEF AllOwned
    <3> QED BY <3>1 DEF IInv, OwnerInv
  <2>3. \A a \in Elements(db[e].tables) : heap'[a] = heap[a]
    BY <1>2, <2>2
  <2> QED BY <2>1, <2>3, ListKept
<1>6. Shown(d) # Lost
  <2>1. CASE db[d] = Gone
    BY <2>1, ShownType, DatabaseAssumption
  <2>2. CASE db[d] # Gone
    BY <2>2, ShownList DEF Usable
  <2> QED BY <2>1, <2>2
<1>7. Cat!Move(d, e)
  BY <1>1, <1>4, <1>5, <1>6, ShownList, ShownType DEF Cat!Move, Cat!Strays
<1>8. Cat!Others({d, e})
  <2>1. {d, e} \in SUBSET Dbs /\ d \in {d, e}
    OBVIOUS
  <2>2. \A c \in Dbs \ {d, e} : /\ db'[c] = db[c] /\ (c \in torn' <=> c \in torn)
                                /\ c \in adrift' <=> c \in adrift
    BY <1>1
  <2> QED BY <2>1, <2>2, OthersShown
<1> QED BY <1>7, <1>8, Seen DEF Cat!Call

LEMMA MovesStep ==
  ASSUME IInv, IInv', NEW d \in Dbs, NEW e \in Dbs, MoveConstruct(d, e) \/ MoveAssign(d, e)
  PROVE  CatalogStep
<1>1. CASE MoveConstruct(d, e)
  <2>1. /\ d # e /\ Usable(e) /\ MoveMembers(d, e) /\ heap' = heap
        /\ file' = file /\ torn' = torn /\ d \notin torn
    BY <1>1, AbsentFacts DEF MoveConstruct, Usable
  <2> QED BY <2>1, MoveStep
<1>2. CASE MoveAssign(d, e)
  <2>1. /\ d # e /\ Usable(e) /\ MoveMembers(d, e) /\ heap' = Erase(heap, Owned(d))
        /\ file' = file /\ torn' = torn /\ d \notin torn
    BY <1>2 DEF MoveAssign, Usable
  <2>2. \A a \in DOMAIN heap \ Owned(d) : heap'[a] = heap[a]
    BY <2>1 DEF Erase
  <2> QED BY <2>1, <2>2, MoveStep
<1> QED BY <1>1, <1>2

LEMMA CreateStep ==
  ASSUME IInv, IInv', NEW d \in Dbs, NEW n \in Names, createTable(d, n)
  PROVE  CatalogStep
<1> DEFINE o == db[d]
           N == Len(o.tables)
<1>1. /\ Usable(d) /\ o \in Objects /\ o # Gone /\ d \notin torn
      /\ Settled(o, heap, d, adrift) /\ Owned(d) = Elements(o.tables)
      /\ Owned(d) \subseteq DOMAIN heap
  BY CreateFacts, UsableFacts
<1>2. PICK a \in Addr \ DOMAIN heap :
        /\ db' = [db EXCEPT ![d] = Created(o, n, a)]
        /\ heap'[a] = [name |-> n, id |-> o.nextTableId, data |-> New]
        /\ \A b \in DOMAIN heap : heap'[b] = heap[b]
  BY CreateFacts
<1>3. n \notin DOMAIN o.index /\ file' = file /\ torn' = torn /\ adrift' = adrift
  BY CreateFacts
<1> DEFINE p == Created(o, n, a)
<1>4. db'[d] = p /\ \A c \in Dbs \ {d} : db'[c] = db[c]
  BY <1>2 DEF IInv, TypeOK
<1>5. /\ o.tables \in Seq(Addr) /\ N \in Nat /\ DOMAIN o.tables = 1 .. N
      /\ p.tables = Append(o.tables, a)
      /\ \A k \in 1 .. N : o.tables[k] \in Elements(o.tables)
  <2>1. o.tables \in Seq(Addr)
    BY <1>1, ObjectFields
  <2> QED BY <2>1 DEF Created, Elements
<1>6. /\ DOMAIN p.tables = 1 .. N + 1 /\ p.tables[N + 1] = a
      /\ \A k \in 1 .. N : p.tables[k] = o.tables[k]
  <2> HIDE DEF N, o
  <2>1. Len(o.tables) = N
    BY DEF N
  <2> HIDE DEF p
  <2> QED BY <1>5, <2>1
<1>7. p \in Objects /\ p # Gone
  <2>1. /\ o.nextTableId < MaxId /\ a \in Addr /\ a \notin Elements(o.tables)
        /\ heap'[a].name = n /\ heap'[a].id = o.nextTableId
        /\ \A b \in Elements(o.tables) : heap'[b] = heap[b]
    BY <1>1, <1>2, CreateFacts
  <2> DEFINE q == p
  <2>2. q = Created(o, n, a)
    OBVIOUS
  <2> HIDE DEF o, q, p
  <2>3. q \in Objects
    BY <1>1, <1>3, <2>1, <2>2, SettledCreate
  <2> QED BY <2>2, <2>3, DatabaseAssumption DEF p
<1>8. /\ Shown(d)' = ListOf(p, heap') /\ Shown(d)' \in Seq(Line) /\ Len(Shown(d)') = N + 1
      /\ Shown(d) = ListOf(o, heap) /\ Shown(d) \in Seq(Line) /\ Len(Shown(d)) = N
      /\ Cat!Alive(d)
  <2>1. Usable(d)' /\ Len(p.tables) = N + 1
    <3>1. p.tables \in Seq(Addr)
      BY <1>7, ObjectFields
    <3> HIDE DEF p, N
    <3>2. Len(p.tables) = N + 1
      BY <1>5, <1>6, <3>1
    <3> QED BY <1>1, <1>3, <1>4, <1>7, <3>2 DEF Usable
  <2> HIDE DEF p
  <2> QED BY <1>1, <1>4, <2>1, AfterStep, ShownList DEF ListTyped
<1> DEFINE line == [name |-> n, data |-> New]
<1>9. line \in Line
  BY DatabaseAssumption DEF Line
<1> HIDE DEF p, N, o
<1>10. \A k \in 1 .. N : Shown(d)'[k] = Shown(d)[k]
  <2>1. \A k \in 1 .. N : k \in 1 .. N + 1
    BY <1>5
  <2> QED BY <1>1, <1>2, <1>5, <1>6, <1>8, <2>1 DEF ListOf
<1>11. Shown(d)'[N + 1] = line
  <2>1. N + 1 \in 1 .. N + 1
    BY <1>5
  <2> QED BY <1>2, <1>6, <1>8, <2>1 DEF ListOf
<1> HIDE DEF line
<1>12. Shown(d)' = Append(Shown(d), line)
  <2> DEFINE s == Shown(d)
             t == Shown(d)'
  <2>1. s \in Seq(Line) /\ t \in Seq(Line) /\ Len(s) = N /\ Len(t) = N + 1 /\ N \in Nat
    BY <1>5, <1>8
  <2>2. (\A k \in 1 .. N : t[k] = s[k]) /\ t[N + 1] = line
    BY <1>10, <1>11
  <2> HIDE DEF s, t
  <2>3. t = Append(s, line)
    <3>1. /\ Append(s, line) \in Seq(Line) /\ Len(Append(s, line)) = N + 1
          /\ \A k \in 1 .. N : Append(s, line)[k] = s[k]
          /\ Append(s, line)[N + 1] = line
      BY <1>9, <2>1
    <3>2. \A k \in 1 .. N + 1 : k \in 1 .. N \/ k = N + 1
      BY <2>1
    <3>3. \A k \in 1 .. N + 1 : t[k] = Append(s, line)[k]
      BY <2>2, <3>1, <3>2
    <3> QED BY <2>1, <3>1, <3>3, SeqEqual
  <2> QED BY <2>3 DEF s, t
<1>13. d \notin adrift => n \notin Cat!Named(Shown(d))
  <2>1. DOMAIN Shown(d) = 1 .. N /\ \A k \in 1 .. N : Shown(d)[k].name = heap[o.tables[k]].name
    BY <1>5, <1>8 DEF ListOf
  <2>2. d \notin adrift => \A k \in 1 .. N : heap[o.tables[k]].name \in DOMAIN o.index
    BY <1>1, <1>5 DEF Settled, Agrees
  <2> QED BY <1>3, <2>1, <2>2 DEF Cat!Named
<1>14. Cat!Create(d, n)
  BY <1>3, <1>8, <1>12, <1>13, ShownType DEF Cat!Create, Cat!Stays, Cat!Strays, line
<1> QED BY <1>2, <1>3, <1>4, <1>14, OneStep

LEMMA DropStep ==
  ASSUME IInv, IInv', NEW d \in Dbs, NEW n \in Names, dropTable(d, n)
  PROVE  CatalogStep
<1> DEFINE o == db[d]
           N == Len(o.tables)
           gone == Going(d, n)
<1>1. /\ Usable(d) /\ o \in Objects /\ d \notin torn
      /\ Settled(o, heap, d, adrift) /\ Owned(d) = Elements(o.tables)
      /\ Owned(d) \subseteq DOMAIN heap
  BY DropFacts, UsableFacts
<1>2. n \in DOMAIN o.index /\ file' = file /\ torn' = torn /\ adrift' = adrift
  BY DropFacts
<1>3. PICK rest \in Removed(o.tables, gone) : db' = [db EXCEPT ![d] = Dropped(o, n, rest)]
  BY DropFacts
<1>4. /\ \A b \in DOMAIN heap \ gone : heap'[b] = heap[b]
      /\ gone \subseteq Owned(d) /\ gone = WithId(o, heap, o.index[n])
  BY <1>1, DropFacts DEF Going, WithId
<1> DEFINE p == Dropped(o, n, rest)
<1>5. db'[d] = p /\ \A c \in Dbs \ {d} : db'[c] = db[c]
  BY <1>3 DEF IInv, TypeOK
<1>6. o.tables \in Seq(Addr) /\ N \in Nat /\ DOMAIN o.tables = 1 .. N /\ p.tables = rest
  <2>1. o.tables \in Seq(Addr)
    BY <1>1, ObjectFields
  <2> QED BY <2>1 DEF Dropped
<1> HIDE DEF gone
<1>9. p \in Objects /\ p # Gone
  <2>1. /\ rest \in Removed(o.tables, WithId(o, heap, o.index[n]))
        /\ \A b \in Elements(o.tables) \ WithId(o, heap, o.index[n]) : heap'[b] = heap[b]
    BY <1>1, <1>3, <1>4
  <2> HIDE DEF o, p
  <2>2. Dropped(o, n, rest) \in Objects
    BY <1>1, <1>2, <2>1, SettledDrop
  <2> QED BY <2>2, DatabaseAssumption DEF p
<1>10. /\ Shown(d)' = ListOf(p, heap')
       /\ Shown(d) = ListOf(o, heap) /\ Len(Shown(d)) = N /\ DOMAIN Shown(d) = 1 .. N
       /\ Cat!Alive(d)
  <2>1. Usable(d)'
    BY <1>1, <1>2, <1>5, <1>9 DEF Usable
  <2>2. DOMAIN ListOf(o, heap) = 1 .. N
    BY <1>6 DEF ListOf
  <2> HIDE DEF p
  <2> QED BY <1>1, <1>5, <2>1, <2>2, AfterStep, ShownList DEF ListTyped
<1> HIDE DEF o, p, N
<1>11. ASSUME d \notin adrift PROVE Cat!Drop(d)
  <2>1. PICK a \in Elements(o.tables) : gone = {a}
    <3>1. Agrees(o, heap)
      BY <1>1, <1>11 DEF Settled
    <3> QED BY <1>2, <1>4, <3>1, DropsOne
  <2>2. PICK m \in 1 .. N : o.tables[m] = a
    BY <1>6, <2>1 DEF Elements
  <2>3. /\ DOMAIN rest = 1 .. N - 1
        /\ \A k \in 1 .. N - 1 : rest[k] = IF k < m THEN o.tables[k] ELSE o.tables[k + 1]
    <3> DEFINE t == o.tables
    <3>1. /\ t \in Seq(Addr) /\ Injective(t) /\ m \in DOMAIN t /\ N = Len(t)
          /\ rest \in Removed(t, {t[m]})
      BY <1>1, <1>3, <1>6, <2>1, <2>2 DEF Settled, N
    <3> HIDE DEF t
    <3> QED BY <3>1, RemovedOne DEF t
  <2>4. \A k \in 1 .. N : k # m => o.tables[k] # a /\ o.tables[k] \in DOMAIN heap
    BY <1>1, <1>6, <2>2 DEF Settled, Injective, Elements
  <2>5. \A k \in 1 .. N - 1 : ListOf(p, heap')[k] = IF k < m THEN ListOf(o, heap)[k]
                                                     ELSE ListOf(o, heap)[k + 1]
    <3> SUFFICES ASSUME NEW k \in 1 .. N - 1, NEW j \in 1 .. N, j # m, rest[k] = o.tables[j]
                 PROVE  ListOf(p, heap')[k] = ListOf(o, heap)[j]
      BY <1>6, <2>3
    <3>1. heap'[o.tables[j]] = heap[o.tables[j]]
      BY <1>4, <2>1, <2>4
    <3> QED BY <1>6, <2>3, <3>1 DEF ListOf
  <2>6. DOMAIN ListOf(p, heap') = 1 .. N - 1
    BY <1>6, <2>3 DEF ListOf
  <2>7. Shown(d)' = Cat!Dropped(Shown(d), m)
    BY <1>10, <2>5, <2>6 DEF Cat!Dropped, ListOf
  <2> QED BY <1>2, <1>10, <2>2, <2>7, ShownType DEF Cat!Drop, Cat!Stays, Cat!Strays
<1>12. ASSUME d \in adrift PROVE Cat!Drop(d)
  <2>1. PICK n1 \in Nat : \E f : /\ n1 <= N /\ Enumerates(f, n1, Kept(o.tables, gone))
                                /\ rest = [i \in 1 .. n1 |-> o.tables[f[i]]]
    <3> DEFINE t == o.tables
    <3>1. t \in Seq(Addr) /\ N = Len(t) /\ rest \in Removed(t, gone)
      BY <1>3, <1>6 DEF N
    <3> HIDE DEF t
    <3> QED BY <3>1, RemovedEnumerates DEF t
  <2>2. PICK f : /\ n1 <= N /\ Enumerates(f, n1, Kept(o.tables, gone))
                 /\ rest = [i \in 1 .. n1 |-> o.tables[f[i]]]
    BY <2>1
  <2>9. /\ f \in [1 .. n1 -> Kept(o.tables, gone)] /\ DOMAIN f = 1 .. n1
        /\ \A i, j \in 1 .. n1 : i < j => f[i] < f[j]
    BY <2>2 DEF Enumerates
  <2>3. \A k \in DOMAIN f : /\ f[k] \in 1 .. N /\ o.tables[f[k]] \notin gone
                            /\ o.tables[f[k]] \in DOMAIN heap
    BY <1>1, <1>6, <2>9 DEF Kept, Elements
  <2>4. DOMAIN rest = DOMAIN f /\ \A k \in DOMAIN f : rest[k] = o.tables[f[k]]
    BY <2>2, <2>9
  <2>5. \A k \in DOMAIN f : ListOf(p, heap')[k] = Shown(d)[f[k]]
    <3> SUFFICES ASSUME NEW k \in DOMAIN f PROVE ListOf(p, heap')[k] = Shown(d)[f[k]]
      OBVIOUS
    <3>1. heap'[o.tables[f[k]]] = heap[o.tables[f[k]]]
      BY <1>4, <2>3
    <3>2. ListOf(p, heap')[k] = [name |-> heap'[o.tables[f[k]]].name,
                                 data |-> heap'[o.tables[f[k]]].data]
      BY <1>6, <2>4 DEF ListOf
    <3>3. Shown(d)[f[k]] = [name |-> heap[o.tables[f[k]]].name,
                            data |-> heap[o.tables[f[k]]].data]
      BY <1>6, <1>10, <2>3 DEF ListOf
    <3> QED BY <3>1, <3>2, <3>3
  <2>6. Shown(d)' = [k \in DOMAIN f |-> Shown(d)[f[k]]]
    <3>1. ListOf(p, heap') = [k \in DOMAIN f |-> ListOf(p, heap')[k]]
      BY <1>6, <2>4 DEF ListOf
    <3> QED BY <1>10, <2>5, <3>1
  <2>7. f \in UNION {[1 .. n2 -> DOMAIN Shown(d)] : n2 \in 0 .. Len(Shown(d))}
    <3>1. f \in [1 .. n1 -> DOMAIN Shown(d)]
      BY <1>10, <2>3, <2>9
    <3>2. n1 \in 0 .. Len(Shown(d))
      BY <1>10, <2>1, <2>2
    <3> QED BY <3>1, <3>2
  <2>8. Shown(d)' \in Cat!Left(Shown(d))
    BY <2>6, <2>7, <2>9 DEF Cat!Left
  <2> QED BY <1>2, <1>10, <1>12, <2>8, ShownType DEF Cat!Drop, Cat!Stays, Cat!Strays
<1>15. Cat!Drop(d)
  BY <1>11, <1>12
<1>16. \A b \in DOMAIN heap \ Owned(d) : heap'[b] = heap[b]
  BY <1>4
<1> QED BY <1>2, <1>5, <1>15, <1>16, OneStep

LEMMA ChangeStep ==
  ASSUME IInv, IInv', NEW d \in Dbs, NEW a \in Owned(d), NEW t \in TableObject,
         ChangeTable(d, a, t)
  PROVE  CatalogStep
<1> DEFINE o == db[d]
           N == Len(o.tables)
           line == [name |-> t.name, data |-> t.data]
           same == t.name = heap[a].name /\ t.id = heap[a].id
<1>1. /\ Usable(d) /\ o \in Objects /\ d \notin torn
      /\ Injective(o.tables) /\ Owned(d) = Elements(o.tables)
      /\ Owned(d) \subseteq DOMAIN heap
      /\ db' = db /\ file' = file /\ torn' = torn
  BY ChangeFacts, UsableFacts DEF Settled
<1>2. /\ \A b \in DOMAIN heap : b # a => heap'[b] = heap[b]
      /\ heap'[a] = t
      /\ adrift' = IF same THEN adrift ELSE adrift \cup {d}
  BY ChangeFacts
<1>3. o.tables \in Seq(Addr) /\ N \in Nat /\ DOMAIN o.tables = 1 .. N
  <2>1. o.tables \in Seq(Addr)
    BY <1>1, ObjectFields
  <2> QED BY <2>1
<1>4. PICK m \in 1 .. N : o.tables[m] = a
  BY <1>1, <1>3 DEF Elements
<1>5. /\ Shown(d)' = ListOf(o, heap') /\ Shown(d) = ListOf(o, heap)
      /\ Cat!Alive(d) /\ Cat!Alive(d)'
  <2>1. Usable(d)'
    BY <1>1 DEF Usable
  <2> QED BY <1>1, <2>1, AfterStep, ShownList DEF ListTyped
<1>6. line \in Line
  BY DEF TableObject, Line
<1>7. heap[a].name # t.name => ~same
  OBVIOUS
<1> HIDE DEF o, N, line, same
<1>8. \A k \in 1 .. N : k # m => heap'[o.tables[k]] = heap[o.tables[k]]
  <2>1. \A k \in 1 .. N : k # m => o.tables[k] # a /\ o.tables[k] \in DOMAIN heap
    BY <1>1, <1>3, <1>4 DEF Injective, Elements
  <2> QED BY <1>2, <2>1
<1>9. /\ DOMAIN Shown(d) = 1 .. N /\ DOMAIN Shown(d)' = 1 .. N
      /\ \A k \in 1 .. N : k # m => Shown(d)'[k] = Shown(d)[k]
      /\ Shown(d)'[m] = line
      /\ Shown(d)[m].name = heap[a].name
      /\ Shown(d)' = [k \in 1 .. N |-> Shown(d)'[k]]
  <2>1. /\ ListOf(o, heap) = [k \in 1 .. N |-> [name |-> heap[o.tables[k]].name,
                                                data |-> heap[o.tables[k]].data]]
        /\ ListOf(o, heap') = [k \in 1 .. N |-> [name |-> heap'[o.tables[k]].name,
                                                 data |-> heap'[o.tables[k]].data]]
    BY <1>3 DEF ListOf
  <2>2. heap'[o.tables[m]] = t
    BY <1>2, <1>4
  <2> QED BY <1>4, <1>5, <1>8, <2>1, <2>2 DEF line
<1>10. Shown(d)' = [Shown(d) EXCEPT ![m] = Shown(d)'[m]]
  <2> DEFINE s == Shown(d)
             r == Shown(d)'
             q == [s EXCEPT ![m] = r[m]]
  <2>1. r = [k \in 1 .. N |-> r[k]] /\ DOMAIN s = 1 .. N /\ \A k \in 1 .. N : k # m => r[k] = s[k]
    BY <1>9
  <2> HIDE DEF s, r
  <2>2. q = [k \in 1 .. N |-> IF k = m THEN r[m] ELSE s[k]]
    BY <2>1
  <2>3. q = r
    BY <2>1, <2>2
  <2> QED BY <2>3 DEF s, r
<1>11. /\ (d \in adrift' <=> d \in adrift) \/ d \in adrift'
       /\ d \notin adrift' => line.name = heap[a].name
  BY <1>2, <1>7 DEF line
<1>12. Cat!Change(d)
  <2>1. m \in DOMAIN Catalogs[d] \cap DOMAIN Catalogs'[d]
    BY <1>4, <1>9, ShownType
  <2>2. Cat!Stays(d) \/ Cat!Strays(d, TRUE)
    BY <1>11 DEF Cat!Stays, Cat!Strays
  <2>3. Catalogs'[d] \notin {Gone, Lost}
    BY <1>5, ShownType DEF Cat!Alive
  <2>4. /\ Catalogs'[d][m] \in Line
        /\ Catalogs'[d] = [Catalogs[d] EXCEPT ![m] = Catalogs'[d][m]]
        /\ d \notin adrift' => Catalogs'[d][m].name = Catalogs[d][m].name
    BY <1>6, <1>9, <1>10, <1>11, ShownType
  <2> QED BY <1>5, <2>1, <2>2, <2>3, <2>4 DEF Cat!Change, Line
<1>13. /\ \A b \in DOMAIN heap \ Owned(d) : heap'[b] = heap[b]
       /\ \A c \in Dbs \ {d} : db'[c] = db[c] /\ (c \in adrift' <=> c \in adrift)
  BY <1>1, <1>2
<1> QED BY <1>1, <1>12, <1>13, OneStep

LEMMA SaveStep ==
  ASSUME IInv, IInv', NEW d \in Dbs, save(d)
  PROVE  CatalogStep
<1>1. /\ Usable(d) /\ file' = toJson(d)
      /\ db' = db /\ heap' = heap /\ torn' = torn /\ adrift' = adrift
  BY DEF save
<1>2. Catalogs' = Catalogs
  BY <1>1 DEF Catalogs, Shown, toJson
<1>3. Shown(d) = Listed(toJson(d).tables)
  BY <1>1 DEF Shown, Usable
<1>4. file' # NoFile
  <2>1. file' \in Files
    <3> DEFINE ts == toJson(d).tables
               n == Len(db[d].tables)
               e(k) == heap[db[d].tables[k]]
    <3>1. Usable(d) /\ n \in Nat /\ DOMAIN db[d].tables = 1 .. n
      BY <1>1, UsableFacts, ObjectFields
    <3>2. \A k \in 1 .. n : e(k) \in TableObject
      BY <3>1, UsableFacts DEF Elements
    <3>3. toJson(d) = [named |-> TRUE, tables |-> ts] /\ ts = [k \in 1 .. n |-> e(k)]
      BY <3>1 DEF toJson
    <3> HIDE DEF n, e, ts
    <3>4. ts \in Seq(TableObject)
      BY <3>1, <3>2, <3>3
    <3> QED BY <1>1, <3>3, <3>4 DEF Files
  <2> QED BY <2>1, DatabaseAssumption
<1>5. Stored' = Shown(d)
  BY <1>1, <1>3, <1>4 DEF Stored
<1>7. Mixed' => d \in adrift
  <2> SUFFICES ASSUME d \notin adrift PROVE Distinct(toJson(d).tables)
    BY <1>1 DEF Mixed
  <2> DEFINE o == db[d]
  <2>1. Agrees(o, heap)
    BY <1>1, UsableFacts DEF Settled
  <2>2. /\ DOMAIN toJson(d).tables = DOMAIN o.tables
        /\ \A k \in DOMAIN o.tables : /\ toJson(d).tables[k] = heap[o.tables[k]]
                                       /\ o.tables[k] \in Elements(o.tables)
    BY DEF toJson, Elements
  <2> HIDE DEF o
  <2>3. ASSUME NEW j \in DOMAIN o.tables, NEW k \in DOMAIN o.tables,
               \/ heap[o.tables[j]].name = heap[o.tables[k]].name
               \/ heap[o.tables[j]].id = heap[o.tables[k]].id
        PROVE  j = k
    <3>1. heap[o.tables[j]].id = heap[o.tables[k]].id
      BY <2>1, <2>2, <2>3 DEF Agrees
    <3>2. o.tables[j] = o.tables[k]
      BY <2>1, <2>2, <3>1 DEF Agrees
    <3> QED BY <2>1, <3>2 DEF Agrees, Injective
  <2> QED BY <2>2, <2>3 DEF Distinct
<1>6. Cat!Save(d)
  BY <1>1, <1>5, <1>7, ShownList, ShownType DEF Cat!Save
<1>8. Mixed' \in BOOLEAN
  BY DEF Mixed
<1> QED BY <1>1, <1>2, <1>6, <1>8 DEF CatalogStep, Cat!Next, Cat!catVars

(* What a load reads is a list the file holds.                              *)
LEMMA StoredList ==
  ASSUME IInv, NEW e \in Envelopes
  PROVE  /\ file \in Files /\ file # NoFile
         /\ Stored = Listed(file.tables) /\ Stored \notin {Gone, Lost, NoFile}
<1>1. file \in Files /\ file # NoFile
  BY DEF Envelopes, IInv, TypeOK
<1>2. /\ Len(file.tables) \in Nat /\ DOMAIN file.tables = 1 .. Len(file.tables)
      /\ \A k \in 1 .. Len(file.tables) : file.tables[k] \in TableObject
  BY <1>1 DEF Files
<1>3. \A k \in 1 .. Len(file.tables) :
        [name |-> file.tables[k].name, data |-> file.tables[k].data] \in Line
  BY <1>2 DEF TableObject, Line
<1>4. Listed(file.tables) \in Seq(Line)
  <2> DEFINE n == Len(file.tables)
             l(k) == [name |-> file.tables[k].name, data |-> file.tables[k].data]
  <2>1. n \in Nat /\ (\A k \in 1 .. n : l(k) \in Line) /\ Listed(file.tables) = [k \in 1 .. n |-> l(k)]
    BY <1>2, <1>3 DEF Listed
  <2> HIDE DEF n, l
  <2> QED BY <2>1
<1> QED BY <1>1, <1>4, DatabaseAssumption DEF Stored, Line

LEMMA LoadStep ==
  ASSUME IInv, IInv', NEW d \in Dbs, load(d)
  PROVE  CatalogStep
<1> DEFINE ts == file.tables
           n == Len(file.tables)
<1>1. PICK e \in Envelopes :
        /\ AllTables(e.tables)
        /\ \E f \in Fresh(Len(e.tables)) :
             /\ heap' = Erase(With(heap, f, e.tables), Owned(d))
             /\ \E q \in Loaded(e.tables, f) : db' = [db EXCEPT ![d] = q]
        /\ adrift' = Drifts(d, ~Distinct(e.tables))
  BY DEF load
<1>2. /\ ts \in Seq(TableObject) /\ e.tables = ts
      /\ file # NoFile /\ Stored = Listed(ts) /\ Stored \notin {Gone, Lost, NoFile}
  BY <1>1, EnvelopeTables, StoredList DEF IInv, FileInv
<1>3. PICK f \in Fresh(n) : /\ heap' = Erase(With(heap, f, ts), Owned(d))
                            /\ \E q \in Loaded(ts, f) : db' = [db EXCEPT ![d] = q]
  BY <1>1, <1>2
<1>4. n \in Nat /\ DOMAIN ts = 1 .. n
  BY <1>2
<1>5. /\ f \in Seq(Addr) /\ Len(f) = n /\ DOMAIN f = 1 .. n /\ Injective(f)
      /\ Elements(f) \subseteq Addr \ DOMAIN heap
  BY <1>4, FreshAddresses
<1>6. /\ Usable(d) /\ file' = file /\ torn' = torn /\ d \notin torn
      /\ Owned(d) \subseteq DOMAIN heap
  BY UsableFacts DEF load
<1>7. \A a \in DOMAIN heap \ Owned(d) : heap'[a] = heap[a]
  BY <1>3, <1>5, <1>6 DEF Erase, With
<1>8. \A k \in 1 .. n : heap'[f[k]] = ts[k]
  <2>1. \A k \in 1 .. n : With(heap, f, ts)[f[k]] = ts[k] /\ f[k] \in Elements(f)
    BY <1>4, <1>5, Withs DEF Elements
  <2> QED BY <1>3, <1>4, <1>5, <1>6, <2>1 DEF Erase, With
<1>15. PICK p \in Loaded(ts, f) : db' = [db EXCEPT ![d] = p]
  BY <1>3
<1>9. /\ p.tables = f /\ db'[d] = p
      /\ \A c \in Dbs \ {d} : db'[c] = db[c] /\ (c \in adrift' <=> c \in adrift)
      /\ d \in adrift' <=> Mixed
  <2>1. p.tables = f
    BY <1>15 DEF Loaded
  <2>2. db'[d] = p /\ \A c \in Dbs \ {d} : db'[c] = db[c]
    BY <1>15 DEF IInv, TypeOK
  <2>3. adrift' = Drifts(d, ~Distinct(file.tables)) /\ file # NoFile
    BY <1>1, <1>2
  <2>4. /\ \A c \in Dbs \ {d} : c \in adrift' <=> c \in adrift
        /\ d \in adrift' <=> ~Distinct(file.tables)
    BY <2>3 DEF Drifts
  <2> QED BY <2>1, <2>2, <2>3, <2>4 DEF Mixed
<1>16. d \notin adrift' => Distinct(ts)
  BY <1>2, <1>9 DEF Mixed
<1> HIDE DEF ts, n
<1>10. db'[d] # Gone
  <2>1. d \notin torn' /\ (db'[d] = Gone => Shown(d)' = Gone)
    BY <1>6, ShownType
  <2>2. db'[d] \in Objects
    <3>1. Len(f) = Len(ts)
      BY <1>5 DEF n, ts
    <3>2. Holds(heap', f, ts)
      BY <1>4, <1>8 DEF Holds
    <3> QED BY <1>2, <1>5, <1>9, <1>15, <1>16, <3>1, <3>2, SettledLoaded
  <2> QED BY <2>2, DatabaseAssumption
<1>11. Usable(d)'
  BY <1>6, <1>10 DEF Usable
<1>12. Shown(d)' = ListOf(p, heap')
  BY <1>9, <1>11, AfterStep DEF ListTyped
<1>13. ListOf(p, heap') = Listed(ts)
  BY <1>4, <1>5, <1>8, <1>9 DEF ListOf, Listed
<1>14. Cat!Load(d)
  BY <1>2, <1>6, <1>9, <1>12, <1>13, ShownList, ShownType DEF Cat!Load, Cat!Strays
<1> QED BY <1>6, <1>7, <1>9, <1>14, OneStep

(* A load that throws leaves every object it does not tear as it was.       *)
LEMMA LoadTableThrowsStep ==
  ASSUME IInv, IInv', NEW d \in Dbs, LoadTableThrows(d)
  PROVE  CatalogStep
<1>1. db' = db /\ file' = file /\ torn' = torn /\ adrift' = adrift
  BY DEF LoadTableThrows
<1>2. \A a \in DOMAIN heap : heap'[a] = heap[a]
  BY DEF LoadTableThrows, With
<1>3. \A c \in Dbs : Owned(c) \subseteq DOMAIN heap
  BY UsableFacts DEF Owned
<1>4. \A c \in Dbs : Shown(c)' = Shown(c)
  BY <1>1, <1>2, <1>3, ShownKept
<1>5. Catalogs' = Catalogs
  BY <1>4 DEF Catalogs
<1> QED BY <1>1, <1>5, StoredKept DEF CatalogStep, Cat!catVars

LEMMA LoadNameThrowsStep ==
  ASSUME IInv, IInv', NEW d \in Dbs, LoadNameThrows(d)
  PROVE  CatalogStep
<1>1. PICK e \in Envelopes :
        /\ AllTables(e.tables)
        /\ \E f \in Fresh(Len(e.tables)) :
             heap' = Erase(With(heap, f, [k \in DOMAIN f |-> Lost]), Owned(d))
  BY DEF LoadNameThrows
<1>2. PICK f \in Fresh(Len(e.tables)) :
        heap' = Erase(With(heap, f, [k \in DOMAIN f |-> Lost]), Owned(d))
  BY <1>1
<1>3. /\ Usable(d) /\ db' = db /\ file' = file /\ adrift' = adrift
      /\ torn' = IF Owned(d) = {} THEN torn ELSE torn \cup {d}
      /\ Cat!Alive(d)
  BY ShownList DEF LoadNameThrows
<1>4. \A a \in DOMAIN heap \ Owned(d) : heap'[a] = heap[a]
  BY <1>2 DEF Erase, With
<1>5. Stored' = Stored /\ Mixed' = Mixed /\ Stored # NoFile
  BY <1>1, <1>3, StoredKept, StoredList
<1>6. CASE Owned(d) = {}
  <2>1. \A c \in Dbs : \A a \in Owned(c) : a \in DOMAIN heap \ Owned(d)
    BY <1>6, UsableFacts DEF Owned
  <2>2. \A c \in Dbs : Shown(c)' = Shown(c)
    BY <1>3, <1>4, <1>6, <2>1, ShownKept
  <2>3. Catalogs' = Catalogs
    BY <2>2 DEF Catalogs
  <2> QED BY <1>3, <1>5, <2>3 DEF CatalogStep, Cat!catVars
<1>7. CASE Owned(d) # {}
  <2>1. Shown(d)' = Lost
    BY <1>3, <1>7 DEF Shown, Usable
  <2>2. Cat!Lose(d)
    BY <1>3, <1>5, <2>1, ShownType DEF Cat!Lose, Cat!Stays, Cat!Strays
  <2>3. Cat!Others({d})
    BY <1>3, <1>4, <1>7, OthersShown
  <2> QED BY <1>3, <2>2, <2>3, Seen DEF Cat!Call
<1> QED BY <1>6, <1>7

LEMMA StutterStep ==
  ASSUME UNCHANGED vars
  PROVE  CatalogStep
BY DEF CatalogStep, vars, Cat!catVars, Catalogs, Shown, toJson, Stored, Mixed

LEMMA StepRefines ==
  ASSUME IInv, IInv', [Next]_vars
  PROVE  CatalogStep
<1>1. CASE UNCHANGED vars
  BY <1>1, StutterStep
<1>2. ASSUME NEW d \in Dbs, Construct(d) \/ Destroy(d) PROVE CatalogStep
  BY <1>2, ConstructStep, DestroyStep
<1>3. ASSUME NEW d \in Dbs, NEW e \in Dbs, MoveConstruct(d, e) \/ MoveAssign(d, e)
      PROVE  CatalogStep
  BY <1>3, MovesStep
<1>4. ASSUME NEW d \in Dbs, NEW n \in Names, createTable(d, n) \/ dropTable(d, n)
      PROVE  CatalogStep
  BY <1>4, CreateStep, DropStep
<1>5. ASSUME NEW d \in Dbs, NEW a \in Owned(d), NEW t \in TableObject, ChangeTable(d, a, t)
      PROVE  CatalogStep
  BY <1>5, ChangeStep
<1>6. ASSUME NEW d \in Dbs, save(d) \/ load(d) PROVE CatalogStep
  BY <1>6, SaveStep, LoadStep
<1>7. ASSUME NEW d \in Dbs, LoadTableThrows(d) \/ LoadNameThrows(d)
      PROVE  CatalogStep
  BY <1>7, LoadTableThrowsStep, LoadNameThrowsStep
<1>8. ASSUME NEW d \in Dbs, Failures(d) PROVE CatalogStep
  BY <1>8, FailuresChangeNothing, StutterStep
<1> QED BY <1>1, <1>2, <1>3, <1>4, <1>5, <1>6, <1>7, <1>8 DEF Next, Failures

(* An object shows a list of named tables, and every call does to that list *)
(* what the catalog says: no id, pointer, index or address shows through.   *)
THEOREM ImplementsCatalog == Spec => CatalogSpec
<1>1. Init => Cat!Init
  BY DEF Init, Cat!Init, Catalogs, Shown, Stored, Mixed
<1>2. IInv /\ IInv' /\ [Next]_vars => [Cat!Next]_(Cat!catVars)
  BY StepRefines DEF CatalogStep
<1> QED BY Invariant, <1>1, <1>2, PTL DEF Spec, CatalogSpec, Cat!Spec

=============================================================================
