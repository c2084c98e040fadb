------------------------- MODULE StorageEngineProofs -------------------------
(***************************************************************************)
(* Theorems about StorageEngine: the cache is well formed, no update of a  *)
(* page in its plain life cycle is lost, a fetch serves the latest version *)
(* and nothing but the overflow of a full cache drops a dirty page.        *)
(*                                                                         *)
(* The order of the cache matters for nothing but which page is dropped:   *)
(* the lemmas turn every change of the sequence into one of its entries.   *)
(***************************************************************************)
EXTENDS StorageEngine, SequenceTheorems, TLAPS

Entries(s) == {s[i] : i \in DOMAIN s}

OneEntryPerKey(s) == \A i, j \in DOMAIN s : s[i].key = s[j].key => i = j
WellFormed(s) == s \in Seq(Pages) /\ OneEntryPerKey(s)

(* The entries of the other keys.                                           *)
Others(k) == {q \in Entries(cache) : q.key # k}

-----------------------------------------------------------------------------
(* Sequences of entries.                                                   *)

LEMMA Prefixed ==
  ASSUME NEW s, NEW p \in Pages, WellFormed(s), \A q \in Entries(s) : q.key # p.key
  PROVE  /\ WellFormed(<<p>> \o s) /\ Len(<<p>> \o s) = Len(s) + 1
         /\ Entries(<<p>> \o s) = {p} \cup Entries(s)
<1> DEFINE t == <<p>> \o s
           n == Len(s)
<1>1. s \in Seq(Pages) /\ n \in Nat /\ DOMAIN s = 1 .. n
  BY DEF WellFormed
<1>2. /\ t \in Seq(Pages) /\ Len(t) = n + 1 /\ DOMAIN t = 1 .. n + 1
      /\ t[1] = p /\ \A i \in 1 .. n : t[i + 1] = s[i]
  BY <1>1
<1> HIDE DEF t, n
<1>3. \A i \in 1 .. n + 1 : i = 1 \/ (i - 1 \in 1 .. n /\ t[i] = s[i - 1])
  BY <1>1, <1>2
<1>4. Entries(t) = {p} \cup Entries(s)
  <2>1. \A i \in 1 .. n + 1 : t[i] \in {p} \cup Entries(s)
    BY <1>1, <1>2, <1>3 DEF Entries
  <2>2. \A i \in 1 .. n : s[i] \in Entries(t)
    <3>1. \A i \in 1 .. n : i + 1 \in 1 .. n + 1
      BY <1>1
    <3> QED BY <1>2, <3>1 DEF Entries
  <2>3. p \in Entries(t)
    <3>1. 1 \in 1 .. n + 1
      BY <1>1
    <3> QED BY <1>2, <3>1 DEF Entries
  <2> QED BY <1>1, <1>2, <2>1, <2>2, <2>3 DEF Entries
<1>5. OneEntryPerKey(t)
  <2> SUFFICES ASSUME NEW i \in 1 .. n + 1, NEW j \in 1 .. n + 1, t[i].key = t[j].key
               PROVE  i = j
    BY <1>2 DEF OneEntryPerKey
  <2>1. \A l \in 1 .. n : s[l].key # p.key
    BY <1>1 DEF Entries
  <2>2. i = 1 <=> j = 1
    BY <1>2, <1>3, <2>1
  <2>3. CASE i # 1 /\ j # 1
    <3>1. i - 1 = j - 1
      BY <1>1, <1>3, <2>3 DEF WellFormed, OneEntryPerKey
    <3> QED BY <3>1
  <2> QED BY <2>2, <2>3
<1> QED BY <1>2, <1>4, <1>5 DEF WellFormed, t, n

LEMMA Shortened ==
  ASSUME NEW s, WellFormed(s), NEW n \in 0 .. Len(s)
  PROVE  /\ WellFormed(SubSeq(s, 1, n)) /\ Len(SubSeq(s, 1, n)) = n
         /\ Entries(SubSeq(s, 1, n)) = {s[i] : i \in 1 .. n}
<1> DEFINE t == SubSeq(s, 1, n)
<1>1. s \in Seq(Pages) /\ Len(s) \in Nat /\ DOMAIN s = 1 .. Len(s) /\ n \in Nat
  BY DEF WellFormed
<1>2. \A i \in 1 .. n : i \in DOMAIN s /\ s[i] \in Pages
  BY <1>1
<1>3. t \in Seq(Pages) /\ Len(t) = n /\ \A i \in 1 .. n : t[i] = s[i]
  BY <1>1, <1>2, SubSeqProperties
<1>4. DOMAIN t = 1 .. n
  BY <1>3
<1> HIDE DEF t
<1>5. OneEntryPerKey(t)
  BY <1>2, <1>3, <1>4 DEF OneEntryPerKey, WellFormed
<1> QED BY <1>3, <1>4, <1>5 DEF WellFormed, Entries, t

LEMMA Spliced ==
  ASSUME NEW s, WellFormed(s), NEW i \in DOMAIN s
  PROVE  /\ WellFormed(RemoveAt(s, i)) /\ Len(RemoveAt(s, i)) = Len(s) - 1
         /\ Entries(RemoveAt(s, i)) = {q \in Entries(s) : q.key # s[i].key}
<1> DEFINE n == Len(s)
           a == SubSeq(s, 1, i - 1)
           b == SubSeq(s, i + 1, n)
           t == a \o b
<1>1. s \in Seq(Pages) /\ n \in Nat /\ DOMAIN s = 1 .. n /\ i \in 1 .. n
  BY DEF WellFormed
<1>2. \A j \in 1 .. n : s[j] \in Pages
  BY <1>1
<1>3. a \in Seq(Pages) /\ Len(a) = i - 1 /\ \A j \in 1 .. i - 1 : a[j] = s[j]
  <2>1. \A j \in 1 .. i - 1 : j \in 1 .. n
    BY <1>1
  <2> QED BY <1>1, <1>2, <2>1, SubSeqProperties
<1>4. b \in Seq(Pages) /\ Len(b) = n - i /\ \A j \in 1 .. n - i : b[j] = s[j + i]
  <2>1. \A j \in i + 1 .. n : j \in 1 .. n
    BY <1>1
  <2> QED BY <1>1, <1>2, <2>1, SubSeqProperties
<1> HIDE DEF a, b, n
<1>5. /\ t \in Seq(Pages) /\ Len(t) = n - 1 /\ DOMAIN t = 1 .. n - 1
      /\ \A j \in 1 .. n - 1 : t[j] = IF j < i THEN s[j] ELSE s[j + 1]
  <2>1. /\ t \in Seq(Pages) /\ Len(t) = Len(a) + Len(b)
        /\ \A j \in 1 .. Len(a) + Len(b) : t[j] = IF j <= Len(a) THEN a[j] ELSE b[j - Len(a)]
    BY <1>3, <1>4, ConcatProperties
  <2>2. Len(a) + Len(b) = n - 1 /\ Len(a) = i - 1
    BY <1>1, <1>3, <1>4
  <2>3. \A j \in 1 .. n - 1 : j < i => j \in 1 .. i - 1
    BY <1>1
  <2>4. \A j \in 1 .. n - 1 : ~(j < i) => j - (i - 1) \in 1 .. n - i /\ (j - (i - 1)) + i = j + 1
    BY <1>1
  <2> HIDE DEF t
  <2>5. \A j \in 1 .. n - 1 : t[j] = IF j < i THEN a[j] ELSE b[j - (i - 1)]
    BY <1>1, <2>1, <2>2
  <2>6. \A j \in 1 .. n - 1 : t[j] = IF j < i THEN s[j] ELSE s[j + 1]
    BY <1>3, <1>4, <2>3, <2>4, <2>5
  <2>7. DOMAIN t = 1 .. n - 1
    BY <2>1, <2>2
  <2> QED BY <2>1, <2>2, <2>6, <2>7
<1> DEFINE From(j) == IF j < i THEN j ELSE j + 1
<1>6. /\ \A j \in 1 .. n - 1 : From(j) \in 1 .. n /\ From(j) # i /\ t[j] = s[From(j)]
      /\ \A j, l \in 1 .. n - 1 : From(j) = From(l) => j = l
      /\ \A j \in 1 .. n : j # i => \E l \in 1 .. n - 1 : From(l) = j
  <2>1. \A j \in 1 .. n : j # i => \E l \in 1 .. n - 1 : From(l) = j
    <3> SUFFICES ASSUME NEW j \in 1 .. n, j # i PROVE \E l \in 1 .. n - 1 : From(l) = j
      OBVIOUS
    <3>1. CASE j < i
      BY <1>1, <3>1
    <3>2. CASE j > i
      <4>1. j - 1 \in 1 .. n - 1 /\ From(j - 1) = j
        BY <1>1, <3>2
      <4> QED BY <4>1
    <3> QED BY <1>1, <3>1, <3>2
  <2> HIDE DEF t
  <2> QED BY <1>1, <1>5, <2>1
<1> HIDE DEF t, From
<1>7. OneEntryPerKey(t)
  BY <1>1, <1>5, <1>6 DEF OneEntryPerKey, WellFormed
<1>8. Entries(t) = {q \in Entries(s) : q.key # s[i].key}
  <2>1. \A j \in 1 .. n : s[j].key = s[i].key => j = i
    BY <1>1 DEF OneEntryPerKey, WellFormed
  <2>2. \A j \in 1 .. n - 1 : t[j] \in Entries(s) /\ t[j].key # s[i].key
    BY <1>1, <1>6, <2>1 DEF Entries
  <2>3. \A j \in 1 .. n : s[j].key # s[i].key => s[j] \in Entries(t)
    <3> SUFFICES ASSUME NEW j \in 1 .. n, j # i PROVE s[j] \in Entries(t)
      OBVIOUS
    <3>1. PICK l \in 1 .. n - 1 : From(l) = j
      BY <1>6
    <3>2. t[l] = s[j] /\ l \in DOMAIN t
      BY <1>5, <1>6, <3>1
    <3> QED BY <3>2 DEF Entries
  <2> QED BY <1>1, <1>5, <2>2, <2>3 DEF Entries
<1> QED BY <1>5, <1>7, <1>8 DEF WellFormed, RemoveAt, t, a, b, n

-----------------------------------------------------------------------------
(* The cache.                                                              *)

LEMMA CacheForm ==
  CacheTypeOK <=> /\ SlotTypeOK
             /\ WellFormed(cache) /\ Len(cache) <= Capacity
             /\ latest \in [Slots -> SlotValues \cup PageContents] /\ plain \subseteq Slots
             /\ ret.page \in Pages \cup {NoPage}
<1>1. IsInjective([i \in DOMAIN cache |-> cache[i].key]) <=> OneEntryPerKey(cache)
  BY DEF IsInjective, OneEntryPerKey
<1> QED BY <1>1 DEF CacheTypeOK, WellFormed

LEMMA CachedEntry ==
  ASSUME CacheTypeOK, NEW k \in Slots
  PROVE  /\ contains(k) <=> \E q \in Entries(cache) : q.key = k
         /\ contains(k) => /\ Position(k) \in DOMAIN cache /\ cache[Position(k)] = Cached(k)
                           /\ Cached(k) \in Entries(cache)
                           /\ Cached(k) \in Pages /\ Cached(k).key = k
         /\ \A q \in Entries(cache) : q \in Pages /\ (q.key = k => q = Cached(k))
<1>1. WellFormed(cache)
  BY CacheForm
<1>2. contains(k) => Position(k) \in DOMAIN cache /\ cache[Position(k)].key = k
  BY DEF contains, Position
<1>3. cache \in Seq(Pages)
  BY <1>1 DEF WellFormed
<1>4. \A i \in DOMAIN cache : cache[i] \in Pages
  BY <1>3
<1>5. contains(k) <=> \E q \in Entries(cache) : q.key = k
  BY DEF contains, Entries
<1>6. \A i \in DOMAIN cache : cache[i].key = k => cache[i] = Cached(k)
  BY <1>1, <1>2 DEF WellFormed, OneEntryPerKey, contains, Cached
<1> QED BY <1>2, <1>4, <1>5, <1>6 DEF Cached, Entries

LEMMA Rest ==
  ASSUME CacheTypeOK, NEW k \in Slots
  PROVE  /\ WellFormed(Without(k)) /\ Entries(Without(k)) = Others(k)
         /\ Len(Without(k)) = IF contains(k) THEN Len(cache) - 1 ELSE Len(cache)
<1>1. WellFormed(cache)
  BY CacheForm
<1>2. CASE contains(k)
  <2>1. Position(k) \in DOMAIN cache /\ cache[Position(k)].key = k
    BY <1>2, CachedEntry
  <2> QED BY <1>1, <1>2, <2>1, Spliced DEF Without, Others
<1>3. CASE ~contains(k)
  <2>1. Others(k) = Entries(cache)
    BY <1>3, CachedEntry DEF Others
  <2> QED BY <1>1, <1>3, <2>1 DEF Without
<1> QED BY <1>2, <1>3

(* A touched entry: the same keys, and only this one changed.               *)
LEMMA TouchedEntries ==
  ASSUME CacheTypeOK, NEW k \in Slots, NEW p \in Pages, p.key = k, contains(k)
  PROVE  /\ WellFormed(Touched(p)) /\ Len(Touched(p)) <= Capacity
         /\ Entries(Touched(p)) = {p} \cup Others(k)
<1>1. WellFormed(Without(k)) /\ Entries(Without(k)) = Others(k)
  BY Rest
<1>2. \A q \in Entries(Without(k)) : q.key # p.key
  BY <1>1 DEF Others
<1>3. Len(Without(k)) + 1 <= Capacity
  <2>1. Len(cache) \in Nat /\ Len(cache) <= Capacity
    BY CacheForm DEF WellFormed
  <2> QED BY <2>1, Rest, EngineAssumption
<1> QED BY <1>1, <1>2, <1>3, Prefixed DEF Touched

(* An entry that is put: a full cache loses its last entry, unless the key  *)
(* was there.                                                               *)
LEMMA PutEntries ==
  ASSUME CacheTypeOK, NEW k \in Slots, NEW p \in Pages, p.key = k
  PROVE  /\ WellFormed(Put(p)) /\ Len(Put(p)) <= Capacity
         /\ p \in Entries(Put(p)) /\ Entries(Put(p)) \subseteq {p} \cup Others(k)
         /\ \A q \in Others(k) : \/ q \in Entries(Put(p))
                                 \/ ~contains(k) /\ Len(cache) = Capacity /\ q = Last(cache)
<1> DEFINE s == Without(k)
           n == IF Len(s) < Capacity THEN Len(s) ELSE Capacity - 1
           t == SubSeq(s, 1, n)
<1>1. /\ WellFormed(s) /\ Entries(s) = Others(k)
      /\ Len(s) = IF contains(k) THEN Len(cache) - 1 ELSE Len(cache)
  BY Rest
<1>2. /\ Len(cache) \in Nat /\ Len(cache) <= Capacity /\ Capacity \in Nat \ {0}
      /\ Len(s) \in Nat /\ DOMAIN s = 1 .. Len(s)
  BY <1>1, CacheForm, EngineAssumption DEF WellFormed
<1>3. n \in 0 .. Len(s) /\ n + 1 <= Capacity /\ n \in Nat
  BY <1>1, <1>2
<1>4. WellFormed(t) /\ Len(t) = n /\ Entries(t) = {s[i] : i \in 1 .. n}
  BY <1>1, <1>3, Shortened
<1>5. Entries(t) \subseteq Others(k)
  <2>1. Entries(t) \subseteq Entries(s)
    BY <1>2, <1>3, <1>4 DEF Entries
  <2> QED BY <1>1, <2>1
<1>6. \A q \in Entries(t) : q.key # p.key
  BY <1>5 DEF Others
<1>7. Put(p) = <<p>> \o t
  BY DEF Put
<1>8. \A q \in Others(k) : \/ q \in Entries(t)
                           \/ ~contains(k) /\ Len(cache) = Capacity /\ q = Last(cache)
  <2> SUFFICES ASSUME NEW i \in 1 .. Len(s), s[i] \notin Entries(t)
               PROVE  ~contains(k) /\ Len(cache) = Capacity /\ s[i] = Last(cache)
    BY <1>1, <1>2 DEF Entries
  <2>1. ~(i <= n)
    BY <1>2, <1>3, <1>4
  <2>2. ~(Len(s) < Capacity)
    BY <1>2, <2>1
  <2>3. ~contains(k) /\ Len(s) = Len(cache) /\ Len(cache) = Capacity /\ i = Len(s)
    BY <1>1, <1>2, <1>3, <2>1, <2>2
  <2> QED BY <2>3 DEF Without, Last
<1> HIDE DEF t, n, s
<1>9. /\ WellFormed(<<p>> \o t) /\ Len(<<p>> \o t) = n + 1
      /\ Entries(<<p>> \o t) = {p} \cup Entries(t)
  BY <1>4, <1>6, Prefixed
<1> QED BY <1>3, <1>5, <1>7, <1>8, <1>9

-----------------------------------------------------------------------------
(* Type correctness.                                                       *)

LEMMA NoPageFields == NoPage.content = Empty /\ ~NoPage.dirty
BY DEF NoPage, Page

LEMMA PageType ==
  ASSUME NEW k \in Slots, NEW c \in PageContents, NEW d \in BOOLEAN
  PROVE  /\ Page(k, c, d) \in Pages /\ Page(k, c, d).key = k
         /\ Page(k, c, d).content = c /\ Page(k, c, d).dirty = d
BY DEF Page, Pages

LEMMA CleanPage ==
  ASSUME NEW p \in Pages
  PROVE  /\ [p EXCEPT !.dirty = FALSE] \in Pages
         /\ [p EXCEPT !.dirty = FALSE].key = p.key
         /\ [p EXCEPT !.dirty = FALSE].content = p.content
         /\ ~[p EXCEPT !.dirty = FALSE].dirty
BY DEF Pages

(* A slot that reads well holds a payload.                                  *)
LEMMA ReadableSlot ==
  ASSUME SlotTypeOK, NEW k \in Slots, SlotStatus(k) = "OK"
  PROVE  slots[k] \in PageContents
<1>1. slots[k] # Empty /\ slots[k] # Torn
  BY DEF SlotStatus
<1> QED BY <1>1 DEF SlotTypeOK, SlotValues, Written

LEMMA InitType == CacheInit => CacheTypeOK
<1> SUFFICES ASSUME CacheInit PROVE CacheTypeOK
  OBVIOUS
<1>1. SlotTypeOK
  BY DEF CacheInit, SlotInit, SlotTypeOK, SlotValues
<1>2. cache \in Seq(Pages) /\ Len(cache) = 0 /\ DOMAIN cache = {}
  BY DEF CacheInit
<1>3. Len(cache) <= Capacity
  BY <1>2, EngineAssumption
<1>4. WellFormed(cache)
  BY <1>2 DEF WellFormed, OneEntryPerKey
<1>5. /\ latest \in [Slots -> SlotValues \cup PageContents] /\ plain \subseteq Slots
      /\ ret.page \in Pages \cup {NoPage}
  BY DEF CacheInit, SlotValues
<1> QED BY <1>1, <1>3, <1>4, <1>5, CacheForm

CacheTyped == WellFormed(cache) /\ Len(cache) <= Capacity

LEMMA TypedAfter ==
  ASSUME SlotTypeOK', CacheTyped', latest' \in [Slots -> SlotValues \cup PageContents],
         plain' \subseteq Slots, ret'.page \in Pages \cup {NoPage}
  PROVE  CacheTypeOK'
BY DEF CacheTypeOK, CacheTyped, WellFormed, OneEntryPerKey, IsInjective

LEMMA TypedNow ==
  ASSUME CacheTypeOK
  PROVE  /\ SlotTypeOK /\ CacheTyped /\ latest \in [Slots -> SlotValues \cup PageContents]
         /\ plain \subseteq Slots /\ ret.page \in Pages \cup {NoPage}
BY CacheForm DEF CacheTyped

(* Only the slot, the entry and the history of one page may change.         *)
LEMMA TypedStep ==
  ASSUME CacheTypeOK, NEW k \in Slots, NEW v \in PageContents, NEW p \in Pages \cup {NoPage},
         \/ UNCHANGED slotVars
         \/ WriteSlot(k, v) \/ WriteSlotError(k, v) \/ Writeback(k),
         CacheTyped', latest' = latest \/ latest' = [latest EXCEPT ![k] = v],
         plain' \subseteq plain, ret'.page = p
  PROVE  CacheTypeOK'
<1>1. SlotTypeOK'
  <2>1. slots \in [Slots -> SlotValues] /\ stable \in [Slots -> SlotValues] /\ Torn \in SlotValues
    BY TypedNow DEF SlotTypeOK, SlotValues
  <2>2. Fits(v) => v \in SlotValues
    BY DEF Fits, SlotValues, Written
  <2>3. slots' \in [Slots -> SlotValues] /\ stable' \in [Slots -> SlotValues]
    BY <2>1, <2>2 DEF WriteSlot, WriteSlotError, Writeback, slotVars
  <2> QED BY <2>3 DEF SlotTypeOK
<1>2. latest' \in [Slots -> SlotValues \cup PageContents] /\ plain' \subseteq Slots
  BY TypedNow
<1> QED BY <1>1, <1>2, TypedAfter

(* The cache of a step that leaves, touches, puts or erases the entry k.    *)
LEMMA CacheStep ==
  ASSUME CacheTypeOK, NEW k \in Slots,
         \/ cache' = cache \/ cache' = Without(k)
         \/ \E p \in Pages : /\ p.key = k
                             /\ \/ cache' = Put(p)
                                \/ contains(k) /\ cache' = Touched(p)
  PROVE  CacheTyped'
<1>1. WellFormed(cache') /\ Len(cache') <= Capacity
  <2>1. CASE cache' = cache
    BY <2>1, TypedNow DEF CacheTyped
  <2>2. CASE cache' = Without(k)
    <3>1. Len(cache) \in Nat /\ Len(cache) <= Capacity /\ Capacity \in Nat
      BY CacheForm, EngineAssumption DEF WellFormed
    <3> QED BY <2>2, <3>1, Rest
  <2>3. ASSUME NEW p \in Pages, p.key = k, cache' = Put(p)
        PROVE  WellFormed(cache') /\ Len(cache') <= Capacity
    BY <2>3, PutEntries
  <2>4. ASSUME NEW p \in Pages, p.key = k, contains(k), cache' = Touched(p)
        PROVE  WellFormed(cache') /\ Len(cache') <= Capacity
    BY <2>4, TouchedEntries
  <2> QED BY <2>1, <2>2, <2>3, <2>4
<1> QED BY <1>1 DEF CacheTyped, WellFormed, OneEntryPerKey

LEMMA CallerFacts ==
  ASSUME NEW k \in Slots, NEW c \in PageContents, NEW d \in BOOLEAN,
         cachePage(k, c, d) \/ ChangeCached(k, c) \/ WriteDirectly(k, c)
  PROVE  /\ latest' = [latest EXCEPT ![k] = c] /\ plain' \subseteq plain
         /\ UNCHANGED slotVars \/ WriteSlot(k, c)
         /\ \/ cache' = cache \/ cache' = Put(Page(k, c, d))
            \/ contains(k) /\ cache' = Touched(Page(k, c, TRUE))
         /\ ret'.page \in {NoPage, Page(k, c, TRUE)}
         /\ ret'.call \notin {"fetchPage", "restart"}
<1>1. CASE cachePage(k, c, d)
  <2>1. /\ latest' = [latest EXCEPT ![k] = c] /\ plain' \subseteq plain
        /\ cache' = Put(Page(k, c, d)) /\ UNCHANGED slotVars
    BY <1>1, Zenon DEF cachePage
  <2>2. Returns("cachePage", k, "OK", NoPage)
    BY <1>1, Zenon DEF cachePage
  <2> QED BY <2>1, <2>2 DEF Returns
<1>2. CASE ChangeCached(k, c)
  BY <1>2 DEF ChangeCached, Returns, slotVars
<1>3. CASE WriteDirectly(k, c)
  BY <1>3 DEF WriteDirectly, Returns
<1> QED BY <1>1, <1>2, <1>3

LEMMA CallerType ==
  ASSUME CacheTypeOK, NEW k \in Slots, NEW c \in PageContents, NEW d \in BOOLEAN,
         cachePage(k, c, d) \/ ChangeCached(k, c) \/ WriteDirectly(k, c)
  PROVE  CacheTypeOK'
<1>1. CacheTyped'
  <2>1. /\ Page(k, c, d) \in Pages /\ Page(k, c, d).key = k
        /\ Page(k, c, TRUE) \in Pages /\ Page(k, c, TRUE).key = k
    BY PageType
  <2> QED BY <2>1, CallerFacts, CacheStep
<1>2. ret'.page \in Pages \cup {NoPage}
  <2>1. Page(k, c, TRUE) \in Pages
    BY PageType
  <2>2. ret'.page \in {NoPage, Page(k, c, TRUE)}
    BY CallerFacts, Zenon
  <2> QED BY <2>1, <2>2
<1>3. /\ latest' = [latest EXCEPT ![k] = c] /\ plain' \subseteq plain
      /\ UNCHANGED slotVars \/ WriteSlot(k, c)
  BY CallerFacts, Zenon
<1> QED BY <1>1, <1>2, <1>3, TypedStep

LEMMA FetchType ==
  ASSUME CacheTypeOK, NEW k \in Slots,
         FetchHit(k) \/ FetchLoad(k) \/ FetchNothing(k) \/ CompactCached(k)
  PROVE  CacheTypeOK'
<1>1. contains(k) => Cached(k) \in Pages /\ Cached(k).key = k
  BY CachedEntry
<1>2. /\ SlotStatus(k) = "OK" => slots[k] \in PageContents
      /\ SlotTypeOK
  BY TypedNow, ReadableSlot
<1>3. CacheTyped' /\ ret'.page \in Pages \cup {NoPage}
  <2>1. CASE FetchHit(k) \/ FetchNothing(k)
    BY <1>1, <2>1, CacheStep DEF FetchHit, FetchNothing, Returns
  <2>2. CASE FetchLoad(k)
    <3>1. Page(k, slots[k], FALSE) \in Pages /\ Page(k, slots[k], FALSE).key = k
      BY <1>2, <2>2, PageType DEF FetchLoad
    <3> QED BY <2>2, <3>1, CacheStep DEF FetchLoad, Returns
  <2>3. CASE CompactCached(k)
    <3>1. /\ [Cached(k) EXCEPT !.dirty = FALSE] \in Pages
          /\ [Cached(k) EXCEPT !.dirty = FALSE].key = k /\ contains(k)
      BY <1>1, <2>3, CleanPage DEF CompactCached
    <3> QED BY <2>3, <3>1, CacheStep DEF CompactCached, Returns
  <2> QED BY <2>1, <2>2, <2>3
<1>4. UNCHANGED slotVars /\ UNCHANGED latest /\ plain' \subseteq plain
  BY DEF FetchHit, FetchLoad, FetchNothing, CompactCached, slotVars, hist
<1>5. SlotTypeOK' /\ latest' \in [Slots -> SlotValues \cup PageContents] /\ plain' \subseteq Slots
  BY <1>4, TypedNow DEF SlotTypeOK, slotVars
<1> QED BY <1>3, <1>5, TypedAfter

(* A flush or an eviction.                                                  *)
LEMMA FlushFacts ==
  ASSUME CacheTypeOK, NEW k \in Slots, NEW c, Flush(c, k)
  PROVE  /\ UNCHANGED hist /\ ret'.call = c /\ ret'.page \in Pages \cup {NoPage}
         /\ \/ ~contains(k) /\ UNCHANGED <<slots, stable, cache>>
            \/ /\ contains(k) /\ UNCHANGED <<slots, stable>>
               /\ cache' = Touched(Cached(k)) \/ (~Cached(k).dirty /\ cache' = Without(k))
            \/ /\ contains(k) /\ Cached(k).dirty /\ WriteSlotError(k, Cached(k).content)
               /\ cache' = Touched(Cached(k))
            \/ /\ contains(k) /\ WriteSlot(k, Cached(k).content)
               /\ \/ cache' = Touched([Cached(k) EXCEPT !.dirty = FALSE])
                  \/ cache' = Without(k)
<1>1. contains(k) => Cached(k) \in Pages
  BY CachedEntry
<1>2. CASE FlushAbsent(c, k)
  BY <1>2 DEF FlushAbsent, Returns, hist
<1>3. CASE FlushClean(c, k)
  BY <1>1, <1>3 DEF FlushClean, Returns, Erased, hist
<1>4. CASE FlushDirty(c, k)
  BY <1>1, <1>4 DEF FlushDirty, Returns, Erased, hist
<1>5. CASE FlushError(c, k)
  BY <1>1, <1>5 DEF FlushError, Returns, hist
<1>6. CASE FlushTooBig(c, k)
  BY <1>1, <1>6 DEF FlushTooBig, Returns, hist
<1> QED BY <1>2, <1>3, <1>4, <1>5, <1>6 DEF Flush

LEMMA FlushType ==
  ASSUME CacheTypeOK, NEW k \in Slots, NEW c, Flush(c, k)
  PROVE  CacheTypeOK'
<1>1. UNCHANGED hist /\ ret'.page \in Pages \cup {NoPage}
  BY FlushFacts
<1>2. CASE contains(k)
  <2> DEFINE p == Cached(k)
             q == [Cached(k) EXCEPT !.dirty = FALSE]
  <2>1. p \in Pages /\ p.key = k /\ q \in Pages /\ q.key = k /\ p.content \in PageContents
    BY <1>2, CachedEntry, CleanPage DEF Pages
  <2>2. /\ cache' = Touched(p) \/ cache' = Touched(q) \/ cache' = Without(k)
        /\ UNCHANGED slotVars \/ WriteSlot(k, p.content) \/ WriteSlotError(k, p.content)
    BY <1>2, FlushFacts DEF slotVars
  <2> HIDE DEF p, q
  <2>3. CacheTyped'
    BY <1>2, <2>1, <2>2, CacheStep
  <2>4. latest' = latest /\ plain' \subseteq plain
    BY <1>1 DEF hist
  <2> QED BY <1>1, <2>1, <2>2, <2>3, <2>4, TypedStep
<1>3. CASE ~contains(k)
  <2>1. UNCHANGED slotVars /\ cache' = cache /\ UNCHANGED <<latest, plain>>
    BY <1>1, <1>3, FlushFacts DEF slotVars, hist
  <2>2. CacheTyped'
    BY <2>1, CacheStep
  <2>3. SlotTypeOK' /\ latest' \in [Slots -> SlotValues \cup PageContents] /\ plain' \subseteq Slots
    BY <2>1, TypedNow DEF SlotTypeOK, slotVars
  <2> QED BY <1>1, <2>2, <2>3, TypedAfter
<1> QED BY <1>2, <1>3

LEMMA DiskType ==
  ASSUME CacheTypeOK, (\E k \in Slots : DiskWriteback(k)) \/ (\E power \in BOOLEAN : Restart(power))
  PROVE  CacheTypeOK'
<1>1. slots \in [Slots -> SlotValues] /\ stable \in [Slots -> SlotValues]
  BY TypedNow DEF SlotTypeOK
<1>2. ASSUME NEW k \in Slots, DiskWriteback(k) PROVE CacheTypeOK'
  <2>1. /\ slots' = slots /\ UNCHANGED <<cache, ret, latest, plain>>
        /\ \E v \in {slots[k], Torn} : stable' = [stable EXCEPT ![k] = v]
    BY <1>2 DEF DiskWriteback, Writeback, hist
  <2>2. stable' \in [Slots -> SlotValues]
    BY <1>1, <2>1 DEF SlotValues
  <2>3. SlotTypeOK' /\ CacheTyped'
    BY <1>1, <2>1, <2>2, TypedNow DEF SlotTypeOK, CacheTyped, WellFormed, OneEntryPerKey
  <2> QED BY <2>1, <2>3, TypedNow, TypedAfter
<1>3. ASSUME NEW power \in BOOLEAN, Restart(power) PROVE CacheTypeOK'
  <2>1. slots' \in [Slots -> SlotValues] /\ stable' \in [Slots -> SlotValues]
    BY <1>1, <1>3 DEF Restart, PowerCut, slotVars
  <2>2. cache' = <<>> /\ latest' = slots' /\ plain' = Slots /\ ret'.page = NoPage
    BY <1>3 DEF Restart, Returns
  <2>3. CacheTyped'
    BY <2>2, EngineAssumption DEF CacheTyped, WellFormed, OneEntryPerKey
  <2> QED BY <2>1, <2>2, <2>3, TypedAfter DEF SlotTypeOK
<1> QED BY <1>2, <1>3

LEMMA NextType ==
  ASSUME CacheTypeOK, [CacheNext]_cacheVars
  PROVE  CacheTypeOK'
<1>1. CASE UNCHANGED cacheVars
  BY <1>1 DEF cacheVars, hist, CacheTypeOK, SlotTypeOK, IsInjective
<1>2. ASSUME NEW k \in Slots, NEW c \in PageContents, NEW d \in BOOLEAN,
             cachePage(k, c, d) \/ ChangeCached(k, c) \/ WriteDirectly(k, c)
      PROVE  CacheTypeOK'
  BY <1>2, CallerType
<1>3. ASSUME NEW k \in Slots,
             FetchHit(k) \/ FetchLoad(k) \/ FetchNothing(k) \/ CompactCached(k)
      PROVE  CacheTypeOK'
  BY <1>3, FetchType
<1>4. ASSUME NEW k \in Slots, NEW c, Flush(c, k) PROVE CacheTypeOK'
  BY <1>4, FlushType
<1>5. TRUE \in BOOLEAN
  OBVIOUS
<1> QED BY <1>1, <1>2, <1>3, <1>4, <1>5, DiskType DEF CacheNext

(* The cache never holds a page twice, nor more pages than its capacity.    *)
THEOREM TypeCorrect == CacheSpec => []CacheTypeOK
BY InitType, NextType, PTL DEF CacheSpec

-----------------------------------------------------------------------------
(* No update is lost.                                                      *)

Held(k) == /\ contains(k) => Cached(k).content = latest[k]
           /\ ~contains(k) \/ ~Cached(k).dirty => slots[k] = latest[k]

(* The same, of the entries.                                                *)
HeldBy(k) ==
  /\ \A q \in Entries(cache) :
       q.key = k => q.content = latest[k] /\ (q.dirty \/ slots[k] = latest[k])
  /\ (\A q \in Entries(cache) : q.key # k) => slots[k] = latest[k]

HeldIsHeldBy == \A k \in Slots : Held(k) <=> HeldBy(k)

LEMMA HeldEntries == CacheTypeOK => HeldIsHeldBy
<1> SUFFICES ASSUME CacheTypeOK, NEW k \in Slots PROVE Held(k) <=> HeldBy(k)
  BY DEF HeldIsHeldBy
<1>1. CASE contains(k)
  <2>1. /\ Cached(k) \in Entries(cache) /\ Cached(k).key = k
        /\ \A q \in Entries(cache) : q.key = k => q = Cached(k)
    BY <1>1, CachedEntry
  <2> QED BY <1>1, <2>1 DEF Held, HeldBy
<1>2. CASE ~contains(k)
  <2>1. \A q \in Entries(cache) : q.key # k
    BY <1>2, CachedEntry
  <2> QED BY <1>2, <2>1 DEF Held, HeldBy
<1> QED BY <1>1, <1>2

LEMMA HeldEntriesNext == CacheTypeOK' => HeldIsHeldBy'
BY HeldEntries, PTL

ContainsEntry == \A k \in Slots : contains(k) <=> \E q \in Entries(cache) : q.key = k

LEMMA ContainsEntries == CacheTypeOK => ContainsEntry
BY CachedEntry DEF ContainsEntry

LEMMA ContainsEntriesNext == CacheTypeOK' => ContainsEntry'
BY ContainsEntries, PTL

(* A step about the page k: of the other pages at most a clean entry goes,  *)
(* or one that falls off a full cache and is no plain page any more.        *)
OnlyTouches(k) ==
  /\ \A q \in Entries(cache') : q.key # k => q \in Entries(cache)
  /\ \A q \in Entries(cache) :
       q.key # k => \/ q \in Entries(cache') \/ ~q.dirty
                    \/ Falls(q.key) /\ q.key \notin plain'
  /\ \A j \in Slots \ {k} : slots'[j] = slots[j] /\ latest'[j] = latest[j]
  /\ plain' \subseteq plain

(* What OnlyOverflowDropsDirty asks of the page k.                          *)
KeepsDirty(k) ==
  contains(k) /\ Cached(k).dirty /\ ~contains(k)'
    => slots'[k] = Cached(k).content \/ Falls(k)

LEMMA HeldKept ==
  ASSUME CacheTypeOK, CacheTypeOK', LatestHeld, NEW k \in Slots, OnlyTouches(k),
         k \in plain' => HeldBy(k)'
  PROVE  LatestHeld'
<1> SUFFICES ASSUME NEW j \in plain' PROVE Held(j)'
  BY DEF LatestHeld, Held
<1>1. j \in Slots /\ j \in plain
  BY TypedNow DEF OnlyTouches
<1>2. CASE j = k
  BY <1>1, <1>2, HeldEntriesNext DEF HeldIsHeldBy
<1>3. CASE j # k
  <2>1. HeldBy(j)
    BY <1>1, HeldEntries DEF HeldIsHeldBy, LatestHeld, Held
  <2>2. slots'[j] = slots[j] /\ latest'[j] = latest[j]
    BY <1>1, <1>3 DEF OnlyTouches
  <2>3. \A q \in Entries(cache') : q.key = j => q \in Entries(cache)
    BY <1>3 DEF OnlyTouches
  <2>4. (\A q \in Entries(cache') : q.key # j) => slots[j] = latest[j]
    <3>1. \A q \in Entries(cache) : q.key = j => q \in Entries(cache') \/ ~q.dirty
      BY <1>3, Zenon DEF OnlyTouches
    <3> QED BY <2>1, <3>1 DEF HeldBy
  <2>5. HeldBy(j)'
    BY <2>1, <2>2, <2>3, <2>4 DEF HeldBy, Entries
  <2> QED BY <1>1, <2>5, HeldEntriesNext DEF HeldIsHeldBy
<1> QED BY <1>2, <1>3

LEMMA DirtyKept ==
  ASSUME CacheTypeOK, CacheTypeOK', NEW k \in Slots, OnlyTouches(k), KeepsDirty(k), NEW j \in Slots
  PROVE  KeepsDirty(j)
<1> SUFFICES ASSUME j # k, contains(j), Cached(j).dirty, ~Falls(j) PROVE contains(j)'
  BY DEF KeepsDirty
<1>1. Cached(j) \in Entries(cache) /\ Cached(j).key = j
  BY CachedEntry
<1>2. Cached(j) \in Entries(cache')
  BY <1>1 DEF OnlyTouches
<1>3. (\E q \in Entries(cache) : q.key = j)'
  BY <1>1, <1>2 DEF Entries
<1> QED BY <1>3, ContainsEntriesNext DEF ContainsEntry

(* The entries of k after the step are the set P.                           *)
EntryIs(k, P) == P \subseteq Entries(cache') /\ \A q \in Entries(cache') : q.key = k => q \in P

OtherEntriesKept(k) ==
  /\ \A q \in Entries(cache') : q.key # k => q \in Entries(cache)
  /\ \A q \in Entries(cache) : q.key # k => q \in Entries(cache') \/ ~q.dirty

(* A put of k keeps them but for the dirty one it pushes out.               *)
OtherEntriesPushed(k) ==
  /\ \A q \in Entries(cache') : q.key # k => q \in Entries(cache)
  /\ \A q \in Entries(cache) :
       q.key # k => q \in Entries(cache') \/ ~q.dirty \/ q.key \in Pushed(k)

LEMMA PutStep ==
  ASSUME CacheTypeOK, NEW k \in Slots, NEW p \in Pages, p.key = k, cache' = Put(p)
  PROVE  EntryIs(k, {p}) /\ OtherEntriesPushed(k)
<1>1. /\ p \in Entries(cache') /\ Entries(cache') \subseteq {p} \cup Others(k)
      /\ \A q \in Others(k) : \/ q \in Entries(cache')
                              \/ ~contains(k) /\ Len(cache) = Capacity /\ q = Last(cache)
  BY PutEntries
<1>2. \A q \in Others(k) : q \in Entries(cache') \/ ~q.dirty \/ q.key \in Pushed(k)
  BY <1>1 DEF DropsDirty, Pushed
<1> QED BY <1>1, <1>2 DEF EntryIs, OtherEntriesPushed, Others

LEMMA PutTouches ==
  ASSUME NEW k \in Slots, OtherEntriesPushed(k),
         ret'.key = k, ret'.call \in {"cachePage", "fetchPage"},
         plain' \subseteq plain \ Pushed(k),
         \A j \in Slots \ {k} : slots'[j] = slots[j] /\ latest'[j] = latest[j]
  PROVE  OnlyTouches(k)
<1>1. \A j : Falls(j) <=> j \in Pushed(k)
  BY DEF Falls
<1> QED BY <1>1 DEF OtherEntriesPushed, OnlyTouches

LEMMA TouchStep ==
  ASSUME CacheTypeOK, NEW k \in Slots, NEW p \in Pages, p.key = k, contains(k), cache' = Touched(p)
  PROVE  EntryIs(k, {p}) /\ OtherEntriesKept(k)
<1>1. Entries(cache') = {p} \cup Others(k)
  BY TouchedEntries
<1> QED BY <1>1 DEF EntryIs, OtherEntriesKept, Others

LEMMA EraseStep ==
  ASSUME CacheTypeOK, NEW k \in Slots, cache' = Without(k)
  PROVE  EntryIs(k, {}) /\ OtherEntriesKept(k)
<1>1. Entries(cache') = Others(k)
  BY Rest
<1> QED BY <1>1 DEF EntryIs, OtherEntriesKept, Others

LEMMA KeepStep ==
  ASSUME NEW k \in Slots, cache' = cache
  PROVE  /\ EntryIs(k, {q \in Entries(cache) : q.key = k}) /\ OtherEntriesKept(k)
BY DEF EntryIs, OtherEntriesKept

(* One entry, with the latest content, and dirty or saved.                  *)
LEMMA HeldByEntry ==
  ASSUME NEW k \in Slots, NEW p, p.key = k, EntryIs(k, {p}),
         p.content = latest'[k], p.dirty \/ slots'[k] = latest'[k]
  PROVE  HeldBy(k)'
<1>1. p \in Entries(cache') /\ \A q \in Entries(cache') : q.key = k => q = p
  BY DEF EntryIs
<1> QED BY <1>1 DEF HeldBy, Entries

LEMMA HeldBySlot ==
  ASSUME NEW k \in Slots, EntryIs(k, {}), slots'[k] = latest'[k]
  PROVE  HeldBy(k)'
<1>1. \A q \in Entries(cache') : q.key # k
  BY DEF EntryIs
<1> QED BY <1>1 DEF HeldBy, Entries

LEMMA StaysCached ==
  ASSUME CacheTypeOK', NEW k \in Slots, NEW p, p.key = k, EntryIs(k, {p})
  PROVE  contains(k)'
<1>1. (\E q \in Entries(cache) : q.key = k)'
  BY DEF EntryIs, Entries
<1> QED BY <1>1, ContainsEntriesNext DEF ContainsEntry

-----------------------------------------------------------------------------
(* Each call, of one page.                                                 *)

Safe(k) == OnlyTouches(k) /\ (k \in plain' => HeldBy(k)') /\ KeepsDirty(k)

LEMMA CachePageSafe ==
  ASSUME CacheTypeOK, CacheTypeOK', LatestHeld,
         NEW k \in Slots, NEW c \in PageContents, NEW d \in BOOLEAN, cachePage(k, c, d)
  PROVE  Safe(k)
<1> DEFINE p == Page(k, c, d)
<1>1. p \in Pages /\ p.key = k /\ p.content = c /\ p.dirty = d
  BY PageType
<1>2. cache' = Put(p) /\ ret'.key = k /\ ret'.call = "cachePage"
  <2>1. cache' = Put(p) /\ Returns("cachePage", k, "OK", NoPage)
    BY Zenon DEF cachePage
  <2> QED BY <2>1 DEF Returns
<1>3. latest' = [latest EXCEPT ![k] = c] /\ slots' = slots
      /\ plain' \subseteq plain \ Pushed(k) /\ (k \in plain' => d)
  <2>1. /\ latest' = [latest EXCEPT ![k] = c] /\ slots' = slots
        /\ plain' = (IF d /\ ~contains(k) THEN plain ELSE plain \ {k}) \ Pushed(k)
    BY Zenon DEF cachePage, slotVars
  <2>2. CASE d = TRUE
    BY <2>1, <2>2
  <2>3. CASE d = FALSE
    BY <2>1, <2>3
  <2> QED BY <2>1, <2>2, <2>3
<1>4. latest'[k] = c /\ \A j \in Slots \ {k} : latest'[j] = latest[j]
  BY <1>3, TypedNow
<1> HIDE DEF p
<1>5. EntryIs(k, {p}) /\ OtherEntriesPushed(k)
  BY <1>1, <1>2, PutStep
<1>6. OnlyTouches(k)
  BY <1>2, <1>3, <1>4, <1>5, PutTouches
<1>7. k \in plain' => HeldBy(k)'
  <2> SUFFICES ASSUME k \in plain' PROVE HeldBy(k)'
    OBVIOUS
  <2>1. d = TRUE
    BY <1>3
  <2>2. p.dirty
    BY <1>1, <2>1
  <2> QED BY <1>1, <1>4, <1>5, <2>2, HeldByEntry
<1>8. KeepsDirty(k)
  BY <1>1, <1>5, StaysCached DEF KeepsDirty
<1> QED BY <1>6, <1>7, <1>8 DEF Safe

LEMMA ChangeCachedSafe ==
  ASSUME CacheTypeOK, CacheTypeOK', NEW k \in Slots, NEW c \in PageContents, ChangeCached(k, c)
  PROVE  Safe(k)
<1> DEFINE p == Page(k, c, TRUE)
<1>1. p \in Pages /\ p.key = k /\ p.content = c /\ p.dirty
  BY PageType
<1>2. /\ contains(k) /\ cache' = Touched(p)
      /\ latest' = [latest EXCEPT ![k] = c] /\ slots' = slots /\ plain' = plain
  BY DEF ChangeCached
<1>3. latest'[k] = c /\ \A j \in Slots \ {k} : latest'[j] = latest[j]
  BY <1>2, TypedNow
<1> HIDE DEF p
<1>4. EntryIs(k, {p}) /\ OtherEntriesKept(k)
  BY <1>1, <1>2, TouchStep
<1>5. OnlyTouches(k)
  BY <1>2, <1>3, <1>4 DEF OnlyTouches, OtherEntriesKept
<1>6. HeldBy(k)' /\ contains(k)'
  BY <1>1, <1>3, <1>4, HeldByEntry, StaysCached
<1> QED BY <1>5, <1>6 DEF Safe, KeepsDirty

(* The cached copy of a page that is written directly stays what it was.    *)
LEMMA WriteDirectlySafe ==
  ASSUME CacheTypeOK, CacheTypeOK', NEW k \in Slots, NEW c \in PageContents, WriteDirectly(k, c)
  PROVE  Safe(k)
<1>1. /\ cache' = cache /\ slots' = [slots EXCEPT ![k] = c]
      /\ latest' = [latest EXCEPT ![k] = c] /\ plain' = plain \ {k}
  BY DEF WriteDirectly, WriteSlot
<1>2. \A j \in Slots \ {k} : slots'[j] = slots[j] /\ latest'[j] = latest[j]
  BY <1>1, TypedNow DEF SlotTypeOK
<1>3. OnlyTouches(k)
  BY <1>1, <1>2 DEF OnlyTouches
<1>4. contains(k)' <=> contains(k)
  BY <1>1 DEF contains
<1> QED BY <1>1, <1>3, <1>4 DEF Safe, KeepsDirty

(* A call that changes neither the slots nor what the caller wants.         *)
LEMMA SameContents ==
  ASSUME slots' = slots, latest' = latest, plain' \subseteq plain, NEW k \in Slots,
         OtherEntriesKept(k)
  PROVE  OnlyTouches(k)
BY DEF OnlyTouches, OtherEntriesKept

LEMMA UnchangedSafe ==
  ASSUME CacheTypeOK, CacheTypeOK', LatestHeld, NEW k \in Slots,
         UNCHANGED <<slots, cache, latest, plain>>
  PROVE  Safe(k)
<1>1. OnlyTouches(k)
  BY KeepStep, SameContents
<1>2. k \in plain => HeldBy(k)
  BY HeldEntries DEF HeldIsHeldBy, LatestHeld, Held
<1>3. k \in plain' => HeldBy(k)'
  BY <1>2 DEF HeldBy, Entries
<1>4. contains(k)' <=> contains(k)
  BY DEF contains
<1> QED BY <1>1, <1>3, <1>4 DEF Safe, KeepsDirty

LEMMA FetchSafe ==
  ASSUME CacheTypeOK, CacheTypeOK', LatestHeld, NEW k \in Slots,
         FetchHit(k) \/ FetchLoad(k) \/ FetchNothing(k)
  PROVE  /\ Safe(k)
         /\ k \in plain' /\ ret'.call = "fetchPage" /\ ret'.status = "OK" =>
              ret'.key = k /\ ret'.page.content = latest'[k]
         /\ ret'.key = k
<1>1. k \in plain => Held(k)
  BY DEF LatestHeld, Held
<1>2. contains(k) => Cached(k) \in Pages /\ Cached(k).key = k
  BY CachedEntry
<1>3. CASE FetchHit(k)
  <2> DEFINE p == Cached(k)
  <2>1. /\ contains(k) /\ cache' = Touched(p) /\ UNCHANGED <<slots, latest, plain>>
        /\ ret'.key = k /\ ret'.page = p
    BY <1>3 DEF FetchHit, Returns, hist
  <2>2. k \in plain => p.content = latest[k] /\ (p.dirty \/ slots[k] = latest[k])
    BY <1>1, <2>1 DEF Held
  <2> HIDE DEF p
  <2>3. p \in Pages /\ p.key = k
    BY <1>2, <2>1 DEF p
  <2>4. EntryIs(k, {p}) /\ OtherEntriesKept(k)
    BY <2>1, <2>3, TouchStep
  <2>5. OnlyTouches(k) /\ contains(k)'
    BY <2>1, <2>3, <2>4, SameContents, StaysCached
  <2>6. k \in plain' => HeldBy(k)'
    BY <2>1, <2>2, <2>3, <2>4, HeldByEntry
  <2> QED BY <2>1, <2>2, <2>5, <2>6 DEF Safe, KeepsDirty
<1>4. CASE FetchLoad(k)
  <2> DEFINE p == Page(k, slots[k], FALSE)
  <2>1. /\ ~contains(k) /\ cache' = Put(p) /\ UNCHANGED <<slots, latest>>
        /\ plain' = plain \ Pushed(k)
        /\ ret'.call = "fetchPage" /\ ret'.key = k /\ ret'.page = p
    BY <1>4 DEF FetchLoad, Returns
  <2>2. slots[k] \in PageContents
    BY <1>4, TypedNow, ReadableSlot DEF FetchLoad
  <2>3. p \in Pages /\ p.key = k /\ p.content = slots[k]
    BY <2>2, PageType
  <2>4. k \in plain => slots[k] = latest[k]
    BY <1>1, <2>1 DEF Held
  <2> HIDE DEF p
  <2>5. EntryIs(k, {p}) /\ OtherEntriesPushed(k)
    BY <2>1, <2>3, PutStep
  <2>6. OnlyTouches(k) /\ KeepsDirty(k)
    BY <2>1, <2>5, PutTouches DEF KeepsDirty
  <2>7. k \in plain' => HeldBy(k)'
    BY <2>1, <2>3, <2>4, <2>5, HeldByEntry
  <2> QED BY <2>1, <2>3, <2>4, <2>6, <2>7 DEF Safe
<1>5. CASE FetchNothing(k)
  <2>1. UNCHANGED <<slots, cache, latest, plain>> /\ ret'.key = k
    BY <1>5 DEF FetchNothing, hist, Returns
  <2>2. ret'.status # "OK"
    BY <1>5 DEF FetchNothing, Returns
  <2> QED BY <2>1, <2>2, UnchangedSafe
<1> QED BY <1>3, <1>4, <1>5

LEMMA CompactCachedSafe ==
  ASSUME CacheTypeOK, CacheTypeOK', NEW k \in Slots, CompactCached(k)
  PROVE  Safe(k)
<1> DEFINE p == [Cached(k) EXCEPT !.dirty = FALSE]
<1>1. /\ contains(k) /\ cache' = Touched(p) /\ UNCHANGED <<slots, latest>>
      /\ plain' = plain \ {k}
  BY DEF CompactCached
<1>2. p \in Pages /\ p.key = k
  BY <1>1, CachedEntry, CleanPage
<1> HIDE DEF p
<1>3. EntryIs(k, {p}) /\ OtherEntriesKept(k)
  BY <1>1, <1>2, TouchStep
<1>4. OnlyTouches(k) /\ contains(k)'
  BY <1>1, <1>2, <1>3, SameContents, StaysCached
<1> QED BY <1>1, <1>4 DEF Safe, KeepsDirty

(* What a flush or an eviction leaves: a clean copy that was saved, a dirty *)
(* one that could not be, or no copy of a page that is in its slot.         *)
LEMMA FlushSafe ==
  ASSUME CacheTypeOK, CacheTypeOK', LatestHeld, NEW k \in Slots, NEW c, Flush(c, k)
  PROVE  Safe(k)
<1> DEFINE p == Cached(k)
           q == [p EXCEPT !.dirty = FALSE]
<1>1. UNCHANGED <<latest, plain>>
  BY FlushFacts DEF hist
<1>2. CASE ~contains(k)
  BY <1>1, <1>2, FlushFacts, UnchangedSafe
<1>3. CASE contains(k)
  <2>1. /\ p \in Pages /\ p.key = k /\ q \in Pages /\ q.key = k
        /\ q.content = p.content /\ p.content \in PageContents
    BY <1>3, CachedEntry, CleanPage DEF Pages
  <2>2. k \in plain => p.content = latest[k] /\ (p.dirty \/ slots[k] = latest[k])
    BY <1>3 DEF LatestHeld
  <2>3. slots \in [Slots -> SlotValues]
    BY TypedNow DEF SlotTypeOK
  <2>4. \/ /\ slots' = slots
           /\ cache' = Touched(p) \/ (~p.dirty /\ cache' = Without(k))
        \/ /\ p.dirty /\ WriteSlotError(k, p.content) /\ cache' = Touched(p)
        \/ /\ WriteSlot(k, p.content)
           /\ cache' = Touched(q) \/ cache' = Without(k)
    BY <1>3, FlushFacts
  <2>5. (p.dirty /\ ~contains(k)' => slots'[k] = p.content) => KeepsDirty(k)
    BY <1>3 DEF KeepsDirty
  <2> HIDE DEF p, q
  <2>6. \A j \in Slots \ {k} : slots'[j] = slots[j] /\ latest'[j] = latest[j]
    BY <1>1, <2>3, <2>4 DEF WriteSlot, WriteSlotError
  <2>7. OtherEntriesKept(k) => OnlyTouches(k)
    BY <1>1, <2>6 DEF OnlyTouches, OtherEntriesKept
  <2>8. CASE cache' = Touched(p) /\ slots' = slots
    <3>1. EntryIs(k, {p}) /\ OtherEntriesKept(k)
      BY <1>3, <2>1, <2>8, TouchStep
    <3>2. k \in plain' => HeldBy(k)'
      BY <1>1, <2>1, <2>2, <2>8, <3>1, HeldByEntry
    <3> QED BY <2>1, <2>5, <2>7, <3>1, <3>2, StaysCached DEF Safe
  <2>9. CASE ~p.dirty /\ cache' = Without(k) /\ slots' = slots
    <3>1. EntryIs(k, {}) /\ OtherEntriesKept(k)
      BY <2>9, EraseStep
    <3>2. k \in plain' => HeldBy(k)'
      BY <1>1, <2>2, <2>9, <3>1, HeldBySlot
    <3> QED BY <2>5, <2>7, <2>9, <3>1, <3>2 DEF Safe
  <2>10. CASE p.dirty /\ WriteSlotError(k, p.content) /\ cache' = Touched(p)
    <3>1. EntryIs(k, {p}) /\ OtherEntriesKept(k)
      BY <1>3, <2>1, <2>10, TouchStep
    <3>2. k \in plain' => HeldBy(k)'
      BY <1>1, <2>1, <2>2, <2>10, <3>1, HeldByEntry
    <3> QED BY <2>1, <2>5, <2>7, <3>1, <3>2, StaysCached DEF Safe
  <2>11. CASE WriteSlot(k, p.content) /\ (cache' = Touched(q) \/ cache' = Without(k))
    <3>1. slots'[k] = p.content
      BY <2>3, <2>11 DEF WriteSlot
    <3>2. CASE cache' = Touched(q)
      <4>1. EntryIs(k, {q}) /\ OtherEntriesKept(k)
        BY <1>3, <2>1, <3>2, TouchStep
      <4>2. k \in plain' => HeldBy(k)'
        BY <1>1, <2>1, <2>2, <3>1, <4>1, HeldByEntry
      <4> QED BY <2>5, <2>7, <3>1, <4>1, <4>2 DEF Safe
    <3>3. CASE cache' = Without(k)
      <4>1. EntryIs(k, {}) /\ OtherEntriesKept(k)
        BY <3>3, EraseStep
      <4>2. k \in plain' => HeldBy(k)'
        BY <1>1, <2>2, <3>1, <4>1, HeldBySlot
      <4> QED BY <2>5, <2>7, <3>1, <4>1, <4>2 DEF Safe
    <3> QED BY <2>11, <3>2, <3>3
  <2> QED BY <2>4, <2>8, <2>9, <2>10, <2>11
<1> QED BY <1>2, <1>3

-----------------------------------------------------------------------------
(* The steps together.                                                     *)

(* The inductive invariant.                                                 *)
IInv == CacheTypeOK /\ LatestHeld /\ FetchSeesLatest

LEMMA InitInv == CacheInit => IInv
<1> SUFFICES ASSUME CacheInit PROVE IInv
  OBVIOUS
<1>1. \A k \in Slots : slots[k] = latest[k] /\ ~contains(k)
  <2>1. DOMAIN cache = {}
    BY DEF CacheInit
  <2> QED BY <2>1 DEF CacheInit, SlotInit, contains
<1> QED BY <1>1, InitType DEF CacheInit, IInv, LatestHeld, FetchSeesLatest

(* A call of one page.                                                      *)
Call(k) ==
  \/ \E c \in PageContents, d \in BOOLEAN : cachePage(k, c, d)
  \/ FetchHit(k) \/ FetchLoad(k) \/ FetchNothing(k) \/ CompactCached(k)
  \/ \E c \in PageContents : ChangeCached(k, c) \/ WriteDirectly(k, c)
  \/ \E call \in {"flushPage", "evictPage"} : Flush(call, k)

LEMMA CallSafe ==
  ASSUME IInv, CacheTypeOK', NEW k \in Slots, Call(k)
  PROVE  Safe(k) /\ FetchSeesLatest'
<1>1. CacheTypeOK /\ LatestHeld
  BY DEF IInv
<1>2. ASSUME NEW c \in PageContents, NEW d \in BOOLEAN, cachePage(k, c, d)
      PROVE  Safe(k) /\ FetchSeesLatest'
  <2>1. ret'.call # "fetchPage"
    <3>1. Returns("cachePage", k, "OK", NoPage)
      BY <1>2, Zenon DEF cachePage
    <3> QED BY <3>1 DEF Returns
  <2> QED BY <1>1, <1>2, <2>1, CachePageSafe DEF FetchSeesLatest
<1>3. CASE FetchHit(k) \/ FetchLoad(k) \/ FetchNothing(k)
  BY <1>1, <1>3, FetchSafe DEF FetchSeesLatest
<1>4. CASE CompactCached(k)
  BY <1>1, <1>4, CompactCachedSafe DEF CompactCached, Returns, FetchSeesLatest
<1>5. ASSUME NEW c \in PageContents, ChangeCached(k, c) \/ WriteDirectly(k, c)
      PROVE  Safe(k) /\ FetchSeesLatest'
  <2>1. ret'.call # "fetchPage"
    <3>1. CASE ChangeCached(k, c)
      BY <3>1 DEF ChangeCached, Returns
    <3>2. CASE WriteDirectly(k, c)
      BY <3>2 DEF WriteDirectly, Returns
    <3> QED BY <1>5, <3>1, <3>2
  <2> QED BY <1>1, <1>5, <2>1, ChangeCachedSafe, WriteDirectlySafe DEF FetchSeesLatest
<1>6. ASSUME NEW c \in {"flushPage", "evictPage"}, Flush(c, k)
      PROVE  Safe(k) /\ FetchSeesLatest'
  <2>1. ret'.call # "fetchPage"
    BY <1>1, <1>6, FlushFacts
  <2> QED BY <1>1, <1>6, <2>1, FlushSafe DEF FetchSeesLatest
<1> QED BY <1>2, <1>3, <1>4, <1>5, <1>6 DEF Call

LEMMA NextCases ==
  ASSUME CacheNext
  PROVE  \/ \E k \in Slots : Call(k) \/ DiskWriteback(k)
         \/ \E power \in BOOLEAN : Restart(power)
BY Zenon DEF CacheNext, Call

LEMMA RestartInv ==
  ASSUME IInv, CacheTypeOK', NEW power \in BOOLEAN, Restart(power)
  PROVE  IInv'
<1>1. /\ cache' = <<>> /\ latest' = slots' /\ plain' = Slots /\ ret'.call = "restart"
  BY DEF Restart, Returns
<1>2. \A k \in Slots : ~contains(k)'
  BY <1>1 DEF contains
<1>3. LatestHeld' /\ FetchSeesLatest'
  BY <1>1, <1>2 DEF LatestHeld, FetchSeesLatest
<1> QED BY <1>3 DEF IInv

LEMMA WritebackInv ==
  ASSUME IInv, CacheTypeOK', UNCHANGED <<slots, cache, ret, latest, plain>>
  PROVE  IInv'
BY DEF IInv, LatestHeld, FetchSeesLatest, contains, Cached, Position

LEMMA NextInv ==
  ASSUME IInv, [CacheNext]_cacheVars
  PROVE  IInv'
<1>1. CacheTypeOK /\ LatestHeld /\ CacheTypeOK'
  BY NextType DEF IInv
<1>2. CASE UNCHANGED cacheVars
  BY <1>1, <1>2, WritebackInv DEF cacheVars, hist
<1>3. ASSUME NEW k \in Slots, Call(k) PROVE IInv'
  <2>1. Safe(k) /\ FetchSeesLatest'
    BY <1>1, <1>3, CallSafe
  <2>2. LatestHeld'
    BY <1>1, <2>1, HeldKept DEF Safe
  <2> QED BY <1>1, <2>1, <2>2 DEF IInv
<1>4. ASSUME NEW k \in Slots, DiskWriteback(k) PROVE IInv'
  BY <1>1, <1>4, WritebackInv DEF DiskWriteback, Writeback, hist
<1>5. ASSUME NEW power \in BOOLEAN, Restart(power) PROVE IInv'
  BY <1>1, <1>5, RestartInv
<1> QED BY <1>2, <1>3, <1>4, <1>5, NextCases

(* The inductive invariant holds in every reachable state.                  *)
THEOREM Invariant == CacheSpec => []IInv
<1>1. IInv /\ [CacheNext]_cacheVars => IInv'
  BY NextInv
<1> QED BY InitInv, <1>1, PTL DEF CacheSpec

(* No update is lost, whatever fails, is evicted, torn or restarted.        *)
THEOREM NoUpdateIsLost == CacheSpec => []LatestHeld
<1>1. IInv => LatestHeld
  BY DEF IInv
<1> QED BY Invariant, <1>1, PTL

(* fetchPage() serves the latest version of a page.                         *)
THEOREM FetchesAreLatest == CacheSpec => []FetchSeesLatest
<1>1. IInv => FetchSeesLatest
  BY DEF IInv
<1> QED BY Invariant, <1>1, PTL

(* A dirty page leaves the cache only once it is in its slot, with the      *)
(* process, or off the end of a full cache onto which another page is put.  *)
THEOREM DirtyPagesAreSaved == CacheSpec => OnlyOverflowDropsDirty
<1> DEFINE Kept == \A k \in Slots :
                     contains(k) /\ Cached(k).dirty /\ ~contains(k)' /\ ret'.call # "restart"
                       => slots'[k] = Cached(k).content \/ Falls(k)
<1>1. ASSUME IInv, IInv', [CacheNext]_cacheVars PROVE Kept \/ UNCHANGED cacheVars
  <2>1. CacheTypeOK /\ CacheTypeOK'
    BY <1>1 DEF IInv
  <2>2. ASSUME NEW k \in Slots, Call(k) PROVE Kept
    <3>1. Safe(k)
      BY <1>1, <2>1, <2>2, CallSafe
    <3>2. \A j \in Slots : KeepsDirty(j)
      BY <2>1, <3>1, DirtyKept DEF Safe
    <3> QED BY <3>2 DEF KeepsDirty
  <2>3. ASSUME NEW k \in Slots, DiskWriteback(k) PROVE Kept
    BY <2>3 DEF DiskWriteback, contains
  <2>4. ASSUME NEW power \in BOOLEAN, Restart(power) PROVE Kept
    BY <2>4 DEF Restart, Returns
  <2> QED BY <1>1, <2>2, <2>3, <2>4, NextCases
<1>2. IInv /\ IInv' /\ [CacheNext]_cacheVars => [Kept]_cacheVars
  BY <1>1
<1> QED BY Invariant, <1>2, PTL DEF CacheSpec, OnlyOverflowDropsDirty
=============================================================================
