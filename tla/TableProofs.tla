----------------------------- MODULE TableProofs -----------------------------
(***************************************************************************)
(* Theorems about Table: its pages stay typed and within their capacity,   *)
(* page ids stay below the counter, the two indices tell the same story as *)
(* the pages, and the whole is a map from ids to data.  What depends on    *)
(* the trip through JSON needs ids that the envelope's int can hold.       *)
(***************************************************************************)
EXTENDS Table, FiniteSetTheorems, SequenceTheorems, TLAPS

SavedPage == [id : Nat, records : Seq(Record)]

IdsFitTheEnvelope == Ids \subseteq 0 .. IntSpan - 1

-----------------------------------------------------------------------------
(* Records, spots and live ids.                                            *)

LEMMA Interval ==
  ASSUME NEW n \in Nat
  PROVE  IsFiniteSet(1 .. n) /\ Cardinality(1 .. n) = n
<1>1. 1 \in Int /\ n \in Int
  OBVIOUS
<1>2. Cardinality(1 .. n) = IF 1 > n THEN 0 ELSE n - 1 + 1
  BY <1>1, FS_Interval
<1> QED BY <1>1, <1>2, FS_Interval

LEMMA RecordFacts ==
  /\ \A r \in Record : r.id \in Nat /\ r.data \in Data /\ r # Dead
  /\ \A id \in Ids, d \in Data : /\ Rec(id, d) \in Record
                                 /\ Rec(id, d).id = id /\ Rec(id, d).data = d
  /\ \A id \in Ids : id \in Nat
  /\ \A d \in ValidData : d \in Data
BY TableAssumption DEF Record, Rec

LEMMA PageFields ==
  ASSUME NEW ps \in Seq(PageType), NEW i \in DOMAIN ps
  PROVE  /\ ps[i] \in PageType /\ ps[i].id \in Nat /\ ps[i].dirty \in BOOLEAN
         /\ ps[i].records \in Seq(Record \cup {Dead})
         /\ Len(ps[i].records) \in Nat /\ DOMAIN ps[i].records = 1 .. Len(ps[i].records)
         /\ \A k \in Kept(ps[i].records) : ps[i].records[k] \in Record
         /\ Len(ps) \in Nat /\ DOMAIN ps = 1 .. Len(ps)
<1>1. ps[i] \in PageType
  OBVIOUS
<1>2. ps[i].records \in Seq(Record \cup {Dead})
  BY <1>1 DEF PageType
<1>3. \A k \in DOMAIN ps[i].records : ps[i].records[k] \in Record \cup {Dead}
  BY <1>2
<1> QED BY <1>1, <1>2, <1>3 DEF PageType, Kept

IdAt(ps, i, k) == ps[i].records[k].id

LEMMA SpotIs ==
  ASSUME NEW ps
  PROVE  /\ \A t \in Spots(ps) : /\ t = <<t[1], t[2]>> /\ t[1] \in DOMAIN ps
                                 /\ t[2] \in Kept(ps[t[1]].records)
                                 /\ At(ps, t).id = IdAt(ps, t[1], t[2])
         /\ \A i \in DOMAIN ps : \A k \in Kept(ps[i].records) :
              <<i, k>> \in Spots(ps) /\ At(ps, <<i, k>>).id = IdAt(ps, i, k)
BY DEF Spots, At, IdAt

LEMMA LiveIdIs ==
  ASSUME NEW ps
  PROVE  /\ \A i \in DOMAIN ps : \A k \in Kept(ps[i].records) : IdAt(ps, i, k) \in LiveIds(ps)
         /\ \A id \in LiveIds(ps) :
              \E i \in DOMAIN ps : \E k \in Kept(ps[i].records) : IdAt(ps, i, k) = id
<1>1. \A i \in DOMAIN ps : \A k \in Kept(ps[i].records) : IdAt(ps, i, k) \in LiveIds(ps)
  <2> SUFFICES ASSUME NEW i \in DOMAIN ps, NEW k \in Kept(ps[i].records)
               PROVE  IdAt(ps, i, k) \in LiveIds(ps)
    OBVIOUS
  <2>1. <<i, k>> \in Spots(ps) /\ At(ps, <<i, k>>).id = IdAt(ps, i, k)
    BY SpotIs
  <2> QED BY <2>1 DEF LiveIds
<1>2. ASSUME NEW id \in LiveIds(ps)
      PROVE  \E i \in DOMAIN ps : \E k \in Kept(ps[i].records) : IdAt(ps, i, k) = id
  <2>1. PICK t \in Spots(ps) : At(ps, t).id = id
    BY DEF LiveIds
  <2> QED BY <2>1, SpotIs
<1> QED BY <1>1, <1>2

LEMMA PageIdIs ==
  ASSUME NEW ps
  PROVE  /\ \A i \in DOMAIN ps : ps[i].id \in PageIds(ps)
         /\ \A id \in PageIds(ps) : \E i \in DOMAIN ps : ps[i].id = id
BY DEF PageIds

LEMMA IdsAreNaturals ==
  ASSUME NEW ps \in Seq(PageType)
  PROVE  LiveIds(ps) \subseteq Nat /\ PageIds(ps) \subseteq Nat
<1>1. \A i \in DOMAIN ps : ps[i].id \in Nat /\ \A k \in Kept(ps[i].records) : IdAt(ps, i, k) \in Nat
  BY PageFields, RecordFacts DEF IdAt
<1> QED BY <1>1, LiveIdIs, PageIdIs

-----------------------------------------------------------------------------
(* The live records of a page, squeezed together.                          *)

(* f leads from each place in q to the place in rs the record came from.    *)
Squeezed(rs, q, f) ==
  /\ f \in [DOMAIN q -> Kept(rs)]
  /\ \A k \in DOMAIN q : q[k] = rs[f[k]]
  /\ \A j, k \in DOMAIN q : f[j] = f[k] => j = k
  /\ \A k \in Kept(rs) : \E j \in DOMAIN q : f[j] = k

LEMMA LiveRecordsAre ==
  ASSUME NEW rs \in Seq(Record \cup {Dead}), NEW q \in LiveRecords(rs)
  PROVE  /\ q \in Seq(Record) /\ Len(q) <= Len(rs) /\ Kept(q) = DOMAIN q
         /\ \E f : Squeezed(rs, q, f)
<1> DEFINE K == Kept(rs)
           n == Cardinality(K)
<1>1. PICK f \in Squeezes(rs) : q = [k \in DOMAIN f |-> rs[f[k]]]
  BY DEF LiveRecords
<1>2. /\ f \in [1 .. n -> K] /\ K = {f[k] : k \in 1 .. n}
      /\ \A j, k \in 1 .. n : j < k => f[j] < f[k]
  BY DEF Squeezes
<1>3. Len(rs) \in Nat /\ K \subseteq 1 .. Len(rs) /\ \A k \in K : rs[k] \in Record
  BY DEF Kept
<1> HIDE DEF K
<1>4. n \in Nat /\ n <= Len(rs)
  <2>1. K \in SUBSET (1 .. Len(rs)) /\ IsFiniteSet(1 .. Len(rs))
        /\ Cardinality(1 .. Len(rs)) = Len(rs)
    BY <1>3, Interval
  <2>2. IsFiniteSet(K) /\ Cardinality(K) <= Cardinality(1 .. Len(rs))
    BY <2>1, FS_Subset
  <2> QED BY <2>1, <2>2, FS_CardinalityType
<1> HIDE DEF n
<1>5. q = [k \in 1 .. n |-> rs[f[k]]] /\ \A k \in 1 .. n : rs[f[k]] \in Record
  BY <1>1, <1>2, <1>3
<1>6. q \in Seq(Record) /\ Len(q) = n /\ DOMAIN q = 1 .. n
  <2> DEFINE e(k) == rs[f[k]]
  <2>1. q = [k \in 1 .. n |-> e(k)] /\ \A k \in 1 .. n : e(k) \in Record
    BY <1>5
  <2> HIDE DEF e
  <2> QED BY <1>4, <2>1
<1>7. Kept(q) = DOMAIN q
  BY <1>5, <1>6, RecordFacts DEF Kept
<1>8. \A j, k \in 1 .. n : f[j] = f[k] => j = k
  <2> SUFFICES ASSUME NEW j \in 1 .. n, NEW k \in 1 .. n, j < k
               PROVE  f[j] < f[k] /\ f[j] \in Nat /\ f[k] \in Nat
    BY <1>3, <1>4
  <2>1. f[j] \in 1 .. Len(rs) /\ f[k] \in 1 .. Len(rs)
    BY <1>2, <1>3
  <2>2. f[j] \in Nat /\ f[k] \in Nat
    BY <1>3, <2>1
  <2>3. f[j] < f[k]
    BY <1>2
  <2> QED BY <2>2, <2>3
<1>9. Squeezed(rs, q, f)
  BY <1>2, <1>5, <1>6, <1>8 DEF Squeezed, K
<1> QED BY <1>4, <1>6, <1>7, <1>9

LEMMA EachSeq ==
  ASSUME NEW S, NEW n \in Nat, NEW sets, DOMAIN sets = 1 .. n,
         \A i \in 1 .. n : sets[i] \subseteq S, NEW q \in Each(sets)
  PROVE  /\ q \in Seq(S) /\ Len(q) = n /\ DOMAIN q = 1 .. n
         /\ \A i \in 1 .. n : q[i] \in sets[i]
<1>1. DOMAIN q = 1 .. n /\ q = [i \in 1 .. n |-> q[i]] /\ \A i \in 1 .. n : q[i] \in sets[i]
  BY DEF Each
<1>2. q \in [1 .. n -> S]
  BY <1>1
<1> QED BY <1>1, <1>2

-----------------------------------------------------------------------------
(* Types and bounds, for any ids.                                          *)

Fitting(ps) == \A i \in DOMAIN ps : Len(ps[i].records) <= PageCap

BaseInv == TypeOK /\ PagesWithinCapacity /\ Fitting(saved) /\ PageIdsBelowCounter

LEMMA InitBase == Init => BaseInv
<1> SUFFICES ASSUME Init PROVE BaseInv
  OBVIOUS
<1>1. /\ pages = <<>> /\ saved = <<>> /\ DOMAIN index = {} /\ DOMAIN pageIndex = {}
      /\ DOMAIN pages = {} /\ DOMAIN saved = {} /\ nextPageId = 0 /\ dirty = FALSE
      /\ status = "OK"
  BY DEF Init
<1>2. TypeOK
  <2>1. pages \in Seq(PageType) /\ saved \in Seq(SavedPage)
    BY <1>1
  <2> QED BY <1>1, <2>1 DEF TypeOK, Statuses, SavedPage
<1> QED BY <1>1, <1>2 DEF BaseInv, PagesWithinCapacity, Fitting, PageIdsBelowCounter

(* A page whose records change keeps its place and its id.                  *)
LEMMA ChangedPage ==
  ASSUME NEW ps \in Seq(PageType), NEW i \in DOMAIN ps, NEW p \in PageType, p.id = ps[i].id
  PROVE  /\ [ps EXCEPT ![i] = p] \in Seq(PageType)
         /\ DOMAIN [ps EXCEPT ![i] = p] = DOMAIN ps
         /\ [ps EXCEPT ![i] = p][i] = p
         /\ \A j \in DOMAIN ps : /\ [ps EXCEPT ![i] = p][j].id = ps[j].id
                                 /\ j # i => [ps EXCEPT ![i] = p][j] = ps[j]
<1>1. [ps EXCEPT ![i] = p] \in Seq(PageType)
  OBVIOUS
<1> QED BY <1>1

LEMMA PageWithRecord ==
  ASSUME NEW p \in PageType, NEW r \in Record
  PROVE  /\ addRecord(p, r) \in PageType /\ addRecord(p, r).id = p.id
         /\ addRecord(p, r).records = Append(p.records, r)
<1>1. Append(p.records, r) \in Seq(Record \cup {Dead})
  BY DEF PageType
<1> QED BY <1>1 DEF addRecord, PageType

LEMMA PageOverwritten ==
  ASSUME NEW p \in PageType, NEW k \in DOMAIN p.records, NEW r \in Record \cup {Dead}
  PROVE  /\ overwrite(p, k, r) \in PageType /\ overwrite(p, k, r).id = p.id
         /\ overwrite(p, k, r).records = [p.records EXCEPT ![k] = r]
         /\ Len(overwrite(p, k, r).records) = Len(p.records)
<1>1. p.records \in Seq(Record \cup {Dead})
  BY DEF PageType
<1>2. /\ [p.records EXCEPT ![k] = r] \in Seq(Record \cup {Dead})
      /\ Len([p.records EXCEPT ![k] = r]) = Len(p.records)
  BY <1>1
<1> QED BY <1>2 DEF overwrite, PageType

(* What the calls that fail and the ones about one record change.           *)
LEMMA FoundIs ==
  ASSUME TypeOK, NEW id, NEW t \in Found(id)
  PROVE  /\ t[1] \in DOMAIN pages /\ t[2] \in Kept(pages[t[1]].records)
         /\ IdAt(pages, t[1], t[2]) = id
         /\ id \in DOMAIN index /\ index[id] \in DOMAIN pageIndex
         /\ t[1] = pageIndex[index[id]]
<1>1. /\ id \in DOMAIN index /\ index[id] \in DOMAIN pageIndex
      /\ t \in Matches(id, pageIndex[index[id]])
  BY DEF Found
<1>2. t \in Spots(pages) /\ t[1] = pageIndex[index[id]] /\ At(pages, t).id = id
  BY <1>1 DEF Matches
<1> QED BY <1>1, <1>2, SpotIs

LEMMA InsertInPageFacts ==
  ASSUME TypeOK, NEW id \in Ids, NEW d \in Data, InsertInPage(id, d)
  PROVE  /\ d \in ValidData /\ id \notin DOMAIN index /\ status' = "OK"
         /\ UNCHANGED <<pageIndex, nextPageId, saved, savedMap, mixed>> /\ dirty' = TRUE
         /\ \E i \in DOMAIN pages :
              /\ Len(pages[i].records) # PageCap
              /\ pages' = [pages EXCEPT ![i] = addRecord(pages[i], Rec(id, d))]
              /\ index' = Extend(index, id, pages[i].id)
BY DEF InsertInPage, WithRoom, isFull

LEMMA InsertInPageBase ==
  ASSUME BaseInv, NEW id \in Ids, NEW d \in Data, InsertInPage(id, d)
  PROVE  BaseInv'
<1>1. TypeOK /\ pages \in Seq(PageType)
  BY DEF BaseInv, TypeOK
<1>2. PICK i \in DOMAIN pages : /\ Len(pages[i].records) # PageCap
                                /\ pages' = [pages EXCEPT ![i] = addRecord(pages[i], Rec(id, d))]
                                /\ index' = Extend(index, id, pages[i].id)
  BY <1>1, InsertInPageFacts
<1> DEFINE p == addRecord(pages[i], Rec(id, d))
<1>3. /\ p \in PageType /\ p.id = pages[i].id /\ p.records = Append(pages[i].records, Rec(id, d))
      /\ pages[i].records \in Seq(Record \cup {Dead}) /\ pages[i].id \in Nat
      /\ Rec(id, d) \in Record
  BY <1>1, PageFields, PageWithRecord, RecordFacts
<1>4. Len(p.records) = Len(pages[i].records) + 1
  BY <1>3
<1> HIDE DEF p
<1>5. /\ pages' \in Seq(PageType) /\ DOMAIN pages' = DOMAIN pages /\ pages'[i] = p
      /\ \A j \in DOMAIN pages : pages'[j].id = pages[j].id /\ (j # i => pages'[j] = pages[j])
  BY <1>1, <1>2, <1>3, ChangedPage DEF p
<1>6. PagesWithinCapacity'
  <2>1. Len(pages[i].records) \in Nat /\ Len(pages[i].records) <= PageCap
    BY <1>1, PageFields DEF BaseInv, PagesWithinCapacity
  <2>2. Len(p.records) <= PageCap
    BY <1>2, <1>4, <2>1, TableAssumption
  <2> QED BY <1>5, <2>2 DEF BaseInv, PagesWithinCapacity
<1>7. /\ UNCHANGED <<pageIndex, nextPageId, saved, mixed>> /\ dirty' = TRUE /\ status' = "OK"
  BY <1>1, InsertInPageFacts
<1>8. TypeOK'
  <2>1. DOMAIN index' = DOMAIN index \cup {id}
        /\ \A x \in DOMAIN index' : index'[x] = IF x = id THEN pages[i].id ELSE index[x]
    BY <1>2 DEF Extend
  <2>2. id \in Nat
    BY RecordFacts
  <2> QED BY <1>1, <1>3, <1>5, <1>7, <2>1, <2>2 DEF TypeOK, Statuses
<1>9. PageIdsBelowCounter'
  BY <1>5, <1>7 DEF BaseInv, PageIdsBelowCounter
<1> QED BY <1>6, <1>7, <1>8, <1>9 DEF BaseInv, Fitting

LEMMA InsertInNewPageBase ==
  ASSUME BaseInv, NEW id \in Ids, NEW d \in Data, InsertInNewPage(id, d)
  PROVE  BaseInv'
<1> DEFINE p == [id |-> nextPageId, records |-> <<Rec(id, d)>>, dirty |-> TRUE]
           n == Len(pages)
<1>1. /\ TypeOK /\ pages \in Seq(PageType) /\ nextPageId \in Nat /\ n \in Nat
      /\ DOMAIN pages = 1 .. n
  BY DEF BaseInv, TypeOK
<1>2. p \in PageType /\ p.id = nextPageId /\ Len(p.records) = 1 /\ id \in Nat
  BY <1>1, RecordFacts DEF PageType
<1>3. /\ pages' = Append(pages, p)
      /\ index' = Extend(index, id, nextPageId)
      /\ pageIndex' = Extend(pageIndex, nextPageId, n + 1)
      /\ nextPageId' = nextPageId + 1
      /\ dirty' = TRUE /\ status' = "OK" /\ UNCHANGED <<saved, mixed>>
  BY DEF InsertInNewPage
<1> HIDE DEF p, n
<1>4. /\ pages' \in Seq(PageType) /\ DOMAIN pages' = 1 .. n + 1 /\ pages'[n + 1] = p
      /\ \A i \in 1 .. n : pages'[i] = pages[i]
  BY <1>1, <1>2, <1>3 DEF n
<1>5. \A i \in 1 .. n + 1 : i \in 1 .. n \/ i = n + 1
  BY <1>1
<1>6. PagesWithinCapacity'
  <2>1. 1 <= PageCap
    BY TableAssumption
  <2>2. Len(pages'[n + 1].records) <= PageCap
    BY <1>2, <1>4, <2>1
  <2>3. \A i \in 1 .. n : Len(pages'[i].records) <= PageCap
    BY <1>1, <1>4 DEF BaseInv, PagesWithinCapacity
  <2>4. \A i \in 1 .. n + 1 : Len(pages'[i].records) <= PageCap
    BY <1>5, <2>2, <2>3
  <2> QED BY <1>4, <2>4 DEF PagesWithinCapacity
<1>7. TypeOK'
  <2>1. DOMAIN index' = DOMAIN index \cup {id}
        /\ \A x \in DOMAIN index' : index'[x] = IF x = id THEN nextPageId ELSE index[x]
    BY <1>3 DEF Extend
  <2>2. DOMAIN pageIndex' = DOMAIN pageIndex \cup {nextPageId}
        /\ \A x \in DOMAIN pageIndex' : pageIndex'[x] = IF x = nextPageId THEN n + 1 ELSE pageIndex[x]
    BY <1>3 DEF Extend
  <2>3. \A i \in 1 .. n : i \in 1 .. n + 1
    BY <1>1
  <2>4. n + 1 \in 1 .. n + 1
    BY <1>1
  <2> QED BY <1>1, <1>2, <1>3, <1>4, <2>1, <2>2, <2>3, <2>4 DEF TypeOK, Statuses
<1>8. PageIdsBelowCounter'
  <2>1. \A i \in 1 .. n : pages[i].id \in Nat
    BY <1>1, PageFields
  <2> QED BY <1>1, <1>2, <1>3, <1>4, <1>5, <2>1 DEF BaseInv, PageIdsBelowCounter
<1> QED BY <1>3, <1>6, <1>7, <1>8 DEF BaseInv, Fitting

(* r took the place of the record id, the k-th of the i-th page.            *)
Overwritten(id, r, i, k) ==
  /\ IdAt(pages, i, k) = id
  /\ pages' \in Seq(PageType) /\ DOMAIN pages' = DOMAIN pages
  /\ pages'[i].records = [pages[i].records EXCEPT ![k] = r]
  /\ \A j \in DOMAIN pages : /\ pages'[j].id = pages[j].id
                             /\ Len(pages'[j].records) = Len(pages[j].records)
                             /\ j # i => pages'[j] = pages[j]

LEMMA OverwriteFacts ==
  ASSUME TypeOK, NEW id, NEW r \in Record \cup {Dead}, NEW t \in Found(id),
         pages' = [pages EXCEPT ![t[1]] = overwrite(pages[t[1]], t[2], r)]
  PROVE  \E i \in DOMAIN pages : \E k \in Kept(pages[i].records) : Overwritten(id, r, i, k)
<1> DEFINE i == t[1]
           k == t[2]
           p == overwrite(pages[i], k, r)
<1>1. /\ i \in DOMAIN pages /\ k \in Kept(pages[i].records) /\ IdAt(pages, i, k) = id
  BY FoundIs
<1>2. pages \in Seq(PageType) /\ pages[i] \in PageType /\ k \in DOMAIN pages[i].records
  BY <1>1 DEF TypeOK, Kept
<1>3. pages' = [pages EXCEPT ![i] = p]
  OBVIOUS
<1> HIDE DEF i, k
<1>4. /\ p \in PageType /\ p.id = pages[i].id
      /\ p.records = [pages[i].records EXCEPT ![k] = r] /\ Len(p.records) = Len(pages[i].records)
  BY <1>2, PageOverwritten
<1> HIDE DEF p
<1>5. /\ pages' \in Seq(PageType) /\ DOMAIN pages' = DOMAIN pages /\ pages'[i] = p
      /\ \A j \in DOMAIN pages : pages'[j].id = pages[j].id /\ (j # i => pages'[j] = pages[j])
  <2> DEFINE ps == [pages EXCEPT ![i] = p]
  <2>1. /\ ps \in Seq(PageType) /\ DOMAIN ps = DOMAIN pages /\ ps[i] = p
        /\ \A j \in DOMAIN pages : ps[j].id = pages[j].id /\ (j # i => ps[j] = pages[j])
    BY <1>1, <1>2, <1>4, ChangedPage
  <2>2. pages' = ps
    BY <1>3
  <2> HIDE DEF ps
  <2> QED BY <2>1, <2>2
<1> QED BY <1>1, <1>4, <1>5 DEF Overwritten

(* The pages as they were, up to what is in them; the indices not widened.  *)
LEMMA SamePagesBase ==
  ASSUME BaseInv, pages' \in Seq(PageType), DOMAIN pages' = DOMAIN pages,
         \A i \in DOMAIN pages : /\ pages'[i].id = pages[i].id
                                 /\ Len(pages'[i].records) <= Len(pages[i].records),
         DOMAIN index' \subseteq Nat, \A id \in DOMAIN index' : index'[id] \in Nat,
         DOMAIN pageIndex' \subseteq Nat,
         \A k \in DOMAIN pageIndex' : pageIndex'[k] \in DOMAIN pages,
         nextPageId' = nextPageId, dirty' \in BOOLEAN, saved' = saved, mixed' = mixed,
         status' \in Statuses
  PROVE  BaseInv'
<1>1. TypeOK'
  BY DEF BaseInv, TypeOK
<1>2. PagesWithinCapacity'
  <2> SUFFICES ASSUME NEW i \in DOMAIN pages PROVE Len(pages'[i].records) <= PageCap
    BY DEF PagesWithinCapacity
  <2>1. Len(pages'[i].records) \in Nat
    BY PageFields
  <2>2. Len(pages[i].records) \in Nat /\ Len(pages[i].records) <= PageCap
    BY PageFields DEF BaseInv, TypeOK, PagesWithinCapacity
  <2> QED BY <2>1, <2>2, TableAssumption
<1>3. PageIdsBelowCounter'
  BY DEF BaseInv, PageIdsBelowCounter
<1> QED BY <1>1, <1>2, <1>3 DEF BaseInv, Fitting

LEMMA UpdateFacts ==
  ASSUME TypeOK, NEW id \in Ids, NEW d \in Data, updateRecord(id, d)
  PROVE  /\ d \in ValidData /\ status' = "OK" /\ dirty' = TRUE
         /\ UNCHANGED <<index, pageIndex, nextPageId, saved, savedMap, mixed>>
         /\ \E t \in Found(id) :
              pages' = [pages EXCEPT ![t[1]] = overwrite(pages[t[1]], t[2], Rec(id, d))]
BY DEF updateRecord

LEMMA UpdateBase ==
  ASSUME BaseInv, NEW id \in Ids, NEW d \in Data, updateRecord(id, d)
  PROVE  BaseInv'
<1>1. TypeOK
  BY DEF BaseInv
<1>2. PICK t \in Found(id) :
        pages' = [pages EXCEPT ![t[1]] = overwrite(pages[t[1]], t[2], Rec(id, d))]
  BY <1>1, UpdateFacts
<1>3. Rec(id, d) \in Record \cup {Dead}
  BY RecordFacts
<1>4. /\ pages' \in Seq(PageType) /\ DOMAIN pages' = DOMAIN pages
      /\ \A j \in DOMAIN pages : /\ pages'[j].id = pages[j].id
                                 /\ Len(pages'[j].records) = Len(pages[j].records)
  BY <1>1, <1>2, <1>3, OverwriteFacts DEF Overwritten
<1>5. \A j \in DOMAIN pages : Len(pages[j].records) <= Len(pages[j].records)
  BY <1>1, PageFields DEF TypeOK
<1>6. /\ index' = index /\ pageIndex' = pageIndex /\ nextPageId' = nextPageId
      /\ dirty' \in BOOLEAN /\ saved' = saved /\ mixed' = mixed /\ status' \in Statuses
  BY <1>1, UpdateFacts DEF Statuses
<1> QED BY <1>1, <1>4, <1>5, <1>6, SamePagesBase DEF TypeOK

LEMMA DeleteFacts ==
  ASSUME TypeOK, NEW id \in Ids, deleteRecord(id)
  PROVE  /\ status' = "OK" /\ dirty' = TRUE
         /\ UNCHANGED <<pageIndex, nextPageId, saved, savedMap, mixed>>
         /\ index' = [k \in DOMAIN index \ {id} |-> index[k]]
         /\ \E t \in Found(id) :
              pages' = [pages EXCEPT ![t[1]] = overwrite(pages[t[1]], t[2], Dead)]
BY DEF deleteRecord

LEMMA DeleteBase ==
  ASSUME BaseInv, NEW id \in Ids, deleteRecord(id)
  PROVE  BaseInv'
<1>1. TypeOK
  BY DEF BaseInv
<1>2. PICK t \in Found(id) : pages' = [pages EXCEPT ![t[1]] = overwrite(pages[t[1]], t[2], Dead)]
  BY <1>1, DeleteFacts
<1>3. Dead \in Record \cup {Dead}
  OBVIOUS
<1>4. /\ pages' \in Seq(PageType) /\ DOMAIN pages' = DOMAIN pages
      /\ \A j \in DOMAIN pages : /\ pages'[j].id = pages[j].id
                                 /\ Len(pages'[j].records) = Len(pages[j].records)
  BY <1>1, <1>2, <1>3, OverwriteFacts DEF Overwritten
<1>5. \A j \in DOMAIN pages : Len(pages[j].records) <= Len(pages[j].records)
  BY <1>1, PageFields DEF TypeOK
<1>6. /\ index' = [k \in DOMAIN index \ {id} |-> index[k]] /\ pageIndex' = pageIndex
      /\ nextPageId' = nextPageId
      /\ dirty' \in BOOLEAN /\ saved' = saved /\ mixed' = mixed /\ status' \in Statuses
  BY <1>1, DeleteFacts DEF Statuses
<1>7. DOMAIN index' \subseteq Nat /\ \A x \in DOMAIN index' : index'[x] \in Nat
  BY <1>1, <1>6 DEF TypeOK
<1> QED BY <1>1, <1>4, <1>5, <1>6, <1>7, SamePagesBase DEF TypeOK

-----------------------------------------------------------------------------
(* Compaction and the way out: the live records of ps are those of qs.      *)
SqueezedPages(ps, qs) ==
  /\ DOMAIN qs = DOMAIN ps
  /\ \A i \in DOMAIN ps :
       /\ qs[i].id = ps[i].id /\ Len(qs[i].records) <= Len(ps[i].records)
       /\ qs[i].records \in Seq(Record) /\ Kept(qs[i].records) = DOMAIN qs[i].records
       /\ \E f : Squeezed(ps[i].records, qs[i].records, f)

LEMMA CompactFacts ==
  ASSUME TypeOK, compact
  PROVE  /\ pages' \in Seq(PageType) /\ SqueezedPages(pages, pages')
         /\ dirty' = FALSE /\ status' = "OK"
         /\ UNCHANGED <<index, pageIndex, nextPageId, saved, savedMap, mixed>>
<1> DEFINE n == Len(pages)
           sets == [i \in DOMAIN pages |-> Compacted(pages[i])]
<1>1. pages \in Seq(PageType) /\ n \in Nat /\ DOMAIN pages = 1 .. n
  BY DEF TypeOK
<1>2. ASSUME NEW i \in DOMAIN pages, NEW p \in Compacted(pages[i])
      PROVE  /\ p \in PageType /\ p.id = pages[i].id
             /\ p.records \in LiveRecords(pages[i].records)
  <2>1. PICK rs \in LiveRecords(pages[i].records) :
          p = [pages[i] EXCEPT !.records = rs, !.dirty = FALSE]
    BY <1>2 DEF Compacted
  <2>2. pages[i] \in PageType /\ pages[i].records \in Seq(Record \cup {Dead})
    BY <1>1, PageFields
  <2>3. rs \in Seq(Record)
    BY <2>2, LiveRecordsAre
  <2>4. rs \in Seq(Record \cup {Dead})
    BY <2>3
  <2> QED BY <2>1, <2>2, <2>4 DEF PageType
<1>3. /\ DOMAIN sets = 1 .. n /\ \A i \in 1 .. n : sets[i] \subseteq PageType
      /\ pages' \in Each(sets)
  BY <1>1, <1>2 DEF compact
<1>4. /\ pages' \in Seq(PageType) /\ DOMAIN pages' = 1 .. n
      /\ \A i \in 1 .. n : pages'[i] \in sets[i]
  <2> HIDE DEF sets, n
  <2> QED BY <1>1, <1>3, EachSeq
<1>5. \A i \in DOMAIN pages : /\ pages'[i].id = pages[i].id
                              /\ pages'[i].records \in LiveRecords(pages[i].records)
                              /\ pages[i].records \in Seq(Record \cup {Dead})
  <2>1. \A i \in DOMAIN pages : pages'[i] \in Compacted(pages[i])
    BY <1>1, <1>4
  <2> QED BY <1>1, <1>2, <2>1, PageFields
<1>6. SqueezedPages(pages, pages')
  BY <1>1, <1>4, <1>5, LiveRecordsAre DEF SqueezedPages
<1> QED BY <1>4, <1>6 DEF compact

LEMMA CompactBase ==
  ASSUME BaseInv, compact
  PROVE  BaseInv'
<1>1. TypeOK
  BY DEF BaseInv
<1>2. /\ pages' \in Seq(PageType) /\ SqueezedPages(pages, pages')
      /\ dirty' \in BOOLEAN /\ status' \in Statuses
      /\ UNCHANGED <<index, pageIndex, nextPageId, saved, mixed>>
  BY <1>1, CompactFacts DEF Statuses
<1>3. /\ DOMAIN pages' = DOMAIN pages
      /\ \A i \in DOMAIN pages : /\ pages'[i].id = pages[i].id
                                 /\ Len(pages'[i].records) <= Len(pages[i].records)
  BY <1>2 DEF SqueezedPages
<1> QED BY <1>1, <1>2, <1>3, SamePagesBase DEF TypeOK

LEMMA ToJsonFacts ==
  ASSUME TypeOK, toJson
  PROVE  /\ saved' \in Seq(SavedPage) /\ SqueezedPages(pages, saved')
         /\ ~mixed /\ savedMap' = MapOf(pages) /\ status' = "OK"
         /\ UNCHANGED <<pages, index, pageIndex, nextPageId, dirty, mixed>>
<1> DEFINE n == Len(pages)
           sets == [i \in DOMAIN pages |-> Stored(pages[i])]
<1>1. pages \in Seq(PageType) /\ n \in Nat /\ DOMAIN pages = 1 .. n
  BY DEF TypeOK
<1>2. ASSUME NEW i \in DOMAIN pages, NEW p \in Stored(pages[i])
      PROVE  /\ p \in SavedPage /\ p.id = pages[i].id
             /\ p.records \in LiveRecords(pages[i].records)
  <2>1. PICK rs \in LiveRecords(pages[i].records) : p = [id |-> pages[i].id, records |-> rs]
    BY <1>2 DEF Stored
  <2>2. pages[i].id \in Nat /\ pages[i].records \in Seq(Record \cup {Dead})
    BY <1>1, PageFields
  <2>3. rs \in Seq(Record)
    BY <2>2, LiveRecordsAre
  <2> QED BY <2>1, <2>2, <2>3 DEF SavedPage
<1>3. /\ DOMAIN sets = 1 .. n /\ \A i \in 1 .. n : sets[i] \subseteq SavedPage
      /\ saved' \in Each(sets)
  BY <1>1, <1>2 DEF toJson
<1>4. /\ saved' \in Seq(SavedPage) /\ DOMAIN saved' = 1 .. n
      /\ \A i \in 1 .. n : saved'[i] \in sets[i]
  <2> HIDE DEF sets, n
  <2> QED BY <1>1, <1>3, EachSeq
<1>5. \A i \in DOMAIN pages : /\ saved'[i].id = pages[i].id
                              /\ saved'[i].records \in LiveRecords(pages[i].records)
                              /\ pages[i].records \in Seq(Record \cup {Dead})
  <2>1. \A i \in DOMAIN pages : saved'[i] \in Stored(pages[i])
    BY <1>1, <1>4
  <2> QED BY <1>1, <1>2, <2>1, PageFields
<1>6. SqueezedPages(pages, saved')
  BY <1>1, <1>4, <1>5, LiveRecordsAre DEF SqueezedPages
<1> QED BY <1>4, <1>6 DEF toJson

LEMMA ToJsonBase ==
  ASSUME BaseInv, toJson
  PROVE  BaseInv'
<1>1. TypeOK /\ pages \in Seq(PageType)
  BY DEF BaseInv, TypeOK
<1>2. /\ saved' \in Seq(SavedPage) /\ SqueezedPages(pages, saved') /\ status' \in Statuses
      /\ UNCHANGED <<pages, index, pageIndex, nextPageId, dirty, mixed>>
  BY <1>1, ToJsonFacts DEF Statuses
<1>3. TypeOK'
  BY <1>1, <1>2 DEF TypeOK, SavedPage
<1>4. Fitting(saved')
  <2> SUFFICES ASSUME NEW i \in DOMAIN saved' PROVE Len(saved'[i].records) <= PageCap
    BY DEF Fitting
  <2>1. /\ i \in DOMAIN pages /\ saved'[i].records \in Seq(Record)
        /\ Len(saved'[i].records) <= Len(pages[i].records)
    BY <1>2 DEF SqueezedPages
  <2>2. Len(pages[i].records) \in Nat /\ Len(pages[i].records) <= PageCap
    BY <1>1, <2>1, PageFields DEF BaseInv, PagesWithinCapacity
  <2>3. Len(saved'[i].records) \in Nat
    BY <2>1
  <2> QED BY <2>1, <2>2, <2>3, TableAssumption
<1> QED BY <1>2, <1>3, <1>4 DEF BaseInv, PagesWithinCapacity, PageIdsBelowCounter, Fitting

-----------------------------------------------------------------------------
(* The way in, and the rebuilt indices.                                    *)

LEMMA ReadBackNatural ==
  ASSUME NEW id \in Nat
  PROVE  ReadBack(id) \subseteq Nat
<1> DEFINE low == id % (2 * IntSpan)
<1>1. /\ IntSpan \in Nat \ {0} /\ IdSpan \in Nat /\ 2 * IntSpan <= IdSpan
      /\ 2 * IntSpan \in Nat \ {0}
  BY TableAssumption
<1>2. low \in Nat /\ low < 2 * IntSpan
  BY <1>1
<1> HIDE DEF low
<1>3. IdSpan - (2 * IntSpan - low) \in Nat
  BY <1>1, <1>2
<1> QED BY <1>2, <1>3 DEF ReadBack, low

LEMMA SavedFields ==
  ASSUME NEW ps \in Seq(SavedPage), NEW i \in DOMAIN ps
  PROVE  /\ ps[i] \in SavedPage /\ ps[i].id \in Nat
         /\ ps[i].records \in Seq(Record) /\ Kept(ps[i].records) = DOMAIN ps[i].records
         /\ \A k \in DOMAIN ps[i].records : ps[i].records[k] \in Record
         /\ Len(ps) \in Nat /\ DOMAIN ps = 1 .. Len(ps)
<1>1. ps[i] \in SavedPage
  OBVIOUS
<1>2. ps[i].records \in Seq(Record)
  BY <1>1 DEF SavedPage
<1>3. \A k \in DOMAIN ps[i].records : ps[i].records[k] \in Record
  BY <1>2
<1>4. Kept(ps[i].records) = DOMAIN ps[i].records
  BY <1>3, RecordFacts DEF Kept
<1> QED BY <1>1, <1>2, <1>3, <1>4 DEF SavedPage

(* What loading makes of a page of the envelope.                            *)
LEMMA LoadedAre ==
  ASSUME saved \in Seq(SavedPage), NEW g \in IdReadings
  PROVE  /\ LoadedPages(g) \in Seq(PageType)
         /\ Len(LoadedPages(g)) = Len(saved) /\ DOMAIN LoadedPages(g) = DOMAIN saved
         /\ \A i \in DOMAIN saved :
              /\ LoadedPages(g)[i].id = saved[i].id
              /\ LoadedPages(g)[i].records \in Seq(Record)
              /\ Len(LoadedPages(g)[i].records) = Len(saved[i].records)
              /\ Kept(LoadedPages(g)[i].records) = DOMAIN saved[i].records
              /\ \A k \in DOMAIN saved[i].records :
                   /\ LoadedPages(g)[i].records[k].id = g[saved[i].records[k].id]
                   /\ LoadedPages(g)[i].records[k].data = saved[i].records[k].data
<1> DEFINE rec(i, k) == [saved[i].records[k] EXCEPT !.id = g[@]]
           rs(i) == [k \in DOMAIN saved[i].records |-> rec(i, k)]
           page(i) == [id |-> saved[i].id, records |-> rs(i), dirty |-> FALSE]
           n == Len(saved)
<1>1. n \in Nat /\ DOMAIN saved = 1 .. n
  OBVIOUS
<1>2. ASSUME NEW i \in DOMAIN saved, NEW k \in DOMAIN saved[i].records
      PROVE  /\ rec(i, k) \in Record /\ rec(i, k).id = g[saved[i].records[k].id]
             /\ rec(i, k).data = saved[i].records[k].data
  <2>1. saved[i].records[k] \in Record /\ k \in Kept(saved[i].records)
    BY SavedFields
  <2>2. saved[i].records[k].id \in LiveIds(saved) /\ saved[i].records[k].id \in Nat
    BY <2>1, LiveIdIs, RecordFacts DEF IdAt
  <2>3. g[saved[i].records[k].id] \in Nat
    BY <2>2, ReadBackNatural DEF IdReadings
  <2> QED BY <2>1, <2>3 DEF Record
<1>3. ASSUME NEW i \in DOMAIN saved
      PROVE  /\ rs(i) \in Seq(Record) /\ Len(rs(i)) = Len(saved[i].records)
             /\ DOMAIN rs(i) = DOMAIN saved[i].records
             /\ Kept(rs(i)) = DOMAIN saved[i].records
             /\ page(i) \in PageType
  <2>1. saved[i].id \in Nat /\ saved[i].records \in Seq(Record)
    BY SavedFields
  <2> DEFINE m == Len(saved[i].records)
  <2>2. m \in Nat /\ DOMAIN saved[i].records = 1 .. m
    BY <2>1
  <2>3. rs(i) = [k \in 1 .. m |-> rec(i, k)] /\ \A k \in 1 .. m : rec(i, k) \in Record
    BY <1>2, <2>2
  <2> HIDE DEF rs, rec, m
  <2>4. rs(i) \in Seq(Record) /\ Len(rs(i)) = m /\ DOMAIN rs(i) = 1 .. m
    BY <2>2, <2>3
  <2>5. Kept(rs(i)) = 1 .. m
    BY <2>3, <2>4, RecordFacts DEF Kept
  <2>6. rs(i) \in Seq(Record \cup {Dead})
    BY <2>4
  <2> QED BY <2>1, <2>2, <2>4, <2>5, <2>6 DEF PageType, m
<1>4. LoadedPages(g) = [i \in 1 .. n |-> page(i)]
  BY <1>1 DEF LoadedPages
<1>5. \A i \in 1 .. n : page(i).id = saved[i].id /\ page(i).records = rs(i)
  OBVIOUS
<1>6. \A i \in 1 .. n : \A k \in DOMAIN saved[i].records : rs(i)[k] = rec(i, k)
  OBVIOUS
<1> HIDE DEF page, rs, rec, n
<1>7. LoadedPages(g) \in Seq(PageType) /\ Len(LoadedPages(g)) = n
  BY <1>1, <1>3, <1>4
<1>8. \A i \in 1 .. n : LoadedPages(g)[i] = page(i)
  BY <1>4
<1> QED BY <1>1, <1>2, <1>3, <1>5, <1>6, <1>7, <1>8 DEF n

LEMMA RebuiltFacts ==
  ASSUME NEW ps \in Seq(PageType), Rebuilt(ps)
  PROVE  /\ IndexOver(ps, index') /\ PageIndexOver(ps, pageIndex')
         /\ DOMAIN index' \subseteq Nat /\ \A id \in DOMAIN index' : index'[id] \in Nat
         /\ DOMAIN pageIndex' \subseteq Nat
         /\ \A k \in DOMAIN pageIndex' : pageIndex'[k] \in DOMAIN ps
<1>1. /\ index' \in [LiveIds(ps) -> PageIds(ps)] /\ IndexOver(ps, index')
      /\ pageIndex' \in [PageIds(ps) -> DOMAIN ps] /\ PageIndexOver(ps, pageIndex')
  BY DEF Rebuilt
<1>2. LiveIds(ps) \subseteq Nat /\ PageIds(ps) \subseteq Nat
  BY IdsAreNaturals
<1> QED BY <1>1, <1>2

LEMMA RebuildBase ==
  ASSUME BaseInv, rebuildIndex
  PROVE  BaseInv'
<1>1. /\ pages \in Seq(PageType) /\ Rebuilt(pages) /\ status' \in Statuses
      /\ UNCHANGED <<pages, nextPageId, dirty, saved, mixed>> /\ dirty \in BOOLEAN
  BY DEF BaseInv, TypeOK, rebuildIndex, Statuses
<1>2. \A i \in DOMAIN pages : Len(pages[i].records) <= Len(pages[i].records)
  BY <1>1, PageFields
<1> QED BY <1>1, <1>2, RebuiltFacts, SamePagesBase

LEMMA ResumeFacts ==
  ASSUME NEW ps, NEW qs, \A i \in DOMAIN qs : qs[i].id \in Nat, ResumeCounter(ps, qs)
  PROVE  /\ nextPageId' \in Nat
         /\ ps # <<>> => \A i \in DOMAIN qs : qs[i].id < nextPageId'
<1>1. PICK top \in {0} \cup {qs[i].id : i \in DOMAIN qs} :
        /\ \A i \in DOMAIN qs : qs[i].id <= top
        /\ nextPageId' = IF ps = <<>> THEN 0 ELSE top + 1
  BY DEF ResumeCounter
<1>2. top \in Nat
  BY <1>1
<1> QED BY <1>1, <1>2

LEMMA FromJsonFacts ==
  ASSUME TypeOK, fromJson
  PROVE  /\ UNCHANGED <<saved, savedMap>> /\ dirty' = FALSE /\ status' = "OK" /\ mixed' = FALSE
         /\ \E g \in IdReadings : /\ pages' = LoadedPages(g)
                                  /\ ResumeCounter(LoadedPages(g), LoadedPages(g))
                                  /\ Rebuilt(LoadedPages(g))
BY DEF fromJson

LEMMA FromJsonBase ==
  ASSUME BaseInv, fromJson
  PROVE  BaseInv'
<1>1. TypeOK /\ saved \in Seq(SavedPage)
  BY DEF BaseInv, TypeOK, SavedPage
<1>2. PICK g \in IdReadings : /\ pages' = LoadedPages(g)
                              /\ ResumeCounter(LoadedPages(g), LoadedPages(g))
                              /\ Rebuilt(LoadedPages(g))
  BY <1>1, FromJsonFacts
<1> DEFINE ps == LoadedPages(g)
<1>3. /\ ps \in Seq(PageType) /\ DOMAIN ps = DOMAIN saved
      /\ \A i \in DOMAIN saved : Len(ps[i].records) = Len(saved[i].records)
  BY <1>1, LoadedAre
<1> HIDE DEF ps
<1>4. \A i \in DOMAIN ps : ps[i].id \in Nat
  BY <1>3, PageFields
<1>5. pages' = ps /\ Rebuilt(ps) /\ ResumeCounter(ps, ps)
  BY <1>2 DEF ps
<1>6. nextPageId' \in Nat /\ (ps # <<>> => \A i \in DOMAIN ps : ps[i].id < nextPageId')
  BY <1>4, <1>5, ResumeFacts
<1>7. UNCHANGED saved /\ dirty' = FALSE /\ status' = "OK" /\ mixed' = FALSE
  BY <1>1, FromJsonFacts
<1>8. TypeOK'
  BY <1>1, <1>3, <1>5, <1>6, <1>7, RebuiltFacts DEF TypeOK, Statuses
<1>9. PagesWithinCapacity'
  BY <1>3, <1>5 DEF BaseInv, Fitting, PagesWithinCapacity
<1>10. PageIdsBelowCounter'
  BY <1>5, <1>6 DEF PageIdsBelowCounter
<1> QED BY <1>7, <1>8, <1>9, <1>10 DEF BaseInv, Fitting

LEMMA Concatenated ==
  ASSUME NEW ps \in Seq(PageType), NEW qs \in Seq(PageType), Fitting(ps), Fitting(qs)
  PROVE  /\ ps \o qs \in Seq(PageType) /\ Fitting(ps \o qs)
         /\ DOMAIN ps \subseteq DOMAIN (ps \o qs)
<1>1. /\ ps \o qs \in Seq(PageType) /\ Len(ps \o qs) = Len(ps) + Len(qs)
      /\ \A i \in 1 .. Len(ps) + Len(qs) :
           (ps \o qs)[i] = IF i <= Len(ps) THEN ps[i] ELSE qs[i - Len(ps)]
  BY ConcatProperties
<1> DEFINE t == ps \o qs
           m == Len(ps)
           n == Len(qs)
<1>2. /\ m \in Nat /\ n \in Nat /\ DOMAIN ps = 1 .. m /\ DOMAIN qs = 1 .. n
      /\ DOMAIN t = 1 .. m + n
  BY <1>1
<1>3. \A i \in 1 .. m + n : t[i] = IF i <= m THEN ps[i] ELSE qs[i - m]
  BY <1>1
<1> HIDE DEF t, m, n
<1>4. \A i \in 1 .. m + n : i \in 1 .. m \/ (~(i <= m) /\ i - m \in 1 .. n)
  BY <1>2
<1>5. Fitting(t)
  <2> SUFFICES ASSUME NEW i \in 1 .. m + n PROVE Len(t[i].records) <= PageCap
    BY <1>2 DEF Fitting
  <2>1. CASE i \in 1 .. m
    <3>1. t[i] = ps[i]
      BY <1>2, <1>3, <2>1
    <3> QED BY <1>2, <2>1, <3>1 DEF Fitting
  <2>2. CASE ~(i <= m) /\ i - m \in 1 .. n
    <3>1. t[i] = qs[i - m]
      BY <1>3, <2>2
    <3> QED BY <1>2, <2>2, <3>1 DEF Fitting
  <2> QED BY <1>4, <2>1, <2>2
<1>6. 1 .. m \subseteq 1 .. m + n
  BY <1>2
<1> QED BY <1>1, <1>2, <1>5, <1>6 DEF t

(* deserialize() on a table in use, to its end or not: pages are added.     *)
LEMMA DeserializeBase ==
  ASSUME BaseInv, deserialize
  PROVE  BaseInv'
<1>1. TypeOK /\ saved \in Seq(SavedPage) /\ pages \in Seq(PageType)
  BY DEF BaseInv, TypeOK, SavedPage
<1>2. /\ status' = "OK" /\ mixed' = TRUE /\ UNCHANGED <<dirty, saved>>
      /\ \E g \in IdReadings : /\ pages' = pages \o LoadedPages(g)
                               /\ ResumeCounter(pages \o LoadedPages(g), LoadedPages(g))
                               /\ Rebuilt(pages \o LoadedPages(g))
  BY DEF deserialize
<1>3. PICK g \in IdReadings : /\ pages' = pages \o LoadedPages(g)
                              /\ ResumeCounter(pages \o LoadedPages(g), LoadedPages(g))
                              /\ Rebuilt(pages \o LoadedPages(g))
  BY <1>2
<1> DEFINE qs == LoadedPages(g)
           ps == pages \o qs
<1>4. qs \in Seq(PageType) /\ Fitting(qs)
  <2>1. /\ qs \in Seq(PageType) /\ DOMAIN qs = DOMAIN saved
        /\ \A i \in DOMAIN saved : Len(qs[i].records) = Len(saved[i].records)
    BY <1>1, LoadedAre
  <2> HIDE DEF qs
  <2> QED BY <2>1 DEF BaseInv, Fitting
<1>5. ps \in Seq(PageType) /\ Fitting(ps)
  BY <1>1, <1>4, Concatenated DEF BaseInv, PagesWithinCapacity, Fitting
<1>6. \A i \in DOMAIN qs : qs[i].id \in Nat
  BY <1>4, PageFields
<1>7. nextPageId' \in Nat
  BY <1>3, <1>6, ResumeFacts
<1> HIDE DEF ps
<1>8. TypeOK'
  BY <1>1, <1>2, <1>3, <1>5, <1>7, RebuiltFacts DEF TypeOK, Statuses, ps
<1> QED BY <1>2, <1>3, <1>5, <1>8
        DEF BaseInv, PagesWithinCapacity, PageIdsBelowCounter, Fitting, ps

LEMMA DeserializeFailsBase ==
  ASSUME BaseInv, deserializeFails
  PROVE  BaseInv'
<1>1. TypeOK /\ saved \in Seq(SavedPage) /\ pages \in Seq(PageType)
  BY DEF BaseInv, TypeOK, SavedPage
<1>2. /\ status' = "PARSE_ERROR" /\ mixed' = TRUE
      /\ UNCHANGED <<index, pageIndex, nextPageId, dirty, saved>>
      /\ \E g \in IdReadings, n \in 0 .. Len(saved) :
           pages' = pages \o SubSeq(LoadedPages(g), 1, n)
  BY DEF deserializeFails
<1>3. PICK g \in IdReadings, n \in 0 .. Len(saved) :
        pages' = pages \o SubSeq(LoadedPages(g), 1, n)
  BY <1>2
<1> DEFINE qs == LoadedPages(g)
           rs == SubSeq(qs, 1, n)
<1>4. /\ qs \in Seq(PageType) /\ DOMAIN qs = 1 .. Len(saved) /\ Len(saved) \in Nat
      /\ \A i \in 1 .. Len(saved) : Len(qs[i].records) <= PageCap
  <2>1. /\ qs \in Seq(PageType) /\ DOMAIN qs = DOMAIN saved
        /\ \A i \in DOMAIN saved : Len(qs[i].records) = Len(saved[i].records)
    BY <1>1, LoadedAre
  <2> HIDE DEF qs
  <2> QED BY <1>1, <2>1 DEF BaseInv, Fitting
<1> HIDE DEF qs
<1>5. rs \in Seq(PageType) /\ Fitting(rs)
  <2>1. n \in Nat /\ \A i \in 1 .. n : i \in 1 .. Len(saved) /\ qs[i] \in PageType
    BY <1>4
  <2>2. rs \in Seq(PageType) /\ Len(rs) = n /\ \A i \in 1 .. n : rs[i] = qs[i]
    BY <2>1, SubSeqProperties
  <2>3. DOMAIN rs = 1 .. n
    BY <2>2
  <2> HIDE DEF rs
  <2> QED BY <1>4, <2>1, <2>2, <2>3 DEF Fitting
<1>6. /\ pages' \in Seq(PageType) /\ Fitting(pages') /\ DOMAIN pages \subseteq DOMAIN pages'
  BY <1>1, <1>3, <1>5, Concatenated DEF BaseInv, PagesWithinCapacity, Fitting, qs
<1>7. TypeOK'
  BY <1>1, <1>2, <1>6 DEF TypeOK, Statuses
<1> QED BY <1>2, <1>6, <1>7 DEF BaseInv, PagesWithinCapacity, PageIdsBelowCounter, Fitting

LEMMA FailsBase ==
  ASSUME BaseInv, NEW s \in Statuses, Fails(s)
  PROVE  BaseInv'
BY DEF BaseInv, Fails, TypeOK, PagesWithinCapacity, PageIdsBelowCounter, Fitting

(* Every step is one of the calls.  A call that fails changes the status.   *)
LEMMA StepIs ==
  ASSUME Next
  PROVE  \/ \E s \in Statuses : Fails(s)
         \/ \E id \in Ids, d \in Data :
              InsertInPage(id, d) \/ InsertInNewPage(id, d) \/ updateRecord(id, d)
         \/ \E id \in Ids : deleteRecord(id)
         \/ compact \/ rebuildIndex \/ toJson \/ fromJson \/ deserialize \/ deserializeFails
<1>1. {"INVALID", "DUPLICATE_KEY", "NOT_FOUND"} \subseteq Statuses
  BY DEF Statuses
<1>2. CASE \E id \in Ids, d \in Data :
             InsertInvalid(d) \/ InsertDuplicate(id, d) \/ UpdateInvalid(d) \/ UpdateMissing(id, d)
  BY <1>1, <1>2 DEF InsertInvalid, InsertDuplicate, UpdateInvalid, UpdateMissing
<1>3. CASE \E id \in Ids : DeleteMissing(id)
  BY <1>1, <1>3 DEF DeleteMissing
<1> QED BY <1>2, <1>3 DEF Next

LEMMA NextBase ==
  ASSUME BaseInv, [Next]_vars
  PROVE  BaseInv'
<1>1. CASE UNCHANGED vars
  BY <1>1 DEF vars, BaseInv, TypeOK, PagesWithinCapacity, PageIdsBelowCounter, Fitting
<1>2. CASE Next
  BY <1>2, StepIs, FailsBase, InsertInPageBase, InsertInNewPageBase, UpdateBase, DeleteBase,
     CompactBase, RebuildBase, ToJsonBase, FromJsonBase, DeserializeBase, DeserializeFailsBase
<1> QED BY <1>1, <1>2

(* In every reachable state the pages, the indices and the envelope are     *)
(* typed, pages and envelope stay within a page's capacity, and page ids    *)
(* stay below the counter.                                                  *)
THEOREM BaseInvariant == Spec => []BaseInv
<1> QED BY InitBase, NextBase, PTL DEF Spec

(* Every variable of the table keeps its type, whatever the calls are.      *)
THEOREM TypeCorrect == Spec => []TypeOK
<1>1. BaseInv => TypeOK
  BY DEF BaseInv
<1> QED BY <1>1, BaseInvariant, PTL

(* findPageWithSlot() and the loads never leave a page with more records    *)
(* than DBConstants::MAX_RECORDS_PAGE, in a table loaded in use either.     *)
THEOREM PagesNeverOverflow == Spec => []PagesWithinCapacity
<1>1. BaseInv => PagesWithinCapacity
  BY DEF BaseInv
<1> QED BY <1>1, BaseInvariant, PTL

(* nextPageId_ is above every page's id, after a load too: the page that    *)
(* insertRecord() adds never takes the id of another.                       *)
THEOREM PageIdsStayBelow == Spec => []PageIdsBelowCounter
<1>1. BaseInv => PageIdsBelowCounter
  BY DEF BaseInv
<1> QED BY <1>1, BaseInvariant, PTL

-----------------------------------------------------------------------------
(* Live records by the spot they are at.                                   *)

PageAt(ps, t) == ps[t[1]].id

LEMMA SpotPairs ==
  ASSUME NEW ps
  PROVE  /\ \A i, k : <<i, k>> \in Spots(ps) <=> i \in DOMAIN ps /\ k \in Kept(ps[i].records)
         /\ \A i, k : At(ps, <<i, k>>) = ps[i].records[k] /\ PageAt(ps, <<i, k>>) = ps[i].id
         /\ \A t \in Spots(ps) : t = <<t[1], t[2]>>
BY DEF Spots, At, PageAt

DistinctPages(ps) == \A i, j \in DOMAIN ps : ps[i].id = ps[j].id => i = j
DistinctSpots(ps) == \A t, u \in Spots(ps) : At(ps, t).id = At(ps, u).id => t = u
KnownIds(ps) == \A t \in Spots(ps) : At(ps, t).id \in Ids

SpotsIndexed(ps, idx) ==
  /\ \A id \in DOMAIN idx : \E t \in Spots(ps) : At(ps, t).id = id
  /\ \A t \in Spots(ps) : At(ps, t).id \in DOMAIN idx /\ idx[At(ps, t).id] = PageAt(ps, t)

LEMMA IndexIs ==
  ASSUME NEW ps, NEW idx, DistinctSpots(ps)
  PROVE  IndexOver(ps, idx) <=> SpotsIndexed(ps, idx)
<1>1. /\ \A t \in Spots(ps) : At(ps, t).id \in LiveIds(ps)
      /\ \A id \in LiveIds(ps) : \E t \in Spots(ps) : At(ps, t).id = id
  BY DEF LiveIds
<1>2. ASSUME IndexOver(ps, idx) PROVE SpotsIndexed(ps, idx)
  <2>1. ASSUME NEW t \in Spots(ps) PROVE idx[At(ps, t).id] = PageAt(ps, t)
    <3>1. PICK u \in Spots(ps) : At(ps, u).id = At(ps, t).id /\ idx[At(ps, t).id] = ps[u[1]].id
      BY <1>1, <1>2 DEF IndexOver
    <3>2. u = t
      BY <3>1 DEF DistinctSpots
    <3> QED BY <3>1, <3>2 DEF PageAt
  <2> QED BY <1>1, <1>2, <2>1 DEF IndexOver, SpotsIndexed
<1>3. ASSUME SpotsIndexed(ps, idx) PROVE IndexOver(ps, idx)
  <2>1. DOMAIN idx = LiveIds(ps)
    BY <1>1, <1>3 DEF SpotsIndexed
  <2>2. \A id \in LiveIds(ps) : \E t \in Spots(ps) : At(ps, t).id = id /\ idx[id] = ps[t[1]].id
    BY <1>1, <1>3 DEF SpotsIndexed, PageAt
  <2> QED BY <2>1, <2>2 DEF IndexOver
<1> QED BY <1>2, <1>3

(* m is the records of ps.                                                  *)
MapsTo(ps, m) ==
  /\ m = [id \in DOMAIN m |-> m[id]]
  /\ \A id \in DOMAIN m : \E t \in Spots(ps) : At(ps, t).id = id
  /\ \A t \in Spots(ps) : At(ps, t).id \in DOMAIN m /\ m[At(ps, t).id] = At(ps, t).data

LEMMA MapOfMaps ==
  ASSUME NEW ps, DistinctSpots(ps)
  PROVE  MapsTo(ps, MapOf(ps)) /\ DOMAIN MapOf(ps) = LiveIds(ps)
<1> DEFINE spot(id) == CHOOSE t \in Spots(ps) : At(ps, t).id = id
           m == MapOf(ps)
<1>1. /\ \A t \in Spots(ps) : At(ps, t).id \in LiveIds(ps)
      /\ \A id \in LiveIds(ps) : \E t \in Spots(ps) : At(ps, t).id = id
  BY DEF LiveIds
<1>2. \A id \in LiveIds(ps) : spot(id) \in Spots(ps) /\ At(ps, spot(id)).id = id
  BY <1>1
<1>3. m = [id \in LiveIds(ps) |-> At(ps, spot(id)).data]
  BY DEF MapOf
<1>4. DOMAIN m = LiveIds(ps) /\ m = [id \in DOMAIN m |-> m[id]]
  BY <1>3
<1>5. \A id \in LiveIds(ps) : m[id] = At(ps, spot(id)).data
  BY <1>3
<1> HIDE DEF m, spot
<1>6. ASSUME NEW t \in Spots(ps) PROVE m[At(ps, t).id] = At(ps, t).data
  <2>1. spot(At(ps, t).id) = t
    BY <1>1, <1>2 DEF DistinctSpots
  <2> QED BY <1>1, <1>5, <2>1
<1>7. MapsTo(ps, m)
  BY <1>1, <1>4, <1>6 DEF MapsTo
<1> QED BY <1>4, <1>7 DEF m

LEMMA OneMap ==
  ASSUME NEW ps, NEW m, NEW n, MapsTo(ps, m), MapsTo(ps, n)
  PROVE  m = n
<1>1. DOMAIN m = DOMAIN n
  BY DEF MapsTo
<1>2. \A id \in DOMAIN m : m[id] = n[id]
  BY DEF MapsTo
<1>3. m = [id \in DOMAIN m |-> m[id]] /\ n = [id \in DOMAIN n |-> n[id]]
  BY DEF MapsTo
<1> QED BY <1>1, <1>2, <1>3

-----------------------------------------------------------------------------
(* What a change of one spot, or of none, does to the records.             *)

Added(ps, qs, s, r, pid) ==
  /\ Spots(qs) = Spots(ps) \cup {s} /\ s \notin Spots(ps)
  /\ At(qs, s) = r /\ PageAt(qs, s) = pid
  /\ \A t \in Spots(ps) : At(qs, t) = At(ps, t) /\ PageAt(qs, t) = PageAt(ps, t)

Replaced(ps, qs, s, r) ==
  /\ Spots(qs) = Spots(ps) /\ s \in Spots(ps)
  /\ At(qs, s) = r
  /\ \A t \in Spots(ps) : PageAt(qs, t) = PageAt(ps, t) /\ (t # s => At(qs, t) = At(ps, t))

Removed(ps, qs, s, id) ==
  /\ Spots(qs) = Spots(ps) \ {s} /\ s \in Spots(ps) /\ At(ps, s).id = id
  /\ \A t \in Spots(qs) : At(qs, t) = At(ps, t) /\ PageAt(qs, t) = PageAt(ps, t)

(* h leads from each spot of qs to the one of ps that its record was at.    *)
Moved(ps, qs, h) ==
  /\ \A t \in Spots(qs) : /\ h[t] \in Spots(ps) /\ At(qs, t) = At(ps, h[t])
                          /\ PageAt(qs, t) = PageAt(ps, h[t])
  /\ \A t, u \in Spots(qs) : h[t] = h[u] => t = u
  /\ \A u \in Spots(ps) : \E t \in Spots(qs) : h[t] = u

Indexed(ps, idx) == DistinctSpots(ps) /\ KnownIds(ps) /\ SpotsIndexed(ps, idx)

Extends(e, f, k, v) ==
  /\ DOMAIN e = DOMAIN f \cup {k} /\ e[k] = v /\ \A x \in DOMAIN f : x # k => e[x] = f[x]
  /\ e = [x \in DOMAIN e |-> e[x]]

LEMMA ExtendIs ==
  ASSUME NEW f, NEW k, NEW v
  PROVE  Extends(Extend(f, k, v), f, k, v)
<1> DEFINE e == [x \in DOMAIN f \cup {k} |-> IF x = k THEN v ELSE f[x]]
<1>1. DOMAIN e = DOMAIN f \cup {k} /\ e[k] = v /\ \A x \in DOMAIN f : x # k => e[x] = f[x]
  OBVIOUS
<1>2. e = [x \in DOMAIN e |-> e[x]]
  OBVIOUS
<1>3. Extend(f, k, v) = e
  BY DEF Extend
<1> HIDE DEF e
<1> QED BY <1>1, <1>2, <1>3 DEF Extends

LEMMA AddedSpot ==
  ASSUME NEW ps, NEW qs, NEW s, NEW r, NEW pid, NEW idx,
         Added(ps, qs, s, r, pid), Indexed(ps, idx), r.id \in Ids, r.id \notin DOMAIN idx
  PROVE  /\ Indexed(qs, Extend(idx, r.id, pid))
         /\ \A m : MapsTo(ps, m) => r.id \notin DOMAIN m /\ MapsTo(qs, Extend(m, r.id, r.data))
<1>1. \A t \in Spots(ps) : At(ps, t).id # r.id
  BY DEF Indexed, SpotsIndexed
<1>2. DistinctSpots(qs) /\ KnownIds(qs)
  BY <1>1 DEF Indexed, DistinctSpots, KnownIds, Added
<1>4. SpotsIndexed(qs, Extend(idx, r.id, pid))
  <2> DEFINE e == Extend(idx, r.id, pid)
  <2>1. Extends(e, idx, r.id, pid)
    BY ExtendIs
  <2> HIDE DEF e
  <2>2. \A t \in Spots(ps) : /\ At(qs, t).id \in DOMAIN e /\ e[At(qs, t).id] = PageAt(qs, t)
    BY <1>1, <2>1 DEF Indexed, SpotsIndexed, Added, Extends
  <2>3. At(qs, s).id \in DOMAIN e /\ e[At(qs, s).id] = PageAt(qs, s)
    BY <2>1 DEF Added, Extends
  <2>4. \A id \in DOMAIN e : \E t \in Spots(qs) : At(qs, t).id = id
    <3> SUFFICES ASSUME NEW id \in DOMAIN e PROVE \E t \in Spots(qs) : At(qs, t).id = id
      OBVIOUS
    <3>1. CASE id = r.id
      BY <3>1 DEF Added
    <3>2. CASE id \in DOMAIN idx
      BY <3>2 DEF Indexed, SpotsIndexed, Added, Extends
    <3> QED BY <2>1, <3>1, <3>2 DEF Extends
  <2>5. SpotsIndexed(qs, e)
    BY <2>2, <2>3, <2>4 DEF SpotsIndexed, Added
  <2> QED BY <2>5 DEF e
<1>5. ASSUME NEW m, MapsTo(ps, m)
      PROVE  r.id \notin DOMAIN m /\ MapsTo(qs, Extend(m, r.id, r.data))
  <2>1. r.id \notin DOMAIN m
    BY <1>1, <1>5 DEF MapsTo
  <2> DEFINE e == Extend(m, r.id, r.data)
  <2>2. Extends(e, m, r.id, r.data)
    BY ExtendIs
  <2> HIDE DEF e
  <2>3. \A t \in Spots(ps) : /\ At(qs, t).id \in DOMAIN e /\ e[At(qs, t).id] = At(qs, t).data
    BY <1>1, <1>5, <2>2 DEF MapsTo, Added, Extends
  <2>4. At(qs, s).id \in DOMAIN e /\ e[At(qs, s).id] = At(qs, s).data
    BY <2>2 DEF Added, Extends
  <2>5. \A id \in DOMAIN e : \E t \in Spots(qs) : At(qs, t).id = id
    <3> SUFFICES ASSUME NEW id \in DOMAIN e PROVE \E t \in Spots(qs) : At(qs, t).id = id
      OBVIOUS
    <3>1. CASE id = r.id
      BY <3>1 DEF Added
    <3>2. CASE id \in DOMAIN m
      BY <1>5, <3>2 DEF MapsTo, Added, Extends
    <3> QED BY <2>2, <3>1, <3>2 DEF Extends
  <2>6. MapsTo(qs, e)
    BY <2>2, <2>3, <2>4, <2>5 DEF MapsTo, Added, Extends
  <2> QED BY <2>1, <2>6 DEF e
<1> QED BY <1>2, <1>4, <1>5 DEF Indexed

LEMMA ReplacedSpot ==
  ASSUME NEW ps, NEW qs, NEW s, NEW r, NEW idx,
         Replaced(ps, qs, s, r), Indexed(ps, idx), r.id = At(ps, s).id
  PROVE  /\ Indexed(qs, idx)
         /\ \A m : MapsTo(ps, m) => r.id \in DOMAIN m /\ MapsTo(qs, [m EXCEPT ![r.id] = r.data])
<1>1. \A t \in Spots(ps) : At(qs, t).id = At(ps, t).id
  BY DEF Replaced
<1>2. Indexed(qs, idx)
  BY <1>1 DEF Indexed, DistinctSpots, KnownIds, SpotsIndexed, Replaced
<1>3. ASSUME NEW m, MapsTo(ps, m)
      PROVE  r.id \in DOMAIN m /\ MapsTo(qs, [m EXCEPT ![r.id] = r.data])
  <2> DEFINE n == [m EXCEPT ![r.id] = r.data]
  <2>1. r.id \in DOMAIN m
    BY <1>3 DEF MapsTo, Replaced
  <2>2. /\ DOMAIN n = DOMAIN m /\ n[r.id] = r.data
        /\ \A x \in DOMAIN m : x # r.id => n[x] = m[x]
        /\ n = [x \in DOMAIN n |-> n[x]]
    BY <2>1
  <2> HIDE DEF n
  <2>3. \A t \in Spots(ps) : t # s => At(ps, t).id # r.id
    BY DEF Indexed, DistinctSpots, Replaced
  <2>4. MapsTo(qs, n)
    BY <1>1, <1>3, <2>2, <2>3 DEF MapsTo, Replaced
  <2> QED BY <2>1, <2>4 DEF n
<1> QED BY <1>2, <1>3

Without(f, id) == [x \in DOMAIN f \ {id} |-> f[x]]

LEMMA RemovedSpot ==
  ASSUME NEW ps, NEW qs, NEW s, NEW idx, NEW id,
         Removed(ps, qs, s, id), Indexed(ps, idx)
  PROVE  /\ Indexed(qs, Without(idx, id))
         /\ \A m : MapsTo(ps, m) => id \in DOMAIN m /\ MapsTo(qs, Without(m, id))
<1>1. \A t \in Spots(ps) : t # s => At(ps, t).id # id
  BY DEF Indexed, DistinctSpots, Removed
<1>2. Indexed(qs, Without(idx, id))
  <2> DEFINE f == [x \in DOMAIN idx \ {id} |-> idx[x]]
  <2>1. DOMAIN f = DOMAIN idx \ {id} /\ \A x \in DOMAIN f : f[x] = idx[x]
    OBVIOUS
  <2> HIDE DEF f
  <2>2. DistinctSpots(qs) /\ KnownIds(qs)
    BY DEF Indexed, DistinctSpots, KnownIds, Removed
  <2>3. SpotsIndexed(qs, f)
    BY <1>1, <2>1 DEF Indexed, SpotsIndexed, Removed
  <2> QED BY <2>2, <2>3 DEF Indexed, f, Without
<1>3. ASSUME NEW m, MapsTo(ps, m)
      PROVE  id \in DOMAIN m /\ MapsTo(qs, Without(m, id))
  <2> DEFINE f == [x \in DOMAIN m \ {id} |-> m[x]]
  <2>1. /\ DOMAIN f = DOMAIN m \ {id} /\ \A x \in DOMAIN f : f[x] = m[x]
        /\ f = [x \in DOMAIN f |-> f[x]]
    OBVIOUS
  <2> HIDE DEF f
  <2>2. MapsTo(qs, f)
    BY <1>1, <1>3, <2>1 DEF MapsTo, Removed
  <2> QED BY <1>3, <2>2 DEF MapsTo, Removed, f, Without
<1> QED BY <1>2, <1>3

LEMMA MovedSpots ==
  ASSUME NEW ps, NEW qs, NEW h, Moved(ps, qs, h)
  PROVE  /\ DistinctSpots(ps) => DistinctSpots(qs)
         /\ KnownIds(ps) => KnownIds(qs)
         /\ \A idx : SpotsIndexed(ps, idx) => SpotsIndexed(qs, idx)
         /\ \A m : MapsTo(ps, m) => MapsTo(qs, m)
<1>1. DistinctSpots(ps) => DistinctSpots(qs)
  BY DEF DistinctSpots, Moved
<1>2. KnownIds(ps) => KnownIds(qs)
  BY DEF KnownIds, Moved
<1>3. ASSUME NEW idx, SpotsIndexed(ps, idx) PROVE SpotsIndexed(qs, idx)
  BY <1>3 DEF SpotsIndexed, Moved
<1>4. ASSUME NEW m, MapsTo(ps, m) PROVE MapsTo(qs, m)
  BY <1>4 DEF MapsTo, Moved
<1> QED BY <1>1, <1>2, <1>3, <1>4

(* The pages by their ids.                                                  *)
PagesIndexed(ps, pidx) == DistinctPages(ps) /\ PageIndexOver(ps, pidx)

LEMMA PageIndexIs ==
  ASSUME NEW ps, NEW pidx, DistinctPages(ps)
  PROVE  PageIndexOver(ps, pidx) <=>
           /\ \A k \in DOMAIN pidx : pidx[k] \in DOMAIN ps /\ ps[pidx[k]].id = k
           /\ \A i \in DOMAIN ps : ps[i].id \in DOMAIN pidx /\ pidx[ps[i].id] = i
<1> DEFINE R == /\ \A k \in DOMAIN pidx : pidx[k] \in DOMAIN ps /\ ps[pidx[k]].id = k
                /\ \A i \in DOMAIN ps : ps[i].id \in DOMAIN pidx /\ pidx[ps[i].id] = i
<1>1. ASSUME PageIndexOver(ps, pidx) PROVE R
  <2>1. \A k \in DOMAIN pidx : pidx[k] \in DOMAIN ps /\ ps[pidx[k]].id = k
    BY <1>1 DEF PageIndexOver
  <2>2. ASSUME NEW i \in DOMAIN ps PROVE ps[i].id \in DOMAIN pidx
    BY <1>1, PageIdIs DEF PageIndexOver
  <2> QED BY <2>1, <2>2 DEF DistinctPages
<1>2. ASSUME R PROVE PageIndexOver(ps, pidx)
  <2>1. DOMAIN pidx = PageIds(ps)
    <3>1. \A k \in DOMAIN pidx : k \in PageIds(ps)
      BY <1>2, PageIdIs
    <3>2. \A k \in PageIds(ps) : k \in DOMAIN pidx
      BY <1>2, PageIdIs
    <3> QED BY <3>1, <3>2
  <2> QED BY <1>2, <2>1 DEF PageIndexOver
<1> QED BY <1>1, <1>2

LEMMA SamePages ==
  ASSUME NEW ps, NEW qs, DOMAIN qs = DOMAIN ps, \A i \in DOMAIN ps : qs[i].id = ps[i].id
  PROVE  /\ DistinctPages(ps) => DistinctPages(qs)
         /\ \A pidx : PagesIndexed(ps, pidx) => PagesIndexed(qs, pidx)
<1>1. DistinctPages(ps) => DistinctPages(qs)
  BY DEF DistinctPages
<1>2. ASSUME NEW pidx, PagesIndexed(ps, pidx) PROVE PagesIndexed(qs, pidx)
  <2>1. DistinctPages(ps) /\ PageIndexOver(ps, pidx) /\ DistinctPages(qs)
    BY <1>1, <1>2 DEF PagesIndexed
  <2>2. /\ \A k \in DOMAIN pidx : pidx[k] \in DOMAIN ps /\ ps[pidx[k]].id = k
        /\ \A i \in DOMAIN ps : ps[i].id \in DOMAIN pidx /\ pidx[ps[i].id] = i
    BY <2>1, PageIndexIs
  <2>3. /\ \A k \in DOMAIN pidx : pidx[k] \in DOMAIN qs /\ qs[pidx[k]].id = k
        /\ \A i \in DOMAIN qs : qs[i].id \in DOMAIN pidx /\ pidx[qs[i].id] = i
    BY <2>2
  <2>4. PageIndexOver(qs, pidx)
    BY <2>1, <2>3, PageIndexIs
  <2> QED BY <2>1, <2>4 DEF PagesIndexed
<1> QED BY <1>1, <1>2

-----------------------------------------------------------------------------
(* How the calls change the spots.                                         *)

LEMMA AddedByPairs ==
  ASSUME NEW ps, NEW qs, NEW i0, NEW k0, NEW r, NEW pid,
         ~(<<i0, k0>> \in Spots(ps)),
         \A i, k : <<i, k>> \in Spots(qs) <=> <<i, k>> \in Spots(ps) \/ (i = i0 /\ k = k0),
         qs[i0].records[k0] = r, qs[i0].id = pid,
         \A i \in DOMAIN ps : \A k \in Kept(ps[i].records) :
           qs[i].records[k] = ps[i].records[k] /\ qs[i].id = ps[i].id
  PROVE  Added(ps, qs, <<i0, k0>>, r, pid)
<1>1. \A t \in Spots(ps) : t \in Spots(qs)
  <2> SUFFICES ASSUME NEW t \in Spots(ps) PROVE t \in Spots(qs)
    OBVIOUS
  <2>1. t = <<t[1], t[2]>>
    BY SpotPairs
  <2> QED BY <2>1
<1>2. <<i0, k0>> \in Spots(qs)
  OBVIOUS
<1>3. \A t \in Spots(qs) : t \in Spots(ps) \/ t = <<i0, k0>>
  <2> SUFFICES ASSUME NEW t \in Spots(qs) PROVE t \in Spots(ps) \/ t = <<i0, k0>>
    OBVIOUS
  <2>1. t = <<t[1], t[2]>>
    BY SpotPairs
  <2> QED BY <2>1
<1>4. Spots(qs) = Spots(ps) \cup {<<i0, k0>>}
  BY <1>1, <1>2, <1>3
<1>5. At(qs, <<i0, k0>>) = r /\ PageAt(qs, <<i0, k0>>) = pid
  BY SpotPairs
<1>6. ASSUME NEW t \in Spots(ps)
      PROVE  At(qs, t) = At(ps, t) /\ PageAt(qs, t) = PageAt(ps, t)
  <2>1. t[1] \in DOMAIN ps /\ t[2] \in Kept(ps[t[1]].records)
    BY SpotIs
  <2> QED BY <2>1 DEF At, PageAt
<1> QED BY <1>4, <1>5, <1>6 DEF Added

LEMMA GrownPage ==
  ASSUME NEW ps \in Seq(PageType), NEW qs, NEW i \in DOMAIN ps, NEW r \in Record,
         DOMAIN qs = DOMAIN ps, qs[i].records = Append(ps[i].records, r),
         \A j \in DOMAIN ps : qs[j].id = ps[j].id /\ (j # i => qs[j] = ps[j])
  PROVE  \E k : Added(ps, qs, <<i, k>>, r, ps[i].id)
<1> DEFINE rs == ps[i].records
           n == Len(rs)
<1>1. rs \in Seq(Record \cup {Dead}) /\ n \in Nat /\ DOMAIN rs = 1 .. n /\ r # Dead
  BY PageFields, RecordFacts
<1> HIDE DEF rs
<1>2. /\ DOMAIN Append(rs, r) = 1 .. n + 1 /\ Append(rs, r)[n + 1] = r
      /\ \A k \in 1 .. n : Append(rs, r)[k] = rs[k]
  BY <1>1
<1> HIDE DEF n
<1>3. \A k : k \in 1 .. n + 1 <=> k \in 1 .. n \/ k = n + 1
  BY <1>1
<1>4. ~(n + 1 \in 1 .. n)
  BY <1>1
<1>5. \A k : k \in Kept(qs[i].records) <=> k \in Kept(rs) \/ k = n + 1
  BY <1>1, <1>2, <1>3, <1>4 DEF Kept, rs
<1>6. ~(n + 1 \in Kept(rs))
  BY <1>1, <1>4 DEF Kept
<1>7. \A j, k : <<j, k>> \in Spots(qs) <=> <<j, k>> \in Spots(ps) \/ (j = i /\ k = n + 1)
  <2> SUFFICES ASSUME NEW j, NEW k
               PROVE  j \in DOMAIN qs /\ k \in Kept(qs[j].records) <=>
                        (j \in DOMAIN ps /\ k \in Kept(ps[j].records)) \/ (j = i /\ k = n + 1)
    BY SpotPairs
  <2> QED BY <1>5 DEF rs
<1>8. ~(<<i, n + 1>> \in Spots(ps))
  BY <1>6, SpotPairs DEF rs
<1>9. \A j \in DOMAIN ps : \A k \in Kept(ps[j].records) :
        qs[j].records[k] = ps[j].records[k] /\ qs[j].id = ps[j].id
  BY <1>1, <1>2 DEF Kept, rs
<1>10. qs[i].records[n + 1] = r /\ qs[i].id = ps[i].id
  BY <1>2 DEF rs
<1>11. Added(ps, qs, <<i, n + 1>>, r, ps[i].id)
  BY <1>7, <1>8, <1>9, <1>10, AddedByPairs
<1> QED BY <1>11

LEMMA NewPage ==
  ASSUME NEW ps \in Seq(PageType), NEW qs, NEW p, NEW r \in Record,
         p.records = <<r>>, DOMAIN qs = 1 .. Len(ps) + 1, qs[Len(ps) + 1] = p,
         \A i \in 1 .. Len(ps) : qs[i] = ps[i]
  PROVE  Added(ps, qs, <<Len(ps) + 1, 1>>, r, p.id)
<1> DEFINE n == Len(ps)
<1>1. n \in Nat /\ DOMAIN ps = 1 .. n /\ r # Dead
  BY RecordFacts
<1>2. /\ DOMAIN qs = 1 .. n + 1 /\ qs[n + 1] = p /\ \A i \in 1 .. n : qs[i] = ps[i]
  OBVIOUS
<1>3. \A k : k \in Kept(p.records) <=> k = 1
  <2>1. DOMAIN <<r>> = {1} /\ <<r>>[1] = r
    OBVIOUS
  <2> QED BY <1>1, <2>1 DEF Kept
<1>4. p.records[1] = r
  OBVIOUS
<1> HIDE DEF n
<1>5. \A i : i \in 1 .. n + 1 <=> i \in 1 .. n \/ i = n + 1
  BY <1>1
<1>6. ~(n + 1 \in 1 .. n)
  BY <1>1
<1>7. \A i, k : <<i, k>> \in Spots(qs) <=> <<i, k>> \in Spots(ps) \/ (i = n + 1 /\ k = 1)
  <2> SUFFICES ASSUME NEW i, NEW k
               PROVE  i \in DOMAIN qs /\ k \in Kept(qs[i].records) <=>
                        (i \in DOMAIN ps /\ k \in Kept(ps[i].records)) \/ (i = n + 1 /\ k = 1)
    BY SpotPairs
  <2> QED BY <1>1, <1>2, <1>3, <1>5, <1>6
<1>8. ~(<<n + 1, 1>> \in Spots(ps))
  BY <1>1, <1>6, SpotPairs
<1>9. \A i \in DOMAIN ps : \A k \in Kept(ps[i].records) :
        qs[i].records[k] = ps[i].records[k] /\ qs[i].id = ps[i].id
  BY <1>1, <1>2
<1>10. qs[n + 1].records[1] = r /\ qs[n + 1].id = p.id
  BY <1>2, <1>4
<1>11. Added(ps, qs, <<n + 1, 1>>, r, p.id)
  BY <1>7, <1>8, <1>9, <1>10, AddedByPairs
<1> QED BY <1>11 DEF n

LEMMA OverwrittenSpot ==
  ASSUME NEW ps \in Seq(PageType), NEW qs, NEW i \in DOMAIN ps, NEW k \in Kept(ps[i].records),
         NEW r, DOMAIN qs = DOMAIN ps, qs[i].records = [ps[i].records EXCEPT ![k] = r],
         \A j \in DOMAIN ps : qs[j].id = ps[j].id /\ (j # i => qs[j] = ps[j])
  PROVE  /\ r # Dead => Replaced(ps, qs, <<i, k>>, r)
         /\ r = Dead => Removed(ps, qs, <<i, k>>, IdAt(ps, i, k))
<1> DEFINE rs == ps[i].records
           es == [rs EXCEPT ![k] = r]
<1>1. k \in DOMAIN rs
  BY DEF Kept
<1>2. DOMAIN es = DOMAIN rs /\ es[k] = r /\ \A l \in DOMAIN rs : l # k => es[l] = rs[l]
  BY <1>1
<1>3. qs[i].records = es
  OBVIOUS
<1> HIDE DEF es, rs
<1>4. \A l : l \in Kept(es) <=> (l \in Kept(rs) /\ l # k) \/ (l = k /\ r # Dead)
  BY <1>1, <1>2 DEF Kept
<1>5. \A j, l : <<j, l>> \in Spots(qs) <=>
        /\ <<j, l>> \in Spots(ps)
        /\ (j = i /\ l = k) => r # Dead
  <2> SUFFICES ASSUME NEW j, NEW l
               PROVE  j \in DOMAIN qs /\ l \in Kept(qs[j].records) <=>
                        /\ j \in DOMAIN ps /\ l \in Kept(ps[j].records)
                        /\ (j = i /\ l = k) => r # Dead
    BY SpotPairs
  <2> QED BY <1>3, <1>4 DEF rs
<1>6. \A t \in Spots(ps) : PageAt(qs, t) = PageAt(ps, t)
  BY SpotIs DEF PageAt
<1>7. ASSUME NEW t \in Spots(ps), t # <<i, k>> PROVE At(qs, t) = At(ps, t)
  <2>1. t[1] \in DOMAIN ps /\ t[2] \in Kept(ps[t[1]].records) /\ t = <<t[1], t[2]>>
    BY SpotIs
  <2>2. qs[t[1]].records[t[2]] = ps[t[1]].records[t[2]]
    BY <1>2, <1>3, <1>7, <2>1 DEF Kept, rs
  <2> QED BY <2>2 DEF At
<1>8. <<i, k>> \in Spots(ps) /\ At(qs, <<i, k>>) = r
  BY <1>2, <1>3, SpotPairs
<1>9. \A t : t \in Spots(qs) <=> t \in Spots(ps) /\ (t = <<i, k>> => r # Dead)
  <2>1. \A t \in Spots(qs) : t \in Spots(ps) /\ (t = <<i, k>> => r # Dead)
    <3> SUFFICES ASSUME NEW t \in Spots(qs)
                 PROVE  t \in Spots(ps) /\ (t = <<i, k>> => r # Dead)
      OBVIOUS
    <3>1. t = <<t[1], t[2]>>
      BY SpotPairs
    <3> QED BY <1>5, <3>1
  <2>2. \A t \in Spots(ps) : (t = <<i, k>> => r # Dead) => t \in Spots(qs)
    <3> SUFFICES ASSUME NEW t \in Spots(ps), t = <<i, k>> => r # Dead
                 PROVE  t \in Spots(qs)
      OBVIOUS
    <3>1. t = <<t[1], t[2]>>
      BY SpotPairs
    <3> QED BY <1>5, <3>1
  <2> QED BY <2>1, <2>2
<1>10. ASSUME r # Dead PROVE Replaced(ps, qs, <<i, k>>, r)
  <2>1. Spots(qs) = Spots(ps)
    BY <1>9, <1>10
  <2> QED BY <1>6, <1>7, <1>8, <2>1 DEF Replaced
<1>11. ASSUME r = Dead PROVE Removed(ps, qs, <<i, k>>, IdAt(ps, i, k))
  <2>1. Spots(qs) = Spots(ps) \ {<<i, k>>}
    BY <1>9, <1>11
  <2>2. At(ps, <<i, k>>).id = IdAt(ps, i, k)
    BY SpotIs
  <2> QED BY <1>6, <1>7, <1>8, <2>1, <2>2 DEF Removed
<1> QED BY <1>10, <1>11

LEMMA SqueezedSpots ==
  ASSUME NEW ps, NEW qs, SqueezedPages(ps, qs)
  PROVE  \E h : Moved(ps, qs, h)
<1> DEFINE f(i) == CHOOSE f : Squeezed(ps[i].records, qs[i].records, f)
           h == [t \in Spots(qs) |-> <<t[1], f(t[1])[t[2]]>>]
<1>1. \A i \in DOMAIN ps : Squeezed(ps[i].records, qs[i].records, f(i))
  BY DEF SqueezedPages
<1>2. \A t \in Spots(qs) : h[t] = <<t[1], f(t[1])[t[2]]>>
  OBVIOUS
<1> HIDE DEF f, h
<1>3. DOMAIN qs = DOMAIN ps
      /\ \A i \in DOMAIN ps : qs[i].id = ps[i].id /\ Kept(qs[i].records) = DOMAIN qs[i].records
  BY DEF SqueezedPages
<1>4. ASSUME NEW i \in DOMAIN ps
      PROVE  /\ \A k \in Kept(qs[i].records) : /\ f(i)[k] \in Kept(ps[i].records)
                                               /\ qs[i].records[k] = ps[i].records[f(i)[k]]
             /\ \A j, k \in Kept(qs[i].records) : f(i)[j] = f(i)[k] => j = k
             /\ \A k \in Kept(ps[i].records) : \E j \in Kept(qs[i].records) : f(i)[j] = k
  <2> DEFINE F == f(i)
             rs == ps[i].records
             es == qs[i].records
  <2>1. Squeezed(rs, es, F) /\ Kept(es) = DOMAIN es
    BY <1>1, <1>3
  <2> HIDE DEF F, rs, es
  <2>2. /\ \A k \in Kept(es) : F[k] \in Kept(rs) /\ es[k] = rs[F[k]]
        /\ \A j, k \in Kept(es) : F[j] = F[k] => j = k
        /\ \A k \in Kept(rs) : \E j \in Kept(es) : F[j] = k
    BY <2>1 DEF Squeezed
  <2> QED BY <2>2 DEF F, rs, es
<1>5. ASSUME NEW t \in Spots(qs)
      PROVE  /\ h[t] \in Spots(ps) /\ At(qs, t) = At(ps, h[t])
             /\ PageAt(qs, t) = PageAt(ps, h[t])
  <2>1. t[1] \in DOMAIN ps /\ t[2] \in Kept(qs[t[1]].records)
    BY <1>3, SpotIs
  <2>2. /\ f(t[1])[t[2]] \in Kept(ps[t[1]].records)
        /\ qs[t[1]].records[t[2]] = ps[t[1]].records[f(t[1])[t[2]]]
    BY <1>4, <2>1
  <2>3. h[t] = <<t[1], f(t[1])[t[2]]>>
    BY <1>2
  <2>4. h[t] \in Spots(ps) /\ At(ps, h[t]) = ps[t[1]].records[f(t[1])[t[2]]]
        /\ PageAt(ps, h[t]) = ps[t[1]].id
    BY <2>1, <2>2, <2>3, SpotPairs
  <2> QED BY <1>3, <2>1, <2>2, <2>4 DEF At, PageAt
<1>6. ASSUME NEW t \in Spots(qs), NEW u \in Spots(qs), h[t] = h[u] PROVE t = u
  <2>1. /\ t = <<t[1], t[2]>> /\ t[1] \in DOMAIN ps /\ t[2] \in Kept(qs[t[1]].records)
        /\ u = <<u[1], u[2]>> /\ u[1] \in DOMAIN ps /\ u[2] \in Kept(qs[u[1]].records)
    BY <1>3, SpotIs
  <2> DEFINE a == t[1]
             b == f(t[1])[t[2]]
             c == u[1]
             d == f(u[1])[u[2]]
  <2>2. h[t] = <<a, b>> /\ h[u] = <<c, d>>
    BY <1>2
  <2> HIDE DEF a, b, c, d
  <2>3. a = c /\ b = d
    <3>1. h[t][1] = a /\ h[t][2] = b
      BY <2>2
    <3>2. h[u][1] = c /\ h[u][2] = d
      BY <2>2
    <3> QED BY <1>6, <3>1, <3>2
  <2> USE DEF a, b, c, d
  <2>4. f(t[1])[t[2]] = f(t[1])[u[2]] /\ u[2] \in Kept(qs[t[1]].records)
    BY <2>1, <2>3
  <2>5. t[2] = u[2]
    BY <1>4, <2>1, <2>4
  <2> QED BY <2>1, <2>3, <2>5
<1>7. ASSUME NEW u \in Spots(ps) PROVE \E t \in Spots(qs) : h[t] = u
  <2>1. u = <<u[1], u[2]>> /\ u[1] \in DOMAIN ps /\ u[2] \in Kept(ps[u[1]].records)
    BY SpotIs
  <2>2. PICK j \in Kept(qs[u[1]].records) : f(u[1])[j] = u[2]
    BY <1>4, <2>1
  <2> DEFINE t == <<u[1], j>>
  <2>3. t \in Spots(qs) /\ t[1] = u[1] /\ t[2] = j
    BY <1>3, <2>1, SpotPairs
  <2> HIDE DEF t
  <2>4. h[t] = <<u[1], f(u[1])[j]>>
    BY <1>2, <2>3
  <2> QED BY <2>1, <2>2, <2>3, <2>4
<1>8. Moved(ps, qs, h)
  BY <1>5, <1>6, <1>7 DEF Moved
<1> QED BY <1>8

-----------------------------------------------------------------------------
(* When the envelope's int holds every id, what comes back is what went.    *)

LEMMA ReadBackFits ==
  ASSUME IdsFitTheEnvelope, NEW id \in Ids
  PROVE  ReadBack(id) = {id}
<1>1. id \in Nat /\ id < IntSpan /\ IntSpan \in Nat \ {0}
  BY TableAssumption DEF IdsFitTheEnvelope
<1>2. id % (2 * IntSpan) = id
  BY <1>1
<1> QED BY <1>1, <1>2 DEF ReadBack

LEMMA KnownLiveIds ==
  ASSUME NEW ps, KnownIds(ps)
  PROVE  LiveIds(ps) \subseteq Ids
BY DEF KnownIds, LiveIds

LEMMA LoadedSpots ==
  ASSUME IdsFitTheEnvelope, saved \in Seq(SavedPage), KnownIds(saved), NEW g \in IdReadings
  PROVE  \E h : Moved(saved, LoadedPages(g), h)
<1> DEFINE qs == LoadedPages(g)
           h == [t \in Spots(qs) |-> t]
<1>1. \A id \in LiveIds(saved) : g[id] = id
  <2> SUFFICES ASSUME NEW id \in LiveIds(saved) PROVE g[id] = id
    OBVIOUS
  <2>1. g[id] \in ReadBack(id)
    BY DEF IdReadings
  <2>2. id \in Ids
    BY KnownLiveIds
  <2> QED BY <2>1, <2>2, ReadBackFits
<1>2. /\ qs \in Seq(PageType) /\ DOMAIN qs = DOMAIN saved
      /\ \A i \in DOMAIN saved :
           /\ qs[i].id = saved[i].id /\ qs[i].records \in Seq(Record)
           /\ Kept(qs[i].records) = DOMAIN saved[i].records
           /\ \A k \in DOMAIN saved[i].records :
                /\ qs[i].records[k].id = g[saved[i].records[k].id]
                /\ qs[i].records[k].data = saved[i].records[k].data
  BY LoadedAre
<1>3. \A t \in Spots(qs) : h[t] = t
  OBVIOUS
<1> HIDE DEF qs, h
<1>4. \A i \in DOMAIN saved : Kept(qs[i].records) = Kept(saved[i].records)
  BY <1>2, SavedFields
<1>5. ASSUME NEW i \in DOMAIN saved, NEW k \in Kept(saved[i].records)
      PROVE  qs[i].records[k] = saved[i].records[k]
  <2>1. k \in DOMAIN saved[i].records /\ saved[i].records[k] \in Record
    BY SavedFields
  <2>2. k \in DOMAIN qs[i].records
    BY <1>2, <2>1 DEF Kept
  <2>3. qs[i].records[k] \in Record
    BY <1>2, <2>2
  <2>4. saved[i].records[k].id \in LiveIds(saved)
    BY LiveIdIs DEF IdAt
  <2>5. qs[i].records[k].id = saved[i].records[k].id
    BY <1>1, <1>2, <2>1, <2>4
  <2>6. qs[i].records[k].data = saved[i].records[k].data
    BY <1>2, <2>1
  <2> QED BY <2>1, <2>3, <2>5, <2>6 DEF Record
<1>6. \A t : t \in Spots(qs) <=> t \in Spots(saved)
  BY <1>2, <1>4 DEF Spots
<1>7. ASSUME NEW t \in Spots(saved)
      PROVE  At(qs, t) = At(saved, t) /\ PageAt(qs, t) = PageAt(saved, t)
  <2>1. t[1] \in DOMAIN saved /\ t[2] \in Kept(saved[t[1]].records)
    BY SpotIs
  <2> QED BY <1>2, <1>5, <2>1 DEF At, PageAt
<1>8. Moved(saved, qs, h)
  BY <1>3, <1>6, <1>7 DEF Moved
<1> QED BY <1>8 DEF qs

-----------------------------------------------------------------------------
(* The indices, and the records the table and its envelope hold.           *)

IndexInv ==
  /\ BaseInv
  /\ DistinctPages(saved) /\ DistinctSpots(saved) /\ KnownIds(saved) /\ MapsTo(saved, savedMap)
  /\ ~mixed => Indexed(pages, index) /\ PagesIndexed(pages, pageIndex)

LEMMA InitIndex == Init => IndexInv
<1> SUFFICES ASSUME Init PROVE IndexInv
  OBVIOUS
<1>1. /\ pages = <<>> /\ saved = <<>> /\ DOMAIN pages = {} /\ DOMAIN index = {}
      /\ DOMAIN pageIndex = {} /\ savedMap = <<>> /\ DOMAIN savedMap = {}
  BY DEF Init
<1>2. \A ps : DOMAIN ps = {} => Spots(ps) = {}
  BY DEF Spots
<1>3. Spots(pages) = {} /\ Spots(saved) = {}
  BY <1>1, <1>2
<1>4. savedMap = [id \in DOMAIN savedMap |-> savedMap[id]]
  BY <1>1
<1>5. DistinctPages(pages) /\ PageIndexOver(pages, pageIndex)
  BY <1>1 DEF DistinctPages, PageIndexOver, PageIds
<1> QED BY <1>1, <1>3, <1>4, <1>5, InitBase
        DEF IndexInv, DistinctPages, DistinctSpots, KnownIds, MapsTo, Indexed, SpotsIndexed,
            PagesIndexed

(* A record that insertRecord() adds.                                       *)
LEMMA InsertInPageSpot ==
  ASSUME IndexInv, ~mixed, NEW id \in Ids, NEW d \in Data, InsertInPage(id, d)
  PROVE  /\ \E s, pid : /\ Added(pages, pages', s, Rec(id, d), pid)
                        /\ index' = Extend(index, id, pid)
         /\ PagesIndexed(pages', pageIndex')
<1>1. TypeOK /\ pages \in Seq(PageType) /\ PagesIndexed(pages, pageIndex)
  BY DEF IndexInv, BaseInv, TypeOK
<1>2. /\ pageIndex' = pageIndex
      /\ \E i \in DOMAIN pages :
           /\ pages' = [pages EXCEPT ![i] = addRecord(pages[i], Rec(id, d))]
           /\ index' = Extend(index, id, pages[i].id)
  BY <1>1, InsertInPageFacts
<1>3. PICK i \in DOMAIN pages :
        /\ pages' = [pages EXCEPT ![i] = addRecord(pages[i], Rec(id, d))]
        /\ index' = Extend(index, id, pages[i].id)
  BY <1>2
<1> DEFINE p == addRecord(pages[i], Rec(id, d))
<1>4. /\ p \in PageType /\ p.id = pages[i].id /\ p.records = Append(pages[i].records, Rec(id, d))
      /\ Rec(id, d) \in Record
  BY <1>1, PageFields, PageWithRecord, RecordFacts
<1> HIDE DEF p
<1>5. /\ DOMAIN pages' = DOMAIN pages /\ pages'[i] = p
      /\ \A j \in DOMAIN pages : pages'[j].id = pages[j].id /\ (j # i => pages'[j] = pages[j])
  BY <1>1, <1>3, <1>4, ChangedPage DEF p
<1>6. pages'[i].records = Append(pages[i].records, Rec(id, d))
  BY <1>4, <1>5
<1>7. \E k : Added(pages, pages', <<i, k>>, Rec(id, d), pages[i].id)
  BY <1>1, <1>4, <1>5, <1>6, GrownPage
<1>8. PagesIndexed(pages', pageIndex')
  BY <1>1, <1>2, <1>5, SamePages
<1> QED BY <1>3, <1>7, <1>8

LEMMA InsertInNewPageSpot ==
  ASSUME IndexInv, ~mixed, NEW id \in Ids, NEW d \in Data, InsertInNewPage(id, d)
  PROVE  /\ \E s, pid : /\ Added(pages, pages', s, Rec(id, d), pid)
                        /\ index' = Extend(index, id, pid)
         /\ PagesIndexed(pages', pageIndex')
<1> DEFINE p == [id |-> nextPageId, records |-> <<Rec(id, d)>>, dirty |-> TRUE]
           n == Len(pages)
<1>1. /\ TypeOK /\ pages \in Seq(PageType) /\ nextPageId \in Nat /\ n \in Nat
      /\ DOMAIN pages = 1 .. n /\ DistinctPages(pages) /\ PageIndexOver(pages, pageIndex)
  BY DEF IndexInv, BaseInv, TypeOK, PagesIndexed
<1>2. p \in PageType /\ p.id = nextPageId /\ p.records = <<Rec(id, d)>> /\ Rec(id, d) \in Record
  BY <1>1, RecordFacts DEF PageType
<1>3. /\ pages' = Append(pages, p)
      /\ index' = Extend(index, id, nextPageId)
      /\ pageIndex' = Extend(pageIndex, nextPageId, n + 1)
  BY DEF InsertInNewPage
<1> HIDE DEF p
<1>4. /\ DOMAIN pages' = 1 .. n + 1 /\ pages'[n + 1] = p
      /\ \A i \in 1 .. n : pages'[i] = pages[i]
  BY <1>1, <1>2, <1>3
<1>5. Added(pages, pages', <<n + 1, 1>>, Rec(id, d), nextPageId)
  BY <1>1, <1>2, <1>4, NewPage
<1>6. \A i \in 1 .. n : pages[i].id # nextPageId
  <2>1. \A i \in 1 .. n : pages[i].id \in Nat /\ pages[i].id < nextPageId
    BY <1>1, PageFields DEF IndexInv, BaseInv, PageIdsBelowCounter
  <2> QED BY <1>1, <2>1
<1> HIDE DEF n
<1>7. /\ \A i : i \in 1 .. n + 1 <=> i \in 1 .. n \/ i = n + 1
      /\ ~(n + 1 \in 1 .. n)
  BY <1>1
<1>8. DistinctPages(pages')
  BY <1>1, <1>2, <1>4, <1>6, <1>7 DEF DistinctPages
<1>9. /\ \A k \in DOMAIN pageIndex : pageIndex[k] \in 1 .. n /\ pages[pageIndex[k]].id = k
      /\ \A i \in 1 .. n : pages[i].id \in DOMAIN pageIndex /\ pageIndex[pages[i].id] = i
  BY <1>1, PageIndexIs
<1>10. Extends(pageIndex', pageIndex, nextPageId, n + 1)
  BY <1>3, ExtendIs
<1>11. ASSUME NEW k \in DOMAIN pageIndex'
       PROVE  pageIndex'[k] \in DOMAIN pages' /\ pages'[pageIndex'[k]].id = k
  <2>1. CASE k = nextPageId
    BY <1>2, <1>4, <1>7, <1>10, <2>1 DEF Extends
  <2>2. CASE k # nextPageId
    <3>1. k \in DOMAIN pageIndex /\ pageIndex'[k] = pageIndex[k]
      BY <1>10, <2>2 DEF Extends
    <3> QED BY <1>4, <1>7, <1>9, <3>1
  <2> QED BY <2>1, <2>2
<1>12. ASSUME NEW i \in DOMAIN pages'
       PROVE  pages'[i].id \in DOMAIN pageIndex' /\ pageIndex'[pages'[i].id] = i
  <2>1. CASE i = n + 1
    BY <1>2, <1>4, <1>10, <2>1 DEF Extends
  <2>2. CASE i \in 1 .. n
    <3>1. pages'[i].id = pages[i].id /\ pages[i].id # nextPageId /\ pages[i].id \in DOMAIN pageIndex
          /\ pageIndex[pages[i].id] = i
      BY <1>4, <1>6, <1>9, <2>2
    <3> QED BY <1>10, <3>1 DEF Extends
  <2> QED BY <1>4, <1>7, <2>1, <2>2
<1>13. PageIndexOver(pages', pageIndex')
  BY <1>8, <1>11, <1>12, PageIndexIs
<1> QED BY <1>3, <1>5, <1>8, <1>13 DEF PagesIndexed

LEMMA InsertMap ==
  ASSUME IndexInv, ~mixed, NEW id \in Ids, NEW d \in Data,
         InsertInPage(id, d) \/ InsertInNewPage(id, d)
  PROVE  /\ Indexed(pages', index') /\ PagesIndexed(pages', pageIndex')
         /\ id \notin DOMAIN MapOf(pages) /\ MapOf(pages') = Extend(MapOf(pages), id, d)
<1>1. id \notin DOMAIN index
  BY DEF InsertInPage, InsertInNewPage
<1>2. /\ PagesIndexed(pages', pageIndex')
      /\ \E s, pid : Added(pages, pages', s, Rec(id, d), pid) /\ index' = Extend(index, id, pid)
  BY InsertInPageSpot, InsertInNewPageSpot
<1>3. PICK s, pid : Added(pages, pages', s, Rec(id, d), pid) /\ index' = Extend(index, id, pid)
  BY <1>2
<1>4. Rec(id, d).id = id /\ Rec(id, d).data = d
  BY RecordFacts
<1>5. Indexed(pages, index) /\ MapsTo(pages, MapOf(pages))
  BY MapOfMaps DEF IndexInv, Indexed
<1> DEFINE r == Rec(id, d)
<1>6. Added(pages, pages', s, r, pid) /\ r.id = id /\ r.data = d
  BY <1>3, <1>4
<1> HIDE DEF r
<1>7. /\ Indexed(pages', Extend(index, r.id, pid))
      /\ \A m : MapsTo(pages, m) => r.id \notin DOMAIN m /\ MapsTo(pages', Extend(m, r.id, r.data))
  BY <1>1, <1>5, <1>6, AddedSpot
<1>8. Indexed(pages', index')
  BY <1>3, <1>6, <1>7
<1>9. id \notin DOMAIN MapOf(pages) /\ MapsTo(pages', Extend(MapOf(pages), id, d))
  BY <1>5, <1>6, <1>7
<1>10. MapsTo(pages', MapOf(pages'))
  BY <1>8, MapOfMaps DEF Indexed
<1>11. MapOf(pages') = Extend(MapOf(pages), id, d)
  BY <1>9, <1>10, OneMap
<1> QED BY <1>2, <1>8, <1>9, <1>11

(* getRecord() finds exactly the ids that have a live record.               *)
LEMMA FoundLive ==
  ASSUME IndexInv, ~mixed, NEW id
  PROVE  Found(id) # {} <=> id \in LiveIds(pages)
<1>1. /\ TypeOK /\ pages \in Seq(PageType)
      /\ DistinctSpots(pages) /\ SpotsIndexed(pages, index)
      /\ DistinctPages(pages) /\ PageIndexOver(pages, pageIndex)
  BY DEF IndexInv, BaseInv, TypeOK, Indexed, PagesIndexed
<1>2. ASSUME NEW t \in Found(id) PROVE id \in LiveIds(pages)
  BY <1>1, FoundIs, LiveIdIs
<1>3. ASSUME id \in LiveIds(pages) PROVE Found(id) # {}
  <2>1. PICK t \in Spots(pages) : At(pages, t).id = id
    BY <1>3 DEF LiveIds
  <2>2. /\ t[1] \in DOMAIN pages /\ t[2] \in Kept(pages[t[1]].records)
        /\ id \in DOMAIN index /\ index[id] = pages[t[1]].id
    BY <1>1, <2>1, SpotIs DEF SpotsIndexed, PageAt
  <2>3. index[id] \in DOMAIN pageIndex /\ pageIndex[index[id]] = t[1]
    BY <1>1, <2>2, PageIndexIs
  <2>4. t \in Matches(id, pageIndex[index[id]])
    BY <2>1, <2>3 DEF Matches
  <2>5. \A u \in Matches(id, pageIndex[index[id]]) : u = t
    BY <1>1, <2>1 DEF Matches, DistinctSpots
  <2>6. t[2] <= t[2]
    <3>1. t[2] \in DOMAIN pages[t[1]].records
      BY <2>2 DEF Kept
    <3>2. t[2] \in Nat
      BY <1>1, <2>2, <3>1, PageFields
    <3> QED BY <3>2
  <2>7. t \in Found(id)
    BY <2>2, <2>3, <2>4, <2>5, <2>6 DEF Found
  <2> QED BY <2>7
<1> QED BY <1>2, <1>3

LEMMA UpdateMap ==
  ASSUME IndexInv, ~mixed, NEW id \in Ids, NEW d \in Data, updateRecord(id, d)
  PROVE  /\ Indexed(pages', index') /\ PagesIndexed(pages', pageIndex')
         /\ id \in DOMAIN MapOf(pages) /\ MapOf(pages') = [MapOf(pages) EXCEPT ![id] = d]
<1> DEFINE r == Rec(id, d)
<1>1. /\ TypeOK /\ pages \in Seq(PageType) /\ Indexed(pages, index)
      /\ PagesIndexed(pages, pageIndex) /\ MapsTo(pages, MapOf(pages))
  BY MapOfMaps DEF IndexInv, BaseInv, TypeOK, Indexed
<1>2. r \in Record \cup {Dead} /\ r # Dead /\ r.id = id /\ r.data = d
  BY RecordFacts
<1>3. index' = index /\ pageIndex' = pageIndex
  BY <1>1, UpdateFacts
<1>4. PICK t \in Found(id) : pages' = [pages EXCEPT ![t[1]] = overwrite(pages[t[1]], t[2], r)]
  BY <1>1, UpdateFacts
<1> HIDE DEF r
<1>5. PICK i, k :
        /\ i \in DOMAIN pages /\ k \in Kept(pages[i].records)
        /\ IdAt(pages, i, k) = id
        /\ DOMAIN pages' = DOMAIN pages
        /\ pages'[i].records = [pages[i].records EXCEPT ![k] = r]
        /\ \A j \in DOMAIN pages : pages'[j].id = pages[j].id /\ (j # i => pages'[j] = pages[j])
  <2>1. \E i \in DOMAIN pages : \E k \in Kept(pages[i].records) :
          Overwritten(id, r, i, k)
    BY <1>1, <1>2, <1>4, OverwriteFacts
  <2> QED BY <2>1 DEF Overwritten
<1>6. Replaced(pages, pages', <<i, k>>, r)
  BY <1>1, <1>2, <1>5, OverwrittenSpot
<1>7. r.id = At(pages, <<i, k>>).id
  BY <1>2, <1>5, SpotIs
<1>8. /\ Indexed(pages', index)
      /\ \A m : MapsTo(pages, m) =>
           r.id \in DOMAIN m /\ MapsTo(pages', [m EXCEPT ![r.id] = r.data])
  BY <1>1, <1>6, <1>7, ReplacedSpot
<1>9. id \in DOMAIN MapOf(pages) /\ MapsTo(pages', [MapOf(pages) EXCEPT ![id] = d])
  BY <1>1, <1>2, <1>8
<1>10. MapsTo(pages', MapOf(pages'))
  BY <1>8, MapOfMaps DEF Indexed
<1>11. MapOf(pages') = [MapOf(pages) EXCEPT ![id] = d]
  BY <1>9, <1>10, OneMap
<1>12. PagesIndexed(pages', pageIndex)
  BY <1>1, <1>5, SamePages
<1> QED BY <1>3, <1>8, <1>9, <1>11, <1>12

LEMMA DeleteMap ==
  ASSUME IndexInv, ~mixed, NEW id \in Ids, deleteRecord(id)
  PROVE  /\ Indexed(pages', index') /\ PagesIndexed(pages', pageIndex')
         /\ id \in DOMAIN MapOf(pages)
         /\ MapOf(pages') = Without(MapOf(pages), id)
<1>1. /\ TypeOK /\ pages \in Seq(PageType) /\ Indexed(pages, index)
      /\ PagesIndexed(pages, pageIndex) /\ MapsTo(pages, MapOf(pages))
  BY MapOfMaps DEF IndexInv, BaseInv, TypeOK, Indexed
<1>2. Dead \in Record \cup {Dead}
  OBVIOUS
<1>3. index' = Without(index, id) /\ pageIndex' = pageIndex
  BY <1>1, DeleteFacts DEF Without
<1>4. PICK t \in Found(id) : pages' = [pages EXCEPT ![t[1]] = overwrite(pages[t[1]], t[2], Dead)]
  BY <1>1, DeleteFacts
<1>5. PICK i, k :
        /\ i \in DOMAIN pages /\ k \in Kept(pages[i].records)
        /\ IdAt(pages, i, k) = id
        /\ DOMAIN pages' = DOMAIN pages
        /\ pages'[i].records = [pages[i].records EXCEPT ![k] = Dead]
        /\ \A j \in DOMAIN pages : pages'[j].id = pages[j].id /\ (j # i => pages'[j] = pages[j])
  <2>1. \E i \in DOMAIN pages : \E k \in Kept(pages[i].records) :
          Overwritten(id, Dead, i, k)
    BY <1>1, <1>2, <1>4, OverwriteFacts
  <2> QED BY <2>1 DEF Overwritten
<1>6. Removed(pages, pages', <<i, k>>, IdAt(pages, i, k))
  BY <1>1, <1>5, OverwrittenSpot
<1>7. Removed(pages, pages', <<i, k>>, id)
  BY <1>5, <1>6
<1>8. /\ Indexed(pages', Without(index, id))
      /\ \A m : MapsTo(pages, m) => id \in DOMAIN m /\ MapsTo(pages', Without(m, id))
  BY <1>1, <1>7, RemovedSpot
<1>9. id \in DOMAIN MapOf(pages)
      /\ MapsTo(pages', Without(MapOf(pages), id))
  BY <1>1, <1>8
<1>10. MapsTo(pages', MapOf(pages'))
  BY <1>8, MapOfMaps DEF Indexed
<1>11. MapOf(pages') = Without(MapOf(pages), id)
  BY <1>9, <1>10, OneMap
<1>12. PagesIndexed(pages', pageIndex)
  BY <1>1, <1>5, SamePages
<1> QED BY <1>3, <1>8, <1>9, <1>11, <1>12

LEMMA CompactMap ==
  ASSUME IndexInv, ~mixed, compact
  PROVE  /\ Indexed(pages', index') /\ PagesIndexed(pages', pageIndex')
         /\ MapOf(pages') = MapOf(pages)
<1>1. /\ TypeOK /\ Indexed(pages, index) /\ PagesIndexed(pages, pageIndex)
      /\ MapsTo(pages, MapOf(pages))
  BY MapOfMaps DEF IndexInv, BaseInv, Indexed
<1>2. SqueezedPages(pages, pages') /\ index' = index /\ pageIndex' = pageIndex
  BY <1>1, CompactFacts
<1>3. PICK h : Moved(pages, pages', h)
  BY <1>2, SqueezedSpots
<1>4. Indexed(pages', index) /\ MapsTo(pages', MapOf(pages))
  BY <1>1, <1>3, MovedSpots DEF Indexed
<1>5. MapsTo(pages', MapOf(pages'))
  BY <1>4, MapOfMaps DEF Indexed
<1>6. MapOf(pages') = MapOf(pages)
  BY <1>4, <1>5, OneMap
<1>7. DOMAIN pages' = DOMAIN pages /\ \A i \in DOMAIN pages : pages'[i].id = pages[i].id
  BY <1>2 DEF SqueezedPages
<1>8. PagesIndexed(pages', pageIndex)
  BY <1>1, <1>7, SamePages
<1> QED BY <1>2, <1>4, <1>6, <1>8

LEMMA RebuildMap ==
  ASSUME IndexInv, ~mixed, rebuildIndex
  PROVE  Indexed(pages', index') /\ PagesIndexed(pages', pageIndex') /\ pages' = pages
<1>1. /\ pages \in Seq(PageType) /\ DistinctSpots(pages) /\ KnownIds(pages)
      /\ DistinctPages(pages)
  BY DEF IndexInv, BaseInv, TypeOK, Indexed, PagesIndexed
<1>2. Rebuilt(pages) /\ pages' = pages
  BY DEF rebuildIndex
<1>3. IndexOver(pages, index') /\ PageIndexOver(pages, pageIndex')
  BY <1>1, <1>2, RebuiltFacts
<1>4. SpotsIndexed(pages, index')
  BY <1>1, <1>3, IndexIs
<1> QED BY <1>1, <1>2, <1>3, <1>4 DEF Indexed, PagesIndexed

LEMMA ToJsonMap ==
  ASSUME IndexInv, toJson
  PROVE  /\ DistinctPages(saved') /\ DistinctSpots(saved') /\ KnownIds(saved')
         /\ MapsTo(saved', savedMap') /\ savedMap' = MapOf(pages)
<1>1. /\ TypeOK /\ ~mixed
  BY DEF IndexInv, BaseInv, toJson
<1>2. /\ DistinctSpots(pages) /\ KnownIds(pages) /\ DistinctPages(pages)
      /\ MapsTo(pages, MapOf(pages))
  BY <1>1, MapOfMaps DEF IndexInv, Indexed, PagesIndexed
<1>3. SqueezedPages(pages, saved') /\ savedMap' = MapOf(pages)
  BY <1>1, ToJsonFacts
<1>4. PICK h : Moved(pages, saved', h)
  BY <1>3, SqueezedSpots
<1>5. DistinctSpots(saved') /\ KnownIds(saved') /\ MapsTo(saved', MapOf(pages))
  BY <1>2, <1>4, MovedSpots
<1>6. DOMAIN saved' = DOMAIN pages /\ \A i \in DOMAIN pages : saved'[i].id = pages[i].id
  BY <1>3 DEF SqueezedPages
<1>7. DistinctPages(saved')
  BY <1>2, <1>6, SamePages
<1> QED BY <1>3, <1>5, <1>7

LEMMA FromJsonMap ==
  ASSUME IdsFitTheEnvelope, IndexInv, fromJson
  PROVE  /\ Indexed(pages', index') /\ PagesIndexed(pages', pageIndex')
         /\ MapOf(pages') = savedMap
<1>1. /\ TypeOK /\ saved \in Seq(SavedPage)
      /\ DistinctPages(saved) /\ DistinctSpots(saved) /\ KnownIds(saved)
      /\ MapsTo(saved, savedMap)
  BY DEF IndexInv, BaseInv, TypeOK, SavedPage
<1>2. PICK g \in IdReadings : pages' = LoadedPages(g) /\ Rebuilt(LoadedPages(g))
  BY <1>1, FromJsonFacts
<1> DEFINE ps == LoadedPages(g)
<1>3. PICK h : Moved(saved, ps, h)
  BY <1>1, LoadedSpots
<1>4. /\ ps \in Seq(PageType) /\ DOMAIN ps = DOMAIN saved
      /\ \A i \in DOMAIN saved : ps[i].id = saved[i].id
  BY <1>1, LoadedAre
<1>5. pages' = ps /\ Rebuilt(ps)
  BY <1>2
<1> HIDE DEF ps
<1>6. DistinctSpots(ps) /\ KnownIds(ps) /\ MapsTo(ps, savedMap)
  BY <1>1, <1>3, MovedSpots
<1>7. DistinctPages(ps)
  BY <1>1, <1>4, SamePages
<1>8. IndexOver(ps, index') /\ PageIndexOver(ps, pageIndex')
  BY <1>4, <1>5, RebuiltFacts
<1>9. SpotsIndexed(ps, index')
  BY <1>6, <1>8, IndexIs
<1>10. MapOf(ps) = savedMap
  BY <1>6, MapOfMaps, OneMap
<1> QED BY <1>5, <1>6, <1>7, <1>8, <1>9, <1>10 DEF Indexed, PagesIndexed

-----------------------------------------------------------------------------
(* The indices agree with the pages.                                       *)

SavedInv == DistinctPages(saved) /\ DistinctSpots(saved) /\ KnownIds(saved) /\ MapsTo(saved, savedMap)
Consistent == Indexed(pages, index) /\ PagesIndexed(pages, pageIndex)

LEMMA IndexInvIs == IndexInv <=> BaseInv /\ SavedInv /\ (~mixed => Consistent)
BY DEF IndexInv, SavedInv, Consistent

LEMMA FailsIndex ==
  ASSUME IndexInv, NEW s \in Statuses, Fails(s)
  PROVE  SavedInv' /\ (~mixed' => Consistent')
BY DEF IndexInv, SavedInv, Consistent, Fails

LEMMA RecordIndex ==
  ASSUME IndexInv, NEW id \in Ids, NEW d \in Data,
         InsertInPage(id, d) \/ InsertInNewPage(id, d) \/ updateRecord(id, d)
  PROVE  SavedInv' /\ (~mixed' => Consistent')
<1>1. UNCHANGED <<saved, savedMap, mixed>>
  BY DEF InsertInPage, InsertInNewPage, updateRecord
<1>2. SavedInv'
  BY <1>1 DEF IndexInv, SavedInv
<1>3. ASSUME ~mixed PROVE Consistent'
  <2>1. CASE InsertInPage(id, d) \/ InsertInNewPage(id, d)
    BY <1>3, <2>1, InsertMap DEF Consistent
  <2>2. CASE updateRecord(id, d)
    BY <1>3, <2>2, UpdateMap DEF Consistent
  <2> QED BY <2>1, <2>2
<1> QED BY <1>1, <1>2, <1>3

LEMMA DeleteIndex ==
  ASSUME IndexInv, NEW id \in Ids, deleteRecord(id)
  PROVE  SavedInv' /\ (~mixed' => Consistent')
<1>1. UNCHANGED <<saved, savedMap, mixed>>
  BY DEF deleteRecord
<1>2. ASSUME ~mixed PROVE Consistent'
  BY <1>2, DeleteMap DEF Consistent
<1> QED BY <1>1, <1>2 DEF IndexInv, SavedInv

LEMMA MaintainIndex ==
  ASSUME IndexInv, compact \/ rebuildIndex
  PROVE  SavedInv' /\ (~mixed' => Consistent')
<1>1. UNCHANGED <<saved, savedMap, mixed>>
  BY DEF compact, rebuildIndex
<1>2. ASSUME ~mixed PROVE Consistent'
  BY <1>2, CompactMap, RebuildMap DEF Consistent
<1> QED BY <1>1, <1>2 DEF IndexInv, SavedInv

LEMMA JsonIndex ==
  ASSUME IdsFitTheEnvelope, IndexInv, toJson \/ fromJson \/ deserialize \/ deserializeFails
  PROVE  SavedInv' /\ (~mixed' => Consistent')
<1>1. CASE toJson
  <2>1. UNCHANGED <<pages, index, pageIndex, mixed>>
    BY <1>1 DEF toJson
  <2>2. SavedInv'
    BY <1>1, ToJsonMap DEF SavedInv
  <2> QED BY <2>1, <2>2 DEF IndexInv, Consistent
<1>2. CASE fromJson
  <2>1. UNCHANGED <<saved, savedMap>>
    BY <1>2 DEF fromJson
  <2>2. Consistent'
    BY <1>2, FromJsonMap DEF Consistent
  <2> QED BY <2>1, <2>2 DEF IndexInv, SavedInv
<1>3. CASE deserialize \/ deserializeFails
  <2>1. UNCHANGED <<saved, savedMap>> /\ mixed' = TRUE
    BY <1>3 DEF deserialize, deserializeFails
  <2> QED BY <2>1 DEF IndexInv, SavedInv
<1> QED BY <1>1, <1>2, <1>3

LEMMA NextIndex ==
  ASSUME IdsFitTheEnvelope, IndexInv, [Next]_vars
  PROVE  IndexInv'
<1>1. BaseInv'
  BY NextBase DEF IndexInv
<1>2. SavedInv' /\ (~mixed' => Consistent')
  <2>1. CASE UNCHANGED vars
    BY <2>1 DEF vars, IndexInv, SavedInv, Consistent
  <2>2. CASE \E s \in Statuses : Fails(s)
    BY <2>2, FailsIndex
  <2>3. CASE \E id \in Ids, d \in Data :
               InsertInPage(id, d) \/ InsertInNewPage(id, d) \/ updateRecord(id, d)
    BY <2>3, RecordIndex
  <2>4. CASE \E id \in Ids : deleteRecord(id)
    BY <2>4, DeleteIndex
  <2>5. CASE compact \/ rebuildIndex
    BY <2>5, MaintainIndex
  <2>6. CASE toJson \/ fromJson \/ deserialize \/ deserializeFails
    BY <2>6, JsonIndex
  <2> QED BY <2>1, <2>2, <2>3, <2>4, <2>5, <2>6, StepIs
<1>3. (BaseInv /\ SavedInv /\ (~mixed => Consistent))' => IndexInv'
  BY IndexInvIs, PTL
<1> QED BY <1>1, <1>2, <1>3

LEMMA AgreeIs ==
  ASSUME Consistent
  PROVE  Agree
<1>1. DistinctSpots(pages) /\ SpotsIndexed(pages, index)
      /\ DistinctPages(pages) /\ PageIndexOver(pages, pageIndex)
  BY DEF Consistent, Indexed, PagesIndexed
<1>2. IndexOver(pages, index)
  BY <1>1, IndexIs
<1> QED BY <1>1, <1>2 DEF Agree, DistinctSpots, DistinctPages

(* The inductive invariant behind what follows: when ids fit the envelope,  *)
(* table and envelope hold no id twice, the indices are those of the pages, *)
(* and the envelope holds the records the table had when it was built.      *)
THEOREM IndexInvariant ==
  ASSUME IdsFitTheEnvelope
  PROVE  Spec => []IndexInv
<1>1. IndexInv /\ [Next]_vars => IndexInv'
  BY NextIndex
<1> QED BY InitIndex, <1>1, PTL DEF Spec

(* getRecord(), the duplicate check of insertRecord() and a scan of the     *)
(* pages never disagree, through inserts, updates, soft deletions,          *)
(* compaction, rebuilding and loading, for any number of ids and pages.     *)
THEOREM LookupsAndPagesAgree ==
  ASSUME IdsFitTheEnvelope
  PROVE  Spec => []IndicesAgree
<1>1. IndexInv => IndicesAgree
  BY AgreeIs, IndexInvIs DEF IndicesAgree
<1> QED BY <1>1, IndexInvariant, PTL

-----------------------------------------------------------------------------
(* The table is a map from ids to data.                                    *)

LEMMA MapNotGarbled ==
  ASSUME IndexInv, ~mixed
  PROVE  MapOf(pages) # Garbled /\ DOMAIN MapOf(pages) = LiveIds(pages)
<1>1. pages \in Seq(PageType) /\ DistinctSpots(pages) /\ KnownIds(pages)
  BY DEF IndexInv, BaseInv, TypeOK, Indexed
<1>2. MapsTo(pages, MapOf(pages)) /\ DOMAIN MapOf(pages) = LiveIds(pages)
  BY <1>1, MapOfMaps
<1>3. ASSUME NEW t \in Spots(pages) PROVE At(pages, t).data \in Data
  <2>1. t[1] \in DOMAIN pages /\ t[2] \in Kept(pages[t[1]].records)
    BY SpotIs
  <2>2. At(pages, t) \in Record
    BY <1>1, <2>1, PageFields DEF At
  <2> QED BY <2>2, RecordFacts
<1> DEFINE m == MapOf(pages)
<1>4. /\ m = [id \in DOMAIN m |-> m[id]] /\ \A id \in DOMAIN m : m[id] \in Data
  BY <1>2, <1>3 DEF MapsTo
<1>5. DOMAIN m = LiveIds(pages) /\ LiveIds(pages) \in SUBSET Ids
  BY <1>1, <1>2, KnownLiveIds
<1> HIDE DEF m
<1>6. m \in [LiveIds(pages) -> Data]
  BY <1>4, <1>5
<1>7. m # Garbled
  BY <1>5, <1>6, TableAssumption
<1> QED BY <1>2, <1>7 DEF m

(* A call on a table that was loaded into while in use.                     *)
LEMMA GarbledStep ==
  ASSUME mixed, mixed' = mixed, savedMap' = savedMap
  PROVE  Map!Next
<1>1. Records = Garbled /\ Records' = Garbled
  BY DEF Records
<1> QED BY <1>1 DEF Map!Next, Map!Garbling

LEMMA KeptStep ==
  ASSUME IndexInv, ~mixed, Map!Kept
  PROVE  Map!Next
<1>1. Records # Garbled
  BY MapNotGarbled DEF Records
<1> QED BY <1>1 DEF Map!Next

LEMMA FailureChangesNothing ==
  ASSUME IndexInv, ~mixed, UNCHANGED <<pages, savedMap, mixed>>
  PROVE  /\ UNCHANGED <<Records, savedMap>> /\ DOMAIN index = DOMAIN Records
         /\ \A id : Found(id) # {} <=> id \in DOMAIN Records
<1>1. Records = MapOf(pages) /\ UNCHANGED <<Records, savedMap>>
  BY DEF Records
<1>2. DOMAIN Records = LiveIds(pages) /\ Indexed(pages, index)
  BY <1>1, MapNotGarbled DEF IndexInv
<1>3. DOMAIN index = DOMAIN Records
  BY <1>2, IndexIs DEF Indexed, IndexOver
<1>4. \A id : Found(id) # {} <=> id \in DOMAIN Records
  BY <1>2, FoundLive
<1> QED BY <1>1, <1>3, <1>4

LEMMA FailureStep ==
  ASSUME IndexInv, NEW id \in Ids, NEW d \in Data,
         InsertInvalid(d) \/ InsertDuplicate(id, d) \/ UpdateInvalid(d) \/ UpdateMissing(id, d)
  PROVE  Map!Next
<1>1. UNCHANGED <<pages, savedMap, mixed>>
  BY DEF InsertInvalid, InsertDuplicate, UpdateInvalid, UpdateMissing, Fails
<1>2. CASE mixed
  BY <1>1, <1>2, GarbledStep
<1>3. CASE ~mixed
  <2>1. /\ UNCHANGED <<Records, savedMap>> /\ DOMAIN index = DOMAIN Records
        /\ Found(id) # {} <=> id \in DOMAIN Records
    BY <1>1, <1>3, FailureChangesNothing
  <2>2. CASE InsertInvalid(d) \/ InsertDuplicate(id, d)
    <3>1. Map!Insert(id, d)
      BY <2>1, <2>2 DEF InsertInvalid, InsertDuplicate, Fails, Map!Insert, Map!Has
    <3> QED BY <1>3, <3>1, KeptStep DEF Map!Kept
  <2>3. CASE UpdateInvalid(d) \/ UpdateMissing(id, d)
    <3>1. Map!Update(id, d)
      BY <2>1, <2>3 DEF UpdateInvalid, UpdateMissing, Fails, Map!Update, Map!Has
    <3> QED BY <1>3, <3>1, KeptStep DEF Map!Kept
  <2> QED BY <2>2, <2>3
<1> QED BY <1>2, <1>3

LEMMA DeleteFailureStep ==
  ASSUME IndexInv, NEW id \in Ids, DeleteMissing(id)
  PROVE  Map!Next
<1>1. UNCHANGED <<pages, savedMap, mixed>>
  BY DEF DeleteMissing, Fails
<1>2. CASE mixed
  BY <1>1, <1>2, GarbledStep
<1>3. CASE ~mixed
  <2>1. UNCHANGED <<Records, savedMap>> /\ (Found(id) # {} <=> id \in DOMAIN Records)
    BY <1>1, <1>3, FailureChangesNothing
  <2>2. Map!Delete(id)
    BY <2>1 DEF DeleteMissing, Fails, Map!Delete, Map!Has
  <2> QED BY <1>3, <2>2, KeptStep DEF Map!Kept
<1> QED BY <1>2, <1>3

LEMMA InsertStep ==
  ASSUME IndexInv, NEW id \in Ids, NEW d \in Data,
         InsertInPage(id, d) \/ InsertInNewPage(id, d)
  PROVE  Map!Next
<1>1. /\ UNCHANGED <<savedMap, mixed>> /\ status' = "OK" /\ d \in ValidData
  BY DEF InsertInPage, InsertInNewPage
<1>2. CASE mixed
  BY <1>1, <1>2, GarbledStep
<1>3. CASE ~mixed
  <2>1. Records = MapOf(pages) /\ Records' = MapOf(pages')
    BY <1>1, <1>3 DEF Records
  <2>2. id \notin DOMAIN MapOf(pages) /\ MapOf(pages') = Extend(MapOf(pages), id, d)
    BY <1>3, InsertMap
  <2>3. Map!Insert(id, d)
    BY <1>1, <2>1, <2>2 DEF Map!Insert, Map!Has, Extend
  <2> QED BY <1>3, <2>3, KeptStep DEF Map!Kept
<1> QED BY <1>2, <1>3

LEMMA UpdateStep ==
  ASSUME IndexInv, NEW id \in Ids, NEW d \in Data, updateRecord(id, d)
  PROVE  Map!Next
<1>1. /\ UNCHANGED <<savedMap, mixed>> /\ status' = "OK" /\ d \in ValidData
  BY DEF updateRecord
<1>2. CASE mixed
  BY <1>1, <1>2, GarbledStep
<1>3. CASE ~mixed
  <2>1. Records = MapOf(pages) /\ Records' = MapOf(pages')
    BY <1>1, <1>3 DEF Records
  <2>2. id \in DOMAIN MapOf(pages) /\ MapOf(pages') = [MapOf(pages) EXCEPT ![id] = d]
    BY <1>3, UpdateMap
  <2>3. Map!Update(id, d)
    BY <1>1, <2>1, <2>2 DEF Map!Update, Map!Has
  <2> QED BY <1>3, <2>3, KeptStep DEF Map!Kept
<1> QED BY <1>2, <1>3

LEMMA DeleteStep ==
  ASSUME IndexInv, NEW id \in Ids, deleteRecord(id)
  PROVE  Map!Next
<1>1. /\ UNCHANGED <<savedMap, mixed>> /\ status' = "OK"
  BY DEF deleteRecord
<1>2. CASE mixed
  BY <1>1, <1>2, GarbledStep
<1>3. CASE ~mixed
  <2>1. Records = MapOf(pages) /\ Records' = MapOf(pages')
    BY <1>1, <1>3 DEF Records
  <2>2. id \in DOMAIN MapOf(pages) /\ MapOf(pages') = Without(MapOf(pages), id)
    BY <1>3, DeleteMap
  <2>3. Map!Delete(id)
    BY <1>1, <2>1, <2>2 DEF Map!Delete, Map!Has, Without
  <2> QED BY <1>3, <2>3, KeptStep DEF Map!Kept
<1> QED BY <1>2, <1>3

LEMMA MaintainStep ==
  ASSUME IndexInv, compact \/ rebuildIndex
  PROVE  Map!Next
<1>1. /\ UNCHANGED <<savedMap, mixed>> /\ status' = "OK"
  BY DEF compact, rebuildIndex
<1>2. CASE mixed
  BY <1>1, <1>2, GarbledStep
<1>3. CASE ~mixed
  <2>1. Records = MapOf(pages) /\ Records' = MapOf(pages')
    BY <1>1, <1>3 DEF Records
  <2>2. MapOf(pages') = MapOf(pages)
    BY <1>3, CompactMap, RebuildMap
  <2>3. Map!Maintain
    BY <1>1, <2>1, <2>2 DEF Map!Maintain
  <2> QED BY <1>3, <2>3, KeptStep DEF Map!Kept
<1> QED BY <1>2, <1>3

LEMMA JsonStep ==
  ASSUME IdsFitTheEnvelope, IndexInv, toJson \/ fromJson \/ deserialize \/ deserializeFails
  PROVE  Map!Next
<1>1. CASE toJson
  <2>1. ~mixed /\ UNCHANGED <<pages, mixed>> /\ status' = "OK" /\ savedMap' = MapOf(pages)
    BY <1>1 DEF toJson
  <2>2. Map!Save
    BY <2>1 DEF Map!Save, Records
  <2> QED BY <2>1, <2>2, KeptStep DEF Map!Kept
<1>2. CASE fromJson
  <2>1. mixed' = FALSE /\ UNCHANGED savedMap /\ status' = "OK"
    BY <1>2 DEF fromJson
  <2>2. MapOf(pages') = savedMap
    BY <1>2, FromJsonMap
  <2>3. Map!Load
    BY <2>1, <2>2 DEF Map!Load, Records
  <2> QED BY <2>3 DEF Map!Next
<1>3. CASE deserialize \/ deserializeFails
  <2>1. UNCHANGED savedMap /\ mixed' = TRUE
    BY <1>3 DEF deserialize, deserializeFails
  <2>2. Map!Garble
    BY <2>1 DEF Map!Garble, Records
  <2> QED BY <2>2 DEF Map!Next
<1> QED BY <1>1, <1>2, <1>3

LEMMA StepRefines ==
  ASSUME IdsFitTheEnvelope, IndexInv, [Next]_vars
  PROVE  [Map!Next]_(Map!vars)
<1>1. CASE UNCHANGED vars
  BY <1>1 DEF vars, Map!vars, Records
<1>2. ASSUME NEW id \in Ids, NEW d \in Data,
             \/ InsertInvalid(d) \/ InsertDuplicate(id, d)
             \/ InsertInPage(id, d) \/ InsertInNewPage(id, d)
             \/ UpdateInvalid(d) \/ UpdateMissing(id, d) \/ updateRecord(id, d)
      PROVE  Map!Next
  BY <1>2, FailureStep, InsertStep, UpdateStep
<1>3. ASSUME NEW id \in Ids, DeleteMissing(id) PROVE Map!Next
  BY <1>3, DeleteFailureStep
<1>4. ASSUME NEW id \in Ids, deleteRecord(id) PROVE Map!Next
  BY <1>4, DeleteStep
<1>5. CASE compact \/ rebuildIndex
  BY <1>5, MaintainStep
<1>6. CASE toJson \/ fromJson \/ deserialize \/ deserializeFails
  BY <1>6, JsonStep
<1> QED BY <1>1, <1>2, <1>3, <1>4, <1>5, <1>6 DEF Next

LEMMA EmptyMap == Init => Map!Init
<1> SUFFICES ASSUME Init PROVE Map!Init
  OBVIOUS
<1>1. ~mixed /\ pages = <<>> /\ savedMap = <<>> /\ status = "OK" /\ DOMAIN pages = {}
  BY DEF Init
<1>2. LiveIds(pages) = {}
  BY <1>1 DEF LiveIds, Spots
<1>3. Records = [id \in {} |-> At(pages, CHOOSE t \in Spots(pages) : At(pages, t).id = id).data]
  BY <1>1, <1>2 DEF Records, MapOf
<1>4. Records = <<>>
  BY <1>3
<1> QED BY <1>1, <1>4 DEF Map!Init

(* Which page a record is in, soft deletion, compaction, rebuilt indices    *)
(* and the trip through JSON never show through the API: each call does to  *)
(* the ids and data what it would do to a map, and returns what the map     *)
(* alone decides, except in a table that was loaded into while in use.      *)
THEOREM ImplementsRecordMap ==
  ASSUME IdsFitTheEnvelope
  PROVE  Spec => RecordMapSpec
<1>1. Init => Map!Init
  BY EmptyMap
<1>2. IndexInv /\ [Next]_vars => [Map!Next]_(Map!vars)
  BY StepRefines
<1> QED BY IndexInvariant, <1>1, <1>2, PTL DEF Spec, RecordMapSpec, Map!Spec
=============================================================================
