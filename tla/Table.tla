-------------------------------- MODULE Table --------------------------------
(***************************************************************************)
(* MiniDB::Core::Table with its Pages and Records: the pages themselves,   *)
(* the two hash indices over them, the page-id counter, the dirty flags,   *)
(* and the trip through the JSON envelope.                                 *)
(*                                                                         *)
(* A soft-deleted record still takes its slot, and nothing ever reads what *)
(* it held: it is the one value Dead.  A pointer to a page is its position *)
(* in pages.                                                               *)
(***************************************************************************)
EXTENDS Naturals, Sequences, FiniteSets

CONSTANTS Ids,           \* the RecordIDs callers use
          Data,          \* the field data callers pass
          ValidData,     \* what Record::validate accepts under the schema
          Dead,          \* a soft-deleted record
          PageCap,       \* DBConstants::MAX_RECORDS_PAGE
          MaxPages,      \* bound: no insert that would need more pages
          IntSpan,       \* 2^31: ids from here on do not fit the envelope's int
          IdSpan,        \* 2^64: the values of RecordID
          InPlaceLoads,  \* whether deserialize() is also called on a table in use
          Garbled        \* the records of a table that was loaded into while in use

Record == [id : Nat, data : Data]
PageType == [id : Nat, records : Seq(Record \cup {Dead}), dirty : BOOLEAN]

ASSUME TableAssumption ==
  /\ IdSpan \in Nat \ {0} /\ IntSpan \in Nat \ {0} /\ 2 * IntSpan <= IdSpan
  /\ Ids \subseteq 0 .. IdSpan - 1
  /\ ValidData \subseteq Data
  /\ PageCap \in Nat \ {0} /\ MaxPages \in Nat
  /\ InPlaceLoads \in BOOLEAN
  /\ Dead \notin Record /\ \A S \in SUBSET Ids : Garbled \notin [S -> Data]

VARIABLES
  pages,       \* pages, in creation order
  index,       \* index: RecordID -> PageID
  pageIndex,   \* pageIndex: PageID -> the page
  nextPageId,  \* nextPageId_
  dirty,       \* dirty
  saved,       \* the last envelope toJson() built, at first that of an empty table
  status,      \* the Status of the last call
  savedMap,    \* history: the records when the envelope was built
  mixed        \* history: deserialize() was called on this object in use; it is
               \* then neither saved nor loaded into again (a bound)

vars == <<pages, index, pageIndex, nextPageId, dirty, saved, status, savedMap, mixed>>

-----------------------------------------------------------------------------
(* Pages and records.                                                      *)

Rec(id, d) == [id |-> id, data |-> d]
(* Mutant: soft-deleted records no longer count.                            *)
IsFullOfLive(p) == Cardinality({k \in DOMAIN p.records : p.records[k] # Dead}) = PageCap

isFull(p) == Len(p.records) = PageCap

addRecord(p, r) == [p EXCEPT !.records = Append(@, r), !.dirty = TRUE]
overwrite(p, k, r) == [p EXCEPT !.records[k] = r, !.dirty = TRUE]

(* The live records in their order, and where in rs each of them is.        *)
Kept(rs) == {k \in DOMAIN rs : rs[k] # Dead}
Squeezes(rs) == {f \in [1 .. Cardinality(Kept(rs)) -> Kept(rs)] :
                   /\ Kept(rs) = {f[k] : k \in DOMAIN f}
                   /\ \A j, k \in DOMAIN f : j < k => f[j] < f[k]}
LiveRecords(rs) == {[k \in DOMAIN f |-> rs[f[k]]] : f \in Squeezes(rs)}

(* Mutant: the first record kept is lost.                                   *)
CompactedLosesFirst(p) ==
  {[p EXCEPT !.records = SubSeq(rs, 2, Len(rs)), !.dirty = FALSE] : 
     rs \in LiveRecords(p.records)}

Compacted(p) ==
  {[p EXCEPT !.records = rs, !.dirty = FALSE] : rs \in LiveRecords(p.records)}

(* The sequences with the i-th element out of the i-th set.                 *)
Each(sets) == {q \in [DOMAIN sets -> UNION {sets[i] : i \in DOMAIN sets}] :
                 \A i \in DOMAIN sets : q[i] \in sets[i]}

(* A spot is a page and a place in it that hold a live record.              *)
At(ps, t) == ps[t[1]].records[t[2]]
Spots(ps) == UNION {{i} \X Kept(ps[i].records) : i \in DOMAIN ps}
LiveIds(ps) == {At(ps, t).id : t \in Spots(ps)}
PageIds(ps) == {ps[i].id : i \in DOMAIN ps}

(* getRecord(): where index, then pageIndex, then the first match lead.     *)
Matches(id, i) == {t \in Spots(pages) : t[1] = i /\ At(pages, t).id = id}
Found(id) ==
  IF id \in DOMAIN index /\ index[id] \in DOMAIN pageIndex
    THEN LET m == Matches(id, pageIndex[index[id]]) IN
           {t \in m : \A u \in m : t[2] <= u[2]}
    ELSE {}

Extend(f, k, v) == [x \in DOMAIN f \cup {k} |-> IF x = k THEN v ELSE f[x]]

(* rebuildIndex() over ps.  When two live records carry the same id, or two *)
(* pages do, either of the insertions may be the one that counts.           *)
IndexOver(ps, idx) ==
  /\ DOMAIN idx = LiveIds(ps)
  /\ \A id \in LiveIds(ps) :
       \E t \in Spots(ps) : At(ps, t).id = id /\ idx[id] = ps[t[1]].id
PageIndexOver(ps, pidx) ==
  /\ DOMAIN pidx = PageIds(ps)
  /\ \A k \in PageIds(ps) : pidx[k] \in DOMAIN ps /\ ps[pidx[k]].id = k

(* Mutant: pageIndex is not cleared first.                                  *)
RebuiltOverOld(ps) ==
  /\ index' \in {f \in [LiveIds(ps) -> PageIds(ps)] : IndexOver(ps, f)}
  /\ pageIndex' = [k \in PageIds(ps) \cup DOMAIN pageIndex |->
                     IF k \in PageIds(ps) THEN CHOOSE i \in DOMAIN ps : ps[i].id = k
                                          ELSE pageIndex[k]]

Rebuilt(ps) ==
  /\ index' \in {f \in [LiveIds(ps) -> PageIds(ps)] : IndexOver(ps, f)}
  /\ pageIndex' \in {f \in [PageIds(ps) -> DOMAIN ps] : PageIndexOver(ps, f)}

Init == /\ pages = <<>> /\ index = <<>> /\ pageIndex = <<>>
        /\ nextPageId = 0 /\ dirty = FALSE
        /\ saved = <<>> /\ savedMap = <<>> /\ status = "OK" /\ mixed = FALSE

Fails(s) == /\ status' = s
            /\ UNCHANGED <<pages, index, pageIndex, nextPageId, dirty, saved, savedMap, mixed>>

-----------------------------------------------------------------------------
(* insertRecord: validate, look for a duplicate, then findPageWithSlot().   *)

WithRoom == {i \in DOMAIN pages : ~isFull(pages[i])}

InsertInvalid(d) == d \notin ValidData /\ Fails("INVALID")

InsertDuplicate(id, d) ==
  d \in ValidData /\ id \in DOMAIN index /\ Fails("DUPLICATE_KEY")

(* Into the first page with a free slot.                                    *)
InsertInPage(id, d) ==
  /\ d \in ValidData /\ id \notin DOMAIN index
  /\ \E i \in WithRoom :
       /\ \A j \in WithRoom : i <= j
       /\ pages' = [pages EXCEPT ![i] = addRecord(@, Rec(id, d))]
       /\ index' = Extend(index, id, pages[i].id)
  /\ dirty' = TRUE /\ status' = "OK"
  /\ UNCHANGED <<pageIndex, nextPageId, saved, savedMap, mixed>>

InsertInNewPage(id, d) ==
  /\ d \in ValidData /\ id \notin DOMAIN index
  /\ WithRoom = {} /\ Len(pages) < MaxPages
  /\ pages' = Append(pages, [id |-> nextPageId, records |-> <<Rec(id, d)>>, dirty |-> TRUE])
  /\ index' = Extend(index, id, nextPageId)
  /\ pageIndex' = Extend(pageIndex, nextPageId, Len(pages) + 1)
  /\ nextPageId' = nextPageId + 1
  /\ dirty' = TRUE /\ status' = "OK"
  /\ UNCHANGED <<saved, savedMap, mixed>>

-----------------------------------------------------------------------------
(* updateRecord, deleteRecord.                                             *)

UpdateInvalid(d) == d \notin ValidData /\ Fails("INVALID")
UpdateMissing(id, d) == d \in ValidData /\ Found(id) = {} /\ Fails("NOT_FOUND")

updateRecord(id, d) ==
  /\ d \in ValidData
  /\ \E t \in Found(id) :
       pages' = [pages EXCEPT ![t[1]] = overwrite(@, t[2], Rec(id, d))]
  /\ dirty' = TRUE /\ status' = "OK"
  /\ UNCHANGED <<index, pageIndex, nextPageId, saved, savedMap, mixed>>

DeleteMissing(id) == Found(id) = {} /\ Fails("NOT_FOUND")

(* Mutant: the id stays in the index.                                       *)
DeleteKeepsIndex(id) ==
  /\ \E t \in Found(id) : pages' = [pages EXCEPT ![t[1]] = overwrite(@, t[2], Dead)]
  /\ dirty' = TRUE /\ status' = "OK"
  /\ UNCHANGED <<index, pageIndex, nextPageId, saved, savedMap, mixed>>

deleteRecord(id) ==
  /\ \E t \in Found(id) : pages' = [pages EXCEPT ![t[1]] = overwrite(@, t[2], Dead)]
  /\ index' = [k \in DOMAIN index \ {id} |-> index[k]]
  /\ dirty' = TRUE /\ status' = "OK"
  /\ UNCHANGED <<pageIndex, nextPageId, saved, savedMap, mixed>>

-----------------------------------------------------------------------------
compact ==
  /\ pages' \in Each([i \in DOMAIN pages |-> Compacted(pages[i])])
  /\ dirty' = FALSE /\ status' = "OK"
  /\ UNCHANGED <<index, pageIndex, nextPageId, saved, savedMap, mixed>>

rebuildIndex ==
  /\ Rebuilt(pages)
  /\ status' = "OK"
  /\ UNCHANGED <<pages, nextPageId, dirty, saved, savedMap, mixed>>

-----------------------------------------------------------------------------
(* toJson and fromJson.  An id goes out through static_cast<int> and comes  *)
(* back through a double; when the int was negative the conversion back to  *)
(* an unsigned type is undefined, and gives the wrapped value or 0.         *)

ReadBack(id) ==
  LET low == id % (2 * IntSpan) IN
    IF low < IntSpan THEN {low} ELSE {0, IdSpan - (2 * IntSpan - low)}

(* The records as a map, for a table whose live ids are distinct.           *)
MapOf(ps) ==
  [id \in LiveIds(ps) |-> At(ps, CHOOSE t \in Spots(ps) : At(ps, t).id = id).data]

Records == IF mixed THEN Garbled ELSE MapOf(pages)

Stored(p) == {[id |-> p.id, records |-> rs] : rs \in LiveRecords(p.records)}

toJson ==
  /\ ~mixed
  /\ saved' \in Each([i \in DOMAIN pages |-> Stored(pages[i])])
  /\ savedMap' = MapOf(pages)
  /\ status' = "OK"
  /\ UNCHANGED <<pages, index, pageIndex, nextPageId, dirty, mixed>>

(* The pages fromJson() builds from the envelope when ids come back by g.   *)
LoadedPages(g) ==
  [i \in DOMAIN saved |->
     [id |-> saved[i].id,
      records |-> [k \in DOMAIN saved[i].records |->
                     [saved[i].records[k] EXCEPT !.id = g[@]]],
      dirty |-> FALSE]]

IdReadings == {g \in [LiveIds(saved) -> UNION {ReadBack(id) : id \in LiveIds(saved)}] :
                 \A id \in LiveIds(saved) : g[id] \in ReadBack(id)}

(* Mutant: the counter resumes at the highest id, not above it.             *)
ResumeAtTop(ps, loaded) ==
  \E top \in {0} \cup {loaded[i].id : i \in DOMAIN loaded} :
    /\ \A i \in DOMAIN loaded : loaded[i].id <= top
    /\ nextPageId' = top

(* The counter resumes above the highest id just loaded.                    *)
ResumeCounter(ps, loaded) ==
  \E top \in {0} \cup {loaded[i].id : i \in DOMAIN loaded} :
    /\ \A i \in DOMAIN loaded : loaded[i].id <= top
    /\ nextPageId' = IF ps = <<>> THEN 0 ELSE top + 1

(* fromJson() on a new table, as Database::fromJson calls it.               *)
fromJson ==
  \E g \in IdReadings :
    LET loaded == LoadedPages(g) IN
      /\ pages' = loaded
      /\ ResumeCounter(loaded, loaded)
      /\ Rebuilt(loaded)
      /\ dirty' = FALSE /\ status' = "OK" /\ mixed' = FALSE
      /\ UNCHANGED <<saved, savedMap>>

(* deserialize() on a table in use: the loaded pages follow the old ones.   *)
deserialize ==
  /\ InPlaceLoads /\ ~mixed
  /\ Len(pages) + Len(saved) <= MaxPages
  /\ \E g \in IdReadings :
       LET loaded == LoadedPages(g)
           all == pages \o loaded IN
         /\ pages' = all
         /\ ResumeCounter(all, loaded)
         /\ Rebuilt(all)
  /\ status' = "OK" /\ mixed' = TRUE
  /\ UNCHANGED <<dirty, saved, savedMap>>

(* The text does not parse, or a page in it does not: the pages before that *)
(* one stay, and rebuildIndex() is not reached.                             *)
deserializeFails ==
  /\ InPlaceLoads /\ ~mixed
  /\ \E g \in IdReadings, n \in 0 .. Len(saved) :
       /\ n = 0 \/ n < Len(saved)
       /\ Len(pages) + n <= MaxPages
       /\ pages' = pages \o SubSeq(LoadedPages(g), 1, n)
  /\ status' = "PARSE_ERROR" /\ mixed' = TRUE
  /\ UNCHANGED <<index, pageIndex, nextPageId, dirty, saved, savedMap>>

-----------------------------------------------------------------------------
Next == \/ \E id \in Ids, d \in Data :
             \/ InsertInvalid(d) \/ InsertDuplicate(id, d)
             \/ InsertInPage(id, d) \/ InsertInNewPage(id, d)
             \/ UpdateInvalid(d) \/ UpdateMissing(id, d) \/ updateRecord(id, d)
        \/ \E id \in Ids : DeleteMissing(id) \/ deleteRecord(id)
        \/ compact \/ rebuildIndex
        \/ toJson \/ fromJson \/ deserialize \/ deserializeFails

Spec == Init /\ [][Next]_vars

-----------------------------------------------------------------------------
Statuses == {"OK", "INVALID", "DUPLICATE_KEY", "NOT_FOUND", "PARSE_ERROR"}

TypeOK ==
  /\ pages \in Seq(PageType)
  /\ DOMAIN index \subseteq Nat /\ \A id \in DOMAIN index : index[id] \in Nat
  /\ DOMAIN pageIndex \subseteq Nat
  /\ \A k \in DOMAIN pageIndex : pageIndex[k] \in DOMAIN pages
  /\ nextPageId \in Nat /\ dirty \in BOOLEAN
  /\ saved \in Seq([id : Nat, records : Seq(Record)])
  /\ status \in Statuses

(* The hash index and the pages tell the same story: exactly the ids with a *)
(* live record are indexed, each under the page that holds it, every page   *)
(* can be reached by its id, and no id has two live records or two pages.   *)
(* So getRecord(), the duplicate check of insertRecord() and a scan of the  *)
(* pages cannot disagree.                                                   *)
Agree ==
  /\ IndexOver(pages, index)
  /\ PageIndexOver(pages, pageIndex)
  /\ \A i, j \in DOMAIN pages : pages[i].id = pages[j].id => i = j
  /\ \A t, u \in Spots(pages) : At(pages, t).id = At(pages, u).id => t = u
IndicesAgree == ~mixed => Agree

(* Every page id handed out so far is below the counter: the next new page  *)
(* cannot take the id of an existing one, before or after a load.           *)
PageIdsBelowCounter == ~mixed => \A i \in DOMAIN pages : pages[i].id < nextPageId

(* No page ever holds more records, soft-deleted ones included, than fit.   *)
PagesWithinCapacity ==
  \A i \in DOMAIN pages : Len(pages[i].records) <= PageCap

(* The table is a RecordMap: which page a record is in, soft deletion,      *)
(* compaction and the trip through JSON never show through the API, except  *)
(* in a table that was loaded into while in use.                            *)
Map == INSTANCE RecordMap WITH map <- Records, snapshot <- savedMap
RecordMapSpec == Map!Spec

=============================================================================
