----------------------------- MODULE StorageEngine -----------------------------
(***************************************************************************)
(* MiniDB::Engine::StorageEngine's page facility: an LRU cache of pages in *)
(* front of slot files.  A page is a (table, PageID) key with a content    *)
(* (the serialized live records) and a dirty flag.                         *)
(*                                                                         *)
(* CachePro's LRUCache is external: put() inserts or replaces an entry and *)
(* makes it the most recent, dropping the least recent one when the cache  *)
(* is full, with no call back into the engine; get() makes an entry the    *)
(* most recent.  The cache is the sequence of its entries, most recent     *)
(* first.                                                                  *)
(***************************************************************************)
EXTENDS SlotFile, SequencesExt

CONSTANT Capacity       \* DBConstants::LRU_CACHE_CAP

ASSUME EngineAssumption == Capacity \in Nat \ {0}

VARIABLES cache,        \* pageCache: entries [key, content, dirty]
          ret,          \* the last call: its name, key, Status and page
          latest,       \* history: the content the caller last gave each page,
                        \* or what its slot held at the last restart
          plain         \* history: the pages that went through nothing but their
                        \* plain life cycle since the last restart: not
                        \* replaced in the cache, cached clean, compacted,
                        \* written past the cache, or pushed out of it dirty
hist == <<latest, plain>>
cacheVars == <<slots, stable, cache, ret, hist>>

Page(k, c, d) == [key |-> k, content |-> c, dirty |-> d]
NoPage == Page(CHOOSE k \in Slots : TRUE, Empty, FALSE)
Pages == [key : Slots, content : PageContents, dirty : BOOLEAN]

contains(k) == \E i \in DOMAIN cache : cache[i].key = k
Position(k) == CHOOSE i \in DOMAIN cache : cache[i].key = k
Cached(k) == cache[Position(k)]
Without(k) == IF contains(k) THEN RemoveAt(cache, Position(k)) ELSE cache

(* get(k) followed by a change of the entry in place.                       *)
Touched(p) == <<p>> \o Without(p.key)
Put(p) == LET rest == Without(p.key) IN
            <<p>> \o SubSeq(rest, 1, IF Len(rest) < Capacity THEN Len(rest) ELSE Capacity - 1)

(* The dirty page that a put of the page k pushes out of a full cache.      *)
DropsDirty(k) == ~contains(k) /\ Len(cache) = Capacity /\ Last(cache).dirty
Pushed(k) == IF DropsDirty(k) THEN {Last(cache).key} ELSE {}

Returns(c, k, s, p) == ret' = [call |-> c, key |-> k, status |-> s, page |-> p]

CacheInit == /\ SlotInit
             /\ cache = <<>>
             /\ ret = [call |-> "none", key |-> NoPage.key, status |-> "OK", page |-> NoPage]
             /\ latest = [k \in Slots |-> Empty]
             /\ plain = Slots

-----------------------------------------------------------------------------
(* cachePage(table, page): adopt a page of the caller's.                   *)
cachePage(k, c, d) ==
  /\ cache' = Put(Page(k, c, d))
  /\ latest' = [latest EXCEPT ![k] = c]
  /\ plain' = (IF d /\ ~contains(k) THEN plain ELSE plain \ {k}) \ Pushed(k)
  /\ Returns("cachePage", k, "OK", NoPage)
  /\ UNCHANGED slotVars

(* fetchPage(table, id): a hit, a load from the slot file, or nullptr.      *)
FetchHit(k) ==
  /\ contains(k)
  /\ cache' = Touched(Cached(k))
  /\ Returns("fetchPage", k, "OK", Cached(k))
  /\ UNCHANGED <<slots, stable, hist>>

(* Mutant: the Status of readPageFromDisk is ignored.                       *)
FetchLoadUnchecked(k) ==
  /\ ~contains(k)
  /\ cache' = Put(Page(k, slots[k], FALSE))
  /\ plain' = plain \ Pushed(k)
  /\ Returns("fetchPage", k, "OK", Page(k, slots[k], FALSE))
  /\ UNCHANGED <<slots, stable, latest>>

FetchLoad(k) ==
  /\ ~contains(k)
  /\ SlotStatus(k) = "OK"
  /\ cache' = Put(Page(k, slots[k], FALSE))
  /\ plain' = plain \ Pushed(k)
  /\ Returns("fetchPage", k, "OK", Page(k, slots[k], FALSE))
  /\ UNCHANGED <<slots, stable, latest>>

FetchNothing(k) ==
  /\ ~contains(k)
  /\ Returns("fetchPage", k, IF SlotStatus(k) = "OK" THEN "IO_ERROR" ELSE SlotStatus(k), NoPage)
  /\ UNCHANGED <<slots, stable, cache, hist>>

(* The caller changes a page through the pointer getCachedPage() returned:  *)
(* Page::addRecord, updateRecord or deleteRecord.                           *)
ChangeCached(k, c) ==
  /\ contains(k)
  /\ cache' = Touched(Page(k, c, TRUE))
  /\ latest' = [latest EXCEPT ![k] = c]
  /\ Returns("getCachedPage", k, "OK", Page(k, c, TRUE))
  /\ UNCHANGED <<slots, stable, plain>>

(* Page::compact through the same pointer: the flag is cleared, the live    *)
(* records stay.                                                            *)
CompactCached(k) ==
  /\ contains(k)
  /\ cache' = Touched([Cached(k) EXCEPT !.dirty = FALSE])
  /\ plain' = plain \ {k}
  /\ Returns("getCachedPage", k, "OK", [Cached(k) EXCEPT !.dirty = FALSE])
  /\ UNCHANGED <<slots, stable, latest>>

-----------------------------------------------------------------------------
(* writePage(table, page) on a page the caller owns.                       *)
WriteDirectly(k, c) ==
  /\ WriteSlot(k, c)
  /\ latest' = [latest EXCEPT ![k] = c]
  /\ plain' = plain \ {k}
  /\ Returns("writePage", k, "OK", NoPage)
  /\ UNCHANGED cache

(* flushPage(table, id) and evictPage(table, id), which starts with it and  *)
(* then erases the entry.  The name of the call is a parameter.             *)
Erased(c, k, p) == IF c = "evictPage" THEN Without(k) ELSE Touched(p)

FlushAbsent(c, k) ==
  /\ ~contains(k)
  /\ Returns(c, k, IF c = "evictPage" THEN "OK" ELSE "NOT_FOUND", NoPage)
  /\ UNCHANGED <<slots, stable, cache, hist>>

FlushClean(c, k) ==
  /\ contains(k) /\ ~Cached(k).dirty
  /\ cache' = Erased(c, k, Cached(k))
  /\ Returns(c, k, "OK", Cached(k))
  /\ UNCHANGED <<slots, stable, hist>>

(* Mutant: the flag is cleared, or the entry erased, and nothing written.    *)
FlushSkipsWrite(c, k) ==
  /\ contains(k) /\ Cached(k).dirty
  /\ cache' = Erased(c, k, [Cached(k) EXCEPT !.dirty = FALSE])
  /\ Returns(c, k, "OK", Cached(k))
  /\ UNCHANGED <<slots, stable, hist>>

FlushDirty(c, k) ==
  /\ contains(k) /\ Cached(k).dirty
  /\ WriteSlot(k, Cached(k).content)
  /\ cache' = Erased(c, k, [Cached(k) EXCEPT !.dirty = FALSE])
  /\ Returns(c, k, "OK", Cached(k))
  /\ UNCHANGED hist

(* Mutant: the entry is erased, or marked clean, though the write failed.   *)
FlushErrorForgets(c, k) ==
  /\ contains(k) /\ Cached(k).dirty
  /\ WriteSlotError(k, Cached(k).content)
  /\ cache' = Erased(c, k, [Cached(k) EXCEPT !.dirty = FALSE])
  /\ Returns(c, k, "IO_ERROR", Cached(k))
  /\ UNCHANGED hist

FlushError(c, k) ==
  /\ contains(k) /\ Cached(k).dirty
  /\ WriteSlotError(k, Cached(k).content)
  /\ cache' = Touched(Cached(k))
  /\ Returns(c, k, "IO_ERROR", Cached(k))
  /\ UNCHANGED hist

FlushTooBig(c, k) ==
  /\ contains(k) /\ Cached(k).dirty
  /\ ~Fits(Cached(k).content)
  /\ cache' = Touched(Cached(k))
  /\ Returns(c, k, "OUT_OF_MEMORY", Cached(k))
  /\ UNCHANGED <<slots, stable, hist>>

Flush(c, k) == \/ FlushAbsent(c, k) \/ FlushClean(c, k) \/ FlushDirty(c, k)
               \/ FlushError(c, k) \/ FlushTooBig(c, k)

-----------------------------------------------------------------------------
(* The process restarts, with the page cache of the kernel or without it.   *)
(* The caller can count on what the slots hold, and on nothing else.        *)
Restart(power) ==
  /\ IF power THEN PowerCut ELSE UNCHANGED slotVars
  /\ cache' = <<>>
  /\ latest' = slots' /\ plain' = Slots
  /\ Returns("restart", NoPage.key, "OK", NoPage)

DiskWriteback(k) == Writeback(k) /\ UNCHANGED <<cache, ret, hist>>

CacheNext == \/ \E k \in Slots :
                  \/ \E c \in PageContents, d \in BOOLEAN : cachePage(k, c, d)
                  \/ FetchHit(k) \/ FetchLoad(k) \/ FetchNothing(k)
                  \/ \E c \in PageContents : ChangeCached(k, c) \/ WriteDirectly(k, c)
                  \/ CompactCached(k)
                  \/ \E call \in {"flushPage", "evictPage"} : Flush(call, k)
                  \/ DiskWriteback(k)
             \/ \E power \in BOOLEAN : Restart(power)

CacheSpec == CacheInit /\ [][CacheNext]_cacheVars
-----------------------------------------------------------------------------
CacheTypeOK ==
  /\ SlotTypeOK
  /\ cache \in Seq(Pages) /\ Len(cache) <= Capacity
  /\ IsInjective([i \in DOMAIN cache |-> cache[i].key])
  /\ latest \in [Slots -> SlotValues \cup PageContents] /\ plain \subseteq Slots
  /\ ret.page \in Pages \cup {NoPage}

(* No update is lost: what the caller last gave a page is in its cached     *)
(* copy, and if that copy counts as clean, or there is none, in its slot.   *)
(* Holds for every page the caller leads through its plain life cycle, whatever  *)
(* it does to the others, through failed and torn writes, oversized pages,  *)
(* evictions and restarts.                                                  *)
LatestHeld ==
  \A k \in plain :
    /\ contains(k) => Cached(k).content = latest[k]
    /\ ~contains(k) \/ ~Cached(k).dirty => slots[k] = latest[k]

(* fetchPage() never serves an older version of a page, whichever way the   *)
(* page left the cache and came back.                                       *)
FetchSeesLatest ==
  ret.call = "fetchPage" /\ ret.status = "OK" /\ ret.key \in plain =>
    ret.page.content = latest[ret.key]

(* The page j went as the least recently used entry of a full cache onto    *)
(* which cachePage() or fetchPage() put another page.                       *)
Falls(j) == ret'.call \in {"cachePage", "fetchPage"} /\ j \in Pushed(ret'.key)

(* Nothing but an overflow loses a dirty page: in every other way out of    *)
(* the cache (flush, evict, a failed write, a replacement) it stays cached  *)
(* or its slot holds what it held; the process may also end.                *)
OnlyOverflowDropsDirty ==
  [][\A k \in Slots :
       contains(k) /\ Cached(k).dirty /\ ~contains(k)' /\ ret'.call # "restart"
         => slots'[k] = Cached(k).content \/ Falls(k)]_cacheVars

-----------------------------------------------------------------------------
(* README.md: "a dirty page is always flushed before eviction, never        *)
(* silently discarded".  A dirty page leaves the cache only when its slot   *)
(* holds what it held, or with the whole process.                           *)
DirtyNeverDropped ==
  [][\A k \in Slots :
       contains(k) /\ Cached(k).dirty /\ ~contains(k)' /\ ret'.call # "restart"
         => slots'[k] = Cached(k).content]_cacheVars
=============================================================================
