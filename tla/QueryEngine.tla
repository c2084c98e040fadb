---------------------------- MODULE QueryEngine -----------------------------
(***************************************************************************)
(* MiniDB::Engine::QueryEngine over a table whose records were built field *)
(* by field and accepted by validate().  A scan looks at one record an     *)
(* action.  A result names records by their positions <<page, slot>>: the  *)
(* table does not change during a query.                                   *)
(***************************************************************************)
EXTENDS Record, FiniteSets, FiniteSetsExt

CONSTANTS Schemas,     \* schemas of the table
          Queries,     \* the queries asked
          PageSlots,   \* MAX_RECORDS_PAGE
          MaxRecords,  \* bound: records in the table
          NoSort, NoQuery

ASSUME QueryAssumption ==
  /\ PageSlots \in Nat \ {0}
  /\ MaxRecords \in Nat
  /\ \A s \in Schemas : DOMAIN s \subseteq Nat
  /\ \A q \in Queries : /\ q.kind \in {"select", "count", "sum", "avg", "max", "min"}
                        /\ q.kind = "select" => q.limit \in Nat
  /\ NoQuery \notin Queries \cup {[kind |-> "byID", id |-> pos] :
                                    pos \in (1 .. MaxRecords) \X (1 .. PageSlots)}

VARIABLES
  schema,  \* the table's schema
  pages,   \* its pages, each a sequence of records
  draft,   \* the record the caller is building
  query,   \* the query under way or answered, or NoQuery
  page, slot,  \* where its scan is
  result,  \* what it has collected
  phase       \* "idle", "scan", "finish" or "done", or "undefined"

tableVars == <<schema, pages, draft>>
queryVars == <<schema, pages, draft, query, page, slot, result, phase>>

-----------------------------------------------------------------------------
(* compareValues() and the predicates.                                     *)

Holds(x, y, op) == CASE op = "EQ" -> x = y  [] op = "NEQ" -> x # y
                     [] op = "GT" -> x > y  [] op = "GTE" -> x >= y
                     [] op = "LT" -> x < y  [] op = "LTE" -> x <= y

(* A NaN differs from every number, itself included.                        *)
compareValues(a, b, op) ==
  \/ /\ a.type = b.type
     /\ \/ a.type \in {"string", "number"}
        \/ a.type = "bool" /\ op \in {"EQ", "NEQ"}
     /\ Holds(a.v, b.v, op)
  \/ isNumber(a) /\ isNumber(b) /\ "nan" \in {a.type, b.type} /\ op = "NEQ"

evaluatePredicate(data, p) ==
  /\ hasField(data, p.field)
  /\ compareValues(getFieldRef(data, p.field), p.value, p.op)

evaluateAll(data, predicates) ==
  \A k \in DOMAIN predicates : evaluatePredicate(data, predicates[k])

Matches(r) == ~r.deleted /\ evaluateAll(r.data, query.predicates)
Numeric(r) == /\ Matches(r) /\ hasField(r.data, query.field)
              /\ isNumber(getFieldRef(r.data, query.field))
Wanted(r) == IF query.kind \in {"select", "count"} THEN Matches(r) ELSE Numeric(r)

At(pos) == pages[pos[1]][pos[2]]
RecordPositions == {pos \in (1 .. Len(pages)) \X (1 .. PageSlots) : pos[2] <= Len(pages[pos[1]])}
Number(pos) == getFieldRef(At(pos).data, query.field).v
IsNaN(pos) == getFieldRef(At(pos).data, query.field).type = "nan"

-----------------------------------------------------------------------------
(* The comparator of sortResults().                                        *)

SortKey(pos) == getFieldRef(At(pos).data, query.sort.field)
SortsBefore(a, b) ==
  IF query.sort.order = "ASC" THEN compareValues(SortKey(a), SortKey(b), "LT")
                              ELSE compareValues(SortKey(b), SortKey(a), "LT")

(* It is a strict weak order when neither-before is transitive.             *)
Tied(a, b) == ~SortsBefore(a, b) /\ ~SortsBefore(b, a)
IsWeakOrder(P) == \A a, b, c \in P : Tied(a, b) /\ Tied(b, c) => Tied(a, c)

Ordered(s) == \A j, k \in DOMAIN s : j < k => ~SortsBefore(s[k], s[j])
Elements(s) == {s[k] : k \in DOMAIN s}

(* The permutations of s that its comparator has in order.                  *)
Sorts(s) == {t \in [DOMAIN s -> Elements(s)] : Elements(t) = Elements(s) /\ Ordered(t)}

-----------------------------------------------------------------------------
NoAnswer == [records |-> <<>>, totalMatched |-> 0, value |-> 0, nan |-> FALSE,
             found |-> FALSE, status |-> "OK"]

QueryInit == /\ schema \in Schemas /\ pages = <<>> /\ draft = NoData
             /\ query = NoQuery /\ page = 1 /\ slot = 1 /\ result = NoAnswer /\ phase = "idle"

(* The caller builds a record and inserts it.                               *)
BetweenQueries == phase = "idle" /\ UNCHANGED <<schema, query, page, slot, result, phase>>
SetField(key, value) == BetweenQueries /\ draft' = setField(draft, key, value) /\ UNCHANGED pages
RemoveField(key) == /\ BetweenQueries /\ hasField(draft, key)
                    /\ draft' = removeField(draft, key) /\ UNCHANGED pages

LastFull == pages = <<>> \/ Len(pages[Len(pages)]) = PageSlots
AddRecord(r) == IF LastFull THEN Append(pages, <<r>>)
                            ELSE [pages EXCEPT ![Len(pages)] = Append(@, r)]

(* Mutant: the last page is never full.                                     *)
InsertUnchecked ==
  /\ BetweenQueries /\ Cardinality(RecordPositions) < MaxRecords /\ validate(draft, schema) = "OK"
  /\ LET r == [data |-> draft, deleted |-> FALSE] IN
       pages' = IF pages = <<>> THEN << <<r>> >>
                ELSE [pages EXCEPT ![Len(pages)] = Append(@, r)]
  /\ draft' = NoData

insertRecord ==
  /\ BetweenQueries /\ Cardinality(RecordPositions) < MaxRecords
  /\ IF validate(draft, schema) = "OK"
       THEN pages' = AddRecord([data |-> draft, deleted |-> FALSE])
       ELSE UNCHANGED pages
  /\ draft' = NoData

(* Nothing may read what a deleted record held: it is left out.             *)
deleteRecord(pos) ==
  /\ BetweenQueries /\ draft = NoData /\ ~At(pos).deleted
  /\ pages' = [pages EXCEPT ![pos[1]][pos[2]] = [data |-> NoData, deleted |-> TRUE]]
  /\ UNCHANGED draft

Ask(q) == /\ phase = "idle" /\ draft = NoData
          /\ query' = q /\ page' = 1 /\ slot' = 1 /\ result' = NoAnswer /\ phase' = "scan"
          /\ UNCHANGED tableVars

(* Table::getRecord() finds the live record of an id (RecordMap); here the  *)
(* position names it.                                                      *)
selectByID(pos) ==
  /\ phase = "idle" /\ draft = NoData
  /\ query' = [kind |-> "byID", id |-> pos] /\ phase' = "done"
  /\ result' = IF pos \in RecordPositions /\ ~At(pos).deleted
                 THEN [NoAnswer EXCEPT !.records = <<pos>>, !.totalMatched = 1]
                 ELSE [NoAnswer EXCEPT !.status = "NOT_FOUND"]
  /\ UNCHANGED <<schema, pages, draft, page, slot>>

-----------------------------------------------------------------------------
(* The scan.                                                               *)

AtRecord == phase = "scan" /\ page <= Len(pages) /\ slot <= Len(pages[page])
Current == pages[page][slot]
Advance == slot' = slot + 1 /\ UNCHANGED page
Scanning == UNCHANGED <<schema, pages, draft, query>>

(* Mutant: `continue` without the increment.                                *)
SkipStays == AtRecord /\ ~Wanted(Current) /\ UNCHANGED queryVars

Skip == AtRecord /\ ~Wanted(Current) /\ Advance /\ Scanning /\ UNCHANGED <<result, phase>>

(* Mutant: the limit is tested with >.                                      *)
SelectBeyond ==
  /\ AtRecord /\ query.kind = "select" /\ Wanted(Current)
  /\ result' = [result EXCEPT !.records = Append(@, <<page, slot>>), !.totalMatched = @ + 1]
  /\ phase' = IF query.limit > 0 /\ Len(result'.records) > query.limit THEN "finish" ELSE phase
  /\ Advance /\ Scanning

Select ==
  /\ AtRecord /\ query.kind = "select" /\ Wanted(Current)
  /\ result' = [result EXCEPT !.records = Append(@, <<page, slot>>), !.totalMatched = @ + 1]
  /\ phase' = IF query.limit > 0 /\ Len(result'.records) >= query.limit THEN "finish" ELSE phase
  /\ Advance /\ Scanning

Count == /\ AtRecord /\ query.kind = "count" /\ Wanted(Current)
         /\ result' = [result EXCEPT !.totalMatched = @ + 1]
         /\ Advance /\ Scanning /\ UNCHANGED phase

(* sum() and avg(); sum() keeps no count, which nothing reads.  A total to  *)
(* which a NaN was added is one for good.                                   *)
Sum == /\ AtRecord /\ query.kind \in {"sum", "avg"} /\ Wanted(Current)
       /\ result' = [result EXCEPT !.value = @ + Number(<<page, slot>>), !.totalMatched = @ + 1,
                                   !.nan = @ \/ IsNaN(<<page, slot>>)]
       /\ Advance /\ Scanning /\ UNCHANGED phase

(* max() and min().  No comparison with a NaN holds.                        *)
Better(x, y) == IF query.kind = "max" THEN x > y ELSE x < y
Beats(pos) == ~IsNaN(pos) /\ ~result.nan /\ Better(Number(pos), result.value)
Compare ==
  /\ AtRecord /\ query.kind \in {"max", "min"} /\ Wanted(Current)
  /\ LET pos == <<page, slot>> IN
       result' = IF ~result.found \/ Beats(pos)
                   THEN [result EXCEPT !.value = Number(pos), !.nan = IsNaN(pos), !.found = TRUE]
                   ELSE result
  /\ Advance /\ Scanning /\ UNCHANGED phase

NextPage == /\ phase = "scan" /\ page <= Len(pages) /\ slot > Len(pages[page])
            /\ page' = page + 1 /\ slot' = 1 /\ Scanning /\ UNCHANGED <<result, phase>>

ScanEnds == /\ phase = "scan" /\ page > Len(pages)
            /\ phase' = IF query.kind = "select" THEN "finish" ELSE "done"
            /\ Scanning /\ UNCHANGED <<page, slot, result>>

(* std::sort puts the records in order if the comparator is a strict weak   *)
(* order.  If not, its behaviour is undefined: the model ends there.        *)
sortResults ==
  LET s == result.records IN
    \/ /\ IsWeakOrder(Elements(s)) /\ phase' = "done"
       /\ \E t \in Sorts(s) : result' = [result EXCEPT !.records = t]
    \/ ~IsWeakOrder(Elements(s)) /\ phase' = "undefined" /\ UNCHANGED result

finishSelect ==
  /\ phase = "finish"
  /\ IF query.sort # NoSort /\ Len(result.records) > 1
       THEN sortResults ELSE phase' = "done" /\ UNCHANGED result
  /\ Scanning /\ UNCHANGED <<page, slot>>

TakeAnswer == /\ phase = "done" /\ phase' = "idle" /\ query' = NoQuery /\ result' = NoAnswer
              /\ page' = 1 /\ slot' = 1 /\ UNCHANGED tableVars

-----------------------------------------------------------------------------
Scan == \/ Skip \/ Select \/ Count \/ Sum \/ Compare
        \/ NextPage \/ ScanEnds \/ finishSelect

QueryNext == \/ \E key \in Fields : RemoveField(key)
             \/ \E key \in Fields : \E value \in Values[key] : SetField(key, value)
             \/ insertRecord
             \/ \E pos \in RecordPositions : deleteRecord(pos)
             \/ \E q \in Queries : Ask(q)
             \/ \E pos \in (1 .. MaxRecords) \X (1 .. PageSlots) : selectByID(pos)
             \/ Scan \/ TakeAnswer

QuerySpec == QueryInit /\ [][QueryNext]_queryVars
QueryFairSpec == QuerySpec /\ WF_queryVars(Scan)

-----------------------------------------------------------------------------
QueryTypeOK ==
  /\ schema \in Schemas /\ draft \in Data
  /\ pages \in Seq(Seq([data : Data, deleted : BOOLEAN]))
  /\ \A k \in DOMAIN pages : Len(pages[k]) \in 1 .. PageSlots
  /\ phase \in {"idle", "scan", "finish", "done", "undefined"}
  /\ (query = NoQuery) <=> (phase = "idle")
  /\ page \in 1 .. Len(pages) + 1 /\ slot \in 1 .. PageSlots + 1
  /\ Elements(result.records) \subseteq RecordPositions /\ result.totalMatched \in Nat

Precedes(a, b) == a[1] < b[1] \/ (a[1] = b[1] /\ a[2] < b[2])
Satisfies(r) == ~r.deleted /\ \A p \in Elements(query.predicates) : evaluatePredicate(r.data, p)
AllWanted == {pos \in RecordPositions :
                /\ Satisfies(At(pos))
                /\ query.kind \notin {"select", "count"} =>
                     isNumber(getFieldRef(At(pos).data, query.field))}

(* select(): the first `limit` matches in the order of the scan, each once, *)
(* in that order or, sorted, in the order of the comparator.  totalMatched  *)
(* is the number returned; what a limit cut off is not counted.             *)
RightSelection ==
  LET s == result.records
      S == Elements(s) IN
    /\ S \subseteq AllWanted /\ Cardinality(S) = Len(s) /\ result.totalMatched = Len(s)
    /\ \A a \in S, b \in AllWanted \ S : Precedes(a, b)
    /\ IF query.limit = 0 THEN S = AllWanted
       ELSE Len(s) <= query.limit /\ (S = AllWanted \/ Len(s) = query.limit)
    /\ IF query.sort = NoSort
         THEN \A j, k \in DOMAIN s : j < k => Precedes(s[j], s[k])
         ELSE Ordered(s)

(* sum(), avg(): the sum of the numbers, no number if one of them is none.  *)
RightSum == /\ result.nan <=> \E pos \in AllWanted : IsNaN(pos)
            /\ ~result.nan => result.value = MapThenSumSet(Number, AllWanted)

(* max(), min(): 0 without any number; no number if the first one in the    *)
(* order of the scan is none; else an extreme of those that are.            *)
Foremost(pos) == pos \in AllWanted /\ \A a \in AllWanted \ {pos} : Precedes(pos, a)
RightExtreme ==
  LET N == {Number(pos) : pos \in {a \in AllWanted : ~IsNaN(a)}} IN
    IF AllWanted = {} THEN ~result.nan /\ result.value = 0
    ELSE /\ result.nan <=> \E pos \in AllWanted : Foremost(pos) /\ IsNaN(pos)
         /\ ~result.nan => result.value \in N /\ \A n \in N : ~Better(n, result.value)

(* A query that answers says what its definition over the set of live       *)
(* records says.                                                           *)
AnswerIsRight ==
  phase = "done" =>
    /\ query.kind = "select" => RightSelection
    /\ query.kind = "byID" =>
         result.records = IF query.id \in RecordPositions /\ ~At(query.id).deleted
                            THEN <<query.id>> ELSE <<>>
    /\ query.kind \in {"count", "avg"} => result.totalMatched = Cardinality(AllWanted)
    /\ query.kind \in {"sum", "avg"} => RightSum
    /\ query.kind \in {"max", "min"} => RightExtreme

(* When a query is lost in std::sort, two of its records are in order and a *)
(* third compares with neither; and validate() has let that happen in no    *)
(* column but one that a record may miss and does, or a DOUBLE with a NaN.  *)
MissesOrIsNaN(pos, col) ==
  \/ col.nullable /\ ~hasField(At(pos).data, col.name)
  \/ col.type = "DOUBLE" /\ SortKey(pos).type = "nan"
SortIsDefined ==
  phase = "undefined" =>
    LET S == Elements(result.records) IN
      /\ \E a, b, c \in S : SortsBefore(a, b) /\ SortKey(c).type # SortKey(a).type
      /\ \A k \in DOMAIN schema :
           schema[k].name = query.sort.field => \E c \in S : MissesOrIsNaN(c, schema[k])

(* Every query is answered, or lost in std::sort.                           *)
QueryEnds == phase = "scan" ~> phase \in {"done", "undefined"}

-----------------------------------------------------------------------------
(* QueryEngine.h: totalMatched is the "number of records that matched,      *)
(* before any `limit` cutoff".                                              *)
TotalIsBeforeLimit ==
  phase = "done" /\ query.kind = "select" => result.totalMatched = Cardinality(AllWanted)
=============================================================================
