---------------------------- MODULE CustomSuite -----------------------------
(***************************************************************************)
(* regression/custom: the operations of the tool that compares the         *)
(* snapshots of the project's own benchmarks.  An entry has a suite, an    *)
(* operation (name), a number of iterations and a time.  Its table has one *)
(* column more, and a line between the rows of two operations.             *)
(***************************************************************************)
EXTENDS Benchmarks

TEST_W == 26
ITER_W == 11
Line(name, iter, current, baseline, delta) == name + iter + current + baseline + delta + 6
Width == Line(TEST_W, ITER_W, VAL_W, VAL_W, DELTA_W)

(* Mutant: the number of iterations is not looked at.                       *)
getCnsAnyTier(results, op, iter) ==
  LET k == SelectInSeq(results, LAMBDA r : r.name = op) IN
    IF k = 0 THEN 0 ELSE results[k].time

getCns(results, op, iter) ==
  LET k == SelectInSeq(results, LAMBDA r : r.name = op /\ r.iter = iter) IN
    IF k = 0 THEN 0 ELSE results[k].time

uniqueOperations(results) == FirstSeen(results)

filterByOperation(results, op) == Kept(results, {k \in DOMAIN results : results[k].name = op})
filterByOperations(results, ops) == Kept(results, {k \in DOMAIN results : results[k].name \in ops})

applyMethodFilter(base, cur, op) ==
  {s \in {[base |-> filterByOperation(base, op), cur |-> filterByOperation(cur, op)]} :
     s.base # <<>> /\ s.cur # <<>>}

applyGroupFilter(base, cur, ops) ==
  {s \in {[base |-> filterByOperations(base, ops), cur |-> filterByOperations(cur, ops)]} :
     s.base # <<>> /\ s.cur # <<>>}

-----------------------------------------------------------------------------
(* The folders of this tool: the name decides, the file may not be there.   *)

isCustomBaselineName(t) == Tags[t].v
OwnFolders(world) == {t \in world.folders : isCustomBaselineName(t)}
latestBaseline(world) == IF world.present THEN Latest(OwnFolders(world)) ELSE {}
printList(world) == IF world.present THEN OldestFirst(OwnFolders(world)) ELSE {}

printMethods(results) == groupMethodsByLetter(uniqueOperations(results))

-----------------------------------------------------------------------------
(* The table.                                                               *)

convertIter(iter) == IF iter \in {10000, 100000} THEN iter ELSE 1000000

drawGroupSeparatorIfNeeded(report, name) ==
  [report EXCEPT
     !.out = IF report.lastRow \notin {<<>>, name} THEN Append(@, drawBorder("mid", Width)) ELSE @,
     !.lastRow = name]

(* Mutant: the name of the last row survives the header.                    *)
setHeaderKeepsRow(report, header, labels) ==
  [report EXCEPT
     !.out = @ \o << drawBorder("top", Width),
                     [at |-> "head", of |-> header,
                      cols |-> Line(nameCell(header, TEST_W), ITER_W, labelCell(labels.current),
                                   labelCell(labels.baseline), DELTA_W)],
                     drawBorder("mid", Width) >>,
     !.md = Append(@, [at |-> "title", of |-> header]),
     !.group = header]

setHeader(report, header, labels) ==
  [report EXCEPT
     !.out = @ \o << drawBorder("top", Width),
                     [at |-> "head", of |-> header,
                      cols |-> Line(nameCell(header, TEST_W), ITER_W, labelCell(labels.current),
                                   labelCell(labels.baseline), DELTA_W)],
                     drawBorder("mid", Width) >>,
     !.md = Append(@, [at |-> "title", of |-> header]),
     !.group = header, !.lastRow = <<>>]

endTable(report) == [report EXCEPT !.out = Append(@, drawBorder("bottom", Width))]

printComparisonRow(report, e, cns) ==
  LET row == [suite |-> e.suite, name |-> e.name, iter |-> e.iter, b |-> e.time, c |-> cns]
      max == IF e.time >= cns THEN e.time ELSE cns
      line == [at |-> "row", of |-> e.name, iter |-> convertIter(e.iter),
               c |-> bar(cns, max), b |-> bar(e.time, max),
               cols |-> Line(nameCell(e.name, TEST_W), ITER_W, valueCell(cns),
                            valueCell(e.time), deltaCell(e.time, cns))]
      before == drawGroupSeparatorIfNeeded(report, e.name)
  IN  [before EXCEPT !.out = Append(@, line),
                     !.md = Append(@, [at |-> "row", row |-> row]),
                     !.rows = Append(@, row)]

(* One turn of the loop of printRegression().                               *)
printEntry(report, e, current, labels) ==
  LET closed == IF report.group # NoGroup THEN endTable(report) ELSE report
      open == IF report.group # e.suite THEN setHeader(closed, e.suite, labels) ELSE report
  IN  printComparisonRow(open, e, getCns(current, e.name, e.iter))
=============================================================================
