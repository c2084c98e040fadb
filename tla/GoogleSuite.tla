---------------------------- MODULE GoogleSuite -----------------------------
(***************************************************************************)
(* regression/google: the operations of the tool that compares Google      *)
(* Benchmark snapshots.  An entry of a snapshot has a name and a time; the *)
(* number of its iterations is read and not used.                          *)
(***************************************************************************)
EXTENDS Benchmarks

TEST_W == 32
Line(name, current, baseline, delta) == name + current + baseline + delta + 5
Width == Line(TEST_W, VAL_W, VAL_W, DELTA_W)

baseName(name) ==
  LET slash == SelectInSeq(name, LAMBDA t : t = "/")
      base == IF slash = 0 THEN name ELSE SubSeq(name, 1, slash - 1)
      underscore == SelectLastInSeq(base, LAMBDA t : t = "_")
  IN  IF underscore = 0 THEN base ELSE SubSeq(base, 1, underscore - 1)

getCns(results, name) ==
  LET k == SelectInSeq(results, LAMBDA r : r.name = name) IN
    IF k = 0 THEN 0 ELSE results[k].time

uniqueNames(results) == FirstSeen(results)

filterByName(results, name) == Kept(results, {k \in DOMAIN results : results[k].name = name})
filterByNames(results, names) == Kept(results, {k \in DOMAIN results : results[k].name \in names})

(* Both sides, or a throw when one of them has nothing left.                *)
applyMethodFilter(base, cur, name) ==
  {s \in {[base |-> filterByName(base, name), cur |-> filterByName(cur, name)]} :
     s.base # <<>> /\ s.cur # <<>>}

applyGroupFilter(base, cur, names) ==
  {s \in {[base |-> filterByNames(base, names), cur |-> filterByNames(cur, names)]} :
     s.base # <<>> /\ s.cur # <<>>}

-----------------------------------------------------------------------------
(* The folders of this tool: one file of its own must be there.  A world is *)
(* what the disk holds: per tool and folder the content of the snapshot.    *)

isGoogleBaselineName(world, t) == Tags[t].v /\ world.google[t] # {}
OwnFolders(world) == {t \in world.folders : isGoogleBaselineName(world, t)}
latestBaseline(world) == IF world.present THEN Latest(OwnFolders(world)) ELSE {}
printList(world) == IF world.present THEN OldestFirst(OwnFolders(world)) ELSE {}

(* The ids of one baseline, as `methods` lists them.                        *)
printMethods(results) == groupMethodsByLetter(uniqueNames(results))

-----------------------------------------------------------------------------
(* The table.                                                               *)

setHeader(report, header, labels) ==
  [report EXCEPT
     !.out = @ \o << drawBorder("top", Width),
                     [at |-> "head", of |-> header,
                      cols |-> Line(nameCell(header, TEST_W), labelCell(labels.current),
                                   labelCell(labels.baseline), DELTA_W)],
                     drawBorder("mid", Width) >>,
     !.md = Append(@, [at |-> "title", of |-> header]),
     !.group = header]

endTable(report) == [report EXCEPT !.out = Append(@, drawBorder("bottom", Width))]

printComparisonRow(report, e, cns) ==
  LET row == [name |-> e.name, b |-> e.time, c |-> cns]
      max == IF e.time >= cns THEN e.time ELSE cns
      line == [at |-> "row", of |-> e.name, c |-> bar(cns, max), b |-> bar(e.time, max),
               cols |-> Line(nameCell(e.name, TEST_W), valueCell(cns),
                            valueCell(e.time), deltaCell(e.time, cns))]
  IN  [report EXCEPT !.out = Append(@, line),
                     !.md = Append(@, [at |-> "row", row |-> row]),
                     !.rows = Append(@, row)]

(* One turn of the loop of printRegression().                               *)
printEntry(report, e, current, labels) ==
  LET group == baseName(e.name)
      closed == IF report.group # NoGroup THEN endTable(report) ELSE report
      open == IF report.group # group THEN setHeader(closed, group, labels) ELSE report
  IN  printComparisonRow(open, e, getCns(current, e.name))
=============================================================================
