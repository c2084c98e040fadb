----------------------------- MODULE Regression -----------------------------
(***************************************************************************)
(* One run of a regression tool, from its arguments to its exit code: the  *)
(* commands list and methods, or a comparison of two snapshots that is     *)
(* printed and exported as JSON and markdown.  The two tools (variable     *)
(* tool) have the same main() and differ in the operations of their suite. *)
(***************************************************************************)
EXTENDS Benchmarks

CONSTANTS Worlds,    \* what the disk may hold: the folders, the snapshot files of
                     \* each tool (in a set, {} where there is none), the live ones
          Argvs,     \* command lines, each a sequence of words
          Live       \* stands for the snapshot of the live run

Entry(t) == IF t = "google" THEN [name : Seq(DOMAIN Cols), time : 0 .. MAX_NS]
            ELSE [suite : Seq(DOMAIN Cols), name : Seq(DOMAIN Cols), iter : Nat, time : 0 .. MAX_NS]

(* A file is there or not.                                                  *)
IsFile(file, t) ==
  /\ \A s \in file : s.parses \in BOOLEAN /\ s.results \in Seq(Entry(t))
  /\ \A s, u \in file : s = u

ASSUME RegressionAssumption ==
  /\ Live \notin DOMAIN Tags /\ Argvs \subseteq Seq(Seq(DOMAIN Cols))
  /\ \A w \in Worlds :
       /\ w.folders \subseteq DOMAIN Tags /\ IsFiniteSet(w.folders) /\ w.present \in BOOLEAN
       /\ \A t \in {"google", "custom"} :
            IsFile(w.live[t], t) /\ \A f \in DOMAIN Tags : IsFile(w[t][f], t)

G == INSTANCE GoogleSuite
C == INSTANCE CustomSuite

VARIABLES tool, argv, world,
          phase,     \* where main() is
          files,     \* [current, baseline]: a folder, or Live
          filter,    \* the words left of the command line, or a resolved name
          group,     \* the names of a resolved letter group, in a set, or {}
          base, cur, \* the entries left on each side
          pos,       \* the entry, or the baseline, the loop is at
          listing,   \* the baselines `list` or `methods` go through
          ids,       \* what `methods` printed
          report,    \* see Benchmarks
          summary,   \* what printSummary() printed, in a set, or {}
          saved,     \* the reports on disk: json and md
          exit       \* the exit code, or -1

inputs == <<tool, argv, world>>
sides == <<files, filter, group, base, cur>>
vars == <<inputs, phase, sides, pos, listing, ids, report, summary, saved, exit>>

Google == tool = "google"
NoReports == [json |-> {}, md |-> {}]

(* loadResults(): the entries of a snapshot; it throws when the file is not *)
(* there or does not parse.                                                 *)
File(f) == IF f = Live THEN world.live[tool] ELSE world[tool][f]
loadResults(f) == {s.results : s \in {x \in File(f) : x.parses}}

Names(results) == IF Google THEN G!uniqueNames(results) ELSE C!uniqueOperations(results)

Init ==
  /\ tool \in {"google", "custom"} /\ argv \in Argvs /\ world \in Worlds
  /\ phase = "args" /\ files = [current |-> Live, baseline |-> Live]
  /\ filter = <<>> /\ group = {} /\ base = <<>> /\ cur = <<>>
  /\ pos = 1 /\ listing = <<>> /\ ids = <<>> /\ report = EmptyReport
  /\ summary = {} /\ saved = NoReports /\ exit = -1

(* An exception reaches the catch of main().                                *)
Throw == /\ phase' = "done" /\ exit' = 1
         /\ UNCHANGED <<inputs, sides, pos, listing, ids, report, summary, saved>>
Return == phase' = "done" /\ exit' = 0

-----------------------------------------------------------------------------
(* The commands.                                                            *)

Help == {<<"-h">>, <<"--help">>, <<"help">>}
IsList == argv = << <<"list">> >>
IsHelp == Len(argv) = 1 /\ argv[1] \in Help
IsMethods == argv # <<>> /\ Len(argv) <= 2 /\ argv[1] = <<"methods">>

printUsage ==
  /\ phase = "args" /\ IsHelp /\ Return
  /\ UNCHANGED <<inputs, sides, pos, listing, ids, report, summary, saved>>

Baselines == IF Google THEN G!printList(world) ELSE C!printList(world)

printList ==
  /\ phase = "args" /\ IsList /\ Baselines # {}
  /\ listing' \in Baselines /\ Return
  /\ UNCHANGED <<inputs, sides, pos, ids, report, summary, saved>>

ListThrows == phase = "args" /\ (IsList \/ IsMethods) /\ Baselines = {} /\ Throw

(* No tag is given, or an empty one.                                        *)
AnyVersion == Len(argv) = 2 => argv[2] = <<>>

(* printMethods(): every baseline, or the one whose tag is given.           *)
MethodsBegin ==
  /\ phase = "args" /\ IsMethods
  /\ \E all \in Baselines :
       listing' = IF AnyVersion THEN all
                  ELSE Kept(all, {k \in DOMAIN all : <<all[k]>> = argv[2]})
  /\ AnyVersion \/ listing' # <<>>
  /\ phase' = "methods"
  /\ UNCHANGED <<inputs, sides, pos, ids, report, summary, saved, exit>>

MethodsUnknown ==
  /\ phase = "args" /\ IsMethods /\ ~AnyVersion
  /\ \E all \in Baselines : \A t \in ToSet(all) : <<t>> # argv[2]
  /\ Throw

MethodsOfBaseline ==
  /\ phase = "methods" /\ pos \in DOMAIN listing
  /\ \E r \in loadResults(listing[pos]) :
       LET printed == IF Google THEN G!printMethods(r) ELSE C!printMethods(r) IN
         ids' = ids \o [k \in DOMAIN printed |-> [of |-> listing[pos], id |-> printed[k]]]
  /\ pos' = pos + 1
  /\ UNCHANGED <<inputs, sides, phase, listing, report, summary, saved, exit>>

MethodsLoadFails ==
  phase = "methods" /\ pos \in DOMAIN listing /\ loadResults(listing[pos]) = {} /\ Throw

MethodsEnd ==
  /\ phase = "methods" /\ pos \notin DOMAIN listing /\ Return
  /\ UNCHANGED <<inputs, sides, pos, listing, ids, report, summary, saved>>

-----------------------------------------------------------------------------
(* A comparison: which two snapshots, and which benchmarks.                 *)

IsComparison == ~IsList /\ ~IsHelp /\ ~IsMethods

(* The leading version tags, two at most.                                   *)
Versions ==
  IF argv = <<>> \/ tryParseVersionArg(argv[1]) = {} THEN 0
  ELSE IF Len(argv) = 1 \/ tryParseVersionArg(argv[2]) = {} THEN 1 ELSE 2

baselinePath(k) == CHOOSE t \in DOMAIN Tags : argv[k] = <<t>>
latestBaseline == IF Google THEN G!latestBaseline(world) ELSE C!latestBaseline(world)

Join(words) == FoldLeft(LAMBDA s, w : IF s = <<>> THEN w ELSE s \o <<" ">> \o w, <<>>, words)

ChooseFiles ==
  /\ phase = "args" /\ IsComparison
  /\ CASE Versions = 2 -> files' = [current |-> baselinePath(1), baseline |-> baselinePath(2)]
       [] Versions = 1 -> files' = [current |-> Live, baseline |-> baselinePath(1)]
       [] OTHER -> \E t \in latestBaseline : files' = [current |-> Live, baseline |-> t]
  /\ filter' = Join(SubSeq(argv, Versions + 1, Len(argv)))
  /\ phase' = "resolve"
  /\ UNCHANGED <<inputs, group, base, cur, pos, listing, ids, report, summary, saved, exit>>

NoBaseline == phase = "args" /\ IsComparison /\ Versions = 0 /\ latestBaseline = {} /\ Throw

(* An id or a letter stands for names of the baseline's own list.           *)
Resolve ==
  /\ phase = "resolve"
  /\ CASE looksLikeMethodId(filter) ->
            /\ \E r \in loadResults(files.baseline) : filter' \in resolveMethodId(filter, Names(r))
            /\ UNCHANGED group
       [] looksLikeLetterGroup(filter) ->
            /\ \E r \in loadResults(files.baseline) :
                 \E g \in resolveLetterGroup(filter, Names(r)) : group' = {g}
            /\ UNCHANGED filter
       [] OTHER -> UNCHANGED <<filter, group>>
  /\ phase' = "load"
  /\ UNCHANGED <<inputs, files, base, cur, pos, listing, ids, report, summary, saved, exit>>

ResolveThrows ==
  /\ phase = "resolve"
  /\ \/ looksLikeMethodId(filter)
        /\ \A r \in loadResults(files.baseline) : resolveMethodId(filter, Names(r)) = {}
     \/ looksLikeLetterGroup(filter)
        /\ \A r \in loadResults(files.baseline) : resolveLetterGroup(filter, Names(r)) = {}
  /\ Throw

Filtered(b, c) ==
  IF group # {} THEN UNION {IF Google THEN G!applyGroupFilter(b, c, g)
                                      ELSE C!applyGroupFilter(b, c, g) : g \in group}
  ELSE IF filter # <<>> THEN IF Google THEN G!applyMethodFilter(b, c, filter)
                                       ELSE C!applyMethodFilter(b, c, filter)
  ELSE {[base |-> b, cur |-> c]}

Load ==
  /\ phase = "load"
  /\ \E b \in loadResults(files.baseline), c \in loadResults(files.current) :
       \E s \in Filtered(b, c) : base' = s.base /\ cur' = s.cur
  /\ phase' = "print"
  /\ UNCHANGED <<inputs, files, filter, group, pos, listing, ids, report, summary, saved, exit>>

LoadThrows ==
  /\ phase = "load"
  /\ \A b \in loadResults(files.baseline), c \in loadResults(files.current) : Filtered(b, c) = {}
  /\ Throw

-----------------------------------------------------------------------------
(* The table, the summary and the two exports.                              *)

labelFor(f) == IF f = Live THEN <<"Current">> ELSE <<f>>
Labels == [current |-> labelFor(files.current), baseline |-> labelFor(files.baseline)]

(* Mutant: the loop skips an entry.                                         *)
PrintEverySecond ==
  /\ phase = "print" /\ pos \in DOMAIN base
  /\ report' = IF Google THEN G!printEntry(report, base[pos], cur, Labels)
                         ELSE C!printEntry(report, base[pos], cur, Labels)
  /\ pos' = pos + 2
  /\ UNCHANGED <<inputs, phase, sides, listing, ids, summary, saved, exit>>

PrintEntry ==
  /\ phase = "print" /\ pos \in DOMAIN base
  /\ report' = IF Google THEN G!printEntry(report, base[pos], cur, Labels)
                         ELSE C!printEntry(report, base[pos], cur, Labels)
  /\ pos' = pos + 1
  /\ UNCHANGED <<inputs, phase, sides, listing, ids, summary, saved, exit>>

EndRegression ==
  /\ phase = "print" /\ pos \notin DOMAIN base
  /\ report' = IF report.group = NoGroup THEN report
               ELSE IF Google THEN G!endTable(report) ELSE C!endTable(report)
  /\ phase' = "summary"
  /\ UNCHANGED <<inputs, sides, pos, listing, ids, summary, saved, exit>>

Counted ==
  LET rows == report.rows IN
    [faster |-> Cardinality({k \in DOMAIN rows : Faster(rows[k].b, rows[k].c)}),
     slower |-> Cardinality({k \in DOMAIN rows : Slower(rows[k].b, rows[k].c)}),
     tied |-> Cardinality({k \in DOMAIN rows : Noise(rows[k].b, rows[k].c)})]

printSummary ==
  /\ phase = "summary"
  /\ summary' = IF report.rows = <<>> THEN {} ELSE {Counted}
  /\ phase' = "json"
  /\ UNCHANGED <<inputs, sides, pos, listing, ids, report, saved, exit>>

(* Neither export says so when its file does not open.                      *)
exportJson ==
  /\ phase = "json" /\ phase' = "md"
  /\ \/ saved' = [saved EXCEPT !.json = {report.rows}]
     \/ UNCHANGED saved
  /\ UNCHANGED <<inputs, sides, pos, listing, ids, report, summary, exit>>

exportMarkdown ==
  /\ phase = "md" /\ Return
  /\ \/ saved' = [saved EXCEPT !.md = {[body |-> report.md, result |-> summary]}]
     \/ UNCHANGED saved
  /\ UNCHANGED <<inputs, sides, pos, listing, ids, report, summary>>

Next ==
  \/ printUsage \/ printList \/ ListThrows
  \/ MethodsBegin \/ MethodsUnknown \/ MethodsOfBaseline \/ MethodsLoadFails \/ MethodsEnd
  \/ ChooseFiles \/ NoBaseline \/ Resolve \/ ResolveThrows \/ Load \/ LoadThrows
  \/ PrintEntry \/ EndRegression \/ printSummary \/ exportJson \/ exportMarkdown

Spec == Init /\ [][Next]_vars
-----------------------------------------------------------------------------
(* Type invariant of the run and of what it has built so far
   (framework.h, regression_main.cpp).                                      *)
TypeOK ==
  /\ tool \in {"google", "custom"} /\ argv \in Argvs /\ world \in Worlds
  /\ phase \in {"args", "methods", "resolve", "load", "print", "summary", "json", "md", "done"}
  /\ exit \in {-1, 0, 1} /\ (exit = -1 <=> phase # "done")
  /\ files \in [{"current", "baseline"} -> DOMAIN Tags \cup {Live}]
  /\ \A r \in ToSet(base) \cup ToSet(cur) : r.time \in Nat /\ r.name \in Seq(DOMAIN Cols)
  /\ pos \in 1 .. Len(base) + Len(listing) + 1
  /\ \A k \in DOMAIN report.out :
       report.out[k].at = "row" => report.out[k].b \in 0 .. BAR_W /\ report.out[k].c \in 0 .. BAR_W
  /\ Cardinality(group) <= 1 /\ Cardinality(summary) <= 1
  /\ (exit = 1 => saved = NoReports)

Compared == IsComparison /\ exit = 0
Words == Join(SubSeq(argv, Versions + 1, Len(argv)))
NoNewer(t, u) ==
  LET a == Tags[t].nums  b == Tags[u].nums IN
    \/ a[1] < b[1]
    \/ a[1] = b[1] /\ (a[2] < b[2] \/ (a[2] = b[2] /\ a[3] <= b[3]))
OwnFolders == IF Google THEN G!OwnFolders(world) ELSE C!OwnFolders(world)

(* The place of a benchmark among those of its letter.                      *)
PlaceOf(n, names) ==
  1 + Cardinality({k \in DOMAIN names :
        /\ LetterOf(names[k]) = LetterOf(n) /\ names[k] # n
        /\ Precedes(names[k], n) \/ (~Precedes(n, names[k]) /\ \E j \in DOMAIN names : j > k /\ names[j] = n)})

Asked(n, names) ==
  IF looksLikeMethodId(Words)
    THEN LetterOf(n) = LetterOf(Words) /\ PlaceOf(n, names) = Number(Tail(Words))
  ELSE IF looksLikeLetterGroup(Words) THEN LetterOf(n) = LetterOf(Words)
  ELSE Words \in {<<>>, n}

(* A word of some command line that is an id, and the id it stands for.      *)
ReadsAs(word, id) ==
  looksLikeMethodId(word) /\ LetterOf(word) = id.letter /\ Number(Tail(word)) = id.j

Matches(e, r) == e.name = r.name /\ (Google \/ (e.suite = r.suite /\ e.iter = r.iter))
(* The time of the first entry for the benchmark of r, or 0 without any.    *)
IsTimeFor(time, results, r) ==
  LET same == {i \in DOMAIN results :
                 results[i].name = r.name /\ (Google \/ results[i].iter = r.iter)} IN
    IF same = {} THEN time = 0
    ELSE \E i \in same : time = results[i].time /\ \A j \in same : i <= j

RowsUpTo(lines, k) == Cardinality({j \in 1 .. k : lines[j].at = "row"})
RowOf(lines, rows, k) == rows[RowsUpTo(lines, k)]

(* A comparison that ends well compares the right things: the files of the two
   tags; of one tag, against the live run; without a tag the newest baseline of
   this tool against the live run; exactly the benchmarks asked for, by name, by
   the id or the letter that `methods` shows, in the order of the baseline; each
   with the time of the first entry on the other side for this benchmark, or 0
   when there is none (the custom tool tells benchmarks by operation and
   iterations, so an entry of another suite may answer); and what is saved and
   summed up is what was printed, one per cent making a row faster or slower
   (main, getCns, printRegression, printSummary, export.h).                 *)
ReportIsFaithful ==
  Compared =>
    \E b \in loadResults(files.baseline), c \in loadResults(files.current) :
      LET asked == Kept(b, {k \in DOMAIN b : Asked(b[k].name, Names(b))})
          rows == report.rows
      IN
      /\ Versions = 2 => <<files.current>> = argv[1] /\ <<files.baseline>> = argv[2]
      /\ Versions = 1 => files.current = Live /\ <<files.baseline>> = argv[1]
      /\ Versions = 0 => /\ files.current = Live /\ files.baseline \in OwnFolders
                         /\ \A t \in OwnFolders : NoNewer(t, files.baseline)
      /\ Len(rows) = Len(asked)
      /\ \A k \in DOMAIN rows :
           /\ Matches(asked[k], rows[k]) /\ rows[k].b = asked[k].time
           /\ IsTimeFor(rows[k].c, c, rows[k])
      /\ saved.json \subseteq {rows}
      /\ \A m \in saved.md :
           /\ RowsUpTo(m.body, Len(m.body)) = Len(rows)
           /\ \A k \in DOMAIN m.body :
                m.body[k].at = "row" => m.body[k].row = RowOf(m.body, rows, k)
           /\ m.result = summary
      /\ \A s \in summary :
           /\ s.faster + s.slower + s.tied = Len(rows)
           /\ s.faster = Cardinality({k \in DOMAIN rows :
                 rows[k].c < rows[k].b /\ rows[k].c <= 100 * (rows[k].b - rows[k].c)})
           /\ s.slower = Cardinality({k \in DOMAIN rows :
                 0 < rows[k].b /\ rows[k].b < rows[k].c /\ rows[k].c <= 100 * (rows[k].c - rows[k].b)})

GroupOf(r) == IF Google THEN G!baseName(r.name) ELSE r.suite
HeadOf(lines, k) == Max({j \in 1 .. k : lines[j].at = "head"})
TooWide(r) == r.c > 0 /\ Gap(r.b, r.c) \div r.c >= 99999
LabelsFit == labelCell(Labels.current) = VAL_W /\ labelCell(Labels.baseline) = VAL_W

(* printRegression() takes the group " " for no group yet, and the custom   *)
(* tool an empty operation for no row yet.                                  *)
Unnamed(e) == GroupOf(e) = NoGroup \/ e.name = <<>>

(* The tables on the terminal are whole: a table is opened, headed, closed and
   followed by nothing but the next one; a row stands in the table of its own
   group; a line across separates exactly the rows of different operations
   (custom tool); the slower side never has the shorter bar; and every line is
   as wide as the borders, unless a label does not fit or a change reaches ten
   million per cent
   (setHeader, endTable, drawGroupSeparatorIfNeeded, printComparisonRow).   *)
TablesAreWhole ==
  LET out == report.out
      At(k) == out[k].at
      width == IF Google THEN G!Width ELSE C!Width
  IN
  (\A e \in ToSet(base) : ~Unnamed(e)) =>
  /\ \A k \in DOMAIN out :
       /\ At(k) = "top" <=> k = 1 \/ At(k - 1) = "bottom"
       /\ At(k) = "head" <=> k > 1 /\ At(k - 1) = "top"
       /\ At(k) = "bottom" => At(k - 1) = "row"
       /\ At(k) = "mid" => At(k - 1) = "head" \/ (At(k - 1) = "row" /\ k < Len(out) /\ ~Google)
       /\ At(k) = "row" => LET r == RowOf(out, report.rows, k) IN
            /\ out[HeadOf(out, k)].of = GroupOf(r)
            /\ (r.c > r.b => out[k].c >= out[k].b) /\ (r.b > r.c => out[k].b >= out[k].c)
            /\ At(k - 1) \in {"row", "mid"}
            /\ At(k - 1) = "row" => Google \/ out[k - 1].of = out[k].of
            /\ At(k - 2) = "row" /\ At(k - 1) = "mid" => out[k - 2].of # out[k].of
       /\ \/ out[k].cols = width
          \/ At(k) = "head" /\ ~LabelsFit
          \/ At(k) = "row" /\ TooWide(RowOf(out, report.rows, k))
  /\ phase \in {"summary", "json", "md"} \/ Compared => out = <<>> \/ At(Len(out)) = "bottom"

(* `list` and `methods` name every baseline of this tool, oldest first (or the
   one asked for), and `methods` shows each of its benchmarks once, under an id
   that counts the benchmarks of its letter and that a later comparison resolves
   to this very benchmark, on every command line that spells the id so that the
   tool takes it for one.  Nothing spells an id whose letter is no letter: those
   of the benchmarks that begin with a digit, say, and "?"
   (printList, printMethods, groupMethodsByLetter, resolveMethodId).        *)
ListingIsFaithful ==
  /\ \A i, j \in DOMAIN listing : i < j => NoNewer(listing[i], listing[j])
  /\ exit = 0 /\ (IsList \/ IsMethods) =>
       IF AnyVersion THEN ToSet(listing) = OwnFolders ELSE listing = argv[2]
  /\ \A k \in DOMAIN ids : \E r \in loadResults(ids[k].of) :
       LET id == ids[k].id IN
         /\ id.name \in ToSet(Names(r)) /\ id.letter = LetterOf(id.name)
         /\ id.letter # "?" => id.j = PlaceOf(id.name, Names(r))
         /\ \A w \in UNION {ToSet(a) : a \in Argvs} :
              ReadsAs(w, id) => resolveMethodId(w, Names(r)) = {id.name}
  /\ exit = 0 /\ IsMethods =>
       \A t \in ToSet(listing) : \A r \in loadResults(t) : \A e \in ToSet(r) :
         Cardinality({k \in DOMAIN ids : ids[k].of = t /\ ids[k].id.name = e.name}) = 1
=============================================================================
