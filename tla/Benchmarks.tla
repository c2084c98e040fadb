----------------------------- MODULE Benchmarks -----------------------------
(***************************************************************************)
(* What the two regression tools (regression/google, regression/custom)    *)
(* share word for word: the letter groups and the ids they give to         *)
(* benchmarks, version tags, and the widths of the boxed table.  A name is *)
(* a sequence of tokens; a line of output is known by its width.           *)
(* An operator that throws for some arguments answers a set: empty if it   *)
(* throws, else with the one result.                                       *)
(***************************************************************************)
EXTENDS Integers, FiniteSets, SequencesExt

CONSTANTS Cols,      \* displayWidth() of each token
          Rank,      \* its place in the order that ignores case
          First,     \* its first character, in upper case
          Letters,   \* the tokens that are one letter
          Digits,    \* the value of each token that is one digit
          Tags       \* the names of folders, with what each parses to

(* The order compares first characters first; a letter is its own first     *)
(* character; two folders have two names.                                   *)
ASSUME BenchmarksAssumption ==
  /\ Cols \in [DOMAIN Cols -> Nat] /\ Rank \in [DOMAIN Cols -> Nat]
  /\ \A a, b, c \in DOMAIN Cols :
       Rank[a] <= Rank[b] /\ Rank[b] <= Rank[c] /\ First[a] = First[c] => First[b] = First[a]
  /\ Letters \subseteq DOMAIN Cols /\ \A l \in Letters : First[l] # "?"
  /\ DOMAIN Digits \subseteq DOMAIN Cols
  /\ \A t \in DOMAIN Tags : /\ Tags[t].order \in Nat /\ Tags[t].v \in BOOLEAN /\ Tags[t].tail \in BOOLEAN
                            /\ Tags[t].nums \in {<<>>} \cup (Nat \X Nat \X Nat)
  /\ \A t, u \in DOMAIN Tags : Tags[t].order = Tags[u].order => t = u

displayWidth(name) ==
  LET cols[i \in 0 .. Len(name)] == IF i = 0 THEN 0 ELSE cols[i - 1] + Cols[name[i]]
  IN  cols[Len(name)]

(* The elements of S in the order of the pairs before, each at the place    *)
(* that the number of those before it gives.                                *)
InOrder(S, before) ==
  [k \in 1 .. Cardinality(S) |->
     CHOOSE x \in S : Cardinality({y \in S : <<y, x>> \in before}) = k - 1]

(* A copy of some of the elements of seq, those at the positions I.         *)
Kept(seq, I) ==
  LET order == InOrder(I, {p \in I \X I : p[1] < p[2]})
  IN  [k \in 1 .. Cardinality(I) |-> seq[order[k]]]

(* The names of a snapshot, each once, as they are first seen.              *)
FirstSeen(results) ==
  LET first == Kept(results, {k \in DOMAIN results :
                                \A j \in 1 .. k - 1 : results[j].name # results[k].name})
  IN  [k \in DOMAIN first |-> first[k].name]

-----------------------------------------------------------------------------
(* Letter groups and [LetterN] ids.                                         *)

Alike(a, b) == Rank[a] = Rank[b]

Precedes(a, b) ==
  \E k \in 1 .. Len(b) :
    /\ k <= Len(a) + 1
    /\ \A i \in 1 .. k - 1 : Alike(a[i], b[i])
    /\ k = Len(a) + 1 \/ Rank[a[k]] < Rank[b[k]]

(* Mutant: the names stay as they are in the file.                          *)
Unsorted(names) == names

(* std::sort() of so few names is an insertion sort, which is stable.       *)
Sorted(names) ==
  LET places == DOMAIN names
      Before(i, j) == \/ Precedes(names[i], names[j])
                      \/ (~Precedes(names[j], names[i]) /\ i < j)
      order == InOrder(places, {p \in places \X places : Before(p[1], p[2])})
  IN  [k \in places |-> names[order[k]]]

LetterOf(name) == IF name = <<>> THEN "?" ELSE First[Head(name)]

(* Where the group begins that the name at k falls in.                      *)
GroupStart(sorted, k) ==
  Max({i \in 1 .. k : i = 1 \/ LetterOf(sorted[i - 1]) # LetterOf(sorted[i])})

(* The groups one after the other: a name, its letter and its place in the  *)
(* group, from 1.                                                           *)
groupMethodsByLetter(names) ==
  LET sorted == Sorted(names) IN
    [k \in DOMAIN sorted |-> [letter |-> LetterOf(sorted[k]), j |-> k + 1 - GroupStart(sorted, k),
                              name |-> sorted[k]]]

looksLikeMethodId(s) ==
  Len(s) >= 2 /\ Head(s) \in Letters /\ \A i \in 2 .. Len(s) : s[i] \in DOMAIN Digits

looksLikeLetterGroup(s) == Len(s) = 1 /\ Head(s) \in Letters

Number(digits) == FoldLeft(LAMBDA n, d : 10 * n + Digits[d], 0, digits)

(* Names of one letter stand next to each other, so these are one group.    *)
Members(letter, names) == {m \in ToSet(groupMethodsByLetter(names)) : m.letter = letter}

resolveMethodId(id, names) ==
  {m.name : m \in {x \in Members(LetterOf(id), names) : x.j = Number(Tail(id))}}

resolveLetterGroup(letterArg, names) ==
  {g \in {{m.name : m \in Members(LetterOf(letterArg), names)}} : g # {}}

-----------------------------------------------------------------------------
(* Version tags.  nums is <<major, minor, patch>>, or <<>> when these do    *)
(* not parse; tail: something follows them; order: as a string.             *)

parseBaseline(t) == {b \in {t} : Tags[t].nums # <<>>}

tryParseVersionArg(arg) ==
  {t \in DOMAIN Tags : arg = <<t>> /\ Tags[t].v /\ Tags[t].nums # <<>> /\ ~Tags[t].tail}

Older(a, b) ==
  LET Key(t) == Append(Tags[t].nums, Tags[t].order) IN
    \E k \in 1 .. 4 : /\ \A i \in 1 .. k - 1 : Key(a)[i] = Key(b)[i]
                      /\ Key(a)[k] < Key(b)[k]

Latest(folders) ==
  IF \A t \in folders : parseBaseline(t) # {}
    THEN {t \in folders : \A u \in folders \ {t} : Older(u, t)}
    ELSE {}

OldestFirst(folders) ==
  IF \A t \in folders : parseBaseline(t) # {}
    THEN {InOrder(folders, {p \in folders \X folders : Older(p[1], p[2])})}
    ELSE {}

-----------------------------------------------------------------------------
(* The percentage of a row, (b - c) / c, against its thresholds.  Times are *)
(* whole nanoseconds; c = 0 divides by zero, which a double survives.       *)

Gap(b, c) == IF b >= c THEN b - c ELSE c - b
Noise(b, c) == b = 0 \/ (c > 0 /\ Gap(b, c) <= (c - 1) \div 100)
Faster(b, c) == ~Noise(b, c) /\ b > c
Slower(b, c) == ~Noise(b, c) /\ b < c

-----------------------------------------------------------------------------
(* Widths, in columns.                                                      *)

VAL_W == 24
DELTA_W == 14
BAR_W == 10
DUR_W == 10

Powers == <<10, 100, 1000, 10000, 100000, 1000000, 10000000, 100000000, 1000000000>>
DigitCount(n) == CHOOSE d \in 1 .. 9 : n < Powers[d] /\ (d = 1 \/ n >= Powers[d - 1])

padCell(cols, width) == IF cols >= width THEN cols ELSE width
truncateCell(cols, width) == IF cols <= width THEN cols ELSE width

bar(ns, maxNs) == IF maxNs = 0 THEN 0 ELSE (2 * BAR_W * ns + maxNs) \div (2 * maxNs)

(* Bound: a benchmark takes less than a second; below that                  *)
(* formatMagnitude() always leaves two decimals.                            *)
MAX_NS == 999999999
formatMagnitude(ns, unit) == DigitCount((ns + (unit \div 200)) \div unit) + 3

formatDuration(ns) ==
  IF ns < 1000 THEN DigitCount(ns) + 3
  ELSE formatMagnitude(ns, IF ns < 1000000 THEN 1000 ELSE 1000000) + 3

deltaText(b, c) ==
  IF b = 0 \/ c = 0 THEN 5      \* +0.0%, +inf%
  ELSE DigitCount((1000 * Gap(b, c) + (c \div 2)) \div (10 * c)) + 4

valueCell(ns) == padCell(1 + padCell(formatDuration(ns), DUR_W) + 1 + BAR_W, VAL_W)
deltaCell(b, c) == padCell(1 + 2 + deltaText(b, c), DELTA_W)
nameCell(name, width) == padCell(1 + truncateCell(displayWidth(name), width - 1), width)
labelCell(label) == padCell(1 + displayWidth(label), VAL_W)

(* A report is what a comparison has built so far: the lines on the         *)
(* terminal, the titles and rows of the markdown, the rows, the group whose *)
(* table is open and the name in the last row.                              *)
NoGroup == <<" ">>
EmptyReport == [out |-> <<>>, md |-> <<>>, rows |-> <<>>, group |-> NoGroup, lastRow |-> <<>>]

(* One line of dashes across the columns.                                   *)
drawBorder(at, cols) == [at |-> at, of |-> <<>>, cols |-> cols]
=============================================================================
