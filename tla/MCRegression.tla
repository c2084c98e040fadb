---------------------------- MODULE MCRegression ----------------------------
EXTENDS Regression

(* Names: Insert_Impl/8, Insert_Std, Erase, insert, "find hit", "8 hit", a  *)
(* long one.                                                                *)
InsertImpl == <<"I", "nsert", "_", "Impl", "/", "8">>
InsertStd == <<"I", "nsert", "_", "Std">>
Erase == <<"E", "rase">>
insert == <<"i", "nsert">>
FindHit == <<"find", " ", "hit">>
EightHit == <<"8", " ", "hit">>
Long == <<"I", "long">>

MCLetters == {"I", "i", "E"}
MCDigits == [d \in {"0", "1", "2", "8"} |->
               CASE d = "0" -> 0 [] d = "1" -> 1 [] d = "2" -> 2 [] d = "8" -> 8]

(* The order of the tokens as upper-case ASCII; "_" follows the letters.    *)
Order == << {" "}, {"/"}, {"0"}, {"1"}, {"2"}, {"8"}, {"Current"}, {"E"}, {"find"}, {"gv1.0.0"},
            {"help"}, {"hit"}, {"I", "i"}, {"Impl"}, {"list"}, {"long"}, {"methods"}, {"nsert"},
            {"rase"}, {"Std"}, {"v1.0.0"}, {"v1.10.0"}, {"v1.9.0"}, {"v2.0"}, {"v2.0.0-rc"},
            {"vector"}, {"_"} >>
MCTags == [t \in {"gv1.0.0", "v1.0.0", "v1.10.0", "v1.9.0", "v2.0", "v2.0.0-rc"} |->
  CASE t = "gv1.0.0"   -> [v |-> FALSE, nums |-> <<>>, tail |-> FALSE, order |-> 1]
    [] t = "v1.0.0"    -> [v |-> TRUE, nums |-> <<1, 0, 0>>, tail |-> FALSE, order |-> 2]
    [] t = "v1.10.0"   -> [v |-> TRUE, nums |-> <<1, 10, 0>>, tail |-> FALSE, order |-> 3]
    [] t = "v1.9.0"    -> [v |-> TRUE, nums |-> <<1, 9, 0>>, tail |-> FALSE, order |-> 4]
    [] t = "v2.0"      -> [v |-> TRUE, nums |-> <<>>, tail |-> FALSE, order |-> 5]
    [] t = "v2.0.0-rc" -> [v |-> TRUE, nums |-> <<2, 0, 0>>, tail |-> TRUE, order |-> 6]]
Tokens == UNION Range(Order)
MCRank == [t \in Tokens |-> CHOOSE k \in DOMAIN Order : t \in Order[k]]
Firsts == << " ", "/", "0", "1", "2", "8", "C", "E", "F", "G", "H", "H", "I", "I", "L", "L", "M",
             "N", "R", "S", "V", "V", "V", "V", "V", "V", "_" >>
MCFirst == [t \in Tokens |-> Firsts[MCRank[t]]]
MCCols == [t \in Tokens |-> IF t = "long" THEN 40 ELSE IF t \in Letters \cup {"_", "/", " "} THEN 1 ELSE 5]

-----------------------------------------------------------------------------
(* Snapshots.  Times: ns, us and ms; equal, within and past the noise; a    *)
(* zero; a change of more than ten million per cent.                        *)
Snap(results) == {[parses |-> TRUE, results |-> results]}
Broken == {[parses |-> FALSE, results |-> <<>>]}

E(name, time) == [name |-> name, time |-> time]
GoogleSnapshots ==
  << <<E(InsertImpl, 1500), E(InsertStd, 999), E(Erase, 250000), E(insert, 10), E(Long, 1000)>>,
    <<E(InsertStd, 1000), E(InsertImpl, 999996), E(InsertImpl, 7), E(Erase, 251000), E(FindHit, 0), E(EightHit, 12)>>,
    <<E(FindHit, 1), E(Erase, 1), E(Long, 0)>>,
    <<>> >>

T(suite, name, iter, time) == [suite |-> suite, name |-> name, iter |-> iter, time |-> time]
CustomSnapshots ==
  << <<T(<<"vector">>, Erase, 10000, 1500), T(<<"vector">>, Erase, 100000, 999),
      T(<<"Std">>, insert, 10000, 200001)>>,
    <<T(<<"vector">>, FindHit, 10000, 2), T(<<"vector">>, Erase, 10000, 1501),
      T(<<"Std">>, insert, 10000, 1), T(<<"vector">>, Erase, 100000, 2000)>>,
    <<T(<<"Std">>, Erase, 10000, 12), T(<<"vector">>, Erase, 10000, 40)>>,
    <<T(<<"vector">>, insert, 1000000, 5), T(<<"vector">>, EightHit, 10000, 5), T(<<"Std">>, insert, 100000, 0)>> >>

(* The old baselines hold one snapshot, the newest another, the live run a  *)
(* third.                                                                   *)
Old == GoogleSnapshots[1]
OldCustom == CustomSnapshots[1]
MCWorld(folders, g, c, new, newC, live, liveC) ==
  [present |-> TRUE, folders |-> folders,
   google |-> [t \in DOMAIN Tags |-> IF t \notin g THEN {} ELSE IF t = "v1.0.0" THEN Snap(Old) ELSE new],
   custom |-> [t \in DOMAIN Tags |-> IF t \notin c THEN {} ELSE IF t = "v1.0.0" THEN Snap(OldCustom) ELSE newC],
   live |-> [google |-> live, custom |-> liveC]]

Usual == {"gv1.0.0", "v1.0.0", "v1.10.0", "v1.9.0"}
MCWorlds ==
  {MCWorld(Usual, Usual \ {"v1.10.0"}, Usual, Snap(GoogleSnapshots[n]), Snap(CustomSnapshots[n]),
           Snap(GoogleSnapshots[l]), Snap(CustomSnapshots[l])) : n, l \in 1 .. 4}
  \cup {MCWorld(Usual, Usual, Usual \ {"v1.10.0"}, Snap(Old), Snap(OldCustom), l, k) :
          l \in {{}, Broken, Snap(Old)}, k \in {{}, Broken, Snap(OldCustom)}}
  \cup {MCWorld(f, f, f, n, m, Snap(Old), Snap(OldCustom)) :
          f \in {{}, {"v1.0.0", "v2.0"}, {"v1.0.0", "v2.0.0-rc"}},
          n \in {Snap(Old), Broken}, m \in {Snap(OldCustom), Broken}}
  \cup {[MCWorld({}, {}, {}, {}, {}, Snap(Old), Snap(OldCustom)) EXCEPT !.present = FALSE]}

MCArgvs ==
  { <<>>, << <<"list">> >>, << <<"help">> >>, << <<"methods">> >>,
    << <<"methods">>, <<"v1.9.0">> >>, << <<"methods">>, <<"v2.0.0-rc">> >>,
    << <<"v1.9.0">> >>, << <<"v1.9.0">>, <<"v1.0.0">> >>, << <<"v2.0.0-rc">> >>,
    << <<"methods">>, <<>> >>,
    << <<"8", "1">> >>, << <<"i", "1">> >>, << <<"I", "2">> >>, << <<"I", "0">> >>, << <<"v1.0.0">>, <<"E", "1">> >>,
    << <<"i">> >>, << <<"v1.0.0">>, <<"E">> >>, << <<"find">>, <<"hit">> >>,
    << <<"v1.9.0">>, <<"v1.0.0">>, <<"E", "rase">> >>, << <<"v1.0.0">>, <<"i">> >> }
=============================================================================
