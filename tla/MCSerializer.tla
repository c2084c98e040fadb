---------------------------- MODULE MCSerializer ----------------------------
EXTENDS Serializer

E(i, v) == [id |-> i, value |-> v]

(* A rejected entry after a good one; entries without a number, alone and   *)
(* behind one whose number they then take.                                  *)
ForeignArrays == {<<E(1, "v"), E(0, "bad")>>, <<E(NoId, "v"), E(Text, "v")>>,
                  <<E(1, "v"), E(NoId, "v")>>}
OwnFields == {NoId, 1}
=============================================================================
