------------------------------- MODULE FanOut -------------------------------
(***************************************************************************)
(* What a call of MiniDB::Engine::Concurrency comes to: every table gets   *)
(* one verdict, in any order, and the call then returns the last failure   *)
(* in creation order.  If the task of a table throws, the call may end     *)
(* with that exception at once, before the verdicts of other tables.       *)
(***************************************************************************)
EXTENDS Naturals

CONSTANTS NumTables, Verdicts, Pending, Throws

VARIABLES busy,     \* a call is under way
          verdicts, \* of the call under way, or of the last one
          outcome   \* what the last call returned

fanOutVars == <<busy, verdicts, outcome>>

Positions == 1 .. NumTables
Failing(v) == {k \in Positions : v[k] # "OK"}
LastFailure(v) ==
  IF Failing(v) = {} THEN "OK"
  ELSE v[CHOOSE k \in Failing(v) : \A j \in Failing(v) : j <= k]

Init == busy = FALSE /\ verdicts = [k \in Positions |-> "OK"] /\ outcome = "OK"

Begin == /\ ~busy /\ busy' = TRUE
         /\ verdicts' = [k \in Positions |-> Pending]
         /\ UNCHANGED outcome

Decide == /\ \E k \in Positions, v \in Verdicts \cup {Throws} :
               verdicts[k] = Pending /\ verdicts' = [verdicts EXCEPT ![k] = v]
          /\ UNCHANGED <<busy, outcome>>

Return == /\ busy /\ \A k \in Positions : verdicts[k] \in Verdicts
          /\ busy' = FALSE /\ outcome' = LastFailure(verdicts)
          /\ UNCHANGED verdicts

Rethrow == /\ busy /\ \E k \in Positions : verdicts[k] = Throws
           /\ busy' = FALSE /\ outcome' = Throws
           /\ UNCHANGED verdicts

Next == Begin \/ Decide \/ Return \/ Rethrow

Spec == Init /\ [][Next]_fanOutVars
=============================================================================
