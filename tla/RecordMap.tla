------------------------------ MODULE RecordMap ------------------------------
(***************************************************************************)
(* What a table promises: a map from record ids to data, the Status of     *)
(* each call decided by the map alone, and a snapshot that a load brings   *)
(* back exactly.                                                           *)
(***************************************************************************)
EXTENDS Naturals

CONSTANTS Ids, Data, ValidData,
          Garbled  \* the map of a table that was loaded into while in use

VARIABLES map, snapshot, status
vars == <<map, snapshot, status>>

Has(id) == id \in DOMAIN map

Init == map = <<>> /\ snapshot = <<>> /\ status = "OK"

Insert(id, d) ==
  /\ UNCHANGED snapshot
  /\ \/ d \notin ValidData /\ status' = "INVALID" /\ UNCHANGED map
     \/ d \in ValidData /\ Has(id) /\ status' = "DUPLICATE_KEY" /\ UNCHANGED map
     \/ /\ d \in ValidData /\ ~Has(id) /\ status' = "OK"
        /\ map' = [k \in DOMAIN map \cup {id} |-> IF k = id THEN d ELSE map[k]]

Update(id, d) ==
  /\ UNCHANGED snapshot
  /\ \/ d \notin ValidData /\ status' = "INVALID" /\ UNCHANGED map
     \/ d \in ValidData /\ ~Has(id) /\ status' = "NOT_FOUND" /\ UNCHANGED map
     \/ d \in ValidData /\ Has(id) /\ status' = "OK" /\ map' = [map EXCEPT ![id] = d]

Delete(id) ==
  /\ UNCHANGED snapshot
  /\ \/ ~Has(id) /\ status' = "NOT_FOUND" /\ UNCHANGED map
     \/ Has(id) /\ status' = "OK" /\ map' = [k \in DOMAIN map \ {id} |-> map[k]]

Maintain == status' = "OK" /\ UNCHANGED <<map, snapshot>>   \* compact, rebuildIndex
Save == snapshot' = map /\ status' = "OK" /\ UNCHANGED map
Load == map' = snapshot /\ status' = "OK" /\ UNCHANGED snapshot

(* A load into a table in use ends the promises about it; a load of the     *)
(* snapshot into a new one brings them back.                                *)
Garble == map' = Garbled /\ UNCHANGED snapshot
Garbling == map = Garbled /\ UNCHANGED <<map, snapshot>>

Kept == \/ \E id \in Ids, d \in Data : Insert(id, d) \/ Update(id, d)
        \/ \E id \in Ids : Delete(id)
        \/ Maintain \/ Save

Next == Load \/ Garble \/ Garbling \/ (map # Garbled /\ Kept)

Spec == Init /\ [][Next]_vars
=============================================================================
