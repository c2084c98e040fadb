---------------------------- MODULE AtomicRegister ----------------------------
(***************************************************************************)
(* What writeFileAtomic promises of a path: it names nothing or the whole  *)
(* of one content; a save that reports OK replaces it by what was asked,   *)
(* one that fails or is cut short leaves it; and a power loss goes back to *)
(* a content that was there before, never to anything else.                *)
(***************************************************************************)
CONSTANTS Contents, Nothing

VARIABLES value,     \* what the path names
          stable,    \* what it would name after a power loss
          asked,     \* the content of the save that goes on
          outcome    \* of the save that returned last
vars == <<value, stable, asked, outcome>>

Init == value = Nothing /\ stable = Nothing /\ asked = Nothing /\ outcome = "none"

Begin(c) == /\ asked = Nothing
            /\ asked' = c /\ outcome' = "none"
            /\ UNCHANGED <<value, stable>>

Save == /\ asked # Nothing
        /\ value' = asked /\ asked' = Nothing /\ outcome' = "OK"
        /\ UNCHANGED stable

Fail(o) == /\ asked' = Nothing /\ outcome' = o
           /\ UNCHANGED <<value, stable>>

Settle == stable' = value /\ UNCHANGED <<value, asked, outcome>>

PowerLoss == /\ value' = stable
             /\ asked' = Nothing /\ outcome' = "none"
             /\ UNCHANGED stable

Next == \/ (\E c \in Contents : Begin(c)) \/ Save
        \/ (\E o \in {"IO_ERROR", "throws", "none"} : Fail(o))
        \/ Settle \/ PowerLoss

Spec == Init /\ [][Next]_vars
=============================================================================
