----------------------------- MODULE DurableLog -----------------------------
(***************************************************************************)
(* What the write-ahead log promises its caller, without a file: a         *)
(* sequence of entries that an append extends, a truncation cuts, and a    *)
(* restart may only extend.  The entries up to confirmed survive a stop;   *)
(* the ones past it (left behind by an append that reported a failure)     *)
(* may or may not come back, and none of them before a confirmed one.      *)
(* The one exception is an entry too large to be read back at once: a      *)
(* restart may lose it and all that follow it.                             *)
(***************************************************************************)
EXTENDS Naturals, Sequences

CONSTANTS Terms, Payloads,
          ShortReads   \* the payloads that may be read in part

VARIABLES log, confirmed, up
vars == <<log, confirmed, up>>

Entry == [index : Nat \ {0}, term : Terms, payload : Payloads]
Upto(s, n) == SubSeq(s, 1, n)
Extends(s, t) == Len(t) <= Len(s) /\ Upto(s, Len(t)) = t

Init == log = <<>> /\ confirmed = 0 /\ up = FALSE

AppendEntry ==
  /\ up /\ up'
  /\ Len(log') = Len(log) + 1
  /\ Extends(log', log)
  /\ log'[Len(log')].index = Len(log')
  /\ confirmed' = Len(log')

Truncate ==
  /\ up /\ up'
  /\ \E n \in 0 .. Len(log) :
       /\ log' = Upto(log, n)
       /\ confirmed' = IF n < confirmed THEN n ELSE confirmed

Stop ==
  /\ up /\ ~up'
  /\ log' = Upto(log, confirmed)
  /\ UNCHANGED confirmed

Recover ==
  /\ ~up /\ up'
  /\ Extends(log', log)
  /\ \A i \in 1 .. Len(log') : log'[i] \in Entry /\ log'[i].index = i
  /\ UNCHANGED confirmed

RecoverShort ==
  /\ ~up /\ up'
  /\ \E n \in 0 .. Len(log) - 1 :
       /\ log[n + 1].payload \in ShortReads
       /\ log' = Upto(log, n)
       /\ confirmed' = n

Next == AppendEntry \/ Truncate \/ Stop \/ Recover \/ RecoverShort

Spec == Init /\ [][Next]_vars
=============================================================================
