------------------------------- MODULE SlotFile -------------------------------
(***************************************************************************)
(* Common/FileIO.h, writeSlot and readSlot: files seen as arrays of        *)
(* fixed-size slots, overwritten in place.  A slot is named by its file    *)
(* and index; what it holds is the payload last written, nothing, or the   *)
(* mixture a cut write leaves.  writeSlot closes the descriptor without an *)
(* fsync, so stable storage follows in its own time.                       *)
(***************************************************************************)
EXTENDS Naturals

CONSTANTS Slots,        \* the (file, index) pairs in use
          PageContents, \* the payloads written
          Oversized,    \* those that do not fit slotSize with the length prefix
          Empty,        \* never written: length prefix 0, or past end of file
          Torn          \* part old, part new: the payload does not parse

ASSUME SlotAssumption ==
  /\ Oversized \subseteq PageContents
  /\ Empty \notin PageContents /\ Torn \notin PageContents

VARIABLES slots,        \* what a read of each slot finds
          stable        \* what stable storage holds in it

slotVars == <<slots, stable>>

Written == PageContents \ Oversized
SlotValues == Written \cup {Empty, Torn}

SlotTypeOK == slots \in [Slots -> SlotValues] /\ stable \in [Slots -> SlotValues]

SlotInit == slots = [k \in Slots |-> Empty] /\ stable = [k \in Slots |-> Empty]

Fits(c) == c \notin Oversized

(* The write loop reaches the end of the slot.                              *)
WriteSlot(k, c) == /\ Fits(c)
                   /\ slots' = [slots EXCEPT ![k] = c]
                   /\ UNCHANGED stable

(* open() fails, or pwrite does after none, some or all of the payload.     *)
WriteSlotError(k, c) == /\ Fits(c)
                        /\ \E v \in {slots[k], Torn, c} : slots' = [slots EXCEPT ![k] = v]
                        /\ UNCHANGED stable

SlotStatus(k) == CASE slots[k] = Empty -> "NOT_FOUND"
                   [] slots[k] = Torn  -> "PARSE_ERROR"
                   [] OTHER            -> "OK"

(* The kernel writes a slot back on its own, at once or in pieces.          *)
Writeback(k) == /\ stable[k] # slots[k]
                /\ \E v \in {slots[k], Torn} : stable' = [stable EXCEPT ![k] = v]
                /\ UNCHANGED slots

PowerCut == slots' = stable /\ UNCHANGED stable
=============================================================================
