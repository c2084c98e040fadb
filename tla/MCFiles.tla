------------------------------- MODULE MCFiles -------------------------------
(***************************************************************************)
(* The two ways in which Common/FileIO.h keeps data: files replaced as a   *)
(* whole, and the slot files under the page cache of StorageEngine.  They  *)
(* share no state, so a behaviour goes on in one of them.                  *)
(***************************************************************************)
EXTENDS MCAtomicFile, StorageEngine

VARIABLE part

filesVars == <<part, vars, cacheVars>>

FilesInit == part \in {"whole", "slots"} /\ Init /\ CacheInit

FilesNext == \/ part = "whole" /\ Next /\ UNCHANGED <<part, cacheVars>>
             \/ part = "slots" /\ CacheNext /\ UNCHANGED <<part, vars>>

FilesSpec == FilesInit /\ [][FilesNext]_filesVars
=============================================================================
