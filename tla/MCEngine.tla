------------------------------ MODULE MCEngine ------------------------------
(***************************************************************************)
(* The parts of MiniDB::Engine above the storage: transfers of records,    *)
(* parallel calls, queries.  They share no state but the tables, of which  *)
(* each has its own here, so a behaviour of the whole goes on in one part. *)
(***************************************************************************)
EXTENDS MCSerializer, Concurrency, MCQueryEngine

VARIABLE part

engineVars == <<part, transferVars, poolVars, queryVars>>

EngineInit ==
  /\ part \in {"transfer", "pool", "query"}
  /\ TransferInit /\ PoolInit /\ QueryInit
  /\ part # "pool" => op = CHOOSE o \in Operations : TRUE
  /\ part # "query" => schema = CHOOSE s \in Schemas : TRUE

EngineNext ==
  \/ part = "transfer" /\ TransferNext /\ UNCHANGED <<part, poolVars, queryVars>>
  \/ part = "pool" /\ PoolNext /\ UNCHANGED <<part, transferVars, queryVars>>
  \/ part = "query" /\ QueryNext /\ UNCHANGED <<part, transferVars, poolVars>>

EngineSpec == /\ EngineInit /\ [][EngineNext]_engineVars
              /\ WF_transferVars(Import) /\ PoolFairness /\ WF_queryVars(Scan)
=============================================================================
