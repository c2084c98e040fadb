----------------------------- MODULE Concurrency -----------------------------
(***************************************************************************)
(* MiniDB::Engine::Concurrency: runParallel(), which hands one task per    *)
(* table to a pool of worker threads and collects their futures, for the   *)
(* four calls built on it.  The pool is a FIFO queue and its workers; a    *)
(* task takes a table and a file from when a worker starts it to when it   *)
(* finishes.  A table is its position in Database::getTables().            *)
(***************************************************************************)
EXTENDS Naturals, Sequences

CONSTANTS NumTables,   \* Database::tableCount()
          Workers,     \* the threads of the pool
          Operations,  \* save, load, rebuild, export
          Verdicts,    \* the Status values a task may return
          Infallible,  \* operations whose tasks only return OK
          MaxCalls,    \* bound: calls in a behaviour
          Pending,     \* a future that is not ready
          Throws,      \* a task, or a call, that ends with an exception
          Idle         \* a worker without a task

ASSUME ConcurrencyAssumption ==
  /\ NumTables \in Nat /\ MaxCalls \in Nat
  /\ "OK" \in Verdicts /\ Throws \notin Verdicts /\ Pending \notin Verdicts \cup {Throws}
  /\ Infallible \subseteq Operations

VARIABLES
  pc,       \* where the caller is: idle, enqueue or collect
  op,       \* the operation of the last call
  calls,    \* how many calls there were
  pos,      \* the table the caller's loop is at
  queue,    \* the tasks no worker has started
  running,  \* Workers -> the task it runs
  futures,  \* the futures of the last call
  final,    \* finalStatus
  outcome,  \* what the last call returned
  threw     \* history: some call ended with an exception

poolVars == <<pc, op, calls, pos, queue, running, futures, final, outcome, threw>>

Positions == 1 .. NumTables
Task == [call : Nat, op : Operations, table : Positions]

PoolInit == /\ pc = "idle" /\ op \in Operations /\ calls = 0 /\ pos = 1
            /\ queue = <<>> /\ running = [w \in Workers |-> Idle]
            /\ futures = [t \in Positions |-> "OK"]
            /\ final = "OK" /\ outcome = "OK" /\ threw = FALSE

-----------------------------------------------------------------------------
(* The caller: one of the four calls, then the two loops of runParallel().  *)

Call(o) ==
  /\ pc = "idle" /\ calls < MaxCalls
  /\ pc' = "enqueue" /\ op' = o /\ calls' = calls + 1 /\ pos' = 1
  /\ futures' = [t \in Positions |-> Pending]
  /\ UNCHANGED <<queue, running, final, outcome, threw>>

Enqueue ==
  /\ pc = "enqueue" /\ pos \in Positions
  /\ queue' = Append(queue, [call |-> calls, op |-> op, table |-> pos])
  /\ pos' = pos + 1
  /\ UNCHANGED <<pc, op, calls, running, futures, final, outcome, threw>>

StartCollecting ==
  /\ pc = "enqueue" /\ pos \notin Positions
  /\ pc' = "collect" /\ pos' = 1 /\ final' = "OK"
  /\ UNCHANGED <<op, calls, queue, running, futures, outcome, threw>>

(* Mutant: the first failure wins.                                          *)
KeepFirst(s) == IF final = "OK" THEN s ELSE final

Fold(s) == IF s # "OK" THEN s ELSE final

(* Mutant: an exception is taken for one more Status.                       *)
CollectSwallows ==
  /\ pc = "collect" /\ pos \in Positions /\ futures[pos] # Pending
  /\ final' = Fold(futures[pos]) /\ pos' = pos + 1
  /\ UNCHANGED <<pc, op, calls, queue, running, futures, outcome, threw>>

(* f.get() waits for the task of this table.                                *)
Collect ==
  /\ pc = "collect" /\ pos \in Positions /\ futures[pos] \in Verdicts
  /\ final' = Fold(futures[pos]) /\ pos' = pos + 1
  /\ UNCHANGED <<pc, op, calls, queue, running, futures, outcome, threw>>

(* f.get() rethrows: runParallel() is left, its other futures destroyed.    *)
CollectThrows ==
  /\ pc = "collect" /\ pos \in Positions /\ futures[pos] = Throws
  /\ pc' = "idle" /\ outcome' = Throws /\ threw' = TRUE
  /\ UNCHANGED <<op, calls, pos, queue, running, futures, final>>

(* Mutant: the call returns at the first failure.                           *)
ReturnEarly ==
  /\ pc = "collect" /\ (pos \notin Positions \/ final # "OK")
  /\ pc' = "idle" /\ outcome' = final
  /\ UNCHANGED <<op, calls, pos, queue, running, futures, final, threw>>

Return ==
  /\ pc = "collect" /\ pos \notin Positions
  /\ pc' = "idle" /\ outcome' = final
  /\ UNCHANGED <<op, calls, pos, queue, running, futures, final, threw>>

-----------------------------------------------------------------------------
(* The workers of the pool.                                                *)

Start(w) ==
  /\ running[w] = Idle /\ queue # <<>>
  /\ running' = [running EXCEPT ![w] = Head(queue)] /\ queue' = Tail(queue)
  /\ UNCHANGED <<pc, op, calls, pos, futures, final, outcome, threw>>

(* What a task of operation o may end with: rebuildIndex() only succeeds;   *)
(* writing and reading files fails and throws.                              *)
Endings(o) == IF o \in Infallible THEN {"OK"} ELSE Verdicts \cup {Throws}

(* Mutant: a worker that catches an exception never readies the future.     *)
FinishSwallows(w) ==
  /\ running[w] # Idle
  /\ \E s \in Endings(running[w].op) :
       futures' = IF running[w].call = calls /\ s # Throws
                    THEN [futures EXCEPT ![running[w].table] = s] ELSE futures
  /\ running' = [running EXCEPT ![w] = Idle]
  /\ UNCHANGED <<pc, op, calls, pos, queue, final, outcome, threw>>

(* The result goes to the future, if it still exists.                       *)
Finish(w) ==
  /\ running[w] # Idle
  /\ \E s \in Endings(running[w].op) :
       futures' = IF running[w].call = calls
                    THEN [futures EXCEPT ![running[w].table] = s] ELSE futures
  /\ running' = [running EXCEPT ![w] = Idle]
  /\ UNCHANGED <<pc, op, calls, pos, queue, final, outcome, threw>>

-----------------------------------------------------------------------------
Caller == Enqueue \/ StartCollecting \/ Collect \/ CollectThrows \/ Return

PoolNext == \/ \E o \in Operations : Call(o)
            \/ Enqueue \/ StartCollecting \/ Collect \/ CollectThrows \/ Return
            \/ \E w \in Workers : Start(w) \/ Finish(w)

PoolSpec == PoolInit /\ [][PoolNext]_poolVars

(* A call under way goes on, and so does every thread of the pool that has  *)
(* something to do.  Whether another call comes is up to the program.       *)
PoolFairness == /\ WF_poolVars(Caller)
                /\ \A w \in Workers : WF_poolVars(Start(w)) /\ WF_poolVars(Finish(w))
PoolFairSpec == PoolSpec /\ PoolFairness

-----------------------------------------------------------------------------
PoolTypeOK ==
  /\ pc \in {"idle", "enqueue", "collect"} /\ op \in Operations
  /\ calls \in 0 .. MaxCalls /\ pos \in 1 .. NumTables + 1
  /\ queue \in Seq(Task) /\ running \in [Workers -> Task \cup {Idle}]
  /\ futures \in [Positions -> Verdicts \cup {Pending, Throws}]
  /\ final \in Verdicts /\ outcome \in Verdicts \cup {Throws}
  /\ threw \in BOOLEAN

Running == {running[w] : w \in {v \in Workers : running[v] # Idle}}
Queued == {queue[i] : i \in DOMAIN queue}

(* The barrier: when a call has returned a Status, each of its tasks has    *)
(* ended with one, and the Status is that of the last table in creation     *)
(* order that failed, whichever task ended last.  A call that ends with the *)
(* exception of a task waits for no other.                                  *)
Fan == INSTANCE FanOut WITH busy <- pc # "idle", verdicts <- futures
FanOutSpec == Fan!Spec

(* Two tasks never use one table, nor its file, at the same time, as long   *)
(* as no call ended with an exception.                                      *)
OneTaskPerTable ==
  ~threw => \A v, w \in Workers :
    running[v] # Idle /\ running[w] # Idle /\ running[v].table = running[w].table
      => v = w

(* Every call returns, and every task that was enqueued is run, also those  *)
(* of a call that has left them behind.                                     *)
CallsReturn ==
  /\ pc # "idle" ~> pc = "idle"
  /\ \A t \in Positions :
       (\E k \in Queued : k.table = t) ~> (\A k \in Queued \cup Running : k.table # t)

-----------------------------------------------------------------------------
(* Concurrency.h: a call "blocks until all of them complete"; its tasks     *)
(* "all still run to completion".                                          *)
CallWaitsForAll == pc = "idle" => queue = <<>> /\ Running = {}
=============================================================================
