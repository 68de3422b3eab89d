------------------------------ MODULE MCDelivery ------------------------------
(* The delivery service and its parts for TLC, as scenarios of one run: the *)
(* executor by itself, the ledger by itself, the composition with two runs, *)
(* and the composition over crashes and restarts.  A scenario is an         *)
(* instance of its module with constants of its own; it is chosen by the    *)
(* initial state, and what it does not use stays parked.                    *)
EXTENDS DeliveryService, TLC

CONSTANTS
  PlainJob, PlainNote,              \* of the executor by itself
  LedgerRun, LedgerCall,            \* of the ledger by itself
  LaterOwner, LaterRun, LaterKey    \* of the service over restarts

VARIABLE scenario

Executor == INSTANCE SpawnExecutor WITH
  Job <- PlainJob, Note <- PlainNote, Fault <- {"death", "spawn", "event", "result"},
  MaxWorkers <- 3
Costs == INSTANCE DeliveryBudget WITH
  Run <- LedgerRun, Call <- LedgerCall, Amount <- {0, 1, 3}, Historical <- 1, Limit <- 6
Restarts == INSTANCE DeliveryService WITH
  Owner <- LaterOwner, Run <- LaterRun, Key <- LaterKey, Amount <- {1, 2, 3}, Limit <- 2,
  Fault <- {"death", "database", "crash", "close"}

ASSUME PartsAssumption ==
  /\ Executor!ExecutorAssumption /\ Executor!NullAssumption
  /\ Costs!BudgetAssumption
  /\ Restarts!ServiceAssumption

MCInit ==
  \/ scenario = "service" /\ Init
  \/ scenario = "restarts" /\ Restarts!Init
  \/ scenario = "executor" /\ Executor!Init /\ Repo!Init /\ Ledger!Init /\ HereInit
  \/ scenario = "ledger" /\ Costs!Init /\ Repo!Init /\ Exec!Init /\ HereInit

MCNext ==
  /\ UNCHANGED scenario
  /\ \/ scenario = "service" /\ Next
     \/ scenario = "restarts" /\ Restarts!Next
     \/ scenario = "executor" /\ Executor!Next /\ UNCHANGED <<repo, calls, here>>
     \/ scenario = "ledger" /\ Costs!Next /\ UNCHANGED <<repo, exec, here>>

MCSpec == MCInit /\ [][MCNext]_<<vars, scenario>>

\* The processes, runs, calls, jobs and keys of a scenario are interchangeable.
\* A permutation of the ones goes with a permutation of the others, for no state
\* holds those of two scenarios: this keeps the group small.
Swaps(S) == {x[1] :> x[2] @@ x[2] :> x[1] : x \in {y \in S \X S : y[1] # y[2]}}

Interchangeable ==
  {p @@ q @@ j @@ l : p \in Swaps(Run), q \in Swaps(LaterOwner), j \in Swaps(PlainJob),
                      l \in Swaps(LedgerRun)}
    \cup {p @@ q @@ c : p \in Swaps(Key), q \in Swaps(LaterKey), c \in Swaps(LedgerCall)}

Holds(s, P) == scenario = s => P

-----------------------------------------------------------------------------
(* The properties, in every scenario they are about                        *)

\* Type invariants of the executor, the ledger and the service.
TypesOK ==
  /\ Holds("executor", Executor!TypeOK)
  /\ Holds("ledger", Costs!TypeOK)
  /\ Holds("service", TypeOK /\ Exec!TypeOK /\ Ledger!TypeOK)
  /\ Holds("restarts", Restarts!TypeOK)

\* The slot, its worker and the threads' views of them agree: a failure is
\* the failing job's own, no frame of one job reaches another's worker, and a
\* full slot has a worker whose deadline is watched (executor.py).
SlotIsServed ==
  /\ Holds("executor", Executor!CausesAreReal /\ Executor!WorkerServesTheSlot
                         /\ Executor!SlotIsWatched)
  /\ Holds("service", Exec!WorkerServesTheSlot /\ Exec!SlotIsWatched)

\* An accepted run is in the hands of someone who ends it, it is reported as
\* timed out only if a deadline passed, and no worker computes for it once it
\* has ended (delivery_service.py).
RunIsHandled ==
  Holds("service", LiveRunIsHandled /\ TimeoutsAreReal /\ NobodyWorksForEndedRuns)

\* Over crashes and restarts too, a model is called only after its input was
\* stored as an event and its cost was reserved, what the provider billed is in
\* the ledger, and the ledger passes its hard stop by no more than what was
\* billed beyond the reservations (on_event, client.py, delivery_budget.py).
CallsAreAccounted ==
  /\ Holds("service", CallsArePaidFor /\ CallsAreAudited /\ Ledger!HardStop)
  /\ Holds("restarts", /\ Restarts!CallsArePaidFor /\ Restarts!CallsAreAudited
                        /\ Restarts!Ledger!HardStop)
  /\ Holds("ledger", Costs!HardStop)

\* Nothing that happens later changes a settled cost: no late usage report, no
\* repeated failure, no restart (complete, fail_run, recover).
CostsAreSettledOnce ==
  [][/\ Holds("ledger", \A x \in LedgerRun \X LedgerCall : Costs!Keeps(x))
     /\ Holds("restarts", \A x \in LaterRun \X Call : Restarts!Ledger!Keeps(x))]_calls
=============================================================================
