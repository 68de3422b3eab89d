------------------------------ MODULE LegacyStream ------------------------------
(***************************************************************************)
(* runs:stream without the delivery service (app/api/main.py): the run is  *)
(* executed inside the response that streams it, by whichever request of   *)
(* its idempotency key finds it queued.  Two backends: Postgres            *)
(* (_stream_postgres_run, PostgresRuntime) and the process's own memory    *)
(* (stream_run, DemoRuntime).                                              *)
(*                                                                         *)
(* A step goes from one yield or commit to the next.  A client that goes   *)
(* away is noticed at a yield: what runs then is not resumed.              *)
(***************************************************************************)
EXTENDS Naturals, Sequences, FiniteSets, SequencesExt

CONSTANTS Request,  \* HTTP requests, each sent once
          Key,      \* idempotency keys
          Cap,      \* DEMO_MONTHLY_RUN_CAP
          Fault,    \* what may go wrong: a subset of Faults
          None

Faults == {"disconnect", "kill", "storage"}

VARIABLES
  backend,  \* "postgres" or "demo", for the life of the deployment
  runs,  \* run_records, or DemoRuntime.runs: per key, None before the first request
  used,  \* usage_counters.run_count of the month
  pc,    \* per request: where its generator is
  key,   \* per request: its idempotency key
  sent   \* per request: the events of its stream

vars == <<backend, runs, used, pc, key, sent>>

Settled == {"completed", "failed"}

\* executed counts runtime.execute; learned says that _persist_learning has committed.
RunRow == [status : {"queued", "running"} \cup Settled, executed : Nat, learned : BOOLEAN]
NewRun == [status |-> "queued", executed |-> 0, learned |-> FALSE]

StreamAssumption ==
  /\ IsFiniteSet(Key) /\ Cap \in Nat /\ Fault \subseteq Faults
  /\ None \notin Key \cup RunRow

\* A commit of Postgres may fail, the demo's memory does not.
CommitFails == "storage" \in Fault /\ backend = "postgres"

Run(r) == runs[key[r]]

Goto(r, where) == pc' = [pc EXCEPT ![r] = where]

Yield(r, events) == sent' = [sent EXCEPT ![r] = @ \o events]

-----------------------------------------------------------------------------
(* A request *)

\* create_or_get_run, whatever the query of an existing run was; then the meta event.
Post(r, k) ==
  /\ pc[r] = "idle"
  /\ runs' = [runs EXCEPT ![k] = IF @ = None THEN NewRun ELSE @]
  /\ key' = [key EXCEPT ![r] = k]
  /\ Yield(r, <<"meta">>)
  /\ Goto(r, "claim")
  /\ UNCHANGED used

\* A run that did not end is taken up again.
ClaimUnfinished(r) ==
  /\ pc[r] = "claim"
  /\ IF Run(r).status \notin Settled
     THEN /\ runs' = [runs EXCEPT ![key[r]].status = "running"]
          /\ Yield(r, <<"node_started">>)
          /\ Goto(r, "started")
     ELSE /\ Goto(r, "replay")
          /\ UNCHANGED <<runs, sent>>
  /\ UNCHANGED <<used, key>>

\* claim_queued_run: one request finds the run queued.
Claim(r) ==
  /\ pc[r] = "claim"
  /\ IF Run(r).status = "queued"
     THEN /\ runs' = [runs EXCEPT ![key[r]].status = "running"]
          /\ Yield(r, <<"node_started">>)
          /\ Goto(r, "started")
     ELSE /\ Goto(r, "replay")
          /\ UNCHANGED <<runs, sent>>
  /\ UNCHANGED <<used, key>>

Existing == {k \in Key : runs[k] # None}

\* The last run under the cap is one too many.
WithinCapInclusive ==
  IF backend = "postgres" THEN used <= Cap ELSE Cardinality(Existing) <= Cap + 1

\* claim_monthly_run counts runs that were started, the demo those that exist.
WithinCap ==
  IF backend = "postgres" THEN used < Cap ELSE Cardinality(Existing) <= Cap

Quota(r) ==
  /\ pc[r] = "started"
  /\ IF WithinCap
     THEN /\ used' = IF backend = "postgres" THEN used + 1 ELSE used
          /\ Goto(r, "execute")
     ELSE Goto(r, "fail") /\ UNCHANGED used
  /\ UNCHANGED <<runs, key, sent>>

\* The learning of the run is left to a later transaction.
ExecuteUnlearned(r) ==
  /\ pc[r] = "execute"
  /\ runs' = [runs EXCEPT ![key[r]].executed = @ + 1]
  /\ Goto(r, "finish")
  /\ UNCHANGED <<used, key, sent>>

\* The graph, then _persist_learning in a transaction of its own.
Execute(r) ==
  /\ pc[r] = "execute"
  /\ \E ok \in BOOLEAN :
       /\ runs' = [runs EXCEPT ![key[r]].executed = @ + 1,
                               ![key[r]].learned = ok /\ backend = "postgres"]
       /\ Goto(r, IF ok THEN "finish" ELSE "fail")
  /\ UNCHANGED <<used, key, sent>>

\* finish_run, then the three events of a success.
Finish(r) ==
  /\ pc[r] = "finish"
  /\ \/ /\ runs' = [runs EXCEPT ![key[r]].status = "completed"]
        /\ Yield(r, <<"node_completed", "evidence", "final">>)
        /\ Goto(r, "done")
     \/ /\ CommitFails
        /\ Goto(r, "fail")
        /\ UNCHANGED <<runs, sent>>
  /\ UNCHANGED <<used, key>>

\* The error is told and not written.
FailUnwritten(r) ==
  /\ pc[r] = "fail"
  /\ Yield(r, <<"error">>)
  /\ Goto(r, "done")
  /\ UNCHANGED <<runs, used, key>>

\* A refused run, or the handler of whatever was raised; a second error ends the stream.
Fail(r) ==
  /\ pc[r] = "fail"
  /\ \/ /\ runs' = [runs EXCEPT ![key[r]].status = "failed"]
        /\ Yield(r, <<"error">>)
        /\ Goto(r, "done")
     \/ /\ CommitFails
        /\ Goto(r, "gone")
        /\ UNCHANGED <<runs, sent>>
  /\ UNCHANGED <<used, key>>

\* Whoever did not fail is answered.
ReplayUnlessFailed(r) ==
  /\ pc[r] = "replay"
  /\ Yield(r, <<IF Run(r).status = "failed" THEN "error" ELSE "final">>)
  /\ Goto(r, "done")
  /\ UNCHANGED <<runs, used, key>>

\* Another request's run: its end, if it has one.
Replay(r) ==
  /\ pc[r] = "replay"
  /\ Yield(r, CASE Run(r).status = "completed" -> <<"final">>
                [] Run(r).status = "failed" -> <<"error">>
                [] OTHER -> <<>>)
  /\ Goto(r, "done")
  /\ UNCHANGED <<runs, used, key>>

\* The row is read once more.
DoneEvent == [queued |-> "done:queued", running |-> "done:running",
              completed |-> "done:completed", failed |-> "done:failed"]

Done(r) ==
  /\ pc[r] = "done"
  /\ Yield(r, <<DoneEvent[Run(r).status]>>)
  /\ Goto(r, "gone")
  /\ UNCHANGED <<runs, used, key>>

\* The generator is not resumed from the yield it stands at.
Disconnect(r) ==
  /\ "disconnect" \in Fault
  /\ pc[r] \in {"claim", "started", "done"}
  /\ Goto(r, "gone")
  /\ UNCHANGED <<runs, used, key, sent>>

\* The demo forgets its runs; Postgres keeps its rows, and nobody looks after them.
Kill ==
  /\ "kill" \in Fault /\ \E r \in Request : pc[r] \notin {"idle", "gone"}
  /\ pc' = [r \in Request |-> IF pc[r] = "idle" THEN "idle" ELSE "gone"]
  /\ runs' = IF backend = "demo" THEN [k \in Key |-> None] ELSE runs
  /\ sent' = IF backend = "demo" THEN [r \in Request |-> <<>>] ELSE sent
  /\ UNCHANGED <<used, key>>

Init ==
  /\ backend \in {"postgres", "demo"}
  /\ runs = [k \in Key |-> None] /\ used = 0
  /\ pc = [r \in Request |-> "idle"] /\ key = [r \in Request |-> None]
  /\ sent = [r \in Request |-> <<>>]

Respond(r) ==
  /\ UNCHANGED backend
  /\ \/ Claim(r) \/ Quota(r) \/ Execute(r) \/ Finish(r) \/ Fail(r) \/ Replay(r) \/ Done(r)

Next ==
  /\ UNCHANGED backend
  /\ \/ \E r \in Request : (\E k \in Key : Post(r, k)) \/ Respond(r) \/ Disconnect(r)
     \/ Kill

Spec == Init /\ [][Next]_vars

\* A response that is read goes on.
FairSpec == Spec /\ \A r \in Request : WF_vars(Respond(r))

-----------------------------------------------------------------------------
(* Properties *)

Sent(r, event) == \E i \in DOMAIN sent[r] : sent[r][i] = event

TypeOK ==
  /\ backend \in {"postgres", "demo"}
  /\ runs \in [Key -> RunRow \cup {None}]
  /\ used \in 0 .. Cap
  /\ pc \in [Request -> {"idle", "claim", "started", "execute", "finish", "fail",
                         "replay", "done", "gone"}]
  /\ key \in [Request -> Key \cup {None}]
  /\ \A r \in Request : Len(sent[r]) <= 6

(* However many requests carry a key, and whatever becomes of them, the agent runs once
   for it (docs/v2_t09_summary.md:11, the atomic claim). *)
OneExecution == \A k \in Existing : runs[k].executed <= 1

(* The agent is never run for more requests than the month's cap allows. *)
CapHolds == Cardinality({k \in Existing : runs[k].executed > 0}) <= Cap

(* What a client was told of a run is what its row says from then on: a final answer of a
   completed run, an error of a failed one (finish_run has no condition of its own). *)
AnswersAreTrue ==
  \A r \in Request :
    /\ Sent(r, "final") => Run(r).status = "completed"
    /\ Sent(r, "error") => Run(r).status = "failed"

(* With Postgres, _persist_learning commits before the final event of the run, whoever is
   sent it. *)
LearningBeforeFinal ==
  backend = "postgres" => \A r \in Request : Sent(r, "final") => Run(r).learned
=============================================================================
