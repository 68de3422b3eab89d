--------------------------- MODULE DeliveryService ---------------------------
(***************************************************************************)
(* The Android delivery service (app/api/delivery_service.py): one API     *)
(* process at a time runs the executor, answers requests and binds the     *)
(* executor's callbacks to the transactions of the repository and to the   *)
(* cost ledger.  The process may crash between any two steps and restart   *)
(* under a new owner; its tables and its ledger survive, its threads, its  *)
(* locks and its pipes do not.                                             *)
(*                                                                         *)
(* Repo, Exec and Ledger are the component modules; a step here is one     *)
(* thread's step, made of the components' own actions.                     *)
(***************************************************************************)
EXTENDS Naturals, Sequences, FiniteSets

CONSTANTS
  Owner, Run, Key, Thread, Query, Cap, MaxProgress,  \* as in the repository
  Call, Amount, Limit,                               \* as in the ledger
  MaxWorkers,                                        \* as in the executor
  Fault,   \* what may go wrong: a subset of Faults
  None

Faults ==
  {"death",     \* a worker dies
   "agent",     \* the agent raises
   "thread",    \* a dispatch thread does not start
   "database",  \* a transaction of a callback fails
   "crash",     \* the API process dies
   "close"}     \* the API process is shut down

\* What create_run holds while it serves a request (under service.lock).
Admission == [key : Key, thread : Thread, query : Query, run : Run \cup {None},
              stage : {"checked", "admitted", "failing", "settling"}]

VARIABLES
  threads, runs, lapsed, log, receipts, usage, month, started, txn, answers,
  calls,
  life, spawned, conn, ready, job, due, worker, wire, cmd, senders, monitor,
  watch, rec, told, died,
  owner,     \* the running incarnation (DeliveryService.owner), None when down
  boot,      \* start: how far it is
  request,   \* create_run under service.lock: the request being served
  callback,  \* on_event or on_result: how far the monitor is in it
  notice,    \* on_failure: how far the recycling thread is in it
  error,     \* run -> code of result_json.error, None before
  orphan,    \* the worker a dead process has left behind
  billed     \* run, call -> what the provider has charged, None before

repo == <<threads, runs, lapsed, log, receipts, usage, month, started, txn, answers>>
exec == <<life, spawned, conn, ready, job, due, worker, wire, cmd, senders,
          monitor, watch, rec, told, died>>
here == <<owner, boot, request, callback, notice, error, orphan, billed>>
vars == <<repo, calls, exec, here>>

\* Worker events: a step of the graph, the input of a model call (with what
\* it will be reserved for), the outcome of one (with its usage if known).
Note == [type : {"node"}, call : {None}, amount : {None}]
          \cup [type : {"before_llm"}, call : Call, amount : Amount]
          \cup [type : {"after_llm"}, call : Call, amount : Amount \cup {None}]

Repo == INSTANCE DeliveryRepository WITH
  Score <- {}, LegacyThread <- Thread, LegacyRun <- {}, Months <- 1
Ledger == INSTANCE DeliveryBudget WITH Historical <- 0
Exec == INSTANCE SpawnExecutor WITH Job <- Run, Fault <- Fault \cap {"death"}

ASSUME ServiceAssumption ==
  /\ Fault \subseteq Faults /\ None \notin Admission
  /\ Repo!RepositoryAssumption /\ Repo!NullAssumption
  /\ Ledger!BudgetAssumption
  /\ Exec!ExecutorAssumption /\ Exec!NullAssumption

HereInit ==
  /\ owner = None /\ boot = "down" /\ request = None
  /\ callback = "none" /\ notice = "none"
  /\ error = [r \in Run |-> None]
  /\ orphan = Exec!NoWorker
  /\ billed = [x \in Run \X Call |-> None]

Init == Repo!Init /\ Ledger!Init /\ Exec!Init /\ HereInit

Serving == boot = "up"

\* complete finds a row to settle, and saves.
Settles(r, c) == calls[r, c] # None /\ calls[r, c].status = "reserved"

\* The first half of on_failure, finish(error): a run that is no longer the
\* caller's or has ended is left alone.
Fail(r, code) ==
  \/ Repo!FinishError(owner, r) /\ error' = [error EXCEPT ![r] = code]
  \/ Repo!LockFree /\ ~Repo!OwnedBy(owner, r) /\ UNCHANGED <<repo, error>>

-----------------------------------------------------------------------------
(* start: the ledger and the rows of before are settled, then the worker   *)
(* is spawned.                                                             *)

BootLedger(o) ==
  /\ owner = None /\ o \notin started
  /\ owner' = o /\ boot' = "ledger"
  /\ Ledger!Recover
  /\ UNCHANGED <<repo, exec, request, callback, notice, error, orphan, billed>>

BootRows ==
  /\ boot = "ledger"
  /\ Repo!Recover(owner)
  /\ error' = [r \in Run |-> IF r \in Repo!Interrupted(owner) THEN "server_restarted" ELSE error[r]]
  /\ boot' = "rows"
  /\ UNCHANGED <<calls, exec, owner, request, callback, notice, orphan, billed>>

BootExecutor ==
  /\ boot = "rows"
  /\ Exec!Start
  /\ boot' = "up"
  /\ UNCHANGED <<repo, calls, owner, request, callback, notice, error, orphan, billed>>

\* The process is gone: what it held in memory is lost, its worker lives on
\* until it notices, its open transaction until the database does.
Stop ==
  /\ owner # None /\ Owner \ (started \cup {owner}) # {}
  /\ owner' = None /\ boot' = "down" /\ request' = None
  /\ callback' = "none" /\ notice' = "none"
  /\ life' = "down" /\ conn' = None /\ ready' = FALSE /\ job' = None
  /\ worker' = Exec!NoWorker /\ wire' = None /\ cmd' = None
  /\ senders' = {} /\ monitor' = None /\ watch' = None /\ rec' = None
  /\ orphan' = worker
  /\ UNCHANGED <<repo, calls, spawned, due, told, died, error, billed>>

Crash == "crash" \in Fault /\ life # "closed" /\ Stop

\* close returns when its own recycling has; another thread's is not awaited.
Exit == life = "closed" /\ (rec # None => rec.restart) /\ Stop

\* What a dead process has left open ends by itself: its commit had been sent
\* or not.
LeftTransaction ==
  /\ txn # None /\ txn.owner # owner
  /\ Repo!CommitResult \/ Repo!RollBack
  /\ UNCHANGED <<calls, exec, here>>

-----------------------------------------------------------------------------
(* create_run: one request at a time, under service.lock                   *)

ReplayRun(k, t, q) ==
  /\ Serving /\ request = None
  /\ Repo!LookupRun(k, t, q)
  /\ UNCHANGED <<calls, exec, here>>

\* The key is new, the worker ready and the slot of the executor free.
CheckRun(k, t, q) ==
  /\ Serving /\ request = None
  /\ threads[t] # None /\ Repo!Unbound(k, "create_run")
  /\ \A r \in Run : runs[r].key # k
  /\ Exec!Ready /\ job = None
  /\ request' = [key |-> k, thread |-> t, query |-> q, run |-> None, stage |-> "checked"]
  /\ UNCHANGED <<repo, calls, exec, owner, boot, callback, notice, error, orphan, billed>>

\* The context cannot be read, or the repository refuses the run.
RefuseRun ==
  /\ request # None /\ request.stage = "checked"
  /\ request' = None
  /\ UNCHANGED <<repo, calls, exec, owner, boot, callback, notice, error, orphan, billed>>

AdmitRun ==
  /\ request # None /\ request.stage = "checked"
  /\ Repo!AdmitRun(owner, request.key, request.thread, request.query)
  /\ \E r \in Run : /\ runs'[r] # runs[r]
                    /\ request' = [request EXCEPT !.run = r, !.stage = "admitted"]
  /\ UNCHANGED <<calls, exec, owner, boot, callback, notice, error, orphan, billed>>

Submittable(r) == Exec!Submittable(r) /\ lapsed[r] = 0

SubmitRun ==
  /\ request # None /\ request.stage = "admitted"
  /\ Submittable(request.run)
  /\ Exec!Submit(request.run)
  /\ request' = None
  /\ UNCHANGED <<repo, calls, owner, boot, callback, notice, error, orphan, billed>>

\* Bug: the exception of submit is passed to the client.
SubmitRaises ==
  /\ request # None /\ request.stage = "admitted"
  /\ ~Submittable(request.run) \/ "thread" \in Fault
  /\ request' = None
  /\ UNCHANGED <<repo, calls, exec, owner, boot, callback, notice, error, orphan, billed>>

\* submit raises: busy, unavailable, deadline elapsed, or no thread.
SubmitFails ==
  /\ request # None /\ request.stage = "admitted"
  /\ ~Submittable(request.run) \/ "thread" \in Fault
  /\ request' = [request EXCEPT !.stage = "failing"]
  /\ UNCHANGED <<repo, calls, exec, owner, boot, callback, notice, error, orphan, billed>>

FailRequest ==
  /\ request # None /\ request.stage = "failing"
  /\ Fail(request.run, "dispatch_failed")
  /\ request' = [request EXCEPT !.stage = "settling"]
  /\ UNCHANGED <<calls, exec, owner, boot, callback, notice, orphan, billed>>

\* on_failure raises in its turn, the client is answered 500.
FailRequestFails ==
  /\ "database" \in Fault
  /\ request # None /\ request.stage = "failing"
  /\ request' = None
  /\ UNCHANGED <<repo, calls, exec, owner, boot, callback, notice, error, orphan, billed>>

SettleRequest ==
  /\ request # None /\ request.stage = "settling"
  /\ Ledger!FailRun(request.run)
  /\ request' = None
  /\ UNCHANGED <<repo, exec, owner, boot, callback, notice, error, orphan, billed>>

-----------------------------------------------------------------------------
(* on_event, in the monitor thread: first the audit event, then the ledger *)

Fails == "database" \in Fault

Handling(stage) == monitor # None /\ monitor.stage = stage

RecordEvent ==
  /\ Handling("event") /\ callback = "none"
  /\ IF monitor.note.type = "node"
     THEN /\ Repo!RecordEvent(owner, monitor.job, "progress")
          /\ Exec!EventAccepted
          /\ UNCHANGED callback
     ELSE /\ Repo!RecordEvent(owner, monitor.job, "audit")
          /\ callback' = "recorded"
          /\ UNCHANGED exec
  /\ UNCHANGED <<calls, owner, boot, request, notice, error, orphan, billed>>

\* record_event returns None, or the database fails: event_rejected, which
\* on_failure stores as agent_failure.
RejectEvent ==
  /\ Handling("event") /\ callback = "none"
  /\ (Repo!LockFree /\ ~Repo!Owned(owner, monitor.job)) \/ Fails
  /\ Exec!EventRefused("agent_failure")
  /\ UNCHANGED <<repo, calls, here>>

ReserveCall ==
  /\ callback = "recorded" /\ monitor.note.type = "before_llm"
  /\ IF Ledger!Reservable(monitor.job, monitor.note.call, monitor.note.amount)
     THEN /\ Ledger!Reserve(monitor.job, monitor.note.call, monitor.note.amount)
          /\ Exec!EventAccepted
     ELSE Exec!EventRefused("budget_exceeded") /\ UNCHANGED calls
  /\ callback' = "none"
  /\ UNCHANGED <<repo, owner, boot, request, notice, error, orphan, billed>>

\* The settled amount is saved before the limit is checked.
CompleteCall ==
  /\ callback = "recorded" /\ monitor.note.type = "after_llm"
  /\ Ledger!Complete(monitor.job, monitor.note.call, monitor.note.amount)
  /\ IF Settles(monitor.job, monitor.note.call) /\ Ledger!Total' > Limit
     THEN Exec!EventRefused("budget_exceeded") ELSE Exec!EventAccepted
  /\ callback' = "none"
  /\ UNCHANGED <<repo, owner, boot, request, notice, error, orphan, billed>>

-----------------------------------------------------------------------------
(* on_result, in the monitor thread *)

BeginResult ==
  /\ Handling("result") /\ callback = "none"
  /\ \/ /\ Repo!BeginResult(owner, monitor.job)
        /\ callback' = "commit"
     \/ /\ Repo!LockFree /\ ~Repo!Owned(owner, monitor.job)
        /\ callback' = "late"
        /\ UNCHANGED repo
  /\ UNCHANGED <<calls, exec, owner, boot, request, notice, error, orphan, billed>>

\* finish returns None after a rollback that the deadline caused.
EndResult ==
  /\ callback = "commit"
  /\ \/ Repo!CommitResult /\ callback' = "settle"
     \/ lapsed[monitor.job] > 0 /\ Repo!RollBack /\ callback' = "late"
  /\ UNCHANGED <<calls, exec, owner, boot, request, notice, error, orphan, billed>>

\* An uncommitted result is a failure: run_timeout, whatever the reason.
FailLate ==
  /\ callback = "late"
  /\ Fail(monitor.job, "run_timeout")
  /\ callback' = "settle"
  /\ UNCHANGED <<calls, exec, owner, boot, request, notice, orphan, billed>>

\* A transaction of on_result fails.
ResultFails ==
  /\ Fails /\ Handling("result") /\ callback # "settle"
  /\ IF callback = "commit" THEN Repo!RollBack ELSE UNCHANGED repo
  /\ Exec!ResultRefused
  /\ callback' = "none"
  /\ UNCHANGED <<calls, owner, boot, request, notice, error, orphan, billed>>

SettleResult ==
  /\ callback = "settle"
  /\ Ledger!FailRun(monitor.job)
  /\ Exec!ResultHandled
  /\ callback' = "none"
  /\ UNCHANGED <<repo, owner, boot, request, notice, error, orphan, billed>>

-----------------------------------------------------------------------------
(* on_failure, in the thread that recycles the worker *)

NotifyFailure ==
  /\ rec # None /\ rec.stage = "notify" /\ notice = "none"
  /\ Fail(rec.job, rec.code)
  /\ notice' = "settle"
  /\ UNCHANGED <<calls, exec, owner, boot, request, callback, orphan, billed>>

SettleFailure ==
  /\ notice = "settle"
  /\ Ledger!FailRun(rec.job)
  /\ Exec!RecycleNotifies
  /\ notice' = "none"
  /\ UNCHANGED <<repo, owner, boot, request, callback, error, orphan, billed>>

\* The transaction fails: _recycle logs it and goes on.
NotifyFails ==
  /\ Fails /\ notice = "none"
  /\ Exec!RecycleNotifies
  /\ UNCHANGED <<repo, calls, here>>

-----------------------------------------------------------------------------
(* The worker: an agent that may call a model between two events           *)

Pending == worker.note # None /\ worker.note.type = "before_llm"

\* _before_network takes a fresh call_id, _after_network the one it took.
Emittable(n) ==
  /\ Cardinality(Repo!ProgressIn(log[worker.job])) < MaxProgress
  /\ IF n.type = "after_llm"
     THEN /\ Pending /\ n.call = worker.note.call
          /\ n.amount \in {None, billed[worker.job, n.call]}
     ELSE ~Pending /\ (n.type = "before_llm" => calls[worker.job, n.call] = None)

WorkerEmits ==
  /\ worker.st = "working"
  /\ \E n \in Note : Emittable(n) /\ Exec!WorkerEmits(n)
  /\ UNCHANGED <<repo, calls, here>>

\* The network call of an acknowledged before_llm: the provider may charge
\* any amount, or fail without a charge.
Calls(w) ==
  IF w.note.type = "before_llm"
  THEN \E u \in Amount \cup {None} : billed' = [billed EXCEPT ![<<w.job, w.note.call>>] = u]
  ELSE UNCHANGED billed

WorkerProceeds ==
  /\ worker.st = "acked"
  /\ Calls(worker)
  /\ Exec!WorkerProceeds
  /\ UNCHANGED <<repo, calls, owner, boot, request, callback, notice, error, orphan>>

WorkerReports ==
  /\ ~Pending
  /\ Exec!WorkerReports("result") \/ ("agent" \in Fault /\ Exec!WorkerReports("failure"))
  /\ UNCHANGED <<repo, calls, here>>

\* A worker without a parent finishes the network call it is in, at most.
OrphanProceeds ==
  /\ orphan.st = "acked"
  /\ Calls(orphan)
  /\ orphan' = Exec!NoWorker
  /\ UNCHANGED <<repo, calls, exec, owner, boot, request, callback, notice, error>>

-----------------------------------------------------------------------------
(* The clocks of the database and of the process are independent.          *)

RowDeadlinePasses(r) == Repo!DeadlinePasses(r) /\ UNCHANGED <<calls, exec, here>>
JobDeadlinePasses(r) == Exec!DeadlinePasses(r) /\ UNCHANGED <<repo, calls, here>>

\* Shutdown waits for the requests that are being served.
CloseBegins ==
  /\ "close" \in Fault /\ Serving /\ request = None
  /\ Exec!CloseBegins
  /\ boot' = "closing"
  /\ UNCHANGED <<repo, calls, owner, request, callback, notice, error, orphan, billed>>

-----------------------------------------------------------------------------

Boot == (\E o \in Owner : BootLedger(o)) \/ BootRows \/ BootExecutor

Accept ==
  \/ \E k \in Key, t \in Thread, q \in Query : ReplayRun(k, t, q) \/ CheckRun(k, t, q)
  \/ RefuseRun

Request ==
  \/ AdmitRun \/ SubmitRun \/ SubmitFails
  \/ FailRequest \/ FailRequestFails \/ SettleRequest

OnEvent == RecordEvent \/ RejectEvent \/ ReserveCall \/ CompleteCall
OnResult == BeginResult \/ EndResult \/ FailLate \/ ResultFails \/ SettleResult
OnFailure == NotifyFailure \/ SettleFailure \/ NotifyFails

ExecutorStep(A) == A /\ UNCHANGED <<repo, calls, here>>

Sender == ExecutorStep(\E s \in senders : Exec!SenderStarts(s) \/ Exec!SenderSends(s))
Monitor == ExecutorStep(Exec!Monitor)
Watchdog == ExecutorStep(Exec!WatchSees \/ Exec!WatchRecycles)
Recycle == ExecutorStep(Exec!RecycleKills \/ Exec!RecycleRespawns)
Close == ExecutorStep(Exec!CloseWaits \/ Exec!CloseRecycles)
Worker ==
  \/ WorkerEmits \/ WorkerProceeds \/ WorkerReports
  \/ ExecutorStep(Exec!WorkerReady \/ Exec!WorkerTakes \/ Exec!WorkerResumes \/ Exec!WorkerDies)

Next ==
  \/ Boot \/ Crash \/ Exit \/ LeftTransaction
  \/ Accept \/ Request
  \/ OnEvent \/ OnResult \/ OnFailure
  \/ Sender \/ Monitor \/ Watchdog \/ Recycle
  \/ CloseBegins \/ Close
  \/ Worker \/ OrphanProceeds
  \/ \E r \in Run : RowDeadlinePasses(r) \/ JobDeadlinePasses(r)

\* The process is started again when it is down, time passes in it, and its
\* threads run: a request that was admitted, the watchdog, a recycling
\* and a shutdown.  A transaction that holds the write lock ends, for
\* on_failure waits for it.  Nothing else is assumed of the monitor and of the
\* callbacks it runs, and nothing of the worker or of the pipe.
Fairness ==
  /\ WF_vars(Boot) /\ WF_vars(Exit) /\ WF_vars(LeftTransaction)
  /\ WF_vars(Request) /\ WF_vars(EndResult)
  /\ \A r \in Run : WF_vars(JobDeadlinePasses(r))
  /\ WF_vars(Watchdog) /\ WF_vars(Recycle) /\ WF_vars(OnFailure) /\ WF_vars(Close)

Spec == Init /\ [][Next]_vars
FairSpec == Spec /\ Fairness

-----------------------------------------------------------------------------
(* Properties *)

\* Type invariant of what the service adds to its components.
TypeOK ==
  /\ owner \in Owner \cup {None}
  /\ boot \in {"down", "ledger", "rows", "up", "closing"}
  /\ request \in Admission \cup {None}
  /\ callback \in {"none", "recorded", "commit", "late", "settle"}
  /\ notice \in {"none", "settle"}
  /\ error \in [Run -> Exec!Code \cup {None}]
  /\ orphan \in [st : Exec!WorkerState, job : Run \cup {None}, note : Note \cup {None}]
  /\ billed \in [Run \X Call -> Amount \cup {None}]

Uses(r) == (job = r) \/ (rec # None /\ rec.job = r) \/ (request # None /\ request.run = r)

\* An accepted run that has not ended is in the hands of someone who will end
\* it: of the request that admitted it, of the executor and its deadline, or
\* of the thread that recycles its worker (comment in create_run).
LiveRunIsHandled ==
  owner # None =>
    \A r \in Run : Repo!IsLive(r) /\ runs[r].owner = owner => Uses(r)

\* What a provider has charged is in the ledger, with its amount or, when the
\* answer was lost with a worker, a process or a deadline, with its
\* reservation.
CallsArePaidFor ==
  \A x \in Run \X Call : billed[x] # None =>
    /\ calls[x] # None
    /\ calls[x].actual \in {billed[x], calls[x].reserved}

\* A model is called only after its input was stored as an event of the run
\* (docs/android_delivery.md, on the ACK).
CallsAreAudited ==
  \A r \in Run :
    Cardinality({c \in Call : billed[r, c] # None})
      <= Cardinality({i \in DOMAIN log[r] : log[r][i].kind = "audit"})

\* A run is reported as timed out only if one of its two deadlines passed,
\* although on_result calls every uncommitted result a timeout.
TimeoutsAreReal ==
  \A r \in Run : error[r] = "run_timeout" => r \in due \/ lapsed[r] > 0

\* No worker computes for a run that has ended: the worker is gone before the
\* failure is stored, and idle before the result is.
NobodyWorksForEndedRuns ==
  worker.job # None => Repo!IsLive(worker.job)

\* A run that was executing when its deadline passed, and that nothing else
\* went wrong with, fails as run_timeout (docs/android_api.md, on the error
\* codes).
DeadlineFailuresAreTimeouts ==
  \A r \in Run :
    lapsed[r] > 0 /\ error[r] \notin {None, "dispatch_failed"} => error[r] = "run_timeout"
=============================================================================
