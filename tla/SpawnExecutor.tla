---------------------------- MODULE SpawnExecutor ----------------------------
(***************************************************************************)
(* The parent side of the single spawn worker (app/delivery/executor.py):  *)
(* one worker process behind one pipe, the thread that reads the pipe, the *)
(* deadline watchdog, one short-lived sender per submitted job, and the    *)
(* recycling of the worker that any of them may start.                     *)
(*                                                                         *)
(* A step is what a thread does while it holds _lock, or one effect between *)
(* two such sections: the monitor, the watchdog and the senders look at    *)
(* the state in one step and act on what they saw in a later one.  The     *)
(* callbacks are single steps here with every outcome they may have;       *)
(* DeliveryService replaces them by the transactions they run.             *)
(***************************************************************************)
EXTENDS Naturals, FiniteSets

CONSTANTS
  Job,         \* jobs that may be submitted, each at most once
  Note,        \* contents of a worker event
  Fault,       \* what may go wrong: a subset of Faults
  MaxWorkers,  \* bound: a worker dies by itself only if its number is smaller
  None

Faults == {"death", "spawn", "event", "result"}

ExecutorAssumption ==
  /\ Fault \subseteq Faults
  /\ MaxWorkers \in Nat
  /\ None \notin Job \cup Note \cup Nat

VARIABLES
  life,     \* of the executor: down, up, closing, waited, closed
  spawned,  \* number of worker processes started
  conn,     \* _connection and _process: the number of the current worker
  ready,    \* _ready
  job,      \* _job
  due,      \* jobs whose _deadline has passed
  worker,   \* the current worker process
  wire,     \* message from the worker in the pipe
  cmd,      \* message to the worker in the pipe
  senders,  \* dispatch threads that have not returned
  monitor,  \* _receive between two looks at the pipe: what it is busy with
  watch,    \* _watch: what it has seen and not acted on yet
  rec,      \* the recycling in progress (_recycling)
  told,     \* job -> callbacks made for it: results and failures
  died      \* numbers of the workers that died by themselves

pipes == <<wire, cmd>>
vars == <<life, spawned, conn, ready, job, due, worker, wire, cmd, senders,
          monitor, watch, rec, told, died>>

Code == {"run_timeout", "worker_died", "dispatch_failed", "agent_failure",
         "budget_exceeded", "server_restarted"}
WorkerState == {"starting", "idle", "working", "waiting", "acked", "dead"}
NoWorker == [st |-> "dead", job |-> None, note |-> None]
NewWorker == [st |-> "starting", job |-> None, note |-> None]
Reply == [kind : {"ready", "event", "result", "failure"},
          job : Job \cup {None}, note : Note \cup {None}]

\* What the threads remember: a sender of its job, the monitor of the message it
\* is busy with, the watchdog of what it saw, a recycling of whom it ends and why.
Sending == [conn : Nat, job : Job, st : {"new", "sending"}]
Task == [conn : Nat, job : Job, stage : {"event", "ack", "result", "clear", "recycle"},
         note : Note \cup {None}, code : Code \cup {None}]
Sighting == [conn : Nat, job : Job \cup {None}, code : {"run_timeout", "worker_died"}]
Recycling == [conn : Nat \cup {None}, job : Job \cup {None}, code : Code,
              restart : BOOLEAN, stage : {"kill", "notify", "respawn", "stuck"}]

\* NULL is none of them, and no code.
NullAssumption == None \notin Code /\ None \notin Reply \cup Task \cup Sighting \cup Recycling

Init ==
  /\ life = "down" /\ spawned = 0 /\ conn = None /\ ready = FALSE /\ job = None
  /\ due = {} /\ worker = NoWorker /\ wire = None /\ cmd = None
  /\ senders = {} /\ monitor = None /\ watch = None /\ rec = None
  /\ told = [j \in Job |-> {}] /\ died = {}

-----------------------------------------------------------------------------
(* _spawn_locked, start and submit *)

Spawn ==
  /\ spawned' = spawned + 1
  /\ conn' = spawned + 1
  /\ worker' = NewWorker
  /\ ready' = FALSE
  /\ wire' = None /\ cmd' = None

Start ==
  /\ life = "down"
  /\ life' = "up"
  /\ Spawn
  /\ UNCHANGED <<job, due, senders, monitor, watch, rec, told, died>>

Ready == life = "up" /\ ready /\ rec = None

\* Bug: the worker is not asked for.
SubmittableToAnyone(j) == job = None /\ life = "up" /\ j \notin due

Submittable(j) == job = None /\ Ready /\ j \notin due

Submit(j) ==
  /\ Submittable(j)
  /\ job' = j
  /\ senders' = senders \cup {[conn |-> conn, job |-> j, st |-> "new"]}
  /\ UNCHANGED <<life, spawned, conn, ready, due, worker, pipes, monitor, watch,
                 rec, told, died>>

DeadlinePasses(j) ==
  /\ job = j
  /\ j \notin due
  /\ due' = due \cup {j}
  /\ UNCHANGED <<life, spawned, conn, ready, job, worker, pipes, senders, monitor,
                 watch, rec, told, died>>

-----------------------------------------------------------------------------
(* _recycle: its guards and its first critical section *)

\* Bug: the caller's job is not compared with the current one.
RecyclesAnyJob(c, j, code) ==
  IF conn = c /\ rec = None
  THEN /\ rec' = [conn |-> conn, job |-> job, code |-> code, restart |-> TRUE,
                  stage |-> "kill"]
       /\ ready' = FALSE
       /\ job' = None
  ELSE UNCHANGED <<rec, ready, job>>

\* Nothing happens for a connection or a job that is no longer the current
\* one, nor while another thread recycles.
Recycles(c, j, code) ==
  IF conn = c /\ job = j /\ rec = None
  THEN /\ rec' = [conn |-> conn, job |-> job, code |-> code, restart |-> TRUE,
                  stage |-> "kill"]
       /\ ready' = FALSE
       /\ job' = None
  ELSE UNCHANGED <<rec, ready, job>>

\* Bug: the worker of a job survives until its successor is spawned.
RecycleSpares ==
  /\ rec # None /\ rec.stage = "kill"
  /\ rec' = [rec EXCEPT !.stage = IF rec.job = None THEN "respawn" ELSE "notify"]
  /\ UNCHANGED <<life, spawned, conn, ready, job, due, worker, pipes, senders,
                 monitor, watch, told, died>>

\* The worker and its tools are killed, its pipe is closed.
RecycleKills ==
  /\ rec # None /\ rec.stage = "kill"
  /\ worker' = NoWorker
  /\ wire' = None /\ cmd' = None
  /\ rec' = [rec EXCEPT !.stage = IF rec.job = None THEN "respawn" ELSE "notify"]
  /\ UNCHANGED <<life, spawned, conn, ready, job, due, senders, monitor, watch,
                 told, died>>

\* on_failure has returned, or raised and was logged.
RecycleNotifies ==
  /\ rec # None /\ rec.stage = "notify"
  /\ told' = [told EXCEPT ![rec.job] = @ \cup {[code |-> rec.code, conn |-> rec.conn]}]
  /\ rec' = [rec EXCEPT !.stage = "respawn"]
  /\ UNCHANGED <<life, spawned, conn, ready, job, due, worker, pipes, senders,
                 monitor, watch, died>>

\* Bugs: a worker that died idle is not replaced; the recycling of an executor
\* that is being closed is never over.
RecycleRespawnsAfterJob ==
  /\ rec # None /\ rec.stage = "respawn"
  /\ IF rec.job # None /\ rec.restart /\ life = "up"
     THEN Spawn
     ELSE conn' = None /\ UNCHANGED <<spawned, worker, ready, pipes>>
  /\ rec' = None
  /\ UNCHANGED <<life, job, due, senders, monitor, watch, told, died>>

RecycleEndsWhenUp ==
  /\ rec # None /\ rec.stage = "respawn"
  /\ IF rec.restart /\ life = "up"
     THEN Spawn /\ rec' = None
     ELSE conn' = None /\ UNCHANGED <<spawned, worker, ready, pipes, rec>>
  /\ UNCHANGED <<life, job, due, senders, monitor, watch, told, died>>

RecycleRespawns ==
  /\ rec # None /\ rec.stage = "respawn"
  /\ IF rec.restart /\ life = "up"
     THEN Spawn
     ELSE conn' = None /\ UNCHANGED <<spawned, worker, ready, pipes>>
  /\ rec' = None
  /\ UNCHANGED <<life, job, due, senders, monitor, watch, told, died>>

\* The process cannot be started: the exception leaves _recycling set.
RespawnFails ==
  /\ "spawn" \in Fault
  /\ rec # None /\ rec.stage = "respawn" /\ rec.restart /\ life = "up"
  /\ conn' = None
  /\ rec' = [rec EXCEPT !.stage = "stuck"]
  /\ UNCHANGED <<life, spawned, ready, job, due, worker, pipes, senders, monitor,
                 watch, told, died>>

-----------------------------------------------------------------------------
(* The worker process (WorkerChannel, _bootstrap, _agent_worker)           *)

WorkerReady ==
  /\ worker.st = "starting"
  /\ worker' = [worker EXCEPT !.st = "idle"]
  /\ wire' = [kind |-> "ready", job |-> None, note |-> None]
  /\ UNCHANGED <<life, spawned, conn, ready, job, due, cmd, senders, monitor,
                 watch, rec, told, died>>

WorkerTakes ==
  /\ worker.st = "idle" /\ cmd # None
  /\ worker' = [worker EXCEPT !.st = "working", !.job = cmd]
  /\ cmd' = None
  /\ UNCHANGED <<life, spawned, conn, ready, job, due, wire, senders, monitor,
                 watch, rec, told, died>>

\* An event is sent, then the worker blocks until it is acknowledged.
WorkerEmits(n) ==
  /\ worker.st = "working"
  /\ worker' = [worker EXCEPT !.st = "waiting", !.note = n]
  /\ wire' = [kind |-> "event", job |-> worker.job, note |-> n]
  /\ UNCHANGED <<life, spawned, conn, ready, job, due, cmd, senders, monitor,
                 watch, rec, told, died>>

WorkerResumes ==
  /\ worker.st = "waiting" /\ cmd # None
  /\ worker' = [worker EXCEPT !.st = "acked"]
  /\ cmd' = None
  /\ UNCHANGED <<life, spawned, conn, ready, job, due, wire, senders, monitor,
                 watch, rec, told, died>>

WorkerProceeds ==
  /\ worker.st = "acked"
  /\ worker' = [worker EXCEPT !.st = "working"]
  /\ UNCHANGED <<life, spawned, conn, ready, job, due, pipes, senders, monitor,
                 watch, rec, told, died>>

WorkerReports(kind) ==
  /\ worker.st = "working"
  /\ kind \in {"result", "failure"}
  /\ worker' = [worker EXCEPT !.st = "idle", !.job = None, !.note = None]
  /\ wire' = [kind |-> kind, job |-> worker.job, note |-> None]
  /\ UNCHANGED <<life, spawned, conn, ready, job, due, cmd, senders, monitor,
                 watch, rec, told, died>>

\* What it had written stays in the pipe.
WorkerDies ==
  /\ "death" \in Fault
  /\ conn # None /\ worker.st # "dead" /\ spawned < MaxWorkers
  /\ worker' = NoWorker
  /\ died' = died \cup {spawned}
  /\ UNCHANGED <<life, spawned, conn, ready, job, due, pipes, senders, monitor,
                 watch, rec, told>>

-----------------------------------------------------------------------------
(* The dispatch threads (_dispatch, _send_for_job)                         *)

\* The guards of _send_for_job, under _lock.
Sendable(c, j) ==
  conn = c /\ job = j /\ life = "up" /\ rec = None /\ j \notin due

SenderStarts(s) ==
  /\ s \in senders /\ s.st = "new"
  /\ senders' = (senders \ {s}) \cup
       (IF Sendable(s.conn, s.job) THEN {[s EXCEPT !.st = "sending"]} ELSE {})
  /\ UNCHANGED <<life, spawned, conn, ready, job, due, worker, pipes, monitor,
                 watch, rec, told, died>>

\* The frame is written without _lock: meanwhile the pipe may have been
\* replaced, or the worker may be gone.
SenderSends(s) ==
  /\ s \in senders /\ s.st = "sending"
  /\ senders' = senders \ {s}
  /\ IF conn = s.conn /\ worker.st # "dead"
     THEN cmd' = s.job /\ UNCHANGED <<rec, ready, job>>
     ELSE Recycles(s.conn, s.job, "dispatch_failed") /\ UNCHANGED cmd
  /\ UNCHANGED <<life, spawned, conn, due, worker, wire, monitor, watch, told, died>>

-----------------------------------------------------------------------------
(* The monitor thread (_receive)                                           *)

Busy(j, stage, code) ==
  [conn |-> conn, job |-> j, stage |-> stage, note |-> wire.note, code |-> code]

\* A message is received; what it asks for is decided under _lock.
MonitorTakes ==
  /\ monitor = None /\ rec = None
  /\ conn # None /\ wire # None
  /\ wire' = None
  /\ ready' = (ready \/ wire.kind = "ready")
  /\ monitor' =
       IF wire.kind = "ready" \/ job = None \/ wire.job # job THEN None
       ELSE IF job \in due THEN Busy(job, "recycle", "run_timeout")
       ELSE IF wire.kind = "failure" THEN Busy(job, "recycle", "agent_failure")
       ELSE Busy(job, wire.kind, None)
  /\ UNCHANGED <<life, spawned, conn, job, due, worker, cmd, senders, watch, rec,
                 told, died>>

MonitorMoves(stage, code) ==
  /\ monitor' = [monitor EXCEPT !.stage = stage, !.code = code]
  /\ UNCHANGED <<life, spawned, conn, ready, job, due, worker, pipes, senders,
                 watch, rec, died>>

EventAccepted ==
  /\ monitor # None /\ monitor.stage = "event"
  /\ MonitorMoves("ack", None)
  /\ UNCHANGED told

EventRefused(code) ==
  /\ monitor # None /\ monitor.stage = "event"
  /\ MonitorMoves("recycle", code)
  /\ UNCHANGED told

MonitorAcks ==
  /\ monitor # None /\ monitor.stage = "ack"
  /\ IF ~Sendable(monitor.conn, monitor.job) THEN monitor' = None /\ UNCHANGED cmd
     ELSE IF worker.st = "dead"
     THEN monitor' = [monitor EXCEPT !.stage = "recycle", !.code = "worker_died"] /\ UNCHANGED cmd
     ELSE monitor' = None /\ cmd' = monitor.job
  /\ UNCHANGED <<life, spawned, conn, ready, job, due, worker, wire, senders, watch,
                 rec, told, died>>

\* on_result has returned; it has told the repository the result.
ResultHandled ==
  /\ monitor # None /\ monitor.stage = "result"
  /\ MonitorMoves("clear", None)
  /\ told' = [told EXCEPT ![monitor.job] = @ \cup {[code |-> "result", conn |-> monitor.conn]}]

\* Bug: the internal code is passed on.
ResultRefusedRaw ==
  /\ monitor # None /\ monitor.stage = "result"
  /\ MonitorMoves("recycle", "result_commit_failed")
  /\ UNCHANGED told

ResultRefused ==
  /\ monitor # None /\ monitor.stage = "result"
  /\ MonitorMoves("recycle", "agent_failure")
  /\ UNCHANGED told

\* The comparison never fails: a recycling clears the slot and makes the worker
\* not ready, and only this thread receives the next ready.
MonitorClears ==
  /\ monitor # None /\ monitor.stage = "clear"
  /\ job' = IF job = monitor.job THEN None ELSE job
  /\ monitor' = None
  /\ UNCHANGED <<life, spawned, conn, ready, due, worker, pipes, senders, watch,
                 rec, told, died>>

MonitorRecycles ==
  /\ monitor # None /\ monitor.stage = "recycle"
  /\ Recycles(monitor.conn, monitor.job, monitor.code)
  /\ monitor' = None
  /\ UNCHANGED <<life, spawned, conn, due, worker, pipes, senders, watch, told, died>>

-----------------------------------------------------------------------------
(* The watchdog thread (_watch)                                            *)

\* Bug: only a dead worker is noticed.
WatchSeesDeath ==
  /\ watch = None /\ rec = None
  /\ conn # None /\ worker.st = "dead"
  /\ watch' = [conn |-> conn, job |-> job, code |-> "worker_died"]
  /\ UNCHANGED <<life, spawned, conn, ready, job, due, worker, pipes, senders,
                 monitor, rec, told, died>>

WatchSees ==
  /\ watch = None /\ rec = None
  /\ \/ /\ job # None /\ job \in due
        /\ watch' = [conn |-> conn, job |-> job, code |-> "run_timeout"]
     \/ /\ ~(job # None /\ job \in due)
        /\ conn # None /\ worker.st = "dead"
        /\ watch' = [conn |-> conn, job |-> job, code |-> "worker_died"]
  /\ UNCHANGED <<life, spawned, conn, ready, job, due, worker, pipes, senders,
                 monitor, rec, told, died>>

WatchRecycles ==
  /\ watch # None
  /\ Recycles(watch.conn, watch.job, watch.code)
  /\ watch' = None
  /\ UNCHANGED <<life, spawned, conn, due, worker, pipes, senders, monitor, told, died>>

-----------------------------------------------------------------------------
(* close *)

CloseBegins ==
  /\ life = "up"
  /\ life' = "closing"
  /\ UNCHANGED <<spawned, conn, ready, job, due, worker, pipes, senders, monitor,
                 watch, rec, told, died>>

CloseWaits ==
  /\ life = "closing" /\ rec = None
  /\ life' = "waited"
  /\ UNCHANGED <<spawned, conn, ready, job, due, worker, pipes, senders, monitor,
                 watch, rec, told, died>>

\* Between the wait and this call another thread may have begun to recycle.
CloseRecycles ==
  /\ life = "waited"
  /\ life' = "closed"
  /\ IF rec = None
     THEN /\ rec' = [conn |-> conn, job |-> job, code |-> "server_restarted",
                     restart |-> FALSE, stage |-> "kill"]
          /\ ready' = FALSE /\ job' = None
     ELSE UNCHANGED <<rec, ready, job>>
  /\ UNCHANGED <<spawned, conn, due, worker, pipes, senders, monitor, watch, told, died>>

-----------------------------------------------------------------------------
(* The executor by itself: callbacks with any outcome, each job submitted  *)
(* once, by a caller that may also close the executor.                     *)

Monitor == MonitorTakes \/ MonitorAcks \/ MonitorClears \/ MonitorRecycles

Callback ==
  \/ EventAccepted \/ ResultHandled
  \/ "event" \in Fault /\ \E code \in {"agent_failure", "budget_exceeded"} : EventRefused(code)
  \/ "result" \in Fault /\ ResultRefused

Worker ==
  \/ WorkerReady \/ WorkerTakes \/ WorkerResumes \/ WorkerProceeds \/ WorkerDies
  \/ \E n \in Note : WorkerEmits(n)
  \/ \E kind \in {"result", "failure"} : WorkerReports(kind)

Recycle == RecycleKills \/ RecycleNotifies \/ RecycleRespawns

Next ==
  \/ Start
  \/ \E j \in Job : told[j] = {} /\ (\A s \in senders : s.job # j) /\ Submit(j)
  \/ \E j \in Job : DeadlinePasses(j)
  \/ \E s \in senders : SenderStarts(s) \/ SenderSends(s)
  \/ Worker \/ Monitor \/ Callback
  \/ WatchSees \/ WatchRecycles
  \/ Recycle \/ RespawnFails
  \/ CloseBegins \/ CloseWaits \/ CloseRecycles

\* Time passes, and the watchdog, the recycling thread and the thread that
\* closes keep running: their loops sleep for milliseconds, their joins and
\* kills are bounded by timeouts.  Nothing is assumed of the worker, of the
\* monitor, of the callbacks it waits for, or of a write into the pipe.
ThreadsRun ==
  /\ \A j \in Job : WF_vars(DeadlinePasses(j))
  /\ WF_vars(life = "up" /\ WatchSees) /\ WF_vars(WatchRecycles)
  /\ WF_vars(Recycle)
  /\ WF_vars(CloseWaits) /\ WF_vars(CloseRecycles)

Spec == Init /\ [][Next]_vars /\ ThreadsRun

\* The worker comes up, the monitor runs and its callbacks return.
ServingSpec == Spec /\ WF_vars(WorkerReady) /\ WF_vars(Monitor) /\ WF_vars(Callback)

-----------------------------------------------------------------------------
(* Properties *)

\* Type invariant of the executor.
TypeOK ==
  /\ life \in {"down", "up", "closing", "waited", "closed"}
  /\ spawned \in Nat /\ conn \in Nat \cup {None} /\ ready \in BOOLEAN
  /\ job \in Job \cup {None} /\ due \subseteq Job
  /\ worker \in [st : WorkerState, job : Job \cup {None}, note : Note \cup {None}]
  /\ wire \in Reply \cup {None} /\ cmd \in Job \cup {None}
  /\ senders \subseteq Sending
  /\ monitor \in Task \cup {None}
  /\ watch \in Sighting \cup {None}
  /\ rec \in Recycling \cup {None}
  /\ told \in [Job -> SUBSET [code : Code \cup {"result"}, conn : Nat]]
  /\ died \subseteq Nat

\* A failure is always the failing job's own: what a watchdog or a sender saw
\* of an earlier worker or of an earlier job never ends a later one
\* (expected_connection and expected_job of _recycle).
CausesAreReal ==
  \A j \in Job : \A t \in told[j] :
    /\ t.code = "run_timeout" => j \in due
    /\ t.code \in {"worker_died", "dispatch_failed"} => t.conn \in died
    /\ t.code = "server_restarted" => life = "closed"

\* Nothing but the job in the slot reaches the worker, unless the worker is
\* about to be killed: no late dispatch and no late acknowledgement
\* (_send_for_job).
WorkerServesTheSlot ==
  rec = None => {worker.job, cmd} \subseteq {job, None}

\* A full slot always has a worker that is not being recycled, so that its
\* deadline is watched.
SlotIsWatched ==
  job # None => rec = None /\ conn # None /\ life \in {"up", "closing", "waited"}

\* close returns: it waits for the cleanup of a recycling in progress
\* (comment in close), which ends.
ClosingEnds == (life = "closing") ~> (life = "closed")
=============================================================================
