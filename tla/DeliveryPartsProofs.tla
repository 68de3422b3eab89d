-------------------------- MODULE DeliveryPartsProofs --------------------------
(***************************************************************************)
(* Proofs about the parts of the delivery service, each by itself and for  *)
(* every value of its constants: the executor, the cost ledger and the     *)
(* repository.  DeliveryServiceProofs puts them together.                  *)
(***************************************************************************)
EXTENDS DeliveryRepository, TLAPS, FiniteSetTheorems, WellFoundedInduction

CONSTANTS Job, Note, Fault, MaxWorkers,            \* of the executor
          PaidRun, Call, Amount, Historical, Limit  \* of the ledger

VARIABLES life, spawned, conn, ready, job, due, worker, wire, cmd, senders, monitor, watch, rec,
          told, died, calls

Exec == INSTANCE SpawnExecutor
Ledger == INSTANCE DeliveryBudget WITH Run <- PaidRun

-----------------------------------------------------------------------------
(* The executor, for any jobs, notes and faults: its slot, its worker and what *)
(* its threads remember agree.  Nothing here rests on a job being submitted    *)
(* only once, or on what the callbacks do, so that the invariant serves the    *)
(* service as well.                                                            *)

\* The worker of the connection has not been killed yet; the job it is meant for.
NotKilled == rec = None \/ rec.stage = "kill"
SlotJob == IF rec = None THEN job ELSE rec.job

\* Connections are numbered; the number of the current one is the last.
ConnIsCurrent ==
  /\ conn # None => conn = spawned /\ life # "down"
  /\ rec # None => life # "down"
  /\ life = "closed" => rec # None \/ conn = None
  /\ \A s \in senders : s.conn <= spawned
  /\ monitor # None => monitor.conn <= spawned

\* A job is only given to a worker that is ready, and only the monitor makes it so.
SlotIsReady ==
  /\ ready => conn # None /\ rec = None /\ worker.st # "starting"
  /\ job # None => ready
  /\ ready /\ monitor # None => monitor.conn = conn

\* Nothing is left of a worker that was killed.
KilledIsGone == conn = None \/ ~ NotKilled => worker = Exec!NoWorker /\ wire = None /\ cmd = None

\* A worker has a job from taking it to reporting it; until it is up its pipe is empty.  An
\* event has contents.
WorkerIsPlain ==
  /\ worker.job = None <=> worker.st \in {"starting", "idle", "dead"}
  /\ worker.st = "starting" => wire = None /\ cmd = None
  /\ worker.st \in {"waiting", "acked"} => worker.note # None
  /\ wire # None /\ wire.kind = "event" => wire.note # None
  /\ monitor # None /\ monitor.stage \in {"event", "ack"} => monitor.note # None

Spoken == wire # None /\ wire.kind # "ready"

\* Whatever is under way between the threads and the worker is about the job in the slot.
AllServeTheSlot ==
  NotKilled =>
    /\ {worker.job, cmd} \subseteq {SlotJob, None}
    /\ Spoken => wire.job = SlotJob /\ SlotJob # None
    /\ monitor # None => IF monitor.conn = conn THEN monitor.job = SlotJob ELSE SlotJob = None
    /\ \A s \in senders : s.conn = conn => s.job = SlotJob

\* The job is in one place at a time: with its sender, in the pipe, with the worker or with
\* the monitor.
OneTurn ==
  NotKilled =>
    /\ \A s \in senders : s.conn = conn =>
         /\ worker.st \in {"idle", "dead"} /\ cmd = None /\ ~ Spoken /\ monitor = None
         /\ \A t \in senders : t.conn = conn => t = s
    /\ cmd # None => worker.st \in {"idle", "waiting", "dead"} /\ ~ Spoken /\ monitor = None
    /\ worker.st \in {"working", "acked"} => ~ Spoken /\ monitor = None
    /\ Spoken => monitor = None

\* The worker waits while its event is handled, and is idle while its result is.
WorkerWaits ==
  NotKilled =>
    /\ Spoken => \/ worker.st = "dead"
                 \/ wire.kind = "event" /\ worker.st = "waiting" /\ worker.note = wire.note
                 \/ wire.kind # "event" /\ worker.st = "idle"
    /\ monitor # None /\ monitor.conn = conn =>
         \/ worker.st = "dead" \/ monitor.stage = "recycle"
         \/ /\ monitor.stage \in {"event", "ack"}
            /\ worker.st = "waiting" /\ worker.note = monitor.note
         \/ monitor.stage \in {"result", "clear"} /\ worker.st = "idle"

\* What a thread saw of a job or a connection stays true of it.
IsCause(code, c, j) ==
  /\ code = "run_timeout" => j \in due
  /\ code \in {"worker_died", "dispatch_failed"} => c \in died
  /\ code = "server_restarted" => life = "closed"

CausesAreKept ==
  /\ rec = None /\ conn # None /\ worker.st = "dead" => conn \in died
  /\ watch # None => IsCause(watch.code, watch.conn, watch.job)
  /\ monitor # None /\ monitor.stage = "recycle" =>
       /\ monitor.code \in Exec!Code \ {"server_restarted"}
       /\ IsCause(monitor.code, monitor.conn, monitor.job)
  /\ rec # None => IsCause(rec.code, rec.conn, rec.job)
  /\ rec # None /\ rec.job # None => rec.conn \in Nat
  /\ rec # None /\ rec.stage = "notify" => rec.job # None

ThreadsAgree ==
  /\ ConnIsCurrent /\ SlotIsReady /\ KilledIsGone /\ WorkerIsPlain
  /\ AllServeTheSlot /\ OneTurn /\ WorkerWaits /\ CausesAreKept

ExecInv == Exec!TypeOK /\ ThreadsAgree

Apart == Exec!ExecutorAssumption /\ Exec!NullAssumption

\* The steps of the threads and of the worker, in any order and for any job; the codes with
\* which a callback may refuse an event are those of on_event.
ExecStep ==
  \/ Exec!Start
  \/ \E j \in Job : Exec!Submit(j) \/ Exec!DeadlinePasses(j)
  \/ \E s \in senders : Exec!SenderStarts(s) \/ Exec!SenderSends(s)
  \/ Exec!Worker \/ Exec!Monitor
  \/ Exec!EventAccepted \/ Exec!ResultHandled \/ Exec!ResultRefused
  \/ \E code \in {"agent_failure", "budget_exceeded"} : Exec!EventRefused(code)
  \/ Exec!WatchSees \/ Exec!WatchRecycles
  \/ Exec!Recycle \/ Exec!RespawnFails
  \/ Exec!CloseBegins \/ Exec!CloseWaits \/ Exec!CloseRecycles

-----------------------------------------------------------------------------
(* Records *)

ExecProcess == [st : Exec!WorkerState, job : Job \cup {None}, note : Note \cup {None}]

\* A task, a recycling and a worker, moved on.
LEMMA TaskMoves ==
  ASSUME NEW m \in Exec!Task, NEW stage \in {"event", "ack", "result", "clear", "recycle"},
         NEW code \in Exec!Code \cup {None}
  PROVE  /\ [m EXCEPT !.stage = stage, !.code = code] \in Exec!Task
         /\ [m EXCEPT !.stage = stage, !.code = code] =
              [conn |-> m.conn, job |-> m.job, stage |-> stage, note |-> m.note, code |-> code]
<1> DEFINE x == [m EXCEPT !.stage = stage, !.code = code]
<1>1. x \in Exec!Task BY DEF Exec!Task
<1>2. x.conn = m.conn /\ x.job = m.job /\ x.stage = stage /\ x.note = m.note /\ x.code = code
  BY DEF Exec!Task
<1> HIDE DEF x
<1>3. x = [conn |-> x.conn, job |-> x.job, stage |-> x.stage, note |-> x.note, code |-> x.code]
  BY <1>1 DEF Exec!Task
<1> QED BY <1>1, <1>2, <1>3 DEF x

LEMMA RecyclingMoves ==
  ASSUME NEW m \in Exec!Recycling, NEW stage \in {"kill", "notify", "respawn", "stuck"}
  PROVE  LET moved == [m EXCEPT !.stage = stage]
         IN  /\ moved \in Exec!Recycling /\ moved.stage = stage
             /\ moved.conn = m.conn /\ moved.job = m.job /\ moved.code = m.code
BY DEF Exec!Recycling

LEMMA WorkerMoves ==
  ASSUME NEW w \in ExecProcess, NEW st \in Exec!WorkerState, NEW j \in Job \cup {None},
         NEW n \in Note \cup {None}
  PROVE  /\ [w EXCEPT !.st = st] \in ExecProcess
         /\ [w EXCEPT !.st = st, !.job = j] \in ExecProcess
         /\ [w EXCEPT !.st = st, !.note = n] \in ExecProcess
         /\ [w EXCEPT !.st = st, !.job = j, !.note = n] \in ExecProcess
BY DEF ExecProcess

LEMMA FreshWorkers == Exec!NewWorker \in ExecProcess /\ Exec!NoWorker \in ExecProcess
BY DEF Exec!NewWorker, Exec!NoWorker, ExecProcess, Exec!WorkerState

LEMMA States == {"starting", "idle", "working", "waiting", "acked", "dead"} = Exec!WorkerState
BY DEF Exec!WorkerState

\* What _recycle leaves of the slot.
LEMMA RecyclesTypes ==
  ASSUME Exec!TypeOK, NEW c, NEW j, NEW code \in Exec!Code, Exec!Recycles(c, j, code)
  PROVE  rec' \in Exec!Recycling \cup {None} /\ ready' \in BOOLEAN /\ job' \in Job \cup {None}
<1>1. rec' \in Exec!Recycling \cup {None}
  <2>1. CASE rec' = rec BY <2>1 DEF Exec!TypeOK
  <2>2. CASE rec' = [conn |-> conn, job |-> job, code |-> code, restart |-> TRUE, stage |-> "kill"]
    BY <2>2 DEF Exec!TypeOK, Exec!Recycling
  <2> QED BY <2>1, <2>2 DEF Exec!Recycles
<1>2. ready' \in BOOLEAN /\ job' \in Job \cup {None} BY DEF Exec!TypeOK, Exec!Recycles
<1> QED BY <1>1, <1>2

\* A recycling takes over the slot as it is.
LEMMA SlotIsTaken ==
  ASSUME Apart, Exec!TypeOK, rec = None,
         NEW code \in Exec!Code, NEW restart \in BOOLEAN,
         rec' = [conn |-> conn, job |-> job, code |-> code, restart |-> restart, stage |-> "kill"]
  PROVE  rec' \in Exec!Recycling /\ rec' # None /\ NotKilled /\ NotKilled' /\ SlotJob' = SlotJob
<1>1. rec' \in Exec!Recycling BY DEF Exec!TypeOK, Exec!Recycling
<1>2. rec' # None BY <1>1 DEF Apart, Exec!NullAssumption
<1> QED BY <1>1, <1>2 DEF NotKilled, SlotJob

-----------------------------------------------------------------------------
(* The worker process and the senders *)

\* The worker keeps the types: only its record, the pipe and the deaths change.
LEMMA WorkerTypes == ASSUME Apart, Exec!TypeOK, Exec!Worker PROVE Exec!TypeOK'
<1> USE DEF Exec!TypeOK, Exec!Reply
<1>1. ASSUME worker' \in ExecProcess, wire' \in Exec!Reply \cup {None}, cmd' \in Job \cup {None},
             UNCHANGED <<life, spawned, conn, ready, job, due, senders, monitor, watch, rec, told>>,
             died' \subseteq Nat
      PROVE  Exec!TypeOK'
  BY <1>1 DEF ExecProcess
<1>2. worker \in ExecProcess BY DEF ExecProcess
<1>3. ASSUME Exec!WorkerReady PROVE Exec!TypeOK'
  <2>1. worker' = [worker EXCEPT !.st = "idle"] BY <1>3 DEF Exec!WorkerReady
  <2>2. worker' \in ExecProcess BY <2>1, <1>2, WorkerMoves, FreshWorkers, States, Zenon
  <2>3. wire' \in Exec!Reply \cup {None} /\ cmd' \in Job \cup {None} /\ died' \subseteq Nat
    BY <1>3 DEF Exec!WorkerReady, Exec!pipes
  <2> HIDE DEF Exec!TypeOK, Exec!Reply
  <2>4. UNCHANGED <<life, spawned, conn, ready, job, due, senders, monitor, watch, rec, told>>
    BY <1>3 DEF Exec!WorkerReady, Exec!pipes
  <2> QED BY <1>1, <2>2, <2>3, <2>4
<1>4. ASSUME Exec!WorkerTakes PROVE Exec!TypeOK'
  <2>1. worker' = [worker EXCEPT !.st = "working", !.job = cmd] BY <1>4 DEF Exec!WorkerTakes
  <2>2. worker' \in ExecProcess BY <2>1, <1>2, WorkerMoves, FreshWorkers, States, Zenon
  <2>3. wire' \in Exec!Reply \cup {None} /\ cmd' \in Job \cup {None} /\ died' \subseteq Nat
    BY <1>4 DEF Exec!WorkerTakes, Exec!pipes
  <2> HIDE DEF Exec!TypeOK, Exec!Reply
  <2>4. UNCHANGED <<life, spawned, conn, ready, job, due, senders, monitor, watch, rec, told>>
    BY <1>4 DEF Exec!WorkerTakes, Exec!pipes
  <2> QED BY <1>1, <2>2, <2>3, <2>4
<1>5. ASSUME Exec!WorkerResumes PROVE Exec!TypeOK'
  <2>1. worker' = [worker EXCEPT !.st = "acked"] BY <1>5 DEF Exec!WorkerResumes
  <2>2. worker' \in ExecProcess BY <2>1, <1>2, WorkerMoves, FreshWorkers, States, Zenon
  <2>3. wire' \in Exec!Reply \cup {None} /\ cmd' \in Job \cup {None} /\ died' \subseteq Nat
    BY <1>5 DEF Exec!WorkerResumes, Exec!pipes
  <2> HIDE DEF Exec!TypeOK, Exec!Reply
  <2>4. UNCHANGED <<life, spawned, conn, ready, job, due, senders, monitor, watch, rec, told>>
    BY <1>5 DEF Exec!WorkerResumes, Exec!pipes
  <2> QED BY <1>1, <2>2, <2>3, <2>4
<1>6. ASSUME Exec!WorkerProceeds PROVE Exec!TypeOK'
  <2>1. worker' = [worker EXCEPT !.st = "working"] BY <1>6 DEF Exec!WorkerProceeds
  <2>2. worker' \in ExecProcess BY <2>1, <1>2, WorkerMoves, FreshWorkers, States, Zenon
  <2>3. wire' \in Exec!Reply \cup {None} /\ cmd' \in Job \cup {None} /\ died' \subseteq Nat
    BY <1>6 DEF Exec!WorkerProceeds, Exec!pipes
  <2> HIDE DEF Exec!TypeOK, Exec!Reply
  <2>4. UNCHANGED <<life, spawned, conn, ready, job, due, senders, monitor, watch, rec, told>>
    BY <1>6 DEF Exec!WorkerProceeds, Exec!pipes
  <2> QED BY <1>1, <2>2, <2>3, <2>4
<1>7. ASSUME Exec!WorkerDies PROVE Exec!TypeOK'
  <2>1. worker' = Exec!NoWorker BY <1>7 DEF Exec!WorkerDies
  <2>2. worker' \in ExecProcess BY <2>1, <1>2, WorkerMoves, FreshWorkers, States, Zenon
  <2>3. wire' \in Exec!Reply \cup {None} /\ cmd' \in Job \cup {None} /\ died' \subseteq Nat
    BY <1>7 DEF Exec!WorkerDies, Exec!pipes
  <2> HIDE DEF Exec!TypeOK, Exec!Reply
  <2>4. UNCHANGED <<life, spawned, conn, ready, job, due, senders, monitor, watch, rec, told>>
    BY <1>7 DEF Exec!WorkerDies, Exec!pipes
  <2> QED BY <1>1, <2>2, <2>3, <2>4
<1>8. ASSUME NEW n \in Note, Exec!WorkerEmits(n) PROVE Exec!TypeOK'
  <2>1. worker' = [worker EXCEPT !.st = "waiting", !.note = n] BY <1>8 DEF Exec!WorkerEmits
  <2>2. worker' \in ExecProcess BY <2>1, <1>2, WorkerMoves, FreshWorkers, States, Zenon
  <2>3. wire' \in Exec!Reply \cup {None} /\ cmd' \in Job \cup {None} /\ died' \subseteq Nat
    BY <1>8 DEF Exec!WorkerEmits, Exec!pipes
  <2> HIDE DEF Exec!TypeOK, Exec!Reply
  <2>4. UNCHANGED <<life, spawned, conn, ready, job, due, senders, monitor, watch, rec, told>>
    BY <1>8 DEF Exec!WorkerEmits, Exec!pipes
  <2> QED BY <1>1, <2>2, <2>3, <2>4
<1>9. ASSUME NEW kind \in {"result", "failure"}, Exec!WorkerReports(kind) PROVE Exec!TypeOK'
  <2>1. worker' = [worker EXCEPT !.st = "idle", !.job = None, !.note = None] BY <1>9
    DEF Exec!WorkerReports
  <2>2. worker' \in ExecProcess BY <2>1, <1>2, WorkerMoves, FreshWorkers, States, Zenon
  <2>3. wire' \in Exec!Reply \cup {None} /\ cmd' \in Job \cup {None} /\ died' \subseteq Nat
    BY <1>9 DEF Exec!WorkerReports, Exec!pipes
  <2> HIDE DEF Exec!TypeOK, Exec!Reply
  <2>4. UNCHANGED <<life, spawned, conn, ready, job, due, senders, monitor, watch, rec, told>>
    BY <1>9 DEF Exec!WorkerReports, Exec!pipes
  <2> QED BY <1>1, <2>2, <2>3, <2>4
<1> QED BY <1>3, <1>4, <1>5, <1>6, <1>7, <1>8, <1>9 DEF Exec!Worker

\* What the worker does, it does in its turn.
LEMMA WorkerStep == ASSUME Apart, ExecInv, Exec!Worker PROVE ExecInv'
<1>1. Exec!TypeOK' BY WorkerTypes DEF ExecInv
<1>2. ThreadsAgree'
  <2> USE DEF Apart, Exec!ExecutorAssumption, ExecInv, Exec!pipes, ThreadsAgree, ConnIsCurrent,
              SlotIsReady, KilledIsGone, WorkerIsPlain, AllServeTheSlot, OneTurn, WorkerWaits,
              CausesAreKept, SlotJob, NotKilled, Spoken, IsCause, Exec!TypeOK, Exec!WorkerState,
              Exec!Reply, Exec!Sending, Exec!Task, Exec!Sighting, Exec!Recycling, Exec!Code,
              Exec!NoWorker, Exec!NullAssumption
  <2>1. ASSUME Exec!WorkerReady PROVE ThreadsAgree' BY <2>1, SMTT(30) DEF Exec!WorkerReady
  <2>2. ASSUME Exec!WorkerTakes PROVE ThreadsAgree' BY <2>2, SMTT(30) DEF Exec!WorkerTakes
  <2>3. ASSUME Exec!WorkerResumes PROVE ThreadsAgree' BY <2>3, SMTT(30) DEF Exec!WorkerResumes
  <2>4. ASSUME Exec!WorkerProceeds PROVE ThreadsAgree' BY <2>4, SMTT(30) DEF Exec!WorkerProceeds
  <2>5. ASSUME Exec!WorkerDies PROVE ThreadsAgree' BY <2>5, SMTT(30) DEF Exec!WorkerDies
  <2>6. ASSUME NEW n \in Note, Exec!WorkerEmits(n) PROVE ThreadsAgree' BY <2>6, SMTT(30)
    DEF Exec!WorkerEmits
  <2>7. ASSUME NEW kind \in {"result", "failure"}, Exec!WorkerReports(kind) PROVE ThreadsAgree'
    BY <2>7, SMTT(30) DEF Exec!WorkerReports
  <2> HIDE DEF ThreadsAgree
  <2> QED BY <2>1, <2>2, <2>3, <2>4, <2>5, <2>6, <2>7 DEF Exec!Worker
<1> QED BY <1>1, <1>2 DEF ExecInv

LEMMA SenderTypes == ASSUME Exec!TypeOK, NEW s \in senders, Exec!SenderSends(s) PROVE Exec!TypeOK'
<1>1. "dispatch_failed" \in Exec!Code BY DEF Exec!Code
<1>2. cmd' \in Job \cup {None} BY DEF Exec!TypeOK, Exec!SenderSends, Exec!Sending
<1>3. rec' \in Exec!Recycling \cup {None} /\ ready' \in BOOLEAN /\ job' \in Job \cup {None}
  BY <1>1, RecyclesTypes DEF Exec!TypeOK, Exec!SenderSends
<1> QED BY <1>2, <1>3 DEF Exec!TypeOK, Exec!SenderSends

\* A sender writes its job to the worker it was meant for, or starts a recycling of that
\* worker and that job.
LEMMA SenderStep ==
  ASSUME Apart, ExecInv, NEW s \in senders, Exec!SenderStarts(s) \/ Exec!SenderSends(s)
  PROVE  ExecInv'
<1>1. CASE Exec!SenderStarts(s)
  <2>1. Exec!TypeOK' BY <1>1 DEF Exec!SenderStarts, Exec!TypeOK, Exec!Sending, ExecInv, Exec!pipes
  <2>2. ThreadsAgree'
    BY <1>1, SMTT(30)
    DEF Exec!SenderStarts, Exec!Sendable, Apart, Exec!ExecutorAssumption, ExecInv, Exec!pipes,
        ThreadsAgree, ConnIsCurrent, SlotIsReady, KilledIsGone, WorkerIsPlain, AllServeTheSlot,
        OneTurn, WorkerWaits, CausesAreKept, SlotJob, NotKilled, Spoken, IsCause, Exec!TypeOK,
        Exec!WorkerState, Exec!Reply, Exec!Sending, Exec!Task, Exec!Sighting, Exec!Recycling,
        Exec!Code, Exec!NoWorker, Exec!NullAssumption
  <2> QED BY <2>1, <2>2 DEF ExecInv
<1>2. CASE Exec!SenderSends(s)
  <2>1. Exec!TypeOK' BY <1>2, SenderTypes DEF ExecInv
  <2>2. ThreadsAgree'
    BY <1>2, SMTT(30)
    DEF Exec!SenderSends, Exec!Recycles, Apart, Exec!ExecutorAssumption, ExecInv, Exec!pipes,
        ThreadsAgree, ConnIsCurrent, SlotIsReady, KilledIsGone, WorkerIsPlain, AllServeTheSlot,
        OneTurn, WorkerWaits, CausesAreKept, SlotJob, NotKilled, Spoken, IsCause, Exec!TypeOK,
        Exec!WorkerState, Exec!Reply, Exec!Sending, Exec!Task, Exec!Sighting, Exec!Recycling,
        Exec!Code, Exec!NoWorker, Exec!NullAssumption
  <2> QED BY <2>1, <2>2 DEF ExecInv
<1> QED BY <1>1, <1>2

-----------------------------------------------------------------------------
(* The monitor and the callbacks it runs *)

LEMMA MonitorStep == ASSUME Apart, ExecInv, Exec!Monitor PROVE ExecInv'
<1> USE DEF Apart, Exec!ExecutorAssumption, ExecInv, Exec!pipes
<1>1. ASSUME Exec!MonitorTakes PROVE ExecInv'
  <2>1. Exec!TypeOK' BY <1>1 DEF Exec!MonitorTakes, Exec!Busy, Exec!TypeOK, Exec!Reply, Exec!Task,
                                 Exec!Code
  <2>2. ThreadsAgree'
    BY <1>1, SMTT(30)
    DEF Exec!MonitorTakes, Exec!Busy, ThreadsAgree, ConnIsCurrent, SlotIsReady, KilledIsGone,
        WorkerIsPlain, AllServeTheSlot, OneTurn, WorkerWaits, CausesAreKept, SlotJob, NotKilled,
        Spoken, IsCause, Exec!TypeOK, Exec!WorkerState, Exec!Reply, Exec!Sending, Exec!Task,
        Exec!Sighting, Exec!Recycling, Exec!Code, Exec!NoWorker, Exec!NullAssumption
  <2> QED BY <2>1, <2>2
<1>2. ASSUME Exec!MonitorAcks PROVE ExecInv'
  <2> DEFINE failing == [monitor EXCEPT !.stage = "recycle", !.code = "worker_died"]
  <2>1. /\ failing \in Exec!Task
        /\ failing = [conn |-> monitor.conn, job |-> monitor.job, stage |-> "recycle",
                    note |-> monitor.note, code |-> "worker_died"]
    BY <1>2, TaskMoves DEF Exec!MonitorAcks, Exec!TypeOK, Exec!Code
  <2>2. Exec!TypeOK'
    <3>1. monitor' \in {None, failing} /\ cmd' \in Job \cup {None}
      BY <1>2 DEF Exec!MonitorAcks, Exec!TypeOK, Exec!Task
    <3> QED BY <1>2, <2>1, <3>1 DEF Exec!MonitorAcks, Exec!TypeOK
  <2> HIDE DEF failing
  <2>3. CASE ~ Exec!Sendable(monitor.conn, monitor.job)
    <3>1. ThreadsAgree'
      BY <1>2, <2>3, SMTT(30)
      DEF Exec!MonitorAcks, ThreadsAgree, ConnIsCurrent, SlotIsReady, KilledIsGone, WorkerIsPlain,
          AllServeTheSlot, OneTurn, WorkerWaits, CausesAreKept, SlotJob, NotKilled, Spoken, IsCause,
          Exec!TypeOK, Exec!WorkerState, Exec!Reply, Exec!Sending, Exec!Task, Exec!Sighting,
          Exec!Recycling, Exec!Code, Exec!NoWorker, Exec!NullAssumption
    <3> QED BY <3>1, <2>2
  <2>4. CASE Exec!Sendable(monitor.conn, monitor.job) /\ worker.st = "dead"
    <3>1. monitor' = failing /\ cmd' = cmd BY <1>2, <2>4 DEF Exec!MonitorAcks, failing
    <3>2. ThreadsAgree'
      BY <1>2, <2>1, <2>4, <3>1, SMTT(30)
      DEF Exec!MonitorAcks, Exec!Sendable, ThreadsAgree, ConnIsCurrent, SlotIsReady, KilledIsGone,
          WorkerIsPlain, AllServeTheSlot, OneTurn, WorkerWaits, CausesAreKept, SlotJob, NotKilled,
          Spoken, IsCause, Exec!TypeOK, Exec!WorkerState, Exec!Reply, Exec!Sending, Exec!Task,
          Exec!Sighting, Exec!Recycling, Exec!Code, Exec!NoWorker, Exec!NullAssumption
    <3> QED BY <3>2, <2>2
  <2>5. CASE Exec!Sendable(monitor.conn, monitor.job) /\ worker.st # "dead"
    <3>1. ThreadsAgree'
      BY <1>2, <2>5, SMTT(30)
      DEF Exec!MonitorAcks, Exec!Sendable, ThreadsAgree, ConnIsCurrent, SlotIsReady, KilledIsGone,
          WorkerIsPlain, AllServeTheSlot, OneTurn, WorkerWaits, CausesAreKept, SlotJob, NotKilled,
          Spoken, IsCause, Exec!TypeOK, Exec!WorkerState, Exec!Reply, Exec!Sending, Exec!Task,
          Exec!Sighting, Exec!Recycling, Exec!Code, Exec!NoWorker, Exec!NullAssumption
    <3> QED BY <3>1, <2>2
  <2> QED BY <2>3, <2>4, <2>5
<1>3. ASSUME Exec!MonitorClears PROVE ExecInv'
  <2>1. Exec!TypeOK' BY <1>3 DEF Exec!MonitorClears, Exec!TypeOK
  <2>2. ThreadsAgree'
    BY <1>3, SMTT(30)
    DEF Exec!MonitorClears, ThreadsAgree, ConnIsCurrent, SlotIsReady, KilledIsGone, WorkerIsPlain,
        AllServeTheSlot, OneTurn, WorkerWaits, CausesAreKept, SlotJob, NotKilled, Spoken, IsCause,
        Exec!TypeOK, Exec!WorkerState, Exec!Reply, Exec!Sending, Exec!Task, Exec!Sighting,
        Exec!Recycling, Exec!Code, Exec!NoWorker, Exec!NullAssumption
  <2> QED BY <2>1, <2>2
<1>4. ASSUME Exec!MonitorRecycles PROVE ExecInv'
  <2>1. monitor.code \in Exec!Code BY <1>4 DEF Exec!MonitorRecycles, ThreadsAgree, CausesAreKept
  <2>2. Exec!TypeOK' BY <1>4, <2>1, RecyclesTypes DEF Exec!MonitorRecycles, Exec!TypeOK
  <2>3. CASE conn = monitor.conn /\ job = monitor.job /\ rec = None
    <3>1. rec' # None /\ NotKilled /\ NotKilled' /\ SlotJob' = SlotJob
      BY <1>4, <2>1, <2>3, SlotIsTaken DEF Exec!MonitorRecycles, Exec!Recycles
    <3>2. AllServeTheSlot'
      BY <1>4, <2>3, <3>1 DEF Exec!MonitorRecycles, Exec!Recycles, ThreadsAgree, AllServeTheSlot,
                              Spoken
    <3>3. (OneTurn /\ WorkerWaits)'
      BY <1>4, <2>3, <3>1 DEF Exec!MonitorRecycles, Exec!Recycles, ThreadsAgree, OneTurn,
                              WorkerWaits, Spoken
    <3>4. (ConnIsCurrent /\ SlotIsReady /\ KilledIsGone /\ WorkerIsPlain /\ CausesAreKept)'
      BY <1>4, <2>3, <3>1, SMTT(30)
      DEF Exec!MonitorRecycles, Exec!Recycles, ThreadsAgree, ConnIsCurrent, SlotIsReady,
          KilledIsGone, WorkerIsPlain, AllServeTheSlot, OneTurn, WorkerWaits, CausesAreKept,
          SlotJob, NotKilled, Spoken, IsCause, Exec!TypeOK, Exec!WorkerState, Exec!Reply,
          Exec!Sending, Exec!Task, Exec!Sighting, Exec!Recycling, Exec!Code, Exec!NoWorker,
          Exec!NullAssumption
    <3> QED BY <2>2, <3>2, <3>3, <3>4 DEF ThreadsAgree
  <2>4. CASE ~ (conn = monitor.conn /\ job = monitor.job /\ rec = None)
    <3>1. ThreadsAgree'
      BY <1>4, <2>4, SMTT(30)
      DEF Exec!MonitorRecycles, Exec!Recycles, ThreadsAgree, ConnIsCurrent, SlotIsReady,
          KilledIsGone, WorkerIsPlain, AllServeTheSlot, OneTurn, WorkerWaits, CausesAreKept,
          SlotJob, NotKilled, Spoken, IsCause, Exec!TypeOK, Exec!WorkerState, Exec!Reply,
          Exec!Sending, Exec!Task, Exec!Sighting, Exec!Recycling, Exec!Code, Exec!NoWorker,
          Exec!NullAssumption
    <3> QED BY <2>2, <3>1
  <2> QED BY <2>3, <2>4
<1> QED BY <1>1, <1>2, <1>3, <1>4 DEF Exec!Monitor

Refusals == {"agent_failure", "budget_exceeded"}

LEMMA CallbackStep ==
  ASSUME Apart, ExecInv,
         \/ Exec!EventAccepted \/ Exec!ResultHandled \/ Exec!ResultRefused
         \/ \E code \in Refusals : Exec!EventRefused(code)
  PROVE  ExecInv'
<1> USE DEF Apart, Exec!ExecutorAssumption, ExecInv, Exec!pipes
<1>1. ASSUME NEW stage \in {"ack", "clear", "recycle"}, NEW code \in Exec!Code \cup {None},
             monitor # None, Exec!MonitorMoves(stage, code),
             stage = "ack" => monitor.stage = "event",
             stage = "clear" => monitor.stage = "result",
             stage = "recycle" => code \in Refusals,
             told' \in [Job -> SUBSET [code : Exec!Code \cup {"result"}, conn : Nat]]
      PROVE  ExecInv'
  <2>1. /\ monitor' \in Exec!Task
        /\ monitor' = [conn |-> monitor.conn, job |-> monitor.job, stage |-> stage,
                       note |-> monitor.note, code |-> code]
    BY <1>1, TaskMoves DEF Exec!MonitorMoves, Exec!TypeOK
  <2>2. Exec!TypeOK' BY <1>1, <2>1 DEF Exec!MonitorMoves, Exec!TypeOK
  <2>3. ThreadsAgree'
    BY <1>1, <2>1, SMTT(30)
    DEF Exec!MonitorMoves, Refusals, ThreadsAgree, ConnIsCurrent, SlotIsReady, KilledIsGone,
        WorkerIsPlain, AllServeTheSlot, OneTurn, WorkerWaits, CausesAreKept, SlotJob, NotKilled,
        Spoken, IsCause, Exec!TypeOK, Exec!WorkerState, Exec!Reply, Exec!Sending, Exec!Task,
        Exec!Sighting, Exec!Recycling, Exec!Code, Exec!NoWorker, Exec!NullAssumption
  <2> QED BY <2>2, <2>3
<1>2. CASE Exec!EventAccepted BY <1>1, <1>2 DEF Exec!EventAccepted, Exec!TypeOK
<1>3. CASE Exec!ResultHandled
  <2>1. [code |-> "result", conn |-> monitor.conn]
          \in [code : Exec!Code \cup {"result"}, conn : Nat]
    BY <1>3 DEF Exec!TypeOK, Exec!ResultHandled, Exec!Task
  <2>2. told' \in [Job -> SUBSET [code : Exec!Code \cup {"result"}, conn : Nat]]
    BY <1>3, <2>1 DEF Exec!TypeOK, Exec!ResultHandled
  <2> QED BY <1>1, <1>3, <2>2 DEF Exec!ResultHandled
<1>4. CASE Exec!ResultRefused BY <1>1, <1>4 DEF Exec!ResultRefused, Exec!TypeOK, Exec!Code, Refusals
<1>5. ASSUME NEW code \in Refusals, Exec!EventRefused(code) PROVE ExecInv'
  BY <1>1, <1>5 DEF Exec!EventRefused, Exec!TypeOK, Exec!Code, Refusals
<1> QED BY <1>2, <1>3, <1>4, <1>5

-----------------------------------------------------------------------------
(* The watchdog and the recycling *)

LEMMA WatchStep == ASSUME Apart, ExecInv, Exec!WatchSees \/ Exec!WatchRecycles PROVE ExecInv'
<1> USE DEF Apart, Exec!ExecutorAssumption, ExecInv, Exec!pipes
<1>1. ASSUME Exec!WatchSees PROVE ExecInv'
  <2>1. Exec!TypeOK' BY <1>1 DEF Exec!WatchSees, Exec!TypeOK, Exec!Sighting, ThreadsAgree,
                                 SlotIsReady
  <2>2. ThreadsAgree'
    BY <1>1, SMTT(30)
    DEF Exec!WatchSees, ThreadsAgree, ConnIsCurrent, SlotIsReady, KilledIsGone, WorkerIsPlain,
        AllServeTheSlot, OneTurn, WorkerWaits, CausesAreKept, SlotJob, NotKilled, Spoken, IsCause,
        Exec!TypeOK, Exec!WorkerState, Exec!Reply, Exec!Sending, Exec!Task, Exec!Sighting,
        Exec!Recycling, Exec!Code, Exec!NoWorker, Exec!NullAssumption
  <2> QED BY <2>1, <2>2
<1>2. ASSUME Exec!WatchRecycles PROVE ExecInv'
  <2>1. watch.code \in Exec!Code BY <1>2 DEF Exec!WatchRecycles, Exec!TypeOK, Exec!Sighting,
                                             Exec!Code
  <2>2. Exec!TypeOK' BY <1>2, <2>1, RecyclesTypes DEF Exec!WatchRecycles, Exec!TypeOK
  <2>3. CASE conn = watch.conn /\ job = watch.job /\ rec = None
    <3>1. rec' # None /\ NotKilled /\ NotKilled' /\ SlotJob' = SlotJob
      BY <1>2, <2>1, <2>3, SlotIsTaken DEF Exec!WatchRecycles, Exec!Recycles
    <3>2. AllServeTheSlot'
      BY <1>2, <2>3, <3>1 DEF Exec!WatchRecycles, Exec!Recycles, ThreadsAgree, AllServeTheSlot,
                              Spoken
    <3>3. (OneTurn /\ WorkerWaits)'
      BY <1>2, <2>3, <3>1 DEF Exec!WatchRecycles, Exec!Recycles, ThreadsAgree, OneTurn,
                              WorkerWaits, Spoken
    <3>4. (ConnIsCurrent /\ SlotIsReady /\ KilledIsGone /\ WorkerIsPlain /\ CausesAreKept)'
      BY <1>2, <2>3, <3>1, SMTT(30)
      DEF Exec!WatchRecycles, Exec!Recycles, ThreadsAgree, ConnIsCurrent, SlotIsReady, KilledIsGone,
          WorkerIsPlain, AllServeTheSlot, OneTurn, WorkerWaits, CausesAreKept, SlotJob, NotKilled,
          Spoken, IsCause, Exec!TypeOK, Exec!WorkerState, Exec!Reply, Exec!Sending, Exec!Task,
          Exec!Sighting, Exec!Recycling, Exec!Code, Exec!NoWorker, Exec!NullAssumption
    <3> QED BY <2>2, <3>2, <3>3, <3>4 DEF ThreadsAgree
  <2>4. CASE ~ (conn = watch.conn /\ job = watch.job /\ rec = None)
    <3>1. ThreadsAgree'
      BY <1>2, <2>4, SMTT(30)
      DEF Exec!WatchRecycles, Exec!Recycles, ThreadsAgree, ConnIsCurrent, SlotIsReady, KilledIsGone,
          WorkerIsPlain, AllServeTheSlot, OneTurn, WorkerWaits, CausesAreKept, SlotJob, NotKilled,
          Spoken, IsCause, Exec!TypeOK, Exec!WorkerState, Exec!Reply, Exec!Sending, Exec!Task,
          Exec!Sighting, Exec!Recycling, Exec!Code, Exec!NoWorker, Exec!NullAssumption
    <3> QED BY <2>2, <3>1
  <2> QED BY <2>3, <2>4
<1> QED BY <1>1, <1>2

LEMMA RecycleStep == ASSUME Apart, ExecInv, Exec!Recycle \/ Exec!RespawnFails PROVE ExecInv'
<1> USE DEF Apart, Exec!ExecutorAssumption, ExecInv, Exec!pipes
<1>1. ASSUME Exec!RecycleKills PROVE ExecInv'
  <2>1. /\ rec' \in Exec!Recycling /\ rec'.stage # "kill"
        /\ rec'.conn = rec.conn /\ rec'.job = rec.job /\ rec'.code = rec.code
        /\ rec'.stage = "notify" => rec.job # None
    <3> DEFINE stage == IF rec.job = None THEN "respawn" ELSE "notify"
    <3>1. rec \in Exec!Recycling /\ rec' = [rec EXCEPT !.stage = stage]
      BY <1>1 DEF Exec!RecycleKills, Exec!TypeOK
    <3>2. stage \in {"kill", "notify", "respawn", "stuck"} /\ stage # "kill"
            /\ (stage = "notify" => rec.job # None)
      OBVIOUS
    <3> HIDE DEF stage
    <3> QED BY <3>1, <3>2, RecyclingMoves
  <2>2. Exec!TypeOK' BY <1>1, <2>1, FreshWorkers DEF Exec!RecycleKills, Exec!TypeOK, ExecProcess
  <2>3. ThreadsAgree'
    <3>1. rec' # None BY <2>1 DEF Exec!NullAssumption
    <3>2. UNCHANGED <<life, spawned, conn, ready, job, due, senders, monitor, watch, told, died>>
          /\ worker' = Exec!NoWorker /\ wire' = None /\ cmd' = None /\ rec # None
      BY <1>1 DEF Exec!RecycleKills
    <3> QED BY <2>1, <3>1, <3>2, SMTT(30)
    DEF ThreadsAgree, ConnIsCurrent, SlotIsReady, KilledIsGone, WorkerIsPlain, AllServeTheSlot,
        OneTurn, WorkerWaits, CausesAreKept, SlotJob, NotKilled, Spoken, IsCause, Exec!TypeOK,
        Exec!WorkerState, Exec!Reply, Exec!Sending, Exec!Task, Exec!Sighting, Exec!Recycling,
        Exec!Code, Exec!NoWorker, Exec!NullAssumption
  <2> QED BY <2>2, <2>3
<1>2. ASSUME Exec!RecycleNotifies PROVE ExecInv'
  <2>1. /\ rec' \in Exec!Recycling /\ rec'.stage = "respawn"
        /\ rec'.conn = rec.conn /\ rec'.job = rec.job /\ rec'.code = rec.code
    <3>1. rec \in Exec!Recycling /\ rec' = [rec EXCEPT !.stage = "respawn"]
      BY <1>2 DEF Exec!RecycleNotifies, Exec!TypeOK
    <3> QED BY <3>1, RecyclingMoves
  <2>2. told' \in [Job -> SUBSET [code : Exec!Code \cup {"result"}, conn : Nat]]
    <3>1. rec.job # None =>
            [code |-> rec.code, conn |-> rec.conn]
              \in [code : Exec!Code \cup {"result"}, conn : Nat]
      BY <1>2 DEF Exec!TypeOK, Exec!RecycleNotifies, Exec!Recycling, ThreadsAgree, CausesAreKept
    <3>2. rec.job = None => told' = told
      BY <1>2 DEF Exec!TypeOK, Exec!RecycleNotifies
    <3>3. CASE rec.job \in Job
      <4> DEFINE e == [code |-> rec.code, conn |-> rec.conn]
      <4>1. e \in [code : Exec!Code \cup {"result"}, conn : Nat] BY <3>1, <3>3
      <4>2. told' = [told EXCEPT ![rec.job] = @ \cup {e}] BY <1>2 DEF Exec!RecycleNotifies
      <4> HIDE DEF e
      <4> QED BY <4>1, <4>2, <3>3 DEF Exec!TypeOK
    <3>4. rec.job \in Job \cup {None} BY <1>2 DEF Exec!RecycleNotifies, Exec!TypeOK, Exec!Recycling
    <3> QED BY <3>2, <3>3, <3>4 DEF Exec!TypeOK
  <2>3. Exec!TypeOK' BY <1>2, <2>1, <2>2 DEF Exec!RecycleNotifies, Exec!TypeOK
  <2>4. ThreadsAgree'
    <3>1. rec' # None BY <2>1 DEF Exec!NullAssumption
    <3>2. UNCHANGED <<life, spawned, conn, ready, job, due, worker, wire, cmd, senders, monitor,
                      watch, died>>
          /\ rec # None /\ rec.stage # "kill"
      BY <1>2 DEF Exec!RecycleNotifies
    <3> QED BY <2>1, <3>1, <3>2, SMTT(30)
    DEF ThreadsAgree, ConnIsCurrent, SlotIsReady, KilledIsGone, WorkerIsPlain, AllServeTheSlot,
        OneTurn, WorkerWaits, CausesAreKept, SlotJob, NotKilled, Spoken, IsCause, Exec!TypeOK,
        Exec!WorkerState, Exec!Reply, Exec!Sending, Exec!Task, Exec!Sighting, Exec!Recycling,
        Exec!Code, Exec!NoWorker, Exec!NullAssumption
  <2> QED BY <2>3, <2>4
<1>3. ASSUME Exec!RecycleRespawns PROVE ExecInv'
  <2>1. worker' \in ExecProcess BY <1>3, FreshWorkers DEF Exec!RecycleRespawns, Exec!Spawn,
                                                          Exec!TypeOK, ExecProcess
  <2>2. spawned' \in Nat /\ conn' \in Nat \cup {None} BY <1>3
    DEF Exec!RecycleRespawns, Exec!Spawn, Exec!TypeOK
  <2>r. ready' \in BOOLEAN BY <1>3, Zenon DEF Exec!RecycleRespawns, Exec!Spawn, Exec!TypeOK
  <2>3. wire' \in Exec!Reply \cup {None} /\ cmd' \in Job \cup {None}
    BY <1>3 DEF Exec!RecycleRespawns, Exec!Spawn, Exec!TypeOK
  <2>4. Exec!TypeOK' BY <1>3, <2>1, <2>2, <2>r, <2>3 DEF Exec!RecycleRespawns, Exec!TypeOK,
                                                         ExecProcess
  <2>5. ThreadsAgree'
    BY <1>3, SMTT(30)
    DEF Exec!RecycleRespawns, Exec!Spawn, Exec!NewWorker, ThreadsAgree, ConnIsCurrent, SlotIsReady,
        KilledIsGone, WorkerIsPlain, AllServeTheSlot, OneTurn, WorkerWaits, CausesAreKept, SlotJob,
        NotKilled, Spoken, IsCause, Exec!TypeOK, Exec!WorkerState, Exec!Reply, Exec!Sending,
        Exec!Task, Exec!Sighting, Exec!Recycling, Exec!Code, Exec!NoWorker, Exec!NullAssumption
  <2> QED BY <2>4, <2>5
<1>4. ASSUME Exec!RespawnFails PROVE ExecInv'
  <2>1. Exec!TypeOK' BY <1>4, RecyclingMoves DEF Exec!RespawnFails, Exec!TypeOK
  <2>2. ThreadsAgree'
    BY <1>4, SMTT(30)
    DEF Exec!RespawnFails, ThreadsAgree, ConnIsCurrent, SlotIsReady, KilledIsGone, WorkerIsPlain,
        AllServeTheSlot, OneTurn, WorkerWaits, CausesAreKept, SlotJob, NotKilled, Spoken, IsCause,
        Exec!TypeOK, Exec!WorkerState, Exec!Reply, Exec!Sending, Exec!Task, Exec!Sighting,
        Exec!Recycling, Exec!Code, Exec!NoWorker, Exec!NullAssumption
  <2> QED BY <2>1, <2>2
<1> QED BY <1>1, <1>2, <1>3, <1>4 DEF Exec!Recycle

-----------------------------------------------------------------------------
(* Callers: start, submit, close, and time *)

LEMMA CallerStep ==
  ASSUME Apart, ExecInv,
         \/ Exec!Start \/ Exec!CloseBegins \/ Exec!CloseWaits \/ Exec!CloseRecycles
         \/ \E j \in Job : Exec!Submit(j) \/ Exec!DeadlinePasses(j)
  PROVE  ExecInv'
<1> USE DEF Apart, Exec!ExecutorAssumption, ExecInv, Exec!pipes
<1>1. ASSUME Exec!Start PROVE ExecInv'
  <2>1. worker' \in ExecProcess BY <1>1, FreshWorkers DEF Exec!Start, Exec!Spawn
  <2>2. spawned' \in Nat /\ conn' \in Nat \cup {None} BY <1>1
    DEF Exec!Start, Exec!Spawn, Exec!TypeOK
  <2>r. ready' \in BOOLEAN BY <1>1, Zenon DEF Exec!Start, Exec!Spawn, Exec!TypeOK
  <2>3. wire' \in Exec!Reply \cup {None} /\ cmd' \in Job \cup {None}
    BY <1>1 DEF Exec!Start, Exec!Spawn, Exec!TypeOK
  <2>4. Exec!TypeOK' BY <1>1, <2>1, <2>2, <2>r, <2>3 DEF Exec!Start, Exec!TypeOK, ExecProcess
  <2>5. ThreadsAgree'
    BY <1>1, SMTT(30)
    DEF Exec!Start, Exec!Spawn, Exec!NewWorker, ThreadsAgree, ConnIsCurrent, SlotIsReady,
        KilledIsGone, WorkerIsPlain, AllServeTheSlot, OneTurn, WorkerWaits, CausesAreKept, SlotJob,
        NotKilled, Spoken, IsCause, Exec!TypeOK, Exec!WorkerState, Exec!Reply, Exec!Sending,
        Exec!Task, Exec!Sighting, Exec!Recycling, Exec!Code, Exec!NoWorker, Exec!NullAssumption
  <2> QED BY <2>4, <2>5
<1>2. ASSUME NEW j \in Job, Exec!Submit(j) PROVE ExecInv'
  <2> DEFINE mine == [conn |-> conn, job |-> j, st |-> "new"]
  <2>1. /\ job = None /\ rec = None /\ ready /\ conn = spawned /\ conn \in Nat
        /\ SlotJob = None /\ NotKilled /\ worker.st # "starting"
    BY <1>2 DEF Exec!Submit, Exec!Submittable, Exec!Ready, ThreadsAgree, ConnIsCurrent,
                SlotIsReady, Exec!TypeOK, SlotJob, NotKilled
  <2>2. mine \in Exec!Sending /\ \A s \in senders' : s \in senders \/ s = mine
    BY <1>2, <2>1 DEF Exec!Submit, Exec!Sending
  <2>3. Exec!TypeOK' BY <1>2, <2>2 DEF Exec!Submit, Exec!TypeOK
  <2>4. cmd = None /\ worker.job = None /\ worker.st \in {"idle", "dead"}
    BY <2>1 DEF ThreadsAgree, AllServeTheSlot, WorkerIsPlain
  <2>5. \A s \in senders : s.conn # conn
    BY <2>1 DEF ThreadsAgree, AllServeTheSlot, Exec!TypeOK, Exec!Sending
  <2>6. monitor = None
    BY <2>1 DEF ThreadsAgree, AllServeTheSlot, SlotIsReady, Exec!TypeOK, Exec!Task
  <2>7. ~ Spoken BY <2>1 DEF ThreadsAgree, AllServeTheSlot
  <2>8. (ConnIsCurrent /\ SlotIsReady /\ KilledIsGone /\ WorkerIsPlain /\ CausesAreKept)'
    BY <1>2, <2>1, <2>2, SMTT(30)
    DEF Exec!Submit, ThreadsAgree, ConnIsCurrent, SlotIsReady, KilledIsGone, WorkerIsPlain,
        AllServeTheSlot, OneTurn, WorkerWaits, CausesAreKept, SlotJob, NotKilled, Spoken, IsCause,
        Exec!TypeOK, Exec!WorkerState, Exec!Reply, Exec!Sending, Exec!Task, Exec!Sighting,
        Exec!Recycling, Exec!Code, Exec!NoWorker, Exec!NullAssumption
  <2>9. (AllServeTheSlot /\ OneTurn /\ WorkerWaits)'
    BY <1>2, <2>1, <2>2, <2>4, <2>5, <2>6, <2>7, SMTT(30)
    DEF Exec!Submit, AllServeTheSlot, OneTurn, WorkerWaits, NotKilled, SlotJob, Spoken
  <2> QED BY <2>3, <2>8, <2>9 DEF ThreadsAgree
<1>3. ASSUME NEW j \in Job, Exec!DeadlinePasses(j) PROVE ExecInv'
  <2>1. Exec!TypeOK' BY <1>3 DEF Exec!DeadlinePasses, Exec!TypeOK
  <2>2. ThreadsAgree'
    BY <1>3, SMTT(30)
    DEF Exec!DeadlinePasses, ThreadsAgree, ConnIsCurrent, SlotIsReady, KilledIsGone, WorkerIsPlain,
        AllServeTheSlot, OneTurn, WorkerWaits, CausesAreKept, SlotJob, NotKilled, Spoken, IsCause,
        Exec!TypeOK, Exec!WorkerState, Exec!Reply, Exec!Sending, Exec!Task, Exec!Sighting,
        Exec!Recycling, Exec!Code, Exec!NoWorker, Exec!NullAssumption
  <2> QED BY <2>1, <2>2
<1>4. ASSUME Exec!CloseBegins \/ Exec!CloseWaits PROVE ExecInv'
  <2>1. Exec!TypeOK' BY <1>4 DEF Exec!CloseBegins, Exec!CloseWaits, Exec!TypeOK
  <2>2. ThreadsAgree'
    BY <1>4, SMTT(30)
    DEF Exec!CloseBegins, Exec!CloseWaits, ThreadsAgree, ConnIsCurrent, SlotIsReady, KilledIsGone,
        WorkerIsPlain, AllServeTheSlot, OneTurn, WorkerWaits, CausesAreKept, SlotJob, NotKilled,
        Spoken, IsCause, Exec!TypeOK, Exec!WorkerState, Exec!Reply, Exec!Sending, Exec!Task,
        Exec!Sighting, Exec!Recycling, Exec!Code, Exec!NoWorker, Exec!NullAssumption
  <2> QED BY <2>1, <2>2
<1>5. ASSUME Exec!CloseRecycles PROVE ExecInv'
  <2>1. CASE rec = None
    <3>1. "server_restarted" \in Exec!Code /\ FALSE \in BOOLEAN BY DEF Exec!Code
    <3>2. rec' = [conn |-> conn, job |-> job, code |-> "server_restarted", restart |-> FALSE,
                  stage |-> "kill"]
      BY <1>5, <2>1 DEF Exec!CloseRecycles
    <3>3. rec' \in Exec!Recycling /\ rec' # None /\ NotKilled /\ NotKilled' /\ SlotJob' = SlotJob
      BY <2>1, <3>1, <3>2, SlotIsTaken
    <3>4. Exec!TypeOK' BY <1>5, <2>1, <3>3 DEF Exec!CloseRecycles, Exec!TypeOK
    <3>5. AllServeTheSlot'
      BY <1>5, <2>1, <3>3 DEF Exec!CloseRecycles, ThreadsAgree, AllServeTheSlot, Spoken
    <3>6. (OneTurn /\ WorkerWaits)'
      BY <1>5, <2>1, <3>3 DEF Exec!CloseRecycles, ThreadsAgree, OneTurn, WorkerWaits, Spoken
    <3>7. (ConnIsCurrent /\ SlotIsReady /\ KilledIsGone /\ WorkerIsPlain /\ CausesAreKept)'
      BY <1>5, <2>1, <3>2, <3>3, SMTT(30)
      DEF Exec!CloseRecycles, ThreadsAgree, ConnIsCurrent, SlotIsReady, KilledIsGone, WorkerIsPlain,
          AllServeTheSlot, OneTurn, WorkerWaits, CausesAreKept, SlotJob, NotKilled, Spoken, IsCause,
          Exec!TypeOK, Exec!WorkerState, Exec!Reply, Exec!Sending, Exec!Task, Exec!Sighting,
          Exec!Recycling, Exec!Code, Exec!NoWorker, Exec!NullAssumption
    <3> QED BY <3>4, <3>5, <3>6, <3>7 DEF ThreadsAgree
  <2>2. CASE rec # None
    <3>1. Exec!TypeOK' BY <1>5, <2>2 DEF Exec!CloseRecycles, Exec!TypeOK
    <3>2. ThreadsAgree'
      BY <1>5, <2>2, SMTT(30)
      DEF Exec!CloseRecycles, ThreadsAgree, ConnIsCurrent, SlotIsReady, KilledIsGone, WorkerIsPlain,
          AllServeTheSlot, OneTurn, WorkerWaits, CausesAreKept, SlotJob, NotKilled, Spoken, IsCause,
          Exec!TypeOK, Exec!WorkerState, Exec!Reply, Exec!Sending, Exec!Task, Exec!Sighting,
          Exec!Recycling, Exec!Code, Exec!NoWorker, Exec!NullAssumption
    <3> QED BY <3>1, <3>2
  <2> QED BY <2>1, <2>2
<1> QED BY <1>1, <1>2, <1>3, <1>4, <1>5

-----------------------------------------------------------------------------
(* The invariant, and what the runs check *)

LEMMA ExecInvInit == ASSUME Apart, Exec!Init PROVE ExecInv
<1>1. Exec!TypeOK BY FreshWorkers DEF Exec!Init, Exec!TypeOK, ExecProcess
<1>2. ThreadsAgree
  BY DEF Apart, Exec!ExecutorAssumption, Exec!Init, Exec!NoWorker, ThreadsAgree, ConnIsCurrent,
         SlotIsReady, KilledIsGone, WorkerIsPlain, AllServeTheSlot, OneTurn, WorkerWaits,
         CausesAreKept, SlotJob, NotKilled, Spoken, IsCause
<1> QED BY <1>1, <1>2 DEF ExecInv

\* The executor keeps its invariant whatever its callers and its callbacks do: any job may
\* be submitted any number of times, an event or a result may be accepted or refused.
LEMMA ExecInvStep == ASSUME Apart, ExecInv, ExecStep PROVE ExecInv'
BY WorkerStep, SenderStep, MonitorStep, CallbackStep, WatchStep, RecycleStep, CallerStep
   DEF ExecStep, Refusals

LEMMA ExecStutter == ASSUME ExecInv, UNCHANGED Exec!vars PROVE ExecInv'
BY DEF Exec!vars, Exec!pipes, ExecInv, Exec!TypeOK, ThreadsAgree, ConnIsCurrent, SlotIsReady,
       KilledIsGone, WorkerIsPlain,
       AllServeTheSlot, OneTurn, WorkerWaits, CausesAreKept, SlotJob, NotKilled, Spoken, IsCause

LEMMA NextIsStep == Exec!Next => ExecStep
BY DEF Exec!Next, ExecStep, Exec!Callback

\* Deadlines stay passed, deaths stay deaths, a closed executor stays closed.
LEMMA CausesStay ==
  ASSUME ExecStep
  PROVE  due \subseteq due' /\ died \subseteq died' /\ (life = "closed" => life' = "closed")
<1> USE DEF Exec!pipes
<1>1. CASE Exec!Worker
  BY <1>1 DEF Exec!Worker, Exec!WorkerReady, Exec!WorkerTakes, Exec!WorkerEmits, Exec!WorkerResumes,
              Exec!WorkerProceeds, Exec!WorkerReports, Exec!WorkerDies
<1>2. CASE Exec!Monitor \/ Exec!EventAccepted \/ Exec!ResultHandled \/ Exec!ResultRefused
           \/ \E code \in {"agent_failure", "budget_exceeded"} : Exec!EventRefused(code)
  BY <1>2 DEF Exec!Monitor, Exec!MonitorTakes, Exec!MonitorAcks, Exec!MonitorClears,
              Exec!MonitorRecycles, Exec!MonitorMoves,
              Exec!EventAccepted, Exec!EventRefused, Exec!ResultHandled, Exec!ResultRefused
<1>3. CASE Exec!Recycle \/ Exec!RespawnFails \/ Exec!WatchSees \/ Exec!WatchRecycles
           \/ \E s \in senders : Exec!SenderStarts(s) \/ Exec!SenderSends(s)
  BY <1>3 DEF Exec!Recycle, Exec!RecycleKills, Exec!RecycleNotifies, Exec!RecycleRespawns,
              Exec!RespawnFails, Exec!WatchSees,
              Exec!WatchRecycles, Exec!SenderStarts, Exec!SenderSends
<1>4. CASE Exec!Start \/ Exec!CloseBegins \/ Exec!CloseWaits \/ Exec!CloseRecycles
           \/ \E j \in Job : Exec!Submit(j) \/ Exec!DeadlinePasses(j)
  BY <1>4 DEF Exec!Start, Exec!CloseBegins, Exec!CloseWaits, Exec!CloseRecycles, Exec!Submit,
              Exec!DeadlinePasses
<1> QED BY <1>1, <1>2, <1>3, <1>4 DEF ExecStep

\* A callback is made for a recycling or for a result; no other step makes one.
LEMMA OnlyCallbacksTell ==
  ASSUME ExecStep PROVE told' = told \/ Exec!RecycleNotifies \/ Exec!ResultHandled
<1> USE DEF Exec!pipes
<1>1. CASE Exec!Worker
  BY <1>1 DEF Exec!Worker, Exec!WorkerReady, Exec!WorkerTakes, Exec!WorkerEmits, Exec!WorkerResumes,
              Exec!WorkerProceeds, Exec!WorkerReports, Exec!WorkerDies
<1>2. CASE Exec!Monitor \/ Exec!EventAccepted \/ Exec!ResultHandled \/ Exec!ResultRefused
           \/ \E code \in {"agent_failure", "budget_exceeded"} : Exec!EventRefused(code)
  BY <1>2 DEF Exec!Monitor, Exec!MonitorTakes, Exec!MonitorAcks, Exec!MonitorClears,
              Exec!MonitorRecycles, Exec!MonitorMoves,
              Exec!EventAccepted, Exec!EventRefused, Exec!ResultRefused
<1>3. CASE Exec!Recycle \/ Exec!RespawnFails \/ Exec!WatchSees \/ Exec!WatchRecycles
           \/ \E s \in senders : Exec!SenderStarts(s) \/ Exec!SenderSends(s)
  BY <1>3 DEF Exec!Recycle, Exec!RecycleKills, Exec!RecycleRespawns, Exec!RespawnFails,
              Exec!WatchSees, Exec!WatchRecycles, Exec!SenderStarts, Exec!SenderSends
<1>4. CASE Exec!Start \/ Exec!CloseBegins \/ Exec!CloseWaits \/ Exec!CloseRecycles
           \/ \E j \in Job : Exec!Submit(j) \/ Exec!DeadlinePasses(j)
  BY <1>4 DEF Exec!Start, Exec!CloseBegins, Exec!CloseWaits, Exec!CloseRecycles, Exec!Submit,
              Exec!DeadlinePasses
<1> QED BY <1>1, <1>2, <1>3, <1>4 DEF ExecStep

LEMMA CausesStep == ASSUME Apart, ExecInv, ExecStep, Exec!CausesAreReal PROVE Exec!CausesAreReal'
<1>1. due \subseteq due' /\ died \subseteq died' /\ (life = "closed" => life' = "closed")
  BY CausesStay
<1>2. CASE told' = told BY <1>1, <1>2 DEF Exec!CausesAreReal
<1>3. CASE Exec!RecycleNotifies
  <2>1. rec # None /\ IsCause(rec.code, rec.conn, rec.job)
    BY <1>3 DEF Exec!RecycleNotifies, ExecInv, ThreadsAgree, CausesAreKept
  <2>2. \A j \in Job : \A t \in told'[j] :
          t \in told[j] \/ (j = rec.job /\ t = [code |-> rec.code, conn |-> rec.conn])
    <3> DEFINE e == [code |-> rec.code, conn |-> rec.conn]
    <3>1. told' = [told EXCEPT ![rec.job] = @ \cup {e}] /\ DOMAIN told = Job
      BY <1>3 DEF Exec!RecycleNotifies, ExecInv, Exec!TypeOK
    <3> HIDE DEF e
    <3>2. \A j \in Job : \A t \in told'[j] : t \in told[j] \/ (j = rec.job /\ t = e)
      <4> TAKE j \in Job
      <4>1. CASE j = rec.job
        <5>1. told'[j] = told[j] \cup {e} BY <3>1, <4>1
        <5> QED BY <5>1, <4>1
      <4>2. CASE j # rec.job
        <5>1. told'[j] = told[j] BY <3>1, <4>2
        <5> QED BY <5>1
      <4> QED BY <4>1, <4>2
    <3> QED BY <3>2 DEF e
  <2> QED BY <1>1, <2>1, <2>2 DEF Exec!CausesAreReal, IsCause
<1>4. CASE Exec!ResultHandled
  <2>1. \A j \in Job : \A t \in told'[j] :
          t \in told[j] \/ t = [code |-> "result", conn |-> monitor.conn]
    BY <1>4 DEF Exec!ResultHandled, ExecInv, Exec!TypeOK
  <2> QED BY <1>1, <2>1 DEF Exec!CausesAreReal
<1> QED BY <1>2, <1>3, <1>4, OnlyCallbacksTell

LEMMA CausesInit == ASSUME Exec!Init PROVE Exec!CausesAreReal
BY DEF Exec!Init, Exec!CausesAreReal

LEMMA ExecServes == ASSUME ExecInv PROVE Exec!WorkerServesTheSlot
BY DEF ExecInv, ThreadsAgree, AllServeTheSlot, NotKilled, SlotJob, Exec!WorkerServesTheSlot

LEMMA ExecWatches == ASSUME Apart, ExecInv PROVE Exec!SlotIsWatched
BY DEF Apart, Exec!ExecutorAssumption, ExecInv, Exec!TypeOK, ThreadsAgree, ConnIsCurrent,
       SlotIsReady, Exec!SlotIsWatched

-----------------------------------------------------------------------------
(* What the service rests on (DeliveryServiceProofs) *)

\* The process is gone, and with it everything it kept in memory.
Lost ==
  /\ life' = "down" /\ conn' = None /\ ready' = FALSE /\ job' = None
  /\ worker' = Exec!NoWorker /\ wire' = None /\ cmd' = None
  /\ senders' = {} /\ monitor' = None /\ watch' = None /\ rec' = None
  /\ UNCHANGED <<spawned, due, told, died>>

LEMMA LostStep == ASSUME Apart, ExecInv, Lost PROVE ExecInv'
<1>1. Exec!TypeOK' BY FreshWorkers DEF Lost, ExecInv, Exec!TypeOK, ExecProcess
<1>2. ThreadsAgree'
  BY DEF Apart, Exec!ExecutorAssumption, Lost, ExecInv, Exec!TypeOK, Exec!NoWorker, ThreadsAgree,
         ConnIsCurrent, SlotIsReady, KilledIsGone, WorkerIsPlain, AllServeTheSlot, OneTurn,
         WorkerWaits, CausesAreKept, SlotJob, NotKilled, Spoken, IsCause
<1> QED BY <1>1, <1>2 DEF ExecInv

\* A worker that was not killed works for the slot, if for anything; one that was killed is
\* gone.  While a result is stored, no one computes for its job.
LEMMA OnlyTheSlot ==
  ASSUME Apart, ExecInv
  PROVE  /\ ~ NotKilled => worker = Exec!NoWorker /\ cmd = None /\ wire = None
         /\ NotKilled => /\ worker.job \in {None, SlotJob} /\ cmd \in {None, SlotJob}
                         /\ \A s \in senders : s.conn = conn => s.job = SlotJob
                         /\ monitor # None /\ monitor.stage \in {"result", "clear"} =>
                              /\ worker.job # monitor.job /\ cmd # monitor.job
                              /\ \A s \in senders : s.conn = conn => s.job # monitor.job
BY DEF Apart, Exec!ExecutorAssumption, ExecInv, Exec!TypeOK, Exec!Task, Exec!Sending, ThreadsAgree,
       KilledIsGone, WorkerIsPlain, AllServeTheSlot, OneTurn, WorkerWaits

\* The worker was told that its event is stored, or will be: it may proceed.
Granted == worker.st = "acked" \/ (worker.st = "waiting" /\ cmd # None)

\* A worker that may proceed is the slot's, and the monitor has nothing to do for it.
LEMMA GrantedFacts ==
  ASSUME Apart, ExecInv, Granted
  PROVE  NotKilled /\ worker.job \in Job /\ worker.job = SlotJob /\ worker.note \in Note
         /\ monitor = None /\ ~ Spoken
BY DEF Granted, Apart, Exec!ExecutorAssumption, ExecInv, Exec!TypeOK, Exec!WorkerState,
       ThreadsAgree, KilledIsGone, WorkerIsPlain, AllServeTheSlot, OneTurn, Exec!NoWorker

\* A message of the worker, and what the monitor is busy with, is about the worker's slot.
LEMMA SpokenFacts ==
  ASSUME Apart, ExecInv, Spoken
  PROVE  /\ NotKilled /\ wire.job \in Job /\ wire.job = SlotJob
         /\ wire.kind = "event" => wire.note \in Note
BY DEF Spoken, Apart, Exec!ExecutorAssumption, ExecInv, Exec!TypeOK, Exec!Reply, ThreadsAgree,
       KilledIsGone, WorkerIsPlain, AllServeTheSlot

\* The worker may proceed only after the monitor has acknowledged its event.
LEMMA GrantMoves ==
  ASSUME Apart, ExecInv, ExecStep, Granted'
  PROVE  \/ Granted /\ worker'.job = worker.job /\ worker'.note = worker.note
         \/ /\ monitor # None /\ monitor.stage = "ack"
            /\ worker'.job = monitor.job /\ worker'.note = monitor.note
<1> USE DEF Apart, Exec!ExecutorAssumption, Exec!NullAssumption, ExecInv, Exec!TypeOK, Exec!pipes,
            Granted
<1>1. CASE UNCHANGED <<worker, cmd>> BY <1>1
<1>2. CASE Exec!Start \/ Exec!Recycle
  BY <1>2 DEF Exec!Start, Exec!Recycle, Exec!RecycleKills, Exec!RecycleNotifies,
              Exec!RecycleRespawns, Exec!Spawn, Exec!NewWorker, Exec!NoWorker
<1>3. CASE Exec!Worker
  <2>1. Exec!WorkerReady => ~ Granted' BY DEF Exec!WorkerReady, Exec!WorkerState
  <2>2. Exec!WorkerTakes => ~ Granted' BY DEF Exec!WorkerTakes, Exec!WorkerState
  <2>3. Exec!WorkerResumes => Granted /\ worker'.job = worker.job /\ worker'.note = worker.note
    BY DEF Exec!WorkerResumes
  <2>4. Exec!WorkerProceeds => ~ Granted' BY DEF Exec!WorkerProceeds, Exec!WorkerState
  <2>5. Exec!WorkerDies => ~ Granted' BY DEF Exec!WorkerDies, Exec!NoWorker
  <2>6. ASSUME NEW n \in Note, Exec!WorkerEmits(n) PROVE ~ Granted'
    <3>1. worker'.st = "waiting" /\ cmd' = cmd BY <2>6 DEF Exec!WorkerEmits
    <3>2. cmd = None
      BY <2>6 DEF Exec!WorkerEmits, ThreadsAgree, KilledIsGone, OneTurn, Exec!NoWorker
    <3> QED BY <3>1, <3>2
  <2>7. ASSUME NEW kind \in {"result", "failure"}, Exec!WorkerReports(kind) PROVE ~ Granted'
    BY <2>7 DEF Exec!WorkerReports
  <2> QED BY <1>3, <2>1, <2>2, <2>3, <2>4, <2>5, <2>6, <2>7 DEF Exec!Worker
<1>4. ASSUME NEW s \in senders, Exec!SenderStarts(s) \/ Exec!SenderSends(s)
      PROVE  UNCHANGED <<worker, cmd>> \/ ~ Granted'
  <2>1. CASE Exec!SenderStarts(s) BY <2>1 DEF Exec!SenderStarts
  <2>2. CASE Exec!SenderSends(s)
    <3>1. CASE conn = s.conn /\ worker.st # "dead"
      <4>1. worker.st = "idle" /\ worker' = worker
        BY <2>2, <3>1 DEF Exec!SenderSends, ThreadsAgree, KilledIsGone, OneTurn, Exec!NoWorker
      <4> QED BY <4>1
    <3>2. CASE ~ (conn = s.conn /\ worker.st # "dead") BY <2>2, <3>2 DEF Exec!SenderSends
    <3> QED BY <3>1, <3>2
  <2> QED BY <1>4, <2>1, <2>2
<1>5. CASE Exec!Monitor
  <2>1. CASE Exec!MonitorAcks
    <3>1. CASE UNCHANGED cmd BY <1>1, <2>1, <3>1 DEF Exec!MonitorAcks
    <3>2. CASE ~ UNCHANGED cmd
      <4>1. /\ monitor # None /\ monitor.stage = "ack" /\ worker' = worker
            /\ conn = monitor.conn /\ job = monitor.job /\ rec = None /\ worker.st # "dead"
        BY <2>1, <3>2 DEF Exec!MonitorAcks, Exec!Sendable
      <4>2. worker.st = "waiting" /\ worker.note = monitor.note
        BY <4>1 DEF ThreadsAgree, WorkerWaits, NotKilled
      <4>3. worker.job = monitor.job
        BY <4>1, <4>2 DEF ThreadsAgree, WorkerIsPlain, AllServeTheSlot, NotKilled, SlotJob
      <4> QED BY <4>1, <4>2, <4>3
    <3> QED BY <3>1, <3>2
  <2>2. CASE Exec!MonitorTakes \/ Exec!MonitorClears \/ Exec!MonitorRecycles
    BY <1>1, <2>2 DEF Exec!MonitorTakes, Exec!MonitorClears, Exec!MonitorRecycles
  <2> QED BY <1>5, <2>1, <2>2 DEF Exec!Monitor
<1>6. CASE \/ Exec!EventAccepted \/ Exec!ResultHandled \/ Exec!ResultRefused
           \/ \E code \in {"agent_failure", "budget_exceeded"} : Exec!EventRefused(code)
  BY <1>1, <1>6 DEF Exec!EventAccepted, Exec!ResultHandled, Exec!ResultRefused, Exec!EventRefused,
                    Exec!MonitorMoves
<1>7. CASE \/ Exec!WatchSees \/ Exec!WatchRecycles \/ Exec!RespawnFails
           \/ Exec!CloseBegins \/ Exec!CloseWaits \/ Exec!CloseRecycles
           \/ \E j \in Job : Exec!Submit(j) \/ Exec!DeadlinePasses(j)
  BY <1>1, <1>7 DEF Exec!WatchSees, Exec!WatchRecycles, Exec!RespawnFails, Exec!CloseBegins,
                    Exec!CloseWaits, Exec!CloseRecycles, Exec!Submit, Exec!DeadlinePasses
<1> QED BY <1>1, <1>2, <1>3, <1>4, <1>5, <1>6, <1>7 DEF ExecStep

\* The monitor is busy with the event it took from the pipe, until it has acknowledged it.
LEMMA EventMoves ==
  ASSUME Apart, ExecInv, ExecStep, monitor' # None
  PROVE  /\ monitor'.stage = "event" =>
              \/ monitor' = monitor
              \/ wire # None /\ wire.kind = "event"
                 /\ monitor'.job = wire.job /\ monitor'.note = wire.note
         /\ monitor'.stage = "ack" =>
              \/ monitor' = monitor
              \/ /\ monitor # None /\ monitor.stage = "event"
                 /\ monitor'.job = monitor.job /\ monitor'.note = monitor.note
<1> USE DEF Apart, Exec!ExecutorAssumption, Exec!NullAssumption, ExecInv, Exec!TypeOK, Exec!pipes
<1>1. CASE UNCHANGED monitor BY <1>1
<1>2. CASE Exec!Monitor
  <2>1. CASE Exec!MonitorTakes BY <2>1 DEF Exec!MonitorTakes, Exec!Busy, Exec!Reply
  <2>2. CASE Exec!MonitorAcks \/ Exec!MonitorClears \/ Exec!MonitorRecycles
    BY <2>2, ZenonT(40) DEF Exec!MonitorAcks, Exec!MonitorClears, Exec!MonitorRecycles, Exec!Task
  <2> QED BY <1>2, <2>1, <2>2 DEF Exec!Monitor
<1>3. CASE \/ Exec!EventAccepted \/ Exec!ResultHandled \/ Exec!ResultRefused
           \/ \E code \in {"agent_failure", "budget_exceeded"} : Exec!EventRefused(code)
  <2>1. PICK stage \in {"ack", "clear", "recycle"}, code \in Exec!Code \cup {None} :
          /\ monitor' = [monitor EXCEPT !.stage = stage, !.code = code]
          /\ monitor # None /\ (stage = "ack" => monitor.stage = "event")
    <3>1. {"agent_failure", "budget_exceeded"} \subseteq Exec!Code BY DEF Exec!Code
    <3> QED
      BY <1>3, <3>1 DEF Exec!EventAccepted, Exec!ResultHandled, Exec!ResultRefused,
                        Exec!EventRefused, Exec!MonitorMoves
  <2>2. monitor' = [conn |-> monitor.conn, job |-> monitor.job, stage |-> stage,
                    note |-> monitor.note, code |-> code]
    <3>1. monitor \in Exec!Task BY <2>1
    <3>2. stage \in {"event", "ack", "clear", "recycle"} OBVIOUS
    <3> HIDE DEF Apart, Exec!ExecutorAssumption, Exec!NullAssumption, ExecInv, Exec!TypeOK, Exec!pipes
    <3> QED BY <2>1, <3>1, <3>2, TaskMoves
  <2> QED BY <2>1, <2>2
<1>4. CASE \/ Exec!Start \/ Exec!Worker \/ Exec!Recycle \/ Exec!RespawnFails
           \/ Exec!WatchSees \/ Exec!WatchRecycles
           \/ Exec!CloseBegins \/ Exec!CloseWaits \/ Exec!CloseRecycles
           \/ (\E j \in Job : Exec!Submit(j) \/ Exec!DeadlinePasses(j))
           \/ \E s \in senders : Exec!SenderStarts(s) \/ Exec!SenderSends(s)
  BY <1>1, <1>4
  DEF Exec!Start, Exec!Worker, Exec!WorkerReady, Exec!WorkerTakes, Exec!WorkerResumes,
      Exec!WorkerProceeds, Exec!WorkerDies, Exec!WorkerEmits, Exec!WorkerReports, Exec!Recycle,
      Exec!RecycleKills, Exec!RecycleNotifies, Exec!RecycleRespawns, Exec!RespawnFails,
      Exec!WatchSees, Exec!WatchRecycles, Exec!CloseBegins, Exec!CloseWaits, Exec!CloseRecycles,
      Exec!Submit, Exec!DeadlinePasses, Exec!SenderStarts, Exec!SenderSends
<1> QED BY <1>2, <1>3, <1>4 DEF ExecStep

-----------------------------------------------------------------------------
(* Theorems *)

\* The executor's slot, its worker and what its threads remember always agree, for any
\* number of jobs and workers and whatever goes wrong.
THEOREM Agreement == ASSUME Apart PROVE Exec!Spec => []ExecInv
<1>1. Exec!Init => ExecInv BY ExecInvInit
<1>2. ExecInv /\ [Exec!Next]_(Exec!vars) => ExecInv' BY ExecInvStep, ExecStutter, NextIsStep
<1> QED BY <1>1, <1>2, PTL DEF Exec!Spec

\* Type correctness of the executor.
THEOREM ExecTypes == ASSUME Apart PROVE Exec!Spec => []Exec!TypeOK
<1>1. ExecInv => Exec!TypeOK BY DEF ExecInv
<1> QED BY <1>1, Agreement, PTL

\* Nothing but the job in the slot reaches a worker that is not about to be killed
\* (_send_for_job).
THEOREM WorkersServe == ASSUME Apart PROVE Exec!Spec => []Exec!WorkerServesTheSlot
<1>1. ExecInv => Exec!WorkerServesTheSlot BY ExecServes
<1> QED BY <1>1, Agreement, PTL

\* A full slot always has a worker that is not being recycled (_watch, _recycle).
THEOREM SlotsAreWatched == ASSUME Apart PROVE Exec!Spec => []Exec!SlotIsWatched
<1>1. ExecInv => Exec!SlotIsWatched BY ExecWatches
<1> QED BY <1>1, Agreement, PTL

\* What a callback is told of a job is true of that job, however late the thread was that
\* saw it (expected_connection and expected_job of _recycle).
THEOREM CausesHold == ASSUME Apart PROVE Exec!Spec => []Exec!CausesAreReal
<1>1. Exec!Init => Exec!CausesAreReal BY CausesInit
<1>2. ExecInv /\ Exec!CausesAreReal /\ [Exec!Next]_(Exec!vars) => Exec!CausesAreReal'
  <2>1. ASSUME UNCHANGED Exec!vars, Exec!CausesAreReal PROVE Exec!CausesAreReal'
    BY <2>1 DEF Exec!vars, Exec!CausesAreReal
  <2> QED BY <2>1, CausesStep, NextIsStep
<1> QED BY <1>1, <1>2, Agreement, PTL DEF Exec!Spec

-----------------------------------------------------------------------------
(* The ledger, for any runs, calls and amounts: it keeps its type, what is      *)
(* settled stays settled, and the costs stay below the hard stop but for what   *)
(* providers bill beyond the reservations.                                      *)

\* SettledOnce of the ledger: Keeps, for every call.
SettledOnce == [][\A x \in PaidRun \X Call : Ledger!Keeps(x)]_calls

-----------------------------------------------------------------------------

\* Settling for the usage or, when it is not known, for the reservation.
LEMMA SettledRow ==
  ASSUME NEW row \in Ledger!CallRow, NEW u \in Amount \cup {None}
  PROVE  [row EXCEPT !.status = "completed", !.actual = IF u = None THEN row.actual ELSE u]
           \in Ledger!CallRow
BY DEF Ledger!CallRow

\* What a step may make of the row of a call.
LEMMA RowSteps ==
  ASSUME Ledger!BudgetAssumption, Ledger!TypeOK, Ledger!Next, NEW x \in PaidRun \X Call
  PROVE  /\ calls' \in [PaidRun \X Call -> Ledger!CallRow \cup {None}]
         /\ calls[x] # None =>
              /\ calls'[x] # None /\ calls'[x].reserved = calls[x].reserved
              /\ calls[x].status = "completed" => calls'[x] = calls[x]
<1>1. ASSUME NEW r \in PaidRun, NEW c \in Call, NEW a \in Amount, Ledger!Reserve(r, c, a)
      PROVE  /\ calls' \in [PaidRun \X Call -> Ledger!CallRow \cup {None}]
             /\ calls[x] # None => calls'[x] = calls[x]
  <2> DEFINE row == [status |-> "reserved", reserved |-> a, actual |-> a]
  <2>1. calls' = [calls EXCEPT ![<<r, c>>] = row] /\ calls[<<r, c>>] = None
    BY <1>1 DEF Ledger!Reserve, Ledger!Reservable
  <2>2. row \in Ledger!CallRow BY DEF Ledger!CallRow
  <2> HIDE DEF row
  <2> QED BY <2>1, <2>2 DEF Ledger!TypeOK
<1>2. ASSUME NEW r \in PaidRun, NEW c \in Call, NEW u \in Amount \cup {None}, Ledger!Complete(r, c,
             u)
      PROVE  /\ calls' \in [PaidRun \X Call -> Ledger!CallRow \cup {None}]
             /\ calls[x] # None =>
                  /\ calls'[x] # None /\ calls'[x].reserved = calls[x].reserved
                  /\ calls[x].status = "completed" => calls'[x] = calls[x]
  <2> DEFINE y == <<r, c>>
             row == [calls[y] EXCEPT !.status = "completed",
                                     !.actual = IF u = None THEN calls[y].actual ELSE u]
  <2>1. CASE calls[y] # None /\ calls[y].status = "reserved"
    <3>1. calls[y] \in Ledger!CallRow BY <2>1 DEF Ledger!TypeOK
    <3>2. row \in Ledger!CallRow BY <3>1, SettledRow
    <3>3. row.reserved = calls[y].reserved BY <3>1 DEF Ledger!CallRow
    <3>4. calls' = [calls EXCEPT ![y] = row]
      <4> DEFINE once == [calls EXCEPT ![y].status = "completed"]
      <4>1. calls' = [once EXCEPT ![y].actual = IF u = None THEN @ ELSE u]
        BY <1>2, <2>1 DEF Ledger!Complete
      <4>2. once = [calls EXCEPT ![y] = [calls[y] EXCEPT !.status = "completed"]] OBVIOUS
      <4>3. y \in DOMAIN calls BY DEF Ledger!TypeOK
      <4> QED BY <4>1, <4>2, <4>3, <3>1 DEF Ledger!CallRow, Ledger!TypeOK
    <3>5. row # None BY <3>2 DEF Ledger!BudgetAssumption
    <3> HIDE DEF row
    <3> QED BY <2>1, <3>2, <3>3, <3>4, <3>5 DEF Ledger!TypeOK
  <2>2. CASE ~ (calls[y] # None /\ calls[y].status = "reserved")
    BY <1>2, <2>2 DEF Ledger!Complete, Ledger!TypeOK
  <2> QED BY <2>1, <2>2
<1>3. ASSUME NEW S, Ledger!Charge(S)
      PROVE  /\ calls' \in [PaidRun \X Call -> Ledger!CallRow \cup {None}]
             /\ calls[x] # None =>
                  /\ calls'[x] # None /\ calls'[x].reserved = calls[x].reserved
                  /\ calls[x].status = "completed" => calls'[x] = calls[x]
  <2>1. ASSUME NEW row \in Ledger!CallRow
        PROVE  /\ [row EXCEPT !.status = "completed"] \in Ledger!CallRow
               /\ [row EXCEPT !.status = "completed"].reserved = row.reserved
               /\ row.status = "completed" => [row EXCEPT !.status = "completed"] = row
    BY DEF Ledger!CallRow
  <2>2. /\ DOMAIN calls' = PaidRun \X Call
        /\ \A y \in PaidRun \X Call : calls'[y] = IF calls[y] # None /\ y[1] \in S
             THEN [calls[y] EXCEPT !.status = "completed"] ELSE calls[y]
    BY <1>3 DEF Ledger!Charge
  <2>3. calls' = [y \in PaidRun \X Call |-> calls'[y]] BY <1>3 DEF Ledger!Charge
  <2>4. \A y \in PaidRun \X Call : calls[y] # None => calls[y] \in Ledger!CallRow
    BY DEF Ledger!TypeOK
  <2>5. \A y \in PaidRun \X Call : calls'[y] \in Ledger!CallRow \cup {None} BY <2>1, <2>2, <2>4
  <2>6. calls[x] # None => calls[x] \in Ledger!CallRow /\ calls'[x] # None
    BY <2>1, <2>2, <2>4 DEF Ledger!BudgetAssumption
  <2> QED BY <2>1, <2>2, <2>3, <2>5, <2>6
<1> QED BY <1>1, <1>2, <1>3 DEF Ledger!Next, Ledger!FailRun, Ledger!Recover

\* Every operation keeps the type of the ledger.
LEMMA LedgerTypeStep == ASSUME Ledger!BudgetAssumption, Ledger!TypeOK, [Ledger!Next]_calls
                        PROVE  Ledger!TypeOK'
<1>1. CASE Ledger!Next
  <2>1. CASE PaidRun \X Call = {}
    BY <1>1, <2>1 DEF Ledger!Next, Ledger!TypeOK, Ledger!Reserve, Ledger!Complete, Ledger!FailRun,
                      Ledger!Recover, Ledger!Charge
  <2>2. ASSUME NEW x \in PaidRun \X Call PROVE Ledger!TypeOK'
    BY <1>1, RowSteps DEF Ledger!TypeOK
  <2> QED BY <2>1, <2>2
<1>2. CASE UNCHANGED calls BY <1>2 DEF Ledger!TypeOK
<1> QED BY <1>1, <1>2

\* The ledger keeps its type under every operation.
THEOREM LedgerType == ASSUME Ledger!BudgetAssumption PROVE Ledger!Spec => []Ledger!TypeOK
<1>1. Ledger!Init => Ledger!TypeOK BY DEF Ledger!Init, Ledger!TypeOK
<1>2. Ledger!TypeOK /\ [Ledger!Next]_calls => Ledger!TypeOK'
  BY LedgerTypeStep, Ledger!BudgetAssumption
<1> QED BY <1>1, <1>2, PTL DEF Ledger!Spec

\* Whatever is reported, failed or recovered later, a settled call keeps its charge and a
\* reservation its amount (complete, fail_run, recover).
THEOREM ChargesStand == ASSUME Ledger!BudgetAssumption PROVE Ledger!Spec => SettledOnce
<1>1. Ledger!TypeOK /\ [Ledger!Next]_calls => [\A x \in PaidRun \X Call : Ledger!Keeps(x)]_calls
  BY RowSteps, Ledger!BudgetAssumption DEF Ledger!Keeps
<1> QED BY <1>1, LedgerType, Ledger!BudgetAssumption, PTL DEF Ledger!Spec, SettledOnce

-----------------------------------------------------------------------------
(* Sums over a finite set, as the folds of the library compute them.           *)

\* The element the folds of the library take out of a set first.
Pick(s) == CHOOSE x \in s : TRUE

\* The table of partial sums the fold of the library goes through, for a function f.
Adds(f, S, it) ==
  it = [s \in SUBSET S |-> IF s = {} THEN 0 ELSE f[Pick(s)] + it[s \ {Pick(s)}]]

\* The sum of f over S, as those folds compute it.
SumOver(f, S) == (CHOOSE it : Adds(f, S, it))[S]

\* It is one of them.
LEMMA Picked == ASSUME NEW s, s # {} PROVE Pick(s) \in s
BY DEF Pick

\* The table of the partial sums, case by case.
LEMMA AddsCases ==
  ASSUME NEW S, NEW f, NEW it, Adds(f, S, it)
  PROVE  /\ it[{}] = 0
         /\ \A s \in SUBSET S : s # {} => it[s] = f[Pick(s)] + it[s \ {Pick(s)}]
  BY DEF Adds

\* There is such a table: how many pairs of an element and a number below its value there are.
LEMMA AddsThere ==
  ASSUME NEW S, IsFiniteSet(S), NEW f \in [S -> Nat]
  PROVE  \E it \in [SUBSET S -> Nat] : Adds(f, S, it)
<1> DEFINE Bar(x) == {x} \X (1..f[x])
           Bars(s) == UNION {Bar(x) : x \in s}
           it == [s \in SUBSET S |-> Cardinality(Bars(s))]
<1>1. ASSUME NEW x \in S PROVE IsFiniteSet(Bar(x)) /\ Cardinality(Bar(x)) = f[x]
  <2>1. f[x] \in Nat OBVIOUS
  <2>2. IsFiniteSet(1..f[x]) /\ Cardinality(1..f[x]) = f[x] BY <2>1, FS_Interval
  <2>3. IsFiniteSet({x}) /\ Cardinality({x}) = 1 BY FS_Singleton
  <2>4. \A A, B : IsFiniteSet(A) /\ IsFiniteSet(B)
                  => /\ IsFiniteSet(A \X B)
                     /\ Cardinality(A \X B) = Cardinality(A) * Cardinality(B)
    BY FS_Product
  <2>5. IsFiniteSet(Bar(x)) /\ Cardinality(Bar(x)) = Cardinality({x}) * Cardinality(1..f[x])
    BY <2>2, <2>3, <2>4, Zenon
  <2>6. Cardinality(Bar(x)) = 1 * f[x] BY <2>2, <2>3, <2>5, Zenon
  <2> QED BY <2>1, <2>5, <2>6
<1>2. ASSUME NEW s \in SUBSET S PROVE IsFiniteSet(Bars(s))
  <2> DEFINE row == [x \in s |-> Bar(x)]
             T == {Bar(x) : x \in s}
  <2>1. IsFiniteSet(s) BY FS_Subset
  <2>2. row \in Surjection(s, T) BY DEF Surjection
  <2>3. IsFiniteSet(T) BY <2>1, <2>2, FS_Surjection
  <2>4. \A t \in T : IsFiniteSet(t) BY <1>1
  <2> QED BY <2>3, <2>4, FS_UNION
<1>3. ASSUME NEW s \in SUBSET S, NEW x \in s
      PROVE  Cardinality(Bars(s)) = f[x] + Cardinality(Bars(s \ {x}))
  <2>1. Bars(s) = Bars(s \ {x}) \cup Bar(x) OBVIOUS
  <2>2. Bars(s \ {x}) \cap Bar(x) = {} OBVIOUS
  <2>3. IsFiniteSet(Bars(s \ {x})) /\ IsFiniteSet(Bar(x)) /\ Cardinality(Bar(x)) = f[x]
    BY <1>1, <1>2
  <2>4. Cardinality(Bars(s \ {x})) \in Nat /\ f[x] \in Nat BY <2>3, FS_CardinalityType
  <2> HIDE DEF Bars, Bar
  <2>5. Cardinality(Bars(s \ {x}) \cup Bar(x))
          = Cardinality(Bars(s \ {x})) + Cardinality(Bar(x)) - Cardinality({})
    <3>1. \A A, B : IsFiniteSet(A) /\ IsFiniteSet(B)
                    => Cardinality(A \cup B)
                         = Cardinality(A) + Cardinality(B) - Cardinality(A \cap B)
      BY FS_Union
    <3>2. Cardinality(Bars(s \ {x}) \cup Bar(x))
            = Cardinality(Bars(s \ {x})) + Cardinality(Bar(x))
                - Cardinality(Bars(s \ {x}) \cap Bar(x))
      BY <2>3, <3>1, Zenon
    <3> QED BY <2>2, <3>2, Zenon
  <2> QED BY <2>1, <2>3, <2>4, <2>5, FS_EmptySet
<1>4. it \in [SUBSET S -> Nat] BY <1>2, FS_CardinalityType
<1>5. Bars({}) = {} OBVIOUS
<1> HIDE DEF Bars
<1>6. ASSUME NEW s \in SUBSET S
      PROVE  it[s] = IF s = {} THEN 0 ELSE f[Pick(s)] + it[s \ {Pick(s)}]
  <2>1. CASE s = {} BY <2>1, <1>5, FS_EmptySet
  <2>2. CASE s # {} BY <2>2, <1>3, Picked
  <2> QED BY <2>1, <2>2
<1>7. it = [s \in SUBSET S |-> it[s]] OBVIOUS
<1> HIDE DEF it
<1> QED BY <1>4, <1>6, <1>7 DEF Adds

\* And only one: two would differ first at a smallest set.
LEMMA AddsOnce ==
  ASSUME NEW S, IsFiniteSet(S), NEW f, NEW i, NEW j, Adds(f, S, i), Adds(f, S, j)
  PROVE  i[S] = j[S]
<1> DEFINE D == {s \in SUBSET S : i[s] # j[s]}
<1>1. SUFFICES ASSUME D # {} PROVE FALSE OBVIOUS
<1>2. IsWellFoundedOn(StrictSubsetOrdering(S), SUBSET S)
  BY FS_StrictSubsetOrderingWellFounded, FS_FiniteSubsetsOfFinite
<1>3. PICK s \in D : \A t \in D : ~ (<<t, s>> \in StrictSubsetOrdering(S))
  <2> D \subseteq SUBSET S OBVIOUS
  <2> HIDE DEF D
  <2> QED BY <1>1, <1>2, WFMin
<1>4. s # {} BY AddsCases
<1>5. <<s \ {Pick(s)}, s>> \in StrictSubsetOrdering(S)
  BY <1>4, Picked DEF StrictSubsetOrdering
<1>6. s \ {Pick(s)} \in SUBSET S /\ s \ {Pick(s)} \notin D BY <1>3, <1>5
<1> QED BY <1>4, <1>6, AddsCases

\* The sum is found in any such table.
LEMMA SumIs ==
  ASSUME NEW S, IsFiniteSet(S), NEW f \in [S -> Nat], NEW it, Adds(f, S, it)
  PROVE  SumOver(f, S) = it[S]
<1>1. Adds(f, S, CHOOSE i : Adds(f, S, i)) BY Zenon
<1> QED BY <1>1, AddsOnce DEF SumOver

\* A sum of naturals is a natural.
LEMMA SumNat ==
  ASSUME NEW S, IsFiniteSet(S), NEW f \in [S -> Nat]
  PROVE  SumOver(f, S) \in Nat
<1>1. PICK it \in [SUBSET S -> Nat] : Adds(f, S, it) BY AddsThere
<1> QED BY <1>1, SumIs

\* Summands that are sums add up to the sum of their sums.
LEMMA SumOfSums ==
  ASSUME NEW S, IsFiniteSet(S), NEW f \in [S -> Nat], NEW g \in [S -> Nat],
         NEW h \in [S -> Nat], \A x \in S : f[x] = g[x] + h[x]
  PROVE  SumOver(f, S) = SumOver(g, S) + SumOver(h, S)
<1>1. PICK i \in [SUBSET S -> Nat] : Adds(g, S, i) BY AddsThere
<1>2. PICK j \in [SUBSET S -> Nat] : Adds(h, S, j) BY AddsThere
<1> DEFINE k == [s \in SUBSET S |-> i[s] + j[s]]
<1>3. ASSUME NEW s \in SUBSET S
      PROVE  k[s] = IF s = {} THEN 0 ELSE f[Pick(s)] + k[s \ {Pick(s)}]
  <2>1. CASE s = {} BY <2>1, <1>1, <1>2, AddsCases
  <2>2. CASE s # {}
    <3>1. /\ i[s] = g[Pick(s)] + i[s \ {Pick(s)}] /\ j[s] = h[Pick(s)] + j[s \ {Pick(s)}]
          /\ Pick(s) \in S /\ s \ {Pick(s)} \in SUBSET S
      BY <1>1, <1>2, <2>2, AddsCases, Picked
    <3>2. /\ g[Pick(s)] \in Nat /\ h[Pick(s)] \in Nat
          /\ i[s \ {Pick(s)}] \in Nat /\ j[s \ {Pick(s)}] \in Nat
          /\ f[Pick(s)] = g[Pick(s)] + h[Pick(s)]
      BY <3>1
    <3>3. k[s \ {Pick(s)}] = i[s \ {Pick(s)}] + j[s \ {Pick(s)}] /\ k[s] = i[s] + j[s] BY <3>1
    <3> QED BY <2>2, <3>1, <3>2, <3>3
  <2> QED BY <2>1, <2>2
<1>4. k = [s \in SUBSET S |-> k[s]] OBVIOUS
<1>5. k[S] = i[S] + j[S] OBVIOUS
<1> HIDE DEF k
<1>6. Adds(f, S, k) BY <1>3, <1>4 DEF Adds
<1> QED BY <1>1, <1>2, <1>5, <1>6, SumIs

\* One summand changes.
LEMMA SumChange ==
  ASSUME NEW S, IsFiniteSet(S), NEW f \in [S -> Nat], NEW g \in [S -> Nat], NEW y \in S,
         \A x \in S : x # y => g[x] = f[x]
  PROVE  SumOver(g, S) = SumOver(f, S) - f[y] + g[y]
<1>1. PICK i \in [SUBSET S -> Nat] : Adds(f, S, i) BY AddsThere
<1> DEFINE k == [s \in SUBSET S |-> IF y \in s THEN i[s] - f[y] + g[y] ELSE i[s]]
<1>3. ASSUME NEW s \in SUBSET S
      PROVE  k[s] = IF s = {} THEN 0 ELSE g[Pick(s)] + k[s \ {Pick(s)}]
  <2>1. CASE s = {} BY <2>1, <1>1, AddsCases
  <2>2. CASE s # {}
    <3>1. /\ i[s] = f[Pick(s)] + i[s \ {Pick(s)}]
          /\ Pick(s) \in S /\ Pick(s) \in s /\ s \ {Pick(s)} \in SUBSET S
      BY <1>1, <2>2, AddsCases, Picked
    <3>2. /\ f[Pick(s)] \in Nat /\ g[Pick(s)] \in Nat /\ i[s \ {Pick(s)}] \in Nat
          /\ f[y] \in Nat /\ g[y] \in Nat /\ i[s] \in Nat
      BY <3>1
    <3>3. CASE Pick(s) = y
      <4>1. y \notin s \ {Pick(s)} /\ y \in s BY <3>1, <3>3
      <4>2. k[s \ {Pick(s)}] = i[s \ {Pick(s)}] /\ k[s] = i[s] - f[y] + g[y] BY <3>1, <4>1
      <4> QED BY <2>2, <3>1, <3>2, <3>3, <4>2
    <3>4. CASE Pick(s) # y
      <4>1. g[Pick(s)] = f[Pick(s)] BY <3>1, <3>4
      <4>2. y \in s \ {Pick(s)} <=> y \in s BY <3>4
      <4>3. CASE y \in s
        <5>1. k[s \ {Pick(s)}] = i[s \ {Pick(s)}] - f[y] + g[y] /\ k[s] = i[s] - f[y] + g[y]
          BY <3>1, <4>2, <4>3
        <5> QED BY <2>2, <3>1, <3>2, <4>1, <5>1
      <4>4. CASE y \notin s
        <5>1. k[s \ {Pick(s)}] = i[s \ {Pick(s)}] /\ k[s] = i[s] BY <3>1, <4>2, <4>4
        <5> QED BY <2>2, <3>1, <3>2, <4>1, <5>1
      <4> QED BY <4>3, <4>4
    <3> QED BY <3>3, <3>4
  <2> QED BY <2>1, <2>2
<1>4. k = [s \in SUBSET S |-> k[s]] OBVIOUS
<1>5. k[S] = i[S] - f[y] + g[y] OBVIOUS
<1> HIDE DEF k
<1>6. Adds(g, S, k) BY <1>3, <1>4 DEF Adds
<1> QED BY <1>1, <1>5, <1>6, SumIs

\* Only zero is its own double.
LEMMA ItsOwnDouble == ASSUME NEW n \in Nat, n = n + n PROVE n = 0
OBVIOUS

\* Nothing adds up to nothing.
LEMMA SumZero ==
  ASSUME NEW S, IsFiniteSet(S), NEW f \in [S -> Nat], \A x \in S : f[x] = 0
  PROVE  SumOver(f, S) = 0
<1>1. SumOver(f, S) = SumOver(f, S) + SumOver(f, S) BY SumOfSums
<1>2. SumOver(f, S) \in Nat BY SumNat
<1> QED BY <1>1, <1>2, ItsOwnDouble, Zenon

\* Sums grow with their summands.
LEMMA SumGrows ==
  ASSUME NEW S, IsFiniteSet(S), NEW f \in [S -> Nat], NEW g \in [S -> Nat],
         \A x \in S : f[x] <= g[x]
  PROVE  SumOver(f, S) <= SumOver(g, S)
<1> DEFINE h == [x \in S |-> g[x] - f[x]]
<1>1. h \in [S -> Nat] /\ \A x \in S : g[x] = f[x] + h[x] OBVIOUS
<1> HIDE DEF h
<1>2. SumOver(g, S) = SumOver(f, S) + SumOver(h, S) BY <1>1, SumOfSums
<1>3. SumOver(f, S) \in Nat /\ SumOver(h, S) \in Nat BY <1>1, SumNat
<1> QED BY <1>2, <1>3

-----------------------------------------------------------------------------

(* Sums over the calls: the hard stop.                                         *)

Calls == PaidRun \X Call
\* What every call costs, and what its provider billed beyond its reservation.
Costs == [x \in Calls |-> Ledger!Cost(x)]
Excesses == [x \in Calls |-> Ledger!Excess(x)]
\* What a call costs of its own reservation.
KeptCosts(x) == IF calls[x] = None THEN 0
           ELSE IF calls[x].actual > calls[x].reserved THEN calls[x].reserved
           ELSE calls[x].actual

\* What is not billed beyond a reservation stays below the hard stop.
KeptBelowStop == Historical + SumOver([x \in Calls |-> KeptCosts(x)], Calls) <= Limit

\* There are finitely many calls.
LEMMA CallsFinite == ASSUME Ledger!BudgetAssumption PROVE IsFiniteSet(Calls)
<1>1. \A S : Ledger!IsFiniteSet(S) => IsFiniteSet(S)
  BY Zenon DEF Ledger!IsFiniteSet, IsFiniteSet
<1> QED BY <1>1, FS_Product DEF Calls, Ledger!BudgetAssumption

\* The folds of the model are such sums.
LEMMA FoldsAreSums ==
  ASSUME Ledger!BudgetAssumption, Ledger!TypeOK
  PROVE  /\ Costs \in [Calls -> Nat] /\ Excesses \in [Calls -> Nat]
         /\ [x \in Calls |-> KeptCosts(x)] \in [Calls -> Nat]
         /\ Ledger!MapThenSumSet(Ledger!Cost, PaidRun \X Call) = SumOver(Costs, Calls)
         /\ Ledger!MapThenSumSet(Ledger!Excess, PaidRun \X Call) = SumOver(Excesses, Calls)
<1>1. \A x \in Calls : calls[x] # None => calls[x].actual \in Nat /\ calls[x].reserved \in Nat
  BY DEF Ledger!TypeOK, Ledger!CallRow, Ledger!BudgetAssumption, Calls
<1>2. Costs \in [Calls -> Nat] BY <1>1 DEF Costs, Ledger!Cost
<1>3. Excesses \in [Calls -> Nat] BY <1>1 DEF Excesses, Ledger!Excess
<1>4. [x \in Calls |-> KeptCosts(x)] \in [Calls -> Nat] BY <1>1 DEF KeptCosts
<1>5. Ledger!MapThenSumSet(Ledger!Cost, Calls) = SumOver(Costs, Calls)
  <2> DEFINE Table(it) == it = [s \in SUBSET Calls |->
        IF s = {} THEN 0
        ELSE Ledger!Cost(CHOOSE x \in s : TRUE) + it[s \ {CHOOSE x \in s : TRUE}]]
  <2>1. Ledger!MapThenSumSet(Ledger!Cost, Calls) = (CHOOSE it : Table(it))[Calls]
    BY Zenon DEF Ledger!MapThenSumSet, Ledger!MapThenFoldSet
  <2>2. \A s \in SUBSET Calls : s # {} => Costs[Pick(s)] = Ledger!Cost(CHOOSE x \in s : TRUE)
    BY Picked DEF Costs, Pick
  <2>3. \A it : Table(it) <=> Adds(Costs, Calls, it) BY <2>2 DEF Adds, Pick
  <2>4. \E it : Adds(Costs, Calls, it) BY <1>2, AddsThere, CallsFinite
  <2> HIDE DEF Table
  <2>5. Table(CHOOSE it : Table(it)) BY <2>3, <2>4
  <2> QED BY <1>2, <2>1, <2>3, <2>5, SumIs, CallsFinite
<1>6. Ledger!MapThenSumSet(Ledger!Excess, Calls) = SumOver(Excesses, Calls)
  <2> DEFINE Table(it) == it = [s \in SUBSET Calls |->
        IF s = {} THEN 0
        ELSE Ledger!Excess(CHOOSE x \in s : TRUE) + it[s \ {CHOOSE x \in s : TRUE}]]
  <2>1. Ledger!MapThenSumSet(Ledger!Excess, Calls) = (CHOOSE it : Table(it))[Calls]
    BY Zenon DEF Ledger!MapThenSumSet, Ledger!MapThenFoldSet
  <2>2. \A s \in SUBSET Calls : s # {} => Excesses[Pick(s)] = Ledger!Excess(CHOOSE x \in s : TRUE)
    BY Picked DEF Excesses, Pick
  <2>3. \A it : Table(it) <=> Adds(Excesses, Calls, it) BY <2>2 DEF Adds, Pick
  <2>4. \E it : Adds(Excesses, Calls, it) BY <1>3, AddsThere, CallsFinite
  <2> HIDE DEF Table
  <2>5. Table(CHOOSE it : Table(it)) BY <2>3, <2>4
  <2> QED BY <1>3, <2>1, <2>3, <2>5, SumIs, CallsFinite
<1> QED BY <1>2, <1>3, <1>4, <1>5, <1>6 DEF Calls

\* The cost of the ledger is what it keeps of the reservations and what is billed beyond.
LEMMA KeptAndExcess ==
  ASSUME Ledger!BudgetAssumption, Ledger!TypeOK
  PROVE  SumOver(Costs, Calls)
           = SumOver([x \in Calls |-> KeptCosts(x)], Calls) + SumOver(Excesses, Calls)
<1> DEFINE kept == [x \in Calls |-> KeptCosts(x)]
<1>1. \A x \in Calls : calls[x] # None => calls[x].actual \in Nat /\ calls[x].reserved \in Nat
  BY DEF Ledger!TypeOK, Ledger!CallRow, Ledger!BudgetAssumption, Calls
<1>2. \A x \in Calls : Costs[x] = kept[x] + Excesses[x]
  BY <1>1 DEF Costs, Ledger!Cost, Excesses, Ledger!Excess, KeptCosts
<1> HIDE DEF kept
<1>3. SumOver(Costs, Calls) = SumOver(kept, Calls) + SumOver(Excesses, Calls)
  BY <1>2, FoldsAreSums, CallsFinite, SumOfSums DEF kept
<1> QED BY <1>3 DEF kept

\* The hard stop is that the part kept of the reservations fits below the limit.
LEMMA StopHolds == ASSUME Ledger!BudgetAssumption, Ledger!TypeOK, KeptBelowStop
                   PROVE  Ledger!HardStop
<1>1. Ledger!Total = Historical + SumOver(Costs, Calls) BY FoldsAreSums DEF Ledger!Total
<1>2. /\ SumOver(Costs, Calls) \in Nat /\ SumOver(Excesses, Calls) \in Nat
      /\ SumOver([x \in Calls |-> KeptCosts(x)], Calls) \in Nat
  BY FoldsAreSums, SumNat, CallsFinite
<1>3. Historical \in Nat /\ Limit \in Nat BY DEF Ledger!BudgetAssumption
<1> QED BY <1>1, <1>2, <1>3, KeptAndExcess, FoldsAreSums DEF Ledger!HardStop, KeptBelowStop

\* Until it is settled a call costs its reservation.
PendingCostsReserved ==
  \A x \in Calls : calls[x] # None /\ calls[x].status = "reserved" =>
    calls[x].actual = calls[x].reserved

\* The inductive invariant of the hard stop.
StopInv == Ledger!TypeOK /\ PendingCostsReserved /\ KeptBelowStop

\* An empty ledger is below its limit.
LEMMA StopInit == ASSUME Ledger!BudgetAssumption, Ledger!Init PROVE StopInv
<1>1. Ledger!TypeOK BY DEF Ledger!Init, Ledger!TypeOK
<1>2. PendingCostsReserved BY DEF Ledger!Init, PendingCostsReserved, Calls
<1>3. KeptBelowStop
  <2> DEFINE kept == [x \in Calls |-> KeptCosts(x)]
  <2>1. kept \in [Calls -> Nat] /\ \A x \in Calls : kept[x] = 0 BY DEF Ledger!Init, KeptCosts, Calls
  <2> HIDE DEF kept
  <2>2. SumOver(kept, Calls) = 0 BY <2>1, SumZero, CallsFinite
  <2> QED BY <2>2 DEF KeptBelowStop, kept, Ledger!BudgetAssumption
<1> QED BY <1>1, <1>2, <1>3 DEF StopInv

\* What an operation makes of a row, and of what it costs of its reservation.
LEMMA KeptMoves ==
  ASSUME Ledger!BudgetAssumption, Ledger!TypeOK, PendingCostsReserved, Ledger!Next
  PROVE  /\ PendingCostsReserved'
         /\ \/ \A x \in Calls : KeptCosts(x)' <= KeptCosts(x)
            \/ \E y \in Calls, a \in Amount :
                 /\ Ledger!Total + a <= Limit /\ KeptCosts(y) = 0 /\ KeptCosts(y)' = a
                 /\ \A x \in Calls : x # y => KeptCosts(x)' = KeptCosts(x)
<1> DEFINE Pending(x) == calls[x] # None /\ calls[x].status = "reserved" =>
                           calls[x].actual = calls[x].reserved
<1>0. /\ \A x \in Calls : calls[x] # None => calls[x] \in Ledger!CallRow
      /\ \A x \in Calls : Pending(x)
      /\ Amount \subseteq Nat /\ None \notin Ledger!CallRow /\ None \notin Amount
      /\ calls = [x \in Calls |-> calls[x]]
  BY DEF Ledger!TypeOK, PendingCostsReserved, Ledger!BudgetAssumption, Calls
<1>1. ASSUME NEW r \in PaidRun, NEW c \in Call, NEW a \in Amount, Ledger!Reserve(r, c, a)
      PROVE  /\ \A x \in Calls : Pending(x)'
             /\ Ledger!Total + a <= Limit /\ KeptCosts(<<r, c>>) = 0 /\ KeptCosts(<<r, c>>)' = a
             /\ \A x \in Calls : x # <<r, c>> => KeptCosts(x)' = KeptCosts(x)
  <2> DEFINE row == [status |-> "reserved", reserved |-> a, actual |-> a]
  <2>1. calls' = [calls EXCEPT ![<<r, c>>] = row] /\ calls[<<r, c>>] = None
        /\ Ledger!Total + a <= Limit
    BY <1>1 DEF Ledger!Reserve, Ledger!Reservable
  <2>2. row \in Ledger!CallRow /\ row.actual = a /\ row.reserved = a BY DEF Ledger!CallRow
  <2>3. row # None BY <1>0, <2>2
  <2> HIDE DEF row
  <2>4. \A x \in Calls : calls'[x] = IF x = <<r, c>> THEN row ELSE calls[x] BY <1>0, <2>1
  <2>5. <<r, c>> \in Calls BY DEF Calls
  <2> QED BY <1>0, <2>1, <2>2, <2>3, <2>4, <2>5 DEF KeptCosts
<1>2. ASSUME NEW r \in PaidRun, NEW c \in Call, NEW u \in Amount \cup {None}, Ledger!Complete(r, c,
             u)
      PROVE  \A x \in Calls : Pending(x)' /\ KeptCosts(x)' <= KeptCosts(x)
  <2> DEFINE y == <<r, c>>
  <2>1. CASE calls[y] # None /\ calls[y].status = "reserved"
    <3> DEFINE row == [status |-> "completed", reserved |-> calls[y].reserved,
                       actual |-> IF u = None THEN calls[y].actual ELSE u]
    <3>1. y \in Calls /\ calls[y] \in Ledger!CallRow BY <1>0, <2>1 DEF Calls
    <3>2. calls' = [calls EXCEPT ![y].status = "completed",
                                 ![y].actual = IF u = None THEN @ ELSE u]
      BY <1>2, <2>1 DEF Ledger!Complete
    <3>3. \A x \in Calls : calls'[x] = IF x = y THEN row ELSE calls[x]
      <4> DEFINE once == [calls EXCEPT ![y].status = "completed"]
      <4>1. calls' = [once EXCEPT ![y].actual = IF u = None THEN @ ELSE u] BY <3>2
      <4>2. once = [calls EXCEPT ![y] = [calls[y] EXCEPT !.status = "completed"]] OBVIOUS
      <4>3. y \in DOMAIN calls /\ DOMAIN calls = Calls BY <1>0, <3>1
      <4>4. once[y] = [calls[y] EXCEPT !.status = "completed"]
            /\ \A x \in Calls : x # y => once[x] = calls[x]
        BY <4>2, <4>3
      <4>5. once[y].actual = calls[y].actual BY <3>1, <4>4 DEF Ledger!CallRow
      <4>6. calls' =
              [once EXCEPT ![y] =
                [once[y] EXCEPT !.actual = IF u = None THEN once[y].actual ELSE u]]
        BY <4>1
      <4>7. DOMAIN once = Calls BY <4>2, <4>3
      <4> HIDE DEF once, y
      <4>8. calls'[y] = [once[y] EXCEPT !.actual = IF u = None THEN once[y].actual ELSE u]
            /\ \A x \in Calls : x # y => calls'[x] = calls[x]
        BY <3>1, <4>4, <4>6, <4>7
      <4>9. calls'[y] = row BY <3>1, <4>4, <4>5, <4>8, ZenonT(40) DEF Ledger!CallRow
      <4> QED BY <4>8, <4>9
    <3>4. row \in Ledger!CallRow /\ row.status = "completed" /\ row.reserved = calls[y].reserved
          /\ row.actual = IF u = None THEN calls[y].actual ELSE u
      BY <1>0, <3>1 DEF Ledger!CallRow
    <3>5. calls[y].actual = calls[y].reserved BY <1>0, <2>1, <3>1
    <3>6. calls[y].reserved \in Nat /\ (u # None => u \in Nat) BY <1>0, <3>1 DEF Ledger!CallRow
    <3> HIDE DEF row, y
    <3>7. KeptCosts(y)' <= KeptCosts(y) BY <1>0, <2>1, <3>1, <3>3, <3>4, <3>5, <3>6 DEF KeptCosts
    <3>8. \A x \in Calls : KeptCosts(x) \in Nat BY <1>0 DEF KeptCosts, Ledger!CallRow
    <3>9. \A x \in Calls : x # y => KeptCosts(x)' = KeptCosts(x) BY <3>3 DEF KeptCosts
    <3> QED BY <1>0, <3>3, <3>4, <3>7, <3>8, <3>9
  <2>2. CASE ~ (calls[y] # None /\ calls[y].status = "reserved")
    <3>1. calls' = calls BY <1>2, <2>2 DEF Ledger!Complete
    <3>2. \A x \in Calls : KeptCosts(x) \in Nat /\ KeptCosts(x)' = KeptCosts(x) BY <1>0, <3>1
      DEF KeptCosts, Ledger!CallRow
    <3> QED BY <1>0, <3>1, <3>2
  <2> QED BY <2>1, <2>2
<1>3. ASSUME NEW S, Ledger!Charge(S)
      PROVE  \A x \in Calls : Pending(x)' /\ KeptCosts(x)' <= KeptCosts(x)
  <2> SUFFICES ASSUME NEW x \in Calls PROVE Pending(x)' /\ KeptCosts(x)' <= KeptCosts(x) OBVIOUS
  <2>1. calls'[x] = IF calls[x] # None /\ x[1] \in S
                    THEN [calls[x] EXCEPT !.status = "completed"] ELSE calls[x]
    BY <1>3 DEF Ledger!Charge, Calls
  <2>2. KeptCosts(x) \in Nat BY <1>0 DEF KeptCosts, Ledger!CallRow
  <2>3. CASE calls'[x] = calls[x] BY <1>0, <2>2, <2>3 DEF KeptCosts
  <2>4. CASE calls[x] # None /\ x[1] \in S
    <3>1. calls[x] \in Ledger!CallRow BY <1>0, <2>4
    <3>2. /\ calls'[x] \in Ledger!CallRow /\ calls'[x].status = "completed"
          /\ calls'[x].reserved = calls[x].reserved /\ calls'[x].actual = calls[x].actual
      BY <2>1, <2>4, <3>1 DEF Ledger!CallRow
    <3>3. calls'[x] # None BY <1>0, <3>2
    <3> QED BY <2>2, <2>4, <3>2, <3>3 DEF KeptCosts
  <2> QED BY <2>1, <2>3, <2>4
<1> QED
  <2>1. (\A x \in Calls : Pending(x)') => PendingCostsReserved' BY DEF PendingCostsReserved, Calls
  <2>2. \A r \in PaidRun, c \in Call : <<r, c>> \in Calls BY DEF Calls
  <2> HIDE DEF Pending
  <2>3. CASE \E r \in PaidRun, c \in Call, a \in Amount : Ledger!Reserve(r, c, a)
    <3>1. PICK r \in PaidRun, c \in Call, a \in Amount : Ledger!Reserve(r, c, a) BY <2>3
    <3> QED BY <1>1, <2>1, <2>2, <3>1
  <2> QED BY <1>2, <1>3, <2>1, <2>3 DEF Ledger!Next, Ledger!FailRun, Ledger!Recover

\* A reservation is only made when all costs leave room for it, and nothing else lets the
\* kept part grow.
LEMMA StopStep ==
  ASSUME Ledger!BudgetAssumption, StopInv, Ledger!TypeOK', Ledger!Next
  PROVE  StopInv'
<1> DEFINE kept == [x \in Calls |-> KeptCosts(x)]
           after == [x \in Calls |-> KeptCosts(x)']
<1>1. kept \in [Calls -> Nat] /\ SumOver(kept, Calls) \in Nat
  BY FoldsAreSums, SumNat, CallsFinite DEF StopInv
<1>2. after \in [Calls -> Nat]
  <2>1. \A x \in Calls : calls'[x] # None =>
          calls'[x].actual \in Nat /\ calls'[x].reserved \in Nat
    BY DEF Ledger!TypeOK, Ledger!CallRow, Ledger!BudgetAssumption, Calls, StopInv
  <2> QED BY <2>1 DEF KeptCosts
<1>3. Historical + SumOver(kept, Calls) <= Ledger!Total
  <2>1. Ledger!Total = Historical + SumOver(Costs, Calls) BY FoldsAreSums DEF Ledger!Total, StopInv
  <2>2. SumOver(Costs, Calls) = SumOver(kept, Calls) + SumOver(Excesses, Calls)
    BY KeptAndExcess DEF StopInv
  <2>3. SumOver(Excesses, Calls) \in Nat /\ Historical \in Nat
    BY FoldsAreSums, SumNat, CallsFinite DEF StopInv, Ledger!BudgetAssumption
  <2> HIDE DEF kept
  <2> QED BY <1>1, <2>1, <2>2, <2>3
<1>4. /\ \A x \in Calls : kept[x] = KeptCosts(x) /\ after[x] = KeptCosts(x)'
      /\ KeptBelowStop' <=> Historical + SumOver(after, Calls) <= Limit
      /\ KeptBelowStop <=> Historical + SumOver(kept, Calls) <= Limit
  BY DEF KeptBelowStop, Calls
<1> HIDE DEF kept, after
<1>5. Historical \in Nat /\ Limit \in Nat /\ Amount \subseteq Nat BY DEF Ledger!BudgetAssumption
<1>6. Ledger!Total \in Nat
  <2>1. Ledger!Total = Historical + SumOver(Costs, Calls) BY FoldsAreSums DEF Ledger!Total, StopInv
  <2> QED BY <1>5, <2>1, FoldsAreSums, SumNat, CallsFinite DEF StopInv
<1>7. SumOver(after, Calls) \in Nat BY <1>2, SumNat, CallsFinite
<1>8. Historical + SumOver(after, Calls) <= Limit
  <2>1. CASE \A x \in Calls : KeptCosts(x)' <= KeptCosts(x)
    <3>1. SumOver(after, Calls) <= SumOver(kept, Calls)
      BY <1>1, <1>2, <1>4, <2>1, SumGrows, CallsFinite
    <3> QED BY <1>1, <1>4, <1>5, <1>7, <3>1 DEF StopInv
  <2>2. ASSUME NEW y \in Calls, NEW a \in Amount,
               Ledger!Total + a <= Limit, KeptCosts(y) = 0, KeptCosts(y)' = a,
               \A x \in Calls : x # y => KeptCosts(x)' = KeptCosts(x)
        PROVE  Historical + SumOver(after, Calls) <= Limit
    <3>1. kept[y] = 0 /\ after[y] = a /\ \A x \in Calls : x # y => after[x] = kept[x]
      BY <1>4, <2>2
    <3>2. SumOver(after, Calls) = SumOver(kept, Calls) - kept[y] + after[y]
      BY <1>1, <1>2, <3>1, SumChange, CallsFinite
    <3> QED BY <1>1, <1>3, <1>5, <1>6, <2>2, <3>1, <3>2
  <2> QED BY <2>1, <2>2, KeptMoves DEF StopInv
<1> QED BY <1>4, <1>8, KeptMoves DEF StopInv

\* Nothing moves when the ledger does not.
LEMMA StopStutter == ASSUME StopInv, UNCHANGED calls PROVE StopInv'
<1> DEFINE kept == [x \in Calls |-> KeptCosts(x)]
<1>1. kept' = kept BY DEF KeptCosts
<1>2. KeptBelowStop' = KeptBelowStop BY <1>1 DEF KeptBelowStop
<1>3. Ledger!TypeOK' /\ PendingCostsReserved' BY DEF StopInv, Ledger!TypeOK, PendingCostsReserved
<1> QED BY <1>2, <1>3 DEF StopInv

\* The ledger passes its hard stop by no more than what providers bill beyond the
\* reservations of the calls, whatever is reserved, settled, failed or recovered (reserve,
\* complete, fail_run, recover).
THEOREM HardStops == ASSUME Ledger!BudgetAssumption PROVE Ledger!Spec => []Ledger!HardStop
<1>1. Ledger!Init => StopInv BY StopInit, Ledger!BudgetAssumption
<1>2. Ledger!TypeOK /\ StopInv /\ [Ledger!Next]_calls => StopInv'
  BY StopStep, StopStutter, LedgerTypeStep, Ledger!BudgetAssumption
<1>3. StopInv => Ledger!HardStop BY StopHolds, Ledger!BudgetAssumption DEF StopInv
<1> QED BY <1>1, <1>2, <1>3, LedgerType, Ledger!BudgetAssumption, PTL DEF Ledger!Spec

-----------------------------------------------------------------------------
(* The repository, for every number of processes, runs, keys, threads and       *)
(* months, and for every cap.                                                   *)

USE RepositoryAssumption DEF Result

(* What append_run_event does to a log: the old events stay in place and   *)
(* every further one is one of the kinds, written by the caller.           *)

\* Appending events leaves the log a log: the old ones keep their places, every
\* new one is of the appended kinds and by the caller (append_run_event).
LEMMA ExtendFacts ==
  ASSUME NEW s \in Seq(Event), NEW kinds \in Seq(Kind), NEW o \in Owner
  PROVE  /\ Extend(s, kinds, o) \in Seq(Event)
         /\ Len(Extend(s, kinds, o)) = Len(s) + Len(kinds)
         /\ \A i \in 1..Len(s) : Extend(s, kinds, o)[i] = s[i]
         /\ \A i \in 1..Len(kinds) :
              Extend(s, kinds, o)[Len(s) + i] = [kind |-> kinds[i], by |-> o]
         /\ \A i \in DOMAIN Extend(s, kinds, o) :
              i \in DOMAIN s \/ \E j \in 1..Len(kinds) : i = Len(s) + j
<1> DEFINE t == [i \in 1..Len(kinds) |-> [kind |-> kinds[i], by |-> o]]
<1>1. t \in Seq(Event) /\ Len(t) = Len(kinds)
  BY DEF Event
<1>2. Extend(s, kinds, o) = s \o t
  BY DEF Extend
<1>3. /\ s \o t \in Seq(Event)
      /\ Len(s \o t) = Len(s) + Len(t)
      /\ \A i \in 1..Len(s) : (s \o t)[i] = s[i]
      /\ \A i \in 1..Len(t) : (s \o t)[Len(s) + i] = t[i]
  BY <1>1
<1>4. \A i \in 1 .. Len(s) + Len(t) : i \in 1..Len(s) \/ i - Len(s) \in 1..Len(t)
  BY <1>1
<1>5. \A i \in 1 .. Len(s) + Len(t) :
        i \in 1..Len(s) \/ \E j \in 1..Len(t) : i = Len(s) + j
  <2>1. ASSUME NEW i \in 1 .. Len(s) + Len(t), i \notin 1..Len(s)
        PROVE  i = Len(s) + (i - Len(s))
    BY <1>1
  <2>2. QED
    BY <1>4, <2>1
<1>6. \A j \in 1..Len(kinds) : t[j] = [kind |-> kinds[j], by |-> o]
  OBVIOUS
<1>7. DOMAIN (s \o t) = 1 .. Len(s) + Len(t)
  BY <1>3
<1> HIDE DEF t
<1>8. Len(s \o t) = Len(s) + Len(kinds)
  BY <1>1, <1>3
<1>9. \A i \in 1..Len(kinds) : (s \o t)[Len(s) + i] = [kind |-> kinds[i], by |-> o]
  BY <1>1, <1>3, <1>6
<1>10. \A i \in DOMAIN (s \o t) :
         i \in DOMAIN s \/ \E j \in 1..Len(kinds) : i = Len(s) + j
  BY <1>1, <1>5, <1>7
<1>11. QED
  BY <1>2, <1>3, <1>8, <1>9, <1>10

\* The lists of events an ending appends, position by position (_finish_locked).
LEMMA EventLists ==
  /\ <<"query_ingested", "meta">> \in Seq(Kind)
  /\ FailureEvents \in Seq(Kind)
  /\ ResultEvents \in Seq(Kind)
  /\ \A k \in Progress : <<k>> \in Seq(Kind)
  BY DEF Kind, FailureEvents, ResultEvents, Progress

(* The same for one event of the longer log, and then for the lists that   *)
(* are appended: it is an old event in its old place, or a new one.        *)

\* An event of a log that was appended to is an old one in its place or a new one.
LEMMA GrownEvent ==
  ASSUME NEW s \in Seq(Event), NEW kinds \in Seq(Kind), NEW o \in Owner,
         NEW i \in DOMAIN Extend(s, kinds, o)
  PROVE  \/ i \in DOMAIN s /\ i <= Len(s) /\ Extend(s, kinds, o)[i] = s[i]
         \/ \E j \in 1..Len(kinds) :
              i = Len(s) + j /\ Extend(s, kinds, o)[i] = [kind |-> kinds[j], by |-> o]
<1>1. CASE i \in DOMAIN s
  BY <1>1, ExtendFacts
<1>2. CASE i \notin DOMAIN s
  <2>1. PICK j \in 1..Len(kinds) : i = Len(s) + j
    BY <1>2, ExtendFacts
  <2>2. Extend(s, kinds, o)[Len(s) + j] = [kind |-> kinds[j], by |-> o]
    BY ExtendFacts
  <2>3. QED
    BY <2>1, <2>2
<1>3. QED
  BY <1>1, <1>2

\* Position, kind and writer of event i after kinds have been appended to s.
Old(s, t, i) == i \in DOMAIN s /\ i <= Len(s) /\ t[i] = s[i]
New(s, t, i, j, kind, o) == i = Len(s) + j /\ t[i].kind = kind /\ t[i].by = o

\* GrownEvent for a given list of kinds.
LEMMA Growth ==
  ASSUME NEW s \in Seq(Event), NEW kinds \in Seq(Kind), NEW o \in Owner,
         NEW t, t = Extend(s, kinds, o), NEW n, Len(kinds) = n
  PROVE  /\ Len(t) = Len(s) + n
         /\ \A i \in DOMAIN t :
              Old(s, t, i) \/ \E j \in 1..n : New(s, t, i, j, kinds[j], o)
<1>1. Len(t) = Len(s) + n
  BY ExtendFacts
<1>2. ASSUME NEW i \in DOMAIN t
      PROVE  Old(s, t, i) \/ \E j \in 1..n : New(s, t, i, j, kinds[j], o)
  BY <1>2, GrownEvent DEF Old, New
<1>3. QED
  BY <1>1, <1>2

\* What finish(error) and recover_interrupted append: done comes last.
LEMMA FailureGrowth ==
  ASSUME NEW s \in Seq(Event), NEW o \in Owner, NEW t, t = Extend(s, FailureEvents, o)
  PROVE  /\ Len(t) = Len(s) + 3
         /\ \A i \in DOMAIN t :
              \/ Old(s, t, i) \/ New(s, t, i, 1, "run_failed", o)
              \/ New(s, t, i, 2, "error", o) \/ New(s, t, i, 3, "done", o)
<1>1. PICK kinds : kinds = FailureEvents
  OBVIOUS
<1>2. /\ kinds \in Seq(Kind) /\ t = Extend(s, kinds, o) /\ Len(kinds) = 3
      /\ kinds[1] = "run_failed" /\ kinds[2] = "error" /\ kinds[3] = "done"
  BY <1>1, EventLists DEF FailureEvents
<1>3. \A j \in 1..3 : j = 1 \/ j = 2 \/ j = 3
  OBVIOUS
<1>4. /\ Len(t) = Len(s) + 3
      /\ \A i \in DOMAIN t :
           Old(s, t, i) \/ \E j \in 1..3 : New(s, t, i, j, kinds[j], o)
  BY <1>2, Growth
<1>5. QED
  BY <1>2, <1>3, <1>4

\* What finish(result) appends: done comes last, and no event tells a failure.
LEMMA ResultGrowth ==
  ASSUME NEW s \in Seq(Event), NEW o \in Owner, NEW t, t = Extend(s, ResultEvents, o)
  PROVE  /\ Len(t) = Len(s) + 5
         /\ \A i \in DOMAIN t :
              \/ Old(s, t, i) \/ New(s, t, i, 1, "learning", o)
              \/ New(s, t, i, 2, "node_completed", o) \/ New(s, t, i, 3, "evidence", o)
              \/ New(s, t, i, 4, "final", o) \/ New(s, t, i, 5, "done", o)
<1>1. PICK kinds : kinds = ResultEvents
  OBVIOUS
<1>2. /\ kinds \in Seq(Kind) /\ t = Extend(s, kinds, o) /\ Len(kinds) = 5
      /\ kinds[1] = "learning" /\ kinds[2] = "node_completed" /\ kinds[3] = "evidence"
      /\ kinds[4] = "final" /\ kinds[5] = "done"
  BY <1>1, EventLists DEF ResultEvents
<1>3. \A j \in 1..5 : j = 1 \/ j = 2 \/ j = 3 \/ j = 4 \/ j = 5
  OBVIOUS
<1>4. /\ Len(t) = Len(s) + 5
      /\ \A i \in DOMAIN t :
           Old(s, t, i) \/ \E j \in 1..5 : New(s, t, i, j, kinds[j], o)
  BY <1>2, Growth
<1>5. QED
  BY <1>2, <1>3, <1>4

\* What record_event appends is a single event of progress.
LEMMA ProgressGrowth ==
  ASSUME NEW s \in Seq(Event), NEW o \in Owner, NEW kind \in Progress, NEW t,
         t = Extend(s, <<kind>>, o)
  PROVE  /\ Len(t) = Len(s) + 1
         /\ \A i \in DOMAIN t : Old(s, t, i) \/ New(s, t, i, 1, kind, o)
<1>1. PICK kinds : kinds = <<kind>>
  OBVIOUS
<1>2. kinds \in Seq(Kind) /\ t = Extend(s, kinds, o) /\ Len(kinds) = 1 /\ kinds[1] = kind
  BY <1>1, EventLists
<1>3. \A j \in 1..1 : j = 1
  OBVIOUS
<1>4. /\ Len(t) = Len(s) + 1
      /\ \A i \in DOMAIN t :
           Old(s, t, i) \/ \E j \in 1..1 : New(s, t, i, j, kinds[j], o)
  BY <1>2, Growth
<1>5. QED
  BY <1>2, <1>3, <1>4

\* What admit_run appends to the empty log of its new run.
LEMMA AdmissionGrowth ==
  ASSUME NEW o \in Owner, NEW t, t = Extend(<<>>, <<"query_ingested", "meta">>, o)
  PROVE  /\ Len(t) = 2
         /\ \A i \in DOMAIN t : t[i].kind \in {"query_ingested", "meta"} /\ t[i].by = o
<1>1. PICK kinds : kinds = <<"query_ingested", "meta">>
  OBVIOUS
<1>2. /\ kinds \in Seq(Kind) /\ t = Extend(<<>>, kinds, o) /\ Len(kinds) = 2
      /\ kinds[1] = "query_ingested" /\ kinds[2] = "meta"
  BY <1>1, EventLists
<1>3. \A j \in 1..2 : j = 1 \/ j = 2
  OBVIOUS
<1>4. PICK s : s = <<>>
  OBVIOUS
<1>5. s \in Seq(Event) /\ Len(s) = 0 /\ DOMAIN s = {} /\ t = Extend(s, kinds, o)
  BY <1>2, <1>4
<1>6. /\ Len(t) = Len(s) + 2
      /\ \A i \in DOMAIN t :
           Old(s, t, i) \/ \E j \in 1..2 : New(s, t, i, j, kinds[j], o)
  BY <1>2, <1>5, Growth
<1>7. QED
  BY <1>2, <1>3, <1>5, <1>6 DEF New, Old

(* The updates of a row keep its columns typed. *)

\* The updates of a row (status, feedback) keep its columns typed.
LEMMA RowUpdates ==
  ASSUME NEW row \in Row
  PROVE  /\ \A s \in Terminal : [row EXCEPT !.status = s] \in Row
         /\ \A f \in Score : [row EXCEPT !.feedback = f] \in Row
<1>1. ASSUME NEW s \in Terminal PROVE [row EXCEPT !.status = s] \in Row
  BY DEF Row
<1>2. ASSUME NEW f \in Score PROVE [row EXCEPT !.feedback = f] \in Row
  BY DEF Row
<1>3. QED
  BY <1>1, <1>2

-----------------------------------------------------------------------------
(* Type correctness *)

\* Filing a receipt keeps the receipts and the answers typed (_receipt).
LEMMA FileTypes ==
  ASSUME TypeOK, NEW k \in Key, NEW op \in Operation,
         NEW on \in Resource \cup {None}, NEW body \in Query \cup Score \cup {None},
         NEW id \in Resource, File(k, op, on, body, id)
  PROVE  /\ receipts' \in [Key -> Receipt \cup {None}]
         /\ answers' \in [Key -> SUBSET Answer]
  BY DEF TypeOK, File, Fingerprint, Receipt, Answer

\* A replay keeps the tables typed (_operation).
LEMMA ReplayTypes ==
  ASSUME TypeOK, NEW k \in Key, NEW op \in Operation,
         NEW on, NEW body, Replay(k, op, on, body)
  PROVE  TypeOK'
<1>1. receipts[k] \in Receipt
  BY DEF TypeOK, Replay, Replays
<1>2. answers' \in [Key -> SUBSET Answer]
  BY <1>1 DEF TypeOK, Replay, Receipt, Answer
<1>3. QED
  BY <1>2 DEF TypeOK, Replay

\* No transaction breaks the types.
LEMMA TypeStep == TypeOK /\ [Next]_vars => TypeOK'
<1> SUFFICES ASSUME TypeOK, [Next]_vars PROVE TypeOK'
  OBVIOUS
<1>1. ASSUME NEW k \in Key, CreateThread(k) PROVE TypeOK'
  <2>1. CASE Replay(k, "create_thread", None, None)
    BY <2>1, ReplayTypes DEF Operation
  <2>2. CASE Unbound(k, "create_thread")
    <3>1. CASE UNCHANGED <<runs, lapsed, log, usage, month, started, txn>>
      <4>1. PICK t \in Thread : /\ threads' = [threads EXCEPT ![t] = k]
                                /\ File(k, "create_thread", None, None, t)
        BY <1>1, <2>2 DEF CreateThread, Unbound, Replay, Replays
      <4>2. receipts' \in [Key -> Receipt \cup {None}] /\ answers' \in [Key -> SUBSET Answer]
        BY <4>1, FileTypes DEF Operation, Resource
      <4>3. threads' \in [Thread -> Key \cup {None}]
        BY <4>1 DEF TypeOK
      <4>4. QED
        BY <3>1, <4>2, <4>3 DEF TypeOK
    <3>2. QED
      BY <1>1, <2>2, <3>1 DEF CreateThread, Replay, Replays, Unbound
  <2>3. QED
    BY <1>1, <2>1, <2>2 DEF CreateThread
<1>2. ASSUME NEW k \in Key, NEW t \in Thread, NEW q \in Query, LookupRun(k, t, q)
      PROVE  TypeOK'
  <2>1. CASE Replay(k, "create_run", t, q)
    BY <2>1, ReplayTypes DEF Operation
  <2>2. CASE LegacyReplay(k, t, q)
    BY <2>2 DEF LegacyReplay, TypeOK, Answer, Operation, Resource
  <2>3. QED
    BY <1>2, <2>1, <2>2 DEF LookupRun
<1>3. ASSUME NEW o \in Owner, NEW k \in Key, NEW t \in Thread, NEW q \in Query,
             AdmitRun(o, k, t, q)
      PROVE  TypeOK'
  <2>1. PICK r \in Run :
          /\ runs' = [runs EXCEPT ![r] =
               [status |-> "running", owner |-> o, key |-> k, thread |-> t,
                query |-> q, month |-> month, feedback |-> None]]
          /\ log' = [log EXCEPT ![r] = Extend(@, <<"query_ingested", "meta">>, o)]
          /\ File(k, "create_run", t, q, r)
    BY <1>3 DEF AdmitRun
  <2>2. receipts' \in [Key -> Receipt \cup {None}] /\ answers' \in [Key -> SUBSET Answer]
    BY <2>1, FileTypes DEF Operation, Resource
  <2>3. runs' \in [Run -> Row]
    BY <2>1 DEF TypeOK, Row, Live
  <2>4. log' \in [Run -> Seq(Event)]
    BY <2>1, ExtendFacts, EventLists DEF TypeOK
  <2>5. usage' \in [1..Months -> Nat]
    BY <1>3 DEF AdmitRun, TypeOK
  <2>6. QED
    BY <1>3, <2>2, <2>3, <2>4, <2>5 DEF AdmitRun, TypeOK
<1>4. ASSUME NEW o \in Owner, NEW r \in Run, NEW kind \in Progress, RecordEvent(o, r, kind)
      PROVE  TypeOK'
  <2>1. log' \in [Run -> Seq(Event)]
    BY <1>4, ExtendFacts, EventLists DEF TypeOK, RecordEvent
  <2>2. QED
    BY <1>4, <2>1 DEF RecordEvent, TypeOK
<1>5. ASSUME NEW o \in Owner, NEW r \in Run, BeginResult(o, r) PROVE TypeOK'
  BY <1>5 DEF BeginResult, TypeOK
<1>6. ASSUME CommitResult PROVE TypeOK'
  <2>1. txn.run \in Run /\ txn.owner \in Owner
    BY <1>6 DEF CommitResult, TypeOK
  <2>2. log' \in [Run -> Seq(Event)]
    <3>1. log \in [Run -> Seq(Event)] BY DEF TypeOK
    <3>2. log[txn.run] \in Seq(Event) BY <2>1, <3>1
    <3>3. Extend(log[txn.run], ResultEvents, txn.owner) \in Seq(Event)
      BY <2>1, <3>2, ExtendFacts, EventLists
    <3>4. log' = [log EXCEPT ![txn.run] = Extend(log[txn.run], ResultEvents, txn.owner)]
      BY <1>6 DEF CommitResult
    <3> QED BY <2>1, <3>1, <3>3, <3>4
  <2>3. runs' \in [Run -> Row]
    BY <1>6, <2>1, RowUpdates DEF CommitResult, TypeOK, Terminal
  <2>4. QED
    BY <1>6, <2>2, <2>3 DEF CommitResult, TypeOK
<1>7. ASSUME RollBack PROVE TypeOK'
  BY <1>7 DEF RollBack, TypeOK
<1>8. ASSUME NEW o \in Owner, NEW r \in Run, FinishError(o, r) PROVE TypeOK'
  <2>1. log' \in [Run -> Seq(Event)]
    BY <1>8, ExtendFacts, EventLists DEF FinishError, TypeOK
  <2>2. runs' \in [Run -> Row]
    BY <1>8, RowUpdates DEF FinishError, TypeOK, Terminal
  <2>3. QED
    BY <1>8, <2>1, <2>2 DEF FinishError, TypeOK
<1>9. ASSUME NEW o \in Owner, Recover(o) PROVE TypeOK'
  <2>1. log' \in [Run -> Seq(Event)]
    BY <1>9, ExtendFacts, EventLists DEF Recover, TypeOK
  <2>2. runs' \in [Run -> Row]
    BY <1>9, RowUpdates DEF Recover, TypeOK, Terminal
  <2>3. QED
    BY <1>9, <2>1, <2>2 DEF Recover, TypeOK
<1>10. ASSUME NEW k \in Key, NEW r \in Run, NEW s \in Score, Feedback(k, r, s)
       PROVE  TypeOK'
  <2>1. CASE Replay(k, "feedback", r, s)
    BY <2>1, ReplayTypes DEF Operation
  <2>2. CASE ~Replay(k, "feedback", r, s)
    <3>1. /\ runs' = [runs EXCEPT ![r].feedback = s]
          /\ File(k, "feedback", r, s, r)
          /\ UNCHANGED <<threads, lapsed, log, usage, month, started, txn>>
      BY <1>10, <2>2 DEF Feedback
    <3>2. receipts' \in [Key -> Receipt \cup {None}] /\ answers' \in [Key -> SUBSET Answer]
      BY <3>1, FileTypes DEF Operation, Resource
    <3>3. runs' \in [Run -> Row]
      BY <3>1, RowUpdates DEF TypeOK
    <3>4. QED
      BY <3>1, <3>2, <3>3 DEF TypeOK
  <2>3. QED
    BY <2>1, <2>2
<1>11. ASSUME NEW r \in Run, DeadlinePasses(r) PROVE TypeOK'
  BY <1>11 DEF DeadlinePasses, TypeOK
<1>12. ASSUME MonthTurns PROVE TypeOK'
  BY <1>12 DEF MonthTurns, TypeOK
<1>13. ASSUME UNCHANGED vars PROVE TypeOK'
  BY <1>13 DEF vars, TypeOK
<1>14. QED
  BY <1>1, <1>2, <1>3, <1>4, <1>5, <1>6, <1>7, <1>8, <1>9, <1>10, <1>11, <1>12, <1>13
  DEF Next

\* The tables of before the upgrade are typed.
LEMMA TypeInit == Init => TypeOK
<1> SUFFICES ASSUME Init PROVE TypeOK
  OBVIOUS
<1>1. threads \in [Thread -> Key \cup {None}]
  BY DEF Init
<1>2. NoRow \in Row
  BY DEF NoRow, Row
<1>3. runs \in [Run -> Row]
  BY <1>2 DEF Init, LegacyRow
<1>4. QED
  BY <1>1, <1>3 DEF Init, TypeOK

\* The tables keep their types, whatever the callers do (all of
\* DeliveryRepository).
THEOREM TypeCorrect == Spec => []TypeOK
  BY TypeInit, TypeStep, PTL DEF Spec

-----------------------------------------------------------------------------
(* What a step can do to one run: its row, its log and its deadline.       *)

Untouched(r) ==
  /\ log'[r] = log[r] /\ lapsed'[r] = lapsed[r]
  /\ \/ runs'[r] = runs[r]
     \/ Present(r) /\ \E f \in Score : runs'[r] = [runs[r] EXCEPT !.feedback = f]

Expires(r) ==
  /\ IsLive(r) /\ runs' = runs /\ log' = log
  /\ lapsed'[r] = Len(log[r])

Admitted(o, r) ==
  /\ ~Present(r)
  /\ runs'[r].status = "running" /\ runs'[r].owner = o /\ runs'[r].key # None
  /\ log'[r] = Extend(log[r], <<"query_ingested", "meta">>, o)
  /\ lapsed'[r] = lapsed[r]

Progresses(o, r) ==
  /\ Owned(o, r)
  /\ runs'[r] = runs[r]
  /\ \E kind \in Progress : log'[r] = Extend(log[r], <<kind>>, o)
  /\ lapsed'[r] = lapsed[r]

Completes(o, r) ==
  /\ Owned(o, r)
  /\ runs'[r] = [runs[r] EXCEPT !.status = "completed"]
  /\ log'[r] = Extend(log[r], ResultEvents, o)
  /\ lapsed'[r] = lapsed[r]

Fails(o, r) ==
  /\ IsLive(r)
  /\ runs'[r] = [runs[r] EXCEPT !.status = "failed"]
  /\ log'[r] = Extend(log[r], FailureEvents, o)
  /\ lapsed'[r] = lapsed[r]

RunStep(r) ==
  \/ Untouched(r) \/ Expires(r)
  \/ \E o \in Owner : Admitted(o, r) \/ Progresses(o, r) \/ Completes(o, r) \/ Fails(o, r)

\* Seen from one run, a step of the repository is one of a few.
LEMMA StepOfARun ==
  ASSUME TypeOK, ResultIsOwned, [Next]_vars, NEW r \in Run
  PROVE  RunStep(r)
<1>1. CASE UNCHANGED <<runs, log, lapsed>>
  BY <1>1 DEF RunStep, Untouched
<1>2. ASSUME NEW o \in Owner, NEW k \in Key, NEW t \in Thread, NEW q \in Query,
             AdmitRun(o, k, t, q)
      PROVE  RunStep(r)
  <2>1. PICK s \in Run :
          /\ ~Present(s)
          /\ runs' = [runs EXCEPT ![s] =
               [status |-> "running", owner |-> o, key |-> k, thread |-> t,
                query |-> q, month |-> month, feedback |-> None]]
          /\ log' = [log EXCEPT ![s] = Extend(@, <<"query_ingested", "meta">>, o)]
    BY <1>2 DEF AdmitRun
  <2>2. lapsed' = lapsed
    BY <1>2 DEF AdmitRun
  <2>3. CASE r = s
    BY <2>1, <2>2, <2>3 DEF RunStep, Admitted, TypeOK
  <2>4. CASE r # s
    BY <2>1, <2>2, <2>4 DEF RunStep, Untouched, TypeOK
  <2>5. QED
    BY <2>3, <2>4
<1>3. ASSUME NEW o \in Owner, NEW s \in Run, NEW kind \in Progress, RecordEvent(o, s, kind)
      PROVE  RunStep(r)
  BY <1>3 DEF RecordEvent, RunStep, Untouched, Progresses, TypeOK
<1>4. ASSUME CommitResult PROVE RunStep(r)
  BY <1>4 DEF CommitResult, ResultIsOwned, RunStep, Untouched, Completes, Owned, OwnedBy, TypeOK
<1>5. ASSUME NEW o \in Owner, NEW s \in Run, FinishError(o, s) PROVE RunStep(r)
  BY <1>5 DEF FinishError, OwnedBy, RunStep, Untouched, Fails, TypeOK
<1>6. ASSUME NEW o \in Owner, Recover(o) PROVE RunStep(r)
  BY <1>6 DEF Recover, Interrupted, RunStep, Untouched, Fails, TypeOK
<1>7. ASSUME NEW k \in Key, NEW s \in Run, NEW f \in Score, Feedback(k, s, f)
      PROVE  RunStep(r)
  BY <1>7 DEF Feedback, Replay, RunStep, Untouched, TypeOK
<1>8. ASSUME NEW s \in Run, DeadlinePasses(s) PROVE RunStep(r)
  BY <1>8 DEF DeadlinePasses, RunStep, Untouched, Expires, TypeOK
<1>9. CASE Next
  BY <1>1, <1>2, <1>3, <1>4, <1>5, <1>6, <1>7, <1>8, <1>9
  DEF Next, CreateThread, LookupRun, LegacyReplay, Replay, BeginResult, RollBack, MonthTurns
<1>10. QED
  BY <1>1, <1>9 DEF vars

\* What has been written of a run stays where it is.
LEMMA LogsGrow ==
  ASSUME TypeOK, ResultIsOwned, [Next]_vars, NEW r \in Run
  PROVE  /\ DOMAIN log[r] \subseteq DOMAIN log'[r]
         /\ \A i \in DOMAIN log[r] : log'[r][i] = log[r][i]
<1>1. log[r] \in Seq(Event) BY DEF TypeOK
<1>2. CASE log'[r] = log[r] BY <1>2
<1>3. ASSUME NEW o \in Owner, NEW kinds \in Seq(Kind), log'[r] = Extend(log[r], kinds, o)
      PROVE  /\ DOMAIN log[r] \subseteq DOMAIN log'[r]
             /\ \A i \in DOMAIN log[r] : log'[r][i] = log[r][i]
  <2>1. /\ log'[r] \in Seq(Event) /\ Len(log'[r]) = Len(log[r]) + Len(kinds)
        /\ \A i \in 1..Len(log[r]) : log'[r][i] = log[r][i]
    BY <1>1, <1>3, ExtendFacts
  <2>2. Len(kinds) \in Nat OBVIOUS
  <2> QED BY <1>1, <2>1, <2>2
<1>4. RunStep(r) BY StepOfARun
<1>5. log'[r] = log[r] \/ \E o \in Owner, kinds \in Seq(Kind) : log'[r] = Extend(log[r], kinds, o)
  BY <1>4, EventLists DEF RunStep, Untouched, Expires, Admitted, Progresses, Completes, Fails
<1> QED BY <1>2, <1>3, <1>5

-----------------------------------------------------------------------------
(* The invariants that speak of one run at a time.                         *)

\* A row and its log come into being together (admit_run).
LEMMA RowsAreWholeStep ==
  ASSUME TypeOK, ResultIsOwned, RowsAreWhole, [Next]_vars
  PROVE  RowsAreWhole'
<1> SUFFICES ASSUME NEW r \in Run
             PROVE  /\ Present(r)' => runs'[r].key # None
                    /\ ~Present(r)' => runs'[r] = NoRow /\ log'[r] = <<>> /\ lapsed'[r] = 0
  BY DEF RowsAreWhole
<1>1. RunStep(r)
  BY StepOfARun
<1>2. runs[r] \in Row
  BY DEF TypeOK
<1>3. /\ Present(r) => runs[r].key # None
      /\ ~Present(r) => runs[r] = NoRow /\ log[r] = <<>> /\ lapsed[r] = 0
  BY DEF RowsAreWhole
<1>4. CASE Untouched(r) \/ Expires(r)
  BY <1>2, <1>3, <1>4 DEF Untouched, Expires, IsLive, Live, Present, Row, NoRow
<1>5. CASE \E o \in Owner : Admitted(o, r)
  BY <1>5 DEF Admitted, Present
<1>6. CASE \E o \in Owner : Progresses(o, r)
  BY <1>2, <1>3, <1>6 DEF Progresses, Owned, OwnedBy, IsLive, Live, Present
<1>7. CASE \E o \in Owner : Completes(o, r) \/ Fails(o, r)
  BY <1>2, <1>3, <1>7 DEF Completes, Fails, Owned, OwnedBy, IsLive, Live, Present, Row
<1> QED BY <1>1, <1>4, <1>5, <1>6, <1>7 DEF RunStep

\* No transaction writes after done, or ends a stream without its row.
LEMMA StreamEndsOnceStep ==
  ASSUME TypeOK, ResultIsOwned, RowsAreWhole, StreamEndsOnce, [Next]_vars
  PROVE  StreamEndsOnce'
<1> SUFFICES ASSUME NEW r \in Run, NEW i \in DOMAIN log'[r]
             PROVE  /\ log'[r][i].kind = "done" <=>
                          i = Len(log'[r]) /\ runs'[r].status \in Terminal
                    /\ log'[r][i].kind = "final" => runs'[r].status = "completed"
                    /\ log'[r][i].kind = "error" => runs'[r].status = "failed"
  BY DEF StreamEndsOnce
<1>1. RunStep(r)
  BY StepOfARun
<1>2. runs[r] \in Row /\ log[r] \in Seq(Event)
  BY DEF TypeOK
<1>3. CASE Untouched(r) \/ Expires(r)
  <2>1. log'[r] = log[r] BY <1>3 DEF Untouched, Expires
  <2>2. runs'[r].status = runs[r].status BY <1>2, <1>3 DEF Untouched, Expires, Row
  <2> QED BY <2>1, <2>2 DEF StreamEndsOnce
<1>4. ASSUME NEW o \in Owner, Admitted(o, r)
      PROVE  /\ log'[r][i].kind \notin {"done", "final", "error"}
             /\ runs'[r].status = "running"
  BY <1>4, AdmissionGrowth DEF Admitted, RowsAreWhole
<1>5. ASSUME NEW o \in Owner, Progresses(o, r)
      PROVE  /\ log'[r][i].kind \notin {"done", "final", "error"}
             /\ runs'[r].status \in Live
  <2>1. runs'[r] = runs[r] /\ runs[r].status \in Live
    BY <1>5 DEF Progresses, Owned, OwnedBy, IsLive
  <2>2. CASE Old(log[r], log'[r], i)
    BY <2>1, <2>2 DEF StreamEndsOnce, Live, Terminal, Old
  <2>3. ASSUME NEW kind \in Progress, New(log[r], log'[r], i, 1, kind, o)
        PROVE  log'[r][i].kind \notin {"done", "final", "error"}
    BY <2>3 DEF New, Progress
  <2>4. QED
    BY <1>2, <1>5, <2>1, <2>2, <2>3, ProgressGrowth DEF Progresses
<1>6. ASSUME NEW o \in Owner, Completes(o, r)
      PROVE  /\ log'[r][i].kind = "done" <=> i = Len(log'[r])
             /\ log'[r][i].kind # "error"
             /\ runs'[r].status = "completed"
  <2>1. runs'[r].status = "completed" /\ runs[r].status \in Live
    BY <1>2, <1>6 DEF Completes, Owned, OwnedBy, IsLive, Row
  <2>2. CASE Old(log[r], log'[r], i)
    <3>1. log[r][i].kind # "done" /\ log[r][i].kind # "error"
      BY <2>1, <2>2 DEF StreamEndsOnce, Live, Terminal, Old
    <3>2. QED
      BY <1>2, <1>6, <2>1, <2>2, <3>1, ResultGrowth DEF Completes, Old
  <2>3. CASE ~Old(log[r], log'[r], i)
    BY <1>2, <1>6, <2>1, <2>3, ResultGrowth DEF Completes, New
  <2>4. QED
    BY <2>2, <2>3
<1>7. ASSUME NEW o \in Owner, Fails(o, r)
      PROVE  /\ log'[r][i].kind = "done" <=> i = Len(log'[r])
             /\ log'[r][i].kind # "final"
             /\ runs'[r].status = "failed"
  <2>1. runs'[r].status = "failed" /\ runs[r].status \in Live
    BY <1>2, <1>7 DEF Fails, IsLive, Row
  <2>2. CASE Old(log[r], log'[r], i)
    <3>1. log[r][i].kind # "done" /\ log[r][i].kind # "final"
      BY <2>1, <2>2 DEF StreamEndsOnce, Live, Terminal, Old
    <3>2. QED
      BY <1>2, <1>7, <2>1, <2>2, <3>1, FailureGrowth DEF Fails, Old
  <2>3. CASE ~Old(log[r], log'[r], i)
    BY <1>2, <1>7, <2>1, <2>3, FailureGrowth DEF Fails, New
  <2>4. QED
    BY <2>2, <2>3
<1>8. QED
  BY <1>1, <1>3, <1>4, <1>5, <1>6, <1>7 DEF RunStep, Terminal, Live

\* Only a failure is written after the deadline (_owned, finish).
LEMMA DeadlineFenceStep ==
  ASSUME TypeOK, ResultIsOwned, RowsAreWhole, DeadlineFence, [Next]_vars
  PROVE  DeadlineFence'
<1> SUFFICES ASSUME NEW r \in Run, lapsed'[r] > 0
             PROVE  /\ runs'[r].status # "completed"
                    /\ \A i \in lapsed'[r] + 1 .. Len(log'[r]) :
                         log'[r][i].kind \in {"run_failed", "error", "done"}
  BY DEF DeadlineFence
<1>1. RunStep(r)
  BY StepOfARun
<1>2. runs[r] \in Row /\ log[r] \in Seq(Event) /\ lapsed[r] \in Nat
  BY DEF TypeOK
<1>3. CASE Untouched(r)
  BY <1>2, <1>3 DEF DeadlineFence, Untouched, Row
<1>4. CASE Expires(r)
  BY <1>2, <1>4 DEF Expires, IsLive, Live
<1>5. ASSUME NEW o \in Owner, Admitted(o, r) PROVE FALSE
  BY <1>5 DEF Admitted, RowsAreWhole
<1>6. ASSUME NEW o \in Owner, Progresses(o, r) \/ Completes(o, r) PROVE FALSE
  BY <1>6 DEF Progresses, Completes, Owned
<1>7. ASSUME NEW o \in Owner, Fails(o, r)
      PROVE  /\ runs'[r].status # "completed"
             /\ \A i \in lapsed'[r] + 1 .. Len(log'[r]) :
                  log'[r][i].kind \in {"run_failed", "error", "done"}
  <2>1. runs'[r].status = "failed" /\ lapsed'[r] = lapsed[r] /\ log'[r] \in Seq(Event)
    BY <1>2, <1>7, ExtendFacts, EventLists DEF Fails, Row
  <2>2. ASSUME NEW i \in lapsed[r] + 1 .. Len(log'[r])
        PROVE  log'[r][i].kind \in {"run_failed", "error", "done"}
    <3>1. i \in DOMAIN log'[r]
      BY <1>2, <2>1
    <3>2. CASE Old(log[r], log'[r], i)
      BY <1>2, <2>1, <3>2 DEF DeadlineFence, Old
    <3>3. CASE ~Old(log[r], log'[r], i)
      BY <1>2, <1>7, <3>1, <3>3, FailureGrowth DEF Fails, New
    <3>4. QED
      BY <3>2, <3>3
  <2>3. QED
    BY <2>1, <2>2
<1>8. QED
  BY <1>1, <1>3, <1>4, <1>5, <1>6, <1>7 DEF RunStep

\* Only recover_interrupted writes for a run of someone else.
LEMMA ForeignWritesOnlyFailStep ==
  ASSUME TypeOK, ResultIsOwned, RowsAreWhole, ForeignWritesOnlyFail, [Next]_vars
  PROVE  ForeignWritesOnlyFail'
<1> SUFFICES ASSUME NEW r \in Run, NEW i \in DOMAIN log'[r],
                    log'[r][i].by # runs'[r].owner
             PROVE  /\ runs'[r].status = "failed"
                    /\ log'[r][i].kind \in {"run_failed", "error", "done"}
  BY DEF ForeignWritesOnlyFail
<1>1. RunStep(r)
  BY StepOfARun
<1>2. runs[r] \in Row /\ log[r] \in Seq(Event)
  BY DEF TypeOK
<1>3. CASE Untouched(r) \/ Expires(r)
  <2>1. log'[r] = log[r] BY <1>3 DEF Untouched, Expires
  <2>2. runs'[r].status = runs[r].status /\ runs'[r].owner = runs[r].owner
    BY <1>2, <1>3 DEF Untouched, Expires, Row
  <2> QED BY <2>1, <2>2 DEF ForeignWritesOnlyFail
<1>4. ASSUME NEW o \in Owner, Admitted(o, r) PROVE FALSE
  BY <1>4, AdmissionGrowth DEF Admitted, RowsAreWhole
<1>5. ASSUME NEW o \in Owner, Progresses(o, r) PROVE FALSE
  <2>1. runs'[r] = runs[r] /\ runs[r].owner = o /\ runs[r].status \in Live
    BY <1>5 DEF Progresses, Owned, OwnedBy, IsLive
  <2>2. CASE Old(log[r], log'[r], i)
    BY <2>1, <2>2 DEF ForeignWritesOnlyFail, Old, Live
  <2>3. CASE ~Old(log[r], log'[r], i)
    BY <1>2, <1>5, <2>1, <2>3, ProgressGrowth DEF Progresses, New
  <2>4. QED
    BY <2>2, <2>3
<1>6. ASSUME NEW o \in Owner, Completes(o, r) PROVE FALSE
  <2>1. /\ runs'[r].owner = runs[r].owner /\ runs[r].owner = o
        /\ runs[r].status \in Live
    BY <1>2, <1>6 DEF Completes, Owned, OwnedBy, IsLive, Row
  <2>2. CASE Old(log[r], log'[r], i)
    BY <2>1, <2>2 DEF ForeignWritesOnlyFail, Old, Live
  <2>3. CASE ~Old(log[r], log'[r], i)
    BY <1>2, <1>6, <2>1, <2>3, ResultGrowth DEF Completes, New
  <2>4. QED
    BY <2>2, <2>3
<1>7. ASSUME NEW o \in Owner, Fails(o, r)
      PROVE  /\ runs'[r].status = "failed"
             /\ log'[r][i].kind \in {"run_failed", "error", "done"}
  <2>1. runs'[r].status = "failed" /\ runs'[r].owner = runs[r].owner
    BY <1>2, <1>7 DEF Fails, Row
  <2>2. CASE Old(log[r], log'[r], i)
    BY <2>1, <2>2 DEF ForeignWritesOnlyFail, Old
  <2>3. CASE ~Old(log[r], log'[r], i)
    BY <1>2, <1>7, <2>3, FailureGrowth DEF Fails, New
  <2>4. QED
    BY <2>1, <2>2, <2>3
<1>8. QED
  BY <1>1, <1>3, <1>4, <1>5, <1>6, <1>7 DEF RunStep

-----------------------------------------------------------------------------
(* The invariants that compare runs, or relate them to the counters and to *)
(* the receipts.  Only an admission touches what they compare.             *)

Admission == \E o \in Owner, k \in Key, t \in Thread, q \in Query : AdmitRun(o, k, t, q)

Keeps(r) ==
  /\ runs'[r].owner = runs[r].owner /\ runs'[r].key = runs[r].key
  /\ runs'[r].month = runs[r].month /\ runs'[r].thread = runs[r].thread
  /\ runs'[r].status \in Live => IsLive(r)

\* Only admit_run adds a delivered run, a key or a charge.
LEMMA OnlyAdmissionCounts ==
  ASSUME TypeOK, ResultIsOwned, [Next]_vars, ~Admission
  PROVE  usage' = usage /\ \A r \in Run : Keeps(r)
<1>1. CASE UNCHANGED <<runs, usage>>
  BY <1>1 DEF Keeps, IsLive
<1>2. ASSUME CommitResult PROVE usage' = usage /\ \A r \in Run : Keeps(r)
  <2>1. txn.run \in Run
    BY <1>2 DEF CommitResult, TypeOK
  <2>2. QED
    BY <1>2, <2>1 DEF CommitResult, Keeps, IsLive, Live, TypeOK, Row
<1>3. ASSUME NEW o \in Owner, NEW s \in Run, FinishError(o, s)
      PROVE  usage' = usage /\ \A r \in Run : Keeps(r)
  BY <1>3 DEF FinishError, Keeps, IsLive, Live, TypeOK, Row
<1>4. ASSUME NEW o \in Owner, Recover(o)
      PROVE  usage' = usage /\ \A r \in Run : Keeps(r)
  BY <1>4 DEF Recover, Keeps, IsLive, Live, TypeOK, Row
<1>5. ASSUME NEW k \in Key, NEW s \in Run, NEW f \in Score, Feedback(k, s, f)
      PROVE  usage' = usage /\ \A r \in Run : Keeps(r)
  <2>1. \A r \in Run : runs[r] \in Row
    BY DEF TypeOK
  <2>2. \A r \in Run : runs'[r] = runs[r] \/ runs'[r] = [runs[r] EXCEPT !.feedback = f]
    BY <1>5, ZenonT(40) DEF Feedback, Replay, TypeOK
  <2>3. usage' = usage
    BY <1>5 DEF Feedback, Replay
  <2>4. \A row \in Row : LET new == [row EXCEPT !.feedback = f]
                         IN  /\ new.owner = row.owner /\ new.key = row.key
                             /\ new.month = row.month /\ new.thread = row.thread
                             /\ new.status = row.status
    BY DEF Row
  <2>5. QED
    BY <2>1, <2>2, <2>3, <2>4 DEF Keeps, IsLive
<1>6. CASE Next
  BY <1>1, <1>2, <1>3, <1>4, <1>5, <1>6
  DEF Next, Admission, CreateThread, LookupRun, LegacyReplay, Replay, RecordEvent,
      BeginResult, RollBack, DeadlinePasses, MonthTurns
<1>7. QED
  BY <1>1, <1>6 DEF vars

\* What admit_run inserts.
LEMMA AdmittedRow ==
  ASSUME TypeOK, RowsAreWhole, NEW o \in Owner, NEW k \in Key, NEW t \in Thread,
         NEW q \in Query, AdmitRun(o, k, t, q)
  PROVE  \E r \in Run :
           /\ runs[r] = NoRow
           /\ runs'[r].owner = o /\ runs'[r].key = k /\ runs'[r].month = month
           /\ runs'[r].status = "running"
           /\ \A s \in Run : s # r => runs'[s] = runs[s]
           /\ File(k, "create_run", t, q, r)
<1>1. PICK r \in Run :
        /\ ~Present(r)
        /\ runs' = [runs EXCEPT ![r] =
             [status |-> "running", owner |-> o, key |-> k, thread |-> t,
              query |-> q, month |-> month, feedback |-> None]]
        /\ File(k, "create_run", t, q, r)
  BY DEF AdmitRun
<1>2. runs[r] = NoRow
  BY <1>1 DEF RowsAreWhole
<1>3. /\ runs'[r].owner = o /\ runs'[r].key = k /\ runs'[r].month = month
      /\ runs'[r].status = "running"
      /\ \A s \in Run : s # r => runs'[s] = runs[s]
  BY <1>1 DEF TypeOK
<1>4. QED
  BY <1>1, <1>2, <1>3

\* admit_run finds the slot free, nothing else fills it.
LEMMA OneLiveRunStep ==
  ASSUME TypeOK, ResultIsOwned, RowsAreWhole, OneLiveRun, [Next]_vars
  PROVE  OneLiveRun'
<1>1. CASE ~Admission
  BY <1>1, OnlyAdmissionCounts DEF OneLiveRun, Keeps, IsLive, Delivered
<1>2. ASSUME NEW o \in Owner, NEW k \in Key, NEW t \in Thread, NEW q \in Query,
             AdmitRun(o, k, t, q)
      PROVE  OneLiveRun'
  <2>1. PICK r \in Run : \A s \in Run : s # r => runs'[s] = runs[s]
    BY <1>2, AdmittedRow
  <2>2. \A s \in Run : IsLive(s) => ~Delivered(s)
    BY <1>2 DEF AdmitRun, SlotFree, Delivered
  <2>3. QED
    BY <2>1, <2>2 DEF OneLiveRun, IsLive, Delivered
<1>3. QED
  BY <1>1, <1>2 DEF Admission

\* admit_run takes a key that no run has.
LEMMA RunKeysAreUniqueStep ==
  ASSUME TypeOK, ResultIsOwned, RowsAreWhole, RunKeysAreUnique, [Next]_vars
  PROVE  RunKeysAreUnique'
<1>1. CASE ~Admission
  BY <1>1, OnlyAdmissionCounts DEF RunKeysAreUnique, Keeps
<1>2. ASSUME NEW o \in Owner, NEW k \in Key, NEW t \in Thread, NEW q \in Query,
             AdmitRun(o, k, t, q)
      PROVE  RunKeysAreUnique'
  <2>1. PICK r \in Run : /\ runs'[r].key = k
                         /\ \A s \in Run : s # r => runs'[s] = runs[s]
    BY <1>2, AdmittedRow
  <2>2. \A s \in Run : runs[s].key # k
    BY <1>2 DEF AdmitRun
  <2>3. QED
    BY <2>1, <2>2 DEF RunKeysAreUnique
<1>3. QED
  BY <1>1, <1>2 DEF Admission

\* The lock keeps the run of an open result transaction.
LEMMA ResultIsOwnedStep ==
  ASSUME TypeOK, ResultIsOwned, [Next]_vars
  PROVE  ResultIsOwned'
<1>1. CASE UNCHANGED <<runs, txn>>
  BY <1>1 DEF ResultIsOwned, OwnedBy, IsLive
<1>2. CASE txn' = None
  BY <1>2 DEF ResultIsOwned
<1>3. ASSUME NEW o \in Owner, NEW r \in Run, BeginResult(o, r) PROVE ResultIsOwned'
  BY <1>3 DEF BeginResult, Owned, OwnedBy, IsLive, ResultIsOwned
<1>4. CASE Next
  BY <1>1, <1>2, <1>3, <1>4, ZenonT(40)
  DEF Next, CreateThread, LookupRun, LegacyReplay, Replay, AdmitRun, RecordEvent, CommitResult,
      RollBack, FinishError, Recover, Feedback, DeadlinePasses, MonthTurns, LockFree
<1>5. QED
  BY <1>1, <1>4 DEF vars

Charged(m) == {r \in Run : Delivered(r) /\ runs[r].month = m}

\* The counter and the rows of the month grow together.
LEMMA ChargedOncePerRunStep ==
  ASSUME TypeOK, ResultIsOwned, RowsAreWhole, ChargedOncePerRun, [Next]_vars
  PROVE  ChargedOncePerRun'
<1>1. CASE ~Admission
  <2>1. usage' = usage /\ \A r \in Run : Keeps(r)
    BY <1>1, OnlyAdmissionCounts
  <2>2. \A m \in 1..Months : {r \in Run : Delivered(r)' /\ runs'[r].month = m}
                              = {r \in Run : Delivered(r) /\ runs[r].month = m}
    BY <2>1 DEF Keeps, Delivered
  <2>3. QED
    BY <2>1, <2>2 DEF ChargedOncePerRun
<1>2. ASSUME NEW o \in Owner, NEW k \in Key, NEW t \in Thread, NEW q \in Query,
             AdmitRun(o, k, t, q)
      PROVE  ChargedOncePerRun'
  <2>1. PICK r \in Run : /\ runs[r] = NoRow /\ runs'[r].owner = o /\ runs'[r].month = month
                         /\ \A s \in Run : s # r => runs'[s] = runs[s]
    BY <1>2, AdmittedRow
  <2>2. usage' = [usage EXCEPT ![month] = @ + 1] /\ Chargeable
    BY <1>2 DEF AdmitRun
  <2>3. ~Delivered(r) /\ Delivered(r)'
    BY <2>1 DEF NoRow, Delivered
  <2>4. SUFFICES ASSUME NEW m \in 1..Months
                 PROVE  usage'[m] = Cardinality(Charged(m)') /\ usage'[m] <= Cap
    BY DEF ChargedOncePerRun, Charged
  <2>5. /\ usage[m] = Cardinality(Charged(m)) /\ usage[m] <= Cap /\ usage[m] \in Nat
        /\ month \in 1..Months /\ usage \in [1..Months -> Nat]
    BY DEF ChargedOncePerRun, Charged, TypeOK
  <2>6. CASE m = month
    <3>1. Charged(m)' = Charged(m) \cup {r} /\ r \notin Charged(m)
      BY <2>1, <2>3, <2>6 DEF Charged, Delivered
    <3>2. IsFiniteSet(Charged(m))
      BY FS_Subset DEF Charged
    <3>3. Cardinality(Charged(m)') = Cardinality(Charged(m)) + 1
      BY <3>1, <3>2, FS_AddElement
    <3>4. usage'[m] = usage[m] + 1
      BY <2>2, <2>5, <2>6
    <3>5. usage[m] + 1 <= Cap
      BY <2>2, <2>5, <2>6 DEF Chargeable
    <3>6. QED
      BY <2>5, <3>3, <3>4, <3>5
  <2>7. CASE m # month
    <3>1. Charged(m)' = Charged(m)
      BY <2>1, <2>3, <2>7 DEF Charged, Delivered
    <3>2. QED
      BY <2>2, <2>5, <2>7, <3>1
  <2>8. QED
    BY <2>6, <2>7
<1>3. QED
  BY <1>1, <1>2 DEF Admission

(* A key that is free for an operation has never been answered, or only    *)
(* with the legacy run it stored; filing its receipt accounts for the new  *)
(* answer.                                                                 *)

Accounted(k) ==
  IF receipts[k] # None
  THEN answers[k] \subseteq {[op |-> receipts[k].print.op, id |-> receipts[k].id]}
  ELSE \A a \in answers[k] : a.op = "create_run" /\ a.id \in Run /\ runs[a.id].key = k

\* A filed receipt accounts for the answers of its key.
LEMMA FileAccounts ==
  ASSUME TypeOK, AnswersAreAccounted, NEW k \in Key, NEW op \in Operation,
         NEW on \in Resource \cup {None}, NEW body \in Query \cup Score \cup {None},
         NEW id \in Resource, File(k, op, on, body, id),
         receipts[k] = None, \A r \in Run : runs[r].key # k
  PROVE  Accounted(k)'
<1>1. answers[k] = {}
  BY DEF AnswersAreAccounted
<1>2. receipts'[k] = [print |-> Fingerprint(op, on, body), id |-> id]
  BY DEF File, TypeOK
<1>3. answers'[k] = {[op |-> op, id |-> id]}
  BY <1>1 DEF File, TypeOK
<1>4. receipts'[k].print.op = op /\ receipts'[k].id = id
  BY <1>2 DEF Fingerprint
<1>5. receipts'[k] # None
  BY <1>2, NullAssumption DEF Receipt, Fingerprint
<1>6. QED
  BY <1>3, <1>4, <1>5 DEF Accounted

\* A replayed receipt accounts for the answer it gives.
LEMMA ReplayAccounts ==
  ASSUME TypeOK, AnswersAreAccounted, NEW k \in Key, NEW op, NEW on, NEW body,
         Replay(k, op, on, body)
  PROVE  Accounted(k)'
<1>1. receipts[k] # None /\ receipts[k].print.op = op /\ receipts' = receipts
  BY DEF Replay, Replays, Fingerprint
<1>2. answers[k] \subseteq {[op |-> op, id |-> receipts[k].id]}
  BY <1>1 DEF AnswersAreAccounted
<1>3. answers'[k] = answers[k] \cup {[op |-> op, id |-> receipts[k].id]}
  BY DEF Replay, TypeOK
<1>4. QED
  BY <1>1, <1>2, <1>3 DEF Accounted

\* Every answer is accounted for by its receipt or its legacy row.
LEMMA AnswersAreAccountedStep ==
  ASSUME TypeOK, ResultIsOwned, RowsAreWhole, AnswersAreAccounted, [Next]_vars
  PROVE  AnswersAreAccounted'
<1> SUFFICES ASSUME NEW k \in Key PROVE Accounted(k)'
  BY DEF AnswersAreAccounted, Accounted
<1>1. CASE receipts'[k] = receipts[k] /\ answers'[k] = answers[k]
  <2>1. \A r \in Run : runs[r].key = k => runs'[r].key = k
    <3>1. CASE ~Admission
      BY <3>1, OnlyAdmissionCounts DEF Keeps
    <3>2. ASSUME NEW o \in Owner, NEW l \in Key, NEW t \in Thread, NEW q \in Query,
                 AdmitRun(o, l, t, q)
          PROVE  \A r \in Run : runs[r].key = k => runs'[r].key = k
      <4>1. PICK r \in Run : runs[r] = NoRow /\ \A s \in Run : s # r => runs'[s] = runs[s]
        BY <3>2, AdmittedRow
      <4>2. runs[r].key # k
        BY <4>1 DEF NoRow
      <4>3. QED
        BY <4>1, <4>2
    <3>3. QED
      BY <3>1, <3>2 DEF Admission
  <2>2. QED
    BY <1>1, <2>1 DEF AnswersAreAccounted, Accounted
<1>2. ASSUME NEW l \in Key, NEW op, NEW on, NEW body, Replay(l, op, on, body)
      PROVE  Accounted(k)'
  <2>1. CASE k = l
    BY <1>2, <2>1, ReplayAccounts
  <2>2. CASE k # l
    BY <1>1, <1>2, <2>2 DEF Replay, TypeOK
  <2>3. QED
    BY <2>1, <2>2
<1>3. ASSUME NEW l \in Key, CreateThread(l) PROVE Accounted(k)'
  <2>1. CASE Replay(l, "create_thread", None, None)
    BY <1>2, <2>1
  <2>2. CASE ~Replay(l, "create_thread", None, None)
    <3>1. PICK t \in Thread : File(l, "create_thread", None, None, t)
      BY <1>3, <2>2 DEF CreateThread
    <3>2. receipts[l] = None /\ \A r \in Run : runs[r].key # l
      BY <1>3, <2>2 DEF CreateThread, Unbound
    <3>3. CASE k = l
      BY <3>1, <3>2, <3>3, FileAccounts DEF Operation, Resource
    <3>4. CASE k # l
      BY <1>1, <3>1, <3>4 DEF File, TypeOK
    <3>5. QED
      BY <3>3, <3>4
  <2>3. QED
    BY <2>1, <2>2
<1>4. ASSUME NEW l \in Key, NEW t \in Thread, NEW q \in Query, LookupRun(l, t, q)
      PROVE  Accounted(k)'
  <2>1. CASE Replay(l, "create_run", t, q)
    BY <1>2, <2>1
  <2>2. CASE LegacyReplay(l, t, q)
    <3>1. PICK r \in Run :
            /\ runs[r].key = l
            /\ answers' = [answers EXCEPT ![l] = @ \cup {[op |-> "create_run", id |-> r]}]
      BY <2>2 DEF LegacyReplay
    <3>2. receipts[l] = None /\ receipts' = receipts /\ runs' = runs
      BY <2>2 DEF LegacyReplay, Unbound
    <3>3. CASE k = l
      <4>1. answers'[k] = answers[k] \cup {[op |-> "create_run", id |-> r]}
        BY <3>1, <3>3 DEF TypeOK
      <4>2. \A a \in answers[k] : a.op = "create_run" /\ a.id \in Run /\ runs[a.id].key = k
        BY <3>2, <3>3 DEF AnswersAreAccounted
      <4>3. QED
        BY <3>1, <3>2, <3>3, <4>1, <4>2 DEF Accounted
    <3>4. CASE k # l
      BY <1>1, <3>1, <3>2, <3>4 DEF TypeOK
    <3>5. QED
      BY <3>3, <3>4
  <2>3. QED
    BY <1>4, <2>1, <2>2 DEF LookupRun
<1>5. ASSUME NEW o \in Owner, NEW l \in Key, NEW t \in Thread, NEW q \in Query,
             AdmitRun(o, l, t, q)
      PROVE  Accounted(k)'
  <2>1. PICK r \in Run : File(l, "create_run", t, q, r)
    BY <1>5 DEF AdmitRun
  <2>2. receipts[l] = None /\ \A s \in Run : runs[s].key # l
    BY <1>5 DEF AdmitRun, Unbound
  <2>3. CASE k = l
    BY <2>1, <2>2, <2>3, FileAccounts DEF Operation, Resource
  <2>4. CASE k # l
    BY <1>1, <2>1, <2>4 DEF File, TypeOK
  <2>5. QED
    BY <2>3, <2>4
<1>6. ASSUME NEW l \in Key, NEW r \in Run, NEW s \in Score, Feedback(l, r, s)
      PROVE  Accounted(k)'
  <2>1. CASE Replay(l, "feedback", r, s)
    BY <1>2, <2>1
  <2>2. CASE ~Replay(l, "feedback", r, s)
    <3>1. File(l, "feedback", r, s, r)
      BY <1>6, <2>2 DEF Feedback
    <3>2. receipts[l] = None /\ \A u \in Run : runs[u].key # l
      BY <1>6, <2>2 DEF Feedback, Unbound
    <3>3. CASE k = l
      BY <3>1, <3>2, <3>3, FileAccounts DEF Operation, Resource
    <3>4. CASE k # l
      BY <1>1, <3>1, <3>4 DEF File, TypeOK
    <3>5. QED
      BY <3>3, <3>4
  <2>3. QED
    BY <2>1, <2>2
<1>7. CASE Next
  BY <1>1, <1>3, <1>4, <1>5, <1>6, <1>7
  DEF Next, RecordEvent, BeginResult, CommitResult, RollBack, FinishError, Recover,
      DeadlinePasses, MonthTurns
<1>8. QED
  BY <1>1, <1>7 DEF vars

\* What accounts for the answers of a key makes them one.
LEMMA KeysNameOneResource ==
  ASSUME TypeOK, RunKeysAreUnique, AnswersAreAccounted
  PROVE  KeyNamesOneResource
<1> SUFFICES ASSUME NEW k \in Key, NEW a \in answers[k], NEW b \in answers[k]
             PROVE  a = b
  BY DEF KeyNamesOneResource
<1>1. CASE receipts[k] # None
  BY <1>1 DEF AnswersAreAccounted
<1>2. CASE receipts[k] = None
  <2>1. /\ a.op = b.op /\ a.id \in Run /\ b.id \in Run
        /\ runs[a.id].key = k /\ runs[b.id].key = k
    BY <1>2 DEF AnswersAreAccounted
  <2>2. a.id = b.id
    BY <2>1 DEF RunKeysAreUnique
  <2>3. a \in Answer /\ b \in Answer
    BY DEF TypeOK
  <2>4. QED
    BY <2>1, <2>2, <2>3 DEF Answer
<1>3. QED
  BY <1>1, <1>2

-----------------------------------------------------------------------------
(* The invariants of the specification                                     *)

\* The invariant holds of the tables of before the upgrade.
LEMMA InvInit == Init => IInv
<1> SUFFICES ASSUME Init PROVE IInv
  OBVIOUS
<1>1. TypeOK
  BY TypeInit
<1>2. /\ \A r \in Run : log[r] = <<>> /\ lapsed[r] = 0 /\ runs[r].owner = None
      /\ \A r \in Run :
           runs[r] = NoRow \/ (r \in LegacyRun /\ Present(r) /\ runs[r].key # None)
      /\ \A k \in Key : answers[k] = {}
      /\ txn = None
  <2>1. \A row \in LegacyRow : row.owner = None /\ row.key # None /\ row.status # "absent"
    BY DEF LegacyRow
  <2>2. \A r \in Run : runs[r] = NoRow \/ (r \in LegacyRun /\ runs[r] \in LegacyRow)
    BY DEF Init
  <2>3. \A r \in Run : runs[r] = NoRow => runs[r].owner = None
    BY DEF NoRow
  <2>4. \A r \in Run : log[r] = <<>> /\ lapsed[r] = 0
    BY DEF Init
  <2>5. (\A k \in Key : answers[k] = {}) /\ txn = None
    BY DEF Init
  <2>6. QED
    BY <2>1, <2>2, <2>3, <2>4, <2>5 DEF Present
<1>3. RowsAreWhole
  BY <1>2 DEF RowsAreWhole, NoRow, Present
<1>4. RunKeysAreUnique
  <2>1. PICK row \in [LegacyRun -> LegacyRow] :
          /\ \A r, s \in LegacyRun : row[r].key = row[s].key => r = s
          /\ runs = [r \in Run |-> IF r \in LegacyRun THEN row[r] ELSE NoRow]
    BY DEF Init
  <2>2. QED
    BY <2>1 DEF RunKeysAreUnique, NoRow
<1>5. ResultIsOwned
  BY <1>2 DEF ResultIsOwned
<1>6. AnswersAreAccounted
  BY <1>2 DEF AnswersAreAccounted
<1>7. OneLiveRun
  BY <1>2 DEF OneLiveRun, Delivered
<1>8. StreamEndsOnce /\ ForeignWritesOnlyFail
  BY <1>2 DEF StreamEndsOnce, ForeignWritesOnlyFail
<1>9. DeadlineFence
  BY <1>2 DEF DeadlineFence
<1>10. ChargedOncePerRun
  <2>1. \A m \in 1..Months : {r \in Run : Delivered(r) /\ runs[r].month = m} = {}
    BY <1>2 DEF Delivered
  <2>2. \A m \in 1..Months : usage[m] = 0
    BY DEF Init
  <2>3. Cardinality({}) = 0
    BY FS_EmptySet
  <2>4. \A m \in 1..Months :
          usage[m] = Cardinality({r \in Run : Delivered(r) /\ runs[r].month = m})
    BY <2>1, <2>2, <2>3, Zenon
  <2>5. \A m \in 1..Months : usage[m] <= Cap
    BY <2>2
  <2>6. QED
    BY <2>4, <2>5, Zenon DEF ChargedOncePerRun
<1>11. QED
  BY <1>1, <1>3, <1>4, <1>5, <1>6, <1>7, <1>8, <1>9, <1>10 DEF IInv

\* Every transaction preserves the inductive invariant.
LEMMA InvStep == IInv /\ [Next]_vars => IInv'
  BY TypeStep, RowsAreWholeStep, RunKeysAreUniqueStep, ResultIsOwnedStep,
     AnswersAreAccountedStep, OneLiveRunStep, StreamEndsOnceStep, DeadlineFenceStep,
     ForeignWritesOnlyFailStep, ChargedOncePerRunStep
  DEF IInv

\* The inductive invariant holds in every reachable state of the tables.
THEOREM Invariant == Spec => []IInv
  BY InvInit, InvStep, PTL DEF Spec

\* The execution slot never holds two runs, however many API processes admit
\* runs, restart and recover.
THEOREM OneSlot == Spec => []OneLiveRun
<1>1. IInv => OneLiveRun
  BY DEF IInv
<1>2. QED
  BY <1>1, Invariant, PTL

\* Every stream ends at most once, last, and with the status of the row.
THEOREM StreamsEndOnce == Spec => []StreamEndsOnce
<1>1. IInv => StreamEndsOnce
  BY DEF IInv
<1>2. QED
  BY <1>1, Invariant, PTL

\* After its deadline a run gains nothing but its own failure.
THEOREM Fenced == Spec => []DeadlineFence
<1>1. IInv => DeadlineFence
  BY DEF IInv
<1>2. QED
  BY <1>1, Invariant, PTL

\* No process writes into the run of another, except to fail it at a restart.
THEOREM OwnersWrite == Spec => []ForeignWritesOnlyFail
<1>1. IInv => ForeignWritesOnlyFail
  BY DEF IInv
<1>2. QED
  BY <1>1, Invariant, PTL

\* The monthly counter equals the number of runs admitted and never passes
\* the cap.
THEOREM Charges == Spec => []ChargedOncePerRun
<1>1. IInv => ChargedOncePerRun
  BY DEF IInv
<1>2. QED
  BY <1>1, Invariant, PTL

\* A key is answered with one resource for ever.
THEOREM Idempotent == Spec => []KeyNamesOneResource
<1>1. IInv => KeyNamesOneResource
  BY KeysNameOneResource DEF IInv
<1>2. QED
  BY <1>1, Invariant, PTL

-----------------------------------------------------------------------------
(* Ended runs are frozen                                                   *)

\* Writing the feedback a row has already changes nothing (record_feedback).
LEMMA FeedbackOfRow == \A row \in Row : row = [row EXCEPT !.feedback = row.feedback]
  BY DEF Row

\* Nothing but the feedback of an ended run ever changes again.
THEOREM Frozen == Spec => EndedRunsAreFrozen
<1> DEFINE A == \A r \in Run : runs[r].status \in Terminal =>
                  /\ log'[r] = log[r]
                  /\ runs'[r] = [runs[r] EXCEPT !.feedback = runs'[r].feedback]
<1>1. ASSUME IInv, [Next]_vars PROVE A
  <2>1. SUFFICES ASSUME NEW r \in Run, runs[r].status \in Terminal
                 PROVE  /\ log'[r] = log[r]
                        /\ runs'[r] = [runs[r] EXCEPT !.feedback = runs'[r].feedback]
    OBVIOUS
  <2>2. RunStep(r) /\ runs[r] \in Row
    BY <1>1, StepOfARun DEF IInv, TypeOK
  <2>3. ~IsLive(r) /\ Present(r)
    BY <2>1 DEF IsLive, Live, Terminal, Present
  <2>4. Untouched(r)
    BY <2>2, <2>3 DEF RunStep, Expires, Admitted, Progresses, Completes, Fails, Owned, OwnedBy
  <2>5. CASE runs'[r] = runs[r]
    BY <2>2, <2>4, <2>5, FeedbackOfRow DEF Untouched
  <2>6. ASSUME NEW f \in Score, runs'[r] = [runs[r] EXCEPT !.feedback = f]
        PROVE  runs'[r] = [runs[r] EXCEPT !.feedback = runs'[r].feedback]
    <3>1. [runs[r] EXCEPT !.feedback = f].feedback = f
      BY <2>2 DEF Row
    <3>2. QED
      BY <2>6, <3>1
  <2>7. QED
    BY <2>4, <2>5, <2>6 DEF Untouched
<1>2. QED
  BY <1>1, Invariant, PTL DEF Spec, EndedRunsAreFrozen

-----------------------------------------------------------------------------
(* The tables implement the lifecycle                                      *)

\* What a stream tells after events were appended to its log (_append_public).
LEMMA VerdictOfGrowth ==
  ASSUME IInv, NEW r \in Run, NEW o \in Owner
  PROVE  /\ Progresses(o, r) => VerdictOf(r)' = VerdictOf(r)
         /\ Admitted(o, r) => VerdictOf(r) = "open" /\ VerdictOf(r)' = "open"
         /\ Completes(o, r) => VerdictOf(r)' = "completed"
         /\ Fails(o, r) => VerdictOf(r)' = "failed"
<1>1. log[r] \in Seq(Event) /\ RowsAreWhole /\ StreamEndsOnce
  BY DEF IInv, TypeOK
<1>2. ASSUME Progresses(o, r) PROVE VerdictOf(r)' = VerdictOf(r)
  <2>1. PICK kind \in Progress : log'[r] = Extend(log[r], <<kind>>, o)
    BY <1>2 DEF Progresses
  <2>2. /\ Len(log'[r]) = Len(log[r]) + 1
        /\ \A i \in DOMAIN log'[r] : \/ Old(log[r], log'[r], i)
                                     \/ New(log[r], log'[r], i, 1, kind, o)
    BY <1>1, <2>1, ProgressGrowth
  <2>3. \A i \in DOMAIN log[r] : i \in DOMAIN log'[r] /\ log'[r][i] = log[r][i]
    <3>1. PICK kinds : kinds = <<kind>>
      OBVIOUS
    <3>2. kinds \in Seq(Kind) /\ log'[r] = Extend(log[r], kinds, o)
      BY <2>1, <3>1, EventLists
    <3>3. /\ log'[r] \in Seq(Event) /\ Len(log'[r]) = Len(log[r]) + Len(kinds)
          /\ \A i \in 1..Len(log[r]) : log'[r][i] = log[r][i]
      BY <1>1, <3>2, ExtendFacts
    <3>4. QED
      BY <1>1, <2>2, <3>3
  <2>4. kind # "final" /\ kind # "error"
    BY DEF Progress
  <2>5. \A k \in {"final", "error"} : Tells(r, k)' <=> Tells(r, k)
    BY <2>2, <2>3, <2>4 DEF Tells, Old, New
  <2>6. QED
    BY <2>5 DEF VerdictOf
<1>3. ASSUME Admitted(o, r) PROVE VerdictOf(r) = "open" /\ VerdictOf(r)' = "open"
  <2>1. log[r] = <<>> /\ log'[r] = Extend(<<>>, <<"query_ingested", "meta">>, o)
    BY <1>1, <1>3 DEF Admitted, RowsAreWhole
  <2>2. \A i \in DOMAIN log'[r] : log'[r][i].kind \in {"query_ingested", "meta"}
    BY <2>1, AdmissionGrowth
  <2>3. QED
    BY <2>1, <2>2 DEF VerdictOf, Tells
<1>4. ASSUME Completes(o, r) PROVE VerdictOf(r)' = "completed"
  <2>1. log'[r] = Extend(log[r], ResultEvents, o)
    BY <1>4 DEF Completes
  <2>2. log'[r] \in Seq(Event) /\ Len(log'[r]) = Len(log[r]) + 5
    BY <1>1, <2>1, ExtendFacts, EventLists, ResultGrowth
  <2>3. Len(log[r]) + 4 \in DOMAIN log'[r]
    BY <1>1, <2>2
  <2>4. log'[r][Len(log[r]) + 4].kind = "final"
    BY <1>1, <2>1, <2>3, ResultGrowth DEF Old, New
  <2>5. QED
    BY <2>3, <2>4 DEF VerdictOf, Tells
<1>5. ASSUME Fails(o, r) PROVE VerdictOf(r)' = "failed"
  <2>1. log'[r] = Extend(log[r], FailureEvents, o)
    BY <1>5 DEF Fails
  <2>2. log'[r] \in Seq(Event) /\ Len(log'[r]) = Len(log[r]) + 3
    BY <1>1, <2>1, ExtendFacts, EventLists, FailureGrowth
  <2>3. Len(log[r]) + 2 \in DOMAIN log'[r]
    BY <1>1, <2>2
  <2>4. log'[r][Len(log[r]) + 2].kind = "error"
    BY <1>1, <2>1, <2>3, FailureGrowth DEF Old, New
  <2>5. \A i \in DOMAIN log[r] : log[r][i].kind # "final"
    BY <1>1, <1>5 DEF StreamEndsOnce, Fails, IsLive, Live
  <2>6. \A i \in DOMAIN log'[r] : log'[r][i].kind # "final"
    BY <1>1, <2>1, <2>5, FailureGrowth DEF Old, New
  <2>7. QED
    BY <2>3, <2>4, <2>6 DEF VerdictOf, Tells
<1>6. QED
  BY <1>2, <1>3, <1>4, <1>5

Same(r) == PhaseOf(r)' = PhaseOf(r) /\ VerdictOf(r)' = VerdictOf(r)
Ends(r, e) == PhaseOf(r)' = e /\ VerdictOf(r)' = e

\* A run that a step leaves alone, but for its feedback, keeps its phase and verdict.
LEMMA SameWhenUntouched ==
  ASSUME IInv, NEW r \in Run, Untouched(r) \/ Expires(r) PROVE Same(r)
<1>1. runs[r] \in Row
  BY DEF IInv, TypeOK
<1>2. runs'[r].status = runs[r].status /\ runs'[r].owner = runs[r].owner /\ log'[r] = log[r]
  BY <1>1 DEF Untouched, Expires, Row
<1>3. QED
  BY <1>2 DEF Same, PhaseOf, VerdictOf, Tells, Present, IsLive, Delivered

\* record_event changes neither the phase nor the verdict of a run.
LEMMA SameWhenProgressing ==
  ASSUME IInv, NEW r \in Run, NEW o \in Owner, Progresses(o, r) PROVE Same(r)
<1>1. VerdictOf(r)' = VerdictOf(r)
  BY VerdictOfGrowth
<1>2. runs'[r] = runs[r]
  BY DEF Progresses
<1>3. QED
  BY <1>1, <1>2 DEF Same, PhaseOf, Present, IsLive, Delivered

\* finish(error) and recover_interrupted end a run and its stream as failed.
LEMMA EndsWhenFailing ==
  ASSUME IInv, NEW r \in Run, NEW o \in Owner, Fails(o, r)
  PROVE  Ends(r, "failed") /\ PhaseOf(r) \in {"live", "orphan"}
<1>1. VerdictOf(r)' = "failed"
  BY VerdictOfGrowth
<1>2. runs[r] \in Row
  BY DEF IInv, TypeOK
<1>3. runs'[r].status = "failed" /\ runs[r].status \in Live
  BY <1>2 DEF Fails, IsLive, Row
<1>4. QED
  BY <1>1, <1>3 DEF Ends, PhaseOf, Present, IsLive, Live

\* finish(result) ends a run and its stream as completed.
LEMMA EndsWhenCompleting ==
  ASSUME IInv, NEW r \in Run, NEW o \in Owner, Completes(o, r)
  PROVE  Ends(r, "completed") /\ PhaseOf(r) = "live"
<1>1. VerdictOf(r)' = "completed"
  BY VerdictOfGrowth
<1>2. runs[r] \in Row
  BY DEF IInv, TypeOK
<1>3. /\ runs'[r].status = "completed" /\ runs[r].status \in Live
      /\ runs[r].owner = o /\ o # None
  BY <1>2 DEF Completes, Owned, OwnedBy, IsLive, Row
<1>4. QED
  BY <1>1, <1>3 DEF Ends, PhaseOf, Present, IsLive, Live, Delivered

\* The tables of before the upgrade are an initial state of the lifecycle.
LEMMA LifecycleInit == Init => Lifecycle!Init
<1> SUFFICES ASSUME Init PROVE Lifecycle!Init
  OBVIOUS
<1>1. IInv
  BY InvInit
<1>2. \A r \in Run : log[r] = <<>> /\ ~Delivered(r)
        /\ runs[r].status \in {"absent"} \cup Live \cup Terminal
  <2>1. \A row \in LegacyRow : row.owner = None
    BY DEF LegacyRow
  <2>2. \A r \in Run : runs[r] = NoRow \/ (r \in LegacyRun /\ runs[r] \in LegacyRow)
    BY DEF Init
  <2>3. \A r \in Run : runs[r].owner = None
    BY <2>1, <2>2 DEF NoRow
  <2>4. \A r \in Run : runs[r].status \in {"absent"} \cup Live \cup Terminal
    BY <1>1 DEF IInv, TypeOK, Row
  <2>5. \A r \in Run : log[r] = <<>>
    BY DEF Init
  <2>6. QED
    BY <2>3, <2>4, <2>5 DEF Delivered
<1>3. \A r \in Run : PhaseOf(r) \in {"none", "orphan", "completed", "failed"}
  BY <1>2 DEF PhaseOf, Present, IsLive, Live, Terminal
<1>4. \A r \in Run : VerdictOf(r) = "open"
  BY <1>2 DEF VerdictOf, Tells
<1>5. QED
  BY <1>3, <1>4 DEF Lifecycle!Init, Lifecycle!Phase, Lifecycle!Ending


\* Every transaction is a step of the lifecycle or leaves it alone.
LEMMA LifecycleStep == IInv /\ [Next]_vars => [Lifecycle!Next]_(Lifecycle!vars)
<1> SUFFICES ASSUME IInv, [Next]_vars PROVE [Lifecycle!Next]_(Lifecycle!vars)
  OBVIOUS
<1> DEFINE phase == [r \in Run |-> PhaseOf(r)]
           verdict == [r \in Run |-> VerdictOf(r)]
<1>1. \A r \in Run : RunStep(r)
  BY StepOfARun DEF IInv
<1>2. ASSUME \A r \in Run : Same(r) PROVE UNCHANGED <<phase, verdict>>
  BY <1>2 DEF Same
<1>3. ASSUME NEW r \in Run, NEW e \in {"completed", "failed"}, Ends(r, e),
             PhaseOf(r) = "live", \A s \in Run : s # r => Same(s)
      PROVE  Lifecycle!End(r, e)
  <2>1. /\ phase' = [phase EXCEPT ![r] = e]
        /\ verdict' = [verdict EXCEPT ![r] = e]
    BY <1>3 DEF Ends, Same
  <2>2. QED
    BY <1>3, <2>1 DEF Lifecycle!End
<1>4. ASSUME NEW o \in Owner, NEW k \in Key, NEW t \in Thread, NEW q \in Query,
             AdmitRun(o, k, t, q)
      PROVE  Lifecycle!Next
  <2>1. PICK r \in Run :
          /\ ~Present(r)
          /\ runs' = [runs EXCEPT ![r] =
               [status |-> "running", owner |-> o, key |-> k, thread |-> t,
                query |-> q, month |-> month, feedback |-> None]]
          /\ log' = [log EXCEPT ![r] = Extend(@, <<"query_ingested", "meta">>, o)]
    BY <1>4 DEF AdmitRun
  <2>2. lapsed' = lapsed /\ runs \in [Run -> Row] /\ log \in [Run -> Seq(Event)]
    BY <1>4 DEF AdmitRun, IInv, TypeOK
  <2>3. \A s \in Run : s # r => Same(s)
    BY <2>1, <2>2, SameWhenUntouched DEF Untouched
  <2>4. /\ runs'[r].status = "running" /\ runs'[r].owner = o /\ runs'[r].key = k
        /\ log'[r] = Extend(log[r], <<"query_ingested", "meta">>, o)
    BY <2>1, <2>2
  <2>5. Admitted(o, r)
    BY <2>1, <2>2, <2>4 DEF Admitted
  <2>6. VerdictOf(r) = "open" /\ VerdictOf(r)' = "open"
    BY <2>5, VerdictOfGrowth
  <2>7. PhaseOf(r) = "none" /\ PhaseOf(r)' = "live"
    BY <2>1, <2>4 DEF PhaseOf, Present, IsLive, Live, Delivered
  <2>8. \A s \in Run : PhaseOf(s) # "live"
    <3>1. \A s \in Run : IsLive(s) => ~Delivered(s)
      BY <1>4 DEF AdmitRun, SlotFree, Delivered
    <3>2. \A s \in Run : runs[s].status \in {"absent"} \cup Live \cup Terminal
      BY <2>2 DEF Row
    <3>3. QED
      BY <3>1, <3>2 DEF PhaseOf, IsLive, Terminal, Live
  <2>9. phase' = [phase EXCEPT ![r] = "live"] /\ verdict' = verdict
    BY <2>3, <2>6, <2>7 DEF Same
  <2>10. Lifecycle!Admit(r)
    BY <2>7, <2>8, <2>9 DEF Lifecycle!Admit
  <2>11. QED
    BY <2>10 DEF Lifecycle!Next
<1>5. ASSUME CommitResult PROVE Lifecycle!Next
  <2>1. /\ txn.run \in Run /\ txn.owner \in Owner
        /\ runs \in [Run -> Row] /\ log \in [Run -> Seq(Event)]
    BY <1>5 DEF CommitResult, IInv, TypeOK
  <2>2. Completes(txn.owner, txn.run)
    BY <1>5, <2>1 DEF CommitResult, IInv, ResultIsOwned, Completes, Owned, OwnedBy
  <2>3. \A s \in Run : s # txn.run => Untouched(s)
    BY <1>5, <2>1 DEF CommitResult, Untouched
  <2>4. Lifecycle!End(txn.run, "completed")
    BY <1>3, <2>1, <2>2, <2>3, EndsWhenCompleting, SameWhenUntouched
  <2>5. QED
    BY <2>1, <2>4 DEF Lifecycle!Next, Lifecycle!Ending
<1>6. ASSUME NEW o \in Owner, NEW r \in Run, FinishError(o, r) PROVE Lifecycle!Next
  <2>1. runs \in [Run -> Row] /\ log \in [Run -> Seq(Event)]
    BY DEF IInv, TypeOK
  <2>2. Fails(o, r)
    BY <1>6, <2>1 DEF FinishError, OwnedBy, Fails
  <2>3. \A s \in Run : s # r => Untouched(s)
    BY <1>6, <2>1 DEF FinishError, Untouched
  <2>4. PhaseOf(r) = "live"
    BY <1>6 DEF FinishError, OwnedBy, PhaseOf, Present, IsLive, Live, Delivered
  <2>5. Lifecycle!End(r, "failed")
    BY <1>3, <2>2, <2>3, <2>4, EndsWhenFailing, SameWhenUntouched
  <2>6. QED
    BY <2>5 DEF Lifecycle!Next, Lifecycle!Ending
<1>7. ASSUME NEW o \in Owner, Recover(o) PROVE [Lifecycle!Next]_(Lifecycle!vars)
  <2>1. runs \in [Run -> Row] /\ log \in [Run -> Seq(Event)]
    BY DEF IInv, TypeOK
  <2>2. \A s \in Run : s \in Interrupted(o) => Fails(o, s)
    BY <1>7, <2>1 DEF Recover, Interrupted, Fails
  <2>3. \A s \in Run : s \notin Interrupted(o) => Untouched(s)
    BY <1>7, <2>1 DEF Recover, Untouched
  <2>4. /\ \A s \in Interrupted(o) : Ends(s, "failed") /\ PhaseOf(s) \in {"live", "orphan"}
        /\ \A s \in Run \ Interrupted(o) : Same(s)
        /\ Interrupted(o) \subseteq Run
    BY <2>2, <2>3, EndsWhenFailing, SameWhenUntouched DEF Interrupted
  <2>5. CASE Interrupted(o) = {}
    BY <1>2, <2>4, <2>5 DEF Lifecycle!vars
  <2>6. CASE Interrupted(o) # {}
    <3>1. /\ phase' = [s \in Run |-> IF s \in Interrupted(o) THEN "failed" ELSE phase[s]]
          /\ verdict' = [s \in Run |-> IF s \in Interrupted(o) THEN "failed" ELSE verdict[s]]
          /\ \A s \in Interrupted(o) : phase[s] \in {"live", "orphan"}
      BY <2>4 DEF Ends, Same
    <3>2. Lifecycle!Interrupt(Interrupted(o))
      BY <2>6, <3>1 DEF Lifecycle!Interrupt
    <3>3. QED
      BY <2>4, <3>2 DEF Lifecycle!Next
  <2>7. QED
    BY <2>5, <2>6
<1>8. ASSUME NEW o \in Owner, NEW r \in Run, NEW kind \in Progress, RecordEvent(o, r, kind)
      PROVE  \A s \in Run : Same(s)
  <2>1. log \in [Run -> Seq(Event)]
    BY DEF IInv, TypeOK
  <2>2. Progresses(o, r)
    BY <1>8, <2>1 DEF RecordEvent, Progresses
  <2>3. \A s \in Run : s # r => Untouched(s)
    BY <1>8, <2>1 DEF RecordEvent, Untouched
  <2>4. QED
    BY <2>2, <2>3, SameWhenProgressing, SameWhenUntouched
<1>9. ASSUME NEW k \in Key, NEW r \in Run, NEW f \in Score, Feedback(k, r, f)
      PROVE  \A s \in Run : Same(s)
  <2>1. \A s \in Run : Untouched(s)
    BY <1>9 DEF Feedback, Replay, Untouched, IInv, TypeOK
  <2>2. QED
    BY <2>1, SameWhenUntouched
<1>10. ASSUME NEW r \in Run, DeadlinePasses(r) PROVE \A s \in Run : Same(s)
  <2>1. \A s \in Run : Untouched(s) \/ Expires(s)
    BY <1>10 DEF DeadlinePasses, Untouched, Expires, IInv, TypeOK
  <2>2. QED
    BY <2>1, SameWhenUntouched
<1>11. CASE UNCHANGED <<runs, lapsed, log>>
  <2>1. \A s \in Run : Untouched(s)
    BY <1>11 DEF Untouched
  <2>2. QED
    BY <1>2, <2>1, SameWhenUntouched DEF Lifecycle!vars
<1>12. ASSUME \A s \in Run : Same(s) PROVE [Lifecycle!Next]_(Lifecycle!vars)
  BY <1>2, <1>12 DEF Lifecycle!vars
<1>13. CASE Next
  <2>1. CASE \/ \E k \in Key : CreateThread(k)
             \/ \E k \in Key, t \in Thread, q \in Query : LookupRun(k, t, q)
             \/ \E o \in Owner, r \in Run : BeginResult(o, r)
             \/ RollBack \/ MonthTurns
    <3>1. UNCHANGED <<runs, lapsed, log>>
      BY <2>1 DEF CreateThread, LookupRun, LegacyReplay, Replay, BeginResult, RollBack, MonthTurns
    <3>2. QED
      BY <1>11, <3>1
  <2>2. CASE \/ \E o \in Owner, r \in Run, kind \in Progress : RecordEvent(o, r, kind)
             \/ \E k \in Key, r \in Run, s \in Score : Feedback(k, r, s)
             \/ \E r \in Run : DeadlinePasses(r)
    <3>1. \A s \in Run : Same(s)
      BY <1>8, <1>9, <1>10, <2>2
    <3>2. QED
      BY <1>12, <3>1
  <2>3. CASE \/ \E o \in Owner, k \in Key, t \in Thread, q \in Query : AdmitRun(o, k, t, q)
             \/ CommitResult
             \/ \E o \in Owner, r \in Run : FinishError(o, r)
    BY <1>4, <1>5, <1>6, <2>3
  <2>4. CASE \E o \in Owner : Recover(o)
    BY <1>7, <2>4
  <2>5. QED
    BY <1>13, <2>1, <2>2, <2>3, <2>4 DEF Next
<1>14. QED
  BY <1>11, <1>13 DEF vars

\* The transactions implement the lifecycle the service promises: one slot,
\* one ending per run, told by the row and by the stream in the same step.
THEOREM Implementation == Spec => ImplementsLifecycle
<1>1. Spec => Lifecycle!Init /\ [][Lifecycle!Next]_(Lifecycle!vars)
  BY LifecycleInit, LifecycleStep, Invariant, PTL DEF Spec
<1>2. QED
  BY <1>1 DEF ImplementsLifecycle, Lifecycle!Spec
=============================================================================
