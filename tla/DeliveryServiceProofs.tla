------------------------ MODULE DeliveryServiceProofs ------------------------
(***************************************************************************)
(* Proofs about the delivery service: for any number of processes, runs,   *)
(* calls and workers, its steps are steps of the repository, of the ledger *)
(* and of the executor, and the three agree about every run.               *)
(*                                                                         *)
(* The invariants come in layers, each resting on the ones before it: what *)
(* the threads of the process hold (Base), what the tables say (the        *)
(* repository's own invariant, by refinement), who is in charge of a run   *)
(* (Charge), and what a model call costs (Calls).                          *)
(***************************************************************************)
EXTENDS DeliveryService, TLAPS, FiniteSetTheorems

P == INSTANCE DeliveryPartsProofs WITH
  Score <- {}, LegacyThread <- Thread, LegacyRun <- {}, Months <- 1,
  Job <- Run, Fault <- Fault \cap {"death"}, PaidRun <- Run, Historical <- 0

-----------------------------------------------------------------------------
(* The parts, under the names of their proofs *)

LEMMA ExecApart == P!Apart
BY ServiceAssumption
   DEF P!Apart, P!Exec!ExecutorAssumption, P!Exec!NullAssumption, Exec!ExecutorAssumption,
       Exec!NullAssumption, P!Exec!Faults, Exec!Faults, P!Exec!Code, Exec!Code, P!Exec!Reply,
       Exec!Reply, P!Exec!Task,
       Exec!Task, P!Exec!Sighting, Exec!Sighting, P!Exec!Recycling, Exec!Recycling

LEMMA RepoAssumed == P!RepositoryAssumption /\ P!NullAssumption
<1>1. P!RepositoryAssumption
  BY ServiceAssumption
     DEF Repo!RepositoryAssumption, P!RepositoryAssumption, Repo!IsFiniteSet, P!IsFiniteSet
<1>2. P!NullAssumption
  BY ServiceAssumption
     DEF Repo!NullAssumption, P!NullAssumption, Repo!Receipt, P!Receipt, Repo!Result, P!Result,
         Repo!Operation, P!Operation, Repo!Resource, P!Resource
<1> QED BY <1>1, <1>2

USE RepoAssumed

\* NULL is no process, run, note, row or record.
LEMMA NullIsApart ==
  /\ None \notin Owner \cup Run \cup Nat \cup Note \cup Admission
  /\ None \notin Exec!Task \cup Exec!Recycling \cup Exec!Reply \cup Exec!Sighting
BY ServiceAssumption
   DEF Exec!ExecutorAssumption, Exec!NullAssumption, Repo!RepositoryAssumption

-----------------------------------------------------------------------------
(* Base: the stages of the threads *)

\* The steps of the executor that change nothing else.
Inside ==
  \/ Sender \/ Monitor \/ Watchdog \/ Recycle \/ Close
  \/ ExecutorStep(Exec!WorkerReady \/ Exec!WorkerTakes \/ Exec!WorkerResumes \/ Exec!WorkerDies)

\* Before the executor is started and after the process is gone there is nothing in memory.
NothingRuns ==
  /\ life = "down" /\ job = None /\ rec = None /\ monitor = None /\ watch = None /\ senders = {}
  /\ worker = Exec!NoWorker /\ wire = None /\ cmd = None
  /\ request = None /\ callback = "none" /\ notice = "none"

StagesAgree ==
  /\ owner = None <=> boot = "down"
  /\ IF boot \in {"up", "closing"} THEN life # "down" ELSE NothingRuns
  /\ request # None => boot = "up" /\ (request.stage = "checked" <=> request.run = None)
  /\ callback = "recorded" =>
       /\ monitor # None /\ monitor.stage = "event"
       /\ monitor.note.type \in {"before_llm", "after_llm"}
  /\ callback \in {"commit", "late", "settle"} => monitor # None /\ monitor.stage = "result"
  /\ notice = "settle" => rec # None /\ rec.stage = "notify"

Base == TypeOK /\ P!ExecInv /\ StagesAgree

\* A step of the executor, taken under the name it has in the service.
LEMMA CallerSteps ==
  /\ Exec!Start => P!ExecStep
  /\ (\E r \in Run : Exec!Submit(r) \/ Exec!DeadlinePasses(r)) => P!ExecStep
  /\ Exec!CloseBegins => P!ExecStep
  /\ Exec!CloseWaits \/ Exec!CloseRecycles => P!ExecStep
<1>1. Exec!Start => P!Exec!Start BY DEF Exec!Start, P!Exec!Start, Exec!Spawn, P!Exec!Spawn,
                                        Exec!NewWorker, P!Exec!NewWorker
<1>2. ASSUME NEW r \in Run PROVE Exec!Submit(r) => P!Exec!Submit(r)
  BY DEF Exec!Submit, P!Exec!Submit, Exec!Submittable, P!Exec!Submittable, Exec!Ready,
         P!Exec!Ready, Exec!pipes, P!Exec!pipes
<1>3. ASSUME NEW r \in Run PROVE Exec!DeadlinePasses(r) => P!Exec!DeadlinePasses(r)
  BY DEF Exec!DeadlinePasses, P!Exec!DeadlinePasses, Exec!pipes, P!Exec!pipes
<1>4. /\ Exec!CloseBegins => P!Exec!CloseBegins
      /\ Exec!CloseWaits => P!Exec!CloseWaits
      /\ Exec!CloseRecycles => P!Exec!CloseRecycles
  BY DEF Exec!CloseBegins, P!Exec!CloseBegins, Exec!CloseWaits, P!Exec!CloseWaits,
         Exec!CloseRecycles, P!Exec!CloseRecycles, Exec!pipes, P!Exec!pipes
<1> QED BY <1>1, <1>2, <1>3, <1>4 DEF P!ExecStep

LEMMA WorkerSteps ==
  /\ Exec!WorkerReady \/ Exec!WorkerTakes \/ Exec!WorkerResumes \/ Exec!WorkerDies => P!ExecStep
  /\ (\E n \in Note : Exec!WorkerEmits(n)) => P!ExecStep
  /\ Exec!WorkerProceeds => P!ExecStep
  /\ Exec!WorkerReports("result") \/ Exec!WorkerReports("failure") => P!ExecStep
<1>1. /\ Exec!WorkerReady => P!Exec!WorkerReady
      /\ Exec!WorkerTakes => P!Exec!WorkerTakes
      /\ Exec!WorkerResumes => P!Exec!WorkerResumes
      /\ Exec!WorkerDies => P!Exec!WorkerDies
      /\ Exec!WorkerProceeds => P!Exec!WorkerProceeds
  BY DEF Exec!WorkerReady, P!Exec!WorkerReady, Exec!WorkerTakes, P!Exec!WorkerTakes,
         Exec!WorkerResumes, P!Exec!WorkerResumes, Exec!WorkerDies, P!Exec!WorkerDies,
         Exec!WorkerProceeds, P!Exec!WorkerProceeds, Exec!pipes, P!Exec!pipes, Exec!NoWorker,
         P!Exec!NoWorker
<1>2. ASSUME NEW n \in Note PROVE Exec!WorkerEmits(n) => P!Exec!WorkerEmits(n)
  BY DEF Exec!WorkerEmits, P!Exec!WorkerEmits
<1>3. ASSUME NEW kind \in {"result", "failure"}
      PROVE  Exec!WorkerReports(kind) => P!Exec!WorkerReports(kind)
  BY DEF Exec!WorkerReports, P!Exec!WorkerReports
<1> QED BY <1>1, <1>2, <1>3 DEF P!ExecStep, P!Exec!Worker

LEMMA ThreadSteps ==
  /\ (\E s \in senders : Exec!SenderStarts(s) \/ Exec!SenderSends(s)) => P!ExecStep
  /\ Exec!Monitor => P!ExecStep
  /\ Exec!WatchSees \/ Exec!WatchRecycles => P!ExecStep
  /\ Exec!RecycleKills \/ Exec!RecycleNotifies \/ Exec!RecycleRespawns => P!ExecStep
<1>1. ASSUME NEW s \in senders
      PROVE  /\ Exec!SenderStarts(s) => P!Exec!SenderStarts(s)
             /\ Exec!SenderSends(s) => P!Exec!SenderSends(s)
  BY DEF Exec!SenderStarts, P!Exec!SenderStarts, Exec!Sendable, P!Exec!Sendable, Exec!pipes,
         P!Exec!pipes, Exec!SenderSends, P!Exec!SenderSends, Exec!Recycles, P!Exec!Recycles
<1>2. Exec!Monitor => P!Exec!Monitor
  BY DEF Exec!Monitor, P!Exec!Monitor, Exec!MonitorTakes, P!Exec!MonitorTakes, Exec!Busy,
         P!Exec!Busy, Exec!MonitorAcks, P!Exec!MonitorAcks, Exec!Sendable, P!Exec!Sendable,
         Exec!MonitorClears, P!Exec!MonitorClears, Exec!MonitorRecycles, P!Exec!MonitorRecycles,
         Exec!Recycles, P!Exec!Recycles, Exec!pipes, P!Exec!pipes
<1>3. /\ Exec!WatchSees => P!Exec!WatchSees
      /\ Exec!WatchRecycles => P!Exec!WatchRecycles
  BY DEF Exec!WatchSees, P!Exec!WatchSees, Exec!WatchRecycles, P!Exec!WatchRecycles, Exec!Recycles,
         P!Exec!Recycles, Exec!pipes, P!Exec!pipes
<1>4. /\ Exec!RecycleKills => P!Exec!RecycleKills
      /\ Exec!RecycleNotifies => P!Exec!RecycleNotifies
      /\ Exec!RecycleRespawns => P!Exec!RecycleRespawns
  BY DEF Exec!RecycleKills, P!Exec!RecycleKills, Exec!RecycleNotifies, P!Exec!RecycleNotifies,
         Exec!RecycleRespawns, P!Exec!RecycleRespawns, Exec!Spawn, P!Exec!Spawn, Exec!NewWorker,
         P!Exec!NewWorker, Exec!NoWorker, P!Exec!NoWorker, Exec!pipes, P!Exec!pipes
<1> QED BY <1>1, <1>2, <1>3, <1>4 DEF P!ExecStep, P!Exec!Recycle

LEMMA CallbackSteps ==
  /\ Exec!EventAccepted => P!ExecStep
  /\ Exec!EventRefused("agent_failure") \/ Exec!EventRefused("budget_exceeded") => P!ExecStep
  /\ Exec!ResultHandled \/ Exec!ResultRefused => P!ExecStep
<1>1. /\ Exec!EventAccepted => P!Exec!EventAccepted
      /\ Exec!ResultHandled => P!Exec!ResultHandled
      /\ Exec!ResultRefused => P!Exec!ResultRefused
  BY DEF Exec!EventAccepted, P!Exec!EventAccepted, Exec!ResultHandled, P!Exec!ResultHandled,
         Exec!ResultRefused, P!Exec!ResultRefused, Exec!MonitorMoves, P!Exec!MonitorMoves,
         Exec!pipes, P!Exec!pipes
<1>2. ASSUME NEW code \in {"agent_failure", "budget_exceeded"}
      PROVE  Exec!EventRefused(code) => P!Exec!EventRefused(code)
  BY DEF Exec!EventRefused, P!Exec!EventRefused, Exec!MonitorMoves, P!Exec!MonitorMoves,
         Exec!pipes, P!Exec!pipes
<1> QED BY <1>1, <1>2 DEF P!ExecStep

\* Every step of the service is a step of the executor, leaves it alone, or is its end.
LEMMA ExecutorMoves ==
  ASSUME TypeOK, StagesAgree, [Next]_vars PROVE P!ExecStep \/ UNCHANGED exec \/ P!Lost
<1>1. CASE Boot
  <2>1. CASE BootExecutor BY <2>1, CallerSteps DEF BootExecutor
  <2>2. CASE BootRows \/ \E o \in Owner : BootLedger(o) BY <2>2 DEF BootRows, BootLedger
  <2> QED BY <1>1, <2>1, <2>2 DEF Boot
<1>2. CASE Crash \/ Exit
  BY <1>2 DEF Crash, Exit, Stop, P!Lost, Exec!NoWorker, P!Exec!NoWorker
<1>3. CASE LeftTransaction \/ OrphanProceeds \/ Accept
  BY <1>3 DEF LeftTransaction, OrphanProceeds, Accept, ReplayRun, CheckRun, RefuseRun
<1>4. CASE Request
  <2>1. CASE SubmitRun
    <3>1. request.run \in Run BY <2>1 DEF SubmitRun, TypeOK, StagesAgree, Admission
    <3> QED BY <2>1, <3>1, CallerSteps DEF SubmitRun
  <2>2. CASE AdmitRun \/ SubmitFails \/ FailRequest \/ FailRequestFails \/ SettleRequest
    BY <2>2 DEF AdmitRun, SubmitFails, FailRequest, FailRequestFails, SettleRequest
  <2> QED BY <1>4, <2>1, <2>2 DEF Request
<1>5. CASE OnEvent BY <1>5, CallbackSteps DEF OnEvent, RecordEvent, RejectEvent, ReserveCall,
                                              CompleteCall
<1>6. CASE OnResult BY <1>6, CallbackSteps DEF OnResult, BeginResult, EndResult, FailLate,
                                               ResultFails, SettleResult
<1>7. CASE OnFailure BY <1>7, ThreadSteps DEF OnFailure, NotifyFailure, SettleFailure, NotifyFails
<1>8. CASE Sender \/ Monitor \/ Watchdog \/ Recycle \/ Close
  BY <1>8, ThreadSteps, CallerSteps DEF Sender, Monitor, Watchdog, Recycle, Close, ExecutorStep
<1>9. CASE CloseBegins BY <1>9, CallerSteps DEF CloseBegins
<1>10. CASE Worker
  BY <1>10, WorkerSteps DEF Worker, WorkerEmits, WorkerProceeds, WorkerReports, ExecutorStep
<1>11. CASE \E r \in Run : RowDeadlinePasses(r) \/ JobDeadlinePasses(r)
  BY <1>11, CallerSteps DEF RowDeadlinePasses, JobDeadlinePasses
<1>12. CASE UNCHANGED vars BY <1>12 DEF vars
<1> QED BY <1>1, <1>2, <1>3, <1>4, <1>5, <1>6, <1>7, <1>8, <1>9, <1>10, <1>11, <1>12 DEF Next

LEMMA ExecutorStays == ASSUME Base, [Next]_vars PROVE P!ExecInv'
<1> USE DEF Base
<1>1. CASE P!ExecStep BY <1>1, P!ExecInvStep, ExecApart
<1>2. CASE UNCHANGED exec
  <2>1. UNCHANGED P!Exec!vars BY <1>2 DEF exec, P!Exec!vars, P!Exec!pipes
  <2> QED BY <2>1, P!ExecStutter
<1>3. CASE P!Lost BY <1>3, P!LostStep, ExecApart
<1> QED BY <1>1, <1>2, <1>3, ExecutorMoves

-----------------------------------------------------------------------------
(* Base is an invariant *)

LEMMA TypeInit == Init => TypeOK /\ StagesAgree
BY NullIsApart DEF Init, HereInit, Exec!Init, TypeOK, StagesAgree, NothingRuns, Exec!NoWorker,
       Exec!WorkerState

\* A request moves on.
LEMMA AdmissionMoves ==
  ASSUME NEW a \in Admission, NEW stage \in {"checked", "admitted", "failing", "settling"}
  PROVE  /\ [a EXCEPT !.stage = stage] \in Admission
         /\ [a EXCEPT !.stage = stage].run = a.run /\ [a EXCEPT !.stage = stage].stage = stage
         /\ \A r \in Run : /\ [a EXCEPT !.run = r, !.stage = stage] \in Admission
                          /\ [a EXCEPT !.run = r, !.stage = stage].run = r
                          /\ [a EXCEPT !.run = r, !.stage = stage].stage = stage
BY DEF Admission

LEMMA FailTypes ==
  ASSUME TypeOK, NEW r, NEW code \in Exec!Code, Fail(r, code)
  PROVE  error' \in [Run -> Exec!Code \cup {None}]
BY DEF Fail, TypeOK

\* What a recycling tells is a code (P!ExecInv).
LEMMA ExecTypes ==
  ASSUME P!ExecInv
  PROVE  /\ rec # None => rec \in Exec!Recycling
         /\ rec # None /\ rec.stage = "notify" => rec.job \in Run
         /\ monitor # None => monitor \in Exec!Task
         /\ wire # None => wire \in Exec!Reply
         /\ worker \in [st : Exec!WorkerState, job : Run \cup {None}, note : Note \cup {None}]
         /\ job \in Run \cup {None} /\ cmd \in Run \cup {None}
         /\ senders \subseteq Exec!Sending
BY DEF P!ExecInv, P!Exec!TypeOK, P!ThreadsAgree, P!CausesAreKept, P!Exec!Task, Exec!Task,
       P!Exec!Recycling, Exec!Recycling, P!Exec!Reply, Exec!Reply, P!Exec!WorkerState,
       Exec!WorkerState, P!Exec!Code, Exec!Code, P!Exec!Sending, Exec!Sending

LEMMA TypeStep == ASSUME Base, Next PROVE TypeOK'
<1> USE DEF Base
<1>1. CASE UNCHANGED here BY <1>1 DEF here, TypeOK
<1>2. CASE Boot
  <2>1. CASE \E o \in Owner : BootLedger(o) BY <2>1 DEF BootLedger, TypeOK
  <2>2. CASE BootRows
    <3>1. "server_restarted" \in Exec!Code BY DEF Exec!Code
    <3>2. error' \in [Run -> Exec!Code \cup {None}] BY <2>2, <3>1 DEF BootRows, TypeOK
    <3> QED BY <2>2, <3>2 DEF BootRows, TypeOK
  <2>3. CASE BootExecutor BY <2>3 DEF BootExecutor, TypeOK
  <2> QED BY <1>2, <2>1, <2>2, <2>3 DEF Boot
<1>3. CASE Crash \/ Exit
  <2>1. orphan' \in [st : Exec!WorkerState, job : Run \cup {None}, note : Note \cup {None}]
    BY <1>3, ExecTypes DEF Crash, Exit, Stop
  <2> QED BY <1>3, <2>1 DEF Crash, Exit, Stop, TypeOK
<1>4. CASE Accept
  <2>1. ASSUME NEW k \in Key, NEW t \in Thread, NEW q \in Query, CheckRun(k, t, q) PROVE TypeOK'
    <3>1. request' \in Admission BY <2>1 DEF CheckRun, Admission
    <3> QED BY <2>1, <3>1 DEF CheckRun, TypeOK
  <2>2. CASE RefuseRun BY <2>2 DEF RefuseRun, TypeOK
  <2>3. ASSUME NEW k \in Key, NEW t \in Thread, NEW q \in Query, ReplayRun(k, t, q) PROVE TypeOK'
    BY <2>3, <1>1 DEF ReplayRun
  <2> QED BY <1>4, <2>1, <2>2, <2>3 DEF Accept
<1>5. CASE Request
  <2>1. CASE AdmitRun
    <3>1. PICK r \in Run : request' = [request EXCEPT !.run = r, !.stage = "admitted"]
      BY <2>1 DEF AdmitRun
    <3>2. request' \in Admission BY <2>1, <3>1, AdmissionMoves DEF AdmitRun, TypeOK
    <3> QED BY <2>1, <3>2 DEF AdmitRun, TypeOK
  <2>2. CASE SubmitRun \/ FailRequestFails \/ SettleRequest
    BY <2>2 DEF SubmitRun, FailRequestFails, SettleRequest, TypeOK
  <2>3. CASE SubmitFails
    <3>1. request' \in Admission BY <2>3, AdmissionMoves DEF SubmitFails, TypeOK
    <3> QED BY <2>3, <3>1 DEF SubmitFails, TypeOK
  <2>4. CASE FailRequest
    <3>1. request' \in Admission BY <2>4, AdmissionMoves DEF FailRequest, TypeOK
    <3>2. error' \in [Run -> Exec!Code \cup {None}]
      <4>1. "dispatch_failed" \in Exec!Code BY DEF Exec!Code
      <4> QED BY <2>4, <4>1, FailTypes DEF FailRequest
    <3> QED BY <2>4, <3>1, <3>2 DEF FailRequest, TypeOK
  <2> QED BY <1>5, <2>1, <2>2, <2>3, <2>4 DEF Request
<1>6. CASE OnEvent
  BY <1>1, <1>6 DEF OnEvent, RecordEvent, RejectEvent, ReserveCall, CompleteCall, TypeOK
<1>7. CASE OnResult
  <2>1. CASE FailLate
    <3>1. "run_timeout" \in Exec!Code BY DEF Exec!Code
    <3>2. error' \in [Run -> Exec!Code \cup {None}] BY <2>1, <3>1, FailTypes DEF FailLate
    <3> QED BY <2>1, <3>2 DEF FailLate, TypeOK
  <2>2. CASE BeginResult \/ EndResult \/ ResultFails \/ SettleResult
    BY <2>2 DEF BeginResult, EndResult, ResultFails, SettleResult, TypeOK
  <2> QED BY <1>7, <2>1, <2>2 DEF OnResult
<1>8. CASE OnFailure
  <2>1. CASE NotifyFailure
    <3>1. rec.code \in Exec!Code BY <2>1, ExecTypes DEF NotifyFailure, Exec!Recycling
    <3>2. error' \in [Run -> Exec!Code \cup {None}] BY <2>1, <3>1, FailTypes DEF NotifyFailure
    <3> QED BY <2>1, <3>2 DEF NotifyFailure, TypeOK
  <2>2. CASE SettleFailure BY <2>2 DEF SettleFailure, TypeOK
  <2>3. CASE NotifyFails BY <2>3, <1>1 DEF NotifyFails
  <2> QED BY <1>8, <2>1, <2>2, <2>3 DEF OnFailure
<1>9. CASE CloseBegins BY <1>9 DEF CloseBegins, TypeOK
<1>10. CASE Worker
  <2>1. CASE WorkerProceeds
    <3>1. billed' \in [Run \X Call -> Amount \cup {None}] BY <2>1 DEF WorkerProceeds, Calls, TypeOK
    <3> QED BY <2>1, <3>1 DEF WorkerProceeds, TypeOK
  <2>2. CASE ~ WorkerProceeds
    BY <1>1, <1>10, <2>2 DEF Worker, WorkerEmits, WorkerReports, ExecutorStep
  <2> QED BY <2>1, <2>2
<1>11. CASE OrphanProceeds
  <2>1. billed' \in [Run \X Call -> Amount \cup {None}] BY <1>11 DEF OrphanProceeds, Calls, TypeOK
  <2>2. Exec!NoWorker \in [st : Exec!WorkerState, job : Run \cup {None}, note : Note \cup {None}]
    BY DEF Exec!NoWorker, Exec!WorkerState
  <2> QED BY <1>11, <2>1, <2>2 DEF OrphanProceeds, TypeOK
<1>12. CASE LeftTransaction \/ Inside \/ \E r \in Run : RowDeadlinePasses(r) \/ JobDeadlinePasses(r)
  BY <1>1, <1>12 DEF LeftTransaction, Inside, Sender, Monitor, Watchdog, Recycle, Close,
                     ExecutorStep, RowDeadlinePasses, JobDeadlinePasses
<1> QED
  BY <1>2, <1>3, <1>4, <1>5, <1>6, <1>7, <1>8, <1>9, <1>10, <1>11, <1>12 DEF Next, Inside

\* The threads of the executor only run between its start and its end, and none of them
\* takes over what a callback is busy with.
LEMMA InsideMoves ==
  ASSUME Base, Inside
  PROVE  /\ UNCHANGED <<repo, calls, here>>
         /\ boot \in {"up", "closing"} /\ life' # "down"
         /\ monitor # None /\ monitor.stage \in {"event", "result"} => monitor' = monitor
         /\ rec # None /\ rec.stage = "notify" => rec' = rec
<1> USE DEF Exec!pipes
<1>1. /\ life = "down" => conn = None
      /\ boot \notin {"up", "closing"} => NothingRuns
      /\ boot \in {"up", "closing"} => life # "down"
  BY DEF Base, StagesAgree, P!ExecInv, P!ThreadsAgree, P!ConnIsCurrent
<1>2. CASE Sender
  <2>1. PICK s \in senders : Exec!SenderStarts(s) \/ Exec!SenderSends(s)
    BY <1>2 DEF Sender, ExecutorStep
  <2>2. UNCHANGED <<repo, calls, here, life, monitor>> /\ senders # {}
    BY <1>2, <2>1 DEF Sender, ExecutorStep, Exec!SenderStarts, Exec!SenderSends
  <2>3. rec # None => rec' = rec
    BY <2>1 DEF Exec!SenderStarts, Exec!SenderSends, Exec!Recycles
  <2> QED BY <1>1, <2>2, <2>3 DEF NothingRuns
<1>3. CASE Monitor
  <2>1. Exec!Monitor /\ UNCHANGED <<repo, calls, here>> BY <1>3 DEF Monitor, ExecutorStep
  <2>2. life' = life /\ (monitor # None \/ conn # None)
    BY <2>1 DEF Exec!Monitor, Exec!MonitorTakes, Exec!MonitorAcks, Exec!MonitorClears,
                Exec!MonitorRecycles
  <2>3. monitor # None => monitor.stage \notin {"event", "result"}
    BY <2>1 DEF Exec!Monitor, Exec!MonitorTakes, Exec!MonitorAcks, Exec!MonitorClears,
                Exec!MonitorRecycles
  <2>4. rec # None => rec' = rec
    BY <2>1 DEF Exec!Monitor, Exec!MonitorTakes, Exec!MonitorAcks, Exec!MonitorClears,
                Exec!MonitorRecycles, Exec!Recycles
  <2> QED BY <1>1, <2>1, <2>2, <2>3, <2>4 DEF NothingRuns
<1>4. CASE Watchdog
  <2>1. (Exec!WatchSees \/ Exec!WatchRecycles) /\ UNCHANGED <<repo, calls, here>>
    BY <1>4 DEF Watchdog, ExecutorStep
  <2>2. life' = life /\ monitor' = monitor /\ (conn # None \/ job # None \/ watch # None)
    BY <2>1 DEF Exec!WatchSees, Exec!WatchRecycles
  <2>3. rec # None => rec' = rec
    BY <2>1 DEF Exec!WatchSees, Exec!WatchRecycles, Exec!Recycles
  <2> QED BY <1>1, <2>1, <2>2, <2>3 DEF NothingRuns
<1>5. CASE Recycle
  BY <1>1, <1>5 DEF Recycle, ExecutorStep, Exec!RecycleKills, Exec!RecycleRespawns, NothingRuns
<1>6. CASE Close
  BY <1>1, <1>6 DEF Close, ExecutorStep, Exec!CloseWaits, Exec!CloseRecycles, NothingRuns
<1>7. CASE ExecutorStep(Exec!WorkerReady \/ Exec!WorkerTakes \/ Exec!WorkerResumes \/ Exec!WorkerDies)
  BY <1>1, <1>7 DEF ExecutorStep, Exec!WorkerReady, Exec!WorkerTakes, Exec!WorkerResumes,
                    Exec!WorkerDies, NothingRuns, Exec!NoWorker
<1> QED BY <1>2, <1>3, <1>4, <1>5, <1>6, <1>7 DEF Inside

LEMMA StagesStep == ASSUME Base, Next PROVE StagesAgree'
<1> USE DEF Base, Exec!pipes
<1>a. request \in Admission \cup {None} /\ callback \in {"none", "recorded", "commit", "late", "settle"}
      /\ None \notin Admission
  BY NullIsApart DEF TypeOK
<1>1. CASE Inside
  BY <1>1, InsideMoves DEF StagesAgree, here
<1>2. CASE Boot
  <2>1. CASE \E o \in Owner : BootLedger(o)
    BY <2>1, NullIsApart DEF BootLedger, StagesAgree, NothingRuns, exec
  <2>2. CASE BootRows BY <2>2 DEF BootRows, StagesAgree, NothingRuns, exec
  <2>3. CASE BootExecutor BY <2>3 DEF BootExecutor, Exec!Start, StagesAgree, NothingRuns
  <2> QED BY <1>2, <2>1, <2>2, <2>3 DEF Boot
<1>3. CASE Crash \/ Exit BY <1>3 DEF Crash, Exit, Stop, StagesAgree, NothingRuns
<1>4. CASE Accept
  <2>1. ASSUME NEW k \in Key, NEW t \in Thread, NEW q \in Query, CheckRun(k, t, q)
        PROVE  StagesAgree'
    BY <2>1 DEF CheckRun, StagesAgree, NothingRuns, Serving, exec
  <2>2. CASE RefuseRun BY <2>2 DEF RefuseRun, StagesAgree, NothingRuns, exec
  <2>3. ASSUME NEW k \in Key, NEW t \in Thread, NEW q \in Query, ReplayRun(k, t, q)
        PROVE  StagesAgree'
    BY <2>3 DEF ReplayRun, StagesAgree, NothingRuns, exec, here
  <2> QED BY <1>4, <2>1, <2>2, <2>3 DEF Accept
<1>5. CASE Request
  <2>1. CASE AdmitRun
    <3>1. PICK r \in Run : request' = [request EXCEPT !.run = r, !.stage = "admitted"]
      BY <2>1 DEF AdmitRun
    <3>a. request \in Admission /\ r # None BY <2>1, <1>a, NullIsApart DEF AdmitRun
    <3>2. request' \in Admission /\ request'.run # None /\ request'.stage = "admitted"
      BY <3>a, <3>1 DEF Admission
    <3>3. UNCHANGED <<exec, owner, boot, callback, notice>> /\ request # None
      BY <2>1 DEF AdmitRun
    <3> QED BY <3>2, <3>3 DEF StagesAgree, NothingRuns, exec
  <2>2. CASE SubmitRun
    BY <2>2 DEF SubmitRun, Exec!Submit, StagesAgree, NothingRuns
  <2>3. CASE FailRequestFails \/ SettleRequest
    BY <2>3 DEF FailRequestFails, SettleRequest, StagesAgree, NothingRuns, exec
  <2>4. CASE SubmitFails \/ FailRequest
    <3>1. PICK stage \in {"failing", "settling"} : request' = [request EXCEPT !.stage = stage]
      BY <2>4 DEF SubmitFails, FailRequest
    <3>a. request \in Admission BY <2>4, <1>a DEF SubmitFails, FailRequest
    <3>2. request' \in Admission /\ request'.run = request.run /\ request'.stage = stage
      BY <3>a, <3>1 DEF Admission
    <3>3. UNCHANGED <<exec, owner, boot, callback, notice>> /\ request # None /\ request.stage # "checked"
      BY <2>4 DEF SubmitFails, FailRequest
    <3> QED BY <3>2, <3>3 DEF StagesAgree, NothingRuns, exec
  <2> QED BY <1>5, <2>1, <2>2, <2>3, <2>4 DEF Request
<1>6. CASE OnEvent
  <2>1. CASE RecordEvent
    <3>1. CASE monitor.note.type = "node"
      BY <2>1, <3>1 DEF RecordEvent, Handling, Exec!EventAccepted, Exec!MonitorMoves, StagesAgree,
                        NothingRuns
    <3>2. CASE monitor.note.type # "node"
      <4>1. monitor.note \in Note
        BY <2>1 DEF RecordEvent, Handling, P!ExecInv, P!Exec!TypeOK, P!Exec!Task, P!ThreadsAgree,
                    P!WorkerIsPlain
      <4>2. monitor.note.type \in {"before_llm", "after_llm"} BY <3>2, <4>1 DEF Note
      <4> QED BY <2>1, <3>2, <4>2 DEF RecordEvent, Handling, StagesAgree, NothingRuns, exec
    <3> QED BY <3>1, <3>2
  <2>2. CASE RejectEvent
    BY <2>2 DEF RejectEvent, Handling, Exec!EventRefused, Exec!MonitorMoves, StagesAgree,
                NothingRuns, here
  <2>3. CASE ReserveCall \/ CompleteCall
    BY <2>3 DEF ReserveCall, CompleteCall, Exec!EventAccepted, Exec!EventRefused, Exec!MonitorMoves,
                StagesAgree, NothingRuns
  <2> QED BY <1>6, <2>1, <2>2, <2>3 DEF OnEvent
<1>7. CASE OnResult
  <2>1. CASE BeginResult \/ EndResult \/ FailLate
    BY <2>1 DEF BeginResult, EndResult, FailLate, Handling, StagesAgree, NothingRuns, exec
  <2>2. CASE ResultFails \/ SettleResult
    BY <2>2 DEF ResultFails, SettleResult, Handling, Exec!ResultHandled, Exec!ResultRefused,
                Exec!MonitorMoves, StagesAgree, NothingRuns
  <2> QED BY <1>7, <2>1, <2>2 DEF OnResult
<1>8. CASE OnFailure
  <2>1. CASE NotifyFailure BY <2>1 DEF NotifyFailure, StagesAgree, NothingRuns, exec
  <2>2. CASE SettleFailure \/ NotifyFails
    BY <2>2 DEF SettleFailure, NotifyFails, Exec!RecycleNotifies, StagesAgree, NothingRuns, here
  <2> QED BY <1>8, <2>1, <2>2 DEF OnFailure
<1>9. CASE CloseBegins
  BY <1>9 DEF CloseBegins, Exec!CloseBegins, Serving, StagesAgree, NothingRuns
<1>10. CASE WorkerEmits \/ WorkerProceeds \/ WorkerReports
  <2>1. UNCHANGED <<owner, boot, request, callback, notice, life, monitor, rec>>
    BY <1>10 DEF WorkerEmits, WorkerProceeds, WorkerReports, Exec!WorkerEmits, Exec!WorkerProceeds,
                 Exec!WorkerReports, here
  <2>2. worker.st # "dead"
    BY <1>10 DEF WorkerEmits, WorkerProceeds, WorkerReports, Exec!WorkerEmits, Exec!WorkerProceeds,
                 Exec!WorkerReports
  <2>3. boot \in {"up", "closing"} BY <2>2 DEF StagesAgree, NothingRuns, Exec!NoWorker
  <2> QED BY <2>1, <2>3 DEF StagesAgree
<1>11. CASE LeftTransaction \/ OrphanProceeds
  BY <1>11 DEF LeftTransaction, OrphanProceeds, StagesAgree, NothingRuns, exec, here
<1>12. CASE \E r \in Run : RowDeadlinePasses(r) \/ JobDeadlinePasses(r)
  BY <1>12, NullIsApart DEF RowDeadlinePasses, JobDeadlinePasses, Exec!DeadlinePasses, StagesAgree,
                            NothingRuns, exec, here
<1> QED
  BY <1>1, <1>2, <1>3, <1>4, <1>5, <1>6, <1>7, <1>8, <1>9, <1>10, <1>11, <1>12
  DEF Next, Inside, Worker

LEMMA BaseStep == ASSUME Base, [Next]_vars PROVE Base'
<1>1. P!ExecInv' BY ExecutorStays
<1>2. CASE Next BY <1>1, <1>2, TypeStep, StagesStep DEF Base
<1>3. CASE UNCHANGED vars BY <1>1, <1>3 DEF vars, here, exec, Base, TypeOK, StagesAgree, NothingRuns
<1> QED BY <1>2, <1>3

LEMMA BaseInit == Init => Base
<1>1. Init => P!Exec!Init
  BY DEF Init, Exec!Init, P!Exec!Init, Exec!NoWorker, P!Exec!NoWorker
<1> QED BY <1>1, P!ExecInvInit, ExecApart, TypeInit DEF Base

\* What the threads of the process hold agrees with what they are doing.
THEOREM ProcessAgrees == Spec => []Base
BY BaseInit, BaseStep, PTL DEF Spec

-----------------------------------------------------------------------------
(* The service implements the repository: every step is one transaction, or *)
(* none.                                                                    *)

LEMMA RepoSteps ==
  /\ \A k \in Key, t \in Thread, q \in Query : Repo!LookupRun(k, t, q) => P!LookupRun(k, t, q)
  /\ \A o \in Owner, k \in Key, t \in Thread, q \in Query : Repo!AdmitRun(o, k, t, q) => P!AdmitRun(o, k, t, q)
  /\ \A o \in Owner, r \in Run, kind \in P!Progress : Repo!RecordEvent(o, r, kind) => P!RecordEvent(o, r, kind)
  /\ \A o \in Owner, r \in Run : Repo!BeginResult(o, r) => P!BeginResult(o, r)
  /\ \A o \in Owner, r \in Run : Repo!FinishError(o, r) => P!FinishError(o, r)
  /\ Repo!CommitResult => P!CommitResult
  /\ Repo!RollBack => P!RollBack
  /\ \A o \in Owner : Repo!Recover(o) => P!Recover(o)
  /\ \A r \in Run : Repo!DeadlinePasses(r) => P!DeadlinePasses(r)
<1>1. ASSUME NEW k \in Key, NEW t \in Thread, NEW q \in Query
      PROVE  Repo!LookupRun(k, t, q) => P!LookupRun(k, t, q)
  BY DEF Repo!LookupRun, P!LookupRun, Repo!Replay, P!Replay, Repo!Replays, P!Replays,
         Repo!Fingerprint, P!Fingerprint, Repo!LegacyReplay, P!LegacyReplay, Repo!Unbound, P!Unbound
<1>2. ASSUME NEW o \in Owner, NEW k \in Key, NEW t \in Thread, NEW q \in Query
      PROVE  Repo!AdmitRun(o, k, t, q) => P!AdmitRun(o, k, t, q)
  BY DEF Repo!AdmitRun, P!AdmitRun, Repo!LockFree, P!LockFree, Repo!Unbound, P!Unbound,
         Repo!SlotFree, P!SlotFree, Repo!Chargeable, P!Chargeable, Repo!Present, P!Present,
         Repo!Extend, P!Extend, Repo!File, P!File, Repo!Fingerprint, P!Fingerprint, Repo!IsLive,
         P!IsLive, Repo!Live, P!Live
<1>3. ASSUME NEW o \in Owner, NEW r \in Run, NEW kind \in P!Progress
      PROVE  Repo!RecordEvent(o, r, kind) => P!RecordEvent(o, r, kind)
  BY DEF Repo!RecordEvent, P!RecordEvent, Repo!LockFree, P!LockFree, Repo!Owned, P!Owned,
         Repo!OwnedBy, P!OwnedBy, Repo!IsLive, P!IsLive, Repo!Live, P!Live, Repo!ProgressIn,
         P!ProgressIn,
         Repo!Progress, P!Progress, Repo!Extend, P!Extend, Repo!Cardinality, P!Cardinality
<1>4. ASSUME NEW o \in Owner, NEW r \in Run
      PROVE  /\ Repo!BeginResult(o, r) => P!BeginResult(o, r)
             /\ Repo!FinishError(o, r) => P!FinishError(o, r)
  BY DEF Repo!BeginResult, P!BeginResult, Repo!FinishError, P!FinishError, Repo!LockFree,
         P!LockFree, Repo!Owned, P!Owned, Repo!OwnedBy, P!OwnedBy, Repo!IsLive, P!IsLive, Repo!Live,
         P!Live, Repo!Extend, P!Extend, Repo!FailureEvents, P!FailureEvents
<1>5. /\ Repo!CommitResult => P!CommitResult
      /\ Repo!RollBack => P!RollBack
  BY DEF Repo!CommitResult, P!CommitResult, Repo!RollBack, P!RollBack, Repo!Extend, P!Extend,
         Repo!ResultEvents, P!ResultEvents
<1>6. ASSUME NEW o \in Owner PROVE Repo!Recover(o) => P!Recover(o)
  BY DEF Repo!Recover, P!Recover, Repo!LockFree, P!LockFree, Repo!Interrupted, P!Interrupted,
         Repo!IsLive, P!IsLive, Repo!Live, P!Live, Repo!Extend, P!Extend, Repo!FailureEvents,
         P!FailureEvents
<1>7. ASSUME NEW r \in Run PROVE Repo!DeadlinePasses(r) => P!DeadlinePasses(r)
  BY DEF Repo!DeadlinePasses, P!DeadlinePasses, Repo!IsLive, P!IsLive, Repo!Live, P!Live
<1> QED BY <1>1, <1>2, <1>3, <1>4, <1>5, <1>6, <1>7

\* Whoever works, works for a process.
LEMMA OwnerServes ==
  ASSUME Base, request # None \/ monitor # None \/ rec # None \/ boot \in {"ledger", "rows", "up"}
  PROVE  owner \in Owner
BY DEF Base, TypeOK, StagesAgree, NothingRuns

LEMMA FailIsRepo ==
  ASSUME Base, NEW r \in Run, NEW code, owner \in Owner, Fail(r, code)
  PROVE  P!Next \/ UNCHANGED repo
<1>1. CASE Repo!FinishError(owner, r)
  <2>1. P!FinishError(owner, r) BY <1>1, RepoSteps
  <2> QED BY <2>1 DEF P!Next
<1>2. CASE UNCHANGED repo BY <1>2
<1> QED BY <1>1, <1>2 DEF Fail

LEMMA RepositoryStep == ASSUME Base, [Next]_vars PROVE P!Next \/ UNCHANGED repo
<1> USE DEF Base
<1>1. CASE Boot
  <2>1. CASE BootRows
    <3>1. owner \in Owner BY <2>1, OwnerServes DEF BootRows
    <3> QED BY <2>1, <3>1, RepoSteps DEF BootRows, P!Next
  <2>2. CASE BootExecutor \/ \E o \in Owner : BootLedger(o) BY <2>2 DEF BootExecutor, BootLedger
  <2> QED BY <1>1, <2>1, <2>2 DEF Boot
<1>2. CASE LeftTransaction BY <1>2, RepoSteps DEF LeftTransaction, P!Next
<1>3. CASE Accept
  <2>1. ASSUME NEW k \in Key, NEW t \in Thread, NEW q \in Query, ReplayRun(k, t, q)
        PROVE  P!Next
    BY <2>1, RepoSteps DEF ReplayRun, P!Next
  <2>2. (\E k \in Key, t \in Thread, q \in Query : CheckRun(k, t, q)) \/ RefuseRun => UNCHANGED repo
    BY DEF CheckRun, RefuseRun
  <2> QED BY <1>3, <2>1, <2>2 DEF Accept
<1>4. CASE Request
  <2>1. request # None
    BY <1>4 DEF Request, AdmitRun, SubmitRun, SubmitFails, FailRequest, FailRequestFails,
                SettleRequest
  <2>2. owner \in Owner /\ request \in Admission BY <2>1, OwnerServes DEF TypeOK
  <2>3. CASE AdmitRun
    <3>1. Repo!AdmitRun(owner, request.key, request.thread, request.query) BY <2>3 DEF AdmitRun
    <3>2. request.key \in Key /\ request.thread \in Thread /\ request.query \in Query
      BY <2>2 DEF Admission
    <3> QED BY <2>2, <3>1, <3>2, RepoSteps DEF P!Next
  <2>4. CASE FailRequest
    <3>1. request.run \in Run BY <2>2, <2>4 DEF FailRequest, StagesAgree, Admission
    <3> QED BY <2>2, <2>4, <3>1, FailIsRepo DEF FailRequest
  <2>5. SubmitRun \/ SubmitFails \/ FailRequestFails \/ SettleRequest => UNCHANGED repo
    BY DEF SubmitRun, SubmitFails, FailRequestFails, SettleRequest
  <2> QED BY <1>4, <2>3, <2>4, <2>5 DEF Request
<1>5. ASSUME monitor # None PROVE owner \in Owner /\ monitor.job \in Run
  BY <1>5, OwnerServes, ExecTypes DEF Exec!Task
<1>6. CASE OnEvent
  <2>1. CASE RecordEvent
    <3>1. owner \in Owner /\ monitor.job \in Run BY <2>1, <1>5 DEF RecordEvent, Handling
    <3>2. \E kind \in P!Progress : Repo!RecordEvent(owner, monitor.job, kind)
      BY <2>1 DEF RecordEvent, P!Progress
    <3> QED BY <3>1, <3>2, RepoSteps DEF P!Next
  <2>2. RejectEvent \/ ReserveCall \/ CompleteCall => UNCHANGED repo
    BY DEF RejectEvent, ReserveCall, CompleteCall
  <2> QED BY <1>6, <2>1, <2>2 DEF OnEvent
<1>7. CASE OnResult
  <2>1. owner \in Owner /\ monitor.job \in Run
    BY <1>5, <1>7 DEF OnResult, BeginResult, EndResult, FailLate, ResultFails, SettleResult,
                      Handling, StagesAgree
  <2>2. CASE BeginResult
    <3>1. CASE Repo!BeginResult(owner, monitor.job)
      <4>1. P!BeginResult(owner, monitor.job) BY <2>1, <3>1, RepoSteps
      <4> QED BY <2>1, <4>1 DEF P!Next
    <3>2. CASE ~ Repo!BeginResult(owner, monitor.job) BY <2>2, <3>2 DEF BeginResult
    <3> QED BY <3>1, <3>2
  <2>3. CASE EndResult \/ ResultFails
    <3>1. Repo!CommitResult \/ Repo!RollBack \/ UNCHANGED repo BY <2>3 DEF EndResult, ResultFails
    <3> QED BY <3>1, RepoSteps DEF P!Next
  <2>4. CASE FailLate BY <2>1, <2>4, FailIsRepo DEF FailLate
  <2>5. CASE SettleResult BY <2>5 DEF SettleResult
  <2> QED BY <1>7, <2>2, <2>3, <2>4, <2>5 DEF OnResult
<1>8. CASE OnFailure
  <2>1. CASE NotifyFailure
    <3>1. owner \in Owner /\ rec.job \in Run BY <2>1, OwnerServes, ExecTypes DEF NotifyFailure
    <3> QED BY <2>1, <3>1, FailIsRepo DEF NotifyFailure
  <2>2. SettleFailure \/ NotifyFails => UNCHANGED repo BY DEF SettleFailure, NotifyFails
  <2> QED BY <1>8, <2>1, <2>2 DEF OnFailure
<1>9. ASSUME NEW r \in Run, RowDeadlinePasses(r) PROVE P!Next
  BY <1>9, RepoSteps DEF RowDeadlinePasses, P!Next
<1>10. CASE UNCHANGED repo BY <1>10
<1>11. CASE Crash \/ Exit \/ CloseBegins \/ OrphanProceeds \/ Worker \/ Inside
            \/ \E r \in Run : JobDeadlinePasses(r)
  BY <1>11, InsideMoves DEF Crash, Exit, Stop, CloseBegins, OrphanProceeds, Worker, WorkerEmits,
     WorkerProceeds, WorkerReports, ExecutorStep, JobDeadlinePasses
<1>12. UNCHANGED vars => UNCHANGED repo BY DEF vars, repo
<1> QED
  BY <1>1, <1>2, <1>3, <1>4, <1>6, <1>7, <1>8, <1>9, <1>10, <1>11, <1>12
  DEF Next, Inside

LEMMA RepositoryInit == Init => P!Init
BY DEF Init, Repo!Init, P!Init, Repo!NoRow, P!NoRow, Repo!LegacyRow, P!LegacyRow, Repo!Row, P!Row,
       Repo!Live, P!Live, Repo!Terminal, P!Terminal

\* The service implements the repository: whatever its threads, its crashes and its
\* restarts do, the tables only change by the transactions of the repository.
THEOREM ImplementsRepository == Spec => P!Spec
<1>1. Base /\ [Next]_vars => [P!Next]_(P!vars) BY RepositoryStep DEF P!vars, repo
<1> QED BY <1>1, RepositoryInit, ProcessAgrees, PTL DEF Spec, P!Spec

\* The tables of a service keep every invariant that is proved of the repository.
THEOREM TablesAgree == Spec => []P!IInv
<1>1. P!Spec => []P!IInv BY P!Invariant, RepoAssumed
<1> QED BY <1>1, ImplementsRepository

-----------------------------------------------------------------------------
(* Charge: who is in charge of a run *)

\* The executor has something to do for a run.
Doing(r) == job = r \/ (rec # None /\ rec.job = r) \/ (monitor # None /\ monitor.job = r)

\* A process works under a name that no row has from before.
IncarnationsAreFresh ==
  /\ boot \in {"rows", "up", "closing"} => owner \in started
  /\ boot = "ledger" => owner \notin started
  /\ \A r \in Run : runs[r].owner \in started \cup {None}

\* A process works for runs of its own.
HeldRunsAreOwn ==
  /\ \A r \in Run : Doing(r) => runs[r].owner = owner
  /\ request # None /\ request.run # None => runs[request.run].owner = owner

\* The run of a request is not the executor's yet; it has ended when its cost is settled.
RequestIsNew ==
  request # None /\ request.run # None =>
    /\ ~ Doing(request.run)
    /\ request.stage = "admitted" => Repo!IsLive(request.run)
    /\ request.stage = "settling" => ~ Repo!IsLive(request.run)

\* A result is committed for the run the monitor is busy with, and it has ended afterwards.
CallbackAgrees ==
  /\ callback = "commit" => txn # None /\ txn.run = monitor.job /\ txn.owner = owner
  /\ txn # None /\ txn.owner = owner => callback = "commit"
  /\ callback = "late" => lapsed[monitor.job] # 0 \/ ~ Repo!IsLive(monitor.job)
  /\ callback = "settle" => ~ Repo!IsLive(monitor.job)
  /\ monitor # None /\ monitor.stage = "clear" => ~ Repo!IsLive(monitor.job)

\* The job of a recycling has ended when its cost is settled, and when the next worker is
\* spawned unless a transaction may fail.
NoticeAgrees ==
  /\ notice = "settle" => ~ Repo!IsLive(rec.job)
  /\ "database" \notin Fault /\ rec # None /\ rec.job # None /\ rec.stage \in {"respawn", "stuck"} =>
       ~ Repo!IsLive(rec.job)

\* Whatever is on its way to the worker, or with it, is for a run that has not ended.
Working(r) ==
  \/ worker.job = r \/ cmd = r
  \/ P!NotKilled /\ \E s \in senders : s.conn = conn /\ s.job = r

WorkIsLive == \A r \in Run : Working(r) => Repo!IsLive(r)

Hands ==
  /\ IncarnationsAreFresh /\ HeldRunsAreOwn /\ RequestIsNew /\ CallbackAgrees /\ NoticeAgrees
  /\ WorkIsLive /\ TimeoutsAreReal

\* Without database failures an accepted run is always in someone's hands.
Charge == Hands /\ ("database" \notin Fault => LiveRunIsHandled)

-----------------------------------------------------------------------------
(* What the steps do to the rows and to what is in hand *)

\* NULL is in no state, and a row without an owner is not the process's.
LEMMA RowFacts ==
  ASSUME P!IInv
  PROVE  /\ runs \in [Run -> P!Row] /\ lapsed \in [Run -> Nat]
         /\ \A r \in Run : runs[r].status = "absent" => runs[r].owner = None
         /\ txn # None => /\ txn.run \in Run /\ txn.owner \in Owner
                          /\ runs[txn.run].owner = txn.owner /\ Repo!IsLive(txn.run)
BY DEF P!IInv, P!TypeOK, P!RowsAreWhole, P!Present, P!NoRow, P!ResultIsOwned, P!OwnedBy, P!IsLive,
       P!Live, Repo!IsLive, Repo!Live, P!Result

\* A row keeps its owner, its ending and its expiry.
LEMMA RowsStay ==
  ASSUME Base, P!IInv, [Next]_vars
  PROVE  /\ \A r \in Run : runs[r].owner # None => runs'[r].owner = runs[r].owner
         /\ \A r \in Run : runs[r].owner # None /\ ~ Repo!IsLive(r) => ~ Repo!IsLive(r)'
         /\ \A r \in Run : lapsed[r] # 0 => lapsed'[r] = lapsed[r]
<1> USE RowFacts DEF P!Row, Repo!IsLive, Repo!Live
<1>1. CASE UNCHANGED repo BY <1>1 DEF repo
<1>2. CASE \E k \in Key : P!CreateThread(k)
  BY <1>2 DEF P!CreateThread, P!Replay
<1>3. CASE \E k \in Key, t \in Thread, q \in Query : P!LookupRun(k, t, q)
  BY <1>3 DEF P!LookupRun, P!Replay, P!LegacyReplay
<1>4. CASE \E o \in Owner, k \in Key, t \in Thread, q \in Query : P!AdmitRun(o, k, t, q)
  BY <1>4 DEF P!AdmitRun, P!Present
<1>5. CASE \/ \E o \in Owner, r \in Run, kind \in P!Progress : P!RecordEvent(o, r, kind)
           \/ \E o \in Owner, r \in Run : P!BeginResult(o, r)
           \/ P!RollBack \/ P!MonthTurns
  BY <1>5 DEF P!RecordEvent, P!BeginResult, P!RollBack, P!MonthTurns
<1>6. CASE P!CommitResult BY <1>6 DEF P!CommitResult
<1>7. CASE \E o \in Owner, r \in Run : P!FinishError(o, r)
  BY <1>7 DEF P!FinishError
<1>8. CASE \E o \in Owner : P!Recover(o)
  BY <1>8 DEF P!Recover
<1>9. CASE \E k \in Key, r \in Run, s \in {} : P!Feedback(k, r, s)
  BY <1>9
<1>10. CASE \E r \in Run : P!DeadlinePasses(r)
  BY <1>10 DEF P!DeadlinePasses
<1> HIDE DEF P!Row, Repo!IsLive, Repo!Live
<1> QED
  BY <1>1, <1>2, <1>3, <1>4, <1>5, <1>6, <1>7, <1>8, <1>9, <1>10, RepositoryStep DEF P!Next

\* A callback that fails a run ends it, if it is the caller's.
LEMMA FailEnds ==
  ASSUME P!IInv, NEW r \in Run, NEW code, Fail(r, code)
  PROVE  /\ txn = None /\ UNCHANGED <<lapsed, started, txn>>
         /\ \A s \in Run \ {r} : runs'[s] = runs[s]
         /\ \A s \in Run : runs'[s].owner = runs[s].owner
         /\ runs[r].owner = owner => ~ Repo!IsLive(r)'
         /\ error' = error \/ (Repo!IsLive(r) /\ runs[r].owner = owner /\ error' = [error EXCEPT ![r] = code])
BY RowFacts DEF Fail, Repo!FinishError, Repo!OwnedBy, Repo!LockFree, Repo!IsLive, Repo!Live, P!Row,
                repo

\* A recycling begins with the job of the slot.
LEMMA RecyclesHands ==
  ASSUME Base, NEW c, NEW j, NEW code \in Exec!Code, Exec!Recycles(c, j, code)
  PROVE  \/ UNCHANGED <<rec, job>>
         \/ rec = None /\ rec' # None /\ rec'.job = job /\ rec'.stage = "kill" /\ job' = None
<1>1. CASE UNCHANGED <<rec, job>> BY <1>1
<1>2. CASE ~ UNCHANGED <<rec, job>>
  <2>1. /\ rec' = [conn |-> conn, job |-> job, code |-> code, restart |-> TRUE, stage |-> "kill"]
        /\ rec = None /\ job' = None
    BY <1>2 DEF Exec!Recycles
  <2>2. rec' \in Exec!Recycling BY <2>1, ExecTypes DEF Base, P!ExecInv, P!Exec!TypeOK,
                                                       Exec!Recycling
  <2> QED BY <2>1, <2>2, NullIsApart
<1> QED BY <1>1, <1>2

\* The executor's own threads take no run up, and let go of one only when its result was
\* stored or its failure told.
LEMMA InsideHands ==
  ASSUME Base, Inside, NEW r \in Run
  PROVE  /\ Doing(r)' => Doing(r)
         /\ monitor' # None /\ monitor'.stage = "clear" => monitor' = monitor
         /\ rec' # None /\ rec'.job # None /\ rec'.stage \in {"respawn", "stuck"} => rec' = rec
         /\ job = r \/ (rec # None /\ rec.job = r) =>
              \/ job' = r \/ (rec' # None /\ rec'.job = r)
              \/ monitor # None /\ monitor.stage = "clear" /\ monitor.job = r
              \/ rec # None /\ rec.stage = "respawn" /\ rec.job = r
<1> USE DEF Exec!pipes, Doing
<1>0. r # None BY NullIsApart
<1>1. /\ rec # None => rec \in Exec!Recycling
      /\ monitor # None => monitor \in Exec!Task
      /\ job # None => rec = None
  BY ExecTypes, P!ExecWatches, ExecApart DEF Base, P!Exec!SlotIsWatched
<1>2. CASE Sender
  <2>1. PICK s \in senders : Exec!SenderStarts(s) \/ Exec!SenderSends(s)
    BY <1>2 DEF Sender, ExecutorStep
  <2>2. "dispatch_failed" \in Exec!Code BY DEF Exec!Code
  <2>3. \/ UNCHANGED <<rec, job>>
        \/ rec = None /\ rec' # None /\ rec'.job = job /\ rec'.stage = "kill" /\ job' = None
    BY <2>1, <2>2, RecyclesHands DEF Exec!SenderStarts, Exec!SenderSends
  <2>4. UNCHANGED monitor BY <2>1 DEF Exec!SenderStarts, Exec!SenderSends
  <2> QED BY <1>0, <2>3, <2>4
<1>3. CASE Monitor
  <2>1. CASE Exec!MonitorTakes
    <3>1. UNCHANGED <<rec, job>> /\ monitor = None BY <2>1 DEF Exec!MonitorTakes
    <3>2. monitor' # None => monitor'.job = job /\ monitor'.stage # "clear" /\ job # None
      BY <2>1, ExecTypes DEF Exec!MonitorTakes, Exec!Busy, Exec!Reply, Base
    <3> QED BY <1>0, <3>1, <3>2
  <2>2. CASE Exec!MonitorAcks
    <3>1. monitor' # None => monitor'.stage = "recycle" /\ monitor'.job = monitor.job /\ monitor # None
      BY <1>1, <2>2 DEF Exec!MonitorAcks, Exec!Task
    <3>2. UNCHANGED <<rec, job>> BY <2>2 DEF Exec!MonitorAcks
    <3> QED BY <3>1, <3>2
  <2>3. CASE Exec!MonitorClears BY <1>0, <1>1, <2>3 DEF Exec!MonitorClears
  <2>4. CASE Exec!MonitorRecycles
    <3>1. monitor.code \in Exec!Code
      BY <2>4 DEF Exec!MonitorRecycles, Base, P!ExecInv, P!ThreadsAgree, P!CausesAreKept,
                  P!Exec!Code, Exec!Code
    <3>2. \/ UNCHANGED <<rec, job>>
          \/ rec = None /\ rec' # None /\ rec'.job = job /\ rec'.stage = "kill" /\ job' = None
      BY <2>4, <3>1, RecyclesHands DEF Exec!MonitorRecycles
    <3>3. monitor' = None BY <2>4 DEF Exec!MonitorRecycles
    <3> QED BY <1>0, <3>2, <3>3
  <2> QED BY <1>3, <2>1, <2>2, <2>3, <2>4 DEF Monitor, ExecutorStep, Exec!Monitor
<1>4. CASE Watchdog
  <2>1. watch # None => watch.code \in Exec!Code
    BY DEF Base, P!ExecInv, P!Exec!TypeOK, P!Exec!Sighting, Exec!Code
  <2>2. \/ UNCHANGED <<rec, job>>
        \/ rec = None /\ rec' # None /\ rec'.job = job /\ rec'.stage = "kill" /\ job' = None
    BY <1>4, <2>1, RecyclesHands DEF Watchdog, ExecutorStep, Exec!WatchSees, Exec!WatchRecycles
  <2>3. UNCHANGED monitor BY <1>4 DEF Watchdog, ExecutorStep, Exec!WatchSees, Exec!WatchRecycles
  <2> QED BY <1>0, <2>2, <2>3
<1>5. CASE Recycle
  <2>1. CASE Exec!RecycleKills
    <3>1. PICK stage \in {"respawn", "notify"} :
            /\ rec' = [rec EXCEPT !.stage = stage]
            /\ rec.job # None => stage = "notify"
      BY <2>1 DEF Exec!RecycleKills
    <3>2. rec \in Exec!Recycling BY <1>1, <2>1 DEF Exec!RecycleKills
    <3>3. rec'.job = rec.job /\ rec'.stage = stage /\ rec' # None
      BY <3>1, <3>2, NullIsApart DEF Exec!Recycling
    <3> QED BY <2>1, <3>1, <3>3 DEF Exec!RecycleKills
  <2>2. CASE Exec!RecycleRespawns BY <1>1, <2>2 DEF Exec!RecycleRespawns, Exec!Spawn
  <2> QED BY <1>5, <2>1, <2>2 DEF Recycle, ExecutorStep
<1>6. CASE Close
  <2>1. CASE rec = None /\ Exec!CloseRecycles
    <3>1. rec' = [conn |-> conn, job |-> job, code |-> "server_restarted", restart |-> FALSE,
                  stage |-> "kill"] /\ job' = None /\ UNCHANGED monitor
      BY <2>1 DEF Exec!CloseRecycles
    <3>2. rec' \in Exec!Recycling
      BY <3>1, ExecTypes DEF Base, P!ExecInv, P!Exec!TypeOK, Exec!Recycling, Exec!Code
    <3> QED BY <1>0, <2>1, <3>1, <3>2, NullIsApart
  <2>2. CASE rec # None \/ Exec!CloseWaits
    BY <1>6, <2>2 DEF Close, ExecutorStep, Exec!CloseWaits, Exec!CloseRecycles
  <2> QED BY <1>6, <2>1, <2>2 DEF Close, ExecutorStep
<1>7. CASE ExecutorStep(Exec!WorkerReady \/ Exec!WorkerTakes \/ Exec!WorkerResumes \/ Exec!WorkerDies)
  BY <1>7 DEF ExecutorStep, Exec!WorkerReady, Exec!WorkerTakes, Exec!WorkerResumes, Exec!WorkerDies
<1> QED BY <1>2, <1>3, <1>4, <1>5, <1>6, <1>7 DEF Inside

LEMMA MonitorHands ==
  ASSUME Base, monitor # None, NEW stage \in {"ack", "recycle", "clear"},
         NEW code \in Exec!Code \cup {None},
         Exec!MonitorMoves(stage, code)
  PROVE  /\ monitor \in Exec!Task /\ monitor' \in Exec!Task
         /\ monitor' # None /\ monitor'.job = monitor.job /\ monitor'.stage = stage
         /\ monitor'.conn = monitor.conn /\ monitor'.note = monitor.note
         /\ UNCHANGED <<life, conn, ready, job, due, worker, wire, cmd, senders, rec>>
<1>1. monitor \in Exec!Task BY ExecTypes DEF Base
<1>2. monitor' = [monitor EXCEPT !.stage = stage, !.code = code] BY DEF Exec!MonitorMoves
<1>3. monitor' \in Exec!Task BY <1>1, <1>2 DEF Exec!Task
<1>4. /\ monitor'.job = monitor.job /\ monitor'.stage = stage
      /\ monitor'.conn = monitor.conn /\ monitor'.note = monitor.note
  BY <1>1, <1>2 DEF Exec!Task
<1>5. UNCHANGED <<life, conn, ready, job, due, worker, wire, cmd, senders, rec>>
  BY DEF Exec!MonitorMoves, Exec!pipes
<1> QED BY <1>1, <1>3, <1>4, <1>5, NullIsApart

\* A callback that returns moves the monitor, or the recycling, on and nothing else.
LEMMA CallbackHands ==
  ASSUME Base, NEW code \in {"agent_failure", "budget_exceeded"},
         Exec!EventAccepted \/ Exec!EventRefused(code) \/ Exec!ResultHandled \/ Exec!ResultRefused
  PROVE  /\ monitor \in Exec!Task /\ monitor' \in Exec!Task
         /\ monitor # None /\ monitor' # None /\ monitor'.job = monitor.job
         /\ monitor'.conn = monitor.conn /\ monitor'.note = monitor.note
         /\ monitor'.stage = "clear" => Exec!ResultHandled
         /\ monitor'.stage = "ack" => Exec!EventAccepted
         /\ monitor'.stage \notin {"event", "result"}
         /\ UNCHANGED <<life, conn, ready, job, due, worker, wire, cmd, senders, rec>>
<1>1. {"agent_failure", "budget_exceeded"} \subseteq Exec!Code BY DEF Exec!Code
<1>2. CASE Exec!EventAccepted
  <2>1. monitor # None /\ Exec!MonitorMoves("ack", None) BY <1>2 DEF Exec!EventAccepted
  <2> QED BY <1>2, <2>1, MonitorHands
<1>3. CASE Exec!EventRefused(code)
  <2>1. monitor # None /\ Exec!MonitorMoves("recycle", code) BY <1>3 DEF Exec!EventRefused
  <2> QED BY <1>1, <2>1, MonitorHands
<1>4. CASE Exec!ResultHandled
  <2>1. monitor # None /\ Exec!MonitorMoves("clear", None) BY <1>4 DEF Exec!ResultHandled
  <2> QED BY <1>4, <2>1, MonitorHands
<1>5. CASE Exec!ResultRefused
  <2>1. monitor # None /\ Exec!MonitorMoves("recycle", "agent_failure") BY <1>5
    DEF Exec!ResultRefused
  <2> QED BY <1>1, <2>1, MonitorHands
<1> QED BY <1>2, <1>3, <1>4, <1>5

LEMMA NoticeHands ==
  ASSUME Base, Exec!RecycleNotifies
  PROVE  /\ rec # None /\ rec.stage = "notify" /\ rec' # None /\ rec'.job = rec.job
         /\ rec'.stage = "respawn" /\ rec.job \in Run
         /\ UNCHANGED <<life, conn, ready, job, due, worker, wire, cmd, senders, monitor>>
<1>1. rec \in Exec!Recycling /\ rec.job \in Run BY ExecTypes DEF Base, Exec!RecycleNotifies
<1>2. rec' \in Exec!Recycling /\ rec'.job = rec.job /\ rec'.stage = "respawn"
  BY <1>1 DEF Exec!RecycleNotifies, Exec!Recycling
<1> QED BY <1>1, <1>2, NullIsApart DEF Exec!RecycleNotifies, Exec!pipes

\* Only these steps change a row.
LEMMA RunsMove ==
  ASSUME Base, [Next]_vars
  PROVE  \/ UNCHANGED <<runs, started>>
         \/ BootRows \/ LeftTransaction \/ AdmitRun
         \/ FailRequest \/ EndResult \/ FailLate \/ NotifyFailure
<1> USE DEF repo
<1>1. CASE Boot BY <1>1 DEF Boot, BootLedger, BootExecutor
<1>2. CASE Accept
  BY <1>2 DEF Accept, ReplayRun, CheckRun, RefuseRun, Repo!LookupRun, Repo!Replay, Repo!LegacyReplay
<1>3. CASE Request
  BY <1>3 DEF Request, SubmitRun, SubmitFails, FailRequestFails, SettleRequest
<1>4. CASE OnEvent
  BY <1>4 DEF OnEvent, RecordEvent, RejectEvent, ReserveCall, CompleteCall, Repo!RecordEvent
<1>5. CASE OnResult
  BY <1>5 DEF OnResult, BeginResult, ResultFails, SettleResult, Repo!BeginResult, Repo!RollBack
<1>6. CASE OnFailure BY <1>6 DEF OnFailure, SettleFailure, NotifyFails
<1>7. CASE \E r \in Run : RowDeadlinePasses(r) \/ JobDeadlinePasses(r)
  BY <1>7 DEF RowDeadlinePasses, JobDeadlinePasses, Repo!DeadlinePasses
<1>8. CASE Crash \/ Exit \/ CloseBegins \/ OrphanProceeds \/ Worker \/ Inside
  BY <1>8, InsideMoves DEF Crash, Exit, Stop, CloseBegins, OrphanProceeds, Worker, WorkerEmits,
     WorkerProceeds, WorkerReports, ExecutorStep
<1>9. CASE UNCHANGED vars BY <1>9 DEF vars
<1> QED BY <1>1, <1>2, <1>3, <1>4, <1>5, <1>6, <1>7, <1>8, <1>9 DEF Next, Inside

\* The run of a request that was checked.
LEMMA RequestFacts ==
  ASSUME Base, request # None
  PROVE  /\ request \in Admission /\ boot = "up" /\ owner \in Owner
         /\ request.stage # "checked" => request.run \in Run
         /\ request.stage = "checked" => request.run = None
BY OwnerServes DEF Base, TypeOK, StagesAgree, Admission

\* A row becomes the process's when it admits a run, and that run is its request's.
LEMMA NewRows ==
  ASSUME Base, P!IInv, [Next]_vars, NEW r \in Run, runs'[r].owner # runs[r].owner
  PROVE  /\ AdmitRun /\ runs[r].owner = None /\ runs'[r].owner = owner /\ Repo!IsLive(r)'
         /\ request' # None /\ request'.run = r /\ request'.stage = "admitted"
<1> USE RowFacts DEF P!Row
<1>1. CASE BootRows BY <1>1 DEF BootRows, Repo!Recover
<1>2. CASE LeftTransaction \/ EndResult
  BY <1>2 DEF LeftTransaction, EndResult, Repo!CommitResult, Repo!RollBack
<1>3. CASE AdmitRun
  <2>1. request \in Admission /\ owner \in Owner BY <1>3, RequestFacts DEF AdmitRun
  <2>2. PICK s \in Run :
          /\ ~ Repo!Present(s)
          /\ runs' = [runs EXCEPT ![s] =
               [status |-> "running", owner |-> owner, key |-> request.key, thread |-> request.thread,
                query |-> request.query, month |-> month, feedback |-> None]]
    BY <1>3 DEF AdmitRun, Repo!AdmitRun
  <2>3. r = s BY <2>2
  <2>4. PICK u \in Run : runs'[u] # runs[u] /\ request' = [request EXCEPT !.run = u, !.stage = "admitted"]
    BY <1>3, Zenon DEF AdmitRun
  <2>5. u = s BY <2>2, <2>4
  <2>6. request' # None /\ request'.run = r /\ request'.stage = "admitted"
    <3>1. request' = [request EXCEPT !.run = r, !.stage = "admitted"] BY <2>3, <2>4, <2>5
    <3>2. request' \in Admission /\ request'.run = r /\ request'.stage = "admitted"
      BY <2>1, <3>1 DEF Admission
    <3> QED BY <3>2, NullIsApart
  <2>7. runs[r].owner = None BY <2>2, <2>3 DEF Repo!Present
  <2>8. runs'[r].owner = owner /\ runs'[r].status = "running" BY <2>2, <2>3
  <2> QED BY <1>3, <2>6, <2>7, <2>8 DEF Repo!IsLive, Repo!Live
<1>4. CASE FailRequest
  <2>1. request.run \in Run BY <1>4, RequestFacts DEF FailRequest
  <2> QED BY <1>4, <2>1, FailEnds DEF FailRequest
<1>5. CASE FailLate
  <2>1. monitor.job \in Run BY <1>5, ExecTypes DEF FailLate, Base, StagesAgree, Exec!Task
  <2> QED BY <1>5, <2>1, FailEnds DEF FailLate
<1>6. CASE NotifyFailure
  <2>1. rec.job \in Run BY <1>6, ExecTypes DEF NotifyFailure, Base
  <2> QED BY <1>6, <2>1, FailEnds DEF NotifyFailure
<1> QED BY <1>1, <1>2, <1>3, <1>4, <1>5, <1>6, RunsMove

\* Whoever ends a run.
LEMMA WhoEnds ==
  ASSUME Base, P!IInv, [Next]_vars, NEW r \in Run, Repo!IsLive(r), ~ Repo!IsLive(r)'
  PROVE  \/ BootRows
         \/ LeftTransaction /\ runs[r].owner # owner
         \/ FailRequest /\ r = request.run
         \/ EndResult /\ txn # None /\ r = txn.run
         \/ FailLate /\ r = monitor.job
         \/ NotifyFailure /\ r = rec.job
<1> USE RowFacts DEF P!Row, Repo!IsLive, Repo!Live
<1>2. CASE LeftTransaction BY <1>2 DEF LeftTransaction, Repo!CommitResult, Repo!RollBack
<1>3. CASE EndResult BY <1>3 DEF EndResult, Repo!CommitResult, Repo!RollBack
<1>4. CASE AdmitRun BY <1>4 DEF AdmitRun, Repo!AdmitRun, Repo!Present
<1>5. CASE FailRequest
  <2>1. request.run \in Run BY <1>5, RequestFacts DEF FailRequest
  <2> QED BY <1>5, <2>1, FailEnds DEF FailRequest
<1>6. CASE FailLate
  <2>1. monitor.job \in Run BY <1>6, ExecTypes DEF FailLate, Base, StagesAgree, Exec!Task
  <2> QED BY <1>6, <2>1, FailEnds DEF FailLate
<1>7. CASE NotifyFailure
  <2>1. rec.job \in Run BY <1>7, ExecTypes DEF NotifyFailure, Base
  <2> QED BY <1>7, <2>1, FailEnds DEF NotifyFailure
<1> QED BY <1>2, <1>3, <1>4, <1>5, <1>6, <1>7, RunsMove

\* The executor takes a run up when it is submitted.
LEMMA HandsMove ==
  ASSUME Base, [Next]_vars, NEW r \in Run
  PROVE  Doing(r)' => Doing(r) \/ (SubmitRun /\ r = request.run)
<1>0. r # None BY NullIsApart
<1>1. CASE UNCHANGED exec BY <1>1 DEF exec, Doing
<1>2. CASE Inside BY <1>2, InsideHands
<1>3. CASE Boot BY <1>1, <1>3 DEF Boot, BootLedger, BootRows, BootExecutor, Exec!Start, Doing
<1>4. CASE Crash \/ Exit BY <1>0, <1>4 DEF Crash, Exit, Stop, Doing
<1>5. CASE Request
  <2>1. CASE SubmitRun BY <2>1 DEF SubmitRun, Exec!Submit, Doing
  <2>2. CASE AdmitRun \/ SubmitFails \/ FailRequest \/ FailRequestFails \/ SettleRequest
    <3>1. UNCHANGED exec
      BY <2>2, Zenon DEF AdmitRun, SubmitFails, FailRequest, FailRequestFails, SettleRequest
    <3> QED BY <1>1, <3>1
  <2> QED BY <1>5, <2>1, <2>2 DEF Request
<1>6. CASE OnEvent \/ OnResult
  <2>1. \/ UNCHANGED exec
        \/ \E code \in {"agent_failure", "budget_exceeded"} :
             Exec!EventAccepted \/ Exec!EventRefused(code) \/ Exec!ResultHandled \/ Exec!ResultRefused
    BY <1>6 DEF OnEvent, OnResult, RecordEvent, RejectEvent, ReserveCall, CompleteCall, BeginResult,
                EndResult, FailLate, ResultFails, SettleResult
  <2> QED BY <1>1, <2>1, CallbackHands DEF Doing
<1>7. CASE OnFailure
  <2>1. UNCHANGED exec \/ Exec!RecycleNotifies
    BY <1>7 DEF OnFailure, NotifyFailure, SettleFailure, NotifyFails
  <2> QED BY <1>1, <2>1, NoticeHands DEF Doing
<1>8. CASE CloseBegins BY <1>8 DEF CloseBegins, Exec!CloseBegins, Doing
<1>9. CASE WorkerEmits \/ WorkerProceeds \/ WorkerReports
  <2>1. UNCHANGED <<job, rec, monitor>>
    BY <1>9, Zenon DEF WorkerEmits, WorkerProceeds, WorkerReports, Exec!WorkerEmits,
                       Exec!WorkerProceeds, Exec!WorkerReports
  <2> QED BY <2>1 DEF Doing
<1>10. CASE LeftTransaction \/ Accept \/ OrphanProceeds
  BY <1>1, <1>10 DEF LeftTransaction, Accept, ReplayRun, CheckRun, RefuseRun, OrphanProceeds
<1>11. CASE \E s \in Run : RowDeadlinePasses(s) \/ JobDeadlinePasses(s)
  BY <1>1, <1>11 DEF RowDeadlinePasses, JobDeadlinePasses, Exec!DeadlinePasses, Doing
<1>12. CASE UNCHANGED vars BY <1>1, <1>12 DEF vars
<1> QED
  BY <1>2, <1>3, <1>4, <1>5, <1>6, <1>7, <1>8, <1>9, <1>10, <1>11, <1>12 DEF Next, Inside, Worker

\* A process ends with everything it held; the next one starts with nothing.
LEMMA OwnerMoves ==
  ASSUME Base, [Next]_vars
  PROVE  \/ owner' = owner
         \/ /\ owner' = None \/ (boot' = "ledger" /\ owner' \in Owner /\ owner' \notin started)
            /\ UNCHANGED <<runs, started, txn>>
            /\ NothingRuns'
<1>0. Base' BY BaseStep
<1>1. CASE Boot
  BY <1>0, <1>1 DEF Boot, BootLedger, BootRows, BootExecutor, Base, StagesAgree, repo
<1>2. CASE Crash \/ Exit BY <1>0, <1>2 DEF Crash, Exit, Stop, Base, StagesAgree, repo
<1>3. CASE Inside BY <1>3, InsideMoves DEF here
<1>4. CASE Request
  <2>1. owner' = owner
    BY <1>4, Zenon DEF Request, AdmitRun, SubmitRun, SubmitFails, FailRequest, FailRequestFails,
                       SettleRequest
  <2> QED BY <2>1
<1>5. CASE OnEvent \/ OnResult \/ OnFailure
  BY <1>5 DEF OnEvent, OnResult, RecordEvent, RejectEvent, ReserveCall, CompleteCall, BeginResult,
              EndResult, FailLate, ResultFails, SettleResult, OnFailure, NotifyFailure,
              SettleFailure, NotifyFails, here
<1>6. CASE LeftTransaction \/ Accept \/ OrphanProceeds \/ CloseBegins \/ Worker
           \/ \E s \in Run : RowDeadlinePasses(s) \/ JobDeadlinePasses(s)
  BY <1>6 DEF LeftTransaction, Accept, ReplayRun, CheckRun, RefuseRun, OrphanProceeds, CloseBegins,
              Worker, WorkerEmits, WorkerProceeds, WorkerReports, ExecutorStep, RowDeadlinePasses,
              JobDeadlinePasses, here
<1>7. CASE UNCHANGED vars BY <1>7 DEF vars, here
<1> QED BY <1>1, <1>2, <1>3, <1>4, <1>5, <1>6, <1>7 DEF Next, Inside

\* The steps of the start and of the end.
LEMMA BootMoves ==
  ASSUME Base, [Next]_vars
  PROVE  \/ boot' = boot
         \/ (\E o \in Owner : BootLedger(o)) \/ BootRows \/ BootExecutor
         \/ CloseBegins \/ Crash \/ Exit
<1>1. CASE Inside BY <1>1, InsideMoves DEF here
<1>2. CASE Request
  BY <1>2, Zenon DEF Request, AdmitRun, SubmitRun, SubmitFails, FailRequest, FailRequestFails,
                     SettleRequest
<1>3. CASE OnEvent \/ OnResult \/ OnFailure
  BY <1>3 DEF OnEvent, OnResult, RecordEvent, RejectEvent, ReserveCall, CompleteCall, BeginResult,
              EndResult, FailLate, ResultFails, SettleResult, OnFailure, NotifyFailure,
              SettleFailure, NotifyFails, here
<1>4. CASE LeftTransaction \/ Accept \/ OrphanProceeds \/ Worker
           \/ \E s \in Run : RowDeadlinePasses(s) \/ JobDeadlinePasses(s)
  BY <1>4 DEF LeftTransaction, Accept, ReplayRun, CheckRun, RefuseRun, OrphanProceeds, Worker,
              WorkerEmits, WorkerProceeds, WorkerReports, ExecutorStep, RowDeadlinePasses,
              JobDeadlinePasses, here
<1>5. CASE UNCHANGED vars BY <1>5 DEF vars, here
<1> QED BY <1>1, <1>2, <1>3, <1>4, <1>5 DEF Next, Inside, Boot

LEMMA AdmitsOne ==
  ASSUME Base, P!IInv, AdmitRun PROVE \E s \in Run : runs'[s].owner # runs[s].owner
<1>1. owner \in Owner BY RequestFacts DEF AdmitRun
<1>2. PICK s \in Run : /\ ~ Repo!Present(s)
                       /\ runs' = [runs EXCEPT ![s] =
                            [status |-> "running", owner |-> owner, key |-> request.key,
                             thread |-> request.thread, query |-> request.query, month |-> month,
                             feedback |-> None]]
  BY DEF AdmitRun, Repo!AdmitRun
<1>3. runs[s].owner = None /\ runs'[s].owner = owner BY <1>2, RowFacts DEF Repo!Present
<1> QED BY <1>1, <1>3, NullIsApart

\* Whoever serves a request.
LEMMA RequestCases ==
  ASSUME Base, [Next]_vars
  PROVE  \/ UNCHANGED request /\ ~ AdmitRun /\ ~ SubmitRun
         \/ request = None /\ request' # None /\ request'.run = None
         \/ Request \/ RefuseRun \/ Crash \/ Exit
<1>1. CASE UNCHANGED request
  <2>1. ~ SubmitRun \/ Request BY DEF Request
  <2>2. ~ AdmitRun \/ Request BY DEF Request
  <2> QED BY <1>1, <2>1, <2>2
<1>2. CASE \E k \in Key, t \in Thread, q \in Query : CheckRun(k, t, q)
  <2>1. request' # None BY <1>2, BaseStep, NullIsApart DEF CheckRun, Admission
  <2> QED BY <1>2, <2>1 DEF CheckRun
<1>3. CASE Inside BY <1>1, <1>3, InsideMoves DEF here
<1>4. CASE Boot \/ OnEvent \/ OnResult \/ OnFailure
  <2>1. UNCHANGED request
    BY <1>4 DEF Boot, BootLedger, BootRows, BootExecutor, OnEvent, OnResult, RecordEvent,
                RejectEvent, ReserveCall, CompleteCall, BeginResult, EndResult, FailLate,
                ResultFails, SettleResult, OnFailure, NotifyFailure, SettleFailure, NotifyFails,
                here
  <2> QED BY <1>1, <2>1
<1>5. CASE LeftTransaction \/ (\E k \in Key, t \in Thread, q \in Query : ReplayRun(k, t, q))
           \/ OrphanProceeds \/ Worker \/ CloseBegins
           \/ \E s \in Run : RowDeadlinePasses(s) \/ JobDeadlinePasses(s)
  <2>1. UNCHANGED request
    BY <1>5 DEF LeftTransaction, ReplayRun, OrphanProceeds, CloseBegins, Worker, WorkerEmits,
              WorkerProceeds, WorkerReports, ExecutorStep, RowDeadlinePasses, JobDeadlinePasses,
              here
  <2> QED BY <1>1, <2>1
<1>6. CASE UNCHANGED vars BY <1>1, <1>6 DEF vars, here
<1> QED BY <1>2, <1>3, <1>4, <1>5, <1>6 DEF Next, Inside, Accept

\* A request keeps its run until it is answered.
LEMMA KeepsRun ==
  ASSUME Base, [Next]_vars, request' # None, ~ AdmitRun
  PROVE  \/ request = None /\ request'.run = None
         \/ UNCHANGED request /\ ~ SubmitRun
         \/ /\ SubmitFails \/ FailRequest
            /\ request # None /\ request'.run = request.run /\ ~ SubmitRun
            /\ request'.stage \in {"failing", "settling"}
            /\ request'.stage = "settling" => FailRequest
<1>1. CASE SubmitFails \/ FailRequest
  <2>1. request # None /\ request \in Admission BY <1>1, RequestFacts DEF SubmitFails, FailRequest
  <2>2. PICK stage \in {"failing", "settling"} :
          request' = [request EXCEPT !.stage = stage] /\ (stage = "settling" => FailRequest)
    BY <1>1 DEF SubmitFails, FailRequest
  <2>3. request'.run = request.run /\ request'.stage = stage BY <2>1, <2>2 DEF Admission
  <2>4. ~ SubmitRun BY DEF SubmitRun
  <2> QED BY <1>1, <2>1, <2>2, <2>3, <2>4
<1>2. CASE SubmitRun \/ FailRequestFails \/ SettleRequest \/ RefuseRun \/ Crash \/ Exit
  BY <1>2 DEF SubmitRun, FailRequestFails, SettleRequest, RefuseRun, Crash, Exit, Stop
<1> QED BY <1>1, <1>2, RequestCases DEF Request

LEMMA RequestMoves ==
  ASSUME Base, [Next]_vars, ~ AdmitRun, request' # None, request'.run # None
  PROVE  /\ request # None /\ request'.run = request.run /\ ~ SubmitRun
         /\ request'.stage = "admitted" => request.stage = "admitted"
         /\ request'.stage = "settling" => request.stage = "settling" \/ FailRequest
BY KeepsRun

\* A request that is answered.
LEMMA AnsweredRequests ==
  ASSUME Base, [Next]_vars, request # None, request' = None
  PROVE  SubmitRun \/ RefuseRun \/ FailRequestFails \/ SettleRequest \/ Crash \/ Exit
<1>1. CASE AdmitRun \/ SubmitFails \/ FailRequest
  <2>1. request' # None
    <3>1. request \in Admission BY RequestFacts
    <3>2. CASE AdmitRun
      <4>1. PICK r \in Run : request' = [request EXCEPT !.run = r, !.stage = "admitted"]
        BY <3>2, Zenon DEF AdmitRun
      <4>2. request' \in Admission BY <3>1, <4>1 DEF Admission
      <4> QED BY <4>2, NullIsApart
    <3>3. CASE SubmitFails \/ FailRequest
      <4>1. PICK stage \in {"failing", "settling"} : request' = [request EXCEPT !.stage = stage]
        BY <3>3 DEF SubmitFails, FailRequest
      <4>2. request' \in Admission BY <3>1, <4>1 DEF Admission
      <4> QED BY <4>2, NullIsApart
    <3> QED BY <1>1, <3>2, <3>3
  <2> QED BY <2>1
<1> QED BY <1>1, RequestCases DEF Request

\* What a callback is busy with stays with it.
LEMMA MonitorMoves ==
  ASSUME Base, [Next]_vars
  PROVE  /\ monitor # None /\ monitor.stage = "result" =>
              monitor' = monitor \/ ResultFails \/ SettleResult \/ Crash \/ Exit
         /\ monitor' # None /\ monitor'.stage = "clear" =>
              monitor' = monitor \/ (SettleResult /\ monitor # None /\ monitor'.job = monitor.job)
<1>1. CASE UNCHANGED monitor BY <1>1
<1>2. CASE Inside
  <2>1. \A r \in Run : monitor' # None /\ monitor'.stage = "clear" => monitor' = monitor
    BY <1>2, InsideHands
  <2>2. monitor' # None => Run # {} BY BaseStep, ExecTypes DEF Base, P!ExecInv, P!Exec!TypeOK, P!Exec!Task
  <2> QED BY <1>2, <2>1, <2>2, InsideMoves
<1>3. CASE Crash \/ Exit BY <1>3 DEF Crash, Exit, Stop
<1>4. CASE OnEvent
  <2>1. \/ UNCHANGED exec
        \/ /\ monitor # None => monitor.stage = "event"
           /\ \E code \in {"agent_failure", "budget_exceeded"} : Exec!EventAccepted \/ Exec!EventRefused(code)
    BY <1>4 DEF OnEvent, RecordEvent, RejectEvent, ReserveCall, CompleteCall, Handling, Base,
                StagesAgree
  <2>2. CASE UNCHANGED exec BY <1>1, <2>2 DEF exec
  <2>3. CASE \E code \in {"agent_failure", "budget_exceeded"} : Exec!EventAccepted \/ Exec!EventRefused(code)
    <3>1. monitor # None /\ monitor.stage = "event" BY <2>3 DEF Exec!EventAccepted, Exec!EventRefused
    <3>2. ~ Exec!ResultHandled BY <3>1 DEF Exec!ResultHandled
    <3> QED BY <2>3, <3>1, <3>2, CallbackHands
  <2> QED BY <2>1, <2>2, <2>3
<1>5. CASE OnResult
  <2>1. CASE SettleResult BY <2>1, CallbackHands DEF SettleResult
  <2>2. CASE ResultFails
    <3>1. monitor # None /\ monitor.stage = "result" /\ Exec!MonitorMoves("recycle", "agent_failure")
      BY <2>2 DEF ResultFails, Exec!ResultRefused
    <3>2. "agent_failure" \in Exec!Code BY DEF Exec!Code
    <3> QED BY <2>2, <3>1, <3>2, MonitorHands
  <2>3. CASE BeginResult \/ EndResult \/ FailLate
    BY <1>1, <2>3 DEF BeginResult, EndResult, FailLate, exec
  <2> QED BY <1>5, <2>1, <2>2, <2>3 DEF OnResult
<1>6. CASE OnFailure
  <2>1. UNCHANGED exec \/ Exec!RecycleNotifies
    BY <1>6 DEF OnFailure, NotifyFailure, SettleFailure, NotifyFails
  <2> QED BY <1>1, <2>1, NoticeHands DEF exec
<1>7. CASE Boot \/ Request \/ CloseBegins
  <2>1. UNCHANGED monitor
    BY <1>7, Zenon DEF Boot, BootLedger, BootRows, BootExecutor, Exec!Start, Request, AdmitRun,
                       SubmitRun, Exec!Submit, SubmitFails, FailRequest, FailRequestFails,
                       SettleRequest, CloseBegins, Exec!CloseBegins, exec
  <2> QED BY <1>1, <2>1
<1>8. CASE WorkerEmits \/ WorkerProceeds \/ WorkerReports
  <2>1. UNCHANGED monitor
    BY <1>8, Zenon DEF WorkerEmits, WorkerProceeds, WorkerReports, Exec!WorkerEmits,
                       Exec!WorkerProceeds, Exec!WorkerReports
  <2> QED BY <1>1, <2>1
<1>9. CASE LeftTransaction \/ Accept \/ OrphanProceeds
           \/ \E s \in Run : RowDeadlinePasses(s) \/ JobDeadlinePasses(s)
  <2>1. UNCHANGED monitor
    BY <1>9 DEF LeftTransaction, Accept, ReplayRun, CheckRun, RefuseRun, OrphanProceeds,
       RowDeadlinePasses, JobDeadlinePasses, Exec!DeadlinePasses, exec
  <2> QED BY <1>1, <2>1
<1>10. CASE UNCHANGED vars BY <1>1, <1>10 DEF vars, exec
<1> QED
  BY <1>2, <1>3, <1>4, <1>5, <1>6, <1>7, <1>8, <1>9, <1>10 DEF Next, Inside, Worker

LEMMA RecyclingMoves ==
  ASSUME Base, [Next]_vars
  PROVE  /\ rec # None /\ rec.stage = "notify" =>
              rec' = rec \/ SettleFailure \/ NotifyFails \/ Crash \/ Exit
         /\ rec' # None /\ rec'.job # None /\ rec'.stage \in {"respawn", "stuck"} =>
              rec' = rec \/ ((SettleFailure \/ NotifyFails) /\ rec # None /\ rec'.job = rec.job)
<1>1. CASE UNCHANGED rec BY <1>1
<1>2. CASE Inside
  <2>1. \A r \in Run :
          rec' # None /\ rec'.job # None /\ rec'.stage \in {"respawn", "stuck"} => rec' = rec
    BY <1>2, InsideHands
  <2>2. rec' # None /\ rec'.job # None => rec'.job \in Run
    BY BaseStep DEF Base, P!ExecInv, P!Exec!TypeOK, P!Exec!Recycling
  <2> QED BY <1>2, <2>1, <2>2, InsideMoves
<1>3. CASE Crash \/ Exit BY <1>3 DEF Crash, Exit, Stop
<1>4. CASE OnEvent \/ OnResult
  <2>1. \/ UNCHANGED exec
        \/ \E code \in {"agent_failure", "budget_exceeded"} :
             Exec!EventAccepted \/ Exec!EventRefused(code) \/ Exec!ResultHandled \/ Exec!ResultRefused
    BY <1>4 DEF OnEvent, OnResult, RecordEvent, RejectEvent, ReserveCall, CompleteCall, BeginResult,
                EndResult, FailLate, ResultFails, SettleResult
  <2> QED BY <1>1, <2>1, CallbackHands DEF exec
<1>5. CASE OnFailure
  <2>1. CASE SettleFailure \/ NotifyFails BY <2>1, NoticeHands DEF SettleFailure, NotifyFails
  <2>2. CASE NotifyFailure BY <1>1, <2>2 DEF NotifyFailure, exec
  <2> QED BY <1>5, <2>1, <2>2 DEF OnFailure
<1>7. CASE Boot \/ Request \/ CloseBegins
  <2>1. UNCHANGED rec
    BY <1>7, Zenon DEF Boot, BootLedger, BootRows, BootExecutor, Exec!Start, Request, AdmitRun,
                       SubmitRun, Exec!Submit, SubmitFails, FailRequest, FailRequestFails,
                       SettleRequest, CloseBegins, Exec!CloseBegins, exec
  <2> QED BY <1>1, <2>1
<1>8. CASE WorkerEmits \/ WorkerProceeds \/ WorkerReports
  <2>1. UNCHANGED rec
    BY <1>8, Zenon DEF WorkerEmits, WorkerProceeds, WorkerReports, Exec!WorkerEmits,
                       Exec!WorkerProceeds, Exec!WorkerReports
  <2> QED BY <1>1, <2>1
<1>9. CASE LeftTransaction \/ Accept \/ OrphanProceeds
           \/ \E s \in Run : RowDeadlinePasses(s) \/ JobDeadlinePasses(s)
  <2>1. UNCHANGED rec
    BY <1>9 DEF LeftTransaction, Accept, ReplayRun, CheckRun, RefuseRun, OrphanProceeds,
       RowDeadlinePasses, JobDeadlinePasses, Exec!DeadlinePasses, exec
  <2> QED BY <1>1, <2>1
<1>10. CASE UNCHANGED vars BY <1>1, <1>10 DEF vars, exec
<1> QED BY <1>2, <1>3, <1>4, <1>5, <1>7, <1>8, <1>9, <1>10 DEF Next, Inside, Worker

\* The callbacks move on; the write lock is taken for a result and given back by its end.
LEMMA CallbackMoves ==
  ASSUME Base, [Next]_vars
  PROVE  \/ UNCHANGED <<callback, txn>>
         \/ callback \in {"none", "recorded"} /\ callback' \in {"none", "recorded"} /\ UNCHANGED txn
         \/ BeginResult \/ EndResult \/ FailLate \/ ResultFails \/ SettleResult
         \/ LeftTransaction \/ Crash \/ Exit
<1>1. CASE Inside BY <1>1, InsideMoves DEF here, repo
<1>2. CASE OnEvent
  BY <1>2 DEF OnEvent, RecordEvent, RejectEvent, ReserveCall, CompleteCall, Repo!RecordEvent, repo,
              here
<1>3. CASE OnFailure
  <2>1. CASE NotifyFailure
    <3>1. rec.job \in Run BY <2>1, ExecTypes DEF NotifyFailure, Base
    <3>2. UNCHANGED txn BY <2>1, <3>1 DEF NotifyFailure, Fail, Repo!FinishError, repo
    <3> QED BY <2>1, <3>2 DEF NotifyFailure
  <2>2. CASE SettleFailure \/ NotifyFails BY <2>2 DEF SettleFailure, NotifyFails, repo, here
  <2> QED BY <1>3, <2>1, <2>2 DEF OnFailure
<1>4. CASE Boot BY <1>4 DEF Boot, BootLedger, BootRows, BootExecutor, Repo!Recover, repo
<1>5. CASE Request
  <2>1. UNCHANGED <<callback, txn>>
    BY <1>5, Zenon DEF Request, AdmitRun, SubmitRun, SubmitFails, FailRequest, FailRequestFails,
       SettleRequest, Repo!AdmitRun, Fail, Repo!FinishError, repo
  <2> QED BY <2>1
<1>6. CASE Accept \/ OrphanProceeds \/ Worker \/ CloseBegins
           \/ \E s \in Run : RowDeadlinePasses(s) \/ JobDeadlinePasses(s)
  BY <1>6 DEF Accept, ReplayRun, CheckRun, RefuseRun, Repo!LookupRun, Repo!Replay,
              Repo!LegacyReplay,
     OrphanProceeds, Worker, WorkerEmits, WorkerProceeds, WorkerReports, ExecutorStep, CloseBegins,
     RowDeadlinePasses, JobDeadlinePasses, Repo!DeadlinePasses, repo, here
<1>7. CASE UNCHANGED vars BY <1>7 DEF vars, repo, here
<1> QED BY <1>1, <1>2, <1>3, <1>4, <1>5, <1>6, <1>7 DEF Next, Inside, OnResult

LEMMA NoticeMoves ==
  ASSUME Base, [Next]_vars, notice' = "settle"
  PROVE  notice = "settle" \/ NotifyFailure
<1>1. CASE Inside BY <1>1, InsideMoves DEF here
<1>2. CASE Boot \/ Request \/ OnEvent \/ OnResult
  <2>1. UNCHANGED notice
    BY <1>2, Zenon DEF Boot, BootLedger, BootRows, BootExecutor, Request, AdmitRun, SubmitRun,
                       SubmitFails,
       FailRequest, FailRequestFails, SettleRequest, OnEvent, OnResult, RecordEvent, RejectEvent,
       ReserveCall, CompleteCall, BeginResult, EndResult, FailLate, ResultFails, SettleResult, here
  <2> QED BY <2>1
<1>3. CASE Crash \/ Exit BY <1>3 DEF Crash, Exit, Stop
<1>4. CASE OnFailure BY <1>4 DEF OnFailure, NotifyFailure, SettleFailure, NotifyFails, here
<1>5. CASE LeftTransaction \/ Accept \/ OrphanProceeds \/ CloseBegins \/ Worker
           \/ \E s \in Run : RowDeadlinePasses(s) \/ JobDeadlinePasses(s)
  BY <1>5 DEF LeftTransaction, Accept, ReplayRun, CheckRun, RefuseRun, OrphanProceeds, CloseBegins,
     Worker, WorkerEmits, WorkerProceeds, WorkerReports, ExecutorStep, RowDeadlinePasses,
     JobDeadlinePasses, here
<1>6. CASE UNCHANGED vars BY <1>6 DEF vars, here
<1> QED BY <1>1, <1>2, <1>3, <1>4, <1>5, <1>6 DEF Next, Inside

-----------------------------------------------------------------------------
(* Charge is an invariant *)

LEMMA FreshStep ==
  ASSUME Base, P!IInv, [Next]_vars, IncarnationsAreFresh
  PROVE  IncarnationsAreFresh'
<1>1. started \subseteq started' /\ \A r \in Run : runs'[r].owner \in started' \cup {None}
  <2>1. started \subseteq started'
    <3>1. CASE BootRows BY <3>1 DEF BootRows, Repo!Recover
    <3>2. CASE LeftTransaction \/ EndResult
      BY <3>2 DEF LeftTransaction, EndResult, Repo!CommitResult, Repo!RollBack
    <3>3. CASE AdmitRun BY <3>3 DEF AdmitRun, Repo!AdmitRun
    <3>4. CASE FailRequest \/ FailLate \/ NotifyFailure
      BY <3>4 DEF FailRequest, FailLate, NotifyFailure, Fail, Repo!FinishError, repo
    <3> QED BY <3>1, <3>2, <3>3, <3>4, RunsMove
  <2>2. ASSUME NEW r \in Run PROVE runs'[r].owner \in started' \cup {None}
    <3>1. CASE runs'[r].owner = runs[r].owner BY <2>1, <3>1 DEF IncarnationsAreFresh
    <3>2. CASE runs'[r].owner # runs[r].owner
      <4>1. AdmitRun /\ runs'[r].owner = owner BY <3>2, NewRows
      <4>2. boot = "up" BY <4>1, RequestFacts DEF AdmitRun
      <4> QED BY <2>1, <4>1, <4>2 DEF IncarnationsAreFresh
    <3> QED BY <3>1, <3>2
  <2> QED BY <2>1, <2>2
<1>2. CASE owner' # owner
  <2>1. UNCHANGED <<runs, started>> BY <1>2, OwnerMoves
  <2>2. CASE owner' = None
    <3>1. boot' = "down" BY <2>2, BaseStep DEF Base, StagesAgree
    <3> QED BY <1>1, <3>1 DEF IncarnationsAreFresh
  <2>3. CASE owner' # None
    <3>1. boot' = "ledger" /\ owner' \notin started BY <1>2, <2>3, OwnerMoves
    <3> QED BY <1>1, <2>1, <3>1 DEF IncarnationsAreFresh
  <2> QED BY <2>2, <2>3
<1>3. CASE owner' = owner
  <2>1. CASE boot' = boot
    <3>1. CASE boot = "ledger"
      <4>1. UNCHANGED started
        <5>1. ~ AdmitRun
          <6>1. AdmitRun => request # None BY Zenon DEF AdmitRun
          <6> QED BY <3>1, <6>1, RequestFacts
        <5>2. ~ BootRows BY <2>1, <3>1 DEF BootRows
        <5>3. CASE LeftTransaction \/ EndResult
          BY <5>3 DEF LeftTransaction, EndResult, Repo!CommitResult, Repo!RollBack
        <5>4. CASE FailRequest \/ FailLate \/ NotifyFailure
          BY <5>4 DEF FailRequest, FailLate, NotifyFailure, Fail, Repo!FinishError, repo
        <5> QED BY <5>1, <5>2, <5>3, <5>4, RunsMove
      <4> QED BY <1>1, <1>3, <2>1, <3>1, <4>1 DEF IncarnationsAreFresh
    <3>2. CASE boot # "ledger" BY <1>1, <1>3, <2>1, <3>2 DEF IncarnationsAreFresh
    <3> QED BY <3>1, <3>2
  <2>2. CASE boot' # boot
    <3>1. BootRows \/ BootExecutor \/ CloseBegins \/ (\E o \in Owner : BootLedger(o)) \/ Crash \/ Exit
      BY <2>2, BootMoves
    <3>2. CASE BootRows
      <4>1. boot' = "rows" /\ owner' \in started' BY <3>2 DEF BootRows, Repo!Recover
      <4> QED BY <1>1, <4>1 DEF IncarnationsAreFresh
    <3>3. CASE BootExecutor \/ CloseBegins
      <4>1. boot \in {"rows", "up"} /\ boot' \in {"up", "closing"}
        BY <3>3 DEF BootExecutor, CloseBegins, Serving
      <4> QED BY <1>1, <1>3, <4>1 DEF IncarnationsAreFresh
    <3>4. CASE (\E o \in Owner : BootLedger(o)) \/ Crash \/ Exit
      BY <1>3, <3>4, NullIsApart DEF BootLedger, Crash, Exit, Stop
    <3> QED BY <3>1, <3>2, <3>3, <3>4
  <2> QED BY <2>1, <2>2
<1> QED BY <1>2, <1>3

LEMMA OwnStep ==
  ASSUME Base, P!IInv, [Next]_vars, IncarnationsAreFresh, HeldRunsAreOwn
  PROVE  HeldRunsAreOwn'
<1>1. CASE owner' # owner
  <2>1. NothingRuns' BY <1>1, OwnerMoves
  <2> QED BY <2>1, NullIsApart DEF NothingRuns, HeldRunsAreOwn, Doing
<1>2. CASE owner' = owner
  <2>1. ASSUME NEW r \in Run, runs[r].owner = owner, Doing(r) \/ request # None
        PROVE  runs'[r].owner = owner
    <3>1. owner \in Owner BY <2>1, NullIsApart DEF Doing, Base, TypeOK, StagesAgree, NothingRuns
    <3> QED BY <2>1, <3>1, NullIsApart, RowsStay
  <2>2. ASSUME NEW r \in Run, Doing(r)' PROVE runs'[r].owner = owner'
    <3>1. CASE Doing(r) BY <1>2, <2>1, <3>1 DEF HeldRunsAreOwn
    <3>2. CASE SubmitRun /\ r = request.run
      <4>1. request # None /\ request.run # None BY <3>2, NullIsApart DEF SubmitRun
      <4> QED BY <1>2, <2>1, <3>2, <4>1 DEF HeldRunsAreOwn
    <3> QED BY <2>2, <3>1, <3>2, HandsMove
  <2>3. ASSUME request' # None, request'.run # None PROVE runs'[request'.run].owner = owner'
    <3>1. CASE AdmitRun
      <4>1. PICK s \in Run : runs'[s].owner # runs[s].owner BY <3>1, AdmitsOne
      <4> QED BY <1>2, <4>1, NewRows
    <3>2. CASE ~ AdmitRun
      <4>1. request # None /\ request'.run = request.run BY <2>3, <3>2, RequestMoves
      <4>2. request.run \in Run BY <2>3, <4>1, RequestFacts DEF Admission
      <4> QED BY <1>2, <2>1, <2>3, <4>1, <4>2 DEF HeldRunsAreOwn
    <3> QED BY <3>1, <3>2
  <2> QED BY <2>2, <2>3 DEF HeldRunsAreOwn
<1> QED BY <1>1, <1>2

LEMMA RequestStep ==
  ASSUME Base, P!IInv, [Next]_vars, IncarnationsAreFresh, HeldRunsAreOwn, RequestIsNew,
         CallbackAgrees
  PROVE  RequestIsNew'
<1>0. request' # None /\ request'.run # None => request'.run \in Run
  BY BaseStep, NullIsApart DEF Base, TypeOK, Admission
<1> SUFFICES ASSUME NEW r \in Run, request' # None, request'.run = r
             PROVE  /\ ~ Doing(r)'
                    /\ request'.stage = "admitted" => Repo!IsLive(r)'
                    /\ request'.stage = "settling" => ~ Repo!IsLive(r)'
  BY <1>0 DEF RequestIsNew, Doing, Repo!IsLive
<1>a. r # None BY NullIsApart
<1>1. CASE AdmitRun
  <2>1. PICK s \in Run : runs'[s].owner # runs[s].owner BY <1>1, AdmitsOne
  <2>2. /\ r = s /\ request'.stage = "admitted" /\ Repo!IsLive(r)'
        /\ runs[r].owner = None /\ runs'[r].owner = owner
    BY <2>1, NewRows
  <2>3. ~ SubmitRun BY <2>2 DEF SubmitRun
  <2>4. ~ Doing(r) BY <2>1, <2>2 DEF HeldRunsAreOwn
  <2>5. ~ Doing(r)' BY <2>3, <2>4, HandsMove
  <2> QED BY <2>2, <2>5
<1>2. CASE ~ AdmitRun
  <2>1. /\ request # None /\ request.run = r /\ ~ SubmitRun
        /\ request'.stage = "admitted" => request.stage = "admitted"
        /\ request'.stage = "settling" => request.stage = "settling" \/ FailRequest
    BY <1>a, <1>2, RequestMoves
  <2>2. owner \in Owner /\ boot = "up" BY <2>1, RequestFacts
  <2>3. runs[r].owner = owner /\ ~ Doing(r) BY <1>a, <2>1 DEF HeldRunsAreOwn, RequestIsNew
  <2>4. ~ Doing(r)' BY <2>1, <2>3, HandsMove
  <2>5. ASSUME request'.stage = "admitted" PROVE Repo!IsLive(r)'
    <3>1. Repo!IsLive(r) /\ request.stage = "admitted" BY <1>a, <2>1, <2>5 DEF RequestIsNew
    <3>2. ~ BootRows /\ ~ FailRequest BY <2>2, <3>1 DEF BootRows, FailRequest
    <3>3. ASSUME EndResult, txn # None PROVE r # txn.run
      <4>1. monitor # None /\ txn.run = monitor.job
        BY <3>3 DEF EndResult, Base, StagesAgree, CallbackAgrees
      <4> QED BY <2>3, <4>1 DEF Doing
    <3>4. FailLate => r # monitor.job
      BY <2>3 DEF Doing, FailLate, Base, StagesAgree
    <3>5. NotifyFailure => r # rec.job BY <2>3 DEF Doing, NotifyFailure
    <3>6. Repo!IsLive(r) /\ ~ Repo!IsLive(r)' => FALSE
      BY <2>3, <3>2, <3>3, <3>4, <3>5, WhoEnds
    <3> QED BY <3>1, <3>6
  <2>6. ASSUME request'.stage = "settling" PROVE ~ Repo!IsLive(r)'
    <3>1. CASE FailRequest
      <4>1. Fail(r, "dispatch_failed") BY <2>1, <3>1 DEF FailRequest
      <4> QED BY <2>3, <4>1, FailEnds
    <3>2. CASE request.stage = "settling"
      <4>1. ~ Repo!IsLive(r) BY <1>a, <2>1, <3>2 DEF RequestIsNew
      <4>2. runs[r].owner # None BY <2>2, <2>3, NullIsApart
      <4> QED BY <4>1, <4>2, RowsStay
    <3> QED BY <2>1, <2>6, <3>1, <3>2
  <2> QED BY <2>4, <2>5, <2>6
<1> QED BY <1>1, <1>2

LEMMA NextTask == ASSUME Base' PROVE monitor' # None => monitor'.job \in Run
BY DEF Base, P!ExecInv, P!Exec!TypeOK, P!Exec!Task

LEMMA CallbackStep ==
  ASSUME Base, P!IInv, [Next]_vars, IncarnationsAreFresh, HeldRunsAreOwn, CallbackAgrees
  PROVE  CallbackAgrees'
<1>0. Base' BY BaseStep
<1>1. CASE owner' # owner
  <2>1. NothingRuns' /\ UNCHANGED <<runs, started, txn>>
        /\ (owner' = None \/ (owner' \in Owner /\ owner' \notin started))
    BY <1>1, OwnerMoves
  <2>2. txn' # None => txn'.owner # owner'
    BY <2>1, RowFacts, NullIsApart DEF IncarnationsAreFresh
  <2> QED BY <2>1, <2>2 DEF NothingRuns, CallbackAgrees, Repo!IsLive
<1>2. CASE owner' = owner
  <2>1. ASSUME NEW r \in Run, runs[r].owner = owner, ~ Repo!IsLive(r), owner # None
        PROVE  ~ Repo!IsLive(r)'
    BY <2>1, RowsStay
  <2>2. ASSUME monitor # None
        PROVE  monitor.job \in Run /\ runs[monitor.job].owner = owner /\ owner # None
    <3>1. monitor.job \in Run BY <2>2, ExecTypes DEF Base, Exec!Task
    <3> QED BY <2>2, <3>1, OwnerServes, NullIsApart DEF HeldRunsAreOwn, Doing
  <2>3. ASSUME monitor' # None, monitor'.stage = "clear", NEW r \in Run, r = monitor'.job
        PROVE  ~ Repo!IsLive(r)'
    <3>1. CASE monitor' = monitor
      BY <2>1, <2>2, <2>3, <3>1 DEF CallbackAgrees
    <3>2. CASE SettleResult /\ monitor # None /\ monitor'.job = monitor.job
      BY <2>1, <2>2, <2>3, <3>2 DEF CallbackAgrees, SettleResult
    <3> QED BY <2>3, <3>1, <3>2, MonitorMoves
  <2>4. monitor' # None => monitor'.job \in Run BY <1>0, NextTask
  <2>5. /\ callback' = "commit" => txn' # None /\ txn'.run = monitor'.job /\ txn'.owner = owner'
        /\ txn' # None /\ txn'.owner = owner' => callback' = "commit"
        /\ callback' \in {"late", "settle"} => monitor' # None
        /\ \A r \in Run : r = monitor'.job =>
             /\ callback' = "late" => lapsed'[r] # 0 \/ ~ Repo!IsLive(r)'
             /\ callback' = "settle" => ~ Repo!IsLive(r)'
    <3>1. CASE UNCHANGED <<callback, txn>>
      <4>1. CASE monitor' = monitor \/ callback \in {"none", "recorded"}
        BY <1>2, <2>1, <2>2, <3>1, <4>1, RowsStay DEF CallbackAgrees, Base, StagesAgree
      <4>2. CASE monitor' # monitor /\ callback \notin {"none", "recorded"}
        <5>1. monitor # None /\ monitor.stage = "result"
          BY <4>2 DEF Base, TypeOK, StagesAgree
        <5>2. ResultFails \/ SettleResult \/ Crash \/ Exit BY <4>2, <5>1, MonitorMoves
        <5> QED BY <3>1, <4>2, <5>2 DEF ResultFails, SettleResult, Crash, Exit, Stop
      <4> QED BY <4>1, <4>2
    <3>2. CASE callback \in {"none", "recorded"} /\ callback' \in {"none", "recorded"} /\ UNCHANGED txn
      BY <1>2, <3>2 DEF CallbackAgrees
    <3>3. CASE BeginResult
      <4>1. monitor # None /\ UNCHANGED monitor /\ txn = None
        BY <3>3 DEF BeginResult, Handling, exec, Repo!BeginResult, Repo!LockFree
      <4>2. CASE Repo!BeginResult(owner, monitor.job) /\ callback' = "commit"
        <5>1. monitor.job \in Run /\ owner \in Owner BY <2>2, <4>1, OwnerServes
        <5>2. txn' = [run |-> monitor.job, owner |-> owner] BY <4>2 DEF Repo!BeginResult
        <5>3. txn' # None BY <5>1, <5>2, RepoAssumed DEF P!NullAssumption, P!Result
        <5> QED BY <1>2, <4>1, <4>2, <5>2, <5>3
      <4>3. CASE ~ Repo!Owned(owner, monitor.job) /\ callback' = "late" /\ UNCHANGED repo
        BY <2>2, <4>1, <4>3 DEF Repo!Owned, Repo!OwnedBy, repo, Repo!IsLive
      <4> QED BY <3>3, <4>2, <4>3 DEF BeginResult
    <3>4. CASE EndResult
      <4>1. monitor # None /\ monitor' = monitor /\ txn' = None /\ txn # None /\ txn.run = monitor.job
        BY <3>4 DEF EndResult, exec, Repo!CommitResult, Repo!RollBack, CallbackAgrees, Base,
                    StagesAgree
      <4>2. CASE Repo!CommitResult /\ callback' = "settle"
        <5>1. \A r \in Run : r = monitor'.job => ~ Repo!IsLive(r)'
          BY <4>1, <4>2, RowFacts DEF Repo!CommitResult, Repo!IsLive, Repo!Live, P!Row
        <5> QED BY <4>1, <4>2, <5>1
      <4>3. CASE lapsed[monitor.job] > 0 /\ Repo!RollBack /\ callback' = "late"
        BY <2>2, <4>1, <4>3, RowFacts DEF Repo!RollBack
      <4> QED BY <3>4, <4>2, <4>3 DEF EndResult
    <3>5. CASE FailLate
      <4>1. monitor # None /\ monitor' = monitor /\ callback' = "settle"
        BY <3>5 DEF FailLate, exec, Base, StagesAgree
      <4>2. txn' = None /\ \A r \in Run : r = monitor'.job => ~ Repo!IsLive(r)'
        BY <2>2, <3>5, <4>1, FailEnds DEF FailLate
      <4> QED BY <4>1, <4>2
    <3>6. CASE ResultFails \/ SettleResult
      <4>1. callback' = "none" BY <3>6 DEF ResultFails, SettleResult
      <4>2. txn' # None => txn' = txn /\ callback # "commit"
        BY <3>6 DEF ResultFails, SettleResult, Repo!RollBack, repo
      <4> QED BY <1>2, <4>1, <4>2 DEF CallbackAgrees
    <3>7. CASE LeftTransaction
      <4>1. /\ UNCHANGED <<callback, monitor>> /\ txn' = None /\ txn # None /\ txn.owner # owner
        BY <3>7 DEF LeftTransaction, exec, here, Repo!CommitResult, Repo!RollBack
      <4>2. callback # "commit" BY <4>1 DEF CallbackAgrees
      <4> QED BY <2>1, <2>2, <4>1, <4>2, RowsStay DEF CallbackAgrees, Base, StagesAgree
    <3>8. CASE Crash \/ Exit BY <1>2, <3>8, NullIsApart DEF Crash, Exit, Stop
    <3> QED BY <3>1, <3>2, <3>3, <3>4, <3>5, <3>6, <3>7, <3>8, CallbackMoves
  <2> QED BY <2>3, <2>4, <2>5 DEF CallbackAgrees, Repo!IsLive
<1> QED BY <1>1, <1>2

LEMMA NoticeStep ==
  ASSUME Base, P!IInv, [Next]_vars, HeldRunsAreOwn, NoticeAgrees
  PROVE  NoticeAgrees'
<1>1. ASSUME rec # None, rec.job \in Run
      PROVE  /\ runs[rec.job].owner = owner /\ owner \in Owner
             /\ ~ Repo!IsLive(rec.job) => \A r \in Run : r = rec.job => ~ Repo!IsLive(r)'
  <2>1. runs[rec.job].owner = owner /\ owner \in Owner
    BY <1>1, OwnerServes DEF HeldRunsAreOwn, Doing
  <2> QED BY <1>1, <2>1, RowsStay, NullIsApart
<1>2. rec' # None /\ rec'.job # None => rec'.job \in Run
  BY BaseStep DEF Base, P!ExecInv, P!Exec!TypeOK, P!Exec!Recycling
<1>3. ASSUME notice' = "settle"
      PROVE  rec' # None /\ rec'.job \in Run /\ \A r \in Run : r = rec'.job => ~ Repo!IsLive(r)'
  <2>1. CASE NotifyFailure
    <3>1. /\ rec' = rec /\ rec # None /\ rec.job \in Run
      BY <2>1, ExecTypes DEF NotifyFailure, exec, Base
    <3>2. Fail(rec.job, rec.code) BY <2>1 DEF NotifyFailure
    <3> QED BY <1>1, <3>1, <3>2, FailEnds
  <2>2. CASE notice = "settle" /\ ~ SettleFailure /\ ~ NotifyFails /\ ~ Crash /\ ~ Exit
    <3>1. rec # None /\ rec.stage = "notify" /\ rec.job \in Run BY <2>2, ExecTypes
      DEF Base, StagesAgree
    <3>2. rec' = rec BY <2>2, <3>1, RecyclingMoves
    <3> QED BY <1>1, <2>2, <3>1, <3>2 DEF NoticeAgrees
  <2>3. CASE SettleFailure \/ NotifyFails \/ Crash \/ Exit
    BY <1>3, <2>3 DEF SettleFailure, NotifyFails, Crash, Exit, Stop, here
  <2> QED BY <1>3, <2>1, <2>2, <2>3, NoticeMoves
<1>4. ASSUME "database" \notin Fault, rec' # None, rec'.job # None, rec'.stage \in {"respawn",
             "stuck"}
      PROVE  \A r \in Run : r = rec'.job => ~ Repo!IsLive(r)'
  <2>1. CASE rec' = rec BY <1>1, <1>2, <1>4, <2>1 DEF NoticeAgrees
  <2>2. CASE SettleFailure /\ rec # None /\ rec'.job = rec.job
    BY <1>1, <1>2, <1>4, <2>2 DEF NoticeAgrees, SettleFailure
  <2>3. ~ NotifyFails BY <1>4 DEF NotifyFails, Fails
  <2> QED BY <1>4, <2>1, <2>2, <2>3, RecyclingMoves
<1> QED BY <1>2, <1>3, <1>4 DEF NoticeAgrees, Repo!IsLive

\* A worker that was not killed works for the slot.
LEMMA WorksForTheSlot ==
  ASSUME Base, NEW r \in Run, Working(r)
  PROVE  /\ Doing(r) /\ P!NotKilled
         /\ monitor # None /\ monitor.stage \in {"result", "clear"} => r # monitor.job
<1>0. r # None BY NullIsApart
<1>1. P!ExecInv BY DEF Base
<1>2. P!NotKilled BY <1>0, <1>1, P!OnlyTheSlot, ExecApart DEF Working, P!Exec!NoWorker
<1>3. P!SlotJob = r BY <1>0, <1>1, <1>2, P!OnlyTheSlot, ExecApart DEF Working
<1>4. Doing(r) BY <1>3 DEF P!SlotJob, Doing
<1>5. monitor # None /\ monitor.stage \in {"result", "clear"} => r # monitor.job
  BY <1>0, <1>1, <1>2, P!OnlyTheSlot, ExecApart DEF Working
<1> QED BY <1>2, <1>4, <1>5

\* A run reaches the worker from the request that submits it, and only so.
LEMMA InsideWorks ==
  ASSUME Base, Inside, NEW r \in Run, Working(r)' PROVE Working(r)
<1> USE DEF Exec!pipes, Working
<1>0. r # None BY NullIsApart
<1>1. /\ rec # None => rec \in Exec!Recycling
      /\ monitor # None => monitor \in Exec!Task
      /\ senders \subseteq Exec!Sending
      /\ \A s \in senders : s.conn \in Nat /\ s.conn <= spawned
      /\ spawned \in Nat
  BY ExecTypes DEF Base, P!ExecInv, P!ThreadsAgree, P!ConnIsCurrent, Exec!Sending, P!Exec!TypeOK
<1>2. CASE Sender
  <2>1. PICK s \in senders : Exec!SenderStarts(s) \/ Exec!SenderSends(s)
    BY <1>2 DEF Sender, ExecutorStep
  <2>2. CASE Exec!SenderStarts(s)
    <3>1. s \in Exec!Sending BY <1>1, <2>1
    <3>2. [s EXCEPT !.st = "sending"].conn = s.conn /\ [s EXCEPT !.st = "sending"].job = s.job
      BY <3>1 DEF Exec!Sending
    <3>3. UNCHANGED <<worker, cmd, rec, conn>> BY <2>2 DEF Exec!SenderStarts
    <3>4. \A t \in senders' : \E u \in senders : u.conn = t.conn /\ u.job = t.job
      BY <2>1, <2>2, <3>2 DEF Exec!SenderStarts
    <3> QED BY <3>3, <3>4 DEF P!NotKilled
  <2>3. CASE Exec!SenderSends(s) /\ conn = s.conn /\ worker.st # "dead"
    <3>1. P!NotKilled BY <2>3, P!OnlyTheSlot, ExecApart DEF Base, P!Exec!NoWorker
    <3>2. cmd' = s.job /\ senders' \subseteq senders /\ UNCHANGED <<worker, conn>>
      BY <2>3 DEF Exec!SenderSends
    <3> QED BY <2>1, <2>3, <3>1, <3>2
  <2>4. CASE Exec!SenderSends(s) /\ ~ (conn = s.conn /\ worker.st # "dead")
    <3>1. Exec!Recycles(s.conn, s.job, "dispatch_failed") /\ senders' \subseteq senders
          /\ UNCHANGED <<worker, cmd, conn>>
      BY <2>4 DEF Exec!SenderSends
    <3> QED BY <3>1 DEF Exec!Recycles, P!NotKilled
  <2> QED BY <2>1, <2>2, <2>3, <2>4
<1>3. CASE Monitor
  <2>1. CASE Exec!MonitorAcks
    <3>1. UNCHANGED <<worker, senders, conn, rec>> /\ monitor # None /\ monitor.stage = "ack"
      BY <2>1 DEF Exec!MonitorAcks
    <3>2. CASE cmd' = cmd BY <3>1, <3>2 DEF P!NotKilled
    <3>3. CASE cmd' # cmd
      <4>1. /\ conn = monitor.conn /\ job = monitor.job /\ rec = None /\ worker.st # "dead"
            /\ cmd' = monitor.job
        BY <2>1, <3>3 DEF Exec!MonitorAcks, Exec!Sendable
      <4>2. worker.st = "waiting"
        BY <3>1, <4>1 DEF Base, P!ExecInv, P!ThreadsAgree, P!WorkerWaits, P!NotKilled
      <4>3. worker.job = monitor.job
        BY <4>1, <4>2 DEF Base, P!ExecInv, P!ThreadsAgree, P!WorkerIsPlain, P!AllServeTheSlot,
                          P!NotKilled, P!SlotJob
      <4> QED BY <3>1, <4>1, <4>3 DEF P!NotKilled
    <3> QED BY <3>2, <3>3
  <2>2. CASE Exec!MonitorTakes \/ Exec!MonitorClears
    BY <2>2 DEF Exec!MonitorTakes, Exec!MonitorClears, P!NotKilled
  <2>3. CASE Exec!MonitorRecycles
    BY <2>3 DEF Exec!MonitorRecycles, Exec!Recycles, P!NotKilled
  <2> QED BY <1>3, <2>1, <2>2, <2>3 DEF Monitor, ExecutorStep, Exec!Monitor
<1>4. CASE Watchdog
  BY <1>4 DEF Watchdog, ExecutorStep, Exec!WatchSees, Exec!WatchRecycles, Exec!Recycles, P!NotKilled
<1>5. CASE Recycle
  <2>1. CASE Exec!RecycleKills
    <3>1. worker'.job = None /\ cmd' = None BY <2>1 DEF Exec!RecycleKills, Exec!NoWorker
    <3>2. PICK stage \in {"respawn", "notify"} : rec' = [rec EXCEPT !.stage = stage]
      BY <2>1 DEF Exec!RecycleKills
    <3>3. rec \in Exec!Recycling BY <1>1, <2>1 DEF Exec!RecycleKills
    <3>4. rec'.stage = stage /\ rec' # None BY <3>2, <3>3, NullIsApart DEF Exec!Recycling
    <3> QED BY <1>0, <3>1, <3>4 DEF P!NotKilled
  <2>2. CASE Exec!RecycleRespawns
    <3>1. CASE conn' = None /\ UNCHANGED <<worker, cmd, senders>>
      BY <1>1, <3>1, NullIsApart
    <3>2. CASE Exec!Spawn /\ UNCHANGED senders
      BY <1>0, <1>1, <3>2 DEF Exec!Spawn, Exec!NewWorker
    <3> QED BY <2>2, <3>1, <3>2 DEF Exec!RecycleRespawns
  <2> QED BY <1>5, <2>1, <2>2 DEF Recycle, ExecutorStep
<1>6. CASE Close
  BY <1>6 DEF Close, ExecutorStep, Exec!CloseWaits, Exec!CloseRecycles, P!NotKilled
<1>7. CASE ExecutorStep(Exec!WorkerReady \/ Exec!WorkerTakes \/ Exec!WorkerResumes \/ Exec!WorkerDies)
  <2>1. worker \in [st : Exec!WorkerState, job : Run \cup {None}, note : Note \cup {None}]
    BY ExecTypes DEF Base
  <2>2. CASE Exec!WorkerTakes
    <3>1. worker'.job = cmd /\ cmd' = None BY <2>1, <2>2 DEF Exec!WorkerTakes
    <3> QED BY <1>0, <2>2, <3>1 DEF Exec!WorkerTakes, P!NotKilled
  <2>3. CASE Exec!WorkerReady \/ Exec!WorkerResumes
    <3>1. worker'.job = worker.job /\ cmd' \in {cmd, None}
      BY <2>1, <2>3 DEF Exec!WorkerReady, Exec!WorkerResumes
    <3> QED BY <1>0, <2>3, <3>1 DEF Exec!WorkerReady, Exec!WorkerResumes, P!NotKilled
  <2>4. CASE Exec!WorkerDies
    BY <1>0, <2>4 DEF Exec!WorkerDies, Exec!NoWorker, P!NotKilled
  <2> QED BY <1>7, <2>2, <2>3, <2>4 DEF ExecutorStep
<1> QED BY <1>2, <1>3, <1>4, <1>5, <1>6, <1>7 DEF Inside

LEMMA WorkMoves ==
  ASSUME Base, [Next]_vars, NEW r \in Run, Working(r)'
  PROVE  Working(r) \/ (SubmitRun /\ r = request.run)
<1> USE DEF Exec!pipes
<1>0. r # None BY NullIsApart
<1>1. UNCHANGED <<worker, cmd, senders, conn, rec>> => Working(r) BY DEF Working, P!NotKilled
<1>2. CASE Inside BY <1>2, InsideWorks
<1>3. CASE Boot
  <2>1. CASE BootExecutor
    <3>1. senders = {} BY <2>1 DEF BootExecutor, Base, StagesAgree, NothingRuns
    <3>2. worker'.job = None /\ cmd' = None /\ senders' = senders
      BY <2>1 DEF BootExecutor, Exec!Start, Exec!Spawn, Exec!NewWorker
    <3> QED BY <1>0, <3>1, <3>2 DEF Working
  <2>2. CASE BootRows \/ \E o \in Owner : BootLedger(o)
    BY <1>1, <2>2 DEF BootRows, BootLedger, exec
  <2> QED BY <1>3, <2>1, <2>2 DEF Boot
<1>4. CASE Crash \/ Exit BY <1>0, <1>4 DEF Crash, Exit, Stop, Working, Exec!NoWorker
<1>5. CASE Request
  <2>1. CASE SubmitRun
    <3>1. /\ senders' = senders \cup {[conn |-> conn, job |-> request.run, st |-> "new"]}
          /\ UNCHANGED <<worker, cmd, conn, rec>>
      BY <2>1 DEF SubmitRun, Exec!Submit
    <3> QED BY <2>1, <3>1 DEF Working, P!NotKilled
  <2>2. CASE AdmitRun \/ SubmitFails \/ FailRequest \/ FailRequestFails \/ SettleRequest
    <3>1. UNCHANGED exec
      BY <2>2, Zenon DEF AdmitRun, SubmitFails, FailRequest, FailRequestFails, SettleRequest
    <3> QED BY <1>1, <3>1 DEF exec
  <2> QED BY <1>5, <2>1, <2>2 DEF Request
<1>6. CASE OnEvent \/ OnResult
  <2>1. \/ UNCHANGED exec
        \/ \E code \in {"agent_failure", "budget_exceeded"} :
             Exec!EventAccepted \/ Exec!EventRefused(code) \/ Exec!ResultHandled \/ Exec!ResultRefused
    BY <1>6 DEF OnEvent, OnResult, RecordEvent, RejectEvent, ReserveCall, CompleteCall, BeginResult,
                EndResult, FailLate, ResultFails, SettleResult
  <2> QED BY <1>1, <2>1, CallbackHands DEF exec
<1>7. CASE OnFailure
  <2>1. CASE UNCHANGED exec BY <1>1, <2>1 DEF exec
  <2>2. CASE Exec!RecycleNotifies
    <3>1. ~ P!NotKilled' BY <2>2, NoticeHands DEF P!NotKilled
    <3> QED BY <2>2, <3>1, NoticeHands DEF Working
  <2> QED BY <1>7, <2>1, <2>2 DEF OnFailure, NotifyFailure, SettleFailure, NotifyFails
<1>8. CASE CloseBegins
  BY <1>1, <1>8 DEF CloseBegins, Exec!CloseBegins
<1>9. CASE WorkerEmits \/ WorkerProceeds \/ WorkerReports
  <2>1. worker \in [st : Exec!WorkerState, job : Run \cup {None}, note : Note \cup {None}]
    BY ExecTypes DEF Base
  <2>2. CASE WorkerEmits
    <3>1. PICK n \in Note : Exec!WorkerEmits(n) BY <2>2 DEF WorkerEmits
    <3>2. worker'.job = worker.job /\ UNCHANGED <<cmd, senders, conn, rec>>
      BY <2>1, <3>1 DEF Exec!WorkerEmits
    <3> QED BY <3>2 DEF Working, P!NotKilled
  <2>3. CASE WorkerProceeds
    <3>1. worker'.job = worker.job /\ UNCHANGED <<cmd, senders, conn, rec>>
      BY <2>1, <2>3 DEF WorkerProceeds, Exec!WorkerProceeds
    <3> QED BY <3>1 DEF Working, P!NotKilled
  <2>4. CASE WorkerReports
    <3>1. worker'.job = None /\ UNCHANGED <<cmd, senders, conn, rec>>
      BY <2>1, <2>4 DEF WorkerReports, Exec!WorkerReports
    <3> QED BY <1>0, <3>1 DEF Working, P!NotKilled
  <2> QED BY <1>9, <2>2, <2>3, <2>4
<1>10. CASE LeftTransaction \/ Accept \/ OrphanProceeds
            \/ \E s \in Run : RowDeadlinePasses(s) \/ JobDeadlinePasses(s)
  BY <1>1, <1>10 DEF LeftTransaction, Accept, ReplayRun, CheckRun, RefuseRun, OrphanProceeds,
     RowDeadlinePasses, JobDeadlinePasses, Exec!DeadlinePasses, exec
<1>11. CASE UNCHANGED vars BY <1>1, <1>11 DEF vars, exec
<1> QED
  BY <1>2, <1>3, <1>4, <1>5, <1>6, <1>7, <1>8, <1>9, <1>10, <1>11 DEF Next, Inside, Worker

LEMMA WorkStep ==
  ASSUME Base, P!IInv, [Next]_vars, HeldRunsAreOwn, RequestIsNew, CallbackAgrees, WorkIsLive
  PROVE  WorkIsLive'
<1>1. ASSUME NEW r \in Run, Working(r)' PROVE Repo!IsLive(r)'
  <2>0. r # None BY NullIsApart
  <2>1. CASE SubmitRun /\ r = request.run
    <3>1. Repo!IsLive(r) BY <2>0, <2>1 DEF RequestIsNew, SubmitRun
    <3> QED BY <2>1, <3>1 DEF SubmitRun, repo, Repo!IsLive
  <2>2. CASE Working(r)
    <3>1. Repo!IsLive(r) BY <2>2 DEF WorkIsLive
    <3>2. /\ Doing(r) /\ P!NotKilled /\ runs[r].owner = owner
          /\ monitor # None /\ monitor.stage \in {"result", "clear"} => r # monitor.job
      BY <2>2, WorksForTheSlot DEF HeldRunsAreOwn
    <3>3. ~ BootRows BY <2>0, <2>2, <3>2 DEF BootRows, Base, StagesAgree, NothingRuns, Doing
    <3>4. FailRequest => r # request.run BY <2>0, <3>2 DEF FailRequest, RequestIsNew
    <3>5. EndResult /\ txn # None => r # txn.run
      BY <3>2 DEF EndResult, Base, StagesAgree, CallbackAgrees
    <3>6. FailLate => r # monitor.job BY <3>2 DEF FailLate, Base, StagesAgree
    <3>7. ~ NotifyFailure BY <3>2 DEF NotifyFailure, P!NotKilled
    <3> QED BY <3>1, <3>2, <3>3, <3>4, <3>5, <3>6, <3>7, WhoEnds
  <2> QED BY <1>1, <2>1, <2>2, WorkMoves
<1> QED BY <1>1 DEF WorkIsLive, Repo!IsLive, Working, P!NotKilled

\* The codes of the runs that fail.
LEMMA ErrorMoves ==
  ASSUME Base, [Next]_vars
  PROVE  UNCHANGED error \/ BootRows \/ FailRequest \/ FailLate \/ NotifyFailure
<1>1. CASE Inside BY <1>1, InsideMoves DEF here
<1>2. CASE Boot \/ Request \/ OnEvent \/ OnResult \/ OnFailure
  <2>1. CASE BootRows \/ FailRequest \/ FailLate \/ NotifyFailure BY <2>1
  <2>2. CASE ~ (BootRows \/ FailRequest \/ FailLate \/ NotifyFailure)
    <3>1. UNCHANGED error
      BY <1>2, <2>2, Zenon DEF Boot, BootLedger, BootExecutor, Request, AdmitRun, SubmitRun,
                               SubmitFails,
         FailRequestFails, SettleRequest, OnEvent, OnResult, RecordEvent, RejectEvent, ReserveCall,
         CompleteCall, BeginResult, EndResult, ResultFails, SettleResult, OnFailure, SettleFailure,
         NotifyFails, here
    <3> QED BY <3>1
  <2> QED BY <2>1, <2>2
<1>3. CASE Crash \/ Exit BY <1>3 DEF Crash, Exit, Stop
<1>4. CASE LeftTransaction \/ Accept \/ OrphanProceeds \/ CloseBegins \/ Worker
           \/ \E s \in Run : RowDeadlinePasses(s) \/ JobDeadlinePasses(s)
  BY <1>4 DEF LeftTransaction, Accept, ReplayRun, CheckRun, RefuseRun, OrphanProceeds, CloseBegins,
     Worker, WorkerEmits, WorkerProceeds, WorkerReports, ExecutorStep, RowDeadlinePasses,
     JobDeadlinePasses, here
<1>5. CASE UNCHANGED vars BY <1>5 DEF vars, here
<1> QED BY <1>1, <1>2, <1>3, <1>4, <1>5 DEF Next, Inside

LEMMA TimeoutStep ==
  ASSUME Base, P!IInv, [Next]_vars, CallbackAgrees, TimeoutsAreReal
  PROVE  TimeoutsAreReal'
<1>1. due \subseteq due'
  BY ExecutorMoves, P!CausesStay DEF Base, exec, P!Lost
<1>2. \A r \in Run : lapsed[r] > 0 => lapsed'[r] > 0
  BY RowFacts, RowsStay
<1>3. ASSUME NEW r \in Run, error'[r] = "run_timeout" PROVE r \in due' \/ lapsed'[r] > 0
  <2>1. CASE error'[r] = error[r] BY <1>1, <1>2, <1>3, <2>1 DEF TimeoutsAreReal
  <2>2. CASE BootRows
    <3>1. error'[r] = error[r] BY <1>3, <2>2 DEF BootRows
    <3> QED BY <2>1, <3>1
  <2>3. CASE FailRequest
    <3>1. request.run \in Run /\ Fail(request.run, "dispatch_failed") BY <2>3, RequestFacts
      DEF FailRequest
    <3>2. error' = error \/ error' = [error EXCEPT ![request.run] = "dispatch_failed"]
      BY <3>1, FailEnds
    <3>3. error'[r] = error[r] BY <1>3, <3>1, <3>2 DEF Base, TypeOK
    <3> QED BY <2>1, <3>3
  <2>4. CASE FailLate
    <3>1. monitor.job \in Run BY <2>4, ExecTypes DEF FailLate, Base, StagesAgree, Exec!Task
    <3>2. Fail(monitor.job, "run_timeout") BY <2>4 DEF FailLate
    <3>3. \/ error' = error
          \/ Repo!IsLive(monitor.job) /\ error' = [error EXCEPT ![monitor.job] = "run_timeout"]
      BY <3>1, <3>2, FailEnds
    <3>4. CASE error' # error /\ r = monitor.job
      <4>1. lapsed[r] # 0 BY <2>4, <3>3, <3>4 DEF FailLate, CallbackAgrees
      <4> QED BY <1>2, <4>1, RowFacts
    <3>5. CASE error' = error \/ r # monitor.job
      <4>1. error'[r] = error[r] BY <3>1, <3>3, <3>5 DEF Base, TypeOK
      <4> QED BY <2>1, <4>1
    <3> QED BY <3>4, <3>5
  <2>5. CASE NotifyFailure
    <3>1. rec # None /\ rec.job \in Run /\ Fail(rec.job, rec.code)
      BY <2>5, ExecTypes DEF NotifyFailure, Base
    <3>2. error' = error \/ error' = [error EXCEPT ![rec.job] = rec.code] BY <3>1, FailEnds
    <3>3. CASE r = rec.job /\ rec.code = "run_timeout"
      BY <1>1, <3>1, <3>3 DEF Base, P!ExecInv, P!ThreadsAgree, P!CausesAreKept, P!IsCause
    <3>4. CASE ~ (r = rec.job /\ rec.code = "run_timeout")
      <4>1. error'[r] = error[r] BY <1>3, <3>1, <3>2, <3>4 DEF Base, TypeOK
      <4> QED BY <2>1, <4>1
    <3> QED BY <3>3, <3>4
  <2> QED BY <2>1, <2>2, <2>3, <2>4, <2>5, ErrorMoves
<1> QED BY <1>3 DEF TimeoutsAreReal

\* What the executor holds of a run that has not ended, it goes on holding.
LEMMA KeepsHold ==
  ASSUME Base, [Next]_vars, NEW r \in Run, job = r \/ (rec # None /\ rec.job = r),
         ~ (monitor # None /\ monitor.stage = "clear" /\ monitor.job = r),
         ~ (rec # None /\ rec.stage = "respawn" /\ rec.job = r)
  PROVE  job' = r \/ (rec' # None /\ rec'.job = r) \/ Crash \/ Exit
<1>0. r # None BY NullIsApart
<1>1. CASE UNCHANGED <<job, rec>> BY <1>1
<1>2. CASE Inside BY <1>2, InsideHands
<1>3. CASE Boot
  BY <1>0, <1>1, <1>3 DEF Boot, BootLedger, BootRows, BootExecutor, Exec!Start, exec
<1>4. CASE Request
  <2>1. CASE SubmitRun BY <1>0, <2>1 DEF SubmitRun, Exec!Submit, Exec!Submittable, Exec!Ready
  <2>2. CASE AdmitRun \/ SubmitFails \/ FailRequest \/ FailRequestFails \/ SettleRequest
    <3>1. UNCHANGED exec
      BY <2>2, Zenon DEF AdmitRun, SubmitFails, FailRequest, FailRequestFails, SettleRequest
    <3> QED BY <1>1, <3>1 DEF exec
  <2> QED BY <1>4, <2>1, <2>2 DEF Request
<1>5. CASE OnEvent \/ OnResult
  <2>1. \/ UNCHANGED exec
        \/ \E code \in {"agent_failure", "budget_exceeded"} :
             Exec!EventAccepted \/ Exec!EventRefused(code) \/ Exec!ResultHandled \/ Exec!ResultRefused
    BY <1>5 DEF OnEvent, OnResult, RecordEvent, RejectEvent, ReserveCall, CompleteCall, BeginResult,
                EndResult, FailLate, ResultFails, SettleResult
  <2> QED BY <1>1, <2>1, CallbackHands DEF exec
<1>6. CASE OnFailure
  <2>1. CASE UNCHANGED exec BY <1>1, <2>1 DEF exec
  <2>2. CASE Exec!RecycleNotifies BY <2>2, NoticeHands
  <2> QED BY <1>6, <2>1, <2>2 DEF OnFailure, NotifyFailure, SettleFailure, NotifyFails
<1>7. CASE CloseBegins BY <1>1, <1>7 DEF CloseBegins, Exec!CloseBegins
<1>8. CASE WorkerEmits \/ WorkerProceeds \/ WorkerReports
  <2>1. UNCHANGED <<job, rec>>
    BY <1>8, Zenon DEF WorkerEmits, WorkerProceeds, WorkerReports, Exec!WorkerEmits,
                       Exec!WorkerProceeds, Exec!WorkerReports
  <2> QED BY <1>1, <2>1
<1>9. CASE LeftTransaction \/ Accept \/ OrphanProceeds
           \/ \E s \in Run : RowDeadlinePasses(s) \/ JobDeadlinePasses(s)
  BY <1>1, <1>9 DEF LeftTransaction, Accept, ReplayRun, CheckRun, RefuseRun, OrphanProceeds,
     RowDeadlinePasses, JobDeadlinePasses, Exec!DeadlinePasses, exec
<1>10. CASE UNCHANGED vars BY <1>1, <1>10 DEF vars, exec
<1> QED
  BY <1>2, <1>3, <1>4, <1>5, <1>6, <1>7, <1>8, <1>9, <1>10 DEF Next, Inside, Worker

\* A run that is its process's is let go of only when it has ended.
LEMMA LiveStep ==
  ASSUME Base, P!IInv, [Next]_vars, Hands, "database" \notin Fault, LiveRunIsHandled
  PROVE  LiveRunIsHandled'
<1> USE DEF Hands
<1>1. CASE owner' # owner
  <2>1. /\ owner' = None \/ (owner' \in Owner /\ owner' \notin started)
        /\ UNCHANGED runs
    BY <1>1, OwnerMoves
  <2>2. ASSUME NEW r \in Run, runs'[r].owner = owner', owner' # None PROVE FALSE
    BY <2>1, <2>2 DEF IncarnationsAreFresh
  <2> QED BY <2>2 DEF LiveRunIsHandled
<1>2. CASE owner' = owner
  <2>1. ASSUME NEW r \in Run, owner # None, Repo!IsLive(r)', runs'[r].owner = owner PROVE Uses(r)'
    <3>0. r # None BY NullIsApart
    <3>1. CASE runs[r].owner # owner
      <4>1. request' # None /\ request'.run = r BY <2>1, <3>1, NewRows
      <4> QED BY <4>1 DEF Uses
    <3>2. CASE runs[r].owner = owner
      <4>1. Repo!IsLive(r) BY <2>1, <3>2, RowsStay
      <4>2. Uses(r) BY <2>1, <3>2, <4>1 DEF LiveRunIsHandled
      <4>3. CASE request # None /\ request.run = r
        <5>1. request.stage # "settling" BY <3>0, <4>1, <4>3 DEF RequestIsNew
        <5>2. CASE SubmitRun BY <4>3, <5>2 DEF SubmitRun, Exec!Submit, Uses
        <5>3. CASE request' = None /\ ~ SubmitRun
          <6>1. RefuseRun \/ SettleRequest \/ Crash \/ Exit
            <7>1. ~ FailRequestFails BY DEF FailRequestFails
            <7> QED BY <4>3, <5>3, <7>1, AnsweredRequests
          <6> QED
            BY <1>2, <2>1, <3>0, <4>3, <5>1, <6>1, RequestFacts
            DEF RefuseRun, SettleRequest, Crash, Exit, Stop
        <5>4. CASE request' # None
          <6>0. ~ AdmitRun
            <7>1. AdmitRun => request.stage = "checked" BY Zenon DEF AdmitRun
            <7> QED BY <3>0, <4>3, <7>1, RequestFacts
          <6>1. request'.run = r BY <3>0, <4>3, <5>4, <6>0, KeepsRun
          <6> QED BY <5>4, <6>1 DEF Uses
        <5> QED BY <5>2, <5>3, <5>4
      <4>4. CASE job = r \/ (rec # None /\ rec.job = r)
        <5>1. /\ ~ (monitor # None /\ monitor.stage = "clear" /\ monitor.job = r)
              /\ ~ (rec # None /\ rec.stage = "respawn" /\ rec.job = r)
          BY <3>0, <4>1 DEF CallbackAgrees, NoticeAgrees
        <5> QED BY <1>2, <2>1, <4>4, <5>1, KeepsHold DEF Uses, Crash, Exit, Stop
      <4> QED BY <4>2, <4>3, <4>4 DEF Uses
    <3> QED BY <3>1, <3>2
  <2> QED BY <1>2, <2>1 DEF LiveRunIsHandled, Uses, Repo!IsLive
<1> QED BY <1>1, <1>2

LEMMA ChargeStep == ASSUME Base, P!IInv, [Next]_vars, Charge PROVE Charge'
<1>1. Hands'
  BY FreshStep, OwnStep, RequestStep, CallbackStep, NoticeStep, WorkStep, TimeoutStep
  DEF Charge, Hands
<1>2. ASSUME "database" \notin Fault PROVE LiveRunIsHandled' BY <1>2, LiveStep DEF Charge
<1> QED BY <1>1, <1>2 DEF Charge

LEMMA ChargeInit == Init => Charge
<1>1. ASSUME Init PROVE Hands /\ LiveRunIsHandled
  <2>1. /\ owner = None /\ boot = "down" /\ request = None /\ callback = "none" /\ notice = "none"
        /\ job = None /\ rec = None /\ monitor = None /\ senders = {} /\ txn = None /\ cmd = None
        /\ worker.job = None /\ error = [r \in Run |-> None]
        /\ \A r \in Run : runs[r].owner = None
    BY <1>1 DEF Init, HereInit, Exec!Init, Exec!NoWorker, Repo!Init, Repo!NoRow
  <2>2. \A r \in Run : r # None /\ ~ Doing(r) /\ ~ Working(r) /\ error[r] # "run_timeout"
    <3>1. ASSUME NEW r \in Run PROVE r # None /\ ~ Doing(r) /\ ~ Working(r)
      <4>1. r # None BY NullIsApart
      <4>2. ~ Doing(r) BY <2>1, <4>1 DEF Doing
      <4>3. ~ Working(r) BY <2>1, <4>1 DEF Working
      <4> QED BY <4>1, <4>2, <4>3
    <3>2. None # "run_timeout" BY ServiceAssumption DEF Exec!NullAssumption, Exec!Code
    <3> QED BY <2>1, <3>1, <3>2
  <2>3. IncarnationsAreFresh /\ HeldRunsAreOwn /\ RequestIsNew
    BY <2>1, <2>2 DEF IncarnationsAreFresh, HeldRunsAreOwn, RequestIsNew
  <2>4. CallbackAgrees /\ NoticeAgrees BY <2>1 DEF CallbackAgrees, NoticeAgrees
  <2>5. WorkIsLive /\ TimeoutsAreReal /\ LiveRunIsHandled
    BY <2>1, <2>2 DEF WorkIsLive, TimeoutsAreReal, LiveRunIsHandled
  <2> QED BY <2>3, <2>4, <2>5 DEF Hands
<1> QED BY <1>1 DEF Charge

\* While a result is stored or a failure told no one computes for the run.
LEMMA NobodyWorks == ASSUME Base, WorkIsLive PROVE NobodyWorksForEndedRuns
BY DEF Base, P!ExecInv, P!Exec!TypeOK, WorkIsLive, Working, NobodyWorksForEndedRuns

\* Every run that is accepted is in the hands of someone who ends it, and no one works for
\* a run that has ended: the rows, the slot, the request and the callbacks always agree.
THEOREM RunsAreInCharge == Spec => []Charge
<1>1. Base /\ P!IInv /\ Charge /\ [Next]_vars => Charge' BY ChargeStep
<1> QED BY <1>1, ChargeInit, ProcessAgrees, TablesAgree, PTL DEF Spec

-----------------------------------------------------------------------------
(* The ledger: every step of the service is one of its operations, or none *)

LEMMA BudgetAssumed == P!Ledger!BudgetAssumption
BY ServiceAssumption
   DEF Ledger!BudgetAssumption, P!Ledger!BudgetAssumption, Ledger!IsFiniteSet, P!Ledger!IsFiniteSet,
       Ledger!CallRow, P!Ledger!CallRow

LEMMA LedgerOperations ==
  /\ \A r, c, a : Ledger!Reserve(r, c, a) => P!Ledger!Reserve(r, c, a)
  /\ \A r, c, u : Ledger!Complete(r, c, u) => P!Ledger!Complete(r, c, u)
  /\ \A r : Ledger!FailRun(r) => P!Ledger!FailRun(r)
  /\ Ledger!Recover => P!Ledger!Recover
<1>1. ASSUME NEW r, NEW c, NEW a PROVE Ledger!Reserve(r, c, a) => P!Ledger!Reserve(r, c, a)
  <2>1. Ledger!Total = P!Ledger!Total
    BY Zenon DEF Ledger!Total, P!Ledger!Total, Ledger!Cost, P!Ledger!Cost, Ledger!MapThenSumSet,
                 P!Ledger!MapThenSumSet, Ledger!MapThenFoldSet, P!Ledger!MapThenFoldSet
  <2> QED BY <2>1, Zenon DEF Ledger!Reserve, P!Ledger!Reserve, Ledger!Reservable,
                             P!Ledger!Reservable
<1>2. ASSUME NEW r, NEW c, NEW u PROVE Ledger!Complete(r, c, u) => P!Ledger!Complete(r, c, u)
  BY Zenon DEF Ledger!Complete, P!Ledger!Complete
<1>3. ASSUME NEW r PROVE Ledger!FailRun(r) => P!Ledger!FailRun(r)
  BY DEF Ledger!FailRun, P!Ledger!FailRun, Ledger!Charge, P!Ledger!Charge
<1>4. Ledger!Recover => P!Ledger!Recover
  BY DEF Ledger!Recover, P!Ledger!Recover, Ledger!Charge, P!Ledger!Charge
<1> QED BY <1>1, <1>2, <1>3, <1>4

\* Whoever writes the ledger.
LEMMA LedgerCases ==
  ASSUME Base, [Next]_vars
  PROVE  \/ UNCHANGED calls
         \/ (\E o \in Owner : BootLedger(o)) \/ SettleRequest \/ SettleResult \/ SettleFailure
         \/ ReserveCall \/ CompleteCall
<1>1. CASE Inside BY <1>1, InsideMoves
<1>2. CASE BootRows \/ BootExecutor \/ Crash \/ Exit \/ LeftTransaction \/ Accept \/ CloseBegins
  BY <1>2
  DEF BootRows, BootExecutor, Crash, Exit, Stop, LeftTransaction, Accept, ReplayRun, CheckRun,
      RefuseRun, CloseBegins
<1>3. CASE Request \/ RecordEvent \/ RejectEvent
  <2>1. AdmitRun => UNCHANGED calls BY Zenon DEF AdmitRun
  <2>2. SubmitRun \/ SubmitFails \/ FailRequest \/ FailRequestFails \/ RecordEvent \/ RejectEvent
          => UNCHANGED calls
    BY DEF SubmitRun, SubmitFails, FailRequest, FailRequestFails, RecordEvent, RejectEvent
  <2> QED BY <1>3, <2>1, <2>2 DEF Request
<1>4. CASE BeginResult \/ EndResult \/ FailLate \/ ResultFails \/ NotifyFailure \/ NotifyFails
  BY <1>4 DEF BeginResult, EndResult, FailLate, ResultFails, NotifyFailure, NotifyFails
<1>5. CASE Worker \/ OrphanProceeds \/ \E r \in Run : RowDeadlinePasses(r) \/ JobDeadlinePasses(r)
  BY <1>5
  DEF Worker, WorkerEmits, WorkerProceeds, WorkerReports, ExecutorStep, OrphanProceeds,
      RowDeadlinePasses, JobDeadlinePasses
<1>6. CASE UNCHANGED vars BY <1>6 DEF vars
<1> QED
  BY <1>1, <1>2, <1>3, <1>4, <1>5, <1>6 DEF Next, Inside, Boot, OnEvent, OnResult, OnFailure

LEMMA LedgerStep == ASSUME Base, [Next]_vars PROVE P!Ledger!Next \/ UNCHANGED calls
<1>1. CASE UNCHANGED calls BY <1>1
<1>2. CASE \E o \in Owner : BootLedger(o)
  BY <1>2, LedgerOperations DEF BootLedger, P!Ledger!Next
<1>3. CASE SettleRequest
  <2>1. request.run \in Run
    BY <1>3, NullIsApart DEF SettleRequest, Base, TypeOK, StagesAgree, Admission
  <2> QED BY <1>3, <2>1, LedgerOperations DEF SettleRequest, P!Ledger!Next
<1>4. CASE ReserveCall \/ CompleteCall \/ SettleResult
  <2>1. monitor # None /\ (ReserveCall \/ CompleteCall => callback = "recorded")
    BY <1>4 DEF ReserveCall, CompleteCall, SettleResult, Base, StagesAgree
  <2>2. monitor.job \in Run /\ monitor.note \in Note \cup {None}
    BY <2>1, ExecTypes DEF Base, Exec!Task
  <2>3. CASE SettleResult BY <2>2, <2>3, LedgerOperations DEF SettleResult, P!Ledger!Next
  <2>4. CASE ReserveCall \/ CompleteCall
    <3>1. monitor.note.type \in {"before_llm", "after_llm"}
      BY <2>4 DEF ReserveCall, CompleteCall
    <3>2. monitor.note # None
      BY <2>1, <2>4 DEF Base, StagesAgree, P!ExecInv, P!ThreadsAgree, P!WorkerIsPlain
    <3>3. /\ monitor.note.call \in Call /\ monitor.note.amount \in Amount \cup {None}
          /\ monitor.note.type = "before_llm" => monitor.note.amount \in Amount
      BY <2>2, <3>1, <3>2 DEF Note
    <3>4. CASE ReserveCall
      BY <2>2, <3>3, <3>4, LedgerOperations DEF ReserveCall, P!Ledger!Next
    <3>5. CASE CompleteCall
      BY <2>2, <3>3, <3>5, LedgerOperations DEF CompleteCall, P!Ledger!Next
    <3> QED BY <2>4, <3>4, <3>5
  <2> QED BY <1>4, <2>3, <2>4
<1>5. CASE SettleFailure
  <2>1. rec # None /\ rec.stage = "notify" BY <1>5 DEF SettleFailure, Base, StagesAgree
  <2>2. rec.job \in Run BY <2>1, ExecTypes DEF Base
  <2> QED BY <1>5, <2>2, LedgerOperations DEF SettleFailure, P!Ledger!Next
<1> QED BY <1>1, <1>2, <1>3, <1>4, <1>5, LedgerCases

\* The service implements the ledger: whatever its callbacks, its crashes and its restarts
\* do, the file changes only by the operations of the ledger.
THEOREM ImplementsLedger == Spec => P!Ledger!Spec
<1>1. Init => P!Ledger!Init BY DEF Init, Ledger!Init, P!Ledger!Init
<1>2. Base /\ [Next]_vars => [P!Ledger!Next]_calls BY LedgerStep
<1> QED BY <1>1, <1>2, ProcessAgrees, PTL DEF Spec, P!Ledger!Spec

\* The ledger of a service keeps its type.
THEOREM LedgerTyped == Spec => []Ledger!TypeOK
<1>1. P!Ledger!Spec => []P!Ledger!TypeOK BY P!LedgerType, BudgetAssumed
<1>2. P!Ledger!TypeOK => Ledger!TypeOK BY DEF P!Ledger!TypeOK, Ledger!TypeOK, P!Ledger!CallRow,
                                              Ledger!CallRow
<1> QED BY <1>1, <1>2, ImplementsLedger, PTL

\* Whatever a service does later, a restart included, a settled call keeps its charge and a
\* reservation its amount.
THEOREM ChargesStand == Spec => [][\A x \in Run \X Call : Ledger!Keeps(x)]_calls
<1>1. P!Ledger!Spec => P!SettledOnce BY P!ChargesStand, BudgetAssumed
<1>2. P!SettledOnce => [][\A x \in Run \X Call : Ledger!Keeps(x)]_calls
  <2>1. (\A x \in Run \X Call : P!Ledger!Keeps(x)) => \A x \in Run \X Call : Ledger!Keeps(x)
    BY DEF P!Ledger!Keeps, Ledger!Keeps
  <2> QED BY <2>1, PTL DEF P!SettledOnce
<1> QED BY <1>1, <1>2, ImplementsLedger, PTL

-----------------------------------------------------------------------------
(* Calls: what a model call costs *)

\* The input of a model call, and its reservation: what the call costs as long as no usage
\* has been reported.
Asks(n) == n # None /\ n.type = "before_llm"
Reserved(r, c) == calls[r, c] # None /\ calls[r, c].actual = calls[r, c].reserved

\* A worker goes to the provider only with a reservation, also when its process is gone.
CallsAreReserved ==
  /\ P!Granted /\ Asks(worker.note) => Reserved(worker.job, worker.note.call)
  /\ monitor # None /\ monitor.stage = "ack" /\ Asks(monitor.note) =>
       Reserved(monitor.job, monitor.note.call)
  /\ orphan.st = "acked" /\ Asks(orphan.note) => Reserved(orphan.job, orphan.note.call)

\* A worker that was left behind works for no run of the process that followed.
OrphanIsForeign ==
  orphan.st = "acked" =>
    /\ orphan.job \in Run /\ orphan.note \in Note
    /\ runs[orphan.job].owner \notin {None, owner}

\* A worker tells what the provider has charged it, if anything, until the ledger has it.
Bills(r, n) == n # None /\ n.type = "after_llm" => n.amount \in {None, billed[r, n.call]}
BillsAreTold ==
  /\ wire # None /\ wire.kind = "event" => Bills(wire.job, wire.note)
  /\ monitor # None /\ monitor.stage = "event" => Bills(monitor.job, monitor.note)

\* Every call of a run with a row in the ledger, or about to get one, was audited.
Audits(r) == {i \in DOMAIN log[r] : log[r][i].kind = "audit"}
Told(r) == {c \in Call :
  \/ calls[r, c] # None
  \/ callback = "recorded" /\ monitor.job = r /\ Asks(monitor.note) /\ monitor.note.call = c}
AuditsLead == \A r \in Run : Cardinality(Told(r)) <= Cardinality(Audits(r))

Paid ==
  /\ CallsAreReserved /\ OrphanIsForeign /\ BillsAreTold /\ CallsArePaidFor /\ AuditsLead

\* What the process is busy with is its own.
LEMMA BusyWithOwn ==
  ASSUME Base, HeldRunsAreOwn
  PROVE  /\ monitor # None => /\ monitor.job \in Run /\ runs[monitor.job].owner = owner
                              /\ owner \in Owner /\ monitor.note \in Note \cup {None}
         /\ P!Granted => /\ worker.job \in Run /\ runs[worker.job].owner = owner
                         /\ worker.note \in Note /\ monitor = None /\ ~ P!Spoken
         /\ wire # None /\ wire.kind = "event" =>
              /\ P!Spoken /\ wire.job \in Run /\ runs[wire.job].owner = owner /\ wire.note \in Note
<1>1. monitor # None => /\ monitor.job \in Run /\ runs[monitor.job].owner = owner
                        /\ owner \in Owner /\ monitor.note \in Note \cup {None}
  BY ExecTypes, OwnerServes DEF Base, Exec!Task, HeldRunsAreOwn, Doing
<1>2. ASSUME P!Granted
      PROVE  /\ worker.job \in Run /\ runs[worker.job].owner = owner
             /\ worker.note \in Note /\ monitor = None /\ ~ P!Spoken
  <2>1. /\ worker.job \in Run /\ worker.job = P!SlotJob /\ worker.note \in Note
        /\ monitor = None /\ ~ P!Spoken
    BY <1>2, P!GrantedFacts, ExecApart DEF Base
  <2>2. Doing(worker.job) BY <2>1 DEF P!SlotJob, Doing
  <2> QED BY <2>1, <2>2 DEF HeldRunsAreOwn
<1>3. ASSUME wire # None, wire.kind = "event"
      PROVE  P!Spoken /\ wire.job \in Run /\ runs[wire.job].owner = owner /\ wire.note \in Note
  <2>1. P!Spoken BY <1>3 DEF P!Spoken
  <2>2. wire.job \in Run /\ wire.job = P!SlotJob /\ wire.note \in Note
    BY <1>3, <2>1, P!SpokenFacts, ExecApart DEF Base
  <2>3. Doing(wire.job) BY <2>2 DEF P!SlotJob, Doing
  <2> QED BY <2>1, <2>2, <2>3 DEF HeldRunsAreOwn
<1> QED BY <1>1, <1>2, <1>3

-----------------------------------------------------------------------------
(* What the steps do to a call *)

\* A callback that has recorded its event is about a model call.
LEMMA RecordedFacts ==
  ASSUME Base, callback = "recorded"
  PROVE  /\ monitor # None /\ monitor.stage = "event" /\ monitor.job \in Run
         /\ monitor.note \in Note /\ monitor.note # None /\ monitor.note.call \in Call
         /\ monitor.note.type \in {"before_llm", "after_llm"}
<1>1. monitor # None /\ monitor.stage = "event" /\ monitor.note.type \in {"before_llm", "after_llm"}
  BY DEF Base, StagesAgree
<1>2. monitor.job \in Run /\ monitor.note \in Note \cup {None} BY <1>1, ExecTypes
  DEF Base, Exec!Task
<1>3. monitor.note # None BY <1>1 DEF Base, P!ExecInv, P!ThreadsAgree, P!WorkerIsPlain
<1> QED BY <1>1, <1>2, <1>3 DEF Note

\* A row stays, with its reservation; it comes with its reservation as the cost, and the
\* cost changes only when the usage is reported.
LEMMA RowMoves ==
  ASSUME Base, P!Ledger!TypeOK, [Next]_vars, NEW x \in Run \X Call
  PROVE  /\ calls[x] # None =>
              /\ calls'[x] # None /\ calls'[x].reserved = calls[x].reserved
              /\ \/ calls'[x].actual = calls[x].actual
                 \/ /\ CompleteCall /\ x = <<monitor.job, monitor.note.call>>
                    /\ calls'[x].actual = monitor.note.amount /\ monitor.note.amount # None
         /\ calls[x] = None /\ calls'[x] # None =>
              ReserveCall /\ x = <<monitor.job, monitor.note.call>>
         /\ ReserveCall /\ x = <<monitor.job, monitor.note.call>> /\ calls' # calls =>
              calls'[x] # None /\ calls'[x].actual = calls'[x].reserved
<1>0. calls[x] # None => calls[x] \in P!Ledger!CallRow BY DEF P!Ledger!TypeOK
<1>1. \A row \in P!Ledger!CallRow : row # None BY BudgetAssumed DEF P!Ledger!BudgetAssumption
<1>2. CASE UNCHANGED calls BY <1>2
<1>3. ASSUME NEW S, P!Ledger!Charge(S), ~ ReserveCall
      PROVE  /\ calls[x] # None =>
                  /\ calls'[x] # None /\ calls'[x].reserved = calls[x].reserved
                  /\ calls'[x].actual = calls[x].actual
             /\ calls[x] = None => calls'[x] = None
  <2>1. calls'[x] = IF calls[x] # None /\ x[1] \in S
                    THEN [calls[x] EXCEPT !.status = "completed"] ELSE calls[x]
    BY <1>3 DEF P!Ledger!Charge
  <2>2. ASSUME NEW row \in P!Ledger!CallRow
        PROVE  /\ [row EXCEPT !.status = "completed"] \in P!Ledger!CallRow
               /\ [row EXCEPT !.status = "completed"].reserved = row.reserved
               /\ [row EXCEPT !.status = "completed"].actual = row.actual
    BY DEF P!Ledger!CallRow
  <2> QED BY <1>0, <1>1, <2>1, <2>2
<1>4. CASE ReserveCall
  <2>1. callback = "recorded" BY <1>4 DEF ReserveCall
  <2> DEFINE y == <<monitor.job, monitor.note.call>>
             row == [status |-> "reserved", reserved |-> monitor.note.amount,
                     actual |-> monitor.note.amount]
  <2>2. y \in Run \X Call BY <2>1, RecordedFacts
  <2>3. monitor.note.amount \in Amount BY <1>4, <2>1, RecordedFacts DEF ReserveCall, Note
  <2>4. row \in P!Ledger!CallRow /\ row.actual = row.reserved BY <2>3 DEF P!Ledger!CallRow
  <2>5. CASE ~ UNCHANGED calls
    <3>1. calls[y] = None /\ calls' = [calls EXCEPT ![y] = row]
      BY <1>4, <2>5 DEF ReserveCall, Ledger!Reserve, Ledger!Reservable
    <3>2. ~ CompleteCall BY <1>4 DEF ReserveCall, CompleteCall
    <3> HIDE DEF row, y
    <3>3. calls' = [calls EXCEPT ![y] = row] /\ calls \in [Run \X Call -> P!Ledger!CallRow \cup {None}]
      BY <3>1 DEF P!Ledger!TypeOK
    <3>4. (x = y => calls'[x] = row) /\ (x # y => calls'[x] = calls[x]) BY <2>2, <3>3
    <3> QED BY <1>1, <1>4, <2>4, <3>1, <3>4 DEF y
  <2> QED BY <1>2, <2>5
<1>5. CASE CompleteCall
  <2>1. callback = "recorded" BY <1>5 DEF CompleteCall
  <2> DEFINE y == <<monitor.job, monitor.note.call>>
             u == monitor.note.amount
             row == [calls[y] EXCEPT !.status = "completed",
                                     !.actual = IF u = None THEN calls[y].actual ELSE u]
  <2>2. y \in Run \X Call BY <2>1, RecordedFacts
  <2>3. ~ ReserveCall BY <1>5 DEF ReserveCall, CompleteCall
  <2>4. CASE calls[y] # None /\ calls[y].status = "reserved"
    <3>1. calls[y] \in P!Ledger!CallRow BY <2>2, <2>4 DEF P!Ledger!TypeOK
    <3>2. calls' = [calls EXCEPT ![y] = row]
      <4> DEFINE once == [calls EXCEPT ![y].status = "completed"]
      <4>1. calls' = [once EXCEPT ![y].actual = IF u = None THEN @ ELSE u]
        BY <1>5, <2>4, Zenon DEF CompleteCall, Ledger!Complete
      <4>2. once = [calls EXCEPT ![y] = [calls[y] EXCEPT !.status = "completed"]] OBVIOUS
      <4>3. y \in DOMAIN calls BY <2>2 DEF P!Ledger!TypeOK
      <4> QED BY <4>1, <4>2, <4>3, <3>1 DEF P!Ledger!CallRow, P!Ledger!TypeOK
    <3>3. row.reserved = calls[y].reserved /\ row.actual = IF u = None THEN calls[y].actual ELSE u
      BY <3>1 DEF P!Ledger!CallRow
    <3>4. row \in P!Ledger!CallRow
      <4>1. u \in Amount \cup {None} BY <2>1, RecordedFacts DEF Note
      <4> QED BY <3>1, <4>1, P!SettledRow
    <3> HIDE DEF row, y, u
    <3>5. (x = y => calls'[x] = row) /\ (x # y => calls'[x] = calls[x])
      BY <2>2, <3>2 DEF P!Ledger!TypeOK
    <3> QED BY <1>1, <1>5, <2>3, <2>4, <3>3, <3>4, <3>5 DEF y, u
  <2>5. CASE ~ (calls[y] # None /\ calls[y].status = "reserved")
    BY <1>2, <1>5, <2>5, Zenon DEF CompleteCall, Ledger!Complete
  <2> QED BY <2>4, <2>5
<1>6. CASE (\E o \in Owner : BootLedger(o)) \/ SettleRequest \/ SettleResult \/ SettleFailure
  <2>1. ~ ReserveCall
    <3>1. ReserveCall => UNCHANGED <<boot, request, notice>> /\ callback = "recorded"
      BY DEF ReserveCall
    <3> QED BY <1>6, <3>1 DEF BootLedger, SettleRequest, SettleResult, SettleFailure, Base,
                              StagesAgree, NothingRuns
  <2>2. \E S : P!Ledger!Charge(S)
    BY <1>6 DEF BootLedger, SettleRequest, SettleResult, SettleFailure, Ledger!Recover,
                Ledger!FailRun, Ledger!Charge, P!Ledger!Charge
  <2> QED BY <1>3, <2>1, <2>2
<1> QED BY <1>2, <1>4, <1>5, <1>6, LedgerCases

\* The provider charges the call of a worker that may proceed, or of one left behind.
LEMMA BilledMoves ==
  ASSUME Base, [Next]_vars
  PROVE  \/ UNCHANGED <<orphan, billed>>
         \/ UNCHANGED <<calls, runs, billed>> /\ orphan' = worker /\ owner # None /\ owner' = None
         \/ WorkerProceeds \/ OrphanProceeds
<1>1. CASE Inside BY <1>1, InsideMoves DEF here
<1>2. CASE Crash \/ Exit BY <1>2 DEF Crash, Exit, Stop, repo
<1>3. CASE Boot \/ OnEvent \/ OnResult \/ OnFailure
  BY <1>3 DEF Boot, BootLedger, BootRows, BootExecutor, OnEvent, OnResult, RecordEvent, RejectEvent,
              ReserveCall, CompleteCall, BeginResult, EndResult, FailLate, ResultFails,
              SettleResult, OnFailure, NotifyFailure, SettleFailure, NotifyFails, here
<1>4. CASE Request
  BY <1>4, Zenon DEF Request, AdmitRun, SubmitRun, SubmitFails, FailRequest, FailRequestFails,
                     SettleRequest
<1>5. CASE LeftTransaction \/ Accept \/ CloseBegins \/ (Worker /\ ~ WorkerProceeds)
           \/ \E s \in Run : RowDeadlinePasses(s) \/ JobDeadlinePasses(s)
  BY <1>5 DEF LeftTransaction, Accept, ReplayRun, CheckRun, RefuseRun, CloseBegins, Worker,
              WorkerEmits, WorkerReports, ExecutorStep, RowDeadlinePasses, JobDeadlinePasses, here
<1>6. CASE UNCHANGED vars BY <1>6 DEF vars, here
<1> QED BY <1>1, <1>2, <1>3, <1>4, <1>5, <1>6 DEF Next, Inside

LEMMA ChargedCalls ==
  ASSUME Base, OrphanIsForeign, [Next]_vars, NEW x \in Run \X Call, billed'[x] # billed[x]
  PROVE  /\ UNCHANGED calls
         /\ \/ P!Granted /\ Asks(worker.note) /\ x = <<worker.job, worker.note.call>>
            \/ orphan.st = "acked" /\ Asks(orphan.note) /\ x = <<orphan.job, orphan.note.call>>
<1>1. ASSUME NEW w, Calls(w)
      PROVE  w.note.type = "before_llm" /\ x = <<w.job, w.note.call>>
  <2>1. CASE w.note.type = "before_llm"
    <3>1. PICK u \in Amount \cup {None} : billed' = [billed EXCEPT ![<<w.job, w.note.call>>] = u]
      BY <1>1, <2>1 DEF Calls
    <3> QED BY <2>1, <3>1 DEF Base, TypeOK
  <2>2. CASE w.note.type # "before_llm" BY <1>1, <2>2 DEF Calls
  <2> QED BY <2>1, <2>2
<1>2. CASE WorkerProceeds
  <2>1. P!Granted /\ Calls(worker) /\ UNCHANGED calls BY <1>2 DEF WorkerProceeds, P!Granted
  <2>2. worker.note # None BY <2>1, P!GrantedFacts, ExecApart, NullIsApart DEF Base
  <2> QED BY <1>1, <2>1, <2>2 DEF Asks
<1>3. CASE OrphanProceeds
  <2>1. orphan.st = "acked" /\ Calls(orphan) /\ UNCHANGED calls BY <1>3 DEF OrphanProceeds
  <2>2. orphan.note # None BY <2>1, NullIsApart DEF OrphanIsForeign
  <2> QED BY <1>1, <2>1, <2>2 DEF Asks
<1> QED BY <1>2, <1>3, BilledMoves

\* The monitor leaves an event by its callback, or with its process.
LEMMA EventEnds ==
  ASSUME Base, [Next]_vars, monitor # None, monitor.stage = "event"
  PROVE  \/ monitor' = monitor
         \/ RecordEvent \/ RejectEvent \/ ReserveCall \/ CompleteCall
         \/ monitor' = None
<1>1. CASE Inside BY <1>1, InsideMoves
<1>2. CASE Crash \/ Exit BY <1>2 DEF Crash, Exit, Stop
<1>3. CASE OnResult
  <2>1. CASE UNCHANGED exec BY <2>1 DEF exec
  <2>2. CASE Exec!ResultRefused \/ Exec!ResultHandled BY <2>2
    DEF Exec!ResultRefused, Exec!ResultHandled
  <2> QED
    BY <1>3, <2>1, <2>2 DEF OnResult, BeginResult, EndResult, FailLate, ResultFails, SettleResult
<1>4. CASE OnFailure
  BY <1>4 DEF OnFailure, NotifyFailure, SettleFailure, NotifyFails, Exec!RecycleNotifies, exec
<1>5. CASE Boot \/ Request \/ CloseBegins
  <2>1. UNCHANGED monitor
    BY <1>5, Zenon DEF Boot, BootLedger, BootRows, BootExecutor, Exec!Start, Request, AdmitRun,
                       SubmitRun, Exec!Submit, SubmitFails, FailRequest, FailRequestFails,
                       SettleRequest, CloseBegins, Exec!CloseBegins, exec
  <2> QED BY <2>1
<1>6. CASE WorkerEmits \/ WorkerProceeds \/ WorkerReports
  <2>1. UNCHANGED monitor
    BY <1>6, Zenon DEF WorkerEmits, WorkerProceeds, WorkerReports, Exec!WorkerEmits,
                       Exec!WorkerProceeds, Exec!WorkerReports
  <2> QED BY <2>1
<1>7. CASE LeftTransaction \/ Accept \/ OrphanProceeds
           \/ \E s \in Run : RowDeadlinePasses(s) \/ JobDeadlinePasses(s)
  BY <1>7 DEF LeftTransaction, Accept, ReplayRun, CheckRun, RefuseRun, OrphanProceeds,
     RowDeadlinePasses, JobDeadlinePasses, Exec!DeadlinePasses, exec
<1>8. CASE UNCHANGED vars BY <1>8 DEF vars, exec
<1> QED BY <1>1, <1>2, <1>3, <1>4, <1>5, <1>6, <1>7, <1>8 DEF Next, Inside, Worker, OnEvent

\* An event gets into the pipe when the worker emits it.
LEMMA WireMoves ==
  ASSUME Base, [Next]_vars, wire' # None, wire'.kind = "event"
  PROVE  UNCHANGED wire \/ WorkerEmits
<1> USE DEF Exec!pipes
<1>1. CASE Inside
  <2>1. CASE Sender BY <2>1 DEF Sender, ExecutorStep, Exec!SenderStarts, Exec!SenderSends
  <2>2. CASE Monitor
    BY <2>2 DEF Monitor, ExecutorStep, Exec!Monitor, Exec!MonitorTakes, Exec!MonitorAcks,
                Exec!MonitorClears, Exec!MonitorRecycles
  <2>3. CASE Watchdog \/ Close
    BY <2>3 DEF Watchdog, Close, ExecutorStep, Exec!WatchSees, Exec!WatchRecycles, Exec!CloseWaits,
                Exec!CloseRecycles
  <2>4. CASE Recycle
    BY <2>4 DEF Recycle, ExecutorStep, Exec!RecycleKills, Exec!RecycleRespawns, Exec!Spawn
  <2>5. CASE ExecutorStep(Exec!WorkerReady \/ Exec!WorkerTakes \/ Exec!WorkerResumes \/ Exec!WorkerDies)
    BY <2>5 DEF ExecutorStep, Exec!WorkerReady, Exec!WorkerTakes, Exec!WorkerResumes,
                Exec!WorkerDies
  <2> QED BY <1>1, <2>1, <2>2, <2>3, <2>4, <2>5 DEF Inside
<1>2. CASE Crash \/ Exit BY <1>2 DEF Crash, Exit, Stop
<1>3. CASE OnEvent \/ OnResult
  <2>1. \/ UNCHANGED exec
        \/ \E code \in {"agent_failure", "budget_exceeded"} :
             Exec!EventAccepted \/ Exec!EventRefused(code) \/ Exec!ResultHandled \/ Exec!ResultRefused
    BY <1>3 DEF OnEvent, OnResult, RecordEvent, RejectEvent, ReserveCall, CompleteCall, BeginResult,
                EndResult, FailLate, ResultFails, SettleResult
  <2> QED BY <2>1, CallbackHands DEF exec
<1>4. CASE OnFailure
  BY <1>4 DEF OnFailure, NotifyFailure, SettleFailure, NotifyFails, Exec!RecycleNotifies, exec
<1>5. CASE Boot \/ CloseBegins
  BY <1>5 DEF Boot, BootLedger, BootRows, BootExecutor, Exec!Start, Exec!Spawn, CloseBegins,
              Exec!CloseBegins, exec
<1>6. CASE Request
  BY <1>6, Zenon DEF Request, AdmitRun, SubmitRun, Exec!Submit, SubmitFails, FailRequest,
                     FailRequestFails, SettleRequest, exec
<1>7. CASE WorkerProceeds \/ WorkerReports
  BY <1>7 DEF WorkerProceeds, WorkerReports, Exec!WorkerProceeds, Exec!WorkerReports
<1>8. CASE LeftTransaction \/ Accept \/ OrphanProceeds
           \/ \E s \in Run : RowDeadlinePasses(s) \/ JobDeadlinePasses(s)
  BY <1>8 DEF LeftTransaction, Accept, ReplayRun, CheckRun, RefuseRun, OrphanProceeds,
     RowDeadlinePasses, JobDeadlinePasses, Exec!DeadlinePasses, exec
<1>9. CASE UNCHANGED vars BY <1>9 DEF vars, exec
<1> QED BY <1>1, <1>2, <1>3, <1>4, <1>5, <1>6, <1>7, <1>8, <1>9 DEF Next, Inside, Worker

LEMMA RecordsOnly ==
  ASSUME Base, [Next]_vars, callback' = "recorded"
  PROVE  callback = "recorded" \/ RecordEvent
<1>1. CASE Inside BY <1>1, InsideMoves DEF here
<1>2. CASE Boot \/ Request \/ OnResult \/ OnFailure
  <2>1. UNCHANGED callback \/ callback' # "recorded"
    BY <1>2, Zenon DEF Boot, BootLedger, BootRows, BootExecutor, Request, AdmitRun, SubmitRun,
                       SubmitFails,
       FailRequest, FailRequestFails, SettleRequest, OnResult, BeginResult, EndResult, FailLate,
       ResultFails, SettleResult, OnFailure, NotifyFailure, SettleFailure, NotifyFails, here
  <2> QED BY <2>1
<1>3. CASE Crash \/ Exit BY <1>3 DEF Crash, Exit, Stop
<1>4. CASE RejectEvent \/ ReserveCall \/ CompleteCall
  BY <1>4 DEF RejectEvent, ReserveCall, CompleteCall, here
<1>5. CASE LeftTransaction \/ Accept \/ OrphanProceeds \/ CloseBegins \/ Worker
           \/ \E s \in Run : RowDeadlinePasses(s) \/ JobDeadlinePasses(s)
  BY <1>5 DEF LeftTransaction, Accept, ReplayRun, CheckRun, RefuseRun, OrphanProceeds, CloseBegins,
     Worker, WorkerEmits, WorkerProceeds, WorkerReports, ExecutorStep, RowDeadlinePasses,
     JobDeadlinePasses, here
<1>6. CASE UNCHANGED vars BY <1>6 DEF vars, here
<1> QED BY <1>1, <1>2, <1>3, <1>4, <1>5, <1>6 DEF Next, Inside, OnEvent

\* An event is stored before its callback goes on; it stays with the monitor until then.
LEMMA RecordingMoves ==
  ASSUME Base, [Next]_vars, callback' = "recorded"
  PROVE  \/ callback = "recorded" /\ monitor' = monitor
         \/ /\ callback # "recorded" /\ monitor' = monitor /\ UNCHANGED calls
            /\ monitor # None /\ Repo!RecordEvent(owner, monitor.job, "audit")
<1>1. CASE RecordEvent
  <2>1. monitor.note.type # "node" BY <1>1, BaseStep DEF RecordEvent
  <2> QED BY <1>1, <2>1 DEF RecordEvent, Handling, exec
<1>2. CASE callback = "recorded" /\ ~ RecordEvent
  <2>1. monitor # None /\ monitor.stage = "event" BY <1>2, RecordedFacts
  <2>2. ~ RejectEvent BY <1>2 DEF RejectEvent
  <2>3. ~ ReserveCall /\ ~ CompleteCall BY DEF ReserveCall, CompleteCall
  <2>4. monitor' # None BY BaseStep DEF Base, StagesAgree
  <2> QED BY <1>2, <2>1, <2>2, <2>3, <2>4, EventEnds
<1> QED BY <1>1, <1>2, RecordsOnly

-----------------------------------------------------------------------------
(* What is paid for is an invariant *)

\* A reservation stands until the usage of its call is reported.
LEMMA ReservationsStand ==
  ASSUME Base, P!Ledger!TypeOK, [Next]_vars, NEW r \in Run, NEW c \in Call, Reserved(r, c),
         monitor # None /\ monitor.stage = "event" => monitor.job # r
  PROVE  Reserved(r, c)'
<1>1. ~ (CompleteCall /\ <<r, c>> = <<monitor.job, monitor.note.call>>)
  <2>1. CompleteCall => monitor # None /\ monitor.stage = "event"
    BY RecordedFacts DEF CompleteCall
  <2> QED BY <2>1
<1>2. <<r, c>> \in Run \X Call OBVIOUS
<1> QED BY <1>1, <1>2, RowMoves DEF Reserved

LEMMA NotesAsk == \A n \in Note \cup {None} : Asks(n) => n.call \in Call
BY DEF Asks, Note

\* A call is acknowledged once it is reserved.
LEMMA AckIsReserved ==
  ASSUME Base, P!Ledger!TypeOK, [Next]_vars, monitor # None, monitor.stage = "event",
         monitor' # None,
         monitor'.stage = "ack", Asks(monitor.note),
         NEW r \in Run, NEW c \in Call, r = monitor.job, c = monitor.note.call
  PROVE  Reserved(r, c)'
<1>1. monitor' # monitor OBVIOUS
<1>2. RecordEvent \/ RejectEvent \/ ReserveCall \/ CompleteCall BY <1>1, EventEnds
<1>3. ~ RecordEvent BY <1>1 DEF RecordEvent, Asks, exec
<1>4. ~ RejectEvent
  <2>1. "agent_failure" \in Exec!Code BY DEF Exec!Code
  <2>2. RejectEvent => Exec!MonitorMoves("recycle", "agent_failure")
    BY DEF RejectEvent, Exec!EventRefused
  <2> QED BY <2>1, <2>2, MonitorHands
<1>5. ~ CompleteCall BY DEF CompleteCall, Asks
<1>6. ReserveCall BY <1>2, <1>3, <1>4, <1>5
<1>7. ~ Exec!EventRefused("budget_exceeded")
  <2>1. "budget_exceeded" \in Exec!Code BY DEF Exec!Code
  <2>2. Exec!EventRefused("budget_exceeded") => Exec!MonitorMoves("recycle", "budget_exceeded")
    BY DEF Exec!EventRefused
  <2> QED BY <2>1, <2>2, MonitorHands
<1>8. Ledger!Reserve(r, c, monitor.note.amount) BY <1>6, <1>7, Zenon DEF ReserveCall
<1>9. calls' # calls
  <2> DEFINE row == [status |-> "reserved", reserved |-> monitor.note.amount,
                     actual |-> monitor.note.amount]
  <2>1. calls[r, c] = None /\ calls' = [calls EXCEPT ![<<r, c>>] = row]
    BY <1>8, Zenon DEF Ledger!Reserve, Ledger!Reservable
  <2>2. row # None
    <3>1. monitor.note.amount \in Amount
      BY ExecTypes DEF Base, Exec!Task, Asks, Note
    <3>2. row \in P!Ledger!CallRow BY <3>1 DEF P!Ledger!CallRow
    <3> QED BY <3>2, BudgetAssumed DEF P!Ledger!BudgetAssumption
  <2> HIDE DEF row
  <2> QED BY <2>1, <2>2 DEF P!Ledger!TypeOK
<1>10. <<r, c>> \in Run \X Call OBVIOUS
<1> QED BY <1>6, <1>9, <1>10, RowMoves DEF Reserved

LEMMA ReservedStep ==
  ASSUME Base, P!Ledger!TypeOK, [Next]_vars, HeldRunsAreOwn, OrphanIsForeign, CallsAreReserved
  PROVE  CallsAreReserved'
<1> USE DEF CallsAreReserved
<1>1. ASSUME P!Granted, Asks(worker.note),
             NEW r \in Run, NEW c \in Call, r = worker.job, c = worker.note.call
      PROVE  Reserved(r, c)'
  <2>1. monitor = None BY <1>1, BusyWithOwn
  <2>2. Reserved(r, c) BY <1>1
  <2> QED BY <2>1, <2>2, ReservationsStand
<1>2. ASSUME monitor # None, monitor.stage = "ack", Asks(monitor.note),
             NEW r \in Run, NEW c \in Call, r = monitor.job, c = monitor.note.call
      PROVE  Reserved(r, c)'
  <2>1. Reserved(r, c) BY <1>2
  <2> QED BY <1>2, <2>1, ReservationsStand
<1>3. ASSUME orphan.st = "acked", Asks(orphan.note),
             NEW r \in Run, NEW c \in Call, r = orphan.job, c = orphan.note.call
      PROVE  Reserved(r, c)'
  <2>1. Reserved(r, c) BY <1>3
  <2>2. monitor # None => monitor.job # r BY <1>3, BusyWithOwn DEF OrphanIsForeign
  <2> QED BY <2>1, <2>2, ReservationsStand
<1>4. ASSUME P!Granted', Asks(worker'.note) PROVE Reserved(worker.job, worker.note.call)'
  <2>1. \/ P!Granted /\ worker'.job = worker.job /\ worker'.note = worker.note
        \/ /\ monitor # None /\ monitor.stage = "ack"
           /\ worker'.job = monitor.job /\ worker'.note = monitor.note
    <3>1. CASE P!ExecStep BY <1>4, <3>1, P!GrantMoves, ExecApart DEF Base
    <3>2. CASE UNCHANGED exec BY <1>4, <3>2 DEF exec, P!Granted
    <3>3. CASE P!Lost BY <1>4, <3>3 DEF P!Lost, P!Granted, P!Exec!NoWorker
    <3> QED BY <3>1, <3>2, <3>3, ExecutorMoves DEF Base
  <2>2. worker'.job \in Run /\ worker'.note.call \in Call
    BY <1>4, <2>1, BusyWithOwn, NotesAsk
  <2>3. \A r \in Run, c \in Call : r = worker'.job /\ c = worker'.note.call => Reserved(r, c)'
    BY <1>1, <1>2, <1>4, <2>1
  <2> QED BY <2>2, <2>3 DEF Reserved
<1>5. ASSUME monitor' # None, monitor'.stage = "ack", Asks(monitor'.note)
      PROVE  Reserved(monitor.job, monitor.note.call)'
  <2>1. /\ monitor # None /\ monitor'.job = monitor.job /\ monitor'.note = monitor.note
        /\ monitor.stage \in {"event", "ack"}
    <3>1. CASE P!ExecStep BY <1>5, <3>1, P!EventMoves, ExecApart DEF Base
    <3>2. CASE UNCHANGED exec BY <1>5, <3>2 DEF exec
    <3>3. CASE P!Lost BY <1>5, <3>3 DEF P!Lost
    <3> QED BY <3>1, <3>2, <3>3, ExecutorMoves DEF Base
  <2>2. monitor'.job \in Run /\ monitor'.note.call \in Call BY <1>5, <2>1, BusyWithOwn, NotesAsk
  <2>3. \A r \in Run, c \in Call : r = monitor'.job /\ c = monitor'.note.call => Reserved(r, c)'
    BY <1>2, <1>5, <2>1, AckIsReserved
  <2> QED BY <2>2, <2>3 DEF Reserved
<1>6. ASSUME orphan'.st = "acked", Asks(orphan'.note)
      PROVE  Reserved(orphan.job, orphan.note.call)'
  <2>1. \/ orphan' = orphan \/ orphan' = worker BY <1>6, BilledMoves
    DEF WorkerProceeds, OrphanProceeds, Exec!NoWorker
  <2>2. orphan' = worker => P!Granted BY <1>6 DEF P!Granted
  <2>3. orphan'.job \in Run /\ orphan'.note.call \in Call
    BY <1>6, <2>1, <2>2, BusyWithOwn, NotesAsk DEF OrphanIsForeign
  <2>4. \A r \in Run, c \in Call : r = orphan'.job /\ c = orphan'.note.call => Reserved(r, c)'
    BY <1>1, <1>3, <1>6, <2>1, <2>2
  <2> QED BY <2>3, <2>4 DEF Reserved
<1> QED BY <1>4, <1>5, <1>6 DEF Asks

LEMMA ForeignStep ==
  ASSUME Base, P!IInv, [Next]_vars, IncarnationsAreFresh, HeldRunsAreOwn, OrphanIsForeign
  PROVE  OrphanIsForeign'
<1> SUFFICES ASSUME orphan'.st = "acked"
             PROVE  /\ orphan'.job \in Run /\ orphan'.note \in Note
                    /\ runs'[orphan'.job].owner \notin {None, owner'}
  BY DEF OrphanIsForeign
<1>1. CASE orphan' = orphan
  <2>1. orphan.job \in Run /\ orphan.note \in Note /\ runs[orphan.job].owner \notin {None, owner}
    BY <1>1 DEF OrphanIsForeign
  <2>2. runs'[orphan.job].owner = runs[orphan.job].owner BY <2>1, RowsStay
  <2>3. runs[orphan.job].owner \in started BY <2>1 DEF IncarnationsAreFresh
  <2> QED BY <1>1, <2>1, <2>2, <2>3, OwnerMoves
<1>2. CASE UNCHANGED runs /\ orphan' = worker /\ owner # None /\ owner' = None
  <2>1. P!Granted BY <1>2 DEF P!Granted
  <2>2. worker.job \in Run /\ worker.note \in Note /\ runs[worker.job].owner = owner
    BY <2>1, BusyWithOwn
  <2> QED BY <1>2, <2>2
<1> QED BY <1>1, <1>2, BilledMoves DEF WorkerProceeds, OrphanProceeds, Exec!NoWorker

LEMMA BillsStep ==
  ASSUME Base, [Next]_vars, HeldRunsAreOwn, OrphanIsForeign, BillsAreTold
  PROVE  BillsAreTold'
<1>1. ASSUME NEW r \in Run, NEW n \in Note, Bills(r, n), runs[r].owner = owner, ~ P!Granted
      PROVE  Bills(r, n)'
  <2>1. CASE n.type = "after_llm"
    <3>1. n.call \in Call BY <2>1 DEF Note
    <3>2. <<r, n.call>> \in Run \X Call BY <3>1
    <3>3. billed'[r, n.call] = billed[r, n.call]
      BY <1>1, <3>2, ChargedCalls DEF OrphanIsForeign
    <3> QED BY <1>1, <3>3 DEF Bills
  <2>2. CASE n.type # "after_llm" BY <2>2 DEF Bills
  <2> QED BY <2>1, <2>2
<1>2. ASSUME wire # None, wire.kind = "event",
             NEW r \in Run, NEW n \in Note, r = wire.job, n = wire.note
      PROVE  Bills(r, n)'
  <2>1. runs[r].owner = owner /\ P!Spoken BY <1>2, BusyWithOwn
  <2>2. ~ P!Granted BY <2>1, BusyWithOwn
  <2>3. Bills(r, n) BY <1>2 DEF BillsAreTold
  <2> QED BY <1>1, <2>1, <2>2, <2>3
<1>3. ASSUME monitor # None, monitor.stage = "event",
             NEW r \in Run, NEW n \in Note, r = monitor.job, n = monitor.note
      PROVE  Bills(r, n)'
  <2>1. runs[r].owner = owner /\ ~ P!Granted BY <1>3, BusyWithOwn
  <2>2. Bills(r, n) BY <1>3 DEF BillsAreTold
  <2> QED BY <1>1, <2>1, <2>2
<1>4. ASSUME wire' # None, wire'.kind = "event" PROVE Bills(wire.job, wire.note)'
  <2>1. CASE UNCHANGED wire
    <3>1. wire # None /\ wire.kind = "event" BY <1>4, <2>1
    <3>2. wire.job \in Run /\ wire.note \in Note BY <3>1, BusyWithOwn
    <3>3. \A r \in Run, n \in Note : r = wire.job /\ n = wire.note => Bills(r, n)' BY <1>2, <3>1
    <3> QED BY <2>1, <3>2, <3>3 DEF Bills
  <2>2. CASE WorkerEmits
    <3>1. PICK n \in Note : Emittable(n) /\ Exec!WorkerEmits(n) BY <2>2 DEF WorkerEmits
    <3>2. wire'.job = worker.job /\ wire'.note = n /\ billed' = billed
      BY <2>2, <3>1 DEF WorkerEmits, Exec!WorkerEmits, here
    <3>3. n.type = "after_llm" => n.amount \in {None, billed[worker.job, n.call]}
      BY <3>1 DEF Emittable
    <3> QED BY <3>2, <3>3 DEF Bills
  <2> QED BY <1>4, <2>1, <2>2, WireMoves
<1>5. ASSUME monitor' # None, monitor'.stage = "event" PROVE Bills(monitor.job, monitor.note)'
  <2>1. \/ monitor' = monitor
        \/ wire # None /\ wire.kind = "event" /\ monitor'.job = wire.job /\ monitor'.note = wire.note
    <3>1. CASE P!ExecStep BY <1>5, <3>1, P!EventMoves, ExecApart DEF Base
    <3>2. CASE UNCHANGED exec BY <3>2 DEF exec
    <3>3. CASE P!Lost BY <1>5, <3>3 DEF P!Lost
    <3> QED BY <3>1, <3>2, <3>3, ExecutorMoves DEF Base
  <2>2. monitor'.job \in Run /\ monitor'.note \in Note
    <3>1. CASE monitor' = monitor
      <4>1. monitor.note # None
        BY <1>5, <3>1 DEF Base, P!ExecInv, P!ThreadsAgree, P!WorkerIsPlain
      <4> QED BY <1>5, <3>1, <4>1, BusyWithOwn
    <3> QED BY <2>1, <3>1, BusyWithOwn
  <2>3. \A r \in Run, n \in Note : r = monitor'.job /\ n = monitor'.note => Bills(r, n)'
    BY <1>2, <1>3, <1>5, <2>1
  <2> QED BY <2>2, <2>3 DEF Bills
<1> QED BY <1>4, <1>5 DEF BillsAreTold, Bills

LEMMA PaidForStep ==
  ASSUME Base, P!Ledger!TypeOK, [Next]_vars, CallsAreReserved, OrphanIsForeign, BillsAreTold,
         CallsArePaidFor
  PROVE  CallsArePaidFor'
<1> SUFFICES ASSUME NEW x \in Run \X Call, billed'[x] # None
             PROVE  calls'[x] # None /\ calls'[x].actual \in {billed'[x], calls'[x].reserved}
  BY DEF CallsArePaidFor
<1>1. CASE billed'[x] = billed[x]
  <2>1. calls[x] # None /\ calls[x].actual \in {billed[x], calls[x].reserved}
    BY <1>1 DEF CallsArePaidFor
  <2>2. CASE calls'[x].actual = calls[x].actual BY <1>1, <2>1, <2>2, RowMoves
  <2>3. CASE /\ CompleteCall /\ x = <<monitor.job, monitor.note.call>>
             /\ calls'[x].actual = monitor.note.amount /\ monitor.note.amount # None
    <3>1. monitor # None /\ monitor.stage = "event" /\ monitor.note # None
      BY <2>3, RecordedFacts DEF CompleteCall
    <3>2. monitor.note.amount = billed[x]
      BY <2>3, <3>1 DEF BillsAreTold, Bills, CompleteCall
    <3> QED BY <1>1, <2>1, <2>3, <3>2, RowMoves
  <2> QED BY <2>1, <2>2, <2>3, RowMoves
<1>2. CASE billed'[x] # billed[x]
  BY <1>2, ChargedCalls DEF CallsAreReserved, Reserved
<1> QED BY <1>1, <1>2

\* The audit of a call is written before the call gets its row.
LEMMA AuditsStep ==
  ASSUME Base, P!Ledger!TypeOK, P!IInv, P!IInv', [Next]_vars, AuditsLead
  PROVE  AuditsLead'
<1> SUFFICES ASSUME NEW r \in Run
             PROVE  (Cardinality(Told(r)) <= Cardinality(Audits(r)))'
  BY DEF AuditsLead
<1>1. Audits(r) \subseteq Audits(r)' /\ IsFiniteSet(Audits(r)')
  <2>1. /\ DOMAIN log[r] \subseteq DOMAIN log'[r]
        /\ \A i \in DOMAIN log[r] : log'[r][i] = log[r][i]
    <3>1. CASE UNCHANGED repo BY <3>1 DEF repo
    <3>2. CASE P!Next
      <4>1. [P!Next]_(P!vars) /\ P!TypeOK /\ P!ResultIsOwned BY <3>2 DEF P!IInv
      <4> QED BY <4>1, P!LogsGrow, RepoAssumed
    <3> QED BY <3>1, <3>2, RepositoryStep
  <2>2. log'[r] \in Seq(P!Event) BY DEF P!IInv, P!TypeOK
  <2>3. Audits(r)' \subseteq 1..Len(log'[r]) /\ Len(log'[r]) \in Nat BY <2>2 DEF Audits
  <2>4. IsFiniteSet(1..Len(log'[r]))
    <3>1. 1 \in Int /\ Len(log'[r]) \in Int BY <2>3
    <3> QED BY <3>1, FS_Interval
  <2>5. IsFiniteSet(Audits(r)') BY <2>3, <2>4, FS_Subset
  <2> QED BY <2>1, <2>5 DEF Audits
<1>2. IsFiniteSet(Told(r)) /\ IsFiniteSet(Told(r)')
  <2>1. IsFiniteSet(Call)
    BY BudgetAssumed, Zenon DEF P!Ledger!BudgetAssumption, P!Ledger!IsFiniteSet, IsFiniteSet
  <2>2. Told(r) \subseteq Call /\ Told(r)' \subseteq Call BY DEF Told
  <2> QED BY <2>1, <2>2, FS_Subset
<1>3. Cardinality(Told(r)) <= Cardinality(Audits(r)) BY DEF AuditsLead
<1>4. ASSUME NEW c \in Call, calls[r, c] = None, calls'[r, c] # None PROVE c \in Told(r)
  <2>1. ReserveCall /\ <<r, c>> = <<monitor.job, monitor.note.call>>
    <3>1. <<r, c>> \in Run \X Call OBVIOUS
    <3> QED BY <1>4, <3>1, RowMoves
  <2>2. callback = "recorded" /\ Asks(monitor.note)
    BY <2>1, RecordedFacts DEF ReserveCall, Asks
  <2> QED BY <2>1, <2>2 DEF Told
<1>5. CASE callback' = "recorded" => callback = "recorded" /\ monitor' = monitor
  <2>1. Told(r)' \subseteq Told(r)
    BY <1>4, <1>5 DEF Told, Asks
  <2>2. Cardinality(Told(r)') <= Cardinality(Told(r)) BY <1>2, <2>1, FS_Subset
  <2>3. Cardinality(Audits(r)) <= Cardinality(Audits(r)') BY <1>1, FS_Subset
  <2> QED BY <1>1, <1>2, <1>3, <2>2, <2>3, FS_CardinalityType, FS_Subset
<1>6. CASE /\ callback # "recorded" /\ monitor' = monitor /\ UNCHANGED calls
           /\ monitor # None /\ Repo!RecordEvent(owner, monitor.job, "audit")
  <2>1. CASE monitor.job # r
    <3>1. Told(r)' \subseteq Told(r) BY <1>6, <2>1 DEF Told
    <3>2. Cardinality(Told(r)') <= Cardinality(Told(r)) BY <1>2, <3>1, FS_Subset
    <3>3. Cardinality(Audits(r)) <= Cardinality(Audits(r)') BY <1>1, FS_Subset
    <3> QED BY <1>1, <1>2, <1>3, <3>2, <3>3, FS_CardinalityType, FS_Subset
  <2>2. CASE monitor.job = r
    <3>1. Told(r)' \subseteq Told(r) \cup {monitor.note.call} BY <1>6 DEF Told
    <3>2. Len(log[r]) + 1 \in Audits(r)' \ Audits(r)
      <4>1. log[r] \in Seq(P!Event) BY DEF P!IInv, P!TypeOK
      <4>2. log'[r] = Repo!Extend(log[r], <<"audit">>, owner)
        BY <1>6, <2>2 DEF Repo!RecordEvent, P!IInv, P!TypeOK
      <4>3. log'[r] = log[r] \o [i \in 1..1 |-> [kind |-> <<"audit">>[i], by |-> owner]]
        BY <4>2 DEF Repo!Extend
      <4>4. Len(log[r]) + 1 \in DOMAIN log'[r] /\ log'[r][Len(log[r]) + 1].kind = "audit"
        BY <4>1, <4>3
      <4> QED BY <4>1, <4>4 DEF Audits
    <3>3. Cardinality(Told(r)') <= Cardinality(Told(r)) + 1
      <4>1. IsFiniteSet(Told(r) \cup {monitor.note.call})
            /\ Cardinality(Told(r) \cup {monitor.note.call}) <= Cardinality(Told(r)) + 1
        <5> DEFINE S == Told(r)
        <5>1. IsFiniteSet(S) BY <1>2
        <5>2. Cardinality(S) \in Nat BY <5>1, FS_CardinalityType
        <5>3. /\ IsFiniteSet(S \cup {monitor.note.call})
              /\ Cardinality(S \cup {monitor.note.call})
                 = IF monitor.note.call \in S THEN Cardinality(S) ELSE Cardinality(S) + 1
          BY <5>1, FS_AddElement
        <5> HIDE DEF S
        <5>4. /\ IsFiniteSet(S \cup {monitor.note.call})
              /\ Cardinality(S \cup {monitor.note.call}) <= Cardinality(S) + 1
          BY <5>2, <5>3
        <5> QED BY <5>4 DEF S
      <4> QED BY <1>2, <3>1, <4>1, FS_Subset, FS_CardinalityType
    <3>4. Cardinality(Audits(r)) + 1 <= Cardinality(Audits(r)')
      <4>1. IsFiniteSet(Audits(r)) BY <1>1, FS_Subset
      <4>2. Cardinality(Audits(r) \cup {Len(log[r]) + 1}) = Cardinality(Audits(r)) + 1
        BY <3>2, <4>1, FS_AddElement
      <4>3. Audits(r) \cup {Len(log[r]) + 1} \subseteq Audits(r)' BY <1>1, <3>2
      <4> QED BY <1>1, <4>2, <4>3, FS_Subset
    <3> QED BY <1>1, <1>2, <1>3, <3>3, <3>4, FS_CardinalityType, FS_Subset
  <2> QED BY <2>1, <2>2
<1> QED BY <1>5, <1>6, RecordingMoves

LEMMA PaidInit == Init => Paid
<1> SUFFICES ASSUME Init PROVE Paid OBVIOUS
<1>1. /\ worker = Exec!NoWorker /\ orphan = Exec!NoWorker /\ monitor = None /\ wire = None
      /\ callback = "none" /\ billed = [x \in Run \X Call |-> None]
      /\ calls = [x \in Run \X Call |-> None] /\ \A r \in Run : log[r] = <<>>
  BY DEF Init, Exec!Init, HereInit, Ledger!Init, Repo!Init
<1>2. CallsAreReserved /\ OrphanIsForeign /\ BillsAreTold
  BY <1>1 DEF CallsAreReserved, OrphanIsForeign, BillsAreTold, Exec!NoWorker, P!Granted
<1>3. CallsArePaidFor BY <1>1 DEF CallsArePaidFor
<1>4. ASSUME NEW r \in Run PROVE Cardinality(Told(r)) <= Cardinality(Audits(r))
  <2>1. Told(r) = {} BY <1>1 DEF Told
  <2>2. DOMAIN log[r] = {}
    <3>1. log[r] = <<>> BY <1>1
    <3>2. DOMAIN <<>> = {} OBVIOUS
    <3> QED BY <3>1, <3>2
  <2>3. Audits(r) = {} BY <2>2 DEF Audits
  <2> QED BY <2>1, <2>3, FS_EmptySet
<1> QED BY <1>2, <1>3, <1>4 DEF Paid, AuditsLead

LEMMA PaidStep ==
  ASSUME Base, P!IInv, P!IInv', Charge, P!Ledger!TypeOK, Paid, [Next]_vars
  PROVE  Paid'
<1>1. IncarnationsAreFresh /\ HeldRunsAreOwn BY DEF Charge, Hands
<1>2. CallsAreReserved /\ OrphanIsForeign /\ BillsAreTold /\ CallsArePaidFor /\ AuditsLead
  BY DEF Paid
<1>3. CallsAreReserved' /\ OrphanIsForeign' BY <1>1, <1>2, ReservedStep, ForeignStep
<1>4. BillsAreTold' /\ CallsArePaidFor' BY <1>1, <1>2, BillsStep, PaidForStep
<1>5. AuditsLead' BY <1>2, AuditsStep
<1> QED BY <1>3, <1>4, <1>5 DEF Paid

\* What a provider has charged has a row, and so an audit.
LEMMA PaidAudited == ASSUME P!IInv, Paid PROVE CallsAreAudited
<1> SUFFICES ASSUME NEW r \in Run
             PROVE  Cardinality({c \in Call : billed[r, c] # None}) <= Cardinality(Audits(r))
  BY DEF CallsAreAudited, Audits
<1> DEFINE Charged == {c \in Call : billed[r, c] # None}
<1>1. Charged \subseteq Told(r) /\ Told(r) \subseteq Call
  BY DEF Paid, CallsArePaidFor, Told
<1>2. IsFiniteSet(Call)
  BY BudgetAssumed, Zenon DEF P!Ledger!BudgetAssumption, P!Ledger!IsFiniteSet, IsFiniteSet
<1>3. IsFiniteSet(Told(r)) /\ IsFiniteSet(Charged) BY <1>1, <1>2, FS_Subset
<1>4. Cardinality(Charged) <= Cardinality(Told(r)) BY <1>1, <1>3, FS_Subset
<1>5. Cardinality(Told(r)) <= Cardinality(Audits(r)) BY DEF Paid, AuditsLead
<1>6. Cardinality(Charged) \in Nat /\ Cardinality(Told(r)) \in Nat BY <1>3, FS_CardinalityType
<1>7. Cardinality(Audits(r)) \in Nat
  <2>1. log[r] \in Seq(P!Event) BY DEF P!IInv, P!TypeOK
  <2>2. Audits(r) \subseteq 1..Len(log[r]) /\ Len(log[r]) \in Int /\ 1 \in Int BY <2>1 DEF Audits
  <2>3. IsFiniteSet(1..Len(log[r])) BY <2>2, FS_Interval
  <2>4. IsFiniteSet(Audits(r)) BY <2>2, <2>3, FS_Subset
  <2> QED BY <2>4, FS_CardinalityType
<1> HIDE DEF Charged
<1>8. Cardinality(Charged) <= Cardinality(Audits(r)) BY <1>4, <1>5, <1>6, <1>7
<1> QED BY <1>8, Zenon DEF Charged

-----------------------------------------------------------------------------
(* The layers together *)

ServiceInv == Base /\ P!IInv /\ Charge /\ P!StopInv /\ Paid

LEMMA ServiceInit == Init => ServiceInv
<1>1. Init => P!IInv BY RepositoryInit, P!InvInit, RepoAssumed
<1>2. Init => P!StopInv
  <2>1. Init => P!Ledger!Init BY DEF Init, Ledger!Init, P!Ledger!Init
  <2> QED BY <2>1, P!StopInit, BudgetAssumed
<1> QED BY <1>1, <1>2, BaseInit, ChargeInit, PaidInit DEF ServiceInv

LEMMA ServiceStep == ASSUME ServiceInv, [Next]_vars PROVE ServiceInv'
<1>1. Base /\ P!IInv /\ Charge /\ P!StopInv /\ Paid BY DEF ServiceInv
<1>2. P!IInv'
  <2>1. [P!Next]_(P!vars) BY <1>1, RepositoryStep DEF P!vars, repo
  <2> QED BY <1>1, <2>1, P!InvStep, RepoAssumed
<1>3. P!StopInv'
  <2>1. P!Ledger!Next \/ UNCHANGED calls BY <1>1, LedgerStep
  <2>2. P!Ledger!TypeOK BY <1>1 DEF P!StopInv
  <2>3. CASE P!Ledger!Next
    <3>1. P!Ledger!TypeOK' BY <2>2, <2>3, P!LedgerTypeStep, BudgetAssumed
    <3> QED BY <1>1, <2>3, <3>1, P!StopStep, BudgetAssumed
  <2>4. CASE UNCHANGED calls BY <1>1, <2>4, P!StopStutter, BudgetAssumed
  <2> QED BY <2>1, <2>3, <2>4
<1>4. Base' BY <1>1, BaseStep
<1>5. Charge' BY <1>1, ChargeStep
<1>6. P!Ledger!TypeOK BY <1>1 DEF P!StopInv
<1>7. Paid' BY <1>1, <1>2, <1>6, PaidStep
<1> QED BY <1>2, <1>3, <1>4, <1>5, <1>7 DEF ServiceInv

\* What the invariant says of the types.
LEMMA ServiceTypes == ASSUME ServiceInv PROVE TypeOK /\ Exec!TypeOK /\ Ledger!TypeOK
<1>1. P!Exec!TypeOK /\ TypeOK BY DEF ServiceInv, Base, P!ExecInv
<1>2. Exec!TypeOK
  BY <1>1, Zenon
  DEF P!Exec!TypeOK, Exec!TypeOK, P!Exec!Task, Exec!Task, P!Exec!Reply, Exec!Reply, P!Exec!Code,
      Exec!Code, P!Exec!Sighting, Exec!Sighting, P!Exec!Recycling, Exec!Recycling,
      P!Exec!WorkerState, Exec!WorkerState, P!Exec!Sending, Exec!Sending
<1>3. Ledger!TypeOK BY DEF ServiceInv, P!StopInv, P!Ledger!TypeOK, Ledger!TypeOK, P!Ledger!CallRow,
                           Ledger!CallRow
<1> QED BY <1>1, <1>2, <1>3

LEMMA ServiceAccounts ==
  ASSUME ServiceInv PROVE CallsArePaidFor /\ CallsAreAudited /\ Ledger!HardStop
<1>1. CallsArePaidFor /\ CallsAreAudited BY PaidAudited DEF ServiceInv, Paid
<1>2. P!Ledger!HardStop BY P!StopHolds, BudgetAssumed DEF ServiceInv, P!StopInv
<1>3. Ledger!HardStop
  BY <1>2, Zenon
  DEF P!Ledger!HardStop, Ledger!HardStop, P!Ledger!Total, Ledger!Total, P!Ledger!Cost, Ledger!Cost,
      P!Ledger!Excess, Ledger!Excess, P!Ledger!MapThenSumSet, Ledger!MapThenSumSet,
      P!Ledger!MapThenFoldSet, Ledger!MapThenFoldSet
<1> QED BY <1>1, <1>3

LEMMA ServiceKeeps ==
  ASSUME ServiceInv, [Next]_vars PROVE \A x \in Run \X Call : Ledger!Keeps(x)
<1>1. P!Ledger!TypeOK /\ Base BY DEF ServiceInv, P!StopInv
<1>2. P!Ledger!Next \/ UNCHANGED calls BY <1>1, LedgerStep
<1>3. CASE P!Ledger!Next BY <1>1, <1>3, P!RowSteps, BudgetAssumed DEF Ledger!Keeps
<1>4. CASE UNCHANGED calls BY <1>4 DEF Ledger!Keeps
<1> QED BY <1>2, <1>3, <1>4

\* Over every crash, restart, lost answer and failure: a model is called only after its
\* input was stored as an event and its cost was reserved, what the provider billed is in
\* the ledger, and the ledger passes its hard stop by no more than what was billed beyond
\* the reservations.
THEOREM CallsAccount == Spec => [](CallsArePaidFor /\ CallsAreAudited /\ Ledger!HardStop)
BY ServiceInit, ServiceStep, ServiceAccounts, PTL DEF Spec
=============================================================================
