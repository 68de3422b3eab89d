--------------------------- MODULE MCDeliveryProofs ---------------------------
(***************************************************************************)
(* The properties of the scenarios of MCDelivery, for any processes, runs, *)
(* keys, calls and workers.  Every scenario is an instance of a module the *)
(* other proofs are about, with constants of its own: what is proved of    *)
(* the module holds in the scenario, once the two instances are shown to   *)
(* take the same steps.                                                    *)
(***************************************************************************)
EXTENDS MCDelivery, DeliveryServiceProofs

-----------------------------------------------------------------------------
(* The executor and the ledger by themselves *)

X == INSTANCE DeliveryPartsProofs WITH
  Score <- {}, LegacyThread <- Thread, LegacyRun <- {}, Months <- 1,
  Job <- PlainJob, Note <- PlainNote, Fault <- {"death", "spawn", "event", "result"},
  MaxWorkers <- 3,
  PaidRun <- LedgerRun, Call <- LedgerCall, Amount <- {0, 1, 3}, Historical <- 1, Limit <- 6

LEMMA AlsoAssumed == X!RepositoryAssumption /\ X!NullAssumption
<1>1. X!RepositoryAssumption
  BY ServiceAssumption
     DEF Repo!RepositoryAssumption, X!RepositoryAssumption, Repo!IsFiniteSet, X!IsFiniteSet
<1>2. X!NullAssumption
  BY ServiceAssumption
     DEF Repo!NullAssumption, X!NullAssumption, Repo!Receipt, X!Receipt, Repo!Result, X!Result,
         Repo!Operation, X!Operation, Repo!Resource, X!Resource
<1> QED BY <1>1, <1>2

USE AlsoAssumed, RepoAssumed

LEMMA ExecutorApart == X!Apart
BY PartsAssumption
   DEF X!Apart, X!Exec!ExecutorAssumption, X!Exec!NullAssumption, Executor!ExecutorAssumption,
       Executor!NullAssumption, X!Exec!Faults, Executor!Faults, X!Exec!Code, Executor!Code,
       X!Exec!Reply, Executor!Reply, X!Exec!Task, Executor!Task, X!Exec!Sighting, Executor!Sighting,
       X!Exec!Recycling, Executor!Recycling

\* A step of the executor by itself is one its proofs are about.
LEMMA ExecutorTakesSteps == Executor!Next => X!ExecStep
<1> USE DEF Executor!pipes, X!Exec!pipes
<1>1. /\ Executor!Start => X!Exec!Start
      /\ Executor!CloseBegins => X!Exec!CloseBegins
      /\ Executor!CloseWaits => X!Exec!CloseWaits
      /\ Executor!CloseRecycles => X!Exec!CloseRecycles
  BY DEF Executor!Start, X!Exec!Start, Executor!Spawn, X!Exec!Spawn, Executor!NewWorker,
         X!Exec!NewWorker, Executor!CloseBegins, X!Exec!CloseBegins, Executor!CloseWaits,
         X!Exec!CloseWaits, Executor!CloseRecycles, X!Exec!CloseRecycles
<1>2. ASSUME NEW j \in PlainJob
      PROVE  /\ Executor!Submit(j) => X!Exec!Submit(j)
             /\ Executor!DeadlinePasses(j) => X!Exec!DeadlinePasses(j)
  BY DEF Executor!Submit, X!Exec!Submit, Executor!Submittable, X!Exec!Submittable, Executor!Ready,
         X!Exec!Ready, Executor!DeadlinePasses, X!Exec!DeadlinePasses
<1>3. ASSUME NEW s \in senders
      PROVE  /\ Executor!SenderStarts(s) => X!Exec!SenderStarts(s)
             /\ Executor!SenderSends(s) => X!Exec!SenderSends(s)
  BY DEF Executor!SenderStarts, X!Exec!SenderStarts, Executor!Sendable, X!Exec!Sendable,
         Executor!SenderSends, X!Exec!SenderSends, Executor!Recycles, X!Exec!Recycles
<1>4. Executor!Worker => X!Exec!Worker
  <2>1. /\ Executor!WorkerReady => X!Exec!WorkerReady
        /\ Executor!WorkerTakes => X!Exec!WorkerTakes
        /\ Executor!WorkerResumes => X!Exec!WorkerResumes
        /\ Executor!WorkerDies => X!Exec!WorkerDies
        /\ Executor!WorkerProceeds => X!Exec!WorkerProceeds
    BY DEF Executor!WorkerReady, X!Exec!WorkerReady, Executor!WorkerTakes, X!Exec!WorkerTakes,
           Executor!WorkerResumes, X!Exec!WorkerResumes, Executor!WorkerDies, X!Exec!WorkerDies,
           Executor!WorkerProceeds, X!Exec!WorkerProceeds, Executor!NoWorker, X!Exec!NoWorker
  <2>2. ASSUME NEW n \in PlainNote PROVE Executor!WorkerEmits(n) => X!Exec!WorkerEmits(n)
    BY DEF Executor!WorkerEmits, X!Exec!WorkerEmits
  <2>3. ASSUME NEW kind \in {"result", "failure"}
        PROVE  Executor!WorkerReports(kind) => X!Exec!WorkerReports(kind)
    BY DEF Executor!WorkerReports, X!Exec!WorkerReports
  <2> QED BY <2>1, <2>2, <2>3 DEF Executor!Worker, X!Exec!Worker
<1>5. Executor!Monitor => X!Exec!Monitor
  BY DEF Executor!Monitor, X!Exec!Monitor, Executor!MonitorTakes, X!Exec!MonitorTakes,
         Executor!Busy, X!Exec!Busy, Executor!MonitorAcks, X!Exec!MonitorAcks, Executor!Sendable,
         X!Exec!Sendable, Executor!MonitorClears, X!Exec!MonitorClears, Executor!MonitorRecycles,
         X!Exec!MonitorRecycles, Executor!Recycles, X!Exec!Recycles
<1>6. /\ Executor!EventAccepted => X!Exec!EventAccepted
      /\ Executor!ResultHandled => X!Exec!ResultHandled
      /\ Executor!ResultRefused => X!Exec!ResultRefused
  BY DEF Executor!EventAccepted, X!Exec!EventAccepted, Executor!ResultHandled, X!Exec!ResultHandled,
         Executor!ResultRefused, X!Exec!ResultRefused, Executor!MonitorMoves, X!Exec!MonitorMoves
<1>7. ASSUME NEW code \in {"agent_failure", "budget_exceeded"}
      PROVE  Executor!EventRefused(code) => X!Exec!EventRefused(code)
  BY DEF Executor!EventRefused, X!Exec!EventRefused, Executor!MonitorMoves, X!Exec!MonitorMoves
<1>8. /\ Executor!WatchSees => X!Exec!WatchSees
      /\ Executor!WatchRecycles => X!Exec!WatchRecycles
  BY DEF Executor!WatchSees, X!Exec!WatchSees, Executor!WatchRecycles, X!Exec!WatchRecycles,
         Executor!Recycles, X!Exec!Recycles
<1>9. /\ Executor!RecycleKills => X!Exec!RecycleKills
      /\ Executor!RecycleNotifies => X!Exec!RecycleNotifies
      /\ Executor!RecycleRespawns => X!Exec!RecycleRespawns
      /\ Executor!RespawnFails => X!Exec!RespawnFails
  BY DEF Executor!RecycleKills, X!Exec!RecycleKills, Executor!RecycleNotifies,
         X!Exec!RecycleNotifies, Executor!RecycleRespawns, X!Exec!RecycleRespawns,
         Executor!RespawnFails, X!Exec!RespawnFails, Executor!Spawn, X!Exec!Spawn,
         Executor!NewWorker, X!Exec!NewWorker, Executor!NoWorker, X!Exec!NoWorker
<1>10. Executor!Callback =>
         \/ X!Exec!EventAccepted \/ X!Exec!ResultHandled \/ X!Exec!ResultRefused
         \/ \E code \in {"agent_failure", "budget_exceeded"} : X!Exec!EventRefused(code)
  BY <1>6, <1>7 DEF Executor!Callback
<1>11. Executor!Recycle => X!Exec!Recycle BY <1>9 DEF Executor!Recycle, X!Exec!Recycle
<1> HIDE DEF Executor!pipes, X!Exec!pipes
<1> QED
  BY <1>1, <1>2, <1>3, <1>4, <1>5, <1>8, <1>9, <1>10, <1>11 DEF Executor!Next, X!ExecStep

LEMMA CostsAssumed == X!Ledger!BudgetAssumption
BY PartsAssumption, ZenonT(60)
   DEF Costs!BudgetAssumption, X!Ledger!BudgetAssumption, Costs!IsFiniteSet, X!Ledger!IsFiniteSet,
       Costs!CallRow, X!Ledger!CallRow

\* The two instances take the same steps.
LEMMA CostsTakeSteps == Costs!Next => X!Ledger!Next
BY ZenonT(60)
   DEF Costs!Next, X!Ledger!Next, Costs!Reserve, X!Ledger!Reserve, Costs!Reservable,
       X!Ledger!Reservable, Costs!Complete, X!Ledger!Complete, Costs!FailRun, X!Ledger!FailRun,
       Costs!Recover, X!Ledger!Recover, Costs!Charge, X!Ledger!Charge, Costs!Total, X!Ledger!Total,
       Costs!Cost, X!Ledger!Cost, Costs!MapThenSumSet, X!Ledger!MapThenSumSet, Costs!MapThenFoldSet,
       X!Ledger!MapThenFoldSet

LEMMA CostsHold ==
  ASSUME X!StopInv PROVE Costs!TypeOK /\ Costs!HardStop
<1>1. Costs!TypeOK BY DEF X!StopInv, X!Ledger!TypeOK, Costs!TypeOK, X!Ledger!CallRow, Costs!CallRow
<1>2. X!Ledger!HardStop BY X!StopHolds, CostsAssumed DEF X!StopInv
<1>3. Costs!HardStop
  BY <1>2, ZenonT(60)
  DEF X!Ledger!HardStop, Costs!HardStop, X!Ledger!Total, Costs!Total, X!Ledger!Cost, Costs!Cost,
      X!Ledger!Excess, Costs!Excess,
      X!Ledger!MapThenSumSet, Costs!MapThenSumSet, X!Ledger!MapThenFoldSet, Costs!MapThenFoldSet
<1> QED BY <1>1, <1>3

-----------------------------------------------------------------------------
(* The service over crashes and restarts *)

T == INSTANCE DeliveryServiceProofs WITH
  Owner <- LaterOwner, Run <- LaterRun, Key <- LaterKey, Amount <- {1, 2, 3}, Limit <- 2,
  Fault <- {"death", "database", "crash", "close"}

LEMMA LaterAssumed == T!ServiceAssumption
<1>1. Restarts!Repo!RepositoryAssumption => T!Repo!RepositoryAssumption
  BY ZenonT(60)
  DEF Restarts!Repo!RepositoryAssumption, T!Repo!RepositoryAssumption, Restarts!Repo!IsFiniteSet,
      T!Repo!IsFiniteSet
<1>2. Restarts!Repo!NullAssumption => T!Repo!NullAssumption
  BY ZenonT(60)
  DEF Restarts!Repo!NullAssumption, T!Repo!NullAssumption, Restarts!Repo!Operation,
      T!Repo!Operation, Restarts!Repo!Receipt, T!Repo!Receipt, Restarts!Repo!Resource,
      T!Repo!Resource, Restarts!Repo!Result, T!Repo!Result
<1>3. Restarts!Ledger!BudgetAssumption => T!Ledger!BudgetAssumption
  BY ZenonT(60)
  DEF Restarts!Ledger!BudgetAssumption, T!Ledger!BudgetAssumption, Restarts!Ledger!CallRow,
      T!Ledger!CallRow, Restarts!Ledger!IsFiniteSet, T!Ledger!IsFiniteSet
<1>4. Restarts!Exec!ExecutorAssumption => T!Exec!ExecutorAssumption
  BY ZenonT(60)
  DEF Restarts!Exec!ExecutorAssumption, T!Exec!ExecutorAssumption, Restarts!Exec!Faults,
      T!Exec!Faults, Restarts!Note, T!Note
<1>5. Restarts!Exec!NullAssumption => T!Exec!NullAssumption
  BY ZenonT(60)
  DEF Restarts!Exec!NullAssumption, T!Exec!NullAssumption, Restarts!Exec!Code, T!Exec!Code,
      Restarts!Exec!Recycling, T!Exec!Recycling, Restarts!Exec!Reply, T!Exec!Reply,
      Restarts!Exec!Sighting, T!Exec!Sighting, Restarts!Exec!Task, T!Exec!Task, Restarts!Note,
      T!Note
<1>6. Restarts!Faults = T!Faults /\ Restarts!Admission = T!Admission
  BY ZenonT(60) DEF Restarts!Faults, T!Faults, Restarts!Admission, T!Admission
<1> QED
  BY PartsAssumption, <1>1, <1>2, <1>3, <1>4, <1>5, <1>6, ZenonT(60)
  DEF Restarts!ServiceAssumption, T!ServiceAssumption

LEMMA LaterBegins == Restarts!Init => T!Init
BY ZenonT(60)
   DEF Restarts!Exec!Init, T!Exec!Init, Restarts!Exec!NoWorker, T!Exec!NoWorker, Restarts!HereInit,
   T!HereInit, Restarts!Init, T!Init, Restarts!Ledger!Init, T!Ledger!Init, Restarts!Repo!Init,
   T!Repo!Init, Restarts!Repo!LegacyRow, T!Repo!LegacyRow, Restarts!Repo!Live, T!Repo!Live,
   Restarts!Repo!NoRow, T!Repo!NoRow, Restarts!Repo!Row, T!Repo!Row, Restarts!Repo!Terminal,
   T!Repo!Terminal

\* The two instances take the same steps.
LEMMA LaterTakesSteps == Restarts!Next => T!Next
<1>1. /\ Restarts!Boot => T!Boot
      /\ Restarts!Crash => T!Crash
      /\ Restarts!Exit => T!Exit
      /\ Restarts!LeftTransaction => T!LeftTransaction
  BY ZenonT(60)
  DEF Restarts!Boot, T!Boot, Restarts!BootExecutor, T!BootExecutor, Restarts!BootLedger,
      T!BootLedger, Restarts!BootRows, T!BootRows, Restarts!Crash, T!Crash, Restarts!Exec!NewWorker,
      T!Exec!NewWorker, Restarts!Exec!NoWorker, T!Exec!NoWorker, Restarts!Exec!Spawn, T!Exec!Spawn,
      Restarts!Exec!Start, T!Exec!Start, Restarts!Exit, T!Exit, Restarts!Ledger!Charge,
      T!Ledger!Charge, Restarts!Ledger!Recover, T!Ledger!Recover, Restarts!LeftTransaction,
      T!LeftTransaction, Restarts!Repo!CommitResult, T!Repo!CommitResult, Restarts!Repo!Extend,
      T!Repo!Extend, Restarts!Repo!FailureEvents, T!Repo!FailureEvents, Restarts!Repo!Interrupted,
      T!Repo!Interrupted, Restarts!Repo!IsLive, T!Repo!IsLive, Restarts!Repo!Live, T!Repo!Live,
      Restarts!Repo!LockFree, T!Repo!LockFree, Restarts!Repo!Recover, T!Repo!Recover,
      Restarts!Repo!ResultEvents, T!Repo!ResultEvents, Restarts!Repo!RollBack, T!Repo!RollBack,
      Restarts!Stop, T!Stop, Restarts!exec, T!exec, Restarts!here, T!here, Restarts!repo, T!repo
<1>2. /\ Restarts!Accept => T!Accept
      /\ Restarts!Request => T!Request
  BY ZenonT(60)
  DEF Restarts!Accept, T!Accept, Restarts!AdmitRun, T!AdmitRun, Restarts!CheckRun, T!CheckRun,
      Restarts!Exec!Ready, T!Exec!Ready, Restarts!Exec!Submit, T!Exec!Submit,
      Restarts!Exec!Submittable, T!Exec!Submittable, Restarts!Exec!pipes, T!Exec!pipes,
      Restarts!Fail, T!Fail, Restarts!FailRequest, T!FailRequest, Restarts!FailRequestFails,
      T!FailRequestFails, Restarts!Ledger!Charge, T!Ledger!Charge, Restarts!Ledger!FailRun,
      T!Ledger!FailRun, Restarts!RefuseRun, T!RefuseRun, Restarts!ReplayRun, T!ReplayRun,
      Restarts!Repo!AdmitRun, T!Repo!AdmitRun, Restarts!Repo!Chargeable, T!Repo!Chargeable,
      Restarts!Repo!Extend, T!Repo!Extend, Restarts!Repo!FailureEvents, T!Repo!FailureEvents,
      Restarts!Repo!File, T!Repo!File, Restarts!Repo!Fingerprint, T!Repo!Fingerprint,
      Restarts!Repo!FinishError, T!Repo!FinishError, Restarts!Repo!IsLive, T!Repo!IsLive,
      Restarts!Repo!LegacyReplay, T!Repo!LegacyReplay, Restarts!Repo!Live, T!Repo!Live,
      Restarts!Repo!LockFree, T!Repo!LockFree, Restarts!Repo!LookupRun, T!Repo!LookupRun,
      Restarts!Repo!OwnedBy, T!Repo!OwnedBy, Restarts!Repo!Present, T!Repo!Present,
      Restarts!Repo!Replay, T!Repo!Replay, Restarts!Repo!Replays, T!Repo!Replays,
      Restarts!Repo!SlotFree, T!Repo!SlotFree, Restarts!Repo!Unbound, T!Repo!Unbound,
      Restarts!Request, T!Request, Restarts!Serving, T!Serving, Restarts!SettleRequest,
      T!SettleRequest, Restarts!SubmitFails, T!SubmitFails, Restarts!SubmitRun, T!SubmitRun,
      Restarts!Submittable, T!Submittable, Restarts!exec, T!exec, Restarts!here, T!here,
      Restarts!repo, T!repo
<1>3. /\ Restarts!OnEvent => T!OnEvent
      /\ Restarts!OnResult => T!OnResult
      /\ Restarts!OnFailure => T!OnFailure
  BY ZenonT(60)
  DEF Restarts!BeginResult, T!BeginResult, Restarts!CompleteCall, T!CompleteCall,
      Restarts!EndResult, T!EndResult, Restarts!Exec!EventAccepted, T!Exec!EventAccepted,
      Restarts!Exec!EventRefused, T!Exec!EventRefused, Restarts!Exec!MonitorMoves,
      T!Exec!MonitorMoves, Restarts!Exec!RecycleNotifies, T!Exec!RecycleNotifies,
      Restarts!Exec!ResultHandled, T!Exec!ResultHandled, Restarts!Exec!ResultRefused,
      T!Exec!ResultRefused, Restarts!Exec!pipes, T!Exec!pipes, Restarts!Fail, T!Fail,
      Restarts!FailLate, T!FailLate, Restarts!Fails, T!Fails, Restarts!Handling, T!Handling,
      Restarts!Ledger!Charge, T!Ledger!Charge, Restarts!Ledger!Complete, T!Ledger!Complete,
      Restarts!Ledger!Cost, T!Ledger!Cost, Restarts!Ledger!FailRun, T!Ledger!FailRun,
      Restarts!Ledger!MapThenFoldSet, T!Ledger!MapThenFoldSet, Restarts!Ledger!MapThenSumSet,
      T!Ledger!MapThenSumSet, Restarts!Ledger!Reservable, T!Ledger!Reservable,
      Restarts!Ledger!Reserve, T!Ledger!Reserve, Restarts!Ledger!Total, T!Ledger!Total,
      Restarts!NotifyFails, T!NotifyFails, Restarts!NotifyFailure, T!NotifyFailure,
      Restarts!OnEvent, T!OnEvent, Restarts!OnFailure, T!OnFailure, Restarts!OnResult,
      T!OnResult, Restarts!RecordEvent, T!RecordEvent, Restarts!RejectEvent, T!RejectEvent,
      Restarts!Repo!BeginResult, T!Repo!BeginResult, Restarts!Repo!Cardinality,
      T!Repo!Cardinality, Restarts!Repo!CommitResult, T!Repo!CommitResult,
      Restarts!Repo!Extend, T!Repo!Extend, Restarts!Repo!FailureEvents, T!Repo!FailureEvents,
      Restarts!Repo!FinishError, T!Repo!FinishError, Restarts!Repo!IsLive, T!Repo!IsLive,
      Restarts!Repo!Live, T!Repo!Live, Restarts!Repo!LockFree, T!Repo!LockFree,
      Restarts!Repo!Owned, T!Repo!Owned, Restarts!Repo!OwnedBy, T!Repo!OwnedBy,
      Restarts!Repo!Progress, T!Repo!Progress, Restarts!Repo!ProgressIn, T!Repo!ProgressIn,
      Restarts!Repo!RecordEvent, T!Repo!RecordEvent, Restarts!Repo!ResultEvents,
      T!Repo!ResultEvents, Restarts!Repo!RollBack, T!Repo!RollBack, Restarts!ReserveCall,
      T!ReserveCall, Restarts!ResultFails, T!ResultFails, Restarts!SettleFailure,
      T!SettleFailure, Restarts!SettleResult, T!SettleResult, Restarts!Settles, T!Settles,
      Restarts!exec, T!exec, Restarts!here, T!here, Restarts!repo, T!repo
<1>4. /\ Restarts!Sender => T!Sender
      /\ Restarts!Monitor => T!Monitor
      /\ Restarts!Watchdog => T!Watchdog
  BY ZenonT(60)
  DEF Restarts!Exec!Busy, T!Exec!Busy, Restarts!Exec!Monitor, T!Exec!Monitor,
      Restarts!Exec!MonitorAcks, T!Exec!MonitorAcks, Restarts!Exec!MonitorClears,
      T!Exec!MonitorClears, Restarts!Exec!MonitorRecycles, T!Exec!MonitorRecycles,
      Restarts!Exec!MonitorTakes, T!Exec!MonitorTakes, Restarts!Exec!Recycles, T!Exec!Recycles,
      Restarts!Exec!Sendable, T!Exec!Sendable, Restarts!Exec!SenderSends, T!Exec!SenderSends,
      Restarts!Exec!SenderStarts, T!Exec!SenderStarts, Restarts!Exec!WatchRecycles,
      T!Exec!WatchRecycles, Restarts!Exec!WatchSees, T!Exec!WatchSees, Restarts!Exec!pipes,
      T!Exec!pipes, Restarts!ExecutorStep, T!ExecutorStep, Restarts!Monitor, T!Monitor,
      Restarts!Sender, T!Sender, Restarts!Watchdog, T!Watchdog, Restarts!here, T!here,
      Restarts!repo, T!repo
<1>5. /\ Restarts!Recycle => T!Recycle
      /\ Restarts!CloseBegins => T!CloseBegins
      /\ Restarts!Close => T!Close
  BY ZenonT(60)
  DEF Restarts!Close, T!Close, Restarts!CloseBegins, T!CloseBegins, Restarts!Exec!CloseBegins,
      T!Exec!CloseBegins, Restarts!Exec!CloseRecycles, T!Exec!CloseRecycles,
      Restarts!Exec!CloseWaits, T!Exec!CloseWaits, Restarts!Exec!NewWorker, T!Exec!NewWorker,
      Restarts!Exec!NoWorker, T!Exec!NoWorker, Restarts!Exec!RecycleKills, T!Exec!RecycleKills,
      Restarts!Exec!RecycleRespawns, T!Exec!RecycleRespawns, Restarts!Exec!Spawn, T!Exec!Spawn,
      Restarts!Exec!pipes, T!Exec!pipes, Restarts!ExecutorStep, T!ExecutorStep, Restarts!Recycle,
      T!Recycle, Restarts!Serving, T!Serving, Restarts!here, T!here, Restarts!repo, T!repo
<1>6. /\ Restarts!Worker => T!Worker
      /\ Restarts!OrphanProceeds => T!OrphanProceeds
  BY ZenonT(60)
  DEF Restarts!Calls, T!Calls, Restarts!Cardinality, T!Cardinality, Restarts!Emittable, T!Emittable,
      Restarts!Exec!NoWorker, T!Exec!NoWorker, Restarts!Exec!WorkerDies, T!Exec!WorkerDies,
      Restarts!Exec!WorkerEmits, T!Exec!WorkerEmits, Restarts!Exec!WorkerProceeds,
      T!Exec!WorkerProceeds, Restarts!Exec!WorkerReady, T!Exec!WorkerReady,
      Restarts!Exec!WorkerReports, T!Exec!WorkerReports, Restarts!Exec!WorkerResumes,
      T!Exec!WorkerResumes, Restarts!Exec!WorkerTakes, T!Exec!WorkerTakes, Restarts!Exec!pipes,
      T!Exec!pipes, Restarts!ExecutorStep, T!ExecutorStep, Restarts!Note, T!Note,
      Restarts!OrphanProceeds, T!OrphanProceeds, Restarts!Pending, T!Pending,
      Restarts!Repo!Progress, T!Repo!Progress, Restarts!Repo!ProgressIn, T!Repo!ProgressIn,
      Restarts!Worker, T!Worker, Restarts!WorkerEmits, T!WorkerEmits, Restarts!WorkerProceeds,
      T!WorkerProceeds, Restarts!WorkerReports, T!WorkerReports, Restarts!exec, T!exec,
      Restarts!here, T!here, Restarts!repo, T!repo
<1>7. ASSUME NEW r \in LaterRun
      PROVE  /\ Restarts!RowDeadlinePasses(r) => T!RowDeadlinePasses(r)
             /\ Restarts!JobDeadlinePasses(r) => T!JobDeadlinePasses(r)
  BY ZenonT(60)
  DEF Restarts!Exec!DeadlinePasses, T!Exec!DeadlinePasses, Restarts!Exec!pipes, T!Exec!pipes,
      Restarts!JobDeadlinePasses, T!JobDeadlinePasses, Restarts!Repo!DeadlinePasses,
      T!Repo!DeadlinePasses, Restarts!Repo!IsLive, T!Repo!IsLive, Restarts!Repo!Live,
      T!Repo!Live, Restarts!RowDeadlinePasses, T!RowDeadlinePasses, Restarts!exec, T!exec,
      Restarts!here, T!here, Restarts!repo, T!repo
<1> QED BY <1>1, <1>2, <1>3, <1>4, <1>5, <1>6, <1>7 DEF Restarts!Next, T!Next

LEMMA LaterTyped == T!TypeOK => Restarts!TypeOK
BY ZenonT(60)
   DEF Restarts!Note, T!Note, Restarts!Admission, T!Admission, Restarts!Exec!Code, T!Exec!Code,
      Restarts!Exec!WorkerState, T!Exec!WorkerState, Restarts!Note, T!Note, Restarts!TypeOK,
      T!TypeOK

LEMMA LaterAccounts ==
  ASSUME T!ServiceInv
  PROVE  Restarts!CallsArePaidFor /\ Restarts!CallsAreAudited /\ Restarts!Ledger!HardStop
<1>1. T!CallsArePaidFor /\ T!CallsAreAudited /\ T!Ledger!HardStop
  BY T!ServiceAccounts, LaterAssumed
<1>2. Restarts!CallsArePaidFor /\ Restarts!CallsAreAudited
  BY <1>1, ZenonT(60)
  DEF T!CallsArePaidFor, Restarts!CallsArePaidFor, T!CallsAreAudited, Restarts!CallsAreAudited,
      T!Cardinality, Restarts!Cardinality
<1>3. Restarts!Ledger!HardStop
  BY <1>1, ZenonT(60)
  DEF T!Ledger!HardStop, Restarts!Ledger!HardStop, T!Ledger!Total, Restarts!Ledger!Total,
      T!Ledger!Cost, Restarts!Ledger!Cost, T!Ledger!Excess, Restarts!Ledger!Excess,
      T!Ledger!MapThenSumSet, Restarts!Ledger!MapThenSumSet, T!Ledger!MapThenFoldSet,
      Restarts!Ledger!MapThenFoldSet
<1> QED BY <1>2, <1>3

-----------------------------------------------------------------------------
(* The scenarios *)

\* What the proofs know of each.
Known ==
  /\ Holds("executor", X!ExecInv /\ X!Exec!CausesAreReal)
  /\ Holds("ledger", X!StopInv)
  /\ Holds("service", ServiceInv)
  /\ Holds("restarts", T!ServiceInv)

LEMMA KnownInit == MCInit => Known
<1>1. Executor!Init => X!ExecInv /\ X!Exec!CausesAreReal
  <2>1. Executor!Init => X!Exec!Init BY DEF Executor!Init, X!Exec!Init, Executor!NoWorker,
                                            X!Exec!NoWorker
  <2> QED BY <2>1, X!ExecInvInit, X!CausesInit, ExecutorApart
<1>2. Costs!Init => X!StopInv
  <2>1. Costs!Init => X!Ledger!Init BY DEF Costs!Init, X!Ledger!Init
  <2> QED BY <2>1, X!StopInit, CostsAssumed
<1>3. Restarts!Init => T!ServiceInv BY LaterBegins, T!ServiceInit, LaterAssumed
<1> QED BY <1>1, <1>2, <1>3, ServiceInit DEF MCInit, Known, Holds

\* A step of a scenario is a step its proofs are about.
LEMMA ScenarioSteps ==
  ASSUME [MCNext]_<<vars, scenario>>
  PROVE  /\ UNCHANGED scenario
         /\ Holds("executor", X!ExecStep \/ UNCHANGED vars)
         /\ Holds("ledger", X!Ledger!Next \/ UNCHANGED calls)
         /\ Holds("service", [Next]_vars)
         /\ Holds("restarts", [T!Next]_(T!vars))
<1>1. CASE MCNext
  BY <1>1, ExecutorTakesSteps, CostsTakeSteps, LaterTakesSteps, ZenonT(60) DEF MCNext, Holds
<1>2. CASE UNCHANGED <<vars, scenario>>
  BY <1>2 DEF Holds, vars, here, T!vars, T!here, exec, T!exec, repo, T!repo
<1> QED BY <1>1, <1>2

LEMMA KnownStep == ASSUME Known, [MCNext]_<<vars, scenario>> PROVE Known'
<1>1. UNCHANGED scenario BY ScenarioSteps
<1>2. CASE scenario = "executor" /\ X!ExecStep
  BY <1>1, <1>2, X!ExecInvStep, X!CausesStep, ExecutorApart DEF Known, Holds
<1>3. CASE scenario = "executor" /\ UNCHANGED vars
  <2>1. UNCHANGED X!Exec!vars BY <1>3 DEF vars, exec, X!Exec!vars, X!Exec!pipes
  <2>2. X!ExecInv' BY <1>3, <2>1, X!ExecStutter DEF Known, Holds
  <2>3. X!Exec!CausesAreReal' BY <1>3, <2>1 DEF Known, Holds, X!Exec!CausesAreReal, X!Exec!vars
  <2> QED BY <1>1, <1>3, <2>2, <2>3 DEF Known, Holds
<1>4. CASE scenario = "ledger"
  <2>1. X!StopInv /\ (X!Ledger!Next \/ UNCHANGED calls) BY <1>4, ScenarioSteps DEF Known, Holds
  <2>2. CASE X!Ledger!Next
    <3>1. X!Ledger!TypeOK' BY <2>1, <2>2, X!LedgerTypeStep, CostsAssumed DEF X!StopInv
    <3> QED BY <1>1, <1>4, <2>1, <2>2, <3>1, X!StopStep, CostsAssumed DEF Known, Holds
  <2>3. CASE UNCHANGED calls
    BY <1>1, <1>4, <2>1, <2>3, X!StopStutter, CostsAssumed DEF Known, Holds
  <2> QED BY <2>1, <2>2, <2>3
<1>5. CASE scenario = "service"
  <2>1. ServiceInv /\ [Next]_vars BY <1>5, ScenarioSteps DEF Known, Holds
  <2> QED BY <1>1, <1>5, <2>1, ServiceStep DEF Known, Holds
<1>6. CASE scenario = "restarts"
  <2>1. T!ServiceInv /\ [T!Next]_(T!vars) BY <1>6, ScenarioSteps DEF Known, Holds
  <2> QED BY <1>1, <1>6, <2>1, T!ServiceStep, LaterAssumed DEF Known, Holds
<1>7. CASE scenario \notin {"executor", "ledger", "service", "restarts"}
  BY <1>1, <1>7 DEF Known, Holds
<1> QED BY <1>2, <1>3, <1>4, <1>5, <1>6, <1>7, ScenarioSteps DEF Holds

LEMMA KnownTypes == Known => TypesOK
<1>1. X!ExecInv => Executor!TypeOK
  <2>1. X!ExecInv => X!Exec!TypeOK BY DEF X!ExecInv
  <2> QED
    BY <2>1, ZenonT(60)
    DEF X!Exec!TypeOK, Executor!TypeOK, X!Exec!Task, Executor!Task, X!Exec!Reply, Executor!Reply,
        X!Exec!Code,
        Executor!Code, X!Exec!Sighting, Executor!Sighting, X!Exec!Recycling, Executor!Recycling,
        X!Exec!WorkerState, Executor!WorkerState, X!Exec!Sending, Executor!Sending
<1>2. T!ServiceInv => Restarts!TypeOK BY T!ServiceTypes, LaterAssumed, LaterTyped
<1> QED BY <1>1, <1>2, CostsHold, ServiceTypes DEF Known, Holds, TypesOK

LEMMA KnownServes == Known => SlotIsServed
<1>1. X!ExecInv => X!Exec!WorkerServesTheSlot /\ X!Exec!SlotIsWatched
  BY X!ExecServes, X!ExecWatches, ExecutorApart
<1>2. ServiceInv => P!Exec!WorkerServesTheSlot /\ P!Exec!SlotIsWatched
  BY P!ExecServes, P!ExecWatches, ExecApart DEF ServiceInv, Base
<1> QED
  BY <1>1, <1>2
  DEF Known, Holds, SlotIsServed, X!Exec!WorkerServesTheSlot, X!Exec!SlotIsWatched,
      X!Exec!CausesAreReal,
      Executor!WorkerServesTheSlot, Executor!SlotIsWatched, Executor!CausesAreReal,
      P!Exec!WorkerServesTheSlot, P!Exec!SlotIsWatched, Exec!WorkerServesTheSlot, Exec!SlotIsWatched

-----------------------------------------------------------------------------
(* The theorems *)

\* In every scenario each variable, row, message and note keeps its type.
THEOREM TypesHold == MCSpec => []TypesOK
BY KnownInit, KnownStep, KnownTypes, PTL DEF MCSpec

\* In every scenario the slot has its worker and its deadline is watched, and a failure is
\* the failing job's own.
THEOREM SlotServed == MCSpec => []SlotIsServed
BY KnownInit, KnownStep, KnownServes, PTL DEF MCSpec

\* While no transaction fails, an accepted run that has not ended is in the hands of
\* someone who ends it, no worker computes for a run that has, and a run is reported as
\* timed out only if a deadline passed.
THEOREM RunHandled == ASSUME "database" \notin Fault PROVE MCSpec => []RunIsHandled
<1>1. Known => RunIsHandled
  BY NobodyWorks DEF Known, Holds, RunIsHandled, ServiceInv, Charge, Hands
<1> QED BY <1>1, KnownInit, KnownStep, PTL DEF MCSpec

\* In the service, over its crashes and restarts, and in the ledger by itself: a model is
\* called only after its input was stored as an event and its cost was reserved, what the
\* provider billed is in the ledger, and the ledger passes its hard stop by no more than
\* what was billed beyond the reservations.
THEOREM CallsAccounted == MCSpec => []CallsAreAccounted
<1>1. Known => CallsAreAccounted
  BY ServiceAccounts, LaterAccounts, CostsHold DEF Known, Holds, CallsAreAccounted
<1> QED BY <1>1, KnownInit, KnownStep, PTL DEF MCSpec

\* For any runs and calls: nothing that happens later, a restart included, changes a
\* settled cost.
THEOREM CostsStand == MCSpec => CostsAreSettledOnce
<1>1. ASSUME Known, [MCNext]_<<vars, scenario>>
      PROVE  /\ Holds("ledger", \A x \in LedgerRun \X LedgerCall : Costs!Keeps(x))
             /\ Holds("restarts", \A x \in LaterRun \X Call : Restarts!Ledger!Keeps(x))
  <2>1. ASSUME scenario = "ledger", NEW x \in LedgerRun \X LedgerCall PROVE Costs!Keeps(x)
    <3>1. X!Ledger!TypeOK /\ (X!Ledger!Next \/ UNCHANGED calls)
      BY <1>1, <2>1, ScenarioSteps DEF Known, Holds, X!StopInv
    <3>2. CASE X!Ledger!Next BY <3>1, <3>2, X!RowSteps, CostsAssumed DEF Costs!Keeps
    <3>3. CASE UNCHANGED calls BY <3>3 DEF Costs!Keeps
    <3> QED BY <3>1, <3>2, <3>3
  <2>2. ASSUME scenario = "restarts", NEW x \in LaterRun \X Call PROVE Restarts!Ledger!Keeps(x)
    <3>1. T!ServiceInv /\ [T!Next]_(T!vars) BY <1>1, <2>2, ScenarioSteps DEF Known, Holds
    <3>2. T!Ledger!Keeps(x) BY <3>1, T!ServiceKeeps, LaterAssumed
    <3> QED BY <3>2 DEF T!Ledger!Keeps, Restarts!Ledger!Keeps
  <2> QED BY <2>1, <2>2 DEF Holds
<1>2. Known /\ [MCNext]_<<vars, scenario>>
        => [/\ Holds("ledger", \A x \in LedgerRun \X LedgerCall : Costs!Keeps(x))
            /\ Holds("restarts", \A x \in LaterRun \X Call : Restarts!Ledger!Keeps(x))]_calls
  BY <1>1
<1> QED BY <1>2, KnownInit, KnownStep, PTL DEF MCSpec, CostsAreSettledOnce
=============================================================================
