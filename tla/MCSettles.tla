------------------------------ MODULE MCSettles ------------------------------
(* What the delivery service and the Android client come to in the end, for *)
(* TLC, as scenarios of one run (see MCDelivery and MCClient): the service  *)
(* over crashes and restarts, the executor by itself, following a run, a    *)
(* submission and a verdict.  Variables of one name serve all the modules   *)
(* that have them, the others stay parked.                                  *)
EXTENDS DeliveryService

CONSTANTS
  PlainJob, PlainNote,         \* of the executor by itself
  AppRun, Follower, Flow,      \* of following
  Question, Refused, Memory    \* of submissions and decisions

VARIABLES
  stream, cache, selected, follower, flow, watching, timer, attempts, view,
  suspended, asked, breaks, moves,
  thread, threadOp, runOp, stray, call, creating, drawn, submitted, lost,
  fact, expired, receipt, items, op, verdict,
  scenario

\* Variables that the same scenarios use; log, wire, threads, runs and told are used by
\* the service and by the client.
serving == <<lapsed, receipts, usage, month, started, txn, answers, calls, life, spawned,
             conn, ready, job, due, worker, cmd, senders, monitor, watch, rec, died, here>>
following == <<stream, follower, flow, watching, timer, attempts, suspended, breaks>>
submitting == <<thread, threadOp, runOp, creating, drawn, submitted>>
deciding == <<fact, expired, receipt, items, op, verdict>>
tables == <<cache, selected, asked>>
calling == <<stray, call, lost>>
screen == <<view, moves>>
all == <<vars, following, submitting, deciding, tables, calling, screen, scenario>>

Executor == INSTANCE SpawnExecutor WITH
  Job <- PlainJob, Note <- PlainNote, Fault <- {"death", "result"}, MaxWorkers <- 2
Follow == INSTANCE RunFollowing WITH
  Run <- AppRun, MaxProgress <- 1, Page <- 1, MaxBreaks <- 2, Moves <- {"restore"}, MaxMoves <- 1
Submit == INSTANCE ClientSubmission WITH
  Query <- Question, Call <- {1}, MaxKeys <- 2, MaxLost <- 2, Moves <- {"open", "kill"},
  MaxMoves <- 1
Decide == INSTANCE ClientDecisions WITH
  Call <- {1}, MaxKeys <- 2, MaxLost <- 1, MaxMoves <- 1

ASSUME PartsAssumption ==
  /\ Executor!ExecutorAssumption /\ Executor!NullAssumption
  /\ Follow!FollowingAssumption /\ Submit!SubmissionAssumption /\ Decide!DecisionsAssumption

-----------------------------------------------------------------------------
ServingIsParked ==
  /\ lapsed = None /\ receipts = None /\ usage = None /\ month = None /\ started = None
  /\ txn = None /\ answers = None /\ calls = None /\ life = None /\ spawned = None
  /\ conn = None /\ ready = None /\ job = None /\ due = None /\ worker = None /\ cmd = None
  /\ senders = None /\ monitor = None /\ watch = None /\ rec = None /\ died = None
  /\ owner = None /\ boot = None /\ request = None /\ callback = None /\ notice = None
  /\ error = None /\ orphan = None /\ billed = None

FollowingIsParked ==
  /\ stream = None /\ follower = None /\ flow = None /\ watching = None /\ timer = None
  /\ attempts = None /\ suspended = None /\ breaks = None

SubmittingIsParked ==
  /\ thread = None /\ threadOp = None /\ runOp = None
  /\ creating = None /\ drawn = None /\ submitted = None

DecidingIsParked ==
  /\ fact = None /\ expired = None /\ receipt = None /\ items = None /\ op = None
  /\ verdict = None

TablesAreParked == cache = None /\ selected = None /\ asked = None
CallingIsParked == stray = None /\ call = None /\ lost = None
LogIsParked == log = None /\ wire = None
RunsAreParked == threads = None /\ runs = None

MCInit ==
  \/ /\ \/ scenario = "service" /\ Init
        \/ scenario = "executor" /\ Executor!Init /\ Repo!Init /\ Ledger!Init /\ HereInit
     /\ FollowingIsParked /\ SubmittingIsParked /\ DecidingIsParked /\ TablesAreParked
     /\ CallingIsParked /\ view = None /\ moves = None
  \/ /\ scenario = "follow" /\ Follow!Init
     /\ ServingIsParked /\ SubmittingIsParked /\ DecidingIsParked /\ CallingIsParked
     /\ RunsAreParked /\ told = None
  \/ /\ scenario = "submit" /\ Submit!Init
     /\ ServingIsParked /\ FollowingIsParked /\ DecidingIsParked
     /\ LogIsParked /\ told = None
  \/ /\ scenario = "decide" /\ Decide!Init
     /\ ServingIsParked /\ FollowingIsParked /\ SubmittingIsParked /\ TablesAreParked
     /\ LogIsParked /\ RunsAreParked

MCNext ==
  /\ UNCHANGED scenario
  /\ \/ /\ \/ scenario = "service" /\ Next
           \/ scenario = "executor" /\ Executor!Next /\ UNCHANGED <<repo, calls, here>>
        /\ UNCHANGED <<following, submitting, deciding, tables, calling, screen>>
     \/ /\ scenario = "follow" /\ Follow!Next
        /\ UNCHANGED <<serving, threads, runs, told, submitting, deciding, calling>>
     \/ /\ scenario = "submit" /\ Submit!Next
        /\ UNCHANGED <<serving, log, wire, told, following, deciding>>
     \/ /\ scenario = "decide" /\ Decide!Next
        /\ UNCHANGED <<serving, log, wire, threads, runs, following, submitting, tables>>

In(s) == scenario = s

-----------------------------------------------------------------------------
\* The fairness of the service, in its scenario.
ServiceFairness ==
  /\ WF_vars(In("service") /\ Boot) /\ WF_vars(In("service") /\ Exit)
  /\ WF_vars(In("service") /\ LeftTransaction)
  /\ WF_vars(In("service") /\ Request) /\ WF_vars(In("service") /\ EndResult)
  /\ \A r \in Run : WF_vars(In("service") /\ JobDeadlinePasses(r))
  /\ WF_vars(In("service") /\ Watchdog) /\ WF_vars(In("service") /\ Recycle)
  /\ WF_vars(In("service") /\ OnFailure) /\ WF_vars(In("service") /\ Close)

\* ServingSpec, in its scenario: the executor's own threads run, workers come up, and
\* the monitor's callbacks return.
ExecutorFairness ==
  /\ \A j \in PlainJob : WF_exec(In("executor") /\ Executor!DeadlinePasses(j))
  /\ WF_exec(In("executor") /\ life = "up" /\ Executor!WatchSees)
  /\ WF_exec(In("executor") /\ Executor!WatchRecycles)
  /\ WF_exec(In("executor") /\ Executor!Recycle)
  /\ WF_exec(In("executor") /\ Executor!CloseWaits)
  /\ WF_exec(In("executor") /\ Executor!CloseRecycles)
  /\ WF_exec(In("executor") /\ Executor!WorkerReady)
  /\ WF_exec(In("executor") /\ Executor!Monitor)
  /\ WF_exec(In("executor") /\ Executor!Callback)

followVars == Follow!vars
submitVars == Submit!vars
decideVars == Decide!vars

\* The fairness of the client's three modules, each in its scenario.
ClientFairness ==
  /\ \A r \in AppRun : WF_followVars(In("follow") /\ Follow!Finish(r))
  /\ \A f \in Follower : WF_followVars(In("follow") /\ Follow!FollowerStep(f))
  /\ \A w \in Flow :
       /\ WF_followVars(In("follow") /\ Follow!FlowStep(w))
       /\ WF_followVars(In("follow") /\ Follow!Resume(w))
  /\ WF_followVars(In("follow") /\ Follow!TimerFires)
  /\ WF_submitVars(In("submit") /\ Submit!CallStep(1))
  /\ WF_submitVars(In("submit") /\ runOp # None /\ Submit!Refresh(1))
  /\ \A r \in Submit!Runs : WF_submitVars(In("submit") /\ Submit!RunEnds(r))
  /\ WF_decideVars(In("decide") /\ Decide!CallStep(1))
  /\ SF_decideVars(In("decide") /\ Decide!Pending # {} /\ Decide!Refresh(1))

MCSpec ==
  /\ MCInit /\ [][MCNext]_all
  /\ ServiceFairness /\ ExecutorFairness /\ ClientFairness

-----------------------------------------------------------------------------
\* Every accepted run ends over crashes and restarts, whatever the worker,
\* the pipe and the monitor do (the watchdog, start).
AcceptedRunsEnd ==
  \A r \in Run : In("service") /\ Repo!IsLive(r) ~> In("service") /\ ~Repo!IsLive(r)

\* When workers come up and callbacks return, a recycled executor serves again
\* unless it is closed, and close, which waits for a recycling in progress,
\* returns (_recycle, close).
ExecutorServesAndCloses ==
  /\ In("executor") /\ rec # None /\ life = "up" ~> Executor!Ready \/ life # "up"
  /\ In("executor") /\ life = "closing" ~> life = "closed"

\* In its scenario: run r is on the screen, a submission is pending, a verdict on
\* memory m is.
Asked(r, m) ==
  \/ In("follow") /\ view.run = r
  \/ In("submit") /\ runOp # None
  \/ In("decide") /\ op[m] # None

Settled(r, m) ==
  \/ In("follow") /\ (view.run # r \/ view.status = "ended")
  \/ In("submit") /\ runOp = None
  \/ In("decide") /\ op[m] = None

\* While the breaks are within the retries, a run on the screen is shown as ended
\* in the end, without the user doing anything (_scheduleRetry); what is pending
\* is settled when the user comes back often enough: the run is made or refused,
\* the verdict is taken or contradicted (refresh).  No behaviour has two scenarios.
WhatIsAskedIsSettled ==
  \A r \in AppRun, m \in Memory : Asked(r, m) ~> Settled(r, m)
=============================================================================
