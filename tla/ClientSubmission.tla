---------------------------- MODULE ClientSubmission ---------------------------
(***************************************************************************)
(* How the Android client submits an analysis: the operation is stored     *)
(* under a key before it is sent (local_store, repository), sent again     *)
(* under that key after a lost answer or a kill, and forgotten when the     *)
(* run it made is stored.  The service binds one run to a key              *)
(* (DeliveryRepository).                                                   *)
(*                                                                         *)
(* Keys of runs are numbers in the order they are drawn, and a run has the *)
(* number of its key; run 0 is a finished one from before.  A step is the  *)
(* code between two awaits of the network, but the thread's is read and    *)
(* its operation prepared in two steps (repository._thread).               *)
(***************************************************************************)
EXTENDS Naturals, Sequences, FiniteSets

CONSTANTS
  Query,
  Refused,    \* queries the service's validation answers with 400 or 422
  Call,       \* submit, refresh and openRun calls that may be alive at once
  MaxKeys,    \* submissions, and threads
  MaxLost,    \* requests or answers that are lost or late
  Moves,      \* what the user and the phone do: a subset of AllMoves
  MaxMoves,   \* how often, refresh not counted
  None

AllMoves == {"open", "disturb", "prepare", "kill"}

\* What is asked of the service, what it says, what it keeps of a run, and what a call
\* is doing.
Request == [to : {"thread", "run"}, key : Nat, thread : {None} \cup Nat]
Reply == {"thread", "refused", "conflict", "later", "live", "ended"}
Row == [thread : Nat, status : {"live", "ended"}]
Doing == [kind : {"submit", "refresh", "open"},
          stage : {"begin", "prepare", "thread", "run", "reading", "opening"},
          key : {None} \cup Nat, request : {None} \cup Request, answer : {None} \cup Reply]

SubmissionAssumption ==
  /\ Refused \subseteq Query /\ Moves \subseteq AllMoves
  /\ MaxKeys \in Nat \ {0} /\ MaxLost \in Nat /\ MaxMoves \in Nat
  /\ None \notin Nat \cup Query \cup Call \cup Request \cup Reply \cup Row \cup Doing

VARIABLES
  thread, threadOp, \* SQLite: the thread; the key of the pending creation of one
  runOp,            \* SQLite: the key of the pending run, None without
  cache, selected,  \* SQLite: run -> its status, None before; the selected run
  threads, runs,    \* the service: threads made; run -> its thread and status
  stray,            \* requests under way that no call waits for
  call,             \* call -> what it is doing, None without
  creating,         \* the call whose createAnalysis later ones share (_creating)
  view,             \* the shown run and its status, phase and hasPending
  asked,            \* run key -> query it was drawn for
  drawn,            \* keys drawn for threads
  submitted,        \* submissions the user has made, those that join one left out
  lost, moves

disk == <<thread, threadOp, runOp, cache, selected>>
service == <<threads, runs>>
drawnKeys == <<asked, drawn, submitted>>
vars == <<disk, service, stray, call, creating, view, drawnKeys, lost, moves>>

Runs == 0 .. MaxKeys

-----------------------------------------------------------------------------
(* The service                                                             *)

ThreadRequest(k) == [to |-> "thread", key |-> k, thread |-> None]
RunRequest(k, t) == [to |-> "run", key |-> k, thread |-> t]

SlotFree == \A r \in Runs : runs[r] # None => runs[r].status = "ended"

\* What the service says: the thread, the status of the run, or why there is none.
Answer(q) ==
  IF q.to = "thread" THEN "thread"
  ELSE IF asked[q.key] \in Refused THEN "refused"
  ELSE IF runs[q.key] # None
       THEN IF runs[q.key].thread = q.thread THEN runs[q.key].status ELSE "conflict"
  ELSE IF SlotFree THEN "live" ELSE "later"

Handle(q) ==
  /\ threads' = IF q.to = "thread" THEN threads \cup {q.key} ELSE threads
  /\ runs' = IF q.to = "run" /\ runs[q.key] = None /\ Answer(q) = "live"
             THEN [runs EXCEPT ![q.key] = [thread |-> q.thread, status |-> "live"]]
             ELSE runs

RunEnds(r) ==
  /\ runs[r] # None /\ runs[r].status = "live"
  /\ runs' = [runs EXCEPT ![r].status = "ended"]
  /\ UNCHANGED <<disk, threads, stray, call, creating, view, drawnKeys, lost, moves>>

-----------------------------------------------------------------------------
(* The client's operations and its view                                    *)

Busy == view.phase \in {"submitting", "recovering"}
CanSubmit == ~Busy /\ ~view.hasPending /\ (view.run = None \/ view.status = "ended")

Shows(r, status, phase, pending) ==
  view' = [run |-> r, status |-> status, phase |-> phase, hasPending |-> pending]

Working(c, stage) == call[c] # None /\ call[c].stage = stage
Leave(c) ==
  /\ call' = [call EXCEPT ![c] = None]
  /\ creating' = IF creating = c THEN None ELSE creating

Fresh(kind, stage, k) ==
  [kind |-> kind, stage |-> stage, key |-> k, request |-> None, answer |-> None]
Send(c, stage, q) ==
  call' = [call EXCEPT ![c] = [@ EXCEPT !.stage = stage, !.request = q, !.answer = None]]

\* The pending operation is not looked at.
FailAsShown(c, failed) ==
  /\ view' = [view EXCEPT !.phase = "error"]
  /\ Leave(c)

\* submit and refresh look again at what is pending, and show the failure.
Fail(c, failed) ==
  /\ view' = [view EXCEPT !.phase = "error",
                          !.hasPending = IF call[c].kind = "open" THEN @ ELSE failed]
  /\ Leave(c)

Move(m) == m \in Moves /\ moves < MaxMoves /\ moves' = moves + 1

Draws(q) == /\ Len(asked) < MaxKeys
            /\ asked' = Append(asked, q)

\* prepareOperation: the row there is, if it is for the same query; one new key
\* otherwise.
PrepareRun(c, q) ==
  \/ /\ runOp = None /\ Draws(q)
     /\ runOp' = Len(asked) + 1
     /\ call' = [call EXCEPT ![c] = Fresh("submit", "begin", Len(asked) + 1)]
     /\ creating' = c
     /\ view' = [view EXCEPT !.phase = "submitting"]
  \/ /\ runOp # None /\ asked[runOp] = q
     /\ call' = [call EXCEPT ![c] = Fresh("submit", "begin", runOp)]
     /\ creating' = c
     /\ view' = [view EXCEPT !.phase = "submitting"]
     /\ UNCHANGED <<runOp, asked>>
  \/ /\ runOp # None /\ asked[runOp] # q
     /\ view' = [view EXCEPT !.phase = "error", !.hasPending = TRUE]
     /\ UNCHANGED <<runOp, asked, call, creating>>

\* submit; a createAnalysis under way is shared, whatever its query.
Submit(c, q) ==
  /\ CanSubmit /\ call[c] = None
  /\ IF creating # None
     THEN /\ view' = [view EXCEPT !.phase = "submitting"]
          /\ UNCHANGED <<runOp, asked, call, creating, submitted>>
     ELSE /\ submitted < MaxKeys /\ submitted' = submitted + 1
          /\ PrepareRun(c, q)
  /\ UNCHANGED <<thread, threadOp, cache, selected, service, stray, drawn, lost, moves>>

\* _thread: the stored thread, or the operation that makes one.
ReadThread(c) ==
  /\ Working(c, "begin")
  /\ IF thread # None THEN Send(c, "run", RunRequest(call[c].key, thread))
     ELSE call' = [call EXCEPT ![c].stage = "prepare"]
  /\ UNCHANGED <<disk, service, stray, creating, view, drawnKeys, lost, moves>>

\* A key for every attempt.
PrepareThreadAfresh(c) ==
  /\ Working(c, "prepare")
  /\ drawn < MaxKeys /\ drawn' = drawn + 1
  /\ threadOp' = drawn + 1
  /\ Send(c, "thread", ThreadRequest(drawn + 1))
  /\ UNCHANGED <<thread, runOp, cache, selected, service, stray, creating, view, asked,
                 submitted, lost, moves>>

\* The thread is stored before the service has made it.
PrepareThreadStored(c) ==
  /\ Working(c, "prepare")
  /\ drawn < MaxKeys /\ drawn' = drawn + 1
  /\ threadOp' = drawn + 1 /\ thread' = drawn + 1
  /\ Send(c, "thread", ThreadRequest(drawn + 1))
  /\ UNCHANGED <<runOp, cache, selected, service, stray, creating, view, asked, submitted,
                 lost, moves>>

PrepareThread(c) ==
  /\ Working(c, "prepare")
  /\ IF threadOp # None THEN UNCHANGED <<threadOp, drawn>>
     ELSE /\ drawn < MaxKeys /\ drawn' = drawn + 1
          /\ threadOp' = drawn + 1
  /\ Send(c, "thread", ThreadRequest(threadOp'))
  /\ UNCHANGED <<thread, runOp, cache, selected, service, stray, creating, view, asked,
                 submitted, lost, moves>>

ThreadMade(c) ==
  /\ Working(c, "thread") /\ call[c].answer = "thread"
  /\ thread' = call[c].request.key /\ threadOp' = None
  /\ Send(c, "run", RunRequest(call[c].key, thread'))
  /\ UNCHANGED <<runOp, cache, selected, service, stray, creating, view, drawnKeys, lost, moves>>

\* completeRun, and what submit and refresh do with the run.  The row of the pending
\* run goes, whatever its key (local_store.dart, completeRun).
RunMade(c) ==
  /\ Working(c, "run") /\ call[c].answer \in {"live", "ended"}
  /\ LET r == call[c].key
     IN /\ cache' = [cache EXCEPT ![r] = call[c].answer]
        /\ selected' = r /\ runOp' = None
        /\ IF call[c].kind = "submit"
           THEN Shows(r, call[c].answer, "ready", FALSE) /\ Leave(c)
           ELSE /\ Shows(r, call[c].answer, view.phase, FALSE)
                /\ call' = [call EXCEPT ![c] = Fresh("refresh", "reading", None)]
                /\ UNCHANGED creating
  /\ UNCHANGED <<thread, threadOp, service, stray, drawnKeys, lost, moves>>

\* Refused or put off: either ends the operation.
RunRefusedForGood(c) ==
  /\ Working(c, "run") /\ call[c].answer \in {"refused", "later", "conflict"}
  /\ runOp' = None
  /\ Fail(c, FALSE)
  /\ UNCHANGED <<thread, threadOp, cache, selected, service, stray, drawnKeys, lost, moves>>

\* Neither does.
RunRefusedForNow(c) ==
  /\ Working(c, "run") /\ call[c].answer \in {"refused", "later", "conflict"}
  /\ UNCHANGED runOp
  /\ Fail(c, runOp # None)
  /\ UNCHANGED <<thread, threadOp, cache, selected, service, stray, drawnKeys, lost, moves>>

\* 400 and 422 end the operation; 409, 429 and 503 keep it.
RunRefused(c) ==
  /\ Working(c, "run") /\ call[c].answer \in {"refused", "later", "conflict"}
  /\ runOp' = IF call[c].answer = "refused" THEN None ELSE runOp
  /\ Fail(c, runOp' # None)
  /\ UNCHANGED <<thread, threadOp, cache, selected, service, stray, drawnKeys, lost, moves>>

\* Recovered under a key of its own.
RefreshAfresh(c) ==
  /\ ~Busy /\ call[c] = None
  /\ IF runOp = None
     THEN /\ call' = [call EXCEPT ![c] = Fresh("refresh", "reading", None)]
          /\ UNCHANGED <<asked, runOp>>
     ELSE /\ Draws(asked[runOp])
          /\ runOp' = Len(asked) + 1
          /\ call' = [call EXCEPT ![c] = Fresh("refresh", "begin", runOp')]
  /\ view' = [view EXCEPT !.phase = "recovering"]
  /\ UNCHANGED <<thread, threadOp, cache, selected, service, stray, creating, drawn, submitted,
                 lost, moves>>

\* refresh begins with recoverPending.
Refresh(c) ==
  /\ ~Busy /\ call[c] = None
  /\ call' = [call EXCEPT ![c] =
       IF runOp = None THEN Fresh("refresh", "reading", None) ELSE Fresh("refresh", "begin", runOp)]
  /\ view' = [view EXCEPT !.phase = "recovering"]
  /\ UNCHANGED <<disk, service, stray, creating, drawnKeys, lost, moves>>

\* restoreRun and loadHistory.
RefreshReads(c) ==
  /\ Working(c, "reading")
  /\ cache' = [r \in Runs |-> IF runs[r] = None THEN cache[r] ELSE runs[r].status]
  /\ view' = [view EXCEPT !.phase = "ready",
                          !.status = IF view.run = None THEN @ ELSE runs[view.run].status]
  /\ Leave(c)
  /\ UNCHANGED <<thread, threadOp, runOp, selected, service, stray, drawnKeys, lost, moves>>

\* openRun of the run from before, which a busy view does not prevent.
OpenRun(c) ==
  /\ Move("open") /\ call[c] = None
  /\ selected' = 0
  /\ Shows(0, "ended", "recovering", view.hasPending)
  /\ call' = [call EXCEPT ![c] = Fresh("open", "opening", None)]
  /\ UNCHANGED <<thread, threadOp, runOp, cache, service, stray, creating, drawnKeys, lost>>

Opened(c) ==
  /\ Working(c, "opening")
  /\ Shows(0, "ended", "ready", view.hasPending)
  /\ Leave(c)
  /\ UNCHANGED <<disk, service, stray, drawnKeys, lost, moves>>

\* Something else fails (decide, refreshHistory), and _fail shows it.
Disturb ==
  /\ Move("disturb")
  /\ view' = [view EXCEPT !.phase = "error"]
  /\ UNCHANGED <<disk, service, stray, call, creating, drawnKeys, lost>>

PrepareAnalysis ==
  /\ Move("prepare")
  /\ view.run # None /\ view.status = "ended" /\ ~view.hasPending
  /\ selected' = None
  /\ view' = [view EXCEPT !.run = None]
  /\ UNCHANGED <<thread, threadOp, runOp, cache, service, stray, call, creating, drawnKeys, lost>>

\* The watched run is told to have ended (RunFollowing).
WatchTells ==
  /\ view.run # None /\ view.status = "live" /\ runs[view.run].status = "ended"
  /\ Shows(view.run, "ended", "ready", view.hasPending)
  /\ cache' = [cache EXCEPT ![view.run] = "ended"]
  /\ UNCHANGED <<thread, threadOp, runOp, selected, service, stray, call, creating,
                 drawnKeys, lost, moves>>

-----------------------------------------------------------------------------
(* The network, and the end of the process                                 *)

Unanswered == {c \in Call : call[c] # None /\ call[c].request # None /\ call[c].answer = None}

Serve(c) ==
  /\ c \in Unanswered
  /\ call' = [call EXCEPT ![c].answer = Answer(call[c].request)]
  /\ Handle(call[c].request)
  /\ UNCHANGED <<disk, stray, creating, view, drawnKeys, lost, moves>>

\* No answer is taken for a good one.
LoseAsMade(c) ==
  /\ call[c] # None /\ call[c].stage = "run"
  /\ lost < MaxLost /\ lost' = lost + 1
  /\ stray' = IF c \in Unanswered THEN stray \cup {call[c].request} ELSE stray
  /\ cache' = [cache EXCEPT ![call[c].key] = "live"]
  /\ Fail(c, runOp # None)
  /\ UNCHANGED <<thread, threadOp, runOp, selected, service, drawnKeys, moves>>

\* A timeout or a broken connection: what was not handled may be handled later.
Lose(c) ==
  /\ call[c] # None /\ call[c].stage \in {"thread", "run", "reading", "opening"}
  /\ lost < MaxLost /\ lost' = lost + 1
  /\ stray' = IF c \in Unanswered THEN stray \cup {call[c].request} ELSE stray
  /\ Fail(c, runOp # None)
  /\ UNCHANGED <<disk, service, drawnKeys, moves>>

Late(q) ==
  /\ q \in stray
  /\ stray' = stray \ {q}
  /\ Handle(q)
  /\ UNCHANGED <<disk, call, creating, view, drawnKeys, lost, moves>>

\* The process is killed, or updateSettings closes its connections; the view and
\* the pending operation are read from the tables again, and refresh begins.
Restart(c) ==
  /\ Move("kill")
  /\ stray' = stray \cup {call[x].request : x \in Unanswered}
  /\ creating' = None
  /\ call' = [x \in Call |->
       IF x # c THEN None
       ELSE IF runOp = None THEN Fresh("refresh", "reading", None) ELSE Fresh("refresh", "begin", runOp)]
  /\ Shows(selected, IF selected = None THEN "ended" ELSE cache[selected], "recovering", runOp # None)
  /\ UNCHANGED <<disk, service, drawnKeys, lost>>

-----------------------------------------------------------------------------
\* A client without a thread whose history has a finished run.
Init ==
  /\ thread = None /\ threadOp = None /\ runOp = None /\ selected = None
  /\ cache = [r \in Runs |-> IF r = 0 THEN "ended" ELSE None]
  /\ threads = {}
  /\ runs = [r \in Runs |-> IF r = 0 THEN [thread |-> 0, status |-> "ended"] ELSE None]
  /\ stray = {} /\ call = [c \in Call |-> None] /\ creating = None
  /\ view = [run |-> None, status |-> "ended", phase |-> "ready", hasPending |-> FALSE]
  /\ asked = <<>> /\ drawn = 0 /\ submitted = 0 /\ lost = 0 /\ moves = 0

CallStep(c) ==
  \/ ReadThread(c) \/ PrepareThread(c) \/ ThreadMade(c) \/ RunMade(c) \/ RunRefused(c)
  \/ RefreshReads(c) \/ Opened(c) \/ Serve(c)

Next ==
  \/ \E c \in Call :
       \/ CallStep(c) \/ Lose(c) \/ Refresh(c) \/ OpenRun(c) \/ Restart(c)
       \/ \E q \in Query : Submit(c, q)
  \/ \E q \in stray : Late(q)
  \/ \E r \in Runs : RunEnds(r)
  \/ WatchTells \/ Disturb \/ PrepareAnalysis

Spec == Init /\ [][Next]_vars

\* A call goes on, a run ends, and a user with something pending recovers it.
Fairness ==
  /\ \A c \in Call : WF_vars(CallStep(c)) /\ WF_vars(runOp # None /\ Refresh(c))
  /\ \A r \in Runs : WF_vars(RunEnds(r))

FairSpec == Spec /\ Fairness

-----------------------------------------------------------------------------
TypeOK ==
  /\ thread \in {None} \cup threads /\ threadOp \in {None} \cup 1 .. drawn
  /\ runOp \in {None} \cup 1 .. Len(asked)
  /\ cache \in [Runs -> {None, "live", "ended"}]
  /\ selected \in {None} \cup Runs
  /\ view \in [run : {None} \cup Runs, status : {"live", "ended"},
               phase : {"ready", "submitting", "recovering", "error"}, hasPending : BOOLEAN]
  /\ creating \in {None} \cup Call

\* However often a submission is sent, lost, sent again or shared, it makes at
\* most one run (one key per stored operation, one run per key).
OneRunPerSubmission ==
  Cardinality({r \in Runs \ {0} : runs[r] # None}) <= submitted

\* By one call at a time, the client makes one thread and keeps to it (_thread).
OneThread == Cardinality(threads) <= 1

\* "Pending operations are not silently dropped" (docs/android_client.md): what the
\* user has submitted is stored as pending, or its run is stored, or the service
\* refuses it.  It holds by one call at a time: with two, a late answer to the one
\* deletes what the other has pending (ClientSubmissionOverlap.cfg).
PendingIsNotDropped ==
  \A k \in DOMAIN asked : runOp = k \/ cache[k] # None \/ asked[k] \in Refused

\* By one call at a time, the view at rest knows whether something is pending, so
\* that it neither hides the recovery nor offers a new submission over a pending one
\* (hasPending of submit and refresh).
PendingIsShown ==
  (\A c \in Call : call[c] = None) => (view.hasPending <=> runOp # None)

\* What is stored of a run is never ahead of the service.
StoredRunsExist ==
  \A r \in Runs : cache[r] # None =>
    runs[r] # None /\ (cache[r] = "ended" => runs[r].status = "ended")
=============================================================================
