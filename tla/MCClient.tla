------------------------------- MODULE MCClient -------------------------------
(* The Android client for TLC, as scenarios of one run: following runs with *)
(* overlapping calls and with long logs, submitting alone and with shared   *)
(* calls, deciding alone and with shared calls.  A scenario is an instance  *)
(* of its module, chosen by the initial state; variables of one name serve  *)
(* all the modules that have them, the others stay parked.                  *)
EXTENDS RunFollowing, TLC

CONSTANTS
  LongRun, LongFollower, LongFlow,  \* of following with long logs
  LongProgress, LongPage,
  Query, Refused, Memory,           \* of submissions and decisions
  Lone, AnyCall,                    \* of calls: one by itself, or any
  SubmitKeys, SubmitLost, DecideKeys, DecideLost, SharedKeys, SharedLost,
  FewMoves                          \* of long logs, and of shared decisions

VARIABLES
  thread, threadOp, runOp, threads, runs, creating, drawn, submitted,
  fact, expired, receipt, items, op, verdict, told,
  stray, call, lost,
  scenario

following == <<log, stream, wire, follower, flow, watch, suspended, breaks>>
submitting == <<thread, threadOp, runOp, threads, runs, creating, drawn, submitted>>
deciding == <<fact, expired, receipt, items, op, verdict, told>>
calls == <<stray, call, lost>>

Long == INSTANCE RunFollowing WITH
  Run <- LongRun, Follower <- LongFollower, Flow <- LongFlow, MaxProgress <- LongProgress,
  Page <- LongPage, Moves <- {"open", "suspend"}, MaxMoves <- FewMoves
Submit == INSTANCE ClientSubmission WITH
  Call <- Lone, MaxKeys <- SubmitKeys, MaxLost <- SubmitLost,
  Moves <- {"open", "prepare", "kill"}
SubmitShared == INSTANCE ClientSubmission WITH
  Call <- AnyCall, MaxKeys <- SharedKeys, MaxLost <- SharedLost,
  Moves <- {"open", "disturb", "kill"}
Decide == INSTANCE ClientDecisions WITH
  Call <- Lone, MaxKeys <- DecideKeys, MaxLost <- DecideLost
DecideShared == INSTANCE ClientDecisions WITH
  Call <- AnyCall, MaxKeys <- SharedKeys, MaxLost <- SharedLost, MaxMoves <- FewMoves

ASSUME ClientAssumption ==
  /\ "restore" \notin Moves
  /\ Long!FollowingAssumption /\ \A x, y \in LongFlow : x = y
  /\ \A x, y \in Lone : x = y
  /\ Submit!SubmissionAssumption /\ SubmitShared!SubmissionAssumption
  /\ Decide!DecisionsAssumption /\ DecideShared!DecisionsAssumption

FollowingIsParked ==
  /\ log = None /\ stream = None /\ wire = None /\ follower = None /\ flow = None
  /\ watching = None /\ timer = None /\ attempts = None /\ suspended = None
  /\ breaks = None

SubmittingIsParked ==
  /\ thread = None /\ threadOp = None /\ runOp = None /\ threads = None /\ runs = None
  /\ creating = None /\ drawn = None /\ submitted = None

DecidingIsParked ==
  /\ fact = None /\ expired = None /\ receipt = None /\ items = None /\ op = None
  /\ verdict = None /\ told = None

MCInit ==
  \/ /\ \/ scenario = "follow" /\ Init
        \/ scenario = "follow long" /\ Long!Init
     /\ SubmittingIsParked /\ DecidingIsParked /\ stray = None /\ call = None /\ lost = None
  \/ /\ \/ scenario = "submit" /\ Submit!Init
        \/ scenario = "submit shared" /\ SubmitShared!Init
     /\ FollowingIsParked /\ DecidingIsParked
  \/ /\ \/ scenario = "decide" /\ Decide!Init
        \/ scenario = "decide shared" /\ DecideShared!Init
     /\ FollowingIsParked /\ SubmittingIsParked /\ cache = None /\ selected = None /\ asked = None

MCNext ==
  /\ UNCHANGED scenario
  /\ \/ /\ \/ scenario = "follow" /\ Next
           \/ scenario = "follow long" /\ Long!Next
        /\ UNCHANGED <<submitting, deciding, calls>>
     \/ /\ \/ scenario = "submit" /\ Submit!Next
           \/ scenario = "submit shared" /\ SubmitShared!Next
        /\ UNCHANGED <<following, deciding>>
     \/ /\ \/ scenario = "decide" /\ Decide!Next
           \/ scenario = "decide shared" /\ DecideShared!Next
        /\ UNCHANGED <<following, submitting, cache, selected, asked>>

MCSpec == MCInit /\ [][MCNext]_<<vars, submitting, deciding, calls, scenario>>

\* Runs, subscriptions, calls and memories are interchangeable.  A permutation of
\* the ones goes with one of the others, for no state holds those of two
\* scenarios: this keeps the group small.
Swaps(S) == {x[1] :> x[2] @@ x[2] :> x[1] : x \in {y \in S \X S : y[1] # y[2]}}

Interchangeable ==
  {p @@ q @@ m : p \in Swaps(Run), q \in Swaps(LongRun), m \in Swaps(Memory)}
    \cup {p @@ q @@ c : p \in Swaps(Follower), q \in Swaps(LongFollower), c \in Swaps(AnyCall)}
    \cup Swaps(Flow)

In(s) == scenario = s

-----------------------------------------------------------------------------
(* The properties, in every scenario they are about                        *)

\* What the client has of a run is a prefix of its public events, and it neither
\* stores nor shows an end that has not happened; a response carries the cursor
\* of the end exactly when it says the run has ended, and a stream the service
\* closes has sent everything (repository.dart, local_store.dart, event_stream).
RunsAreTrue ==
  /\ In("follow") => TypeOK /\ CacheIsAPrefix /\ EndsAreTrue
  /\ In("follow long") =>
       /\ Long!TypeOK /\ Long!CacheIsAPrefix /\ Long!EndsAreTrue
       /\ Long!SnapshotsAgree /\ Long!ClosedStreamIsComplete
  /\ In("submit shared") => SubmitShared!StoredRunsExist

\* A live run at rest on the screen is watched, however calls overlap; and with one
\* call at a time the subscription that counts is the one of the run on the screen
\* (_watch of view_model.dart).
LiveRunIsFollowed ==
  /\ In("follow") => LiveRunIsWatched
  /\ In("follow long") => Long!WatchesWhatIsShown /\ Long!LiveRunIsWatched

\* By one call at a time, over lost answers, kills and opened runs: what the user has
\* submitted stays pending until its run is stored or refused, the screen knows it,
\* and one thread is made.  By calls that overlap, only this: however often a
\* submission is sent, shared or sent again, it makes at most one run.  What such
\* calls do to a pending operation is shown by ClientSubmissionOverlap.cfg
\* (repository.dart, local_store.dart).
SubmissionsAreKept ==
  /\ In("submit") =>
       /\ Submit!TypeOK /\ Submit!PendingIsNotDropped
       /\ Submit!PendingIsShown /\ Submit!OneThread
  /\ In("submit shared") => SubmitShared!OneRunPerSubmission

\* By one call at a time, a verdict is taken as given, contradicted or still pending,
\* and the list agrees with the answers; by calls that overlap, the service approves
\* only what the user has approved, and a memory is busy while a call decides on it
\* (decide, recoverDecisions).
VerdictsAreTrue ==
  /\ In("decide") => Decide!TypeOK /\ Decide!VerdictIsNotLost /\ Decide!ToldIsStored
  /\ In("decide shared") => DecideShared!DecidedAsGiven /\ DecideShared!BusyIsDeciding

\* The cursor of a run and the versions of a list never go back, as long as
\* calls do not overlap (applyEvent, _applyDecision).
NothingGoesBack ==
  [][/\ In("follow") => \A r \in Run : CursorAdvances(r)
     /\ In("decide") => \A m \in Memory : Decide!ItemAdvances(m)]_<<cache, items>>
=============================================================================
