---------------------------- MODULE MCClientProofs ----------------------------
(***************************************************************************)
(* The properties of the scenarios of MCClient, for any runs,              *)
(* subscriptions, calls, keys and memories.  Every scenario is an instance *)
(* of a module ClientProofs is about, with constants of its own: what is   *)
(* proved of the module holds in the scenario, once the two instances are  *)
(* shown to take the same steps.                                           *)
(***************************************************************************)
EXTENDS MCClient, TLAPS

\* The scenarios with a call at a time, but for following; and the others.
F == INSTANCE ClientProofs WITH
  SubmitCall <- Lone, SubmitMoves <- {"open", "prepare", "kill"}, SubmitMaxMoves <- MaxMoves,
  DecideCall <- Lone, DecideMaxMoves <- MaxMoves
L == INSTANCE ClientProofs WITH
  Run <- LongRun, Follower <- LongFollower, Flow <- LongFlow, MaxProgress <- LongProgress,
  Page <- LongPage, Moves <- {"open", "suspend"}, MaxMoves <- FewMoves,
  SubmitCall <- AnyCall, SubmitKeys <- SharedKeys, SubmitLost <- SharedLost,
  SubmitMoves <- {"open", "disturb", "kill"}, SubmitMaxMoves <- MaxMoves,
  DecideCall <- AnyCall, DecideKeys <- SharedKeys, DecideLost <- SharedLost,
  DecideMaxMoves <- FewMoves

-----------------------------------------------------------------------------
(* Following runs *)

LEMMA FollowAssumed == F!FollowingAssumption
BY FollowingAssumption, ZenonT(60)
DEF AllMoves, F!AllMoves, FollowingAssumption, F!FollowingAssumption, Kinds, F!Kinds, Operation,
    F!Operation, Read, F!Read, Record, F!Record, Response, F!Response, Subscription, F!Subscription

LEMMA LongAssumed == L!FollowingAssumption
BY ClientAssumption, ZenonT(60)
DEF Long!AllMoves, L!AllMoves, Long!FollowingAssumption, L!FollowingAssumption, Long!Kinds, L!Kinds,
    Long!Operation, L!Operation, Long!Read, L!Read, Long!Record, L!Record, Long!Response,
    L!Response, Long!Subscription, L!Subscription

USE FollowAssumed, LongAssumed

LEMMA FollowBegins == Init => F!Init
BY ZenonT(60)
DEF Init, F!Init, Shown, F!Shown

LEMMA LongBegins == Long!Init => L!Init
BY ZenonT(60)
DEF Long!Init, L!Init, Long!Shown, L!Shown

\* The two instances take the same steps.
LEMMA FollowTakesSteps == Next => F!Next
<1>1. ASSUME NEW r \in Run
      PROVE  /\ Progress(r) => F!Progress(r)
             /\ Finish(r) => F!Finish(r)
             /\ RestoreTables(r) => F!RestoreTables(r)
  BY ZenonT(60)
  DEF Finish, F!Finish, Move, F!Move, Progress, F!Progress, Range, F!Range, RestoreTables,
      F!RestoreTables, Status, F!Status, disk, F!disk, watch, F!watch
<1>2. ASSUME NEW f \in Follower
      PROVE  /\ OpenStream(f) => F!OpenStream(f)
             /\ InvalidCursor(f) => F!InvalidCursor(f)
             /\ ResetEvents(f) => F!ResetEvents(f)
             /\ ListEvents(f) => F!ListEvents(f)
             /\ CheckRun(f) => F!CheckRun(f)
  BY ZenonT(60)
  DEF Answered, F!Answered, Ascending, F!Ascending, Cardinality, F!Cardinality, CheckRun,
      F!CheckRun, Emit, F!Emit, Follows, F!Follows, Goes, F!Goes, InvalidCursor, F!InvalidCursor,
      LastPublic, F!LastPublic, ListEvents, F!ListEvents, Max, F!Max, OpenStream, F!OpenStream,
      PageAfter, F!PageAfter, Public, F!Public, Range, F!Range, Request, F!Request, ResetEvents,
      F!ResetEvents, ResetRunEvents, F!ResetRunEvents, Shown, F!Shown, Status, F!Status, Yields,
      F!Yields, disk, F!disk, server, F!server, watch, F!watch
<1>3. ASSUME NEW f \in Follower
      PROVE  /\ ReadEvent(f) => F!ReadEvent(f)
             /\ EndOfStream(f) => F!EndOfStream(f)
             /\ StreamRaises(f) => F!StreamRaises(f)
             /\ RestoreRun(f) => F!RestoreRun(f)
             /\ ServeFollower(f) => F!ServeFollower(f)
  BY ZenonT(60)
  DEF Answered, F!Answered, Applied, F!Applied, Cut, F!Cut, Emit, F!Emit, EndOfStream,
      F!EndOfStream, Follows, F!Follows, Goes, F!Goes, LastPublic, F!LastPublic, Max, F!Max,
      MaxAttempts, F!MaxAttempts, Pending, F!Pending, Public, F!Public, Range, F!Range, ReadEvent,
      F!ReadEvent, ReadLast, F!ReadLast, ReadRow, F!ReadRow, Request, F!Request, RestoreRun,
      F!RestoreRun, SaveRun, F!SaveRun, Saved, F!Saved, ScheduleRetry, F!ScheduleRetry, Serve,
      F!Serve, ServeFollower, F!ServeFollower, Shown, F!Shown, Status, F!Status, StreamRaises,
      F!StreamRaises, Yields, F!Yields, disk, F!disk, server, F!server, watch, F!watch
<1>4. ASSUME NEW f \in Follower
      PROVE  /\ BreakStream(f) => F!BreakStream(f)
             /\ BreakRest(f) => F!BreakRest(f)
  BY ZenonT(60)
  DEF BreakRest, F!BreakRest, BreakStream, F!BreakStream, Cut, F!Cut, FailWatch, F!FailWatch,
      Follows, F!Follows, Goes, F!Goes, MaxAttempts, F!MaxAttempts, Request, F!Request,
      ScheduleRetry, F!ScheduleRetry, disk, F!disk, watch, F!watch
<1>5. /\ TimerFires => F!TimerFires
      /\ Suspend => F!Suspend
  BY ZenonT(60)
  DEF BeginWatching, F!BeginWatching, Fresh, F!Fresh, Move, F!Move, StopWatching, F!StopWatching,
      Suspend, F!Suspend, TimerFires, F!TimerFires, disk, F!disk, server, F!server, watch, F!watch
<1>6. ASSUME NEW w \in Flow, NEW r \in Run
      PROVE  OpenRun(w, r) => F!OpenRun(w, r)
  BY ZenonT(60)
  DEF Move, F!Move, NewFlow, F!NewFlow, OpenRun, F!OpenRun, StopWatching, F!StopWatching, disk,
      F!disk, server, F!server
<1>7. ASSUME NEW w \in Flow
      PROVE  /\ SelectRun(w) => F!SelectRun(w)
             /\ OpenShows(w) => F!OpenShows(w)
             /\ RefreshShows(w) => F!RefreshShows(w)
             /\ ListRuns(w) => F!ListRuns(w)
  BY ZenonT(60)
  DEF Answered, F!Answered, At, F!At, BeginWatching, F!BeginWatching, Cancelled, F!Cancelled, Fresh,
      F!Fresh, Leaves, F!Leaves, ListRuns, F!ListRuns, NewFlow, F!NewFlow, OpenShows, F!OpenShows,
      Range, F!Range, RefreshShows, F!RefreshShows, Request, F!Request, SaveRun, F!SaveRun, Saved,
      F!Saved, SelectRun, F!SelectRun, Shown, F!Shown, Status, F!Status, disk, F!disk, server,
      F!server, watch, F!watch
<1>8. ASSUME NEW w \in Flow
      PROVE  /\ RefreshEnds(w, TRUE) => F!RefreshEnds(w, TRUE)
             /\ RefreshEnds(w, FALSE) => F!RefreshEnds(w, FALSE)
             /\ ServeFlow(w) => F!ServeFlow(w)
             /\ Activate(w) => F!Activate(w)
  BY ZenonT(60)
  DEF Activate, F!Activate, At, F!At, BeginWatching, F!BeginWatching, Cancelled, F!Cancelled, Fresh,
      F!Fresh, LastPublic, F!LastPublic, Leaves, F!Leaves, Loaded, F!Loaded, Max, F!Max, NewFlow,
      F!NewFlow, Pending, F!Pending, Public, F!Public, Range, F!Range, ReadLast, F!ReadLast,
      ReadRow, F!ReadRow, RefreshEnds, F!RefreshEnds, Refreshing, F!Refreshing, Request, F!Request,
      Saved, F!Saved, Serve, F!Serve, ServeFlow, F!ServeFlow, Shown, F!Shown, Status, F!Status,
      disk, F!disk, server, F!server, watch, F!watch
<1>9. ASSUME NEW w \in Flow
      PROVE  /\ Refresh(w) => F!Refresh(w)
             /\ FlowFails(w) => F!FlowFails(w)
             /\ Resume(w) => F!Resume(w)
             /\ UpdateSettings(w) => F!UpdateSettings(w)
             /\ Restart(w) => F!Restart(w)
  BY ZenonT(60)
  DEF Busy, F!Busy, FlowFails, F!FlowFails, Leaves, F!Leaves, Loaded, F!Loaded, Move, F!Move,
      NewFlow, F!NewFlow, Refresh, F!Refresh, Refreshing, F!Refreshing, Request, F!Request, Restart,
      F!Restart, Resume, F!Resume, Shown, F!Shown, StopWatching, F!StopWatching, UpdateSettings,
      F!UpdateSettings, disk, F!disk, server, F!server, watch, F!watch
<1> QED
  BY <1>1, <1>2, <1>3, <1>4, <1>5, <1>6, <1>7, <1>8, <1>9
  DEF Next, F!Next, FollowerStep, F!FollowerStep, FlowStep, F!FlowStep

\* The two instances take the same steps.
LEMMA LongTakesSteps == Long!Next => L!Next
<1>1. ASSUME NEW r \in LongRun
      PROVE  /\ Long!Progress(r) => L!Progress(r)
             /\ Long!Finish(r) => L!Finish(r)
             /\ Long!RestoreTables(r) => L!RestoreTables(r)
  BY ZenonT(60)
  DEF Long!Finish, L!Finish, Long!Move, L!Move, Long!Progress, L!Progress, Long!Range, L!Range,
      Long!RestoreTables, L!RestoreTables, Long!Status, L!Status, Long!disk, L!disk, Long!watch,
      L!watch
<1>2. ASSUME NEW f \in LongFollower
      PROVE  /\ Long!OpenStream(f) => L!OpenStream(f)
             /\ Long!InvalidCursor(f) => L!InvalidCursor(f)
             /\ Long!ResetEvents(f) => L!ResetEvents(f)
             /\ Long!ListEvents(f) => L!ListEvents(f)
             /\ Long!CheckRun(f) => L!CheckRun(f)
  BY ZenonT(60)
  DEF Long!Answered, L!Answered, Long!Ascending, L!Ascending, Long!Cardinality, L!Cardinality,
      Long!CheckRun, L!CheckRun, Long!Emit, L!Emit, Long!Follows, L!Follows, Long!Goes, L!Goes,
      Long!InvalidCursor, L!InvalidCursor, Long!LastPublic, L!LastPublic, Long!ListEvents,
      L!ListEvents, Long!Max, L!Max, Long!OpenStream, L!OpenStream, Long!PageAfter, L!PageAfter,
      Long!Public, L!Public, Long!Range, L!Range, Long!Request, L!Request, Long!ResetEvents,
      L!ResetEvents, Long!ResetRunEvents, L!ResetRunEvents, Long!Shown, L!Shown, Long!Status,
      L!Status, Long!Yields, L!Yields, Long!disk, L!disk, Long!server, L!server, Long!watch, L!watch
<1>3. ASSUME NEW f \in LongFollower
      PROVE  /\ Long!ReadEvent(f) => L!ReadEvent(f)
             /\ Long!EndOfStream(f) => L!EndOfStream(f)
             /\ Long!StreamRaises(f) => L!StreamRaises(f)
             /\ Long!RestoreRun(f) => L!RestoreRun(f)
             /\ Long!ServeFollower(f) => L!ServeFollower(f)
  BY ZenonT(60)
  DEF Long!Answered, L!Answered, Long!Applied, L!Applied, Long!Cut, L!Cut, Long!Emit, L!Emit,
      Long!EndOfStream, L!EndOfStream, Long!Follows, L!Follows, Long!Goes, L!Goes, Long!LastPublic,
      L!LastPublic, Long!Max, L!Max, Long!MaxAttempts, L!MaxAttempts, Long!Pending, L!Pending,
      Long!Public, L!Public, Long!Range, L!Range, Long!ReadEvent, L!ReadEvent, Long!ReadLast,
      L!ReadLast, Long!ReadRow, L!ReadRow, Long!Request, L!Request, Long!RestoreRun, L!RestoreRun,
      Long!SaveRun, L!SaveRun, Long!Saved, L!Saved, Long!ScheduleRetry, L!ScheduleRetry, Long!Serve,
      L!Serve, Long!ServeFollower, L!ServeFollower, Long!Shown, L!Shown, Long!Status, L!Status,
      Long!StreamRaises, L!StreamRaises, Long!Yields, L!Yields, Long!disk, L!disk, Long!server,
      L!server, Long!watch, L!watch
<1>4. ASSUME NEW f \in LongFollower
      PROVE  /\ Long!BreakStream(f) => L!BreakStream(f)
             /\ Long!BreakRest(f) => L!BreakRest(f)
  BY ZenonT(60)
  DEF Long!BreakRest, L!BreakRest, Long!BreakStream, L!BreakStream, Long!Cut, L!Cut, Long!FailWatch,
      L!FailWatch, Long!Follows, L!Follows, Long!Goes, L!Goes, Long!MaxAttempts, L!MaxAttempts,
      Long!Request, L!Request, Long!ScheduleRetry, L!ScheduleRetry, Long!disk, L!disk, Long!watch,
      L!watch
<1>5. /\ Long!TimerFires => L!TimerFires
      /\ Long!Suspend => L!Suspend
  BY ZenonT(60)
  DEF Long!BeginWatching, L!BeginWatching, Long!Fresh, L!Fresh, Long!Move, L!Move,
      Long!StopWatching, L!StopWatching, Long!Suspend, L!Suspend, Long!TimerFires, L!TimerFires,
      Long!disk, L!disk, Long!server, L!server, Long!watch, L!watch
<1>6. ASSUME NEW w \in LongFlow, NEW r \in LongRun
      PROVE  Long!OpenRun(w, r) => L!OpenRun(w, r)
  BY ZenonT(60)
  DEF Long!Move, L!Move, Long!NewFlow, L!NewFlow, Long!OpenRun, L!OpenRun, Long!StopWatching,
      L!StopWatching, Long!disk, L!disk, Long!server, L!server
<1>7. ASSUME NEW w \in LongFlow
      PROVE  /\ Long!SelectRun(w) => L!SelectRun(w)
             /\ Long!OpenShows(w) => L!OpenShows(w)
             /\ Long!RefreshShows(w) => L!RefreshShows(w)
             /\ Long!ListRuns(w) => L!ListRuns(w)
  BY ZenonT(60)
  DEF Long!Answered, L!Answered, Long!At, L!At, Long!BeginWatching, L!BeginWatching, Long!Cancelled,
      L!Cancelled, Long!Fresh, L!Fresh, Long!Leaves, L!Leaves, Long!ListRuns, L!ListRuns,
      Long!NewFlow, L!NewFlow, Long!OpenShows, L!OpenShows, Long!Range, L!Range, Long!RefreshShows,
      L!RefreshShows, Long!Request, L!Request, Long!SaveRun, L!SaveRun, Long!Saved, L!Saved,
      Long!SelectRun, L!SelectRun, Long!Shown, L!Shown, Long!Status, L!Status, Long!disk, L!disk,
      Long!server, L!server, Long!watch, L!watch
<1>8. ASSUME NEW w \in LongFlow
      PROVE  /\ Long!RefreshEnds(w, TRUE) => L!RefreshEnds(w, TRUE)
             /\ Long!RefreshEnds(w, FALSE) => L!RefreshEnds(w, FALSE)
             /\ Long!ServeFlow(w) => L!ServeFlow(w)
             /\ Long!Activate(w) => L!Activate(w)
  BY ZenonT(60)
  DEF Long!Activate, L!Activate, Long!At, L!At, Long!BeginWatching, L!BeginWatching, Long!Cancelled,
      L!Cancelled, Long!Fresh, L!Fresh, Long!LastPublic, L!LastPublic, Long!Leaves, L!Leaves,
      Long!Loaded, L!Loaded, Long!Max, L!Max, Long!NewFlow, L!NewFlow, Long!Pending, L!Pending,
      Long!Public, L!Public, Long!Range, L!Range, Long!ReadLast, L!ReadLast, Long!ReadRow,
      L!ReadRow, Long!RefreshEnds, L!RefreshEnds, Long!Refreshing, L!Refreshing, Long!Request,
      L!Request, Long!Saved, L!Saved, Long!Serve, L!Serve, Long!ServeFlow, L!ServeFlow, Long!Shown,
      L!Shown, Long!Status, L!Status, Long!disk, L!disk, Long!server, L!server, Long!watch, L!watch
<1>9. ASSUME NEW w \in LongFlow
      PROVE  /\ Long!Refresh(w) => L!Refresh(w)
             /\ Long!FlowFails(w) => L!FlowFails(w)
             /\ Long!Resume(w) => L!Resume(w)
             /\ Long!UpdateSettings(w) => L!UpdateSettings(w)
             /\ Long!Restart(w) => L!Restart(w)
  BY ZenonT(60)
  DEF Long!Busy, L!Busy, Long!FlowFails, L!FlowFails, Long!Leaves, L!Leaves, Long!Loaded, L!Loaded,
      Long!Move, L!Move, Long!NewFlow, L!NewFlow, Long!Refresh, L!Refresh, Long!Refreshing,
      L!Refreshing, Long!Request, L!Request, Long!Restart, L!Restart, Long!Resume, L!Resume,
      Long!Shown, L!Shown, Long!StopWatching, L!StopWatching, Long!UpdateSettings, L!UpdateSettings,
      Long!disk, L!disk, Long!server, L!server, Long!watch, L!watch
<1> QED
  BY <1>1, <1>2, <1>3, <1>4, <1>5, <1>6, <1>7, <1>8, <1>9
  DEF Long!Next, L!Next, Long!FollowerStep, L!FollowerStep, Long!FlowStep, L!FlowStep

LEMMA FollowShows ==
  /\ F!TypeOK => TypeOK
  /\ F!CacheIsAPrefix => CacheIsAPrefix
  /\ F!EndsAreTrue => EndsAreTrue
  /\ F!LiveRunIsWatched => LiveRunIsWatched
<1>1. F!TypeOK => TypeOK
  BY ZenonT(60)
  DEF Kinds, F!Kinds, MaxAttempts, F!MaxAttempts, Record, F!Record, TypeOK, F!TypeOK
<1>2. F!CacheIsAPrefix => CacheIsAPrefix
  BY ZenonT(60)
  DEF Ascending, F!Ascending, CacheIsAPrefix, F!CacheIsAPrefix, Cardinality, F!Cardinality, Public,
      F!Public
<1>3. F!EndsAreTrue => EndsAreTrue
  BY ZenonT(60)
  DEF EndsAreTrue, F!EndsAreTrue, Range, F!Range, Status, F!Status
<1>4. F!LiveRunIsWatched => LiveRunIsWatched
  BY ZenonT(60)
  DEF LiveRunIsWatched, F!LiveRunIsWatched, MaxAttempts, F!MaxAttempts
<1> QED BY <1>1, <1>2, <1>3, <1>4

LEMMA LongShows ==
  /\ L!TypeOK => Long!TypeOK
  /\ L!CacheIsAPrefix => Long!CacheIsAPrefix
  /\ L!EndsAreTrue => Long!EndsAreTrue
  /\ L!SnapshotsAgree => Long!SnapshotsAgree
  /\ L!ClosedStreamIsComplete => Long!ClosedStreamIsComplete
  /\ L!LiveRunIsWatched => Long!LiveRunIsWatched
  /\ L!WatchesWhatIsShown => Long!WatchesWhatIsShown
<1>1. L!TypeOK => Long!TypeOK
  BY ZenonT(60)
  DEF Long!Kinds, L!Kinds, Long!MaxAttempts, L!MaxAttempts, Long!Record, L!Record, Long!TypeOK,
      L!TypeOK
<1>2. L!CacheIsAPrefix => Long!CacheIsAPrefix
  BY ZenonT(60)
  DEF Long!Ascending, L!Ascending, Long!CacheIsAPrefix, L!CacheIsAPrefix, Long!Cardinality,
      L!Cardinality, Long!Public, L!Public
<1>3. L!EndsAreTrue => Long!EndsAreTrue
  BY ZenonT(60)
  DEF Long!EndsAreTrue, L!EndsAreTrue, Long!Range, L!Range, Long!Status, L!Status
<1>4. L!SnapshotsAgree => Long!SnapshotsAgree
  BY ZenonT(60)
  DEF Long!Answered, L!Answered, Long!Range, L!Range, Long!SnapshotsAgree, L!SnapshotsAgree,
      Long!Status, L!Status
<1>5. L!ClosedStreamIsComplete => Long!ClosedStreamIsComplete
  BY ZenonT(60)
  DEF Long!ClosedStreamIsComplete, L!ClosedStreamIsComplete, Long!Follows, L!Follows, Long!Max,
      L!Max, Long!Range, L!Range, Long!Status, L!Status
<1>6. L!LiveRunIsWatched => Long!LiveRunIsWatched
  BY ZenonT(60)
  DEF Long!LiveRunIsWatched, L!LiveRunIsWatched, Long!MaxAttempts, L!MaxAttempts
<1>7. L!WatchesWhatIsShown => Long!WatchesWhatIsShown
  BY ZenonT(60)
  DEF Long!WatchesWhatIsShown, L!WatchesWhatIsShown
<1> QED BY <1>1, <1>2, <1>3, <1>4, <1>5, <1>6, <1>7

-----------------------------------------------------------------------------
(* Submitting *)

LEMMA SubmitAssumed == F!Sub!SubmissionAssumption
BY ClientAssumption, ZenonT(60)
DEF Submit!AllMoves, F!Sub!AllMoves, Submit!Doing, F!Sub!Doing, Submit!Reply, F!Sub!Reply,
    Submit!Request, F!Sub!Request, Submit!Row, F!Sub!Row, Submit!SubmissionAssumption,
    F!Sub!SubmissionAssumption

LEMMA SubmitBegins == Submit!Init => F!Sub!Init
BY ZenonT(60)
DEF Submit!Init, F!Sub!Init, Submit!Runs, F!Sub!Runs

\* The two instances take the same steps.
LEMMA SubmitTakesSteps == Submit!Next => F!Sub!Next
<1>1. ASSUME NEW c \in Lone
      PROVE  /\ Submit!ReadThread(c) => F!Sub!ReadThread(c)
             /\ Submit!PrepareThread(c) => F!Sub!PrepareThread(c)
             /\ Submit!ThreadMade(c) => F!Sub!ThreadMade(c)
             /\ Submit!RunMade(c) => F!Sub!RunMade(c)
             /\ Submit!RunRefused(c) => F!Sub!RunRefused(c)
  BY ZenonT(60)
  DEF Submit!Fail, F!Sub!Fail, Submit!Fresh, F!Sub!Fresh, Submit!Leave, F!Sub!Leave,
      Submit!PrepareThread, F!Sub!PrepareThread, Submit!ReadThread, F!Sub!ReadThread,
      Submit!RunMade, F!Sub!RunMade, Submit!RunRefused, F!Sub!RunRefused, Submit!RunRequest,
      F!Sub!RunRequest, Submit!Send, F!Sub!Send, Submit!Shows, F!Sub!Shows, Submit!ThreadMade,
      F!Sub!ThreadMade, Submit!ThreadRequest, F!Sub!ThreadRequest, Submit!Working, F!Sub!Working,
      Submit!disk, F!Sub!disk, Submit!drawnKeys, F!Sub!drawnKeys, Submit!service, F!Sub!service
<1>2. ASSUME NEW c \in Lone
      PROVE  /\ Submit!RefreshReads(c) => F!Sub!RefreshReads(c)
             /\ Submit!Opened(c) => F!Sub!Opened(c)
             /\ Submit!Serve(c) => F!Sub!Serve(c)
             /\ Submit!Lose(c) => F!Sub!Lose(c)
             /\ Submit!Refresh(c) => F!Sub!Refresh(c)
  BY ZenonT(60)
  DEF Submit!Answer, F!Sub!Answer, Submit!Busy, F!Sub!Busy, Submit!Fail, F!Sub!Fail, Submit!Fresh,
      F!Sub!Fresh, Submit!Handle, F!Sub!Handle, Submit!Leave, F!Sub!Leave, Submit!Lose, F!Sub!Lose,
      Submit!Opened, F!Sub!Opened, Submit!Refresh, F!Sub!Refresh, Submit!RefreshReads,
      F!Sub!RefreshReads, Submit!Runs, F!Sub!Runs, Submit!Serve, F!Sub!Serve, Submit!Shows,
      F!Sub!Shows, Submit!SlotFree, F!Sub!SlotFree, Submit!Unanswered, F!Sub!Unanswered,
      Submit!Working, F!Sub!Working, Submit!disk, F!Sub!disk, Submit!drawnKeys, F!Sub!drawnKeys,
      Submit!service, F!Sub!service
<1>3. ASSUME NEW c \in Lone
      PROVE  /\ Submit!OpenRun(c) => F!Sub!OpenRun(c)
             /\ Submit!Restart(c) => F!Sub!Restart(c)
  BY ZenonT(60)
  DEF Submit!Fresh, F!Sub!Fresh, Submit!Move, F!Sub!Move, Submit!OpenRun, F!Sub!OpenRun,
      Submit!Restart, F!Sub!Restart, Submit!Shows, F!Sub!Shows, Submit!Unanswered, F!Sub!Unanswered,
      Submit!disk, F!Sub!disk, Submit!drawnKeys, F!Sub!drawnKeys, Submit!service, F!Sub!service
<1>4. ASSUME NEW c \in Lone, NEW q \in Query
      PROVE  Submit!Submit(c, q) => F!Sub!Submit(c, q)
  BY ZenonT(60)
  DEF Submit!Busy, F!Sub!Busy, Submit!CanSubmit, F!Sub!CanSubmit, Submit!Draws, F!Sub!Draws,
      Submit!Fresh, F!Sub!Fresh, Submit!PrepareRun, F!Sub!PrepareRun, Submit!Submit, F!Sub!Submit,
      Submit!service, F!Sub!service
<1>5. ASSUME NEW q \in stray
      PROVE  Submit!Late(q) => F!Sub!Late(q)
  BY ZenonT(60)
  DEF Submit!Answer, F!Sub!Answer, Submit!Handle, F!Sub!Handle, Submit!Late, F!Sub!Late,
      Submit!Runs, F!Sub!Runs, Submit!SlotFree, F!Sub!SlotFree, Submit!disk, F!Sub!disk,
      Submit!drawnKeys, F!Sub!drawnKeys
<1>6. ASSUME NEW r \in Submit!Runs
      PROVE  Submit!RunEnds(r) => F!Sub!RunEnds(r)
  BY ZenonT(60)
  DEF Submit!RunEnds, F!Sub!RunEnds, Submit!disk, F!Sub!disk, Submit!drawnKeys, F!Sub!drawnKeys
<1>7. /\ Submit!WatchTells => F!Sub!WatchTells
      /\ Submit!Disturb => F!Sub!Disturb
      /\ Submit!PrepareAnalysis => F!Sub!PrepareAnalysis
  BY ZenonT(60)
  DEF Submit!Disturb, F!Sub!Disturb, Submit!Move, F!Sub!Move, Submit!PrepareAnalysis,
      F!Sub!PrepareAnalysis, Submit!Shows, F!Sub!Shows, Submit!WatchTells, F!Sub!WatchTells,
      Submit!disk, F!Sub!disk, Submit!drawnKeys, F!Sub!drawnKeys, Submit!service, F!Sub!service
<1>8. Submit!Runs = F!Sub!Runs
  BY ZenonT(60) DEF Submit!Runs, F!Sub!Runs
<1> QED
  BY <1>1, <1>2, <1>3, <1>4, <1>5, <1>6, <1>7, <1>8
  DEF Submit!Next, F!Sub!Next, Submit!CallStep, F!Sub!CallStep

LEMMA SubmitSharedAssumed == L!Sub!SubmissionAssumption
BY ClientAssumption, ZenonT(60)
DEF SubmitShared!AllMoves, L!Sub!AllMoves, SubmitShared!Doing, L!Sub!Doing, SubmitShared!Reply,
    L!Sub!Reply, SubmitShared!Request, L!Sub!Request, SubmitShared!Row, L!Sub!Row,
    SubmitShared!SubmissionAssumption, L!Sub!SubmissionAssumption

LEMMA SubmitSharedBegins == SubmitShared!Init => L!Sub!Init
BY ZenonT(60)
DEF SubmitShared!Init, L!Sub!Init, SubmitShared!Runs, L!Sub!Runs

\* The two instances take the same steps.
LEMMA SubmitSharedTakesSteps == SubmitShared!Next => L!Sub!Next
<1>1. ASSUME NEW c \in AnyCall
      PROVE  /\ SubmitShared!ReadThread(c) => L!Sub!ReadThread(c)
             /\ SubmitShared!PrepareThread(c) => L!Sub!PrepareThread(c)
             /\ SubmitShared!ThreadMade(c) => L!Sub!ThreadMade(c)
             /\ SubmitShared!RunMade(c) => L!Sub!RunMade(c)
             /\ SubmitShared!RunRefused(c) => L!Sub!RunRefused(c)
  BY ZenonT(60)
  DEF SubmitShared!Fail, L!Sub!Fail, SubmitShared!Fresh, L!Sub!Fresh, SubmitShared!Leave,
      L!Sub!Leave, SubmitShared!PrepareThread, L!Sub!PrepareThread, SubmitShared!ReadThread,
      L!Sub!ReadThread, SubmitShared!RunMade, L!Sub!RunMade, SubmitShared!RunRefused,
      L!Sub!RunRefused, SubmitShared!RunRequest, L!Sub!RunRequest, SubmitShared!Send, L!Sub!Send,
      SubmitShared!Shows, L!Sub!Shows, SubmitShared!ThreadMade, L!Sub!ThreadMade,
      SubmitShared!ThreadRequest, L!Sub!ThreadRequest, SubmitShared!Working, L!Sub!Working,
      SubmitShared!disk, L!Sub!disk, SubmitShared!drawnKeys, L!Sub!drawnKeys, SubmitShared!service,
      L!Sub!service
<1>2. ASSUME NEW c \in AnyCall
      PROVE  /\ SubmitShared!RefreshReads(c) => L!Sub!RefreshReads(c)
             /\ SubmitShared!Opened(c) => L!Sub!Opened(c)
             /\ SubmitShared!Serve(c) => L!Sub!Serve(c)
             /\ SubmitShared!Lose(c) => L!Sub!Lose(c)
             /\ SubmitShared!Refresh(c) => L!Sub!Refresh(c)
  BY ZenonT(60)
  DEF SubmitShared!Answer, L!Sub!Answer, SubmitShared!Busy, L!Sub!Busy, SubmitShared!Fail,
      L!Sub!Fail, SubmitShared!Fresh, L!Sub!Fresh, SubmitShared!Handle, L!Sub!Handle,
      SubmitShared!Leave, L!Sub!Leave, SubmitShared!Lose, L!Sub!Lose, SubmitShared!Opened,
      L!Sub!Opened, SubmitShared!Refresh, L!Sub!Refresh, SubmitShared!RefreshReads,
      L!Sub!RefreshReads, SubmitShared!Runs, L!Sub!Runs, SubmitShared!Serve, L!Sub!Serve,
      SubmitShared!Shows, L!Sub!Shows, SubmitShared!SlotFree, L!Sub!SlotFree,
      SubmitShared!Unanswered, L!Sub!Unanswered, SubmitShared!Working, L!Sub!Working,
      SubmitShared!disk, L!Sub!disk, SubmitShared!drawnKeys, L!Sub!drawnKeys, SubmitShared!service,
      L!Sub!service
<1>3. ASSUME NEW c \in AnyCall
      PROVE  /\ SubmitShared!OpenRun(c) => L!Sub!OpenRun(c)
             /\ SubmitShared!Restart(c) => L!Sub!Restart(c)
  BY ZenonT(60)
  DEF SubmitShared!Fresh, L!Sub!Fresh, SubmitShared!Move, L!Sub!Move, SubmitShared!OpenRun,
      L!Sub!OpenRun, SubmitShared!Restart, L!Sub!Restart, SubmitShared!Shows, L!Sub!Shows,
      SubmitShared!Unanswered, L!Sub!Unanswered, SubmitShared!disk, L!Sub!disk,
      SubmitShared!drawnKeys, L!Sub!drawnKeys, SubmitShared!service, L!Sub!service
<1>4. ASSUME NEW c \in AnyCall, NEW q \in Query
      PROVE  SubmitShared!Submit(c, q) => L!Sub!Submit(c, q)
  BY ZenonT(60)
  DEF SubmitShared!Busy, L!Sub!Busy, SubmitShared!CanSubmit, L!Sub!CanSubmit, SubmitShared!Draws,
      L!Sub!Draws, SubmitShared!Fresh, L!Sub!Fresh, SubmitShared!PrepareRun, L!Sub!PrepareRun,
      SubmitShared!Submit, L!Sub!Submit, SubmitShared!service, L!Sub!service
<1>5. ASSUME NEW q \in stray
      PROVE  SubmitShared!Late(q) => L!Sub!Late(q)
  BY ZenonT(60)
  DEF SubmitShared!Answer, L!Sub!Answer, SubmitShared!Handle, L!Sub!Handle, SubmitShared!Late,
      L!Sub!Late, SubmitShared!Runs, L!Sub!Runs, SubmitShared!SlotFree, L!Sub!SlotFree,
      SubmitShared!disk, L!Sub!disk, SubmitShared!drawnKeys, L!Sub!drawnKeys
<1>6. ASSUME NEW r \in SubmitShared!Runs
      PROVE  SubmitShared!RunEnds(r) => L!Sub!RunEnds(r)
  BY ZenonT(60)
  DEF SubmitShared!RunEnds, L!Sub!RunEnds, SubmitShared!disk, L!Sub!disk, SubmitShared!drawnKeys,
      L!Sub!drawnKeys
<1>7. /\ SubmitShared!WatchTells => L!Sub!WatchTells
      /\ SubmitShared!Disturb => L!Sub!Disturb
      /\ SubmitShared!PrepareAnalysis => L!Sub!PrepareAnalysis
  BY ZenonT(60)
  DEF SubmitShared!Disturb, L!Sub!Disturb, SubmitShared!Move, L!Sub!Move,
      SubmitShared!PrepareAnalysis, L!Sub!PrepareAnalysis, SubmitShared!Shows, L!Sub!Shows,
      SubmitShared!WatchTells, L!Sub!WatchTells, SubmitShared!disk, L!Sub!disk,
      SubmitShared!drawnKeys, L!Sub!drawnKeys, SubmitShared!service, L!Sub!service
<1>8. SubmitShared!Runs = L!Sub!Runs
  BY ZenonT(60) DEF SubmitShared!Runs, L!Sub!Runs
<1> QED
  BY <1>1, <1>2, <1>3, <1>4, <1>5, <1>6, <1>7, <1>8
  DEF SubmitShared!Next, L!Sub!Next, SubmitShared!CallStep, L!Sub!CallStep

LEMMA SubmitKeeps ==
  /\ F!Sub!TypeOK => Submit!TypeOK
  /\ F!Sub!PendingIsNotDropped => Submit!PendingIsNotDropped
  /\ F!Sub!PendingIsShown => Submit!PendingIsShown
  /\ F!Sub!OneThread => Submit!OneThread
<1>1. F!Sub!TypeOK => Submit!TypeOK
  BY ZenonT(60)
  DEF Submit!Runs, F!Sub!Runs, Submit!TypeOK, F!Sub!TypeOK
<1>2. F!Sub!PendingIsNotDropped => Submit!PendingIsNotDropped
  BY ZenonT(60)
  DEF Submit!PendingIsNotDropped, F!Sub!PendingIsNotDropped
<1>3. F!Sub!PendingIsShown => Submit!PendingIsShown
  BY ZenonT(60)
  DEF Submit!PendingIsShown, F!Sub!PendingIsShown
<1>4. F!Sub!OneThread => Submit!OneThread
  BY ZenonT(60)
  DEF Submit!Cardinality, F!Sub!Cardinality, Submit!OneThread, F!Sub!OneThread
<1> QED BY <1>1, <1>2, <1>3, <1>4

LEMMA SubmitSharedKeeps ==
  /\ L!Sub!OneRunPerSubmission => SubmitShared!OneRunPerSubmission
  /\ L!Sub!StoredRunsExist => SubmitShared!StoredRunsExist
<1>1. L!Sub!OneRunPerSubmission => SubmitShared!OneRunPerSubmission
  BY ZenonT(60)
  DEF SubmitShared!Cardinality, L!Sub!Cardinality, SubmitShared!OneRunPerSubmission,
      L!Sub!OneRunPerSubmission, SubmitShared!Runs, L!Sub!Runs
<1>2. L!Sub!StoredRunsExist => SubmitShared!StoredRunsExist
  BY ZenonT(60)
  DEF SubmitShared!Runs, L!Sub!Runs, SubmitShared!StoredRunsExist, L!Sub!StoredRunsExist
<1> QED BY <1>1, <1>2

-----------------------------------------------------------------------------
(* Deciding *)

LEMMA DecideAssumed == F!Dec!DecisionsAssumption
BY ClientAssumption, ZenonT(60)
DEF Decide!Contradicted, F!Dec!Contradicted, Decide!DecisionsAssumption, F!Dec!DecisionsAssumption,
    Decide!Doing, F!Dec!Doing, Decide!Item, F!Dec!Item, Decide!Reply, F!Dec!Reply

LEMMA DecideBegins == Decide!Init => F!Dec!Init
BY ZenonT(60)
DEF Decide!Init, F!Dec!Init

\* The two instances take the same steps.
LEMMA DecideTakesSteps == Decide!Next => F!Dec!Next
<1>1. ASSUME NEW c \in Lone
      PROVE  /\ Decide!ReadItems(c) => F!Dec!ReadItems(c)
             /\ Decide!WriteItems(c) => F!Dec!WriteItems(c)
             /\ Decide!Conflict(c) => F!Dec!Conflict(c)
             /\ Decide!Reloaded(c) => F!Dec!Reloaded(c)
             /\ Decide!Listed(c) => F!Dec!Listed(c)
             /\ Decide!Serve(c) => F!Dec!Serve(c)
  BY ZenonT(60)
  DEF Decide!After, F!Dec!After, Decide!Answer, F!Dec!Answer, Decide!Bound, F!Dec!Bound,
      Decide!Conflict, F!Dec!Conflict, Decide!Contradicted, F!Dec!Contradicted, Decide!Current,
      F!Dec!Current, Decide!Fresh, F!Dec!Fresh, Decide!Handle, F!Dec!Handle, Decide!Leaves,
      F!Dec!Leaves, Decide!Listed, F!Dec!Listed, Decide!ReadItems, F!Dec!ReadItems, Decide!Reloaded,
      F!Dec!Reloaded, Decide!Sending, F!Dec!Sending, Decide!Serve, F!Dec!Serve, Decide!Working,
      F!Dec!Working, Decide!WriteItems, F!Dec!WriteItems, Decide!disk, F!Dec!disk, Decide!service,
      F!Dec!service
<1>2. ASSUME NEW c \in Lone
      PROVE  /\ Decide!Lose(c) => F!Dec!Lose(c)
             /\ Decide!Refresh(c) => F!Dec!Refresh(c)
             /\ Decide!RefreshMemories(c) => F!Dec!RefreshMemories(c)
  BY ZenonT(60)
  DEF Decide!Cardinality, F!Dec!Cardinality, Decide!Fresh, F!Dec!Fresh, Decide!Leaves, F!Dec!Leaves,
      Decide!Lose, F!Dec!Lose, Decide!Orders, F!Dec!Orders, Decide!Pending, F!Dec!Pending,
      Decide!Refresh, F!Dec!Refresh, Decide!RefreshMemories, F!Dec!RefreshMemories, Decide!Sending,
      F!Dec!Sending, Decide!disk, F!Dec!disk, Decide!service, F!Dec!service
<1>3. ASSUME NEW c \in Lone, NEW m \in Memory, NEW approved \in BOOLEAN
      PROVE  Decide!Decide(c, m, approved) => F!Dec!Decide(c, m, approved)
  BY ZenonT(60)
  DEF Decide!Decide, F!Dec!Decide, Decide!Fresh, F!Dec!Fresh, Decide!service, F!Dec!service
<1>4. ASSUME NEW k \in stray
      PROVE  Decide!Late(k) => F!Dec!Late(k)
  BY ZenonT(60)
  DEF Decide!After, F!Dec!After, Decide!Bound, F!Dec!Bound, Decide!Current, F!Dec!Current,
      Decide!Handle, F!Dec!Handle, Decide!Late, F!Dec!Late, Decide!disk, F!Dec!disk, Decide!service,
      F!Dec!service
<1>5. ASSUME NEW m \in Memory
      PROVE  /\ Decide!Elsewhere(m) => F!Dec!Elsewhere(m)
             /\ Decide!Expires(m) => F!Dec!Expires(m)
  BY ZenonT(60)
  DEF Decide!Elsewhere, F!Dec!Elsewhere, Decide!Expires, F!Dec!Expires, Decide!disk, F!Dec!disk
<1>6. Decide!Restart => F!Dec!Restart
  BY ZenonT(60)
  DEF Decide!Restart, F!Dec!Restart, Decide!Working, F!Dec!Working, Decide!disk, F!Dec!disk,
      Decide!service, F!Dec!service
<1> QED
  BY <1>1, <1>2, <1>3, <1>4, <1>5, <1>6
  DEF Decide!Next, F!Dec!Next, Decide!CallStep, F!Dec!CallStep

LEMMA DecideSharedAssumed == L!Dec!DecisionsAssumption
BY ClientAssumption, ZenonT(60)
DEF DecideShared!Contradicted, L!Dec!Contradicted, DecideShared!DecisionsAssumption,
    L!Dec!DecisionsAssumption, DecideShared!Doing, L!Dec!Doing, DecideShared!Item, L!Dec!Item,
    DecideShared!Reply, L!Dec!Reply

LEMMA DecideSharedBegins == DecideShared!Init => L!Dec!Init
BY ZenonT(60)
DEF DecideShared!Init, L!Dec!Init

\* The two instances take the same steps.
LEMMA DecideSharedTakesSteps == DecideShared!Next => L!Dec!Next
<1>1. ASSUME NEW c \in AnyCall
      PROVE  /\ DecideShared!ReadItems(c) => L!Dec!ReadItems(c)
             /\ DecideShared!WriteItems(c) => L!Dec!WriteItems(c)
             /\ DecideShared!Conflict(c) => L!Dec!Conflict(c)
             /\ DecideShared!Reloaded(c) => L!Dec!Reloaded(c)
             /\ DecideShared!Listed(c) => L!Dec!Listed(c)
             /\ DecideShared!Serve(c) => L!Dec!Serve(c)
  BY ZenonT(60)
  DEF DecideShared!After, L!Dec!After, DecideShared!Answer, L!Dec!Answer, DecideShared!Bound,
      L!Dec!Bound, DecideShared!Conflict, L!Dec!Conflict, DecideShared!Contradicted,
      L!Dec!Contradicted, DecideShared!Current, L!Dec!Current, DecideShared!Fresh, L!Dec!Fresh,
      DecideShared!Handle, L!Dec!Handle, DecideShared!Leaves, L!Dec!Leaves, DecideShared!Listed,
      L!Dec!Listed, DecideShared!ReadItems, L!Dec!ReadItems, DecideShared!Reloaded, L!Dec!Reloaded,
      DecideShared!Sending, L!Dec!Sending, DecideShared!Serve, L!Dec!Serve, DecideShared!Working,
      L!Dec!Working, DecideShared!WriteItems, L!Dec!WriteItems, DecideShared!disk, L!Dec!disk,
      DecideShared!service, L!Dec!service
<1>2. ASSUME NEW c \in AnyCall
      PROVE  /\ DecideShared!Lose(c) => L!Dec!Lose(c)
             /\ DecideShared!Refresh(c) => L!Dec!Refresh(c)
             /\ DecideShared!RefreshMemories(c) => L!Dec!RefreshMemories(c)
  BY ZenonT(60)
  DEF DecideShared!Cardinality, L!Dec!Cardinality, DecideShared!Fresh, L!Dec!Fresh,
      DecideShared!Leaves, L!Dec!Leaves, DecideShared!Lose, L!Dec!Lose, DecideShared!Orders,
      L!Dec!Orders, DecideShared!Pending, L!Dec!Pending, DecideShared!Refresh, L!Dec!Refresh,
      DecideShared!RefreshMemories, L!Dec!RefreshMemories, DecideShared!Sending, L!Dec!Sending,
      DecideShared!disk, L!Dec!disk, DecideShared!service, L!Dec!service
<1>3. ASSUME NEW c \in AnyCall, NEW m \in Memory, NEW approved \in BOOLEAN
      PROVE  DecideShared!Decide(c, m, approved) => L!Dec!Decide(c, m, approved)
  BY ZenonT(60)
  DEF DecideShared!Decide, L!Dec!Decide, DecideShared!Fresh, L!Dec!Fresh, DecideShared!service,
      L!Dec!service
<1>4. ASSUME NEW k \in stray
      PROVE  DecideShared!Late(k) => L!Dec!Late(k)
  BY ZenonT(60)
  DEF DecideShared!After, L!Dec!After, DecideShared!Bound, L!Dec!Bound, DecideShared!Current,
      L!Dec!Current, DecideShared!Handle, L!Dec!Handle, DecideShared!Late, L!Dec!Late,
      DecideShared!disk, L!Dec!disk, DecideShared!service, L!Dec!service
<1>5. ASSUME NEW m \in Memory
      PROVE  /\ DecideShared!Elsewhere(m) => L!Dec!Elsewhere(m)
             /\ DecideShared!Expires(m) => L!Dec!Expires(m)
  BY ZenonT(60)
  DEF DecideShared!Elsewhere, L!Dec!Elsewhere, DecideShared!Expires, L!Dec!Expires,
      DecideShared!disk, L!Dec!disk
<1>6. DecideShared!Restart => L!Dec!Restart
  BY ZenonT(60)
  DEF DecideShared!Restart, L!Dec!Restart, DecideShared!Working, L!Dec!Working, DecideShared!disk,
      L!Dec!disk, DecideShared!service, L!Dec!service
<1> QED
  BY <1>1, <1>2, <1>3, <1>4, <1>5, <1>6
  DEF DecideShared!Next, L!Dec!Next, DecideShared!CallStep, L!Dec!CallStep

LEMMA DecideKeeps ==
  /\ F!Dec!TypeOK => Decide!TypeOK
  /\ F!Dec!VerdictIsNotLost => Decide!VerdictIsNotLost
  /\ F!Dec!ToldIsStored => Decide!ToldIsStored
<1>1. F!Dec!TypeOK => Decide!TypeOK
  BY ZenonT(60)
  DEF Decide!Item, F!Dec!Item, Decide!TypeOK, F!Dec!TypeOK
<1>2. F!Dec!VerdictIsNotLost => Decide!VerdictIsNotLost
  BY ZenonT(60)
  DEF Decide!VerdictIsNotLost, F!Dec!VerdictIsNotLost
<1>3. F!Dec!ToldIsStored => Decide!ToldIsStored
  BY ZenonT(60)
  DEF Decide!ToldIsStored, F!Dec!ToldIsStored
<1> QED BY <1>1, <1>2, <1>3

LEMMA DecideSharedKeeps ==
  /\ L!Dec!DecidedAsGiven => DecideShared!DecidedAsGiven
  /\ L!Dec!BusyIsDeciding => DecideShared!BusyIsDeciding
<1>1. L!Dec!DecidedAsGiven => DecideShared!DecidedAsGiven
  BY ZenonT(60)
  DEF DecideShared!DecidedAsGiven, L!Dec!DecidedAsGiven
<1>2. L!Dec!BusyIsDeciding => DecideShared!BusyIsDeciding
  BY ZenonT(60)
  DEF DecideShared!BusyIsDeciding, L!Dec!BusyIsDeciding
<1> QED BY <1>1, <1>2

-----------------------------------------------------------------------------
(* The scenarios *)

\* What the proofs know of each.
Known ==
  /\ In("follow") => F!FollowInv
  /\ In("follow long") => L!FollowInv /\ L!Still
  /\ In("submit") => F!SubmissionInv /\ F!SubmitsAlone
  /\ In("submit shared") => L!SubmissionInv /\ L!KeysAreSubmitted /\ L!RunsHaveKeys
  /\ In("decide") => F!AloneInv
  /\ In("decide shared") => L!DecisionsInv /\ L!Dec!DecidedAsGiven /\ L!BusyInv

LEMMA CallsAreLimited == F!OneSubmitCall /\ F!OneDecideCall /\ L!OneFlow
BY ClientAssumption DEF F!OneSubmitCall, F!OneDecideCall, L!OneFlow

LEMMA KnownInit == MCInit => Known
<1>1. Init => F!FollowInv BY FollowBegins, F!FollowBegins, FollowAssumed
<1>2. Long!Init => L!FollowInv /\ L!Still
  BY LongBegins, L!FollowBegins, L!StillBegins, LongAssumed
<1>3. Submit!Init => F!SubmissionInv /\ F!SubmitsAlone
  BY SubmitBegins, SubmitAssumed, F!SubmissionBegins, F!SubmitsAloneBegins
<1>4. SubmitShared!Init => L!SubmissionInv /\ L!KeysAreSubmitted /\ L!RunsHaveKeys
  BY SubmitSharedBegins, SubmitSharedAssumed, L!SubmissionBegins, L!KeysBegin
<1>5. Decide!Init => F!AloneInv BY DecideBegins, DecideAssumed, F!VerdictsBegin
<1>6. DecideShared!Init => L!DecisionsInv /\ L!Dec!DecidedAsGiven /\ L!BusyInv
  BY DecideSharedBegins, DecideSharedAssumed, L!GivenBegins
<1> QED BY <1>1, <1>2, <1>3, <1>4, <1>5, <1>6 DEF MCInit, Known, In

\* A step of a scenario is a step its proofs are about.
LEMMA ScenarioSteps ==
  ASSUME [MCNext]_<<vars, submitting, deciding, calls, scenario>>
  PROVE  /\ UNCHANGED scenario
         /\ In("follow") => [F!Next]_(F!vars)
         /\ In("follow long") => [L!Next]_(L!vars)
         /\ In("submit") => [F!Sub!Next]_(F!Sub!vars)
         /\ In("submit shared") => [L!Sub!Next]_(L!Sub!vars)
         /\ In("decide") => [F!Dec!Next]_(F!Dec!vars)
         /\ In("decide shared") => [L!Dec!Next]_(L!Dec!vars)
<1>1. CASE MCNext
  BY <1>1, FollowTakesSteps, LongTakesSteps, SubmitTakesSteps, SubmitSharedTakesSteps,
     DecideTakesSteps, DecideSharedTakesSteps
  DEF MCNext, In
<1>2. CASE UNCHANGED <<vars, submitting, deciding, calls, scenario>>
  <2>1. UNCHANGED F!vars /\ UNCHANGED L!vars
    BY <1>2 DEF vars, server, disk, watch, F!vars, F!server, F!disk, F!watch, L!vars, L!server,
                L!disk, L!watch
  <2>2. UNCHANGED F!Sub!vars /\ UNCHANGED L!Sub!vars
    BY <1>2 DEF vars, disk, submitting, calls, F!Sub!vars, F!Sub!disk, F!Sub!service,
                F!Sub!drawnKeys, L!Sub!vars, L!Sub!disk, L!Sub!service, L!Sub!drawnKeys
  <2>3. UNCHANGED F!Dec!vars /\ UNCHANGED L!Dec!vars
    BY <1>2 DEF vars, deciding, calls, F!Dec!vars, F!Dec!disk, F!Dec!service, L!Dec!vars,
                L!Dec!disk, L!Dec!service
  <2> QED BY <1>2, <2>1, <2>2, <2>3
<1> QED BY <1>1, <1>2

LEMMA KnownStep ==
  ASSUME Known, [MCNext]_<<vars, submitting, deciding, calls, scenario>> PROVE Known'
<1> USE ScenarioSteps DEF Known, In
<1>1. CASE scenario = "follow"
  BY <1>1, F!FollowSteps, F!FollowStutters, FollowAssumed, ClientAssumption
<1>2. CASE scenario = "follow long"
  <2>1. L!FollowInv'
    BY <1>2, L!FollowSteps, L!FollowStutters, LongAssumed
  <2>2. L!Still'
    BY <1>2, L!FollowingIsStill, L!StillStutters, LongAssumed, CallsAreLimited
  <2> QED BY <1>2, <2>1, <2>2
<1>3. CASE scenario = "submit"
  BY <1>3, F!SubmissionStep, F!SubmitsAloneStep, SubmitAssumed, CallsAreLimited
<1>4. CASE scenario = "submit shared"
  BY <1>4, L!SubmissionStep, L!KeysStep, SubmitSharedAssumed
<1>5. CASE scenario = "decide"
  BY <1>5, F!VerdictsGoOn, DecideAssumed, CallsAreLimited
<1>6. CASE scenario = "decide shared"
  BY <1>6, L!DecisionsGoOn, L!DecidedGoesOn, L!BusyGoesOn, DecideSharedAssumed
<1> QED BY <1>1, <1>2, <1>3, <1>4, <1>5, <1>6

-----------------------------------------------------------------------------
(* The theorems *)

\* In every scenario: what the client has of a run is a prefix of its public events, and
\* it neither stores nor shows an end that has not happened; a response carries the cursor
\* of the end exactly when it says the run has ended, and a stream the service closes has
\* sent everything (repository.dart, local_store.dart, event_stream).
THEOREM RunsAreTold == MCSpec => []RunsAreTrue
<1>1. F!FollowInv => TypeOK /\ CacheIsAPrefix /\ EndsAreTrue
  BY F!FollowingIsTrue, FollowAssumed, FollowShows
<1>2. L!FollowInv => /\ Long!TypeOK /\ Long!CacheIsAPrefix /\ Long!EndsAreTrue
                     /\ Long!SnapshotsAgree /\ Long!ClosedStreamIsComplete
  BY L!FollowingIsTrue, LongAssumed, LongShows
<1>3. L!SubmissionInv => SubmitShared!StoredRunsExist
  BY SubmitSharedKeeps DEF L!SubmissionInv
<1>4. Known => RunsAreTrue BY <1>1, <1>2, <1>3 DEF Known, RunsAreTrue
<1> QED BY <1>4, KnownInit, KnownStep, PTL DEF MCSpec

\* A live run at rest on the screen is watched, with any number of calls that overlap; and
\* with one call at a time the subscription that counts is the one of the run on the screen
\* (_watch of view_model.dart).
THEOREM RunsAreFollowed == MCSpec => []LiveRunIsFollowed
<1>1. F!FollowInv => LiveRunIsWatched BY F!FollowingIsTrue, FollowAssumed, FollowShows
<1>2. L!FollowInv => Long!LiveRunIsWatched BY L!FollowingIsTrue, LongAssumed, LongShows
<1>3. L!Still => Long!WatchesWhatIsShown
  BY LongShows DEF L!Still, L!ShowsWatched, L!WatchesWhatIsShown
<1>4. Known => LiveRunIsFollowed BY <1>1, <1>2, <1>3 DEF Known, LiveRunIsFollowed
<1> QED BY <1>4, KnownInit, KnownStep, PTL DEF MCSpec

\* By one call at a time, what the user has submitted stays pending until its run is stored
\* or refused, the screen knows it at rest, and one thread is made; with any number of calls
\* that overlap, only this: a submission makes at most one run (repository.dart).
THEOREM SubmissionsStay == MCSpec => []SubmissionsAreKept
<1>1. ASSUME F!SubmissionInv, F!SubmitsAlone
      PROVE  /\ Submit!TypeOK /\ Submit!PendingIsNotDropped
             /\ Submit!PendingIsShown /\ Submit!OneThread
  BY <1>1, F!AloneIsKept, SubmitKeeps DEF F!SubmissionKept
<1>2. ASSUME L!SubmissionInv, L!KeysAreSubmitted, L!RunsHaveKeys
      PROVE  SubmitShared!OneRunPerSubmission
  BY <1>2, L!RunsAreCounted, SubmitSharedKeeps
<1>3. Known => SubmissionsAreKept BY <1>1, <1>2 DEF Known, SubmissionsAreKept
<1> QED BY <1>3, KnownInit, KnownStep, PTL DEF MCSpec

\* By one call at a time, a verdict is taken as given, contradicted or still pending, and the
\* list agrees with the answers; with any number of calls that overlap, the service approves
\* only what the user has approved, and a memory is busy exactly while a call decides on it
\* (decide, recoverDecisions).
THEOREM VerdictsStay == MCSpec => []VerdictsAreTrue
<1>1. F!AloneInv => Decide!TypeOK /\ Decide!VerdictIsNotLost /\ Decide!ToldIsStored
  BY F!VerdictsAreKept, DecideAssumed, DecideKeeps
<1>2. L!Dec!DecidedAsGiven /\ L!BusyInv
        => DecideShared!DecidedAsGiven /\ DecideShared!BusyIsDeciding
  BY DecideSharedKeeps DEF L!BusyInv
<1>3. Known => VerdictsAreTrue BY <1>1, <1>2 DEF Known, VerdictsAreTrue
<1> QED BY <1>3, KnownInit, KnownStep, PTL DEF MCSpec

\* The cursor of a run never goes back, however the calls that follow it overlap; nor does
\* the version of a memory in the list, while calls do not overlap (applyEvent, saveRun,
\* _applyDecision).
THEOREM NothingIsTakenBack == MCSpec => NothingGoesBack
<1>1. ASSUME Known, [MCNext]_<<vars, submitting, deciding, calls, scenario>>
      PROVE  [/\ In("follow") => \A r \in Run : CursorAdvances(r)
              /\ In("decide") => \A m \in Memory : Decide!ItemAdvances(m)]_<<cache, items>>
  <2>1. ASSUME In("follow"), F!Next PROVE \A r \in Run : CursorAdvances(r)
    <3>1. F!FollowInv BY <1>1, <2>1 DEF Known
    <3> QED
      BY <2>1, <3>1, F!CursorsAdvance, FollowAssumed, ClientAssumption
      DEF CursorAdvances, F!CursorAdvances
  <2>2. ASSUME In("follow"), UNCHANGED F!vars PROVE UNCHANGED cache
    BY <2>2 DEF F!vars, F!disk
  <2>3. ASSUME In("decide") PROVE \A m \in Memory : Decide!ItemAdvances(m)
    BY <1>1, <2>3, ScenarioSteps, F!VerdictsGoOn, DecideAssumed, CallsAreLimited
    DEF Known, Decide!ItemAdvances, F!Dec!ItemAdvances
  <2>4. In("follow") => ~In("decide") BY DEF In
  <2>5. In("follow") => UNCHANGED <<cache, items>> \/ \A r \in Run : CursorAdvances(r)
    <3>1. In("follow") => UNCHANGED items
      BY <1>1 DEF In, MCNext, deciding, vars
    <3> QED BY <1>1, <2>1, <2>2, <3>1, ScenarioSteps
  <2> QED BY <2>3, <2>4, <2>5
<1>2. Known /\ [MCNext]_<<vars, submitting, deciding, calls, scenario>>
        => [/\ In("follow") => \A r \in Run : CursorAdvances(r)
            /\ In("decide") => \A m \in Memory : Decide!ItemAdvances(m)]_<<cache, items>>
  BY <1>1
<1> QED BY <1>2, KnownInit, KnownStep, PTL DEF MCSpec, NothingGoesBack
=============================================================================
