----------------------------- MODULE RunFollowing -----------------------------
(***************************************************************************)
(* How the Android client follows a run: the service streams the run's     *)
(* public events (delivery_service.event_stream), the client applies them  *)
(* to its own SQLite copy (local_store, repository.followRun), and the     *)
(* view model (view_model) decides which run is watched and shown.         *)
(*                                                                         *)
(* The log of a run is the service's; an event is a position in it.  A     *)
(* connection may break at any point, the phone may kill the client at any *)
(* await.  One client step is the code between two awaits that leave the   *)
(* process (the network, the cancellation of a subscription): an await on  *)
(* the local database ends within the step.                                *)
(***************************************************************************)
EXTENDS Naturals, Sequences, FiniteSets, SequencesExt

CONSTANTS
  Run,
  Follower,     \* subscriptions of followRun that may be alive at once
  Flow,         \* openRun, refresh, initialize calls that may be alive at once
  MaxProgress,  \* events of a run before its end
  Page,         \* events of one list_events
  MaxBreaks,    \* connections that break
  Moves,        \* what the user and the phone do: a subset of AllMoves
  MaxMoves,     \* how often
  None

AllMoves == {"open", "refresh", "suspend", "settings", "kill", "restore"}

Kinds == {"step", "audit", "final", "done"}

\* What the tables keep of a run; a read of a run; the service's side of a stream; a
\* running followRun; a running openRun, refresh or updateSettings.
Record == [status : {"live", "ended"}, cursor : Nat, applied : Seq(Nat)]
Read == [run : Run, stage : {"asked", "row", "answered"}, row : Seq(Kinds), last : Nat]
Response == [run : Run, after : Nat, stage : {"list", "check"}]
Subscription ==
  [run : Run, stage : {"opening", "reading", "resetting", "restoring"}, cursor : Nat,
   again : BOOLEAN, fatal : BOOLEAN, rest : {None} \cup Read]
Operation ==
  [kind : {"open", "refresh", "settings"}, stage : {"stopping", "restoring", "listing", "listed"},
   run : {None} \cup Run, waits : {None} \cup Follower, valid : BOOLEAN,
   rest : {None} \cup Read, list : [Run -> Seq(Kinds)]]

ASSUME FollowingAssumption ==
  /\ Moves \subseteq AllMoves
  /\ Page \in Nat \ {0}
  /\ None \notin Run \cup Follower \cup Record \cup Read \cup Response \cup Subscription \cup Operation

TwoAttempts == 2

MaxAttempts == 3

VARIABLES
  log,        \* run -> sequence of the kinds of event the service has committed
  stream,     \* follower -> the service's side of its response, None when over
  wire,       \* follower -> public events sent and not read yet
  cache,      \* run -> its record in SQLite, None before
  selected,   \* selected_run in SQLite, None before
  follower,   \* follower -> a running followRun, None without
  flow,       \* flow -> a running openRun, refresh or updateSettings, None without
  watching,   \* the subscription whose callbacks count (_watch), None without
  timer,      \* the run the retry timer will watch again, None when not set
  attempts,   \* _attempts
  view,       \* the run AppViewState shows, with the status it shows, and phase
  suspended,  \* _suspended
  asked,      \* the run the user has opened last, None before
  breaks, moves

server == <<log, stream, wire>>
disk == <<cache, selected>>
watch == <<watching, timer, attempts>>
vars == <<server, disk, follower, flow, watch, view, suspended, asked, breaks, moves>>

-----------------------------------------------------------------------------
(* The log and what a reader sees of it                                    *)

Public(s) == {i \in DOMAIN s : s[i] # "audit"}
LastPublic(s) == Max({0} \cup Public(s))
Status(s) == IF "done" \in Range(s) THEN "ended" ELSE "live"

\* The events of a page in the order of their sequence numbers (ORDER BY).
Ascending(S) ==
  CHOOSE s \in [1 .. Cardinality(S) -> S] : \A i, j \in DOMAIN s : i < j => s[i] < s[j]

\* The public events of s after cursor c, one page of them.
PageAfter(s, c) ==
  LET ids == Ascending({i \in Public(s) : i > c})
      page == SubSeq(ids, 1, IF Len(ids) < Page THEN Len(ids) ELSE Page)
  IN [n \in DOMAIN page |-> [id |-> page[n], kind |-> s[page[n]]]]

Progress(r) ==
  /\ Status(log[r]) = "live" /\ Len(log[r]) < MaxProgress
  /\ \E k \in {"step", "audit"} : log' = [log EXCEPT ![r] = Append(@, k)]
  /\ UNCHANGED <<stream, wire, disk, follower, flow, watch, view, suspended, asked, breaks, moves>>

Finish(r) ==
  /\ Status(log[r]) = "live"
  /\ log' = [log EXCEPT ![r] = @ \o <<"final", "done">>]
  /\ UNCHANGED <<stream, wire, disk, follower, flow, watch, view, suspended, asked, breaks, moves>>

\* A move of the user or of the phone.
Move(m) == m \in Moves /\ moves < MaxMoves /\ moves' = moves + 1

\* The tables are put back to a state of theirs from before the run ended.
RestoreTables(r) ==
  /\ Move("restore")
  /\ \E n \in 0 .. MaxProgress :
       n < Len(log[r]) /\ log' = [log EXCEPT ![r] = SubSeq(@, 1, n)]
  /\ UNCHANGED <<stream, wire, disk, follower, flow, watch, view, suspended, asked, breaks>>

-----------------------------------------------------------------------------
(* GET /v1/runs/{id}: the row is read, then the last public event, in one  *)
(* snapshot of the log; the answer travels back.                           *)

Request(r) == [run |-> r, stage |-> "asked", row |-> <<>>, last |-> 0]

ReadRow(q) == [q EXCEPT !.stage = "row", !.row = log[q.run]]

\* Two reads without a common snapshot.
ReadLastNow(q) == [q EXCEPT !.stage = "answered", !.last = LastPublic(log[q.run])]

ReadLast(q) == [q EXCEPT !.stage = "answered", !.last = LastPublic(q.row)]

Serve(q) == IF q.stage = "asked" THEN ReadRow(q) ELSE ReadLast(q)

Pending(q) == q # None /\ q.stage # "answered"
Answered(q) == q # None /\ q.stage = "answered"

-----------------------------------------------------------------------------
(* The client's tables                                                     *)

\* The end of a stream taken for the end of the run.
SavedAsEnded(r, status) == [status |-> "ended", cursor |-> 0, applied |-> <<>>]

\* The progress of before is dropped.
SavedAfresh(r, status) == [status |-> status, cursor |-> 0, applied |-> <<>>]

\* saveRun: the fields of the response, the cursor and the steps of before.
Saved(r, status) ==
  [status |-> status,
   cursor |-> IF cache[r] = None THEN 0 ELSE cache[r].cursor,
   applied |-> IF cache[r] = None THEN <<>> ELSE cache[r].applied]

SaveRun(r, status) == cache' = [cache EXCEPT ![r] = Saved(r, status)]

ResetRunEvents(r, status) ==
  cache' = [cache EXCEPT ![r] = [status |-> status, cursor |-> 0, applied |-> <<>>]]

\* Events are applied as they come.
AppliedAgain(c, e) ==
  [status |-> IF e.kind = "done" THEN "ended" ELSE c.status,
   cursor |-> e.id,
   applied |-> Append(c.applied, e.id)]

\* The kind of the last event for the status of its run.
AppliedKind(c, e) ==
  IF e.id <= c.cursor THEN c
  ELSE [status |-> IF e.kind = "done" THEN e.kind ELSE c.status,
        cursor |-> e.id,
        applied |-> Append(c.applied, e.id)]

\* applyEvent: an event the record already has changes nothing.
Applied(c, e) ==
  IF e.id <= c.cursor THEN c
  ELSE [status |-> IF e.kind = "done" THEN "ended" ELSE c.status,
        cursor |-> e.id,
        applied |-> Append(c.applied, e.id)]

-----------------------------------------------------------------------------
(* The view                                                                *)

Shown(r, status, phase) == [run |-> r, status |-> status, phase |-> phase]
Busy == view.phase = "recovering"

StopWatching == watching' = None /\ timer' = None /\ UNCHANGED attempts

\* A subscription that another call waits for is not a fresh one.
Fresh(f) ==
  follower[f] = None /\ f \notin {flow[w].waits : w \in {w \in Flow : flow[w] # None}}

\* _beginWatching: what was watched is cancelled and not waited for.
BeginWatching(f, r, retry) ==
  IF suspended THEN UNCHANGED <<follower, watch>>
  ELSE /\ Fresh(f)
       /\ follower' = [follower EXCEPT ![f] =
            [run |-> r, stage |-> "opening", cursor |-> cache'[r].cursor,
             again |-> FALSE, fatal |-> FALSE, rest |-> None]]
       /\ watching' = f /\ timer' = None
       /\ attempts' = IF retry THEN attempts ELSE 0

ScheduleRetry(r) ==
  IF attempts >= MaxAttempts \/ suspended THEN UNCHANGED <<timer, attempts>>
  ELSE timer' = r /\ attempts' = attempts + 1

\* The listener of subscription f: an emission counts when f is the one watched.
Emit(f, r, status) ==
  view' = IF watching = f THEN Shown(r, status, "ready") ELSE view

-----------------------------------------------------------------------------
(* followRun.  A cancelled subscription runs on until its next yield.      *)

Follows(f, stage) == follower[f] # None /\ follower[f].stage = stage
Goes(f, stage) == [follower[f] EXCEPT !.stage = stage, !.rest = Request(follower[f].run)]

\* Cancelled at a yield: the generator ends there.
Yields(f, next) ==
  IF watching = f
  THEN follower' = [follower EXCEPT ![f] = next] /\ UNCHANGED stream
  ELSE follower' = [follower EXCEPT ![f] = None] /\ stream' = [stream EXCEPT ![f] = None]

\* The cursor is checked against the run before the response starts.
OpenStream(f) ==
  /\ Follows(f, "opening")
  /\ follower[f].cursor <= LastPublic(log[follower[f].run])
  /\ stream' = [stream EXCEPT ![f] = [run |-> follower[f].run, after |-> follower[f].cursor,
                                      stage |-> "list"]]
  /\ wire' = [wire EXCEPT ![f] = <<>>]
  /\ follower' = [follower EXCEPT ![f].stage = "reading"]
  /\ UNCHANGED <<log, disk, flow, watch, view, suspended, asked, breaks, moves>>

\* 400 invalid_cursor: once, the cursor is given up for a snapshot.
InvalidCursor(f) ==
  /\ Follows(f, "opening")
  /\ follower[f].cursor > LastPublic(log[follower[f].run])
  /\ follower' = [follower EXCEPT ![f] =
       IF @.again THEN [Goes(f, "restoring") EXCEPT !.fatal = TRUE] ELSE Goes(f, "resetting")]
  /\ UNCHANGED <<server, disk, flow, watch, view, suspended, asked, breaks, moves>>

ResetEvents(f) ==
  /\ Follows(f, "resetting") /\ Answered(follower[f].rest)
  /\ LET r == follower[f].run  s == Status(follower[f].rest.row)
     IN /\ ResetRunEvents(r, s) /\ Emit(f, r, s)
        /\ Yields(f, [follower[f] EXCEPT !.stage = "opening", !.cursor = 0,
                                         !.again = TRUE, !.rest = None])
  /\ UNCHANGED <<log, wire, selected, flow, watch, suspended, asked, breaks, moves>>

\* event_stream: a page of events, then the state of the run, and again.
ListEvents(f) ==
  /\ stream[f] # None /\ stream[f].stage = "list"
  /\ stream[f].after <= LastPublic(log[stream[f].run])
  /\ LET page == PageAfter(log[stream[f].run], stream[f].after)
     IN /\ wire' = [wire EXCEPT ![f] = @ \o page]
        /\ stream' = [stream EXCEPT ![f] =
             IF \E n \in DOMAIN page : page[n].kind = "done" THEN None
             ELSE [@ EXCEPT !.stage = "check",
                            !.after = IF page = <<>> THEN stream[f].after
                                      ELSE page[Len(page)].id]]
  /\ UNCHANGED <<log, disk, follower, flow, watch, view, suspended, asked, breaks, moves>>

\* The stream of an ended run is closed whatever it has sent.
CheckStatus(f) ==
  /\ stream[f] # None /\ stream[f].stage = "check"
  /\ stream' = [stream EXCEPT ![f] =
       IF Status(log[@.run]) = "ended" THEN None ELSE [@ EXCEPT !.stage = "list"]]
  /\ UNCHANGED <<log, wire, disk, follower, flow, watch, view, suspended, asked, breaks, moves>>

CheckRun(f) ==
  /\ stream[f] # None /\ stream[f].stage = "check"
  /\ LET s == log[stream[f].run]
     IN stream' = [stream EXCEPT ![f] =
          IF Status(s) = "ended" /\ @.after >= LastPublic(s) THEN None
          ELSE [@ EXCEPT !.stage = "list"]]
  /\ UNCHANGED <<log, wire, disk, follower, flow, watch, view, suspended, asked, breaks, moves>>

ReadEvent(f) ==
  /\ Follows(f, "reading") /\ wire[f] # <<>>
  /\ LET r == follower[f].run
         e == Head(wire[f])
         c == Applied(cache[r], e)
     IN /\ cache' = [cache EXCEPT ![r] = c]
        /\ Emit(f, r, c.status)
        /\ IF e.kind = "done"
           THEN Yields(f, Goes(f, "restoring")) ELSE Yields(f, follower[f])
  /\ wire' = [wire EXCEPT ![f] = IF watching = f THEN Tail(@) ELSE <<>>]
  /\ UNCHANGED <<log, selected, flow, watch, suspended, asked, breaks, moves>>

EndOfStream(f) ==
  /\ Follows(f, "reading") /\ wire[f] = <<>> /\ stream[f] = None
  /\ follower' = [follower EXCEPT ![f] = Goes(f, "restoring")]
  /\ UNCHANGED <<server, disk, flow, watch, view, suspended, asked, breaks, moves>>

\* The stream is cut: by the network, or by the service when its own cursor
\* has become invalid.
Cut(f) ==
  /\ stream' = [stream EXCEPT ![f] = None]
  /\ wire' = [wire EXCEPT ![f] = <<>>]
  /\ follower' = [follower EXCEPT ![f] = Goes(f, "restoring")]
  /\ UNCHANGED <<log, disk, flow, watch, view, suspended, asked, moves>>

BreakStream(f) ==
  /\ Follows(f, "opening") \/ Follows(f, "reading")
  /\ breaks < MaxBreaks /\ breaks' = breaks + 1
  /\ Cut(f)

StreamRaises(f) ==
  /\ stream[f] # None /\ stream[f].stage = "list"
  /\ stream[f].after > LastPublic(log[stream[f].run])
  /\ Cut(f)
  /\ UNCHANGED breaks

\* onError with a failure that may be retried.
FailWatch(f) ==
  IF watching = f
  THEN /\ view' = [view EXCEPT !.phase = "error"]
       /\ watching' = None /\ ScheduleRetry(follower[f].run)
  ELSE UNCHANGED <<view, watch>>

\* The stream is over: the run is read back, and the subscription ends.
RestoreRun(f) ==
  /\ Follows(f, "restoring") /\ Answered(follower[f].rest)
  /\ LET r == follower[f].run  s == Status(follower[f].rest.row)
     IN /\ SaveRun(r, s)
        /\ IF watching # f THEN UNCHANGED <<view, watch>>
           ELSE /\ view' = Shown(r, s, IF follower[f].fatal THEN "error" ELSE "ready")
                /\ watching' = None
                /\ IF follower[f].fatal \/ s = "ended" THEN UNCHANGED <<timer, attempts>>
                   ELSE ScheduleRetry(r)
        /\ follower' = [follower EXCEPT ![f] = None]
        /\ stream' = [stream EXCEPT ![f] = None]
        /\ wire' = [wire EXCEPT ![f] = <<>>]
  /\ UNCHANGED <<log, selected, flow, suspended, asked, breaks, moves>>

BreakRest(f) ==
  /\ follower[f] # None /\ follower[f].rest # None
  /\ breaks < MaxBreaks /\ breaks' = breaks + 1
  /\ FailWatch(f)
  /\ follower' = [follower EXCEPT ![f] = None]
  /\ stream' = [stream EXCEPT ![f] = None]
  /\ wire' = [wire EXCEPT ![f] = <<>>]
  /\ UNCHANGED <<log, disk, flow, suspended, asked, moves>>

ServeFollower(f) ==
  /\ follower[f] # None /\ Pending(follower[f].rest)
  /\ follower' = [follower EXCEPT ![f].rest = Serve(@)]
  /\ UNCHANGED <<server, disk, flow, watch, view, suspended, asked, breaks, moves>>

TimerFires ==
  /\ timer # None
  /\ UNCHANGED <<server, disk, flow, view, suspended, asked, breaks, moves>>
  /\ \E f \in Follower : BeginWatching(f, timer, TRUE)

-----------------------------------------------------------------------------
(* openRun, refresh, initialize and updateSettings                          *)

NewFlow(kind, stage, r) ==
  [kind |-> kind, stage |-> stage, run |-> r, waits |-> None, valid |-> TRUE,
   rest |-> None, list |-> [x \in Run |-> <<>>]]

\* A subscription that is being cancelled has ended.
Cancelled(w) == flow[w].waits # None => follower[flow[w].waits] = None

At(w, kind, stage) == flow[w] # None /\ flow[w].kind = kind /\ flow[w].stage = stage
Leaves(w) == flow' = [flow EXCEPT ![w] = None]

\* What refresh shows at once, and where it begins: with nothing shown there is
\* no run to read back.
Refreshing(r) ==
  IF r = None THEN NewFlow("refresh", "listing", None)
  ELSE [NewFlow("refresh", "restoring", r) EXCEPT !.rest = Request(r)]

\* What was watched stays watched.
OpenBesides(w, r) ==
  /\ Move("open") /\ ~suspended /\ flow[w] = None
  /\ asked' = r
  /\ flow' = [flow EXCEPT ![w] = NewFlow("open", "stopping", r)]
  /\ UNCHANGED <<server, disk, follower, watch, view, suspended, breaks>>

OpenRun(w, r) ==
  /\ Move("open") /\ ~suspended /\ flow[w] = None
  /\ asked' = r
  /\ StopWatching
  /\ flow' = [flow EXCEPT ![w] = [NewFlow("open", "stopping", r) EXCEPT !.waits = watching]]
  /\ UNCHANGED <<server, disk, follower, view, suspended, breaks>>

SelectRun(w) ==
  /\ At(w, "open", "stopping") /\ Cancelled(w)
  /\ LET r == flow[w].run
     IN /\ selected' = r
        /\ view' = IF cache[r] = None THEN Shown(None, "live", "recovering")
                   ELSE Shown(r, cache[r].status, "recovering")
        /\ flow' = [flow EXCEPT ![w].stage = "restoring", ![w].waits = None,
                                ![w].rest = Request(r)]
  /\ UNCHANGED <<server, cache, follower, watch, suspended, asked, breaks, moves>>

\* A flow of before updateSettings changes the tables and nothing else.
OpenShows(w) ==
  /\ At(w, "open", "restoring") /\ Answered(flow[w].rest)
  /\ LET r == flow[w].run  s == Status(flow[w].rest.row)
     IN /\ SaveRun(r, s)
        /\ IF ~flow[w].valid THEN UNCHANGED <<view, follower, watch>>
           ELSE /\ view' = Shown(r, s, "ready")
                /\ IF s = "ended" THEN UNCHANGED <<follower, watch>>
                   ELSE \E f \in Follower : BeginWatching(f, r, FALSE)
  /\ Leaves(w)
  /\ UNCHANGED <<server, selected, suspended, asked, breaks, moves>>

Refresh(w) ==
  /\ Move("refresh") /\ ~suspended /\ flow[w] = None
  /\ flow' = [flow EXCEPT ![w] = Refreshing(view.run)]
  /\ view' = [view EXCEPT !.phase = "recovering"]
  /\ UNCHANGED <<server, disk, follower, watch, suspended, asked, breaks>>

RefreshShows(w) ==
  /\ At(w, "refresh", "restoring") /\ Answered(flow[w].rest)
  /\ LET r == flow[w].run  s == Status(flow[w].rest.row)
     IN /\ SaveRun(r, s)
        /\ view' = IF flow[w].valid THEN Shown(r, s, view.phase) ELSE view
        /\ flow' = [flow EXCEPT ![w] =
             IF flow[w].valid THEN NewFlow("refresh", "listing", None) ELSE None]
  /\ UNCHANGED <<server, selected, follower, watch, suspended, asked, breaks, moves>>

\* listRuns: one snapshot of all the runs.
ListRuns(w) ==
  /\ At(w, "refresh", "listing")
  /\ flow' = [flow EXCEPT ![w].stage = "listed", ![w].list = log]
  /\ UNCHANGED <<server, disk, follower, watch, view, suspended, asked, breaks, moves>>

\* loadHistory has stored the list, or has failed; the refresh ends all the same.
RefreshEnds(w, loaded) ==
  /\ IF loaded
     THEN /\ At(w, "refresh", "listed")
          /\ cache' = [r \in Run |-> Saved(r, Status(flow[w].list[r]))]
          /\ UNCHANGED breaks
     ELSE /\ At(w, "refresh", "listing") \/ At(w, "refresh", "listed")
          /\ breaks < MaxBreaks /\ breaks' = breaks + 1
          /\ UNCHANGED cache
  /\ IF ~flow[w].valid THEN UNCHANGED <<view, follower, watch>>
     ELSE /\ view' = [view EXCEPT !.phase = "ready"]
          /\ IF view.run = None \/ view.status = "ended" THEN UNCHANGED <<follower, watch>>
             ELSE \E f \in Follower : BeginWatching(f, view.run, FALSE)
  /\ Leaves(w)
  /\ UNCHANGED <<server, selected, suspended, asked, moves>>

\* The read of openRun or refresh fails.
FlowFails(w) ==
  /\ flow[w] # None /\ flow[w].rest # None
  /\ breaks < MaxBreaks /\ breaks' = breaks + 1
  /\ view' = IF flow[w].valid THEN [view EXCEPT !.phase = "error"] ELSE view
  /\ Leaves(w)
  /\ UNCHANGED <<server, disk, follower, watch, suspended, asked, moves>>

ServeFlow(w) ==
  /\ flow[w] # None /\ Pending(flow[w].rest)
  /\ flow' = [flow EXCEPT ![w].rest = Serve(@)]
  /\ UNCHANGED <<server, disk, follower, watch, view, suspended, asked, breaks, moves>>

Suspend ==
  /\ Move("suspend") /\ ~suspended
  /\ suspended' = TRUE
  /\ StopWatching
  /\ UNCHANGED <<server, disk, follower, flow, view, asked, breaks>>

\* Back in front without a look at the service.
ResumeAsWas(w) ==
  /\ suspended
  /\ suspended' = FALSE
  /\ UNCHANGED <<server, disk, follower, flow, view, watch, asked, breaks, moves>>

\* Back in front; a view that is busy is left to what it is busy with.
Resume(w) ==
  /\ suspended
  /\ suspended' = FALSE
  /\ IF Busy THEN UNCHANGED <<flow, view>>
     ELSE /\ flow[w] = None
          /\ flow' = [flow EXCEPT ![w] = Refreshing(view.run)]
          /\ view' = [view EXCEPT !.phase = "recovering"]
  /\ UNCHANGED <<server, disk, follower, watch, asked, breaks, moves>>

\* The view as the tables have it (_activate), and a refresh of it.
Loaded == IF selected = None \/ cache[selected] = None THEN Shown(None, "live", "recovering")
          ELSE Shown(selected, cache[selected].status, "recovering")

\* updateSettings with a new token: what is under way no longer counts, but for a
\* call that waits in _stopWatching: openRun takes its generation after that, and
\* _activate compares none.
UpdateSettings(w) ==
  /\ Move("settings") /\ ~suspended /\ flow[w] = None
  /\ StopWatching
  /\ flow' = [x \in Flow |->
       IF x = w THEN [NewFlow("settings", "stopping", None) EXCEPT !.waits = watching]
       ELSE IF flow[x] = None \/ flow[x].stage = "stopping" THEN flow[x]
       ELSE [flow[x] EXCEPT !.valid = FALSE]]
  /\ UNCHANGED <<server, disk, follower, view, suspended, asked, breaks>>

Activate(w) ==
  /\ At(w, "settings", "stopping") /\ Cancelled(w)
  /\ view' = Loaded
  /\ flow' = [flow EXCEPT ![w] = Refreshing(Loaded.run)]
  /\ UNCHANGED <<server, disk, follower, watch, suspended, asked, breaks, moves>>

\* The process is killed and started again (initialize).
Restart(w) ==
  /\ Move("kill")
  /\ follower' = [f \in Follower |-> None]
  /\ stream' = [f \in Follower |-> None]
  /\ wire' = [f \in Follower |-> <<>>]
  /\ watching' = None /\ timer' = None /\ attempts' = 0
  /\ suspended' = FALSE /\ asked' = None
  /\ view' = Loaded
  /\ flow' = [x \in Flow |-> IF x = w THEN Refreshing(Loaded.run) ELSE None]
  /\ UNCHANGED <<log, disk, breaks>>

-----------------------------------------------------------------------------
\* A run has been created and its answer stored (completeRun); submit watches it.
Init ==
  \E r \in Run, f \in Follower :
    /\ log = [x \in Run |-> <<>>]
    /\ stream = [x \in Follower |-> None]
    /\ wire = [x \in Follower |-> <<>>]
    /\ cache = [x \in Run |-> IF x = r THEN [status |-> "live", cursor |-> 0, applied |-> <<>>]
                              ELSE None]
    /\ selected = r
    /\ follower = [x \in Follower |->
         IF x = f THEN [run |-> r, stage |-> "opening", cursor |-> 0,
                        again |-> FALSE, fatal |-> FALSE, rest |-> None]
         ELSE None]
    /\ flow = [w \in Flow |-> None]
    /\ watching = f /\ timer = None /\ attempts = 0
    /\ view = Shown(r, "live", "ready")
    /\ suspended = FALSE /\ asked = None /\ breaks = 0 /\ moves = 0

FollowerStep(f) ==
  \/ OpenStream(f) \/ InvalidCursor(f) \/ ResetEvents(f) \/ ListEvents(f) \/ CheckRun(f)
  \/ ReadEvent(f) \/ EndOfStream(f) \/ StreamRaises(f) \/ RestoreRun(f) \/ ServeFollower(f)

FlowStep(w) ==
  \/ SelectRun(w) \/ OpenShows(w) \/ RefreshShows(w) \/ ListRuns(w) \/ RefreshEnds(w, TRUE)
  \/ ServeFlow(w) \/ Activate(w)

Next ==
  \/ \E r \in Run : Progress(r) \/ Finish(r) \/ RestoreTables(r)
  \/ \E f \in Follower : FollowerStep(f) \/ BreakStream(f) \/ BreakRest(f)
  \/ TimerFires
  \/ \E w \in Flow, r \in Run : OpenRun(w, r)
  \/ \E w \in Flow :
       \/ FlowStep(w) \/ Refresh(w) \/ RefreshEnds(w, FALSE) \/ FlowFails(w)
       \/ Resume(w) \/ UpdateSettings(w) \/ Restart(w)
  \/ Suspend

Spec == Init /\ [][Next]_vars

\* A request is answered or its connection breaks, a timer fires, a run ends
\* (its deadline sees to that), and the user comes back to the client.
Fairness ==
  /\ \A r \in Run : WF_vars(Finish(r))
  /\ \A f \in Follower : WF_vars(FollowerStep(f))
  /\ \A w \in Flow : WF_vars(FlowStep(w)) /\ WF_vars(Resume(w))
  /\ WF_vars(TimerFires)

FairSpec == Spec /\ Fairness

-----------------------------------------------------------------------------
TypeOK ==
  /\ log \in [Run -> Seq(Kinds)]
  /\ \A r \in Run : cache[r] = None \/ cache[r] \in Record
  /\ selected \in Run \cup {None}
  /\ watching \in Follower \cup {None} /\ timer \in Run \cup {None}
  /\ attempts \in 0 .. MaxAttempts
  /\ view \in [run : Run \cup {None}, status : {"live", "ended"},
               phase : {"ready", "recovering", "error"}]

\* However streams break, overlap or are read back, what the client has of a
\* run is exactly the public events up to its cursor, each once and in order
\* (applyEvent and its cursor in one transaction, saveRun keeping both).
CacheIsAPrefix ==
  \A r \in Run : cache[r] # None =>
    /\ cache[r].cursor \in {0} \cup Public(log[r])
    /\ cache[r].applied = Ascending({i \in Public(log[r]) : i <= cache[r].cursor})

\* No end is made up: a run the client stores or shows as ended has ended.
EndsAreTrue ==
  /\ \A r \in Run : cache[r] # None /\ cache[r].status = "ended" => Status(log[r]) = "ended"
  /\ view.run # None /\ view.status = "ended" => Status(log[view.run]) = "ended"

\* A response that says the run is live does not carry the cursor of its end,
\* and one that says it has ended does (get_run reads one snapshot).
SnapshotsAgree ==
  \A q \in {follower[f].rest : f \in {f \in Follower : follower[f] # None}}
            \cup {flow[w].rest : w \in {w \in Flow : flow[w] # None}} :
    Answered(q) =>
      LET atEnd == q.last \in DOMAIN log[q.run] /\ log[q.run][q.last] = "done"
      IN atEnd <=> Status(q.row) = "ended"

\* A stream the service has closed by itself has sent everything, to the last
\* event: its reader is at the end of the log once it has read the wire.
ClosedStreamIsComplete ==
  \A f \in Follower : Follows(f, "reading") /\ stream[f] = None =>
    LET r == follower[f].run
        sent == {wire[f][n].id : n \in DOMAIN wire[f]} \cup {0, cache[r].cursor}
    IN Status(log[r]) = "ended" /\ Max(sent) = Len(log[r])

\* A live run on a screen that is at rest and in front is being watched, or will
\* be by the timer, or its retries are used up.
LiveRunIsWatched ==
  /\ view.run # None /\ view.status = "live" /\ view.phase = "ready" /\ ~suspended
  /\ \A w \in Flow : flow[w] = None
  => watching # None \/ timer # None \/ attempts = MaxAttempts

\* With one call at a time, the screen shows the run whose subscription is watched
\* (openRun, refresh); of two that overlap, either may have the screen.
WatchesWhatIsShown ==
  watching # None => view.run = follower[watching].run

\* Only a run the service has refused the cursor of loses its progress.
CursorAdvances(r) == cache[r] # None => cache'[r].cursor >= cache[r].cursor
=============================================================================
