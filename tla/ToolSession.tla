------------------------------ MODULE ToolSession ------------------------------
(* app/tools/client.py: the synchronous call_tool over one MCP session. The session
   lives in a thread with an event loop of its own; callers start it once, under a
   lock, and wait for answers with a time limit. The tool server is a child process
   that works on one request after the other (app/tools/server.py). *)
EXTENDS Naturals, Sequences, FiniteSets, SequencesExt

CONSTANTS Caller,     \* threads that call tools
          MaxCalls,   \* bound: calls of one caller
          None

VARIABLES
  pc,       \* per caller: "idle", "ensure", "waiting" for ready, "sending", "called"
  asked,    \* per caller: the number of its last request
  end,      \* per caller: how its last call ended, and the request that was answered
  lock,     \* the caller that holds _lock
  session,  \* _session is set
  err,      \* _err
  ready,    \* _ready
  thread,   \* the loop's thread: "none", "starting", "serving", "ended"
  started,  \* threads started so far
  alive,    \* the server process answers
  queue     \* requests the server has not answered

vars == <<pc, asked, end, lock, session, err, ready, thread, started, alive, queue>>

Errors == {"MCPClientError", "other"}

ToolAssumption == MaxCalls \in Nat /\ None \notin Caller \cup Errors

-----------------------------------------------------------------------------
(* A call *)

Call(c) ==
  /\ pc[c] = "idle" /\ asked[c] < MaxCalls
  /\ pc' = [pc EXCEPT ![c] = "ensure"]
  /\ asked' = [asked EXCEPT ![c] = @ + 1]
  /\ UNCHANGED <<end, lock, session, err, ready, thread, started, alive, queue>>

Ends(c, how) ==
  /\ pc' = [pc EXCEPT ![c] = "idle"]
  /\ end' = [end EXCEPT ![c] = [how |-> how, n |-> 0]]

\* A start that failed is tried again.
EnsureStartedAgain(c) ==
  /\ pc[c] = "ensure" /\ lock = None
  /\ IF session
     THEN pc' = [pc EXCEPT ![c] = "sending"] /\ UNCHANGED <<lock, thread, started>>
     ELSE /\ pc' = [pc EXCEPT ![c] = "waiting"]
          /\ lock' = c
          /\ thread' = "starting" /\ started' = started + 1
  /\ UNCHANGED <<asked, end, session, err, ready, alive, queue>>

\* _ensure_started up to the wait: the first caller starts the thread and keeps the lock.
EnsureStarted(c) ==
  /\ pc[c] = "ensure" /\ lock = None
  /\ IF session
     THEN /\ pc' = [pc EXCEPT ![c] = "sending"]
          /\ UNCHANGED <<end, lock, thread, started>>
     ELSE IF err # None
     THEN /\ Ends(c, err)
          /\ UNCHANGED <<lock, thread, started>>
     ELSE /\ pc' = [pc EXCEPT ![c] = "waiting"]
          /\ lock' = c
          /\ thread' = "starting" /\ started' = started + 1
          /\ UNCHANGED end
  /\ UNCHANGED <<asked, session, err, ready, alive, queue>>

\* Whoever finds _ready set goes on.
WaitReadyUnchecked(c) ==
  /\ pc[c] = "waiting" /\ ready
  /\ lock' = None
  /\ pc' = [pc EXCEPT ![c] = "sending"]
  /\ UNCHANGED <<asked, end, session, err, ready, thread, started, alive, queue>>

\* _ready is set: the session is there, or the error of its start is raised.
WaitReady(c) ==
  /\ pc[c] = "waiting" /\ ready
  /\ lock' = None
  /\ IF err # None THEN Ends(c, err)
     ELSE /\ pc' = [pc EXCEPT ![c] = "sending"]
          /\ UNCHANGED end
  /\ UNCHANGED <<asked, session, err, ready, thread, started, alive, queue>>

\* The lock is forgotten on the way out.
WaitTimesOutLocked(c) ==
  /\ pc[c] = "waiting" /\ ~ready
  /\ err' = "MCPClientError"
  /\ Ends(c, "MCPClientError")
  /\ UNCHANGED <<asked, lock, session, ready, thread, started, alive, queue>>

\* Twenty seconds. The thread goes on starting.
WaitTimesOut(c) ==
  /\ pc[c] = "waiting" /\ ~ready
  /\ err' = "MCPClientError"
  /\ lock' = None
  /\ Ends(c, "MCPClientError")
  /\ UNCHANGED <<asked, session, ready, thread, started, alive, queue>>

\* run_coroutine_threadsafe: a loop that has ended refuses the call.
Send(c) ==
  /\ pc[c] = "sending"
  /\ IF thread = "ended"
     THEN Ends(c, "other") /\ UNCHANGED queue
     ELSE /\ pc' = [pc EXCEPT ![c] = "called"]
          /\ queue' = Append(queue, [by |-> c, n |-> asked[c]])
          /\ UNCHANGED end
  /\ UNCHANGED <<asked, lock, session, err, ready, thread, started, alive>>

\* Thirty seconds. The request stays with the server.
CallTimesOut(c) ==
  /\ pc[c] = "called"
  /\ Ends(c, "MCPClientError")
  /\ UNCHANGED <<asked, lock, session, err, ready, thread, started, alive, queue>>

\* A caller's wait is taken for any request of that caller.
WaitsForAnything(request) == pc[request.by] = "called"

Waits(request) == pc[request.by] = "called" /\ asked[request.by] = request.n

\* The server answers its oldest request, with a result or an error; nobody may be left
\* to hear it.
Answer(how) ==
  /\ alive /\ thread = "serving" /\ queue # <<>>
  /\ LET request == Head(queue) IN
     IF Waits(request)
     THEN /\ pc' = [pc EXCEPT ![request.by] = "idle"]
          /\ end' = [end EXCEPT ![request.by] = [how |-> how, n |-> request.n]]
     ELSE UNCHANGED <<pc, end>>
  /\ queue' = Tail(queue)
  /\ UNCHANGED <<asked, lock, session, err, ready, thread, started, alive>>

-----------------------------------------------------------------------------
(* The thread *)

ServeReady ==
  /\ thread = "starting"
  /\ thread' = "serving" /\ session' = TRUE /\ ready' = TRUE
  /\ UNCHANGED <<pc, asked, end, lock, err, started, alive, queue>>

Pending == {c \in Caller : pc[c] = "called"}

\* asyncio.run cancels what is pending when it ends.
LoopEnds ==
  /\ thread' = "ended"
  /\ pc' = [c \in Caller |-> IF c \in Pending THEN "idle" ELSE pc[c]]
  /\ end' = [c \in Caller |-> IF c \in Pending THEN [how |-> "other", n |-> 0] ELSE end[c]]
  /\ queue' = <<>>

\* The exception itself is kept as how the call ended.
ServeFailsRaw ==
  /\ thread = "starting"
  /\ err' = "FileNotFoundError" /\ ready' = TRUE
  /\ LoopEnds
  /\ UNCHANGED <<asked, lock, session, started, alive>>

\* The child cannot be started or has gone. _session stays as it is.
ServeFails ==
  /\ thread = "starting" \/ (thread = "serving" /\ ~alive)
  /\ err' = "other" /\ ready' = TRUE
  /\ LoopEnds
  /\ UNCHANGED <<asked, lock, session, started, alive>>

\* The server process dies; the loop may notice it or not.
ServerDies ==
  /\ thread = "serving" /\ alive
  /\ alive' = FALSE
  /\ UNCHANGED <<pc, asked, end, lock, session, err, ready, thread, started, queue>>

\* atexit
Close ==
  /\ thread = "serving"
  /\ LoopEnds
  /\ UNCHANGED <<asked, lock, session, err, ready, started, alive>>

Init ==
  /\ pc = [c \in Caller |-> "idle"] /\ asked = [c \in Caller |-> 0]
  /\ end = [c \in Caller |-> [how |-> None, n |-> 0]]
  /\ lock = None /\ session = FALSE /\ err = None /\ ready = FALSE
  /\ thread = "none" /\ started = 0 /\ alive = TRUE /\ queue = <<>>

Step(c) ==
  EnsureStarted(c) \/ WaitReady(c) \/ WaitTimesOut(c) \/ Send(c) \/ CallTimesOut(c)

Next ==
  \/ \E c \in Caller : Call(c) \/ Step(c)
  \/ \E how \in {"ok", "MCPClientError"} : Answer(how)
  \/ ServeReady \/ ServeFails \/ ServerDies \/ Close

Spec == Init /\ [][Next]_vars

\* A thread that can run does: the lock is fair enough, time limits pass.
FairSpec == Spec /\ \A c \in Caller : SF_vars(Step(c))

-----------------------------------------------------------------------------
(* Properties *)

TypeOK ==
  /\ pc \in [Caller -> {"idle", "ensure", "waiting", "sending", "called"}]
  /\ asked \in [Caller -> 0 .. MaxCalls]
  /\ end \in [Caller -> [how : Errors \cup {"ok", None}, n : 0 .. MaxCalls]]
  /\ lock \in Caller \cup {None} /\ session \in BOOLEAN /\ ready \in BOOLEAN
  /\ err \in Errors \cup {None}
  /\ thread \in {"none", "starting", "serving", "ended"}
  /\ started \in Nat /\ alive \in BOOLEAN
  /\ queue \in Seq([by : Caller, n : 1 .. MaxCalls])

(* One server process for the life of the program (the module's docstring, "S2"), however
   many threads call first and however its start ends. *)
OneServer == started <= 1

(* An answer is that of the caller's last request, also when the server is still busy with
   one the caller gave up (call_tool's time limit does not cancel it). *)
AnswersAreOwn ==
  \A c \in Caller : pc[c] = "idle" /\ end[c].n # 0 => end[c].n = asked[c]

(* A caller that goes on past _ensure_started has a session: the assertion of call_tool. *)
SessionWhenSending == \A c \in Caller : pc[c] \in {"sending", "called"} => session
=============================================================================
