---------------------------- MODULE ClientDecisions ----------------------------
(***************************************************************************)
(* How the Android client decides on proposed memories: a verdict is       *)
(* stored with the version it was given on and a key before it is sent     *)
(* (repository.decideMemory), sent again by refresh (recoverDecisions),    *)
(* and forgotten when the service has taken or contradicted it.  The       *)
(* client's list of memories is one row of SQLite, which every answer      *)
(* reads and writes back.  A step is the code between two awaits of the    *)
(* network, but the list is read and written back in two steps.            *)
(***************************************************************************)
EXTENDS Naturals, Sequences, FiniteSets

CONSTANTS
  Memory,
  Call,       \* decide, refresh and refreshMemories calls that may be alive at once
  MaxKeys,    \* verdicts the user gives
  MaxLost,    \* requests or answers that are lost or late
  MaxMoves,   \* kills, periods that end, decisions by somebody else
  None

Item == [version : 1 .. MaxKeys + MaxMoves + 1,
         status : {"pending", "approved", "rejected", "elsewhere"}]

\* What a verdict is answered that no longer counts.
Contradicted == [version |-> 0, status |-> "conflict"]

\* What the service says of a verdict or of the list, and what a call is doing.
Reply == {Contradicted} \cup Item \cup [Memory -> Item]
Doing == [kind : {"decide", "refresh", "list"},
          stage : {"posting", "merging", "reloading", "listing"},
          key : {None} \cup Nat, todo : Seq(Nat), list : {<<>>} \cup [Memory -> Item],
          answer : {None} \cup Reply]

DecisionsAssumption ==
  /\ MaxKeys \in Nat /\ MaxLost \in Nat /\ MaxMoves \in Nat
  /\ None \notin Memory \cup Call \cup Nat \cup Reply \cup Doing

VARIABLES
  fact,      \* the service: memory -> its version and status
  expired,   \* the service: memories whose period is over
  receipt,   \* the service: key -> the answer it is bound to
  items,     \* SQLite: memory -> its version and status as last stored
  op,        \* SQLite: memory -> the key of the pending verdict, None without
  verdict,   \* key -> memory, approved and expected version it was drawn for
  told,      \* keys the client has had an answer to
  call,      \* call -> what it is doing, None without
  view,      \* the memories shown, and memoryBusy
  stray,     \* verdicts under way that no call waits for
  lost, moves

service == <<fact, expired, receipt>>
disk == <<items, op>>
vars == <<service, disk, verdict, told, call, view, stray, lost, moves>>

-----------------------------------------------------------------------------
(* The service (MemoryLedger): a verdict counts on the version it was given on *)

Bound(k) == k \in DOMAIN receipt
Current(k) ==
  /\ fact[verdict[k].memory].version = verdict[k].expected
  /\ fact[verdict[k].memory].status = "pending"
  /\ ~(verdict[k].approved /\ verdict[k].memory \in expired)

\* Whatever the verdict was.
AfterApproval(k) == [version |-> verdict[k].expected + 1, status |-> "approved"]

After(k) == [version |-> verdict[k].expected + 1,
             status |-> IF verdict[k].approved THEN "approved" ELSE "rejected"]

Answer(k) == IF Bound(k) THEN receipt[k] ELSE IF Current(k) THEN After(k) ELSE Contradicted

Handle(k) ==
  IF Bound(k) \/ ~Current(k) THEN UNCHANGED service
  ELSE /\ fact' = [fact EXCEPT ![verdict[k].memory] = After(k)]
       /\ receipt' = [x \in DOMAIN receipt \cup {k} |-> IF x = k THEN After(k) ELSE receipt[x]]
       /\ UNCHANGED expired

\* Another device decides.
Elsewhere(m) ==
  /\ moves < MaxMoves /\ moves' = moves + 1
  /\ fact[m].status = "pending"
  /\ fact' = [fact EXCEPT ![m] = [version |-> @.version + 1, status |-> "elsewhere"]]
  /\ UNCHANGED <<expired, receipt, disk, verdict, told, call, view, stray, lost>>

Expires(m) ==
  /\ moves < MaxMoves /\ moves' = moves + 1
  /\ expired' = expired \cup {m}
  /\ UNCHANGED <<fact, receipt, disk, verdict, told, call, view, stray, lost>>

-----------------------------------------------------------------------------
(* The client                                                              *)

Working(c, stage) == call[c] # None /\ call[c].stage = stage

Fresh(kind, stage) ==
  [kind |-> kind, stage |-> stage, key |-> None, todo |-> <<>>, list |-> <<>>, answer |-> None]

\* One slot for all the verdicts.
DecideInOneSlot(c, m, approved) ==
  /\ call[c] = None /\ m \notin view.busy /\ view.items[m].status = "pending"
  /\ Len(verdict) < MaxKeys /\ op[m] = None
  /\ verdict' = Append(verdict, [memory |-> m, approved |-> approved,
                                 expected |-> view.items[m].version])
  /\ op' = [x \in Memory |-> Len(verdict')]
  /\ call' = [call EXCEPT ![c] = [Fresh("decide", "posting") EXCEPT !.key = Len(verdict')]]
  /\ view' = [view EXCEPT !.busy = @ \cup {m}]
  /\ UNCHANGED <<service, items, told, stray, lost, moves>>

\* The verdict is shown and stored as taken when it is given.
DecideAtOnce(c, m, approved) ==
  /\ call[c] = None /\ m \notin view.busy /\ view.items[m].status = "pending"
  /\ Len(verdict) < MaxKeys /\ op[m] = None
  /\ verdict' = Append(verdict, [memory |-> m, approved |-> approved,
                                 expected |-> view.items[m].version])
  /\ op' = [op EXCEPT ![m] = Len(verdict')]
  /\ items' = [items EXCEPT ![m] = [version |-> @.version + 1, status |-> "approved"]]
  /\ call' = [call EXCEPT ![c] = [Fresh("decide", "posting") EXCEPT !.key = Len(verdict')]]
  /\ view' = [view EXCEPT !.busy = @ \cup {m}]
  /\ UNCHANGED <<service, told, stray, lost, moves>>

\* decide: the pending verdict if it is the same, one under a new key otherwise.
Decide(c, m, approved) ==
  LET body == [memory |-> m, approved |-> approved, expected |-> view.items[m].version]
      sends(k) == /\ call' = [call EXCEPT ![c] = [Fresh("decide", "posting") EXCEPT !.key = k]]
                  /\ view' = [view EXCEPT !.busy = @ \cup {m}]
  IN /\ call[c] = None /\ m \notin view.busy /\ view.items[m].status = "pending"
     /\ \/ /\ op[m] = None /\ Len(verdict) < MaxKeys
           /\ verdict' = Append(verdict, body)
           /\ op' = [op EXCEPT ![m] = Len(verdict')]
           /\ sends(Len(verdict'))
        \/ /\ op[m] # None /\ verdict[op[m]] = body
           /\ sends(op[m])
           /\ UNCHANGED <<verdict, op>>
        \/ /\ op[m] # None /\ verdict[op[m]] # body
           /\ view' = [view EXCEPT !.items = items]
           /\ UNCHANGED <<verdict, op, call>>
     /\ UNCHANGED <<service, items, told, stray, lost, moves>>

\* refresh sends what is pending, one after the other, and lists the memories.
Sending(todo) == IF todo = <<>> THEN Fresh("refresh", "listing")
               ELSE [Fresh("refresh", "posting") EXCEPT !.key = Head(todo), !.todo = Tail(todo)]

Pending == {op[m] : m \in Memory} \ {None}
Orders == {s \in [1 .. Cardinality(Pending) -> Pending] :
             \A i, j \in 1 .. Cardinality(Pending) : s[i] = s[j] => i = j}

Refresh(c) ==
  /\ call[c] = None
  /\ \A x \in Call : call[x] # None => call[x].kind # "refresh"
  /\ \E todo \in Orders : call' = [call EXCEPT ![c] = Sending(todo)]
  /\ UNCHANGED <<service, disk, verdict, told, view, stray, lost, moves>>

\* A list asked for by itself (refreshMemories).
RefreshMemories(c) ==
  /\ call[c] = None
  /\ call' = [call EXCEPT ![c] = Fresh("list", "listing")]
  /\ UNCHANGED <<service, disk, verdict, told, view, stray, lost, moves>>

\* The memory is left busy.
LeavesBusy(c) ==
  /\ call' = [call EXCEPT ![c] = None]
  /\ view' = IF call[c].kind # "decide" THEN view ELSE [view EXCEPT !.items = items']

\* What a call leaves: its memory is no longer busy, and decide shows the list.
Leaves(c) ==
  /\ call' = [call EXCEPT ![c] = None]
  /\ view' = IF call[c].kind # "decide" THEN view
             ELSE [items |-> items', busy |-> view.busy \ {verdict[call[c].key].memory}]

\* _applyDecision: the answer is in, the list is read.
ReadItems(c) ==
  /\ Working(c, "posting") /\ call[c].answer \notin {None, Contradicted}
  /\ told' = told \cup {call[c].key}
  /\ call' = [call EXCEPT ![c].stage = "merging", ![c].list = items]
  /\ UNCHANGED <<service, disk, verdict, view, stray, lost, moves>>

\* The item of the answer replaces the one of the list; the verdict is forgotten.
WriteItems(c) ==
  /\ Working(c, "merging")
  /\ LET m == verdict[call[c].key].memory
     IN items' = [call[c].list EXCEPT ![m] = call[c].answer] /\ op' = [op EXCEPT ![m] = None]
  /\ IF call[c].kind = "refresh"
     THEN call' = [call EXCEPT ![c] = Sending(@.todo)] /\ UNCHANGED view
     ELSE Leaves(c)
  /\ UNCHANGED <<service, verdict, told, stray, lost, moves>>

\* The verdict is given up without a look at what contradicts it.
ConflictForgets(c) ==
  /\ Working(c, "posting") /\ call[c].answer = Contradicted
  /\ op' = [op EXCEPT ![verdict[call[c].key].memory] = None]
  /\ told' = told \cup {call[c].key}
  /\ UNCHANGED items
  /\ Leaves(c)
  /\ UNCHANGED <<service, verdict, stray, lost, moves>>

\* 409: the list is loaded again before the verdict is given up.
Conflict(c) ==
  /\ Working(c, "posting") /\ call[c].answer = Contradicted
  /\ told' = told \cup {call[c].key}
  /\ call' = [call EXCEPT ![c].stage = "reloading", ![c].answer = None]
  /\ UNCHANGED <<service, disk, verdict, view, stray, lost, moves>>

\* The verdict stays although it can no longer be taken.
ReloadedKeeps(c) ==
  /\ Working(c, "reloading") /\ call[c].answer # None
  /\ items' = call[c].answer
  /\ UNCHANGED op
  /\ Leaves(c)
  /\ UNCHANGED <<service, verdict, told, stray, lost, moves>>

\* The conflict ends the call, and with it a refresh.
Reloaded(c) ==
  /\ Working(c, "reloading") /\ call[c].answer # None
  /\ items' = call[c].answer
  /\ op' = [op EXCEPT ![verdict[call[c].key].memory] = None]
  /\ Leaves(c)
  /\ UNCHANGED <<service, verdict, told, stray, lost, moves>>

Listed(c) ==
  /\ Working(c, "listing") /\ call[c].answer # None
  /\ items' = call[c].answer
  /\ view' = [view EXCEPT !.items = items']
  /\ call' = [call EXCEPT ![c] = None]
  /\ UNCHANGED <<service, op, verdict, told, stray, lost, moves>>

-----------------------------------------------------------------------------
Serve(c) ==
  /\ call[c] # None /\ call[c].answer = None
  /\ \/ /\ call[c].stage = "posting"
        /\ call' = [call EXCEPT ![c].answer = Answer(call[c].key)]
        /\ Handle(call[c].key)
     \/ /\ call[c].stage \in {"listing", "reloading"}
        /\ call' = [call EXCEPT ![c].answer = fact]
        /\ UNCHANGED service
  /\ UNCHANGED <<disk, verdict, told, view, stray, lost, moves>>

\* No answer ends the operation.
LoseForgets(c) ==
  /\ call[c] # None /\ call[c].stage = "posting"
  /\ lost < MaxLost /\ lost' = lost + 1
  /\ stray' = stray \cup {call[c].key}
  /\ op' = [op EXCEPT ![verdict[call[c].key].memory] = None]
  /\ UNCHANGED items
  /\ Leaves(c)
  /\ UNCHANGED <<service, verdict, told, moves>>

\* A timeout or a broken connection; the service may handle the verdict later.
Lose(c) ==
  /\ call[c] # None /\ call[c].stage # "merging"
  /\ lost < MaxLost /\ lost' = lost + 1
  /\ stray' = IF call[c].stage = "posting" THEN stray \cup {call[c].key} ELSE stray
  /\ UNCHANGED disk
  /\ Leaves(c)
  /\ UNCHANGED <<service, verdict, told, moves>>

Late(k) ==
  /\ k \in stray
  /\ stray' = stray \ {k}
  /\ Handle(k)
  /\ UNCHANGED <<disk, verdict, told, call, view, lost, moves>>

\* The process is killed; the view is read from the table.
Restart ==
  /\ moves < MaxMoves /\ moves' = moves + 1
  /\ stray' = stray \cup {call[c].key : c \in {c \in Call : Working(c, "posting")}}
  /\ call' = [c \in Call |-> None]
  /\ view' = [items |-> items, busy |-> {}]
  /\ UNCHANGED <<service, disk, verdict, told, lost>>

-----------------------------------------------------------------------------
\* A list of proposals has been loaded.
Init ==
  /\ fact = [m \in Memory |-> [version |-> 1, status |-> "pending"]]
  /\ expired = {} /\ receipt = <<>>
  /\ items = fact /\ op = [m \in Memory |-> None]
  /\ verdict = <<>> /\ told = {}
  /\ call = [c \in Call |-> None]
  /\ view = [items |-> fact, busy |-> {}]
  /\ stray = {} /\ lost = 0 /\ moves = 0

CallStep(c) ==
  ReadItems(c) \/ WriteItems(c) \/ Conflict(c) \/ Reloaded(c) \/ Listed(c) \/ Serve(c)

Next ==
  \/ \E c \in Call :
       \/ CallStep(c) \/ Lose(c) \/ Refresh(c) \/ RefreshMemories(c)
       \/ \E m \in Memory, approved \in BOOLEAN : Decide(c, m, approved)
  \/ \E k \in stray : Late(k)
  \/ \E m \in Memory : Elsewhere(m) \/ Expires(m)
  \/ Restart

Spec == Init /\ [][Next]_vars

\* A call goes on, and a user with a pending verdict comes back to the client.
Fairness ==
  /\ \A c \in Call : WF_vars(CallStep(c))
  /\ SF_vars(Pending # {} /\ \E c \in Call : Refresh(c))

FairSpec == Spec /\ Fairness

-----------------------------------------------------------------------------
TypeOK ==
  /\ fact \in [Memory -> Item] /\ items \in [Memory -> Item]
  /\ \A m \in Memory : op[m] # None => verdict[op[m]].memory = m
  /\ view.items \in [Memory -> Item] /\ view.busy \subseteq Memory
  /\ DOMAIN receipt \subseteq DOMAIN verdict /\ told \subseteq DOMAIN verdict

\* A verdict of the user is taken, contradicted, or still stored: it does not get
\* lost in a kill, a lost answer, or behind another verdict in the same slot.
VerdictIsNotLost ==
  \A k \in DOMAIN verdict :
    LET m == verdict[k].memory
    IN op[m] = k \/ k \in told \/ fact[m].version > verdict[k].expected

\* The service decides only what the user has decided, on the version he saw.
DecidedAsGiven ==
  \A m \in Memory : fact[m].status = "approved" =>
    \E k \in DOMAIN receipt : /\ verdict[k].memory = m /\ verdict[k].approved
                              /\ fact[m].version = verdict[k].expected + 1

\* A memory is busy while a call decides on it, and no longer.
BusyIsDeciding ==
  view.busy = {verdict[call[c].key].memory :
                 c \in {c \in Call : call[c] # None /\ call[c].kind = "decide"}}

\* Without calls under way, what the client was told of a verdict is in its list:
\* the version that follows it or contradicts it, unless the proposal has expired.
ToldIsStored ==
  (\A c \in Call : call[c] = None) =>
    \A k \in told :
      \/ items[verdict[k].memory].version > verdict[k].expected
      \/ op[verdict[k].memory] = k
      \/ verdict[k].approved /\ verdict[k].memory \in expired

\* The client's list never takes back what it has said.
ItemAdvances(m) == items'[m].version >= items[m].version
=============================================================================
