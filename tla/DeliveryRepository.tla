------------------------- MODULE DeliveryRepository -------------------------
(***************************************************************************)
(* The durable state of the Android delivery service and the transactions  *)
(* that write it (app/storage/delivery_repository.py).                     *)
(*                                                                         *)
(* Every write transaction starts with the same advisory lock              *)
(* (DeliveryRepository._lock), so a transaction is one atomic step of this *)
(* module, with one exception: the transaction that commits a result reads *)
(* the database clock twice, on entry and again before it commits, and the *)
(* deadline can pass in between.  It is therefore two steps, BeginResult   *)
(* and CommitResult, and `txn' is the run it holds the lock for.           *)
(*                                                                         *)
(* Nothing is assumed about the callers: any process incarnation that has  *)
(* started may call any operation for any run at any time.  A database     *)
(* failure rolls a transaction back, which is a stuttering step for the    *)
(* one-step transactions and RollBack for the result.                      *)
(***************************************************************************)
EXTENDS Naturals, Sequences, FiniteSets

CONSTANTS
  Owner,         \* incarnations of the API process (DeliveryService.owner)
  Run,           \* run identifiers (uuid4)
  Key,           \* idempotency keys
  Thread,        \* thread identifiers (uuid4)
  Query,         \* bodies of a run request
  Score,         \* bodies of a feedback request
  LegacyThread,  \* threads created before migration 006: no receipt
  LegacyRun,     \* runs created before migration 006: no owner, no receipt
  Cap,           \* DEMO_MONTHLY_RUN_CAP
  Months,        \* bound: calendar months the usage counters cover
  MaxProgress,   \* bound: worker events recorded for one run
  None           \* SQL NULL, or no row

ASSUME RepositoryAssumption ==
  /\ IsFiniteSet(Run)
  /\ LegacyThread \subseteq Thread
  /\ LegacyRun \subseteq Run
  /\ Cap \in Nat
  /\ Months \in Nat \ {0}
  /\ MaxProgress \in Nat
  /\ None \notin Owner \cup Run \cup Key \cup Thread \cup Query \cup Score

VARIABLES
  threads,   \* threads: thread -> its idempotency key, None when absent
  runs,      \* run_records: run -> row, NoRow when absent
  lapsed,    \* run -> length of its log when the deadline passed, 0 before
  log,       \* run_events: run -> events in sequence_no order
  receipts,  \* delivery_operations: key -> receipt, None when absent
  usage,     \* usage_counters: month -> run_count, 0 when absent
  month,     \* the current month in Asia/Shanghai
  started,   \* incarnations that have run recover_interrupted
  txn,       \* the run whose result is being committed, and for whom
  answers    \* key -> the resources its successful answers have named

vars == <<threads, runs, lapsed, log, receipts, usage, month, started, txn,
          answers>>

-----------------------------------------------------------------------------
(* Rows, events and receipts *)

Live == {"queued", "running"}
Terminal == {"completed", "failed"}

NoRow == [status |-> "absent", owner |-> None, key |-> None, thread |-> None,
          query |-> None, month |-> 0, feedback |-> None]

Row == [status : {"absent"} \cup Live \cup Terminal, owner : Owner \cup {None},
        key : Key \cup {None}, thread : Thread \cup {None},
        query : Query \cup {None}, month : 0..Months,
        feedback : Score \cup {None}]

\* What a worker may report: a public progress event or an internal audit one.
Progress == {"progress", "audit"}

\* The events of an ending; "learning" stands for all the internal ones of a
\* result (traces, candidates, the internal copy of the answer).
FailureEvents == <<"run_failed", "error", "done">>
ResultEvents == <<"learning", "node_completed", "evidence", "final", "done">>
Kind == Progress \cup {"query_ingested", "meta", "learning", "run_failed",
        "error", "node_completed", "evidence", "final", "done"}

Event == [kind : Kind, by : Owner]

\* append_run_event, once per kind: the log grows by the events, in order.
Extend(s, kinds, o) ==
  s \o [i \in 1..Len(kinds) |-> [kind |-> kinds[i], by |-> o]]

\* Worker events among the first events of a log.
ProgressIn(s) == {i \in DOMAIN s : s[i].kind \in Progress}

Operation == {"create_thread", "create_run", "feedback"}
Resource == Thread \cup Run
Answer == [op : Operation, id : Resource]

Fingerprint(op, on, body) == [op |-> op, on |-> on, body |-> body]
Receipt == [print : [op : Operation, on : Resource \cup {None},
                     body : Query \cup Score \cup {None}],
            id : Resource]

Result == [run : Run, owner : Owner]

\* NULL is no row of a table.
ASSUME NullAssumption == None \notin Receipt /\ None \notin Result

LockFree == txn = None

Present(r) == runs[r].status # "absent"
IsLive(r) == runs[r].status \in Live

-----------------------------------------------------------------------------
(* Idempotency: _operation decides whether a key replays, is free, or is   *)
(* already bound to something else (409, no state change).                 *)

Replays(k, print) == receipts[k] # None /\ receipts[k].print = print

\* Bug: a key of before the receipts is taken for a new one.
UnboundByReceipt(k, op) == receipts[k] = None

Unbound(k, op) ==
  /\ receipts[k] = None
  /\ op # "create_thread" => \A t \in Thread : threads[t] # k
  /\ op # "create_run" => \A r \in Run : runs[r].key # k

File(k, op, on, body, id) ==
  /\ receipts' = [receipts EXCEPT ![k] = [print |-> Fingerprint(op, on, body), id |-> id]]
  /\ answers' = [answers EXCEPT ![k] = @ \cup {[op |-> op, id |-> id]}]

\* A replayed receipt: the stored response is returned, nothing is written.
Replay(k, op, on, body) ==
  /\ Replays(k, Fingerprint(op, on, body))
  /\ answers' = [answers EXCEPT ![k] = @ \cup {[op |-> op, id |-> receipts[k].id]}]
  /\ UNCHANGED <<threads, runs, lapsed, log, receipts, usage, month, started, txn>>

-----------------------------------------------------------------------------
(* create_thread *)

\* A legacy thread row of the key is adopted, otherwise a row is inserted.
CreateThread(k) ==
  /\ LockFree
  /\ \/ Replay(k, "create_thread", None, None)
     \/ /\ Unbound(k, "create_thread")
        /\ \E t \in Thread :
             /\ threads[t] = IF \E u \in Thread : threads[u] = k THEN k ELSE None
             /\ threads' = [threads EXCEPT ![t] = k]
             /\ File(k, "create_thread", None, None, t)
        /\ UNCHANGED <<runs, lapsed, log, usage, month, started, txn>>

(* lookup_run and admit_run *)

\* A run of before the receipts, found by its own key: same thread and query.
LegacyReplay(k, t, q) ==
  /\ Unbound(k, "create_run")
  /\ \E r \in Run :
       /\ runs[r].key = k /\ runs[r].thread = t /\ runs[r].query = q
       /\ answers' = [answers EXCEPT ![k] = @ \cup {[op |-> "create_run", id |-> r]}]
  /\ UNCHANGED <<threads, runs, lapsed, log, receipts, usage, month, started, txn>>

\* _lookup_run.  lookup_run reads it without the write lock, admit_run under it.
LookupRun(k, t, q) ==
  /\ threads[t] # None
  /\ Replay(k, "create_run", t, q) \/ LegacyReplay(k, t, q)

\* Bug: a run that is past its deadline no longer occupies the slot.
SlotFreeOfUnexpired == \A r \in Run : IsLive(r) /\ lapsed[r] = 0 => runs[r].owner = None

\* The live-owned-run check of admit_run, which delivery_one_live_run repeats.
SlotFree == \A r \in Run : IsLive(r) => runs[r].owner = None

\* Bug: the counter is compared after it was incremented.
ChargeableAtCap == Cap > 0 /\ (usage[month] > 0 => usage[month] <= Cap)

\* The conditional upsert of the counter: its row appears with the first run.
Chargeable == Cap > 0 /\ (usage[month] > 0 => usage[month] < Cap)

AdmitRun(o, k, t, q) ==
  /\ LockFree
  /\ o \in started
  /\ Unbound(k, "create_run") /\ \A r \in Run : runs[r].key # k
  /\ threads[t] # None
  /\ SlotFree
  /\ Chargeable
  /\ usage' = [usage EXCEPT ![month] = @ + 1]
  /\ \E r \in Run :
       /\ ~Present(r)
       /\ runs' = [runs EXCEPT ![r] =
            [status |-> "running", owner |-> o, key |-> k, thread |-> t,
             query |-> q, month |-> month, feedback |-> None]]
       /\ log' = [log EXCEPT ![r] = Extend(@, <<"query_ingested", "meta">>, o)]
       /\ File(k, "create_run", t, q, r)
  /\ UNCHANGED <<threads, lapsed, month, started, txn>>

-----------------------------------------------------------------------------
(* Execution: only a live owner writes *)

\* Bugs: the status of the row, or its owner, is not looked at.
OwnedInAnyStatus(o, r) == runs[r].owner = o
OwnedByAnyone(o, r) == IsLive(r)

\* _owned: the caller owns the row, it has not ended, its deadline is ahead.
OwnedBy(o, r) == runs[r].owner = o /\ IsLive(r)
Owned(o, r) == OwnedBy(o, r) /\ lapsed[r] = 0

RecordEvent(o, r, kind) ==
  /\ LockFree
  /\ Owned(o, r)
  /\ Cardinality(ProgressIn(log[r])) < MaxProgress
  /\ log' = [log EXCEPT ![r] = Extend(@, <<kind>>, o)]
  /\ UNCHANGED <<threads, runs, lapsed, receipts, usage, month, started, txn, answers>>

\* finish(result=...): the ownership check under the lock ...
BeginResult(o, r) ==
  /\ LockFree
  /\ Owned(o, r)
  /\ txn' = [run |-> r, owner |-> o]
  /\ UNCHANGED <<threads, runs, lapsed, log, receipts, usage, month, started, answers>>

\* Bugs: the deadline is not looked at again; the status is the last event's.
CommitWithoutRecheck ==
  /\ txn # None
  /\ runs' = [runs EXCEPT ![txn.run].status = "completed"]
  /\ log' = [log EXCEPT ![txn.run] = Extend(@, ResultEvents, txn.owner)]
  /\ txn' = None
  /\ UNCHANGED <<threads, lapsed, receipts, usage, month, started, answers>>

CommitAsDone ==
  /\ txn # None
  /\ lapsed[txn.run] = 0
  /\ runs' = [runs EXCEPT ![txn.run].status = "done"]
  /\ log' = [log EXCEPT ![txn.run] = Extend(@, ResultEvents, txn.owner)]
  /\ txn' = None
  /\ UNCHANGED <<threads, lapsed, receipts, usage, month, started, answers>>

\* ... all the writes of _finish_locked, after a second look at the deadline ...
CommitResult ==
  /\ txn # None
  /\ lapsed[txn.run] = 0
  /\ runs' = [runs EXCEPT ![txn.run].status = "completed"]
  /\ log' = [log EXCEPT ![txn.run] = Extend(@, ResultEvents, txn.owner)]
  /\ txn' = None
  /\ UNCHANGED <<threads, lapsed, receipts, usage, month, started, answers>>

\* ... or _DeadlineExpired, or a lost connection: no write survives.
RollBack ==
  /\ txn # None
  /\ txn' = None
  /\ UNCHANGED <<threads, runs, lapsed, log, receipts, usage, month, started, answers>>

\* Bug: the row fails, its stream is not told.
FinishSilently(o, r) ==
  /\ LockFree
  /\ OwnedBy(o, r)
  /\ runs' = [runs EXCEPT ![r].status = "failed"]
  /\ UNCHANGED <<threads, lapsed, log, receipts, usage, month, started, txn, answers>>

\* finish(error=...): allowed after the deadline.
FinishError(o, r) ==
  /\ LockFree
  /\ OwnedBy(o, r)
  /\ runs' = [runs EXCEPT ![r].status = "failed"]
  /\ log' = [log EXCEPT ![r] = Extend(@, FailureEvents, o)]
  /\ UNCHANGED <<threads, lapsed, receipts, usage, month, started, txn, answers>>

\* Bugs: ended runs are failed too; the runs of other processes are not.
InterruptedInAnyStatus(o) == {r \in Run : Present(r) /\ runs[r].owner # o}
InterruptedOwn(o) == {r \in Run : IsLive(r) /\ runs[r].owner = o}

\* recover_interrupted, which an incarnation runs once, before it serves:
\* every unfinished run that is not its own, legacy runs included, fails.
Interrupted(o) == {r \in Run : IsLive(r) /\ runs[r].owner # o}

Recover(o) ==
  /\ LockFree
  /\ o \notin started
  /\ started' = started \cup {o}
  /\ runs' = [r \in Run |-> IF r \in Interrupted(o)
                             THEN [runs[r] EXCEPT !.status = "failed"] ELSE runs[r]]
  /\ log' = [r \in Run |-> IF r \in Interrupted(o)
                            THEN Extend(log[r], FailureEvents, o) ELSE log[r]]
  /\ UNCHANGED <<threads, lapsed, receipts, usage, month, txn, answers>>

-----------------------------------------------------------------------------
(* record_feedback *)

Feedback(k, r, s) ==
  /\ LockFree
  /\ \/ Replay(k, "feedback", r, s)
     \/ /\ Unbound(k, "feedback")
        /\ Present(r)
        /\ runs' = [runs EXCEPT ![r].feedback = s]
        /\ File(k, "feedback", r, s, r)
        /\ UNCHANGED <<threads, lapsed, log, usage, month, started, txn>>

-----------------------------------------------------------------------------
(* The database clock *)

\* The deadline of an admitted run passes, inside a transaction or not.
DeadlinePasses(r) ==
  /\ IsLive(r) /\ runs[r].owner # None
  /\ lapsed[r] = 0
  /\ lapsed' = [lapsed EXCEPT ![r] = Len(log[r])]
  /\ UNCHANGED <<threads, runs, log, receipts, usage, month, started, txn, answers>>

MonthTurns ==
  /\ month < Months
  /\ month' = month + 1
  /\ UNCHANGED <<threads, runs, lapsed, log, receipts, usage, started, txn, answers>>

-----------------------------------------------------------------------------
(* The tables at the upgrade: legacy rows only, with distinct keys in each *)

LegacyRow == {row \in Row : /\ row.status # "absent" /\ row.owner = None
                            /\ row.key # None /\ row.query # None
                            /\ row.thread \in LegacyThread
                            /\ row.month = 0 /\ row.feedback = None}

Init ==
  /\ \E key \in [LegacyThread -> Key] :
       /\ \A t, u \in LegacyThread : key[t] = key[u] => t = u
       /\ threads = [t \in Thread |-> IF t \in LegacyThread THEN key[t] ELSE None]
  /\ \E row \in [LegacyRun -> LegacyRow] :
       /\ \A r, s \in LegacyRun : row[r].key = row[s].key => r = s
       /\ runs = [r \in Run |-> IF r \in LegacyRun THEN row[r] ELSE NoRow]
  /\ lapsed = [r \in Run |-> 0]
  /\ log = [r \in Run |-> <<>>]
  /\ receipts = [k \in Key |-> None]
  /\ usage = [m \in 1..Months |-> 0]
  /\ month = 1
  /\ started = {}
  /\ txn = None
  /\ answers = [k \in Key |-> {}]

Next ==
  \/ \E k \in Key : CreateThread(k)
  \/ \E k \in Key, t \in Thread, q \in Query : LookupRun(k, t, q)
  \/ \E o \in Owner, k \in Key, t \in Thread, q \in Query : AdmitRun(o, k, t, q)
  \/ \E o \in Owner, r \in Run, kind \in Progress : RecordEvent(o, r, kind)
  \/ \E o \in Owner, r \in Run : BeginResult(o, r)
  \/ CommitResult
  \/ RollBack
  \/ \E o \in Owner, r \in Run : FinishError(o, r)
  \/ \E o \in Owner : Recover(o)
  \/ \E k \in Key, r \in Run, s \in Score : Feedback(k, r, s)
  \/ \E r \in Run : DeadlinePasses(r)
  \/ MonthTurns

Spec == Init /\ [][Next]_vars
-----------------------------------------------------------------------------
(* Properties *)

\* Type invariant of the tables.
TypeOK ==
  /\ threads \in [Thread -> Key \cup {None}]
  /\ runs \in [Run -> Row]
  /\ lapsed \in [Run -> Nat]
  /\ log \in [Run -> Seq(Event)]
  /\ receipts \in [Key -> Receipt \cup {None}]
  /\ usage \in [1..Months -> Nat]
  /\ month \in 1..Months
  /\ started \subseteq Owner
  /\ txn \in Result \cup {None}
  /\ answers \in [Key -> SUBSET Answer]

Delivered(r) == runs[r].owner # None

\* One execution slot for the whole table, whichever process admits the run
\* (busy check of admit_run, delivery_one_live_run of migration 006).
OneLiveRun ==
  \A r, s \in Run :
    IsLive(r) /\ Delivered(r) /\ IsLive(s) /\ Delivered(s) => r = s

\* A stream ends exactly once and with the stored status: done is the last
\* event of an ended run and of no other, a final answer is only ever followed
\* by a completed status, an error by a failed one (_finish_locked).
StreamEndsOnce ==
  \A r \in Run : \A i \in DOMAIN log[r] :
    /\ log[r][i].kind = "done" <=> i = Len(log[r]) /\ runs[r].status \in Terminal
    /\ log[r][i].kind = "final" => runs[r].status = "completed"
    /\ log[r][i].kind = "error" => runs[r].status = "failed"

\* Once its deadline has passed a run gains nothing but its own failure: no
\* progress, no learning, no result, not even from a transaction that began
\* in time (the second deadline check of finish).
DeadlineFence ==
  \A r \in Run : lapsed[r] > 0 =>
    /\ runs[r].status # "completed"
    /\ \A i \in lapsed[r] + 1 .. Len(log[r]) :
         log[r][i].kind \in {"run_failed", "error", "done"}

\* What another incarnation may do to a run is end it as failed: everything
\* else in the log was written by the owner of the row (_owned).
ForeignWritesOnlyFail ==
  \A r \in Run : \A i \in DOMAIN log[r] :
    log[r][i].by # runs[r].owner =>
      /\ runs[r].status = "failed"
      /\ log[r][i].kind \in {"run_failed", "error", "done"}

\* The monthly counter counts the admitted runs of the month, none twice and
\* none that was refused or replayed, and stays within the cap.
ChargedOncePerRun ==
  \A m \in 1..Months :
    /\ usage[m] = Cardinality({r \in Run : Delivered(r) /\ runs[r].month = m})
    /\ usage[m] <= Cap

\* However often and for whatever operation a key is presented, all its
\* successful answers name one operation and one resource (_operation).
KeyNamesOneResource ==
  \A k \in Key : \A a, b \in answers[k] : a = b

\* An ended run never changes again, except for its feedback: no second
\* ending, no late event, no rewritten result.
EndedRunsAreFrozen ==
  [][\A r \in Run : runs[r].status \in Terminal =>
       /\ log'[r] = log[r]
       /\ runs'[r] = [runs[r] EXCEPT !.feedback = runs'[r].feedback]]_vars

-----------------------------------------------------------------------------
(* What the properties rest on: with them, the invariants above are        *)
(* inductive (DeliveryPartsProofs).                                       *)

\* A row is inserted whole and its log starts with it.
RowsAreWhole ==
  \A r \in Run :
    /\ Present(r) => runs[r].key # None
    /\ ~Present(r) => runs[r] = NoRow /\ log[r] = <<>> /\ lapsed[r] = 0

\* run_records.idempotency_key is unique (migration 001).
RunKeysAreUnique ==
  \A r, s \in Run : runs[r].key = runs[s].key /\ runs[r].key # None => r = s

\* The lock keeps the run of an open result transaction owned and live.
ResultIsOwned == txn # None => OwnedBy(txn.owner, txn.run)

\* A receipt accounts for every answer of its key; without a receipt only a
\* legacy run was ever named.
AnswersAreAccounted ==
  \A k \in Key :
    IF receipts[k] # None
    THEN answers[k] \subseteq {[op |-> receipts[k].print.op, id |-> receipts[k].id]}
    ELSE \A a \in answers[k] :
           a.op = "create_run" /\ a.id \in Run /\ runs[a.id].key = k

IInv ==
  /\ TypeOK
  /\ RowsAreWhole
  /\ RunKeysAreUnique
  /\ ResultIsOwned
  /\ AnswersAreAccounted
  /\ OneLiveRun
  /\ StreamEndsOnce
  /\ DeadlineFence
  /\ ForeignWritesOnlyFail
  /\ ChargedOncePerRun

-----------------------------------------------------------------------------
(* Refinement of RunLifecycle: the phase is read from the row, the verdict *)
(* from the log alone.                                                     *)

PhaseOf(r) ==
  IF ~Present(r) THEN "none"
  ELSE IF ~IsLive(r) THEN runs[r].status
  ELSE IF Delivered(r) THEN "live" ELSE "orphan"

Tells(r, kind) == \E i \in DOMAIN log[r] : log[r][i].kind = kind

VerdictOf(r) ==
  IF Tells(r, "final") THEN "completed"
  ELSE IF Tells(r, "error") THEN "failed" ELSE "open"

Lifecycle == INSTANCE RunLifecycle WITH
  phase <- [r \in Run |-> PhaseOf(r)], verdict <- [r \in Run |-> VerdictOf(r)]

\* The transactions implement the promised lifecycle: one slot, one ending
\* per run, the stream and the row ending in the same step.
ImplementsLifecycle == Lifecycle!Spec
=============================================================================
