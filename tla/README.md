# MerchantCopilot: formal models

MerchantCopilot answers a merchant's questions with a language-model agent. An
Android client talks to a FastAPI process; the process keeps runs, events and
memories in Postgres, runs the agent in a single spawned worker, and accounts
for model calls in a file. An older HTTP API runs the same agent inside its
responses. This directory holds TLA+ models of that system, TLC configurations
that check them on small instances, and TLAPS proofs. Paths below are relative
to the repository.

Run a model with `tlc -config <run>.cfg <module>.tla`, check the proofs of a
module with `tlapm <name>Proofs.tla`. `PROJECT.json` lists runs, mutants, theorems,
hazards, and the source lines of every definition.

## 1. Inventory

### Delivery repository (`app/storage/delivery_repository.py`, migrations 001, 006)

State: `threads`, `run_records` (status, `execution_owner`, `deadline_at`,
idempotency key), `run_events` (append-only, numbered per run),
`delivery_operations` (one receipt per idempotency key), `usage_counters`.
Operations: `create_thread`, `lookup_run`, `admit_run`, `record_event`,
`finish` (result or error), `recover_interrupted`, `record_feedback`,
`decide_memory`, and reads. Write transactions are serialised by one advisory
lock. Hard: retries under one key, several processes, the deadline passing
inside the transaction that commits a result, restarts with unfinished runs.
Correct when: one live run; one ending per run, told by row and stream alike;
nothing but a failure after the deadline; only the owner writes; one charge per
run; one resource per key.

### Spawn executor (`app/delivery/executor.py`)

State: the current process and its pipe, readiness, the job in the slot and its
monotonic deadline, the recycling flag. Threads: monitor (`_receive`), watchdog
(`_watch`), one sender per submit (`_dispatch`), whoever closes; each of them
may run `_recycle`. Calls back `on_event`, `on_result`, `on_failure` without a
lock. Hard: every thread acts on a connection and a job it read earlier.
Correct when: a failure is the failing job's own, no frame of one job reaches
another's worker, every accepted job ends without help from the worker, the
executor serves again after a recycling and can be closed.

### Cost ledger (`app/api/delivery_budget.py`)

State: a JSON file of calls with reserved and actual cost. Operations:
`reserve`, `complete`, `fail_run`, `recover`. Correct when: the total stays
within the hard stop except for what providers billed beyond a reservation, and
nothing is settled twice.

### Delivery service (`app/api/delivery_service.py`)

Binds the three: `start` recovers ledger and tables before the worker is
spawned; `create_run` looks up, checks, admits and submits under one lock; the
callbacks write repository, then ledger. Hard: failures and crashes between two
of those writes, two independent deadlines. Correct when: an accepted run is
always in the hands of someone who ends it, a model call is preceded by its
audit event and its reservation and is paid for, no worker computes for an
ended run.

### Event stream and reads (`event_stream`, `list_events`, `get_run`)

The stream of a run pages through `run_events` from the client's cursor, sends
public events and heartbeats, and ends after the terminal event; `get_run`
returns the row, its result and its last event id. Hard: row, result and cursor
are read by separate statements while `finish` commits; internal events leave
gaps in the numbers. `list_runs` and `list_memories` are read page by page
behind a cursor while others write. Correct when: a response carries the cursor
of the end exactly when it says that the run has ended, a stream that the
service closes has sent everything, and a listing has each row once and every
row that was there all along.

### Android client (`mobile/lib/src`)

`local_store.dart` keeps runs with items and cursor, the selected run, the
thread, and pending operations with their keys; `repository.dart` submits,
decides, reads and follows; `view_model.dart` holds the shown run, one
subscription, a retry timer and a shared creation call. Operations: start,
open a run, refresh, submit, decide, change of settings, suspend and resume.
Hard: everything overlaps at awaits, answers are lost, connections break, the
phone kills the process between two steps, snapshots race the stream. Correct
when: the copy of a run is a prefix of its events and its end is true; a live
run on the screen is watched; a submission or a verdict stays pending until its
outcome is stored, makes one run and is shown; cursors and versions advance.

### Memory (`app/memory/policy.py`, `app/storage/memory_repository.py`, `api_repository.py`)

State: `memory_events` (append-only), `memory_facts` (status, version, period,
embedding), receipts of decisions. Under the delivery service a result commits
its candidates through the policy gate, each in a savepoint, and the merchant
approves or rejects. Under the legacy API `_persist_learning` runs its own
transactions with an advisory lock per predicate, and `decide_memory` updates a
row unconditionally. A recall indexes facts that lack a vector, filters and
ranks what is near the question (`app/memory/retriever.py`) and puts together a
context within budgets. Hard: facts that supersede others, decisions on stale
versions, statements of two transactions in between each other, a recall that
read a fact before it was superseded, limits applied one after the other.
Correct when: a recall is scoped, whole and of the best that fits; one fact in
force per predicate (and instant); one decision per fact; no inference in force
unapproved; a run learns all or nothing; every fact in force gets a vector;
versions tell every change.

### Skills (`app/skills`, `app/storage/skill_repository.py`)

State: `skill_versions`, `skill_events`; per run the contract it loaded. An
offline batch generates patches, validates them, evaluates on dev, promotes on
paired numbers, evaluates on regression and rolls back; a reviewer revises the
files. In a run: select, check preconditions, compile to a plan, verify
evidence. Hard: promotion and rollback are separate commits, batches are killed,
restarted and may overlap, thresholds are written apart. Correct when: one
active version, told by the events; a regressing one is rolled back; what is
promoted would not be rolled back on its own numbers; no patch passes the limits
of the DSL.

### Agent graph (`app/agent`)

Router, recall, skill discovery and selection, planner, executor, verifier, one
replan, insight, memory candidates, over checkpointed channels. Hard: limits
over a replan (three actions, 120 seconds, the observer's count), channels of an
earlier query, a contract replaced while the run goes on. Correct when: three
calls at most, giving up only after the replan, and "sufficient" only when every
action of the last plan ran.

### Model calls and evaluations (`app/llm/client.py`, the nodes, `evals/v3`)

Each call is reserved by an acknowledged event before the network and reported
after it; nodes fall back when the model is absent, fails or answers badly. The
skill matrix and the evolution batch pay for their calls through a budget guard
with a checkpoint file, so that a killed evaluation can be resumed. Hard: a
rejection must pass every `except Exception`; usage is counted whatever the node
makes of the answer; a call is paid between two writes of the checkpoint.
Correct when: nothing is sent unreserved, each call is told once, what claims to
come from the model does; a completed key is not paid for again, and the
evaluation books no more than its stop.

### Knowledge base (`app/rag`)

`build` drops the collection, splits the documents and adds the chunks;
`retrieve` loads shared models under locks, queries and reranks. Hard: threads
that load first together, a rebuild beside a reader with an open handle, a
rebuild that fails half-way. Correct when: one instance of each model, one
thread in the embedder, a collection is empty or the whole of one corpus, and a
retrieval's chunks are of one build.

### Tool session and tool server (`app/tools`)

`client.py` is a synchronous call over one MCP session in a thread of its own,
started once under a lock, with time limits; `server.py` computes metrics,
periods and attributions from orders and traffic. Hard: threads that call first
together, a server that dies or answers late, days without orders or traffic.
Correct when: one server, each caller gets the answer to its last request, groups
and halves add up, a cause lies in the window asked about.

### Legacy HTTP API (`app/api/main.py`, `app/storage/api_repository.py`)

A run executes inside the response that streams it, claimed by whichever request
of its key finds it queued; two backends, Postgres and the process's memory.
Hard: clients disconnect and processes die between two yields, storage fails
between commits. Correct when: a key executes once, the cap holds, a client was
told what the row says.

### Not modelled

Contracts, presentation and projection (formatting and schema), the Flutter
widgets, most scripts, data sets, scores and reports of evaluations, mock data
and the demo user interface: see section 6.

## 2. Modules

| module | models | state |
| --- | --- | --- |
| `RunLifecycle` | what the service promises about a run, without tables, processes or time | phase and verdict per run |
| `DeliveryRepository` | the transactions of the repository, one action each | the tables; the open result transaction; answers given per key |
| `SpawnExecutor` | the parent side of the worker, with the worker's protocol | slot, pipe, worker, what each thread is in the middle of |
| `DeliveryBudget` | the ledger | calls |
| `DeliveryService` | the three composed in a process that crashes and restarts | theirs, plus the request, the callbacks' progress, charges of the provider |
| `RunFollowing` | the event stream and the client that follows it | log, streams, subscriptions, the client's copy and screen |
| `ClientSubmission` | pending submissions against the service's keys | stored operations, calls under way, the service's runs and threads |
| `ClientDecisions` | pending verdicts against the service's versions | stored operations and list, calls under way, facts and receipts |
| `MemoryTimeline` | what memory promises a reader: one fact per predicate and instant | who holds, who has been replaced |
| `MemoryLedger` | candidates, decisions and compensation under the delivery service | facts with their events, receipts, the day, what recalls read and wrote |
| `LegacyMemory` | the same tables under the legacy API, statement by statement | committed rows; stage, locks and uncommitted rows of each transaction |
| `SkillEvolution` | batches over the skill tables | versions, events, what each batch is doing |
| `SkillGates` | patch, validation, paired numbers, selection, compilation, verification | the contract in force, the draft, a question at the skill |
| `AgentGraph` | one query through the graph | channels, node, outcomes, counts |
| `ModelCalls` | calls to the model and what nodes make of the answers | call under way, trace, usage rows, results of nodes |
| `EvaluationRuns` | what the matrix and the batch pay through the budget guard | checkpoint and result file, the copy in memory, the call under way |
| `KnowledgeIndex` | shared models, rebuild and retrieval | instances and locks, the collection, the builder, how far each caller is |
| `ListPages` | pages of runs and memories while others write | rows with time and status, readers with cursor and what they got |
| `MemoryRecall` | filters, ranking and budgets of one recall | facts, question, what is selected, the context |
| `MerchantTools` | the two tools over small shops | orders, traffic, the answer |
| `ToolSession` | the session thread of the tool client | callers, lock, session flags, the server's queue |
| `LegacyStream` | streamed runs of the legacy API | rows, counter, generators, what was sent |
| `MCDeliveryRepository`, `MCMemoryLedger` | one module each for TLC | |
| `MCDelivery`, `MCClient`, `MCAgent`, `MCAgentParts`, `MCSettles`, `MCAgentSettles` | suites of scenarios | `scenario`, and the variables of all their modules |
| `…Proofs` | theorems, see section 4 | |

**Suites.** A suite holds several instances of several modules, each a
*scenario* with constants of its own. The initial state chooses the scenario,
which never changes; variables a scenario does not use are parked at `None`.
A property of a suite states, per scenario, the properties of its modules, which
are named and explained there. Safety and liveness are in different suites
because symmetry is unsound for liveness; fairness is stated on actions guarded
by their scenario. Where two symmetric sets belong to different scenarios, no
state holds members of both, so one permutation may act on both at once.

**DeliveryRepository.** A transaction is one step because its first statement
takes the lock. The exception is `finish(result)`, which reads the clock at its
start and before its commit: `BeginResult` takes the lock (`txn`), the deadline
may pass, then `CommitResult` or `RollBack`. `lapsed[r]` is the length of the
log when the deadline of `r` passed, so that "written after the deadline" is
a statement about positions. `answers` is a history of what successful calls
told their callers. Callers are unconstrained. Payloads, projections and
learning candidates are dropped; "learning" stands for the internal events of
`_commit_learning`. `decide_memory` is in `MemoryLedger`.

**SpawnExecutor.** One step is one critical section, or one effect between two.
`monitor`, `watch`, `senders` and `rec` record what a thread read and is about
to act on. Worker numbers stand for process and pipe objects: `conn = c` is the
identity test `connection is self._connection`. The grace periods of signals
and joins are one step, and the tool processes die with the worker. `_job is
job` is equality because a job is submitted once. A worker that fails to start
sends a message that only sets an error text and dies: `WorkerDies`.

**DeliveryService.** Every action is one thread's step built from actions of
the instances `Repo`, `Exec`, `Ledger`, or from theirs with everything else
unchanged (`ExecutorStep`). The callbacks, single steps in `SpawnExecutor`, are
split into their transactions here (`callback` for the monitor, `notice` for
the recycling thread, `request.stage` for `create_run`). A crash (`Stop`) loses
threads and pipes, keeps tables and ledger, leaves the open transaction to the
database (`LeftTransaction`: committed or rolled back) and the worker to itself
(`OrphanProceeds`: it may finish the network call it was allowed to make). The
row's deadline and the job's deadline are separate clocks.

**RunFollowing.** The log of a run is the service's and an event is a position
in it. The service's side of a response (`stream`), the bytes under way (`wire`)
and the subscription (`follower`) are separate, so that a cancelled or broken
stream leaves any of them behind. A client step is the code between two awaits
that leave the process. `flow` is a running `openRun`, `refresh`,
`initialize` or `updateSettings`; several may be alive at once. The phone may
suspend, resume, kill or restore the client at any step. A call captures the
service generation at its first step after `_stopWatching`, so a change of settings
leaves one that is still stopping valid, and `_activate`, which does not compare
it, goes on for a call that no longer is.

**ClientSubmission, ClientDecisions.** The server side is what
`DeliveryRepository` and `MemoryLedger` promise: a key is bound to one answer.
Requests and answers may be lost or late (`stray` requests reach the service
when no call waits for them any more). Keys are numbered in the order they are
drawn; the maps `asked` and `verdict` remember what for. The list of memories is
one row that is read and written back in two steps, and so is the stored thread.
What a submission promises (`PendingIsNotDropped`, `PendingIsShown`, `OneThread`)
and a verdict (`VerdictIsNotLost`, `ToldIsStored`) the code keeps by one call at a
time only: the scenarios `submit` and `decide` of `client` have one, the shared
ones have two and check the rest, and `submission_overlap` shows what two do to
the first.

**MemoryLedger.** Results and decisions hold the repository's write lock, so a
candidate (with its savepoint) and a decision are one step each; a run's
candidates are committed one by one here although their transaction is one,
which allows more behaviours. A rejected candidate and a repeated request are
stutters. A recall takes no lock: `Fetch` reads (`batch`), `Encode` writes a
vector in the open transaction (`marked`) and so holds that row, which delays
whoever would supersede it (`Unlocked`), `Commit` makes it visible. `Skip` is a
failing encoder, `Abandon` a worker or connection that dies. A period is the set
of days it covers and `{Always}` when a fact has none, as the code never
compares the two kinds. Periods come from callers of the repository and its
tests; no node of the present graph sets them. Merchant, subject and predicate
are one `Predicate`. Ties in `created_at` are not modelled, and `valid_to`, set
exactly by a supersession, is not kept. Outcomes are left out: they must link a
decision marked as executed, which no code marks.

**LegacyMemory.** Transactions of READ COMMITTED overlap statement by statement.
Each actor has `mine`, the rows it has written and not committed; `View` lays
them over the committed ones. A statement waits for rows others hold
(`Holders`) and an insert for entries of the partial unique index others are
moving (`Entering`); the advisory lock is `locks`. A run either commits all, or
is rolled back by a lost connection, a unique violation or a deadlock.

**SkillEvolution.** One step is one transaction of the batch, except that a
candidate is inserted (`Register`) in a step of its own, which holds its key
until the gate has decided (`KeyFree`). Content is one of a few contracts that pass or fail the gates. A batch may be killed at any step,
start over a version that has had candidates, which an earlier one left behind
(`reran`), and overlap another (`overlapped`): these two are histories that the
properties look at. `Rounds` is 2 where the code has 3 (the third repeats the
second).

**SkillGates.** Contracts keep what the gates look at; descriptions are sets of
words, dates are counted. The exact McNemar test is computed in integers with
rows of Pascal's triangle as a recursive function, the confidence bound by
squaring. `Before` is the order of `select_skill`. A result is `"ok"`, `"short"`
(evidence, of which some rule asks more: `evaluate_rule`) or `"error"`; which of
its paths a rule reads is left out. So are the memory types and the completion
criteria, which nothing reads once their form is validated, and negative indices
of lists.

**AgentGraph.** Channels persist as the checkpointer keeps them, so a reset the
router forgets would be visible to the next query of a thread. `PerRun` is the
delivery worker's use, the other one the legacy API's. Outcomes of actions are
chosen. **ModelCalls** opens what `AgentGraph` leaves closed: which call a node
makes, what the parent is told, which answer the node falls back to. Plans have
one action there, which may also be left untried when the run's time is over. The
parent answers no refusal: a rejected event makes it recycle the worker, which is
killed while it waits (`Rejected`). Only when the parent itself is gone does the
wait end in an `EOFError`, which a node takes for a failed call, and the run ends
at its next event; what the node makes of it in between is left out.

**EvaluationRuns.** A step is the code between two writes of a file or two calls.
One program uses a checkpoint at a time. A cell or round is a key; what its calls
are billed is a choice, and `lost` is a history of settlements that a kill
took: their bills are in no book, so `StopIsKept` bounds what the checkpoint books
and not what is spent. The mode without network and the second model, which neither program
asks, are left out. A call may be interrupted; if settling it raises as well, that
error is what remains and the program goes on. A cell that was paid for and
killed before its row was written gets a row without a result on resume.

**KnowledgeIndex.** A thread follows its `Program` of operations; a lock is
entered and left in steps of their own around a load. One rebuild runs at a
time, in a process of its own. Which chunks are near and which the reranker
prefers is chosen. Words are numbers.

**ListPages.** A page is one statement; a row carries the time its transaction
began, so it may be committed behind a cursor that has passed that time: such a
row is promised to nobody, nor, under a filter, one whose status changes on the way. `owed` is the set of rows the reader was promised.

**MemoryRecall.** The store is read by one statement, so what others write
between the steps of a recall does not matter, and the store stays as it is.
Nearness is the order of `Id`, worth is a number, a content its length.
Branches that only evaluations take are left out.

**MerchantTools.** A shop is a bag of orders of a few kinds (`orders[r]` of kind
`r`) and one of a few traffic tables. Rates are tenths of a percent as SQL
rounds them; a comparison with a float threshold is cross-multiplied. The groups
join the catalogue; the model takes every product sold to be in it once, as the
generator of the data makes it, though no key of the tables demands it. Reference
definitions in the properties are sums over all orders.

**ToolSession, LegacyStream.** Threads and callers, requests and their
generators are actors; a disconnect is noticed at a yield. `sent` is what a
client was told.

## 3. Runs

| run | question | instances and bounds |
| --- | --- | --- |
| `repository` | do the tables keep their invariants and implement `RunLifecycle` | 2 processes, 3 runs of which 1 legacy, 4 keys, 2 threads of which 1 legacy, cap 1, 2 months, 1 progress event |
| `memory_ledger` | do the facts in force form a timeline, does every decision count once | 3 facts, 1 predicate, 2 days, statements and inferences, 2 keys, 1 recall of 1 fact |
| `delivery` | are slot, runs and costs consistent | executor alone (2 jobs, 3 workers, all faults), ledger alone (2 runs, 2 calls, amounts 0, 1, 3, limit 6), service (1 process, 2 runs, limit reached by the second call), service over restarts (2 processes, 1 run, amounts 1 to 3, limit 2, failing transactions, crash, shutdown); 2 worker events in a run |
| `settles` | does every accepted run end; does the executor serve again or close; is an end shown, is what is pending settled | service over restarts (2 processes, 1 run), executor alone (2 jobs, 2 workers); following (1 run, 2 breaks); 2 submissions; 2 verdicts |
| `client` | is what the client stores, shows and watches true; are submissions and verdicts kept | following with overlapping calls (2 runs, 2 subscriptions, 2 calls, 2 moves, 1 break), with long logs (2 events, pages of 2, 1 move, 1 break); submitting alone (3 keys, 3 losses, 2 moves) and shared (2 calls, 2 keys, 1 loss); deciding alone (2 memories, 2 verdicts, 2 losses) and shared (2 calls) |
| `agent` | graph limits, evolution, tool session, legacy streams | 2 queries over 3 shapes of contracts, 1 promotion, 1 abort; evolution killed, fresh, two batches at once; 3 callers with 2 calls; 3 requests over 2 keys with faults, both backends |
| `agent_settles` | runs, calls, streams end; regressions are rolled back; facts become recallable | 1 query; 2 batches; 2 callers; 2 requests; 2 facts |
| `agent_parts` | model calls, what evaluations pay, calculations and retrieval, gates, concurrent learning, its listing and recall | all answers of the model over 2 passes; 2 cells and 1 round, 2 faults, bills above and below the estimates, stop below their sum; shops of up to 3 orders out of 6 kinds with 3 traffic tables and 6 sets of dimensions; 2 threads, 4 corpora, 2 builds, 2 mishaps; 12 operations, numbers on both sides of every threshold, 2 promotions; 2 runs of 2 candidates, 2 predicates, 1 decision; 3 rows in pages of 1, 1 reader, 2 instants; 4 memories of 7 shapes, 3 questions, 3 candidates |
| `executor_respawn` | *violation*: close after a failed respawn | 2 jobs |
| `service_deadline` | *violation*: code of a deadline failure | no faults |
| `service_lost` | *violation*: accepted run without a handler | failing dispatch thread, failing transaction |
| `submission_overlap` | *violation*: a pending submission that is dropped | 2 calls, 2 keys, 1 loss, 1 failure of another operation |

Why the bounds are enough. Two processes are what a stale writer and its
successor need. Two admissions fill the slot and free it again and reach the
cap in each month; the legacy rows exercise adoption, replay and conflicts of
keys; four keys allow each kind of operation one key and one collision. Two
jobs are an earlier and a later one: every confusion in the executor is between
these; three workers let a worker die idle and die working. `MaxWorkers` bounds
voluntary deaths only. `MaxProgress` bounds worker events. In `repository`, where
a worker event only lengthens the log, one is enough. In the service an event has
an effect: the audit before a call reserves, the one after it settles, so two
events let a run make a call and report it, and with amounts from 1 to 3 against
a limit of 2 it settles below, at and above its reservation, and beyond the stop.
The long logs of `client` exceed a page by one event so that a snapshot, a page and
the stream can each be at a different cursor. The crash scenario has one run
because a restart ends every run of its predecessor; the one without crashes has
two because the second reuses the slot, the worker and the budget. In the client
two runs are the shown one and the one left, two calls overlap in every order,
and every move (open, refresh, settings, suspend, kill) may follow every other.
Three keys are a submission, its successor and one drawn after a kill. Three
facts on two days are one fact whose period overlaps two others at once; a
second predicate is never read or written with the first, and the proofs cover
any number. Two runs with two predicates are the smallest deadlock. Three
callers are one that starts the session, one that waits for the lock and one
that comes late. A third evolution round repeats the second. Three orders put
two in one group and one in another. Two cells and a round are a key that is
paid, one that no longer fits, and one of the other program. Two builds are the
one a reader opened and the one that drops it. Three rows in pages of one make
a reader pass a cursor twice. Four memories for three candidates make one be cut
before the budgets of the kinds are applied.

Deadlock checking is off where the system may come to rest (all keys used,
closed, nobody asks any more), which holds in one scenario of every suite.

Each property has a mutant in the module it is about (an operator named for the
bug, placed before the definition it replaces); the property fails with it.

### Fairness

The executor's scenario assumes that time passes, that the watchdog loops while
the executor is up, and that a thread which recycles or closes goes on: their
waits have timeouts in the code (`join(timeout=...)`, sleeps of milliseconds).
For serving again it adds that a worker becomes ready and that the monitor and
its callbacks run, without which no pool of one could serve. The service's
scenario assumes the former (not the worker, not the monitor), and that the
process is started again after it stopped, that a request which was admitted
goes on, and that a transaction holding the advisory lock ends: `on_failure`
takes the same lock, so a result transaction that hung for ever would hold up
the watchdog too.

The client's scenarios assume that a run ends (above), that the code between two
awaits goes on, that the retry timer fires and that a call's request is answered
or fails; submissions and verdicts also that the user comes back (`refresh`; for
verdicts again and again, strongly, as each refresh sends one). Breaks and
losses are bounded by constants, the former below the retries of
`_scheduleRetry`: with more the client rests until the user returns.

The graph's nodes are sequential code; a batch is; a client of the legacy stream
goes on reading (nothing else runs its generator); the tool session needs strong
fairness of callers, who compete for one lock. Recalls assume that runs keep
recalling and that encoder, worker and database do not fail for ever (strong
fairness of `Fetch`, of `Encode` of each fact, and of the `Commit` of each
fact): the code promises no more, it tries again at the next recall
(`docs/v2_memory_design.md`).

## 4. Proofs

Eight modules hold the theorems. Those of a component are proved for its own
specification and any values of its constants; those of a suite
(`MC…Proofs`) state the properties of a run as they stand, over all scenarios of
it at once, for any constants that satisfy its assumptions.

| module | theorems about |
| --- | --- |
| `DeliveryPartsProofs` | `DeliveryRepository`, `SpawnExecutor`, `DeliveryBudget` |
| `DeliveryServiceProofs` | the three composed: `DeliveryService` |
| `MCDeliveryProofs` | the `delivery` run |
| `MemoryLedgerProofs` | `MemoryLedger`, `ListPages`, `MemoryRecall` |
| `AgentPartsProofs` | `ModelCalls`, `SkillGates`, `EvaluationRuns`, `KnowledgeIndex`, `LegacyMemory` |
| `MCAgentProofs` | the `agent` run: `AgentGraph`, `SkillEvolution`, `ToolSession`, `LegacyStream` |
| `ClientProofs` | `RunFollowing`, `ClientSubmission`, `ClientDecisions` |
| `MCClientProofs` | the `client` run |

In a suite a scenario is an instance of its module; what is proved of the module
(with constants of its own) holds in the scenario, once the two instances are
shown to have the same initial states and steps. Such lemmas
(`FollowTakesSteps`, `LaterTakesSteps`, …) say nothing but that definitions agree.
Where a module is an instance its assumptions are hypotheses of the theorems
instead of ASSUMEs. All hold in the instances that TLC checks, but for the ones
named below: a scenario with failing transactions, and one with a database that
is restored from a backup, have runs of their own.

### Delivery

**Repository** (`DeliveryPartsProofs`), for all finite sets of runs and all
values of the other constants that satisfy `RepositoryAssumption` and
`NullAssumption`: type correctness, every safety invariant and the action
property of the `repository` run, and that `Spec` implements `RunLifecycle`.
`IInv` adds to the properties what they rest on: a row and its log come into
being together (`RowsAreWhole`), run keys are unique (`RunKeysAreUnique`: an
admission must not meet its own key), the run of an open result transaction stays
owned and live (`ResultIsOwned`: `CommitResult` does not look again), and every
answer of a key is accounted for by its receipt or a legacy row
(`AnswersAreAccounted`: histories need a cause in the state). `StepOfARun`
reduces `Next` to what may happen to one run (nothing, feedback, admission,
progress, completion, failure); each invariant about runs is then proved over
these few cases, with lemmas about appended lists of events. Finiteness of `Run`
is used to count the charged runs. The refinement reads the phase from the row
and the verdict from the log alone, so `LifecycleStep` is where row and stream
are shown to end in one step.

**Executor**, for any jobs, events and faults and any number of workers: types
(`ExecTypes`), `WorkerServesTheSlot`, `SlotIsWatched` and `CausesAreReal`. The
inductive invariant (`ExecInv`, theorem `Agreement`) says what each thread may
still rely on of what it read: whatever is under way on the current connection
is about the job in the slot (`AllServeTheSlot`), that job is in one place at a
time (sender, pipe, worker or monitor: `OneTurn`, `WorkerWaits`), a killed worker
leaves nothing (`KilledIsGone`), and the reason a thread saw for a recycling stays
true of the job and the connection it saw (`CausesAreKept`). `ExecStep` has the
steps of all threads for any codes, so that the service can use it.

**Ledger**, for any runs, calls and amounts (`BudgetAssumption`): its type,
`SettledOnce` (`ChargesStand`) and `HardStop` (`HardStops`). The total is a sum
over a finite set that the library folds, and a fold cannot be unfolded for a
set of any size by this prover. The lemmas about sums go another way: a smallest
set for which a claim fails has an element without which it holds
(`WellFoundedInduction` over subsets); so a sum over a row that changes differs
by the change of that row.

**Service** (`DeliveryServiceProofs`). Its layers rest on each other:

1. `ProcessAgrees` (`Base`): types, the executor's invariant in the service, and
   where request, callback and notice stand relative to the executor's threads.
2. `ImplementsRepository`: every step of the service is a step of
   `DeliveryRepository` or leaves the tables alone; so all of that module's
   invariants hold here (`TablesAgree`). It takes `Base` to see that whatever
   thread writes does so for a process (`OwnerServes`).
3. `ImplementsLedger`: likewise for `DeliveryBudget`, hence its type, `HardStop`
   and the charges.
4. `RunsAreInCharge` (`Charge`): whatever is on its way to the worker or with it
   is for a live run (`WorkIsLive`), a run someone works for is this process's
   own (`HeldRunsAreOwn`), what a thread is about to settle has ended
   (`CallbackAgrees`, `NoticeAgrees`, `RequestIsNew`), a timeout has a cause.
5. `CallsAccount` (`Paid`): a call past its acknowledgement has its reservation,
   also after its worker is an orphan of a process that stopped
   (`CallsAreReserved`, `OrphanIsForeign`), what a provider billed is in the ledger
   (`BillsAreTold`), and the audit comes before the reservation (`AuditsLead`).

**The run** (`MCDeliveryProofs`): `TypesHold`; `SlotServed`; `RunHandled`, given
that no transaction fails (`"database" \notin Fault`; with failures
`LiveRunIsHandled` is false, see `service_lost`); `CallsAccounted`; `CostsStand`.
`PartsAssumption` and `ServiceAssumption` name what is asked of the constants of
its scenarios.

### Memory

**Ledger** (`MemoryLedgerProofs`), for any finite set of facts, any predicates,
days, candidates, keys, recalls and `Limit` (`LedgerAssumption`,
`NullAssumption`): type correctness, every safety invariant and the action
property of the `memory_ledger` run, and that `Spec` implements
`MemoryTimeline`. `IInv` adds to the properties the versions a status can have
(`RowOfStatus`) and that a recall only holds facts which have been in force
(`RecallsHoldForce`). `CommitEffect` and `DecideEffect` say what the two writers
leave in every row; `Takeover` shows that a fact which comes into force while its
rivals leave takes exactly its span in the timeline, using that at each instant
the holder is unique.

**Lists and recall.** For any rows, readers, filters and page sizes, a listing
gives no row twice and leaves out none it owes (`PagesAreWhole`): a cursor parts
what a reader has from what it is still owed (`Given`, `Owed`), which needs that
the order of rows is strict (`OlderIsAnOrder`) and that rows once committed keep
their time. For any finite set of memories, any question and budgets, a recall is
scoped, takes the best of each kind, and gives all but one core memory whole
(`RecallIsSound`): the order of a selection is total and strict (`RecallOrder`),
whoever got in comes before whoever has not (`Ordered`), and a core memory is left
out only when the characters are spent (`Portioned`).

### Agent

`AgentPartsProofs` has five parts, each for all values of its constants.

- Model calls: `ReservedBeforeNetwork` and `RejectionIsFinal`, given that `None`
  is no answer: all calls but the last are over, and the last is where the phase
  says (`EarlierAreOver`, `LastReaches`).
- Gates: `PromotionsStand`, given that numbers are counts (`NumbersAreCounts`),
  by the two routes of a promotion, and `ActiveStaysSound`, given that the
  files' contract is valid (`FilesAreValid`) and operations on lists name
  positions (`IndicesAreCounts`): a draft carries the identity through its
  operations and is valid from its validation on. `RunsPassTheGates` is about the
  runs beside it, given that questions have finitely many words and that `None`
  is no plan: plans are bounded, a skill of another intent is chosen for its words
  alone, and what is sufficient has a result for every action, which is short only
  where no rule asks for it.
  `RunInv` adds that the contract a run has loaded is a sound one, though it may
  have been replaced since, and that results stop short of the plan only after an
  error (`ResultsAreInTurn`).
- Evaluations (`EvaluationAssumption`): `PaysOnce`, that no completed key is paid
  for again, an attempt is reserved below the stop, known costs are the billed
  ones and completed rows are earned. `EvaluationInv` says that file and memory
  agree up to what this process has tried (`BooksAgree`).
- Shared models (`ThreadAssumption`): `ModelsAreShared`, that each model is loaded
  once and one thread encodes at a time. `KnowledgeInv` adds that a thread
  within a lock owns it (`LocksHold`) and that who is about to encode has had the
  embedder (`EncodersHaveIt`).
- Legacy memory: `OneCurrentFact` (`OneFactInForce`) for any runs, users,
  predicates and numbers of candidates. One fact in force among the committed
  rows is not inductive: `MemoryInv` adds that what each transaction sees has one
  (`WritesFit`) and that two transactions touch neither the same row nor the same
  index entry (`WritesSeparate`). `CommitKeepsFit` is the core: after a commit,
  what another transaction sees still has one fact per predicate. The advisory
  lock is not used anywhere in the proof: it is there so that runs do not fail,
  which `IndexIsBackstop` says and only TLC checks.

`MCAgentProofs` proves the four invariants of the `agent` run that have one, and
its action property, each from an inductive invariant of its component.

- Graph (`GraphBounded`), for any skills, queries, kills and promotions, of a
  delivered run (`Delivered`: channels of its own and at most three actions):
  the types of the channels, `ActionsAreBounded`, `GivesUpAfterReplan` and
  `SufficientIsComplete`. `GraphInv` adds where the count of passes is kept: the
  planner takes it from the verification and the verifier from the plan
  (`PassesAreCounted`), and what the verifier sees is what the result was put
  together from (`ResultsAreComplete`).
- Tools (`ToolsAreAnswered`), for any callers and calls: `SessionIsGuarded` says
  that who waits for the session holds the lock, that it is started once, and
  that who sends has it; an answer goes to the request it belongs to because the
  queue keeps the number of the call (`RequestsAreCounted`).
- Streams (`StreamsStayTrue`), for any requests, keys and cap, on either backend:
  a running row belongs to one generator (`RunsAreOwned`), a row tells what its
  generator did (`RowsAreTrue`), what was sent is what the row says
  (`AnswersStand`), and the counter is what was spent (`CapIsKept`).
- Evolution (`SkillStaysSound`, `ActivationsAreTold`). `EvolutionInv` has three
  layers. `EvolutionTyped` holds however batches overlap: rows are whole, the trail
  of events names rows that exist, a batch holds what it has written.
  `Orderly` asks that no two batches have overlapped: one batch is at work, one
  version serves, and it is the one the trail marks. `Fresh` asks besides that no
  batch started where another had been: what is active is what passed the gate,
  and a bad one is being checked. An activation is an event in every case.

### Client

`ClientProofs` proves one module after the other, for any number of calls that
overlap first and then for one call at a time.

- Following (`FollowingHolds`), for any runs, subscriptions, calls, logs, pages,
  breaks and kills, given that the database is not restored from a backup
  (`"restore" \notin Moves`: after one, copies may be ahead of the logs, and
  the scenario `follow` of `settles` checks that the screen still comes to show
  the end). `FollowInv` follows an event
  from the log to the screen: what is on the wire are public events, none left
  out after those the client has (`Wired`); what the service has passed is read or
  on the wire (`Streamed`), and a response that it has closed has the end there
  (`Closed`); a read of a run is a prefix of its log (`RestFits`); a copy is the
  public events up to its cursor (`CacheFits`), so that an event is applied once
  and in order whichever subscription delivers it. `StaysWatched` is the
  inductive form of `LiveRunIsWatched`: a live run at rest is watched, or a timer
  runs, or the attempts are spent, or a call that counts is still at work on it.
- `ShownIsWatched`, with one call at a time (`Still`): while a call is at work or
  the client is suspended nothing is watched (`Alone`).
- Submitting. `SubmissionInv` (any calls, losses, late requests and kills) has
  the tables, the screen and the calls: a request is for a key that was drawn,
  and an answer that a call has still holds, since runs and threads are there for
  good. A submission makes one run (`OneRunEach`) because a run has a key and a key
  a submission. With one call (`SubmissionIsKept`): the call at work is at the
  operation that is stored (`WorksOnStored`), the screen knows of it unless a call
  is about to say so (`RestIsKnown`), and a key for a thread is drawn once
  (`OneThreadDrawn`).
- Deciding. `DecisionsInv` says likewise for verdicts, the list and the answers;
  with it what the service approves was approved by the user, and a memory is
  busy exactly while a call decides on it (`VerdictsAreGiven`; `BusyInv` adds that
  two calls decide on different memories). With one call (`VerdictIsKept`):
  `KeptInv` says what each stage of a call has still to do for its verdict and
  that the list is behind the service, never ahead.

`MCClientProofs` draws from them all properties of the `client` run: `RunsAreTold`,
`RunsAreFollowed`, `SubmissionsStay`, `VerdictsStay` and `NothingIsTakenBack`,
given `ClientAssumption` of `MCClient`: the scenarios said to be alone have one
call, and there is no backup.

### Only model-checked

- Liveness, in `settles` and `agent_settles`: fairness and ENABLED are beyond the prover.
- Of `agent_parts` the suite as it stands. What is proved of its modules, for
  any constants, is in `AgentPartsProofs` and `MemoryLedgerProofs`; the rest is
  only checked:
  - `Model!CallsAreTold` and `FallbacksHold`: counts over the trace, which the
    fold of a sequence computes, and the nodes' results that rest on them;
    `Evaluation!StopIsKept`, the sum of what was billed over keys and restarts;
  - all of `EvidenceAgrees` but the sharing of models: sums over a bag of orders
    (`MerchantTools`), and the chunks a build makes of a corpus (`EmptyOrWhole`,
    `RetrievalsHold`), computed by recursion over documents;
  - of the legacy memory `SuccessorStands`, `LearnedWhole`, `IndexIsBackstop` and
    `SingleCandidatesWait`; of a recall `CoreFits` and `BudgetsAreUsed`
    (characters and counts of what was put into the context, one after the
    other).
- The binomials of `Significant`: what a recursive function computes for every
  input is induction over data. `PromotionsStand` takes them as they are.

## 5. Findings

- `_recycle` clears `_recycling` after `_spawn_locked` in its `finally`; if the
  spawn raises, `close` waits for ever (`executor_respawn`).
- A run whose database deadline passes while an event is on its way fails as
  `agent_failure`; the API document promises `run_timeout` (`service_deadline`).
- If the transaction of `on_failure` fails, the accepted run stays live without
  anyone to end it and blocks the slot until a restart, against the comment in
  `create_run` (`service_lost`).
- `completeRun` deletes the pending submission by its slot and not by its key
  (`local_store.dart:247`): when a submission was sent by two calls, the second
  answer deletes the one the user has made since, and a kill or a lost answer then
  loses it. `docs/android_client.md:12` says that pending operations are not dropped
  silently (`submission_overlap`).

### Divergences seen while modelling, without a run of their own

The models have these behaviours; the properties are stated so that they hold
beside them or say for which calls they hold.

- Client: `openRun` compares only the service generation (`view_model.dart:391`),
  so of two overlapping calls the run opened first may take screen, selection and
  watch from the one opened last; `docs/android_client.md:10` says old requests
  do not overwrite the current screen; `WatchesWhatIsShown` is checked with one
  call. What `submission_overlap` shows of a submission holds of a verdict after a
  conflict too (`repository.dart:215`), against `docs/android_client.md:15`;
  `VerdictIsNotLost` is checked with one call. Two overlapping list updates
  (`repository.dart:205`) can store an older version, healed by the next load.
  Overlapping first submissions can draw two threads (`repository.dart:39-48`), and
  then the service answers 409. A submission while another is being
  created joins it whatever its query.
- Evolution: a batch run again from the same active version meets its own
  candidates' rows, which `ON CONFLICT DO NOTHING` keeps: it evaluates the new
  content and promotes the stored one (`evolution_engine.py:87`), against
  `docs/v3_architecture.md:50-53`. Promotion and rollback are commits of their
  own: a kill between them leaves a regressing version active, at which no later
  batch looks (`evolution_engine.py:115`; the properties about regressions are about
  batches that are not killed), and two overlapping batches can leave no active
  version. A patch with a
  list index out of range raises out of the batch. The hash that is to find
  duplicates covers the version, so it finds none.
- Graph: without `max_actions` (legacy) a replanned run calls up to six tools
  (`graph_v2.py:282`; `docs/v3_architecture.md:20`: three). Under a thread's
  checkpoint the replan count is kept over queries (`graph_v2.py:229`;
  `planning.py:31`: exactly one replan). `failure_policy` is validated and read
  by nobody (`graph_v2.py:359`). A failed rule leads to an insight over the
  combined result as if it were verified (`graph_v2.py:358`). An insufficient
  result is remembered as an observation with evidence (`graph_v2.py:388`;
  `README.md:103`). A promotion between discovery and load leaves an audit event
  with the old version and the new hash (`graph_v2.py:113`). A plan of two or
  more actions cannot finish its second pass under a budget of three.
- Extraction: `extractor.py:36-39` says that a failure yields no candidate and no
  error of the run, but `graph_v2.py:415` calls `gate_candidate` outside every
  handler: a candidate with a blank subject raises (`policy.py:56`) and fails a
  run that was answered.
- Retrieval: `retriever.py:13` says that a model that cannot be loaded and a
  store that cannot be read raise `RAGNotAvailableError`; errors of the
  embedder, of the search and of the scoring escape as they are, and
  `strategy.py:115` catches only that class, so the action fails instead of
  falling back. A rebuild drops the collection before it reads the documents
  (`indexer.py:166`): one that is malformed leaves an empty index. A document
  with text and no heading has no chunk, without a word.
- Recall: `datetime.fromisoformat` (`app/memory/retriever.py:46`) raises on a
  date without leading zeros, which the pattern before it accepts, and on one
  that does not exist; the node calls it outside its handler (`graph_v2.py:163`)
  and the run fails. The candidates are cut to the nearest before the kinds'
  budgets and before the relevance test, both of which hold for core memories
  too, though `app/memory/retriever.py:99` says these are preserved.
- Lists: a decision writes the cached list of memories without its `next_cursor`
  (`repository.dart:205`), so that "more" loads nothing until the next refresh.
- Evaluations: after a call whose usage is unknown, only the reservation is
  charged, which may be less than was billed; of an attempt that a kill took
  nothing may be, so that a resumed evaluation can spend more than its stop; the
  flag `stopped` is written and
  read by nobody.
- Tool session: `_ensure_started` raises whatever `_run` recorded, not always
  `MCPClientError` as `client.py:13-14` says (`client.py:65`); a start that
  completes after its time limit makes later calls succeed although `_err` is
  set; a call past its limit keeps the sequential server busy.
- Legacy stream: a disconnect or kill leaves a row `running` for ever
  (`main.py:481`; `docs/v2_t09_summary.md:7`: the result can be read later). A
  replay that meets the completion between its two reads says `done` without an
  answer (`main.py:535`; `docs/v2_t09_summary.md:5`). A key that is reused with
  another query joins the run, and whoever claims it executes its own query; the
  demo cap counts runs that exist.
- Legacy memory: two runs that lock predicates in opposite order deadlock and an
  answered run fails; an approval that commits while a run learns the first fact
  of the predicate makes the insert a unique violation, which is no
  `ValueError`, and fails the run; the approval of a superseded row answers
  "active" while the row stays closed; overlapping periods with different bounds
  are not serialised by the lock (`memory_repository.py:71`), though no caller
  gives any.
- Calculations: one date alone is ignored; without traffic a product is blamed
  for a conversion of zero; the reason of refunds is taken over all time;
  sources without orders are missing from groups by source; a comparison of
  periods spans the months between, and a month named twice is compared with
  itself.

## 6. Not modelled, and why

- Embeddings and scores: which chunks are near and which are relevant is a
  choice. The splitter cuts where a text is full.
- Contracts, presentation and projection; wording of tools and of the insight:
  formatting without state.
- The providers' protocol, streaming and repair of JSON in `client.py`: part of
  "what the response amounts to" (`Body`).
- Outcomes and their links: they need a decision marked as executed, which no
  code does. The wrapper around Mem0 (`merchant_memory`): an external store.
- Data sets, scores and reports of evaluations, and the ablation: computations
  over files, without state that is shared or resumed.
- Widgets, notifications and settings forms of the app; emulator and
  verification scripts, generators of mock data and knowledge, the demo user
  interface: no shared state beyond what is modelled.
- CORS and health checks: single reads.
- A commit whose outcome is not learnt, for the legacy stream (`finish_run`): there
  a commit happens or fails.

Theorems that would come next: the remaining parts of the `agent_parts` run
(`LearnedWhole` and `SuccessorStands` of the legacy memory first, which rest on
the same `CommitKeepsFit`), and that the `agent` and `client` suites' modules
implement an abstract specification of their own, as the repository and the
memory ledger do.
