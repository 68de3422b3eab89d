------------------------------- MODULE MCAgent -------------------------------
(* The agent and what it rests on for TLC, as scenarios of one run: the      *)
(* graph, the evolution of a skill, the tool session and the streams of the  *)
(* legacy API.  A scenario is an instance of its module, chosen by the initial      *)
(* state; variables of one name serve all the modules that have them, the    *)
(* others stay parked.                                                       *)
EXTENDS AgentGraph, TLC

CONSTANTS
  Batch, Content, DevPass, Regressing,  \* of the evolution: batches, and contracts
  Rounds, MaxBatches, MaxKills, MaxRevisions,
  Client, MaxCalls,              \* callers of tools, requests of streams
  Key, Cap                       \* of the streams

VARIABLES
  rows, trail, batch, passed, reran, overlapped, starts, kills, revisions,
  pc, asked, end, lock, session, err, ready, thread, started, alive, queue,
  backend, used, key, sent,
  scenario

graph == <<at, chan, outcomes, late, calls, passes, active, aborts>>
evolution == <<rows, trail, batch, passed, reran, overlapped, starts, kills, revisions>>
tools == <<asked, end, lock, session, err, ready, thread, started, alive, queue>>
stream == <<backend, used, key, sent>>

\* Three contracts of the shapes of skills/: two steps with paths beside the
\* evidence, two steps that stop, three steps that want recalled memories.
Contracts == {
  [id |-> "anomaly", steps |-> 2, policy |-> "replan_once",
   rules |-> "data", needsMemory |-> FALSE, ends |-> "metric"],
  [id |-> "comparison", steps |-> 2, policy |-> "stop",
   rules |-> "evidence", needsMemory |-> FALSE, ends |-> "metric"],
  [id |-> "experiment", steps |-> 3, policy |-> "replan_once",
   rules |-> "evidence", needsMemory |-> TRUE, ends |-> "strategy"]}

Evolution == INSTANCE SkillEvolution
Tools == INSTANCE ToolSession WITH Caller <- Client
Legacy == INSTANCE LegacyStream WITH
  Request <- Client, Fault <- {"disconnect", "kill", "storage"}

ASSUME AgentAssumption ==
  /\ Evolution!EvolutionAssumption /\ Tools!ToolAssumption /\ Legacy!StreamAssumption

GraphIsParked ==
  /\ at = None /\ chan = None /\ outcomes = None /\ late = None /\ calls = None
  /\ passes = None /\ active = None /\ aborts = None

EvolutionIsParked ==
  /\ rows = None /\ trail = None /\ batch = None /\ passed = None /\ reran = None
  /\ overlapped = None /\ starts = None /\ kills = None /\ revisions = None

ToolsAreParked ==
  /\ asked = None /\ end = None /\ lock = None /\ session = None /\ err = None
  /\ ready = None /\ thread = None /\ started = None /\ alive = None /\ queue = None

StreamIsParked == backend = None /\ used = None /\ key = None /\ sent = None

MCInit ==
  \/ /\ scenario = "graph" /\ Init
     /\ EvolutionIsParked /\ ToolsAreParked /\ pc = None /\ StreamIsParked
  \/ /\ scenario = "evolution" /\ Evolution!Init
     /\ GraphIsParked /\ runs = None /\ ToolsAreParked /\ pc = None /\ StreamIsParked
  \/ /\ scenario = "tools" /\ Tools!Init
     /\ GraphIsParked /\ runs = None /\ EvolutionIsParked /\ StreamIsParked
  \/ /\ scenario = "stream" /\ Legacy!Init
     /\ GraphIsParked /\ EvolutionIsParked /\ ToolsAreParked

MCNext ==
  /\ UNCHANGED scenario
  /\ \/ /\ scenario = "graph" /\ Next
        /\ UNCHANGED <<evolution, tools, pc, stream>>
     \/ /\ scenario = "evolution" /\ Evolution!Next
        /\ UNCHANGED <<graph, runs, tools, pc, stream>>
     \/ /\ scenario = "tools" /\ Tools!Next
        /\ UNCHANGED <<graph, runs, evolution, stream>>
     \/ /\ scenario = "stream" /\ Legacy!Next
        /\ UNCHANGED <<graph, evolution, tools>>

MCSpec == MCInit /\ [][MCNext]_<<vars, evolution, tools, pc, stream, scenario>>

\* Callers and requests are interchangeable.
Interchangeable == Permutations(Client)

In(s) == scenario = s

-----------------------------------------------------------------------------
(* The properties, in every scenario they are about                        *)

\* A run calls at most three tools over its replan, gives up only after it, and
\* what it calls sufficient rests on every action of the last plan (planning.py,
\* graph_v2.py).
GraphIsBounded ==
  In("graph") =>
    TypeOK /\ ActionsAreBounded /\ GivesUpAfterReplan /\ SufficientIsComplete

\* As long as one batch runs at a time, one version of a skill is active and the events
\* tell which; as long as none starts where another has been, it is as it passed the gate,
\* and a regressing one is about to be rolled back (skill_repository.py,
\* evolution_engine.py).
ActiveSkillIsSound ==
  In("evolution") =>
    /\ Evolution!TypeOK /\ Evolution!AlwaysOneActive /\ Evolution!ActiveFollowsTrail
    /\ Evolution!ActiveIsWhatPassed /\ Evolution!BadIsBeingRolledBack

\* No version becomes active without the event that says so in the same commit, also
\* with two batches at once.
ActivationIsAnEvent ==
  [][In("evolution") => Evolution!ActivationIsTold]_<<rows, trail>>

\* One tool server is started for ever, an answer is that of the caller's last
\* request, and whoever sends has a session (client.py).
ToolsAnswer ==
  In("tools") => Tools!TypeOK /\ Tools!OneServer /\ Tools!AnswersAreOwn /\ Tools!SessionWhenSending

\* A key executes the agent once, the cap holds, and what a client was told of a run
\* is what its row says (claim_queued_run, claim_monthly_run, finish_run).
StreamsAreTrue ==
  In("stream") =>
    /\ Legacy!TypeOK /\ Legacy!OneExecution /\ Legacy!CapHolds
    /\ Legacy!AnswersAreTrue /\ Legacy!LearningBeforeFinal
=============================================================================
