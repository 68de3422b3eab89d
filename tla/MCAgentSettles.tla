---------------------------- MODULE MCAgentSettles ----------------------------
(* What the agent and its parts come to in the end, for TLC, as scenarios of  *)
(* one run (see MCAgent): the graph, the evolution of a skill, the tool       *)
(* session, the streams of the legacy API, and the recalls of MemoryLedger.   *)
EXTENDS AgentGraph

CONSTANTS
  Content, DevPass, Regressing,  \* contracts of the evolution
  Client,                        \* callers of tools, requests of streams
  Fact                           \* of the memory ledger

VARIABLES
  rows, trail, batch, passed, reran, overlapped, starts, kills, revisions,
  pc, asked, end, lock, session, err, ready, thread, started, alive, queue,
  backend, used, key, sent,
  facts, receipts, today, marked,
  scenario

graph == <<at, chan, outcomes, late, calls, passes, active, aborts>>
evolution == <<rows, trail, passed, reran, overlapped, starts, kills, revisions>>
tools == <<asked, end, lock, session, err, ready, thread, started, alive, queue>>
stream == <<backend, used, key, sent>>
memory == <<facts, receipts, today, marked>>

\* The longest shape of skills/: three steps that want recalled memories and may
\* be planned twice.
Contracts == {
  [id |-> "experiment", steps |-> 3, policy |-> "replan_once",
   rules |-> "evidence", needsMemory |-> TRUE, ends |-> "strategy"]}

Proposals == {[type |-> "user_fact", source |-> "user"],
              [type |-> "decision", source |-> "agent"]}

Evolution == INSTANCE SkillEvolution WITH
  Batch <- {1}, Rounds <- 2, MaxBatches <- 2, MaxKills <- 0, MaxRevisions <- 0
Tools == INSTANCE ToolSession WITH Caller <- Client, MaxCalls <- 2
Legacy == INSTANCE LegacyStream WITH
  Request <- Client, Key <- {1, 2}, Cap <- 1, Fault <- {}
Memory == INSTANCE MemoryLedger WITH
  Predicate <- {1}, Horizon <- 1, Candidate <- Proposals, Key <- {1}, Recall <- {1}, Limit <- 1

graphVars == vars
evolutionVars == Evolution!vars
toolVars == Tools!vars
streamVars == Legacy!vars
memoryVars == Memory!vars

GraphIsParked ==
  /\ at = None /\ chan = None /\ outcomes = None /\ late = None /\ calls = None
  /\ passes = None /\ active = None /\ aborts = None

EvolutionIsParked ==
  /\ rows = None /\ trail = None /\ passed = None /\ reran = None /\ overlapped = None
  /\ starts = None /\ kills = None /\ revisions = None

ToolsAreParked ==
  /\ asked = None /\ end = None /\ lock = None /\ session = None /\ err = None
  /\ ready = None /\ thread = None /\ started = None /\ alive = None /\ queue = None

StreamIsParked == backend = None /\ used = None /\ key = None /\ sent = None

MemoryIsParked == facts = None /\ receipts = None /\ today = None /\ marked = None

MCInit ==
  \/ /\ scenario = "graph" /\ Init
     /\ EvolutionIsParked /\ ToolsAreParked /\ StreamIsParked /\ MemoryIsParked
     /\ batch = None /\ pc = None
  \/ /\ scenario = "evolution" /\ Evolution!Init
     /\ GraphIsParked /\ ToolsAreParked /\ StreamIsParked /\ MemoryIsParked
     /\ runs = None /\ pc = None
  \/ /\ scenario = "tools" /\ Tools!Init
     /\ GraphIsParked /\ EvolutionIsParked /\ StreamIsParked /\ MemoryIsParked
     /\ runs = None /\ batch = None
  \/ /\ scenario = "stream" /\ Legacy!Init
     /\ GraphIsParked /\ EvolutionIsParked /\ ToolsAreParked /\ MemoryIsParked
     /\ batch = None
  \/ /\ scenario = "memory" /\ Memory!Init
     /\ GraphIsParked /\ EvolutionIsParked /\ ToolsAreParked /\ StreamIsParked
     /\ runs = None /\ pc = None

MCNext ==
  /\ UNCHANGED scenario
  /\ \/ /\ scenario = "graph" /\ Next
        /\ UNCHANGED <<evolution, batch, tools, pc, stream, memory>>
     \/ /\ scenario = "evolution" /\ Evolution!Next
        /\ UNCHANGED <<graph, runs, tools, pc, stream, memory>>
     \/ /\ scenario = "tools" /\ Tools!Next
        /\ UNCHANGED <<graph, runs, evolution, batch, stream, memory>>
     \/ /\ scenario = "stream" /\ Legacy!Next
        /\ UNCHANGED <<graph, evolution, batch, tools, memory>>
     \/ /\ scenario = "memory" /\ Memory!Next
        /\ UNCHANGED <<graph, runs, evolution, tools, pc, stream>>

In(s) == scenario = s

\* The fairness of the five modules, each in its scenario.
MCFairness ==
  /\ WF_graphVars(In("graph") /\ Work)
  /\ WF_evolutionVars(In("evolution") /\ Evolution!Moves(1))
  /\ \A c \in Client : SF_toolVars(In("tools") /\ Tools!Step(c))
  /\ \A r \in Client : WF_streamVars(In("stream") /\ Legacy!Respond(r))
  /\ SF_memoryVars(In("memory") /\ Memory!Fetch(1))
  /\ \A f \in Fact :
       /\ SF_memoryVars(In("memory") /\ Memory!Encode(1, f))
       /\ SF_memoryVars(In("memory") /\ Memory!Commit(1) /\ f \in marked[1])

MCSpec ==
  /\ MCInit /\ [][MCNext]_<<vars, evolution, batch, tools, pc, stream, memory, scenario>>
  /\ MCFairness

\* Whatever is begun ends: a run of the graph that is not killed, a call of a
\* tool, whatever becomes of the server and of the callers before it (the time
\* limits of client.py), and a claimed run of the legacy API, as long as its
\* client reads.
RunsAndCallsEnd ==
  /\ In("graph") /\ at # "idle" ~> at = "idle"
  /\ \A c \in Client : In("tools") /\ pc[c] # "idle" ~> In("tools") /\ pc[c] = "idle"
  /\ \A k \in {1, 2} :
       In("stream") /\ runs[k] # None /\ runs[k].status = "running"
         ~> In("stream") /\ runs[k] # None /\ runs[k].status \in Legacy!Settled

\* What was left is caught up with: a regressing version of a skill does not
\* stay active, unless a batch starts where another has been
\* (rollback_skill), and a fact in force can be recalled after a while or is
\* replaced before (docs/v2_memory_design.md: the next recall compensates).
LateWorkIsCaughtUp ==
  /\ In("evolution") /\ (\E v \in Evolution!Active : rows[v].content \in Regressing)
       ~> /\ In("evolution")
          /\ reran \/ \A v \in Evolution!Active : rows[v].content \notin Regressing
  /\ \A f \in Fact :
       In("memory") /\ facts[f].status = "active"
         ~> In("memory") /\ (facts[f].vector \/ facts[f].status # "active")
=============================================================================
