------------------------------- MODULE AgentGraph -------------------------------
(***************************************************************************)
(* One query through the bounded graph (graph_v2.build_graph_v2): router,  *)
(* recall, skill discovery and selection, planner, executor, verifier, at  *)
(* most one replan, insight and memory candidates.  The nodes read and     *)
(* write channels that a checkpointer keeps: under the run's own id for    *)
(* the delivery worker, under the thread's id for the legacy API.          *)
(* A step is a node, of the executor one action.                           *)
(***************************************************************************)
EXTENDS Naturals, Sequences, FiniteSets

CONSTANTS
  Skill,         \* the skills' contracts, see Contract
  PerRun,        \* is the checkpoint the run's (delivery) or the thread's (legacy)?
  MaxActions,    \* the observer's max_actions, NoLimit without an observer
  NoLimit,
  MaxRuns,       \* queries of the thread
  MaxVersion,    \* promotions of a skill while the runs go on
  MaxAborts,     \* runs that are killed or raise
  None

Contract == [id : {s.id : s \in Skill}, steps : 1 .. 3, policy : {"stop", "replan_once"},
             rules : {"evidence", "data"}, needsMemory : BOOLEAN, ends : {"metric", "strategy"}]

ASSUME GraphAssumption ==
  /\ Skill \subseteq Contract
  /\ PerRun \in BOOLEAN /\ MaxActions \in Nat \cup {NoLimit}
  /\ MaxRuns \in Nat /\ MaxVersion \in Nat \ {0} /\ MaxAborts \in Nat

VARIABLES
  at,        \* the node that runs next, "idle" between runs
  chan,      \* the channels, as the checkpointer keeps them
  outcomes,  \* of the actions the executor has run so far
  late,      \* have 120 seconds passed since the router?
  calls,     \* tool calls of the run
  passes,    \* plans the run has executed, counted up to three
  active,    \* the version of the skills that the registry serves
  runs, aborts

vars == <<at, chan, outcomes, late, calls, passes, active, runs, aborts>>

Nodes == {"router", "recall", "skill_discovery", "skill_selection", "planner", "executor",
          "verifier", "insight", "memory_candidate"}
Intent == {"metric", "attribution", "strategy"}
Outcome == {"ok", "thin", "empty", "raised", "late", "budget"}

\* "thin" is evidence without the path that a rule of the contract names.
HasEvidence(o) == o \in {"ok", "thin"}
Stops(o) == o \in {"late", "budget"}

NoPlan == [length |-> 0, replan |-> 0]
Unverified == [sufficient |-> FALSE, replan |-> 0, again |-> FALSE]
Empty == [intent |-> "metric", dates |-> 0, recalled |-> FALSE, found |-> None,
          skill |-> None, audit |-> None, plan |-> NoPlan, results |-> <<>>,
          result |-> None, verification |-> Unverified, candidates |-> {}]

Passed == IF passes < 3 THEN passes + 1 ELSE 3
Goto(node) == at' = node
Set(field, value) == chan' = [chan EXCEPT ![field] = value]
SkillChosen == chan.skill # None

-----------------------------------------------------------------------------
(* A run *)

\* run_query: the input overwrites the query, nothing else that a node writes.
Begin ==
  /\ at = "idle" /\ runs < MaxRuns
  /\ chan' = IF PerRun THEN Empty ELSE chan
  /\ runs' = runs + 1 /\ calls' = 0 /\ passes' = 0
  /\ Goto("router")
  /\ UNCHANGED <<outcomes, late, active, aborts>>

Router(intent, dates) ==
  /\ at = "router"
  /\ chan' = [chan EXCEPT !.intent = intent, !.dates = dates]
  /\ late' = FALSE
  /\ Goto("recall")
  /\ UNCHANGED <<outcomes, calls, passes, active, runs, aborts>>

\* Whatever goes wrong is an empty recall.
RecallMemories(some) ==
  /\ at = "recall"
  /\ Set("recalled", some)
  /\ Goto("skill_discovery")
  /\ UNCHANGED <<outcomes, late, calls, passes, active, runs, aborts>>

\* The metadata of the best match, or of none.
SkillDiscovery(s) ==
  /\ at = "skill_discovery"
  /\ Set("found", IF s = None THEN None ELSE [contract |-> s, version |-> active])
  /\ Goto("skill_selection")
  /\ UNCHANGED <<outcomes, late, calls, passes, active, runs, aborts>>

Eligible == chan.found # None /\ (chan.found.contract.needsMemory => chan.recalled)

\* The audit carries the version of the metadata and the hash of what was loaded.
SkillSelection ==
  /\ at = "skill_selection"
  /\ chan' = [chan EXCEPT
       !.skill = IF Eligible THEN chan.found.contract ELSE None,
       !.audit = IF Eligible THEN [version |-> chan.found.version, hash |-> active] ELSE None]
  /\ Goto("planner")
  /\ UNCHANGED <<outcomes, late, calls, passes, active, runs, aborts>>

\* One more pass than the last verification has counted, whatever it was for.
PlannerForgets ==
  /\ at = "planner"
  /\ Set("plan", [length |-> IF SkillChosen THEN chan.skill.steps ELSE 1, replan |-> 0])
  /\ outcomes' = <<>>
  /\ passes' = Passed
  /\ Goto("executor")
  /\ UNCHANGED <<late, calls, active, runs, aborts>>

PlanLength ==
  IF SkillChosen THEN chan.skill.steps
  ELSE IF chan.intent = "attribution" /\ chan.dates >= 2 THEN 2 ELSE 1

Planner ==
  /\ at = "planner"
  /\ Set("plan", [length |-> PlanLength, replan |-> chan.verification.replan])
  /\ outcomes' = <<>>
  /\ passes' = Passed
  /\ Goto("executor")
  /\ UNCHANGED <<late, calls, active, runs, aborts>>

Executed ==
  \/ Len(outcomes) = chan.plan.length
  \/ outcomes # <<>> /\ Stops(outcomes[Len(outcomes)])

\* The actions of a pass, not of the run.
ExhaustedInPass == MaxActions # NoLimit /\ Len(outcomes) >= MaxActions

Exhausted == MaxActions # NoLimit /\ calls >= MaxActions

\* The action is called, or the limit that keeps it from being called is its outcome.
Act(o) ==
  /\ at = "executor" /\ ~Executed
  /\ IF late THEN o = "late" ELSE IF Exhausted THEN o = "budget" ELSE ~Stops(o)
  /\ outcomes' = Append(outcomes, o)
  /\ calls' = IF Stops(o) THEN calls ELSE calls + 1
  /\ UNCHANGED <<at, chan, late, passes, active, runs, aborts>>

\* The first successful action speaks for all.
AnyEvidence(results) == \E i \in DOMAIN results : HasEvidence(results[i])

AllEvidence(results) ==
  results # <<>> /\ \A i \in DOMAIN results : HasEvidence(results[i])

\* A combined result, or the notice that the evidence is insufficient, with a reason as evidence.
Execute ==
  /\ at = "executor" /\ Executed
  /\ chan' = [chan EXCEPT
       !.results = outcomes,
       !.result = IF AllEvidence(outcomes) THEN "analysis" ELSE "insufficient"]
  /\ Goto("verifier")
  /\ UNCHANGED <<outcomes, late, calls, passes, active, runs, aborts>>

\* verify_skill_evidence: every rule finds its path in the result of its step.
RulesHold(results) ==
  /\ Len(results) = chan.skill.steps
  /\ \A i \in DOMAIN results :
       results[i] \in IF chan.skill.rules = "data" THEN {"ok"} ELSE {"ok", "thin"}

Sufficient == AllEvidence(chan.results) /\ (SkillChosen => RulesHold(chan.results))

\* A replan without an action left is spared.
MayReplanWithActions(sufficient) == ~sufficient /\ chan.plan.replan < 1 /\ ~Exhausted

\* next_plan
MayReplan(sufficient) == ~sufficient /\ chan.plan.replan < 1

Verifier ==
  /\ at = "verifier"
  /\ LET again == MayReplan(Sufficient) IN
     /\ Set("verification",
            [sufficient |-> Sufficient, again |-> again,
             replan |-> IF again THEN chan.plan.replan + 1 ELSE chan.plan.replan])
     /\ Goto(IF again THEN "planner" ELSE "insight")
  /\ UNCHANGED <<outcomes, late, calls, passes, active, runs, aborts>>

\* The result is rendered as it is, whatever the verification says.
Insight ==
  /\ at = "insight"
  /\ Goto("memory_candidate")
  /\ UNCHANGED <<chan, outcomes, late, calls, passes, active, runs, aborts>>

\* The notice keeps the intent as its task, and its reason as evidence.
ResultTask ==
  IF chan.result = "insufficient" THEN chan.intent
  ELSE IF SkillChosen THEN chan.skill.ends
  ELSE IF chan.intent = "strategy" THEN "strategy" ELSE "metric"

MemoryCandidate ==
  /\ at = "memory_candidate"
  /\ Set("candidates",
         IF ResultTask # "strategy" THEN {"observation"}
         ELSE IF chan.result = "analysis" THEN {"decision"} ELSE {})
  /\ Goto("idle")
  /\ UNCHANGED <<outcomes, late, calls, passes, active, runs, aborts>>

\* 120 seconds; only the executor looks, before an action.
TimePasses ==
  /\ at # "idle" /\ ~late
  /\ late' = TRUE
  /\ UNCHANGED <<at, chan, outcomes, calls, passes, active, runs, aborts>>

\* A kill, or a node that raises: the channels stay as the last node has left them.
Abort ==
  /\ at # "idle" /\ aborts < MaxAborts
  /\ aborts' = aborts + 1
  /\ Goto("idle")
  /\ UNCHANGED <<chan, outcomes, late, calls, passes, active, runs>>

\* The evolution or a reviewer promotes another version (SkillEvolution).
PromoteVersion ==
  /\ active < MaxVersion
  /\ active' = active + 1
  /\ UNCHANGED <<at, chan, outcomes, late, calls, passes, runs, aborts>>

Init ==
  /\ at = "idle" /\ chan = Empty /\ outcomes = <<>> /\ late = FALSE
  /\ calls = 0 /\ passes = 0 /\ active = 1 /\ runs = 0 /\ aborts = 0

Work ==
  \/ \E intent \in Intent, dates \in 0 .. 2 : Router(intent, dates)
  \/ \E some \in BOOLEAN : RecallMemories(some)
  \/ \E s \in Skill \cup {None} : SkillDiscovery(s)
  \/ SkillSelection \/ Planner
  \/ \E o \in Outcome : Act(o)
  \/ Execute \/ Verifier \/ Insight \/ MemoryCandidate

Next == Begin \/ Work \/ TimePasses \/ Abort \/ PromoteVersion

Spec == Init /\ [][Next]_vars

\* Tool calls and model calls have timeouts of their own: a node goes on.
FairSpec == Spec /\ WF_vars(Work)

-----------------------------------------------------------------------------
(* Properties *)

TypeOK ==
  /\ at \in Nodes \cup {"idle"}
  /\ chan.intent \in Intent /\ chan.dates \in 0 .. 2 /\ chan.recalled \in BOOLEAN
  /\ chan.skill \in Skill \cup {None}
  /\ chan.plan \in [length : 0 .. 3, replan : 0 .. 1]
  /\ chan.results \in Seq(Outcome) /\ Len(chan.results) <= 3
  /\ chan.result \in {None, "analysis", "insufficient"}
  /\ chan.verification \in [sufficient : BOOLEAN, replan : 0 .. 1, again : BOOLEAN]
  /\ chan.candidates \subseteq {"observation", "decision"}
  /\ outcomes \in Seq(Outcome) /\ Len(outcomes) <= 3 /\ late \in BOOLEAN
  /\ calls \in Nat /\ passes \in 0 .. 2
  /\ active \in 1 .. MaxVersion /\ runs \in 0 .. MaxRuns /\ aborts \in 0 .. MaxAborts

(* A run calls at most three tools, its replan included, and plans at most twice
   (docs/v3_architecture.md:20, docs/android_delivery.md:19). *)
ActionsAreBounded == calls <= 3 /\ passes <= 2

(* Nobody is told that the evidence is insufficient before the replan was used:
   a run that gives up has executed its plan twice (planning.next_plan). *)
GivesUpAfterReplan ==
  at = "insight" /\ ~chan.verification.sufficient => passes = 2

(* What is called sufficient is an analysis that rests on every action of the plan,
   in the last pass (_execute, _verify). *)
SufficientIsComplete ==
  at = "insight" /\ chan.verification.sufficient =>
    /\ chan.result = "analysis"
    /\ Len(chan.results) = chan.plan.length
    /\ \A i \in DOMAIN chan.results : HasEvidence(chan.results[i])
=============================================================================
