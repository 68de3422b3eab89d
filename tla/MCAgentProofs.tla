--------------------------- MODULE MCAgentProofs ---------------------------
(* The properties of the `agent` run, for any skills, callers, requests, keys and *)
(* batches: the limits of a delivered run, whose channels are its own and whose   *)
(* observer allows at most three actions; the tool session; the streams of the    *)
(* legacy API; the evolution of a skill.                                          *)
EXTENDS MCAgent, FiniteSetTheorems, TLAPS

-----------------------------------------------------------------------------
(* The graph *)

Delivered == PerRun = TRUE /\ MaxActions \in Nat /\ MaxActions <= 3 /\ MaxActions # NoLimit

IsChan == chan = [intent |-> chan.intent, dates |-> chan.dates, recalled |-> chan.recalled,
                  found |-> chan.found, skill |-> chan.skill, audit |-> chan.audit,
                  plan |-> chan.plan, results |-> chan.results, result |-> chan.result,
                  verification |-> chan.verification, candidates |-> chan.candidates]

Entered == {"router", "recall", "skill_discovery", "skill_selection"}

CallsAreCounted == calls \in Nat /\ calls <= MaxActions
OutcomesAreASequence == outcomes \in Seq(Outcome)

\* How many plans have been executed, by the node: the planner takes the count from the
\* verification, and the verifier from the plan.
PassesAreCounted ==
  /\ passes \in 0 .. 2
  /\ at \in Entered => passes = 0 /\ chan.verification.replan = 0
  /\ at = "planner" => passes \in 0 .. 1 /\ chan.verification.replan = passes
  /\ at \in {"executor", "verifier"} => chan.plan.replan \in 0 .. 1 /\ passes = chan.plan.replan + 1
  /\ at = "insight" /\ ~ chan.verification.sufficient => passes = 2

Complete == /\ chan.result = "analysis"
            /\ Len(chan.results) = chan.plan.length
            /\ \A i \in DOMAIN chan.results : HasEvidence(chan.results[i])

\* The result is put together from the outcomes that the verifier sees.
ResultsAreComplete ==
  /\ at = "verifier" /\ AllEvidence(chan.results) => Complete
  /\ at = "insight" /\ chan.verification.sufficient => Complete

GraphInv == IsChan /\ CallsAreCounted /\ OutcomesAreASequence /\ PassesAreCounted /\ ResultsAreComplete

-----------------------------------------------------------------------------

\* Before the first query nothing has been done.
LEMMA GraphInvInit == ASSUME Delivered, Init PROVE GraphInv
BY DEF Delivered, Init, Empty, Unverified, GraphInv, IsChan, CallsAreCounted, OutcomesAreASequence,
       PassesAreCounted, ResultsAreComplete, Entered

\* A query starts with channels and counts of its own.
LEMMA BeginStep == ASSUME Delivered, GraphInv, Begin PROVE GraphInv'
BY DEF Delivered, Begin, Goto, Empty, Unverified, GraphInv, IsChan, CallsAreCounted,
       OutcomesAreASequence, PassesAreCounted, ResultsAreComplete, Entered

\* A node between the router and the planner touches neither plan nor verification.
LEMMA EarlyStep ==
  ASSUME GraphInv, at \in Entered, at' \in Entered \cup {"planner"},
         UNCHANGED <<outcomes, calls, passes>>, IsChan',
         chan'.verification = chan.verification
  PROVE  GraphInv'
BY DEF GraphInv, CallsAreCounted, OutcomesAreASequence, PassesAreCounted, ResultsAreComplete, Entered

\* The steps of the graph, node by node.
LEMMA WorkStep == ASSUME Delivered, GraphInv, Work PROVE GraphInv'
<1>1. ASSUME NEW intent, NEW dates, Router(intent, dates) PROVE GraphInv'
  <2>1. chan' = [chan EXCEPT !.intent = intent, !.dates = dates] BY <1>1 DEF Router
  <2>2. IsChan' /\ chan'.verification = chan.verification BY <2>1 DEF GraphInv, IsChan
  <2> QED BY <1>1, <2>2, EarlyStep DEF Router, Goto, Entered
<1>2. ASSUME NEW some, RecallMemories(some) PROVE GraphInv'
  <2>1. chan' = [chan EXCEPT !["recalled"] = some] BY <1>2 DEF RecallMemories, Set
  <2>2. IsChan' /\ chan'.verification = chan.verification BY <2>1 DEF GraphInv, IsChan
  <2> QED BY <1>2, <2>2, EarlyStep DEF RecallMemories, Goto, Entered
<1>3. ASSUME NEW s, SkillDiscovery(s) PROVE GraphInv'
  <2>1. PICK x : chan' = [chan EXCEPT !["found"] = x] BY <1>3 DEF SkillDiscovery, Set
  <2>2. IsChan' /\ chan'.verification = chan.verification BY <2>1 DEF GraphInv, IsChan
  <2> QED BY <1>3, <2>2, EarlyStep DEF SkillDiscovery, Goto, Entered
<1>4. CASE SkillSelection
  <2>1. PICK s, a : chan' = [chan EXCEPT !.skill = s, !.audit = a] BY <1>4 DEF SkillSelection
  <2>2. IsChan' /\ chan'.verification = chan.verification BY <2>1 DEF GraphInv, IsChan
  <2> QED BY <1>4, <2>2, EarlyStep DEF SkillSelection, Goto, Entered
<1>5. CASE Planner
  <2> DEFINE p == [length |-> PlanLength, replan |-> chan.verification.replan]
  <2>1. chan' = [chan EXCEPT !["plan"] = p] BY <1>5 DEF Planner, Set
  <2>2. p.replan = chan.verification.replan OBVIOUS
  <2> HIDE DEF p
  <2>3. IsChan' /\ chan'.plan = p BY <2>1 DEF GraphInv, IsChan
  <2>4. at = "planner" /\ at' = "executor" /\ outcomes' = <<>> /\ calls' = calls /\ passes' = Passed
    BY <1>5 DEF Planner, Goto
  <2>5. chan'.plan.replan = passes /\ passes \in 0 .. 1
    BY <2>2, <2>3, <2>4 DEF GraphInv, PassesAreCounted
  <2>6. passes' = passes + 1 BY <2>4, <2>5 DEF Passed
  <2> QED BY <2>3, <2>4, <2>5, <2>6
          DEF GraphInv, CallsAreCounted, OutcomesAreASequence, PassesAreCounted, ResultsAreComplete, Entered
<1>6. ASSUME NEW o \in Outcome, Act(o) PROVE GraphInv'
  <2>1. at = "executor" /\ UNCHANGED <<at, chan, passes>> /\ outcomes' = Append(outcomes, o)
    BY <1>6 DEF Act
  <2>2. CallsAreCounted'
    BY <1>6 DEF Act, Exhausted, Stops, Delivered, GraphInv, CallsAreCounted
  <2>3. outcomes' \in Seq(Outcome) BY <2>1 DEF GraphInv, OutcomesAreASequence
  <2> QED BY <2>1, <2>2, <2>3
          DEF GraphInv, IsChan, OutcomesAreASequence, PassesAreCounted, ResultsAreComplete, Entered
<1>7. CASE Execute
  <2> DEFINE x == IF AllEvidence(outcomes) THEN "analysis" ELSE "insufficient"
  <2>1. chan' = [chan EXCEPT !.results = outcomes, !.result = x] BY <1>7 DEF Execute
  <2>2. x = "analysis" \/ ~ AllEvidence(outcomes) OBVIOUS
  <2> HIDE DEF x
  <2>3. IsChan' /\ chan'.results = outcomes /\ chan'.result = x /\ chan'.plan = chan.plan
    BY <2>1 DEF GraphInv, IsChan
  <2>4. at = "executor" /\ at' = "verifier" /\ UNCHANGED <<outcomes, calls, passes>> /\ Executed
    BY <1>7 DEF Execute, Goto
  <2>5. AllEvidence(outcomes) => Len(outcomes) = chan.plan.length
    <3>1. outcomes \in Seq(Outcome) BY DEF GraphInv, OutcomesAreASequence
    <3>2. outcomes # <<>> => Len(outcomes) \in DOMAIN outcomes BY <3>1
    <3>3. \A o : HasEvidence(o) => ~ Stops(o) BY DEF HasEvidence, Stops
    <3> QED BY <2>4, <3>2, <3>3 DEF Executed, AllEvidence
  <2>6. ResultsAreComplete'
    BY <2>2, <2>3, <2>4, <2>5 DEF ResultsAreComplete, Complete, AllEvidence
  <2> QED BY <2>3, <2>4, <2>6
          DEF GraphInv, CallsAreCounted, OutcomesAreASequence, PassesAreCounted, Entered
<1>8. CASE Verifier
  <2> DEFINE again == MayReplan(Sufficient)
             v == [sufficient |-> Sufficient, again |-> again,
                   replan |-> IF again THEN chan.plan.replan + 1 ELSE chan.plan.replan]
  <2>1. chan' = [chan EXCEPT !["verification"] = v] /\ at = "verifier"
        /\ at' = (IF again THEN "planner" ELSE "insight") /\ UNCHANGED <<outcomes, calls, passes>>
    BY <1>8 DEF Verifier, Set, Goto
  <2>2. v.sufficient = Sufficient /\ (again => v.replan = chan.plan.replan + 1) OBVIOUS
  <2> HIDE DEF v
  <2>3. IsChan' /\ chan'.verification = v /\ chan'.plan = chan.plan
        /\ chan'.results = chan.results /\ chan'.result = chan.result
    BY <2>1 DEF GraphInv, IsChan
  <2>4. chan.plan.replan \in 0 .. 1 /\ passes = chan.plan.replan + 1
    BY <2>1 DEF GraphInv, PassesAreCounted
  <2>5. Sufficient => Complete BY <2>1 DEF Sufficient, GraphInv, ResultsAreComplete
  <2>6. CASE again
    <3>1. at' = "planner" /\ v.replan = passes /\ passes = 1
      BY <2>1, <2>2, <2>4, <2>6 DEF MayReplan
    <3> QED BY <2>1, <2>3, <3>1
            DEF GraphInv, CallsAreCounted, OutcomesAreASequence, PassesAreCounted, ResultsAreComplete, Entered
  <2>7. CASE ~ again
    <3>1. at' = "insight" /\ (~ v.sufficient => passes = 2) /\ (v.sufficient => Complete)
      BY <2>1, <2>2, <2>4, <2>5, <2>7 DEF MayReplan
    <3>2. (v.sufficient => Complete')
      BY <2>3, <3>1 DEF Complete
    <3> QED BY <2>1, <2>3, <3>1, <3>2
            DEF GraphInv, CallsAreCounted, OutcomesAreASequence, PassesAreCounted, ResultsAreComplete, Entered
  <2> QED BY <2>6, <2>7
<1>9. CASE Insight
  BY <1>9 DEF Insight, Goto, GraphInv, IsChan, CallsAreCounted, OutcomesAreASequence,
              PassesAreCounted, ResultsAreComplete, Entered
<1>10. CASE MemoryCandidate
  <2>1. PICK x : chan' = [chan EXCEPT !["candidates"] = x] BY <1>10 DEF MemoryCandidate, Set
  <2>2. IsChan' BY <2>1 DEF GraphInv, IsChan
  <2> QED BY <1>10, <2>2
          DEF MemoryCandidate, Goto, GraphInv, CallsAreCounted, OutcomesAreASequence,
              PassesAreCounted, ResultsAreComplete, Entered
<1> QED BY <1>1, <1>2, <1>3, <1>4, <1>5, <1>6, <1>7, <1>8, <1>9, <1>10 DEF Work

\* Every step keeps the invariant.
LEMMA GraphInvStep == ASSUME Delivered, GraphInv, [Next]_vars PROVE GraphInv'
<1>1. CASE Abort
  BY <1>1 DEF Abort, Goto, GraphInv, IsChan, CallsAreCounted, OutcomesAreASequence,
              PassesAreCounted, ResultsAreComplete, Entered
<1>2. ASSUME UNCHANGED <<at, chan, outcomes, calls, passes>> PROVE GraphInv'
  BY <1>2 DEF GraphInv, IsChan, CallsAreCounted, OutcomesAreASequence, PassesAreCounted,
              ResultsAreComplete, Complete
<1>3. CASE TimePasses BY <1>2, <1>3 DEF TimePasses
<1>4. CASE PromoteVersion BY <1>2, <1>4 DEF PromoteVersion
<1>5. CASE UNCHANGED vars BY <1>2, <1>5 DEF vars
<1> QED BY <1>1, <1>3, <1>4, <1>5, BeginStep, WorkStep DEF Next

\* The invariant holds in every state of a delivered run.
LEMMA GraphInvHolds == ASSUME Delivered PROVE Spec => []GraphInv
<1>1. Init => GraphInv BY Delivered, GraphInvInit
<1>2. GraphInv /\ [Next]_vars => GraphInv' BY Delivered, GraphInvStep
<1> QED BY <1>1, <1>2, PTL DEF Spec

\* ActionsAreBounded for any skills and queries: a delivered run calls at most three tools,
\* its replan included, and plans at most twice (executor.py:186, planning.py).
THEOREM LimitsHold == ASSUME Delivered PROVE Spec => []ActionsAreBounded
<1>1. GraphInv => ActionsAreBounded
  BY Delivered DEF Delivered, GraphInv, CallsAreCounted, PassesAreCounted, ActionsAreBounded
<1> QED BY <1>1, GraphInvHolds, Delivered, PTL

\* GivesUpAfterReplan for any skills and queries: a delivered run that gives up has used
\* its replan (next_plan).
THEOREM ReplanComesFirst == ASSUME Delivered PROVE Spec => []GivesUpAfterReplan
<1>1. GraphInv => GivesUpAfterReplan BY DEF GraphInv, PassesAreCounted, GivesUpAfterReplan
<1> QED BY <1>1, GraphInvHolds, Delivered, PTL

\* SufficientIsComplete for any skills and queries: what a delivered run calls sufficient
\* rests on every action of its last plan (_execute, _verify).
THEOREM SufficientRestsOnAll == ASSUME Delivered PROVE Spec => []SufficientIsComplete
<1>1. GraphInv => SufficientIsComplete
  BY DEF GraphInv, ResultsAreComplete, Complete, SufficientIsComplete
<1> QED BY <1>1, GraphInvHolds, Delivered, PTL

-----------------------------------------------------------------------------
(* What the channels hold *)

\* What a selected skill or a plan is good for: at most three actions.
ChannelsAreTyped ==
  /\ chan.intent \in Intent /\ chan.dates \in 0 .. 2 /\ chan.recalled \in BOOLEAN
  /\ chan.found # None => chan.found.contract \in Skill
  /\ chan.skill \in Skill \cup {None}
  /\ chan.plan \in [length : 0 .. 3, replan : 0 .. 1]
  /\ chan.results \in Seq(Outcome) /\ Len(chan.results) <= 3
  /\ chan.result \in {None, "analysis", "insufficient"}
  /\ chan.verification \in [sufficient : BOOLEAN, replan : 0 .. 1, again : BOOLEAN]
  /\ chan.candidates \subseteq {"observation", "decision"}

OutcomesFit ==
  /\ outcomes \in Seq(Outcome) /\ Len(outcomes) <= 3
  /\ at = "executor" => Len(outcomes) <= chan.plan.length

CountersFit ==
  /\ at \in Nodes \cup {"idle"} /\ late \in BOOLEAN
  /\ active \in 1 .. MaxVersion /\ runs \in 0 .. MaxRuns /\ aborts \in 0 .. MaxAborts

GraphTypes == IsChan /\ ChannelsAreTyped /\ OutcomesFit /\ CountersFit

\* A node that keeps what the executor works with keeps its outcomes.
LEMMA SameOutcomes ==
  ASSUME OutcomesFit, UNCHANGED outcomes, at' # "executor" \/ UNCHANGED <<at, chan>>
  PROVE  OutcomesFit'
BY DEF OutcomesFit

\* Nothing has run before the first query.
LEMMA GraphTypesInit == ASSUME Init PROVE GraphTypes
<1>1. IsChan /\ ChannelsAreTyped
  BY DEF Init, IsChan, ChannelsAreTyped, Empty, NoPlan, Unverified, Intent
<1>2. OutcomesFit BY DEF Init, OutcomesFit
<1>3. CountersFit
  <2>1. MaxVersion \in Nat /\ MaxVersion >= 1 /\ MaxRuns \in Nat /\ MaxAborts \in Nat
    BY GraphAssumption
  <2>2. late \in BOOLEAN /\ at \in Nodes \cup {"idle"} BY Zenon DEF Init
  <2> QED BY <2>1, <2>2 DEF Init, CountersFit
<1> QED BY <1>1, <1>2, <1>3 DEF GraphTypes

\* The plan of a skill or of an intent has at most three actions.
LEMMA PlanIsShort == ASSUME ChannelsAreTyped PROVE PlanLength \in 1 .. 3
<1>1. chan.skill # None => chan.skill.steps \in 1 .. 3
  BY GraphAssumption DEF ChannelsAreTyped, Contract
<1> QED BY <1>1 DEF PlanLength, SkillChosen

\* The steps of the graph, node by node.
LEMMA GraphTypesWork == ASSUME GraphTypes, Work PROVE GraphTypes'
<1> USE DEF GraphTypes
<1>1. ASSUME NEW intent \in Intent, NEW dates \in 0 .. 2, Router(intent, dates) PROVE GraphTypes'
  <2>1. IsChan' /\ ChannelsAreTyped' BY <1>1 DEF Router, IsChan, ChannelsAreTyped
  <2>2. OutcomesFit' BY <1>1, SameOutcomes DEF Router, Goto
  <2>3. CountersFit' BY <1>1 DEF Router, Goto, CountersFit, Nodes
  <2> QED BY <2>1, <2>2, <2>3
<1>2. ASSUME NEW some \in BOOLEAN, RecallMemories(some) PROVE GraphTypes'
  <2>0. chan' = [chan EXCEPT !["recalled"] = some] BY <1>2 DEF RecallMemories, Set
  <2>1. IsChan' /\ ChannelsAreTyped' BY <2>0 DEF IsChan, ChannelsAreTyped
  <2>2. OutcomesFit' BY <1>2, SameOutcomes DEF RecallMemories, Goto
  <2>3. CountersFit' BY <1>2 DEF RecallMemories, Goto, CountersFit, Nodes
  <2> QED BY <2>1, <2>2, <2>3
<1>3. ASSUME NEW s \in Skill \cup {None}, SkillDiscovery(s) PROVE GraphTypes'
  <2> DEFINE x == IF s = None THEN None ELSE [contract |-> s, version |-> active]
  <2>0. chan' = [chan EXCEPT !["found"] = x] BY <1>3 DEF SkillDiscovery, Set
  <2>4. x # None => x.contract \in Skill OBVIOUS
  <2> HIDE DEF x
  <2>1. IsChan' /\ ChannelsAreTyped' BY <2>0, <2>4 DEF IsChan, ChannelsAreTyped
  <2>2. OutcomesFit' BY <1>3, SameOutcomes DEF SkillDiscovery, Goto
  <2>3. CountersFit' BY <1>3 DEF SkillDiscovery, Goto, CountersFit, Nodes
  <2> QED BY <2>1, <2>2, <2>3
<1>4. CASE SkillSelection
  <2> DEFINE s == IF Eligible THEN chan.found.contract ELSE None
             a == IF Eligible THEN [version |-> chan.found.version, hash |-> active] ELSE None
  <2>0. chan' = [chan EXCEPT !.skill = s, !.audit = a] BY <1>4 DEF SkillSelection
  <2>4. s \in Skill \cup {None} BY DEF Eligible, ChannelsAreTyped
  <2> HIDE DEF s, a
  <2>1. IsChan' /\ ChannelsAreTyped' BY <2>0, <2>4 DEF IsChan, ChannelsAreTyped
  <2>2. OutcomesFit' BY <1>4, SameOutcomes DEF SkillSelection, Goto
  <2>3. CountersFit' BY <1>4 DEF SkillSelection, Goto, CountersFit, Nodes
  <2> QED BY <2>1, <2>2, <2>3
<1>5. CASE Planner
  <2> DEFINE p == [length |-> PlanLength, replan |-> chan.verification.replan]
  <2>0. chan' = [chan EXCEPT !["plan"] = p] BY <1>5 DEF Planner, Set
  <2>4. p \in [length : 0 .. 3, replan : 0 .. 1] BY PlanIsShort DEF ChannelsAreTyped
  <2> HIDE DEF p
  <2>1. IsChan' /\ ChannelsAreTyped' /\ chan'.plan = p
    BY <2>0, <2>4 DEF IsChan, ChannelsAreTyped
  <2>2. OutcomesFit' BY <1>5, <2>1, <2>4 DEF Planner, OutcomesFit
  <2>3. CountersFit' BY <1>5 DEF Planner, Goto, CountersFit, Nodes
  <2> QED BY <2>1, <2>2, <2>3
<1>6. ASSUME NEW o \in Outcome, Act(o) PROVE GraphTypes'
  <2>1. IsChan' /\ ChannelsAreTyped' BY <1>6, Zenon DEF Act, IsChan, ChannelsAreTyped
  <2>2. at = "executor" /\ at' = at /\ chan' = chan /\ outcomes' = Append(outcomes, o)
        /\ Len(outcomes) # chan.plan.length
    BY <1>6 DEF Act, Executed
  <2>3. chan.plan.length \in 0 .. 3 BY DEF ChannelsAreTyped
  <2>4. OutcomesFit' BY <2>2, <2>3 DEF OutcomesFit
  <2>5. CountersFit' BY <1>6 DEF Act, CountersFit
  <2> QED BY <2>1, <2>4, <2>5
<1>7. CASE Execute
  <2> DEFINE x == IF AllEvidence(outcomes) THEN "analysis" ELSE "insufficient"
  <2>0. chan' = [chan EXCEPT !.results = outcomes, !.result = x] BY <1>7 DEF Execute
  <2>4. x \in {"analysis", "insufficient"} OBVIOUS
  <2> HIDE DEF x
  <2>1. IsChan' /\ ChannelsAreTyped' BY <2>0, <2>4 DEF IsChan, ChannelsAreTyped, OutcomesFit
  <2>2. OutcomesFit' BY <1>7, SameOutcomes DEF Execute, Goto
  <2>3. CountersFit' BY <1>7 DEF Execute, Goto, CountersFit, Nodes
  <2> QED BY <2>1, <2>2, <2>3
<1>8. CASE Verifier
  <2> DEFINE again == MayReplan(Sufficient)
             v == [sufficient |-> Sufficient, again |-> again,
                   replan |-> IF again THEN chan.plan.replan + 1 ELSE chan.plan.replan]
  <2>1. chan' = [chan EXCEPT !["verification"] = v]
        /\ at' = (IF again THEN "planner" ELSE "insight") /\ UNCHANGED <<outcomes, late, active, runs, aborts>>
    BY <1>8 DEF Verifier, Set, Goto
  <2>2. Sufficient \in BOOLEAN /\ again \in BOOLEAN BY DEF Sufficient, MayReplan, AllEvidence, RulesHold
  <2>3. chan.plan.replan \in 0 .. 1 BY DEF ChannelsAreTyped
  <2>4. again => chan.plan.replan = 0 BY <2>3 DEF MayReplan
  <2> HIDE DEF again
  <2>5. v \in [sufficient : BOOLEAN, replan : 0 .. 1, again : BOOLEAN] BY <2>2, <2>3, <2>4
  <2> HIDE DEF v
  <2>6. IsChan' /\ ChannelsAreTyped' BY <2>1, <2>5 DEF IsChan, ChannelsAreTyped
  <2>7. OutcomesFit' BY <2>1, SameOutcomes
  <2>8. CountersFit' BY <2>1 DEF CountersFit, Nodes
  <2> QED BY <2>6, <2>7, <2>8
<1>9. CASE Insight
  <2>1. IsChan' /\ ChannelsAreTyped' BY <1>9, Zenon DEF Insight, IsChan, ChannelsAreTyped
  <2>2. OutcomesFit' BY <1>9, SameOutcomes DEF Insight, Goto
  <2>3. CountersFit' BY <1>9 DEF Insight, Goto, CountersFit, Nodes
  <2> QED BY <2>1, <2>2, <2>3
<1>10. CASE MemoryCandidate
  <2> DEFINE x == IF ResultTask # "strategy" THEN {"observation"}
                  ELSE IF chan.result = "analysis" THEN {"decision"} ELSE {}
  <2>0. chan' = [chan EXCEPT !["candidates"] = x] BY <1>10 DEF MemoryCandidate, Set
  <2>4. x \subseteq {"observation", "decision"} OBVIOUS
  <2> HIDE DEF x
  <2>1. IsChan' /\ ChannelsAreTyped' BY <2>0, <2>4 DEF IsChan, ChannelsAreTyped
  <2>2. OutcomesFit' BY <1>10, SameOutcomes DEF MemoryCandidate, Goto
  <2>3. CountersFit' BY <1>10 DEF MemoryCandidate, Goto, CountersFit
  <2> QED BY <2>1, <2>2, <2>3
<1> QED BY <1>1, <1>2, <1>3, <1>4, <1>5, <1>6, <1>7, <1>8, <1>9, <1>10 DEF Work

\* Every step keeps the types; a delivered run starts with empty channels.
LEMMA GraphTypesStep == ASSUME Delivered, GraphTypes, [Next]_vars PROVE GraphTypes'
<1>1. CASE Begin
  <2>1. chan' = Empty BY <1>1 DEF Begin, Delivered
  <2>2. IsChan' /\ ChannelsAreTyped'
    BY <2>1 DEF IsChan, ChannelsAreTyped, Empty, NoPlan, Unverified, Intent
  <2>3. OutcomesFit' BY <1>1, SameOutcomes DEF Begin, Goto, GraphTypes
  <2>4. CountersFit' BY <1>1, GraphAssumption DEF Begin, Goto, CountersFit, Nodes, GraphTypes
  <2> QED BY <2>2, <2>3, <2>4 DEF GraphTypes
<1>2. ASSUME UNCHANGED <<chan, outcomes>>, UNCHANGED at \/ at' = "idle", CountersFit' PROVE GraphTypes'
  BY <1>2, SameOutcomes DEF GraphTypes, IsChan, ChannelsAreTyped
<1>3. CASE Abort
  <2>1. CountersFit' BY <1>3, GraphAssumption DEF Abort, Goto, CountersFit, GraphTypes
  <2> QED BY <1>2, <1>3, <2>1 DEF Abort, Goto
<1>4. CASE TimePasses
  <2>1. CountersFit' BY <1>4 DEF TimePasses, CountersFit, GraphTypes
  <2> QED BY <1>2, <1>4, <2>1 DEF TimePasses
<1>5. CASE PromoteVersion
  <2>1. CountersFit' BY <1>5, GraphAssumption DEF PromoteVersion, CountersFit, GraphTypes
  <2> QED BY <1>2, <1>5, <2>1 DEF PromoteVersion
<1>6. CASE UNCHANGED vars
  <2>1. CountersFit' BY <1>6 DEF vars, CountersFit, GraphTypes
  <2> QED BY <1>2, <1>6, <2>1 DEF vars
<1> QED BY <1>1, <1>3, <1>4, <1>5, <1>6, GraphTypesWork DEF Next

GraphHolds == GraphInv /\ GraphTypes

\* The two invariants give all that the run checks of the graph.
LEMMA GraphHoldsAll ==
  ASSUME Delivered, GraphHolds
  PROVE  TypeOK /\ ActionsAreBounded /\ GivesUpAfterReplan /\ SufficientIsComplete
<1>1. TypeOK
  BY DEF GraphHolds, GraphInv, GraphTypes, ChannelsAreTyped, OutcomesFit, CountersFit,
         CallsAreCounted, PassesAreCounted, TypeOK
<1>2. ActionsAreBounded
  BY DEF Delivered, GraphHolds, GraphInv, CallsAreCounted, PassesAreCounted, ActionsAreBounded
<1>3. GivesUpAfterReplan BY DEF GraphHolds, GraphInv, PassesAreCounted, GivesUpAfterReplan
<1>4. SufficientIsComplete
  BY DEF GraphHolds, GraphInv, ResultsAreComplete, Complete, SufficientIsComplete
<1> QED BY <1>1, <1>2, <1>3, <1>4

\* GraphIsBounded of the `agent` run, for any skills and queries: the channels hold what
\* they are meant for, a delivered run calls at most three tools, gives up only after its
\* replan, and what it calls sufficient rests on every action (planning.py, graph_v2.py).
THEOREM GraphBounded == ASSUME Delivered PROVE MCSpec => []GraphIsBounded
<1> DEFINE I == In("graph") => GraphHolds
<1>1. MCInit => I
  BY Delivered, GraphInvInit, GraphTypesInit DEF MCInit, In, GraphHolds
<1>2. ASSUME I, [MCNext]_<<vars, evolution, tools, pc, stream, scenario>> PROVE I'
  <2>1. In("graph")' => In("graph") /\ [Next]_vars
    BY <1>2 DEF MCNext, In
  <2> QED BY <1>2, <2>1, Delivered, GraphInvStep, GraphTypesStep DEF GraphHolds
<1>3. I => GraphIsBounded BY Delivered, GraphHoldsAll DEF GraphIsBounded
<1> HIDE DEF I
<1> QED BY <1>1, <1>2, <1>3, PTL DEF MCSpec
-----------------------------------------------------------------------------
(* The tool session *)

\* The session once it is started has a session, an error or a caller that waits for it
\* under the lock: nobody else may start it.
SessionIsGuarded ==
  /\ \A c \in Client : pc[c] = "waiting" => lock = c
  /\ thread = "none" => started = 0
  /\ started \in 0 .. 1
  /\ thread # "none" => session \/ err # None \/ lock # None
  /\ ready => session \/ err # None
  /\ \A c \in Client : pc[c] \in {"sending", "called"} => session

RequestsAreCounted == \A c \in Client : pc[c] # "idle" => asked[c] # 0

ToolInv ==
  /\ Tools!TypeOK /\ RequestsAreCounted /\ SessionIsGuarded /\ Tools!AnswersAreOwn

\* Before the first call nothing is started.
LEMMA ToolInit == ASSUME Tools!Init PROVE ToolInv
<1>1. Tools!TypeOK
  <2>1. MaxCalls \in Nat BY AgentAssumption DEF Tools!ToolAssumption
  <2>2. session \in BOOLEAN /\ ready \in BOOLEAN /\ alive \in BOOLEAN BY Zenon DEF Tools!Init
  <2> QED BY <2>1, <2>2 DEF Tools!Init, Tools!TypeOK
<1> QED BY <1>1 DEF Tools!Init, ToolInv, RequestsAreCounted, SessionIsGuarded, Tools!AnswersAreOwn

\* How a call ends that has no answer.
LEMMA CallEnds ==
  ASSUME ToolInv, NEW c \in Client, NEW how \in Tools!Errors, Tools!Ends(c, how), UNCHANGED asked
  PROVE  /\ pc' \in [Client -> {"idle", "ensure", "waiting", "sending", "called"}]
         /\ end' \in [Client -> [how : Tools!Errors \cup {"ok", None}, n : 0 .. MaxCalls]]
         /\ pc'[c] = "idle" /\ \A d \in Client \ {c} : pc'[d] = pc[d]
         /\ RequestsAreCounted' /\ Tools!AnswersAreOwn'
<1>0. MaxCalls \in Nat BY AgentAssumption DEF Tools!ToolAssumption
<1>1. pc \in [Client -> {"idle", "ensure", "waiting", "sending", "called"}]
      /\ end \in [Client -> [how : Tools!Errors \cup {"ok", None}, n : 0 .. MaxCalls]]
  BY DEF ToolInv, Tools!TypeOK
<1>2. pc' = [pc EXCEPT ![c] = "idle"] /\ end' = [end EXCEPT ![c] = [how |-> how, n |-> 0]]
  BY DEF Tools!Ends
<1>3. [how |-> how, n |-> 0] \in [how : Tools!Errors \cup {"ok", None}, n : 0 .. MaxCalls]
  BY <1>0
<1>4. pc'[c] = "idle" /\ end'[c].n = 0
      /\ \A d \in Client \ {c} : pc'[d] = pc[d] /\ end'[d] = end[d]
  BY <1>1, <1>2
<1>5. RequestsAreCounted' BY <1>4 DEF ToolInv, RequestsAreCounted
<1>6. Tools!AnswersAreOwn' BY <1>4 DEF ToolInv, Tools!AnswersAreOwn
<1> QED BY <1>1, <1>2, <1>3, <1>4, <1>5, <1>6

\* A caller's step on its way to the server.
LEMMA CallerMoves ==
  ASSUME ToolInv, NEW c \in Client, NEW where \in {"ensure", "waiting", "sending", "called"},
         pc' = [pc EXCEPT ![c] = where], UNCHANGED end, pc[c] # "idle", UNCHANGED asked
  PROVE  /\ pc' \in [Client -> {"idle", "ensure", "waiting", "sending", "called"}]
         /\ pc'[c] = where /\ \A d \in Client \ {c} : pc'[d] = pc[d]
         /\ RequestsAreCounted' /\ Tools!AnswersAreOwn'
BY DEF ToolInv, Tools!TypeOK, RequestsAreCounted, Tools!AnswersAreOwn

\* A caller's steps.
LEMMA CallerStep ==
  ASSUME ToolInv, NEW c \in Client, Tools!Call(c) \/ Tools!Step(c)
  PROVE  ToolInv'
<1>0. MaxCalls \in Nat /\ None \notin Client /\ None \notin Tools!Errors
  BY AgentAssumption DEF Tools!ToolAssumption
<1>e. "MCPClientError" \in Tools!Errors /\ "other" \in Tools!Errors BY DEF Tools!Errors
<1>1. CASE Tools!Call(c)
  <2>1. asked[c] \in 0 .. MaxCalls /\ asked[c] < MaxCalls
    BY <1>1 DEF Tools!Call, ToolInv, Tools!TypeOK
  <2>2. Tools!TypeOK' BY <1>0, <1>1, <2>1 DEF Tools!Call, ToolInv, Tools!TypeOK
  <2>3. pc'[c] = "ensure" /\ asked'[c] # 0
        /\ \A d \in Client \ {c} : pc'[d] = pc[d] /\ asked'[d] = asked[d]
    BY <1>1, <2>1 DEF Tools!Call, ToolInv, Tools!TypeOK
  <2>4. RequestsAreCounted' BY <2>3 DEF ToolInv, RequestsAreCounted
  <2>5. SessionIsGuarded' BY <1>1, <2>3 DEF Tools!Call, ToolInv, SessionIsGuarded
  <2>6. Tools!AnswersAreOwn' BY <1>1, <2>3 DEF Tools!Call, ToolInv, Tools!AnswersAreOwn
  <2> QED BY <2>2, <2>4, <2>5, <2>6 DEF ToolInv
<1>2. CASE Tools!EnsureStarted(c)
  <2>1. CASE session
    <3>1. pc' = [pc EXCEPT ![c] = "sending"] /\ pc[c] = "ensure"
          /\ UNCHANGED <<end, lock, thread, started, asked, session, err, ready, alive, queue>>
      BY <1>2, <2>1 DEF Tools!EnsureStarted
    <3>2. Tools!TypeOK' BY <3>1, CallerMoves DEF ToolInv, Tools!TypeOK
    <3>3. SessionIsGuarded' BY <2>1, <3>1, CallerMoves DEF ToolInv, SessionIsGuarded
    <3> QED BY <3>1, <3>2, <3>3, CallerMoves DEF ToolInv
  <2>2. CASE ~session /\ err # None
    <3>1. Tools!Ends(c, err)
          /\ UNCHANGED <<lock, thread, started, asked, session, err, ready, alive, queue>>
      BY <1>2, <2>2 DEF Tools!EnsureStarted
    <3>2. err \in Tools!Errors BY <2>2 DEF ToolInv, Tools!TypeOK
    <3>3. Tools!TypeOK' BY <3>1, <3>2, CallEnds DEF ToolInv, Tools!TypeOK
    <3>4. SessionIsGuarded' BY <3>1, <3>2, CallEnds DEF ToolInv, SessionIsGuarded
    <3> QED BY <3>1, <3>2, <3>3, <3>4, CallEnds DEF ToolInv
  <2>3. CASE ~session /\ err = None
    <3>1. pc' = [pc EXCEPT ![c] = "waiting"] /\ pc[c] = "ensure" /\ lock = None /\ lock' = c
          /\ thread' = "starting" /\ started' = started + 1
          /\ UNCHANGED <<end, asked, session, err, ready, alive, queue>>
      BY <1>2, <2>3 DEF Tools!EnsureStarted
    <3>2. thread = "none" /\ started = 0 /\ \A d \in Client : pc[d] # "waiting"
      BY <1>0, <2>3, <3>1 DEF ToolInv, SessionIsGuarded
    <3>3. Tools!TypeOK' BY <3>1, <3>2, CallerMoves DEF ToolInv, Tools!TypeOK
    <3>4. SessionIsGuarded' BY <1>0, <3>1, <3>2, CallerMoves DEF ToolInv, SessionIsGuarded
    <3> QED BY <3>1, <3>3, <3>4, CallerMoves DEF ToolInv
  <2> QED BY <2>1, <2>2, <2>3
<1>3. CASE Tools!WaitReady(c)
  <2>0. pc[c] = "waiting" /\ ready /\ lock = c /\ lock' = None
        /\ UNCHANGED <<asked, session, err, ready, thread, started, alive, queue>>
    BY <1>3 DEF Tools!WaitReady, ToolInv, SessionIsGuarded
  <2>1. \A d \in Client \ {c} : pc[d] # "waiting" BY <2>0 DEF ToolInv, SessionIsGuarded
  <2>2. CASE err # None
    <3>1. Tools!Ends(c, err) BY <1>3, <2>2 DEF Tools!WaitReady
    <3>2. err \in Tools!Errors BY <2>2 DEF ToolInv, Tools!TypeOK
    <3>3. Tools!TypeOK' BY <2>0, <3>1, <3>2, CallEnds DEF ToolInv, Tools!TypeOK
    <3>4. SessionIsGuarded' BY <2>0, <2>1, <2>2, <3>1, <3>2, CallEnds DEF ToolInv, SessionIsGuarded
    <3> QED BY <2>0, <3>1, <3>2, <3>3, <3>4, CallEnds DEF ToolInv
  <2>3. CASE err = None
    <3>1. pc' = [pc EXCEPT ![c] = "sending"] /\ UNCHANGED end
      BY <1>3, <2>3 DEF Tools!WaitReady
    <3>2. session BY <2>0, <2>3 DEF ToolInv, SessionIsGuarded
    <3>3. Tools!TypeOK' BY <2>0, <3>1, CallerMoves DEF ToolInv, Tools!TypeOK
    <3>4. SessionIsGuarded' BY <2>0, <2>1, <3>1, <3>2, CallerMoves DEF ToolInv, SessionIsGuarded
    <3> QED BY <2>0, <3>1, <3>3, <3>4, CallerMoves DEF ToolInv
  <2> QED BY <2>2, <2>3
<1>4. CASE Tools!WaitTimesOut(c)
  <2>0. pc[c] = "waiting" /\ lock = c /\ lock' = None /\ err' = "MCPClientError"
        /\ Tools!Ends(c, "MCPClientError")
        /\ UNCHANGED <<asked, session, ready, thread, started, alive, queue>>
    BY <1>4 DEF Tools!WaitTimesOut, ToolInv, SessionIsGuarded
  <2>1. \A d \in Client \ {c} : pc[d] # "waiting" BY <2>0 DEF ToolInv, SessionIsGuarded
  <2>2. Tools!TypeOK' BY <1>e, <2>0, CallEnds DEF ToolInv, Tools!TypeOK
  <2>3. err' # None BY <1>0, <1>e, <2>0
  <2>4. SessionIsGuarded' BY <1>e, <2>0, <2>1, <2>3, CallEnds DEF ToolInv, SessionIsGuarded
  <2> QED BY <1>e, <2>0, <2>2, <2>4, CallEnds DEF ToolInv
<1>5. CASE Tools!Send(c)
  <2>0. pc[c] = "sending" /\ UNCHANGED <<asked, lock, session, err, ready, thread, started, alive>>
    BY <1>5 DEF Tools!Send
  <2>1. CASE thread = "ended"
    <3>1. Tools!Ends(c, "other") /\ UNCHANGED queue BY <1>5, <2>1 DEF Tools!Send
    <3>2. Tools!TypeOK' BY <1>e, <2>0, <3>1, CallEnds DEF ToolInv, Tools!TypeOK
    <3>3. SessionIsGuarded' BY <1>e, <2>0, <3>1, CallEnds DEF ToolInv, SessionIsGuarded
    <3> QED BY <1>e, <2>0, <3>1, <3>2, <3>3, CallEnds DEF ToolInv
  <2>2. CASE thread # "ended"
    <3>1. pc' = [pc EXCEPT ![c] = "called"] /\ UNCHANGED end
          /\ queue' = Append(queue, [by |-> c, n |-> asked[c]])
      BY <1>5, <2>2 DEF Tools!Send
    <3>2. asked[c] \in 1 .. MaxCalls
      BY <1>0, <2>0 DEF ToolInv, RequestsAreCounted, Tools!TypeOK
    <3>3. queue' \in Seq([by : Client, n : 1 .. MaxCalls])
      BY <3>1, <3>2 DEF ToolInv, Tools!TypeOK
    <3>4. Tools!TypeOK' BY <2>0, <3>1, <3>3, CallerMoves DEF ToolInv, Tools!TypeOK
    <3>5. SessionIsGuarded' BY <2>0, <3>1, CallerMoves DEF ToolInv, SessionIsGuarded
    <3> QED BY <2>0, <3>1, <3>4, <3>5, CallerMoves DEF ToolInv
  <2> QED BY <2>1, <2>2
<1>6. CASE Tools!CallTimesOut(c)
  <2>0. Tools!Ends(c, "MCPClientError")
        /\ UNCHANGED <<asked, lock, session, err, ready, thread, started, alive, queue>>
    BY <1>6 DEF Tools!CallTimesOut
  <2>1. Tools!TypeOK' BY <1>e, <2>0, CallEnds DEF ToolInv, Tools!TypeOK
  <2>2. SessionIsGuarded' BY <1>e, <2>0, CallEnds DEF ToolInv, SessionIsGuarded
  <2> QED BY <1>e, <2>0, <2>1, <2>2, CallEnds DEF ToolInv
<1> QED BY <1>1, <1>2, <1>3, <1>4, <1>5, <1>6 DEF Tools!Step

\* The end of the loop cancels whoever waits for an answer.
LEMMA LoopEnd ==
  ASSUME ToolInv, Tools!LoopEnds, UNCHANGED <<asked, lock, session, started, alive>>,
         ready' \in BOOLEAN, err' \in Tools!Errors \cup {None},
         err' # None \/ (UNCHANGED <<err, ready>> /\ thread # "none")
  PROVE  ToolInv'
<1>0. MaxCalls \in Nat BY AgentAssumption DEF Tools!ToolAssumption
<1>1. ASSUME NEW c \in Client
      PROVE  (pc'[c] = "idle" /\ end'[c].n = 0) \/ (pc'[c] = pc[c] /\ end'[c] = end[c])
  <2>1. CASE c \in Tools!Pending
    <3>1. pc'[c] = "idle" /\ end'[c] = [how |-> "other", n |-> 0] BY <2>1, Zenon DEF Tools!LoopEnds
    <3> QED BY <3>1
  <2>2. CASE c \notin Tools!Pending BY <2>2, Zenon DEF Tools!LoopEnds
  <2> QED BY <2>1, <2>2
<1>2. pc' \in [Client -> {"idle", "ensure", "waiting", "sending", "called"}]
  BY DEF Tools!LoopEnds, ToolInv, Tools!TypeOK
<1>3. end' \in [Client -> [how : Tools!Errors \cup {"ok", None}, n : 0 .. MaxCalls]]
  <2>1. [how |-> "other", n |-> 0] \in [how : Tools!Errors \cup {"ok", None}, n : 0 .. MaxCalls]
    BY <1>0 DEF Tools!Errors
  <2> QED BY <2>1 DEF Tools!LoopEnds, ToolInv, Tools!TypeOK
<1>4. thread' = "ended" /\ queue' = <<>> BY DEF Tools!LoopEnds
<1>5. Tools!TypeOK' BY <1>2, <1>3, <1>4 DEF ToolInv, Tools!TypeOK
<1>6. RequestsAreCounted' BY <1>1 DEF ToolInv, RequestsAreCounted
<1>7. SessionIsGuarded' BY <1>1, <1>4 DEF ToolInv, SessionIsGuarded
<1>8. Tools!AnswersAreOwn' BY <1>1 DEF ToolInv, Tools!AnswersAreOwn
<1> QED BY <1>5, <1>6, <1>7, <1>8 DEF ToolInv

\* The oldest element of a queue, and the others.
LEMMA HeadTail ==
  ASSUME NEW S, NEW s \in Seq(S), s # <<>>
  PROVE  Head(s) \in S /\ Tail(s) \in Seq(S)
OBVIOUS

\* The server's answers and the steps of the thread.
LEMMA ServerStep ==
  ASSUME ToolInv,
         \/ \E how \in {"ok", "MCPClientError"} : Tools!Answer(how)
         \/ Tools!ServeReady \/ Tools!ServeFails \/ Tools!ServerDies \/ Tools!Close
  PROVE  ToolInv'
<1>0. MaxCalls \in Nat /\ None \notin Tools!Errors BY AgentAssumption DEF Tools!ToolAssumption
<1>1. ASSUME NEW how \in {"ok", "MCPClientError"}, Tools!Answer(how) PROVE ToolInv'
  <2> DEFINE q == Head(queue)
  <2>1. queue # <<>> /\ queue' = Tail(queue)
        /\ UNCHANGED <<asked, lock, session, err, ready, thread, started, alive>>
    BY <1>1 DEF Tools!Answer
  <2>2. queue \in Seq([by : Client, n : 1 .. MaxCalls]) BY DEF ToolInv, Tools!TypeOK
  <2>3. q.by \in Client /\ q.n \in 1 .. MaxCalls /\ queue' \in Seq([by : Client, n : 1 .. MaxCalls])
    <3>1. Head(queue) \in [by : Client, n : 1 .. MaxCalls]
          /\ Tail(queue) \in Seq([by : Client, n : 1 .. MaxCalls])
      BY <2>1, <2>2, HeadTail
    <3>2. q \in [by : Client, n : 1 .. MaxCalls] BY <3>1
    <3> HIDE DEF q
    <3> QED BY <2>1, <3>1, <3>2
  <2>4. IF pc[q.by] = "called" /\ asked[q.by] = q.n
        THEN /\ pc' = [pc EXCEPT ![q.by] = "idle"]
             /\ end' = [end EXCEPT ![q.by] = [how |-> how, n |-> q.n]]
        ELSE UNCHANGED <<pc, end>>
    BY <1>1 DEF Tools!Answer, Tools!Waits
  <2> HIDE DEF q
  <2>5. CASE pc[q.by] = "called" /\ asked[q.by] = q.n
    <3>1. [how |-> how, n |-> q.n] \in [how : Tools!Errors \cup {"ok", None}, n : 0 .. MaxCalls]
      BY <1>0, <2>3 DEF Tools!Errors
    <3>2. Tools!TypeOK'
      <4>1. Tools!TypeOK BY DEF ToolInv
      <4>2. /\ pc' \in [Client -> {"idle", "ensure", "waiting", "sending", "called"}]
            /\ end' \in [Client -> [how : Tools!Errors \cup {"ok", None}, n : 0 .. MaxCalls]]
        <5>1. /\ pc' = [pc EXCEPT ![q.by] = "idle"]
              /\ end' = [end EXCEPT ![q.by] = [how |-> how, n |-> q.n]]
          BY <2>4, <2>5
        <5>2. /\ pc \in [Client -> {"idle", "ensure", "waiting", "sending", "called"}]
              /\ end \in [Client -> [how : Tools!Errors \cup {"ok", None}, n : 0 .. MaxCalls]]
          BY <4>1 DEF Tools!TypeOK
        <5>3. pc' \in [Client -> {"idle", "ensure", "waiting", "sending", "called"}]
          BY <5>1, <5>2
        <5>4. end' \in [Client -> [how : Tools!Errors \cup {"ok", None}, n : 0 .. MaxCalls]]
          BY <3>1, <5>1, <5>2, Zenon
        <5> QED BY <5>3, <5>4
      <4> QED BY <2>1, <2>3, <4>1, <4>2 DEF Tools!TypeOK
    <3>3. pc'[q.by] = "idle" /\ end'[q.by].n = asked'[q.by]
          /\ \A d \in Client \ {q.by} : pc'[d] = pc[d] /\ end'[d] = end[d]
      BY <2>1, <2>3, <2>4, <2>5 DEF ToolInv, Tools!TypeOK
    <3>4. RequestsAreCounted' BY <2>1, <3>3 DEF ToolInv, RequestsAreCounted
    <3>5. SessionIsGuarded' BY <2>1, <3>3 DEF ToolInv, SessionIsGuarded
    <3>6. Tools!AnswersAreOwn' BY <2>1, <3>3 DEF ToolInv, Tools!AnswersAreOwn
    <3> QED BY <3>2, <3>4, <3>5, <3>6 DEF ToolInv
  <2>6. CASE ~ (pc[q.by] = "called" /\ asked[q.by] = q.n)
    <3>1. UNCHANGED <<pc, end>> BY <2>4, <2>6
    <3> QED BY <2>1, <2>3, <3>1
            DEF ToolInv, Tools!TypeOK, RequestsAreCounted, SessionIsGuarded, Tools!AnswersAreOwn
  <2> QED BY <2>5, <2>6
<1>2. CASE Tools!ServeReady
  <2>1. session' \in BOOLEAN /\ ready' \in BOOLEAN /\ session' BY <1>2, Zenon DEF Tools!ServeReady
  <2>2. thread = "starting" /\ thread' = "serving"
        /\ UNCHANGED <<pc, asked, end, lock, err, started, alive, queue>>
    BY <1>2 DEF Tools!ServeReady
  <2> QED BY <2>1, <2>2
          DEF ToolInv, Tools!TypeOK, RequestsAreCounted, SessionIsGuarded, Tools!AnswersAreOwn
<1>3. CASE Tools!ServeFails
  <2>1. err' = "other" /\ Tools!LoopEnds /\ UNCHANGED <<asked, lock, session, started, alive>>
    BY <1>3 DEF Tools!ServeFails
  <2>2. ready' \in BOOLEAN BY <1>3, Zenon DEF Tools!ServeFails
  <2>4. err' \in Tools!Errors BY <2>1 DEF Tools!Errors
  <2>3. err' # None BY <1>0, <2>4
  <2> QED BY <2>1, <2>2, <2>3, <2>4, LoopEnd
<1>4. CASE Tools!ServerDies
  <2>1. alive' \in BOOLEAN BY <1>4, Zenon DEF Tools!ServerDies
  <2>2. UNCHANGED <<pc, asked, end, lock, session, err, ready, thread, started, queue>>
    BY <1>4 DEF Tools!ServerDies
  <2> QED BY <2>1, <2>2
          DEF ToolInv, Tools!TypeOK, RequestsAreCounted, SessionIsGuarded, Tools!AnswersAreOwn
<1>5. CASE Tools!Close
  <2>1. thread = "serving" /\ Tools!LoopEnds
        /\ UNCHANGED <<asked, lock, session, err, ready, started, alive>>
    BY <1>5 DEF Tools!Close
  <2>2. ready \in BOOLEAN /\ err \in Tools!Errors \cup {None} BY DEF ToolInv, Tools!TypeOK
  <2> QED BY <2>1, <2>2, LoopEnd
<1> QED BY <1>1, <1>2, <1>3, <1>4, <1>5

\* ToolsAnswer of the `agent` run, for any callers and calls: one tool server is started for
\* ever, an answer is that of the caller's last request, and whoever sends has a session
\* (client.py).
THEOREM ToolsAreAnswered == MCSpec => []ToolsAnswer
<1> DEFINE I == In("tools") => ToolInv
<1>1. MCInit => I BY ToolInit DEF MCInit, In
<1>2. ASSUME I, [MCNext]_<<vars, evolution, tools, pc, stream, scenario>> PROVE I'
  <2>1. In("tools")' => In("tools") /\ (Tools!Next \/ UNCHANGED <<tools, pc>>)
    BY <1>2 DEF MCNext, In
  <2>2. ASSUME ToolInv, UNCHANGED <<tools, pc>> PROVE ToolInv'
    BY <2>2 DEF tools, ToolInv, Tools!TypeOK, RequestsAreCounted, SessionIsGuarded, Tools!AnswersAreOwn
  <2> QED BY <1>2, <2>1, <2>2, CallerStep, ServerStep DEF Tools!Next
<1>3. I => ToolsAnswer
  BY DEF ToolsAnswer, ToolInv, SessionIsGuarded, Tools!OneServer, Tools!SessionWhenSending
<1> HIDE DEF I
<1> QED BY <1>1, <1>2, <1>3, PTL DEF MCSpec

-----------------------------------------------------------------------------
(* The streams of the legacy API *)

Stages == {"idle", "claim", "started", "execute", "finish", "fail", "replay", "done", "gone"}

Event == {"meta", "node_started", "node_completed", "evidence", "final", "error",
          "done:queued", "done:running", "done:completed", "done:failed"}

\* A request that executes the run of its key, or tells its end.
Owning == {"started", "execute", "finish", "fail"}

\* The events a stream can have at a stage.
Room(stage) ==
  IF stage = "idle" THEN 0 ELSE IF stage \in {"claim", "replay"} THEN 1
  ELSE IF stage \in Owning THEN 2 ELSE IF stage = "done" THEN 5 ELSE 6

StreamTypes ==
  /\ backend \in {"postgres", "demo"}
  /\ runs \in [Key -> Legacy!RunRow \cup {None}]
  /\ pc \in [Client -> Stages]
  /\ key \in [Client -> Key \cup {None}]
  /\ sent \in [Client -> Seq(Event)]
  /\ \A r \in Client : Len(sent[r]) <= Room(pc[r])

\* One request at most owns a run, and the run is running as long.
RunsAreOwned ==
  /\ \A r \in Client : pc[r] \in Owning \cup {"claim", "replay", "done"} =>
       key[r] \in Key /\ runs[key[r]] # None
  /\ \A r \in Client : pc[r] \in Owning => runs[key[r]].status = "running"
  /\ \A r, d \in Client : pc[r] \in Owning /\ pc[d] \in Owning /\ key[r] = key[d] => r = d

RowIsTrue(row) ==
  /\ row.executed <= 1
  /\ row.status = "queued" => row.executed = 0
  /\ row.status = "completed" /\ backend = "postgres" => row.learned

OwnerIsTrue(stage, row) ==
  /\ stage \in {"started", "execute"} => row.executed = 0
  /\ stage = "finish" /\ backend = "postgres" => row.learned

RowsAreTrue ==
  /\ \A k \in Key : runs[k] # None => RowIsTrue(runs[k])
  /\ \A r \in Client : pc[r] \in Owning => OwnerIsTrue(pc[r], runs[key[r]])

\* What has been told of a run stands in a row that nobody owns any more.
Tells(r, event, status) ==
  Legacy!Sent(r, event) =>
    /\ pc[r] \in {"done", "gone"} /\ key[r] \in Key
    /\ runs[key[r]] # None /\ runs[key[r]].status = status

AnswersStand == \A r \in Client : Tells(r, "final", "completed") /\ Tells(r, "error", "failed")

\* The runs the cap was spent on: those that were executed, or are about to be.
Spent == {k \in Key : \/ runs[k] # None /\ runs[k].executed > 0
                      \/ \E r \in Client : pc[r] = "execute" /\ key[r] = k}

CapIsKept ==
  /\ used \in 0 .. Cap
  /\ Cardinality(Spent) <= IF backend = "postgres" THEN used ELSE Cap

StreamRows == StreamTypes /\ RunsAreOwned /\ RowsAreTrue /\ AnswersStand

StreamInv == StreamRows /\ CapIsKept

\* What the constants are.
LEMMA StreamConstants ==
  /\ IsFiniteSet(Key) /\ Cap \in Nat /\ None \notin Key /\ None \notin Legacy!RunRow
<1>1. Legacy!IsFiniteSet(Key) /\ Cap \in Nat /\ None \notin Key \cup Legacy!RunRow
  BY AgentAssumption DEF Legacy!StreamAssumption
<1>2. IsFiniteSet(Key) BY <1>1, Zenon DEF Legacy!IsFiniteSet, IsFiniteSet
<1> QED BY <1>1, <1>2

\* Before the first request there is no run.
LEMMA StreamInit == ASSUME Legacy!Init PROVE StreamInv
<1>1. StreamTypes BY DEF Legacy!Init, StreamTypes, Stages, Room
<1>2. RunsAreOwned BY DEF Legacy!Init, RunsAreOwned, Owning
<1>3. RowsAreTrue BY DEF Legacy!Init, RowsAreTrue, Owning
<1>4. AnswersStand BY DEF Legacy!Init, AnswersStand, Tells, Legacy!Sent
<1>5. CapIsKept
  <2>1. Spent = {} BY DEF Legacy!Init, Spent
  <2>2. Cardinality(Spent) = 0 BY <2>1, FS_EmptySet
  <2> QED BY <2>2, StreamConstants DEF Legacy!Init, CapIsKept
<1> QED BY <1>1, <1>2, <1>3, <1>4, <1>5 DEF StreamInv, StreamRows

\* A request moves to a stage with the run of its key: the row changes only under its owner,
\* or before it has one.
Moves(r, stage, k) ==
  /\ UNCHANGED backend
  /\ pc' = [pc EXCEPT ![r] = stage]
  /\ key' \in [Client -> Key \cup {None}] /\ key'[r] = k /\ (key[r] = k \/ pc[r] = "idle")
  /\ sent' \in [Client -> Seq(Event)] /\ Len(sent'[r]) <= Room(stage)
  /\ \A d \in Client \ {r} : key'[d] = key[d] /\ sent'[d] = sent[d]
  /\ runs' \in [Key -> Legacy!RunRow \cup {None}] /\ runs'[k] # None
  /\ \A j \in Key \ {k} : runs'[j] = runs[j]
  /\ \/ runs'[k] = runs[k] \/ runs[k] = None \/ pc[r] \in Owning
     \/ runs[k] # None /\ runs[k].status = "queued"
  /\ stage \in Owning =>
       /\ runs'[k].status = "running" /\ OwnerIsTrue(stage, runs'[k])
       /\ pc[r] \in Owning \/ (runs[k] # None /\ runs[k].status = "queued")
  /\ RowIsTrue(runs'[k])
  /\ Tells(r, "final", "completed")' /\ Tells(r, "error", "failed")'

\* Such a move keeps what the rows and the streams say, also those of the others.
LEMMA MovesKeep ==
  ASSUME StreamRows, NEW r \in Client, NEW stage \in Stages, NEW k \in Key, Moves(r, stage, k)
  PROVE  StreamRows'
<1> USE DEF StreamRows
<1>1. pc'[r] = stage /\ key'[r] = k /\ \A d \in Client \ {r} :
        pc'[d] = pc[d] /\ key'[d] = key[d] /\ sent'[d] = sent[d]
  BY DEF Moves, StreamTypes
<1>2. ASSUME NEW d \in Client \ {r}, pc[d] \in Owning, key[d] = k
      PROVE  runs'[k] = runs[k] /\ stage \notin Owning
  <2>1. key[d] \in Key /\ runs[k] # None /\ runs[k].status = "running"
    BY <1>2 DEF RunsAreOwned
  <2>2. pc[r] \notin Owning
    BY <1>2 DEF Moves, RunsAreOwned, Owning
  <2> QED BY <2>1, <2>2 DEF Moves
<1>3. ASSUME NEW d \in Client \ {r}, pc[d] \in Owning PROVE runs'[key[d]] = runs[key[d]]
  <2>1. key[d] \in Key BY <1>3 DEF RunsAreOwned
  <2> QED BY <1>2, <1>3, <2>1 DEF Moves
<1>4. ASSUME NEW j \in Key, runs[j] # None PROVE runs'[j] # None
  BY <1>4 DEF Moves
<1>5. StreamTypes'
  <2>1. ASSUME NEW d \in Client PROVE Len(sent'[d]) <= Room(pc'[d])
    BY <1>1 DEF Moves, StreamTypes
  <2> QED BY <2>1 DEF Moves, StreamTypes
<1>6. RunsAreOwned'
  <2>1. ASSUME NEW d \in Client, pc'[d] \in Owning \cup {"claim", "replay", "done"}
        PROVE  key'[d] \in Key /\ runs'[key'[d]] # None
    <3>1. CASE d = r BY <1>1, <3>1 DEF Moves
    <3>2. CASE d # r BY <1>1, <1>4, <2>1, <3>2 DEF RunsAreOwned
    <3> QED BY <3>1, <3>2
  <2>2. ASSUME NEW d \in Client, pc'[d] \in Owning PROVE runs'[key'[d]].status = "running"
    <3>1. CASE d = r BY <1>1, <2>2, <3>1 DEF Moves
    <3>2. CASE d # r BY <1>1, <1>3, <2>2, <3>2 DEF RunsAreOwned
    <3> QED BY <3>1, <3>2
  <2>3. ASSUME NEW c \in Client, NEW d \in Client,
               pc'[c] \in Owning, pc'[d] \in Owning, key'[c] = key'[d]
        PROVE  c = d
    BY <1>1, <1>2, <2>3 DEF RunsAreOwned
  <2> QED BY <2>1, <2>2, <2>3 DEF RunsAreOwned
<1>7. RowsAreTrue'
  <2>1. \A row : RowIsTrue(row)' = RowIsTrue(row) BY DEF Moves, RowIsTrue
  <2>2. \A s, row : OwnerIsTrue(s, row)' = OwnerIsTrue(s, row) BY DEF Moves, OwnerIsTrue
  <2>3. ASSUME NEW j \in Key, runs'[j] # None PROVE RowIsTrue(runs[j])'
    <3>1. CASE j = k BY <3>1 DEF Moves, RowIsTrue
    <3>2. CASE j # k BY <2>3, <3>2 DEF Moves, RowsAreTrue, RowIsTrue
    <3> QED BY <3>1, <3>2
  <2>4. ASSUME NEW d \in Client, pc'[d] \in Owning PROVE OwnerIsTrue(pc[d], runs[key[d]])'
    <3>1. CASE d = r BY <1>1, <2>4, <3>1 DEF Moves, OwnerIsTrue
    <3>2. CASE d # r BY <1>1, <1>3, <2>4, <3>2 DEF Moves, RowsAreTrue, OwnerIsTrue
    <3> QED BY <3>1, <3>2
  <2> QED BY <2>3, <2>4 DEF RowsAreTrue
<1>8. AnswersStand'
  <2>1. ASSUME NEW d \in Client \ {r}, NEW e, NEW s \in {"completed", "failed"},
               Tells(d, e, s), Legacy!Sent(d, e)'
        PROVE  /\ pc'[d] \in {"done", "gone"} /\ key'[d] \in Key
               /\ runs'[key'[d]] # None /\ runs'[key'[d]].status = s
    <3>1. Legacy!Sent(d, e) BY <1>1, <2>1 DEF Legacy!Sent
    <3>2. pc[d] \in {"done", "gone"} /\ key[d] \in Key /\ runs[key[d]] # None
          /\ runs[key[d]].status = s
      BY <2>1, <3>1 DEF Tells
    <3>3. runs'[key[d]] = runs[key[d]]
      <4>1. CASE key[d] # k BY <3>2, <4>1 DEF Moves
      <4>2. CASE key[d] = k
        <5>1. pc[r] \notin Owning BY <3>2, <4>2 DEF Moves, RunsAreOwned, Owning
        <5> QED BY <3>2, <4>2, <5>1 DEF Moves
      <4> QED BY <4>1, <4>2
    <3> QED BY <1>1, <3>2, <3>3
  <2>2. ASSUME NEW d \in Client
        PROVE  Tells(d, "final", "completed")' /\ Tells(d, "error", "failed")'
    <3>1. CASE d = r BY <3>1 DEF Moves, Tells, Legacy!Sent
    <3>2. CASE d # r
      <4>1. Tells(d, "final", "completed") /\ Tells(d, "error", "failed") BY DEF AnswersStand
      <4> QED BY <2>1, <3>2, <4>1 DEF Tells
    <3> QED BY <3>1, <3>2
  <2> QED BY <2>2 DEF AnswersStand
<1> QED BY <1>5, <1>6, <1>7, <1>8

\* A set of keys is finite, and a part of it is no larger.
LEMMA FewerKeys ==
  ASSUME NEW S, NEW T, T \subseteq Key, S \subseteq T
  PROVE  /\ IsFiniteSet(T) /\ IsFiniteSet(S)
         /\ Cardinality(S) \in Nat /\ Cardinality(T) \in Nat /\ Cardinality(S) <= Cardinality(T)
<1>1. IsFiniteSet(T) BY StreamConstants, FS_Subset
<1>2. IsFiniteSet(S) BY <1>1, FS_Subset
<1>3. Cardinality(S) <= Cardinality(T) BY <1>1, FS_Subset
<1> QED BY <1>1, <1>2, <1>3, FS_CardinalityType

\* Where nothing new is spent, the cap is kept.
LEMMA NothingSpent ==
  ASSUME CapIsKept, UNCHANGED <<backend, used>>, Spent' \subseteq Spent
  PROVE  CapIsKept'
<1>1. Spent \subseteq Key BY DEF Spent
<1>2. Cardinality(Spent') <= Cardinality(Spent) /\ Cardinality(Spent') \in Nat
      /\ Cardinality(Spent) \in Nat
  BY <1>1, FewerKeys
<1> QED BY <1>2, StreamConstants DEF CapIsKept

\* A move of a request that is not about to execute spends nothing new.
LEMMA MovesSpend ==
  ASSUME StreamInv, NEW r \in Client, NEW stage \in Stages \ {"execute"}, NEW k \in Key,
         Moves(r, stage, k), UNCHANGED used, runs'[k].executed > 0 => k \in Spent
  PROVE  CapIsKept'
<1>1. \A d \in Client : pc'[d] = "execute" => pc[d] = "execute" /\ key'[d] = key[d]
  BY DEF Moves, StreamInv, StreamRows, StreamTypes
<1>2. \A j \in Key \ {k} : runs'[j] = runs[j] BY DEF Moves
<1>3. Spent' \subseteq Spent BY <1>1, <1>2 DEF Spent
<1> QED BY <1>3, NothingSpent DEF Moves, StreamInv

\* What a stream holds after it has been given some events.
LEMMA Yielding ==
  ASSUME StreamTypes, NEW r \in Client, NEW events \in Seq(Event), Legacy!Yield(r, events)
  PROVE  /\ sent' \in [Client -> Seq(Event)] /\ \A d \in Client \ {r} : sent'[d] = sent[d]
         /\ Len(sent'[r]) = Len(sent[r]) + Len(events)
         /\ \A e : Legacy!Sent(r, e)' =>
              Legacy!Sent(r, e) \/ \E i \in DOMAIN events : events[i] = e
<1>1. sent \in [Client -> Seq(Event)] BY DEF StreamTypes
<1>2. sent' = [sent EXCEPT ![r] = sent[r] \o events] BY DEF Legacy!Yield
<1>3. sent[r] \o events \in Seq(Event) BY <1>1
<1>4. sent'[r] = sent[r] \o events BY <1>1, <1>2
<1>5. Len(sent'[r]) = Len(sent[r]) + Len(events) BY <1>1, <1>4
<1>6. ASSUME NEW i \in DOMAIN sent'[r]
      PROVE  \/ i \in DOMAIN sent[r] /\ sent'[r][i] = sent[r][i]
             \/ i - Len(sent[r]) \in DOMAIN events /\ sent'[r][i] = events[i - Len(sent[r])]
  BY <1>1, <1>4, <1>6
<1> QED BY <1>1, <1>2, <1>3, <1>5, <1>6 DEF Legacy!Sent

\* One event that ends nothing.
LEMMA YieldingOne ==
  ASSUME StreamTypes, NEW r \in Client, NEW event \in Event \ {"final", "error"},
         Legacy!Yield(r, <<event>>),
         ~ Legacy!Sent(r, "final") /\ ~ Legacy!Sent(r, "error")
  PROVE  /\ sent' \in [Client -> Seq(Event)] /\ \A d \in Client \ {r} : sent'[d] = sent[d]
         /\ Len(sent'[r]) = Len(sent[r]) + 1
         /\ ~ Legacy!Sent(r, "final")' /\ ~ Legacy!Sent(r, "error")'
<1> DEFINE s == <<event>>
<1>1. s \in Seq(Event) /\ Len(s) = 1 /\ \A i \in DOMAIN s : s[i] = event OBVIOUS
<1>2. Legacy!Yield(r, s) OBVIOUS
<1> HIDE DEF s
<1>3. /\ sent' \in [Client -> Seq(Event)] /\ \A d \in Client \ {r} : sent'[d] = sent[d]
      /\ Len(sent'[r]) = Len(sent[r]) + Len(s)
      /\ \A e : Legacy!Sent(r, e)' => Legacy!Sent(r, e) \/ \E i \in DOMAIN s : s[i] = e
  BY <1>1, <1>2, Yielding
<1> QED BY <1>1, <1>3

\* The room of the stages.
LEMMA Rooms ==
  /\ Room("idle") = 0 /\ Room("claim") = 1 /\ Room("replay") = 1
  /\ \A stage \in Owning : Room(stage) = 2
  /\ Room("done") = 5 /\ Room("gone") = 6
  /\ \A stage \in Stages : Room(stage) \in 0 .. 6
BY DEF Room, Owning, Stages

\* What is known of a request that has a key, and of its row.
LEMMA RowOfRequest ==
  ASSUME StreamRows, NEW r \in Client, pc[r] \in Owning \cup {"claim", "replay", "done"}
  PROVE  /\ key[r] \in Key /\ runs[key[r]] # None /\ runs[key[r]] \in Legacy!RunRow
         /\ RowIsTrue(runs[key[r]]) /\ Len(sent[r]) <= Room(pc[r]) /\ Len(sent[r]) \in Nat
         /\ pc[r] # "done" => ~ Legacy!Sent(r, "final") /\ ~ Legacy!Sent(r, "error")
<1>1. key[r] \in Key /\ runs[key[r]] # None BY DEF StreamRows, RunsAreOwned
<1>2. runs[key[r]] \in Legacy!RunRow BY <1>1 DEF StreamRows, StreamTypes
<1>3. RowIsTrue(runs[key[r]]) BY <1>1 DEF StreamRows, RowsAreTrue
<1>4. Len(sent[r]) <= Room(pc[r]) /\ Len(sent[r]) \in Nat BY DEF StreamRows, StreamTypes
<1>5. pc[r] \notin {"done", "gone"} => ~ Legacy!Sent(r, "final") /\ ~ Legacy!Sent(r, "error")
  BY DEF StreamRows, AnswersStand, Tells
<1>6. pc[r] # "gone" BY DEF Owning
<1> QED BY <1>1, <1>2, <1>3, <1>4, <1>5, <1>6

\* A request that leaves the rows alone and is told nothing.
LEMMA QuietMove ==
  ASSUME StreamRows, NEW r \in Client, NEW stage \in Stages, UNCHANGED <<backend, runs, key, sent>>,
         Legacy!Goto(r, stage), pc[r] \in Owning \cup {"claim", "replay", "done"},
         Room(pc[r]) <= Room(stage), pc[r] = "done" => stage = "gone",
         stage \in Owning => pc[r] \in Owning /\ OwnerIsTrue(stage, runs[key[r]])
  PROVE  Moves(r, stage, key[r])
<1>1. key[r] \in Key /\ runs[key[r]] # None /\ RowIsTrue(runs[key[r]])
      /\ Len(sent[r]) <= Room(pc[r]) /\ Len(sent[r]) \in Nat
      /\ (pc[r] # "done" => ~ Legacy!Sent(r, "final") /\ ~ Legacy!Sent(r, "error"))
  BY RowOfRequest
<1>2. Len(sent[r]) <= Room(stage) BY <1>1 DEF Room
<1>3. stage \in Owning => runs[key[r]].status = "running" BY DEF StreamRows, RunsAreOwned
<1>4. pc' = [pc EXCEPT ![r] = stage] /\ pc'[r] = stage BY DEF StreamRows, StreamTypes, Legacy!Goto
<1>5. Tells(r, "final", "completed")' /\ Tells(r, "error", "failed")'
  BY <1>1, <1>4 DEF StreamRows, AnswersStand, Tells, Legacy!Sent
<1> QED BY <1>1, <1>2, <1>3, <1>4, <1>5 DEF Moves, StreamRows, StreamTypes, OwnerIsTrue, RowIsTrue

\* Such a request spends nothing, unless it is about to execute.
LEMMA QuietStep ==
  ASSUME StreamInv, NEW r \in Client, NEW stage \in Stages \ {"execute"},
         UNCHANGED <<backend, runs, key, sent, used>>,
         Legacy!Goto(r, stage), pc[r] \in Owning \cup {"claim", "replay", "done"},
         Room(pc[r]) <= Room(stage), pc[r] = "done" => stage = "gone",
         stage \in Owning => pc[r] \in Owning /\ OwnerIsTrue(stage, runs[key[r]])
  PROVE  StreamInv'
<1>1. Moves(r, stage, key[r]) BY QuietMove DEF StreamInv
<1>2. key[r] \in Key /\ runs[key[r]] # None BY RowOfRequest DEF StreamInv
<1>3. runs'[key[r]].executed > 0 => key[r] \in Spent BY <1>2 DEF Spent
<1> QED BY <1>1, <1>2, <1>3, MovesKeep, MovesSpend DEF StreamInv

\* A request that changes the row of its run, or is told of it.
LEMMA LoudStep ==
  ASSUME StreamInv, NEW r \in Client, NEW stage \in Stages \ {"execute"},
         UNCHANGED <<used, key>>, pc[r] \in Owning \cup {"claim", "replay", "done"},
         Moves(r, stage, key[r]),
         \/ pc[r] = "execute"
         \/ runs'[key[r]].executed = runs[key[r]].executed
  PROVE  StreamInv'
<1>1. key[r] \in Key /\ runs[key[r]] # None BY RowOfRequest DEF StreamInv
<1>2. runs'[key[r]].executed > 0 => key[r] \in Spent BY <1>1 DEF Spent
<1> QED BY <1>1, <1>2, MovesKeep, MovesSpend DEF StreamInv

\* A request finds its run or makes it, and is told the meta event.
LEMMA PostStep ==
  ASSUME StreamInv, NEW r \in Client, NEW k \in Key, Legacy!Post(r, k), UNCHANGED backend
  PROVE  StreamInv'
<1> USE DEF StreamInv
<1>1. pc[r] = "idle" /\ pc' = [pc EXCEPT ![r] = "claim"] /\ UNCHANGED used
      /\ runs' = [runs EXCEPT ![k] = IF runs[k] = None THEN Legacy!NewRun ELSE runs[k]]
      /\ key' = [key EXCEPT ![r] = k] /\ Legacy!Yield(r, <<"meta">>)
  BY DEF Legacy!Post, Legacy!Goto
<1>2. Legacy!NewRun \in Legacy!RunRow /\ Legacy!NewRun.executed = 0
      /\ Legacy!NewRun.status = "queued" /\ RowIsTrue(Legacy!NewRun)
  BY DEF Legacy!NewRun, Legacy!RunRow, Legacy!Settled, RowIsTrue
<1>3. runs' \in [Key -> Legacy!RunRow \cup {None}]
      /\ runs'[k] = (IF runs[k] = None THEN Legacy!NewRun ELSE runs[k])
      /\ \A j \in Key \ {k} : runs'[j] = runs[j]
  BY <1>1, <1>2 DEF StreamRows, StreamTypes
<1>4. runs'[k] # None BY <1>2, <1>3, StreamConstants
<1>5. RowIsTrue(runs'[k]) BY <1>2, <1>3 DEF StreamRows, RowsAreTrue
<1>6. Len(sent[r]) = 0 BY <1>1 DEF StreamRows, StreamTypes, Room
<1>7. sent' \in [Client -> Seq(Event)] /\ Len(sent'[r]) = 1
      /\ ~ Legacy!Sent(r, "final")' /\ ~ Legacy!Sent(r, "error")'
      /\ \A d \in Client \ {r} : sent'[d] = sent[d]
  <2>1. ~ Legacy!Sent(r, "final") /\ ~ Legacy!Sent(r, "error")
    BY <1>1 DEF StreamRows, AnswersStand, Tells
  <2>2. "meta" \in Event \ {"final", "error"} BY DEF Event
  <2>3. Legacy!Yield(r, <<"meta">>) /\ StreamTypes BY <1>1 DEF StreamRows
  <2> HIDE DEF StreamInv
  <2> QED BY <1>6, <2>1, <2>2, <2>3, YieldingOne
<1>8. Moves(r, "claim", k)
  <2>1. "claim" \notin Owning BY DEF Owning
  <2>2. Tells(r, "final", "completed")' /\ Tells(r, "error", "failed")'
    BY <1>7 DEF Tells, Legacy!Sent
  <2>3. key' \in [Client -> Key \cup {None}] /\ key'[r] = k /\ \A d \in Client \ {r} : key'[d] = key[d]
    BY <1>1 DEF StreamRows, StreamTypes
  <2>4. runs'[k] = runs[k] \/ runs[k] = None BY <1>3
  <2> QED BY <1>1, <1>3, <1>4, <1>5, <1>7, <2>1, <2>2, <2>3, <2>4, Rooms DEF Moves
<1>9. runs'[k].executed > 0 => k \in Spent BY <1>2, <1>3 DEF Spent
<1> QED BY <1>1, <1>8, <1>9, MovesKeep, MovesSpend DEF Stages

\* One request finds the run queued.
LEMMA ClaimStep ==
  ASSUME StreamInv, NEW r \in Client, Legacy!Claim(r), UNCHANGED backend
  PROVE  StreamInv'
<1> USE DEF StreamInv
<1> DEFINE k == key[r]
<1>1. pc[r] = "claim" /\ UNCHANGED <<used, key>> BY DEF Legacy!Claim
<1>2. k \in Key /\ runs[k] # None /\ runs[k] \in Legacy!RunRow /\ RowIsTrue(runs[k])
      /\ Len(sent[r]) <= 1 /\ Len(sent[r]) \in Nat
      /\ ~ Legacy!Sent(r, "final") /\ ~ Legacy!Sent(r, "error")
  BY <1>1, RowOfRequest DEF Room
<1>3. CASE runs[k].status = "queued"
  <2>1. runs' = [runs EXCEPT ![k].status = "running"] /\ Legacy!Yield(r, <<"node_started">>)
        /\ pc' = [pc EXCEPT ![r] = "started"]
    BY <1>3 DEF Legacy!Claim, Legacy!Run, Legacy!Goto
  <2> DEFINE row == [runs[k] EXCEPT !.status = "running"]
  <2>2. row \in Legacy!RunRow /\ row.status = "running" /\ row.executed = runs[k].executed
    BY <1>2 DEF Legacy!RunRow
  <2> HIDE DEF row
  <2>3. runs' = [runs EXCEPT ![k] = row] BY <2>1 DEF row
  <2>4. runs' \in [Key -> Legacy!RunRow \cup {None}] /\ runs'[k] = row
        /\ \A j \in Key \ {k} : runs'[j] = runs[j]
    BY <1>2, <2>2, <2>3 DEF StreamRows, StreamTypes
  <2>5. row # None BY <2>2, StreamConstants
  <2>6. row.executed = 0 /\ RowIsTrue(row) BY <1>2, <1>3, <2>2 DEF RowIsTrue
  <2>7. sent' \in [Client -> Seq(Event)] /\ Len(sent'[r]) <= 2
        /\ ~ Legacy!Sent(r, "final")' /\ ~ Legacy!Sent(r, "error")'
        /\ \A d \in Client \ {r} : sent'[d] = sent[d]
    <3>1. "node_started" \in Event \ {"final", "error"} BY DEF Event
    <3>2. Legacy!Yield(r, <<"node_started">>) /\ StreamTypes BY <2>1 DEF StreamRows
    <3> HIDE DEF StreamInv
    <3> QED BY <1>2, <3>1, <3>2, YieldingOne
  <2>8. OwnerIsTrue("started", row) BY <2>6 DEF OwnerIsTrue
  <2>9. Moves(r, "started", k)
    <3>1. Tells(r, "final", "completed")' /\ Tells(r, "error", "failed")'
      BY <2>7 DEF Tells, Legacy!Sent
    <3>2. key' \in [Client -> Key \cup {None}] /\ key'[r] = k /\ \A d \in Client \ {r} : key'[d] = key[d]
      BY <1>1 DEF StreamRows, StreamTypes
    <3>3. Room("started") = 2 BY Rooms DEF Owning
    <3> QED BY <1>2, <1>3, <2>1, <2>2, <2>4, <2>5, <2>6, <2>7, <2>8, <3>1, <3>2, <3>3 DEF Moves
  <2> QED BY <1>1, <2>2, <2>4, <2>9, LoudStep DEF Stages
<1>4. CASE runs[k].status # "queued"
  <2>1. UNCHANGED <<runs, sent>> /\ Legacy!Goto(r, "replay")
    BY <1>4 DEF Legacy!Claim, Legacy!Run
  <2>2. "replay" \in Stages \ {"execute"} /\ "replay" \notin Owning BY DEF Stages, Owning
  <2> HIDE DEF StreamInv
  <2> QED BY <1>1, <2>1, <2>2, QuietStep, Rooms
<1> QED BY <1>3, <1>4

\* The cap is spent on a run before it is executed, or the run is refused.
LEMMA QuotaStep ==
  ASSUME StreamInv, NEW r \in Client, Legacy!Quota(r), UNCHANGED backend
  PROVE  StreamInv'
<1> USE DEF StreamInv
<1> DEFINE k == key[r]
<1>1. pc[r] = "started" /\ UNCHANGED <<runs, key, sent>> BY DEF Legacy!Quota
<1>2. k \in Key /\ runs[k] # None BY <1>1, RowOfRequest DEF Owning
<1>3. CASE ~ Legacy!WithinCap
  <2>1. UNCHANGED used /\ Legacy!Goto(r, "fail") BY <1>3 DEF Legacy!Quota
  <2>2. OwnerIsTrue("fail", runs[k]) BY DEF OwnerIsTrue
  <2>3. "fail" \in Stages \ {"execute"} /\ "fail" \in Owning /\ "started" \in Owning
    BY DEF Stages, Owning
  <2> HIDE DEF StreamInv
  <2> QED BY <1>1, <2>1, <2>2, <2>3, QuietStep, Rooms
<1>4. CASE Legacy!WithinCap
  <2>1. Legacy!Goto(r, "execute")
        /\ used' = IF backend = "postgres" THEN used + 1 ELSE used
    BY <1>4 DEF Legacy!Quota
  <2>2. OwnerIsTrue("execute", runs[k])
    BY <1>1 DEF StreamRows, RowsAreTrue, OwnerIsTrue, Owning
  <2>3. Moves(r, "execute", k)
    <3>1. "execute" \in Stages /\ "execute" \in Owning /\ "started" \in Owning
      BY DEF Stages, Owning
    <3>2. StreamRows OBVIOUS
    <3> HIDE DEF StreamInv
    <3> QED BY <1>1, <2>1, <2>2, <3>1, <3>2, QuietMove, Rooms
  <2>4. StreamRows' BY <1>2, <2>3, MovesKeep DEF Stages
  <2>5. Spent' \subseteq Spent \cup {k}
    <3>1. \A d \in Client \ {r} : pc'[d] = pc[d]
      BY <2>1 DEF StreamRows, StreamTypes, Legacy!Goto
    <3> QED BY <1>1, <3>1 DEF Spent
  <2>6. CASE backend = "postgres"
    <3>1. used < Cap BY <1>4, <2>6 DEF Legacy!WithinCap
    <3>2. Spent \subseteq Key /\ Spent \cup {k} \subseteq Key BY <1>2 DEF Spent
    <3>3. Cardinality(Spent \cup {k}) <= Cardinality(Spent) + 1
      <4>1. IsFiniteSet(Spent) BY <3>2, FewerKeys
      <4>2. Cardinality(Spent \cup {k}) =
              IF k \in Spent THEN Cardinality(Spent) ELSE Cardinality(Spent) + 1
        BY <4>1, FS_AddElement
      <4>3. Cardinality(Spent) \in Nat BY <4>1, FS_CardinalityType
      <4> QED BY <4>2, <4>3
    <3>4. Cardinality(Spent') <= Cardinality(Spent \cup {k}) /\ Cardinality(Spent') \in Nat
          /\ Cardinality(Spent) \in Nat /\ Cardinality(Spent \cup {k}) \in Nat
      BY <2>5, <3>2, FewerKeys
    <3>5. used' = used + 1 /\ backend' = "postgres" BY <2>1, <2>6
    <3> QED BY <2>4, <2>6, <3>1, <3>3, <3>4, <3>5, StreamConstants DEF CapIsKept
  <2>7. CASE backend # "postgres"
    <3>1. Legacy!Cardinality(Legacy!Existing) <= Cap BY <1>4, <2>7 DEF Legacy!WithinCap
    <3>2. Cardinality(Legacy!Existing) <= Cap BY <3>1, Zenon DEF Legacy!Cardinality, Cardinality
    <3>3. \A d \in Client : pc[d] = "execute" => key[d] \in Key /\ runs[key[d]] # None
      BY DEF StreamRows, RunsAreOwned, Owning
    <3>4. Spent \cup {k} \subseteq Legacy!Existing BY <1>2, <3>3 DEF Spent, Legacy!Existing
    <3>5. Legacy!Existing \subseteq Key BY DEF Legacy!Existing
    <3>6. Spent' \subseteq Legacy!Existing BY <2>5, <3>4
    <3>7. Cardinality(Spent') <= Cardinality(Legacy!Existing) /\ Cardinality(Spent') \in Nat
          /\ Cardinality(Legacy!Existing) \in Nat
      BY <3>5, <3>6, FewerKeys
    <3>8. used' = used /\ backend' # "postgres" BY <2>1, <2>7
    <3> QED BY <2>4, <3>2, <3>7, <3>8, StreamConstants DEF CapIsKept
  <2> QED BY <2>6, <2>7
<1> QED BY <1>3, <1>4

\* The run is executed, and what it has learned is stored or not.
LEMMA ExecuteStep ==
  ASSUME StreamInv, NEW r \in Client, Legacy!Execute(r), UNCHANGED backend
  PROVE  StreamInv'
<1> USE DEF StreamInv
<1> DEFINE k == key[r]
<1>1. pc[r] = "execute" /\ UNCHANGED <<used, key, sent>> BY DEF Legacy!Execute
<1>2. k \in Key /\ runs[k] # None /\ runs[k] \in Legacy!RunRow /\ RowIsTrue(runs[k])
      /\ Len(sent[r]) <= 2 /\ Len(sent[r]) \in Nat
      /\ ~ Legacy!Sent(r, "final") /\ ~ Legacy!Sent(r, "error")
  BY <1>1, RowOfRequest DEF Room, Owning
<1>3. runs[k].executed = 0 /\ runs[k].status = "running"
  BY <1>1 DEF StreamRows, RowsAreTrue, OwnerIsTrue, RunsAreOwned, Owning
<1>4. PICK ok \in BOOLEAN :
        /\ runs' = [runs EXCEPT ![k].executed = @ + 1,
                                ![k].learned = ok /\ backend = "postgres"]
        /\ pc' = [pc EXCEPT ![r] = IF ok THEN "finish" ELSE "fail"]
  BY DEF Legacy!Execute, Legacy!Goto
<1> DEFINE row == [status |-> "running", executed |-> 1, learned |-> ok /\ backend = "postgres"]
           stage == IF ok THEN "finish" ELSE "fail"
<1>5. runs' = [runs EXCEPT ![k] = row]
  <2>1. runs[k] = [status |-> "running", executed |-> 0, learned |-> runs[k].learned]
    BY <1>2, <1>3 DEF Legacy!RunRow
  <2> DEFINE once == [runs EXCEPT ![k].executed = @ + 1]
  <2>2. runs' = [once EXCEPT ![k].learned = ok /\ backend = "postgres"] BY <1>4
  <2>3. once = [runs EXCEPT ![k] = [runs[k] EXCEPT !.executed = runs[k].executed + 1]] OBVIOUS
  <2>4. [runs[k] EXCEPT !.executed = runs[k].executed + 1] =
          [status |-> "running", executed |-> 1, learned |-> runs[k].learned]
    BY <2>1, <1>3
  <2>5. once[k] = [status |-> "running", executed |-> 1, learned |-> runs[k].learned]
        /\ once \in [Key -> Legacy!RunRow \cup {None}]
        /\ \A j \in Key \ {k} : once[j] = runs[j]
    <3>1. [status |-> "running", executed |-> 1, learned |-> runs[k].learned] \in Legacy!RunRow
      BY <1>2 DEF Legacy!RunRow
    <3> QED BY <1>2, <2>3, <2>4, <3>1 DEF StreamRows, StreamTypes
  <2> HIDE DEF once
  <2>6. [once[k] EXCEPT !.learned = ok /\ backend = "postgres"] = row BY <2>5
  <2> HIDE DEF row
  <2>7. runs' = [once EXCEPT ![k] = row] BY <2>2, <2>6
  <2> QED BY <1>2, <2>5, <2>7 DEF StreamRows, StreamTypes
<1>6. row \in Legacy!RunRow /\ row.executed = 1 /\ row.status = "running"
      /\ (ok /\ backend = "postgres" => row.learned)
  <2>1. (ok /\ backend = "postgres") \in BOOLEAN OBVIOUS
  <2> QED BY <2>1 DEF Legacy!RunRow
<1>7. stage \in {"finish", "fail"} /\ (stage = "finish" => ok) OBVIOUS
<1>8. pc' = [pc EXCEPT ![r] = stage] BY <1>4
<1> HIDE DEF row, stage
<1>9. runs' \in [Key -> Legacy!RunRow \cup {None}] /\ runs'[k] = row
      /\ \A j \in Key \ {k} : runs'[j] = runs[j]
  BY <1>2, <1>5, <1>6 DEF StreamRows, StreamTypes
<1>10. row # None /\ RowIsTrue(row) /\ OwnerIsTrue(stage, row)
  BY <1>6, <1>7, StreamConstants DEF RowIsTrue, OwnerIsTrue
<1>11. ~ Legacy!Sent(r, "final")' /\ ~ Legacy!Sent(r, "error")'
  BY <1>1, <1>2 DEF Legacy!Sent
<1>12. Moves(r, stage, k)
  BY <1>1, <1>2, <1>6, <1>7, <1>8, <1>9, <1>10, <1>11
     DEF Moves, StreamRows, StreamTypes, Room, Owning, Tells
<1> QED BY <1>1, <1>7, <1>12, LoudStep DEF Stages, Owning

\* A request that is told how its run stands, which only its owner changes.
LEMMA TellStep ==
  ASSUME StreamInv, NEW r \in Client, NEW stage \in {"done", "gone"}, NEW events \in Seq(Event),
         pc[r] \in Owning \cup {"replay", "done"}, pc[r] = "done" => stage = "gone",
         UNCHANGED <<backend, used, key>>, Legacy!Goto(r, stage), Legacy!Yield(r, events),
         Len(events) <= IF pc[r] = "done" THEN 1 ELSE 3,
         runs' \in [Key -> Legacy!RunRow \cup {None}],
         runs'[key[r]] \in Legacy!RunRow, RowIsTrue(runs'[key[r]]),
         runs'[key[r]].executed = runs[key[r]].executed,
         runs'[key[r]] = runs[key[r]] \/ pc[r] \in Owning,
         \A j \in Key \ {key[r]} : runs'[j] = runs[j],
         (\E i \in DOMAIN events : events[i] = "final") => runs'[key[r]].status = "completed",
         (\E i \in DOMAIN events : events[i] = "error") => runs'[key[r]].status = "failed"
  PROVE  StreamInv'
<1> DEFINE k == key[r]
<1>1. k \in Key /\ runs[k] # None /\ Len(sent[r]) <= Room(pc[r]) /\ Len(sent[r]) \in Nat
      /\ (pc[r] # "done" => ~ Legacy!Sent(r, "final") /\ ~ Legacy!Sent(r, "error"))
  BY RowOfRequest DEF StreamInv
<1>2. pc' = [pc EXCEPT ![r] = stage] /\ pc'[r] = stage
  BY DEF StreamInv, StreamRows, StreamTypes, Legacy!Goto
<1>3. StreamTypes BY DEF StreamInv, StreamRows
<1>4. /\ sent' \in [Client -> Seq(Event)] /\ \A d \in Client \ {r} : sent'[d] = sent[d]
      /\ Len(sent'[r]) = Len(sent[r]) + Len(events)
      /\ \A e : Legacy!Sent(r, e)' => Legacy!Sent(r, e) \/ \E i \in DOMAIN events : events[i] = e
  BY <1>3, Yielding
<1>5. Len(sent'[r]) <= Room(stage)
  <2>1. Len(events) \in Nat OBVIOUS
  <2>2. pc[r] # "done" => Room(pc[r]) <= 2 BY Rooms
  <2> QED BY <1>1, <1>4, <2>1, <2>2, Rooms
<1>6. Tells(r, "final", "completed") /\ Tells(r, "error", "failed")
  BY DEF StreamInv, StreamRows, AnswersStand
<1>7. pc[r] = "done" => runs'[k] = runs[k] BY DEF Owning
<1>8. runs'[k] # None BY StreamConstants
<1>9. Tells(r, "final", "completed")'
  <2>1. ASSUME Legacy!Sent(r, "final")' PROVE runs'[k].status = "completed"
    BY <1>1, <1>4, <1>6, <1>7, <2>1 DEF Tells
  <2> QED BY <1>1, <1>2, <1>8, <2>1 DEF Tells
<1>10. Tells(r, "error", "failed")'
  <2>1. ASSUME Legacy!Sent(r, "error")' PROVE runs'[k].status = "failed"
    BY <1>1, <1>4, <1>6, <1>7, <2>1 DEF Tells
  <2> QED BY <1>1, <1>2, <1>8, <2>1 DEF Tells
<1>11. Moves(r, stage, k)
  <2>1. stage \notin Owning BY DEF Owning
  <2>2. key' \in [Client -> Key \cup {None}] /\ key' = key BY <1>3 DEF StreamTypes
  <2> QED BY <1>1, <1>2, <1>4, <1>5, <1>8, <1>9, <1>10, <2>1, <2>2 DEF Moves
<1> QED BY <1>11, LoudStep DEF Stages, Owning

\* finish_run: the status, whatever it was.
FinishRun(r, status) == runs' = [runs EXCEPT ![key[r]].status = status]

\* The owner of a run tells its end.
LEMMA EndStep ==
  ASSUME StreamInv, NEW r \in Client, NEW status \in {"completed", "failed"}, NEW events \in Seq(Event),
         pc[r] \in {"finish", "fail"}, pc[r] = "finish" \/ status = "failed",
         FinishRun(r, status),
         UNCHANGED <<backend, used, key>>, Legacy!Goto(r, "done"), Legacy!Yield(r, events),
         Len(events) <= 3,
         (\E i \in DOMAIN events : events[i] = "final") => status = "completed",
         (\E i \in DOMAIN events : events[i] = "error") => status = "failed"
  PROVE  StreamInv'
<1> DEFINE k == key[r]
           row == [runs[k] EXCEPT !.status = status]
<1>1. k \in Key /\ runs[k] # None /\ runs[k] \in Legacy!RunRow /\ RowIsTrue(runs[k])
  BY RowOfRequest DEF StreamInv, Owning
<1>2. row \in Legacy!RunRow /\ row.status = status /\ row.executed = runs[k].executed
      /\ row.learned = runs[k].learned
  BY <1>1 DEF Legacy!RunRow, Legacy!Settled
<1>3. runs' = [runs EXCEPT ![k] = row] BY DEF FinishRun
<1>4. pc[r] = "finish" /\ backend = "postgres" => runs[k].learned
  BY DEF StreamInv, StreamRows, RowsAreTrue, OwnerIsTrue, Owning
<1> HIDE DEF row
<1>5. RowIsTrue(row) BY <1>1, <1>2, <1>4 DEF RowIsTrue
<1>6. runs' \in [Key -> Legacy!RunRow \cup {None}] /\ runs'[k] = row
      /\ \A j \in Key \ {k} : runs'[j] = runs[j]
  BY <1>1, <1>2, <1>3 DEF StreamInv, StreamRows, StreamTypes
<1>7. pc[r] \in Owning BY DEF Owning
<1>8. pc[r] # "done" OBVIOUS
<1> QED BY <1>2, <1>5, <1>6, <1>7, <1>8, TellStep

\* finish_run, or the error of its commit.
LEMMA FinishStep ==
  ASSUME StreamInv, NEW r \in Client, Legacy!Finish(r), UNCHANGED backend
  PROVE  StreamInv'
<1>1. pc[r] = "finish" /\ UNCHANGED <<used, key>> BY DEF Legacy!Finish
<1> DEFINE told == <<"node_completed", "evidence", "final">>
<1>2. CASE /\ FinishRun(r, "completed")
           /\ Legacy!Yield(r, told) /\ Legacy!Goto(r, "done")
  <2>1. told \in Seq(Event) /\ Len(told) = 3 BY DEF Event
  <2>2. ~ \E i \in DOMAIN told : told[i] = "error" OBVIOUS
  <2>3. FinishRun(r, "completed") /\ Legacy!Yield(r, told) /\ Legacy!Goto(r, "done")
    BY <1>2
  <2> HIDE DEF told
  <2> DEFINE status == "completed"
  <2>4. status \in {"completed", "failed"} /\ (pc[r] = "finish" \/ status = "failed")
        /\ pc[r] \in {"finish", "fail"}
    BY <1>1
  <2>5. /\ (\E i \in DOMAIN told : told[i] = "final") => status = "completed"
        /\ (\E i \in DOMAIN told : told[i] = "error") => status = "failed"
    BY <2>2
  <2>6. FinishRun(r, status) BY <2>3
  <2> HIDE DEF status
  <2>7. Len(told) <= 3 /\ UNCHANGED <<backend, used, key>> BY <1>1, <2>1
  <2> QED BY <2>1, <2>3, <2>4, <2>5, <2>6, <2>7, EndStep, Zenon
<1>3. CASE Legacy!Goto(r, "fail") /\ UNCHANGED <<runs, sent>>
  <2>1. OwnerIsTrue("fail", runs[key[r]]) BY DEF OwnerIsTrue
  <2>2. "fail" \in Stages \ {"execute"} /\ "fail" \in Owning /\ "finish" \in Owning
    BY DEF Stages, Owning
  <2> QED BY <1>1, <1>3, <2>1, <2>2, QuietStep, Rooms
<1> QED BY <1>2, <1>3 DEF Legacy!Finish, FinishRun

\* The handler of an error, or a second one.
LEMMA FailStep ==
  ASSUME StreamInv, NEW r \in Client, Legacy!Fail(r), UNCHANGED backend
  PROVE  StreamInv'
<1>1. pc[r] = "fail" /\ UNCHANGED <<used, key>> BY DEF Legacy!Fail
<1> DEFINE told == <<"error">>
<1>2. CASE /\ FinishRun(r, "failed")
           /\ Legacy!Yield(r, told) /\ Legacy!Goto(r, "done")
  <2>1. told \in Seq(Event) /\ Len(told) = 1 BY DEF Event
  <2>2. ~ \E i \in DOMAIN told : told[i] = "final" OBVIOUS
  <2>3. FinishRun(r, "failed") /\ Legacy!Yield(r, told) /\ Legacy!Goto(r, "done")
    BY <1>2
  <2> HIDE DEF told
  <2> DEFINE status == "failed"
  <2>4. status \in {"completed", "failed"} /\ (pc[r] = "finish" \/ status = "failed")
        /\ pc[r] \in {"finish", "fail"}
    BY <1>1
  <2>5. /\ (\E i \in DOMAIN told : told[i] = "final") => status = "completed"
        /\ (\E i \in DOMAIN told : told[i] = "error") => status = "failed"
    BY <2>2
  <2>6. FinishRun(r, status) BY <2>3
  <2> HIDE DEF status
  <2>7. Len(told) <= 3 /\ UNCHANGED <<backend, used, key>> BY <1>1, <2>1
  <2> QED BY <2>1, <2>3, <2>4, <2>5, <2>6, <2>7, EndStep, Zenon
<1>3. CASE Legacy!Goto(r, "gone") /\ UNCHANGED <<runs, sent>>
  <2>1. "gone" \in Stages \ {"execute"} /\ "gone" \notin Owning /\ "fail" \in Owning
    BY DEF Stages, Owning
  <2> QED BY <1>1, <1>3, <2>1, QuietStep, Rooms
<1> QED BY <1>2, <1>3 DEF Legacy!Fail, FinishRun

\* Another request's run is told as it stands.
LEMMA ReplayStep ==
  ASSUME StreamInv, NEW r \in Client, Legacy!Replay(r) \/ Legacy!Done(r), UNCHANGED backend
  PROVE  StreamInv'
<1> DEFINE k == key[r]
           events == IF pc[r] = "done" THEN <<Legacy!DoneEvent[runs[k].status]>>
                     ELSE CASE runs[k].status = "completed" -> <<"final">>
                            [] runs[k].status = "failed" -> <<"error">>
                            [] OTHER -> <<>>
           stage == IF pc[r] = "done" THEN "gone" ELSE "done"
<1>1. pc[r] \in {"replay", "done"} /\ UNCHANGED <<backend, runs, used, key>>
  BY DEF Legacy!Replay, Legacy!Done
<1>2. Legacy!Goto(r, stage) /\ Legacy!Yield(r, events)
  <2>1. CASE Legacy!Replay(r) BY <2>1 DEF Legacy!Replay, Legacy!Run
  <2>2. CASE Legacy!Done(r) BY <2>2 DEF Legacy!Done, Legacy!Run
  <2> QED BY <2>1, <2>2
<1>3. k \in Key /\ runs[k] # None /\ runs[k] \in Legacy!RunRow /\ RowIsTrue(runs[k])
  BY <1>1, RowOfRequest DEF StreamInv
<1>4. /\ events \in Seq(Event) /\ Len(events) <= 1
      /\ (\E i \in DOMAIN events : events[i] = "final") => runs[k].status = "completed"
      /\ (\E i \in DOMAIN events : events[i] = "error") => runs[k].status = "failed"
  <2>1. ASSUME NEW e \in Event PROVE <<e>> \in Seq(Event) /\ Len(<<e>>) = 1 /\ DOMAIN <<e>> = {1} /\ <<e>>[1] = e
    OBVIOUS
  <2>2. CASE pc[r] = "done"
    <3> DEFINE e == Legacy!DoneEvent[runs[k].status]
    <3>1. e \in Event /\ e \notin {"final", "error"}
      BY <1>3 DEF Legacy!RunRow, Legacy!Settled, Legacy!DoneEvent, Event
    <3> HIDE DEF e
    <3>2. <<e>> \in Seq(Event) /\ Len(<<e>>) = 1 /\ \A i \in DOMAIN <<e>> : <<e>>[i] = e
      BY <2>1, <3>1
    <3>3. events = <<e>> BY <2>2 DEF e
    <3> HIDE DEF events
    <3> QED BY <3>1, <3>2, <3>3
  <2>3. CASE pc[r] # "done" /\ runs[k].status = "completed"
    <3>1. events = <<"final">> BY <2>3
    <3>2. "final" \in Event BY DEF Event
    <3> HIDE DEF events
    <3> QED BY <2>1, <2>3, <3>1, <3>2
  <2>4. CASE pc[r] # "done" /\ runs[k].status = "failed"
    <3>1. events = <<"error">> BY <2>4
    <3>2. "error" \in Event BY DEF Event
    <3> HIDE DEF events
    <3> QED BY <2>1, <2>4, <3>1, <3>2
  <2>5. CASE pc[r] # "done" /\ runs[k].status \notin {"completed", "failed"}
    <3>1. events = <<>> BY <2>5
    <3> HIDE DEF events
    <3> QED BY <3>1
  <2> QED BY <2>2, <2>3, <2>4, <2>5
<1>5. stage \in {"done", "gone"} /\ (pc[r] = "done" => stage = "gone") OBVIOUS
<1> HIDE DEF events, stage
<1>6. runs' \in [Key -> Legacy!RunRow \cup {None}] /\ runs'[k] = runs[k]
      /\ \A j \in Key \ {k} : runs'[j] = runs[j]
  BY <1>1 DEF StreamInv, StreamRows, StreamTypes
<1>7. RowIsTrue(runs'[k]) BY <1>3, <1>6
<1> QED BY <1>1, <1>2, <1>3, <1>4, <1>5, <1>6, <1>7, TellStep

\* A client goes away.
LEMMA DisconnectStep ==
  ASSUME StreamInv, NEW r \in Client, Legacy!Disconnect(r), UNCHANGED backend
  PROVE  StreamInv'
<1>1. pc[r] \in {"claim", "started", "done"} /\ UNCHANGED <<runs, used, key, sent>>
      /\ Legacy!Goto(r, "gone")
  BY DEF Legacy!Disconnect
<1>2. "gone" \in Stages \ {"execute"} /\ "gone" \notin Owning /\ "started" \in Owning
  BY DEF Stages, Owning
<1> QED BY <1>1, <1>2, QuietStep, Rooms

\* The process ends: nobody owns a run, and the demo has none.
LEMMA KillStep == ASSUME StreamInv, Legacy!Kill, UNCHANGED backend PROVE StreamInv'
<1> USE DEF StreamInv, StreamRows
<1>1. /\ pc' = [r \in Client |-> IF pc[r] = "idle" THEN "idle" ELSE "gone"]
      /\ runs' = IF backend = "demo" THEN [k \in Key |-> None] ELSE runs
      /\ sent' = IF backend = "demo" THEN [r \in Client |-> <<>>] ELSE sent
      /\ UNCHANGED <<used, key, backend>>
  BY DEF Legacy!Kill
<1>2. \A r \in Client : pc'[r] = (IF pc[r] = "idle" THEN "idle" ELSE "gone")
  BY <1>1
<1>3. StreamTypes'
  <2>1. pc' \in [Client -> Stages] BY <1>1 DEF Stages
  <2>2. sent' \in [Client -> Seq(Event)] BY <1>1 DEF StreamTypes
  <2>3. ASSUME NEW r \in Client PROVE Len(sent'[r]) <= Room(pc'[r])
    <3>1. Len(sent[r]) <= Room(pc[r]) /\ pc[r] \in Stages /\ Len(sent[r]) \in Nat BY DEF StreamTypes
    <3>2. Room(pc[r]) \in 0 .. 6 BY <3>1, Rooms
    <3>3. CASE backend = "demo"
      <4>1. Len(sent'[r]) = 0 BY <1>1, <3>3
      <4> QED BY <1>2, <4>1, Rooms
    <3>4. CASE backend # "demo"
      <4>1. sent'[r] = sent[r] BY <1>1, <3>4
      <4> QED BY <1>2, <3>1, <3>2, <4>1, Rooms
    <3> QED BY <3>3, <3>4
  <2>4. runs' \in [Key -> Legacy!RunRow \cup {None}] BY <1>1 DEF StreamTypes
  <2> QED BY <1>1, <2>1, <2>2, <2>3, <2>4 DEF StreamTypes
<1>4. \A r \in Client : pc'[r] \notin Owning \cup {"claim", "replay", "done"}
  BY <1>2 DEF Owning
<1>5. RunsAreOwned' BY <1>4 DEF RunsAreOwned
<1>6. \A k \in Key : runs'[k] = runs[k] \/ runs'[k] = None BY <1>1
<1>7. RowsAreTrue' BY <1>1, <1>4, <1>6 DEF RowsAreTrue, RowIsTrue
<1>8. AnswersStand'
  <2>1. ASSUME NEW r \in Client, NEW e, NEW s, Tells(r, e, s) PROVE Tells(r, e, s)'
    <3>1. CASE backend = "demo"
      <4>1. sent'[r] = <<>> BY <1>1, <3>1
      <4> QED BY <4>1 DEF Tells, Legacy!Sent
    <3>2. CASE backend # "demo"
      BY <1>1, <1>2, <2>1, <3>2 DEF Tells, Legacy!Sent
    <3> QED BY <3>1, <3>2
  <2> QED BY <2>1 DEF AnswersStand
<1>9. CapIsKept'
  <2>1. \A r \in Client : pc'[r] # "execute" BY <1>2
  <2>2. Spent' \subseteq Spent BY <1>6, <2>1 DEF Spent
  <2> QED BY <1>1, <2>2, NothingSpent
<1> QED BY <1>3, <1>5, <1>7, <1>8, <1>9

\* Every step of the streams keeps the invariant.
LEMMA StreamStep == ASSUME StreamInv, Legacy!Next PROVE StreamInv'
BY PostStep, ClaimStep, QuotaStep, ExecuteStep, FinishStep, FailStep, ReplayStep, DisconnectStep, KillStep
   DEF Legacy!Next, Legacy!Respond

\* The invariant gives all that the run checks of the streams.
LEMMA StreamHoldsAll ==
  ASSUME StreamInv
  PROVE  /\ Legacy!TypeOK /\ Legacy!OneExecution /\ Legacy!CapHolds
         /\ Legacy!AnswersAreTrue /\ Legacy!LearningBeforeFinal
<1> USE DEF StreamInv, StreamRows
<1>1. Legacy!TypeOK
  <2>1. ASSUME NEW r \in Client PROVE Len(sent[r]) <= 6
    <3>1. Len(sent[r]) <= Room(pc[r]) /\ pc[r] \in Stages /\ Len(sent[r]) \in Nat BY DEF StreamTypes
    <3>2. Room(pc[r]) \in 0 .. 6 BY <3>1, Rooms
    <3> QED BY <3>1, <3>2
  <2> QED BY <2>1 DEF StreamTypes, CapIsKept, Stages, Legacy!TypeOK
<1>2. Legacy!OneExecution BY DEF RowsAreTrue, RowIsTrue, Legacy!OneExecution, Legacy!Existing
<1>3. Legacy!CapHolds
  <2> DEFINE S == {k \in Legacy!Existing : runs[k].executed > 0}
  <2>1. S \subseteq Spent BY DEF Spent, Legacy!Existing
  <2>2. Spent \subseteq Key BY DEF Spent
  <2>3. Cardinality(S) <= Cardinality(Spent) /\ Cardinality(S) \in Nat /\ Cardinality(Spent) \in Nat
    BY <2>1, <2>2, FewerKeys
  <2>4. Cardinality(S) <= Cap
    <3> HIDE DEF S
    <3> QED BY <2>3, StreamConstants DEF CapIsKept
  <2>5. Legacy!Cardinality(S) <= Cap BY <2>4, Zenon DEF Legacy!Cardinality, Cardinality
  <2> QED BY <2>5 DEF Legacy!CapHolds
<1>4. Legacy!AnswersAreTrue BY DEF AnswersStand, Tells, Legacy!AnswersAreTrue, Legacy!Run
<1>5. Legacy!LearningBeforeFinal
  <2>1. ASSUME NEW r \in Client, Legacy!Sent(r, "final"), backend = "postgres" PROVE runs[key[r]].learned
    BY <2>1 DEF AnswersStand, Tells, RowsAreTrue, RowIsTrue
  <2> QED BY <2>1 DEF Legacy!LearningBeforeFinal, Legacy!Run
<1> QED BY <1>1, <1>2, <1>3, <1>4, <1>5

\* StreamsAreTrue of the `agent` run, for any requests, keys and cap: a key executes the agent
\* once, the cap holds, what a client was told of a run is what its row says from then on, and
\* with Postgres the learning is committed before the final event (claim_queued_run,
\* claim_monthly_run, finish_run).
THEOREM StreamsStayTrue == MCSpec => []StreamsAreTrue
<1> DEFINE I == In("stream") => StreamInv
<1>1. MCInit => I BY StreamInit DEF MCInit, In
<1>2. ASSUME I, [MCNext]_<<vars, evolution, tools, pc, stream, scenario>> PROVE I'
  <2>1. In("stream")' => In("stream") /\ (Legacy!Next \/ UNCHANGED <<runs, pc, stream>>)
    BY <1>2 DEF MCNext, In, vars
  <2>2. ASSUME StreamInv, UNCHANGED <<runs, pc, stream>> PROVE StreamInv'
    BY <2>2 DEF stream, StreamInv, StreamRows, StreamTypes, RunsAreOwned, RowsAreTrue, RowIsTrue,
                OwnerIsTrue, AnswersStand, Tells, Legacy!Sent, CapIsKept, Spent
  <2> QED BY <1>2, <2>1, <2>2, StreamStep
<1>3. I => StreamsAreTrue BY StreamHoldsAll DEF StreamsAreTrue
<1> HIDE DEF I
<1> QED BY <1>1, <1>2, <1>3, PTL DEF MCSpec

-----------------------------------------------------------------------------
(* The evolution of a skill *)

\* A row of the skill's versions: a version of the files is a content that does not regress,
\* a candidate is its parent's with the round.
RowHolds(v) ==
  /\ v \in Seq(Nat) /\ Len(v) \in 1 .. starts + 1
  /\ rows[v] \in [status : Evolution!Status, parent : Seq(Nat) \cup {None}, content : Content]
  /\ Len(v) = 1 => rows[v].parent = None /\ rows[v].content \notin Regressing
  /\ Len(v) # 1 => rows[v].parent \in DOMAIN rows /\ \E r \in Nat : v = Append(rows[v].parent, r)

RowsHold ==
  /\ starts \in Nat
  /\ rows = [v \in DOMAIN rows |-> rows[v]]
  /\ \A v \in DOMAIN rows : RowHolds(v)

EventHolds(e) ==
  /\ e.type \in Evolution!Event /\ e.version \in Seq(Nat) /\ Len(e.version) \in 1 .. starts + 1
  /\ e.type \in Evolution!Turning => e.version \in DOMAIN rows

TrailHolds ==
  /\ trail \in Seq([type : Evolution!Event, version : Seq(Nat)])
  /\ \A i \in 1 .. Len(trail) : EventHolds(trail[i])

BatchHolds(b) ==
  /\ batch[b] \in Evolution!Doing /\ batch[b].base \in DOMAIN rows /\ Len(batch[b].base) <= starts
  /\ batch[b].stage # "propose" => batch[b].content \in Content
  /\ batch[b].stage = "check" => Evolution!Candidate(b) \in DOMAIN rows

BatchesHold ==
  /\ batch \in [Batch -> Evolution!Doing \cup {None}]
  /\ \A b \in Batch : batch[b] # None => BatchHolds(b)

EvolutionTyped ==
  /\ RowsHold /\ TrailHolds /\ BatchesHold
  /\ starts <= MaxBatches /\ kills \in 0 .. MaxKills /\ revisions \in 0 .. MaxRevisions

\* A candidate's version tells its parent and its round.
LEMMA AppendOne ==
  ASSUME NEW s \in Seq(Nat), NEW t \in Seq(Nat), NEW x \in Nat, NEW y \in Nat, Append(s, x) = Append(t, y)
  PROVE  s = t /\ x = y
<1>1. Len(s) = Len(t) /\ Len(s) \in Nat OBVIOUS
<1>2. Append(s, x)[Len(s) + 1] = x /\ Append(t, y)[Len(t) + 1] = y OBVIOUS
<1>3. ASSUME NEW i \in 1 .. Len(s) PROVE s[i] = t[i]
  <2>1. s[i] = Append(s, x)[i] OBVIOUS
  <2>2. t[i] = Append(t, y)[i] BY <1>1
  <2> QED BY <2>1, <2>2
<1>4. s = [i \in 1 .. Len(s) |-> s[i]] /\ t = [i \in 1 .. Len(t) |-> t[i]] OBVIOUS
<1>5. s = t BY <1>1, <1>3, <1>4
<1>6. x = y BY <1>2, <1>5
<1> QED BY <1>5, <1>6

\* What a transaction may do to the rows: a version is added with its content and its parent,
\* and statuses change.
Grows(v, c, p) ==
  /\ DOMAIN rows' = DOMAIN rows \cup {v} /\ rows' = [w \in DOMAIN rows' |-> rows'[w]]
  /\ \A w \in DOMAIN rows : /\ rows'[w] \in [status : Evolution!Status, parent : Seq(Nat) \cup {None}, content : Content]
                            /\ rows'[w].parent = rows[w].parent /\ rows'[w].content = rows[w].content
  /\ v \notin DOMAIN rows =>
       /\ rows'[v] \in [status : Evolution!Status, parent : Seq(Nat) \cup {None}, content : Content]
       /\ rows'[v].parent = p /\ rows'[v].content = c

Fits(v, c, p) ==
  /\ v \in Seq(Nat) /\ Len(v) \in 1 .. starts + 1 /\ c \in Content
  /\ Len(v) = 1 => p = None /\ c \notin Regressing
  /\ Len(v) # 1 => p \in DOMAIN rows /\ \E r \in Nat : v = Append(p, r)

\* Such a transaction leaves every row well-formed.
LEMMA RowsGrow ==
  ASSUME RowsHold, starts' = starts, NEW v, NEW c, NEW p, Fits(v, c, p), Grows(v, c, p)
  PROVE  RowsHold'
<1>1. ASSUME NEW w \in DOMAIN rows PROVE RowHolds(w)'
  <2>1. RowHolds(w) BY DEF RowsHold
  <2>2. /\ rows'[w] \in [status : Evolution!Status, parent : Seq(Nat) \cup {None}, content : Content]
        /\ rows'[w].parent = rows[w].parent /\ rows'[w].content = rows[w].content
        /\ DOMAIN rows \subseteq DOMAIN rows'
    BY DEF Grows
  <2> QED BY <2>1, <2>2 DEF RowHolds
<1>2. ASSUME v \notin DOMAIN rows PROVE RowHolds(v)'
  BY <1>2 DEF Fits, RowHolds, Grows
<1> QED BY <1>1, <1>2 DEF Grows, RowsHold

\* The parent of a candidate that exists is the version it is named after.
LEMMA ParentFits ==
  ASSUME RowsHold, NEW v \in DOMAIN rows, NEW p \in Seq(Nat), NEW r \in Nat, v = Append(p, r)
  PROVE  p \in DOMAIN rows => Len(v) # 1 /\ rows[v].parent = p
<1> SUFFICES ASSUME p \in DOMAIN rows PROVE Len(v) # 1 /\ rows[v].parent = p OBVIOUS
<1>1. (RowHolds(v) /\ RowHolds(p) /\ RowHolds(rows[v].parent)) \/ Len(v) = 1 BY DEF RowsHold, RowHolds
<1>2. Len(v) = Len(p) + 1 /\ Len(p) \in Nat OBVIOUS
<1>3. Len(v) # 1 BY <1>2 DEF RowsHold, RowHolds
<1>4. PICK q \in Nat : v = Append(rows[v].parent, q) BY <1>1, <1>3 DEF RowHolds
<1>5. rows[v].parent \in Seq(Nat) BY <1>1, <1>3 DEF RowHolds
<1> HIDE DEF RowHolds
<1> QED BY <1>3, <1>4, <1>5, AppendOne

\* The version of a batch's candidate is a new one below its base.
LEMMA CandidateFits ==
  ASSUME EvolutionTyped, NEW b \in Batch, batch[b] # None, Evolution!EvolutionAssumption
  PROVE  /\ Evolution!Candidate(b) \in Seq(Nat) /\ Len(Evolution!Candidate(b)) = Len(batch[b].base) + 1
         /\ Len(Evolution!Candidate(b)) \in 2 .. starts + 1
         /\ Len(Evolution!Candidate(b)) # 1 /\ Evolution!Candidate(b) # batch[b].base
         /\ batch[b].base \in Seq(Nat) /\ batch[b].round \in Nat
         /\ \A c \in Content : Fits(Evolution!Candidate(b), c, batch[b].base)
<1>1. batch[b].round \in Nat /\ batch[b].base \in DOMAIN rows /\ Len(batch[b].base) <= starts
  BY DEF EvolutionTyped, BatchesHold, BatchHolds, Evolution!Doing, Evolution!EvolutionAssumption
<1>2. batch[b].base \in Seq(Nat) /\ Len(batch[b].base) >= 1 /\ starts \in Nat
  BY <1>1 DEF EvolutionTyped, RowsHold, RowHolds
<1>3. Len(batch[b].base) \in Nat BY <1>2
<1>4. Len(Append(batch[b].base, batch[b].round)) = Len(batch[b].base) + 1
      /\ Append(batch[b].base, batch[b].round) \in Seq(Nat)
  BY <1>1, <1>2
<1> QED BY <1>1, <1>2, <1>3, <1>4 DEF Evolution!Candidate, Fits

\* A rejection is such a transaction and touches no other row.
LEMMA RejectGrows ==
  ASSUME RowsHold, NEW v, NEW c \in Content, NEW p \in Seq(Nat),
         rows' = Evolution!Moved(Evolution!Registered(v, c, p), v, "rejected")
  PROVE  /\ Grows(v, c, p)
         /\ \A w \in DOMAIN rows \ {v} : rows'[w] = rows[w]
         /\ rows'[v].status = "rejected"
<1> DEFINE R == Evolution!Registered(v, c, p)
<1>1. DOMAIN R = DOMAIN rows \cup {v} /\ R = [w \in DOMAIN R |-> R[w]]
      /\ (\A w \in DOMAIN rows : R[w] = rows[w])
      /\ (v \notin DOMAIN rows => R[v] = [status |-> "candidate", parent |-> p, content |-> c])
  BY DEF Evolution!Registered, Evolution!Exists, RowsHold
<1> HIDE DEF R
<1>2. rows' = [R EXCEPT ![v] = [R[v] EXCEPT !.status = "rejected"]] BY DEF R, Evolution!Moved
<1>3. DOMAIN rows' = DOMAIN rows \cup {v} /\ rows' = [w \in DOMAIN rows' |-> rows'[w]]
      /\ (\A w \in DOMAIN rows \ {v} : rows'[w] = rows[w])
      /\ rows'[v] = [R[v] EXCEPT !.status = "rejected"]
  BY <1>1, <1>2
<1>4. R[v].parent \in Seq(Nat) \cup {None} /\ R[v].content \in Content
      /\ R[v] = [status |-> R[v].status, parent |-> R[v].parent, content |-> R[v].content]
  BY <1>1 DEF RowsHold, RowHolds
<1>5. rows'[v] = [status |-> "rejected", parent |-> R[v].parent, content |-> R[v].content] BY <1>3, <1>4
<1>6. ASSUME NEW w \in DOMAIN rows
      PROVE  /\ rows'[w] \in [status : Evolution!Status, parent : Seq(Nat) \cup {None}, content : Content]
             /\ rows'[w].parent = rows[w].parent /\ rows'[w].content = rows[w].content
  <2>1. rows[w] \in [status : Evolution!Status, parent : Seq(Nat) \cup {None}, content : Content]
    BY <1>6 DEF RowsHold, RowHolds
  <2>2. CASE w = v BY <1>1, <1>4, <1>5, <2>2 DEF Evolution!Status
  <2>3. CASE w # v BY <1>3, <2>1, <2>3
  <2> QED BY <2>2, <2>3
<1>7. Grows(v, c, p) BY <1>1, <1>3, <1>4, <1>5, <1>6 DEF Grows, Evolution!Status
<1> QED BY <1>3, <1>5, <1>7

\* A promotion leaves one active version.
LEMMA PromoteGrows ==
  ASSUME RowsHold, NEW v, NEW c \in Content, NEW p \in Seq(Nat) \cup {None},
         rows' = Evolution!Promoted(Evolution!Registered(v, c, p), v)
  PROVE  /\ Grows(v, c, p)
         /\ \A w \in DOMAIN rows' : rows'[w].status = "active" <=> w = v
<1> DEFINE R == Evolution!Registered(v, c, p)
<1>1. DOMAIN R = DOMAIN rows \cup {v}
      /\ (\A w \in DOMAIN rows : R[w] = rows[w])
      /\ (v \notin DOMAIN rows => R[v] = [status |-> "candidate", parent |-> p, content |-> c])
  BY DEF Evolution!Registered, Evolution!Exists, RowsHold
<1>2. rows' = Evolution!Promoted(R, v) OBVIOUS
<1> HIDE DEF R
<1>3. DOMAIN rows' = DOMAIN rows \cup {v} /\ rows' = [w \in DOMAIN rows' |-> rows'[w]]
      /\ rows'[v] = [R[v] EXCEPT !.status = "active"]
  BY <1>1, <1>2 DEF Evolution!Promoted
<1>4. ASSUME NEW w \in DOMAIN rows \ {v}
      PROVE  rows'[w] = IF rows[w].status = "active" THEN [rows[w] EXCEPT !.status = "archived"] ELSE rows[w]
  BY <1>1, <1>2, <1>4 DEF Evolution!Promoted
<1>5. R[v].parent \in Seq(Nat) \cup {None} /\ R[v].content \in Content
      /\ R[v] = [status |-> R[v].status, parent |-> R[v].parent, content |-> R[v].content]
  BY <1>1 DEF RowsHold, RowHolds
<1>6. rows'[v] = [status |-> "active", parent |-> R[v].parent, content |-> R[v].content] BY <1>3, <1>5
<1>7. ASSUME NEW w \in DOMAIN rows \ {v}
      PROVE  /\ rows'[w] \in [status : Evolution!Status, parent : Seq(Nat) \cup {None}, content : Content]
             /\ rows'[w].parent = rows[w].parent /\ rows'[w].content = rows[w].content
             /\ rows'[w].status # "active"
  <2>1. rows[w] \in [status : Evolution!Status, parent : Seq(Nat) \cup {None}, content : Content]
    BY <1>7 DEF RowsHold, RowHolds
  <2> QED BY <1>4, <2>1 DEF Evolution!Status
<1> QED BY <1>1, <1>3, <1>5, <1>6, <1>7 DEF Grows, Evolution!Status

\* A rollback moves the mark to the parent.
LEMMA RollbackGrows ==
  ASSUME RowsHold, NEW v \in DOMAIN rows, rows[v].parent \in DOMAIN rows, rows[v].parent # v,
         rows' = Evolution!RolledBack(v)
  PROVE  /\ Grows(v, rows[v].content, rows[v].parent)
         /\ \A w \in DOMAIN rows \ {v, rows[v].parent} : rows'[w] = rows[w]
         /\ rows'[v].status = "rolled_back" /\ rows'[rows[v].parent].status = "active"
<1> DEFINE p == rows[v].parent
           R == Evolution!Moved(rows, v, "rolled_back")
<1>1. R = [rows EXCEPT ![v] = [rows[v] EXCEPT !.status = "rolled_back"]] BY DEF Evolution!Moved
<1>2. rows' = [R EXCEPT ![p] = [R[p] EXCEPT !.status = "active"]]
  BY DEF Evolution!RolledBack, Evolution!Moved
<1>3. DOMAIN R = DOMAIN rows /\ R = [w \in DOMAIN rows |-> R[w]]
      /\ R[v] = [rows[v] EXCEPT !.status = "rolled_back"] /\ \A w \in DOMAIN rows \ {v} : R[w] = rows[w]
  BY <1>1 DEF RowsHold
<1> HIDE DEF R
<1>4. p \in DOMAIN rows /\ p # v OBVIOUS
<1>5. ASSUME NEW w \in DOMAIN rows
      PROVE  rows[w] \in [status : Evolution!Status, parent : Seq(Nat) \cup {None}, content : Content]
  BY DEF RowsHold, RowHolds
<1> HIDE DEF p
<1>6. DOMAIN rows' = DOMAIN rows /\ rows' = [w \in DOMAIN rows' |-> rows'[w]]
      /\ rows'[p] = [rows[p] EXCEPT !.status = "active"]
      /\ rows'[v] = [rows[v] EXCEPT !.status = "rolled_back"]
      /\ \A w \in DOMAIN rows \ {v, p} : rows'[w] = rows[w]
  BY <1>2, <1>3, <1>4
<1>7. ASSUME NEW w \in DOMAIN rows
      PROVE  /\ rows'[w] \in [status : Evolution!Status, parent : Seq(Nat) \cup {None}, content : Content]
             /\ rows'[w].parent = rows[w].parent /\ rows'[w].content = rows[w].content
  BY <1>4, <1>5, <1>6 DEF Evolution!Status
<1>8. rows'[v].status = "rolled_back" /\ rows'[p].status = "active" BY <1>4, <1>5, <1>6
<1>9. DOMAIN rows' = DOMAIN rows \cup {v} /\ v \in DOMAIN rows BY <1>6
<1>10. Grows(v, rows[v].content, p)
  <2>1. rows' = [w \in DOMAIN rows' |-> rows'[w]] BY <1>6, Zenon
  <2> QED BY <1>7, <1>9, <2>1, Zenon DEF Grows
<1> QED BY <1>6, <1>8, <1>10 DEF p

-----------------------------------------------------------------------------

EventRow == [type : Evolution!Event, version : Seq(Nat)]

\* The events are only appended to.
Told == trail' \in Seq(EventRow) /\ Len(trail') >= Len(trail) /\ \A i \in 1 .. Len(trail) : trail'[i] = trail[i]

\* One event is appended.
LEMMA TellOne ==
  ASSUME TrailHolds, NEW e \in EventRow, trail' = Append(trail, e)
  PROVE  Told /\ Len(trail') = Len(trail) + 1 /\ trail'[Len(trail) + 1] = e
BY DEF TrailHolds, Told, EventRow

\* Two events are appended.
LEMMA TellTwo ==
  ASSUME TrailHolds, NEW e \in EventRow, NEW f \in EventRow, trail' = trail \o <<e, f>>
  PROVE  /\ Told /\ Len(trail') = Len(trail) + 2
         /\ trail'[Len(trail) + 1] = e /\ trail'[Len(trail) + 2] = f
<1>1. trail \in Seq(EventRow) /\ <<e, f>> \in Seq(EventRow) /\ Len(<<e, f>>) = 2 BY DEF TrailHolds, EventRow
<1>2. trail' \in Seq(EventRow) /\ Len(trail') = Len(trail) + 2 BY <1>1
<1>3. \A i \in 1 .. Len(trail) : trail'[i] = trail[i] BY <1>1
<1>4. trail'[Len(trail) + 1] = e /\ trail'[Len(trail) + 2] = f BY <1>1
<1> QED BY <1>1, <1>2, <1>3, <1>4 DEF Told

\* An event is of its type and version.
LEMMA HappenedHolds ==
  ASSUME NEW v \in Seq(Nat), NEW type \in Evolution!Event
  PROVE  /\ Evolution!Happened(type, v) \in EventRow
         /\ Evolution!Happened(type, v).type = type /\ Evolution!Happened(type, v).version = v
BY DEF Evolution!Happened, EventRow

\* Versions are never removed, and starts only counted up.
Wider == DOMAIN rows \subseteq DOMAIN rows' /\ starts \in Nat /\ starts' \in Nat /\ starts <= starts'

\* The events that were told stay as they are.
LEMMA TrailGoesOn ==
  ASSUME TrailHolds, Wider, Told, \A i \in 1 .. Len(trail') : i > Len(trail) => EventHolds(trail[i])'
  PROVE  TrailHolds'
<1>1. ASSUME NEW i \in 1 .. Len(trail') PROVE EventHolds(trail[i])'
  <2>1. CASE i > Len(trail) BY <2>1
  <2>2. CASE ~ i > Len(trail)
    <3>1. Len(trail) \in Nat /\ Len(trail') \in Nat BY DEF TrailHolds, Told
    <3>2. i \in 1 .. Len(trail) /\ trail'[i] = trail[i] BY <2>2, <3>1 DEF Told
    <3>3. EventHolds(trail[i]) BY <3>2 DEF TrailHolds
    <3>4. Len(trail[i].version) \in Nat BY <3>3 DEF EventHolds
    <3> QED BY <3>2, <3>3, <3>4 DEF EventHolds, Wider
  <2> QED BY <2>1, <2>2
<1> QED BY <1>1 DEF TrailHolds, Told, EventRow

\* One batch moves.
Alone(b) == batch' \in [Batch -> Evolution!Doing \cup {None}] /\ \A o \in Batch \ {b} : batch'[o] = batch[o]

\* The other batches stay as they are.
LEMMA BatchGoesOn ==
  ASSUME BatchesHold, Wider, NEW b \in Batch, Alone(b), batch'[b] # None => BatchHolds(b)'
  PROVE  BatchesHold'
<1>1. ASSUME NEW o \in Batch, batch'[o] # None, o # b PROVE BatchHolds(o)'
  <2>1. batch'[o] = batch[o] /\ BatchHolds(o) BY <1>1 DEF Alone, BatchesHold
  <2>2. batch[o].base \in DOMAIN rows' BY <2>1 DEF BatchHolds, Wider
  <2>3. Len(batch[o].base) <= starts'
    <3>1. batch[o].base \in Seq(Nat) BY <2>1 DEF BatchHolds, Evolution!Doing
    <3>2. Len(batch[o].base) \in Nat BY <3>1
    <3> QED BY <2>1, <3>2 DEF BatchHolds, Wider
  <2> QED BY <2>1, <2>2, <2>3 DEF BatchHolds, Wider, Evolution!Candidate
<1> QED BY <1>1 DEF Alone, BatchesHold

\* After a round the batch is over or proposes the next candidate from the same version.
LEMMA RoundEnds ==
  ASSUME BatchesHold, Evolution!EvolutionAssumption, NEW b \in Batch, batch[b] # None, Evolution!NextRound(b)
  PROVE  /\ Alone(b)
         /\ batch'[b] # None =>
              /\ batch'[b] \in Evolution!Doing /\ batch'[b].stage = "propose"
              /\ batch'[b].base = batch[b].base /\ batch'[b].round = batch[b].round + 1
<1> DEFINE next == [batch[b] EXCEPT !.round = batch[b].round + 1, !.stage = "propose", !.content = None]
<1>1. batch' = [batch EXCEPT ![b] = IF batch[b].round = Rounds THEN None ELSE next]
  BY Zenon DEF Evolution!NextRound
<1>2. batch[b] \in Evolution!Doing /\ batch \in [Batch -> Evolution!Doing \cup {None}]
  BY DEF BatchesHold, BatchHolds
<1>3. batch[b].round # Rounds => next \in Evolution!Doing /\ next.stage = "propose"
                                 /\ next.base = batch[b].base /\ next.round = batch[b].round + 1
  <2>1. batch[b].round \in 1 .. Rounds /\ Rounds \in Nat BY <1>2 DEF Evolution!Doing, Evolution!EvolutionAssumption
  <2>2. batch[b].round # Rounds => batch[b].round + 1 \in 1 .. Rounds BY <2>1
  <2> QED BY <1>2, <2>2 DEF Evolution!Doing, Evolution!Stage
<1> HIDE DEF next
<1>4. batch'[b] = IF batch[b].round = Rounds THEN None ELSE next BY <1>1, <1>2
<1>5. batch' \in [Batch -> Evolution!Doing \cup {None}] BY <1>1, <1>2, <1>3
<1> QED BY <1>1, <1>2, <1>3, <1>4, <1>5 DEF Alone

-----------------------------------------------------------------------------

\* The version that a batch has made or found active.
Serving(b) == IF batch[b].stage = "check" THEN Evolution!Candidate(b) ELSE batch[b].base

Marked ==
  \E i \in DOMAIN trail :
    /\ trail[i].type \in Evolution!Turning /\ Evolution!Active = {Evolution!Turned(trail[i])}
    /\ \A j \in i + 1 .. Len(trail) : trail[j].type \notin Evolution!Turning

OneBatch == \A b, o \in Batch : batch[b] # None /\ batch[o] # None => b = o

OneServes ==
  \A b \in Batch : batch[b] # None => \A v \in Evolution!Active : v = Serving(b) \/ Len(v) = 1

Orderly == ~ overlapped => OneBatch /\ Marked /\ OneServes

PassedTheGate(v) == rows[v].parent # None => <<v, rows[v].content>> \in passed

\* The rounds of a batch that began afresh are new versions.
RoundsAreNew(b) ==
  \A r \in Nat : Append(batch[b].base, r) \in DOMAIN rows =>
    r < batch[b].round \/ (batch[b].stage = "check" /\ r = batch[b].round)

CandidateStands(b) ==
  batch[b].stage = "check" =>
    /\ rows[Evolution!Candidate(b)].content = batch[b].content
    /\ <<Evolution!Candidate(b), batch[b].content>> \in passed

FreshBatch(b) ==
  /\ PassedTheGate(batch[b].base) /\ RoundsAreNew(b) /\ CandidateStands(b)
  /\ kills = 0 => rows[batch[b].base].content \notin Regressing

BadIsChecked ==
  kills = 0 =>
    \A v \in Evolution!Active : rows[v].content \in Regressing =>
      \E b \in Batch : Evolution!In(b, "check") /\ Evolution!Candidate(b) = v

Fresh == ~ overlapped /\ ~ reran =>
  /\ \A v \in Evolution!Active : PassedTheGate(v)
  /\ \A b \in Batch : batch[b] # None => FreshBatch(b)
  /\ BadIsChecked

EvolutionInv == EvolutionTyped /\ Orderly /\ Fresh

\* Rows keep their parents and contents.
Keeps == /\ DOMAIN rows \subseteq DOMAIN rows'
         /\ \A w \in DOMAIN rows : rows'[w].parent = rows[w].parent /\ rows'[w].content = rows[w].content

\* No turn is told.
Quiet == Told /\ \A i \in 1 .. Len(trail') : i > Len(trail) => trail'[i].type \notin Evolution!Turning

\* An event that turns nothing leaves the last turn the last one.
LEMMA MarkKept ==
  ASSUME EvolutionTyped, Marked, Keeps, Quiet, Evolution!Active' = Evolution!Active
  PROVE  Marked'
<1>1. PICK i \in DOMAIN trail :
        /\ trail[i].type \in Evolution!Turning /\ Evolution!Active = {Evolution!Turned(trail[i])}
        /\ \A j \in i + 1 .. Len(trail) : trail[j].type \notin Evolution!Turning
  BY DEF Marked
<1>2. trail \in Seq(EventRow) /\ trail' \in Seq(EventRow) /\ Len(trail) \in Nat /\ Len(trail') \in Nat
  BY DEF EvolutionTyped, TrailHolds, EventRow, Quiet, Told
<1>3. i \in 1 .. Len(trail) /\ i \in DOMAIN trail' /\ trail'[i] = trail[i]
  BY <1>1, <1>2 DEF Quiet, Told
<1>4. ASSUME NEW j \in i + 1 .. Len(trail') PROVE trail'[j].type \notin Evolution!Turning
  <2>1. CASE j > Len(trail) BY <1>2, <1>3, <2>1 DEF Quiet
  <2>2. CASE ~ j > Len(trail)
    <3>1. j \in i + 1 .. Len(trail) /\ j \in 1 .. Len(trail) BY <1>2, <1>3, <2>2
    <3> QED BY <1>1, <3>1 DEF Quiet, Told
  <2> QED BY <2>1, <2>2
<1>5. trail[i].version \in DOMAIN rows BY <1>1, <1>3 DEF EvolutionTyped, TrailHolds, EventHolds
<1>6. Evolution!Turned(trail[i])' = Evolution!Turned(trail[i]) BY <1>3, <1>5 DEF Keeps, Evolution!Turned
<1> QED BY <1>1, <1>3, <1>4, <1>6 DEF Marked

\* An event that turns is the last turn.
LEMMA MarkSet ==
  ASSUME trail' \in Seq(EventRow), Len(trail') # 0, trail'[Len(trail')].type \in Evolution!Turning,
         Evolution!Active' = {Evolution!Turned(trail[Len(trail)])'}
  PROVE  Marked'
<1>1. Len(trail') \in DOMAIN trail' BY DEF EventRow
<1>2. Len(trail') + 1 .. Len(trail') = {} OBVIOUS
<1>3. trail'[Len(trail')].type \in Evolution!Turning
      /\ \A j \in Len(trail') + 1 .. Len(trail') : trail'[j].type \notin Evolution!Turning
  BY <1>2
<1> QED BY <1>1, <1>3 DEF Marked

\* A move of a batch that turns nothing: the end of a round or of the batch, and the
\* registration.
LEMMA QuietRound ==
  ASSUME EvolutionInv, Evolution!EvolutionAssumption, NEW b \in Batch, batch[b] # None, Alone(b),
         Keeps, RowsHold', ~ overlapped => Evolution!Active' = Evolution!Active, TrailHolds', Quiet,
         \A w \in DOMAIN rows' \ DOMAIN rows : w = Evolution!Candidate(b),
         UNCHANGED <<passed, reran, overlapped, starts, revisions>>,
         kills' \in 0 .. MaxKills, kills <= kills',
         batch'[b] # None =>
           /\ BatchHolds(b)' /\ batch'[b].base = batch[b].base
           /\ batch[b].stage # "check" /\ batch'[b].stage # "check"
           /\ \/ rows' = rows /\ batch'[b].round = batch[b].round
              \/ batch'[b].round = batch[b].round + 1,
         ~ overlapped /\ ~ reran /\ kills' = 0 /\ batch[b].stage = "check" =>
           \A v \in Evolution!Active : v = Evolution!Candidate(b) => rows[v].content \notin Regressing
  PROVE  EvolutionInv'
<1>1. EvolutionTyped'
  <2>1. BatchesHold' BY BatchGoesOn DEF EvolutionInv, EvolutionTyped, Keeps, Wider, RowsHold
  <2> QED BY <2>1 DEF EvolutionInv, EvolutionTyped
<1>2. \A o \in Batch : batch'[o] # None => batch[o] # None BY DEF Alone
<1>3. kills \in Nat /\ (kills' = 0 => kills = 0) BY DEF EvolutionInv, EvolutionTyped
<1>4. Orderly'
  <2> SUFFICES ASSUME ~ overlapped PROVE (OneBatch /\ Marked /\ OneServes)' BY DEF Orderly
  <2>1. OneBatch /\ Marked /\ OneServes BY DEF EvolutionInv, Orderly
  <2>2. OneBatch' BY <1>2, <2>1 DEF OneBatch
  <2>3. Marked' BY <2>1, MarkKept DEF EvolutionInv
  <2>4. ASSUME NEW o \in Batch, batch'[o] # None PROVE Serving(o)' = Serving(o)
    BY <2>4 DEF Alone, Serving, Evolution!Candidate
  <2> QED BY <1>2, <2>1, <2>2, <2>3, <2>4 DEF OneServes
<1>5. Fresh'
  <2> SUFFICES ASSUME ~ overlapped, ~ reran
               PROVE  /\ \A v \in Evolution!Active' : PassedTheGate(v)'
                      /\ \A o \in Batch : batch'[o] # None => FreshBatch(o)'
                      /\ BadIsChecked'
    BY DEF Fresh
  <2>1. /\ \A v \in Evolution!Active : PassedTheGate(v)
        /\ BadIsChecked /\ OneBatch
        /\ \A o \in Batch : batch[o] # None => FreshBatch(o)
    BY DEF EvolutionInv, Fresh, Orderly
  <2>2. \A v \in Evolution!Active' : PassedTheGate(v)' BY <2>1 DEF Keeps, PassedTheGate, Evolution!Active
  <2>3. ASSUME NEW o \in Batch, batch'[o] # None PROVE FreshBatch(o)'
    <3>1. o = b /\ FreshBatch(b) BY <1>2, <2>1, <2>3 DEF OneBatch
    <3>2. batch[b].base \in DOMAIN rows BY DEF EvolutionInv, EvolutionTyped, BatchesHold, BatchHolds
    <3>3. PassedTheGate(batch[b].base)' BY <3>1, <3>2, <2>3 DEF FreshBatch, Keeps, PassedTheGate
    <3>4. RoundsAreNew(b)'
      <4>1. ASSUME NEW r \in Nat, Append(batch[b].base, r) \in DOMAIN rows' PROVE r < batch'[b].round
        <5>1. batch[b].base \in Seq(Nat) /\ batch[b].round \in Nat
          BY CandidateFits DEF EvolutionInv
        <5>2. CASE Append(batch[b].base, r) \in DOMAIN rows
          BY <2>3, <3>1, <4>1, <5>1, <5>2 DEF FreshBatch, RoundsAreNew
        <5>3. CASE Append(batch[b].base, r) \notin DOMAIN rows
          <6>1. Append(batch[b].base, r) = Append(batch[b].base, batch[b].round)
            BY <4>1, <5>3 DEF Evolution!Candidate
          <6>2. r = batch[b].round BY <5>1, <6>1, AppendOne
          <6>3. rows' # rows BY <4>1, <5>3
          <6> QED BY <2>3, <3>1, <5>1, <6>2, <6>3
        <5> QED BY <5>2, <5>3
      <4> QED BY <2>3, <3>1, <4>1 DEF RoundsAreNew
    <3>5. CandidateStands(b)' BY <2>3, <3>1 DEF CandidateStands
    <3>6. kills' = 0 => rows'[batch'[b].base].content \notin Regressing
      BY <1>3, <2>3, <3>1, <3>2 DEF FreshBatch, Keeps
    <3> QED BY <2>3, <3>1, <3>3, <3>4, <3>5, <3>6 DEF FreshBatch, PassedTheGate
  <2>4. BadIsChecked'
    <3> SUFFICES ASSUME kills' = 0, NEW v \in Evolution!Active', rows'[v].content \in Regressing PROVE FALSE
      BY DEF BadIsChecked
    <3>1. v \in Evolution!Active /\ v \in DOMAIN rows /\ rows[v].content \in Regressing
      BY DEF Evolution!Active, Keeps
    <3>2. PICK o \in Batch : Evolution!In(o, "check") /\ Evolution!Candidate(o) = v
      BY <1>3, <2>1, <3>1 DEF BadIsChecked
    <3>3. o = b /\ batch[b].stage = "check" BY <2>1, <3>2 DEF OneBatch, Evolution!In
    <3> QED BY <3>1, <3>2, <3>3
  <2> QED BY <2>2, <2>3, <2>4
<1> QED BY <1>1, <1>4, <1>5 DEF EvolutionInv

-----------------------------------------------------------------------------

\* What leaves the rows alone keeps what holds of them.
LEMMA SameRows ==
  ASSUME RowsHold, rows' = rows, starts' = starts
  PROVE  Keeps /\ RowsHold' /\ Evolution!Active' = Evolution!Active /\ Wider
BY DEF RowsHold, RowHolds, Keeps, Evolution!Active, Wider

\* Nothing becomes active.
LEMMA NothingToTell ==
  ASSUME Evolution!Active' \subseteq Evolution!Active PROVE Evolution!ActivationIsTold
BY DEF Evolution!ActivationIsTold

\* The next round of a batch is one of its versions.
LEMMA NextRoundHolds ==
  ASSUME EvolutionTyped, Evolution!EvolutionAssumption, NEW b \in Batch, batch[b] # None,
         Keeps, starts' = starts, Evolution!NextRound(b)
  PROVE  /\ Alone(b)
         /\ batch'[b] # None =>
              /\ BatchHolds(b)' /\ batch'[b].stage = "propose"
              /\ batch'[b].base = batch[b].base /\ batch'[b].round = batch[b].round + 1
<1>1. BatchesHold /\ BatchHolds(b) BY DEF EvolutionTyped, BatchesHold
<1> QED BY <1>1, RoundEnds DEF BatchHolds, Keeps

\* A candidate is told of.
LEMMA CandidateIsTold ==
  ASSUME EvolutionTyped, Evolution!EvolutionAssumption, NEW b \in Batch, batch[b] # None,
         NEW type \in Evolution!Event, NEW i \in 1 .. Len(trail'),
         starts' = starts, trail'[i] = Evolution!Happened(type, Evolution!Candidate(b)),
         type \in Evolution!Turning => Evolution!Candidate(b) \in DOMAIN rows'
  PROVE  EventHolds(trail[i])'
BY CandidateFits, HappenedHolds DEF EventHolds

\* A generator that fails, or an invalid patch, ends the round.
LEMMA ProposalFails ==
  ASSUME EvolutionInv, Evolution!EvolutionAssumption, NEW b \in Batch,
         Evolution!GeneratorFails(b) \/ Evolution!PatchIsInvalid(b)
  PROVE  EvolutionInv' /\ Evolution!ActivationIsTold
<1> DEFINE v == Evolution!Candidate(b)
<1>1. batch[b] # None /\ batch[b].stage = "propose" /\ Evolution!NextRound(b)
      /\ UNCHANGED <<rows, passed, reran, overlapped, starts, kills, revisions>>
  BY DEF Evolution!GeneratorFails, Evolution!PatchIsInvalid, Evolution!In, Evolution!history
<1>2. EvolutionTyped /\ RowsHold /\ TrailHolds BY DEF EvolutionInv, EvolutionTyped
<1>3. Keeps /\ RowsHold' /\ Evolution!Active' = Evolution!Active /\ Wider BY <1>1, <1>2, SameRows
<1>4. v \in Seq(Nat) BY <1>1, <1>2, CandidateFits
<1>5. Told /\ \A i \in 1 .. Len(trail') : i > Len(trail) =>
        \E type \in {"generated", "rejected"} : trail'[i] = Evolution!Happened(type, v)
  <2>1. /\ Evolution!Happened("generated", v) \in EventRow
        /\ Evolution!Happened("rejected", v) \in EventRow
    BY <1>4, HappenedHolds DEF Evolution!Event
  <2>2. Len(trail) \in Nat BY <1>2 DEF TrailHolds
  <2>3. CASE trail' = Append(trail, Evolution!Happened("rejected", v))
    <3>1. Told /\ Len(trail') = Len(trail) + 1 /\ trail'[Len(trail) + 1] = Evolution!Happened("rejected", v)
      BY <1>2, <2>1, <2>3, TellOne
    <3> QED BY <2>2, <3>1
  <2>4. CASE trail' = trail \o <<Evolution!Happened("generated", v), Evolution!Happened("rejected", v)>>
    <3>1. Told /\ Len(trail') = Len(trail) + 2 /\ trail'[Len(trail) + 1] = Evolution!Happened("generated", v)
          /\ trail'[Len(trail) + 2] = Evolution!Happened("rejected", v)
      BY <1>2, <2>1, <2>4, TellTwo
    <3> QED BY <2>2, <3>1
  <2> QED BY <2>3, <2>4 DEF Evolution!GeneratorFails, Evolution!PatchIsInvalid
<1>6. TrailHolds' /\ Quiet
  <2>1. ASSUME NEW i \in 1 .. Len(trail'), i > Len(trail)
        PROVE  EventHolds(trail[i])' /\ trail'[i].type \notin Evolution!Turning
    <3>1. PICK type \in {"generated", "rejected"} : trail'[i] = Evolution!Happened(type, v) BY <1>5, <2>1
    <3>2. type \in Evolution!Event /\ type \notin Evolution!Turning
      BY DEF Evolution!Event, Evolution!Turning
    <3> QED BY <1>1, <1>2, <1>4, <3>1, <3>2, CandidateIsTold, HappenedHolds
  <2> QED BY <1>2, <1>3, <1>5, <2>1, TrailGoesOn DEF Quiet
<1>7. Alone(b)
      /\ (batch'[b] # None => BatchHolds(b)' /\ batch'[b].stage = "propose"
                              /\ batch'[b].base = batch[b].base /\ batch'[b].round = batch[b].round + 1)
  BY <1>1, <1>2, <1>3, NextRoundHolds
<1>8. kills' \in 0 .. MaxKills /\ kills <= kills' BY <1>1, <1>2 DEF EvolutionTyped
<1> QED BY <1>1, <1>3, <1>6, <1>7, <1>8, QuietRound, NothingToTell

\* A registered candidate waits for its evaluation.
LEMMA RegisterStep ==
  ASSUME EvolutionInv, Evolution!EvolutionAssumption, NEW b \in Batch, NEW c \in Content,
         Evolution!Register(b, c)
  PROVE  EvolutionInv' /\ Evolution!ActivationIsTold
<1> DEFINE next == [batch[b] EXCEPT !.stage = "evaluate", !.content = c]
<1>1. batch[b] # None /\ batch[b].stage = "propose"
      /\ UNCHANGED <<rows, trail, passed, reran, overlapped, starts, kills, revisions>>
      /\ batch' = [batch EXCEPT ![b] = next]
  BY Zenon DEF Evolution!Register, Evolution!In, Evolution!history, Evolution!table
<1>2. EvolutionTyped /\ RowsHold /\ TrailHolds /\ BatchesHold /\ BatchHolds(b)
  BY <1>1 DEF EvolutionInv, EvolutionTyped, BatchesHold
<1>3. Keeps /\ RowsHold' /\ Evolution!Active' = Evolution!Active /\ Wider BY <1>1, <1>2, SameRows
<1>4. Told /\ Quiet
  <2>1. Told BY <1>1, <1>2 DEF Told, TrailHolds, EventRow
  <2>2. Len(trail') = Len(trail) /\ Len(trail) \in Nat BY <1>1, <1>2 DEF TrailHolds
  <2> QED BY <2>1, <2>2 DEF Quiet
<1>5. TrailHolds' BY <1>1, <1>2 DEF TrailHolds, EventHolds
<1>6. next \in Evolution!Doing /\ next.base = batch[b].base /\ next.round = batch[b].round
      /\ next.stage = "evaluate" /\ next.content = c
  BY <1>2 DEF BatchHolds, Evolution!Doing, Evolution!Stage
<1> HIDE DEF next
<1>7. Alone(b) /\ batch'[b] = next
  BY <1>1, <1>2, <1>6 DEF Alone, BatchesHold
<1>8. BatchHolds(b)' BY <1>1, <1>2, <1>6, <1>7 DEF BatchHolds
<1>9. kills' \in 0 .. MaxKills /\ kills <= kills' BY <1>1, <1>2 DEF EvolutionTyped
<1> QED BY <1>1, <1>3, <1>4, <1>5, <1>6, <1>7, <1>8, <1>9, QuietRound, NothingToTell

\* A batch that is over leaves no regressing candidate active, unless it was killed.
LEMMA BatchStops ==
  ASSUME EvolutionInv, Evolution!EvolutionAssumption, NEW b \in Batch, batch[b] # None,
         batch' = [batch EXCEPT ![b] = None],
         UNCHANGED <<rows, trail, passed, reran, overlapped, starts, revisions>>,
         kills' \in 0 .. MaxKills, kills <= kills',
         ~ overlapped /\ ~ reran /\ kills' = 0 /\ batch[b].stage = "check" =>
           \A v \in Evolution!Active : v = Evolution!Candidate(b) => rows[v].content \notin Regressing
  PROVE  EvolutionInv' /\ Evolution!ActivationIsTold
<1>2. EvolutionTyped /\ RowsHold /\ TrailHolds /\ BatchesHold
  BY DEF EvolutionInv, EvolutionTyped
<1>3. Keeps /\ RowsHold' /\ Evolution!Active' = Evolution!Active /\ Wider BY <1>2, SameRows
<1>4. Told /\ Quiet
  <2>1. Told BY <1>2 DEF Told, TrailHolds, EventRow
  <2>2. Len(trail') = Len(trail) /\ Len(trail) \in Nat BY <1>2 DEF TrailHolds
  <2> QED BY <2>1, <2>2 DEF Quiet
<1>5. TrailHolds' BY <1>2 DEF TrailHolds, EventHolds
<1>6. Alone(b) /\ batch'[b] = None BY <1>2 DEF Alone, BatchesHold
<1> QED BY <1>3, <1>4, <1>5, <1>6, QuietRound, NothingToTell

\* A candidate that has not regressed stays.
LEMMA KeepStep ==
  ASSUME EvolutionInv, Evolution!EvolutionAssumption, NEW b \in Batch, Evolution!Keep(b)
  PROVE  EvolutionInv' /\ Evolution!ActivationIsTold
<1>1. batch[b] # None /\ batch[b].stage = "check" /\ batch[b].content \notin Regressing
      /\ batch' = [batch EXCEPT ![b] = None]
      /\ UNCHANGED <<rows, trail, passed, reran, overlapped, starts, kills, revisions>>
  BY DEF Evolution!Keep, Evolution!In, Evolution!history, Evolution!table
<1>2. kills' \in 0 .. MaxKills /\ kills <= kills' BY <1>1 DEF EvolutionInv, EvolutionTyped
<1>3. ~ overlapped /\ ~ reran => rows[Evolution!Candidate(b)].content = batch[b].content
  BY <1>1 DEF EvolutionInv, Fresh, FreshBatch, CandidateStands
<1> QED BY <1>1, <1>2, <1>3, BatchStops

\* A killed batch is over; a candidate it has promoted stays active.
LEMMA BatchIsKilled ==
  ASSUME EvolutionInv, Evolution!EvolutionAssumption, NEW b \in Batch, Evolution!Kill(b)
  PROVE  EvolutionInv' /\ Evolution!ActivationIsTold
<1>1. batch[b] # None /\ kills < MaxKills /\ kills' = kills + 1
      /\ batch' = [batch EXCEPT ![b] = None]
      /\ UNCHANGED <<rows, trail, passed, reran, overlapped, starts, revisions>>
  BY DEF Evolution!Kill, Evolution!history, Evolution!table
<1>2. kills' \in 0 .. MaxKills /\ kills <= kills' /\ kills' # 0
  BY <1>1 DEF EvolutionInv, EvolutionTyped, Evolution!EvolutionAssumption
<1> QED BY <1>1, <1>2, BatchStops

\* The rejected candidate was not the active version when one batch runs at a time; otherwise
\* it may be, and no version becomes active.
LEMMA RejectStep ==
  ASSUME EvolutionInv, Evolution!EvolutionAssumption, NEW b \in Batch, Evolution!Reject(b)
  PROVE  EvolutionInv' /\ Evolution!ActivationIsTold
<1> DEFINE v == Evolution!Candidate(b)
           c == batch[b].content
<1>1. /\ batch[b] # None /\ batch[b].stage = "evaluate" /\ Evolution!NextRound(b)
      /\ rows' = Evolution!Moved(Evolution!Registered(v, c, batch[b].base), v, "rejected")
      /\ trail' = trail \o <<Evolution!Happened("generated", v), Evolution!Happened("rejected", v)>>
      /\ UNCHANGED <<passed, reran, overlapped, starts, kills, revisions>>
  BY DEF Evolution!Reject, Evolution!In, Evolution!history
<1>2. EvolutionTyped /\ RowsHold /\ TrailHolds /\ BatchHolds(b) /\ c \in Content
  BY <1>1 DEF EvolutionInv, EvolutionTyped, BatchesHold, BatchHolds
<1>3. /\ v \in Seq(Nat) /\ Len(v) # 1 /\ v # batch[b].base /\ batch[b].base \in Seq(Nat)
      /\ Fits(v, c, batch[b].base)
  BY <1>1, <1>2, CandidateFits
<1>4. Grows(v, c, batch[b].base) /\ (\A w \in DOMAIN rows \ {v} : rows'[w] = rows[w])
      /\ rows'[v].status = "rejected"
  BY <1>1, <1>2, <1>3, RejectGrows
<1>5. RowsHold' BY <1>1, <1>2, <1>3, <1>4, RowsGrow
<1>6. Keeps /\ Wider /\ (\A w \in DOMAIN rows' \ DOMAIN rows : w = v)
  BY <1>1, <1>2, <1>4 DEF Grows, Keeps, Wider, RowsHold
<1>7. Evolution!Active' = Evolution!Active \ {v} BY <1>4 DEF Grows, Evolution!Active
<1>8. ~ overlapped => v \notin Evolution!Active
  BY <1>1, <1>3 DEF EvolutionInv, Orderly, OneServes, Serving
<1>9. TrailHolds' /\ Quiet
  <2>1. /\ Evolution!Happened("generated", v) \in EventRow
        /\ Evolution!Happened("rejected", v) \in EventRow
    BY <1>3, HappenedHolds DEF Evolution!Event
  <2>2. Told /\ Len(trail') = Len(trail) + 2 /\ trail'[Len(trail) + 1] = Evolution!Happened("generated", v)
        /\ trail'[Len(trail) + 2] = Evolution!Happened("rejected", v)
    BY <1>1, <1>2, <2>1, TellTwo
  <2>3. Len(trail) \in Nat BY <1>2 DEF TrailHolds
  <2>4. ASSUME NEW i \in 1 .. Len(trail'), i > Len(trail)
        PROVE  EventHolds(trail[i])' /\ trail'[i].type \notin Evolution!Turning
    <3>1. PICK type \in {"generated", "rejected"} : trail'[i] = Evolution!Happened(type, v)
      <4>1. i = Len(trail) + 1 \/ i = Len(trail) + 2 BY <2>2, <2>3, <2>4
      <4> QED BY <2>2, <4>1
    <3>2. type \in Evolution!Event /\ type \notin Evolution!Turning
      BY DEF Evolution!Event, Evolution!Turning
    <3> QED BY <1>1, <1>2, <1>3, <3>1, <3>2, CandidateIsTold, HappenedHolds
  <2> QED BY <1>2, <1>6, <2>2, <2>4, TrailGoesOn DEF Quiet
<1>10. Alone(b)
       /\ (batch'[b] # None => BatchHolds(b)' /\ batch'[b].stage = "propose"
                               /\ batch'[b].base = batch[b].base /\ batch'[b].round = batch[b].round + 1)
  BY <1>1, <1>2, <1>6, NextRoundHolds
<1>11. kills' \in 0 .. MaxKills /\ kills <= kills' BY <1>1, <1>2 DEF EvolutionTyped
<1>12. EvolutionInv'
  <2>1. ~ overlapped => Evolution!Active' = Evolution!Active BY <1>7, <1>8
  <2> HIDE DEF c
  <2> QED BY <1>1, <1>5, <1>6, <1>9, <1>10, <1>11, <2>1, QuietRound
<1> QED BY <1>7, <1>12, NothingToTell

\* A promotion makes the candidate the only active version.
LEMMA PromoteStep ==
  ASSUME EvolutionInv, Evolution!EvolutionAssumption, NEW b \in Batch, Evolution!Promote(b)
  PROVE  EvolutionInv' /\ Evolution!ActivationIsTold
<1> DEFINE v == Evolution!Candidate(b)
           c == batch[b].content
           next == [batch[b] EXCEPT !.stage = "check"]
<1>1. /\ batch[b] # None /\ batch[b].stage = "evaluate"
      /\ rows' = Evolution!Promoted(Evolution!Registered(v, c, batch[b].base), v)
      /\ trail' = trail \o <<Evolution!Happened("generated", v), Evolution!Happened("promoted", v)>>
      /\ passed' = passed \cup {<<v, c>>}
      /\ batch' = [batch EXCEPT ![b] = next]
      /\ UNCHANGED <<reran, overlapped, starts, kills, revisions>>
  BY DEF Evolution!Promote, Evolution!In
<1>2. EvolutionTyped /\ RowsHold /\ TrailHolds /\ BatchesHold /\ BatchHolds(b) /\ c \in Content
  BY <1>1 DEF EvolutionInv, EvolutionTyped, BatchesHold, BatchHolds
<1>3. /\ v \in Seq(Nat) /\ Len(v) # 1 /\ v # batch[b].base /\ batch[b].base \in Seq(Nat)
      /\ batch[b].round \in Nat /\ Fits(v, c, batch[b].base)
  BY <1>1, <1>2, CandidateFits
<1>4. Grows(v, c, batch[b].base) /\ (\A w \in DOMAIN rows' : rows'[w].status = "active" <=> w = v)
  BY <1>1, <1>2, <1>3, PromoteGrows
<1>5. RowsHold' BY <1>1, <1>2, <1>3, <1>4, RowsGrow
<1>6. Keeps /\ Wider /\ DOMAIN rows' = DOMAIN rows \cup {v}
  BY <1>1, <1>2, <1>4 DEF Grows, Keeps, Wider, RowsHold
<1>7. Evolution!Active' = {v} BY <1>4, <1>6 DEF Evolution!Active
<1>8. next \in Evolution!Doing /\ next.base = batch[b].base /\ next.round = batch[b].round
      /\ next.stage = "check" /\ next.content = c
  BY <1>2 DEF BatchHolds, Evolution!Doing, Evolution!Stage
<1> HIDE DEF next
<1>9. Alone(b) /\ batch'[b] = next /\ next # None
  BY <1>1, <1>2, <1>8 DEF Alone, BatchesHold, Evolution!EvolutionAssumption
<1>10. Evolution!Candidate(b)' = v BY <1>8, <1>9 DEF Evolution!Candidate
<1>11. /\ TrailHolds' /\ trail' \in Seq(EventRow) /\ Len(trail') > Len(trail) /\ Len(trail') # 0
       /\ trail'[Len(trail')] = Evolution!Happened("promoted", v)
  <2>1. /\ Evolution!Happened("generated", v) \in EventRow
        /\ Evolution!Happened("promoted", v) \in EventRow
    BY <1>3, HappenedHolds DEF Evolution!Event
  <2>2. Told /\ Len(trail') = Len(trail) + 2 /\ trail'[Len(trail) + 1] = Evolution!Happened("generated", v)
        /\ trail'[Len(trail) + 2] = Evolution!Happened("promoted", v)
    BY <1>1, <1>2, <2>1, TellTwo
  <2>3. Len(trail) \in Nat BY <1>2 DEF TrailHolds
  <2>4. ASSUME NEW i \in 1 .. Len(trail'), i > Len(trail) PROVE EventHolds(trail[i])'
    <3>1. PICK type \in {"generated", "promoted"} : trail'[i] = Evolution!Happened(type, v)
      <4>1. i = Len(trail) + 1 \/ i = Len(trail) + 2 BY <2>2, <2>3, <2>4
      <4> QED BY <2>2, <4>1
    <3>2. type \in Evolution!Event BY DEF Evolution!Event
    <3> QED BY <1>1, <1>2, <1>6, <3>1, <3>2, CandidateIsTold
  <2> QED BY <1>2, <1>6, <2>2, <2>3, <2>4, TrailGoesOn DEF Told
<1>12. EvolutionTyped'
  <2>1. BatchHolds(b)'
    <3>1. next.base \in DOMAIN rows' /\ Len(next.base) <= starts' BY <1>1, <1>2, <1>6, <1>8 DEF BatchHolds
    <3> QED BY <1>2, <1>6, <1>8, <1>9, <1>10, <3>1 DEF BatchHolds
  <2>2. BatchesHold' BY <1>2, <1>6, <1>9, <2>1, BatchGoesOn
  <2> QED BY <1>1, <1>2, <1>5, <1>11, <2>2 DEF EvolutionTyped
<1>13. Marked'
  <2>1. trail'[Len(trail')].type = "promoted" /\ trail'[Len(trail')].version = v
    BY <1>3, <1>11, HappenedHolds DEF Evolution!Event
  <2>2. Evolution!Turned(trail[Len(trail)])' = v BY <2>1 DEF Evolution!Turned
  <2> QED BY <1>7, <1>11, <2>1, <2>2, MarkSet DEF Evolution!Turning
<1>14. \A o \in Batch : batch'[o] # None => batch[o] # None BY <1>1, <1>9 DEF Alone
<1>15. Orderly'
  <2> SUFFICES ASSUME ~ overlapped PROVE OneBatch' /\ OneServes' BY <1>1, <1>13 DEF Orderly
  <2>1. OneBatch' BY <1>14 DEF EvolutionInv, Orderly, OneBatch
  <2>2. \A o \in Batch : batch'[o] # None => o = b BY <1>9, <2>1 DEF OneBatch
  <2>3. Serving(b)' = v BY <1>8, <1>9, <1>10 DEF Serving
  <2> QED BY <1>7, <2>1, <2>2, <2>3 DEF OneServes
<1>16. Fresh'
  <2> SUFFICES ASSUME ~ overlapped, ~ reran
               PROVE  PassedTheGate(v)' /\ FreshBatch(b)' /\ BadIsChecked' /\ OneBatch'
    <3>1. OneBatch' /\ FreshBatch(b)' => \A o \in Batch : batch'[o] # None => FreshBatch(o)'
      BY <1>9 DEF OneBatch
    <3> QED BY <1>1, <1>7, <1>10, <3>1 DEF Fresh
  <2>1. FreshBatch(b) BY <1>1 DEF EvolutionInv, Fresh
  <2>2. v \notin DOMAIN rows
    <3>1. v = Append(batch[b].base, batch[b].round) BY DEF Evolution!Candidate
    <3> QED BY <1>1, <1>3, <2>1, <3>1 DEF FreshBatch, RoundsAreNew
  <2>3. rows'[v].content = c BY <1>4, <2>2 DEF Grows
  <2>4. PassedTheGate(v)' BY <1>1, <1>10, <2>3 DEF PassedTheGate
  <2>5. FreshBatch(b)'
    <3>1. batch[b].base \in DOMAIN rows BY <1>2 DEF BatchHolds
    <3>2. PassedTheGate(batch[b].base)'
      <4>1. batch'[b].base = batch[b].base BY <1>8, <1>9
      <4>2. /\ rows'[batch[b].base].parent = rows[batch[b].base].parent
            /\ rows'[batch[b].base].content = rows[batch[b].base].content
        BY <1>6, <3>1 DEF Keeps
      <4>3. passed \subseteq passed' BY <1>1
      <4> QED BY <2>1, <4>1, <4>2, <4>3 DEF FreshBatch, PassedTheGate
    <3>3. ASSUME NEW r \in Nat, Append(batch[b].base, r) \in DOMAIN rows'
          PROVE  r < batch[b].round \/ r = batch[b].round
      <4>1. CASE Append(batch[b].base, r) \in DOMAIN rows
        BY <1>1, <2>1, <4>1 DEF FreshBatch, RoundsAreNew
      <4>2. CASE Append(batch[b].base, r) = v
        BY <1>3, <4>2, AppendOne DEF Evolution!Candidate
      <4> QED BY <1>6, <3>3, <4>1, <4>2
    <3>4. RoundsAreNew(b)' BY <1>8, <1>9, <3>3 DEF RoundsAreNew
    <3>5. CandidateStands(b)' BY <1>1, <1>8, <1>9, <1>10, <2>3 DEF CandidateStands
    <3>6. kills' = 0 => rows'[batch[b].base].content \notin Regressing
      BY <1>1, <1>6, <2>1, <3>1 DEF FreshBatch, Keeps
    <3> QED BY <1>8, <1>9, <3>2, <3>4, <3>5, <3>6 DEF FreshBatch, PassedTheGate
  <2>6. BadIsChecked' BY <1>7, <1>8, <1>9, <1>10 DEF BadIsChecked, Evolution!In
  <2>7. OneBatch' BY <1>14 DEF EvolutionInv, Orderly, OneBatch
  <2> QED BY <2>4, <2>5, <2>6, <2>7
<1>17. Evolution!ActivationIsTold
  BY <1>7, <1>11 DEF Evolution!ActivationIsTold, Evolution!Last
<1> QED BY <1>12, <1>15, <1>16, <1>17 DEF EvolutionInv

\* A rollback returns to the version that the batch found, or finds that another is active.
LEMMA RollBackStep ==
  ASSUME EvolutionInv, Evolution!EvolutionAssumption, NEW b \in Batch, Evolution!RollBack(b)
  PROVE  EvolutionInv' /\ Evolution!ActivationIsTold
<1> DEFINE v == Evolution!Candidate(b)
           p == batch[b].base
<1>1. /\ batch[b] # None /\ batch[b].stage = "check"
      /\ UNCHANGED <<passed, reran, overlapped, starts, kills, revisions>>
  BY DEF Evolution!RollBack, Evolution!In, Evolution!history
<1>2. EvolutionTyped /\ RowsHold /\ TrailHolds /\ BatchesHold /\ BatchHolds(b) /\ v \in DOMAIN rows
      /\ p \in DOMAIN rows
  BY <1>1 DEF EvolutionInv, EvolutionTyped, BatchesHold, BatchHolds
<1>3. CASE v \notin Evolution!Active
  <2>1. batch' = [batch EXCEPT ![b] = None] /\ UNCHANGED <<rows, trail>>
    BY <1>3 DEF Evolution!RollBack, Evolution!table
  <2>2. kills' \in 0 .. MaxKills /\ kills <= kills' BY <1>1, <1>2 DEF EvolutionTyped
  <2> QED BY <1>1, <1>3, <2>1, <2>2, BatchStops
<1>4. CASE v \in Evolution!Active
  <2>1. /\ rows' = Evolution!RolledBack(v) /\ Evolution!NextRound(b)
        /\ trail' = Append(trail, Evolution!Happened("rolled_back", v))
    BY <1>4 DEF Evolution!RollBack
  <2>2. /\ v \in Seq(Nat) /\ Len(v) # 1 /\ v # p /\ p \in Seq(Nat) /\ batch[b].round \in Nat
        /\ \A c \in Content : Fits(v, c, p)
    BY <1>1, <1>2, CandidateFits
  <2>3. rows[v].parent = p
    BY <1>2, <2>2, ParentFits DEF Evolution!Candidate
  <2>4. rows[v].content \in Content BY <1>2 DEF RowsHold, RowHolds
  <2>5. /\ Grows(v, rows[v].content, p) /\ (\A w \in DOMAIN rows \ {v, p} : rows'[w] = rows[w])
        /\ rows'[v].status = "rolled_back" /\ rows'[p].status = "active"
    BY <1>2, <2>1, <2>2, <2>3, RollbackGrows
  <2>6. RowsHold' BY <1>1, <1>2, <2>2, <2>4, <2>5, RowsGrow
  <2>7. Keeps /\ Wider /\ DOMAIN rows' = DOMAIN rows
    BY <1>1, <1>2, <2>5 DEF Grows, Keeps, Wider, RowsHold
  <2>8. Evolution!Active' = (Evolution!Active \ {v}) \cup {p}
    BY <1>2, <2>2, <2>5, <2>7 DEF Evolution!Active
  <2>9. /\ TrailHolds' /\ trail' \in Seq(EventRow) /\ Len(trail') > Len(trail) /\ Len(trail') # 0
        /\ trail'[Len(trail')] = Evolution!Happened("rolled_back", v)
    <3>1. Evolution!Happened("rolled_back", v) \in EventRow
      BY <2>2, HappenedHolds DEF Evolution!Event
    <3>2. Told /\ Len(trail') = Len(trail) + 1 /\ trail'[Len(trail) + 1] = Evolution!Happened("rolled_back", v)
      BY <1>2, <2>1, <3>1, TellOne
    <3>3. Len(trail) \in Nat BY <1>2 DEF TrailHolds
    <3>4. ASSUME NEW i \in 1 .. Len(trail'), i > Len(trail) PROVE EventHolds(trail[i])'
      <4>1. i = Len(trail) + 1 BY <3>2, <3>3, <3>4
      <4>2. "rolled_back" \in Evolution!Event BY DEF Evolution!Event
      <4> QED BY <1>1, <1>2, <2>7, <3>2, <4>1, <4>2, CandidateIsTold
    <3> QED BY <1>2, <2>7, <3>2, <3>3, <3>4, TrailGoesOn DEF Told
  <2>10. Alone(b)
         /\ (batch'[b] # None => BatchHolds(b)' /\ batch'[b].stage = "propose"
                                 /\ batch'[b].base = p /\ batch'[b].round = batch[b].round + 1)
    BY <1>1, <1>2, <2>1, <2>7, NextRoundHolds
  <2>11. EvolutionTyped'
    <3>1. BatchesHold' BY <1>2, <2>7, <2>10, BatchGoesOn
    <3> QED BY <1>1, <1>2, <2>6, <2>9, <3>1 DEF EvolutionTyped
  <2>12. trail'[Len(trail')].type = "rolled_back" /\ trail'[Len(trail')].version = v
    BY <2>2, <2>9, HappenedHolds DEF Evolution!Event
  <2>13. rows'[v].parent = p BY <1>2, <2>3, <2>7 DEF Keeps
  <2>14. ~ overlapped => Evolution!Active' = {p}
    BY <1>4, <2>8 DEF EvolutionInv, Orderly, Marked
  <2>15. \A o \in Batch : batch'[o] # None => batch[o] # None BY <1>1, <2>10 DEF Alone
  <2>16. Orderly'
    <3> SUFFICES ASSUME ~ overlapped PROVE OneBatch' /\ Marked' /\ OneServes' BY <1>1 DEF Orderly
    <3>1. OneBatch' BY <2>15 DEF EvolutionInv, Orderly, OneBatch
    <3>2. Marked'
      <4>1. Evolution!Turned(trail[Len(trail)])' = p BY <2>12, <2>13 DEF Evolution!Turned
      <4> QED BY <2>9, <2>12, <2>14, <4>1, MarkSet DEF Evolution!Turning
    <3>3. \A o \in Batch : batch'[o] # None => o = b BY <1>1, <2>15 DEF EvolutionInv, Orderly, OneBatch
    <3>4. batch'[b] # None => Serving(b)' = p BY <2>10 DEF Serving
    <3> QED BY <2>14, <3>1, <3>2, <3>3, <3>4 DEF OneServes
  <2>17. Fresh'
    <3> SUFFICES ASSUME ~ overlapped, ~ reran
                 PROVE  /\ rows'[p].parent # None => <<p, rows'[p].content>> \in passed'
                        /\ batch'[b] # None => FreshBatch(b)'
                        /\ kills' = 0 => rows'[p].content \notin Regressing
      <4>1. ~ overlapped => \A o \in Batch : batch'[o] # None => o = b
        BY <1>1, <2>15 DEF EvolutionInv, Orderly, OneBatch
      <4> QED BY <1>1, <2>14, <4>1 DEF Fresh, PassedTheGate, BadIsChecked
    <3>1. FreshBatch(b) BY <1>1 DEF EvolutionInv, Fresh
    <3>2. rows'[p].parent # None => <<p, rows'[p].content>> \in passed'
      BY <1>1, <1>2, <2>7, <3>1 DEF FreshBatch, PassedTheGate, Keeps
    <3>3. kills' = 0 => rows'[p].content \notin Regressing
      BY <1>1, <1>2, <2>7, <3>1 DEF FreshBatch, Keeps
    <3>4. ASSUME batch'[b] # None PROVE FreshBatch(b)'
      <4>1. RoundsAreNew(b)'
        <5>1. batch'[b].base = p /\ batch'[b].round = batch[b].round + 1 BY <2>10, <3>4
        <5>2. \A r \in Nat : Append(p, r) \in DOMAIN rows => r < batch[b].round + 1
          BY <1>1, <2>2, <3>1 DEF FreshBatch, RoundsAreNew
        <5> QED BY <2>7, <5>1, <5>2 DEF RoundsAreNew
      <4>2. CandidateStands(b)' BY <2>10, <3>4 DEF CandidateStands
      <4>3. PassedTheGate(batch[b].base)' BY <2>10, <3>2, <3>4 DEF PassedTheGate
      <4> QED BY <2>10, <3>3, <3>4, <4>1, <4>2, <4>3 DEF FreshBatch
    <3> QED BY <3>2, <3>3, <3>4
  <2>18. Evolution!ActivationIsTold
    BY <2>3, <2>8, <2>9, <2>12 DEF Evolution!ActivationIsTold, Evolution!Last
  <2> QED BY <2>11, <2>16, <2>17, <2>18 DEF EvolutionInv
<1> QED BY <1>3, <1>4

\* A batch that is loaded finds the active version.
LEMMA LoadStep ==
  ASSUME EvolutionInv, Evolution!EvolutionAssumption, NEW b \in Batch, Evolution!Load(b)
  PROVE  EvolutionInv' /\ Evolution!ActivationIsTold
<1>1. PICK v \in Evolution!Active :
        /\ batch[b] = None /\ starts < MaxBatches
        /\ batch' = [batch EXCEPT ![b] = [base |-> v, round |-> 1, stage |-> "propose", content |-> None]]
        /\ starts' = starts + 1
        /\ reran' = (reran \/ Evolution!Child(v) # {})
        /\ overlapped' = (overlapped \/ \E o \in Batch : batch[o] # None)
        /\ UNCHANGED <<rows, trail, passed, kills, revisions>>
  BY DEF Evolution!Load, Evolution!table
<1> DEFINE next == [base |-> v, round |-> 1, stage |-> "propose", content |-> None]
<1>2. EvolutionTyped /\ RowsHold /\ TrailHolds /\ BatchesHold /\ starts \in Nat
  BY DEF EvolutionInv, EvolutionTyped, RowsHold
<1>3. v \in DOMAIN rows /\ v \in Seq(Nat) /\ Len(v) \in 1 .. starts + 1
  BY <1>2 DEF Evolution!Active, RowsHold, RowHolds
<1>4. RowsHold' /\ Evolution!Active' = Evolution!Active /\ Wider /\ Keeps
  <2>1. ASSUME NEW w \in DOMAIN rows PROVE RowHolds(w)'
    <3>1. RowHolds(w) /\ Len(w) \in Nat BY <1>2 DEF RowsHold, RowHolds
    <3> QED BY <1>1, <1>2, <3>1 DEF RowHolds
  <2> QED BY <1>1, <1>2, <2>1 DEF RowsHold, Evolution!Active, Wider, Keeps
<1>5. next \in Evolution!Doing /\ next.base = v /\ next.round = 1 /\ next.stage = "propose"
  BY <1>3 DEF Evolution!Doing, Evolution!Stage, Evolution!EvolutionAssumption
<1>6. batch' = [batch EXCEPT ![b] = next] BY <1>1
<1> HIDE DEF next
<1>7. Alone(b) /\ batch'[b] = next /\ next # None
  BY <1>2, <1>5, <1>6 DEF Alone, BatchesHold, Evolution!EvolutionAssumption
<1>8. EvolutionTyped'
  <2>1. BatchHolds(b)' BY <1>1, <1>2, <1>3, <1>5, <1>7 DEF BatchHolds
  <2>2. BatchesHold' BY <1>2, <1>4, <1>7, <2>1, BatchGoesOn
  <2>3. TrailHolds'
    <3>1. Told /\ Len(trail') = Len(trail) BY <1>1, <1>2 DEF Told, TrailHolds, EventRow
    <3>2. Len(trail) \in Nat BY <1>2 DEF TrailHolds
    <3> QED BY <1>2, <1>4, <3>1, <3>2, TrailGoesOn
  <2> QED BY <1>1, <1>2, <1>4, <2>2, <2>3 DEF EvolutionTyped, Evolution!EvolutionAssumption
<1>9. Orderly'
  <2> SUFFICES ASSUME ~ overlapped' PROVE OneBatch' /\ Marked' /\ OneServes' BY DEF Orderly
  <2>1. ~ overlapped /\ \A o \in Batch : batch[o] = None BY <1>1
  <2>2. \A o \in Batch : batch'[o] # None => o = b BY <1>7, <2>1 DEF Alone
  <2>3. Marked' BY <1>1, <1>4, <2>1 DEF EvolutionInv, Orderly, Marked, Evolution!Turned
  <2>4. Evolution!Active = {v} BY <1>1, <2>1 DEF EvolutionInv, Orderly, Marked
  <2>5. Serving(b)' = v BY <1>5, <1>7 DEF Serving
  <2> QED BY <1>4, <2>2, <2>3, <2>4, <2>5 DEF OneBatch, OneServes
<1>10. Fresh'
  <2> SUFFICES ASSUME ~ overlapped', ~ reran'
               PROVE  /\ \A w \in Evolution!Active' : PassedTheGate(w)'
                      /\ \A o \in Batch : batch'[o] # None => FreshBatch(o)'
                      /\ BadIsChecked'
    BY DEF Fresh
  <2>1. ~ overlapped /\ ~ reran /\ Evolution!Child(v) = {} /\ \A o \in Batch : batch[o] = None BY <1>1
  <2>2. (\A w \in Evolution!Active : PassedTheGate(w)) /\ BadIsChecked BY <2>1 DEF EvolutionInv, Fresh
  <2>3. kills = 0 => \A w \in Evolution!Active : rows[w].content \notin Regressing
    BY <2>1, <2>2 DEF BadIsChecked, Evolution!In
  <2>4. FreshBatch(b)'
    <3>1. ASSUME NEW r \in Nat, Append(v, r) \in DOMAIN rows PROVE FALSE
      <4>1. rows[Append(v, r)].parent = v BY <1>2, <1>3, <3>1, ParentFits
      <4> QED BY <2>1, <3>1, <4>1 DEF Evolution!Child
    <3>2. RoundsAreNew(b)' BY <1>1, <1>5, <1>7, <3>1 DEF RoundsAreNew
    <3>3. CandidateStands(b)' BY <1>5, <1>7 DEF CandidateStands
    <3> QED BY <1>1, <1>5, <1>7, <2>2, <2>3, <3>2, <3>3 DEF FreshBatch, PassedTheGate
  <2>5. \A o \in Batch : batch'[o] # None => o = b BY <1>7, <2>1 DEF Alone
  <2> QED BY <1>1, <1>4, <2>2, <2>3, <2>4, <2>5 DEF PassedTheGate, BadIsChecked
<1> QED BY <1>4, <1>8, <1>9, <1>10, NothingToTell DEF EvolutionInv

\* A revision makes a reviewed version of the files the active one, whatever a batch does.
LEMMA ReviseStep ==
  ASSUME EvolutionInv, Evolution!EvolutionAssumption,
         NEW k \in 0 .. MaxRevisions, NEW c \in Content \ Regressing, Evolution!Revise(k, c)
  PROVE  EvolutionInv' /\ Evolution!ActivationIsTold
<1> DEFINE v == <<k>>
<1>1. /\ revisions < MaxRevisions /\ revisions' = revisions + 1
      /\ rows' = Evolution!Promoted(Evolution!Registered(v, c, None), v)
      /\ trail' = Append(trail, Evolution!Happened("promoted", v))
      /\ UNCHANGED <<batch, passed, reran, overlapped, starts, kills>>
  BY DEF Evolution!Revise, Evolution!history
<1>2. EvolutionTyped /\ RowsHold /\ TrailHolds /\ BatchesHold /\ starts \in Nat /\ k \in Nat /\ c \in Content
  BY DEF EvolutionInv, EvolutionTyped, RowsHold, Evolution!EvolutionAssumption
<1>3. v \in Seq(Nat) /\ Len(v) = 1 /\ Fits(v, c, None) BY <1>2 DEF Fits
<1> HIDE DEF v
<1>4. Grows(v, c, None) /\ (\A w \in DOMAIN rows' : rows'[w].status = "active" <=> w = v)
  BY <1>1, <1>2, PromoteGrows
<1>5. RowsHold' BY <1>1, <1>2, <1>3, <1>4, RowsGrow
<1>6. Keeps /\ Wider /\ DOMAIN rows' = DOMAIN rows \cup {v}
  BY <1>1, <1>2, <1>4 DEF Grows, Keeps, Wider
<1>7. Evolution!Active' = {v} BY <1>4, <1>6 DEF Evolution!Active
<1>8. rows'[v].parent = None /\ rows'[v].content \notin Regressing
  BY <1>3, <1>5, <1>6 DEF RowsHold, RowHolds
<1>9. /\ TrailHolds' /\ trail' \in Seq(EventRow) /\ Len(trail') > Len(trail) /\ Len(trail') # 0
      /\ trail'[Len(trail')] = Evolution!Happened("promoted", v)
  <2>1. Evolution!Happened("promoted", v) \in EventRow
    BY <1>3, HappenedHolds DEF Evolution!Event
  <2>2. Told /\ Len(trail') = Len(trail) + 1 /\ trail'[Len(trail) + 1] = Evolution!Happened("promoted", v)
    BY <1>1, <1>2, <2>1, TellOne
  <2>3. Len(trail) \in Nat BY <1>2 DEF TrailHolds
  <2>4. ASSUME NEW i \in 1 .. Len(trail'), i > Len(trail) PROVE EventHolds(trail[i])'
    <3>1. i = Len(trail) + 1 BY <2>2, <2>3, <2>4
    <3>2. trail'[i].type \in Evolution!Event /\ trail'[i].version = v
      BY <1>3, <2>2, <3>1, HappenedHolds DEF Evolution!Event
    <3>3. starts' = starts /\ v \in DOMAIN rows' /\ Len(v) \in 1 .. starts + 1 BY <1>1, <1>2, <1>3, <1>6
    <3> QED BY <1>3, <3>2, <3>3 DEF EventHolds
  <2> QED BY <1>2, <1>6, <2>2, <2>3, <2>4, TrailGoesOn DEF Told
<1>10. EvolutionTyped'
  <2>1. ASSUME NEW b \in Batch, batch'[b] # None PROVE BatchHolds(b)'
    BY <1>1, <1>2, <1>6, <2>1 DEF BatchesHold, BatchHolds, Keeps, Evolution!Candidate
  <2>2. BatchesHold' BY <1>1, <1>2, <2>1 DEF BatchesHold
  <2> QED BY <1>1, <1>2, <1>5, <1>9, <2>2 DEF EvolutionTyped, Evolution!EvolutionAssumption
<1>11. Marked'
  <2>1. trail'[Len(trail')].type = "promoted" /\ trail'[Len(trail')].version = v
    BY <1>3, <1>9, HappenedHolds DEF Evolution!Event
  <2>2. Evolution!Turned(trail[Len(trail)])' = v BY <2>1 DEF Evolution!Turned
  <2> QED BY <1>7, <1>9, <2>1, <2>2, MarkSet DEF Evolution!Turning
<1>12. Orderly' BY <1>1, <1>3, <1>7, <1>11 DEF EvolutionInv, Orderly, OneBatch, OneServes
<1>13. Fresh'
  <2> SUFFICES ASSUME ~ overlapped, ~ reran, NEW b \in Batch, batch[b] # None PROVE FreshBatch(b)'
    BY <1>1, <1>7, <1>8 DEF Fresh, PassedTheGate, BadIsChecked
  <2>1. FreshBatch(b) BY DEF EvolutionInv, Fresh
  <2>2. BatchHolds(b) /\ batch[b].base \in DOMAIN rows BY <1>2 DEF BatchesHold, BatchHolds
  <2>3. PassedTheGate(batch[b].base)' BY <1>1, <1>6, <2>1, <2>2 DEF FreshBatch, PassedTheGate, Keeps
  <2>4. RoundsAreNew(b)'
    <3>1. ASSUME NEW r \in Nat PROVE Append(batch[b].base, r) # v
      <4>1. batch[b].base \in Seq(Nat) /\ Len(batch[b].base) >= 1
        BY <1>2, <2>2 DEF RowsHold, RowHolds
      <4>2. Len(Append(batch[b].base, r)) = Len(batch[b].base) + 1 /\ Len(batch[b].base) \in Nat
        BY <4>1
      <4>3. Len(Append(batch[b].base, r)) # 1 BY <4>1, <4>2
      <4> QED BY <1>3, <4>3
    <3> QED BY <1>1, <1>6, <2>1, <3>1 DEF FreshBatch, RoundsAreNew
  <2>5. CandidateStands(b)'
    BY <1>1, <1>6, <2>1, <2>2 DEF FreshBatch, CandidateStands, BatchHolds, Keeps, Evolution!Candidate
  <2>6. kills' = 0 => rows'[batch'[b].base].content \notin Regressing
    BY <1>1, <1>6, <2>1, <2>2 DEF FreshBatch, Keeps
  <2> QED BY <2>3, <2>4, <2>5, <2>6 DEF FreshBatch
<1>14. Evolution!ActivationIsTold
  BY <1>7, <1>9 DEF Evolution!ActivationIsTold, Evolution!Last
<1> QED BY <1>10, <1>12, <1>13, <1>14 DEF EvolutionInv

\* The files' version, before the first batch.
LEMMA EvolutionInit ==
  ASSUME Evolution!Init, Evolution!EvolutionAssumption PROVE EvolutionInv
<1>1. PICK c \in Content \ Regressing :
        rows = [w \in {<<0>>} |-> [status |-> "active", parent |-> None, content |-> c]]
  BY DEF Evolution!Init
<1>2. /\ trail = <<Evolution!Happened("promoted", <<0>>)>>
      /\ batch = [b \in Batch |-> None] /\ passed = {} /\ reran = FALSE /\ overlapped = FALSE
      /\ starts = 0 /\ kills = 0 /\ revisions = 0
  BY DEF Evolution!Init
<1> DEFINE z == <<0>>
<1>3. rows = [w \in {z} |-> [status |-> "active", parent |-> None, content |-> c]]
  BY <1>1
<1>4. z \in Seq(Nat) /\ Len(z) = 1 OBVIOUS
<1>5. trail = <<Evolution!Happened("promoted", z)>> BY <1>2
<1> HIDE DEF z
<1>6. DOMAIN rows = {z} /\ rows[z] = [status |-> "active", parent |-> None, content |-> c] BY <1>3
<1>7. RowsHold BY <1>2, <1>3, <1>4, <1>6 DEF RowsHold, RowHolds, Evolution!Status
<1>8. /\ Evolution!Happened("promoted", z) \in EventRow /\ Evolution!Happened("promoted", z).type = "promoted"
      /\ Evolution!Happened("promoted", z).version = z
  BY <1>4, HappenedHolds DEF Evolution!Event
<1>9. trail \in Seq(EventRow) /\ Len(trail) = 1 /\ DOMAIN trail = {1} /\ trail[1] = Evolution!Happened("promoted", z)
  BY <1>5, <1>8
<1>10. EventHolds(trail[1]) BY <1>2, <1>4, <1>6, <1>8, <1>9 DEF EventHolds, Evolution!Event
<1>11. TrailHolds BY <1>9, <1>10 DEF TrailHolds, EventRow
<1>12. \A b \in Batch : batch[b] = None BY <1>2
<1>13. EvolutionTyped
  BY <1>2, <1>7, <1>11, <1>12 DEF EvolutionTyped, BatchesHold, Evolution!EvolutionAssumption
<1>14. Evolution!Active = {z} BY <1>6 DEF Evolution!Active
<1>15. Marked
  <2>1. Evolution!Turned(trail[1]) = z BY <1>8, <1>9 DEF Evolution!Turned
  <2>2. 1 + 1 .. Len(trail) = {} BY <1>9
  <2>3. trail[1].type \in Evolution!Turning BY <1>8, <1>9 DEF Evolution!Turning
  <2> QED BY <1>9, <1>14, <2>1, <2>2, <2>3 DEF Marked
<1>16. Orderly BY <1>12, <1>15 DEF Orderly, OneBatch, OneServes
<1>17. Fresh BY <1>6, <1>12, <1>14 DEF Fresh, PassedTheGate, BadIsChecked
<1> QED BY <1>13, <1>16, <1>17 DEF EvolutionInv

\* Every step of the evolution keeps the invariant and tells what it makes active.
LEMMA EvolutionStep ==
  ASSUME EvolutionInv, Evolution!EvolutionAssumption, Evolution!Next
  PROVE  EvolutionInv' /\ Evolution!ActivationIsTold
<1>1. ASSUME NEW b \in Batch, Evolution!Moves(b) PROVE EvolutionInv' /\ Evolution!ActivationIsTold
  BY <1>1, ProposalFails, RegisterStep, RejectStep, PromoteStep, KeepStep, RollBackStep DEF Evolution!Moves
<1> QED BY <1>1, LoadStep, BatchIsKilled, ReviseStep DEF Evolution!Next

\* The steps of the other scenarios leave the evolution alone.
LEMMA EvolutionStays ==
  ASSUME EvolutionInv, UNCHANGED evolution
  PROVE  EvolutionInv'
<1> USE DEF evolution
<1>1. RowsHold' /\ TrailHolds' /\ BatchesHold'
  BY DEF EvolutionInv, EvolutionTyped, RowsHold, RowHolds, TrailHolds, EventHolds, BatchesHold,
         BatchHolds, Evolution!Candidate
<1>2. EvolutionTyped' BY <1>1 DEF EvolutionInv, EvolutionTyped
<1>3. Orderly'
  BY DEF EvolutionInv, Orderly, OneBatch, Marked, OneServes, Serving, Evolution!Candidate,
         Evolution!Active, Evolution!Turned
<1>4. Fresh'
  BY DEF EvolutionInv, Fresh, FreshBatch, PassedTheGate, RoundsAreNew, CandidateStands, BadIsChecked,
         Evolution!Candidate, Evolution!Active, Evolution!In
<1> QED BY <1>2, <1>3, <1>4 DEF EvolutionInv

\* The invariant gives what the run checks of the evolution.
LEMMA EvolutionHoldsAll ==
  ASSUME EvolutionInv, Evolution!EvolutionAssumption
  PROVE  /\ Evolution!TypeOK /\ Evolution!AlwaysOneActive /\ Evolution!ActiveFollowsTrail
         /\ Evolution!ActiveIsWhatPassed /\ Evolution!BadIsBeingRolledBack
<1>1. Evolution!TypeOK
  <2>1. ASSUME NEW v \in DOMAIN rows
        PROVE  /\ Evolution!IsVersion(v) /\ rows[v].status \in Evolution!Status /\ rows[v].content \in Content
               /\ rows[v].parent \in DOMAIN rows \cup {None}
    <3>1. RowHolds(v) /\ starts \in Nat /\ starts <= MaxBatches /\ Len(v) \in Nat
      BY <2>1 DEF EvolutionInv, EvolutionTyped, RowsHold, RowHolds
    <3> QED BY <3>1 DEF RowHolds, Evolution!Status, Evolution!IsVersion, Evolution!EvolutionAssumption
  <2>2. ASSUME NEW i \in DOMAIN trail
        PROVE  trail[i].type \in Evolution!Event /\ Evolution!IsVersion(trail[i].version)
    <3>1. i \in 1 .. Len(trail) BY <2>2 DEF EvolutionInv, EvolutionTyped, TrailHolds
    <3>2. EventHolds(trail[i]) /\ starts \in Nat /\ starts <= MaxBatches
      BY <3>1 DEF EvolutionInv, EvolutionTyped, TrailHolds, RowsHold
    <3>3. Len(trail[i].version) \in Nat BY <3>2 DEF EventHolds
    <3> QED BY <3>2, <3>3 DEF EventHolds, Evolution!IsVersion, Evolution!EvolutionAssumption
  <2> QED BY <2>1, <2>2
          DEF EvolutionInv, EvolutionTyped, RowsHold, BatchesHold, BatchHolds, Evolution!TypeOK,
              Evolution!EvolutionAssumption
<1>2. Evolution!ActiveFollowsTrail BY DEF EvolutionInv, Orderly, Marked, Evolution!ActiveFollowsTrail
<1>3. Evolution!AlwaysOneActive
  <2>1. ASSUME ~ overlapped PROVE Evolution!Cardinality(Evolution!Active) = 1
    <3>1. PICK x : Evolution!Active = {x} BY <2>1 DEF EvolutionInv, Orderly, Marked
    <3>2. Cardinality({x}) = 1 BY FS_Singleton
    <3> QED BY <3>1, <3>2, Zenon DEF Evolution!Cardinality, Cardinality
  <2> QED BY <2>1 DEF Evolution!AlwaysOneActive
<1>4. Evolution!ActiveIsWhatPassed BY DEF EvolutionInv, Fresh, PassedTheGate, Evolution!ActiveIsWhatPassed
<1>5. Evolution!BadIsBeingRolledBack BY DEF EvolutionInv, Fresh, BadIsChecked, Evolution!BadIsBeingRolledBack
<1> QED BY <1>1, <1>2, <1>3, <1>4, <1>5

\* The invariant along the scenarios of the run.
LEMMA EvolutionInScenario ==
  ASSUME In("evolution") => EvolutionInv, [MCNext]_<<vars, evolution, tools, pc, stream, scenario>>
  PROVE  /\ (In("evolution") => EvolutionInv)'
         /\ In("evolution") => Evolution!ActivationIsTold
<1>1. In("evolution")' => In("evolution") /\ (Evolution!Next \/ UNCHANGED evolution)
  BY DEF MCNext, In, vars
<1>2. In("evolution") /\ ~ Evolution!Next => UNCHANGED evolution BY DEF MCNext, In, vars
<1>3. Evolution!EvolutionAssumption BY AgentAssumption
<1>4. UNCHANGED evolution => Evolution!Active' = Evolution!Active BY DEF evolution, Evolution!Active
<1> QED BY <1>1, <1>2, <1>3, <1>4, EvolutionStep, EvolutionStays, NothingToTell

\* ActiveSkillIsSound of the `agent` run, for any batches, contracts, rounds, kills and revisions:
\* while no two batches are alive at once one version is active, the one the events tell; while no
\* batch starts from a version that has candidates it is as it passed the gate, and without kills a
\* regressing one is being checked (EvolutionEngine.run, promote_skill, rollback_skill).
THEOREM SkillStaysSound == MCSpec => []ActiveSkillIsSound
<1> DEFINE I == In("evolution") => EvolutionInv
<1>1. MCInit => I BY EvolutionInit, AgentAssumption DEF MCInit, In
<1>2. I /\ [MCNext]_<<vars, evolution, tools, pc, stream, scenario>> => I' BY EvolutionInScenario
<1>3. I => ActiveSkillIsSound BY EvolutionHoldsAll, AgentAssumption DEF ActiveSkillIsSound
<1> HIDE DEF I
<1> QED BY <1>1, <1>2, <1>3, PTL DEF MCSpec

\* ActivationIsAnEvent of the `agent` run, for any batches, overlapping or killed: a version becomes
\* active only in the commit of its promotion or of a child's rollback (promote_skill,
\* rollback_skill).
THEOREM ActivationsAreTold == MCSpec => ActivationIsAnEvent
<1> DEFINE I == In("evolution") => EvolutionInv
<1>1. MCInit => I BY EvolutionInit, AgentAssumption DEF MCInit, In
<1>2. I /\ [MCNext]_<<vars, evolution, tools, pc, stream, scenario>>
        => I' /\ [In("evolution") => Evolution!ActivationIsTold]_<<rows, trail>>
  BY EvolutionInScenario
<1> HIDE DEF I
<1> QED BY <1>1, <1>2, PTL DEF MCSpec, ActivationIsAnEvent
=============================================================================
