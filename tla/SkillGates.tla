------------------------------ MODULE SkillGates ------------------------------
(* The gates a skill passes: the patch of a candidate and the validation of  *)
(* its contract (app/skills/evolution.py, models.py), the paired numbers     *)
(* that promote it and roll it back, and, when it is in use, its selection,  *)
(* compilation and verification (selector.py, compiler.py, verifier.py).     *)
(* SkillEvolution has the batch around them and its transactions.  The       *)
(* memory types and completion criteria of a contract, which nothing reads   *)
(* after their form is validated, are left out; and indices are positive: a  *)
(* negative one counts the same positions from the end.                      *)
EXTENDS Integers, Sequences, FiniteSets, Folds, Functions

CONSTANTS
  Initial,    \* the contract of the files
  Operation,  \* operations a generator may put in a patch
  Number,     \* paired numbers an evaluation may come to
  Query,      \* questions: their words, their intent and how many dates they name
  Rival,      \* the metadata of another ready skill
  MaxOps,     \* operations of one patch
  MaxPromotions,
  None

VARIABLES
  active,      \* the contract in force
  parent,      \* the one its promotion replaced
  draft,       \* the candidate: its contract, operations so far and stage
  installed,   \* history: the numbers active was promoted for
  promotions,
  run          \* a question at the skill: its stage, plan and results

gvars == <<active, parent, draft, installed, promotions, run>>

Actions == {"metric", "attribution", "strategy"}
Policies == {"stop", "replan_once"}
Roots == {"description", "preconditions", "steps", "evidence_contract", "failure_policy"}

-----------------------------------------------------------------------------
(* The contract and its patch                                               *)

Ids(steps) == {steps[i].id : i \in DOMAIN steps}

\* What is fixed in a contract and no operation may reach.
Frozen(c) == [id |-> c.id, tools |-> c.tools, types |-> c.types]

ActionsAllowed(c) == \A i \in DOMAIN c.steps : c.steps[i].action \in c.tools

Valid(c) ==
  /\ c.description # {}
  /\ Len(c.steps) \in 1 .. 3
  /\ Cardinality(Ids(c.steps)) = Len(c.steps)
  /\ c.tools \subseteq Actions
  /\ ActionsAllowed(c)
  /\ c.policy \in Policies
  /\ \A i \in DOMAIN c.rules : c.rules[i] \in Ids(c.steps)

Permitted(o) == o.op \in {"add", "replace", "remove"} /\ o.root \in Roots

\* list.insert takes any index; pop and an assignment raise for one that is not there.
Inserted(list, i, x) ==
  LET at == IF i > Len(list) THEN Len(list) + 1 ELSE i
  IN  SubSeq(list, 1, at - 1) \o <<x>> \o SubSeq(list, at, Len(list))
Removed(list, i) == SubSeq(list, 1, i - 1) \o SubSeq(list, i + 1, Len(list))

Edited(list, o) ==
  CASE o.op = "add" -> Inserted(list, o.at, o.value)
    [] o.op = "remove" -> Removed(list, o.at)
    [] OTHER -> [list EXCEPT ![o.at] = o.value]

\* An index that is not there is an IndexError, which ends the batch.
Applies(c, o) ==
  /\ o.root = "steps" /\ o.op # "add" => o.at \in DOMAIN c.steps
  /\ o.root = "evidence_contract" /\ o.op # "add" => o.at \in DOMAIN c.rules

Patched(c, o) ==
  CASE o.root = "description" -> [c EXCEPT !.description = o.value]
    [] o.root = "preconditions" -> [c EXCEPT !.dates = o.value]
    [] o.root = "failure_policy" -> [c EXCEPT !.policy = o.value]
    [] o.root = "steps" -> [c EXCEPT !.steps = Edited(c.steps, o)]
    [] OTHER -> [c EXCEPT !.rules = Edited(c.rules, o)]

-----------------------------------------------------------------------------
(* The numbers: n pairs, won by the candidate alone or lost by it alone      *)

Delta(m) == m.won - m.lost

\* Choose(n)[k] of Pascal's triangle.
Choose[n \in Nat] ==
  IF n = 0 THEN [k \in {0} |-> 1]
  ELSE [k \in 0 .. n |-> IF k \in {0, n} THEN 1 ELSE Choose[n - 1][k - 1] + Choose[n - 1][k]]

\* 2 * sum(comb(d, 0 .. min)) / 2^d <= 0.05 over the d discordant pairs.
Significant(m) ==
  LET d == m.won + m.lost
      least == IF m.won < m.lost THEN m.won ELSE m.lost
  IN  d > 0 /\ 40 * FoldFunctionOnSet(+, 0, Choose[d], 0 .. least) <= 2 ^ d

\* delta >= 0.08 with an exact McNemar p of at most 0.05.
Quality(m) == 25 * Delta(m) >= 2 * m.n /\ Significant(m)

\* The lower end of the 95% interval, mean - 1.96 * sqrt(variance / n), is at least
\* -0.02; a single pair has no margin.
CiHolds(m) ==
  LET shifted == 50 * Delta(m) + m.n
  IN  /\ shifted >= 0
      /\ m.n > 1 => shifted * shifted * (m.n - 1)
                      >= 9604 * (m.n * (m.won + m.lost) - Delta(m) * Delta(m))

\* 1 - candidate / active >= 0.15 of the means; nothing is saved of nothing.
Saves(cost) == cost.active > 0 /\ 20 * cost.candidate <= 17 * cost.active

\* Mutant: what saves enough is promoted whatever its successes.
EfficientAnyhow(m) == \E label \in DOMAIN m.costs : Saves(m.costs[label])

Efficient(m) == CiHolds(m) /\ \E label \in DOMAIN m.costs : Saves(m.costs[label])

\* Fidelity and staleness as their change from the active version.
HardFailure(m) == m.violations > 0 \/ m.leaks > 0 \/ m.fidelity < 0 \/ m.stale > 0

Promotes(m) == ~ HardFailure(m) /\ (Quality(m) \/ Efficient(m))

\* success_delta < -0.02
RollsBack(m) ==
  \/ 50 * Delta(m) < - m.n
  \/ m.violations > 0 \/ m.fidelity < 0 \/ m.leaks > 0 \/ m.stale > 0

-----------------------------------------------------------------------------
(* A batch's candidate                                                      *)

Drafting(stage) == draft # None /\ draft.stage = stage

Propose ==
  /\ draft = None /\ promotions < MaxPromotions
  /\ draft' = [contract |-> active, ops |-> 0, stage |-> "patch"]
  /\ UNCHANGED <<active, parent, installed, promotions, run>>

PatchCandidate(o) ==
  /\ Drafting("patch") /\ draft.ops < MaxOps
  /\ draft' = IF Permitted(o) /\ Applies(draft.contract, o)
              THEN [draft EXCEPT !.contract = Patched(@, o), !.ops = @ + 1]
              ELSE None
  /\ UNCHANGED <<active, parent, installed, promotions, run>>

\* The complete contract is validated once the whole patch has been applied.
Validate ==
  /\ Drafting("patch") /\ draft.ops > 0
  /\ draft' = IF Valid(draft.contract) THEN [draft EXCEPT !.stage = "dev"] ELSE None
  /\ UNCHANGED <<active, parent, installed, promotions, run>>

EvaluateDev(m) ==
  /\ Drafting("dev")
  /\ IF Promotes(m)
     THEN /\ active' = draft.contract /\ parent' = active /\ installed' = m
          /\ promotions' = promotions + 1
          /\ draft' = [draft EXCEPT !.stage = "regression"]
     ELSE draft' = None /\ UNCHANGED <<active, parent, installed, promotions>>
  /\ UNCHANGED run

EvaluateRegression(m) ==
  /\ Drafting("regression")
  /\ IF RollsBack(m) THEN active' = parent /\ installed' = None
     ELSE UNCHANGED <<active, installed>>
  /\ draft' = None /\ parent' = None
  /\ UNCHANGED <<promotions, run>>

-----------------------------------------------------------------------------
(* A question                                                               *)

Metadata == [id |-> active.id, description |-> active.description, types |-> active.types]

Overlap(q, row) == Cardinality(q.words \cap (row.description \cup row.types))
Score(q, row) == 3 * Overlap(q, row) + IF q.intent \in row.types THEN 2 ELSE 0
Before(q, r, s) ==
  Score(q, r) > Score(q, s) \/ (Score(q, r) = Score(q, s) /\ r.id < s.id)

\* A skill of another intent needs two words in common.
Eligible(q, row) ==
  /\ Overlap(q, row) > 0
  /\ q.intent \notin row.types => Overlap(q, row) >= 2

Ready == {Metadata, Rival}
Selected(q) == {r \in Ready : Eligible(q, r) /\ \A s \in Ready \ {r} :
                                 Eligible(q, s) => Before(q, r, s)}

\* The run keeps the contract it has loaded.
Select(q) ==
  /\ run = None
  /\ run' = [query |-> q, skill |-> Selected(q), contract |-> active, plan |-> None,
             results |-> <<>>, sufficient |-> FALSE,
             stage |-> IF Selected(q) # {Metadata} THEN "other"
                       ELSE IF q.dates >= active.dates THEN "selected" ELSE "refused"]
  /\ UNCHANGED <<active, parent, draft, installed, promotions>>

\* A template beyond the query's dates resolves to None.
Compile ==
  /\ run # None /\ run.stage = "selected"
  /\ run' = [run EXCEPT !.stage = "planned", !.plan =
       [i \in DOMAIN run.contract.steps |->
          [action |-> run.contract.steps[i].action,
           given |-> run.contract.steps[i].needs <= run.query.dates]]]
  /\ UNCHANGED <<active, parent, draft, installed, promotions>>

\* An action comes to its result, to one with evidence that misses what some rule asks of
\* it (evaluate_rule), or to an error.
StepResult == {"ok", "short", "error"}

\* An action that fails is followed by the next, the end of the budget by none.
Execute(result, cut) ==
  /\ run # None /\ run.stage = "planned"
  /\ cut => result = "error"
  /\ LET results == Append(run.results, result)
     IN  run' = [run EXCEPT !.results = results,
                  !.stage = IF cut \/ Len(results) = Len(run.plan) THEN "executed" ELSE @]
  /\ UNCHANGED <<active, parent, draft, installed, promotions>>

StepOf(c, id) == CHOOSE i \in DOMAIN c.steps : c.steps[i].id = id

RulePasses(c, id, results) ==
  StepOf(c, id) \in DOMAIN results /\ results[StepOf(c, id)] = "ok"

\* A contract without rules is never satisfied.
VerifyEvidence ==
  /\ run # None /\ run.stage = "executed"
  /\ run' = [run EXCEPT !.stage = "verified", !.sufficient =
       /\ \A i \in DOMAIN run.results : run.results[i] # "error"
       /\ run.contract.rules # <<>>
       /\ \A i \in DOMAIN run.contract.rules :
            RulePasses(run.contract, run.contract.rules[i], run.results)]
  /\ UNCHANGED <<active, parent, draft, installed, promotions>>

-----------------------------------------------------------------------------

GatesInit ==
  /\ active = Initial /\ parent = None /\ draft = None /\ installed = None
  /\ promotions = 0 /\ run = None

GatesNext ==
  \/ Propose \/ Validate \/ Compile \/ VerifyEvidence
  \/ \E o \in Operation : PatchCandidate(o)
  \/ \E m \in Number : EvaluateDev(m) \/ EvaluateRegression(m)
  \/ \E q \in Query : Select(q)
  \/ \E result \in StepResult, cut \in BOOLEAN : Execute(result, cut)

GatesSpec == GatesInit /\ [][GatesNext]_gvars

-----------------------------------------------------------------------------
(* Properties                                                               *)

\* The regression gate, given the numbers a candidate was promoted for, would not roll
\* it back: promotion is nowhere laxer than rollback (decide_promotion and
\* should_rollback, written apart with thresholds of their own).
PromotionStands == installed # None => ~ RollsBack(installed)

\* However many patches have been promoted and rolled back, the contract in force is a
\* valid one with the identity and the tools of the files (the DSL is revalidated as a
\* whole, and only after several operations).
ActiveIsSound == Valid(active) /\ Frozen(active) = Frozen(Initial)

\* What a run executes stays within the limits of the files' contract although the
\* contract it has loaded may be an evolved one, since replaced (compile_skill).
PlansAreBounded ==
  run # None /\ run.plan # None =>
    /\ Len(run.plan) \in 1 .. 3
    /\ \A i \in DOMAIN run.plan : run.plan[i].action \in Initial.tools

\* A skill of another intent is chosen only when the ready ones of the intent have fewer
\* words in common with the question: an evolved description cannot outbid them by the
\* same words (select_skill).
IntentDecides ==
  run # None =>
    \A r \in run.skill : run.query.intent \notin r.types =>
      /\ Overlap(run.query, r) >= 2
      /\ run.query.intent \in Rival.types => Overlap(run.query, Rival) < Overlap(run.query, r)

\* A run is sufficient only when every action of its plan ran with evidence and what the
\* rules ask for is there, in the step they name: also where a patch has inserted or
\* removed steps, and the rules are those of a contract since replaced (verifier.py).
SufficientIsBacked ==
  run # None /\ run.sufficient =>
    /\ Len(run.results) = Len(run.plan) /\ run.contract.rules # <<>>
    /\ \A i \in DOMAIN run.results :
         \/ run.results[i] = "ok"
         \/ /\ run.results[i] = "short"
            /\ \A j \in DOMAIN run.contract.rules :
                 run.contract.rules[j] # run.contract.steps[i].id
=============================================================================
