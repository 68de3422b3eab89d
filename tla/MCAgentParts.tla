----------------------------- MODULE MCAgentParts -----------------------------
(* What the agent's graph rests on for TLC, as scenarios of one run: the     *)
(* calls to the model, what evaluations pay for them, the tools it measures  *)
(* with, the knowledge it retrieves, the gates of its skills, what the runs  *)
(* of the legacy API learn, and how that is listed and recalled.             *)
(* A scenario is an instance of its module, chosen by the initial state; the *)
(* variables of the others stay parked.                                      *)
EXTENDS Integers, TLC

CONSTANTS
  Learner, Predicate,  \* runs that learn, and what about
  Cell,                \* cases that are evaluated, each under an arm
  Thread,              \* of a process that retrieves
  Reader,              \* of a listing
  None, Failed

VARIABLES
  setting, node, phase, body, trace, usage, intent, chunks, passes, made,
  orders, traffic, answer,
  active, parent, draft, installed, promotions, run,
  facts, txn, learning, failure, decisions,
  saved, rows, program, budget, round, key, stage, tokens, result, billed, attempts, lost,
  tried, faults,
  instance, loads, owner, caller, collection, builder, builds, mishaps,
  clock, writing, table, reader,
  store, question, step, found, left, spent, context,
  scenario

model == <<setting, node, phase, body, trace, usage, intent, chunks, passes, made>>
shop == <<orders, traffic, answer>>
gates == <<active, parent, draft, installed, promotions, run>>
memory == <<facts, txn, learning, failure, decisions>>
evaluation == <<saved, rows, program, budget, round, key, stage, tokens, result, billed,
                attempts, lost, tried, faults>>
knowledge == <<instance, loads, owner, caller, collection, builder, builds, mishaps>>
pages == <<clock, writing, table, reader>>
recall == <<store, question, step, found, left, spent, context>>

\* Orders of four days, two of each month, in two of the shop's ways to sell.
Sale(d, h, s, src, p, g, f, x) ==
  [date |-> d, hour |-> h, streamer |-> s, source |-> src, product |-> p, gmv |-> g,
   refund |-> f, reason |-> x]
Sales == {
  Sale(1, 5, "zhang", "natural", "dress", 3, FALSE, None),
  Sale(1, 12, "li", "paid", "coat", 5, TRUE, "colour"),
  Sale(2, 18, "li", "natural", "coat", 5, FALSE, None),
  Sale(3, 6, "zhang", "paid", "dress", 3, TRUE, "size"),
  Sale(4, 20, "zhang", "paid", "knit", 4, TRUE, "colour"),
  Sale(4, 9, "li", "natural", "dress", 3, FALSE, None)}
Products == [p \in {"dress", "coat", "knit"} |->
  [sub |-> IF p = "dress" THEN "dress" ELSE "top", band |-> IF p = "coat" THEN "high" ELSE "low"]]
Visits(d, s, v) == [date |-> d, source |-> s, visitors |-> v]
Days == {
  {},
  {Visits(1, "natural", 20), Visits(2, "natural", 0), Visits(2, "paid", 50),
   Visits(3, "paid", 30), Visits(4, "natural", 120)},
  {Visits(1, "natural", 10), Visits(1, "paid", 30), Visits(2, "paid", 200),
   Visits(2, "natural", 40), Visits(3, "natural", 10)}}
Dims == {{}, {"streamer"}, {"traffic_source"}, {"hour_bucket"},
         {"price_band", "sub_category"}, {"streamer", "hour_bucket"}}

\* A contract of the files, what a generator makes of it, and the numbers on both
\* sides of every threshold.
Step(id, action, dates) == [id |-> id, action |-> action, needs |-> dates]
Written == [id |-> 2, description |-> {"compare", "period"}, types |-> {"metric"}, dates |-> 2,
  steps |-> <<Step("first", "metric", 1), Step("second", "metric", 2)>>,
  rules |-> <<"first", "second">>, policy |-> "stop", tools |-> {"metric"}]
Other == [id |-> 1, description |-> {"period", "growth"}, types |-> {"strategy"}]
Edit(op, root, at, value) == [op |-> op, root |-> root, at |-> at, value |-> value]
Edits == {
  Edit("replace", "description", 0, {"compare", "period", "growth"}),
  Edit("remove", "description", 0, {}),
  Edit("add", "steps", 9, Step("third", "metric", 0)),
  Edit("replace", "steps", 1, Step("first", "strategy", 0)),
  Edit("remove", "steps", 1, None), Edit("remove", "steps", 3, None),
  Edit("remove", "evidence_contract", 1, None),
  Edit("replace", "evidence_contract", 1, "second"),
  Edit("replace", "preconditions", 0, 0), Edit("replace", "failure_policy", 0, "retry"),
  Edit("replace", "allowed_tools", 0, {"strategy"}), Edit("move", "steps", 1, None)}
Tokens(before, after) == [tokens |-> [active |-> before, candidate |-> after]]
Better == [n |-> 8, won |-> 6, lost |-> 0, costs |-> Tokens(20, 18),
           violations |-> 0, leaks |-> 0, fidelity |-> 0, stale |-> 0]
Numbers ==
  {[Better EXCEPT !.n = p[1], !.won = p[2], !.lost = p[3], !.costs = c] :
     p \in {<<1, 0, 0>>, <<8, 0, 0>>, <<8, 0, 1>>, <<8, 1, 1>>},
     c \in {Tokens(20, 17), Tokens(0, 17)}}
  \cup {Better, [Better EXCEPT !.violations = 1], [Better EXCEPT !.leaks = 1],
        [Better EXCEPT !.fidelity = -1], [Better EXCEPT !.stale = 1]}
Ask(words, kind, dates) == [words |-> words, intent |-> kind, dates |-> dates]
Questions == {
  Ask({"compare"}, "metric", 1), Ask({"compare"}, "metric", 2),
  Ask({"period", "growth"}, "metric", 2), Ask({"period", "growth"}, "strategy", 2),
  Ask({"other"}, "metric", 2)}

\* A guide that begins without a heading, beside nothing, a note with no heading at all or
\* one without its front matter; a note alone.  Words are numbers.
Part(heading, text) == [heading |-> heading, text |-> text]
File(titled, parts) == [titled |-> titled, body |-> parts]
Guide == File(TRUE, <<Part(None, <<1>>), Part("why", <<>>), Part("how", <<2, 3>>),
                      Part("when", <<4>>)>>)
Note == File(TRUE, <<Part(None, <<5>>)>>)
Library == {[guide |-> Guide], [guide |-> Guide, note |-> Note], [note |-> Note],
            [guide |-> Guide, note |-> File(FALSE, <<Part("what", <<5>>)>>)]}

\* Memories of every way past the filters or not, and of a length that fills the core's
\* characters alone, with another, or not.
Known(kind, type, scope, days, worth, size) ==
  [kind |-> kind, type |-> type, scope |-> scope, period |-> days, worth |-> worth,
   size |-> size, near |-> TRUE, related |-> TRUE, inForce |-> TRUE, indexed |-> TRUE]
Remembered == {
  [Known("core", "user_fact", "merchant", {}, 1, 2) EXCEPT !.related = FALSE],
  Known("core", "user_fact", "here", {}, 2, 3),
  Known("episodic", "observation", "merchant", {2}, 1, 4),
  Known("episodic", "observation", "there", {}, 3, 1),
  [Known("episodic", "observation", "merchant", {}, 2, 1) EXCEPT !.related = FALSE],
  [Known("decision", "decision", "merchant", {1}, 3, 1) EXCEPT !.near = FALSE],
  [Known("core", "user_fact", "merchant", {}, 3, 1) EXCEPT !.inForce = FALSE]}
Recalling(types, days, readable) ==
  [types |-> types, thread |-> "here", days |-> days, readable |-> readable]
Recalls == {Recalling({}, {}, TRUE), Recalling({"user_fact", "observation"}, {1}, TRUE),
            Recalling({}, {}, FALSE)}

Model == INSTANCE ModelCalls WITH MaxPasses <- 2
Shop == INSTANCE MerchantTools WITH
  Row <- Sales, Catalogue <- Products, Source <- {"natural", "paid"},
  Month <- <<[start |-> 1, end |-> 2], [start |-> 3, end |-> 4]>>, HalfMonth <- 1,
  Anomalous <- {2}, Lookback <- 1, TopN <- 2, MaxSame <- 2, MaxOrders <- 3,
  Traffic <- Days, AskedDims <- Dims
Gates == INSTANCE SkillGates WITH
  Initial <- Written, Operation <- Edits, Number <- Numbers, Query <- Questions,
  Rival <- Other, MaxOps <- 2, MaxPromotions <- 2
Memory == INSTANCE LegacyMemory WITH
  Run <- Learner, Decider <- {"user"}, MaxCandidates <- 2, MaxDecisions <- 1
\* A cell may cost more than is reserved for it, a round as well; all three do not fit.
Evaluation == INSTANCE EvaluationRuns WITH
  MaxRounds <- 1, Bill <- {2}, HardStop <- 7, MaxCalls <- 2, MaxFaults <- 2,
  Worst <- [k \in Cell \cup 1..1 |-> IF k \in Cell THEN 3 ELSE 2]
Knowledge == INSTANCE KnowledgeIndex WITH
  Corpora <- Library, MaxText <- 2, Candidates <- 2, TopK <- 1, MaxBuilds <- 2,
  MaxMishaps <- 2
Pages == INSTANCE ListPages WITH
  Id <- 1..3, Status <- {"pending", "active"}, Limit <- 1, MaxTime <- 2
Recall == INSTANCE MemoryRecall WITH
  Id <- 1..4, Fact <- Remembered, Question <- Recalls, Candidates <- 3, MaxCore <- 4,
  Budget <- [core |-> 2, episodic |-> 1, decision |-> 1, outcome |-> 1]

ASSUME PartsAssumption ==
  Evaluation!EvaluationAssumption /\ Pages!ListAssumption /\ Recall!RecallAssumption

ModelIsParked ==
  /\ setting = None /\ node = None /\ phase = None /\ body = None /\ trace = None
  /\ usage = None /\ intent = None /\ chunks = None /\ passes = None /\ made = None

ShopIsParked == orders = None /\ traffic = None /\ answer = None

GatesAreParked ==
  /\ active = None /\ parent = None /\ draft = None /\ installed = None
  /\ promotions = None /\ run = None

MemoryIsParked ==
  facts = None /\ txn = None /\ learning = None /\ failure = None /\ decisions = None

EvaluationIsParked ==
  /\ saved = None /\ rows = None /\ program = None /\ budget = None /\ round = None
  /\ key = None /\ stage = None /\ tokens = None /\ result = None /\ billed = None
  /\ attempts = None /\ lost = None /\ tried = None /\ faults = None

KnowledgeIsParked ==
  /\ instance = None /\ loads = None /\ owner = None /\ caller = None
  /\ collection = None /\ builder = None /\ builds = None /\ mishaps = None

PagesAreParked == clock = None /\ writing = None /\ table = None /\ reader = None

RecallIsParked ==
  /\ store = None /\ question = None /\ step = None /\ found = None /\ left = None
  /\ spent = None /\ context = None

MCInit ==
  \/ /\ scenario = "model" /\ Model!CallsInit
     /\ ShopIsParked /\ GatesAreParked /\ MemoryIsParked /\ EvaluationIsParked
     /\ KnowledgeIsParked /\ PagesAreParked /\ RecallIsParked
  \/ /\ scenario = "shop" /\ Shop!ToolsInit
     /\ ModelIsParked /\ GatesAreParked /\ MemoryIsParked /\ EvaluationIsParked
     /\ KnowledgeIsParked /\ PagesAreParked /\ RecallIsParked
  \/ /\ scenario = "gates" /\ Gates!GatesInit
     /\ ModelIsParked /\ ShopIsParked /\ MemoryIsParked /\ EvaluationIsParked
     /\ KnowledgeIsParked /\ PagesAreParked /\ RecallIsParked
  \/ /\ scenario = "memory" /\ Memory!MemoryInit
     /\ ModelIsParked /\ ShopIsParked /\ GatesAreParked /\ EvaluationIsParked
     /\ KnowledgeIsParked /\ PagesAreParked /\ RecallIsParked
  \/ /\ scenario = "evaluation" /\ Evaluation!EvaluationInit
     /\ ModelIsParked /\ ShopIsParked /\ GatesAreParked /\ MemoryIsParked
     /\ KnowledgeIsParked /\ PagesAreParked /\ RecallIsParked
  \/ /\ scenario = "knowledge" /\ Knowledge!KnowledgeInit
     /\ ModelIsParked /\ ShopIsParked /\ GatesAreParked /\ MemoryIsParked
     /\ EvaluationIsParked /\ PagesAreParked /\ RecallIsParked
  \/ /\ scenario = "pages" /\ Pages!ListInit
     /\ ModelIsParked /\ ShopIsParked /\ GatesAreParked /\ MemoryIsParked
     /\ EvaluationIsParked /\ KnowledgeIsParked /\ RecallIsParked
  \/ /\ scenario = "recall" /\ Recall!RecallInit
     /\ ModelIsParked /\ ShopIsParked /\ GatesAreParked /\ MemoryIsParked
     /\ EvaluationIsParked /\ KnowledgeIsParked /\ PagesAreParked

MCNext ==
  /\ UNCHANGED scenario
  /\ \/ /\ scenario = "model" /\ Model!CallsNext
        /\ UNCHANGED <<shop, gates, memory, evaluation, knowledge, pages, recall>>
     \/ /\ scenario = "shop" /\ Shop!ToolsNext
        /\ UNCHANGED <<model, gates, memory, evaluation, knowledge, pages, recall>>
     \/ /\ scenario = "gates" /\ Gates!GatesNext
        /\ UNCHANGED <<model, shop, memory, evaluation, knowledge, pages, recall>>
     \/ /\ scenario = "memory" /\ Memory!MemoryNext
        /\ UNCHANGED <<model, shop, gates, evaluation, knowledge, pages, recall>>
     \/ /\ scenario = "evaluation" /\ Evaluation!EvaluationNext
        /\ UNCHANGED <<model, shop, gates, memory, knowledge, pages, recall>>
     \/ /\ scenario = "knowledge" /\ Knowledge!KnowledgeNext
        /\ UNCHANGED <<model, shop, gates, memory, evaluation, pages, recall>>
     \/ /\ scenario = "pages" /\ Pages!ListNext
        /\ UNCHANGED <<model, shop, gates, memory, evaluation, knowledge, recall>>
     \/ /\ scenario = "recall" /\ Recall!RecallNext
        /\ UNCHANGED <<model, shop, gates, memory, evaluation, knowledge, pages>>

MCSpec ==
  MCInit /\
  [][MCNext]_<<model, shop, gates, memory, evaluation, knowledge, pages, recall, scenario>>

\* Runs that learn are interchangeable, and so are predicates, cells and threads.
Interchangeable ==
  {p @@ q @@ r @@ s : p \in Permutations(Learner), q \in Permutations(Predicate),
                      r \in Permutations(Cell), s \in Permutations(Thread)}

In(s) == scenario = s

-----------------------------------------------------------------------------
(* The properties, in every scenario they are about                        *)

\* Every call to the model is reserved before the network and told after it, none follows
\* a rejection, and what a node says it has from the model it has (client.py, nodes/); what
\* an evaluation pays for its calls is reserved below the stop and billed as it is booked,
\* and what is booked is not paid again after a kill; an attempt that was not booked before
\* the kill is (budget.py, run_skill_matrix.py).
CallsAreTold ==
  /\ In("model") =>
       /\ Model!CallsAreReserved /\ Model!CallsAreTold
       /\ Model!RejectionStops /\ Model!FallbacksHold
  /\ In("evaluation") =>
       /\ Evaluation!PaidOnce /\ Evaluation!ReservedBelowStop /\ Evaluation!CostsAreBilled
       /\ Evaluation!RowsAreEarned /\ Evaluation!StopIsKept

\* Groups and halves add up to the whole, a cause is in the window asked about and agrees
\* with the groups, and an answer says which orders it rests on (server.py); what is
\* retrieved is from the whole of one build, with models every thread shares (indexer.py,
\* retriever.py).
EvidenceAgrees ==
  /\ In("shop") =>
       /\ Shop!GroupsAddUp /\ Shop!HalvesMakeTheMonth /\ Shop!AttributionAgrees
       /\ Shop!CauseIsInTheWindow /\ Shop!DataIsEnough
  /\ In("knowledge") =>
       /\ Knowledge!MadeOnce /\ Knowledge!EncodesAlone
       /\ Knowledge!EmptyOrWhole /\ Knowledge!RetrievalsHold

\* What is promoted would not be rolled back for the same numbers, and no patch, question
\* or run gets past the limits of the contract in the files (evolution.py, selector.py,
\* compiler.py, verifier.py).
SkillsPassTheGates ==
  In("gates") =>
    /\ Gates!PromotionStands /\ Gates!ActiveIsSound /\ Gates!PlansAreBounded
    /\ Gates!IntentDecides /\ Gates!SufficientIsBacked

\* Whatever runs learn and users decide at once, a predicate has one fact in force, a
\* superseded one its successor, a run all it learned or nothing; and the index is met
\* only over an approval (memory_repository.py, api_repository.py).  Who then lists what was
\* learned, page by page, finds each row once and all that stayed (delivery_repository.py),
\* and a run recalls the best of what is its own and fits (app/memory/retriever.py).
LearningIsWhole ==
  /\ In("memory") =>
       /\ Memory!OneCurrentFact /\ Memory!SuccessorStands /\ Memory!LearnedWhole
       /\ Memory!IndexIsBackstop /\ Memory!SingleCandidatesWait
  /\ In("pages") => Pages!NoneTwice /\ Pages!NoneMissed
  /\ In("recall") =>
       /\ Recall!ContextIsScoped /\ Recall!CoreFits /\ Recall!OthersAreWhole
       /\ Recall!BestAreChosen /\ Recall!BudgetsAreUsed
=============================================================================
