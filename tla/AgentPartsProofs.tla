--------------------------- MODULE AgentPartsProofs ---------------------------
(* Proofs about five parts the agent's graph and its evaluation rest on.       *)
(*                                                                             *)
(* The calls to the model, for any number of passes, and so of calls: what the *)
(* parent of a worker is told of them, and in which order.                     *)
(*                                                                             *)
(* The gates of a skill, for any contract of the files, any patches and any    *)
(* numbers: what is promoted would not be rolled back for the numbers it was   *)
(* promoted for, the contract in force is a valid one with the identity and    *)
(* the tools of the files, and a run of it stays within what these allow.      *)
(*                                                                             *)
(* The offline programs that pay for calls, for any cells, rounds, bills and   *)
(* estimates, killed and interrupted anywhere: no key of the checkpoint is     *)
(* paid for again once it is completed there, and none costs what was not      *)
(* billed.                                                                     *)
(*                                                                             *)
(* The models a process shares, for any threads: each is loaded once and the   *)
(* embedder serves one of them at a time.                                      *)
(*                                                                             *)
(* What runs of the legacy API learn, for any runs, users and predicates, and  *)
(* any number of candidates: a predicate has one fact in force among the       *)
(* committed rows.  The argument does not use the advisory lock: the waits for *)
(* uncommitted rows and index entries, and the index, carry it alone.          *)
EXTENDS SkillGates, TLAPS, FiniteSetTheorems

CONSTANT MaxPasses                                                   \* as in ModelCalls
VARIABLES setting, node, phase, body, trace, usage, intent, chunks, passes, made

INSTANCE ModelCalls

CONSTANTS Cell, MaxRounds, Bill, Worst, HardStop, MaxCalls, MaxFaults   \* as in EvaluationRuns
VARIABLES saved, rows, program, budget, round, key, stage, tokens, result, billed,
          attempts, lost, tried, faults

E == INSTANCE EvaluationRuns

CONSTANTS Thread, Corpora, MaxText, Candidates, TopK, MaxBuilds, MaxMishaps  \* as in KnowledgeIndex
VARIABLES instance, loads, owner, caller, collection, builder, builds, mishaps

K == INSTANCE KnowledgeIndex

CONSTANTS Run, Decider, Predicate, MaxCandidates, MaxDecisions              \* as in LegacyMemory
VARIABLES facts, txn, learning, failure, decisions

L == INSTANCE LegacyMemory

-----------------------------------------------------------------------------
(* The calls to the model (ModelCalls) *)

NoneIsNoAnswer == None \notin {"usage", "error"}

Call == [status : {"requested", "completed", "failed"}, acked : BOOLEAN,
         told : {None, "usage", "error"}]
Quiet == {"idle", "concluding"}

Over(c) == c.acked /\ c.status # "requested" /\ c.told # None

\* How far a call is in each phase of the worker.
Reaches(c) ==
  /\ phase \in Quiet => Over(c)
  /\ phase = "reserving" => c.status = "requested"
  /\ phase = "sent" => c.acked /\ c.status = "requested"
  /\ phase = "telling" => c.acked /\ c.status # "requested"

TraceIsTyped == /\ trace \in Seq(Call)
                /\ phase \in Quiet \cup {"reserving", "sent", "telling"}
                /\ phase \notin Quiet => Len(trace) > 0
EarlierAreOver == \A i \in 1 .. Len(trace) : i < Len(trace) => Over(trace[i])
LastReaches == Len(trace) > 0 => Reaches(trace[Len(trace)])

\* The inductive invariant: the last call is where the phase says, all others are over.
CallsInv == TraceIsTyped /\ (setting.observed => EarlierAreOver /\ LastReaches)

-----------------------------------------------------------------------------

\* A step of a node finds its call over, and begins none.
LEMMA NodeStep ==
  ASSUME CallsInv, UNCHANGED <<setting, trace>>, phase \in Quiet, phase' \in Quiet
  PROVE  CallsInv'
BY DEF CallsInv, TraceIsTyped, EarlierAreOver, LastReaches, Reaches, Quiet

\* A step that changes only the last call.
LEMMA LastStep ==
  ASSUME CallsInv, Len(trace) > 0, NEW c \in Call, setting' = setting,
         trace' = [trace EXCEPT ![Len(trace)] = c],
         phase' \in Quiet \cup {"reserving", "sent", "telling"},
         setting.observed => Reaches(c)'
  PROVE  CallsInv'
<1>1. trace \in Seq(Call) BY DEF CallsInv, TraceIsTyped
<1>2. /\ trace' \in Seq(Call) /\ Len(trace') = Len(trace) /\ trace'[Len(trace)] = c
      /\ \A i \in 1 .. Len(trace) : i < Len(trace) => trace'[i] = trace[i]
  BY <1>1
<1>3. TraceIsTyped' BY <1>2 DEF TraceIsTyped
<1>4. setting.observed => EarlierAreOver' BY <1>2 DEF CallsInv, EarlierAreOver
<1>5. setting.observed => LastReaches' BY <1>2 DEF LastReaches, Reaches
<1> QED BY <1>3, <1>4, <1>5 DEF CallsInv

\* A call is asked for when the one before is over.
LEMMA AskStep == ASSUME CallsInv, Ask PROVE CallsInv'
<1> DEFINE c == [status |-> "requested", acked |-> FALSE, told |-> None]
<1>1. trace' = Append(trace, c) /\ setting' = setting /\ phase = "idle"
      /\ phase' = IF setting.observed THEN "reserving" ELSE "sent"
  BY DEF Ask
<1>2. c \in Call BY DEF Call
<1>3. c.status = "requested" OBVIOUS
<1> HIDE DEF c
<1>4. trace \in Seq(Call) BY DEF CallsInv, TraceIsTyped
<1>5. /\ trace' \in Seq(Call) /\ Len(trace') = Len(trace) + 1 /\ trace'[Len(trace')] = c
      /\ \A i \in 1 .. Len(trace) : trace'[i] = trace[i]
      /\ Len(trace) \in Nat
  BY <1>1, <1>2, <1>4
<1>6. TraceIsTyped' BY <1>1, <1>5 DEF TraceIsTyped
<1>7. ASSUME setting.observed PROVE EarlierAreOver'
  <2>1. \A i \in 1 .. Len(trace) : Over(trace[i])
    BY <1>1, <1>5, <1>7 DEF CallsInv, EarlierAreOver, LastReaches, Reaches, Quiet
  <2> QED BY <2>1, <1>5 DEF EarlierAreOver
<1>8. setting.observed => LastReaches'
  BY <1>1, <1>3, <1>5 DEF LastReaches, Reaches, Quiet
<1> QED BY <1>1, <1>6, <1>7, <1>8 DEF CallsInv

\* The acknowledgement changes the last call.
LEMMA ReservedStep == ASSUME CallsInv, Reserved PROVE CallsInv'
<1> DEFINE n == Len(trace)
<1>1. phase = "reserving" /\ phase' = "sent" /\ setting' = setting
      /\ trace' = [trace EXCEPT ![n] = [trace[n] EXCEPT !.acked = TRUE]]
  BY DEF Reserved
<1>2. n > 0 /\ trace[n] \in Call /\ (setting.observed => trace[n].status = "requested")
  BY <1>1 DEF CallsInv, TraceIsTyped, LastReaches, Reaches, Quiet
<1>3. PICK c : c = [trace[n] EXCEPT !.acked = TRUE] OBVIOUS
<1>4. c \in Call /\ c.acked /\ c.status = trace[n].status BY <1>2, <1>3 DEF Call
<1>5. setting.observed => Reaches(c)' BY <1>1, <1>2, <1>4 DEF Reaches, Quiet
<1> QED BY <1>1, <1>2, <1>3, <1>4, <1>5, LastStep

\* So does the response.
LEMMA RespondStep == ASSUME CallsInv, NEW b \in Body, Respond(b) PROVE CallsInv'
<1> DEFINE n == Len(trace)
<1>1. PICK s \in {"completed", "failed"} :
        trace' = [trace EXCEPT ![n] = [trace[n] EXCEPT !.status = s]]
  BY DEF Respond
<1>2. phase = "sent" /\ setting' = setting
      /\ phase' = IF setting.observed THEN "telling" ELSE "concluding"
  BY DEF Respond
<1>3. n > 0 /\ trace[n] \in Call /\ (setting.observed => trace[n].acked)
  BY <1>2 DEF CallsInv, TraceIsTyped, LastReaches, Reaches, Quiet
<1>4. PICK c : c = [trace[n] EXCEPT !.status = s] OBVIOUS
<1>5. c \in Call /\ c.acked = trace[n].acked /\ c.status # "requested"
  BY <1>1, <1>3, <1>4 DEF Call
<1>6. setting.observed => Reaches(c)' BY <1>2, <1>3, <1>5 DEF Reaches, Quiet
<1> QED BY <1>1, <1>2, <1>3, <1>4, <1>5, <1>6, LastStep DEF Quiet

\* And the report of it.
LEMMA ToldStep == ASSUME NoneIsNoAnswer, CallsInv, Told PROVE CallsInv'
<1> DEFINE n == Len(trace)
<1>1. PICK s \in {"usage", "error"} :
        trace' = [trace EXCEPT ![n] = [trace[n] EXCEPT !.told = s]]
  BY DEF Told
<1>2. phase = "telling" /\ setting' = setting /\ phase' = "concluding" BY DEF Told
<1>3. n > 0 /\ trace[n] \in Call
      /\ (setting.observed => trace[n].acked /\ trace[n].status # "requested")
  BY <1>2 DEF CallsInv, TraceIsTyped, LastReaches, Reaches, Quiet
<1>4. PICK c : c = [trace[n] EXCEPT !.told = s] OBVIOUS
<1>5. c \in Call /\ c.acked = trace[n].acked /\ c.status = trace[n].status /\ c.told = s
  BY <1>1, <1>3, <1>4 DEF Call
<1>6. setting.observed => Reaches(c)'
  BY <1>1, <1>2, <1>3, <1>5 DEF Reaches, Quiet, Over, NoneIsNoAnswer
<1> QED BY <1>1, <1>2, <1>3, <1>4, <1>5, <1>6, LastStep DEF Quiet

\* At the start nothing has been asked.
LEMMA CallsInvInit == ASSUME CallsInit PROVE CallsInv
BY DEF CallsInit, CallsInv, TraceIsTyped, EarlierAreOver, LastReaches, Quiet

\* Every step of a worker keeps the invariant.
LEMMA CallsInvStep ==
  ASSUME NoneIsNoAnswer, CallsInv, [CallsNext]_mvars
  PROVE  CallsInv'
<1>1. ASSUME UNCHANGED <<setting, trace, phase>> PROVE CallsInv'
  BY <1>1 DEF CallsInv, TraceIsTyped, EarlierAreOver, LastReaches, Reaches
<1>2. CASE Rejected BY <1>1, <1>2 DEF Rejected
<1>3. ASSUME NEW found, Retrieve(found) PROVE CallsInv' BY <1>1, <1>3 DEF Retrieve
<1>4. CASE Router BY <1>4, NodeStep DEF Router, Concludes, Quiet
<1>5. CASE RetrieveRaises \/ TimesOut
  BY <1>5, NodeStep DEF RetrieveRaises, TimesOut, Begins, Fail, Quiet
<1>6. CASE Strategy BY <1>6, NodeStep DEF Strategy, Concludes, Fail, Quiet
<1>7. CASE Tool BY <1>7, NodeStep DEF Tool, Begins, Fail, Quiet
<1>8. CASE Insight BY <1>8, NodeStep DEF Insight, Concludes, Quiet
<1>9. CASE Learn BY <1>9, NodeStep DEF Learn, Concludes, Quiet
<1>10. CASE Reserved \/ Told \/ (\E b \in Body : Respond(b))
  BY <1>10, NoneIsNoAnswer, ReservedStep, RespondStep, ToldStep
<1>11. CASE UNCHANGED mvars BY <1>1, <1>11 DEF mvars
<1> QED BY <1>2, <1>3, <1>4, <1>5, <1>6, <1>7, <1>8, <1>9, <1>10, <1>11, AskStep DEF CallsNext

\* The invariant holds in every state of a worker.
LEMMA CallsInvHolds == ASSUME NoneIsNoAnswer PROVE CallsSpec => []CallsInv
<1>1. CallsInit => CallsInv BY CallsInvInit
<1>2. CallsInv /\ [CallsNext]_mvars => CallsInv' BY NoneIsNoAnswer, CallsInvStep
<1> QED BY <1>1, <1>2, PTL DEF CallsSpec

\* CallsAreReserved for any number of calls: none reaches the network before its
\* acknowledgement, and the parent has been told of one before the next is asked
\* (_before_network, _after_network).
THEOREM ReservedBeforeNetwork == ASSUME NoneIsNoAnswer PROVE CallsSpec => []CallsAreReserved
<1>1. CallsInv => CallsAreReserved
  <2> SUFFICES ASSUME CallsInv, setting.observed
               PROVE  /\ \A i \in Calls : trace[i].status # "requested" => trace[i].acked
                      /\ \A i \in Calls : i < Len(trace) => trace[i].told # None
    BY DEF CallsAreReserved
  <2>1. trace \in Seq(Call) /\ Calls = 1 .. Len(trace) BY DEF CallsInv, TraceIsTyped, Calls
  <2>2. \A i \in Calls : i < Len(trace) => Over(trace[i])
    BY <2>1 DEF CallsInv, EarlierAreOver
  <2>3. Len(trace) > 0 => (trace[Len(trace)].status # "requested" => trace[Len(trace)].acked)
    BY DEF CallsInv, TraceIsTyped, LastReaches, Reaches, Quiet, Over
  <2>4. \A i \in Calls : i < Len(trace) \/ i = Len(trace) BY <2>1
  <2> QED BY <2>1, <2>2, <2>3, <2>4 DEF Over
<1> QED BY <1>1, CallsInvHolds, NoneIsNoAnswer, PTL

\* RejectionStops for any number of calls: a call the parent was not told of is the one
\* under way, or the worker has stopped (WorkerStopped).
THEOREM RejectionIsFinal == ASSUME NoneIsNoAnswer PROVE CallsSpec => []RejectionStops
<1>1. CallsInv => RejectionStops
  <2> SUFFICES ASSUME CallsInv, setting.observed, NEW i \in Calls
               PROVE  \/ trace[i].told # None
                      \/ i = Len(trace) /\ phase \in {"reserving", "sent", "telling"}
    BY DEF RejectionStops
  <2>1. trace \in Seq(Call) /\ Calls = 1 .. Len(trace) BY DEF CallsInv, TraceIsTyped, Calls
  <2>2. i < Len(trace) => Over(trace[i]) BY <2>1 DEF CallsInv, EarlierAreOver
  <2>3. phase \in Quiet => Over(trace[Len(trace)])
    BY <2>1 DEF CallsInv, LastReaches, Reaches
  <2>4. i < Len(trace) \/ i = Len(trace) BY <2>1
  <2> QED BY <2>2, <2>3, <2>4 DEF CallsInv, TraceIsTyped, Over
<1> QED BY <1>1, CallsInvHolds, NoneIsNoAnswer, PTL

-----------------------------------------------------------------------------
(* The gates of a skill (SkillGates) *)

\* Evaluations pair at least one run and count.
IsCount(m) ==
  /\ m.n \in Nat \ {0} /\ m.won \in Nat /\ m.lost \in Nat
  /\ m.violations \in Nat /\ m.leaks \in Nat /\ m.fidelity \in Int /\ m.stale \in Int

NumbersAreCounts == \A m \in Number : IsCount(m)

IsList(s) == Len(s) \in Nat /\ s = [i \in 1 .. Len(s) |-> s[i]]

IsContract(c) ==
  /\ IsList(c.steps)
  /\ c = [id |-> c.id, description |-> c.description, types |-> c.types, dates |-> c.dates,
          steps |-> c.steps, rules |-> c.rules, policy |-> c.policy, tools |-> c.tools]

FilesAreValid == IsContract(Initial) /\ Valid(Initial)

\* The position an operation names in a list.
IndicesAreCounts == \A o \in Operation : o.root \in {"steps", "evidence_contract"} => o.at \in Nat \ {0}

Identified(c) == IsContract(c) /\ Frozen(c) = Frozen(Initial)
Sound(c) == Identified(c) /\ Valid(c)

InForceIsSound == Sound(active)
DraftIsIdentified ==
  draft # None =>
    /\ draft = [contract |-> draft.contract, ops |-> draft.ops, stage |-> draft.stage]
    /\ Identified(draft.contract)
    /\ draft.stage = "dev" => Valid(draft.contract)
    /\ draft.stage = "regression" => Sound(parent)
InstalledHasPassed == installed # None => installed \in Number /\ Promotes(installed)

\* The inductive invariant: a draft carries the identity through its operations, and
\* validity from its validation on; a promoted one has its predecessor beside it.
GatesInv == InForceIsSound /\ DraftIsIdentified /\ InstalledHasPassed

-----------------------------------------------------------------------------

\* The numbers that promote a candidate, by either route, do not roll it back:
\* decide_promotion is nowhere laxer than should_rollback.
LEMMA PromotedStands ==
  ASSUME NEW m, IsCount(m), Promotes(m)
  PROVE  ~ RollsBack(m)
<1>1. m.violations = 0 /\ m.leaks = 0 /\ ~ m.fidelity < 0 /\ ~ m.stale > 0
  BY DEF Promotes, HardFailure, IsCount
<1>2. CASE Quality(m)
  <2>1. 25 * (m.won - m.lost) >= 2 * m.n BY <1>2 DEF Quality, Delta
  <2>2. ~ 50 * (m.won - m.lost) < - m.n BY <2>1 DEF IsCount
  <2> QED BY <1>1, <2>2 DEF RollsBack, Delta
<1>3. CASE Efficient(m)
  <2>1. 50 * (m.won - m.lost) + m.n >= 0 BY <1>3 DEF Efficient, CiHolds, Delta
  <2>2. ~ 50 * (m.won - m.lost) < - m.n BY <2>1 DEF IsCount
  <2> QED BY <1>1, <2>2 DEF RollsBack, Delta
<1> QED BY <1>2, <1>3 DEF Promotes

LEMMA SeqOfFunction ==
  ASSUME NEW T, NEW n \in Nat, NEW f \in [1 .. n -> T]
  PROVE  f \in Seq(T)
OBVIOUS

\* An operation on a list leaves a list: an insertion anywhere, a removal or a replacement
\* of what is there (apply_candidate_patch).
LEMMA EditKeepsList ==
  ASSUME NEW s, IsList(s), NEW o, o.at \in Nat \ {0}, o.op # "add" => o.at \in DOMAIN s
  PROVE  IsList(Edited(s, o))
<1> DEFINE n == Len(s)
           S == {s[i] : i \in 1 .. n} \cup {o.value}
           k == IF o.at > n THEN n + 1 ELSE o.at
<1>1. s \in Seq(S) /\ n \in Nat /\ DOMAIN s = 1 .. n BY DEF IsList
<1>2. ASSUME NEW T, NEW t \in Seq(T) PROVE IsList(t) BY <1>2 DEF IsList
<1>6. ASSUME NEW T, NEW t \in Seq(T), NEW u \in Seq(T) PROVE t \o u \in Seq(T) BY <1>6
<1>7. ASSUME NEW T, NEW t \in Seq(T), NEW x \in T, NEW i PROVE [t EXCEPT ![i] = x] \in Seq(T)
  <2>1. Len(t) \in Nat /\ t \in [1 .. Len(t) -> T] BY <1>7
  <2>2. [t EXCEPT ![i] = x] \in [1 .. Len(t) -> T] BY <1>7, <2>1
  <2> QED BY <2>1, <2>2, SeqOfFunction
<1>3. CASE o.op = "add"
  <2>1. Edited(s, o) = SubSeq(s, 1, k - 1) \o <<o.value>> \o SubSeq(s, k, n)
    BY <1>3 DEF Edited, Inserted
  <2>2. k \in 1 .. n + 1 BY <1>1
  <2>3. SubSeq(s, 1, k - 1) \in Seq(S) /\ SubSeq(s, k, n) \in Seq(S)
    BY <1>1, <2>2
  <2>4. <<o.value>> \in Seq(S) OBVIOUS
  <2> HIDE DEF S, k, n
  <2>5. SubSeq(s, 1, k - 1) \o <<o.value>> \in Seq(S) BY <1>6, <2>3, <2>4
  <2>6. SubSeq(s, 1, k - 1) \o <<o.value>> \o SubSeq(s, k, n) \in Seq(S) BY <1>6, <2>3, <2>5
  <2> QED BY <1>2, <2>1, <2>6
<1>4. CASE o.op = "remove"
  <2>1. Edited(s, o) = SubSeq(s, 1, o.at - 1) \o SubSeq(s, o.at + 1, n)
    BY <1>4 DEF Edited, Removed
  <2>2. o.at \in 1 .. n BY <1>1, <1>4
  <2>3. SubSeq(s, 1, o.at - 1) \in Seq(S) /\ SubSeq(s, o.at + 1, n) \in Seq(S)
    BY <1>1, <2>2
  <2> HIDE DEF S, n
  <2>4. SubSeq(s, 1, o.at - 1) \o SubSeq(s, o.at + 1, n) \in Seq(S) BY <1>6, <2>3
  <2> QED BY <1>2, <2>1, <2>4
<1>5. CASE o.op \notin {"add", "remove"}
  <2>1. Edited(s, o) = [s EXCEPT ![o.at] = o.value] BY <1>5 DEF Edited
  <2>2. o.value \in S OBVIOUS
  <2>3. [s EXCEPT ![o.at] = o.value] \in Seq(S)
    <3> HIDE DEF S
    <3> QED BY <1>1, <1>7, <2>2
  <2> HIDE DEF S
  <2> QED BY <1>2, <2>1, <2>3
<1> QED BY <1>3, <1>4, <1>5

\* No permitted operation reaches what is fixed in a contract (_IMMUTABLE_ROOTS).
LEMMA PatchKeepsIdentity ==
  ASSUME IndicesAreCounts, NEW c, NEW o \in Operation, Identified(c), Applies(c, o)
  PROVE  Identified(Patched(c, o))
<1>1. CASE o.root = "description"
  BY <1>1 DEF Patched, Identified, IsContract, Frozen
<1>2. CASE o.root = "preconditions"
  BY <1>2 DEF Patched, Identified, IsContract, Frozen
<1>3. CASE o.root = "failure_policy"
  BY <1>3 DEF Patched, Identified, IsContract, Frozen
<1>4. CASE o.root = "steps"
  <2> DEFINE steps == Edited(c.steps, o)
  <2>1. Patched(c, o) = [c EXCEPT !.steps = steps] BY <1>4 DEF Patched
  <2>2. IsList(steps)
    BY <1>4, EditKeepsList DEF IndicesAreCounts, Applies, Identified, IsContract
  <2> HIDE DEF steps
  <2> QED BY <2>1, <2>2 DEF Identified, IsContract, Frozen
<1>5. CASE o.root \notin {"description", "preconditions", "failure_policy", "steps"}
  <2> DEFINE rules == Edited(c.rules, o)
  <2>1. Patched(c, o) = [c EXCEPT !.rules = rules] BY <1>5 DEF Patched
  <2> HIDE DEF rules
  <2> QED BY <2>1 DEF Identified, IsContract, Frozen
<1> QED BY <1>1, <1>2, <1>3, <1>4, <1>5

\* At the start the contract of the files is in force and nothing is under way.
LEMMA GatesInvInit == ASSUME FilesAreValid, GatesInit PROVE GatesInv
BY DEF FilesAreValid, GatesInit, GatesInv, InForceIsSound, DraftIsIdentified,
       InstalledHasPassed, Sound, Identified

\* Every step of a batch, and of a question, keeps the invariant.
LEMMA GatesInvStep ==
  ASSUME IndicesAreCounts, GatesInv, [GatesNext]_gvars
  PROVE  GatesInv'
<1> USE DEF GatesInv
<1>1. CASE Propose
  BY <1>1 DEF Propose, InForceIsSound, DraftIsIdentified, InstalledHasPassed, Sound
<1>2. ASSUME NEW o \in Operation, PatchCandidate(o) PROVE GatesInv'
  <2>1. active' = active /\ parent' = parent /\ installed' = installed
    BY <1>2 DEF PatchCandidate
  <2>2. draft # None /\ draft.stage = "patch" BY <1>2 DEF PatchCandidate, Drafting
  <2> DEFINE patched == Patched(draft.contract, o)
  <2>3. \/ /\ Applies(draft.contract, o)
           /\ draft' = [draft EXCEPT !.contract = patched, !.ops = draft.ops + 1]
        \/ draft' = None
    BY <1>2 DEF PatchCandidate
  <2>4. Applies(draft.contract, o) => Identified(patched)
    BY <2>2, PatchKeepsIdentity DEF DraftIsIdentified
  <2> HIDE DEF patched
  <2>5. DraftIsIdentified'
    BY <2>1, <2>2, <2>3, <2>4 DEF DraftIsIdentified
  <2> QED BY <2>1, <2>5 DEF InForceIsSound, InstalledHasPassed
<1>3. CASE Validate
  <2>1. active' = active /\ parent' = parent /\ installed' = installed
    BY <1>3 DEF Validate
  <2>2. DraftIsIdentified'
    BY <1>3, <2>1 DEF Validate, Drafting, DraftIsIdentified
  <2> QED BY <2>1, <2>2 DEF InForceIsSound, InstalledHasPassed
<1>4. ASSUME NEW m \in Number, EvaluateDev(m) PROVE GatesInv'
  <2>1. draft # None /\ draft.stage = "dev" BY <1>4 DEF EvaluateDev, Drafting
  <2>2. Sound(draft.contract) BY <2>1 DEF DraftIsIdentified, Sound
  <2>3. CASE Promotes(m)
    <3>1. active' = draft.contract /\ parent' = active /\ installed' = m
      BY <1>4, <2>3 DEF EvaluateDev
    <3>2. draft' = [draft EXCEPT !.stage = "regression"] BY <1>4, <2>3 DEF EvaluateDev
    <3>3. Sound(parent') BY <3>1 DEF InForceIsSound
    <3>4. DraftIsIdentified' BY <2>1, <3>2, <3>3 DEF DraftIsIdentified
    <3> QED BY <2>2, <2>3, <3>1, <3>4 DEF InForceIsSound, InstalledHasPassed
  <2>4. CASE ~ Promotes(m)
    <3>1. draft' = None /\ active' = active /\ installed' = installed
      BY <1>4, <2>4 DEF EvaluateDev
    <3> QED BY <3>1 DEF InForceIsSound, DraftIsIdentified, InstalledHasPassed
  <2> QED BY <2>3, <2>4
<1>5. ASSUME NEW m \in Number, EvaluateRegression(m) PROVE GatesInv'
  <2>1. draft # None /\ draft.stage = "regression" BY <1>5 DEF EvaluateRegression, Drafting
  <2>2. Sound(parent) BY <2>1 DEF DraftIsIdentified
  <2>3. draft' = None BY <1>5 DEF EvaluateRegression
  <2>4. \/ active' = parent /\ installed' = None
        \/ active' = active /\ installed' = installed
    BY <1>5 DEF EvaluateRegression
  <2> QED BY <2>2, <2>3, <2>4 DEF InForceIsSound, DraftIsIdentified, InstalledHasPassed
<1>6. ASSUME UNCHANGED <<active, parent, draft, installed>> PROVE GatesInv'
  BY <1>6 DEF InForceIsSound, DraftIsIdentified, InstalledHasPassed
<1>7. CASE Compile \/ VerifyEvidence BY <1>6, <1>7 DEF Compile, VerifyEvidence
<1>8. ASSUME NEW q \in Query, Select(q) PROVE GatesInv' BY <1>6, <1>8 DEF Select
<1>9. ASSUME NEW got, NEW cut, Execute(got, cut) PROVE GatesInv'
  BY <1>6, <1>9 DEF Execute
<1>10. CASE UNCHANGED gvars BY <1>6, <1>10 DEF gvars
<1> QED BY <1>1, <1>2, <1>3, <1>4, <1>5, <1>7, <1>8, <1>9, <1>10 DEF GatesNext

\* The invariant holds in every state of a skill.
LEMMA GatesInvHolds ==
  ASSUME FilesAreValid, IndicesAreCounts
  PROVE  GatesSpec => []GatesInv
<1>1. GatesInit => GatesInv BY GatesInvInit
<1>2. GatesInv /\ [GatesNext]_gvars => GatesInv' BY GatesInvStep
<1> QED BY <1>1, <1>2, PTL DEF GatesSpec

\* PromotionStands for every numbers an evaluation may come to: no candidate is promoted
\* that the regression gate, given the same numbers, would take back (evolution.py).
THEOREM PromotionsStand ==
  ASSUME FilesAreValid, IndicesAreCounts, NumbersAreCounts
  PROVE  GatesSpec => []PromotionStands
<1>1. GatesInv => PromotionStands
  BY PromotedStands, NumbersAreCounts
     DEF GatesInv, InstalledHasPassed, PromotionStands, NumbersAreCounts
<1> QED BY <1>1, GatesInvHolds, FilesAreValid, IndicesAreCounts, PTL

\* ActiveIsSound for every patch: whatever operations a generator proposes, promoted and
\* rolled back in whatever order, the contract in force is a valid one with the identity,
\* the tools and the task types of the files (apply_candidate_patch, SkillContract).
THEOREM ActiveStaysSound ==
  ASSUME FilesAreValid, IndicesAreCounts
  PROVE  GatesSpec => []ActiveIsSound
<1>1. GatesInv => ActiveIsSound
  BY DEF GatesInv, InForceIsSound, Sound, Identified, ActiveIsSound
<1> QED BY <1>1, GatesInvHolds, FilesAreValid, IndicesAreCounts, PTL

\* A question's words are finitely many.
QuestionsAreFinite == \A q \in Query : IsFiniteSet(q.words)

NoneIsNoPlan == \A S : None \notin Seq(S)

\* How far a question is with its results: it goes on until the plan is through, and stops
\* before only on an error.
ResultsAreInTurn ==
  LET planned == run.stage \in {"planned", "executed", "verified"}
      n == Len(run.results)
  IN
  /\ run.results \in Seq(StepResult)
  /\ planned <=> run.plan # None
  /\ run.stage \in {"selected", "other", "refused"} \/ planned
  /\ run.stage = "selected" => n = 0
  /\ run.stage = "planned" => n < Len(run.plan)
  /\ run.stage \in {"executed", "verified"} => n = Len(run.plan) \/ (n > 0 /\ run.results[n] = "error")

SufficientIsLast == run.sufficient => run.stage = "verified"

PlanHasTheSteps == run.plan # None => Len(run.plan) = Len(run.contract.steps)

\* The inductive invariant of a question: the contract it has loaded is a sound one, its plan
\* has the contract's steps, and what is promised of it holds.
RunInv ==
  run # None =>
    /\ run = [query |-> run.query, skill |-> run.skill, contract |-> run.contract,
              plan |-> run.plan, results |-> run.results, sufficient |-> run.sufficient,
              stage |-> run.stage]
    /\ Sound(run.contract)
    /\ ResultsAreInTurn /\ SufficientIsLast /\ PlanHasTheSteps
    /\ PlansAreBounded /\ IntentDecides /\ SufficientIsBacked

\* A skill of another intent outbids those of the intent by words alone (select_skill).
LEMMA SelectionOutbids ==
  ASSUME QuestionsAreFinite, NEW q \in Query, NEW r \in Selected(q), q.intent \notin r.types
  PROVE  /\ Overlap(q, r) >= 2
         /\ q.intent \in Rival.types => Overlap(q, Rival) < Overlap(q, r)
<1>1. \A x \in Ready : Overlap(q, x) \in Nat
  <2> SUFFICES ASSUME NEW x \in Ready PROVE Overlap(q, x) \in Nat OBVIOUS
  <2>1. IsFiniteSet(q.words \cap (x.description \cup x.types))
    BY FS_Intersection DEF QuestionsAreFinite
  <2> QED BY <2>1, FS_CardinalityType DEF Overlap
<1>2. Overlap(q, r) >= 2 BY DEF Selected, Eligible
<1>3. ASSUME q.intent \in Rival.types PROVE Overlap(q, Rival) < Overlap(q, r)
  <2>1. r \in Ready /\ Rival \in Ready \ {r} BY <1>3 DEF Selected, Ready
  <2>2. CASE Eligible(q, Rival)
    <3>1. Before(q, r, Rival) BY <2>1, <2>2 DEF Selected
    <3>2. Score(q, r) = 3 * Overlap(q, r) + 0 BY DEF Score
    <3>3. Score(q, Rival) = 3 * Overlap(q, Rival) + 2 BY <1>3 DEF Score
    <3>4. Overlap(q, r) \in Nat /\ Overlap(q, Rival) \in Nat BY <1>1, <2>1
    <3>5. Score(q, r) >= Score(q, Rival) BY <3>1, <3>2, <3>3, <3>4 DEF Before
    <3> QED BY <3>2, <3>3, <3>4, <3>5
  <2>3. CASE ~ Eligible(q, Rival)
    <3>1. ~ Overlap(q, Rival) > 0 BY <1>3, <2>3 DEF Eligible
    <3>2. Overlap(q, r) \in Nat /\ Overlap(q, Rival) \in Nat BY <1>1, <2>1
    <3> QED BY <1>2, <3>1, <3>2
  <2> QED BY <2>2, <2>3
<1> QED BY <1>2, <1>3

LEMMA SelectHolds ==
  ASSUME QuestionsAreFinite, GatesInv, NEW q \in Query, Select(q)
  PROVE  RunInv'
<1>1. run' = [query |-> q, skill |-> Selected(q), contract |-> active, plan |-> None,
              results |-> <<>>, sufficient |-> FALSE, stage |-> run'.stage]
      /\ run'.stage \in {"selected", "other", "refused"}
  BY DEF Select
<1>2. Sound(run'.contract) BY <1>1 DEF GatesInv, InForceIsSound
<1>3. ResultsAreInTurn'
  <2>1. run'.results = <<>> /\ run'.plan = None BY <1>1
  <2>2. <<>> \in Seq(StepResult) /\ Len(<<>>) = 0 OBVIOUS
  <2> QED BY <1>1, <2>1, <2>2 DEF ResultsAreInTurn
<1>4. PlansAreBounded' /\ PlanHasTheSteps' BY <1>1 DEF PlansAreBounded, PlanHasTheSteps
<1>5. IntentDecides'
  <2>1. \A r \in Selected(q) : q.intent \notin r.types =>
          /\ Overlap(q, r) >= 2
          /\ q.intent \in Rival.types => Overlap(q, Rival) < Overlap(q, r)
    BY SelectionOutbids
  <2>2. run'.skill = Selected(q) /\ run'.query = q BY <1>1
  <2> HIDE <1>1
  <2> QED BY <2>1, <2>2 DEF IntentDecides, Overlap
<1>6. SufficientIsBacked' /\ SufficientIsLast' BY <1>1 DEF SufficientIsBacked, SufficientIsLast
<1> QED BY <1>1, <1>2, <1>3, <1>4, <1>5, <1>6 DEF RunInv

\* A plan has the steps of a sound contract.
LEMMA CompileHolds == ASSUME NoneIsNoPlan, RunInv, Compile PROVE RunInv'
<1> DEFINE steps == run.contract.steps
           plan == [i \in DOMAIN steps |->
                      [action |-> steps[i].action, given |-> steps[i].needs <= run.query.dates]]
<1>1. run # None /\ run.stage = "selected" /\ run' = [run EXCEPT !.stage = "planned", !.plan = plan]
  BY DEF Compile
<1>2. Sound(run.contract) /\ ResultsAreInTurn /\ IntentDecides BY <1>1 DEF RunInv
<1>3. /\ Len(steps) \in 1 .. 3 /\ DOMAIN steps = 1 .. Len(steps)
      /\ \A i \in DOMAIN steps : steps[i].action \in Initial.tools
  BY <1>2 DEF Sound, Identified, IsContract, IsList, Valid, ActionsAllowed, Frozen
<1>4. /\ Len(plan) = Len(steps) /\ DOMAIN plan = 1 .. Len(steps)
      /\ \A i \in DOMAIN plan : plan[i].action \in Initial.tools
  BY <1>3
<1>5. plan # None
  <2>1. plan \in Seq({plan[i] : i \in DOMAIN plan}) BY <1>3
  <2> QED BY <2>1 DEF NoneIsNoPlan
<1> HIDE DEF plan
<1>6. run' = [query |-> run.query, skill |-> run.skill, contract |-> run.contract, plan |-> plan,
              results |-> run.results, sufficient |-> run.sufficient, stage |-> "planned"]
  BY <1>1 DEF RunInv
<1>7. ResultsAreInTurn'
  <2>1. Len(plan) \in 1 .. 3 BY <1>3, <1>4
  <2>2. run.results \in Seq(StepResult) /\ Len(run.results) = 0
    BY <1>1, <1>2 DEF ResultsAreInTurn
  <2>3. run'.stage = "planned" /\ run'.plan = plan /\ run'.results = run.results BY <1>6
  <2>4. (run.results \in Seq(StepResult))' BY <2>2, <2>3 DEF StepResult
  <2>5. Len(run'.results) = 0 /\ Len(run'.plan) \in 1 .. 3 BY <2>1, <2>2, <2>3, Zenon
  <2>6. \A m, n : m = 0 /\ n \in 1 .. 3 => m < n OBVIOUS
  <2>7. Len(run'.results) < Len(run'.plan) BY <2>5, <2>6, Zenon
  <2> QED BY <1>5, <2>3, <2>4, <2>7 DEF ResultsAreInTurn
<1>8. PlansAreBounded' /\ PlanHasTheSteps'
  BY <1>3, <1>4, <1>6 DEF PlansAreBounded, PlanHasTheSteps
<1>9. IntentDecides' BY <1>1, <1>2, <1>6 DEF IntentDecides, Overlap
<1>10. SufficientIsBacked'
  <2>1. ~ run.sufficient BY <1>1 DEF RunInv, SufficientIsLast
  <2> QED BY <1>6, <2>1 DEF SufficientIsBacked
<1>11. SufficientIsLast' BY <1>1, <1>6 DEF RunInv, SufficientIsLast
<1> QED BY <1>2, <1>6, <1>7, <1>8, <1>9, <1>10, <1>11 DEF RunInv

\* Results come one by one, and an error may be the last.
LEMMA ExecuteHolds ==
  ASSUME RunInv, NEW got \in StepResult, NEW cut \in BOOLEAN, Execute(got, cut)
  PROVE  RunInv'
<1> DEFINE given == Append(run.results, got)
           next == IF cut \/ Len(given) = Len(run.plan) THEN "executed" ELSE run.stage
<1>1. /\ run # None /\ run.stage = "planned" /\ (cut => got = "error")
      /\ run' = [run EXCEPT !.results = given, !.stage = next]
  BY DEF Execute
<1>2. /\ Sound(run.contract) /\ ResultsAreInTurn /\ IntentDecides /\ PlansAreBounded
      /\ PlanHasTheSteps /\ ~ run.sufficient
  BY <1>1 DEF RunInv, SufficientIsLast
<1>3. run.plan # None /\ Len(run.results) \in Nat /\ Len(run.results) < Len(run.plan)
      /\ Len(run.plan) \in Nat /\ run.results \in Seq(StepResult)
  BY <1>1, <1>2 DEF ResultsAreInTurn, PlansAreBounded
<1>4. given \in Seq(StepResult) /\ Len(given) = Len(run.results) + 1 /\ given[Len(given)] = got
  BY <1>3
<1>5. \/ next = "executed" /\ (Len(given) = Len(run.plan) \/ got = "error")
      \/ next = "planned" /\ Len(given) < Len(run.plan)
  BY <1>1, <1>3, <1>4
<1> HIDE DEF given, next
<1>6. run' = [query |-> run.query, skill |-> run.skill, contract |-> run.contract, plan |-> run.plan,
              results |-> given, sufficient |-> run.sufficient, stage |-> next]
  BY <1>1 DEF RunInv
<1>7. ResultsAreInTurn' BY <1>3, <1>4, <1>5, <1>6 DEF ResultsAreInTurn
<1>8. PlansAreBounded' /\ PlanHasTheSteps'
  BY <1>1, <1>2, <1>6 DEF PlansAreBounded, PlanHasTheSteps
<1>9. IntentDecides' BY <1>1, <1>2, <1>6 DEF IntentDecides, Overlap
<1>10. SufficientIsBacked' /\ SufficientIsLast'
  BY <1>2, <1>6 DEF SufficientIsBacked, SufficientIsLast
<1> QED BY <1>2, <1>6, <1>7, <1>8, <1>9, <1>10 DEF RunInv

\* The id of a step of a sound contract names that step and no other.
LEMMA StepIsNamed ==
  ASSUME NEW c, Sound(c), NEW i \in DOMAIN c.steps
  PROVE  StepOf(c, c.steps[i].id) = i
<1> DEFINE n == Len(c.steps)
           S == 1 .. n
           f == [k \in S |-> c.steps[k].id]
<1>1. n \in Nat /\ DOMAIN c.steps = S /\ Cardinality(Ids(c.steps)) = n
  BY DEF Sound, Identified, IsContract, IsList, Valid
<1>2. f \in Surjection(S, Ids(c.steps)) BY <1>1 DEF Surjection, Ids
<1>3. IsFiniteSet(S) /\ Cardinality(S) = n BY <1>1, FS_Interval
<1> HIDE DEF S, n
<1>4. f \in Injection(S, Ids(c.steps))
  <2> HIDE DEF f
  <2> QED BY <1>1, <1>2, <1>3, FS_Surjection
<1>5. \A k \in S : c.steps[k].id = c.steps[i].id => k = i
  BY <1>1, <1>4 DEF Injection, IsInjective
<1> QED BY <1>1, <1>5 DEF StepOf

\* What is verified is through, or ends with an error and is not sufficient.
LEMMA VerifyHolds == ASSUME RunInv, VerifyEvidence PROVE RunInv'
<1> DEFINE enough == /\ \A i \in DOMAIN run.results : run.results[i] # "error"
                     /\ run.contract.rules # <<>>
                     /\ \A i \in DOMAIN run.contract.rules :
                          RulePasses(run.contract, run.contract.rules[i], run.results)
<1>1. /\ run # None /\ run.stage = "executed"
      /\ run' = [run EXCEPT !.stage = "verified", !.sufficient = enough]
  BY DEF VerifyEvidence
<1>2. /\ Sound(run.contract) /\ ResultsAreInTurn /\ IntentDecides /\ PlansAreBounded
      /\ PlanHasTheSteps
  BY <1>1 DEF RunInv
<1>3. /\ run.plan # None /\ run.results \in Seq(StepResult)
      /\ Len(run.results) = Len(run.plan)
           \/ (Len(run.results) > 0 /\ run.results[Len(run.results)] = "error")
  BY <1>1, <1>2 DEF ResultsAreInTurn
<1>4. ASSUME enough
      PROVE  /\ Len(run.results) = Len(run.plan) /\ run.contract.rules # <<>>
             /\ \A i \in DOMAIN run.results :
                  \/ run.results[i] = "ok"
                  \/ /\ run.results[i] = "short"
                     /\ \A j \in DOMAIN run.contract.rules :
                          run.contract.rules[j] # run.contract.steps[i].id
  <2>1. \A i \in DOMAIN run.results : run.results[i] \in {"ok", "short"}
    BY <1>3, <1>4 DEF StepResult
  <2>2. Len(run.results) = Len(run.plan) BY <1>3, <2>1
  <2>3. DOMAIN run.results \subseteq DOMAIN run.contract.steps
    BY <1>2, <1>3, <2>2 DEF Sound, Identified, IsContract, IsList, PlanHasTheSteps
  <2>4. ASSUME NEW i \in DOMAIN run.results, NEW j \in DOMAIN run.contract.rules,
               run.contract.rules[j] = run.contract.steps[i].id
        PROVE  run.results[i] = "ok"
    <3>1. StepOf(run.contract, run.contract.rules[j]) = i BY <1>2, <2>3, <2>4, StepIsNamed
    <3> QED BY <1>4, <3>1 DEF RulePasses
  <2> QED BY <1>4, <2>1, <2>2, <2>4
<1> HIDE DEF enough
<1>5. run' = [query |-> run.query, skill |-> run.skill, contract |-> run.contract, plan |-> run.plan,
              results |-> run.results, sufficient |-> enough, stage |-> "verified"]
  BY <1>1 DEF RunInv
<1>6. ResultsAreInTurn' BY <1>2, <1>3, <1>5 DEF ResultsAreInTurn
<1>7. PlansAreBounded' /\ PlanHasTheSteps'
  BY <1>1, <1>2, <1>5 DEF PlansAreBounded, PlanHasTheSteps
<1>8. IntentDecides' BY <1>1, <1>2, <1>5 DEF IntentDecides, Overlap
<1>9. SufficientIsBacked' /\ SufficientIsLast'
  BY <1>4, <1>5 DEF SufficientIsBacked, SufficientIsLast
<1> QED BY <1>2, <1>5, <1>6, <1>7, <1>8, <1>9 DEF RunInv

LEMMA RunInvStep ==
  ASSUME QuestionsAreFinite, NoneIsNoPlan, GatesInv, RunInv, [GatesNext]_gvars
  PROVE  RunInv'
<1>1. ASSUME UNCHANGED run PROVE RunInv'
  BY <1>1 DEF RunInv, ResultsAreInTurn, PlansAreBounded, IntentDecides, Overlap,
              SufficientIsBacked, SufficientIsLast, PlanHasTheSteps
<1>2. CASE \/ Propose \/ Validate \/ UNCHANGED gvars
           \/ \E o \in Operation : PatchCandidate(o)
           \/ \E m \in Number : EvaluateDev(m) \/ EvaluateRegression(m)
  <2>1. UNCHANGED run
    BY <1>2 DEF Propose, Validate, gvars, PatchCandidate, EvaluateDev, EvaluateRegression
  <2> QED BY <1>1, <2>1
<1> QED BY <1>2, SelectHolds, CompileHolds, ExecuteHolds, VerifyHolds DEF GatesNext

\* Whatever patches have made of the contract: a run of it has one to three actions, of the
\* tools of the files (compiler.py); a skill of another intent is chosen for its words alone
\* (selector.py); and a sufficient run has a result for every action, and the one every rule asks for
\* (verifier.py).
THEOREM RunsPassTheGates ==
  ASSUME FilesAreValid, IndicesAreCounts, QuestionsAreFinite, NoneIsNoPlan
  PROVE  GatesSpec => [](PlansAreBounded /\ IntentDecides /\ SufficientIsBacked)
<1>1. GatesInit => RunInv BY DEF GatesInit, RunInv
<1>2. GatesInv /\ RunInv /\ [GatesNext]_gvars => RunInv' BY RunInvStep
<1>3. RunInv => PlansAreBounded /\ IntentDecides /\ SufficientIsBacked
  BY DEF RunInv, PlansAreBounded, IntentDecides, SufficientIsBacked
<1> QED BY <1>1, <1>2, <1>3, GatesInvHolds, FilesAreValid, IndicesAreCounts, PTL DEF GatesSpec

-----------------------------------------------------------------------------
(* What the offline programs pay for (EvaluationRuns) *)

Checkpoint == [E!Key -> E!KeyRow \cup {None}]

\* The two files, the copy in memory and the history are of their kinds.
EvaluationTyped ==
  /\ saved \in Checkpoint /\ rows \in [Cell -> {None, "completed", "nil"}]
  /\ program \in {None, "matrix", "batch"}
  /\ program # None => budget \in Checkpoint
  /\ stage \in {"idle", "calling", "recording"}
  /\ tokens \in [calls : Nat, told : Nat, failed : BOOLEAN]
  /\ billed \in [E!Key -> Nat] /\ attempts \in [E!Key -> Nat] /\ lost \in [E!Key -> Nat]
  /\ tried \in SUBSET E!Key

\* What is completed in the file is so in memory; what is completed only there was tried,
\* and what was tried is completed there or under way.
BooksAgree ==
  /\ program = None => tried = {} /\ stage = "idle"
  /\ program # None => \A k \in E!Key :
       /\ E!Completed(saved, k) => E!Completed(budget, k)
       /\ E!Completed(budget, k) => E!Completed(saved, k) \/ k \in tried
       /\ k \in tried => E!Completed(budget, k) \/ (stage = "calling" /\ key = k)

\* The attempt under way is reserved in the file, and is told all it was billed for.
AttemptStands ==
  stage = "calling" =>
    /\ key \in E!Key /\ key \in tried /\ (program = "matrix" => key \in Cell)
    /\ saved = budget /\ saved[key] = E!Reservation /\ E!Fits(key)
    /\ tokens.failed \/ tokens.told = billed[key]

\* Known costs are what was billed, in the file and in memory.
CostsAgree ==
  /\ E!CostsAreBilled
  /\ program # None =>
       \A k \in E!Key : E!Completed(budget, k) /\ ~ budget[k].unknown => budget[k].actual = billed[k]

\* A row of a completed case has its settlement in the file, a row about to be written too.
RowsStand ==
  /\ \A c \in Cell : rows[c] = "completed" => E!Completed(saved, c)
  /\ stage = "recording" =>
       /\ program = "matrix" /\ key \in Cell /\ result \in {"completed", "nil"}
       /\ result = "completed" => E!Completed(saved, key)

\* The inductive invariant: file and memory agree up to what this process has tried.
EvaluationInv ==
  EvaluationTyped /\ BooksAgree /\ AttemptStands /\ CostsAgree /\ RowsStand /\ E!PaidOnce

USE DEF EvaluationInv

\* Empty files agree with a program that does not run.
LEMMA EvaluationBegins == ASSUME E!EvaluationAssumption, E!EvaluationInit PROVE EvaluationInv
BY DEF E!EvaluationAssumption, E!EvaluationInit, EvaluationTyped, Checkpoint, BooksAgree, AttemptStands,
   CostsAgree, E!CostsAreBilled, RowsStand, E!PaidOnce, E!Completed, E!NoTokens, E!KeyRow

\* A process may end if the file it leaves is no older than the last one, and true.
LEMMA EndsHold ==
  ASSUME E!EvaluationAssumption, EvaluationInv, program # None,
         NEW f \in Checkpoint, saved' = f, E!Ends(f),
         \A k \in E!Key : E!Completed(saved, k) => E!Completed(f, k),
         \A k \in E!Key : E!Completed(f, k) => E!Completed(saved, k) \/ k \in tried,
         \A k \in E!Key : E!Completed(f, k) /\ ~ f[k].unknown => f[k].actual = billed[k],
         UNCHANGED <<rows, billed, attempts>>
  PROVE  EvaluationInv'
<1>1. EvaluationTyped'
  BY DEF EvaluationTyped, E!Ends, E!NoTokens, E!EvaluationAssumption
<1>2. BooksAgree' /\ AttemptStands'
  BY DEF E!Ends, BooksAgree, AttemptStands
<1>3. CostsAgree'
  BY DEF E!Ends, CostsAgree, E!CostsAreBilled, E!Completed
<1>4. RowsStand'
  <2>1. \A k \in E!Key : E!Completed(saved', k) <=> E!Completed(f, k) BY DEF E!Completed
  <2>2. Cell \subseteq E!Key BY DEF E!Key
  <2>3. stage' = "idle" BY DEF E!Ends
  <2> QED BY <2>1, <2>2, <2>3 DEF RowsStand
<1>5. E!PaidOnce'
  <2> SUFFICES ASSUME NEW k \in E!Key
      PROVE  attempts[k] = lost'[k] + (IF E!Completed(f, k) THEN 1 ELSE 0)
    BY DEF E!PaidOnce, E!Ends, E!Completed
  <2>1. attempts[k] = lost[k] + (IF k \in tried \/ E!Completed(saved, k) THEN 1 ELSE 0)
    BY DEF E!PaidOnce
  <2>2. lost'[k] = lost[k] + (IF k \in tried /\ ~ E!Completed(f, k) THEN 1 ELSE 0)
    BY DEF E!Ends
  <2>3. lost[k] \in Nat /\ attempts[k] \in Nat BY DEF EvaluationTyped
  <2> QED BY <2>1, <2>2, <2>3
<1> QED BY <1>1, <1>2, <1>3, <1>4, <1>5

\* A process that starts has in memory what the file says.
LEMMA StartHolds ==
  ASSUME E!EvaluationAssumption, EvaluationInv, NEW p \in {"matrix", "batch"}, E!Start(p)
  PROVE  EvaluationInv'
<1>1. EvaluationTyped' BY DEF E!Start, EvaluationTyped
<1>2. BooksAgree' /\ AttemptStands'
  BY DEF E!Start, BooksAgree, AttemptStands, E!EvaluationAssumption, E!Completed
<1>3. CostsAgree' /\ RowsStand' /\ E!PaidOnce'
  BY DEF E!Start, CostsAgree, E!CostsAreBilled, RowsStand, E!PaidOnce, E!Completed, BooksAgree
<1> QED BY <1>1, <1>2, <1>3

\* A reservation leaves every completed key as it is and begins one attempt.
LEMMA ReserveHolds ==
  ASSUME E!EvaluationAssumption, EvaluationInv, NEW k \in E!Key, E!Reserve(k)
  PROVE  EvaluationInv'
<1>0. /\ budget \in Checkpoint /\ E!Reservation \in E!KeyRow /\ E!Reservation # None
      /\ program # None /\ stage = "idle" /\ ~ E!Completed(budget, k)
      /\ budget' = [budget EXCEPT ![k] = E!Reservation] /\ saved' = budget' /\ E!Fits(k)
      /\ UNCHANGED <<rows, program, result, lost, faults>>
  <2>1. E!Reservation \in E!KeyRow BY DEF E!Reservation, E!KeyRow
  <2>2. E!Reservation # None BY <2>1 DEF E!EvaluationAssumption
  <2> QED BY <2>1, <2>2 DEF E!Reserve, E!Written, EvaluationTyped
<1>1. /\ \A j \in E!Key : E!Completed(budget', j) <=> E!Completed(budget, j)
      /\ \A j \in E!Key : E!Completed(budget, j) => budget'[j] = budget[j]
      /\ budget'[k] = E!Reservation
  BY <1>0 DEF E!Completed, Checkpoint, E!Reservation
<1>2. EvaluationTyped'
  BY <1>0 DEF E!Reserve, EvaluationTyped, Checkpoint, E!NoTokens
<1>3. BooksAgree'
  BY <1>0, <1>1 DEF E!Reserve, BooksAgree, E!Completed
<1>4. AttemptStands'
  <2>1. E!Costs(budget') = E!Costs(budget) BY <1>0, <1>1 DEF E!Costs, Checkpoint
  <2>2. E!Fits(k)' BY <1>0, <2>1 DEF E!Fits, E!Spent
  <2>3. key' = k /\ tokens' = E!NoTokens /\ billed'[k] = 0 /\ k \in tried'
    BY DEF E!Reserve, EvaluationTyped
  <2>4. program = "matrix" => k \in Cell BY DEF E!Reserve, E!Pending
  <2> QED BY <1>0, <1>1, <2>2, <2>3, <2>4 DEF AttemptStands, E!NoTokens
<1>5. CostsAgree'
  BY <1>0, <1>1 DEF E!Reserve, CostsAgree, E!CostsAreBilled, BooksAgree, EvaluationTyped, E!Completed
<1>6. RowsStand'
  <2>1. Cell \subseteq E!Key BY DEF E!Key
  <2>2. stage' = "calling" BY DEF E!Reserve
  <2>3. \A j \in E!Key : E!Completed(saved, j) => E!Completed(saved', j)
    BY <1>0, <1>1 DEF BooksAgree, E!Completed
  <2> QED BY <1>0, <2>1, <2>2, <2>3 DEF RowsStand
<1>7. E!PaidOnce'
  <2> SUFFICES ASSUME NEW j \in E!Key
      PROVE  attempts'[j] = lost[j] + (IF j \in tried' \/ E!Completed(saved', j) THEN 1 ELSE 0)
    BY <1>0 DEF E!PaidOnce, E!Completed
  <2>1. attempts[j] = lost[j] + (IF j \in tried \/ E!Completed(saved, j) THEN 1 ELSE 0)
    BY DEF E!PaidOnce
  <2>2. attempts' = [attempts EXCEPT ![k] = @ + 1] /\ tried' = tried \cup {k} BY DEF E!Reserve
  <2>3. lost[j] \in Nat /\ attempts \in [E!Key -> Nat] BY DEF EvaluationTyped
  <2>4. k \notin tried /\ ~ E!Completed(saved, k) BY <1>0 DEF BooksAgree
  <2>5. E!Completed(saved', j) => E!Completed(saved, j) \/ j \in tried
    BY <1>0, <1>1 DEF BooksAgree, E!Completed
  <2>6. E!Completed(saved, j) => E!Completed(saved', j)
    BY <1>0, <1>1 DEF BooksAgree, E!Completed
  <2> QED BY <2>1, <2>2, <2>3, <2>4, <2>5, <2>6
<1> QED BY <1>2, <1>3, <1>4, <1>5, <1>6, <1>7

\* What a refusal leaves in memory: the same keys completed, at the same cost.
LEMMA RefusalHolds ==
  ASSUME E!EvaluationAssumption, EvaluationInv, NEW k \in E!Key, E!Refuse(k)
  PROVE  EvaluationInv'
<1>0. /\ program # None /\ stage = "idle" /\ budget \in Checkpoint
      /\ UNCHANGED <<rows, program, tokens, billed, attempts, lost, tried>>
  BY DEF E!Refuse, EvaluationTyped
<1>a. E!Reservation \in E!KeyRow BY DEF E!Reservation, E!KeyRow
<1>1. \/ budget' = budget
      \/ ~ E!Completed(budget, k) /\ budget' = [budget EXCEPT ![k] = E!Reservation]
  BY DEF E!Refuse
<1>2. /\ budget' \in Checkpoint
      /\ \A j \in E!Key : E!Completed(budget', j) <=> E!Completed(budget, j)
      /\ \A j \in E!Key : E!Completed(budget, j) => budget'[j] = budget[j]
  <2>1. CASE budget' = budget BY <1>0, <2>1 DEF E!Completed
  <2>2. CASE ~ E!Completed(budget, k) /\ budget' = [budget EXCEPT ![k] = E!Reservation]
    <3>1. budget' \in Checkpoint /\ budget'[k] = E!Reservation BY <1>0, <1>a, <2>2 DEF Checkpoint
    <3>2. \A j \in E!Key : j # k => budget'[j] = budget[j] BY <1>0, <2>2 DEF Checkpoint
    <3>3. ~ E!Completed(budget', k) BY <3>1 DEF E!Completed, E!Reservation
    <3> QED BY <2>2, <3>1, <3>2, <3>3 DEF E!Completed
  <2> QED BY <1>1, <2>1, <2>2
<1>3. saved' = saved \/ saved' = budget
  BY DEF E!Refuse, E!Written, E!Unwritten
<1>4. /\ saved' \in Checkpoint
      /\ \A j \in E!Key : E!Completed(saved, j) => E!Completed(saved', j)
      /\ \A j \in E!Key : E!Completed(saved', j) => E!Completed(budget, j)
  BY <1>0, <1>3 DEF BooksAgree, EvaluationTyped, E!Completed
<1>5. \/ program = "matrix" /\ stage' = "recording" /\ key' = k /\ result' = "nil"
      \/ program # "matrix" /\ stage' = "idle" /\ key' = None /\ result' = None
  BY <1>0 DEF E!Refuse, E!Concludes
<1>6. program = "matrix" => k \in Cell BY DEF E!Refuse, E!Pending
<1>7. EvaluationTyped'
  BY <1>0, <1>2, <1>4, <1>5 DEF EvaluationTyped
<1>8. BooksAgree' /\ AttemptStands'
  <2>1. stage' # "calling" BY <1>5
  <2>2. \A j \in E!Key : j \in tried => E!Completed(budget, j) BY <1>0 DEF BooksAgree
  <2>3. \A j \in E!Key : E!Completed(budget, j) => E!Completed(saved, j) \/ j \in tried
    BY <1>0 DEF BooksAgree
  <2> QED BY <1>0, <1>2, <1>4, <2>1, <2>2, <2>3 DEF BooksAgree, AttemptStands, E!Completed
<1>9. CostsAgree'
  BY <1>0, <1>2, <1>3 DEF CostsAgree, E!CostsAreBilled, E!Completed
<1>10. RowsStand'
  <2>1. Cell \subseteq E!Key BY DEF E!Key
  <2> QED BY <1>0, <1>4, <1>5, <1>6, <2>1 DEF RowsStand
<1>11. E!PaidOnce'
  <2>1. \A j \in E!Key : (j \in tried \/ E!Completed(saved', j)) <=> (j \in tried \/ E!Completed(saved, j))
    BY <1>0, <1>4 DEF BooksAgree
  <2> QED BY <1>0, <2>1 DEF E!PaidOnce, E!Completed
<1> QED BY <1>7, <1>8, <1>9, <1>10, <1>11

\* A call is billed to the attempt, which is told so or counts as failed.
LEMMA CallHolds ==
  ASSUME E!EvaluationAssumption, EvaluationInv, NEW amount \in Bill \cup {0}, NEW told \in BOOLEAN,
         E!Call(amount, told)
  PROVE  EvaluationInv'
<1>0. /\ amount \in Nat /\ stage = "calling" /\ key \in E!Key /\ saved = budget
      /\ saved[key] = E!Reservation /\ program # None
      /\ UNCHANGED <<saved, rows, program, budget, round, key, stage, result, attempts, lost, tried>>
  BY DEF E!Call, E!EvaluationAssumption, AttemptStands, BooksAgree
<1>1. /\ tokens' \in [calls : Nat, told : Nat, failed : BOOLEAN]
      /\ billed' \in [E!Key -> Nat]
  BY <1>0 DEF E!Call, EvaluationTyped
<1>2. EvaluationTyped' BY <1>0, <1>1 DEF EvaluationTyped
<1>3. BooksAgree' BY <1>0 DEF BooksAgree, E!Completed
<1>4. AttemptStands'
  <2>1. tokens'.failed \/ tokens'.told = billed'[key]
    BY <1>0 DEF E!Call, AttemptStands, EvaluationTyped
  <2>2. E!Fits(key)' BY <1>0 DEF AttemptStands, E!Fits, E!Spent, E!Costs, E!Completed
  <2> QED BY <1>0, <2>1, <2>2 DEF AttemptStands
<1>5. CostsAgree'
  <2>1. ~ E!Completed(saved, key) BY <1>0 DEF E!Completed, E!Reservation
  <2>2. \A j \in E!Key : j # key => billed'[j] = billed[j] BY DEF E!Call, EvaluationTyped
  <2> QED BY <1>0, <2>1, <2>2 DEF CostsAgree, E!CostsAreBilled, E!Completed
<1>6. RowsStand' /\ E!PaidOnce' BY <1>0 DEF RowsStand, E!PaidOnce, E!Completed
<1> QED BY <1>2, <1>3, <1>4, <1>5, <1>6

\* A settlement completes one key, in memory always and in the file if it is written.
LEMMA SettleHolds ==
  ASSUME E!EvaluationAssumption, EvaluationInv, NEW end \in {"result", "error", "interrupt"},
         E!Settle(end)
  PROVE  EvaluationInv'
<1> DEFINE settled == [budget EXCEPT ![key] = E!Settlement]
<1>0. /\ stage = "calling" /\ key \in E!Key /\ saved = budget /\ key \in tried
      /\ saved[key] = E!Reservation /\ program # None /\ budget \in Checkpoint
      /\ tokens.failed \/ tokens.told = billed[key]
      /\ program = "matrix" => key \in Cell
      /\ UNCHANGED <<rows, billed, attempts>>
  BY DEF E!Settle, AttemptStands, BooksAgree, EvaluationTyped
<1>1. E!Settlement \in E!KeyRow /\ E!Settlement # None
  <2>1. Worst[key] \in Nat /\ tokens.told \in Nat BY <1>0 DEF E!EvaluationAssumption, EvaluationTyped
  <2>2. E!IsUnknown \in BOOLEAN BY DEF E!IsUnknown, EvaluationTyped
  <2>3. E!Settlement \in E!KeyRow BY <2>1, <2>2 DEF E!Settlement, E!KeyRow
  <2> QED BY <2>3 DEF E!EvaluationAssumption
<1>2. /\ settled \in Checkpoint
      /\ settled[key] = E!Settlement
      /\ E!Completed(settled, key)
      /\ \A j \in E!Key : j # key => settled[j] = budget[j]
      /\ \A j \in E!Key : j # key => (E!Completed(settled, j) <=> E!Completed(budget, j))
  BY <1>0, <1>1 DEF Checkpoint, E!Completed, E!Settlement
<1>3. \A j \in E!Key : E!Completed(settled, j) /\ ~ settled[j].unknown => settled[j].actual = billed[j]
  <2>1. ~ E!IsUnknown => tokens.told = billed[key] BY <1>0 DEF E!IsUnknown
  <2>2. ~ E!Settlement.unknown => E!Settlement.actual = billed[key] BY <2>1 DEF E!Settlement
  <2> QED BY <1>0, <1>2, <2>2 DEF CostsAgree, E!Completed
<1>a. \/ E!Written(settled) /\ E!Ends(settled)
      \/ /\ budget' = settled /\ tokens' = E!NoTokens /\ UNCHANGED <<program, round, lost, tried>>
         /\ \/ E!Written(settled) /\ (E!Concludes(key, "nil") \/ E!Concludes(key, "completed"))
            \/ E!Unwritten /\ E!Concludes(key, "nil")
  BY DEF E!Settle
<1>4. CASE E!Written(settled) /\ E!Ends(settled)
  <2>1. saved' = settled /\ E!Ends(settled) BY <1>4 DEF E!Written
  <2>2. \A j \in E!Key : E!Completed(saved, j) => E!Completed(settled, j) BY <1>0, <1>2
  <2>3. \A j \in E!Key : E!Completed(settled, j) => E!Completed(saved, j) \/ j \in tried BY <1>0, <1>2
  <2> HIDE DEF settled
  <2> QED BY <1>0, <1>2, <1>3, <2>1, <2>2, <2>3, EndsHold
<1>5. CASE /\ budget' = settled /\ tokens' = E!NoTokens /\ UNCHANGED <<program, round, lost, tried>>
           /\ \/ E!Written(settled) /\ (E!Concludes(key, "nil") \/ E!Concludes(key, "completed"))
              \/ E!Unwritten /\ E!Concludes(key, "nil")
  <2>1. /\ budget' = settled /\ tokens' = E!NoTokens /\ UNCHANGED <<program, round, lost, tried>>
        /\ saved' = settled \/ saved' = saved
        /\ \/ E!Concludes(key, "nil")
           \/ E!Concludes(key, "completed") /\ saved' = settled
    BY <1>5 DEF E!Written, E!Unwritten
  <2>2. \/ program = "matrix" /\ stage' = "recording" /\ key' = key
           /\ (result' = "nil" \/ (result' = "completed" /\ saved' = settled))
        \/ program # "matrix" /\ stage' = "idle" /\ key' = None
    BY <2>1 DEF E!Concludes
  <2> HIDE DEF settled
  <2>3. /\ saved' \in Checkpoint /\ budget' \in Checkpoint
        /\ \A j \in E!Key : E!Completed(saved, j) => E!Completed(saved', j)
        /\ \A j \in E!Key : E!Completed(saved', j) => E!Completed(budget', j)
        /\ \A j \in E!Key : E!Completed(budget', j) => E!Completed(saved, j) \/ j = key
    BY <1>0, <1>2, <2>1 DEF EvaluationTyped, E!Completed
  <2>4. EvaluationTyped'
    BY <1>0, <2>1, <2>2, <2>3 DEF EvaluationTyped, E!NoTokens
  <2>5. BooksAgree' /\ AttemptStands'
    <3>1. \A j \in E!Key : j \in tried => E!Completed(settled, j)
      BY <1>0, <1>2 DEF BooksAgree
    <3>2. stage' # "calling" BY <2>2
    <3> QED BY <1>0, <2>1, <2>3, <3>1, <3>2 DEF BooksAgree, AttemptStands, E!Completed
  <2>6. CostsAgree'
    BY <1>0, <1>3, <2>1 DEF CostsAgree, E!CostsAreBilled, E!Completed
  <2>7. RowsStand'
    <3>1. Cell \subseteq E!Key BY DEF E!Key
    <3>2. result' = "completed" /\ stage' = "recording" => E!Completed(saved', key)
      BY <1>0, <1>2, <2>2 DEF E!Completed
    <3>3. \A c \in Cell : rows'[c] = "completed" => E!Completed(saved', c)
      BY <1>0, <2>3, <3>1 DEF RowsStand
    <3> QED BY <1>0, <2>1, <2>2, <3>2, <3>3 DEF RowsStand
  <2>8. E!PaidOnce'
    <3>1. \A j \in E!Key : (j \in tried \/ E!Completed(saved', j)) <=> (j \in tried \/ E!Completed(saved, j))
      BY <1>0, <2>3
    <3> QED BY <1>0, <2>1, <3>1 DEF E!PaidOnce, E!Completed
  <2> QED BY <2>4, <2>5, <2>6, <2>7, <2>8
<1> QED BY <1>a, <1>4, <1>5

\* A row follows its settlement.
LEMMA RecordHolds == ASSUME E!EvaluationAssumption, EvaluationInv, E!Record PROVE EvaluationInv'
<1>1. /\ program # None /\ key \in Cell /\ stage = "recording" /\ stage' = "idle"
      /\ rows' = [rows EXCEPT ![key] = result]
      /\ result \in {"completed", "nil"}
      /\ UNCHANGED <<saved, program, budget, tokens, billed, attempts, lost, tried>>
  BY DEF E!Record, RowsStand, E!EvaluationAssumption
<1>2. EvaluationTyped' BY <1>1 DEF EvaluationTyped
<1>3. BooksAgree' /\ AttemptStands' BY <1>1 DEF BooksAgree, AttemptStands, E!Completed
<1>4. CostsAgree' /\ E!PaidOnce' BY <1>1 DEF CostsAgree, E!CostsAreBilled, E!PaidOnce, E!Completed
<1>5. RowsStand' BY <1>1 DEF RowsStand, EvaluationTyped, E!Completed
<1> QED BY <1>2, <1>3, <1>4, <1>5

\* A process that ends leaves the file as it is.
LEMMA LeavesHold ==
  ASSUME E!EvaluationAssumption, EvaluationInv, program # None, E!Ends(saved),
         UNCHANGED <<saved, rows, billed, attempts>>
  PROVE  EvaluationInv'
<1>1. saved \in Checkpoint BY DEF EvaluationTyped
<1>2. \A k \in E!Key : E!Completed(saved, k) /\ ~ saved[k].unknown => saved[k].actual = billed[k]
  BY DEF CostsAgree, E!CostsAreBilled
<1> QED BY <1>1, <1>2, EndsHold

\* No step of either program breaks the agreement.
LEMMA EvaluationStep ==
  ASSUME E!EvaluationAssumption, EvaluationInv, [E!EvaluationNext]_(E!evars)
  PROVE  EvaluationInv'
<1>1. CASE \E p \in {"matrix", "batch"} : E!Start(p) BY <1>1, StartHolds
<1>2. CASE \E k \in E!Key : E!Reserve(k) \/ E!Refuse(k) BY <1>2, ReserveHolds, RefusalHolds
<1>3. CASE \/ \E amount \in Bill : E!Call(amount, TRUE)
           \/ \E amount \in Bill \cup {0} : E!Call(amount, FALSE)
  BY <1>3, CallHolds
<1>4. CASE \E end \in {"result", "error", "interrupt"} : E!Settle(end) BY <1>4, SettleHolds
<1>5. CASE E!Record BY <1>5, RecordHolds
<1>6. CASE E!RecordFails \/ E!Finish \/ E!Kill
  <2>1. program # None
    BY <1>6 DEF E!RecordFails, E!Finish, E!Kill, RowsStand, E!EvaluationAssumption
  <2> QED BY <1>6, <2>1, LeavesHold DEF E!RecordFails, E!Finish, E!Kill
<1>7. CASE UNCHANGED E!evars
  BY <1>7 DEF E!evars, EvaluationTyped, BooksAgree, AttemptStands, E!Fits, E!Spent, E!Costs, CostsAgree,
     E!CostsAreBilled, RowsStand, E!PaidOnce, E!Completed
<1> QED BY <1>1, <1>2, <1>3, <1>4, <1>5, <1>6, <1>7 DEF E!EvaluationNext

\* File, memory and history agree as EvaluationInv says, for every constant of the module:
\* the invariant the properties of the budget guard follow from (evals/v3/budget.py).
THEOREM BooksStand == ASSUME E!EvaluationAssumption PROVE E!EvaluationSpec => []EvaluationInv
<1> HIDE DEF EvaluationInv
<1>1. E!EvaluationInit => EvaluationInv BY EvaluationBegins
<1>2. EvaluationInv /\ [E!EvaluationNext]_(E!evars) => EvaluationInv' BY EvaluationStep
<1> QED BY <1>1, <1>2, PTL DEF E!EvaluationSpec

\* A completed key is never paid for again, an attempt is reserved below the stop while it
\* runs, known costs are the billed ones and completed rows are earned, wherever a program
\* is killed, interrupted or fails to write (BudgetGuard, run_skill_matrix, evolve_v3_skill).
THEOREM PaysOnce ==
  ASSUME E!EvaluationAssumption
  PROVE  E!EvaluationSpec => [](E!PaidOnce /\ E!ReservedBelowStop /\ E!CostsAreBilled /\ E!RowsAreEarned)
<1>1. EvaluationInv => E!PaidOnce /\ E!ReservedBelowStop /\ E!CostsAreBilled /\ E!RowsAreEarned
  <2> SUFFICES ASSUME EvaluationInv PROVE E!PaidOnce /\ E!ReservedBelowStop /\ E!CostsAreBilled /\ E!RowsAreEarned
    OBVIOUS
  <2>1. E!PaidOnce /\ E!CostsAreBilled BY DEF CostsAgree
  <2>2. E!ReservedBelowStop BY DEF AttemptStands, E!ReservedBelowStop
  <2>3. E!RowsAreEarned BY DEF RowsStand, E!RowsAreEarned, E!PaidOnce, E!Key
  <2> QED BY <2>1, <2>2, <2>3
<1> QED BY <1>1, BooksStand, PTL

-----------------------------------------------------------------------------
(* The models the threads of a process share (KnowledgeIndex) *)

ThreadAssumption == None \notin Thread \cup Nat

Fields == {"job", "at", "stage", "handle", "end", "found"}

\* How far the callers are, and what the locks and the history are made of.
KnowledgeTyped ==
  /\ instance \in [K!Shared -> Nat \cup {None}] /\ loads \in [K!Shared -> Nat]
  /\ owner \in [K!Shared -> Thread \cup {None}]
  /\ DOMAIN caller = Thread
  /\ \A t \in Thread :
       /\ caller[t].job \in DOMAIN K!Program /\ caller[t].at \in Nat \ {0}
       /\ DOMAIN caller[t] = Fields

\* A thread in a lock: it looks again, loads or encodes.
Within(t, m) ==
  \/ K!At(t, m, "entered") \/ K!At(t, m, "making")
  \/ m = "embedder" /\ K!Encoding(t)

LocksHold == \A t \in Thread : \A m \in K!Shared : Within(t, m) => owner[m] = t

\* A load begins and ends without an instance; one that is there was loaded once.
LoadsCount ==
  \A m \in K!Shared :
    /\ loads[m] = IF instance[m] = None THEN 0 ELSE 1
    /\ \A t \in Thread : K!At(t, m, "making") => instance[m] = None

\* Who is to encode has had the embedder.
EncodersHaveIt == \A t \in Thread : K!Op(caller[t]) = "encode" => instance["embedder"] # None

\* The inductive invariant.
KnowledgeInv == KnowledgeTyped /\ LocksHold /\ LoadsCount /\ EncodersHaveIt

\* Only who asks for the embedder encodes next.
LEMMA NextOp ==
  ASSUME NEW c, NEW d, c.job \in DOMAIN K!Program, c.at \in Nat \ {0}, d.job = c.job,
         d.at = c.at + 1, K!Op(d) = "encode"
  PROVE  K!Op(c) = "embedder"
<1>1. CASE c.job = "retrieve" BY <1>1 DEF K!Op, K!Program
<1>2. CASE c.job = "embed" BY <1>2 DEF K!Op, K!Program
<1>3. CASE c.job = "warm" BY <1>3 DEF K!Op, K!Program
<1> QED BY <1>1, <1>2, <1>3 DEF K!Program

\* Past the end of its program a caller is done.
LEMMA LastOp ==
  ASSUME NEW c, c.job \in DOMAIN K!Program, c.at = Len(K!Program[c.job]) + 1
  PROVE  K!Op(c) = "done" /\ c.at \in Nat \ {0}
BY DEF K!Op, K!Program

\* A step of one caller that comes to an encoding from the embedder only.
Moved(t) ==
  /\ DOMAIN caller' = Thread /\ \A u \in Thread : u # t => caller'[u] = caller[u]
  /\ caller'[t].job = caller[t].job /\ caller'[t].at \in Nat \ {0}
  /\ DOMAIN caller'[t] = Fields
  /\ K!Op(caller'[t]) = "encode" => K!Op(caller[t]) = "encode" \/ K!Op(caller[t]) = "embedder"

\* A caller is a record, and stays one.
LEMMA CallerFields ==
  ASSUME KnowledgeInv, NEW t \in Thread, NEW r, caller' = [caller EXCEPT ![t] = r]
  PROVE  /\ DOMAIN caller' = Thread /\ caller'[t] = r
         /\ \A u \in Thread : u # t => caller'[u] = caller[u]
         /\ caller[t].job \in DOMAIN K!Program /\ caller[t].at \in Nat \ {0}
BY DEF KnowledgeInv, KnowledgeTyped

\* The three ways a caller goes on are such steps.
LEMMA StandsMoves ==
  ASSUME KnowledgeInv, NEW t \in Thread, NEW s, K!Stands(t, s)
  PROVE  Moved(t) /\ caller'[t].stage = s /\ K!Op(caller'[t]) = K!Op(caller[t])
<1> DEFINE r == [caller[t] EXCEPT !.stage = s]
<1>1. caller' = [caller EXCEPT ![t] = r] BY DEF K!Stands
<1>2. r.job = caller[t].job /\ r.at = caller[t].at /\ r.stage = s /\ DOMAIN r = Fields
  BY DEF KnowledgeInv, KnowledgeTyped, Fields
<1> HIDE DEF r
<1>3. /\ DOMAIN caller' = Thread /\ caller'[t] = r
      /\ \A u \in Thread : u # t => caller'[u] = caller[u]
      /\ caller[t].job \in DOMAIN K!Program /\ caller[t].at \in Nat \ {0}
  BY <1>1, CallerFields
<1> QED BY <1>2, <1>3 DEF Moved, K!Op

\* The next operation begins by asking.
LEMMA AdvanceMoves ==
  ASSUME KnowledgeInv, NEW t \in Thread, K!Advance(t)
  PROVE  /\ Moved(t) /\ caller'[t].stage = "asking"
         /\ K!Op(caller'[t]) = "encode" => K!Op(caller[t]) = "embedder"
<1> DEFINE r == [caller[t] EXCEPT !.at = @ + 1, !.stage = "asking"]
<1>1. caller' = [caller EXCEPT ![t] = r] BY DEF K!Advance
<1>2. r.job = caller[t].job /\ r.at = caller[t].at + 1 /\ r.stage = "asking" /\ DOMAIN r = Fields
  BY DEF KnowledgeInv, KnowledgeTyped, Fields
<1> HIDE DEF r
<1>3. /\ DOMAIN caller' = Thread /\ caller'[t] = r
      /\ \A u \in Thread : u # t => caller'[u] = caller[u]
      /\ caller[t].job \in DOMAIN K!Program /\ caller[t].at \in Nat \ {0}
  BY <1>1, CallerFields
<1>4. K!Op(caller'[t]) = "encode" => K!Op(caller[t]) = "embedder" BY <1>2, <1>3, NextOp
<1> QED BY <1>2, <1>3, <1>4 DEF Moved

\* Who leaves is done, and in no lock.
LEMMA LeavesMoves ==
  ASSUME KnowledgeInv, NEW t \in Thread, NEW e, NEW f, K!Leaves(t, e, f)
  PROVE  Moved(t) /\ caller'[t].stage = "asking" /\ K!Op(caller'[t]) = "done"
<1> DEFINE r == [caller[t] EXCEPT !.at = Len(K!Program[caller[t].job]) + 1, !.stage = "asking",
                                  !.handle = None, !.end = e, !.found = f]
<1>1. caller' = [caller EXCEPT ![t] = r] BY DEF K!Leaves
<1>2. /\ r.job = caller[t].job /\ r.at = Len(K!Program[caller[t].job]) + 1 /\ r.stage = "asking"
      /\ DOMAIN r = Fields
  BY DEF KnowledgeInv, KnowledgeTyped, Fields
<1> HIDE DEF r
<1>3. /\ DOMAIN caller' = Thread /\ caller'[t] = r
      /\ \A u \in Thread : u # t => caller'[u] = caller[u]
      /\ caller[t].job \in DOMAIN K!Program
  BY <1>1, CallerFields
<1>4. K!Op(r) = "done" /\ r.at \in Nat \ {0} BY <1>2, <1>3, LastOp
<1> QED BY <1>2, <1>3, <1>4 DEF Moved

\* What a thread may do to the locks and the instances.
LEMMA ThreadMoves ==
  ASSUME KnowledgeInv, NEW t \in Thread, Moved(t),
         instance' \in [K!Shared -> Nat \cup {None}], loads' \in [K!Shared -> Nat],
         owner' \in [K!Shared -> Thread \cup {None}],
         \A m \in K!Shared : \A u \in Thread : u # t /\ owner[m] = u => owner'[m] = u,
         \A m \in K!Shared : Within(t, m)' => owner'[m] = t,
         \A m \in K!Shared : loads'[m] = IF instance'[m] = None THEN 0 ELSE 1,
         \A m \in K!Shared : instance[m] # None => instance'[m] # None,
         \A m \in K!Shared : instance'[m] # None => instance[m] # None \/ owner[m] = t,
         \A m \in K!Shared : K!At(t, m, "making")' => instance'[m] = None,
         K!Op(caller'[t]) = "encode" => instance'["embedder"] # None
  PROVE  KnowledgeInv'
<1>1. KnowledgeTyped' BY DEF KnowledgeInv, KnowledgeTyped, Moved
<1>2. \A u \in Thread : u # t => \A m : \A s : K!At(u, m, s)' <=> K!At(u, m, s)
  BY DEF Moved, K!At
<1>3. LocksHold'
  BY <1>2 DEF KnowledgeInv, LocksHold, Within, K!Encoding
<1>4. LoadsCount'
  BY <1>2 DEF KnowledgeInv, LoadsCount, LocksHold, Within
<1>5. EncodersHaveIt'
  <2>1. "embedder" \in K!Shared BY DEF K!Shared
  <2> QED BY <2>1 DEF KnowledgeInv, EncodersHaveIt, Moved
<1> QED BY <1>1, <1>3, <1>4, <1>5 DEF KnowledgeInv

\* A thread that is in no lock, and asks for none or leaves the one it was in.
LEMMA QuietMoves ==
  ASSUME KnowledgeInv, NEW t \in Thread, Moved(t), UNCHANGED <<instance, loads>>,
         caller'[t].stage \in {"asking", "missed"},
         K!Op(caller'[t]) = "encode" => instance["embedder"] # None,
         \/ UNCHANGED owner
         \/ \E m \in K!Shared : owner[m] = t /\ K!Frees(m)
  PROVE  KnowledgeInv'
<1>1. \A m \in K!Shared : ~ Within(t, m)' BY DEF Within, K!At, K!Encoding
<1>2. owner' \in [K!Shared -> Thread \cup {None}]
  BY DEF KnowledgeInv, KnowledgeTyped, K!Frees
<1>3. \A m \in K!Shared : \A u \in Thread : u # t /\ owner[m] = u => owner'[m] = u
  BY DEF KnowledgeInv, KnowledgeTyped, K!Frees
<1>4. \A m \in K!Shared : ~ K!At(t, m, "making")' BY DEF K!At
<1>5. /\ instance' \in [K!Shared -> Nat \cup {None}] /\ loads' \in [K!Shared -> Nat]
      /\ \A m \in K!Shared : loads'[m] = IF instance'[m] = None THEN 0 ELSE 1
  BY DEF KnowledgeInv, KnowledgeTyped, LoadsCount
<1> QED BY <1>1, <1>2, <1>3, <1>4, <1>5, ThreadMoves

\* The check without the lock changes nothing shared.
LEMMA AskMoves ==
  ASSUME KnowledgeInv, NEW t \in Thread, NEW m \in K!Shared, K!Ask(t, m) PROVE KnowledgeInv'
<1>1. K!At(t, m, "asking") /\ UNCHANGED <<instance, loads, owner>> BY DEF K!Ask
<1>2. m # "encode" BY DEF K!Shared
<1>3. CASE instance[m] # None
  <2>1. K!Advance(t) BY <1>3 DEF K!Ask
  <2>2. Moved(t) /\ caller'[t].stage = "asking" BY <2>1, AdvanceMoves
  <2>3. K!Op(caller'[t]) = "encode" => K!Op(caller[t]) = "embedder" BY <2>1, AdvanceMoves
  <2> QED BY <1>1, <1>3, <2>2, <2>3, QuietMoves DEF K!At
<1>4. CASE instance[m] = None
  <2>1. K!Stands(t, "missed") BY <1>4 DEF K!Ask
  <2> QED BY <1>1, <1>2, <2>1, StandsMoves, QuietMoves DEF K!At
<1> QED BY <1>3, <1>4

\* A lock is taken from nobody.
LEMMA EnterMoves ==
  ASSUME KnowledgeInv, ThreadAssumption, NEW t \in Thread, NEW m \in K!Shared, K!Enter(t, m)
  PROVE  KnowledgeInv'
<1>1. /\ K!At(t, m, "missed") /\ UNCHANGED <<instance, loads>>
      /\ owner[m] = None /\ owner' = [owner EXCEPT ![m] = t] /\ K!Stands(t, "entered")
  BY DEF K!Enter, K!Takes
<1>2. Moved(t) /\ caller'[t].stage = "entered" /\ K!Op(caller'[t]) = m
  BY <1>1, StandsMoves DEF K!At
<1>3. \A n \in K!Shared : Within(t, n)' => owner'[n] = t
  BY <1>1, <1>2 DEF Within, K!At, K!Encoding, KnowledgeInv, KnowledgeTyped
<1>4. \A n \in K!Shared : \A u \in Thread : u # t /\ owner[n] = u => owner'[n] = u
  BY <1>1 DEF KnowledgeInv, KnowledgeTyped, ThreadAssumption
<1>5. \A n \in K!Shared : ~ K!At(t, n, "making")' BY <1>2 DEF K!At
<1>6. owner' \in [K!Shared -> Thread \cup {None}] BY <1>1 DEF KnowledgeInv, KnowledgeTyped
<1>7. /\ instance' \in [K!Shared -> Nat \cup {None}] /\ loads' \in [K!Shared -> Nat]
      /\ \A n \in K!Shared : loads'[n] = IF instance'[n] = None THEN 0 ELSE 1
  BY <1>1 DEF KnowledgeInv, KnowledgeTyped, LoadsCount
<1>8. K!Op(caller'[t]) # "encode" BY <1>2 DEF K!Shared
<1> QED BY <1>1, <1>2, <1>3, <1>4, <1>5, <1>6, <1>7, <1>8, ThreadMoves

\* Who finds an instance in the lock goes on, who finds none is alone in loading it.
LEMMA RecheckMoves ==
  ASSUME KnowledgeInv, ThreadAssumption, NEW t \in Thread, NEW m \in K!Shared, K!Recheck(t, m)
  PROVE  KnowledgeInv'
<1>1. K!At(t, m, "entered") /\ UNCHANGED <<instance, loads>> BY DEF K!Recheck
<1>2. owner[m] = t BY <1>1 DEF KnowledgeInv, LocksHold, Within
<1>3. CASE instance[m] = None
  <2>1. K!Stands(t, "making") /\ UNCHANGED owner BY <1>3 DEF K!Recheck, K!StillMissing
  <2>2. Moved(t) /\ caller'[t].stage = "making" /\ K!Op(caller'[t]) = m
    BY <1>1, <2>1, StandsMoves DEF K!At
  <2>3. \A n \in K!Shared : Within(t, n)' => owner'[n] = t
    BY <1>2, <2>1, <2>2 DEF Within, K!At, K!Encoding
  <2>4. \A n \in K!Shared : K!At(t, n, "making")' => instance'[n] = None
    BY <1>1, <1>3, <2>2 DEF K!At
  <2>5. /\ owner' \in [K!Shared -> Thread \cup {None}] /\ instance' \in [K!Shared -> Nat \cup {None}]
        /\ loads' \in [K!Shared -> Nat]
        /\ \A n \in K!Shared : loads'[n] = IF instance'[n] = None THEN 0 ELSE 1
    BY <1>1, <2>1 DEF KnowledgeInv, KnowledgeTyped, LoadsCount
  <2>6. K!Op(caller'[t]) # "encode" BY <2>2 DEF K!Shared
  <2> QED BY <1>1, <2>1, <2>2, <2>3, <2>4, <2>5, <2>6, ThreadMoves
<1>4. CASE instance[m] # None
  <2>1. K!Advance(t) /\ K!Frees(m) BY <1>4 DEF K!Recheck, K!StillMissing
  <2>2. Moved(t) /\ caller'[t].stage = "asking" BY <2>1, AdvanceMoves
  <2>3. K!Op(caller'[t]) = "encode" => K!Op(caller[t]) = "embedder" BY <2>1, AdvanceMoves
  <2> QED BY <1>1, <1>2, <1>4, <2>1, <2>2, <2>3, QuietMoves DEF K!At
<1> QED BY <1>3, <1>4

\* A load ends with the first instance.
LEMMA MakeMoves ==
  ASSUME KnowledgeInv, ThreadAssumption, NEW t \in Thread, NEW m \in K!Shared, K!Make(t, m)
  PROVE  KnowledgeInv'
<1>1. /\ K!At(t, m, "making") /\ K!Advance(t) /\ owner' = [owner EXCEPT ![m] = None]
      /\ loads' = [loads EXCEPT ![m] = @ + 1] /\ instance' = [instance EXCEPT ![m] = loads'[m]]
  BY DEF K!Make, K!Frees
<1>2. owner[m] = t /\ instance[m] = None /\ loads[m] = 0
  BY <1>1 DEF KnowledgeInv, LocksHold, LoadsCount, Within
<1>3. Moved(t) /\ caller'[t].stage = "asking" BY <1>1, AdvanceMoves
<1>4. K!Op(caller'[t]) = "encode" => m = "embedder" BY <1>1, AdvanceMoves DEF K!At
<1>5. /\ owner' \in [K!Shared -> Thread \cup {None}] /\ loads' \in [K!Shared -> Nat]
      /\ loads'[m] = 1 /\ instance'[m] = 1
      /\ \A n \in K!Shared : n # m => loads'[n] = loads[n] /\ instance'[n] = instance[n]
      /\ instance' \in [K!Shared -> Nat \cup {None}]
  BY <1>1, <1>2 DEF KnowledgeInv, KnowledgeTyped
<1>6. 1 # None BY DEF ThreadAssumption
<1>7. \A n \in K!Shared : loads'[n] = IF instance'[n] = None THEN 0 ELSE 1
  BY <1>5, <1>6 DEF KnowledgeInv, LoadsCount
<1>8. \A n \in K!Shared : ~ Within(t, n)' /\ ~ K!At(t, n, "making")'
  BY <1>3 DEF Within, K!At, K!Encoding
<1>9. \A n \in K!Shared : \A u \in Thread : u # t /\ owner[n] = u => owner'[n] = u
  BY <1>1, <1>2 DEF KnowledgeInv, KnowledgeTyped
<1>10. /\ \A n \in K!Shared : instance[n] # None => instance'[n] # None
       /\ \A n \in K!Shared : instance'[n] # None => instance[n] # None \/ owner[n] = t
  BY <1>2, <1>5, <1>6
<1>11. K!Op(caller'[t]) = "encode" => instance'["embedder"] # None BY <1>4, <1>5, <1>6
<1> QED BY <1>3, <1>5, <1>7, <1>8, <1>9, <1>10, <1>11, ThreadMoves

\* An encoding takes the lock of the embedder it has.
LEMMA EncodeMoves ==
  ASSUME KnowledgeInv, ThreadAssumption, NEW t \in Thread, K!Encode(t) PROVE KnowledgeInv'
<1>1. /\ K!At(t, "encode", "asking") /\ UNCHANGED <<instance, loads>> /\ owner["embedder"] = None
      /\ owner' = [owner EXCEPT !["embedder"] = t] /\ K!Stands(t, "encoding")
  BY DEF K!Encode, K!MayEncode
<1>2. Moved(t) /\ caller'[t].stage = "encoding" /\ K!Op(caller'[t]) = "encode"
  BY <1>1, StandsMoves DEF K!At
<1>3. "embedder" \in K!Shared BY DEF K!Shared
<1>4. \A n \in K!Shared : Within(t, n)' => owner'[n] = t
  BY <1>1, <1>2, <1>3 DEF Within, K!At, K!Encoding, KnowledgeInv, KnowledgeTyped
<1>5. \A n \in K!Shared : \A u \in Thread : u # t /\ owner[n] = u => owner'[n] = u
  BY <1>1, <1>3 DEF KnowledgeInv, KnowledgeTyped, ThreadAssumption
<1>6. \A n \in K!Shared : ~ K!At(t, n, "making")' BY <1>2 DEF K!At
<1>7. /\ owner' \in [K!Shared -> Thread \cup {None}] /\ instance' \in [K!Shared -> Nat \cup {None}]
      /\ loads' \in [K!Shared -> Nat]
      /\ \A n \in K!Shared : loads'[n] = IF instance'[n] = None THEN 0 ELSE 1
  BY <1>1 DEF KnowledgeInv, KnowledgeTyped, LoadsCount
<1>8. instance'["embedder"] # None BY <1>1 DEF KnowledgeInv, EncodersHaveIt, K!At
<1> QED BY <1>1, <1>2, <1>4, <1>5, <1>6, <1>7, <1>8, ThreadMoves

\* It gives the lock back.
LEMMA EncodedMoves ==
  ASSUME KnowledgeInv, NEW t \in Thread, K!Encoded(t) PROVE KnowledgeInv'
<1>1. /\ K!At(t, "encode", "encoding") /\ UNCHANGED <<instance, loads>> /\ K!Frees("embedder")
      /\ K!Advance(t) \/ K!Leaves(t, "done", {})
  BY DEF K!Encoded
<1>2. "embedder" \in K!Shared /\ owner["embedder"] = t
  BY <1>1 DEF KnowledgeInv, LocksHold, Within, K!Encoding, K!Shared
<1>3. Moved(t) /\ caller'[t].stage = "asking" BY <1>1, AdvanceMoves, LeavesMoves
<1>4. instance["embedder"] # None BY <1>1 DEF KnowledgeInv, EncodersHaveIt, K!At
<1> QED BY <1>1, <1>2, <1>3, <1>4, QuietMoves

\* A failure leaves the lock it was in.
LEMMA RaiseMoves ==
  ASSUME KnowledgeInv, NEW t \in Thread, K!Raise(t) PROVE KnowledgeInv'
<1> DEFINE op == K!Op(caller[t])
<1>1. /\ UNCHANGED <<instance, loads>> /\ \E e : K!Leaves(t, e, {})
      /\ \/ op \in K!Shared /\ caller[t].stage = "making" /\ K!Frees(op)
         \/ op = "encode" /\ caller[t].stage = "encoding" /\ K!Frees("embedder")
         \/ UNCHANGED owner
  BY DEF K!Raise
<1>2. UNCHANGED owner \/ \E m \in K!Shared : owner[m] = t /\ K!Frees(m)
  <2>1. "embedder" \in K!Shared BY DEF K!Shared
  <2> QED BY <1>1, <2>1 DEF KnowledgeInv, LocksHold, Within, K!At, K!Encoding
<1>3. Moved(t) /\ caller'[t].stage = "asking" /\ K!Op(caller'[t]) = "done"
  BY <1>1, LeavesMoves
<1> QED BY <1>1, <1>2, <1>3, QuietMoves

\* The steps of a retrieval that take no lock.
LEMMA RetrieveMoves ==
  ASSUME KnowledgeInv, NEW t \in Thread, K!Look(t) \/ K!Open(t) \/ K!Query(t) \/ K!Rank(t)
  PROVE  KnowledgeInv'
<1>1. UNCHANGED <<instance, loads, owner>> BY DEF K!Look, K!Open, K!Query, K!Rank
<1>2. \/ \E e : \E f : K!Leaves(t, e, f)
      \/ K!Op(caller[t]) \in {"preflight", "open", "query"} /\ caller[t].stage = "asking"
         /\ \/ K!Advance(t)
            \/ \E h : caller' = [caller EXCEPT ![t].at = @ + 1, ![t].handle = h]
            \/ \E f : caller' = [caller EXCEPT ![t].at = @ + 1, ![t].found = f]
  BY DEF K!Look, K!Open, K!Query, K!Rank, K!At
<1>3. CASE \E e : \E f : K!Leaves(t, e, f) BY <1>1, <1>3, LeavesMoves, QuietMoves
<1>4. CASE /\ K!Op(caller[t]) \in {"preflight", "open", "query"} /\ caller[t].stage = "asking"
           /\ \/ K!Advance(t)
              \/ \E h : caller' = [caller EXCEPT ![t].at = @ + 1, ![t].handle = h]
              \/ \E f : caller' = [caller EXCEPT ![t].at = @ + 1, ![t].found = f]
  <2>1. /\ DOMAIN caller' = Thread /\ \A u \in Thread : u # t => caller'[u] = caller[u]
        /\ caller[t].job \in DOMAIN K!Program /\ caller[t].at \in Nat \ {0}
        /\ caller'[t].job = caller[t].job /\ caller'[t].at = caller[t].at + 1
        /\ caller'[t].stage = "asking"
        /\ DOMAIN caller'[t] = Fields
    BY <1>4 DEF K!Advance, KnowledgeInv, KnowledgeTyped, Fields
  <2>2. K!Op(caller'[t]) = "encode" => K!Op(caller[t]) = "embedder" BY <2>1, NextOp
  <2>3. K!Op(caller'[t]) # "encode" BY <1>4, <2>2
  <2>4. Moved(t) BY <2>1, <2>3 DEF Moved
  <2> QED BY <1>1, <2>1, <2>3, <2>4, QuietMoves
<1> QED BY <1>2, <1>3, <1>4

\* A cold process has no instance and no lock taken.
LEMMA KnowledgeBegins == ASSUME ThreadAssumption, K!KnowledgeInit PROVE KnowledgeInv
<1>1. \A t \in Thread : \E job \in DOMAIN K!Program : caller[t] = K!Begins(job) BY DEF K!KnowledgeInit
<1>2. /\ instance = [m \in K!Shared |-> None] /\ loads = [m \in K!Shared |-> 0]
      /\ owner = [m \in K!Shared |-> None] /\ DOMAIN caller = Thread
  BY DEF K!KnowledgeInit
<1>3. KnowledgeTyped BY <1>1, <1>2 DEF KnowledgeTyped, K!Begins, Fields
<1>4. \A t \in Thread : caller[t].stage = "asking" /\ caller[t].at = 1 /\ caller[t].job \in DOMAIN K!Program
  <2> SUFFICES ASSUME NEW t \in Thread
      PROVE  caller[t].stage = "asking" /\ caller[t].at = 1 /\ caller[t].job \in DOMAIN K!Program
    OBVIOUS
  <2>1. PICK job \in DOMAIN K!Program : caller[t] = K!Begins(job) BY <1>1
  <2>2. caller[t].job = job /\ caller[t].stage = "asking" /\ caller[t].at = 1
    BY <2>1 DEF K!Begins
  <2> QED BY <2>2
<1>5. LocksHold /\ LoadsCount
  BY <1>2, <1>4 DEF LocksHold, Within, K!At, K!Encoding, LoadsCount
<1>6. EncodersHaveIt
  <2>1. \A c : c.at = 1 /\ c.job \in DOMAIN K!Program => K!Op(c) # "encode" BY DEF K!Op, K!Program
  <2> QED BY <1>4, <2>1 DEF EncodersHaveIt
<1> QED BY <1>3, <1>5, <1>6 DEF KnowledgeInv

\* No step of a caller or of a rebuild breaks the invariant.
LEMMA KnowledgeStep ==
  ASSUME ThreadAssumption, KnowledgeInv, [K!KnowledgeNext]_(K!kvars) PROVE KnowledgeInv'
<1>1. CASE \E t \in Thread : \E m \in K!Shared : K!Ask(t, m) \/ K!Enter(t, m) \/ K!Recheck(t, m) \/ K!Make(t, m)
  BY <1>1, AskMoves, EnterMoves, RecheckMoves, MakeMoves
<1>2. CASE \E t \in Thread : \/ K!Encode(t) \/ K!Encoded(t) \/ K!Raise(t)
                             \/ K!Look(t) \/ K!Open(t) \/ K!Query(t) \/ K!Rank(t)
  BY <1>2, EncodeMoves, EncodedMoves, RaiseMoves, RetrieveMoves
<1>3. CASE \/ K!Drop \/ K!Create \/ K!Add \/ K!BuildFails \/ UNCHANGED K!kvars
           \/ \E corpus \in Corpora : K!Read(corpus)
  <2>1. UNCHANGED <<instance, loads, owner, caller>>
    BY <1>3 DEF K!Drop, K!Create, K!Add, K!BuildFails, K!Read, K!kvars
  <2> QED BY <2>1 DEF KnowledgeInv, KnowledgeTyped, LocksHold, Within, K!At, K!Encoding, K!Op, LoadsCount,
                      EncodersHaveIt
<1> QED BY <1>1, <1>2, <1>3 DEF K!KnowledgeNext

\* However many threads retrieve, embed and warm up at once, and whatever fails, a process
\* loads each model once and its embedder serves one thread at a time (get_embedder,
\* get_chroma_client, get_reranker, encode_with_shared_embedder).
THEOREM ModelsAreShared ==
  ASSUME ThreadAssumption
  PROVE  K!KnowledgeSpec => [](K!MadeOnce /\ K!EncodesAlone)
<1>1. K!KnowledgeInit => KnowledgeInv BY KnowledgeBegins
<1>2. KnowledgeInv /\ [K!KnowledgeNext]_(K!kvars) => KnowledgeInv' BY KnowledgeStep
<1>3. KnowledgeInv => K!MadeOnce /\ K!EncodesAlone
  <2> SUFFICES ASSUME KnowledgeInv PROVE K!MadeOnce /\ K!EncodesAlone OBVIOUS
  <2>1. K!MadeOnce BY DEF KnowledgeInv, LoadsCount, K!MadeOnce
  <2>2. K!EncodesAlone
    BY DEF KnowledgeInv, K!EncodesAlone, K!Encoding, EncodersHaveIt, LocksHold, Within, K!At, K!Shared
  <2> QED BY <2>1, <2>2
<1> QED BY <1>1, <1>2, <1>3, PTL DEF K!KnowledgeSpec

-----------------------------------------------------------------------------
(* What runs of the legacy API learn, and users decide (LegacyMemory) *)

OwnersAreApart == Run \cap Decider = {} /\ None \notin Run

IsRow(x) == x = [pred |-> x.pred, status |-> x.status, closed |-> x.closed, reason |-> x.reason]

\* Committed rows f as they look with the writes m over them.
Seen(f, m) == [i \in DOMAIN f \cup DOMAIN m |-> IF i \in DOMAIN m THEN m[i] ELSE f[i]]

One(f) ==
  \A i, j \in DOMAIN f : L!InForce(f[i]) /\ L!InForce(f[j]) /\ f[i].pred = f[j].pred => i = j

\* The writes m move an entry of the index under p.
Moves(f, m, p) ==
  \E i \in DOMAIN m : m[i].pred = p /\ (L!InForce(m[i]) \/ (i \in DOMAIN f /\ L!InForce(f[i])))

\* Writes m that may be laid over f: rows keep their predicate, and what is seen has one
\* fact in force.
Fits(f, m) ==
  /\ \A i \in DOMAIN m : IsRow(m[i]) /\ (i \in DOMAIN f => m[i].pred = f[i].pred)
  /\ One(Seen(f, m))

\* Two transactions' writes touch neither the same row nor the same entry.
Separate(f, m, n) ==
  /\ DOMAIN m \cap DOMAIN n = {}
  /\ \A p : ~ (Moves(f, m, p) /\ Moves(f, n, p))

Rows == \A i \in DOMAIN facts : IsRow(facts[i])
Shape ==
  /\ DOMAIN txn = L!Actor
  /\ \A a \in L!Actor :
       txn[a] = [stage |-> txn[a].stage, locks |-> txn[a].locks, mine |-> txn[a].mine]
WritesFit == \A a \in L!Actor : Fits(facts, txn[a].mine)
WritesSeparate == \A a, b \in L!Actor : a # b => Separate(facts, txn[a].mine, txn[b].mine)

\* A row that is not committed is its run's own; only a committed run has rows.
OwnRows ==
  /\ \A a \in L!Actor : \A i \in DOMAIN txn[a].mine :
       i \in DOMAIN facts \/ (a \in Run /\ \E k : i = <<a, k>>)
  /\ \A r \in Run : (\E k : <<r, k>> \in DOMAIN facts) => txn[r].stage = "committed"
DecidersIdle ==
  \A d \in Decider : txn[d].stage = "idle" => DOMAIN txn[d].mine = {}

\* The inductive invariant.  One fact in force among the committed rows is not inductive
\* by itself: what a commit will publish must have one too, and two commits that follow
\* each other must not have moved the same entry.
MemoryInv == One(facts) /\ Rows /\ Shape /\ WritesFit /\ WritesSeparate /\ OwnRows /\ DecidersIdle

-----------------------------------------------------------------------------

\* Without writes there is nothing to fit, and nothing to move.
LEMMA NothingFits ==
  ASSUME NEW f, NEW m, NEW n, One(f), DOMAIN m = {}
  PROVE  Fits(f, m) /\ Separate(f, m, n) /\ Separate(f, n, m)
<1>1. \A i \in DOMAIN f : Seen(f, m)[i] = f[i] BY DEF Seen
<1>2. DOMAIN Seen(f, m) = DOMAIN f BY DEF Seen
<1>3. One(Seen(f, m)) BY <1>1, <1>2 DEF One
<1> QED BY <1>3 DEF Fits, Separate, Moves

\* Committing m leaves rows that fit a separate n.
LEMMA CommitKeepsFit ==
  ASSUME NEW f, NEW m, NEW n, One(f), Fits(f, m), Fits(f, n), Separate(f, m, n)
  PROVE  Fits(Seen(f, m), n)
<1> DEFINE g == Seen(f, m)
           s == Seen(f, n)
           t == Seen(g, n)
<1>1. DOMAIN g = DOMAIN f \cup DOMAIN m /\ DOMAIN s = DOMAIN f \cup DOMAIN n
      /\ DOMAIN t = DOMAIN f \cup DOMAIN m \cup DOMAIN n
  BY DEF Seen
<1>2. /\ \A i \in DOMAIN g : g[i] = IF i \in DOMAIN m THEN m[i] ELSE f[i]
      /\ \A i \in DOMAIN s : s[i] = IF i \in DOMAIN n THEN n[i] ELSE f[i]
      /\ \A i \in DOMAIN t : t[i] = IF i \in DOMAIN n THEN n[i] ELSE g[i]
  BY DEF Seen
<1>3. One(g) /\ One(s) BY DEF Fits
<1>4. DOMAIN m \cap DOMAIN n = {} BY DEF Separate
<1>5. \A i \in DOMAIN n : i \in DOMAIN g => n[i].pred = g[i].pred
  BY <1>1, <1>2, <1>4 DEF Fits
<1> HIDE DEF g, s, t
<1>6. ASSUME NEW i \in DOMAIN t, NEW j \in DOMAIN t, L!InForce(t[i]), L!InForce(t[j]),
             t[i].pred = t[j].pred
      PROVE  i = j
  <2>1. CASE Moves(f, m, t[i].pred)
    <3>1. ~ Moves(f, n, t[i].pred) BY <2>1 DEF Separate
    <3>2. i \notin DOMAIN n /\ j \notin DOMAIN n BY <3>1, <1>2, <1>6 DEF Moves
    <3>3. t[i] = g[i] /\ t[j] = g[j] BY <3>2, <1>2
    <3>4. i \in DOMAIN g /\ j \in DOMAIN g BY <3>2, <1>1
    <3> QED BY <3>3, <3>4, <1>3, <1>6 DEF One
  <2>2. CASE ~ Moves(f, m, t[i].pred)
    <3>1. ASSUME NEW k \in DOMAIN t, L!InForce(t[k]), t[k].pred = t[i].pred
          PROVE  k \in DOMAIN s /\ s[k] = t[k]
      <4>1. CASE k \in DOMAIN n BY <4>1, <1>1, <1>2
      <4>2. CASE k \notin DOMAIN n
        <5>1. k \in DOMAIN g /\ t[k] = g[k] BY <4>2, <1>1, <1>2
        <5>2. k \notin DOMAIN m BY <5>1, <1>2, <2>2, <3>1 DEF Moves
        <5> QED BY <4>2, <5>1, <5>2, <1>1, <1>2
      <4> QED BY <4>1, <4>2
    <3>2. i \in DOMAIN s /\ s[i] = t[i] BY <3>1, <1>6
    <3>3. j \in DOMAIN s /\ s[j] = t[j] BY <3>1, <1>6
    <3> QED BY <3>2, <3>3, <1>3, <1>6 DEF One
  <2> QED BY <2>1, <2>2
<1>7. One(t) BY <1>6 DEF One
<1> QED BY <1>5, <1>7 DEF Fits, g, t

\* And it does not bring two others together.
LEMMA CommitKeepsSeparate ==
  ASSUME NEW f, NEW m, NEW n, NEW o, Separate(f, m, n), Separate(f, m, o), Separate(f, n, o)
  PROVE  Separate(Seen(f, m), n, o)
<1>1. ASSUME NEW x, NEW p, Separate(f, m, x), Moves(Seen(f, m), x, p) PROVE Moves(f, x, p)
  <2>1. PICK i \in DOMAIN x : x[i].pred = p /\ (L!InForce(x[i]) \/
               (i \in DOMAIN Seen(f, m) /\ L!InForce(Seen(f, m)[i])))
    BY <1>1 DEF Moves
  <2>2. i \notin DOMAIN m BY <1>1 DEF Separate
  <2>3. i \in DOMAIN Seen(f, m) => i \in DOMAIN f /\ Seen(f, m)[i] = f[i] BY <2>2 DEF Seen
  <2> QED BY <2>1, <2>3 DEF Moves
<1> QED BY <1>1 DEF Separate

\* One actor's writes change to writes that fit and are separate from all others'.
LEMMA WritesStep ==
  ASSUME MemoryInv, NEW a \in L!Actor, facts' = facts, DOMAIN txn' = L!Actor, Shape',
         \A b \in L!Actor \ {a} : txn'[b] = txn[b],
         Fits(facts, txn'[a].mine),
         \A b \in L!Actor \ {a} : /\ Separate(facts, txn'[a].mine, txn[b].mine)
                                /\ Separate(facts, txn[b].mine, txn'[a].mine)
  PROVE  (One(facts) /\ Rows /\ Shape /\ WritesFit /\ WritesSeparate)'
<1>1. One(facts)' /\ Rows' BY DEF MemoryInv, Rows, One
<1>2. ASSUME NEW b \in L!Actor PROVE Fits(facts, txn'[b].mine)
  BY DEF MemoryInv, WritesFit
<1>3. WritesFit' BY <1>2 DEF WritesFit
<1>4. ASSUME NEW b \in L!Actor, NEW c \in L!Actor, b # c
      PROVE  Separate(facts, txn'[b].mine, txn'[c].mine)
  <2>1. CASE b = a BY <2>1, <1>4
  <2>2. CASE c = a BY <2>2, <1>4
  <2>3. CASE b # a /\ c # a BY <2>3, <1>4 DEF MemoryInv, WritesSeparate
  <2> QED BY <2>1, <2>2, <2>3
<1>5. WritesSeparate' BY <1>4 DEF WritesSeparate
<1> QED BY <1>1, <1>3, <1>5

\* A step that leaves the rows and everybody's writes alone.
LEMMA QuietStep ==
  ASSUME MemoryInv, NEW a \in L!Actor, facts' = facts, Shape',
         \A b \in L!Actor \ {a} : txn'[b] = txn[b], DOMAIN txn' = L!Actor,
         txn'[a].mine = txn[a].mine,
         a \in Run => txn[a].stage # "committed", a \notin Decider
  PROVE  MemoryInv'
<1>1. Fits(facts, txn'[a].mine) BY DEF MemoryInv, WritesFit
<1>2. \A b \in L!Actor \ {a} : /\ Separate(facts, txn'[a].mine, txn[b].mine)
                             /\ Separate(facts, txn[b].mine, txn'[a].mine)
  BY DEF MemoryInv, WritesSeparate
<1>3. (One(facts) /\ Rows /\ Shape /\ WritesFit /\ WritesSeparate)' BY <1>1, <1>2, WritesStep
<1>4. OwnRows' BY DEF MemoryInv, OwnRows, L!Actor
<1>5. DecidersIdle' BY DEF MemoryInv, DecidersIdle, L!Actor
<1> QED BY <1>3, <1>4, <1>5 DEF MemoryInv

\* A transaction that is rolled back leaves nothing.
LEMMA RollbackStep ==
  ASSUME OwnersAreApart, MemoryInv, NEW r \in Run, NEW cause, L!RolledBack(r, cause),
         facts' = facts, txn[r].stage # "committed"
  PROVE  MemoryInv'
<1> r \in L!Actor /\ r \notin Decider BY DEF L!Actor, OwnersAreApart
<1>0. [L!Idle EXCEPT !.stage = "failed"] = [stage |-> "failed", locks |-> {}, mine |-> <<>>]
  <2>1. \A e : [[stage |-> "idle", locks |-> {}, mine |-> e] EXCEPT !.stage = "failed"]
                 = [stage |-> "failed", locks |-> {}, mine |-> e]
    OBVIOUS
  <2> QED BY <2>1, Zenon DEF L!Idle
<1>1. txn' = [txn EXCEPT ![r] = [stage |-> "failed", locks |-> {}, mine |-> <<>>]]
  BY <1>0 DEF L!RolledBack
<1>2. DOMAIN txn' = L!Actor /\ \A b \in L!Actor \ {r} : txn'[b] = txn[b]
  BY <1>1 DEF MemoryInv, Shape
<1>3. txn'[r] = [stage |-> "failed", locks |-> {}, mine |-> <<>>]
  BY <1>1 DEF MemoryInv, Shape
<1>4. Shape' BY <1>2, <1>3 DEF MemoryInv, Shape
<1>5. DOMAIN txn'[r].mine = {} BY <1>3
<1>6. Fits(facts, txn'[r].mine) BY <1>5, NothingFits DEF MemoryInv
<1>7. \A b \in L!Actor \ {r} : /\ Separate(facts, txn'[r].mine, txn[b].mine)
                             /\ Separate(facts, txn[b].mine, txn'[r].mine)
  BY <1>5, NothingFits DEF MemoryInv
<1>8. (One(facts) /\ Rows /\ Shape /\ WritesFit /\ WritesSeparate)'
  BY <1>2, <1>4, <1>6, <1>7, WritesStep
<1>9. OwnRows'
  <2>1. ASSUME NEW b \in L!Actor, NEW i \in DOMAIN txn'[b].mine
        PROVE  i \in DOMAIN facts \/ (b \in Run /\ \E k : i = <<b, k>>)
    BY <1>2, <1>5 DEF MemoryInv, OwnRows
  <2>2. ASSUME NEW b \in Run, \E k : <<b, k>> \in DOMAIN facts
        PROVE  txn'[b].stage = "committed"
    BY <2>2, <1>2 DEF MemoryInv, OwnRows, L!Actor
  <2> QED BY <2>1, <2>2 DEF OwnRows
<1>10. DecidersIdle' BY <1>2 DEF MemoryInv, DecidersIdle, L!Actor
<1> QED BY <1>8, <1>9, <1>10 DEF MemoryInv

\* A commit publishes what its transaction saw.
LEMMA CommitStep ==
  ASSUME OwnersAreApart, MemoryInv, NEW a \in L!Actor, facts' = L!View(a), NEW s, s # "learning",
         txn' = [txn EXCEPT ![a] = [stage |-> s, locks |-> {}, mine |-> <<>>]],
         a \in Run => s = "committed",
         a \in Decider => \A i \in DOMAIN txn[a].mine : i \in DOMAIN facts
  PROVE  MemoryInv'
<1>1. facts' = Seen(facts, txn[a].mine) BY DEF L!View, Seen
<1>2. DOMAIN txn' = L!Actor /\ \A b \in L!Actor \ {a} : txn'[b] = txn[b]
  BY DEF MemoryInv, Shape
<1>3. txn'[a] = [stage |-> s, locks |-> {}, mine |-> <<>>] BY DEF MemoryInv, Shape
<1>4. Shape' BY <1>2, <1>3 DEF MemoryInv, Shape
<1>5. DOMAIN txn'[a].mine = {} BY <1>3
<1>6. Fits(facts, txn[a].mine) BY DEF MemoryInv, WritesFit
<1>7. One(facts') BY <1>1, <1>6 DEF Fits
<1>8. Rows' BY <1>1, <1>6 DEF MemoryInv, Rows, Fits, Seen
<1>9. ASSUME NEW b \in L!Actor PROVE Fits(facts', txn'[b].mine)
  <2>1. CASE b = a BY <2>1, <1>5, <1>7, NothingFits
  <2>2. CASE b # a
    <3>1. Separate(facts, txn[a].mine, txn[b].mine) BY <2>2 DEF MemoryInv, WritesSeparate
    <3>2. Fits(facts, txn[b].mine) /\ One(facts) BY DEF MemoryInv, WritesFit
    <3>3. Fits(facts', txn[b].mine) BY <3>1, <3>2, <1>1, <1>6, CommitKeepsFit
    <3> QED BY <3>3, <2>2, <1>2
  <2> QED BY <2>1, <2>2
<1>10. ASSUME NEW b \in L!Actor, NEW c \in L!Actor, b # c
       PROVE  Separate(facts', txn'[b].mine, txn'[c].mine)
  <2>1. CASE b = a \/ c = a BY <2>1, <1>5, <1>7, NothingFits
  <2>2. CASE b # a /\ c # a
    <3>1. /\ Separate(facts, txn[a].mine, txn[b].mine)
          /\ Separate(facts, txn[a].mine, txn[c].mine)
          /\ Separate(facts, txn[b].mine, txn[c].mine)
      BY <2>2, <1>10 DEF MemoryInv, WritesSeparate
    <3>2. Separate(facts', txn[b].mine, txn[c].mine) BY <3>1, <1>1, CommitKeepsSeparate
    <3> QED BY <3>2, <2>2, <1>2
  <2> QED BY <2>1, <2>2
<1>11. DOMAIN facts' = DOMAIN facts \cup DOMAIN txn[a].mine BY <1>1 DEF Seen
<1>12. OwnRows'
  <2>1. ASSUME NEW b \in L!Actor, NEW i \in DOMAIN txn'[b].mine
        PROVE  i \in DOMAIN facts' \/ (b \in Run /\ \E k : i = <<b, k>>)
    BY <1>2, <1>5, <1>11 DEF MemoryInv, OwnRows
  <2>2. ASSUME NEW b \in Run, NEW k, <<b, k>> \in DOMAIN facts'
        PROVE  txn'[b].stage = "committed"
    <3>1. CASE b = a BY <3>1, <1>3
    <3>2. CASE b # a
      <4>1. <<b, k>> \in DOMAIN facts
        <5>1. CASE <<b, k>> \in DOMAIN txn[a].mine
          <6>1. <<b, k>> \in DOMAIN facts \/ \E l : <<b, k>> = <<a, l>>
            BY <5>1 DEF MemoryInv, OwnRows
          <6> QED BY <6>1, <3>2
        <5> QED BY <5>1, <1>11, <2>2
      <4>2. txn[b].stage = "committed" BY <4>1 DEF MemoryInv, OwnRows
      <4> QED BY <4>2, <3>2, <1>2 DEF L!Actor
    <3> QED BY <3>1, <3>2
  <2> QED BY <2>1, <2>2 DEF OwnRows
<1>13. DecidersIdle' BY <1>2, <1>5 DEF MemoryInv, DecidersIdle, L!Actor
<1> QED BY <1>4, <1>7, <1>8, <1>9, <1>10, <1>12, <1>13
        DEF MemoryInv, WritesFit, WritesSeparate, One

\* The others' rows and entries, as the definitions of the waits have them.
LEMMA WaitsSay ==
  ASSUME MemoryInv, NEW a \in L!Actor, NEW b \in L!Actor \ {a}
  PROVE  /\ L!View(a) = Seen(facts, txn[a].mine)
         /\ \A held : L!Holders(a, held) = {} => DOMAIN txn[b].mine \cap held = {}
         /\ \A p : L!Entering(a, p) = {} => ~ Moves(facts, txn[b].mine, p)
BY DEF L!View, Seen, L!Holders, L!Entering, Moves

\* A fact in force that somebody else has not written keeps the entry of its predicate
\* from being moved by him.
LEMMA InForceHoldsEntry ==
  ASSUME NEW f, NEW m, NEW i \in DOMAIN f, One(f), Fits(f, m), L!InForce(f[i]), i \notin DOMAIN m
  PROVE  ~ Moves(f, m, f[i].pred)
<1> SUFFICES ASSUME Moves(f, m, f[i].pred) PROVE FALSE OBVIOUS
<1>1. PICK j \in DOMAIN m : m[j].pred = f[i].pred /\ (L!InForce(m[j]) \/
                              (j \in DOMAIN f /\ L!InForce(f[j])))
  BY DEF Moves
<1>2. CASE L!InForce(m[j])
  <2>1. /\ i \in DOMAIN Seen(f, m) /\ Seen(f, m)[i] = f[i]
        /\ j \in DOMAIN Seen(f, m) /\ Seen(f, m)[j] = m[j]
    BY DEF Seen
  <2>2. i = j BY <2>1, <1>1, <1>2 DEF Fits, One
  <2> QED BY <2>2
<1>3. CASE j \in DOMAIN f /\ L!InForce(f[j])
  <2>1. m[j].pred = f[j].pred BY <1>3 DEF Fits
  <2>2. i = j BY <2>1, <1>1, <1>3 DEF One
  <2> QED BY <2>2
<1> QED BY <1>1, <1>2, <1>3

\* A step that changes an actor's stage and writes.
LEMMA StageAndWrites ==
  ASSUME Shape, NEW a \in L!Actor, NEW s, NEW n,
         txn' = [txn EXCEPT ![a].stage = s, ![a].mine = n]
  PROVE  /\ DOMAIN txn' = L!Actor /\ \A b \in L!Actor \ {a} : txn'[b] = txn[b]
         /\ txn'[a] = [stage |-> s, locks |-> txn[a].locks, mine |-> n]
         /\ Shape'
<1> DEFINE once == [txn EXCEPT ![a].stage = s]
<1>1. /\ DOMAIN once = L!Actor /\ \A b \in L!Actor \ {a} : once[b] = txn[b]
      /\ once[a] = [stage |-> s, locks |-> txn[a].locks, mine |-> txn[a].mine]
  BY DEF Shape
<1>2. txn' = [once EXCEPT ![a].mine = n] OBVIOUS
<1> HIDE DEF once
<1>3. DOMAIN txn' = L!Actor /\ \A b \in L!Actor \ {a} : txn'[b] = txn[b] BY <1>1, <1>2
<1>4. txn'[a] = [stage |-> s, locks |-> txn[a].locks, mine |-> n]
  <2>1. txn'[a] = [once[a] EXCEPT !.mine = n] BY <1>1, <1>2
  <2> QED BY <2>1, <1>1
<1> QED BY <1>3, <1>4 DEF Shape

\* Closing the rivals of a predicate.
LEMMA SupersedeStep ==
  ASSUME OwnersAreApart, MemoryInv, NEW r \in Run, L!Supersede(r)
  PROVE  MemoryInv'
<1> r \in L!Actor /\ r \notin Decider BY DEF L!Actor, OwnersAreApart
<1> DEFINE p == L!Current(r).pred
           f == facts
           m == txn[r].mine
           v == Seen(f, m)
           rivals == L!Rivals(r, p)
           closed == [i \in rivals |-> [L!View(r)[i] EXCEPT !.status = "superseded", !.closed = TRUE]]
           n == [i \in DOMAIN m \cup rivals |-> IF i \in rivals
                   THEN [L!View(r)[i] EXCEPT !.status = "superseded", !.closed = TRUE] ELSE m[i]]
<1>1. L!View(r) = v BY DEF L!View, Seen
<1>2. rivals = {i \in DOMAIN v : v[i].pred = p /\ L!InForce(v[i])} BY <1>1 DEF L!Rivals
<1>3. f' = f /\ txn' = [txn EXCEPT ![r].stage = "superseded", ![r].mine = n]
  BY DEF L!Supersede
<1>4. L!Holders(r, rivals) = {} BY DEF L!Supersede, L!SupersedeWaits
<1>5. txn[r].stage = "locked" BY DEF L!Supersede
<1>6. DOMAIN v = DOMAIN f \cup DOMAIN m
      /\ \A i \in DOMAIN v : v[i] = IF i \in DOMAIN m THEN m[i] ELSE f[i]
  BY DEF Seen
<1>7. Fits(f, m) /\ One(f) /\ \A i \in DOMAIN f : IsRow(f[i])
  BY DEF MemoryInv, WritesFit, Rows
<1>8. \A i \in DOMAIN v : IsRow(v[i]) BY <1>6, <1>7 DEF Fits
<1>9. DOMAIN n = DOMAIN m \cup rivals
      /\ \A i \in DOMAIN n : n[i] = IF i \in rivals
           THEN [v[i] EXCEPT !.status = "superseded", !.closed = TRUE] ELSE m[i]
  BY <1>1
<1> HIDE DEF n, v, rivals
<1>10. \A i \in rivals : IsRow(n[i]) /\ n[i].pred = v[i].pred /\ ~ L!InForce(n[i])
  <2> SUFFICES ASSUME NEW i \in rivals
               PROVE  IsRow(n[i]) /\ n[i].pred = v[i].pred /\ ~ L!InForce(n[i])
    OBVIOUS
  <2>1. IsRow(v[i]) BY <1>2, <1>8
  <2>2. n[i] = [v[i] EXCEPT !.status = "superseded", !.closed = TRUE] BY <1>9
  <2>3. n[i] = [pred |-> v[i].pred, status |-> "superseded", closed |-> TRUE,
                reason |-> v[i].reason]
    BY <2>1, <2>2 DEF IsRow
  <2> QED BY <2>3 DEF IsRow, L!InForce
<1>11. Fits(f, n)
  <2>1. ASSUME NEW i \in DOMAIN n PROVE IsRow(n[i]) /\ (i \in DOMAIN f => n[i].pred = f[i].pred)
    BY <1>2, <1>6, <1>7, <1>9, <1>10 DEF Fits
  <2>2. DOMAIN Seen(f, n) = DOMAIN v /\ \A i \in DOMAIN v :
          Seen(f, n)[i] = IF i \in rivals THEN n[i] ELSE v[i]
    BY <1>2, <1>6, <1>9 DEF Seen
  <2>3. One(v) BY <1>7 DEF Fits, v
  <2>4. One(Seen(f, n)) BY <2>2, <2>3, <1>10 DEF One
  <2> QED BY <2>1, <2>4 DEF Fits
<1>12. ASSUME NEW b \in L!Actor \ {r} PROVE Separate(f, n, txn[b].mine) /\ Separate(f, txn[b].mine, n)
  <2> DEFINE o == txn[b].mine
  <2>1. Separate(f, m, o) /\ Fits(f, o) BY DEF MemoryInv, WritesSeparate, WritesFit
  <2>2. rivals \cap DOMAIN o = {} BY <1>4, WaitsSay
  <2>3. DOMAIN n \cap DOMAIN o = {} BY <1>9, <2>1, <2>2 DEF Separate
  <2>5. \A q : ~ (Moves(f, m, q) /\ Moves(f, o, q)) BY <2>1 DEF Separate
  <2>4. ASSUME NEW q, Moves(f, n, q), Moves(f, o, q) PROVE FALSE
    <3>1. PICK i \in DOMAIN n : n[i].pred = q /\ (L!InForce(n[i]) \/ (i \in DOMAIN f /\ L!InForce(f[i])))
      BY <2>4 DEF Moves
    <3>2. CASE i \in DOMAIN m
      <4>1. m[i].pred = q BY <3>1, <3>2, <1>6, <1>9, <1>10, <1>2
      <4>2. L!InForce(m[i]) \/ (i \in DOMAIN f /\ L!InForce(f[i]))
        BY <3>1, <3>2, <1>9, <1>10
      <4>3. Moves(f, m, q) BY <4>1, <4>2, <3>2 DEF Moves
      <4> QED BY <4>3, <2>4, <2>5
    <3>3. CASE i \notin DOMAIN m
      <4>1. i \in rivals BY <3>3, <1>9
      <4>2. i \in DOMAIN f /\ v[i] = f[i] /\ L!InForce(f[i]) BY <4>1, <3>3, <1>2, <1>6
      <4>3. f[i].pred = q BY <4>1, <4>2, <3>1, <1>10
      <4>4. i \notin DOMAIN o BY <4>1, <2>2
      <4>5. ~ Moves(f, o, q) BY <4>2, <4>3, <4>4, <1>7, <2>1, InForceHoldsEntry
      <4> QED BY <4>5, <2>4
    <3> QED BY <3>2, <3>3
  <2> QED BY <2>3, <2>4 DEF Separate
<1>13. DOMAIN txn' = L!Actor /\ (\A b \in L!Actor \ {r} : txn'[b] = txn[b])
       /\ txn'[r] = [stage |-> "superseded", locks |-> txn[r].locks, mine |-> n]
  BY <1>3, StageAndWrites DEF MemoryInv
<1>14. Shape' BY <1>3, StageAndWrites DEF MemoryInv
<1>15. (One(facts) /\ Rows /\ Shape /\ WritesFit /\ WritesSeparate)'
  BY <1>3, <1>11, <1>12, <1>13, <1>14, WritesStep
<1>16. OwnRows'
  <2>1. ASSUME NEW b \in L!Actor, NEW i \in DOMAIN txn'[b].mine
        PROVE  i \in DOMAIN facts \/ (b \in Run /\ \E k : i = <<b, k>>)
    <3>1. CASE b = r
      <4>1. i \in DOMAIN n BY <3>1, <1>13
      <4>2. i \in DOMAIN f \cup DOMAIN m BY <4>1, <1>2, <1>6, <1>9
      <4> QED BY <4>2, <3>1 DEF MemoryInv, OwnRows
    <3>2. CASE b # r BY <3>2, <1>13 DEF MemoryInv, OwnRows
    <3> QED BY <3>1, <3>2
  <2>2. ASSUME NEW b \in Run, \E k : <<b, k>> \in DOMAIN facts PROVE txn'[b].stage = "committed"
    BY <2>2, <1>5, <1>13 DEF MemoryInv, OwnRows, L!Actor
  <2> QED BY <2>1, <2>2, <1>3 DEF OwnRows
<1>17. DecidersIdle' BY <1>13 DEF MemoryInv, DecidersIdle, L!Actor
<1> QED BY <1>15, <1>16, <1>17 DEF MemoryInv

\* A row is added where the index has no entry for it and none is being moved.
LEMMA InsertStep ==
  ASSUME OwnersAreApart, MemoryInv, NEW r \in Run, L!Insert(r)
  PROVE  MemoryInv'
<1> r \in L!Actor /\ r \notin Decider BY DEF L!Actor, OwnersAreApart
<1> DEFINE p == L!Current(r).pred
           f == facts
           m == txn[r].mine
           v == Seen(f, m)
           id == <<r, learning[r].done + 1>>
           row == [pred |-> p, status |-> L!Current(r).status, closed |-> FALSE, reason |-> None]
           n == [i \in DOMAIN m \cup {id} |-> IF i = id THEN row ELSE m[i]]
<1>1. f' = f /\ txn' = [txn EXCEPT ![r].stage = "learning", ![r].mine = n]
  BY DEF L!Insert
<1>2. txn[r].stage # "committed" BY DEF L!Insert, L!Inserts
<1>3. IsRow(row) /\ row.pred = p /\ (L!InForce(row) => L!Current(r).status = "active")
  BY DEF IsRow, L!InForce
<1>4. L!InForce(row) => L!Rivals(r, p) = {} /\ L!Entering(r, p) = {}
  BY <1>3 DEF L!Insert, L!InsertWaits, L!Refused, L!Taken
<1>5. L!View(r) = v BY DEF L!View, Seen
<1>6. L!InForce(row) => \A i \in DOMAIN v : ~ (v[i].pred = p /\ L!InForce(v[i]))
  BY <1>4, <1>5 DEF L!Rivals
<1>7. id \notin DOMAIN f BY <1>2 DEF MemoryInv, OwnRows
<1>8. ASSUME NEW b \in L!Actor \ {r} PROVE id \notin DOMAIN txn[b].mine
  <2> SUFFICES ASSUME id \in DOMAIN txn[b].mine PROVE FALSE OBVIOUS
  <2>1. \E k : id = <<b, k>> BY <1>7 DEF MemoryInv, OwnRows
  <2> QED BY <2>1
<1>9. DOMAIN n = DOMAIN m \cup {id} /\ \A i \in DOMAIN n : n[i] = IF i = id THEN row ELSE m[i]
  OBVIOUS
<1>10. DOMAIN v = DOMAIN f \cup DOMAIN m
       /\ \A i \in DOMAIN v : v[i] = IF i \in DOMAIN m THEN m[i] ELSE f[i]
  BY DEF Seen
<1>11. Fits(f, m) BY DEF MemoryInv, WritesFit
<1>12. DOMAIN txn' = L!Actor /\ (\A b \in L!Actor \ {r} : txn'[b] = txn[b])
       /\ txn'[r] = [stage |-> "learning", locks |-> txn[r].locks, mine |-> n] /\ Shape'
  BY <1>1, StageAndWrites DEF MemoryInv
<1> HIDE DEF n, v, row, id
<1>13. Fits(f, n)
  <2>1. \A i \in DOMAIN n : IsRow(n[i]) /\ (i \in DOMAIN f => n[i].pred = f[i].pred)
    BY <1>3, <1>7, <1>9, <1>11 DEF Fits
  <2>2. DOMAIN Seen(f, n) = DOMAIN v \cup {id} /\ \A i \in DOMAIN Seen(f, n) :
          Seen(f, n)[i] = IF i = id THEN row ELSE v[i]
    BY <1>9, <1>10 DEF Seen
  <2>3. One(v) BY <1>11 DEF Fits, v
  <2>4. One(Seen(f, n)) BY <2>2, <2>3, <1>3, <1>6 DEF One
  <2> QED BY <2>1, <2>4 DEF Fits
<1>14. ASSUME NEW b \in L!Actor \ {r} PROVE Separate(f, n, txn[b].mine) /\ Separate(f, txn[b].mine, n)
  <2> DEFINE o == txn[b].mine
  <2>1. Separate(f, m, o) BY DEF MemoryInv, WritesSeparate
  <2>2. DOMAIN n \cap DOMAIN o = {} BY <1>8, <1>9, <2>1 DEF Separate
  <2>3. ASSUME NEW q, Moves(f, n, q), Moves(f, o, q) PROVE FALSE
    <3>1. PICK i \in DOMAIN n : n[i].pred = q /\ (L!InForce(n[i]) \/ (i \in DOMAIN f /\ L!InForce(f[i])))
      BY <2>3 DEF Moves
    <3>2. CASE i = id
      <4>1. L!InForce(row) /\ q = p BY <3>1, <3>2, <1>3, <1>7, <1>9
      <4>2. ~ Moves(f, o, p) BY <4>1, <1>4, WaitsSay
      <4> QED BY <4>1, <4>2, <2>3
    <3>3. CASE i # id
      <4>1. Moves(f, m, q) BY <3>1, <3>3, <1>9 DEF Moves
      <4> QED BY <4>1, <2>1, <2>3 DEF Separate
    <3> QED BY <3>2, <3>3
  <2> QED BY <2>2, <2>3 DEF Separate
<1>15. (One(facts) /\ Rows /\ Shape /\ WritesFit /\ WritesSeparate)'
  BY <1>1, <1>12, <1>13, <1>14, WritesStep
<1>16. OwnRows'
  <2>1. ASSUME NEW b \in L!Actor, NEW i \in DOMAIN txn'[b].mine
        PROVE  i \in DOMAIN facts \/ (b \in Run /\ \E k : i = <<b, k>>)
    <3>1. CASE b = r
      <4>1. i \in DOMAIN m \/ i = id BY <3>1, <1>9, <1>12
      <4>2. CASE i = id BY <4>2, <3>1 DEF id
      <4>3. CASE i \in DOMAIN m BY <4>3, <3>1 DEF MemoryInv, OwnRows
      <4> QED BY <4>1, <4>2, <4>3
    <3>2. CASE b # r BY <3>2, <1>12 DEF MemoryInv, OwnRows
    <3> QED BY <3>1, <3>2
  <2>2. ASSUME NEW b \in Run, \E k : <<b, k>> \in DOMAIN facts PROVE txn'[b].stage = "committed"
    BY <2>2, <1>2, <1>12 DEF MemoryInv, OwnRows, L!Actor
  <2> QED BY <2>1, <2>2, <1>1 DEF OwnRows
<1>17. DecidersIdle' BY <1>12 DEF MemoryInv, DecidersIdle, L!Actor
<1> QED BY <1>15, <1>16, <1>17 DEF MemoryInv

\* A user's decision overwrites one committed row nobody else is writing.
LEMMA DecideStep ==
  ASSUME OwnersAreApart, MemoryInv, NEW d \in Decider, NEW i \in DOMAIN facts,
         NEW approved \in BOOLEAN, L!Decide(d, i, approved)
  PROVE  MemoryInv'
<1> d \in L!Actor /\ d \notin Run BY DEF L!Actor, OwnersAreApart
<1> DEFINE f == facts
           m == txn[d].mine
           p == facts[i].pred
           row == L!Decided(i, approved)
           n == [j \in {i} |-> row]
<1>1. f' = f /\ txn' = [txn EXCEPT ![d] = [stage |-> "decided", locks |-> {}, mine |-> n]]
  BY DEF L!Decide
<1>2. DOMAIN m = {} BY DEF L!Decide, MemoryInv, DecidersIdle
<1>3. DOMAIN L!View(d) = DOMAIN f /\ \A j \in DOMAIN f : L!View(d)[j] = f[j]
  BY <1>2 DEF L!View
<1>4. IsRow(f[i]) BY DEF MemoryInv, Rows
<1>5. IsRow(row) /\ row.pred = p
  <2>1. ASSUME NEW x, IsRow(x), NEW s, NEW w
        PROVE  [x EXCEPT !.status = s, !.reason = w]
                 = [pred |-> x.pred, status |-> s, closed |-> x.closed, reason |-> w]
    <3> DEFINE one == [x EXCEPT !.status = s]
    <3>1. one = [pred |-> x.pred, status |-> s, closed |-> x.closed, reason |-> x.reason]
      BY <2>1 DEF IsRow
    <3>2. [x EXCEPT !.status = s, !.reason = w] = [one EXCEPT !.reason = w] OBVIOUS
    <3> HIDE DEF one
    <3> QED BY <3>1, <3>2
  <2>2. PICK s, w : row = [f[i] EXCEPT !.status = s, !.reason = w]
    BY DEF L!Decided
  <2>3. row = [pred |-> p, status |-> s, closed |-> f[i].closed, reason |-> w]
    BY <1>4, <2>1, <2>2
  <2> QED BY <2>3 DEF IsRow
<1>6. L!InForce(row) /\ ~ L!InForce(f[i]) =>
        L!Entering(d, p) = {} /\ \A j \in DOMAIN f \ {i} : ~ (f[j].pred = p /\ L!InForce(f[j]))
  BY <1>3 DEF L!Decide, L!Enters, L!Taken, L!Rivals
<1>7. L!Holders(d, {i}) = {} BY DEF L!Decide
<1>8. One(f) BY DEF MemoryInv
<1>9. DOMAIN n = {i} /\ n[i] = row OBVIOUS
<1>10. DOMAIN txn' = L!Actor /\ (\A b \in L!Actor \ {d} : txn'[b] = txn[b])
       /\ txn'[d] = [stage |-> "decided", locks |-> {}, mine |-> n]
  BY <1>1 DEF MemoryInv, Shape
<1> HIDE DEF n, row
<1>11. Fits(f, n)
  <2>1. DOMAIN Seen(f, n) = DOMAIN f /\ \A j \in DOMAIN f :
          Seen(f, n)[j] = IF j = i THEN row ELSE f[j]
    BY <1>9 DEF Seen
  <2>2. One(Seen(f, n)) BY <2>1, <1>5, <1>6, <1>8 DEF One
  <2> QED BY <2>2, <1>5, <1>9 DEF Fits
<1>12. ASSUME NEW b \in L!Actor \ {d} PROVE Separate(f, n, txn[b].mine) /\ Separate(f, txn[b].mine, n)
  <2> DEFINE o == txn[b].mine
  <2>1. i \notin DOMAIN o BY <1>7, WaitsSay
  <2>2. ~ Moves(f, o, p) \/ ~ (L!InForce(row) \/ L!InForce(f[i]))
    <3>1. CASE L!InForce(f[i])
      <4>1. Fits(f, o) BY DEF MemoryInv, WritesFit
      <4> QED BY <3>1, <4>1, <2>1, <1>8, InForceHoldsEntry
    <3>2. CASE L!InForce(row) /\ ~ L!InForce(f[i]) BY <3>2, <1>6, WaitsSay
    <3> QED BY <3>1, <3>2
  <2>3. \A q : Moves(f, n, q) => q = p /\ (L!InForce(row) \/ L!InForce(f[i]))
    BY <1>5, <1>9 DEF Moves
  <2> QED BY <2>1, <2>2, <2>3, <1>9 DEF Separate
<1>13. Shape' BY <1>10 DEF MemoryInv, Shape
<1>14. (One(facts) /\ Rows /\ Shape /\ WritesFit /\ WritesSeparate)'
  BY <1>1, <1>10, <1>11, <1>12, <1>13, WritesStep
<1>15. OwnRows'
  <2>1. ASSUME NEW b \in L!Actor, NEW j \in DOMAIN txn'[b].mine
        PROVE  j \in DOMAIN facts \/ (b \in Run /\ \E k : j = <<b, k>>)
    BY <1>9, <1>10 DEF MemoryInv, OwnRows
  <2>2. ASSUME NEW b \in Run, \E k : <<b, k>> \in DOMAIN facts PROVE txn'[b].stage = "committed"
    BY <2>2, <1>10 DEF MemoryInv, OwnRows, L!Actor
  <2> QED BY <2>1, <2>2, <1>1 DEF OwnRows
<1>16. DecidersIdle' BY <1>10 DEF MemoryInv, DecidersIdle, L!Actor
<1> QED BY <1>14, <1>15, <1>16 DEF MemoryInv

-----------------------------------------------------------------------------

\* Facts of earlier runs are one per predicate, and nobody has begun.
LEMMA MemoryInvInit == ASSUME OwnersAreApart, L!MemoryInit PROVE MemoryInv
<1>1. PICK known \in SUBSET Predicate :
        facts = [i \in {<<None, p>> : p \in known} |->
                   [pred |-> i[2], status |-> "active", closed |-> FALSE, reason |-> None]]
  BY DEF L!MemoryInit
<1>2. txn = [a \in L!Actor |-> [stage |-> "idle", locks |-> {}, mine |-> <<>>]]
  BY DEF L!MemoryInit, L!Idle
<1>3. One(facts) BY <1>1 DEF One
<1>4. Rows BY <1>1 DEF Rows, IsRow
<1>5. Shape BY <1>2 DEF Shape
<1>6. \A a \in L!Actor : DOMAIN txn[a].mine = {} BY <1>2
<1>7. WritesFit BY <1>3, <1>6, NothingFits DEF WritesFit
<1>8. WritesSeparate BY <1>3, <1>6, NothingFits DEF WritesSeparate
<1>9. OwnRows BY <1>1, <1>6 DEF OwnRows, OwnersAreApart
<1>10. DecidersIdle BY <1>6 DEF DecidersIdle, L!Actor
<1> QED BY <1>3, <1>4, <1>5, <1>7, <1>8, <1>9, <1>10 DEF MemoryInv

\* What a run does keeps the invariant.
LEMMA RunStep ==
  ASSUME OwnersAreApart, MemoryInv, NEW r \in Run,
         \/ \E candidates : L!Learn(r, candidates)
         \/ L!Refuse(r) \/ L!Lock(r) \/ L!Supersede(r) \/ L!Insert(r) \/ L!InsertIsRefused(r)
         \/ L!Commit(r) \/ L!Lose(r) \/ L!DeadlockVictim(r)
  PROVE  MemoryInv'
<1> r \in L!Actor /\ r \notin Decider BY DEF L!Actor, OwnersAreApart
<1>1. ASSUME NEW candidates, L!Learn(r, candidates) PROVE MemoryInv'
  <2>1. facts' = facts /\ txn' = [txn EXCEPT ![r].stage = "learning"] /\ txn[r].stage = "idle"
    BY <1>1 DEF L!Learn
  <2>2. DOMAIN txn' = L!Actor /\ (\A b \in L!Actor \ {r} : txn'[b] = txn[b])
        /\ txn'[r] = [stage |-> "learning", locks |-> txn[r].locks, mine |-> txn[r].mine]
    BY <2>1 DEF MemoryInv, Shape
  <2>3. Shape' BY <2>2 DEF MemoryInv, Shape
  <2> QED BY <2>1, <2>2, <2>3, QuietStep
<1>2. CASE L!Refuse(r)
  <2>1. facts' = facts /\ txn' = txn /\ txn[r].stage = "learning" BY <1>2 DEF L!Refuse
  <2>2. Shape' /\ DOMAIN txn' = L!Actor BY <2>1 DEF MemoryInv, Shape
  <2> QED BY <2>1, <2>2, QuietStep
<1>3. CASE L!Lock(r)
  <2> DEFINE l == txn[r].locks \cup {L!Current(r).pred}
             once == [txn EXCEPT ![r].locks = l]
  <2>1. facts' = facts /\ txn[r].stage = "learning" BY <1>3 DEF L!Lock
  <2>2. txn' = [once EXCEPT ![r].stage = "locked"] BY <1>3 DEF L!Lock
  <2> HIDE DEF l
  <2>3. DOMAIN once = L!Actor /\ (\A b \in L!Actor \ {r} : once[b] = txn[b])
        /\ once[r] = [stage |-> txn[r].stage, locks |-> l, mine |-> txn[r].mine]
    BY DEF MemoryInv, Shape
  <2> HIDE DEF once
  <2>4. DOMAIN txn' = L!Actor /\ (\A b \in L!Actor \ {r} : txn'[b] = txn[b])
        /\ txn'[r] = [stage |-> "locked", locks |-> l, mine |-> txn[r].mine]
    BY <2>2, <2>3
  <2>5. Shape' BY <2>4 DEF MemoryInv, Shape
  <2> QED BY <2>1, <2>4, <2>5, QuietStep
<1>4. CASE L!InsertIsRefused(r)
  <2>1. txn[r].stage # "committed" BY <1>4 DEF L!InsertIsRefused, L!Inserts
  <2> QED BY <1>4, <2>1, RollbackStep DEF L!InsertIsRefused, L!RolledBack
<1>5. CASE L!Commit(r)
  <2>1. txn' = [txn EXCEPT ![r] = [stage |-> "committed", locks |-> {}, mine |-> <<>>]]
    <3>1. [L!Idle EXCEPT !.stage = "committed"] = [stage |-> "committed", locks |-> {}, mine |-> <<>>]
      <4>1. \A e : [[stage |-> "idle", locks |-> {}, mine |-> e] EXCEPT !.stage = "committed"]
                     = [stage |-> "committed", locks |-> {}, mine |-> e]
        OBVIOUS
      <4> QED BY <4>1, Zenon DEF L!Idle
    <3> QED BY <3>1, <1>5 DEF L!Commit
  <2>2. facts' = L!View(r) BY <1>5 DEF L!Commit
  <2> QED BY <2>1, <2>2, CommitStep
<1>6. CASE L!Lose(r)
  <2>1. txn[r].stage # "committed" BY <1>6 DEF L!Lose
  <2> QED BY <1>6, <2>1, RollbackStep DEF L!Lose, L!RolledBack
<1>7. CASE L!DeadlockVictim(r)
  <2>1. L!WaitsFor(r) # {} BY <1>7 DEF L!DeadlockVictim
  <2>2. txn[r].stage # "committed" BY <2>1 DEF L!WaitsFor
  <2> QED BY <1>7, <2>2, RollbackStep DEF L!DeadlockVictim, L!RolledBack
<1> QED BY <1>1, <1>2, <1>3, <1>4, <1>5, <1>6, <1>7, SupersedeStep, InsertStep

\* Every step keeps the invariant.
LEMMA MemoryInvStep ==
  ASSUME OwnersAreApart, MemoryInv, [L!MemoryNext]_(L!mvars)
  PROVE  MemoryInv'
<1>1. ASSUME NEW d \in Decider, L!CommitDecision(d) PROVE MemoryInv'
  <2> d \in L!Actor /\ d \notin Run BY DEF L!Actor, OwnersAreApart
  <2>1. facts' = L!View(d) /\ txn' = [txn EXCEPT ![d] = [stage |-> "idle", locks |-> {}, mine |-> <<>>]]
    BY <1>1 DEF L!CommitDecision, L!Idle
  <2>2. \A i \in DOMAIN txn[d].mine : i \in DOMAIN facts BY DEF MemoryInv, OwnRows
  <2> QED BY <2>1, <2>2, CommitStep
<1>2. ASSUME facts' = facts, txn' = txn PROVE MemoryInv'
  BY <1>2 DEF MemoryInv, One, Rows, Shape, WritesFit, WritesSeparate, OwnRows, DecidersIdle
<1>3. ASSUME NEW d \in Decider, NEW i \in DOMAIN facts, L!DecisionIsRefused(d, i) PROVE MemoryInv'
  BY <1>2, <1>3 DEF L!DecisionIsRefused
<1>4. CASE UNCHANGED L!mvars BY <1>2, <1>4 DEF L!mvars
<1>5. CASE L!MemoryNext BY <1>1, <1>3, <1>5, RunStep, DecideStep DEF L!MemoryNext
<1> QED BY <1>4, <1>5

\* OneCurrentFact for any number of runs and users, of candidates and of predicates: in
\* no order of their statements and commits do two facts of a predicate come into force
\* (materialize_fact, decide_memory and the index of migration 004).
THEOREM OneFactInForce ==
  ASSUME OwnersAreApart
  PROVE  L!MemorySpec => []L!OneCurrentFact
<1>1. L!MemoryInit => MemoryInv BY OwnersAreApart, MemoryInvInit
<1>2. MemoryInv /\ [L!MemoryNext]_(L!mvars) => MemoryInv' BY OwnersAreApart, MemoryInvStep
<1>3. MemoryInv => L!OneCurrentFact BY DEF MemoryInv, One, L!OneCurrentFact
<1> QED BY <1>1, <1>2, <1>3, PTL DEF L!MemorySpec
=============================================================================
