---------------------------- MODULE MemoryLedger ----------------------------
(***************************************************************************)
(* The canonical memory of the delivery service: memory_facts with their   *)
(* source events, written by the results of runs (_commit_learning and     *)
(* materialize_fact) and by the decisions of the merchant (decide_memory), *)
(* and indexed by the recalls of workers (compensate_pending_indexes).     *)
(*                                                                         *)
(* Results and decisions hold the write lock of the repository, so each is *)
(* one step; a rejected candidate or decision changes nothing.  A recall   *)
(* does not take that lock: it reads, encodes fact by fact, holding the    *)
(* rows it has written, and commits.  It may belong to a worker that has   *)
(* been given up, or die anywhere.                                         *)
(*                                                                         *)
(* A fact is identified with its source event (UNIQUE source_event_id).    *)
(* Its effective period is the set of days it covers, and {Always} when it *)
(* has none.  valid_to is set exactly when a fact is superseded.           *)
(***************************************************************************)
EXTENDS Naturals, FiniteSets

CONSTANTS
  Fact,       \* facts, by their source event (run, candidate_id)
  Predicate,  \* merchant, subject and predicate
  Horizon,    \* bound: days a period can cover
  Candidate,  \* fact and source types of the candidates of runs
  Key,        \* idempotency keys of decisions
  Recall,     \* workers that recall memories
  Limit,      \* facts one recall indexes at most (20)
  None

Always == 0
Day == 1..Horizon
Slot == {Always} \cup Day
Span == {{Always}} \cup ({a..b : a \in Day, b \in Day} \ {{}})

FactType == {"observation", "user_fact", "inference", "decision"}
SourceType == {"mcp", "sql", "seed", "user", "user_approved", "llm", "agent"}

ASSUME LedgerAssumption ==
  /\ IsFiniteSet(Fact)
  /\ Horizon \in Nat
  /\ Candidate \subseteq [type : FactType, source : SourceType]
  /\ Limit \in Nat \ {0}
  /\ None \notin Fact

VARIABLES
  facts,     \* memory_facts and the index_status of the source event
  receipts,  \* delivery_operations of decide_memory, None when absent
  today,     \* the current day
  batch,     \* recall -> facts it has read and not tried yet
  marked     \* recall -> facts it has written in its open transaction

vars == <<facts, receipts, today, batch, marked>>

Undecided == {"pending", "proposed_decision"}
Status == {"absent", "active", "superseded", "rejected"} \cup Undecided

\* memory_facts.status, version and embedding; index_status of the event;
\* the order of memory_events.created_at.
Row == [pred : Predicate \cup {None}, span : Span, type : FactType,
        status : Status, version : 0..3, vector : BOOLEAN,
        index : {"pending", "indexed"}, born : Nat]

NoRow == [pred |-> None, span |-> {Always}, type |-> "observation",
          status |-> "absent", version |-> 0, vector |-> FALSE,
          index |-> "pending", born |-> 0]

Receipt == [fact : Fact, approved : BOOLEAN, expected : 1..3 \cup {None}]

\* NULL is no row of a table.
ASSUME NullAssumption == None \notin Receipt

Present == {f \in Fact : facts[f].status # "absent"}

Init ==
  /\ facts = [f \in Fact |-> NoRow]
  /\ receipts = [k \in Key |-> None]
  /\ today = 1
  /\ batch = [w \in Recall |-> {}]
  /\ marked = [w \in Recall |-> {}]

-----------------------------------------------------------------------------
(* The policy gate: what may be active without the merchant *)

\* Bug: an inference counts like the statement it was drawn from.
InferenceActivates(c) ==
  CASE c.type = "decision"  -> c.source = "user_approved"
    [] c.type = "user_fact" -> c.source \in {"user", "user_approved"}
    [] OTHER -> c.source # "agent"

Activates(c) ==
  CASE c.type = "decision"  -> c.source = "user_approved"
    [] c.type = "inference" -> FALSE
    [] c.type = "user_fact" -> c.source \in {"user", "user_approved"}
    [] OTHER -> c.source \in {"mcp", "sql", "user", "user_approved", "seed"}

Gate(c) ==
  IF Activates(c) THEN "active"
  ELSE IF c.type = "decision" THEN "proposed_decision" ELSE "pending"

(* Supersession, the same in materialize_fact and decide_memory *)

\* Bug: only facts of exactly the same period are rivals.
EqualRivals(p, span) ==
  {g \in Fact : facts[g].status = "active" /\ facts[g].pred = p /\ facts[g].span = span}

Rivals(p, span) ==
  {g \in Fact : /\ facts[g].status = "active" /\ facts[g].pred = p
                /\ facts[g].span \cap span # {}}

\* Rows that an open recall has written block the writers of the same rows.
Unlocked(S) == \A w \in Recall : marked[w] \cap S = {}

\* Bug: the version of a superseded fact stays.
SupersedeQuietly(S) ==
  [g \in Fact |-> IF g \in S THEN [facts[g] EXCEPT !.status = "superseded"] ELSE facts[g]]

Supersede(S) ==
  [g \in Fact |-> IF g \in S THEN [facts[g] EXCEPT !.status = "superseded", !.version = @ + 1]
                  ELSE facts[g]]

-----------------------------------------------------------------------------
(* A candidate of a result, within its savepoint *)

Inserted(p, span, c) ==
  [pred |-> p, span |-> span, type |-> c.type, status |-> Gate(c), version |-> 1,
   vector |-> FALSE, index |-> "pending", born |-> Cardinality(Present) + 1]

\* Bug: no savepoint; the rivals of a repeated candidate stay superseded.
CommitCandidateUnguarded(f, p, span, c) ==
  LET rivals == IF Gate(c) = "active" THEN Rivals(p, span) ELSE {}
  IN /\ Unlocked(rivals)
     /\ facts' = IF f \in Present THEN Supersede(rivals)
                 ELSE [Supersede(rivals) EXCEPT ![f] = Inserted(p, span, c)]
     /\ UNCHANGED <<receipts, today, batch, marked>>

\* A candidate that is repeated is rejected: its event has its fact already,
\* and the savepoint takes the supersession back.
CommitCandidate(f, p, span, c) ==
  LET rivals == IF Gate(c) = "active" THEN Rivals(p, span) ELSE {}
  IN /\ f \notin Present
     /\ Unlocked(rivals)
     /\ facts' = [Supersede(rivals) EXCEPT ![f] = Inserted(p, span, c)]
     /\ UNCHANGED <<receipts, today, batch, marked>>

(* A decision of the merchant *)

Expired(span) == Always \notin span /\ \A d \in span : d < today

\* Bug: a fact that has been decided before is decided again.
DecidableAgain(f, approved) == f \in Present /\ (approved => ~Expired(facts[f].span))

Decidable(f, approved) ==
  facts[f].status \in Undecided /\ (approved => ~Expired(facts[f].span))

\* The same request again is answered from its receipt, without a step.
Decide(k, f, approved, expected) ==
  LET rivals == IF approved THEN Rivals(facts[f].pred, facts[f].span) ELSE {}
  IN /\ receipts[k] = None
     /\ expected \in {None, facts[f].version}
     /\ Decidable(f, approved)
     /\ Unlocked(rivals)
     /\ facts' = [Supersede(rivals) EXCEPT
          ![f].status = IF approved THEN "active" ELSE "rejected",
          ![f].version = facts[f].version + 1]
     /\ receipts' = [receipts EXCEPT
          ![k] = [fact |-> f, approved |-> approved, expected |-> expected]]
     /\ UNCHANGED <<today, batch, marked>>

DayPasses ==
  /\ today <= Horizon
  /\ today' = today + 1
  /\ UNCHANGED <<facts, receipts, batch, marked>>

-----------------------------------------------------------------------------
(* Compensation: a recall indexes the oldest facts that lack a vector *)

\* Bugs: facts of any status are indexed; facts approved later are not.
UnindexedOfAnyStatus == {f \in Present : facts[f].index = "pending" /\ ~facts[f].vector}
UnindexedSinceCommit ==
  {f \in Fact : facts[f].status = "active" /\ facts[f].version = 1 /\ ~facts[f].vector}

Unindexed ==
  {f \in Fact : facts[f].status = "active" /\ facts[f].index = "pending" /\ ~facts[f].vector}

Older(f, g) == facts[f].born < facts[g].born

Fetch(w) ==
  /\ batch[w] = {} /\ marked[w] = {}
  /\ Unindexed # {}
  /\ batch' = [batch EXCEPT ![w] =
       {f \in Unindexed : Cardinality({g \in Unindexed : Older(g, f)}) < Limit}]
  /\ UNCHANGED <<facts, receipts, today, marked>>

IsNext(w, f) == f \in batch[w] /\ \A g \in batch[w] : ~Older(g, f)

\* The encoder works: vector and index status are written, not yet committed.
Encode(w, f) ==
  /\ IsNext(w, f)
  /\ Unlocked({f})
  /\ batch' = [batch EXCEPT ![w] = @ \ {f}]
  /\ marked' = [marked EXCEPT ![w] = @ \cup {f}]
  /\ UNCHANGED <<facts, receipts, today>>

\* The encoder fails, or returns a vector of another dimension.
Skip(w, f) ==
  /\ IsNext(w, f)
  /\ batch' = [batch EXCEPT ![w] = @ \ {f}]
  /\ UNCHANGED <<facts, receipts, today, marked>>

Commit(w) ==
  /\ batch[w] = {} /\ marked[w] # {}
  /\ facts' = [f \in Fact |->
       IF f \in marked[w] THEN [facts[f] EXCEPT !.vector = TRUE, !.index = "indexed"]
       ELSE facts[f]]
  /\ marked' = [marked EXCEPT ![w] = {}]
  /\ UNCHANGED <<receipts, today, batch>>

\* The worker dies, or its connection does.
Abandon(w) ==
  /\ batch[w] # {} \/ marked[w] # {}
  /\ batch' = [batch EXCEPT ![w] = {}]
  /\ marked' = [marked EXCEPT ![w] = {}]
  /\ UNCHANGED <<facts, receipts, today>>

Next ==
  \/ \E f \in Fact, p \in Predicate, span \in Span, c \in Candidate :
       CommitCandidate(f, p, span, c)
  \/ \E k \in Key, f \in Fact, approved \in BOOLEAN, v \in 1..3 \cup {None} :
       Decide(k, f, approved, v)
  \/ DayPasses
  \/ \E w \in Recall :
       \/ Fetch(w) \/ Commit(w) \/ Abandon(w)
       \/ \E f \in Fact : Encode(w, f) \/ Skip(w, f)

Spec == Init /\ [][Next]_vars

\* Runs keep recalling; encoder, worker and database do not fail for ever.
Fairness ==
  \A w \in Recall :
    /\ SF_vars(Fetch(w))
    /\ \A f \in Fact : SF_vars(Encode(w, f)) /\ SF_vars(Commit(w) /\ f \in marked[w])

FairSpec == Spec /\ Fairness

-----------------------------------------------------------------------------
(* Properties *)

\* Type invariant of the ledger.
TypeOK ==
  /\ facts \in [Fact -> Row]
  /\ receipts \in [Key -> Receipt \cup {None}]
  /\ today \in 1..Horizon + 1
  /\ batch \in [Recall -> SUBSET Fact]
  /\ marked \in [Recall -> SUBSET Fact]

\* For a predicate and an instant at most one fact is active, whichever of
\* results and decisions activated them and however their periods overlap
\* (materialize_fact and decide_memory; the unique indexes of migration 004
\* only cover equal periods).
OneFactPerInstant ==
  \A f, g \in Fact :
    /\ facts[f].status = "active" /\ facts[g].status = "active"
    /\ facts[f].pred = facts[g].pred /\ facts[f].span \cap facts[g].span # {}
    => f = g

\* The merchant decides once: a fact has one receipt at most, and it is what
\* that receipt says or what has replaced it since, also when opposite
\* decisions and retries arrive together (decide_memory).
OneVerdict ==
  \A k \in Key : receipts[k] # None =>
    /\ \A l \in Key : receipts[l] # None /\ receipts[l].fact = receipts[k].fact => k = l
    /\ facts[receipts[k].fact].status \in
         IF receipts[k].approved THEN {"active", "superseded"} ELSE {"rejected"}

\* An inference is in force only after the merchant approved it: no sequence of
\* results and decisions on other facts activates one, or lets one replace a
\* verified fact (gate_candidate, decide_memory).
Warranted ==
  \A f \in Fact :
    facts[f].status \in {"active", "superseded"} /\ facts[f].type = "inference" =>
      \E k \in Key : receipts[k] # None /\ receipts[k].fact = f /\ receipts[k].approved

\* Only facts that have been in force are in the index, and index status and
\* vector agree, although a recall reads them without a lock and commits
\* later (compensate_pending_indexes, mark_index_result).
IndexIsSound ==
  \A f \in Fact :
    /\ facts[f].vector <=> facts[f].index = "indexed"
    /\ facts[f].vector => facts[f].status \in {"active", "superseded"}

\* A reader who holds a version knows the status: every change of the status
\* of a fact that exists raises its version (expected_version of decide_memory).
VersionsTellChanges ==
  [][\A f \in Fact :
       /\ facts'[f].version >= facts[f].version
       /\ facts'[f].status # facts[f].status => facts'[f].version > facts[f].version]_vars

\* The facts in force form a timeline: a step replaces facts only by a fact
\* that takes their place, and what has been replaced does not come back.
HolderAt(p, s) == {f \in Fact : facts[f].status = "active" /\ facts[f].pred = p /\ s \in facts[f].span}

OneOf(S) == IF S = {} THEN None ELSE CHOOSE f \in S : TRUE
Holding(p, s) == OneOf(HolderAt(p, s))

Held == [p \in Predicate |-> [s \in Slot |-> Holding(p, s)]]
Spent == {f \in Fact : facts[f].status = "superseded"}

Timeline == INSTANCE MemoryTimeline WITH held <- Held, spent <- Spent

ImplementsTimeline == Timeline!Spec
=============================================================================
