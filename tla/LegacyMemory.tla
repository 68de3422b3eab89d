----------------------------- MODULE LegacyMemory -----------------------------
(* The memory tables under the legacy API: runs that store what they learned *)
(* (_persist_learning of app/api/main.py, materialize_fact) while users      *)
(* approve and reject memories (decide_memory of app/storage/                *)
(* api_repository.py).  All are transactions of PostgreSQL in READ COMMITTED *)
(* that overlap statement by statement: an advisory lock per predicate keeps *)
(* learning runs apart, a partial unique index (migration 004) is behind it. *)
(* Subjects are part of the predicate and facts have no effective period; no *)
(* caller gives them one.                                                    *)
EXTENDS Naturals, Sequences, SequencesExt, Functions, FiniteSets

CONSTANTS
  Run, Decider,    \* the transactions' owners
  Predicate,
  MaxCandidates,   \* candidates of one run
  MaxDecisions,
  None

Actor == Run \cup Decider

VARIABLES
  facts,      \* rows of memory_facts that are committed, by their id
  txn,        \* of each actor: stage, locks, rows written and not committed
  learning,   \* of each run: its candidates and how many are done
  failure,    \* of each run: why its transaction was rolled back
  decisions

mvars == <<facts, txn, learning, failure, decisions>>

\* What the policy gate makes of a candidate; a refused one has raised before.
Candidate == [pred : Predicate, status : {"active", "pending", "refused"}]

InForce(row) == row.status = "active" /\ ~ row.closed

\* What a transaction sees: what is committed and what it has written itself.
View(a) == [i \in DOMAIN facts \cup DOMAIN txn[a].mine |->
              IF i \in DOMAIN txn[a].mine THEN txn[a].mine[i] ELSE facts[i]]

Rivals(a, p) == {i \in DOMAIN View(a) : View(a)[i].pred = p /\ InForce(View(a)[i])}

\* Others who have written rows and neither committed nor rolled back.
Holders(a, rows) == {b \in Actor \ {a} : DOMAIN txn[b].mine \cap rows # {}}

\* Others whose rows enter or leave the index under p.
Entering(a, p) ==
  {b \in Actor \ {a} : \E i \in DOMAIN txn[b].mine :
     /\ txn[b].mine[i].pred = p
     /\ InForce(txn[b].mine[i]) \/ (i \in DOMAIN facts /\ InForce(facts[i]))}

Lockers(a, p) == {b \in Actor \ {a} : p \in txn[b].locks}

Idle == [stage |-> "idle", locks |-> {}, mine |-> <<>>]

-----------------------------------------------------------------------------
(* A run learns                                                             *)

Current(r) == learning[r].all[learning[r].done + 1]
HasNext(r) == learning[r].done < Len(learning[r].all)

Learn(r, candidates) ==
  /\ txn[r].stage = "idle"
  /\ learning' = [learning EXCEPT ![r] = [all |-> candidates, done |-> 0]]
  /\ txn' = [txn EXCEPT ![r].stage = "learning"]
  /\ UNCHANGED <<facts, failure, decisions>>

\* A refused candidate is an event and nothing else.
Refuse(r) ==
  /\ txn[r].stage = "learning" /\ HasNext(r) /\ Current(r).status = "refused"
  /\ learning' = [learning EXCEPT ![r].done = @ + 1]
  /\ UNCHANGED <<facts, txn, failure, decisions>>

\* Mutant: the lock is released before the commit, and nobody waits for it.
LockWaitsForNobody(r) == {}

LockWaits(r) == Lockers(r, Current(r).pred)

\* pg_advisory_xact_lock, held to the end of the transaction.
Lock(r) ==
  /\ txn[r].stage = "learning" /\ HasNext(r) /\ Current(r).status = "active"
  /\ LockWaits(r) = {}
  /\ txn' = [txn EXCEPT ![r].locks = @ \cup {Current(r).pred}, ![r].stage = "locked"]
  /\ UNCHANGED <<facts, learning, failure, decisions>>

SupersedeWaits(r) == Holders(r, Rivals(r, Current(r).pred))

Supersede(r) ==
  /\ txn[r].stage = "locked" /\ SupersedeWaits(r) = {}
  /\ LET rivals == Rivals(r, Current(r).pred)
         mine == txn[r].mine
     IN  txn' = [txn EXCEPT ![r].stage = "superseded", ![r].mine =
           [i \in DOMAIN mine \cup rivals |->
              IF i \in rivals THEN [View(r)[i] EXCEPT !.status = "superseded", !.closed = TRUE]
              ELSE mine[i]]]
  /\ UNCHANGED <<facts, learning, failure, decisions>>

Inserts(r) ==
  \/ txn[r].stage = "superseded"
  \/ txn[r].stage = "learning" /\ HasNext(r) /\ Current(r).status = "pending"

InsertWaits(r) == IF Current(r).status = "active" THEN Entering(r, Current(r).pred) ELSE {}

\* The entries that refuse a row under p: the index is unique over facts in force.
Taken(a, p) == Rivals(a, p)

Refused(r) == Current(r).status = "active" /\ Taken(r, Current(r).pred) # {}

Insert(r) ==
  /\ Inserts(r) /\ InsertWaits(r) = {} /\ ~ Refused(r)
  /\ LET id == <<r, learning[r].done + 1>>
         row == [pred |-> Current(r).pred, status |-> Current(r).status, closed |-> FALSE, reason |-> None]
         mine == txn[r].mine
     IN  txn' = [txn EXCEPT ![r].stage = "learning", ![r].mine =
           [i \in DOMAIN mine \cup {id} |-> IF i = id THEN row ELSE mine[i]]]
  /\ learning' = [learning EXCEPT ![r].done = @ + 1]
  /\ UNCHANGED <<facts, failure, decisions>>

RolledBack(r, cause) ==
  /\ txn' = [txn EXCEPT ![r] = [Idle EXCEPT !.stage = "failed"]]
  /\ failure' = [failure EXCEPT ![r] = cause]
  /\ UNCHANGED <<facts, learning, decisions>>

\* A unique violation is no ValueError: it takes the whole transaction with it.
InsertIsRefused(r) ==
  /\ Inserts(r) /\ InsertWaits(r) = {} /\ Refused(r)
  /\ RolledBack(r, [why |-> "unique", rows |-> Taken(r, Current(r).pred)])

Commit(r) ==
  /\ txn[r].stage = "learning" /\ ~ HasNext(r)
  /\ facts' = View(r)
  /\ txn' = [txn EXCEPT ![r] = [Idle EXCEPT !.stage = "committed"]]
  /\ UNCHANGED <<learning, failure, decisions>>

\* The process or its connection is gone.
Lose(r) ==
  /\ txn[r].stage \in {"learning", "locked", "superseded"}
  /\ RolledBack(r, [why |-> "lost", rows |-> {}])

WaitsFor(r) ==
  CASE txn[r].stage = "learning" /\ HasNext(r) /\ Current(r).status = "active" -> LockWaits(r)
    [] txn[r].stage = "locked" -> SupersedeWaits(r)
    [] txn[r].stage = "superseded" -> InsertWaits(r)
    [] OTHER -> {}

\* The server ends one of those who wait for each other.
DeadlockVictim(r) ==
  /\ \E S \in SUBSET Run : r \in S /\ \A a \in S : WaitsFor(a) \cap S # {}
  /\ RolledBack(r, [why |-> "deadlock", rows |-> {}])

-----------------------------------------------------------------------------
(* A user decides                                                           *)

Decided(i, approved) ==
  [facts[i] EXCEPT !.status = IF approved THEN "active" ELSE "rejected",
                   !.reason = "explicit_api_decision"]

Enters(i, approved) == InForce(Decided(i, approved)) /\ ~ InForce(facts[i])

\* The status is overwritten whatever it was, and nothing is superseded.
Decide(d, i, approved) ==
  /\ txn[d].stage = "idle" /\ decisions < MaxDecisions
  /\ Holders(d, {i}) = {}
  /\ Enters(i, approved) =>
       Entering(d, facts[i].pred) = {} /\ Taken(d, facts[i].pred) \ {i} = {}
  /\ txn' = [txn EXCEPT ![d] = [stage |-> "decided", locks |-> {},
               mine |-> [j \in {i} |-> Decided(i, approved)]]]
  /\ decisions' = decisions + 1
  /\ UNCHANGED <<facts, learning, failure>>

\* The second fact in force is refused by the index, an error of the request.
DecisionIsRefused(d, i) ==
  /\ txn[d].stage = "idle" /\ decisions < MaxDecisions
  /\ Holders(d, {i}) = {} /\ Enters(i, TRUE)
  /\ Entering(d, facts[i].pred) = {} /\ Taken(d, facts[i].pred) \ {i} # {}
  /\ decisions' = decisions + 1
  /\ UNCHANGED <<facts, txn, learning, failure>>

CommitDecision(d) ==
  /\ txn[d].stage = "decided"
  /\ facts' = View(d) /\ txn' = [txn EXCEPT ![d] = Idle]
  /\ UNCHANGED <<learning, failure, decisions>>

-----------------------------------------------------------------------------

\* Some predicates have a fact of an earlier run.
MemoryInit ==
  /\ \E known \in SUBSET Predicate :
       facts = [i \in {<<None, p>> : p \in known} |->
                  [pred |-> i[2], status |-> "active", closed |-> FALSE, reason |-> None]]
  /\ txn = [a \in Actor |-> Idle]
  /\ learning = [r \in Run |-> None] /\ failure = [r \in Run |-> None]
  /\ decisions = 0

MemoryNext ==
  \/ \E r \in Run :
       \/ \E n \in 1 .. MaxCandidates : \E cs \in [1 .. n -> Candidate] : Learn(r, cs)
       \/ Refuse(r) \/ Lock(r) \/ Supersede(r) \/ Insert(r) \/ InsertIsRefused(r)
       \/ Commit(r) \/ Lose(r) \/ DeadlockVictim(r)
  \/ \E d \in Decider :
       \/ CommitDecision(d)
       \/ \E i \in DOMAIN facts :
            DecisionIsRefused(d, i) \/ \E approved \in BOOLEAN : Decide(d, i, approved)

MemorySpec == MemoryInit /\ [][MemoryNext]_mvars

-----------------------------------------------------------------------------
(* Properties                                                               *)

\* Whoever commits in whatever order, a predicate has one fact in force
\* (memory_facts_one_active_current_key).
OneCurrentFact ==
  \A i, j \in DOMAIN facts :
    InForce(facts[i]) /\ InForce(facts[j]) /\ facts[i].pred = facts[j].pred => i = j

\* A fact is superseded only together with its successor: a predicate that had a fact
\* in force has one unless a user rejected one (materialize_fact and its rollback).
SuccessorStands ==
  \A i \in DOMAIN facts : facts[i].closed =>
    \E j \in DOMAIN facts : facts[j].pred = facts[i].pred
                              /\ (InForce(facts[j]) \/ facts[j].status = "rejected")

\* A run stores all that was not refused or nothing (_persist_learning).
LearnedWhole ==
  \A r \in Run : learning[r] # None =>
    LET stored == {n \in 1 .. MaxCandidates : <<r, n>> \in DOMAIN facts}
    IN  stored = IF txn[r].stage = "committed"
                 THEN {n \in DOMAIN learning[r].all : learning[r].all[n].status # "refused"}
                 ELSE {}

\* The advisory lock closes the race for a predicate's first fact: a run meets the index
\* only where a user has approved a fact while it was learning (the comment at
\* memory_repository.py:71).
IndexIsBackstop ==
  \A r \in Run : failure[r] # None =>
    \A i \in failure[r].rows : i \in DOMAIN facts /\ facts[i].reason # None

\* Runs can end each other in a deadlock only where both learn two predicates or more: a
\* run with a single candidate waits and then stores it.
SingleCandidatesWait ==
  \A r \in Run : failure[r] # None /\ failure[r].why = "deadlock" =>
    Cardinality({learning[r].all[n].pred : n \in DOMAIN learning[r].all}) >= 2
=============================================================================
