----------------------------- MODULE MemoryRecall -----------------------------
(* What a run recalls before it plans (graph_v2._recall): the filters of its   *)
(* question, the nearest facts that pass them, read by one statement, and the  *)
(* context that is assembled from these, kind after kind, each with its        *)
(* budget (app/memory/retriever.py).  Nearness and worth are numbers; contents *)
(* are their lengths.                                                          *)
EXTENDS Naturals, FiniteSets, FiniteSetsExt

CONSTANTS
  Id,          \* facts: the smaller, the nearer to the question
  Fact,        \* what one may be
  Question,    \* asked types, thread and days; {} asks for all
  Candidates,  \* facts that are read (candidate_limit)
  Budget,      \* kind -> how many of it are selected
  MaxCore,     \* characters of the core memories together (800)
  None

Kind == {"core", "episodic", "decision", "outcome"}
Turn == [core |-> 1, episodic |-> 2, decision |-> 3, outcome |-> 4]   \* of a kind

RecallAssumption ==
  /\ Id \subseteq Nat /\ IsFiniteSet(Id)
  /\ \A f \in Fact : f.kind \in Kind /\ f.worth \in Nat /\ f.size \in Nat
  /\ Budget \in [Kind -> Nat] /\ Candidates \in Nat /\ MaxCore \in Nat
  /\ None \notin Fact /\ None \notin Nat

VARIABLES
  store,     \* memory -> a fact or None
  question,
  step,      \* of the node
  found,     \* what was read
  left,      \* selected and not yet in the context
  spent,     \* core_chars
  context    \* memory -> how much of it was injected, if it was

rvars == <<store, question, step, found, left, spent, context>>

\* Bug: facts of every thread are read.
AnyScope(f) == TRUE
InScope(f) == f.scope \in {"merchant", question.thread}

Asked(f) == question.types = {} \/ f.type \in question.types
Effective(f) == question.days = {} \/ f.period = {} \/ f.period \cap question.days # {}

\* In force, with a vector, and past the filters of the plan (fetch_active_memories).
Matching ==
  {m \in Id : /\ store[m] # None /\ store[m].inForce /\ store[m].indexed
              /\ InScope(store[m]) /\ Asked(store[m]) /\ Effective(store[m])}

\* Of what was read: near enough, and on the topic or core (select, topic_related).
Eligible(kind) ==
  {m \in found : /\ store[m].kind = kind /\ store[m].near
                 /\ kind = "core" \/ store[m].related}

\* sorted by score, equals as they were read
Before(m, n) == store[m].worth > store[n].worth \/ (store[m].worth = store[n].worth /\ m < n)

Selected(kind) ==
  {m \in Eligible(kind) : Cardinality({n \in Eligible(kind) : Before(n, m)}) < Budget[kind]}

-----------------------------------------------------------------------------

\* A day that is none, or written with one digit, is no isoformat: the node raises, before
\* its try.
Plan ==
  /\ step = "asked"
  /\ step' = IF question.readable THEN "planned" ELSE "raised"
  /\ UNCHANGED <<store, question, found, left, spent, context>>

Fetch ==
  /\ step = "planned"
  /\ found' = {m \in Matching : Cardinality({n \in Matching : n < m}) < Candidates}
  /\ step' = "fetched"
  /\ UNCHANGED <<store, question, left, spent, context>>

Select ==
  /\ step = "fetched"
  /\ left' = UNION {Selected(kind) : kind \in Kind}
  /\ step' = "selected"
  /\ UNCHANGED <<store, question, found, spent, context>>

Foremost(m) ==
  \A n \in left \ {m} :
    \/ Turn[store[m].kind] < Turn[store[n].kind]
    \/ store[m].kind = store[n].kind /\ Before(m, n)

\* Bug: the last core memory is not cut.
Uncut(m) == store[m].size
Cut(m) == IF store[m].size < MaxCore - spent THEN store[m].size ELSE MaxCore - spent

\* A core memory takes what is left of the characters, or is left out.
Inject(m) ==
  /\ step = "selected" /\ m \in left /\ Foremost(m)
  /\ left' = left \ {m}
  /\ \/ /\ store[m].kind # "core"
        /\ context' = [context EXCEPT ![m] = store[m].size]
        /\ UNCHANGED spent
     \/ /\ store[m].kind = "core" /\ spent < MaxCore
        /\ context' = [context EXCEPT ![m] = Cut(m)]
        /\ spent' = spent + Cut(m)
     \/ /\ store[m].kind = "core" /\ spent >= MaxCore
        /\ UNCHANGED <<context, spent>>
  /\ UNCHANGED <<store, question, step, found>>

Deliver ==
  /\ step = "selected" /\ left = {}
  /\ step' = "done"
  /\ UNCHANGED <<store, question, found, left, spent, context>>

\* The embedder or the database fails: the run goes on without memories.
Fail ==
  /\ step = "planned"
  /\ step' = "unavailable"
  /\ UNCHANGED <<store, question, found, left, spent, context>>

RecallInit ==
  /\ store \in [Id -> Fact \cup {None}]
  /\ question \in Question
  /\ step = "asked" /\ found = {} /\ left = {} /\ spent = 0
  /\ context = [m \in Id |-> None]

RecallNext == Plan \/ Fetch \/ Select \/ (\E m \in Id : Inject(m)) \/ Deliver \/ Fail

RecallSpec == RecallInit /\ [][RecallNext]_rvars

-----------------------------------------------------------------------------
(* Properties                                                                *)

Injected == {m \in Id : context[m] # None}

\* Nothing gets into a run from another thread, another type or other days, out of force
\* or off the topic (build_query_plan, fetch_active_memories, select).
ContextIsScoped ==
  \A m \in Injected :
    /\ m \in Matching /\ store[m].near
    /\ store[m].kind = "core" \/ store[m].related

\* The core memories keep to their characters (assemble_context).
CoreFits ==
  MapThenSumSet(LAMBDA m : context[m], {m \in Injected : store[m].kind = "core"}) <= MaxCore

\* A memory is cut only if it is a core one and the characters are spent with it.
OthersAreWhole ==
  \A m \in Injected :
    context[m] = store[m].size \/ (store[m].kind = "core" /\ spent = MaxCore)

\* Of what was read and fits, a run has the best of each kind: one that is left out is worth
\* no more than any it has (select).
BestAreChosen ==
  step = "done" =>
    \A n \in found \ Injected : \A m \in Injected :
      store[m].kind = store[n].kind /\ n \in Eligible(store[n].kind) => Before(m, n)

\* And it is left out only when its budget or the characters are spent.
BudgetsAreUsed ==
  step = "done" =>
    \A n \in found \ Injected : LET kind == store[n].kind IN
      n \in Eligible(kind) =>
        \/ Cardinality({m \in Injected : store[m].kind = kind}) = Budget[kind]
        \/ kind = "core" /\ spent = MaxCore
=============================================================================
