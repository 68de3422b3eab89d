----------------------------- MODULE SkillEvolution -----------------------------
(***************************************************************************)
(* The offline evolution of one skill: a batch (EvolutionEngine.run) loads *)
(* the active version, generates up to three candidates, evaluates each on *)
(* the dev partition, rejects or promotes it, evaluates a promoted one on  *)
(* the regression partition and rolls it back when it has regressed.  The  *)
(* versions are rows of skill_versions and every move is an event of       *)
(* skill_events.  A step is one transaction of the batch, whose insertion  *)
(* of the candidate is a step of its own because it holds the row's key.   *)
(***************************************************************************)
EXTENDS Naturals, Sequences, FiniteSets, SequencesExt

CONSTANTS
  Batch,         \* batches that may be alive at once
  Content,       \* contracts a generator or a reviewer may come up with
  DevPass,       \* those that pass the gate on dev, against any active one
  Regressing,    \* those the regression partition rolls back
  Rounds,        \* candidates of a batch: MAX_CANDIDATE_ROUNDS
  MaxBatches, MaxKills, MaxRevisions,
  None

\* What a batch is doing: its active version, the round, and the candidate's content.
Stage == {"propose", "evaluate", "check"}
Doing == [base : Seq(Nat), round : 1 .. Rounds, stage : Stage, content : Content \cup {None}]

EvolutionAssumption ==
  /\ DevPass \subseteq Content /\ Regressing \subseteq Content
  /\ Rounds \in Nat \ {0}
  /\ MaxBatches \in Nat /\ MaxKills \in Nat /\ MaxRevisions \in Nat
  /\ None \notin Batch \cup Content /\ None \notin Seq(Nat) /\ None \notin Doing

VARIABLES
  rows,       \* version -> its status, parent and content
  trail,      \* the skill's events, in order
  batch,      \* batch -> what it is doing, None without
  passed,     \* history: the version and content of every successful dev evaluation
  reran,      \* history: has a batch started from a version that had candidates?
  overlapped, \* history: have two batches been alive at once?
  starts, kills, revisions

table == <<rows, trail>>
history == <<passed, reran, overlapped>>
vars == <<table, batch, history, starts, kills, revisions>>

\* A version of the files is <<k>>; the candidate of round r is Append(base, r).
IsVersion(v) == v \in Seq(Nat) /\ Len(v) \in 1 .. MaxBatches + 1
Status == {"active", "rejected", "rolled_back", "archived"}
Event == {"generated", "promoted", "rejected", "rolled_back"}

Exists(v) == v \in DOMAIN rows
Active == {v \in DOMAIN rows : rows[v].status = "active"}
Candidate(b) == Append(batch[b].base, batch[b].round)
Happened(type, v) == [type |-> type, version |-> v]

-----------------------------------------------------------------------------
(* skill_repository *)

\* ON CONFLICT (skill_id, version) DO NOTHING: a version that exists keeps its content.
Registered(v, c, parent) ==
  IF Exists(v) THEN rows
  ELSE [w \in DOMAIN rows \cup {v} |->
          IF w = v THEN [status |-> "candidate", parent |-> parent, content |-> c] ELSE rows[w]]

Moved(table0, v, status) == [table0 EXCEPT ![v].status = status]

Promoted(table0, v) ==
  [w \in DOMAIN table0 |->
     IF w = v THEN [table0[w] EXCEPT !.status = "active"]
     ELSE IF table0[w].status = "active" THEN [table0[w] EXCEPT !.status = "archived"]
     ELSE table0[w]]

\* The parent that was active is forgotten.
RolledBackOnly(v) == Moved(rows, v, "rolled_back")

RolledBack(v) == Moved(Moved(rows, v, "rolled_back"), rows[v].parent, "active")

-----------------------------------------------------------------------------
(* EvolutionEngine.run *)

In(b, stage) == batch[b] # None /\ batch[b].stage = stage

\* An uncommitted insertion of the same key makes another one wait.
KeyFree(b) ==
  Exists(Candidate(b)) \/ \A o \in Batch \ {b} :
    In(o, "evaluate") => Candidate(o) # Candidate(b)

Child(v) == {w \in DOMAIN rows : rows[w].parent = v}

Load(b) ==
  \E v \in Active :
    /\ batch[b] = None /\ starts < MaxBatches
    /\ batch' = [batch EXCEPT ![b] = [base |-> v, round |-> 1, stage |-> "propose", content |-> None]]
    /\ starts' = starts + 1
    /\ reran' = (reran \/ Child(v) # {})
    /\ overlapped' = (overlapped \/ \E o \in Batch : batch[o] # None)
    /\ UNCHANGED <<table, passed, kills, revisions>>

\* The next round, or the end of the batch.
NextRound(b) ==
  batch' = [batch EXCEPT ![b] =
    IF @.round = Rounds THEN None
    ELSE [@ EXCEPT !.round = batch[b].round + 1, !.stage = "propose", !.content = None]]

GeneratorFails(b) ==
  /\ In(b, "propose")
  /\ trail' = Append(trail, Happened("rejected", Candidate(b)))
  /\ NextRound(b)
  /\ UNCHANGED <<rows, history, starts, kills, revisions>>

\* The patch leaves the mutable fields, or the contract it makes is not valid.
PatchIsInvalid(b) ==
  /\ In(b, "propose")
  /\ trail' = trail \o <<Happened("generated", Candidate(b)), Happened("rejected", Candidate(b))>>
  /\ NextRound(b)
  /\ UNCHANGED <<rows, history, starts, kills, revisions>>

\* The candidate and its event stay uncommitted until the gate has decided.
Register(b, c) ==
  /\ In(b, "propose") /\ KeyFree(b)
  /\ batch' = [batch EXCEPT ![b] = [@ EXCEPT !.stage = "evaluate", !.content = c]]
  /\ UNCHANGED <<table, history, starts, kills, revisions>>

\* The version that failed is left as it was registered.
RejectKeeps(b) ==
  /\ In(b, "evaluate") /\ batch[b].content \notin DevPass
  /\ rows' = Registered(Candidate(b), batch[b].content, batch[b].base)
  /\ trail' = trail \o <<Happened("generated", Candidate(b)), Happened("rejected", Candidate(b))>>
  /\ NextRound(b)
  /\ UNCHANGED <<history, starts, kills, revisions>>

Reject(b) ==
  /\ In(b, "evaluate") /\ batch[b].content \notin DevPass
  /\ rows' = Moved(Registered(Candidate(b), batch[b].content, batch[b].base), Candidate(b), "rejected")
  /\ trail' = trail \o <<Happened("generated", Candidate(b)), Happened("rejected", Candidate(b))>>
  /\ NextRound(b)
  /\ UNCHANGED <<history, starts, kills, revisions>>

\* The event is left to the rollback's transaction.
PromoteSilently(b) ==
  /\ In(b, "evaluate") /\ batch[b].content \in DevPass
  /\ rows' = Promoted(Registered(Candidate(b), batch[b].content, batch[b].base), Candidate(b))
  /\ trail' = Append(trail, Happened("generated", Candidate(b)))
  /\ passed' = passed \cup {<<Candidate(b), batch[b].content>>}
  /\ batch' = [batch EXCEPT ![b].stage = "check"]
  /\ UNCHANGED <<reran, overlapped, starts, kills, revisions>>

\* The gate's verdict is left unread.
PromoteAnything(b) ==
  /\ In(b, "evaluate")
  /\ rows' = Promoted(Registered(Candidate(b), batch[b].content, batch[b].base), Candidate(b))
  /\ trail' = trail \o <<Happened("generated", Candidate(b)), Happened("promoted", Candidate(b))>>
  /\ batch' = [batch EXCEPT ![b].stage = "check"]
  /\ UNCHANGED <<history, starts, kills, revisions>>

\* The regression partition has been evaluated, but its verdict comes after the commit.
Promote(b) ==
  /\ In(b, "evaluate") /\ batch[b].content \in DevPass
  /\ rows' = Promoted(Registered(Candidate(b), batch[b].content, batch[b].base), Candidate(b))
  /\ trail' = trail \o <<Happened("generated", Candidate(b)), Happened("promoted", Candidate(b))>>
  /\ passed' = passed \cup {<<Candidate(b), batch[b].content>>}
  /\ batch' = [batch EXCEPT ![b].stage = "check"]
  /\ UNCHANGED <<reran, overlapped, starts, kills, revisions>>

KeepAll(b) ==
  /\ In(b, "check")
  /\ batch' = [batch EXCEPT ![b] = None]
  /\ UNCHANGED <<table, history, starts, kills, revisions>>

Keep(b) ==
  /\ In(b, "check") /\ batch[b].content \notin Regressing
  /\ batch' = [batch EXCEPT ![b] = None]
  /\ UNCHANGED <<table, history, starts, kills, revisions>>

\* A version that is no longer active cannot be rolled back: the batch ends with an error.
RollBack(b) ==
  /\ In(b, "check") /\ batch[b].content \in Regressing
  /\ IF Candidate(b) \in Active
     THEN /\ rows' = RolledBack(Candidate(b))
          /\ trail' = Append(trail, Happened("rolled_back", Candidate(b)))
          /\ NextRound(b)
     ELSE /\ batch' = [batch EXCEPT ![b] = None]
          /\ UNCHANGED table
  /\ UNCHANGED <<history, starts, kills, revisions>>

\* The process dies: what it has not committed is gone.
Kill(b) ==
  /\ batch[b] # None /\ kills < MaxKills
  /\ batch' = [batch EXCEPT ![b] = None]
  /\ kills' = kills + 1
  /\ UNCHANGED <<table, history, starts, revisions>>

\* A reviewed version of the files, one that is new or one that has been active before.
Revise(k, c) ==
  /\ revisions < MaxRevisions
  /\ rows' = Promoted(Registered(<<k>>, c, None), <<k>>)
  /\ trail' = Append(trail, Happened("promoted", <<k>>))
  /\ revisions' = revisions + 1
  /\ UNCHANGED <<batch, history, starts, kills>>

\* The bootstrap of the files; run again it finds the version and its event.
Init ==
  /\ \E c \in Content \ Regressing :
       rows = [v \in {<<0>>} |-> [status |-> "active", parent |-> None, content |-> c]]
  /\ trail = <<Happened("promoted", <<0>>)>>
  /\ batch = [b \in Batch |-> None]
  /\ passed = {} /\ reran = FALSE /\ overlapped = FALSE
  /\ starts = 0 /\ kills = 0 /\ revisions = 0

Moves(b) ==
  \/ GeneratorFails(b) \/ PatchIsInvalid(b) \/ (\E c \in Content : Register(b, c))
  \/ Reject(b) \/ Promote(b) \/ Keep(b) \/ RollBack(b)

Next ==
  \/ \E b \in Batch : Load(b) \/ Moves(b) \/ Kill(b)
  \/ \E k \in 0 .. MaxRevisions, c \in Content \ Regressing : Revise(k, c)

Spec == Init /\ [][Next]_vars

\* A batch that is not killed goes on to its end: it only calls and computes.
FairSpec == Spec /\ \A b \in Batch : WF_vars(Moves(b))

-----------------------------------------------------------------------------
(* Properties *)

(* Every row has a settled status and a parent that exists: the candidate of an
   unfinished evaluation is never committed (register_skill_version). *)
TypeOK ==
  /\ \A v \in DOMAIN rows :
       /\ IsVersion(v) /\ rows[v].status \in Status /\ rows[v].content \in Content
       /\ rows[v].parent \in DOMAIN rows \cup {None}
  /\ \A i \in DOMAIN trail : trail[i].type \in Event /\ IsVersion(trail[i].version)
  /\ \A b \in Batch : batch[b] # None =>
       batch[b] \in Doing /\ batch[b].base \in DOMAIN rows
  /\ starts \in 0 .. MaxBatches /\ kills \in 0 .. MaxKills /\ revisions \in 0 .. MaxRevisions

(* As long as one batch runs at a time the agent always finds one active version
   (PostgresSkillRegistry.load raises without), whatever is killed, run again or
   revised meanwhile. *)
AlwaysOneActive == ~overlapped => Cardinality(Active) = 1

\* The version that an event makes the active one.
Turning == {"promoted", "rolled_back"}
Turned(event) == IF event.type = "promoted" THEN event.version ELSE rows[event.version].parent

(* The append-only events tell which version is active: the last promotion or rollback
   among them names the row that is marked (promote_skill, rollback_skill). *)
ActiveFollowsTrail ==
  ~overlapped =>
    \E i \in DOMAIN trail :
      /\ trail[i].type \in Turning /\ Active = {Turned(trail[i])}
      /\ \A j \in i + 1 .. Len(trail) : trail[j].type \notin Turning

(* The content that serves is the content that was evaluated: a candidate that is active
   has passed the dev gate as it is stored, unless batches overlap or one starts where
   another has been (EvolutionEngine.run). *)
ActiveIsWhatPassed ==
  ~overlapped /\ ~reran =>
    \A v \in Active : rows[v].parent # None => <<v, rows[v].content>> \in passed

(* Under the same conditions a regressing content is active only while the batch that
   promoted it is about to roll it back, unless that batch is killed. *)
BadIsBeingRolledBack ==
  ~overlapped /\ ~reran /\ kills = 0 =>
    \A v \in Active : rows[v].content \in Regressing =>
      \E b \in Batch : In(b, "check") /\ Candidate(b) = v

(* No version becomes active without the event that says so in the same commit, also
   with two batches at once: its promotion, or the rollback of a child of it. *)
ActivationIsTold ==
  \A v \in Active' \ Active :
    /\ Len(trail') > Len(trail)
    /\ \/ Last(trail') = Happened("promoted", v)
       \/ Last(trail').type = "rolled_back" /\ rows[Last(trail').version].parent = v
=============================================================================
