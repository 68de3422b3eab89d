------------------------------- MODULE ListPages -------------------------------
(* The pages of runs and of memories (delivery_repository.list_runs and        *)
(* list_memories) while others write: every page is a transaction of its own,  *)
(* and a row carries the time its transaction began (DEFAULT now()), so that   *)
(* it may appear behind a reader who is past that time.  Readers are the old   *)
(* endpoint, which asks for all pages (main.get_memories), and the client,     *)
(* which asks for the next when the user does (repository.loadMemories) and    *)
(* loses the cursor with a decision (_applyDecision).                          *)
EXTENDS Naturals, FiniteSets

CONSTANTS
  Id,        \* of rows, in the order of their uuids
  Reader,
  Status,    \* of a row; a filter is one of them or None
  Limit,     \* rows of a page
  MaxTime, None

ListAssumption ==
  /\ Id \subseteq Nat /\ Limit \in Nat \ {0} /\ MaxTime \in Nat
  /\ None \notin Status /\ None \notin Nat \X Id /\ None \notin [at : Nat, status : Status]

VARIABLES
  clock,
  writing,   \* id -> when the transaction that inserts it began, or None
  table,     \* id -> what is committed of it, or None
  reader     \* reader -> its filter and cursor, what it got, and whether all pages

lvars == <<clock, writing, table, reader>>

Position(i) == <<table[i].at, i>>
Older(p, q) == p[1] < q[1] \/ (p[1] = q[1] /\ p[2] < q[2])

Matches(filter, row) == filter = None \/ row.status = filter
Matching(filter) == {i \in Id : table[i] # None /\ Matches(filter, table[i])}

\* Bug: a page begins with the row the last one ended with.
BehindOrAt(cursor, p) == cursor = None \/ Older(p, cursor) \/ p = cursor
Behind(cursor, p) == cursor = None \/ Older(p, cursor)

\* Rows that are left to a reader.
Left(filter, cursor) == {i \in Matching(filter) : Behind(cursor, Position(i))}

-----------------------------------------------------------------------------

Begin(i) ==
  /\ table[i] = None /\ writing[i] = None
  /\ writing' = [writing EXCEPT ![i] = clock]
  /\ UNCHANGED <<clock, table, reader>>

Commit(i, status) ==
  /\ writing[i] # None
  /\ table' = [table EXCEPT ![i] = [at |-> writing[i], status |-> status]]
  /\ writing' = [writing EXCEPT ![i] = None]
  /\ UNCHANGED <<clock, reader>>

\* A decision, a run that goes on: who filters by the status no longer is owed the row.
Turn(i, status) ==
  /\ table[i] # None /\ table[i].status # status
  /\ table' = [table EXCEPT ![i].status = status]
  /\ reader' = [r \in Reader |->
                  IF Matches(reader[r].filter, table'[i]) THEN reader[r]
                  ELSE [reader[r] EXCEPT !.owed = @ \ {i}]]
  /\ UNCHANGED <<clock, writing>>

Tick == clock < MaxTime /\ clock' = clock + 1 /\ UNCHANGED <<writing, table, reader>>

\* The first page of a listing, again when the user refreshes it.
Start(r, filter) ==
  /\ reader[r].stage # "open"
  /\ reader' = [reader EXCEPT ![r] =
       [filter |-> filter, cursor |-> None, stage |-> "open", got |-> {}, twice |-> FALSE,
        owed |-> Matching(filter)]]
  /\ UNCHANGED <<clock, writing, table>>

\* The newest of the rows left, one more than fits being the sign of a next page, which
\* begins after the last one given (ORDER BY ... DESC LIMIT limit + 1, _page_cursor).
Page(r, page) ==
  LET left == Left(reader[r].filter, reader[r].cursor) IN
  /\ reader[r].stage = "open"
  /\ page \subseteq left /\ Cardinality(page) <= Limit
  /\ page = left \/ Cardinality(page) = Limit
  /\ \A i \in page, j \in left \ page : Older(Position(j), Position(i))
  /\ \E next \in IF page = left THEN {None} ELSE {Position(i) : i \in page} :
       /\ next # None => \A i \in page : Position(i) = next \/ Older(next, Position(i))
       /\ reader' = [reader EXCEPT ![r] =
            [filter |-> reader[r].filter, cursor |-> next,
             stage |-> IF next = None THEN "done" ELSE "open",
             got |-> reader[r].got \cup page,
             twice |-> reader[r].twice \/ page \cap reader[r].got # {},
             owed |-> reader[r].owed]]
  /\ UNCHANGED <<clock, writing, table>>

\* Bug: a cursor goes on with another filter.
TakesAnyScope(r, filter) ==
  reader' = [reader EXCEPT ![r].filter = filter, ![r].owed = Matching(filter)]
\* A cursor names the filter it belongs to (_parse_cursor, invalid_cursor).
TakesScope(r, filter) ==
  reader' = [reader EXCEPT ![r].stage = "refused", ![r].cursor = None]

Mistake(r, filter) ==
  /\ reader[r].stage = "open" /\ reader[r].cursor # None /\ filter # reader[r].filter
  /\ TakesScope(r, filter)
  /\ UNCHANGED <<clock, writing, table>>

\* The client's cache is written without its cursor: no next page before a refresh.
Cut(r) ==
  /\ reader[r].stage = "open"
  /\ reader' = [reader EXCEPT ![r].stage = "cut", ![r].cursor = None]
  /\ UNCHANGED <<clock, writing, table>>

ListInit ==
  /\ clock = 1
  /\ writing = [i \in Id |-> None] /\ table = [i \in Id |-> None]
  /\ reader = [r \in Reader |->
       [filter |-> None, cursor |-> None, stage |-> "none", got |-> {}, twice |-> FALSE, owed |-> {}]]

ListNext ==
  \/ \E i \in Id : Begin(i) \/ \E status \in Status : Commit(i, status) \/ Turn(i, status)
  \/ Tick
  \/ \E r \in Reader :
       \/ \E filter \in Status \cup {None} : Start(r, filter) \/ Mistake(r, filter)
       \/ \E page \in SUBSET Id : Page(r, page)
       \/ Cut(r)

ListSpec == ListInit /\ [][ListNext]_lvars

-----------------------------------------------------------------------------
(* Properties                                                                *)

\* Whatever is written and decided between the pages, no row is given twice.
NoneTwice == \A r \in Reader : ~ reader[r].twice

\* Who has come to the last page has every row that was there at the first and matched
\* all along (get_memories: "旧客户端无分页参数时仍读取全部").
NoneMissed == \A r \in Reader : reader[r].stage = "done" => reader[r].owed \subseteq reader[r].got
=============================================================================
