--------------------------- MODULE DeliveryBudget ---------------------------
(***************************************************************************)
(* The cost ledger of the parent process (app/api/delivery_budget.py): a   *)
(* file that maps model calls to reservations and charges, rewritten as a  *)
(* whole under one lock by every operation, and kept over restarts.        *)
(***************************************************************************)
EXTENDS Naturals, FiniteSets, FiniteSetsExt

CONSTANTS
  Run, Call,   \* a model call is identified by its run and its call_id
  Amount,      \* what a call may be reserved for, or cost
  Historical,  \* spent before the ledger existed
  Limit,       \* the hard stop (100 CNY)
  None

CallRow == [status : {"reserved", "completed"}, reserved : Amount, actual : Amount]

BudgetAssumption ==
  /\ IsFiniteSet(Run) /\ IsFiniteSet(Call)
  /\ Amount \subseteq Nat
  /\ Historical \in Nat /\ Limit \in Nat /\ Historical <= Limit
  /\ None \notin Nat /\ None \notin CallRow

VARIABLES calls  \* ledger: run, call -> row, None when absent

Init == calls = [x \in Run \X Call |-> None]

\* actual_cny, which is reserved_cny until the call is settled.
Cost(x) == IF calls[x] = None THEN 0 ELSE calls[x].actual
Total == Historical + MapThenSumSet(Cost, Run \X Call)

\* Bug: the reservation itself is not counted.
ReservableBelow(r, c, a) == calls[r, c] = None /\ Total <= Limit

\* An identifier is used once, and only while its reservation fits.
Reservable(r, c, a) == calls[r, c] = None /\ Total + a <= Limit

Reserve(r, c, a) ==
  /\ Reservable(r, c, a)
  /\ calls' = [calls EXCEPT ![<<r, c>>] = [status |-> "reserved", reserved |-> a, actual |-> a]]

\* Bugs: a settled call is settled again; usage is added to the reservation.
CompleteAgain(r, c, usage) ==
  calls' = IF calls[r, c] # None
           THEN [calls EXCEPT ![<<r, c>>].status = "completed",
                              ![<<r, c>>].actual = IF usage = None THEN @ ELSE usage]
           ELSE calls

CompleteOnTop(r, c, usage) ==
  calls' = IF calls[r, c] # None /\ calls[r, c].status = "reserved"
           THEN [calls EXCEPT ![<<r, c>>].status = "completed",
                              ![<<r, c>>].actual = IF usage = None THEN @ ELSE @ + usage]
           ELSE calls

\* complete: only a pending call is settled, for its actual cost or, when the
\* usage is not known, for its reservation.
Complete(r, c, usage) ==
  calls' = IF calls[r, c] # None /\ calls[r, c].status = "reserved"
           THEN [calls EXCEPT ![<<r, c>>].status = "completed",
                              ![<<r, c>>].actual = IF usage = None THEN @ ELSE usage]
           ELSE calls

\* Bug: pending calls are released.
Release(S) ==
  calls' = [x \in Run \X Call |->
              IF calls[x] # None /\ x[1] \in S /\ calls[x].status = "reserved"
              THEN None ELSE calls[x]]

\* fail_run and recover: pending calls are charged their reservation.
Charge(S) ==
  calls' = [x \in Run \X Call |->
              IF calls[x] # None /\ x[1] \in S
              THEN [calls[x] EXCEPT !.status = "completed"] ELSE calls[x]]

FailRun(r) == Charge({r})
Recover == Charge(Run)

Next ==
  \/ \E r \in Run, c \in Call, a \in Amount : Reserve(r, c, a)
  \/ \E r \in Run, c \in Call, u \in Amount \cup {None} : Complete(r, c, u)
  \/ \E r \in Run : FailRun(r)
  \/ Recover

Spec == Init /\ [][Next]_calls

\* Type invariant of the ledger.
TypeOK == calls \in [Run \X Call -> CallRow \cup {None}]

\* The ledger passes its hard stop by no more than what providers billed
\* beyond the reservations of the calls (reserve; complete only raises after
\* it has saved).
Excess(x) ==
  IF calls[x] # None /\ calls[x].actual > calls[x].reserved
  THEN calls[x].actual - calls[x].reserved ELSE 0

HardStop == Total <= Limit + MapThenSumSet(Excess, Run \X Call)

\* A settled call is never settled again, a reservation never disappears: a
\* late usage report, a repeated failure or a restart changes no amount that
\* has been charged.
Keeps(x) ==
  calls[x] # None =>
    /\ calls'[x] # None /\ calls'[x].reserved = calls[x].reserved
    /\ calls[x].status = "completed" => calls'[x] = calls[x]
=============================================================================
