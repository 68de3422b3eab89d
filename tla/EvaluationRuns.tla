---------------------------- MODULE EvaluationRuns ----------------------------
(* The two offline programs that pay for model calls: the matrix of skill      *)
(* cases and arms (evals/v3/run_skill_matrix.py) and the evolution batch       *)
(* (scripts/evolve_v3_skill.py).  They share the guard of evals/v3/budget.py,  *)
(* a checkpoint file that is read once and written as a whole, may be stopped  *)
(* anywhere and are run again.  One of them runs at a time; the price of a     *)
(* call is an amount, and the second model, which neither asks, is left out.   *)
EXTENDS Integers, Functions

CONSTANTS
  Cell,       \* a case under an arm
  MaxRounds,  \* of a batch (3)
  Bill,       \* what a provider may bill for a call
  Worst,      \* key -> estimated worst cost of what is reserved
  HardStop,
  MaxCalls,   \* model calls of one run of the agent
  MaxFaults,  \* kills and failing writes
  None

Key == Cell \cup 1..MaxRounds

\* What the checkpoint says of a key.
KeyRow == [status : {"reserved", "completed"}, actual : Nat, unknown : BOOLEAN]

EvaluationAssumption ==
  /\ MaxRounds \in Nat /\ MaxCalls \in Nat /\ MaxFaults \in Nat /\ HardStop \in Nat
  /\ Bill \subseteq Nat /\ Worst \in [Key -> Nat]
  /\ None \notin KeyRow /\ None \notin {"matrix", "batch"} /\ None \notin {"completed", "nil"}

VARIABLES
  saved, rows,     \* the two files: key -> call, cell -> its row's status
  program,         \* "matrix", "batch" or None
  budget,          \* its copy of the checkpoint
  round, key,      \* of a batch; what is worked at
  stage,           \* "idle", "calling", "recording"
  tokens,          \* of the attempt: calls made, usage told, whether one failed
  result,          \* status of the row to be written
  billed,          \* history: by the provider, for the last attempt at a key
  attempts, lost,  \* history: attempts at a key, those whose settlement was lost
  tried,           \* history: keys attempted by this process
  faults

evars == <<saved, rows, program, budget, round, key, stage, tokens, result, billed,
           attempts, lost, tried, faults>>

NoTokens == [calls |-> 0, told |-> 0, failed |-> FALSE]
Reservation == [status |-> "reserved", actual |-> 0, unknown |-> FALSE]
Completed(b, k) == b[k] # None /\ b[k].status = "completed"

\* spent_cny, computed anew by every completion.
Costs(b) == [k \in Key |-> IF Completed(b, k) THEN b[k].actual ELSE 0]
Spent(b) == SumFunction(Costs(b))

\* Bug: what is settled is not counted against the stop.
FitsAlone(k) == Worst[k] <= HardStop
Fits(k) == Spent(budget) + Worst[k] <= HardStop

Written(b) == saved' = b /\ UNCHANGED faults
Unwritten == faults < MaxFaults /\ faults' = faults + 1 /\ UNCHANGED saved

\* The matrix goes on with cells that have no row, a batch with its next round.
Pending(k) ==
  IF program = "matrix" THEN k \in Cell /\ rows[k] = None
  ELSE k \in 1..MaxRounds /\ k = round + 1

Takes(k) == round' = IF program = "matrix" THEN round ELSE k

\* What was decided of a key: the matrix writes a row, a batch records its attempt.
Concludes(k, status) ==
  IF program = "matrix" THEN stage' = "recording" /\ key' = k /\ result' = status
  ELSE stage' = "idle" /\ key' = None /\ result' = None

\* The process is gone; what it settled and did not write is lost.
Ends(file) ==
  /\ program' = None /\ budget' = None /\ round' = 0
  /\ key' = None /\ stage' = "idle" /\ result' = None /\ tokens' = NoTokens /\ tried' = {}
  /\ lost' = [k \in Key |->
                lost[k] + (IF k \in tried /\ ~ Completed(file, k) THEN 1 ELSE 0)]

-----------------------------------------------------------------------------

\* BudgetGuard._load and the rows of an earlier process.
Start(p) ==
  /\ program = None
  /\ program' = p /\ budget' = saved
  /\ UNCHANGED <<saved, rows, round, key, stage, tokens, result, billed, attempts, lost,
                 tried, faults>>

\* The reservation is in the file before the agent runs.
Reserve(k) ==
  /\ program # None /\ stage = "idle" /\ Pending(k)
  /\ ~ Completed(budget, k) /\ Fits(k)
  /\ budget' = [budget EXCEPT ![k] = Reservation]
  /\ Written(budget')
  /\ stage' = "calling" /\ key' = k /\ Takes(k)
  /\ tokens' = NoTokens
  /\ billed' = [billed EXCEPT ![k] = 0]
  /\ attempts' = [attempts EXCEPT ![k] = @ + 1]
  /\ tried' = tried \cup {k}
  /\ UNCHANGED <<rows, program, result, lost>>

\* A key that was paid for, a reservation past the stop or one that cannot be written is
\* an error of the case, and the program goes on.
Refuse(k) ==
  /\ program # None /\ stage = "idle" /\ Pending(k)
  /\ \/ Completed(budget, k) /\ UNCHANGED <<budget, saved, faults>>
     \/ /\ ~ Completed(budget, k) /\ ~ Fits(k)
        /\ (Written(budget) \/ Unwritten) /\ UNCHANGED budget
     \/ /\ ~ Completed(budget, k) /\ Fits(k)
        /\ budget' = [budget EXCEPT ![k] = Reservation] /\ Unwritten
  /\ Concludes(k, "nil") /\ Takes(k)
  /\ UNCHANGED <<rows, program, tokens, billed, attempts, lost, tried>>

\* A call of the agent; of one that fails the provider may have billed something too.
Call(amount, told) ==
  /\ stage = "calling" /\ tokens.calls < MaxCalls
  /\ tokens' = [calls |-> tokens.calls + 1,
                told |-> IF told THEN tokens.told + amount ELSE tokens.told,
                failed |-> tokens.failed \/ ~ told]
  /\ billed' = [billed EXCEPT ![key] = @ + amount]
  /\ UNCHANGED <<saved, rows, program, budget, round, key, stage, result, attempts, lost,
                 tried, faults>>

\* Bug: usage that is known in part is charged as if it were all.
IsUnknownIfSilent == tokens.told = 0

\* Usage is known only if every call told its own, and one did.
IsUnknown == tokens.failed \/ tokens.told = 0

Settlement ==
  [status |-> "completed", unknown |-> IsUnknown,
   actual |-> IF IsUnknown THEN Worst[key] ELSE tokens.told]

\* The finally of an attempt, however it ended.  What raises here takes the place of the
\* attempt's own end, an interrupt included: a write that fails, known usage past the stop.
Settle(end) ==
  LET settled == [budget EXCEPT ![key] = Settlement]
      raises == ~ IsUnknown /\ Spent(settled) > HardStop
  IN
  /\ stage = "calling"
  /\ \/ /\ Written(settled)
        /\ IF end = "interrupt" /\ ~ raises THEN Ends(settled)
           ELSE /\ budget' = settled
                /\ Concludes(key, IF end = "result" /\ ~ raises THEN "completed" ELSE "nil")
                /\ tokens' = NoTokens /\ UNCHANGED <<program, round, lost, tried>>
     \/ /\ Unwritten
        /\ budget' = settled
        /\ Concludes(key, "nil")
        /\ tokens' = NoTokens /\ UNCHANGED <<program, round, lost, tried>>
  /\ UNCHANGED <<rows, billed, attempts>>

\* The row is in the file before the next cell.
Record ==
  /\ stage = "recording"
  /\ rows' = [rows EXCEPT ![key] = result]
  /\ stage' = "idle" /\ key' = None /\ result' = None
  /\ UNCHANGED <<saved, program, budget, round, tokens, billed, attempts, lost, tried, faults>>

RecordFails ==
  /\ stage = "recording" /\ faults < MaxFaults
  /\ Ends(saved)
  /\ faults' = faults + 1
  /\ UNCHANGED <<saved, rows, billed, attempts>>

\* The matrix is complete; a batch has promoted a candidate, or has none, or failed.
Finish ==
  /\ program # None /\ stage = "idle"
  /\ program = "matrix" => \A c \in Cell : rows[c] # None
  /\ Ends(saved)
  /\ UNCHANGED <<saved, rows, billed, attempts, faults>>

Kill ==
  /\ program # None /\ faults < MaxFaults
  /\ Ends(saved)
  /\ faults' = faults + 1
  /\ UNCHANGED <<saved, rows, billed, attempts>>

EvaluationInit ==
  /\ saved = [k \in Key |-> None] /\ rows = [c \in Cell |-> None]
  /\ program = None /\ budget = None /\ round = 0
  /\ key = None /\ stage = "idle" /\ result = None
  /\ tokens = NoTokens
  /\ billed = [k \in Key |-> 0]
  /\ attempts = [k \in Key |-> 0] /\ lost = [k \in Key |-> 0]
  /\ tried = {} /\ faults = 0

EvaluationNext ==
  \/ \E p \in {"matrix", "batch"} : Start(p)
  \/ \E k \in Key : Reserve(k) \/ Refuse(k)
  \/ \E amount \in Bill : Call(amount, TRUE)
  \/ \E amount \in Bill \cup {0} : Call(amount, FALSE)
  \/ \E end \in {"result", "error", "interrupt"} : Settle(end)
  \/ Record \/ RecordFails \/ Finish \/ Kill

EvaluationSpec == EvaluationInit /\ [][EvaluationNext]_evars

-----------------------------------------------------------------------------
(* Properties                                                               *)

\* A key is attempted again only if the settlement of an earlier attempt was lost with its
\* process: what the checkpoint calls completed is never paid for twice (complete,
\* complete_unknown, "prevents a resume from potentially paying for the same case twice").
PaidOnce ==
  \A k \in Key :
    attempts[k] = lost[k] + (IF k \in tried \/ Completed(saved, k) THEN 1 ELSE 0)

\* While the agent runs its reservation is in the file, and with it all that is settled
\* stays within the hard stop (reserve).
ReservedBelowStop ==
  stage = "calling" => saved[key] = Reservation /\ Fits(key)

\* A cost that the checkpoint does not call unknown is what the provider billed.
CostsAreBilled ==
  \A k \in Key : Completed(saved, k) /\ ~ saved[k].unknown => saved[k].actual = billed[k]

\* A row of a completed case stands for one settled attempt, and stays.
RowsAreEarned ==
  \A c \in Cell : rows[c] = "completed" => Completed(saved, c) /\ attempts[c] = lost[c] + 1

\* What the checkpoint books passes the hard stop by no more than what one attempt cost
\* beyond its reservation.  The bill of an attempt whose settlement was lost with its
\* process is in no book, and no stop counts it (_load, complete).
StopIsKept ==
  \/ Spent(saved) <= HardStop
  \/ \E k \in Key : /\ Completed(saved, k) /\ saved[k].actual > Worst[k]
                    /\ Spent(saved) - (saved[k].actual - Worst[k]) <= HardStop
=============================================================================
