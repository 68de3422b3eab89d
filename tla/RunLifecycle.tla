---------------------------- MODULE RunLifecycle ----------------------------
(***************************************************************************)
(* What the delivery service promises about analysis runs, independently   *)
(* of tables, processes and deadlines (docs/android_delivery.md, section   *)
(* on the running structure): there is one execution slot, a run leaves it *)
(* by exactly one ending, and the ending a client reads from the event     *)
(* stream is the ending of the run, reached in the same instant.           *)
(***************************************************************************)
EXTENDS Naturals

CONSTANTS Run

VARIABLES
  phase,    \* run -> none, orphan (unfinished before the upgrade), live, ended
  verdict   \* run -> the ending its event stream tells, "open" before one

vars == <<phase, verdict>>

Ending == {"completed", "failed"}
Phase == {"none", "orphan", "live"} \cup Ending
Verdict == {"open"} \cup Ending

\* Runs of before the upgrade have no public stream.
Init ==
  /\ phase \in [Run -> Phase \ {"live"}]
  /\ verdict = [r \in Run |-> "open"]

\* A run is admitted only into the empty slot.
Admit(r) ==
  /\ phase[r] = "none"
  /\ \A s \in Run : phase[s] # "live"
  /\ phase' = [phase EXCEPT ![r] = "live"]
  /\ UNCHANGED verdict

\* The run in the slot ends, for its row and for its stream at once.
End(r, e) ==
  /\ phase[r] = "live"
  /\ phase' = [phase EXCEPT ![r] = e]
  /\ verdict' = [verdict EXCEPT ![r] = e]

\* A restart fails unfinished runs, among them those that never had the slot.
Interrupt(S) ==
  /\ S # {}
  /\ \A r \in S : phase[r] \in {"live", "orphan"}
  /\ phase' = [r \in Run |-> IF r \in S THEN "failed" ELSE phase[r]]
  /\ verdict' = [r \in Run |-> IF r \in S THEN "failed" ELSE verdict[r]]

Next ==
  \/ \E r \in Run : Admit(r)
  \/ \E r \in Run, e \in Ending : End(r, e)
  \/ \E S \in SUBSET Run : Interrupt(S)

Spec == Init /\ [][Next]_vars
=============================================================================
