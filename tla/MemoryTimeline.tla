--------------------------- MODULE MemoryTimeline ---------------------------
(***************************************************************************)
(* What the memory ledger promises to a reader: for every predicate and    *)
(* every instant at most one fact holds.  A new fact takes its whole span  *)
(* at once; a fact that loses any instant of its span to it loses all of   *)
(* it and never holds again.                                               *)
(***************************************************************************)
CONSTANTS Fact, Predicate, Slot, Span, None

VARIABLES
  held,  \* predicate -> instant -> the fact that holds then, or None
  spent  \* facts that no longer hold

Init ==
  /\ held = [p \in Predicate |-> [s \in Slot |-> None]]
  /\ spent = {}

\* The facts of a predicate that hold at an instant of a span.
Displaced(p, span) == {held[p][s] : s \in span} \ {None}

Hold(f, p, span) ==
  /\ f \notin spent
  /\ \A q \in Predicate, s \in Slot : held[q][s] # f
  /\ spent' = spent \cup Displaced(p, span)
  /\ held' = [held EXCEPT ![p] =
       [s \in Slot |-> IF s \in span THEN f
                       ELSE IF @[s] \in Displaced(p, span) THEN None ELSE @[s]]]

Next == \E f \in Fact, p \in Predicate, span \in Span : Hold(f, p, span)

Spec == Init /\ [][Next]_<<held, spent>>
=============================================================================
