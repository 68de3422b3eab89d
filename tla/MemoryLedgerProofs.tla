------------------------- MODULE MemoryLedgerProofs -------------------------
(***************************************************************************)
(* Safety of the memory ledger for any number of facts, predicates, days,  *)
(* keys and recalls.  What each property needs to be inductive is small:   *)
(* the versions a status can have, and that a recall only holds facts that *)
(* have been in force.  Also what a run is given of it (MemoryRecall), and *)
(* what a reader of its pages gets (ListPages, which are those of runs as  *)
(* well).                                                                  *)
(***************************************************************************)
EXTENDS MemoryLedger, FiniteSetTheorems, TLAPS

\* A fact has its predicate once it is there; the versions it passes through:
\* committed, decided, superseded.
RowOfStatus ==
  \A f \in Fact :
    /\ facts[f].status # "absent" => facts[f].pred \in Predicate
    /\ facts[f].status = "absent" => facts[f].version = 0
    /\ facts[f].status \in Undecided => facts[f].version = 1
    /\ facts[f].status \in {"active", "rejected"} => facts[f].version \in 1..2

Typed == TypeOK /\ RowOfStatus

Active == {f \in Fact : facts[f].status = "active"}
InForce == {"active", "superseded"}

\* What a supersession leaves: rivals superseded with a higher version, every
\* other fact as it was, and nothing but status and version different.
LEMMA SupersedeEffect ==
  ASSUME Typed, NEW S \in SUBSET Active
  PROVE  /\ Supersede(S) \in [Fact -> Row]
         /\ \A g \in Fact \ S : Supersede(S)[g] = facts[g]
         /\ \A g \in S :
              /\ Supersede(S)[g].status = "superseded"
              /\ Supersede(S)[g].version = facts[g].version + 1
              /\ Supersede(S)[g].version \in 2..3
         /\ \A g \in Fact :
              /\ Supersede(S)[g].pred = facts[g].pred
              /\ Supersede(S)[g].span = facts[g].span
              /\ Supersede(S)[g].type = facts[g].type
              /\ Supersede(S)[g].vector = facts[g].vector
              /\ Supersede(S)[g].index = facts[g].index
<1> DEFINE T == Supersede(S)
<1>1. ASSUME NEW g \in S
      PROVE  /\ T[g] \in Row
             /\ T[g].status = "superseded" /\ T[g].version \in 2..3
             /\ T[g].version = facts[g].version + 1
             /\ T[g].pred = facts[g].pred /\ T[g].span = facts[g].span
             /\ T[g].type = facts[g].type
             /\ T[g].vector = facts[g].vector /\ T[g].index = facts[g].index
  <2>1. g \in Fact /\ facts[g] \in Row /\ facts[g].status = "active"
    BY DEF Active, Typed, TypeOK
  <2>2. facts[g].version \in 1..2
    BY <2>1 DEF Typed, RowOfStatus
  <2> DEFINE row == facts[g]
             next == [row EXCEPT !.status = "superseded", !.version = row.version + 1]
  <2>3. T[g] = next
    BY <2>1 DEF Supersede
  <2>4. row \in Row /\ row.version \in 1..2
    BY <2>1, <2>2
  <2>5. /\ next \in Row /\ next.status = "superseded" /\ next.version \in 2..3
        /\ next.version = row.version + 1 /\ next.pred = row.pred
        /\ next.span = row.span /\ next.type = row.type
        /\ next.vector = row.vector /\ next.index = row.index
    <3> HIDE DEF row
    <3>1. row.version + 1 \in 2..3 /\ row.version + 1 \in 0..3
      BY <2>4
    <3>2. "superseded" \in Status
      BY DEF Status
    <3> QED BY <2>4, <3>1, <3>2 DEF Row
  <2> HIDE DEF T, next
  <2> QED BY <2>3, <2>5
<1>2. \A g \in Fact \ S : T[g] = facts[g] /\ T[g] \in Row
  BY DEF Supersede, Typed, TypeOK
<1>3. T = [g \in Fact |-> T[g]]
  BY DEF Supersede
<1> HIDE DEF T
<1>4. T \in [Fact -> Row]
  BY <1>1, <1>2, <1>3
<1> QED BY <1>1, <1>2, <1>4 DEF T

\* What an inserted row looks like.
LEMMA InsertedRow ==
  ASSUME LedgerAssumption, NEW p \in Predicate,
         NEW span \in Span, NEW c \in Candidate
  PROVE  /\ Inserted(p, span, c) \in Row
         /\ Inserted(p, span, c).pred = p
         /\ Inserted(p, span, c).span = span
         /\ Inserted(p, span, c).type = c.type
         /\ Inserted(p, span, c).status = Gate(c)
         /\ Inserted(p, span, c).version = 1
         /\ Inserted(p, span, c).vector = FALSE
         /\ Inserted(p, span, c).index = "pending"
         /\ Gate(c) \in {"active"} \cup Undecided
<1>1. Gate(c) \in {"active"} \cup Undecided
  BY DEF Gate, Undecided
<1>2. Cardinality(Present) + 1 \in Nat
  <2>1. IsFiniteSet(Present)
    BY FS_Subset DEF Present, LedgerAssumption
  <2> QED BY <2>1, FS_CardinalityType
<1>3. c.type \in FactType
  BY DEF LedgerAssumption
<1>4. Inserted(p, span, c) =
        [pred |-> p, span |-> span, type |-> c.type, status |-> Gate(c),
         version |-> 1, vector |-> FALSE, index |-> "pending",
         born |-> Cardinality(Present) + 1]
  BY DEF Inserted
<1>5. Gate(c) \in Status
  BY <1>1 DEF Status
<1> QED BY <1>1, <1>2, <1>3, <1>4, <1>5 DEF Row

-----------------------------------------------------------------------------
(* The two writers, seen as what they leave in every row *)

\* A committed candidate: f is new, the facts of S give way to it when it is
\* in force at once, and S is empty otherwise.
Committed(S, f, p, span, c) ==
  /\ f \notin S /\ facts[f].status = "absent"
  /\ S = IF Gate(c) = "active" THEN Rivals(p, span) ELSE {}
  /\ facts' \in [Fact -> Row]
  /\ facts'[f] = Inserted(p, span, c)
  /\ \A g \in Fact \ S : g # f => facts'[g] = facts[g]
  /\ \A g \in S : facts'[g] = Supersede(S)[g]

LEMMA CommitEffect ==
  ASSUME LedgerAssumption, Typed, NEW f \in Fact, NEW p \in Predicate,
         NEW span \in Span, NEW c \in Candidate, CommitCandidate(f, p, span, c)
  PROVE  \E S \in SUBSET Active : Committed(S, f, p, span, c)
<1> DEFINE S == IF Gate(c) = "active" THEN Rivals(p, span) ELSE {}
           T == Supersede(S)
<1>1. S \in SUBSET Active
  BY DEF Rivals, Active
<1>2. f \notin S /\ facts[f].status = "absent"
  BY <1>1 DEF CommitCandidate, Present, Active
<1>3. facts' = [T EXCEPT ![f] = Inserted(p, span, c)]
  BY DEF CommitCandidate
<1>4. T \in [Fact -> Row] /\ \A g \in Fact \ S : T[g] = facts[g]
  BY <1>1, SupersedeEffect
<1>5. Inserted(p, span, c) \in Row
  BY InsertedRow
<1>6. S = IF Gate(c) = "active" THEN Rivals(p, span) ELSE {}
  OBVIOUS
<1>7. S \subseteq Fact
  BY <1>1 DEF Active
<1> HIDE DEF S
<1>8. \A g \in S : facts'[g] = Supersede(S)[g]
  BY <1>2, <1>3, <1>4, <1>7
<1>9. \A g \in Fact \ S : g # f => facts'[g] = facts[g]
  BY <1>3, <1>4
<1>10. facts' \in [Fact -> Row] /\ facts'[f] = Inserted(p, span, c)
  BY <1>3, <1>4, <1>5
<1>11. Committed(S, f, p, span, c)
  BY <1>2, <1>6, <1>8, <1>9, <1>10 DEF Committed
<1> QED BY <1>1, <1>11

\* A decision: f gets its verdict, the facts of S give way to it when it is
\* approved, and S is empty otherwise.
Decided(S, f, approved) ==
  /\ f \notin S /\ facts[f].status \in Undecided
  /\ S = IF approved THEN Rivals(facts[f].pred, facts[f].span) ELSE {}
  /\ facts' \in [Fact -> Row]
  /\ facts'[f].status = IF approved THEN "active" ELSE "rejected"
  /\ facts'[f].version = 2
  /\ facts'[f].pred = facts[f].pred /\ facts'[f].span = facts[f].span
  /\ facts'[f].type = facts[f].type
  /\ facts'[f].vector = facts[f].vector /\ facts'[f].index = facts[f].index
  /\ \A g \in Fact \ S : g # f => facts'[g] = facts[g]
  /\ \A g \in S : facts'[g] = Supersede(S)[g]

LEMMA DecideEffect ==
  ASSUME Typed, NEW k \in Key, NEW f \in Fact, NEW approved \in BOOLEAN,
         NEW v \in 1..3 \cup {None}, Decide(k, f, approved, v)
  PROVE  \E S \in SUBSET Active : Decided(S, f, approved)
<1> DEFINE S == IF approved THEN Rivals(facts[f].pred, facts[f].span) ELSE {}
           T == Supersede(S)
           target == IF approved THEN "active" ELSE "rejected"
           row == T[f]
           new == [row EXCEPT !.status = target, !.version = facts[f].version + 1]
<1>1. S \in SUBSET Active
  BY DEF Rivals, Active
<1>2. f \notin S /\ facts[f].status \in Undecided
  BY <1>1 DEF Decide, Decidable, Active, Undecided
<1>3. T \in [Fact -> Row] /\ \A g \in Fact \ S : T[g] = facts[g]
  BY <1>1, SupersedeEffect
<1>4. facts' = [T EXCEPT ![f].status = target, ![f].version = facts[f].version + 1]
  BY DEF Decide
<1>5. facts[f].version + 1 = 2 /\ 2 \in 0..3
  BY <1>2 DEF Typed, RowOfStatus
<1>6. target \in Status
  BY DEF Status
<1>7. S = IF approved THEN Rivals(facts[f].pred, facts[f].span) ELSE {}
  OBVIOUS
<1>8. row \in Row /\ row = facts[f]
  BY <1>2, <1>3
<1>9. S \subseteq Fact
  BY <1>1 DEF Active
<1> HIDE DEF S, T
<1>10. /\ facts'[f] = new
       /\ \A g \in Fact : g # f => facts'[g] = T[g]
       /\ facts' = [g \in Fact |-> IF g = f THEN new ELSE T[g]]
  BY <1>3, <1>4
<1>11. /\ new \in Row /\ new.status = target /\ new.version = 2
       /\ new.pred = row.pred /\ new.span = row.span /\ new.type = row.type
       /\ new.vector = row.vector /\ new.index = row.index
  <2> HIDE DEF row, target
  <2> QED BY <1>5, <1>6, <1>8 DEF Row
<1> HIDE DEF new
<1>12. facts' \in [Fact -> Row]
  BY <1>3, <1>10, <1>11
<1>13. \A g \in S : facts'[g] = Supersede(S)[g]
  BY <1>2, <1>9, <1>10 DEF T
<1>14. \A g \in Fact \ S : g # f => facts'[g] = facts[g]
  BY <1>3, <1>10
<1> HIDE DEF row
<1>15. Decided(S, f, approved)
  BY <1>2, <1>7, <1>8, <1>10, <1>11, <1>12, <1>13, <1>14 DEF Decided
<1> QED BY <1>1, <1>15

-----------------------------------------------------------------------------
(* The inductive invariant *)

\* A recall only holds facts that have been in force: it read them as active,
\* and an active fact can only be superseded.
RecallsHoldForce ==
  \A w \in Recall : \A f \in batch[w] \cup marked[w] : facts[f].status \in InForce

IInv ==
  /\ Typed
  /\ OneFactPerInstant
  /\ OneVerdict
  /\ Warranted
  /\ IndexIsSound
  /\ RecallsHoldForce

\* The empty ledger satisfies the invariant.
LEMMA InitInvariant == ASSUME LedgerAssumption PROVE Init => IInv
<1> SUFFICES ASSUME Init PROVE IInv
  OBVIOUS
<1>1. NoRow \in Row
  <2>1. {Always} \in Span
    BY DEF Span
  <2> QED BY <2>1 DEF NoRow, Row, FactType, Status
<1>2. \A f \in Fact : facts[f] = NoRow
  BY DEF Init
<1>3. facts \in [Fact -> Row]
  BY <1>1 DEF Init
<1>4. today \in 1..Horizon + 1
  BY DEF Init, LedgerAssumption
<1>5. TypeOK
  BY <1>3, <1>4 DEF Init, TypeOK
<1>6. \A f \in Fact : /\ facts[f].status = "absent" /\ facts[f].version = 0
                      /\ facts[f].vector = FALSE /\ facts[f].index = "pending"
  BY <1>2 DEF NoRow
<1>7. \A k \in Key : receipts[k] = None
  BY DEF Init
<1>8. \A w \in Recall : batch[w] = {} /\ marked[w] = {}
  BY DEF Init
<1>9. Typed
  BY <1>5, <1>6 DEF Typed, RowOfStatus, Undecided
<1>10. OneFactPerInstant /\ OneVerdict /\ Warranted
  BY <1>6, <1>7 DEF OneFactPerInstant, OneVerdict, Warranted
<1>11. IndexIsSound /\ RecallsHoldForce
  BY <1>6, <1>8 DEF IndexIsSound, RecallsHoldForce
<1> QED BY <1>9, <1>10, <1>11 DEF IInv

\* A result preserves the invariant: what the gate activates is no inference,
\* and every active fact it would share an instant with gives way to it.
LEMMA CommitPreserves ==
  ASSUME LedgerAssumption, IInv, NEW f \in Fact, NEW p \in Predicate,
         NEW span \in Span, NEW c \in Candidate, CommitCandidate(f, p, span, c)
  PROVE  IInv'
<1>0. PICK S \in SUBSET Active : Committed(S, f, p, span, c)
  BY CommitEffect DEF IInv
<1>1. /\ f \notin S /\ facts[f].status = "absent"
      /\ S = IF Gate(c) = "active" THEN Rivals(p, span) ELSE {}
      /\ facts' \in [Fact -> Row]
      /\ facts'[f] = Inserted(p, span, c)
      /\ \A g \in Fact \ S : g # f => facts'[g] = facts[g]
      /\ \A g \in S : facts'[g] = Supersede(S)[g]
  BY <1>0 DEF Committed
<1>2. /\ \A g \in S : /\ g \in Fact /\ facts[g].status = "active"
                      /\ facts'[g].status = "superseded"
                      /\ facts'[g].version \in 2..3
                      /\ facts'[g].pred = facts[g].pred /\ facts'[g].span = facts[g].span
                      /\ facts'[g].type = facts[g].type
                      /\ facts'[g].vector = facts[g].vector
                      /\ facts'[g].index = facts[g].index
  BY <1>1, SupersedeEffect DEF IInv, Active
<1>3. /\ facts'[f].pred = p /\ facts'[f].span = span /\ facts'[f].type = c.type
      /\ facts'[f].status = Gate(c) /\ facts'[f].version = 1
      /\ facts'[f].vector = FALSE /\ facts'[f].index = "pending"
      /\ Gate(c) \in {"active"} \cup Undecided
  <2> DEFINE row == Inserted(p, span, c)
  <2>1. facts'[f] = row
    BY <1>1
  <2>2. /\ row.pred = p /\ row.span = span /\ row.type = c.type
        /\ row.status = Gate(c) /\ row.version = 1
        /\ row.vector = FALSE /\ row.index = "pending"
        /\ Gate(c) \in {"active"} \cup Undecided
    BY DEF Inserted, Gate, Undecided
  <2> HIDE DEF row
  <2> QED BY <2>1, <2>2
<1>4. UNCHANGED <<receipts, today, batch, marked>>
  BY DEF CommitCandidate
<1>5. Typed'
  <2>1. TypeOK'
    BY <1>1, <1>4 DEF IInv, Typed, TypeOK
  <2>2. RowOfStatus'
    BY <1>1, <1>2, <1>3 DEF IInv, Typed, RowOfStatus, Undecided
  <2> QED BY <2>1, <2>2 DEF Typed
<1>6. OneFactPerInstant'
  <2> SUFFICES ASSUME NEW g \in Fact, NEW h \in Fact,
                      facts'[g].status = "active", facts'[h].status = "active",
                      facts'[g].pred = facts'[h].pred,
                      facts'[g].span \cap facts'[h].span # {}
               PROVE  g = h
    BY DEF OneFactPerInstant
  <2>1. g \notin S /\ h \notin S
    BY <1>2
  <2>2. CASE g # f /\ h # f
    BY <1>1, <2>1, <2>2 DEF IInv, OneFactPerInstant
  <2>3. CASE g = f /\ h # f
    <3>1. facts'[h] = facts[h] /\ Gate(c) = "active"
      BY <1>1, <1>3, <2>1, <2>3
    <3>2. h \in Rivals(p, span)
      BY <1>3, <2>3, <3>1 DEF Rivals
    <3> QED BY <1>1, <2>1, <3>1, <3>2
  <2>4. CASE g # f /\ h = f
    <3>1. facts'[g] = facts[g] /\ Gate(c) = "active"
      BY <1>1, <1>3, <2>1, <2>4
    <3>2. g \in Rivals(p, span)
      BY <1>3, <2>4, <3>1 DEF Rivals
    <3> QED BY <1>1, <2>1, <3>1, <3>2
  <2> QED BY <2>2, <2>3, <2>4
<1>7. OneVerdict'
  <2> SUFFICES ASSUME NEW k \in Key, receipts[k] # None
               PROVE  /\ \A l \in Key : receipts[l] # None /\ receipts[l].fact = receipts[k].fact
                                          => k = l
                      /\ facts'[receipts[k].fact].status \in
                           IF receipts[k].approved THEN InForce ELSE {"rejected"}
    BY <1>4 DEF OneVerdict, InForce
  <2>1. receipts[k] \in Receipt
    BY DEF IInv, Typed, TypeOK
  <2> DEFINE g == receipts[k].fact
  <2>2. g \in Fact /\ receipts[k].approved \in BOOLEAN
    BY <2>1 DEF Receipt
  <2>3. /\ \A l \in Key : receipts[l] # None /\ receipts[l].fact = g => k = l
        /\ facts[g].status \in IF receipts[k].approved THEN InForce ELSE {"rejected"}
    BY DEF IInv, OneVerdict, InForce
  <2>4. g # f
    BY <1>1, <2>2, <2>3 DEF InForce
  <2>5. CASE g \in S
    BY <1>2, <2>2, <2>3, <2>5 DEF InForce
  <2>6. CASE g \notin S
    BY <1>1, <2>2, <2>3, <2>4, <2>6
  <2> QED BY <2>3, <2>5, <2>6
<1>8. Warranted'
  <2> SUFFICES ASSUME NEW g \in Fact, facts'[g].status \in {"active", "superseded"},
                      facts'[g].type = "inference"
               PROVE  \E k \in Key : receipts[k] # None /\ receipts[k].fact = g
                                      /\ receipts[k].approved
    BY <1>4 DEF Warranted
  <2>1. g # f
    BY <1>3 DEF Gate, Activates, Undecided
  <2>2. facts[g].status \in {"active", "superseded"} /\ facts[g].type = "inference"
    BY <1>1, <1>2, <2>1
  <2> QED BY <2>2 DEF IInv, Warranted
<1>9. IndexIsSound'
  BY <1>1, <1>2, <1>3 DEF IInv, IndexIsSound
<1>10. RecallsHoldForce'
  <2> SUFFICES ASSUME NEW w \in Recall, NEW g \in batch[w] \cup marked[w]
               PROVE  facts'[g].status \in InForce
    BY <1>4 DEF RecallsHoldForce
  <2>1. g \in Fact /\ facts[g].status \in InForce
    BY DEF IInv, Typed, TypeOK, RecallsHoldForce
  <2> QED BY <1>1, <1>2, <2>1 DEF InForce
<1> QED BY <1>5, <1>6, <1>7, <1>8, <1>9, <1>10 DEF IInv

\* A decision preserves the invariant: it meets an undecided fact, which has no
\* receipt and no vector, and its rivals give way to it.
LEMMA DecidePreserves ==
  ASSUME LedgerAssumption, IInv, NEW k \in Key, NEW f \in Fact,
         NEW approved \in BOOLEAN, NEW v \in 1..3 \cup {None}, Decide(k, f, approved, v)
  PROVE  IInv'
<1>0. PICK S \in SUBSET Active : Decided(S, f, approved)
  BY DecideEffect DEF IInv
<1>1. /\ f \notin S /\ facts[f].status \in Undecided
      /\ S = IF approved THEN Rivals(facts[f].pred, facts[f].span) ELSE {}
      /\ facts' \in [Fact -> Row]
      /\ facts'[f].status = IF approved THEN "active" ELSE "rejected"
      /\ facts'[f].version = 2
      /\ facts'[f].pred = facts[f].pred /\ facts'[f].span = facts[f].span
      /\ facts'[f].type = facts[f].type
      /\ facts'[f].vector = facts[f].vector /\ facts'[f].index = facts[f].index
      /\ \A g \in Fact \ S : g # f => facts'[g] = facts[g]
      /\ \A g \in S : facts'[g] = Supersede(S)[g]
  BY <1>0 DEF Decided
<1>2. /\ \A g \in S : /\ g \in Fact /\ facts[g].status = "active"
                      /\ facts'[g].status = "superseded"
                      /\ facts'[g].version \in 2..3
                      /\ facts'[g].pred = facts[g].pred /\ facts'[g].span = facts[g].span
                      /\ facts'[g].type = facts[g].type
                      /\ facts'[g].vector = facts[g].vector
                      /\ facts'[g].index = facts[g].index
  BY <1>1, SupersedeEffect DEF IInv, Active
<1> DEFINE receipt == [fact |-> f, approved |-> approved, expected |-> v]
<1>3. /\ UNCHANGED <<today, batch, marked>>
      /\ receipts[k] = None
      /\ v \in {None, facts[f].version}
      /\ receipts' = [receipts EXCEPT ![k] = receipt]
  BY DEF Decide
<1>4. receipt \in Receipt /\ receipt # None
  <2>1. v \in 1..3 \cup {None}
    OBVIOUS
  <2>2. facts[f].version = 1
    BY <1>1 DEF IInv, Typed, RowOfStatus
  <2> QED BY <2>1, NullAssumption DEF Receipt
<1>5. receipts' \in [Key -> Receipt \cup {None}]
  BY <1>3, <1>4 DEF IInv, Typed, TypeOK
<1>6. receipts'[k] = receipt /\ \A l \in Key : l # k => receipts'[l] = receipts[l]
  BY <1>3 DEF IInv, Typed, TypeOK
<1>7. \A l \in Key : receipts[l] # None => receipts[l].fact # f /\ receipts[l] \in Receipt
  BY <1>1 DEF IInv, OneVerdict, Typed, TypeOK, Undecided
<1>8. Typed'
  <2>1. TypeOK'
    BY <1>1, <1>3, <1>5 DEF IInv, Typed, TypeOK
  <2>2. RowOfStatus'
    BY <1>1, <1>2 DEF IInv, Typed, RowOfStatus, Undecided
  <2> QED BY <2>1, <2>2 DEF Typed
<1>9. OneFactPerInstant'
  <2> SUFFICES ASSUME NEW g \in Fact, NEW h \in Fact,
                      facts'[g].status = "active", facts'[h].status = "active",
                      facts'[g].pred = facts'[h].pred,
                      facts'[g].span \cap facts'[h].span # {}
               PROVE  g = h
    BY DEF OneFactPerInstant
  <2>1. g \notin S /\ h \notin S
    BY <1>2
  <2>2. CASE g # f /\ h # f
    BY <1>1, <2>1, <2>2 DEF IInv, OneFactPerInstant
  <2>3. CASE g = f /\ h # f
    <3>1. facts'[h] = facts[h] /\ approved
      BY <1>1, <2>1, <2>3
    <3>2. h \in Rivals(facts[f].pred, facts[f].span)
      BY <1>1, <2>3, <3>1 DEF Rivals
    <3> QED BY <1>1, <2>1, <3>1, <3>2
  <2>4. CASE g # f /\ h = f
    <3>1. facts'[g] = facts[g] /\ approved
      BY <1>1, <2>1, <2>4
    <3>2. g \in Rivals(facts[f].pred, facts[f].span)
      BY <1>1, <2>4, <3>1 DEF Rivals
    <3> QED BY <1>1, <2>1, <3>1, <3>2
  <2> QED BY <2>2, <2>3, <2>4
<1>10. OneVerdict'
  <2> SUFFICES ASSUME NEW j \in Key, receipts'[j] # None
               PROVE  /\ \A l \in Key : receipts'[l] # None /\ receipts'[l].fact = receipts'[j].fact
                                          => j = l
                      /\ facts'[receipts'[j].fact].status \in
                           IF receipts'[j].approved THEN InForce ELSE {"rejected"}
    BY DEF OneVerdict, InForce
  <2>1. CASE j = k
    <3>1. receipts'[j].fact = f /\ receipts'[j].approved = approved
      BY <1>6, <2>1
    <3>2. \A l \in Key : receipts'[l] # None /\ receipts'[l].fact = f => j = l
      BY <1>6, <1>7, <2>1
    <3> QED BY <1>1, <3>1, <3>2 DEF InForce
  <2>2. CASE j # k
    <3> DEFINE g == receipts[j].fact
    <3>1. receipts'[j] = receipts[j] /\ receipts[j] # None
      BY <1>6, <2>2
    <3>2. g \in Fact /\ g # f /\ receipts[j].approved \in BOOLEAN
      BY <1>7, <3>1 DEF Receipt
    <3>3. /\ \A l \in Key : receipts[l] # None /\ receipts[l].fact = g => j = l
          /\ facts[g].status \in IF receipts[j].approved THEN InForce ELSE {"rejected"}
      BY <3>1 DEF IInv, OneVerdict, InForce
    <3>4. \A l \in Key : receipts'[l] # None /\ receipts'[l].fact = g => j = l
      BY <1>6, <3>2, <3>3
    <3>5. CASE g \in S
      BY <1>2, <3>1, <3>2, <3>3, <3>4, <3>5 DEF InForce
    <3>6. CASE g \notin S
      BY <1>1, <3>1, <3>2, <3>3, <3>4, <3>6
    <3> QED BY <3>5, <3>6
  <2> QED BY <2>1, <2>2
<1>11. Warranted'
  <2> SUFFICES ASSUME NEW g \in Fact, facts'[g].status \in {"active", "superseded"},
                      facts'[g].type = "inference"
               PROVE  \E j \in Key : receipts'[j] # None /\ receipts'[j].fact = g
                                      /\ receipts'[j].approved
    BY DEF Warranted
  <2>1. CASE g = f
    <3>1. approved
      BY <1>1, <2>1
    <3>2. receipts'[k] # None /\ receipts'[k].fact = g /\ receipts'[k].approved
      BY <1>4, <1>6, <2>1, <3>1
    <3> QED BY <3>2
  <2>2. CASE g # f
    <3>1. facts[g].status \in {"active", "superseded"} /\ facts[g].type = "inference"
      BY <1>1, <1>2, <2>2
    <3>2. PICK j \in Key : receipts[j] # None /\ receipts[j].fact = g /\ receipts[j].approved
      BY <3>1 DEF IInv, Warranted
    <3>3. receipts'[j] = receipts[j]
      BY <1>3, <1>6, <3>2
    <3> QED BY <3>2, <3>3
  <2> QED BY <2>1, <2>2
<1>12. IndexIsSound'
  BY <1>1, <1>2 DEF IInv, IndexIsSound, Undecided
<1>13. RecallsHoldForce'
  <2> SUFFICES ASSUME NEW w \in Recall, NEW g \in batch[w] \cup marked[w]
               PROVE  facts'[g].status \in InForce
    BY <1>3 DEF RecallsHoldForce
  <2>1. g \in Fact /\ facts[g].status \in InForce
    BY DEF IInv, Typed, TypeOK, RecallsHoldForce
  <2>2. g # f
    BY <1>1, <2>1 DEF InForce, Undecided
  <2> QED BY <1>1, <1>2, <2>1, <2>2 DEF InForce
<1> QED BY <1>8, <1>9, <1>10, <1>11, <1>12, <1>13 DEF IInv

\* The vectors of a recall that commits go to facts that have been in force.
LEMMA IndexingPreserves ==
  ASSUME IInv, NEW w \in Recall, Commit(w)
  PROVE  IInv'
<1> DEFINE Indexed(row) == [row EXCEPT !.vector = TRUE, !.index = "indexed"]
<1>1. /\ UNCHANGED <<receipts, today, batch>>
      /\ marked' = [marked EXCEPT ![w] = {}]
      /\ facts' = [f \in Fact |-> IF f \in marked[w] THEN Indexed(facts[f]) ELSE facts[f]]
  BY DEF Commit
<1>2. /\ Typed /\ facts \in [Fact -> Row] /\ marked \in [Recall -> SUBSET Fact]
  BY DEF IInv, Typed, TypeOK
<1>3. \A row \in Row :
        /\ Indexed(row) \in Row /\ Indexed(row).vector = TRUE
        /\ Indexed(row).index = "indexed" /\ Indexed(row).status = row.status
        /\ Indexed(row).version = row.version /\ Indexed(row).pred = row.pred
        /\ Indexed(row).span = row.span /\ Indexed(row).type = row.type
  BY DEF Row
<1> HIDE DEF Indexed
<1>4. /\ \A f \in Fact \ marked[w] : facts'[f] = facts[f]
      /\ \A f \in Fact \cap marked[w] : facts'[f] = Indexed(facts[f])
  BY <1>1
<1>5. \A f \in Fact :
        /\ facts'[f] \in Row /\ facts'[f].status = facts[f].status
        /\ facts'[f].version = facts[f].version /\ facts'[f].pred = facts[f].pred
        /\ facts'[f].span = facts[f].span /\ facts'[f].type = facts[f].type
  BY <1>2, <1>3, <1>4
<1>6. facts' \in [Fact -> Row]
  BY <1>1, <1>5
<1>7. marked' \in [Recall -> SUBSET Fact] /\ \A v \in Recall : marked'[v] \subseteq marked[v]
  BY <1>1, <1>2
<1>8. Typed'
  <2>1. TypeOK'
    BY <1>1, <1>2, <1>6, <1>7 DEF Typed, TypeOK
  <2>2. RowOfStatus'
    BY <1>2, <1>5 DEF Typed, RowOfStatus
  <2> QED BY <2>1, <2>2 DEF Typed
<1>9. OneFactPerInstant'
  BY <1>5 DEF IInv, OneFactPerInstant
<1>10. OneVerdict'
  <2>1. \A k \in Key : receipts[k] # None => receipts[k].fact \in Fact
    BY <1>2 DEF Typed, TypeOK, Receipt
  <2> QED BY <1>1, <1>5, <2>1 DEF IInv, OneVerdict
<1>11. Warranted'
  BY <1>1, <1>5 DEF IInv, Warranted
<1>12. IndexIsSound'
  <2> SUFFICES ASSUME NEW f \in Fact
               PROVE  /\ facts'[f].vector <=> facts'[f].index = "indexed"
                      /\ facts'[f].vector => facts'[f].status \in {"active", "superseded"}
    BY DEF IndexIsSound
  <2>1. CASE f \in marked[w]
    <3>1. facts[f].status \in {"active", "superseded"}
      BY <2>1 DEF IInv, RecallsHoldForce, InForce
    <3>2. facts'[f].vector = TRUE /\ facts'[f].index = "indexed"
      BY <1>2, <1>3, <1>4, <2>1
    <3> QED BY <1>5, <3>1, <3>2
  <2>2. CASE f \notin marked[w]
    BY <1>4, <2>2 DEF IInv, IndexIsSound
  <2> QED BY <2>1, <2>2
<1>13. RecallsHoldForce'
  <2>1. \A v \in Recall : batch[v] \cup marked[v] \subseteq Fact
    BY <1>2 DEF Typed, TypeOK
  <2> QED BY <1>1, <1>5, <1>7, <2>1 DEF IInv, RecallsHoldForce
<1> QED BY <1>8, <1>9, <1>10, <1>11, <1>12, <1>13 DEF IInv

\* The steps that leave the ledger alone: the day, and a recall that reads,
\* tries one fact or gives up.
LEMMA QuietPreserves ==
  ASSUME IInv, UNCHANGED <<facts, receipts>>, today' \in 1..Horizon + 1,
         batch' \in [Recall -> SUBSET Fact], marked' \in [Recall -> SUBSET Fact],
         \A v \in Recall : batch'[v] \cup marked'[v] \subseteq batch[v] \cup marked[v] \cup Active
  PROVE  IInv'
<1>1. Typed'
  <2>1. TypeOK' BY DEF IInv, Typed, TypeOK
  <2>2. RowOfStatus' BY DEF IInv, Typed, RowOfStatus
  <2> QED BY <2>1, <2>2 DEF Typed
<1>2. OneFactPerInstant' BY DEF IInv, OneFactPerInstant
<1>3. OneVerdict' BY DEF IInv, OneVerdict
<1>4. Warranted' BY DEF IInv, Warranted
<1>5. IndexIsSound' BY DEF IInv, IndexIsSound
<1>6. RecallsHoldForce'
  <2> SUFFICES ASSUME NEW v \in Recall, NEW f \in batch'[v] \cup marked'[v]
               PROVE  facts[f].status \in InForce
    BY DEF RecallsHoldForce
  <2>1. f \in batch[v] \cup marked[v] \cup Active
    OBVIOUS
  <2>2. CASE f \in Active
    BY <2>2 DEF Active, InForce
  <2>3. CASE f \in batch[v] \cup marked[v]
    BY <2>3 DEF IInv, RecallsHoldForce
  <2> QED BY <2>1, <2>2, <2>3
<1> QED BY <1>1, <1>2, <1>3, <1>4, <1>5, <1>6 DEF IInv

\* A recall that reads, tries or skips a fact, or is abandoned.
LEMMA RecallPreserves ==
  ASSUME IInv, NEW w \in Recall,
         \/ Fetch(w) \/ Abandon(w) \/ \E f \in Fact : Encode(w, f) \/ Skip(w, f)
  PROVE  IInv'
<1>1. /\ today \in 1..Horizon + 1
      /\ batch \in [Recall -> SUBSET Fact] /\ marked \in [Recall -> SUBSET Fact]
  BY DEF IInv, Typed, TypeOK
<1>2. CASE Fetch(w)
  <2>1. PICK B \in SUBSET Unindexed : batch' = [batch EXCEPT ![w] = B]
    BY <1>2 DEF Fetch
  <2>2. B \subseteq Active /\ B \subseteq Fact
    BY <2>1 DEF Unindexed, Active
  <2>3. UNCHANGED <<facts, receipts, today, marked>>
    BY <1>2 DEF Fetch
  <2>4. /\ batch' \in [Recall -> SUBSET Fact]
        /\ \A v \in Recall : batch'[v] \subseteq batch[v] \cup Active
    BY <1>1, <2>1, <2>2
  <2> QED BY <1>1, <2>3, <2>4, QuietPreserves
<1>3. CASE Abandon(w)
  <2>1. /\ batch' = [batch EXCEPT ![w] = {}] /\ marked' = [marked EXCEPT ![w] = {}]
        /\ UNCHANGED <<facts, receipts, today>>
    BY <1>3 DEF Abandon
  <2> QED BY <1>1, <2>1, QuietPreserves
<1>4. ASSUME NEW f \in Fact, Encode(w, f) PROVE IInv'
  <2>1. /\ batch' = [batch EXCEPT ![w] = @ \ {f}] /\ marked' = [marked EXCEPT ![w] = @ \cup {f}]
        /\ f \in batch[w] /\ UNCHANGED <<facts, receipts, today>>
    BY <1>4 DEF Encode, IsNext
  <2> QED BY <1>1, <2>1, QuietPreserves
<1>5. ASSUME NEW f \in Fact, Skip(w, f) PROVE IInv'
  <2>1. /\ batch' = [batch EXCEPT ![w] = @ \ {f}]
        /\ UNCHANGED <<facts, receipts, today, marked>>
    BY <1>5 DEF Skip
  <2> QED BY <1>1, <2>1, QuietPreserves
<1> QED BY <1>2, <1>3, <1>4, <1>5

\* Every step preserves the invariant.
LEMMA StepInvariant == ASSUME LedgerAssumption PROVE IInv /\ [Next]_vars => IInv'
<1> SUFFICES ASSUME IInv, [Next]_vars PROVE IInv'
  OBVIOUS
<1>1. ASSUME NEW f \in Fact, NEW p \in Predicate, NEW span \in Span, NEW c \in Candidate,
             CommitCandidate(f, p, span, c)
      PROVE  IInv'
  BY <1>1, CommitPreserves
<1>2. ASSUME NEW k \in Key, NEW f \in Fact, NEW approved \in BOOLEAN,
             NEW v \in 1..3 \cup {None}, Decide(k, f, approved, v)
      PROVE  IInv'
  BY <1>2, DecidePreserves
<1>3. CASE DayPasses
  <2>1. today' \in 1..Horizon + 1 /\ UNCHANGED <<facts, receipts, batch, marked>>
    BY <1>3, LedgerAssumption DEF DayPasses, IInv, Typed, TypeOK
  <2>2. batch \in [Recall -> SUBSET Fact] /\ marked \in [Recall -> SUBSET Fact]
    BY DEF IInv, Typed, TypeOK
  <2> QED BY <2>1, <2>2, QuietPreserves
<1>4. ASSUME NEW w \in Recall, Commit(w) PROVE IInv'
  BY <1>4, IndexingPreserves
<1>5. ASSUME NEW w \in Recall,
             \/ Fetch(w) \/ Abandon(w) \/ \E f \in Fact : Encode(w, f) \/ Skip(w, f)
      PROVE  IInv'
  BY <1>5, RecallPreserves
<1>6. CASE UNCHANGED vars
  <2>1. UNCHANGED <<facts, receipts, today, batch, marked>>
    BY <1>6 DEF vars
  <2>2. /\ today \in 1..Horizon + 1
        /\ batch \in [Recall -> SUBSET Fact] /\ marked \in [Recall -> SUBSET Fact]
    BY DEF IInv, Typed, TypeOK
  <2> QED BY <2>1, <2>2, QuietPreserves
<1> QED BY <1>1, <1>2, <1>3, <1>4, <1>5, <1>6 DEF Next

-----------------------------------------------------------------------------
(* The safety properties *)

\* The empty ledger satisfies IInv and every step preserves it.
THEOREM Invariant == Spec => []IInv
<1>1. Init => IInv
  BY InitInvariant, LedgerAssumption
<1>2. IInv /\ [Next]_vars => IInv'
  BY StepInvariant, LedgerAssumption
<1> QED BY <1>1, <1>2, PTL DEF Spec

\* Every row, receipt and recall has its type in every state (migrations 001
\* and 006).
THEOREM TypeCorrect == Spec => []TypeOK
<1>1. IInv => TypeOK
  BY DEF IInv, Typed
<1> QED BY <1>1, Invariant, PTL

\* materialize_fact and decide_memory never leave two facts in force for one
\* predicate and one instant, however periods overlap.
THEOREM NoRivalsInForce == Spec => []OneFactPerInstant
<1>1. IInv => OneFactPerInstant
  BY DEF IInv
<1> QED BY <1>1, Invariant, PTL

\* decide_memory leaves one receipt per fact at most, and the fact as that
\* receipt says or replaced.
THEOREM DecidedOnce == Spec => []OneVerdict
<1>1. IInv => OneVerdict
  BY DEF IInv
<1> QED BY <1>1, Invariant, PTL

\* No inference is in force without an approval of the merchant.
THEOREM InferencesNeedApproval == Spec => []Warranted
<1>1. IInv => Warranted
  BY DEF IInv
<1> QED BY <1>1, Invariant, PTL

\* compensate_pending_indexes gives vectors to facts that have been in force
\* only, and sets vector and index status together.
THEOREM IndexSafe == Spec => []IndexIsSound
<1>1. IInv => IndexIsSound
  BY DEF IInv
<1> QED BY <1>1, Invariant, PTL

-----------------------------------------------------------------------------
(* Versions *)

\* A step never lowers a version, and raises it with every change of status.
LEMMA StepVersions ==
  ASSUME LedgerAssumption, IInv, [Next]_vars
  PROVE  [\A f \in Fact :
            /\ facts'[f].version >= facts[f].version
            /\ facts'[f].status # facts[f].status => facts'[f].version > facts[f].version]_vars
<1> DEFINE Told(f) == /\ facts'[f].version >= facts[f].version
                      /\ facts'[f].status # facts[f].status
                           => facts'[f].version > facts[f].version
<1> SUFFICES ASSUME Next, NEW g \in Fact PROVE Told(g)
  OBVIOUS
<1>1. facts \in [Fact -> Row] /\ facts[g].version \in 0..3
  BY DEF IInv, Typed, TypeOK, Row
<1>2. facts'[g] = facts[g] => Told(g)
  BY <1>1
<1>3. ASSUME NEW S \in SUBSET Active, g \in S, facts'[g] = Supersede(S)[g]
      PROVE  Told(g)
  <2>1. Supersede(S)[g].version = facts[g].version + 1
    BY <1>3, SupersedeEffect DEF IInv
  <2> QED BY <1>1, <1>3, <2>1
<1>4. ASSUME NEW f \in Fact, NEW p \in Predicate, NEW span \in Span, NEW c \in Candidate,
             CommitCandidate(f, p, span, c)
      PROVE  Told(g)
  <2>0. PICK S \in SUBSET Active : Committed(S, f, p, span, c)
    BY <1>4, CommitEffect DEF IInv
  <2>1. /\ f \notin S /\ facts[f].status = "absent"
        /\ facts'[f] = Inserted(p, span, c)
        /\ \A h \in Fact \ S : h # f => facts'[h] = facts[h]
        /\ \A h \in S : facts'[h] = Supersede(S)[h]
    BY <2>0 DEF Committed
  <2>2. CASE g = f
    <3>1. facts[g].version = 0
      BY <2>1, <2>2 DEF IInv, Typed, RowOfStatus
    <3>2. facts'[g].version = 1
      BY <2>1, <2>2 DEF Inserted
    <3> QED BY <3>1, <3>2
  <2> QED BY <1>2, <1>3, <2>1, <2>2
<1>5. ASSUME NEW k \in Key, NEW f \in Fact, NEW approved \in BOOLEAN,
             NEW v \in 1..3 \cup {None}, Decide(k, f, approved, v)
      PROVE  Told(g)
  <2>0. PICK S \in SUBSET Active : Decided(S, f, approved)
    BY <1>5, DecideEffect DEF IInv
  <2>1. /\ f \notin S /\ facts[f].status \in Undecided
        /\ facts'[f].version = 2
        /\ \A h \in Fact \ S : h # f => facts'[h] = facts[h]
        /\ \A h \in S : facts'[h] = Supersede(S)[h]
    BY <2>0 DEF Decided
  <2>2. CASE g = f
    <3>1. facts[g].version = 1
      BY <2>1, <2>2 DEF IInv, Typed, RowOfStatus
    <3> QED BY <2>1, <2>2, <3>1
  <2> QED BY <1>2, <1>3, <2>1, <2>2
<1>6. ASSUME NEW w \in Recall, Commit(w) PROVE Told(g)
  <2>1. CASE g \in marked[w]
    <3> DEFINE row == facts[g]
    <3>1. facts'[g] = [row EXCEPT !.vector = TRUE, !.index = "indexed"]
      BY <1>6, <2>1 DEF Commit
    <3>2. row \in Row
      BY <1>1
    <3> HIDE DEF row
    <3>3. facts'[g].version = row.version /\ facts'[g].status = row.status
      BY <3>1, <3>2 DEF Row
    <3> QED BY <1>1, <3>3 DEF row
  <2>2. CASE g \notin marked[w]
    BY <1>2, <1>6, <2>2 DEF Commit
  <2> QED BY <2>1, <2>2
<1>7. CASE \/ DayPasses
           \/ \E w \in Recall :
                Fetch(w) \/ Abandon(w) \/ \E f \in Fact : Encode(w, f) \/ Skip(w, f)
  BY <1>2, <1>7 DEF DayPasses, Fetch, Abandon, Encode, Skip
<1> QED BY <1>4, <1>5, <1>6, <1>7 DEF Next

\* A reader of memory who holds the version of a fact knows its status:
\* expected_version of decide_memory cannot match a fact that has changed.
THEOREM VersionsTell == Spec => VersionsTellChanges
<1>1. IInv /\ [Next]_vars =>
        [\A f \in Fact :
           /\ facts'[f].version >= facts[f].version
           /\ facts'[f].status # facts[f].status => facts'[f].version > facts[f].version]_vars
  BY StepVersions, LedgerAssumption
<1> QED BY <1>1, Invariant, PTL DEF Spec, VersionsTellChanges

-----------------------------------------------------------------------------
(* The ledger implements the timeline *)

\* At an instant the fact that holds is the only one that could.
LEMMA Holder ==
  ASSUME IInv, NEW p, NEW s
  PROVE  /\ HolderAt(p, s) = {} => Holding(p, s) = None
         /\ \A f \in HolderAt(p, s) : HolderAt(p, s) = {f} /\ Holding(p, s) = f
<1>1. ASSUME NEW f \in HolderAt(p, s), NEW g \in HolderAt(p, s) PROVE f = g
  <2>1. s \in facts[f].span \cap facts[g].span
    BY DEF HolderAt
  <2> QED BY <2>1 DEF HolderAt, IInv, OneFactPerInstant
<1>2. ASSUME NEW f \in HolderAt(p, s) PROVE HolderAt(p, s) = {f} /\ Holding(p, s) = f
  <2>1. HolderAt(p, s) = {f}
    BY <1>1
  <2>2. (CHOOSE g \in {f} : TRUE) = f
    OBVIOUS
  <2> QED BY <2>1, <2>2 DEF Holding, OneOf
<1> QED BY <1>2 DEF Holding, OneOf

\* Steps that change no fact in force, nor what has been, are not seen.
LEMMA SameTimeline ==
  ASSUME \A g \in Fact :
           /\ facts'[g].status = "active" <=> facts[g].status = "active"
           /\ facts'[g].status = "superseded" <=> facts[g].status = "superseded"
           /\ facts[g].status = "active" =>
                facts'[g].pred = facts[g].pred /\ facts'[g].span = facts[g].span
  PROVE  UNCHANGED <<Held, Spent>>
<1>1. ASSUME NEW p \in Predicate, NEW s \in Slot PROVE HolderAt(p, s)' = HolderAt(p, s)
  <2>1. \A g \in Fact : g \in HolderAt(p, s)' <=> g \in HolderAt(p, s)
    BY DEF HolderAt
  <2>2. HolderAt(p, s)' \subseteq Fact /\ HolderAt(p, s) \subseteq Fact
    BY DEF HolderAt
  <2> QED BY <2>1, <2>2
<1>2. ASSUME NEW p \in Predicate, NEW s \in Slot PROVE Holding(p, s)' = Holding(p, s)
  BY <1>1 DEF Holding
<1>3. Held' = Held
  BY <1>2 DEF Held
<1>4. Spent' = Spent
  BY DEF Spent
<1> QED BY <1>3, <1>4

LEMMA SpanIsSlots == ASSUME LedgerAssumption, NEW span \in Span PROVE span \subseteq Slot
  BY DEF LedgerAssumption, Span, Slot, Day

\* A fact that comes into force while its rivals leave holds its whole span.
LEMMA Takeover ==
  ASSUME LedgerAssumption, IInv, NEW f \in Fact, NEW p \in Predicate, NEW span \in Span,
         facts[f].status \notin InForce,
         facts'[f].status = "active", facts'[f].pred = p, facts'[f].span = span,
         \A g \in Rivals(p, span) : facts'[g].status = "superseded",
         \A g \in Fact \ Rivals(p, span) : g # f => facts'[g] = facts[g]
  PROVE  Timeline!Hold(f, p, span)
<1> DEFINE S == Rivals(p, span)
<1>1. span \subseteq Slot
  BY SpanIsSlots
<1>2. f \notin S
  BY DEF Rivals, InForce
<1>3. Timeline!Displaced(p, span) = S
  <2>1. Timeline!Displaced(p, span) = {Holding(p, s) : s \in span} \ {None}
    BY <1>1 DEF Timeline!Displaced, Held
  <2>2. ASSUME NEW g \in S PROVE g \in {Holding(p, s) : s \in span} \ {None}
    <3>1. PICK s \in span : g \in HolderAt(p, s)
      BY DEF Rivals, HolderAt
    <3>2. g = Holding(p, s)
      BY <3>1, Holder
    <3>3. g # None
      BY DEF Rivals, LedgerAssumption
    <3> QED BY <3>2, <3>3
  <2>3. ASSUME NEW s \in span, Holding(p, s) # None PROVE Holding(p, s) \in S
    <3>1. PICK g \in HolderAt(p, s) : Holding(p, s) = g
      BY <2>3, Holder
    <3>2. s \in facts[g].span \cap span
      BY DEF HolderAt
    <3> QED BY <3>1, <3>2 DEF HolderAt, Rivals
  <2> QED BY <2>1, <2>2, <2>3
<1>4. Spent' = Spent \cup S
  BY <1>2 DEF Spent, Rivals, InForce
<1>5. f \notin Spent
  BY DEF Spent, InForce
<1>6. \A q \in Predicate, s \in Slot : Held[q][s] # f
  <2> SUFFICES ASSUME NEW q \in Predicate, NEW s \in Slot PROVE Holding(q, s) # f
    BY DEF Held
  <2>1. CASE HolderAt(q, s) = {}
    BY <2>1, Holder DEF LedgerAssumption
  <2>2. CASE HolderAt(q, s) # {}
    <3>1. PICK g \in HolderAt(q, s) : Holding(q, s) = g
      BY <2>2, Holder
    <3> QED BY <3>1 DEF HolderAt, InForce
  <2> QED BY <2>1, <2>2
<1>7. ASSUME NEW q \in Predicate, NEW s \in Slot, q # p
      PROVE  Holding(q, s)' = Holding(q, s)
  <2>1. HolderAt(q, s)' = HolderAt(q, s)
    <3>1. \A g \in Fact : g \in HolderAt(q, s)' <=> g \in HolderAt(q, s)
      BY <1>7 DEF HolderAt, Rivals, InForce
    <3>2. HolderAt(q, s)' \subseteq Fact /\ HolderAt(q, s) \subseteq Fact
      BY DEF HolderAt
    <3> QED BY <3>1, <3>2
  <2> QED BY <2>1 DEF Holding
<1>8. ASSUME NEW s \in Slot
      PROVE  Holding(p, s)' = IF s \in span THEN f
                              ELSE IF Holding(p, s) \in S THEN None ELSE Holding(p, s)
  <2>1. CASE s \in span
    <3>1. HolderAt(p, s) \subseteq S
      BY <2>1 DEF HolderAt, Rivals
    <3>2. HolderAt(p, s)' = {f}
      BY <2>1, <3>1 DEF HolderAt, Rivals, InForce
    <3>3. (CHOOSE g \in {f} : TRUE) = f
      OBVIOUS
    <3> QED BY <2>1, <3>2, <3>3 DEF Holding, OneOf
  <2>2. CASE s \notin span
    <3>1. HolderAt(p, s)' = HolderAt(p, s) \ S
      BY <1>2, <2>2 DEF HolderAt, Rivals, InForce
    <3>2. CASE HolderAt(p, s) = {}
      <4>1. Holding(p, s) = None /\ None \notin S
        BY <3>2, Holder DEF Rivals, LedgerAssumption
      <4>2. HolderAt(p, s)' = {}
        BY <3>1, <3>2
      <4>3. Holding(p, s)' = None
        BY <4>2 DEF Holding, OneOf
      <4> QED BY <2>2, <4>1, <4>3
    <3>3. CASE HolderAt(p, s) # {}
      <4>1. PICK g \in HolderAt(p, s) : HolderAt(p, s) = {g} /\ Holding(p, s) = g
        BY <3>3, Holder
      <4>2. CASE g \in S
        <5>1. HolderAt(p, s)' = {}
          BY <3>1, <4>1, <4>2
        <5>2. Holding(p, s)' = None
          BY <5>1 DEF Holding, OneOf
        <5> QED BY <2>2, <4>1, <4>2, <5>2
      <4>3. CASE g \notin S
        <5>1. HolderAt(p, s)' = HolderAt(p, s)
          BY <3>1, <4>1, <4>3
        <5>2. Holding(p, s)' = Holding(p, s)
          BY <5>1 DEF Holding
        <5> QED BY <2>2, <4>1, <4>3, <5>2
      <4> QED BY <4>2, <4>3
    <3> QED BY <3>2, <3>3
  <2> QED BY <2>1, <2>2
<1> DEFINE H == [s \in Slot |-> IF s \in span THEN f
                                ELSE IF Held[p][s] \in S THEN None ELSE Held[p][s]]
<1>9. Held' = [Held EXCEPT ![p] = H]
  <2>1. \A q \in Predicate : Held'[q] = IF q = p THEN H ELSE Held[q]
    <3>1. \A q \in Predicate : Held[q] = [s \in Slot |-> Holding(q, s)]
      BY DEF Held
    <3>2. \A q \in Predicate : Held'[q] = [s \in Slot |-> Holding(q, s)']
      BY DEF Held
    <3>3. \A s \in Slot : Held[p][s] = Holding(p, s)
      BY <3>1
    <3>4. Held'[p] = H
      BY <1>8, <3>2, <3>3
    <3>5. ASSUME NEW q \in Predicate, q # p PROVE Held'[q] = Held[q]
      <4>1. \A s \in Slot : Holding(q, s)' = Holding(q, s)
        BY <1>7, <3>5
      <4>2. [s \in Slot |-> Holding(q, s)'] = [s \in Slot |-> Holding(q, s)]
        BY <4>1
      <4>3. Held[q] = [s \in Slot |-> Holding(q, s)]
        BY DEF Held
      <4>4. Held'[q] = [s \in Slot |-> Holding(q, s)']
        BY DEF Held
      <4> QED BY <4>2, <4>3, <4>4
    <3> QED BY <3>4, <3>5
  <2>2. Held' = [q \in Predicate |-> Held'[q]] /\ Held = [q \in Predicate |-> Held[q]]
    BY DEF Held
  <2> HIDE DEF H
  <2> QED BY <2>1, <2>2
<1> QED BY <1>3, <1>4, <1>5, <1>6, <1>9 DEF Timeline!Hold

LEMMA TimelineInit == ASSUME LedgerAssumption PROVE Init => Timeline!Init
<1> SUFFICES ASSUME Init PROVE Timeline!Init
  OBVIOUS
<1>1. \A f \in Fact : facts[f].status = "absent"
  BY DEF Init, NoRow
<1>2. ASSUME NEW p \in Predicate, NEW s \in Slot PROVE Holding(p, s) = None
  <2>1. HolderAt(p, s) = {}
    BY <1>1 DEF HolderAt
  <2> QED BY <2>1 DEF Holding, OneOf
<1>3. Held = [p \in Predicate |-> [s \in Slot |-> None]]
  BY <1>2 DEF Held
<1>4. Spent = {}
  BY <1>1 DEF Spent
<1> QED BY <1>3, <1>4 DEF Timeline!Init

\* A candidate the gate lets through and an approval take over a span; every
\* other step leaves the timeline as it is.
LEMMA TimelineStep ==
  ASSUME LedgerAssumption, IInv, [Next]_vars
  PROVE  [Timeline!Next]_<<Held, Spent>>
<1>1. ASSUME NEW f \in Fact, NEW p \in Predicate, NEW span \in Span,
             Timeline!Hold(f, p, span)
      PROVE  Timeline!Next
  BY <1>1 DEF Timeline!Next
<1>2. ASSUME NEW f \in Fact, NEW p \in Predicate, NEW span \in Span, NEW c \in Candidate,
             CommitCandidate(f, p, span, c)
      PROVE  [Timeline!Next]_<<Held, Spent>>
  <2>0. PICK S \in SUBSET Active : Committed(S, f, p, span, c)
    BY <1>2, CommitEffect, LedgerAssumption DEF IInv
  <2>1. /\ f \notin S /\ facts[f].status = "absent"
        /\ S = IF Gate(c) = "active" THEN Rivals(p, span) ELSE {}
        /\ facts' \in [Fact -> Row]
        /\ facts'[f] = Inserted(p, span, c)
        /\ \A g \in Fact \ S : g # f => facts'[g] = facts[g]
        /\ \A g \in S : facts'[g] = Supersede(S)[g]
    BY <2>0 DEF Committed
  <2>2. /\ facts'[f].pred = p /\ facts'[f].span = span /\ facts'[f].status = Gate(c)
        /\ Gate(c) \in {"active"} \cup Undecided
    BY <2>1 DEF Inserted, Gate, Undecided
  <2>3. CASE Gate(c) = "active"
    <3>1. \A g \in S : facts'[g].status = "superseded"
      BY <2>1, SupersedeEffect DEF IInv
    <3>2. S = Rivals(p, span) /\ facts[f].status \notin InForce
      BY <2>1, <2>3 DEF InForce
    <3>3. Timeline!Hold(f, p, span)
      BY <2>1, <2>2, <2>3, <3>1, <3>2, Takeover
    <3> QED BY <1>1, <3>3
  <2>4. CASE Gate(c) # "active"
    <3>1. S = {} /\ facts'[f].status \in Undecided
      BY <2>1, <2>2, <2>4
    <3> QED BY <2>1, <3>1, SameTimeline DEF Undecided
  <2> QED BY <2>3, <2>4
<1>3. ASSUME NEW k \in Key, NEW f \in Fact, NEW approved \in BOOLEAN,
             NEW v \in 1..3 \cup {None}, Decide(k, f, approved, v)
      PROVE  [Timeline!Next]_<<Held, Spent>>
  <2>0. PICK S \in SUBSET Active : Decided(S, f, approved)
    BY <1>3, DecideEffect DEF IInv
  <2>1. /\ f \notin S /\ facts[f].status \in Undecided
        /\ S = IF approved THEN Rivals(facts[f].pred, facts[f].span) ELSE {}
        /\ facts'[f].status = IF approved THEN "active" ELSE "rejected"
        /\ facts'[f].pred = facts[f].pred /\ facts'[f].span = facts[f].span
        /\ \A g \in Fact \ S : g # f => facts'[g] = facts[g]
        /\ \A g \in S : facts'[g] = Supersede(S)[g]
    BY <2>0 DEF Decided
  <2>2. CASE approved
    <3>1. \A g \in S : facts'[g].status = "superseded"
      BY <2>1, SupersedeEffect DEF IInv
    <3>2. S = Rivals(facts[f].pred, facts[f].span) /\ facts[f].status \notin InForce
      BY <2>1, <2>2 DEF InForce, Undecided
    <3>3. facts[f].span \in Span
      BY DEF IInv, Typed, TypeOK, Row
    <3>4. facts[f].pred \in Predicate
      BY <2>1 DEF IInv, Typed, RowOfStatus, Undecided
    <3>5. Timeline!Hold(f, facts[f].pred, facts[f].span)
      BY <2>1, <2>2, <3>1, <3>2, <3>3, <3>4, Takeover
    <3> QED BY <1>1, <3>3, <3>4, <3>5
  <2>3. CASE ~approved
    <3>1. S = {}
      BY <2>1, <2>3
    <3> QED BY <2>1, <2>3, <3>1, SameTimeline DEF Undecided
  <2> QED BY <2>2, <2>3
<1>4. ASSUME NEW w \in Recall, Commit(w) PROVE UNCHANGED <<Held, Spent>>
  <2>1. ASSUME NEW g \in Fact
        PROVE  /\ facts'[g].status = facts[g].status /\ facts'[g].pred = facts[g].pred
               /\ facts'[g].span = facts[g].span
    <3> DEFINE row == facts[g]
               new == [row EXCEPT !.vector = TRUE, !.index = "indexed"]
    <3>1. facts'[g] = IF g \in marked[w] THEN new ELSE row
      BY <1>4 DEF Commit
    <3>2. row \in Row
      BY DEF IInv, Typed, TypeOK
    <3> HIDE DEF row
    <3>3. new.status = row.status /\ new.pred = row.pred /\ new.span = row.span
      BY <3>2 DEF Row
    <3> HIDE DEF new
    <3> QED BY <3>1, <3>3 DEF row
  <2> QED BY <2>1, SameTimeline
<1>5. CASE \/ DayPasses \/ UNCHANGED vars
           \/ \E w \in Recall :
                Fetch(w) \/ Abandon(w) \/ \E f \in Fact : Encode(w, f) \/ Skip(w, f)
  <2>1. facts' = facts
    BY <1>5 DEF DayPasses, Fetch, Abandon, Encode, Skip, vars
  <2> QED BY <2>1, SameTimeline
<1> QED BY <1>2, <1>3, <1>4, <1>5 DEF Next

\* The ledger implements the timeline: results, decisions and recalls together
\* look to a reader like facts that take over whole periods, one per instant.
THEOREM Implementation == Spec => ImplementsTimeline
<1>1. Init => Timeline!Init
  BY TimelineInit, LedgerAssumption
<1>2. IInv /\ [Next]_vars => [Timeline!Next]_<<Held, Spent>>
  BY TimelineStep, LedgerAssumption
<1> QED BY <1>1, <1>2, Invariant, PTL DEF Spec, ImplementsTimeline, Timeline!Spec
-----------------------------------------------------------------------------
(* What a run recalls (MemoryRecall).  The ones selected and not yet in the  *)
(* context come after every one that is; a core memory leaves without having *)
(* got in only when the characters are spent, and these never come back.     *)

CONSTANTS Id, Shape, Question, Candidates, Budget, MaxCore
VARIABLES store, question, step, found, left, spent, context

W == INSTANCE MemoryRecall WITH Fact <- Shape

Chosen == UNION {W!Selected(kind) : kind \in W!Kind}
ByNow == step \in {"selected", "done"}

RecallTypes ==
  /\ store \in [Id -> Shape \cup {None}]
  /\ step \in {"asked", "planned", "raised", "unavailable", "fetched", "selected", "done"}
  /\ found \subseteq W!Matching
  /\ spent \in Nat /\ spent <= MaxCore
  /\ context \in [Id -> Nat \cup {None}]

\* How far the selected ones have come.
Portioned ==
  /\ W!Injected \cup left \subseteq IF ByNow THEN Chosen ELSE {}
  /\ left \cap W!Injected = {}
  /\ step = "done" => left = {}
  /\ ByNow => \A m \in Chosen \ (left \cup W!Injected) : store[m].kind = "core" /\ spent = MaxCore

\* Whoever has got in comes before whoever has not.
Ordered ==
  \A m \in W!Injected : \A n \in Chosen \ W!Injected :
    store[m].kind = store[n].kind => W!Before(m, n)

RecallInv == RecallTypes /\ Portioned /\ Ordered /\ W!OthersAreWhole

\* The instance's finite sets are the library's.
LEMMA RecallIsFinite == ASSUME NEW S PROVE W!IsFiniteSet(S) = IsFiniteSet(S)
BY Zenon DEF W!IsFiniteSet, IsFiniteSet

LEMMA RecallCounts == ASSUME NEW S PROVE W!Cardinality(S) = Cardinality(S)
BY Zenon DEF W!Cardinality, Cardinality, W!IsFiniteSet, IsFiniteSet

\* Equals by worth are told apart by nearness: the order of the selection is total and strict.
LEMMA RecallOrder ==
  ASSUME W!RecallAssumption, RecallTypes
  PROVE  /\ \A m \in found : m \in Id /\ m \in Nat /\ store[m] \in Shape /\ store[m].kind \in W!Kind
                             /\ store[m].worth \in Nat /\ store[m].size \in Nat
         /\ \A m, n \in found : m # n => W!Before(m, n) \/ W!Before(n, m)
         /\ \A m, n \in found : ~ (W!Before(m, n) /\ W!Before(n, m))
         /\ \A l, m, n \in found : W!Before(l, m) /\ W!Before(m, n) => W!Before(l, n)
<1>1. \A m \in found : m \in Id /\ m \in Nat /\ store[m] \in Shape /\ store[m].kind \in W!Kind
                        /\ store[m].worth \in Nat /\ store[m].size \in Nat
  BY DEF W!RecallAssumption, RecallTypes, W!Matching
<1> QED BY <1>1 DEF W!Before

\* Who is selected is no worse than who is not (the budget counts who is better).
LEMMA SelectedFirst ==
  ASSUME W!RecallAssumption, RecallTypes, NEW kind \in W!Kind,
         NEW m \in W!Selected(kind), NEW n \in W!Eligible(kind), n \notin W!Selected(kind)
  PROVE  W!Before(m, n)
<1> DEFINE Better(x) == {o \in W!Eligible(kind) : W!Before(o, x)}
<1>1. m \in W!Eligible(kind) /\ m # n /\ m \in found /\ n \in found
  BY DEF W!Selected, W!Eligible
<1>2. IsFiniteSet(W!Eligible(kind))
  <2>1. W!Eligible(kind) \subseteq Id
    BY DEF W!Eligible, RecallTypes, W!Matching
  <2>2. IsFiniteSet(Id)
    BY RecallIsFinite DEF W!RecallAssumption
  <2> QED BY <2>1, <2>2, FS_Subset
<1>3. IsFiniteSet(Better(m)) /\ IsFiniteSet(Better(n))
  BY <1>2, FS_Subset
<1>4. Cardinality(Better(m)) \in Nat /\ Cardinality(Better(n)) \in Nat
  BY <1>3, FS_CardinalityType
<1>5. Cardinality(Better(m)) < Budget[kind] /\ ~ (Cardinality(Better(n)) < Budget[kind])
  <2>1. W!Cardinality(Better(m)) < Budget[kind] /\ ~ (W!Cardinality(Better(n)) < Budget[kind])
    BY Zenon DEF W!Selected
  <2> QED BY <2>1, RecallCounts, Zenon
<1>6. SUFFICES ASSUME ~ W!Before(m, n) PROVE FALSE
  OBVIOUS
<1>7. W!Before(n, m)
  BY <1>1, <1>6, RecallOrder
<1>8. Better(n) \subseteq Better(m)
  <2> SUFFICES ASSUME NEW o \in Better(n) PROVE o \in Better(m)
    OBVIOUS
  <2>1. o \in found /\ W!Before(o, n)
    BY DEF W!Eligible
  <2> QED BY <2>1, <1>1, <1>7, RecallOrder
<1>9. Cardinality(Better(n)) <= Cardinality(Better(m))
  BY <1>3, <1>8, FS_Subset
<1> QED BY <1>4, <1>5, <1>9 DEF W!RecallAssumption

LEMMA ChosenAreFound ==
  ASSUME W!RecallAssumption, RecallTypes
  PROVE  \A m \in Chosen : /\ m \in found /\ m \in W!Selected(store[m].kind)
                           /\ store[m].kind \in W!Kind
<1> SUFFICES ASSUME NEW kind \in W!Kind, NEW m \in W!Selected(kind)
             PROVE  m \in found /\ store[m].kind = kind
  BY Zenon DEF Chosen
<1>1. m \in W!Eligible(kind) BY DEF W!Selected
<1> QED BY <1>1 DEF W!Eligible

LEMMA RecallStarts == W!RecallAssumption /\ W!RecallInit => RecallInv
BY DEF W!RecallAssumption, W!RecallInit, RecallInv, RecallTypes, Portioned, Ordered, W!OthersAreWhole,
       W!Injected, ByNow

LEMMA RecallGoesOn ==
  ASSUME W!RecallAssumption, RecallInv, [W!RecallNext]_(W!rvars)
  PROVE  RecallInv'
<1> USE DEF RecallInv
<1>1. CASE W!Plan
  BY <1>1 DEF W!Plan, RecallTypes, Portioned, Ordered, W!OthersAreWhole, W!Injected, ByNow, W!Matching,
              W!InScope, W!Asked, W!Effective
<1>2. CASE W!Fetch
  <2>1. W!Injected = {} /\ left = {} /\ W!Injected' = {} /\ left' = {}
    BY <1>2 DEF W!Fetch, Portioned, ByNow, W!Injected
  <2>2. RecallTypes'
    BY <1>2 DEF W!Fetch, RecallTypes, W!Matching, W!InScope, W!Asked, W!Effective
  <2>3. Portioned'
    BY <1>2, <2>1 DEF W!Fetch, Portioned, ByNow
  <2>4. Ordered' /\ W!OthersAreWhole'
    BY <2>1 DEF Ordered, W!OthersAreWhole
  <2> QED BY <2>2, <2>3, <2>4
<1>3. CASE W!Select
  <2>1. W!Injected = {} /\ W!Injected' = {}
    BY <1>3 DEF W!Select, Portioned, ByNow, W!Injected
  <2>2. RecallTypes'
    BY <1>3 DEF W!Select, RecallTypes, W!Matching, W!InScope, W!Asked, W!Effective
  <2>3. Chosen' = Chosen /\ left' = Chosen
    BY <1>3 DEF W!Select, Chosen, W!Selected, W!Eligible, W!Before
  <2>4. Portioned'
    BY <1>3, <2>1, <2>3 DEF W!Select, Portioned, ByNow
  <2>5. Ordered' /\ W!OthersAreWhole'
    BY <2>1 DEF Ordered, W!OthersAreWhole
  <2> QED BY <2>2, <2>4, <2>5
<1>4. ASSUME NEW m \in Id, W!Inject(m) PROVE RecallInv'
  <2>1. /\ m \in left /\ step = "selected" /\ left' = left \ {m}
        /\ UNCHANGED <<store, question, step, found>>
    BY <1>4 DEF W!Inject
  <2>2. Chosen' = Chosen
    BY <2>1 DEF Chosen, W!Selected, W!Eligible, W!Before
  <2>3. m \in Chosen /\ m \notin W!Injected /\ m \in found
    BY <2>1, ChosenAreFound DEF Portioned, ByNow
  <2>4. store[m].size \in Nat /\ MaxCore \in Nat /\ None \notin Nat
    BY <2>3, RecallOrder DEF W!RecallAssumption
  <2>5. CASE store[m].kind = "core" /\ spent >= MaxCore
    <3>1. UNCHANGED <<context, spent>>
      BY <1>4, <2>5, <2>4 DEF W!Inject, RecallTypes
    <3>2. spent = MaxCore
      BY <2>5, <2>4 DEF RecallTypes
    <3>3. W!Injected' = W!Injected
      BY <3>1 DEF W!Injected
    <3>4. RecallTypes'
      BY <2>1, <3>1 DEF RecallTypes, W!Matching, W!InScope, W!Asked, W!Effective
    <3>5. Portioned'
      BY <2>1, <2>2, <2>5, <3>1, <3>2, <3>3 DEF Portioned, ByNow
    <3>6. Ordered' /\ W!OthersAreWhole'
      BY <2>1, <2>2, <3>1, <3>3 DEF Ordered, W!OthersAreWhole, W!Before
    <3> QED BY <3>4, <3>5, <3>6
  <2>6. CASE store[m].kind # "core" \/ spent < MaxCore
    <3>1. PICK k \in Nat :
            /\ context' = [context EXCEPT ![m] = k]
            /\ \/ store[m].kind # "core" /\ k = store[m].size /\ spent' = spent
               \/ /\ store[m].kind = "core" /\ spent < MaxCore /\ spent' = spent + k
                  /\ k = W!Cut(m)
      <4>1. W!Cut(m) \in Nat \/ spent >= MaxCore
        BY <2>4 DEF W!Cut, RecallTypes
      <4>2. CASE store[m].kind # "core"
        BY <1>4, <2>4, <4>2 DEF W!Inject
      <4>3. CASE store[m].kind = "core"
        <5>1. spent < MaxCore /\ ~ (spent >= MaxCore)
          BY <2>6, <4>3, <2>4 DEF RecallTypes
        <5>2. context' = [context EXCEPT ![m] = W!Cut(m)] /\ spent' = spent + W!Cut(m)
          BY <1>4, <4>3, <5>1 DEF W!Inject
        <5> QED BY <4>1, <4>3, <5>1, <5>2
      <4> QED BY <4>2, <4>3
    <3>2. W!Injected' = W!Injected \cup {m}
      BY <3>1, <2>4 DEF W!Injected, RecallTypes
    <3>3. /\ spent' \in Nat /\ spent <= spent' /\ spent' <= MaxCore
          /\ k = store[m].size \/ (store[m].kind = "core" /\ spent' = MaxCore)
      BY <3>1, <2>4 DEF W!Cut, RecallTypes
    <3>4. RecallTypes'
      BY <2>1, <3>1, <3>3 DEF RecallTypes, W!Matching, W!InScope, W!Asked, W!Effective
    <3>5. spent = MaxCore => spent' = MaxCore
      BY <3>3, <2>4 DEF RecallTypes
    <3>6. Portioned'
      BY <2>1, <2>2, <2>3, <3>2, <3>5 DEF Portioned, ByNow
    <3>7. Ordered'
      <4> SUFFICES ASSUME NEW i \in W!Injected', NEW n \in (Chosen \ W!Injected)',
                          store[i].kind = store[n].kind
                   PROVE  W!Before(i, n)
        BY <2>1 DEF Ordered, W!Before
      <4>1. n \in Chosen /\ n \notin W!Injected /\ n # m
        BY <2>2, <3>2
      <4>2. CASE i # m
        BY <4>1, <4>2, <3>2 DEF Ordered
      <4>3. CASE i = m
        <5>1. CASE n \in left
          <6>1. store[n].kind \in W!Kind
            BY <4>1, ChosenAreFound
          <6>2. ~ (W!Turn[store[m].kind] < W!Turn[store[n].kind])
            BY <4>3, <6>1 DEF W!Turn, W!Kind
          <6> QED BY <1>4, <4>1, <4>3, <5>1, <6>2 DEF W!Inject, W!Foremost
        <5>2. CASE n \notin left
          <6>1. store[n].kind = "core" /\ spent = MaxCore
            BY <2>1, <4>1, <5>2 DEF Portioned, ByNow
          <6> QED BY <6>1, <4>3, <2>6, <2>4
        <5> QED BY <5>1, <5>2
      <4> QED BY <4>2, <4>3
    <3>8. W!OthersAreWhole'
      BY <2>1, <3>1, <3>2, <3>3, <3>5 DEF W!OthersAreWhole, W!Injected, RecallTypes
    <3> QED BY <3>4, <3>6, <3>7, <3>8
  <2>7. spent \in Nat /\ MaxCore \in Nat
    BY <2>4 DEF RecallTypes
  <2> QED BY <2>5, <2>6, <2>7
<1>5. CASE W!Deliver
  <2>1. Chosen' = Chosen /\ W!Injected' = W!Injected
    BY <1>5 DEF W!Deliver, Chosen, W!Selected, W!Eligible, W!Before, W!Injected
  <2> QED BY <1>5, <2>1 DEF W!Deliver, RecallTypes, Portioned, Ordered, W!OthersAreWhole, ByNow, W!Matching,
              W!InScope, W!Asked, W!Effective, W!Before
<1>6. CASE W!Fail
  BY <1>6 DEF W!Fail, RecallTypes, Portioned, Ordered, W!OthersAreWhole, W!Injected, ByNow, W!Matching,
              W!InScope, W!Asked, W!Effective
<1>7. CASE UNCHANGED W!rvars
  <2>1. Chosen' = Chosen /\ W!Injected' = W!Injected
    BY <1>7 DEF W!rvars, Chosen, W!Selected, W!Eligible, W!Before, W!Injected
  <2> QED BY <1>7, <2>1 DEF W!rvars, RecallTypes, Portioned, Ordered, W!OthersAreWhole, ByNow, W!Matching,
              W!InScope, W!Asked, W!Effective, W!Before
<1> QED BY <1>1, <1>2, <1>3, <1>4, <1>5, <1>6, <1>7 DEF W!RecallNext

LEMMA RecallHolds ==
  ASSUME W!RecallAssumption, RecallInv
  PROVE  W!ContextIsScoped /\ W!OthersAreWhole /\ W!BestAreChosen
<1> USE DEF RecallInv
<1>1. W!Injected \subseteq Chosen
  BY DEF Portioned
<1>2. W!ContextIsScoped
  BY <1>1, ChosenAreFound DEF W!ContextIsScoped, RecallTypes, W!Selected, W!Eligible
<1>3. W!BestAreChosen
  <2> SUFFICES ASSUME NEW n \in found \ W!Injected, NEW m \in W!Injected,
                      store[m].kind = store[n].kind, n \in W!Eligible(store[n].kind)
               PROVE  W!Before(m, n)
    BY DEF W!BestAreChosen
  <2>1. m \in W!Selected(store[n].kind) /\ store[n].kind \in W!Kind
    BY <1>1, ChosenAreFound
  <2>2. CASE n \in W!Selected(store[n].kind)
    <3>1. n \in Chosen
      BY <2>1, <2>2 DEF Chosen
    <3> QED BY <3>1 DEF Ordered
  <2>3. CASE n \notin W!Selected(store[n].kind)
    BY <2>1, <2>3, SelectedFirst
  <2> QED BY <2>2, <2>3
<1> QED BY <1>2, <1>3

\* For any facts, question, budgets and number of candidates, a run is given nothing from
\* outside its merchant and thread, its asked types and days; what it is given is whole but
\* for one core memory; and nothing it is given is worse than what it is not (_recall,
\* assemble_context).
THEOREM RecallIsSound ==
  W!RecallAssumption =>
    (W!RecallSpec => [](W!ContextIsScoped /\ W!OthersAreWhole /\ W!BestAreChosen))
<1> SUFFICES ASSUME W!RecallAssumption
             PROVE  W!RecallSpec => [](W!ContextIsScoped /\ W!OthersAreWhole /\ W!BestAreChosen)
  OBVIOUS
<1>1. W!RecallInit => RecallInv
  BY RecallStarts
<1>2. RecallInv /\ [W!RecallNext]_(W!rvars) => RecallInv'
  BY RecallGoesOn
<1>3. RecallInv => W!ContextIsScoped /\ W!OthersAreWhole /\ W!BestAreChosen
  BY RecallHolds
<1> QED BY <1>1, <1>2, <1>3, PTL DEF W!RecallSpec

-----------------------------------------------------------------------------
(* Listings while others write (ListPages) *)

CONSTANTS Reader, Shown, PageSize, MaxTime
VARIABLES clock, writing, table, reader

P == INSTANCE ListPages WITH Status <- Shown, Limit <- PageSize

ListRow == [at : Nat, status : Shown]
PageCursor == (Nat \X Id) \cup {None}
Listing == [filter : Shown \cup {None}, cursor : PageCursor,
            stage : {"none", "open", "done", "refused", "cut"},
            got : SUBSET Id, twice : BOOLEAN, owed : SUBSET Id]

ListTyped ==
  /\ clock \in Nat /\ writing \in [Id -> Nat \cup {None}]
  /\ table \in [Id -> ListRow \cup {None}] /\ reader \in [Reader -> Listing]

Place(rs, i) == <<rs[i].at, i>>

\* What a reader has is no older than its cursor, and was given once.
Given(l, rs) ==
  /\ ~ l.twice
  /\ \A i \in l.got : rs[i] # None
  /\ l.stage = "open" => \A i \in l.got : ~ P!Behind(l.cursor, Place(rs, i))

\* What it is owed it has, or it is still to come.
Owed(l, rs) ==
  /\ \A i \in l.owed : rs[i] # None /\ P!Matches(l.filter, rs[i])
  /\ l.stage = "open" => \A i \in l.owed : i \in l.got \/ P!Behind(l.cursor, Place(rs, i))
  /\ l.stage = "done" => l.owed \subseteq l.got

\* A row is inserted once.
WritingIsNew == \A i \in Id : writing[i] # None => table[i] = None

\* The inductive invariant: a cursor parts what a reader has from what it is still owed.
ListInv ==
  ListTyped /\ WritingIsNew /\ \A r \in Reader : Given(reader[r], table) /\ Owed(reader[r], table)

\* Pages are in a strict order, so that ties of time are broken by the row.
LEMMA OlderIsAnOrder ==
  ASSUME P!ListAssumption, NEW p \in Nat \X Id, NEW q \in Nat \X Id, NEW s \in Nat \X Id
  PROVE  /\ ~ P!Older(p, p) /\ (P!Older(p, q) => ~ P!Older(q, p))
         /\ P!Older(p, q) /\ P!Older(q, s) => P!Older(p, s)
BY DEF P!Older, P!ListAssumption

\* Rows that are there stay in their places; a reader may be owed fewer.
LEMMA RowsStay ==
  ASSUME NEW l \in Listing, NEW m \in Listing, NEW rs, NEW ss,
         Given(l, rs), Owed(l, rs),
         m.filter = l.filter, m.cursor = l.cursor, m.stage = l.stage, m.got = l.got,
         m.twice = l.twice, m.owed \subseteq l.owed,
         \A i \in Id : rs[i] # None => ss[i] # None /\ ss[i].at = rs[i].at,
         \A i \in m.owed : P!Matches(l.filter, ss[i])
  PROVE  Given(m, ss) /\ Owed(m, ss)
<1>1. l.got \subseteq Id /\ l.owed \subseteq Id BY DEF Listing
<1>2. \A i \in Id : rs[i] # None => Place(ss, i) = Place(rs, i) BY DEF Place
<1>3. \A i \in l.got \cup l.owed : rs[i] # None BY DEF Given, Owed
<1>4. Given(m, ss) BY <1>1, <1>2, <1>3 DEF Given
<1>5. Owed(m, ss) BY <1>1, <1>2, <1>3 DEF Owed
<1> QED BY <1>4, <1>5

\* One reader goes on, and the rows are as they were.
LEMMA OneReader ==
  ASSUME ListInv, NEW r \in Reader, NEW l \in Listing, reader' = [reader EXCEPT ![r] = l],
         UNCHANGED <<clock, writing, table>>, Given(l, table), Owed(l, table)
  PROVE  ListInv'
<1>1. ListTyped' /\ WritingIsNew' BY DEF ListInv, ListTyped, WritingIsNew
<1>2. reader'[r] = l /\ \A s \in Reader : s # r => reader'[s] = reader[s]
  BY DEF ListInv, ListTyped
<1>3. \A s \in Reader : Given(reader'[s], table) /\ Owed(reader'[s], table)
  BY <1>2 DEF ListInv
<1> QED BY <1>1, <1>3 DEF ListInv

\* Nobody has a page of empty tables.
LEMMA ListBegins == ASSUME P!ListAssumption, P!ListInit PROVE ListInv
BY DEF P!ListAssumption, P!ListInit, ListInv, WritingIsNew, ListTyped, Listing, PageCursor, ListRow, Given, Owed

\* A row appears where none was.
LEMMA WritesHold ==
  ASSUME P!ListAssumption, ListInv, NEW i \in Id, NEW status \in Shown, P!Commit(i, status)
  PROVE  ListInv'
<1>1. ListTyped' BY DEF P!Commit, ListInv, ListTyped, ListRow
<1>2. WritingIsNew' BY DEF P!Commit, ListInv, ListTyped, WritingIsNew
<1>3. reader' = reader /\ \A j \in Id : table[j] # None => table'[j] = table[j]
  BY DEF P!Commit, ListInv, ListTyped, WritingIsNew
<1>4. ASSUME NEW r \in Reader PROVE Given(reader'[r], table') /\ Owed(reader'[r], table')
  <2>1. reader[r] \in Listing /\ Given(reader[r], table) /\ Owed(reader[r], table)
    BY DEF ListInv, ListTyped
  <2>2. \A j \in reader[r].owed : j \in Id /\ table[j] # None /\ P!Matches(reader[r].filter, table[j])
    BY <2>1 DEF Owed, Listing
  <2> QED BY <1>3, <2>1, <2>2, RowsStay
<1> QED BY <1>1, <1>2, <1>4 DEF ListInv

\* A row that turns keeps its place, and is owed to those only whose filter it matches.
LEMMA TurnHolds ==
  ASSUME P!ListAssumption, ListInv, NEW i \in Id, NEW status \in Shown, P!Turn(i, status)
  PROVE  ListInv'
<1>1. /\ table[i] # None /\ table' = [table EXCEPT ![i].status = status]
      /\ UNCHANGED <<clock, writing>>
  BY DEF P!Turn
<1>2. table[i] \in ListRow BY <1>1 DEF ListInv, ListTyped
<1>3. /\ table' \in [Id -> ListRow \cup {None}] /\ table'[i] \in ListRow /\ table'[i].at = table[i].at
      /\ \A j \in Id : j # i => table'[j] = table[j]
  BY <1>1, <1>2 DEF ListInv, ListTyped, ListRow
<1>4. None \notin ListRow BY DEF P!ListAssumption, ListRow
<1>5. WritingIsNew' BY <1>1, <1>2, <1>3, <1>4 DEF ListInv, WritingIsNew
<1>6. ASSUME NEW r \in Reader
      PROVE  reader'[r] \in Listing /\ Given(reader'[r], table') /\ Owed(reader'[r], table')
  <2> DEFINE l == reader[r]
             m == IF P!Matches(l.filter, table'[i]) THEN l ELSE [l EXCEPT !.owed = @ \ {i}]
  <2>1. l \in Listing /\ Given(l, table) /\ Owed(l, table) BY DEF ListInv, ListTyped
  <2>2. reader'[r] = m BY DEF P!Turn
  <2>3. /\ m \in Listing /\ m.filter = l.filter /\ m.cursor = l.cursor /\ m.stage = l.stage
        /\ m.got = l.got /\ m.twice = l.twice /\ m.owed \subseteq l.owed
        /\ ~ P!Matches(l.filter, table'[i]) => i \notin m.owed
    BY <2>1 DEF Listing
  <2> HIDE DEF l, m
  <2>4. \A j \in m.owed : P!Matches(l.filter, table'[j])
    <3>1. \A j \in m.owed : j \in Id /\ P!Matches(l.filter, table[j]) BY <2>1, <2>3 DEF Owed, Listing
    <3> QED BY <1>3, <2>3, <3>1
  <2>5. \A j \in Id : table[j] # None => table'[j] # None /\ table'[j].at = table[j].at
    BY <1>3, <1>4
  <2> QED BY <2>1, <2>2, <2>3, <2>4, <2>5, RowsStay
<1>7. ListTyped'
  <2>1. reader' \in [Reader -> Listing] BY <1>6 DEF P!Turn
  <2> QED BY <1>1, <1>3, <2>1 DEF ListInv, ListTyped
<1> QED BY <1>5, <1>6, <1>7 DEF ListInv

\* Whoever begins is owed what matches, and has nothing.
LEMMA StartHolds ==
  ASSUME P!ListAssumption, ListInv, NEW r \in Reader, NEW filter \in Shown \cup {None},
         P!Start(r, filter)
  PROVE  ListInv'
<1> DEFINE l == [filter |-> filter, cursor |-> None, stage |-> "open", got |-> {}, twice |-> FALSE,
                 owed |-> P!Matching(filter)]
<1>1. reader' = [reader EXCEPT ![r] = l] /\ UNCHANGED <<clock, writing, table>> BY DEF P!Start
<1>2. l \in Listing BY DEF Listing, PageCursor, P!Matching
<1>3. Given(l, table) /\ Owed(l, table) BY DEF Given, Owed, P!Matching, P!Behind
<1> HIDE DEF l
<1> QED BY <1>1, <1>2, <1>3, OneReader

\* A page takes the newest rows left, so that a reader's cursor parts those it has from
\* those that are left, and from those it is still owed.
LEMMA PageHolds ==
  ASSUME P!ListAssumption, ListInv, NEW r \in Reader, NEW page \in SUBSET Id, P!Page(r, page)
  PROVE  ListInv'
<1> DEFINE l == reader[r]
           rest == P!Left(l.filter, l.cursor)
<1>1. l \in Listing /\ Given(l, table) /\ Owed(l, table) BY DEF ListInv, ListTyped
<1>2. /\ l.stage = "open" /\ page \subseteq rest
      /\ \A i \in page, j \in rest \ page : P!Older(P!Position(j), P!Position(i))
      /\ UNCHANGED <<clock, writing, table>>
  BY DEF P!Page
<1>3. PICK next \in IF page = rest THEN {None} ELSE {P!Position(i) : i \in page} :
        /\ next # None => \A i \in page : P!Position(i) = next \/ P!Older(next, P!Position(i))
        /\ reader' = [reader EXCEPT ![r] =
             [filter |-> l.filter, cursor |-> next,
              stage |-> IF next = None THEN "done" ELSE "open",
              got |-> l.got \cup page,
              twice |-> l.twice \/ page \cap l.got # {},
              owed |-> l.owed]]
  BY DEF P!Page
<1> DEFINE m == [filter |-> l.filter, cursor |-> next,
                 stage |-> IF next = None THEN "done" ELSE "open",
                 got |-> l.got \cup page, twice |-> l.twice \/ page \cap l.got # {},
                 owed |-> l.owed]
<1>4. \A i \in Id : table[i] # None => P!Position(i) \in Nat \X Id /\ P!Position(i) = Place(table, i)
  BY DEF ListInv, ListTyped, ListRow, P!Position, Place
<1>5. \A i \in rest : i \in Id /\ table[i] # None /\ P!Behind(l.cursor, P!Position(i))
  BY DEF P!Left, P!Matching
<1>6. \/ page = rest /\ next = None
      \/ page # rest /\ next # None /\ next \in Nat \X Id
  <2>1. CASE page = rest
    <3>1. next \in {None} BY <1>3, <2>1
    <3> QED BY <2>1, <3>1
  <2>2. CASE page # rest
    <3>1. PICK k \in page : next = P!Position(k) BY <1>3, <2>2
    <3>2. next \in Nat \X Id BY <1>2, <1>4, <1>5, <3>1
    <3>3. next # None BY <3>2 DEF P!ListAssumption
    <3> QED BY <2>2, <3>2, <3>3
  <2> QED BY <2>1, <2>2
<1>7. \A i \in l.got \cup l.owed : i \in Id /\ table[i] # None
  BY <1>1 DEF Given, Owed, Listing
<1>8. page \cap l.got = {}
  BY <1>1, <1>2, <1>4, <1>5, <1>7 DEF Given
<1>9. m \in Listing
  <2>1. l.filter \in Shown \cup {None} /\ l.got \subseteq Id /\ l.owed \subseteq Id /\ ~ l.twice
    BY <1>1 DEF Listing, Given
  <2> QED BY <1>6, <1>8, <2>1 DEF Listing, PageCursor
<1>10. Given(m, table)
  <2>1. ~ m.twice /\ \A i \in m.got : i \in Id /\ table[i] # None
    BY <1>1, <1>2, <1>5, <1>7, <1>8 DEF Given
  <2>2. CASE next = None BY <2>1, <2>2 DEF Given
  <2>3. CASE next # None
    <3>1. PICK k \in page : next = P!Position(k) BY <1>3, <1>6, <2>3
    <3>2. P!Behind(l.cursor, next) BY <1>2, <1>5, <3>1
    <3>3. ASSUME NEW i \in m.got PROVE ~ P!Older(P!Position(i), next)
      <4>1. P!Position(i) \in Nat \X Id /\ next \in Nat \X Id BY <1>4, <1>6, <2>1, <2>3, <3>3
      <4>2. CASE i \in page BY <1>3, <2>3, <4>1, <4>2, OlderIsAnOrder
      <4>3. CASE i \in l.got
        <5>1. ~ P!Behind(l.cursor, P!Position(i)) BY <1>1, <1>2, <1>4, <1>7, <4>3 DEF Given
        <5>2. l.cursor # None /\ ~ P!Older(P!Position(i), l.cursor) /\ P!Older(next, l.cursor)
          BY <3>2, <5>1 DEF P!Behind
        <5>3. l.cursor \in Nat \X Id BY <1>1, <5>2 DEF Listing, PageCursor
        <5> QED BY <4>1, <5>2, <5>3, OlderIsAnOrder
      <4> QED BY <3>3, <4>2, <4>3
    <3> QED BY <1>4, <2>1, <2>3, <3>3 DEF Given, P!Behind
  <2> QED BY <2>2, <2>3
<1>11. Owed(m, table)
  <2>1. ASSUME NEW i \in l.owed, i \notin l.got PROVE i \in rest
    <3>1. P!Behind(l.cursor, P!Position(i)) /\ table[i] # None /\ P!Matches(l.filter, table[i]) /\ i \in Id
      BY <1>1, <1>2, <1>4, <1>7, <2>1 DEF Owed
    <3> QED BY <3>1 DEF P!Left, P!Matching
  <2>2. \A i \in l.owed : table[i] # None /\ P!Matches(l.filter, table[i]) BY <1>1 DEF Owed
  <2>3. CASE next = None BY <1>6, <2>1, <2>2, <2>3 DEF Owed
  <2>4. CASE next # None
    <3>1. PICK k \in page : next = P!Position(k) BY <1>3, <1>6, <2>4
    <3>2. \A i \in rest \ page : P!Older(P!Position(i), next) BY <1>2, <3>1
    <3> QED BY <1>4, <1>7, <2>1, <2>2, <2>4, <3>2 DEF Owed, P!Behind
  <2> QED BY <2>3, <2>4
<1>12. reader' = [reader EXCEPT ![r] = m] BY <1>3
<1> HIDE DEF m
<1> QED BY <1>2, <1>9, <1>10, <1>11, <1>12, OneReader

\* Who is refused or has lost its cursor is owed nothing but what the next listing gives.
LEMMA StopsHold ==
  ASSUME P!ListAssumption, ListInv, NEW r \in Reader, NEW filter,
         P!Mistake(r, filter) \/ P!Cut(r)
  PROVE  ListInv'
<1>1. PICK s \in {"refused", "cut"} :
        reader' = [reader EXCEPT ![r].stage = s, ![r].cursor = None]
  BY DEF P!Mistake, P!TakesScope, P!Cut
<1> DEFINE l == [reader[r] EXCEPT !.stage = s, !.cursor = None]
<1>2. reader[r] \in Listing /\ Given(reader[r], table) /\ Owed(reader[r], table)
  BY DEF ListInv, ListTyped
<1>3. /\ l \in Listing /\ l.stage = s /\ l.got = reader[r].got /\ l.twice = reader[r].twice
      /\ l.owed = reader[r].owed /\ l.filter = reader[r].filter
  BY <1>2 DEF Listing, PageCursor
<1>4. reader' = [reader EXCEPT ![r] = l] BY <1>1
<1> HIDE DEF l
<1>5. Given(l, table) /\ Owed(l, table) BY <1>2, <1>3 DEF Given, Owed
<1>6. UNCHANGED <<clock, writing, table>> BY DEF P!Mistake, P!Cut
<1> QED BY <1>3, <1>4, <1>5, <1>6, OneReader

\* No write and no page breaks the invariant.
LEMMA ListStep ==
  ASSUME P!ListAssumption, ListInv, [P!ListNext]_(P!lvars) PROVE ListInv'
<1>1. CASE \E i \in Id : P!Begin(i) \/ \E status \in Shown : P!Commit(i, status)
  <2>1. PICK i \in Id : P!Begin(i) \/ \E status \in Shown : P!Commit(i, status) BY <1>1
  <2>2. CASE P!Begin(i)
    <3>1. /\ ListTyped' /\ WritingIsNew' /\ UNCHANGED <<table, reader>>
      BY <2>2 DEF P!Begin, ListInv, ListTyped, WritingIsNew
    <3> QED BY <3>1 DEF ListInv
  <2>3. CASE \E status \in Shown : P!Commit(i, status) BY <2>3, WritesHold
  <2> QED BY <2>1, <2>2, <2>3
<1>2. CASE \E i \in Id : \E status \in Shown : P!Turn(i, status) BY <1>2, TurnHolds
<1>3. CASE P!Tick \/ UNCHANGED P!lvars
  BY <1>3 DEF P!Tick, P!lvars, ListInv, ListTyped, WritingIsNew
<1>4. CASE \E r \in Reader :
             \/ \E filter \in Shown \cup {None} : P!Start(r, filter) \/ P!Mistake(r, filter)
             \/ \E page \in SUBSET Id : P!Page(r, page)
             \/ P!Cut(r)
  BY <1>4, StartHolds, PageHolds, StopsHold
<1> QED BY <1>1, <1>2, <1>3, <1>4 DEF P!ListNext

\* Whatever is inserted, with whatever times, and decided between its pages, a listing gives
\* no row twice and, at its end, every row that matched all along (list_runs, list_memories,
\* _page_cursor, _parse_cursor, get_memories).
THEOREM PagesAreWhole ==
  ASSUME P!ListAssumption
  PROVE  P!ListSpec => [](P!NoneTwice /\ P!NoneMissed)
<1>1. P!ListInit => ListInv BY ListBegins
<1>2. ListInv /\ [P!ListNext]_(P!lvars) => ListInv' BY ListStep
<1>3. ListInv => P!NoneTwice /\ P!NoneMissed BY DEF ListInv, Given, Owed, P!NoneTwice, P!NoneMissed
<1> QED BY <1>1, <1>2, <1>3, PTL DEF P!ListSpec
=============================================================================
