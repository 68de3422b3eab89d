----------------------------- MODULE ClientProofs -----------------------------
(***************************************************************************)
(* Proofs about the Android client: how it follows runs, for any runs,     *)
(* subscriptions, overlapping calls and logs; how it submits and decides,  *)
(* for any calls, keys, queries and memories.                              *)
(***************************************************************************)
EXTENDS RunFollowing, TLAPS, FiniteSetTheorems, SequenceTheorems, WellFoundedInduction

CONSTANTS Query, Refused, SubmitCall, SubmitKeys, SubmitLost, SubmitMoves, SubmitMaxMoves,
          Memory, DecideCall, DecideKeys, DecideLost, DecideMaxMoves

VARIABLES thread, threadOp, runOp, threads, runs, creating, drawn, submitted,
          fact, expired, receipt, items, op, verdict, told,
          stray, call, lost

Sub == INSTANCE ClientSubmission WITH
  Call <- SubmitCall, MaxKeys <- SubmitKeys, MaxLost <- SubmitLost, Moves <- SubmitMoves,
  MaxMoves <- SubmitMaxMoves
Dec == INSTANCE ClientDecisions WITH
  Call <- DecideCall, MaxKeys <- DecideKeys, MaxLost <- DecideLost, MaxMoves <- DecideMaxMoves

-----------------------------------------------------------------------------
(* Numbers in ascending order                                              *)

\* A finite set of numbers has a greatest and a least one: a smallest set without
\* would have one when it lacks any element.
LEMMA GreatestThere ==
  ASSUME NEW S \in SUBSET Nat, IsFiniteSet(S), S # {}
  PROVE  \E m \in S : \A x \in S : x <= m
<1> DEFINE D == {s \in SUBSET S : s # {} /\ ~ \E m \in s : \A x \in s : x <= m}
<1>1. SUFFICES ASSUME D # {} PROVE FALSE OBVIOUS
<1>2. IsWellFoundedOn(StrictSubsetOrdering(S), SUBSET S)
  BY FS_StrictSubsetOrderingWellFounded, FS_FiniteSubsetsOfFinite
<1>3. PICK s \in D : \A t \in D : ~ (<<t, s>> \in StrictSubsetOrdering(S))
  <2> D \subseteq SUBSET S OBVIOUS
  <2> HIDE DEF D
  <2> QED BY <1>1, <1>2, WFMin
<1>4. PICK y \in s : TRUE OBVIOUS
<1>5. <<s \ {y}, s>> \in StrictSubsetOrdering(S) BY <1>4 DEF StrictSubsetOrdering
<1>6. s \ {y} \in SUBSET S /\ s \ {y} \notin D BY <1>3, <1>5
<1>7. CASE s \ {y} = {}
  <2>1. \A x \in s : x <= y BY <1>7
  <2> QED BY <1>4, <2>1
<1>8. CASE s \ {y} # {}
  <2>1. PICK m \in s \ {y} : \A x \in s \ {y} : x <= m BY <1>6, <1>8
  <2>2. m \in Nat /\ y \in Nat OBVIOUS
  <2>3. CASE y <= m
    <3>1. \A x \in s : x <= m BY <2>1, <2>3
    <3> QED BY <3>1
  <2>4. CASE m <= y
    <3>1. \A x \in s : x <= y BY <2>1, <2>2, <2>4
    <3> QED BY <1>4, <3>1
  <2> QED BY <2>2, <2>3, <2>4
<1> QED BY <1>7, <1>8

LEMMA LeastThere ==
  ASSUME NEW S \in SUBSET Nat, IsFiniteSet(S), S # {}
  PROVE  \E m \in S : \A x \in S : m <= x
<1>1. PICK n \in S : \A x \in S : x <= n BY GreatestThere
<1> DEFINE T == {n - x : x \in S}
<1>2. T \in SUBSET Nat /\ \A y \in T : y <= n BY <1>1
<1>3. IsFiniteSet(T) BY <1>2, FS_BoundedSetOfNaturals
<1>4. T # {} OBVIOUS
<1> HIDE DEF T
<1>5. PICK g \in T : \A y \in T : y <= g BY <1>2, <1>3, <1>4, GreatestThere
<1>6. PICK m \in S : g = n - m BY DEF T
<1>7. ASSUME NEW x \in S PROVE m <= x
  <2>1. n - x \in T BY DEF T
  <2>2. n - x <= n - m BY <1>5, <1>6, <2>1
  <2>3. n \in Nat /\ m \in Nat /\ x \in Nat OBVIOUS
  <2> QED BY <2>2, <2>3
<1> QED BY <1>7

Ascends(s, S) ==
  s \in [1 .. Cardinality(S) -> S] /\ \A i, j \in DOMAIN s : i < j => s[i] < s[j]

LEMMA AscendsOnto ==
  ASSUME NEW S \in SUBSET Nat, IsFiniteSet(S), NEW s, Ascends(s, S)
  PROVE  \A x \in S : \E i \in DOMAIN s : s[i] = x
<1> DEFINE n == Cardinality(S)
<1>1. n \in Nat BY FS_CardinalityType
<1>2. s \in [1 .. n -> S] BY DEF Ascends
<1>3. \A i, j \in 1 .. n : s[i] = s[j] => i = j
  <2> SUFFICES ASSUME NEW i \in 1 .. n, NEW j \in 1 .. n, s[i] = s[j], i < j PROVE FALSE
    BY <1>1
  <2>1. s[i] < s[j] BY <1>2 DEF Ascends
  <2>2. s[i] \in Nat BY <1>2
  <2> QED BY <2>1, <2>2
<1>4. s \in Injection(1 .. n, S) BY <1>2, <1>3 DEF Injection, IsInjective
<1>5. Cardinality(1 .. n) = n BY <1>1, FS_Interval
<1>6. s \in Surjection(1 .. n, S) BY <1>4, <1>5, FS_Injection
<1> QED BY <1>2, <1>6 DEF Surjection

\* Two of them would differ first somewhere, and the smaller number there has no
\* other place in the other one.
LEMMA AscendsOnce ==
  ASSUME NEW S \in SUBSET Nat, IsFiniteSet(S), NEW s, NEW t, Ascends(s, S), Ascends(t, S)
  PROVE  s = t
<1> DEFINE n == Cardinality(S)  D == {i \in 1 .. n : s[i] # t[i]}
<1>1. n \in Nat BY FS_CardinalityType
<1>2. s \in [1 .. n -> S] /\ t \in [1 .. n -> S] BY DEF Ascends
<1>20. /\ DOMAIN s = 1 .. n /\ DOMAIN t = 1 .. n
       /\ \A i \in 1 .. n : s[i] \in S /\ t[i] \in S /\ s[i] \in Nat /\ t[i] \in Nat
       /\ s = [i \in 1 .. n |-> s[i]] /\ t = [i \in 1 .. n |-> t[i]]
       /\ \A i, j \in 1 .. n : i < j => s[i] < s[j] /\ t[i] < t[j]
  BY <1>2 DEF Ascends
<1>3. SUFFICES ASSUME D # {} PROVE FALSE
  <2>1. \A i \in 1 .. n : s[i] = t[i] OBVIOUS
  <2> HIDE DEF n
  <2> QED BY <1>20, <2>1
<1> HIDE DEF n
<1>4. D \in SUBSET Nat /\ IsFiniteSet(D)
  <2>1. D \in SUBSET (1 .. n) /\ IsFiniteSet(1 .. n) BY <1>1, FS_Interval
  <2> QED BY <1>1, <2>1, FS_Subset
<1>5. PICK i \in D : \A j \in D : i <= j BY <1>3, <1>4, LeastThere
<1>6. \A j \in 1 .. n : j < i => s[j] = t[j] BY <1>1, <1>5
<1>7. i \in 1 .. n /\ s[i] # t[i] /\ s[i] \in Nat /\ t[i] \in Nat /\ s[i] \in S /\ t[i] \in S
  BY <1>20, <1>5
<1>8. CASE s[i] < t[i]
  <2>0. \A x \in S : \E j \in DOMAIN t : t[j] = x BY AscendsOnto
  <2>1. PICK j \in 1 .. n : t[j] = s[i] BY <1>7, <1>20, <2>0
  <2>2. t[j] \in Nat /\ s[j] \in Nat /\ j \in Nat /\ i \in Nat BY <1>1, <1>7, <1>20, <2>1
  <2>3. ~(i <= j)
    <3>1. i < j => t[i] < t[j] BY <1>7, <1>20
    <3> QED BY <1>7, <1>8, <2>1, <2>2, <3>1
  <2>4. s[j] = s[i] BY <1>6, <2>1, <2>2, <2>3
  <2>5. s[j] < s[i] BY <1>7, <1>20, <2>1, <2>2, <2>3
  <2> QED BY <2>2, <2>4, <2>5
<1>9. CASE t[i] < s[i]
  <2>0. \A x \in S : \E j \in DOMAIN s : s[j] = x BY AscendsOnto
  <2>1. PICK j \in 1 .. n : s[j] = t[i] BY <1>7, <1>20, <2>0
  <2>2. t[j] \in Nat /\ s[j] \in Nat /\ j \in Nat /\ i \in Nat BY <1>1, <1>7, <1>20, <2>1
  <2>3. ~(i <= j)
    <3>1. i < j => s[i] < s[j] BY <1>7, <1>20
    <3> QED BY <1>7, <1>9, <2>1, <2>2, <3>1
  <2>4. t[j] = t[i] BY <1>6, <2>1, <2>2, <2>3
  <2>5. t[j] < t[i] BY <1>7, <1>20, <2>1, <2>2, <2>3
  <2> QED BY <2>2, <2>4, <2>5
<1> QED BY <1>7, <1>8, <1>9

\* One more number, above the others.
LEMMA AscendsBy ==
  ASSUME NEW S \in SUBSET Nat, IsFiniteSet(S), NEW s, Ascends(s, S), NEW m \in Nat,
         \A x \in S : x < m
  PROVE  /\ Ascends(Append(s, m), S \cup {m}) /\ s \in Seq(Nat)
<1> DEFINE n == Cardinality(S)
<1>1. n \in Nat BY FS_CardinalityType
<1>2. m \notin S OBVIOUS
<1>3. Cardinality(S \cup {m}) = n + 1 BY <1>2, FS_AddElement
<1>4. s \in [1 .. n -> S] BY DEF Ascends
<1> HIDE DEF n
<1>5. s \in [1 .. n -> Nat] BY <1>4
<1>6. s \in Seq(Nat) /\ Len(s) = n BY <1>1, <1>5
<1> DEFINE t == Append(s, m)
<1>7. /\ t \in Seq(Nat)
      /\ Len(t) = n + 1
      /\ t[n + 1] = m
      /\ DOMAIN t = 1 .. n + 1
      /\ t = [i \in 1 .. n + 1 |-> t[i]]
  <2>1. t \in Seq(Nat) BY <1>6
  <2>2. Len(t) = n + 1 BY <1>6
  <2>3. t[n + 1] = m BY <1>6
  <2> HIDE DEF t
  <2>4. t = [i \in 1 .. Len(t) |-> t[i]] /\ DOMAIN t = 1 .. Len(t) BY <2>1
  <2> QED BY <2>1, <2>2, <2>3, <2>4
<1>70. \A i \in 1 .. n : t[i] = s[i] BY <1>1, <1>6
<1> HIDE DEF t
<1>8. \A i \in 1 .. n + 1 : i \in 1 .. n \/ i = n + 1 BY <1>1
<1>9. t \in [1 .. n + 1 -> S \cup {m}]
  <2>1. \A i \in 1 .. n + 1 : t[i] \in S \cup {m} BY <1>4, <1>7, <1>70, <1>8
  <2> QED BY <1>7, <2>1
<1>10. ASSUME NEW i \in 1 .. n + 1, NEW j \in 1 .. n + 1, i < j
       PROVE t[i] < t[j]
  <2>1. i \in 1 .. n BY <1>1, <1>10
  <2>2. CASE j = n + 1 BY <1>4, <1>7, <1>70, <2>1, <2>2
  <2>3. CASE j \in 1 .. n
    <3>1. DOMAIN s = 1 .. n BY <1>4
    <3>2. s[i] < s[j] BY <1>10, <2>1, <2>3, <3>1 DEF Ascends
    <3> QED BY <1>70, <2>1, <2>3, <3>2
  <2> QED BY <1>8, <2>2, <2>3
<1>11. Ascends(t, S \cup {m})
  <2>1. t \in [1 .. Cardinality(S \cup {m}) -> S \cup {m}] BY <1>3, <1>9 DEF n
  <2> QED BY <1>7, <1>10, <2>1 DEF Ascends
<1> QED BY <1>6, <1>11 DEF t

LEMMA AscendsThere ==
  ASSUME NEW S \in SUBSET Nat, IsFiniteSet(S)
  PROVE  \E s : Ascends(s, S)
<1> DEFINE D == {s \in SUBSET S : ~ \E t : Ascends(t, s)}
<1>1. SUFFICES ASSUME D # {} PROVE FALSE OBVIOUS
<1>2. IsWellFoundedOn(StrictSubsetOrdering(S), SUBSET S)
  BY FS_StrictSubsetOrderingWellFounded, FS_FiniteSubsetsOfFinite
<1>3. PICK s \in D : \A t \in D : ~ (<<t, s>> \in StrictSubsetOrdering(S))
  <2> D \subseteq SUBSET S OBVIOUS
  <2> HIDE DEF D
  <2> QED BY <1>1, <1>2, WFMin
<1>4. IsFiniteSet(s) /\ s \in SUBSET Nat BY FS_Subset
<1>5. s # {}
  <2>1. Ascends(<<>>, {}) BY FS_EmptySet DEF Ascends
  <2> QED BY <2>1
<1>6. PICK m \in s : \A x \in s : x <= m BY <1>4, <1>5, GreatestThere
<1>7. <<s \ {m}, s>> \in StrictSubsetOrdering(S) BY <1>6 DEF StrictSubsetOrdering
<1>8. s \ {m} \in SUBSET S /\ s \ {m} \notin D BY <1>3, <1>7
<1>9. PICK t : Ascends(t, s \ {m}) BY <1>8
<1>10. IsFiniteSet(s \ {m}) /\ s \ {m} \in SUBSET Nat /\ m \in Nat
  BY <1>4, FS_RemoveElement
<1>11. \A x \in s \ {m} : x < m BY <1>6, <1>10
<1>12. Ascends(Append(t, m), (s \ {m}) \cup {m}) BY <1>9, <1>10, <1>11, AscendsBy
<1>13. (s \ {m}) \cup {m} = s OBVIOUS
<1> QED BY <1>12, <1>13

LEMMA AscendingIs ==
  ASSUME NEW S \in SUBSET Nat, IsFiniteSet(S)
  PROVE  Ascends(Ascending(S), S)
<1>1. \E s \in [1 .. Cardinality(S) -> S] : \A i, j \in DOMAIN s : i < j => s[i] < s[j]
  BY AscendsThere DEF Ascends
<1> QED BY <1>1, Zenon DEF Ascending, Ascends

LEMMA AscendingGrows ==
  ASSUME NEW S \in SUBSET Nat, IsFiniteSet(S), NEW m \in Nat, \A x \in S : x < m
  PROVE  Ascending(S \cup {m}) = Append(Ascending(S), m) /\ Ascending(S) \in Seq(Nat)
<1>1. Ascends(Append(Ascending(S), m), S \cup {m}) /\ Ascending(S) \in Seq(Nat)
  BY AscendingIs, AscendsBy
<1>2. S \cup {m} \in SUBSET Nat /\ IsFiniteSet(S \cup {m}) BY FS_AddElement
<1>3. Ascends(Ascending(S \cup {m}), S \cup {m}) BY <1>2, AscendingIs
<1> QED BY <1>1, <1>2, <1>3, AscendsOnce

LEMMA AscendingEmpty == Ascending({}) = <<>>
<1>1. Ascends(Ascending({}), {}) BY AscendingIs, FS_EmptySet
<1>2. Ascends(<<>>, {}) BY FS_EmptySet DEF Ascends
<1> QED BY <1>1, <1>2, AscendsOnce, FS_EmptySet

-----------------------------------------------------------------------------
(* Logs and their public events                                            *)

Prefix(s, t) == Len(s) <= Len(t) /\ \A i \in DOMAIN s : t[i] = s[i]
Ordered(s) == \A i \in DOMAIN s : s[i] = "done" => i = Len(s)

LEMMA PublicIs ==
  ASSUME NEW s \in Seq(Kinds)
  PROVE  /\ Public(s) \in SUBSET Nat /\ IsFiniteSet(Public(s))
         /\ \A i \in Public(s) : i \in 1 .. Len(s)
         /\ \A i \in 1 .. Len(s) : s[i] # "audit" => i \in Public(s)
<1>1. DOMAIN s = 1 .. Len(s) /\ Len(s) \in Nat OBVIOUS
<1>2. /\ Public(s) \in SUBSET Nat
      /\ \A i \in Public(s) : i \in 1 .. Len(s)
      /\ \A i \in 1 .. Len(s) : s[i] # "audit" => i \in Public(s)
  BY <1>1 DEF Public
<1>3. \A i \in Public(s) : i <= Len(s) BY <1>1, <1>2
<1>4. IsFiniteSet(Public(s)) BY <1>1, <1>2, <1>3, FS_BoundedSetOfNaturals
<1> QED BY <1>2, <1>4

LEMMA LastPublicIs ==
  ASSUME NEW s \in Seq(Kinds)
  PROVE  /\ LastPublic(s) \in {0} \cup Public(s) /\ LastPublic(s) \in Nat
         /\ \A i \in Public(s) : i <= LastPublic(s)
<1> DEFINE S == {0} \cup Public(s)
<1>1. S \in SUBSET Nat /\ S # {} BY PublicIs
<1>2. IsFiniteSet(S)
  <2>1. IsFiniteSet(Public(s) \cup {0}) BY PublicIs, FS_AddElement
  <2>2. S = Public(s) \cup {0} OBVIOUS
  <2> QED BY <2>1, <2>2
<1> HIDE DEF S
<1>3. \E m \in S : \A x \in S : x <= m BY <1>1, <1>2, GreatestThere
<1>4. \E m \in S : \A x \in S : m >= x BY <1>1, <1>3
<1>5. Max(S) \in S /\ \A x \in S : Max(S) >= x BY <1>4, Zenon DEF Max
<1>6. LastPublic(s) = Max(S) BY DEF LastPublic, S
<1>7. \A x \in S : x <= Max(S) BY <1>1, <1>5
<1> QED BY <1>1, <1>5, <1>6, <1>7 DEF S

LEMMA StatusIs ==
  ASSUME NEW s \in Seq(Kinds)
  PROVE  /\ Status(s) \in {"live", "ended"}
         /\ Status(s) = "ended" <=> \E i \in DOMAIN s : s[i] = "done"
BY DEF Status, Range

LEMMA EndIs ==
  ASSUME NEW s \in Seq(Kinds), Ordered(s), Status(s) = "ended"
  PROVE  /\ Len(s) \in DOMAIN s /\ s[Len(s)] = "done" /\ Len(s) \in Public(s)
         /\ LastPublic(s) = Len(s)
<1>1. PICK i \in DOMAIN s : s[i] = "done" BY StatusIs
<1>2. i = Len(s) BY <1>1 DEF Ordered
<1>3. Len(s) \in Public(s) BY <1>1, <1>2 DEF Public
<1>4. Len(s) <= LastPublic(s) /\ LastPublic(s) \in {0} \cup Public(s) BY <1>3, LastPublicIs
<1>5. Len(s) \in Nat /\ \A j \in Public(s) : j \in 1 .. Len(s) BY PublicIs
<1>6. LastPublic(s) = Len(s) BY <1>3, <1>4, <1>5
<1> QED BY <1>1, <1>2, <1>3, <1>6

LEMMA PrefixKeeps ==
  ASSUME NEW s \in Seq(Kinds), NEW t \in Seq(Kinds), Prefix(s, t)
  PROVE  /\ Public(s) \subseteq Public(t)
         /\ \A i \in Public(t) : i <= Len(s) => i \in Public(s)
         /\ \A i \in Public(s) : t[i] = s[i]
         /\ Status(s) = "ended" => Status(t) = "ended"
         /\ Ordered(t) /\ Status(s) = "ended" => t = s
<1>1. /\ DOMAIN s = 1 .. Len(s) /\ DOMAIN t = 1 .. Len(t) /\ Len(s) \in Nat /\ Len(t) \in Nat
      /\ DOMAIN s \subseteq DOMAIN t /\ (\A i \in DOMAIN s : t[i] = s[i]) /\ Len(s) <= Len(t)
  BY DEF Prefix
<1>2. /\ Public(s) \subseteq Public(t)
      /\ \A i \in Public(t) : i <= Len(s) => i \in Public(s)
      /\ \A i \in Public(s) : t[i] = s[i]
  BY <1>1 DEF Public
<1>3. Status(s) = "ended" => Status(t) = "ended" BY <1>1, StatusIs
<1>4. ASSUME Ordered(t), Status(s) = "ended" PROVE t = s
  <2>1. PICK i \in DOMAIN s : s[i] = "done" BY <1>4, StatusIs
  <2>2. t[i] = "done" /\ i \in DOMAIN t BY <1>1, <2>1
  <2>3. i = Len(t) BY <1>4, <2>2 DEF Ordered
  <2>4. Len(s) = Len(t)
    <3>1. i \in 1 .. Len(s) BY <1>1, <2>1
    <3> DEFINE m == Len(s)  n == Len(t)
    <3>2. m \in Nat /\ n \in Nat /\ m <= n /\ i \in 1 .. m /\ i = n BY <1>1, <2>3, <3>1
    <3> HIDE DEF m, n
    <3>3. m = n BY <3>2
    <3> QED BY <3>3 DEF m, n
  <2>5. /\ s = [j \in 1 .. Len(s) |-> s[j]]
        /\ t = [j \in 1 .. Len(t) |-> t[j]]
    OBVIOUS
  <2> QED BY <1>1, <2>4, <2>5
<1> QED BY <1>2, <1>3, <1>4

LEMMA PrefixOfItself ==
  ASSUME NEW s \in Seq(Kinds) PROVE Prefix(s, s) BY DEF Prefix

LEMMA PrefixOfPrefix ==
  ASSUME NEW s \in Seq(Kinds), NEW t \in Seq(Kinds), NEW u \in Seq(Kinds),
         Prefix(s, t), Prefix(t, u)
  PROVE  Prefix(s, u)
<1>1. DOMAIN s = 1 .. Len(s) /\ DOMAIN t = 1 .. Len(t) OBVIOUS
<1>2. \A i \in DOMAIN s : i \in DOMAIN t BY <1>1 DEF Prefix
<1> QED BY <1>2 DEF Prefix

\* What the service adds to a live log.
LEMMA LogGrows ==
  ASSUME NEW s \in Seq(Kinds), Ordered(s), Status(s) = "live"
  PROVE  /\ \A k \in {"step", "audit"} :
              Append(s, k) \in Seq(Kinds) /\ Ordered(Append(s, k)) /\ Prefix(s, Append(s, k))
         /\ s \o <<"final", "done">> \in Seq(Kinds)
         /\ Ordered(s \o <<"final", "done">>)
         /\ Prefix(s, s \o <<"final", "done">>)
<1>1. \A i \in 1 .. Len(s) : s[i] # "done" BY StatusIs
<1>2. ASSUME NEW k \in {"step", "audit"}
      PROVE  Append(s, k) \in Seq(Kinds) /\ Ordered(Append(s, k)) /\ Prefix(s, Append(s, k))
  <2> DEFINE t == Append(s, k)
  <2>1. k \in Kinds /\ k # "done" BY DEF Kinds
  <2>2. t \in Seq(Kinds) /\ Len(t) = Len(s) + 1 BY <2>1
  <2>3. \A i \in 1 .. Len(s) : t[i] = s[i] OBVIOUS
  <2>4. t[Len(s) + 1] = k OBVIOUS
  <2> HIDE DEF t
  <2>5. DOMAIN t = 1 .. Len(s) + 1 /\ DOMAIN s = 1 .. Len(s) /\ Len(s) \in Nat BY <2>2
  <2>6. Ordered(t)
    <3> SUFFICES ASSUME NEW i \in DOMAIN t, t[i] = "done" PROVE FALSE BY DEF Ordered
    <3>1. i \in 1 .. Len(s) \/ i = Len(s) + 1 BY <2>5
    <3> QED BY <1>1, <2>1, <2>3, <2>4, <3>1
  <2>7. Prefix(s, t) BY <2>2, <2>3, <2>5 DEF Prefix
  <2> QED BY <2>2, <2>6, <2>7 DEF t
<1>3. s \o <<"final", "done">> \in Seq(Kinds) /\ Ordered(s \o <<"final", "done">>)
      /\ Prefix(s, s \o <<"final", "done">>)
  <2> DEFINE e == <<"final", "done">>  t == s \o e
  <2>1. e \in Seq(Kinds) /\ Len(e) = 2 /\ e[1] = "final" /\ e[2] = "done" BY DEF Kinds
  <2> HIDE DEF e
  <2>2. t \in Seq(Kinds) /\ Len(t) = Len(s) + 2
    <3>1. t \in Seq(Kinds) /\ Len(t) = Len(s) + Len(e) BY <2>1, ConcatProperties
    <3> QED BY <2>1, <3>1
  <2>20. \A i \in 1 .. Len(s) + Len(e) : t[i] = IF i <= Len(s) THEN s[i] ELSE e[i - Len(s)]
    BY <2>1, ConcatProperties
  <2> HIDE DEF t
  <2>5. DOMAIN t = 1 .. Len(s) + 2 /\ DOMAIN s = 1 .. Len(s) /\ Len(s) \in Nat BY <2>2
  <2>3. \A i \in 1 .. Len(s) : t[i] = s[i] BY <2>1, <2>5, <2>20
  <2>4. t[Len(s) + 1] = "final"
    <3>1. Len(s) + 1 \in 1 .. Len(s) + Len(e) /\ ~ Len(s) + 1 <= Len(s) /\ Len(s) + 1 - Len(s) = 1
      BY <2>1, <2>5
    <3> QED BY <2>1, <2>20, <3>1
  <2>6. Ordered(t)
    <3> SUFFICES ASSUME NEW i \in DOMAIN t, t[i] = "done" PROVE i = Len(t) BY DEF Ordered
    <3>1. i \in 1 .. Len(s) \/ i = Len(s) + 1 \/ i = Len(s) + 2 BY <2>5
    <3> QED BY <1>1, <2>2, <2>3, <2>4, <3>1
  <2>7. Prefix(s, t) BY <2>2, <2>3, <2>5 DEF Prefix
  <2> QED BY <2>2, <2>6, <2>7 DEF t, e
<1> QED BY <1>2, <1>3

\* A page of events: the first ones after the cursor, with none left out between.
LEMMA PageIs ==
  ASSUME FollowingAssumption, NEW s \in Seq(Kinds), NEW c \in Nat
  PROVE  /\ PageAfter(s, c) \in Seq([id : Nat, kind : Kinds])
         /\ \A n \in DOMAIN PageAfter(s, c) :
              LET e == PageAfter(s, c)[n]
              IN e.id \in Public(s) /\ e.id > c /\ e.kind = s[e.id]
         /\ \A n \in DOMAIN PageAfter(s, c) : \A i \in Public(s) :
              c < i /\ i < PageAfter(s, c)[n].id =>
                \E m \in DOMAIN PageAfter(s, c) : m < n /\ PageAfter(s, c)[m].id = i
         /\ PageAfter(s, c) = <<>> => \A i \in Public(s) : i <= c
<1> DEFINE S == {i \in Public(s) : i > c}
           ids == Ascending(S)
           size == IF Len(ids) < Page THEN Len(ids) ELSE Page
           page == SubSeq(ids, 1, size)
           p == [n \in DOMAIN page |-> [id |-> page[n], kind |-> s[page[n]]]]
<1>1. S \in SUBSET Nat /\ IsFiniteSet(S)
  <2>1. S \subseteq Public(s) OBVIOUS
  <2> QED BY <2>1, PublicIs, FS_Subset
<1>2. Ascends(ids, S) BY <1>1, AscendingIs
<1>3. PICK z \in Nat : z = Cardinality(S) BY <1>1, FS_CardinalityType
<1>4. ids \in [1 .. z -> S] /\ \A i, j \in DOMAIN ids : i < j => ids[i] < ids[j]
  BY <1>2, <1>3 DEF Ascends
<1>5. S \subseteq Public(s) /\ (\A i \in S : i > c) /\ (\A i \in Public(s) : i > c => i \in S)
  OBVIOUS
<1>6. PageAfter(s, c) = p BY DEF PageAfter
<1> HIDE DEF S, ids
<1>20. \A x \in S : \E i \in DOMAIN ids : ids[i] = x BY <1>1, <1>2, AscendsOnto
<1>7. ids \in Seq(S) /\ Len(ids) = z BY <1>3, <1>4
<1>8. size \in Nat /\ size <= z BY <1>3, <1>7 DEF FollowingAssumption
<1> HIDE DEF size
<1>9. /\ DOMAIN page = 1 .. size
      /\ \A n \in 1 .. size : page[n] = ids[n]
  BY <1>3, <1>7, <1>8
<1> HIDE DEF page
<1>10. \A n \in 1 .. size : n \in 1 .. z BY <1>3, <1>8
<1>11. /\ DOMAIN p = 1 .. size
       /\ \A n \in 1 .. size : p[n].id = ids[n] /\ p[n].kind = s[ids[n]]
       /\ \A n \in 1 .. size : p[n] = [id |-> ids[n], kind |-> s[ids[n]]]
  BY <1>9
<1>12. \A n \in 1 .. size : ids[n] \in S /\ ids[n] \in Nat /\ s[ids[n]] \in Kinds
  <2>1. \A i \in Public(s) : s[i] \in Kinds BY DEF Public
  <2> QED BY <1>1, <1>4, <1>5, <1>10, <2>1
<1> DEFINE E == [id : Nat, kind : Kinds]
<1>13. p \in Seq(E)
  <2>1. \A n \in 1 .. size : p[n] \in [id : Nat, kind : Kinds] BY <1>11, <1>12
  <2>2. p = [n \in 1 .. size |-> p[n]] BY <1>9
  <2> HIDE DEF p
  <2>3. p \in [1 .. size -> E] BY <2>1, <2>2
  <2> HIDE DEF E
  <2> QED BY <1>8, <2>3
<1> HIDE DEF p
<1>14. \A n \in DOMAIN p : p[n].id \in Public(s) /\ p[n].id > c /\ p[n].kind = s[p[n].id]
  BY <1>5, <1>11, <1>12
<1>15. ASSUME NEW n \in DOMAIN p, NEW i \in Public(s), c < i, i < p[n].id
       PROVE  \E m \in DOMAIN p : m < n /\ p[m].id = i
  <2>1. i \in S /\ i \in Nat BY <1>1, <1>5, <1>15
  <2>2. PICK m \in 1 .. z : ids[m] = i BY <1>4, <1>20, <2>1
  <2>3. n \in 1 .. size /\ n \in 1 .. z /\ ids[n] \in Nat BY <1>10, <1>11, <1>12
  <2>4. i < ids[n] BY <1>11, <1>15, <2>3
  <2>5. n < m => ids[n] < ids[m] BY <1>4, <2>2, <2>3
  <2>6. m < n BY <1>3, <2>1, <2>2, <2>3, <2>4, <2>5
  <2>7. m \in 1 .. size BY <1>3, <1>8, <2>2, <2>3, <2>6
  <2> QED BY <1>11, <2>2, <2>6, <2>7
<1>16. ASSUME p = <<>> PROVE \A i \in Public(s) : i <= c
  <2>1. DOMAIN p = {} BY <1>16
  <2>2. size = 0 BY <1>8, <1>11, <2>1
  <2>3. z = 0 BY <1>3, <1>7, <2>2 DEF size, FollowingAssumption
  <2>4. S = {} BY <1>1, <1>3, <2>3, FS_EmptySet
  <2> QED BY <1>5, <2>4, PublicIs
<1> QED BY <1>6, <1>13, <1>14, <1>15, <1>16

-----------------------------------------------------------------------------
(* What a subscription knows of its run                                    *)

Sent == [id : Nat, kind : Kinds]

Ids(wi) == {wi[n].id : n \in DOMAIN wi}

\* A read of run r: of an earlier log of it.
RestFits(q, r, l) ==
  q # None => /\ q.run = r
              /\ q.stage # "asked" => Prefix(q.row, l)
              /\ q.stage = "answered" => q.last = LastPublic(q.row)

\* Events on their way to a reader that has the first k: public ones, none left out.
Wired(wi, l, k) ==
  /\ \A n \in DOMAIN wi : wi[n].id \in Public(l) /\ wi[n].kind = l[wi[n].id]
  /\ \A n \in DOMAIN wi : \A i \in Public(l) :
       i < wi[n].id => i <= k \/ \E m \in DOMAIN wi : m < n /\ wi[m].id = i

\* The service's side of the response: what it has passed is read or on its way.
Streamed(st, wi, l, k) ==
  /\ st.after \in {0} \cup Public(l)
  /\ \A n \in DOMAIN wi : wi[n].kind # "done"
  /\ \A i \in Public(l) : i <= st.after => i <= k \/ i \in Ids(wi)

\* The service has closed the response: the end is read or on its way.
Closed(wi, l, k) == Status(l) = "ended" /\ (Len(l) = k \/ Len(l) \in Ids(wi))

\* A subscription w of a run with log l, of which the client has the first k.
Fit(w, st, wi, l, k) ==
  /\ w.stage # "resetting"
  /\ RestFits(w.rest, w.run, l)
  /\ w.stage = "opening" => w.cursor \in {0} \cup Public(l) /\ w.cursor <= k
  /\ w.stage = "reading" => Wired(wi, l, k) /\ (st = None => Closed(wi, l, k))
  /\ st # None => w.stage = "reading" /\ st.run = w.run /\ Streamed(st, wi, l, k)

\* What the client keeps of a run with log l.
CacheFits(c, l) ==
  c # None => /\ c.cursor \in {0} \cup Public(l)
              /\ c.applied = Ascending({i \in Public(l) : i <= c.cursor})
              /\ c.status = "ended" => Status(l) = "ended"

LEMMA Untyped ==
  ASSUME FollowingAssumption
  PROVE  /\ None \notin Run /\ None \notin Follower /\ None \notin Record /\ None \notin Read
         /\ None \notin Response /\ None \notin Subscription /\ None \notin Operation
BY DEF FollowingAssumption

LEMMA RestStays ==
  ASSUME FollowingAssumption, NEW q \in {None} \cup Read, NEW r,
         NEW l \in Seq(Kinds), NEW l2 \in Seq(Kinds), Prefix(l, l2), RestFits(q, r, l)
  PROVE  RestFits(q, r, l2)
<1> SUFFICES ASSUME q # None PROVE RestFits(q, r, l2) BY DEF RestFits
<1>1. q.row \in Seq(Kinds) BY DEF Read
<1>2. q.stage # "asked" => Prefix(q.row, l2) BY <1>1, PrefixOfPrefix DEF RestFits
<1> QED BY <1>2 DEF RestFits

LEMMA CacheStays ==
  ASSUME FollowingAssumption, NEW c \in {None} \cup Record,
         NEW l \in Seq(Kinds), NEW l2 \in Seq(Kinds), Prefix(l, l2), CacheFits(c, l)
  PROVE  CacheFits(c, l2)
<1> SUFFICES ASSUME c # None PROVE CacheFits(c, l2) BY DEF CacheFits
<1>1. c.cursor \in Nat BY DEF Record
<1>2. /\ Public(l) \subseteq Public(l2) /\ Public(l2) \in SUBSET Nat
      /\ \A i \in Public(l2) : i <= Len(l) => i \in Public(l)
      /\ Status(l) = "ended" => Status(l2) = "ended"
  BY PrefixKeeps, PublicIs
<1>3. c.cursor \in {0} \cup Public(l) /\ Len(l) \in Nat BY DEF CacheFits
<1>4. c.cursor <= Len(l) BY <1>1, <1>3, PublicIs
<1>5. {i \in Public(l2) : i <= c.cursor} = {i \in Public(l) : i <= c.cursor}
  BY <1>1, <1>2, <1>3, <1>4
<1> QED BY <1>2, <1>3, <1>5 DEF CacheFits

LEMMA FitStays ==
  ASSUME FollowingAssumption,
         NEW w \in Subscription, NEW st \in {None} \cup Response, NEW wi \in Seq(Sent),
         NEW l \in Seq(Kinds), NEW l2 \in Seq(Kinds), Prefix(l, l2), Ordered(l2),
         NEW k \in Nat, NEW k2 \in Nat, k <= k2, k2 \in {0} \cup Public(l2),
         Fit(w, st, wi, l, k)
  PROVE  Fit(w, st, wi, l2, k2)
<1>1. /\ Public(l) \subseteq Public(l2) /\ Public(l2) \in SUBSET Nat
      /\ \A i \in Public(l2) : i <= Len(l) => i \in Public(l)
      /\ \A i \in Public(l) : l2[i] = l[i]
      /\ \A i \in Public(l) : i <= Len(l)
      /\ Status(l) = "ended" => l2 = l
      /\ Len(l) \in Nat
  BY PrefixKeeps, PublicIs
<1>2. RestFits(w.rest, w.run, l2)
  <2>1. w.rest \in {None} \cup Read BY DEF Subscription
  <2> QED BY <2>1, RestStays DEF Fit
<1>3. w.stage = "opening" => w.cursor \in {0} \cup Public(l2) /\ w.cursor <= k2
  <2>1. w.cursor \in Nat BY DEF Subscription
  <2> QED BY <1>1, <2>1 DEF Fit
<1>4. Wired(wi, l, k) => Wired(wi, l2, k2)
  <2> SUFFICES ASSUME Wired(wi, l, k) PROVE Wired(wi, l2, k2) OBVIOUS
  <2>1. \A n \in DOMAIN wi : wi[n].id \in Public(l2) /\ wi[n].kind = l2[wi[n].id]
    BY <1>1 DEF Wired
  <2>2. ASSUME NEW n \in DOMAIN wi, NEW i \in Public(l2), i < wi[n].id
        PROVE  i <= k2 \/ \E m \in DOMAIN wi : m < n /\ wi[m].id = i
    <3>1. wi[n].id \in Public(l) /\ i \in Nat BY <1>1 DEF Wired
    <3>2. wi[n].id <= Len(l) /\ wi[n].id \in Nat BY <1>1, <3>1
    <3>3. i \in Public(l) BY <1>1, <2>2, <3>1, <3>2
    <3>4. i <= k \/ \E m \in DOMAIN wi : m < n /\ wi[m].id = i BY <2>2, <3>3 DEF Wired
    <3>5. i <= k => i <= k2 BY <3>1
    <3> QED BY <3>4, <3>5
  <2> QED BY <2>1, <2>2 DEF Wired
<1>5. Closed(wi, l, k) => Closed(wi, l2, k2)
  <2> SUFFICES ASSUME Closed(wi, l, k) PROVE Closed(wi, l2, k2) OBVIOUS
  <2>1. l2 = l /\ Status(l2) = "ended" BY <1>1 DEF Closed
  <2>2. Len(l) = k => Len(l2) = k2
    <3>1. k2 <= Len(l) BY <1>1, <2>1
    <3> QED BY <1>1, <2>1, <3>1
  <2> QED BY <2>1, <2>2 DEF Closed
<1>6. ASSUME st # None, Streamed(st, wi, l, k) PROVE Streamed(st, wi, l2, k2)
  <2>1. st.after \in Nat BY <1>6 DEF Response
  <2>2. st.after \in {0} \cup Public(l2) /\ st.after <= Len(l) BY <1>1, <1>6, <2>1 DEF Streamed
  <2>3. ASSUME NEW i \in Public(l2), i <= st.after PROVE i <= k2 \/ i \in Ids(wi)
    <3>1. i \in Nat /\ i \in Public(l) BY <1>1, <2>1, <2>2, <2>3
    <3>2. i <= k \/ i \in Ids(wi) BY <1>6, <2>3, <3>1 DEF Streamed
    <3>3. i <= k => i <= k2 BY <3>1
    <3> QED BY <3>2, <3>3
  <2> QED BY <1>6, <2>2, <2>3 DEF Streamed
<1> QED BY <1>2, <1>3, <1>4, <1>5, <1>6 DEF Fit

\* An event is applied that has everything before it applied or passed over.
LEMMA AppliedFits ==
  ASSUME FollowingAssumption, NEW c \in Record, NEW l \in Seq(Kinds), CacheFits(c, l),
         NEW e \in Sent, e.id \in Public(l), e.kind = l[e.id],
         \A i \in Public(l) : i < e.id => i <= c.cursor
  PROVE  /\ Applied(c, e) \in Record /\ CacheFits(Applied(c, e), l)
         /\ Applied(c, e).cursor >= c.cursor /\ Applied(c, e).cursor >= e.id
<1>1. /\ e.id \in Nat /\ c.cursor \in Nat /\ c.applied \in Seq(Nat) /\ c.status \in {"live", "ended"}
      /\ c # None
  BY Untyped DEF Sent, Record
<1>2. CASE e.id <= c.cursor
  <2>1. Applied(c, e) = c BY <1>2 DEF Applied
  <2> QED BY <1>1, <1>2, <2>1
<1>3. CASE ~(e.id <= c.cursor)
  <2> DEFINE status == IF e.kind = "done" THEN "ended" ELSE c.status
             applied == Append(c.applied, e.id)
             d == [status |-> status, cursor |-> e.id, applied |-> applied]
             S == {i \in Public(l) : i <= c.cursor}
  <2>1. Applied(c, e) = d BY <1>3 DEF Applied
  <2>2. status \in {"live", "ended"} /\ applied \in Seq(Nat) BY <1>1
  <2>3. status = "ended" => Status(l) = "ended"
    <3>1. e.id \in DOMAIN l BY DEF Public
    <3>2. e.kind = "done" => Status(l) = "ended" BY <3>1, StatusIs
    <3> QED BY <1>1, <3>2 DEF CacheFits
  <2>4. applied = Ascending({i \in Public(l) : i <= e.id})
    <3>1. S \in SUBSET Nat /\ IsFiniteSet(S)
      <4>1. S \subseteq Public(l) OBVIOUS
      <4> QED BY <4>1, PublicIs, FS_Subset
    <3>2. \A x \in S : x < e.id BY <1>1, <1>3, <3>1
    <3>3. {i \in Public(l) : i <= e.id} = S \cup {e.id}
      <4>1. \A i \in Public(l) : i \in Nat BY PublicIs
      <4> QED BY <1>1, <1>3, <4>1
    <3>4. c.applied = Ascending(S) BY <1>1 DEF CacheFits
    <3> HIDE DEF S
    <3>5. Ascending(S \cup {e.id}) = Append(Ascending(S), e.id) BY <1>1, <3>1, <3>2, AscendingGrows
    <3> QED BY <3>3, <3>4, <3>5
  <2> HIDE DEF status, applied
  <2>5. d \in Record /\ d.cursor = e.id /\ d.status = status /\ d.applied = applied
    BY <1>1, <2>2 DEF Record
  <2> HIDE DEF d
  <2>6. CacheFits(d, l) BY <2>3, <2>4, <2>5 DEF CacheFits
  <2> QED BY <1>1, <1>3, <2>1, <2>5, <2>6
<1> QED BY <1>2, <1>3

\* The first event on the wire is read, and the client has it then.
LEMMA ReadFits ==
  ASSUME FollowingAssumption, NEW wi \in Seq(Sent), wi # <<>>, NEW l \in Seq(Kinds),
         NEW k \in Nat, NEW k2 \in Nat, k <= k2, Head(wi).id <= k2, k2 \in {0} \cup Public(l),
         Ordered(l), Wired(wi, l, k)
  PROVE  /\ Head(wi) \in Sent /\ Head(wi).id \in Public(l) /\ Head(wi).kind = l[Head(wi).id]
         /\ Tail(wi) \in Seq(Sent) /\ Wired(Tail(wi), l, k2)
         /\ \A st \in Response : Streamed(st, wi, l, k) => Streamed(st, Tail(wi), l, k2)
         /\ Closed(wi, l, k) => Closed(Tail(wi), l, k2)
<1> DEFINE t == Tail(wi)
<1>1. /\ t \in Seq(Sent) /\ Len(wi) \in Nat /\ Len(wi) # 0 /\ Len(t) = Len(wi) - 1
      /\ DOMAIN wi = 1 .. Len(wi)
  BY EmptySeq
<1>2. \A n \in 1 .. Len(t) : t[n] = wi[n + 1] BY <1>1
<1>3. Head(wi) = wi[1] /\ 1 \in DOMAIN wi BY <1>1
<1> HIDE DEF t
<1>4. DOMAIN t = 1 .. Len(t) BY <1>1
<1>5. \A n \in DOMAIN t : n + 1 \in DOMAIN wi /\ t[n] = wi[n + 1] /\ n \in Nat BY <1>1, <1>2, <1>4
<1>6. \A m \in DOMAIN wi : m # 1 => m - 1 \in DOMAIN t /\ t[m - 1] = wi[m] /\ m \in Nat
  <2> SUFFICES ASSUME NEW m \in DOMAIN wi, m # 1
               PROVE  m - 1 \in DOMAIN t /\ t[m - 1] = wi[m] /\ m \in Nat
    OBVIOUS
  <2>1. m - 1 \in 1 .. Len(t) /\ m \in Nat /\ (m - 1) + 1 = m BY <1>1
  <2> QED BY <1>2, <1>4, <2>1
<1>7. /\ Public(l) \in SUBSET Nat
      /\ \A n \in DOMAIN wi : wi[n].id \in Public(l) /\ wi[n].id \in Nat
  BY PublicIs DEF Wired
<1>8. wi[1].id <= k2 BY <1>3
<1>9. Wired(t, l, k2)
  <2>1. \A n \in DOMAIN t : t[n].id \in Public(l) /\ t[n].kind = l[t[n].id] BY <1>5 DEF Wired
  <2>2. ASSUME NEW n \in DOMAIN t, NEW i \in Public(l), i < t[n].id
        PROVE  i <= k2 \/ \E m \in DOMAIN t : m < n /\ t[m].id = i
    <3>1. i <= k \/ \E m \in DOMAIN wi : m < n + 1 /\ wi[m].id = i
      BY <1>5, <2>2 DEF Wired
    <3>2. i \in Nat /\ n \in Nat BY <1>5, <1>7
    <3>3. i <= k => i <= k2 BY <3>2
    <3>4. ASSUME NEW m \in DOMAIN wi, m < n + 1, wi[m].id = i
          PROVE  i <= k2 \/ \E j \in DOMAIN t : j < n /\ t[j].id = i
      <4>1. CASE m = 1 BY <1>8, <3>4, <4>1
      <4>2. CASE m # 1
        <5>1. m - 1 \in DOMAIN t /\ t[m - 1].id = i /\ m \in Nat BY <1>6, <3>4, <4>2
        <5>2. m - 1 < n BY <3>2, <3>4, <5>1
        <5> QED BY <5>1, <5>2
      <4> QED BY <4>1, <4>2
    <3> QED BY <3>1, <3>3, <3>4
  <2> QED BY <2>1, <2>2 DEF Wired
<1>10. \A i \in Ids(wi) : i \in Ids(t) \/ i <= k2
  <2> SUFFICES ASSUME NEW m \in DOMAIN wi PROVE wi[m].id \in Ids(t) \/ wi[m].id <= k2 BY DEF Ids
  <2>1. CASE m = 1 BY <1>8, <2>1
  <2>2. CASE m # 1 BY <1>6, <2>2 DEF Ids
  <2> QED BY <2>1, <2>2
<1>11. ASSUME NEW st \in Response, Streamed(st, wi, l, k) PROVE Streamed(st, t, l, k2)
  <2>1. \A n \in DOMAIN t : t[n].kind # "done" BY <1>5, <1>11 DEF Streamed
  <2>2. \A i \in Public(l) : i <= st.after => i <= k2 \/ i \in Ids(t)
    <3> SUFFICES ASSUME NEW i \in Public(l), i <= st.after PROVE i <= k2 \/ i \in Ids(t)
      OBVIOUS
    <3>1. i <= k \/ i \in Ids(wi) BY <1>11 DEF Streamed
    <3>2. i \in Nat BY <1>7
    <3>3. i <= k => i <= k2 BY <3>2
    <3> QED BY <1>10, <3>1, <3>3
  <2> QED BY <1>11, <2>1, <2>2 DEF Streamed
<1>12. ASSUME Closed(wi, l, k) PROVE Closed(t, l, k2)
  <2>1. k2 <= Len(l) /\ Len(l) \in Nat BY PublicIs
  <2>2. Len(l) = k => Len(l) = k2 BY <2>1
  <2>3. Len(l) \in Ids(wi) => Len(l) \in Ids(t) \/ Len(l) = k2 BY <1>10, <2>1
  <2> QED BY <1>12, <2>2, <2>3 DEF Closed
<1>13. Head(wi) \in Sent /\ Head(wi).id \in Public(l) /\ Head(wi).kind = l[Head(wi).id]
  <2>1. wi[1] \in Sent BY <1>3
  <2> QED BY <1>3, <2>1 DEF Wired
<1> QED BY <1>1, <1>9, <1>11, <1>12, <1>13 DEF t

-----------------------------------------------------------------------------
(* The invariant of following                                              *)

LogsHold == log \in [Run -> Seq(Kinds)] /\ \A r \in Run : Ordered(log[r])

CachesHold ==
  /\ cache \in [Run -> {None} \cup Record] /\ selected \in {None} \cup Run
  /\ \A r \in Run : CacheFits(cache[r], log[r])

FollowerFits(f) ==
  IF follower[f] = None THEN stream[f] = None
  ELSE /\ cache[follower[f].run] # None
       /\ Fit(follower[f], stream[f], wire[f], log[follower[f].run],
              cache[follower[f].run].cursor)

FollowersHold ==
  /\ follower \in [Follower -> {None} \cup Subscription]
  /\ stream \in [Follower -> {None} \cup Response]
  /\ wire \in [Follower -> Seq(Sent)]
  /\ \A f \in Follower : FollowerFits(f)

\* A call w of openRun, refresh or updateSettings, with the logs as they are.
OperationFits(w, logs) ==
  /\ w.stage = "restoring" => w.run \in Run
  /\ w.kind = "open" => w.run \in Run
  /\ w.rest # None => w.run \in Run /\ RestFits(w.rest, w.run, logs[w.run])
  /\ w.stage = "listed" => \A r \in Run : Prefix(w.list[r], logs[r])

FlowsHold ==
  /\ flow \in [Flow -> {None} \cup Operation]
  /\ \A w \in Flow : flow[w] # None => OperationFits(flow[w], log)

ViewHolds ==
  /\ view \in [run : Run \cup {None}, status : {"live", "ended"},
               phase : {"ready", "recovering", "error"}]
  /\ view.run # None => cache[view.run] # None
  /\ view.run # None /\ view.status = "ended" => Status(log[view.run]) = "ended"

WatchHolds ==
  /\ watching \in {None} \cup Follower /\ timer \in {None} \cup Run
  /\ attempts \in 0 .. MaxAttempts /\ suspended \in BOOLEAN
  /\ watching # None => follower[watching] # None
  /\ timer # None => cache[timer] # None

Rests == view.run # None /\ view.status = "live" /\ view.phase = "ready" /\ ~suspended
Watched == watching # None \/ timer # None \/ attempts = MaxAttempts
Counts(w) == flow[w] # None /\ flow[w].valid
StaysWatched == Rests => Watched \/ \E w \in Flow : Counts(w)

FollowInv ==
  /\ LogsHold /\ CachesHold /\ FollowersHold /\ FlowsHold /\ ViewHolds /\ WatchHolds
  /\ StaysWatched

LogsGrow == \A r \in Run : Prefix(log[r], log'[r])

CursorsGrow ==
  \A r \in Run : cache[r] # None => cache'[r] # None /\ cache[r].cursor <= cache'[r].cursor

-----------------------------------------------------------------------------
(* What a step leaves alone stays as it should be                          *)

LEMMA LogsStay ==
  ASSUME LogsHold, UNCHANGED log PROVE LogsHold' /\ LogsGrow
BY PrefixOfItself DEF LogsHold, LogsGrow

LEMMA CachesStay ==
  ASSUME FollowingAssumption, LogsHold, LogsHold', LogsGrow, CachesHold, UNCHANGED disk
  PROVE  CachesHold' /\ CursorsGrow
<1>1. ASSUME NEW r \in Run PROVE CacheFits(cache[r], log'[r])
  <2>1. log[r] \in Seq(Kinds) /\ log'[r] \in Seq(Kinds) /\ Prefix(log[r], log'[r])
    BY DEF LogsHold, LogsGrow
  <2>2. cache[r] \in {None} \cup Record /\ CacheFits(cache[r], log[r]) BY DEF CachesHold
  <2> QED BY <2>1, <2>2, CacheStays
<1>2. CachesHold' BY <1>1 DEF CachesHold, disk
<1>3. CursorsGrow
  <2> SUFFICES ASSUME NEW r \in Run, cache[r] # None
               PROVE  cache[r].cursor <= cache[r].cursor
    BY DEF CursorsGrow, disk
  <2>1. cache[r] \in Record BY DEF CachesHold
  <2>2. cache[r].cursor \in Nat BY <2>1 DEF Record
  <2> QED BY <2>2
<1> QED BY <1>2, <1>3

LEMMA CursorIs ==
  ASSUME FollowingAssumption, LogsHold, CachesHold, NEW r \in Run, cache[r] # None
  PROVE  /\ cache[r] \in Record /\ cache[r].cursor \in Nat
         /\ cache[r].cursor \in {0} \cup Public(log[r])
<1>1. cache[r] \in Record /\ CacheFits(cache[r], log[r]) BY DEF CachesHold
<1>2. cache[r].cursor \in Nat BY <1>1 DEF Record
<1> QED BY <1>1, <1>2 DEF CacheFits

LEMMA FollowerStays ==
  ASSUME FollowingAssumption, LogsHold, LogsHold', LogsGrow, CachesHold, CachesHold', CursorsGrow,
         FollowersHold, NEW f \in Follower,
         follower'[f] = follower[f], stream'[f] = stream[f], wire'[f] = wire[f]
  PROVE  FollowerFits(f)'
<1>1. CASE follower[f] = None BY <1>1 DEF FollowersHold, FollowerFits
<1>2. CASE follower[f] # None
  <2>1. follower[f] \in Subscription /\ FollowerFits(f) BY <1>2 DEF FollowersHold
  <2>2. PICK r \in Run : r = follower[f].run BY <2>1 DEF Subscription
  <2>3. /\ cache[r] # None /\ cache'[r] # None /\ cache[r].cursor <= cache'[r].cursor
        /\ Fit(follower[f], stream[f], wire[f], log[r], cache[r].cursor)
    BY <1>2, <2>1, <2>2 DEF FollowerFits, CursorsGrow
  <2>4. cache[r].cursor \in Nat BY <2>3, CursorIs
  <2>5. cache'[r].cursor \in Nat /\ cache'[r].cursor \in {0} \cup Public(log'[r])
    <3>1. cache'[r] \in Record /\ CacheFits(cache'[r], log'[r]) BY <2>3 DEF CachesHold
    <3>2. cache'[r].cursor \in Nat BY <3>1 DEF Record
    <3> QED BY <2>3, <3>1, <3>2 DEF CacheFits
  <2>6. /\ log[r] \in Seq(Kinds) /\ log'[r] \in Seq(Kinds) /\ Prefix(log[r], log'[r])
        /\ Ordered(log'[r])
    BY DEF LogsHold, LogsGrow
  <2>7. stream[f] \in {None} \cup Response /\ wire[f] \in Seq(Sent) BY DEF FollowersHold
  <2>8. Fit(follower[f], stream[f], wire[f], log'[r], cache'[r].cursor)
    BY <2>1, <2>3, <2>4, <2>5, <2>6, <2>7, FitStays
  <2> QED BY <1>2, <2>2, <2>3, <2>8 DEF FollowerFits
<1> QED BY <1>1, <1>2

LEMMA FollowersStay ==
  ASSUME FollowingAssumption, LogsHold, LogsHold', LogsGrow, CachesHold, CachesHold', CursorsGrow,
         FollowersHold, UNCHANGED <<follower, stream, wire>>
  PROVE  FollowersHold'
<1>1. \A f \in Follower : FollowerFits(f)' BY FollowerStays
<1> QED BY <1>1 DEF FollowersHold

LEMMA OperationStays ==
  ASSUME FollowingAssumption, LogsHold, LogsHold', LogsGrow,
         NEW w \in Operation, OperationFits(w, log)
  PROVE  OperationFits(w, log')
<1>1. w.rest \in {None} \cup Read /\ w.list \in [Run -> Seq(Kinds)] BY DEF Operation
<1>2. ASSUME w.rest # None PROVE w.run \in Run /\ RestFits(w.rest, w.run, log'[w.run])
  <2>1. w.run \in Run /\ RestFits(w.rest, w.run, log[w.run]) BY <1>2 DEF OperationFits
  <2>2. /\ log[w.run] \in Seq(Kinds) /\ log'[w.run] \in Seq(Kinds)
        /\ Prefix(log[w.run], log'[w.run])
    BY <2>1 DEF LogsHold, LogsGrow
  <2> QED BY <1>1, <2>1, <2>2, RestStays
<1>3. ASSUME w.stage = "listed", NEW r \in Run PROVE Prefix(w.list[r], log'[r])
  <2>1. Prefix(w.list[r], log[r]) BY <1>3 DEF OperationFits
  <2>2. /\ log[r] \in Seq(Kinds) /\ log'[r] \in Seq(Kinds) /\ Prefix(log[r], log'[r])
        /\ w.list[r] \in Seq(Kinds)
    BY <1>1 DEF LogsHold, LogsGrow
  <2> QED BY <2>1, <2>2, PrefixOfPrefix
<1> QED BY <1>2, <1>3 DEF OperationFits

LEMMA FlowsStay ==
  ASSUME FollowingAssumption, LogsHold, LogsHold', LogsGrow, FlowsHold, UNCHANGED flow
  PROVE  FlowsHold'
<1>1. ASSUME NEW w \in Flow, flow[w] # None PROVE OperationFits(flow[w], log')
  <2>1. flow[w] \in Operation /\ OperationFits(flow[w], log) BY <1>1 DEF FlowsHold
  <2> QED BY <2>1, OperationStays
<1> QED BY <1>1 DEF FlowsHold

\* One call changes, the others stay.
LEMMA OneFlowChanges ==
  ASSUME FollowingAssumption, LogsHold, LogsHold', LogsGrow, FlowsHold, NEW w \in Flow,
         NEW o, flow' = [flow EXCEPT ![w] = o], o \in {None} \cup Operation,
         o # None => OperationFits(o, log')
  PROVE  FlowsHold'
<1>1. flow' \in [Flow -> {None} \cup Operation] BY DEF FlowsHold
<1>2. ASSUME NEW x \in Flow, flow'[x] # None PROVE OperationFits(flow'[x], log')
  <2>1. CASE x = w BY <1>2, <2>1 DEF FlowsHold
  <2>2. CASE x # w
    <3>1. flow'[x] = flow[x] BY <2>2 DEF FlowsHold
    <3>2. flow[x] \in Operation /\ OperationFits(flow[x], log) BY <1>2, <3>1 DEF FlowsHold
    <3> QED BY <3>1, <3>2, OperationStays
  <2> QED BY <2>1, <2>2
<1> QED BY <1>1, <1>2 DEF FlowsHold

\* The run a view shows, from what is known of it.
LEMMA ShownHolds ==
  ASSUME NEW r \in {None} \cup Run, NEW s \in {"live", "ended"},
         NEW p \in {"ready", "recovering", "error"}, view' = Shown(r, s, p),
         r # None => cache'[r] # None,
         r # None /\ s = "ended" => Status(log'[r]) = "ended"
  PROVE  ViewHolds'
BY DEF ViewHolds, Shown

LEMMA ViewStays ==
  ASSUME FollowingAssumption, LogsHold, LogsHold', LogsGrow, CursorsGrow, ViewHolds,
         NEW p \in {"ready", "recovering", "error"}, view' = [view EXCEPT !.phase = p]
  PROVE  ViewHolds'
<1>1. /\ view.run \in {None} \cup Run /\ view.status \in {"live", "ended"}
      /\ view' = Shown(view.run, view.status, p)
  BY DEF ViewHolds, Shown
<1>2. view.run # None => cache'[view.run] # None BY <1>1 DEF ViewHolds, CursorsGrow
<1>3. ASSUME view.run # None, view.status = "ended" PROVE Status(log'[view.run]) = "ended"
  <2>1. Status(log[view.run]) = "ended" /\ view.run \in Run BY <1>1, <1>3 DEF ViewHolds
  <2>2. /\ log[view.run] \in Seq(Kinds) /\ log'[view.run] \in Seq(Kinds)
        /\ Prefix(log[view.run], log'[view.run])
    BY <2>1 DEF LogsHold, LogsGrow
  <2> QED BY <2>1, <2>2, PrefixKeeps
<1> QED BY <1>1, <1>2, <1>3, ShownHolds

LEMMA SameView ==
  ASSUME ViewHolds PROVE view.phase \in {"ready", "recovering", "error"} /\ view = [view EXCEPT !.phase = view.phase]
BY DEF ViewHolds

\* Begins a run to be watched again, unless the client is suspended.
LEMMA WatchBegins ==
  ASSUME FollowingAssumption, LogsHold, LogsHold', LogsGrow, CachesHold, CachesHold', CursorsGrow,
         FollowersHold, WatchHolds, UNCHANGED <<stream, wire, suspended>>,
         NEW f \in Follower, NEW r \in Run, cache'[r] # None, NEW retry \in BOOLEAN,
         BeginWatching(f, r, retry)
  PROVE  /\ FollowersHold' /\ WatchHolds'
         /\ ~suspended => watching' = f /\ follower'[f].run = r /\ timer' = None
         /\ suspended => UNCHANGED <<follower, watch>>
<1>1. CASE suspended
  <2>1. UNCHANGED <<follower, watch>> BY <1>1 DEF BeginWatching
  <2>2. FollowersHold' BY <2>1, FollowersStay
  <2>3. WatchHolds' BY <2>1 DEF WatchHolds, watch, CursorsGrow
  <2> QED BY <1>1, <2>1, <2>2, <2>3
<1>2. CASE ~suspended
  <2> DEFINE n == [run |-> r, stage |-> "opening", cursor |-> cache'[r].cursor,
                   again |-> FALSE, fatal |-> FALSE, rest |-> None]
  <2>1. /\ follower[f] = None /\ follower' = [follower EXCEPT ![f] = n]
        /\ watching' = f /\ timer' = None /\ attempts' = IF retry THEN attempts ELSE 0
    BY <1>2 DEF BeginWatching, Fresh
  <2>2. cache'[r] \in Record /\ CacheFits(cache'[r], log'[r]) BY DEF CachesHold
  <2>3. /\ cache'[r].cursor \in Nat /\ cache'[r].cursor \in {0} \cup Public(log'[r])
        /\ cache'[r].cursor <= cache'[r].cursor
    BY <2>2 DEF Record, CacheFits
  <2>4. /\ n \in Subscription /\ n.run = r /\ n.stage = "opening" /\ n.cursor = cache'[r].cursor
        /\ n.rest = None
    BY <2>3 DEF Subscription
  <2> HIDE DEF n
  <2>5. follower' \in [Follower -> {None} \cup Subscription] /\ follower'[f] = n
    BY <2>1, <2>4 DEF FollowersHold
  <2>6. stream[f] = None BY <2>1 DEF FollowersHold, FollowerFits
  <2>7. Fit(n, None, wire[f], log'[r], cache'[r].cursor) BY <2>3, <2>4 DEF Fit, RestFits
  <2>8. n # None BY <2>4, Untyped
  <2>9. FollowerFits(f)' BY <2>4, <2>5, <2>6, <2>7, <2>8 DEF FollowerFits
  <2>10. \A g \in Follower : g # f => FollowerFits(g)'
    <3> SUFFICES ASSUME NEW g \in Follower, g # f PROVE FollowerFits(g)' OBVIOUS
    <3>1. follower'[g] = follower[g] BY <2>1 DEF FollowersHold
    <3> QED BY <3>1, FollowerStays
  <2>11. FollowersHold' BY <2>5, <2>9, <2>10 DEF FollowersHold
  <2>12. WatchHolds' BY <2>1, <2>5, <2>8 DEF WatchHolds, MaxAttempts
  <2> QED BY <1>2, <2>1, <2>4, <2>5, <2>11, <2>12
<1> QED BY <1>1, <1>2

\* One subscription changes, the others stay.
LEMMA OneFollowerChanges ==
  ASSUME FollowingAssumption, LogsHold, LogsHold', LogsGrow, CachesHold, CachesHold', CursorsGrow,
         FollowersHold, NEW f \in Follower,
         follower' \in [Follower -> {None} \cup Subscription],
         stream' \in [Follower -> {None} \cup Response],
         wire' \in [Follower -> Seq(Sent)],
         \A g \in Follower : g # f =>
           follower'[g] = follower[g] /\ stream'[g] = stream[g] /\ wire'[g] = wire[g],
         FollowerFits(f)'
  PROVE  FollowersHold'
<1>1. \A g \in Follower : g # f => FollowerFits(g)' BY FollowerStays
<1> QED BY <1>1 DEF FollowersHold

\* What is saved of a run when one of its reads says s.
LEMMA SavedFits ==
  ASSUME FollowingAssumption, LogsHold, CachesHold,
         NEW r \in Run, NEW s \in {"live", "ended"}, s = "ended" => Status(log[r]) = "ended"
  PROVE  /\ Saved(r, s) \in Record /\ CacheFits(Saved(r, s), log[r]) /\ Saved(r, s) # None
         /\ cache[r] # None => Saved(r, s).cursor = cache[r].cursor
<1> DEFINE d == Saved(r, s)
<1>1. d \in Record /\ CacheFits(d, log[r])
  <2>1. CASE cache[r] = None
    <3>1. d = [status |-> s, cursor |-> 0, applied |-> <<>>] BY <2>1 DEF Saved
    <3> DEFINE S == {i \in Public(log[r]) : i <= 0}
    <3>2. S = {}
      <4>1. log[r] \in Seq(Kinds) BY DEF LogsHold
      <4>2. \A i \in Public(log[r]) : i \in 1 .. Len(log[r]) BY <4>1, PublicIs
      <4> QED BY <4>2
    <3>3. Ascending(S) = <<>> BY <3>2, AscendingEmpty
    <3> HIDE DEF d
    <3>4. d \in Record /\ d.cursor = 0 /\ d.status = s /\ d.applied = <<>> BY <3>1 DEF Record
    <3> QED BY <3>3, <3>4 DEF CacheFits
  <2>2. CASE cache[r] # None
    <3>1. cache[r] \in Record /\ CacheFits(cache[r], log[r]) BY <2>2 DEF CachesHold
    <3>2. d = [status |-> s, cursor |-> cache[r].cursor, applied |-> cache[r].applied]
      BY <2>2 DEF Saved
    <3> HIDE DEF d
    <3>3. /\ d \in Record /\ d.cursor = cache[r].cursor /\ d.status = s
          /\ d.applied = cache[r].applied
      BY <3>1, <3>2 DEF Record
    <3> QED BY <2>2, <3>1, <3>3 DEF CacheFits
  <2> QED BY <2>1, <2>2
<1>2. cache[r] # None => d.cursor = cache[r].cursor BY DEF Saved
<1> HIDE DEF d
<1>3. d # None BY <1>1, Untyped
<1> QED BY <1>1, <1>2, <1>3 DEF d

\* A run is saved as one of its reads says.
LEMMA RunIsSaved ==
  ASSUME FollowingAssumption, LogsHold, CachesHold, UNCHANGED <<log, selected>>,
         NEW r \in Run, NEW s \in {"live", "ended"}, s = "ended" => Status(log[r]) = "ended",
         SaveRun(r, s)
  PROVE  CachesHold' /\ CursorsGrow /\ cache'[r] # None
<1> DEFINE d == Saved(r, s)
<1>1. d \in Record /\ CacheFits(d, log[r]) /\ d # None BY SavedFits
<1>2. cache[r] # None => d.cursor = cache[r].cursor BY SavedFits
<1>3. cache' = [cache EXCEPT ![r] = d] BY DEF SaveRun
<1> HIDE DEF d
<1>4. cache' \in [Run -> {None} \cup Record] /\ cache'[r] = d BY <1>1, <1>3 DEF CachesHold
<1>5. d # None BY <1>1
<1>6. \A x \in Run : x # r => cache'[x] = cache[x] BY <1>3 DEF CachesHold
<1>7. \A x \in Run : CacheFits(cache'[x], log[x]) BY <1>1, <1>4, <1>6 DEF CachesHold
<1>8. CursorsGrow
  <2> SUFFICES ASSUME NEW x \in Run, cache[x] # None
               PROVE  cache'[x] # None /\ cache[x].cursor <= cache'[x].cursor
    BY DEF CursorsGrow
  <2>1. cache[x].cursor \in Nat BY CursorIs
  <2>2. CASE x = r BY <1>2, <1>4, <1>5, <2>1, <2>2
  <2>3. CASE x # r BY <1>6, <2>1, <2>3
  <2> QED BY <2>2, <2>3
<1> QED BY <1>4, <1>5, <1>7, <1>8 DEF CachesHold

\* An answered read says the run has ended only when it has.
LEMMA AnswerIsTrue ==
  ASSUME FollowingAssumption, LogsHold, NEW r \in Run, NEW q \in {None} \cup Read,
         RestFits(q, r, log[r]), Answered(q)
  PROVE  /\ Status(q.row) \in {"live", "ended"}
         /\ Status(q.row) = "ended" => Status(log[r]) = "ended"
<1>1. q.row \in Seq(Kinds) /\ Prefix(q.row, log[r]) /\ log[r] \in Seq(Kinds)
  BY DEF Answered, RestFits, Read, LogsHold
<1> QED BY <1>1, StatusIs, PrefixKeeps

\* A read is begun, and goes on.
LEMMA RequestFits ==
  ASSUME FollowingAssumption, NEW r \in Run, NEW l
  PROVE  Request(r) \in Read /\ RestFits(Request(r), r, l)
<1>1. <<>> \in Seq(Kinds) BY EmptySeq
<1> QED BY <1>1 DEF Request, Read, RestFits

LEMMA ServeFits ==
  ASSUME FollowingAssumption, LogsHold, NEW r \in Run, NEW q \in {None} \cup Read,
         RestFits(q, r, log[r]), Pending(q)
  PROVE  Serve(q) \in Read /\ RestFits(Serve(q), r, log[r]) /\ Serve(q) # None
<1>1. q \in Read /\ q.run = r /\ q.stage # "answered" BY DEF Pending, RestFits
<1>2. log[r] \in Seq(Kinds) BY DEF LogsHold
<1>3. q.row \in Seq(Kinds) /\ q.last \in Nat /\ q.run \in Run /\ q.stage \in {"asked", "row", "answered"}
  BY <1>1 DEF Read
<1>4. CASE q.stage = "asked"
  <2> DEFINE z == [q EXCEPT !.stage = "row", !.row = log[r]]
  <2>1. Serve(q) = z BY <1>1, <1>4 DEF Serve, ReadRow
  <2>2. z \in Read /\ z.run = r /\ z.stage = "row" /\ z.row = log[r] BY <1>1, <1>2 DEF Read
  <2> HIDE DEF z
  <2>3. RestFits(z, r, log[r]) BY <1>2, <2>2, PrefixOfItself DEF RestFits
  <2> QED BY <2>1, <2>2, <2>3, Untyped
<1>5. CASE q.stage # "asked"
  <2> DEFINE n == LastPublic(q.row)
  <2>1. n \in Nat BY <1>3, LastPublicIs
  <2>2. Prefix(q.row, log[r]) BY <1>1, <1>5, Untyped DEF RestFits
  <2> DEFINE z == [q EXCEPT !.stage = "answered", !.last = n]
  <2>3. Serve(q) = z BY <1>5 DEF Serve, ReadLast
  <2> HIDE DEF n
  <2>4. z \in Read /\ z.run = r /\ z.stage = "answered" /\ z.row = q.row /\ z.last = n
    BY <1>1, <2>1 DEF Read
  <2> HIDE DEF z
  <2>5. RestFits(z, r, log[r]) BY <2>2, <2>4 DEF RestFits, n
  <2> QED BY <2>3, <2>4, <2>5, Untyped
<1> QED BY <1>4, <1>5

\* All the runs are saved as one list of them says.
LEMMA RunsAreSaved ==
  ASSUME FollowingAssumption, LogsHold, CachesHold, UNCHANGED <<log, selected>>,
         NEW list \in [Run -> Seq(Kinds)], \A r \in Run : Prefix(list[r], log[r]),
         cache' = [r \in Run |-> Saved(r, Status(list[r]))]
  PROVE  CachesHold' /\ CursorsGrow
<1>1. ASSUME NEW r \in Run
      PROVE  /\ cache'[r] \in Record /\ CacheFits(cache'[r], log[r]) /\ cache'[r] # None
             /\ cache[r] # None => cache[r].cursor <= cache'[r].cursor
  <2>1. list[r] \in Seq(Kinds) /\ log[r] \in Seq(Kinds) BY DEF LogsHold
  <2>2. PICK s \in {"live", "ended"} :
          s = Status(list[r]) /\ (s = "ended" => Status(log[r]) = "ended")
    BY <2>1, StatusIs, PrefixKeeps
  <2>3. cache'[r] = Saved(r, s) BY <2>2
  <2>4. /\ Saved(r, s) \in Record /\ CacheFits(Saved(r, s), log[r]) /\ Saved(r, s) # None
        /\ cache[r] # None => Saved(r, s).cursor = cache[r].cursor
    BY <2>2, SavedFits
  <2>5. cache[r] # None => cache[r].cursor \in Nat BY CursorIs
  <2> QED BY <2>3, <2>4, <2>5
<1>2. cache' \in [Run -> {None} \cup Record] BY <1>1
<1>3. CachesHold' BY <1>1, <1>2 DEF CachesHold
<1>4. CursorsGrow BY <1>1 DEF CursorsGrow
<1> QED BY <1>3, <1>4

-----------------------------------------------------------------------------
(* The log, the response and the subscription                              *)

\* A step that leaves the calls, the view and what is watched alone.
LEMMA Frame ==
  ASSUME FollowingAssumption, FollowInv, LogsHold', LogsGrow, CachesHold', CursorsGrow,
         FollowersHold', UNCHANGED <<flow, watch, view, suspended>>,
         watching # None => follower'[watching] # None
  PROVE  FollowInv'
<1>1. FlowsHold' BY FlowsStay DEF FollowInv
<1>2. ViewHolds'
  <2>1. view.phase \in {"ready", "recovering", "error"} /\ view' = [view EXCEPT !.phase = view.phase]
    BY SameView DEF FollowInv
  <2> QED BY <2>1, ViewStays DEF FollowInv
<1>3. WatchHolds' BY DEF FollowInv, WatchHolds, watch, CursorsGrow
<1>4. StaysWatched' BY DEF FollowInv, StaysWatched, Rests, Watched, Counts, watch
<1> QED BY <1>1, <1>2, <1>3, <1>4 DEF FollowInv

LEMMA LogMoves ==
  ASSUME FollowingAssumption, FollowInv, NEW r \in Run, Progress(r) \/ Finish(r)
  PROVE  FollowInv' /\ CursorsGrow
<1>1. log[r] \in Seq(Kinds) /\ Ordered(log[r]) /\ Status(log[r]) = "live"
  BY DEF FollowInv, LogsHold, Progress, Finish
<1>2. \E t \in Seq(Kinds) : Ordered(t) /\ Prefix(log[r], t) /\ log' = [log EXCEPT ![r] = t]
  <2>1. CASE Progress(r)
    <3>1. PICK k \in {"step", "audit"} : log' = [log EXCEPT ![r] = Append(log[r], k)]
      BY <2>1 DEF Progress
    <3>2. /\ Append(log[r], k) \in Seq(Kinds) /\ Ordered(Append(log[r], k))
          /\ Prefix(log[r], Append(log[r], k))
      BY <1>1, LogGrows
    <3> QED BY <3>1, <3>2
  <2>2. CASE Finish(r)
    <3> DEFINE t == log[r] \o <<"final", "done">>
    <3>1. t \in Seq(Kinds) /\ Ordered(t) /\ Prefix(log[r], t) BY <1>1, LogGrows
    <3>2. log' = [log EXCEPT ![r] = t] BY <2>2 DEF Finish
    <3> HIDE DEF t
    <3> QED BY <3>1, <3>2
  <2> QED BY <2>1, <2>2
<1>3. PICK t \in Seq(Kinds) : Ordered(t) /\ Prefix(log[r], t) /\ log' = [log EXCEPT ![r] = t]
  BY <1>2
<1>4. LogsHold' BY <1>3 DEF FollowInv, LogsHold
<1>5. LogsGrow
  <2> SUFFICES ASSUME NEW x \in Run PROVE Prefix(log[x], log'[x]) BY DEF LogsGrow
  <2>1. CASE x = r BY <1>3, <2>1 DEF FollowInv, LogsHold
  <2>2. CASE x # r
    <3>1. log'[x] = log[x] /\ log[x] \in Seq(Kinds) BY <1>3, <2>2 DEF FollowInv, LogsHold
    <3> QED BY <3>1, PrefixOfItself
  <2> QED BY <2>1, <2>2
<1>6. UNCHANGED <<stream, wire, disk, follower, flow, watch, view, suspended>>
  BY DEF Progress, Finish
<1>7. CachesHold' /\ CursorsGrow BY <1>4, <1>5, <1>6, CachesStay DEF FollowInv
<1>8. FollowersHold' BY <1>4, <1>5, <1>6, <1>7, FollowersStay DEF FollowInv
<1>9. watching # None => follower'[watching] # None BY <1>6 DEF FollowInv, WatchHolds
<1> QED BY <1>4, <1>5, <1>6, <1>7, <1>8, <1>9, Frame

\* What is known of a subscription.
LEMMA FollowerIs ==
  ASSUME FollowingAssumption, FollowInv, NEW f \in Follower, follower[f] # None
  PROVE  /\ follower[f] \in Subscription /\ follower[f].run \in Run
         /\ stream[f] \in {None} \cup Response /\ wire[f] \in Seq(Sent)
         /\ cache[follower[f].run] # None
         /\ cache[follower[f].run] \in Record /\ cache[follower[f].run].cursor \in Nat
         /\ cache[follower[f].run].cursor \in {0} \cup Public(log[follower[f].run])
         /\ log[follower[f].run] \in Seq(Kinds) /\ Ordered(log[follower[f].run])
         /\ Fit(follower[f], stream[f], wire[f], log[follower[f].run],
                cache[follower[f].run].cursor)
<1>1. follower[f] \in Subscription /\ FollowerFits(f) BY DEF FollowInv, FollowersHold
<1>2. follower[f].run \in Run BY <1>1 DEF Subscription
<1>3. /\ cache[follower[f].run] # None
      /\ Fit(follower[f], stream[f], wire[f], log[follower[f].run],
              cache[follower[f].run].cursor)
  BY <1>1 DEF FollowerFits
<1>4. log[follower[f].run] \in Seq(Kinds) /\ Ordered(log[follower[f].run])
  BY <1>2 DEF FollowInv, LogsHold
<1>5. stream[f] \in {None} \cup Response /\ wire[f] \in Seq(Sent) BY DEF FollowInv, FollowersHold
<1>6. /\ cache[follower[f].run] \in Record /\ cache[follower[f].run].cursor \in Nat
      /\ cache[follower[f].run].cursor \in {0} \cup Public(log[follower[f].run])
  BY <1>2, <1>3, CursorIs DEF FollowInv
<1> QED BY <1>1, <1>2, <1>3, <1>4, <1>5, <1>6

\* A step of subscription f and its response that leaves the rest alone.
LEMMA SubscriptionMoves ==
  ASSUME FollowingAssumption, FollowInv, UNCHANGED <<log, disk, flow, watch, view, suspended>>,
         NEW f \in Follower, NEW v \in Subscription, NEW st \in {None} \cup Response,
         NEW wi \in Seq(Sent), follower[f] # None,
         follower' = [follower EXCEPT ![f] = v], stream' = [stream EXCEPT ![f] = st],
         wire' = [wire EXCEPT ![f] = wi], v.run = follower[f].run,
         Fit(v, st, wi, log[v.run], cache[v.run].cursor)
  PROVE  FollowInv' /\ CursorsGrow
<1>1. LogsHold' /\ LogsGrow BY LogsStay DEF FollowInv
<1>2. CachesHold' /\ CursorsGrow BY <1>1, CachesStay DEF FollowInv
<1>3. /\ follower' \in [Follower -> {None} \cup Subscription] /\ follower'[f] = v
      /\ stream' \in [Follower -> {None} \cup Response] /\ stream'[f] = st
      /\ wire' \in [Follower -> Seq(Sent)] /\ wire'[f] = wi
      /\ \A g \in Follower : g # f =>
           follower'[g] = follower[g] /\ stream'[g] = stream[g] /\ wire'[g] = wire[g]
  BY DEF FollowInv, FollowersHold
<1>4. v # None /\ cache[v.run] # None BY Untyped, FollowerIs
<1>5. log' = log /\ cache' = cache BY DEF disk
<1>6. FollowerFits(f)' BY <1>3, <1>4, <1>5 DEF FollowerFits
<1>7. FollowersHold' BY <1>1, <1>2, <1>3, <1>6, OneFollowerChanges DEF FollowInv
<1>8. watching # None => follower'[watching] # None
  BY <1>3, <1>4 DEF FollowInv, WatchHolds
<1> QED BY <1>1, <1>2, <1>7, <1>8, Frame

LEMMA StreamOpens ==
  ASSUME FollowingAssumption, FollowInv, NEW f \in Follower, OpenStream(f)
  PROVE  FollowInv' /\ CursorsGrow
<1>1. follower[f] # None /\ follower[f].stage = "opening" BY DEF OpenStream, Follows
<1>2. PICK w \in Subscription : w = follower[f] BY <1>1, FollowerIs
<1>3. PICK r \in Run : r = w.run BY <1>1, <1>2, FollowerIs
<1> DEFINE v == [w EXCEPT !.stage = "reading"]
           st == [run |-> r, after |-> w.cursor, stage |-> "list"]
<1>4. /\ v \in Subscription /\ v.run = r /\ v.stage = "reading" /\ v.rest = w.rest
  BY <1>3 DEF Subscription
<1>5. st \in Response /\ st.run = r /\ st.after = w.cursor BY DEF Response, Subscription
<1>6. /\ follower' = [follower EXCEPT ![f] = v] /\ stream' = [stream EXCEPT ![f] = st]
      /\ wire' = [wire EXCEPT ![f] = <<>>]
  BY <1>2, <1>3 DEF OpenStream
<1> HIDE DEF v, st
<1> DEFINE l == log[r]  k == cache[r].cursor
<1>7. Fit(w, stream[f], wire[f], l, k) /\ k \in Nat /\ l \in Seq(Kinds)
  BY <1>1, <1>2, <1>3, FollowerIs
<1>8. w.cursor \in {0} \cup Public(l) /\ w.cursor <= k /\ w.cursor \in Nat
  BY <1>1, <1>2, <1>7 DEF Fit, Subscription
<1> HIDE DEF l, k
<1>9. Wired(<<>>, l, k) BY DEF Wired
<1>10. Streamed(st, <<>>, l, k)
  <2>1. \A i \in Public(l) : i \in Nat BY <1>7, PublicIs
  <2> QED BY <1>5, <1>7, <1>8, <2>1 DEF Streamed
<1>11. Fit(v, st, <<>>, l, k)
  <2>1. RestFits(v.rest, v.run, l) BY <1>3, <1>4, <1>7 DEF Fit
  <2>2. st # None BY <1>5, Untyped
  <2> QED BY <1>4, <1>5, <1>9, <1>10, <2>1, <2>2 DEF Fit
<1>12. UNCHANGED <<log, disk, flow, watch, view, suspended>> BY DEF OpenStream
<1>13. <<>> \in Seq(Sent) BY EmptySeq
<1> QED BY <1>1, <1>2, <1>3, <1>4, <1>5, <1>6, <1>11, <1>12, <1>13, SubscriptionMoves DEF l, k

\* A page follows what is on the wire without a gap.
LEMMA EventsAreListed ==
  ASSUME FollowingAssumption, FollowInv, NEW f \in Follower, ListEvents(f)
  PROVE  FollowInv' /\ CursorsGrow
<1>1. follower[f] # None
  <2>1. stream[f] # None BY DEF ListEvents
  <2> QED BY <2>1 DEF FollowInv, FollowersHold, FollowerFits
<1>2. PICK w \in Subscription : w = follower[f] BY <1>1, FollowerIs
<1>3. PICK r \in Run : r = w.run BY <1>1, <1>2, FollowerIs
<1>4. PICK s \in Response : s = stream[f] /\ s # None /\ s.stage = "list"
  BY <1>1, FollowerIs DEF ListEvents
<1>5. PICK wi \in Seq(Sent) : wi = wire[f] BY <1>1, FollowerIs
<1>6. PICK l \in Seq(Kinds) : l = log[r] /\ Ordered(l) BY <1>1, <1>2, <1>3, FollowerIs
<1>7. PICK k \in Nat : k = cache[r].cursor /\ k \in {0} \cup Public(l)
  BY <1>1, <1>2, <1>3, <1>6, FollowerIs
<1>8. Fit(w, s, wi, l, k) BY <1>1, <1>2, <1>3, <1>4, <1>5, <1>6, <1>7, FollowerIs
<1>9. /\ w.stage = "reading" /\ s.run = r /\ Streamed(s, wi, l, k) /\ Wired(wi, l, k)
      /\ s.after \in Nat /\ RestFits(w.rest, r, l)
  BY <1>3, <1>4, <1>8 DEF Fit, Response
<1> DEFINE page == PageAfter(l, s.after)  n == Len(wi)  t == wi \o page
           ends == \E x \in DOMAIN page : page[x].kind = "done"
           last == IF page = <<>> THEN s.after ELSE page[Len(page)].id
           z == [s EXCEPT !.stage = "check", !.after = last]
           st == IF ends THEN None ELSE z
<1>10. /\ follower' = [follower EXCEPT ![f] = w] /\ wire' = [wire EXCEPT ![f] = t]
       /\ stream' = [stream EXCEPT ![f] = st]
  <2>1. follower' = follower /\ follower = [follower EXCEPT ![f] = w]
    BY <1>2 DEF ListEvents, FollowInv, FollowersHold
  <2>2. wire' = [wire EXCEPT ![f] = wire[f] \o page] BY <1>4, <1>6, <1>9 DEF ListEvents
  <2>3. stream' = [stream EXCEPT ![f] = IF ends THEN None
                     ELSE [stream[f] EXCEPT !.stage = "check",
                            !.after = IF page = <<>> THEN stream[f].after ELSE page[Len(page)].id]]
    BY <1>4, <1>6, <1>9 DEF ListEvents
  <2> HIDE DEF page
  <2> QED BY <1>4, <1>5, <2>1, <2>2, <2>3
<1>11. /\ page \in Seq(Sent)
       /\ \A x \in DOMAIN page :
            page[x].id \in Public(l) /\ page[x].id > s.after /\ page[x].kind = l[page[x].id]
       /\ \A x \in DOMAIN page : \A i \in Public(l) :
            s.after < i /\ i < page[x].id => \E m \in DOMAIN page : m < x /\ page[m].id = i
       /\ page = <<>> => \A i \in Public(l) : i <= s.after
  BY <1>9, PageIs DEF Sent
<1> HIDE DEF page
<1>12. /\ t \in Seq(Sent) /\ Len(t) = n + Len(page)
       /\ \A i \in 1 .. n + Len(page) : t[i] = IF i <= n THEN wi[i] ELSE page[i - n]
       /\ DOMAIN page = 1 .. Len(page) /\ DOMAIN wi = 1 .. n /\ Len(page) \in Nat /\ n \in Nat
  BY <1>11, ConcatProperties
<1> HIDE DEF n, t
<1>13. /\ DOMAIN t = 1 .. n + Len(page)
       /\ \A i \in DOMAIN wi : i \in DOMAIN t /\ t[i] = wi[i] /\ i \in Nat
       /\ \A x \in DOMAIN page : n + x \in DOMAIN t /\ t[n + x] = page[x] /\ x \in Nat
       /\ \A i \in DOMAIN t : i \in DOMAIN wi \/ (i - n \in DOMAIN page /\ n + (i - n) = i)
  <2>1. DOMAIN t = 1 .. n + Len(page) BY <1>12
  <2>2. \A i \in DOMAIN wi : i \in DOMAIN t /\ t[i] = wi[i] /\ i \in Nat BY <1>12, <2>1
  <2>3. ASSUME NEW x \in DOMAIN page PROVE n + x \in DOMAIN t /\ t[n + x] = page[x] /\ x \in Nat
    <3>1. n + x \in 1 .. n + Len(page) /\ ~(n + x <= n) /\ (n + x) - n = x /\ x \in Nat BY <1>12
    <3> QED BY <1>12, <2>1, <3>1
  <2>4. \A i \in DOMAIN t : i \in DOMAIN wi \/ (i - n \in DOMAIN page /\ n + (i - n) = i)
    BY <1>12, <2>1
  <2> QED BY <2>1, <2>2, <2>3, <2>4
<1>14. \A i \in Public(l) : i \in Nat BY PublicIs
<1>15. Wired(t, l, k)
  <2>1. ASSUME NEW i \in DOMAIN t PROVE t[i].id \in Public(l) /\ t[i].kind = l[t[i].id]
    <3>1. CASE i \in DOMAIN wi BY <1>9, <1>13, <3>1 DEF Wired
    <3>2. CASE i - n \in DOMAIN page /\ n + (i - n) = i
      <4>1. t[i] = page[i - n] BY <1>13, <3>2
      <4> QED BY <1>11, <3>2, <4>1
    <3> QED BY <1>13, <3>1, <3>2
  <2>2. ASSUME NEW j \in DOMAIN t, NEW i \in Public(l), i < t[j].id
        PROVE  i <= k \/ \E m \in DOMAIN t : m < j /\ t[m].id = i
    <3>1. CASE j \in DOMAIN wi
      <4>1. i <= k \/ \E m \in DOMAIN wi : m < j /\ wi[m].id = i
        BY <1>9, <1>13, <2>2, <3>1 DEF Wired
      <4> QED BY <1>13, <4>1
    <3>2. CASE j - n \in DOMAIN page /\ n + (j - n) = j
      <4>1. t[j] = page[j - n] /\ j - n \in Nat BY <1>13, <3>2
      <4>2. CASE i <= s.after
        <5>1. i <= k \/ i \in Ids(wi) BY <1>9, <4>2 DEF Streamed
        <5>2. ASSUME i \in Ids(wi) PROVE \E m \in DOMAIN t : m < j /\ t[m].id = i
          <6>1. PICK m \in DOMAIN wi : wi[m].id = i BY <5>2 DEF Ids
          <6>2. m <= n /\ m \in Nat /\ j - n >= 1 BY <1>12, <3>2
          <6>3. m < j BY <1>12, <3>2, <4>1, <6>2
          <6> QED BY <1>13, <6>1, <6>3
        <5> QED BY <5>1, <5>2
      <4>3. CASE ~(i <= s.after)
        <5>1. s.after < i BY <1>9, <1>14, <4>3
        <5>2. PICK m \in DOMAIN page : m < j - n /\ page[m].id = i
          BY <1>11, <2>2, <3>2, <4>1, <5>1
        <5>3. n + m \in DOMAIN t /\ t[n + m].id = i /\ m \in Nat BY <1>13, <5>2
        <5>4. n + m < j BY <1>12, <3>2, <4>1, <5>2, <5>3
        <5> QED BY <5>3, <5>4
      <4> QED BY <4>2, <4>3
    <3> QED BY <1>13, <3>1, <3>2
  <2> QED BY <2>1, <2>2 DEF Wired
<1>16. Ids(wi) \subseteq Ids(t) /\ \A x \in DOMAIN page : page[x].id \in Ids(t)
  BY <1>13 DEF Ids
<1>17. ASSUME ends PROVE Closed(t, l, k)
  <2>1. PICK x \in DOMAIN page : page[x].kind = "done" BY <1>17
  <2>2. page[x].id \in Public(l) /\ l[page[x].id] = "done" BY <1>11, <2>1
  <2>3. page[x].id \in DOMAIN l BY <2>2 DEF Public
  <2>4. page[x].id = Len(l) /\ Status(l) = "ended" BY <1>6, <2>2, <2>3, StatusIs DEF Ordered
  <2> QED BY <1>16, <2>1, <2>4 DEF Closed
<1>18. last \in {0} \cup Public(l) /\ last \in Nat
  <2>1. CASE page = <<>> BY <1>9, <2>1 DEF Streamed
  <2>2. CASE page # <<>>
    <3>1. Len(page) \in DOMAIN page BY <1>11, <1>12, <2>2, EmptySeq
    <3> QED BY <1>11, <1>14, <2>2, <3>1
  <2> QED BY <2>1, <2>2
<1>19. ASSUME NEW i \in Public(l), i <= last PROVE i <= k \/ i \in Ids(t)
  <2>1. CASE i <= s.after BY <1>9, <1>16, <2>1 DEF Streamed
  <2>2. CASE ~(i <= s.after)
    <3>1. s.after < i /\ page # <<>> BY <1>9, <1>11, <1>14, <2>2
    <3>2. Len(page) \in DOMAIN page BY <1>11, <1>12, <3>1, EmptySeq
    <3>3. last = page[Len(page)].id BY <3>1
    <3>4. i = last \/ i < last BY <1>14, <1>18, <1>19
    <3>5. i < last => \E m \in DOMAIN page : page[m].id = i BY <1>11, <3>1, <3>2, <3>3
    <3> QED BY <1>16, <3>2, <3>3, <3>4, <3>5
  <2> QED BY <2>1, <2>2
<1> HIDE DEF last
<1>20. z \in Response /\ z.run = r /\ z.after = last BY <1>9, <1>18 DEF Response
<1> HIDE DEF z
<1>21. ~ends => Streamed(z, t, l, k)
  <2> SUFFICES ASSUME ~ends PROVE Streamed(z, t, l, k) OBVIOUS
  <2>1. ASSUME NEW i \in DOMAIN t PROVE t[i].kind # "done"
    <3>1. CASE i \in DOMAIN wi BY <1>9, <1>13, <3>1 DEF Streamed
    <3>2. CASE i - n \in DOMAIN page /\ n + (i - n) = i
      <4>1. t[i] = page[i - n] BY <1>13, <3>2
      <4> QED BY <3>2, <4>1
    <3> QED BY <1>13, <3>1, <3>2
  <2> QED BY <1>18, <1>19, <1>20, <2>1 DEF Streamed
<1> HIDE DEF ends
<1>22. st \in {None} \cup Response /\ Fit(w, st, t, l, k)
  <2>1. CASE ends BY <1>3, <1>9, <1>15, <1>17, <2>1 DEF Fit
  <2>2. CASE ~ends
    <3>1. st = z /\ z # None BY <1>20, <2>2, Untyped
    <3> QED BY <1>3, <1>9, <1>15, <1>20, <1>21, <2>2, <3>1 DEF Fit
  <2> QED BY <2>1, <2>2
<1>23. UNCHANGED <<log, disk, flow, watch, view, suspended>> BY DEF ListEvents
<1> HIDE DEF st
<1> QED BY <1>1, <1>2, <1>3, <1>6, <1>7, <1>10, <1>12, <1>22, <1>23, SubscriptionMoves

LEMMA RunIsChecked ==
  ASSUME FollowingAssumption, FollowInv, NEW f \in Follower, CheckRun(f)
  PROVE  FollowInv' /\ CursorsGrow
<1>1. follower[f] # None
  <2>1. stream[f] # None BY DEF CheckRun
  <2> QED BY <2>1 DEF FollowInv, FollowersHold, FollowerFits
<1>2. PICK w \in Subscription : w = follower[f] BY <1>1, FollowerIs
<1>3. PICK r \in Run : r = w.run BY <1>1, <1>2, FollowerIs
<1>4. PICK s \in Response : s = stream[f] /\ s # None BY <1>1, FollowerIs DEF CheckRun
<1>5. PICK wi \in Seq(Sent) : wi = wire[f] BY <1>1, FollowerIs
<1>6. PICK l \in Seq(Kinds) : l = log[r] /\ Ordered(l) BY <1>1, <1>2, <1>3, FollowerIs
<1>7. PICK k \in Nat : k = cache[r].cursor /\ k \in {0} \cup Public(l)
  BY <1>1, <1>2, <1>3, <1>6, FollowerIs
<1>8. Fit(w, s, wi, l, k) BY <1>1, <1>2, <1>3, <1>4, <1>5, <1>6, <1>7, FollowerIs
<1>9. /\ w.stage = "reading" /\ s.run = r /\ Streamed(s, wi, l, k) /\ Wired(wi, l, k)
      /\ s.after \in Nat /\ RestFits(w.rest, r, l)
  BY <1>3, <1>4, <1>8 DEF Fit, Response
<1> DEFINE over == Status(l) = "ended" /\ s.after >= LastPublic(l)
           z == [s EXCEPT !.stage = "list"]
           st == IF over THEN None ELSE z
<1>10. stream' = [stream EXCEPT ![f] = st] BY <1>4, <1>6, <1>9 DEF CheckRun
<1>11. /\ follower' = [follower EXCEPT ![f] = w] /\ wire' = [wire EXCEPT ![f] = wi]
  BY <1>2, <1>5 DEF CheckRun, FollowInv, FollowersHold
<1>12. z \in Response /\ z.run = r /\ z.after = s.after BY <1>9 DEF Response
<1> HIDE DEF z
<1>13. Streamed(z, wi, l, k) BY <1>9, <1>12 DEF Streamed
<1>14. ASSUME over PROVE Closed(wi, l, k)
  <2>1. Len(l) \in Public(l) /\ LastPublic(l) = Len(l) BY <1>6, <1>14, EndIs
  <2>2. Len(l) \in Nat /\ k <= Len(l) /\ Len(l) <= s.after BY <1>7, <1>9, <1>14, <2>1, PublicIs
  <2>3. Len(l) <= k \/ Len(l) \in Ids(wi) BY <1>9, <2>1, <2>2 DEF Streamed
  <2>4. Len(l) = k \/ Len(l) \in Ids(wi) BY <1>7, <2>2, <2>3
  <2> QED BY <1>14, <2>4 DEF Closed
<1> HIDE DEF over
<1>15. st \in {None} \cup Response /\ Fit(w, st, wi, l, k)
  <2>1. CASE over BY <1>3, <1>9, <1>14, <2>1 DEF Fit
  <2>2. CASE ~over
    <3>1. st = z /\ z # None BY <1>12, <2>2, Untyped
    <3> QED BY <1>3, <1>9, <1>12, <1>13, <3>1 DEF Fit
  <2> QED BY <2>1, <2>2
<1>16. UNCHANGED <<log, disk, flow, watch, view, suspended>> BY DEF CheckRun
<1> HIDE DEF st
<1> QED BY <1>1, <1>2, <1>3, <1>5, <1>6, <1>7, <1>10, <1>11, <1>15, <1>16, SubscriptionMoves

\* A subscription w that reads its run back.
LEMMA ReadsBack ==
  ASSUME FollowingAssumption, NEW w \in Subscription, w.run \in Run, NEW wi, NEW l, NEW k
  PROVE  LET v == [w EXCEPT !.stage = "restoring", !.rest = Request(w.run)]
         IN v \in Subscription /\ v.run = w.run /\ v # None /\ Fit(v, None, wi, l, k)
<1> DEFINE q == Request(w.run)  v == [w EXCEPT !.stage = "restoring", !.rest = q]
<1>1. q \in Read /\ RestFits(q, w.run, l) BY RequestFits
<1> HIDE DEF q
<1>2. v \in Subscription /\ v.run = w.run /\ v.stage = "restoring" /\ v.rest = q
  BY <1>1 DEF Subscription
<1> HIDE DEF v
<1>3. Fit(v, None, wi, l, k) BY <1>1, <1>2 DEF Fit
<1>4. v # None BY <1>2, Untyped
<1> QED BY <1>2, <1>3, <1>4 DEF v, q

LEMMA StreamEnds ==
  ASSUME FollowingAssumption, FollowInv, NEW f \in Follower, EndOfStream(f) \/ BreakStream(f)
  PROVE  FollowInv' /\ CursorsGrow
<1>1. follower[f] # None BY DEF EndOfStream, BreakStream, Follows
<1>2. PICK w \in Subscription : w = follower[f] BY <1>1, FollowerIs
<1>3. w.run \in Run BY <1>1, <1>2, FollowerIs
<1>4. PICK wi \in Seq(Sent) : wi = IF EndOfStream(f) THEN wire[f] ELSE <<>>
  <2>1. wire[f] \in Seq(Sent) /\ <<>> \in Seq(Sent) BY <1>1, FollowerIs, EmptySeq
  <2> QED BY <2>1
<1> DEFINE v == [w EXCEPT !.stage = "restoring", !.rest = Request(w.run)]
<1>5. /\ follower' = [follower EXCEPT ![f] = v] /\ stream' = [stream EXCEPT ![f] = None]
      /\ wire' = [wire EXCEPT ![f] = wi]
      /\ UNCHANGED <<log, disk, flow, watch, view, suspended>>
  <2>1. CASE EndOfStream(f)
    <3>1. stream = [stream EXCEPT ![f] = None] /\ wire = [wire EXCEPT ![f] = wi]
      BY <1>4, <2>1 DEF EndOfStream, FollowInv, FollowersHold
    <3> QED BY <1>2, <2>1, <3>1 DEF EndOfStream, Goes, server
  <2>2. CASE ~EndOfStream(f)
    <3>1. BreakStream(f) /\ wi = <<>> BY <1>4, <2>2
    <3> QED BY <1>2, <3>1 DEF BreakStream, Cut, Goes
  <2> QED BY <2>1, <2>2
<1>6. /\ v \in Subscription /\ v.run = w.run
      /\ Fit(v, None, wi, log[v.run], cache[v.run].cursor)
  BY <1>3, ReadsBack
<1> HIDE DEF v
<1> QED BY <1>1, <1>2, <1>4, <1>5, <1>6, SubscriptionMoves

LEMMA FollowerIsServed ==
  ASSUME FollowingAssumption, FollowInv, NEW f \in Follower, ServeFollower(f)
  PROVE  FollowInv' /\ CursorsGrow
<1>1. follower[f] # None /\ Pending(follower[f].rest) BY DEF ServeFollower
<1>2. PICK w \in Subscription : w = follower[f] BY <1>1, FollowerIs
<1>3. PICK r \in Run : r = w.run BY <1>1, <1>2, FollowerIs
<1>4. PICK st \in {None} \cup Response : st = stream[f] BY <1>1, FollowerIs
<1>5. PICK wi \in Seq(Sent) : wi = wire[f] BY <1>1, FollowerIs
<1>6. Fit(w, st, wi, log[r], cache[r].cursor) BY <1>1, <1>2, <1>3, <1>4, <1>5, FollowerIs
<1>7. w.rest \in {None} \cup Read /\ RestFits(w.rest, r, log[r]) /\ Pending(w.rest)
  BY <1>1, <1>2, <1>3, <1>6 DEF Fit, Subscription
<1>8. PICK q \in Read : q = Serve(w.rest) /\ RestFits(q, r, log[r])
  BY <1>7, ServeFits DEF FollowInv
<1> DEFINE v == [w EXCEPT !.rest = q]
<1>9. follower' = [follower EXCEPT ![f] = v]
  BY <1>2, <1>8 DEF ServeFollower
<1>10. /\ v \in Subscription /\ v.run = r /\ v.stage = w.stage /\ v.rest = q /\ v.cursor = w.cursor
  BY <1>3 DEF Subscription
<1> HIDE DEF v
<1>11. Fit(v, st, wi, log[r], cache[r].cursor) BY <1>3, <1>6, <1>8, <1>10 DEF Fit
<1>12. stream' = [stream EXCEPT ![f] = st] /\ wire' = [wire EXCEPT ![f] = wi]
  BY <1>4, <1>5 DEF ServeFollower, server, FollowInv, FollowersHold
<1>13. UNCHANGED <<log, disk, flow, watch, view, suspended>> BY DEF ServeFollower, server
<1> QED BY <1>1, <1>2, <1>3, <1>9, <1>10, <1>11, <1>12, <1>13, SubscriptionMoves

LEMMA EventIsRead ==
  ASSUME FollowingAssumption, FollowInv, NEW f \in Follower, ReadEvent(f)
  PROVE  FollowInv' /\ CursorsGrow
<1>1. follower[f] # None /\ follower[f].stage = "reading" /\ wire[f] # <<>>
  BY DEF ReadEvent, Follows
<1>2. PICK w \in Subscription : w = follower[f] BY <1>1, FollowerIs
<1>3. PICK r \in Run : r = w.run BY <1>1, <1>2, FollowerIs
<1>4. PICK st \in {None} \cup Response : st = stream[f] BY <1>1, FollowerIs
<1>5. PICK wi \in Seq(Sent) : wi = wire[f] BY <1>1, FollowerIs
<1>6. PICK l \in Seq(Kinds) : l = log[r] /\ Ordered(l) BY <1>1, <1>2, <1>3, FollowerIs
<1>7. PICK b \in Record : b = cache[r] /\ b # None BY <1>1, <1>2, <1>3, FollowerIs
<1>8. PICK k \in Nat : k = b.cursor /\ k \in {0} \cup Public(l)
  BY <1>1, <1>2, <1>3, <1>6, <1>7, FollowerIs
<1>9. Fit(w, st, wi, l, k) BY <1>1, <1>2, <1>3, <1>4, <1>5, <1>6, <1>7, <1>8, FollowerIs
<1>10. /\ w.stage = "reading" /\ Wired(wi, l, k) /\ (st = None => Closed(wi, l, k))
       /\ (st # None => st.run = r /\ Streamed(st, wi, l, k)) /\ RestFits(w.rest, r, l)
       /\ wi # <<>>
  BY <1>1, <1>2, <1>3, <1>5, <1>9 DEF Fit
<1>11. /\ DOMAIN wi = 1 .. Len(wi) /\ 1 \in DOMAIN wi /\ Head(wi) = wi[1]
  <2>1. DOMAIN wi = 1 .. Len(wi) /\ Len(wi) \in Nat /\ Len(wi) # 0 BY <1>10, EmptySeq
  <2> QED BY <2>1
<1> DEFINE e == Head(wi)  c == Applied(b, e)
<1>12. /\ e \in Sent /\ e.id \in Public(l) /\ e.kind = l[e.id] /\ e.id \in Nat
  <2>1. wi[1] \in Sent BY <1>11
  <2> QED BY <1>10, <1>11, <2>1 DEF Wired, Sent
<1>13. \A i \in Public(l) : i < e.id => i <= b.cursor
  <2>1. \A m \in DOMAIN wi : ~(m < 1) BY <1>11
  <2> QED BY <1>8, <1>10, <1>11, <2>1 DEF Wired
<1>14. CacheFits(b, l) BY <1>6, <1>7 DEF FollowInv, CachesHold
<1> HIDE DEF e
<1>15. c \in Record /\ CacheFits(c, l) /\ c.cursor >= b.cursor /\ c.cursor >= e.id
  BY <1>12, <1>13, <1>14, AppliedFits
<1>16. PICK k2 \in Nat : k2 = c.cursor /\ k2 \in {0} \cup Public(l) /\ k <= k2 /\ e.id <= k2
  <2>1. c # None BY <1>15, Untyped
  <2>2. c.cursor \in Nat /\ b.cursor \in Nat BY <1>15 DEF Record
  <2> QED BY <1>8, <1>12, <1>15, <2>1, <2>2 DEF CacheFits
<1>17. cache' = [cache EXCEPT ![r] = c]
  BY <1>2, <1>3, <1>5, <1>7 DEF ReadEvent, e
<1> HIDE DEF c
<1>18. UNCHANGED <<log, selected, flow, watch, suspended>> BY DEF ReadEvent
<1>19. LogsHold' /\ LogsGrow BY <1>18, LogsStay DEF FollowInv
<1>20. c # None BY <1>15, Untyped
<1>21. /\ cache' \in [Run -> {None} \cup Record] /\ cache'[r] = c
       /\ \A x \in Run : x # r => cache'[x] = cache[x]
  BY <1>15, <1>17 DEF FollowInv, CachesHold
<1>22. CachesHold'
  <2>1. \A x \in Run : CacheFits(cache'[x], log'[x])
    BY <1>6, <1>15, <1>18, <1>21 DEF FollowInv, CachesHold
  <2> QED BY <1>18, <1>21, <2>1 DEF FollowInv, CachesHold
<1>23. CursorsGrow
  <2> SUFFICES ASSUME NEW x \in Run, cache[x] # None
               PROVE  cache'[x] # None /\ cache[x].cursor <= cache'[x].cursor
    BY DEF CursorsGrow
  <2>1. cache[x].cursor \in Nat BY CursorIs DEF FollowInv
  <2>2. CASE x = r BY <1>7, <1>8, <1>16, <1>20, <1>21, <2>2
  <2>3. CASE x # r BY <1>21, <2>1, <2>3
  <2> QED BY <2>2, <2>3
<1> DEFINE t == Tail(wi)
<1>24. /\ t \in Seq(Sent) /\ Wired(t, l, k2)
       /\ \A x \in Response : Streamed(x, wi, l, k) => Streamed(x, t, l, k2)
       /\ Closed(wi, l, k) => Closed(t, l, k2)
  BY <1>6, <1>10, <1>16, ReadFits DEF e
<1> HIDE DEF t
<1> DEFINE next == IF e.kind = "done" THEN [w EXCEPT !.stage = "restoring", !.rest = Request(w.run)]
                   ELSE w
<1>25. next \in Subscription /\ next.run = r /\ next # None /\ Fit(next, st, t, l, k2)
  <2>1. CASE e.kind = "done"
    <3>1. next \in Subscription /\ next.run = r /\ next # None /\ Fit(next, None, t, l, k2)
      BY <1>3, <2>1, ReadsBack
    <3>2. st = None BY <1>10, <1>11, <2>1 DEF Streamed, e
    <3> HIDE DEF next
    <3> QED BY <3>1, <3>2
  <2>2. CASE e.kind # "done"
    <3>1. next = w /\ w # None BY <2>2, Untyped
    <3>2. Fit(w, st, t, l, k2)
      <4>1. st # None => Streamed(st, t, l, k2) BY <1>10, <1>24
      <4> QED BY <1>3, <1>10, <1>24, <4>1 DEF Fit
    <3> QED BY <1>3, <3>1, <3>2
  <2> QED BY <2>1, <2>2
<1>26. /\ watching = f => /\ follower' = [follower EXCEPT ![f] = next] /\ stream' = stream
                          /\ wire' = [wire EXCEPT ![f] = t]
                          /\ view' = Shown(r, c.status, "ready")
       /\ watching # f => /\ follower' = [follower EXCEPT ![f] = None]
                          /\ stream' = [stream EXCEPT ![f] = None]
                          /\ wire' = [wire EXCEPT ![f] = <<>>]
                          /\ view' = view
  BY <1>2, <1>3, <1>5, <1>7 DEF ReadEvent, Emit, Yields, Goes, e, c, t
<1> HIDE DEF next
<1>27. <<>> \in Seq(Sent) BY EmptySeq
<1>28. /\ follower' \in [Follower -> {None} \cup Subscription]
       /\ stream' \in [Follower -> {None} \cup Response]
       /\ wire' \in [Follower -> Seq(Sent)]
       /\ \A g \in Follower : g # f =>
            follower'[g] = follower[g] /\ stream'[g] = stream[g] /\ wire'[g] = wire[g]
       /\ watching = f => follower'[f] = next /\ stream'[f] = st /\ wire'[f] = t
       /\ watching # f => follower'[f] = None /\ stream'[f] = None
  <2>1. CASE watching = f
    <3>1. follower' = [follower EXCEPT ![f] = next] /\ stream' = stream
          /\ wire' = [wire EXCEPT ![f] = t]
      BY <1>26, <2>1
    <3>2. /\ follower \in [Follower -> {None} \cup Subscription]
          /\ stream \in [Follower -> {None} \cup Response]
          /\ wire \in [Follower -> Seq(Sent)]
      BY DEF FollowInv, FollowersHold
    <3>3. /\ follower' \in [Follower -> {None} \cup Subscription] /\ follower'[f] = next
          /\ \A g \in Follower : g # f => follower'[g] = follower[g]
      BY <1>25, <3>1, <3>2
    <3>4. stream' \in [Follower -> {None} \cup Response] /\ stream'[f] = st
      BY <1>4, <3>1, <3>2
    <3>5. /\ wire' \in [Follower -> Seq(Sent)] /\ wire'[f] = t
          /\ \A g \in Follower : g # f => wire'[g] = wire[g]
      BY <1>24, <3>1, <3>2
    <3> QED BY <2>1, <3>1, <3>3, <3>4, <3>5
  <2>2. CASE watching # f
    <3>1. follower' = [follower EXCEPT ![f] = None] /\ stream' = [stream EXCEPT ![f] = None]
          /\ wire' = [wire EXCEPT ![f] = <<>>]
      BY <1>26, <2>2
    <3>2. /\ follower' \in [Follower -> {None} \cup Subscription] /\ follower'[f] = None
          /\ \A g \in Follower : g # f => follower'[g] = follower[g]
      BY <3>1 DEF FollowInv, FollowersHold
    <3>3. /\ stream' \in [Follower -> {None} \cup Response] /\ stream'[f] = None
          /\ \A g \in Follower : g # f => stream'[g] = stream[g]
      BY <3>1 DEF FollowInv, FollowersHold
    <3>4. /\ wire' \in [Follower -> Seq(Sent)]
          /\ \A g \in Follower : g # f => wire'[g] = wire[g]
      BY <1>27, <3>1 DEF FollowInv, FollowersHold
    <3> QED BY <2>2, <3>2, <3>3, <3>4
  <2> QED BY <2>1, <2>2
<1>29. FollowerFits(f)'
  <2>1. CASE watching = f
    <3>1. log'[r] = l BY <1>6, <1>18
    <3> QED BY <1>16, <1>20, <1>21, <1>25, <1>28, <2>1, <3>1 DEF FollowerFits
  <2>2. CASE watching # f BY <1>28, <2>2 DEF FollowerFits
  <2> QED BY <2>1, <2>2
<1>30. FollowersHold' BY <1>19, <1>22, <1>23, <1>28, <1>29, OneFollowerChanges DEF FollowInv
<1>31. FlowsHold' BY <1>18, <1>19, FlowsStay DEF FollowInv
<1>32. ViewHolds'
  <2>1. CASE watching = f
    <3>1. c.status \in {"live", "ended"} BY <1>15 DEF Record
    <3>2. c.status = "ended" => Status(log'[r]) = "ended" BY <1>6, <1>15, <1>18, <1>20 DEF CacheFits
    <3> QED BY <1>20, <1>21, <1>26, <2>1, <3>1, <3>2, ShownHolds
  <2>2. CASE watching # f
    <3>1. view.phase \in {"ready", "recovering", "error"} /\ view' = [view EXCEPT !.phase = view.phase]
      BY <1>26, <2>2, SameView DEF FollowInv
    <3> QED BY <1>19, <1>23, <3>1, ViewStays DEF FollowInv
  <2> QED BY <2>1, <2>2
<1>33. WatchHolds'
  <2>1. watching # None => follower'[watching] # None
    BY <1>25, <1>28 DEF FollowInv, WatchHolds
  <2> QED BY <1>18, <1>23, <2>1 DEF FollowInv, WatchHolds, watch, CursorsGrow
<1>34. StaysWatched'
  <2>1. CASE watching = f
    <3>1. watching' # None BY <1>18, <2>1, Untyped DEF watch
    <3> QED BY <3>1 DEF StaysWatched, Watched
  <2>2. CASE watching # f
    BY <1>18, <1>26, <2>2 DEF FollowInv, StaysWatched, Rests, Watched, Counts, watch
  <2> QED BY <2>1, <2>2
<1> QED BY <1>19, <1>22, <1>23, <1>30, <1>31, <1>32, <1>33, <1>34 DEF FollowInv

\* A subscription is over.
LEMMA FollowerLeaves ==
  ASSUME FollowingAssumption, LogsHold, LogsHold', LogsGrow, CachesHold, CachesHold', CursorsGrow,
         FollowersHold, NEW f \in Follower, follower' = [follower EXCEPT ![f] = None],
         stream' = [stream EXCEPT ![f] = None], wire' = [wire EXCEPT ![f] = <<>>]
  PROVE  FollowersHold' /\ \A g \in Follower : g # f => follower'[g] = follower[g]
<1>1. /\ follower' \in [Follower -> {None} \cup Subscription] /\ follower'[f] = None
      /\ \A g \in Follower : g # f => follower'[g] = follower[g]
  BY DEF FollowersHold
<1>2. /\ stream' \in [Follower -> {None} \cup Response] /\ stream'[f] = None
      /\ \A g \in Follower : g # f => stream'[g] = stream[g]
  BY DEF FollowersHold
<1>3. /\ wire' \in [Follower -> Seq(Sent)]
      /\ \A g \in Follower : g # f => wire'[g] = wire[g]
  BY EmptySeq DEF FollowersHold
<1>4. FollowerFits(f)' BY <1>1, <1>2 DEF FollowerFits
<1> QED BY <1>1, <1>2, <1>3, <1>4, OneFollowerChanges

\* What was watched is over, and may be retried.
LEMMA RetryHolds ==
  ASSUME FollowingAssumption, WatchHolds, CursorsGrow, NEW r \in Run, cache'[r] # None,
         UNCHANGED suspended, watching' = None,
         ScheduleRetry(r) \/ UNCHANGED <<timer, attempts>>
  PROVE  /\ WatchHolds'
         /\ ScheduleRetry(r) => suspended \/ Watched'
<1>1. CASE UNCHANGED <<timer, attempts>> /\ ~ScheduleRetry(r)
  BY <1>1 DEF WatchHolds, CursorsGrow
<1>2. CASE ScheduleRetry(r)
  <2>1. CASE attempts >= MaxAttempts \/ suspended
    <3>1. UNCHANGED <<timer, attempts>> BY <1>2, <2>1 DEF ScheduleRetry
    <3>2. WatchHolds' BY <3>1 DEF WatchHolds, CursorsGrow
    <3>3. suspended \/ attempts = MaxAttempts BY <2>1 DEF WatchHolds, MaxAttempts
    <3> QED BY <3>1, <3>2, <3>3 DEF Watched
  <2>2. CASE ~(attempts >= MaxAttempts \/ suspended)
    <3>1. timer' = r /\ attempts' = attempts + 1 BY <1>2, <2>2 DEF ScheduleRetry
    <3>2. attempts + 1 \in 0 .. MaxAttempts BY <2>2 DEF WatchHolds, MaxAttempts
    <3>3. r # None BY Untyped
    <3> QED BY <3>1, <3>2, <3>3 DEF WatchHolds, Watched
  <2> QED BY <2>1, <2>2
<1> QED BY <1>1, <1>2

LEMMA RunIsReadBack ==
  ASSUME FollowingAssumption, FollowInv, NEW f \in Follower, RestoreRun(f)
  PROVE  FollowInv' /\ CursorsGrow
<1>1. follower[f] # None /\ Answered(follower[f].rest) BY DEF RestoreRun, Follows
<1>2. PICK w \in Subscription : w = follower[f] BY <1>1, FollowerIs
<1>3. PICK r \in Run : r = w.run BY <1>1, <1>2, FollowerIs
<1>4. RestFits(w.rest, r, log[r]) /\ w.rest \in {None} \cup Read
  BY <1>1, <1>2, <1>3, FollowerIs DEF Fit, Subscription
<1>5. PICK s \in {"live", "ended"} :
        s = Status(w.rest.row) /\ (s = "ended" => Status(log[r]) = "ended")
  BY <1>1, <1>2, <1>4, AnswerIsTrue DEF FollowInv
<1>6. UNCHANGED <<log, selected, flow, suspended>> BY DEF RestoreRun
<1>7. SaveRun(r, s) BY <1>2, <1>3, <1>5 DEF RestoreRun
<1>8. LogsHold' /\ LogsGrow BY <1>6, LogsStay DEF FollowInv
<1>9. CachesHold' /\ CursorsGrow /\ cache'[r] # None BY <1>5, <1>6, <1>7, RunIsSaved DEF FollowInv
<1>10. /\ FollowersHold'
       /\ \A g \in Follower : g # f => follower'[g] = follower[g]
  <2>1. /\ follower' = [follower EXCEPT ![f] = None] /\ stream' = [stream EXCEPT ![f] = None]
        /\ wire' = [wire EXCEPT ![f] = <<>>]
    BY DEF RestoreRun
  <2> QED BY <1>8, <1>9, <2>1, FollowerLeaves DEF FollowInv
<1>11. FlowsHold' BY <1>6, <1>8, FlowsStay DEF FollowInv
<1>12. CASE watching # f
  <2>1. UNCHANGED <<view, watch>> BY <1>12 DEF RestoreRun
  <2>2. watching # None => follower'[watching] # None
    BY <1>10, <1>12 DEF FollowInv, WatchHolds
  <2> QED BY <1>6, <1>8, <1>9, <1>10, <2>1, <2>2, Frame
<1>13. CASE watching = f
  <2> DEFINE p == IF w.fatal THEN "error" ELSE "ready"
  <2>1. /\ view' = Shown(r, s, p) /\ watching' = None
        /\ IF w.fatal \/ s = "ended" THEN UNCHANGED <<timer, attempts>> ELSE ScheduleRetry(r)
    BY <1>2, <1>3, <1>5, <1>13 DEF RestoreRun
  <2>2. p \in {"ready", "recovering", "error"} /\ (w.fatal => p = "error") OBVIOUS
  <2> HIDE DEF p
  <2>3. ViewHolds' BY <1>5, <1>6, <1>9, <2>1, <2>2, ShownHolds
  <2>4. /\ WatchHolds'
        /\ ScheduleRetry(r) => suspended \/ Watched'
    BY <1>6, <1>9, <2>1, RetryHolds DEF FollowInv
  <2>5. StaysWatched'
    <3>1. view'.status = s /\ view'.phase = p BY <2>1 DEF Shown
    <3>2. CASE w.fatal \/ s = "ended"
      <4>1. ~Rests' BY <2>2, <3>1, <3>2 DEF Rests
      <4> QED BY <4>1 DEF StaysWatched
    <3>3. CASE ~(w.fatal \/ s = "ended")
      <4>1. suspended \/ Watched' BY <2>1, <2>4, <3>3
      <4>2. suspended => ~Rests' BY <1>6 DEF Rests
      <4> QED BY <4>1, <4>2 DEF StaysWatched
    <3> QED BY <3>2, <3>3
  <2> QED BY <1>8, <1>9, <1>10, <1>11, <2>3, <2>4, <2>5 DEF FollowInv
<1> QED BY <1>12, <1>13

LEMMA RestBreaks ==
  ASSUME FollowingAssumption, FollowInv, NEW f \in Follower, BreakRest(f)
  PROVE  FollowInv' /\ CursorsGrow
<1>1. follower[f] # None BY DEF BreakRest
<1>2. PICK r \in Run : r = follower[f].run BY <1>1, FollowerIs
<1>3. UNCHANGED <<log, disk, flow, suspended>> BY DEF BreakRest
<1>4. LogsHold' /\ LogsGrow BY <1>3, LogsStay DEF FollowInv
<1>5. CachesHold' /\ CursorsGrow BY <1>3, <1>4, CachesStay DEF FollowInv
<1>6. cache'[r] # None BY <1>1, <1>2, <1>3, FollowerIs DEF disk
<1>7. /\ FollowersHold'
      /\ \A g \in Follower : g # f => follower'[g] = follower[g]
  <2>1. /\ follower' = [follower EXCEPT ![f] = None] /\ stream' = [stream EXCEPT ![f] = None]
        /\ wire' = [wire EXCEPT ![f] = <<>>]
    BY DEF BreakRest
  <2> QED BY <1>4, <1>5, <2>1, FollowerLeaves DEF FollowInv
<1>8. FlowsHold' BY <1>3, <1>4, FlowsStay DEF FollowInv
<1>9. CASE watching # f
  <2>1. UNCHANGED <<view, watch>> BY <1>9 DEF BreakRest, FailWatch
  <2>2. watching # None => follower'[watching] # None
    BY <1>7, <1>9 DEF FollowInv, WatchHolds
  <2> QED BY <1>3, <1>4, <1>5, <1>7, <2>1, <2>2, Frame
<1>10. CASE watching = f
  <2>1. /\ view' = [view EXCEPT !.phase = "error"] /\ watching' = None /\ ScheduleRetry(r)
    BY <1>2, <1>10 DEF BreakRest, FailWatch
  <2>2. ViewHolds' BY <1>4, <1>5, <2>1, ViewStays DEF FollowInv
  <2>3. WatchHolds' BY <1>3, <1>5, <1>6, <2>1, RetryHolds DEF FollowInv
  <2>4. StaysWatched'
    <3>1. view'.phase = "error" BY <2>1 DEF FollowInv, ViewHolds
    <3> QED BY <3>1 DEF StaysWatched, Rests
  <2> QED BY <1>4, <1>5, <1>7, <1>8, <2>2, <2>3, <2>4 DEF FollowInv
<1> QED BY <1>9, <1>10

LEMMA TimerIsOver ==
  ASSUME FollowingAssumption, FollowInv, TimerFires
  PROVE  FollowInv' /\ CursorsGrow
<1>1. PICK r \in Run : r = timer /\ timer # None /\ cache[r] # None
  BY DEF TimerFires, FollowInv, WatchHolds
<1>2. UNCHANGED <<log, stream, wire, disk, flow, view, suspended>> BY DEF TimerFires, server
<1>3. PICK f \in Follower : BeginWatching(f, r, TRUE) BY <1>1 DEF TimerFires
<1>4. LogsHold' /\ LogsGrow BY <1>2, LogsStay DEF FollowInv
<1>5. CachesHold' /\ CursorsGrow BY <1>2, <1>4, CachesStay DEF FollowInv
<1>6. cache'[r] # None BY <1>1, <1>2 DEF disk
<1>7. /\ FollowersHold' /\ WatchHolds'
      /\ ~suspended => watching' = f
      /\ suspended => UNCHANGED <<follower, watch>>
  BY <1>2, <1>3, <1>4, <1>5, <1>6, WatchBegins DEF FollowInv
<1>8. FlowsHold' BY <1>2, <1>4, FlowsStay DEF FollowInv
<1>9. ViewHolds'
  <2>1. view.phase \in {"ready", "recovering", "error"} /\ view' = [view EXCEPT !.phase = view.phase]
    BY <1>2, SameView DEF FollowInv
  <2> QED BY <1>4, <1>5, <2>1, ViewStays DEF FollowInv
<1>10. StaysWatched'
  <2>1. CASE suspended BY <1>2, <2>1 DEF StaysWatched, Rests
  <2>2. CASE ~suspended
    <3>1. watching' # None BY <1>7, <2>2, Untyped
    <3> QED BY <3>1 DEF StaysWatched, Watched
  <2> QED BY <2>1, <2>2
<1> QED BY <1>4, <1>5, <1>7, <1>8, <1>9, <1>10 DEF FollowInv

\* No cursor is beyond the log, as long as the tables are not put back.
LEMMA CursorsAreValid ==
  ASSUME FollowingAssumption, FollowInv, NEW f \in Follower
  PROVE  ~InvalidCursor(f) /\ ~ResetEvents(f) /\ ~StreamRaises(f)
<1>1. ASSUME follower[f] # None
      PROVE  /\ follower[f].stage # "resetting"
             /\ follower[f].stage = "opening" =>
                  ~(follower[f].cursor > LastPublic(log[follower[f].run]))
             /\ stream[f] # None => ~(stream[f].after > LastPublic(log[stream[f].run]))
  <2>1. PICK w \in Subscription : w = follower[f] BY <1>1, FollowerIs
  <2>2. PICK r \in Run : r = w.run BY <1>1, <2>1, FollowerIs
  <2>3. PICK l \in Seq(Kinds) : l = log[r] BY <1>1, <2>1, <2>2, FollowerIs
  <2>4. Fit(w, stream[f], wire[f], l, cache[r].cursor)
    BY <1>1, <2>1, <2>2, <2>3, FollowerIs
  <2>5. /\ LastPublic(l) \in Nat /\ (\A i \in Public(l) : i <= LastPublic(l))
        /\ \A i \in Public(l) : i \in Nat
    BY LastPublicIs, PublicIs
  <2>6. \A i \in {0} \cup Public(l) : ~(i > LastPublic(l)) BY <2>5
  <2>7. w.stage = "opening" => ~(w.cursor > LastPublic(l)) BY <2>4, <2>6 DEF Fit
  <2>8. stream[f] # None => stream[f].run = r /\ ~(stream[f].after > LastPublic(l))
    BY <2>2, <2>4, <2>6 DEF Fit, Streamed
  <2> QED BY <2>1, <2>2, <2>3, <2>4, <2>7, <2>8 DEF Fit
<1>2. ~InvalidCursor(f) BY <1>1 DEF InvalidCursor, Follows
<1>3. ~ResetEvents(f) BY <1>1 DEF ResetEvents, Follows
<1>4. ~StreamRaises(f)
  <2> SUFFICES ASSUME StreamRaises(f) PROVE FALSE OBVIOUS
  <2>1. stream[f] # None /\ stream[f].after > LastPublic(log[stream[f].run]) BY DEF StreamRaises
  <2>2. follower[f] # None BY <2>1 DEF FollowInv, FollowersHold, FollowerFits
  <2> QED BY <1>1, <2>1, <2>2
<1> QED BY <1>2, <1>3, <1>4

LEMMA FollowerMoves ==
  ASSUME FollowingAssumption, FollowInv, NEW f \in Follower,
         FollowerStep(f) \/ BreakStream(f) \/ BreakRest(f)
  PROVE  FollowInv' /\ CursorsGrow
BY CursorsAreValid, StreamOpens, EventsAreListed, RunIsChecked, EventIsRead, StreamEnds,
   RunIsReadBack, FollowerIsServed, RestBreaks DEF FollowerStep

-----------------------------------------------------------------------------
(* The calls of the view model                                             *)

LEMMA NewFlowIs ==
  ASSUME FollowingAssumption, NEW kind \in {"open", "refresh", "settings"},
         NEW stage \in {"stopping", "restoring", "listing", "listed"}, NEW r \in {None} \cup Run
  PROVE  \E o \in Operation :
           /\ o = NewFlow(kind, stage, r) /\ o # None /\ o.kind = kind /\ o.stage = stage
           /\ o.run = r /\ o.waits = None /\ o.rest = None
<1> DEFINE list == [x \in Run |-> <<>>]
           o == [kind |-> kind, stage |-> stage, run |-> r, waits |-> None, valid |-> TRUE,
                 rest |-> None, list |-> list]
<1>1. list \in [Run -> Seq(Kinds)] BY EmptySeq
<1>2. NewFlow(kind, stage, r) = o BY DEF NewFlow
<1> HIDE DEF list
<1>3. o \in Operation BY <1>1 DEF Operation
<1>4. o # None BY <1>3, Untyped
<1> QED BY <1>2, <1>3, <1>4

LEMMA NewFlowCounts ==
  ASSUME NEW kind, NEW stage, NEW r PROVE NewFlow(kind, stage, r).valid = TRUE
BY Zenon DEF NewFlow

\* A new call that has no run yet, or has just been given one.
LEMMA NewFlowFits ==
  ASSUME FollowingAssumption, NEW o \in Operation, NEW logs, o.rest = None,
         o.stage \in {"stopping", "listing"}, o.kind = "open" => o.run \in Run
  PROVE  OperationFits(o, logs)
BY DEF OperationFits

LEMMA RefreshingIs ==
  ASSUME FollowingAssumption, NEW r \in {None} \cup Run, NEW logs
  PROVE  /\ Refreshing(r) \in Operation /\ Refreshing(r) # None
         /\ OperationFits(Refreshing(r), logs)
<1>1. CASE r = None
  <2> DEFINE o == NewFlow("refresh", "listing", None)
  <2>1. /\ o \in Operation /\ o # None /\ o.kind = "refresh" /\ o.stage = "listing"
        /\ o.rest = None
    BY NewFlowIs
  <2>2. Refreshing(r) = o BY <1>1 DEF Refreshing
  <2> HIDE DEF o
  <2>3. OperationFits(o, logs) BY <2>1, NewFlowFits
  <2> QED BY <2>1, <2>2, <2>3
<1>2. CASE r # None
  <2> DEFINE o == NewFlow("refresh", "restoring", r)  q == Request(r)
             z == [o EXCEPT !.rest = q]
  <2>1. /\ o \in Operation /\ o.kind = "refresh" /\ o.stage = "restoring" /\ o.run = r
    BY NewFlowIs
  <2>2. q \in Read /\ RestFits(q, r, logs[r]) /\ r \in Run BY <1>2, RequestFits
  <2>3. Refreshing(r) = z BY <1>2 DEF Refreshing
  <2> HIDE DEF o, q
  <2>4. /\ z \in Operation /\ z.kind = "refresh" /\ z.stage = "restoring" /\ z.run = r
        /\ z.rest = q
    BY <2>1, <2>2 DEF Operation
  <2> HIDE DEF z
  <2>5. OperationFits(z, logs) BY <2>2, <2>4 DEF OperationFits
  <2> QED BY <2>3, <2>4, <2>5, Untyped
<1> QED BY <1>1, <1>2

LEMMA RefreshingCounts ==
  ASSUME NEW r PROVE Refreshing(r).valid = TRUE
BY Zenon, NewFlowCounts DEF Refreshing, NewFlow

\* What a step that leaves the tables and the subscriptions alone keeps.
LEMMA Quiet ==
  ASSUME FollowingAssumption, FollowInv, UNCHANGED <<log, disk>>
  PROVE  /\ LogsHold' /\ LogsGrow /\ CachesHold' /\ CursorsGrow
         /\ UNCHANGED <<follower, stream, wire>> => FollowersHold'
         /\ UNCHANGED view => ViewHolds'
<1>1. LogsHold' /\ LogsGrow BY LogsStay DEF FollowInv
<1>2. CachesHold' /\ CursorsGrow BY <1>1, CachesStay DEF FollowInv
<1>3. UNCHANGED <<follower, stream, wire>> => FollowersHold'
  BY <1>1, <1>2, FollowersStay DEF FollowInv
<1>4. ASSUME UNCHANGED view PROVE ViewHolds'
  <2>1. view.phase \in {"ready", "recovering", "error"} /\ view' = [view EXCEPT !.phase = view.phase]
    BY <1>4, SameView DEF FollowInv
  <2> QED BY <1>1, <1>2, <2>1, ViewStays DEF FollowInv
<1> QED BY <1>1, <1>2, <1>3, <1>4

\* A call that counts keeps the screen watched.
LEMMA CallCounts ==
  ASSUME FollowingAssumption, NEW w \in Flow, flow'[w] # None, flow'[w].valid
  PROVE  StaysWatched'
BY DEF StaysWatched, Counts

\* A call that goes on, and one that does not count, leave the screen as watched as it was.
LEMMA OthersCount ==
  ASSUME FollowingAssumption, FollowInv, NEW w \in Flow,
         \A x \in Flow : x # w => flow'[x] = flow[x],
         Counts(w) => flow'[w] # None /\ flow'[w].valid,
         UNCHANGED <<view, watch, suspended>>
  PROVE  StaysWatched'
BY DEF FollowInv, StaysWatched, Rests, Watched, Counts, watch

\* What is known of a call.
LEMMA FlowIs ==
  ASSUME FollowingAssumption, FollowInv, NEW w \in Flow, flow[w] # None
  PROVE  /\ flow[w] \in Operation /\ OperationFits(flow[w], log)
         /\ flow[w].rest \in {None} \cup Read /\ flow[w].valid \in BOOLEAN
         /\ flow[w].list \in [Run -> Seq(Kinds)]
<1>1. flow[w] \in Operation /\ OperationFits(flow[w], log) BY DEF FollowInv, FlowsHold
<1>2. flow[w].rest \in {None} \cup Read /\ flow[w].list \in [Run -> Seq(Kinds)]
  BY <1>1 DEF Operation
<1>3. flow[w].valid \in BOOLEAN BY <1>1, Zenon DEF Operation
<1> QED BY <1>1, <1>2, <1>3

LEMMA WatchIsStopped ==
  ASSUME FollowingAssumption, WatchHolds, StopWatching, suspended' \in BOOLEAN
  PROVE  WatchHolds'
BY DEF WatchHolds, StopWatching

LEMMA WatchStays ==
  ASSUME FollowingAssumption, WatchHolds, CursorsGrow, UNCHANGED <<watch, follower>>,
         suspended' \in BOOLEAN
  PROVE  WatchHolds'
BY DEF WatchHolds, watch, CursorsGrow

LEMMA RunIsOpened ==
  ASSUME FollowingAssumption, FollowInv, NEW w \in Flow, NEW r \in Run, OpenRun(w, r)
  PROVE  FollowInv' /\ CursorsGrow
<1> DEFINE n == NewFlow("open", "stopping", r)  o == [n EXCEPT !.waits = watching]
<1>1. /\ n \in Operation /\ n.kind = "open" /\ n.stage = "stopping" /\ n.run = r
      /\ n.rest = None
  BY NewFlowIs
<1>10. o.valid = TRUE BY Zenon DEF NewFlow
<1>2. flow' = [flow EXCEPT ![w] = o] /\ UNCHANGED <<log, stream, wire, disk, follower, view, suspended>>
  BY DEF OpenRun, server
<1> HIDE DEF n
<1>3. watching \in {None} \cup Follower BY DEF FollowInv, WatchHolds
<1>4. /\ o \in Operation /\ o.kind = "open" /\ o.stage = "stopping" /\ o.run = r
      /\ o.rest = None
  BY <1>1, <1>3 DEF Operation
<1> HIDE DEF o
<1>5. OperationFits(o, log') /\ o # None BY <1>4, NewFlowFits, Untyped
<1>6. LogsHold' /\ LogsGrow /\ CachesHold' /\ CursorsGrow /\ FollowersHold' /\ ViewHolds'
  BY <1>2, Quiet
<1>7. FlowsHold' BY <1>2, <1>4, <1>5, <1>6, OneFlowChanges DEF FollowInv
<1>8. WatchHolds'
  <2>1. suspended' \in BOOLEAN BY <1>2, Zenon DEF FollowInv, WatchHolds
  <2> QED BY <2>1, WatchIsStopped DEF OpenRun, FollowInv
<1>9. StaysWatched'
  <2>1. flow'[w] = o BY <1>2 DEF FollowInv, FlowsHold
  <2>2. flow'[w].valid BY <1>10, <2>1, Zenon
  <2> QED BY <1>5, <2>1, <2>2, CallCounts
<1> QED BY <1>6, <1>7, <1>8, <1>9 DEF FollowInv

LEMMA RunIsSelected ==
  ASSUME FollowingAssumption, FollowInv, NEW w \in Flow, SelectRun(w)
  PROVE  FollowInv' /\ CursorsGrow
<1>1. flow[w] # None /\ flow[w].kind = "open" BY DEF SelectRun, At
<1>2. PICK o \in Operation : o = flow[w] /\ o.kind = "open" /\ o.run \in Run /\ o.valid \in BOOLEAN
  BY <1>1, FlowIs DEF OperationFits
<1>3. PICK r \in Run : r = o.run BY <1>2
<1> DEFINE q == Request(r)
           z == [o EXCEPT !.stage = "restoring", !.waits = None, !.rest = q]
<1>4. q \in Read /\ RestFits(q, r, log'[r]) BY RequestFits
<1>5. /\ flow' = [flow EXCEPT ![w] = z]
      /\ selected' = r
      /\ view' = IF cache[r] = None THEN Shown(None, "live", "recovering")
                 ELSE Shown(r, cache[r].status, "recovering")
      /\ UNCHANGED <<log, stream, wire, cache, follower, watch, suspended>>
  BY <1>2, <1>3 DEF SelectRun, server
<1> HIDE DEF q
<1>6. /\ z \in Operation /\ z.kind = "open" /\ z.stage = "restoring" /\ z.run = r /\ z.rest = q
      /\ z.valid = o.valid
  BY <1>2, <1>3, <1>4 DEF Operation
<1> HIDE DEF z
<1>7. OperationFits(z, log') /\ z # None
  <2>1. z # None BY <1>6, Untyped
  <2> QED BY <1>4, <1>6, <2>1 DEF OperationFits
<1>8. LogsHold' /\ LogsGrow BY <1>5, LogsStay DEF FollowInv
<1>9. CachesHold' BY <1>5 DEF FollowInv, CachesHold
<1>10. CursorsGrow
  <2> SUFFICES ASSUME NEW x \in Run, cache[x] # None
               PROVE  cache'[x] # None /\ cache[x].cursor <= cache'[x].cursor
    BY DEF CursorsGrow
  <2>1. cache[x].cursor \in Nat BY CursorIs DEF FollowInv
  <2> QED BY <1>5, <2>1
<1>11. FollowersHold' BY <1>5, <1>8, <1>9, <1>10, FollowersStay DEF FollowInv
<1>12. FlowsHold' BY <1>5, <1>6, <1>7, <1>8, OneFlowChanges DEF FollowInv
<1>13. ViewHolds'
  <2>1. CASE cache[r] = None BY <1>5, <2>1, ShownHolds
  <2>2. CASE cache[r] # None
    <3>1. cache[r] \in Record /\ CacheFits(cache[r], log[r]) BY <2>2 DEF FollowInv, CachesHold
    <3>2. cache[r].status \in {"live", "ended"} BY <3>1 DEF Record
    <3>3. cache[r].status = "ended" => Status(log'[r]) = "ended" BY <1>5, <2>2, <3>1 DEF CacheFits
    <3>4. cache'[r] # None BY <1>5, <2>2
    <3> QED BY <1>5, <2>2, <3>2, <3>3, <3>4, ShownHolds
  <2> QED BY <2>1, <2>2
<1>14. WatchHolds'
  <2>1. suspended' \in BOOLEAN BY <1>5, Zenon DEF FollowInv, WatchHolds
  <2> QED BY <1>5, <1>10, <2>1, WatchStays DEF FollowInv
<1>15. StaysWatched'
  <2>1. view'.phase = "recovering" BY <1>5 DEF Shown
  <2> QED BY <2>1 DEF StaysWatched, Rests
<1> QED BY <1>8, <1>9, <1>10, <1>11, <1>12, <1>13, <1>14, <1>15 DEF FollowInv

\* The run a call has read back.
LEMMA FlowAnswerIs ==
  ASSUME FollowingAssumption, FollowInv, NEW w \in Flow, flow[w] # None, Answered(flow[w].rest)
  PROVE  /\ flow[w].run \in Run /\ Status(flow[w].rest.row) \in {"live", "ended"}
         /\ Status(flow[w].rest.row) = "ended" => Status(log[flow[w].run]) = "ended"
<1>1. PICK q \in {None} \cup Read : q = flow[w].rest /\ q # None BY FlowIs DEF Answered
<1>2. flow[w].run \in Run /\ RestFits(q, flow[w].run, log[flow[w].run])
  BY <1>1, FlowIs DEF OperationFits
<1> QED BY <1>1, <1>2, AnswerIsTrue DEF FollowInv

LEMMA OpenedIsShown ==
  ASSUME FollowingAssumption, FollowInv, NEW w \in Flow, OpenShows(w)
  PROVE  FollowInv' /\ CursorsGrow
<1>1. flow[w] # None /\ Answered(flow[w].rest) BY DEF OpenShows, At
<1>2. PICK r \in Run : r = flow[w].run BY <1>1, FlowAnswerIs
<1>3. PICK s \in {"live", "ended"} :
        s = Status(flow[w].rest.row) /\ (s = "ended" => Status(log[r]) = "ended")
  BY <1>1, <1>2, FlowAnswerIs
<1>4. /\ SaveRun(r, s) /\ flow' = [flow EXCEPT ![w] = None]
      /\ UNCHANGED <<log, stream, wire, selected, suspended>>
  BY <1>2, <1>3 DEF OpenShows, Leaves, server
<1>5. IF ~flow[w].valid THEN UNCHANGED <<view, follower, watch>>
      ELSE /\ view' = Shown(r, s, "ready")
           /\ IF s = "ended" THEN UNCHANGED <<follower, watch>>
              ELSE \E f \in Follower : BeginWatching(f, r, FALSE)
  BY <1>2, <1>3 DEF OpenShows
<1>6. LogsHold' /\ LogsGrow BY <1>4, LogsStay DEF FollowInv
<1>7. CachesHold' /\ CursorsGrow /\ cache'[r] # None BY <1>3, <1>4, RunIsSaved DEF FollowInv
<1>8. FlowsHold' BY <1>4, <1>6, OneFlowChanges DEF FollowInv
<1>9. suspended' \in BOOLEAN BY <1>4, Zenon DEF FollowInv, WatchHolds
<1>10. UNCHANGED <<follower, watch>> => FollowersHold' /\ WatchHolds'
  BY <1>4, <1>6, <1>7, <1>9, FollowersStay, WatchStays DEF FollowInv
<1>11. CASE ~flow[w].valid
  <2>1. UNCHANGED <<view, follower, watch>> BY <1>5, <1>11
  <2>2. ViewHolds'
    <3>1. view.phase \in {"ready", "recovering", "error"} /\ view' = [view EXCEPT !.phase = view.phase]
      BY <2>1, SameView DEF FollowInv
    <3> QED BY <1>6, <1>7, <3>1, ViewStays DEF FollowInv
  <2>3. StaysWatched'
    <3>1. (\A x \in Flow : x # w => flow'[x] = flow[x]) /\ ~Counts(w)
      BY <1>4, <1>11 DEF FollowInv, FlowsHold, Counts
    <3> QED BY <1>4, <2>1, <3>1, OthersCount
  <2> QED BY <1>6, <1>7, <1>8, <1>10, <2>1, <2>2, <2>3 DEF FollowInv
<1>12. CASE flow[w].valid
  <2>1. view' = Shown(r, s, "ready") BY <1>5, <1>12
  <2>2. ViewHolds' BY <1>3, <1>4, <1>7, <2>1, ShownHolds
  <2>3. CASE s = "ended"
    <3>1. UNCHANGED <<follower, watch>> BY <1>5, <1>12, <2>3
    <3>2. view'.status = "ended" BY <2>1, <2>3 DEF Shown
    <3>3. StaysWatched' BY <3>2 DEF StaysWatched, Rests
    <3> QED BY <1>6, <1>7, <1>8, <1>10, <2>2, <3>1, <3>3 DEF FollowInv
  <2>4. CASE s # "ended"
    <3>1. PICK f \in Follower : BeginWatching(f, r, FALSE) BY <1>5, <1>12, <2>4
    <3>2. FollowersHold' /\ WatchHolds' /\ (~suspended => watching' = f)
      BY <1>4, <1>6, <1>7, <3>1, WatchBegins DEF FollowInv
    <3>3. StaysWatched'
      <4>1. CASE suspended BY <1>4, <4>1 DEF StaysWatched, Rests
      <4>2. CASE ~suspended
        <5>1. watching' # None BY <3>2, <4>2, Untyped
        <5> QED BY <5>1 DEF StaysWatched, Watched
      <4> QED BY <4>1, <4>2
    <3> QED BY <1>6, <1>7, <1>8, <2>2, <3>2, <3>3 DEF FollowInv
  <2> QED BY <2>3, <2>4
<1> QED BY <1>11, <1>12

\* A view that is busy has to be watched by nobody.
LEMMA BusyRests == ASSUME view'.phase # "ready" PROVE StaysWatched'
BY DEF StaysWatched, Rests

LEMMA SuspendedStays == ASSUME FollowInv, UNCHANGED suspended PROVE suspended' \in BOOLEAN
BY Zenon DEF FollowInv, WatchHolds

LEMMA RefreshBegins ==
  ASSUME FollowingAssumption, FollowInv, NEW w \in Flow, Refresh(w)
  PROVE  FollowInv' /\ CursorsGrow
<1>1. view.run \in {None} \cup Run BY DEF FollowInv, ViewHolds
<1>2. PICK o \in Operation : o = Refreshing(view.run) /\ o # None /\ OperationFits(o, log')
  BY <1>1, RefreshingIs
<1>3. /\ flow' = [flow EXCEPT ![w] = o] /\ view' = [view EXCEPT !.phase = "recovering"]
      /\ UNCHANGED <<log, stream, wire, disk, follower, watch, suspended>>
  BY <1>2 DEF Refresh, server
<1>4. LogsHold' /\ LogsGrow /\ CachesHold' /\ CursorsGrow /\ FollowersHold' BY <1>3, Quiet
<1>5. FlowsHold' BY <1>2, <1>3, <1>4, OneFlowChanges DEF FollowInv
<1>6. ViewHolds' BY <1>3, <1>4, ViewStays DEF FollowInv
<1>7. WatchHolds' BY <1>3, <1>4, SuspendedStays, WatchStays DEF FollowInv
<1>8. view'.phase # "ready" BY <1>3 DEF FollowInv, ViewHolds
<1> QED BY <1>4, <1>5, <1>6, <1>7, <1>8, BusyRests DEF FollowInv

LEMMA RefreshedIsShown ==
  ASSUME FollowingAssumption, FollowInv, NEW w \in Flow, RefreshShows(w)
  PROVE  FollowInv' /\ CursorsGrow
<1>1. flow[w] # None /\ Answered(flow[w].rest) BY DEF RefreshShows, At
<1>2. PICK r \in Run : r = flow[w].run BY <1>1, FlowAnswerIs
<1>3. PICK s \in {"live", "ended"} :
        s = Status(flow[w].rest.row) /\ (s = "ended" => Status(log[r]) = "ended")
  BY <1>1, <1>2, FlowAnswerIs
<1>4. PICK o \in Operation : o = NewFlow("refresh", "listing", None) /\ o # None
                             /\ o.stage = "listing" /\ o.kind = "refresh" /\ o.rest = None
  BY NewFlowIs
<1>5. /\ SaveRun(r, s)
      /\ view' = IF flow[w].valid THEN Shown(r, s, view.phase) ELSE view
      /\ flow' = [flow EXCEPT ![w] = IF flow[w].valid THEN o ELSE None]
      /\ UNCHANGED <<log, stream, wire, selected, follower, watch, suspended>>
  BY <1>2, <1>3, <1>4 DEF RefreshShows, server
<1>6. LogsHold' /\ LogsGrow BY <1>5, LogsStay DEF FollowInv
<1>7. CachesHold' /\ CursorsGrow /\ cache'[r] # None BY <1>3, <1>5, RunIsSaved DEF FollowInv
<1>8. FollowersHold' BY <1>5, <1>6, <1>7, FollowersStay DEF FollowInv
<1>9. OperationFits(o, log') BY <1>4, NewFlowFits
<1>10. WatchHolds' BY <1>5, <1>7, SuspendedStays, WatchStays DEF FollowInv
<1>11. view.phase \in {"ready", "recovering", "error"} BY DEF FollowInv, ViewHolds
<1>12. CASE flow[w].valid
  <2>1. flow' = [flow EXCEPT ![w] = o] /\ view' = Shown(r, s, view.phase) BY <1>5, <1>12
  <2>2. FlowsHold' BY <1>6, <1>9, <2>1, OneFlowChanges DEF FollowInv
  <2>3. ViewHolds' BY <1>3, <1>5, <1>7, <1>11, <2>1, ShownHolds
  <2>4. flow'[w] = o BY <2>1 DEF FollowInv, FlowsHold
  <2>5. flow'[w].valid BY <1>4, <2>4, NewFlowCounts, Zenon
  <2>6. StaysWatched' BY <1>4, <2>4, <2>5, CallCounts
  <2> QED BY <1>6, <1>7, <1>8, <1>10, <2>2, <2>3, <2>6 DEF FollowInv
<1>13. CASE ~flow[w].valid
  <2>1. flow' = [flow EXCEPT ![w] = None] /\ view' = [view EXCEPT !.phase = view.phase]
    BY <1>5, <1>13, SameView DEF FollowInv
  <2>2. FlowsHold' BY <1>6, <2>1, OneFlowChanges DEF FollowInv
  <2>3. ViewHolds' BY <1>6, <1>7, <1>11, <2>1, ViewStays DEF FollowInv
  <2>4. (\A x \in Flow : x # w => flow'[x] = flow[x]) /\ ~Counts(w)
    BY <1>13, <2>1 DEF FollowInv, FlowsHold, Counts
  <2>5. UNCHANGED view BY <1>5, <1>13
  <2>6. StaysWatched' BY <1>5, <2>4, <2>5, OthersCount
  <2> QED BY <1>6, <1>7, <1>8, <1>10, <2>2, <2>3, <2>6 DEF FollowInv
<1> QED BY <1>12, <1>13

\* A call w that goes on as o.
LEMMA FlowGoesOn ==
  ASSUME FollowingAssumption, FollowInv, NEW w \in Flow, flow[w] # None,
         UNCHANGED <<server, disk, follower, watch, view, suspended>>,
         NEW o \in Operation, OperationFits(o, log), o.valid = flow[w].valid,
         flow' = [flow EXCEPT ![w] = o]
  PROVE  FollowInv' /\ CursorsGrow
<1>1. UNCHANGED <<log, stream, wire, disk, follower, watch, view, suspended>> BY DEF server
<1>2. LogsHold' /\ LogsGrow /\ CachesHold' /\ CursorsGrow /\ FollowersHold' /\ ViewHolds'
  BY <1>1, Quiet
<1>3. FlowsHold' BY <1>1, <1>2, OneFlowChanges DEF FollowInv
<1>4. WatchHolds' BY <1>1, <1>2, SuspendedStays, WatchStays DEF FollowInv
<1>5. flow'[w] = o /\ o # None /\ \A x \in Flow : x # w => flow'[x] = flow[x]
  BY Untyped DEF FollowInv, FlowsHold
<1>6. Counts(w) => flow'[w].valid BY <1>5, Zenon DEF Counts
<1>7. StaysWatched' BY <1>1, <1>5, <1>6, OthersCount
<1> QED BY <1>2, <1>3, <1>4, <1>7 DEF FollowInv

LEMMA RunsAreListed ==
  ASSUME FollowingAssumption, FollowInv, NEW w \in Flow, ListRuns(w)
  PROVE  FollowInv' /\ CursorsGrow
<1>1. flow[w] # None BY DEF ListRuns, At
<1>2. PICK b \in Operation : b = flow[w] BY <1>1, FlowIs
<1>3. b.stage = "listing" /\ b.kind = "refresh" BY <1>2 DEF ListRuns, At
<1> DEFINE o == [b EXCEPT !.stage = "listed", !.list = log]
<1>4. flow' = [flow EXCEPT ![w] = o] BY <1>2 DEF ListRuns
<1>5. log \in [Run -> Seq(Kinds)] BY DEF FollowInv, LogsHold
<1>6. /\ o \in Operation /\ o.stage = "listed" /\ o.kind = b.kind /\ o.run = b.run
      /\ o.rest = b.rest /\ o.list = log
  BY <1>5 DEF Operation
<1>7. o.valid = b.valid BY Zenon DEF Operation
<1> HIDE DEF o
<1>8. OperationFits(b, log) BY <1>1, <1>2, FlowIs
<1>9. \A r \in Run : Prefix(log[r], log[r]) BY <1>5, PrefixOfItself
<1>10. OperationFits(o, log) BY <1>3, <1>6, <1>8, <1>9 DEF OperationFits
<1>11. UNCHANGED <<server, disk, follower, watch, view, suspended>> BY DEF ListRuns
<1> QED BY <1>1, <1>2, <1>4, <1>6, <1>7, <1>10, <1>11, FlowGoesOn

LEMMA FlowIsServed ==
  ASSUME FollowingAssumption, FollowInv, NEW w \in Flow, ServeFlow(w)
  PROVE  FollowInv' /\ CursorsGrow
<1>1. flow[w] # None /\ Pending(flow[w].rest) BY DEF ServeFlow
<1>2. PICK b \in Operation : b = flow[w] /\ OperationFits(b, log) BY <1>1, FlowIs
<1>3. b.rest \in {None} \cup Read /\ b.rest # None /\ Pending(b.rest)
  BY <1>1, <1>2 DEF Operation, Pending
<1>4. PICK r \in Run : r = b.run /\ RestFits(b.rest, r, log[r]) BY <1>2, <1>3 DEF OperationFits
<1>5. PICK q \in Read : q = Serve(b.rest) /\ RestFits(q, r, log[r])
  BY <1>3, <1>4, ServeFits DEF FollowInv
<1> DEFINE o == [b EXCEPT !.rest = q]
<1>6. flow' = [flow EXCEPT ![w] = o] BY <1>2, <1>5 DEF ServeFlow
<1>7. /\ o \in Operation /\ o.stage = b.stage /\ o.kind = b.kind /\ o.run = b.run
      /\ o.rest = q /\ o.list = b.list
  BY DEF Operation
<1>8. o.valid = b.valid BY Zenon DEF Operation
<1> HIDE DEF o
<1>9. OperationFits(o, log) BY <1>2, <1>4, <1>5, <1>7 DEF OperationFits
<1>10. UNCHANGED <<server, disk, follower, watch, view, suspended>> BY DEF ServeFlow
<1> QED BY <1>1, <1>2, <1>6, <1>7, <1>8, <1>9, <1>10, FlowGoesOn

LEMMA RefreshIsOver ==
  ASSUME FollowingAssumption, FollowInv, NEW w \in Flow, NEW loaded \in BOOLEAN,
         RefreshEnds(w, loaded)
  PROVE  FollowInv' /\ CursorsGrow
<1>1. flow[w] # None BY DEF RefreshEnds, At
<1>2. /\ flow' = [flow EXCEPT ![w] = None]
      /\ UNCHANGED <<log, stream, wire, selected, suspended>>
      /\ IF ~flow[w].valid THEN UNCHANGED <<view, follower, watch>>
         ELSE /\ view' = [view EXCEPT !.phase = "ready"]
              /\ IF view.run = None \/ view.status = "ended" THEN UNCHANGED <<follower, watch>>
                 ELSE \E f \in Follower : BeginWatching(f, view.run, FALSE)
  BY DEF RefreshEnds, Leaves, server
<1>3. LogsHold' /\ LogsGrow BY <1>2, LogsStay DEF FollowInv
<1>4. CachesHold' /\ CursorsGrow
  <2>1. CASE loaded
    <3>1. PICK o \in Operation : o = flow[w] /\ o.stage = "listed" /\ OperationFits(o, log)
      BY <1>1, <2>1, FlowIs DEF RefreshEnds, At
    <3>2. PICK list \in [Run -> Seq(Kinds)] : list = o.list BY DEF Operation
    <3>3. \A r \in Run : Prefix(list[r], log[r]) BY <3>1, <3>2 DEF OperationFits
    <3>4. cache' = [r \in Run |-> Saved(r, Status(list[r]))]
      BY <2>1, <3>1, <3>2 DEF RefreshEnds
    <3> QED BY <1>2, <3>3, <3>4, RunsAreSaved DEF FollowInv
  <2>2. CASE ~loaded
    <3>1. UNCHANGED disk BY <1>2, <2>2 DEF RefreshEnds, disk
    <3> QED BY <1>2, <3>1, Quiet
  <2> QED BY <2>1, <2>2
<1>5. FlowsHold' BY <1>2, <1>3, OneFlowChanges DEF FollowInv
<1>6. suspended' \in BOOLEAN BY <1>2, SuspendedStays
<1>7. UNCHANGED <<follower, watch>> => FollowersHold' /\ WatchHolds'
  BY <1>2, <1>3, <1>4, <1>6, FollowersStay, WatchStays DEF FollowInv
<1>8. CASE ~flow[w].valid
  <2>1. UNCHANGED <<view, follower, watch>> BY <1>2, <1>8
  <2>2. ViewHolds'
    <3>1. view.phase \in {"ready", "recovering", "error"} /\ view' = [view EXCEPT !.phase = view.phase]
      BY <2>1, SameView DEF FollowInv
    <3> QED BY <1>3, <1>4, <3>1, ViewStays DEF FollowInv
  <2>3. StaysWatched'
    <3>1. (\A x \in Flow : x # w => flow'[x] = flow[x]) /\ ~Counts(w)
      BY <1>2, <1>8 DEF FollowInv, FlowsHold, Counts
    <3> QED BY <1>2, <2>1, <3>1, OthersCount
  <2> QED BY <1>3, <1>4, <1>5, <1>7, <2>1, <2>2, <2>3 DEF FollowInv
<1>9. CASE flow[w].valid
  <2>1. view' = [view EXCEPT !.phase = "ready"] BY <1>2, <1>9
  <2>2. ViewHolds' BY <1>3, <1>4, <2>1, ViewStays DEF FollowInv
  <2>3. view'.run = view.run /\ view'.status = view.status /\ view.run \in {None} \cup Run
    BY <2>1 DEF FollowInv, ViewHolds
  <2>4. CASE view.run = None \/ view.status = "ended"
    <3>1. UNCHANGED <<follower, watch>> BY <1>2, <1>9, <2>4
    <3>2. StaysWatched' BY <2>3, <2>4 DEF StaysWatched, Rests
    <3> QED BY <1>3, <1>4, <1>5, <1>7, <2>2, <3>1, <3>2 DEF FollowInv
  <2>5. CASE ~(view.run = None \/ view.status = "ended")
    <3>1. PICK f \in Follower : BeginWatching(f, view.run, FALSE) BY <1>2, <1>9, <2>5
    <3>2. view.run \in Run /\ cache'[view.run] # None
      BY <1>4, <2>3, <2>5 DEF FollowInv, ViewHolds, CursorsGrow
    <3>3. PICK r \in Run : r = view.run BY <3>2
    <3>4. FollowersHold' /\ WatchHolds' /\ (~suspended => watching' = f)
      BY <1>2, <1>3, <1>4, <3>1, <3>2, <3>3, WatchBegins DEF FollowInv
    <3>5. StaysWatched'
      <4>1. CASE suspended BY <1>2, <4>1 DEF StaysWatched, Rests
      <4>2. CASE ~suspended
        <5>1. watching' # None BY <3>4, <4>2, Untyped
        <5> QED BY <5>1 DEF StaysWatched, Watched
      <4> QED BY <4>1, <4>2
    <3> QED BY <1>3, <1>4, <1>5, <2>2, <3>4, <3>5 DEF FollowInv
  <2> QED BY <2>4, <2>5
<1> QED BY <1>8, <1>9

LEMMA FlowIsOver ==
  ASSUME FollowingAssumption, FollowInv, NEW w \in Flow, FlowFails(w)
  PROVE  FollowInv' /\ CursorsGrow
<1>1. /\ flow' = [flow EXCEPT ![w] = None]
      /\ view' = IF flow[w].valid THEN [view EXCEPT !.phase = "error"] ELSE view
      /\ UNCHANGED <<log, stream, wire, disk, follower, watch, suspended>>
  BY DEF FlowFails, Leaves, server
<1>2. LogsHold' /\ LogsGrow /\ CachesHold' /\ CursorsGrow /\ FollowersHold' BY <1>1, Quiet
<1>3. FlowsHold' BY <1>1, <1>2, OneFlowChanges DEF FollowInv
<1>4. WatchHolds' BY <1>1, <1>2, SuspendedStays, WatchStays DEF FollowInv
<1>5. CASE flow[w].valid
  <2>1. view' = [view EXCEPT !.phase = "error"] BY <1>1, <1>5
  <2>2. ViewHolds' BY <1>2, <2>1, ViewStays DEF FollowInv
  <2>3. view'.phase # "ready" BY <2>1 DEF FollowInv, ViewHolds
  <2> QED BY <1>2, <1>3, <1>4, <2>2, <2>3, BusyRests DEF FollowInv
<1>6. CASE ~flow[w].valid
  <2>1. UNCHANGED view BY <1>1, <1>6
  <2>2. ViewHolds' BY <1>1, <2>1, Quiet
  <2>3. (\A x \in Flow : x # w => flow'[x] = flow[x]) /\ ~Counts(w)
    BY <1>1, <1>6 DEF FollowInv, FlowsHold, Counts
  <2>4. StaysWatched' BY <1>1, <2>1, <2>3, OthersCount
  <2> QED BY <1>2, <1>3, <1>4, <2>2, <2>4 DEF FollowInv
<1> QED BY <1>5, <1>6

LEMMA ClientSuspends ==
  ASSUME FollowingAssumption, FollowInv, Suspend
  PROVE  FollowInv' /\ CursorsGrow
<1>1. UNCHANGED <<log, stream, wire, disk, follower, flow, view>> /\ suspended' = TRUE
  BY DEF Suspend, server
<1>2. LogsHold' /\ LogsGrow /\ CachesHold' /\ CursorsGrow /\ FollowersHold' /\ ViewHolds'
  BY <1>1, Quiet
<1>3. FlowsHold' BY <1>1, <1>2, FlowsStay DEF FollowInv
<1>4. WatchHolds'
  <2>1. suspended' \in BOOLEAN BY <1>1, Zenon
  <2> QED BY <2>1, WatchIsStopped DEF Suspend, FollowInv
<1>5. StaysWatched' BY <1>1 DEF StaysWatched, Rests
<1> QED BY <1>2, <1>3, <1>4, <1>5 DEF FollowInv

LEMMA ClientResumes ==
  ASSUME FollowingAssumption, FollowInv, NEW w \in Flow, Resume(w)
  PROVE  FollowInv' /\ CursorsGrow
<1>1. /\ suspended' = FALSE
      /\ UNCHANGED <<log, stream, wire, disk, follower, watch>>
  BY DEF Resume, server
<1>2. LogsHold' /\ LogsGrow /\ CachesHold' /\ CursorsGrow /\ FollowersHold' BY <1>1, Quiet
<1>3. WatchHolds'
  <2>1. suspended' \in BOOLEAN BY <1>1, Zenon
  <2> QED BY <1>1, <1>2, <2>1, WatchStays DEF FollowInv
<1>4. CASE Busy
  <2>1. UNCHANGED <<flow, view>> BY <1>4 DEF Resume
  <2>2. FlowsHold' BY <1>2, <2>1, FlowsStay DEF FollowInv
  <2>3. ViewHolds' BY <1>1, <2>1, Quiet
  <2>4. view'.phase # "ready" BY <1>4, <2>1 DEF Busy
  <2> QED BY <1>2, <1>3, <2>2, <2>3, <2>4, BusyRests DEF FollowInv
<1>5. CASE ~Busy
  <2>1. view.run \in {None} \cup Run BY DEF FollowInv, ViewHolds
  <2>2. PICK o \in Operation : o = Refreshing(view.run) /\ o # None /\ OperationFits(o, log')
    BY <2>1, RefreshingIs
  <2>3. flow' = [flow EXCEPT ![w] = o] /\ view' = [view EXCEPT !.phase = "recovering"]
    BY <1>5, <2>2 DEF Resume
  <2>4. FlowsHold' BY <1>2, <2>2, <2>3, OneFlowChanges DEF FollowInv
  <2>5. ViewHolds' BY <1>2, <2>3, ViewStays DEF FollowInv
  <2>6. view'.phase # "ready" BY <2>3 DEF FollowInv, ViewHolds
  <2> QED BY <1>2, <1>3, <2>4, <2>5, <2>6, BusyRests DEF FollowInv
<1> QED BY <1>4, <1>5

LEMMA SettingsAreUpdated ==
  ASSUME FollowingAssumption, FollowInv, NEW w \in Flow, UpdateSettings(w)
  PROVE  FollowInv' /\ CursorsGrow
<1> DEFINE n == NewFlow("settings", "stopping", None)  o == [n EXCEPT !.waits = watching]
<1>1. n \in Operation /\ n.kind = "settings" /\ n.stage = "stopping" /\ n.rest = None
  BY NewFlowIs
<1>2. o.valid = TRUE BY Zenon DEF NewFlow
<1>3. /\ flow' = [x \in Flow |->
             IF x = w THEN o
             ELSE IF flow[x] = None \/ flow[x].stage = "stopping" THEN flow[x]
             ELSE [flow[x] EXCEPT !.valid = FALSE]]
      /\ UNCHANGED <<log, stream, wire, disk, follower, view, suspended>>
  BY DEF UpdateSettings, server
<1> HIDE DEF n
<1>4. watching \in {None} \cup Follower BY DEF FollowInv, WatchHolds
<1>5. /\ o \in Operation /\ o.kind = "settings" /\ o.stage = "stopping" /\ o.rest = None
  BY <1>1, <1>4 DEF Operation
<1> HIDE DEF o
<1>6. OperationFits(o, log') /\ o # None BY <1>5, NewFlowFits, Untyped
<1>7. LogsHold' /\ LogsGrow /\ CachesHold' /\ CursorsGrow /\ FollowersHold' /\ ViewHolds'
  BY <1>3, Quiet
<1>8. ASSUME NEW x \in Flow, flow[x] # None
      PROVE  /\ [flow[x] EXCEPT !.valid = FALSE] \in Operation
             /\ OperationFits([flow[x] EXCEPT !.valid = FALSE], log')
  <2>1. PICK b \in Operation : b = flow[x] /\ OperationFits(b, log) BY <1>8, FlowIs
  <2> DEFINE z == [b EXCEPT !.valid = FALSE]
  <2>2. /\ z \in Operation /\ z.stage = b.stage /\ z.kind = b.kind /\ z.run = b.run
        /\ z.rest = b.rest /\ z.list = b.list
    BY DEF Operation
  <2> HIDE DEF z
  <2>3. OperationFits(z, log) BY <2>1, <2>2 DEF OperationFits
  <2>4. OperationFits(z, log') BY <1>7, <2>2, <2>3, OperationStays DEF FollowInv
  <2> QED BY <2>1, <2>2, <2>4 DEF z
<1>9. FlowsHold'
  <2>1. ASSUME NEW x \in Flow
        PROVE  flow'[x] \in {None} \cup Operation /\ (flow'[x] # None => OperationFits(flow'[x], log'))
    <3>1. CASE x = w BY <1>3, <1>5, <1>6, <3>1
    <3>2. CASE x # w /\ flow[x] = None BY <1>3, <3>2
    <3>3. CASE x # w /\ flow[x] # None /\ flow[x].stage = "stopping"
      <4>1. flow'[x] = flow[x] BY <1>3, <3>3
      <4>2. flow[x] \in Operation /\ OperationFits(flow[x], log) BY <3>3, FlowIs
      <4>3. OperationFits(flow[x], log') BY <1>7, <4>2, OperationStays DEF FollowInv
      <4> QED BY <4>1, <4>2, <4>3
    <3>4. CASE x # w /\ flow[x] # None /\ flow[x].stage # "stopping"
      <4>1. flow'[x] = [flow[x] EXCEPT !.valid = FALSE] BY <1>3, <3>4
      <4> QED BY <1>8, <3>4, <4>1
    <3> QED BY <3>1, <3>2, <3>3, <3>4
  <2>2. flow' = [x \in Flow |-> flow'[x]] BY <1>3
  <2>3. flow' \in [Flow -> {None} \cup Operation] BY <2>1, <2>2
  <2> QED BY <2>1, <2>3 DEF FlowsHold
<1>10. WatchHolds'
  <2>1. suspended' \in BOOLEAN BY <1>3, SuspendedStays
  <2> QED BY <2>1, WatchIsStopped DEF UpdateSettings, FollowInv
<1>11. StaysWatched'
  <2>1. flow'[w] = o BY <1>3
  <2>2. flow'[w].valid BY <1>2, <2>1, Zenon
  <2> QED BY <1>6, <2>1, <2>2, CallCounts
<1> QED BY <1>7, <1>9, <1>10, <1>11 DEF FollowInv

\* What the tables say is shown.
LEMMA LoadedHolds ==
  ASSUME FollowingAssumption, FollowInv, UNCHANGED <<log, disk>>, view' = Loaded
  PROVE  ViewHolds' /\ Loaded.run \in {None} \cup Run /\ view'.phase # "ready"
<1>1. CASE selected = None \/ cache[selected] = None
  <2>1. view' = Shown(None, "live", "recovering") BY <1>1 DEF Loaded
  <2>2. ViewHolds' BY <2>1, ShownHolds
  <2> QED BY <2>1, <2>2 DEF Shown
<1>2. CASE ~(selected = None \/ cache[selected] = None)
  <2>1. PICK r \in Run : r = selected /\ cache[r] # None BY <1>2 DEF FollowInv, CachesHold
  <2>2. view' = Shown(r, cache[r].status, "recovering") BY <1>2, <2>1 DEF Loaded
  <2>3. cache[r] \in Record /\ CacheFits(cache[r], log[r]) BY <2>1 DEF FollowInv, CachesHold
  <2>4. cache[r].status \in {"live", "ended"} BY <2>3 DEF Record
  <2>5. cache[r].status = "ended" => Status(log'[r]) = "ended" BY <2>1, <2>3 DEF CacheFits
  <2>6. cache'[r] # None BY <2>1 DEF disk
  <2>7. ViewHolds' BY <2>2, <2>4, <2>5, <2>6, ShownHolds
  <2> QED BY <2>2, <2>7 DEF Shown
<1> QED BY <1>1, <1>2

LEMMA ViewIsActivated ==
  ASSUME FollowingAssumption, FollowInv, NEW w \in Flow, Activate(w)
  PROVE  FollowInv' /\ CursorsGrow
<1>1. /\ view' = Loaded /\ flow' = [flow EXCEPT ![w] = Refreshing(Loaded.run)]
      /\ UNCHANGED <<log, stream, wire, disk, follower, watch, suspended>>
  BY DEF Activate, server
<1>2. ViewHolds' /\ Loaded.run \in {None} \cup Run /\ view'.phase # "ready" BY <1>1, LoadedHolds
<1>3. PICK o \in Operation : o = Refreshing(Loaded.run) /\ o # None /\ OperationFits(o, log')
  BY <1>2, RefreshingIs
<1>4. LogsHold' /\ LogsGrow /\ CachesHold' /\ CursorsGrow /\ FollowersHold' BY <1>1, Quiet
<1>5. FlowsHold' BY <1>1, <1>3, <1>4, OneFlowChanges DEF FollowInv
<1>6. WatchHolds' BY <1>1, <1>4, SuspendedStays, WatchStays DEF FollowInv
<1> QED BY <1>2, <1>4, <1>5, <1>6, BusyRests DEF FollowInv

LEMMA ClientRestarts ==
  ASSUME FollowingAssumption, FollowInv, NEW w \in Flow, Restart(w)
  PROVE  FollowInv' /\ CursorsGrow
<1>1. /\ follower' = [f \in Follower |-> None] /\ stream' = [f \in Follower |-> None]
      /\ wire' = [f \in Follower |-> <<>>]
      /\ watching' = None /\ timer' = None /\ attempts' = 0 /\ suspended' = FALSE
      /\ view' = Loaded
      /\ flow' = [x \in Flow |-> IF x = w THEN Refreshing(Loaded.run) ELSE None]
      /\ UNCHANGED <<log, disk>>
  BY DEF Restart
<1>2. ViewHolds' /\ Loaded.run \in {None} \cup Run /\ view'.phase # "ready" BY <1>1, LoadedHolds
<1>3. PICK o \in Operation : o = Refreshing(Loaded.run) /\ o # None /\ OperationFits(o, log')
  BY <1>2, RefreshingIs
<1>4. LogsHold' /\ LogsGrow /\ CachesHold' /\ CursorsGrow BY <1>1, Quiet
<1>5. FollowersHold' BY <1>1, EmptySeq DEF FollowersHold, FollowerFits
<1>6. FlowsHold'
  <2>1. flow' = [x \in Flow |-> IF x = w THEN o ELSE None] BY <1>1, <1>3
  <2>2. flow' \in [Flow -> {None} \cup Operation] BY <2>1
  <2>3. \A x \in Flow : flow'[x] # None => flow'[x] = o BY <2>1
  <2> QED BY <1>3, <2>2, <2>3 DEF FlowsHold
<1>7. WatchHolds'
  <2>1. suspended' \in BOOLEAN BY <1>1, Zenon
  <2> QED BY <1>1, <2>1 DEF WatchHolds, MaxAttempts
<1> QED BY <1>2, <1>4, <1>5, <1>6, <1>7, BusyRests DEF FollowInv

-----------------------------------------------------------------------------
(* Following a run                                                         *)

LEMMA FollowBegins == ASSUME FollowingAssumption, Init PROVE FollowInv
<1>1. PICK r \in Run, f \in Follower :
        /\ log = [x \in Run |-> <<>>]
        /\ stream = [x \in Follower |-> None]
        /\ wire = [x \in Follower |-> <<>>]
        /\ cache = [x \in Run |-> IF x = r THEN [status |-> "live", cursor |-> 0, applied |-> <<>>]
                                  ELSE None]
        /\ selected = r
        /\ follower = [x \in Follower |->
             IF x = f THEN [run |-> r, stage |-> "opening", cursor |-> 0,
                            again |-> FALSE, fatal |-> FALSE, rest |-> None]
             ELSE None]
        /\ flow = [w \in Flow |-> None]
        /\ watching = f /\ timer = None /\ attempts = 0
        /\ view = Shown(r, "live", "ready")
        /\ suspended = FALSE /\ asked = None /\ breaks = 0 /\ moves = 0
  BY Zenon DEF Init
<1>2. LogsHold BY <1>1, EmptySeq DEF LogsHold, Ordered
<1> DEFINE c == [status |-> "live", cursor |-> 0, applied |-> <<>>]
           w == [run |-> r, stage |-> "opening", cursor |-> 0,
                 again |-> FALSE, fatal |-> FALSE, rest |-> None]
<1>3. c \in Record /\ c.status = "live" /\ c.cursor = 0 /\ c.applied = <<>> BY EmptySeq DEF Record
<1>4. w \in Subscription /\ w.run = r /\ w.stage = "opening" /\ w.cursor = 0 /\ w.rest = None
  BY DEF Subscription
<1>5. cache = [x \in Run |-> IF x = r THEN c ELSE None]
      /\ follower = [x \in Follower |-> IF x = f THEN w ELSE None]
  BY <1>1
<1> HIDE DEF c, w
<1>6. c # None /\ w # None BY <1>3, <1>4, Untyped
<1>7. cache[r] = c /\ log[r] = <<>> /\ follower[f] = w /\ stream[f] = None BY <1>1, <1>5
<1>8. CachesHold
  <2>1. CacheFits(c, <<>>)
    <3> DEFINE S == {i \in Public(<<>>) : i <= 0}
    <3>1. S = {} BY DEF Public
    <3>2. Ascending(S) = <<>> BY <3>1, AscendingEmpty
    <3> QED BY <1>3, <3>2 DEF CacheFits
  <2>2. \A x \in Run : CacheFits(cache[x], log[x]) BY <1>1, <1>5, <2>1 DEF CacheFits
  <2> QED BY <1>1, <1>3, <1>5, <2>2 DEF CachesHold
<1>9. FollowersHold
  <2>1. follower \in [Follower -> {None} \cup Subscription] BY <1>4, <1>5
  <2>2. Fit(w, None, wire[f], log[r], cache[r].cursor) BY <1>3, <1>4, <1>7 DEF Fit, RestFits
  <2>3. FollowerFits(f) BY <1>4, <1>6, <1>7, <2>2 DEF FollowerFits
  <2>4. \A g \in Follower : g # f => FollowerFits(g) BY <1>1, <1>5 DEF FollowerFits
  <2>5. stream \in [Follower -> {None} \cup Response] /\ wire \in [Follower -> Seq(Sent)]
    BY <1>1, EmptySeq
  <2> QED BY <2>1, <2>3, <2>4, <2>5 DEF FollowersHold
<1>10. FlowsHold BY <1>1 DEF FlowsHold
<1>11. ViewHolds BY <1>1, <1>6, <1>7 DEF ViewHolds, Shown
<1>12. WatchHolds
  <2>1. suspended \in BOOLEAN BY <1>1, Zenon
  <2>2. watching = f /\ timer = None /\ attempts = 0 BY <1>1
  <2> QED BY <1>6, <1>7, <2>1, <2>2 DEF WatchHolds, MaxAttempts
<1>13. StaysWatched BY <1>1, Untyped DEF StaysWatched, Watched
<1> QED BY <1>2, <1>8, <1>9, <1>10, <1>11, <1>12, <1>13 DEF FollowInv

\* No cursor goes back, and every step keeps the invariant.
LEMMA FollowSteps ==
  ASSUME FollowingAssumption, "restore" \notin Moves, FollowInv, Next
  PROVE  FollowInv' /\ CursorsGrow
<1>1. ASSUME NEW r \in Run, Progress(r) \/ Finish(r) \/ RestoreTables(r)
      PROVE  FollowInv' /\ CursorsGrow
  <2>1. ~RestoreTables(r) BY DEF RestoreTables, Move
  <2> QED BY <1>1, <2>1, LogMoves
<1>2. ASSUME NEW w \in Flow,
             FlowStep(w) \/ Refresh(w) \/ RefreshEnds(w, FALSE) \/ FlowFails(w)
             \/ Resume(w) \/ UpdateSettings(w) \/ Restart(w)
      PROVE  FollowInv' /\ CursorsGrow
  <2>1. ASSUME RefreshEnds(w, TRUE) \/ RefreshEnds(w, FALSE) PROVE FollowInv' /\ CursorsGrow
    BY <2>1, RefreshIsOver
  <2> QED
    BY <1>2, <2>1, RunIsSelected, OpenedIsShown, RefreshedIsShown, RunsAreListed, FlowIsServed,
       ViewIsActivated, RefreshBegins, FlowIsOver, ClientResumes, SettingsAreUpdated, ClientRestarts
    DEF FlowStep
<1> QED BY <1>1, <1>2, FollowerMoves, TimerIsOver, RunIsOpened, ClientSuspends DEF Next

LEMMA FollowStutters ==
  ASSUME FollowInv, UNCHANGED vars PROVE FollowInv'
BY DEF FollowInv, vars, server, disk, watch, LogsHold, CachesHold, FollowersHold, FollowerFits,
       FlowsHold, ViewHolds, WatchHolds, StaysWatched, Rests, Watched, Counts

\* What the invariant says of the answers of the service.
LEMMA AnswersAgree ==
  ASSUME FollowingAssumption, FollowInv PROVE SnapshotsAgree
<1>1. ASSUME NEW r \in Run, NEW q \in {None} \cup Read, RestFits(q, r, log[r]), Answered(q)
      PROVE  q.last \in DOMAIN log[q.run] /\ log[q.run][q.last] = "done" <=> Status(q.row) = "ended"
  <2>1. q.run = r /\ Prefix(q.row, log[r]) /\ q.last = LastPublic(q.row) /\ q.row \in Seq(Kinds)
    BY <1>1 DEF Answered, RestFits, Read
  <2>2. log[r] \in Seq(Kinds) /\ Ordered(log[r]) BY DEF FollowInv, LogsHold
  <2>3. ASSUME Status(q.row) = "ended" PROVE q.last \in DOMAIN log[r] /\ log[r][q.last] = "done"
    <3>1. log[r] = q.row BY <2>1, <2>2, <2>3, PrefixKeeps
    <3>2. q.last = Len(q.row) /\ Len(q.row) \in DOMAIN q.row /\ q.row[Len(q.row)] = "done"
      BY <2>1, <2>2, <2>3, <3>1, EndIs
    <3> QED BY <3>1, <3>2
  <2>4. ASSUME q.last \in DOMAIN log[r], log[r][q.last] = "done" PROVE Status(q.row) = "ended"
    <3>1. q.last \in {0} \cup Public(q.row) BY <2>1, LastPublicIs
    <3>2. q.last # 0 BY <2>2, <2>4
    <3>3. q.last \in DOMAIN q.row /\ log[r][q.last] = q.row[q.last]
      BY <2>1, <2>2, <3>1, <3>2, PrefixKeeps DEF Public
    <3> QED BY <2>1, <2>4, <3>3, StatusIs
  <2> QED BY <2>1, <2>3, <2>4
<1>2. ASSUME NEW f \in Follower, follower[f] # None
      PROVE  /\ follower[f].rest \in {None} \cup Read
             /\ RestFits(follower[f].rest, follower[f].run, log[follower[f].run])
             /\ follower[f].run \in Run
  BY <1>2, FollowerIs DEF Fit, Subscription
<1>3. ASSUME NEW w \in Flow, flow[w] # None, Answered(flow[w].rest)
      PROVE  /\ flow[w].rest \in {None} \cup Read
             /\ RestFits(flow[w].rest, flow[w].run, log[flow[w].run])
             /\ flow[w].run \in Run
  BY <1>3, FlowIs DEF OperationFits, Answered
<1> QED BY <1>1, <1>2, <1>3 DEF SnapshotsAgree

LEMMA StreamsAreComplete ==
  ASSUME FollowingAssumption, FollowInv PROVE ClosedStreamIsComplete
<1> SUFFICES ASSUME NEW f \in Follower, Follows(f, "reading"), stream[f] = None
             PROVE  LET r == follower[f].run
                        sent == {wire[f][n].id : n \in DOMAIN wire[f]} \cup {0, cache[r].cursor}
                    IN Status(log[r]) = "ended" /\ Max(sent) = Len(log[r])
  BY DEF ClosedStreamIsComplete
<1>1. follower[f] # None /\ follower[f].stage = "reading" BY DEF Follows
<1>2. PICK r \in Run : r = follower[f].run BY <1>1, FollowerIs
<1>3. PICK l \in Seq(Kinds) : l = log[r] BY <1>1, <1>2, FollowerIs
<1>4. PICK k \in Nat : k = cache[r].cursor /\ k \in {0} \cup Public(l)
  BY <1>1, <1>2, <1>3, FollowerIs
<1>5. PICK wi \in Seq(Sent) : wi = wire[f] BY <1>1, FollowerIs
<1>6. Wired(wi, l, k) /\ Closed(wi, l, k)
  BY <1>1, <1>2, <1>3, <1>4, <1>5, FollowerIs DEF Fit
<1> DEFINE sent == Ids(wi) \cup {0, k}
<1>7. sent \in SUBSET Nat /\ Len(l) \in sent /\ (\A y \in sent : y <= Len(l)) /\ Len(l) \in Nat
  BY <1>4, <1>6, PublicIs DEF Closed, Wired, Ids
<1> HIDE DEF sent
<1>8. \E m \in sent : \A y \in sent : m >= y BY <1>7
<1>9. Max(sent) \in sent /\ \A y \in sent : Max(sent) >= y BY <1>8, Zenon DEF Max
<1>10. Max(sent) = Len(l)
  <2>1. PICK m \in sent : m = Max(sent) /\ \A y \in sent : m >= y BY <1>9
  <2>2. m \in Nat /\ m <= Len(l) /\ m >= Len(l) BY <1>7, <2>1
  <2> QED BY <1>7, <2>1, <2>2
<1> QED BY <1>2, <1>3, <1>4, <1>5, <1>6, <1>10 DEF sent, Ids, Closed

LEMMA FollowingIsTrue ==
  ASSUME FollowingAssumption, FollowInv
  PROVE  /\ TypeOK /\ CacheIsAPrefix /\ EndsAreTrue /\ SnapshotsAgree /\ ClosedStreamIsComplete
         /\ LiveRunIsWatched
<1>1. TypeOK BY DEF FollowInv, LogsHold, CachesHold, ViewHolds, WatchHolds, TypeOK
<1>2. CacheIsAPrefix BY DEF FollowInv, CachesHold, CacheFits, CacheIsAPrefix
<1>3. EndsAreTrue BY DEF FollowInv, CachesHold, CacheFits, ViewHolds, EndsAreTrue
<1>4. LiveRunIsWatched BY DEF FollowInv, StaysWatched, Rests, Watched, Counts, LiveRunIsWatched
<1> QED BY <1>1, <1>2, <1>3, <1>4, AnswersAgree, StreamsAreComplete

LEMMA CursorsAdvance ==
  ASSUME FollowingAssumption, "restore" \notin Moves, FollowInv, Next
  PROVE  \A r \in Run : CursorAdvances(r)
<1> SUFFICES ASSUME NEW r \in Run, cache[r] # None
             PROVE  cache'[r].cursor >= cache[r].cursor
  BY DEF CursorAdvances
<1>1. cache'[r] # None /\ cache[r].cursor <= cache'[r].cursor BY FollowSteps DEF CursorsGrow
<1>2. cache[r].cursor \in Nat BY CursorIs DEF FollowInv
<1>3. FollowInv' BY FollowSteps
<1>4. cache'[r] \in Record BY <1>1, <1>3 DEF FollowInv, CachesHold
<1>5. cache'[r].cursor \in Nat BY <1>4 DEF Record
<1> QED BY <1>1, <1>2, <1>5

\* What the client has of a run is a prefix of its public events, each once and in
\* order, no end is made up, the service's answers agree with themselves and with
\* the streams it closes, a live run at rest on the screen is watched, and no cursor
\* goes back: for any runs, subscriptions, calls and logs, however they interleave,
\* break and restart (event_stream, repository.dart, view_model.dart).
THEOREM FollowingHolds ==
  ASSUME FollowingAssumption, "restore" \notin Moves
  PROVE  Spec => /\ [](TypeOK /\ CacheIsAPrefix /\ EndsAreTrue /\ SnapshotsAgree
                       /\ ClosedStreamIsComplete /\ LiveRunIsWatched)
                 /\ [][\A r \in Run : CursorAdvances(r)]_vars
<1>1. Init => FollowInv BY FollowBegins
<1>2. FollowInv /\ [Next]_vars => FollowInv' BY FollowSteps, FollowStutters
<1>3. FollowInv /\ [Next]_vars => [\A r \in Run : CursorAdvances(r)]_vars BY CursorsAdvance
<1>4. FollowInv => /\ TypeOK /\ CacheIsAPrefix /\ EndsAreTrue /\ SnapshotsAgree
                   /\ ClosedStreamIsComplete /\ LiveRunIsWatched
  BY FollowingIsTrue
<1> QED BY <1>1, <1>2, <1>3, <1>4, PTL DEF Spec

-----------------------------------------------------------------------------
(* One call at a time: the run on the screen is the one that is watched     *)

\* While a call is under way, or the client is in the background, nothing is
\* watched and no timer runs.
Alone == suspended \/ (\E w \in Flow : flow[w] # None) => watching = None /\ timer = None

ShowsWatched ==
  /\ watching # None => view.run = follower[watching].run
  /\ timer # None => view.run = timer

Still == Alone /\ ShowsWatched

OneFlow == \A c, d \in Flow : c = d

LEMMA StillStays ==
  ASSUME Still, UNCHANGED <<flow, watch, suspended>>, view'.run = view.run,
         watching # None => follower'[watching].run = follower[watching].run
  PROVE  Still'
BY DEF Still, Alone, ShowsWatched, watch

LEMMA NothingWatched == ASSUME watching' = None, timer' = None PROVE Still'
BY DEF Still, Alone, ShowsWatched

LEMMA CallIsAlone ==
  ASSUME Still, NEW w \in Flow, flow[w] # None PROVE watching = None /\ timer = None
BY DEF Still, Alone

\* Subscription f goes on with its run, or ends unwatched.
LEMMA OneGoesOn ==
  ASSUME FollowInv, NEW f \in Follower, NEW n, follower' = [follower EXCEPT ![f] = n],
         watching = f => n.run = follower[f].run, watching # None
  PROVE  follower'[watching].run = follower[watching].run
BY DEF FollowInv, FollowersHold, WatchHolds

\* Nothing but the run of the subscription watched is shown.
LEMMA EmitShows ==
  ASSUME FollowingAssumption, FollowInv, Still, NEW f \in Follower, NEW s,
         Emit(f, follower[f].run, s)
  PROVE  view'.run = view.run
BY Untyped DEF Emit, Shown, Still, ShowsWatched

LEMMA WatchedIsOne ==
  ASSUME FollowingAssumption, FollowInv, Still, NEW f \in Follower, watching = f
  PROVE  ~suspended /\ (\A w \in Flow : flow[w] = None) /\ view.run = follower[f].run
BY Untyped DEF Still, Alone, ShowsWatched

LEMMA GoesKeeps ==
  ASSUME FollowInv, NEW f \in Follower, NEW stage, follower[f] # None
  PROVE  Goes(f, stage).run = follower[f].run
<1>1. follower[f] \in Subscription BY DEF FollowInv, FollowersHold
<1> QED BY <1>1 DEF Goes, Subscription

LEMMA YieldsKeeps ==
  ASSUME FollowInv, NEW f \in Follower, NEW n, Yields(f, n), n.run = follower[f].run,
         watching # None
  PROVE  follower'[watching].run = follower[watching].run
<1>1. CASE watching = f BY <1>1, OneGoesOn DEF Yields
<1>2. CASE watching # f BY <1>2, OneGoesOn DEF Yields
<1> QED BY <1>1, <1>2

LEMMA FollowersAreStill ==
  ASSUME FollowingAssumption, FollowInv, Still, NEW f \in Follower,
         FollowerStep(f) \/ BreakStream(f)
  PROVE  Still'
<1>1. ASSUME OpenStream(f) PROVE Still'
  <2>1. follower[f] \in Subscription BY <1>1 DEF OpenStream, Follows, FollowInv, FollowersHold
  <2> DEFINE n == [follower[f] EXCEPT !.stage = "reading"]
  <2>2. follower' = [follower EXCEPT ![f] = n] BY <1>1 DEF OpenStream
  <2>3. n.run = follower[f].run BY <2>1 DEF Subscription
  <2> HIDE DEF n
  <2> QED BY <1>1, <2>2, <2>3, OneGoesOn, StillStays DEF OpenStream
<1>2. ASSUME InvalidCursor(f) PROVE Still'
  <2>1. follower[f] # None BY <1>2 DEF InvalidCursor, Follows
  <2>2. follower[f] \in Subscription BY <2>1 DEF FollowInv, FollowersHold
  <2> DEFINE n == IF follower[f].again THEN [Goes(f, "restoring") EXCEPT !.fatal = TRUE]
                  ELSE Goes(f, "resetting")
  <2>3. follower' = [follower EXCEPT ![f] = n] BY <1>2 DEF InvalidCursor
  <2>4. n.run = follower[f].run
    <3>1. [Goes(f, "restoring") EXCEPT !.fatal = TRUE].run = Goes(f, "restoring").run
      BY <2>2 DEF Goes, Subscription
    <3> QED BY <2>1, <3>1, GoesKeeps, Zenon
  <2> HIDE DEF n
  <2> QED BY <1>2, <2>3, <2>4, OneGoesOn, StillStays DEF InvalidCursor
<1>3. ASSUME ResetEvents(f) PROVE Still'
  <2>1. follower[f] # None BY <1>3 DEF ResetEvents, Follows
  <2>2. follower[f] \in Subscription BY <2>1 DEF FollowInv, FollowersHold
  <2> DEFINE n == [follower[f] EXCEPT !.stage = "opening", !.cursor = 0,
                                      !.again = TRUE, !.rest = None]
  <2>3. n.run = follower[f].run BY <2>2 DEF Subscription
  <2>4. Yields(f, n) BY <1>3 DEF ResetEvents
  <2>5. view'.run = view.run BY <1>3, EmitShows DEF ResetEvents
  <2> HIDE DEF n
  <2> QED BY <1>3, <2>3, <2>4, <2>5, YieldsKeeps, StillStays DEF ResetEvents
<1>4. ASSUME ListEvents(f) \/ CheckRun(f) PROVE Still'
  BY <1>4, StillStays DEF ListEvents, CheckRun
<1>5. ASSUME ReadEvent(f) PROVE Still'
  <2>1. follower[f] # None BY <1>5 DEF ReadEvent, Follows
  <2>2. view'.run = view.run BY <1>5, EmitShows DEF ReadEvent
  <2>3. PICK n : Yields(f, n) /\ n.run = follower[f].run
    BY <1>5, <2>1, GoesKeeps DEF ReadEvent
  <2> QED BY <1>5, <2>2, <2>3, YieldsKeeps, StillStays DEF ReadEvent
<1>6. ASSUME EndOfStream(f) \/ StreamRaises(f) \/ BreakStream(f) PROVE Still'
  <2>1. /\ follower' = [follower EXCEPT ![f] = Goes(f, "restoring")]
        /\ UNCHANGED <<flow, watch, view, suspended>>
    BY <1>6 DEF EndOfStream, StreamRaises, BreakStream, Cut
  <2>2. watching = f => follower[f] # None BY Untyped DEF FollowInv, WatchHolds
  <2> QED BY <2>1, <2>2, GoesKeeps, OneGoesOn, StillStays
<1>7. ASSUME RestoreRun(f) PROVE Still'
  <2>1. follower' = [follower EXCEPT ![f] = None] /\ UNCHANGED <<flow, suspended>>
    BY <1>7 DEF RestoreRun
  <2>2. CASE watching # f
    <3>1. UNCHANGED <<view, watch>> BY <1>7, <2>2 DEF RestoreRun
    <3> QED BY <2>1, <2>2, <3>1, OneGoesOn, StillStays
  <2>3. CASE watching = f
    <3>1. /\ view'.run = view.run /\ watching' = None
          /\ timer' = timer \/ timer' = view.run
      BY <1>7, <2>3, WatchedIsOne DEF RestoreRun, Shown, ScheduleRetry
    <3> QED BY <2>1, <2>3, <3>1, WatchedIsOne DEF Still, Alone, ShowsWatched
  <2> QED BY <2>2, <2>3
<1>8. ASSUME ServeFollower(f) PROVE Still'
  <2>1. follower[f] \in Subscription BY <1>8 DEF ServeFollower, FollowInv, FollowersHold
  <2> DEFINE n == [follower[f] EXCEPT !.rest = Serve(follower[f].rest)]
  <2>2. follower' = [follower EXCEPT ![f] = n] BY <1>8 DEF ServeFollower
  <2>3. n.run = follower[f].run BY <2>1 DEF Subscription
  <2> HIDE DEF n
  <2> QED BY <1>8, <2>2, <2>3, OneGoesOn, StillStays DEF ServeFollower
<1> QED BY <1>1, <1>2, <1>3, <1>4, <1>5, <1>6, <1>7, <1>8 DEF FollowerStep

LEMMA BrokenReadIsStill ==
  ASSUME FollowingAssumption, FollowInv, Still, NEW f \in Follower, BreakRest(f)
  PROVE  Still'
<1>1. follower' = [follower EXCEPT ![f] = None] /\ UNCHANGED <<flow, suspended>>
  BY DEF BreakRest
<1>2. CASE watching # f
  <2>1. UNCHANGED <<view, watch>> BY <1>2 DEF BreakRest, FailWatch
  <2> QED BY <1>1, <1>2, <2>1, OneGoesOn, StillStays
<1>3. CASE watching = f
  <2>1. view' = [view EXCEPT !.phase = "error"] /\ watching' = None
        /\ (timer' = timer \/ timer' = view.run)
    BY <1>3, WatchedIsOne DEF BreakRest, FailWatch, ScheduleRetry
  <2>2. view'.run = view.run BY <2>1 DEF FollowInv, ViewHolds
  <2> QED BY <1>1, <1>3, <2>1, <2>2, WatchedIsOne DEF Still, Alone, ShowsWatched
<1> QED BY <1>2, <1>3

\* A run on the screen begins to be watched, and no call is left.
LEMMA BegunIsStill ==
  ASSUME FollowingAssumption, FollowInv, Still, NEW f \in Follower, NEW r, NEW retry,
         BeginWatching(f, r, retry), UNCHANGED suspended,
         view'.run = r, \A w \in Flow : flow'[w] = None,
         suspended => watching = None /\ timer = None
  PROVE  Still'
<1>1. CASE suspended BY <1>1, NothingWatched DEF BeginWatching, watch
<1>2. CASE ~suspended
  <2>1. follower'[f].run = r /\ watching' = f /\ timer' = None
    BY <1>2 DEF BeginWatching, FollowInv, FollowersHold
  <2> QED BY <1>2, <2>1 DEF Still, Alone, ShowsWatched
<1> QED BY <1>1, <1>2

LEMMA CallsAreStill ==
  ASSUME FollowingAssumption, OneFlow, FollowInv, Still, NEW w \in Flow, flow[w] # None,
         FlowStep(w) \/ RefreshEnds(w, FALSE) \/ FlowFails(w)
  PROVE  Still'
<1>1. watching = None /\ timer = None BY CallIsAlone
<1>2. CASE UNCHANGED watch BY <1>1, <1>2, NothingWatched DEF watch
<1>3. ASSUME SelectRun(w) \/ RefreshShows(w) \/ ListRuns(w) \/ ServeFlow(w) \/ Activate(w)
             \/ FlowFails(w)
      PROVE  UNCHANGED watch
  BY <1>3 DEF SelectRun, RefreshShows, ListRuns, ServeFlow, Activate, FlowFails
<1>4. ASSUME Leaves(w), NEW x \in Flow PROVE flow'[x] = None
  BY <1>4 DEF OneFlow, Leaves, FollowInv, FlowsHold
<1>5. ASSUME OpenShows(w) PROVE Still'
  <2>1. CASE ~flow[w].valid BY <1>2, <1>5, <2>1 DEF OpenShows
  <2>2. CASE flow[w].valid
    <3>1. /\ view' = Shown(flow[w].run, Status(flow[w].rest.row), "ready")
          /\ \/ UNCHANGED watch
             \/ \E f \in Follower : BeginWatching(f, flow[w].run, FALSE)
      BY <1>5, <2>2, Zenon DEF OpenShows
    <3>3. view'.run = flow[w].run BY <3>1 DEF Shown
    <3>2. Leaves(w) /\ UNCHANGED suspended BY <1>5 DEF OpenShows
    <3> QED BY <1>1, <1>2, <1>4, <3>1, <3>2, <3>3, BegunIsStill
  <2> QED BY <2>1, <2>2
<1>6. ASSUME RefreshEnds(w, TRUE) \/ RefreshEnds(w, FALSE) PROVE Still'
  <2>1. CASE ~flow[w].valid BY <1>2, <1>6, <2>1 DEF RefreshEnds
  <2>2. CASE flow[w].valid
    <3>1. view' = [view EXCEPT !.phase = "ready"]
          /\ (UNCHANGED watch \/ \E f \in Follower : BeginWatching(f, view.run, FALSE))
      BY <1>6, <2>2 DEF RefreshEnds
    <3>2. view'.run = view.run BY <3>1 DEF FollowInv, ViewHolds
    <3>3. Leaves(w) /\ UNCHANGED suspended BY <1>6 DEF RefreshEnds
    <3> QED BY <1>1, <1>2, <1>4, <3>1, <3>2, <3>3, BegunIsStill
  <2> QED BY <2>1, <2>2
<1> QED BY <1>2, <1>3, <1>5, <1>6 DEF FlowStep

LEMMA FollowingIsStill ==
  ASSUME FollowingAssumption, Moves \subseteq {"open", "suspend"}, OneFlow, FollowInv, Still, Next
  PROVE  Still'
<1>1. ASSUME NEW r \in Run, Progress(r) \/ Finish(r) \/ RestoreTables(r) PROVE Still'
  BY <1>1, StillStays DEF Progress, Finish, RestoreTables, Move
<1>2. ASSUME TimerFires PROVE Still'
  <2>1. timer # None /\ UNCHANGED <<view, flow, suspended>> BY <1>2 DEF TimerFires
  <2>2. PICK f \in Follower : BeginWatching(f, timer, TRUE) BY <1>2 DEF TimerFires
  <2>3. ~suspended /\ (\A w \in Flow : flow'[w] = None) /\ view'.run = timer
    BY <2>1 DEF Still, Alone, ShowsWatched
  <2> QED BY <2>1, <2>2, <2>3, BegunIsStill
<1>3. ASSUME NEW w \in Flow, NEW r \in Run, OpenRun(w, r) PROVE Still'
  BY <1>3, NothingWatched DEF OpenRun, StopWatching
<1>4. ASSUME Suspend PROVE Still' BY <1>4, NothingWatched DEF Suspend, StopWatching
<1>5. ASSUME NEW w \in Flow, Resume(w) PROVE Still'
  <2>1. suspended /\ UNCHANGED watch BY <1>5 DEF Resume
  <2> QED BY <2>1, NothingWatched DEF Still, Alone, watch
<1>6. ASSUME NEW w \in Flow, FlowStep(w) \/ RefreshEnds(w, FALSE) \/ FlowFails(w) PROVE Still'
  <2>1. flow[w] # None
    BY <1>6 DEF FlowStep, SelectRun, OpenShows, RefreshShows, ListRuns, RefreshEnds, ServeFlow,
                Activate, FlowFails, At
  <2> QED BY <1>6, <2>1, CallsAreStill
<1>7. ASSUME NEW w \in Flow PROVE ~Refresh(w) /\ ~UpdateSettings(w) /\ ~Restart(w)
  BY DEF Refresh, UpdateSettings, Restart, Move
<1> QED BY <1>1, <1>2, <1>3, <1>4, <1>5, <1>6, <1>7, FollowersAreStill, BrokenReadIsStill DEF Next

LEMMA StillBegins == ASSUME Init PROVE Still
<1>1. PICK r \in Run, f \in Follower :
        /\ watching = f /\ timer = None /\ suspended = FALSE
        /\ flow = [w \in Flow |-> None] /\ view = Shown(r, "live", "ready")
        /\ follower = [x \in Follower |->
             IF x = f THEN [run |-> r, stage |-> "opening", cursor |-> 0,
                            again |-> FALSE, fatal |-> FALSE, rest |-> None]
             ELSE None]
  BY DEF Init
<1> QED BY <1>1 DEF Still, Alone, ShowsWatched, Shown

LEMMA StillStutters == ASSUME Still, UNCHANGED vars PROVE Still'
BY DEF Still, Alone, ShowsWatched, vars, watch

\* With one call at a time of opening runs and of leaving the client, the subscription
\* that counts is the one of the run on the screen (_watch of view_model.dart).
THEOREM ShownIsWatched ==
  ASSUME FollowingAssumption, Moves \subseteq {"open", "suspend"}, OneFlow
  PROVE  Spec => []WatchesWhatIsShown
<1>1. Init => FollowInv /\ Still BY FollowBegins, StillBegins
<1>2. FollowInv /\ Still /\ [Next]_vars => FollowInv' /\ Still'
  BY FollowSteps, FollowStutters, FollowingIsStill, StillStutters
<1>3. Still => WatchesWhatIsShown BY DEF Still, ShowsWatched, WatchesWhatIsShown
<1> QED BY <1>1, <1>2, <1>3, PTL DEF Spec

-----------------------------------------------------------------------------
(* Submitting (ClientSubmission)                                            *)

LEMMA SubmitCounts == \A T : Sub!Cardinality(T) = Cardinality(T)
BY Zenon DEF Sub!Cardinality, Cardinality

SubmitView == [run : {None} \cup Sub!Runs, status : {"live", "ended"},
         phase : {"ready", "submitting", "recovering", "error"}, hasPending : BOOLEAN]

\* The tables, the service's rows, the view and the calls have their shapes.
SubmitTablesHold ==
  /\ asked \in Seq(Query) /\ Len(asked) <= SubmitKeys
  /\ runOp \in {None} \cup 1 .. Len(asked)
  /\ drawn \in Nat /\ threads \subseteq 1 .. drawn
  /\ threadOp \in {None} \cup 1 .. drawn /\ thread \in {None} \cup threads
  /\ cache \in [Sub!Runs -> {None, "live", "ended"}] /\ cache[0] # None
  /\ selected \in {None} \cup Sub!Runs
  /\ selected # None => cache[selected] # None
  /\ runs \in [Sub!Runs -> {None} \cup Sub!Row]

SubmitViewHolds ==
  /\ view \in SubmitView
  /\ view.run # None => cache[view.run] # None
  /\ creating \in {None} \cup SubmitCall

\* A request is for a key that has been drawn; a run is asked for in a thread.
SubmitFits(q, n, d) ==
  /\ q \in Sub!Request
  /\ q.to = "run" => q.key \in 1 .. n /\ q.thread \in Nat
  /\ q.to = "thread" => q.key \in 1 .. d

SubmitSound(q) == SubmitFits(q, Len(asked), drawn)

\* A call asks for what it is at, under the key of its operation, and the answer it
\* has still holds: a thread, a run and its end are there for good.
SubmitCallFits(c) ==
  call[c] # None =>
    /\ call[c].kind = "open" <=> call[c].stage = "opening"
    /\ call[c].stage = "reading" => call[c].kind = "refresh"
    /\ call[c].request = None <=> call[c].stage \notin {"thread", "run"}
    /\ call[c].request = None => call[c].answer = None
    /\ call[c].stage \in {"begin", "prepare", "thread", "run"} => call[c].key \in 1 .. Len(asked)
    /\ call[c].stage = "thread" =>
         /\ SubmitSound(call[c].request) /\ call[c].request.to = "thread"
         /\ call[c].answer = "thread" => call[c].request.key \in threads
    /\ call[c].stage = "run" =>
         /\ SubmitSound(call[c].request) /\ call[c].request.to = "run"
         /\ call[c].request.key = call[c].key
         /\ call[c].answer = "refused" => asked[call[c].key] \in Refused
         /\ call[c].answer \in {"live", "ended"} => runs[call[c].key] # None
         /\ call[c].answer = "ended" => runs[call[c].key].status = "ended"

SubmitCallsHold ==
  /\ call \in [SubmitCall -> {None} \cup Sub!Doing]
  /\ \A c \in SubmitCall : SubmitCallFits(c)
  /\ \A q \in stray : SubmitSound(q)

SubmissionInv == SubmitTablesHold /\ SubmitViewHolds /\ SubmitCallsHold /\ Sub!StoredRunsExist

LEMMA SubmissionBegins == ASSUME Sub!SubmissionAssumption, Sub!Init PROVE SubmissionInv
<1> USE DEF Sub!SubmissionAssumption
<1>1. SubmitTablesHold
  <2>1. asked \in Seq(Query) /\ Len(asked) = 0 BY DEF Sub!Init
  <2>2. 0 \in Sub!Runs BY DEF Sub!Runs
  <2>3. runs \in [Sub!Runs -> {None} \cup Sub!Row] BY DEF Sub!Init, Sub!Row
  <2>4. cache \in [Sub!Runs -> {None, "live", "ended"}] /\ cache[0] # None BY <2>2
    DEF Sub!Init, Sub!Reply
  <2> QED BY <2>1, <2>3, <2>4 DEF Sub!Init, SubmitTablesHold
<1>2. SubmitViewHolds
  <2>1. view \in SubmitView BY Zenon DEF Sub!Init, SubmitView
  <2> QED BY <2>1 DEF Sub!Init, SubmitViewHolds
<1>3. SubmitCallsHold BY DEF Sub!Init, SubmitCallsHold, SubmitCallFits
<1>4. Sub!StoredRunsExist BY DEF Sub!Init, Sub!StoredRunsExist, Sub!Row
<1> QED BY <1>1, <1>2, <1>3, <1>4 DEF SubmissionInv

\* What the service has and the client has drawn stays.
KeysGrow ==
  /\ Len(asked) <= Len(asked') /\ \A k \in 1 .. Len(asked) : asked'[k] = asked[k]
  /\ drawn <= drawn' /\ threads \subseteq threads'
  /\ \A r \in Sub!Runs : runs[r] # None =>
       runs'[r] # None /\ (runs[r].status = "ended" => runs'[r].status = "ended")

\* What a call does to itself.
OnlyCall(c) ==
  /\ call' \in [SubmitCall -> {None} \cup Sub!Doing]
  /\ \A x \in SubmitCall \ {c} : call'[x] = call[x]

LEMMA SoundStays ==
  ASSUME SubmitTablesHold, SubmitTablesHold', KeysGrow, NEW q, SubmitSound(q) PROVE SubmitSound(q)'
BY DEF SubmitSound, SubmitFits, KeysGrow, SubmitTablesHold

\* So a call that does nothing is still right about them.
LEMMA CallStays ==
  ASSUME Sub!SubmissionAssumption, SubmitTablesHold, SubmitTablesHold', KeysGrow,
         NEW c \in SubmitCall, SubmitCallFits(c), call'[c] = call[c]
  PROVE  SubmitCallFits(c)'
<1> SUFFICES ASSUME call[c] # None PROVE SubmitCallFits(c)' BY DEF SubmitCallFits
<1>1. call[c].stage \in {"begin", "prepare", "thread", "run"} => call[c].key \in 1 .. Len(asked')
  BY DEF SubmitCallFits, KeysGrow, SubmitTablesHold
<1>2. CASE call[c].stage = "thread"
  <2>1. SubmitSound(call[c].request)'
    BY <1>2, SoundStays DEF SubmitCallFits, SubmitSound, SubmitFits, KeysGrow, SubmitTablesHold
  <2> QED BY <1>1, <1>2, <2>1 DEF SubmitCallFits, KeysGrow
<1>3. CASE call[c].stage = "run"
  <2>1. SubmitSound(call[c].request)'
    BY <1>3, SoundStays DEF SubmitCallFits, SubmitSound, SubmitFits, KeysGrow, SubmitTablesHold
  <2>2. call[c].key \in Sub!Runs
    BY <1>3 DEF SubmitCallFits, SubmitTablesHold, Sub!Runs, Sub!SubmissionAssumption
  <2> QED BY <1>1, <1>3, <2>1, <2>2 DEF SubmitCallFits, KeysGrow
<1> QED BY <1>1, <1>2, <1>3 DEF SubmitCallFits

LEMMA CallsStay ==
  ASSUME Sub!SubmissionAssumption, SubmitTablesHold, SubmitTablesHold', SubmitCallsHold, KeysGrow,
         NEW c \in SubmitCall, OnlyCall(c), SubmitCallFits(c)',
         \A q \in stray' : q \in stray \/ SubmitSound(q)
  PROVE  SubmitCallsHold'
<1>1. ASSUME NEW x \in SubmitCall PROVE SubmitCallFits(x)'
  BY CallStays, x = c \/ call'[x] = call[x] DEF SubmitCallsHold, OnlyCall
<1>2. ASSUME NEW q \in stray' PROVE SubmitSound(q)'
  BY SoundStays, SubmitSound(q) DEF SubmitCallsHold
<1> QED BY <1>1, <1>2 DEF SubmitCallsHold, OnlyCall

LEMMA StoredStay ==
  ASSUME Sub!StoredRunsExist, KeysGrow, UNCHANGED cache PROVE Sub!StoredRunsExist'
BY DEF Sub!StoredRunsExist, KeysGrow

\* A call that only changes the view and ends, or is not there.
LEMMA KeysGrowAsIs == ASSUME SubmitTablesHold, UNCHANGED <<asked, drawn, threads, runs>>
                      PROVE  KeysGrow
BY DEF SubmitTablesHold, KeysGrow

\* A call at work has its shape.
LEMMA SubmitAtWork ==
  ASSUME SubmitCallsHold, NEW c \in SubmitCall, NEW stage, Sub!Working(c, stage)
  PROVE  call[c] \in Sub!Doing /\ call[c].stage = stage /\ SubmitCallFits(c) /\ call[c] # None
BY DEF SubmitCallsHold, Sub!Working

LEMMA LeaveOnly ==
  ASSUME Sub!SubmissionAssumption, SubmitCallsHold, NEW c \in SubmitCall,
         call' = [call EXCEPT ![c] = None]
  PROVE  OnlyCall(c) /\ SubmitCallFits(c)'
BY DEF SubmitCallsHold, OnlyCall, SubmitCallFits

LEMMA FreshOnly ==
  ASSUME Sub!SubmissionAssumption, SubmitTablesHold', SubmitCallsHold, NEW c \in SubmitCall,
         NEW kind, NEW stage, NEW k,
         call' = [call EXCEPT ![c] = Sub!Fresh(kind, stage, k)],
         \/ kind \in {"submit", "refresh"} /\ stage = "begin" /\ k \in 1 .. Len(asked')
         \/ kind = "refresh" /\ stage = "reading" /\ k = None
         \/ kind = "open" /\ stage = "opening" /\ k = None
  PROVE  OnlyCall(c) /\ SubmitCallFits(c)'
<1>1. Sub!Fresh(kind, stage, k) \in Sub!Doing
  BY DEF Sub!Fresh, Sub!Doing, SubmitTablesHold
<1>2. call' \in [SubmitCall -> {None} \cup Sub!Doing] BY <1>1 DEF SubmitCallsHold
<1>3. call'[c] = Sub!Fresh(kind, stage, k) BY DEF SubmitCallsHold
<1>4. SubmitCallFits(c)' BY <1>3, <1>1 DEF SubmitCallFits, Sub!Fresh
<1> QED BY <1>2, <1>4 DEF OnlyCall, SubmitCallsHold

LEMMA SubmitRefreshHolds ==
  ASSUME Sub!SubmissionAssumption, SubmissionInv, NEW c \in SubmitCall, Sub!Refresh(c)
  PROVE  SubmissionInv'
<1> USE DEF SubmissionInv
<1>1. SubmitTablesHold' BY DEF Sub!Refresh, Sub!disk, Sub!service, Sub!drawnKeys, SubmitTablesHold
<1>2. SubmitViewHolds' BY DEF Sub!Refresh, Sub!disk, SubmitViewHolds, SubmitView
<1>3. KeysGrow BY KeysGrowAsIs DEF Sub!Refresh, Sub!service, Sub!drawnKeys
<1>4. OnlyCall(c) /\ SubmitCallFits(c)'
  <2>1. CASE runOp = None
    <3>1. call' = [call EXCEPT ![c] = Sub!Fresh("refresh", "reading", None)] BY <2>1 DEF Sub!Refresh
    <3> QED BY <1>1, <3>1, FreshOnly
  <2>2. CASE runOp # None
    <3>1. call' = [call EXCEPT ![c] = Sub!Fresh("refresh", "begin", runOp)] BY <2>2 DEF Sub!Refresh
    <3>2. runOp \in 1 .. Len(asked') BY <2>2 DEF Sub!Refresh, Sub!drawnKeys, SubmitTablesHold
    <3> QED BY <1>1, <3>1, <3>2, FreshOnly
  <2> QED BY <2>1, <2>2
<1>5. SubmitCallsHold' BY <1>1, <1>3, <1>4, CallsStay DEF Sub!Refresh
<1>6. Sub!StoredRunsExist' BY <1>3, StoredStay DEF Sub!Refresh, Sub!disk
<1> QED BY <1>1, <1>2, <1>5, <1>6

LEMMA SendOnly ==
  ASSUME Sub!SubmissionAssumption, SubmitTablesHold, SubmitTablesHold', SubmitCallsHold,
         NEW c \in SubmitCall, call[c] # None,
         NEW stage \in {"thread", "run"}, NEW q, Sub!Send(c, stage, q), SubmitFits(q, Len(asked'),
         drawn'), q.to = stage,
         call[c].kind # "open", call[c].key \in 1 .. Len(asked'),
         stage = "run" => q.key = call[c].key
  PROVE  OnlyCall(c) /\ SubmitCallFits(c)'
<1> DEFINE w == [call[c] EXCEPT !.stage = stage, !.request = q, !.answer = None]
<1>1. call[c] \in Sub!Doing BY DEF SubmitCallsHold
<1>2. q \in Sub!Request BY DEF SubmitSound, SubmitFits
<1>3. w \in Sub!Doing /\ w.stage = stage /\ w.request = q /\ w.answer = None /\ w.key = call[c].key
      /\ w.kind = call[c].kind
  BY <1>1, <1>2 DEF Sub!Doing
<1>4. call' = [call EXCEPT ![c] = w] BY DEF Sub!Send
<1> HIDE DEF w
<1>5. call' \in [SubmitCall -> {None} \cup Sub!Doing] /\ call'[c] = w BY <1>3, <1>4
  DEF SubmitCallsHold
<1>6. q # None /\ None \notin Sub!Reply BY <1>2 DEF Sub!SubmissionAssumption
<1>7. SubmitCallFits(c)' BY <1>3, <1>5, <1>6 DEF SubmitCallFits, Sub!Reply, SubmitSound
<1> QED BY <1>4, <1>5, <1>7 DEF OnlyCall, SubmitCallsHold

LEMMA SendSays ==
  ASSUME SubmitCallsHold, NEW c \in SubmitCall, call[c] # None, NEW stage \in {"thread", "run"},
         NEW q \in Sub!Request, Sub!Send(c, stage, q)
  PROVE  /\ call'[c] \in Sub!Doing /\ call'[c].stage = stage
         /\ call'[c].key = call[c].key /\ call'[c].kind = call[c].kind
<1>1. call'[c] = [call[c] EXCEPT !.stage = stage, !.request = q, !.answer = None]
  BY DEF Sub!Send, SubmitCallsHold
<1>2. call[c] \in Sub!Doing BY DEF SubmitCallsHold
<1> QED BY <1>1, <1>2 DEF Sub!Doing

\* What a call that ends leaves in the view.
LEMMA FailHolds ==
  ASSUME SubmitViewHolds, NEW c \in SubmitCall, NEW failed \in BOOLEAN, Sub!Fail(c, failed),
         UNCHANGED cache
  PROVE  SubmitViewHolds' /\ call' = [call EXCEPT ![c] = None]
<1> DEFINE h == IF call[c].kind = "open" THEN view.hasPending ELSE failed
<1>1. h \in BOOLEAN BY DEF SubmitViewHolds, SubmitView
<1>2. view' = [view EXCEPT !.phase = "error", !.hasPending = h] BY DEF Sub!Fail
<1> HIDE DEF h
<1>3. view' \in SubmitView /\ view'.run = view.run BY <1>1, <1>2 DEF SubmitViewHolds, SubmitView
<1> QED BY <1>3 DEF SubmitViewHolds, Sub!Fail, Sub!Leave

LEMMA ShowsHolds ==
  ASSUME SubmitViewHolds, NEW r \in {None} \cup Sub!Runs, NEW status \in {"live", "ended"},
         NEW phase \in {"ready", "submitting", "recovering", "error"}, NEW pending \in BOOLEAN,
         Sub!Shows(r, status, phase, pending)
  PROVE  view' \in SubmitView /\ view'.run = r
BY DEF Sub!Shows, SubmitView

LEMMA SubmitHolds ==
  ASSUME Sub!SubmissionAssumption, SubmissionInv, NEW c \in SubmitCall, NEW q \in Query,
         Sub!Submit(c, q)
  PROVE  SubmissionInv'
<1> USE DEF SubmissionInv
<1>1. CASE UNCHANGED <<runOp, asked, call, creating>>
  <2>1. SubmitTablesHold' BY <1>1 DEF Sub!Submit, Sub!service, SubmitTablesHold
  <2>2. SubmitViewHolds'
    <3>1. \/ view' = [view EXCEPT !.phase = "submitting"]
          \/ view' = [view EXCEPT !.phase = "error", !.hasPending = TRUE]
          \/ UNCHANGED view
      BY <1>1 DEF Sub!Submit, Sub!PrepareRun
    <3> QED BY <1>1, <3>1 DEF Sub!Submit, SubmitViewHolds, SubmitView
  <2>3. KeysGrow BY <1>1, KeysGrowAsIs DEF Sub!Submit, Sub!service
  <2>4. OnlyCall(c) /\ SubmitCallFits(c)'
    <3>1. OnlyCall(c) BY <1>1 DEF SubmitCallsHold, OnlyCall
    <3> QED BY <1>1, <2>1, <2>3, <3>1, CallStays DEF SubmitCallsHold
  <2>5. SubmitCallsHold' BY <2>1, <2>3, <2>4, CallsStay DEF Sub!Submit
  <2>6. Sub!StoredRunsExist' BY <2>3, StoredStay DEF Sub!Submit
  <2> QED BY <2>1, <2>2, <2>5, <2>6
<1>2. ASSUME creating = None, Sub!PrepareRun(c, q), runOp' # None,
             call' = [call EXCEPT ![c] = Sub!Fresh("submit", "begin", runOp')],
             creating' = c, view' = [view EXCEPT !.phase = "submitting"],
             \/ UNCHANGED <<runOp, asked>> 
             \/ Sub!Draws(q) /\ runOp' = Len(asked) + 1
      PROVE  SubmissionInv'
  <2>1. SubmitTablesHold' /\ KeysGrow
    <3>1. CASE UNCHANGED <<runOp, asked>>
      <4>1. SubmitTablesHold' BY <3>1 DEF Sub!Submit, Sub!service, SubmitTablesHold
      <4> QED BY <3>1, <4>1, KeysGrowAsIs DEF Sub!Submit, Sub!service
    <3>2. CASE Sub!Draws(q) /\ runOp' = Len(asked) + 1
      <4>1. asked' = Append(asked, q) /\ Len(asked) < SubmitKeys BY <3>2 DEF Sub!Draws
      <4>2. asked' \in Seq(Query) /\ Len(asked') = Len(asked) + 1
            /\ \A k \in 1 .. Len(asked) : asked'[k] = asked[k]
        BY <4>1 DEF SubmitTablesHold
      <4>3. SubmitTablesHold' BY <3>2, <4>1, <4>2 DEF Sub!Submit, Sub!service, SubmitTablesHold,
                                                      Sub!SubmissionAssumption
      <4>4. KeysGrow BY <4>2 DEF Sub!Submit, Sub!service, SubmitTablesHold, KeysGrow
      <4> QED BY <4>3, <4>4
    <3> QED BY <1>2, <3>1, <3>2
  <2>2. SubmitViewHolds' BY <1>2 DEF Sub!Submit, SubmitViewHolds, SubmitView
  <2>3. runOp' \in 1 .. Len(asked') BY <1>2, <2>1 DEF SubmitTablesHold
  <2>4. OnlyCall(c) /\ SubmitCallFits(c)' BY <1>2, <2>1, <2>3, FreshOnly
  <2>5. SubmitCallsHold' BY <2>1, <2>4, CallsStay DEF Sub!Submit
  <2>6. Sub!StoredRunsExist' BY <2>1, StoredStay DEF Sub!Submit
  <2> QED BY <2>1, <2>2, <2>5, <2>6
<1>3. Len(asked) + 1 # None BY DEF SubmitTablesHold, Sub!SubmissionAssumption
<1> QED BY <1>1, <1>2, <1>3 DEF Sub!Submit, Sub!PrepareRun

LEMMA ReadThreadHolds ==
  ASSUME Sub!SubmissionAssumption, SubmissionInv, NEW c \in SubmitCall, Sub!ReadThread(c)
  PROVE  SubmissionInv'
<1> USE DEF SubmissionInv
<1>0. call[c] \in Sub!Doing /\ call[c].stage = "begin" /\ SubmitCallFits(c) /\ call[c] # None
  BY SubmitAtWork DEF Sub!ReadThread
<1>1. SubmitTablesHold' BY DEF Sub!ReadThread, Sub!disk, Sub!service, Sub!drawnKeys,
                               SubmitTablesHold
<1>2. SubmitViewHolds' BY DEF Sub!ReadThread, Sub!disk, SubmitViewHolds
<1>3. KeysGrow BY KeysGrowAsIs DEF Sub!ReadThread, Sub!service, Sub!drawnKeys
<1>4. OnlyCall(c) /\ SubmitCallFits(c)'
  <2>1. CASE thread # None
    <3> DEFINE q == Sub!RunRequest(call[c].key, thread)
    <3>1. Sub!Send(c, "run", q) BY <2>1 DEF Sub!ReadThread
    <3>2. thread \in Nat /\ call[c].key \in 1 .. Len(asked)
      <4>1. thread \in threads /\ threads \subseteq 1 .. drawn /\ drawn \in Nat
        BY <2>1 DEF SubmitTablesHold
      <4>2. call[c].key \in 1 .. Len(asked) BY <1>0 DEF SubmitCallFits
      <4>3. thread \in 1 .. drawn BY <4>1
      <4> QED BY <4>1, <4>2, <4>3
    <3>3. q \in Sub!Request /\ q.to = "run" /\ q.key = call[c].key /\ q.thread = thread
      BY <3>2 DEF Sub!RunRequest, Sub!Request, SubmitTablesHold
    <3> HIDE DEF q
    <3>4. SubmitFits(q, Len(asked'), drawn')
      BY <3>2, <3>3 DEF SubmitFits, Sub!ReadThread, Sub!drawnKeys
    <3>5. call[c].kind # "open" BY <1>0 DEF SubmitCallFits
    <3>6. call[c].key \in 1 .. Len(asked') BY <3>2 DEF Sub!ReadThread, Sub!drawnKeys
    <3> QED BY <1>0, <1>1, <3>1, <3>3, <3>4, <3>5, <3>6, SendOnly
  <2>2. CASE thread = None
    <3> DEFINE w == [call[c] EXCEPT !.stage = "prepare"]
    <3>1. call' = [call EXCEPT ![c] = w] BY <1>0, <2>2 DEF Sub!ReadThread, SubmitCallsHold
    <3>2. w \in Sub!Doing /\ w.stage = "prepare" /\ w.request = call[c].request /\ w.kind = call[c].kind
          /\ w.key = call[c].key /\ w.answer = call[c].answer
      BY <1>0 DEF Sub!Doing
    <3> HIDE DEF w
    <3>3. call' \in [SubmitCall -> {None} \cup Sub!Doing] /\ call'[c] = w BY <3>1, <3>2
      DEF SubmitCallsHold
    <3>4. SubmitCallFits(c)' BY <1>0, <3>2, <3>3 DEF SubmitCallFits, Sub!ReadThread, Sub!drawnKeys
    <3> QED BY <3>1, <3>3, <3>4 DEF OnlyCall, SubmitCallsHold
  <2> QED BY <2>1, <2>2
<1>5. SubmitCallsHold' BY <1>1, <1>3, <1>4, CallsStay DEF Sub!ReadThread
<1>6. Sub!StoredRunsExist' BY <1>3, StoredStay DEF Sub!ReadThread, Sub!disk
<1> QED BY <1>1, <1>2, <1>5, <1>6

LEMMA PrepareThreadHolds ==
  ASSUME Sub!SubmissionAssumption, SubmissionInv, NEW c \in SubmitCall, Sub!PrepareThread(c)
  PROVE  SubmissionInv'
<1> USE DEF SubmissionInv
<1>0. call[c] \in Sub!Doing /\ call[c].stage = "prepare" /\ SubmitCallFits(c) /\ call[c] # None
  BY SubmitAtWork DEF Sub!PrepareThread
<1>1. SubmitTablesHold' /\ KeysGrow /\ threadOp' \in 1 .. drawn'
  BY DEF Sub!PrepareThread, Sub!service, SubmitTablesHold, KeysGrow, Sub!SubmissionAssumption
<1>2. SubmitViewHolds' BY DEF Sub!PrepareThread, SubmitViewHolds
<1>4. OnlyCall(c) /\ SubmitCallFits(c)'
  <2> DEFINE q == Sub!ThreadRequest(threadOp')
  <2>1. Sub!Send(c, "thread", q) BY DEF Sub!PrepareThread
  <2>2. q \in Sub!Request /\ q.to = "thread" /\ q.key = threadOp'
    BY <1>1 DEF Sub!ThreadRequest, Sub!Request, SubmitTablesHold
  <2> HIDE DEF q
  <2>4. SubmitFits(q, Len(asked'), drawn') BY <1>1, <2>2 DEF SubmitFits
  <2>5. call[c].kind # "open" /\ call[c].key \in 1 .. Len(asked') BY <1>0
    DEF SubmitCallFits, Sub!PrepareThread
  <2> QED BY <1>0, <1>1, <2>1, <2>2, <2>4, <2>5, SendOnly
<1>5. SubmitCallsHold' BY <1>1, <1>4, CallsStay DEF Sub!PrepareThread
<1>6. Sub!StoredRunsExist' BY <1>1, StoredStay DEF Sub!PrepareThread
<1> QED BY <1>1, <1>2, <1>5, <1>6

LEMMA ThreadMadeHolds ==
  ASSUME Sub!SubmissionAssumption, SubmissionInv, NEW c \in SubmitCall, Sub!ThreadMade(c)
  PROVE  SubmissionInv'
<1> USE DEF SubmissionInv
<1>0. call[c] \in Sub!Doing /\ call[c].stage = "thread" /\ SubmitCallFits(c) /\ call[c] # None
      /\ call[c].request.key \in threads
  BY SubmitAtWork DEF Sub!ThreadMade, SubmitCallFits
<1>1. SubmitTablesHold' /\ KeysGrow /\ thread' \in Nat /\ thread' \in threads
  <2>1. /\ thread' \in threads /\ threadOp' = None
        /\ UNCHANGED <<runOp, cache, selected, threads, runs, asked, drawn>>
    BY <1>0 DEF Sub!ThreadMade, Sub!service, Sub!drawnKeys
  <2>2. threads \subseteq Nat BY DEF SubmitTablesHold
  <2>3. SubmitTablesHold' BY <2>1 DEF SubmitTablesHold
  <2>4. KeysGrow
    <3>1. Len(asked) \in Nat /\ drawn \in Nat BY DEF SubmitTablesHold
    <3> QED BY <2>1, <3>1 DEF KeysGrow
  <2> QED BY <2>1, <2>2, <2>3, <2>4
<1>2. SubmitViewHolds' BY DEF Sub!ThreadMade, SubmitViewHolds
<1>4. OnlyCall(c) /\ SubmitCallFits(c)'
  <2> DEFINE q == Sub!RunRequest(call[c].key, thread')
  <2>1. Sub!Send(c, "run", q) BY DEF Sub!ThreadMade
  <2>2. call[c].key \in 1 .. Len(asked') /\ call[c].kind # "open"
    BY <1>0 DEF SubmitCallFits, Sub!ThreadMade, Sub!drawnKeys
  <2>3. q \in Sub!Request /\ q.to = "run" /\ q.key = call[c].key /\ q.thread = thread'
    BY <1>1, <2>2 DEF Sub!RunRequest, Sub!Request, SubmitTablesHold
  <2> HIDE DEF q
  <2>4. SubmitFits(q, Len(asked'), drawn') BY <1>1, <2>2, <2>3 DEF SubmitFits
  <2> QED BY <1>0, <1>1, <2>1, <2>2, <2>3, <2>4, SendOnly
<1>5. SubmitCallsHold' BY <1>1, <1>4, CallsStay DEF Sub!ThreadMade
<1>6. Sub!StoredRunsExist' BY <1>1, StoredStay DEF Sub!ThreadMade
<1> QED BY <1>1, <1>2, <1>5, <1>6

LEMMA RunMadeHolds ==
  ASSUME Sub!SubmissionAssumption, SubmissionInv, NEW c \in SubmitCall, Sub!RunMade(c)
  PROVE  SubmissionInv'
<1> USE DEF SubmissionInv
<1> DEFINE r == call[c].key
<1>0. /\ call[c] \in Sub!Doing /\ call[c].stage = "run" /\ SubmitCallFits(c) /\ call[c] # None
      /\ r \in 1 .. Len(asked) /\ r \in Sub!Runs /\ runs[r] # None
      /\ call[c].answer \in {"live", "ended"}
      /\ call[c].answer = "ended" => runs[r].status = "ended"
  <2>1. call[c] \in Sub!Doing /\ call[c].stage = "run" /\ SubmitCallFits(c) /\ call[c] # None
    BY SubmitAtWork DEF Sub!RunMade
  <2>2. r \in 1 .. Len(asked) BY <2>1 DEF SubmitCallFits
  <2>3. r \in Sub!Runs BY <2>2 DEF SubmitTablesHold, Sub!Runs, Sub!SubmissionAssumption
  <2> QED BY <2>1, <2>2, <2>3 DEF SubmitCallFits, Sub!RunMade
<1>1. /\ cache' = [cache EXCEPT ![r] = call[c].answer] /\ selected' = r /\ runOp' = None
      /\ UNCHANGED <<thread, threadOp, threads, runs, asked, drawn>> /\ stray' = stray
  BY DEF Sub!RunMade, Sub!service, Sub!drawnKeys
<1>2. call[c].answer # None /\ "ended" # None BY <1>0 DEF Sub!SubmissionAssumption, Sub!Reply
<1>3. /\ cache' \in [Sub!Runs -> {None, "live", "ended"}] /\ cache'[r] = call[c].answer
      /\ \A x \in Sub!Runs \ {r} : cache'[x] = cache[x]
  BY <1>0, <1>1 DEF SubmitTablesHold
<1>4. 0 \in Sub!Runs BY DEF Sub!Runs, Sub!SubmissionAssumption
<1>5. SubmitTablesHold' BY <1>0, <1>1, <1>2, <1>3, <1>4 DEF SubmitTablesHold
<1>6. KeysGrow BY <1>1, KeysGrowAsIs
<1>7. /\ \E phase : Sub!Shows(r, call[c].answer, phase, FALSE) /\ phase \in {"ready", "submitting", "recovering", "error"}
      /\ creating' \in {None} \cup SubmitCall
  <2>1. view.phase \in {"ready", "submitting", "recovering", "error"} BY
    DEF SubmitViewHolds, SubmitView
  <2> QED BY <2>1 DEF Sub!RunMade, Sub!Leave, SubmitViewHolds
<1>8. view' \in SubmitView /\ view'.run = r BY <1>0, <1>7, ShowsHolds
<1>9. SubmitViewHolds' BY <1>0, <1>2, <1>3, <1>7, <1>8 DEF SubmitViewHolds
<1>10. OnlyCall(c) /\ SubmitCallFits(c)'
  <2>1. CASE call[c].kind = "submit" BY <2>1, LeaveOnly DEF Sub!RunMade, Sub!Leave
  <2>2. CASE call[c].kind # "submit"
    <3>1. call' = [call EXCEPT ![c] = Sub!Fresh("refresh", "reading", None)] BY <2>2 DEF Sub!RunMade
    <3> QED BY <1>5, <3>1, FreshOnly
  <2> QED BY <2>1, <2>2
<1>11. SubmitCallsHold' BY <1>1, <1>5, <1>6, <1>10, CallsStay
<1>12. Sub!StoredRunsExist' BY <1>0, <1>1, <1>3 DEF Sub!StoredRunsExist
<1> QED BY <1>5, <1>9, <1>11, <1>12

LEMMA RunRefusedHolds ==
  ASSUME Sub!SubmissionAssumption, SubmissionInv, NEW c \in SubmitCall, Sub!RunRefused(c)
  PROVE  SubmissionInv'
<1> USE DEF SubmissionInv
<1>1. SubmitTablesHold' BY DEF Sub!RunRefused, Sub!service, Sub!drawnKeys, SubmitTablesHold
<1>2. (runOp' # None) \in BOOLEAN /\ Sub!Fail(c, runOp' # None) /\ UNCHANGED cache BY
  DEF Sub!RunRefused
<1>3. SubmitViewHolds' /\ call' = [call EXCEPT ![c] = None] BY <1>2, FailHolds
<1>4. KeysGrow BY KeysGrowAsIs DEF Sub!RunRefused, Sub!service, Sub!drawnKeys
<1>5. OnlyCall(c) /\ SubmitCallFits(c)' BY <1>3, LeaveOnly
<1>6. SubmitCallsHold' BY <1>1, <1>4, <1>5, CallsStay DEF Sub!RunRefused
<1>7. Sub!StoredRunsExist' BY <1>4, StoredStay DEF Sub!RunRefused
<1> QED BY <1>1, <1>3, <1>6, <1>7

LEMMA RefreshReadsHolds ==
  ASSUME Sub!SubmissionAssumption, SubmissionInv, NEW c \in SubmitCall, Sub!RefreshReads(c)
  PROVE  SubmissionInv'
<1> USE DEF SubmissionInv
<1>1. cache' = [r \in Sub!Runs |-> IF runs[r] = None THEN cache[r] ELSE runs[r].status]
  BY DEF Sub!RefreshReads
<1>2. \A r \in Sub!Runs : cache[r] # None => cache'[r] # None
  BY <1>1 DEF SubmitTablesHold, Sub!Row, Sub!Reply, Sub!SubmissionAssumption
<1>3. 0 \in Sub!Runs BY DEF Sub!Runs, Sub!SubmissionAssumption
<1>4. SubmitTablesHold'
  <2>1. cache' \in [Sub!Runs -> {None, "live", "ended"}] BY <1>1 DEF SubmitTablesHold, Sub!Row
  <2> QED BY <1>2, <1>3, <2>1 DEF Sub!RefreshReads, Sub!service, Sub!drawnKeys, SubmitTablesHold
<1>5. KeysGrow BY KeysGrowAsIs DEF Sub!RefreshReads, Sub!service, Sub!drawnKeys
<1>6. SubmitViewHolds'
  <2> DEFINE st == IF view.run = None THEN view.status ELSE runs[view.run].status
  <2>1. st \in {"live", "ended"}
    <3>1. CASE view.run # None
      <4>1. view.run \in Sub!Runs /\ runs[view.run] # None BY <3>1
        DEF SubmitViewHolds, SubmitView, Sub!StoredRunsExist
      <4> QED BY <3>1, <4>1 DEF SubmitTablesHold, Sub!Row
    <3> QED BY <3>1 DEF SubmitViewHolds, SubmitView
  <2>2. view' = [view EXCEPT !.phase = "ready", !.status = st] BY DEF Sub!RefreshReads
  <2> HIDE DEF st
  <2>3. view' \in SubmitView /\ view'.run = view.run /\ view.run \in {None} \cup Sub!Runs
    BY <2>1, <2>2 DEF SubmitViewHolds, SubmitView
  <2> QED BY <1>2, <2>3 DEF SubmitViewHolds, Sub!RefreshReads, Sub!Leave
<1>7. OnlyCall(c) /\ SubmitCallFits(c)' BY LeaveOnly DEF Sub!RefreshReads, Sub!Leave
<1>8. SubmitCallsHold' BY <1>4, <1>5, <1>7, CallsStay DEF Sub!RefreshReads
<1>9. Sub!StoredRunsExist' BY <1>1 DEF Sub!StoredRunsExist, Sub!RefreshReads, Sub!service,
                                       SubmitTablesHold, Sub!Row
<1> QED BY <1>4, <1>6, <1>8, <1>9

LEMMA OpenRunHolds ==
  ASSUME Sub!SubmissionAssumption, SubmissionInv, NEW c \in SubmitCall, Sub!OpenRun(c)
  PROVE  SubmissionInv'
<1> USE DEF SubmissionInv
<1>0. 0 \in Sub!Runs BY DEF Sub!Runs, Sub!SubmissionAssumption
<1>1. SubmitTablesHold' BY <1>0 DEF Sub!OpenRun, Sub!service, Sub!drawnKeys, SubmitTablesHold
<1>2. KeysGrow BY KeysGrowAsIs DEF Sub!OpenRun, Sub!service, Sub!drawnKeys
<1>3. SubmitViewHolds'
  <2>1. view.hasPending \in BOOLEAN BY DEF SubmitViewHolds, SubmitView
  <2>2. Sub!Shows(0, "ended", "recovering", view.hasPending) BY DEF Sub!OpenRun
  <2>3. view' \in SubmitView /\ view'.run = 0 BY <1>0, <2>1, <2>2, ShowsHolds
  <2> QED BY <1>0, <2>3 DEF Sub!OpenRun, SubmitViewHolds, SubmitTablesHold
<1>4. OnlyCall(c) /\ SubmitCallFits(c)'
  <2>1. call' = [call EXCEPT ![c] = Sub!Fresh("open", "opening", None)] BY DEF Sub!OpenRun
  <2> QED BY <1>1, <2>1, FreshOnly
<1>5. SubmitCallsHold' BY <1>1, <1>2, <1>4, CallsStay DEF Sub!OpenRun
<1>6. Sub!StoredRunsExist' BY <1>2, StoredStay DEF Sub!OpenRun
<1> QED BY <1>1, <1>3, <1>5, <1>6

LEMMA OpenedHolds ==
  ASSUME Sub!SubmissionAssumption, SubmissionInv, NEW c \in SubmitCall, Sub!Opened(c)
  PROVE  SubmissionInv'
<1> USE DEF SubmissionInv
<1>0. 0 \in Sub!Runs BY DEF Sub!Runs, Sub!SubmissionAssumption
<1>1. SubmitTablesHold' BY DEF Sub!Opened, Sub!disk, Sub!service, Sub!drawnKeys, SubmitTablesHold
<1>2. KeysGrow BY KeysGrowAsIs DEF Sub!Opened, Sub!service, Sub!drawnKeys
<1>3. SubmitViewHolds'
  <2>1. view.hasPending \in BOOLEAN BY DEF SubmitViewHolds, SubmitView
  <2>2. Sub!Shows(0, "ended", "ready", view.hasPending) BY DEF Sub!Opened
  <2>3. view' \in SubmitView /\ view'.run = 0 BY <1>0, <2>1, <2>2, ShowsHolds
  <2> QED BY <1>0, <2>3 DEF Sub!Opened, Sub!Leave, Sub!disk, SubmitViewHolds, SubmitTablesHold
<1>4. OnlyCall(c) /\ SubmitCallFits(c)' BY LeaveOnly DEF Sub!Opened, Sub!Leave
<1>5. SubmitCallsHold' BY <1>1, <1>2, <1>4, CallsStay DEF Sub!Opened
<1>6. Sub!StoredRunsExist' BY <1>2, StoredStay DEF Sub!Opened, Sub!disk
<1> QED BY <1>1, <1>3, <1>5, <1>6

LEMMA CallsAllStay ==
  ASSUME Sub!SubmissionAssumption, SubmitTablesHold, SubmitTablesHold', SubmitCallsHold, KeysGrow,
         UNCHANGED call,
         \A q \in stray' : q \in stray \/ SubmitSound(q)
  PROVE  SubmitCallsHold'
<1>1. ASSUME NEW x \in SubmitCall PROVE SubmitCallFits(x)' BY CallStays DEF SubmitCallsHold
<1>2. ASSUME NEW q \in stray' PROVE SubmitSound(q)' BY SoundStays, SubmitSound(q)
  DEF SubmitCallsHold
<1> QED BY <1>1, <1>2 DEF SubmitCallsHold

LEMMA ViewStepsHold ==
  ASSUME Sub!SubmissionAssumption, SubmissionInv,
         Sub!Disturb \/ Sub!PrepareAnalysis \/ Sub!WatchTells
  PROVE  SubmissionInv'
<1> USE DEF SubmissionInv
<1>1. CASE Sub!Disturb
  <2>1. SubmitTablesHold' BY <1>1 DEF Sub!Disturb, Sub!disk, Sub!service, Sub!drawnKeys,
                                      SubmitTablesHold
  <2>2. KeysGrow BY <1>1, KeysGrowAsIs DEF Sub!Disturb, Sub!service, Sub!drawnKeys
  <2>3. SubmitViewHolds' BY <1>1 DEF Sub!Disturb, Sub!disk, SubmitViewHolds, SubmitView
  <2>4. SubmitCallsHold' BY <1>1, <2>1, <2>2, CallsAllStay DEF Sub!Disturb
  <2>5. Sub!StoredRunsExist' BY <1>1, <2>2, StoredStay DEF Sub!Disturb, Sub!disk
  <2> QED BY <2>1, <2>3, <2>4, <2>5
<1>2. CASE Sub!PrepareAnalysis
  <2>1. SubmitTablesHold' BY <1>2 DEF Sub!PrepareAnalysis, Sub!service, Sub!drawnKeys,
                                      SubmitTablesHold
  <2>2. KeysGrow BY <1>2, KeysGrowAsIs DEF Sub!PrepareAnalysis, Sub!service, Sub!drawnKeys
  <2>3. SubmitViewHolds' BY <1>2 DEF Sub!PrepareAnalysis, SubmitViewHolds, SubmitView
  <2>4. SubmitCallsHold' BY <1>2, <2>1, <2>2, CallsAllStay DEF Sub!PrepareAnalysis
  <2>5. Sub!StoredRunsExist' BY <1>2, <2>2, StoredStay DEF Sub!PrepareAnalysis
  <2> QED BY <2>1, <2>3, <2>4, <2>5
<1>3. CASE Sub!WatchTells
  <2> DEFINE r == view.run
  <2>0. r \in Sub!Runs /\ cache[r] # None /\ runs[r] # None /\ runs[r].status = "ended"
    BY <1>3 DEF Sub!WatchTells, SubmitViewHolds, SubmitView, Sub!StoredRunsExist
  <2>1. cache' = [cache EXCEPT ![r] = "ended"] /\ "ended" # None
    BY <1>3 DEF Sub!WatchTells, Sub!SubmissionAssumption, Sub!Reply
  <2>2. /\ cache' \in [Sub!Runs -> {None, "live", "ended"}] /\ cache'[r] = "ended"
        /\ \A x \in Sub!Runs \ {r} : cache'[x] = cache[x]
    BY <2>0, <2>1 DEF SubmitTablesHold
  <2>3. 0 \in Sub!Runs BY DEF Sub!Runs, Sub!SubmissionAssumption
  <2>4. SubmitTablesHold' BY <1>3, <2>1, <2>2, <2>3 DEF Sub!WatchTells, Sub!service, Sub!drawnKeys,
                                                        SubmitTablesHold
  <2>5. KeysGrow BY <1>3, KeysGrowAsIs DEF Sub!WatchTells, Sub!service, Sub!drawnKeys
  <2>6. view' \in SubmitView /\ view'.run = r
    <3>1. view.hasPending \in BOOLEAN BY DEF SubmitViewHolds, SubmitView
    <3>2. Sub!Shows(r, "ended", "ready", view.hasPending) BY <1>3 DEF Sub!WatchTells
    <3> QED BY <2>0, <3>1, <3>2, ShowsHolds
  <2>7. SubmitViewHolds' BY <1>3, <2>0, <2>1, <2>2, <2>6 DEF Sub!WatchTells, SubmitViewHolds
  <2>8. SubmitCallsHold' BY <1>3, <2>4, <2>5, CallsAllStay DEF Sub!WatchTells
  <2>9. Sub!StoredRunsExist' BY <1>3, <2>0, <2>2 DEF Sub!WatchTells, Sub!service,
                                                     Sub!StoredRunsExist
  <2> QED BY <2>4, <2>7, <2>8, <2>9
<1> QED BY <1>1, <1>2, <1>3

\* The service binds a key to one run; what it says of it is so.
LEMMA SubmitHandleHolds ==
  ASSUME Sub!SubmissionAssumption, SubmitTablesHold, NEW q, SubmitSound(q), Sub!Handle(q),
         UNCHANGED <<Sub!disk, Sub!drawnKeys>>
  PROVE  SubmitTablesHold' /\ KeysGrow
<1> USE DEF Sub!disk, Sub!drawnKeys
<1>1. threads \subseteq threads' /\ threads' \subseteq 1 .. drawn
  BY DEF Sub!Handle, SubmitSound, SubmitFits, SubmitTablesHold
<1>2. CASE UNCHANGED runs
  <2>1. SubmitTablesHold' BY <1>1, <1>2 DEF SubmitTablesHold
  <2> QED BY <1>1, <1>2, <2>1 DEF KeysGrow, SubmitTablesHold
<1>3. CASE q.to = "run" /\ runs[q.key] = None
           /\ runs' = [runs EXCEPT ![q.key] = [thread |-> q.thread, status |-> "live"]]
  <2> DEFINE row == [thread |-> q.thread, status |-> "live"]
  <2>1. row \in Sub!Row /\ q.key \in Sub!Runs
    BY <1>3 DEF Sub!Row, SubmitSound, SubmitFits, Sub!Runs, SubmitTablesHold,
                Sub!SubmissionAssumption
  <2> HIDE DEF row
  <2>2. runs' \in [Sub!Runs -> {None} \cup Sub!Row] /\ \A r \in Sub!Runs : runs[r] # None => runs'[r] = runs[r]
    BY <1>3, <2>1 DEF SubmitTablesHold, row
  <2>3. SubmitTablesHold' BY <1>1, <2>2 DEF SubmitTablesHold
  <2> QED BY <1>1, <2>2, <2>3 DEF KeysGrow, SubmitTablesHold
<1> QED BY <1>2, <1>3 DEF Sub!Handle

LEMMA AnswerHolds ==
  ASSUME Sub!SubmissionAssumption, SubmitTablesHold, NEW q, SubmitSound(q)
  PROVE  Sub!Answer(q) \in Sub!Reply
<1>1. CASE q.to = "run" /\ runs[q.key] # None
  <2>1. q.key \in Sub!Runs BY <1>1 DEF SubmitSound, SubmitFits, SubmitTablesHold, Sub!Runs,
                                       Sub!SubmissionAssumption
  <2>2. runs[q.key].status \in {"live", "ended"} BY <1>1, <2>1 DEF SubmitTablesHold, Sub!Row
  <2> QED BY <1>1, <2>2 DEF Sub!Answer, Sub!Reply
<1> QED BY <1>1 DEF Sub!Answer, Sub!Reply, Sub!Request, SubmitSound, SubmitFits

LEMMA SubmitServeHolds ==
  ASSUME Sub!SubmissionAssumption, SubmissionInv, NEW c \in SubmitCall, Sub!Serve(c)
  PROVE  SubmissionInv'
<1> USE DEF SubmissionInv
<1> DEFINE q == call[c].request
           w == [call[c] EXCEPT !.answer = Sub!Answer(q)]
<1>0. /\ call[c] \in Sub!Doing /\ SubmitCallFits(c) /\ call[c] # None /\ q # None /\ call[c].answer = None
      /\ call[c].stage \in {"thread", "run"}
  BY DEF Sub!Serve, Sub!Unanswered, SubmitCallsHold, SubmitCallFits
<1>1. SubmitSound(q) /\ q.to = call[c].stage /\ q \in Sub!Request BY <1>0
  DEF SubmitCallFits, SubmitSound, SubmitFits
<1>2. SubmitTablesHold' /\ KeysGrow BY <1>1, SubmitHandleHolds DEF Sub!Serve
<1>3. SubmitViewHolds' BY DEF Sub!Serve, Sub!disk, SubmitViewHolds
<1>4. Sub!Answer(q) \in Sub!Reply BY <1>1, AnswerHolds
<1>5. /\ w \in Sub!Doing /\ w.stage = call[c].stage /\ w.request = q /\ w.kind = call[c].kind
      /\ w.key = call[c].key /\ w.answer = Sub!Answer(q)
  BY <1>0, <1>4 DEF Sub!Doing
<1>6. call' = [call EXCEPT ![c] = w] BY DEF Sub!Serve
<1> HIDE DEF w
<1>7. call' \in [SubmitCall -> {None} \cup Sub!Doing] /\ call'[c] = w BY <1>5, <1>6
  DEF SubmitCallsHold
<1>8. SubmitSound(q)' BY <1>1, <1>2, SoundStays DEF SubmitSound, SubmitFits, Sub!Serve
<1>9. SubmitCallFits(c)'
  <2>1. CASE call[c].stage = "thread"
    <3>1. q.to = "thread" /\ q.key \in threads' BY <1>1, <2>1 DEF Sub!Serve, Sub!Handle
    <3> QED BY <1>0, <1>1, <1>5, <1>7, <1>8, <2>1, <3>1 DEF SubmitCallFits, Sub!Serve, Sub!drawnKeys
  <2>2. CASE call[c].stage = "run"
    <3>1. q.to = "run" /\ q.key = call[c].key /\ q.key \in 1 .. Len(asked) /\ q.key \in Sub!Runs
      BY <1>0, <1>1, <2>2 DEF SubmitCallFits, SubmitSound, SubmitFits, SubmitTablesHold, Sub!Runs,
                              Sub!SubmissionAssumption
    <3>2. Sub!Answer(q) = "refused" => asked[q.key] \in Refused
      BY <3>1 DEF Sub!Answer, SubmitTablesHold, Sub!Row
    <3>3. Sub!Answer(q) \in {"live", "ended"} => runs'[q.key] # None
      <4>1. CASE runs[q.key] # None BY <1>2, <3>1, <4>1 DEF KeysGrow
      <4>2. CASE runs[q.key] = None /\ Sub!Answer(q) = "live"
        <5>1. runs' = [runs EXCEPT ![q.key] = [thread |-> q.thread, status |-> "live"]]
          BY <3>1, <4>2 DEF Sub!Serve, Sub!Handle
        <5>2. [thread |-> q.thread, status |-> "live"] \in Sub!Row BY <1>1, <3>1
          DEF SubmitSound, SubmitFits, Sub!Row
        <5> QED BY <3>1, <5>1, <5>2 DEF SubmitTablesHold, Sub!SubmissionAssumption
      <4>3. CASE runs[q.key] = None /\ Sub!Answer(q) # "live"
        BY <3>1, <4>3 DEF Sub!Answer
      <4> QED BY <4>1, <4>2, <4>3
    <3>4. Sub!Answer(q) = "ended" => runs'[q.key].status = "ended"
      <4>1. Sub!Answer(q) = "ended" => runs[q.key] # None /\ runs[q.key].status = "ended"
        BY <3>1 DEF Sub!Answer
      <4> QED BY <1>2, <3>1, <4>1 DEF KeysGrow
    <3>5. asked' = asked BY DEF Sub!Serve, Sub!drawnKeys
    <3> QED BY <1>0, <1>1, <1>5, <1>7, <1>8, <2>2, <3>1, <3>2, <3>3, <3>4, <3>5 DEF SubmitCallFits
  <2> QED BY <1>0, <2>1, <2>2
<1>10. OnlyCall(c) BY <1>6, <1>7 DEF OnlyCall, SubmitCallsHold
<1>11. SubmitCallsHold' BY <1>2, <1>9, <1>10, CallsStay DEF Sub!Serve
<1>12. Sub!StoredRunsExist' BY <1>2, StoredStay DEF Sub!Serve, Sub!disk
<1> QED BY <1>2, <1>3, <1>11, <1>12

LEMMA SubmitLoseHolds ==
  ASSUME Sub!SubmissionAssumption, SubmissionInv, NEW c \in SubmitCall, Sub!Lose(c)
  PROVE  SubmissionInv'
<1> USE DEF SubmissionInv
<1>1. SubmitTablesHold' BY DEF Sub!Lose, Sub!disk, Sub!service, Sub!drawnKeys, SubmitTablesHold
<1>2. (runOp # None) \in BOOLEAN /\ Sub!Fail(c, runOp # None) /\ UNCHANGED cache BY
  DEF Sub!Lose, Sub!disk
<1>3. SubmitViewHolds' /\ call' = [call EXCEPT ![c] = None] BY <1>2, FailHolds
<1>4. KeysGrow BY KeysGrowAsIs DEF Sub!Lose, Sub!service, Sub!drawnKeys
<1>5. OnlyCall(c) /\ SubmitCallFits(c)' BY <1>3, LeaveOnly
<1>6. ASSUME NEW q \in stray' PROVE q \in stray \/ SubmitSound(q)
  BY <1>6 DEF Sub!Lose, Sub!Unanswered, SubmitCallsHold, SubmitCallFits
<1>7. SubmitCallsHold' BY <1>1, <1>4, <1>5, <1>6, CallsStay
<1>8. Sub!StoredRunsExist' BY <1>4, StoredStay DEF Sub!Lose, Sub!disk
<1> QED BY <1>1, <1>3, <1>7, <1>8

LEMMA SubmitLateHolds ==
  ASSUME Sub!SubmissionAssumption, SubmissionInv, NEW q \in stray, Sub!Late(q) PROVE SubmissionInv'
<1> USE DEF SubmissionInv
<1>1. SubmitTablesHold' /\ KeysGrow BY SubmitHandleHolds DEF Sub!Late, SubmitCallsHold
<1>2. SubmitViewHolds' BY DEF Sub!Late, Sub!disk, SubmitViewHolds
<1>3. SubmitCallsHold' BY <1>1, CallsAllStay DEF Sub!Late
<1>4. Sub!StoredRunsExist' BY <1>1, StoredStay DEF Sub!Late, Sub!disk
<1> QED BY <1>1, <1>2, <1>3, <1>4

LEMMA RunEndsHolds ==
  ASSUME Sub!SubmissionAssumption, SubmissionInv, NEW r \in Sub!Runs, Sub!RunEnds(r)
  PROVE  SubmissionInv'
<1> USE DEF SubmissionInv
<1> DEFINE row == [runs[r] EXCEPT !.status = "ended"]
<1>0. runs[r] \in Sub!Row /\ row \in Sub!Row /\ row.status = "ended" BY
  DEF Sub!RunEnds, SubmitTablesHold, Sub!Row
<1>1. runs' = [runs EXCEPT ![r] = row] BY DEF Sub!RunEnds
<1> HIDE DEF row
<1>2. row # None BY <1>0 DEF Sub!SubmissionAssumption
<1>3. SubmitTablesHold' BY <1>0, <1>1 DEF Sub!RunEnds, Sub!disk, Sub!drawnKeys, SubmitTablesHold
<1>4. KeysGrow BY <1>0, <1>1, <1>2 DEF Sub!RunEnds, Sub!drawnKeys, SubmitTablesHold, KeysGrow
<1>5. SubmitViewHolds' BY DEF Sub!RunEnds, Sub!disk, SubmitViewHolds
<1>6. SubmitCallsHold' BY <1>3, <1>4, CallsAllStay DEF Sub!RunEnds
<1>7. Sub!StoredRunsExist' BY <1>4, StoredStay DEF Sub!RunEnds, Sub!disk
<1> QED BY <1>3, <1>5, <1>6, <1>7

LEMMA SubmitRestartHolds ==
  ASSUME Sub!SubmissionAssumption, SubmissionInv, NEW c \in SubmitCall, Sub!Restart(c)
  PROVE  SubmissionInv'
<1> USE DEF SubmissionInv
<1>1. SubmitTablesHold' BY DEF Sub!Restart, Sub!disk, Sub!service, Sub!drawnKeys, SubmitTablesHold
<1>2. KeysGrow BY KeysGrowAsIs DEF Sub!Restart, Sub!service, Sub!drawnKeys
<1>3. SubmitViewHolds'
  <2> DEFINE st == IF selected = None THEN "ended" ELSE cache[selected]
  <2>1. selected \in {None} \cup Sub!Runs /\ st \in {"live", "ended"} BY DEF SubmitTablesHold
  <2>2. Sub!Shows(selected, st, "recovering", runOp # None) BY DEF Sub!Restart
  <2> HIDE DEF st
  <2>3. view' \in SubmitView /\ view'.run = selected BY <2>1, <2>2, ShowsHolds
  <2> QED BY <2>3 DEF Sub!Restart, Sub!disk, SubmitViewHolds, SubmitTablesHold
<1>4. SubmitCallsHold'
  <2> DEFINE w == IF runOp = None THEN Sub!Fresh("refresh", "reading", None)
                  ELSE Sub!Fresh("refresh", "begin", runOp)
  <2>1. call' = [x \in SubmitCall |-> IF x # c THEN None ELSE w] BY DEF Sub!Restart
  <2>2. /\ w \in Sub!Doing /\ w.kind = "refresh" /\ w.stage \in {"reading", "begin"} /\ w.request = None
        /\ w.answer = None /\ (w.stage = "begin" => w.key \in 1 .. Len(asked'))
    BY DEF Sub!Fresh, Sub!Doing, Sub!Restart, Sub!drawnKeys, SubmitTablesHold
  <2> HIDE DEF w
  <2>3. call' \in [SubmitCall -> {None} \cup Sub!Doing] BY <2>1, <2>2
  <2>4. ASSUME NEW x \in SubmitCall PROVE SubmitCallFits(x)' BY <2>1, <2>2, <2>4 DEF SubmitCallFits
  <2>5. ASSUME NEW q \in stray' PROVE SubmitSound(q)'
    <3>1. q \in stray \/ \E x \in Sub!Unanswered : q = call[x].request BY <2>5 DEF Sub!Restart
    <3>2. SubmitSound(q) BY <3>1 DEF Sub!Unanswered, SubmitCallsHold, SubmitCallFits
    <3> QED BY <1>1, <1>2, <3>2, SoundStays
  <2> QED BY <2>3, <2>4, <2>5 DEF SubmitCallsHold
<1>5. Sub!StoredRunsExist' BY <1>2, StoredStay DEF Sub!Restart, Sub!disk
<1> QED BY <1>1, <1>3, <1>4, <1>5

LEMMA SubmissionStep ==
  ASSUME Sub!SubmissionAssumption, SubmissionInv, [Sub!Next]_(Sub!vars) PROVE SubmissionInv'
<1>1. CASE UNCHANGED Sub!vars
  BY <1>1 DEF Sub!vars, Sub!disk, Sub!service, Sub!drawnKeys, SubmissionInv, SubmitTablesHold,
              SubmitViewHolds, SubmitCallsHold, SubmitCallFits, SubmitSound, Sub!StoredRunsExist
<1> QED
  BY <1>1, SubmitRefreshHolds, SubmitHolds, ReadThreadHolds, PrepareThreadHolds, ThreadMadeHolds,
     RunMadeHolds, RunRefusedHolds, RefreshReadsHolds, OpenRunHolds, OpenedHolds, ViewStepsHold,
     SubmitServeHolds, SubmitLoseHolds, SubmitLateHolds, RunEndsHolds, SubmitRestartHolds
       DEF Sub!Next, Sub!CallStep

\* The invariant, for any number of calls at once.
THEOREM SubmissionsHold == ASSUME Sub!SubmissionAssumption PROVE Sub!Spec => []SubmissionInv
BY SubmissionBegins, SubmissionStep, PTL DEF Sub!Spec

-----------------------------------------------------------------------------
(* Shared calls: a key has been drawn for every run, and a submission made for every key *)

\* Keys are drawn by submissions alone.
KeysAreSubmitted == Len(asked) <= submitted /\ submitted \in Nat
RunsHaveKeys == \A r \in Sub!Runs \ {0} : runs[r] # None => r \in 1 .. Len(asked)

LEMMA KeysBegin == ASSUME Sub!SubmissionAssumption, Sub!Init PROVE KeysAreSubmitted /\ RunsHaveKeys
BY DEF Sub!Init, KeysAreSubmitted, RunsHaveKeys, Sub!SubmissionAssumption

LEMMA KeysStep ==
  ASSUME Sub!SubmissionAssumption, SubmissionInv, KeysAreSubmitted, RunsHaveKeys,
         [Sub!Next]_(Sub!vars)
  PROVE  KeysAreSubmitted' /\ RunsHaveKeys'
<1> USE DEF KeysAreSubmitted, RunsHaveKeys
<1>1. ASSUME NEW c \in SubmitCall, NEW q \in Query, Sub!Submit(c, q)
      PROVE  KeysAreSubmitted' /\ RunsHaveKeys'
  <2>1. asked' = asked \/ (asked' = Append(asked, q) /\ submitted' = submitted + 1)
    BY <1>1 DEF Sub!Submit, Sub!PrepareRun, Sub!Draws
  <2>2. asked \in Seq(Query) BY DEF SubmissionInv, SubmitTablesHold
  <2>3. submitted' \in {submitted, submitted + 1} BY <1>1 DEF Sub!Submit
  <2> QED BY <1>1, <2>1, <2>2, <2>3 DEF Sub!Submit, Sub!service
<1>2. ASSUME NEW q, SubmitSound(q), Sub!Handle(q), UNCHANGED Sub!drawnKeys
      PROVE  KeysAreSubmitted' /\ RunsHaveKeys'
  <2>1. CASE UNCHANGED runs BY <1>2, <2>1 DEF Sub!drawnKeys
  <2>2. CASE q.to = "run" /\ \E row : runs' = [runs EXCEPT ![q.key] = row]
    <3>1. q.key \in 1 .. Len(asked) BY <1>2, <2>2 DEF SubmitSound, SubmitFits
    <3>2. PICK row : runs' = [runs EXCEPT ![q.key] = row] BY <2>2
    <3>3. \A r \in Sub!Runs : r # q.key => runs'[r] = runs[r] BY <3>2
      DEF SubmissionInv, SubmitTablesHold
    <3> QED BY <1>2, <3>1, <3>3 DEF Sub!drawnKeys
  <2> QED BY <1>2, <2>1, <2>2 DEF Sub!Handle
<1>3. ASSUME NEW c \in SubmitCall, Sub!Serve(c) PROVE KeysAreSubmitted' /\ RunsHaveKeys'
  <2>1. SubmitSound(call[c].request)
    BY <1>3 DEF Sub!Serve, Sub!Unanswered, SubmissionInv, SubmitCallsHold, SubmitCallFits
  <2> QED BY <1>2, <1>3, <2>1 DEF Sub!Serve
<1>4. ASSUME NEW q \in stray, Sub!Late(q) PROVE KeysAreSubmitted' /\ RunsHaveKeys'
  BY <1>2, <1>4 DEF Sub!Late, SubmissionInv, SubmitCallsHold
<1>5. ASSUME NEW r \in Sub!Runs, Sub!RunEnds(r) PROVE KeysAreSubmitted' /\ RunsHaveKeys'
  BY <1>5 DEF Sub!RunEnds, Sub!drawnKeys, SubmissionInv, SubmitTablesHold
<1>6. CASE UNCHANGED <<asked, submitted, runs>> BY <1>6
<1>7. ASSUME NEW c \in SubmitCall,
             \/ Sub!ReadThread(c) \/ Sub!PrepareThread(c) \/ Sub!ThreadMade(c) \/ Sub!RunMade(c) \/ Sub!RunRefused(c)
             \/ Sub!RefreshReads(c) \/ Sub!Opened(c) \/ Sub!Lose(c) \/ Sub!Refresh(c) \/ Sub!OpenRun(c) \/ Sub!Restart(c)
      PROVE  UNCHANGED <<asked, submitted, runs>>
  BY <1>7 DEF Sub!ReadThread, Sub!PrepareThread, Sub!ThreadMade, Sub!RunMade, Sub!RunRefused,
              Sub!RefreshReads, Sub!Opened, Sub!Lose,
              Sub!Refresh, Sub!OpenRun, Sub!Restart, Sub!service, Sub!drawnKeys
<1>8. ASSUME Sub!Disturb \/ Sub!PrepareAnalysis \/ Sub!WatchTells \/ UNCHANGED Sub!vars
      PROVE  UNCHANGED <<asked, submitted, runs>>
  BY <1>8 DEF Sub!Disturb, Sub!PrepareAnalysis, Sub!WatchTells, Sub!vars, Sub!service, Sub!drawnKeys
<1> QED BY <1>1, <1>3, <1>4, <1>5, <1>6, <1>7, <1>8 DEF Sub!Next, Sub!CallStep

LEMMA RunsAreCounted ==
  ASSUME SubmissionInv, KeysAreSubmitted, RunsHaveKeys PROVE Sub!OneRunPerSubmission
<1> DEFINE made == {r \in Sub!Runs \ {0} : runs[r] # None}
<1>1. made \subseteq 1 .. Len(asked) BY DEF RunsHaveKeys
<1>2. Len(asked) \in Nat BY DEF SubmissionInv, SubmitTablesHold
<1>3. IsFiniteSet(1 .. Len(asked)) /\ Cardinality(1 .. Len(asked)) = Len(asked)
  <2>1. 0 \in Int /\ 1 \in Int /\ Len(asked) \in Int BY <1>2
  <2>2. IsFiniteSet(1 .. Len(asked))
        /\ Cardinality(1 .. Len(asked)) = IF 1 > Len(asked) THEN 0 ELSE Len(asked) - 1 + 1
    BY <2>1, FS_Interval
  <2> QED BY <1>2, <2>2
<1>4. IsFiniteSet(made) /\ Cardinality(made) <= Len(asked) BY <1>1, <1>3, FS_Subset
<1>5. Cardinality(made) \in Nat BY <1>4, FS_CardinalityType
<1>6. Sub!Cardinality(made) = Cardinality(made) BY SubmitCounts
<1> QED BY <1>2, <1>4, <1>5, <1>6 DEF Sub!OneRunPerSubmission, KeysAreSubmitted

\* OneRunPerSubmission of the client: however often a submission is sent, lost, sent again
\* or shared, by any number of calls, it makes at most one run (repository.createAnalysis).
THEOREM OneRunEach == ASSUME Sub!SubmissionAssumption PROVE Sub!Spec => []Sub!OneRunPerSubmission
BY RunsAreCounted, KeysBegin, KeysStep, SubmissionsHold, PTL DEF Sub!Spec

-----------------------------------------------------------------------------
(* One call at a time: it is the one that carries what is pending *)

OneSubmitCall == \A c, d \in SubmitCall : c = d

\* The call at work on an operation works on the one that is stored.
WorksOnStored ==
  \A c \in SubmitCall :
    call[c] # None /\ call[c].stage \in {"begin", "prepare", "thread", "run"} => runOp = call[c].key

\* No call is at work that says in the end whether something is pending.
AtRest == \A c \in SubmitCall : call[c] = None \/ call[c].kind = "open" \/ call[c].stage = "reading"
RestIsKnown == AtRest => (view.hasPending <=> runOp # None)

\* A key for a thread is drawn once: it is pending, or the thread is there.
OneThreadDrawn ==
  /\ drawn <= 1 /\ (drawn = 1 => threadOp = 1 \/ thread = 1)
  /\ \A c \in SubmitCall : Sub!Working(c, "prepare") => thread = None

SubmitsAlone == WorksOnStored /\ Sub!PendingIsNotDropped /\ RestIsKnown /\ OneThreadDrawn

LEMMA SubmitsAloneBegins == ASSUME Sub!SubmissionAssumption, Sub!Init PROVE SubmitsAlone
BY DEF Sub!Init, SubmitsAlone, WorksOnStored, Sub!PendingIsNotDropped, AtRest, RestIsKnown,
       OneThreadDrawn, Sub!Working, Sub!SubmissionAssumption

\* Steps that are not those of a call at work on the operation.
LEMMA SubmitsAloneOthers ==
  ASSUME Sub!SubmissionAssumption, SubmissionInv, SubmitsAlone, UNCHANGED <<runOp, asked, thread,
         threadOp, drawn>>,
         call' = call \/ \A c \in SubmitCall :
           \/ call'[c] = None
           \/ call'[c].stage \in {"reading", "opening"}
           \/ call'[c].stage = "begin" /\ call'[c].key = runOp,
         \A r \in Sub!Runs : cache[r] # None => cache'[r] # None,
         RestIsKnown'
  PROVE  SubmitsAlone'
<1>0. UNCHANGED runOp BY Zenon
<1>1. WorksOnStored'
  <2> SUFFICES ASSUME NEW c \in SubmitCall, call'[c] # None,
                      call'[c].stage \in {"begin", "prepare", "thread", "run"}
               PROVE  runOp' = call'[c].key
    BY DEF WorksOnStored
  <2>1. CASE call' = call BY <1>0, <2>1 DEF SubmitsAlone, WorksOnStored
  <2>2. CASE call'[c].stage = "begin" /\ call'[c].key = runOp BY <1>0, <2>2
  <2> QED BY <2>1, <2>2
<1>2. Sub!PendingIsNotDropped'
  <2>1. \A k \in DOMAIN asked : k \in Sub!Runs
    BY DEF SubmissionInv, SubmitTablesHold, Sub!Runs, Sub!SubmissionAssumption
  <2> QED BY <2>1 DEF SubmitsAlone, Sub!PendingIsNotDropped
<1>3. OneThreadDrawn' BY DEF SubmitsAlone, OneThreadDrawn, Sub!Working
<1> QED BY <1>1, <1>2, <1>3 DEF SubmitsAlone

LEMMA SubmitsAloneStep ==
  ASSUME Sub!SubmissionAssumption, OneSubmitCall, SubmissionInv, SubmissionInv', SubmitsAlone,
         [Sub!Next]_(Sub!vars)
  PROVE  SubmitsAlone'
<1> USE DEF SubmissionInv
<1>1. ASSUME NEW c \in SubmitCall, NEW q \in Query, Sub!Submit(c, q) PROVE SubmitsAlone'
  <2>0. \A x \in SubmitCall : x = c BY DEF OneSubmitCall
  <2>1. CASE UNCHANGED <<runOp, asked, call, creating>>
    <3>1. RestIsKnown' BY <1>1, <2>1 DEF SubmitsAlone, RestIsKnown, AtRest, Sub!Submit,
                                         Sub!PrepareRun, SubmitViewHolds, SubmitView
    <3> QED BY <1>1, <2>1, <3>1, SubmitsAloneOthers DEF Sub!Submit
  <2>2. ASSUME call' = [call EXCEPT ![c] = Sub!Fresh("submit", "begin", runOp')],
               \/ UNCHANGED <<runOp, asked>>
               \/ runOp = None /\ Sub!Draws(q) /\ runOp' = Len(asked) + 1
        PROVE  SubmitsAlone'
    <3>1. call'[c] = Sub!Fresh("submit", "begin", runOp') BY <2>2 DEF SubmitCallsHold
    <3>2. WorksOnStored' BY <2>0, <3>1 DEF WorksOnStored, Sub!Fresh
    <3>3. RestIsKnown'
      <4>1. call'[c] # None BY <3>1 DEF SubmissionInv, SubmitCallsHold, Sub!Fresh,
                                        Sub!SubmissionAssumption, Sub!Doing, SubmitTablesHold
      <4> QED BY <2>0, <3>1, <4>1 DEF RestIsKnown, AtRest, Sub!Fresh
    <3>4. OneThreadDrawn' BY <1>1, <2>0, <3>1 DEF SubmitsAlone, OneThreadDrawn, Sub!Working,
                                                  Sub!Fresh, Sub!Submit
    <3>5. Sub!PendingIsNotDropped'
      <4>1. CASE UNCHANGED <<runOp, asked>>
        BY <1>1, <4>1 DEF Sub!Submit, SubmitsAlone, Sub!PendingIsNotDropped
      <4>2. CASE runOp = None /\ Sub!Draws(q) /\ runOp' = Len(asked) + 1
        <5>1. asked' = Append(asked, q) /\ asked \in Seq(Query) BY <4>2
          DEF Sub!Draws, SubmitTablesHold
        <5>2. \A k \in DOMAIN asked' : k = Len(asked) + 1 \/ (k \in DOMAIN asked /\ asked'[k] = asked[k])
          BY <5>1
        <5>3. \A k \in DOMAIN asked : k # None BY <5>1 DEF Sub!SubmissionAssumption
        <5> QED BY <1>1, <4>2, <5>2, <5>3 DEF Sub!Submit, SubmitsAlone, Sub!PendingIsNotDropped
      <4> QED BY <2>2, <4>1, <4>2
    <3> QED BY <3>2, <3>3, <3>4, <3>5 DEF SubmitsAlone
  <2> QED BY <1>1, <2>1, <2>2 DEF Sub!Submit, Sub!PrepareRun
<1>2. ASSUME NEW c \in SubmitCall, Sub!ReadThread(c) \/ Sub!PrepareThread(c) \/ Sub!ThreadMade(c)
      PROVE  SubmitsAlone'
  <2>0. \A x \in SubmitCall : x = c BY DEF OneSubmitCall
  <2>1. call[c] \in Sub!Doing /\ call[c] # None /\ call[c].stage \in {"begin", "prepare", "thread"} /\ SubmitCallFits(c)
    BY <1>2, SubmitAtWork DEF Sub!ReadThread, Sub!PrepareThread, Sub!ThreadMade
  <2>2. /\ call'[c].stage \in {"prepare", "thread", "run"} /\ call'[c].key = call[c].key
        /\ call'[c].kind = call[c].kind /\ call[c].kind # "open" /\ call'[c] \in Sub!Doing
        /\ call'[c].stage = "prepare" => thread = None /\ UNCHANGED <<thread, threadOp, drawn>>
    <3>1. call[c].kind # "open" BY <2>1 DEF SubmitCallFits
    <3>2. \A k \in 1 .. drawn' : Sub!ThreadRequest(k) \in Sub!Request
      BY DEF Sub!ThreadRequest, Sub!Request, SubmitTablesHold
    <3>5. \A k \in Nat, t \in threads \cup threads' : Sub!RunRequest(k, t) \in Sub!Request
      BY DEF Sub!RunRequest, Sub!Request, SubmitTablesHold
    <3>3. CASE thread = None /\ call' = [call EXCEPT ![c].stage = "prepare"]
               /\ UNCHANGED <<thread, threadOp, drawn>>
      <4>1. call'[c] = [call[c] EXCEPT !.stage = "prepare"] BY <3>3 DEF SubmitCallsHold
      <4>2. call'[c] \in Sub!Doing /\ call'[c].stage = "prepare" /\ call'[c].key = call[c].key
            /\ call'[c].kind = call[c].kind
        BY <2>1, <4>1 DEF Sub!Doing
      <4> QED BY <3>1, <3>3, <4>2
    <3>4. call[c].key \in Nat BY <2>1 DEF SubmitCallFits, SubmitTablesHold
    <3>6. CASE Sub!ReadThread(c)
      <4>1. CASE thread # None
        <5>1. Sub!RunRequest(call[c].key, thread) \in Sub!Request BY <3>4, <3>5, <4>1
          DEF SubmitTablesHold
        <5>2. Sub!Send(c, "run", Sub!RunRequest(call[c].key, thread)) BY <3>6, <4>1
          DEF Sub!ReadThread
        <5> QED BY <2>1, <3>1, <5>1, <5>2, SendSays
      <4> QED BY <3>3, <3>6, <4>1 DEF Sub!ReadThread, Sub!disk, Sub!drawnKeys
    <3>7. CASE Sub!PrepareThread(c)
      <4>1. Sub!ThreadRequest(threadOp') \in Sub!Request
        BY <3>2, <3>7 DEF Sub!PrepareThread, SubmitTablesHold, Sub!SubmissionAssumption
      <4> QED BY <2>1, <3>1, <3>7, <4>1, SendSays DEF Sub!PrepareThread
    <3>8. CASE Sub!ThreadMade(c)
      <4>1. thread' \in threads BY <2>1, <3>8 DEF Sub!ThreadMade, Sub!Working, SubmitCallFits
      <4>2. Sub!RunRequest(call[c].key, thread') \in Sub!Request BY <3>4, <3>5, <4>1
      <4> QED BY <2>1, <3>1, <3>8, <4>2, SendSays DEF Sub!ThreadMade
    <3> QED BY <1>2, <3>6, <3>7, <3>8
  <2>3. UNCHANGED <<runOp, asked, cache, view>>
    BY <1>2 DEF Sub!ReadThread, Sub!PrepareThread, Sub!ThreadMade, Sub!disk, Sub!drawnKeys
  <2>4. call'[c] # None BY <2>2 DEF Sub!SubmissionAssumption
  <2>5. WorksOnStored' BY <2>0, <2>1, <2>2, <2>3 DEF SubmitsAlone, WorksOnStored
  <2>6. RestIsKnown' BY <2>0, <2>2, <2>4 DEF RestIsKnown, AtRest
  <2>7. Sub!PendingIsNotDropped' BY <2>3 DEF SubmitsAlone, Sub!PendingIsNotDropped
  <2>8. OneThreadDrawn'
    <3>1. CASE Sub!ReadThread(c)
      BY <2>0, <2>2, <3>1 DEF SubmitsAlone, OneThreadDrawn, Sub!Working, Sub!ReadThread, Sub!disk,
                              Sub!drawnKeys
    <3>2. CASE Sub!PrepareThread(c)
      <4>1. thread = None BY <3>2 DEF SubmitsAlone, OneThreadDrawn, Sub!PrepareThread
      <4>2. drawn' <= 1 /\ (drawn' = 1 => threadOp' = 1 \/ thread' = 1)
        BY <3>2, <4>1 DEF SubmitsAlone, OneThreadDrawn, Sub!PrepareThread, SubmitTablesHold,
                          Sub!SubmissionAssumption
      <4> QED BY <2>0, <3>2, <4>1, <4>2 DEF OneThreadDrawn, Sub!Working, Sub!PrepareThread
    <3>3. CASE Sub!ThreadMade(c)
      <4>1. call[c].request.key \in 1 .. drawn
        BY <2>1, <3>3 DEF Sub!ThreadMade, Sub!Working, SubmitCallFits, SubmitSound, SubmitFits
      <4>2. call'[c].stage = "run" BY <2>1, <3>3 DEF Sub!ThreadMade, Sub!Send, SubmitCallsHold,
                                                     Sub!Doing
      <4> QED BY <2>0, <3>3, <4>1, <4>2 DEF SubmitsAlone, OneThreadDrawn, Sub!Working,
                                            Sub!ThreadMade, Sub!drawnKeys, SubmitTablesHold
    <3> QED BY <1>2, <3>1, <3>2, <3>3
  <2> QED BY <2>5, <2>6, <2>7, <2>8 DEF SubmitsAlone
<1>3. ASSUME NEW c \in SubmitCall, Sub!RunMade(c) PROVE SubmitsAlone'
  <2>0. \A x \in SubmitCall : x = c BY DEF OneSubmitCall
  <2>1. call[c] \in Sub!Doing /\ call[c].stage = "run" /\ call[c] # None /\ SubmitCallFits(c)
        /\ call[c].key = runOp /\ call[c].key \in 1 .. Len(asked)
    BY <1>3, SubmitAtWork DEF Sub!RunMade, SubmitsAlone, WorksOnStored, SubmitCallFits
  <2>2. call[c].key \in Sub!Runs BY <2>1 DEF SubmitTablesHold, Sub!Runs, Sub!SubmissionAssumption
  <2>3. /\ runOp' = None /\ UNCHANGED <<asked, thread, threadOp, drawn>>
        /\ cache'[call[c].key] # None /\ \A r \in Sub!Runs : cache[r] # None => cache'[r] # None
    BY <1>3, <2>2 DEF Sub!RunMade, Sub!drawnKeys, SubmitTablesHold, Sub!SubmissionAssumption,
                      Sub!Reply
  <2>4. call'[c] = None \/ call'[c].stage = "reading"
    <3>1. CASE call[c].kind = "submit" BY <1>3, <3>1 DEF Sub!RunMade, Sub!Leave, SubmitCallsHold
    <3>2. CASE call' = [call EXCEPT ![c] = Sub!Fresh("refresh", "reading", None)]
      <4>1. call'[c] = Sub!Fresh("refresh", "reading", None) BY <3>2 DEF SubmitCallsHold
      <4> QED BY <4>1 DEF Sub!Fresh
    <3> QED BY <1>3, <3>1, <3>2 DEF Sub!RunMade
  <2>5. WorksOnStored' BY <2>0, <2>4 DEF WorksOnStored
  <2>6. RestIsKnown' BY <1>3, <2>3 DEF RestIsKnown, Sub!RunMade, Sub!Shows
  <2>7. Sub!PendingIsNotDropped'
    <3>1. \A k \in DOMAIN asked : k \in Sub!Runs BY DEF SubmitTablesHold, Sub!Runs,
                                                        Sub!SubmissionAssumption
    <3> QED BY <2>1, <2>3, <3>1 DEF SubmitsAlone, Sub!PendingIsNotDropped
  <2>8. OneThreadDrawn' BY <2>0, <2>3, <2>4 DEF SubmitsAlone, OneThreadDrawn, Sub!Working
  <2> QED BY <2>5, <2>6, <2>7, <2>8 DEF SubmitsAlone
<1>4. ASSUME NEW c \in SubmitCall, Sub!RunRefused(c) PROVE SubmitsAlone'
  <2>0. \A x \in SubmitCall : x = c BY DEF OneSubmitCall
  <2>1. call[c] \in Sub!Doing /\ call[c].stage = "run" /\ call[c] # None /\ SubmitCallFits(c)
        /\ call[c].key = runOp /\ call[c].key \in 1 .. Len(asked) /\ call[c].kind # "open"
    BY <1>4, SubmitAtWork DEF Sub!RunRefused, SubmitsAlone, WorksOnStored, SubmitCallFits
  <2>2. call'[c] = None BY <1>4 DEF Sub!RunRefused, Sub!Fail, Sub!Leave, SubmitCallsHold
  <2>3. UNCHANGED <<asked, thread, threadOp, drawn, cache>> BY <1>4
    DEF Sub!RunRefused, Sub!drawnKeys
  <2>4. view'.hasPending <=> runOp' # None
    BY <1>4, <2>1 DEF Sub!RunRefused, Sub!Fail, SubmitViewHolds, SubmitView
  <2>5. Sub!PendingIsNotDropped'
    <3>1. runOp' = runOp \/ asked[runOp] \in Refused BY <1>4, <2>1
      DEF Sub!RunRefused, SubmitCallFits
    <3> QED BY <2>3, <3>1 DEF SubmitsAlone, Sub!PendingIsNotDropped
  <2> QED BY <2>0, <2>2, <2>3, <2>4, <2>5 DEF SubmitsAlone, WorksOnStored, RestIsKnown,
                                              OneThreadDrawn, Sub!Working
<1>5. ASSUME NEW c \in SubmitCall, Sub!Lose(c) PROVE SubmitsAlone'
  <2>0. \A x \in SubmitCall : x = c BY DEF OneSubmitCall
  <2>1. call[c] # None /\ call'[c] = None BY <1>5 DEF Sub!Lose, Sub!Fail, Sub!Leave, SubmitCallsHold
  <2>2. CASE call[c].kind = "open"
    <3>1. AtRest BY <2>0, <2>2 DEF AtRest
    <3>2. view'.hasPending = view.hasPending
      BY <1>5, <2>2 DEF Sub!Lose, Sub!Fail, SubmitViewHolds, SubmitView
    <3>3. RestIsKnown' BY <1>5, <3>1, <3>2 DEF Sub!Lose, Sub!disk, SubmitsAlone, RestIsKnown
    <3> QED BY <1>5, <2>0, <2>1, <3>3, SubmitsAloneOthers DEF Sub!Lose, Sub!disk, Sub!drawnKeys
  <2>3. CASE call[c].kind # "open"
    <3>1. RestIsKnown' BY <1>5, <2>3 DEF Sub!Lose, Sub!Fail, Sub!disk, RestIsKnown,
                                         SubmitViewHolds, SubmitView
    <3> QED BY <1>5, <2>0, <2>1, <3>1, SubmitsAloneOthers DEF Sub!Lose, Sub!disk, Sub!drawnKeys
  <2> QED BY <2>2, <2>3
<1>6. ASSUME NEW c \in SubmitCall, Sub!Refresh(c) \/ Sub!OpenRun(c) PROVE SubmitsAlone'
  <2>0. \A x \in SubmitCall : x = c BY DEF OneSubmitCall
  <2>1. AtRest /\ call[c] = None BY <1>6, <2>0 DEF AtRest, Sub!Refresh, Sub!OpenRun
  <2>2. view'.hasPending = view.hasPending /\ UNCHANGED <<runOp, asked, thread, threadOp, drawn, cache>>
    BY <1>6 DEF Sub!Refresh, Sub!OpenRun, Sub!Shows, Sub!disk, Sub!drawnKeys, SubmitViewHolds,
                SubmitView
  <2>3. RestIsKnown' BY <2>1, <2>2 DEF SubmitsAlone, RestIsKnown
  <2>4. \/ call'[c].stage \in {"reading", "opening"}
        \/ call'[c].stage = "begin" /\ call'[c].key = runOp
    BY <1>6 DEF Sub!Refresh, Sub!OpenRun, SubmitCallsHold, Sub!Fresh
  <2> QED BY <2>0, <2>2, <2>3, <2>4, SubmitsAloneOthers
<1>7. ASSUME NEW c \in SubmitCall, Sub!RefreshReads(c) \/ Sub!Opened(c) PROVE SubmitsAlone'
  <2>0. \A x \in SubmitCall : x = c BY DEF OneSubmitCall
  <2>1. AtRest
    <3>1. call[c].stage = "reading" \/ call[c].stage = "opening"
      BY <1>7 DEF Sub!RefreshReads, Sub!Opened, Sub!Working
    <3> QED BY <2>0, <3>1 DEF AtRest, SubmitCallsHold, SubmitCallFits
  <2>2. /\ view'.hasPending = view.hasPending /\ UNCHANGED <<runOp, asked, thread, threadOp, drawn>>
        /\ \A r \in Sub!Runs : cache[r] # None => cache'[r] # None
    <3>1. view'.hasPending = view.hasPending
      <4> DEFINE st == IF view.run = None THEN view.status ELSE runs[view.run].status
      <4>1. CASE view' = [view EXCEPT !.phase = "ready", !.status = st]
        <5> HIDE DEF st
        <5> QED BY <4>1 DEF SubmitViewHolds, SubmitView
      <4>2. CASE Sub!Opened(c) BY <4>2 DEF Sub!Opened, Sub!Shows
      <4> QED BY <1>7, <4>1, <4>2 DEF Sub!RefreshReads
    <3>2. UNCHANGED <<runOp, asked, thread, threadOp, drawn>>
      BY <1>7 DEF Sub!RefreshReads, Sub!Opened, Sub!disk, Sub!drawnKeys
    <3>3. ASSUME NEW r \in Sub!Runs, cache[r] # None PROVE cache'[r] # None
      <4>1. runs[r] # None => runs[r].status \in {"live", "ended"} BY DEF SubmitTablesHold, Sub!Row
      <4> QED BY <1>7, <3>3, <4>1 DEF Sub!RefreshReads, Sub!Opened, Sub!disk, Sub!Reply,
                                      Sub!SubmissionAssumption
    <3> QED BY <3>1, <3>2, <3>3
  <2>3. RestIsKnown' BY <2>1, <2>2 DEF SubmitsAlone, RestIsKnown
  <2>4. call'[c] = None BY <1>7 DEF Sub!RefreshReads, Sub!Opened, Sub!Leave, SubmitCallsHold
  <2> QED BY <2>0, <2>2, <2>3, <2>4, SubmitsAloneOthers
<1>8. ASSUME NEW c \in SubmitCall, Sub!Restart(c) PROVE SubmitsAlone'
  <2>0. \A x \in SubmitCall : x = c BY DEF OneSubmitCall
  <2>1. UNCHANGED <<runOp, asked, thread, threadOp, drawn, cache>> /\ (view'.hasPending <=> runOp # None)
    BY <1>8 DEF Sub!Restart, Sub!Shows, Sub!disk, Sub!drawnKeys
  <2>2. \/ call'[c].stage \in {"reading", "opening"}
        \/ call'[c].stage = "begin" /\ call'[c].key = runOp
    BY <1>8 DEF Sub!Restart, Sub!Fresh
  <2>3. RestIsKnown' BY <2>1 DEF RestIsKnown
  <2> QED BY <2>0, <2>1, <2>2, <2>3, SubmitsAloneOthers
<1>9. ASSUME NEW c \in SubmitCall, Sub!Serve(c) PROVE SubmitsAlone'
  <2>0. \A x \in SubmitCall : x = c BY DEF OneSubmitCall
  <2>1. call[c] \in Sub!Doing /\ call[c].stage \in {"thread", "run"} /\ SubmitCallFits(c) /\ call[c] # None
    BY <1>9 DEF Sub!Serve, Sub!Unanswered, SubmitCallsHold, SubmitCallFits
  <2> DEFINE w == [call[c] EXCEPT !.answer = Sub!Answer(call[c].request)]
  <2>10. call'[c] = w BY <1>9 DEF Sub!Serve, SubmitCallsHold
  <2>2. call'[c].stage = call[c].stage /\ call'[c].key = call[c].key /\ call'[c].kind = call[c].kind
    BY <2>1, <2>10 DEF Sub!Doing
  <2>3. call'[c] # None
    <3>1. SubmitSound(call[c].request) BY <2>1 DEF SubmitCallFits
    <3>2. Sub!Answer(call[c].request) \in Sub!Reply BY <3>1, AnswerHolds
    <3>3. w \in Sub!Doing BY <2>1, <3>2 DEF Sub!Doing
    <3> QED BY <2>10, <3>3 DEF Sub!SubmissionAssumption
  <2>4. UNCHANGED <<runOp, asked, thread, threadOp, drawn, cache, view>>
    BY <1>9 DEF Sub!Serve, Sub!disk, Sub!drawnKeys
  <2>5. WorksOnStored' BY <2>0, <2>1, <2>2, <2>4 DEF SubmitsAlone, WorksOnStored
  <2>6. RestIsKnown' BY <2>0, <2>1, <2>2, <2>3 DEF RestIsKnown, AtRest, SubmitCallFits
  <2> QED BY <2>0, <2>1, <2>2, <2>4, <2>5, <2>6 DEF SubmitsAlone, Sub!PendingIsNotDropped,
                                                    OneThreadDrawn, Sub!Working
<1>10. ASSUME \/ \E q \in stray : Sub!Late(q)
              \/ \E r \in Sub!Runs : Sub!RunEnds(r)
              \/ Sub!WatchTells \/ Sub!Disturb \/ Sub!PrepareAnalysis \/ UNCHANGED Sub!vars
       PROVE  SubmitsAlone'
  <2>1. view'.hasPending = view.hasPending /\ UNCHANGED <<runOp, asked, thread, threadOp, drawn, call>>
        /\ \A r \in Sub!Runs : cache[r] # None => cache'[r] # None
    BY <1>10 DEF Sub!Late, Sub!RunEnds, Sub!WatchTells, Sub!Disturb, Sub!PrepareAnalysis, Sub!vars,
                 Sub!Shows, Sub!disk, Sub!drawnKeys, SubmitViewHolds,
       SubmitView, SubmitTablesHold, Sub!Reply, Sub!SubmissionAssumption
  <2>2. RestIsKnown' BY <2>1 DEF SubmitsAlone, RestIsKnown, AtRest
  <2> QED BY <2>1, <2>2, SubmitsAloneOthers
<1> QED
  BY <1>1, <1>2, <1>3, <1>4, <1>5, <1>6, <1>7, <1>8, <1>9, <1>10 DEF Sub!Next, Sub!CallStep

\* What the run checks of a submission by itself.
SubmissionKept == Sub!TypeOK /\ Sub!PendingIsNotDropped /\ Sub!PendingIsShown /\ Sub!OneThread

LEMMA AloneIsKept == ASSUME SubmissionInv, SubmitsAlone PROVE SubmissionKept
<1> USE DEF SubmissionInv
<1>1. Sub!TypeOK BY DEF Sub!TypeOK, SubmitTablesHold, SubmitViewHolds, SubmitView
<1>2. Sub!PendingIsNotDropped BY DEF SubmitsAlone
<1>3. Sub!PendingIsShown BY DEF SubmitsAlone, RestIsKnown, AtRest, Sub!PendingIsShown
<1>4. Sub!OneThread
  <2>1. threads \subseteq {1}
    BY DEF SubmitsAlone, OneThreadDrawn, SubmitTablesHold
  <2>2. IsFiniteSet({1}) /\ Cardinality({1}) = 1 BY FS_Singleton
  <2>3. Cardinality(threads) <= 1 BY <2>1, <2>2, FS_Subset
  <2> QED BY <2>3, SubmitCounts DEF Sub!OneThread
<1> QED BY <1>1, <1>2, <1>3, <1>4 DEF SubmissionKept

\* With one call at a time, whatever is lost, late or killed: what the user has submitted
\* stays pending until its run is stored or refused, the screen knows at rest, and one
\* thread is made (repository.recoverPending; view_model._fail).
THEOREM SubmissionIsKept ==
  ASSUME Sub!SubmissionAssumption, OneSubmitCall PROVE Sub!Spec => []SubmissionKept
BY AloneIsKept, SubmitsAloneBegins, SubmitsAloneStep, SubmissionsHold, PTL DEF Sub!Spec

-----------------------------------------------------------------------------
(* Deciding (ClientDecisions)                                               *)

LEMMA DecideCounts == \A T : Dec!Cardinality(T) = Cardinality(T)
BY Zenon DEF Dec!Cardinality, Cardinality

\* A proposal has its first version until somebody decides, and the second for good.
DecideRows == {i \in Dec!Item : i.version = IF i.status = "pending" THEN 1 ELSE 2}
DecideLists == [Memory -> DecideRows]
Verdict == [memory : Memory, approved : BOOLEAN, expected : {1}]

\* What the service has bound to a key is so.
ServiceHolds ==
  /\ fact \in DecideLists
  /\ verdict \in Seq(Verdict) /\ Len(verdict) <= DecideKeys
  /\ DOMAIN receipt \subseteq DOMAIN verdict
  /\ \A k \in DOMAIN receipt : receipt[k] = Dec!After(k) /\ fact[verdict[k].memory] = Dec!After(k)

ClientHolds ==
  /\ items \in DecideLists
  /\ op \in [Memory -> {None} \cup Nat]
  /\ \A m \in Memory : op[m] # None => op[m] \in DOMAIN verdict /\ verdict[op[m]].memory = m
  /\ told \subseteq DOMAIN verdict /\ stray \subseteq DOMAIN verdict
  /\ view \in [items : DecideLists, busy : SUBSET Memory] /\ moves \in Nat

\* A call that sends a verdict has one, and its answer is one for what it is at.
DecideFits(w, keys) ==
  /\ w.kind = "decide" => w.stage # "listing"
  /\ w.kind = "list" => w.stage = "listing"
  /\ w.stage # "listing" => w.key \in keys
  /\ \A n \in DOMAIN w.todo : w.todo[n] \in keys
  /\ w.stage = "posting" => w.answer \in {None, Dec!Contradicted} \cup DecideRows
  /\ w.stage = "merging" => w.answer \in DecideRows /\ w.list \in DecideLists
  /\ w.stage \in {"reloading", "listing"} => w.answer \in {None} \cup DecideLists

DecideCallFits(c) == call[c] # None => DecideFits(call[c], DOMAIN verdict)

DecideCallsHold ==
  /\ call \in [DecideCall -> {None} \cup Dec!Doing]
  /\ \A c \in DecideCall : DecideCallFits(c)

DecisionsInv == ServiceHolds /\ ClientHolds /\ DecideCallsHold

LEMMA RowsAreItems == ASSUME NEW i \in DecideRows PROVE i \in Dec!Item /\ i \in Dec!Reply
BY DEF DecideRows, Dec!Reply

LEMMA ListsAreReplies ==
  ASSUME NEW l \in DecideLists PROVE l \in [Memory -> Dec!Item] /\ l \in Dec!Reply
BY DEF DecideLists, DecideRows, Dec!Reply

LEMMA AfterIsRow ==
  ASSUME Dec!DecisionsAssumption, ServiceHolds, NEW k \in DOMAIN verdict
  PROVE  /\ verdict[k] \in Verdict /\ Dec!After(k) \in DecideRows /\ Dec!After(k).version = 2
         /\ Dec!After(k).status # "pending"
         /\ Dec!After(k).status = "approved" <=> verdict[k].approved
<1>1. verdict[k] \in Verdict /\ DecideKeys + DecideMaxMoves + 1 >= 2 /\ DecideKeys + DecideMaxMoves + 1 \in Nat
  BY DEF ServiceHolds, Dec!DecisionsAssumption
<1>2. verdict[k].expected = 1 /\ verdict[k].approved \in BOOLEAN BY <1>1 DEF Verdict
<1> QED BY <1>1, <1>2 DEF Dec!After, DecideRows, Dec!Item

LEMMA DecisionsBegin == ASSUME Dec!DecisionsAssumption, Dec!Init PROVE DecisionsInv
<1> DEFINE first == [version |-> 1, status |-> "pending"]
<1>1. first \in DecideRows BY DEF DecideRows, Dec!Item, Dec!DecisionsAssumption
<1>2. fact = [m \in Memory |-> first] BY DEF Dec!Init
<1> HIDE DEF first
<1>3. fact \in DecideLists BY <1>1, <1>2 DEF DecideLists
<1>4. ServiceHolds BY <1>3 DEF Dec!Init, ServiceHolds, Dec!DecisionsAssumption
<1>5. ClientHolds BY <1>3 DEF Dec!Init, ClientHolds
<1>6. DecideCallsHold BY DEF Dec!Init, DecideCallsHold, DecideCallFits
<1> QED BY <1>4, <1>5, <1>6 DEF DecisionsInv

-----------------------------------------------------------------------------
\* Verdicts that are given stay.
VerdictsGrow == Len(verdict) <= Len(verdict') /\ \A k \in DOMAIN verdict : verdict'[k] = verdict[k]

LEMMA VerdictsGrowAsIs == ASSUME ServiceHolds, UNCHANGED verdict PROVE VerdictsGrow
BY DEF VerdictsGrow, ServiceHolds

LEMMA KeysStay ==
  ASSUME ServiceHolds, ServiceHolds', VerdictsGrow PROVE DOMAIN verdict \subseteq DOMAIN verdict'
BY DEF VerdictsGrow, ServiceHolds

CallsAreSet(c, w) == call' = [call EXCEPT ![c] = w]

LEMMA DecideAtWork ==
  ASSUME Dec!DecisionsAssumption, DecideCallsHold, NEW c \in DecideCall, call[c] # None
  PROVE  call[c] \in Dec!Doing /\ DecideFits(call[c], DOMAIN verdict)
BY DEF DecideCallsHold, DecideCallFits

LEMMA RightStays ==
  ASSUME NEW w, NEW small, NEW large, small \subseteq large, DecideFits(w, small)
  PROVE  DecideFits(w, large)
BY DEF DecideFits

LEMMA CallsSet ==
  ASSUME Dec!DecisionsAssumption, ServiceHolds, ServiceHolds', DecideCallsHold, VerdictsGrow,
         NEW c \in DecideCall,
         NEW w, CallsAreSet(c, w), w = None \/ (w \in Dec!Doing /\ DecideFits(w, DOMAIN verdict'))
  PROVE  DecideCallsHold'
<1>1. call' \in [DecideCall -> {None} \cup Dec!Doing] BY DEF DecideCallsHold, CallsAreSet
<1>2. ASSUME NEW x \in DecideCall PROVE DecideCallFits(x)'
  <2>1. CASE x = c BY <2>1 DEF DecideCallsHold, DecideCallFits, CallsAreSet
  <2>2. CASE x # c
    <3>1. call'[x] = call[x] BY <2>2 DEF CallsAreSet, DecideCallsHold
    <3> QED BY <3>1, KeysStay, RightStays DEF DecideCallsHold, DecideCallFits
  <2> QED BY <2>1, <2>2
<1> QED BY <1>1, <1>2 DEF DecideCallsHold

LEMMA CallEnds ==
  ASSUME Dec!DecisionsAssumption, ServiceHolds, ServiceHolds', DecideCallsHold, VerdictsGrow,
         NEW c \in DecideCall,
         CallsAreSet(c, None)
  PROVE  DecideCallsHold'
<1>1. call' \in [DecideCall -> {None} \cup Dec!Doing] BY DEF DecideCallsHold, CallsAreSet
<1>2. ASSUME NEW x \in DecideCall PROVE DecideCallFits(x)'
  <2>1. CASE x = c BY <2>1 DEF DecideCallsHold, DecideCallFits, CallsAreSet
  <2>2. CASE x # c
    <3>1. call'[x] = call[x] BY <2>2 DEF CallsAreSet, DecideCallsHold
    <3> QED BY <3>1, KeysStay, RightStays DEF DecideCallsHold, DecideCallFits
  <2> QED BY <2>1, <2>2
<1> QED BY <1>1, <1>2 DEF DecideCallsHold

LEMMA AllStay ==
  ASSUME ServiceHolds, ServiceHolds', DecideCallsHold, VerdictsGrow, UNCHANGED call
  PROVE  DecideCallsHold'
<1>1. ASSUME NEW x \in DecideCall PROVE DecideCallFits(x)'
  BY KeysStay, RightStays DEF DecideCallsHold, DecideCallFits
<1> QED BY <1>1 DEF DecideCallsHold

LEMMA ServiceStays ==
  ASSUME ServiceHolds, UNCHANGED <<Dec!service, verdict>> PROVE ServiceHolds'
BY DEF ServiceHolds, Dec!service, Dec!After

\* The service takes a verdict, or has nothing to do.
LEMMA DecideHandleHolds ==
  ASSUME Dec!DecisionsAssumption, ServiceHolds, NEW k \in DOMAIN verdict, Dec!Handle(k),
         UNCHANGED verdict
  PROVE  /\ ServiceHolds' /\ DOMAIN receipt \subseteq DOMAIN receipt'
         /\ \A m \in Memory : fact[m].version <= fact'[m].version
         /\ UNCHANGED expired
<1>1. CASE UNCHANGED Dec!service
  <2>1. ServiceHolds' BY <1>1, ServiceStays
  <2> QED BY <1>1, <2>1 DEF Dec!service, ServiceHolds, DecideLists, DecideRows, Dec!Item
<1>2. CASE /\ ~Dec!Bound(k) /\ Dec!Current(k) /\ UNCHANGED expired
           /\ fact' = [fact EXCEPT ![verdict[k].memory] = Dec!After(k)]
           /\ receipt' = [x \in DOMAIN receipt \cup {k} |-> IF x = k THEN Dec!After(k) ELSE receipt[x]]
  <2>1. /\ verdict[k].memory \in Memory /\ Dec!After(k) \in DecideRows /\ Dec!After(k).version = 2
        /\ \A x : Dec!After(x)' = Dec!After(x)
    BY AfterIsRow DEF Verdict, Dec!After
  <2>2. /\ fact' \in DecideLists /\ fact'[verdict[k].memory] = Dec!After(k)
        /\ \A m \in Memory : m # verdict[k].memory => fact'[m] = fact[m]
    BY <1>2, <2>1 DEF ServiceHolds, DecideLists
  <2>3. \A x \in DOMAIN receipt : verdict[x].memory # verdict[k].memory
    <3> SUFFICES ASSUME NEW x \in DOMAIN receipt, verdict[x].memory = verdict[k].memory PROVE FALSE
      OBVIOUS
    <3>1. fact[verdict[k].memory] = Dec!After(x) /\ x \in DOMAIN verdict BY DEF ServiceHolds
    <3>2. Dec!After(x).status # "pending" BY <3>1, AfterIsRow
    <3> QED BY <1>2, <3>1, <3>2 DEF Dec!Current
  <2>4. ASSUME NEW x \in DOMAIN receipt'
        PROVE  receipt'[x] = Dec!After(x)' /\ fact'[verdict'[x].memory] = Dec!After(x)'
    <3>1. CASE x = k BY <1>2, <2>1, <2>2, <3>1
    <3>2. CASE x \in DOMAIN receipt /\ x # k
      <4>1. verdict[x].memory \in Memory BY <3>2, AfterIsRow DEF ServiceHolds, Verdict
      <4> QED BY <1>2, <2>1, <2>2, <2>3, <3>2, <4>1 DEF ServiceHolds
    <3> QED BY <1>2, <3>1, <3>2
  <2>5. ServiceHolds' BY <1>2, <2>2, <2>4 DEF ServiceHolds
  <2>6. \A m \in Memory : fact[m].version <= fact'[m].version
    BY <2>1, <2>2 DEF ServiceHolds, DecideLists, DecideRows, Dec!Item
  <2> QED BY <1>2, <2>5, <2>6
<1> QED BY <1>1, <1>2 DEF Dec!Handle

\* A verdict is drawn on what the list shows.
LEMMA DrawHolds ==
  ASSUME ServiceHolds, NEW body \in Verdict, verdict' = Append(verdict, body),
         Len(verdict) < DecideKeys, DecideKeys \in Nat, UNCHANGED Dec!service
  PROVE  /\ ServiceHolds' /\ VerdictsGrow
         /\ Len(verdict') = Len(verdict) + 1 /\ Len(verdict') \in DOMAIN verdict'
         /\ Len(verdict') \notin DOMAIN verdict /\ verdict'[Len(verdict')] = body
         /\ DOMAIN verdict' = DOMAIN verdict \cup {Len(verdict')} /\ DOMAIN verdict' \in SUBSET Nat
<1>1. /\ verdict' \in Seq(Verdict) /\ Len(verdict') = Len(verdict) + 1 /\ Len(verdict) \in Nat
      /\ DOMAIN verdict = 1 .. Len(verdict) /\ DOMAIN verdict' = 1 .. Len(verdict')
      /\ verdict'[Len(verdict')] = body /\ \A k \in DOMAIN verdict : verdict'[k] = verdict[k]
  BY DEF ServiceHolds
<1>2. DOMAIN verdict \subseteq DOMAIN verdict' BY <1>1
<1>3. ASSUME NEW k \in DOMAIN receipt'
      PROVE  receipt'[k] = Dec!After(k)' /\ fact'[verdict'[k].memory] = Dec!After(k)'
  <2>1. k \in DOMAIN receipt /\ k \in DOMAIN verdict /\ receipt' = receipt /\ fact' = fact
    BY DEF ServiceHolds, Dec!service
  <2>2. verdict'[k] = verdict[k] BY <1>1, <2>1
  <2> QED BY <2>1, <2>2 DEF ServiceHolds, Dec!After
<1>4. ServiceHolds' BY <1>1, <1>2, <1>3 DEF ServiceHolds, Dec!service
<1> QED BY <1>1, <1>4 DEF VerdictsGrow

\* The memory of a key is one.
LEMMA KeyIsOne ==
  ASSUME ServiceHolds, NEW k \in DOMAIN verdict
  PROVE  /\ verdict[k].memory \in Memory /\ verdict[k].expected = 1 /\ verdict[k] \in Verdict
         /\ k \in Nat
<1>1. verdict[k] \in Verdict /\ k \in Nat BY DEF ServiceHolds
<1> QED BY <1>1 DEF Verdict

Starts(kind, stage, k) == [Dec!Fresh(kind, stage) EXCEPT !.key = k]

LEMMA StartIsRight ==
  ASSUME NEW keys \in SUBSET Nat, NEW k, NEW kind, NEW stage,
         \/ kind \in {"decide", "refresh"} /\ stage = "posting" /\ k \in keys
         \/ kind \in {"list", "refresh"} /\ stage = "listing" /\ k = None
  PROVE  /\ Starts(kind, stage, k) \in Dec!Doing /\ DecideFits(Starts(kind, stage, k), keys)
         /\ Starts(kind, stage, k).stage = stage /\ Starts(kind, stage, k).kind = kind
         /\ Starts(kind, stage, k).key = k /\ Starts(kind, stage, k).answer = None
         /\ Starts(kind, stage, k).todo = <<>>
<1> DEFINE w == Starts(kind, stage, k)
<1>1. w = [kind |-> kind, stage |-> stage, key |-> k, todo |-> <<>>, list |-> <<>>, answer |-> None]
  BY DEF Starts, Dec!Fresh
<1>2. k \in {None} \cup Nat OBVIOUS
<1>3. w \in Dec!Doing BY <1>1, <1>2 DEF Dec!Doing
<1>4. DecideFits(w, keys) BY <1>1 DEF DecideFits
<1> QED BY <1>1, <1>3, <1>4

LEMMA DecideHolds ==
  ASSUME Dec!DecisionsAssumption, DecisionsInv, NEW c \in DecideCall, NEW m \in Memory,
         NEW approved \in BOOLEAN,
         Dec!Decide(c, m, approved)
  PROVE  DecisionsInv' /\ VerdictsGrow
<1> USE DEF DecisionsInv
<1> DEFINE body == [memory |-> m, approved |-> approved, expected |-> view.items[m].version]
<1>1. view.items[m] \in DecideRows /\ view.items[m].status = "pending"
  BY DEF Dec!Decide, ClientHolds, DecideLists
<1>2. body \in Verdict BY <1>1 DEF Verdict, DecideRows
<1>3. /\ view \in [items : DecideLists, busy : SUBSET Memory] /\ items \in DecideLists
      /\ [view EXCEPT !.busy = @ \cup {m}] \in [items : DecideLists, busy : SUBSET Memory]
      /\ [view EXCEPT !.items = items] \in [items : DecideLists, busy : SUBSET Memory]
  BY DEF ClientHolds
<1>4. CASE /\ op[m] = None /\ Len(verdict) < DecideKeys /\ verdict' = Append(verdict, body)
           /\ op' = [op EXCEPT ![m] = Len(verdict')]
           /\ call' = [call EXCEPT ![c] = [Dec!Fresh("decide", "posting") EXCEPT !.key = Len(verdict')]]
           /\ view' = [view EXCEPT !.busy = @ \cup {m}]
           /\ UNCHANGED <<Dec!service, items, told, stray, lost, moves>>
  <2>a. ServiceHolds /\ DecideCallsHold OBVIOUS
  <2>b. /\ op \in [Memory -> {None} \cup Nat]
        /\ \A x \in Memory : op[x] # None => op[x] \in DOMAIN verdict /\ verdict[op[x]].memory = x
    BY DEF ClientHolds
  <2>c. verdict' = Append(verdict, body) /\ op' = [op EXCEPT ![m] = Len(verdict')] BY <1>4
  <2> HIDE DEF body, DecisionsInv
  <2>1. /\ ServiceHolds' /\ VerdictsGrow /\ Len(verdict') \in DOMAIN verdict'
        /\ DOMAIN verdict' = DOMAIN verdict \cup {Len(verdict')} /\ DOMAIN verdict' \in SUBSET Nat
        /\ verdict'[Len(verdict')] = body /\ Len(verdict') \in Nat
    BY <1>2, <1>4, <2>a, DrawHolds DEF Dec!DecisionsAssumption
  <2>2. CallsAreSet(c, Starts("decide", "posting", Len(verdict'))) BY <1>4 DEF CallsAreSet, Starts
  <2>3. \A k \in DOMAIN verdict : verdict'[k] = verdict[k] BY <2>1, Zenon DEF VerdictsGrow
  <2>4. DecideCallsHold' BY <2>a, <2>1, <2>2, CallsSet, StartIsRight, Zenon
  <2>5. body.memory = m BY DEF body
  <2>6. \A x \in Memory : op'[x] = IF x = m THEN Len(verdict') ELSE op[x] BY <2>b, <2>c
  <2>7. op' \in [Memory -> {None} \cup Nat] BY <2>b, <2>c, <2>1
  <2>8. ASSUME NEW x \in Memory, op'[x] # None
        PROVE  op'[x] \in DOMAIN verdict' /\ verdict'[op'[x]].memory = x
    <3>1. CASE x = m BY <2>1, <2>5, <2>6, <3>1, Zenon
    <3>2. CASE x # m BY <2>b, <2>1, <2>3, <2>6, <2>8, <3>2, Zenon
    <3> QED BY <3>1, <3>2
  <2>d. ClientHolds BY DEF DecisionsInv
  <2>9. ClientHolds' BY <1>3, <1>4, <2>1, <2>7, <2>8, <2>d DEF ClientHolds
  <2> QED BY <2>1, <2>4, <2>9, Zenon DEF DecisionsInv
<1>5. CASE /\ op[m] # None /\ UNCHANGED <<verdict, op>>
           /\ call' = [call EXCEPT ![c] = [Dec!Fresh("decide", "posting") EXCEPT !.key = op[m]]]
           /\ view' = [view EXCEPT !.busy = @ \cup {m}]
           /\ UNCHANGED <<Dec!service, items, told, stray, lost, moves>>
  <2>1. ServiceHolds' /\ VerdictsGrow BY <1>5, ServiceStays, VerdictsGrowAsIs
  <2>2. CallsAreSet(c, Starts("decide", "posting", op[m])) BY <1>5 DEF CallsAreSet, Starts
  <2>3. op[m] \in DOMAIN verdict' /\ DOMAIN verdict' \in SUBSET Nat
    BY <1>5 DEF ClientHolds, ServiceHolds
  <2>4. DecideCallsHold' BY <2>1, <2>2, <2>3, CallsSet, StartIsRight
  <2>5. ClientHolds' BY <1>3, <1>5 DEF ClientHolds
  <2> QED BY <2>1, <2>4, <2>5
<1>6. CASE /\ UNCHANGED <<verdict, op, call>> /\ view' = [view EXCEPT !.items = items]
           /\ UNCHANGED <<Dec!service, items, told, stray, lost, moves>>
  <2>1. ServiceHolds' /\ VerdictsGrow BY <1>6, ServiceStays, VerdictsGrowAsIs
  <2>2. DecideCallsHold' BY <1>6, <2>1, AllStay
  <2>3. ClientHolds' BY <1>3, <1>6 DEF ClientHolds
  <2> QED BY <2>1, <2>2, <2>3
<1> QED BY <1>4, <1>5, <1>6 DEF Dec!Decide

LEMMA KeysAreFinite == ASSUME ServiceHolds
                       PROVE  IsFiniteSet(DOMAIN verdict) /\ DOMAIN verdict \subseteq Nat
<1>1. DOMAIN verdict = 1 .. Len(verdict) /\ Len(verdict) \in Nat BY DEF ServiceHolds
<1> QED BY <1>1, FS_Interval

LEMMA EnumerationIsSeq == ASSUME NEW n \in Nat, NEW s \in [1 .. n -> Nat] PROVE s \in Seq(Nat)
OBVIOUS

\* What refresh has to send is a sequence of keys, each for a memory.
LEMMA OrdersAreKeys ==
  ASSUME ServiceHolds, ClientHolds, NEW todo \in Dec!Orders
  PROVE  /\ todo \in Seq(Nat)
         /\ \A n \in DOMAIN todo : /\ todo[n] \in DOMAIN verdict
                                   /\ op[verdict[todo[n]].memory] = todo[n]
         /\ \A i, j \in DOMAIN todo : todo[i] = todo[j] => i = j
<1>1. \A k \in Dec!Pending : k \in DOMAIN verdict /\ op[verdict[k].memory] = k
  BY DEF Dec!Pending, ClientHolds
<1>2. IsFiniteSet(Dec!Pending) /\ Dec!Pending \subseteq Nat BY <1>1, KeysAreFinite, FS_Subset
<1>3. Cardinality(Dec!Pending) \in Nat BY <1>2, FS_CardinalityType
<1>4. todo \in [1 .. Cardinality(Dec!Pending) -> Dec!Pending]
  BY DecideCounts DEF Dec!Orders
<1>5. todo \in Seq(Nat)
  <2>1. todo \in [1 .. Cardinality(Dec!Pending) -> Nat] BY <1>2, <1>4
  <2> QED BY <1>3, <2>1, EnumerationIsSeq
<1> QED BY <1>1, <1>4, <1>5 DEF Dec!Orders

LEMMA SendingIsRight ==
  ASSUME NEW keys \in SUBSET Nat, NEW todo \in Seq(Nat), \A n \in DOMAIN todo : todo[n] \in keys
  PROVE  /\ Dec!Sending(todo) \in Dec!Doing /\ DecideFits(Dec!Sending(todo), keys)
         /\ Dec!Sending(todo).kind = "refresh" /\ Dec!Sending(todo).answer = None
         /\ todo = <<>> => Dec!Sending(todo).stage = "listing" /\ Dec!Sending(todo).todo = <<>>
         /\ todo # <<>> => /\ Dec!Sending(todo).stage = "posting" /\ Dec!Sending(todo).key = todo[1]
                           /\ Dec!Sending(todo).todo = Tail(todo)
<1>1. CASE todo = <<>>
  <2> DEFINE w == Starts("refresh", "listing", None)
  <2>1. Dec!Sending(todo) = Dec!Fresh("refresh", "listing") BY <1>1, Zenon DEF Dec!Sending
  <2>2. Dec!Fresh("refresh", "listing") = w BY DEF Dec!Fresh, Starts
  <2>3. /\ w \in Dec!Doing /\ DecideFits(w, keys) /\ w.kind = "refresh" /\ w.answer = None
        /\ w.stage = "listing" /\ w.todo = <<>>
    BY StartIsRight
  <2> HIDE DEF w
  <2> QED BY <1>1, <2>1, <2>2, <2>3
<1>2. CASE todo # <<>>
  <2> DEFINE w == Dec!Sending(todo)
  <2>1. w = [kind |-> "refresh", stage |-> "posting", key |-> todo[1], todo |-> Tail(todo),
             list |-> <<>>, answer |-> None]
    <3>1. Head(todo) = todo[1] BY <1>2
    <3>2. w = [Dec!Fresh("refresh", "posting") EXCEPT !.key = Head(todo), !.todo = Tail(todo)]
      BY <1>2 DEF Dec!Sending
    <3> HIDE DEF w
    <3> QED BY <3>1, <3>2 DEF Dec!Fresh
  <2>2. /\ todo[1] \in keys /\ todo[1] \in Nat /\ Tail(todo) \in Seq(Nat)
        /\ \A n \in DOMAIN Tail(todo) : Tail(todo)[n] = todo[n + 1] /\ n + 1 \in DOMAIN todo
    BY <1>2
  <2>3. w \in Dec!Doing BY <2>1, <2>2 DEF Dec!Doing
  <2>4. DecideFits(w, keys) BY <2>1, <2>2 DEF DecideFits
  <2> QED BY <1>2, <2>1, <2>3, <2>4
<1> QED BY <1>1, <1>2

\* What a call that ends leaves of the view.
LEMMA LeavesHolds ==
  ASSUME ClientHolds, NEW c \in DecideCall, Dec!Leaves(c), items' \in DecideLists
  PROVE  view' \in [items : DecideLists, busy : SUBSET Memory] /\ CallsAreSet(c, None)
<1>1. view \in [items : DecideLists, busy : SUBSET Memory] BY DEF ClientHolds
<1> DEFINE b == view.busy \ {verdict[call[c].key].memory}
<1>2. b \in SUBSET Memory BY <1>1
<1>3. view' = view \/ view' = [items |-> items', busy |-> b] BY DEF Dec!Leaves
<1> HIDE DEF b
<1> QED BY <1>1, <1>2, <1>3 DEF Dec!Leaves, CallsAreSet

LEMMA DecideRefreshHolds ==
  ASSUME Dec!DecisionsAssumption, DecisionsInv, NEW c \in DecideCall, Dec!Refresh(c)
  PROVE  DecisionsInv'
<1> USE DEF DecisionsInv
<1>1. ServiceHolds' /\ VerdictsGrow BY ServiceStays, VerdictsGrowAsIs DEF Dec!Refresh
<1>2. PICK todo \in Dec!Orders : CallsAreSet(c, Dec!Sending(todo)) BY DEF Dec!Refresh, CallsAreSet
<1>3. DOMAIN verdict' \in SUBSET Nat /\ verdict' = verdict BY KeysAreFinite DEF Dec!Refresh
<1>4. Dec!Sending(todo) \in Dec!Doing /\ DecideFits(Dec!Sending(todo), DOMAIN verdict')
  BY <1>3, OrdersAreKeys, SendingIsRight
<1>5. DecideCallsHold' BY <1>1, <1>2, <1>4, CallsSet
<1>6. ClientHolds' BY DEF Dec!Refresh, ClientHolds, Dec!disk
<1> QED BY <1>1, <1>5, <1>6

LEMMA RefreshMemoriesHolds ==
  ASSUME Dec!DecisionsAssumption, DecisionsInv, NEW c \in DecideCall, Dec!RefreshMemories(c)
  PROVE  DecisionsInv'
<1> USE DEF DecisionsInv
<1>1. ServiceHolds' /\ VerdictsGrow BY ServiceStays, VerdictsGrowAsIs DEF Dec!RefreshMemories
<1>2. CallsAreSet(c, Starts("list", "listing", None))
  <2>1. Starts("list", "listing", None) = Dec!Fresh("list", "listing") BY DEF Starts, Dec!Fresh
  <2> QED BY <2>1 DEF Dec!RefreshMemories, CallsAreSet
<1>3. DOMAIN verdict' \in SUBSET Nat BY KeysAreFinite DEF Dec!RefreshMemories
<1>4. Starts("list", "listing", None) \in Dec!Doing
      /\ DecideFits(Starts("list", "listing", None), DOMAIN verdict')
  BY <1>3, StartIsRight
<1>5. DecideCallsHold' BY <1>1, <1>2, <1>4, CallsSet
<1>6. ClientHolds' BY DEF Dec!RefreshMemories, ClientHolds, Dec!disk
<1> QED BY <1>1, <1>5, <1>6

LEMMA ReadItemsHolds ==
  ASSUME Dec!DecisionsAssumption, DecisionsInv, NEW c \in DecideCall, Dec!ReadItems(c)
  PROVE  DecisionsInv'
<1> USE DEF DecisionsInv
<1> DEFINE w == [call[c] EXCEPT !.stage = "merging", !.list = items]
<1>1. ServiceHolds' /\ VerdictsGrow BY ServiceStays, VerdictsGrowAsIs DEF Dec!ReadItems
<1>2. call[c] \in Dec!Doing /\ DecideFits(call[c], DOMAIN verdict) /\ call[c].stage = "posting"
  BY DecideAtWork DEF Dec!ReadItems, Dec!Working
<1>3. items \in DecideLists /\ items \in [Memory -> Dec!Item] BY ListsAreReplies DEF ClientHolds
<1>4. /\ w \in Dec!Doing /\ w.stage = "merging" /\ w.list = items /\ w.kind = call[c].kind
      /\ w.key = call[c].key /\ w.todo = call[c].todo /\ w.answer = call[c].answer
  BY <1>2, <1>3 DEF Dec!Doing
<1>5. CallsAreSet(c, w) BY <1>2 DEF Dec!ReadItems, CallsAreSet, DecideCallsHold
<1> HIDE DEF w
<1>6. DecideFits(w, DOMAIN verdict') BY <1>2, <1>3, <1>4 DEF DecideFits, Dec!ReadItems
<1>7. DecideCallsHold' BY <1>1, <1>4, <1>5, <1>6, CallsSet
<1>8. ClientHolds' BY <1>2 DEF Dec!ReadItems, ClientHolds, Dec!disk, DecideFits
<1> QED BY <1>1, <1>7, <1>8

LEMMA WriteItemsHolds ==
  ASSUME Dec!DecisionsAssumption, DecisionsInv, NEW c \in DecideCall, Dec!WriteItems(c)
  PROVE  /\ DecisionsInv' /\ VerdictsGrow
         /\ items' = [call[c].list EXCEPT ![verdict[call[c].key].memory] = call[c].answer]
         /\ op' = [op EXCEPT ![verdict[call[c].key].memory] = None]
<1> USE DEF DecisionsInv
<1> DEFINE m == verdict[call[c].key].memory
<1>1. ServiceHolds' /\ VerdictsGrow BY ServiceStays, VerdictsGrowAsIs DEF Dec!WriteItems
<1>2. call[c] \in Dec!Doing /\ DecideFits(call[c], DOMAIN verdict) /\ call[c].stage = "merging"
      /\ call[c] # None
  BY DecideAtWork DEF Dec!WriteItems, Dec!Working
<1>3. items' = [call[c].list EXCEPT ![m] = call[c].answer] /\ op' = [op EXCEPT ![m] = None]
  BY DEF Dec!WriteItems
<1>4. call[c].list \in DecideLists /\ call[c].answer \in DecideRows BY <1>2 DEF DecideFits
<1>5. items' \in DecideLists BY <1>3, <1>4 DEF DecideLists
<1>6. verdict' = verdict /\ DOMAIN verdict' \in SUBSET Nat BY KeysAreFinite DEF Dec!WriteItems
<1>7. CASE call[c].kind = "refresh"
  <2>1. CallsAreSet(c, Dec!Sending(call[c].todo)) /\ UNCHANGED view BY <1>7
    DEF Dec!WriteItems, CallsAreSet
  <2>2. call[c].todo \in Seq(Nat) /\ \A n \in DOMAIN call[c].todo : call[c].todo[n] \in DOMAIN verdict
    BY <1>2 DEF DecideFits, Dec!Doing
  <2>3. Dec!Sending(call[c].todo) \in Dec!Doing /\ DecideFits(Dec!Sending(call[c].todo), DOMAIN verdict')
    BY <1>6, <2>2, SendingIsRight
  <2>4. DecideCallsHold' BY <1>1, <2>1, <2>3, CallsSet
  <2>5. view' = view BY <2>1
  <2>6. ClientHolds' BY <1>3, <1>5, <2>5 DEF Dec!WriteItems, ClientHolds
  <2> QED BY <1>1, <1>3, <2>4, <2>6
<1>8. CASE call[c].kind # "refresh"
  <2>1. Dec!Leaves(c) BY <1>8 DEF Dec!WriteItems
  <2>2. view' \in [items : DecideLists, busy : SUBSET Memory] /\ CallsAreSet(c, None)
    BY <1>5, <2>1, LeavesHolds
  <2>3. DecideCallsHold' BY <1>1, <2>2, CallEnds
  <2>4. ClientHolds' BY <1>3, <1>5, <2>2 DEF Dec!WriteItems, ClientHolds
  <2> QED BY <1>1, <1>3, <2>3, <2>4
<1> QED BY <1>7, <1>8

LEMMA ConflictHolds ==
  ASSUME Dec!DecisionsAssumption, DecisionsInv, NEW c \in DecideCall, Dec!Conflict(c)
  PROVE  DecisionsInv'
<1> USE DEF DecisionsInv
<1> DEFINE w == [call[c] EXCEPT !.stage = "reloading", !.answer = None]
<1>1. ServiceHolds' /\ VerdictsGrow BY ServiceStays, VerdictsGrowAsIs DEF Dec!Conflict
<1>2. call[c] \in Dec!Doing /\ DecideFits(call[c], DOMAIN verdict) /\ call[c].stage = "posting"
  BY DecideAtWork DEF Dec!Conflict, Dec!Working
<1>3. /\ w \in Dec!Doing /\ w.stage = "reloading" /\ w.list = call[c].list /\ w.kind = call[c].kind
      /\ w.key = call[c].key /\ w.todo = call[c].todo /\ w.answer = None
  BY <1>2 DEF Dec!Doing
<1>4. CallsAreSet(c, w) BY <1>2 DEF Dec!Conflict, CallsAreSet, DecideCallsHold
<1> HIDE DEF w
<1>5. DecideFits(w, DOMAIN verdict') BY <1>2, <1>3 DEF DecideFits, Dec!Conflict
<1>6. DecideCallsHold' BY <1>1, <1>3, <1>4, <1>5, CallsSet
<1>7. ClientHolds' BY <1>2 DEF Dec!Conflict, ClientHolds, Dec!disk, DecideFits
<1> QED BY <1>1, <1>6, <1>7

LEMMA ReloadedHolds ==
  ASSUME Dec!DecisionsAssumption, DecisionsInv, NEW c \in DecideCall, Dec!Reloaded(c)
  PROVE  DecisionsInv'
<1> USE DEF DecisionsInv
<1>1. ServiceHolds' /\ VerdictsGrow BY ServiceStays, VerdictsGrowAsIs DEF Dec!Reloaded
<1>2. call[c] \in Dec!Doing /\ DecideFits(call[c], DOMAIN verdict) /\ call[c].stage = "reloading"
  BY DecideAtWork DEF Dec!Reloaded, Dec!Working
<1>3. items' \in DecideLists BY <1>2 DEF Dec!Reloaded, DecideFits
<1>4. view' \in [items : DecideLists, busy : SUBSET Memory] /\ CallsAreSet(c, None)
  BY <1>3, LeavesHolds DEF Dec!Reloaded
<1>5. DecideCallsHold' BY <1>1, <1>4, CallEnds
<1>6. ClientHolds' BY <1>2, <1>3, <1>4 DEF Dec!Reloaded, ClientHolds
<1> QED BY <1>1, <1>5, <1>6

LEMMA ListedHolds ==
  ASSUME Dec!DecisionsAssumption, DecisionsInv, NEW c \in DecideCall, Dec!Listed(c)
  PROVE  DecisionsInv'
<1> USE DEF DecisionsInv
<1>1. ServiceHolds' /\ VerdictsGrow BY ServiceStays, VerdictsGrowAsIs DEF Dec!Listed
<1>2. call[c] \in Dec!Doing /\ DecideFits(call[c], DOMAIN verdict) /\ call[c].stage = "listing"
  BY DecideAtWork DEF Dec!Listed, Dec!Working
<1>3. items' \in DecideLists BY <1>2 DEF Dec!Listed, DecideFits
<1>4. view' \in [items : DecideLists, busy : SUBSET Memory] /\ CallsAreSet(c, None)
  BY <1>3 DEF Dec!Listed, CallsAreSet, ClientHolds
<1>5. DecideCallsHold' BY <1>1, <1>4, CallEnds
<1>6. ClientHolds' BY <1>2, <1>3, <1>4 DEF Dec!Listed, ClientHolds
<1> QED BY <1>1, <1>5, <1>6

LEMMA AnswerIsRight ==
  ASSUME Dec!DecisionsAssumption, ServiceHolds, NEW k \in DOMAIN verdict
  PROVE  Dec!Answer(k) \in {Dec!Contradicted} \cup DecideRows
BY AfterIsRow DEF Dec!Answer, Dec!Bound, ServiceHolds

LEMMA DecideServeHolds ==
  ASSUME Dec!DecisionsAssumption, DecisionsInv, NEW c \in DecideCall, Dec!Serve(c)
  PROVE  /\ DecisionsInv' /\ VerdictsGrow
         /\ \A m \in Memory : fact[m].version <= fact'[m].version
         /\ expired' = expired
<1> USE DEF DecisionsInv
<1>0. verdict' = verdict /\ VerdictsGrow BY VerdictsGrowAsIs DEF Dec!Serve
<1>1. call[c] \in Dec!Doing /\ DecideFits(call[c], DOMAIN verdict) BY DecideAtWork DEF Dec!Serve
<1>2. ClientHolds' BY DEF Dec!Serve, ClientHolds, Dec!disk
<1>3. CASE call[c].stage = "posting"
  <2> DEFINE w == [call[c] EXCEPT !.answer = Dec!Answer(call[c].key)]
  <2>1. call[c].key \in DOMAIN verdict BY <1>1, <1>3 DEF DecideFits
  <2>2. /\ ServiceHolds' /\ expired' = expired
        /\ \A m \in Memory : fact[m].version <= fact'[m].version
    BY <1>0, <1>3, <2>1, DecideHandleHolds DEF Dec!Serve
  <2>3. Dec!Answer(call[c].key) \in {Dec!Contradicted} \cup DecideRows BY <2>1, AnswerIsRight
  <2>4. Dec!Answer(call[c].key) \in Dec!Reply BY <2>3, RowsAreItems DEF Dec!Reply
  <2>5. /\ w \in Dec!Doing /\ w.stage = "posting" /\ w.kind = call[c].kind
        /\ w.key = call[c].key /\ w.todo = call[c].todo /\ w.answer = Dec!Answer(call[c].key)
    BY <1>1, <1>3, <2>4 DEF Dec!Doing
  <2>6. CallsAreSet(c, w) BY <1>3 DEF Dec!Serve, CallsAreSet, DecideCallsHold
  <2> HIDE DEF w
  <2>7. DecideFits(w, DOMAIN verdict') BY <1>0, <1>1, <1>3, <2>3, <2>5 DEF DecideFits
  <2>8. DecideCallsHold' BY <1>0, <2>2, <2>5, <2>6, <2>7, CallsSet
  <2> QED BY <1>0, <1>2, <2>2, <2>8
<1>4. CASE call[c].stage \in {"listing", "reloading"}
  <2> DEFINE w == [call[c] EXCEPT !.answer = fact]
  <2>1. UNCHANGED Dec!service BY <1>4 DEF Dec!Serve
  <2>2. ServiceHolds' /\ expired' = expired /\ \A m \in Memory : fact[m].version <= fact'[m].version
    BY <1>0, <2>1, ServiceStays DEF Dec!service, ServiceHolds, DecideLists, DecideRows, Dec!Item
  <2>3. fact \in DecideLists /\ fact \in Dec!Reply BY ListsAreReplies DEF ServiceHolds
  <2>4. /\ w \in Dec!Doing /\ w.stage = call[c].stage /\ w.kind = call[c].kind
        /\ w.key = call[c].key /\ w.todo = call[c].todo /\ w.answer = fact
    BY <1>1, <2>3 DEF Dec!Doing
  <2>5. CallsAreSet(c, w) BY <1>4 DEF Dec!Serve, CallsAreSet, DecideCallsHold
  <2> HIDE DEF w
  <2>6. DecideFits(w, DOMAIN verdict') BY <1>0, <1>1, <1>4, <2>3, <2>4 DEF DecideFits
  <2>7. DecideCallsHold' BY <1>0, <2>2, <2>4, <2>5, <2>6, CallsSet
  <2> QED BY <1>0, <1>2, <2>2, <2>7
<1> QED BY <1>3, <1>4 DEF Dec!Serve

LEMMA DecideLoseHolds ==
  ASSUME Dec!DecisionsAssumption, DecisionsInv, NEW c \in DecideCall, Dec!Lose(c)
  PROVE  DecisionsInv'
<1> USE DEF DecisionsInv
<1>1. ServiceHolds' /\ VerdictsGrow BY ServiceStays, VerdictsGrowAsIs DEF Dec!Lose
<1>2. call[c] \in Dec!Doing /\ DecideFits(call[c], DOMAIN verdict) BY DecideAtWork DEF Dec!Lose
<1>3. items' \in DecideLists BY DEF Dec!Lose, Dec!disk, ClientHolds
<1>4. view' \in [items : DecideLists, busy : SUBSET Memory] /\ CallsAreSet(c, None)
  BY <1>3, LeavesHolds DEF Dec!Lose
<1>5. DecideCallsHold' BY <1>1, <1>4, CallEnds
<1>6. stray' \subseteq DOMAIN verdict
  BY <1>2 DEF Dec!Lose, ClientHolds, DecideFits
<1>7. ClientHolds' BY <1>3, <1>4, <1>6 DEF Dec!Lose, ClientHolds, Dec!disk
<1> QED BY <1>1, <1>5, <1>7

LEMMA DecideLateHolds ==
  ASSUME Dec!DecisionsAssumption, DecisionsInv, NEW k, Dec!Late(k)
  PROVE  /\ DecisionsInv' /\ expired' = expired /\ k \in DOMAIN verdict
         /\ \A m \in Memory : fact[m].version <= fact'[m].version
<1> USE DEF DecisionsInv
<1>1. k \in DOMAIN verdict BY DEF Dec!Late, ClientHolds
<1>2. /\ ServiceHolds' /\ VerdictsGrow /\ expired' = expired
      /\ \A m \in Memory : fact[m].version <= fact'[m].version
  BY <1>1, DecideHandleHolds, VerdictsGrowAsIs DEF Dec!Late
<1>3. DecideCallsHold' BY <1>2, AllStay DEF Dec!Late
<1>4. ClientHolds' BY DEF Dec!Late, ClientHolds, Dec!disk
<1> QED BY <1>1, <1>2, <1>3, <1>4

LEMMA DecideRestartHolds ==
  ASSUME Dec!DecisionsAssumption, DecisionsInv, Dec!Restart PROVE DecisionsInv'
<1> USE DEF DecisionsInv
<1>1. ServiceHolds' BY ServiceStays DEF Dec!Restart
<1>2. DecideCallsHold' BY DEF Dec!Restart, DecideCallsHold, DecideCallFits
<1>3. stray' \subseteq DOMAIN verdict BY DEF Dec!Restart, ClientHolds, DecideCallsHold,
                                             DecideCallFits, DecideFits, Dec!Working
<1>4. view' \in [items : DecideLists, busy : SUBSET Memory] BY DEF Dec!Restart, ClientHolds
<1>5. ClientHolds' BY <1>3, <1>4 DEF Dec!Restart, ClientHolds, Dec!disk
<1> QED BY <1>1, <1>2, <1>5

LEMMA ElsewhereHolds ==
  ASSUME Dec!DecisionsAssumption, DecisionsInv, NEW m \in Memory, Dec!Elsewhere(m)
  PROVE  /\ DecisionsInv' /\ expired' = expired
         /\ \A x \in Memory : fact[x].version <= fact'[x].version
         /\ \A x \in Memory : fact'[x].status = "elsewhere" \/ fact'[x] = fact[x]
<1> USE DEF DecisionsInv
<1>1. fact[m] \in DecideRows /\ fact[m].version = 1 /\ fact \in DecideLists
  BY DEF Dec!Elsewhere, ServiceHolds, DecideLists, DecideRows
<1> DEFINE row == [version |-> fact[m].version + 1, status |-> "elsewhere"]
<1>2. row \in DecideRows /\ row.status = "elsewhere" /\ row.version = 2
  BY <1>1 DEF DecideRows, Dec!Item, Dec!Elsewhere, Dec!DecisionsAssumption, ClientHolds
<1>3. fact' = [fact EXCEPT ![m] = row] BY <1>1 DEF Dec!Elsewhere, DecideLists
<1> HIDE DEF row
<1>4. fact' \in DecideLists /\ fact'[m] = row /\ \A x \in Memory : x # m => fact'[x] = fact[x]
  BY <1>1, <1>2, <1>3 DEF DecideLists
<1>5. \A x \in DOMAIN receipt : verdict[x].memory # m
  BY AfterIsRow DEF Dec!Elsewhere, ServiceHolds
<1>6. ServiceHolds'
  <2>1. verdict' = verdict /\ receipt' = receipt /\ \A x : Dec!After(x)' = Dec!After(x)
    BY DEF Dec!Elsewhere, Dec!After
  <2>2. \A x \in DOMAIN receipt : verdict[x].memory \in Memory BY KeyIsOne DEF ServiceHolds
  <2> QED BY <1>4, <1>5, <2>1, <2>2 DEF ServiceHolds
<1>7. DecideCallsHold' BY <1>6, AllStay, VerdictsGrowAsIs DEF Dec!Elsewhere
<1>8. ClientHolds' BY DEF Dec!Elsewhere, ClientHolds, Dec!disk
<1>9. \A x \in Memory : fact[x].version <= fact'[x].version
  BY <1>1, <1>2, <1>4 DEF DecideLists, DecideRows, Dec!Item
<1> QED BY <1>2, <1>4, <1>6, <1>7, <1>8, <1>9 DEF Dec!Elsewhere

LEMMA ExpiresHolds ==
  ASSUME Dec!DecisionsAssumption, DecisionsInv, NEW m \in Memory, Dec!Expires(m) PROVE DecisionsInv'
<1> USE DEF DecisionsInv
<1>1. ServiceHolds' BY DEF Dec!Expires, ServiceHolds, Dec!After
<1>2. DecideCallsHold' BY <1>1, AllStay, VerdictsGrowAsIs DEF Dec!Expires
<1>3. ClientHolds' BY DEF Dec!Expires, ClientHolds, Dec!disk
<1> QED BY <1>1, <1>2, <1>3

LEMMA StutterHolds == ASSUME DecisionsInv, UNCHANGED Dec!vars PROVE DecisionsInv'
BY DEF Dec!vars, DecisionsInv, ServiceHolds, ClientHolds, DecideCallsHold, DecideCallFits,
       Dec!service, Dec!disk, Dec!After

LEMMA DecisionsGoOn == ASSUME Dec!DecisionsAssumption, DecisionsInv, [Dec!Next]_(Dec!vars)
                       PROVE  DecisionsInv'
<1>1. ASSUME NEW c \in DecideCall, Dec!CallStep(c) PROVE DecisionsInv'
  BY <1>1, ReadItemsHolds, WriteItemsHolds, ConflictHolds, ReloadedHolds, ListedHolds,
     DecideServeHolds
  DEF Dec!CallStep
<1> QED
  BY <1>1, DecideLoseHolds, DecideRefreshHolds, RefreshMemoriesHolds, DecideHolds, DecideLateHolds,
     ElsewhereHolds,
     ExpiresHolds, DecideRestartHolds, StutterHolds DEF Dec!Next

\* The invariant, for any number of calls at once.
THEOREM DecisionsHold == ASSUME Dec!DecisionsAssumption PROVE Dec!Spec => []DecisionsInv
<1>1. Dec!Init => DecisionsInv BY DecisionsBegin
<1>2. DecisionsInv /\ [Dec!Next]_(Dec!vars) => DecisionsInv' BY DecisionsGoOn
<1> QED BY <1>1, <1>2, PTL DEF Dec!Spec

-----------------------------------------------------------------------------
(* Decided as given, and busy while deciding: with any number of calls       *)

LEMMA ReceiptsDecide ==
  ASSUME Dec!DecisionsAssumption, ServiceHolds, Dec!DecidedAsGiven, NEW k \in DOMAIN verdict,
         Dec!Handle(k),
         UNCHANGED verdict
  PROVE  Dec!DecidedAsGiven'
<1> SUFFICES ASSUME NEW m \in Memory, fact'[m].status = "approved"
             PROVE  \E x \in DOMAIN receipt' : /\ verdict'[x].memory = m /\ verdict'[x].approved
                                               /\ fact'[m].version = verdict'[x].expected + 1
  BY DEF Dec!DecidedAsGiven
<1>1. CASE UNCHANGED Dec!service BY <1>1 DEF Dec!DecidedAsGiven, Dec!service
<1>2. CASE /\ fact' = [fact EXCEPT ![verdict[k].memory] = Dec!After(k)]
           /\ receipt' = [x \in DOMAIN receipt \cup {k} |-> IF x = k THEN Dec!After(k) ELSE receipt[x]]
  <2>1. fact \in DecideLists /\ verdict[k] \in Verdict /\ verdict[k].memory \in Memory
    BY KeyIsOne DEF ServiceHolds
  <2>2. CASE m = verdict[k].memory
    <3>1. fact'[m] = Dec!After(k) BY <1>2, <2>1, <2>2 DEF DecideLists
    <3>2. verdict[k].approved /\ fact'[m].version = verdict[k].expected + 1
      BY <3>1, AfterIsRow DEF Dec!After
    <3>3. k \in DOMAIN receipt' BY <1>2
    <3> QED BY <2>2, <3>2, <3>3
  <2>3. CASE m # verdict[k].memory
    <3>1. fact'[m] = fact[m] BY <1>2, <2>1, <2>3 DEF DecideLists
    <3>2. DOMAIN receipt \subseteq DOMAIN receipt' BY <1>2
    <3> QED BY <3>1, <3>2 DEF Dec!DecidedAsGiven
  <2> QED BY <2>2, <2>3
<1> QED BY <1>1, <1>2 DEF Dec!Handle

LEMMA DecidedStays ==
  ASSUME ServiceHolds, Dec!DecidedAsGiven, VerdictsGrow, UNCHANGED Dec!service
  PROVE  Dec!DecidedAsGiven'
BY DEF Dec!DecidedAsGiven, VerdictsGrow, Dec!service, ServiceHolds

LEMMA DecidedGoesOn ==
  ASSUME Dec!DecisionsAssumption, DecisionsInv, Dec!DecidedAsGiven, [Dec!Next]_(Dec!vars)
  PROVE  Dec!DecidedAsGiven'
<1> USE DEF DecisionsInv
<1>1. ASSUME NEW c \in DecideCall, Dec!Serve(c) PROVE Dec!DecidedAsGiven'
  <2>1. CASE call[c].stage = "posting"
    <3>1. call[c].key \in DOMAIN verdict BY <1>1, <2>1, DecideAtWork DEF DecideFits, Dec!Serve
    <3> QED BY <1>1, <2>1, <3>1, ReceiptsDecide DEF Dec!Serve
  <2>2. CASE call[c].stage # "posting" BY <1>1, <2>2, DecidedStays, VerdictsGrowAsIs DEF Dec!Serve
  <2> QED BY <2>1, <2>2
<1>2. ASSUME NEW k, Dec!Late(k) PROVE Dec!DecidedAsGiven'
  BY <1>2, DecideLateHolds, ReceiptsDecide DEF Dec!Late
<1>3. ASSUME NEW m \in Memory, Dec!Elsewhere(m) PROVE Dec!DecidedAsGiven'
  BY <1>3, ElsewhereHolds DEF Dec!Elsewhere, Dec!DecidedAsGiven
<1>4. ASSUME NEW c \in DecideCall, NEW m \in Memory, NEW approved \in BOOLEAN, Dec!Decide(c, m,
             approved)
      PROVE Dec!DecidedAsGiven'
  <2>1. UNCHANGED Dec!service BY <1>4 DEF Dec!Decide
  <2> QED BY <1>4, <2>1, DecideHolds, DecidedStays
<1>5. CASE UNCHANGED <<Dec!service, verdict>> BY <1>5, DecidedStays, VerdictsGrowAsIs
<1>6. ASSUME NEW c \in DecideCall, Dec!CallStep(c) PROVE Dec!DecidedAsGiven'
  BY <1>1, <1>5, <1>6 DEF Dec!CallStep, Dec!ReadItems, Dec!WriteItems, Dec!Conflict, Dec!Reloaded,
                          Dec!Listed
<1>7. ASSUME NEW c \in DecideCall, Dec!Lose(c) \/ Dec!Refresh(c) \/ Dec!RefreshMemories(c)
      PROVE  Dec!DecidedAsGiven'
  BY <1>5, <1>7 DEF Dec!Lose, Dec!Refresh, Dec!RefreshMemories
<1>8. ASSUME NEW m \in Memory, Dec!Expires(m) PROVE Dec!DecidedAsGiven'
  BY <1>8 DEF Dec!Expires, Dec!DecidedAsGiven
<1>9. CASE Dec!Restart \/ UNCHANGED Dec!vars BY <1>5, <1>9 DEF Dec!Restart, Dec!vars
<1> QED BY <1>2, <1>3, <1>4, <1>6, <1>7, <1>8, <1>9 DEF Dec!Next

Deciding(c) == call[c] # None /\ call[c].kind = "decide"
DecidesOn(c) == verdict[call[c].key].memory
Apart == \A c, d \in DecideCall : Deciding(c) /\ Deciding(d) /\ DecidesOn(c) = DecidesOn(d) => c = d
BusyInv == Dec!BusyIsDeciding /\ Apart

\* A call that decides goes on with its key, one that does not still does not.
SameDecisions(c) == (Deciding(c)' <=> Deciding(c)) /\ (Deciding(c) => call'[c].key = call[c].key)

LEMMA BusyIs ==
  Dec!BusyIsDeciding <=> \A m : m \in view.busy <=> \E c \in DecideCall : Deciding(c) /\ DecidesOn(c) = m
BY DEF Dec!BusyIsDeciding, Deciding, DecidesOn

LEMMA DecidesOnStays ==
  ASSUME Dec!DecisionsAssumption, DecisionsInv, VerdictsGrow, NEW c \in DecideCall, Deciding(c),
         SameDecisions(c)
  PROVE  DecidesOn(c)' = DecidesOn(c)
<1>1. call[c].key \in DOMAIN verdict BY DecideAtWork DEF DecisionsInv, Deciding, DecideFits
<1> QED BY <1>1 DEF VerdictsGrow, DecidesOn, SameDecisions

LEMMA BusyStays ==
  ASSUME Dec!DecisionsAssumption, DecisionsInv, BusyInv, VerdictsGrow, view'.busy = view.busy,
         \A c \in DecideCall : SameDecisions(c)
  PROVE  BusyInv'
<1>1. \A c \in DecideCall : Deciding(c) => DecidesOn(c)' = DecidesOn(c) BY DecidesOnStays
<1>2. \A c \in DecideCall : Deciding(c)' <=> Deciding(c) BY DEF SameDecisions
<1>3. Apart' BY <1>1, <1>2 DEF Apart, BusyInv
<1>4. \A m : m \in view'.busy <=> \E c \in DecideCall : Deciding(c)' /\ DecidesOn(c)' = m
  BY <1>1, <1>2, BusyIs DEF BusyInv
<1>5. Dec!BusyIsDeciding' BY <1>4 DEF Dec!BusyIsDeciding, Deciding, DecidesOn
<1> QED BY <1>3, <1>5 DEF BusyInv

LEMMA BusyLeaves ==
  ASSUME Dec!DecisionsAssumption, DecisionsInv, BusyInv, UNCHANGED verdict, NEW c \in DecideCall,
         Dec!Leaves(c),
         call[c] # None
  PROVE  BusyInv'
<1>1. \A x \in DecideCall : x # c => SameDecisions(x)
  BY DEF SameDecisions, Deciding, Dec!Leaves, DecisionsInv, DecideCallsHold
<1>2. ~Deciding(c)' BY DEF Deciding, Dec!Leaves, DecisionsInv, DecideCallsHold
<1>3. VerdictsGrow BY VerdictsGrowAsIs DEF DecisionsInv
<1>4. \A x \in DecideCall : x # c /\ Deciding(x) => DecidesOn(x)' = DecidesOn(x)
  BY <1>1, <1>3, DecidesOnStays
<1>5. \A x \in DecideCall : Deciding(x)' <=> x # c /\ Deciding(x) BY <1>1, <1>2 DEF SameDecisions
<1>6. Apart' BY <1>4, <1>5 DEF Apart, BusyInv
<1>7. view'.busy = IF Deciding(c) THEN view.busy \ {DecidesOn(c)} ELSE view.busy
  BY DEF Dec!Leaves, Deciding, DecidesOn
<1>8. \A m : m \in view'.busy <=> \E x \in DecideCall : x # c /\ Deciding(x) /\ DecidesOn(x) = m
  <2>1. CASE Deciding(c) BY <1>7, <2>1, BusyIs DEF BusyInv, Apart
  <2>2. CASE ~Deciding(c) BY <1>7, <2>2, BusyIs DEF BusyInv
  <2> QED BY <2>1, <2>2
<1>9. \A m : m \in view'.busy <=> \E x \in DecideCall : Deciding(x)' /\ DecidesOn(x)' = m
  BY <1>4, <1>5, <1>8
<1>10. Dec!BusyIsDeciding' BY <1>9 DEF Dec!BusyIsDeciding, Deciding, DecidesOn
<1> QED BY <1>6, <1>10 DEF BusyInv

\* A call goes on with its key, or does not decide.
LEMMA SameSet ==
  ASSUME DecideCallsHold, NEW c \in DecideCall, NEW w, CallsAreSet(c, w), w # None,
         \/ call[c] # None /\ w.kind = call[c].kind /\ w.key = call[c].key
         \/ ~Deciding(c) /\ w.kind # "decide"
  PROVE  \A x \in DecideCall : SameDecisions(x)
<1>1. call'[c] = w /\ \A x \in DecideCall : x # c => call'[x] = call[x] BY
  DEF CallsAreSet, DecideCallsHold
<1>2. SameDecisions(c) BY <1>1 DEF SameDecisions, Deciding
<1>3. \A x \in DecideCall : x # c => SameDecisions(x) BY <1>1 DEF SameDecisions, Deciding
<1> QED BY <1>2, <1>3

LEMMA BusyDecides ==
  ASSUME Dec!DecisionsAssumption, DecisionsInv, BusyInv, VerdictsGrow, NEW c \in DecideCall,
         call[c] = None,
         DOMAIN verdict' \in SUBSET Nat, NEW k \in DOMAIN verdict',
         CallsAreSet(c, Starts("decide", "posting", k)),
         NEW m \in Memory, verdict'[k].memory = m, m \notin view.busy,
         view' = [view EXCEPT !.busy = @ \cup {m}]
  PROVE  BusyInv'
<1> DEFINE w == Starts("decide", "posting", k)
<1>1. w = [kind |-> "decide", stage |-> "posting", key |-> k, todo |-> <<>>, list |-> <<>>,
           answer |-> None]
  BY DEF Starts, Dec!Fresh
<1>2. w.kind = "decide" /\ w.key = k BY <1>1
<1>3. w # None
  <2>1. w \in Dec!Doing BY StartIsRight
  <2> QED BY <2>1 DEF Dec!DecisionsAssumption
<1> HIDE DEF w
<1>4. call'[c] = w /\ \A x \in DecideCall : x # c => call'[x] = call[x]
  BY DEF CallsAreSet, DecisionsInv, DecideCallsHold, w
<1>5. Deciding(c)' /\ DecidesOn(c)' = m /\ ~Deciding(c) BY <1>2, <1>3, <1>4 DEF Deciding, DecidesOn
<1>6. \A x \in DecideCall : x # c => SameDecisions(x) BY <1>4 DEF SameDecisions, Deciding
<1>7. \A x \in DecideCall : x # c /\ Deciding(x) => DecidesOn(x)' = DecidesOn(x)
  BY <1>6, DecidesOnStays
<1>8. \A x \in DecideCall : x # c => (Deciding(x)' <=> Deciding(x)) BY <1>6 DEF SameDecisions
<1>9. \A x \in DecideCall : Deciding(x) => DecidesOn(x) # m BY BusyIs DEF BusyInv
<1>10. Apart' BY <1>5, <1>7, <1>8, <1>9 DEF Apart, BusyInv
<1>11. view'.busy = view.busy \cup {m} BY DEF DecisionsInv, ClientHolds
<1>12. \A x : x \in view'.busy <=> \E d \in DecideCall : Deciding(d)' /\ DecidesOn(d)' = x
  BY <1>5, <1>7, <1>8, <1>11, BusyIs DEF BusyInv
<1>13. Dec!BusyIsDeciding' BY <1>12 DEF Dec!BusyIsDeciding, Deciding, DecidesOn
<1> QED BY <1>10, <1>13 DEF BusyInv

LEMMA BusyWhileDeciding ==
  ASSUME Dec!DecisionsAssumption, DecisionsInv, BusyInv, NEW c \in DecideCall, NEW m \in Memory,
         NEW approved \in BOOLEAN, Dec!Decide(c, m, approved)
  PROVE  BusyInv'
<1> DEFINE body == [memory |-> m, approved |-> approved, expected |-> view.items[m].version]
<1>0. DecisionsInv' /\ VerdictsGrow BY DecideHolds
<1>1. DOMAIN verdict' \in SUBSET Nat BY <1>0, KeysAreFinite DEF DecisionsInv, ServiceHolds
<1>2. CASE /\ Len(verdict) < DecideKeys /\ verdict' = Append(verdict, body)
           /\ call' = [call EXCEPT ![c] = [Dec!Fresh("decide", "posting") EXCEPT !.key = Len(verdict')]]
           /\ view' = [view EXCEPT !.busy = @ \cup {m}]
           /\ m \notin view.busy /\ call[c] = None
  <2>1. body.memory = m OBVIOUS
  <2> HIDE DEF body
  <2>2. verdict \in Seq(Verdict) BY DEF DecisionsInv, ServiceHolds
  <2>3. Len(verdict') \in DOMAIN verdict' /\ verdict'[Len(verdict')] = body
    BY <1>2, <2>2
  <2>4. CallsAreSet(c, Starts("decide", "posting", Len(verdict'))) BY <1>2 DEF CallsAreSet, Starts
  <2> QED BY <1>0, <1>1, <1>2, <2>1, <2>3, <2>4, BusyDecides
<1>3. CASE /\ op[m] # None /\ verdict[op[m]] = body /\ UNCHANGED <<verdict, op>>
           /\ call' = [call EXCEPT ![c] = [Dec!Fresh("decide", "posting") EXCEPT !.key = op[m]]]
           /\ view' = [view EXCEPT !.busy = @ \cup {m}]
           /\ m \notin view.busy /\ call[c] = None
  <2>1. op[m] \in DOMAIN verdict' /\ verdict'[op[m]].memory = m
    BY <1>3 DEF DecisionsInv, ClientHolds
  <2>2. CallsAreSet(c, Starts("decide", "posting", op[m])) BY <1>3 DEF CallsAreSet, Starts
  <2> QED BY <1>0, <1>1, <1>3, <2>1, <2>2, BusyDecides
<1>4. CASE UNCHANGED <<verdict, op, call>> /\ view' = [view EXCEPT !.items = items]
  <2>1. view'.busy = view.busy BY <1>4 DEF DecisionsInv, ClientHolds
  <2>2. \A x \in DecideCall : SameDecisions(x) BY <1>4 DEF SameDecisions, Deciding
  <2> QED BY <1>0, <2>1, <2>2, BusyStays
<1> QED BY <1>2, <1>3, <1>4 DEF Dec!Decide

LEMMA BusyWhileCalling ==
  ASSUME Dec!DecisionsAssumption, DecisionsInv, BusyInv, NEW c \in DecideCall,
         Dec!CallStep(c) \/ Dec!Lose(c)
  PROVE  BusyInv'
<1> USE DEF DecisionsInv
<1>1. CASE Dec!ReadItems(c) \/ Dec!Conflict(c)
  <2> DEFINE r == [call[c] EXCEPT !.stage = "merging", !.list = items]
             q == [call[c] EXCEPT !.stage = "reloading", !.answer = None]
  <2>1. call[c] \in Dec!Doing /\ call[c] # None BY <1>1, DecideAtWork
    DEF Dec!ReadItems, Dec!Conflict, Dec!Working
  <2>2. r.kind = call[c].kind /\ r.key = call[c].key /\ q.kind = call[c].kind /\ q.key = call[c].key
    BY <2>1 DEF Dec!Doing
  <2>3. CASE Dec!ReadItems(c)
    <3>1. call'[c] = r /\ \A x \in DecideCall : x # c => call'[x] = call[x]
      BY <2>3 DEF Dec!ReadItems, DecideCallsHold
    <3>2. DecisionsInv' BY <2>3, ReadItemsHolds
    <3>3. r # None
      <4>1. items \in [Memory -> Dec!Item] BY ListsAreReplies DEF ClientHolds
      <4>2. r \in Dec!Doing BY <2>1, <4>1 DEF Dec!Doing
      <4> QED BY <4>2 DEF Dec!DecisionsAssumption
    <3> HIDE DEF r
    <3>4. \A x \in DecideCall : SameDecisions(x) BY <2>1, <2>2, <3>1, <3>3
      DEF SameDecisions, Deciding
    <3> QED BY <2>3, <3>4, BusyStays, VerdictsGrowAsIs DEF Dec!ReadItems
  <2>4. CASE Dec!Conflict(c)
    <3>1. call'[c] = q /\ \A x \in DecideCall : x # c => call'[x] = call[x]
      BY <2>4 DEF Dec!Conflict, DecideCallsHold
    <3>2. q # None
      <4>1. q \in Dec!Doing BY <2>1 DEF Dec!Doing
      <4> QED BY <4>1 DEF Dec!DecisionsAssumption
    <3> HIDE DEF q
    <3>3. \A x \in DecideCall : SameDecisions(x) BY <2>1, <2>2, <3>1, <3>2
      DEF SameDecisions, Deciding
    <3> QED BY <2>4, <3>3, BusyStays, VerdictsGrowAsIs DEF Dec!Conflict
  <2> QED BY <1>1, <2>3, <2>4
<1>2. CASE Dec!WriteItems(c)
  <2>1. call[c] # None /\ UNCHANGED verdict BY <1>2 DEF Dec!WriteItems, Dec!Working
  <2>2. CASE call[c].kind = "refresh"
    <3>1. CallsAreSet(c, Dec!Sending(call[c].todo)) /\ UNCHANGED view BY <1>2, <2>2
      DEF Dec!WriteItems, CallsAreSet
    <3>2. /\ call[c].todo \in Seq(Nat) /\ DOMAIN verdict \in SUBSET Nat
          /\ \A n \in DOMAIN call[c].todo : call[c].todo[n] \in DOMAIN verdict
      BY <2>1, DecideAtWork, KeysAreFinite DEF DecideFits, Dec!Doing
    <3>3. Dec!Sending(call[c].todo) \in Dec!Doing /\ Dec!Sending(call[c].todo).kind = "refresh"
      BY <3>2, SendingIsRight
    <3>4. Dec!Sending(call[c].todo) # None BY <3>3 DEF Dec!DecisionsAssumption
    <3>5. \A x \in DecideCall : SameDecisions(x) BY <2>2, <3>1, <3>3, <3>4, SameSet DEF Deciding
    <3> QED BY <2>1, <3>1, <3>5, BusyStays, VerdictsGrowAsIs
  <2>3. CASE call[c].kind # "refresh" BY <1>2, <2>1, <2>3, BusyLeaves DEF Dec!WriteItems
  <2> QED BY <2>2, <2>3
<1>3. CASE Dec!Reloaded(c) BY <1>3, BusyLeaves DEF Dec!Reloaded, Dec!Working
<1>4. CASE Dec!Lose(c) BY <1>4, BusyLeaves DEF Dec!Lose
<1>5. CASE Dec!Listed(c)
  <2>1. call[c] # None /\ call[c].kind # "decide"
    BY <1>5, DecideAtWork DEF Dec!Listed, Dec!Working, DecideFits
  <2>2. \A x \in DecideCall : SameDecisions(x) BY <1>5, <2>1
    DEF Dec!Listed, SameDecisions, Deciding, DecideCallsHold
  <2>3. view'.busy = view.busy BY <1>5 DEF Dec!Listed, ClientHolds
  <2> QED BY <1>5, <2>2, <2>3, BusyStays, VerdictsGrowAsIs DEF Dec!Listed
<1>6. CASE Dec!Serve(c)
  <2>1. PICK a \in Dec!Reply : call' = [call EXCEPT ![c].answer = a]
    <3>1. CASE call[c].stage = "posting"
      <4>1. call[c].key \in DOMAIN verdict BY <1>6, <3>1, DecideAtWork DEF DecideFits, Dec!Serve
      <4>2. Dec!Answer(call[c].key) \in Dec!Reply BY <4>1, AnswerIsRight, RowsAreItems DEF Dec!Reply
      <4> QED BY <1>6, <3>1, <4>2 DEF Dec!Serve
    <3>2. CASE call[c].stage # "posting"
      BY <1>6, <3>2, ListsAreReplies DEF Dec!Serve, ServiceHolds
    <3> QED BY <3>1, <3>2
  <2> DEFINE w == [call[c] EXCEPT !.answer = a]
  <2>2. call[c] \in Dec!Doing /\ call[c] # None BY <1>6, DecideAtWork DEF Dec!Serve
  <2>3. w \in Dec!Doing /\ w.kind = call[c].kind /\ w.key = call[c].key BY <2>2 DEF Dec!Doing
  <2>4. call'[c] = w /\ \A x \in DecideCall : x # c => call'[x] = call[x]
    BY <2>1 DEF DecideCallsHold
  <2> HIDE DEF w
  <2>5. w # None BY <2>3 DEF Dec!DecisionsAssumption
  <2>6. \A x \in DecideCall : SameDecisions(x) BY <2>2, <2>3, <2>4, <2>5 DEF SameDecisions, Deciding
  <2>7. view' = view /\ VerdictsGrow BY <1>6, DecideServeHolds DEF Dec!Serve
  <2> QED BY <2>6, <2>7, BusyStays
<1> QED BY <1>1, <1>2, <1>3, <1>4, <1>5, <1>6 DEF Dec!CallStep

LEMMA BusyGoesOn ==
  ASSUME Dec!DecisionsAssumption, DecisionsInv, BusyInv, [Dec!Next]_(Dec!vars) PROVE BusyInv'
<1> USE DEF DecisionsInv
<1>1. ASSUME NEW c \in DecideCall, Dec!Refresh(c) PROVE BusyInv'
  <2>1. PICK todo \in Dec!Orders : CallsAreSet(c, Dec!Sending(todo)) BY <1>1
    DEF Dec!Refresh, CallsAreSet
  <2>2. DOMAIN verdict \in SUBSET Nat BY KeysAreFinite
  <2>3. Dec!Sending(todo) \in Dec!Doing /\ Dec!Sending(todo).kind = "refresh"
    BY <2>2, OrdersAreKeys, SendingIsRight
  <2>4. Dec!Sending(todo) # None BY <2>3 DEF Dec!DecisionsAssumption
  <2>5. \A x \in DecideCall : SameDecisions(x) BY <1>1, <2>1, <2>3, <2>4, SameSet
    DEF Deciding, Dec!Refresh
  <2> QED BY <1>1, <2>5, BusyStays, VerdictsGrowAsIs DEF Dec!Refresh
<1>2. ASSUME NEW c \in DecideCall, Dec!RefreshMemories(c) PROVE BusyInv'
  <2>1. CallsAreSet(c, Dec!Fresh("list", "listing")) BY <1>2 DEF Dec!RefreshMemories, CallsAreSet
  <2>2. Dec!Fresh("list", "listing").kind = "list" BY DEF Dec!Fresh
  <2>3. Dec!Fresh("list", "listing") # None
    <3>1. Starts("list", "listing", None) = Dec!Fresh("list", "listing") BY DEF Starts, Dec!Fresh
    <3>2. Starts("list", "listing", None) \in Dec!Doing BY KeysAreFinite, StartIsRight
    <3> QED BY <3>1, <3>2 DEF Dec!DecisionsAssumption
  <2>4. \A x \in DecideCall : SameDecisions(x) BY <1>2, <2>1, <2>2, <2>3, SameSet
    DEF Deciding, Dec!RefreshMemories
  <2> QED BY <1>2, <2>4, BusyStays, VerdictsGrowAsIs DEF Dec!RefreshMemories
<1>3. CASE Dec!Restart BY <1>3 DEF Dec!Restart, BusyInv, Dec!BusyIsDeciding, Apart, Deciding
<1>4. CASE UNCHANGED <<call, view, verdict>>
  <2>1. \A x \in DecideCall : SameDecisions(x) BY <1>4 DEF SameDecisions, Deciding
  <2> QED BY <1>4, <2>1, BusyStays, VerdictsGrowAsIs
<1>5. CASE UNCHANGED Dec!vars \/ \E m \in Memory : Dec!Elsewhere(m) \/ Dec!Expires(m)
  BY <1>4, <1>5 DEF Dec!vars, Dec!Elsewhere, Dec!Expires
<1>6. CASE \E k \in stray : Dec!Late(k) BY <1>4, <1>6 DEF Dec!Late
<1> QED BY <1>1, <1>2, <1>3, <1>5, <1>6, BusyWhileDeciding, BusyWhileCalling DEF Dec!Next

LEMMA GivenBegins ==
  ASSUME Dec!DecisionsAssumption, Dec!Init PROVE DecisionsInv /\ Dec!DecidedAsGiven /\ BusyInv
BY DecisionsBegin
DEF Dec!Init, Dec!DecidedAsGiven, BusyInv, Dec!BusyIsDeciding, Apart, Deciding

\* For any number of calls: the service approves only what the user has approved, on the
\* version he saw, and a memory is busy exactly while a call decides on it
\* (repository.decideMemory; view_model.decide).
THEOREM VerdictsAreGiven ==
  ASSUME Dec!DecisionsAssumption
  PROVE  Dec!Spec => [](DecisionsInv /\ Dec!DecidedAsGiven /\ Dec!BusyIsDeciding)
<1> DEFINE I == DecisionsInv /\ Dec!DecidedAsGiven /\ BusyInv
<1>1. Dec!Init => I BY GivenBegins
<1>2. I /\ [Dec!Next]_(Dec!vars) => I' BY DecisionsGoOn, DecidedGoesOn, BusyGoesOn
<1>3. I => DecisionsInv /\ Dec!DecidedAsGiven /\ Dec!BusyIsDeciding BY DEF BusyInv
<1> HIDE DEF I
<1> QED BY <1>1, <1>2, <1>3, PTL DEF Dec!Spec

-----------------------------------------------------------------------------
(* Not lost, and stored: while calls do not overlap                          *)

OneDecideCall == \A c, d \in DecideCall : c = d

MemoryOf(k) == verdict[k].memory

\* The service does not take the verdict any more.
VerdictOver(k) == fact[MemoryOf(k)].version = 2 \/ (verdict[k].approved /\ MemoryOf(k) \in expired)

VerdictStored(k) ==
  items[MemoryOf(k)].version = 2 \/ op[MemoryOf(k)] = k \/ (verdict[k].approved /\ MemoryOf(k) \in expired)

\* What the call is at is pending, and what it has been told still holds.
KeptIn(w) ==
  /\ \A i, j \in DOMAIN w.todo : w.todo[i] = w.todo[j] => i = j
  /\ \A n \in DOMAIN w.todo : op[MemoryOf(w.todo[n])] = w.todo[n]
  /\ w.stage # "listing" => op[MemoryOf(w.key)] = w.key /\ \A n \in DOMAIN w.todo : w.todo[n] # w.key
  /\ w.stage \in {"merging", "reloading"} => w.key \in told
  /\ w.stage = "posting" /\ w.answer = Dec!Contradicted => VerdictOver(w.key)
  /\ w.stage = "posting" /\ w.answer \notin {None, Dec!Contradicted} =>
       w.answer.version = 2 /\ fact[MemoryOf(w.key)].version = 2
  /\ w.stage = "merging" =>
       w.list = items /\ w.answer.version = 2 /\ fact[MemoryOf(w.key)].version = 2
  /\ w.stage = "reloading" =>
       /\ VerdictOver(w.key)
       /\ w.answer # None => \/ w.answer[MemoryOf(w.key)].version = 2
                             \/ (verdict[w.key].approved /\ MemoryOf(w.key) \in expired)
  /\ w.stage \in {"reloading", "listing"} /\ w.answer # None =>
       \A m \in Memory : items[m].version <= w.answer[m].version /\ w.answer[m].version <= fact[m].version

KeptInv ==
  /\ Dec!VerdictIsNotLost
  /\ \A k \in told : VerdictStored(k)
  /\ \A m \in Memory : items[m].version <= fact[m].version
  /\ \A c \in DecideCall : call[c] # None => KeptIn(call[c])

AloneInv == DecisionsInv /\ KeptInv

LEMMA Versions ==
  /\ \A l \in DecideLists, m \in Memory : l[m] \in DecideRows /\ l[m].version \in {1, 2}
  /\ \A i \in DecideRows : i.version \in {1, 2} /\ (i.status # "pending" => i.version = 2)
BY DEF DecideLists, DecideRows

\* The service moves, and nothing of the client does.
LEMMA ServiceMoves ==
  ASSUME AloneInv, DecisionsInv', UNCHANGED <<items, op, told, call, verdict>>,
         \A m \in Memory : fact[m].version <= fact'[m].version, expired \subseteq expired'
  PROVE  KeptInv'
<1> USE DEF AloneInv, DecisionsInv
<1>1. \A m \in Memory : fact[m].version \in {1, 2} /\ fact'[m].version \in {1, 2} /\ items[m].version \in {1, 2}
  BY Versions DEF ServiceHolds, ClientHolds
<1>2. \A k \in DOMAIN verdict : MemoryOf(k) \in Memory /\ verdict[k].expected = 1 /\ MemoryOf(k)' = MemoryOf(k)
  BY KeyIsOne DEF MemoryOf
<1>3. \A k \in DOMAIN verdict : (VerdictOver(k) => VerdictOver(k)') /\ (VerdictStored(k) => VerdictStored(k)')
  BY <1>1, <1>2 DEF VerdictOver, VerdictStored
<1>4. Dec!VerdictIsNotLost' BY <1>1, <1>2 DEF KeptInv, Dec!VerdictIsNotLost, MemoryOf
<1>5. \A k \in told' : VerdictStored(k)' BY <1>3 DEF KeptInv, ClientHolds
<1>6. \A m \in Memory : items'[m].version <= fact'[m].version BY <1>1 DEF KeptInv
<1>7. ASSUME NEW c \in DecideCall, call'[c] # None PROVE KeptIn(call[c])'
  <2> DEFINE w == call[c]
  <2>1. KeptIn(w) /\ DecideFits(w, DOMAIN verdict) /\ w' = w BY <1>7
    DEF KeptInv, DecideCallsHold, DecideCallFits
  <2>2. \A n \in DOMAIN w.todo : MemoryOf(w.todo[n])' = MemoryOf(w.todo[n]) BY <1>2, <2>1
    DEF DecideFits
  <2>3. w.stage # "listing" => /\ w.key \in DOMAIN verdict /\ MemoryOf(w.key) \in Memory
                               /\ MemoryOf(w.key)' = MemoryOf(w.key)
                               /\ VerdictOver(w.key) => VerdictOver(w.key)'
    BY <1>2, <1>3, <2>1 DEF DecideFits
  <2>4. w.stage \in {"reloading", "listing"} /\ w.answer # None =>
          \A m \in Memory : w.answer[m].version \in {1, 2}
    BY <2>1, Versions DEF DecideFits
  <2> HIDE DEF w
  <2>5. /\ op' = op /\ items' = items /\ told' = told /\ verdict' = verdict
        /\ expired \subseteq expired'
    OBVIOUS
  <2>6. w.stage \in {"reloading", "listing"} /\ w.answer # None =>
          \A m \in Memory : items'[m].version <= w.answer[m].version /\ w.answer[m].version <= fact'[m].version
    BY <1>1, <2>1, <2>4, <2>5 DEF KeptIn
  <2>7. w.stage \in {"posting", "merging"} /\ fact[MemoryOf(w.key)].version = 2 => fact'[MemoryOf(w.key)].version = 2
    BY <1>1, <2>3
  <2>8. KeptIn(w)' BY <2>1, <2>2, <2>3, <2>5, <2>6, <2>7 DEF KeptIn
  <2> QED BY <2>8 DEF w
<1> QED BY <1>4, <1>5, <1>6, <1>7 DEF KeptInv

LEMMA AnswerSays ==
  ASSUME Dec!DecisionsAssumption, ServiceHolds, ServiceHolds', NEW k \in DOMAIN verdict,
         Dec!Handle(k),
         UNCHANGED verdict
  PROVE  /\ Dec!Answer(k) = Dec!Contradicted => VerdictOver(k)'
         /\ Dec!Answer(k) # Dec!Contradicted => Dec!Answer(k).version = 2 /\ fact'[MemoryOf(k)].version = 2
<1>1. verdict[k].memory \in Memory /\ verdict[k].expected = 1 BY KeyIsOne
<1>2. /\ Dec!After(k) \in DecideRows /\ Dec!After(k).version = 2 /\ Dec!After(k) # Dec!Contradicted
      /\ MemoryOf(k)' = verdict[k].memory /\ MemoryOf(k) = verdict[k].memory
  BY AfterIsRow DEF Dec!Contradicted, MemoryOf
<1>3. CASE Dec!Bound(k)
  <2>1. receipt[k] = Dec!After(k) /\ fact[verdict[k].memory] = Dec!After(k) /\ fact' = fact
    BY <1>3 DEF Dec!Bound, ServiceHolds, Dec!Handle, Dec!service
  <2> QED BY <1>2, <1>3, <2>1 DEF Dec!Answer
<1>4. CASE ~Dec!Bound(k) /\ Dec!Current(k)
  <2>1. fact' = [fact EXCEPT ![verdict[k].memory] = Dec!After(k)] BY <1>4 DEF Dec!Handle
  <2>2. fact'[verdict[k].memory] = Dec!After(k) BY <1>1, <2>1 DEF ServiceHolds, DecideLists
  <2> QED BY <1>2, <1>4, <2>2 DEF Dec!Answer
<1>5. CASE ~Dec!Bound(k) /\ ~Dec!Current(k)
  <2>1. fact' = fact /\ expired' = expired /\ Dec!Answer(k) = Dec!Contradicted
    BY <1>5 DEF Dec!Handle, Dec!service, Dec!Answer
  <2>2. fact[verdict[k].memory].version = 2 \/ (verdict[k].approved /\ verdict[k].memory \in expired)
    <3>1. fact[verdict[k].memory] \in DecideRows BY <1>1, Versions DEF ServiceHolds
    <3>2. fact[verdict[k].memory].version = 2 \/ /\ fact[verdict[k].memory].version = 1
                                                 /\ fact[verdict[k].memory].status = "pending"
      BY <3>1 DEF DecideRows
    <3>3. Dec!Current(k) <=> /\ fact[verdict[k].memory].version = 1
                         /\ fact[verdict[k].memory].status = "pending"
                         /\ ~(verdict[k].approved /\ verdict[k].memory \in expired)
      BY <1>1 DEF Dec!Current
    <3> QED BY <1>5, <3>2, <3>3
  <2> QED BY <1>2, <2>1, <2>2 DEF VerdictOver
<1> QED BY <1>3, <1>4, <1>5

LEMMA ServeStays ==
  ASSUME Dec!DecisionsAssumption, AloneInv, DecisionsInv', NEW c \in DecideCall, OneDecideCall,
         Dec!Serve(c)
  PROVE  KeptInv'
<1> USE DEF AloneInv, DecisionsInv
<1>0. /\ VerdictsGrow /\ expired' = expired /\ UNCHANGED <<items, op, told, verdict>>
      /\ \A m \in Memory : fact[m].version <= fact'[m].version
  BY DecideServeHolds DEF Dec!Serve, Dec!disk
<1>1. \A m \in Memory : fact[m].version \in {1, 2} /\ fact'[m].version \in {1, 2} /\ items[m].version \in {1, 2}
  BY Versions DEF ServiceHolds, ClientHolds
<1>2. \A k \in DOMAIN verdict : MemoryOf(k) \in Memory /\ verdict[k].expected = 1 /\ MemoryOf(k)' = MemoryOf(k)
  BY <1>0, KeyIsOne DEF MemoryOf
<1>3. \A k \in DOMAIN verdict : (VerdictOver(k) => VerdictOver(k)') /\ (VerdictStored(k) => VerdictStored(k)')
  BY <1>0, <1>1, <1>2 DEF VerdictOver, VerdictStored
<1>4. Dec!VerdictIsNotLost' BY <1>0, <1>1, <1>2 DEF KeptInv, Dec!VerdictIsNotLost, MemoryOf
<1>5. \A k \in told' : VerdictStored(k)' BY <1>0, <1>3 DEF KeptInv, ClientHolds
<1>6. \A m \in Memory : items'[m].version <= fact'[m].version BY <1>0, <1>1 DEF KeptInv
<1>7. call[c] # None BY DEF Dec!Serve
<1>8. call[c] \in Dec!Doing /\ DecideFits(call[c], DOMAIN verdict) BY <1>7, DecideAtWork
<1>9. KeptIn(call[c]) BY <1>7 DEF KeptInv
<1> DEFINE v == call[c]
<1>10. PICK k : k = v.key OBVIOUS
<1>12. CASE v.stage = "posting"
  <2>1. k \in DOMAIN verdict BY <1>8, <1>10, <1>12 DEF DecideFits
  <2>2. Dec!Handle(k) /\ call' = [call EXCEPT ![c].answer = Dec!Answer(k)] BY <1>10, <1>12
    DEF Dec!Serve
  <2>3. MemoryOf(k) \in Memory /\ MemoryOf(k)' = MemoryOf(k) BY <1>2, <2>1
  <2>4. v' = [v EXCEPT !.answer = Dec!Answer(k)] BY <2>2 DEF DecideCallsHold
  <2>5. v'.stage = "posting" /\ v'.key = k /\ v'.todo = v.todo /\ v'.answer = Dec!Answer(k)
    BY <1>8, <1>10, <1>12, <2>4 DEF Dec!Doing
  <2>6. /\ Dec!Answer(k) = Dec!Contradicted => VerdictOver(k)'
        /\ Dec!Answer(k) # Dec!Contradicted => Dec!Answer(k).version = 2 /\ fact'[MemoryOf(k)].version = 2
    BY <1>0, <2>1, <2>2, AnswerSays
  <2>7. KeptIn(v) BY <1>9
  <2> HIDE DEF v
  <2>8. KeptIn(v)' BY <1>0, <1>10, <1>12, <2>3, <2>5, <2>6, <2>7 DEF KeptIn, MemoryOf
  <2>9. KeptIn(call[c])' BY <2>8 DEF v
  <2> QED BY <1>4, <1>5, <1>6, <2>9 DEF KeptInv, OneDecideCall
<1>13. CASE v.stage \in {"listing", "reloading"}
  <2>1. fact' = fact /\ call' = [call EXCEPT ![c].answer = fact] BY <1>13 DEF Dec!Serve, Dec!service
  <2>2. v' = [v EXCEPT !.answer = fact] BY <2>1 DEF DecideCallsHold
  <2>3. /\ v'.stage = v.stage /\ v'.key = k /\ v'.todo = v.todo /\ v'.answer = fact
        /\ v'.list = v.list
    BY <1>8, <1>10, <2>2 DEF Dec!Doing
  <2>4. v.stage = "reloading" => k \in DOMAIN verdict BY <1>8, <1>10 DEF DecideFits
  <2>5. v.stage = "reloading" => VerdictOver(k) BY <1>9, <1>10 DEF KeptIn
  <2>6. v.stage = "reloading" => MemoryOf(k) \in Memory /\ MemoryOf(k)' = MemoryOf(k) /\ VerdictOver(k)'
    BY <1>2, <1>3, <2>4, <2>5
  <2>7. v.stage = "reloading" => fact[MemoryOf(k)].version = 2 \/ (verdict[k].approved /\ MemoryOf(k) \in expired)
    BY <2>5 DEF VerdictOver
  <2>8. \A m \in Memory : items[m].version <= fact[m].version /\ fact[m].version <= fact[m].version
    BY <1>1 DEF KeptInv
  <2>9. KeptIn(v) BY <1>9
  <2> HIDE DEF v
  <2>10. KeptIn(v)'
    BY <1>0, <1>10, <1>13, <2>1, <2>3, <2>6, <2>7, <2>8, <2>9 DEF KeptIn, MemoryOf
  <2>11. KeptIn(call[c])' BY <2>10 DEF v
  <2> QED BY <1>4, <1>5, <1>6, <2>11 DEF KeptInv, OneDecideCall
<1> QED BY <1>12, <1>13 DEF Dec!Serve

\* A step of the client: the service stays, and what was right of the verdicts stays.
LEMMA VerdictsStay ==
  ASSUME AloneInv, UNCHANGED <<Dec!service, verdict>>, told \subseteq told',
         \A k \in DOMAIN verdict : op[MemoryOf(k)] = k => op'[MemoryOf(k)] = k \/ k \in told'
  PROVE  /\ Dec!VerdictIsNotLost'
         /\ \A k \in DOMAIN verdict : MemoryOf(k)' = MemoryOf(k) /\ (VerdictOver(k)' <=> VerdictOver(k))
BY DEF AloneInv, KeptInv, Dec!VerdictIsNotLost, MemoryOf, VerdictOver, Dec!service

LEMMA ReadItemsStays ==
  ASSUME Dec!DecisionsAssumption, AloneInv, NEW c \in DecideCall, OneDecideCall, Dec!ReadItems(c)
  PROVE  KeptInv'
<1> USE DEF AloneInv, DecisionsInv
<1> DEFINE v == call[c]
<1>1. call[c] # None /\ v.stage = "posting" /\ v.answer \notin {None, Dec!Contradicted}
  BY DEF Dec!ReadItems, Dec!Working
<1>2. v \in Dec!Doing /\ DecideFits(v, DOMAIN verdict) BY <1>1, DecideAtWork
<1>3. KeptIn(v) BY <1>1 DEF KeptInv
<1>4. /\ op' = op /\ items' = items /\ told' = told \cup {v.key} /\ verdict' = verdict
      /\ UNCHANGED Dec!service
  BY DEF Dec!ReadItems, Dec!disk
<1>5. /\ Dec!VerdictIsNotLost'
      /\ \A k \in DOMAIN verdict : MemoryOf(k)' = MemoryOf(k) /\ (VerdictOver(k)' <=> VerdictOver(k))
  BY <1>4, VerdictsStay
<1>6. ASSUME NEW k \in told' PROVE VerdictStored(k)'
  BY <1>1, <1>3, <1>4 DEF VerdictStored, KeptInv, KeptIn, Dec!service, MemoryOf
<1>7. \A m \in Memory : items'[m].version <= fact'[m].version BY <1>4 DEF KeptInv, Dec!service
<1>8. v' = [v EXCEPT !.stage = "merging", !.list = items] BY DEF Dec!ReadItems, DecideCallsHold
<1>9. /\ v'.stage = "merging" /\ v'.key = v.key /\ v'.todo = v.todo /\ v'.answer = v.answer
      /\ v'.list = items
  BY <1>2, <1>8 DEF Dec!Doing
<1> HIDE DEF v
<1>10. KeptIn(v)' BY <1>1, <1>3, <1>4, <1>9 DEF KeptIn, MemoryOf, Dec!service
<1>11. KeptIn(call[c])' BY <1>10 DEF v
<1> QED BY <1>5, <1>6, <1>7, <1>11 DEF KeptInv, OneDecideCall

LEMMA WriteItemsStays ==
  ASSUME Dec!DecisionsAssumption, AloneInv, NEW c \in DecideCall, OneDecideCall, Dec!WriteItems(c)
  PROVE  KeptInv' /\ \A m \in Memory : Dec!ItemAdvances(m)
<1> USE DEF AloneInv, DecisionsInv
<1> DEFINE v == call[c]
<1>1. call[c] # None /\ v.stage = "merging" BY DEF Dec!WriteItems, Dec!Working
<1>2. v \in Dec!Doing /\ DecideFits(v, DOMAIN verdict) BY <1>1, DecideAtWork
<1>3. KeptIn(v) BY <1>1 DEF KeptInv
<1>4. PICK k : k = v.key OBVIOUS
<1>5. k \in DOMAIN verdict /\ k \in told BY <1>1, <1>2, <1>3, <1>4 DEF DecideFits, KeptIn
<1>6. /\ v.list = items /\ v.answer.version = 2 /\ fact[MemoryOf(k)].version = 2 /\ op[MemoryOf(k)] = k
      /\ v.answer \in DecideRows
  BY <1>1, <1>2, <1>3, <1>4 DEF KeptIn, DecideFits
<1>7. /\ items' = [v.list EXCEPT ![MemoryOf(k)] = v.answer] /\ op' = [op EXCEPT ![MemoryOf(k)] = None]
      /\ told' = told /\ verdict' = verdict /\ UNCHANGED Dec!service
  BY <1>4 DEF Dec!WriteItems, MemoryOf
<1>8. MemoryOf(k) \in Memory /\ \A x \in DOMAIN verdict : MemoryOf(x) \in Memory BY <1>5, KeyIsOne
  DEF MemoryOf
<1>9. /\ items'[MemoryOf(k)].version = 2 /\ op'[MemoryOf(k)] = None
      /\ \A m \in Memory : m # MemoryOf(k) => items'[m] = items[m] /\ op'[m] = op[m]
  BY <1>6, <1>7, <1>8 DEF ClientHolds, DecideLists
<1>10. \A m \in Memory : items[m].version \in {1, 2} BY Versions DEF ClientHolds
<1>11. \A m \in Memory : Dec!ItemAdvances(m)
  BY <1>8, <1>9, <1>10 DEF Dec!ItemAdvances
<1>12. /\ Dec!VerdictIsNotLost'
       /\ \A x \in DOMAIN verdict : MemoryOf(x)' = MemoryOf(x) /\ (VerdictOver(x)' <=> VerdictOver(x))
  BY <1>5, <1>6, <1>7, <1>8, <1>9, VerdictsStay
<1>13. ASSUME NEW x \in told' PROVE VerdictStored(x)'
  <2>1. x \in told /\ x \in DOMAIN verdict /\ MemoryOf(x) \in Memory BY <1>7, <1>8 DEF ClientHolds
  <2>2. CASE MemoryOf(x) = MemoryOf(k) BY <1>7, <1>9, <2>1, <2>2 DEF VerdictStored, MemoryOf
  <2>3. CASE MemoryOf(x) # MemoryOf(k)
    <3>1. items'[MemoryOf(x)] = items[MemoryOf(x)] /\ op'[MemoryOf(x)] = op[MemoryOf(x)]
      BY <1>9, <2>1, <2>3
    <3> QED BY <1>7, <2>1, <3>1 DEF VerdictStored, KeptInv, MemoryOf, Dec!service
  <2> QED BY <2>2, <2>3
<1>14. \A m \in Memory : items'[m].version <= fact'[m].version
  <2>1. fact' = fact BY <1>7 DEF Dec!service
  <2> QED BY <1>6, <1>8, <1>9, <2>1 DEF KeptInv
<1>15. call'[c] # None => KeptIn(call[c])'
  <2>1. CASE v.kind = "refresh"
    <3>1. v' = Dec!Sending(v.todo) BY <2>1 DEF Dec!WriteItems, DecideCallsHold
    <3>2. v.todo \in Seq(Nat) /\ DOMAIN verdict \in SUBSET Nat
      BY <1>2, KeysAreFinite DEF Dec!Doing
    <3>3. \A n \in DOMAIN v.todo : v.todo[n] \in DOMAIN verdict BY <1>2 DEF DecideFits
    <3>4. /\ v'.answer = None
          /\ v.todo = <<>> => v'.stage = "listing" /\ v'.todo = <<>>
          /\ v.todo # <<>> => v'.stage = "posting" /\ v'.key = v.todo[1] /\ v'.todo = Tail(v.todo)
      BY <3>1, <3>2, <3>3, SendingIsRight
    <3>5. \A n \in DOMAIN v.todo : v.todo[n] # k BY <1>1, <1>3, <1>4 DEF KeptIn
    <3>6. ASSUME NEW n \in DOMAIN v.todo PROVE op'[MemoryOf(v.todo[n])] = v.todo[n]
      <4>1. op[MemoryOf(v.todo[n])] = v.todo[n] /\ v.todo[n] \in DOMAIN verdict BY <1>3, <3>3
        DEF KeptIn
      <4>2. MemoryOf(v.todo[n]) # MemoryOf(k) BY <1>6, <3>5, <4>1
      <4> QED BY <1>8, <1>9, <4>1, <4>2
    <3>7. \A i, j \in DOMAIN v.todo : v.todo[i] = v.todo[j] => i = j BY <1>3 DEF KeptIn
    <3> DEFINE t == v.todo
    <3>8. t \in Seq(Nat) BY <3>2
    <3>9. /\ \A n \in DOMAIN t : op'[MemoryOf(t[n])] = t[n]
          /\ \A i, j \in DOMAIN t : t[i] = t[j] => i = j
      BY <3>6, <3>7
    <3>10. t = <<>> => v'.stage = "listing" /\ v'.todo = <<>> BY <3>4
    <3>11. t # <<>> => v'.stage = "posting" /\ v'.key = t[1] /\ v'.todo = Tail(t) BY <3>4
    <3> HIDE DEF t
    <3>12. t # <<>> => /\ 1 \in DOMAIN t
                       /\ \A n \in DOMAIN Tail(t) : /\ Tail(t)[n] = t[n + 1]
                                                    /\ n + 1 \in DOMAIN t /\ n \in Nat /\ n + 1 # 1
      BY <3>8
    <3>13. t # <<>> => /\ \A n \in DOMAIN Tail(t) : op'[MemoryOf(Tail(t)[n])] = Tail(t)[n] /\ Tail(t)[n] # t[1]
                       /\ \A i, j \in DOMAIN Tail(t) : Tail(t)[i] = Tail(t)[j] => i = j
                       /\ op'[MemoryOf(t[1])] = t[1]
      BY <3>9, <3>12
    <3> HIDE DEF v
    <3>14. t = <<>> => KeptIn(v)' BY <3>4, <3>10 DEF KeptIn
    <3>15. ASSUME t # <<>> PROVE KeptIn(v)'
      <4>1. None # Dec!Contradicted BY DEF Dec!DecisionsAssumption, Dec!Reply
      <4> DEFINE u == Tail(t)
      <4>2. /\ \A n \in DOMAIN u : op'[MemoryOf(u[n])] = u[n] /\ u[n] # t[1]
            /\ \A i, j \in DOMAIN u : u[i] = u[j] => i = j
            /\ op'[MemoryOf(t[1])] = t[1] /\ v'.stage = "posting" /\ v'.key = t[1] /\ v'.todo = u
        BY <3>11, <3>13, <3>15
      <4> HIDE DEF u
      <4> QED BY <1>7, <3>4, <4>1, <4>2 DEF KeptIn, MemoryOf
    <3>16. KeptIn(v)' BY <3>14, <3>15
    <3> QED BY <3>16 DEF v
  <2>2. CASE v.kind # "refresh" BY <2>2 DEF Dec!WriteItems, Dec!Leaves, DecideCallsHold
  <2> QED BY <2>1, <2>2
<1> QED BY <1>11, <1>12, <1>13, <1>14, <1>15 DEF KeptInv, OneDecideCall

LEMMA ConflictStays ==
  ASSUME Dec!DecisionsAssumption, AloneInv, NEW c \in DecideCall, OneDecideCall, Dec!Conflict(c)
  PROVE  KeptInv'
<1> USE DEF AloneInv, DecisionsInv
<1> DEFINE v == call[c]
<1>1. call[c] # None /\ v.stage = "posting" /\ v.answer = Dec!Contradicted
  BY DEF Dec!Conflict, Dec!Working
<1>2. v \in Dec!Doing /\ DecideFits(v, DOMAIN verdict) BY <1>1, DecideAtWork
<1>3. KeptIn(v) BY <1>1 DEF KeptInv
<1>4. /\ op' = op /\ items' = items /\ told' = told \cup {v.key} /\ verdict' = verdict
      /\ UNCHANGED Dec!service
  BY DEF Dec!Conflict, Dec!disk
<1>5. /\ Dec!VerdictIsNotLost'
      /\ \A k \in DOMAIN verdict : MemoryOf(k)' = MemoryOf(k) /\ (VerdictOver(k)' <=> VerdictOver(k))
  BY <1>4, VerdictsStay
<1>6. ASSUME NEW k \in told' PROVE VerdictStored(k)'
  BY <1>1, <1>3, <1>4 DEF VerdictStored, KeptInv, KeptIn, Dec!service, MemoryOf
<1>7. \A m \in Memory : items'[m].version <= fact'[m].version BY <1>4 DEF KeptInv, Dec!service
<1>8. v' = [v EXCEPT !.stage = "reloading", !.answer = None] BY DEF Dec!Conflict, DecideCallsHold
<1>9. v'.stage = "reloading" /\ v'.key = v.key /\ v'.todo = v.todo /\ v'.answer = None
  BY <1>2, <1>8 DEF Dec!Doing
<1> HIDE DEF v
<1>10. KeptIn(v)' BY <1>1, <1>3, <1>4, <1>9 DEF KeptIn, MemoryOf, VerdictOver, Dec!service
<1>11. KeptIn(call[c])' BY <1>10 DEF v
<1> QED BY <1>5, <1>6, <1>7, <1>11 DEF KeptInv, OneDecideCall

LEMMA ReloadedStays ==
  ASSUME Dec!DecisionsAssumption, AloneInv, NEW c \in DecideCall, OneDecideCall, Dec!Reloaded(c)
  PROVE  KeptInv' /\ \A m \in Memory : Dec!ItemAdvances(m)
<1> USE DEF AloneInv, DecisionsInv
<1> DEFINE v == call[c]
<1>1. call[c] # None /\ v.stage = "reloading" /\ v.answer # None BY DEF Dec!Reloaded, Dec!Working
<1>2. v \in Dec!Doing /\ DecideFits(v, DOMAIN verdict) BY <1>1, DecideAtWork
<1>3. KeptIn(v) BY <1>1 DEF KeptInv
<1>4. PICK k : k = v.key OBVIOUS
<1>5. k \in DOMAIN verdict /\ k \in told /\ op[MemoryOf(k)] = k /\ v.answer \in DecideLists
  BY <1>1, <1>2, <1>3, <1>4 DEF DecideFits, KeptIn
<1>6. v.answer[MemoryOf(k)].version = 2 \/ (verdict[k].approved /\ MemoryOf(k) \in expired)
  BY <1>1, <1>3, <1>4 DEF KeptIn
<1>7. \A m \in Memory : items[m].version <= v.answer[m].version /\ v.answer[m].version <= fact[m].version
  BY <1>1, <1>3 DEF KeptIn
<1>8. /\ items' = v.answer /\ op' = [op EXCEPT ![MemoryOf(k)] = None]
      /\ told' = told /\ verdict' = verdict /\ UNCHANGED Dec!service
  BY <1>4 DEF Dec!Reloaded, MemoryOf
<1>9. MemoryOf(k) \in Memory /\ \A x \in DOMAIN verdict : MemoryOf(x) \in Memory BY <1>5, KeyIsOne
  DEF MemoryOf
<1>10. /\ op'[MemoryOf(k)] = None /\ \A m \in Memory : m # MemoryOf(k) => op'[m] = op[m]
  BY <1>8, <1>9 DEF ClientHolds
<1>11. \A m \in Memory : items[m].version \in {1, 2} /\ items'[m].version \in {1, 2}
  BY <1>5, <1>8, Versions DEF ClientHolds
<1>12. \A m \in Memory : Dec!ItemAdvances(m) BY <1>7, <1>8, <1>11 DEF Dec!ItemAdvances
<1>13. Dec!VerdictIsNotLost' BY <1>5, <1>8, <1>9, <1>10, VerdictsStay
<1>14. ASSUME NEW x \in told' PROVE VerdictStored(x)'
  <2>1. x \in told /\ x \in DOMAIN verdict /\ MemoryOf(x) \in Memory BY <1>8, <1>9 DEF ClientHolds
  <2>2. CASE MemoryOf(x) # MemoryOf(k)
    <3>1. items[MemoryOf(x)].version = 2 => items'[MemoryOf(x)].version = 2
      BY <1>7, <1>8, <1>11, <2>1
    <3> QED BY <1>8, <1>10, <2>1, <2>2, <3>1 DEF VerdictStored, KeptInv, MemoryOf, Dec!service
  <2>3. CASE MemoryOf(x) = MemoryOf(k)
    <3>1. CASE x = k BY <1>6, <1>8, <3>1 DEF VerdictStored, MemoryOf, Dec!service
    <3>2. CASE x # k
      <4>1. items[MemoryOf(x)].version = 2 \/ (verdict[x].approved /\ MemoryOf(x) \in expired)
        BY <1>5, <2>1, <2>3, <3>2 DEF VerdictStored, KeptInv
      <4>2. items[MemoryOf(x)].version = 2 => items'[MemoryOf(x)].version = 2
        BY <1>7, <1>8, <1>11, <2>1
      <4> QED BY <1>8, <4>1, <4>2 DEF VerdictStored, MemoryOf, Dec!service
    <3> QED BY <3>1, <3>2
  <2> QED BY <2>2, <2>3
<1>15. \A m \in Memory : items'[m].version <= fact'[m].version BY <1>7, <1>8 DEF Dec!service
<1>16. call'[c] = None BY DEF Dec!Reloaded, Dec!Leaves, DecideCallsHold
<1> QED BY <1>12, <1>13, <1>14, <1>15, <1>16 DEF KeptInv, OneDecideCall

LEMMA ListedStays ==
  ASSUME Dec!DecisionsAssumption, AloneInv, NEW c \in DecideCall, OneDecideCall, Dec!Listed(c)
  PROVE  KeptInv' /\ \A m \in Memory : Dec!ItemAdvances(m)
<1> USE DEF AloneInv, DecisionsInv
<1> DEFINE v == call[c]
<1>1. call[c] # None /\ v.stage = "listing" /\ v.answer # None BY DEF Dec!Listed, Dec!Working
<1>2. v \in Dec!Doing /\ DecideFits(v, DOMAIN verdict) /\ KeptIn(v) BY <1>1, DecideAtWork
  DEF KeptInv
<1>3. v.answer \in DecideLists BY <1>1, <1>2 DEF DecideFits
<1>4. \A m \in Memory : items[m].version <= v.answer[m].version /\ v.answer[m].version <= fact[m].version
  BY <1>1, <1>2 DEF KeptIn
<1>5. items' = v.answer /\ op' = op /\ told' = told /\ verdict' = verdict /\ UNCHANGED Dec!service
  BY DEF Dec!Listed
<1>6. \A m \in Memory : items[m].version \in {1, 2} /\ items'[m].version \in {1, 2}
  BY <1>3, <1>5, Versions DEF ClientHolds
<1>7. \A m \in Memory : Dec!ItemAdvances(m) BY <1>4, <1>5, <1>6 DEF Dec!ItemAdvances
<1>8. Dec!VerdictIsNotLost' BY <1>5, VerdictsStay
<1>9. ASSUME NEW x \in told' PROVE VerdictStored(x)'
  <2>1. x \in told /\ x \in DOMAIN verdict /\ MemoryOf(x) \in Memory
    BY <1>5, KeyIsOne DEF ClientHolds, MemoryOf
  <2>2. items[MemoryOf(x)].version = 2 => items'[MemoryOf(x)].version = 2 BY <1>4, <1>5, <1>6, <2>1
  <2> QED BY <1>5, <2>1, <2>2 DEF VerdictStored, KeptInv, MemoryOf, Dec!service
<1>10. \A m \in Memory : items'[m].version <= fact'[m].version BY <1>4, <1>5 DEF Dec!service
<1>11. call'[c] = None BY DEF Dec!Listed, DecideCallsHold
<1> QED BY <1>7, <1>8, <1>9, <1>10, <1>11 DEF KeptInv, OneDecideCall

\* A call that fails, or all of them when the process is killed.
LEMMA EndsStay ==
  ASSUME Dec!DecisionsAssumption, AloneInv, \A c \in DecideCall : call'[c] = None,
         UNCHANGED <<Dec!service, Dec!disk, verdict, told>>
  PROVE  KeptInv'
<1> USE DEF AloneInv, DecisionsInv
<1>1. op' = op /\ items' = items BY DEF Dec!disk
<1>2. Dec!VerdictIsNotLost' BY <1>1, VerdictsStay
<1>3. \A k \in told' : VerdictStored(k)' BY <1>1 DEF VerdictStored, KeptInv, MemoryOf, Dec!service
<1> QED BY <1>1, <1>2, <1>3 DEF KeptInv, Dec!service

\* A call that begins.
LEMMA StartsStay ==
  ASSUME Dec!DecisionsAssumption, AloneInv, NEW c \in DecideCall, OneDecideCall,
         (call'[c] # None => KeptIn(call[c])'),
         UNCHANGED <<Dec!service, Dec!disk, verdict, told>>
  PROVE  KeptInv'
<1> USE DEF AloneInv, DecisionsInv
<1>1. op' = op /\ items' = items BY DEF Dec!disk
<1>2. Dec!VerdictIsNotLost' BY <1>1, VerdictsStay
<1>3. \A k \in told' : VerdictStored(k)' BY <1>1 DEF VerdictStored, KeptInv, MemoryOf, Dec!service
<1> QED BY <1>1, <1>2, <1>3 DEF KeptInv, OneDecideCall, Dec!service

LEMMA RefreshStays ==
  ASSUME Dec!DecisionsAssumption, AloneInv, NEW c \in DecideCall, OneDecideCall, Dec!Refresh(c)
  PROVE  KeptInv'
<1> USE DEF AloneInv, DecisionsInv
<1> DEFINE v == call[c]
<1>1. PICK t \in Dec!Orders : v' = Dec!Sending(t) BY DEF Dec!Refresh, DecideCallsHold
<1>2. /\ t \in Seq(Nat) /\ \A i, j \in DOMAIN t : t[i] = t[j] => i = j
      /\ \A n \in DOMAIN t : t[n] \in DOMAIN verdict /\ op[MemoryOf(t[n])] = t[n]
  BY OrdersAreKeys DEF MemoryOf
<1>3. DOMAIN verdict \in SUBSET Nat BY KeysAreFinite
<1>4. /\ v'.answer = None
      /\ t = <<>> => v'.stage = "listing" /\ v'.todo = <<>>
      /\ t # <<>> => v'.stage = "posting" /\ v'.key = t[1] /\ v'.todo = Tail(t)
  <2> HIDE DEF AloneInv, DecisionsInv
  <2>1. /\ Dec!Sending(t).answer = None
        /\ t = <<>> => Dec!Sending(t).stage = "listing" /\ Dec!Sending(t).todo = <<>>
        /\ t # <<>> => /\ Dec!Sending(t).stage = "posting" /\ Dec!Sending(t).key = t[1]
                       /\ Dec!Sending(t).todo = Tail(t)
    BY <1>2, <1>3, SendingIsRight
  <2> HIDE DEF v
  <2> QED BY <1>1, <2>1
<1>5. op' = op /\ verdict' = verdict /\ None # Dec!Contradicted
  BY DEF Dec!Refresh, Dec!disk, Dec!DecisionsAssumption, Dec!Reply
<1> HIDE DEF v
<1>6. t = <<>> => KeptIn(v)' BY <1>4 DEF KeptIn
<1>7. ASSUME t # <<>> PROVE KeptIn(v)'
  <2> DEFINE u == Tail(t)
  <2>1. 1 \in DOMAIN t /\ \A n \in DOMAIN u : u[n] = t[n + 1] /\ n + 1 \in DOMAIN t /\ n \in Nat /\ n + 1 # 1
    BY <1>2, <1>7
  <2>2. /\ \A n \in DOMAIN u : op[MemoryOf(u[n])] = u[n] /\ u[n] # t[1]
        /\ \A i, j \in DOMAIN u : u[i] = u[j] => i = j
        /\ op[MemoryOf(t[1])] = t[1] /\ v'.stage = "posting" /\ v'.key = t[1] /\ v'.todo = u
    BY <1>2, <1>4, <1>7, <2>1
  <2> HIDE DEF u
  <2> QED BY <1>4, <1>5, <2>2 DEF KeptIn, MemoryOf
<1>8. KeptIn(call[c])' BY <1>6, <1>7 DEF v
<1> QED BY <1>8, StartsStay DEF Dec!Refresh

LEMMA RefreshMemoriesStays ==
  ASSUME Dec!DecisionsAssumption, AloneInv, NEW c \in DecideCall, OneDecideCall, Dec!RefreshMemories(c)
  PROVE  KeptInv'
<1> DEFINE v == call[c]
<1>1. v' = Dec!Fresh("list", "listing") BY DEF Dec!RefreshMemories, AloneInv, DecisionsInv,
                                               DecideCallsHold
<1>2. v'.stage = "listing" /\ v'.todo = <<>> /\ v'.answer = None BY <1>1 DEF Dec!Fresh
<1> HIDE DEF v
<1>3. KeptIn(v)' BY <1>2 DEF KeptIn
<1>4. KeptIn(call[c])' BY <1>3 DEF v
<1> QED BY <1>4, StartsStay DEF Dec!RefreshMemories

LEMMA DecideStays ==
  ASSUME Dec!DecisionsAssumption, AloneInv, NEW c \in DecideCall, OneDecideCall, NEW m \in Memory,
         NEW approved \in BOOLEAN, Dec!Decide(c, m, approved)
  PROVE  KeptInv'
<1> USE DEF AloneInv, DecisionsInv
<1> DEFINE body == [memory |-> m, approved |-> approved, expected |-> view.items[m].version]
           v == call[c]
<1>0. DecisionsInv' /\ VerdictsGrow /\ None # Dec!Contradicted
  BY DecideHolds DEF Dec!DecisionsAssumption, Dec!Reply
<1>1. UNCHANGED <<Dec!service, items, told>> BY DEF Dec!Decide
<1>2. CASE /\ op[m] = None /\ Len(verdict) < DecideKeys /\ verdict' = Append(verdict, body)
           /\ op' = [op EXCEPT ![m] = Len(verdict')]
           /\ call' = [call EXCEPT ![c] = [Dec!Fresh("decide", "posting") EXCEPT !.key = Len(verdict')]]
  <2>1. body.memory = m OBVIOUS
  <2> HIDE DEF body
  <2>2. verdict \in Seq(Verdict) /\ verdict' \in Seq(Verdict) BY <1>0 DEF ServiceHolds
  <2>3. PICK k : k = Len(verdict') OBVIOUS
  <2>4. /\ k = Len(verdict) + 1 /\ k \in DOMAIN verdict' /\ k \notin DOMAIN verdict
        /\ DOMAIN verdict' = DOMAIN verdict \cup {k} /\ verdict'[k] = body
        /\ \A x \in DOMAIN verdict : verdict'[x] = verdict[x] /\ MemoryOf(x) \in Memory
        /\ k \in Nat
    <3>1. \A x \in DOMAIN verdict : MemoryOf(x) \in Memory BY KeyIsOne DEF MemoryOf
    <3> QED BY <1>2, <2>2, <2>3, <3>1
  <2>5. op'[m] = k /\ \A x \in Memory : x # m => op'[x] = op[x] BY <1>2, <2>3 DEF ClientHolds
  <2>6. MemoryOf(k)' = m /\ \A x \in DOMAIN verdict : MemoryOf(x)' = MemoryOf(x) BY <2>1, <2>4
    DEF MemoryOf
  <2>7. \A x \in DOMAIN verdict : x \in Nat BY <2>2
  <2>8. \A x \in DOMAIN verdict : op[MemoryOf(x)] = x => MemoryOf(x) # m /\ op'[MemoryOf(x)] = x
    <3> SUFFICES ASSUME NEW x \in DOMAIN verdict, op[MemoryOf(x)] = x
                 PROVE  MemoryOf(x) # m /\ op'[MemoryOf(x)] = x
      OBVIOUS
    <3>1. x # None BY <2>7 DEF Dec!DecisionsAssumption
    <3>2. MemoryOf(x) # m BY <1>2, <3>1
    <3> QED BY <2>4, <2>5, <3>2
  <2>9. Dec!VerdictIsNotLost'
    <3> SUFFICES ASSUME NEW x \in DOMAIN verdict'
                 PROVE  op'[MemoryOf(x)'] = x \/ x \in told' \/ fact'[MemoryOf(x)'].version > verdict'[x].expected
      BY DEF Dec!VerdictIsNotLost, MemoryOf
    <3>1. CASE x = k BY <2>5, <2>6, <3>1
    <3>2. CASE x \in DOMAIN verdict
      BY <1>1, <2>4, <2>6, <2>8, <3>2 DEF KeptInv, Dec!VerdictIsNotLost, MemoryOf, Dec!service
    <3> QED BY <2>4, <3>1, <3>2
  <2>10. ASSUME NEW x \in told' PROVE VerdictStored(x)'
    <3>1. x \in told /\ x \in DOMAIN verdict BY <1>1 DEF ClientHolds
    <3> QED BY <1>1, <2>4, <2>6, <2>8, <3>1 DEF VerdictStored, KeptInv, Dec!service
  <2>11. v' = [Dec!Fresh("decide", "posting") EXCEPT !.key = k] BY <1>2, <2>3 DEF DecideCallsHold
  <2>12. v'.stage = "posting" /\ v'.todo = <<>> /\ v'.answer = None /\ v'.key = k
    BY <2>11 DEF Dec!Fresh
  <2> HIDE DEF v
  <2>13. KeptIn(v)' BY <1>0, <2>5, <2>6, <2>12 DEF KeptIn, MemoryOf
  <2>14. KeptIn(call[c])' BY <2>13 DEF v
  <2> QED BY <1>1, <2>9, <2>10, <2>14 DEF KeptInv, OneDecideCall, Dec!service
<1>3. CASE /\ op[m] # None /\ verdict[op[m]] = body /\ UNCHANGED <<verdict, op>>
           /\ call' = [call EXCEPT ![c] = [Dec!Fresh("decide", "posting") EXCEPT !.key = op[m]]]
  <2>1. PICK k : k = op[m] OBVIOUS
  <2>2. v' = [Dec!Fresh("decide", "posting") EXCEPT !.key = k] BY <1>3, <2>1 DEF DecideCallsHold
  <2>3. v'.stage = "posting" /\ v'.todo = <<>> /\ v'.answer = None /\ v'.key = k
    BY <2>2 DEF Dec!Fresh
  <2>4. op'[MemoryOf(k)'] = k BY <1>3, <2>1 DEF ClientHolds, MemoryOf
  <2> HIDE DEF v
  <2>5. KeptIn(v)' BY <1>0, <2>3, <2>4 DEF KeptIn, MemoryOf
  <2>6. KeptIn(call[c])' BY <2>5 DEF v
  <2> QED BY <1>1, <1>3, <2>6, StartsStay DEF Dec!disk
<1>4. CASE UNCHANGED <<verdict, op, call>>
  <2>1. call'[c] = None BY <1>4 DEF Dec!Decide
  <2> QED BY <1>1, <1>4, <2>1, StartsStay DEF Dec!disk
<1> QED BY <1>2, <1>3, <1>4 DEF Dec!Decide

LEMMA VerdictsGoOn ==
  ASSUME Dec!DecisionsAssumption, OneDecideCall, AloneInv, [Dec!Next]_(Dec!vars)
  PROVE  AloneInv' /\ \A m \in Memory : Dec!ItemAdvances(m)
<1>0. DecisionsInv' BY DecisionsGoOn DEF AloneInv
<1>1. \A m \in Memory : items[m].version <= items[m].version
  BY Versions DEF AloneInv, DecisionsInv, ClientHolds
<1>2. items' = items => \A m \in Memory : Dec!ItemAdvances(m) BY <1>1 DEF Dec!ItemAdvances
<1>3. ASSUME NEW c \in DecideCall, Dec!CallStep(c)
      PROVE  KeptInv' /\ \A m \in Memory : Dec!ItemAdvances(m)
  <2>1. CASE Dec!ReadItems(c) BY <1>2, <2>1, ReadItemsStays DEF Dec!ReadItems, Dec!disk
  <2>2. CASE Dec!WriteItems(c) BY <2>2, WriteItemsStays
  <2>3. CASE Dec!Conflict(c) BY <1>2, <2>3, ConflictStays DEF Dec!Conflict, Dec!disk
  <2>4. CASE Dec!Reloaded(c) BY <2>4, ReloadedStays
  <2>5. CASE Dec!Listed(c) BY <2>5, ListedStays
  <2>6. CASE Dec!Serve(c) BY <1>0, <1>2, <2>6, ServeStays DEF Dec!Serve, Dec!disk
  <2> QED BY <1>3, <2>1, <2>2, <2>3, <2>4, <2>5, <2>6 DEF Dec!CallStep
<1>4. ASSUME NEW c \in DecideCall, Dec!Lose(c)
      PROVE  KeptInv' /\ \A m \in Memory : Dec!ItemAdvances(m)
  <2>1. \A x \in DecideCall : call'[x] = None
    BY <1>4 DEF Dec!Lose, Dec!Leaves, OneDecideCall, AloneInv, DecisionsInv, DecideCallsHold
  <2> QED BY <1>2, <1>4, <2>1, EndsStay DEF Dec!Lose, Dec!disk
<1>5. ASSUME NEW c \in DecideCall, Dec!Refresh(c) \/ Dec!RefreshMemories(c)
      PROVE KeptInv' /\ \A m \in Memory : Dec!ItemAdvances(m)
  BY <1>2, <1>5, RefreshStays, RefreshMemoriesStays DEF Dec!Refresh, Dec!RefreshMemories, Dec!disk
<1>6. ASSUME NEW c \in DecideCall, NEW m \in Memory, NEW approved \in BOOLEAN, Dec!Decide(c, m,
             approved)
      PROVE KeptInv' /\ \A x \in Memory : Dec!ItemAdvances(x)
  BY <1>2, <1>6, DecideStays DEF Dec!Decide
<1>7. ASSUME NEW k, Dec!Late(k) PROVE KeptInv' /\ \A m \in Memory : Dec!ItemAdvances(m)
  <2>1. UNCHANGED <<items, op, told, call, verdict>> BY <1>7 DEF Dec!Late, Dec!disk
  <2> QED BY <1>0, <1>2, <1>7, <2>1, DecideLateHolds, ServiceMoves DEF AloneInv
<1>8. ASSUME NEW m \in Memory, Dec!Elsewhere(m)
      PROVE  KeptInv' /\ \A x \in Memory : Dec!ItemAdvances(x)
  <2>1. UNCHANGED <<items, op, told, call, verdict>> BY <1>8 DEF Dec!Elsewhere, Dec!disk
  <2> QED BY <1>0, <1>2, <1>8, <2>1, ElsewhereHolds, ServiceMoves DEF AloneInv
<1>9. ASSUME NEW m \in Memory, Dec!Expires(m)
      PROVE  KeptInv' /\ \A x \in Memory : Dec!ItemAdvances(x)
  <2>1. UNCHANGED <<items, op, told, call, verdict>> BY <1>9 DEF Dec!Expires, Dec!disk
  <2>2. expired \subseteq expired' /\ \A x \in Memory : fact[x].version <= fact'[x].version
    BY <1>9, Versions DEF Dec!Expires, AloneInv, DecisionsInv, ServiceHolds
  <2> QED BY <1>0, <1>2, <2>1, <2>2, ServiceMoves
<1>10. ASSUME Dec!Restart PROVE KeptInv' /\ \A m \in Memory : Dec!ItemAdvances(m)
  <2>1. \A x \in DecideCall : call'[x] = None BY <1>10 DEF Dec!Restart
  <2>2. UNCHANGED <<Dec!service, Dec!disk, verdict, told>> BY <1>10 DEF Dec!Restart
  <2>3. items' = items BY <2>2 DEF Dec!disk
  <2> QED BY <1>2, <2>1, <2>2, <2>3, EndsStay
<1>11. ASSUME UNCHANGED Dec!vars PROVE KeptInv' /\ \A m \in Memory : Dec!ItemAdvances(m)
  <2>1. UNCHANGED <<items, op, told, call, verdict>> /\ fact' = fact /\ expired' = expired
    BY <1>11 DEF Dec!vars, Dec!disk, Dec!service
  <2>2. expired \subseteq expired' /\ \A x \in Memory : fact[x].version <= fact'[x].version
    BY <2>1, Versions DEF AloneInv, DecisionsInv, ServiceHolds
  <2> QED BY <1>0, <1>2, <2>1, <2>2, ServiceMoves
<1>12. KeptInv' /\ \A m \in Memory : Dec!ItemAdvances(m)
  <2>1. CASE \E c \in DecideCall :
               \/ Dec!CallStep(c) \/ Dec!Lose(c) \/ Dec!Refresh(c) \/ Dec!RefreshMemories(c)
               \/ \E m \in Memory, approved \in BOOLEAN : Dec!Decide(c, m, approved)
    BY <1>3, <1>4, <1>5, <1>6, <2>1
  <2>2. CASE \E k \in stray : Dec!Late(k) BY <1>7, <2>2
  <2>3. CASE \E m \in Memory : Dec!Elsewhere(m) \/ Dec!Expires(m) BY <1>8, <1>9, <2>3
  <2> QED BY <1>10, <1>11, <2>1, <2>2, <2>3 DEF Dec!Next
<1> QED BY <1>0, <1>12 DEF AloneInv

LEMMA VerdictsBegin == ASSUME Dec!DecisionsAssumption, Dec!Init PROVE AloneInv
<1>1. DecisionsInv BY DecisionsBegin
<1>2. DOMAIN verdict = {} BY DEF Dec!Init
<1>3. KeptInv BY <1>2 DEF Dec!Init, KeptInv, Dec!VerdictIsNotLost
<1> QED BY <1>1, <1>3 DEF AloneInv

LEMMA VerdictsAreKept ==
  ASSUME Dec!DecisionsAssumption, AloneInv
  PROVE  Dec!TypeOK /\ Dec!VerdictIsNotLost /\ Dec!ToldIsStored
<1> USE DEF AloneInv, DecisionsInv
<1>1. fact \in [Memory -> Dec!Item] /\ items \in [Memory -> Dec!Item] /\ view.items \in [Memory -> Dec!Item]
  BY ListsAreReplies DEF ServiceHolds, ClientHolds
<1>2. Dec!TypeOK BY <1>1 DEF Dec!TypeOK, ServiceHolds, ClientHolds
<1>3. ASSUME NEW k \in told
      PROVE  \/ items[verdict[k].memory].version > verdict[k].expected
             \/ op[verdict[k].memory] = k
             \/ verdict[k].approved /\ verdict[k].memory \in expired
  <2>1. VerdictStored(k) /\ verdict[k].expected = 1 BY KeyIsOne DEF KeptInv, ClientHolds
  <2> QED BY <2>1 DEF VerdictStored, MemoryOf
<1> QED BY <1>2, <1>3 DEF Dec!ToldIsStored, KeptInv

\* While calls do not overlap, whatever is lost, late or killed: a verdict is taken,
\* contradicted or still pending, what the client was told of it is in its list, and no
\* version of the list goes back (repository._applyDecision, recoverDecisions).
THEOREM VerdictIsKept ==
  ASSUME Dec!DecisionsAssumption, OneDecideCall
  PROVE  Dec!Spec => /\ [](Dec!TypeOK /\ Dec!VerdictIsNotLost /\ Dec!ToldIsStored)
                 /\ [][\A m \in Memory : Dec!ItemAdvances(m)]_(Dec!vars)
<1>1. Dec!Init => AloneInv BY VerdictsBegin
<1>2. AloneInv /\ [Dec!Next]_(Dec!vars) => AloneInv' BY VerdictsGoOn
<1>3. AloneInv => Dec!TypeOK /\ Dec!VerdictIsNotLost /\ Dec!ToldIsStored BY VerdictsAreKept
<1>4. AloneInv /\ [Dec!Next]_(Dec!vars) => [\A m \in Memory : Dec!ItemAdvances(m)]_(Dec!vars)
  BY VerdictsGoOn
<1> QED BY <1>1, <1>2, <1>3, <1>4, PTL DEF Dec!Spec
=============================================================================
