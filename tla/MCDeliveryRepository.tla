------------------------ MODULE MCDeliveryRepository ------------------------
(* Instances of DeliveryRepository for TLC. *)
EXTENDS DeliveryRepository, TLC

\* Processes, keys, bodies and fresh run identifiers are interchangeable.
Interchangeable ==
  Permutations(Owner) \cup Permutations(Key) \cup Permutations(Query)
    \cup Permutations(Run \ LegacyRun)
=============================================================================
