--------------------------- MODULE MCMemoryLedger ---------------------------
(* Instances of MemoryLedger for TLC. *)
EXTENDS MemoryLedger, TLC

\* What runs offer: a statement of the merchant, an inference.
MCCandidate == {[type |-> "user_fact", source |-> "user"],
                [type |-> "inference", source |-> "llm"]}

\* A statement of the merchant, and a proposal that waits for approval.
MCProposals == {[type |-> "user_fact", source |-> "user"],
                [type |-> "decision", source |-> "agent"]}

MCSymmetry == Permutations(Fact) \cup Permutations(Key)
=============================================================================
