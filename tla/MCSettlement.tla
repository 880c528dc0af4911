--------------------------- MODULE MCSettlement -----------------------------
(* Settlement on small instances. *)
EXTENDS Settlement, TLC

Symmetry ==
  Permutations(Deals) \cup Permutations(Proofs) \cup Permutations(Checkouts) \cup
  Permutations(Requests) \cup Permutations(Hooks)
=============================================================================
