-------------------------- MODULE MCRenegotiation ---------------------------
(* Renegotiation of a subscription of 1.00. *)
EXTENDS Renegotiation

Symmetry == Permutations(Handlers)
=============================================================================
