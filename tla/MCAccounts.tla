----------------------------- MODULE MCAccounts -----------------------------
(* Requests are interchangeable, and so are the passwords. *)
EXTENDS Accounts, TLC

Symmetry == Permutations(Handlers) \cup Permutations(Words)
=============================================================================
