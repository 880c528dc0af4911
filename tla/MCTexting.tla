----------------------------- MODULE MCTexting ------------------------------
(* One number, two addresses: a burst rule and a longer one for an address. *)
EXTENDS Texting, TLC

MCStartRules   == {[span |-> 1, max |-> 2], [span |-> 3, max |-> 3]}
MCPhoneRules   == {[span |-> 2, max |-> 2]}
MCInboundRules == {[span |-> 1, max |-> 2]}

Symmetry == Permutations(Handlers) \cup Permutations(Ips)
=============================================================================
