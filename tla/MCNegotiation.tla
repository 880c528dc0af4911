---------------------------- MODULE MCNegotiation ----------------------------
(* Negotiation on a plan whose ask has six values. *)
EXTENDS Negotiation, TLC

Say(intent, offer, tier) ==
  [intent |-> intent, offer |-> offer, reasoning |-> tier, exposure |-> FALSE]

\* A reasoned offer, one with no case made for it, a yes, abuse.
MCMessages ==
  {Say("other", 10, "strong"), Say("other", 11, "none"),
   Say("accept", NoOffer, "none"), Say("abuse", NoOffer, "none")}

Symmetry == Permutations(Handlers) \cup Permutations(Sessions)
=============================================================================
