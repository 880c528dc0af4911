------------------------------ MODULE MCHaggle -------------------------------
(* Haggle on a plan of 40 cents down to 24. *)
EXTENDS Haggle

\* Under the floor, on it, under and over the target.
MCOffers == {23, 24, 27, 31}
\* Taken as 0, near the anchor, over it.
MCEdges == {-1, 37, 42}

Say(intents, offers, tiers, exposures) ==
  [intent : intents, offer : offers, reasoning : tiers, exposure : exposures]

MCMessages ==
  Say({"other"}, MCOffers \cup {NoOffer}, Tiers, {FALSE}) \cup
  Say({"other"}, MCEdges, {"none", "strong"}, {FALSE}) \cup
  Say({"other"}, {NoOffer, 27}, {"strong"}, {TRUE}) \cup
  Say({"other", "accept"}, {NoOffer, 28}, {"default", "none"}, {FALSE}) \cup
  Say({"abuse", "social_engineering"}, {26}, {"strong"}, {FALSE})
=============================================================================
