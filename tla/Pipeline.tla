------------------------------ MODULE Pipeline -------------------------------
(***************************************************************************)
(* One turn: from what the extractor read in a message to the action the   *)
(* engine answers with (pipeline.ts runTurn, negotiator.ts template        *)
(* negotiator). What is said around the number is left out.                *)
(***************************************************************************)
EXTENDS Engine

CONSTANT Messages        \* extractions the buyer's messages are read as

\* "other" stands for offer, question, reject and stall, which runTurn treats
\* alike; reasoning "default" is the template negotiator, which rates none.
Extraction ==
  [intent    : {"accept", "abuse", "social_engineering", "other"},
   offer     : Int \cup {NoOffer},
   reasoning : Tiers \cup {"default"},
   exposure  : BOOLEAN]

ASSUME MessagesAreExtractions == Messages \subseteq Extraction

\* parseExtraction: what cannot be read is a stall that names no price.
Fallback ==
  [intent |-> "other", offer |-> NoOffer, reasoning |-> "none", exposure |-> FALSE]

Extracted == Messages \cup {Fallback}

\* Seeded fault: a bare yes names no price.
OfferIsNumber(m, ask) ==
  IF m.intent = "social_engineering" THEN NoOffer ELSE m.offer

\* Social engineering carries no price; a bare yes takes the standing ask.
OfferOf(m, ask) ==
  IF m.intent = "social_engineering" THEN NoOffer
  ELSE IF m.intent = "accept" /\ m.offer = NoOffer THEN ask
  ELSE m.offer

\* No caller of decide passes special.
OptsOf(m) ==
  [reasoning |-> m.reasoning, exposure |-> m.exposure, special |-> FALSE]

\* Abuse never reaches the engine.
ActionsOn(m, s, now, endOnRoundsExhausted) ==
  IF m.intent = "abuse" THEN {Walk}
  ELSE Decide(s, OfferOf(m, s.ask), now, OptsOf(m), endOnRoundsExhausted)

\* Seeded fault: the type of the action is stored as the status.
StatusVerbatim(action) == action.type

\* statusForAction
StatusFor(action) ==
  CASE action.type = "accept" -> "accepted"
    [] action.type = "walk"   -> "walked"
    [] OTHER                  -> "open"
=============================================================================
