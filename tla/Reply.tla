-------------------------------- MODULE Reply --------------------------------
(***************************************************************************)
(* The reply that leaves with an action (validator.ts, pipeline.ts runTurn *)
(* steps 4 and 5, renderer.ts template). The language model may write any; *)
(* the validator reads of it what its patterns hear; a template stands in  *)
(* for what it refuses. A reply is                                         *)
(*   stated  the prices marked with a dollar sign or a cadence,            *)
(*   bare    the prices told without a mark ("24 flat", "twenty-four"),    *)
(*   closing whether some phrase of ACCEPT_RE occurs in it, and then       *)
(*           whether it is excused by a "no deal" of NEGATED_ACCEPT_RE.    *)
(***************************************************************************)
EXTENDS Pipeline

CONSTANT Figments   \* prices the language model makes up

ASSUME FigmentsArePrices == Figments \subseteq Nat

\* permittedAmount, as a set: a walk may state none.
Permitted(action) == IF action.type = "walk" THEN {} ELSE {action.amount}

\* allowMentions: a reply may quote the buyer's own offer.
OwnOffer(m) == IF m.offer = NoOffer THEN {} ELSE {Max2(m.offer, 0)}

-----------------------------------------------------------------------------
(* What the patterns hear *)

\* The first three digits of a price written out without a comma, all that the
\* dollar pattern takes.
Leading(amount) ==
  100 * CHOOSE n \in 100..999 : \E k \in 1..4 : n = amount \div (100 * 10^k)

\* The amounts a marked price may be heard as: $2,400 is heard as itself, $2400
\* as $240, and $2400/mo as both, the cadence pattern taking every digit.
HeardAs(amount) ==
  IF amount < 100000 THEN {amount} ELSE {amount, Leading(amount)}

\* What may be heard of a reply, of each price at least one amount, as it is
\* written. A bare price is not heard.
Hearings(reply) ==
  {heard \in SUBSET UNION {HeardAs(a) : a \in reply.stated} :
     \A a \in reply.stated : heard \cap HeardAs(a) # {}}

\* Seeded fault: what is heard is not compared with what is permitted.
ValidLoose(reply, heard, action, mentions) ==
  /\ Permitted(action) \subseteq heard
  /\ reply.closing = "plain" => action.type = "accept"

\* validate: no other price is heard, the permitted one is, and a closing phrase
\* is for an accept, unless a "no deal" anywhere in the text excuses it.
Valid(reply, heard, action, mentions) ==
  /\ heard \subseteq Permitted(action) \cup mentions
  /\ Permitted(action) \subseteq heard
  /\ reply.closing = "plain" => action.type = "accept"

-----------------------------------------------------------------------------
(* What is sent *)

Closings == {"none", "plain", "excused"}

\* The language model knows the price it was told and whatever the buyer said,
\* and makes up others.
Rendered(action, mentions) ==
  [stated  : SUBSET (Permitted(action) \cup mentions \cup Figments),
   bare    : SUBSET Figments,
   closing : Closings]

\* "$n/mo", and a closing line on an accept only.
Template(action) ==
  [stated |-> Permitted(action), bare |-> {},
   closing |-> IF action.type = "accept" THEN "plain" ELSE "none"]

Passing(action, mentions) ==
  {r \in Rendered(action, mentions) :
     \E heard \in Hearings(r) : Valid(r, heard, action, mentions)}

\* Two renderings, the first that is valid, or else the template.
RepliesTo(action, m) == Passing(action, OwnOffer(m)) \cup {Template(action)}

\* The opener states the anchor, as a hold on it would.
Openers == Passing(Hold(Anchor), {}) \cup {Template(Hold(Anchor))}
=============================================================================
