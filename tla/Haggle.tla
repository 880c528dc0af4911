------------------------------- MODULE Haggle --------------------------------
(***************************************************************************)
(* One negotiation, turn by turn: what the extractor read in the buyer's   *)
(* message, the engine's decision, the next engine state, the reply        *)
(* (pipeline.ts runTurn, negotiator.ts). One actor; Negotiation has the    *)
(* concurrent ones.                                                        *)
(***************************************************************************)
EXTENDS Reply

CONSTANT MaxTurns   \* bound on the rounds of a behaviour

VARIABLES
  kind,       \* "initial", or "reneg": walk when the rounds are exhausted
  session,    \* engine state: round, standing ask, opening time
  status,
  price,      \* the price accepted; 0 before
  now,        \* hours
  reply,      \* the last one: the prices it tells, whether it says it is closed
  earned      \* history: lowest price the moves so far unlock (reachableFloor)

vars == <<kind, session, status, price, now, reply, earned>>

TypeOK ==
  /\ kind \in {"initial", "reneg"}
  /\ session \in [round : Nat, ask : Nat, openedAt : Nat]
  /\ status \in {"open", "accepted", "walked"}
  /\ price \in Nat
  /\ now \in Nat
  /\ reply \in [stated : SUBSET Int, bare : SUBSET Int, closing : Closings]
  /\ earned \in Nat

Init ==
  /\ kind \in {"initial", "reneg"}
  /\ session = OpenSession(0)
  /\ status = "open"
  /\ price = 0
  /\ now = 0
  /\ reply \in Openers
  /\ earned = Anchor

-----------------------------------------------------------------------------
Turn(m) ==
  /\ status = "open"
  /\ session.round < MaxTurns
  /\ \E action \in ActionsOn(m, session, now, kind = "reneg") :
       /\ session' = ApplyAction(session, action)
       /\ status' = StatusFor(action)
       /\ price' = IF action.type = "accept" THEN action.amount ELSE price
       /\ reply' \in RepliesTo(action, m)
  /\ earned' = IF m.intent = "abuse" THEN earned
               ELSE Min2(earned, ReachableFloor(OptsOf(m)))
  /\ UNCHANGED <<kind, now>>

\* Up to one hour past expiry.
Tick ==
  /\ now <= MaxDuration
  /\ now' = now + 1
  /\ UNCHANGED <<kind, session, status, price, reply, earned>>

Next == (\E m \in Extracted : Turn(m)) \/ Tick

Spec == Init /\ [][Next]_vars

-----------------------------------------------------------------------------
(* Properties *)

\* The standing ask stays between what the buyer's moves have unlocked and the
\* anchor: no sequence of offers, stalls, last rounds and yeses talks the engine
\* under the reachable floor of the best case made so far (the floor, at worst).
AskIsEarned == session.ask \in Max2(Floor, earned)..Anchor

\* A closed price is never under the floor, nor under the share of what was
\* earned that the accept threshold forgives (accept, both acceptance branches).
PriceIsEarned ==
  status = "accepted" =>
    /\ price \in Floor..session.ask
    /\ 100 * price >= AcceptThreshold * earned

\* I2: the ask never rises, whatever tiers and offers follow one another.
AskNeverRises == [][session'.ask <= session.ask]_vars

\* A bare yes before expiry seals the deal, in any round and whatever the move is
\* graded, at a price the buyer had just been named: the last reply stated it,
\* although a language model wrote it (runTurn, validate, template).
YesSeals ==
  [][\A m \in Extracted :
       m.intent = "accept" /\ m.offer = NoOffer /\ Turn(m)
         /\ ~Expired(session, now) =>
           status' = "accepted" /\ price' = session.ask /\ price' \in reply.stated]_vars

Table ==
  CASE status = "open"     -> {session.ask}
    [] status = "accepted" -> {price}
    [] OTHER               -> {}

\* Of the prices written as prices, with a dollar sign or a cadence, the buyer
\* reads only the one the turn leaves on the table and its own offer, and a
\* closing phrase comes with a deal unless a "no deal" goes with it: no marked
\* figment of the model passes (validate, pipeline.ts:113-125). Bare prices,
\* closings in other words and those a denial excuses do pass: ReplyLeaksNothing.
ReplyTellsNoOther ==
  [][\A m \in Extracted :
       \/ /\ reply'.closing = "plain" => status' = "accepted"
          /\ reply'.stated \subseteq OwnOffer(m) \cup Table'
       \/ ~Turn(m)]_vars

\* validator.ts:5 "it leaked no number other than the one the policy engine
\* permitted, and that it didn't fabricate an acceptance": no price but the one
\* on the table and the buyer's own is told in any form, and no deal not made.
ReplyLeaksNothing ==
  [][\A m \in Extracted :
       Turn(m) =>
         /\ reply'.closing # "none" => status' = "accepted"
         /\ reply'.stated \cup reply'.bare \subseteq OwnOffer(m) \cup Table']_vars

\* service.ts:794 "a reneg that can't reach agreement terminates into a
\* grandfather settlement": no renegotiation is open once its rounds are over.
RenegTerminates ==
  kind = "reneg" /\ session.round > MaxRounds => status # "open"

\* renderer.ts:187 "guaranteed Validator-safe": the validator passes the template
\* that states the standing ask.
TemplateIsSafe ==
  LET hold == Hold(session.ask)
  IN  Valid(Template(hold), HeardAs(hold.amount), hold, {})
=============================================================================
