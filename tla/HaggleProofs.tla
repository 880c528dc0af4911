---------------------------- MODULE HaggleProofs ----------------------------
(***************************************************************************)
(* Theorems of Haggle for every price ladder, round limit, threshold and   *)
(* set of messages, and for every concession curve with the ranges of      *)
(* roomFactor.                                                             *)
(***************************************************************************)
EXTENDS Haggle, EngineProofs

-----------------------------------------------------------------------------
(* The negotiation *)

IInv == TypeOK /\ AskIsEarned /\ PriceIsEarned

Replies ==
  [stated : SUBSET Int, bare : SUBSET Int, closing : Closings]

\* A reply tells prices that are numbers, the model's as the template's.
LEMMA RenderedTyped ==
  ASSUME NEW action, action.type # "walk" => action.amount \in Int,
         NEW mentions \in SUBSET Int,
         NEW r \in Passing(action, mentions) \cup {Template(action)}
  PROVE  r \in Replies
<1>1. Permitted(action) \subseteq Int
  BY DEF Permitted
<1>2. Figments \subseteq Int
  BY FigmentsArePrices
<1>3. CASE r = Template(action)
  BY <1>1, <1>3 DEF Template, Replies, Closings
<1>4. CASE r \in Passing(action, mentions)
  <2>1. r \in Rendered(action, mentions)
    BY <1>4 DEF Passing
  <2>2. Permitted(action) \cup mentions \cup Figments \subseteq Int
    BY <1>1, <1>2
  <2>. QED
    BY <1>2, <2>1, <2>2 DEF Rendered, Replies
<1>. QED
  BY <1>3, <1>4

LEMMA RepliesTyped ==
  ASSUME NEW m \in Extracted, NEW action, action.type # "walk" => action.amount \in Int,
         NEW r \in RepliesTo(action, m)
  PROVE  r \in Replies
<1>1. OwnOffer(m) \in SUBSET Int
  BY MessagesAreExtractions DEF Extracted, Fallback, Extraction, OwnOffer, Max2
<1>2. r \in Passing(action, OwnOffer(m)) \cup {Template(action)}
  BY DEF RepliesTo
<1>. QED
  BY <1>1, <1>2, RenderedTyped

LEMMA OpenersTyped ==
  ASSUME NEW r \in Openers
  PROVE  r \in Replies
<1>1. r \in Passing(Hold(Anchor), {}) \cup {Template(Hold(Anchor))}
  BY DEF Openers
<1>2. Hold(Anchor).amount \in Int
  BY Ladder DEF Hold
<1>. QED
  BY <1>1, <1>2, RenderedTyped

\* The action a turn takes is sound for the standing ask.
LEMMA TurnSound ==
  ASSUME IInv, NEW m \in Extracted, NEW action \in ActionsOn(m, session, now, kind = "reneg")
  PROVE  /\ Sound(action, session.ask, OptsOf(m))
         /\ m.intent = "abuse" => action.type = "walk"
<1>1. session \in Standing /\ session.ask >= Floor /\ now \in Nat
  BY Ladder DEF IInv, TypeOK, Standing, AskIsEarned, Max2
<1>. QED
  BY <1>1, TurnIsSound

\* A turn keeps the invariant, and the ask does not rise.
LEMMA TurnStep ==
  ASSUME IInv, NEW m \in Extracted, Turn(m)
  PROVE  IInv' /\ session'.ask <= session.ask
<1>. DEFINE reach == ReachableFloor(OptsOf(m))
<1>1. PICK action \in ActionsOn(m, session, now, kind = "reneg") :
        /\ session' = ApplyAction(session, action)
        /\ status' = StatusFor(action)
        /\ price' = IF action.type = "accept" THEN action.amount ELSE price
        /\ reply' \in RepliesTo(action, m)
  BY DEF Turn
<1>2. /\ session \in Standing /\ session.ask \in Nat /\ session.ask >= Floor
      /\ session.ask >= earned /\ session.ask <= Anchor
      /\ earned \in Nat /\ now \in Nat /\ price \in Nat
  BY Ladder DEF IInv, TypeOK, Standing, AskIsEarned, Max2
<1>3. OptsOf(m) \in Opts /\ OfferOf(m, session.ask) \in Int \cup {NoOffer}
  BY <1>2, MessageTypes
<1>4. reach \in Nat /\ reach >= Floor
  BY <1>3, ReachableFloorRange, Ladder
<1>5. /\ earned' \in Nat /\ earned' <= earned
      /\ m.intent # "abuse" => earned' <= reach
  BY <1>2, <1>4 DEF Turn, Min2
<1>6. /\ Sound(action, session.ask, OptsOf(m))
      /\ m.intent = "abuse" => action.type = "walk"
  BY TurnSound
<1>7. /\ session' \in Standing
      /\ session'.ask <= session.ask
      /\ session'.ask >= Max2(Floor, earned')
  <2>1. CASE action.type = "counter"
    <3>1. session' = [session EXCEPT !.round = @ + 1, !.ask = action.amount]
      BY <1>1, <2>1 DEF ApplyAction
    <3>2. action.amount \in Nat /\ action.amount \in reach..session.ask
      BY <1>6, <2>1 DEF Sound
    <3>3. session'.ask = action.amount /\ session' \in Standing
      <4>1. session' = [round |-> session.round + 1, ask |-> action.amount,
                        openedAt |-> session.openedAt]
        BY <1>2, <3>1 DEF Standing
      <4>. QED
        BY <1>2, <3>2, <4>1 DEF Standing
    <3>. QED
      BY <1>2, <1>4, <1>5, <1>6, <2>1, <3>2, <3>3, Ladder DEF Max2
  <2>2. CASE action.type # "counter"
    <3>1. session'.ask = session.ask /\ session' \in Standing
      BY <1>1, <1>2, <2>2 DEF ApplyAction, Standing
    <3>. QED
      BY <1>2, <1>5, <3>1, Ladder DEF Max2
  <2>. QED
    BY <2>1, <2>2
<1>8. TypeOK'
  <2>1. price' \in Nat
    BY <1>1, <1>2, <1>6 DEF Sound
  <2>2. status' \in {"open", "accepted", "walked"}
    BY <1>1 DEF StatusFor
  <2>3. reply' \in Replies
    <3>1. action.type # "walk" => action.amount \in Int
      BY <1>2, <1>6 DEF Sound
    <3>. QED
      BY <1>1, <3>1, RepliesTyped
  <2>. QED
    BY <1>5, <1>7, <2>1, <2>2, <2>3 DEF Turn, IInv, TypeOK, Standing, Replies
<1>9. AskIsEarned'
  BY <1>2, <1>5, <1>7, Ladder DEF AskIsEarned, Standing, Max2
<1>10. PriceIsEarned'
  <2>. SUFFICES ASSUME status' = "accepted" PROVE PriceIsEarned'
    BY DEF PriceIsEarned
  <2>1. action.type = "accept" /\ m.intent # "abuse"
    BY <1>1, <1>6 DEF StatusFor
  <2>2. price' = action.amount /\ session' = session
    BY <1>1, <2>1 DEF ApplyAction
  <2>3. /\ price' \in Nat /\ price' \in Floor..session'.ask
        /\ \/ 100 * price' >= AcceptThreshold * session.ask
           \/ price' >= reach
    BY <1>6, <2>1, <2>2 DEF Sound
  <2>4. CASE 100 * price' >= AcceptThreshold * session.ask
    <3>1. /\ AcceptThreshold * earned' <= AcceptThreshold * session.ask
          /\ AcceptThreshold * earned' \in Nat /\ AcceptThreshold * session.ask \in Nat
      BY <1>2, <1>5, ThresholdIsShare
    <3>2. 100 * price' >= AcceptThreshold * earned'
      BY <2>3, <2>4, <3>1
    <3>. QED
      BY <2>3, <3>2 DEF PriceIsEarned
  <2>5. CASE price' >= reach
    <3>1. AcceptThreshold * earned' <= 100 * earned' /\ AcceptThreshold * earned' \in Nat
      BY <1>5, ThresholdIsShare
    <3>2. 100 * price' >= AcceptThreshold * earned'
      BY <1>4, <1>5, <2>1, <2>3, <2>5, <3>1
    <3>. QED
      BY <2>3, <3>2 DEF PriceIsEarned
  <2>. QED
    BY <2>3, <2>4, <2>5
<1>. QED
  BY <1>7, <1>8, <1>9, <1>10 DEF IInv

\* A fresh session is at the anchor, where nothing is earned yet.
LEMMA InitInv == Init => IInv
<1>. SUFFICES ASSUME Init PROVE IInv
  OBVIOUS
<1>1. reply \in Replies
  BY OpenersTyped DEF Init
<1>. QED
  BY <1>1, Ladder
     DEF Init, OpenSession, IInv, TypeOK, AskIsEarned, PriceIsEarned, Max2, Replies

\* Every step keeps the invariant.
LEMMA NextInv ==
  ASSUME IInv, [Next]_vars
  PROVE  IInv' /\ session'.ask <= session.ask
<1>1. ASSUME NEW m \in Extracted, Turn(m)
      PROVE  IInv' /\ session'.ask <= session.ask
  BY <1>1, TurnStep
<1>2. CASE Tick \/ UNCHANGED vars
  <2>1. /\ UNCHANGED <<kind, session, status, price, reply, earned>>
        /\ now' \in Nat
    BY <1>2 DEF Tick, vars, IInv, TypeOK
  <2>. QED
    BY <2>1 DEF IInv, TypeOK, AskIsEarned, PriceIsEarned
<1>. QED
  BY <1>1, <1>2 DEF Next

\* Types, the earned ask and the earned price hold together in every state of a
\* negotiation.
THEOREM Invariance == Spec => []IInv
<1>1. IInv /\ [Next]_vars => IInv'
  BY NextInv
<1>. QED
  BY <1>1, InitInv, PTL DEF Spec

\* The types of the state: round and ask stay naturals, a reply states numbers.
THEOREM TypeCorrect == Spec => []TypeOK
<1>1. IInv => TypeOK
  BY DEF IInv
<1>. QED
  BY <1>1, Invariance, PTL

\* I1 and the tiers: no sequence of messages talks the ask under the floor, nor
\* under what the best case made so far unlocks (decide, reachableFloor).
THEOREM AskEarned == Spec => []AskIsEarned
<1>1. IInv => AskIsEarned
  BY DEF IInv
<1>. QED
  BY <1>1, Invariance, PTL

\* I1: a deal never closes under the floor, nor over the standing ask, nor under
\* the accept threshold's share of what was earned (both accept branches).
THEOREM PriceEarned == Spec => []PriceIsEarned
<1>1. IInv => PriceIsEarned
  BY DEF IInv
<1>. QED
  BY <1>1, Invariance, PTL

\* I2: the engine never raises its ask, in whatever order tiers, offers, stalls
\* and last rounds come.
THEOREM AskMonotone == Spec => AskNeverRises
<1>1. IInv /\ [Next]_vars => [session'.ask <= session.ask]_vars
  BY NextInv
<1>. QED
  BY <1>1, Invariance, PTL DEF Spec, AskNeverRises

-----------------------------------------------------------------------------
(* What the validator hears *)

\* Prices under a thousand dollars. From there up the validator's dollar pattern
\* stops after three digits: with $240 on the table, a figment of "$2400" is heard
\* as $240 and passes, and with $123.00 on the table and $1234.00 the buyer's own
\* offer, a reply that names only the offer is heard to name both.
Small == {a \in Int : a < 100000}

PricesUnderAThousand ==
  /\ Anchor \in Small /\ Figments \subseteq Small
  /\ \A m \in Messages : m.offer # NoOffer => m.offer \in Small

\* Prices under a thousand dollars are heard as they are stated.
LEMMA HeardAsStated ==
  ASSUME NEW r, r.stated \subseteq Small, NEW heard \in Hearings(r)
  PROVE  heard = r.stated
<1>1. \A a \in r.stated : HeardAs(a) = {a}
  BY DEF HeardAs, Small
<1>2. heard \subseteq r.stated
  BY <1>1 DEF Hearings
<1>3. \A a \in r.stated : a \in heard
  BY <1>1 DEF Hearings
<1>. QED
  BY <1>2, <1>3

\* So what passes states the permitted price, the buyer's own at most beside it,
\* and closes plainly with an accept only, as the template does.
LEMMA PassingTells ==
  ASSUME PricesUnderAThousand, NEW action, Permitted(action) \subseteq Small,
         NEW mentions, mentions \subseteq Small,
         NEW r \in Passing(action, mentions) \cup {Template(action)}
  PROVE  /\ Permitted(action) \subseteq r.stated
         /\ r.stated \subseteq Permitted(action) \cup mentions
         /\ r.closing = "plain" => action.type = "accept"
<1>1. CASE r = Template(action)
  BY <1>1 DEF Template
<1>2. CASE r \in Passing(action, mentions)
  <2>1. PICK heard \in Hearings(r) : Valid(r, heard, action, mentions)
    BY <1>2 DEF Passing
  <2>2. r.stated \subseteq Permitted(action) \cup mentions \cup Figments
    BY <1>2 DEF Passing, Rendered
  <2>3. r.stated \subseteq Small
    BY <2>2 DEF PricesUnderAThousand
  <2>4. heard = r.stated
    BY <2>1, <2>3, HeardAsStated
  <2>. QED
    BY <2>1, <2>4 DEF Valid
<1>. QED
  BY <1>1, <1>2

\* The buyer's own offer is under a thousand dollars too, whatever was read.
LEMMA OwnOfferUnder ==
  ASSUME PricesUnderAThousand, NEW m \in Extracted
  PROVE  OwnOffer(m) \subseteq Small
<1>1. CASE m.offer = NoOffer
  BY <1>1 DEF OwnOffer
<1>2. CASE m.offer # NoOffer
  <2>1. m \in Messages
    BY <1>2 DEF Extracted, Fallback
  <2>2. m.offer \in Small
    BY <1>2, <2>1 DEF PricesUnderAThousand
  <2>. QED
    BY <1>2, <2>2 DEF OwnOffer, Max2, Small
<1>. QED
  BY <1>1, <1>2

\* The price an action of a turn permits is under a thousand dollars.
LEMMA PermittedUnder ==
  ASSUME PricesUnderAThousand, IInv, NEW m \in Extracted,
         NEW action, Sound(action, session.ask, OptsOf(m))
  PROVE  Permitted(action) \subseteq Small
<1>1. session.ask \in Nat /\ session.ask <= Anchor
  BY Ladder DEF IInv, TypeOK, AskIsEarned, Max2
<1>2. ReachableFloor(OptsOf(m)) \in Nat
  <2>1. OptsOf(m) \in Opts
    BY <1>1, MessageTypes
  <2>. QED
    BY <2>1, ReachableFloorRange
<1>3. action.type # "walk" => action.amount \in Nat /\ action.amount <= session.ask
  BY <1>1, <1>2, Ladder DEF Sound
<1>4. Anchor \in Int /\ Anchor < 100000
  BY DEF PricesUnderAThousand, Small
<1>. QED
  BY <1>1, <1>3, <1>4 DEF Permitted, Small

-----------------------------------------------------------------------------
(* What the buyer reads *)

\* A turn marks no other price than the one it leaves on the table.
LEMMA TurnTellsNoOther ==
  ASSUME PricesUnderAThousand, IInv, NEW m \in Extracted, Turn(m)
  PROVE  /\ reply'.closing = "plain" => status' = "accepted"
         /\ reply'.stated \subseteq OwnOffer(m) \cup Table'
<1>1. PICK action \in ActionsOn(m, session, now, kind = "reneg") :
        /\ session' = ApplyAction(session, action)
        /\ status' = StatusFor(action)
        /\ price' = IF action.type = "accept" THEN action.amount ELSE price
        /\ reply' \in RepliesTo(action, m)
  BY DEF Turn
<1>2. Sound(action, session.ask, OptsOf(m))
  BY TurnSound
<1>3. /\ reply'.stated \subseteq OwnOffer(m) \cup Permitted(action)
      /\ reply'.closing = "plain" => action.type = "accept"
  <2>1. OwnOffer(m) \subseteq Small /\ Permitted(action) \subseteq Small
    BY <1>2, OwnOfferUnder, PermittedUnder
  <2>2. reply' \in Passing(action, OwnOffer(m)) \cup {Template(action)}
    BY <1>1 DEF RepliesTo
  <2>. QED
    BY <2>1, <2>2, PassingTells
<1>4. CASE action.type = "accept"
  BY <1>1, <1>3, <1>4 DEF StatusFor, Permitted, Table
<1>5. CASE action.type = "walk"
  BY <1>1, <1>3, <1>5 DEF StatusFor, Permitted
<1>6. CASE action.type = "hold"
  <2>1. session'.ask = action.amount
    BY <1>1, <1>2, <1>6 DEF ApplyAction, Sound, IInv, TypeOK
  <2>. QED
    BY <1>1, <1>3, <1>6, <2>1 DEF StatusFor, Permitted, Table
<1>7. CASE action.type = "counter"
  <2>1. session'.ask = action.amount
    BY <1>1, <1>7 DEF ApplyAction, IInv, TypeOK
  <2>. QED
    BY <1>1, <1>3, <1>7, <2>1 DEF StatusFor, Permitted, Table
<1>. QED
  BY <1>2, <1>4, <1>5, <1>6, <1>7 DEF Sound

\* No price with a dollar sign or a cadence but the one on the table and the
\* buyer's own reaches the buyer, and no closing phrase without a "no deal" comes
\* but with a deal, as long as every price that may be written is under a thousand
\* dollars. Prices without a mark are not among those spoken of.
THEOREM TellsNoOther ==
  ASSUME PricesUnderAThousand
  PROVE  Spec => ReplyTellsNoOther
<1> DEFINE Tells ==
      \A m \in Extracted :
        \/ /\ reply'.closing = "plain" => status' = "accepted"
           /\ reply'.stated \subseteq OwnOffer(m) \cup Table'
        \/ ~Turn(m)
<1>1. IInv /\ [Next]_vars => [Tells]_vars
  BY TurnTellsNoOther
<1>. QED
  BY <1>1, Invariance, PTL DEF Spec, ReplyTellsNoOther

-----------------------------------------------------------------------------
(* The price a yes takes *)

\* An open negotiation stands at a price the last reply stated.
AskIsNamed == status = "open" => session.ask \in reply.stated

\* A turn that leaves the negotiation open names the ask it leaves.
LEMMA TurnNames ==
  ASSUME PricesUnderAThousand, IInv, NEW m \in Extracted, Turn(m)
  PROVE  AskIsNamed'
<1>1. PICK action \in ActionsOn(m, session, now, kind = "reneg") :
        /\ session' = ApplyAction(session, action)
        /\ status' = StatusFor(action)
        /\ reply' \in RepliesTo(action, m)
  BY DEF Turn
<1>. SUFFICES ASSUME status' = "open" PROVE session'.ask \in reply'.stated
  BY DEF AskIsNamed
<1>2. Sound(action, session.ask, OptsOf(m))
  BY <1>1, TurnSound
<1>3. action.type \in {"hold", "counter"}
  BY <1>1, <1>2 DEF Sound, StatusFor
<1>4. session \in Standing /\ session.ask \in Nat
  BY DEF IInv, TypeOK, Standing
<1>5. session'.ask = action.amount
  BY <1>1, <1>2, <1>3, <1>4 DEF ApplyAction, Sound, Standing
<1>6. Permitted(action) \subseteq reply'.stated
  <2>1. OwnOffer(m) \subseteq Small /\ Permitted(action) \subseteq Small
    BY <1>2, OwnOfferUnder, PermittedUnder
  <2>2. reply' \in Passing(action, OwnOffer(m)) \cup {Template(action)}
    BY <1>1 DEF RepliesTo
  <2>. QED
    BY <2>1, <2>2, PassingTells
<1>. QED
  BY <1>3, <1>5, <1>6 DEF Permitted

\* The opener names the anchor.
LEMMA OpenerNames ==
  ASSUME PricesUnderAThousand, Init
  PROVE  AskIsNamed
<1>. DEFINE hold == Hold(Anchor)
<1>1. hold.type = "hold" /\ hold.amount = Anchor
  BY DEF Hold
<1>2. Permitted(hold) \subseteq Small
  BY <1>1 DEF Permitted, PricesUnderAThousand
<1>3. reply \in Passing(hold, {}) \cup {Template(hold)}
  BY DEF Init, Openers
<1>. HIDE DEF hold
<1>4. Permitted(hold) \subseteq reply.stated
  BY <1>2, <1>3, PassingTells
<1>5. session.ask = Anchor
  BY DEF Init, OpenSession
<1>. QED
  BY <1>1, <1>4, <1>5 DEF AskIsNamed, Permitted

\* A bare yes before expiry is answered with an accept of the standing ask.
LEMMA YesAccepts ==
  ASSUME IInv, NEW m \in Extracted, m.intent = "accept", m.offer = NoOffer,
         ~Expired(session, now), NEW endOn \in BOOLEAN
  PROVE  ActionsOn(m, session, now, endOn) = {Accept(session.ask)}
<1>1. session.ask \in Nat /\ session.ask >= Floor
  BY Ladder DEF IInv, TypeOK, AskIsEarned, Max2
<1>2. OfferOf(m, session.ask) = session.ask
  BY DEF OfferOf
<1>3. session.ask # NoOffer
  BY <1>1, Ladder
<1>4. Max2(session.ask, 0) = session.ask /\ Min2(session.ask, session.ask) = session.ask
  BY <1>1 DEF Max2, Min2
<1>5. Acceptable(session.ask, session.ask)
  <2>1. AcceptThreshold * session.ask <= 100 * session.ask
    BY <1>1, ThresholdIsShare
  <2>. QED
    BY <1>1, <2>1, Ladder, ThresholdIsShare DEF Acceptable
<1>6. DecideOffer(session, session.ask, OptsOf(m), endOn) = {Accept(session.ask)}
  BY <1>4, <1>5 DEF DecideOffer
<1>. QED
  BY <1>2, <1>3, <1>4, <1>6 DEF ActionsOn, Decide

\* A bare yes seals the deal at the price the last reply stated, in any round and
\* after any moves, whatever the language model writes, as long as no price of the
\* plan, no offer and no figment of the model reaches a thousand dollars (runTurn, validate, decide).
THEOREM YesTakesTheNamedPrice ==
  ASSUME PricesUnderAThousand
  PROVE  Spec => YesSeals
<1>. DEFINE Seals ==
       \A m \in Extracted :
         m.intent = "accept" /\ m.offer = NoOffer /\ Turn(m)
           /\ ~Expired(session, now) =>
             status' = "accepted" /\ price' = session.ask /\ price' \in reply.stated
<1>1. Init => AskIsNamed
  BY OpenerNames
<1>2. AskIsNamed /\ IInv /\ [Next]_vars => AskIsNamed'
  <2>. SUFFICES ASSUME AskIsNamed, IInv, [Next]_vars PROVE AskIsNamed'
    OBVIOUS
  <2>1. ASSUME NEW m \in Extracted, Turn(m) PROVE AskIsNamed'
    BY <2>1, TurnNames
  <2>2. CASE Tick \/ UNCHANGED vars
    BY <2>2 DEF Tick, vars, AskIsNamed
  <2>. QED
    BY <2>1, <2>2 DEF Next
<1>3. AskIsNamed /\ IInv => Seals
  <2>. SUFFICES ASSUME AskIsNamed, IInv, NEW m \in Extracted, m.intent = "accept",
                       m.offer = NoOffer, Turn(m), ~Expired(session, now)
                PROVE  /\ status' = "accepted" /\ price' = session.ask
                       /\ price' \in reply.stated
    OBVIOUS
  <2>1. ActionsOn(m, session, now, kind = "reneg") = {Accept(session.ask)}
    BY YesAccepts
  <2>2. PICK action \in {Accept(session.ask)} :
          /\ status' = StatusFor(action)
          /\ price' = IF action.type = "accept" THEN action.amount ELSE price
    BY <2>1 DEF Turn
  <2>3. action.type = "accept" /\ action.amount = session.ask
    BY DEF Accept
  <2>4. status = "open"
    BY DEF Turn
  <2>. QED
    BY <2>2, <2>3, <2>4 DEF StatusFor, AskIsNamed
<1>4. AskIsNamed /\ IInv /\ [Next]_vars => [Seals]_vars
  BY <1>3
<1>. QED
  BY <1>1, <1>2, <1>4, Invariance, PTL DEF Spec, YesSeals
=============================================================================
