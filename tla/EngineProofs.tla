---------------------------- MODULE EngineProofs ----------------------------
(***************************************************************************)
(* What one turn of the engine may do, for every price ladder, round       *)
(* limit, threshold and set of messages, and for every concession curve    *)
(* with the ranges of roomFactor.                                          *)
(***************************************************************************)
EXTENDS Pipeline, TLAPS

Opts == [reasoning : Tiers \cup {"default"}, exposure : BOOLEAN, special : BOOLEAN]

\* What a session keeps for the engine.
Standing == [round : Nat, ask : Nat, openedAt : Nat]

-----------------------------------------------------------------------------
(* Concession *)

\* What a move can unlock lies between the floor and the target (reachableFloor).
LEMMA ReachableFloorRange ==
  ASSUME NEW opts \in Opts
  PROVE  ReachableFloor(opts) \in Nat /\ ReachableFloor(opts) \in Floor..Target
<1>1. TierFloor("moderate") \in Floor..Target
  BY Ladder DEF TierFloor, Rounded
<1>2. TierFloor(TierOf(opts)) \in Floor..Target
  BY <1>1, Ladder DEF TierFloor, Rounded
<1>. QED
  BY <1>2, Ladder DEF ReachableFloor, Max2

\* A move pulls with a natural weight (PULL_WEIGHT_BY_TIER).
LEMMA WeightRange ==
  ASSUME NEW opts \in Opts
  PROVE  PullWeight(opts) \in Nat
<1>1. TierOf(opts) \in Tiers
  BY DEF TierOf, Opts, Tiers
<1>2. \A t \in Tiers : TierWeight[t] \in Nat
  BY DEF Tiers, TierWeight
<1>. QED
  BY <1>1, <1>2 DEF PullWeight

\* The pulls of a weight are naturals, whatever the room factor (pullToward).
LEMMA PullRange ==
  ASSUME NEW cents \in Nat, NEW weight \in Nat
  PROVE  /\ PullMin(cents, weight) \in Nat
         /\ PullMax(cents, weight) \in Nat
<1>1. RoomMin(cents) \in {20, 55, 100} /\ RoomMax(cents) \in {20, 55, 100}
  BY DEF RoomMin, RoomMax
<1>2. \A room \in {20, 55, 100} : Min2(weight * room, 6000) \in Nat
  BY DEF Min2
<1>. QED
  BY <1>1, <1>2 DEF PullMin, PullMax, MaxPull

\* A pull lands between its bound and the ask.
LEMMA LandingRange ==
  ASSUME NEW current \in Nat, NEW offer \in Int, NEW bound \in Nat,
         NEW pull \in Nat, offer < current, bound <= current
  PROVE  Landing(current, offer, pull, bound) \in bound..current
<1>. DEFINE given == (current - offer) * pull
<1>1. given \in Int /\ given >= 0
  BY Z3
<1>. HIDE DEF given
<1>2. Rounded(10000 * current - given, 10000) \in Int
  BY <1>1 DEF Rounded
<1>3. Rounded(10000 * current - given, 10000) <= current
  BY <1>1 DEF Rounded
<1>. QED
  BY <1>2, <1>3 DEF Landing, Max2, given

\* Every price pullToward may return lies between its bound and the ask.
LEMMA PullTowardRange ==
  ASSUME NEW current \in Nat, NEW offer \in Int, NEW bound \in Nat,
         NEW weight \in Nat, bound <= current,
         NEW a \in PullToward(current, offer, weight, bound)
  PROVE  a \in bound..current
<1>1. CASE offer >= current
  BY <1>1 DEF PullToward
<1>2. CASE offer < current
  <2>1. /\ Landing(current, offer, PullMax(current, weight), bound) \in bound..current
        /\ Landing(current, offer, PullMin(current, weight), bound) \in bound..current
    <3>1. /\ PullMin(current, weight) \in Nat
          /\ PullMax(current, weight) \in Nat
      BY PullRange
    <3>. QED
      BY <1>2, <3>1, LandingRange
  <2>. QED
    BY <1>2, <2>1 DEF PullToward
<1>. QED
  BY <1>1, <1>2

-----------------------------------------------------------------------------
(* decide *)

\* What an action may do to an ask that the moves opts are made against.
Sound(action, ask, opts) ==
  /\ action.type \in {"walk", "hold", "accept", "counter"}
  /\ action.type = "counter" =>
       action.amount \in Nat /\ action.amount \in ReachableFloor(opts)..ask
  /\ action.type = "accept" =>
       /\ action.amount \in Nat /\ action.amount \in Floor..ask
       /\ \/ 100 * action.amount >= AcceptThreshold * ask
          \/ action.amount >= ReachableFloor(opts)
  /\ action.type = "hold" => action.amount = ask

\* The accept threshold is a monotone share of a price, and no more than all of it.
LEMMA ThresholdIsShare ==
  ASSUME NEW a \in Nat, NEW b \in Nat, a <= b
  PROVE  /\ AcceptThreshold * a \in Nat
         /\ AcceptThreshold * a <= AcceptThreshold * b
         /\ AcceptThreshold * a <= 100 * a
BY Ladder, Z3

\* Without a number on the table decide stays sound: it holds or pulls to the bound.
LEMMA DecideNoOfferSound ==
  ASSUME NEW s \in Standing, s.ask >= Floor, NEW opts \in Opts,
         NEW action \in DecideNoOffer(s, opts)
  PROVE  Sound(action, s.ask, opts)
<1>. DEFINE bound == ReachableFloor(opts)
<1>1. s.ask \in Nat /\ bound \in Nat
  BY ReachableFloorRange DEF Standing
<1>2. CASE action = Hold(s.ask)
  BY <1>2 DEF Sound, Hold
<1>3. ASSUME NEW a \in PullToward(s.ask, bound, PullWeight(opts), bound),
             Moves(a, s.ask), action = Counter(a, FALSE, FALSE)
      PROVE  Sound(action, s.ask, opts)
  <2>1. bound < s.ask
    BY <1>1, <1>3 DEF PullToward, Moves
  <2>2. PullWeight(opts) \in Nat
    BY WeightRange
  <2>3. a \in bound..s.ask
    <3>. HIDE DEF bound
    <3>. QED
      BY <1>1, <1>3, <2>1, <2>2, PullTowardRange
  <2>. QED
    BY <1>1, <1>3, <2>3 DEF Sound, Counter
<1>. QED
  BY <1>2, <1>3 DEF DecideNoOffer

\* On any offer decide stays sound, in every one of its branches.
LEMMA DecideOfferSound ==
  ASSUME NEW s \in Standing, s.ask >= Floor, NEW opts \in Opts, NEW u \in Nat,
         NEW endOn \in BOOLEAN, NEW action \in DecideOffer(s, u, opts, endOn)
  PROVE  Sound(action, s.ask, opts)
<1>. DEFINE bound == ReachableFloor(opts)
<1>1. s.ask \in Nat /\ bound \in Nat /\ bound >= Floor
  BY ReachableFloorRange, Ladder DEF Standing
<1>2. CASE Acceptable(u, s.ask)
  <2>1. action = Accept(Min2(u, s.ask))
    BY <1>2 DEF DecideOffer
  <2>2. 100 * s.ask >= AcceptThreshold * s.ask
    BY <1>1, ThresholdIsShare
  <2>3. /\ Min2(u, s.ask) \in Nat /\ Min2(u, s.ask) \in Floor..s.ask
        /\ 100 * Min2(u, s.ask) >= AcceptThreshold * s.ask
    BY <1>1, <1>2, <2>2, Ladder DEF Acceptable, Min2
  <2>. QED
    BY <2>1, <2>3 DEF Sound, Accept
<1>3. CASE action = Hold(s.ask) \/ action = Walk
  BY <1>3 DEF Sound, Hold, Walk
<1>4. CASE /\ ~Acceptable(u, s.ask) /\ ~Insulting(u, s.ask)
           /\ ~BottomedOut(s.ask, bound)
  <2>1. u >= Floor /\ bound <= s.ask
    BY <1>1, <1>4, Ladder DEF Insulting, BottomedOut
  <2>2. u < s.ask
    <3>1. AcceptThreshold * s.ask <= 100 * s.ask /\ AcceptThreshold * s.ask \in Nat
      BY <1>1, ThresholdIsShare
    <3>. QED
      BY <1>1, <1>4, <2>1, <3>1 DEF Acceptable
  <2>3. \A a \in PullToward(s.ask, u, PullWeight(opts), bound) : a \in bound..s.ask
    <3>1. PullWeight(opts) \in Nat
      BY WeightRange
    <3>. HIDE DEF bound
    <3>. QED
      BY <1>1, <2>1, <3>1, PullTowardRange
  <2>4. CASE action \in DecideLastRound(s, u, opts, endOn)
    <3>1. PICK a \in PullToward(s.ask, u, PullWeight(opts), bound) :
            action = IF u >= a THEN Accept(Max2(u, Floor))
                     ELSE IF s.round < MaxRounds THEN Counter(a, TRUE, FALSE)
                     ELSE IF endOn THEN Walk ELSE Hold(s.ask)
      BY <2>4 DEF DecideLastRound
    <3>2. CASE u >= a
      <4>1. action = Accept(u)
        BY <2>1, <3>1, <3>2 DEF Max2
      <4>2. u >= bound
        BY <1>1, <2>3, <3>1, <3>2
      <4>. QED
        BY <1>1, <2>1, <2>2, <4>1, <4>2, Ladder DEF Sound, Accept
    <3>3. CASE action = Counter(a, TRUE, FALSE)
      BY <1>1, <2>3, <3>1, <3>3 DEF Sound, Counter
    <3>. QED
      BY <1>3, <3>1, <3>2, <3>3
  <2>5. CASE action \in DecideCounter(s, u, opts)
    <3>1. PICK a \in PullToward(s.ask, u, PullWeight(opts), bound) :
            action = IF Moves(a, s.ask) THEN Counter(a, FALSE, Agreed(a, u))
                     ELSE Hold(s.ask)
      BY <2>5 DEF DecideCounter
    <3>2. CASE action = Counter(a, FALSE, Agreed(a, u))
      BY <1>1, <2>3, <3>1, <3>2 DEF Sound, Counter
    <3>. QED
      BY <1>3, <3>1, <3>2
  <2>. QED
    BY <1>4, <2>4, <2>5 DEF DecideOffer
<1>. QED
  BY <1>2, <1>3, <1>4 DEF DecideOffer

\* decide is sound on every state, offer, tier and clock.
LEMMA DecideSound ==
  ASSUME NEW s \in Standing, s.ask >= Floor, NEW opts \in Opts,
         NEW offer \in Int \cup {NoOffer}, NEW t \in Nat, NEW endOn \in BOOLEAN,
         NEW action \in Decide(s, offer, t, opts, endOn)
  PROVE  Sound(action, s.ask, opts)
<1>1. CASE action = Walk
  BY <1>1 DEF Sound, Walk
<1>2. CASE action \in DecideNoOffer(s, opts)
  BY <1>2, DecideNoOfferSound
<1>3. CASE offer # NoOffer /\ action \in DecideOffer(s, Max2(offer, 0), opts, endOn)
  <2>1. Max2(offer, 0) \in Nat
    BY <1>3 DEF Max2
  <2>. QED
    BY <1>3, <2>1, DecideOfferSound
<1>. QED
  BY <1>1, <1>2, <1>3 DEF Decide

-----------------------------------------------------------------------------
(* A turn *)

\* What runTurn makes of an extraction is what decide takes.
LEMMA MessageTypes ==
  ASSUME NEW m \in Extracted, NEW ask \in Nat
  PROVE  OptsOf(m) \in Opts /\ OfferOf(m, ask) \in Int \cup {NoOffer}
<1>1. m \in Extraction
  <2>1. Fallback \in Extraction
    BY DEF Fallback, Extraction, Tiers
  <2>. QED
    BY <2>1, MessagesAreExtractions DEF Extracted
<1>2. OptsOf(m) \in Opts
  BY <1>1 DEF OptsOf, Opts, Extraction
<1>3. OfferOf(m, ask) \in Int \cup {NoOffer}
  BY <1>1 DEF OfferOf, Extraction
<1>. QED
  BY <1>2, <1>3

\* The action a turn takes is sound for its ask, and abuse walks.
LEMMA TurnIsSound ==
  ASSUME NEW m \in Extracted, NEW s \in Standing, s.ask >= Floor, NEW t \in Nat,
         NEW endOn \in BOOLEAN, NEW action \in ActionsOn(m, s, t, endOn)
  PROVE  /\ Sound(action, s.ask, OptsOf(m))
         /\ m.intent = "abuse" => action.type = "walk"
<1>1. CASE m.intent = "abuse"
  BY <1>1 DEF ActionsOn, Sound, Walk
<1>2. CASE m.intent # "abuse"
  <2>1. s.ask \in Nat
    BY DEF Standing
  <2>2. OptsOf(m) \in Opts /\ OfferOf(m, s.ask) \in Int \cup {NoOffer}
    BY <2>1, MessageTypes
  <2>. QED
    BY <1>2, <2>2, DecideSound DEF ActionsOn
<1>. QED
  BY <1>1, <1>2

\* What a sound action leaves of the standing: the ask does not rise, and stays
\* over what the move has unlocked.
LEMMA ApplyKeeps ==
  ASSUME NEW opts \in Opts, NEW s \in Standing, s.ask >= Floor,
         NEW action, Sound(action, s.ask, opts)
  PROVE  /\ ApplyAction(s, action) \in Standing
         /\ ApplyAction(s, action).ask <= s.ask
         /\ ApplyAction(s, action).ask >= Floor
<1>1. CASE action.type = "counter"
  <2>1. action.amount \in Nat /\ action.amount \in ReachableFloor(opts)..s.ask
    BY <1>1 DEF Sound
  <2>2. ReachableFloor(opts) \in Nat /\ ReachableFloor(opts) >= Floor
    BY ReachableFloorRange, Ladder
  <2>3. ApplyAction(s, action) = [round |-> s.round + 1, ask |-> action.amount,
                                  openedAt |-> s.openedAt]
    BY <1>1 DEF ApplyAction, Standing
  <2>. QED
    BY <2>1, <2>2, <2>3, Ladder DEF Standing
<1>2. CASE action.type = "hold"
  <2>1. ApplyAction(s, action) = [round |-> s.round + 1, ask |-> s.ask,
                                  openedAt |-> s.openedAt]
    BY <1>2 DEF ApplyAction, Standing
  <2>. QED
    BY <2>1 DEF Standing
<1>3. CASE action.type \notin {"counter", "hold"}
  BY <1>3 DEF ApplyAction, Standing
<1>. QED
  BY <1>1, <1>2, <1>3
=============================================================================
