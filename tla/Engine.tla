------------------------------- MODULE Engine -------------------------------
(***************************************************************************)
(* The policy engine of engine.ts: decide and applyAction.                 *)
(*                                                                         *)
(* Prices are whole cents, shares are percents. The concession curve of    *)
(* roomFactor (two powers of a ratio) is kept to the range it has in each  *)
(* regime, so decide, a function in the code, is here the set of actions   *)
(* some curve with these ranges gives.                                     *)
(***************************************************************************)
EXTENDS Integers

CONSTANTS
  Anchor,           \* opening ask: listPrice x anchorMultiplier
  List, Target, Floor,
  AcceptThreshold,  \* percent of the ask that is accepted at once
  MaxRounds,
  MaxDuration,      \* hours until expiry
  NoOffer

\* lintConfig demands more of a plan; buildRenegConfig gives a renegotiation no
\* more than this: its list price is the current price, under its target.
ASSUME Ladder ==
  /\ {Anchor, List, Target, Floor} \subseteq Nat
  /\ 0 < Floor /\ Floor <= Target /\ Target <= Anchor
  /\ AcceptThreshold \in 1..100
  /\ MaxRounds \in Nat \ {0}
  /\ MaxDuration \in Nat \ {0}
  /\ NoOffer \notin Int

Max2(a, b) == IF a >= b THEN a ELSE b
Min2(a, b) == IF a <= b THEN a ELSE b

\* Quotient, rounded half up to a cent.
Rounded(n, d) == (2 * n + d) \div (2 * d)

-----------------------------------------------------------------------------
(* Actions *)

Walk       == [type |-> "walk", amount |-> 0, isFinal |-> FALSE, agreed |-> FALSE]
Hold(a)    == [type |-> "hold", amount |-> a, isFinal |-> FALSE, agreed |-> FALSE]
Accept(a)  == [type |-> "accept", amount |-> a, isFinal |-> FALSE, agreed |-> FALSE]
Counter(a, isFinal, agreed) ==
  [type |-> "counter", amount |-> a, isFinal |-> isFinal, agreed |-> agreed]

Action == [type : {"walk", "hold", "accept", "counter"}, amount : Int,
           isFinal : BOOLEAN, agreed : BOOLEAN]

-----------------------------------------------------------------------------
(* Concession *)

Tiers == {"none", "weak", "moderate", "strong"}

\* "default": the caller gave no reasoning, the engine takes it as strong.
TierOf(opts) ==
  IF opts.exposure THEN "none"
  ELSE IF opts.reasoning = "default" THEN "strong" ELSE opts.reasoning

TierWeight == [none |-> 20, weak |-> 35, moderate |-> 55, strong |-> 80]

PullWeight(opts) == IF opts.special THEN 80 ELSE TierWeight[TierOf(opts)]

TierFloor(tier) ==
  CASE tier = "strong"   -> Floor
    [] tier = "moderate" -> Rounded(Target + Floor, 2)
    [] OTHER             -> Target

\* reachableFloor, never under the floor.
ReachableFloor(opts) == Max2(Floor, TierFloor(TierOf(opts)))

\* roomFactor, in percent: full from list up, 55 at target, 20 at the floor.
RoomMin(price) ==
  IF price >= List /\ price > Target THEN 100
  ELSE IF price >= Target THEN 55 ELSE 20

RoomMax(price) ==
  IF price > Target THEN 100 ELSE IF price > Floor THEN 55 ELSE 20

MaxPull == 6000   \* MAX_PULL_FRACTION, per 10000

PullMin(price, weight) == Min2(weight * RoomMin(price), MaxPull)
PullMax(price, weight) == Min2(weight * RoomMax(price), MaxPull)

\* Seeded fault: a pull may land anywhere over the floor.
LandingOverFloor(current, offer, pull, bound) ==
  Max2(Floor, Rounded(10000 * current - (current - offer) * pull, 10000))

\* Where a pull of so many 10000ths of the gap lands.
Landing(current, offer, pull, bound) ==
  Max2(bound, Rounded(10000 * current - (current - offer) * pull, 10000))

\* pullToward: the prices it may return.
PullToward(current, offer, weight, bound) ==
  IF offer >= current
    THEN {current}
    ELSE Landing(current, offer, PullMax(current, weight), bound)
         .. Landing(current, offer, PullMin(current, weight), bound)

-----------------------------------------------------------------------------
(* decide *)

Expired(s, now) == now - s.openedAt > MaxDuration

\* Seeded fault: no floor under an accepted offer.
AcceptableAnyOffer(u, ask) == 100 * u >= AcceptThreshold * ask

Acceptable(u, ask) == u >= Floor /\ 100 * u >= AcceptThreshold * ask

Insulting(u, ask) == u < Floor \/ 10 * u < 3 * ask

\* Seeded fault: the guard looks at the floor, not at what the tier unlocks.
BottomedOutAtFloor(ask, bound) == ask <= Floor + 1

\* The ask is as low as this move can unlock.
BottomedOut(ask, bound) == bound > Floor /\ ask <= bound + 1

Agreed(amount, u) == 100 * (amount - u) <= Max2(5000, 4 * u)

\* A move of one cent is none.
Moves(amount, ask) == amount < ask - 1

\* No number on the table: a reasoned push earns a pull to what it unlocks.
DecideNoOffer(s, opts) ==
  LET bound == ReachableFloor(opts) IN
  IF opts.reasoning \in {"default", "none"}
    THEN {Hold(s.ask)}
    ELSE {IF Moves(a, s.ask) THEN Counter(a, FALSE, FALSE) ELSE Hold(s.ask) :
            a \in PullToward(s.ask, bound, PullWeight(opts), bound)}

DecideLastRound(s, u, opts, endOnRoundsExhausted) ==
  {IF u >= a THEN Accept(Max2(u, Floor))
   ELSE IF s.round < MaxRounds THEN Counter(a, TRUE, FALSE)
   ELSE IF endOnRoundsExhausted THEN Walk ELSE Hold(s.ask) :
     a \in PullToward(s.ask, u, PullWeight(opts), ReachableFloor(opts))}

DecideCounter(s, u, opts) ==
  {IF Moves(a, s.ask) THEN Counter(a, FALSE, Agreed(a, u)) ELSE Hold(s.ask) :
     a \in PullToward(s.ask, u, PullWeight(opts), ReachableFloor(opts))}

DecideOffer(s, u, opts, endOnRoundsExhausted) ==
  IF Acceptable(u, s.ask) THEN {Accept(Min2(u, s.ask))}
  ELSE IF Insulting(u, s.ask) THEN {Hold(s.ask)}
  ELSE IF BottomedOut(s.ask, ReachableFloor(opts)) THEN
    {IF endOnRoundsExhausted /\ s.round >= MaxRounds - 1 THEN Walk ELSE Hold(s.ask)}
  ELSE IF s.round >= MaxRounds - 1
    THEN DecideLastRound(s, u, opts, endOnRoundsExhausted)
  ELSE DecideCounter(s, u, opts)

\* The actions decide may answer with, in this order of its early returns.
Decide(s, offer, now, opts, endOnRoundsExhausted) ==
  IF Expired(s, now) THEN {Walk}
  ELSE IF offer = NoOffer THEN DecideNoOffer(s, opts)
  ELSE DecideOffer(s, Max2(offer, 0), opts, endOnRoundsExhausted)

\* Seeded fault: the amount of every action becomes the ask.
ApplyAnyAction(s, action) == [s EXCEPT !.round = @ + 1, !.ask = action.amount]

\* applyAction: a hold costs a round, a counter costs a round and moves the ask.
ApplyAction(s, action) ==
  CASE action.type = "hold"    -> [s EXCEPT !.round = @ + 1]
    [] action.type = "counter" -> [s EXCEPT !.round = @ + 1, !.ask = action.amount]
    [] OTHER                   -> s

OpenSession(now) == [round |-> 0, ask |-> Anchor, openedAt |-> now]
=============================================================================
