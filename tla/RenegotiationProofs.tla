------------------------ MODULE RenegotiationProofs -------------------------
(***************************************************************************)
(* What the renegotiation of a subscription keeps for any number of        *)
(* requests at a time, deals, sessions and cycles, with requests that die  *)
(* and prices Stripe refuses.                                              *)
(***************************************************************************)
EXTENDS Renegotiation, FiniteSetTheorems, TLAPS

-----------------------------------------------------------------------------
(* What buildRenegConfig promises of a band, for every price, usage and    *)
(* policy: its order, what a raise starts from, and how wide a band has to *)
(* be for its target to lie strictly inside.                               *)

LEMMA RoundIsInt ==
  ASSUME NEW n \in Int, NEW d \in Nat \ {0}
  PROVE  Round(n, d) \in Int
  BY DEF Round

\* The clamp never leaves the interval it is given, whatever is asked of it.
LEMMA ClampStaysInside ==
  ASSUME NEW x \in Int, NEW lo \in Int, NEW hi \in Int, lo <= hi
  PROVE  ClampInside(x, lo, hi) \in lo..hi
  BY DEF ClampInside, Larger, Smaller, Round

LEMMA RaiseIsWide ==
  ASSUME NEW floor \in Nat
  PROVE  Round(125 * floor, 100) \in Int /\ floor <= Round(125 * floor, 100)
  BY DEF Round

LEMMA CostIsInt ==
  ASSUME NEW total \in Nat, NEW n \in Nat \ {0}
  PROVE  CostFloor(total, n) \in Int
<1>1. total * CostRate \in Int
  BY UsagePolicyIsNatural
<1>2. 100 * n \in Nat \ {0}
  OBVIOUS
<1> QED
  BY <1>1, <1>2, RoundIsInt DEF CostFloor

LEMMA OveruseIsInt ==
  ASSUME NEW cur \in Nat, NEW total \in Nat, NEW n \in Nat \ {0}
  PROVE  Overuse(cur, total, n) \in Int
<1>1. cur * total \in Int /\ cur * Multiplier \in Int
  BY UsagePolicyIsNatural
<1>2. BandCeiling * n \in Nat \ {0}
  BY UsagePolicyIsNatural
<1>3. Round(cur * total, BandCeiling * n) \in Int
  BY <1>1, <1>2, RoundIsInt
<1>4. Round(cur * Multiplier, 100) \in Int
  BY <1>1, RoundIsInt
<1> QED
  BY <1>3, <1>4 DEF Overuse

-----------------------------------------------------------------------------
\* reneg.ts:6 "the close is always >= what they pay now AND >= cost": the floor of
\* a raise is neither under the current price nor under the cost, and floor, target
\* and anchor come in this order.
THEOREM RaiseStartsFromPriceAndCost ==
  ASSUME NEW cur \in Nat, NEW total \in Nat, NEW n \in Nat \ {0}
  PROVE  LET b == RenegBand("up", cur, total, n) IN
         /\ cur <= b.floor /\ CostFloor(total, n) <= b.floor
         /\ b.floor <= b.target /\ b.target <= b.anchor
<1> DEFINE cost  == CostFloor(total, n)
           floor == Larger(cur, cost)
           by    == Round(cur * Multiplier, 100)
           anchor == Larger(by, Round(125 * floor, 100))
<1>1. cost \in Int
  BY CostIsInt
<1>2. floor \in Nat /\ cur <= floor /\ cost <= floor
  BY <1>1 DEF Larger
<1>3. by \in Int
  BY UsagePolicyIsNatural, RoundIsInt
<1>4. anchor \in Int /\ floor <= anchor
  BY <1>2, <1>3, RaiseIsWide DEF Larger
<1>5. ClampInside(Overuse(cur, total, n), floor, anchor) \in floor..anchor
  <2> HIDE DEF floor, anchor
  <2>1. floor \in Int /\ anchor \in Int /\ floor <= anchor
    BY <1>2, <1>4
  <2> QED
    BY <2>1, OveruseIsInt, ClampStaysInside
<1>6. RenegBand("up", cur, total, n) =
        [floor |-> floor, anchor |-> anchor,
         target |-> ClampInside(Overuse(cur, total, n), floor, anchor)]
  BY DEF RenegBand, BandUp, Band
<1> QED
  BY <1>2, <1>4, <1>5, <1>6

\* reneg.ts: a goodwill drop has its floor at the cost and opens at the current
\* price, unless the cost is too close to it; floor, target and anchor come in this
\* order.
THEOREM DropStaysOverCost ==
  ASSUME NEW cur \in Nat, NEW total \in Nat, NEW n \in Nat \ {0}
  PROVE  LET b == RenegBand("down", cur, total, n) IN
         /\ CostFloor(total, n) <= b.floor /\ cur <= b.anchor
         /\ b.floor <= b.target /\ b.target <= b.anchor
         /\ 125 * b.floor < 100 * cur => b.anchor = cur
<1> DEFINE cost  == CostFloor(total, n)
           floor == Larger(cost, 1)
           anchor == Larger(cur, Round(125 * floor, 100))
<1>1. cost \in Int
  BY CostIsInt
<1>2. floor \in Nat /\ cost <= floor
  BY <1>1 DEF Larger
<1>3. anchor \in Int /\ floor <= anchor /\ cur <= anchor
  BY <1>2, RaiseIsWide DEF Larger
<1>4. 125 * floor < 100 * cur => anchor = cur
  BY <1>2 DEF Larger, Round
<1>5. Round(60 * cur, 100) \in Int
  BY RoundIsInt
<1>6. ClampInside(Round(60 * cur, 100), floor, anchor) \in floor..anchor
  <2> HIDE DEF floor, anchor
  <2>1. floor \in Int /\ anchor \in Int /\ floor <= anchor
    BY <1>2, <1>3
  <2> QED
    BY <1>5, <2>1, ClampStaysInside
<1>7. RenegBand("down", cur, total, n) =
        [floor |-> floor, anchor |-> anchor,
         target |-> ClampInside(Round(60 * cur, 100), floor, anchor)]
  BY DEF RenegBand, BandDown, Band
<1> QED
  BY <1>2, <1>3, <1>4, <1>6, <1>7

\* reneg.ts clampInside: the target is strictly between floor and anchor, as the
\* engine's ladder asks, once they are four cents apart; under that the rounding
\* may put it on one of them.
THEOREM TargetIsStrictlyInside ==
  ASSUME NEW x \in Int, NEW lo \in Int, NEW hi \in Int, lo + 4 <= hi
  PROVE  lo < ClampInside(x, lo, hi) /\ ClampInside(x, lo, hi) < hi
  BY DEF ClampInside, Larger, Smaller, Round

-----------------------------------------------------------------------------
(* The inductive invariant *)

DealRecord == [price : Nat, reneg : Nat, session : Nat]

RequestType ==
  [pc : {"idle", "listing", "asked", "adding", "opening", "linking", "thinking",
         "taking", "settling", "recording", "clearing", "closing"},
   deal : Nat, session : Nat, cycle : Nat, value : Nat, linked : BOOLEAN,
   cycles : Seq(CycleRecord), kind : {"up", "down"}, ask : Nat, amount : Nat,
   grandfather : BOOLEAN]

BandRange(s) == sessions[s].band.floor..sessions[s].band.anchor

\* The request works on a session, from its read on.
OfSession == {"linking", "thinking", "taking", "settling", "recording", "clearing", "closing"}

\* What a request holds: a deal and a session that are there, a reading that can
\* be reported, an ask and an amount in the band of its session.
Carries(h) ==
  /\ handler[h].deal \in 0..Len(deals) /\ handler[h].session \in 0..Len(sessions)
  /\ ~At(h, "idle") => handler[h].deal > 0
  /\ At(h, "listing") \/ At(h, "adding") =>
       handler[h].cycle \in Cycles /\ handler[h].value \in Usages
  /\ handler[h].pc \in OfSession =>
       handler[h].session > 0 /\ sessions[handler[h].session].of = handler[h].deal
  /\ At(h, "thinking") \/ At(h, "taking") => handler[h].ask \in BandRange(handler[h].session)
  /\ At(h, "settling") \/ At(h, "recording") =>
       handler[h].amount \in BandRange(handler[h].session)

\* A session has the band of its deal, and asks in it.
Priced(s) ==
  /\ sessions[s].of \in 1..Len(deals)
  /\ sessions[s].band.floor <= sessions[s].band.target
  /\ sessions[s].band.target <= sessions[s].band.anchor
  /\ sessions[s].ask \in BandRange(s)
  /\ sessions[s].kind = "up" => deals[sessions[s].of].price <= sessions[s].band.floor

\* A deal was closed in the band of its session, and is linked to one that is there.
Closed(d) ==
  /\ deals[d].reneg \in 0..Len(sessions) /\ deals[d].session \in 0..Len(sessions)
  /\ deals[d].session > 0 => deals[d].price \in BandRange(deals[d].session)

Tables ==
  /\ deals \in Seq(DealRecord)
  /\ usage \in Seq(Seq(CycleRecord)) /\ Len(usage) = Len(deals)
  /\ sessions \in Seq(SessionRecord)

Rest ==
  /\ subscribed \in BOOLEAN /\ billed \in Nat /\ raced \in BOOLEAN
  /\ requests \in 0..MaxRequests /\ {refusals, faults} \subseteq 0..MaxFaults

IInv ==
  /\ Tables /\ Rest
  /\ handler \in [Handlers -> RequestType]
  /\ \A h \in Handlers : Carries(h)
  /\ \A s \in 1..Len(sessions) : Priced(s)
  /\ \A d \in 1..Len(deals) : Closed(d)

\* Deals and sessions are only added, and keep what they were made with.
Grows ==
  /\ Len(deals) <= Len(deals)' /\ Len(sessions) <= Len(sessions)'
  /\ \A d \in 1..Len(deals) :
       deals'[d].price = deals[d].price /\ deals'[d].session = deals[d].session
  /\ \A s \in 1..Len(sessions) :
       /\ sessions'[s].of = sessions[s].of /\ sessions'[s].kind = sessions[s].kind
       /\ sessions'[s].band = sessions[s].band

\* A step of one request.
Alone(h) == \A g \in Handlers \ {h} : handler'[g] = handler[g]

-----------------------------------------------------------------------------
LEMMA InvTypes == IInv /\ late \subseteq 1..Len(deals) => TypeOK
BY DEF IInv, Tables, Rest, TypeOK, DealRecord, RequestType, Carries

LEMMA IdleTypes == Idle \in RequestType
BY DEF Idle, RequestType, NoSession

\* What a session and a request of it lean on does not move under them.
LEMMA StepKeeps ==
  ASSUME IInv, NEW h \in Handlers, Tables', Rest', Grows, Alone(h),
         handler' \in [Handlers -> RequestType], Carries(h)',
         \A s \in 1..Len(sessions)' :
           s > Len(sessions) \/ sessions'[s].ask # sessions[s].ask => Priced(s)',
         \A d \in 1..Len(deals)' :
           d > Len(deals) \/ deals'[d].reneg # deals[d].reneg => Closed(d)'
  PROVE  IInv'
<1>1. Len(deals) \in Nat /\ Len(deals)' \in Nat /\ Len(sessions) \in Nat /\ Len(sessions)' \in Nat
  BY DEF IInv, Tables
<1>2. ASSUME NEW g \in Handlers
      PROVE  Carries(g)'
  <2>1. CASE g = h
    BY <2>1
  <2>2. CASE g # h
    <3>1. handler'[g] = handler[g] /\ Carries(g)
      BY <2>2 DEF Alone, IInv
    <3>2. At(g, "idle")' = At(g, "idle") /\ handler[g] \in RequestType
      BY <3>1 DEF At, IInv
    <3>3. handler[g].session > 0 =>
            /\ sessions'[handler[g].session].of = sessions[handler[g].session].of
            /\ sessions'[handler[g].session].band = sessions[handler[g].session].band
      BY <1>1, <3>1 DEF Grows, Carries, BandRange
    <3>. QED
      BY <1>1, <3>1, <3>2, <3>3 DEF Carries, At, BandRange, OfSession, Grows
  <2>. QED
    BY <2>1, <2>2
<1>3. ASSUME NEW s \in 1..Len(sessions)'
      PROVE  Priced(s)'
  <2>1. CASE s > Len(sessions) \/ sessions'[s].ask # sessions[s].ask
    BY <2>1
  <2>2. CASE s <= Len(sessions) /\ sessions'[s].ask = sessions[s].ask
    <3>1. s \in 1..Len(sessions) /\ Priced(s)
      BY <1>1, <2>2 DEF IInv
    <3>2. sessions'[s].of = sessions[s].of /\ sessions'[s].kind = sessions[s].kind
          /\ sessions'[s].band = sessions[s].band
      BY <3>1 DEF Grows
    <3>3. deals'[sessions[s].of].price = deals[sessions[s].of].price
      BY <3>1 DEF Grows, Priced
    <3>4. sessions[s].of \in 1..Len(deals)'
      BY <1>1, <3>1 DEF Grows, Priced
    <3>. QED
      BY <2>2, <3>1, <3>2, <3>3, <3>4 DEF Priced, BandRange
  <2>. QED
    BY <1>1, <2>1, <2>2
<1>4. ASSUME NEW d \in 1..Len(deals)'
      PROVE  Closed(d)'
  <2>1. CASE d > Len(deals) \/ deals'[d].reneg # deals[d].reneg
    BY <2>1
  <2>2. CASE d <= Len(deals) /\ deals'[d].reneg = deals[d].reneg
    <3>1. d \in 1..Len(deals) /\ Closed(d)
      BY <1>1, <2>2 DEF IInv
    <3>2. deals'[d].price = deals[d].price /\ deals'[d].session = deals[d].session
      BY <3>1 DEF Grows
    <3>3. deals[d].session > 0 => sessions'[deals[d].session].band = sessions[deals[d].session].band
      BY <1>1, <3>1 DEF Grows, Closed
    <3>4. /\ deals[d].reneg \in 0..Len(sessions)' /\ deals[d].session \in 0..Len(sessions)'
      BY <1>1, <3>1 DEF Grows, Closed
    <3>. QED
      BY <2>2, <3>1, <3>2, <3>3, <3>4 DEF Closed, BandRange
  <2>. QED
    BY <1>1, <2>1, <2>2
<1>. QED
  BY <1>2, <1>3, <1>4 DEF IInv

-----------------------------------------------------------------------------
(* Steps that leave the tables alone *)

\* One request is replaced.
LEMMA Replaced ==
  ASSUME handler \in [Handlers -> RequestType], NEW h \in Handlers, NEW r \in RequestType,
         handler' = [handler EXCEPT ![h] = r]
  PROVE  /\ handler' \in [Handlers -> RequestType] /\ handler'[h] = r /\ Alone(h)
BY DEF Alone

\* The end of a request.
LEMMA Finished ==
  ASSUME IInv, NEW h \in Handlers, Finish(h), Len(deals)' \in Nat, Len(sessions)' \in Nat
  PROVE  handler' \in [Handlers -> RequestType] /\ Alone(h) /\ Carries(h)' /\ handler'[h] = Idle
<1>1. handler' = [handler EXCEPT ![h] = Idle]
  BY DEF Finish
<1>2. handler' \in [Handlers -> RequestType] /\ handler'[h] = Idle /\ Alone(h)
  BY <1>1, IdleTypes, Replaced DEF IInv
<1>. QED
  BY <1>2 DEF Carries, At, Idle, OfSession, NoSession

LEMMA SameStore ==
  ASSUME IInv, NEW h \in Handlers, UNCHANGED store, Rest', Alone(h),
         handler' \in [Handlers -> RequestType], Carries(h)'
  PROVE  IInv'
<1>1. Tables' /\ Grows
  BY DEF IInv, Tables, Grows, store
<1>2. /\ \A s \in 1..Len(sessions)' :
           ~(s > Len(sessions) \/ sessions'[s].ask # sessions[s].ask)
      /\ \A d \in 1..Len(deals)' :
           ~(d > Len(deals) \/ deals'[d].reneg # deals[d].reneg)
  BY DEF IInv, Tables, store
<1>. QED
  BY <1>1, <1>2, StepKeeps

\* A request that begins has read a deal or a session that is there.
LEMMA ArriveStep ==
  ASSUME IInv, NEW h \in Handlers, Arrive(h)
  PROVE  IInv'
<1>1. Len(deals) \in Nat /\ Len(sessions) \in Nat /\ DOMAIN deals = 1..Len(deals)
      /\ DOMAIN sessions = 1..Len(sessions)
  BY DEF IInv, Tables
<1>2. ASSUME NEW locals, Begin(h, locals)
      PROVE  /\ handler' = [handler EXCEPT ![h] = locals] /\ UNCHANGED store /\ Rest'
  BY <1>2, RenegConstants DEF Begin, IInv, Rest
<1>3. ASSUME NEW locals \in RequestType, Begin(h, locals),
             locals.deal \in 1..Len(deals), locals.session \in 0..Len(sessions),
             locals.pc \in {"listing", "asked", "thinking", "taking"},
             locals.pc = "listing" => locals.cycle \in Cycles /\ locals.value \in Usages,
             locals.pc \in {"thinking", "taking"} =>
               /\ locals.session > 0 /\ sessions[locals.session].of = locals.deal
               /\ locals.ask \in BandRange(locals.session)
      PROVE  IInv'
  <2>1. /\ handler' = [handler EXCEPT ![h] = locals] /\ UNCHANGED store /\ Rest'
    BY <1>2, <1>3
  <2>2. handler' \in [Handlers -> RequestType] /\ handler'[h] = locals /\ Alone(h)
    BY <2>1, Replaced DEF IInv
  <2>3. Carries(h)'
    BY <1>1, <1>3, <2>1, <2>2 DEF Carries, At, OfSession, BandRange, store
  <2>. QED
    BY <2>1, <2>2, <2>3, SameStore
<1>4. ASSUME NEW d \in 1..Len(deals), NEW c \in Cycles, NEW v \in Usages, Report(h, d, c, v)
      PROVE  IInv'
  <2>. DEFINE locals == [Idle EXCEPT !.pc = "listing", !.deal = d, !.cycle = c, !.value = v,
                                     !.linked = Linked(d)]
  <2>1. locals \in RequestType
    <3>1. d \in Nat /\ c \in Nat /\ v \in Nat /\ Linked(d) \in BOOLEAN
      BY <1>1, RenegConstants DEF Linked
    <3>. QED
      BY <3>1, IdleTypes DEF RequestType
  <2>2. /\ locals.deal = d /\ locals.session = 0 /\ locals.pc = "listing"
        /\ locals.cycle = c /\ locals.value = v
    BY DEF Idle, NoSession
  <2>3. Begin(h, locals)
    BY <1>4 DEF Report
  <2>. HIDE DEF locals
  <2>. QED
    BY <1>1, <1>3, <2>1, <2>2, <2>3
<1>5. ASSUME NEW d \in 1..Len(deals), NEW kind \in Directions, Ask(h, d, kind)
      PROVE  IInv'
  <2>. DEFINE locals == [Idle EXCEPT !.pc = "asked", !.deal = d, !.kind = kind]
  <2>1. locals \in RequestType
    <3>1. d \in Nat /\ kind \in {"up", "down"}
      BY <1>1, RenegConstants
    <3>. QED
      BY <3>1, IdleTypes DEF RequestType
  <2>2. locals.deal = d /\ locals.session = 0 /\ locals.pc = "asked"
    BY DEF Idle, NoSession
  <2>3. Begin(h, locals)
    BY <1>5 DEF Ask
  <2>. HIDE DEF locals
  <2>. QED
    BY <1>1, <1>3, <2>1, <2>2, <2>3
<1>6. ASSUME NEW s \in 1..Len(sessions), NEW pc \in {"thinking", "taking"}, Request(h, s, pc)
      PROVE  IInv'
  <2>. DEFINE locals == [Idle EXCEPT !.pc = pc, !.session = s, !.deal = sessions[s].of,
                                     !.ask = sessions[s].ask]
  <2>1. sessions[s] \in SessionRecord /\ Priced(s)
    BY <1>1 DEF IInv, Tables
  <2>2. sessions[s].of \in 1..Len(deals) /\ sessions[s].ask \in BandRange(s)
        /\ sessions[s].ask \in Nat
    BY <2>1 DEF Priced, SessionRecord
  <2>3. locals \in RequestType
    <3>1. s \in Nat /\ sessions[s].of \in Nat /\ sessions[s].ask \in Nat
      BY <1>1, <2>2
    <3>. QED
      BY <3>1, IdleTypes DEF RequestType
  <2>4. /\ locals.deal = sessions[s].of /\ locals.session = s /\ locals.pc = pc
        /\ locals.ask = sessions[s].ask
    BY DEF Idle
  <2>5. Begin(h, locals)
    BY <1>6 DEF Request
  <2>. HIDE DEF locals
  <2>. QED
    BY <1>1, <1>3, <2>2, <2>3, <2>4, <2>5
<1>. QED
  BY <1>1, <1>4, <1>5, <1>6 DEF Arrive

\* listUsageCycles, the repricing and what ends a request write no table.
LEMMA AsideStep ==
  ASSUME IInv, NEW h \in Handlers,
         ListCycles(h) \/ Reprice(h) \/ StripeRefuses(h) \/ HandlerDies(h)
  PROVE  IInv'
<1>1. /\ UNCHANGED store /\ Len(deals) \in Nat /\ Len(sessions) \in Nat
      /\ handler \in [Handlers -> RequestType] /\ Carries(h)
  BY DEF ListCycles, Reprice, StripeRefuses, HandlerDies, Others, IInv, Tables
<1>2. Len(deals)' \in Nat /\ Len(sessions)' \in Nat
  BY <1>1 DEF store
<1>3. CASE StripeRefuses(h) \/ HandlerDies(h)
  <2>1. Finish(h)
    BY <1>3 DEF StripeRefuses, HandlerDies, Refused
  <2>2. Rest'
    BY <1>3, RenegConstants DEF StripeRefuses, HandlerDies, IInv, Rest
  <2>. QED
    BY <1>1, <1>2, <2>1, <2>2, Finished, SameStore
<1>4. CASE ListCycles(h)
  <2>. DEFINE r == [handler[h] EXCEPT !.cycles = usage[handler[h].deal],
                                     !.pc = IF @ = "asked" THEN "opening" ELSE "adding"]
  <2>1. usage[handler[h].deal] \in Seq(CycleRecord)
    <3>1. handler[h].deal \in 1..Len(usage)
      BY <1>1, <1>4 DEF ListCycles, Carries, At, IInv, Tables
    <3>. QED
      BY <3>1 DEF IInv, Tables
  <2>2. r \in RequestType
    BY <1>1, <2>1 DEF RequestType
  <2>3. handler' = [handler EXCEPT ![h] = r]
    BY <1>1, <1>4 DEF ListCycles
  <2>4. handler' \in [Handlers -> RequestType] /\ handler'[h] = r /\ Alone(h)
    BY <1>1, <2>2, <2>3, Replaced
  <2>5. Rest'
    BY <1>4 DEF ListCycles, Others, IInv, Rest
  <2>6. Carries(h)'
    BY <1>1, <1>4, <2>4 DEF ListCycles, Carries, At, OfSession, RequestType, store
  <2>. QED
    BY <1>1, <2>4, <2>5, <2>6, SameStore
<1>5. CASE Reprice(h)
  <2>. DEFINE r == [handler[h] EXCEPT !.pc = "recording"]
  <2>1. r \in RequestType /\ handler' = [handler EXCEPT ![h] = r]
    BY <1>1, <1>5 DEF Reprice, Goto, RequestType
  <2>2. handler' \in [Handlers -> RequestType] /\ handler'[h] = r /\ Alone(h)
    BY <1>1, <2>1, Replaced
  <2>3. Rest'
    BY <1>1, <1>5 DEF Reprice, RequestType, IInv, Rest
  <2>4. Carries(h)'
    BY <1>1, <1>5, <2>2 DEF Reprice, Carries, At, OfSession, RequestType, BandRange, store
  <2>. QED
    BY <1>1, <2>2, <2>3, <2>4, SameStore
<1>. QED
  BY <1>3, <1>4, <1>5

-----------------------------------------------------------------------------
(* Steps that write the tables *)

\* A cycle is inserted somewhere among those on record (addUsageCycle).
LEMMA InsertedCycle ==
  ASSUME NEW cycles \in Seq(CycleRecord), NEW rec \in CycleRecord
  PROVE  InsertCycle(cycles, rec) \in Seq(CycleRecord)
<1>. DEFINE before == {i \in DOMAIN cycles : cycles[i].cycle <= rec.cycle}
            k      == Cardinality(before)
<1>1. Len(cycles) \in Nat /\ DOMAIN cycles = 1..Len(cycles)
  OBVIOUS
<1>2. IsFiniteSet(1..Len(cycles)) /\ Cardinality(1..Len(cycles)) = Len(cycles)
  BY <1>1, FS_Interval
<1>3. before \in SUBSET (1..Len(cycles))
  BY <1>1
<1>4. k \in 0..Len(cycles)
  <2>1. k <= Len(cycles) /\ k \in Nat
    BY <1>2, <1>3, FS_Subset, FS_CardinalityType
  <2>. HIDE DEF k
  <2>. QED
    BY <1>1, <2>1
<1>. HIDE DEF k
<1>5. InsertAt(cycles, 1 + k, rec) \in Seq(CycleRecord)
  BY <1>1, <1>4 DEF InsertAt
<1>. QED
  BY <1>5 DEF InsertCycle, k

\* The streak is read off the last cycle on record.
LEMMA StreakTyped ==
  ASSUME NEW cycles \in Seq(CycleRecord), NEW v \in Nat
  PROVE  Streak(cycles, v) \in Nat
<1>1. cycles # <<>> => Last(cycles) \in CycleRecord
  BY DEF Last
<1>. QED
  BY <1>1 DEF Streak, CycleRecord

\* The reading is recorded, and may open a session.
LEMMA AddCycleStep ==
  ASSUME IInv, NEW h \in Handlers, AddCycle(h)
  PROVE  IInv'
<1>. DEFINE r   == handler[h]
            rec == [cycle |-> r.cycle, value |-> r.value, streak |-> Streak(r.cycles, r.value)]
            all == Append(r.cycles, rec)
<1>1. /\ handler \in [Handlers -> RequestType] /\ r \in RequestType /\ Carries(h)
      /\ r.cycles \in Seq(CycleRecord) /\ r.cycle \in Cycles /\ r.value \in Usages
      /\ r.deal \in 1..Len(deals) /\ r.session \in 0..Len(sessions)
  BY DEF AddCycle, Carries, At, IInv, Tables, RequestType
<1>2. rec \in CycleRecord
  BY <1>1, StreakTyped, RenegConstants DEF CycleRecord
<1>3. all \in Seq(CycleRecord)
  BY <1>1, <1>2
<1>. HIDE DEF rec
<1>4. usage' = [usage EXCEPT ![r.deal] = InsertCycle(usage[r.deal], rec)]
      /\ UNCHANGED <<deals, sessions, Others>>
  BY DEF AddCycle, rec
<1>5. Tables'
  <2>1. usage[r.deal] \in Seq(CycleRecord)
    BY <1>1 DEF IInv, Tables
  <2>2. InsertCycle(usage[r.deal], rec) \in Seq(CycleRecord)
    BY <1>2, <2>1, InsertedCycle
  <2>. QED
    BY <1>1, <1>4, <2>2 DEF IInv, Tables
<1>6. Rest' /\ Grows
  BY <1>4 DEF Others, IInv, Rest, Tables, Grows
<1>7. \/ Finish(h)
      \/ \E kind \in {"up", "down"} :
           handler' = [handler EXCEPT ![h].pc = "opening", ![h].cycles = all, ![h].kind = kind]
  BY DEF AddCycle, rec
<1>8. handler' \in [Handlers -> RequestType] /\ Alone(h) /\ Carries(h)'
  <2>1. CASE Finish(h)
    <3>1. Len(deals)' \in Nat /\ Len(sessions)' \in Nat
      BY <1>4 DEF IInv, Tables
    <3>. QED
      BY <2>1, <3>1, Finished
  <2>2. ASSUME NEW kind \in {"up", "down"},
               handler' = [handler EXCEPT ![h].pc = "opening", ![h].cycles = all, ![h].kind = kind]
        PROVE  handler' \in [Handlers -> RequestType] /\ Alone(h) /\ Carries(h)'
    <3>. DEFINE next == [r EXCEPT !.pc = "opening", !.cycles = all, !.kind = kind]
    <3>. HIDE DEF all
    <3>1. next \in RequestType
      BY <1>1, <1>3 DEF RequestType
    <3>2. handler' = [handler EXCEPT ![h] = next]
      BY <1>1, <2>2
    <3>3. handler' \in [Handlers -> RequestType] /\ handler'[h] = next /\ Alone(h)
      BY <1>1, <3>1, <3>2, Replaced
    <3>4. next.pc = "opening" /\ next.deal = r.deal /\ next.session = r.session
      BY <1>1 DEF RequestType
    <3>. HIDE DEF next
    <3>. QED
      BY <1>1, <1>4, <3>3, <3>4 DEF Carries, At, OfSession
  <2>. QED
    BY <1>7, <2>1, <2>2
<1>9. /\ \A s \in 1..Len(sessions)' :
           ~(s > Len(sessions) \/ sessions'[s].ask # sessions[s].ask)
      /\ \A d \in 1..Len(deals)' :
           ~(d > Len(deals) \/ deals'[d].reneg # deals[d].reneg)
  BY <1>4 DEF IInv, Tables
<1>. QED
  BY <1>5, <1>6, <1>8, <1>9, StepKeeps

\* Every band buildRenegConfig makes is in order, and a raise starts from the
\* price of its deal.
LEMMA BandInOrder ==
  ASSUME NEW cur \in Nat, NEW kind \in {"up", "down"}, NEW total \in Nat, NEW n \in Nat \ {0}
  PROVE  LET b == RenegBand(kind, cur, total, n) IN
         /\ b \in Prices /\ b.floor <= b.target /\ b.target <= b.anchor
         /\ kind = "up" => cur <= b.floor
<1>. DEFINE cost == CostFloor(total, n)
<1>1. cost \in Int
  BY CostIsInt
<1>2. CASE kind = "up"
  <2>. DEFINE b == RenegBand("up", cur, total, n)
  <2>1. cur <= b.floor /\ b.floor <= b.target /\ b.target <= b.anchor
    BY RaiseStartsFromPriceAndCost
  <2>2. b \in [floor : Int, target : Int, anchor : Int]
    <3>. DEFINE floor  == Larger(cur, cost)
                anchor == Larger(Round(cur * Multiplier, 100), Round(125 * floor, 100))
    <3>1. floor \in Int
      BY <1>1 DEF Larger
    <3>2. Round(cur * Multiplier, 100) \in Int /\ Round(125 * floor, 100) \in Int
      <4>1. cur * Multiplier \in Int
        BY UsagePolicyIsNatural
      <4>. HIDE DEF floor
      <4>. QED
        BY <3>1, <4>1, RoundIsInt
    <3>3. anchor \in Int
      BY <3>2 DEF Larger
    <3>. HIDE DEF floor, anchor
    <3>4. ClampInside(Overuse(cur, total, n), floor, anchor) \in Int
      BY <3>1, <3>3, OveruseIsInt DEF ClampInside, Larger, Smaller, Round
    <3>5. b = [floor |-> floor, anchor |-> anchor,
               target |-> ClampInside(Overuse(cur, total, n), floor, anchor)]
      BY DEF RenegBand, BandUp, Band, floor, anchor
    <3>. QED
      BY <3>1, <3>3, <3>4, <3>5
  <2>. HIDE DEF b
  <2>3. b \in Prices
    BY <2>1, <2>2 DEF Prices
  <2>. QED
    BY <1>2, <2>1, <2>3 DEF b
<1>3. CASE kind = "down"
  <2>. DEFINE b == RenegBand("down", cur, total, n)
  <2>1. b.floor <= b.target /\ b.target <= b.anchor
    BY DropStaysOverCost
  <2>2. b \in [floor : Nat, target : Int, anchor : Int]
    <3>. DEFINE floor  == Larger(cost, 1)
                anchor == Larger(cur, Round(125 * floor, 100))
    <3>1. floor \in Nat
      BY <1>1 DEF Larger
    <3>2. anchor \in Int
      <4>. HIDE DEF floor
      <4>1. Round(125 * floor, 100) \in Int
        BY <3>1, RaiseIsWide
      <4>. QED
        BY <4>1 DEF Larger
    <3>. HIDE DEF floor, anchor
    <3>3. Round(60 * cur, 100) \in Int
      BY RoundIsInt
    <3>4. ClampInside(Round(60 * cur, 100), floor, anchor) \in Int
      BY <3>1, <3>2, <3>3 DEF ClampInside, Larger, Smaller, Round
    <3>5. b = [floor |-> floor, anchor |-> anchor,
               target |-> ClampInside(Round(60 * cur, 100), floor, anchor)]
      BY DEF RenegBand, BandDown, Band, floor, anchor
    <3>. QED
      BY <3>1, <3>2, <3>4, <3>5
  <2>. HIDE DEF b
  <2>3. b \in Prices
    BY <2>1, <2>2 DEF Prices
  <2>. QED
    BY <1>3, <2>1, <2>3 DEF b
<1>. QED
  BY <1>2, <1>3

LEMMA BandOfInOrder ==
  ASSUME NEW d, deals[d].price \in Nat, NEW kind \in {"up", "down"},
         NEW cycles \in Seq(CycleRecord)
  PROVE  /\ BandOf(d, kind, cycles) \in Prices
         /\ BandOf(d, kind, cycles).floor <= BandOf(d, kind, cycles).target
         /\ BandOf(d, kind, cycles).target <= BandOf(d, kind, cycles).anchor
         /\ kind = "up" => deals[d].price <= BandOf(d, kind, cycles).floor
<1>1. CASE cycles = <<>>
  BY <1>1, BandInOrder, UsagePolicyIsNatural DEF BandOf
<1>2. CASE cycles # <<>>
  <2>1. Smaller(Len(cycles), 3) \in Nat \ {0}
    BY <1>2 DEF Smaller
  <2>2. \A i : Value(cycles, i) \in Nat
    <3>. SUFFICES ASSUME NEW i PROVE Value(cycles, i) \in Nat
      OBVIOUS
    <3>1. i \in DOMAIN cycles => cycles[i] \in CycleRecord
      OBVIOUS
    <3>. QED
      BY <3>1, RenegConstants DEF Value, CycleRecord
  <2>3. TrailingTotal(cycles) \in Nat
    BY <2>2 DEF TrailingTotal
  <2>. QED
    BY <1>2, <2>1, <2>3, BandInOrder DEF BandOf
<1>. QED
  BY <1>1, <1>2

\* A session opens in the band of its deal.
LEMMA CreateSessionStep ==
  ASSUME IInv, NEW h \in Handlers, CreateSession(h)
  PROVE  IInv'
<1>. DEFINE r    == handler[h]
            b    == BandOf(r.deal, r.kind, r.cycles)
            made == [status |-> "open", kind |-> r.kind, of |-> r.deal, band |-> b,
                     ask |-> b.anchor, known |-> FALSE, evidence |-> r.cycles,
                     byUsage |-> r.cycle # 0]
<1>0. PICK n \in Nat : n = Len(sessions) + 1
  BY DEF IInv, Tables
<1>. DEFINE next == [r EXCEPT !.pc = "linking", !.session = n]
<1>1. /\ handler \in [Handlers -> RequestType] /\ r \in RequestType /\ Carries(h)
      /\ r.deal \in 1..Len(deals) /\ r.kind \in {"up", "down"}
      /\ r.cycles \in Seq(CycleRecord) /\ Len(deals) \in Nat /\ Len(sessions) \in Nat
      /\ sessions \in Seq(SessionRecord) /\ deals[r.deal] \in DealRecord
  BY DEF CreateSession, Carries, At, IInv, Tables, RequestType
<1>2. /\ b \in Prices /\ b.floor <= b.target /\ b.target <= b.anchor
      /\ r.kind = "up" => deals[r.deal].price <= b.floor
  BY <1>1, BandOfInOrder DEF DealRecord
<1>3. /\ sessions' = Append(sessions, made) /\ handler' = [handler EXCEPT ![h] = next]
      /\ UNCHANGED <<deals, usage, Others>>
  BY <1>0, <1>1 DEF CreateSession
<1>. HIDE DEF b
<1>4. made \in SessionRecord
  BY <1>1, <1>2 DEF SessionRecord, Prices, RequestType
<1>5. /\ made.of = r.deal /\ made.band = b /\ made.ask = b.anchor /\ made.kind = r.kind
  OBVIOUS
<1>. HIDE DEF made
<1>6. /\ sessions' \in Seq(SessionRecord) /\ Len(sessions') = n /\ sessions'[n] = made
      /\ \A s \in 1..Len(sessions) : sessions'[s] = sessions[s]
  BY <1>0, <1>1, <1>3, <1>4
<1>7. Tables' /\ Rest' /\ Grows
  BY <1>0, <1>1, <1>3, <1>6 DEF Others, IInv, Rest, Tables, Grows
<1>8. next \in RequestType /\ next.pc = "linking" /\ next.deal = r.deal /\ next.session = n
  BY <1>1 DEF RequestType
<1>9. handler' \in [Handlers -> RequestType] /\ handler'[h] = next /\ Alone(h)
  BY <1>1, <1>3, <1>8, Replaced
<1>. HIDE DEF next
<1>10. Carries(h)'
  BY <1>0, <1>1, <1>3, <1>5, <1>6, <1>8, <1>9 DEF Carries, At, OfSession
<1>11. Priced(n)'
  <2>1. b.floor \in Nat /\ b.anchor \in Nat /\ b.target \in Nat
    BY <1>2 DEF Prices
  <2>2. b.anchor \in b.floor..b.anchor
    BY <1>2, <2>1
  <2>. QED
    BY <1>0, <1>1, <1>2, <1>3, <1>5, <1>6, <2>2 DEF Priced, BandRange
<1>12. ASSUME NEW s \in 1..Len(sessions)',
              s > Len(sessions) \/ sessions'[s].ask # sessions[s].ask
       PROVE  Priced(s)'
  <2>1. s = n
    BY <1>0, <1>1, <1>6, <1>12
  <2>. QED
    BY <1>11, <2>1
<1>13. \A d \in 1..Len(deals)' : ~(d > Len(deals) \/ deals'[d].reneg # deals[d].reneg)
  BY <1>1, <1>3
<1>. QED
  BY <1>7, <1>9, <1>10, <1>12, <1>13, StepKeeps

\* One field of a session is written, not its price.
LEMMA SessionWritten ==
  ASSUME IInv, NEW s \in 1..Len(sessions), NEW x \in SessionRecord,
         sessions' = [sessions EXCEPT ![s] = x],
         x.of = sessions[s].of, x.kind = sessions[s].kind, x.band = sessions[s].band
  PROVE  /\ sessions' \in Seq(SessionRecord) /\ Len(sessions') = Len(sessions)
         /\ sessions'[s] = x
         /\ \A z \in 1..Len(sessions) : z # s => sessions'[z] = sessions[z]
         /\ \A z \in 1..Len(sessions) :
              /\ sessions'[z].of = sessions[z].of /\ sessions'[z].kind = sessions[z].kind
              /\ sessions'[z].band = sessions[z].band
<1>1. sessions \in Seq(SessionRecord)
  BY DEF IInv, Tables
<1>2. /\ sessions' \in Seq(SessionRecord) /\ Len(sessions') = Len(sessions)
      /\ sessions'[s] = x
      /\ \A z \in 1..Len(sessions) : z # s => sessions'[z] = sessions[z]
  BY <1>1
<1>. QED
  BY <1>2

\* The link of one deal is written.
LEMMA LinkWritten ==
  ASSUME IInv, NEW d \in 1..Len(deals), NEW n \in Nat,
         deals' = [deals EXCEPT ![d].reneg = n]
  PROVE  /\ deals' \in Seq(DealRecord) /\ Len(deals') = Len(deals) /\ deals'[d].reneg = n
         /\ \A z \in 1..Len(deals) :
              /\ deals'[z].price = deals[z].price /\ deals'[z].session = deals[z].session
              /\ z # d => deals'[z].reneg = deals[z].reneg
<1>1. deals \in Seq(DealRecord) /\ deals[d] \in DealRecord
  BY DEF IInv, Tables
<1>. DEFINE x == [deals[d] EXCEPT !.reneg = n]
<1>2. /\ x \in DealRecord /\ x.reneg = n /\ x.price = deals[d].price
      /\ x.session = deals[d].session
  BY <1>1 DEF DealRecord
<1>3. deals' = [deals EXCEPT ![d] = x]
  OBVIOUS
<1>. HIDE DEF x
<1>4. /\ deals' \in Seq(DealRecord) /\ Len(deals') = Len(deals) /\ deals'[d] = x
      /\ \A z \in 1..Len(deals) : z # d => deals'[z] = deals[z]
  BY <1>1, <1>2, <1>3
<1>. QED
  BY <1>2, <1>4

\* A request whose session is written with the band it has.
LEMMA WriteKeeps ==
  ASSUME IInv, NEW h \in Handlers, NEW s \in 1..Len(sessions), NEW x \in SessionRecord,
         sessions' = [sessions EXCEPT ![s] = x],
         x.of = sessions[s].of, x.kind = sessions[s].kind, x.band = sessions[s].band,
         x.ask \in BandRange(s),
         UNCHANGED <<deals, usage, Others>>, Alone(h),
         handler' \in [Handlers -> RequestType], Carries(h)'
  PROVE  IInv'
<1>1. /\ sessions' \in Seq(SessionRecord) /\ Len(sessions') = Len(sessions)
      /\ sessions'[s] = x
      /\ \A z \in 1..Len(sessions) : z # s => sessions'[z] = sessions[z]
      /\ \A z \in 1..Len(sessions) :
           /\ sessions'[z].of = sessions[z].of /\ sessions'[z].kind = sessions[z].kind
           /\ sessions'[z].band = sessions[z].band
  BY SessionWritten
<1>2. Tables' /\ Rest' /\ Grows
  BY <1>1 DEF Others, IInv, Rest, Tables, Grows
<1>3. Priced(s)'
  <2>1. Priced(s)
    BY DEF IInv
  <2>. QED
    BY <1>1, <2>1 DEF Priced, BandRange
<1>4. \A z \in 1..Len(sessions)' :
        z > Len(sessions) \/ sessions'[z].ask # sessions[z].ask => Priced(z)'
  BY <1>1, <1>3 DEF IInv, Tables
<1>5. \A d \in 1..Len(deals)' : ~(d > Len(deals) \/ deals'[d].reneg # deals[d].reneg)
  BY DEF IInv, Tables
<1>. QED
  BY <1>2, <1>4, <1>5, StepKeeps

\* What every request past its read of a session has.
LEMMA OnSession ==
  ASSUME IInv, NEW h \in Handlers, handler[h].pc \in OfSession
  PROVE  /\ handler[h] \in RequestType /\ handler \in [Handlers -> RequestType] /\ Carries(h)
         /\ handler[h].session \in 1..Len(sessions) /\ handler[h].deal \in 1..Len(deals)
         /\ sessions[handler[h].session] \in SessionRecord /\ Priced(handler[h].session)
         /\ sessions[handler[h].session].of = handler[h].deal
         /\ Len(deals) \in Nat /\ Len(sessions) \in Nat
<1>1. Carries(h) /\ Len(deals) \in Nat /\ Len(sessions) \in Nat
  BY DEF IInv, Tables
<1>2. handler[h].session \in 1..Len(sessions) /\ handler[h].deal \in 1..Len(deals)
  BY <1>1 DEF Carries, OfSession, At
<1>3. sessions[handler[h].session] \in SessionRecord /\ Priced(handler[h].session)
  BY <1>2 DEF IInv, Tables
<1>4. sessions[handler[h].session].of = handler[h].deal
  BY <1>1 DEF Carries
<1>. QED
  BY <1>1, <1>2, <1>3, <1>4 DEF IInv

\* A turn that goes on asks no more than before, and stays in the band.
LEMMA CounterStep ==
  ASSUME IInv, NEW h \in Handlers, Counter(h)
  PROVE  IInv'
<1>. DEFINE s == handler[h].session
<1>1. At(h, "thinking") /\ handler[h].pc \in OfSession
  BY DEF Counter, At, OfSession
<1>2. /\ handler[h] \in RequestType /\ s \in 1..Len(sessions)
      /\ sessions[s] \in SessionRecord /\ Priced(s) /\ Len(sessions) \in Nat
      /\ handler[h].ask \in BandRange(s) /\ Len(deals) \in Nat
  BY <1>1, OnSession DEF Carries
<1>3. PICK ask \in {handler[h].ask, Smaller(handler[h].ask, sessions[s].band.target),
                   sessions[s].band.floor} :
        sessions' = [sessions EXCEPT ![s].status = "open", ![s].ask = ask]
  BY DEF Counter
<1>. DEFINE x == [sessions[s] EXCEPT !.status = "open", !.ask = ask]
<1>4. ask \in BandRange(s) /\ ask \in Nat
  <2>1. /\ sessions[s].band.floor \in Nat /\ sessions[s].band.target \in Nat
        /\ sessions[s].band.anchor \in Nat
    BY <1>2 DEF SessionRecord, Prices
  <2>. QED
    BY <1>2, <2>1 DEF BandRange, Smaller, Priced
<1>5. /\ x \in SessionRecord /\ x.of = sessions[s].of /\ x.kind = sessions[s].kind
      /\ x.band = sessions[s].band /\ x.ask = ask
  BY <1>2, <1>4 DEF SessionRecord
<1>6. sessions' = [sessions EXCEPT ![s] = x]
  BY <1>3 DEF IInv, Tables
<1>7. UNCHANGED <<deals, usage, Others>> /\ Finish(h)
  BY DEF Counter
<1>. HIDE DEF x
<1>8. handler' \in [Handlers -> RequestType] /\ Alone(h) /\ Carries(h)'
  <2>1. Len(deals)' \in Nat /\ Len(sessions)' \in Nat
    BY <1>2, <1>5, <1>6, <1>7, SessionWritten
  <2>. QED
    BY <1>7, <2>1, Finished
<1>. QED
  BY <1>2, <1>4, <1>5, <1>6, <1>7, <1>8, WriteKeeps

\* A status is written, and the request goes on with a price of its band.
LEMMA StatusStep ==
  ASSUME IInv, NEW h \in Handlers, handler[h].pc \in OfSession,
         NEW status \in {"open", "accepted", "walked", "settled"},
         sessions' = [sessions EXCEPT ![handler[h].session].status = status],
         UNCHANGED <<deals, usage, Others>>,
         NEW next \in RequestType, handler' = [handler EXCEPT ![h] = next],
         \/ next = Idle
         \/ /\ next.pc = "settling" /\ next.amount \in BandRange(handler[h].session)
            /\ next.deal = handler[h].deal /\ next.session = handler[h].session
  PROVE  IInv'
<1>1. PICK s \in 1..Len(sessions) : s = handler[h].session
  BY OnSession
<1>2. /\ sessions[s] \in SessionRecord /\ Priced(s) /\ Len(sessions) \in Nat
      /\ Len(deals) \in Nat /\ handler \in [Handlers -> RequestType] /\ Carries(h)
      /\ handler[h].deal \in 1..Len(deals)
  BY <1>1, OnSession
<1>. DEFINE x == [sessions[s] EXCEPT !.status = status]
<1>3. /\ x \in SessionRecord /\ x.of = sessions[s].of /\ x.kind = sessions[s].kind
      /\ x.band = sessions[s].band /\ x.ask = sessions[s].ask
  BY <1>2 DEF SessionRecord
<1>4. sessions' = [sessions EXCEPT ![s] = x]
  BY <1>1 DEF IInv, Tables
<1>5. x.ask \in BandRange(s)
  BY <1>2, <1>3 DEF Priced
<1>. HIDE DEF x
<1>6. Len(sessions') = Len(sessions) /\ sessions'[s] = x
  BY <1>3, <1>4, SessionWritten
<1>7. handler' \in [Handlers -> RequestType] /\ handler'[h] = next /\ Alone(h)
  BY <1>2, Replaced
<1>8. Carries(h)'
  <2>1. CASE next = Idle
    BY <1>2, <1>6, <1>7, <2>1 DEF Carries, At, Idle, OfSession, NoSession
  <2>2. CASE next # Idle
    <3>1. sessions'[s].of = handler[h].deal /\ BandRange(s)' = BandRange(s)
      BY <1>1, <1>3, <1>6, OnSession DEF BandRange
    <3>. QED
      BY <1>1, <1>2, <1>6, <1>7, <2>2, <3>1 DEF Carries, At, OfSession
  <2>. QED
    BY <2>1, <2>2
<1>. QED
  BY <1>3, <1>4, <1>5, <1>7, <1>8, WriteKeeps

\* An end, whichever it is, carries a price of the band on.
LEMMA CloseStep ==
  ASSUME IInv, NEW h \in Handlers, TurnAccepts(h) \/ TurnWalks(h) \/ TakeAsk(h)
  PROVE  IInv'
<1>. DEFINE s == handler[h].session
<1>1. (At(h, "thinking") \/ At(h, "taking")) /\ handler[h].pc \in OfSession
  BY DEF TurnAccepts, TurnWalks, TakeAsk, At, OfSession
<1>2. /\ handler[h] \in RequestType /\ Priced(s) /\ sessions[s] \in SessionRecord
      /\ handler[h].ask \in BandRange(s) /\ handler \in [Handlers -> RequestType]
  BY <1>1, OnSession DEF Carries
<1>3. PICK amount \in {sessions[s].band.floor, sessions[s].band.target, handler[h].ask},
           grandfather \in BOOLEAN :
        Close(h, amount, grandfather)
  BY DEF TurnAccepts, TurnWalks, TakeAsk
<1>4. amount \in BandRange(s) /\ amount \in Nat
  <2>1. /\ sessions[s].band.floor \in Nat /\ sessions[s].band.target \in Nat
        /\ sessions[s].band.anchor \in Nat /\ handler[h].ask \in Nat
    BY <1>2 DEF SessionRecord, Prices, RequestType
  <2>. QED
    BY <1>2, <2>1 DEF BandRange, Priced
<1>. DEFINE next == [handler[h] EXCEPT !.pc = "settling", !.amount = amount,
                                       !.grandfather = grandfather]
<1>5. /\ next \in RequestType /\ next.pc = "settling" /\ next.amount = amount
      /\ next.deal = handler[h].deal /\ next.session = handler[h].session
  BY <1>2, <1>4 DEF RequestType
<1>6. handler' = [handler EXCEPT ![h] = next]
  BY <1>2, <1>3 DEF Close, AfterEnd
<1>7. /\ EndStatus(grandfather) \in {"open", "accepted", "walked", "settled"}
      /\ sessions' = [sessions EXCEPT ![handler[h].session].status = EndStatus(grandfather)]
      /\ UNCHANGED <<deals, usage, Others>>
  BY <1>3 DEF Close, EndStatus
<1>. HIDE DEF next
<1>. QED
  BY <1>1, <1>4, <1>5, <1>6, <1>7, StatusStep

LEMMA CloseSessionStep ==
  ASSUME IInv, NEW h \in Handlers, CloseSession(h)
  PROVE  IInv'
<1>1. handler[h].pc \in OfSession
  BY DEF CloseSession, At, OfSession
<1>. QED
  BY <1>1, IdleTypes, StatusStep DEF CloseSession, Finish

\* The deal is linked to its session, whose id is told.
LEMMA LinkRenegStep ==
  ASSUME IInv, NEW h \in Handlers, LinkReneg(h)
  PROVE  IInv'
<1>1. handler[h].pc \in OfSession
  BY DEF LinkReneg, At, OfSession
<1>2. PICK s \in 1..Len(sessions), d \in 1..Len(deals) :
        s = handler[h].session /\ d = handler[h].deal
  BY <1>1, OnSession
<1>3. /\ sessions[s] \in SessionRecord /\ Len(sessions) \in Nat /\ Len(deals) \in Nat
      /\ Closed(d)
  BY <1>1, <1>2, OnSession DEF IInv
<1>. DEFINE x == [sessions[s] EXCEPT !.known = TRUE]
<1>4. /\ x \in SessionRecord /\ x.of = sessions[s].of /\ x.kind = sessions[s].kind
      /\ x.band = sessions[s].band /\ x.ask = sessions[s].ask
  BY <1>3 DEF SessionRecord
<1>5. /\ sessions' = [sessions EXCEPT ![s] = x] /\ deals' = [deals EXCEPT ![d].reneg = s]
      /\ UNCHANGED <<usage, Others>> /\ Finish(h)
  BY <1>2 DEF LinkReneg, IInv, Tables
<1>. HIDE DEF x
<1>6. /\ sessions' \in Seq(SessionRecord) /\ Len(sessions') = Len(sessions)
      /\ sessions'[s] = x
      /\ \A z \in 1..Len(sessions) : z # s => sessions'[z] = sessions[z]
      /\ \A z \in 1..Len(sessions) :
           /\ sessions'[z].of = sessions[z].of /\ sessions'[z].kind = sessions[z].kind
           /\ sessions'[z].band = sessions[z].band
  BY <1>4, <1>5, SessionWritten
<1>7. /\ deals' \in Seq(DealRecord) /\ Len(deals') = Len(deals) /\ deals'[d].reneg = s
      /\ \A z \in 1..Len(deals) :
           /\ deals'[z].price = deals[z].price /\ deals'[z].session = deals[z].session
           /\ z # d => deals'[z].reneg = deals[z].reneg
  <2>1. s \in Nat
    BY <1>3
  <2>. QED
    BY <1>5, <2>1, LinkWritten
<1>8. Tables' /\ Rest' /\ Grows
  BY <1>3, <1>5, <1>6, <1>7 DEF Others, IInv, Rest, Tables, Grows
<1>9. handler' \in [Handlers -> RequestType] /\ Alone(h) /\ Carries(h)'
  BY <1>3, <1>5, <1>6, <1>7, Finished
<1>10. \A z \in 1..Len(sessions)' :
         ~(z > Len(sessions) \/ sessions'[z].ask # sessions[z].ask)
  BY <1>3, <1>4, <1>6
<1>11. ASSUME NEW z \in 1..Len(deals)', z > Len(deals) \/ deals'[z].reneg # deals[z].reneg
       PROVE  Closed(z)'
  <2>1. z = d
    BY <1>3, <1>7, <1>11
  <2>2. deals'[d].session = deals[d].session /\ deals'[d].price = deals[d].price
    BY <1>7
  <2>3. deals[d].session > 0 => sessions'[deals[d].session].band = sessions[deals[d].session].band
    BY <1>3, <1>6 DEF Closed
  <2>. QED
    BY <1>3, <1>6, <1>7, <2>1, <2>2, <2>3 DEF Closed, BandRange
<1>. QED
  BY <1>8, <1>9, <1>10, <1>11, StepKeeps

\* The record of an end lies in the band of its session.
LEMMA RecordDealStep ==
  ASSUME IInv, NEW h \in Handlers, RecordDeal(h)
  PROVE  IInv'
<1>. DEFINE r == handler[h]
<1>1. At(h, "recording") /\ r.pc \in OfSession
  BY DEF RecordDeal, At, OfSession
<1>2. /\ r \in RequestType /\ handler \in [Handlers -> RequestType]
      /\ r.session \in 1..Len(sessions) /\ Len(deals) \in Nat /\ Len(sessions) \in Nat
      /\ r.amount \in BandRange(r.session) /\ Carries(h)
      /\ deals \in Seq(DealRecord) /\ usage \in Seq(Seq(CycleRecord)) /\ Len(usage) = Len(deals)
  BY <1>1, OnSession DEF Carries, IInv, Tables
<1>3. PICK n \in Nat : n = Len(deals) + 1
  BY <1>2
<1>. DEFINE made == [price |-> r.amount, reneg |-> NoSession, session |-> r.session]
            next == [r EXCEPT !.pc = "clearing"]
<1>4. made \in DealRecord /\ made.reneg = 0 /\ made.price = r.amount /\ made.session = r.session
  BY <1>2 DEF DealRecord, NoSession, RequestType
<1>5. /\ deals' = Append(deals, made) /\ usage' = Append(usage, <<>>)
      /\ handler' = [handler EXCEPT ![h] = next] /\ UNCHANGED <<sessions, Others>>
  BY <1>2 DEF RecordDeal, Goto
<1>6. next \in RequestType /\ next.pc = "clearing" /\ next.deal = r.deal /\ next.session = r.session
  BY <1>2 DEF RequestType
<1>. HIDE DEF made, next
<1>7. /\ deals' \in Seq(DealRecord) /\ Len(deals') = n /\ deals'[n] = made
      /\ \A d \in 1..Len(deals) : deals'[d] = deals[d]
  BY <1>2, <1>3, <1>4, <1>5
<1>8. usage' \in Seq(Seq(CycleRecord)) /\ Len(usage') = n
  <2>1. <<>> \in Seq(CycleRecord)
    OBVIOUS
  <2>. QED
    BY <1>2, <1>3, <1>5, <2>1
<1>9. Tables' /\ Rest' /\ Grows
  BY <1>2, <1>3, <1>5, <1>7, <1>8 DEF Others, IInv, Rest, Tables, Grows
<1>10. handler' \in [Handlers -> RequestType] /\ handler'[h] = next /\ Alone(h)
  BY <1>2, <1>5, <1>6, Replaced
<1>11. Carries(h)'
  <2>1. /\ r.deal \in 1..Len(deals) /\ r.session \in 1..Len(sessions)
        /\ sessions[r.session].of = r.deal
    BY <1>1, <1>2, OnSession DEF Carries
  <2>2. /\ handler'[h].pc = "clearing" /\ handler'[h].deal = r.deal
        /\ handler'[h].session = r.session
    BY <1>6, <1>10
  <2>3. r.deal \in 1..Len(deals') /\ UNCHANGED sessions
    BY <1>2, <1>3, <1>5, <1>7, <2>1
  <2>. HIDE DEF r
  <2>. QED
    BY <1>2, <2>1, <2>2, <2>3 DEF Carries, At, OfSession
<1>12. \A z \in 1..Len(sessions)' :
         ~(z > Len(sessions) \/ sessions'[z].ask # sessions[z].ask)
  BY <1>2, <1>5
<1>13. ASSUME NEW d \in 1..Len(deals)', d > Len(deals) \/ deals'[d].reneg # deals[d].reneg
       PROVE  Closed(d)'
  <2>1. d = n
    BY <1>2, <1>3, <1>7, <1>13
  <2>. QED
    BY <1>2, <1>4, <1>5, <1>7, <2>1 DEF Closed, BandRange
<1>. QED
  BY <1>9, <1>10, <1>11, <1>12, <1>13, StepKeeps

\* The link is cleared and the request goes on, or ends.
LEMMA ClearLinkStep ==
  ASSUME IInv, NEW h \in Handlers, ClearLink(h)
  PROVE  IInv'
<1>1. handler[h].pc \in OfSession
  BY DEF ClearLink, At, OfSession
<1>2. PICK d \in 1..Len(deals) : d = handler[h].deal
  BY <1>1, OnSession
<1>3. /\ handler[h] \in RequestType /\ handler \in [Handlers -> RequestType] /\ Carries(h)
      /\ Len(sessions) \in Nat /\ Len(deals) \in Nat /\ Closed(d)
      /\ handler[h].session \in 1..Len(sessions)
      /\ sessions[handler[h].session].of = handler[h].deal
  BY <1>1, <1>2, OnSession DEF IInv
<1>4. deals' = [deals EXCEPT ![d].reneg = 0] /\ UNCHANGED <<usage, sessions, Others>>
  BY <1>2 DEF ClearLink, Cleared, NoSession
<1>5. /\ deals' \in Seq(DealRecord) /\ Len(deals') = Len(deals) /\ deals'[d].reneg = 0
      /\ \A z \in 1..Len(deals) :
           /\ deals'[z].price = deals[z].price /\ deals'[z].session = deals[z].session
           /\ z # d => deals'[z].reneg = deals[z].reneg
  BY <1>4, LinkWritten
<1>6. Tables' /\ Rest' /\ Grows
  BY <1>3, <1>4, <1>5 DEF Others, IInv, Rest, Tables, Grows
<1>7. handler' \in [Handlers -> RequestType] /\ Alone(h) /\ Carries(h)'
  <2>1. CASE Finish(h)
    BY <1>3, <1>4, <1>5, <2>1, Finished
  <2>2. CASE Goto(h, "closing")
    <3>. DEFINE next == [handler[h] EXCEPT !.pc = "closing"]
    <3>1. /\ next \in RequestType /\ next.pc = "closing" /\ next.deal = handler[h].deal
          /\ next.session = handler[h].session /\ handler' = [handler EXCEPT ![h] = next]
      BY <1>3, <2>2 DEF Goto, RequestType
    <3>. HIDE DEF next
    <3>2. handler' \in [Handlers -> RequestType] /\ handler'[h] = next /\ Alone(h)
      BY <1>3, <3>1, Replaced
    <3>3. /\ handler[h].deal \in 1..Len(deals') /\ handler[h].session \in 1..Len(sessions)
          /\ UNCHANGED sessions
      BY <1>2, <1>3, <1>4, <1>5
    <3>4. /\ handler'[h].pc = "closing" /\ handler'[h].deal = handler[h].deal
          /\ handler'[h].session = handler[h].session
      BY <3>1, <3>2
    <3>5. Len(deals') \in Nat /\ sessions[handler[h].session].of = handler[h].deal
          /\ Len(sessions) \in Nat
      BY <1>3, <1>5
    <3>. QED
      BY <3>1, <3>2, <3>3, <3>4, <3>5 DEF Carries, At, OfSession
  <2>. QED
    BY <2>1, <2>2 DEF ClearLink
<1>8. \A z \in 1..Len(sessions)' :
        ~(z > Len(sessions) \/ sessions'[z].ask # sessions[z].ask)
  BY <1>3, <1>4
<1>9. ASSUME NEW z \in 1..Len(deals)', z > Len(deals) \/ deals'[z].reneg # deals[z].reneg
      PROVE  Closed(z)'
  <2>1. z = d
    BY <1>3, <1>5, <1>9
  <2>2. deals'[d].session = deals[d].session /\ deals'[d].price = deals[d].price
    BY <1>5
  <2>. QED
    BY <1>3, <1>4, <1>5, <2>1, <2>2 DEF Closed, BandRange
<1>. QED
  BY <1>6, <1>7, <1>8, <1>9, StepKeeps

-----------------------------------------------------------------------------
LEMMA InitInv == Init => IInv
<1>. SUFFICES ASSUME Init PROVE IInv
  OBVIOUS
<1>1. Tables /\ Len(deals) = 1 /\ Len(sessions) = 0 /\ deals[1].reneg = 0 /\ deals[1].session = 0
  BY RenegConstants DEF Init, Tables, DealRecord, NoSession
<1>2. Rest
  <2>1. FirstPrice \in Nat /\ MaxRequests \in Nat /\ MaxFaults \in Nat
    BY RenegConstants
  <2>2. /\ subscribed \in BOOLEAN /\ billed = FirstPrice /\ raced = FALSE
        /\ requests = 0 /\ refusals = 0 /\ faults = 0
    BY DEF Init
  <2>3. requests \in 0..MaxRequests /\ refusals \in 0..MaxFaults /\ faults \in 0..MaxFaults
    BY <2>1, <2>2
  <2>. QED
    BY <2>1, <2>2, <2>3 DEF Rest
<1>3. handler \in [Handlers -> RequestType] /\ \A h \in Handlers : handler[h] = Idle
  BY IdleTypes DEF Init
<1>4. \A h \in Handlers : Carries(h)
  BY <1>1, <1>3 DEF Carries, At, Idle, OfSession, NoSession
<1>. QED
  BY <1>1, <1>2, <1>3, <1>4 DEF IInv, Closed

LEMMA StutterInv == IInv /\ UNCHANGED vars => IInv'
<1>. SUFFICES ASSUME IInv, UNCHANGED vars PROVE IInv'
  OBVIOUS
<1>1. UNCHANGED <<deals, usage, sessions, subscribed, billed, handler, raced, requests,
                  refusals, faults>>
  BY DEF vars, store
<1>. QED
  BY <1>1 DEF IInv, Tables, Rest, Carries, At, BandRange, Priced, Closed

LEMMA NextInv == IInv /\ [Next]_vars => IInv'
<1>. SUFFICES ASSUME IInv, [Next]_vars PROVE IInv'
  OBVIOUS
<1>1. ASSUME NEW h \in Handlers, Arrive(h) \/ HandlerStep(h) \/ HandlerDies(h)
      PROVE  IInv'
  BY <1>1, ArriveStep, AsideStep, AddCycleStep, CreateSessionStep, LinkRenegStep,
     CounterStep, CloseStep, RecordDealStep, ClearLinkStep, CloseSessionStep
     DEF HandlerStep
<1>. QED
  BY <1>1, StutterInv DEF Next

\* Every behaviour of the renegotiations satisfies the inductive invariant.
THEOREM Invariance == Spec => []IInv
BY InitInv, NextInv, PTL DEF Spec

-----------------------------------------------------------------------------
(* What each step writes *)

\* A request that begins has read its deal or its session at that moment.
LEMMA ArriveDoes ==
  ASSUME IInv, NEW h \in Handlers, Arrive(h)
  PROVE  /\ Alone(h) /\ At(h, "idle") /\ raced' = (raced \/ Busy # {})
         /\ UNCHANGED <<deals, usage, sessions, late, subscribed, billed, refusals, faults>>
         /\ handler'[h].pc \in {"listing", "asked", "thinking", "taking"}
         /\ handler'[h].pc = "listing" => handler'[h].linked = Linked(handler'[h].deal)
         /\ handler'[h].pc = "asked" => ~Linked(handler'[h].deal) /\ handler'[h].cycle = 0
         /\ handler'[h].pc \in {"thinking", "taking"} =>
              /\ handler'[h].session \in 1..Len(sessions)
              /\ IsOpen(handler'[h].session)
              /\ handler'[h].deal = sessions[handler'[h].session].of
<1>1. handler \in [Handlers -> RequestType] /\ DOMAIN sessions = 1..Len(sessions)
  BY DEF IInv, Tables
<1>2. ASSUME NEW locals, Begin(h, locals)
      PROVE  /\ Alone(h) /\ At(h, "idle") /\ raced' = (raced \/ Busy # {})
             /\ UNCHANGED <<deals, usage, sessions, late, subscribed, billed, refusals, faults>>
             /\ handler'[h] = locals
  BY <1>1, <1>2 DEF Begin, Alone, store
<1>3. ASSUME NEW d, NEW c, NEW v, Report(h, d, c, v)
      PROVE  handler'[h].pc = "listing" /\ handler'[h].linked = Linked(handler'[h].deal)
  <2>. DEFINE locals == [Idle EXCEPT !.pc = "listing", !.deal = d, !.cycle = c, !.value = v,
                                     !.linked = Linked(d)]
  <2>1. Begin(h, locals) /\ locals.pc = "listing" /\ locals.deal = d /\ locals.linked = Linked(d)
    BY <1>3 DEF Report, Idle
  <2>. HIDE DEF locals
  <2>. QED
    BY <1>2, <2>1
<1>4. ASSUME NEW d, NEW kind, Ask(h, d, kind)
      PROVE  handler'[h].pc = "asked" /\ ~Linked(handler'[h].deal) /\ handler'[h].cycle = 0
  <2>. DEFINE locals == [Idle EXCEPT !.pc = "asked", !.deal = d, !.kind = kind]
  <2>1. /\ Begin(h, locals) /\ locals.pc = "asked" /\ locals.deal = d /\ ~Linked(d)
        /\ locals.cycle = 0
    BY <1>4 DEF Ask, Idle
  <2>. HIDE DEF locals
  <2>. QED
    BY <1>2, <2>1
<1>5. ASSUME NEW s \in DOMAIN sessions, NEW pc \in {"thinking", "taking"}, Request(h, s, pc)
      PROVE  /\ handler'[h].pc = pc /\ handler'[h].session = s
             /\ handler'[h].deal = sessions[s].of /\ IsOpen(s)
  <2>. DEFINE locals == [Idle EXCEPT !.pc = pc, !.session = s, !.deal = sessions[s].of,
                                     !.ask = sessions[s].ask]
  <2>1. /\ Begin(h, locals) /\ locals.pc = pc /\ locals.session = s
        /\ locals.deal = sessions[s].of /\ IsOpen(s)
    BY <1>5 DEF Request, Idle
  <2>. HIDE DEF locals
  <2>. QED
    BY <1>2, <2>1
<1>6. \E locals : Begin(h, locals)
  BY DEF Arrive, Report, Ask, Request
<1>7. /\ Alone(h) /\ At(h, "idle") /\ raced' = (raced \/ Busy # {})
      /\ UNCHANGED <<deals, usage, sessions, late, subscribed, billed, refusals, faults>>
  BY <1>2, <1>6
<1>8. CASE \E d \in DOMAIN deals, c \in Cycles, v \in Usages : Report(h, d, c, v)
  <2>1. handler'[h].pc = "listing" /\ handler'[h].linked = Linked(handler'[h].deal)
    BY <1>3, <1>8
  <2>. QED
    BY <1>7, <2>1
<1>9. CASE \E d \in DOMAIN deals, kind \in Directions : Ask(h, d, kind)
  <2>1. handler'[h].pc = "asked" /\ ~Linked(handler'[h].deal) /\ handler'[h].cycle = 0
    BY <1>4, <1>9
  <2>. QED
    BY <1>7, <2>1
<1>10. CASE \E s \in DOMAIN sessions, pc \in {"thinking", "taking"} : Request(h, s, pc)
  <2>1. /\ handler'[h].pc \in {"thinking", "taking"}
        /\ handler'[h].session \in 1..Len(sessions)
        /\ IsOpen(handler'[h].session)
        /\ handler'[h].deal = sessions[handler'[h].session].of
    BY <1>1, <1>5, <1>10
  <2>. QED
    BY <1>7, <2>1
<1>. QED
  BY <1>8, <1>9, <1>10 DEF Arrive

\* The request goes on with the cycles on record.
LEMMA ListDoes ==
  ASSUME IInv, NEW h \in Handlers, ListCycles(h)
  PROVE  /\ Alone(h) /\ UNCHANGED <<store, late, Others>>
         /\ \/ At(h, "listing") /\ handler'[h].pc = "adding"
            \/ At(h, "asked") /\ handler'[h].pc = "opening"
         /\ handler'[h].cycles = usage[handler[h].deal]
         /\ UNCHANGED <<handler[h].deal, handler[h].linked, handler[h].cycle>>
<1>1. handler \in [Handlers -> RequestType] /\ handler[h] \in RequestType
  BY DEF IInv
<1>2. handler'[h] = [handler[h] EXCEPT !.cycles = usage[handler[h].deal],
                                       !.pc = IF @ = "asked" THEN "opening" ELSE "adding"]
      /\ Alone(h)
  BY <1>1 DEF ListCycles, Alone
<1>. QED
  BY <1>1, <1>2 DEF ListCycles, RequestType, At

\* The reading is on record; a request that goes on opens a session.
LEMMA AddDoes ==
  ASSUME IInv, NEW h \in Handlers, AddCycle(h)
  PROVE  /\ Alone(h) /\ At(h, "adding") /\ UNCHANGED <<deals, sessions, Others>>
         /\ \/ handler'[h] = Idle
            \/ handler'[h].pc = "opening" /\ ~handler[h].linked
         /\ handler'[h].pc = "opening" => UNCHANGED handler[h].deal
<1>1. handler \in [Handlers -> RequestType] /\ handler[h] \in RequestType
  BY DEF IInv
<1>2. At(h, "adding") /\ UNCHANGED <<deals, sessions, Others>>
  BY DEF AddCycle
<1>3. CASE Finish(h)
  BY <1>1, <1>2, <1>3 DEF Finish, Alone, Idle
<1>4. ASSUME ~handler[h].linked, NEW cycles, NEW kind,
             handler' = [handler EXCEPT ![h].pc = "opening", ![h].cycles = cycles, ![h].kind = kind]
      PROVE  /\ Alone(h) /\ handler'[h].pc = "opening" /\ ~handler[h].linked
             /\ UNCHANGED handler[h].deal
  <2>1. handler'[h] = [handler[h] EXCEPT !.pc = "opening", !.cycles = cycles, !.kind = kind]
        /\ Alone(h)
    BY <1>1, <1>4 DEF Alone
  <2>. QED
    BY <1>1, <1>4, <2>1 DEF RequestType
<1>5. \/ Finish(h)
      \/ /\ ~handler[h].linked
         /\ \E cycles, kind :
              handler' = [handler EXCEPT ![h].pc = "opening", ![h].cycles = cycles,
                                         ![h].kind = kind]
  BY DEF AddCycle
<1>. QED
  BY <1>2, <1>3, <1>4, <1>5

\* The session is the last one, and nobody knows of it.
LEMMA CreateDoes ==
  ASSUME IInv, NEW h \in Handlers, CreateSession(h)
  PROVE  /\ Alone(h) /\ At(h, "opening") /\ UNCHANGED <<deals, usage, late, Others>>
         /\ \A z \in 1..Len(sessions) : sessions'[z] = sessions[z]
         /\ \E n \in Nat :
              /\ n = Len(sessions) + 1 /\ Len(sessions)' = n
              /\ sessions'[n].status = "open" /\ sessions'[n].kind = handler[h].kind
              /\ sessions'[n].of = handler[h].deal /\ ~sessions'[n].known
              /\ sessions'[n].evidence = handler[h].cycles
              /\ sessions'[n].byUsage = (handler[h].cycle # 0)
              /\ handler'[h].pc = "linking" /\ handler'[h].session = n
              /\ handler'[h].deal = handler[h].deal
<1>. DEFINE r    == handler[h]
            b    == BandOf(r.deal, r.kind, r.cycles)
            made == [status |-> "open", kind |-> r.kind, of |-> r.deal, band |-> b,
                     ask |-> b.anchor, known |-> FALSE, evidence |-> r.cycles,
                     byUsage |-> r.cycle # 0]
<1>1. handler \in [Handlers -> RequestType] /\ r \in RequestType
      /\ sessions \in Seq(SessionRecord) /\ Len(sessions) \in Nat
  BY DEF IInv, Tables
<1>2. PICK n \in Nat : n = Len(sessions) + 1
  BY <1>1
<1>3. /\ sessions' = Append(sessions, made) /\ At(h, "opening")
      /\ UNCHANGED <<deals, usage, late, Others>>
  BY DEF CreateSession
<1>4. /\ made.status = "open" /\ made.kind = r.kind /\ made.of = r.deal
      /\ made.known = FALSE /\ made.evidence = r.cycles /\ made.byUsage = (r.cycle # 0)
  OBVIOUS
<1>. HIDE DEF made
<1>5. /\ Len(sessions') = n /\ sessions'[n] = made
      /\ \A z \in 1..Len(sessions) : sessions'[z] = sessions[z]
  BY <1>1, <1>2, <1>3
<1>6. handler'[h] = [r EXCEPT !.pc = "linking", !.session = n] /\ Alone(h)
  BY <1>1, <1>2 DEF CreateSession, Alone
<1>7. /\ handler'[h].pc = "linking" /\ handler'[h].session = n
      /\ handler'[h].deal = handler[h].deal
  BY <1>1, <1>6 DEF RequestType
<1>. QED
  BY <1>2, <1>3, <1>4, <1>5, <1>6, <1>7

\* What a session keeps once it is made.
Lasting(z) ==
  /\ sessions'[z].of = sessions[z].of /\ sessions'[z].kind = sessions[z].kind
  /\ sessions'[z].evidence = sessions[z].evidence /\ sessions'[z].byUsage = sessions[z].byUsage

\* The deal and the session point at each other.
LEMMA LinkDoes ==
  ASSUME IInv, NEW h \in Handlers, LinkReneg(h)
  PROVE  /\ Alone(h) /\ At(h, "linking") /\ handler'[h] = Idle
         /\ UNCHANGED <<usage, late, Others>>
         /\ Len(deals)' = Len(deals) /\ Len(sessions)' = Len(sessions)
         /\ deals'[handler[h].deal].reneg = handler[h].session
         /\ sessions'[handler[h].session].known
         /\ \A z \in 1..Len(deals) :
              /\ deals'[z].session = deals[z].session /\ deals'[z].price = deals[z].price
              /\ z # handler[h].deal => deals'[z].reneg = deals[z].reneg
         /\ \A z \in 1..Len(sessions) :
              /\ Lasting(z) /\ sessions'[z].status = sessions[z].status
              /\ z # handler[h].session => sessions'[z].known = sessions[z].known
<1>1. handler[h].pc \in OfSession
  BY DEF LinkReneg, At, OfSession
<1>2. PICK s \in 1..Len(sessions), d \in 1..Len(deals) :
        s = handler[h].session /\ d = handler[h].deal
  BY <1>1, OnSession
<1>3. /\ sessions[s] \in SessionRecord /\ sessions \in Seq(SessionRecord) /\ s \in Nat
      /\ handler \in [Handlers -> RequestType]
  BY <1>1, <1>2, OnSession DEF IInv, Tables
<1>. DEFINE x == [sessions[s] EXCEPT !.known = TRUE]
<1>4. /\ x \in SessionRecord /\ x.of = sessions[s].of /\ x.kind = sessions[s].kind
      /\ x.evidence = sessions[s].evidence /\ x.byUsage = sessions[s].byUsage
      /\ x.status = sessions[s].status /\ x.known = TRUE
  BY <1>3 DEF SessionRecord
<1>5. sessions' = [sessions EXCEPT ![s] = x] /\ deals' = [deals EXCEPT ![d].reneg = s]
  BY <1>2 DEF LinkReneg
<1>. HIDE DEF x
<1>6. /\ Len(sessions') = Len(sessions) /\ sessions'[s] = x
      /\ \A z \in 1..Len(sessions) : z # s => sessions'[z] = sessions[z]
  BY <1>3, <1>5
<1>7. \A z \in 1..Len(sessions) :
        /\ Lasting(z) /\ sessions'[z].status = sessions[z].status
        /\ z # s => sessions'[z].known = sessions[z].known
  BY <1>4, <1>6 DEF Lasting
<1>8. /\ Len(deals') = Len(deals) /\ deals'[d].reneg = s
      /\ \A z \in 1..Len(deals) :
           /\ deals'[z].session = deals[z].session /\ deals'[z].price = deals[z].price
           /\ z # d => deals'[z].reneg = deals[z].reneg
  BY <1>3, <1>5, LinkWritten
<1>9. /\ Alone(h) /\ At(h, "linking") /\ handler'[h] = Idle
      /\ UNCHANGED <<usage, late, Others>>
  BY <1>3 DEF LinkReneg, Finish, Alone
<1>. QED
  BY <1>2, <1>4, <1>6, <1>7, <1>8, <1>9

\* A status is written; the session keeps the rest, but for its ask.
LEMMA StatusWritten ==
  ASSUME IInv, NEW s \in 1..Len(sessions), NEW x \in SessionRecord,
         sessions' = [sessions EXCEPT ![s] = x],
         x.of = sessions[s].of, x.known = sessions[s].known, x.kind = sessions[s].kind,
         x.evidence = sessions[s].evidence, x.byUsage = sessions[s].byUsage
  PROVE  /\ Len(sessions)' = Len(sessions) /\ sessions'[s].status = x.status
         /\ \A z \in 1..Len(sessions) :
              /\ Lasting(z) /\ sessions'[z].known = sessions[z].known
              /\ z # s => sessions'[z].status = sessions[z].status
<1>1. sessions \in Seq(SessionRecord)
  BY DEF IInv, Tables
<1>2. /\ Len(sessions)' = Len(sessions) /\ sessions'[s] = x
      /\ \A z \in 1..Len(sessions) : z # s => sessions'[z] = sessions[z]
  BY <1>1
<1>. QED
  BY <1>2 DEF Lasting

\* The turns and the last write of settle: the status of the request's session.
LEMMA TurnDoes ==
  ASSUME IInv, NEW h \in Handlers,
         \/ Counter(h) \/ TurnAccepts(h) \/ TurnWalks(h) \/ TakeAsk(h) \/ CloseSession(h)
  PROVE  /\ Alone(h) /\ UNCHANGED <<deals, usage, late, Others>>
         /\ Len(sessions)' = Len(sessions)
         /\ \A z \in 1..Len(sessions) :
              /\ Lasting(z) /\ sessions'[z].known = sessions[z].known
              /\ z # handler[h].session => sessions'[z].status = sessions[z].status
         /\ \/ /\ Counter(h) /\ At(h, "thinking") /\ handler'[h] = Idle
               /\ sessions'[handler[h].session].status = "open"
            \/ /\ CloseSession(h) /\ At(h, "closing") /\ handler'[h] = Idle
               /\ sessions'[handler[h].session].status = "settled"
            \/ /\ At(h, "thinking") \/ At(h, "taking")
               /\ handler'[h].pc = "settling" /\ handler'[h].session = handler[h].session
               /\ handler'[h].deal = handler[h].deal
               /\ sessions'[handler[h].session].status \in {"accepted", "walked"}
<1>1. handler[h].pc \in OfSession
  BY DEF Counter, TurnAccepts, TurnWalks, TakeAsk, CloseSession, At, OfSession
<1>2. PICK s \in 1..Len(sessions) : s = handler[h].session
  BY <1>1, OnSession
<1>3. /\ sessions[s] \in SessionRecord /\ sessions \in Seq(SessionRecord)
      /\ handler \in [Handlers -> RequestType] /\ handler[h] \in RequestType /\ Priced(s)
      /\ sessions[s].band.target \in Nat /\ sessions[s].band.floor \in Nat
  BY <1>1, <1>2, OnSession DEF IInv, Tables, SessionRecord, Prices
<1>4. CASE Counter(h)
  <2>1. PICK ask \in {handler[h].ask, Smaller(handler[h].ask, sessions[s].band.target),
                       sessions[s].band.floor} :
          sessions' = [sessions EXCEPT ![s].status = "open", ![s].ask = ask]
    BY <1>2, <1>4 DEF Counter
  <2>. DEFINE x == [sessions[s] EXCEPT !.status = "open", !.ask = ask]
  <2>2. ask \in Nat
    BY <1>3 DEF Smaller, RequestType
  <2>3. /\ x \in SessionRecord /\ x.of = sessions[s].of /\ x.kind = sessions[s].kind
        /\ x.evidence = sessions[s].evidence /\ x.byUsage = sessions[s].byUsage
        /\ x.status = "open" /\ x.known = sessions[s].known
    BY <1>3, <2>2 DEF SessionRecord
  <2>4. sessions' = [sessions EXCEPT ![s] = x]
    BY <2>1
  <2>. HIDE DEF x
  <2>5. /\ Len(sessions)' = Len(sessions) /\ sessions'[s].status = "open"
        /\ \A z \in 1..Len(sessions) :
              /\ Lasting(z) /\ sessions'[z].known = sessions[z].known
              /\ z # s => sessions'[z].status = sessions[z].status
    BY <2>3, <2>4, StatusWritten
  <2>6. /\ Alone(h) /\ UNCHANGED <<deals, usage, late, Others>>
        /\ At(h, "thinking") /\ handler'[h] = Idle
    BY <1>3, <1>4 DEF Counter, Finish, Alone
  <2>. QED
    BY <1>2, <1>4, <2>5, <2>6
<1>5. ASSUME NEW status \in {"accepted", "walked", "settled"},
             sessions' = [sessions EXCEPT ![s].status = status]
      PROVE  /\ Len(sessions)' = Len(sessions) /\ sessions'[s].status = status
             /\ \A z \in 1..Len(sessions) :
                  /\ Lasting(z) /\ sessions'[z].known = sessions[z].known
                  /\ z # s => sessions'[z].status = sessions[z].status
  <2>. DEFINE x == [sessions[s] EXCEPT !.status = status]
  <2>1. /\ x \in SessionRecord /\ x.of = sessions[s].of /\ x.kind = sessions[s].kind
        /\ x.evidence = sessions[s].evidence /\ x.byUsage = sessions[s].byUsage
        /\ x.status = status /\ x.known = sessions[s].known
    BY <1>3 DEF SessionRecord
  <2>2. sessions' = [sessions EXCEPT ![s] = x]
    BY <1>5
  <2>. HIDE DEF x
  <2>. QED
    BY <2>1, <2>2, StatusWritten
<1>6. CASE TurnAccepts(h) \/ TurnWalks(h) \/ TakeAsk(h)
  <2>1. PICK amount, grandfather : Close(h, amount, grandfather)
    BY <1>6 DEF TurnAccepts, TurnWalks, TakeAsk
  <2>2. At(h, "thinking") \/ At(h, "taking")
    BY <1>6 DEF TurnAccepts, TurnWalks, TakeAsk
  <2>3. PICK status \in {"accepted", "walked"} :
          sessions' = [sessions EXCEPT ![s].status = status]
    BY <1>2, <2>1 DEF Close, EndStatus
  <2>4. handler'[h] = [handler[h] EXCEPT !.pc = "settling", !.amount = amount,
                                         !.grandfather = grandfather]
        /\ Alone(h) /\ UNCHANGED <<deals, usage, late, Others>>
    BY <1>3, <2>1 DEF Close, AfterEnd, Alone
  <2>5. /\ handler'[h].pc = "settling" /\ handler'[h].session = handler[h].session
        /\ handler'[h].deal = handler[h].deal
    BY <1>3, <2>4 DEF RequestType
  <2>. QED
    BY <1>2, <1>5, <2>2, <2>3, <2>4, <2>5
<1>7. CASE CloseSession(h)
  <2>1. /\ sessions' = [sessions EXCEPT ![s].status = "settled"]
        /\ Alone(h) /\ UNCHANGED <<deals, usage, late, Others>>
        /\ At(h, "closing") /\ handler'[h] = Idle
    BY <1>2, <1>3, <1>7 DEF CloseSession, Finish, Alone
  <2>. QED
    BY <1>2, <1>5, <1>7, <2>1
<1>. QED
  BY <1>4, <1>6, <1>7

LEMMA RepriceDoes ==
  ASSUME IInv, NEW h \in Handlers, Reprice(h)
  PROVE  /\ Alone(h) /\ At(h, "settling")
         /\ UNCHANGED <<store, subscribed, raced, late, refusals, faults>>
         /\ billed' = IF subscribed THEN handler[h].amount ELSE billed
         /\ handler'[h].pc = "recording" /\ handler'[h].session = handler[h].session
         /\ handler'[h].deal = handler[h].deal /\ handler'[h].amount = handler[h].amount
<1>1. handler \in [Handlers -> RequestType] /\ handler[h] \in RequestType
  BY DEF IInv
<1>2. handler'[h] = [handler[h] EXCEPT !.pc = "recording"] /\ Alone(h)
  BY <1>1 DEF Reprice, Goto, Alone
<1>. QED
  BY <1>1, <1>2 DEF Reprice, RequestType

LEMMA FaultDoes ==
  ASSUME IInv, NEW h \in Handlers, StripeRefuses(h) \/ HandlerDies(h)
  PROVE  /\ Alone(h) /\ UNCHANGED <<store, subscribed, billed, raced, late>>
         /\ handler'[h] = Idle
         /\ \/ refusals' > 0 /\ StripeRefuses(h) /\ faults' = faults /\ At(h, "settling")
            \/ faults' > 0 /\ HandlerDies(h)
<1>1. handler \in [Handlers -> RequestType] /\ refusals \in Nat /\ faults \in Nat
  BY RenegConstants DEF IInv, Rest
<1>. QED
  BY <1>1 DEF StripeRefuses, HandlerDies, Refused, Finish, Alone

LEMMA RecordDoes ==
  ASSUME IInv, NEW h \in Handlers, RecordDeal(h)
  PROVE  /\ Alone(h) /\ At(h, "recording") /\ UNCHANGED <<sessions, late, Others>>
         /\ usage' = Append(usage, <<>>)
         /\ \A z \in 1..Len(deals) : deals'[z] = deals[z]
         /\ \E n \in Nat :
              /\ n = Len(deals) + 1 /\ Len(deals)' = n
              /\ deals'[n] = [price |-> handler[h].amount, reneg |-> NoSession,
                              session |-> handler[h].session]
         /\ handler'[h].pc = "clearing" /\ handler'[h].session = handler[h].session
         /\ handler'[h].deal = handler[h].deal
<1>1. /\ handler \in [Handlers -> RequestType] /\ handler[h] \in RequestType
      /\ deals \in Seq(DealRecord) /\ Len(deals) \in Nat
  BY DEF IInv, Tables
<1>. DEFINE made == [price |-> handler[h].amount, reneg |-> NoSession,
                     session |-> handler[h].session]
<1>2. PICK n \in Nat : n = Len(deals) + 1
  BY <1>1
<1>3. deals' = Append(deals, made)
  BY DEF RecordDeal
<1>. HIDE DEF made
<1>4. Len(deals') = n /\ deals'[n] = made /\ \A z \in 1..Len(deals) : deals'[z] = deals[z]
  BY <1>1, <1>2, <1>3
<1>5. handler'[h] = [handler[h] EXCEPT !.pc = "clearing"] /\ Alone(h)
  BY <1>1 DEF RecordDeal, Goto, Alone
<1>6. /\ handler'[h].pc = "clearing" /\ handler'[h].session = handler[h].session
      /\ handler'[h].deal = handler[h].deal
  BY <1>1, <1>5 DEF RequestType
<1>7. At(h, "recording") /\ UNCHANGED <<sessions, late, Others>> /\ usage' = Append(usage, <<>>)
  BY DEF RecordDeal
<1>. QED
  BY <1>2, <1>4, <1>5, <1>6, <1>7 DEF made

LEMMA ClearDoes ==
  ASSUME IInv, NEW h \in Handlers, ClearLink(h)
  PROVE  /\ Alone(h) /\ At(h, "clearing") /\ UNCHANGED <<usage, sessions, late, Others>>
         /\ Len(deals)' = Len(deals) /\ deals'[handler[h].deal].reneg = NoSession
         /\ \A z \in 1..Len(deals) :
              /\ deals'[z].session = deals[z].session /\ deals'[z].price = deals[z].price
              /\ z # handler[h].deal => deals'[z].reneg = deals[z].reneg
         /\ \/ handler'[h] = Idle
            \/ /\ handler'[h].pc = "closing" /\ handler'[h].session = handler[h].session
               /\ handler'[h].deal = handler[h].deal
<1>1. handler[h].pc \in OfSession
  BY DEF ClearLink, At, OfSession
<1>2. PICK d \in 1..Len(deals) : d = handler[h].deal
  BY <1>1, OnSession
<1>3. handler \in [Handlers -> RequestType] /\ handler[h] \in RequestType
  BY DEF IInv
<1>4. deals' = [deals EXCEPT ![d].reneg = 0]
  BY <1>2 DEF ClearLink, Cleared, NoSession
<1>5. /\ Len(deals') = Len(deals) /\ deals'[d].reneg = 0
      /\ \A z \in 1..Len(deals) :
           /\ deals'[z].session = deals[z].session /\ deals'[z].price = deals[z].price
           /\ z # d => deals'[z].reneg = deals[z].reneg
  BY <1>4, LinkWritten
<1>6. At(h, "clearing") /\ UNCHANGED <<usage, sessions, late, Others>>
  BY DEF ClearLink
<1>7. Alone(h) /\ (handler'[h] = Idle \/ handler'[h] = [handler[h] EXCEPT !.pc = "closing"])
  BY <1>3 DEF ClearLink, Finish, Goto, Alone
<1>8. \/ handler'[h] = Idle
      \/ /\ handler'[h].pc = "closing" /\ handler'[h].session = handler[h].session
         /\ handler'[h].deal = handler[h].deal
  BY <1>3, <1>7 DEF RequestType
<1>. QED
  BY <1>2, <1>5, <1>6, <1>7, <1>8 DEF NoSession

-----------------------------------------------------------------------------
(* The type invariant *)

\* No deal is taken back.
LEMMA DealsStay ==
  ASSUME IInv, NEW h \in Handlers, Arrive(h) \/ HandlerStep(h) \/ HandlerDies(h)
  PROVE  /\ Len(deals) \in Nat /\ Len(deals)' \in Nat /\ Len(deals) <= Len(deals)'
         /\ AddCycle(h) \/ UNCHANGED late
<1>1. Len(deals) \in Nat
  BY DEF IInv, Tables
<1>2. CASE RecordDeal(h)
  <2>1. \E n \in Nat : n = Len(deals) + 1 /\ Len(deals)' = n
    BY <1>2, RecordDoes
  <2>2. UNCHANGED late
    BY <1>2, RecordDoes
  <2>. QED
    BY <1>1, <2>1, <2>2
<1>3. CASE ~RecordDeal(h)
  <2>1. Len(deals)' = Len(deals) /\ (AddCycle(h) \/ UNCHANGED late)
    BY <1>3, ArriveDoes, ListDoes, AddDoes, CreateDoes, LinkDoes, TurnDoes, RepriceDoes,
       FaultDoes, ClearDoes DEF HandlerStep, store
  <2>. QED
    BY <1>1, <2>1
<1>. QED
  BY <1>2, <1>3

LateKnown == late \subseteq 1..Len(deals)

LEMMA LateInv == Spec => []LateKnown
<1>1. Init => LateKnown
  BY DEF Init, LateKnown
<1>2. IInv /\ LateKnown /\ [Next]_vars => LateKnown'
  <2>. SUFFICES ASSUME IInv, LateKnown, [Next]_vars
                PROVE  LateKnown'
    OBVIOUS
  <2>1. ASSUME NEW h \in Handlers, Arrive(h) \/ HandlerStep(h) \/ HandlerDies(h)
        PROVE  LateKnown'
    <3>1. Len(deals) \in Nat /\ Len(deals)' \in Nat /\ Len(deals) <= Len(deals)'
      BY <2>1, DealsStay
    <3>2. CASE AddCycle(h)
      <4>1. handler[h].deal \in 1..Len(deals)
        BY <3>1, <3>2 DEF AddCycle, At, IInv, Carries
      <4>2. late' \subseteq late \cup {handler[h].deal}
        BY <3>2 DEF AddCycle
      <4>. QED
        BY <3>1, <4>1, <4>2 DEF LateKnown
    <3>3. CASE UNCHANGED late
      BY <3>1, <3>3 DEF LateKnown
    <3>. QED
      BY <2>1, <3>2, <3>3, DealsStay
  <2>2. CASE UNCHANGED vars
    BY <2>2 DEF vars, store, LateKnown
  <2>. QED
    BY <2>1, <2>2 DEF Next
<1>. QED
  BY <1>1, <1>2, Invariance, PTL DEF Spec

\* The type invariant of Renegotiation.
THEOREM TypeCorrect == Spec => []TypeOK
<1>1. IInv /\ LateKnown => TypeOK
  BY InvTypes DEF LateKnown
<1>. QED
  BY <1>1, Invariance, LateInv, PTL

\* reneg.ts:6: whatever turns, walks and races lead to a recorded price, whatever
\* dies and whatever Stripe refuses, it lies in the band of its session, and a
\* raise never records less than the deal it renegotiates.
THEOREM RecordsInBand == Spec => []RecordedInBand
<1>1. IInv => RecordedInBand
  <2>. SUFFICES ASSUME IInv, NEW d \in DOMAIN deals, deals[d].session # NoSession
                PROVE  LET s == sessions[deals[d].session] IN
                       /\ deals[d].price \in s.band.floor..s.band.anchor
                       /\ s.kind = "up" => deals[d].price >= deals[s.of].price
    BY DEF RecordedInBand
  <2>1. d \in 1..Len(deals) /\ deals[d] \in DealRecord /\ Closed(d) /\ Len(sessions) \in Nat
    BY DEF IInv, Tables
  <2>2. deals[d].session \in 1..Len(sessions) /\ deals[d].price \in BandRange(deals[d].session)
    BY <2>1 DEF Closed, NoSession, DealRecord
  <2>3. Priced(deals[d].session) /\ sessions[deals[d].session] \in SessionRecord
    BY <2>2 DEF IInv, Tables
  <2>4. deals[sessions[deals[d].session].of] \in DealRecord
    BY <2>3 DEF Priced, IInv, Tables
  <2>. QED
    BY <2>1, <2>2, <2>3, <2>4 DEF Priced, BandRange, DealRecord, SessionRecord, Prices
<1>. QED
  BY <1>1, Invariance, PTL
-----------------------------------------------------------------------------
(* What is over is carried to its record *)

Over(s) == sessions[s].status \in {"accepted", "walked"}

Carrying(h, s) == handler[h].session = s /\ handler[h].pc \in {"settling", "recording"}

\* Requests that begin, usage reports and openings end no session.
LEMMA BeforeTheEnd ==
  ASSUME IInv, NEW h \in Handlers,
         Arrive(h) \/ ListCycles(h) \/ AddCycle(h) \/ CreateSession(h) \/ LinkReneg(h)
  PROVE  /\ handler[h].pc \in {"idle", "listing", "asked", "adding", "opening", "linking"}
         /\ UNCHANGED <<refusals, faults>> /\ Alone(h)
         /\ Len(deals)' = Len(deals)
         /\ \A d \in 1..Len(deals) : deals'[d].session = deals[d].session
         /\ \A s \in 1..Len(sessions)' :
              \/ s \in 1..Len(sessions) /\ sessions'[s].status = sessions[s].status
              \/ sessions'[s].status = "open"
<1>1. /\ handler \in [Handlers -> RequestType] /\ Len(deals) \in Nat /\ Len(sessions) \in Nat
      /\ deals \in Seq(DealRecord) /\ sessions \in Seq(SessionRecord)
  BY DEF IInv, Tables
<1>2. /\ handler[h].pc \in {"idle", "listing", "asked", "adding", "opening", "linking"}
      /\ UNCHANGED <<refusals, faults>>
  BY DEF Arrive, Report, Ask, Request, Begin, ListCycles, AddCycle, CreateSession, LinkReneg,
     At, Others
<1>3. Alone(h)
  BY <1>1 DEF Arrive, Report, Ask, Request, Begin, ListCycles, AddCycle, CreateSession,
     LinkReneg, Finish, Alone
<1>4. Len(deals)' = Len(deals) /\ \A d \in 1..Len(deals) : deals'[d].session = deals[d].session
  <2>1. CASE LinkReneg(h)
    BY <1>1, <2>1 DEF LinkReneg
  <2>2. CASE UNCHANGED deals
    BY <2>2
  <2>. QED
    BY <2>1, <2>2 DEF Arrive, Report, Ask, Request, Begin, ListCycles, AddCycle,
       CreateSession, store
<1>5. ASSUME NEW s \in 1..Len(sessions)'
      PROVE  \/ s \in 1..Len(sessions) /\ sessions'[s].status = sessions[s].status
             \/ sessions'[s].status = "open"
  <2>1. CASE CreateSession(h)
    <3>1. s \in 1..Len(sessions) => sessions'[s] = sessions[s]
      BY <1>1, <2>1 DEF CreateSession
    <3>2. s \notin 1..Len(sessions) => sessions'[s].status = "open"
      BY <1>1, <1>5, <2>1 DEF CreateSession
    <3>. QED
      BY <3>1, <3>2
  <2>2. CASE LinkReneg(h)
    BY <1>1, <1>5, <2>2 DEF LinkReneg
  <2>3. CASE UNCHANGED sessions
    BY <1>5, <2>3
  <2>. QED
    BY <2>1, <2>2, <2>3 DEF Arrive, Report, Ask, Request, Begin, ListCycles, AddCycle, store
<1>. QED
  BY <1>2, <1>3, <1>4, <1>5

\* The turns, and the request that takes an end to its record: what they write
\* over a status.
LEMMA AfterTheEnd ==
  ASSUME IInv, NEW h \in Handlers,
         \/ Counter(h) \/ TurnAccepts(h) \/ TurnWalks(h) \/ TakeAsk(h)
         \/ Reprice(h) \/ RecordDeal(h) \/ ClearLink(h) \/ CloseSession(h)
  PROVE  /\ UNCHANGED <<refusals, faults>> /\ Alone(h)
         /\ Len(deals) <= Len(deals)'
         /\ \A d \in 1..Len(deals) : deals'[d].session = deals[d].session
         /\ \A s \in 1..Len(sessions)' :
              /\ s \in 1..Len(sessions)
              /\ \/ sessions'[s].status = sessions[s].status /\ ~CloseSession(h)
                 \/ sessions'[s].status = sessions[s].status /\ s # handler[h].session
                 \/ sessions'[s].status \in {"open", "settled"}
                 \/ /\ handler'[h].session = s /\ handler'[h].pc = "settling"
                    /\ sessions'[s].status = EndStatus(handler'[h].grandfather)
<1>1. /\ handler \in [Handlers -> RequestType] /\ Len(deals) \in Nat /\ Len(sessions) \in Nat
      /\ deals \in Seq(DealRecord) /\ sessions \in Seq(SessionRecord)
  BY DEF IInv, Tables
<1>2. UNCHANGED <<refusals, faults>>
  BY DEF Counter, TurnAccepts, TurnWalks, TakeAsk, Close, Reprice, RecordDeal, ClearLink,
     CloseSession, Others
<1>3. Alone(h)
  BY <1>1 DEF Counter, TurnAccepts, TurnWalks, TakeAsk, Close, Reprice, RecordDeal, ClearLink,
     CloseSession, Finish, Goto, Alone
<1>4. Len(deals) <= Len(deals)' /\ \A d \in 1..Len(deals) : deals'[d].session = deals[d].session
  <2>1. CASE RecordDeal(h)
    BY <1>1, <2>1 DEF RecordDeal
  <2>2. CASE ClearLink(h)
    BY <1>1, <2>2 DEF ClearLink
  <2>3. CASE UNCHANGED deals
    BY <1>1, <2>3
  <2>. QED
    BY <2>1, <2>2, <2>3 DEF Counter, TurnAccepts, TurnWalks, TakeAsk, Close, Reprice,
       CloseSession, store
<1>5. ASSUME NEW s \in 1..Len(sessions)'
      PROVE  /\ s \in 1..Len(sessions)
             /\ \/ sessions'[s].status = sessions[s].status /\ ~CloseSession(h)
                \/ sessions'[s].status = sessions[s].status /\ s # handler[h].session
                \/ sessions'[s].status \in {"open", "settled"}
                \/ /\ handler'[h].session = s /\ handler'[h].pc = "settling"
                   /\ sessions'[s].status = EndStatus(handler'[h].grandfather)
  <2>1. CASE Counter(h)
    <3>1. PICK ask \in {handler[h].ask,
                        Smaller(handler[h].ask, sessions[handler[h].session].band.target),
                        sessions[handler[h].session].band.floor} :
            sessions' = [sessions EXCEPT ![handler[h].session].status = "open",
                                         ![handler[h].session].ask = ask]
      BY <2>1 DEF Counter
    <3>2. s \in 1..Len(sessions)
      BY <1>1, <1>5, <3>1
    <3>3. s # handler[h].session => sessions'[s] = sessions[s]
      BY <1>1, <3>1, <3>2
    <3>4. s = handler[h].session => sessions'[s].status = "open"
      BY <1>1, <3>1, <3>2 DEF SessionRecord
    <3>. QED
      BY <3>2, <3>3, <3>4
  <2>2. CASE TurnAccepts(h) \/ TurnWalks(h) \/ TakeAsk(h)
    <3>1. PICK amount, grandfather : Close(h, amount, grandfather)
      BY <2>2 DEF TurnAccepts, TurnWalks, TakeAsk
    <3>2. /\ handler'[h].pc = "settling" /\ handler'[h].session = handler[h].session
          /\ handler'[h].grandfather = grandfather
      BY <1>1, <3>1 DEF Close, AfterEnd, RequestType
    <3>3. s \in 1..Len(sessions) /\ (s # handler[h].session => sessions'[s] = sessions[s])
      BY <1>1, <1>5, <3>1 DEF Close
    <3>4. s = handler[h].session => sessions'[s].status = EndStatus(grandfather)
      BY <1>1, <3>1, <3>3 DEF Close, SessionRecord
    <3>. QED
      BY <3>2, <3>3, <3>4
  <2>3. CASE CloseSession(h)
    <3>1. s \in 1..Len(sessions) /\ (s # handler[h].session => sessions'[s] = sessions[s])
      BY <1>1, <1>5, <2>3 DEF CloseSession
    <3>2. s = handler[h].session => sessions'[s].status = "settled"
      BY <1>1, <2>3, <3>1 DEF CloseSession, SessionRecord
    <3>. QED
      BY <3>1, <3>2
  <2>4. CASE Reprice(h) \/ RecordDeal(h) \/ ClearLink(h)
    <3>1. UNCHANGED sessions /\ ~CloseSession(h)
      BY <2>4 DEF Reprice, RecordDeal, ClearLink, CloseSession, At, store
    <3>. QED
      BY <1>5, <3>1
  <2>. QED
    BY <2>1, <2>2, <2>3, <2>4
<1>. QED
  BY <1>2, <1>3, <1>4, <1>5

\* A refusal and a death are faults.
LEMMA Faulted ==
  ASSUME IInv, NEW h \in Handlers, StripeRefuses(h) \/ HandlerDies(h)
  PROVE  refusals' # 0 \/ faults' # 0
<1>1. refusals \in Nat /\ faults \in Nat
  BY RenegConstants DEF IInv, Rest
<1>. QED
  BY <1>1 DEF StripeRefuses, HandlerDies

\* A step that leaves what was decided with the request that decided it.
LEMMA CarriedKeeps ==
  ASSUME IInv, IInv', EndIsCarriedThrough, NEW h \in Handlers, Alone(h),
         refusals <= refusals', faults <= faults',
         Len(deals) <= Len(deals)',
         \A d \in 1..Len(deals) : deals'[d].session = deals[d].session,
         \A s \in 1..Len(sessions)' :
           Over(s)' => (s \in 1..Len(sessions) /\ Over(s)) \/ Carrying(h, s)',
         \A s \in 1..Len(sessions) :
           Carrying(h, s) =>
             Recorded(s)' \/ Carrying(h, s)' \/ refusals' > 0 \/ faults' > 0
  PROVE  EndIsCarriedThrough'
<1>1. /\ Len(deals) \in Nat /\ Len(deals)' \in Nat
      /\ DOMAIN deals = 1..Len(deals) /\ DOMAIN deals' = 1..Len(deals)'
      /\ DOMAIN sessions = 1..Len(sessions) /\ DOMAIN sessions' = 1..Len(sessions)'
  BY DEF IInv, Tables
<1>2. /\ refusals \in Nat /\ faults \in Nat /\ refusals' \in Nat /\ faults' \in Nat
  BY RenegConstants DEF IInv, Rest
<1>. SUFFICES ASSUME refusals' = 0, faults' = 0, NEW s \in 1..Len(sessions)', Over(s)'
              PROVE  Recorded(s)' \/ \E g \in Handlers : Carrying(g, s)'
  BY <1>1 DEF EndIsCarriedThrough, Over, Carrying, Busy, At
<1>3. CASE Carrying(h, s)'
  BY <1>3
<1>4. CASE s \in 1..Len(sessions) /\ Over(s)
  <2>1. Recorded(s) \/ \E g \in Handlers : Carrying(g, s)
    BY <1>1, <1>2, <1>4 DEF EndIsCarriedThrough, Over, Carrying, Busy
  <2>2. ASSUME Recorded(s)
        PROVE  Recorded(s)'
    BY <1>1, <2>2 DEF Recorded
  <2>3. ASSUME NEW g \in Handlers, Carrying(g, s)
        PROVE  Recorded(s)' \/ \E k \in Handlers : Carrying(k, s)'
    <3>1. CASE g = h
      BY <1>4, <2>3, <3>1
    <3>2. CASE g # h
      BY <2>3, <3>2 DEF Alone, Carrying
    <3>. QED
      BY <3>1, <3>2
  <2>. QED
    BY <2>1, <2>2, <2>3
<1>. QED
  BY <1>3, <1>4

LEMMA CarriedBefore ==
  ASSUME IInv, IInv', EndIsCarriedThrough, NEW h \in Handlers,
         Arrive(h) \/ ListCycles(h) \/ AddCycle(h) \/ CreateSession(h) \/ LinkReneg(h)
  PROVE  EndIsCarriedThrough'
<1>1. Len(deals) \in Nat /\ refusals \in Nat /\ faults \in Nat
  BY RenegConstants DEF IInv, Tables, Rest
<1>2. \A s \in 1..Len(sessions)' : Over(s)' => s \in 1..Len(sessions) /\ Over(s)
  BY BeforeTheEnd DEF Over
<1>3. \A s : ~Carrying(h, s)
  BY BeforeTheEnd DEF Carrying
<1>. QED
  BY <1>1, <1>2, <1>3, BeforeTheEnd, CarriedKeeps

LEMMA CarriedAfter ==
  ASSUME IInv, IInv', EndIsCarriedThrough, NEW h \in Handlers,
         \/ Counter(h) \/ TurnAccepts(h) \/ TurnWalks(h) \/ TakeAsk(h)
         \/ Reprice(h) \/ RecordDeal(h) \/ ClearLink(h) \/ CloseSession(h)
  PROVE  EndIsCarriedThrough'
<1>1. /\ handler \in [Handlers -> RequestType] /\ Len(deals) \in Nat
      /\ deals \in Seq(DealRecord) /\ refusals \in Nat /\ faults \in Nat
  BY RenegConstants DEF IInv, Tables, Rest
<1>2. \A s \in 1..Len(sessions)' :
        Over(s)' => (s \in 1..Len(sessions) /\ Over(s)) \/ Carrying(h, s)'
  BY AfterTheEnd DEF Over, Carrying
<1>3. ASSUME NEW s \in 1..Len(sessions), Carrying(h, s)
      PROVE  Recorded(s)' \/ Carrying(h, s)'
  <2>1. CASE Reprice(h)
    BY <1>1, <1>3, <2>1 DEF Reprice, Goto, Carrying, RequestType
  <2>2. CASE RecordDeal(h)
    <3>1. PICK n \in Nat : n = Len(deals) + 1
      BY <1>1
    <3>2. n \in DOMAIN deals' /\ deals'[n].session = s
      BY <1>1, <1>3, <2>2, <3>1 DEF RecordDeal, Carrying
    <3>. QED
      BY <3>2 DEF Recorded
  <2>. QED
    BY <1>3, <2>1, <2>2 DEF Carrying, At, Counter, TurnAccepts, TurnWalks, TakeAsk, ClearLink,
       CloseSession
<1>. QED
  BY <1>1, <1>2, <1>3, AfterTheEnd, CarriedKeeps

LEMMA CarriedFault ==
  ASSUME IInv, NEW h \in Handlers, StripeRefuses(h) \/ HandlerDies(h)
  PROVE  EndIsCarriedThrough'
BY Faulted DEF EndIsCarriedThrough

\* README.md:279 "Access is never hard-cut": with any number of requests racing over
\* the same sessions, a renegotiation that is accepted or walked away from is
\* recorded, or the request that ended it is still on its way to the record.
THEOREM EndsAreCarried == Spec => []EndIsCarriedThrough
<1>1. Init => EndIsCarriedThrough
  BY DEF Init, EndIsCarriedThrough
<1>2. IInv /\ EndIsCarriedThrough /\ [Next]_vars /\ IInv' => EndIsCarriedThrough'
  <2>. SUFFICES ASSUME IInv, IInv', EndIsCarriedThrough, [Next]_vars
                PROVE  EndIsCarriedThrough'
    OBVIOUS
  <2>1. ASSUME NEW h \in Handlers, Arrive(h) \/ HandlerStep(h) \/ HandlerDies(h)
        PROVE  EndIsCarriedThrough'
    BY <2>1, CarriedBefore, CarriedAfter, CarriedFault DEF HandlerStep
  <2>2. CASE UNCHANGED vars
    BY <2>2 DEF vars, store, EndIsCarriedThrough, Recorded, Busy, At
  <2>. QED
    BY <2>1, <2>2 DEF Next
<1>. QED
  BY <1>1, <1>2, Invariance, PTL DEF Spec

-----------------------------------------------------------------------------
(* What is accepted is settled *)

Accepted(s) == sessions[s].status = "accepted"

\* The request that will write "settled" over the session.
Ending(h, s) ==
  /\ handler[h].session = s /\ ~handler[h].grandfather
  /\ handler[h].pc \in {"settling", "recording", "clearing", "closing"}

AcceptedEnds ==
  refusals = 0 /\ faults = 0 =>
    \A s \in 1..Len(sessions) : Accepted(s) => \E h \in Handlers : Ending(h, s)

LEMMA EndingKeeps ==
  ASSUME IInv, IInv', AcceptedEnds, NEW h \in Handlers, Alone(h),
         UNCHANGED <<refusals, faults>>,
         \A s \in 1..Len(sessions)' :
           Accepted(s)' => (s \in 1..Len(sessions) /\ Accepted(s)) \/ Ending(h, s)',
         \A s \in 1..Len(sessions) : Ending(h, s) => ~Accepted(s)' \/ Ending(h, s)'
  PROVE  AcceptedEnds'
<1>. SUFFICES ASSUME refusals = 0, faults = 0, NEW s \in 1..Len(sessions)', Accepted(s)'
              PROVE  \E g \in Handlers : Ending(g, s)'
  BY DEF AcceptedEnds
<1>1. CASE Ending(h, s)'
  BY <1>1
<1>2. CASE s \in 1..Len(sessions) /\ Accepted(s)
  <2>1. PICK g \in Handlers : Ending(g, s)
    BY <1>2 DEF AcceptedEnds
  <2>2. CASE g = h
    BY <1>2, <2>1, <2>2
  <2>3. CASE g # h
    BY <2>1, <2>3 DEF Alone, Ending
  <2>. QED
    BY <2>2, <2>3
<1>. QED
  BY <1>1, <1>2

LEMMA EndingAfter ==
  ASSUME IInv, IInv', AcceptedEnds, NEW h \in Handlers,
         \/ Counter(h) \/ TurnAccepts(h) \/ TurnWalks(h) \/ TakeAsk(h)
         \/ Reprice(h) \/ RecordDeal(h) \/ ClearLink(h) \/ CloseSession(h)
  PROVE  AcceptedEnds'
<1>1. handler \in [Handlers -> RequestType] /\ handler' \in [Handlers -> RequestType]
  BY DEF IInv
<1>2. ASSUME NEW s \in 1..Len(sessions)', Accepted(s)'
      PROVE  (s \in 1..Len(sessions) /\ Accepted(s)) \/ Ending(h, s)'
  <2>1. ASSUME handler'[h].session = s, handler'[h].pc = "settling",
               sessions'[s].status = EndStatus(handler'[h].grandfather)
        PROVE  Ending(h, s)'
    BY <1>1, <1>2, <2>1 DEF Accepted, Ending, EndStatus, RequestType
  <2>. QED
    BY <1>2, <2>1, AfterTheEnd DEF Accepted
<1>3. ASSUME NEW s \in 1..Len(sessions), Ending(h, s)
      PROVE  ~Accepted(s)' \/ Ending(h, s)'
  <2>1. CASE Reprice(h) \/ RecordDeal(h) \/ ClearLink(h)
    BY <1>1, <1>3, <2>1 DEF Reprice, RecordDeal, ClearLink, Goto, Ending, RequestType
  <2>2. CASE CloseSession(h)
    <3>1. s = handler[h].session
      BY <1>3 DEF Ending
    <3>2. sessions'[s].status = "settled"
      BY <3>1, <2>2 DEF CloseSession, IInv, Tables, SessionRecord
    <3>. QED
      BY <3>2 DEF Accepted
  <2>. QED
    BY <1>3, <2>1, <2>2 DEF Ending, At, Counter, TurnAccepts, TurnWalks, TakeAsk
<1>. QED
  BY <1>2, <1>3, AfterTheEnd, EndingKeeps

LEMMA EndingInv == Spec => []AcceptedEnds
<1>1. Init => AcceptedEnds
  BY DEF Init, AcceptedEnds
<1>2. IInv /\ AcceptedEnds /\ [Next]_vars /\ IInv' => AcceptedEnds'
  <2>. SUFFICES ASSUME IInv, IInv', AcceptedEnds, [Next]_vars
                PROVE  AcceptedEnds'
    OBVIOUS
  <2>1. ASSUME NEW h \in Handlers,
               Arrive(h) \/ ListCycles(h) \/ AddCycle(h) \/ CreateSession(h) \/ LinkReneg(h)
        PROVE  AcceptedEnds'
    <3>1. \A s \in 1..Len(sessions)' : Accepted(s)' => s \in 1..Len(sessions) /\ Accepted(s)
      BY <2>1, BeforeTheEnd DEF Accepted
    <3>2. \A s : ~Ending(h, s)
      BY <2>1, BeforeTheEnd DEF Ending
    <3>. QED
      BY <2>1, <3>1, <3>2, BeforeTheEnd, EndingKeeps
  <2>2. ASSUME NEW h \in Handlers, StripeRefuses(h) \/ HandlerDies(h)
        PROVE  AcceptedEnds'
    BY <2>2, Faulted DEF AcceptedEnds
  <2>3. CASE UNCHANGED vars
    BY <2>3 DEF vars, store, AcceptedEnds, Accepted, Ending
  <2>. QED
    BY <2>1, <2>2, <2>3, EndingAfter DEF Next, HandlerStep
<1>. QED
  BY <1>1, <1>2, Invariance, PTL DEF Spec

\* Three sets that share nothing and leave nothing out.
LEMMA ThreeParts ==
  ASSUME NEW A, NEW B, NEW C, IsFiniteSet(A \cup B \cup C),
         A \cap B = {}, A \cap C = {}, B \cap C = {}
  PROVE  Cardinality(A) + Cardinality(B) + Cardinality(C) = Cardinality(A \cup B \cup C)
<1>. DEFINE S == A \cup B \cup C
<1>1. IsFiniteSet(S)
  OBVIOUS
<1>2. IsFiniteSet(A) /\ IsFiniteSet(B) /\ IsFiniteSet(C) /\ IsFiniteSet(A \cup B)
  <2>1. A \subseteq S /\ B \subseteq S /\ C \subseteq S /\ A \cup B \subseteq S
    OBVIOUS
  <2>. QED
    BY <1>1, <2>1, FS_Subset
<1>3. Cardinality({}) = 0
  BY FS_EmptySet
<1>4. Cardinality(A) \in Nat /\ Cardinality(B) \in Nat /\ Cardinality(C) \in Nat
  BY <1>2, FS_CardinalityType
<1>5. Cardinality(A \cup B) = Cardinality(A) + Cardinality(B)
  <2>1. Cardinality(A \cup B) = Cardinality(A) + Cardinality(B) - Cardinality(A \cap B)
    BY <1>2, FS_Union
  <2>2. Cardinality(A \cap B) = 0
    BY <1>3
  <2>. QED
    BY <1>4, <2>1, <2>2
<1>6. Cardinality(S) = Cardinality(A \cup B) + Cardinality(C)
  <2>. DEFINE D == A \cup B
  <2>1. D \cap C = {} /\ D \cup C = S /\ IsFiniteSet(D)
    BY <1>2
  <2>. HIDE DEF D
  <2>2. Cardinality(D \cup C) = Cardinality(D) + Cardinality(C) - Cardinality(D \cap C)
    BY <1>2, <2>1, FS_Union
  <2>3. Cardinality(D \cap C) = 0 /\ Cardinality(D \cup C) = Cardinality(S)
    BY <1>3, <2>1
  <2>4. Cardinality(D) \in Nat
    BY <2>1, FS_CardinalityType
  <2>5. Cardinality(S) = Cardinality(D) + Cardinality(C)
    BY <1>4, <2>2, <2>3, <2>4
  <2>. QED
    BY <2>5 DEF D
<1>. QED
  BY <1>1, <1>5, <1>6

\* A session is closed as settled after its price is on record.
RecordFirst ==
  /\ \A s \in 1..Len(sessions) : sessions[s].status = "settled" => Recorded(s)
  /\ \A h \in Handlers :
       handler[h].pc \in {"clearing", "closing"} => Recorded(handler[h].session)

LEMMA RecordFirstKeeps ==
  ASSUME RecordFirst, NEW h \in Handlers, Alone(h),
         \A s : Recorded(s) => Recorded(s)',
         \A s \in 1..Len(sessions)' :
           sessions'[s].status = "settled" =>
             (s \in 1..Len(sessions) /\ sessions[s].status = "settled") \/ Recorded(s),
         At(h, "clearing")' \/ At(h, "closing")' => Recorded(handler[h].session)'
  PROVE  RecordFirst'
<1>1. ASSUME NEW s \in 1..Len(sessions)', sessions'[s].status = "settled"
      PROVE  Recorded(s)'
  <2>1. Recorded(s)
    BY <1>1 DEF RecordFirst
  <2>. QED
    BY <2>1
<1>2. ASSUME NEW g \in Handlers, handler'[g].pc \in {"clearing", "closing"}
      PROVE  Recorded(handler[g].session)'
  <2>1. CASE g = h
    BY <1>2, <2>1 DEF At
  <2>2. CASE g # h
    <3>1. handler'[g] = handler[g]
      BY <2>2 DEF Alone
    <3>2. PICK z : z = handler[g].session
      OBVIOUS
    <3>3. Recorded(z)'
      BY <1>2, <3>1, <3>2 DEF RecordFirst
    <3>. QED
      BY <3>1, <3>2, <3>3
  <2>. QED
    BY <2>1, <2>2
<1>. QED
  BY <1>1, <1>2 DEF RecordFirst

\* No step takes a record back.
LEMMA RecordsStay ==
  ASSUME IInv, IInv', Len(deals) <= Len(deals)',
         \A d \in 1..Len(deals) : deals'[d].session = deals[d].session
  PROVE  \A s : Recorded(s) => Recorded(s)'
<1>1. DOMAIN deals = 1..Len(deals) /\ DOMAIN deals' = 1..Len(deals)'
      /\ Len(deals) \in Nat /\ Len(deals)' \in Nat
  BY DEF IInv, Tables
<1>. QED
  BY <1>1 DEF Recorded

LEMMA RecordFirstStep ==
  ASSUME IInv, IInv', RecordFirst, NEW h \in Handlers,
         Arrive(h) \/ HandlerStep(h) \/ HandlerDies(h)
  PROVE  RecordFirst'
<1>. DEFINE s == handler[h].session
<1>1. CASE Arrive(h) \/ ListCycles(h) \/ AddCycle(h) \/ CreateSession(h) \/ LinkReneg(h)
  <2>1. /\ Alone(h) /\ Len(deals)' = Len(deals)
        /\ \A d \in 1..Len(deals) : deals'[d].session = deals[d].session
        /\ \A z \in 1..Len(sessions)' :
             \/ z \in 1..Len(sessions) /\ sessions'[z].status = sessions[z].status
             \/ sessions'[z].status = "open"
    BY <1>1, BeforeTheEnd
  <2>2. Len(deals) \in Nat
    BY DEF IInv, Tables
  <2>3. \A z : Recorded(z) => Recorded(z)'
    BY <2>1, <2>2, RecordsStay
  <2>4. ~At(h, "clearing")' /\ ~At(h, "closing")'
    BY <1>1, ArriveDoes, ListDoes, AddDoes, CreateDoes, LinkDoes DEF Idle, At
  <2>. QED
    BY <2>1, <2>3, <2>4, RecordFirstKeeps
<1>2. CASE \/ Counter(h) \/ TurnAccepts(h) \/ TurnWalks(h) \/ TakeAsk(h) \/ CloseSession(h)
  <2>1. /\ Alone(h) /\ UNCHANGED deals /\ Len(sessions)' = Len(sessions)
        /\ \A z \in 1..Len(sessions) :
             z # s => sessions'[z].status = sessions[z].status
        /\ \/ At(h, "closing") /\ handler'[h] = Idle
           \/ /\ sessions'[s].status \in {"open", "accepted", "walked"}
              /\ handler'[h] = Idle \/ handler'[h].pc = "settling"
    BY <1>2, TurnDoes
  <2>2. \A z : Recorded(z) => Recorded(z)'
    BY <2>1 DEF Recorded
  <2>3. At(h, "closing") => Recorded(s)
    BY DEF RecordFirst, At
  <2>4. ~At(h, "clearing")' /\ ~At(h, "closing")'
    BY <2>1 DEF Idle, At
  <2>5. \A z \in 1..Len(sessions)' :
          sessions'[z].status = "settled" =>
            (z \in 1..Len(sessions) /\ sessions[z].status = "settled") \/ Recorded(z)
    BY <2>1, <2>3
  <2>. QED
    BY <2>1, <2>2, <2>4, <2>5, RecordFirstKeeps
<1>3. CASE Reprice(h) \/ StripeRefuses(h) \/ HandlerDies(h)
  <2>1. /\ Alone(h) /\ UNCHANGED <<deals, sessions>>
        /\ handler'[h] = Idle \/ handler'[h].pc = "recording"
    BY <1>3, RepriceDoes, FaultDoes DEF store
  <2>2. \A z : Recorded(z) => Recorded(z)'
    BY <2>1 DEF Recorded
  <2>3. ~At(h, "clearing")' /\ ~At(h, "closing")'
    BY <2>1 DEF Idle, At
  <2>. QED
    BY <2>1, <2>2, <2>3, RecordFirstKeeps
<1>4. CASE RecordDeal(h)
  <2>1. /\ Alone(h) /\ UNCHANGED sessions /\ handler'[h].session = s
        /\ \A z \in 1..Len(deals) : deals'[z] = deals[z]
    BY <1>4, RecordDoes
  <2>2. PICK n \in Nat :
          /\ n = Len(deals) + 1 /\ Len(deals)' = n /\ deals'[n].session = s
    <3>1. PICK n \in Nat :
            /\ n = Len(deals) + 1 /\ Len(deals)' = n
            /\ deals'[n] = [price |-> handler[h].amount, reneg |-> NoSession,
                            session |-> s]
      BY <1>4, RecordDoes
    <3>2. deals'[n].session = s
      BY <3>1
    <3>. QED
      BY <3>1, <3>2
  <2>3. Len(deals) \in Nat /\ DOMAIN deals' = 1..Len(deals)'
    BY DEF IInv, Tables
  <2>4. \A z : Recorded(z) => Recorded(z)'
    BY <2>1, <2>2, <2>3, RecordsStay
  <2>5. Recorded(s)'
    <3>1. n \in DOMAIN deals' /\ deals'[n].session = s
      BY <2>2, <2>3
    <3>2. s' = s
      BY <2>1
    <3>. QED
      BY <3>1, <3>2 DEF Recorded
  <2>6. Recorded(handler[h].session)'
    BY <2>5
  <2>. QED
    BY <2>1, <2>4, <2>6, RecordFirstKeeps
<1>5. CASE ClearLink(h)
  <2>1. /\ Alone(h) /\ At(h, "clearing") /\ UNCHANGED sessions /\ Len(deals)' = Len(deals)
        /\ \A z \in 1..Len(deals) : deals'[z].session = deals[z].session
        /\ handler'[h] = Idle \/ handler'[h].session = s
    BY <1>5, ClearDoes
  <2>2. Len(deals) \in Nat
    BY DEF IInv, Tables
  <2>3. \A z : Recorded(z) => Recorded(z)'
    BY <2>1, <2>2, RecordsStay
  <2>4. Recorded(s)
    BY <2>1 DEF RecordFirst, At
  <2>5. At(h, "clearing")' \/ At(h, "closing")' => Recorded(handler[h].session)'
    <3>1. PICK z : z = s
      OBVIOUS
    <3>2. Recorded(z)'
      BY <2>3, <2>4, <3>1
    <3>3. At(h, "clearing")' \/ At(h, "closing")' => handler'[h].session = z
      BY <2>1, <3>1 DEF Idle, At
    <3>. QED
      BY <3>2, <3>3
  <2>. QED
    BY <2>1, <2>3, <2>5, RecordFirstKeeps
<1>. QED
  BY <1>1, <1>2, <1>3, <1>4, <1>5 DEF HandlerStep

LEMMA RecordFirstInv == Spec => []RecordFirst
<1>1. Init => RecordFirst
  BY DEF Init, RecordFirst, Idle
<1>2. IInv /\ RecordFirst /\ [Next]_vars /\ IInv' => RecordFirst'
  <2>. SUFFICES ASSUME IInv, IInv', RecordFirst, [Next]_vars
                PROVE  RecordFirst'
    OBVIOUS
  <2>1. CASE UNCHANGED vars
    BY <2>1 DEF vars, store, RecordFirst, Recorded
  <2>. QED
    BY <2>1, RecordFirstStep DEF Next
<1>. QED
  BY <1>1, <1>2, Invariance, PTL DEF Spec

-----------------------------------------------------------------------------
(* Links between deals and their sessions *)

Beyond(h) == handler[h].pc \in OfSession \ {"linking"}

\* A request that works on a session was told its id; one that is to link it has
\* told nobody. By the time settle closes a session, its deal has no link to it.
Knows(h) ==
  /\ Beyond(h) => sessions[handler[h].session].known
  /\ At(h, "linking") =>
       ~sessions[handler[h].session].known /\ sessions[handler[h].session].status = "open"
  /\ At(h, "closing") => deals[handler[h].deal].reneg # handler[h].session

Pointed(d) ==
  Linked(d) => sessions[deals[d].reneg].known /\ sessions[deals[d].reneg].of = d

LinkInv ==
  /\ \A h \in Handlers : Knows(h)
  /\ \A d \in 1..Len(deals) : Pointed(d)
  /\ \A g, h \in Handlers :
       At(g, "linking") /\ At(h, "linking") /\ handler[g].session = handler[h].session => g = h

\* A step that tells nobody of a session and links no deal.
LEMMA LinksKeep ==
  ASSUME IInv, LinkInv, NEW h \in Handlers, Alone(h),
         \A z \in 1..Len(sessions) :
           sessions'[z].known = sessions[z].known /\ sessions'[z].of = sessions[z].of,
         \A z \in 1..Len(sessions) :
           ~sessions[z].known => sessions'[z].status = sessions[z].status,
         \A d \in 1..Len(deals) :
           deals'[d].reneg \in {NoSession, deals[d].reneg},
         \A d \in 1..Len(deals)' : d \notin 1..Len(deals) => ~Linked(d)',
         Knows(h)',
         \A g \in Handlers \ {h} :
           At(g, "linking") => ~At(h, "linking")' \/ handler'[h].session # handler[g].session
  PROVE  LinkInv'
<1>1. ASSUME NEW g \in Handlers \ {h}
      PROVE  Knows(g)'
  <2>1. handler'[g] = handler[g] /\ Knows(g)
    BY DEF Alone, LinkInv
  <2>2. CASE handler[g].pc \in OfSession
    <3>1. /\ handler[g].session \in 1..Len(sessions) /\ handler[g].deal \in 1..Len(deals)
      BY <2>2, OnSession
    <3>2. handler[g].session # NoSession
      BY <3>1 DEF NoSession
    <3>. QED
      BY <2>1, <3>1, <3>2 DEF Knows, Beyond, At
  <2>3. CASE handler[g].pc \notin OfSession
    BY <2>1, <2>3 DEF Knows, Beyond, At, OfSession
  <2>. QED
    BY <2>2, <2>3
<1>2. ASSUME NEW d \in 1..Len(deals)', Linked(d)'
      PROVE  Pointed(d)'
  <2>1. d \in 1..Len(deals) /\ deals'[d].reneg = deals[d].reneg /\ Linked(d) /\ Pointed(d)
    BY <1>2 DEF Linked, LinkInv
  <2>2. deals[d].reneg \in 1..Len(sessions)
    BY <2>1 DEF IInv, Closed, Tables, Linked, NoSession
  <2>. QED
    BY <2>1, <2>2 DEF Pointed
<1>3. ASSUME NEW g \in Handlers, NEW k \in Handlers, At(g, "linking")', At(k, "linking")',
             handler'[g].session = handler'[k].session
      PROVE  g = k
  BY <1>3 DEF Alone, At, LinkInv
<1>. QED
  BY <1>1, <1>2, <1>3 DEF LinkInv, Pointed

\* The deal of a session nobody knew of is linked to it.
LEMMA LinksLink ==
  ASSUME IInv, LinkInv, NEW h \in Handlers, LinkReneg(h)
  PROVE  LinkInv'
<1>. DEFINE s == handler[h].session
            d == handler[h].deal
<1>1. At(h, "linking") /\ handler[h].pc \in OfSession
  BY DEF LinkReneg, At, OfSession
<1>2. /\ s \in 1..Len(sessions) /\ d \in 1..Len(deals) /\ sessions[s].of = d
      /\ ~sessions[s].known
  BY <1>1, OnSession DEF LinkInv, Knows
<1>3. /\ Alone(h) /\ handler'[h] = Idle /\ Len(deals)' = Len(deals)
      /\ deals'[d].reneg = s /\ sessions'[s].known
      /\ \A z \in 1..Len(deals) : z # d => deals'[z].reneg = deals[z].reneg
      /\ \A z \in 1..Len(sessions) :
           /\ sessions'[z].of = sessions[z].of /\ sessions'[z].status = sessions[z].status
           /\ z # s => sessions'[z].known = sessions[z].known
  BY LinkDoes DEF Lasting
<1>4. ASSUME NEW g \in Handlers \ {h}
      PROVE  Knows(g)'
  <2>1. handler'[g] = handler[g] /\ Knows(g)
    BY <1>3 DEF Alone, LinkInv
  <2>2. CASE handler[g].pc \in OfSession
    <3>1. /\ handler[g].session \in 1..Len(sessions) /\ handler[g].deal \in 1..Len(deals)
      BY <2>2, OnSession
    <3>2. At(g, "linking") => handler[g].session # s
      BY <1>1 DEF LinkInv
    <3>3. At(g, "closing") => handler[g].session # s
      BY <1>2, <2>1 DEF Knows, Beyond, At, OfSession
    <3>4. Beyond(g) => sessions'[handler[g].session].known
      BY <1>3, <2>1, <3>1 DEF Knows
    <3>5. At(g, "linking") =>
            /\ ~sessions'[handler[g].session].known
            /\ sessions'[handler[g].session].status = "open"
      BY <1>3, <2>1, <3>1, <3>2 DEF Knows
    <3>6. At(g, "closing") => deals'[handler[g].deal].reneg # handler[g].session
      BY <1>3, <2>1, <3>1, <3>3 DEF Knows
    <3>. QED
      BY <2>1, <3>4, <3>5, <3>6 DEF Knows, Beyond, At
  <2>3. CASE handler[g].pc \notin OfSession
    BY <2>1, <2>3 DEF Knows, Beyond, At, OfSession
  <2>. QED
    BY <2>2, <2>3
<1>5. Knows(h)'
  BY <1>3 DEF Knows, Beyond, At, Idle, OfSession
<1>6. ASSUME NEW z \in 1..Len(deals)', Linked(z)'
      PROVE  Pointed(z)'
  <2>1. CASE z = d
    BY <1>2, <1>3, <2>1 DEF Pointed
  <2>2. CASE z # d
    <3>1. z \in 1..Len(deals) /\ deals'[z].reneg = deals[z].reneg /\ Linked(z) /\ Pointed(z)
      BY <1>3, <1>6, <2>2 DEF Linked, LinkInv
    <3>2. deals[z].reneg \in 1..Len(sessions)
      BY <3>1 DEF IInv, Closed, Tables, Linked, NoSession
    <3>. QED
      BY <1>3, <3>1, <3>2 DEF Pointed
  <2>. QED
    BY <2>1, <2>2
<1>7. ASSUME NEW g \in Handlers, NEW k \in Handlers, At(g, "linking")', At(k, "linking")',
             handler'[g].session = handler'[k].session
      PROVE  g = k
  BY <1>3, <1>7 DEF Alone, At, LinkInv, Idle
<1>. QED
  BY <1>4, <1>5, <1>6, <1>7 DEF LinkInv, Pointed

LEMMA LinksStep ==
  ASSUME IInv, LinkInv, NEW h \in Handlers, Arrive(h) \/ HandlerStep(h) \/ HandlerDies(h)
  PROVE  LinkInv'
<1>. USE DEF Lasting
<1>1. Knows(h) /\ Len(deals) \in Nat /\ Len(sessions) \in Nat
  BY DEF LinkInv, IInv, Tables
<1>2. CASE Arrive(h)
  <2>1. /\ UNCHANGED <<deals, sessions>> /\ Alone(h)
        /\ handler'[h].pc \in {"listing", "asked", "thinking", "taking"}
        /\ handler'[h].pc \in {"thinking", "taking"} => sessions[handler'[h].session].known
    BY <1>2, ArriveDoes DEF IsOpen
  <2>2. Knows(h)' /\ ~At(h, "linking")'
    BY <2>1 DEF Knows, Beyond, At, OfSession
  <2>. QED
    BY <2>1, <2>2, LinksKeep
<1>3. CASE ListCycles(h) \/ AddCycle(h) \/ StripeRefuses(h) \/ HandlerDies(h)
  <2>1. /\ UNCHANGED <<deals, sessions>> /\ Alone(h)
        /\ handler'[h].pc \in {"idle", "adding", "opening"}
    BY <1>3, ListDoes, AddDoes, FaultDoes DEF store, Idle
  <2>2. Knows(h)' /\ ~At(h, "linking")'
    BY <2>1 DEF Knows, Beyond, At, OfSession
  <2>. QED
    BY <2>1, <2>2, LinksKeep
<1>4. CASE CreateSession(h)
  <2>1. /\ Alone(h) /\ UNCHANGED deals
        /\ \A z \in 1..Len(sessions) : sessions'[z] = sessions[z]
    BY <1>4, CreateDoes
  <2>2. PICK n \in Nat :
          /\ n = Len(sessions) + 1 /\ sessions'[n].status = "open" /\ ~sessions'[n].known
          /\ handler'[h].pc = "linking" /\ handler'[h].session = n
    BY <1>4, CreateDoes
  <2>3. Knows(h)'
    BY <2>2 DEF Knows, Beyond, At
  <2>4. \A g \in Handlers : At(g, "linking") => handler[g].session # n
    BY <1>1, <2>2 DEF IInv, Carries
  <2>. QED
    BY <2>1, <2>2, <2>3, <2>4, LinksKeep
<1>5. CASE Counter(h) \/ TurnAccepts(h) \/ TurnWalks(h) \/ TakeAsk(h) \/ CloseSession(h)
  <2>1. /\ Alone(h) /\ UNCHANGED deals
        /\ \A z \in 1..Len(sessions) :
             /\ sessions'[z].of = sessions[z].of /\ sessions'[z].known = sessions[z].known
             /\ z # handler[h].session => sessions'[z].status = sessions[z].status
    BY <1>5, TurnDoes
  <2>2. Beyond(h) /\ handler[h].session \in 1..Len(sessions)
    <3>1. Beyond(h) /\ handler[h].pc \in OfSession
      BY <1>5 DEF Counter, TurnAccepts, TurnWalks, TakeAsk, CloseSession, At, Beyond, OfSession
    <3>. QED
      BY <3>1, OnSession
  <2>3. sessions[handler[h].session].known
    BY <1>1, <2>2 DEF Knows
  <2>4. \/ handler'[h] = Idle
        \/ handler'[h].pc = "settling" /\ handler'[h].session = handler[h].session
    BY <1>5, TurnDoes
  <2>5. Knows(h)' /\ ~At(h, "linking")'
    BY <2>1, <2>2, <2>3, <2>4 DEF Knows, Beyond, At, Idle, OfSession
  <2>. QED
    BY <2>1, <2>3, <2>5, LinksKeep
<1>6. CASE Reprice(h)
  <2>1. /\ Alone(h) /\ UNCHANGED <<deals, sessions>> /\ At(h, "settling")
        /\ handler'[h].pc = "recording" /\ handler'[h].session = handler[h].session
    BY <1>6, RepriceDoes DEF store
  <2>2. Knows(h)' /\ ~At(h, "linking")'
    BY <1>1, <2>1 DEF Knows, Beyond, At, OfSession
  <2>. QED
    BY <2>1, <2>2, LinksKeep
<1>7. CASE RecordDeal(h)
  <2>1. /\ Alone(h) /\ UNCHANGED sessions /\ At(h, "recording")
        /\ \A z \in 1..Len(deals) : deals'[z] = deals[z]
        /\ handler'[h].pc = "clearing" /\ handler'[h].session = handler[h].session
    BY <1>7, RecordDoes
  <2>2. \A d \in 1..Len(deals)' : d \notin 1..Len(deals) => ~Linked(d)'
    <3>1. PICK n \in Nat :
            /\ n = Len(deals) + 1 /\ Len(deals)' = n
            /\ deals'[n] = [price |-> handler[h].amount, reneg |-> NoSession,
                            session |-> handler[h].session]
      BY <1>7, RecordDoes
    <3>2. deals'[n].reneg = NoSession
      BY <3>1
    <3>. QED
      BY <1>1, <3>1, <3>2 DEF Linked
  <2>3. Knows(h)' /\ ~At(h, "linking")'
    BY <1>1, <2>1 DEF Knows, Beyond, At, OfSession
  <2>. QED
    BY <2>1, <2>2, <2>3, LinksKeep
<1>8. CASE ClearLink(h)
  <2>1. /\ Alone(h) /\ UNCHANGED sessions /\ At(h, "clearing") /\ Len(deals)' = Len(deals)
        /\ deals'[handler[h].deal].reneg = NoSession
        /\ \A z \in 1..Len(deals) : z # handler[h].deal => deals'[z].reneg = deals[z].reneg
        /\ \/ handler'[h] = Idle
           \/ /\ handler'[h].pc = "closing" /\ handler'[h].session = handler[h].session
              /\ handler'[h].deal = handler[h].deal
    BY <1>8, ClearDoes
  <2>2. handler[h].session # NoSession
    <3>1. handler[h].pc \in OfSession
      BY <2>1 DEF At, OfSession
    <3>. QED
      BY <3>1, OnSession DEF NoSession
  <2>3. Knows(h)' /\ ~At(h, "linking")'
    BY <1>1, <2>1, <2>2 DEF Knows, Beyond, At, Idle, OfSession
  <2>4. \A z \in 1..Len(deals) : deals'[z].reneg \in {NoSession, deals[z].reneg}
    BY <2>1
  <2>. QED
    BY <2>1, <2>3, <2>4, LinksKeep
<1>. QED
  BY <1>2, <1>3, <1>4, <1>5, <1>6, <1>7, <1>8, LinksLink DEF HandlerStep

LEMMA LinksInv == Spec => []LinkInv
<1>1. Init => LinkInv
  BY DEF Init, LinkInv, Knows, Pointed, Beyond, At, Idle, OfSession, Linked
<1>2. IInv /\ LinkInv /\ [Next]_vars => LinkInv'
  <2>. SUFFICES ASSUME IInv, LinkInv, [Next]_vars
                PROVE  LinkInv'
    OBVIOUS
  <2>1. CASE UNCHANGED vars
    BY <2>1 DEF vars, store, LinkInv, Knows, Pointed, Beyond, At, Linked
  <2>. QED
    BY <2>1, LinksStep DEF Next
<1>. QED
  BY <1>1, <1>2, Invariance, PTL DEF Spec

\* The request on its way to clear the link of a deal.
Clearing(h, d) == handler[h].deal = d /\ handler[h].pc \in {"settling", "recording", "clearing"}

LinkHeld ==
  refusals = 0 /\ faults = 0 =>
    \A d \in 1..Len(deals) :
      Linked(d) =>
        sessions[deals[d].reneg].status = "open" \/ \E h \in Handlers : Clearing(h, d)

LEMMA HeldKeeps ==
  ASSUME LinkHeld, NEW h \in Handlers, Alone(h), UNCHANGED <<refusals, faults>>,
         \A d \in 1..Len(deals)' :
           Linked(d)' =>
             \/ sessions'[deals'[d].reneg].status = "open"
             \/ Clearing(h, d)'
             \/ /\ d \in 1..Len(deals) /\ deals'[d].reneg = deals[d].reneg
                /\ sessions'[deals[d].reneg].status = sessions[deals[d].reneg].status
                /\ ~Clearing(h, d)
  PROVE  LinkHeld'
<1>. SUFFICES ASSUME refusals = 0, faults = 0, NEW d \in 1..Len(deals)', Linked(d)',
                     sessions'[deals'[d].reneg].status # "open", ~Clearing(h, d)'
              PROVE  \E g \in Handlers : Clearing(g, d)'
  BY DEF LinkHeld
<1>1. /\ d \in 1..Len(deals) /\ deals'[d].reneg = deals[d].reneg
      /\ sessions'[deals[d].reneg].status = sessions[deals[d].reneg].status
      /\ ~Clearing(h, d)
  OBVIOUS
<1>2. Linked(d)
  BY <1>1 DEF Linked
<1>3. PICK g \in Handlers : Clearing(g, d)
  BY <1>1, <1>2 DEF LinkHeld
<1>4. g # h
  BY <1>1, <1>3
<1>. QED
  BY <1>3, <1>4 DEF Alone, Clearing

LEMMA HeldStep ==
  ASSUME IInv, LinkInv, LinkHeld, NEW h \in Handlers,
         Arrive(h) \/ HandlerStep(h) \/ HandlerDies(h)
  PROVE  LinkHeld'
<1>1. /\ Len(deals) \in Nat /\ Len(sessions) \in Nat
      /\ \A d \in 1..Len(deals) : Linked(d) => deals[d].reneg \in 1..Len(sessions)
  BY DEF IInv, Tables, Closed, Linked, NoSession
<1>2. CASE Arrive(h) \/ ListCycles(h) \/ AddCycle(h)
  <2>1. /\ Alone(h) /\ UNCHANGED <<deals, sessions, refusals, faults>>
        /\ \A d : ~Clearing(h, d)
    BY <1>2, ArriveDoes, ListDoes, AddDoes DEF store, Others, At, Clearing
  <2>. QED
    BY <2>1, HeldKeeps
<1>3. CASE CreateSession(h)
  <2>1. /\ Alone(h) /\ UNCHANGED <<deals, refusals, faults>>
        /\ \A z \in 1..Len(sessions) : sessions'[z] = sessions[z]
        /\ \A d : ~Clearing(h, d)
    BY <1>3, CreateDoes DEF Others, At, Clearing
  <2>2. \A d \in 1..Len(deals) :
          Linked(d)' => sessions'[deals[d].reneg].status = sessions[deals[d].reneg].status
    BY <1>1, <2>1 DEF Linked
  <2>. QED
    BY <2>1, <2>2, HeldKeeps
<1>4. CASE LinkReneg(h)
  <2>1. handler[h].pc \in OfSession /\ At(h, "linking")
    BY <1>4 DEF LinkReneg, At, OfSession
  <2>2. /\ handler[h].session \in 1..Len(sessions)
        /\ sessions[handler[h].session].status = "open"
    BY <2>1, OnSession DEF LinkInv, Knows
  <2>3. /\ Alone(h) /\ UNCHANGED <<refusals, faults>> /\ Len(deals)' = Len(deals)
        /\ deals'[handler[h].deal].reneg = handler[h].session
        /\ \A z \in 1..Len(deals) : z # handler[h].deal => deals'[z].reneg = deals[z].reneg
        /\ \A z \in 1..Len(sessions) : sessions'[z].status = sessions[z].status
    BY <1>4, LinkDoes DEF Others
  <2>4. \A d : ~Clearing(h, d)
    BY <2>1 DEF At, Clearing
  <2>5. ASSUME NEW d \in 1..Len(deals)', Linked(d)'
        PROVE  \/ sessions'[deals'[d].reneg].status = "open"
               \/ /\ d \in 1..Len(deals) /\ deals'[d].reneg = deals[d].reneg
                  /\ sessions'[deals[d].reneg].status = sessions[deals[d].reneg].status
    <3>1. CASE d = handler[h].deal
      BY <2>2, <2>3, <3>1
    <3>2. CASE d # handler[h].deal
      BY <1>1, <2>3, <2>5, <3>2 DEF Linked
    <3>. QED
      BY <3>1, <3>2
  <2>. QED
    BY <2>3, <2>4, <2>5, HeldKeeps
<1>5. CASE Counter(h) \/ TurnAccepts(h) \/ TurnWalks(h) \/ TakeAsk(h) \/ CloseSession(h)
  <2>1. handler[h].pc \in OfSession
    BY <1>5 DEF Counter, TurnAccepts, TurnWalks, TakeAsk, CloseSession, At, OfSession
  <2>2. sessions[handler[h].session].of = handler[h].deal
    BY <2>1, OnSession
  <2>3. /\ Alone(h) /\ UNCHANGED <<deals, refusals, faults>>
        /\ \A z \in 1..Len(sessions) :
             z # handler[h].session => sessions'[z].status = sessions[z].status
    BY <1>5, TurnDoes DEF Others
  <2>4. \/ sessions'[handler[h].session].status = "open"
        \/ At(h, "closing")
        \/ handler'[h].pc = "settling" /\ handler'[h].deal = handler[h].deal
    BY <1>5, TurnDoes
  <2>5. \A d : ~Clearing(h, d)
    BY <1>5, TurnDoes DEF At, Clearing
  <2>6. ASSUME NEW d \in 1..Len(deals)', Linked(d)'
        PROVE  \/ sessions'[deals'[d].reneg].status = "open"
               \/ Clearing(h, d)'
               \/ /\ d \in 1..Len(deals) /\ deals'[d].reneg = deals[d].reneg
                  /\ sessions'[deals[d].reneg].status = sessions[deals[d].reneg].status
    <3>1. Linked(d) /\ d \in 1..Len(deals)
      BY <2>3, <2>6 DEF Linked
    <3>2. deals[d].reneg \in 1..Len(sessions) /\ sessions[deals[d].reneg].of = d
      BY <1>1, <3>1 DEF LinkInv, Pointed
    <3>3. CASE deals[d].reneg # handler[h].session
      BY <2>3, <3>1, <3>2, <3>3
    <3>4. CASE deals[d].reneg = handler[h].session
      <4>1. d = handler[h].deal
        BY <2>2, <3>2, <3>4
      <4>2. ~At(h, "closing")
        BY <3>4, <4>1 DEF LinkInv, Knows
      <4>. QED
        BY <2>3, <2>4, <3>4, <4>1, <4>2 DEF Clearing
    <3>. QED
      BY <3>3, <3>4
  <2>. QED
    BY <2>3, <2>5, <2>6, HeldKeeps
<1>6. CASE Reprice(h)
  <2>1. /\ Alone(h) /\ UNCHANGED <<deals, sessions, refusals, faults>>
        /\ handler'[h].pc = "recording" /\ handler'[h].deal = handler[h].deal
    BY <1>6, RepriceDoes DEF store
  <2>2. \A d : Clearing(h, d) => Clearing(h, d)'
    BY <2>1 DEF Clearing
  <2>. QED
    BY <2>1, <2>2, HeldKeeps
<1>7. CASE RecordDeal(h)
  <2>1. /\ Alone(h) /\ UNCHANGED <<sessions, refusals, faults>>
        /\ \A z \in 1..Len(deals) : deals'[z] = deals[z]
        /\ handler'[h].pc = "clearing" /\ handler'[h].deal = handler[h].deal
    BY <1>7, RecordDoes DEF Others
  <2>2. \A d \in 1..Len(deals)' : Linked(d)' => d \in 1..Len(deals)
    <3>1. PICK n \in Nat :
            /\ n = Len(deals) + 1 /\ Len(deals)' = n
            /\ deals'[n] = [price |-> handler[h].amount, reneg |-> NoSession,
                            session |-> handler[h].session]
      BY <1>7, RecordDoes
    <3>2. deals'[n].reneg = NoSession
      BY <3>1
    <3>. QED
      BY <1>1, <3>1, <3>2 DEF Linked
  <2>3. \A d : Clearing(h, d) => Clearing(h, d)'
    BY <2>1 DEF Clearing
  <2>. QED
    BY <2>1, <2>2, <2>3, HeldKeeps
<1>8. CASE ClearLink(h)
  <2>1. /\ Alone(h) /\ UNCHANGED <<sessions, refusals, faults>> /\ Len(deals)' = Len(deals)
        /\ deals'[handler[h].deal].reneg = NoSession
        /\ \A z \in 1..Len(deals) : z # handler[h].deal => deals'[z].reneg = deals[z].reneg
    BY <1>8, ClearDoes DEF Others
  <2>2. \A d \in 1..Len(deals)' :
          Linked(d)' => d \in 1..Len(deals) /\ deals'[d].reneg = deals[d].reneg /\ ~Clearing(h, d)
    BY <2>1 DEF Linked, Clearing
  <2>. QED
    BY <2>1, <2>2, HeldKeeps
<1>9. CASE StripeRefuses(h) \/ HandlerDies(h)
  BY <1>9, Faulted DEF LinkHeld
<1>. QED
  BY <1>2, <1>3, <1>4, <1>5, <1>6, <1>7, <1>8, <1>9 DEF HandlerStep

\* The deal of a concluded renegotiation can be renegotiated again, whatever turns
\* and ends raced over its sessions: with nothing in flight and nothing lost, a deal
\* is linked to an open session or to none.
THEOREM LinksGo == Spec => []LinkGoesWithSession
<1>1. Init => LinkHeld
  BY DEF Init, LinkHeld, Linked
<1>2. IInv /\ LinkInv /\ LinkHeld /\ [Next]_vars => LinkHeld'
  <2>. SUFFICES ASSUME IInv, LinkInv, LinkHeld, [Next]_vars
                PROVE  LinkHeld'
    OBVIOUS
  <2>1. CASE UNCHANGED vars
    BY <2>1 DEF vars, store, LinkHeld, Linked, Clearing
  <2>. QED
    BY <2>1, HeldStep DEF Next
<1>3. IInv /\ LinkHeld => LinkGoesWithSession
  <2>. SUFFICES ASSUME IInv, LinkHeld, Busy = {}, refusals = 0, faults = 0,
                       NEW d \in DOMAIN deals, Linked(d)
                PROVE  sessions[deals[d].reneg].status = "open"
    BY DEF LinkGoesWithSession
  <2>1. d \in 1..Len(deals) /\ \A h \in Handlers : ~Clearing(h, d)
    BY DEF IInv, Tables, Busy, At, Clearing
  <2>. QED
    BY <2>1 DEF LinkHeld
<1>. QED
  BY <1>1, <1>2, <1>3, Invariance, LinksInv, PTL DEF Spec

-----------------------------------------------------------------------------
(* Requests answered one at a time *)

Serial ==
  ~raced => \A g, h \in Handlers : ~At(g, "idle") /\ ~At(h, "idle") => g = h

\* A request that begins finds nobody at work; one that goes on is alone.
LEMMA Solitary ==
  ASSUME IInv, Serial, NEW h \in Handlers, Arrive(h) \/ HandlerStep(h) \/ HandlerDies(h), ~raced'
  PROVE  /\ ~raced
         /\ \A g \in Handlers \ {h} : At(g, "idle") /\ handler'[g] = handler[g]
<1>1. CASE Arrive(h)
  <2>1. Alone(h) /\ raced' = (raced \/ Busy # {})
    BY <1>1, ArriveDoes
  <2>. QED
    BY <2>1 DEF Alone, Busy
<1>2. CASE ~Arrive(h)
  <2>1. Alone(h) /\ raced' = raced
    BY <1>2, ListDoes, AddDoes, CreateDoes, LinkDoes, TurnDoes, RepriceDoes, FaultDoes,
       RecordDoes, ClearDoes DEF HandlerStep, Others
  <2>2. ~At(h, "idle")
    BY <1>2 DEF HandlerStep, HandlerDies, At, ListCycles, AddCycle, CreateSession, LinkReneg,
       Counter, TurnAccepts, TurnWalks, TakeAsk, Reprice, StripeRefuses, RecordDeal, ClearLink,
       CloseSession
  <2>. QED
    BY <2>1, <2>2 DEF Alone, Serial
<1>. QED
  BY <1>1, <1>2

LEMMA SerialInv == Spec => []Serial
<1>1. Init => Serial
  BY DEF Init, Serial, At, Idle
<1>2. IInv /\ Serial /\ [Next]_vars => Serial'
  <2>. SUFFICES ASSUME IInv, Serial, [Next]_vars
                PROVE  Serial'
    OBVIOUS
  <2>1. ASSUME NEW h \in Handlers, Arrive(h) \/ HandlerStep(h) \/ HandlerDies(h)
        PROVE  Serial'
    BY <2>1, Solitary DEF Serial, At
  <2>2. CASE UNCHANGED vars
    BY <2>2 DEF vars, Serial, At
  <2>. QED
    BY <2>1, <2>2 DEF Next
<1>. QED
  BY <1>1, <1>2, Invariance, PTL DEF Spec

-----------------------------------------------------------------------------
(* The bill and the record *)

\* The bill on its way to the record.
Billing(h) == At(h, "recording") /\ billed = handler[h].amount

BillHeld ==
  subscribed /\ faults = 0 =>
    \/ \E d \in 1..Len(deals) : billed = deals[d].price
    \/ \E h \in Handlers : Billing(h)

BillLatest ==
  /\ Len(deals) > 0
  /\ subscribed /\ faults = 0 /\ ~raced =>
       /\ \A h \in Handlers : At(h, "recording") => Billing(h)
       /\ billed = deals[Len(deals)].price \/ \E h \in Handlers : At(h, "recording")

\* The steps that are neither a repricing nor a record.
LEMMA BillAside ==
  ASSUME IInv, NEW h \in Handlers, Arrive(h) \/ HandlerStep(h) \/ HandlerDies(h),
         ~Reprice(h), ~RecordDeal(h), faults' = 0
  PROVE  /\ Alone(h) /\ ~At(h, "recording") /\ ~At(h, "recording")'
         /\ UNCHANGED <<subscribed, billed>> /\ faults = 0 /\ Len(deals)' = Len(deals)
         /\ \A d \in 1..Len(deals) : deals'[d].price = deals[d].price
<1>1. CASE Arrive(h)
  BY <1>1, ArriveDoes DEF At
<1>2. CASE ListCycles(h) \/ AddCycle(h)
  BY <1>2, ListDoes, AddDoes DEF At, Others, store, Idle
<1>3. CASE CreateSession(h) \/ LinkReneg(h)
  BY <1>3, CreateDoes, LinkDoes DEF At, Others, Idle
<1>4. CASE Counter(h) \/ TurnAccepts(h) \/ TurnWalks(h) \/ TakeAsk(h) \/ CloseSession(h)
  BY <1>4, TurnDoes DEF At, Others, Idle
<1>5. CASE ClearLink(h)
  BY <1>5, ClearDoes DEF At, Others, Idle
<1>6. CASE StripeRefuses(h) \/ HandlerDies(h)
  BY <1>6, FaultDoes DEF At, store, Idle
<1>. QED
  BY <1>1, <1>2, <1>3, <1>4, <1>5, <1>6 DEF HandlerStep

LEMMA BillStep ==
  ASSUME IInv, BillHeld, NEW h \in Handlers, Arrive(h) \/ HandlerStep(h) \/ HandlerDies(h)
  PROVE  BillHeld'
<1>. SUFFICES ASSUME subscribed', faults' = 0
              PROVE  \/ \E d \in 1..Len(deals)' : billed' = deals'[d].price
                     \/ \E g \in Handlers : Billing(g)'
  BY DEF BillHeld
<1>0. Len(deals) \in Nat
  BY DEF IInv, Tables
<1>1. CASE Reprice(h)
  BY <1>1, RepriceDoes DEF Billing, At
<1>2. CASE RecordDeal(h)
  <2>1. PICK n \in Nat :
          /\ n = Len(deals) + 1 /\ Len(deals)' = n
          /\ deals'[n] = [price |-> handler[h].amount, reneg |-> NoSession,
                          session |-> handler[h].session]
    BY <1>2, RecordDoes
  <2>2. /\ Alone(h) /\ UNCHANGED <<subscribed, billed, faults>>
        /\ \A z \in 1..Len(deals) : deals'[z] = deals[z]
    BY <1>2, RecordDoes DEF Others
  <2>3. deals'[n].price = handler[h].amount /\ n \in 1..Len(deals)'
    BY <1>0, <2>1
  <2>4. CASE \E d \in 1..Len(deals) : billed = deals[d].price
    BY <1>0, <2>1, <2>2, <2>4
  <2>5. ASSUME NEW g \in Handlers, Billing(g)
        PROVE  \/ \E d \in 1..Len(deals)' : billed' = deals'[d].price
               \/ \E k \in Handlers : Billing(k)'
    <3>1. CASE g = h
      BY <2>2, <2>3, <2>5, <3>1 DEF Billing
    <3>2. CASE g # h
      BY <2>2, <2>5, <3>2 DEF Billing, Alone, At
    <3>. QED
      BY <3>1, <3>2
  <2>. QED
    BY <2>2, <2>4, <2>5 DEF BillHeld
<1>3. CASE ~Reprice(h) /\ ~RecordDeal(h)
  <2>1. /\ Alone(h) /\ ~At(h, "recording") /\ UNCHANGED <<subscribed, billed>>
        /\ faults = 0 /\ Len(deals)' = Len(deals)
        /\ \A d \in 1..Len(deals) : deals'[d].price = deals[d].price
    BY <1>3, BillAside
  <2>2. \A g \in Handlers : Billing(g) => Billing(g)'
    BY <2>1 DEF Billing, Alone, At
  <2>. QED
    BY <2>1, <2>2 DEF BillHeld
<1>. QED
  BY <1>1, <1>2, <1>3

LEMMA LatestStep ==
  ASSUME IInv, Serial, BillLatest, NEW h \in Handlers,
         Arrive(h) \/ HandlerStep(h) \/ HandlerDies(h)
  PROVE  BillLatest'
<1>. SUFFICES ASSUME subscribed', faults' = 0, ~raced'
              PROVE  /\ \A g \in Handlers : At(g, "recording")' => Billing(g)'
                     /\ \/ billed' = deals'[Len(deals)'].price
                        \/ \E g \in Handlers : At(g, "recording")'
  <2>1. Len(deals)' > 0
    BY DealsStay DEF BillLatest
  <2>. QED
    BY <2>1 DEF BillLatest
<1>0. Len(deals) \in 1..Len(deals)
  BY DEF IInv, Tables, BillLatest
<1>1. ~raced /\ \A g \in Handlers \ {h} : At(g, "idle") /\ handler'[g] = handler[g]
  BY Solitary
<1>2. \A g \in Handlers : At(g, "recording")' => g = h
  BY <1>1 DEF At
<1>3. CASE Reprice(h)
  BY <1>2, <1>3, RepriceDoes DEF Billing, At
<1>4. CASE RecordDeal(h)
  <2>1. PICK n \in Nat :
          /\ n = Len(deals) + 1 /\ Len(deals)' = n
          /\ deals'[n] = [price |-> handler[h].amount, reneg |-> NoSession,
                          session |-> handler[h].session]
    BY <1>4, RecordDoes
  <2>2. /\ At(h, "recording") /\ handler'[h].pc = "clearing"
        /\ UNCHANGED <<subscribed, billed, faults>>
    BY <1>4, RecordDoes DEF Others
  <2>3. billed = handler[h].amount
    BY <1>1, <2>2 DEF BillLatest, Billing
  <2>. QED
    BY <1>2, <2>1, <2>2, <2>3 DEF At
<1>5. CASE ~Reprice(h) /\ ~RecordDeal(h)
  <2>1. /\ ~At(h, "recording") /\ ~At(h, "recording")' /\ UNCHANGED <<subscribed, billed>>
        /\ faults = 0 /\ Len(deals)' = Len(deals)
        /\ \A d \in 1..Len(deals) : deals'[d].price = deals[d].price
    BY <1>5, BillAside
  <2>2. \A g \in Handlers : ~At(g, "recording") /\ ~At(g, "recording")'
    BY <1>1, <2>1 DEF At
  <2>3. billed = deals[Len(deals)].price
    BY <1>1, <2>1, <2>2 DEF BillLatest
  <2>. QED
    BY <1>0, <2>1, <2>2, <2>3
<1>. QED
  BY <1>3, <1>4, <1>5

\* The price Stripe bills is one on record, once nothing is in flight and no handler
\* died, however many ends raced to reprice it; the latest, when requests are
\* answered one at a time.
THEOREM BillIsOnRecord == Spec => []BilledIsRecorded
<1>1. Init => BillHeld /\ BillLatest
  <2>. SUFFICES ASSUME Init PROVE BillHeld /\ BillLatest
    OBVIOUS
  <2>1. Len(deals) = 1 /\ deals[1].price = FirstPrice /\ billed = FirstPrice
    BY DEF Init
  <2>2. \A h \in Handlers : ~At(h, "recording")
    BY DEF Init, At, Idle
  <2>. QED
    BY <2>1, <2>2 DEF BillHeld, BillLatest
<1>2. IInv /\ Serial /\ BillHeld /\ BillLatest /\ [Next]_vars => BillHeld' /\ BillLatest'
  <2>. SUFFICES ASSUME IInv, Serial, BillHeld, BillLatest, [Next]_vars
                PROVE  BillHeld' /\ BillLatest'
    OBVIOUS
  <2>1. CASE UNCHANGED vars
    BY <2>1 DEF vars, store, BillHeld, BillLatest, Billing, At
  <2>. QED
    BY <2>1, BillStep, LatestStep DEF Next
<1>3. IInv /\ BillHeld /\ BillLatest => BilledIsRecorded
  <2>. SUFFICES ASSUME IInv, BillHeld, BillLatest, subscribed, Busy = {}, faults = 0
                PROVE  /\ \E d \in DOMAIN deals : billed = deals[d].price
                       /\ ~raced => billed = Last(deals).price
    BY DEF BilledIsRecorded
  <2>1. DOMAIN deals = 1..Len(deals) /\ \A h \in Handlers : ~At(h, "recording")
    BY DEF IInv, Tables, Busy, At
  <2>. QED
    BY <2>1 DEF BillHeld, BillLatest, Billing, Last
<1>. QED
  BY <1>1, <1>2, <1>3, Invariance, SerialInv, PTL DEF Spec

-----------------------------------------------------------------------------
(* One renegotiation of a deal at a time *)

\* Where the request stands: what it read of the link still holds, and until it
\* clears the link, the deal of its session is linked to that session.
Stands(h) ==
  LET d == handler[h].deal
      s == handler[h].session IN
  /\ handler[h].pc \in {"asked", "opening", "linking"} => ~Linked(d)
  /\ handler[h].pc \in {"listing", "adding"} => handler[h].linked \/ ~Linked(d)
  /\ handler[h].pc \in {"thinking", "taking", "settling", "recording", "clearing"} =>
       deals[d].reneg = s
  /\ handler[h].pc \in {"thinking", "taking"} => sessions[s].status = "open"
  /\ handler[h].pc \in {"settling", "recording"} => sessions[s].status # "open"
  /\ At(h, "clearing") => Recorded(s)

\* A session to settle is linked from its deal, or about to be.
Attached(s) ==
  /\ Live(s) => deals[sessions[s].of].reneg = s
                  \/ \E h \in Handlers : At(h, "linking") /\ handler[h].session = s
  /\ Recorded(s) => sessions[s].status # "open"

OneInv ==
  ~raced /\ faults = 0 =>
    /\ \A h \in Handlers : Stands(h)
    /\ \A s \in 1..Len(sessions) : Attached(s)

\* The steps of a request that leave deals and sessions alone.
LEMMA OneAside ==
  ASSUME IInv, OneInv, NEW h \in Handlers, ~raced, faults = 0,
         UNCHANGED <<deals, sessions>>, ~At(h, "linking"),
         \A g \in Handlers \ {h} : At(g, "idle") /\ handler'[g] = handler[g],
         Stands(h)'
  PROVE  OneInv'
<1>1. \A g \in Handlers \ {h} : Stands(g)'
  BY DEF Stands, At
<1>2. ASSUME NEW s \in 1..Len(sessions)'
      PROVE  Attached(s)'
  <2>1. Attached(s) /\ (\A g \in Handlers : ~At(g, "linking"))
    BY DEF OneInv, At
  <2>2. (Live(s)' <=> Live(s)) /\ (Recorded(s)' <=> Recorded(s))
    BY DEF Live, Recorded
  <2>. QED
    BY <2>1, <2>2 DEF Attached
<1>. QED
  BY <1>1, <1>2 DEF OneInv

\* Where a deal keeps its session, and a session its deal, a record stays.
LEMMA RecordedStays ==
  ASSUME IInv, IInv', NEW s, Len(deals)' = Len(deals),
         \A d \in 1..Len(deals) : deals'[d].session = deals[d].session
  PROVE  Recorded(s)' <=> Recorded(s)
<1>1. DOMAIN deals = 1..Len(deals) /\ DOMAIN deals' = 1..Len(deals)'
  BY DEF IInv, Tables
<1>. QED
  BY <1>1 DEF Recorded

LEMMA OneArrives ==
  ASSUME IInv, OneInv, NEW h \in Handlers, Arrive(h), ~raced, faults = 0,
         \A g \in Handlers \ {h} : At(g, "idle") /\ handler'[g] = handler[g]
  PROVE  OneInv'
<1>1. /\ At(h, "idle") /\ UNCHANGED <<deals, sessions>>
      /\ handler'[h].pc \in {"listing", "asked", "thinking", "taking"}
      /\ handler'[h].pc = "listing" => handler'[h].linked = Linked(handler'[h].deal)
      /\ handler'[h].pc = "asked" => ~Linked(handler'[h].deal)
      /\ handler'[h].pc \in {"thinking", "taking"} =>
           /\ handler'[h].session \in 1..Len(sessions) /\ IsOpen(handler'[h].session)
           /\ handler'[h].deal = sessions[handler'[h].session].of
  BY ArriveDoes
<1>2. ASSUME NEW s \in 1..Len(sessions), IsOpen(s)
      PROVE  deals[sessions[s].of].reneg = s
  <2>1. Attached(s) /\ Live(s)
    BY <1>2 DEF OneInv, Attached, IsOpen, Live
  <2>. QED
    BY <1>1, <2>1 DEF Attached, At
<1>3. Stands(h)'
  <2>1. (\A d : Linked(d)' <=> Linked(d)) /\ UNCHANGED <<deals, sessions>>
    BY <1>1 DEF Linked
  <2>. QED
    BY <1>1, <1>2, <2>1 DEF Stands, At, IsOpen
<1>. QED
  BY <1>1, <1>3, OneAside DEF At

LEMMA OneGoesOn ==
  ASSUME IInv, OneInv, NEW h \in Handlers, ~raced, faults = 0, faults' = 0,
         ListCycles(h) \/ AddCycle(h) \/ Reprice(h) \/ StripeRefuses(h) \/ HandlerDies(h),
         \A g \in Handlers \ {h} : At(g, "idle") /\ handler'[g] = handler[g]
  PROVE  OneInv'
<1>1. Stands(h) /\ UNCHANGED <<deals, sessions>> /\ ~At(h, "linking")
  <2>1. UNCHANGED <<deals, sessions>>
    BY ListDoes, AddDoes, RepriceDoes, FaultDoes DEF store
  <2>2. ~At(h, "linking")
    BY FaultDoes DEF ListCycles, AddCycle, Reprice, StripeRefuses, At
  <2>. QED
    BY <2>1, <2>2 DEF OneInv
<1>2. (\A d : Linked(d)' <=> Linked(d)) /\ (\A s : Recorded(s)' <=> Recorded(s))
  BY <1>1 DEF Linked, Recorded
<1>3. CASE ListCycles(h)
  BY <1>1, <1>2, <1>3, ListDoes, OneAside DEF Stands, At
<1>4. CASE AddCycle(h)
  <2>1. Stands(h)'
    BY <1>1, <1>2, <1>4, AddDoes DEF Stands, At, Idle
  <2>. QED
    BY <1>1, <2>1, OneAside
<1>5. CASE Reprice(h)
  <2>1. Stands(h)'
    BY <1>1, <1>2, <1>5, RepriceDoes DEF Stands, At
  <2>. QED
    BY <1>1, <2>1, OneAside
<1>6. CASE StripeRefuses(h) \/ HandlerDies(h)
  <2>1. Stands(h)'
    BY <1>6, FaultDoes DEF Stands, At, Idle
  <2>. QED
    BY <1>1, <2>1, OneAside
<1>. QED
  BY <1>3, <1>4, <1>5, <1>6

LEMMA OneOpens ==
  ASSUME IInv, IInv', OneInv, NEW h \in Handlers, ~raced, faults = 0, CreateSession(h),
         \A g \in Handlers \ {h} : At(g, "idle") /\ handler'[g] = handler[g]
  PROVE  OneInv'
<1>1. /\ At(h, "opening") /\ UNCHANGED deals
      /\ \A z \in 1..Len(sessions) : sessions'[z] = sessions[z]
  BY CreateDoes
<1>2. PICK n \in Nat :
        /\ n = Len(sessions) + 1 /\ Len(sessions)' = n /\ sessions'[n].status = "open"
        /\ handler'[h].pc = "linking" /\ handler'[h].session = n
        /\ handler'[h].deal = handler[h].deal
  BY CreateDoes
<1>3. Stands(h) /\ Len(sessions) \in Nat
  BY DEF OneInv, IInv, Tables
<1>4. (\A d : Linked(d)' <=> Linked(d)) /\ (\A s : Recorded(s)' <=> Recorded(s))
  BY <1>1 DEF Linked, Recorded
<1>5. \A g \in Handlers : Stands(g)'
  BY <1>1, <1>2, <1>3, <1>4 DEF Stands, At
<1>6. ASSUME NEW s \in 1..Len(sessions)
      PROVE  Attached(s)'
  <2>1. Attached(s) /\ (\A g \in Handlers : ~At(g, "linking"))
    BY <1>1 DEF OneInv, At
  <2>2. sessions'[s] = sessions[s] /\ (Live(s)' <=> Live(s))
    BY <1>1, <1>4 DEF Live
  <2>. QED
    BY <1>1, <1>4, <2>1, <2>2 DEF Attached
<1>7. Attached(n)'
  <2>1. ~Recorded(n)
    BY <1>2, <1>3 DEF Recorded, IInv, Tables, Closed
  <2>. QED
    BY <1>2, <1>4, <2>1 DEF Attached, At
<1>. QED
  BY <1>2, <1>3, <1>5, <1>6, <1>7 DEF OneInv

LEMMA OneLinks ==
  ASSUME IInv, IInv', OneInv, NEW h \in Handlers, ~raced, faults = 0, LinkReneg(h),
         \A g \in Handlers \ {h} : At(g, "idle") /\ handler'[g] = handler[g]
  PROVE  OneInv'
<1>. DEFINE d == handler[h].deal
            s == handler[h].session
<1>1. /\ At(h, "linking") /\ handler'[h] = Idle /\ Len(deals)' = Len(deals)
      /\ Len(sessions)' = Len(sessions) /\ deals'[d].reneg = s
      /\ \A z \in 1..Len(deals) :
           /\ deals'[z].session = deals[z].session
           /\ z # d => deals'[z].reneg = deals[z].reneg
      /\ \A z \in 1..Len(sessions) :
           sessions'[z].of = sessions[z].of /\ sessions'[z].status = sessions[z].status
  BY LinkDoes DEF Lasting
<1>2. s \in 1..Len(sessions) /\ d \in 1..Len(deals) /\ sessions[s].of = d /\ ~Linked(d)
  <2>1. handler[h].pc \in OfSession /\ Stands(h)
    BY <1>1 DEF At, OfSession, OneInv
  <2>. QED
    BY <1>1, <2>1, OnSession DEF Stands, At
<1>3. \A z : Recorded(z)' <=> Recorded(z)
  BY <1>1, RecordedStays
<1>4. \A g \in Handlers : Stands(g)'
  BY <1>1 DEF Stands, At, Idle
<1>5. ASSUME NEW z \in 1..Len(sessions)
      PROVE  Attached(z)'
  <2>1. Attached(z) /\ (Live(z)' <=> Live(z)) /\ sessions[z].of \in 1..Len(deals)
    BY <1>1, <1>3 DEF OneInv, Live, IInv, Priced
  <2>2. CASE z = s
    BY <1>1, <1>2, <1>3, <2>1, <2>2 DEF Attached
  <2>3. CASE z # s
    <3>1. Live(z) => deals[sessions[z].of].reneg = z
      BY <2>1, <2>3 DEF Attached, At
    <3>2. Live(z) => sessions[z].of # d
      BY <1>2, <3>1 DEF Linked, NoSession
    <3>. QED
      BY <1>1, <1>3, <2>1, <3>1, <3>2 DEF Attached
  <2>. QED
    BY <2>2, <2>3
<1>. QED
  BY <1>1, <1>4, <1>5 DEF OneInv

LEMMA OneTurns ==
  ASSUME IInv, OneInv, NEW h \in Handlers, ~raced, faults = 0,
         \/ Counter(h) \/ TurnAccepts(h) \/ TurnWalks(h) \/ TakeAsk(h) \/ CloseSession(h),
         \A g \in Handlers \ {h} : At(g, "idle") /\ handler'[g] = handler[g]
  PROVE  OneInv'
<1>. DEFINE s == handler[h].session
<1>1. /\ UNCHANGED deals /\ Len(sessions)' = Len(sessions)
      /\ \A z \in 1..Len(sessions) :
           /\ sessions'[z].of = sessions[z].of
           /\ z # s => sessions'[z].status = sessions[z].status
  BY TurnDoes DEF Lasting
<1>2. \/ /\ At(h, "thinking") /\ handler'[h] = Idle /\ sessions'[s].status = "open"
      \/ /\ At(h, "closing") /\ handler'[h] = Idle /\ sessions'[s].status = "settled"
      \/ /\ At(h, "thinking") \/ At(h, "taking")
         /\ handler'[h].pc = "settling" /\ handler'[h].session = s
         /\ handler'[h].deal = handler[h].deal
         /\ sessions'[s].status \in {"accepted", "walked"}
  BY TurnDoes
<1>3. /\ Stands(h) /\ s \in 1..Len(sessions)
  <2>1. handler[h].pc \in OfSession
    BY <1>2 DEF At, OfSession
  <2>. QED
    BY <2>1, OnSession DEF OneInv
<1>4. \A z : Recorded(z)' <=> Recorded(z)
  BY <1>1 DEF Recorded
<1>5. Stands(h)'
  BY <1>1, <1>2, <1>3 DEF Stands, At, Idle
<1>6. \A g \in Handlers \ {h} : Stands(g)'
  BY DEF Stands, At
<1>7. ASSUME NEW z \in 1..Len(sessions)
      PROVE  Attached(z)'
  <2>1. Attached(z) /\ (\A g \in Handlers : ~At(g, "linking"))
    BY <1>2 DEF OneInv, At
  <2>2. Live(z)' => Live(z)
    <3>1. CASE z # s
      BY <1>1, <1>4, <3>1 DEF Live
    <3>2. CASE z = s
      BY <1>2, <1>3, <1>4, <3>2 DEF Live, Stands, At
    <3>. QED
      BY <3>1, <3>2
  <2>3. Recorded(z) => sessions'[z].status # "open"
    <3>1. CASE z # s
      BY <1>1, <2>1, <3>1 DEF Attached
    <3>2. CASE z = s
      BY <1>2, <1>3, <2>1, <3>2 DEF Attached, Stands, At
    <3>. QED
      BY <3>1, <3>2
  <2>. QED
    BY <1>1, <1>4, <2>1, <2>2, <2>3 DEF Attached
<1>. QED
  BY <1>1, <1>5, <1>6, <1>7 DEF OneInv

LEMMA OneRecords ==
  ASSUME IInv, IInv', OneInv, NEW h \in Handlers, ~raced, faults = 0, RecordDeal(h),
         \A g \in Handlers \ {h} : At(g, "idle") /\ handler'[g] = handler[g]
  PROVE  OneInv'
<1>. DEFINE s == handler[h].session
            d == handler[h].deal
<1>1. /\ At(h, "recording") /\ UNCHANGED sessions
      /\ \A z \in 1..Len(deals) : deals'[z] = deals[z]
      /\ handler'[h].pc = "clearing" /\ handler'[h].session = s /\ handler'[h].deal = d
  BY RecordDoes
<1>2. PICK n \in Nat :
        /\ n = Len(deals) + 1 /\ Len(deals)' = n
        /\ deals'[n] = [price |-> handler[h].amount, reneg |-> NoSession, session |-> s]
  BY RecordDoes
<1>3. Stands(h) /\ d \in 1..Len(deals) /\ Len(deals) \in Nat
  <2>1. handler[h].pc \in OfSession
    BY <1>1 DEF At, OfSession
  <2>. QED
    BY <2>1, OnSession DEF OneInv
<1>4. /\ \A z : Recorded(z)' => Recorded(z) \/ z = s
      /\ \A z : Recorded(z) => Recorded(z)'
      /\ Recorded(s)'
  <2>1. DOMAIN deals = 1..Len(deals) /\ DOMAIN deals' = 1..Len(deals)'
    BY DEF IInv, Tables
  <2>2. deals'[n].session = s /\ n \in DOMAIN deals'
    BY <1>2, <1>3, <2>1
  <2>3. \A z \in DOMAIN deals' : z = n \/ (z \in DOMAIN deals /\ deals'[z] = deals[z])
    BY <1>1, <1>2, <1>3, <2>1
  <2>4. \A z \in DOMAIN deals : z \in DOMAIN deals' /\ deals'[z] = deals[z]
    BY <1>1, <1>2, <1>3, <2>1
  <2>5. \A z : Recorded(z) => Recorded(z)'
    BY <2>4 DEF Recorded
  <2>6. ASSUME NEW z, Recorded(z)'
        PROVE  Recorded(z) \/ z = s
    <3>1. PICK e \in DOMAIN deals' : deals'[e].session = z
      BY <2>6 DEF Recorded
    <3>. QED
      BY <2>2, <2>3, <3>1 DEF Recorded
  <2>7. Recorded(s)'
    BY <1>1, <2>2 DEF Recorded
  <2>. QED
    BY <2>5, <2>6, <2>7
<1>5. Stands(h)'
  BY <1>1, <1>3, <1>4 DEF Stands, At
<1>6. \A g \in Handlers \ {h} : Stands(g)'
  BY DEF Stands, At
<1>7. ASSUME NEW z \in 1..Len(sessions)
      PROVE  Attached(z)'
  <2>1. Attached(z) /\ (\A g \in Handlers : ~At(g, "linking"))
    BY <1>1 DEF OneInv, At
  <2>2. Live(z)' => Live(z)
    BY <1>1, <1>4 DEF Live
  <2>3. Recorded(z)' => sessions[z].status # "open"
    BY <1>1, <1>3, <1>4, <2>1 DEF Attached, Stands, At
  <2>4. sessions[z].of \in 1..Len(deals)
    BY DEF IInv, Priced
  <2>. QED
    BY <1>1, <2>1, <2>2, <2>3, <2>4 DEF Attached
<1>. QED
  BY <1>1, <1>5, <1>6, <1>7 DEF OneInv

LEMMA OneClears ==
  ASSUME IInv, IInv', OneInv, NEW h \in Handlers, ~raced, faults = 0, ClearLink(h),
         \A g \in Handlers \ {h} : At(g, "idle") /\ handler'[g] = handler[g]
  PROVE  OneInv'
<1>. DEFINE s == handler[h].session
            d == handler[h].deal
<1>1. /\ At(h, "clearing") /\ UNCHANGED sessions /\ Len(deals)' = Len(deals)
      /\ \A z \in 1..Len(deals) :
           /\ deals'[z].session = deals[z].session
           /\ z # d => deals'[z].reneg = deals[z].reneg
      /\ handler'[h].pc \in {"idle", "closing"}
  BY ClearDoes DEF Idle
<1>2. Recorded(s) /\ deals[d].reneg = s
  BY <1>1 DEF OneInv, Stands, At
<1>3. \A z : Recorded(z)' <=> Recorded(z)
  BY <1>1, RecordedStays
<1>4. \A g \in Handlers : Stands(g)'
  BY <1>1 DEF Stands, At
<1>5. ASSUME NEW z \in 1..Len(sessions)
      PROVE  Attached(z)'
  <2>1. /\ Attached(z) /\ sessions[z].of \in 1..Len(deals)
        /\ \A g \in Handlers : ~At(g, "linking")
    BY <1>1 DEF OneInv, At, IInv, Priced
  <2>2. Live(z)' <=> Live(z)
    BY <1>1, <1>3 DEF Live
  <2>3. Live(z) => deals[sessions[z].of].reneg = z
    BY <2>1 DEF Attached
  <2>4. Live(z) => sessions[z].of # d
    BY <1>2, <2>3 DEF Live
  <2>. QED
    BY <1>1, <1>3, <2>1, <2>2, <2>3, <2>4 DEF Attached
<1>. QED
  BY <1>1, <1>4, <1>5 DEF OneInv

LEMMA OneStep ==
  ASSUME IInv, IInv', Serial, OneInv, NEW h \in Handlers,
         Arrive(h) \/ HandlerStep(h) \/ HandlerDies(h)
  PROVE  OneInv'
<1>. SUFFICES ASSUME ~raced', faults' = 0
              PROVE  OneInv'
  BY DEF OneInv
<1>1. ~raced /\ \A g \in Handlers \ {h} : At(g, "idle") /\ handler'[g] = handler[g]
  BY Solitary
<1>2. faults = 0
  <2>1. faults \in Nat
    BY RenegConstants DEF IInv, Rest
  <2>2. CASE HandlerDies(h)
    BY <2>1, <2>2 DEF HandlerDies
  <2>3. CASE ~HandlerDies(h)
    BY <2>3, ArriveDoes, ListDoes, AddDoes, CreateDoes, LinkDoes, TurnDoes, RepriceDoes,
       FaultDoes, RecordDoes, ClearDoes DEF HandlerStep, Others
  <2>. QED
    BY <2>2, <2>3
<1>. QED
  BY <1>1, <1>2, OneArrives, OneGoesOn, OneOpens, OneLinks, OneTurns, OneRecords, OneClears
     DEF HandlerStep

\* One at a time, a request stands where it read, whatever Stripe refuses.
LEMMA OneInvariance == Spec => []OneInv
<1>1. Init => OneInv
  BY DEF Init, OneInv, Stands, At, Idle
<1>2. IInv /\ IInv' /\ Serial /\ OneInv /\ [Next]_vars => OneInv'
  <2>. SUFFICES ASSUME IInv, IInv', Serial, OneInv, [Next]_vars
                PROVE  OneInv'
    OBVIOUS
  <2>1. CASE UNCHANGED vars
    BY <2>1 DEF vars, store, OneInv, Stands, Attached, Live, Recorded, Linked, At
  <2>. QED
    BY <2>1, OneStep DEF Next
<1>. QED
  BY <1>1, <1>2, Invariance, SerialInv, PTL DEF Spec

\* types.ts renegSessionId "prevents duplicates": requests that are answered one at
\* a time, and none of which dies, never leave a deal with two renegotiations to
\* settle, whatever Stripe refuses.
THEOREM OneAtATime == Spec => []OneRenegEach
<1>1. IInv /\ Serial /\ OneInv => OneRenegEach
  <2>. SUFFICES ASSUME IInv, Serial, OneInv, ~raced, faults = 0,
                       NEW s \in DOMAIN sessions, NEW t \in DOMAIN sessions,
                       Live(s), Live(t), sessions[s].of = sessions[t].of
                PROVE  s = t
    BY DEF OneRenegEach
  <2>1. s \in 1..Len(sessions) /\ t \in 1..Len(sessions) /\ s # 0 /\ t # 0
    BY DEF IInv, Tables
  <2>2. ASSUME NEW z \in {s, t}
        PROVE  \/ deals[sessions[s].of].reneg = z /\ Linked(sessions[s].of)
               \/ \E h \in Handlers :
                    /\ At(h, "linking") /\ handler[h].session = z /\ ~Linked(sessions[s].of)
    <3>1. Attached(z) /\ Live(z) /\ sessions[z].of = sessions[s].of
      BY <2>1, <2>2 DEF OneInv
    <3>2. CASE deals[sessions[z].of].reneg = z
      BY <2>1, <3>1, <3>2 DEF Linked, NoSession
    <3>3. ASSUME NEW h \in Handlers, At(h, "linking"), handler[h].session = z
          PROVE  ~Linked(sessions[s].of)
      <4>1. handler[h].pc \in OfSession /\ Stands(h)
        BY <3>3 DEF At, OfSession, OneInv
      <4>2. sessions[z].of = handler[h].deal
        BY <3>3, <4>1, OnSession
      <4>. QED
        BY <3>1, <3>3, <4>1, <4>2 DEF Stands, At
    <3>. QED
      BY <3>1, <3>2, <3>3 DEF Attached
  <2>3. \A g, h \in Handlers : At(g, "linking") /\ At(h, "linking") => g = h
    BY DEF Serial, At
  <2>. QED
    BY <2>2, <2>3
<1>. QED
  BY <1>1, Invariance, SerialInv, OneInvariance, PTL

\* analytics.ts: however many requests raced over however many renegotiations, the
\* dashboard counts each one on record once, as accepted or as grandfathered, but
\* for those a late turn re-opened; with requests answered one at a time there are
\* none of these.
THEOREM CountedOnce == Spec => []TallyIsWhole
<1>1. IInv /\ EndIsCarriedThrough /\ AcceptedEnds /\ RecordFirst /\ OneInv => TallyIsWhole
  <2>. SUFFICES ASSUME IInv, EndIsCarriedThrough, AcceptedEnds, RecordFirst, OneInv,
                       Busy = {}, refusals = 0, faults = 0
                PROVE  /\ RenegAccepted + Grandfathered + Cardinality(Reopened)
                            = Cardinality({s \in DOMAIN sessions : Recorded(s)})
                       /\ ~raced => Reopened = {}
    BY DEF TallyIsWhole
  <2>. DEFINE A == InStatus({"settled"})
              B == {s \in InStatus({"walked"}) : Recorded(s)}
              C == Reopened
              S == {s \in DOMAIN sessions : Recorded(s)}
  <2>1. Len(sessions) \in Nat /\ DOMAIN sessions = 1..Len(sessions)
        /\ \A s \in 1..Len(sessions) : sessions[s] \in SessionRecord
    BY DEF IInv, Tables
  <2>2. \A h \in Handlers : At(h, "idle")
    BY DEF Busy
  <2>3. ASSUME NEW s \in S
        PROVE  s \in A \/ s \in B \/ s \in C
    <3>1. sessions[s].status \in {"open", "accepted", "walked", "settled"}
      BY <2>1 DEF SessionRecord
    <3>2. sessions[s].status # "accepted"
      BY <2>1, <2>2 DEF AcceptedEnds, Accepted, Ending, At
    <3>. QED
      BY <2>1, <3>1, <3>2 DEF InStatus, Reopened
  <2>4. A \cap B = {} /\ A \cap C = {} /\ B \cap C = {}
    BY DEF InStatus, Reopened
  <2>5. A \subseteq S
    BY <2>1 DEF InStatus, RecordFirst
  <2>6. A \cup B \cup C = S
    <3>1. B \subseteq S /\ C \subseteq S
      BY DEF InStatus, Reopened
    <3>. QED
      BY <2>3, <2>5, <3>1
  <2>7. S \subseteq 1..Len(sessions)
    BY <2>1
  <2>8. RenegAccepted = Cardinality(A) /\ Grandfathered = Cardinality(B)
    BY DEF RenegAccepted, Grandfathered
  <2>9. ~raced => C = {}
    BY <2>1 DEF OneInv, Attached, Reopened, InStatus
  <2>. HIDE DEF A, B, C, S
  <2>10. Cardinality(A) + Cardinality(B) + Cardinality(C) = Cardinality(S)
    <3>1. IsFiniteSet(1..Len(sessions))
      BY <2>1, FS_Interval
    <3>2. IsFiniteSet(A \cup B \cup C)
      BY <2>6, <2>7, <3>1, FS_Subset
    <3>3. Cardinality(A) + Cardinality(B) + Cardinality(C) = Cardinality(A \cup B \cup C)
      BY <2>4, <3>2, ThreeParts
    <3>. QED
      BY <2>6, <3>3
  <2>. QED
    BY <2>8, <2>9, <2>10 DEF S, C
<1>. QED
  BY <1>1, Invariance, EndsAreCarried, EndingInv, RecordFirstInv, OneInvariance, PTL

-----------------------------------------------------------------------------
(* The streak behind a raise *)

\* A streak has as many readings over the ceiling right before it.
Backed(cycles) ==
  \A i \in 1..Len(cycles) :
    /\ cycles[i].streak <= i
    /\ \A j \in i - cycles[i].streak + 1..i : cycles[j].value > BandCeiling

\* A cycle later than those on record goes to their end.
LEMMA InsertedLast ==
  ASSUME NEW cycles \in Seq(CycleRecord), NEW rec \in CycleRecord,
         \A i \in 1..Len(cycles) : cycles[i].cycle < rec.cycle
  PROVE  InsertCycle(cycles, rec) = Append(cycles, rec)
<1>1. Len(cycles) \in Nat /\ DOMAIN cycles = 1..Len(cycles)
  OBVIOUS
<1>2. {i \in DOMAIN cycles : cycles[i].cycle <= rec.cycle} = 1..Len(cycles)
  <2>1. \A i \in 1..Len(cycles) : cycles[i].cycle \in Nat /\ rec.cycle \in Nat
    <3>1. \A i \in 1..Len(cycles) : cycles[i] \in CycleRecord
      OBVIOUS
    <3>. QED
      BY <3>1, RenegConstants DEF CycleRecord
  <2>. QED
    BY <1>1, <2>1
<1>3. Cardinality(1..Len(cycles)) = Len(cycles)
  BY <1>1, FS_Interval
<1>4. InsertCycle(cycles, rec) = InsertAt(cycles, 1 + Len(cycles), rec)
  BY <1>2, <1>3 DEF InsertCycle
<1>5. InsertAt(cycles, 1 + Len(cycles), rec) = cycles \o <<rec>>
  <2>. DEFINE k == 1 + Len(cycles)
  <2>1. SubSeq(cycles, 1, k - 1) = cycles
    BY <1>1
  <2>2. SubSeq(cycles, k, Len(cycles)) = <<>>
    BY <1>1
  <2>3. (cycles \o <<rec>>) \o <<>> = cycles \o <<rec>>
    OBVIOUS
  <2>. HIDE DEF k
  <2>4. InsertAt(cycles, k, rec)
          = (SubSeq(cycles, 1, k - 1) \o <<rec>>) \o SubSeq(cycles, k, Len(cycles))
    BY DEF InsertAt
  <2>5. InsertAt(cycles, k, rec) = cycles \o <<rec>>
    BY <2>1, <2>2, <2>3, <2>4
  <2>. QED
    BY <2>5 DEF k
<1>6. cycles \o <<rec>> = Append(cycles, rec)
  OBVIOUS
<1>. QED
  BY <1>4, <1>5, <1>6

\* One more reading, with the streak that goes on from the last one.
LEMMA StreakGrows ==
  ASSUME NEW cycles \in Seq(CycleRecord), NEW rec \in CycleRecord, Backed(cycles),
         rec.streak = Streak(cycles, rec.value)
  PROVE  /\ Backed(Append(cycles, rec))
         /\ rec.streak >= BreachCycles => Sustained(Append(cycles, rec))
<1>. DEFINE all == Append(cycles, rec)
<1>1. PICK n \in Nat : n = Len(cycles) + 1
  OBVIOUS
<1>2. /\ Len(all) = n /\ all[n] = rec
      /\ \A i \in 1..n - 1 : all[i] = cycles[i] /\ cycles[i] \in CycleRecord
  BY <1>1
<1>3. \A i \in 1..n - 1 : cycles[i].streak \in Nat
  BY <1>2 DEF CycleRecord
<1>. HIDE DEF all
<1>4. /\ rec.streak \in Nat /\ rec.value \in Nat /\ BandCeiling \in Nat
      /\ BreachCycles \in Nat \ {0}
  BY RenegConstants, UsagePolicyIsNatural DEF CycleRecord
<1>5. \A i \in 1..n - 1 : \A j \in i - cycles[i].streak + 1..i :
        j \in 1..n - 1 /\ all[j].value > BandCeiling
  BY <1>1, <1>2, <1>3 DEF Backed
<1>6. rec.streak <= n /\ \A j \in n - rec.streak + 1..n : all[j].value > BandCeiling
  <2>1. CASE rec.value <= BandCeiling
    <3>1. rec.streak = 0
      BY <2>1 DEF Streak
    <3>. QED
      BY <1>1, <3>1
  <2>2. CASE rec.value > BandCeiling /\ n = 1
    <3>1. rec.streak = 1
      BY <1>1, <1>4, <2>2 DEF Streak
    <3>. QED
      BY <1>2, <2>2, <3>1
  <2>3. CASE rec.value > BandCeiling /\ n > 1
    <3>1. rec.streak = cycles[n - 1].streak + 1
      BY <1>1, <1>4, <2>3 DEF Streak, Last
    <3>2. n - 1 \in 1..n - 1 /\ cycles[n - 1].streak <= n - 1
      BY <1>1, <2>3 DEF Backed
    <3>3. ASSUME NEW j \in n - rec.streak + 1..n
          PROVE  all[j].value > BandCeiling
      <4>1. CASE j = n
        BY <1>2, <2>3, <4>1
      <4>2. CASE j # n
        <5>1. j \in n - 1 - cycles[n - 1].streak + 1..n - 1
          BY <1>3, <1>4, <3>1, <3>2, <3>3, <4>2
        <5>. QED
          BY <1>5, <3>2, <5>1
      <4>. QED
        BY <4>1, <4>2
    <3>. QED
      BY <1>3, <3>1, <3>2, <3>3
  <2>. QED
    BY <1>1, <1>4, <2>1, <2>2, <2>3
<1>7. Backed(all)
  <2>. SUFFICES ASSUME NEW i \in 1..n
                PROVE  /\ all[i].streak <= i
                       /\ \A j \in i - all[i].streak + 1..i : all[j].value > BandCeiling
    BY <1>2 DEF Backed
  <2>1. CASE i = n
    BY <1>2, <1>6, <2>1
  <2>2. CASE i # n
    <3>1. i \in 1..n - 1 /\ all[i] = cycles[i] /\ i \in 1..Len(cycles)
      BY <1>1, <1>2, <2>2
    <3>. QED
      BY <1>5, <3>1 DEF Backed
  <2>. QED
    BY <2>1, <2>2
<1>8. rec.streak >= BreachCycles => Sustained(all)
  BY <1>2, <1>4, <1>6 DEF Sustained
<1>. QED
  BY <1>7, <1>8 DEF all

\* A request on a deal whose cycles came in order works on the cycles on record,
\* and opens a raise on a sustained breach only.
Reads(h) ==
  LET d == handler[h].deal IN
  /\ At(h, "asked") => handler[h].cycle = 0
  /\ d \notin late =>
       /\ At(h, "adding") => handler[h].cycles = usage[d]
       /\ At(h, "opening") /\ handler[h].cycle # 0 /\ handler[h].kind = "up" =>
            Sustained(handler[h].cycles)

\* The session of a raise, likewise.
Founded(s) ==
  sessions[s].byUsage /\ sessions[s].kind = "up" /\ sessions[s].of \notin late =>
    Sustained(sessions[s].evidence)

UsageInv ==
  ~raced =>
    /\ \A d \in 1..Len(deals) : d \notin late => Backed(usage[d])
    /\ \A h \in Handlers : Reads(h)
    /\ \A s \in 1..Len(sessions) : Founded(s)

\* A step that reports no usage.
LEMMA UsageKeeps ==
  ASSUME IInv, UsageInv, NEW h \in Handlers, ~raced, UNCHANGED late,
         \A d \in 1..Len(deals)' :
           \/ d \in 1..Len(deals) /\ usage'[d] = usage[d]
           \/ usage'[d] = <<>>,
         \A z \in 1..Len(sessions)' : z \notin 1..Len(sessions) => Founded(z)',
         \A z \in 1..Len(sessions) : Lasting(z),
         \A g \in Handlers \ {h} : At(g, "idle") /\ handler'[g] = handler[g],
         Reads(h)'
  PROVE  UsageInv'
<1>1. \A d \in 1..Len(deals)' : d \notin late' => Backed(usage[d])'
  BY DEF UsageInv, Backed
<1>2. \A g \in Handlers : Reads(g)'
  BY DEF Reads, At
<1>3. \A z \in 1..Len(sessions) : Founded(z)'
  BY DEF UsageInv, Founded, Lasting
<1>. QED
  BY <1>1, <1>2, <1>3 DEF UsageInv

LEMMA UsageReported ==
  ASSUME IInv, UsageInv, NEW h \in Handlers, ~raced, AddCycle(h),
         \A g \in Handlers \ {h} : At(g, "idle") /\ handler'[g] = handler[g]
  PROVE  UsageInv'
<1>. DEFINE r   == handler[h]
            rec == [cycle |-> r.cycle, value |-> r.value, streak |-> Streak(r.cycles, r.value)]
            all == Append(r.cycles, rec)
<1>1. /\ handler \in [Handlers -> RequestType] /\ r \in RequestType
      /\ r.cycles \in Seq(CycleRecord) /\ r.cycle \in Cycles /\ r.value \in Usages
      /\ r.deal \in 1..Len(deals) /\ usage \in Seq(Seq(CycleRecord)) /\ Len(usage) = Len(deals)
      /\ At(h, "adding")
  BY DEF AddCycle, Carries, At, IInv, Tables, RequestType
<1>2. rec \in CycleRecord
  BY <1>1, StreakTyped, RenegConstants DEF CycleRecord
<1>3. /\ rec.cycle = r.cycle /\ rec.value = r.value /\ rec.streak = Streak(r.cycles, r.value)
  OBVIOUS
<1>4. /\ usage' = [usage EXCEPT ![r.deal] = InsertCycle(usage[r.deal], rec)]
      /\ UNCHANGED <<deals, sessions>> /\ late \subseteq late'
      /\ \/ r.deal \in late'
         \/ \A i \in DOMAIN usage[r.deal] : ~(usage[r.deal][i].cycle >= r.cycle)
      /\ \/ Finish(h)
         \/ /\ handler' = [handler EXCEPT ![h].pc = "opening", ![h].cycles = all,
                             ![h].kind = IF rec.streak >= BreachCycles THEN "up" ELSE "down"]
  BY DEF AddCycle
<1>. HIDE DEF rec
<1>5. /\ \A d \in 1..Len(deals) : d # r.deal => usage'[d] = usage[d]
      /\ usage'[r.deal] = InsertCycle(usage[r.deal], rec)
  BY <1>1, <1>4
<1>6. ASSUME r.deal \notin late'
      PROVE  /\ usage'[r.deal] = all /\ Backed(all)
             /\ rec.streak >= BreachCycles => Sustained(all)
  <2>1. r.deal \notin late
    BY <1>4, <1>6
  <2>2. r.cycles = usage[r.deal] /\ Backed(r.cycles)
    BY <1>1, <2>1 DEF UsageInv, Reads
  <2>3. \A i \in 1..Len(r.cycles) : r.cycles[i].cycle < rec.cycle
    <3>1. \A i \in 1..Len(r.cycles) : r.cycles[i] \in CycleRecord
      BY <1>1
    <3>2. \A i \in 1..Len(r.cycles) : r.cycles[i].cycle \in Nat /\ r.cycle \in Nat
      BY <1>1, <3>1, RenegConstants DEF CycleRecord
    <3>3. \A i \in DOMAIN r.cycles : ~(r.cycles[i].cycle >= r.cycle)
      BY <1>4, <1>6, <2>2
    <3>4. DOMAIN r.cycles = 1..Len(r.cycles)
      BY <1>1
    <3>. HIDE DEF r
    <3>. QED
      BY <1>3, <3>2, <3>3, <3>4
  <2>4. InsertCycle(r.cycles, rec) = all
    BY <1>1, <1>2, <2>3, InsertedLast
  <2>. QED
    BY <1>1, <1>2, <1>3, <1>5, <2>2, <2>4, StreakGrows
<1>7. ASSUME NEW d \in 1..Len(deals)', d \notin late'
      PROVE  Backed(usage[d])'
  <2>1. CASE d = r.deal
    BY <1>6, <1>7, <2>1 DEF Backed
  <2>2. CASE d # r.deal
    BY <1>4, <1>5, <1>7, <2>2 DEF UsageInv, Backed
  <2>. QED
    BY <2>1, <2>2
<1>8. Reads(h)'
  <2>1. CASE Finish(h)
    BY <1>1, <2>1 DEF Finish, Reads, At, Idle
  <2>2. CASE ~Finish(h)
    <3>. DEFINE kind == IF rec.streak >= BreachCycles THEN "up" ELSE "down"
    <3>1. handler'[h] = [r EXCEPT !.pc = "opening", !.cycles = all, !.kind = kind]
      BY <1>1, <1>4, <2>2
    <3>. HIDE DEF all, kind
    <3>2. /\ handler'[h].pc = "opening" /\ handler'[h].cycles = all
          /\ handler'[h].kind = kind /\ handler'[h].deal = r.deal
      BY <1>1, <3>1 DEF RequestType
    <3>3. kind = "up" => rec.streak >= BreachCycles
      BY DEF kind
    <3>. QED
      BY <1>6, <3>2, <3>3 DEF Reads, At
  <2>. QED
    BY <2>1, <2>2
<1>9. \A g \in Handlers \ {h} : Reads(g)'
  BY DEF Reads, At
<1>10. \A s \in 1..Len(sessions)' : Founded(s)'
  BY <1>4 DEF UsageInv, Founded
<1>. QED
  BY <1>7, <1>8, <1>9, <1>10 DEF UsageInv

LEMMA UsageStep ==
  ASSUME IInv, Serial, UsageInv, NEW h \in Handlers,
         Arrive(h) \/ HandlerStep(h) \/ HandlerDies(h)
  PROVE  UsageInv'
<1>. SUFFICES ASSUME ~raced'
              PROVE  UsageInv'
  BY DEF UsageInv
<1>1. ~raced /\ \A g \in Handlers \ {h} : At(g, "idle") /\ handler'[g] = handler[g]
  BY Solitary
<1>2. Reads(h) /\ Len(deals) \in Nat /\ Len(sessions) \in Nat
  BY <1>1 DEF UsageInv, IInv, Tables
<1>. USE DEF Lasting
<1>3. CASE Arrive(h)
  <2>1. /\ UNCHANGED <<deals, usage, sessions, late>>
        /\ handler'[h].pc \in {"listing", "asked", "thinking", "taking"}
        /\ handler'[h].pc = "asked" => handler'[h].cycle = 0
    BY <1>3, ArriveDoes
  <2>2. Reads(h)'
    BY <2>1 DEF Reads, At
  <2>. QED
    BY <1>1, <2>1, <2>2, UsageKeeps
<1>4. CASE ListCycles(h)
  <2>1. /\ UNCHANGED <<deals, usage, sessions, late>>
        /\ \/ At(h, "listing") /\ handler'[h].pc = "adding"
           \/ At(h, "asked") /\ handler'[h].pc = "opening"
        /\ handler'[h].cycles = usage[handler[h].deal]
        /\ handler'[h].deal = handler[h].deal /\ handler'[h].cycle = handler[h].cycle
    BY <1>4, ListDoes DEF store
  <2>2. Reads(h)'
    BY <1>2, <2>1 DEF Reads, At
  <2>. QED
    BY <1>1, <2>1, <2>2, UsageKeeps
<1>5. CASE CreateSession(h)
  <2>1. /\ At(h, "opening") /\ UNCHANGED <<deals, usage, late>>
        /\ \A z \in 1..Len(sessions) : sessions'[z] = sessions[z]
    BY <1>5, CreateDoes
  <2>2. PICK n \in Nat :
          /\ n = Len(sessions) + 1 /\ Len(sessions)' = n
          /\ sessions'[n].kind = handler[h].kind /\ sessions'[n].of = handler[h].deal
          /\ sessions'[n].evidence = handler[h].cycles
          /\ sessions'[n].byUsage = (handler[h].cycle # 0)
          /\ handler'[h].pc = "linking"
    BY <1>5, CreateDoes
  <2>3. Founded(n)'
    BY <1>2, <2>1, <2>2 DEF Founded, Reads
  <2>4. \A z \in 1..Len(sessions)' : z \notin 1..Len(sessions) => Founded(z)'
    BY <1>2, <2>2, <2>3
  <2>5. Reads(h)'
    BY <2>2 DEF Reads, At
  <2>. QED
    BY <1>1, <2>1, <2>4, <2>5, UsageKeeps
<1>6. CASE LinkReneg(h)
  <2>1. /\ UNCHANGED <<usage, late>> /\ Len(deals)' = Len(deals)
        /\ Len(sessions)' = Len(sessions) /\ handler'[h] = Idle
        /\ \A z \in 1..Len(sessions) : Lasting(z)
    BY <1>6, LinkDoes
  <2>2. Reads(h)'
    BY <2>1 DEF Reads, At, Idle
  <2>. QED
    BY <1>1, <2>1, <2>2, UsageKeeps
<1>7. CASE Counter(h) \/ TurnAccepts(h) \/ TurnWalks(h) \/ TakeAsk(h) \/ CloseSession(h)
  <2>1. /\ UNCHANGED <<deals, usage, late>> /\ Len(sessions)' = Len(sessions)
        /\ \A z \in 1..Len(sessions) : Lasting(z)
        /\ handler'[h] = Idle \/ handler'[h].pc = "settling"
    BY <1>7, TurnDoes
  <2>2. Reads(h)'
    BY <2>1 DEF Reads, At, Idle
  <2>. QED
    BY <1>1, <2>1, <2>2, UsageKeeps
<1>8. CASE Reprice(h) \/ StripeRefuses(h) \/ HandlerDies(h)
  <2>1. /\ UNCHANGED <<deals, usage, sessions, late>>
        /\ handler'[h] = Idle \/ handler'[h].pc = "recording"
    BY <1>8, RepriceDoes, FaultDoes DEF store
  <2>2. Reads(h)'
    BY <2>1 DEF Reads, At, Idle
  <2>. QED
    BY <1>1, <2>1, <2>2, UsageKeeps
<1>9. CASE RecordDeal(h)
  <2>1. /\ UNCHANGED <<sessions, late>> /\ usage' = Append(usage, <<>>)
        /\ handler'[h].pc = "clearing"
    BY <1>9, RecordDoes
  <2>2. PICK n \in Nat : n = Len(deals) + 1 /\ Len(deals)' = n
    <3>1. \E n \in Nat : n = Len(deals) + 1 /\ Len(deals)' = n
      BY <1>9, RecordDoes
    <3>. QED
      BY <3>1
  <2>3. usage \in Seq(Seq(CycleRecord)) /\ Len(usage) = Len(deals)
    BY DEF IInv, Tables
  <2>4. usage'[n] = <<>> /\ \A d \in 1..Len(deals) : usage'[d] = usage[d]
    BY <2>1, <2>2, <2>3
  <2>5. Reads(h)'
    BY <2>1 DEF Reads, At
  <2>6. \A d \in 1..Len(deals)' :
          (d \in 1..Len(deals) /\ usage'[d] = usage[d]) \/ usage'[d] = <<>>
    BY <1>2, <2>2, <2>4
  <2>. QED
    BY <1>1, <2>1, <2>5, <2>6, UsageKeeps
<1>10. CASE ClearLink(h)
  <2>1. /\ UNCHANGED <<usage, sessions, late>> /\ Len(deals)' = Len(deals)
        /\ handler'[h] = Idle \/ handler'[h].pc = "closing"
    BY <1>10, ClearDoes
  <2>2. Reads(h)'
    BY <2>1 DEF Reads, At, Idle
  <2>. QED
    BY <1>1, <2>1, <2>2, UsageKeeps
<1>. QED
  BY <1>1, <1>3, <1>4, <1>5, <1>6, <1>7, <1>8, <1>9, <1>10, UsageReported DEF HandlerStep

\* README.md:274 "a viral week won't reopen the deal; a sustained change will": when
\* requests are answered one at a time and a deal's cycles are reported once each
\* and in order, usage opens a raise only on breachCyclesRequired consecutive cycles
\* over the ceiling, however long the record and whatever dies.
THEOREM RaisesAreSustained == Spec => []RaiseIsSustained
<1>1. Init => UsageInv
  <2>. SUFFICES ASSUME Init PROVE UsageInv
    OBVIOUS
  <2>1. Len(deals) = 1 /\ usage[1] = <<>> /\ Len(sessions) = 0
    BY DEF Init
  <2>2. \A h \in Handlers : Reads(h)
    BY DEF Init, Reads, At, Idle
  <2>. QED
    BY <2>1, <2>2 DEF UsageInv, Backed
<1>2. IInv /\ Serial /\ UsageInv /\ [Next]_vars => UsageInv'
  <2>. SUFFICES ASSUME IInv, Serial, UsageInv, [Next]_vars
                PROVE  UsageInv'
    OBVIOUS
  <2>1. CASE UNCHANGED vars
    BY <2>1 DEF vars, store, UsageInv, Backed, Reads, Founded, At
  <2>. QED
    BY <2>1, UsageStep DEF Next
<1>3. IInv /\ UsageInv => RaiseIsSustained
  BY DEF IInv, Tables, UsageInv, Founded, RaiseIsSustained
<1>. QED
  BY <1>1, <1>2, <1>3, Invariance, SerialInv, PTL DEF Spec
=============================================================================



