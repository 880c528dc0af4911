-------------------------- MODULE NegotiationProofs --------------------------
(***************************************************************************)
(* What the session handlers keep for any number of sessions and requests, *)
(* and what they keep besides when the requests are answered one at a time. *)
(***************************************************************************)
EXTENDS Negotiation, EngineProofs, WellFoundedInduction, FiniteSetTheorems

Band == Floor..Anchor

RequestType ==
  [pc     : {"idle", "opening", "posted", "thinking", "decided",
             "throttled", "capped", "yes", "taking", "closing", "cooling"},
   target : Sessions \cup {NoSession},
   seen   : EngineState,
   at     : Nat,
   says   : Messages \cup {NoOffer},
   action : Action]

\* What a request holds between two awaits: the state it read was in the band,
\* and the action it has decided on was earned against that state.
Request ==
  {r \in RequestType :
     /\ r.seen.ask \in Band
     /\ r.pc \notin {"idle", "opening"} => r.target \in Sessions
     /\ r.pc \in {"posted", "thinking"} => r.says \in Messages
     /\ r.pc = "decided" => \E opts \in Opts : Sound(r.action, r.seen.ask, opts)
     /\ r.pc = "closing" => r.action.amount \in Band}

IInv ==
  /\ TypeOK
  /\ PricesInBand
  /\ handler \in [Handlers -> Request]

-----------------------------------------------------------------------------
(* Requests *)

\* A fresh session asks the anchor (openSession).
LEMMA OpenInBand ==
  ASSUME NEW t \in Nat
  PROVE  OpenSession(t) \in EngineState /\ OpenSession(t).ask \in Band
BY Ladder DEF OpenSession, EngineState, Band

\* A request with nothing to do.
LEMMA IdleIsRequest == Idle \in Request
<1>1. OpenSession(0) \in EngineState /\ OpenSession(0).ask \in Band
  BY OpenInBand
<1>2. Walk \in Action
  BY DEF Walk, Action
<1>. QED
  BY <1>1, <1>2 DEF Idle, Request, RequestType

\* Every action of a turn is typed.
LEMMA TurnTyped ==
  ASSUME NEW m \in Messages, NEW s \in EngineState, NEW t \in Nat,
         NEW action \in ActionsOn(m, s, t, FALSE)
  PROVE  action \in Action
<1>1. Walk \in Action
  BY DEF Walk, Action
<1>2. \A a \in Int : Hold(a) \in Action /\ Accept(a) \in Action
  BY DEF Hold, Accept, Action
<1>3. \A a \in Int, isFinal \in BOOLEAN, agreed \in BOOLEAN :
        Counter(a, isFinal, agreed) \in Action
  BY DEF Counter, Action
<1>4. s.ask \in Int
  BY DEF EngineState
<1>5. \A offer, weight, bound : PullToward(s.ask, offer, weight, bound) \subseteq Int
  BY <1>4 DEF PullToward
<1>6. ASSUME NEW opts, action \in DecideNoOffer(s, opts)
      PROVE  action \in Action
  BY <1>2, <1>3, <1>4, <1>5, <1>6 DEF DecideNoOffer
<1>7. ASSUME NEW opts, NEW u \in Int, action \in DecideOffer(s, u, opts, FALSE)
      PROVE  action \in Action
  <2>1. CASE action \in DecideLastRound(s, u, opts, FALSE)
    <3>1. Max2(u, Floor) \in Int
      BY Ladder DEF Max2
    <3>. QED
      BY <1>2, <1>3, <1>4, <1>5, <2>1, <3>1 DEF DecideLastRound
  <2>2. CASE action \in DecideCounter(s, u, opts)
    <3>1. \A a : Agreed(a, u) \in BOOLEAN
      BY DEF Agreed
    <3>. QED
      BY <1>2, <1>3, <1>4, <1>5, <2>2, <3>1 DEF DecideCounter
  <2>3. CASE action \in {Walk, Hold(s.ask), Accept(Min2(u, s.ask))}
    BY <1>1, <1>2, <1>4, <2>3 DEF Min2
  <2>. QED
    BY <1>7, <2>1, <2>2, <2>3 DEF DecideOffer
<1>8. OfferOf(m, s.ask) \in Int \cup {NoOffer}
  BY <1>4, MessageTypes DEF EngineState, Extracted
<1>9. OfferOf(m, s.ask) # NoOffer => Max2(OfferOf(m, s.ask), 0) \in Int
  BY <1>8 DEF Max2
<1>. QED
  BY <1>1, <1>6, <1>7, <1>9 DEF ActionsOn, Decide

\* Replacing one request by another keeps all of them.
LEMMA Replace ==
  ASSUME NEW H \in [Handlers -> Request], NEW h \in Handlers, NEW r \in Request
  PROVE  [H EXCEPT ![h] = r] \in [Handlers -> Request]
OBVIOUS

\* Where a request goes next is all that changes.
LEMMA Move ==
  ASSUME NEW h \in Handlers, handler \in [Handlers -> Request],
         NEW pc \in {"thinking", "throttled", "capped", "yes", "cooling"},
         Goto(h, pc), ~At(h, "idle"), ~At(h, "opening"),
         pc = "thinking" => At(h, "posted")
  PROVE  handler' \in [Handlers -> Request]
<1>. DEFINE r == [handler[h] EXCEPT !.pc = pc]
<1>1. r \in Request
  BY DEF Request, RequestType, At
<1>2. handler' = [handler EXCEPT ![h] = r]
  BY DEF Goto
<1>. QED
  BY <1>1, <1>2, Replace

\* A request that begins.
LEMMA BeginKeeps ==
  ASSUME NEW h \in Handlers, handler \in [Handlers -> Request], now \in Nat,
         NEW pc \in {"opening", "posted", "taking"},
         NEW s \in Sessions \cup {NoSession}, pc # "opening" => s \in Sessions,
         NEW seen \in EngineState, seen.ask \in Band,
         NEW m \in Messages \cup {NoOffer}, pc = "posted" => m \in Messages,
         Begin(h, pc, s, seen, m)
  PROVE  handler' \in [Handlers -> Request]
<1>. DEFINE r == [pc |-> pc, target |-> s, seen |-> seen, at |-> now,
                  says |-> m, action |-> Walk]
<1>1. r \in Request
  BY DEF Request, RequestType, Walk, Action
<1>2. handler' = [handler EXCEPT ![h] = r]
  BY DEF Begin
<1>. QED
  BY <1>1, <1>2, Replace

\* The end of a request.
LEMMA FinishKeeps ==
  ASSUME NEW h \in Handlers, handler \in [Handlers -> Request], Finish(h)
  PROVE  handler' \in [Handlers -> Request]
BY IdleIsRequest, Replace DEF Finish

-----------------------------------------------------------------------------
(* Steps *)

\* Only the requests change.
LEMMA RequestStep ==
  ASSUME IInv, handler' \in [Handlers -> Request], UNCHANGED store,
         calls' \in [Sessions -> [0..MaxNow -> Nat]],
         now' \in 0..MaxNow, posts' \in 0..MaxPosts, faults' \in 0..MaxFaults
  PROVE  IInv'
<1>1. handler' \in [Handlers -> RequestType]
  BY DEF Request
<1>. QED
  BY <1>1 DEF IInv, TypeOK, PricesInBand, RequestType, store

\* A request that begins reads a session that is in the band, or none.
LEMMA BeginStep ==
  ASSUME IInv, NEW h \in Handlers,
         \/ Open(h)
         \/ \E s \in Sessions : Take(h, s) \/ \E m \in Messages : Post(h, s, m)
  PROVE  IInv'
<1>. USE PolicyIsNatural
<1>1. /\ handler \in [Handlers -> Request] /\ now \in Nat
      /\ calls \in [Sessions -> [0..MaxNow -> Nat]]
      /\ now \in 0..MaxNow /\ posts \in 0..MaxPosts /\ faults \in 0..MaxFaults
      /\ \A s \in Sessions : /\ session[s].engine \in EngineState
                             /\ session[s].engine.ask \in Band
  BY DEF IInv, TypeOK, PricesInBand, Band
<1>2. handler' \in [Handlers -> Request]
  <2>1. CASE Open(h)
    BY <1>1, <2>1, OpenInBand, BeginKeeps DEF Open
  <2>2. ASSUME NEW s \in Sessions, Take(h, s)
        PROVE  handler' \in [Handlers -> Request]
    BY <1>1, <2>2, BeginKeeps DEF Take
  <2>3. ASSUME NEW s \in Sessions, NEW m \in Messages, Post(h, s, m)
        PROVE  handler' \in [Handlers -> Request]
    BY <1>1, <2>3, BeginKeeps DEF Post
  <2>. QED
    BY <2>1, <2>2, <2>3
<1>3. UNCHANGED <<store, calls, now, faults>> /\ posts' \in 0..MaxPosts
  BY <1>1 DEF Open, Take, Post, Begin
<1>. QED
  BY <1>1, <1>2, <1>3, RequestStep

\* A new session stands where openSession put it.
LEMMA InsertStep ==
  ASSUME IInv, NEW h \in Handlers, InsertSession(h)
  PROVE  IInv'
<1>1. handler[h].seen \in EngineState /\ handler[h].seen.ask \in Band
  BY DEF IInv, Request, RequestType
<1>2. handler' \in [Handlers -> Request]
  BY FinishKeeps DEF InsertSession, IInv
<1>3. handler' \in [Handlers -> RequestType]
  BY <1>2 DEF Request
<1>4. PICK s \in Sessions :
        session' = [session EXCEPT ![s] = [status |-> "open", engine |-> handler[h].seen]]
  BY DEF InsertSession
<1>5. /\ session' \in [Sessions -> [status : Statuses, engine : EngineState]]
      /\ \A z \in Sessions : session'[z].engine.ask \in Band
  BY <1>1, <1>4 DEF IInv, TypeOK, PricesInBand, Band, Statuses
<1>. QED
  BY <1>2, <1>3, <1>5 DEF InsertSession, IInv, TypeOK, PricesInBand, Band, RequestType

\* Counting one more of a session in a tick keeps a table of counts.
LEMMA CountUp ==
  ASSUME NEW f \in [Sessions -> [0..MaxNow -> Nat]], NEW s \in Sessions, NEW t \in 0..MaxNow
  PROVE  [f EXCEPT ![s][t] = @ + 1] \in [Sessions -> [0..MaxNow -> Nat]]
<1>. DEFINE row == f[s]
<1>1. row \in [0..MaxNow -> Nat]
  BY Zenon
<1>2. [row EXCEPT ![t] = row[t] + 1] \in [0..MaxNow -> Nat]
  <2>. HIDE DEF row
  <2>1. row[t] \in Nat
    BY <1>1, Zenon
  <2>2. row[t] + 1 \in Nat
    BY <2>1
  <2>. QED
    BY <1>1, <2>2, Zenon
<1>. QED
  BY <1>2, Zenon

\* A turn is recorded against the tick it is recorded in.
LEMMA RecordKeeps ==
  ASSUME IInv, NEW h \in Handlers, RecordUserTurn(h), ~At(h, "idle"), ~At(h, "opening")
  PROVE  said' \in [Sessions -> [0..MaxNow -> Nat]]
<1>1. handler[h].target \in Sessions /\ now \in 0..MaxNow
  BY DEF At, IInv, TypeOK, Request
<1>. QED
  BY <1>1, CountUp DEF RecordUserTurn, IInv, TypeOK

\* The guards before the model, the throttle and the lock-in write no price.
LEMMA GuardStep ==
  ASSUME IInv, NEW h \in Handlers, ListTurns(h) \/ Throttle(h) \/ LockIn(h)
  PROVE  IInv'
<1>1. handler \in [Handlers -> Request]
  BY DEF IInv
<1>2. CASE ListTurns(h)
  <2>1. handler' \in [Handlers -> Request]
    BY <1>1, <1>2, Move DEF ListTurns, At
  <2>2. calls' \in [Sessions -> [0..MaxNow -> Nat]]
    <3>1. handler[h].target \in Sessions /\ now \in 0..MaxNow
      BY <1>2 DEF ListTurns, At, IInv, TypeOK, Request
    <3>2. \/ calls' = calls
          \/ calls' = [calls EXCEPT ![handler[h].target][now] = @ + 1]
      BY <1>2, Zenon DEF ListTurns
    <3>3. calls \in [Sessions -> [0..MaxNow -> Nat]]
      BY DEF IInv, TypeOK
    <3>4. [calls EXCEPT ![handler[h].target][now] = @ + 1]
            \in [Sessions -> [0..MaxNow -> Nat]]
      BY <3>1, <3>3, CountUp
    <3>. QED
      BY <3>2, <3>3, <3>4, Zenon
  <2>. QED
    BY <1>2, <2>1, <2>2, RequestStep DEF ListTurns, IInv, TypeOK
<1>3. CASE Throttle(h) \/ LockIn(h)
  <2>1. handler' \in [Handlers -> Request]
    BY <1>1, <1>3, Move, FinishKeeps DEF Throttle, LockIn, At
  <2>2. handler' \in [Handlers -> RequestType]
    BY <2>1 DEF Request
  <2>3. said' \in [Sessions -> [0..MaxNow -> Nat]]
    BY <1>3, RecordKeeps DEF Throttle, LockIn, At
  <2>. QED
    BY <1>3, <2>1, <2>2, <2>3 DEF Throttle, LockIn, IInv, TypeOK, PricesInBand, RequestType
<1>. QED
  BY <1>2, <1>3

\* What a turn decides is sound for the state it read, stale or not.
LEMMA DecidesSoundly ==
  ASSUME IInv, NEW h \in Handlers, At(h, "thinking"),
         NEW action \in ActionsOn(handler[h].says, handler[h].seen, handler[h].at, FALSE)
  PROVE  /\ action \in Action
         /\ \E opts \in Opts : Sound(action, handler[h].seen.ask, opts)
<1>1. /\ handler[h].says \in Messages /\ handler[h].seen \in EngineState
      /\ handler[h].seen \in Standing /\ handler[h].seen.ask \in Band
      /\ handler[h].seen.ask \in Nat /\ handler[h].at \in Nat
  BY DEF At, IInv, Request, RequestType, EngineState, Standing
<1>2. handler[h].says \in Extracted /\ handler[h].seen.ask >= Floor
  BY <1>1, Ladder DEF Extracted, Band
<1>3. OptsOf(handler[h].says) \in Opts
  BY <1>1, <1>2, MessageTypes
<1>4. Sound(action, handler[h].seen.ask, OptsOf(handler[h].says))
  BY <1>1, <1>2, TurnIsSound
<1>. QED
  BY <1>1, <1>3, <1>4, TurnTyped

\* The turn is recorded, and the request holds what it decided.
LEMMA RecordTurnStep ==
  ASSUME IInv, NEW h \in Handlers, RecordTurn(h)
  PROVE  IInv'
<1>1. PICK action \in ActionsOn(handler[h].says, handler[h].seen, handler[h].at, FALSE) :
        handler' = [handler EXCEPT ![h].pc = "decided", ![h].action = action]
  BY DEF RecordTurn
<1>. DEFINE r == [handler[h] EXCEPT !.pc = "decided", !.action = action]
<1>2. action \in Action /\ \E opts \in Opts : Sound(action, handler[h].seen.ask, opts)
  BY DecidesSoundly DEF RecordTurn
<1>3. r \in Request
  BY <1>2 DEF RecordTurn, At, IInv, Request, RequestType
<1>4. handler' = [handler EXCEPT ![h] = r]
  BY <1>1 DEF IInv, Request, RequestType
<1>5. handler' \in [Handlers -> Request]
  BY <1>3, <1>4, Replace DEF IInv
<1>6. handler' \in [Handlers -> RequestType]
  BY <1>5 DEF Request
<1>7. said' \in [Sessions -> [0..MaxNow -> Nat]]
  BY RecordKeeps DEF RecordTurn, At
<1>. QED
  BY <1>5, <1>6, <1>7 DEF RecordTurn, IInv, TypeOK, PricesInBand, RequestType

\* What a decided request writes is in the band, and so is the price it closes at.
LEMMA WrittenInBand ==
  ASSUME IInv, NEW h \in Handlers, At(h, "decided")
  PROVE  /\ ApplyAction(handler[h].seen, handler[h].action) \in EngineState
         /\ ApplyAction(handler[h].seen, handler[h].action).ask \in Band
         /\ ApplyAction(handler[h].seen, handler[h].action).ask <= handler[h].seen.ask
         /\ handler[h].action.type = "accept" => handler[h].action.amount \in Band
<1>1. /\ handler[h].seen \in EngineState /\ handler[h].seen \in Standing
      /\ handler[h].seen.ask \in Nat /\ handler[h].seen.ask \in Band
      /\ handler[h].action \in Action
  BY DEF IInv, Request, RequestType, EngineState, Standing
<1>2. PICK opts \in Opts : Sound(handler[h].action, handler[h].seen.ask, opts)
  BY DEF At, IInv, Request
<1>. DEFINE after == ApplyAction(handler[h].seen, handler[h].action)
<1>3. after \in Standing /\ after.ask <= handler[h].seen.ask /\ after.ask >= Floor
  <2>1. handler[h].seen.ask >= Floor
    BY <1>1, Ladder DEF Band
  <2>. QED
    BY <1>1, <1>2, <2>1, ApplyKeeps
<1>4. after \in EngineState /\ after.ask \in Band
  <2>. HIDE DEF after
  <2>. QED
    BY <1>1, <1>3, Ladder DEF Standing, EngineState, Band
<1>5. handler[h].action.type = "accept" => handler[h].action.amount \in Band
  BY <1>1, <1>2, Ladder DEF Sound, Band
<1>. QED
  BY <1>3, <1>4, <1>5

\* updateSession after a turn: the state decided on, over whatever is there.
LEMMA WriteTurnStep ==
  ASSUME IInv, NEW h \in Handlers, WriteTurn(h)
  PROVE  IInv'
<1>. DEFINE s     == handler[h].target
            after == ApplyAction(handler[h].seen, handler[h].action)
<1>1. /\ after \in EngineState /\ after.ask \in Band
      /\ handler[h].action.type = "accept" => handler[h].action.amount \in Band
  BY WrittenInBand DEF WriteTurn
<1>2. StatusFor(handler[h].action) \in Statuses
  BY DEF StatusFor, Statuses
<1>3. session' = [session EXCEPT ![s] =
                    [status |-> StatusFor(handler[h].action), engine |-> after]]
  BY DEF WriteTurn
<1>. HIDE DEF after
<1>4. /\ session' \in [Sessions -> [status : Statuses, engine : EngineState]]
      /\ \A z \in Sessions : session'[z].engine.ask \in Band
  BY <1>1, <1>2, <1>3 DEF IInv, TypeOK, PricesInBand, Band
<1>5. handler' \in [Handlers -> Request]
  <2>1. CASE Finish(h)
    BY <2>1, FinishKeeps DEF IInv
  <2>2. CASE /\ Goto(h, AfterTurn(handler[h].action))
             /\ AfterTurn(handler[h].action) # "idle"
    <3>1. CASE handler[h].action.type = "accept"
      <4>. DEFINE r == [handler[h] EXCEPT !.pc = "closing"]
      <4>1. r \in Request
        BY <1>1, <3>1 DEF WriteTurn, At, IInv, Request, RequestType
      <4>2. handler' = [handler EXCEPT ![h] = r]
        BY <2>2, <3>1 DEF Goto, AfterTurn
      <4>. QED
        BY <4>1, <4>2, Replace DEF IInv
    <3>2. CASE handler[h].action.type # "accept"
      <4>1. AfterTurn(handler[h].action) = "cooling"
        BY <2>2, <3>2 DEF AfterTurn
      <4>. QED
        BY <2>2, <4>1, Move DEF WriteTurn, At, IInv
    <3>. QED
      BY <3>1, <3>2
  <2>. QED
    BY <2>1, <2>2 DEF WriteTurn
<1>6. handler' \in [Handlers -> RequestType]
  BY <1>5 DEF Request
<1>. QED
  BY <1>4, <1>5, <1>6 DEF WriteTurn, IInv, TypeOK, PricesInBand, Band, RequestType

\* A yes at the cap takes the state as it stands now.
LEMMA TakeAtCapStep ==
  ASSUME IInv, NEW h \in Handlers, TakeAtCap(h)
  PROVE  IInv'
<1>. DEFINE s == handler[h].target
            r == [handler[h] EXCEPT !.pc = "taking", !.seen = session[s].engine]
<1>1. s \in Sessions /\ handler[h] \in RequestType
  BY DEF TakeAtCap, At, IInv, Request
<1>2. session[s].engine \in EngineState /\ session[s].engine.ask \in Band
  BY <1>1 DEF IInv, TypeOK, PricesInBand, Band
<1>3. r \in Request
  BY <1>1, <1>2 DEF Request, RequestType
<1>4. \/ Finish(h)
      \/ handler' = [handler EXCEPT ![h].pc = "taking", ![h].seen = session[s].engine]
  BY DEF TakeAtCap
<1>5. Finish(h) \/ handler' = [handler EXCEPT ![h] = r]
  BY <1>4 DEF IInv
<1>6. handler' \in [Handlers -> Request]
  BY <1>3, <1>5, FinishKeeps, Replace DEF IInv
<1>. QED
  BY <1>6, RequestStep DEF TakeAtCap, IInv, TypeOK

\* acceptCurrent writes the status only, and goes on with the ask it read.
LEMMA WriteAcceptStep ==
  ASSUME IInv, NEW h \in Handlers, WriteAccept(h)
  PROVE  IInv'
<1>. DEFINE taken == Accept(handler[h].seen.ask)
            r     == [handler[h] EXCEPT !.pc = "closing", !.action = taken]
<1>1. handler[h] \in RequestType /\ handler[h].seen.ask \in Band /\ handler[h].target \in Sessions
  BY DEF WriteAccept, At, IInv, Request
<1>2. r \in Request
  <2>1. handler[h].seen.ask \in Int
    BY <1>1 DEF RequestType, EngineState
  <2>2. taken \in Action /\ taken.amount = handler[h].seen.ask
    BY <2>1 DEF Accept, Action
  <2>. HIDE DEF taken
  <2>. QED
    BY <1>1, <2>2 DEF Request, RequestType
<1>3. handler' = [handler EXCEPT ![h] = r]
  BY DEF WriteAccept, IInv
<1>4. handler' \in [Handlers -> Request]
  BY <1>2, <1>3, Replace DEF IInv
<1>5. handler' \in [Handlers -> RequestType]
  BY <1>4 DEF Request
<1>6. session' = [session EXCEPT ![handler[h].target].status = "accepted"]
  BY DEF WriteAccept, AcceptedStatus
<1>7. /\ session' \in [Sessions -> [status : Statuses, engine : EngineState]]
      /\ \A z \in Sessions : session'[z].engine = session[z].engine
  BY <1>1, <1>6 DEF IInv, TypeOK, Statuses
<1>. QED
  BY <1>4, <1>5, <1>7 DEF WriteAccept, IInv, TypeOK, PricesInBand, RequestType

\* The deal is made at the price the request holds.
LEMMA CloseDealStep ==
  ASSUME IInv, NEW h \in Handlers, CloseDeal(h)
  PROVE  IInv'
<1>. DEFINE s == handler[h].target
            a == handler[h].action.amount
<1>1. s \in Sessions /\ a \in Band /\ a \in Nat /\ deals[s] \in Seq(Nat)
  <2>1. s \in Sessions /\ a \in Band
    BY DEF CloseDeal, At, IInv, Request
  <2>2. deals[s] \in Seq(Nat)
    BY <2>1 DEF IInv, TypeOK
  <2>. HIDE DEF a
  <2>3. a \in Nat
    BY <2>1, Ladder DEF Band
  <2>. QED
    BY <2>1, <2>2, <2>3
<1>2. handler' \in [Handlers -> Request]
  BY FinishKeeps DEF CloseDeal, IInv
<1>3. handler' \in [Handlers -> RequestType]
  BY <1>2 DEF Request
<1>4. deals' = [deals EXCEPT ![s] = Append(deals[s], a)]
  BY DEF CloseDeal
<1>. HIDE DEF a
<1>5. deals' \in [Sessions -> Seq(Nat)]
  BY <1>1, <1>4 DEF IInv, TypeOK
<1>6. ASSUME NEW z \in Sessions, NEW i \in DOMAIN deals'[z]
      PROVE  deals'[z][i] \in Band
  <2>1. CASE z = s
    <3>1. deals'[z] = Append(deals[s], a)
      BY <1>4, <2>1 DEF IInv, TypeOK
    <3>2. \A j \in DOMAIN deals[s] : deals[s][j] \in Band
      BY <1>1 DEF IInv, PricesInBand, Band
    <3>3. i \in 1..Len(deals[s]) + 1
      BY <1>1, <1>6, <3>1
    <3>4. CASE i = Len(deals[s]) + 1
      BY <1>1, <3>1, <3>4
    <3>5. CASE i \in 1..Len(deals[s])
      <4>1. deals'[z][i] = deals[s][i]
        BY <1>1, <3>1, <3>5
      <4>2. i \in DOMAIN deals[s]
        BY <1>1, <3>5
      <4>. QED
        BY <3>2, <4>1, <4>2
    <3>6. Len(deals[s]) \in Nat
      BY <1>1
    <3>. QED
      BY <3>3, <3>4, <3>5, <3>6
  <2>2. CASE z # s
    BY <1>4, <1>6, <2>2 DEF IInv, TypeOK, PricesInBand, Band
  <2>. QED
    BY <2>1, <2>2
<1>. QED
  BY <1>2, <1>3, <1>5, <1>6 DEF CloseDeal, IInv, TypeOK, PricesInBand, Band, RequestType

\* The cooldown, the webhook, a death and the clock touch no price.
LEMMA RestStep ==
  ASSUME IInv,
         \/ \E h \in Handlers : StartCooldown(h) \/ HandlerDies(h)
         \/ \E s \in Sessions : Settle(s)
         \/ Tick
         \/ UNCHANGED vars
  PROVE  IInv'
<1>. USE PolicyIsNatural
<1>1. handler \in [Handlers -> Request]
  BY DEF IInv
<1>2. ASSUME NEW h \in Handlers, StartCooldown(h)
      PROVE  IInv'
  <2>1. handler' \in [Handlers -> Request]
    BY <1>1, <1>2, FinishKeeps DEF StartCooldown
  <2>2. handler' \in [Handlers -> RequestType]
    BY <2>1 DEF Request
  <2>3. cooldown' \in Nat
    BY <1>1, <1>2 DEF StartCooldown, Request, RequestType
  <2>. QED
    BY <1>2, <2>1, <2>2, <2>3 DEF StartCooldown, IInv, TypeOK, PricesInBand, RequestType
<1>3. ASSUME NEW h \in Handlers, HandlerDies(h)
      PROVE  IInv'
  <2>1. handler' \in [Handlers -> Request]
    BY <1>1, <1>3, FinishKeeps DEF HandlerDies
  <2>2. faults' \in 0..MaxFaults
    BY <1>3 DEF HandlerDies, IInv, TypeOK
  <2>. QED
    BY <1>3, <2>1, <2>2, RequestStep DEF HandlerDies, IInv, TypeOK
<1>4. ASSUME NEW s \in Sessions, Settle(s)
      PROVE  IInv'
  <2>1. session' = [session EXCEPT ![s].status = "settled"]
    BY <1>4 DEF Settle
  <2>2. /\ session' \in [Sessions -> [status : Statuses, engine : EngineState]]
        /\ \A z \in Sessions : session'[z].engine = session[z].engine
    BY <2>1 DEF IInv, TypeOK, Statuses
  <2>3. paid' \in [Sessions -> Nat]
    BY <1>4 DEF Settle, IInv, TypeOK
  <2>. QED
    BY <1>4, <2>2, <2>3 DEF Settle, IInv, TypeOK, PricesInBand
<1>5. CASE Tick
  <2>1. now' \in 0..MaxNow
    BY <1>5 DEF Tick, IInv, TypeOK
  <2>. QED
    BY <1>1, <1>5, <2>1, RequestStep DEF Tick, IInv, TypeOK
<1>6. CASE UNCHANGED vars
  BY <1>6 DEF vars, store, IInv, TypeOK, PricesInBand
<1>. QED
  BY <1>2, <1>3, <1>4, <1>5, <1>6

-----------------------------------------------------------------------------
(* Any number of requests at a time *)

LEMMA InitInv == Init => IInv
<1>. SUFFICES ASSUME Init PROVE IInv
  OBVIOUS
<1>. USE PolicyIsNatural
<1>1. OpenSession(0) \in EngineState /\ OpenSession(0).ask \in Band
  BY OpenInBand
<1>2. handler \in [Handlers -> Request]
  BY IdleIsRequest DEF Init
<1>3. handler \in [Handlers -> RequestType]
  BY <1>2 DEF Request
<1>4. \A s \in Sessions : session[s].engine.ask \in Band /\ deals[s] = <<>>
  BY <1>1 DEF Init
<1>. QED
  BY <1>1, <1>2, <1>3, <1>4
     DEF Init, IInv, TypeOK, PricesInBand, Band, Statuses, RequestType

\* Every step keeps the invariant.
LEMMA NextInv == IInv /\ [Next]_vars => IInv'
<1>. SUFFICES ASSUME IInv, [Next]_vars PROVE IInv'
  OBVIOUS
<1>1. ASSUME NEW h \in Handlers, HandlerStep(h)
      PROVE  IInv'
  BY <1>1, InsertStep, GuardStep, RecordTurnStep, WriteTurnStep, TakeAtCapStep,
     WriteAcceptStep, CloseDealStep, RestStep DEF HandlerStep
<1>2. ASSUME NEW h \in Handlers, Open(h) \/ HandlerDies(h)
      PROVE  IInv'
  BY <1>2, BeginStep, RestStep
<1>3. ASSUME NEW h \in Handlers, NEW s \in Sessions,
             Take(h, s) \/ \E m \in Messages : Post(h, s, m)
      PROVE  IInv'
  BY <1>3, BeginStep
<1>4. CASE (\E s \in Sessions : Settle(s)) \/ Tick \/ UNCHANGED vars
  BY <1>4, RestStep
<1>. QED
  BY <1>1, <1>2, <1>3, <1>4 DEF Next

\* Every behaviour of the session service satisfies the inductive invariant.
THEOREM Invariance == Spec => []IInv
BY InitInv, NextInv, PTL DEF Spec

\* The type invariant of the session service.
THEOREM TypeCorrect == Spec => []TypeOK
<1>1. IInv => TypeOK
  BY DEF IInv
<1>. QED
  BY <1>1, Invariance, PTL

\* However many requests of however many sessions race, decide on states that
\* were written over meanwhile and die between two writes, no stored ask and no
\* closed deal leaves the band between the floor and the anchor.
THEOREM StalePricesInBand == Spec => []PricesInBand
<1>1. IInv => PricesInBand
  BY DEF IInv
<1>. QED
  BY <1>1, Invariance, PTL

-----------------------------------------------------------------------------
(* A closed session *)

\* No step brings a closed session that nobody works on a request, a deal or
\* another ask: the requests that change them read "open" before or are its own.
LEMMA QuietStep ==
  ASSUME IInv, Next, NEW s \in Sessions,
         session[s].status \notin {"none", "open"}, InFlight(s) = {}
  PROVE  /\ InFlight(s)' = {}
         /\ deals'[s] = deals[s]
         /\ session'[s].engine = session[s].engine
<1>. USE PolicyIsNatural
<1>. DEFINE Quiet == /\ \A g \in Handlers : handler'[g].target # s
                     /\ deals'[s] = deals[s]
                     /\ session'[s].engine = session[s].engine
<1>1. /\ \A g \in Handlers : handler[g].target # s
      /\ handler \in [Handlers -> RequestType]
      /\ DOMAIN session = Sessions /\ DOMAIN deals = Sessions
  BY DEF InFlight, IInv, TypeOK, RequestType
<1>2. \A h \in Handlers : Finish(h) => \A g \in Handlers : handler'[g].target # s
  BY <1>1 DEF Finish, Idle
<1>3. \A pc : \A h \in Handlers : Goto(h, pc) => \A g \in Handlers : handler'[g].target # s
  BY <1>1 DEF Goto, RequestType
<1>4. ASSUME NEW h \in Handlers, InsertSession(h)
      PROVE  Quiet
  BY <1>1, <1>2, <1>4 DEF InsertSession
<1>5. ASSUME NEW h \in Handlers,
             ListTurns(h) \/ Throttle(h) \/ LockIn(h) \/ StartCooldown(h) \/ HandlerDies(h)
      PROVE  Quiet
  BY <1>2, <1>3, <1>5, Zenon
     DEF ListTurns, Throttle, LockIn, StartCooldown, HandlerDies, store
<1>6. ASSUME NEW h \in Handlers, RecordTurn(h) \/ TakeAtCap(h)
      PROVE  Quiet
  <2>1. \/ Finish(h)
        \/ \E seen : handler' = [handler EXCEPT ![h].pc = "taking", ![h].seen = seen]
        \/ \E action : handler' = [handler EXCEPT ![h].pc = "decided", ![h].action = action]
    BY <1>6 DEF RecordTurn, TakeAtCap
  <2>2. UNCHANGED <<session, deals>>
    BY <1>6 DEF RecordTurn, TakeAtCap, store
  <2>. QED
    BY <1>1, <1>2, <2>1, <2>2 DEF RequestType
<1>7. ASSUME NEW h \in Handlers, WriteTurn(h)
      PROVE  Quiet
  BY <1>1, <1>2, <1>3, <1>7 DEF WriteTurn
<1>8. ASSUME NEW h \in Handlers, WriteAccept(h)
      PROVE  Quiet
  BY <1>1, <1>8 DEF WriteAccept, RequestType
<1>9. ASSUME NEW h \in Handlers, CloseDeal(h)
      PROVE  Quiet
  BY <1>1, <1>2, <1>9 DEF CloseDeal
<1>10. ASSUME NEW h \in Handlers, Open(h)
       PROVE  Quiet
  BY <1>1, <1>10 DEF Open, Begin, store
<1>11. ASSUME NEW h \in Handlers, NEW z \in Sessions,
              Take(h, z) \/ \E m \in Messages : Post(h, z, m)
       PROVE  Quiet
  BY <1>1, <1>11 DEF Take, Post, IsOpen, Begin, store
<1>12. ASSUME NEW z \in Sessions, Settle(z)
       PROVE  Quiet
  BY <1>1, <1>12 DEF Settle, IInv, TypeOK
<1>13. ASSUME Tick
       PROVE  Quiet
  BY <1>1, <1>13 DEF Tick, store
<1>14. Quiet
  BY <1>4, <1>5, <1>6, <1>7, <1>8, <1>9, <1>10, <1>11, <1>12, <1>13 DEF Next, HandlerStep
<1>. QED
  BY <1>14 DEF InFlight

\* Once a session is closed and the requests that began before are answered, it
\* takes no request, gets no deal and keeps its price, whoever races elsewhere.
THEOREM ClosedStaysQuiet == Spec => ClosedIsQuiet
<1>1. ASSUME IInv, [Next]_vars
      PROVE  [\A s \in Sessions :
                session[s].status \notin {"none", "open"} /\ InFlight(s) = {} =>
                  /\ InFlight(s)' = {}
                  /\ deals'[s] = deals[s]
                  /\ session'[s].engine = session[s].engine]_vars
  BY <1>1, QuietStep
<1>. QED
  BY <1>1, Invariance, PTL DEF Spec, ClosedIsQuiet

-----------------------------------------------------------------------------
(* One request at a time *)

OneAtATime == \A g, h \in Handlers : g = h

\* A deal is the only one of its session, and has closed it.
Dealt ==
  \A s \in Sessions :
    /\ Len(deals[s]) <= 1
    /\ deals[s] # <<>> => session[s].status \notin {"none", "open"}

\* What a request has read is still so when it writes.
Fresh ==
  \A h \in Handlers :
    /\ handler[h].pc \in {"posted", "thinking", "decided", "taking"} =>
         /\ session[handler[h].target].status = "open"
         /\ handler[h].seen = session[handler[h].target].engine
    /\ handler[h].pc = "closing" =>
         /\ session[handler[h].target].status = "accepted"
         /\ deals[handler[h].target] = <<>>

SerialInv == IInv /\ Dealt /\ Fresh

\* The stored ask of a session that is there does not rise in this step.
NoRise ==
  \A s \in Sessions :
    session[s].status # "none" => session'[s].engine.ask <= session[s].engine.ask

\* With one request at a time, one that ends leaves none behind.
LEMMA FinishFresh ==
  ASSUME OneAtATime, NEW h \in Handlers, IInv, Finish(h)
  PROVE  Fresh'
BY DEF OneAtATime, Finish, Idle, IInv, Fresh

\* Steps that write no session and no deal leave each as it was.
LEMMA NoRiseUnchanged ==
  ASSUME IInv, UNCHANGED session
  PROVE  NoRise
<1>1. \A s \in Sessions : session[s].engine.ask \in Int
  BY DEF IInv, TypeOK, EngineState
<1>. QED
  BY <1>1 DEF NoRise

\* Steps of a request that write neither the session nor the deals.
LEMMA SerialRequestStep ==
  ASSUME OneAtATime, SerialInv, NEW h \in Handlers,
         \/ Open(h) \/ ListTurns(h) \/ Throttle(h) \/ LockIn(h) \/ RecordTurn(h)
         \/ TakeAtCap(h) \/ StartCooldown(h) \/ HandlerDies(h)
         \/ \E s \in Sessions : Take(h, s) \/ \E m \in Messages : Post(h, s, m)
  PROVE  Dealt' /\ Fresh' /\ NoRise
<1>1. /\ \A g \in Handlers : g = h
      /\ handler \in [Handlers -> RequestType] /\ IInv /\ Dealt /\ Fresh
  BY DEF OneAtATime, SerialInv, IInv, TypeOK, RequestType
<1>2. UNCHANGED <<session, deals>>
  BY DEF Open, ListTurns, Throttle, LockIn, RecordTurn, TakeAtCap, StartCooldown,
         HandlerDies, Take, Post, Begin, store
<1>3. Dealt' /\ NoRise
  BY <1>1, <1>2, NoRiseUnchanged DEF Dealt
<1>4. Fresh'
  <2>1. CASE Finish(h)
    BY <1>1, <2>1, FinishFresh
  <2>2. ASSUME NEW pc \in {"throttled", "capped", "yes"}, Goto(h, pc)
        PROVE  Fresh'
    BY <1>1, <1>2, <2>2 DEF Fresh, Goto, RequestType
  <2>3. CASE ListTurns(h) /\ Goto(h, "thinking")
    BY <1>1, <1>2, <2>3 DEF Fresh, Goto, ListTurns, At, RequestType
  <2>4. CASE RecordTurn(h)
    <3>1. PICK action : handler' = [handler EXCEPT ![h].pc = "decided", ![h].action = action]
      BY <2>4 DEF RecordTurn
    <3>. QED
      BY <1>1, <1>2, <2>4, <3>1 DEF Fresh, RecordTurn, At, RequestType
  <2>5. CASE /\ IsOpen(handler[h].target)
             /\ handler' = [handler EXCEPT ![h].pc = "taking",
                                           ![h].seen = session[handler[h].target].engine]
    BY <1>1, <1>2, <2>5 DEF Fresh, IsOpen, RequestType
  <2>6. ASSUME NEW s \in Sessions, NEW m \in Messages, Post(h, s, m)
        PROVE  Fresh'
    BY <1>1, <1>2, <2>6 DEF Post, IsOpen, Begin, Fresh
  <2>7. ASSUME NEW s \in Sessions, Take(h, s)
        PROVE  Fresh'
    BY <1>1, <1>2, <2>7 DEF Take, IsOpen, Begin, Fresh
  <2>8. CASE Open(h)
    BY <1>1, <1>2, <2>8 DEF Open, Begin, Fresh
  <2>9. CASE ListTurns(h) \/ Throttle(h) \/ LockIn(h) \/ StartCooldown(h) \/ HandlerDies(h)
    BY <2>1, <2>2, <2>3, <2>9, Zenon
       DEF ListTurns, Throttle, LockIn, StartCooldown, HandlerDies
  <2>10. CASE TakeAtCap(h)
    BY <2>1, <2>5, <2>10, Zenon DEF TakeAtCap
  <2>. QED
    BY <2>4, <2>6, <2>7, <2>8, <2>9, <2>10
<1>. QED
  BY <1>3, <1>4

\* A turn writes over the state it has read, and sinks the ask.
LEMMA SerialWriteTurn ==
  ASSUME OneAtATime, SerialInv, NEW h \in Handlers, WriteTurn(h)
  PROVE  Dealt' /\ Fresh' /\ NoRise
<1>. DEFINE s     == handler[h].target
            after == ApplyAction(handler[h].seen, handler[h].action)
<1>1. /\ \A g \in Handlers : g = h
      /\ handler \in [Handlers -> RequestType] /\ IInv /\ Dealt
      /\ s \in Sessions /\ DOMAIN session = Sessions
      /\ \A z \in Sessions : session[z].engine.ask \in Int
      /\ session[s].status = "open" /\ handler[h].seen = session[s].engine
  <2>1. /\ handler \in [Handlers -> RequestType] /\ IInv /\ Dealt
        /\ DOMAIN session = Sessions
        /\ \A z \in Sessions : session[z].engine.ask \in Int
    BY DEF SerialInv, IInv, TypeOK, RequestType, EngineState
  <2>2. s \in Sessions
    BY <2>1 DEF WriteTurn, At, IInv, Request
  <2>3. session[s].status = "open" /\ handler[h].seen = session[s].engine
    BY DEF WriteTurn, At, SerialInv, Fresh
  <2>. QED
    BY <2>1, <2>2, <2>3 DEF OneAtATime
<1>2. after.ask <= handler[h].seen.ask
  BY <1>1, WrittenInBand DEF WriteTurn
<1>3. /\ session' = [session EXCEPT ![s] =
                       [status |-> StatusFor(handler[h].action), engine |-> after]]
      /\ deals' = deals
  BY DEF WriteTurn
<1>. HIDE DEF after
<1>4. deals[s] = <<>>
  BY <1>1 DEF Dealt
<1>5. Dealt'
  BY <1>1, <1>3, <1>4 DEF Dealt
<1>6. NoRise
  BY <1>1, <1>2, <1>3 DEF NoRise
<1>7. Fresh'
  <2>1. CASE Finish(h)
    BY <1>1, <2>1, FinishFresh
  <2>2. CASE /\ Goto(h, AfterTurn(handler[h].action))
             /\ AfterTurn(handler[h].action) # "idle"
    <3>1. \/ AfterTurn(handler[h].action) = "cooling"
          \/ /\ AfterTurn(handler[h].action) = "closing"
             /\ StatusFor(handler[h].action) = "accepted"
      BY <2>2 DEF AfterTurn, StatusFor
    <3>2. CASE AfterTurn(handler[h].action) = "cooling"
      BY <1>1, <2>2, <3>2 DEF Goto, Fresh, RequestType
    <3>3. CASE /\ AfterTurn(handler[h].action) = "closing"
               /\ StatusFor(handler[h].action) = "accepted"
      BY <1>1, <1>3, <1>4, <2>2, <3>3 DEF Goto, Fresh, RequestType
    <3>. QED
      BY <3>1, <3>2, <3>3
  <2>. QED
    BY <2>1, <2>2 DEF WriteTurn
<1>. QED
  BY <1>5, <1>6, <1>7

\* acceptCurrent closes the session its ask was read from.
LEMMA SerialWriteAccept ==
  ASSUME OneAtATime, SerialInv, NEW h \in Handlers, WriteAccept(h)
  PROVE  Dealt' /\ Fresh' /\ NoRise
<1>. DEFINE s == handler[h].target
<1>1. /\ \A g \in Handlers : g = h
      /\ handler \in [Handlers -> RequestType] /\ Dealt
      /\ s \in Sessions
      /\ session \in [Sessions -> [status : Statuses, engine : EngineState]]
      /\ session[s].status = "open"
  BY DEF WriteAccept, At, OneAtATime, SerialInv, Fresh, IInv, TypeOK, Request, RequestType
<1>2. /\ session' = [session EXCEPT ![s].status = "accepted"] /\ deals' = deals
      /\ handler' = [handler EXCEPT ![h].pc = "closing",
                                    ![h].action = Accept(handler[h].seen.ask)]
  BY DEF WriteAccept, AcceptedStatus
<1>3. deals[s] = <<>>
  BY <1>1 DEF Dealt
<1>4. /\ session'[s].status = "accepted"
      /\ \A z \in Sessions : /\ session'[z].engine = session[z].engine
                             /\ z # s => session'[z] = session[z]
  BY <1>1, <1>2
<1>5. handler'[h].pc = "closing" /\ handler'[h].target = s
  BY <1>1, <1>2 DEF RequestType
<1>6. Dealt' /\ Fresh'
  BY <1>1, <1>2, <1>3, <1>4, <1>5 DEF Dealt, Fresh
<1>7. NoRise
  <2>1. \A z \in Sessions : session[z].engine.ask \in Int
    BY <1>1 DEF EngineState
  <2>2. \A z \in Sessions : session'[z].engine.ask = session[z].engine.ask
    BY <1>4, Zenon
  <2>. QED
    BY <2>1, <2>2 DEF NoRise
<1>. QED
  BY <1>6, <1>7

\* The deal of an accepted session is its first.
LEMMA SerialCloseDeal ==
  ASSUME OneAtATime, SerialInv, NEW h \in Handlers, CloseDeal(h)
  PROVE  Dealt' /\ Fresh' /\ NoRise
<1>. DEFINE s == handler[h].target
            a == handler[h].action.amount
<1>1. /\ s \in Sessions /\ IInv /\ Dealt /\ DOMAIN deals = Sessions
      /\ session[s].status = "accepted" /\ deals[s] = <<>>
  BY DEF CloseDeal, At, SerialInv, Fresh, IInv, TypeOK, Request
<1>2. deals' = [deals EXCEPT ![s] = Append(deals[s], a)] /\ session' = session
  BY DEF CloseDeal
<1>. HIDE DEF a
<1>3. Append(deals[s], a) = <<a>> /\ Len(<<a>>) = 1
  BY <1>1
<1>4. Dealt'
  BY <1>1, <1>2, <1>3 DEF Dealt
<1>. QED
  BY <1>1, <1>2, <1>4, FinishFresh, NoRiseUnchanged DEF CloseDeal

\* The other steps: a new session, the webhook, the clock.
LEMMA SerialRest ==
  ASSUME OneAtATime, SerialInv,
         \/ \E h \in Handlers : InsertSession(h)
         \/ \E s \in Sessions : Settle(s)
         \/ Tick \/ UNCHANGED vars
  PROVE  Dealt' /\ Fresh' /\ NoRise
<1>1. /\ IInv /\ Dealt /\ Fresh /\ handler \in [Handlers -> Request]
      /\ session \in [Sessions -> [status : Statuses, engine : EngineState]]
      /\ \A z \in Sessions : session[z].engine.ask \in Int
      /\ \A z \in Sessions : paid[z] \in Nat /\ deals[z] \in Seq(Nat)
  BY DEF SerialInv, IInv, TypeOK, EngineState
<1>2. ASSUME NEW h \in Handlers, InsertSession(h)
      PROVE  Dealt' /\ Fresh' /\ NoRise
  <2>1. PICK s \in Sessions :
          /\ session[s].status = "none"
          /\ session' = [session EXCEPT ![s] = [status |-> "open", engine |-> handler[h].seen]]
    BY <1>2 DEF InsertSession
  <2>2. deals' = deals /\ Finish(h)
    BY <1>2 DEF InsertSession
  <2>3. deals[s] = <<>>
    BY <1>1, <2>1 DEF Dealt
  <2>4. Dealt' /\ NoRise
    BY <1>1, <2>1, <2>2, <2>3 DEF Dealt, NoRise
  <2>. QED
    BY <1>1, <2>2, <2>4, FinishFresh
<1>3. ASSUME NEW s \in Sessions, Settle(s)
      PROVE  Dealt' /\ Fresh' /\ NoRise
  <2>1. session' = [session EXCEPT ![s].status = "settled"] /\ UNCHANGED <<deals, handler>>
    BY <1>3 DEF Settle
  <2>2. deals[s] # <<>>
    BY <1>1, <1>3 DEF Settle
  <2>3. /\ session'[s].status = "settled"
        /\ \A z \in Sessions : /\ session'[z].engine = session[z].engine
                               /\ z # s => session'[z] = session[z]
    BY <1>1, <2>1
  <2>4. Dealt' /\ NoRise
    BY <1>1, <2>1, <2>3 DEF Dealt, NoRise
  <2>5. session[s].status \notin {"none", "open"}
    BY <1>1, <2>2 DEF Dealt
  <2>6. \A h \in Handlers :
          handler[h].pc \notin {"idle", "opening"} => handler[h].target \in Sessions
    BY <1>1 DEF Request
  <2>7. Fresh'
    BY <1>1, <2>1, <2>2, <2>3, <2>5, <2>6 DEF Fresh
  <2>. QED
    BY <2>4, <2>7
<1>4. CASE Tick \/ UNCHANGED vars
  <2>1. UNCHANGED <<session, deals, handler>>
    BY <1>4 DEF Tick, vars, store
  <2>. QED
    BY <1>1, <2>1, NoRiseUnchanged DEF Dealt, Fresh
<1>. QED
  BY <1>2, <1>3, <1>4

LEMMA SerialStep ==
  ASSUME OneAtATime, SerialInv, [Next]_vars
  PROVE  SerialInv' /\ NoRise
<1>1. IInv'
  BY NextInv DEF SerialInv
<1>2. ASSUME NEW h \in Handlers, HandlerStep(h)
      PROVE  Dealt' /\ Fresh' /\ NoRise
  BY <1>2, SerialRequestStep, SerialWriteTurn, SerialWriteAccept, SerialCloseDeal,
     SerialRest DEF HandlerStep
<1>3. Dealt' /\ Fresh' /\ NoRise
  BY <1>2, SerialRequestStep, SerialRest DEF Next
<1>. QED
  BY <1>1, <1>3 DEF SerialInv

LEMMA SerialInvariance ==
  ASSUME OneAtATime
  PROVE  Spec => []SerialInv /\ [][NoRise]_vars
<1>1. Init => SerialInv
  <2>1. Init => Dealt /\ Fresh
    BY DEF Init, Idle, Dealt, Fresh
  <2>. QED
    BY <2>1, InitInv DEF SerialInv
<1>2. SerialInv /\ [Next]_vars => SerialInv' /\ NoRise
  BY SerialStep
<1>. QED
  BY <1>1, <1>2, PTL DEF Spec

\* Answered one at a time, the requests of any number of sessions close one deal
\* a session at most, whatever turns, yeses at the cap and accepts follow one
\* another or die.
THEOREM SerialOneDeal ==
  ASSUME OneAtATime
  PROVE  Spec => []OneDealEach
<1>1. SerialInv => OneDealEach
  BY DEF SerialInv, Dealt, OneDealEach
<1>. QED
  BY <1>1, SerialInvariance, PTL

\* I2 of README.md:21: answered one at a time, the requests of a session never
\* raise its stored ask.
THEOREM SerialAskMonotone ==
  ASSUME OneAtATime
  PROVE  Spec => AskNeverRises
<1>1. NoRise => \A s \in Sessions :
                  session[s].status # "none" =>
                    session'[s].engine.ask <= session[s].engine.ask
  BY DEF NoRise
<1>. QED
  BY <1>1, SerialInvariance, PTL DEF AskNeverRises

-----------------------------------------------------------------------------
(* What the recorded turns sum up to *)

\* The naturals of a set that is not empty have a least one.
LEMMA LeastNat ==
  ASSUME NEW S \in SUBSET Nat, S # {}
  PROVE  \E m \in S : \A t \in S : m <= t
<1>. DEFINE R == {ss \in Nat \X Nat : ss[1] < ss[2]}
<1>1. IsWellFoundedOn(R, Nat)
  BY NatLessThanWellFounded DEF OpToRel
<1>2. \E x \in S : \A y \in S : ~(<<y, x>> \in R)
  <2>. HIDE DEF R
  <2>. QED
    BY <1>1, WFMin
<1>3. PICK x \in S : \A y \in S : ~(<<y, x>> \in R)
  BY <1>2
<1>4. ASSUME NEW t \in S
      PROVE  x <= t
  <2>1. x \in Nat /\ t \in Nat
    OBVIOUS
  <2>2. <<t, x>> \in Nat \X Nat /\ ~(<<t, x>>[1] < <<t, x>>[2])
    BY <1>3, <2>1
  <2>. QED
    BY <2>1, <2>2
<1>. QED
  BY <1>4

\* The sums SaidSince defines by recursion over the ticks that are left.
Sums(f, g, from) ==
  f = [t \in from..MaxNow + 1 |-> IF t > MaxNow THEN 0 ELSE g[t] + f[t + 1]]

\* A sum from a tick extends to one from the tick before.
LEMMA SumsExtend ==
  ASSUME NEW g, NEW from \in 0..MaxNow, NEW f, Sums(f, g, from + 1)
  PROVE  \E e : Sums(e, g, from)
<1>. USE PolicyIsNatural
<1>. DEFINE e == [t \in from..MaxNow + 1 |-> IF t = from THEN g[from] + f[from + 1] ELSE f[t]]
<1>1. ASSUME NEW t \in from..MaxNow + 1
      PROVE  e[t] = IF t > MaxNow THEN 0 ELSE g[t] + e[t + 1]
  <2>1. CASE t = from
    <3>1. from + 1 \in from..MaxNow + 1 /\ from + 1 # from /\ ~(from > MaxNow)
      OBVIOUS
    <3>2. e[from + 1] = f[from + 1]
      BY <3>1
    <3>. QED
      BY <2>1, <3>1, <3>2
  <2>2. CASE t # from
    <3>1. t \in from + 1..MaxNow + 1
      BY <2>2
    <3>2. f[t] = IF t > MaxNow THEN 0 ELSE g[t] + f[t + 1]
      BY <3>1 DEF Sums
    <3>3. t <= MaxNow => t + 1 \in from..MaxNow + 1 /\ t + 1 # from
      BY <3>1
    <3>4. t <= MaxNow => e[t + 1] = f[t + 1]
      BY <3>3
    <3>. QED
      BY <2>2, <3>2, <3>4
  <2>. QED
    BY <2>1, <2>2
<1>2. e = [t \in from..MaxNow + 1 |-> e[t]]
  OBVIOUS
<1>3. [t \in from..MaxNow + 1 |-> e[t]]
        = [t \in from..MaxNow + 1 |-> IF t > MaxNow THEN 0 ELSE g[t] + e[t + 1]]
  BY <1>1
<1>. HIDE DEF e
<1>4. Sums(e, g, from)
  BY <1>2, <1>3 DEF Sums
<1>. QED
  BY <1>4

\* So there is one from every tick.
LEMMA SumsExist ==
  ASSUME NEW g, NEW from \in 0..MaxNow + 1
  PROVE  \E f : Sums(f, g, from)
<1>. USE PolicyIsNatural
<1>. DEFINE None == {k \in 0..MaxNow + 1 : ~\E f : Sums(f, g, MaxNow + 1 - k)}
<1>1. SUFFICES None = {}
  <2>1. MaxNow + 1 - from \in 0..MaxNow + 1
        /\ MaxNow + 1 - (MaxNow + 1 - from) = from
    OBVIOUS
  <2>. QED
    BY <2>1
<1>2. SUFFICES ASSUME None # {} PROVE FALSE
  OBVIOUS
<1>3. None \in SUBSET Nat
  OBVIOUS
<1>4. PICK k \in None : \A j \in None : k <= j
  <2>. HIDE DEF None
  <2>. QED
    BY <1>2, <1>3, LeastNat
<1>5. k \in 0..MaxNow + 1 /\ ~\E f : Sums(f, g, MaxNow + 1 - k)
  OBVIOUS
<1>6. CASE k = 0
  <2>. DEFINE f == [t \in MaxNow + 1..MaxNow + 1 |-> 0]
  <2>1. \A t \in MaxNow + 1..MaxNow + 1 : t > MaxNow
    OBVIOUS
  <2>2. f = [t \in MaxNow + 1..MaxNow + 1 |-> IF t > MaxNow THEN 0 ELSE g[t] + f[t + 1]]
    BY <2>1
  <2>3. Sums(f, g, MaxNow + 1)
    BY <2>2 DEF Sums
  <2>4. MaxNow + 1 - k = MaxNow + 1
    BY <1>6
  <2>. HIDE DEF f
  <2>. QED
    BY <1>5, <2>3, <2>4
<1>7. CASE k # 0
  <2>1. k - 1 \in 0..MaxNow + 1 /\ ~(k <= k - 1)
    BY <1>5, <1>7
  <2>2. k - 1 \notin None
    <3>. HIDE DEF None
    <3>. QED
      BY <1>4, <2>1
  <2>3. PICK f : Sums(f, g, MaxNow + 1 - (k - 1))
    BY <2>1, <2>2
  <2>4. MaxNow + 1 - k \in 0..MaxNow /\ MaxNow + 1 - (k - 1) = (MaxNow + 1 - k) + 1
    BY <1>5, <1>7
  <2>5. Sums(f, g, (MaxNow + 1 - k) + 1)
    BY <2>3, <2>4
  <2>. QED
    BY <1>5, <2>4, <2>5, SumsExtend
<1>. QED
  BY <1>6, <1>7

\* A sum of counts is a count ...
LEMMA SumsCount ==
  ASSUME NEW g \in [0..MaxNow -> Nat], NEW from \in 0..MaxNow + 1, NEW f, Sums(f, g, from),
         NEW n \in from..MaxNow + 1
  PROVE  f[n] \in Nat
<1>. USE PolicyIsNatural
<1>. DEFINE Bad == {k \in 0..MaxNow + 1 - from : f[MaxNow + 1 - k] \notin Nat}
<1>1. SUFFICES Bad = {}
  <2>1. MaxNow + 1 - n \in 0..MaxNow + 1 - from /\ MaxNow + 1 - (MaxNow + 1 - n) = n
    OBVIOUS
  <2>. QED
    BY <2>1
<1>2. SUFFICES ASSUME Bad # {} PROVE FALSE
  OBVIOUS
<1>3. Bad \in SUBSET Nat
  OBVIOUS
<1>4. PICK k \in Bad : \A j \in Bad : k <= j
  <2>. HIDE DEF Bad
  <2>. QED
    BY <1>2, <1>3, LeastNat
<1>. DEFINE t == MaxNow + 1 - k
<1>5. k \in 0..MaxNow + 1 - from /\ f[t] \notin Nat
  OBVIOUS
<1>6. t \in from..MaxNow + 1
  BY <1>5
<1>7. f[t] = IF t > MaxNow THEN 0 ELSE g[t] + f[t + 1]
  <2>. HIDE DEF t
  <2>. QED
    BY <1>6 DEF Sums
<1>8. t <= MaxNow
  <2>. HIDE DEF t
  <2>. QED
    BY <1>5, <1>6, <1>7
<1>9. k - 1 \in 0..MaxNow + 1 - from /\ ~(k <= k - 1) /\ MaxNow + 1 - (k - 1) = t + 1
  BY <1>5, <1>8
<1>10. k - 1 \notin Bad
  <2>. HIDE DEF Bad
  <2>. QED
    BY <1>4, <1>9
<1>11. f[t + 1] \in Nat
  BY <1>9, <1>10
<1>12. g[t] \in Nat
  BY <1>6, <1>8
<1>. HIDE DEF t
<1>. QED
  BY <1>5, <1>7, <1>8, <1>11, <1>12

\* ... and no less than the count of any tick it takes in.
LEMMA SumsBound ==
  ASSUME NEW g \in [0..MaxNow -> Nat], NEW from \in 0..MaxNow, NEW f, Sums(f, g, from),
         NEW n \in from..MaxNow
  PROVE  f[from] >= g[n]
<1>. USE PolicyIsNatural
<1>. DEFINE Bad == {k \in 0..n - from : ~(f[n - k] >= g[n])}
<1>1. SUFFICES Bad = {}
  <2>1. n - from \in 0..n - from /\ n - (n - from) = from
    OBVIOUS
  <2>. QED
    BY <2>1
<1>2. SUFFICES ASSUME Bad # {} PROVE FALSE
  OBVIOUS
<1>3. Bad \in SUBSET Nat
  OBVIOUS
<1>4. PICK k \in Bad : \A j \in Bad : k <= j
  <2>. HIDE DEF Bad
  <2>. QED
    BY <1>2, <1>3, LeastNat
<1>. DEFINE t == n - k
<1>5. k \in 0..n - from /\ ~(f[t] >= g[n])
  OBVIOUS
<1>6. t \in from..n /\ t \in from..MaxNow + 1 /\ ~(t > MaxNow)
      /\ t \in 0..MaxNow /\ t + 1 \in from..MaxNow + 1
  BY <1>5
<1>7. f[t] = g[t] + f[t + 1]
  <2>. HIDE DEF t
  <2>. QED
    BY <1>6 DEF Sums
<1>8. f[t + 1] \in Nat /\ g[t] \in Nat /\ g[n] \in Nat
  <2>. HIDE DEF t
  <2>1. f[t + 1] \in Nat
    BY <1>6, SumsCount
  <2>. QED
    BY <1>6, <2>1
<1>9. t # n
  <2>. HIDE DEF t
  <2>. QED
    BY <1>5, <1>7, <1>8
<1>10. k - 1 \in 0..n - from /\ ~(k <= k - 1) /\ n - (k - 1) = t + 1
  BY <1>5, <1>9
<1>11. k - 1 \notin Bad
  <2>. HIDE DEF Bad
  <2>. QED
    BY <1>4, <1>10
<1>12. f[t + 1] >= g[n]
  BY <1>10, <1>11
<1>. HIDE DEF t
<1>. QED
  BY <1>5, <1>7, <1>8, <1>12

\* The user turns since a tick are no fewer than those of any tick from it on
\* (messageRateExceeded).
LEMMA SaidSinceBound ==
  ASSUME said \in [Sessions -> [0..MaxNow -> Nat]], NEW s \in Sessions,
         NEW from \in 0..MaxNow, NEW n \in from..MaxNow
  PROVE  SaidSince(s, from) \in Nat /\ SaidSince(s, from) >= said[s][n]
<1>. DEFINE sum == CHOOSE f : Sums(f, said[s], from)
<1>1. from \in 0..MaxNow + 1 /\ from \in from..MaxNow + 1
  BY PolicyIsNatural
<1>2. Sums(sum, said[s], from)
  BY <1>1, SumsExist
<1>3. SaidSince(s, from) = sum[from]
  BY DEF SaidSince, Sums
<1>4. said[s] \in [0..MaxNow -> Nat]
  OBVIOUS
<1>. HIDE DEF sum
<1>. QED
  BY <1>1, <1>2, <1>3, <1>4, SumsCount, SumsBound

-----------------------------------------------------------------------------
(* The language model's turns *)

\* The requests that wait for the language model on a session.
Thinking(s) == {h \in Handlers : At(h, "thinking") /\ handler[h].target = s}

\* What a session's turns of this tick are accounted for by: the recorded ones,
\* those a request still has to record, and those whose request died.
Accounted(s) == said[s][now] + Cardinality(Thinking(s)) + faults

\* No request was received after now, and no turn is unaccounted for. Turns of
\* earlier ticks, recorded late or never, were bounded when their tick ended.
SpendInv ==
  /\ \A h \in Handlers : handler[h].at <= now
  /\ \A s \in Sessions : calls[s][now] <= Accounted(s)
  /\ \A s \in Sessions : \A t \in now + 1..MaxNow : calls[s][t] = 0
  /\ SpendBounded

FiniteHandlers == IsFiniteSet(Handlers)

\* What is counted is a number.
LEMMA CountsAreNat ==
  ASSUME FiniteHandlers, IInv, NEW s \in Sessions
  PROVE  /\ IsFiniteSet(Thinking(s)) /\ Cardinality(Thinking(s)) \in Nat
         /\ now \in 0..MaxNow /\ faults \in Nat
         /\ \A t \in 0..MaxNow : said[s][t] \in Nat /\ calls[s][t] \in Nat
<1>1. Thinking(s) \subseteq Handlers
  BY DEF Thinking
<1>2. IsFiniteSet(Thinking(s)) /\ Cardinality(Thinking(s)) \in Nat
  BY <1>1, FS_Subset, FS_CardinalityType DEF FiniteHandlers
<1>3. now \in 0..MaxNow /\ faults \in Nat
  BY PolicyIsNatural DEF IInv, TypeOK
<1>4. said[s] \in [0..MaxNow -> Nat] /\ calls[s] \in [0..MaxNow -> Nat]
  BY DEF IInv, TypeOK
<1>. QED
  BY <1>2, <1>3, <1>4

\* A step that calls no model and accounts for no less.
LEMMA SpendKept ==
  ASSUME FiniteHandlers, IInv, SpendInv, UNCHANGED <<calls, now>>,
         faults \in Nat, faults' \in Nat, faults' >= faults,
         \A h \in Handlers : handler'[h].at <= now,
         \A s \in Sessions : calls[s][now] <= Accounted(s)'
  PROVE  SpendInv'
<1>1. ASSUME NEW s \in Sessions, NEW t \in 0..MaxNow
      PROVE  calls'[s][t] <= PerMin + Cardinality(Handlers) - 1 + faults'
  <2>1. calls'[s][t] = calls[s][t] /\ calls[s][t] \in Nat
    BY CountsAreNat
  <2>2. calls[s][t] <= PerMin + Cardinality(Handlers) - 1 + faults
    BY DEF SpendInv, SpendBounded
  <2>3. PerMin \in Nat /\ Cardinality(Handlers) \in Nat
    BY PolicyIsNatural, FS_CardinalityType DEF FiniteHandlers
  <2>. QED
    BY <2>1, <2>2, <2>3
<1>. QED
  BY <1>1 DEF SpendInv, SpendBounded

\* A request that goes on without the model, or ends.
LEMMA OneLeaves ==
  ASSUME FiniteHandlers, IInv, NEW h \in Handlers, NEW r,
         handler' = [handler EXCEPT ![h] = r], r.pc # "thinking", NEW s \in Sessions
  PROVE  /\ Cardinality(Thinking(s)') \in Nat
         /\ Cardinality(Thinking(s)') >= Cardinality(Thinking(s)) - 1
         /\ h \notin Thinking(s) => Cardinality(Thinking(s)') = Cardinality(Thinking(s))
<1>1. Thinking(s)' = Thinking(s) \ {h}
  BY DEF Thinking, At, IInv, TypeOK
<1>2. IsFiniteSet(Thinking(s)) /\ Cardinality(Thinking(s)) \in Nat
  BY CountsAreNat
<1>3. CASE h \in Thinking(s)
  <2>1. /\ IsFiniteSet(Thinking(s) \ {h})
        /\ Cardinality(Thinking(s) \ {h}) = Cardinality(Thinking(s)) - 1
    BY <1>2, <1>3, FS_RemoveElement
  <2>2. Cardinality(Thinking(s) \ {h}) \in Nat
    BY <2>1, FS_CardinalityType
  <2>. QED
    BY <1>1, <1>2, <1>3, <2>1, <2>2
<1>4. CASE h \notin Thinking(s)
  <2>1. Thinking(s)' = Thinking(s)
    BY <1>1, <1>4
  <2>. QED
    BY <1>2, <1>4, <2>1
<1>. QED
  BY <1>3, <1>4

\* A recorded turn counts in its session and tick.
LEMMA RecordCounts ==
  ASSUME FiniteHandlers, IInv, NEW h \in Handlers, RecordUserTurn(h), NEW s \in Sessions
  PROVE  said'[s][now] = IF handler[h].target = s THEN said[s][now] + 1 ELSE said[s][now]
<1>. DEFINE z == handler[h].target
<1>1. said' = [said EXCEPT ![z][now] = said[z][now] + 1]
  BY Zenon DEF RecordUserTurn
<1>2. said \in [Sessions -> [0..MaxNow -> Nat]] /\ now \in 0..MaxNow
  BY DEF IInv, TypeOK
<1>. HIDE DEF z
<1>. DEFINE row == [said[z] EXCEPT ![now] = said[z][now] + 1]
<1>3. said' = [said EXCEPT ![z] = row]
  BY <1>1, Zenon
<1>4. CASE z = s
  <2>1. said'[s] = row
    BY <1>2, <1>3, <1>4, Zenon
  <2>2. said[z] \in [0..MaxNow -> Nat]
    BY <1>2, <1>4
  <2>3. row[now] = said[z][now] + 1
    BY <1>2, <2>2, Zenon
  <2>. QED
    BY <1>4, <2>1, <2>3, Zenon DEF z
<1>5. CASE z # s
  <2>1. said'[s] = said[s]
    BY <1>2, <1>3, <1>5, Zenon
  <2>. QED
    BY <1>5, <2>1, Zenon DEF z
<1>. QED
  BY <1>4, <1>5

\* A request that does not wait for the model begins, goes on or ends.
LEMMA SpendMove ==
  ASSUME FiniteHandlers, IInv, SpendInv, NEW h \in Handlers, NEW r, ~At(h, "thinking"),
         handler' = [handler EXCEPT ![h] = r], r.pc # "thinking", r.at \in Nat, r.at <= now,
         said' = said \/ RecordUserTurn(h), UNCHANGED <<calls, now, faults>>
  PROVE  SpendInv'
<1>1. \A z \in Handlers : handler'[z].at <= now
  BY DEF IInv, TypeOK, SpendInv
<1>2. ASSUME NEW s \in Sessions
      PROVE  calls[s][now] <= Accounted(s)'
  <2>1. h \notin Thinking(s)
    BY DEF Thinking
  <2>2. Cardinality(Thinking(s)') = Cardinality(Thinking(s))
    BY <2>1, OneLeaves
  <2>3. said[s][now] \in Nat /\ faults \in Nat /\ calls[s][now] \in Nat
        /\ Cardinality(Thinking(s)) \in Nat
    BY CountsAreNat
  <2>4. said'[s][now] \in {said[s][now], said[s][now] + 1}
    BY RecordCounts
  <2>5. calls[s][now] <= said[s][now] + Cardinality(Thinking(s)) + faults
    BY DEF SpendInv, Accounted
  <2>6. Accounted(s)' = said'[s][now] + Cardinality(Thinking(s)') + faults
    BY DEF Accounted
  <2>. QED
    BY <2>2, <2>3, <2>4, <2>5, <2>6
<1>3. faults \in Nat
  BY PolicyIsNatural DEF IInv, TypeOK
<1>. QED
  BY <1>1, <1>2, <1>3, SpendKept

\* The model answers: its turn is recorded.
LEMMA SpendRecord ==
  ASSUME FiniteHandlers, IInv, SpendInv, NEW h \in Handlers, RecordTurn(h)
  PROVE  SpendInv'
<1>1. PICK action : handler' = [handler EXCEPT ![h].pc = "decided", ![h].action = action]
  BY DEF RecordTurn
<1>. DEFINE r == [handler[h] EXCEPT !.pc = "decided", !.action = action]
<1>2. handler' = [handler EXCEPT ![h] = r]
  BY <1>1 DEF IInv, TypeOK
<1>3. r.pc # "thinking" /\ r.at = handler[h].at
  BY DEF IInv, Request, RequestType
<1>. HIDE DEF r
<1>4. \A z \in Handlers : handler'[z].at <= now
  BY <1>2, <1>3 DEF IInv, TypeOK, SpendInv
<1>5. ASSUME NEW s \in Sessions
      PROVE  calls[s][now] <= Accounted(s)'
  <2>1. /\ Cardinality(Thinking(s)') \in Nat
        /\ Cardinality(Thinking(s)') >= Cardinality(Thinking(s)) - 1
        /\ h \notin Thinking(s) => Cardinality(Thinking(s)') = Cardinality(Thinking(s))
    BY <1>2, <1>3, OneLeaves
  <2>2. said[s][now] \in Nat /\ faults \in Nat /\ calls[s][now] \in Nat
        /\ Cardinality(Thinking(s)) \in Nat
    BY CountsAreNat
  <2>3. said'[s][now] = IF handler[h].target = s THEN said[s][now] + 1 ELSE said[s][now]
    BY RecordCounts DEF RecordTurn
  <2>4. handler[h].target # s => h \notin Thinking(s)
    BY DEF Thinking
  <2>5. calls[s][now] <= said[s][now] + Cardinality(Thinking(s)) + faults
    BY DEF SpendInv, Accounted
  <2>6. Accounted(s)' = said'[s][now] + Cardinality(Thinking(s)') + faults
    BY DEF Accounted, RecordTurn
  <2>. QED
    BY <2>1, <2>2, <2>3, <2>4, <2>5, <2>6
<1>6. faults \in Nat
  BY PolicyIsNatural DEF IInv, TypeOK
<1>7. UNCHANGED <<calls, now, faults>>
  BY DEF RecordTurn
<1>. QED
  BY <1>4, <1>5, <1>6, <1>7, SpendKept

\* A request dies, at worst with its turn unrecorded.
LEMMA SpendDies ==
  ASSUME FiniteHandlers, IInv, SpendInv, NEW h \in Handlers, HandlerDies(h)
  PROVE  SpendInv'
<1>1. handler' = [handler EXCEPT ![h] = Idle] /\ Idle.pc # "thinking" /\ Idle.at = 0
  BY DEF HandlerDies, Finish, Idle
<1>2. now \in Nat /\ faults \in Nat
  BY PolicyIsNatural DEF IInv, TypeOK
<1>3. \A z \in Handlers : handler'[z].at <= now
  BY <1>1, <1>2 DEF IInv, TypeOK, SpendInv
<1>4. ASSUME NEW s \in Sessions
      PROVE  calls[s][now] <= Accounted(s)'
  <2>1. /\ Cardinality(Thinking(s)') \in Nat
        /\ Cardinality(Thinking(s)') >= Cardinality(Thinking(s)) - 1
    BY <1>1, OneLeaves
  <2>2. said[s][now] \in Nat /\ faults \in Nat /\ calls[s][now] \in Nat
        /\ Cardinality(Thinking(s)) \in Nat
    BY CountsAreNat
  <2>3. calls[s][now] <= said[s][now] + Cardinality(Thinking(s)) + faults
    BY DEF SpendInv, Accounted
  <2>4. Accounted(s)' = said[s][now] + Cardinality(Thinking(s)') + (faults + 1)
    BY DEF Accounted, HandlerDies, store
  <2>. QED
    BY <2>1, <2>2, <2>3, <2>4
<1>5. UNCHANGED <<calls, now>> /\ faults' = faults + 1
  BY DEF HandlerDies
<1>. QED
  BY <1>2, <1>3, <1>4, <1>5, SpendKept

\* The guard lets a turn through only while the recorded ones are fewer than
\* PerMin; all other requests may be waiting for the model.
LEMMA SpendCalls ==
  ASSUME FiniteHandlers, IInv, SpendInv, NEW h \in Handlers, ListTurns(h),
         handler' = [handler EXCEPT ![h].pc = "thinking"],
         ~RateExceeded(handler[h].target, handler[h].at),
         calls' = [calls EXCEPT ![handler[h].target][now] = @ + 1]
  PROVE  SpendInv'
<1>0. PICK z : z = handler[h].target
  OBVIOUS
<1>1. /\ z \in Sessions /\ now \in 0..MaxNow /\ now \in Nat
      /\ handler[h].at \in 0..now /\ UNCHANGED <<said, now, faults>>
  <2>1. At(h, "posted") /\ UNCHANGED <<said, now, faults>>
    BY DEF ListTurns, store
  <2>2. z \in Sessions /\ handler[h].at \in Nat
    BY <1>0, <2>1 DEF At, IInv, Request, RequestType
  <2>3. now \in 0..MaxNow /\ now \in Nat
    BY PolicyIsNatural DEF IInv, TypeOK
  <2>. QED
    BY <2>1, <2>2, <2>3 DEF SpendInv
<1>2. \A k \in Handlers : handler'[k].at = handler[k].at
  BY DEF IInv, TypeOK
<1>3. \A s \in Sessions : Thinking(s)' = IF s = z THEN Thinking(s) \cup {h} ELSE Thinking(s)
  BY <1>0 DEF Thinking, At, IInv, TypeOK
<1>4. h \notin Thinking(z)
  BY DEF Thinking, At, ListTurns
<1>5. /\ IsFiniteSet(Thinking(z)) /\ Cardinality(Thinking(z)) \in Nat /\ faults \in Nat
      /\ \A t \in 0..MaxNow : said[z][t] \in Nat /\ calls[z][t] \in Nat
  BY <1>1, CountsAreNat
<1>6. Cardinality(Thinking(z)') = Cardinality(Thinking(z)) + 1
  BY <1>1, <1>3, <1>4, <1>5, FS_AddElement
<1>7. Cardinality(Thinking(z)) <= Cardinality(Handlers) - 1 /\ Cardinality(Handlers) \in Nat
  <2>1. Thinking(z) \subseteq Handlers \ {h}
    BY <1>4 DEF Thinking
  <2>2. /\ IsFiniteSet(Handlers \ {h})
        /\ Cardinality(Handlers \ {h}) = Cardinality(Handlers) - 1
        /\ Cardinality(Handlers) \in Nat
    BY FS_RemoveElement, FS_CardinalityType DEF FiniteHandlers
  <2>. QED
    BY <2>1, <2>2, FS_Subset
<1>8. said[z][now] <= PerMin - 1 /\ PerMin \in Nat
  <2>1. said \in [Sessions -> [0..MaxNow -> Nat]]
    BY DEF IInv, TypeOK
  <2>2. handler[h].at \in 0..MaxNow /\ now \in handler[h].at..MaxNow
    <3>. DEFINE t == handler[h].at
    <3>1. t \in 0..now /\ now \in 0..MaxNow
      BY <1>1
    <3>. HIDE DEF t
    <3>2. t \in 0..MaxNow /\ now \in t..MaxNow
      BY <3>1, PolicyIsNatural
    <3>. QED
      BY <3>2 DEF t
  <2>3. /\ SaidSince(z, handler[h].at) \in Nat
        /\ SaidSince(z, handler[h].at) >= said[z][now]
    <3>. QED
      BY <1>1, <2>1, <2>2, SaidSinceBound
  <2>4. ~(SaidSince(z, handler[h].at) >= PerMin)
    BY <1>0 DEF RateExceeded
  <2>. QED
    BY <1>1, <1>5, <2>3, <2>4, PolicyIsNatural
<1>9. \A s \in Sessions, t \in 0..MaxNow :
        calls'[s][t] = IF s = z /\ t = now THEN calls[s][t] + 1 ELSE calls[s][t]
  <2>. DEFINE row == [calls[z] EXCEPT ![now] = calls[z][now] + 1]
  <2>1. calls' = [calls EXCEPT ![z] = row]
    BY <1>0, Zenon
  <2>2. calls \in [Sessions -> [0..MaxNow -> Nat]]
    BY DEF IInv, TypeOK
  <2>3. \A t \in 0..MaxNow : row[t] = IF t = now THEN calls[z][t] + 1 ELSE calls[z][t]
    <3>1. calls[z] \in [0..MaxNow -> Nat]
      BY <1>1, <2>2
    <3>. QED
      BY <3>1, Zenon
  <2>4. \A s \in Sessions : calls'[s] = IF s = z THEN row ELSE calls[s]
    <3>. HIDE DEF row
    <3>. QED
      BY <1>1, <2>1, <2>2, Zenon
  <2>. HIDE DEF row
  <2>. SUFFICES ASSUME NEW s \in Sessions, NEW t \in 0..MaxNow
                PROVE  calls'[s][t] = IF s = z /\ t = now THEN calls[s][t] + 1 ELSE calls[s][t]
    OBVIOUS
  <2>5. CASE s = z
    <3>1. calls'[s] = row
      BY <2>4, <2>5
    <3>. QED
      BY <2>3, <2>5, <3>1
  <2>6. CASE s # z
    <3>1. calls'[s] = calls[s]
      BY <2>4, <2>6
    <3>. QED
      BY <2>6, <3>1
  <2>. QED
    BY <2>5, <2>6
<1>10. calls[z][now] <= said[z][now] + Cardinality(Thinking(z)) + faults
  BY <1>1 DEF SpendInv, Accounted
<1>11. \A s \in Sessions : calls'[s][now] <= Accounted(s)'
  <2>. SUFFICES ASSUME NEW s \in Sessions PROVE calls'[s][now] <= Accounted(s)'
    OBVIOUS
  <2>1. Accounted(s)' = said[s][now] + Cardinality(Thinking(s)') + faults
    BY <1>1 DEF Accounted
  <2>2. CASE s = z
    <3>1. calls'[z][now] = calls[z][now] + 1
      BY <1>1, <1>9
    <3>2. Accounted(z)' = said[z][now] + (Cardinality(Thinking(z)) + 1) + faults
      BY <1>6, <2>1, <2>2
    <3>3. said[z][now] \in Nat /\ calls[z][now] \in Nat
      BY <1>1, <1>5
    <3>4. calls'[z][now] <= Accounted(z)'
      BY <1>5, <1>10, <3>1, <3>2, <3>3
    <3>. QED
      BY <2>2, <3>4
  <2>3. CASE s # z
    <3>1. calls'[s][now] = calls[s][now] /\ Thinking(s)' = Thinking(s)
      BY <1>1, <1>3, <1>9, <2>3
    <3>. QED
      BY <2>1, <3>1 DEF SpendInv, Accounted
  <2>. QED
    BY <2>2, <2>3
<1>12. calls'[z][now] <= PerMin + Cardinality(Handlers) - 1 + faults
  <2>1. calls'[z][now] = calls[z][now] + 1
    BY <1>1, <1>9
  <2>. QED
    BY <1>1, <1>5, <1>7, <1>8, <1>10, <2>1
<1>13. SpendBounded'
  <2>. SUFFICES ASSUME NEW s \in Sessions, NEW t \in 0..MaxNow
                PROVE  calls'[s][t] <= PerMin + Cardinality(Handlers) - 1 + faults
    BY <1>1 DEF SpendBounded
  <2>1. CASE s = z /\ t = now
    BY <1>12, <2>1
  <2>2. CASE ~(s = z /\ t = now)
    BY <1>9, <2>2 DEF SpendInv, SpendBounded
  <2>. QED
    BY <2>1, <2>2
<1>14. \A s \in Sessions : \A t \in now + 1..MaxNow : calls'[s][t] = 0
  <2>. SUFFICES ASSUME NEW s \in Sessions, NEW t \in now + 1..MaxNow PROVE calls'[s][t] = 0
    OBVIOUS
  <2>1. t \in 0..MaxNow /\ t # now
    BY <1>1
  <2>. QED
    BY <1>9, <2>1 DEF SpendInv
<1>. QED
  BY <1>1, <1>2, <1>11, <1>13, <1>14 DEF SpendInv

\* The next tick begins with no turn.
LEMMA SpendTick ==
  ASSUME FiniteHandlers, IInv, SpendInv, Tick
  PROVE  SpendInv'
<1>1. /\ now \in 0..MaxNow /\ now \in Nat /\ now' = now + 1 /\ now' \in 0..MaxNow
      /\ UNCHANGED <<said, handler, calls, faults>>
  BY PolicyIsNatural DEF Tick, store, IInv, TypeOK
<1>2. \A h \in Handlers : handler'[h].at <= now'
  <2>. SUFFICES ASSUME NEW h \in Handlers PROVE handler[h].at <= now + 1
    BY <1>1
  <2>1. handler[h].at \in Nat
    BY DEF IInv, Request, RequestType
  <2>. QED
    BY <1>1, <2>1 DEF SpendInv
<1>3. ASSUME NEW s \in Sessions
      PROVE  calls'[s][now'] <= Accounted(s)'
  <2>1. calls'[s][now'] = 0
    BY <1>1 DEF SpendInv
  <2>2. /\ Cardinality(Thinking(s)) \in Nat /\ faults \in Nat
        /\ \A t \in 0..MaxNow : said[s][t] \in Nat
    BY CountsAreNat
  <2>3. Thinking(s)' = Thinking(s)
    BY <1>1 DEF Thinking, At
  <2>4. Accounted(s)' = said[s][now'] + Cardinality(Thinking(s)) + faults
    BY <1>1, <2>3 DEF Accounted
  <2>. QED
    BY <1>1, <2>1, <2>2, <2>4
<1>4. \A s \in Sessions : \A t \in now' + 1..MaxNow : calls'[s][t] = 0
  <2>. SUFFICES ASSUME NEW s \in Sessions, NEW t \in now' + 1..MaxNow PROVE calls[s][t] = 0
    BY <1>1
  <2>1. t \in now + 1..MaxNow
    BY <1>1
  <2>. QED
    BY <2>1 DEF SpendInv
<1>5. SpendBounded'
  BY <1>1 DEF SpendInv, SpendBounded
<1>. QED
  BY <1>2, <1>3, <1>4, <1>5 DEF SpendInv

\* Every step keeps the account.
LEMMA SpendStep ==
  ASSUME FiniteHandlers, IInv, SpendInv, [Next]_vars
  PROVE  SpendInv'
<1>. DEFINE GoesOn(h) ==
       /\ ~At(h, "thinking") /\ (said' = said \/ RecordUserTurn(h))
       /\ UNCHANGED <<calls, now, faults>>
       /\ \E r : /\ handler' = [handler EXCEPT ![h] = r]
                 /\ r.pc # "thinking" /\ r.at \in Nat /\ r.at <= now
<1>1. ASSUME NEW h \in Handlers, GoesOn(h)
      PROVE  SpendInv'
  <2>1. PICK r : /\ handler' = [handler EXCEPT ![h] = r]
                 /\ r.pc # "thinking" /\ r.at \in Nat /\ r.at <= now
    BY <1>1
  <2>. QED
    BY <1>1, <2>1, SpendMove
<1>2. now \in Nat /\ handler \in [Handlers -> RequestType]
  BY PolicyIsNatural DEF IInv, TypeOK, RequestType
<1>3. Idle.pc # "thinking" /\ Idle.at \in Nat /\ Idle.at <= now
  BY <1>2 DEF Idle
<1>4. ASSUME NEW h \in Handlers, Finish(h), ~At(h, "thinking"),
             said' = said \/ RecordUserTurn(h), UNCHANGED <<calls, now, faults>>
      PROVE  SpendInv'
  <2>1. GoesOn(h)
    BY <1>3, <1>4 DEF Finish
  <2>. QED
    BY <1>1, <2>1
<1>5. ASSUME NEW h \in Handlers, NEW pc, Goto(h, pc), pc # "thinking", ~At(h, "thinking"),
             said' = said \/ RecordUserTurn(h), UNCHANGED <<calls, now, faults>>
      PROVE  SpendInv'
  <2>. DEFINE r == [handler[h] EXCEPT !.pc = pc]
  <2>1. handler' = [handler EXCEPT ![h] = r]
    BY <1>2, <1>5 DEF Goto
  <2>2. r.pc # "thinking" /\ r.at \in Nat /\ r.at <= now
    BY <1>2, <1>5 DEF RequestType, SpendInv
  <2>3. GoesOn(h)
    <3>. HIDE DEF r
    <3>. QED
      BY <1>5, <2>1, <2>2
  <2>. QED
    BY <1>1, <2>3
<1>6. ASSUME NEW h \in Handlers, NEW pc \in {"opening", "posted", "taking"}, NEW s, NEW seen, NEW m,
             Begin(h, pc, s, seen, m)
      PROVE  SpendInv'
  <2>. DEFINE r == [pc |-> pc, target |-> s, seen |-> seen, at |-> now,
                    says |-> m, action |-> Walk]
  <2>1. r.pc # "thinking" /\ r.at \in Nat /\ r.at <= now
    BY <1>2
  <2>2. handler' = [handler EXCEPT ![h] = r]
    BY <1>6 DEF Begin
  <2>3. /\ ~At(h, "thinking") /\ said' = said
        /\ UNCHANGED <<calls, now, faults>>
    BY <1>6 DEF Begin, At, store
  <2>4. GoesOn(h)
    <3>. HIDE DEF r
    <3>. QED
      BY <2>1, <2>2, <2>3
  <2>. QED
    BY <1>1, <2>4
<1>. HIDE DEF GoesOn
<1>7. ASSUME NEW h \in Handlers, Open(h) \/ HandlerDies(h)
      PROVE  SpendInv'
  BY <1>6, <1>7, SpendDies DEF Open
<1>8. ASSUME NEW h \in Handlers, NEW s \in Sessions,
             Take(h, s) \/ \E m \in Messages : Post(h, s, m)
      PROVE  SpendInv'
  BY <1>6, <1>8 DEF Take, Post
<1>9. ASSUME NEW h \in Handlers, ListTurns(h)
      PROVE  SpendInv'
  <2>1. ~At(h, "thinking") /\ UNCHANGED <<said, now, faults>>
    BY <1>9 DEF ListTurns, At, store
  <2>2. CASE UNCHANGED calls /\ (Goto(h, "throttled") \/ Goto(h, "capped"))
    BY <1>5, <2>1, <2>2
  <2>3. CASE /\ ~RateExceeded(handler[h].target, handler[h].at) /\ Goto(h, "thinking")
             /\ calls' = [calls EXCEPT ![handler[h].target][now] = @ + 1]
    BY <1>9, <2>3, SpendCalls DEF Goto
  <2>. QED
    BY <1>9, <2>2, <2>3, Zenon DEF ListTurns
<1>10. ASSUME NEW h \in Handlers,
              \/ InsertSession(h) \/ Throttle(h) \/ LockIn(h) \/ CloseDeal(h)
              \/ StartCooldown(h)
       PROVE  SpendInv'
  <2>1. ~At(h, "thinking") /\ UNCHANGED <<calls, now, faults>>
    BY <1>10 DEF InsertSession, Throttle, LockIn, CloseDeal, StartCooldown, At
  <2>2. said' = said \/ RecordUserTurn(h)
    BY <1>10 DEF InsertSession, Throttle, LockIn, CloseDeal, StartCooldown
  <2>3. Finish(h) \/ Goto(h, "yes")
    BY <1>10 DEF InsertSession, Throttle, LockIn, CloseDeal, StartCooldown
  <2>. QED
    BY <1>4, <1>5, <2>1, <2>2, <2>3
<1>11. ASSUME NEW h \in Handlers, WriteTurn(h)
       PROVE  SpendInv'
  <2>1. ~At(h, "thinking") /\ UNCHANGED <<said, calls, now, faults>>
    BY <1>11 DEF WriteTurn, At
  <2>2. Finish(h) \/ Goto(h, AfterTurn(handler[h].action))
    BY <1>11 DEF WriteTurn
  <2>3. AfterTurn(handler[h].action) # "thinking"
    BY DEF AfterTurn
  <2>. QED
    BY <1>4, <1>5, <2>1, <2>2, <2>3
<1>12. ASSUME NEW h \in Handlers, TakeAtCap(h) \/ WriteAccept(h)
       PROVE  SpendInv'
  <2>1. ~At(h, "thinking") /\ UNCHANGED <<said, calls, now, faults>>
    BY <1>12 DEF TakeAtCap, WriteAccept, At, store
  <2>2. Finish(h) \/ \E pc \in {"taking", "closing"} : \E seen, action :
                        handler' = [handler EXCEPT ![h] =
                          [handler[h] EXCEPT !.pc = pc, !.seen = seen, !.action = action]]
    <3>1. CASE TakeAtCap(h)
      <4>1. CASE handler' = [handler EXCEPT ![h].pc = "taking",
                                            ![h].seen = session[handler[h].target].engine]
        <5>1. handler' = [handler EXCEPT ![h] =
                [handler[h] EXCEPT !.pc = "taking", !.seen = session[handler[h].target].engine,
                                   !.action = handler[h].action]]
          BY <1>2, <4>1 DEF RequestType
        <5>. QED
          BY <5>1
      <4>. QED
        BY <3>1, <4>1 DEF TakeAtCap
    <3>2. CASE WriteAccept(h)
      <4>1. handler' = [handler EXCEPT ![h].pc = "closing",
                                       ![h].action = Accept(handler[h].seen.ask)]
        BY <3>2 DEF WriteAccept
      <4>2. handler' = [handler EXCEPT ![h] =
              [handler[h] EXCEPT !.pc = "closing", !.seen = handler[h].seen,
                                 !.action = Accept(handler[h].seen.ask)]]
        BY <1>2, <4>1 DEF RequestType
      <4>. QED
        BY <4>2
    <3>. QED
      BY <1>12, <3>1, <3>2
  <2>3. ASSUME NEW pc \in {"taking", "closing"}, NEW seen, NEW action,
               handler' = [handler EXCEPT ![h] =
                 [handler[h] EXCEPT !.pc = pc, !.seen = seen, !.action = action]]
        PROVE  SpendInv'
    <3>. DEFINE r == [handler[h] EXCEPT !.pc = pc, !.seen = seen, !.action = action]
    <3>1. r.pc # "thinking" /\ r.at \in Nat /\ r.at <= now
      BY <1>2 DEF RequestType, SpendInv
    <3>2. handler' = [handler EXCEPT ![h] = r]
      BY <2>3
    <3>3. GoesOn(h)
      <4>. HIDE DEF r
      <4>. QED
        BY <2>1, <3>1, <3>2 DEF GoesOn
    <3>. QED
      BY <1>1, <3>3
  <2>. QED
    BY <1>4, <2>1, <2>2, <2>3
<1>13. CASE (\E s \in Sessions : Settle(s)) \/ UNCHANGED vars
  <2>1. UNCHANGED <<said, handler, calls, now, faults>>
    BY <1>13 DEF Settle, vars
  <2>2. \A s \in Sessions : Accounted(s)' = Accounted(s)
    BY <2>1 DEF Accounted, Thinking, At
  <2>3. faults \in Nat
    BY PolicyIsNatural DEF IInv, TypeOK
  <2>. QED
    BY <2>1, <2>2, <2>3, SpendKept DEF SpendInv
<1>. QED
  BY <1>7, <1>8, <1>9, <1>10, <1>11, <1>12, <1>13, SpendRecord, SpendTick
     DEF Next, HandlerStep

\* The wallet guard, for every finite number of requests in flight: whatever they
\* interleave, in no minute do more turns of a session reach the language model
\* than the limit, one for each other request and one for each that died.
THEOREM BurstIsBounded ==
  ASSUME FiniteHandlers
  PROVE  Spec => []SpendBounded
<1>1. Init => SpendInv
  <2>. SUFFICES ASSUME Init PROVE SpendInv
    OBVIOUS
  <2>1. IInv
    BY InitInv
  <2>2. \A s \in Sessions : calls[s] = [t \in 0..MaxNow |-> 0]
    BY DEF Init
  <2>3. now = 0 /\ faults = 0 /\ 0 \in 0..MaxNow
    BY PolicyIsNatural DEF Init
  <2>4. \A s \in Sessions : calls[s][now] <= Accounted(s)
    <3>. SUFFICES ASSUME NEW s \in Sessions PROVE calls[s][now] <= Accounted(s)
      OBVIOUS
    <3>1. said[s][now] \in Nat /\ Cardinality(Thinking(s)) \in Nat
      BY <2>1, CountsAreNat
    <3>2. calls[s][now] = 0 /\ faults \in Nat
      BY <2>2, <2>3
    <3>. QED
      BY <3>1, <3>2 DEF Accounted
  <2>5. SpendBounded
    <3>1. Cardinality(Handlers) \in Nat /\ PerMin \in Nat \ {0}
      BY FS_CardinalityType, PolicyIsNatural DEF FiniteHandlers
    <3>2. 0 <= PerMin + Cardinality(Handlers) - 1 + faults
      BY <2>3, <3>1
    <3>. QED
      BY <2>2, <3>2 DEF SpendBounded
  <2>6. \A h \in Handlers : handler[h].at <= now
    BY <2>3 DEF Init, Idle
  <2>7. ASSUME NEW s \in Sessions, NEW t \in now + 1..MaxNow
        PROVE  calls[s][t] = 0
    <3>1. t \in 0..MaxNow
      BY <2>3
    <3>. QED
      BY <2>2, <3>1
  <2>. QED
    BY <2>4, <2>5, <2>6, <2>7 DEF SpendInv
<1>2. SpendInv /\ IInv /\ [Next]_vars => SpendInv'
  BY SpendStep
<1>3. SpendInv => SpendBounded
  BY DEF SpendInv
<1>. QED
  BY <1>1, <1>2, <1>3, Invariance, PTL DEF Spec
=============================================================================
