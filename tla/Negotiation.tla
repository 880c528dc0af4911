---------------------------- MODULE Negotiation -----------------------------
(***************************************************************************)
(* The session handlers of service.ts over one store: createSession,       *)
(* postMessage (with its throttle and its lock-in at the message cap) and  *)
(* acceptCurrent, for one buyer of one plan.                               *)
(*                                                                         *)
(* A handler keeps what it read across its awaits, the language model's    *)
(* among them, and writes its result unconditionally; other handlers of    *)
(* the same session run in between. A handler may die at an await.         *)
(*                                                                         *)
(* One tick of the clock is the minute of the rate guard.                  *)
(***************************************************************************)
EXTENDS Pipeline, FiniteSets, Sequences

CONSTANTS
  Sessions, Handlers,
  NoSession,
  PerMin,          \* policy.rateLimitPerMin
  MaxMessages,     \* policy.maxMessages
  Cooldown,        \* policy.cooldownHours, in ticks
  MaxNow,          \* bound on the clock
  MaxPosts,        \* bound on the requests of a behaviour
  MaxFaults        \* bound on the handlers that die

ASSUME PolicyIsNatural ==
  /\ {PerMin, MaxMessages} \subseteq Nat \ {0}
  /\ {Cooldown, MaxNow, MaxPosts, MaxFaults} \subseteq Nat
  /\ NoSession \notin Sessions

VARIABLES
  session,    \* the sessions table
  said,       \* the user turns each session has, per tick
  deals,      \* the prices of the deals each session closed
  paid,       \* how many of them are settled
  cooldown,   \* until when the buyer must wait
  handler,    \* requests between two awaits
  calls,      \* history: language model turns each session began, per tick
  now, posts, faults

store == <<session, said, deals, paid, cooldown>>
vars  == <<session, said, deals, paid, cooldown, handler, calls, now, posts, faults>>

-----------------------------------------------------------------------------
EngineState == [round : Nat, ask : Nat, openedAt : Nat]

Statuses == {"none", "open", "accepted", "walked", "settled"}

TypeOK ==
  /\ session \in [Sessions -> [status : Statuses, engine : EngineState]]
  /\ said \in [Sessions -> [0..MaxNow -> Nat]]
  /\ deals \in [Sessions -> Seq(Nat)]
  /\ paid \in [Sessions -> Nat]
  /\ cooldown \in Nat
  /\ handler \in
       [Handlers ->
          [pc     : {"idle", "opening", "posted", "thinking", "decided",
                     "throttled", "capped", "yes", "taking", "closing", "cooling"},
           target : Sessions \cup {NoSession},
           seen   : EngineState,
           at     : Nat,
           says   : Messages \cup {NoOffer},
           action : Action]]
  /\ calls \in [Sessions -> [0..MaxNow -> Nat]]
  /\ now \in 0..MaxNow /\ posts \in 0..MaxPosts /\ faults \in 0..MaxFaults

Idle ==
  [pc |-> "idle", target |-> NoSession, seen |-> OpenSession(0), at |-> 0,
   says |-> NoOffer, action |-> Walk]

Init ==
  /\ session = [s \in Sessions |-> [status |-> "none", engine |-> OpenSession(0)]]
  /\ said = [s \in Sessions |-> [t \in 0..MaxNow |-> 0]]
  /\ deals = [s \in Sessions |-> <<>>]
  /\ paid = [s \in Sessions |-> 0]
  /\ cooldown = 0
  /\ handler = [h \in Handlers |-> Idle]
  /\ calls = [s \in Sessions |-> [t \in 0..MaxNow |-> 0]]
  /\ now = 0 /\ posts = 0 /\ faults = 0

-----------------------------------------------------------------------------
(* Handlers *)

At(h, pc) == handler[h].pc = pc

Goto(h, pc) == handler' = [handler EXCEPT ![h].pc = pc]

Finish(h) == handler' = [handler EXCEPT ![h] = Idle]

\* Seeded fault: any session there is takes requests.
IsOpenAlways(s) == session[s].status # "none"

\* requireOpenSession
IsOpen(s) == session[s].status = "open"

\* A request begins and reads what it needs first.
Begin(h, pc, s, seen, m) ==
  /\ At(h, "idle")
  /\ posts < MaxPosts
  /\ posts' = posts + 1
  /\ handler' = [handler EXCEPT ![h] =
                   [pc |-> pc, target |-> s, seen |-> seen, at |-> now,
                    says |-> m, action |-> Walk]]
  /\ UNCHANGED <<store, calls, now, faults>>

\* createSession reads the cooldown; in cooldown it is a conflict.
Open(h) ==
  /\ now >= cooldown
  /\ Begin(h, "opening", NoSession, OpenSession(now), NoOffer)

\* ... and inserts the session. The opener and its turn change nothing else.
InsertSession(h) ==
  /\ At(h, "opening")
  /\ \E s \in Sessions :
       /\ session[s].status = "none"
       /\ session' = [session EXCEPT ![s] =
                        [status |-> "open", engine |-> handler[h].seen]]
  /\ Finish(h)
  /\ UNCHANGED <<said, deals, paid, cooldown, calls, now, posts, faults>>

\* postMessage reads the session; a closed one is a conflict.
Post(h, s, m) ==
  /\ IsOpen(s)
  /\ Begin(h, "posted", s, session[s].engine, m)

SaidSince(s, from) ==
  LET sum[t \in from..MaxNow + 1] ==
        IF t > MaxNow THEN 0 ELSE said[s][t] + sum[t + 1]
  IN  sum[from]

\* Seeded fault: one message too many.
RateExceededLate(s, t) == SaidSince(s, t) > PerMin

\* messageRateExceeded: the user turns since the minute of the request.
RateExceeded(s, t) == SaidSince(s, t) >= PerMin

\* listTurns, and the two guards before the language model is called.
ListTurns(h) ==
  LET s == handler[h].target IN
  /\ At(h, "posted")
  /\ IF RateExceeded(s, handler[h].at) THEN Goto(h, "throttled") /\ UNCHANGED calls
     ELSE IF SaidSince(s, 0) >= MaxMessages THEN Goto(h, "capped") /\ UNCHANGED calls
     ELSE Goto(h, "thinking") /\ calls' = [calls EXCEPT ![s][now] = @ + 1]
  /\ UNCHANGED <<store, now, posts, faults>>

RecordUserTurn(h) == said' = [said EXCEPT ![handler[h].target][now] = @ + 1]

\* throttle: both turns are recorded, nothing else.
Throttle(h) ==
  /\ At(h, "throttled")
  /\ RecordUserTurn(h)
  /\ Finish(h)
  /\ UNCHANGED <<session, deals, paid, cooldown, calls, now, posts, faults>>

\* lockInAtCap: a yes goes on to acceptCurrent, anything else holds the ask.
LockIn(h) ==
  /\ At(h, "capped")
  /\ RecordUserTurn(h)
  /\ \/ Goto(h, "yes")
     \/ Finish(h)
  /\ UNCHANGED <<session, deals, paid, cooldown, calls, now, posts, faults>>

\* negotiator.turn decides on the session as it was read; the turns are recorded.
RecordTurn(h) ==
  /\ At(h, "thinking")
  /\ RecordUserTurn(h)
  /\ \E action \in ActionsOn(handler[h].says, handler[h].seen, handler[h].at, FALSE) :
       handler' = [handler EXCEPT ![h].pc = "decided", ![h].action = action]
  /\ UNCHANGED <<session, deals, paid, cooldown, calls, now, posts, faults>>

\* Seeded fault: a turn that accepts is answered before its deal is made.
AnswerAtOnce(action) == IF action.type = "walk" THEN "cooling" ELSE "idle"

\* What postMessage still has to do once the turn is written.
AfterTurn(action) ==
  CASE action.type = "accept" -> "closing"
    [] action.type = "walk"   -> "cooling"
    [] OTHER                  -> "idle"

\* updateSession: round, ask and status as computed, over whatever is there.
WriteTurn(h) ==
  LET action == handler[h].action IN
  /\ At(h, "decided")
  /\ session' = [session EXCEPT ![handler[h].target] =
                   [status |-> StatusFor(action),
                    engine |-> ApplyAction(handler[h].seen, action)]]
  /\ IF AfterTurn(action) = "idle" THEN Finish(h) ELSE Goto(h, AfterTurn(action))
  /\ UNCHANGED <<said, deals, paid, cooldown, calls, now, posts, faults>>

\* acceptCurrent reads the session and takes its ask, expired or not.
Take(h, s) ==
  /\ IsOpen(s)
  /\ Begin(h, "taking", s, session[s].engine, NoOffer)

\* ... called from lockInAtCap it reads the session again.
TakeAtCap(h) ==
  LET s == handler[h].target IN
  /\ At(h, "yes")
  /\ IF IsOpen(s)
       THEN handler' = [handler EXCEPT ![h].pc = "taking",
                                       ![h].seen = session[s].engine]
       ELSE Finish(h)
  /\ UNCHANGED <<store, calls, now, posts, faults>>

\* Seeded fault: the session is left open until the deal is paid.
AcceptedIsOpen == "open"

AcceptedStatus == "accepted"

\* updateSession: status only.
WriteAccept(h) ==
  /\ At(h, "taking")
  /\ session' = [session EXCEPT ![handler[h].target].status = AcceptedStatus]
  /\ handler' = [handler EXCEPT ![h].pc = "closing",
                                ![h].action = Accept(handler[h].seen.ask)]
  /\ UNCHANGED <<said, deals, paid, cooldown, calls, now, posts, faults>>

\* settle, closeDeal: the pending deal is created.
CloseDeal(h) ==
  LET s == handler[h].target IN
  /\ At(h, "closing")
  /\ deals' = [deals EXCEPT ![s] = Append(@, handler[h].action.amount)]
  /\ Finish(h)
  /\ UNCHANGED <<session, said, paid, cooldown, calls, now, posts, faults>>

\* startCooldown counts from the time the request was received.
StartCooldown(h) ==
  /\ At(h, "cooling")
  /\ cooldown' = handler[h].at + Cooldown
  /\ Finish(h)
  /\ UNCHANGED <<session, said, deals, paid, calls, now, posts, faults>>

\* The webhook settles one of the deals, and the session with it.
Settle(s) ==
  /\ paid[s] < Len(deals[s])
  /\ paid' = [paid EXCEPT ![s] = @ + 1]
  /\ session' = [session EXCEPT ![s].status = "settled"]
  /\ UNCHANGED <<said, deals, cooldown, handler, calls, now, posts, faults>>

HandlerDies(h) ==
  /\ faults < MaxFaults
  /\ ~At(h, "idle")
  /\ Finish(h)
  /\ faults' = faults + 1
  /\ UNCHANGED <<store, calls, now, posts>>

Tick ==
  /\ now < MaxNow
  /\ now' = now + 1
  /\ UNCHANGED <<store, handler, calls, posts, faults>>

HandlerStep(h) ==
  \/ InsertSession(h) \/ ListTurns(h) \/ Throttle(h) \/ LockIn(h)
  \/ RecordTurn(h) \/ WriteTurn(h) \/ TakeAtCap(h) \/ WriteAccept(h)
  \/ CloseDeal(h) \/ StartCooldown(h)

Next ==
  \/ \E h \in Handlers : Open(h) \/ HandlerStep(h) \/ HandlerDies(h)
  \/ \E h \in Handlers, s \in Sessions :
       Take(h, s) \/ \E m \in Messages : Post(h, s, m)
  \/ \E s \in Sessions : Settle(s)
  \/ Tick

Spec == Init /\ [][Next]_vars

\* A request that began runs to its end, but for its death.
FairSpec == Spec /\ \A h \in Handlers : WF_vars(HandlerStep(h))

-----------------------------------------------------------------------------
(* Properties *)

InFlight(s) == {h \in Handlers : handler[h].target = s}

\* I1 under the races: whatever stale asks handlers decide on, write back and
\* close at, no ask and no deal leaves the band between floor and anchor.
PricesInBand ==
  \A s \in Sessions :
    /\ session[s].engine.ask \in Floor..Anchor
    /\ \A i \in DOMAIN deals[s] : deals[s][i] \in Floor..Anchor

\* Once a session is closed and the requests that began before are answered, it
\* takes no request, gets no deal and keeps its price (requireOpenSession).
ClosedIsQuiet ==
  [][\A s \in Sessions :
       session[s].status \notin {"none", "open"} /\ InFlight(s) = {} =>
         /\ InFlight(s)' = {}
         /\ deals'[s] = deals[s]
         /\ session'[s].engine = session[s].engine]_vars

\* The wallet guard: a burst begins at most PerMin language model turns a
\* minute, and one more for each other request in flight that the recorded turns
\* do not show, or that died before it was recorded.
SpendBounded ==
  \A s \in Sessions, t \in 0..MaxNow :
    calls[s][t] <= PerMin + Cardinality(Handlers) - 1 + faults

\* Answered one at a time, the requests of a session close one deal at most,
\* whatever turns, yeses at the cap and accepts follow one another or die.
OneDealEach == \A s \in Sessions : Len(deals[s]) <= 1

\* I2 of README.md:21 over the stored ask: "monotonically non-increasing across a
\* cold-start negotiation".
AskNeverRises ==
  [][\A s \in Sessions :
       session[s].status # "none" =>
         session'[s].engine.ask <= session[s].engine.ask]_vars

\* An accepted session gets its deal, unless a handler dies: every way to write
\* "accepted" goes on to closeDeal, and no other request keeps it from there.
AcceptedGetsDeal ==
  \A s \in Sessions :
    session[s].status = "accepted" ~> deals[s] # <<>> \/ faults > 0

\* service.test.ts:169 "rejects messages on a closed session": a session that
\* closed a deal takes no message.
DealClosesSession == \A s \in Sessions : deals[s] # <<>> => ~IsOpen(s)

\* README.md:22 "past expiry it always walks": no request received past the
\* expiry of a session closes a deal.
ExpiredNeverCloses ==
  \A h \in Handlers :
    At(h, "closing") => ~Expired(handler[h].seen, handler[h].at)
=============================================================================
