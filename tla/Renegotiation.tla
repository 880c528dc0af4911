--------------------------- MODULE Renegotiation ----------------------------
(***************************************************************************)
(* Renegotiating one subscription: usage reports and their breach streak,  *)
(* the sessions they open, and the repricing a session ends in             *)
(* (service.ts reportUsage, renegotiateDeal, openRenegotiation,            *)
(* settleReneg, grandfather, and the session handlers for a renegotiation).*)
(*                                                                         *)
(* The first deal is the settled sale; every later one is the record of a  *)
(* renegotiation, itself a deal that usage may be reported on. An engine   *)
(* turn is any of the outcomes Haggle shows: an ask that does not rise, a  *)
(* price between floor and ask, or a walk (no offer, expiry, last round).  *)
(***************************************************************************)
EXTENDS RenegPricing, SequencesExt

CONSTANTS
  Handlers,
  Usages,          \* the readings a merchant reports
  Cycles,          \* the billing cycles it reports them for
  BreachCycles,    \* usage.breachCyclesRequired
  DownwardEnabled, DownCycles, LowCeiling,   \* the downward trigger
  Directions,      \* what a merchant asks for by hand
  FirstPrice,      \* of the sale
  MaxRequests,     \* bound on the requests of a behaviour
  MaxFaults        \* bound on the handlers that die and the prices Stripe refuses

ASSUME RenegConstants ==
  /\ Usages \subseteq Nat /\ Cycles \subseteq Nat
  /\ {BreachCycles, DownCycles} \subseteq Nat \ {0}
  /\ LowCeiling \in 0..BandCeiling
  /\ DownwardEnabled \in BOOLEAN
  /\ Directions \subseteq {"up", "down"}
  /\ FirstPrice \in Nat \ {0}
  /\ {MaxRequests, MaxFaults} \subseteq Nat

VARIABLES
  deals,       \* the settled deals of the subscription, the sale first
  usage,       \* per deal, its usage cycles in the order of their index
  sessions,    \* the renegotiation sessions
  subscribed,  \* the sale has a Stripe subscription (monthly plans)
  billed,      \* its price at Stripe
  handler,     \* requests between two awaits
  raced,       \* history: a request began before another was answered
  late,        \* history: deals a cycle was reported for with a later or the same on record
  requests, refusals, faults

store == <<deals, usage, sessions>>
vars  == <<store, subscribed, billed, handler, raced, late, requests, refusals, faults>>

NoSession == 0

-----------------------------------------------------------------------------
Prices == [floor : Nat, target : Nat, anchor : Nat]

CycleRecord == [cycle : Cycles, value : Usages, streak : Nat]

\* known: somebody was told its id. evidence: the cycles it was opened on.
SessionRecord ==
  [status : {"open", "accepted", "walked", "settled"}, kind : {"up", "down"},
   of : Nat, band : Prices, ask : Nat, known : BOOLEAN,
   evidence : Seq(CycleRecord), byUsage : BOOLEAN]

TypeOK ==
  /\ deals \in Seq([price : Nat, reneg : Nat, session : Nat])
  /\ usage \in Seq(Seq(CycleRecord)) /\ Len(usage) = Len(deals)
  /\ sessions \in Seq(SessionRecord)
  /\ subscribed \in BOOLEAN /\ billed \in Nat
  /\ \A h \in Handlers :
       /\ handler[h].pc \in
            {"idle", "listing", "asked", "adding", "opening", "linking", "thinking",
             "taking", "settling", "recording", "clearing", "closing"}
       /\ handler[h].deal \in 0..Len(deals)
       /\ handler[h].session \in 0..Len(sessions)
  /\ raced \in BOOLEAN /\ late \subseteq DOMAIN deals
  /\ requests \in 0..MaxRequests
  /\ {refusals, faults} \subseteq 0..MaxFaults

Idle ==
  [pc |-> "idle", deal |-> 0, session |-> NoSession, cycle |-> 0, value |-> 0,
   linked |-> FALSE, cycles |-> <<>>, kind |-> "up", ask |-> 0, amount |-> 0,
   grandfather |-> FALSE]

Init ==
  /\ deals = <<[price |-> FirstPrice, reneg |-> NoSession, session |-> NoSession]>>
  /\ usage = <<<<>>>>
  /\ sessions = <<>>
  /\ subscribed \in BOOLEAN
  /\ billed = FirstPrice
  /\ handler = [h \in Handlers |-> Idle]
  /\ raced = FALSE /\ late = {}
  /\ requests = 0 /\ refusals = 0 /\ faults = 0

-----------------------------------------------------------------------------
At(h, pc) == handler[h].pc = pc

Finish(h) == handler' = [handler EXCEPT ![h] = Idle]

Goto(h, pc) == handler' = [handler EXCEPT ![h].pc = pc]

Busy == {h \in Handlers : ~At(h, "idle")}

Begin(h, locals) ==
  /\ At(h, "idle")
  /\ requests < MaxRequests
  /\ requests' = requests + 1
  /\ raced' = (raced \/ Busy # {})
  /\ handler' = [handler EXCEPT ![h] = locals]
  /\ UNCHANGED <<store, subscribed, billed, late, refusals, faults>>

Others == <<subscribed, billed, raced, requests, refusals, faults>>

-----------------------------------------------------------------------------
(* Usage and its triggers *)

\* Seeded fault: a deal under renegotiation opens another one.
LinkedNever(d) == FALSE

\* deal.renegSessionId is set.
Linked(d) == deals[d].reneg # NoSession

\* reportUsage reads the deal.
Report(h, d, c, v) ==
  Begin(h, [Idle EXCEPT !.pc = "listing", !.deal = d, !.cycle = c, !.value = v,
                        !.linked = Linked(d)])

\* renegotiateDeal reads the deal; one under renegotiation is a conflict.
Ask(h, d, kind) ==
  /\ ~Linked(d)
  /\ Begin(h, [Idle EXCEPT !.pc = "asked", !.deal = d, !.kind = kind])

\* listUsageCycles, sorted by cycle.
ListCycles(h) ==
  /\ At(h, "listing") \/ At(h, "asked")
  /\ handler' = [handler EXCEPT
                   ![h].cycles = usage[handler[h].deal],
                   ![h].pc = IF @ = "asked" THEN "opening" ELSE "adding"]
  /\ UNCHANGED <<store, late, Others>>

\* Seeded fault: a cycle inside the band leaves the streak as it is.
StreakUnbroken(cycles, v) ==
  LET prev == IF cycles = <<>> THEN 0 ELSE Last(cycles).streak IN
  IF v > BandCeiling THEN prev + 1 ELSE prev

\* The streak so far is the one of the highest cycle on record.
Streak(cycles, v) ==
  IF v <= BandCeiling THEN 0
  ELSE IF cycles = <<>> THEN 1 ELSE Last(cycles).streak + 1

Value(cycles, i) == IF i \in DOMAIN cycles THEN cycles[i].value ELSE 0

\* The last three readings, together.
TrailingTotal(cycles) ==
  LET n == Len(cycles) IN Value(cycles, n) + Value(cycles, n - 1) + Value(cycles, n - 2)

\* Sustained under-use, where the plan opts in.
UnderUsed(cycles) ==
  /\ DownwardEnabled
  /\ Len(cycles) >= DownCycles
  /\ \A i \in Len(cycles) - DownCycles + 1..Len(cycles) : cycles[i].value < LowCeiling

\* Behind the cycles up to its own.
InsertCycle(cycles, rec) ==
  InsertAt(cycles, 1 + Cardinality({i \in DOMAIN cycles : cycles[i].cycle <= rec.cycle}), rec)

\* addUsageCycle, then the triggers over what was read before it.
AddCycle(h) ==
  LET r   == handler[h]
      rec == [cycle |-> r.cycle, value |-> r.value, streak |-> Streak(r.cycles, r.value)]
      all == Append(r.cycles, rec)
  IN  /\ At(h, "adding")
      /\ usage' = [usage EXCEPT ![r.deal] = InsertCycle(@, rec)]
      /\ late' = IF \E i \in DOMAIN usage[r.deal] : usage[r.deal][i].cycle >= r.cycle
                   THEN late \cup {r.deal} ELSE late
      /\ \/ /\ ~r.linked
            /\ \/ rec.streak >= BreachCycles
               \/ UnderUsed(all)
            /\ handler' = [handler EXCEPT
                             ![h].pc = "opening", ![h].cycles = all,
                             ![h].kind = IF rec.streak >= BreachCycles THEN "up" ELSE "down"]
         \/ /\ r.linked \/ (rec.streak < BreachCycles /\ ~UnderUsed(all))
            /\ Finish(h)
      /\ UNCHANGED <<deals, sessions, Others>>

\* The band of a deal's renegotiation; no reading counts as one on the ceiling.
BandOf(d, kind, cycles) ==
  IF cycles = <<>>
    THEN RenegBand(kind, deals[d].price, BandCeiling, 1)
    ELSE RenegBand(kind, deals[d].price, TrailingTotal(cycles), Smaller(Len(cycles), 3))

\* openRenegotiation inserts the session; its opener comes from the model.
CreateSession(h) ==
  LET r == handler[h]
      b == BandOf(r.deal, r.kind, r.cycles)
  IN  /\ At(h, "opening")
      /\ sessions' = Append(sessions,
           [status |-> "open", kind |-> r.kind, of |-> r.deal, band |-> b,
            ask |-> b.anchor, known |-> FALSE, evidence |-> r.cycles,
            byUsage |-> r.cycle # 0])
      /\ handler' = [handler EXCEPT ![h].pc = "linking", ![h].session = Len(sessions) + 1]
      /\ UNCHANGED <<deals, usage, late, Others>>

\* ... and links the deal to it; the answer names the session.
LinkReneg(h) ==
  LET r == handler[h] IN
  /\ At(h, "linking")
  /\ deals' = [deals EXCEPT ![r.deal].reneg = r.session]
  /\ sessions' = [sessions EXCEPT ![r.session].known = TRUE]
  /\ Finish(h)
  /\ UNCHANGED <<usage, late, Others>>

-----------------------------------------------------------------------------
(* The haggle and its end *)

IsOpen(s) == sessions[s].known /\ sessions[s].status = "open"

\* postMessage and acceptCurrent read the session.
Request(h, s, pc) ==
  /\ IsOpen(s)
  /\ Begin(h, [Idle EXCEPT !.pc = pc, !.session = s, !.deal = sessions[s].of,
                           !.ask = sessions[s].ask])

\* Seeded fault: the type of the action is stored as the status.
StatusVerbatim(grandfather) == IF grandfather THEN "walk" ELSE "accept"

\* statusForAction, for the two ends of a haggle.
EndStatus(grandfather) == IF grandfather THEN "walked" ELSE "accepted"

\* Seeded fault: a walk is the end of it.
NotGrandfathered(grandfather) == IF grandfather THEN "idle" ELSE "settling"

\* A walk is settled too, at the fair tier.
AfterEnd(grandfather) == "settling"

\* updateSession with what the turn decided, then settle or grandfather.
Close(h, amount, grandfather) ==
  /\ sessions' = [sessions EXCEPT ![handler[h].session].status = EndStatus(grandfather)]
  /\ handler' = [handler EXCEPT ![h].pc = AfterEnd(grandfather), ![h].amount = amount,
                                ![h].grandfather = grandfather]
  /\ UNCHANGED <<deals, usage, late, Others>>

\* A turn that goes on: the session is open, at the ask of this turn.
Counter(h) ==
  LET r == handler[h] IN
  /\ At(h, "thinking")
  /\ LET band == sessions[r.session].band
     IN  \E ask \in {r.ask, Smaller(r.ask, band.target), band.floor} :
           sessions' = [sessions EXCEPT ![r.session].status = "open", ![r.session].ask = ask]
  /\ Finish(h)
  /\ UNCHANGED <<deals, usage, late, Others>>

\* The engine accepts an offer.
TurnAccepts(h) ==
  /\ At(h, "thinking")
  /\ \E amount \in {sessions[handler[h].session].band.floor, handler[h].ask} :
       Close(h, amount, FALSE)

\* The engine walks, or the message cap is reached (endWithWalk): grandfathered
\* to the target.
TurnWalks(h) ==
  /\ At(h, "thinking")
  /\ Close(h, sessions[handler[h].session].band.target, TRUE)

\* acceptCurrent takes the ask it read.
TakeAsk(h) ==
  /\ At(h, "taking")
  /\ Close(h, handler[h].ask, FALSE)

\* settleReneg: the subscription is repriced, when there is one.
Reprice(h) ==
  /\ At(h, "settling")
  /\ billed' = IF subscribed THEN handler[h].amount ELSE billed
  /\ Goto(h, "recording")
  /\ UNCHANGED <<store, subscribed, raced, late, requests, refusals, faults>>

\* Seeded fault: a refusal is taken for a success.
RefusedGoesOn(h) == Goto(h, "recording")

Refused(h) == Finish(h)

\* Stripe refuses the price: the request fails there.
StripeRefuses(h) ==
  /\ At(h, "settling")
  /\ subscribed
  /\ refusals + faults < MaxFaults
  /\ refusals' = refusals + 1
  /\ Refused(h)
  /\ UNCHANGED <<store, subscribed, billed, raced, late, requests, faults>>

\* createDeal
RecordDeal(h) ==
  LET r == handler[h] IN
  /\ At(h, "recording")
  /\ deals' = Append(deals,
       [price |-> r.amount, reneg |-> NoSession, session |-> r.session])
  /\ usage' = Append(usage, <<>>)
  /\ Goto(h, "clearing")
  /\ UNCHANGED <<sessions, late, Others>>

\* Seeded fault: a null in the patch leaves the column as it is.
ClearedByCoalesce(link) == link

Cleared(link) == NoSession

\* updateDeal: the deal may be renegotiated again; a grandfathered session stays walked.
ClearLink(h) ==
  LET r == handler[h] IN
  /\ At(h, "clearing")
  /\ deals' = [deals EXCEPT ![r.deal].reneg = Cleared(@)]
  /\ IF r.grandfather THEN Finish(h) ELSE Goto(h, "closing")
  /\ UNCHANGED <<usage, sessions, late, Others>>

\* Seeded fault: the session of a settled renegotiation stays accepted.
AnsweredOnly(h) ==
  /\ At(h, "closing")
  /\ Finish(h)
  /\ UNCHANGED <<store, late, Others>>

\* updateSession, at the end of settle.
CloseSession(h) ==
  /\ At(h, "closing")
  /\ sessions' = [sessions EXCEPT ![handler[h].session].status = "settled"]
  /\ Finish(h)
  /\ UNCHANGED <<deals, usage, late, Others>>

HandlerDies(h) ==
  /\ ~At(h, "idle")
  /\ refusals + faults < MaxFaults
  /\ faults' = faults + 1
  /\ Finish(h)
  /\ UNCHANGED <<store, subscribed, billed, raced, late, requests, refusals>>

-----------------------------------------------------------------------------
Arrive(h) ==
  \/ \E d \in DOMAIN deals :
       \/ \E c \in Cycles, v \in Usages : Report(h, d, c, v)
       \/ \E kind \in Directions : Ask(h, d, kind)
  \/ \E s \in DOMAIN sessions, pc \in {"thinking", "taking"} : Request(h, s, pc)

HandlerStep(h) ==
  \/ ListCycles(h) \/ AddCycle(h) \/ CreateSession(h) \/ LinkReneg(h)
  \/ Counter(h) \/ TurnAccepts(h) \/ TurnWalks(h) \/ TakeAsk(h)
  \/ Reprice(h) \/ StripeRefuses(h) \/ RecordDeal(h) \/ ClearLink(h) \/ CloseSession(h)

Next == \E h \in Handlers : Arrive(h) \/ HandlerStep(h) \/ HandlerDies(h)

Spec == Init /\ [][Next]_vars

-----------------------------------------------------------------------------
(* What the dashboard counts (analytics.ts computeAnalytics) *)

Recorded(s) == \E d \in DOMAIN deals : deals[d].session = s

InStatus(which) == {s \in DOMAIN sessions : sessions[s].status \in which}

\* reneg.accepted and reneg.grandfathered.
RenegAccepted == Cardinality(InStatus({"settled"}))

Grandfathered == Cardinality({s \in InStatus({"walked"}) : Recorded(s)})

\* Recorded, billed and open: a turn that was read before the end went on after it.
Reopened == {s \in InStatus({"open"}) : Recorded(s)}

\* funnel.accepted and funnel.settled, the sale included.
FunnelAccepted == 1 + Cardinality(InStatus({"accepted", "settled"}))

FunnelSettled == Len(deals)

-----------------------------------------------------------------------------
(* Properties *)

Live(s) == sessions[s].status # "settled" /\ ~Recorded(s)

\* reneg.ts:6: whatever turns, walks and races lead to a recorded price, it lies
\* in the band of its session, and a raise never records less than the deal it
\* renegotiates.
RecordedInBand ==
  \A d \in DOMAIN deals :
    deals[d].session # NoSession =>
      LET s == sessions[deals[d].session] IN
      /\ deals[d].price \in s.band.floor..s.band.anchor
      /\ s.kind = "up" => deals[d].price >= deals[s.of].price

\* The price Stripe bills is a recorded one once nothing is in flight and no
\* handler died: the latest, where requests were answered one at a time.
BilledIsRecorded ==
  subscribed /\ Busy = {} /\ faults = 0 =>
    /\ \E d \in DOMAIN deals : billed = deals[d].price
    /\ ~raced => billed = Last(deals).price

\* types.ts renegSessionId "prevents duplicates": requests answered one at a time
\* never leave a deal with two renegotiations to settle.
OneRenegEach ==
  ~raced /\ faults = 0 =>
    \A s, t \in DOMAIN sessions :
      Live(s) /\ Live(t) /\ sessions[s].of = sessions[t].of => s = t

\* README.md:274 "a viral week won't reopen the deal; a sustained change will":
\* with the cycles reported once each and in order, a raise opens only after
\* breachCyclesRequired cycles over the ceiling, up to the one that opened it.
Sustained(cycles) ==
  /\ Len(cycles) >= BreachCycles
  /\ \A i \in Len(cycles) - BreachCycles + 1..Len(cycles) : cycles[i].value > BandCeiling

RaiseIsSustained ==
  ~raced => \A s \in DOMAIN sessions :
    sessions[s].byUsage /\ sessions[s].kind = "up" /\ sessions[s].of \notin late =>
      Sustained(sessions[s].evidence)

\* A renegotiation that is accepted or walked away from ends in a recorded price
\* ("access is never hard-cut"): until it is recorded, a request carries the price
\* there, whatever others wrote over the session, unless Stripe refuses or a
\* handler dies.
EndIsCarriedThrough ==
  refusals = 0 /\ faults = 0 =>
    \A s \in DOMAIN sessions :
      sessions[s].status \in {"accepted", "walked"} =>
        \/ Recorded(s)
        \/ \E h \in Busy : handler[h].session = s /\ handler[h].pc \in {"settling", "recording"}

\* The deal of a concluded renegotiation can be renegotiated again: its link goes
\* with the last request, unless Stripe refuses or a handler dies.
LinkGoesWithSession ==
  Busy = {} /\ refusals = 0 /\ faults = 0 =>
    \A d \in DOMAIN deals :
      Linked(d) => sessions[deals[d].reneg].status = "open"

\* analytics.ts reneg "accepted: negotiated to a new price; grandfathered: walked,
\* moved to the fair tier instead": with nothing in flight the dashboard counts
\* every recorded renegotiation exactly once, whatever ends raced, but for those a
\* late counter re-opened, which it counts neither way; requests answered one at
\* a time re-open none.
TallyIsWhole ==
  Busy = {} /\ refusals = 0 /\ faults = 0 =>
    /\ RenegAccepted + Grandfathered + Cardinality(Reopened)
         = Cardinality({s \in DOMAIN sessions : Recorded(s)})
    /\ ~raced => Reopened = {}

\* The same without the exception: every recorded renegotiation is counted.
TallyIsComplete ==
  Busy = {} /\ refusals = 0 /\ faults = 0 =>
    RenegAccepted + Grandfathered = Cardinality({s \in DOMAIN sessions : Recorded(s)})

\* The funnel of analytics.ts:4, from sessions to engaged to accepted to settled:
\* each stage holds no more than the one before it. Refuted by a run: a grandfathered
\* renegotiation has a settled deal and no accepted session.
FunnelNarrows == Busy = {} => FunnelSettled <= FunnelAccepted

\* reneg.ts:6 "the close is always >= what they pay now": a raise does not lower
\* the bill.
RaiseNeverLowers ==
  [][\A h \in Handlers :
       Reprice(h) /\ sessions[handler[h].session].kind = "up" => billed' >= billed]_vars

\* README.md:274 "a renegotiation opens only after consecutive breaches (a viral
\* week won't reopen the deal)": a raise has readings of several cycles behind it.
RaiseHasCycles ==
  \A s \in DOMAIN sessions :
    sessions[s].byUsage /\ sessions[s].kind = "up" =>
      \E i, j \in DOMAIN sessions[s].evidence :
        sessions[s].evidence[i].cycle # sessions[s].evidence[j].cycle
=============================================================================
