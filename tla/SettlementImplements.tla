------------------------ MODULE SettlementImplements -------------------------
(***************************************************************************)
(* The money path implements SettlementPromise, for any number of deals,   *)
(* proofs, checkouts and handlers.                                         *)
(***************************************************************************)
EXTENDS SettlementProofs

Funded  == {d \in Deals : \E c \in SessionsOf(d) : IsPaid(c)}
Settled == {d \in Deals : deal[d].status = "settled"}
Closed  == {d \in Deals : session[d] = "settled"}
Granted == {d \in Deals : entitled[d] > 0}
Told    == {d \in Deals : notified[d] > 0}

\* The session of a deal is never settled before the deal.
ClosedIsSettled == Closed \subseteq Settled

\* A step of the promise, or none.
PromiseStep == [Promise!Next]_(Promise!vars)

\* The promise is read from these five tables alone.
Tables == <<deal, session, checkout, entitled, notified>>

-----------------------------------------------------------------------------
(* The steps that touch none of the five tables, or none of what it says *)

\* When none of the five sets changes, the promise stutters.
LEMMA PromiseStutters ==
  ASSUME Funded' = Funded, Settled' = Settled, Closed' = Closed,
         Granted' = Granted, Told' = Told
  PROVE  PromiseStep
BY DEF PromiseStep, Promise!vars, Funded, Settled, Closed, Granted, Told

\* A step that writes none of the five tables is a stutter of the promise.
LEMMA TablesKept ==
  ASSUME IInv, ClosedIsSettled, UNCHANGED Tables
  PROVE  ClosedIsSettled' /\ PromiseStep
<1>1. /\ Funded' = Funded /\ Settled' = Settled /\ Closed' = Closed
      /\ Granted' = Granted /\ Told' = Told
  BY DEF Tables, Funded, Settled, Closed, Granted, Told, SessionsOf, IsPaid
<1>. QED
  BY <1>1, PromiseStutters DEF ClosedIsSettled

\* A new deal is in none of the five sets.
LEMMA CloseDealImplements ==
  ASSUME IInv, ClosedIsSettled, NEW d \in Deals, CloseDeal(d)
  PROVE  ClosedIsSettled' /\ PromiseStep
<1>1. Funded' = Funded /\ Granted' = Granted /\ Told' = Told
  BY DEF CloseDeal, external, Funded, Granted, Told, SessionsOf, IsPaid
<1>2. \A x \in Deals : deal'[x].status = "settled" <=> deal[x].status = "settled"
  BY DEF CloseDeal, IInv, TypeOK, DealRecord
<1>3. Settled' = Settled
  BY <1>2 DEF Settled
<1>4. session[d] # "settled" /\ session'[d] = "accepted"
  BY DEF CloseDeal, IInv, TypeOK, ClosedIsSettled, Closed, Settled
<1>5. \A x \in Deals : session'[x] = "settled" <=> session[x] = "settled"
  BY <1>4 DEF CloseDeal, IInv, TypeOK
<1>6. Closed' = Closed
  BY <1>5 DEF Closed
<1>. QED
  BY <1>1, <1>3, <1>6, PromiseStutters DEF ClosedIsSettled

\* A new session is not paid: no deal is funded by it.
LEMMA CreateCheckoutImplements ==
  ASSUME IInv, ClosedIsSettled, NEW r \in Requests, CreateCheckout(r)
  PROVE  ClosedIsSettled' /\ PromiseStep
<1>1. /\ Settled' = Settled /\ Closed' = Closed /\ Granted' = Granted
      /\ Told' = Told
  BY DEF CreateCheckout, store, Settled, Closed, Granted, Told
<1>2. PICK c \in Checkouts :
        /\ checkout[c].state = "none"
        /\ \A x \in Checkouts \ {c} : checkout'[x] = checkout[x]
        /\ checkout'[c].state = "created"
  BY DEF CreateCheckout, IInv, TypeOK
<1>3. Funded' = Funded
  BY <1>2 DEF Funded, SessionsOf, IsPaid
<1>. QED
  BY <1>1, <1>3, PromiseStutters DEF ClosedIsSettled

\* Storing a session leaves the status of its deal: a stutter.
LEMMA StoreCheckoutImplements ==
  ASSUME IInv, ClosedIsSettled, NEW r \in Requests, StoreCheckout(r)
  PROVE  ClosedIsSettled' /\ PromiseStep
<1>1. Closed' = Closed /\ Granted' = Granted /\ Told' = Told
  BY DEF StoreCheckout, Closed, Granted, Told
<1>2. \A x \in Deals : deal'[x].status = deal[x].status
  BY DEF StoreCheckout, WithCheckout, IInv, TypeOK, DealRecord
<1>3. Settled' = Settled
  BY <1>2 DEF Settled
<1>4. /\ request[r].checkout \in Checkouts
      /\ checkout[request[r].checkout].state = "created"
  BY DEF StoreCheckout, IInv, CreatedHasSession
<1>5. \A c \in Checkouts : /\ checkout'[c].deal = checkout[c].deal
                           /\ IsPaid(c)' <=> IsPaid(c)
  BY <1>4 DEF StoreCheckout, IsPaid, IInv, TypeOK, CheckoutRecord
<1>6. Funded' = Funded
  BY <1>5 DEF Funded, SessionsOf
<1>. QED
  BY <1>1, <1>3, <1>6, PromiseStutters DEF ClosedIsSettled

\* Only an unpaid session fails: no funded deal loses its funds.
LEMMA FundsFailImplements ==
  ASSUME IInv, ClosedIsSettled, NEW c \in Checkouts, FundsFail(c)
  PROVE  ClosedIsSettled' /\ PromiseStep
<1>1. /\ Settled' = Settled /\ Closed' = Closed /\ Granted' = Granted
      /\ Told' = Told
  BY DEF FundsFail, store, Settled, Closed, Granted, Told
<1>2. \A x \in Checkouts : /\ checkout'[x].deal = checkout[x].deal
                           /\ IsPaid(x)' <=> IsPaid(x)
  BY DEF FundsFail, IsPaid, IInv, TypeOK, CheckoutRecord
<1>3. Funded' = Funded
  BY <1>2 DEF Funded, SessionsOf
<1>. QED
  BY <1>1, <1>3, PromiseStutters DEF ClosedIsSettled

-----------------------------------------------------------------------------
(* The steps that are steps of the promise *)

\* The buyer is charged: at most the deal of the session becomes funded.
LEMMA ChargeImplements ==
  ASSUME IInv, ClosedIsSettled, NEW c \in Checkouts, Complete(c) \/ FundsLand(c)
  PROVE  ClosedIsSettled' /\ PromiseStep
<1>1. /\ Settled' = Settled /\ Closed' = Closed /\ Granted' = Granted
      /\ Told' = Told
  BY DEF Complete, FundsLand, store, Settled, Closed, Granted, Told
<1>2. ClosedIsSettled'
  BY <1>1 DEF ClosedIsSettled
<1>3. /\ \A x \in Checkouts : checkout'[x].deal = checkout[x].deal
      /\ \A x \in Checkouts \ {c} : checkout'[x] = checkout[x]
      /\ checkout[c].state \in {"open", "unpaid"}
  BY DEF Complete, FundsLand, IInv, TypeOK, CheckoutRecord
<1>4. checkout[c].deal \in Deals
  BY <1>3 DEF IInv, AbsentIsBlank, Exists
<1>5. CASE IsPaid(c)'
  <2>1. Funded' = Funded \cup {checkout[c].deal}
    BY <1>3, <1>4, <1>5 DEF Funded, SessionsOf, IsPaid
  <2>2. Promise!Fund(checkout[c].deal)
    BY <1>1, <2>1 DEF Promise!Fund, Funded, Settled, Closed, Granted, Told
  <2>. QED
    BY <1>2, <1>4, <2>2 DEF PromiseStep, Promise!Next
<1>6. CASE ~IsPaid(c)'
  <2>1. Funded' = Funded
    BY <1>3, <1>6 DEF Funded, SessionsOf, IsPaid
  <2>. QED
    BY <1>1, <1>2, <2>1, PromiseStutters
<1>. QED
  BY <1>5, <1>6

\* updateDeal settles a funded deal.
LEMMA SettleDealImplements ==
  ASSUME IInv, ClosedIsSettled, NEW h \in Hooks, SettleDeal(h)
  PROVE  ClosedIsSettled' /\ PromiseStep
<1>0. PICK d \in Deals : d = hook[h].deal
  BY DEF SettleDeal, IInv, DeliveryIsOfPaid
<1>1. d \in Deals /\ d \in Funded
  BY <1>0 DEF SettleDeal, IInv, DeliveryIsOfPaid, Funded, SessionsOf
<1>2. Funded' = Funded /\ Closed' = Closed /\ Granted' = Granted /\ Told' = Told
  BY DEF SettleDeal, external, Funded, SessionsOf, IsPaid, Closed, Granted, Told
<1>3. \A x \in Deals :
        deal'[x].status = "settled" <=> x = d \/ deal[x].status = "settled"
  BY <1>0, <1>1 DEF SettleDeal, IInv, TypeOK, DealRecord
<1>4. Settled' = Settled \cup {d}
  BY <1>1, <1>3 DEF Settled
<1>5. Promise!Settle(d)
  BY <1>1, <1>2, <1>4 DEF Promise!Settle, Funded, Settled, Closed, Granted, Told
<1>6. ClosedIsSettled'
  BY <1>2, <1>4 DEF ClosedIsSettled
<1>7. PromiseStep
  BY <1>1, <1>5 DEF PromiseStep, Promise!Next
<1>. QED
  BY <1>6, <1>7

\* updateSession closes the session of a settled deal.
LEMMA SettleSessionImplements ==
  ASSUME IInv, ClosedIsSettled, NEW h \in Hooks, SettleSession(h)
  PROVE  ClosedIsSettled' /\ PromiseStep
<1>0. PICK d \in Deals : d = hook[h].deal
  BY DEF SettleSession, IInv, DeliveryIsOfPaid
<1>1. d \in Deals /\ d \in Settled
  BY <1>0 DEF SettleSession, IInv, DeliveryIsOfPaid, DeliveryProgress, Settled
<1>2. Funded' = Funded /\ Settled' = Settled /\ Granted' = Granted /\ Told' = Told
  BY DEF SettleSession, external, Funded, SessionsOf, IsPaid, Settled, Granted, Told
<1>3. Closed' = Closed \cup {d}
  BY <1>0, <1>1 DEF SettleSession, IInv, TypeOK, Closed
<1>4. Promise!Close(d)
  BY <1>1, <1>2, <1>3 DEF Promise!Close, Funded, Settled, Closed, Granted, Told
<1>5. ClosedIsSettled'
  BY <1>1, <1>2, <1>3 DEF ClosedIsSettled
<1>6. PromiseStep
  BY <1>1, <1>4 DEF PromiseStep, Promise!Next
<1>. QED
  BY <1>5, <1>6

\* The entitlement is granted to a deal whose session is closed.
LEMMA RecordEntitlementImplements ==
  ASSUME IInv, ClosedIsSettled, NEW h \in Hooks, RecordEntitlement(h)
  PROVE  ClosedIsSettled' /\ PromiseStep
<1>0. PICK d \in Deals : d = hook[h].deal
  BY DEF RecordEntitlement, IInv, DeliveryIsOfPaid
<1>1. d \in Deals /\ d \in Closed
  BY <1>0 DEF RecordEntitlement, IInv, DeliveryIsOfPaid, DeliveryProgress, Closed
<1>2. Funded' = Funded /\ Settled' = Settled /\ Closed' = Closed /\ Told' = Told
  BY DEF RecordEntitlement, external, Funded, SessionsOf, IsPaid, Settled, Closed, Told
<1>3. \A x \in Deals : entitled'[x] > 0 <=> x = d \/ entitled[x] > 0
  BY <1>0, <1>1 DEF RecordEntitlement, IInv, TypeOK
<1>4. Granted' = Granted \cup {d}
  BY <1>1, <1>3 DEF Granted
<1>5. Promise!Grant(d)
  BY <1>1, <1>2, <1>4 DEF Promise!Grant, Funded, Settled, Closed, Granted, Told
<1>6. ClosedIsSettled'
  BY <1>2 DEF ClosedIsSettled
<1>7. PromiseStep
  BY <1>1, <1>5 DEF PromiseStep, Promise!Next
<1>. QED
  BY <1>6, <1>7

\* The merchant is told of a deal that is granted.
LEMMA NotifyMerchantImplements ==
  ASSUME IInv, ClosedIsSettled, NEW h \in Hooks, NotifyMerchant(h)
  PROVE  ClosedIsSettled' /\ PromiseStep
<1>0. PICK d \in Deals : d = hook[h].deal
  BY DEF NotifyMerchant, IInv, DeliveryIsOfPaid
<1>1. d \in Deals /\ d \in Granted
  BY <1>0 DEF NotifyMerchant, IInv, DeliveryIsOfPaid, DeliveryProgress, Granted
<1>2. /\ Funded' = Funded /\ Settled' = Settled /\ Closed' = Closed
      /\ Granted' = Granted
  BY DEF NotifyMerchant, store, Funded, SessionsOf, IsPaid, Settled, Closed, Granted
<1>3. CASE UNCHANGED notified
  <2>1. Told' = Told
    BY <1>3 DEF Told
  <2>. QED
    BY <1>2, <2>1, PromiseStutters DEF ClosedIsSettled
<1>4. CASE notified' = [notified EXCEPT ![d] = @ + 1]
  <2>1. \A x \in Deals : notified'[x] > 0 <=> x = d \/ notified[x] > 0
    BY <1>1, <1>4 DEF IInv, TypeOK
  <2>2. Told' = Told \cup {d}
    BY <1>1, <2>1 DEF Told
  <2>3. Promise!Tell(d)
    BY <1>1, <1>2, <2>2 DEF Promise!Tell, Funded, Settled, Closed, Granted, Told
  <2>4. ClosedIsSettled'
    BY <1>2 DEF ClosedIsSettled
  <2>5. PromiseStep
    BY <1>1, <2>3 DEF PromiseStep, Promise!Next
  <2>. QED
    BY <2>4, <2>5
<1>. QED
  BY <1>0, <1>3, <1>4 DEF NotifyMerchant

-----------------------------------------------------------------------------
\* Every step is a step of the promise, or a stutter.
LEMMA NextImplements ==
  ASSUME IInv, ClosedIsSettled, [Next]_vars
  PROVE  ClosedIsSettled' /\ PromiseStep
<1>. DEFINE Goal == ClosedIsSettled' /\ PromiseStep
<1>1. CASE UNCHANGED vars
  BY <1>1, TablesKept DEF vars, Tables
<1>2. CASE Connect
  BY <1>2, TablesKept DEF Connect, external, Tables
<1>3. ASSUME NEW r \in Requests, NEW d \in Deals, NEW p \in Presentable,
             ViewDeal(r, d, p) \/ PayDeal(r, d, p)
      PROVE Goal
  BY <1>3, TablesKept DEF ViewDeal, PayDeal, store, external, Tables
<1>4. ASSUME NEW r \in Requests, RequestStep(r) \/ RequestDies(r) PROVE Goal
  <2>1. CASE AnswerView(r) \/ VerifyProof(r) \/ CheckoutFails(r) \/ RequestDies(r)
    BY <2>1, TablesKept
    DEF AnswerView, VerifyProof, CheckoutFails, RequestDies, store, external, Tables
  <2>2. CASE RedeemProof(r)
    BY <2>2, TablesKept DEF RedeemProof, external, Tables
  <2>. QED
    BY <1>4, <2>1, <2>2, CreateCheckoutImplements, StoreCheckoutImplements
    DEF RequestStep
<1>5. ASSUME NEW c \in Checkouts, Complete(c) \/ FundsLand(c) \/ FundsFail(c)
      PROVE Goal
  BY <1>5, ChargeImplements, FundsFailImplements
<1>6. ASSUME NEW e \in events, IgnoreEvent(e) \/ \E h \in Hooks : MatchDeal(h, e)
      PROVE Goal
  BY <1>6, TablesKept DEF IgnoreEvent, MatchDeal, store, Tables
<1>7. ASSUME NEW h \in Hooks, HookStep(h) \/ HookDies(h) PROVE Goal
  <2>1. CASE CheckEvent(h) \/ HookDies(h)
    BY <2>1, TablesKept DEF CheckEvent, HookDies, store, external, Tables
  <2>. QED
    BY <1>7, <2>1, SettleDealImplements, SettleSessionImplements,
       RecordEntitlementImplements, NotifyMerchantImplements
    DEF HookStep
<1>8. CASE Tick
  BY <1>8, TablesKept DEF Tick, store, Tables
<1>. QED
  BY <1>1, <1>2, <1>3, <1>4, <1>5, <1>6, <1>7, <1>8, CloseDealImplements DEF Next

\* The money path implements its promise: no deal is settled before it is
\* funded, no entitlement recorded before deal and session are settled, no
\* merchant told before the record, and none of it is taken back, however the
\* handlers of service.ts interleave and die.
THEOREM Implementation == Spec => KeepsPromise
<1>1. Init => Promise!Init /\ ClosedIsSettled
  BY DEF Init, Promise!Init, ClosedIsSettled, Closed, Settled, SessionsOf, IsPaid
<1>2. IInv /\ ClosedIsSettled /\ [Next]_vars =>
        ClosedIsSettled' /\ [Promise!Next]_(Promise!vars)
  BY NextImplements DEF PromiseStep
<1>. QED
  BY <1>1, <1>2, Invariance, PTL DEF Spec, KeepsPromise, Promise!Spec
=============================================================================
