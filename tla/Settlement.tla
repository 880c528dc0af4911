----------------------------- MODULE Settlement -----------------------------
(***************************************************************************)
(* The money path of service.ts: a deal is closed, its buyer opens the     *)
(* hosted checkout page, pays through a Stripe Checkout Session, and the   *)
(* Stripe webhook settles the deal and records the buyer's entitlement.    *)
(*                                                                         *)
(* Every store call is atomic, nothing else is: a handler is cut at each   *)
(* await, keeps what it read before it, and the other handlers run there.  *)
(* A handler may also die at an await (process killed, store call          *)
(* rejected); Stripe delivers an event again until it is acknowledged, may *)
(* deliver it again after that, and may deliver it twice at a time.        *)
(*                                                                         *)
(* One tick of the clock is 15 minutes.                                    *)
(***************************************************************************)
EXTENDS Naturals, FiniteSets

CONSTANTS
  Deals,            \* deal ids; each is negotiated by one session
  Proofs,           \* the jtis that can be minted
  Checkouts,        \* the Stripe Checkout Sessions that can be created
  Requests,         \* page views and Pay posts in flight at a time
  Hooks,            \* webhook deliveries in flight at a time
  NoDeal, NoProof, NoCheckout,
  ProofTtl,         \* proof.ts DEFAULT_TTL_MS, in ticks
  CheckoutTtl,      \* life of a Stripe Checkout Session, in ticks
  MaxNow,           \* bound on the clock
  MaxAccounts,      \* bound on the merchant's connected accounts
  MaxFaults         \* bound on the handlers that die

ASSUME NullsAreFresh ==
  /\ NoDeal \notin Deals
  /\ NoProof \notin Proofs
  /\ NoCheckout \notin Checkouts

ASSUME TicksAreNaturals ==
  /\ ProofTtl \in Nat /\ CheckoutTtl \in Nat \ {0}
  /\ MaxNow \in Nat /\ MaxAccounts \in Nat /\ MaxFaults \in Nat

VARIABLES
  deal,        \* the deals table
  session,     \* status of the session each deal was negotiated in
  proof,       \* the proofs minted: the deal and the expiry each one carries
  redeemed,    \* the proof_redemptions table: jtis already spent
  account,     \* merchant.stripeConnectId; 0 while it is null
  checkout,    \* Stripe's side: the Checkout Sessions
  events,      \* Stripe's side: events it may still deliver
  request,     \* page views and Pay posts between two awaits
  hook,        \* webhook deliveries between two awaits
  entitled,    \* how many entitlement.recorded events each deal has
  notified,    \* how many times the merchant was told of each deal
  now,         \* the clock
  faults       \* handlers that died so far

store    == <<deal, session, redeemed, account, entitled>>
external == <<checkout, events, notified, now>>
vars     == <<deal, session, proof, redeemed, account, checkout, events,
              request, hook, entitled, notified, now, faults>>

-----------------------------------------------------------------------------
(* Types *)

DealRecord ==
  [status         : {"none", "pending", "settled"},
   checkoutStatus : {"none", "pending", "completed"},
   checkoutId     : Checkouts \cup {NoCheckout},
   expiresAt      : Nat,
   subscription   : Checkouts \cup {NoCheckout}]

\* The subscription id a webhook carries is named after its Checkout Session.
ProofRecord == [deal : Deals \cup {NoDeal}, exp : Nat]

\* "created": the session exists and no buyer has its URL; "open": one may have.
CheckoutRecord ==
  [state     : {"none", "created", "open", "unpaid", "paid", "failed"},
   deal      : Deals \cup {NoDeal},
   proof     : Proofs \cup {NoProof},
   account   : 0..MaxAccounts,
   expiresAt : Nat]

RequestRecord ==
  [pc          : {"idle", "viewing", "paying", "verified", "burned", "created"},
   deal        : Deals \cup {NoDeal},
   proof       : Proofs \cup {NoProof},
   resumeUntil : Nat,
   checkout    : Checkouts \cup {NoCheckout}]

HookRecord ==
  [pc       : {"idle", "matched", "checked", "dealSettled", "sessionSettled",
               "recorded"},
   deal     : Deals \cup {NoDeal},
   checkout : Checkouts \cup {NoCheckout},
   paid     : BOOLEAN]

Event == [checkout : Checkouts, paid : BOOLEAN]

TypeOK ==
  /\ deal \in [Deals -> DealRecord]
  /\ session \in [Deals -> {"open", "accepted", "settled"}]
  /\ proof \in [Proofs -> ProofRecord]
  /\ redeemed \subseteq Proofs
  /\ account \in 0..MaxAccounts
  /\ checkout \in [Checkouts -> CheckoutRecord]
  /\ events \subseteq Event
  /\ request \in [Requests -> RequestRecord]
  /\ hook \in [Hooks -> HookRecord]
  /\ entitled \in [Deals -> Nat]
  /\ notified \in [Deals -> Nat]
  /\ now \in Nat
  /\ faults \in 0..MaxFaults

-----------------------------------------------------------------------------
IdleRequest == [pc |-> "idle", deal |-> NoDeal, proof |-> NoProof,
                resumeUntil |-> 0, checkout |-> NoCheckout]

IdleHook == [pc |-> "idle", deal |-> NoDeal, checkout |-> NoCheckout,
             paid |-> FALSE]

Init ==
  /\ deal = [d \in Deals |-> [status |-> "none", checkoutStatus |-> "none",
                              checkoutId |-> NoCheckout, expiresAt |-> 0,
                              subscription |-> NoCheckout]]
  /\ session = [d \in Deals |-> "open"]
  /\ proof = [p \in Proofs |-> [deal |-> NoDeal, exp |-> 0]]
  /\ redeemed = {}
  /\ account = 0
  /\ checkout = [c \in Checkouts |-> [state |-> "none", deal |-> NoDeal,
                                      proof |-> NoProof, account |-> 0,
                                      expiresAt |-> 0]]
  /\ events = {}
  /\ request = [r \in Requests |-> IdleRequest]
  /\ hook = [h \in Hooks |-> IdleHook]
  /\ entitled = [d \in Deals |-> 0]
  /\ notified = [d \in Deals |-> 0]
  /\ now = 0
  /\ faults = 0

-----------------------------------------------------------------------------
(* Proofs *)

Minted(p) == proof[p].deal # NoDeal

\* Seeded fault: the lifetime is subtracted.
ExpiryBackwards(ttl) == now - ttl

Expiry(ttl) == now + ttl

\* mintProof: a jti no proof has yet, for deal d, good for ProofTtl.
Mint(d) ==
  \E p \in Proofs :
    /\ ~Minted(p)
    /\ proof' = [proof EXCEPT ![p] = [deal |-> d, exp |-> Expiry(ProofTtl)]]

\* ProofVerifier.verify, of a token this service signed.
Verifies(p) == now <= proof[p].exp

\* What verifyProof and the callers' deal_id comparison accept.
ProofOk(p, d) ==
  /\ p \in Proofs \ redeemed
  /\ proof[p].deal = d
  /\ Verifies(p)

\* What a page or a Pay post can carry: a proof the service issued, or none.
Presentable == {p \in Proofs : Minted(p)} \cup {NoProof}

\* closeDeal: the accepted session gets its pending deal and a first proof.
\* No Stripe object exists yet.
CloseDeal(d) ==
  /\ deal[d].status = "none"
  /\ deal' = [deal EXCEPT ![d].status = "pending"]
  /\ session' = [session EXCEPT ![d] = "accepted"]
  /\ Mint(d)
  /\ UNCHANGED <<redeemed, account, entitled, external, request, hook, faults>>

\* startConnectOnboarding stores a newly created account. Two onboardings that
\* both started before either was stored leave the later one: the account of
\* the merchant can change under checkouts created on the earlier one.
Connect ==
  /\ account < MaxAccounts
  /\ account' = account + 1
  /\ UNCHANGED <<deal, session, proof, redeemed, entitled, external, request,
                 hook, faults>>

-----------------------------------------------------------------------------
(* The hosted checkout page: getCheckoutView and startCheckout *)

\* Until when the deal, as read, has a Stripe session to resume; 0 for none.
ResumeUntil(d) ==
  IF deal[d].checkoutStatus = "pending" THEN deal[d].expiresAt ELSE 0

Resumable(r) == request[r].resumeUntil > now

\* Seeded fault: a settled deal can still be paid.
PayableAlways(d) == deal[d].status # "none"

\* The early returns of both handlers: an unknown or settled deal is answered
\* at once.
Payable(d) == deal[d].status = "pending"

Begin(r, d, p, pc) ==
  /\ request[r].pc = "idle"
  /\ Payable(d)
  /\ p \in Presentable
  /\ request' = [request EXCEPT ![r] =
                   [pc |-> pc, deal |-> d, proof |-> p,
                    resumeUntil |-> ResumeUntil(d), checkout |-> NoCheckout]]

Finish(r) == request' = [request EXCEPT ![r] = IdleRequest]

\* getCheckoutView reads the deal. A settled or unknown deal changes nothing.
ViewDeal(r, d, p) ==
  /\ Begin(r, d, p, "viewing")
  /\ UNCHANGED <<store, proof, external, hook, faults>>

\* ... and answers: resume the open session, show the verified price, or
\* re-mint a proof, from the deal as it was read.
AnswerView(r) ==
  /\ request[r].pc = "viewing"
  /\ Finish(r)
  /\ IF Resumable(r) \/ ProofOk(request[r].proof, request[r].deal)
       THEN UNCHANGED proof
       ELSE Mint(request[r].deal)
  /\ UNCHANGED <<store, external, hook, faults>>

\* startCheckout reads the deal. A settled deal goes back to its page.
PayDeal(r, d, p) ==
  /\ Begin(r, d, p, "paying")
  /\ UNCHANGED <<store, proof, external, hook, faults>>

\* Resume an open, unexpired session, reject a bad proof, or go on to burn it.
VerifyProof(r) ==
  /\ request[r].pc = "paying"
  /\ IF ~Resumable(r) /\ ProofOk(request[r].proof, request[r].deal)
       THEN request' = [request EXCEPT ![r].pc = "verified",
                                       ![r].resumeUntil = 0]
       ELSE Finish(r)
  /\ UNCHANGED <<store, proof, external, hook, faults>>

\* Seeded fault: the insert of a jti already there counts as won.
WinsAlways(p) == p \in Proofs

Wins(p) == p \notin redeemed

\* redeemProof, atomic in both stores: one caller wins the jti, a loser answers
\* with the winner's session or sends the buyer back to the page.
RedeemProof(r) ==
  /\ request[r].pc = "verified"
  /\ IF Wins(request[r].proof)
       THEN /\ redeemed' = redeemed \cup {request[r].proof}
            /\ request' = [request EXCEPT ![r].pc = "burned"]
       ELSE /\ Finish(r)
            /\ UNCHANGED redeemed
  /\ UNCHANGED <<deal, session, account, entitled, proof, external, hook, faults>>

\* stripe.createCheckout on the account the merchant has now. The idempotency
\* key holds the jti, so each burned proof asks for a session of its own.
CreateCheckout(r) ==
  /\ request[r].pc = "burned"
  /\ \E c \in Checkouts :
       /\ checkout[c].state = "none"
       /\ checkout' = [checkout EXCEPT ![c] =
                         [state |-> "created", deal |-> request[r].deal,
                          proof |-> request[r].proof, account |-> account,
                          expiresAt |-> Expiry(CheckoutTtl)]]
       /\ request' = [request EXCEPT ![r].pc = "created", ![r].checkout = c]
  /\ UNCHANGED <<store, proof, events, notified, now, hook, faults>>

\* ... or Stripe refuses: the jti stays spent, the page re-mints.
CheckoutFails(r) ==
  /\ request[r].pc = "burned"
  /\ Finish(r)
  /\ UNCHANGED <<store, proof, external, hook, faults>>

\* Seeded fault: the whole record is written back, with the status it was read
\* with.
WithCheckoutStale(d, c) ==
  [deal[d] EXCEPT !.checkoutId = c, !.checkoutStatus = "pending",
                  !.expiresAt = checkout[c].expiresAt, !.status = "pending"]

WithCheckout(d, c) ==
  [deal[d] EXCEPT !.checkoutId = c, !.checkoutStatus = "pending",
                  !.expiresAt = checkout[c].expiresAt]

\* The session goes into the deal, whatever the deal holds by now, and its URL
\* goes to the buyer.
StoreCheckout(r) ==
  LET d == request[r].deal
      c == request[r].checkout
  IN  /\ request[r].pc = "created"
      /\ deal' = [deal EXCEPT ![d] = WithCheckout(d, c)]
      /\ checkout' = [checkout EXCEPT ![c].state = "open"]
      /\ Finish(r)
      /\ UNCHANGED <<session, redeemed, account, entitled, proof, events,
                     notified, now, hook, faults>>

-----------------------------------------------------------------------------
(* Stripe *)

\* The buyer completes an unexpired session: a card is paid at once, a bank
\* debit completes unpaid.
Complete(c) ==
  /\ checkout[c].state = "open"
  /\ now < checkout[c].expiresAt
  /\ \E paid \in BOOLEAN :
       /\ checkout' = [checkout EXCEPT ![c].state =
                         IF paid THEN "paid" ELSE "unpaid"]
       /\ events' = events \cup {[checkout |-> c, paid |-> paid]}
  /\ UNCHANGED <<store, proof, request, hook, notified, now, faults>>

\* checkout.session.async_payment_succeeded: the bank debit lands, later.
FundsLand(c) ==
  /\ checkout[c].state = "unpaid"
  /\ checkout' = [checkout EXCEPT ![c].state = "paid"]
  /\ events' = events \cup {[checkout |-> c, paid |-> TRUE]}
  /\ UNCHANGED <<store, proof, request, hook, notified, now, faults>>

\* checkout.session.async_payment_failed: normalized to an ignored event.
FundsFail(c) ==
  /\ checkout[c].state = "unpaid"
  /\ checkout' = [checkout EXCEPT ![c].state = "failed"]
  /\ UNCHANGED <<store, proof, events, request, hook, notified, now, faults>>

-----------------------------------------------------------------------------
(* The webhook: handleStripeEvent and notifyEntitlement *)

EventOf(h) == [checkout |-> hook[h].checkout, paid |-> hook[h].paid]

\* Stripe has its 200; it may or may not deliver the event again.
Acknowledge(e) == events' = events \/ events' = events \ {e}

\* getDealByCheckoutId
DealsOf(c) == {d \in Deals : deal[d].checkoutId = c}

\* Seeded fault: the settled guard of the handler is gone.
UnsettledAlways(d) == deal[d].status # "none"

Unsettled(d) == deal[d].status # "settled"

\* No deal has this checkout id, or its deal is settled already: answer 200.
IgnoreEvent(e) ==
  /\ \A d \in DealsOf(e.checkout) : ~Unsettled(d)
  /\ Acknowledge(e)
  /\ UNCHANGED <<store, proof, checkout, request, hook, notified, now, faults>>

\* Seeded fault: 200 before the work is done.
ReceiveAndAcknowledge(e) == events' = events \ {e}

\* The route answers after handleStripeEvent: until then Stripe keeps the event.
Receive(e) == events' = events

\* A delivery finds an unsettled deal.
MatchDeal(h, e) ==
  /\ hook[h].pc = "idle"
  /\ Receive(e)
  /\ \E d \in DealsOf(e.checkout) :
       /\ Unsettled(d)
       /\ hook' = [hook EXCEPT ![h] = [pc |-> "matched", deal |-> d,
                                       checkout |-> e.checkout,
                                       paid |-> e.paid]]
  /\ UNCHANGED <<store, proof, checkout, notified, now, request, faults>>

Respond(h) ==
  /\ hook' = [hook EXCEPT ![h] = IdleHook]
  /\ Acknowledge(EventOf(h))

\* An event without an account, or from the account the merchant has now.
InAccount(c) == checkout[c].account \in {0, account}

\* Seeded fault: every completed session settles, funds or no funds.
SettlesUnpaid(h) == InAccount(hook[h].checkout)

Settles(h) == InAccount(hook[h].checkout) /\ hook[h].paid

\* getMerchant, then the account and payment_status gates.
CheckEvent(h) ==
  /\ hook[h].pc = "matched"
  /\ IF Settles(h)
       THEN /\ hook' = [hook EXCEPT ![h].pc = "checked"]
            /\ UNCHANGED events
       ELSE Respond(h)
  /\ UNCHANGED <<store, proof, checkout, request, notified, now, faults>>

\* updateDeal: an unconditional write, of a deal read two awaits ago.
SettleDeal(h) ==
  LET d == hook[h].deal IN
  /\ hook[h].pc = "checked"
  /\ deal' = [deal EXCEPT ![d].status = "settled",
                          ![d].subscription = hook[h].checkout,
                          ![d].checkoutStatus = "completed"]
  /\ hook' = [hook EXCEPT ![h].pc = "dealSettled"]
  /\ UNCHANGED <<session, redeemed, account, entitled, proof, external,
                 request, faults>>

SettleSession(h) ==
  /\ hook[h].pc = "dealSettled"
  /\ session' = [session EXCEPT ![hook[h].deal] = "settled"]
  /\ hook' = [hook EXCEPT ![h].pc = "sessionSettled"]
  /\ UNCHANGED <<deal, redeemed, account, entitled, proof, external, request,
                 faults>>

\* The durable entitlement.recorded event, before any outbound attempt.
RecordEntitlement(h) ==
  /\ hook[h].pc = "sessionSettled"
  /\ entitled' = [entitled EXCEPT ![hook[h].deal] = @ + 1]
  /\ hook' = [hook EXCEPT ![h].pc = "recorded"]
  /\ UNCHANGED <<deal, session, redeemed, account, proof, external, request,
                 faults>>

\* Tell the merchant, best effort: delivered, or failed or skipped and logged.
\* Either way the handler returns 200.
NotifyMerchant(h) ==
  /\ hook[h].pc = "recorded"
  /\ \/ notified' = [notified EXCEPT ![hook[h].deal] = @ + 1]
     \/ UNCHANGED notified
  /\ Respond(h)
  /\ UNCHANGED <<store, proof, checkout, request, now, faults>>

-----------------------------------------------------------------------------
(* Faults and time *)

\* A handler dies at an await. What it wrote stays; Stripe has no answer.
RequestDies(r) ==
  /\ faults < MaxFaults
  /\ request[r].pc # "idle"
  /\ Finish(r)
  /\ faults' = faults + 1
  /\ UNCHANGED <<store, proof, external, hook>>

HookDies(h) ==
  /\ faults < MaxFaults
  /\ hook[h].pc # "idle"
  /\ hook' = [hook EXCEPT ![h] = IdleHook]
  /\ faults' = faults + 1
  /\ UNCHANGED <<store, proof, external, request>>

Tick ==
  /\ now < MaxNow
  /\ now' = now + 1
  /\ UNCHANGED <<store, proof, checkout, events, notified, request, hook, faults>>

HookStep(h) ==
  \/ CheckEvent(h) \/ SettleDeal(h) \/ SettleSession(h)
  \/ RecordEntitlement(h) \/ NotifyMerchant(h)

RequestStep(r) ==
  \/ AnswerView(r) \/ VerifyProof(r) \/ RedeemProof(r)
  \/ CreateCheckout(r) \/ CheckoutFails(r) \/ StoreCheckout(r)

Next ==
  \/ \E d \in Deals : CloseDeal(d)
  \/ Connect
  \/ \E r \in Requests, d \in Deals, p \in Presentable :
       ViewDeal(r, d, p) \/ PayDeal(r, d, p)
  \/ \E r \in Requests : RequestStep(r) \/ RequestDies(r)
  \/ \E c \in Checkouts : Complete(c) \/ FundsLand(c) \/ FundsFail(c)
  \/ \E e \in events : IgnoreEvent(e) \/ \E h \in Hooks : MatchDeal(h, e)
  \/ \E h \in Hooks : HookStep(h) \/ HookDies(h)
  \/ Tick

Spec == Init /\ [][Next]_vars

\* A started delivery runs on, and Stripe goes on delivering an event it has no
\* answer to; a delivery needs no other delivery to end first (each is its own
\* invocation), the pool Hooks is a bound of the model only.
Fairness ==
  /\ \A h \in Hooks : WF_vars(HookStep(h))
  /\ \A c \in Checkouts :
       SF_vars(\E h \in Hooks : /\ [checkout |-> c, paid |-> TRUE] \in events
                                /\ MatchDeal(h, [checkout |-> c, paid |-> TRUE]))

FairSpec == Spec /\ Fairness
-----------------------------------------------------------------------------
(* Properties *)

SessionsOf(d) == {c \in Checkouts : checkout[c].deal = d}

IsPaid(c) == checkout[c].state = "paid"

\* A proof buys one Stripe session, of its own deal: the jti of every session is
\* spent and was minted for the deal that is charged, and no two sessions came
\* from the same jti, however many requests raced with it (startCheckout burns
\* the jti before it creates the session).
ProofSingleUse ==
  /\ \A c \in Checkouts :
       checkout[c].state # "none" =>
         /\ checkout[c].proof \in redeemed
         /\ proof[checkout[c].proof].deal = checkout[c].deal
  /\ \A c1, c2 \in Checkouts :
       /\ checkout[c1].state # "none"
       /\ checkout[c1].proof = checkout[c2].proof
       => c1 = c2

\* A settled deal is settled by a captured payment of a session of its own,
\* although the session ids in deals are overwritten and the deal was read two
\* awaits before it is written (handleStripeEvent's payment_status gate).
SettledByOwnPayment ==
  \A d \in Deals :
    deal[d].status = "settled" =>
      /\ deal[d].subscription \in SessionsOf(d)
      /\ IsPaid(deal[d].subscription)

\* Money, deal, session, record, merchant: in that order and never back.
Promise == INSTANCE SettlementPromise WITH
  funded  <- {d \in Deals : \E c \in SessionsOf(d) : IsPaid(c)},
  settled <- {d \in Deals : deal[d].status = "settled"},
  closed  <- {d \in Deals : session[d] = "settled"},
  granted <- {d \in Deals : entitled[d] > 0},
  told    <- {d \in Deals : notified[d] > 0}

KeepsPromise == Promise!Spec

\* Deliveries that overlap can each record and notify, those that follow cannot:
\* a deal has no more records than deliveries can overlap, and no more
\* notifications than records. With one delivery at a time this is the
\* "a redelivered Stripe event does not double-notify" of service.test.ts.
RecordsBounded ==
  \A d \in Deals : /\ entitled[d] <= Cardinality(Hooks)
                   /\ notified[d] <= entitled[d]

PaysInFlight(d) ==
  {r \in Requests : request[r].deal = d /\ request[r].pc \notin {"idle", "viewing"}}

\* Once a deal is settled and the Pay posts that began before are answered, no
\* Pay post of it begins and no Stripe session of it is created (the settled
\* guard of startCheckout).
SettledStopsSelling ==
  [][\A d \in Deals :
       deal[d].status = "settled" /\ PaysInFlight(d) = {} =>
         PaysInFlight(d)' = {} /\ SessionsOf(d)' = SessionsOf(d)]_vars

\* A captured payment of the session its deal holds settles the deal, whatever
\* deliveries die, unless a later checkout replaces that session or the merchant
\* comes to another Stripe account than the session was created in: its events
\* are then acknowledged as account_mismatch and the payment settles nothing.
PaidSettles ==
  \A c \in Checkouts, d \in Deals :
    IsPaid(c) /\ deal[d].checkoutId = c /\ InAccount(c) ~>
      deal[d].status = "settled" \/ deal[d].checkoutId # c \/ ~InAccount(c)

\* No event of the session waits for delivery and no delivery of it runs.
Quiet(c) ==
  /\ \A e \in events : e.checkout # c
  /\ \A h \in Hooks : hook[h].checkout # c

\* service.ts:1344 "Resume/idempotency keep an abandoned or double-tapped
\* checkout from charging twice": at most one session of a deal is paid.
ChargedOnce ==
  \A d \in Deals : Cardinality({c \in SessionsOf(d) : IsPaid(c)}) <= 1

\* service.ts:1345 "... or stranding the deal": when Stripe has nothing more to
\* say of a paid session, its deal is settled.
PaidIsSettled ==
  \A c \in Checkouts :
    IsPaid(c) /\ Quiet(c) => deal[checkout[c].deal].status = "settled"

\* service.ts:1155 "a settlement that happened is always recorded": when Stripe
\* has nothing more to say of the session that settled a deal, the entitlement
\* of the deal is recorded.
SettledIsRecorded ==
  \A d \in Deals :
    deal[d].status = "settled" /\ Quiet(deal[d].subscription) => entitled[d] > 0
=============================================================================
