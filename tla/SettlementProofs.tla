-------------------------- MODULE SettlementProofs --------------------------
(***************************************************************************)
(* Theorems of Settlement, for any number of deals, proofs, checkouts and  *)
(* handlers: type correctness, single use of proofs, settlement by an own  *)
(* captured payment, the end of sales, the bound on records.               *)
(***************************************************************************)
EXTENDS Settlement, FiniteSetTheorems, TLAPS

-----------------------------------------------------------------------------
(* The inductive invariant *)

Exists(c) == checkout[c].state # "none"

\* A jti spent was minted.
SpentWasMinted == \A p \in redeemed : Minted(p)

\* A request is for a deal, and past verification it holds a proof of it.
VerifiedHoldsProof ==
  \A r \in Requests :
    /\ request[r].pc # "idle" => request[r].deal \in Deals
    /\ request[r].pc \in {"verified", "burned", "created"} =>
         /\ request[r].proof \in Proofs
         /\ proof[request[r].proof].deal = request[r].deal

\* A request past redemption owns its jti: it is spent, and by it alone.
BurnedOwnsProof ==
  \A r \in Requests :
    request[r].pc \in {"burned", "created"} =>
      /\ request[r].proof \in redeemed
      /\ \A s \in Requests :
           /\ request[s].pc \in {"burned", "created"}
           /\ request[s].proof = request[r].proof
           => s = r

\* No session was created with a jti still to be used.
BurnedIsUnused ==
  \A r \in Requests, c \in Checkouts :
    request[r].pc = "burned" /\ Exists(c) => checkout[c].proof # request[r].proof

\* A request that created a session has it to itself.
CreatedHasSession ==
  \A r \in Requests :
    request[r].pc = "created" =>
      /\ request[r].checkout \in Checkouts
      /\ checkout[request[r].checkout].state = "created"
      /\ checkout[request[r].checkout].deal = request[r].deal
      /\ checkout[request[r].checkout].proof = request[r].proof

\* The sessions that do not exist carry nothing.
AbsentIsBlank ==
  \A c \in Checkouts :
    IF Exists(c) THEN checkout[c].deal \in Deals
                 ELSE checkout[c].deal = NoDeal /\ checkout[c].proof = NoProof

\* A deal holds a session of its own that buyers can have.
DealHoldsOwnSession ==
  \A d \in Deals :
    deal[d].checkoutId # NoCheckout =>
      /\ checkout[deal[d].checkoutId].deal = d
      /\ checkout[deal[d].checkoutId].state \notin {"none", "created"}

\* A paid event tells of a captured payment.
PaidEventIsTrue == \A e \in events : e.paid => IsPaid(e.checkout)

\* A delivery works on the deal of its session, and past the gates that session
\* is paid.
DeliveryIsOfPaid ==
  \A h \in Hooks :
    hook[h].pc # "idle" =>
      /\ hook[h].deal \in Deals
      /\ hook[h].checkout \in Checkouts
      /\ checkout[hook[h].checkout].deal = hook[h].deal
      /\ hook[h].paid => IsPaid(hook[h].checkout)
      /\ hook[h].pc # "matched" => hook[h].paid

\* How far a delivery got is how far its deal is.
DeliveryProgress ==
  \A h \in Hooks :
    LET d == hook[h].deal IN
      /\ hook[h].pc \in {"dealSettled", "sessionSettled", "recorded"} =>
           deal[d].status = "settled"
      /\ hook[h].pc \in {"sessionSettled", "recorded"} => session[d] = "settled"
      /\ hook[h].pc = "recorded" => entitled[d] > 0

IInv ==
  /\ TypeOK
  /\ SpentWasMinted
  /\ VerifiedHoldsProof
  /\ BurnedOwnsProof
  /\ BurnedIsUnused
  /\ CreatedHasSession
  /\ AbsentIsBlank
  /\ ProofSingleUse
  /\ DealHoldsOwnSession
  /\ PaidEventIsTrue
  /\ DeliveryIsOfPaid
  /\ DeliveryProgress
  /\ SettledByOwnPayment
-----------------------------------------------------------------------------
(* The invariant is preserved by every step *)

\* Idle handlers are well typed.
LEMMA IdleTypes == IdleRequest \in RequestRecord /\ IdleHook \in HookRecord
BY DEF IdleRequest, RequestRecord, IdleHook, HookRecord

\* A new deal and its first proof disturb no request, session or delivery.
LEMMA CloseDealStep ==
  ASSUME IInv, NEW d \in Deals, CloseDeal(d)
  PROVE  IInv'
<1>1. TypeOK'
  <2>1. deal' \in [Deals -> DealRecord]
    BY DEF CloseDeal, DealRecord, IInv, TypeOK
  <2>2. proof' \in [Proofs -> ProofRecord]
    BY TicksAreNaturals DEF CloseDeal, Mint, Expiry, ProofRecord, IInv, TypeOK
  <2>. QED
    BY <2>1, <2>2 DEF CloseDeal, external, IInv, TypeOK
<1>2. SpentWasMinted'
  BY <1>1, NullsAreFresh DEF IInv, TypeOK, SpentWasMinted, CloseDeal, Mint, Minted, Expiry, external, ProofRecord
<1>3. VerifiedHoldsProof'
  BY <1>1, NullsAreFresh DEF IInv, TypeOK, VerifiedHoldsProof, CloseDeal, Mint, Minted, Expiry, external, ProofRecord
<1>4. ProofSingleUse'
  <2>1. \A p \in redeemed : proof'[p] = proof[p]
    BY DEF CloseDeal, Mint, IInv, TypeOK, SpentWasMinted
  <2>. QED
    BY <2>1 DEF CloseDeal, external, IInv, ProofSingleUse
<1>5. DealHoldsOwnSession'
  BY <1>1, NullsAreFresh DEF IInv, TypeOK, DealHoldsOwnSession, CloseDeal, Mint, Minted, Expiry, external, DealRecord
<1>6. DeliveryProgress'
  BY <1>1, NullsAreFresh DEF IInv, TypeOK, DeliveryProgress, CloseDeal, Mint, Minted, Expiry, external, DealRecord
<1>7. SettledByOwnPayment'
  BY <1>1, NullsAreFresh DEF IInv, TypeOK, SettledByOwnPayment, CloseDeal, Mint, Minted, Expiry, external, SessionsOf, IsPaid, DealRecord
<1>. QED
  BY <1>1, <1>2, <1>3, <1>4, <1>5, <1>6, <1>7 DEF IInv, CloseDeal, Mint, Minted, Expiry, external, BurnedOwnsProof, BurnedIsUnused, Exists, CreatedHasSession, AbsentIsBlank, PaidEventIsTrue, IsPaid, DeliveryIsOfPaid

\* The invariant does not look at the connected account.
LEMMA ConnectStep ==
  ASSUME IInv, Connect
  PROVE  IInv'
<1>1. TypeOK'
  BY IdleTypes, TicksAreNaturals, NullsAreFresh DEF IInv, TypeOK, Connect, external
<1>. QED
  BY <1>1 DEF IInv, Connect, external, SpentWasMinted, Minted, VerifiedHoldsProof, BurnedOwnsProof, BurnedIsUnused, Exists, CreatedHasSession, AbsentIsBlank, ProofSingleUse, DealHoldsOwnSession, PaidEventIsTrue, IsPaid, DeliveryIsOfPaid, DeliveryProgress, SettledByOwnPayment, SessionsOf

\* A page view or a Pay post begins for a deal, with a proof or none.
LEMMA ViewOrPayStep ==
  ASSUME IInv, NEW r \in Requests, NEW d \in Deals, NEW p \in Presentable, ViewDeal(r, d, p) \/ PayDeal(r, d, p)
  PROVE  IInv'
<1>1. TypeOK'
  <2>1. ResumeUntil(d) \in Nat
    BY DEF ResumeUntil, DealRecord, IInv, TypeOK
  <2>2. PICK pc \in {"viewing", "paying"} : Begin(r, d, p, pc)
    BY DEF ViewDeal, PayDeal
  <2>3. [pc |-> pc, deal |-> d, proof |-> p, resumeUntil |-> ResumeUntil(d),
         checkout |-> NoCheckout] \in RequestRecord
    BY <2>1 DEF RequestRecord, Presentable
  <2>4. request' \in [Requests -> RequestRecord]
    BY <2>2, <2>3 DEF Begin, IInv, TypeOK
  <2>. QED
    BY <2>4 DEF ViewDeal, PayDeal, store, external, IInv, TypeOK
<1>2. VerifiedHoldsProof'
  BY <1>1, NullsAreFresh DEF IInv, TypeOK, VerifiedHoldsProof, ViewDeal, PayDeal, Begin, ResumeUntil, Presentable, store, external, IdleRequest, RequestRecord
<1>3. BurnedOwnsProof'
  BY <1>1, NullsAreFresh DEF IInv, TypeOK, BurnedOwnsProof, ViewDeal, PayDeal, Begin, ResumeUntil, Presentable, store, external, IdleRequest, RequestRecord
<1>4. BurnedIsUnused'
  BY <1>1, NullsAreFresh DEF IInv, TypeOK, BurnedIsUnused, ViewDeal, PayDeal, Begin, ResumeUntil, Presentable, store, external, Exists, IdleRequest, RequestRecord
<1>5. CreatedHasSession'
  BY <1>1, NullsAreFresh DEF IInv, TypeOK, CreatedHasSession, ViewDeal, PayDeal, Begin, ResumeUntil, Presentable, store, external, IdleRequest, RequestRecord
<1>. QED
  BY <1>1, <1>2, <1>3, <1>4, <1>5 DEF IInv, ViewDeal, PayDeal, Begin, ResumeUntil, Presentable, store, external, SpentWasMinted, Minted, AbsentIsBlank, Exists, ProofSingleUse, DealHoldsOwnSession, PaidEventIsTrue, IsPaid, DeliveryIsOfPaid, DeliveryProgress, SettledByOwnPayment, SessionsOf

\* A view answers, at most with a proof whose jti nobody holds.
LEMMA AnswerViewStep ==
  ASSUME IInv, NEW r \in Requests, AnswerView(r)
  PROVE  IInv'
<1>1. TypeOK'
  BY IdleTypes, TicksAreNaturals, NullsAreFresh DEF IInv, TypeOK, AnswerView, Finish, Mint, Minted, Expiry, store, external, ProofRecord, RequestRecord
<1>2. SpentWasMinted'
  BY <1>1, NullsAreFresh DEF IInv, TypeOK, SpentWasMinted, AnswerView, Finish, Mint, Minted, Expiry, store, external, ProofRecord
<1>3. VerifiedHoldsProof'
  BY <1>1, NullsAreFresh DEF IInv, TypeOK, VerifiedHoldsProof, AnswerView, Finish, Mint, Minted, Expiry, store, external, IdleRequest, ProofRecord, RequestRecord
<1>4. BurnedOwnsProof'
  BY <1>1, NullsAreFresh DEF IInv, TypeOK, BurnedOwnsProof, AnswerView, Finish, Mint, Minted, Expiry, store, external, IdleRequest, RequestRecord
<1>5. BurnedIsUnused'
  BY <1>1, NullsAreFresh DEF IInv, TypeOK, BurnedIsUnused, AnswerView, Finish, Mint, Minted, Expiry, store, external, Exists, IdleRequest, RequestRecord
<1>6. CreatedHasSession'
  BY <1>1, NullsAreFresh DEF IInv, TypeOK, CreatedHasSession, AnswerView, Finish, Mint, Minted, Expiry, store, external, IdleRequest, RequestRecord
<1>7. ProofSingleUse'
  <2>1. \A p \in redeemed : proof'[p] = proof[p]
    BY DEF AnswerView, Mint, IInv, TypeOK, SpentWasMinted
  <2>. QED
    BY <2>1 DEF AnswerView, store, external, IInv, ProofSingleUse
<1>. QED
  BY <1>1, <1>2, <1>3, <1>4, <1>5, <1>6, <1>7 DEF IInv, AnswerView, Finish, Mint, Minted, Expiry, store, external, AbsentIsBlank, Exists, DealHoldsOwnSession, PaidEventIsTrue, IsPaid, DeliveryIsOfPaid, DeliveryProgress, SettledByOwnPayment, SessionsOf

\* Past verification a request holds a proof of its deal.
LEMMA VerifyProofStep ==
  ASSUME IInv, NEW r \in Requests, VerifyProof(r)
  PROVE  IInv'
<1>1. TypeOK'
  BY IdleTypes, TicksAreNaturals, NullsAreFresh DEF IInv, TypeOK, VerifyProof, ProofOk, Finish, store, external, RequestRecord
<1>2. VerifiedHoldsProof'
  <2>1. request[r].pc = "paying"
    BY DEF VerifyProof
  <2>2. \/ /\ request' = [request EXCEPT ![r].pc = "verified", ![r].resumeUntil = 0]
           /\ ProofOk(request[r].proof, request[r].deal)
        \/ request' = [request EXCEPT ![r] = IdleRequest]
    BY DEF VerifyProof, Finish
  <2>3. CASE request' = [request EXCEPT ![r] = IdleRequest]
    BY <2>3 DEF IInv, TypeOK, VerifiedHoldsProof, VerifyProof, IdleRequest
  <2>4. CASE /\ request' = [request EXCEPT ![r].pc = "verified", ![r].resumeUntil = 0]
             /\ ProofOk(request[r].proof, request[r].deal)
    BY <2>1, <2>4 DEF ProofOk, IInv, TypeOK, VerifiedHoldsProof, VerifyProof,
                      store
  <2>. QED
    BY <2>2, <2>3, <2>4
<1>3. BurnedOwnsProof'
  <2>1. \A s \in Requests :
          request'[s].pc \in {"burned", "created"} => request'[s] = request[s]
    <3>1. \A s \in Requests \ {r} : request'[s] = request[s]
      BY DEF VerifyProof, Finish, IInv, TypeOK
    <3>2. request'[r].pc \in {"verified", "idle"}
      BY <1>1 DEF VerifyProof, Finish, IdleRequest, IInv, TypeOK, RequestRecord
    <3>. QED
      BY <3>1, <3>2
  <2>. QED
    BY <2>1 DEF VerifyProof, store, IInv, BurnedOwnsProof
<1>4. BurnedIsUnused'
  BY <1>1, NullsAreFresh DEF IInv, TypeOK, BurnedIsUnused, VerifyProof, ProofOk, Finish, store, external, Exists, IdleRequest, RequestRecord
<1>5. CreatedHasSession'
  BY <1>1, NullsAreFresh DEF IInv, TypeOK, CreatedHasSession, VerifyProof, ProofOk, Finish, store, external, IdleRequest, RequestRecord
<1>. QED
  BY <1>1, <1>2, <1>3, <1>4, <1>5 DEF IInv, VerifyProof, ProofOk, Finish, store, external, SpentWasMinted, Minted, AbsentIsBlank, Exists, ProofSingleUse, DealHoldsOwnSession, PaidEventIsTrue, IsPaid, DeliveryIsOfPaid, DeliveryProgress, SettledByOwnPayment, SessionsOf

\* The winner of a jti owns it alone, and no session was created with it.
LEMMA RedeemProofStep ==
  ASSUME IInv, NEW r \in Requests, RedeemProof(r)
  PROVE  IInv'
<1>1. /\ request[r].pc = "verified"
      /\ request[r].proof \in Proofs /\ Minted(request[r].proof)
  BY NullsAreFresh DEF RedeemProof, IInv, VerifiedHoldsProof, Minted
<1>2. TypeOK'
  <2>1. request' \in [Requests -> RequestRecord]
    BY IdleTypes DEF RedeemProof, Finish, RequestRecord, IInv, TypeOK
  <2>. QED
    BY <1>1, <2>1 DEF RedeemProof, external, IInv, TypeOK
<1>3. SpentWasMinted'
  BY <1>1 DEF RedeemProof, IInv, SpentWasMinted, Minted
<1>4. VerifiedHoldsProof'
  BY DEF IInv, TypeOK, VerifiedHoldsProof, RedeemProof, Finish, IdleRequest,
         RequestRecord
<1>5. BurnedOwnsProof'
  BY <1>1 DEF IInv, TypeOK, BurnedOwnsProof, RedeemProof, Wins, Finish, IdleRequest,
         RequestRecord
<1>6. BurnedIsUnused'
  <2>1. \A c \in Checkouts : Exists(c)' => Exists(c) /\ checkout[c].proof \in redeemed
    BY DEF RedeemProof, external, Exists, IInv, ProofSingleUse
  <2>2. \A s \in Requests :
          request'[s].pc = "burned" =>
            \/ request[s].pc = "burned" /\ request'[s].proof = request[s].proof
            \/ request'[s].proof \notin redeemed
    BY DEF RedeemProof, Finish, Wins, IdleRequest, IInv, TypeOK, RequestRecord
  <2>. QED
    BY <2>1, <2>2 DEF RedeemProof, external, Exists, IInv, BurnedIsUnused
<1>7. CreatedHasSession'
  BY DEF IInv, TypeOK, CreatedHasSession, RedeemProof, Finish, external,
         IdleRequest, RequestRecord
<1>8. ProofSingleUse'
  BY DEF IInv, ProofSingleUse, RedeemProof, external
<1>. QED
  BY <1>2, <1>3, <1>4, <1>5, <1>6, <1>7, <1>8
  DEF IInv, RedeemProof, external, AbsentIsBlank, Exists, DealHoldsOwnSession,
      PaidEventIsTrue, IsPaid, DeliveryIsOfPaid, DeliveryProgress,
      SettledByOwnPayment, SessionsOf

\* The jti of the new session was unused: proofs stay single use.
LEMMA CreateCheckoutStep ==
  ASSUME IInv, NEW r \in Requests, CreateCheckout(r)
  PROVE  IInv'
<1>1. PICK c \in Checkouts :
        /\ checkout[c].state = "none"
        /\ checkout' = [checkout EXCEPT ![c] =
                          [state |-> "created", deal |-> request[r].deal,
                           proof |-> request[r].proof, account |-> account,
                           expiresAt |-> now + CheckoutTtl]]
        /\ request' = [request EXCEPT ![r].pc = "created", ![r].checkout = c]
  BY DEF CreateCheckout, Expiry
<1>2. /\ request[r].pc = "burned" /\ request[r].deal \in Deals
      /\ request[r].proof \in Proofs /\ request[r].proof \in redeemed
      /\ proof[request[r].proof].deal = request[r].deal
  BY DEF CreateCheckout, IInv, VerifiedHoldsProof, BurnedOwnsProof
<1>3. UNCHANGED <<deal, session, redeemed, account, entitled, proof, events,
                  notified, now, hook, faults>>
  BY DEF CreateCheckout, store
<1>4. TypeOK'
  <2>1. now + CheckoutTtl \in Nat
    BY TicksAreNaturals DEF IInv, TypeOK
  <2>2. checkout' \in [Checkouts -> CheckoutRecord]
    BY <1>1, <1>2, <2>1 DEF CheckoutRecord, IInv, TypeOK
  <2>3. [request[r] EXCEPT !.pc = "created", !.checkout = c] \in RequestRecord
    BY DEF RequestRecord, IInv, TypeOK
  <2>4. request' \in [Requests -> RequestRecord]
    BY <1>1, <2>3 DEF IInv, TypeOK
  <2>. QED
    BY <1>3, <2>2, <2>4 DEF IInv, TypeOK
<1>5. VerifiedHoldsProof'
  BY <1>1, <1>2, <1>3 DEF IInv, TypeOK, VerifiedHoldsProof
<1>6. BurnedOwnsProof'
  BY <1>1, <1>2, <1>3 DEF IInv, TypeOK, BurnedOwnsProof
<1>7. BurnedIsUnused'
  <2>1. \A s \in Requests :
          request'[s].pc = "burned" =>
            /\ s # r /\ request'[s] = request[s]
            /\ request[s].proof # request[r].proof
    BY <1>1, <1>2 DEF IInv, TypeOK, BurnedOwnsProof
  <2>. QED
    BY <1>1, <2>1 DEF IInv, TypeOK, BurnedIsUnused, Exists
<1>8. CreatedHasSession'
  BY <1>1, <1>2 DEF IInv, TypeOK, CreatedHasSession
<1>9. AbsentIsBlank'
  BY <1>1, <1>2 DEF IInv, TypeOK, AbsentIsBlank, Exists
<1>10. ProofSingleUse'
  <2>1. \A x \in Checkouts \ {c} :
          checkout'[x] = checkout[x] /\ checkout[x].proof # request[r].proof
    BY <1>1, <1>2, NullsAreFresh
    DEF IInv, TypeOK, BurnedIsUnused, AbsentIsBlank, Exists
  <2>. QED
    BY <1>1, <1>2, <1>3, <2>1 DEF IInv, TypeOK, ProofSingleUse
<1>11. \A x \in Checkouts : Exists(x) => x # c /\ checkout'[x] = checkout[x]
  BY <1>1 DEF Exists, IInv, TypeOK
<1>12. DealHoldsOwnSession'
  BY <1>1, <1>3, <1>11 DEF IInv, TypeOK, DealRecord, DealHoldsOwnSession, Exists
<1>13. PaidEventIsTrue'
  BY <1>1, <1>3, <1>11 DEF IInv, TypeOK, Event, PaidEventIsTrue, IsPaid, Exists
<1>14. DeliveryIsOfPaid'
  <2>1. \A h \in Hooks : hook[h].pc # "idle" => Exists(hook[h].checkout)
    BY NullsAreFresh DEF IInv, DeliveryIsOfPaid, AbsentIsBlank
  <2>. QED
    BY <1>3, <1>11, <2>1 DEF IInv, TypeOK, DeliveryIsOfPaid, IsPaid
<1>15. SettledByOwnPayment'
  BY <1>3, <1>11 DEF IInv, SettledByOwnPayment, SessionsOf, IsPaid, Exists
<1>. QED
  BY <1>3, <1>4, <1>5, <1>6, <1>7, <1>8, <1>9, <1>10, <1>12, <1>13, <1>14, <1>15
  DEF IInv, SpentWasMinted, Minted, DeliveryProgress

\* A refused session leaves its jti spent and nothing else.
LEMMA CheckoutFailsStep ==
  ASSUME IInv, NEW r \in Requests, CheckoutFails(r)
  PROVE  IInv'
<1>1. TypeOK'
  BY IdleTypes, TicksAreNaturals, NullsAreFresh DEF IInv, TypeOK, CheckoutFails, Finish, store, external, RequestRecord
<1>2. VerifiedHoldsProof'
  BY <1>1, NullsAreFresh DEF IInv, TypeOK, VerifiedHoldsProof, CheckoutFails, Finish, store, external, IdleRequest, RequestRecord
<1>3. BurnedOwnsProof'
  BY <1>1, NullsAreFresh DEF IInv, TypeOK, BurnedOwnsProof, CheckoutFails, Finish, store, external, IdleRequest, RequestRecord
<1>4. BurnedIsUnused'
  BY <1>1, NullsAreFresh DEF IInv, TypeOK, BurnedIsUnused, CheckoutFails, Finish, store, external, Exists, IdleRequest, RequestRecord
<1>5. CreatedHasSession'
  BY <1>1, NullsAreFresh DEF IInv, TypeOK, CreatedHasSession, CheckoutFails, Finish, store, external, IdleRequest, RequestRecord
<1>. QED
  BY <1>1, <1>2, <1>3, <1>4, <1>5 DEF IInv, CheckoutFails, Finish, store, external, SpentWasMinted, Minted, AbsentIsBlank, Exists, ProofSingleUse, DealHoldsOwnSession, PaidEventIsTrue, IsPaid, DeliveryIsOfPaid, DeliveryProgress, SettledByOwnPayment, SessionsOf

\* The session stored into a deal is one of its own.
LEMMA StoreCheckoutStep ==
  ASSUME IInv, NEW r \in Requests, StoreCheckout(r)
  PROVE  IInv'
<1>. DEFINE d == request[r].deal
            c == request[r].checkout
<1>1. /\ d \in Deals /\ c \in Checkouts /\ request[r].pc = "created"
      /\ checkout[c].state = "created" /\ checkout[c].deal = d
  BY DEF StoreCheckout, IInv, VerifiedHoldsProof, CreatedHasSession
<1>2. /\ deal' = [deal EXCEPT ![d] = WithCheckout(d, c)]
      /\ checkout' = [checkout EXCEPT ![c].state = "open"]
      /\ request' = [request EXCEPT ![r] = IdleRequest]
  BY DEF StoreCheckout, Finish
<1>3. UNCHANGED <<session, redeemed, account, entitled, proof, events,
                  notified, now, hook, faults>>
  BY DEF StoreCheckout
<1>. HIDE DEF d, c
<1>4. \A x \in Checkouts :
        /\ checkout'[x].deal = checkout[x].deal
        /\ checkout'[x].proof = checkout[x].proof
        /\ x # c => checkout'[x] = checkout[x]
        /\ Exists(x)' <=> Exists(x)
        /\ IsPaid(x)' <=> IsPaid(x)
  BY <1>1, <1>2 DEF Exists, IsPaid, IInv, TypeOK, CheckoutRecord
<1>5. /\ checkout'[c].state = "open"
      /\ \A x \in Deals : /\ deal'[x].status = deal[x].status
                          /\ deal'[x].subscription = deal[x].subscription
                          /\ x # d => deal'[x] = deal[x]
      /\ deal'[d].checkoutId = c
  BY <1>1, <1>2 DEF WithCheckout, IInv, TypeOK, DealRecord, CheckoutRecord
<1>6. TypeOK'
  <2>1. checkout' \in [Checkouts -> CheckoutRecord]
    BY <1>1, <1>2 DEF CheckoutRecord, IInv, TypeOK
  <2>2. WithCheckout(d, c) \in DealRecord
    <3>1. deal[d] \in DealRecord /\ checkout[c].expiresAt \in Nat
      BY <1>1 DEF CheckoutRecord, IInv, TypeOK
    <3>. QED
      BY <1>1, <3>1 DEF WithCheckout, DealRecord
  <2>3. deal' \in [Deals -> DealRecord]
    BY <1>2, <2>2 DEF IInv, TypeOK
  <2>4. request' \in [Requests -> RequestRecord]
    BY <1>2, IdleTypes DEF IInv, TypeOK
  <2>. QED
    BY <1>3, <2>1, <2>3, <2>4 DEF IInv, TypeOK
<1>7. \A s \in Requests :
        request'[s].pc # "idle" => s # r /\ request'[s] = request[s]
  BY <1>2 DEF IdleRequest, IInv, TypeOK
<1>8. VerifiedHoldsProof' /\ BurnedOwnsProof'
  BY <1>3, <1>7 DEF IInv, VerifiedHoldsProof, BurnedOwnsProof
<1>9. BurnedIsUnused'
  BY <1>4, <1>7 DEF IInv, BurnedIsUnused
<1>10. CreatedHasSession'
  <2>1. \A s \in Requests :
          s # r /\ request[s].pc = "created" => request[s].checkout # c
    BY <1>1 DEF c, IInv, CreatedHasSession, BurnedOwnsProof
  <2>. QED
    BY <1>4, <1>7, <2>1 DEF IInv, CreatedHasSession
<1>11. AbsentIsBlank' /\ ProofSingleUse'
  BY <1>3, <1>4 DEF IInv, AbsentIsBlank, ProofSingleUse, Exists
<1>12. DealHoldsOwnSession'
  <2>1. \A x \in Checkouts :
          checkout'[x].state \notin {"none", "created"}
            <=> x = c \/ checkout[x].state \notin {"none", "created"}
    BY <1>1, <1>4, <1>5
  <2>. QED
    BY <1>1, <1>4, <1>5, <2>1 DEF IInv, TypeOK, DealRecord, DealHoldsOwnSession
<1>13. PaidEventIsTrue'
  BY <1>3, <1>4 DEF IInv, TypeOK, Event, PaidEventIsTrue
<1>14. DeliveryIsOfPaid'
  BY <1>3, <1>4 DEF IInv, DeliveryIsOfPaid
<1>15. DeliveryProgress'
  <2>1. \A h \in Hooks : hook[h].pc # "idle" => hook[h].deal \in Deals
    BY DEF IInv, DeliveryIsOfPaid
  <2>. QED
    BY <1>3, <1>5, <2>1 DEF IInv, DeliveryProgress
<1>16. SettledByOwnPayment'
  BY <1>3, <1>4, <1>5 DEF IInv, SettledByOwnPayment, SessionsOf
<1>. QED
  BY <1>3, <1>6, <1>8, <1>9, <1>10, <1>11, <1>12, <1>13, <1>14, <1>15, <1>16
  DEF IInv, SpentWasMinted, Minted

\* A request that dies leaves what it wrote.
LEMMA RequestDiesStep ==
  ASSUME IInv, NEW r \in Requests, RequestDies(r)
  PROVE  IInv'
<1>1. TypeOK'
  BY IdleTypes, TicksAreNaturals, NullsAreFresh DEF IInv, TypeOK, RequestDies, Finish, store, external, RequestRecord
<1>2. VerifiedHoldsProof'
  BY <1>1, NullsAreFresh DEF IInv, TypeOK, VerifiedHoldsProof, RequestDies, Finish, store, external, IdleRequest, RequestRecord
<1>3. BurnedOwnsProof'
  BY <1>1, NullsAreFresh DEF IInv, TypeOK, BurnedOwnsProof, RequestDies, Finish, store, external, IdleRequest, RequestRecord
<1>4. BurnedIsUnused'
  BY <1>1, NullsAreFresh DEF IInv, TypeOK, BurnedIsUnused, RequestDies, Finish, store, external, Exists, IdleRequest, RequestRecord
<1>5. CreatedHasSession'
  BY <1>1, NullsAreFresh DEF IInv, TypeOK, CreatedHasSession, RequestDies, Finish, store, external, IdleRequest, RequestRecord
<1>. QED
  BY <1>1, <1>2, <1>3, <1>4, <1>5 DEF IInv, RequestDies, Finish, store, external, SpentWasMinted, Minted, AbsentIsBlank, Exists, ProofSingleUse, DealHoldsOwnSession, PaidEventIsTrue, IsPaid, DeliveryIsOfPaid, DeliveryProgress, SettledByOwnPayment, SessionsOf

\* A session that completes paid is captured when its event says so.
LEMMA CompleteStep ==
  ASSUME IInv, NEW c \in Checkouts, Complete(c)
  PROVE  IInv'
<1>1. TypeOK'
  BY IdleTypes, TicksAreNaturals, NullsAreFresh DEF IInv, TypeOK, Complete, store, CheckoutRecord, Event
<1>2. BurnedIsUnused'
  BY <1>1, NullsAreFresh DEF IInv, TypeOK, BurnedIsUnused, Complete, store, Exists, CheckoutRecord
<1>3. CreatedHasSession'
  BY <1>1, NullsAreFresh DEF IInv, TypeOK, CreatedHasSession, Complete, store, CheckoutRecord
<1>4. AbsentIsBlank'
  BY <1>1, NullsAreFresh DEF IInv, TypeOK, AbsentIsBlank, Complete, store, Exists, CheckoutRecord
<1>5. ProofSingleUse'
  BY <1>1, NullsAreFresh DEF IInv, TypeOK, ProofSingleUse, Complete, store, CheckoutRecord
<1>6. DealHoldsOwnSession'
  BY <1>1, NullsAreFresh DEF IInv, TypeOK, DealHoldsOwnSession, Complete, store, CheckoutRecord
<1>7. PaidEventIsTrue'
  BY <1>1, NullsAreFresh DEF IInv, TypeOK, PaidEventIsTrue, Complete, store, IsPaid, CheckoutRecord, Event
<1>8. DeliveryIsOfPaid'
  BY <1>1, NullsAreFresh DEF IInv, TypeOK, DeliveryIsOfPaid, Complete, store, IsPaid, CheckoutRecord
<1>9. SettledByOwnPayment'
  BY <1>1, NullsAreFresh DEF IInv, TypeOK, SettledByOwnPayment, Complete, store, SessionsOf, IsPaid, CheckoutRecord
<1>. QED
  BY <1>1, <1>2, <1>3, <1>4, <1>5, <1>6, <1>7, <1>8, <1>9 DEF IInv, Complete, store, SpentWasMinted, Minted, VerifiedHoldsProof, BurnedOwnsProof, DeliveryProgress

\* Funds that land are captured when their event says so.
LEMMA FundsLandStep ==
  ASSUME IInv, NEW c \in Checkouts, FundsLand(c)
  PROVE  IInv'
<1>1. TypeOK'
  <2>1. checkout' \in [Checkouts -> CheckoutRecord]
    BY DEF FundsLand, CheckoutRecord, IInv, TypeOK
  <2>2. events' \subseteq Event
    <3>1. [checkout |-> c, paid |-> TRUE] \in Event
      BY DEF Event
    <3>. QED
      BY <3>1 DEF FundsLand, IInv, TypeOK
  <2>. QED
    BY <2>1, <2>2 DEF FundsLand, store, IInv, TypeOK
<1>2. BurnedIsUnused'
  BY <1>1, NullsAreFresh DEF IInv, TypeOK, BurnedIsUnused, FundsLand, store, Exists, CheckoutRecord
<1>3. CreatedHasSession'
  BY <1>1, NullsAreFresh DEF IInv, TypeOK, CreatedHasSession, FundsLand, store, CheckoutRecord
<1>4. AbsentIsBlank'
  BY <1>1, NullsAreFresh DEF IInv, TypeOK, AbsentIsBlank, FundsLand, store, Exists, CheckoutRecord
<1>5. ProofSingleUse'
  BY <1>1, NullsAreFresh DEF IInv, TypeOK, ProofSingleUse, FundsLand, store, CheckoutRecord
<1>6. DealHoldsOwnSession'
  BY <1>1, NullsAreFresh DEF IInv, TypeOK, DealHoldsOwnSession, FundsLand, store, CheckoutRecord
<1>7. PaidEventIsTrue'
  BY <1>1, NullsAreFresh DEF IInv, TypeOK, PaidEventIsTrue, FundsLand, store, IsPaid, CheckoutRecord, Event
<1>8. DeliveryIsOfPaid'
  BY <1>1, NullsAreFresh DEF IInv, TypeOK, DeliveryIsOfPaid, FundsLand, store, IsPaid, CheckoutRecord
<1>9. SettledByOwnPayment'
  BY <1>1, NullsAreFresh DEF IInv, TypeOK, SettledByOwnPayment, FundsLand, store, SessionsOf, IsPaid, CheckoutRecord
<1>. QED
  BY <1>1, <1>2, <1>3, <1>4, <1>5, <1>6, <1>7, <1>8, <1>9 DEF IInv, FundsLand, store, SpentWasMinted, Minted, VerifiedHoldsProof, BurnedOwnsProof, DeliveryProgress

\* Only an unpaid session fails: no captured payment is lost.
LEMMA FundsFailStep ==
  ASSUME IInv, NEW c \in Checkouts, FundsFail(c)
  PROVE  IInv'
<1>1. TypeOK'
  BY IdleTypes, TicksAreNaturals, NullsAreFresh DEF IInv, TypeOK, FundsFail, store, CheckoutRecord
<1>2. BurnedIsUnused'
  BY <1>1, NullsAreFresh DEF IInv, TypeOK, BurnedIsUnused, FundsFail, store, Exists, CheckoutRecord
<1>3. CreatedHasSession'
  BY <1>1, NullsAreFresh DEF IInv, TypeOK, CreatedHasSession, FundsFail, store, CheckoutRecord
<1>4. AbsentIsBlank'
  BY <1>1, NullsAreFresh DEF IInv, TypeOK, AbsentIsBlank, FundsFail, store, Exists, CheckoutRecord
<1>5. ProofSingleUse'
  BY <1>1, NullsAreFresh DEF IInv, TypeOK, ProofSingleUse, FundsFail, store, CheckoutRecord
<1>6. DealHoldsOwnSession'
  BY <1>1, NullsAreFresh DEF IInv, TypeOK, DealHoldsOwnSession, FundsFail, store, CheckoutRecord
<1>7. PaidEventIsTrue'
  BY <1>1, NullsAreFresh DEF IInv, TypeOK, PaidEventIsTrue, FundsFail, store, IsPaid, CheckoutRecord
<1>8. DeliveryIsOfPaid'
  BY <1>1, NullsAreFresh DEF IInv, TypeOK, DeliveryIsOfPaid, FundsFail, store, IsPaid, CheckoutRecord
<1>9. SettledByOwnPayment'
  BY <1>1, NullsAreFresh DEF IInv, TypeOK, SettledByOwnPayment, FundsFail, store, SessionsOf, IsPaid, CheckoutRecord
<1>. QED
  BY <1>1, <1>2, <1>3, <1>4, <1>5, <1>6, <1>7, <1>8, <1>9 DEF IInv, FundsFail, store, SpentWasMinted, Minted, VerifiedHoldsProof, BurnedOwnsProof, DeliveryProgress

\* An ignored event changes no table.
LEMMA IgnoreEventStep ==
  ASSUME IInv, NEW e \in events, IgnoreEvent(e)
  PROVE  IInv'
<1>1. TypeOK'
  BY IdleTypes, TicksAreNaturals, NullsAreFresh DEF IInv, TypeOK, IgnoreEvent, Acknowledge, store, Event
<1>2. PaidEventIsTrue'
  BY <1>1, NullsAreFresh DEF IInv, TypeOK, PaidEventIsTrue, IgnoreEvent, Acknowledge, store, IsPaid, Event
<1>. QED
  BY <1>1, <1>2 DEF IInv, IgnoreEvent, Acknowledge, store, SpentWasMinted, Minted, VerifiedHoldsProof, BurnedOwnsProof, BurnedIsUnused, Exists, CreatedHasSession, AbsentIsBlank, ProofSingleUse, DealHoldsOwnSession, DeliveryIsOfPaid, IsPaid, DeliveryProgress, SettledByOwnPayment, SessionsOf

\* A delivery finds the deal of its own session.
LEMMA MatchDealStep ==
  ASSUME IInv, NEW h \in Hooks, NEW e \in events, MatchDeal(h, e)
  PROVE  IInv'
<1>1. TypeOK'
  BY IdleTypes, TicksAreNaturals, NullsAreFresh DEF IInv, TypeOK, MatchDeal, Receive, DealsOf, Unsettled, store, Event, HookRecord
<1>2. PaidEventIsTrue'
  BY <1>1, NullsAreFresh DEF IInv, TypeOK, PaidEventIsTrue, MatchDeal, Receive, DealsOf, Unsettled, store, IsPaid, Event
<1>3. DeliveryIsOfPaid'
  <2>1. PICK d \in Deals :
          /\ deal[d].checkoutId = e.checkout
          /\ hook' = [hook EXCEPT ![h] = [pc |-> "matched", deal |-> d,
                                          checkout |-> e.checkout, paid |-> e.paid]]
    BY DEF MatchDeal, DealsOf
  <2>2. e.checkout \in Checkouts /\ checkout[e.checkout].deal = d
    BY <2>1, NullsAreFresh DEF IInv, TypeOK, Event, DealHoldsOwnSession
  <2>3. e.paid => IsPaid(e.checkout)
    BY DEF IInv, PaidEventIsTrue
  <2>. QED
    BY <2>1, <2>2, <2>3 DEF MatchDeal, IInv, TypeOK, DeliveryIsOfPaid, IsPaid
<1>4. DeliveryProgress'
  BY <1>1, NullsAreFresh DEF IInv, TypeOK, DeliveryProgress, MatchDeal, Receive, DealsOf, Unsettled, store, IdleHook, HookRecord
<1>. QED
  BY <1>1, <1>2, <1>3, <1>4 DEF IInv, MatchDeal, Receive, DealsOf, Unsettled, store, SpentWasMinted, Minted, VerifiedHoldsProof, BurnedOwnsProof, BurnedIsUnused, Exists, CreatedHasSession, AbsentIsBlank, ProofSingleUse, DealHoldsOwnSession, SettledByOwnPayment, SessionsOf, IsPaid

\* Past the gates the session of a delivery is paid.
LEMMA CheckEventStep ==
  ASSUME IInv, NEW h \in Hooks, CheckEvent(h)
  PROVE  IInv'
<1>1. TypeOK'
  BY IdleTypes, TicksAreNaturals, NullsAreFresh DEF IInv, TypeOK, CheckEvent, Settles, Respond, Acknowledge, store, Event, HookRecord
<1>2. PaidEventIsTrue'
  BY <1>1, NullsAreFresh DEF IInv, TypeOK, PaidEventIsTrue, CheckEvent, Settles, Respond, Acknowledge, store, IsPaid, Event
<1>3. DeliveryIsOfPaid'
  BY <1>1, NullsAreFresh DEF IInv, TypeOK, DeliveryIsOfPaid, CheckEvent, Settles, Respond, Acknowledge, store, IsPaid, IdleHook, HookRecord
<1>4. DeliveryProgress'
  BY <1>1, NullsAreFresh DEF IInv, TypeOK, DeliveryProgress, CheckEvent, Settles, Respond, Acknowledge, store, IdleHook, HookRecord
<1>. QED
  BY <1>1, <1>2, <1>3, <1>4 DEF IInv, CheckEvent, Settles, Respond, Acknowledge, store, SpentWasMinted, Minted, VerifiedHoldsProof, BurnedOwnsProof, BurnedIsUnused, Exists, CreatedHasSession, AbsentIsBlank, ProofSingleUse, DealHoldsOwnSession, SettledByOwnPayment, SessionsOf, IsPaid

\* The deal is settled by the paid session of its own the delivery is of.
LEMMA SettleDealStep ==
  ASSUME IInv, NEW h \in Hooks, SettleDeal(h)
  PROVE  IInv'
<1>. DEFINE d == hook[h].deal
            c == hook[h].checkout
<1>1. /\ hook[h].pc = "checked" /\ d \in Deals /\ c \in Checkouts
      /\ c \in SessionsOf(d) /\ IsPaid(c) /\ hook[h].paid
  BY DEF SettleDeal, IInv, DeliveryIsOfPaid, SessionsOf
<1>2. /\ deal' = [deal EXCEPT ![d].status = "settled", ![d].subscription = c,
                              ![d].checkoutStatus = "completed"]
      /\ hook' = [hook EXCEPT ![h].pc = "dealSettled"]
  BY DEF SettleDeal
<1>3. UNCHANGED <<session, redeemed, account, entitled, proof, checkout, events,
                  notified, now, request, faults>>
  BY DEF SettleDeal, external
<1>. HIDE DEF d, c
<1>4. /\ deal'[d].status = "settled" /\ deal'[d].subscription = c
      /\ \A x \in Deals : deal'[x].checkoutId = deal[x].checkoutId
      /\ \A x \in Deals \ {d} : deal'[x] = deal[x]
  BY <1>1, <1>2 DEF IInv, TypeOK, DealRecord
<1>5. TypeOK'
  <2>1. deal' \in [Deals -> DealRecord]
    <3>1. deal[d] \in DealRecord
      BY <1>1 DEF IInv, TypeOK
    <3>2. [deal[d] EXCEPT !.status = "settled", !.subscription = c,
                          !.checkoutStatus = "completed"] \in DealRecord
      BY <1>1, <3>1 DEF DealRecord
    <3>. QED
      BY <1>2, <3>2 DEF IInv, TypeOK
  <2>2. hook' \in [Hooks -> HookRecord]
    BY <1>2 DEF HookRecord, IInv, TypeOK
  <2>. QED
    BY <1>3, <2>1, <2>2 DEF IInv, TypeOK
<1>6. DealHoldsOwnSession'
  BY <1>3, <1>4 DEF IInv, DealHoldsOwnSession
<1>7. DeliveryIsOfPaid'
  BY <1>1, <1>2, <1>3 DEF IInv, TypeOK, HookRecord, DeliveryIsOfPaid, IsPaid
<1>8. DeliveryProgress'
  <2>1. \A x \in Deals : deal[x].status = "settled" => deal'[x].status = "settled"
    BY <1>4
  <2>2. \A g \in Hooks : hook'[g].deal = hook[g].deal
    BY <1>2 DEF IInv, TypeOK, HookRecord
  <2>3. hook'[h].pc = "dealSettled" /\ \A g \in Hooks \ {h} : hook'[g] = hook[g]
    BY <1>2 DEF IInv, TypeOK, HookRecord
  <2>4. \A g \in Hooks : hook[g].pc # "idle" => hook[g].deal \in Deals
    BY DEF IInv, DeliveryIsOfPaid
  <2>. QED
    BY <1>3, <1>4, <2>1, <2>2, <2>3, <2>4 DEF d, IInv, DeliveryProgress
<1>9. SettledByOwnPayment'
  BY <1>1, <1>3, <1>4 DEF IInv, SettledByOwnPayment, SessionsOf, IsPaid
<1>. QED
  BY <1>3, <1>5, <1>6, <1>7, <1>8, <1>9
  DEF IInv, SpentWasMinted, Minted, VerifiedHoldsProof, BurnedOwnsProof,
      BurnedIsUnused, Exists, CreatedHasSession, AbsentIsBlank, ProofSingleUse,
      PaidEventIsTrue, IsPaid

\* The session is settled after its deal.
LEMMA SettleSessionStep ==
  ASSUME IInv, NEW h \in Hooks, SettleSession(h)
  PROVE  IInv'
<1>1. TypeOK'
  BY IdleTypes, TicksAreNaturals, NullsAreFresh DEF IInv, TypeOK, SettleSession, external, HookRecord
<1>2. DeliveryIsOfPaid'
  BY <1>1, NullsAreFresh DEF IInv, TypeOK, DeliveryIsOfPaid, SettleSession, external, IsPaid, IdleHook, HookRecord
<1>3. DeliveryProgress'
  BY <1>1, NullsAreFresh DEF IInv, TypeOK, DeliveryProgress, SettleSession, external, IdleHook, HookRecord
<1>. QED
  BY <1>1, <1>2, <1>3 DEF IInv, SettleSession, external, SpentWasMinted, Minted, VerifiedHoldsProof, BurnedOwnsProof, BurnedIsUnused, Exists, CreatedHasSession, AbsentIsBlank, ProofSingleUse, DealHoldsOwnSession, PaidEventIsTrue, IsPaid, SettledByOwnPayment, SessionsOf

\* The record is written for a settled deal.
LEMMA RecordEntitlementStep ==
  ASSUME IInv, NEW h \in Hooks, RecordEntitlement(h)
  PROVE  IInv'
<1>1. TypeOK'
  <2>1. hook' \in [Hooks -> HookRecord]
    BY DEF RecordEntitlement, HookRecord, IInv, TypeOK
  <2>2. hook[h].deal \in Deals
    BY DEF RecordEntitlement, IInv, DeliveryIsOfPaid
  <2>3. entitled' \in [Deals -> Nat]
    BY <2>2 DEF RecordEntitlement, IInv, TypeOK
  <2>. QED
    BY <2>1, <2>3 DEF RecordEntitlement, external, IInv, TypeOK
<1>2. DeliveryIsOfPaid'
  BY <1>1, NullsAreFresh DEF IInv, TypeOK, DeliveryIsOfPaid, RecordEntitlement, external, IsPaid, IdleHook, HookRecord
<1>3. DeliveryProgress'
  BY <1>1, NullsAreFresh DEF IInv, TypeOK, DeliveryProgress, RecordEntitlement, external, IdleHook, HookRecord
<1>. QED
  BY <1>1, <1>2, <1>3 DEF IInv, RecordEntitlement, external, SpentWasMinted, Minted, VerifiedHoldsProof, BurnedOwnsProof, BurnedIsUnused, Exists, CreatedHasSession, AbsentIsBlank, ProofSingleUse, DealHoldsOwnSession, PaidEventIsTrue, IsPaid, SettledByOwnPayment, SessionsOf

\* The merchant is told and the delivery ends.
LEMMA NotifyMerchantStep ==
  ASSUME IInv, NEW h \in Hooks, NotifyMerchant(h)
  PROVE  IInv'
<1>1. TypeOK'
  BY IdleTypes, TicksAreNaturals, NullsAreFresh DEF IInv, TypeOK, NotifyMerchant, Respond, Acknowledge, store, Event, HookRecord
<1>2. PaidEventIsTrue'
  BY <1>1, NullsAreFresh DEF IInv, TypeOK, PaidEventIsTrue, NotifyMerchant, Respond, Acknowledge, store, IsPaid, Event
<1>3. DeliveryIsOfPaid'
  BY <1>1, NullsAreFresh DEF IInv, TypeOK, DeliveryIsOfPaid, NotifyMerchant, Respond, Acknowledge, store, IsPaid, IdleHook, HookRecord
<1>4. DeliveryProgress'
  BY <1>1, NullsAreFresh DEF IInv, TypeOK, DeliveryProgress, NotifyMerchant, Respond, Acknowledge, store, IdleHook, HookRecord
<1>. QED
  BY <1>1, <1>2, <1>3, <1>4 DEF IInv, NotifyMerchant, Respond, Acknowledge, store, SpentWasMinted, Minted, VerifiedHoldsProof, BurnedOwnsProof, BurnedIsUnused, Exists, CreatedHasSession, AbsentIsBlank, ProofSingleUse, DealHoldsOwnSession, SettledByOwnPayment, SessionsOf, IsPaid

\* A delivery that dies leaves what it wrote.
LEMMA HookDiesStep ==
  ASSUME IInv, NEW h \in Hooks, HookDies(h)
  PROVE  IInv'
<1>1. TypeOK'
  BY IdleTypes, TicksAreNaturals, NullsAreFresh DEF IInv, TypeOK, HookDies, store, external, HookRecord
<1>2. DeliveryIsOfPaid'
  BY <1>1, NullsAreFresh DEF IInv, TypeOK, DeliveryIsOfPaid, HookDies, store, external, IsPaid, IdleHook, HookRecord
<1>3. DeliveryProgress'
  BY <1>1, NullsAreFresh DEF IInv, TypeOK, DeliveryProgress, HookDies, store, external, IdleHook, HookRecord
<1>. QED
  BY <1>1, <1>2, <1>3 DEF IInv, HookDies, store, external, SpentWasMinted, Minted, VerifiedHoldsProof, BurnedOwnsProof, BurnedIsUnused, Exists, CreatedHasSession, AbsentIsBlank, ProofSingleUse, DealHoldsOwnSession, PaidEventIsTrue, IsPaid, SettledByOwnPayment, SessionsOf

\* The invariant does not look at the clock.
LEMMA TickStep ==
  ASSUME IInv, Tick
  PROVE  IInv'
<1>1. TypeOK'
  BY IdleTypes, TicksAreNaturals, NullsAreFresh DEF IInv, TypeOK, Tick, store
<1>. QED
  BY <1>1 DEF IInv, Tick, store, SpentWasMinted, Minted, VerifiedHoldsProof, BurnedOwnsProof, BurnedIsUnused, Exists, CreatedHasSession, AbsentIsBlank, ProofSingleUse, DealHoldsOwnSession, PaidEventIsTrue, IsPaid, DeliveryIsOfPaid, DeliveryProgress, SettledByOwnPayment, SessionsOf

\* The empty store satisfies the invariant.
LEMMA InitInv == Init => IInv
<1>. SUFFICES ASSUME Init PROVE IInv
  OBVIOUS
<1>1. TypeOK
  BY IdleTypes, TicksAreNaturals
  DEF Init, TypeOK, DealRecord, ProofRecord, CheckoutRecord
<1>2. SpentWasMinted /\ VerifiedHoldsProof /\ BurnedOwnsProof /\ BurnedIsUnused
  BY DEF Init, SpentWasMinted, VerifiedHoldsProof, BurnedOwnsProof, BurnedIsUnused,
         IdleRequest
<1>3. CreatedHasSession /\ AbsentIsBlank /\ ProofSingleUse /\ DealHoldsOwnSession
  BY DEF Init, CreatedHasSession, AbsentIsBlank, Exists, ProofSingleUse,
         DealHoldsOwnSession, IdleRequest
<1>4. PaidEventIsTrue /\ DeliveryIsOfPaid /\ DeliveryProgress /\ SettledByOwnPayment
  BY DEF Init, PaidEventIsTrue, DeliveryIsOfPaid, DeliveryProgress, IdleHook,
         SettledByOwnPayment
<1>. QED
  BY <1>1, <1>2, <1>3, <1>4 DEF IInv

\* So does a step that changes nothing.
LEMMA StutterStep == IInv /\ UNCHANGED vars => IInv'
BY DEF vars, IInv, TypeOK, SpentWasMinted, Minted, VerifiedHoldsProof,
       BurnedOwnsProof, BurnedIsUnused, Exists, CreatedHasSession, AbsentIsBlank,
       ProofSingleUse, DealHoldsOwnSession, PaidEventIsTrue, IsPaid,
       DeliveryIsOfPaid, DeliveryProgress, SettledByOwnPayment, SessionsOf

\* Every step of the money path keeps the invariant.
LEMMA NextInv == IInv /\ [Next]_vars => IInv'
<1>. SUFFICES ASSUME IInv, [Next]_vars PROVE IInv'
  OBVIOUS
<1>1. CASE UNCHANGED vars
  BY <1>1, StutterStep
<1>2. ASSUME NEW d \in Deals, CloseDeal(d) PROVE IInv'
  BY <1>2, CloseDealStep
<1>3. CASE Connect
  BY <1>3, ConnectStep
<1>4. ASSUME NEW r \in Requests, NEW d \in Deals, NEW p \in Presentable,
             ViewDeal(r, d, p) \/ PayDeal(r, d, p)
      PROVE IInv'
  BY <1>4, ViewOrPayStep
<1>5. ASSUME NEW r \in Requests, RequestStep(r) \/ RequestDies(r) PROVE IInv'
  BY <1>5, AnswerViewStep, VerifyProofStep, RedeemProofStep, CreateCheckoutStep,
     CheckoutFailsStep, StoreCheckoutStep, RequestDiesStep
  DEF RequestStep
<1>6. ASSUME NEW c \in Checkouts, Complete(c) \/ FundsLand(c) \/ FundsFail(c)
      PROVE IInv'
  BY <1>6, CompleteStep, FundsLandStep, FundsFailStep
<1>7. ASSUME NEW e \in events, IgnoreEvent(e) \/ \E h \in Hooks : MatchDeal(h, e)
      PROVE IInv'
  BY <1>7, IgnoreEventStep, MatchDealStep
<1>8. ASSUME NEW h \in Hooks, HookStep(h) \/ HookDies(h) PROVE IInv'
  BY <1>8, CheckEventStep, SettleDealStep, SettleSessionStep,
     RecordEntitlementStep, NotifyMerchantStep, HookDiesStep
  DEF HookStep
<1>9. CASE Tick
  BY <1>9, TickStep
<1>. QED
  BY <1>1, <1>2, <1>3, <1>4, <1>5, <1>6, <1>7, <1>8, <1>9 DEF Next
-----------------------------------------------------------------------------
(* What the invariant gives *)

\* Every behaviour of the money path satisfies the inductive invariant: the
\* handlers of service.ts, cut at their awaits, keep proofs, sessions, events
\* and deals tied to one another.
THEOREM Invariance == Spec => []IInv
BY InitInv, NextInv, PTL DEF Spec

\* The stores and Stripe's objects keep their types whatever handlers interleave
\* or die.
THEOREM TypeCorrect == Spec => []TypeOK
<1>1. IInv => TypeOK
  BY DEF IInv
<1>. QED
  BY <1>1, Invariance, PTL

\* A signed proof buys at most one Stripe session, of the deal it was minted
\* for, for any number of racing Pay posts (startCheckout, redeemProof).
THEOREM SingleUse == Spec => []ProofSingleUse
<1>1. IInv => ProofSingleUse
  BY DEF IInv
<1>. QED
  BY <1>1, Invariance, PTL

\* A settled deal was settled by a captured payment of a session of its own,
\* for any number of overlapping and repeated deliveries (handleStripeEvent).
THEOREM SettledByPayment == Spec => []SettledByOwnPayment
<1>1. IInv => SettledByOwnPayment
  BY DEF IInv
<1>. QED
  BY <1>1, Invariance, PTL

-----------------------------------------------------------------------------
(* A settled deal *)

\* No step begins a Pay post of a settled deal, nor creates a session of it when
\* no post of it is in flight.
LEMMA StopsSellingStep ==
  ASSUME IInv, [Next]_vars, NEW d \in Deals,
         deal[d].status = "settled", PaysInFlight(d) = {}
  PROVE  PaysInFlight(d)' = {} /\ SessionsOf(d)' = SessionsOf(d)
<1>. DEFINE Stopped ==
       /\ \A r \in Requests :
            request'[r].deal = d => request'[r].pc \in {"idle", "viewing"}
       /\ \A c \in Checkouts : checkout'[c].deal = d <=> checkout[c].deal = d
<1>1. /\ \A r \in Requests :
           request[r].deal = d => request[r].pc \in {"idle", "viewing"}
      /\ request \in [Requests -> RequestRecord]
      /\ checkout \in [Checkouts -> CheckoutRecord]
      /\ \A c \in Checkouts : checkout[c].state = "none" => checkout[c].deal # d
  BY NullsAreFresh DEF PaysInFlight, IInv, TypeOK, AbsentIsBlank, Exists
<1>2. ASSUME NEW r \in Requests, Finish(r)
      PROVE  \A q \in Requests :
               request'[q].deal = d => request'[q].pc \in {"idle", "viewing"}
  BY <1>1, <1>2 DEF Finish, IdleRequest
<1>3. ASSUME NEW r \in Requests, NEW e \in Deals, NEW p,
             ViewDeal(r, e, p) \/ PayDeal(r, e, p)
      PROVE  Stopped
  BY <1>1, <1>3 DEF ViewDeal, PayDeal, Begin, Payable, external
<1>4. ASSUME NEW r \in Requests, CreateCheckout(r)
      PROVE  Stopped
  <2>1. PICK c \in Checkouts :
          /\ checkout[c].state = "none"
          /\ checkout' = [checkout EXCEPT ![c] =
                            [state |-> "created", deal |-> request[r].deal,
                             proof |-> request[r].proof, account |-> account,
                             expiresAt |-> Expiry(CheckoutTtl)]]
          /\ request' = [request EXCEPT ![r].pc = "created", ![r].checkout = c]
    BY <1>4 DEF CreateCheckout
  <2>2. request[r].deal # d
    BY <1>1, <1>4 DEF CreateCheckout
  <2>. QED
    BY <1>1, <2>1, <2>2 DEF RequestRecord
<1>5. ASSUME NEW r \in Requests, VerifyProof(r)
      PROVE  Stopped
  <2>1. request[r].deal # d
    BY <1>1, <1>5 DEF VerifyProof
  <2>. QED
    BY <1>1, <1>2, <1>5, <2>1 DEF VerifyProof, external, RequestRecord
<1>6. ASSUME NEW r \in Requests, RedeemProof(r)
      PROVE  Stopped
  <2>1. request[r].deal # d
    BY <1>1, <1>6 DEF RedeemProof
  <2>. QED
    BY <1>1, <1>2, <1>6, <2>1 DEF RedeemProof, external, RequestRecord
<1>7. ASSUME NEW r \in Requests, AnswerView(r) \/ CheckoutFails(r) \/ RequestDies(r)
      PROVE  Stopped
  BY <1>1, <1>2, <1>7 DEF AnswerView, CheckoutFails, RequestDies, external
<1>8. ASSUME NEW r \in Requests, StoreCheckout(r)
      PROVE  Stopped
  <2>1. checkout' = [checkout EXCEPT ![request[r].checkout].state = "open"] /\ Finish(r)
    BY <1>8 DEF StoreCheckout
  <2>. QED
    BY <1>1, <1>2, <2>1 DEF CheckoutRecord
<1>9. ASSUME NEW c \in Checkouts, Complete(c) \/ FundsLand(c) \/ FundsFail(c)
      PROVE  Stopped
  <2>1. request' = request
    BY <1>9 DEF Complete, FundsLand, FundsFail
  <2>2. \E state : checkout' = [checkout EXCEPT ![c].state = state]
    BY <1>9 DEF Complete, FundsLand, FundsFail
  <2>. QED
    BY <1>1, <2>1, <2>2 DEF CheckoutRecord
<1>10. ASSUME UNCHANGED <<request, checkout>>
       PROVE  Stopped
  BY <1>1, <1>10
<1>11. ASSUME \/ \E e \in Deals : CloseDeal(e)
              \/ Connect \/ Tick \/ UNCHANGED vars
              \/ \E e \in events : IgnoreEvent(e) \/ \E h \in Hooks : MatchDeal(h, e)
              \/ \E h \in Hooks : HookStep(h) \/ HookDies(h)
       PROVE  UNCHANGED <<request, checkout>>
  BY <1>11 DEF CloseDeal, Connect, Tick, vars, IgnoreEvent, MatchDeal, HookStep,
     CheckEvent, SettleDeal, SettleSession, RecordEntitlement, NotifyMerchant,
     HookDies, external
<1>12. Stopped
  <2>1. ASSUME NEW r \in Requests, RequestStep(r) \/ RequestDies(r)
        PROVE  Stopped
    BY <1>4, <1>5, <1>6, <1>7, <1>8, <2>1 DEF RequestStep
  <2>. HIDE DEF Stopped
  <2>. QED
    BY <1>3, <1>9, <1>10, <1>11, <2>1 DEF Next
<1>. QED
  BY <1>12 DEF PaysInFlight, SessionsOf

\* Once a deal is settled and the Pay posts that began before are answered, no
\* post of it begins and no session of it is created, for any number of posts
\* and deliveries (the settled guard of startCheckout).
THEOREM StopsSelling == Spec => SettledStopsSelling
<1>1. ASSUME IInv, [Next]_vars
      PROVE  [\A d \in Deals :
                deal[d].status = "settled" /\ PaysInFlight(d) = {} =>
                  PaysInFlight(d)' = {} /\ SessionsOf(d)' = SessionsOf(d)]_vars
  BY <1>1, StopsSellingStep
<1>. QED
  BY <1>1, Invariance, PTL DEF Spec, SettledStopsSelling

-----------------------------------------------------------------------------
(* Records and notifications *)

\* The deliveries of a deal that have yet to record, and to notify.
Recording(d) ==
  {h \in Hooks : /\ hook[h].deal = d
                 /\ hook[h].pc \in {"matched", "checked", "dealSettled", "sessionSettled"}}

Notifying(d) == {h \in Hooks : hook[h].deal = d /\ hook[h].pc = "recorded"}

\* The records there are and those on their way are no more than the deliveries
\* that found the deal unsettled, and those overlap.
RecordsLeft ==
  \A d \in Deals :
    /\ entitled[d] + Cardinality(Recording(d)) <= Cardinality(Hooks)
    /\ notified[d] + Cardinality(Notifying(d)) <= entitled[d]
    /\ entitled[d] > 0 => deal[d].status = "settled"

LEMMA RecordsCounted ==
  ASSUME IInv, IsFiniteSet(Hooks), NEW d \in Deals
  PROVE  /\ entitled[d] \in Nat /\ notified[d] \in Nat
         /\ IsFiniteSet(Recording(d)) /\ IsFiniteSet(Notifying(d))
         /\ Cardinality(Recording(d)) \in Nat /\ Cardinality(Notifying(d)) \in Nat
         /\ Cardinality(Hooks) \in Nat
         /\ Cardinality(Recording(d)) <= Cardinality(Hooks)
<1>1. Recording(d) \in SUBSET Hooks /\ Notifying(d) \in SUBSET Hooks
  BY DEF Recording, Notifying
<1>2. IsFiniteSet(Recording(d)) /\ IsFiniteSet(Notifying(d))
  BY <1>1, FS_Subset
<1>3. Cardinality(Recording(d)) <= Cardinality(Hooks)
  BY <1>1, FS_Subset
<1>. QED
  BY <1>2, <1>3, FS_CardinalityType DEF IInv, TypeOK

\* A settled deal stays settled.
LEMMA SettledStays ==
  ASSUME IInv, [Next]_vars, NEW d \in Deals, deal[d].status = "settled"
  PROVE  deal'[d].status = "settled"
<1>1. deal \in [Deals -> DealRecord]
  BY DEF IInv, TypeOK
<1>2. ASSUME NEW e \in Deals, CloseDeal(e)
      PROVE  deal'[d].status = "settled"
  BY <1>1, <1>2 DEF CloseDeal, DealRecord
<1>3. ASSUME NEW r \in Requests, StoreCheckout(r)
      PROVE  deal'[d].status = "settled"
  <2>1. deal' = [deal EXCEPT ![request[r].deal] =
                   WithCheckout(request[r].deal, request[r].checkout)]
    BY <1>3 DEF StoreCheckout
  <2>. QED
    BY <1>1, <2>1 DEF WithCheckout, DealRecord
<1>4. ASSUME NEW h \in Hooks, SettleDeal(h)
      PROVE  deal'[d].status = "settled"
  <2>1. deal' = [deal EXCEPT ![hook[h].deal].status = "settled",
                             ![hook[h].deal].subscription = hook[h].checkout,
                             ![hook[h].deal].checkoutStatus = "completed"]
    BY <1>4 DEF SettleDeal
  <2>. QED
    BY <1>1, <2>1 DEF DealRecord
<1>5. ASSUME NEW r \in Requests, RequestStep(r) \/ RequestDies(r)
      PROVE  deal'[d].status = "settled"
  BY <1>3, <1>5 DEF RequestStep, AnswerView, VerifyProof, RedeemProof, CreateCheckout,
     CheckoutFails, RequestDies, store
<1>6. ASSUME NEW h \in Hooks, HookStep(h) \/ HookDies(h)
      PROVE  deal'[d].status = "settled"
  BY <1>4, <1>6 DEF HookStep, CheckEvent, SettleSession, RecordEntitlement,
     NotifyMerchant, HookDies, store
<1>7. ASSUME \/ Connect \/ Tick \/ UNCHANGED vars
             \/ \E r \in Requests, e \in Deals, p \in Presentable :
                  ViewDeal(r, e, p) \/ PayDeal(r, e, p)
             \/ \E c \in Checkouts : Complete(c) \/ FundsLand(c) \/ FundsFail(c)
             \/ \E e \in events : IgnoreEvent(e) \/ \E h \in Hooks : MatchDeal(h, e)
      PROVE  deal'[d].status = "settled"
  BY <1>7 DEF Connect, Tick, vars, ViewDeal, PayDeal, Complete, FundsLand, FundsFail,
     IgnoreEvent, MatchDeal, store
<1>. QED
  BY <1>2, <1>5, <1>6, <1>7 DEF Next

\* Where a step leaves the records alone and no delivery joins, the bound stays.
LEMMA NoMoreDeliveries ==
  ASSUME IInv, IsFiniteSet(Hooks), RecordsLeft, [Next]_vars,
         UNCHANGED <<entitled, notified>>,
         \A d \in Deals : /\ Recording(d)' \subseteq Recording(d)
                          /\ Notifying(d)' \subseteq Notifying(d)
  PROVE  RecordsLeft'
<1>. SUFFICES ASSUME NEW d \in Deals
              PROVE  /\ entitled'[d] + Cardinality(Recording(d)') <= Cardinality(Hooks)
                     /\ notified'[d] + Cardinality(Notifying(d)') <= entitled'[d]
                     /\ entitled'[d] > 0 => deal'[d].status = "settled"
  BY DEF RecordsLeft
<1>. DEFINE R == Recording(d)
            S == Recording(d)'
            N == Notifying(d)
            M == Notifying(d)'
<1>1. /\ entitled[d] \in Nat /\ notified[d] \in Nat /\ Cardinality(Hooks) \in Nat
      /\ IsFiniteSet(R) /\ IsFiniteSet(N) /\ Cardinality(R) \in Nat /\ Cardinality(N) \in Nat
  BY RecordsCounted
<1>2. S \in SUBSET R /\ M \in SUBSET N
  BY Zenon
<1>3. /\ entitled[d] + Cardinality(R) <= Cardinality(Hooks)
      /\ notified[d] + Cardinality(N) <= entitled[d]
      /\ entitled[d] > 0 => deal'[d].status = "settled"
  BY SettledStays DEF RecordsLeft
<1>4. entitled'[d] = entitled[d] /\ notified'[d] = notified[d]
  OBVIOUS
<1>. HIDE DEF R, S, N, M
<1>5. /\ Cardinality(S) \in Nat /\ Cardinality(S) <= Cardinality(R)
      /\ Cardinality(M) \in Nat /\ Cardinality(M) <= Cardinality(N)
  BY <1>1, <1>2, FS_Subset, FS_CardinalityType
<1>6. /\ entitled[d] + Cardinality(S) <= Cardinality(Hooks)
      /\ notified[d] + Cardinality(M) <= entitled[d]
  BY <1>1, <1>3, <1>5
<1>. QED
  BY <1>3, <1>4, <1>6 DEF S, M

\* A delivery only joins a deal that is not settled, which has no record yet.
LEMMA MatchKeepsRecords ==
  ASSUME IInv, IInv', IsFiniteSet(Hooks), RecordsLeft, [Next]_vars,
         NEW h \in Hooks, NEW e \in events, MatchDeal(h, e)
  PROVE  RecordsLeft'
<1>1. PICK d \in DealsOf(e.checkout) :
        /\ deal[d].status # "settled"
        /\ hook' = [hook EXCEPT ![h] = [pc |-> "matched", deal |-> d,
                                        checkout |-> e.checkout, paid |-> e.paid]]
  BY DEF MatchDeal, Unsettled
<1>2. hook[h].pc = "idle" /\ UNCHANGED <<deal, entitled, notified>> /\ d \in Deals
  BY DEF MatchDeal, store, DealsOf
<1>3. hook \in [Hooks -> HookRecord]
  BY DEF IInv, TypeOK
<1>4. \A z \in Deals : Notifying(z)' \subseteq Notifying(z)
  BY <1>1, <1>3 DEF Notifying
<1>5. \A z \in Deals \ {d} : Recording(z)' \subseteq Recording(z)
  BY <1>1, <1>3 DEF Recording
<1>. SUFFICES ASSUME NEW z \in Deals
              PROVE  /\ entitled'[z] + Cardinality(Recording(z)') <= Cardinality(Hooks)
                     /\ notified'[z] + Cardinality(Notifying(z)') <= entitled'[z]
                     /\ entitled'[z] > 0 => deal'[z].status = "settled"
  BY DEF RecordsLeft
<1>6. /\ entitled[z] \in Nat /\ notified[z] \in Nat /\ Cardinality(Hooks) \in Nat
      /\ IsFiniteSet(Recording(z)) /\ IsFiniteSet(Notifying(z))
      /\ Cardinality(Recording(z)) \in Nat /\ Cardinality(Notifying(z)) \in Nat
      /\ entitled[z] + Cardinality(Recording(z)) <= Cardinality(Hooks)
      /\ notified[z] + Cardinality(Notifying(z)) <= entitled[z]
      /\ entitled[z] > 0 => deal[z].status = "settled"
  BY RecordsCounted DEF RecordsLeft
<1>7. notified[z] + Cardinality(Notifying(z)') <= entitled[z]
  <2>1. /\ Cardinality(Notifying(z)') \in Nat
        /\ Cardinality(Notifying(z)') <= Cardinality(Notifying(z))
    BY <1>4, <1>6, FS_Subset, FS_CardinalityType
  <2>. QED
    BY <1>6, <2>1
<1>8. entitled[z] + Cardinality(Recording(z)') <= Cardinality(Hooks)
  <2>1. CASE z = d
    <3>1. entitled[z] = 0
      BY <1>1, <1>6, <2>1
    <3>2. Recording(z)' \in SUBSET Hooks
      BY DEF Recording
    <3>3. Cardinality(Recording(z)') <= Cardinality(Hooks) /\ Cardinality(Recording(z)') \in Nat
      BY <3>2, FS_Subset, FS_CardinalityType
    <3>. QED
      BY <3>1, <3>3
  <2>2. CASE z # d
    <3>1. /\ Cardinality(Recording(z)') \in Nat
          /\ Cardinality(Recording(z)') <= Cardinality(Recording(z))
      BY <1>5, <1>6, <2>2, FS_Subset, FS_CardinalityType
    <3>. QED
      BY <1>6, <3>1
  <2>. QED
    BY <2>1, <2>2
<1>. QED
  BY <1>2, <1>6, <1>7, <1>8

\* A record moves its delivery from those that have yet to record to those that
\* have yet to notify, and a notification takes it from there.
LEMMA RecordKeepsRecords ==
  ASSUME IInv, IInv', IsFiniteSet(Hooks), RecordsLeft, [Next]_vars,
         NEW h \in Hooks, RecordEntitlement(h) \/ NotifyMerchant(h)
  PROVE  RecordsLeft'
<1>. DEFINE d == hook[h].deal
<1>1. hook \in [Hooks -> HookRecord] /\ d \in Deals
  BY DEF RecordEntitlement, NotifyMerchant, IInv, TypeOK, DeliveryIsOfPaid
<1>. SUFFICES ASSUME NEW z \in Deals
              PROVE  /\ entitled'[z] + Cardinality(Recording(z)') <= Cardinality(Hooks)
                     /\ notified'[z] + Cardinality(Notifying(z)') <= entitled'[z]
                     /\ entitled'[z] > 0 => deal'[z].status = "settled"
  BY DEF RecordsLeft
<1>2. /\ entitled[z] \in Nat /\ notified[z] \in Nat /\ Cardinality(Hooks) \in Nat
      /\ IsFiniteSet(Recording(z)) /\ IsFiniteSet(Notifying(z))
      /\ Cardinality(Recording(z)) \in Nat /\ Cardinality(Notifying(z)) \in Nat
      /\ entitled[z] + Cardinality(Recording(z)) <= Cardinality(Hooks)
      /\ notified[z] + Cardinality(Notifying(z)) <= entitled[z]
      /\ entitled[z] > 0 => deal[z].status = "settled"
      /\ entitled \in [Deals -> Nat] /\ notified \in [Deals -> Nat]
  BY RecordsCounted DEF RecordsLeft, IInv, TypeOK
<1>3. CASE RecordEntitlement(h)
  <2>1. /\ hook[h].pc = "sessionSettled"
        /\ hook' = [hook EXCEPT ![h].pc = "recorded"]
        /\ entitled' = [entitled EXCEPT ![d] = entitled[d] + 1]
        /\ UNCHANGED <<deal, notified>>
    BY <1>3 DEF RecordEntitlement, external
  <2>2. CASE z # d
    <3>1. Recording(z)' = Recording(z) /\ Notifying(z)' = Notifying(z)
      BY <1>1, <2>1, <2>2 DEF Recording, Notifying, HookRecord
    <3>2. entitled'[z] = entitled[z] /\ notified'[z] = notified[z] /\ deal' = deal
      BY <1>2, <2>1, <2>2
    <3>. QED
      BY <1>2, <3>1, <3>2
  <2>3. CASE z = d
    <3>1. Recording(z)' = Recording(z) \ {h} /\ Notifying(z)' = Notifying(z) \cup {h}
      BY <1>1, <2>1, <2>3 DEF Recording, Notifying, HookRecord
    <3>2. h \in Recording(z) /\ h \notin Notifying(z)
      BY <2>1, <2>3 DEF Recording, Notifying
    <3>3. /\ Cardinality(Recording(z)') = Cardinality(Recording(z)) - 1
          /\ Cardinality(Notifying(z)') = Cardinality(Notifying(z)) + 1
      BY <1>2, <3>1, <3>2, FS_AddElement, FS_RemoveElement
    <3>4. deal[z].status = "settled"
      BY <2>1, <2>3 DEF IInv, DeliveryProgress
    <3>5. entitled'[z] = entitled[z] + 1 /\ notified'[z] = notified[z] /\ deal' = deal
      BY <1>2, <2>1, <2>3
    <3>. QED
      BY <1>2, <3>3, <3>4, <3>5
  <2>. QED
    BY <2>2, <2>3
<1>4. CASE NotifyMerchant(h)
  <2>1. /\ hook[h].pc = "recorded"
        /\ hook' = [hook EXCEPT ![h] = IdleHook]
        /\ notified' = [notified EXCEPT ![d] = notified[d] + 1] \/ notified' = notified
        /\ UNCHANGED <<deal, entitled>>
    BY <1>4 DEF NotifyMerchant, Respond, store
  <2>2. Recording(z)' = Recording(z)
    BY <1>1, <2>1 DEF Recording, IdleHook
  <2>3. CASE z # d
    <3>1. Notifying(z)' = Notifying(z)
      BY <1>1, <2>1, <2>3 DEF Notifying, IdleHook
    <3>2. entitled' = entitled /\ notified'[z] = notified[z] /\ deal' = deal
      BY <1>2, <2>1, <2>3
    <3>. QED
      BY <1>2, <2>2, <3>1, <3>2
  <2>4. CASE z = d
    <3>1. Notifying(z)' = Notifying(z) \ {h} /\ h \in Notifying(z)
      BY <1>1, <2>1, <2>4 DEF Notifying, IdleHook
    <3>2. Cardinality(Notifying(z)') = Cardinality(Notifying(z)) - 1
      BY <1>2, <3>1, FS_RemoveElement
    <3>3. /\ notified'[z] \in {notified[z], notified[z] + 1}
          /\ entitled' = entitled /\ deal' = deal
      BY <1>2, <2>1, <2>4
    <3>. QED
      BY <1>2, <2>2, <3>2, <3>3
  <2>. QED
    BY <2>3, <2>4
<1>. QED
  BY <1>3, <1>4

\* Every step keeps the bound on records.
LEMMA RecordsLeftStep ==
  ASSUME IInv, IInv', IsFiniteSet(Hooks), RecordsLeft, [Next]_vars
  PROVE  RecordsLeft'
<1>. DEFINE Fewer == /\ UNCHANGED <<entitled, notified>>
                     /\ \A d \in Deals : /\ Recording(d)' \subseteq Recording(d)
                                         /\ Notifying(d)' \subseteq Notifying(d)
<1>1. hook \in [Hooks -> HookRecord]
  BY DEF IInv, TypeOK
<1>2. ASSUME UNCHANGED <<hook, entitled, notified>>
      PROVE  Fewer
  BY <1>2 DEF Recording, Notifying
<1>3. ASSUME NEW h \in Hooks, hook' = [hook EXCEPT ![h] = IdleHook],
             UNCHANGED <<entitled, notified>>
      PROVE  Fewer
  BY <1>1, <1>3 DEF Recording, Notifying, IdleHook
<1>4. ASSUME NEW h \in Hooks, CheckEvent(h) \/ SettleDeal(h) \/ SettleSession(h)
      PROVE  Fewer
  <2>1. CASE hook' = [hook EXCEPT ![h] = IdleHook]
    BY <1>3, <1>4, <2>1 DEF CheckEvent, SettleDeal, SettleSession, store, external
  <2>2. ASSUME NEW pc \in {"checked", "dealSettled", "sessionSettled"},
               hook' = [hook EXCEPT ![h].pc = pc]
        PROVE  Fewer
    <3>1. hook[h].pc \in {"matched", "checked", "dealSettled"}
      BY <1>4 DEF CheckEvent, SettleDeal, SettleSession
    <3>2. UNCHANGED <<entitled, notified>>
      BY <1>4 DEF CheckEvent, SettleDeal, SettleSession, store, external
    <3>. QED
      BY <1>1, <2>2, <3>1, <3>2 DEF Recording, Notifying, HookRecord
  <2>. HIDE DEF Fewer
  <2>. QED
    BY <1>4, <2>1, <2>2 DEF CheckEvent, SettleDeal, SettleSession, Respond
<1>5. ASSUME \/ \E d \in Deals : CloseDeal(d)
             \/ Connect \/ Tick \/ UNCHANGED vars
             \/ \E r \in Requests, d \in Deals, p \in Presentable :
                  ViewDeal(r, d, p) \/ PayDeal(r, d, p)
             \/ \E c \in Checkouts : Complete(c) \/ FundsLand(c) \/ FundsFail(c)
             \/ \E e \in events : IgnoreEvent(e)
      PROVE  UNCHANGED <<hook, entitled, notified>>
  BY <1>5 DEF CloseDeal, Connect, Tick, vars, ViewDeal, PayDeal, Complete, FundsLand,
     FundsFail, IgnoreEvent, store, external
<1>6. ASSUME NEW r \in Requests, RequestStep(r) \/ RequestDies(r)
      PROVE  UNCHANGED <<hook, entitled, notified>>
  BY <1>6 DEF RequestStep, AnswerView, VerifyProof, RedeemProof, CreateCheckout,
     CheckoutFails, StoreCheckout, RequestDies, store, external
<1>7. ASSUME NEW h \in Hooks, HookDies(h)
      PROVE  Fewer
  BY <1>3, <1>7 DEF HookDies, store, external
<1>8. Fewer => RecordsLeft'
  BY NoMoreDeliveries
<1>. HIDE DEF Fewer
<1>9. ASSUME NEW h \in Hooks, HookStep(h) \/ HookDies(h)
      PROVE  RecordsLeft'
  BY <1>4, <1>7, <1>8, <1>9, RecordKeepsRecords DEF HookStep
<1>. QED
  BY <1>2, <1>5, <1>6, <1>8, <1>9, MatchKeepsRecords DEF Next

\* A deal has no more entitlement records than deliveries can overlap, and no
\* more notifications than records, however deliveries are repeated, overlap or
\* die. With one delivery at a time the merchant is told once at most.
THEOREM RecordsAreBounded ==
  ASSUME IsFiniteSet(Hooks)
  PROVE  Spec => []RecordsBounded
<1>1. IInv /\ RecordsLeft => RecordsBounded
  BY RecordsCounted DEF RecordsLeft, RecordsBounded
<1>2. Init => RecordsLeft
  <2>. SUFFICES ASSUME Init PROVE RecordsLeft
    OBVIOUS
  <2>1. \A d \in Deals : Recording(d) = {} /\ Notifying(d) = {}
    BY DEF Init, IdleHook, Recording, Notifying
  <2>2. Cardinality({}) = 0 /\ Cardinality(Hooks) \in Nat
    BY FS_EmptySet, FS_CardinalityType
  <2>3. \A d \in Deals : entitled[d] = 0 /\ notified[d] = 0
    BY DEF Init
  <2>. QED
    BY <2>1, <2>2, <2>3 DEF RecordsLeft
<1>3. IInv /\ IInv' /\ RecordsLeft /\ [Next]_vars => RecordsLeft'
  BY RecordsLeftStep
<1>. QED
  BY <1>1, <1>2, <1>3, Invariance, PTL DEF Spec
=============================================================================
