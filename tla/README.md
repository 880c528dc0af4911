# Formal model of Bouncr

Bouncr (package in `src/`, TypeScript) is a price negotiator a merchant embeds
in a pricing page. A buyer haggles with a persona whose words come from a
language model and whose numbers come from a deterministic engine; an accepted
price becomes a deal, which the buyer pays through Stripe on the merchant's
connected account, and the webhook of that payment grants the entitlement.

This directory holds TLA+ modules translated from that source, the TLC
configurations that check them on small instances, and theorems checked by
TLAPS. `PROJECT.json` lists the components, runs, mutants, the source lines of
every definition, the findings, the hazards and the theorems. Paths below are
those of the repository (`src/service.ts` is `src/src/service.ts` in
`PROJECT.json`).

## 1. Inventory

| Component | State it keeps | Operations | What makes it hard | What makes it correct | Modelled in |
|---|---|---|---|---|---|
| Policy engine, `src/engine.ts` | none: round, ask, opening time are passed in | `openSession`, `decide`, `applyAction` | boundaries: last round, tiers' bounds, one-cent tolerances | no price under the floor or under what the buyer's case unlocks; the ask never rises; a yes seals | `Engine`, `Haggle` |
| Turn pipeline, `src/llm/pipeline.ts`, `negotiator.ts`, `extractor.ts` | none | `runTurn`: extract, decide, render, validate | what the extractor reads decides the branch | abuse never reaches the engine | `Pipeline`, `Haggle` |
| Replies, `src/llm/renderer.ts`, `validator.ts` | none | `render`, `validate`, the template | a language model writes them | no price that is marked as one but the engine's and the buyer's own, no plain closing without a deal | `Reply`, `Haggle`; wording is not modelled |
| Session service, `src/service.ts` | tables sessions, turns, deals, cooldowns | `createSession`, `postMessage` (with `throttle`, `lockInAtCap`, `endWithWalk`), `acceptCurrent` | each handler reads the session, awaits a language model for seconds, then writes unconditionally; handlers of one session overlap; processes die | prices stay in the band; a closed session comes to rest; an accepted one gets its deal; spend is bounded | `Negotiation` |
| Settlement, `src/service.ts`, `src/proof.ts`, `src/stripe/` | deals (status, Stripe session, subscription), spent proofs, event log | `getCheckoutView`, `startCheckout`, `handleStripeEvent`, `notifyEntitlement` | two tabs, double taps, redelivered and overlapping webhooks, delayed bank debits, expiry, death between two writes | single use of proofs; paid before settled; settled before granted; granted before told | `Settlement`, `SettlementPromise` |
| Renegotiation, `src/service.ts`, `src/reneg.ts` | usage cycles, `renegSessionId` of a deal, the subscription at Stripe | `reportUsage`, `renegotiateDeal`, `settleReneg`, `grandfather` | reports out of order, two at a time; Stripe refusing a reprice; a raise computed from a deal that was repriced already | the price is in the band of its session, billed and counted once; a raise has sustained overuse behind it | `RenegPricing`, `Renegotiation` |
| Text message channel, `src/service.ts`, `src/app.ts` | open session of a number | `startSmsSession`, `handleInboundSms` | two starts at a time; STOP against running requests; a number flooded from many addresses | one live thread per number; STOP is final; texts are bounded | `Texting` |
| Rate limiter, `src/ratelimit.ts` | windows in memory | `hit`, `hitAll`, `sweep`, `messageRateExceeded` | window edges, sweeping, restarts | a bound in any span | `RateLimit`, used in `Texting` |
| Merchant accounts, `src/service.ts`, `src/auth.ts`, `src/lint.ts` | merchants, plans | signup, login, password change and reset, key rotation, Connect, webhook URL, go-live, plan edits, delete | check-then-write on the record that was read; tokens that outlive the account | one account per email; a reset link works once; live only with a webhook; plans lint clean; nothing outlives the account | `Accounts` |
| Stores, `src/store/` | all tables | one call = one atomic write or read | two implementations | both behave as the interface says | the calls, in each module |
| Analytics, `src/analytics.ts` | none | the dashboard's counts | reads statuses and deals that racing requests wrote | each renegotiation counted once | the counts of `Renegotiation`; sums and the experiment are not modelled |
| Discovery, MCP, widgets, command line, mailer, notifier | none of their own | prompts, pages, transport | wording | | not modelled |

Handlers interact through the store only; the engine is called by the session
service, Stripe and the language model are called and call back over HTTP.
There is no lock and no transaction: every interleaving of store calls of two
requests can happen, in one process (at an `await`) or between two serverless
instances.

## 2. Modules

| Module | Models | Built on |
|---|---|---|
| `Settlement` | the money path, one action per await of each handler | |
| `SettlementPromise` | what settlement promises: five sets that only grow, each inside the one before | |
| `SettlementProofs`, `SettlementImplements` | theorems | `Settlement`, `SettlementPromise` |
| `Engine` | `decide` and `applyAction` as operators | |
| `Pipeline` | `runTurn` from extraction to action; `statusForAction` | `Engine` |
| `Reply` | the reply of a turn: rendering, validation, template | `Pipeline` |
| `Haggle` | one negotiation, turn by turn, cold-start or renegotiation | `Reply` |
| `EngineProofs` | what `decide` and a turn can return, in every branch | `Pipeline` |
| `HaggleProofs` | theorems | `Haggle`, `EngineProofs` |
| `Negotiation` | the session handlers over one store, concurrent | `Pipeline` |
| `NegotiationProofs` | theorems | `Negotiation`, `EngineProofs` |
| `RenegPricing` | `buildRenegConfig` as operators | |
| `Renegotiation` | usage, renegotiation sessions, repricing, the dashboard's counts | `RenegPricing` |
| `RenegotiationProofs` | theorems | `Renegotiation`, `RenegPricing` |
| `RateLimit` | the fixed-window limiter as operators | |
| `Texting` | the text message channel | `RateLimit` |
| `TextingProofs` | theorems | `Texting`, `RateLimit` |
| `Accounts` | merchants, their credentials and plans | |
| `AccountsProofs` | theorems | `Accounts` |
| `MCSettlement`, `MCHaggle`, `MCNegotiation`, `MCRenegotiation`, `MCTexting`, `MCAccounts` | messages, rules and symmetry for TLC | the module of their name |

### Settlement

`deal`, `session`, `redeemed`, `account`, `entitled` are the tables (`entitled`
counts the `entitlement.recorded` events of a deal); `proof` is the tokens
minted (deal and expiry); `checkout` and `events` are Stripe's side; `request`
and `hook` are the handlers cut at their awaits, with the locals they keep;
`notified` counts the POSTs to the merchant.

`ViewDeal`/`AnswerView` are `getCheckoutView`; `PayDeal`, `VerifyProof`,
`RedeemProof`, `CreateCheckout` (or `CheckoutFails`) and `StoreCheckout` are
`startCheckout`; `IgnoreEvent`, `MatchDeal`, `CheckEvent`, `SettleDeal`,
`SettleSession`, `RecordEntitlement`, `NotifyMerchant` are `handleStripeEvent`
and `notifyEntitlement`; `CloseDeal` is `closeDeal`; `Connect` is
`startConnectOnboarding` storing an account. `Complete`, `FundsLand` and
`FundsFail` are Stripe and the buyer. `RequestDies` and `HookDies` are a process
killed, or a store call rejected, at an await.

Abstractions, each one a merge of reads or a log write nothing looks at:

- `getMerchant` and `createCheckout` are one step; so are `getDeal` and
  `getPlanById`; the logs `deal.settled`, `checkout.started` and
  `webhook.*` are left out.
- Signatures are abstracted: a token is a jti, and pages present what the
  service minted, or none. The amount is not modelled: `mintProof` copies it
  from the deal and `startCheckout` from the token.
- The idempotency key holds the jti, and a jti is redeemed once, so every
  `createCheckout` call makes a session of its own.
- The buyer can have the URL of a Stripe session from `StoreCheckout` on.
- `account` is a number that grows: onboarding creates an account when it read
  none, so two onboardings that overlap leave the later one.
- A tick is 15 minutes, the life of a proof. The other lives are rounded to it.

### Engine, Pipeline, Reply, Haggle

Prices are whole cents and shares percents, so `round2` is exact and the
tolerance `0.01` of `decide` is one cent. Binary floating point could move a
comparison that is exact at the cent; that is not modelled. `roomFactor` raises a ratio to the power 1.3
or 2.5. The model keeps the range of the factor in each regime (full from the
list price up, 55% at the target, 20% at the floor), so a pull lands anywhere
in an interval and `Decide` returns a set of actions. What holds of every action
of the set holds of the code's; that `decide` is a function of its arguments
(invariant I4 of the README) is lost, and so is the shape of the curve.

`Extraction` is what the extractor answers with. `"other"` stands for the four
intents `runTurn` treats alike, `"default"` for the template negotiator, which
rates no reasoning. `special` is an option no caller passes. What cannot be read
at all is the extractor's `FALLBACK`.

`Haggle` runs turns of one session: `session` is the engine state, `status` and
`price` the outcome, `earned` a history variable, the lowest price the moves so
far unlock (`reachableFloor`), `reply` what the buyer read last.

`Reply` keeps of a text the prices marked with a dollar sign or a cadence
(`stated`), those told without a mark, as in "24 flat" or "twenty-four" (`bare`),
and whether it has a closing phrase, excused by a "no deal" or not (`closing`).
`Rendered` is anything a language model could write with the price it was told,
the buyer's offer and prices it makes up (`Figments`, the floor among them);
`Valid` is `validate`; `RepliesTo` is the two tries and the template of
`runTurn`. The validator's patterns hear marked prices only. From a thousand
dollars up they may hear something else, as the price is written: $2,400 is heard
as itself, $2400 as $240, $2400/mo as both (`HeardAs`, `Hearings`). A closing
phrase next to a "no deal" anywhere in the text is let through on any action.
Closing words that `ACCEPT_RE` does not have are no closing here. So
`ReplyTellsNoOther` is what the validator enforces, of marked prices and plain
closings; that nothing at all leaks (validator.ts:5) is `ReplyLeaksNothing`,
which TLC refutes.

### Negotiation

One buyer of one plan: `session`, `said` (user turns per minute), `deals`,
`paid`, `cooldown` are the tables, `handler` the requests between two awaits
with the session as they read it, `calls` a history of language model turns.
`Post`, `ListTurns`, `RecordTurn`, `WriteTurn` are `postMessage` from its read to
its `updateSession`; then `CloseDeal` or `StartCooldown`. `Throttle` and `LockIn`
are the two early exits, `Take`/`WriteAccept` is `acceptCurrent`, `TakeAtCap` the
same called from `lockInAtCap`, `Open`/`InsertSession` is `createSession`.
`Settle` is the webhook of a deal, whose details are in `Settlement`.

A tick is the minute of the rate guard; expiry and cooldown are a few ticks
instead of days. The plan's configuration does not change, and the sessions are
of the `initial` kind: renegotiation and text sessions have modules of their own.

### RenegPricing, Renegotiation

`RenegPricing` takes the sums of `buildRenegConfig` exactly and rounds them once,
as its `round2` does. `cost-plus` is one rate; usage is what the last three
cycles report.

`deals` (the sale first, then one record for each renegotiation that ended),
`usage` and `sessions` are the tables, `subscribed` and `billed` the
subscription at Stripe, `handler` the requests between two awaits. `Report`,
`ListCycles`, `AddCycle` are `reportUsage`; `Ask` is `renegotiateDeal`;
`CreateSession`, `LinkReneg` are `openRenegotiation`; `Request` and `Counter`,
`TurnAccepts`, `TurnWalks`, `TakeAsk` are what a turn, the message cap or the
take-the-price button makes of a session, its engine taken as what `Haggle`
shows of it (an ask that does not rise, a price between floor and ask, or a
walk); `Reprice` or `StripeRefuses`, `RecordDeal`, `ClearLink`, `CloseSession`
are `settleReneg` and `grandfather`. A session's opener and its answer are out of
the language model and change nothing. `Counter` leaves three sample asks: the one that
was read, the target, the floor. History: `known` (somebody was told the
session's id), `evidence` (the cycles it was opened on), `raced` (a request
began before another was answered), `late` (the deals a cycle was reported for
with a later one, or the same, on record). `RenegAccepted`, `Grandfathered`,
`FunnelAccepted` and `FunnelSettled` are what `computeAnalytics` makes of the
tables. It counts a renegotiation by its session's status, so one that was
recorded and billed and is then re-opened by a turn read before its end
(`Reopened`) is counted neither way: `TallyIsWhole` says so, and shows that these are
all it misses, and that requests answered one at a time re-open none.

### RateLimit, Texting

`RateLimit` is `hit` for a set of rules at once (`hitAll`), with the sweep that
drops windows that ran out. A window that was never opened and one that was swept
are the same.

`Texting` is `POST /v1/sms/start` (`Start`, two keys: the address, and the number
once the address is let through) and `startSmsSession` (`FindThread`, then
`SendText`, or `ExpireThread`, `CheckCooldown`, `CreateSession`, `SendText`); and
`POST /v1/webhooks/sms` (`Inbound`) with `handleInboundSms` (`Stop`, or `Post`,
`WriteTurn`, `StartCooldown`). `Restart` is a process that is replaced: its
windows and requests are gone, the tables stay. A turn's outcome is free among
the statuses a turn can leave; past the expiry it is accepted (a yes at the message
cap) or walked. A throttled turn, or one held at the cap, writes nothing. `texts` is, for a
number, the ticks its start texts were admitted at.

### Accounts

`merchants` and `plans` are the tables, rows in order of creation, with the
unique email of the Postgres schema, its references and the deletion's
transaction; `held` is what a merchant was last answered (token, key, webhook
secret, Stripe account), with two histories: whether it cleared its URL, and
whether a key was lost on its way to it (`lost`). Each request is a read
with its checks, and a write an await later: the names are those of
the service's methods (`Signup`/`CreateMerchant`/`FirstPlan`, `ChangePassword` and `ResetPassword`/`WritePassword`, `RotateKey`/`WriteKey`,
`SetWebhookUrl`/`WriteWebhook`, `StartConnectOnboarding`/`WriteAccount`,
`GoLive`/`WriteLive`, `CreatePlan`/`InsertPlan`, `UpdatePlan`/`WritePlan`,
`DeleteAccount`/`DeleteMerchant`). A signup, a rotated key, a webhook set-up and an
onboarding hand something out, so their answer is a step of its own (`Answer`): a
handler that dies between the commit and the answer leaves the merchant with what
it held before, and with a rotated key that is a dead one. Salts, keys, secrets and Stripe accounts are
random in the code: each is the next number of `fresh`. A token or a link that
ran out is one that is not presented. Of a plan the three prices are kept; fee,
persona, discovery and `active` change nothing the properties tell apart.

## 3. Runs

Passing runs:

| Run | Instance | What it shows |
|---|---|---|
| `settlement_pay` | one deal, two proofs, two Stripe sessions, two requests, one delivery, one account, two instants | types; `ProofSingleUse`; `SettledStopsSelling` |
| `settlement_deliver` | two deals, two proofs, two Stripe sessions, one request, two deliveries, one death | `SettledByOwnPayment`, `RecordsBounded`, refinement `KeepsPromise` |
| `settlement_live` | one deal, two Stripe sessions, one delivery, one death, two accounts, two instants | `PaidSettles` under `FairSpec`; it excepts a session that a later checkout replaced, and a merchant that moved to another account than the session's (service.ts:1105 acknowledges such an event and settles nothing) |
| `haggle` | ladder 40 / 36 / 30 / 24 cents, accept threshold 86 %, three rounds, four turns, both kinds, every reply a model can write with the price it is told, the buyer's offer and a made-up 24, the floor | `AskIsEarned`, `PriceIsEarned`, `AskNeverRises`, `YesSeals`, `ReplyTellsNoOther` |
| `negotiation_races` | one session, two requests at a time, five in all, one death, cap 3, rate 2 | `PricesInBand`, `SpendBounded`, `ClosedIsQuiet`, and `AcceptedGetsDeal` under `FairSpec` |
| `negotiation_serial` | two sessions, one request at a time, six in all, one death | `OneDealEach`, `AskNeverRises` |
| `renegotiation` | a sale of 1.00 with or without subscription, three cycles, a reading under and one over the ceiling, two breaches to a raise, two low cycles to a drop, two requests at a time, four in all, one refusal or death | `RecordedInBand`, `BilledIsRecorded`, `OneRenegEach`, `RaiseIsSustained`, `EndIsCarriedThrough`, `LinkGoesWithSession`, `TallyIsWhole` |
| `texting` | one number, two addresses, two requests at a time, four in all, rules of one, two and three ticks, three instants, one restart | `TextsBounded`, `OneThread`, `StopHolds`, `CooldownHolds` |
| `accounts` | one email, two passwords, one URL, prices 1 to 4, two requests at a time, five in all, one death | `EmailUnique`, `ResetOnce`, `LiveIsNotified`, `PlanLadder`, `NothingLeft`, `HandedHolds` |

Why the bounds are enough: every race of the code is between two requests, or
two deliveries; two proofs and two Stripe sessions are what a second checkout
takes; one instant past a life is what an expiry takes; one death anywhere is
what a redelivery takes; two accounts are what a reconnection between a checkout and
its webhook takes. Rounds run to one past the last round, the messages
include every tier with offers under, at and over every boundary of the ladder,
and the requests of a session run past its message cap and its rate. Two
breaches and the session they open take three requests, its end a fourth; a
renegotiation opened by hand leaves two for another one. The texting rules have
a burst window inside a longer one, so that starts fall on both sides of an edge,
and the sweep runs when more than four of the six windows are open. Signing up takes one request of five, a
reset three, going live two after it; two accounts with one email, or an edit
against another, take two at a time. One email is enough for two accounts to
want it, and for an account that is deleted and signed up anew.
`CHECK_DEADLOCK FALSE` everywhere: the bounds on the clock, the requests and the
turns stop every behaviour, and a store nobody calls rests.

Several properties speak of requests answered one at a time (`raced`): there
the code keeps what it says, and with two that overlap it does not, because
no handler writes on a condition. These are `OneRenegEach`,
`RaiseIsSustained`, `OneThread`, `CooldownHolds`, `ResetOnce`, `HandedHolds`
half of `BilledIsRecorded` and the second half of `TallyIsWhole`. What survives every
overlap is stated without it: `RecordedInBand`, `EndIsCarriedThrough`,
`LinkGoesWithSession`, the first half of `TallyIsWhole`,
`TextsBounded`, `StopHolds`, `EmailUnique`, `LiveIsNotified`, `PlanLadder`,
`NothingLeft`.

`RaiseIsSustained` is of deals whose cycles came once each and in order (`late`):
with three breaches to a raise, a report that comes late is put between those on
record and leaves a reading under the ceiling among the last three.

Each passing property has a mutant: an operator next to the one it replaces
("Seeded fault") with a plausible bug, under which TLC finds the property
violated.

Runs that find a violation, each of a sentence the repository says:

| Run | Sentence | What TLC finds |
|---|---|---|
| `settlement_charged_once` | service.ts:1344 "Resume/idempotency keep an abandoned or double-tapped checkout from charging twice" | two tabs, two proofs, two Stripe sessions, both paid |
| `negotiation_closed` | service.test.ts:169 "rejects messages on a closed session" | a message in flight writes `open` over `accepted` |
| `reneg_lowers` | reneg.ts:6 "the close is always ≥ what they pay now" | a raise leaves the original deal at its old price; the next raise of that deal starts from it and closes under the bill |

Further configurations, which are not among the runs of `PROJECT.json` and which
TLC refutes too:

| Configuration | Sentence | What TLC finds |
|---|---|---|
| `settlement_stranded` | service.ts:1345 "... or stranding the deal" | the later session's id replaces the earlier's; the earlier's payment matches no deal |
| `settlement_recorded` | service.ts:1155 "a settlement that happened is always recorded" | death between `updateDeal` and `entitlement.recorded`; the redelivery stops at the settled guard |
| `haggle_reneg_ends` | service.ts:794 "a reneg that can't reach agreement terminates into a grandfather settlement" | insulting or numberless turns hold in any round |
| `haggle_bare` | validator.ts:5 "it leaked no number other than the one the policy engine permitted, and that it didn't fabricate an acceptance" | the floor told without a dollar sign or a cadence is not heard, and a "no deal" anywhere excuses a closing phrase on a counter |
| `haggle_template` | renderer.ts:187 "guaranteed Validator-safe" | from $1000 up the validator reads another amount in the template; it is sent unvalidated, so no buyer sees the difference |
| `negotiation_expired` | README.md:22 "past expiry it always `walk`s" | `acceptCurrent` does not look at the expiry |
| `reneg_retried` | README.md:274 "a viral week won't reopen the deal" | the same cycle reported twice counts as two breaches |
| `reneg_uncounted` | analytics.ts:69 `accepted` "negotiated to a new price", beside `grandfathered` | a counter that was read before the end re-opens a recorded, billed renegotiation: it is in neither count |
| `reneg_funnel` | analytics.ts:4, the funnel from accepted to settled | a grandfathered renegotiation has a settled deal and no accepted session: more settled than accepted |
| `accounts_secret` | service.ts, `setWebhookUrl` "Returns the secret so the merchant can configure verification on their side" | an onboarding that read the row without a secret writes another over the one handed out |
| `accounts_key` | app.ts:137 "mints a new one (returned ONCE) and invalidates the old immediately" | a death between the write and the answer: the key the merchant has is dead, and nobody has the new one |

Departures from the documents seen while modelling that have no run: the
stored ask rises when two messages of a session overlap (README.md:21, the same
stale write as `negotiation_closed`; `AskNeverRises` holds of one request at a
time); two overlapping deliveries notify twice (service.test.ts:330 tests the
sequential case; `RecordsBounded` states what holds); `decide` never reads
`minConcession` (README.md:21); a turn past `maxRounds` is held (README.md:22);
a session past its message cap stays open (README.md:248); a session can open
in the moment its buyer is walked (README.md:247); a bare number within the
accept threshold of the target closes under it (engine.ts:129).

## 4. Fairness

`Settlement!FairSpec`: weak fairness of a delivery's next step (a started
handler runs on, unless it dies, and deaths are bounded) and strong fairness of
the delivery of a paid event to a handler, which is Stripe's retry until it has
its 200. It is strong because the pool `Hooks` is a bound of the model: in the
code each delivery is its own invocation. Nothing is assumed of buyers, of
`startCheckout`, of time.

`Negotiation!FairSpec`: weak fairness of the next step of a request that began,
the event loop's. Nothing is assumed of buyers.

## 5. Proofs

All for every value of the constants, from the named assumptions of the modules
(`NullsAreFresh`, `TicksAreNaturals`, `Ladder`, `MessagesAreExtractions`,
`PolicyIsNatural`, `UsagePolicyIsNatural`, `RenegConstants`, `TextingConstants`,
`AccountConstants`), which TLC evaluates in every run of those modules. Where a
theorem needs more, it says so itself: `OneAtATime` (there are no two handlers), a
finite number of handlers where the bound is a cardinality, and
`PricesUnderAThousand`.

- `SettlementProofs`: `TypeCorrect`, `SingleUse` (`ProofSingleUse`),
  `SettledByPayment` (`SettledByOwnPayment`). None of the three is inductive.
  `IInv` adds what the handlers carry between awaits: a request past redemption
  owns its jti alone (`BurnedOwnsProof`) and no session has been created with it
  (`BurnedIsUnused`); the session it created is its own (`CreatedHasSession`); a
  deal holds a session of its own (`DealHoldsOwnSession`); a paid event is
  true (`PaidEventIsTrue`); a delivery past the gates is of a paid session of
  its deal (`DeliveryIsOfPaid`), and the deal is as far as the delivery is
  (`DeliveryProgress`). One lemma per action, under it one step per conjunct the
  action can disturb.
  `StopsSelling` (`SettledStopsSelling`) follows action by action from `IInv`.
  `RecordsAreBounded` (`RecordsBounded`) assumes `IsFiniteSet(Hooks)`, since the
  bound is a cardinality, and counts (`RecordsLeft`): a deal's records and the
  deliveries that may still write one are no more than the handlers there are.
- `SettlementImplements`: `Implementation`, `Spec => KeepsPromise`, from `IInv`
  and the extra invariant that a session is never settled before its deal. Each
  action is a step of the promise or leaves its five sets alone.
- `HaggleProofs`: `AskEarned`, `PriceEarned`, `AskMonotone`, from bounds on what
  a pull can land on and a lemma per branch of `decide` (`DecideSound`, in
  `EngineProofs`, which `NegotiationProofs` shares). The
  assumption `Ladder` asks of a plan less than `lintConfig` does, so that it
  covers the configurations `buildRenegConfig` makes.
  `TellsNoOther` (`ReplyTellsNoOther`) adds that under a thousand dollars a marked
  price is heard as itself, so that what is not permitted is not stated with a mark;
  it says nothing of bare prices and excused closings. It takes
  `PricesUnderAThousand` too: a made-up $2400 passes where $240 is permitted.
  `YesTakesTheNamedPrice` (`YesSeals`) rests on `AskIsNamed`: the reply of an open
  negotiation states the standing ask. It holds because `validate` wants the
  engine's amount in the text, and that takes `PricesUnderAThousand` (of the plan's
  prices, the offers and the figments): the dollar pattern hears the first three
  digits of a longer number, so that a reply which repeats the buyer's own $1234
  would pass for one that names $123.
- `AccountsProofs`: `TypeCorrect`, `OneEmailEach` (`EmailUnique`), `LadderKept`
  (`PlanLadder`), `DeletionIsWhole` (`NothingLeft`), for any number of emails,
  prices and handlers. `IInv` adds what a request carries from its read to its
  write: a config that is lint clean for every plan about to be written, an
  email and a password in every signup. The proof has one lemma for the requests
  (they leave the tables alone), one for the writes of a merchant's row, one for
  the signup and one for the plans. `LiveKeepsItsWebhook` (`LiveIsNotified`)
  needs `Reachable`: an account without a URL that did not clear it is
  neither live nor has a request on its way there; a request that goes live has
  read a URL, and whoever takes it away says so.
  `LinkResetsOnce` (`ResetOnce`) and `AnswersHold` (`HandedHolds`) are of requests
  answered one at a time. `SerialInv` says what that buys: one request at most is at
  work, what it read is still in the row (`Reads`), every key and salt was drawn
  once and a salt that was reset is in no row any more (`Drawn`), and what a
  merchant was told is what its row says (`Told`), but for a key that is on its way
  to it or was lost with the request that carried it.
- `NegotiationProofs`: `TypeCorrect`, `StalePricesInBand` (`PricesInBand`) and
  `ClosedStaysQuiet` (`ClosedIsQuiet`), for any number of sessions and handlers
  that race and die. `IInv` adds that whatever a handler read, decided on or is
  about to close at lies in the band: a stale ask is still an ask of the plan.
  `SerialOneDeal` (`OneDealEach`) and `SerialAskMonotone` (`AskNeverRises`) state
  their hypothesis, `OneAtATime`: there are no two handlers, as in the run that
  checks them; TLC refutes both in the instance of `negotiation_races`, where two
  requests overlap. They need `Fresh`,
  that what a request has read still holds when it writes, and `Dealt`, that a
  deal has closed its session. `BurstIsBounded` (`SpendBounded`) is of any finite
  number of handlers. `SpendInv` accounts for the language model turns of the
  running minute: each is recorded, or its request still thinks, or it died. A turn
  that begins found the recorded ones under the rate, so it and what is in flight
  stay under the bound; the minutes before are closed. What the guard counts
  (`SaidSince`) is a recursive function over ticks: `SumsExist`, `SumsBound` show that
  it is defined and no less than each of its terms, from the least natural of a
  set (`LeastNat`).
- `RenegotiationProofs`, on the band: for every price, usage and policy,
  `RaiseStartsFromPriceAndCost` and `DropStaysOverCost` order floor, target and
  anchor and bound the floor; `TargetIsStrictlyInside` shows that the target is
  strictly inside once the anchor is four cents over the floor, which is what
  rounding leaves of the "strictly inside" of `clampInside`.
- `RenegotiationProofs`, on the protocol: `TypeCorrect`, `RecordsInBand` (`RecordedInBand`),
  `EndsAreCarried` (`EndIsCarriedThrough`) and `CountedOnce` (`TallyIsWhole`), for
  any number of requests, deals, cycles and sessions. `IInv` adds what a session
  is priced on (`Priced`: its band is ordered, its ask lies in it and a raise
  starts at the price of its deal, from `RaiseStartsFromPriceAndCost`), what a
  request carries to its write (`Carries`) and what a deal was closed at
  (`Closed`). `EndIsCarriedThrough` is inductive beside `IInv`; `CountedOnce` adds
  that an accepted session always has a request that will write "settled"
  over it (`AcceptedEnds`) and that what is settled is on record (`RecordFirst`), so
  that with nothing in flight a recorded session is settled, walked or re-opened;
  that requests one at a time re-open none follows from `OneInv`.
  `LinksGo` (`LinkGoesWithSession`) is of every overlap too: a session is linked
  once, before anybody is told of it (`LinkInv`), and while its link stands, it is
  open or a request is on its way to clear it (`LinkHeld`). `BillIsOnRecord`
  (`BilledIsRecorded`): the bill is on record or a request carries it there
  (`BillHeld`), and of requests one at a time it is the last record, or the one
  about to be written (`BillLatest`). `OneAtATime` (`OneRenegEach`) follows from
  `OneInv`: what a request read of its deal's link still holds (`Stands`), and a
  session left to settle is the one its deal is linked to (`Attached`).
  `RaisesAreSustained` (`RaiseIsSustained`) from `UsageInv`: a streak of n has n
  readings over the ceiling right before it (`Backed`), as long as no cycle was put
  between them.
- `TextingProofs`: `TypeCorrect`, `StopIsFinal` (`StopHolds`: what STOP ended is not
  open and has no turn left that would write it so), and `FloodIsThrottled`
  (`TextsBounded`) for every set of rules, any finite number of requests and any
  number of restarts. `Limited` follows one window of one rule: the texts sent and
  those that admitted starts may still send (`Due`), over the span before now when
  the window is shut, over its own span and the one before when it is open, are
  at most what it and the window before it have counted, and a window more for each
  restart. `ThreadsNeverFork` (`OneThread`) and `CooldownIsKept` (`CooldownHolds`), of
  requests answered one at a time, share `SerialInv`: there is one open thread for
  a number, and what the request at work has read still holds (`ReadsFresh`).

Only model-checked: the liveness properties `PaidSettles` and `AcceptedGetsDeal`,
since fairness and `ENABLED` are out of the prover's reach; and what the runs with
a violation and the further configurations refute. Induction over the naturals is
within reach as the least counterexample of a set (`LeastNat`), which is how the
one recursive function of these modules is handled; the induction theorems of the
library that take a predicate as a parameter are not, nor are RECURSIVE operators,
which these modules do not use.

## 6. Hazards

`PROJECT.json` lists what is hard to test, at the line where it bites, with the
properties that would catch it or the reason why none does.

## 7. What could follow

1. Plan edits under open sessions: `Accounts` and `Negotiation` over one plan.
2. A refinement of the negotiation as settlement has one: the abstract haggle of
   one session, which `Negotiation` with requests one at a time implements turn by
   turn.

## 8. Not modelled

- Wording: personas, prompts, discovery questions, how the extractor and the
  validator recognise words. A property of them is one of language.
- Pages, widgets, the command line, the MCP server's protocol, mail and text
  message transport, SQL: pure input and output. The mock gateway and the
  in-memory store are modelled only as the interfaces the service calls.
- The A/B experiment and the other sums of the analytics: they read the event log,
  keep nothing and change nothing.
- Amounts of money on Stripe's side and fees: copied, not computed, but for
  `connectFee`.
- Plan edits under an open session: the configuration is a constant of
  `Negotiation`, and `Accounts` has no sessions.
- The shape of the concession curve and floating point (section 2).
