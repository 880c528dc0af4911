------------------------------ MODULE Accounts ------------------------------
(***************************************************************************)
(* Merchant accounts of service.ts over the Postgres store: signup, login, *)
(* passwords and reset links (auth.ts), API keys, Connect onboarding, the  *)
(* entitlement webhook, go-live, plans (lint.ts) and deletion.             *)
(*                                                                         *)
(* A request reads the store when it begins and writes it an await later:  *)
(* in between another one may. What it hands out it answers later still,   *)
(* and an answer may be lost. Salts, keys, secrets and Stripe accounts are *)
(* random: each is a number never used before, 0 where there is none.      *)
(* Time is left out: a token or a link that ran out is one not presented.  *)
(***************************************************************************)
EXTENDS Integers, Sequences, FiniteSets

CONSTANTS
  Emails, Words,      \* login names and passwords of at least eight characters
  Urls, NoUrl,        \* webhook URLs, and null
  Prices,             \* in cents
  Handlers,
  MaxRequests, MaxFaults

\* What a merchant sends to clear its URL.
Blank == ""

ASSUME AccountConstants ==
  /\ Prices \subseteq Int
  /\ MaxRequests \in Nat /\ MaxFaults \in Nat
  /\ NoUrl \notin Urls /\ Blank \notin Urls \cup {NoUrl}

VARIABLES
  merchants, plans,   \* the tables, rows in the order they were created
  links,              \* reset links mailed out
  handler,            \* requests between their read and their write
  held,               \* per merchant, what it was last answered (and two histories)
  resets,             \* history: the salts replaced through a link, one entry each time
  raced,              \* history: a request began before another was answered
  fresh, requests, faults

vars == <<merchants, plans, links, handler, held, resets, raced, fresh, requests, faults>>

-----------------------------------------------------------------------------
Config == [list : Int, target : Int, floor : Int]

Merchant ==
  [alive : BOOLEAN, email : Emails, word : Words, salt : Nat, key : Nat,
   url : Urls \cup {NoUrl}, secret : Nat, stripe : Nat, live : BOOLEAN]

Plan == [alive : BOOLEAN, merchant : Nat \ {0}, config : Config, version : Nat \ {0}]

\* A reset link names its merchant and the fingerprint of a password hash.
Link == [m : Nat \ {0}, print : Nat]

\* Of these the last two are histories: the URL was last written empty, and the
\* answer with its newest key was lost.
Held == [token : BOOLEAN, key : Nat, secret : Nat, stripe : Nat,
         cleared : BOOLEAN, lost : BOOLEAN]

Nothing == [token |-> FALSE, key |-> 0, secret |-> 0, stripe |-> 0,
            cleared |-> FALSE, lost |-> FALSE]

NoConfig == [list |-> 0, target |-> 0, floor |-> 0]

Idle == [pc |-> "idle", m |-> 0, email |-> "", word |-> "", salt |-> 0, key |-> 0, url |-> NoUrl,
         secret |-> 0, stripe |-> 0, plan |-> 0, field |-> "list", config |-> NoConfig, version |-> 0]

Reading(pc, m) == [Idle EXCEPT !.pc = pc, !.m = m]

Init ==
  /\ merchants = <<>> /\ plans = <<>> /\ held = <<>>
  /\ links = {}
  /\ handler = [h \in Handlers |-> Idle]
  /\ resets = <<>>
  /\ raced = FALSE
  /\ fresh = 1 /\ requests = 0 /\ faults = 0

-----------------------------------------------------------------------------
(* The store *)

Alive == {m \in DOMAIN merchants : merchants[m].alive}

\* Seeded fault: an email is as good as any other.
FreeAlways(e) == TRUE

\* The unique index of the table.
EmailFree(e) == \A m \in Alive : merchants[m].email # e

\* getMerchantByEmail
ByEmail(e) == {m \in Alive : merchants[m].email = e}

\* updateMerchant: a row that is gone is an error, and the request fails.
Update(m, row) == IF m \in Alive THEN [merchants EXCEPT ![m] = row] ELSE merchants

\* createPlan: the row references its merchant.
WithPlan(m, config) ==
  IF m \in Alive
    THEN Append(plans, [alive |-> TRUE, merchant |-> m, config |-> config, version |-> 1])
    ELSE plans

\* Seeded fault: the account goes, its plans stay.
PlansLeft(m) == plans

\* deleteMerchant, one transaction.
PlansWithout(m) ==
  [p \in DOMAIN plans |-> IF plans[p].merchant = m THEN [plans[p] EXCEPT !.alive = FALSE]
                          ELSE plans[p]]

-----------------------------------------------------------------------------
(* Credentials *)

\* verifyPassword
Fits(m, w) == merchants[m].word = w

\* hashPassword salts anew, for the same password too.
Hashed(row, w) == [row EXCEPT !.word = w, !.salt = fresh]

\* pwFingerprint: a salt is used once, so it names the hash.
Fingerprint(m) == merchants[m].salt

\* authenticateMerchantKey: the accounts a key opens.
Opens(key) == {m \in Alive : merchants[m].key = key}

-----------------------------------------------------------------------------
(* Plans *)

\* lintConfig; the anchor of these plans is their list price.
LintClean(c) == c.list > c.target /\ c.target > c.floor /\ c.floor > 0

\* assemblePlan: without a target, the midpoint rounded to a cent.
Assembled(list, floor, targets) ==
  [list   |-> list, floor |-> floor,
   target |-> IF targets = {} THEN (list + floor + 1) \div 2 ELSE CHOOSE t \in targets : TRUE]

PlanInputs ==
  {c \in {Assembled(list, floor, targets) :
            list \in Prices, floor \in Prices, targets \in {{}} \cup {{t} : t \in Prices}} :
     LintClean(c)}

\* Seeded fault: only the price that was edited is written, over what is stored.
EditedFieldOnly(stored, edited, field) == [stored EXCEPT ![field] = edited[field]]

\* updatePlan writes the config it linted, whole.
EditedConfig(stored, edited, field) == edited

NextVersion(v) == v + 1

-----------------------------------------------------------------------------
At(h, pc) == handler[h].pc = pc

Finish(h) == handler' = [handler EXCEPT ![h] = Idle]

\* What a request hands out once its row is written; the one to a row that is gone
\* has failed.
Hand(h, answer) ==
  handler' = [handler EXCEPT ![h] = IF answer.m \in Alive THEN answer ELSE Idle]

Busy == {h \in Handlers : ~At(h, "idle")}

Limits == <<raced, requests, faults>>

\* A request comes in; one whose checks failed is answered at once.
Begin(h, locals) ==
  /\ At(h, "idle")
  /\ requests < MaxRequests
  /\ requests' = requests + 1
  /\ handler' = [handler EXCEPT ![h] = locals]
  /\ raced' = (raced \/ Busy # {})
  /\ UNCHANGED <<merchants, plans, resets, faults>>

\* dashboardAuth: a token is checked by its signature alone, it outlives the account.
Authorised(m) == held[m].token

\* A request of the dashboard that reads its merchant first.
Dashboard(h, m, locals) ==
  /\ Authorised(m) /\ m \in Alive
  /\ Begin(h, locals)
  /\ UNCHANGED <<links, held>>

-----------------------------------------------------------------------------
(* Signup and login *)

\* signupMerchant: a taken email is a conflict, a plan is linted before anything
\* is created.
Signup(h, e, w, config) ==
  /\ ByEmail(e) = {}
  /\ Begin(h, [Idle EXCEPT !.pc = "creating", !.email = e, !.word = w, !.config = config])
  /\ UNCHANGED <<links, held, fresh>>

\* createMerchant, with a fresh salt and key; it fails on a taken email.
CreateMerchant(h) ==
  LET r == handler[h]
      m == Len(merchants) + 1
  IN
  /\ At(h, "creating")
  /\ IF EmailFree(r.email)
       THEN /\ merchants' = Append(merchants,
                 [alive |-> TRUE, email |-> r.email, word |-> r.word, salt |-> fresh,
                  key |-> fresh + 1, url |-> NoUrl, secret |-> 0, stripe |-> 0, live |-> FALSE])
            /\ held' = Append(held, Nothing)
            /\ fresh' = fresh + 2
            /\ handler' = [handler EXCEPT ![h].pc = "planning", ![h].m = m,
                                          ![h].key = fresh + 1]
       ELSE /\ Finish(h)
            /\ UNCHANGED <<merchants, held, fresh>>
  /\ UNCHANGED <<plans, links, resets, Limits>>

\* The first plan, if the signup brought one; key and token are answered next.
FirstPlan(h) ==
  LET r == handler[h] IN
  /\ At(h, "planning")
  /\ plans' = IF r.config = NoConfig THEN plans ELSE WithPlan(r.m, r.config)
  /\ handler' = [handler EXCEPT ![h] = [Reading("welcoming", r.m) EXCEPT !.key = r.key]]
  /\ UNCHANGED <<merchants, links, held, resets, fresh, Limits>>

\* POST /v1/auth/login
Login(h, e, w) ==
  \E m \in ByEmail(e) :
    /\ Fits(m, w)
    /\ Begin(h, Idle)
    /\ held' = [held EXCEPT ![m].token = TRUE]
    /\ UNCHANGED <<links, fresh>>

-----------------------------------------------------------------------------
(* Passwords *)

\* changePassword: the current password is asked for again.
ChangePassword(h, m, current, new) ==
  /\ Fits(m, current)
  /\ Dashboard(h, m, [Reading("changing", m) EXCEPT !.word = new])
  /\ UNCHANGED fresh

\* forgot-password: the link carries the fingerprint of the stored hash. A mail
\* that fails is logged.
Forgot(h, e) ==
  \E m \in ByEmail(e) :
    /\ Begin(h, Idle)
    /\ links' = links \cup {[m |-> m, print |-> Fingerprint(m)]}
    /\ UNCHANGED <<held, fresh>>

\* Seeded fault: a link is good for its hour, whatever it was used for.
LinkHoldsAnyway(l) == l.m \in Alive

\* resetPassword compares the fingerprint with the hash it reads.
LinkHolds(l) == l.m \in Alive /\ Fingerprint(l.m) = l.print

ResetPassword(h, l, new) ==
  /\ LinkHolds(l)
  /\ Begin(h, [Reading("resetting", l.m) EXCEPT !.salt = l.print, !.word = new])
  /\ UNCHANGED <<links, held, fresh>>

WritePassword(h) ==
  LET r == handler[h] IN
  /\ At(h, "changing") \/ At(h, "resetting")
  /\ merchants' = Update(r.m, Hashed(merchants[r.m], r.word))
  /\ resets' = IF At(h, "resetting") /\ r.m \in Alive THEN Append(resets, r.salt) ELSE resets
  /\ fresh' = fresh + 1
  /\ Finish(h)
  /\ UNCHANGED <<plans, links, held, Limits>>

-----------------------------------------------------------------------------
(* Keys, secrets and settlement *)

\* rotate-key does not read first.
RotateKey(h, m) ==
  /\ Authorised(m)
  /\ Begin(h, Reading("rotating", m))
  /\ UNCHANGED <<links, held, fresh>>

\* provisionMerchantKey: the old key dies with the write.
WriteKey(h) ==
  LET m == handler[h].m IN
  /\ At(h, "rotating")
  /\ merchants' = Update(m, [merchants[m] EXCEPT !.key = fresh])
  /\ Hand(h, [Reading("answering", m) EXCEPT !.key = fresh])
  /\ fresh' = fresh + 1
  /\ UNCHANGED <<plans, links, held, resets, Limits>>

\* Seeded fault: only a missing URL is none.
Untrimmed(url) == url

\* An empty URL is none.
Trimmed(url) == IF url = Blank THEN NoUrl ELSE url

\* The outbound signing secret, made up if the row that was read has none.
Secret(m) == IF merchants[m].secret # 0 THEN merchants[m].secret ELSE fresh

\* setWebhookUrl reads the row ...
SetWebhookUrl(h, m, url) ==
  /\ Dashboard(h, m, [Reading("hooking", m) EXCEPT !.url = Trimmed(url), !.secret = Secret(m)])
  /\ fresh' = fresh + 1

\* ... and writes URL and secret, which it hands out next.
WriteWebhook(h) ==
  LET r == handler[h] IN
  /\ At(h, "hooking")
  /\ merchants' = Update(r.m, [merchants[r.m] EXCEPT !.url = r.url, !.secret = r.secret])
  /\ held' = IF r.m \in Alive THEN [held EXCEPT ![r.m].cleared = (r.url = NoUrl)] ELSE held
  /\ Hand(h, [Reading("answering", r.m) EXCEPT !.secret = r.secret])
  /\ UNCHANGED <<plans, links, resets, fresh, Limits>>

\* startConnectOnboarding reads the row before it calls Stripe ...
StartConnectOnboarding(h, m) ==
  /\ Dashboard(h, m, [Reading("onboarding", m) EXCEPT !.stripe = merchants[m].stripe,
                                                      !.secret = merchants[m].secret])
  /\ UNCHANGED fresh

\* Seeded fault: Stripe is not told of the account there is.
AccountAnew(stripe) == fresh

\* The account Stripe answers with: the existing one, or a new one.
Account(stripe) == IF stripe # 0 THEN stripe ELSE fresh

\* ... and writes what is new. A Stripe that fails is no write.
WriteAccount(h) ==
  LET r == handler[h] IN
  /\ At(h, "onboarding")
  /\ merchants' = Update(r.m, [merchants[r.m] EXCEPT
       !.stripe = IF Account(r.stripe) # r.stripe THEN Account(r.stripe) ELSE @,
       !.secret = IF r.secret = 0 THEN fresh + 1 ELSE @])
  /\ Hand(h, [Reading("answering", r.m) EXCEPT !.stripe = Account(r.stripe)])
  /\ fresh' = fresh + 2
  /\ UNCHANGED <<plans, links, held, resets, Limits>>

\* The answer of one of these, or of a signup, which signs the merchant in.
Answer(h) ==
  LET r == handler[h] IN
  /\ At(h, "answering") \/ At(h, "welcoming")
  /\ held' = [held EXCEPT
       ![r.m].token  = @ \/ At(h, "welcoming"),
       ![r.m].key    = IF r.key # 0 THEN r.key ELSE @,
       ![r.m].secret = IF r.secret # 0 THEN r.secret ELSE @,
       ![r.m].stripe = IF r.stripe # 0 THEN r.stripe ELSE @,
       ![r.m].lost   = @ /\ r.key = 0]
  /\ Finish(h)
  /\ UNCHANGED <<merchants, plans, links, resets, fresh, Limits>>

\* Seeded fault: live without asking.
MayGoLiveAlways(m) == TRUE

MayGoLive(m) == merchants[m].url # NoUrl

GoLive(h, m) ==
  /\ Dashboard(h, m, Reading("going live", m))
  /\ MayGoLive(m)
  /\ UNCHANGED fresh

WriteLive(h) ==
  /\ At(h, "going live")
  /\ merchants' = Update(handler[h].m, [merchants[handler[h].m] EXCEPT !.live = TRUE])
  /\ Finish(h)
  /\ UNCHANGED <<plans, links, held, resets, fresh, Limits>>

-----------------------------------------------------------------------------
(* Plans and the end of an account *)

\* POST /v1/plans lints before it touches the store.
CreatePlan(h, m, config) ==
  /\ Authorised(m)
  /\ Begin(h, [Reading("adding", m) EXCEPT !.config = config])
  /\ UNCHANGED <<links, held, fresh>>

InsertPlan(h) ==
  /\ At(h, "adding")
  /\ plans' = WithPlan(handler[h].m, handler[h].config)
  /\ Finish(h)
  /\ UNCHANGED <<merchants, links, held, resets, fresh, Limits>>

\* updatePlan: one price of the plan its owner read is edited, and linted with the
\* others as they were read.
UpdatePlan(h, p, field, price) ==
  LET edited == [plans[p].config EXCEPT ![field] = price] IN
  /\ plans[p].alive /\ Authorised(plans[p].merchant)
  /\ LintClean(edited)
  /\ Begin(h, [Reading("editing", plans[p].merchant) EXCEPT
                 !.plan = p, !.field = field, !.config = edited,
                 !.version = NextVersion(plans[p].version)])
  /\ UNCHANGED <<links, held, fresh>>

WritePlan(h) ==
  LET r == handler[h] IN
  /\ At(h, "editing")
  /\ plans' = IF plans[r.plan].alive
                THEN [plans EXCEPT ![r.plan].config = EditedConfig(@, r.config, r.field),
                                   ![r.plan].version = r.version]
                ELSE plans
  /\ Finish(h)
  /\ UNCHANGED <<merchants, links, held, resets, fresh, Limits>>

DeleteAccount(h, m) ==
  /\ Authorised(m)
  /\ Begin(h, Reading("deleting", m))
  /\ UNCHANGED <<links, held, fresh>>

DeleteMerchant(h) ==
  LET m == handler[h].m IN
  /\ At(h, "deleting")
  /\ merchants' = [merchants EXCEPT ![m].alive = FALSE]
  /\ plans' = PlansWithout(m)
  /\ Finish(h)
  /\ UNCHANGED <<links, held, resets, fresh, Limits>>

-----------------------------------------------------------------------------
\* The instance stops, a call the request waits for fails, or the answer is lost.
HandlerDies(h) ==
  /\ h \in Busy
  /\ faults < MaxFaults
  /\ faults' = faults + 1
  /\ held' = IF handler[h].key # 0 THEN [held EXCEPT ![handler[h].m].lost = TRUE] ELSE held
  /\ Finish(h)
  /\ UNCHANGED <<merchants, plans, links, resets, raced, fresh, requests>>

HandlerStep(h) ==
  \/ CreateMerchant(h) \/ FirstPlan(h) \/ WritePassword(h) \/ WriteKey(h)
  \/ WriteWebhook(h) \/ WriteAccount(h) \/ Answer(h) \/ WriteLive(h)
  \/ InsertPlan(h) \/ WritePlan(h) \/ DeleteMerchant(h) \/ HandlerDies(h)

Request(h) ==
  \/ \E e \in Emails, w \in Words :
       \/ \E config \in PlanInputs \cup {NoConfig} : Signup(h, e, w, config)
       \/ Login(h, e, w)
  \/ \E e \in Emails : Forgot(h, e)
  \/ \E l \in links, new \in Words : ResetPassword(h, l, new)
  \/ \E m \in DOMAIN merchants :
       \/ \E current, new \in Words : ChangePassword(h, m, current, new)
       \/ \E url \in Urls \cup {Blank} : SetWebhookUrl(h, m, url)
       \/ \E config \in PlanInputs : CreatePlan(h, m, config)
       \/ RotateKey(h, m) \/ StartConnectOnboarding(h, m) \/ GoLive(h, m) \/ DeleteAccount(h, m)
  \/ \E p \in DOMAIN plans, field \in DOMAIN NoConfig, price \in Prices :
       UpdatePlan(h, p, field, price)

Next == \E h \in Handlers : Request(h) \/ HandlerStep(h)

Spec == Init /\ [][Next]_vars

-----------------------------------------------------------------------------
(* Properties *)

TypeOK ==
  /\ merchants \in Seq(Merchant)
  /\ plans \in Seq(Plan)
  /\ held \in Seq(Held) /\ DOMAIN held = DOMAIN merchants
  /\ links \subseteq Link /\ \A l \in links : l.m \in DOMAIN merchants
  /\ \A h \in Handlers :
       /\ handler[h].pc \in {"idle", "creating", "planning", "welcoming", "changing", "resetting",
                             "rotating", "hooking", "onboarding", "answering", "going live",
                             "adding", "editing", "deleting"}
       /\ handler[h].m \in {0} \cup DOMAIN merchants
       /\ handler[h].plan \in {0} \cup DOMAIN plans
  /\ resets \in Seq(Nat)
  /\ raced \in BOOLEAN
  /\ fresh \in Nat /\ requests \in 0..MaxRequests /\ faults \in 0..MaxFaults

\* "Email is the unique login identifier" (signupMerchant): two signups that both
\* found the email free do not both get it.
EmailUnique == \A m, n \in Alive : merchants[m].email = merchants[n].email => m = n

\* "single-use: a prior reset or change invalidates the link" (resetPassword): of
\* all links mailed for one password, one resets, once, as long as requests are
\* answered one at a time.
ResetOnce == ~raced => \A i, j \in DOMAIN resets : resets[i] = resets[j] => i = j

\* A key that is not its merchant's yet is with the request that made it up.
OnItsWay(m) == \E h \in Handlers : handler[h].m = m /\ handler[h].key # 0

KeyWorks(m) == held[m].key # 0 => Opens(held[m].key) = {m}

\* What a merchant was answered holds: its secret and its Stripe account are those
\* its row still has, though onboarding and webhook set-up are repeated after a death
\* past their write, and its key opens its account alone, unless a new one is on its
\* way to it or was lost on it (provisionMerchantKey writes, the route answers).
\* Requests come one at a time.
HandedHolds ==
  [][~raced' => \A m \in DOMAIN held : m \in Alive' =>
       /\ held'[m].lost \/ OnItsWay(m)' \/ KeyWorks(m)'
       /\ held[m].secret \in {0, merchants'[m].secret}
       /\ held[m].stripe \in {0, merchants'[m].stripe}]_vars

\* goLive: "Bouncr must be able to notify you". Whoever is live without a webhook
\* URL has cleared it itself, whatever races.
LiveIsNotified ==
  \A m \in Alive : merchants[m].live /\ merchants[m].url = NoUrl => held[m].cleared

\* lint.ts:28 "The price ladder is an invariant": two edits at a time, each clean
\* with the prices it read, never mix into a plan that is not.
PlanLadder == \A p \in DOMAIN plans : plans[p].alive => LintClean(plans[p].config)

\* deleteAccount takes "everything under it": no plan outlives its merchant, nor is
\* one added by a request, or a token, that is still around.
NothingLeft == \A p \in DOMAIN plans : plans[p].alive => plans[p].merchant \in Alive

\* setWebhookUrl "Returns the secret so the merchant can configure verification on
\* their side"; refuted by a run: an onboarding that read the row before writes
\* another one over it.
SecretHolds == \A m \in Alive : held[m].secret \in {0, merchants[m].secret}

\* POST /v1/auth/rotate-key "mints a new one (returned ONCE) and invalidates the old
\* immediately"; refuted: a death between the write and the answer leaves the
\* merchant with the old one.
KeyHeldWorks == \A m \in Alive : OnItsWay(m) \/ KeyWorks(m)
=============================================================================
