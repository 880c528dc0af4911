--------------------------- MODULE AccountsProofs ---------------------------
(***************************************************************************)
(* Theorems of Accounts for any sets of emails, passwords, URLs, prices    *)
(* and handlers, and any number of requests and deaths. Every request but  *)
(* the first read leaves the tables alone, and every write but two leaves  *)
(* who is alive and under which email: the proof has one lemma for each    *)
(* kind of step.                                                           *)
(***************************************************************************)
EXTENDS Accounts, SequenceTheorems, TLAPS

Pcs == {"idle", "creating", "planning", "welcoming", "changing", "resetting", "rotating",
        "hooking", "onboarding", "answering", "going live", "adding", "editing", "deleting"}

\* Requests that have written, and answer next.
Handing == {"welcoming", "answering"}

Local ==
  [pc : Pcs, m : Nat, email : Emails \cup {""}, word : Words \cup {""}, salt : Nat,
   key : Nat, url : Urls \cup {NoUrl}, secret : Nat, stripe : Nat, plan : Nat,
   field : {"list", "target", "floor"}, config : Config, version : Nat]

\* What a request that has read carries to its write.
Carries(r) ==
  /\ r.m \in {0} \cup DOMAIN merchants
  /\ r.plan \in {0} \cup DOMAIN plans
  /\ r.pc = "creating" => r.email \in Emails /\ r.word \in Words
  /\ r.pc \in {"creating", "planning"} => r.config = NoConfig \/ LintClean(r.config)
  /\ r.pc \in {"changing", "resetting"} => r.word \in Words
  /\ r.pc \in {"adding", "editing"} => LintClean(r.config)
  /\ r.pc \in {"planning", "adding", "deleting"} \cup Handing => r.m # 0
  /\ r.key # 0 => r.pc \in {"planning"} \cup Handing
  /\ r.pc = "editing" => r.plan # 0 /\ r.version # 0

Locals ==
  /\ handler \in [Handlers -> Local]
  /\ \A h \in Handlers : Carries(handler[h])

Tables ==
  /\ merchants \in Seq(Merchant)
  /\ plans \in Seq(Plan)

Facts == EmailUnique /\ PlanLadder /\ NothingLeft

Answers ==
  /\ held \in Seq(Held) /\ DOMAIN held = DOMAIN merchants
  /\ links \subseteq Link
  /\ \A l \in links : l.m \in DOMAIN merchants
  /\ resets \in Seq(Nat)

Counters ==
  /\ raced \in BOOLEAN
  /\ fresh \in Nat
  /\ requests \in 0..MaxRequests
  /\ faults \in 0..MaxFaults

IInv == Tables /\ Facts /\ Answers /\ Locals /\ Counters

-----------------------------------------------------------------------------
(* Locals *)

\* No request carries nothing.
LEMMA IdleTyped == Idle \in Local /\ Carries(Idle)
<1>1. NoConfig \in Config
  BY DEF NoConfig, Config
<1>. QED
  BY <1>1 DEF Idle, Local, Pcs, Carries, Handing

\* A reading request carries its merchant, and nothing else yet.
LEMMA ReadingTyped ==
  \A pc \in Pcs, m \in Nat :
    /\ Reading(pc, m) \in Local
    /\ Reading(pc, m).pc = pc /\ Reading(pc, m).m = m
    /\ Reading(pc, m).plan = 0 /\ Reading(pc, m).config = NoConfig
    /\ Reading(pc, m).key = 0 /\ Reading(pc, m).secret = 0 /\ Reading(pc, m).stripe = 0
<1>1. NoConfig \in Config
  BY DEF NoConfig, Config
<1>. QED
  BY <1>1 DEF Reading, Idle, Local

\* A handler that changes its locals keeps them all, when the tables only grow.
LEMMA LocalsFrame ==
  ASSUME Locals, DOMAIN merchants \subseteq DOMAIN merchants',
         DOMAIN plans \subseteq DOMAIN plans',
         NEW h \in Handlers, NEW r \in Local, Carries(r)',
         handler' = [handler EXCEPT ![h] = r]
  PROVE  Locals'
<1>1. handler' \in [Handlers -> Local]
  BY DEF Locals
<1>2. ASSUME NEW g \in Handlers PROVE Carries(handler[g])'
  <2>1. CASE g = h
    BY <2>1 DEF Locals
  <2>2. CASE g # h
    <3>1. handler'[g] = handler[g] /\ Carries(handler[g])
      BY <2>2 DEF Locals
    <3>. QED
      BY <3>1 DEF Carries, LintClean, NoConfig
  <2>. QED
    BY <2>1, <2>2
<1>. QED
  BY <1>1, <1>2 DEF Locals

\* One that is answered, or dies, keeps them too.
LEMMA FinishFrame ==
  ASSUME Locals, DOMAIN merchants \subseteq DOMAIN merchants',
         DOMAIN plans \subseteq DOMAIN plans',
         NEW h \in Handlers, Finish(h)
  PROVE  Locals'
<1>1. Idle \in Local /\ Carries(Idle)'
  <2>1. Idle \in Local
    BY IdleTyped
  <2>2. Carries(Idle)'
    BY DEF Carries, Idle, Handing
  <2>. QED
    BY <2>1, <2>2
<1>. QED
  BY <1>1, LocalsFrame DEF Finish

-----------------------------------------------------------------------------
(* Tables *)

\* A written row of the same account: nobody appears, goes, or changes its email.
LEMMA UpdateKeeps ==
  ASSUME Tables, Facts, NEW m, NEW row,
         m \in Alive => /\ row \in Merchant
                        /\ row.alive = merchants[m].alive
                        /\ row.email = merchants[m].email,
         merchants' = Update(m, row), UNCHANGED plans
  PROVE  Tables' /\ Facts' /\ DOMAIN merchants' = DOMAIN merchants
<1>1. CASE m \notin Alive
  <2>1. merchants' = merchants
    BY <1>1 DEF Update
  <2>. QED
    BY <2>1 DEF Tables, Facts, EmailUnique, PlanLadder, NothingLeft, Alive
<1>2. CASE m \in Alive
  <2>1. merchants' = [merchants EXCEPT ![m] = row] /\ m \in DOMAIN merchants
    BY <1>2 DEF Update, Alive
  <2>2. DOMAIN merchants = 1..Len(merchants)
    BY LenProperties DEF Tables
  <2>3. merchants' \in Seq(Merchant)
    BY <1>2, <2>1, <2>2, ExceptSeq DEF Tables
  <2>4. DOMAIN merchants' = DOMAIN merchants
    BY <2>1
  <2>5. \A n \in DOMAIN merchants : /\ merchants'[n].alive = merchants[n].alive
                                    /\ merchants'[n].email = merchants[n].email
    BY <1>2, <2>1
  <2>6. Alive' = Alive
    BY <2>4, <2>5 DEF Alive
  <2>7. Alive \subseteq DOMAIN merchants
    BY DEF Alive
  <2>8. EmailUnique'
    BY <2>5, <2>6, <2>7 DEF Facts, EmailUnique
  <2>9. PlanLadder' /\ NothingLeft'
    BY <2>6 DEF Facts, PlanLadder, NothingLeft
  <2>. QED
    BY <2>3, <2>4, <2>8, <2>9 DEF Tables, Facts
<1>. QED
  BY <1>1, <1>2

\* A plan is added under an account that is there.
LEMMA WithPlanKeeps ==
  ASSUME Tables, Facts, NEW m \in Nat \ {0}, NEW config \in Config, LintClean(config),
         plans' = WithPlan(m, config), UNCHANGED merchants
  PROVE  Tables' /\ Facts' /\ DOMAIN plans \subseteq DOMAIN plans'
<1>1. CASE m \notin Alive
  <2>1. plans' = plans
    BY <1>1 DEF WithPlan
  <2>. QED
    BY <2>1 DEF Tables, Facts, EmailUnique, PlanLadder, NothingLeft, Alive
<1>2. CASE m \in Alive
  <2>. DEFINE new == [alive |-> TRUE, merchant |-> m, config |-> config, version |-> 1]
  <2>1. new \in Plan
    BY DEF Plan
  <2>2. plans' = Append(plans, new) /\ Alive' = Alive
    BY <1>2 DEF WithPlan, Alive
  <2>3. /\ plans' \in Seq(Plan)
        /\ DOMAIN plans = 1..Len(plans) /\ DOMAIN plans' = 1..Len(plans) + 1
        /\ Len(plans) \in Nat
        /\ \A p \in 1..Len(plans) : plans'[p] = plans[p]
        /\ plans'[Len(plans) + 1] = new
    BY <2>1, <2>2, AppendProperties, LenProperties DEF Tables
  <2>4. \A p \in DOMAIN plans' : (p \in DOMAIN plans /\ plans'[p] = plans[p]) \/ plans'[p] = new
    BY <2>3
  <2>5. PlanLadder'
    BY <2>4 DEF Facts, PlanLadder
  <2>6. NothingLeft'
    BY <1>2, <2>2, <2>4 DEF Facts, NothingLeft
  <2>7. EmailUnique'
    BY <2>2 DEF Facts, EmailUnique
  <2>. QED
    BY <2>3, <2>5, <2>6, <2>7 DEF Tables, Facts
<1>. QED
  BY <1>1, <1>2

\* A clean config is written over a plan, under the account it has.
LEMMA WritePlanKeeps ==
  ASSUME Tables, Facts, NEW p \in DOMAIN plans, NEW config \in Config, LintClean(config),
         NEW version \in Nat \ {0},
         plans' = IF plans[p].alive
                    THEN [plans EXCEPT ![p].config = config, ![p].version = version]
                    ELSE plans,
         UNCHANGED merchants
  PROVE  Tables' /\ Facts' /\ DOMAIN plans' = DOMAIN plans
<1>1. CASE ~plans[p].alive
  BY <1>1 DEF Tables, Facts, EmailUnique, PlanLadder, NothingLeft, Alive
<1>2. CASE plans[p].alive
  <2>. DEFINE row == [plans[p] EXCEPT !.config = config, !.version = version]
  <2>1. DOMAIN plans = 1..Len(plans) /\ plans[p] \in Plan
    BY LenProperties, ElementOfSeq DEF Tables
  <2>2. /\ row \in Plan /\ row.config = config
        /\ row.alive = plans[p].alive /\ row.merchant = plans[p].merchant
    BY <2>1 DEF Plan
  <2>3. plans' = [plans EXCEPT ![p] = row]
    BY <1>2
  <2>. HIDE DEF row
  <2>4. /\ plans' \in Seq(Plan) /\ DOMAIN plans' = DOMAIN plans
        /\ \A q \in DOMAIN plans : plans'[q] = IF q = p THEN row ELSE plans[q]
    <3>1. plans \in Seq(Plan)
      BY DEF Tables
    <3>2. [plans EXCEPT ![p] = row] \in Seq(Plan)
      BY <2>1, <2>2, <3>1, ExceptSeq
    <3>. QED
      BY <2>3, <3>2
  <2>5. Alive' = Alive
    BY DEF Alive
  <2>6. PlanLadder' /\ NothingLeft'
    BY <2>2, <2>4, <2>5 DEF Facts, PlanLadder, NothingLeft
  <2>7. EmailUnique'
    BY <2>5 DEF Facts, EmailUnique
  <2>. QED
    BY <2>4, <2>6, <2>7 DEF Tables, Facts
<1>. QED
  BY <1>1, <1>2

\* An account goes with its plans (deleteMerchant).
LEMMA DeleteKeeps ==
  ASSUME Tables, Facts, NEW m \in DOMAIN merchants,
         merchants' = [merchants EXCEPT ![m].alive = FALSE], plans' = PlansWithout(m)
  PROVE  /\ Tables' /\ Facts'
         /\ DOMAIN merchants' = DOMAIN merchants /\ DOMAIN plans' = DOMAIN plans
<1>. DEFINE row == [merchants[m] EXCEPT !.alive = FALSE]
<1>1. DOMAIN merchants = 1..Len(merchants) /\ merchants[m] \in Merchant
  BY LenProperties, ElementOfSeq DEF Tables
<1>2. row \in Merchant /\ row.alive = FALSE
  BY <1>1 DEF Merchant
<1>3. merchants' = [merchants EXCEPT ![m] = row]
  OBVIOUS
<1>. HIDE DEF row
<1>4. /\ merchants' \in Seq(Merchant) /\ DOMAIN merchants' = DOMAIN merchants
      /\ \A n \in DOMAIN merchants : merchants'[n] = IF n = m THEN row ELSE merchants[n]
  <2>1. merchants \in Seq(Merchant)
    BY DEF Tables
  <2>2. [merchants EXCEPT ![m] = row] \in Seq(Merchant)
    BY <1>1, <1>2, <2>1, ExceptSeq
  <2>. QED
    BY <1>3, <2>2
<1>5. Alive' = Alive \ {m}
  BY <1>2, <1>4 DEF Alive
<1>6. DOMAIN plans = 1..Len(plans) /\ Len(plans) \in Nat /\ plans \in [1..Len(plans) -> Plan]
  BY LenProperties DEF Tables
<1>7. \A p \in DOMAIN plans :
        /\ plans'[p] \in Plan
        /\ plans'[p].alive => plans'[p] = plans[p] /\ plans[p].merchant # m
  BY <1>6 DEF PlansWithout, Plan
<1>8. DOMAIN plans' = DOMAIN plans /\ plans' \in [1..Len(plans) -> Plan]
  BY <1>6, <1>7 DEF PlansWithout
<1>9. plans' \in Seq(Plan)
  BY <1>6, <1>8, SeqDef
<1>10. PlanLadder'
  BY <1>7, <1>8 DEF Facts, PlanLadder
<1>11. NothingLeft'
  BY <1>5, <1>7, <1>8 DEF Facts, NothingLeft
<1>12. EmailUnique'
  BY <1>4, <1>5 DEF Facts, EmailUnique, Alive
<1>. QED
  BY <1>4, <1>8, <1>9, <1>10, <1>11, <1>12 DEF Tables, Facts

\* A new account has an email of its own (the unique index).
LEMMA CreateKeeps ==
  ASSUME Tables, Facts, NEW row \in Merchant, row.alive, EmailFree(row.email),
         merchants' = Append(merchants, row), UNCHANGED plans
  PROVE  /\ Tables' /\ Facts'
         /\ DOMAIN merchants' = DOMAIN merchants \cup {Len(merchants) + 1}
<1>1. /\ merchants' \in Seq(Merchant) /\ Len(merchants) \in Nat
      /\ DOMAIN merchants = 1..Len(merchants)
      /\ DOMAIN merchants' = 1..Len(merchants) + 1
      /\ \A n \in 1..Len(merchants) : merchants'[n] = merchants[n]
      /\ merchants'[Len(merchants) + 1] = row
  BY AppendProperties, LenProperties DEF Tables
<1>2. Alive' = Alive \cup {Len(merchants) + 1}
  BY <1>1 DEF Alive
<1>3. EmailUnique'
  BY <1>1, <1>2 DEF Facts, EmailUnique, EmailFree, Alive
<1>4. PlanLadder' /\ NothingLeft'
  BY <1>2 DEF Facts, PlanLadder, NothingLeft
<1>. QED
  BY <1>1, <1>3, <1>4 DEF Tables, Facts

\* Every plan a merchant may send is linted.
LEMMA PlanInputsClean ==
  \A config \in PlanInputs : config \in Config /\ LintClean(config)
<1>1. ASSUME NEW list \in Prices, NEW floor \in Prices,
             NEW targets \in {{}} \cup {{t} : t \in Prices}
      PROVE  Assembled(list, floor, targets) \in Config
  <2>1. list \in Int /\ floor \in Int
    BY AccountConstants
  <2>2. (IF targets = {} THEN (list + floor + 1) \div 2 ELSE CHOOSE t \in targets : TRUE) \in Int
    <3>1. CASE targets = {}
      BY <2>1, <3>1
    <3>2. CASE targets # {}
      <4>1. PICK t \in Prices : targets = {t}
        BY <3>2
      <4>. QED
        BY <4>1, AccountConstants
    <3>. QED
      BY <3>1, <3>2
  <2>. QED
    BY <2>1, <2>2 DEF Assembled, Config
<1>. QED
  BY <1>1 DEF PlanInputs

-----------------------------------------------------------------------------
(* Requests *)

\* A request that begins keeps the invariant, if what it carries is in order.
LEMMA BeginKeeps ==
  ASSUME IInv, NEW h \in Handlers, NEW r \in Local, Carries(r), Begin(h, r),
         links' \subseteq Link, \A l \in links' : l.m \in DOMAIN merchants,
         held' \in Seq(Held), DOMAIN held' = DOMAIN held, fresh' \in Nat
  PROVE  IInv'
<1>1. UNCHANGED <<merchants, plans, resets, faults>>
  BY DEF Begin
<1>2. Tables' /\ Facts'
  BY <1>1 DEF IInv, Tables, Facts, EmailUnique, PlanLadder, NothingLeft, Alive
<1>3. Answers'
  BY <1>1 DEF IInv, Answers
<1>4. Locals'
  <2>1. Carries(r)'
    BY <1>1 DEF Carries, LintClean, NoConfig
  <2>. QED
    BY <1>1, <2>1, LocalsFrame DEF IInv, Begin
<1>5. Counters'
  <2>1. requests \in Nat /\ requests' = requests + 1 /\ requests < MaxRequests
    BY DEF Begin, IInv, Counters
  <2>2. requests' \in 0..MaxRequests
    BY <2>1, AccountConstants
  <2>3. raced' \in BOOLEAN
    BY DEF Begin
  <2>. QED
    BY <1>1, <2>2, <2>3 DEF IInv, Counters
<1>. QED
  BY <1>2, <1>3, <1>4, <1>5 DEF IInv

\* Most requests read and nothing else.
LEMMA ReadKeeps ==
  ASSUME IInv, NEW h \in Handlers, NEW r \in Local, Carries(r), Begin(h, r),
         UNCHANGED <<links, held>>, fresh' \in Nat
  PROVE  IInv'
BY BeginKeeps DEF IInv, Answers

\* The requests of the dashboard, each with what it carries.
LEMMA DashboardKeeps ==
  ASSUME IInv, NEW h \in Handlers, NEW m \in DOMAIN merchants,
         \/ \E current, new \in Words : ChangePassword(h, m, current, new)
         \/ \E url \in Urls \cup {Blank} : SetWebhookUrl(h, m, url)
         \/ \E config \in PlanInputs : CreatePlan(h, m, config)
         \/ RotateKey(h, m) \/ StartConnectOnboarding(h, m) \/ GoLive(h, m)
         \/ DeleteAccount(h, m)
  PROVE  IInv'
<1>1. m \in Nat \ {0} /\ merchants[m] \in Merchant /\ fresh \in Nat
  <2>1. merchants \in Seq(Merchant) /\ fresh \in Nat
    BY DEF IInv, Tables, Counters
  <2>. QED
    BY <2>1, LenProperties, ElementOfSeq
<1>2. ASSUME NEW current \in Words, NEW new \in Words, ChangePassword(h, m, current, new)
      PROVE  IInv'
  <2>. DEFINE r == [Reading("changing", m) EXCEPT !.word = new]
  <2>1. Begin(h, r) /\ UNCHANGED <<links, held>> /\ fresh' \in Nat
    BY <1>1, <1>2 DEF ChangePassword, Dashboard
  <2>2. PICK rd \in Local : /\ rd = Reading("changing", m) /\ rd.pc = "changing"
                            /\ rd.m = m /\ rd.plan = 0 /\ rd.key = 0
    <3>1. "changing" \in Pcs /\ m \in Nat
      BY <1>1 DEF Pcs
    <3>. QED
      BY <3>1, ReadingTyped
  <2>3. r = [rd EXCEPT !.word = new]
    BY <2>2
  <2>. HIDE DEF r
  <2>4. r \in Local /\ Carries(r)
    BY <1>1, <2>2, <2>3 DEF Local, Carries, Handing
  <2>. QED
    BY <2>1, <2>4, ReadKeeps
<1>3. ASSUME NEW url \in Urls \cup {Blank}, SetWebhookUrl(h, m, url)
      PROVE  IInv'
  <2>. DEFINE r == [Reading("hooking", m) EXCEPT !.url = Trimmed(url), !.secret = Secret(m)]
  <2>1. Trimmed(url) \in Urls \cup {NoUrl} /\ Secret(m) \in Nat
    BY <1>1 DEF Trimmed, Secret, Merchant
  <2>2. Begin(h, r) /\ UNCHANGED <<links, held>> /\ fresh' \in Nat
    <3>1. fresh' = fresh + 1
      BY <1>3 DEF SetWebhookUrl
    <3>2. Begin(h, r) /\ UNCHANGED <<links, held>>
      BY <1>3 DEF SetWebhookUrl, Dashboard
    <3>. QED
      BY <1>1, <3>1, <3>2
  <2>3. PICK rd \in Local : /\ rd = Reading("hooking", m) /\ rd.pc = "hooking"
                            /\ rd.m = m /\ rd.plan = 0 /\ rd.key = 0
    <3>1. "hooking" \in Pcs /\ m \in Nat
      BY <1>1 DEF Pcs
    <3>. QED
      BY <3>1, ReadingTyped
  <2>4. r = [rd EXCEPT !.url = Trimmed(url), !.secret = Secret(m)]
    BY <2>3
  <2>. HIDE DEF r
  <2>5. r \in Local /\ Carries(r)
    BY <1>1, <2>1, <2>3, <2>4 DEF Local, Carries, Handing
  <2>. QED
    BY <2>2, <2>5, ReadKeeps
<1>4. ASSUME NEW config \in PlanInputs, CreatePlan(h, m, config)
      PROVE  IInv'
  <2>. DEFINE r == [Reading("adding", m) EXCEPT !.config = config]
  <2>1. config \in Config /\ LintClean(config)
    BY PlanInputsClean
  <2>2. Begin(h, r) /\ UNCHANGED <<links, held>> /\ fresh' \in Nat
    BY <1>1, <1>4 DEF CreatePlan
  <2>3. PICK rd \in Local : /\ rd = Reading("adding", m) /\ rd.pc = "adding"
                            /\ rd.m = m /\ rd.plan = 0 /\ rd.key = 0
    <3>1. "adding" \in Pcs /\ m \in Nat
      BY <1>1 DEF Pcs
    <3>. QED
      BY <3>1, ReadingTyped
  <2>4. r = [rd EXCEPT !.config = config]
    BY <2>3
  <2>. HIDE DEF r
  <2>5. r \in Local /\ Carries(r)
    BY <1>1, <2>1, <2>3, <2>4 DEF Local, Carries, Handing
  <2>. QED
    BY <2>2, <2>5, ReadKeeps
<1>5. CASE StartConnectOnboarding(h, m)
  <2>. DEFINE r == [Reading("onboarding", m) EXCEPT !.stripe = merchants[m].stripe,
                                                    !.secret = merchants[m].secret]
  <2>1. Begin(h, r) /\ UNCHANGED <<links, held>> /\ fresh' \in Nat
    BY <1>1, <1>5 DEF StartConnectOnboarding, Dashboard
  <2>2. PICK rd \in Local : /\ rd = Reading("onboarding", m) /\ rd.pc = "onboarding"
                            /\ rd.m = m /\ rd.plan = 0 /\ rd.key = 0
    <3>1. "onboarding" \in Pcs /\ m \in Nat
      BY <1>1 DEF Pcs
    <3>. QED
      BY <3>1, ReadingTyped
  <2>3. r = [rd EXCEPT !.stripe = merchants[m].stripe, !.secret = merchants[m].secret]
    BY <2>2
  <2>4. merchants[m].stripe \in Nat /\ merchants[m].secret \in Nat
    BY <1>1 DEF Merchant
  <2>. HIDE DEF r
  <2>5. r \in Local /\ Carries(r)
    BY <1>1, <2>2, <2>3, <2>4 DEF Local, Carries, Handing
  <2>. QED
    BY <2>1, <2>5, ReadKeeps
<1>6. ASSUME NEW pc \in {"rotating", "going live", "deleting"},
             Begin(h, Reading(pc, m)), UNCHANGED <<links, held>>, fresh' \in Nat
      PROVE  IInv'
  <2>1. PICK rd \in Local : /\ rd = Reading(pc, m) /\ rd.pc = pc
                            /\ rd.m = m /\ rd.plan = 0 /\ rd.key = 0
    <3>1. pc \in Pcs /\ m \in Nat
      BY <1>1 DEF Pcs
    <3>. QED
      BY <3>1, ReadingTyped
  <2>2. Carries(rd)
    BY <1>1, <2>1 DEF Carries, Handing
  <2>. QED
    BY <1>6, <2>1, <2>2, ReadKeeps
<1>. QED
  BY <1>1, <1>2, <1>3, <1>4, <1>5, <1>6
  DEF RotateKey, GoLive, DeleteAccount, Dashboard

\* The requests that need no session, and the edit of a plan.
LEMMA RequestKeeps ==
  ASSUME IInv, NEW h \in Handlers, Request(h)
  PROVE  IInv'
<1>1. /\ merchants \in Seq(Merchant) /\ plans \in Seq(Plan) /\ held \in Seq(Held)
      /\ fresh \in Nat /\ DOMAIN held = DOMAIN merchants
      /\ links \subseteq Link /\ \A l \in links : l.m \in DOMAIN merchants
  BY DEF IInv, Tables, Answers, Counters
<1>2. ASSUME NEW e \in Emails, NEW w \in Words, NEW config \in PlanInputs \cup {NoConfig},
             Signup(h, e, w, config)
      PROVE  IInv'
  <2>. DEFINE r == [Idle EXCEPT !.pc = "creating", !.email = e, !.word = w, !.config = config]
  <2>1. config \in Config /\ (config = NoConfig \/ LintClean(config))
    BY PlanInputsClean DEF NoConfig, Config
  <2>2. r \in Local /\ Carries(r)
    BY <2>1 DEF Idle, Local, Pcs, Carries, Handing
  <2>3. Begin(h, r) /\ UNCHANGED <<links, held>> /\ fresh' \in Nat
    BY <1>1, <1>2 DEF Signup
  <2>. QED
    BY <2>2, <2>3, ReadKeeps
<1>3. ASSUME NEW e \in Emails, NEW w \in Words, Login(h, e, w)
      PROVE  IInv'
  <2>1. PICK m \in ByEmail(e) : held' = [held EXCEPT ![m].token = TRUE]
    BY <1>3 DEF Login
  <2>2. m \in 1..Len(held)
    BY <1>1, <2>1, LenProperties DEF ByEmail, Alive
  <2>3. [held[m] EXCEPT !.token = TRUE] \in Held
    <3>1. held[m] \in Held
      BY <1>1, <2>2, ElementOfSeq
    <3>. QED
      BY <3>1 DEF Held
  <2>4. held' \in Seq(Held) /\ DOMAIN held' = DOMAIN held
    BY <1>1, <2>1, <2>2, <2>3, ExceptSeq
  <2>. QED
    BY <1>1, <1>3, <2>4, IdleTyped, BeginKeeps DEF Login
<1>4. ASSUME NEW e \in Emails, Forgot(h, e)
      PROVE  IInv'
  <2>1. PICK m \in ByEmail(e) : links' = links \cup {[m |-> m, print |-> Fingerprint(m)]}
    BY <1>4 DEF Forgot
  <2>2. m \in DOMAIN merchants /\ m \in Nat \ {0} /\ merchants[m] \in Merchant
    BY <1>1, <2>1, LenProperties, ElementOfSeq DEF ByEmail, Alive
  <2>3. links' \subseteq Link /\ \A l \in links' : l.m \in DOMAIN merchants
    BY <1>1, <2>1, <2>2 DEF Link, Fingerprint, Merchant
  <2>. QED
    BY <1>1, <1>4, <2>3, IdleTyped, BeginKeeps DEF Forgot
<1>5. ASSUME NEW l \in links, NEW new \in Words, ResetPassword(h, l, new)
      PROVE  IInv'
  <2>. DEFINE r == [Reading("resetting", l.m) EXCEPT !.salt = l.print, !.word = new]
  <2>1. l.m \in DOMAIN merchants /\ l.m \in Nat /\ l.print \in Nat
    BY <1>1 DEF Link
  <2>2. Begin(h, r) /\ UNCHANGED <<links, held>> /\ fresh' \in Nat
    BY <1>1, <1>5 DEF ResetPassword
  <2>3. PICK rd \in Local : /\ rd = Reading("resetting", l.m) /\ rd.pc = "resetting"
                            /\ rd.m = l.m /\ rd.plan = 0 /\ rd.key = 0
    <3>1. "resetting" \in Pcs /\ l.m \in Nat
      BY <2>1 DEF Pcs
    <3>. QED
      BY <3>1, ReadingTyped
  <2>4. r = [rd EXCEPT !.salt = l.print, !.word = new]
    BY <2>3
  <2>. HIDE DEF r
  <2>5. r \in Local /\ Carries(r)
    BY <2>1, <2>3, <2>4 DEF Local, Carries, Handing
  <2>. QED
    BY <2>2, <2>5, ReadKeeps
<1>6. ASSUME NEW p \in DOMAIN plans, NEW field \in DOMAIN NoConfig, NEW price \in Prices,
             UpdatePlan(h, p, field, price)
      PROVE  IInv'
  <2>. DEFINE edited == [plans[p].config EXCEPT ![field] = price]
              owner  == plans[p].merchant
              r == [Reading("editing", owner) EXCEPT
                      !.plan = p, !.field = field, !.config = edited,
                      !.version = NextVersion(plans[p].version)]
  <2>1. p \in Nat \ {0} /\ plans[p] \in Plan /\ field \in {"list", "target", "floor"}
    BY <1>1, LenProperties, ElementOfSeq DEF NoConfig
  <2>2. edited \in Config /\ LintClean(edited)
    BY <1>6, <2>1, AccountConstants DEF UpdatePlan, Plan, Config
  <2>3. owner \in DOMAIN merchants /\ owner \in Nat
    BY <1>6, <2>1 DEF UpdatePlan, IInv, Facts, NothingLeft, Alive, Plan
  <2>4. NextVersion(plans[p].version) \in Nat \ {0}
    BY <2>1 DEF NextVersion, Plan
  <2>5. Begin(h, r) /\ UNCHANGED <<links, held>> /\ fresh' \in Nat
    BY <1>1, <1>6 DEF UpdatePlan
  <2>. HIDE DEF edited, owner
  <2>6. PICK rd \in Local : /\ rd = Reading("editing", owner) /\ rd.pc = "editing"
                            /\ rd.m = owner /\ rd.plan = 0 /\ rd.key = 0
    <3>1. "editing" \in Pcs /\ owner \in Nat
      BY <2>3 DEF Pcs
    <3>. QED
      BY <3>1, ReadingTyped
  <2>7. r = [rd EXCEPT !.plan = p, !.field = field, !.config = edited,
                       !.version = NextVersion(plans[p].version)]
    BY <2>6
  <2>. HIDE DEF r
  <2>8. r \in Local /\ Carries(r)
    BY <2>1, <2>2, <2>3, <2>4, <2>6, <2>7 DEF Local, Carries, Handing
  <2>. QED
    BY <2>5, <2>8, ReadKeeps
<1>. QED
  BY <1>2, <1>3, <1>4, <1>5, <1>6, DashboardKeeps DEF Request

-----------------------------------------------------------------------------
(* Writes *)

\* A write keeps the invariant, if it keeps the tables, the answers and what its
\* request carries on in order.
LEMMA StepKeeps ==
  ASSUME IInv, NEW h \in Handlers, NEW c \in Local, Carries(c),
         handler' = [handler EXCEPT ![h] = c], Tables', Facts',
         DOMAIN merchants' = DOMAIN merchants, DOMAIN plans \subseteq DOMAIN plans',
         held' \in Seq(Held), DOMAIN held' = DOMAIN held, resets' \in Seq(Nat),
         fresh' \in Nat, UNCHANGED <<links, raced, requests>>, faults' \in 0..MaxFaults
  PROVE  IInv'
<1>1. Carries(c)'
  BY DEF Carries, LintClean, NoConfig
<1>2. Locals'
  BY <1>1, LocalsFrame DEF IInv
<1>3. Answers' /\ Counters'
  BY DEF IInv, Answers, Counters
<1>. QED
  BY <1>2, <1>3 DEF IInv

\* One that is answered carries nothing on.
LEMMA WriteKeeps ==
  ASSUME IInv, NEW h \in Handlers, Finish(h), Tables', Facts',
         DOMAIN merchants' = DOMAIN merchants, DOMAIN plans \subseteq DOMAIN plans',
         held' \in Seq(Held), DOMAIN held' = DOMAIN held, resets' \in Seq(Nat),
         fresh' \in Nat, UNCHANGED <<links, raced, requests>>, faults' \in 0..MaxFaults
  PROVE  IInv'
BY IdleTyped, StepKeeps DEF Finish

\* What a request is about to hand out is in order.
LEMMA HandedTyped ==
  ASSUME IInv, NEW m \in DOMAIN merchants, NEW pc \in Handing, NEW c,
         NEW key \in Nat, NEW secret \in Nat, NEW stripe \in Nat,
         \/ c = [Reading(pc, m) EXCEPT !.key = key]
         \/ c = [Reading(pc, m) EXCEPT !.secret = secret]
         \/ c = [Reading(pc, m) EXCEPT !.stripe = stripe]
  PROVE  c \in Local /\ Carries(c) /\ c.pc = pc /\ c.m = m
<1>1. m \in Nat \ {0}
  BY LenProperties DEF IInv, Tables
<1>2. PICK rd \in Local : /\ rd = Reading(pc, m) /\ rd.pc = pc
                          /\ rd.m = m /\ rd.plan = 0 /\ rd.key = 0
  <2>1. pc \in Pcs
    BY DEF Pcs, Handing
  <2>. QED
    BY <1>1, <2>1, ReadingTyped
<1>3. c \in Local /\ c.pc = pc /\ c.m = m /\ c.plan = 0
  BY <1>2 DEF Local
<1>4. Carries(c)
  BY <1>1, <1>3 DEF Carries, Handing
<1>. QED
  BY <1>3, <1>4

\* The writes to the row of a merchant that leave it its email.
LEMMA RowKeeps ==
  ASSUME IInv, NEW h \in Handlers,
         WritePassword(h) \/ WriteKey(h) \/ WriteWebhook(h) \/ WriteAccount(h) \/ WriteLive(h)
  PROVE  IInv'
<1>. DEFINE r == handler[h]
            m == handler[h].m
            same(row) == /\ row \in Merchant /\ row.alive = merchants[m].alive
                         /\ row.email = merchants[m].email
<1>1. /\ r \in Local /\ Carries(r) /\ fresh \in Nat /\ faults \in 0..MaxFaults
      /\ held \in Seq(Held) /\ DOMAIN held = DOMAIN merchants /\ resets \in Seq(Nat)
      /\ Tables /\ Facts
  BY DEF IInv, Locals, Counters, Answers
<1>2. m \in Alive => merchants[m] \in Merchant /\ m \in 1..Len(held)
                      /\ held[m] \in Held
  <2>1. merchants \in Seq(Merchant)
    BY <1>1 DEF Tables
  <2>. QED
    BY <1>1, <2>1, LenProperties, ElementOfSeq DEF Alive
<1>3. ASSUME NEW row, m \in Alive => same(row), merchants' = Update(m, row),
             UNCHANGED <<plans, links, raced, requests, faults>>,
             Finish(h) \/ \E c : Hand(h, c) /\ (m \in Alive => c \in Local /\ Carries(c))
                                /\ c.m = m,
             held' = held \/ (m \in Alive /\ \E a \in Held : held' = [held EXCEPT ![m] = a]),
             resets' \in Seq(Nat), fresh' \in Nat
      PROVE  IInv'
  <2>1. Tables' /\ Facts' /\ DOMAIN merchants' = DOMAIN merchants
    BY <1>1, <1>3, UpdateKeeps
  <2>2. held' \in Seq(Held) /\ DOMAIN held' = DOMAIN held
    <3>1. CASE held' = held
      BY <1>1, <3>1
    <3>2. ASSUME m \in Alive, NEW a \in Held, held' = [held EXCEPT ![m] = a]
          PROVE  held' \in Seq(Held) /\ DOMAIN held' = DOMAIN held
      BY <1>1, <1>2, <3>2, ExceptSeq
    <3>. QED
      BY <1>3, <3>1, <3>2
  <2>3. PICK d \in Local : Carries(d) /\ handler' = [handler EXCEPT ![h] = d]
    BY <1>3, IdleTyped DEF Finish, Hand
  <2>. QED
    BY <1>1, <1>3, <2>1, <2>2, <2>3, StepKeeps
<1>4. CASE WritePassword(h)
  <2>. DEFINE row == Hashed(merchants[m], r.word)
  <2>1. r.word \in Words
    BY <1>1, <1>4 DEF WritePassword, At, Carries
  <2>2. m \in Alive => same(row)
    BY <1>1, <1>2, <2>1 DEF Hashed, Merchant
  <2>3. resets' \in Seq(Nat)
    <3>1. r.salt \in Nat
      BY <1>1 DEF Local
    <3>2. resets' = resets \/ resets' = Append(resets, r.salt)
      BY <1>4 DEF WritePassword
    <3>. QED
      BY <1>1, <3>1, <3>2, AppendProperties
  <2>. QED
    BY <1>1, <1>3, <1>4, <2>2, <2>3 DEF WritePassword, Limits
<1>5. CASE WriteKey(h)
  <2>. DEFINE row == [merchants[m] EXCEPT !.key = fresh]
  <2>1. m \in Alive => same(row)
    BY <1>1, <1>2 DEF Merchant
  <2>2. /\ merchants' = Update(m, row) /\ fresh' = fresh + 1
        /\ UNCHANGED <<plans, links, held, resets, raced, requests, faults>>
    BY <1>5 DEF WriteKey, Limits
  <2>3. PICK c : Hand(h, c) /\ c = [Reading("answering", m) EXCEPT !.key = fresh]
    BY <1>5 DEF WriteKey
  <2>4. c.m = m
    BY <2>3 DEF Reading, Idle
  <2>5. m \in Alive => c \in Local /\ Carries(c)
    BY <1>1, <2>3, HandedTyped DEF Handing, Alive
  <2>. HIDE DEF row
  <2>6. fresh' \in Nat /\ resets' \in Seq(Nat)
    BY <1>1, <2>2
  <2>. QED
    BY <1>3, <2>1, <2>2, <2>3, <2>4, <2>5, <2>6
<1>6. CASE WriteWebhook(h)
  <2>. DEFINE row == [merchants[m] EXCEPT !.url = r.url, !.secret = r.secret]
              noted == [held[m] EXCEPT !.cleared = (r.url = NoUrl)]
  <2>1. r.url \in Urls \cup {NoUrl} /\ r.secret \in Nat
    BY <1>1 DEF Local
  <2>2. m \in Alive => same(row)
    BY <1>2, <2>1 DEF Merchant
  <2>3. m \in Alive => noted \in Held
    BY <1>2, <2>1 DEF Held
  <2>4. /\ merchants' = Update(m, row)
        /\ held' = IF m \in Alive THEN [held EXCEPT ![m] = noted] ELSE held
        /\ UNCHANGED <<plans, links, resets, fresh, raced, requests, faults>>
    BY <1>6 DEF WriteWebhook, Limits
  <2>5. PICK c : Hand(h, c) /\ c = [Reading("answering", m) EXCEPT !.secret = r.secret]
    BY <1>6 DEF WriteWebhook
  <2>6. c.m = m
    BY <2>5 DEF Reading, Idle
  <2>7. m \in Alive => c \in Local /\ Carries(c)
    BY <2>1, <2>5, HandedTyped DEF Handing, Alive
  <2>. HIDE DEF row, noted
  <2>8. held' = held \/ (m \in Alive /\ \E a \in Held : held' = [held EXCEPT ![m] = a])
    BY <2>3, <2>4
  <2>. QED
    BY <1>1, <1>3, <2>2, <2>4, <2>5, <2>6, <2>7, <2>8
<1>7. CASE WriteAccount(h)
  <2>. DEFINE stripe == IF Account(r.stripe) # r.stripe THEN Account(r.stripe)
                        ELSE merchants[m].stripe
              secret == IF r.secret = 0 THEN fresh + 1 ELSE merchants[m].secret
              row    == [merchants[m] EXCEPT !.stripe = stripe, !.secret = secret]
  <2>1. Account(r.stripe) \in Nat
    BY <1>1 DEF Local, Account
  <2>2. m \in Alive => same(row)
    <3>1. m \in Alive => stripe \in Nat /\ secret \in Nat
      BY <1>1, <1>2, <2>1 DEF Merchant
    <3>. HIDE DEF stripe, secret
    <3>. QED
      BY <1>2, <3>1 DEF Merchant
  <2>3. /\ merchants' = Update(m, row) /\ fresh' = fresh + 2
        /\ UNCHANGED <<plans, links, held, resets, raced, requests, faults>>
    BY <1>7 DEF WriteAccount, Limits
  <2>4. PICK c : Hand(h, c) /\ c = [Reading("answering", m) EXCEPT !.stripe = Account(r.stripe)]
    BY <1>7 DEF WriteAccount
  <2>5. c.m = m
    BY <2>4 DEF Reading, Idle
  <2>6. m \in Alive => c \in Local /\ Carries(c)
    BY <2>1, <2>4, HandedTyped DEF Handing, Alive
  <2>. HIDE DEF row
  <2>7. fresh' \in Nat /\ resets' \in Seq(Nat)
    BY <1>1, <2>3
  <2>. QED
    BY <1>3, <2>2, <2>3, <2>4, <2>5, <2>6, <2>7
<1>8. CASE WriteLive(h)
  <2>. DEFINE row == [merchants[m] EXCEPT !.live = TRUE]
  <2>1. m \in Alive => same(row)
    BY <1>2 DEF Merchant
  <2>. QED
    BY <1>1, <1>3, <1>8, <2>1 DEF WriteLive, Limits
<1>. QED
  BY <1>4, <1>5, <1>6, <1>7, <1>8

\* A signup keeps the invariant in both of its writes, and so does an answer.
LEMMA SignupKeeps ==
  ASSUME IInv, NEW h \in Handlers, CreateMerchant(h) \/ FirstPlan(h) \/ Answer(h)
  PROVE  IInv'
<1>. DEFINE r == handler[h]
<1>1. /\ r \in Local /\ Carries(r) /\ fresh \in Nat /\ faults \in 0..MaxFaults
      /\ held \in Seq(Held) /\ DOMAIN held = DOMAIN merchants /\ resets \in Seq(Nat)
      /\ Tables /\ Facts
      /\ merchants \in Seq(Merchant) /\ Len(merchants) \in Nat
      /\ DOMAIN merchants = 1..Len(merchants)
  BY LenProperties DEF IInv, Locals, Counters, Answers, Tables
<1>2. CASE CreateMerchant(h) /\ EmailFree(r.email)
  <2>. DEFINE row == [alive |-> TRUE, email |-> r.email, word |-> r.word, salt |-> fresh,
                      key |-> fresh + 1, url |-> NoUrl, secret |-> 0, stripe |-> 0,
                      live |-> FALSE]
              carried == [r EXCEPT !.pc = "planning", !.m = Len(merchants) + 1,
                                   !.key = fresh + 1]
  <2>1. /\ merchants' = Append(merchants, row) /\ held' = Append(held, Nothing)
        /\ fresh' = fresh + 2
        /\ handler' = [handler EXCEPT ![h] = carried]
        /\ UNCHANGED <<plans, links, resets, raced, requests, faults>>
    BY <1>2 DEF CreateMerchant, Limits
  <2>2. r.pc = "creating"
    BY <1>2 DEF CreateMerchant, At
  <2>3. row \in Merchant /\ row.alive /\ EmailFree(row.email)
    BY <1>1, <1>2, <2>2 DEF Merchant, Carries
  <2>4. /\ Tables' /\ Facts'
        /\ DOMAIN merchants' = DOMAIN merchants \cup {Len(merchants) + 1}
    <3>. HIDE DEF row
    <3>. QED
      BY <1>1, <2>1, <2>3, CreateKeeps
  <2>5. /\ held' \in Seq(Held) /\ DOMAIN held' = DOMAIN merchants'
    <3>1. Nothing \in Held
      BY DEF Nothing, Held
    <3>2. Len(held) = Len(merchants)
      BY <1>1, LenProperties
    <3>3. held' \in Seq(Held) /\ Len(held') = Len(held) + 1
      BY <1>1, <2>1, <3>1, AppendProperties
    <3>4. DOMAIN held' = 1..Len(merchants) + 1
      BY <3>2, <3>3, LenProperties
    <3>. QED
      BY <1>1, <2>4, <3>3, <3>4
  <2>6. PICK c \in Local : /\ c = carried /\ c.pc = "planning" /\ c.m = Len(merchants) + 1
                           /\ c.plan = r.plan /\ c.config = r.config
    <3>1. "planning" \in Pcs /\ Len(merchants) + 1 \in Nat
      BY <1>1 DEF Pcs
    <3>2. PICK q \in Local : q = r
      BY <1>1
    <3>5. PICK k \in Nat : k = fresh + 1
      BY <1>1
    <3>6. PICK l \in Nat : l = Len(merchants) + 1
      BY <1>1
    <3>3. carried = [q EXCEPT !.pc = "planning", !.m = l, !.key = k]
      BY <3>2, <3>5, <3>6
    <3>. HIDE DEF carried
    <3>4. /\ carried \in Local /\ carried.pc = "planning" /\ carried.m = Len(merchants) + 1
          /\ carried.plan = q.plan /\ carried.config = q.config
      BY <3>1, <3>3, <3>6 DEF Local
    <3>. QED
      BY <3>2, <3>4
  <2>7. Carries(c)'
    <3>1. /\ r.plan \in {0} \cup DOMAIN plans
          /\ r.config = NoConfig \/ LintClean(r.config)
      BY <1>1, <2>2 DEF Carries
    <3>. QED
      BY <1>1, <2>1, <2>4, <2>6, <3>1 DEF Carries, LintClean, NoConfig
  <2>9. Locals'
    BY <2>1, <2>4, <2>6, <2>7, LocalsFrame DEF IInv
  <2>8. Answers' /\ Counters'
    BY <1>1, <2>1, <2>4, <2>5 DEF IInv, Answers, Counters
  <2>. QED
    BY <2>4, <2>8, <2>9 DEF IInv
<1>3. CASE CreateMerchant(h) /\ ~EmailFree(r.email)
  <2>1. Finish(h) /\ UNCHANGED <<merchants, plans, links, held, resets, fresh, raced, requests, faults>>
    BY <1>3 DEF CreateMerchant, Limits
  <2>2. Tables' /\ Facts'
    BY <1>1, <2>1 DEF Tables, Facts, EmailUnique, PlanLadder, NothingLeft, Alive
  <2>. QED
    BY <1>1, <2>1, <2>2, WriteKeeps
<1>4. CASE FirstPlan(h)
  <2>1. /\ r.pc = "planning" /\ r.m \in 1..Len(merchants) /\ r.m \in Nat \ {0}
        /\ r.config \in Config /\ (r.config = NoConfig \/ LintClean(r.config))
        /\ r.key \in Nat
    BY <1>1, <1>4 DEF FirstPlan, At, Carries, Local
  <2>2. UNCHANGED <<merchants, links, held, resets, fresh, raced, requests, faults>>
    BY <1>4 DEF FirstPlan, Limits
  <2>3. Tables' /\ Facts' /\ DOMAIN plans \subseteq DOMAIN plans'
    <3>1. CASE r.config = NoConfig
      <4>1. plans' = plans
        BY <1>4, <3>1 DEF FirstPlan
      <4>. QED
        BY <1>1, <2>2, <4>1 DEF Tables, Facts, EmailUnique, PlanLadder, NothingLeft, Alive
    <3>2. CASE r.config # NoConfig
      <4>1. plans' = WithPlan(r.m, r.config)
        BY <1>4, <3>2 DEF FirstPlan
      <4>. QED
        BY <1>1, <2>1, <2>2, <3>2, <4>1, WithPlanKeeps
    <3>. QED
      BY <3>1, <3>2
  <2>4. PICK c : /\ c = [Reading("welcoming", r.m) EXCEPT !.key = r.key]
                 /\ handler' = [handler EXCEPT ![h] = c]
    BY <1>4 DEF FirstPlan
  <2>5. c \in Local /\ Carries(c)
    BY <1>1, <2>1, <2>4, HandedTyped DEF Handing
  <2>. QED
    BY <1>1, <2>2, <2>3, <2>4, <2>5, StepKeeps
<1>5. CASE Answer(h)
  <2>. DEFINE answer == [held[r.m] EXCEPT
                           !.token  = @ \/ At(h, "welcoming"),
                           !.key    = IF r.key # 0 THEN r.key ELSE @,
                           !.secret = IF r.secret # 0 THEN r.secret ELSE @,
                           !.stripe = IF r.stripe # 0 THEN r.stripe ELSE @,
                           !.lost   = @ /\ r.key = 0]
  <2>1. r.m \in 1..Len(held)
    <3>1. r.m # 0 /\ r.m \in {0} \cup DOMAIN merchants
      BY <1>1, <1>5 DEF Answer, At, Carries, Handing
    <3>. QED
      BY <1>1, <3>1, LenProperties
  <2>2. answer \in Held
    <3>1. held[r.m] \in Held
      BY <1>1, <2>1, ElementOfSeq
    <3>2. r.key \in Nat /\ r.secret \in Nat /\ r.stripe \in Nat
      BY <1>1 DEF Local
    <3>. QED
      BY <3>1, <3>2 DEF Held, At
  <2>3. held' = [held EXCEPT ![r.m] = answer]
    BY <1>5 DEF Answer
  <2>4. held' \in Seq(Held) /\ DOMAIN held' = DOMAIN held
    <3>. HIDE DEF answer
    <3>. QED
      BY <1>1, <2>1, <2>2, <2>3, ExceptSeq
  <2>5. Finish(h) /\ UNCHANGED <<merchants, plans, links, resets, fresh, raced, requests, faults>>
    BY <1>5 DEF Answer, Limits
  <2>6. Tables' /\ Facts'
    BY <1>1, <2>5 DEF Tables, Facts, EmailUnique, PlanLadder, NothingLeft, Alive
  <2>. QED
    BY <1>1, <2>4, <2>5, <2>6, WriteKeeps
<1>. QED
  BY <1>2, <1>3, <1>4, <1>5

\* Plans, deletion and deaths.
LEMMA PlanKeeps ==
  ASSUME IInv, NEW h \in Handlers,
         InsertPlan(h) \/ WritePlan(h) \/ DeleteMerchant(h) \/ HandlerDies(h)
  PROVE  IInv'
<1>. DEFINE r == handler[h]
<1>1. /\ r \in Local /\ Carries(r) /\ fresh \in Nat /\ faults \in 0..MaxFaults
      /\ held \in Seq(Held) /\ resets \in Seq(Nat) /\ Tables /\ Facts
      /\ DOMAIN held = DOMAIN merchants
  BY DEF IInv, Locals, Counters, Answers
<1>2. /\ Finish(h) /\ UNCHANGED <<links, resets, fresh, raced, requests>>
      /\ faults' \in 0..MaxFaults
      /\ held' \in Seq(Held) /\ DOMAIN held' = DOMAIN held
  <2>1. CASE HandlerDies(h)
    <3>1. /\ Finish(h) /\ UNCHANGED <<links, resets, fresh, raced, requests>>
          /\ faults' \in 0..MaxFaults
      BY <1>1, <2>1, AccountConstants DEF HandlerDies
    <3>2. CASE r.key = 0
      BY <1>1, <2>1, <3>1, <3>2 DEF HandlerDies
    <3>3. CASE r.key # 0
      <4>1. r.m \in DOMAIN held
        BY <1>1, <3>3 DEF Carries, Handing
      <4>2. PICK a : a = [held[r.m] EXCEPT !.lost = TRUE] /\ held' = [held EXCEPT ![r.m] = a]
        BY <2>1, <3>3 DEF HandlerDies
      <4>3. a \in Held /\ r.m \in 1..Len(held)
        <5>1. r.m \in 1..Len(held) /\ held[r.m] \in Held
          BY <1>1, <4>1, LenProperties, ElementOfSeq
        <5>. QED
          BY <4>2, <5>1 DEF Held
      <4>. QED
        BY <1>1, <3>1, <4>2, <4>3, ExceptSeq
    <3>. QED
      BY <3>2, <3>3
  <2>2. CASE InsertPlan(h) \/ WritePlan(h) \/ DeleteMerchant(h)
    BY <1>1, <2>2 DEF InsertPlan, WritePlan, DeleteMerchant, Limits
  <2>. QED
    BY <2>1, <2>2
<1>3. CASE InsertPlan(h)
  <2>1. r.m \in Nat \ {0} /\ r.config \in Config /\ LintClean(r.config)
    BY <1>1, <1>3 DEF InsertPlan, At, Carries, Local
  <2>2. plans' = WithPlan(r.m, r.config) /\ UNCHANGED merchants
    BY <1>3 DEF InsertPlan
  <2>3. Tables' /\ Facts' /\ DOMAIN plans \subseteq DOMAIN plans'
    BY <1>1, <2>1, <2>2, WithPlanKeeps
  <2>. QED
    BY <1>1, <1>2, <2>2, <2>3, WriteKeeps
<1>4. CASE WritePlan(h)
  <2>1. /\ r.plan \in DOMAIN plans /\ r.config \in Config /\ LintClean(r.config)
        /\ r.version \in Nat \ {0}
    BY <1>1, <1>4 DEF WritePlan, At, Carries, Local
  <2>2. /\ plans' = IF plans[r.plan].alive
                      THEN [plans EXCEPT ![r.plan].config = r.config,
                                         ![r.plan].version = r.version]
                      ELSE plans
        /\ UNCHANGED merchants
    BY <1>4 DEF WritePlan, EditedConfig
  <2>3. Tables' /\ Facts' /\ DOMAIN plans' = DOMAIN plans
    BY <1>1, <2>1, <2>2, WritePlanKeeps
  <2>. QED
    BY <1>1, <1>2, <2>2, <2>3, WriteKeeps
<1>5. CASE DeleteMerchant(h)
  <2>1. r.m \in DOMAIN merchants
    BY <1>1, <1>5 DEF DeleteMerchant, At, Carries
  <2>2. merchants' = [merchants EXCEPT ![r.m].alive = FALSE] /\ plans' = PlansWithout(r.m)
    BY <1>5 DEF DeleteMerchant
  <2>3. /\ Tables' /\ Facts' /\ DOMAIN merchants' = DOMAIN merchants
        /\ DOMAIN plans' = DOMAIN plans
    BY <1>1, <2>1, <2>2, DeleteKeeps
  <2>. QED
    BY <1>1, <1>2, <2>3, WriteKeeps
<1>6. CASE HandlerDies(h)
  <2>1. UNCHANGED <<merchants, plans>>
    BY <1>6 DEF HandlerDies
  <2>2. Tables' /\ Facts'
    BY <1>1, <2>1 DEF Tables, Facts, EmailUnique, PlanLadder, NothingLeft, Alive
  <2>. QED
    BY <1>1, <1>2, <2>1, <2>2, WriteKeeps
<1>. QED
  BY <1>3, <1>4, <1>5, <1>6

-----------------------------------------------------------------------------
(* Theorems *)

\* There is nothing at first.
LEMMA InitInv == Init => IInv
<1>. SUFFICES ASSUME Init PROVE IInv
  OBVIOUS
<1>1. merchants = <<>> /\ plans = <<>> /\ held = <<>> /\ resets = <<>> /\ links = {}
  BY DEF Init
<1>2. /\ merchants \in Seq(Merchant) /\ plans \in Seq(Plan) /\ held \in Seq(Held)
      /\ resets \in Seq(Nat) /\ DOMAIN merchants = {} /\ DOMAIN plans = {}
  BY <1>1
<1>3. Facts
  BY <1>2 DEF Facts, EmailUnique, PlanLadder, NothingLeft, Alive
<1>4. Locals
  BY IdleTyped DEF Init, Locals
<1>5. Counters
  <2>1. 0 \in 0..MaxRequests /\ 0 \in 0..MaxFaults
    BY AccountConstants
  <2>. QED
    BY <2>1 DEF Init, Counters
<1>. QED
  BY <1>1, <1>2, <1>3, <1>4, <1>5 DEF IInv, Tables, Answers

\* The invariant is inductive, and has the types and the three facts in it.
LEMMA Invariance == Spec => []IInv
<1>1. ASSUME IInv, [Next]_vars PROVE IInv'
  <2>1. CASE Next
    <3>1. PICK h \in Handlers : Request(h) \/ HandlerStep(h)
      BY <2>1 DEF Next
    <3>. QED
      BY <1>1, <3>1, RequestKeeps, RowKeeps, SignupKeeps, PlanKeeps DEF HandlerStep
  <2>2. CASE UNCHANGED vars
    BY <1>1, <2>2 DEF vars, IInv, Tables, Facts, EmailUnique, PlanLadder, NothingLeft, Alive,
                      Answers, Locals, Carries, LintClean, NoConfig, Counters
  <2>. QED
    BY <1>1, <2>1, <2>2
<1>. QED
  BY <1>1, InitInv, PTL DEF Spec

\* The tables, the answers and the requests keep their types.
THEOREM TypeCorrect == Spec => []TypeOK
<1>1. IInv => TypeOK
  BY DEF IInv, Tables, Answers, Locals, Carries, Local, Pcs, Counters, TypeOK
<1>. QED
  BY <1>1, Invariance, PTL

\* No two accounts have one email, however many signups race (merchants_email_unique).
THEOREM OneEmailEach == Spec => []EmailUnique
<1>1. IInv => EmailUnique
  BY DEF IInv, Facts
<1>. QED
  BY <1>1, Invariance, PTL

\* Every plan keeps list over target over floor, however many edits race: each
\* writes whole the config it linted (updatePlan, lintConfig).
THEOREM LadderKept == Spec => []PlanLadder
<1>1. IInv => PlanLadder
  BY DEF IInv, Facts
<1>. QED
  BY <1>1, Invariance, PTL

\* No plan outlives its merchant (deleteMerchant, the reference of plans).
THEOREM DeletionIsWhole == Spec => []NothingLeft
<1>1. IInv => NothingLeft
  BY DEF IInv, Facts
<1>. QED
  BY <1>1, Invariance, PTL

-----------------------------------------------------------------------------
(* Going live *)

\* No account is live, or on its way there, that was never told how to be notified:
\* the request that goes live read a URL, and whoever took it away since cleared it.
Silent(m) ==
  /\ ~merchants[m].live
  /\ \A h \in Handlers : handler[h].pc = "going live" => handler[h].m # m

Reachable ==
  \A m \in DOMAIN merchants : merchants[m].url # NoUrl \/ held[m].cleared \/ Silent(m)

\* A handler that takes up something else does not go live.
LEMMA NoneGoesLive ==
  ASSUME Locals, NEW h \in Handlers, NEW r, handler' = [handler EXCEPT ![h] = r],
         r.pc # "going live"
  PROVE  \A g \in Handlers : handler'[g].pc = "going live" => handler'[g] = handler[g]
  BY DEF Locals

\* What leaves URLs, liveness and answers alone, and sends nobody live, keeps it.
LEMMA ReachableFrame ==
  ASSUME Reachable, DOMAIN merchants' = DOMAIN merchants,
         \A m \in DOMAIN merchants : /\ merchants'[m].url = merchants[m].url
                                     /\ merchants'[m].live = merchants[m].live
                                     /\ held'[m].cleared = held[m].cleared,
         \A g \in Handlers : handler'[g].pc = "going live" => handler'[g] = handler[g]
  PROVE  Reachable'
  BY DEF Reachable, Silent

\* Every request but one begins without going live, and that one has read a URL.
LEMMA RequestReaches ==
  ASSUME IInv, Reachable, NEW h \in Handlers, Request(h)
  PROVE  Reachable'
<1>1. Locals /\ held \in Seq(Held) /\ DOMAIN held = DOMAIN merchants
  BY DEF IInv, Answers
<1>2. ASSUME NEW r, Begin(h, r), r.pc # "going live", UNCHANGED held
      PROVE  Reachable'
  <2>1. \A g \in Handlers : handler'[g].pc = "going live" => handler'[g] = handler[g]
    BY <1>1, <1>2, NoneGoesLive DEF Begin
  <2>. QED
    BY <1>2, <2>1, ReachableFrame DEF Begin
<1>3. ASSUME NEW e \in Emails, NEW w \in Words, Login(h, e, w)
      PROVE  Reachable'
  <2>1. PICK m \in ByEmail(e) : Begin(h, Idle) /\ held' = [held EXCEPT ![m].token = TRUE]
    BY <1>3 DEF Login
  <2>2. \A n \in DOMAIN held : held'[n].cleared = held[n].cleared
    <3>1. \A n \in DOMAIN held : held[n] \in Held
      BY <1>1, LenProperties, ElementOfSeq
    <3>2. \A n \in DOMAIN held : n # m => held'[n] = held[n]
      BY <2>1
    <3>3. m \in DOMAIN held => held'[m] = [held[m] EXCEPT !.token = TRUE]
      BY <2>1
    <3>. QED
      BY <3>1, <3>2, <3>3 DEF Held
  <2>3. \A g \in Handlers : handler'[g].pc = "going live" => handler'[g] = handler[g]
    <3>1. Idle.pc # "going live"
      BY DEF Idle
    <3>2. handler' = [handler EXCEPT ![h] = Idle]
      BY <2>1 DEF Begin
    <3>. QED
      BY <1>1, <3>1, <3>2, NoneGoesLive
  <2>. QED
    BY <1>1, <2>1, <2>2, <2>3, ReachableFrame DEF Begin
<1>4. ASSUME NEW m \in DOMAIN merchants, GoLive(h, m)
      PROVE  Reachable'
  <2>1. /\ merchants[m].url # NoUrl
        /\ UNCHANGED <<merchants, held>>
        /\ handler' = [handler EXCEPT ![h] = Reading("going live", m)]
    BY <1>4 DEF GoLive, MayGoLive, Dashboard, Begin
  <2>2. Reading("going live", m).m = m
    BY DEF Reading, Idle
  <2>3. ASSUME NEW n \in DOMAIN merchants, n # m
        PROVE  merchants[n].url # NoUrl \/ held[n].cleared \/ Silent(n)'
    <3>1. merchants[n].url # NoUrl \/ held[n].cleared \/ Silent(n)
      BY DEF Reachable
    <3>2. \A g \in Handlers : handler'[g] = handler[g] \/ handler'[g].m = m
      BY <1>1, <2>1, <2>2 DEF Locals
    <3>. QED
      BY <2>1, <2>3, <3>1, <3>2 DEF Silent
  <2>. QED
    BY <2>1, <2>3 DEF Reachable
<1>5. \A pc \in {"changing", "resetting", "rotating", "hooking", "onboarding", "adding",
                 "editing", "deleting"} : \A m :
        Reading(pc, m) = [Idle EXCEPT !.pc = pc, !.m = m] /\ Reading(pc, m).pc # "going live"
  BY DEF Reading, Idle
<1>6. ASSUME NEW e \in Emails, NEW w \in Words, NEW config, Signup(h, e, w, config)
      PROVE  Reachable'
  BY <1>2, <1>6 DEF Signup, Idle
<1>7. ASSUME NEW e \in Emails, Forgot(h, e)
      PROVE  Reachable'
  BY <1>2, <1>7 DEF Forgot, Idle
<1>8. ASSUME NEW l \in links, NEW new \in Words, ResetPassword(h, l, new)
      PROVE  Reachable'
  BY <1>2, <1>8 DEF ResetPassword, Reading, Idle
<1>9. ASSUME NEW p, NEW field, NEW price, UpdatePlan(h, p, field, price)
      PROVE  Reachable'
  BY <1>2, <1>9 DEF UpdatePlan, Reading, Idle
<1>10. ASSUME NEW m \in DOMAIN merchants,
              \/ \E current, new \in Words : ChangePassword(h, m, current, new)
              \/ \E url \in Urls \cup {Blank} : SetWebhookUrl(h, m, url)
              \/ \E config \in PlanInputs : CreatePlan(h, m, config)
              \/ RotateKey(h, m) \/ StartConnectOnboarding(h, m) \/ DeleteAccount(h, m)
       PROVE  Reachable'
  <2>1. ASSUME NEW current, NEW new, ChangePassword(h, m, current, new) PROVE Reachable'
    BY <1>2, <2>1 DEF ChangePassword, Dashboard, Reading, Idle
  <2>2. ASSUME NEW url, SetWebhookUrl(h, m, url) PROVE Reachable'
    BY <1>2, <2>2 DEF SetWebhookUrl, Dashboard, Reading, Idle
  <2>3. ASSUME NEW config, CreatePlan(h, m, config) PROVE Reachable'
    BY <1>2, <2>3 DEF CreatePlan, Reading, Idle
  <2>4. CASE RotateKey(h, m)
    BY <1>2, <1>5, <2>4 DEF RotateKey
  <2>5. CASE StartConnectOnboarding(h, m)
    BY <1>2, <2>5 DEF StartConnectOnboarding, Dashboard, Reading, Idle
  <2>6. CASE DeleteAccount(h, m)
    BY <1>2, <1>5, <2>6 DEF DeleteAccount
  <2>. QED
    BY <1>10, <2>1, <2>2, <2>3, <2>4, <2>5, <2>6
<1>. QED
  BY <1>3, <1>4, <1>6, <1>7, <1>8, <1>9, <1>10 DEF Request

\* The writes: setWebhookUrl says whether the URL was cleared, going live needs the
\* request that read one.
LEMMA WriteReaches ==
  ASSUME IInv, Reachable, NEW h \in Handlers, HandlerStep(h)
  PROVE  Reachable'
<1>. DEFINE r == handler[h]
            m == handler[h].m
<1>1. /\ Locals /\ merchants \in Seq(Merchant) /\ held \in Seq(Held)
      /\ DOMAIN held = DOMAIN merchants /\ Len(held) = Len(merchants)
      /\ DOMAIN merchants = 1..Len(merchants) /\ Len(merchants) \in Nat
      /\ \A n \in DOMAIN merchants : merchants[n] \in Merchant /\ held[n] \in Held
      /\ Alive \subseteq DOMAIN merchants
  BY LenProperties, ElementOfSeq DEF IInv, Tables, Answers, Alive
<1>2. Idle.pc # "going live"
  BY DEF Idle
<1>3. ASSUME NEW c, handler' = [handler EXCEPT ![h] = c], c.pc # "going live",
             \/ UNCHANGED merchants
             \/ \E row : /\ merchants' = Update(m, row)
                         /\ m \in Alive => /\ row.url = merchants[m].url
                                           /\ row.live = merchants[m].live,
             \/ UNCHANGED held
             \/ m \in Alive /\ \E a : /\ held' = [held EXCEPT ![m] = a]
                                      /\ a.cleared = held[m].cleared
      PROVE  Reachable'
  <2>1. /\ DOMAIN merchants' = DOMAIN merchants
        /\ \A n \in DOMAIN merchants : /\ merchants'[n].url = merchants[n].url
                                       /\ merchants'[n].live = merchants[n].live
    BY <1>1, <1>3 DEF Update
  <2>2. \A n \in DOMAIN merchants : held'[n].cleared = held[n].cleared
    BY <1>1, <1>3
  <2>3. \A g \in Handlers : handler'[g].pc = "going live" => handler'[g] = handler[g]
    BY <1>1, <1>3, NoneGoesLive
  <2>. QED
    BY <2>1, <2>2, <2>3, ReachableFrame
<1>4. CASE WriteWebhook(h)
  <2>0. PICK c : handler' = [handler EXCEPT ![h] = c] /\ c.pc # "going live"
    <3>1. PICK c : c = [Reading("answering", m) EXCEPT !.secret = r.secret] /\ Hand(h, c)
      BY <1>4 DEF WriteWebhook
    <3>2. c.pc # "going live"
      BY <3>1 DEF Reading, Idle
    <3>. QED
      BY <1>2, <3>1, <3>2 DEF Hand
  <2>1. CASE m \notin Alive
    <3>1. UNCHANGED <<merchants, held>>
      BY <1>4, <2>1 DEF WriteWebhook, Update
    <3>. QED
      BY <1>3, <2>0, <3>1
  <2>2. CASE m \in Alive
    <3>1. /\ merchants' = [merchants EXCEPT ![m] = [merchants[m] EXCEPT !.url = r.url,
                                                                        !.secret = r.secret]]
          /\ held' = [held EXCEPT ![m] = [held[m] EXCEPT !.cleared = (r.url = NoUrl)]]
      BY <1>4, <2>2 DEF WriteWebhook, Update
    <3>2. \A g \in Handlers : handler'[g].pc = "going live" => handler'[g] = handler[g]
      BY <1>1, <2>0, NoneGoesLive
    <3>3. m \in DOMAIN merchants
      BY <1>1, <2>2
    <3>4. merchants'[m].url = r.url /\ held'[m].cleared = (r.url = NoUrl)
      BY <1>1, <3>1, <3>3 DEF Merchant, Held
    <3>5. \A n \in DOMAIN merchants : n # m => merchants'[n] = merchants[n] /\ held'[n] = held[n]
      BY <1>1, <3>1
    <3>6. DOMAIN merchants' = DOMAIN merchants
      BY <3>1
    <3>7. ASSUME NEW n \in DOMAIN merchants, n # m
          PROVE  merchants'[n].url # NoUrl \/ held'[n].cleared \/ Silent(n)'
      BY <3>2, <3>5, <3>7 DEF Reachable, Silent
    <3>. QED
      BY <3>4, <3>6, <3>7 DEF Reachable
  <2>. QED
    BY <2>1, <2>2
<1>5. CASE WriteLive(h)
  <2>1. CASE m \notin Alive
    BY <1>2, <1>3, <1>5, <2>1 DEF WriteLive, Update, Finish
  <2>2. CASE m \in Alive
    <3>1. /\ merchants' = [merchants EXCEPT ![m] = [merchants[m] EXCEPT !.live = TRUE]]
          /\ UNCHANGED held /\ Finish(h) /\ r.pc = "going live"
      BY <1>5, <2>2 DEF WriteLive, Update, At
    <3>2. \A g \in Handlers : handler'[g].pc = "going live" => handler'[g] = handler[g]
      BY <1>1, <1>2, <3>1, NoneGoesLive DEF Finish
    <3>3. m \in DOMAIN merchants
      BY <1>1, <2>2
    <3>4. merchants[m].url # NoUrl \/ held[m].cleared
      BY <3>1, <3>3 DEF Reachable, Silent
    <3>5. merchants'[m].url = merchants[m].url
      BY <1>1, <3>1, <3>3 DEF Merchant
    <3>6. \A n \in DOMAIN merchants : n # m => merchants'[n] = merchants[n]
      BY <1>1, <3>1
    <3>7. DOMAIN merchants' = DOMAIN merchants
      BY <3>1
    <3>8. ASSUME NEW n \in DOMAIN merchants, n # m
          PROVE  merchants'[n].url # NoUrl \/ held'[n].cleared \/ Silent(n)'
      BY <3>1, <3>2, <3>6, <3>8 DEF Reachable, Silent
    <3>. QED
      BY <3>1, <3>4, <3>5, <3>7, <3>8 DEF Reachable
  <2>. QED
    BY <2>1, <2>2
<1>6. CASE WritePassword(h)
  <2>. DEFINE row == Hashed(merchants[m], r.word)
  <2>1. m \in Alive => row.url = merchants[m].url /\ row.live = merchants[m].live
    BY <1>1 DEF Hashed, Merchant
  <2>2. /\ merchants' = Update(m, row) /\ UNCHANGED held
        /\ handler' = [handler EXCEPT ![h] = Idle]
    BY <1>6 DEF WritePassword, Finish
  <2>. HIDE DEF row
  <2>. QED
    BY <1>2, <1>3, <2>1, <2>2
<1>7. CASE WriteKey(h)
  <2>. DEFINE row == [merchants[m] EXCEPT !.key = fresh]
  <2>0. PICK c : handler' = [handler EXCEPT ![h] = c] /\ c.pc # "going live"
    <3>1. PICK c : c = [Reading("answering", m) EXCEPT !.key = fresh] /\ Hand(h, c)
      BY <1>7 DEF WriteKey
    <3>2. c.pc # "going live"
      BY <3>1 DEF Reading, Idle
    <3>. QED
      BY <1>2, <3>1, <3>2 DEF Hand
  <2>1. m \in Alive => row.url = merchants[m].url /\ row.live = merchants[m].live
    BY <1>1 DEF Merchant
  <2>2. merchants' = Update(m, row) /\ UNCHANGED held
    BY <1>7 DEF WriteKey
  <2>. HIDE DEF row
  <2>. QED
    BY <1>3, <2>0, <2>1, <2>2
<1>8. CASE WriteAccount(h)
  <2>. DEFINE stripe == IF Account(r.stripe) # r.stripe THEN Account(r.stripe)
                        ELSE merchants[m].stripe
              secret == IF r.secret = 0 THEN fresh + 1 ELSE merchants[m].secret
              row    == [merchants[m] EXCEPT !.stripe = stripe, !.secret = secret]
  <2>0. PICK c : handler' = [handler EXCEPT ![h] = c] /\ c.pc # "going live"
    <3>1. PICK c : c = [Reading("answering", m) EXCEPT !.stripe = Account(r.stripe)] /\ Hand(h, c)
      BY <1>8 DEF WriteAccount
    <3>2. c.pc # "going live"
      BY <3>1 DEF Reading, Idle
    <3>. QED
      BY <1>2, <3>1, <3>2 DEF Hand
  <2>1. merchants' = Update(m, row) /\ UNCHANGED held
    BY <1>8 DEF WriteAccount
  <2>. HIDE DEF stripe, secret
  <2>2. m \in Alive => row.url = merchants[m].url /\ row.live = merchants[m].live
    BY <1>1 DEF Merchant
  <2>. HIDE DEF row
  <2>. QED
    BY <1>3, <2>0, <2>1, <2>2
<1>9. CASE InsertPlan(h) \/ WritePlan(h)
  BY <1>2, <1>3, <1>9 DEF InsertPlan, WritePlan, Finish
<1>10. CASE DeleteMerchant(h)
  <2>1. merchants' = [merchants EXCEPT ![m] = [merchants[m] EXCEPT !.alive = FALSE]]
        /\ UNCHANGED held /\ Finish(h)
    BY <1>10 DEF DeleteMerchant
  <2>2. /\ DOMAIN merchants' = DOMAIN merchants
        /\ \A n \in DOMAIN merchants : /\ merchants'[n].url = merchants[n].url
                                       /\ merchants'[n].live = merchants[n].live
    BY <1>1, <2>1 DEF Merchant
  <2>3. \A g \in Handlers : handler'[g].pc = "going live" => handler'[g] = handler[g]
    BY <1>1, <1>2, <2>1, NoneGoesLive DEF Finish
  <2>. QED
    BY <2>1, <2>2, <2>3, ReachableFrame
<1>11. CASE CreateMerchant(h)
  <2>1. CASE UNCHANGED <<merchants, held>> /\ Finish(h)
    BY <1>2, <1>3, <2>1 DEF Finish
  <2>2. CASE EmailFree(r.email)
    <3>. DEFINE k == Len(merchants) + 1
                row == [alive |-> TRUE, email |-> r.email, word |-> r.word, salt |-> fresh,
                        key |-> fresh + 1, url |-> NoUrl, secret |-> 0, stripe |-> 0,
                        live |-> FALSE]
                c == [r EXCEPT !.pc = "planning", !.m = k, !.key = fresh + 1]
    <3>1. /\ merchants' = Append(merchants, row) /\ held' = Append(held, Nothing)
          /\ handler' = [handler EXCEPT ![h].pc = "planning", ![h].m = k, ![h].key = fresh + 1]
      BY <1>11, <2>2 DEF CreateMerchant
    <3>2. r \in Local
      BY <1>1 DEF Locals
    <3>3. handler' = [handler EXCEPT ![h] = c]
      BY <1>1, <3>1 DEF Locals
    <3>4. c.pc # "going live"
      BY <3>2 DEF Local
    <3>5. \A g \in Handlers : handler'[g].pc = "going live" => handler'[g] = handler[g]
      BY <1>1, <3>3, <3>4, NoneGoesLive
    <3>6. row.live = FALSE
      OBVIOUS
    <3>. HIDE DEF row, c
    <3>7. /\ DOMAIN merchants' = 1..k /\ merchants'[k].live = FALSE
          /\ \A n \in DOMAIN merchants : merchants'[n] = merchants[n] /\ held'[n] = held[n]
      BY <1>1, <3>1, <3>6
    <3>8. \A g \in Handlers : handler[g].pc = "going live" => handler[g].m # k
      <4>1. \A g \in Handlers : handler[g].m \in {0} \cup 1..Len(merchants)
        BY <1>1 DEF Locals, Carries
      <4>2. \A n \in {0} \cup 1..Len(merchants) : n # Len(merchants) + 1
        BY <1>1
      <4>. QED
        BY <4>1, <4>2
    <3>9. 1..k = DOMAIN merchants \cup {k}
      BY <1>1
    <3>. HIDE DEF k
    <3>10. ~merchants'[k].live /\ \A g \in Handlers : handler'[g].pc = "going live" => handler'[g].m # k
      BY <3>5, <3>7, <3>8
    <3>11. ASSUME NEW n \in DOMAIN merchants
           PROVE  merchants'[n].url # NoUrl \/ held'[n].cleared \/ Silent(n)'
      BY <3>5, <3>7 DEF Reachable, Silent
    <3>12. ASSUME NEW n \in DOMAIN merchants'
           PROVE  merchants'[n].url # NoUrl \/ held'[n].cleared \/ Silent(n)'
      <4>1. CASE n \in DOMAIN merchants
        BY <3>11, <4>1
      <4>2. CASE n = k
        BY <3>10, <4>2 DEF Silent
      <4>. QED
        BY <3>7, <3>9, <4>1, <4>2
    <3>. QED
      BY <3>12 DEF Reachable
  <2>. QED
    BY <1>11, <2>1, <2>2 DEF CreateMerchant
<1>12. CASE FirstPlan(h)
  <2>1. PICK c : handler' = [handler EXCEPT ![h] = c] /\ c.pc # "going live"
    <3>1. PICK c : /\ c = [Reading("welcoming", m) EXCEPT !.key = r.key]
                   /\ handler' = [handler EXCEPT ![h] = c]
      BY <1>12 DEF FirstPlan
    <3>2. c.pc # "going live"
      BY <3>1 DEF Reading, Idle
    <3>. QED
      BY <3>1, <3>2
  <2>. QED
    BY <1>3, <1>12, <2>1 DEF FirstPlan
<1>13. CASE Answer(h) \/ HandlerDies(h)
  <2>1. /\ UNCHANGED merchants /\ Finish(h)
        /\ \/ held' = held
           \/ \E a : held' = [held EXCEPT ![m] = a]
                    /\ (held[m] \in Held => a.cleared = held[m].cleared)
    <3>1. CASE Answer(h)
      <4>. DEFINE a == [held[m] EXCEPT
                          !.token  = @ \/ At(h, "welcoming"),
                          !.key    = IF r.key # 0 THEN r.key ELSE @,
                          !.secret = IF r.secret # 0 THEN r.secret ELSE @,
                          !.stripe = IF r.stripe # 0 THEN r.stripe ELSE @,
                          !.lost   = @ /\ r.key = 0]
      <4>1. held' = [held EXCEPT ![m] = a]
        BY <3>1 DEF Answer
      <4>2. held[m] \in Held => a.cleared = held[m].cleared
        BY DEF Held
      <4>. HIDE DEF a
      <4>. QED
        BY <3>1, <4>1, <4>2 DEF Answer
    <3>2. CASE HandlerDies(h)
      <4>1. \/ held' = held
            \/ held' = [held EXCEPT ![m] = [held[m] EXCEPT !.lost = TRUE]]
        BY <3>2 DEF HandlerDies
      <4>2. held[m] \in Held => [held[m] EXCEPT !.lost = TRUE].cleared = held[m].cleared
        BY DEF Held
      <4>. QED
        BY <3>2, <4>1, <4>2 DEF HandlerDies
    <3>. QED
      BY <1>13, <3>1, <3>2
  <2>2. \A n \in DOMAIN merchants : held'[n].cleared = held[n].cleared
    BY <1>1, <2>1
  <2>3. \A g \in Handlers : handler'[g].pc = "going live" => handler'[g] = handler[g]
    BY <1>1, <1>2, <2>1, NoneGoesLive DEF Finish
  <2>. QED
    BY <2>1, <2>2, <2>3, ReachableFrame
<1>. QED
  BY <1>4, <1>5, <1>6, <1>7, <1>8, <1>9, <1>10, <1>11, <1>12, <1>13 DEF HandlerStep

\* goLive: whoever is live without a webhook URL has cleared it itself, whatever
\* requests race with the one that went live.
THEOREM LiveKeepsItsWebhook == Spec => []LiveIsNotified
<1>1. Init => Reachable
  BY DEF Init, Reachable
<1>2. IInv /\ Reachable /\ [Next]_vars => Reachable'
  <2>1. ASSUME IInv, Reachable, Next PROVE Reachable'
    <3>1. PICK h \in Handlers : Request(h) \/ HandlerStep(h)
      BY <2>1 DEF Next
    <3>. QED
      BY <2>1, <3>1, RequestReaches, WriteReaches
  <2>2. ASSUME Reachable, UNCHANGED vars PROVE Reachable'
    BY <2>2 DEF vars, Reachable, Silent
  <2>. QED
    BY <2>1, <2>2
<1>3. Reachable => LiveIsNotified
  BY DEF Reachable, Silent, LiveIsNotified, Alive
<1>. QED
  BY <1>1, <1>2, <1>3, Invariance, PTL DEF Spec

-----------------------------------------------------------------------------
(* Requests one at a time *)

\* What a request read still holds: nobody writes between its read and its write.
Reads(r) ==
  r.m # 0 =>
    /\ r.pc = "resetting" => r.salt = merchants[r.m].salt
    /\ r.pc = "hooking" => merchants[r.m].secret \in {0, r.secret}
    /\ r.pc = "onboarding" => /\ r.secret = merchants[r.m].secret
                              /\ r.stripe = merchants[r.m].stripe
    /\ r.pc \in {"planning"} \cup Handing => r.key \in {0, merchants[r.m].key}
    /\ r.pc \in Handing => /\ r.secret \in {0, merchants[r.m].secret}
                           /\ r.stripe \in {0, merchants[r.m].stripe}

\* Every key and salt was made up once, and the salts a link has replaced are in
\* no row any more.
Drawn ==
  /\ fresh > 0
  /\ \A m \in DOMAIN merchants :
       merchants[m].key \in 1..fresh - 1 /\ merchants[m].salt \in 1..fresh - 1
  /\ \A m, n \in DOMAIN merchants :
       m # n => merchants[m].key # merchants[n].key /\ merchants[m].salt # merchants[n].salt
  /\ \A i \in DOMAIN resets :
       resets[i] < fresh /\ \A m \in DOMAIN merchants : resets[i] # merchants[m].salt
  /\ \A i, j \in DOMAIN resets : resets[i] = resets[j] => i = j

\* What a merchant was answered is what its row says, but for a key it has still to
\* learn.
Told ==
  \A m \in DOMAIN merchants :
    /\ held[m].lost \/ OnItsWay(m) \/ held[m].key \in {0, merchants[m].key}
    /\ held[m].secret \in {0, merchants[m].secret}
    /\ held[m].stripe \in {0, merchants[m].stripe}

SerialInv ==
  ~raced =>
    /\ \A g, h \in Busy : g = h
    /\ \A h \in Handlers : Reads(handler[h])
    /\ Drawn /\ Told

\* A secret or a Stripe account that is there stays.
Stays ==
  \A m \in DOMAIN merchants :
    /\ merchants[m].secret \in {0, merchants'[m].secret}
    /\ merchants[m].stripe \in {0, merchants'[m].stripe}

\* The types these proofs need.
LEMMA RowTypes ==
  ASSUME IInv
  PROVE  /\ merchants \in Seq(Merchant) /\ held \in Seq(Held) /\ resets \in Seq(Nat)
         /\ DOMAIN held = DOMAIN merchants
         /\ Len(merchants) \in Nat /\ DOMAIN merchants = 1..Len(merchants)
         /\ Len(held) = Len(merchants)
         /\ \A m \in DOMAIN merchants : merchants[m] \in Merchant /\ held[m] \in Held
         /\ \A i \in DOMAIN resets : resets[i] \in Nat
         /\ fresh \in Nat /\ handler \in [Handlers -> Local]
         /\ \A h \in Handlers : Carries(handler[h])
BY LenProperties, ElementOfSeq DEF IInv, Tables, Answers, Counters, Locals

\* The one request at work stays the only one.
LEMMA StillOne ==
  ASSUME IInv, \A g, k \in Busy : g = k, NEW h \in Busy, NEW c,
         handler' = [handler EXCEPT ![h] = c], Reads(c)'
  PROVE  /\ \A g, k \in Busy' : g = k
         /\ \A g \in Handlers : Reads(handler[g])'
<1>1. handler \in [Handlers -> Local] /\ h \in Handlers
  BY RowTypes DEF Busy
<1>2. ASSUME NEW g \in Handlers, g # h PROVE handler'[g].pc = "idle"
  BY <1>1, <1>2 DEF Busy, At
<1>3. ASSUME NEW g \in Handlers PROVE Reads(handler[g])'
  <2>1. CASE g = h
    BY <1>1, <2>1
  <2>2. CASE g # h
    BY <1>2, <2>2 DEF Reads, Handing
  <2>. QED
    BY <2>1, <2>2
<1>4. \A g, k \in Busy' : g = k
  BY <1>2 DEF Busy, At
<1>. QED
  BY <1>3, <1>4

\* A key on its way is with the one request at work.
LEMMA KeyWithIt ==
  ASSUME IInv, \A g, k \in Busy : g = k, NEW h \in Busy
  PROVE  \A n : OnItsWay(n) => handler[h].m = n /\ handler[h].key # 0
<1>. SUFFICES ASSUME NEW n, NEW g \in Handlers, handler[g].m = n, handler[g].key # 0
              PROVE  g = h
  BY DEF OnItsWay
<1>1. handler[g].pc # "idle"
  BY RowTypes DEF Carries, Handing
<1>. QED
  BY <1>1 DEF Busy, At

\* Rows that keep their keys, salts, secrets and accounts.
LEMMA RowsFrame ==
  ASSUME IInv, Drawn, DOMAIN merchants' = DOMAIN merchants,
         \A m \in DOMAIN merchants :
           /\ merchants'[m].key = merchants[m].key /\ merchants'[m].salt = merchants[m].salt
           /\ merchants'[m].secret = merchants[m].secret
           /\ merchants'[m].stripe = merchants[m].stripe
           /\ held'[m].lost \/ OnItsWay(m)' \/ held'[m].key \in {0, merchants[m].key}
           /\ held'[m].secret \in {0, merchants[m].secret}
           /\ held'[m].stripe \in {0, merchants[m].stripe},
         UNCHANGED resets, fresh' \in Nat, fresh' >= fresh
  PROVE  Drawn' /\ Told' /\ Stays
<1>1. fresh \in Nat /\ \A i \in DOMAIN resets : resets[i] \in Nat
  BY RowTypes
<1>2. \A m \in DOMAIN merchants :
        merchants'[m].key \in 1..fresh' - 1 /\ merchants'[m].salt \in 1..fresh' - 1
  <2>. SUFFICES ASSUME NEW m \in DOMAIN merchants
                PROVE  merchants'[m].key \in 1..fresh' - 1 /\ merchants'[m].salt \in 1..fresh' - 1
    OBVIOUS
  <2>1. merchants[m].key \in 1..fresh - 1 /\ merchants[m].salt \in 1..fresh - 1
    BY DEF Drawn
  <2>2. merchants'[m].key = merchants[m].key /\ merchants'[m].salt = merchants[m].salt
    OBVIOUS
  <2>. QED
    BY <1>1, <2>1, <2>2
<1>3. \A i \in DOMAIN resets : resets[i] < fresh'
  BY <1>1 DEF Drawn
<1>4. Drawn'
  BY <1>1, <1>2, <1>3 DEF Drawn
<1>5. Told' /\ Stays
  BY DEF Told, Stays
<1>. QED
  BY <1>4, <1>5

\* A written row: a key and a salt stay or are new, a secret and an account stay
\* once they are there, and the merchant knows of none but a key on its way.
LEMMA RowWritten ==
  ASSUME IInv, Drawn, Told, NEW m \in DOMAIN merchants, NEW row, NEW answer,
         merchants' = [merchants EXCEPT ![m] = row],
         held' = [held EXCEPT ![m] = answer], \A n : ~OnItsWay(n),
         fresh' \in Nat, fresh' >= fresh,
         row.key = merchants[m].key \/ (row.key = fresh /\ fresh' > fresh),
         row.salt = merchants[m].salt \/ (row.salt = fresh /\ fresh' > fresh),
         merchants[m].secret \in {0, row.secret}, merchants[m].stripe \in {0, row.stripe},
         answer.lost \/ OnItsWay(m)' \/ answer.key \in {0, row.key},
         answer.secret \in {0, row.secret}, answer.stripe \in {0, row.stripe},
         \/ UNCHANGED resets
         \/ resets' = Append(resets, merchants[m].salt) /\ row.salt = fresh
  PROVE  Drawn' /\ Told' /\ Stays
<1>1. /\ merchants \in Seq(Merchant) /\ held \in Seq(Held) /\ resets \in Seq(Nat)
      /\ DOMAIN held = DOMAIN merchants /\ fresh \in Nat
      /\ \A n \in DOMAIN merchants : merchants[n] \in Merchant
      /\ \A i \in DOMAIN resets : resets[i] \in Nat
  BY RowTypes
<1>2. /\ DOMAIN merchants' = DOMAIN merchants
      /\ merchants'[m] = row /\ held'[m] = answer
      /\ \A n \in DOMAIN merchants : n # m => merchants'[n] = merchants[n] /\ held'[n] = held[n]
  BY <1>1
<1>3. \A n \in DOMAIN merchants : /\ merchants[n].key \in 1..fresh - 1
                                  /\ merchants[n].salt \in 1..fresh - 1
  BY DEF Drawn
<1>4. \A n \in DOMAIN merchants' : /\ merchants'[n].key \in 1..fresh' - 1
                                   /\ merchants'[n].salt \in 1..fresh' - 1
  <2>. SUFFICES ASSUME NEW n \in DOMAIN merchants
                PROVE  merchants'[n].key \in 1..fresh' - 1 /\ merchants'[n].salt \in 1..fresh' - 1
    BY <1>2
  <2>0. fresh > 0
    BY DEF Drawn
  <2>1. CASE n = m
    <3>1. row.key \in 1..fresh' - 1
      BY <1>1, <1>3, <2>0
    <3>2. row.salt \in 1..fresh' - 1
      BY <1>1, <1>3, <2>0
    <3>. QED
      BY <1>2, <2>1, <3>1, <3>2
  <2>2. CASE n # m
    <3>1. merchants[n].key \in 1..fresh' - 1 /\ merchants[n].salt \in 1..fresh' - 1
      BY <1>1, <1>3
    <3>. QED
      BY <1>2, <2>2, <3>1
  <2>. QED
    BY <2>1, <2>2
<1>5. \A n \in DOMAIN merchants : n # m =>
        row.key # merchants[n].key /\ row.salt # merchants[n].salt
  <2>. SUFFICES ASSUME NEW n \in DOMAIN merchants, n # m
                PROVE  row.key # merchants[n].key /\ row.salt # merchants[n].salt
    OBVIOUS
  <2>1. merchants[m].key # merchants[n].key /\ merchants[m].salt # merchants[n].salt
    BY DEF Drawn
  <2>2. merchants[n].key # fresh /\ merchants[n].salt # fresh
    BY <1>1, <1>3
  <2>. QED
    BY <2>1, <2>2
<1>6. \A k, n \in DOMAIN merchants' : k # n =>
        merchants'[k].key # merchants'[n].key /\ merchants'[k].salt # merchants'[n].salt
  <2>. SUFFICES ASSUME NEW k \in DOMAIN merchants, NEW n \in DOMAIN merchants, k # n
                PROVE  /\ merchants'[k].key # merchants'[n].key
                       /\ merchants'[k].salt # merchants'[n].salt
    BY <1>2
  <2>1. CASE k = m
    BY <1>2, <1>5, <2>1
  <2>2. CASE n = m
    BY <1>2, <1>5, <2>2
  <2>3. CASE k # m /\ n # m
    <3>1. merchants[k].key # merchants[n].key /\ merchants[k].salt # merchants[n].salt
      BY DEF Drawn
    <3>. QED
      BY <1>2, <2>3, <3>1
  <2>. QED
    BY <2>1, <2>2, <2>3
<1>7. /\ \A i \in DOMAIN resets' :
           resets'[i] < fresh' /\ \A n \in DOMAIN merchants' : resets'[i] # merchants'[n].salt
      /\ \A i, j \in DOMAIN resets' : resets'[i] = resets'[j] => i = j
  <2>1. \A i \in DOMAIN resets :
          /\ resets[i] \in Nat /\ resets[i] < fresh
          /\ \A n \in DOMAIN merchants : resets[i] # merchants[n].salt
    BY <1>1 DEF Drawn
  <2>2. \A i, j \in DOMAIN resets : resets[i] = resets[j] => i = j
    BY DEF Drawn
  <2>3. ASSUME NEW i \in DOMAIN resets
        PROVE  /\ resets[i] < fresh'
               /\ \A n \in DOMAIN merchants' : resets[i] # merchants'[n].salt
    <3>1. resets[i] < fresh' /\ resets[i] # fresh /\ resets[i] # merchants[m].salt
      BY <1>1, <2>1
    <3>2. resets[i] # row.salt
      BY <3>1
    <3>3. \A n \in DOMAIN merchants' : resets[i] # merchants'[n].salt
      <4>. SUFFICES ASSUME NEW n \in DOMAIN merchants PROVE resets[i] # merchants'[n].salt
        BY <1>2
      <4>. QED
        BY <1>2, <2>1, <3>2
    <3>. QED
      BY <3>1, <3>3
  <2>4. CASE UNCHANGED resets
    BY <2>2, <2>3, <2>4
  <2>5. CASE resets' = Append(resets, merchants[m].salt) /\ row.salt = fresh
    <3>. DEFINE old == merchants[m].salt
    <3>1. old \in Nat /\ old < fresh /\ old < fresh'
      BY <1>1, <1>3
    <3>. HIDE DEF old
    <3>2. PICK l \in Nat : l = Len(resets) /\ DOMAIN resets = 1..l
      BY <1>1, LenProperties
    <3>3. /\ DOMAIN resets' = 1..l + 1 /\ resets'[l + 1] = old
          /\ \A i \in 1..l : resets'[i] = resets[i]
      BY <1>1, <2>5, <3>1, <3>2, AppendProperties DEF old
    <3>4. \A i \in DOMAIN resets' : i \in DOMAIN resets \/ i = l + 1
      BY <3>2, <3>3
    <3>5. \A n \in DOMAIN merchants' : old # merchants'[n].salt
      <4>. SUFFICES ASSUME NEW n \in DOMAIN merchants PROVE old # merchants'[n].salt
        BY <1>2
      <4>1. CASE n = m
        BY <1>1, <1>2, <2>5, <3>1, <4>1
      <4>2. CASE n # m
        <5>1. merchants[m].salt # merchants[n].salt
          BY <4>2 DEF Drawn
        <5>. QED
          BY <1>2, <4>2, <5>1 DEF old
      <4>. QED
        BY <4>1, <4>2
    <3>6. \A i \in DOMAIN resets' :
            resets'[i] < fresh' /\ \A n \in DOMAIN merchants' : resets'[i] # merchants'[n].salt
      BY <2>3, <3>1, <3>2, <3>3, <3>4, <3>5
    <3>7. \A i \in DOMAIN resets : resets[i] # old
      BY <2>1 DEF old
    <3>8. \A i, j \in DOMAIN resets' : resets'[i] = resets'[j] => i = j
      <4>. SUFFICES ASSUME NEW i \in DOMAIN resets', NEW j \in DOMAIN resets',
                           resets'[i] = resets'[j]
                    PROVE  i = j
        OBVIOUS
      <4>1. CASE i \in DOMAIN resets /\ j \in DOMAIN resets
        BY <2>2, <3>2, <3>3, <4>1
      <4>2. CASE i = l + 1 /\ j \in DOMAIN resets
        BY <3>2, <3>3, <3>7, <4>2
      <4>3. CASE i \in DOMAIN resets /\ j = l + 1
        BY <3>2, <3>3, <3>7, <4>3
      <4>. QED
        BY <3>4, <4>1, <4>2, <4>3
    <3>. QED
      BY <3>6, <3>8
  <2>. QED
    BY <2>4, <2>5
<1>8. fresh' > 0
  BY <1>1 DEF Drawn
<1>9. Told' /\ Stays
  BY <1>2 DEF Told, Stays
<1>. QED
  BY <1>4, <1>6, <1>7, <1>8, <1>9 DEF Drawn

\* A request that begins alone: it reads what is there, and tells nobody anything
\* but a token.
LEMMA BeginSerial ==
  ASSUME IInv, SerialInv, ~raced', NEW h \in Handlers, NEW r, Begin(h, r),
         r.pc \notin {"planning"} \cup Handing,
         r.m # 0 =>
           /\ r.pc = "resetting" => r.salt = merchants[r.m].salt
           /\ r.pc = "hooking" => merchants[r.m].secret \in {0, r.secret}
           /\ r.pc = "onboarding" => /\ r.secret = merchants[r.m].secret
                                     /\ r.stripe = merchants[r.m].stripe,
         \A n \in DOMAIN held : /\ held'[n].key = held[n].key
                                /\ held'[n].lost = held[n].lost
                                /\ held'[n].secret = held[n].secret
                                /\ held'[n].stripe = held[n].stripe,
         fresh' \in Nat, fresh' >= fresh
  PROVE  SerialInv' /\ Stays
<1>1. /\ UNCHANGED <<merchants, resets>> /\ ~raced /\ Busy = {}
      /\ handler' = [handler EXCEPT ![h] = r]
  BY DEF Begin
<1>2. handler \in [Handlers -> Local] /\ DOMAIN held = DOMAIN merchants
  BY RowTypes
<1>3. Drawn /\ Told
  BY <1>1 DEF SerialInv
<1>4. Drawn' /\ Told' /\ Stays
  <2>1. \A n \in DOMAIN merchants :
          /\ held'[n].lost \/ held'[n].key \in {0, merchants[n].key}
          /\ held'[n].secret \in {0, merchants[n].secret}
          /\ held'[n].stripe \in {0, merchants[n].stripe}
    <3>1. \A n : ~OnItsWay(n)
      BY <1>1, RowTypes DEF OnItsWay, Carries, Handing, Busy, At
    <3>. QED
      BY <1>2, <1>3, <3>1 DEF Told
  <2>. QED
    BY <1>1, <1>3, <2>1, RowsFrame
<1>5. \A g \in Handlers : g # h => handler'[g].pc = "idle"
  BY <1>1, <1>2 DEF Busy, At
<1>6. \A g, k \in Busy' : g = k
  BY <1>5 DEF Busy, At
<1>7. \A g \in Handlers : Reads(handler[g])'
  <2>1. handler'[h] = r
    BY <1>1, <1>2
  <2>. QED
    BY <1>1, <1>5, <2>1 DEF Reads, Handing
<1>. QED
  BY <1>4, <1>6, <1>7 DEF SerialInv

\* Every request, alone.
LEMMA RequestSerial ==
  ASSUME IInv, SerialInv, ~raced', NEW h \in Handlers, Request(h)
  PROVE  SerialInv' /\ Stays
<1>1. /\ fresh \in Nat /\ DOMAIN held = DOMAIN merchants
      /\ \A m \in DOMAIN merchants : merchants[m] \in Merchant /\ held[m] \in Held
  BY RowTypes
<1>2. ASSUME NEW r, Begin(h, r),
             r.pc \notin {"resetting", "hooking", "onboarding", "planning"} \cup Handing,
             UNCHANGED held, fresh' = fresh
      PROVE  SerialInv' /\ Stays
  BY <1>1, <1>2, BeginSerial
<1>3. ASSUME NEW e \in Emails, NEW w \in Words, NEW config, Signup(h, e, w, config)
      PROVE  SerialInv' /\ Stays
  BY <1>2, <1>3 DEF Signup, Idle, Handing
<1>4. ASSUME NEW e \in Emails, NEW w \in Words, Login(h, e, w)
      PROVE  SerialInv' /\ Stays
  <2>1. PICK m \in ByEmail(e) : Begin(h, Idle) /\ held' = [held EXCEPT ![m].token = TRUE]
    BY <1>4 DEF Login
  <2>2. \A n \in DOMAIN held : /\ held'[n].key = held[n].key
                               /\ held'[n].lost = held[n].lost
                               /\ held'[n].secret = held[n].secret
                               /\ held'[n].stripe = held[n].stripe
    <3>1. \A n \in DOMAIN held : n # m => held'[n] = held[n]
      BY <2>1
    <3>2. m \in DOMAIN held => held'[m] = [held[m] EXCEPT !.token = TRUE]
      BY <2>1
    <3>. QED
      BY <1>1, <3>1, <3>2 DEF Held
  <2>3. Idle.m = 0 /\ Idle.pc \notin {"planning"} \cup Handing /\ fresh' = fresh
    BY <1>4 DEF Idle, Handing, Login
  <2>. QED
    BY <1>1, <2>1, <2>2, <2>3, BeginSerial
<1>5. ASSUME NEW e \in Emails, Forgot(h, e)
      PROVE  SerialInv' /\ Stays
  BY <1>2, <1>5 DEF Forgot, Idle, Handing
<1>6. ASSUME NEW l \in links, NEW new \in Words, ResetPassword(h, l, new)
      PROVE  SerialInv' /\ Stays
  <2>1. PICK r : /\ r = [Reading("resetting", l.m) EXCEPT !.salt = l.print, !.word = new]
                 /\ Begin(h, r) /\ UNCHANGED <<held, fresh>>
    BY <1>6 DEF ResetPassword
  <2>2. r.pc = "resetting" /\ r.m = l.m /\ r.salt = l.print
    BY <2>1 DEF Reading, Idle
  <2>3. l.print = merchants[l.m].salt
    BY <1>6 DEF ResetPassword, LinkHolds, Fingerprint
  <2>4. fresh' \in Nat /\ fresh' >= fresh /\ held' = held
    BY <1>1, <2>1
  <2>. QED
    BY <2>1, <2>2, <2>3, <2>4, BeginSerial DEF Handing
<1>7. ASSUME NEW p, NEW field, NEW price, UpdatePlan(h, p, field, price)
      PROVE  SerialInv' /\ Stays
  BY <1>2, <1>7 DEF UpdatePlan, Reading, Idle, Handing
<1>8. ASSUME NEW m \in DOMAIN merchants, NEW url, SetWebhookUrl(h, m, url)
      PROVE  SerialInv' /\ Stays
  <2>1. PICK r : /\ r = [Reading("hooking", m) EXCEPT !.url = Trimmed(url), !.secret = Secret(m)]
                 /\ Begin(h, r) /\ UNCHANGED held /\ fresh' = fresh + 1
    BY <1>8 DEF SetWebhookUrl, Dashboard
  <2>2. r.pc = "hooking" /\ r.m = m /\ r.secret = Secret(m)
    BY <2>1 DEF Reading, Idle
  <2>3. merchants[m].secret \in {0, Secret(m)}
    BY DEF Secret
  <2>4. fresh' \in Nat /\ fresh' >= fresh
    BY <1>1, <2>1
  <2>. QED
    BY <2>1, <2>2, <2>3, <2>4, BeginSerial DEF Handing
<1>9. ASSUME NEW m \in DOMAIN merchants, StartConnectOnboarding(h, m)
      PROVE  SerialInv' /\ Stays
  <2>1. PICK r : /\ r = [Reading("onboarding", m) EXCEPT !.stripe = merchants[m].stripe,
                                                         !.secret = merchants[m].secret]
                 /\ Begin(h, r) /\ UNCHANGED <<held, fresh>>
    BY <1>9 DEF StartConnectOnboarding, Dashboard
  <2>2. /\ r.pc = "onboarding" /\ r.m = m
        /\ r.secret = merchants[m].secret /\ r.stripe = merchants[m].stripe
    BY <2>1 DEF Reading, Idle
  <2>3. fresh' \in Nat /\ fresh' >= fresh /\ held' = held
    BY <1>1, <2>1
  <2>. QED
    BY <2>1, <2>2, <2>3, BeginSerial DEF Handing
<1>10. ASSUME NEW m \in DOMAIN merchants,
              \/ \E current, new \in Words : ChangePassword(h, m, current, new)
              \/ \E config \in PlanInputs : CreatePlan(h, m, config)
              \/ RotateKey(h, m) \/ GoLive(h, m) \/ DeleteAccount(h, m)
       PROVE  SerialInv' /\ Stays
  <2>1. ASSUME NEW current, NEW new, ChangePassword(h, m, current, new)
        PROVE  SerialInv' /\ Stays
    BY <1>2, <2>1 DEF ChangePassword, Dashboard, Reading, Idle, Handing
  <2>2. ASSUME NEW config, CreatePlan(h, m, config) PROVE SerialInv' /\ Stays
    BY <1>2, <2>2 DEF CreatePlan, Reading, Idle, Handing
  <2>3. ASSUME NEW pc \in {"rotating", "going live", "deleting"},
               Begin(h, Reading(pc, m)), UNCHANGED <<held, fresh>>
        PROVE  SerialInv' /\ Stays
    <3>1. Reading(pc, m).pc \notin {"resetting", "hooking", "onboarding", "planning"} \cup Handing
      BY DEF Reading, Idle, Handing
    <3>. QED
      BY <1>2, <2>3, <3>1
  <2>4. CASE RotateKey(h, m)
    BY <2>3, <2>4 DEF RotateKey
  <2>5. CASE GoLive(h, m)
    BY <2>3, <2>5 DEF GoLive, Dashboard
  <2>6. CASE DeleteAccount(h, m)
    BY <2>3, <2>6 DEF DeleteAccount
  <2>. QED
    BY <1>10, <2>1, <2>2, <2>4, <2>5, <2>6
<1>. QED
  BY <1>3, <1>4, <1>5, <1>6, <1>7, <1>8, <1>9, <1>10 DEF Request

\* A new row has a key and a salt of its own.
LEMMA CreateSerial ==
  ASSUME IInv, Drawn, Told, NEW h \in Handlers, CreateMerchant(h), EmailFree(handler[h].email),
         \A n : ~OnItsWay(n)
  PROVE  Drawn' /\ Told' /\ Stays
<1>1. PICK row, answer :
        /\ merchants' = Append(merchants, row) /\ held' = Append(held, answer)
        /\ row.salt = fresh /\ row.key = fresh + 1
        /\ answer.key = 0 /\ answer.secret = 0 /\ answer.stripe = 0
        /\ fresh' = fresh + 2 /\ UNCHANGED resets
  BY DEF CreateMerchant, Nothing
<1>2. /\ fresh \in Nat /\ fresh > 0
      /\ \A i \in DOMAIN resets : resets[i] \in Nat
      /\ \A n \in DOMAIN merchants : merchants[n].key \in 1..fresh - 1
                                     /\ merchants[n].salt \in 1..fresh - 1
  BY RowTypes DEF Drawn
<1>3. PICK k \in Nat :
        /\ k = Len(merchants) + 1 /\ DOMAIN merchants' = DOMAIN merchants \cup {k}
        /\ k \notin DOMAIN merchants
        /\ merchants'[k] = row /\ held'[k] = answer
        /\ \A n \in DOMAIN merchants : merchants'[n] = merchants[n] /\ held'[n] = held[n]
  <2>. DEFINE k == Len(merchants) + 1
  <2>1. /\ Len(merchants) \in Nat /\ DOMAIN merchants = 1..Len(merchants)
        /\ Len(held) = Len(merchants) /\ DOMAIN held = DOMAIN merchants
    BY RowTypes
  <2>2. k \in Nat /\ k \notin DOMAIN merchants
    BY <2>1
  <2>3. DOMAIN merchants' = DOMAIN merchants \cup {k}
    BY <1>1, <2>1
  <2>4. /\ merchants'[k] = row /\ held'[k] = answer
        /\ \A n \in DOMAIN merchants : merchants'[n] = merchants[n] /\ held'[n] = held[n]
    BY <1>1, <2>1
  <2>. QED
    BY <2>2, <2>3, <2>4
<1>4. \A n \in DOMAIN merchants' : /\ merchants'[n].key \in 1..fresh' - 1
                                   /\ merchants'[n].salt \in 1..fresh' - 1
  <2>1. row.key \in 1..fresh' - 1 /\ row.salt \in 1..fresh' - 1
    BY <1>1, <1>2
  <2>2. 1..fresh - 1 \subseteq 1..fresh' - 1
    BY <1>1, <1>2
  <2>. QED
    BY <1>2, <1>3, <2>1, <2>2
<1>5. \A n \in DOMAIN merchants : row.key # merchants[n].key /\ row.salt # merchants[n].salt
  BY <1>1, <1>2
<1>6. \A m, n \in DOMAIN merchants' : m # n =>
        merchants'[m].key # merchants'[n].key /\ merchants'[m].salt # merchants'[n].salt
  <2>. SUFFICES ASSUME NEW m \in DOMAIN merchants', NEW n \in DOMAIN merchants', m # n
                PROVE  /\ merchants'[m].key # merchants'[n].key
                       /\ merchants'[m].salt # merchants'[n].salt
    OBVIOUS
  <2>1. CASE m = k
    BY <1>3, <1>5, <2>1
  <2>2. CASE n = k
    BY <1>3, <1>5, <2>2
  <2>3. CASE m # k /\ n # k
    <3>1. m \in DOMAIN merchants /\ n \in DOMAIN merchants
      BY <1>3, <2>3
    <3>2. merchants[m].key # merchants[n].key /\ merchants[m].salt # merchants[n].salt
      BY <3>1 DEF Drawn
    <3>. QED
      BY <1>3, <3>1, <3>2
  <2>. QED
    BY <2>1, <2>2, <2>3
<1>7. \A i \in DOMAIN resets :
        resets[i] < fresh' /\ \A n \in DOMAIN merchants' : resets[i] # merchants'[n].salt
  <2>. SUFFICES ASSUME NEW i \in DOMAIN resets
                PROVE  /\ resets[i] < fresh'
                       /\ \A n \in DOMAIN merchants' : resets[i] # merchants'[n].salt
    OBVIOUS
  <2>1. resets[i] < fresh /\ resets[i] \in Nat
        /\ \A n \in DOMAIN merchants : resets[i] # merchants[n].salt
    BY <1>2 DEF Drawn
  <2>2. resets[i] # row.salt /\ resets[i] < fresh'
    BY <1>1, <1>2, <2>1
  <2>. QED
    BY <1>3, <2>1, <2>2
<1>8. Drawn'
  <2>1. fresh' > 0
    BY <1>1, <1>2
  <2>2. \A i, j \in DOMAIN resets : resets[i] = resets[j] => i = j
    BY DEF Drawn
  <2>. QED
    BY <1>1, <1>4, <1>6, <1>7, <2>1, <2>2 DEF Drawn
<1>9. Told'
  <2>. SUFFICES ASSUME NEW n \in DOMAIN merchants'
                PROVE  /\ held'[n].lost \/ held'[n].key \in {0, merchants'[n].key}
                       /\ held'[n].secret \in {0, merchants'[n].secret}
                       /\ held'[n].stripe \in {0, merchants'[n].stripe}
    BY DEF Told
  <2>1. CASE n = k
    BY <1>1, <1>3, <2>1
  <2>2. CASE n \in DOMAIN merchants
    BY <1>3, <2>2 DEF Told
  <2>. QED
    BY <1>3, <2>1, <2>2
<1>10. Stays
  BY <1>3 DEF Stays
<1>. QED
  BY <1>8, <1>9, <1>10

\* A step of a request is one of a request at work, and goes on no record.
LEMMA StepOfBusy ==
  ASSUME NEW h \in Handlers, HandlerStep(h)
  PROVE  h \in Busy /\ raced' = raced
<1>1. CASE CreateMerchant(h) \/ FirstPlan(h) \/ WritePassword(h) \/ WriteKey(h)
  BY <1>1 DEF CreateMerchant, FirstPlan, WritePassword, WriteKey, Limits, Busy, At
<1>2. CASE WriteWebhook(h) \/ WriteAccount(h) \/ Answer(h) \/ WriteLive(h)
  BY <1>2 DEF WriteWebhook, WriteAccount, Answer, WriteLive, Limits, Busy, At
<1>3. CASE InsertPlan(h) \/ WritePlan(h) \/ DeleteMerchant(h)
  BY <1>3 DEF InsertPlan, WritePlan, DeleteMerchant, Limits, Busy, At
<1>4. CASE HandlerDies(h)
  BY <1>4 DEF HandlerDies
<1>. QED
  BY <1>1, <1>2, <1>3, <1>4 DEF HandlerStep

\* Every request begins, and goes on record if another is at work.
LEMMA RequestBegins ==
  ASSUME NEW h \in Handlers, Request(h)
  PROVE  raced' = (raced \/ Busy # {})
<1>1. \A r : Begin(h, r) => raced' = (raced \/ Busy # {})
  BY DEF Begin
<1>2. ASSUME NEW e, NEW w,
             (\E config : Signup(h, e, w, config)) \/ Login(h, e, w) \/ Forgot(h, e)
      PROVE  raced' = (raced \/ Busy # {})
  BY <1>1, <1>2 DEF Signup, Login, Forgot
<1>3. ASSUME NEW l, NEW new, ResetPassword(h, l, new)
      PROVE  raced' = (raced \/ Busy # {})
  BY <1>1, <1>3 DEF ResetPassword
<1>4. ASSUME NEW m,
             \/ \E current, new : ChangePassword(h, m, current, new)
             \/ \E url : SetWebhookUrl(h, m, url)
             \/ \E config : CreatePlan(h, m, config)
             \/ RotateKey(h, m) \/ StartConnectOnboarding(h, m) \/ GoLive(h, m)
             \/ DeleteAccount(h, m)
      PROVE  raced' = (raced \/ Busy # {})
  BY <1>1, <1>4 DEF ChangePassword, SetWebhookUrl, CreatePlan, RotateKey,
                    StartConnectOnboarding, GoLive, DeleteAccount, Dashboard
<1>5. ASSUME NEW p, NEW field, NEW price, UpdatePlan(h, p, field, price)
      PROVE  raced' = (raced \/ Busy # {})
  BY <1>1, <1>5 DEF UpdatePlan
<1>. QED
  BY <1>2, <1>3, <1>4, <1>5 DEF Request

\* Every write, alone.
LEMMA WriteSerial ==
  ASSUME IInv, SerialInv, ~raced, NEW h \in Handlers, HandlerStep(h)
  PROVE  SerialInv' /\ Stays
<1>. DEFINE r == handler[h]
            m == handler[h].m
<1>1. /\ fresh \in Nat /\ DOMAIN held = DOMAIN merchants
      /\ r \in Local /\ Carries(r) /\ handler \in [Handlers -> Local]
      /\ \A n \in DOMAIN merchants : merchants[n] \in Merchant /\ held[n] \in Held
  BY RowTypes
<1>2. /\ \A g, k \in Busy : g = k
      /\ Drawn /\ Told /\ Reads(r) /\ fresh > 0
  BY DEF SerialInv, Drawn
<1>3. h \in Busy /\ ~raced'
  BY StepOfBusy
<1>4. Alive \subseteq DOMAIN merchants /\ 0 \notin Alive
  <2>1. DOMAIN merchants = 1..Len(merchants) /\ Len(merchants) \in Nat
    BY RowTypes
  <2>. QED
    BY <2>1 DEF Alive
<1>5. ASSUME NEW c, handler' = [handler EXCEPT ![h] = c], Reads(c)', Drawn', Told'
      PROVE  SerialInv'
  BY <1>2, <1>3, <1>5, StillOne DEF SerialInv
<1>6. ASSUME Finish(h), Drawn', Told' PROVE SerialInv'
  <2>1. Reads(Idle)'
    BY DEF Reads, Idle
  <2>. QED
    BY <1>5, <1>6, <2>1 DEF Finish
<1>7. \A n : OnItsWay(n) => m = n /\ r.key # 0
  BY <1>2, <1>3, KeyWithIt
<1>17. r.pc \notin {"planning"} \cup Handing => r.key = 0 /\ \A n : ~OnItsWay(n)
  BY <1>1, <1>7 DEF Carries
<1>18. ASSUME Finish(h), r.pc \notin {"planning"} \cup Handing,
              UNCHANGED <<merchants, held, resets>>, fresh' \in Nat, fresh' >= fresh
       PROVE  SerialInv' /\ Stays
  <2>1. \A n : ~OnItsWay(n)
    BY <1>17, <1>18
  <2>2. Drawn' /\ Told' /\ Stays
    BY <1>2, <1>18, <2>1, RowsFrame DEF Told
  <2>. QED
    BY <1>6, <1>18, <2>2
<1>19. CASE InsertPlan(h) \/ WritePlan(h)
  <2>1. /\ Finish(h) /\ UNCHANGED <<merchants, held, resets, fresh>>
        /\ r.pc \notin {"planning"} \cup Handing
    BY <1>19 DEF InsertPlan, WritePlan, At, Handing
  <2>. QED
    BY <1>1, <1>18, <2>1
<1>8. CASE WritePassword(h)
  <2>. DEFINE row == Hashed(merchants[m], r.word)
  <2>1. /\ merchants' = Update(m, row) /\ UNCHANGED held /\ fresh' = fresh + 1 /\ Finish(h)
        /\ resets' = IF At(h, "resetting") /\ m \in Alive THEN Append(resets, r.salt) ELSE resets
        /\ r.pc \notin {"planning"} \cup Handing
    BY <1>8 DEF WritePassword, At, Handing
  <2>2. fresh' \in Nat /\ fresh' > fresh /\ \A n : ~OnItsWay(n)
    BY <1>1, <1>17, <2>1
  <2>3. CASE m \notin Alive
    <3>1. UNCHANGED <<merchants, held, resets>>
      BY <2>1, <2>3 DEF Update
    <3>2. /\ Finish(h) /\ fresh' \in Nat /\ fresh' >= fresh
          /\ r.pc \notin {"planning"} \cup Handing
      BY <1>1, <2>1
    <3>. QED
      BY <1>18, <3>1, <3>2
  <2>4. CASE m \in Alive
    <3>1. m \in DOMAIN merchants /\ m # 0 /\ merchants[m] \in Merchant /\ held[m] \in Held
      BY <1>1, <1>4, <2>4
    <3>2. /\ row.key = merchants[m].key /\ row.salt = fresh
          /\ row.secret = merchants[m].secret /\ row.stripe = merchants[m].stripe
      BY <3>1 DEF Hashed, Merchant
    <3>3. UNCHANGED resets \/ resets' = Append(resets, merchants[m].salt)
      BY <1>2, <2>1, <3>1 DEF Reads, At
    <3>4. merchants' = [merchants EXCEPT ![m] = row] /\ held' = [held EXCEPT ![m] = held[m]]
      BY <1>1, <2>1, <2>4, <3>1, RowTypes DEF Update
    <3>5. /\ held[m].lost \/ held[m].key \in {0, row.key}
          /\ held[m].secret \in {0, row.secret} /\ held[m].stripe \in {0, row.stripe}
      BY <1>2, <2>2, <3>1, <3>2 DEF Told
    <3>. HIDE DEF row
    <3>6. /\ merchants[m].secret \in {0, row.secret} /\ merchants[m].stripe \in {0, row.stripe}
          /\ UNCHANGED resets \/ (resets' = Append(resets, merchants[m].salt) /\ row.salt = fresh)
          /\ fresh' \in Nat /\ fresh' >= fresh
      BY <1>1, <2>2, <3>2, <3>3
    <3>7. Drawn' /\ Told' /\ Stays
      BY <1>2, <2>2, <3>1, <3>2, <3>4, <3>5, <3>6, RowWritten
    <3>. QED
      BY <1>6, <2>1, <3>7
  <2>. QED
    BY <2>3, <2>4
<1>9. CASE WriteKey(h)
  <2>. DEFINE row == [merchants[m] EXCEPT !.key = fresh]
  <2>1. /\ merchants' = Update(m, row) /\ fresh' = fresh + 1 /\ UNCHANGED <<held, resets>>
        /\ r.pc \notin {"planning"} \cup Handing
    BY <1>9 DEF WriteKey, At, Handing
  <2>2. fresh' \in Nat /\ fresh' > fresh /\ fresh' >= fresh /\ \A n : ~OnItsWay(n)
    BY <1>1, <1>17, <2>1
  <2>3. CASE m \notin Alive
    <3>1. UNCHANGED <<merchants, held, resets>>
      BY <2>1, <2>3 DEF Update
    <3>2. Finish(h)
      <4>1. PICK c : c = [Reading("answering", m) EXCEPT !.key = fresh] /\ Hand(h, c)
        BY <1>9 DEF WriteKey
      <4>2. c.m = m
        BY <4>1 DEF Reading, Idle
      <4>. QED
        BY <2>3, <4>1, <4>2 DEF Hand, Finish
    <3>. QED
      BY <1>18, <2>1, <2>2, <3>1, <3>2
  <2>4. CASE m \in Alive
    <3>0. PICK z : z = m
      OBVIOUS
    <3>1. z \in DOMAIN merchants /\ merchants[z] \in Merchant /\ held[z] \in Held
      BY <1>1, <1>4, <2>4, <3>0
    <3>2. /\ row.key = fresh /\ row.salt = merchants[z].salt
          /\ row.secret = merchants[z].secret /\ row.stripe = merchants[z].stripe
      BY <3>0, <3>1 DEF Merchant
    <3>3. merchants' = [merchants EXCEPT ![z] = row] /\ held' = [held EXCEPT ![z] = held[z]]
      BY <1>1, <2>1, <2>4, <3>0, <3>1, RowTypes DEF Update
    <3>4. PICK c : /\ handler' = [handler EXCEPT ![h] = c]
                   /\ c.m = z /\ c.key = fresh /\ c.secret = 0 /\ c.stripe = 0
                   /\ c.pc = "answering"
      <4>1. PICK c : c = [Reading("answering", z) EXCEPT !.key = fresh] /\ Hand(h, c)
        BY <1>9, <3>0 DEF WriteKey
      <4>2. /\ c.m = z /\ c.key = fresh /\ c.secret = 0 /\ c.stripe = 0
            /\ c.pc = "answering"
        BY <4>1 DEF Reading, Idle
      <4>3. handler' = [handler EXCEPT ![h] = c]
        BY <2>4, <3>0, <4>1, <4>2 DEF Hand
      <4>. QED
        BY <4>2, <4>3
    <3>5. OnItsWay(z)'
      <4>1. handler'[h] = c
        BY <1>1, <3>4
      <4>2. handler'[h].m = z /\ handler'[h].key # 0
        BY <1>2, <3>4, <4>1
      <4>. QED
        BY <4>2 DEF OnItsWay
    <3>6. held[z].secret \in {0, row.secret} /\ held[z].stripe \in {0, row.stripe}
      BY <1>2, <3>1, <3>2 DEF Told
    <3>7. merchants'[z].key = fresh
      BY <3>1, <3>2, <3>3
    <3>. HIDE DEF row
    <3>8. /\ merchants[z].secret \in {0, row.secret} /\ merchants[z].stripe \in {0, row.stripe}
          /\ row.key = merchants[z].key \/ (row.key = fresh /\ fresh' > fresh)
          /\ row.salt = merchants[z].salt \/ (row.salt = fresh /\ fresh' > fresh)
          /\ UNCHANGED resets
      BY <1>1, <2>1, <2>2, <3>2
    <3>9. Drawn' /\ Told' /\ Stays
      BY <1>2, <2>2, <3>1, <3>3, <3>5, <3>6, <3>8, RowWritten
    <3>10. Reads(c)'
      BY <3>4, <3>7 DEF Reads, Handing
    <3>. QED
      BY <1>5, <3>4, <3>9, <3>10
  <2>. QED
    BY <2>3, <2>4
<1>10. CASE WriteWebhook(h)
  <2>. DEFINE row == [merchants[m] EXCEPT !.url = r.url, !.secret = r.secret]
              noted == [held[m] EXCEPT !.cleared = (r.url = NoUrl)]
  <2>1. /\ merchants' = Update(m, row) /\ UNCHANGED <<resets, fresh>>
        /\ held' = IF m \in Alive THEN [held EXCEPT ![m] = noted] ELSE held
        /\ r.pc = "hooking" /\ r.pc \notin {"planning"} \cup Handing
    BY <1>10 DEF WriteWebhook, At, Handing
  <2>2. fresh' \in Nat /\ fresh' >= fresh /\ \A n : ~OnItsWay(n)
    BY <1>1, <1>17, <2>1
  <2>3. CASE m \notin Alive
    <3>1. UNCHANGED <<merchants, held, resets>>
      BY <2>1, <2>3 DEF Update
    <3>2. Finish(h)
      <4>1. PICK c : c = [Reading("answering", m) EXCEPT !.secret = r.secret] /\ Hand(h, c)
        BY <1>10 DEF WriteWebhook
      <4>2. c.m = m
        BY <4>1 DEF Reading, Idle
      <4>. QED
        BY <2>3, <4>1, <4>2 DEF Hand, Finish
    <3>. QED
      BY <1>18, <2>1, <2>2, <3>1, <3>2
  <2>4. CASE m \in Alive
    <3>1. m \in DOMAIN merchants /\ m # 0 /\ merchants[m] \in Merchant /\ held[m] \in Held
      BY <1>1, <1>4, <2>4
    <3>2. /\ row.key = merchants[m].key /\ row.salt = merchants[m].salt
          /\ row.secret = r.secret /\ row.stripe = merchants[m].stripe
      BY <3>1 DEF Merchant
    <3>3. /\ noted.key = held[m].key /\ noted.secret = held[m].secret
          /\ noted.stripe = held[m].stripe /\ noted.lost = held[m].lost
      BY <3>1 DEF Held
    <3>4. merchants' = [merchants EXCEPT ![m] = row] /\ held' = [held EXCEPT ![m] = noted]
      BY <2>1, <2>4 DEF Update
    <3>5. merchants[m].secret \in {0, row.secret}
      BY <1>2, <2>1, <3>1, <3>2 DEF Reads
    <3>6. /\ noted.lost \/ noted.key \in {0, row.key}
          /\ noted.secret \in {0, row.secret} /\ noted.stripe \in {0, row.stripe}
      BY <1>2, <2>2, <3>1, <3>2, <3>3, <3>5 DEF Told
    <3>7. PICK c : /\ handler' = [handler EXCEPT ![h] = c]
                   /\ c.m = m /\ c.key = 0 /\ c.secret = r.secret /\ c.stripe = 0
                   /\ c.pc = "answering"
      <4>1. PICK c : c = [Reading("answering", m) EXCEPT !.secret = r.secret] /\ Hand(h, c)
        BY <1>10 DEF WriteWebhook
      <4>2. /\ c.m = m /\ c.key = 0 /\ c.secret = r.secret /\ c.stripe = 0
            /\ c.pc = "answering"
        BY <4>1 DEF Reading, Idle
      <4>3. handler' = [handler EXCEPT ![h] = c]
        BY <2>4, <4>1, <4>2 DEF Hand
      <4>. QED
        BY <4>2, <4>3
    <3>8. merchants'[m].secret = r.secret
      BY <3>1, <3>2, <3>4
    <3>. HIDE DEF row, noted
    <3>9. Drawn' /\ Told' /\ Stays
      BY <1>2, <2>1, <2>2, <3>1, <3>2, <3>4, <3>5, <3>6, RowWritten
    <3>10. Reads(c)'
      BY <3>7, <3>8 DEF Reads, Handing
    <3>. QED
      BY <1>5, <3>7, <3>9, <3>10
  <2>. QED
    BY <2>3, <2>4
<1>11. CASE WriteAccount(h)
  <2>. DEFINE stripe == IF Account(r.stripe) # r.stripe THEN Account(r.stripe)
                        ELSE merchants[m].stripe
              secret == IF r.secret = 0 THEN fresh + 1 ELSE merchants[m].secret
              row    == [merchants[m] EXCEPT !.stripe = stripe, !.secret = secret]
  <2>1. /\ merchants' = Update(m, row) /\ fresh' = fresh + 2 /\ UNCHANGED <<held, resets>>
        /\ r.pc = "onboarding" /\ r.pc \notin {"planning"} \cup Handing
    BY <1>11 DEF WriteAccount, At, Handing
  <2>2. fresh' \in Nat /\ fresh' >= fresh /\ \A n : ~OnItsWay(n)
    BY <1>1, <1>17, <2>1
  <2>3. CASE m \notin Alive
    <3>1. UNCHANGED <<merchants, held, resets>>
      BY <2>1, <2>3 DEF Update
    <3>2. Finish(h)
      <4>1. PICK c : c = [Reading("answering", m) EXCEPT !.stripe = Account(r.stripe)] /\ Hand(h, c)
        BY <1>11 DEF WriteAccount
      <4>2. c.m = m
        BY <4>1 DEF Reading, Idle
      <4>. QED
        BY <2>3, <4>1, <4>2 DEF Hand, Finish
    <3>. QED
      BY <1>18, <2>1, <2>2, <3>1, <3>2
  <2>4. CASE m \in Alive
    <3>1. m \in DOMAIN merchants /\ m # 0 /\ merchants[m] \in Merchant /\ held[m] \in Held
      BY <1>1, <1>4, <2>4
    <3>2. r.secret = merchants[m].secret /\ r.stripe = merchants[m].stripe
      BY <1>2, <2>1, <3>1 DEF Reads
    <3>3. /\ stripe = Account(r.stripe) /\ merchants[m].stripe \in {0, stripe}
          /\ merchants[m].secret \in {0, secret}
      BY <3>2 DEF Account
    <3>. HIDE DEF stripe, secret
    <3>4. /\ row.key = merchants[m].key /\ row.salt = merchants[m].salt
          /\ row.secret = secret /\ row.stripe = stripe
      BY <3>1 DEF Merchant
    <3>5. merchants' = [merchants EXCEPT ![m] = row] /\ held' = [held EXCEPT ![m] = held[m]]
      BY <1>1, <2>1, <2>4, <3>1, RowTypes DEF Update
    <3>6. /\ held[m].lost \/ held[m].key \in {0, row.key}
          /\ held[m].secret \in {0, row.secret} /\ held[m].stripe \in {0, row.stripe}
      BY <1>2, <2>2, <3>1, <3>3, <3>4 DEF Told
    <3>7. merchants[m].secret \in {0, row.secret} /\ merchants[m].stripe \in {0, row.stripe}
      BY <3>3, <3>4
    <3>8. PICK c : /\ handler' = [handler EXCEPT ![h] = c]
                   /\ c.m = m /\ c.key = 0 /\ c.secret = 0 /\ c.stripe = Account(r.stripe)
                   /\ c.pc = "answering"
      <4>1. PICK c : c = [Reading("answering", m) EXCEPT !.stripe = Account(r.stripe)] /\ Hand(h, c)
        BY <1>11 DEF WriteAccount
      <4>2. /\ c.m = m /\ c.key = 0 /\ c.secret = 0 /\ c.stripe = Account(r.stripe)
            /\ c.pc = "answering"
        BY <4>1 DEF Reading, Idle
      <4>3. handler' = [handler EXCEPT ![h] = c]
        BY <2>4, <4>1, <4>2 DEF Hand
      <4>. QED
        BY <4>2, <4>3
    <3>9. merchants'[m].stripe = Account(r.stripe)
      BY <3>1, <3>3, <3>4, <3>5
    <3>. HIDE DEF row
    <3>10. Drawn' /\ Told' /\ Stays
      BY <1>2, <2>1, <2>2, <3>1, <3>4, <3>5, <3>6, <3>7, RowWritten
    <3>11. Reads(c)'
      BY <3>8, <3>9 DEF Reads, Handing
    <3>. QED
      BY <1>5, <3>8, <3>10, <3>11
  <2>. QED
    BY <2>3, <2>4
<1>12. ASSUME Finish(h), UNCHANGED <<held, resets, fresh>>, m \in DOMAIN merchants, NEW row,
              r.pc \notin {"planning"} \cup Handing,
              merchants' = [merchants EXCEPT ![m] = row],
              row.key = merchants[m].key, row.salt = merchants[m].salt,
              row.secret = merchants[m].secret, row.stripe = merchants[m].stripe
       PROVE  SerialInv' /\ Stays
  <2>1. \A n : ~OnItsWay(n)
    BY <1>12, <1>17
  <2>2. Drawn' /\ Told' /\ Stays
    BY <1>1, <1>2, <1>12, <2>1, RowsFrame DEF Told
  <2>. QED
    BY <1>6, <1>12, <2>2
<1>13. CASE WriteLive(h)
  <2>0. r.pc \notin {"planning"} \cup Handing
    BY <1>13 DEF WriteLive, At, Handing
  <2>1. CASE m \notin Alive
    <3>1. UNCHANGED <<merchants, held, resets, fresh>> /\ Finish(h)
      BY <1>13, <2>1 DEF WriteLive, Update
    <3>. QED
      BY <1>1, <1>18, <2>0, <3>1
  <2>2. CASE m \in Alive
    <3>1. PICK row : /\ row = [merchants[m] EXCEPT !.live = TRUE]
                     /\ merchants' = [merchants EXCEPT ![m] = row]
                     /\ Finish(h) /\ UNCHANGED <<held, resets, fresh>>
      BY <1>13, <2>2 DEF WriteLive, Update
    <3>2. m \in DOMAIN merchants /\ merchants[m] \in Merchant
      BY <1>1, <1>4, <2>2
    <3>3. /\ row.key = merchants[m].key /\ row.salt = merchants[m].salt
          /\ row.secret = merchants[m].secret /\ row.stripe = merchants[m].stripe
      BY <3>1, <3>2 DEF Merchant
    <3>. QED
      BY <1>12, <2>0, <3>1, <3>2, <3>3
  <2>. QED
    BY <2>1, <2>2
<1>14. CASE DeleteMerchant(h)
  <2>1. PICK row : /\ row = [merchants[m] EXCEPT !.alive = FALSE]
                   /\ merchants' = [merchants EXCEPT ![m] = row]
                   /\ Finish(h) /\ UNCHANGED <<held, resets, fresh>>
    BY <1>14 DEF DeleteMerchant
  <2>2. m \in DOMAIN merchants /\ merchants[m] \in Merchant
    <3>1. m # 0 /\ m \in {0} \cup DOMAIN merchants
      BY <1>1, <1>14 DEF DeleteMerchant, At, Carries
    <3>. QED
      BY <1>1, <3>1
  <2>3. /\ row.key = merchants[m].key /\ row.salt = merchants[m].salt
        /\ row.secret = merchants[m].secret /\ row.stripe = merchants[m].stripe
    BY <2>1, <2>2 DEF Merchant
  <2>4. r.pc \notin {"planning"} \cup Handing
    BY <1>14 DEF DeleteMerchant, At, Handing
  <2>. QED
    BY <1>12, <2>1, <2>2, <2>3, <2>4
<1>15. CASE FirstPlan(h)
  <2>1. PICK c : /\ handler' = [handler EXCEPT ![h] = c]
                 /\ c.pc = "welcoming" /\ c.m = m /\ c.key = r.key
                 /\ c.secret = 0 /\ c.stripe = 0
    <3>1. PICK c : /\ c = [Reading("welcoming", m) EXCEPT !.key = r.key]
                   /\ handler' = [handler EXCEPT ![h] = c]
      BY <1>15 DEF FirstPlan
    <3>2. c.pc = "welcoming" /\ c.m = m /\ c.key = r.key /\ c.secret = 0 /\ c.stripe = 0
      BY <3>1 DEF Reading, Idle
    <3>. QED
      BY <3>1, <3>2
  <2>2. UNCHANGED <<merchants, held, resets, fresh>> /\ r.pc = "planning"
    BY <1>15 DEF FirstPlan, At
  <2>3. \A n : OnItsWay(n) => OnItsWay(n)'
    <3>1. handler'[h] = c
      BY <1>1, <2>1
    <3>. QED
      BY <1>7, <2>1, <3>1 DEF OnItsWay
  <2>4. Drawn' /\ Told' /\ Stays
    BY <1>1, <1>2, <2>2, <2>3, RowsFrame DEF Told
  <2>5. Reads(c)'
    BY <1>2, <2>1, <2>2 DEF Reads, Handing
  <2>. QED
    BY <1>5, <2>1, <2>4, <2>5
<1>16. CASE Answer(h)
  <2>. DEFINE a == [held[m] EXCEPT !.token  = @ \/ At(h, "welcoming"),
                                   !.key    = IF r.key # 0 THEN r.key ELSE @,
                                   !.secret = IF r.secret # 0 THEN r.secret ELSE @,
                                   !.stripe = IF r.stripe # 0 THEN r.stripe ELSE @,
                                   !.lost   = @ /\ r.key = 0]
  <2>1. held' = [held EXCEPT ![m] = a]
    BY <1>16 DEF Answer
  <2>2. /\ Finish(h) /\ UNCHANGED <<merchants, resets, fresh>> /\ r.pc \in Handing
    BY <1>16 DEF Answer, At, Handing
  <2>3. m \in DOMAIN merchants /\ m # 0 /\ held[m] \in Held
    BY <1>1, <2>2 DEF Carries
  <2>4. /\ a.key = IF r.key # 0 THEN r.key ELSE held[m].key
        /\ a.secret = IF r.secret # 0 THEN r.secret ELSE held[m].secret
        /\ a.stripe = IF r.stripe # 0 THEN r.stripe ELSE held[m].stripe
        /\ r.key = 0 => a.lost = held[m].lost
    BY <2>3 DEF Held
  <2>. HIDE DEF a
  <2>5. /\ r.key \in {0, merchants[m].key} /\ r.secret \in {0, merchants[m].secret}
        /\ r.stripe \in {0, merchants[m].stripe}
    BY <1>2, <2>2, <2>3 DEF Reads
  <2>6. /\ a.lost \/ a.key \in {0, merchants[m].key}
        /\ a.secret \in {0, merchants[m].secret} /\ a.stripe \in {0, merchants[m].stripe}
    BY <1>2, <1>7, <2>3, <2>4, <2>5 DEF Told
  <2>7. \A n \in DOMAIN merchants :
          /\ held'[n].lost \/ held'[n].key \in {0, merchants[n].key}
          /\ held'[n].secret \in {0, merchants[n].secret}
          /\ held'[n].stripe \in {0, merchants[n].stripe}
    BY <1>1, <1>2, <1>7, <2>1, <2>6 DEF Told
  <2>8. Drawn' /\ Told' /\ Stays
    BY <1>1, <1>2, <2>2, <2>7, RowsFrame
  <2>. QED
    BY <1>6, <2>2, <2>8
<1>20. CASE HandlerDies(h)
  <2>1. Finish(h) /\ UNCHANGED <<merchants, resets, fresh>>
    BY <1>20 DEF HandlerDies
  <2>2. \A n \in DOMAIN merchants :
          /\ held'[n].lost \/ held'[n].key \in {0, merchants[n].key}
          /\ held'[n].secret \in {0, merchants[n].secret}
          /\ held'[n].stripe \in {0, merchants[n].stripe}
    <3>1. CASE r.key = 0
      BY <1>2, <1>7, <1>20, <3>1 DEF HandlerDies, Told
    <3>2. CASE r.key # 0
      <4>1. PICK a : a = [held[m] EXCEPT !.lost = TRUE] /\ held' = [held EXCEPT ![m] = a]
        BY <1>20, <3>2 DEF HandlerDies
      <4>2. m \in DOMAIN merchants =>
              a.lost /\ a.secret = held[m].secret /\ a.stripe = held[m].stripe
        BY <1>1, <4>1 DEF Held
      <4>. QED
        BY <1>1, <1>2, <1>7, <4>1, <4>2 DEF Told
    <3>. QED
      BY <3>1, <3>2
  <2>3. Drawn' /\ Told' /\ Stays
    BY <1>1, <1>2, <2>1, <2>2, RowsFrame
  <2>. QED
    BY <1>6, <2>1, <2>3
<1>21. CASE CreateMerchant(h)
  <2>0. r.pc \notin {"planning"} \cup Handing /\ r.pc = "creating"
    BY <1>21 DEF CreateMerchant, At, Handing
  <2>1. CASE ~EmailFree(r.email)
    BY <1>1, <1>18, <1>21, <2>0, <2>1 DEF CreateMerchant
  <2>2. CASE EmailFree(r.email)
    <3>0. \A n : ~OnItsWay(n)
      BY <1>17, <2>0
    <3>1. Drawn' /\ Told' /\ Stays
      BY <1>2, <1>21, <2>2, <3>0, CreateSerial
    <3>2. PICK c : /\ handler' = [handler EXCEPT ![h] = c]
                   /\ c = [r EXCEPT !.pc = "planning", !.m = Len(merchants) + 1,
                                    !.key = fresh + 1]
      BY <1>1, <1>21, <2>2 DEF CreateMerchant
    <3>3. c.pc = "planning" /\ c.m = Len(merchants) + 1 /\ c.key = fresh + 1
      BY <1>1, <3>2 DEF Local
    <3>4. merchants'[Len(merchants) + 1].key = fresh + 1
      <4>1. PICK row : merchants' = Append(merchants, row) /\ row.key = fresh + 1
        BY <1>21, <2>2 DEF CreateMerchant
      <4>. QED
        BY <4>1, RowTypes
    <3>5. Reads(c)'
      BY <3>3, <3>4 DEF Reads, Handing
    <3>. QED
      BY <1>5, <3>1, <3>2, <3>5
  <2>. QED
    BY <2>1, <2>2
<1>. QED
  BY <1>8, <1>9, <1>10, <1>11, <1>13, <1>14, <1>15, <1>16, <1>19, <1>20, <1>21 DEF HandlerStep

\* Every step keeps it; a request that found another at work is on record.
LEMMA SerialStep ==
  ASSUME IInv, SerialInv, [Next]_vars
  PROVE  SerialInv' /\ (~raced' => Stays)
<1>1. CASE UNCHANGED vars
  BY <1>1 DEF vars, SerialInv, Busy, At, Reads, Drawn, Told, OnItsWay, Stays
<1>2. ASSUME NEW h \in Handlers, Request(h) \/ HandlerStep(h), ~raced'
      PROVE  SerialInv' /\ Stays
  <2>1. CASE Request(h)
    BY <1>2, <2>1, RequestSerial
  <2>2. CASE HandlerStep(h)
    <3>1. ~raced
      BY <1>2, <2>2, StepOfBusy
    <3>. QED
      BY <2>2, <3>1, WriteSerial
  <2>. QED
    BY <1>2, <2>1, <2>2
<1>3. raced' => SerialInv'
  BY DEF SerialInv
<1>. QED
  BY <1>1, <1>2, <1>3 DEF Next

LEMMA SerialInvariance == Spec => []SerialInv
<1>1. Init => SerialInv
  <2>. SUFFICES ASSUME Init PROVE SerialInv
    OBVIOUS
  <2>1. /\ DOMAIN merchants = {} /\ DOMAIN resets = {} /\ fresh = 1
        /\ handler = [h \in Handlers |-> Idle]
    BY DEF Init
  <2>2. Busy = {} /\ \A h \in Handlers : Reads(handler[h])
    BY <2>1 DEF Busy, At, Reads, Idle
  <2>3. Drawn /\ Told
    BY <2>1 DEF Drawn, Told
  <2>. QED
    BY <2>2, <2>3 DEF SerialInv
<1>2. IInv /\ SerialInv /\ [Next]_vars => SerialInv'
  BY SerialStep
<1>. QED
  BY <1>1, <1>2, Invariance, PTL DEF Spec

\* resetPassword: of all links mailed for one password, one resets, once, for any
\* number of accounts, links and requests that are answered one at a time, and
\* whatever requests die.
THEOREM LinkResetsOnce == Spec => []ResetOnce
<1>1. SerialInv => ResetOnce
  BY DEF SerialInv, Drawn, ResetOnce
<1>. QED
  BY <1>1, SerialInvariance, PTL

\* What a merchant was answered holds, as long as requests are answered one at a
\* time and whatever requests die before or after their write: its signing secret and
\* its Stripe account are not replaced by any later request, and the key it was told
\* last opens its account and no other, unless a request has a newer one for it, or
\* died with that.
THEOREM AnswersHold == Spec => HandedHolds
<1>. DEFINE Holds ==
       ~raced' => \A m \in DOMAIN held : m \in Alive' =>
         /\ held'[m].lost \/ OnItsWay(m)' \/ KeyWorks(m)'
         /\ held[m].secret \in {0, merchants'[m].secret}
         /\ held[m].stripe \in {0, merchants'[m].stripe}
<1>1. ASSUME IInv, IInv', SerialInv, [Next]_vars
      PROVE  Holds
  <2>. SUFFICES ASSUME ~raced', NEW m \in DOMAIN held, m \in Alive'
                PROVE  /\ held'[m].lost \/ OnItsWay(m)' \/ KeyWorks(m)'
                       /\ held[m].secret \in {0, merchants'[m].secret}
                       /\ held[m].stripe \in {0, merchants'[m].stripe}
    OBVIOUS
  <2>1. Drawn' /\ Told' /\ Stays
    BY <1>1, SerialStep DEF SerialInv
  <2>2. Told /\ m \in DOMAIN merchants
    <3>1. ~raced
      BY <1>1, StepOfBusy, RequestBegins DEF Next, vars
    <3>. QED
      BY <1>1, <3>1, RowTypes DEF SerialInv
  <2>3. /\ held[m].secret \in {0, merchants'[m].secret}
        /\ held[m].stripe \in {0, merchants'[m].stripe}
    BY <2>1, <2>2 DEF Told, Stays
  <2>4. held'[m].lost \/ OnItsWay(m)' \/ KeyWorks(m)'
    <3>. SUFFICES ASSUME ~held'[m].lost, ~OnItsWay(m)', held'[m].key # 0
                  PROVE  \A n : n \in Opens(held[m].key)' <=> n = m
      BY DEF KeyWorks
    <3>1. m \in DOMAIN merchants' /\ merchants'[m].alive
      BY DEF Alive
    <3>2. held'[m].key = merchants'[m].key
      BY <2>1, <3>1 DEF Told
    <3>3. \A n \in DOMAIN merchants' : merchants'[n].key = merchants'[m].key => n = m
      BY <2>1, <3>1 DEF Drawn
    <3>. QED
      BY <3>1, <3>2, <3>3 DEF Opens, Alive
  <2>. QED
    BY <2>3, <2>4
<1>2. IInv /\ IInv' /\ SerialInv /\ [Next]_vars => [Holds]_vars
  BY <1>1
<1>. QED
  BY <1>2, Invariance, SerialInvariance, PTL DEF Spec, HandedHolds
=============================================================================
