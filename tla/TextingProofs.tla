--------------------------- MODULE TextingProofs ----------------------------
(***************************************************************************)
(* What the text message channel keeps for any numbers, addresses, rules,  *)
(* sessions and requests at a time, whatever restarts come between.        *)
(***************************************************************************)
EXTENDS Texting, FiniteSetTheorems, WellFoundedInduction, TLAPS

-----------------------------------------------------------------------------
(* The newest thread *)

LEMMA LeastNat ==
  ASSUME NEW S \in SUBSET Nat, S # {}
  PROVE  \E m \in S : \A t \in S : m <= t
<1>. DEFINE R == {ss \in Nat \X Nat : ss[1] < ss[2]}
<1>1. IsWellFoundedOn(R, Nat)
  BY NatLessThanWellFounded DEF OpToRel
<1>2. \E x \in S : \A y \in S : ~(<<y, x>> \in R)
  <2>. HIDE DEF R
  <2>. QED
    BY <1>1, WFMin
<1>3. PICK x \in S : \A y \in S : ~(<<y, x>> \in R)
  BY <1>2
<1>4. ASSUME NEW t \in S
      PROVE  x <= t
  <2>1. x \in Nat /\ t \in Nat
    OBVIOUS
  <2>2. <<t, x>> \in Nat \X Nat /\ ~(<<t, x>>[1] < <<t, x>>[2])
    BY <1>3, <2>1
  <2>. QED
    BY <2>1, <2>2
<1>. QED
  BY <1>4

LEMMA GreatestUpTo ==
  ASSUME NEW n \in Nat, NEW S \in SUBSET (1..n), S # {}
  PROVE  \E m \in S : \A t \in S : t <= m
<1>. DEFINE T == {k \in Nat : n - k \in S}
<1>1. T \in SUBSET Nat /\ T # {}
  <2>1. PICK s \in S : TRUE
    OBVIOUS
  <2>2. n - s \in Nat /\ n - (n - s) = s
    OBVIOUS
  <2>. QED
    BY <2>1, <2>2
<1>2. PICK k \in T : \A t \in T : k <= t
  <2>. HIDE DEF T
  <2>. QED
    BY <1>1, LeastNat
<1>3. n - k \in S /\ k \in Nat
  OBVIOUS
<1>4. ASSUME NEW t \in S
      PROVE  t <= n - k
  <2>1. n - t \in Nat /\ n - (n - t) = t
    OBVIOUS
  <2>2. k <= n - t
    BY <1>2, <2>1
  <2>. QED
    BY <1>3, <2>2
<1>. QED
  BY <1>3, <1>4

\* A number's thread is open, its own and newer than its other open ones
\* (findOpenSessionByUser).
LEMMA NewestIsOpen ==
  ASSUME sessions \in Seq(SmsSession), NEW p
  PROVE  LET s == NewestOpen(p) IN
         /\ s \in 0..Len(sessions)
         /\ s = 0 => \A t \in DOMAIN sessions :
                       ~(sessions[t].phone = p /\ sessions[t].status = "open")
         /\ s > 0 => /\ sessions[s].phone = p /\ sessions[s].status = "open"
                     /\ \A t \in DOMAIN sessions :
                          sessions[t].phone = p /\ sessions[t].status = "open" => t <= s
<1>. DEFINE open == {s \in DOMAIN sessions :
                       sessions[s].phone = p /\ sessions[s].status = "open"}
<1>1. Len(sessions) \in Nat /\ DOMAIN sessions = 1..Len(sessions)
  OBVIOUS
<1>2. CASE open = {}
  BY <1>1, <1>2 DEF NewestOpen
<1>3. CASE open # {}
  <2>1. open \in SUBSET (1..Len(sessions))
    BY <1>1
  <2>2. \E m \in open : \A t \in open : t <= m
    <3>. HIDE DEF open
    <3>. QED
      BY <1>1, <1>3, <2>1, GreatestUpTo
  <2>3. NewestOpen(p) \in open /\ \A t \in open : t <= NewestOpen(p)
    BY <1>3, <2>2 DEF NewestOpen
  <2>. QED
    BY <1>1, <2>1, <2>3
<1>. QED
  BY <1>2, <1>3

-----------------------------------------------------------------------------
(* Types *)

\* Nobody's request belongs to some number.
Owners == Phones \cup {CHOOSE p \in Phones : TRUE}

Request ==
  [pc : {"idle", "finding", "nudging", "expiring", "checking", "creating",
         "texting", "stopping", "posting", "thinking", "cooling"},
   phone : Owners, session : Nat, at : Nat]

\* The request works on a thread it has found.
OfThread == {"nudging", "expiring", "stopping", "posting", "thinking", "cooling"}

\* What a request holds: a number, a thread that is there, an instant that has been.
Carries(h) ==
  /\ handler[h].session \in 0..Len(sessions) /\ handler[h].at \in 0..now
  /\ ~At(h, "idle") => handler[h].phone \in Phones
  /\ handler[h].pc \in OfThread => handler[h].session > 0

Tables ==
  /\ sessions \in Seq(SmsSession) /\ cooldown \in [Phones -> Nat]
  /\ texts \in [Phones -> Seq(0..MaxNow)]
  /\ stopped \subseteq DOMAIN sessions

Counters ==
  /\ now \in 0..MaxNow /\ requests \in 0..MaxRequests /\ restarts \in 0..MaxRestarts
  /\ raced \in BOOLEAN

TypeInv ==
  /\ windows \in [Keys -> Window] /\ Tables /\ Counters
  /\ handler \in [Handlers -> Request] /\ \A h \in Handlers : Carries(h)

\* A step of one request.
Alone(h) == \A g \in Handlers \ {h} : handler'[g] = handler[g]

LEMMA Bounds ==
  /\ MaxNow \in Nat /\ MaxRequests \in Nat /\ MaxRestarts \in Nat
  /\ Lifetime \in Nat /\ Cooldown \in Nat
  /\ StartRules \subseteq Rule /\ PhoneRules \subseteq Rule /\ InboundRules \subseteq Rule
BY TextingConstants

\* The limiter's windows stay windows (hit, hitAll, sweep).
LEMMA HitAllType ==
  ASSUME NEW w \in [Keys -> Window], NEW key, NEW rules \in SUBSET Rule, NEW t \in Nat
  PROVE  HitAll(w, key, rules, t) \in [Keys -> Window]
<1>. DEFINE hit == [kr \in Keys |-> IF kr[1] = key /\ kr[2] \in rules
                                     THEN Counted(w[kr], kr[2], t) ELSE w[kr]]
<1>1. Shut \in Window
  BY DEF Shut, Window
<1>2. ASSUME NEW v \in Window, NEW r \in Rule
      PROVE  Counted(v, r, t) \in Window
  BY DEF Counted, Window, Rule
<1>3. hit \in [Keys -> Window]
  BY <1>2
<1>4. DOMAIN w = Keys
  OBVIOUS
<1>5. HitAll(w, key, rules, t) = Guarded(hit, t)
  BY <1>4 DEF HitAll
<1>. HIDE DEF hit
<1>6. Sweep(hit, t) \in [Keys -> Window]
  BY <1>1, <1>3 DEF Sweep
<1>. QED
  BY <1>3, <1>5, <1>6 DEF Guarded

LEMMA IdleTypes ==
  /\ Parked \in [Handlers -> Request]
  /\ \A h \in Handlers : Parked[h].pc = "idle" /\ Parked[h].session = 0 /\ Parked[h].at = 0
BY DEF Parked, Idle, Request, Owners

\* One request is replaced; it carries what it needs on tables that have only grown.
LEMMA Replaced ==
  ASSUME TypeInv, NEW h \in Handlers, NEW r \in Request,
         handler' = [handler EXCEPT ![h] = r],
         windows' \in [Keys -> Window], Tables', Counters', now <= now',
         Len(sessions) <= Len(sessions)',
         r.session \in 0..Len(sessions)', r.at \in 0..now',
         r.pc # "idle" => r.phone \in Phones,
         r.pc \in OfThread => r.session > 0
  PROVE  TypeInv' /\ Alone(h) /\ handler'[h] = r
<1>1. handler' \in [Handlers -> Request] /\ handler'[h] = r /\ Alone(h)
  BY DEF TypeInv, Alone
<1>2. Len(sessions) \in Nat /\ Len(sessions)' \in Nat /\ now \in Nat /\ now' \in Nat
  BY Bounds DEF TypeInv, Tables, Counters
<1>3. ASSUME NEW g \in Handlers
      PROVE  Carries(g)'
  <2>1. CASE g = h
    BY <1>1, <2>1 DEF Carries, At
  <2>2. CASE g # h
    <3>1. handler'[g] = handler[g] /\ Carries(g)
      BY <1>1, <2>2 DEF Alone, TypeInv
    <3>. QED
      BY <1>2, <3>1 DEF Carries, At
  <2>. QED
    BY <2>1, <2>2
<1>. QED
  BY <1>1, <1>3 DEF TypeInv

\* The end of a request.
LEMMA Finished ==
  ASSUME TypeInv, NEW h \in Handlers, Finish(h),
         windows' \in [Keys -> Window], Tables', Counters', now <= now',
         Len(sessions) <= Len(sessions)'
  PROVE  TypeInv' /\ Alone(h) /\ handler'[h].pc = "idle"
<1>1. Len(sessions)' \in Nat /\ now' \in Nat
  BY Bounds DEF Tables, Counters
<1>2. Parked[h] \in Request /\ Parked[h].session \in 0..Len(sessions)'
      /\ Parked[h].at \in 0..now' /\ Parked[h].pc = "idle"
  BY <1>1, IdleTypes
<1>3. handler' = [handler EXCEPT ![h] = Parked[h]]
  BY DEF Finish
<1>. QED
  BY <1>2, <1>3, Replaced DEF OfThread

\* One session is written.
LEMMA SessionWritten ==
  ASSUME NEW s \in 1..Len(sessions), sessions \in Seq(SmsSession),
         NEW status \in {"open", "accepted", "walked", "expired"},
         sessions' = [sessions EXCEPT ![s].status = status]
  PROVE  /\ sessions' \in Seq(SmsSession) /\ Len(sessions') = Len(sessions)
         /\ sessions'[s].status = status
         /\ \A t \in 1..Len(sessions) : sessions'[t].phone = sessions[t].phone
         /\ \A t \in 1..Len(sessions) : t # s => sessions'[t] = sessions[t]
<1>1. Len(sessions) \in Nat
  OBVIOUS
<1>2. sessions[s] \in SmsSession
  OBVIOUS
<1>3. sessions' = [sessions EXCEPT ![s] = [sessions[s] EXCEPT !.status = status]]
  OBVIOUS
<1>4. [sessions[s] EXCEPT !.status = status] \in SmsSession
      /\ [sessions[s] EXCEPT !.status = status].status = status
      /\ [sessions[s] EXCEPT !.status = status].phone = sessions[s].phone
  BY <1>2 DEF SmsSession
<1>. QED
  BY <1>1, <1>3, <1>4
-----------------------------------------------------------------------------
(* Each step keeps the types, and is a step of one request *)

\* A request that comes in reads a thread, or none.
LEMMA ArriveTypes ==
  ASSUME TypeInv, NEW h \in Handlers, NEW r \in Request, Arrive(h, r),
         windows' \in [Keys -> Window],
         r.session \in 0..Len(sessions), r.at \in 0..now, r.phone \in Phones,
         r.pc \in OfThread => r.session > 0
  PROVE  TypeInv' /\ Alone(h) /\ handler'[h] = r
<1>1. Counters'
  BY Bounds DEF Arrive, TypeInv, Counters
<1>2. Tables'
  BY DEF Arrive, store, TypeInv, Tables
<1>3. Len(sessions) \in Nat /\ now \in Nat
  BY Bounds DEF TypeInv, Tables, Counters
<1>4. /\ handler' = [handler EXCEPT ![h] = r]
      /\ now <= now' /\ Len(sessions) <= Len(sessions)'
      /\ r.session \in 0..Len(sessions)' /\ r.at \in 0..now'
  BY <1>3 DEF Arrive, store
<1>. QED
  BY <1>1, <1>2, <1>4, Replaced

LEMMA StartTypes ==
  ASSUME TypeInv, NEW h \in Handlers, NEW ip \in Ips, NEW p \in Phones, Start(h, ip, p)
  PROVE  /\ TypeInv' /\ Alone(h)
         /\ handler'[h].pc = IF AdmittedStart(ip, p) THEN "finding" ELSE "idle"
         /\ handler'[h].phone = p /\ handler'[h].at = now
<1>. DEFINE r == [pc |-> IF AdmittedStart(ip, p) THEN "finding" ELSE "idle",
                  phone |-> p, session |-> 0, at |-> now]
            counted == HitAll(windows, ip, StartRules, now)
<1>1. now \in Nat /\ now \in 0..now /\ Len(sessions) \in Nat
  BY Bounds DEF TypeInv, Tables, Counters
<1>2. counted \in [Keys -> Window]
  BY <1>1, Bounds, HitAllType DEF TypeInv
<1>3. HitAll(counted, StartKey(p), PhoneRules, now) \in [Keys -> Window]
  <2>. HIDE DEF counted
  <2>. QED
    BY <1>1, <1>2, Bounds, HitAllType
<1>4. windows' \in [Keys -> Window]
  BY <1>2, <1>3 DEF Start
<1>5. /\ r \in Request /\ r.phone = p /\ r.session = 0 /\ r.at = now /\ r.pc \notin OfThread
      /\ r.pc = IF AdmittedStart(ip, p) THEN "finding" ELSE "idle"
  BY <1>1 DEF Request, OfThread, Owners
<1>6. Arrive(h, r)
  BY DEF Start
<1>. HIDE DEF r, counted
<1>7. TypeInv' /\ Alone(h) /\ handler'[h] = r
  BY <1>1, <1>4, <1>5, <1>6, ArriveTypes
<1>. QED
  BY <1>5, <1>7

LEMMA InboundTypes ==
  ASSUME TypeInv, NEW h \in Handlers, NEW p \in Phones, NEW stop \in BOOLEAN,
         Inbound(h, p, stop)
  PROVE  TypeInv' /\ Alone(h) /\ handler'[h].pc \in {"idle", "stopping", "posting"}
<1>. DEFINE s == IF Permitted(windows, InboundKey(p), InboundRules, now)
                   THEN NewestOpen(p) ELSE 0
            r == [pc |-> IF s = 0 THEN "idle" ELSE IF stop THEN "stopping" ELSE "posting",
                  phone |-> p, session |-> s, at |-> now]
<1>1. now \in Nat /\ now \in 0..now /\ Len(sessions) \in Nat
  BY Bounds DEF TypeInv, Tables, Counters
<1>2. windows' \in [Keys -> Window]
  BY <1>1, Bounds, HitAllType DEF Inbound, TypeInv
<1>3. s \in 0..Len(sessions)
  BY <1>1, NewestIsOpen DEF TypeInv, Tables
<1>4. Arrive(h, r)
  BY DEF Inbound
<1>. HIDE DEF s
<1>5. /\ r \in Request /\ r.phone = p /\ r.session = s /\ r.at = now
      /\ r.pc \in {"idle", "stopping", "posting"}
      /\ r.pc \in OfThread => r.session > 0
  BY <1>1, <1>3 DEF Request, OfThread, Owners
<1>. HIDE DEF r
<1>6. TypeInv' /\ Alone(h) /\ handler'[h] = r
  BY <1>1, <1>2, <1>3, <1>4, <1>5, ArriveTypes
<1>. QED
  BY <1>5, <1>6

\* What a step starts from: the request, its thread and its number.
LEMMA Held ==
  ASSUME TypeInv, NEW h \in Handlers
  PROVE  /\ handler[h] \in Request /\ handler \in [Handlers -> Request]
         /\ handler[h].session \in 0..Len(sessions) /\ handler[h].at \in 0..now
         /\ Len(sessions) \in Nat /\ now \in Nat /\ DOMAIN sessions = 1..Len(sessions)
         /\ ~At(h, "idle") => handler[h].phone \in Phones
         /\ handler[h].pc \in OfThread => handler[h].session \in 1..Len(sessions)
         /\ sessions \in Seq(SmsSession)
BY Bounds DEF TypeInv, Tables, Counters, Carries

\* Only the step of the request moves on: the tables and the clock stay.
LEMMA Moved ==
  ASSUME TypeInv, NEW h \in Handlers, NEW r \in Request,
         handler' = [handler EXCEPT ![h] = r], UNCHANGED <<windows, store, History, Clock>>,
         r.session \in 0..Len(sessions), r.at \in 0..now,
         r.pc # "idle" => r.phone \in Phones, r.pc \in OfThread => r.session > 0
  PROVE  TypeInv' /\ Alone(h) /\ handler'[h] = r
<1>1. /\ Tables' /\ Counters' /\ windows' \in [Keys -> Window]
      /\ UNCHANGED <<sessions, now>>
  BY DEF TypeInv, Tables, Counters, store, History, Clock
<1>2. Len(sessions) \in Nat /\ now \in Nat
  BY Held
<1>3. /\ now <= now' /\ Len(sessions) <= Len(sessions)'
      /\ r.session \in 0..Len(sessions)' /\ r.at \in 0..now'
  BY <1>1, <1>2
<1>. QED
  BY <1>1, <1>3, Replaced

LEMMA FindThreadTypes ==
  ASSUME TypeInv, NEW h \in Handlers, FindThread(h)
  PROVE  /\ TypeInv' /\ Alone(h) /\ handler'[h].phone = handler[h].phone
         /\ handler'[h].at = handler[h].at /\ handler'[h].session = NewestOpen(handler[h].phone)
         /\ handler'[h].session = 0 => handler'[h].pc = "checking"
         /\ handler'[h].session # 0 => handler'[h].pc \in {"nudging", "expiring"}
<1>1. PICK s : s = NewestOpen(handler[h].phone)
  OBVIOUS
<1>2. s \in 0..Len(sessions) /\ Len(sessions) \in Nat
  BY <1>1, Held, NewestIsOpen
<1>3. PICK pc \in {"checking", "nudging", "expiring"} :
        pc = (IF s = 0 THEN "checking"
              ELSE IF sessions[s].expiresAt > now THEN "nudging" ELSE "expiring")
  OBVIOUS
<1>. DEFINE r == [handler[h] EXCEPT !.session = s, !.pc = pc]
<1>4. /\ handler' = [handler EXCEPT ![h] = r] /\ At(h, "finding")
      /\ UNCHANGED <<windows, store, History, Clock>>
  BY <1>1, <1>3, Held DEF FindThread, Thread
<1>5. /\ r \in Request /\ r.phone = handler[h].phone /\ r.at = handler[h].at
      /\ r.session = s /\ r.pc = pc
  <2>1. handler[h] \in Request /\ s \in Nat
    BY <1>2, Held
  <2>. QED
    BY <2>1 DEF Request
<1>. HIDE DEF r
<1>6. handler[h].phone \in Phones /\ handler[h].at \in 0..now
  BY <1>4, Held DEF At
<1>7. r.pc \in OfThread => r.session > 0
  BY <1>2, <1>3, <1>5 DEF OfThread
<1>8. TypeInv' /\ Alone(h) /\ handler'[h] = r
  BY <1>2, <1>4, <1>5, <1>6, <1>7, Moved
<1>. QED
  BY <1>1, <1>2, <1>3, <1>5, <1>8

LEMMA SendTextTypes ==
  ASSUME TypeInv, NEW h \in Handlers, SendText(h)
  PROVE  TypeInv' /\ Alone(h) /\ handler'[h].pc = "idle"
<1>1. /\ handler[h].phone \in Phones /\ handler[h].at \in 0..MaxNow /\ Len(sessions) \in Nat
      /\ now \in Nat
  BY Held, Bounds DEF SendText, At, TypeInv, Counters
<1>2. texts' \in [Phones -> Seq(0..MaxNow)]
  <2>1. texts[handler[h].phone] \in Seq(0..MaxNow)
    BY <1>1 DEF TypeInv, Tables
  <2>2. Append(texts[handler[h].phone], handler[h].at) \in Seq(0..MaxNow)
    BY <1>1, <2>1
  <2>. QED
    BY <1>1, <2>2 DEF SendText, TypeInv, Tables
<1>3. Finish(h) /\ UNCHANGED <<windows, store, stopped, raced, Clock>>
  BY DEF SendText
<1>4. Tables' /\ Counters' /\ windows' \in [Keys -> Window] /\ UNCHANGED <<sessions, now>>
  BY <1>2, <1>3 DEF TypeInv, Tables, Counters, store, Clock
<1>. QED
  BY <1>1, <1>3, <1>4, Finished

LEMMA ExpireThreadTypes ==
  ASSUME TypeInv, NEW h \in Handlers, ExpireThread(h)
  PROVE  /\ TypeInv' /\ Alone(h) /\ handler'[h] = [handler[h] EXCEPT !.pc = "checking"]
         /\ handler[h].session \in 1..Len(sessions) /\ Len(sessions)' = Len(sessions)
         /\ sessions'[handler[h].session].status = "expired"
         /\ \A t \in 1..Len(sessions) : sessions'[t].phone = sessions[t].phone
         /\ \A t \in 1..Len(sessions) : t # handler[h].session => sessions'[t] = sessions[t]
<1>1. handler[h].session \in 1..Len(sessions) /\ handler[h].phone \in Phones
  BY Held DEF ExpireThread, At, OfThread
<1>2. sessions' = [sessions EXCEPT ![handler[h].session].status = "expired"]
  BY DEF ExpireThread
<1>3. /\ sessions' \in Seq(SmsSession) /\ Len(sessions') = Len(sessions)
      /\ sessions'[handler[h].session].status = "expired"
      /\ \A t \in 1..Len(sessions) : sessions'[t].phone = sessions[t].phone
      /\ \A t \in 1..Len(sessions) : t # handler[h].session => sessions'[t] = sessions[t]
  BY <1>1, <1>2, Held, SessionWritten
<1>. DEFINE r == [handler[h] EXCEPT !.pc = "checking"]
<1>4. /\ r \in Request /\ r.session = handler[h].session /\ r.at = handler[h].at
      /\ r.phone = handler[h].phone /\ r.pc \notin OfThread
      /\ handler' = [handler EXCEPT ![h] = r]
  BY Held DEF ExpireThread, Goto, Request, OfThread
<1>. HIDE DEF r
<1>5. Tables' /\ Counters' /\ windows' \in [Keys -> Window] /\ UNCHANGED now
  BY <1>3, Held DEF ExpireThread, TypeInv, Tables, Counters, History, Clock
<1>6. /\ now <= now' /\ Len(sessions) <= Len(sessions)'
      /\ r.session \in 0..Len(sessions)' /\ r.at \in 0..now'
  BY <1>3, <1>4, <1>5, Held
<1>7. TypeInv' /\ Alone(h) /\ handler'[h] = r
  BY <1>1, <1>4, <1>5, <1>6, Replaced
<1>. QED
  BY <1>1, <1>3, <1>7 DEF r

LEMMA CheckCooldownTypes ==
  ASSUME TypeInv, NEW h \in Handlers, CheckCooldown(h)
  PROVE  /\ TypeInv' /\ Alone(h)
         /\ \/ /\ handler'[h] = [handler[h] EXCEPT !.pc = "creating"]
               /\ Cooled(handler[h].phone)
            \/ handler'[h].pc = "idle"
<1>1. UNCHANGED <<windows, store, History, Clock>>
  BY DEF CheckCooldown
<1>2. CASE Cooled(handler[h].phone) /\ Goto(h, "creating")
  <2>. DEFINE r == [handler[h] EXCEPT !.pc = "creating"]
  <2>1. /\ r \in Request /\ r.session = handler[h].session /\ r.at = handler[h].at
        /\ r.phone = handler[h].phone /\ r.pc \notin OfThread
        /\ handler' = [handler EXCEPT ![h] = r]
    BY <1>2, Held DEF Goto, Request, OfThread
  <2>2. handler[h].phone \in Phones
    BY Held DEF CheckCooldown, At
  <2>. HIDE DEF r
  <2>3. TypeInv' /\ Alone(h) /\ handler'[h] = r
    BY <1>1, <2>1, <2>2, Held, Moved
  <2>. QED
    BY <1>2, <2>3 DEF r
<1>3. CASE Finish(h)
  <2>1. Tables' /\ Counters' /\ windows' \in [Keys -> Window] /\ UNCHANGED <<sessions, now>>
    BY <1>1 DEF TypeInv, Tables, Counters, store, History, Clock
  <2>. QED
    BY <1>3, <2>1, Held, Finished
<1>. QED
  BY <1>2, <1>3 DEF CheckCooldown

LEMMA CreateSessionTypes ==
  ASSUME TypeInv, NEW h \in Handlers, CreateSession(h)
  PROVE  /\ TypeInv' /\ Alone(h) /\ handler'[h] = [handler[h] EXCEPT !.pc = "texting"]
         /\ handler[h].phone \in Phones /\ Len(sessions)' = Len(sessions) + 1
         /\ sessions'[Len(sessions) + 1].phone = handler[h].phone
         /\ \A t \in 1..Len(sessions) : sessions'[t] = sessions[t]
<1>. DEFINE made == [phone |-> handler[h].phone, status |-> "open", expiresAt |-> now + Lifetime]
<1>1. handler[h].phone \in Phones
  BY Held DEF CreateSession, At
<1>2. made \in SmsSession
  BY <1>1, Bounds, Held DEF SmsSession
<1>3. made.phone = handler[h].phone /\ sessions' = Append(sessions, made)
  BY DEF CreateSession
<1>. HIDE DEF made
<1>4. /\ sessions' \in Seq(SmsSession) /\ Len(sessions') = Len(sessions) + 1
      /\ sessions'[Len(sessions) + 1] = made
      /\ \A t \in 1..Len(sessions) : sessions'[t] = sessions[t]
  BY <1>2, <1>3, Held
<1>. DEFINE r == [handler[h] EXCEPT !.pc = "texting"]
<1>5. /\ r \in Request /\ r.session = handler[h].session /\ r.at = handler[h].at
      /\ r.phone = handler[h].phone /\ r.pc \notin OfThread
      /\ handler' = [handler EXCEPT ![h] = r]
  BY Held DEF CreateSession, Goto, Request, OfThread
<1>. HIDE DEF r
<1>6. Tables' /\ Counters' /\ windows' \in [Keys -> Window] /\ UNCHANGED now
  BY <1>4, Held DEF CreateSession, TypeInv, Tables, Counters, History, Clock
<1>7. /\ now <= now' /\ Len(sessions) <= Len(sessions)'
      /\ r.session \in 0..Len(sessions)' /\ r.at \in 0..now'
  BY <1>4, <1>5, <1>6, Held
<1>8. TypeInv' /\ Alone(h) /\ handler'[h] = r
  BY <1>1, <1>4, <1>5, <1>6, <1>7, Replaced
<1>. QED
  BY <1>1, <1>3, <1>4, <1>8 DEF r

LEMMA StopTypes ==
  ASSUME TypeInv, NEW h \in Handlers, Stop(h)
  PROVE  /\ TypeInv' /\ Alone(h) /\ handler'[h].pc = "idle"
         /\ handler[h].session \in 1..Len(sessions) /\ Len(sessions)' = Len(sessions)
         /\ sessions'[handler[h].session].status = "walked"
         /\ \A t \in 1..Len(sessions) : sessions'[t].phone = sessions[t].phone
         /\ \A t \in 1..Len(sessions) : t # handler[h].session => sessions'[t] = sessions[t]
<1>1. handler[h].session \in 1..Len(sessions)
  BY Held DEF Stop, At, OfThread
<1>2. sessions' = [sessions EXCEPT ![handler[h].session].status = "walked"]
  BY DEF Stop
<1>3. /\ sessions' \in Seq(SmsSession) /\ Len(sessions') = Len(sessions)
      /\ sessions'[handler[h].session].status = "walked"
      /\ \A t \in 1..Len(sessions) : sessions'[t].phone = sessions[t].phone
      /\ \A t \in 1..Len(sessions) : t # handler[h].session => sessions'[t] = sessions[t]
  BY <1>1, <1>2, Held, SessionWritten
<1>4. Tables' /\ Counters' /\ windows' \in [Keys -> Window] /\ UNCHANGED now
  BY <1>1, <1>3, Held DEF Stop, TypeInv, Tables, Counters, Clock
<1>. QED
  BY <1>1, <1>3, <1>4, Held, Finished DEF Stop

LEMMA PostTypes ==
  ASSUME TypeInv, NEW h \in Handlers, Post(h)
  PROVE  /\ TypeInv' /\ Alone(h) /\ UNCHANGED <<sessions, stopped>>
         /\ \/ handler'[h].pc = "thinking" /\ IsOpen(handler[h].session)
                 /\ handler'[h].session = handler[h].session
            \/ handler'[h].pc = "idle"
<1>1. UNCHANGED <<windows, store, History, Clock>>
  BY DEF Post
<1>2. CASE /\ IsOpen(handler[h].session)
           /\ handler' = [handler EXCEPT ![h].pc = "thinking", ![h].at = now]
  <2>. DEFINE r == [handler[h] EXCEPT !.pc = "thinking", !.at = now]
  <2>1. /\ r \in Request /\ r.session = handler[h].session /\ r.at = now
        /\ r.phone = handler[h].phone /\ r.pc = "thinking"
        /\ handler' = [handler EXCEPT ![h] = r]
    BY <1>2, Held DEF Request
  <2>2. handler[h].phone \in Phones /\ handler[h].session \in 1..Len(sessions)
    BY Held DEF Post, At, OfThread
  <2>. HIDE DEF r
  <2>3. /\ r.session \in 0..Len(sessions) /\ r.at \in 0..now /\ r.session > 0
    BY <2>1, <2>2, Held
  <2>4. TypeInv' /\ Alone(h) /\ handler'[h] = r
    BY <1>1, <2>1, <2>2, <2>3, Moved
  <2>. QED
    BY <1>1, <1>2, <2>1, <2>4 DEF store, History
<1>3. CASE Finish(h)
  <2>1. Tables' /\ Counters' /\ windows' \in [Keys -> Window] /\ UNCHANGED <<sessions, now>>
    BY <1>1 DEF TypeInv, Tables, Counters, store, History, Clock
  <2>. QED
    BY <1>1, <1>3, <2>1, Held, Finished DEF store, History
<1>. QED
  BY <1>2, <1>3 DEF Post

LEMMA WriteTurnTypes ==
  ASSUME TypeInv, NEW h \in Handlers, WriteTurn(h)
  PROVE  /\ TypeInv' /\ Alone(h) /\ handler'[h].pc \in {"idle", "cooling"}
         /\ handler[h].session \in 1..Len(sessions) /\ Len(sessions)' = Len(sessions)
         /\ \A t \in 1..Len(sessions) : sessions'[t].phone = sessions[t].phone
         /\ \A t \in 1..Len(sessions) : t # handler[h].session => sessions'[t] = sessions[t]
<1>1. handler[h].session \in 1..Len(sessions) /\ handler[h].phone \in Phones
  BY Held DEF WriteTurn, At, OfThread
<1>2. \/ UNCHANGED sessions /\ Finish(h)
      \/ \E status \in Outcomes :
           /\ sessions' = [sessions EXCEPT ![handler[h].session].status = status]
           /\ IF status = "walked" THEN Goto(h, "cooling") ELSE Finish(h)
  BY DEF WriteTurn, Outcomes
<1>3. /\ sessions' \in Seq(SmsSession) /\ Len(sessions') = Len(sessions)
      /\ \A t \in 1..Len(sessions) : sessions'[t].phone = sessions[t].phone
      /\ \A t \in 1..Len(sessions) : t # handler[h].session => sessions'[t] = sessions[t]
  <2>1. CASE UNCHANGED sessions
    BY <2>1 DEF TypeInv, Tables
  <2>2. ASSUME NEW status \in Outcomes,
               sessions' = [sessions EXCEPT ![handler[h].session].status = status]
        PROVE  /\ sessions' \in Seq(SmsSession) /\ Len(sessions') = Len(sessions)
               /\ \A t \in 1..Len(sessions) : sessions'[t].phone = sessions[t].phone
               /\ \A t \in 1..Len(sessions) :
                    t # handler[h].session => sessions'[t] = sessions[t]
    <3>1. status \in {"open", "accepted", "walked", "expired"}
      BY DEF Outcomes
    <3>. QED
      BY <1>1, <2>2, <3>1, Held, SessionWritten
  <2>. QED
    BY <1>2, <2>1, <2>2
<1>4. Tables' /\ Counters' /\ windows' \in [Keys -> Window] /\ UNCHANGED now
  BY <1>3, Held DEF WriteTurn, TypeInv, Tables, Counters, History, Clock
<1>5. CASE Goto(h, "cooling")
  <2>. DEFINE r == [handler[h] EXCEPT !.pc = "cooling"]
  <2>1. /\ r \in Request /\ r.session = handler[h].session /\ r.at = handler[h].at
        /\ r.phone = handler[h].phone /\ r.pc = "cooling"
        /\ handler' = [handler EXCEPT ![h] = r]
    BY <1>5, Held DEF Goto, Request
  <2>. HIDE DEF r
  <2>2. /\ now <= now' /\ Len(sessions) <= Len(sessions)' /\ r.session > 0
        /\ r.session \in 0..Len(sessions)' /\ r.at \in 0..now'
    BY <1>1, <1>3, <1>4, <2>1, Held
  <2>3. TypeInv' /\ Alone(h) /\ handler'[h] = r
    BY <1>1, <1>4, <2>1, <2>2, Replaced
  <2>. QED
    BY <1>1, <1>3, <2>1, <2>3
<1>6. CASE Finish(h)
  BY <1>1, <1>3, <1>4, <1>6, Held, Finished
<1>. QED
  BY <1>2, <1>5, <1>6

LEMMA StartCooldownTypes ==
  ASSUME TypeInv, NEW h \in Handlers, StartCooldown(h)
  PROVE  TypeInv' /\ Alone(h) /\ handler'[h].pc = "idle" /\ UNCHANGED <<sessions, stopped>>
<1>1. handler[h].phone \in Phones /\ handler[h].at + Cooldown \in Nat
  BY Held, Bounds DEF StartCooldown, At
<1>2. /\ Tables' /\ Counters' /\ windows' \in [Keys -> Window]
      /\ UNCHANGED <<sessions, stopped, now>>
  BY <1>1 DEF StartCooldown, TypeInv, Tables, Counters, History, Clock
<1>. QED
  BY <1>2, Held, Finished DEF StartCooldown

\* A restart and a tick.
LEMMA OutsideTypes ==
  ASSUME TypeInv, Restart \/ Tick
  PROVE  TypeInv'
<1>1. Len(sessions) \in Nat /\ now \in Nat
  BY Bounds DEF TypeInv, Tables, Counters
<1>2. CASE Restart
  <2>1. windows' \in [Keys -> Window]
    BY <1>2 DEF Restart, Shut, Window
  <2>2. Tables' /\ Counters' /\ handler' = Parked /\ UNCHANGED <<sessions, now>>
    BY <1>2, Bounds DEF Restart, TypeInv, Tables, Counters, store, History
  <2>3. \A h \in Handlers : Carries(h)'
    BY <1>1, <2>2, IdleTypes DEF Carries, At, OfThread
  <2>. QED
    BY <2>1, <2>2, <2>3, IdleTypes DEF TypeInv
<1>3. CASE Tick
  <2>1. now' = now + 1 /\ UNCHANGED <<windows, sessions, handler>> /\ Tables' /\ Counters'
    BY <1>1, <1>3, Bounds DEF Tick, TypeInv, Tables, Counters, store, History
  <2>2. \A h \in Handlers : Carries(h)'
    BY <1>1, <2>1 DEF TypeInv, Carries, At
  <2>. QED
    BY <2>1, <2>2 DEF TypeInv
<1>. QED
  BY <1>2, <1>3

LEMMA TypeInit == Init => TypeInv
<1>. SUFFICES ASSUME Init PROVE TypeInv
  OBVIOUS
<1>1. windows \in [Keys -> Window]
  BY DEF Init, Shut, Window
<1>2. Tables /\ Len(sessions) = 0
  BY DEF Init, Tables
<1>3. now = 0 /\ Counters
  <2>1. MaxNow \in Nat /\ MaxRequests \in Nat /\ MaxRestarts \in Nat
    BY Bounds
  <2>2. now = 0 /\ requests = 0 /\ restarts = 0 /\ raced = FALSE
    BY DEF Init
  <2>3. now \in 0..MaxNow /\ requests \in 0..MaxRequests /\ restarts \in 0..MaxRestarts
    BY <2>1, <2>2
  <2>. QED
    BY <2>2, <2>3 DEF Counters
<1>4. handler = Parked
  BY DEF Init
<1>5. \A h \in Handlers : Carries(h)
  BY <1>2, <1>3, <1>4, IdleTypes DEF Carries, At, OfThread
<1>. QED
  BY <1>1, <1>2, <1>3, <1>4, <1>5, IdleTypes DEF TypeInv

LEMMA TypeNext == TypeInv /\ [Next]_vars => TypeInv'
<1>. SUFFICES ASSUME TypeInv, [Next]_vars PROVE TypeInv'
  OBVIOUS
<1>1. ASSUME NEW h \in Handlers, HandlerStep(h)
      PROVE  TypeInv'
  BY <1>1, FindThreadTypes, SendTextTypes, ExpireThreadTypes, CheckCooldownTypes,
     CreateSessionTypes, StopTypes, PostTypes, WriteTurnTypes, StartCooldownTypes
     DEF HandlerStep
<1>2. CASE UNCHANGED vars
  BY <1>2 DEF vars, store, TypeInv, Tables, Counters, Carries, At
<1>. QED
  BY <1>1, <1>2, StartTypes, InboundTypes, OutsideTypes DEF Next

LEMMA Typed == Spec => []TypeInv
BY TypeInit, TypeNext, PTL DEF Spec

\* The limiter, the store and the requests of the text channel keep their types
\* whatever requests interleave and whenever the process restarts.
THEOREM TypeCorrect == Spec => []TypeOK
<1>1. TypeInv => TypeOK
  BY DEF TypeInv, Tables, Counters, Carries, TypeOK, Request
<1>. QED
  BY <1>1, Typed, PTL
-----------------------------------------------------------------------------
(* STOP *)

\* What STOP ended is not open, and no turn is left that would write it so.
StopInv ==
  \A s \in stopped : sessions[s].status # "open" /\ s \notin Thinking

LEMMA StopKeeps ==
  ASSUME StopInv, NEW h \in Handlers, Alone(h), UNCHANGED stopped,
         \A s \in stopped : sessions'[s].status # "open",
         handler'[h].pc = "thinking" => handler'[h].session \notin stopped
  PROVE  StopInv'
<1>. SUFFICES ASSUME NEW s \in stopped, NEW g \in Handlers,
                     handler'[g].pc = "thinking", handler'[g].session = s
              PROVE  FALSE
  BY DEF StopInv, Thinking, At
<1>1. CASE g = h
  BY <1>1
<1>2. CASE g # h
  BY <1>2 DEF Alone, StopInv, Thinking, At
<1>. QED
  BY <1>1, <1>2

LEMMA StopNext == TypeInv /\ StopInv /\ [Next]_vars => StopInv'
<1>. SUFFICES ASSUME TypeInv, StopInv, [Next]_vars PROVE StopInv'
  OBVIOUS
<1>1. ASSUME NEW h \in Handlers, NEW p \in Phones,
             (\E ip \in Ips : Start(h, ip, p)) \/ (\E stop \in BOOLEAN : Inbound(h, p, stop))
      PROVE  StopInv'
  <2>1. UNCHANGED <<sessions, stopped>>
    BY <1>1 DEF Start, Inbound, Arrive, store
  <2>2. ASSUME NEW ip \in Ips, Start(h, ip, p)
        PROVE  Alone(h) /\ handler'[h].pc # "thinking"
    <3>1. handler'[h].pc = IF AdmittedStart(ip, p) THEN "finding" ELSE "idle"
      BY <2>2, StartTypes
    <3>. QED
      BY <2>2, <3>1, StartTypes
  <2>3. ASSUME NEW stop \in BOOLEAN, Inbound(h, p, stop)
        PROVE  Alone(h) /\ handler'[h].pc # "thinking"
    BY <2>3, InboundTypes
  <2>. QED
    BY <1>1, <2>1, <2>2, <2>3, StopKeeps DEF StopInv
<1>2. ASSUME NEW h \in Handlers,
             FindThread(h) \/ SendText(h) \/ CheckCooldown(h) \/ StartCooldown(h)
      PROVE  StopInv'
  <2>1. UNCHANGED <<sessions, stopped>>
    BY <1>2 DEF FindThread, SendText, CheckCooldown, StartCooldown, store, History
  <2>2. Alone(h) /\ handler'[h].pc # "thinking"
    <3>1. CASE FindThread(h)
      BY <3>1, FindThreadTypes
    <3>2. CASE CheckCooldown(h)
      <4>1. [handler[h] EXCEPT !.pc = "creating"].pc = "creating"
        BY Held DEF Request
      <4>. QED
        BY <3>2, <4>1, CheckCooldownTypes
    <3>. QED
      BY <1>2, <3>1, <3>2, SendTextTypes, StartCooldownTypes
  <2>. QED
    BY <2>1, <2>2, StopKeeps DEF StopInv
<1>3. ASSUME NEW h \in Handlers, ExpireThread(h) \/ CreateSession(h)
      PROVE  StopInv'
  <2>1. UNCHANGED stopped /\ stopped \subseteq 1..Len(sessions)
    BY <1>3, Held DEF ExpireThread, CreateSession, History, TypeInv, Tables
  <2>2. Alone(h) /\ handler'[h].pc # "thinking"
    <3>1. \A pc \in {"checking", "texting"} : [handler[h] EXCEPT !.pc = pc].pc = pc
      BY Held DEF Request
    <3>. QED
      BY <1>3, <3>1, ExpireThreadTypes, CreateSessionTypes
  <2>3. \A s \in stopped : sessions'[s].status # "open"
    BY <1>3, <2>1, ExpireThreadTypes, CreateSessionTypes DEF StopInv
  <2>. QED
    BY <2>1, <2>2, <2>3, StopKeeps
<1>4. ASSUME NEW h \in Handlers, Post(h)
      PROVE  StopInv'
  <2>1. UNCHANGED <<sessions, stopped>> /\ Alone(h)
    BY <1>4, PostTypes
  <2>2. handler'[h].pc = "thinking" => handler'[h].session \notin stopped
    BY <1>4, PostTypes DEF IsOpen, StopInv
  <2>. QED
    BY <2>1, <2>2, StopKeeps DEF StopInv
<1>5. ASSUME NEW h \in Handlers, WriteTurn(h)
      PROVE  StopInv'
  <2>1. UNCHANGED stopped /\ stopped \subseteq 1..Len(sessions)
    BY <1>5, Held DEF WriteTurn, History, TypeInv, Tables
  <2>2. handler[h].session \notin stopped
    BY <1>5 DEF WriteTurn, StopInv, Thinking
  <2>3. \A s \in stopped : sessions'[s].status # "open"
    BY <1>5, <2>1, <2>2, WriteTurnTypes DEF StopInv
  <2>. QED
    BY <1>5, <2>1, <2>3, WriteTurnTypes, StopKeeps
<1>6. ASSUME NEW h \in Handlers, Stop(h)
      PROVE  StopInv'
  <2>. DEFINE s == handler[h].session
  <2>1. /\ stopped' = stopped \cup ({s} \ Thinking) /\ stopped \subseteq 1..Len(sessions)
        /\ Alone(h) /\ handler'[h].pc = "idle" /\ sessions'[s].status = "walked"
        /\ \A t \in 1..Len(sessions) : t # s => sessions'[t] = sessions[t]
    BY <1>6, Held, StopTypes DEF Stop, TypeInv, Tables
  <2>2. Thinking' \subseteq Thinking
    BY <2>1 DEF Thinking, At, Alone
  <2>. QED
    BY <2>1, <2>2 DEF StopInv
<1>7. CASE Restart
  <2>1. Thinking' = {} /\ UNCHANGED <<sessions, stopped>>
    BY <1>7, IdleTypes DEF Restart, Thinking, At, store, History
  <2>. QED
    BY <2>1 DEF StopInv
<1>8. CASE Tick \/ UNCHANGED vars
  BY <1>8 DEF Tick, vars, store, History, StopInv, Thinking, At
<1>. QED
  BY <1>1, <1>2, <1>3, <1>4, <1>5, <1>6, <1>7, <1>8 DEF Next, HandlerStep

\* service.ts:344 "Carrier opt-out keywords end the thread immediately": but for a
\* turn that had begun, nothing brings a stopped thread back, however many texts
\* were routed to it before (handleInboundSms, requireOpenSession).
THEOREM StopIsFinal == Spec => []StopHolds
<1>1. Init => StopInv
  BY DEF Init, StopInv
<1>2. StopInv => StopHolds
  BY DEF StopInv, StopHolds
<1>. QED
  BY <1>1, <1>2, StopNext, Typed, PTL DEF Spec

-----------------------------------------------------------------------------
(* Requests answered one at a time *)

OpenFor(p, s) == sessions[s].phone = p /\ sessions[s].status = "open"

OneOpen ==
  \A s, t \in DOMAIN sessions :
    sessions[s].status = "open" /\ sessions[t].status = "open"
      /\ sessions[s].phone = sessions[t].phone => s = t

\* What the request has read still holds.
ReadsFresh(h) ==
  /\ At(h, "checking") \/ At(h, "creating") =>
       \A s \in DOMAIN sessions : ~OpenFor(handler[h].phone, s)
  /\ At(h, "creating") => now >= cooldown[handler[h].phone]
  /\ At(h, "expiring") =>
       \A s \in DOMAIN sessions : OpenFor(handler[h].phone, s) => s = handler[h].session
  /\ At(h, "thinking") => sessions[handler[h].session].status = "open"

OthersIdle(h) == \A g \in Handlers \ {h} : At(g, "idle")

SerialInv ==
  ~raced =>
    /\ OneOpen
    /\ \A h \in Handlers : ReadsFresh(h) /\ (~At(h, "idle") => OthersIdle(h))

LEMMA SerialKeeps ==
  ASSUME NEW h \in Handlers, Alone(h), OthersIdle(h), OneOpen', ReadsFresh(h)'
  PROVE  SerialInv'
<1>1. \A g \in Handlers \ {h} : At(g, "idle")'
  BY DEF Alone, OthersIdle, At
<1>2. \A g \in Handlers : ReadsFresh(g)'
  BY <1>1 DEF ReadsFresh, At
<1>. QED
  BY <1>1, <1>2 DEF SerialInv, OthersIdle

\* A request that comes in while none is in flight, or goes no further.
LEMMA SerialArrive ==
  ASSUME TypeInv, SerialInv, NEW h \in Handlers, NEW r, Arrive(h, r), Alone(h),
         handler'[h].pc = r.pc, handler'[h].pc \in {"idle", "finding", "stopping", "posting"}
  PROVE  SerialInv'
<1>. SUFFICES ASSUME ~raced' PROVE SerialInv'
  BY DEF SerialInv
<1>1. ~raced /\ (r.pc = "idle" \/ Busy = {}) /\ UNCHANGED <<sessions, cooldown, now>>
      /\ At(h, "idle")
  BY DEF Arrive, TypeInv, Counters, store
<1>2. OneOpen'
  BY <1>1 DEF SerialInv, OneOpen
<1>3. ReadsFresh(h)'
  BY DEF ReadsFresh, At
<1>4. CASE Busy = {}
  <2>1. OthersIdle(h)
    BY <1>4 DEF Busy, OthersIdle
  <2>. QED
    BY <1>2, <1>3, <2>1, SerialKeeps
<1>5. CASE r.pc = "idle"
  <2>1. \A g \in Handlers : At(g, "idle")' = At(g, "idle")
    BY <1>1, <1>5 DEF Alone, At
  <2>2. \A g \in Handlers \ {h} : ReadsFresh(g)'
    BY <1>1 DEF SerialInv, ReadsFresh, At, OpenFor, Alone
  <2>. QED
    BY <1>1, <1>2, <1>3, <2>1, <2>2 DEF SerialInv, OthersIdle
<1>. QED
  BY <1>1, <1>4, <1>5

\* Steps of the one request in flight.
LEMMA SerialStep ==
  ASSUME TypeInv, SerialInv, NEW h \in Handlers, HandlerStep(h)
  PROVE  SerialInv'
<1>. SUFFICES ASSUME ~raced' PROVE SerialInv'
  BY DEF SerialInv
<1>1. ~At(h, "idle") /\ UNCHANGED <<raced, now>>
  BY DEF HandlerStep, FindThread, SendText, ExpireThread, CheckCooldown, CreateSession, Stop,
     Post, WriteTurn, StartCooldown, At, History, Clock
<1>2. OneOpen /\ ReadsFresh(h) /\ OthersIdle(h) /\ DOMAIN sessions = 1..Len(sessions)
      /\ Len(sessions) \in Nat
  BY <1>1, Held DEF SerialInv
<1>3. CASE FindThread(h)
  <2>1. Alone(h) /\ UNCHANGED sessions /\ handler'[h].phone = handler[h].phone
        /\ handler'[h].pc \in {"checking", "nudging", "expiring"}
    BY <1>3, FindThreadTypes DEF FindThread, store
  <2>2. CASE NewestOpen(handler[h].phone) = 0
    <3>1. handler'[h].pc = "checking"
      BY <1>3, <2>2, FindThreadTypes
    <3>2. \A s \in DOMAIN sessions : ~OpenFor(handler[h].phone, s)
      BY <2>2, Held, NewestIsOpen DEF OpenFor
    <3>. QED
      BY <1>2, <2>1, <3>1, <3>2, SerialKeeps DEF OneOpen, ReadsFresh, At, OpenFor
  <2>3. CASE NewestOpen(handler[h].phone) # 0
    <3>1. handler'[h].pc \in {"nudging", "expiring"}
          /\ handler'[h].session = NewestOpen(handler[h].phone)
      BY <1>3, <2>3, FindThreadTypes
    <3>2. NewestOpen(handler[h].phone) \in 1..Len(sessions)
          /\ OpenFor(handler[h].phone, NewestOpen(handler[h].phone))
      BY <1>2, <2>3, Held, NewestIsOpen DEF OpenFor
    <3>3. \A s \in DOMAIN sessions :
            OpenFor(handler[h].phone, s) => s = NewestOpen(handler[h].phone)
      BY <1>2, <3>2 DEF OneOpen, OpenFor
    <3>. QED
      BY <1>2, <2>1, <3>1, <3>3, SerialKeeps DEF OneOpen, ReadsFresh, At, OpenFor
  <2>. QED
    BY <2>2, <2>3
<1>4. CASE SendText(h) \/ StartCooldown(h)
  <2>1. Alone(h) /\ UNCHANGED sessions /\ handler'[h].pc = "idle"
    BY <1>4, SendTextTypes, StartCooldownTypes DEF SendText, store
  <2>. QED
    BY <1>2, <2>1, SerialKeeps DEF OneOpen, ReadsFresh, At
<1>5. CASE ExpireThread(h)
  <2>. DEFINE s == handler[h].session
  <2>1. /\ Alone(h) /\ s \in 1..Len(sessions) /\ Len(sessions)' = Len(sessions)
        /\ sessions'[s].status = "expired" /\ sessions' \in Seq(SmsSession)
        /\ \A t \in 1..Len(sessions) : t # s => sessions'[t] = sessions[t]
    BY <1>5, ExpireThreadTypes DEF TypeInv, Tables
  <2>2. handler'[h].pc = "checking" /\ handler'[h].phone = handler[h].phone
    <3>1. /\ [handler[h] EXCEPT !.pc = "checking"].pc = "checking"
          /\ [handler[h] EXCEPT !.pc = "checking"].phone = handler[h].phone
      BY Held DEF Request
    <3>. QED
      BY <1>5, <3>1, ExpireThreadTypes
  <2>3. DOMAIN sessions' = 1..Len(sessions)
    BY <2>1
  <2>4. \A t \in 1..Len(sessions) : OpenFor(handler[h].phone, t) => t = s
    BY <1>2, <1>5 DEF ExpireThread, ReadsFresh
  <2>. HIDE DEF s
  <2>5. OneOpen'
    BY <1>2, <2>1, <2>3 DEF OneOpen
  <2>6. ReadsFresh(h)'
    BY <2>1, <2>2, <2>3, <2>4 DEF ReadsFresh, OpenFor, At
  <2>. QED
    BY <1>2, <2>1, <2>5, <2>6, SerialKeeps
<1>6. CASE CheckCooldown(h)
  <2>1. Alone(h) /\ UNCHANGED <<sessions, cooldown>>
    BY <1>6, CheckCooldownTypes DEF CheckCooldown, store
  <2>2. OneOpen'
    BY <1>2, <2>1 DEF OneOpen
  <2>3. CASE handler'[h].pc = "idle"
    BY <1>2, <2>1, <2>2, <2>3, SerialKeeps DEF ReadsFresh, At
  <2>4. CASE handler'[h] = [handler[h] EXCEPT !.pc = "creating"] /\ Cooled(handler[h].phone)
    <3>1. handler'[h].pc = "creating" /\ handler'[h].phone = handler[h].phone
      BY <2>4, Held DEF Request
    <3>2. ReadsFresh(h)'
      BY <1>1, <1>2, <1>6, <2>1, <2>4, <3>1 DEF ReadsFresh, At, OpenFor, Cooled, CheckCooldown
    <3>. QED
      BY <1>2, <2>1, <2>2, <3>2, SerialKeeps
  <2>. QED
    BY <1>6, <2>3, <2>4, CheckCooldownTypes
<1>7. CASE CreateSession(h)
  <2>1. PICK n \in Nat : n = Len(sessions) + 1
    BY <1>2
  <2>2. /\ Alone(h) /\ Len(sessions)' = n /\ sessions'[n].phone = handler[h].phone
        /\ \A t \in 1..Len(sessions) : sessions'[t] = sessions[t]
        /\ sessions' \in Seq(SmsSession)
    BY <1>7, <2>1, CreateSessionTypes DEF TypeInv, Tables
  <2>3. handler'[h].pc = "texting"
    <3>1. [handler[h] EXCEPT !.pc = "texting"].pc = "texting"
      BY Held DEF Request
    <3>. QED
      BY <1>7, <3>1, CreateSessionTypes
  <2>4. \A t \in 1..Len(sessions) : ~OpenFor(handler[h].phone, t)
    BY <1>2, <1>7 DEF CreateSession, ReadsFresh
  <2>5. \A t \in DOMAIN sessions' : t \in 1..Len(sessions) \/ t = n
    BY <1>2, <2>1, <2>2
  <2>6. OneOpen'
    BY <1>2, <2>2, <2>4, <2>5 DEF OneOpen, OpenFor
  <2>. QED
    BY <1>2, <2>2, <2>3, <2>6, SerialKeeps DEF ReadsFresh, At
<1>8. CASE Stop(h)
  <2>1. /\ Alone(h) /\ handler'[h].pc = "idle" /\ handler[h].session \in 1..Len(sessions)
        /\ Len(sessions)' = Len(sessions) /\ sessions'[handler[h].session].status = "walked"
        /\ \A t \in 1..Len(sessions) : t # handler[h].session => sessions'[t] = sessions[t]
        /\ sessions' \in Seq(SmsSession)
    BY <1>8, StopTypes DEF TypeInv, Tables
  <2>2. DOMAIN sessions' = 1..Len(sessions)
    BY <2>1
  <2>3. OneOpen'
    BY <1>2, <2>1, <2>2 DEF OneOpen
  <2>. QED
    BY <1>2, <2>1, <2>3, SerialKeeps DEF ReadsFresh, At
<1>9. CASE Post(h)
  <2>1. Alone(h) /\ UNCHANGED sessions
    BY <1>9, PostTypes
  <2>2. ReadsFresh(h)'
    BY <1>9, <2>1, PostTypes DEF ReadsFresh, At, IsOpen
  <2>3. OneOpen'
    BY <1>2, <2>1 DEF OneOpen
  <2>. QED
    BY <1>2, <2>1, <2>2, <2>3, SerialKeeps
<1>10. CASE WriteTurn(h)
  <2>1. /\ Alone(h) /\ handler'[h].pc \in {"idle", "cooling"}
        /\ handler[h].session \in 1..Len(sessions) /\ Len(sessions)' = Len(sessions)
        /\ \A t \in 1..Len(sessions) : sessions'[t].phone = sessions[t].phone
        /\ \A t \in 1..Len(sessions) : t # handler[h].session => sessions'[t] = sessions[t]
        /\ sessions' \in Seq(SmsSession)
    BY <1>10, WriteTurnTypes DEF TypeInv, Tables
  <2>2. sessions[handler[h].session].status = "open"
    BY <1>2, <1>10 DEF ReadsFresh, WriteTurn
  <2>3. DOMAIN sessions' = 1..Len(sessions)
    BY <2>1
  <2>4. \A t \in 1..Len(sessions) :
          sessions'[t].status = "open" => sessions[t].status = "open"
    BY <2>1, <2>2
  <2>5. OneOpen'
    BY <1>2, <2>1, <2>3, <2>4 DEF OneOpen
  <2>. QED
    BY <1>2, <2>1, <2>5, SerialKeeps DEF ReadsFresh, At
<1>. QED
  BY <1>3, <1>4, <1>5, <1>6, <1>7, <1>8, <1>9, <1>10 DEF HandlerStep

LEMMA SerialNext == TypeInv /\ SerialInv /\ [Next]_vars => SerialInv'
<1>. SUFFICES ASSUME TypeInv, SerialInv, [Next]_vars PROVE SerialInv'
  OBVIOUS
<1>1. ASSUME NEW h \in Handlers, NEW p \in Phones, NEW ip \in Ips, Start(h, ip, p)
      PROVE  SerialInv'
  BY <1>1, StartTypes, SerialArrive DEF Start
<1>2. ASSUME NEW h \in Handlers, NEW p \in Phones, NEW stop \in BOOLEAN, Inbound(h, p, stop)
      PROVE  SerialInv'
  <2>1. PICK r : Arrive(h, r) /\ r.pc = handler'[h].pc
    BY <1>2, Held DEF Inbound, Arrive
  <2>. QED
    BY <1>2, <2>1, InboundTypes, SerialArrive
<1>3. CASE Restart
  <2>1. UNCHANGED <<sessions, raced>> /\ \A h \in Handlers : At(h, "idle")'
    BY <1>3, IdleTypes DEF Restart, store, History, At
  <2>. QED
    BY <2>1 DEF SerialInv, OneOpen, ReadsFresh, OthersIdle, At
<1>4. CASE Tick
  <2>1. /\ UNCHANGED <<sessions, raced, cooldown, handler>> /\ now' >= now
    BY <1>4, Held DEF Tick, store, History, TypeInv, Counters
  <2>2. now \in Nat /\ now' \in Nat /\ \A p \in Phones : cooldown[p] \in Nat
    BY <1>4, Bounds DEF Tick, TypeInv, Counters, Tables
  <2>3. ASSUME NEW h \in Handlers, ReadsFresh(h)
        PROVE  ReadsFresh(h)'
    <3>1. At(h, "creating") => cooldown[handler[h].phone] \in Nat
      BY <2>2, Held DEF At
    <3>. QED
      BY <2>1, <2>2, <2>3, <3>1 DEF ReadsFresh, At, OpenFor
  <2>. QED
    BY <2>1, <2>3 DEF SerialInv, OneOpen, OthersIdle, At
<1>5. CASE UNCHANGED vars
  BY <1>5 DEF vars, store, SerialInv, OneOpen, ReadsFresh, OthersIdle, At, OpenFor
<1>. QED
  BY <1>1, <1>2, <1>3, <1>4, <1>5, SerialStep DEF Next

LEMMA Serial == Spec => []SerialInv
<1>1. Init => SerialInv
  BY IdleTypes DEF Init, SerialInv, OneOpen, ReadsFresh, OthersIdle, At
<1>. QED
  BY <1>1, SerialNext, Typed, PTL DEF Spec

\* "One live SMS thread per number" (startSmsSession): requests answered one at a
\* time never fork the haggle of any number, with expiries, STOPs, turns and
\* restarts in between.
THEOREM ThreadsNeverFork == Spec => []OneThread
<1>1. SerialInv => OneThread
  BY DEF SerialInv, OneThread, OneOpen
<1>. QED
  BY <1>1, Serial, PTL

\* A walk is final for the cooldown it started (createSession): no thread of any
\* number is opened in it, nor beside an open one, by requests answered one at a
\* time.
THEOREM CooldownIsKept == Spec => CooldownHolds
<1>. DEFINE Kept == \A s \in DOMAIN sessions' \ DOMAIN sessions :
                      raced \/
                        (now >= cooldown[sessions'[s].phone]
                           /\ \A t \in DOMAIN sessions :
                                sessions[t].phone = sessions'[s].phone =>
                                  sessions[t].status # "open")
<1>1. TypeInv /\ TypeInv' /\ SerialInv /\ [Next]_vars => [Kept]_vars
  <2>. SUFFICES ASSUME TypeInv, TypeInv', SerialInv, Next,
                       NEW s \in DOMAIN sessions' \ DOMAIN sessions, ~raced
                PROVE  /\ now >= cooldown[sessions'[s].phone]
                       /\ \A t \in DOMAIN sessions :
                            sessions[t].phone = sessions'[s].phone =>
                              sessions[t].status # "open"
    OBVIOUS
  <2>1. PICK h \in Handlers : CreateSession(h)
    <3>1. ASSUME NEW h \in Handlers,
                 ExpireThread(h) \/ Stop(h) \/ WriteTurn(h)
          PROVE  FALSE
      <4>1. Len(sessions)' = Len(sessions)
        BY <3>1, ExpireThreadTypes, StopTypes, WriteTurnTypes
      <4>. QED
        BY <4>1 DEF TypeInv, Tables
    <3>2. sessions' # sessions
      OBVIOUS
    <3>3. ASSUME NEW h \in Handlers,
                 \/ FindThread(h) \/ SendText(h) \/ CheckCooldown(h)
                 \/ Post(h) \/ StartCooldown(h)
          PROVE  FALSE
      BY <3>2, <3>3 DEF FindThread, SendText, CheckCooldown, Post, StartCooldown, store
    <3>4. ASSUME NEW h \in Handlers, NEW p \in Phones,
                 \/ \E ip \in Ips : Start(h, ip, p)
                 \/ \E stop \in BOOLEAN : Inbound(h, p, stop)
          PROVE  FALSE
      BY <3>2, <3>4 DEF Start, Inbound, Arrive, store
    <3>5. ~Restart /\ ~Tick
      BY <3>2 DEF Restart, Tick, store
    <3>. QED
      BY <3>1, <3>3, <3>4, <3>5 DEF Next, HandlerStep
  <2>2. /\ Len(sessions)' = Len(sessions) + 1 /\ Len(sessions) \in Nat
        /\ sessions'[Len(sessions) + 1].phone = handler[h].phone
        /\ DOMAIN sessions = 1..Len(sessions) /\ DOMAIN sessions' = 1..Len(sessions)'
    BY <2>1, Held, CreateSessionTypes DEF TypeInv, Tables
  <2>3. sessions'[s].phone = handler[h].phone
    <3>1. s = Len(sessions) + 1
      BY <2>2
    <3>. QED
      BY <2>2, <3>1
  <2>. QED
    BY <2>1, <2>3 DEF SerialInv, ReadsFresh, CreateSession, OpenFor
<1>. QED
  BY <1>1, Typed, Serial, PTL DEF Spec, CooldownHolds

-----------------------------------------------------------------------------
(* What the texts of the starts can cost a number *)

Begun == {"finding", "nudging", "expiring", "checking", "creating", "texting"}

Sent(ticks, R) == {i \in DOMAIN ticks : ticks[i] \in R}

\* The starts for the number that may still text it.
ToSend(hs, p, R) ==
  {h \in Handlers : hs[h].pc \in Begun /\ hs[h].phone = p /\ hs[h].at \in R}

\* The texts the starts admitted in R have cost the number or still may.
Due(p, R) == Cardinality(Sent(texts[p], R)) + Cardinality(ToSend(handler, p, R))

Since(t) == {u \in Nat : t <= u}

Smaller(a, b) == IF a <= b THEN a ELSE b

\* A window more for each restart.
Forgotten(r) == restarts * r.max

\* With the window shut one more window fits in its span; with it open, what it
\* has counted and the window before it fit in theirs.
Limited(p, r) ==
  LET w == windows[<<StartKey(p), r>>] IN
  /\ w.resetAt <= now => Due(p, Since(now - r.span + 1)) <= Forgotten(r) + r.max - 1
  /\ w.resetAt > now =>
       /\ w.resetAt <= now + r.span /\ w.count >= 1
       /\ Due(p, Since(w.resetAt - 2 * r.span + 1))
            <= Forgotten(r) + r.max - 1 + Smaller(w.count, r.max)
       /\ Due(p, Since(w.resetAt - r.span + 1)) <= Forgotten(r) + Smaller(w.count, r.max) - 1
  /\ \A t \in Nat : Due(p, t..t + r.span - 1) <= Forgotten(r) + 2 * r.max - 1

Past(p) == \A i \in DOMAIN texts[p] : texts[p][i] <= now

LimitInv == \A p \in Phones : Past(p) /\ \A r \in PhoneRules : Limited(p, r)

LEMMA SentCounts ==
  ASSUME NEW ticks \in Seq(0..MaxNow), NEW R
  PROVE  /\ IsFiniteSet(Sent(ticks, R)) /\ Cardinality(Sent(ticks, R)) \in Nat
         /\ \A S : R \subseteq S => Cardinality(Sent(ticks, R)) <= Cardinality(Sent(ticks, S))
<1>1. IsFiniteSet(1..Len(ticks)) /\ DOMAIN ticks = 1..Len(ticks)
  BY FS_Interval
<1>2. ASSUME NEW S
      PROVE  IsFiniteSet(Sent(ticks, S)) /\ Cardinality(Sent(ticks, S)) \in Nat
  <2>1. Sent(ticks, S) \subseteq 1..Len(ticks)
    BY <1>1 DEF Sent
  <2>. QED
    BY <1>1, <2>1, FS_Subset, FS_CardinalityType
<1>3. ASSUME NEW S, R \subseteq S
      PROVE  Sent(ticks, R) \subseteq Sent(ticks, S)
  BY <1>3 DEF Sent
<1>. QED
  BY <1>2, <1>3, FS_Subset

LEMMA ToSendCounts ==
  ASSUME IsFiniteSet(Handlers), NEW hs, NEW p, NEW R
  PROVE  /\ IsFiniteSet(ToSend(hs, p, R)) /\ Cardinality(ToSend(hs, p, R)) \in Nat
         /\ \A S : R \subseteq S =>
              Cardinality(ToSend(hs, p, R)) <= Cardinality(ToSend(hs, p, S))
<1>1. ASSUME NEW S
      PROVE  IsFiniteSet(ToSend(hs, p, S)) /\ Cardinality(ToSend(hs, p, S)) \in Nat
  <2>1. ToSend(hs, p, S) \subseteq Handlers
    BY DEF ToSend
  <2>. QED
    BY <2>1, FS_Subset, FS_CardinalityType
<1>2. ASSUME NEW S, R \subseteq S
      PROVE  ToSend(hs, p, R) \subseteq ToSend(hs, p, S)
  BY <1>2 DEF ToSend
<1>. QED
  BY <1>1, <1>2, FS_Subset

LEMMA TextsTyped ==
  ASSUME TypeInv, NEW p \in Phones
  PROVE  texts[p] \in Seq(0..MaxNow)
BY DEF TypeInv, Tables

LEMMA DueCounts ==
  ASSUME TypeInv, IsFiniteSet(Handlers), NEW p \in Phones, NEW R
  PROVE  Due(p, R) \in Nat /\ \A S : R \subseteq S => Due(p, R) <= Due(p, S)
<1>1. \A S : /\ Cardinality(Sent(texts[p], S)) \in Nat
             /\ Cardinality(ToSend(handler, p, S)) \in Nat
  BY TextsTyped, SentCounts, ToSendCounts
<1>2. \A S : R \subseteq S =>
        /\ Cardinality(Sent(texts[p], R)) <= Cardinality(Sent(texts[p], S))
        /\ Cardinality(ToSend(handler, p, R)) <= Cardinality(ToSend(handler, p, S))
  BY TextsTyped, SentCounts, ToSendCounts
<1>. QED
  BY <1>1, <1>2 DEF Due

\* No start begins and no text goes out: what is due can only shrink.
LEMMA DueKept ==
  ASSUME TypeInv, IsFiniteSet(Handlers), NEW p \in Phones, texts' = texts,
         \A h \in Handlers : handler'[h].pc \in Begun /\ handler'[h].phone = p =>
           /\ handler[h].pc \in Begun /\ handler[h].phone = p
           /\ handler'[h].at = handler[h].at,
         NEW R
  PROVE  Due(p, R)' \in Nat /\ Due(p, R)' <= Due(p, R)
<1>1. ToSend(handler', p, R) \subseteq ToSend(handler, p, R)
  BY DEF ToSend
<1>2. /\ Cardinality(ToSend(handler', p, R)) <= Cardinality(ToSend(handler, p, R))
      /\ Cardinality(ToSend(handler', p, R)) \in Nat
      /\ Cardinality(ToSend(handler, p, R)) \in Nat
  BY <1>1, ToSendCounts, FS_Subset
<1>3. Cardinality(Sent(texts[p], R)) \in Nat
  BY TextsTyped, SentCounts
<1>. QED
  BY <1>2, <1>3 DEF Due

\* A text that goes out is due no more.
LEMMA DueSent ==
  ASSUME TypeInv, IsFiniteSet(Handlers), NEW p \in Phones, NEW h \in Handlers, SendText(h),
         NEW R
  PROVE  Due(p, R)' \in Nat /\ Due(p, R)' <= Due(p, R)
<1>. DEFINE q  == handler[h].phone
            at == handler[h].at
<1>1. /\ handler'[h].pc = "idle" /\ \A g \in Handlers \ {h} : handler'[g] = handler[g]
      /\ handler[h].pc \in Begun /\ q \in Phones /\ at \in Nat
  BY SendTextTypes, Held DEF SendText, At, Alone, Begun
<1>2. CASE texts' = texts
  <2>1. \A g \in Handlers : handler'[g].pc \in Begun => handler'[g] = handler[g]
    BY <1>1 DEF Begun
  <2>. QED
    BY <1>2, <2>1, DueKept
<1>3. CASE texts' = [texts EXCEPT ![q] = Append(@, at)]
  <2>1. /\ texts[p] \in Seq(0..MaxNow) /\ texts[q] \in Seq(0..MaxNow)
        /\ texts \in [Phones -> Seq(0..MaxNow)]
    BY <1>1, TextsTyped DEF TypeInv, Tables
  <2>2. CASE p # q \/ at \notin R
    <3>1. Sent(texts'[p], R) = Sent(texts[p], R)
      <4>1. CASE p # q
        BY <1>3, <2>1, <4>1
      <4>2. CASE p = q
        <5>1. texts'[p] = Append(texts[p], at) /\ at \notin R
          BY <1>3, <2>1, <2>2, <4>2
        <5>. QED
          BY <1>1, <2>1, <5>1 DEF Sent
      <4>. QED
        BY <4>1, <4>2
    <3>2. ToSend(handler', p, R) \subseteq ToSend(handler, p, R)
      BY <1>1 DEF ToSend, Begun
    <3>3. /\ Cardinality(ToSend(handler', p, R)) <= Cardinality(ToSend(handler, p, R))
          /\ Cardinality(ToSend(handler', p, R)) \in Nat
          /\ Cardinality(ToSend(handler, p, R)) \in Nat
      BY <3>2, ToSendCounts, FS_Subset
    <3>4. Cardinality(Sent(texts[p], R)) \in Nat
      BY <2>1, SentCounts
    <3>. QED
      BY <3>1, <3>3, <3>4 DEF Due
  <2>3. CASE p = q /\ at \in R
    <3>1. PICK n \in Nat : n = Len(texts[p]) + 1
      BY <2>1
    <3>2. texts'[p] = Append(texts[p], at)
      BY <1>3, <2>1, <2>3
    <3>3. Sent(texts'[p], R) = Sent(texts[p], R) \cup {n} /\ n \notin Sent(texts[p], R)
      BY <1>1, <2>1, <2>3, <3>1, <3>2 DEF Sent
    <3>4. h \in ToSend(handler, p, R)
          /\ ToSend(handler', p, R) = ToSend(handler, p, R) \ {h}
      BY <1>1, <2>3 DEF ToSend, Begun
    <3>5. Cardinality(Sent(texts'[p], R)) = Cardinality(Sent(texts[p], R)) + 1
          /\ Cardinality(Sent(texts[p], R)) \in Nat
      BY <2>1, <3>3, SentCounts, FS_AddElement
    <3>6. Cardinality(ToSend(handler', p, R)) = Cardinality(ToSend(handler, p, R)) - 1
          /\ Cardinality(ToSend(handler, p, R)) \in Nat
      BY <3>4, ToSendCounts, FS_RemoveElement
    <3>. QED
      BY <3>5, <3>6 DEF Due
  <2>. QED
    BY <2>2, <2>3
<1>. QED
  BY <1>2, <1>3 DEF SendText

\* An admitted start is due a text, at the tick it is admitted.
LEMMA DueStarted ==
  ASSUME TypeInv, IsFiniteSet(Handlers), NEW p \in Phones, NEW h \in Handlers,
         texts' = texts, \A g \in Handlers \ {h} : handler'[g] = handler[g],
         handler'[h].at = now, NEW R
  PROVE  /\ Due(p, R)' \in Nat /\ Due(p, R)' <= Due(p, R) + 1
         /\ now \notin R => Due(p, R)' <= Due(p, R)
<1>1. ToSend(handler', p, R) \subseteq ToSend(handler, p, R) \cup {h}
      /\ (now \notin R => ToSend(handler', p, R) \subseteq ToSend(handler, p, R))
  BY DEF ToSend
<1>2. /\ IsFiniteSet(ToSend(handler, p, R)) /\ Cardinality(ToSend(handler, p, R)) \in Nat
      /\ Cardinality(ToSend(handler', p, R)) \in Nat
  BY ToSendCounts
<1>3. /\ IsFiniteSet(ToSend(handler, p, R) \cup {h})
      /\ Cardinality(ToSend(handler, p, R) \cup {h}) \in Nat
      /\ Cardinality(ToSend(handler, p, R) \cup {h}) <= Cardinality(ToSend(handler, p, R)) + 1
  <2>1. IsFiniteSet(ToSend(handler, p, R) \cup {h})
    BY <1>2, FS_AddElement
  <2>2. Cardinality(ToSend(handler, p, R) \cup {h})
          \in {Cardinality(ToSend(handler, p, R)), Cardinality(ToSend(handler, p, R)) + 1}
    BY <1>2, FS_AddElement
  <2>. QED
    BY <1>2, <2>1, <2>2
<1>4. Cardinality(ToSend(handler', p, R)) <= Cardinality(ToSend(handler, p, R)) + 1
  BY <1>1, <1>2, <1>3, FS_Subset
<1>5. now \notin R => Cardinality(ToSend(handler', p, R)) <= Cardinality(ToSend(handler, p, R))
  BY <1>1, <1>2, FS_Subset
<1>6. Cardinality(Sent(texts[p], R)) \in Nat
  BY TextsTyped, SentCounts
<1>. QED
  BY <1>2, <1>4, <1>5, <1>6 DEF Due

LEMMA RuleTyped ==
  ASSUME TypeInv, NEW p \in Phones, NEW r \in PhoneRules
  PROVE  /\ r \in Rule /\ r.span \in Nat \ {0} /\ r.max \in Nat \ {0}
         /\ <<StartKey(p), r>> \in Keys
         /\ windows[<<StartKey(p), r>>].count \in Nat /\ windows[<<StartKey(p), r>>].resetAt \in Nat
         /\ now \in Nat /\ restarts \in Nat /\ Forgotten(r) \in Nat
<1>1. r \in Rule /\ r.span \in Nat \ {0} /\ r.max \in Nat \ {0}
  BY Bounds DEF Rule
<1>2. <<StartKey(p), r>> \in Keys
  BY DEF Keys
<1>3. windows[<<StartKey(p), r>>] \in Window
  BY <1>2 DEF TypeInv
<1>4. now \in Nat /\ restarts \in Nat
  BY Bounds DEF TypeInv, Counters
<1>5. Forgotten(r) \in Nat
  BY <1>1, <1>4 DEF Forgotten
<1>. QED
  BY <1>1, <1>2, <1>3, <1>4, <1>5 DEF Window

\* What a hit leaves of a window: the key's are counted, the others stay unless
\* they had run out (hit, sweep).
LEMMA HitWindow ==
  ASSUME NEW w \in [Keys -> Window], NEW key, NEW rules \in SUBSET Rule, NEW t \in Nat,
         NEW kr \in Keys
  PROVE  /\ kr[1] = key /\ kr[2] \in rules =>
              HitAll(w, key, rules, t)[kr] = Counted(w[kr], kr[2], t)
         /\ ~(kr[1] = key /\ kr[2] \in rules) =>
              \/ HitAll(w, key, rules, t)[kr] = w[kr]
              \/ t >= w[kr].resetAt /\ HitAll(w, key, rules, t)[kr] = Shut
<1>. DEFINE hit == [k \in Keys |-> IF k[1] = key /\ k[2] \in rules
                                    THEN Counted(w[k], k[2], t) ELSE w[k]]
<1>1. HitAll(w, key, rules, t) = Guarded(hit, t)
  BY DEF HitAll
<1>2. hit[kr] = IF kr[1] = key /\ kr[2] \in rules THEN Counted(w[kr], kr[2], t) ELSE w[kr]
  OBVIOUS
<1>3. DOMAIN hit = Keys
  OBVIOUS
<1>. HIDE DEF hit
<1>4. \/ Guarded(hit, t)[kr] = hit[kr]
      \/ t >= hit[kr].resetAt /\ Guarded(hit, t)[kr] = Shut
  BY <1>3 DEF Guarded, Sweep
<1>5. ASSUME kr[1] = key, kr[2] \in rules
      PROVE  ~(t >= Counted(w[kr], kr[2], t).resetAt)
  <2>1. w[kr] \in Window /\ kr[2] \in Rule
    BY <1>5
  <2>. QED
    BY <2>1 DEF Counted, Window, Rule
<1>. QED
  BY <1>1, <1>2, <1>4, <1>5

\* Nothing is due that was not admitted yet.
LEMMA DueLater ==
  ASSUME TypeInv, NEW p \in Phones, Past(p)
  PROVE  Due(p, Since(now + 1)) = 0
<1>1. Sent(texts[p], Since(now + 1)) = {}
  <2>1. \A i \in DOMAIN texts[p] : texts[p][i] \in Nat
    BY TextsTyped, Bounds
  <2>. QED
    BY <2>1, Held, Bounds DEF Sent, Since, Past, TypeInv, Counters
<1>2. ToSend(handler, p, Since(now + 1)) = {}
  BY Held DEF ToSend, Since
<1>. QED
  BY <1>1, <1>2, FS_EmptySet DEF Due

\* Steps that hit another key, or none.
LEMMA LimitKept ==
  ASSUME TypeInv, IsFiniteSet(Handlers), NEW p \in Phones, NEW r \in PhoneRules,
         Limited(p, r), UNCHANGED <<now, restarts>>,
         \A R : Due(p, R)' \in Nat /\ Due(p, R)' <= Due(p, R),
         \/ windows'[<<StartKey(p), r>>] = windows[<<StartKey(p), r>>]
         \/ now >= windows[<<StartKey(p), r>>].resetAt /\ windows'[<<StartKey(p), r>>] = Shut
  PROVE  Limited(p, r)'
<1>. DEFINE w == windows[<<StartKey(p), r>>]
            v == windows'[<<StartKey(p), r>>]
            K == Forgotten(r)
            D(R) == Due(p, R)
            E(R) == Cardinality(Sent(texts'[p], R)) + Cardinality(ToSend(handler', p, R))
<1>1. /\ r.span \in Nat /\ r.max \in Nat /\ K \in Nat /\ now \in Nat
      /\ w.count \in Nat /\ w.resetAt \in Nat /\ Forgotten(r)' = K
  BY RuleTyped DEF Forgotten
<1>2. \A R : D(R) \in Nat /\ E(R) \in Nat /\ E(R) <= D(R)
  BY DueCounts DEF Due
<1>3. Smaller(w.count, r.max) \in Nat
  BY <1>1 DEF Smaller
<1>4. v = w \/ (now >= w.resetAt /\ v = Shut)
  OBVIOUS
<1>5. /\ w.resetAt <= now => D(Since(now - r.span + 1)) <= K + r.max - 1
      /\ w.resetAt > now =>
           /\ w.resetAt <= now + r.span /\ w.count >= 1
           /\ D(Since(w.resetAt - 2 * r.span + 1)) <= K + r.max - 1 + Smaller(w.count, r.max)
           /\ D(Since(w.resetAt - r.span + 1)) <= K + Smaller(w.count, r.max) - 1
      /\ \A t \in Nat : D(t..t + r.span - 1) <= K + 2 * r.max - 1
  BY DEF Limited
<1>6. SUFFICES
        /\ v.resetAt <= now => E(Since(now - r.span + 1)) <= K + r.max - 1
        /\ v.resetAt > now =>
             /\ v.resetAt <= now + r.span /\ v.count >= 1
             /\ E(Since(v.resetAt - 2 * r.span + 1)) <= K + r.max - 1 + Smaller(v.count, r.max)
             /\ E(Since(v.resetAt - r.span + 1)) <= K + Smaller(v.count, r.max) - 1
        /\ \A t \in Nat : E(t..t + r.span - 1) <= K + 2 * r.max - 1
  BY <1>1 DEF Limited, Due
<1>. HIDE DEF w, v, K, D, E
<1>7. ASSUME NEW R, NEW b \in Int, D(R) <= b
      PROVE  E(R) <= b
  BY <1>2, <1>7
<1>8. \A t \in Nat : E(t..t + r.span - 1) <= K + 2 * r.max - 1
  <2>1. K + 2 * r.max - 1 \in Int
    BY <1>1
  <2>. QED
    BY <1>5, <1>7, <2>1
<1>9. w.resetAt <= now => E(Since(now - r.span + 1)) <= K + r.max - 1
  <2>1. K + r.max - 1 \in Int
    BY <1>1
  <2>. QED
    BY <1>5, <1>7, <2>1
<1>10. CASE v = w
  <2>1. K + r.max - 1 + Smaller(w.count, r.max) \in Int /\ K + Smaller(w.count, r.max) - 1 \in Int
    BY <1>1, <1>3
  <2>. QED
    BY <1>5, <1>7, <1>8, <1>9, <1>10, <2>1
<1>11. CASE now >= w.resetAt /\ v = Shut
  BY <1>1, <1>8, <1>9, <1>11 DEF Shut
<1>. QED
  BY <1>4, <1>10, <1>11

\* A hit of the number's key, admitted (d = 1) within the window's limit or not.
LEMMA LimitHit ==
  ASSUME TypeInv, IsFiniteSet(Handlers), NEW p \in Phones, NEW r \in PhoneRules,
         Limited(p, r), Past(p), UNCHANGED <<now, restarts>>, NEW d \in {0, 1},
         \A R : /\ Due(p, R)' \in Nat /\ Due(p, R)' <= Due(p, R) + d
                /\ now \notin R => Due(p, R)' <= Due(p, R),
         windows'[<<StartKey(p), r>>] = Counted(windows[<<StartKey(p), r>>], r, now),
         d = 1 => Counted(windows[<<StartKey(p), r>>], r, now).count <= r.max
  PROVE  Limited(p, r)'
<1>. DEFINE w == windows[<<StartKey(p), r>>]
            v == windows'[<<StartKey(p), r>>]
            K == Forgotten(r)
            D(R) == Due(p, R)
            E(R) == Cardinality(Sent(texts'[p], R)) + Cardinality(ToSend(handler', p, R))
<1>1. /\ r.span \in Nat \ {0} /\ r.max \in Nat \ {0} /\ K \in Nat /\ now \in Nat
      /\ w.count \in Nat /\ w.resetAt \in Nat /\ Forgotten(r)' = K
      /\ w \in Window
  BY RuleTyped DEF Forgotten, TypeInv
<1>2. \A R : /\ D(R) \in Nat /\ E(R) \in Nat /\ E(R) <= D(R) + d
             /\ now \notin R => E(R) <= D(R)
             /\ \A S : R \subseteq S => D(R) <= D(S)
  BY DueCounts DEF Due
<1>3. /\ w.resetAt <= now => D(Since(now - r.span + 1)) <= K + r.max - 1
      /\ w.resetAt > now =>
           /\ w.resetAt <= now + r.span /\ w.count >= 1
           /\ D(Since(w.resetAt - 2 * r.span + 1)) <= K + r.max - 1 + Smaller(w.count, r.max)
           /\ D(Since(w.resetAt - r.span + 1)) <= K + Smaller(w.count, r.max) - 1
      /\ \A t \in Nat : D(t..t + r.span - 1) <= K + 2 * r.max - 1
  BY DEF Limited
<1>4. /\ now >= w.resetAt => v.count = 1 /\ v.resetAt = now + r.span
      /\ now < w.resetAt => v.count = w.count + 1 /\ v.resetAt = w.resetAt
      /\ d = 1 => v.count <= r.max
  BY <1>1 DEF Counted, Window
<1>5. D(Since(now + 1)) = 0
  BY DueLater
<1>6. SUFFICES
        /\ v.resetAt <= now => E(Since(now - r.span + 1)) <= K + r.max - 1
        /\ v.resetAt > now =>
             /\ v.resetAt <= now + r.span /\ v.count >= 1
             /\ E(Since(v.resetAt - 2 * r.span + 1)) <= K + r.max - 1 + Smaller(v.count, r.max)
             /\ E(Since(v.resetAt - r.span + 1)) <= K + Smaller(v.count, r.max) - 1
        /\ \A t \in Nat : E(t..t + r.span - 1) <= K + 2 * r.max - 1
  BY <1>1 DEF Limited, Due
<1>. HIDE DEF w, v, K, D, E
<1>7. now \notin Since(now + 1)
  BY <1>1 DEF Since
<1>8. CASE now >= w.resetAt
  <2>1. v.count = 1 /\ v.resetAt = now + r.span /\ v.resetAt > now
    BY <1>1, <1>4, <1>8
  <2>2. v.resetAt - 2 * r.span + 1 = now - r.span + 1 /\ v.resetAt - r.span + 1 = now + 1
    BY <1>1, <2>1
  <2>3. Smaller(v.count, r.max) = 1
    BY <1>1, <2>1 DEF Smaller
  <2>4. PICK a \in Int : a = now - r.span + 1
    BY <1>1
  <2>5. D(Since(a)) \in Nat /\ E(Since(a)) \in Nat /\ E(Since(a)) <= D(Since(a)) + d
        /\ D(Since(a)) <= K + r.max - 1
    BY <1>1, <1>2, <1>3, <1>8, <2>4
  <2>6. E(Since(now + 1)) <= 0 /\ E(Since(now + 1)) \in Nat
    BY <1>2, <1>5, <1>7
  <2>7. ASSUME NEW t \in Nat
        PROVE  E(t..t + r.span - 1) <= K + 2 * r.max - 1
    <3>. DEFINE R == t..t + r.span - 1
    <3>1. CASE now \in R
      <4>1. R \subseteq Since(a)
        BY <1>1, <2>4, <3>1 DEF Since
      <4>. HIDE DEF R
      <4>2. D(R) \in Nat /\ E(R) \in Nat /\ E(R) <= D(R) + d /\ D(R) <= D(Since(a))
        BY <1>2, <4>1
      <4>3. E(R) <= K + 2 * r.max - 1
        BY <1>1, <2>5, <4>2
      <4>. QED
        BY <4>3 DEF R
    <3>2. CASE now \notin R
      <4>1. D(R) <= K + 2 * r.max - 1
        BY <1>3
      <4>. HIDE DEF R
      <4>2. E(R) <= K + 2 * r.max - 1
        BY <1>1, <1>2, <3>2, <4>1
      <4>. QED
        BY <4>2 DEF R
    <3>. QED
      BY <3>1, <3>2
  <2>. QED
    <3>1. E(Since(v.resetAt - 2 * r.span + 1)) <= K + r.max - 1 + Smaller(v.count, r.max)
      <4>1. E(Since(a)) <= K + r.max - 1 + 1
        BY <1>1, <2>5
      <4>2. v.resetAt - 2 * r.span + 1 = a
        BY <2>2, <2>4
      <4>. QED
        BY <2>3, <4>1, <4>2
    <3>2. E(Since(v.resetAt - r.span + 1)) <= K + Smaller(v.count, r.max) - 1
      BY <1>1, <2>2, <2>3, <2>6
    <3>3. ~(v.resetAt <= now) /\ v.resetAt <= now + r.span /\ v.count >= 1
      BY <1>1, <2>1
    <3>. QED
      BY <2>7, <3>1, <3>2, <3>3
<1>9. CASE now < w.resetAt
  <2>1. v.count = w.count + 1 /\ v.resetAt = w.resetAt /\ v.resetAt > now /\ w.count >= 1
        /\ w.resetAt <= now + r.span
    BY <1>1, <1>3, <1>4, <1>9
  <2>2. PICK c \in Nat : c = Smaller(w.count, r.max)
    BY <1>1 DEF Smaller
  <2>3. PICK e \in Nat : e = Smaller(v.count, r.max)
    BY <1>1, <2>1 DEF Smaller
  <2>4. c + d <= e /\ e <= r.max
    BY <1>1, <1>4, <2>1, <2>2, <2>3 DEF Smaller
  <2>5. PICK a \in Int, b \in Int : a = w.resetAt - 2 * r.span + 1 /\ b = w.resetAt - r.span + 1
    BY <1>1
  <2>6. D(Since(a)) <= K + r.max - 1 + c /\ D(Since(b)) <= K + c - 1
    BY <1>3, <1>9, <2>2, <2>5
  <2>7. /\ D(Since(a)) \in Nat /\ E(Since(a)) \in Nat /\ E(Since(a)) <= D(Since(a)) + d
        /\ D(Since(b)) \in Nat /\ E(Since(b)) \in Nat /\ E(Since(b)) <= D(Since(b)) + d
    BY <1>2
  <2>8. E(Since(a)) <= K + r.max - 1 + e /\ E(Since(b)) <= K + e - 1
    BY <1>1, <2>4, <2>6, <2>7
  <2>9. ASSUME NEW t \in Nat
        PROVE  E(t..t + r.span - 1) <= K + 2 * r.max - 1
    <3>. DEFINE R == t..t + r.span - 1
    <3>1. CASE now \in R
      <4>1. R \subseteq Since(a)
        BY <1>1, <2>1, <2>5, <3>1 DEF Since
      <4>. HIDE DEF R
      <4>2. D(R) \in Nat /\ E(R) \in Nat /\ E(R) <= D(R) + d /\ D(R) <= D(Since(a))
        BY <1>2, <4>1
      <4>3. E(R) <= K + 2 * r.max - 1
        BY <1>1, <2>4, <2>6, <2>7, <4>2
      <4>. QED
        BY <4>3 DEF R
    <3>2. CASE now \notin R
      <4>1. D(R) <= K + 2 * r.max - 1
        BY <1>3
      <4>. HIDE DEF R
      <4>2. E(R) <= K + 2 * r.max - 1
        BY <1>1, <1>2, <3>2, <4>1
      <4>. QED
        BY <4>2 DEF R
    <3>. QED
      BY <3>1, <3>2
  <2>. QED
    <3>1. v.resetAt - 2 * r.span + 1 = a /\ v.resetAt - r.span + 1 = b
      BY <2>1, <2>5
    <3>2. /\ E(Since(v.resetAt - 2 * r.span + 1)) <= K + r.max - 1 + Smaller(v.count, r.max)
          /\ E(Since(v.resetAt - r.span + 1)) <= K + Smaller(v.count, r.max) - 1
      BY <2>3, <2>8, <3>1
    <3>3. ~(v.resetAt <= now) /\ v.resetAt <= now + r.span /\ v.count >= 1
      BY <1>1, <2>1
    <3>. QED
      BY <2>9, <3>2, <3>3
<1>10. now >= w.resetAt \/ now < w.resetAt
  BY <1>1
<1>. QED
  BY <1>8, <1>9, <1>10

\* A step of a request begins no start and counts no hit.
LEMMA StepShrinks ==
  ASSUME TypeInv, IsFiniteSet(Handlers), NEW h \in Handlers, HandlerStep(h), NEW p \in Phones,
         NEW R
  PROVE  Due(p, R)' \in Nat /\ Due(p, R)' <= Due(p, R)
<1>1. CASE SendText(h)
  BY <1>1, DueSent
<1>2. CASE FindThread(h)
  <2>1. /\ texts' = texts /\ \A g \in Handlers \ {h} : handler'[g] = handler[g]
        /\ handler'[h].phone = handler[h].phone /\ handler'[h].at = handler[h].at
        /\ handler[h].pc = "finding"
    BY <1>2, FindThreadTypes DEF FindThread, History, Alone, At
  <2>. QED
    BY <2>1, DueKept DEF Begun
<1>3. ASSUME NEW pc \in Begun, handler'[h] = [handler[h] EXCEPT !.pc = pc],
             handler[h].pc \in Begun, Alone(h), texts' = texts
      PROVE  Due(p, R)' \in Nat /\ Due(p, R)' <= Due(p, R)
  <2>1. handler'[h].phone = handler[h].phone /\ handler'[h].at = handler[h].at
    BY <1>3, Held DEF Request
  <2>. QED
    BY <1>3, <2>1, DueKept DEF Alone
<1>4. ASSUME handler'[h].pc \notin Begun, Alone(h), texts' = texts
      PROVE  Due(p, R)' \in Nat /\ Due(p, R)' <= Due(p, R)
  BY <1>4, DueKept DEF Alone
<1>5. CASE ExpireThread(h)
  <2>1. /\ handler'[h] = [handler[h] EXCEPT !.pc = "checking"] /\ Alone(h)
        /\ texts' = texts /\ handler[h].pc = "expiring"
    BY <1>5, ExpireThreadTypes DEF ExpireThread, History, At
  <2>. QED
    BY <1>3, <2>1 DEF Begun
<1>6. CASE CheckCooldown(h)
  <2>1. Alone(h) /\ texts' = texts /\ handler[h].pc = "checking"
    BY <1>6, CheckCooldownTypes DEF CheckCooldown, History, At
  <2>2. handler'[h] = [handler[h] EXCEPT !.pc = "creating"] \/ handler'[h].pc = "idle"
    BY <1>6, CheckCooldownTypes
  <2>. QED
    BY <1>3, <1>4, <2>1, <2>2 DEF Begun
<1>7. CASE CreateSession(h)
  <2>1. /\ handler'[h] = [handler[h] EXCEPT !.pc = "texting"] /\ Alone(h)
        /\ texts' = texts /\ handler[h].pc = "creating"
    BY <1>7, CreateSessionTypes DEF CreateSession, History, At
  <2>. QED
    BY <1>3, <2>1 DEF Begun
<1>8. CASE Stop(h) \/ WriteTurn(h) \/ StartCooldown(h)
  <2>1. Alone(h) /\ handler'[h].pc \in {"idle", "cooling"}
    BY <1>8, StopTypes, WriteTurnTypes, StartCooldownTypes
  <2>2. texts' = texts
    BY <1>8 DEF Stop, WriteTurn, StartCooldown, History
  <2>. QED
    BY <1>4, <2>1, <2>2 DEF Begun
<1>9. CASE Post(h)
  <2>1. Alone(h) /\ handler'[h].pc \in {"idle", "thinking"}
    BY <1>9, PostTypes
  <2>2. texts' = texts
    BY <1>9 DEF Post, History
  <2>. QED
    BY <1>4, <2>1, <2>2 DEF Begun
<1>. QED
  BY <1>1, <1>2, <1>5, <1>6, <1>7, <1>8, <1>9 DEF HandlerStep

LEMMA PastKept ==
  ASSUME TypeInv, NEW p \in Phones, Past(p), texts' = texts, now <= now', now' \in Nat
  PROVE  Past(p)'
<1>1. \A i \in DOMAIN texts[p] : texts[p][i] \in Nat
  BY TextsTyped, Bounds
<1>2. now \in Nat
  BY Bounds DEF TypeInv, Counters
<1>. QED
  BY <1>1, <1>2 DEF Past

LEMMA LimitStep ==
  ASSUME TypeInv, LimitInv, IsFiniteSet(Handlers), NEW h \in Handlers, HandlerStep(h)
  PROVE  LimitInv'
<1>1. UNCHANGED <<windows, now, restarts>>
  BY DEF HandlerStep, FindThread, SendText, ExpireThread, CheckCooldown, CreateSession, Stop,
     Post, WriteTurn, StartCooldown, Clock
<1>2. ASSUME NEW p \in Phones, NEW r \in PhoneRules
      PROVE  Limited(p, r)'
  BY <1>1, StepShrinks, LimitKept DEF LimitInv
<1>3. ASSUME NEW p \in Phones
      PROVE  Past(p)'
  <2>1. CASE texts' = texts
    BY <1>1, <2>1, Held, PastKept DEF LimitInv
  <2>2. CASE texts' # texts
    <3>1. SendText(h)
      BY <2>2 DEF HandlerStep, FindThread, ExpireThread, CheckCooldown, CreateSession, Stop,
         Post, WriteTurn, StartCooldown, History
    <3>2. texts' = [texts EXCEPT ![handler[h].phone] = Append(@, handler[h].at)]
      BY <2>2, <3>1 DEF SendText
    <3>3. /\ handler[h].phone \in Phones /\ handler[h].at <= now
          /\ texts[p] \in Seq(0..MaxNow) /\ texts \in [Phones -> Seq(0..MaxNow)]
      BY <3>1, Held, TextsTyped DEF SendText, At, TypeInv, Tables
    <3>4. CASE p # handler[h].phone
      BY <1>1, <3>2, <3>3, <3>4 DEF LimitInv, Past
    <3>5. CASE p = handler[h].phone
      <4>1. texts'[p] = Append(texts[p], handler[h].at)
        BY <3>2, <3>3, <3>5
      <4>. QED
        BY <1>1, <3>3, <4>1 DEF LimitInv, Past
    <3>. QED
      BY <3>4, <3>5
  <2>. QED
    BY <2>1, <2>2
<1>. QED
  BY <1>2, <1>3 DEF LimitInv

LEMMA LimitStart ==
  ASSUME TypeInv, LimitInv, IsFiniteSet(Handlers), NEW h \in Handlers, NEW ip \in Ips,
         NEW p \in Phones, Start(h, ip, p)
  PROVE  LimitInv'
<1>. DEFINE counted == HitAll(windows, ip, StartRules, now)
<1>1. /\ UNCHANGED <<texts, now, restarts>> /\ Alone(h) /\ TypeInv'
      /\ handler'[h].pc = IF AdmittedStart(ip, p) THEN "finding" ELSE "idle"
      /\ handler'[h].phone = p /\ handler'[h].at = now
  BY StartTypes DEF Start, Arrive
<1>2. /\ now \in Nat /\ windows \in [Keys -> Window] /\ StartRules \in SUBSET Rule
      /\ PhoneRules \in SUBSET Rule
  BY Held, Bounds DEF TypeInv
<1>3. counted \in [Keys -> Window]
  BY <1>2, HitAllType
<1>4. windows' = IF Permitted(windows, ip, StartRules, now)
                   THEN HitAll(counted, StartKey(p), PhoneRules, now) ELSE counted
  BY DEF Start
<1>. HIDE DEF counted
<1>5. ASSUME NEW q \in Phones, NEW r \in PhoneRules
      PROVE  Limited(q, r)'
  <2>. DEFINE kr == <<StartKey(q), r>>
  <2>1. kr \in Keys /\ kr[1] = StartKey(q) /\ kr[2] = r /\ Limited(q, r) /\ Past(q)
    BY RuleTyped DEF LimitInv
  <2>2. kr[1] # ip
    BY <2>1, TextingConstants
  <2>. HIDE DEF kr
  <2>3. counted[kr] = windows[kr] \/ (now >= windows[kr].resetAt /\ counted[kr] = Shut)
    BY <1>2, <2>1, <2>2, HitWindow DEF counted
  <2>4. windows[kr].resetAt \in Nat
    BY <2>1, RuleTyped DEF kr
  <2>5. CASE q # p \/ ~Permitted(windows, ip, StartRules, now)
    <3>1. windows'[kr] = windows[kr] \/ (now >= windows[kr].resetAt /\ windows'[kr] = Shut)
      <4>1. CASE ~Permitted(windows, ip, StartRules, now)
        BY <1>4, <2>3, <4>1
      <4>2. CASE Permitted(windows, ip, StartRules, now) /\ q # p
        <5>1. kr[1] # StartKey(p)
          BY <2>1, <4>2 DEF StartKey
        <5>2. \/ windows'[kr] = counted[kr]
              \/ now >= counted[kr].resetAt /\ windows'[kr] = Shut
          BY <1>2, <1>3, <1>4, <2>1, <4>2, <5>1, HitWindow
        <5>. QED
          BY <2>3, <5>2
      <4>. QED
        BY <2>5, <4>1, <4>2
    <3>2. ASSUME NEW R
          PROVE  Due(q, R)' \in Nat /\ Due(q, R)' <= Due(q, R)
      <4>1. \A g \in Handlers : handler'[g].pc \in Begun /\ handler'[g].phone = q =>
              /\ handler[g].pc \in Begun /\ handler[g].phone = q /\ handler'[g].at = handler[g].at
        BY <1>1, <2>5 DEF AdmittedStart, Alone, Begun
      <4>. QED
        BY <1>1, <4>1, DueKept
    <3>. QED
      BY <1>1, <2>1, <3>1, <3>2, LimitKept DEF kr
  <2>6. CASE q = p /\ Permitted(windows, ip, StartRules, now)
    <3>1. windows'[kr] = Counted(counted[kr], r, now)
      BY <1>2, <1>3, <1>4, <2>1, <2>6, HitWindow
    <3>2. Counted(counted[kr], r, now) = Counted(windows[kr], r, now)
      <4>1. CASE counted[kr] = windows[kr]
        BY <4>1
      <4>2. CASE now >= windows[kr].resetAt /\ counted[kr] = Shut
        BY <1>2, <4>2 DEF Counted, Shut
      <4>. QED
        BY <2>3, <4>1, <4>2
    <3>3. CASE AdmittedStart(ip, p)
      <4>1. Counted(windows[kr], r, now).count <= r.max
        BY <2>6, <3>3 DEF AdmittedStart, Permitted, kr
      <4>2. \A R : /\ Due(q, R)' \in Nat /\ Due(q, R)' <= Due(q, R) + 1
                   /\ now \notin R => Due(q, R)' <= Due(q, R)
        BY <1>1, DueStarted DEF Alone
      <4>. QED
        BY <1>1, <2>1, <3>1, <3>2, <4>1, <4>2, LimitHit DEF kr
    <3>4. CASE ~AdmittedStart(ip, p)
      <4>1. \A g \in Handlers : handler'[g].pc \in Begun => handler'[g] = handler[g]
        BY <1>1, <3>4 DEF Alone, Begun
      <4>2. ASSUME NEW R
            PROVE  Due(q, R)' \in Nat /\ Due(q, R)' <= Due(q, R) + 0
        <5>1. Due(q, R)' \in Nat /\ Due(q, R)' <= Due(q, R)
          BY <1>1, <4>1, DueKept
        <5>. QED
          BY <5>1, DueCounts
      <4>3. \A R : Due(q, R)' <= Due(q, R)
        BY <1>1, <4>1, DueKept
      <4>. QED
        BY <1>1, <2>1, <3>1, <3>2, <4>2, <4>3, LimitHit DEF kr
    <3>. QED
      BY <3>3, <3>4
  <2>. QED
    BY <2>5, <2>6
<1>6. ASSUME NEW q \in Phones
      PROVE  Past(q)'
  BY <1>1, <1>2, PastKept DEF LimitInv
<1>. QED
  BY <1>5, <1>6 DEF LimitInv

LEMMA LimitInbound ==
  ASSUME TypeInv, LimitInv, IsFiniteSet(Handlers), NEW h \in Handlers, NEW p \in Phones,
         NEW stop \in BOOLEAN, Inbound(h, p, stop)
  PROVE  LimitInv'
<1>1. /\ UNCHANGED <<texts, now, restarts>> /\ Alone(h)
      /\ handler'[h].pc \in {"idle", "stopping", "posting"}
  BY InboundTypes DEF Inbound, Arrive
<1>2. now \in Nat /\ windows \in [Keys -> Window] /\ InboundRules \in SUBSET Rule
  BY Held, Bounds DEF TypeInv
<1>3. ASSUME NEW q \in Phones, NEW r \in PhoneRules
      PROVE  Limited(q, r)'
  <2>1. <<StartKey(q), r>> \in Keys /\ <<StartKey(q), r>>[1] # InboundKey(p)
    BY RuleTyped DEF StartKey, InboundKey
  <2>2. \/ windows'[<<StartKey(q), r>>] = windows[<<StartKey(q), r>>]
        \/ /\ now >= windows[<<StartKey(q), r>>].resetAt
           /\ windows'[<<StartKey(q), r>>] = Shut
    BY <1>2, <2>1, HitWindow DEF Inbound
  <2>3. \A R : Due(q, R)' \in Nat /\ Due(q, R)' <= Due(q, R)
    BY <1>1, DueKept DEF Alone, Begun
  <2>. QED
    BY <1>1, <2>2, <2>3, LimitKept DEF LimitInv
<1>4. ASSUME NEW q \in Phones
      PROVE  Past(q)'
  BY <1>1, <1>2, PastKept DEF LimitInv
<1>. QED
  BY <1>3, <1>4 DEF LimitInv

\* A restart forgets the windows, and the requests in flight.
LEMMA LimitRestart ==
  ASSUME TypeInv, LimitInv, IsFiniteSet(Handlers), Restart
  PROVE  LimitInv'
<1>1. UNCHANGED <<texts, now>> /\ restarts' = restarts + 1 /\ now \in Nat
  BY Bounds DEF Restart, History, TypeInv, Counters
<1>2. ASSUME NEW p \in Phones, NEW r \in PhoneRules
      PROVE  Limited(p, r)'
  <2>. DEFINE w == windows[<<StartKey(p), r>>]
              v == windows'[<<StartKey(p), r>>]
              K == Forgotten(r)
              D(R) == Due(p, R)
              E(R) == Cardinality(Sent(texts'[p], R)) + Cardinality(ToSend(handler', p, R))
  <2>1. /\ r.span \in Nat \ {0} /\ r.max \in Nat \ {0} /\ K \in Nat /\ now \in Nat
        /\ w.count \in Nat /\ w.resetAt \in Nat
    BY RuleTyped
  <2>2. Forgotten(r)' = K + r.max
    <3>1. restarts \in Nat
      BY RuleTyped
    <3>2. (restarts + 1) * r.max = restarts * r.max + r.max
      BY <2>1, <3>1
    <3>. QED
      BY <1>1, <3>2 DEF Forgotten
  <2>3. \A R : D(R) \in Nat /\ \A S : R \subseteq S => D(R) <= D(S)
    BY DueCounts
  <2>4. \A R : E(R) \in Nat /\ E(R) <= D(R)
    <3>1. \A h \in Handlers : handler'[h].pc \notin Begun
      BY IdleTypes DEF Restart, Begun
    <3>. QED
      BY <1>1, <3>1, DueKept DEF Due
  <2>5. /\ w.resetAt <= now => D(Since(now - r.span + 1)) <= K + r.max - 1
        /\ w.resetAt > now =>
             /\ w.resetAt <= now + r.span /\ w.count >= 1
             /\ D(Since(w.resetAt - 2 * r.span + 1)) <= K + r.max - 1 + Smaller(w.count, r.max)
        /\ \A t \in Nat : D(t..t + r.span - 1) <= K + 2 * r.max - 1
    BY DEF LimitInv, Limited
  <2>6. v = Shut
    BY RuleTyped DEF Restart
  <2>7. SUFFICES /\ E(Since(now - r.span + 1)) <= K + r.max + r.max - 1
                 /\ \A t \in Nat : E(t..t + r.span - 1) <= K + r.max + 2 * r.max - 1
    BY <1>1, <2>1, <2>2, <2>6 DEF Limited, Due, Shut
  <2>. HIDE DEF w, v, K, D, E
  <2>8. PICK a \in Int : a = now - r.span + 1
    BY <2>1
  <2>9. D(Since(a)) <= K + r.max + r.max - 1
    <3>1. CASE w.resetAt <= now
      <4>1. D(Since(a)) <= K + r.max - 1 /\ D(Since(a)) \in Nat
        BY <2>3, <2>5, <2>8, <3>1
      <4>. QED
        BY <2>1, <4>1
    <3>2. CASE w.resetAt > now
      <4>1. PICK b \in Int : b = w.resetAt - 2 * r.span + 1
        BY <2>1
      <4>2. Since(a) \subseteq Since(b)
        <5>1. w.resetAt <= now + r.span
          BY <2>5, <3>2
        <5>2. b <= a
          BY <2>1, <2>8, <4>1, <5>1
        <5>. QED
          BY <5>2 DEF Since
      <4>3. PICK c \in Nat : c = Smaller(w.count, r.max) /\ c <= r.max
        BY <2>1 DEF Smaller
      <4>4. D(Since(b)) <= K + r.max - 1 + c
        BY <2>5, <3>2, <4>1, <4>3
      <4>5. D(Since(a)) \in Nat /\ D(Since(b)) \in Nat /\ D(Since(a)) <= D(Since(b))
        BY <2>3, <4>2
      <4>. QED
        BY <2>1, <4>3, <4>4, <4>5
    <3>. QED
      BY <2>1, <3>1, <3>2
  <2>10. E(Since(a)) <= K + r.max + r.max - 1
    BY <2>1, <2>3, <2>4, <2>9
  <2>11. ASSUME NEW t \in Nat
         PROVE  E(t..t + r.span - 1) <= K + r.max + 2 * r.max - 1
    <3>. DEFINE R == t..t + r.span - 1
    <3>1. D(R) <= K + 2 * r.max - 1
      BY <2>5
    <3>. HIDE DEF R
    <3>2. E(R) <= K + r.max + 2 * r.max - 1
      BY <2>1, <2>3, <2>4, <3>1
    <3>. QED
      BY <3>2 DEF R
  <2>. QED
    BY <2>8, <2>10, <2>11
<1>3. ASSUME NEW q \in Phones
      PROVE  Past(q)'
  BY <1>1, PastKept DEF LimitInv
<1>. QED
  BY <1>2, <1>3 DEF LimitInv

LEMMA LimitTick ==
  ASSUME TypeInv, LimitInv, IsFiniteSet(Handlers), Tick
  PROVE  LimitInv'
<1>1. UNCHANGED <<windows, texts, handler, restarts>> /\ now' = now + 1 /\ now \in Nat
  BY Bounds DEF Tick, History, TypeInv, Counters
<1>2. ASSUME NEW p \in Phones, NEW r \in PhoneRules
      PROVE  Limited(p, r)'
  <2>. DEFINE w == windows[<<StartKey(p), r>>]
              K == Forgotten(r)
              D(R) == Due(p, R)
  <2>1. /\ r.span \in Nat \ {0} /\ r.max \in Nat \ {0} /\ K \in Nat
        /\ w.count \in Nat /\ w.resetAt \in Nat
    BY RuleTyped
  <2>2. \A R : D(R) \in Nat /\ \A S : R \subseteq S => D(R) <= D(S)
    BY DueCounts
  <2>3. /\ w.resetAt <= now => D(Since(now - r.span + 1)) <= K + r.max - 1
        /\ w.resetAt > now =>
             /\ w.resetAt <= now + r.span /\ w.count >= 1
             /\ D(Since(w.resetAt - 2 * r.span + 1)) <= K + r.max - 1 + Smaller(w.count, r.max)
             /\ D(Since(w.resetAt - r.span + 1)) <= K + Smaller(w.count, r.max) - 1
        /\ \A t \in Nat : D(t..t + r.span - 1) <= K + 2 * r.max - 1
    BY DEF LimitInv, Limited
  <2>4. SUFFICES ASSUME NEW m, m = now + 1
                 PROVE  w.resetAt <= m => D(Since(m - r.span + 1)) <= K + r.max - 1
    <3>. DEFINE m == now + 1
    <3>1. w.resetAt <= m => D(Since(m - r.span + 1)) <= K + r.max - 1
      BY <2>4
    <3>2. w.resetAt > m => w.resetAt > now /\ w.resetAt <= m + r.span
      <4>1. w.resetAt > now => w.resetAt <= now + r.span
        BY <2>3
      <4>. HIDE DEF w, K, D
      <4>. QED
        BY <1>1, <2>1, <4>1
    <3>3. now' = m /\ windows' = windows /\ texts' = texts /\ handler' = handler
          /\ restarts' = restarts
      BY <1>1
    <3>. HIDE DEF m
    <3>4. /\ w.resetAt <= m => D(Since(m - r.span + 1)) <= K + r.max - 1
          /\ w.resetAt > m =>
               /\ w.resetAt <= m + r.span /\ w.count >= 1
               /\ D(Since(w.resetAt - 2 * r.span + 1)) <= K + r.max - 1 + Smaller(w.count, r.max)
               /\ D(Since(w.resetAt - r.span + 1)) <= K + Smaller(w.count, r.max) - 1
          /\ \A t \in Nat : D(t..t + r.span - 1) <= K + 2 * r.max - 1
      <4>. HIDE DEF w, K, D
      <4>. QED
        BY <2>3, <3>1, <3>2
    <3>. QED
      BY <3>3, <3>4 DEF Limited, Due, Forgotten
  <2>. HIDE DEF w, K, D
  <2>5. PICK a \in Int, b \in Int : a = m - r.span + 1 /\ b = now - r.span + 1
    BY <1>1, <2>1, <2>4
  <2>6. CASE w.resetAt <= now
    <3>1. Since(a) \subseteq Since(b)
      BY <1>1, <2>1, <2>4, <2>5 DEF Since
    <3>2. D(Since(a)) \in Nat /\ D(Since(b)) \in Nat /\ D(Since(a)) <= D(Since(b))
      BY <2>2, <3>1
    <3>. QED
      BY <2>1, <2>3, <2>5, <2>6, <3>2
  <2>7. CASE w.resetAt = now + 1
    <3>1. PICK c \in Nat : c = Smaller(w.count, r.max) /\ c <= r.max
      BY <2>1 DEF Smaller
    <3>2. w.resetAt - r.span + 1 = a /\ w.resetAt > now
      BY <1>1, <2>1, <2>4, <2>5, <2>7
    <3>3. D(Since(a)) <= K + c - 1
      BY <2>3, <3>1, <3>2
    <3>4. D(Since(a)) \in Nat
      BY <2>2
    <3>. QED
      BY <2>1, <2>5, <3>1, <3>3, <3>4
  <2>. QED
    BY <1>1, <2>1, <2>4, <2>6, <2>7
<1>3. ASSUME NEW q \in Phones
      PROVE  Past(q)'
  BY <1>1, PastKept DEF LimitInv
<1>. QED
  BY <1>2, <1>3 DEF LimitInv

LEMMA LimitInit == Init /\ IsFiniteSet(Handlers) => LimitInv
<1>. SUFFICES ASSUME Init, IsFiniteSet(Handlers), NEW p \in Phones
              PROVE  Past(p) /\ \A r \in PhoneRules : Limited(p, r)
  BY DEF LimitInv
<1>1. texts[p] = <<>> /\ DOMAIN texts[p] = {} /\ now = 0 /\ restarts = 0
  BY DEF Init
<1>2. TypeInv
  BY TypeInit
<1>3. ASSUME NEW R
      PROVE  Due(p, R) = 0
  <2>1. Sent(texts[p], R) = {}
    BY <1>1 DEF Sent
  <2>2. ToSend(handler, p, R) = {}
    BY IdleTypes DEF Init, ToSend, Begun
  <2>. QED
    BY <2>1, <2>2, FS_EmptySet DEF Due
<1>4. ASSUME NEW r \in PhoneRules
      PROVE  Limited(p, r)
  <2>1. /\ r.max \in Nat \ {0} /\ Forgotten(r) \in Nat /\ r.span \in Nat
        /\ windows[<<StartKey(p), r>>] = Shut
    BY <1>2, RuleTyped DEF Init
  <2>. QED
    BY <1>1, <1>3, <2>1 DEF Limited, Shut
<1>. QED
  BY <1>1, <1>4 DEF Past

LEMMA LimitNext ==
  TypeInv /\ LimitInv /\ IsFiniteSet(Handlers) /\ [Next]_vars => LimitInv'
<1>1. TypeInv /\ LimitInv /\ UNCHANGED vars => LimitInv'
  BY DEF vars, store, LimitInv, Limited, Past, Due, Forgotten
<1>. QED
  BY <1>1, LimitStep, LimitStart, LimitInbound, LimitRestart, LimitTick DEF Next

\* app.ts:70 "a flood aimed at one victim's phone is throttled even when it rotates
\* IPs": whatever requests race (any finite number at a time), from whatever
\* addresses, in any span of any rule a number gets one text less than two windows
\* allow, and a window more for each restart.
THEOREM FloodIsThrottled ==
  ASSUME IsFiniteSet(Handlers)
  PROVE  Spec => []TextsBounded
<1>1. Init => LimitInv
  BY LimitInit
<1>2. TypeInv /\ LimitInv /\ [Next]_vars => LimitInv'
  BY LimitNext
<1>3. TypeInv /\ LimitInv => TextsBounded
  <2>. SUFFICES ASSUME TypeInv, LimitInv, NEW p \in Phones, NEW r \in PhoneRules,
                       NEW t \in 0..MaxNow
                PROVE  TextsIn(p, t, t + r.span - 1) <= (2 + restarts) * r.max - 1
    BY DEF TextsBounded
  <2>. DEFINE R == t..t + r.span - 1
  <2>1. r.max \in Nat /\ restarts \in Nat /\ t \in Nat /\ r.span \in Nat
    <3>1. t \in Nat
      BY Bounds
    <3>. QED
      BY <3>1, RuleTyped
  <2>2. (2 + restarts) * r.max = restarts * r.max + 2 * r.max /\ restarts * r.max \in Nat
    BY <2>1
  <2>3. Due(p, R) <= restarts * r.max + 2 * r.max - 1
    BY <2>1 DEF LimitInv, Limited, Forgotten
  <2>4. TextsIn(p, t, t + r.span - 1) = Cardinality(Sent(texts[p], R))
    BY DEF TextsIn, Sent
  <2>. HIDE DEF R
  <2>5. /\ Cardinality(Sent(texts[p], R)) \in Nat
        /\ Cardinality(ToSend(handler, p, R)) \in Nat
    BY TextsTyped, SentCounts, ToSendCounts
  <2>. QED
    BY <2>1, <2>2, <2>3, <2>4, <2>5 DEF Due
<1>. QED
  BY <1>1, <1>2, <1>3, Typed, PTL DEF Spec
=============================================================================
