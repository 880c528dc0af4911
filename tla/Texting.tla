------------------------------- MODULE Texting -------------------------------
(***************************************************************************)
(* The text message channel: POST /v1/sms/start and the inbound webhook of *)
(* app.ts behind the limiter, startSmsSession and handleInboundSms of      *)
(* service.ts over the session and cooldown tables.                        *)
(*                                                                         *)
(* A request keeps what it read across its awaits. The limiter lives in    *)
(* the process: a restart forgets its windows and the requests in flight.  *)
(* What a turn decides is the engine's (Haggle): here it leaves the        *)
(* session open, accepts or walks, and past expiry walks.                  *)
(***************************************************************************)
EXTENDS RateLimit, Sequences

CONSTANTS
  Phones, Ips, Handlers,
  StartRules, PhoneRules, InboundRules,   \* SMS_START_RULES, SMS_PHONE_RULES, MSG_RULES
  Lifetime,        \* hours a session lasts, in ticks
  Cooldown,        \* policy.cooldownHours, in ticks
  MaxNow,          \* bound on the clock
  MaxRequests,     \* bound on the requests of a behaviour
  MaxRestarts      \* bound on the restarts

\* The limiter's keys: an address, `sms:${phone}` and `sms:in:${From}`.
StartKey(p)   == <<"start", p>>
InboundKey(p) == <<"in", p>>

ASSUME TextingConstants ==
  /\ StartRules \cup PhoneRules \cup InboundRules \subseteq Rule
  /\ {MaxWindows, Lifetime, Cooldown, MaxNow, MaxRequests, MaxRestarts} \subseteq Nat
  /\ \A p \in Phones : StartKey(p) \notin Ips

VARIABLES
  windows,     \* of the limiter
  sessions,    \* sms sessions, in the order they were created
  cooldown,    \* per phone, until when it must wait
  handler,     \* requests between two awaits
  texts,       \* history: per phone, the ticks its start texts were admitted at
  stopped,     \* history: sessions STOP ended with no turn of theirs in flight
  raced,       \* history: a request began before another was answered
  now, requests, restarts

store == <<sessions, cooldown>>
vars  == <<windows, store, handler, texts, stopped, raced, now, requests, restarts>>

Keys ==
  (Ips \X StartRules) \cup ({StartKey(p) : p \in Phones} \X PhoneRules)
    \cup ({InboundKey(p) : p \in Phones} \X InboundRules)

-----------------------------------------------------------------------------
SmsSession ==
  [phone : Phones, status : {"open", "accepted", "walked", "expired"}, expiresAt : Nat]

TypeOK ==
  /\ windows \in [Keys -> Window]
  /\ sessions \in Seq(SmsSession)
  /\ cooldown \in [Phones -> Nat]
  /\ \A h \in Handlers :
       /\ handler[h].pc \in {"idle", "finding", "nudging", "expiring", "checking", "creating",
                             "texting", "stopping", "posting", "thinking", "cooling"}
       /\ handler[h].session \in 0..Len(sessions)
       /\ handler[h].at \in 0..now
  /\ texts \in [Phones -> Seq(0..MaxNow)]
  /\ stopped \subseteq DOMAIN sessions
  /\ raced \in BOOLEAN
  /\ now \in 0..MaxNow /\ requests \in 0..MaxRequests /\ restarts \in 0..MaxRestarts

Idle(p) == [pc |-> "idle", phone |-> p, session |-> 0, at |-> 0]

Parked == [h \in Handlers |-> Idle(CHOOSE p \in Phones : TRUE)]

Init ==
  /\ windows = [kr \in Keys |-> Shut]
  /\ sessions = <<>>
  /\ cooldown = [p \in Phones |-> 0]
  /\ handler = Parked
  /\ texts = [p \in Phones |-> <<>>]
  /\ stopped = {}
  /\ raced = FALSE
  /\ now = 0 /\ requests = 0 /\ restarts = 0

-----------------------------------------------------------------------------
At(h, pc) == handler[h].pc = pc

Finish(h) == handler' = [handler EXCEPT ![h] = Parked[h]]

Goto(h, pc) == handler' = [handler EXCEPT ![h].pc = pc]

Busy == {h \in Handlers : ~At(h, "idle")}

History == <<texts, stopped, raced>>
Clock   == <<now, requests, restarts>>

\* findOpenSessionByUser: the newest open one of the number; 0 when there is none.
NewestOpen(p) ==
  LET open == {s \in DOMAIN sessions :
                 sessions[s].phone = p /\ sessions[s].status = "open"}
  IN  IF open = {} THEN 0 ELSE CHOOSE s \in open : \A t \in open : t <= s

\* A request comes in; one that goes on is in flight from here.
Arrive(h, locals) ==
  /\ At(h, "idle")
  /\ requests < MaxRequests
  /\ requests' = requests + 1
  /\ handler' = [handler EXCEPT ![h] = locals]
  /\ raced' = (raced \/ (locals.pc # "idle" /\ Busy # {}))
  /\ UNCHANGED <<store, texts, stopped, now, restarts>>

-----------------------------------------------------------------------------
(* Starting a thread *)

\* Seeded fault: the number is not asked for once the address is let through.
AdmittedByIp(ip, p) == Permitted(windows, ip, StartRules, now)

AdmittedStart(ip, p) ==
  /\ Permitted(windows, ip, StartRules, now)
  /\ Permitted(windows, StartKey(p), PhoneRules, now)

\* POST /v1/sms/start: a refused address does not count against the number.
Start(h, ip, p) ==
  /\ windows' =
       LET counted == HitAll(windows, ip, StartRules, now) IN
       IF Permitted(windows, ip, StartRules, now)
         THEN HitAll(counted, StartKey(p), PhoneRules, now) ELSE counted
  /\ Arrive(h, [pc      |-> IF AdmittedStart(ip, p) THEN "finding" ELSE "idle",
                phone   |-> p, session |-> 0, at |-> now])

\* Seeded fault: a start always opens a thread.
ThreadNever(p) == 0

\* The thread a start finds.
Thread(p) == NewestOpen(p)

\* startSmsSession looks for the number's thread.
FindThread(h) ==
  LET s == Thread(handler[h].phone) IN
  /\ At(h, "finding")
  /\ handler' = [handler EXCEPT
       ![h].session = s,
       ![h].pc = IF s = 0 THEN "checking"
                 ELSE IF sessions[s].expiresAt > now THEN "nudging" ELSE "expiring"]
  /\ UNCHANGED <<windows, store, History, Clock>>

\* sendSms: the text goes out, or the carrier refuses it and the request fails.
SendText(h) ==
  /\ At(h, "nudging") \/ At(h, "texting")
  /\ \/ texts' = [texts EXCEPT ![handler[h].phone] = Append(@, handler[h].at)]
     \/ UNCHANGED texts
  /\ Finish(h)
  /\ UNCHANGED <<windows, store, stopped, raced, Clock>>

\* A thread past its timer is closed.
ExpireThread(h) ==
  /\ At(h, "expiring")
  /\ sessions' = [sessions EXCEPT ![handler[h].session].status = "expired"]
  /\ Goto(h, "checking")
  /\ UNCHANGED <<windows, cooldown, History, Clock>>

\* Seeded fault: a text starts over whatever the buyer was told before.
CooledAlways(p) == TRUE

Cooled(p) == now >= cooldown[p]

\* createSession reads the cooldown; in cooldown it is a conflict.
CheckCooldown(h) ==
  /\ At(h, "checking")
  /\ IF Cooled(handler[h].phone) THEN Goto(h, "creating") ELSE Finish(h)
  /\ UNCHANGED <<windows, store, History, Clock>>

\* ... and inserts the session, opener included.
CreateSession(h) ==
  /\ At(h, "creating")
  /\ sessions' = Append(sessions, [phone |-> handler[h].phone, status |-> "open",
                                   expiresAt |-> now + Lifetime])
  /\ Goto(h, "texting")
  /\ UNCHANGED <<windows, cooldown, History, Clock>>

-----------------------------------------------------------------------------
(* A text comes in *)

\* The webhook counts the sender, handleInboundSms routes it to its thread; a
\* number without one, or over its limit, is answered with silence.
Inbound(h, p, stop) ==
  LET s == IF Permitted(windows, InboundKey(p), InboundRules, now) THEN NewestOpen(p) ELSE 0 IN
  /\ windows' = HitAll(windows, InboundKey(p), InboundRules, now)
  /\ Arrive(h, [pc      |-> IF s = 0 THEN "idle" ELSE IF stop THEN "stopping" ELSE "posting",
                phone   |-> p, session |-> s, at |-> now])

Thinking == {handler[h].session : h \in {g \in Handlers : At(g, "thinking")}}

\* STOP ends the thread, whatever became of it meanwhile.
Stop(h) ==
  /\ At(h, "stopping")
  /\ sessions' = [sessions EXCEPT ![handler[h].session].status = "walked"]
  /\ stopped' = stopped \cup ({handler[h].session} \ Thinking)
  /\ Finish(h)
  /\ UNCHANGED <<windows, cooldown, texts, raced, Clock>>

\* Seeded fault: the session found is the session posted to.
IsOpenAsFound(s) == TRUE

\* requireOpenSession reads it again.
IsOpen(s) == sessions[s].status = "open"

\* postMessage; a thread closed meanwhile is silence.
Post(h) ==
  /\ At(h, "posting")
  /\ IF IsOpen(handler[h].session)
       THEN handler' = [handler EXCEPT ![h].pc = "thinking", ![h].at = now] ELSE Finish(h)
  /\ UNCHANGED <<windows, store, History, Clock>>

\* Seeded fault: the type of the action is stored as the status.
Verbatim == {"counter", "accept", "walk"}

\* What a turn may leave its session at.
Outcomes == {"open", "accepted", "walked"}

\* updateSession with the status of the turn; past the expiry one at the message cap
\* may accept, the others walk. A throttled turn, or one held at the cap, writes nothing.
WriteTurn(h) ==
  LET s == handler[h].session IN
  /\ At(h, "thinking")
  /\ \/ UNCHANGED sessions /\ Finish(h)
     \/ \E status \in IF handler[h].at > sessions[s].expiresAt THEN Outcomes \ {"open"}
                      ELSE Outcomes :
          /\ sessions' = [sessions EXCEPT ![s].status = status]
          /\ IF status = "walked" THEN Goto(h, "cooling") ELSE Finish(h)
  /\ UNCHANGED <<windows, cooldown, History, Clock>>

\* startCooldown counts from the time the message was received.
StartCooldown(h) ==
  /\ At(h, "cooling")
  /\ cooldown' = [cooldown EXCEPT ![handler[h].phone] = handler[h].at + Cooldown]
  /\ Finish(h)
  /\ UNCHANGED <<windows, sessions, History, Clock>>

-----------------------------------------------------------------------------
Restart ==
  /\ restarts < MaxRestarts
  /\ restarts' = restarts + 1
  /\ windows' = [kr \in Keys |-> Shut]
  /\ handler' = Parked
  /\ UNCHANGED <<store, History, now, requests>>

Tick ==
  /\ now < MaxNow
  /\ now' = now + 1
  /\ UNCHANGED <<windows, store, handler, History, requests, restarts>>

HandlerStep(h) ==
  \/ FindThread(h) \/ SendText(h) \/ ExpireThread(h) \/ CheckCooldown(h) \/ CreateSession(h)
  \/ Stop(h) \/ Post(h) \/ WriteTurn(h) \/ StartCooldown(h)

Next ==
  \/ \E h \in Handlers : HandlerStep(h)
  \/ \E h \in Handlers, p \in Phones :
       \/ \E ip \in Ips : Start(h, ip, p)
       \/ \E stop \in BOOLEAN : Inbound(h, p, stop)
  \/ Restart
  \/ Tick

Spec == Init /\ [][Next]_vars

-----------------------------------------------------------------------------
(* Properties *)

\* The texts the starts admitted in from..to cost a number.
TextsIn(p, from, to) == Cardinality({i \in DOMAIN texts[p] : texts[p][i] \in from..to})

\* app.ts:70 "a flood aimed at one victim's phone is throttled even when it
\* rotates IPs": in any span of a rule, whatever races and addresses there are, a
\* number gets one text less than two windows allow, and a window more for each
\* restart.
TextsBounded ==
  \A p \in Phones, r \in PhoneRules, t \in 0..MaxNow :
    TextsIn(p, t, t + r.span - 1) <= (2 + restarts) * r.max - 1

\* "One live SMS thread per number" (startSmsSession): requests answered one at a
\* time never fork the haggle, with expiries, STOPs and restarts in between.
OneThread ==
  ~raced => \A s, t \in DOMAIN sessions :
    sessions[s].status = "open" /\ sessions[t].status = "open"
      /\ sessions[s].phone = sessions[t].phone => s = t

\* A walk is final for the cooldown it started: no thread is opened in it, nor
\* beside an open one, by requests answered one at a time, whatever restarts come
\* between.
CooldownHolds ==
  [][\A s \in DOMAIN sessions' \ DOMAIN sessions :
       raced \/
         (now >= cooldown[sessions'[s].phone]
            /\ \A t \in DOMAIN sessions :
                 sessions[t].phone = sessions'[s].phone => sessions[t].status # "open")]_vars

\* "Carrier opt-out keywords end the thread immediately" (service.ts:344): but for
\* a turn that had begun, nothing routed to the thread before brings it back.
StopHolds == \A s \in stopped : sessions[s].status # "open"
=============================================================================
