------------------------- MODULE SettlementPromise --------------------------
(***************************************************************************)
(* What the settlement of a deal promises, whatever handlers interleave,   *)
(* die or run twice: money first, then the deal, then the record of the    *)
(* entitlement, then the merchant, and nothing is ever taken back.         *)
(* docs/stripe-verification.md, "The money path".                          *)
(***************************************************************************)
CONSTANT Deals

VARIABLES
  funded,    \* deals some payment of which is captured
  settled,   \* deals with status "settled"
  closed,    \* deals whose session has status "settled"
  granted,   \* deals with a durable entitlement record
  told       \* deals the merchant was told of

vars == <<funded, settled, closed, granted, told>>

Init ==
  /\ funded = {} /\ settled = {} /\ closed = {} /\ granted = {} /\ told = {}

\* A payment of the deal is captured.
Fund(d) ==
  /\ funded' = funded \cup {d}
  /\ UNCHANGED <<settled, closed, granted, told>>

\* Only a funded deal is settled.
Settle(d) ==
  /\ d \in funded
  /\ settled' = settled \cup {d}
  /\ UNCHANGED <<funded, closed, granted, told>>

\* The session of a deal is settled after the deal.
Close(d) ==
  /\ d \in settled
  /\ closed' = closed \cup {d}
  /\ UNCHANGED <<funded, settled, granted, told>>

\* The entitlement is recorded after both.
Grant(d) ==
  /\ d \in closed
  /\ granted' = granted \cup {d}
  /\ UNCHANGED <<funded, settled, closed, told>>

\* The merchant hears only of a recorded entitlement.
Tell(d) ==
  /\ d \in granted
  /\ told' = told \cup {d}
  /\ UNCHANGED <<funded, settled, closed, granted>>

Next == \E d \in Deals : Fund(d) \/ Settle(d) \/ Close(d) \/ Grant(d) \/ Tell(d)

Spec == Init /\ [][Next]_vars
=============================================================================
