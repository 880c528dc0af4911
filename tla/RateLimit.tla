------------------------------ MODULE RateLimit ------------------------------
(***************************************************************************)
(* The fixed-window limiter of ratelimit.ts: one window per key and rule,  *)
(* opened by the first hit after the last one ran out, over-limit hits     *)
(* counted. windows[k, r] is the window of key k for rule r; one that was  *)
(* never opened, or was swept, is Shut.                                    *)
(***************************************************************************)
EXTENDS Integers, FiniteSets

CONSTANT MaxWindows     \* the map is swept when it grows past it

Rule   == [span : Nat \ {0}, max : Nat \ {0}]
Window == [count : Nat, resetAt : Nat]

Shut == [count |-> 0, resetAt |-> 0]

Counted(w, r, t) ==
  IF t >= w.resetAt THEN [count |-> 1, resetAt |-> t + r.span]
  ELSE [w EXCEPT !.count = @ + 1]

\* sweep: the windows that ran out are dropped.
Sweep(windows, t) ==
  [kr \in DOMAIN windows |-> IF t >= windows[kr].resetAt THEN Shut ELSE windows[kr]]

Guarded(windows, t) ==
  IF Cardinality({kr \in DOMAIN windows : windows[kr] # Shut}) > MaxWindows
    THEN Sweep(windows, t) ELSE windows

\* hitAll, every rule counted: the windows after it ...
HitAll(windows, key, rules, t) ==
  Guarded([kr \in DOMAIN windows |->
             IF kr[1] = key /\ kr[2] \in rules
               THEN Counted(windows[kr], kr[2], t) ELSE windows[kr]], t)

\* ... and whether all of them permit the hit.
Permitted(windows, key, rules, t) ==
  \A r \in rules : Counted(windows[<<key, r>>], r, t).count <= r.max
=============================================================================
