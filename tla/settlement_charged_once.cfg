SPECIFICATION Spec
CONSTANTS
  Deals = {d1}
  Proofs = {p1, p2}
  Checkouts = {c1, c2}
  Requests = {r1, r2}
  Hooks = {h1}
  NoDeal = NoDeal
  NoProof = NoProof
  NoCheckout = NoCheckout
  ProofTtl = 1
  CheckoutTtl = 2
  MaxNow = 0
  MaxAccounts = 0
  MaxFaults = 0
SYMMETRY Symmetry
INVARIANTS
  ChargedOnce
CHECK_DEADLOCK FALSE
