SPECIFICATION Spec
CONSTANTS
  Deals = {d1}
  Proofs = {p1}
  Checkouts = {c1}
  Requests = {r1}
  Hooks = {h1}
  NoDeal = NoDeal
  NoProof = NoProof
  NoCheckout = NoCheckout
  ProofTtl = 1
  CheckoutTtl = 2
  MaxNow = 0
  MaxAccounts = 0
  MaxFaults = 1
SYMMETRY Symmetry
INVARIANTS
  SettledIsRecorded
CHECK_DEADLOCK FALSE
