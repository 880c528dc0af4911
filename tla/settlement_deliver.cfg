SPECIFICATION Spec
CONSTANTS
  Deals = {d1, d2}
  Proofs = {p1, p2}
  Checkouts = {c1, c2}
  Requests = {r1}
  Hooks = {h1, h2}
  NoDeal = NoDeal
  NoProof = NoProof
  NoCheckout = NoCheckout
  ProofTtl = 1
  CheckoutTtl = 1
  MaxNow = 1
  MaxAccounts = 0
  MaxFaults = 1
SYMMETRY Symmetry
INVARIANTS
  SettledByOwnPayment
  RecordsBounded
PROPERTIES
  KeepsPromise
CHECK_DEADLOCK FALSE
