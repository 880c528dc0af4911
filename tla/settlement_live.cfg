SPECIFICATION FairSpec
CONSTANTS
  Deals = {d1}
  Proofs = {p1, p2}
  Checkouts = {c1, c2}
  Requests = {r1}
  Hooks = {h1}
  NoDeal = NoDeal
  NoProof = NoProof
  NoCheckout = NoCheckout
  ProofTtl = 1
  CheckoutTtl = 1
  MaxNow = 1
  MaxAccounts = 2
  MaxFaults = 1
PROPERTIES
  PaidSettles
CHECK_DEADLOCK FALSE
