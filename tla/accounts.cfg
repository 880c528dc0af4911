CONSTANTS
  Emails = {e1}
  Words = {w1, w2}
  Urls = {u1}
  NoUrl = NoUrl
  Prices = {1, 2, 3, 4}
  Handlers = {h1, h2}
  MaxRequests = 5
  MaxFaults = 1
SPECIFICATION Spec
INVARIANTS TypeOK EmailUnique ResetOnce LiveIsNotified PlanLadder NothingLeft
PROPERTY HandedHolds
SYMMETRY Symmetry
CHECK_DEADLOCK FALSE
