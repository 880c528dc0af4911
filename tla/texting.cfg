CONSTANTS
  Phones = {p1}
  Ips = {i1, i2}
  Handlers = {h1, h2}
  StartRules <- MCStartRules
  PhoneRules <- MCPhoneRules
  InboundRules <- MCInboundRules
  MaxWindows = 4
  Lifetime = 1
  Cooldown = 2
  MaxNow = 2
  MaxRequests = 4
  MaxRestarts = 1
SPECIFICATION Spec
INVARIANTS TypeOK TextsBounded OneThread StopHolds
PROPERTY CooldownHolds
SYMMETRY Symmetry
CHECK_DEADLOCK FALSE
