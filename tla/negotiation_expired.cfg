CONSTANTS
  Anchor = 15
  List = 15
  Target = 13
  Floor = 10
  AcceptThreshold = 95
  MaxRounds = 2
  MaxDuration = 1
  NoOffer = NoOffer
  Messages <- MCMessages
  Sessions = {s1}
  Handlers = {h1}
  NoSession = NoSession
  PerMin = 4
  MaxMessages = 5
  Cooldown = 2
  MaxNow = 2
  MaxPosts = 3
  MaxFaults = 0
SPECIFICATION Spec
INVARIANT ExpiredNeverCloses
CHECK_DEADLOCK FALSE
