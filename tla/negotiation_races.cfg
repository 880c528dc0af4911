CONSTANTS
  Anchor = 15
  List = 15
  Target = 13
  Floor = 10
  AcceptThreshold = 95
  MaxRounds = 2
  MaxDuration = 1
  NoOffer = NoOffer
  Messages <- MCMessages
  Sessions = {s1}
  Handlers = {h1, h2}
  NoSession = NoSession
  PerMin = 2
  MaxMessages = 3
  Cooldown = 2
  MaxNow = 1
  MaxPosts = 5
  MaxFaults = 1
SPECIFICATION FairSpec
INVARIANTS PricesInBand SpendBounded
PROPERTIES ClosedIsQuiet AcceptedGetsDeal
CHECK_DEADLOCK FALSE
