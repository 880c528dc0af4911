CONSTANTS
  Anchor = 15
  List = 15
  Target = 13
  Floor = 10
  AcceptThreshold = 95
  MaxRounds = 2
  MaxDuration = 1
  NoOffer = NoOffer
  Messages <- MCMessages
  Sessions = {s1, s2}
  Handlers = {h1}
  NoSession = NoSession
  PerMin = 2
  MaxMessages = 3
  Cooldown = 2
  MaxNow = 2
  MaxPosts = 6
  MaxFaults = 1
SPECIFICATION Spec
INVARIANTS TypeOK OneDealEach
PROPERTY AskNeverRises
SYMMETRY Symmetry
CHECK_DEADLOCK FALSE
