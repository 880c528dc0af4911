CONSTANTS
  Anchor = 40
  List = 36
  Target = 30
  Floor = 24
  AcceptThreshold = 86
  MaxRounds = 3
  MaxDuration = 1
  NoOffer = NoOffer
  Figments = {24}
  MaxTurns = 4
  Messages <- MCMessages
SPECIFICATION Spec
INVARIANTS TypeOK AskIsEarned PriceIsEarned
PROPERTIES AskNeverRises YesSeals ReplyTellsNoOther
CHECK_DEADLOCK FALSE
