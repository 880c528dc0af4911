CONSTANTS
  Anchor = 40
  List = 36
  Target = 30
  Floor = 24
  AcceptThreshold = 86
  MaxRounds = 3
  MaxDuration = 1
  NoOffer = NoOffer
  Figments = {24}
  MaxTurns = 2
  Messages <- MCMessages
SPECIFICATION Spec
PROPERTY ReplyLeaksNothing
CHECK_DEADLOCK FALSE
