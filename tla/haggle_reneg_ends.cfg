CONSTANTS
  Anchor = 40
  List = 24
  Target = 30
  Floor = 24
  AcceptThreshold = 90
  MaxRounds = 3
  MaxDuration = 1
  NoOffer = NoOffer
  Figments = {24}
  MaxTurns = 5
  Messages <- MCMessages
SPECIFICATION Spec
INVARIANT RenegTerminates
CHECK_DEADLOCK FALSE
