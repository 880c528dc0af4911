CONSTANTS
  Anchor = 100040
  List = 100036
  Target = 100030
  Floor = 100024
  AcceptThreshold = 90
  MaxRounds = 3
  MaxDuration = 1
  NoOffer = NoOffer
  Figments = {100024}
  MaxTurns = 2
  Messages <- MCMessages
SPECIFICATION Spec
INVARIANT TemplateIsSafe
CHECK_DEADLOCK FALSE
