CONSTANTS
  BandCeiling = 100
  Multiplier = 170
  CostRate = 60
  Handlers = {h1, h2}
  Usages = {10, 200}
  Cycles = {1, 2, 3}
  BreachCycles = 2
  DownwardEnabled = TRUE
  DownCycles = 2
  LowCeiling = 20
  Directions = {"up"}
  FirstPrice = 100
  MaxRequests = 4
  MaxFaults = 1
SPECIFICATION Spec
INVARIANTS TypeOK RecordedInBand BilledIsRecorded OneRenegEach RaiseIsSustained EndIsCarriedThrough LinkGoesWithSession TallyIsWhole
SYMMETRY Symmetry
CHECK_DEADLOCK FALSE
