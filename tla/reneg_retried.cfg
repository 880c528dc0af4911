CONSTANTS
  BandCeiling = 100
  Multiplier = 170
  CostRate = 60
  Handlers = {h1}
  Usages = {10, 200}
  Cycles = {1, 2}
  BreachCycles = 2
  DownwardEnabled = FALSE
  DownCycles = 2
  LowCeiling = 20
  Directions = {"up"}
  FirstPrice = 100
  MaxRequests = 4
  MaxFaults = 0
SPECIFICATION Spec
INVARIANT RaiseHasCycles
CHECK_DEADLOCK FALSE
