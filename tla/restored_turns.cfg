\* Two crashes and no other fault: the third process restores the turns of the
\* first two.
SPECIFICATION OpenRouterSpec
CONSTANTS
  a1 = a1
  a2 = a2
  b1 = b1
  Exec = {a1, a2, b1}
  Writes = {a1, b1}
  Keyed = {a1, b1}
  TargetDedupes = FALSE
  NoValue = NoValue
  Value <- DistinctValues
  Workers = {t1}
  Agent = t1
  LastItem = 2
  ItemOf <- PlanItems
  Final = Final
  NoTurn = NoTurn
  MaxSteps = 2
  MaxStarts = 3
  DispatchReads = FALSE
  MaxFaults = 0
  HasVerifier = FALSE
  SingleWriter = TRUE
  BoundedDelay = FALSE
  MaxCrashes = 2
INVARIANTS
  RestoredTurnsAreTheirOwn
\* A finished agent stops.
CHECK_DEADLOCK FALSE
