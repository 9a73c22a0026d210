\* A plan of two items, three steps; a read or a write serves the first item;
\* the target does not dedupe.
SPECIFICATION FairOpenRouterSpec
CONSTANTS
  a1 = a1
  a2 = a2
  b1 = b1
  Exec = {a1, a2, b1}
  Writes = {a1, b1}
  Keyed = {a1, b1}
  TargetDedupes = FALSE
  NoValue = NoValue
  Value <- DistinctValues
  Workers = {t1}
  Agent = t1
  LastItem = 2
  ItemOf <- PlanItems
  Final = Final
  NoTurn = NoTurn
  MaxSteps = 3
  MaxStarts = 2
  DispatchReads = FALSE
  MaxFaults = 1
  HasVerifier = FALSE
  SingleWriter = TRUE
  BoundedDelay = FALSE
  MaxCrashes = 1
INVARIANTS
  OpenRouterTypeOK
  AttemptsAreNumbered
  SpanBeforeWork
  SucceededMeansAdvanced
  ReportAccountsForCrashes
  SentAtMostOnce
PROPERTIES
  EveryProcessEnds
\* A finished agent stops.
CHECK_DEADLOCK FALSE
