\* A plan of two writes under the sample agent's own loop, one crash or
\* failure of the mirror.
SPECIFICATION FairMatrixSpec
CONSTANTS
  w1 = w1
  w2 = w2
  Exec = {w1, w2}
  Writes = {w1, w2}
  Keyed = {w1, w2}
  TargetDedupes = TRUE
  NoValue = NoValue
  Value <- DistinctValues
  Workers = {t1}
  Agent = t1
  Script <- InPlanOrder
  DispatchReads = FALSE
  MaxFaults = 1
  HasVerifier = TRUE
  SingleWriter = TRUE
  BoundedDelay = FALSE
  MaxCrashes = 1
PROPERTIES
  IntentIsReplayed
\* A finished agent stops.
CHECK_DEADLOCK FALSE
