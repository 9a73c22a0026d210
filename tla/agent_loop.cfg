\* A plan of two keyed writes at a target that dedupes, in idempotent mode as
\* the sample agent uses it.
SPECIFICATION FairMatrixSpec
CONSTANTS
  w1 = w1
  w2 = w2
  Exec = {w1, w2}
  Writes = {w1, w2}
  Keyed = {w1, w2}
  TargetDedupes = TRUE
  NoValue = NoValue
  Value <- DistinctValues
  Workers = {t1}
  Agent = t1
  Script <- InPlanOrder
  DispatchReads = FALSE
  MaxFaults = 2
  HasVerifier = TRUE
  SingleWriter = TRUE
  BoundedDelay = FALSE
  MaxCrashes = 1
INVARIANTS
  LoopTypeOK
  PlanOrder
  DoneIsNotRepeated
  UnresolvedStaysVisible
  SweepPasses
PROPERTIES
  AgentFinishes
  AmbiguousWritesAreJudged
\* A finished agent stops.
CHECK_DEADLOCK FALSE
