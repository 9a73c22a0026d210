\* One keyed write, one thread, a target that dedupes.
SPECIFICATION Spec
CONSTANTS
  Exec = {w1}
  Writes = {w1}
  Keyed = {w1}
  TargetDedupes = TRUE
  NoValue = NoValue
  Value <- DistinctValues
  Workers = {t1}
  DispatchReads = FALSE
  MaxFaults = 1
  HasVerifier = TRUE
  SingleWriter = TRUE
  BoundedDelay = FALSE
  MaxCrashes = 1
INVARIANTS
  FailedIsDefinite
