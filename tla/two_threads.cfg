\* One keyed write, two threads and a recovery pass that may all work on it at
\* once; a target that dedupes, requests that may arrive arbitrarily late.
SPECIFICATION Spec
CONSTANTS
  Exec = {w1}
  Writes = {w1}
  Keyed = {w1}
  TargetDedupes = TRUE
  NoValue = NoValue
  Value <- DistinctValues
  Workers = {t1, t2}
  DispatchReads = FALSE
  MaxFaults = 2
  HasVerifier = TRUE
  SingleWriter = FALSE
  BoundedDelay = FALSE
  MaxCrashes = 1
INVARIANTS
  SuccessIsDurable
  AuditClean
  ExactlyOnceEffect
PROPERTIES
  CommittedStays
