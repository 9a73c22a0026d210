\* One keyed write and one read, one thread, a target that dedupes,
\* requests that may arrive arbitrarily late.
SPECIFICATION Spec
CONSTANTS
  Exec = {w1, r}
  Writes = {w1}
  Keyed = {w1}
  TargetDedupes = TRUE
  NoValue = NoValue
  Value <- DistinctValues
  Workers = {t1}
  DispatchReads = TRUE
  MaxFaults = 2
  HasVerifier = TRUE
  SingleWriter = TRUE
  BoundedDelay = FALSE
  MaxCrashes = 2
INVARIANTS
  TypeOK
  LogBeforeSend
  PendingIffUnsettled
  CommittedIsReal
  ExactlyOnceEffect
  ReconciledOnce
  NoIllegalMove
