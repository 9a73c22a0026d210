\* One write without an idempotency key at a target that does not dedupe;
\* requests arrive or are lost within their window.
SPECIFICATION Spec
CONSTANTS
  Exec = {w1}
  Writes = {w1}
  Keyed = {}
  TargetDedupes = FALSE
  NoValue = NoValue
  Value <- DistinctValues
  Workers = {t1}
  DispatchReads = FALSE
  MaxFaults = 2
  HasVerifier = TRUE
  SingleWriter = TRUE
  BoundedDelay = TRUE
  MaxCrashes = 1
INVARIANTS
  OneReplayPerVerdict
