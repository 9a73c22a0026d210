\* Two writes of the same key, one of them without its execution id, at a target
\* that does not dedupe; requests arrive or are lost within their window.
SPECIFICATION Spec
CONSTANTS
  Exec = {w1, w2}
  Writes = {w1, w2}
  Keyed = {w1}
  TargetDedupes = FALSE
  NoValue = NoValue
  Value <- DistinctValues
  Workers = {t1}
  DispatchReads = TRUE
  MaxFaults = 2
  HasVerifier = TRUE
  SingleWriter = TRUE
  BoundedDelay = TRUE
  MaxCrashes = 1
INVARIANTS
  NeverBlindlyRefired
  OneCommitPerVerdict
