\* Somebody reads the run while its agent writes: a plan of one item and one
\* execution, for every promise is about one execution and what others write
\* only adds events; an automatic checkpoint every fifth sequence id.
SPECIFICATION ReadersSpec
CONSTANTS
  Exec = {e1}
  Steps <- OneStep
  SequenceIndex <- AtZero
  DependsOn <- OnAnotherPlan
  InitialStatus <- TriedBefore
  NoItem = NoItem
  CheckpointInterval = 5
  SeedMessages = 1
  MaxSeq = 10
  EventLimit = 3
INVARIANTS
  BundleReplays
  BundleLooksForward
  AuditBlamesOnlyNewcomers
\* The store's log is full once MaxSeq events are written.
CHECK_DEADLOCK FALSE
