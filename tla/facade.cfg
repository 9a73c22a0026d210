\* One run with two executions and a plan of two items in a store it shares,
\* with an automatic checkpoint every third sequence id.
SPECIFICATION Spec
CONSTANTS
  Exec = {e1, e2}
  Steps <- TwoSteps
  SequenceIndex <- Contiguous
  DependsOn <- InOrder
  InitialStatus <- AllPending
  NoItem = NoItem
  CheckpointInterval = 3
  SeedMessages = 1
  MaxSeq = 11
SYMMETRY ExecSymmetry
INVARIANTS
  TypeOK
  LogAgrees
  CheckpointRebuilds
  SyncedWithPlanner
PROPERTIES
  ImplementsJournal
\* The store's log is full once MaxSeq events are written.
CHECK_DEADLOCK FALSE
