\* Two processes at one store, every method and action, three calls, one process killed.
SPECIFICATION StoreSpec
CONSTANTS
  c1 = c1
  c2 = c2
  legacy = legacy
  bump = bump
  idem = idem
  altered = altered
  rifl = rifl
  object = object
  counter = counter
  i1 = i1
  i2 = i2
  Clients = {c1, c2}
  Requests = {legacy, bump, idem, altered, rifl, object, counter}
  Ids = {i1, i2}
  NoId = NoId
  NoValue = NoValue
  Deleted = Deleted
  Missing = Missing
  Empty = Empty
  Torn = Torn
  Kind <- Kind_
  Id <- Id_
  Action <- Action_
  Value <- Value_
  Seams = {5}
  MaxCalls = 3
  MaxCrashes = 1
  MaxTexts = 1
SYMMETRY AnyClient
INVARIANTS
  StoreTypeOK
  WholeSnapshots
  AnswersStand
PROPERTIES
  QuietStepsKeepTheStore
  AppliesAtomically
\* The calls are bounded: the system stops when they are used up.
CHECK_DEADLOCK FALSE
