\* Two workers, one partition: a malformed message, then two requests.
CONSTANTS
  w1 = w1
  w2 = w2
  p1 = p1
  p2 = p2
  Workers = {w1, w2}
  Partitions = {p1}
  LogLen = 3
  Malformed <- OneMalformed
  None = None
  MaxEvents = 1
  MaxFaults = 2
  MaxShutdowns = 1
SYMMETRY WorkerSymmetry
SPECIFICATION Spec
INVARIANTS
  IntakeInv
  PublishedInOrder
PROPERTIES
  RedeliveryNeedsFault
  CommitRegressionNeedsFault
  IntakeSpec
