\* Two workers compete for a request; a fault makes their attempts overlap, and
\* one of them may be told to shut down.
CONSTANTS
  w1 = w1
  w2 = w2
  p1 = p1
  Workers = {w1, w2}
  Partitions = {p1}
  LogLen = 1
  Malformed = {}
  None = None
  MaxEvents = 6
  MaxFaults = 1
  MaxShutdowns = 1
  MaxAttempts = 3
  Milestones = {}
  Requests <- AzureRequests
SYMMETRY WorkerSymmetry
SPECIFICATION MCSpec
INVARIANTS
  SuccessToldMeansStored
  DeliveriesBounded
