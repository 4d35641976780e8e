\* A committed request without a published result.
CONSTANTS
  w1 = w1
  w2 = w2
  p1 = p1
  p2 = p2
  Workers = {w1}
  Partitions = {p1}
  LogLen = 1
  Malformed <- NoneMalformed
  None = None
  MaxEvents = 1
  MaxFaults = 0
  MaxShutdowns = 0
SPECIFICATION Spec
INVARIANTS
  CommittedMeansAnswered
