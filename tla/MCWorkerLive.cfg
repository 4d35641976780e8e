\* Liveness: two workers, two partitions, one request each.
CONSTANTS
  w1 = w1
  w2 = w2
  p1 = p1
  p2 = p2
  Workers = {w1, w2}
  Partitions = {p1, p2}
  LogLen = 1
  Malformed <- OneMalformed
  None = None
  MaxEvents = 2
  MaxFaults = 1
  MaxShutdowns = 1
SPECIFICATION FairSpec
PROPERTIES
  AllSettled
  LagVanishes
