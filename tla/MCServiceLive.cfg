\* Liveness: one worker, both engines, a fault and a shutdown.
CONSTANTS
  w1 = w1
  w2 = w2
  p1 = p1
  Workers = {w1}
  Partitions = {p1}
  LogLen = 1
  Malformed = {}
  None = None
  MaxEvents = 6
  MaxFaults = 1
  MaxShutdowns = 1
  MaxAttempts = 3
  Milestones = {65}
  Requests <- AnyEngine
SPECIFICATION MCFairSpec
PROPERTIES
  SettledUnlessHung
