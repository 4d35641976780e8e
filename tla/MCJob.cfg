\* Two workers, three deliveries: attempts overlap, and a worker repeats one
\* that died on its own disk.
CONSTANTS
  w1 = w1
  w2 = w2
  Workers = {w1, w2}
  MaxAttempts = 3
  Milestones = {65}
SYMMETRY WorkerSymmetry
SPECIFICATION Spec
INVARIANTS
  JobInv
  NothingLeftBehind
PROPERTIES
  StoresOwnText
  ContractSpec
