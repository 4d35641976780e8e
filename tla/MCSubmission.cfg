\* All configurations and sizes from 0 to 2, the code's own number of retries.
CONSTANTS
  MaxPolls = 2
  MaxRetries = 8
  MaxSize = 2
SPECIFICATION FairSpec
INVARIANTS
  SizeLimitRespected
  RefusedPdfIsCut
  GivenUpLast
  PostsBounded
PROPERTIES
  ProgressMonotone
  Terminates
