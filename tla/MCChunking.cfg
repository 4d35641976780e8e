\* Chunks of 5 pages and documents of up to 8: bisection is three deep, even
\* and odd ranges occur, and the last chunk is full or not.
CONSTANTS
  ChunkSize = 5
  MaxPages = 8
  MaxStuck = 1
SPECIFICATION FairSpec
INVARIANTS
  ChunkInv
  PagesInOrder
  TempFiles
  DepthBounded
  SubmissionsBounded
  PictureBeforeGivingUp
PROPERTIES
  Terminates
