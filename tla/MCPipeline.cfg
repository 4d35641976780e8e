CONSTANTS
  MaxPolls = 1
  MaxRetries = 1
  MaxSize = 2
  ChunkSize = 3
  MaxPages = 4
  MaxStuck = 0
SPECIFICATION MCSpec
INVARIANTS
  AllPostsBounded
  VerdictFollowsAnswer
  TooLargeByExtension
PROPERTIES
  SubmissionSpec
  ChunkingSpec
