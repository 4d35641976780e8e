\* Three attempts: two may leave files and orphans to the third.
CONSTANT MaxAttempts = 3
SPECIFICATION Spec
INVARIANTS
  SubmittedIsOwn
