\* Three attempts, turns of up to three events.
SPECIFICATION LlmFairSpec
CONSTANTS
  MaxAttempts = 3
  TurnTimeout = 2
  RetryDelay = 1
  MaxVerify = 1
  MaxEvents = 3
INVARIANTS
  Coherent
  AttemptsNotCutShort
  TurnExact
PROPERTIES
  EverythingEnds
  ImplementsLoop
