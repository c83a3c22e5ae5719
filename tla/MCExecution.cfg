\* Two attempts each way; sizes from nothing to one unit above both limits.
SPECIFICATION FairSpec
CONSTANTS
  InputAttempts = 2
  OutputAttempts = 2
  MaxInput = 2
  MaxOutput = 3
  StallTicks = 3
INVARIANTS
  EncodesWholeInput
  OutcomeIsTrue
  StallIsReal
PROPERTIES
  StepsOfWorker
  StallEnds
CHECK_DEADLOCK FALSE
