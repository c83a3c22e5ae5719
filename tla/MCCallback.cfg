\* A policy of two attempts, for two heartbeats and for the end.
SPECIFICATION FairSpec
CONSTANTS
  MaxAttempts = 2
  NoPolicy = NoPolicy
  MaxSequence = 3
INVARIANTS
  IInv
  OneEventPerSequence
  SequenceFollowsProgress
PROPERTIES
  NothingSentAfterTerminal
  SettledIsFinal
  TerminalNotifyEnds
