\* Two workers and one waiting slot: the channel, both workers and the slot
\* limit are all reached, and a fourth caller meets a full agent.
SPECIFICATION Spec
CONSTANTS
  Ids = {i1, i2, i3, i4}
  Attempts = {a1, a2, a3, a4}
  Workers = {w1, w2}
  Queue = 1
  Deadline = TRUE
  None = None
SYMMETRY Symmetry
INVARIANTS
  IInv
  PlacedOnce
  OneAttemptPerId
  SlotAccounting
  ChannelHasRoom
  ShutdownLeavesNothing
PROPERTIES
  NothingAdvancesAfterCancel
  ImplementsPromise
