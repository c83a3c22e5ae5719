\* Four runs around the number of digits' change, two builds kept.
SPECIFICATION Spec
CONSTANTS
  First = 8
  Last = 11
  Images = {x86}
  Keep = 2
  None = None
INVARIANTS
  KeepsNewest
PROPERTIES
  LeftoversGo
