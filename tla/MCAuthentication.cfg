\* Three bits of time; every document of the list at the start and later.
SPECIFICATION Spec
CONSTANTS
  Settings <- MCSettings
  Tokens <- MCTokens
  Documents <- MCDocuments
  Skew = 2
  DefaultLifetime = 2
  LifetimeLimit = 4
  MaxKeys = 2
  Top = 7
  None = None
  Malformed = Malformed
INVARIANTS
  SettingsEnforced
  OnlySignedContent
  LifetimeBounded
CHECK_DEADLOCK FALSE
