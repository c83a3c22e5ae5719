\* Reads of one to four bytes; the log runs through head, gap and tail.
SPECIFICATION Spec
CONSTANTS
  Documents <- MCDocuments
  Outputs <- MCOutputs
  MaxArgs = 4
  ReadLimit = 4
  LineLimit = 3
  LogLimit = 2
  Top = 20
  MaxLog = 6
INVARIANTS
  CommandAsAdmitted
  CountersSeeWholeLines
  LogKeepsBothEnds
CHECK_DEADLOCK FALSE
