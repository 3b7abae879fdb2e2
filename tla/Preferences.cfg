CONSTANTS
  c1 = c1
  c2 = c2
  Caller <- MCCaller
  MaxNames = 2
  MaxCalls = 3
  MaxFaults = 2
  MaxUser = 1
CHECK_DEADLOCK FALSE
SYMMETRY MCSymmetry
SPECIFICATION Spec
INVARIANTS UnusableFilesAreKept LoginEntryIsWanted
