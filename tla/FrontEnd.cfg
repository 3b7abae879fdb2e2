CONSTANTS
  File <- MCFile
  MaxOps = 3
  MaxWaiting = 1
  MaxCancels = 2
CHECK_DEADLOCK FALSE
SPECIFICATION Spec
INVARIANTS BusyIsLive OfferIsWhole NoteGoes
