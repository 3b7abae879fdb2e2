CONSTANTS
  a = a
  b = b
  old = old
  new1 = new1
  new2 = new2
  p1 = p1
  p2 = p2
  Path <- MCPath
  Content <- MCContent
  HasIcon <- MCHasIcon
  Uuid <- MCUuid
  Proc <- MCProc1
  Old = old
  Installed = a
  MaxOps = 3
  MaxFaults = 1
  MaxCrashes = 1
  Nothing = Nothing
CHECK_DEADLOCK FALSE
SPECIFICATION Spec
INVARIANTS FailedIntegrationKeepsFiles RemovedIsGone RegisteredIsHeld
PROPERTIES MovedIsInstalled
