CONSTANTS
  a = a
  b = b
  old = old
  new1 = new1
  new2 = new2
  p1 = p1
  p2 = p2
  Path <- MCPath
  Content <- MCContent
  HasIcon <- MCHasIcon
  Uuid <- MCUuid
  Proc <- MCProc2
  Old = old
  Installed = a
  MaxOps = 2
  MaxFaults = 1
  MaxCrashes = 0
  Nothing = Nothing
CHECK_DEADLOCK FALSE
SPECIFICATION Spec
PROPERTIES FreshInstallsKeepOff
