CONSTANTS
  old = old
  new = new
  real = real
  link = link
  other = other
  s1 = s1
  s2 = s2
  Uuid <- MCUuid
  Legacy = old
  Path <- MCPath
  Canon <- MCCanon
  Outside <- MCOutside
  LegacyPath = link
  Session <- MCSession
  MaxCalls = 2
  MaxFaults = 2
  MaxUser = 1
CHECK_DEADLOCK FALSE
SYMMETRY MCSymmetry
SPECIFICATION Spec
INVARIANTS TableIsWhatWasAsked EntryFollowsRow OneRowPerFile NamedIconIsThere
