CONSTANTS
  c1 = c1
  c2 = c2
  Calls = {c1, c2}
  Names <- MCNames
  Asked <- MCAsked
  Targets <- MCTargets
  Size <- MCSize
  MaxRedirects = 3
  CacheBound = 0
  Fresh = 1
  BodyBound = 2
  LineBound = 2
  MaxWorld = 1
CHECK_DEADLOCK FALSE
SPECIFICATION NetworkSpec
INVARIANTS RequestsStayGuarded SizeIsTrue RepliesArePaired ClientFitsTheCall
PROPERTIES CallsEnd
