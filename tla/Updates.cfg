CONSTANTS
  a1 = a1
  a2 = a2
  Largest = 2
  PatternLimit = 3
  NameLimit = 5
  Word <- MCWord
  App <- MCApp
  Files <- MCFiles
  Built <- MCBuilt
  Typed <- MCTyped
  Releases <- MCReleases
  Noisy <- MCNoisy
  MaxRuns = 1
  MaxWorld = 1
CHECK_DEADLOCK FALSE
SPECIFICATION Spec
INVARIANTS OkMeansUpToDate CancelledIsReported CheckPicksTheFile
PROPERTIES UpdatesGoForward
