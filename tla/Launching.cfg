CONSTANTS
    BusyAttempts = 1
    MaxOutput = 1
    MaxRequests = 2
CHECK_DEADLOCK FALSE
SPECIFICATION LaunchSpec
INVARIANTS StoppedRunsAreGone NotRunningIsTrue
PROPERTIES RunReturns
