CONSTANTS
  v1 = v1
  v2 = v2
  v2rebuilt = v2rebuilt
  v2foreign = v2foreign
  Content <- MCContent
  Version <- MCVersion
  VersionOf <- MCVersionOf
  ArchOf <- MCArchOf
  Supported <- MCSupported
  AppArch = "x86_64"
  UnknownArch = "unknown"
  Supersedes <- MCSupersedes
  Installed = v1
  Attempt <- MCAttempt2
  MaxFaults = 1
  MaxCrashes = 1
  MaxToggles = 1
  Nothing = Nothing
  Partial = Partial
  BadDigest = BadDigest
CHECK_DEADLOCK FALSE
SPECIFICATION FairSpec
INVARIANTS EarlyCancelInstallsNothing FailedApplyRestores SuccessAligns NoStagingLeft
PROPERTIES RollbackMaterialIsKept OnlyVerifiedOrRestored CancelEnds
