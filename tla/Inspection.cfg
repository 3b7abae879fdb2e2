CONSTANTS
    Procs = {p1, p2}
    MaxInspections = 1
    MaxToggles = 1
    MaxCrashes = 1
    MaxStuck = 1
SYMMETRY ProcSymmetry
CHECK_DEADLOCK FALSE
SPECIFICATION Spec
INVARIANTS FileRunsOnlyConfirmed CancelledIsNoResult OnlyStagingIsLeft LiveDirsAreKept
