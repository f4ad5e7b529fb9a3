\* One request at a time, with a kill and an ignored error anywhere.
SPECIFICATION Spec
CONSTANTS
    ios = ios
    android = android
    NoBundle = NoBundle
    Procs = {p1}
    Platforms = {ios, android}
    Builds <- IOSBuilds
    KeepN = 1
    MaxApps = 1
    MaxVersions = 3
    MaxClock = 1
    MaxCrashes = 1
    MaxFaults = 1
INVARIANTS
    SerialIInv
    FilesAreListed
    TempFilesOwned
    NoDanglingCurrent
    
PROPERTIES
    NeverPrunesCurrent
\* no request need arrive once the bounds are used up
CHECK_DEADLOCK FALSE
