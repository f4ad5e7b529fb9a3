\* Uploads one after the other: how many builds stay?
SPECIFICATION Spec
CONSTANTS
    ios = ios
    android = android
    NoBundle = NoBundle
    Procs = {p1}
    Platforms = {ios, android}
    Builds <- OneBuild
    KeepN = 1
    MaxApps = 1
    MaxVersions = 2
    MaxClock = 1
    MaxCrashes = 0
    MaxFaults = 0
INVARIANTS
    KeepsConfiguredNumber
\* no request need arrive once the bounds are used up
CHECK_DEADLOCK FALSE
