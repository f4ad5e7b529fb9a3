\* Pruning against a pin: the current version is pruned.
SPECIFICATION Spec
CONSTANTS
    ios = ios
    android = android
    NoBundle = NoBundle
    Procs = {p1, p2}
    Platforms = {ios, android}
    Builds <- OneBuild
    KeepN = 1
    MaxApps = 1
    MaxVersions = 3
    MaxClock = 1
    MaxCrashes = 0
    MaxFaults = 0
PROPERTIES
    NeverPrunesCurrent
\* no request need arrive once the bounds are used up
CHECK_DEADLOCK FALSE
