\* A client that may lose its answer beside one other request, both platforms, fairness.
SPECIFICATION CliFairSpec
CONSTANTS
    ios = ios
    android = android
    NoBundle = NoBundle
    NoClient = NoClient
    NoRequest = NoRequest
    Clients = {c1}
    MaxRuns = 2
    MaxOthers = 2
    Procs = {p1, p2}
    Platforms = {ios, android}
    Builds <- MixedBuilds
    KeepN = 1
    MaxApps = 1
    MaxVersions = 2
    MaxClock = 0
    MaxCrashes = 1
    MaxFaults = 0
INVARIANTS
    CurrentNeverAliases
    CliIInv
    PublishedOncePerAnswer
    CreatedMeansPublished
PROPERTIES
    ImplementsShelf
    RequestsFinish
\* no request need arrive once the bounds are used up
CHECK_DEADLOCK FALSE
