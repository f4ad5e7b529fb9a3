\* Two certificate requests at a time, with kills and disk errors.
SPECIFICATION Spec
CONSTANTS
    Procs = {p1, p2}
    Pairs = {a, b}
    NoPair = NoPair
    Empty = Empty
    Garbled = Garbled
    MaxUploads = 3
    MaxCrashes = 1
    MaxFaults = 1
SYMMETRY Alike
INVARIANTS
    IInv
    LiveIsAPair
    MemoryMatchesDisk
    StartsAgain
    NoKeyLeftBehind
\* a pair that does not load keeps the process down
CHECK_DEADLOCK FALSE
