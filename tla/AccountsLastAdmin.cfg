\* Two admins demote each other.
SPECIFICATION Spec
CONSTANTS
    Procs = {p1, p2}
    Legacy = 1
    RemovesLine = FALSE
    MaxUsers = 3
    MaxSessions = 2
    MaxTokens = 1
    MaxCrashes = 1
INVARIANTS
    AdminRemains
\* no request need arrive once the bounds are used up
CHECK_DEADLOCK FALSE
