\* The restart the README asks for after the first login.
SPECIFICATION FairSpec
CONSTANTS
    Procs = {p1, p2}
    Legacy = 0
    RemovesLine = TRUE
    MaxUsers = 1
    MaxSessions = 1
    MaxTokens = 0
    MaxCrashes = 1
PROPERTIES
    RestartServes
\* no request need arrive once the bounds are used up
CHECK_DEADLOCK FALSE
