\* Two requests at a time on up to three accounts, a kill at any moment, and
\* an operator who edits config.toml.
SPECIFICATION Spec
CONSTANTS
    Procs = {p1, p2}
    Legacy = 1
    RemovesLine = TRUE
    MaxUsers = 3
    MaxSessions = 2
    MaxTokens = 1
    MaxCrashes = 1
SYMMETRY Goroutines
INVARIANTS
    IInv
    CredentialsBelongToTheirOwner
    AdminRemainsUnlessOverlap
    DisabledKeepsOnlyStray
PROPERTIES
    TokensRemovedByOwner
\* no request need arrive once the bounds are used up
CHECK_DEADLOCK FALSE
