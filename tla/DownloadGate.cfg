\* A browser, two apps that may trade short ids, three passwords set.
SPECIFICATION Spec
CONSTANTS
    Browsers = {b1}
    Names = {n1, n2}
    Passwords = {pw1}
    Guess = Guess
    MaxApps = 2
    MaxHashes = 3
INVARIANTS
    IInv
PROPERTIES
    OnlyPasswordInForceOpens
    HolderSeesPage
\* no request need arrive once the bounds are used up
CHECK_DEADLOCK FALSE
