\* The package behind a page whose password was entered.
SPECIFICATION Spec
CONSTANTS
    Browsers = {b1}
    Names = {n1, n2}
    Passwords = {pw1}
    Guess = Guess
    MaxApps = 2
    MaxHashes = 3
PROPERTIES
    HolderGetsPackage
\* no request need arrive once the bounds are used up
CHECK_DEADLOCK FALSE
