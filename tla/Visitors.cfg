\* Two requests at a time, two short ids to trade, two icons,
\* and two kills or errors the code ignores.
SPECIFICATION Spec
CONSTANTS
    Procs = {p1, p2}
    Devices = {d1}
    ShortIDs = {s1, s2}
    NoName = NoName
    Icons = {1, 2}
    MaxApps = 2
    MaxMishaps = 2
    Base = 4
    MaxInt = 127
    Files <- Samples
SYMMETRY Interchangeable
INVARIANTS
    IInv
    BannerTruthful
    IconsIntact
    ServedRepaired
    NoOrphanIcons
    NormalizationKeepsPicture
\* no request need arrive once the bounds are used up
CHECK_DEADLOCK FALSE
