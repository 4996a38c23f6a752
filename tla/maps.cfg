SPECIFICATION Spec
CONSTANTS
    lower = lower
    upper = upper
    other = other
    k1 = k1
    k2 = k2
    s1 = s1
    s2 = s2
    Spellings = {lower, upper, other}
    Keys = {k1, k2}
    KeyOf <- TwoSpellings
    Shas <- Contents
    Downloads = {"d"}
    NoMeta = NoMeta
    Corrupt = Corrupt
    Free = Free
    MaxSteps = 6
SYMMETRY Symmetry
INVARIANTS
    CatalogueStored
    DownloadsWhole
    LinksFollow
CHECK_DEADLOCK FALSE
