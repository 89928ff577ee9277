SPECIFICATION Spec
CONSTANTS
    short = short
    long = long
    Names = {short, long}
    Dirs = {d1}
    Prefixes <- CutNames
    Passwords = {p1}
    NoName = NoName
    NoPassword = NoPassword
    BrokenSalt = BrokenSalt
    MaxVaults = 2
    MaxAttempts = 2
    IdBound = 3
    AttemptBound = 2
    Faults = {"save", "torn", "load"}
    FaultBound = 2
INVARIANTS
    UniqueIds
    UniqueNames
