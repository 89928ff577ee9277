SPECIFICATION Spec
CONSTANTS
    short = short
    long = long
    Names = {short, long}
    Dirs = {d1}
    Prefixes = {}
    Passwords = {p1, p2}
    NoName = NoName
    NoPassword = NoPassword
    BrokenSalt = BrokenSalt
    MaxVaults = 2
    MaxAttempts = 2
    IdBound = 3
    AttemptBound = 2
    Faults = {"save", "load", "derive"}
    FaultBound = 2
SYMMETRY Symmetry
INVARIANTS
    TypeOK
    CredentialsInv
    LockoutInv
    AlertInv
    WriteThrough
PROPERTIES
    DiskIdentity
    RegistrySpec
