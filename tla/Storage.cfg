SPECIFICATION Spec
CONSTANTS
    Window = {w1, w2}
    Account = {a1, a2}
    AccessLevelRequest = {2, 9}
    NoRequest = NoRequest
    NoLevel = NoLevel
    MaxKeys = 3
SYMMETRY StorageSymmetry
CONSTRAINT Bounded
INVARIANTS
    RevokedNeverOpens
    LogoutHolds
    QuietWritesHold
PROPERTIES
    GrantedKeysMeet
    StrayLevelsSignNothing
