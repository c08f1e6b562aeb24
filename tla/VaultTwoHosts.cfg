SPECIFICATION FairSpec
CONSTANTS
    t1 = t1
    t2 = t2
    h1 = h1
    h2 = h2
    mainnet = mainnet
    testnet = testnet
    Garbage = Garbage
    Closed = Closed
    NoAccount = NoAccount
    NoRequest = NoRequest
    Host = {h1, h2}
    Tab = {t1, t2}
    HostOf <- TwoHosts
    Network = {mainnet}
    NetworkOf <- SameNetwork
    Seed = {s1}
    AccessLevelRequest = {2, 3}
    RequestKind = {"social", "socialPaying"}
    MaxKeys = 2
    MaxPosted = 1
CONSTRAINT AtMostTwoInMotion
INVARIANTS
    KeysStayWithHost
    VaultInv
PROPERTIES
    SignsOnlyAsPermitted
    RequestsAreAnswered
