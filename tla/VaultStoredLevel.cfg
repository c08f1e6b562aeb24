SPECIFICATION Spec
CONSTANTS
    t1 = t1
    t2 = t2
    h1 = h1
    h2 = h2
    mainnet = mainnet
    testnet = testnet
    Garbage = Garbage
    Closed = Closed
    NoAccount = NoAccount
    NoRequest = NoRequest
    Host = {h1}
    Tab = {t1, t2}
    HostOf <- SameHost
    Network = {mainnet}
    NetworkOf <- SameNetwork
    Seed = {s1}
    AccessLevelRequest = {2, 4}
    RequestKind = {"transfer"}
    MaxKeys = 2
    MaxPosted = 1
CONSTRAINT AtMostTwoInMotion
PROPERTIES
    StoredLevelGoverns
