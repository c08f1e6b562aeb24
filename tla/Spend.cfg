SPECIFICATION Spec
CONSTANTS
    NoPsbt = NoPsbt
    None = None
    Pending = Pending
    a1 = a1
    a2 = a2
    h1 = h1
    h2 = h2
    h3 = h3
    Address = {a1, a2}
    Hash = {h1, h2, h3}
    InitialCoins <- Outputs
    Wallet <- Wallets
    AbsurdFee = 2
    Amount = {1, 3}
    MaxCalls = 3
    MaxLaunches = 3
CHECK_DEADLOCK FALSE
INVARIANTS
    TypeOK
    PaidAsShown
    SpendsFromAddressShown
    SuccessIsOfAccepted
    ErrorHidesSuccess
