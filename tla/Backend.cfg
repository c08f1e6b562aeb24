SPECIFICATION RequestSpec
CONSTANTS
    NoPsbt = NoPsbt
    Hash = {a, b}
    AbsurdFee = 3
    Unit = 4
    MaxCoins = 3
    Value = {2, 4, 7}
    Unspent <- Lists
    Desired <- Amounts
CHECK_DEADLOCK FALSE
INVARIANTS
    AnswersAsPromised
    TransactionsMatchInputs
    AnswerIsReasonable
    PaysWhatWasAsked
