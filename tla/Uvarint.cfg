SPECIFICATION Spec
CONSTANTS
    SampleBits = {0, 6, 7, 14, 27, 28, 31, 32, 34, 35, 38, 49, 63}
    Number <- Samples
CHECK_DEADLOCK FALSE
INVARIANTS
    TypeOK
    ReadsWhatWasWritten
    WritesCanonically
    CutOffIsRefused
