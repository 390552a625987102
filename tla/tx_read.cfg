SPECIFICATION TextSpec
CONSTANTS
    GroupDigits = 2
    DigitBits = 2
    MaxCPUs = 16
    LongBits = 4
    Widths = {1, 2, 3, 4, 5, 6}
    OnlineCounts = {2, 17}
    MaxLength = 8
    Columns = {1, 2}
INVARIANTS DecodedSoFar DecodesMask RecordsRead GoodFilesAccepted
CHECK_DEADLOCK FALSE
