\* Does GetEnv read back every pair list written in the environment format?
CONSTANTS
    Chars <- MCChars
    Keys <- MCKeys
    QuotedVals <- MCQuotedVals
    PlainVals <- MCPlainVals
    MaxPairs = 3
SPECIFICATION SpecWritten
INVARIANT GetEnvReadsWritten
