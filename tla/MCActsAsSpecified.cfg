CONSTANTS
    Words <- MCWords
    Numerals <- MCNumerals
    MaxTokens = 3

SPECIFICATION Spec
CHECK_DEADLOCK FALSE
INVARIANT ActsAsSpecified
