SPECIFICATION Spec
CONSTANTS
    Vocab = {"a", "b"}
    Null = "null"
    Media = {"x", "y"}
    NTok <- Tokens
    NPos <- Positions
    Prompts <- Prompted
    Failing <- Separate
    MaxLen = 9
INVARIANTS  CutsExact 
CHECK_DEADLOCK FALSE
