SPECIFICATION Spec
CONSTANTS
    Token = {"a", "b", "c", "i", "j"}
    Vocab = {"b"}
    Alora <- WithV
    Invocation <- Adapters
    Setups <- AllSetups
INVARIANTS CellsFollowPrompt AdaptersInv CacheInv
 
CHECK_DEADLOCK FALSE
