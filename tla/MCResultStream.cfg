SPECIFICATION ResultSpec
CONSTANTS
    MaxLen = 2
    MaxCalls = 2
    MaxIdle = 1
    Setups <- AllSetups
INVARIANTS OpenedFirst BlocksPaired  AnswerInv
CHECK_DEADLOCK FALSE
