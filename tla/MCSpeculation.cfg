SPECIFICATION FairSpec
CONSTANTS
    Vocab = {"a", "b"}
    Other = "x"
    Budget = 5
    NCtx = 7
    Setups <- AllSetups
INVARIANTS SpeculationInv
PROPERTIES SpeculationIsPlain
CHECK_DEADLOCK FALSE
