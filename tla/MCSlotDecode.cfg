SPECIFICATION FairSpec
CONSTANTS
    Tasks = {1, 2, 3}
    Vocab = {"a", "b"}
    Media = {"m"}
    Setups <- AllSetups
INVARIANTS SlotInv SamplesOwnContext DecodeAccepts Homogeneous
PROPERTIES EveryTaskAnswered
CHECK_DEADLOCK FALSE
