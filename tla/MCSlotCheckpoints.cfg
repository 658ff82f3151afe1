SPECIFICATION CheckpointSpec
CONSTANTS
    Prompts <- Chats
    User = "u"
    Generated = {"a"}
    NBatch = 4
    MinStep = 1
    MaxLen = 10
    Memories <- AllSetups
INVARIANTS ResumeInv
PROPERTIES ResentIsCheap
CHECK_DEADLOCK FALSE
