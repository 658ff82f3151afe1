SPECIFICATION Spec
CONSTANTS
    NewLine = "n"
    Blanks = {" "}
    Room = 20
    Params <- AllParams
INVARIANTS StopWordsHonoured StreamIsAnswer HeldInv TextInv
CHECK_DEADLOCK FALSE
