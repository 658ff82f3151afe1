SPECIFICATION Spec
CONSTANTS
    Models = {ma, mb}
    ma = ma
    mb = mb
    NoFile = NoFile
    NoModel = NoModel
    Quant <- MCQuant
    Kind <- SharedKind
    Repo <- SharedRepo
    MMProj <- SharedMMProj
    Size <- SharedSize
    Requests = {r1, r2}
INVARIANT StableComplete
CHECK_DEADLOCK FALSE
