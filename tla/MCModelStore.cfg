SPECIFICATION Spec
CONSTANTS
    Models = {ma, mb}
    ma = ma
    mb = mb
    NoFile = NoFile
    NoModel = NoModel
    Quant <- MCQuant
    Kind <- MCKind
    Repo <- DisjointRepo
    MMProj <- DisjointMMProj
    Size <- DisjointSize
    Requests = {r1, r2}
INVARIANTS TypeOK StableComplete Materialised
PROPERTIES PublishedForever EveryRequestReturns
CHECK_DEADLOCK FALSE
