SPECIFICATION Spec
CONSTANTS
    Models = {ma, mb}
    Requests = {r1, r2}
    ModelsMax = 1
    NoModel = NoModel
    CanCrash = TRUE
    CanSleep = TRUE
    Admin = TRUE
SYMMETRY Symmetry
INVARIANTS TypeOK ChildrenBounded SlotsAccounted ReqCountBound QueueExact
CHECK_DEADLOCK FALSE
