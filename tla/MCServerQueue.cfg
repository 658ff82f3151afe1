SPECIFICATION FairSpec
CONSTANTS
    r1 = r1
    r2 = r2
    r3 = r3
    Requests = {r1, r2, r3}
    Rounds = 1
    Setups <- AllSetups
INVARIANTS QueueInv BusyMeansScheduled 
PROPERTIES  TerminateStops
CHECK_DEADLOCK FALSE
