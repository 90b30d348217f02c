SPECIFICATION Spec
CONSTANTS
    Tenant = {t1}
    Company = {c1}
    Book = {b1}
    NoId = NoId
    Requests <- SmallRequests
    MaxEvents = 4
    MaxDamage = 2
    MaxFaults = 1
INVARIANTS TypeOK   
PROPERTIES RebuildVerifies RepairsStayDisclosed
CHECK_DEADLOCK FALSE
