SPECIFICATION FairSpec
CONSTANTS
    Id = {i1, i2}
    Value = {v}
    Absent = Absent
    Projector = {p1, p2}
    NoCheckpoint = NoCheckpoint
    MaxEvents = 3
INVARIANTS
    TypeOK
    RowsAreOneSnapshot
    ServesNothingFenced
PROPERTIES
    RebuildNotSwallowed
    PublishedEventually
CHECK_DEADLOCK FALSE
