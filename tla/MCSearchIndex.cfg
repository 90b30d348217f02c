SPECIFICATION FairSpec
CONSTANTS
    Id = {i1, i2}
    Value = {v}
    Absent = Absent
    Mutator = {m1, m2}
    QueueCapacity = 2
    MaxEvents = 3
INVARIANTS
    TypeOK
    UpToDateWhenQuiet
    RowsMatchUnlessTorn
    FailsClosed
PROPERTY Converges
CHECK_DEADLOCK FALSE
