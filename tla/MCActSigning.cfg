SPECIFICATION Spec
CONSTANTS
    Act = {a1, a2}
    Digital = {a1}
    Request = {r1, r2}
    Session = {s1}
    None = None
    Drafting <- ShortDrafting
    Capacity = 2
    PageCounts <- PaperVaries
    MaxEdits <- EditDigital
    MaxDocs = 2
    MaxRevs = 2
    MaxBehind = 0
SYMMETRY Symmetry
INVARIANTS
    TypeOK
    AtaNumbersDense
    PagesBalance
    
    
PROPERTY RecordIsFinal
CHECK_DEADLOCK FALSE
