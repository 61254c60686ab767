SPECIFICATION Spec
CONSTANTS
    Getters = {p1, p2}
    Savers = {a1}
    MaxSaves = 1
    MaxTotal = 3
    Tables <- OneTable
    NoOne = NoOne
    Absent = Absent
    Null = Null
    Blank = Blank
CHECK_DEADLOCK FALSE
INVARIANTS
    TypeOK
    OneFiller
PROPERTIES
    NeverBackwards
    SavedIsSeen
    CallsEnd
