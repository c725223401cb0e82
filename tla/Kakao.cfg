SPECIFICATION Spec
CONSTANTS
    Processes = {p1, p2, t}
    Tools = {t}
    p1 = p1
    p2 = p2
    t = t
    Absent = Absent
    Empty = Empty
    Garbage = Garbage
    MaxTokens = 4
SYMMETRY Symmetry
INVARIANTS
    SendsOnce
    NewestIsSaved
