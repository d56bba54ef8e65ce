\* The retention note's "a year after a child leaves", taken at its word.
SPECIFICATION Spec
CONSTANTS
    Students = {s1}
    Years = {y1}
    Photos = {m1}
    Operators = {o1}
    Window = 1
    LastDay = 2
    None = None
INVARIANT
    LeaversExpire
