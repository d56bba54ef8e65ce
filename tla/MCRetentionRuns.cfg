\* The commands themselves: two photographs of one child, so that a run can stop
\* between two deletions, and two operators at once.
SPECIFICATION Spec
CONSTANTS
    Students = {s1}
    Years = {y1}
    Photos = {m1, m2}
    Operators = {o1, o2}
    Window = 1
    LastDay = 1
    None = None
INVARIANT
    ErasureRepeatable
PROPERTY
    ExpiredIsPruned
