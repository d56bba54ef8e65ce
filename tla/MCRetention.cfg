\* Two children, two academic years and a photograph that may show either child
\* or both, over three days with a window of one.
SPECIFICATION Spec
CONSTANTS
    Students = {s1, s2}
    Years = {y1, y2}
    Photos = {m1}
    Operators = {o1}
    Window = 1
    LastDay = 2
    None = None
SYMMETRY RetentionSymmetry
INVARIANTS
    TypeOK
    ExpiredAsPromised
PROPERTY
    DryRunStands
