\* Two walk-ins from one telephone, which the office writes as it is told.
SPECIFICATION Spec
CONSTANTS
    Enquiries = {}
    Children = {c1, c2}
    Numbers = {n1}
    Ways <- MCWays
    Posts = {q1}
    None = None
INVARIANT FamiliesStayTogether
CHECK_DEADLOCK FALSE
