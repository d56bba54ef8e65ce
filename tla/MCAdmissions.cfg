\* Two enquiries and a walk-in from one telephone, written three ways, and two
\* requests at once.
SPECIFICATION Spec
CONSTANTS
    Enquiries = {e1, e2}
    Children = {c1, c2}
    Numbers = {n1}
    Ways <- MCWays
    Posts = {q1, q2}
    None = None
SYMMETRY Symmetry
INVARIANTS
    TypeOK
    OneChildPerEnquiry
    QueueTellsTruth
