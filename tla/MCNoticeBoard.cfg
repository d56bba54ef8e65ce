\* One notice, one family of two children at two branches, two academic years, two
\* staff requests and three days.
SPECIFICATION Spec
CONSTANTS
    c1 = c1
    c2 = c2
    r1 = r1
    r2 = r2
    b1 = b1
    b2 = b2
    Students = {c1, c2}
    Users = {u1}
    Rooms = {r1, r2}
    Years = {y1, y2}
    Branches = {b1, b2}
    HomeOf <- Homes
    RoomAt <- Houses
    FirstBranch = b1
    School = School
    Notices = {n1}
    Editors = {e1, e2}
    LastDay = 2
    None = None
SYMMETRY Symmetry
INVARIANTS
    TypeOK
    AudienceIsServed
    ReceiptsAreEvidence
PROPERTY
    WhatWasSaidStands
