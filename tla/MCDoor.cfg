\* Two children, a guardian and a pickup that may be anybody's, two days, and two
\* requests at once.
SPECIFICATION DoorSpec
CONSTANTS
    s1 = s1
    s2 = s2
    Students = {s1, s2}
    Guardians = {g1}
    Pickups = {p1}
    Attended <- TwoDays
    Posts = {q1, q2}
    Texts = {grandmother}
    Blank = Blank
    LastDay = 1
    None = None
SYMMETRY Symmetry
INVARIANTS
    DoorTypeOK
    LastReleaseStands
    OfferedIsAccepted
PROPERTY
    ReleasedByRight
