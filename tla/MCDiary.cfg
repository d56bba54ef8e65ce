\* A child that is enrolled for two years and changes rooms over two days, an entry two requests may publish,
\* and an accident acknowledged from two telephones at once.
SPECIFICATION Spec
CONSTANTS
    Students = {s1}
    Rooms = {a, b}
    Years = {y1, y2}
    Guardians = {g1}
    Entries = {e1}
    Incidents = {i1}
    Publishes = {p1, p2}
    Answers = {q1, q2}
    MaxRows = 3
    LastDay = 1
    None = None
SYMMETRY Symmetry
INVARIANTS
    TypeOK
    DiaryIsTheirs
PROPERTIES
    FirstWordStands
    KeepsRoll
    HistoryStands
