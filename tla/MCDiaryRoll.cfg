\* One child, three rooms, two years and three days, with nothing written: the rows
\* as the roll they come to.
SPECIFICATION Spec
CONSTANTS
    Students = {s1}
    Rooms = {a, b, c}
    Years = {y1, y2}
    Guardians = {}
    Entries = {}
    Incidents = {}
    Publishes = {}
    Answers = {}
    MaxRows = 4
    LastDay = 2
    None = None
INVARIANTS
    TrendMissesNobody
PROPERTIES
    KeepsRoll
    HistoryStands
CHECK_DEADLOCK FALSE
