\* One child, two rooms and two days: what the trend says of a move.
SPECIFICATION Spec
CONSTANTS
    Students = {s1}
    Rooms = {a, b}
    Years = {y1}
    Guardians = {}
    Entries = {}
    Incidents = {}
    Publishes = {}
    Answers = {}
    MaxRows = 2
    LastDay = 1
    None = None
INVARIANT LeaversHaveLeft
CHECK_DEADLOCK FALSE
