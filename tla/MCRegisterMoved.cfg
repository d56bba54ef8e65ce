\* One child, two rooms: what the grid of the new room says after a move.
SPECIFICATION RegisterSpec
CONSTANTS
    Students = {s1}
    Rooms = {r1, r2}
    Years = {y1, y2}
    Taps = {t1}
    Marks = {"absent"}
    Window = 1
    LastDay = 1
    None = None
INVARIANT UnmarkedHaveNothing
