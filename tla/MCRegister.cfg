\* Two children, two rooms, two academic years, two days and one all-present request.
SPECIFICATION RegisterSpec
CONSTANTS
    Students = {s1, s2}
    Rooms = {r1, r2}
    Years = {y1, y2}
    Taps = {t1}
    Marks = {"half_day", "holiday"}
    Window = 0
    LastDay = 1
    None = None
SYMMETRY Symmetry
INVARIANTS
    RegisterTypeOK
    FiguresAgree
PROPERTY
    MorningIsKept
