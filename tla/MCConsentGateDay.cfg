\* The publish_day docstring, taken at its word.
SPECIFICATION Spec
CONSTANTS
    Students = {s1, s2}
    Guardians = {g1, g2}
    Phones = {p1, p2}
    Photos = {m1, m2}
    Teachers = {t1}
    None = None
PROPERTY
    DayIsNotStranded
