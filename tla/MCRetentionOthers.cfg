\* The multi-child rule of erase_student_media, taken at its word.
SPECIFICATION Spec
CONSTANTS
    Students = {s1, s2}
    Years = {y1}
    Photos = {m1}
    Operators = {o1}
    Window = 1
    LastDay = 1
    None = None
PROPERTY
    SparesTheOthers
