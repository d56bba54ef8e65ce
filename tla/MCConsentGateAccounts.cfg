\* The Consent docstring, taken at its word.
SPECIFICATION Spec
CONSTANTS
    Students = {s1}
    Guardians = {g1, g2}
    Phones = {p1, p2}
    Photos = {m1}
    Teachers = {t1}
    None = None
INVARIANT
    AnswersAreTheirOwn
