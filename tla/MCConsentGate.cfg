\* Two children, two guardians, two phone numbers and the accounts behind them,
\* one photograph and one publish request.
SPECIFICATION Spec
CONSTANTS
    Students = {s1, s2}
    Guardians = {g1, g2}
    Phones = {p1, p2}
    Photos = {m1}
    Teachers = {t1}
    None = None
SYMMETRY GateSymmetry
INVARIANTS
    TypeOK
    GatesAgree
    RefusalHonoured
    ShownOnlyWithYes
PROPERTY
    OnlyAnAnswerLifts
