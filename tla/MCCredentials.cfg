\* One account, two links, two requests, a command and an admin form; a link lives for the day
\* it was made on, of two.
SPECIFICATION Spec
CONSTANTS
    Users = {u1}
    Links = {l1, l2}
    Visits = {v1, v2}
    Repairs = {o1}
    Forms = {f1}
    Words = {w1, w2}
    Timeout = 0
    LastDay = 1
    MaxWrites = 2
    MaxLogins = 2
    None = None
SYMMETRY Symmetry
INVARIANTS
    TypeOK
    OneUsePerLink
    LastWordWorks
PROPERTIES
    DeadLinksStayDead
