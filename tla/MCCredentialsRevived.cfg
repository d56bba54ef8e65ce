\* One account, one link and one request, and an admin form of the account.
SPECIFICATION Spec
CONSTANTS
    Users = {u1}
    Links = {l1}
    Visits = {v1}
    Repairs = {}
    Forms = {f1}
    Words = {w1, w2}
    Timeout = 0
    LastDay = 0
    MaxWrites = 3
    MaxLogins = 0
    None = None
INVARIANT SpentLinksStaySpent
CHECK_DEADLOCK FALSE
