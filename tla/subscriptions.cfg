SPECIFICATION SubSpec
CONSTANTS
    None = None
    Free = Free
    plus = plus
    pro = pro
    Users = {u1}
    Plans = {plus, pro}
    Interval <- MCInterval
    Procs = {p1, p2}
    Jobs = {j1}
    Viewers = {}
    GrantDays = {None}
    PaymentIds = {1}
    RemindDays = 0
    MaxTime = 2
    MaxRequests = 2
SYMMETRY Symmetry
PROPERTY GrantKeepsEntitlement
