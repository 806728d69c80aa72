SPECIFICATION Spec
CONSTANTS
    None = None
    Free = Free
    plus = plus
    pro = pro
    Interval <- MCInterval
    Users = {u1}
    Plans = {plus}
    Procs = {p1, p2}
    Jobs = {}
    Viewers = {}
    GrantDays = {}
    PaymentIds = {1}
    RemindDays = 0
    MaxTime = 1
    MaxRequests = 1
    FirstStatus = {"active", "incomplete"}
    MaxStripe = 1
    MaxEvents = 2
    MayCrash = TRUE
SYMMETRY Symmetry
INVARIANT AckedIsApplied
PROPERTY RowKeepsItsSubscription
