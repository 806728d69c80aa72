SPECIFICATION Spec
CONSTANTS
    None = None
    Free = Free
    plus = plus
    pro = pro
    Users = {u1}
    Plans = {plus, pro}
    Interval <- MCInterval
    Procs = {p1, p2}
    Jobs = {j1}
    Viewers = {}
    GrantDays = {}
    PaymentIds = {}
    RemindDays = 0
    MaxTime = 0
    MaxRequests = 0
    References = {r1}
    MaxOrders = 2
    MaxAttempts = 2
    MaxCrashes = 1
SYMMETRY Symmetry
INVARIANTS TypeOK SubmittedHasReference GrantsMatchOrders PaidTimeIsPaidFor
