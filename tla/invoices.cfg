SPECIFICATION Spec
CONSTANTS
    None = None
    Free = Free
    plus = plus
    pro = pro
    Users = {u1}
    Plans = {plus}
    Interval <- MCInterval
    Procs = {p1, p2}
    Jobs = {j1}
    Viewers = {}
    GrantDays = {1}
    PaymentIds = {}
    RemindDays = 0
    MaxTime = 0
    MaxRequests = 1
    MaxInvoices = 1
    MaxTxns = 2
    MaxCrashes = 1
    Duplicates = TRUE
SYMMETRY Symmetry
INVARIANTS TypeOK  GrantsMatchCharges 
