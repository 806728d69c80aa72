SPECIFICATION SubSpec
CONSTANTS
    None = None
    Free = Free
    plus = plus
    pro = pro
    Users = {u1}
    Plans = {plus}
    Interval <- MCInterval
    Procs = {p1}
    Jobs = {j1, j2}
    Viewers = {v1}
    GrantDays = {None}
    PaymentIds = {1}
    RemindDays = 1
    MaxTime = 2
    MaxRequests = 1
INVARIANTS SubType 
PROPERTIES LapsedIsRetired 
