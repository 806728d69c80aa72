SPECIFICATION AccountsSpec
CONSTANTS
    Never = Never
    Tabs = {1, 2}
    Browser <- MCBrowser
    Keep = 1
    Ttl = 2
    MaxSessions = 4
    MaxClock = 2
    MaxLost = 1
    Absent = Absent
    Requests = {r1, r2}
    Owner = owner
    Users = {u1, u2, u3}
    Roles = {"MEMBER"}
    Seats = 2
    MaxInvites = 2
SYMMETRY Symmetry
INVARIANTS AccountsType OneSuccessor  
INVARIANTS SeatsHold InviteUsedOnce OneOwner
CHECK_DEADLOCK FALSE
