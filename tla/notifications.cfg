SPECIFICATION Spec
CONSTANTS
    None = None
    Senders = {w1}
    Addresses = {a1}
    RateCap = 0
    MaxAttempts = 2
    ParkAfter = 1
    MaxNotes = 2
    MaxHour = 0
    MaxCrashes = 1
 
PROPERTY DeliveriesSettle
CHECK_DEADLOCK FALSE
