SPECIFICATION AlertsSpec
CONSTANTS
    None = None
    Senders = {w1, w2}
    Addresses = {}
    RateCap = 1
    MaxAttempts = 2
    ParkAfter = 1
    MaxNotes = 3
    MaxHour = 1
    MaxCrashes = 1
    AlertIds = {1}
    Kinds = {"PRICE_TARGET", "RESTOCK"}
    Markets <- MCMarkets
    Cooldown = 1
    ActiveAlerts = 1
    MaxArms = 2
SYMMETRY Symmetry
INVARIANTS AlertsType ToldPerArming RestockNeedsTransition RateHolds
