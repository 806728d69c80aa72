SPECIFICATION Spec
CONSTANTS
    None = None
    Loops = {w1, w2, w3, w4}
    Stores = {s1}
    SlotLimit = 2
    Priorities = {1, 10}
    Expansion = 10
    MaxParked = 1
    Threshold = 1
    Cooldown = 1
    MinInterval = 1
    RetryDelay = 1
    MaxSearches = 1
INVARIANT SlotsConserved
PROPERTIES CallsSpaced StoreQueue ShopperServed JobsEnd
