SPECIFICATION IngestionSpec
CONSTANTS
    Nothing = Nothing
    Held = Held
    Products = {1, 2, 3, 4, 5}
    Stored <- MCStored
    Offers = {"o1", "o2", "o3"}
    OfferRow <- MCOfferRow
    ListedAt <- MCListedAt
    Legacy <- MCLegacy
    u1 = u1
    u2 = u2
    Users = {u1, u2}
    WatchedAt <- MCWatchedAt
    InCarts = {2}
    Same <- MCSame
    Guarded = {}
    Jobs = {j1, j2}
    Runs = {r1, r2}
    MaxScrapes = 2
    MaxRuns = 2
    MaxWatches = 3
    Callers = {c1, c2}
    NoBrowser = NoBrowser
    MaxPages = 2
    MaxLaunches = 3
    MaxKills = 2
SYMMETRY CatalogueSymmetry
INVARIANTS IngestionType  WatchersKept RecycleSparesPages
CHECK_DEADLOCK FALSE
