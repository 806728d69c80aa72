SPECIFICATION RecordsSpec
CONSTANTS
    Listings = {l1, l2}
    Shown <- MCShown
    Scrapers = {s1, s2}
    Rollups = {1}
    Nobody = Nobody
    Grace = 0
    MaxDay = 2
    MaxScrapings = 3
SYMMETRY RecordsSymmetry
INVARIANTS PointsAreChanges SeriesAsObserved RolledDaysAreFinal
