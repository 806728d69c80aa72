---- MODULE PriceRecords ----
(* What is kept of the prices of one product: source_listings (when each listing
   was last seen), price_history (a row per change, ListingProcessor and
   IngestionRepository), price_daily (PriceRollupService), and the two readers
   that turn changes back into a daily series (price-history.ts,
   price-intelligence.service.ts, over forwardFillDailySeries).
   The family lock orders two scrapes of a listing under one title; a store may
   retitle it, so here only the advisory lock of the append does.  A transaction
   is taken to span one midnight at most (the client ends it after seconds). *)
EXTENDS Integers, Sequences, FiniteSets, SequencesExt

CONSTANTS
    Listings,      \* the listings of the product
    Shown,         \* what a store may show: a price in base currency and the stock state
    Scrapers,      \* scrape jobs at work at once
    Rollups,       \* runs of the rollup job, which may overlap
    Nobody,        \* no writer, no row, no day
    Grace,         \* FILL_GRACE_DAYS
    MaxDay,        \* bound: the last market day
    MaxScrapings   \* bound: scrapes begun

ASSUME RecordsAssumption ==
    /\ Shown \subseteq [price : Nat, stock : BOOLEAN]
    /\ Grace \in Nat /\ MaxDay \in Nat /\ MaxScrapings \in Nat
    /\ Nobody \notin Scrapers /\ Nobody \notin Nat

VARIABLES
    day,           \* the market day
    scrapings,     \* scrapes begun
    sourceListing, \* source_listings
    priceHistory,  \* price_history by listing, in the order of recorded_at
    daily,         \* price_daily
    scrape,        \* the scrapes in progress
    rollup,        \* the day each run of the rollup starts from
    observed       \* every price a scrape has reported, for the properties

recordVars == <<day, scrapings, sourceListing, priceHistory, daily, scrape, rollup, observed>>

Days == 0..MaxDay
Prices == {s.price : s \in Shown}
Row == [price : Prices, stock : BOOLEAN, day : Days, by : Scrapers \cup {Nobody}]   \* by: whose transaction hides it
NoScrape == [pc |-> "idle"]
NotStored == [status |-> "none"]

ASSUME NobodyAssumption == Nobody \notin Row

RecordsInit ==
    /\ day = 0 /\ scrapings = 0
    /\ sourceListing = [l \in Listings |-> NotStored]
    /\ priceHistory = [l \in Listings |-> <<>>] /\ observed = <<>>
    /\ daily = <<>>
    /\ scrape = [j \in Scrapers |-> NoScrape]
    /\ rollup = [r \in Rollups |-> [pc |-> "idle"]]

\* The rows of a listing that everybody sees.
Committed(l) == {i \in DOMAIN priceHistory[l] : priceHistory[l][i].by = Nobody}

-----------------------------------------------------------------------------
\* A scrape: the listing's row, then the price point in a transaction of its own.

Goes(j, pc) == scrape' = [scrape EXCEPT ![j].pc = pc]
Ends(j) == scrape' = [scrape EXCEPT ![j] = NoScrape]
Seen(l, status, stock) == sourceListing' = [sourceListing EXCEPT ![l] = [status |-> status, stock |-> stock, seen |-> day]]

ScrapeBegins(j) ==
    /\ scrape[j].pc = "idle" /\ scrapings < MaxScrapings
    /\ scrapings' = scrapings + 1
    /\ \E l \in Listings, s \in Shown :
          scrape' = [scrape EXCEPT ![j] = [pc |-> "upsert", listing |-> l, price |-> s.price, stock |-> s.stock, last |-> Nobody]]
    /\ UNCHANGED <<day, sourceListing, priceHistory, daily, rollup, observed>>

UpsertListing(j) ==
    /\ scrape[j].pc = "upsert"
    /\ Seen(scrape[j].listing, "ACCEPTED", scrape[j].stock)
    /\ Goes(j, "lock")
    /\ UNCHANGED <<day, scrapings, priceHistory, daily, rollup, observed>>

Holds(j, l) == scrape[j].pc \in {"read", "insert", "commit"} /\ scrape[j].listing = l

\* Mutant of LockFree: the append does not wait.
LockTaken(j) == TRUE

\* pg_advisory_xact_lock: until another transaction of the listing has ended.
LockFree(j) == \A k \in Scrapers : ~Holds(k, scrape[j].listing)

Lock(j) ==
    /\ scrape[j].pc = "lock"
    /\ LockFree(j)
    /\ Goes(j, "read")
    /\ UNCHANGED <<day, scrapings, sourceListing, priceHistory, daily, rollup, observed>>

ReadLast(j) ==
    LET l == scrape[j].listing IN
    /\ scrape[j].pc = "read"
    /\ scrape' = [scrape EXCEPT ![j].pc = "insert",
                     ![j].last = IF Committed(l) = {} THEN Nobody ELSE priceHistory[l][Max(Committed(l))]]
    /\ UNCHANGED <<day, scrapings, sourceListing, priceHistory, daily, rollup, observed>>

Unchanged(j) ==
    /\ scrape[j].last # Nobody
    /\ scrape[j].last.price = scrape[j].price /\ scrape[j].last.stock = scrape[j].stock

Observes(j, on) == observed' = Append(observed, [listing |-> scrape[j].listing, price |-> scrape[j].price, day |-> on])

SamePrice(j) ==
    /\ scrape[j].pc = "insert" /\ Unchanged(j)
    /\ Observes(j, day)
    /\ Ends(j)
    /\ UNCHANGED <<day, scrapings, sourceListing, priceHistory, daily, rollup>>

InsertPoint(j) ==
    /\ scrape[j].pc = "insert" /\ ~Unchanged(j)
    /\ priceHistory' = [priceHistory EXCEPT ![scrape[j].listing] =
                           Append(@, [price |-> scrape[j].price, stock |-> scrape[j].stock, day |-> day, by |-> j])]
    /\ Goes(j, "commit")
    /\ UNCHANGED <<day, scrapings, sourceListing, daily, rollup, observed>>

\* The row that the transaction of j has inserted.
Mine(j) == CHOOSE i \in DOMAIN priceHistory[scrape[j].listing] : priceHistory[scrape[j].listing][i].by = j

CommitPoint(j) ==
    /\ scrape[j].pc = "commit"
    /\ priceHistory' = [priceHistory EXCEPT ![scrape[j].listing][Mine(j)].by = Nobody]
    /\ Observes(j, priceHistory[scrape[j].listing][Mine(j)].day)
    /\ Ends(j)
    /\ UNCHANGED <<day, scrapings, sourceListing, daily, rollup>>

\* A database error or the death of the worker; an open transaction is rolled back.
ScrapeFails(j) ==
    /\ scrape[j].pc # "idle"
    /\ priceHistory' = IF scrape[j].pc = "commit"
                        THEN [priceHistory EXCEPT ![scrape[j].listing] = RemoveAt(@, Mine(j))]
                        ELSE priceHistory
    /\ Ends(j)
    /\ UNCHANGED <<day, scrapings, sourceListing, daily, rollup, observed>>

ScrapeStep(j) ==
    \/ ScrapeBegins(j) \/ UpsertListing(j) \/ Lock(j) \/ ReadLast(j)
    \/ SamePrice(j) \/ InsertPoint(j) \/ CommitPoint(j) \/ ScrapeFails(j)

\* A scrape that finds the listing junk, or too far from the market.
RejectListing(l) ==
    /\ scrapings < MaxScrapings /\ scrapings' = scrapings + 1
    /\ sourceListing[l].status = "ACCEPTED"
    /\ Seen(l, "REJECTED", sourceListing[l].stock)
    /\ UNCHANGED <<day, priceHistory, daily, scrape, rollup, observed>>

\* A scrape that finds it without a price and sold out.
SoldOut(l) ==
    /\ scrapings < MaxScrapings /\ scrapings' = scrapings + 1
    /\ sourceListing[l].status # "none"
    /\ Seen(l, sourceListing[l].status, FALSE)
    /\ UNCHANGED <<day, priceHistory, daily, scrape, rollup, observed>>

NextDay ==
    /\ day < MaxDay /\ day' = day + 1
    /\ \A l \in Listings : \A i \in DOMAIN priceHistory[l] \ Committed(l) : priceHistory[l][i].day = day
    /\ UNCHANGED <<scrapings, sourceListing, priceHistory, daily, scrape, rollup, observed>>

-----------------------------------------------------------------------------
\* The rollup: the newest rolled day is read, then one statement re-rolls from
\* the day before it.

LatestDay == IF DOMAIN daily = {} THEN Nobody ELSE Max({k[2] : k \in DOMAIN daily})

\* Mutant of RollFrom: only the newest rolled day is rolled again.
FromLatest(latest) == IF latest = Nobody THEN 0 ELSE latest

RollFrom(latest) == IF latest = Nobody THEN 0 ELSE latest - 1

RollupRead(r) ==
    /\ rollup[r].pc = "idle"
    /\ rollup' = [rollup EXCEPT ![r] = [pc |-> "write", from |-> RollFrom(LatestDay)]]
    /\ UNCHANGED <<day, scrapings, sourceListing, priceHistory, daily, scrape, observed>>

OnDay(l, d) == {i \in Committed(l) : priceHistory[l][i].day = d}

DayOf(l, d) ==
    LET rows == priceHistory[l]
        prices == {rows[i].price : i \in OnDay(l, d)}
        last == rows[Max(OnDay(l, d))]
    IN  [min |-> Min(prices), max |-> Max(prices), close |-> last.price, stock |-> last.stock]

Rolled(from) ==
    [k \in {c \in Listings \X Days : c[2] >= from /\ OnDay(c[1], c[2]) # {}} |-> DayOf(k[1], k[2])]

RollupWrite(r) ==
    LET rows == Rolled(rollup[r].from) IN
    /\ rollup[r].pc = "write"
    /\ daily' = [k \in DOMAIN daily \cup DOMAIN rows |-> IF k \in DOMAIN rows THEN rows[k] ELSE daily[k]]
    /\ rollup' = [rollup EXCEPT ![r] = [pc |-> "idle"]]
    /\ UNCHANGED <<day, scrapings, sourceListing, priceHistory, scrape, observed>>

RecordsNext ==
    \/ \E j \in Scrapers : ScrapeStep(j)
    \/ \E l \in Listings : RejectListing(l) \/ SoldOut(l)
    \/ \E r \in Rollups : RollupRead(r) \/ RollupWrite(r)
    \/ NextDay

RecordsSpec == RecordsInit /\ [][RecordsNext]_recordVars

-----------------------------------------------------------------------------
\* forwardFillDailySeries: a cursor per listing over its changes (already in
\* date order), moved on day by day.  The series maps a day to its point.

Advance(bucket, from, d) ==
    LET cursor[i \in from..Len(bucket)] ==
            IF i < Len(bucket) /\ bucket[i + 1].day <= d THEN cursor[i + 1] ELSE i
    IN cursor[from]

\* price: the listings that contribute to a day, with their prices.
Point(price) ==
    LET prices == {price[l] : l \in DOMAIN price}
    IN [min |-> Min(prices), max |-> Max(prices), count |-> Cardinality(DOMAIN price)]

FilledUntil(l) == sourceListing[l].seen + Grace

ForwardFill(buckets, from, to) ==
    LET at[d \in from..to] ==
            [l \in DOMAIN buckets |-> Advance(buckets[l], IF d = from THEN 0 ELSE at[d - 1][l], d)]
        On(d) == {l \in DOMAIN buckets : at[d][l] > 0 /\ d <= FilledUntil(l)}
    IN [d \in {e \in from..to : On(e) # {}} |-> Point([l \in On(d) |-> buckets[l][at[d][l]].price])]

Accepted == {l \in Listings : sourceListing[l].status = "ACCEPTED"}

\* The rows of a listing that a reader gets, in order.
History(l) ==
    LET rows == priceHistory[l]
        upTo[n \in 0..Len(rows)] ==
            IF n = 0 THEN <<>> ELSE IF rows[n].by = Nobody THEN Append(upTo[n - 1], rows[n]) ELSE upTo[n - 1]
    IN upTo[Len(rows)]

\* A window opens on a day, after cut[l] rows of each listing, and goes up to now.
Cuts(from) ==
    {cut \in [Accepted -> 0..Max({0} \cup {Len(History(l)) : l \in Accepted})] :
        \A l \in Accepted :
            /\ cut[l] <= Len(History(l))
            /\ \A i \in DOMAIN History(l) :
                  IF i <= cut[l] THEN History(l)[i].day <= from ELSE History(l)[i].day >= from}

\* Mutant of Carried: the oldest price is carried in, not the newest.
CarriedOldest(l, k) == IF k = 0 THEN <<>> ELSE <<History(l)[1]>>

\* The price a listing had when the window opened.
Carried(l, k) == IF k = 0 THEN <<>> ELSE <<History(l)[k]>>
Within(l, k) == SubSeq(History(l), k + 1, Len(History(l)))

Later(a, b) == IF a > b THEN a ELSE b

Series(buckets, from) ==
    LET dates == UNION {{buckets[l][i].day : i \in DOMAIN buckets[l]} : l \in DOMAIN buckets}
    IN IF dates = {} THEN <<>> ELSE ForwardFill(buckets, Later(Min(dates), from), day)

\* buildPriceHistory, the chart of the product page: what is carried in gets the first day's date.
PageChart(cut, from) ==
    LET Dated(l) == LET c == Carried(l, cut[l]) IN [i \in DOMAIN c |-> [c[i] EXCEPT !.day = from]]
    IN Series([l \in Accepted |-> Dated(l) \o Within(l, cut[l])], from)

\* getDailySeries, behind the buy-or-wait verdict: what is carried in keeps its date.
DailySeries(cut, from) == Series([l \in Accepted |-> Carried(l, cut[l]) \o Within(l, cut[l])], from)

-----------------------------------------------------------------------------
Priced == [listing : Listings, price : Prices, day : Days]
DayPoint == [min : Prices, max : Prices, close : Prices, stock : BOOLEAN]

\* Every table, scrape and rollup is well typed.
RecordsType ==
    /\ day \in Days /\ scrapings \in 0..MaxScrapings
    /\ sourceListing \in [Listings -> {NotStored} \cup [status : {"ACCEPTED", "REJECTED"}, stock : BOOLEAN, seen : Days]]
    /\ priceHistory \in [Listings -> Seq(Row)] /\ observed \in Seq(Priced)
    /\ DOMAIN daily \subseteq Listings \X Days /\ \A k \in DOMAIN daily : daily[k] \in DayPoint
    /\ scrape \in [Scrapers -> {NoScrape} \cup
          [pc : {"upsert", "lock", "read", "insert", "commit"}, listing : Listings, price : Prices,
           stock : BOOLEAN, last : Row \cup {Nobody}]]
    /\ rollup \in [Rollups -> {[pc |-> "idle"]} \cup [pc : {"write"}, from : -1..MaxDay]]

\* A row of price_history is a change: no two neighbouring rows of a listing have
\* one price and stock state, however many jobs scrape it at once and die on the
\* way (ingestion.repository.ts:376).
PointsAreChanges ==
    \A l \in Listings : \A i, k \in Committed(l) :
        i < k /\ (\A n \in Committed(l) : n <= i \/ n >= k)
            => <<priceHistory[l][i].price, priceHistory[l][i].stock>> # <<priceHistory[l][k].price, priceHistory[l][k].stock>>

\* What was observed, day by day, from the full list of observations.
ObservedBy(l, d) == {i \in DOMAIN observed : observed[i].listing = l /\ observed[i].day <= d}
LastSeenPrice(l, d) == observed[Max(ObservedBy(l, d))].price
KnownOn(d) == {l \in Accepted : d <= FilledUntil(l) /\ ObservedBy(l, d) # {}}
AsObserved(from) ==
    [d \in {e \in from..day : KnownOn(e) # {}} |-> Point([l \in KnownOn(d) |-> LastSeenPrice(l, d)])]

\* Storing only changes loses nothing: over every window both daily series, the
\* chart's and the verdict's, are what the full list of observations gives
\* (price-statistics.ts:80, price-history.ts:60).
SeriesAsObserved ==
    \A from \in 0..day : \A cut \in Cuts(from) :
        PageChart(cut, from) = AsObserved(from) /\ DailySeries(cut, from) = AsObserved(from)

\* A day the rollup will not touch again is right: it has a row for every listing
\* that changed that day, and that row sums up the day, also when a change became
\* visible after midnight (price-rollup.service.ts:13).
RolledDaysAreFinal ==
    LatestDay # Nobody =>
        \A l \in Listings, d \in 0..(LatestDay - 2) :
            /\ (<<l, d>> \in DOMAIN daily) <=> (OnDay(l, d) # {})
            /\ <<l, d>> \in DOMAIN daily => daily[<<l, d>>] = DayOf(l, d)

\* A day of the chart is "the price a shopper would actually have paid that day"
\* (price-statistics.ts:92): today has a point only if a listing is not sold out.
SoldOutIsNotCharted ==
    \A from \in 0..day : \A cut \in Cuts(from) :
        day \in DOMAIN PageChart(cut, from) => \E l \in Accepted : sourceListing[l].stock
====
