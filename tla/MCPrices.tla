---- MODULE MCPrices ----
\* An instance of PriceRecords for TLC: two listings of a product, two scrape jobs
\* and the rollup over three market days.
EXTENDS PriceRecords, TLC

\* A change may be of the price, of the stock state or of both.
MCShown ==
    {[price |-> 10, stock |-> TRUE], [price |-> 20, stock |-> TRUE], [price |-> 20, stock |-> FALSE]}

RecordsSymmetry == Permutations(Scrapers) \cup Permutations(Listings)
====
