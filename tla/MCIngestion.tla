---- MODULE MCIngestion ----
\* Instances of Catalogue and BrowserSessions for TLC, the two ends of a scrape.
\* The two share no state, so a behaviour picks one of them and leaves the other
\* at rest: their state spaces are added, not multiplied.
EXTENDS MCCatalogue, BrowserSessions

VARIABLE part   \* the component that moves

ingestionVars == <<part, catalogueVars, browserVars>>

IngestionInit == part \in {"catalogue", "browsers"} /\ CatalogueInit /\ BrowserInit

IngestionNext ==
    \/ part = "catalogue" /\ CatalogueNext /\ UNCHANGED <<part, browserVars>>
    \/ part = "browsers" /\ BrowserNext /\ UNCHANGED <<part, catalogueVars>>

IngestionSpec == IngestionInit /\ [][IngestionNext]_ingestionVars

\* The two type invariants.
IngestionType == CatalogueType /\ BrowserType
====
