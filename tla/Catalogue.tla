----------------------------- MODULE Catalogue -----------------------------
(* The stored catalogue: ingestion attaches each offer it scrapes to a       *)
(* product or founds one (listing-processor.service.ts), the reconciliation  *)
(* merges duplicates and undoes merges the judge rejects                     *)
(* (reconciliation.service.ts), and the cleanup script merges and deletes    *)
(* what earlier matching left behind (catalog-cleanup.service.ts).  All      *)
(* three run at once, each on rows it has read before.                       *)
(*                                                                           *)
(* A product is its title and one unique identifier (the gtin); what the     *)
(* text guards say of two titles and what the AI judge says of them are      *)
(* constants, and the judge may be out of reach at any call.                 *)
EXTENDS Naturals, Sequences, FiniteSets, FiniteSetsExt, Functions

CONSTANTS
    Products,     \* product ids, in the order of creation
    Stored,       \* the rows at first: a function from some of Products to rows
    Offers,       \* what the stores offer: (platform, external id)
    OfferRow,     \* each offer's title, gtin and family (brand and model)
    ListedAt,     \* the product each stored offer is attached to at first
    Legacy,       \* merges the code rules made before only the judge could
    Users, WatchedAt,  \* watchers, and the watchlist items at first
    InCarts,      \* the products users have put in their carts
    Same,         \* pairs of titles the judge calls the same product
    Guarded,      \* pairs of titles the conflict guards tell apart
    Jobs, Runs,   \* ingestion jobs; reconciliations and cleanups
    Nothing, Held,
    MaxScrapes, MaxRuns, MaxWatches   \* bounds

Rows == [title : {OfferRow[o].title : o \in Offers} \cup {Stored[p].title : p \in DOMAIN Stored}
                 \cup {m.row.title : m \in Range(Legacy)},
         gtin  : {OfferRow[o].gtin : o \in Offers} \cup {Stored[p].gtin : p \in DOMAIN Stored}
                 \cup {m.row.gtin : m \in Range(Legacy)} \cup {Nothing}]

\* What the log keeps of a merge.
Merge == [kept : Products, merged : Products, row : Rows,
          keptTitle : {row.title : row \in Rows}, listings : SUBSET Offers,
          items : SUBSET (Users \X Products), dropped : SUBSET Users,
          state : {"rules", "approved", "undone", "final"}]

\* The ids that are or were in the store at first.
Taken == DOMAIN Stored \cup {m.merged : m \in Range(Legacy)}

\* The first offers and watches are of stored products, and the pool of ids is
\* large enough for every scrape to found one.
ASSUME CatalogueAssumption ==
    /\ Products \subseteq Nat /\ IsFiniteSet(Products) /\ IsFiniteSet(Jobs)
    /\ Nothing \notin Products /\ Nothing \notin Rows /\ Held # Nothing
    /\ DOMAIN Stored \subseteq Products /\ \A p \in DOMAIN Stored : Stored[p] \in Rows
    /\ Legacy \in Seq(Merge)
    /\ \A o \in DOMAIN ListedAt : ListedAt[o] \in DOMAIN Stored
    /\ WatchedAt \subseteq Users \X Products \X DOMAIN Stored
    /\ DOMAIN ListedAt \subseteq Offers /\ InCarts \subseteq Products
    /\ MaxScrapes \in Nat
    /\ Cardinality(Products) >= Cardinality(Taken) + MaxScrapes

VARIABLES
    products,     \* canonical_products: Products -> row, or Nothing
    listing,      \* source_listings: Offers -> [product, status]
    history,      \* price_history: the products an offer has points on
    watch,        \* watchlist_items: <<user, product it was made on, product>>
    cart,         \* cart_watch_items: the products in carts
    log,          \* product_merges
    job, run,
    founded,      \* products ingestion has created
    watched,      \* <<user, product>>: what was ever put on a watchlist
    scrapes, runs \* steps taken, for the bounds

shared == <<products, listing, history, watch, cart, log, founded, watched>>
catalogueVars == <<shared, job, run, scrapes, runs>>

Existing == {p \in Products : products[p] # Nothing}
Watching(p) == {w[1] : w \in {x \in watch : x[3] = p}}
Idle == [pc |-> "idle"]

\* identifiersConflict and the text guards of checkConflicts: a guard fires
\* when both sides state a thing and it differs.
Conflict(a, b) ==
    \/ a.gtin # Nothing /\ b.gtin # Nothing /\ a.gtin # b.gtin
    \/ {a.title, b.title} \in Guarded

SaysSame(a, b) == a.title = b.title \/ {a.title, b.title} \in Same

\* What any decision to attach an offer to a product rests on.
Matches(a, b) == SaysSame(a, b) \/ (a.gtin # Nothing /\ a.gtin = b.gtin)

CatalogueInit ==
    /\ products = [p \in Products |-> IF p \in DOMAIN Stored THEN Stored[p] ELSE Nothing]
    /\ listing = [o \in Offers |->
                    IF o \in DOMAIN ListedAt THEN [product |-> ListedAt[o], status |-> "ACCEPTED"]
                                             ELSE [product |-> Nothing, status |-> "ABSENT"]]
    /\ history = {<<o, ListedAt[o]>> : o \in DOMAIN ListedAt}
    /\ watch = WatchedAt
    /\ cart = InCarts
    /\ log = Legacy
    /\ job = [j \in Jobs |-> Idle]
    /\ run = [r \in Runs |-> Idle]
    /\ founded = {}
    /\ watched = {<<w[1], w[2]>> : w \in WatchedAt}
    /\ scrapes = 0 /\ runs = 0

----------------------------------------------------------------------------
(* Ingestion. *)

\* Mutant of FamilyFree: a lock per offer.
OfferFree(o) == \A j \in Jobs : job[j].pc # "idle" => job[j].offer # o

\* The family lock, a KeyedMutex: from the reads of matching to the last write.
FamilyFree(o) ==
    \A j \in Jobs : job[j].pc # "idle" => OfferRow[job[j].offer].family # OfferRow[o].family

\* The rows an open merge has updated are locked until it ends.
RowLocked(o) == \E r \in Runs : run[r].pc = "commit" /\ o \in run[r].moved

\* Steps 6 to 9: the product the offer is attached to if the guards still
\* accept it, else one with its identifier, else the oldest with its title,
\* else one the judge calls the same.  Held when the judge cannot answer.
MatchOf(o) ==
    LET fits == {p \in Existing : ~Conflict(OfferRow[o], products[p])}
        mine == IF listing[o].status = "ACCEPTED" THEN {listing[o].product} \cap fits ELSE {}
        byId == {p \in Existing : OfferRow[o].gtin # Nothing /\ products[p].gtin = OfferRow[o].gtin}
        exact == {p \in fits : products[p].title = OfferRow[o].title}
        same == {p \in fits : SaysSame(OfferRow[o], products[p])}
    IN  CASE mine # {} -> mine
          [] mine = {} /\ byId # {} -> byId
          [] mine = {} /\ byId = {} /\ exact # {} -> {Min(exact)}
          [] OTHER -> IF fits = {} THEN {Nothing}
                      ELSE {Held} \cup (IF same = {} THEN {Nothing} ELSE same)

Match(j, o) ==
    /\ job[j].pc = "idle" /\ FamilyFree(o)
    /\ scrapes < MaxScrapes
    /\ scrapes' = scrapes + 1
    /\ \E found \in MatchOf(o) \ {Held} :
         job' = [job EXCEPT ![j] =
                   [pc |-> IF found = Nothing THEN "create" ELSE "upsert",
                    offer |-> o, product |-> found, new |-> found = Nothing]]
    /\ UNCHANGED <<shared, run, runs>>

\* The judge has not ruled, or the price is below the floor: nothing is stored.
HoldOffer(j, o) ==
    /\ job[j].pc = "idle" /\ FamilyFree(o) /\ Held \in MatchOf(o)
    /\ scrapes < MaxScrapes
    /\ scrapes' = scrapes + 1
    /\ UNCHANGED <<shared, job, run, runs>>

GtinTaken(g) == g # Nothing /\ \E p \in Existing : products[p].gtin = g

\* createCanonicalProduct: a taken slug is retried under another suffix, a
\* taken identifier is an error and ends this listing.
Create(j) ==
    LET o == job[j].offer
        id == Min(Products \ (founded \cup Taken))
    IN  /\ job[j].pc = "create"
        /\ IF GtinTaken(OfferRow[o].gtin)
           THEN job' = [job EXCEPT ![j] = Idle] /\ UNCHANGED <<products, founded>>
           ELSE /\ products' = [products EXCEPT ![id] =
                                  [title |-> OfferRow[o].title, gtin |-> OfferRow[o].gtin]]
                /\ founded' = founded \cup {id}
                /\ job' = [job EXCEPT ![j].pc = "upsert", ![j].product = id]
        /\ UNCHANGED <<listing, history, watch, cart, log, watched, run, scrapes, runs>>

\* The upsert and the price point fail when the product is gone by then: the
\* foreign keys refuse them.
Upsert(j) ==
    LET o == job[j].offer
        p == job[j].product
    IN  /\ job[j].pc = "upsert" /\ ~RowLocked(o)
        /\ IF p \in Existing
           THEN /\ listing' = [listing EXCEPT ![o] = [product |-> p, status |-> "ACCEPTED"]]
                /\ job' = [job EXCEPT ![j].pc = "append"]
           ELSE job' = [job EXCEPT ![j] = Idle] /\ UNCHANGED listing
        /\ UNCHANGED <<products, history, watch, cart, log, founded, watched, run, scrapes, runs>>

\* Step 10: a price far from the other offers' is refused, and an offer
\* accepted earlier is marked so.
Reject(j) ==
    LET o == job[j].offer
    IN  /\ job[j].pc = "upsert" /\ ~job[j].new /\ ~RowLocked(o)
        /\ listing' = IF listing[o].status = "ACCEPTED"
                      THEN [listing EXCEPT ![o].status = "REJECTED"] ELSE listing
        /\ job' = [job EXCEPT ![j] = Idle]
        /\ UNCHANGED <<products, history, watch, cart, log, founded, watched, run, scrapes, runs>>

\* appendPriceHistoryIfChanged: no point when the price is the last one's.
AppendPoint(j) ==
    /\ job[j].pc = "append"
    /\ job' = [job EXCEPT ![j] = Idle]
    /\ \/ history' = history
       \/ /\ job[j].product \in Existing
          /\ history' = history \cup {<<job[j].offer, job[j].product>>}
    /\ UNCHANGED <<products, listing, watch, cart, log, founded, watched, run, scrapes, runs>>

----------------------------------------------------------------------------
(* Reconciliation: first the review of old merges, then the pairs. *)

BeginReconcile(r) ==
    /\ run[r].pc = "idle" /\ runs < MaxRuns
    /\ runs' = runs + 1
    /\ \E pending \in {{}, {i \in DOMAIN log : log[i].state = "rules"}} :
         run' = [run EXCEPT ![r] = [pc |-> "review", kind |-> "reconcile", pending |-> pending]]
    /\ UNCHANGED <<shared, job, scrapes>>

\* The judge approves a rules merge, or cannot answer, which ends the review.
ReviewApproves(r) ==
    /\ run[r].pc = "review" /\ run[r].pending # {}
    /\ LET i == Min(run[r].pending)
       IN  \/ /\ SaysSame(log[i].row, [title |-> log[i].keptTitle])
              /\ log' = [log EXCEPT ![i].state = "approved"]
              /\ run' = [run EXCEPT ![r].pending = @ \ {i}]
           \/ log' = log /\ run' = [run EXCEPT ![r].pending = {}]
    /\ UNCHANGED <<products, listing, history, watch, cart, founded, watched, job, scrapes, runs>>

\* undoMerge: the row comes back without an identifier that is taken by now,
\* and takes back what the merge moved, wherever that is.  One transaction; it
\* fails, and the run with it, when the row is already back.
Undo(i) ==
    LET m == log[i]
        g == IF GtinTaken(m.row.gtin) THEN Nothing ELSE m.row.gtin
        back == {w \in watch : <<w[1], w[2]>> \in m.items}
    IN  /\ products' = [products EXCEPT ![m.merged] = [m.row EXCEPT !.gtin = g]]
        /\ listing' = [o \in Offers |-> IF o \in m.listings /\ listing[o].status # "ABSENT"
                                        THEN [listing[o] EXCEPT !.product = m.merged] ELSE listing[o]]
        /\ history' = {<<h[1], IF h[1] \in m.listings THEN m.merged ELSE h[2]>> : h \in history}
        /\ watch' = (watch \ back) \cup {<<w[1], w[2], m.merged>> : w \in back}
                      \cup {<<u, m.merged, m.merged>> : u \in m.dropped}
        /\ log' = [log EXCEPT ![i].state = "undone"]

ReviewUndoes(r) ==
    /\ run[r].pc = "review" /\ run[r].pending # {}
    /\ LET i == Min(run[r].pending)
       IN  /\ ~SaysSame(log[i].row, [title |-> log[i].keptTitle])
           /\ \A o \in log[i].listings : ~RowLocked(o)
           /\ \A q \in Runs : run[q].pc = "commit" =>
                {<<w[1], w[2]>> : w \in run[q].items \cup run[q].dropped} \cap log[i].items = {}
           /\ IF log[i].merged \in Existing
              THEN /\ run' = [run EXCEPT ![r] = Idle]
                   /\ UNCHANGED <<products, listing, history, watch, log>>
              ELSE Undo(i) /\ run' = [run EXCEPT ![r].pending = @ \ {i}]
    /\ UNCHANGED <<cart, founded, watched, job, scrapes, runs>>

\* The candidate pairs and all their rows are read once, here.
LoadProducts(r) ==
    /\ run[r].pc = "review" /\ run[r].pending = {}
    /\ run' = [run EXCEPT ![r] = [pc |-> "pick", kind |-> "reconcile", rows |-> products, consumed |-> {}]]
    /\ UNCHANGED <<shared, job, scrapes, runs>>

MergePair(r, keep, merge, keepRow, mergeRow) ==
    run' = [run EXCEPT ![r] =
              [pc |-> "move", kind |-> run[r].kind, rows |-> run[r].rows, consumed |-> run[r].consumed,
               keep |-> keep, merge |-> merge, keepRow |-> keepRow, mergeRow |-> mergeRow,
               ids |-> {o \in Offers : listing[o].product = merge},
               moved |-> {}, points |-> {}, items |-> {}, dropped |-> {}]]

\* A pair the guards and the judge accept, on the rows as they were loaded;
\* the older product is kept.  mergeCanonicals first records what will move.
PickPair(r) ==
    /\ run[r].pc = "pick" /\ run[r].kind = "reconcile"
    /\ \E a, b \in Products \ run[r].consumed :
         LET rowA == run[r].rows[a]
             rowB == run[r].rows[b]
         IN  /\ a < b /\ rowA # Nothing /\ rowB # Nothing
             /\ ~Conflict(rowA, rowB) /\ SaysSame(rowA, rowB)
             /\ MergePair(r, a, b, rowA, rowB)
    /\ UNCHANGED <<shared, job, scrapes, runs>>

----------------------------------------------------------------------------
(* The merge transaction, shared with the cleanup. *)

\* Mutant of Superfluous: every item of the loser.
AllItems(k, m) == {w \in watch : w[3] = m}

\* The loser's items whose users watch the keeper already.
Superfluous(k, m) == {w \in watch : w[3] = m /\ w[1] \in Watching(k)}

\* The updates: what points at the loser by now, and which watchers the keeper
\* has already.  They wait for rows another merge has changed.
MergeMove(r) ==
    LET m == run[r].merge
        k == run[r].keep
        moved == {o \in Offers : listing[o].product = m}
    IN  /\ run[r].pc = "move"
        /\ \A o \in moved : ~RowLocked(o)
        /\ run' = [run EXCEPT ![r].pc = "commit", ![r].moved = moved,
                              ![r].points = {h \in history : h[2] = m},
                              ![r].items = {w \in watch : w[3] = m} \ Superfluous(k, m),
                              ![r].dropped = Superfluous(k, m)]
        /\ UNCHANGED <<shared, job, scrapes, runs>>

MovesAnything(r) == run[r].moved # {} \/ run[r].points # {} \/ run[r].items # {}

\* backfillKeeper, on the rows the merge was given: the identifier the keeper lacks.
Backfilled(r) ==
    IF run[r].keepRow.gtin = Nothing /\ run[r].mergeRow.gtin # Nothing
    THEN [products[run[r].keep] EXCEPT !.gtin = run[r].mergeRow.gtin]
    ELSE products[run[r].keep]

\* What makes a statement of the transaction fail: a row that is gone, a
\* reference that appeared since the updates and forbids the delete, or a
\* unique index (the keeper's watchers, the identifiers).
MergeFails(r) ==
    LET m == run[r].merge
        k == run[r].keep
        backfills == run[r].keepRow.gtin = Nothing /\ run[r].mergeRow.gtin # Nothing
    IN  \/ products[m] = Nothing
        \/ products[k] = Nothing /\ (MovesAnything(r) \/ backfills)
        \/ {h \in history : h[2] = m} # run[r].points
        \/ {w \in watch : w[3] = m} # run[r].items \cup run[r].dropped
        \/ \E w \in run[r].items : w[1] \in Watching(k)
        \/ backfills /\ \E p \in Existing \ {k, m} : products[p].gtin = run[r].mergeRow.gtin

\* The loser's row stays referenced by what another open merge has moved to it.
KeyShared(r) == \E q \in Runs \ {r} :
                  run[q].pc = "commit" /\ run[q].keep = run[r].merge /\ MovesAnything(q)

\* Delete, backfill and log; the delete unsets the offers attached since the
\* updates and cascades to the carts.
MergeCommit(r) ==
    LET m == run[r].merge
        k == run[r].keep
    IN  /\ run[r].pc = "commit" /\ ~KeyShared(r) /\ ~MergeFails(r)
        /\ products' = [products EXCEPT ![k] = IF products[k] = Nothing THEN Nothing ELSE Backfilled(r),
                                        ![m] = Nothing]
        /\ listing' = [o \in Offers |->
                         CASE o \in run[r].moved -> [listing[o] EXCEPT !.product = k]
                           [] o \notin run[r].moved /\ listing[o].product = m -> [listing[o] EXCEPT !.product = Nothing]
                           [] OTHER -> listing[o]]
        /\ history' = (history \ run[r].points) \cup {<<h[1], k>> : h \in run[r].points}
        /\ watch' = (watch \ (run[r].items \cup run[r].dropped))
                      \cup {<<w[1], w[2], k>> : w \in run[r].items}
        /\ cart' = cart \ {m}
        /\ log' = Append(log, [kept |-> k, merged |-> m, row |-> run[r].mergeRow,
                               keptTitle |-> run[r].keepRow.title, listings |-> run[r].ids,
                               items |-> {<<w[1], w[2]>> : w \in run[r].items},
                               dropped |-> {w[1] : w \in run[r].dropped}, state |-> "final"])
        /\ run' = [run EXCEPT ![r] = [pc |-> "pick", kind |-> run[r].kind, rows |-> run[r].rows,
                                      consumed |-> run[r].consumed \cup {m}]]
        /\ UNCHANGED <<founded, watched, job, scrapes, runs>>

\* The transaction fails or times out, and the run ends with the exception.
MergeAbort(r) ==
    /\ run[r].pc \in {"move", "commit"}
    /\ run' = [run EXCEPT ![r] = Idle]
    /\ UNCHANGED <<shared, job, scrapes, runs>>

\* No pair is left, the budget of judge questions is spent, or the process dies.
EndRun(r) ==
    /\ run[r].pc = "pick"
    /\ run' = [run EXCEPT ![r] = Idle]
    /\ UNCHANGED <<shared, job, scrapes, runs>>

----------------------------------------------------------------------------
(* The cleanup script. *)

BeginCleanup(r) ==
    /\ run[r].pc = "idle" /\ runs < MaxRuns
    /\ runs' = runs + 1
    /\ run' = [run EXCEPT ![r] = [pc |-> "pick", kind |-> "cleanup", rows |-> products, consumed |-> {}]]
    /\ UNCHANGED <<shared, job, scrapes>>

\* mergeIfPresent: both rows are read again.  An empty product goes to where
\* its history says its offers went, or else to where a match decision may say
\* one did; of two with one title the guards accept, on rows read earlier, one
\* goes to the other.
CleanPair(r) ==
    /\ run[r].pc = "pick" /\ run[r].kind = "cleanup"
    /\ \E keep, merge \in Existing :
         /\ keep # merge
         /\ \/ /\ \A o \in Offers : listing[o].product # merge
               /\ \E o \in Offers :
                    /\ listing[o].product = keep
                    /\ \/ <<o, merge>> \in history
                       \/ /\ \A h \in history : h[2] = merge => listing[h[1]].product = Nothing
                          /\ Matches(OfferRow[o], products[merge])
            \/ LET rowK == run[r].rows[keep]
                   rowM == run[r].rows[merge]
               IN  /\ rowK # Nothing /\ rowM # Nothing
                   /\ rowK.title = rowM.title /\ ~Conflict(rowK, rowM)
         /\ MergePair(r, keep, merge, products[keep], products[merge])
    /\ UNCHANGED <<shared, job, scrapes, runs>>

\* Products that were empty when the script began are deleted while nothing
\* it looks at refers to them; carts are not among what it looks at.
DeleteEmpty(r) ==
    /\ run[r].pc = "pick" /\ run[r].kind = "cleanup"
    /\ \E p \in Existing :
         /\ run[r].rows[p] # Nothing
         /\ \A o \in Offers : listing[o].product # p
         /\ \A h \in history : h[2] # p
         /\ Watching(p) = {}
         /\ products' = [products EXCEPT ![p] = Nothing]
         /\ cart' = cart \ {p}
    /\ UNCHANGED <<listing, history, watch, log, founded, watched, job, run, scrapes, runs>>

\* repointHistory, one statement over all price points.
RepointHistory(r) ==
    /\ run[r].pc = "pick" /\ run[r].kind = "cleanup"
    /\ history' = {<<h[1], IF listing[h[1]].product = Nothing THEN h[2] ELSE listing[h[1]].product>> : h \in history}
    /\ UNCHANGED <<products, listing, watch, cart, log, founded, watched, job, run, scrapes, runs>>

----------------------------------------------------------------------------
(* Shoppers. *)

WatchProduct(u, p) ==
    /\ p \in Existing /\ u \notin Watching(p)
    /\ Cardinality(watched) < MaxWatches
    /\ watch' = watch \cup {<<u, p, p>>}
    /\ watched' = watched \cup {<<u, p>>}
    /\ UNCHANGED <<products, listing, history, cart, log, founded, job, run, scrapes, runs>>

CatalogueNext ==
    \/ \E j \in Jobs, o \in Offers : Match(j, o) \/ HoldOffer(j, o)
    \/ \E j \in Jobs : Create(j) \/ Upsert(j) \/ Reject(j) \/ AppendPoint(j)
    \/ \E r \in Runs :
         \/ BeginReconcile(r) \/ ReviewApproves(r) \/ ReviewUndoes(r) \/ LoadProducts(r) \/ PickPair(r)
         \/ MergeMove(r) \/ MergeCommit(r) \/ MergeAbort(r) \/ EndRun(r)
         \/ BeginCleanup(r) \/ CleanPair(r) \/ DeleteEmpty(r) \/ RepointHistory(r)
    \/ \E u \in Users, p \in Products : WatchProduct(u, p)

CatalogueSpec == CatalogueInit /\ [][CatalogueNext]_catalogueVars

----------------------------------------------------------------------------
(* Properties. *)

JobCall == [pc : {"create", "upsert", "append"}, offer : Offers,
            product : Products \cup {Nothing}, new : BOOLEAN]

Loaded == [Products -> Rows \cup {Nothing}]

ReviewRun == [pc : {"review"}, kind : {"reconcile"}, pending : SUBSET DOMAIN Legacy]

PickRun == [pc : {"pick"}, kind : {"reconcile", "cleanup"}, rows : Loaded, consumed : SUBSET Products]

MergeRun == [pc : {"move", "commit"}, kind : {"reconcile", "cleanup"}, rows : Loaded,
             consumed : SUBSET Products, keep : Products, merge : Products,
             keepRow : Rows, mergeRow : Rows, ids : SUBSET Offers, moved : SUBSET Offers,
             points : SUBSET (Offers \X Products), items : SUBSET (Users \X Products \X Products),
             dropped : SUBSET (Users \X Products \X Products)]

\* What points at a product points at one that is there.
References ==
    /\ \A o \in Offers : listing[o].product \in Existing \cup {Nothing}
    /\ \A h \in history : h[2] \in Existing
    /\ \A w \in watch : w[3] \in Existing

CatalogueType ==
    /\ products \in Loaded
    /\ listing \in [Offers -> [product : Products \cup {Nothing}, status : {"ABSENT", "ACCEPTED", "REJECTED"}]]
    /\ history \subseteq Offers \X Products
    /\ watch \subseteq Users \X Products \X Products
    /\ cart \subseteq Products /\ founded \subseteq Products
    /\ log \in Seq(Merge)
    /\ job \in [Jobs -> JobCall \cup {Idle}]
    /\ run \in [Runs -> ReviewRun \cup PickRun \cup MergeRun \cup {Idle}]
    /\ References

\* resolveMergedProductId: where the shoppers of a product that is gone are
\* sent, by its last merge that was not undone.
Into(q) == {i \in DOMAIN log : log[i].merged = q /\ log[i].state # "undone"}
SentTo(q) == IF q \in Existing \/ Into(q) = {} THEN q ELSE log[Max(Into(q))].kept

\* The product it has been merged into, hop by hop, if it is gone.
Home == [p \in Products |->
           LET hop[n \in 0 .. Len(log)] == IF n = 0 THEN p ELSE SentTo(hop[n - 1])
           IN  hop[Len(log)]]

\* Offers the judge calls the same product are of one family (brand and model),
\* so that they share its lock.
OneFamily ==
    \A o, q \in Offers : SaysSame(OfferRow[o], OfferRow[q]) => OfferRow[o].family = OfferRow[q].family

\* Two jobs that scrape the same new product at once found it once
\* (listing-processor.service.ts:57): no two products ingestion founded are
\* ones it would have matched, however merges, undone merges and cleanups
\* come between its reads and its writes.
FoundedOnce ==
    \A p, q \in founded \cap Existing :
        p # q => Conflict(products[p], products[q]) \/ ~SaysSame(products[p], products[q])

MovedBy(i) == {x[1] : x \in log[i].items} \cup log[i].dropped

\* An undo takes back only what its own merge moved: whoever a merge of a
\* product that was brought back had moved may be left behind.
Unsettled(u) ==
    \E i, l \in DOMAIN log : log[i].state = "undone" /\ log[l].merged = log[i].merged /\ u \in MovedBy(l)

\* Two merges in opposite directions may each drop the watch of somebody who
\* watches both products: whoever was dropped for a product merged away before.
Crossed(u) ==
    \E l \in DOMAIN log : u \in log[l].dropped /\ \E i \in 1 .. l - 1 : log[i].merged = log[l].kept

\* A merge takes nobody's watch away (reconciliation.service.ts:465): who put a
\* product on the watchlist is found watching whatever it has been merged
\* into, also when watches and other merges come between the statements of
\* the transaction.  Left out are those an undo or a crossing merge has moved.
WatchersKept ==
    \A w \in watched : Unsettled(w[1]) \/ Crossed(w[1]) \/ w[1] \in Watching(Home[w[2]])

\* A pair the guards keep apart is never merged (reconciliation.service.ts:78):
\* no product has absorbed two different identifiers.
IdentifiersApart ==
    \A p \in Existing :
        Cardinality(({products[p].gtin} \cup
            {log[i].row.gtin : i \in {k \in DOMAIN log : log[k].state # "undone" /\ Home[log[k].merged] = p}})
            \ {Nothing}) <= 1

\* "Reassign everything that points at `mergeId` onto `keepId`"
\* (reconciliation.service.ts:466): a product in a cart stays in it, as itself
\* or as the product it was merged into.
CartsFollow ==
    [][\A p \in cart : Len(log') > Len(log) => p \in cart' \/ Home'[p] \in cart']_catalogueVars

\* An undone merge puts back what it moved (reconciliation.service.ts:561):
\* while nothing is scraped, the offers of a restored product are not with the
\* product it had been merged into.
UndoneStaysApart ==
    \A i \in DOMAIN log : log[i].state = "undone" =>
        \A o \in log[i].listings : listing[o].product # log[i].kept

\* WatchersKept without its exceptions: neither an undone merge nor one in the
\* opposite direction leaves anybody without the products they watch.
WatchesNeverLost == \A w \in watched : w[1] \in Watching(Home[w[2]])
=============================================================================
