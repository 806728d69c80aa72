---- MODULE MCCatalogue ----
\* Instances of Catalogue for TLC.
EXTENDS Catalogue, TLC

CONSTANTS u1, u2

\* Three products of one family.  Product 1 and 2 are worded differently but the
\* judge calls them the same; product 3 was merged into 1 by the code rules,
\* which the judge will reject.
MCStored == 1 :> [title |-> "one", gtin |-> Nothing] @@ 2 :> [title |-> "two", gtin |-> Nothing]
MCLegacy == <<[kept |-> 1, merged |-> 3, row |-> [title |-> "three", gtin |-> Nothing], keptTitle |-> "one",
               listings |-> {"o1"}, items |-> {<<u2, 3>>}, dropped |-> {}, state |-> "rules"]>>
MCOfferRow == "o1" :> [title |-> "three", gtin |-> Nothing, family |-> "x"]
              @@ "o2" :> [title |-> "four", gtin |-> "g", family |-> "x"]
              @@ "o3" :> [title |-> "five", gtin |-> Nothing, family |-> "x"]
MCListedAt == "o1" :> 1
MCWatchedAt == {<<u1, 2, 2>>, <<u2, 3, 1>>}
MCSame == {{"one", "two"}, {"four", "five"}}

\* Three wordings the judge calls one product, two of them under different identifiers.
MCThree == 1 :> [title |-> "one", gtin |-> Nothing] @@ 2 :> [title |-> "two", gtin |-> "g"]
           @@ 3 :> [title |-> "three", gtin |-> "h"]
MCAllSame == {{"one", "two"}, {"one", "three"}, {"two", "three"}}

\* A chain the code rules merged: 2 into 3 and then 3 into 1, with two watchers.
MCLast == 1 :> [title |-> "one", gtin |-> Nothing]
MCChain == <<[kept |-> 3, merged |-> 2, row |-> [title |-> "two", gtin |-> Nothing], keptTitle |-> "three",
              listings |-> {"o1"}, items |-> {<<u1, 2>>}, dropped |-> {}, state |-> "rules"],
             [kept |-> 1, merged |-> 3, row |-> [title |-> "three", gtin |-> Nothing], keptTitle |-> "one",
              listings |-> {"o1", "o2"}, items |-> {<<u1, 2>>}, dropped |-> {}, state |-> "rules"]>>
MCChainListed == "o1" :> 1 @@ "o2" :> 1
MCChainWatched == {<<u1, 2, 1>>}

\* Two products of one title, both watched by one user.  No offer is with the
\* first any more; one that is found by its identifier joins the second.
MCTwins == 1 :> [title |-> "one", gtin |-> Nothing] @@ 2 :> [title |-> "one", gtin |-> "g"]
MCTwinsWatched == {<<u1, 1, 1>>, <<u1, 2, 2>>}
MCTwinsSame == {{"one", "four"}}
MCEmpty == <<>>
MCNowhere == <<>>

\* FoundedOnce depends on it.
ASSUME MCOneFamily == OneFamily

CatalogueSymmetry == Permutations(Jobs) \cup Permutations(Runs)
====
