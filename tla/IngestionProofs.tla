---- MODULE IngestionProofs ----
(***************************************************************************)
(* Proofs about a scrape.  BrowserSessions: for any number of searches,    *)
(* pages per browser, launches and crashes, no browser is recycled under a *)
(* search that has a page in it or is being given one.  Catalogue: for any *)
(* products, offers, jobs, reconciliations and cleanups at once, nothing   *)
(* points at a product that is gone, a merge takes nobody's watch away,    *)
(* and where the family lock covers what the judge calls the same, a       *)
(* product is founded once.  PriceRecords: for any listings, prices,       *)
(* scrapes and rollups at once, every stored price is a change, a day      *)
(* that is not rolled up again is summed up right, and the daily series    *)
(* built from the changes are those of every price observed.               *)
(***************************************************************************)
EXTENDS MCIngestion, PriceRecords, FiniteSetTheorems, SequenceTheorems, WellFoundedInduction, TLAPS

----
(* The browsers of a store *)

Counted(l) == {c \in Callers : caller[c].counted = l}

CallersFit ==
    \A c \in Callers :
        /\ caller[c].pc = "idle" => caller[c].on = NoBrowser
        /\ caller[c].pc # "search" => caller[c].counted = NoBrowser
        /\ caller[c].on # NoBrowser => browser[caller[c].on] # "none"

\* The count of a browser covers the pages that will be subtracted from it.
CountsFit == \A l \in Launches : Cardinality(Counted(l)) <= usage[l].open

\* A page open in the cached browser is one of those it counts, unless the
\* browser is gone: it was counted when no later browser had been launched.
CountedWhereOpen ==
    \A c \in Callers :
        caller[c].pc = "search" /\ caller[c].on = cached /\ cached # NoBrowser
        => caller[c].counted = cached \/ browser[cached] = "dead"

\* The inductive invariant of BrowserSessions.
BrowserInd == BrowserType /\ CallersFit /\ CountsFit /\ CountedWhereOpen /\ RecycleSparesPages

PageCall == [pc : {"idle", "first", "again", "opened", "search"},
             on : Launches \cup {NoBrowser}, counted : Launches \cup {NoBrowser}]

BrowserStates == {"none", "launching", "live", "failed", "closing", "dead"}

Usage == [served : 0..MaxPages, open : Nat]

\* A step that leaves what is counted alone keeps the counts.
LEMMA CountsKept ==
    ASSUME BrowserType, CountsFit, UNCHANGED usage,
           \A c \in Callers : caller'[c].counted \in Launches => caller'[c].counted = caller[c].counted
    PROVE  CountsFit'
<1> SUFFICES ASSUME NEW l \in Launches PROVE Cardinality(Counted(l)') <= usage'[l].open
  BY DEF CountsFit
<1>1. Counted(l)' \subseteq Counted(l)
  BY DEF Counted
<1>2. IsFiniteSet(Counted(l))
  BY FS_Subset, BrowserAssumption DEF Counted
<1>3. Cardinality(Counted(l)') \in Nat /\ Cardinality(Counted(l)) \in Nat
  BY <1>1, <1>2, FS_Subset, FS_CardinalityType
<1>4. Cardinality(Counted(l)') <= Cardinality(Counted(l))
  BY <1>1, <1>2, FS_Subset
<1>5. usage[l].open \in Nat
  BY DEF BrowserType
<1> QED BY <1>3, <1>4, <1>5 DEF CountsFit

LEMMA Served ==
    ASSUME NEW n \in 0..MaxPages
    PROVE  Min({n + 1, MaxPages}) \in 0..MaxPages
<1>1. \E x \in {n + 1, MaxPages} : \A y \in {n + 1, MaxPages} : x =< y
  BY BrowserAssumption
<1>2. /\ Min({n + 1, MaxPages}) \in {n + 1, MaxPages}
      /\ \A y \in {n + 1, MaxPages} : Min({n + 1, MaxPages}) =< y
  BY <1>1 DEF Min
<1> QED BY <1>2, BrowserAssumption

LEMMA StartBrowsers == BrowserInit => BrowserInd
<1> SUFFICES ASSUME BrowserInit PROVE BrowserInd
  OBVIOUS
<1>1. BrowserType
  <2>1. usage \in [Launches -> Usage]
    BY BrowserAssumption DEF BrowserInit, Usage
  <2>2. caller \in [Callers -> PageCall]
    BY DEF BrowserInit, NoPage, PageCall
  <2> QED BY <2>1, <2>2 DEF BrowserInit, BrowserType, PageCall, Usage
<1>2. CallersFit /\ CountedWhereOpen /\ RecycleSparesPages
  BY DEF BrowserInit, NoPage, CallersFit, CountedWhereOpen, RecycleSparesPages
<1>3. CountsFit
  <2> SUFFICES ASSUME NEW l \in Launches PROVE Cardinality(Counted(l)) <= usage[l].open
    BY DEF CountsFit
  <2>1. Counted(l) = {}
    BY BrowserAssumption DEF BrowserInit, NoPage, Counted, Launches
  <2> QED BY <2>1, FS_EmptySet DEF BrowserInit
<1> QED BY <1>1, <1>2, <1>3 DEF BrowserInd

\* NoPage with the launch that a caller is given.
LEMMA GivenCall ==
    ASSUME NEW pc \in {"first", "again"}, NEW l \in Launches \cup {NoBrowser}
    PROVE  [NoPage EXCEPT !.pc = pc, !.on = l] = [pc |-> pc, on |-> l, counted |-> NoBrowser]
<1>1. ASSUME NEW call, call = [NoPage EXCEPT !.pc = pc, !.on = l]
      PROVE  call = [pc |-> pc, on |-> l, counted |-> NoBrowser]
  BY <1>1 DEF NoPage
<1> QED BY <1>1

\* A caller is given the cached browser, a refusal, or a launch.
LEMMA GivenABrowser ==
    ASSUME BrowserInd, NEW c \in Callers, NEW pc \in {"first", "again"},
           NEW found \in {cached, NoBrowser},
           GetContext(c, found, pc), UNCHANGED <<usage, recent, kills>>
    PROVE  BrowserInd'
<1> USE DEF BrowserInd
<1> DEFINE Given(b) == [pc |-> pc, on |-> b, counted |-> NoBrowser]
<1>1. PICK l \in Launches \cup {NoBrowser} :
         /\ cached' = l
         /\ caller' = [caller EXCEPT ![c] = Given(l)]
         /\ \/ l = found /\ browser' = browser
            \/ l # NoBrowser /\ browser[l] = "none" /\ browser' = [browser EXCEPT ![l] = "launching"]
  <2>1. CASE (found # NoBrowser \/ recent) /\ cached' = found
    <3>1. CASE browser' = browser /\ caller' = [caller EXCEPT ![c] = [NoPage EXCEPT !.pc = pc, !.on = found]]
      BY <2>1, <3>1, GivenCall DEF BrowserType
    <3>2. CASE found = NoBrowser /\ ~recent
      BY <2>1, <3>2
    <3> QED BY <2>1, <3>1, <3>2 DEF GetContext
  <2>2. CASE found = NoBrowser /\ ~recent
    <3>1. PICK k \in Launches :
             /\ browser[k] = "none" /\ browser' = [browser EXCEPT ![k] = "launching"]
             /\ cached' = k
             /\ caller' = [caller EXCEPT ![c] = [NoPage EXCEPT !.pc = pc, !.on = k]]
      BY <2>2, BrowserAssumption DEF GetContext
    <3>2. k # NoBrowser
      BY BrowserAssumption DEF Launches
    <3>3. caller' = [caller EXCEPT ![c] = Given(k)]
      BY <3>1, GivenCall, BrowserAssumption DEF Launches
    <3> QED BY <3>1, <3>2, <3>3
  <2> QED BY <2>1, <2>2 DEF GetContext
<1>2. BrowserType'
  <2>1. Given(l) \in PageCall
    BY DEF PageCall
  <2>2. caller' \in [Callers -> PageCall]
    BY <1>1, <2>1 DEF BrowserType, PageCall
  <2>3. browser' \in [Launches -> BrowserStates]
    BY <1>1 DEF BrowserType, BrowserStates
  <2>4. cached' # NoBrowser => browser'[cached'] \notin {"none", "failed", "closing"}
    BY <1>1 DEF BrowserType
  <2> QED BY <1>1, <2>2, <2>3, <2>4 DEF BrowserType, PageCall, BrowserStates
<1>3. CallersFit'
  BY <1>1 DEF BrowserType, CallersFit
<1>4. CountsFit'
  BY <1>1, CountsKept, BrowserAssumption DEF BrowserType, Launches
<1>5. CountedWhereOpen'
  BY <1>1 DEF BrowserType, CallersFit, CountedWhereOpen
<1>6. RecycleSparesPages'
  BY <1>1 DEF BrowserType, CallersFit, RecycleSparesPages
<1> QED BY <1>2, <1>3, <1>4, <1>5, <1>6

LEMMA TrackKeeps ==
    ASSUME BrowserInd, NEW c \in Callers, Track(c)
    PROVE  BrowserInd'
<1> USE DEF BrowserInd
<1>1. PICK heard \in BOOLEAN :
         /\ ~heard => browser[caller[c].on] = "dead"
         /\ caller' = [caller EXCEPT ![c].pc = "search", ![c].counted = IF heard THEN cached ELSE NoBrowser]
  BY DEF Track
<1>2. /\ caller[c].pc = "opened" /\ caller[c] \in PageCall
      /\ cached \in Launches \cup {NoBrowser}
      /\ UNCHANGED <<browser, cached, recent, kills>>
  BY DEF Track, BrowserType, PageCall
<1>3. PICK to \in {cached, NoBrowser} :
         /\ ~heard => to = NoBrowser
         /\ heard => to = cached
         /\ caller'[c] = [pc |-> "search", on |-> caller[c].on, counted |-> to]
         /\ \A d \in Callers \ {c} : caller'[d] = caller[d]
  <2> DEFINE to == IF heard THEN cached ELSE NoBrowser
  <2>1. caller'[c] = [caller[c] EXCEPT !.pc = "search", !.counted = to]
    BY <1>1 DEF BrowserType
  <2>2. caller'[c] = [pc |-> "search", on |-> caller[c].on, counted |-> to]
    BY <1>2, <2>1 DEF PageCall
  <2> QED BY <1>1, <2>2 DEF BrowserType
<1>4. \A l \in Launches : usage[l] \in Usage /\ usage'[l] \in Usage /\ usage[l].open <= usage'[l].open
  <2> SUFFICES ASSUME NEW l \in Launches
               PROVE  usage[l] \in Usage /\ usage'[l] \in Usage /\ usage[l].open <= usage'[l].open
    OBVIOUS
  <2>1. usage[l] \in Usage /\ Min({usage[l].served + 1, MaxPages}) \in 0..MaxPages
    BY Served DEF BrowserType, Usage
  <2>2. \/ usage'[l] = usage[l]
        \/ usage'[l] = [served |-> Min({usage[l].served + 1, MaxPages}), open |-> usage[l].open + 1]
    BY DEF Track, BrowserType
  <2> QED BY <2>1, <2>2 DEF Usage
<1>5. BrowserType'
  <2>1. caller'[c] \in PageCall
    BY <1>2, <1>3 DEF PageCall
  <2>2. caller' \in [Callers -> PageCall]
    BY <1>1, <1>3, <2>1 DEF BrowserType, PageCall
  <2>3. usage' \in [Launches -> Usage]
    BY <1>4 DEF Track, BrowserType, Usage
  <2> QED BY <1>2, <2>2, <2>3 DEF BrowserType, PageCall, Usage
<1>6. CallersFit'
  BY <1>2, <1>3 DEF CallersFit
<1>7. CountsFit'
  <2> SUFFICES ASSUME NEW l \in Launches PROVE Cardinality(Counted(l)') <= usage'[l].open
    BY DEF CountsFit
  <2>1. IsFiniteSet(Counted(l)) /\ Cardinality(Counted(l)) \in Nat
    BY FS_Subset, FS_CardinalityType, BrowserAssumption DEF Counted
  <2>2. Cardinality(Counted(l)) <= usage[l].open
    BY DEF CountsFit
  <2>3. CASE to = l
    <3>1. Counted(l)' = Counted(l) \cup {c}
      BY <1>3, <2>3 DEF Counted
    <3>2. c \notin Counted(l)
      BY <1>2, BrowserAssumption DEF CallersFit, Counted, Launches
    <3>3. Cardinality(Counted(l) \cup {c}) = IF c \in Counted(l) THEN Cardinality(Counted(l)) ELSE Cardinality(Counted(l)) + 1
      BY <2>1, FS_AddElement
    <3>4. cached = l /\ cached # NoBrowser
      BY <1>3, <2>3, BrowserAssumption DEF Launches
    <3>5. usage'[l].open = usage[l].open + 1
      BY <3>4 DEF Track, BrowserType
    <3> QED BY <1>4, <2>1, <2>2, <3>1, <3>2, <3>3, <3>5 DEF Usage
  <2>4. CASE to # l
    <3>1. Counted(l)' = Counted(l)
      <4>1. c \notin Counted(l)
        BY <1>2, BrowserAssumption DEF CallersFit, Counted, Launches
      <4> QED BY <1>3, <2>4, <4>1 DEF Counted
    <3> QED BY <1>4, <2>1, <2>2, <3>1 DEF Usage
  <2> QED BY <2>3, <2>4
<1>8. CountedWhereOpen'
  <2> SUFFICES ASSUME NEW d \in Callers, caller'[d].pc = "search", caller'[d].on = cached, cached # NoBrowser
               PROVE  caller'[d].counted = cached \/ browser[cached] = "dead"
    BY <1>2 DEF CountedWhereOpen
  <2>1. CASE d = c
    BY <1>1, <1>2, <1>3, <2>1
  <2>2. CASE d # c
    BY <1>3, <2>2 DEF CountedWhereOpen
  <2> QED BY <2>1, <2>2
<1>9. RecycleSparesPages'
  BY <1>2, <1>3 DEF RecycleSparesPages, PageCall
<1> QED BY <1>5, <1>6, <1>7, <1>8, <1>9

\* The last page of the cached browser closes: nobody else has one in it.
LEMMA RecyclesIdle ==
    ASSUME BrowserInd, NEW c \in Callers, NEW l \in Launches,
           caller[c].pc = "search", caller[c].counted = l, Recycles(l),
           NEW d \in Callers \ {c}, caller[d].on = l, browser[l] # "dead"
    PROVE  caller[d].pc = "idle"
<1> USE DEF BrowserInd
<1> SUFFICES ASSUME caller[d].pc # "idle" PROVE FALSE
  OBVIOUS
<1>1. caller[d].pc = "search"
  BY DEF Recycles, Opening, BrowserType
<1>2. caller[d].counted = l
  BY <1>1, BrowserAssumption DEF Recycles, CountedWhereOpen, Launches
<1>3. IsFiniteSet(Counted(l)) /\ {c, d} \subseteq Counted(l)
  BY <1>2, FS_Subset, BrowserAssumption DEF Counted
<1>4. Cardinality({c, d}) = 2
  <2>1. IsFiniteSet({c}) /\ Cardinality({c}) = 1
    BY FS_Singleton
  <2>2. Cardinality({c} \cup {d}) = IF d \in {c} THEN Cardinality({c}) ELSE Cardinality({c}) + 1
    BY <2>1, FS_AddElement
  <2>3. {c} \cup {d} = {c, d}
    OBVIOUS
  <2> QED BY <2>1, <2>2, <2>3
<1>5. 2 <= Cardinality(Counted(l)) /\ Cardinality(Counted(l)) \in Nat
  BY <1>3, <1>4, FS_Subset, FS_CardinalityType
<1> QED BY <1>5 DEF CountsFit, Recycles

LEMMA PageClosesKeeps ==
    ASSUME BrowserInd, NEW c \in Callers, PageCloses(c)
    PROVE  BrowserInd'
<1> USE DEF BrowserInd
<1>1. PICK l \in Launches \cup {NoBrowser} : l = caller[c].counted
  BY DEF BrowserType
<1>2. caller[c].pc = "search" /\ caller' = [caller EXCEPT ![c] = NoPage]
  BY DEF PageCloses
<1>3. caller' \in [Callers -> PageCall]
  BY <1>2 DEF BrowserType, PageCall, NoPage
<1>4. caller'[c] = NoPage /\ \A d \in Callers \ {c} : caller'[d] = caller[d]
  BY <1>2 DEF BrowserType
<1>5. CASE l = NoBrowser
  <2>1. UNCHANGED <<browser, cached, usage, recent>>
    BY <1>1, <1>5 DEF PageCloses
  <2>2. BrowserType'
    BY <1>3, <2>1 DEF BrowserType, PageCall
  <2>3. CountsFit'
    BY <1>4, <2>1, CountsKept, BrowserAssumption DEF NoPage, Launches
  <2> QED BY <1>4, <2>1, <2>2, <2>3 DEF CallersFit, CountedWhereOpen, RecycleSparesPages, NoPage
<1>6. CASE l # NoBrowser
  <2>1. /\ l \in Launches /\ recent' = recent
        /\ usage' = [usage EXCEPT ![l].open = @ - 1]
        /\ \/ /\ Recycles(l) /\ cached' = NoBrowser
              /\ browser' = [browser EXCEPT ![l] = IF @ = "live" THEN "closing" ELSE @]
           \/ UNCHANGED <<browser, cached>>
    BY <1>1, <1>6 DEF PageCloses
  <2>2. /\ IsFiniteSet(Counted(l)) /\ Cardinality(Counted(l)) \in Nat /\ c \in Counted(l)
        /\ Cardinality(Counted(l)) # 0
    BY <1>1, FS_Subset, FS_CardinalityType, FS_EmptySet, BrowserAssumption DEF Counted
  <2>3. /\ usage[l] \in Usage /\ usage[l].open >= 1
        /\ usage'[l] = [served |-> usage[l].served, open |-> usage[l].open - 1]
        /\ \A k \in Launches \ {l} : usage'[k] = usage[k]
    BY <2>1, <2>2 DEF CountsFit, BrowserType, Usage
  <2>4. usage' \in [Launches -> Usage]
    <3>1. usage'[l] \in Usage
      BY <2>3 DEF Usage
    <3> QED BY <2>1, <2>3, <3>1 DEF BrowserType, Usage
  <2>5. BrowserType'
    <3>1. browser' \in [Launches -> BrowserStates]
      BY <2>1 DEF BrowserType, BrowserStates
    <3>2. cached' \in Launches \cup {NoBrowser}
      BY <2>1 DEF BrowserType
    <3>3. cached' # NoBrowser => browser'[cached'] \notin {"none", "failed", "closing"}
      BY <2>1 DEF BrowserType
    <3> QED BY <1>3, <2>1, <2>4, <3>1, <3>2, <3>3 DEF BrowserType, PageCall, BrowserStates, Usage
  <2>6. CallersFit'
    BY <1>4, <2>1 DEF BrowserType, CallersFit, NoPage
  <2>7. CountsFit'
    <3> SUFFICES ASSUME NEW k \in Launches PROVE Cardinality(Counted(k)') <= usage'[k].open
      BY DEF CountsFit
    <3>1. CASE k = l
      <4>1. Counted(k)' = Counted(l) \ {c}
        BY <1>4, <1>6, <3>1 DEF Counted, NoPage
      <4>2. Cardinality(Counted(l) \ {c}) = IF c \in Counted(l) THEN Cardinality(Counted(l)) - 1 ELSE Cardinality(Counted(l))
        BY <2>2, FS_RemoveElement
      <4> QED BY <2>2, <2>3, <3>1, <4>1, <4>2 DEF CountsFit, Usage
    <3>2. CASE k # l
      <4>1. Counted(k)' = Counted(k)
        BY <1>1, <1>4, <3>2, BrowserAssumption DEF Counted, NoPage, Launches
      <4> QED BY <2>3, <3>2, <4>1 DEF CountsFit
    <3> QED BY <3>1, <3>2
  <2>8. CountedWhereOpen'
    BY <1>4, <2>1 DEF CountedWhereOpen, NoPage
  <2>9. RecycleSparesPages'
    <3> SUFFICES ASSUME NEW d \in Callers, caller'[d].on # NoBrowser, browser'[caller'[d].on] = "closing"
                 PROVE  caller'[d].pc = "idle"
      BY DEF RecycleSparesPages
    <3>1. d # c /\ caller'[d] = caller[d] /\ caller[d].on \in Launches
      BY <1>4 DEF NoPage, BrowserType
    <3>2. CASE browser[caller[d].on] = "closing"
      BY <3>1, <3>2 DEF RecycleSparesPages
    <3>3. CASE browser[caller[d].on] # "closing"
      <4>1. Recycles(l) /\ caller[d].on = l /\ browser[l] = "live"
        BY <2>1, <3>1, <3>3 DEF BrowserType
      <4>2. caller[d].pc = "idle"
        BY <1>1, <1>2, <2>1, <3>1, <4>1, RecyclesIdle
      <4> QED BY <3>1, <4>2
    <3> QED BY <3>2, <3>3
  <2> QED BY <2>5, <2>6, <2>7, <2>8, <2>9
<1> QED BY <1>5, <1>6

\* What becomes of a browser: it is launched or fails, dies, is closed or forgotten.
LEMMA BrowserMoves ==
    ASSUME BrowserInd, NEW l \in Launches,
           Launched(l) \/ LaunchFails(l) \/ Dies(l) \/ CloseEvent(l) \/ Closed(l)
    PROVE  BrowserInd'
<1> USE DEF BrowserInd
<1>1. /\ UNCHANGED <<usage, caller>> /\ recent' \in BOOLEAN
      /\ cached' \in {cached, NoBrowser}
      /\ \/ browser' = browser
         \/ browser[l] = "launching" /\ browser' = [browser EXCEPT ![l] = "live"]
         \/ browser[l] = "launching" /\ browser' = [browser EXCEPT ![l] = "failed"] /\ cached' # l
         \/ browser' = [browser EXCEPT ![l] = "dead"]
  BY BrowserAssumption DEF Launched, LaunchFails, Dies, CloseEvent, Closed, EvictOnly, BrowserType, Launches
<1>2. BrowserType'
  <2>1. browser' \in [Launches -> BrowserStates] /\ cached' \in Launches \cup {NoBrowser}
    BY <1>1 DEF BrowserType, BrowserStates
  <2>2. cached' # NoBrowser => browser'[cached'] \notin {"none", "failed", "closing"}
    BY <1>1 DEF BrowserType
  <2> QED BY <1>1, <2>1, <2>2 DEF BrowserType, BrowserStates
<1>3. CallersFit'
  BY <1>1 DEF CallersFit, BrowserType
<1>4. CountsFit'
  BY <1>1, CountsKept
<1>5. CountedWhereOpen'
  BY <1>1 DEF CountedWhereOpen, BrowserType
<1>6. RecycleSparesPages'
  BY <1>1 DEF RecycleSparesPages, BrowserType
<1> QED BY <1>2, <1>3, <1>4, <1>5, <1>6

LEMMA CallerMoves ==
    ASSUME BrowserInd, NEW c \in Callers, NewPage(c) \/ GivesUp(c)
    PROVE  BrowserInd'
<1> USE DEF BrowserInd
<1>1. PICK call \in PageCall :
         /\ caller' = [caller EXCEPT ![c] = call]
         /\ call = NoPage \/ (call.pc = "opened" /\ call.on = caller[c].on /\ browser[call.on] = "live"
                               /\ call.counted = NoBrowser)
         /\ UNCHANGED <<browser, cached, usage, recent>>
  <2>1. CASE NewPage(c)
    <3>1. [caller[c] EXCEPT !.pc = "opened"] \in PageCall
      BY DEF BrowserType, PageCall
    <3>2. caller[c].counted = NoBrowser
      BY <2>1 DEF NewPage, CallersFit
    <3> QED BY <2>1, <3>1, <3>2 DEF NewPage, BrowserType
  <2>2. CASE GivesUp(c)
    BY <2>2 DEF GivesUp, NoPage, PageCall
  <2> QED BY <2>1, <2>2
<1>2. caller' \in [Callers -> PageCall]
  BY <1>1 DEF BrowserType, PageCall
<1>3. BrowserType'
  BY <1>1, <1>2 DEF BrowserType, PageCall
<1>4. CountsFit'
  BY <1>1, CountsKept, BrowserAssumption DEF NoPage, Launches, BrowserType
<1> QED BY <1>1, <1>3, <1>4 DEF BrowserType, CallersFit, CountedWhereOpen, RecycleSparesPages, NoPage

LEMMA BrowserStep == BrowserInd /\ [BrowserNext]_browserVars => BrowserInd'
<1> SUFFICES ASSUME BrowserInd, [BrowserNext]_browserVars PROVE BrowserInd'
  OBVIOUS
<1>1. ASSUME NEW c \in Callers,
             GetPage(c) \/ NewPage(c) \/ Relaunch(c) \/ GivesUp(c) \/ Track(c) \/ PageCloses(c)
      PROVE  BrowserInd'
  <2>1. CASE GetPage(c)
    BY <2>1, GivenABrowser DEF GetPage
  <2>2. CASE Relaunch(c)
    BY <2>2, GivenABrowser DEF Relaunch
  <2> QED BY <1>1, <2>1, <2>2, CallerMoves, TrackKeeps, PageClosesKeeps
<1>2. ASSUME NEW l \in Launches, Launched(l) \/ LaunchFails(l) \/ Dies(l) \/ CloseEvent(l) \/ Closed(l)
      PROVE  BrowserInd'
  BY <1>2, BrowserMoves
<1>3. CASE RetryTime
  BY <1>3 DEF RetryTime, BrowserInd, BrowserType, CallersFit, CountsFit, Counted, CountedWhereOpen,
              RecycleSparesPages
<1>4. CASE UNCHANGED browserVars
  BY <1>4 DEF browserVars, BrowserInd, BrowserType, CallersFit, CountsFit, Counted, CountedWhereOpen,
              RecycleSparesPages
<1> QED BY <1>1, <1>2, <1>3, <1>4 DEF BrowserNext

\* In every state of every instance: the browsers' records have their types,
\* a count of open pages covers the pages that are counted, and a page of the
\* cached browser is counted for it.
THEOREM BrowsersInvariant == BrowserSpec => []BrowserInd
BY StartBrowsers, BrowserStep, PTL DEF BrowserSpec

\* No browser is recycled ("at a moment none of its pages is open") while a
\* search has its page in it, or is being given one, whatever browsers were
\* launched, died or were replaced between getPage()'s steps.
THEOREM PagesAreSpared == BrowserSpec => []RecycleSparesPages
<1>1. BrowserInd => RecycleSparesPages
  BY DEF BrowserInd
<1> QED BY <1>1, BrowsersInvariant, PTL

----
(* The catalogue *)

Creating == {j \in Jobs : job[j].pc = "create"}

\* No scrape founds twice, so an id is left for each that is about to.
IdsFit ==
    /\ scrapes \in 0..MaxScrapes
    /\ founded \cap Taken = {}
    /\ Cardinality(founded) + Cardinality(Creating) <= scrapes

\* The family lock, and what a job has in hand under it.
JobsFit ==
    /\ \A j \in Jobs : job[j].pc \in {"upsert", "append"} => job[j].product \in Products
    /\ \A j, k \in Jobs :
          job[j].pc # "idle" /\ job[k].pc # "idle" /\ OfferRow[job[j].offer].family = OfferRow[job[k].offer].family
          => j = k

\* The log grows behind the merges of the code rules, which alone are undone.
LogFits ==
    /\ Len(Legacy) <= Len(log)
    /\ \A i \in DOMAIN Legacy : log[i].merged = Legacy[i].merged
    /\ \A i \in DOMAIN log : log[i].state = "rules" => i \in DOMAIN Legacy

RunsFit == \A r \in Runs : run[r].pc \in {"move", "commit"} => run[r].keep # run[r].merge

\* The inductive invariant of Catalogue.
CatalogueInd == CatalogueType /\ IdsFit /\ JobsFit /\ LogFits /\ RunsFit

\* An offer that is told apart from a product, or that the product's identifier
\* keeps from founding another one.
ToldApart(o, row) ==
    \/ Conflict(OfferRow[o], row) \/ ~SaysSame(OfferRow[o], row)
    \/ OfferRow[o].gtin # Nothing /\ OfferRow[o].gtin = row.gtin

FoundersFit == \A j \in Creating : \A p \in founded \cap Existing : ToldApart(job[j].offer, products[p])

ListingRow == [product : Products \cup {Nothing}, status : {"ABSENT", "ACCEPTED", "REJECTED"}]

RunRow == ReviewRun \cup PickRun \cup MergeRun \cup {Idle}

LEMMA LeastOf ==
    ASSUME NEW S, S \subseteq Nat, S # {}
    PROVE  Min(S) \in S
<1>1. PICK x \in S : \A y \in S : ~(<<y, x>> \in OpToRel(<, Nat))
  BY NatLessThanWellFounded, WFMin, Zenon
<1>2. \A y \in S : ~(y < x)
  BY <1>1, Zenon DEF OpToRel
<1>3. \A y \in S : x =< y
  BY <1>2
<1> QED BY <1>3 DEF Min

\* The stored ids and those of the first merges are products.
LEMMA TakenIds ==
    /\ Taken \subseteq Products /\ IsFiniteSet(Taken) /\ DOMAIN Stored \subseteq Taken
    /\ \A i \in DOMAIN Legacy : Legacy[i].merged \in Taken
<1>1. \A i \in DOMAIN Legacy : Legacy[i] \in Merge
  BY CatalogueAssumption
<1>2. Taken \subseteq Products
  BY <1>1, CatalogueAssumption DEF Taken, Range, Merge
<1>3. IsFiniteSet(Taken)
  BY <1>2, FS_Subset, CatalogueAssumption
<1> QED BY <1>2, <1>3 DEF Taken, Range

LEMMA OfferRows ==
    ASSUME NEW o \in Offers
    PROVE  [title |-> OfferRow[o].title, gtin |-> OfferRow[o].gtin] \in Rows
BY DEF Rows

LEMMA StartCatalogue == CatalogueInit => CatalogueInd /\ FoundersFit /\ FoundedOnce
<1> SUFFICES ASSUME CatalogueInit PROVE CatalogueInd /\ FoundersFit /\ FoundedOnce
  OBVIOUS
<1>1. products \in Loaded /\ Existing = DOMAIN Stored
  BY CatalogueAssumption DEF CatalogueInit, Loaded, Existing
<1>2. listing \in [Offers -> ListingRow] /\ \A o \in Offers : listing[o].product \in Existing \cup {Nothing}
  BY <1>1, CatalogueAssumption DEF CatalogueInit, ListingRow
<1>3. history \subseteq Offers \X Products /\ \A h \in history : h[2] \in Existing
  BY <1>1, CatalogueAssumption DEF CatalogueInit
<1>4. watch \subseteq Users \X Products \X Products /\ \A w \in watch : w[3] \in Existing
  BY <1>1, CatalogueAssumption DEF CatalogueInit
<1>5. job \in [Jobs -> JobCall \cup {Idle}] /\ run \in [Runs -> RunRow]
  BY DEF CatalogueInit, RunRow
<1>6. CatalogueType
  BY <1>1, <1>2, <1>3, <1>4, <1>5, CatalogueAssumption
     DEF CatalogueInit, CatalogueType, References, ListingRow, RunRow
<1>7. Creating = {}
  BY DEF CatalogueInit, Creating, Idle
<1>8. IdsFit
  <2>1. Cardinality(founded) = 0 /\ Cardinality(Creating) = 0
    BY <1>7, FS_EmptySet DEF CatalogueInit
  <2> QED BY <2>1, CatalogueAssumption DEF CatalogueInit, IdsFit
<1>9. JobsFit /\ LogFits /\ RunsFit
  BY CatalogueAssumption DEF CatalogueInit, JobsFit, LogFits, RunsFit, Idle
<1>10. FoundersFit /\ FoundedOnce
  BY <1>7 DEF CatalogueInit, FoundersFit, FoundedOnce
<1> QED BY <1>6, <1>8, <1>9, <1>10 DEF CatalogueInd

----
(* Ingestion *)

\* Fewer jobs about to found a product: the ids left still do.
LEMMA IdsKept ==
    ASSUME CatalogueType, IdsFit, founded' = founded, scrapes' = scrapes, Creating' \subseteq Creating
    PROVE  IdsFit'
<1>1. IsFiniteSet(Creating)
  BY FS_Subset, CatalogueAssumption DEF Creating
<1>2. Cardinality(Creating') <= Cardinality(Creating)
  BY <1>1, FS_Subset
<1>3. Cardinality(Creating') \in Nat /\ Cardinality(Creating) \in Nat
  BY <1>1, FS_Subset, FS_CardinalityType
<1>4. IsFiniteSet(founded) /\ Cardinality(founded) \in Nat
  <2>1. IsFiniteSet(founded)
    BY FS_Subset, CatalogueAssumption DEF CatalogueType
  <2> QED BY <2>1, FS_CardinalityType
<1> QED BY <1>2, <1>3, <1>4 DEF IdsFit

\* A job that has the family lock goes on, or gives it back.
LEMMA JobMoves ==
    ASSUME CatalogueInd, NEW j \in Jobs, job[j].pc # "idle",
           NEW next \in JobCall \cup {Idle},
           next = Idle \/ (next.offer = job[j].offer /\ (next.pc = "create" \/ next.product \in Products)),
           job' = [job EXCEPT ![j] = next]
    PROVE  /\ job' \in [Jobs -> JobCall \cup {Idle}]
           /\ JobsFit'
           /\ next.pc # "create" => Creating' = Creating \ {j}
<1>1. job' \in [Jobs -> JobCall \cup {Idle}]
  BY DEF CatalogueInd, CatalogueType
<1>2. job'[j] = next /\ \A k \in Jobs \ {j} : job'[k] = job[k]
  BY DEF CatalogueInd, CatalogueType
<1>3. JobsFit'
  <2>1. \A i \in Jobs : job'[i].pc # "idle" => job[i].pc # "idle" /\ job'[i].offer = job[i].offer
    BY <1>2 DEF Idle
  <2>2. \A i \in Jobs : job'[i].pc \in {"upsert", "append"} => job'[i].product \in Products
    BY <1>2 DEF CatalogueInd, JobsFit, Idle
  <2> QED BY <2>1, <2>2 DEF CatalogueInd, JobsFit
<1>4. next.pc # "create" => Creating' = Creating \ {j}
  BY <1>2 DEF Creating
<1> QED BY <1>1, <1>3, <1>4

\* What a job may hold.
LEMMA JobsHold ==
    ASSUME CatalogueInd, NEW j \in Jobs, job[j].pc # "idle"
    PROVE  /\ job[j] \in JobCall
           /\ Idle \in JobCall \cup {Idle}
           /\ \A p \in Products : [job[j] EXCEPT !.pc = "upsert", !.product = p] \in JobCall
           /\ [job[j] EXCEPT !.pc = "append"] \in JobCall
<1>1. job[j] \in JobCall
  BY DEF CatalogueInd, CatalogueType, Idle
<1> QED BY <1>1 DEF JobCall

\* The product an offer is matched with is one that is there.
LEMMA MatchesExist ==
    ASSUME CatalogueType, NEW o \in Offers
    PROVE  MatchOf(o) \subseteq Existing \cup {Nothing, Held}
<1> DEFINE fits == {p \in Existing : ~Conflict(OfferRow[o], products[p])}
           mine == IF listing[o].status = "ACCEPTED" THEN {listing[o].product} \cap fits ELSE {}
           byId == {p \in Existing : OfferRow[o].gtin # Nothing /\ products[p].gtin = OfferRow[o].gtin}
           exact == {p \in fits : products[p].title = OfferRow[o].title}
           same == {p \in fits : SaysSame(OfferRow[o], products[p])}
<1>1. mine \subseteq Existing /\ byId \subseteq Existing /\ exact \subseteq Existing /\ same \subseteq Existing
  OBVIOUS
<1>2. exact # {} => Min(exact) \in exact
  <2>1. exact \subseteq Nat
    BY CatalogueAssumption DEF Existing
  <2> HIDE DEF exact
  <2> QED BY <2>1, LeastOf
<1>3. MatchOf(o) \subseteq mine \cup byId \cup {Min(exact)} \cup same \cup {Nothing, Held}
      /\ (exact = {} => MatchOf(o) \subseteq mine \cup byId \cup same \cup {Nothing, Held})
  <2> DEFINE least == Min(exact)
  <2>1. MatchOf(o) = CASE mine # {} -> mine
                       [] mine = {} /\ byId # {} -> byId
                       [] mine = {} /\ byId = {} /\ exact # {} -> {least}
                       [] OTHER -> IF fits = {} THEN {Nothing}
                                   ELSE {Held} \cup (IF same = {} THEN {Nothing} ELSE same)
    BY DEF MatchOf
  <2> HIDE DEF mine, byId, exact, same, fits, least
  <2>2. CASE mine # {}
    BY <2>1, <2>2
  <2>3. CASE mine = {} /\ byId # {}
    BY <2>1, <2>3
  <2>4. CASE mine = {} /\ byId = {} /\ exact # {}
    <3>1. MatchOf(o) = {least}
      BY <2>1, <2>4
    <3> QED BY <2>4, <3>1 DEF least
  <2>5. CASE mine = {} /\ byId = {} /\ exact = {}
    <3>1. MatchOf(o) = IF fits = {} THEN {Nothing} ELSE {Held} \cup (IF same = {} THEN {Nothing} ELSE same)
      BY <2>1, <2>5
    <3> QED BY <3>1
  <2> QED BY <2>2, <2>3, <2>4, <2>5
<1> HIDE DEF mine, byId, exact, same, fits
<1> QED BY <1>1, <1>2, <1>3

\* An offer founds a product when none that fits it has its title or, the judge
\* says, is the same, and none has its identifier.
LEMMA NothingMatches ==
    ASSUME CatalogueType, NEW o \in Offers, Nothing \in MatchOf(o)
    PROVE  /\ \A p \in Existing : Conflict(OfferRow[o], products[p]) \/ ~SaysSame(OfferRow[o], products[p])
           /\ ~GtinTaken(OfferRow[o].gtin)
<1> DEFINE fits == {p \in Existing : ~Conflict(OfferRow[o], products[p])}
           mine == IF listing[o].status = "ACCEPTED" THEN {listing[o].product} \cap fits ELSE {}
           byId == {p \in Existing : OfferRow[o].gtin # Nothing /\ products[p].gtin = OfferRow[o].gtin}
           exact == {p \in fits : products[p].title = OfferRow[o].title}
           same == {p \in fits : SaysSame(OfferRow[o], products[p])}
           least == Min(exact)
<1>1. Nothing \notin mine /\ Nothing \notin byId /\ Nothing \notin same
  BY CatalogueAssumption DEF Existing
<1>2. exact # {} => Nothing # least
  <2>1. exact \subseteq Nat /\ exact \subseteq Products
    BY CatalogueAssumption DEF Existing
  <2> HIDE DEF exact
  <2> QED BY <2>1, LeastOf, CatalogueAssumption
<1>3. MatchOf(o) = CASE mine # {} -> mine
                     [] mine = {} /\ byId # {} -> byId
                     [] mine = {} /\ byId = {} /\ exact # {} -> {least}
                     [] OTHER -> IF fits = {} THEN {Nothing}
                                 ELSE {Held} \cup (IF same = {} THEN {Nothing} ELSE same)
  BY DEF MatchOf
<1>4. byId = {} /\ same = {}
  <2>1. fits = {} => same = {}
    OBVIOUS
  <2> HIDE DEF mine, byId, exact, same, fits, least
  <2>2. mine = {} /\ byId = {} /\ exact = {}
    <3>1. CASE mine # {}
      BY <1>1, <1>3, <3>1
    <3>2. CASE mine = {} /\ byId # {}
      BY <1>1, <1>3, <3>2
    <3>3. CASE mine = {} /\ byId = {} /\ exact # {}
      <4>1. MatchOf(o) = {least}
        BY <1>3, <3>3
      <4> QED BY <1>2, <3>3, <4>1
    <3> QED BY <3>1, <3>2, <3>3
  <2>3. MatchOf(o) = IF fits = {} THEN {Nothing} ELSE {Held} \cup (IF same = {} THEN {Nothing} ELSE same)
    BY <1>3, <2>2
  <2> QED BY <1>1, <2>1, <2>2, <2>3, CatalogueAssumption
<1> QED BY <1>4 DEF GtinTaken

LEMMA MatchKeeps ==
    ASSUME CatalogueInd, NEW j \in Jobs, NEW o \in Offers, Match(j, o)
    PROVE  CatalogueInd'
<1> USE DEF CatalogueInd
<1>1. PICK found \in MatchOf(o) \ {Held} :
         job' = [job EXCEPT ![j] = [pc |-> IF found = Nothing THEN "create" ELSE "upsert",
                                    offer |-> o, product |-> found, new |-> found = Nothing]]
  BY DEF Match
<1>2. /\ job[j].pc = "idle" /\ scrapes < MaxScrapes /\ scrapes' = scrapes + 1 /\ FamilyFree(o)
      /\ UNCHANGED <<shared, run, runs>>
  BY DEF Match
<1>3. found \in Products \cup {Nothing}
  BY <1>1, MatchesExist DEF Existing
<1>4. PICK next \in JobCall :
         /\ job' = [job EXCEPT ![j] = next]
         /\ next.offer = o /\ next.pc \in {"create", "upsert"}
         /\ next.pc = "upsert" => next.product \in Products
  <2>1. CASE found = Nothing
    <3> DEFINE next == [pc |-> "create", offer |-> o, product |-> Nothing, new |-> TRUE]
    <3>1. next \in JobCall
      BY DEF JobCall
    <3>2. job' = [job EXCEPT ![j] = next]
      BY <1>1, <2>1
    <3> QED BY <3>1, <3>2
  <2>2. CASE found # Nothing
    <3> DEFINE next == [pc |-> "upsert", offer |-> o, product |-> found, new |-> FALSE]
    <3>1. next \in JobCall
      BY <1>3, <2>2 DEF JobCall
    <3>2. job' = [job EXCEPT ![j] = next]
      BY <1>1, <2>2
    <3> QED BY <1>3, <2>2, <3>1, <3>2
  <2> QED BY <2>1, <2>2
<1>5. job'[j] = next /\ \A k \in Jobs \ {j} : job'[k] = job[k]
  BY <1>4 DEF CatalogueType
<1>6. job' \in [Jobs -> JobCall \cup {Idle}]
  BY <1>4 DEF CatalogueType
<1>7. CatalogueType'
  BY <1>2, <1>6 DEF shared, CatalogueType, References, Existing
<1>8. JobsFit'
  <2>1. \A k \in Jobs \ {j} : job[k].pc # "idle" => OfferRow[job[k].offer].family # OfferRow[o].family
    BY <1>2 DEF FamilyFree
  <2> QED BY <1>4, <1>5, <2>1 DEF JobsFit
<1>9. IdsFit'
  <2>1. IsFiniteSet(Creating) /\ Cardinality(Creating) \in Nat
    BY FS_Subset, FS_CardinalityType, CatalogueAssumption DEF Creating
  <2>2. IsFiniteSet(founded) /\ Cardinality(founded) \in Nat
    BY FS_Subset, FS_CardinalityType, CatalogueAssumption DEF CatalogueType
  <2>3. Creating' \subseteq Creating \cup {j} /\ j \notin Creating
    BY <1>2, <1>5 DEF Creating
  <2>4. Cardinality(Creating \cup {j}) = IF j \in Creating THEN Cardinality(Creating) ELSE Cardinality(Creating) + 1
    BY <2>1, FS_AddElement
  <2>5. IsFiniteSet(Creating \cup {j})
    BY <2>1, FS_AddElement
  <2>6. Cardinality(Creating') <= Cardinality(Creating) + 1 /\ Cardinality(Creating') \in Nat
    BY <2>3, <2>4, <2>5, FS_Subset, FS_CardinalityType
  <2> QED BY <1>2, <2>1, <2>2, <2>6, CatalogueAssumption DEF IdsFit, shared
<1>10. LogFits' /\ RunsFit'
  BY <1>2 DEF shared, LogFits, RunsFit
<1> QED BY <1>7, <1>8, <1>9, <1>10

\* A job about to found a product finds an id nobody has had.
LEMMA AnIdIsLeft ==
    ASSUME CatalogueInd, NEW j \in Creating
    PROVE  Min(Products \ (founded \cup Taken)) \in Products \ (founded \cup Taken)
<1> USE DEF CatalogueInd
<1> DEFINE used == founded \cup Taken
<1>1. IsFiniteSet(Creating) /\ Cardinality(Creating) \in Nat /\ Cardinality(Creating) # 0
  BY FS_Subset, FS_CardinalityType, FS_EmptySet, CatalogueAssumption DEF Creating
<1>2. IsFiniteSet(founded) /\ Cardinality(founded) \in Nat
  BY FS_Subset, FS_CardinalityType, CatalogueAssumption DEF CatalogueType
<1>3. IsFiniteSet(Taken) /\ Cardinality(Taken) \in Nat
  BY TakenIds, FS_CardinalityType
<1>4. Cardinality(used) = Cardinality(founded) + Cardinality(Taken) - Cardinality(founded \cap Taken) /\ IsFiniteSet(used)
  BY <1>2, <1>3, FS_Union
<1>5. Cardinality(founded \cap Taken) = 0
  BY FS_EmptySet DEF IdsFit
<1>6. Cardinality(used) < Cardinality(Products)
  <2>1. Cardinality(Products) \in Nat
    BY CatalogueAssumption, FS_CardinalityType
  <2> QED BY <1>1, <1>2, <1>3, <1>4, <1>5, <2>1, CatalogueAssumption DEF IdsFit
<1>7. Products \ used # {}
  <2> SUFFICES ASSUME Products \subseteq used PROVE FALSE
    OBVIOUS
  <2>1. Cardinality(Products) <= Cardinality(used)
    BY <1>4, FS_Subset
  <2>2. Cardinality(Products) \in Nat /\ Cardinality(used) \in Nat
    BY <1>4, CatalogueAssumption, FS_CardinalityType
  <2> QED BY <1>6, <2>1, <2>2
<1>8. Products \ used \subseteq Nat
  BY CatalogueAssumption
<1> QED BY <1>7, <1>8, LeastOf

LEMMA CreateKeeps ==
    ASSUME CatalogueInd, NEW j \in Jobs, Create(j)
    PROVE  CatalogueInd'
<1> USE DEF CatalogueInd
<1>1. PICK o \in Offers, id \in Products \ (founded \cup Taken) :
         o = job[j].offer /\ id = Min(Products \ (founded \cup Taken))
  <2>1. j \in Creating
    BY DEF Create, Creating
  <2>2. job[j].offer \in Offers
    BY <2>1, JobsHold DEF Creating, JobCall
  <2> QED BY <2>1, <2>2, AnIdIsLeft
<1>2. /\ job[j].pc = "create" /\ job[j] \in JobCall /\ j \in Creating
      /\ UNCHANGED <<listing, history, watch, cart, log, founded, watched, run, scrapes, runs>> \/ founded' = founded \cup {id}
      /\ UNCHANGED <<listing, history, watch, cart, log, watched, run, scrapes, runs>>
  BY <1>1, JobsHold DEF Create, Creating
<1>3. PICK next \in JobCall \cup {Idle} :
         /\ job' = [job EXCEPT ![j] = next] /\ next.pc # "create"
         /\ next = Idle \/ (next.offer = job[j].offer /\ next.product \in Products)
         /\ \/ UNCHANGED <<products, founded>>
            \/ /\ products' = [products EXCEPT ![id] = [title |-> OfferRow[o].title, gtin |-> OfferRow[o].gtin]]
               /\ founded' = founded \cup {id}
  <2>1. CASE GtinTaken(OfferRow[o].gtin)
    <3>1. job' = [job EXCEPT ![j] = Idle] /\ UNCHANGED <<products, founded>>
      BY <1>1, <2>1 DEF Create
    <3>2. Idle.pc # "create"
      BY DEF Idle
    <3> QED BY <3>1, <3>2
  <2>2. CASE ~GtinTaken(OfferRow[o].gtin)
    <3> DEFINE next == [job[j] EXCEPT !.pc = "upsert", !.product = id]
    <3>1. next \in JobCall
      BY <1>2, JobsHold
    <3>2. next.pc = "upsert" /\ next.product = id /\ next.offer = job[j].offer
      BY <1>2 DEF JobCall
    <3>3. job' = [job EXCEPT ![j].pc = "upsert", ![j].product = id]
          /\ products' = [products EXCEPT ![id] = [title |-> OfferRow[o].title, gtin |-> OfferRow[o].gtin]]
          /\ founded' = founded \cup {id}
      BY <1>1, <2>2 DEF Create
    <3>4. job' = [job EXCEPT ![j] = next]
      BY <3>3
    <3> HIDE DEF next
    <3> QED BY <3>1, <3>2, <3>3, <3>4
  <2> QED BY <2>1, <2>2
<1>4. job' \in [Jobs -> JobCall \cup {Idle}] /\ JobsFit' /\ Creating' = Creating \ {j}
  BY <1>2, <1>3, JobMoves
<1>5. products' \in Loaded /\ Existing \subseteq Existing'
  <2>1. PICK row \in Rows : row = [title |-> OfferRow[o].title, gtin |-> OfferRow[o].gtin]
    BY OfferRows
  <2>2. row # Nothing /\ (products' = products \/ products' = [products EXCEPT ![id] = row])
    BY <1>3, <2>1, CatalogueAssumption
  <2> QED BY <2>1, <2>2 DEF CatalogueType, Loaded, Existing
<1>6. founded' \subseteq Products
  BY <1>3 DEF CatalogueType
<1>7. CatalogueType'
  BY <1>2, <1>4, <1>5, <1>6 DEF CatalogueType, References
<1>8. IdsFit'
  <2>1. IsFiniteSet(Creating) /\ Cardinality(Creating) \in Nat
    BY FS_Subset, FS_CardinalityType, CatalogueAssumption DEF Creating
  <2>2. IsFiniteSet(founded) /\ Cardinality(founded) \in Nat
    BY FS_Subset, FS_CardinalityType, CatalogueAssumption DEF CatalogueType
  <2>3. Cardinality(Creating \ {j}) = IF j \in Creating THEN Cardinality(Creating) - 1 ELSE Cardinality(Creating)
    BY <2>1, FS_RemoveElement
  <2>4. Cardinality(founded \cup {id}) = IF id \in founded THEN Cardinality(founded) ELSE Cardinality(founded) + 1
    BY <2>2, FS_AddElement
  <2>5. Cardinality(founded') <= Cardinality(founded) + 1 /\ founded' \cap Taken = {}
        /\ Cardinality(founded') \in Nat
    <3>1. CASE founded' = founded
      BY <2>2, <3>1 DEF IdsFit
    <3>2. CASE founded' = founded \cup {id}
      BY <1>1, <2>2, <2>4, <3>2 DEF IdsFit
    <3> QED BY <1>3, <3>1, <3>2
  <2> QED BY <1>2, <1>4, <2>1, <2>2, <2>3, <2>5 DEF IdsFit
<1>9. LogFits' /\ RunsFit'
  BY <1>2 DEF LogFits, RunsFit
<1> QED BY <1>4, <1>7, <1>8, <1>9

LEMMA UpsertKeeps ==
    ASSUME CatalogueInd, NEW j \in Jobs, Upsert(j)
    PROVE  CatalogueInd'
<1> USE DEF CatalogueInd
<1>1. /\ job[j].pc = "upsert" /\ job[j] \in JobCall /\ job[j].offer \in Offers
      /\ UNCHANGED <<products, history, watch, cart, log, founded, watched, run, scrapes, runs>>
  BY JobsHold DEF Upsert, JobCall
<1>2. PICK next \in JobCall \cup {Idle} :
         /\ job' = [job EXCEPT ![j] = next] /\ next.pc # "create"
         /\ next = Idle \/ (next.offer = job[j].offer /\ next.product \in Products)
         /\ \/ listing' = listing
            \/ /\ job[j].product \in Existing
               /\ listing' = [listing EXCEPT ![job[j].offer] = [product |-> job[j].product, status |-> "ACCEPTED"]]
  <2>1. CASE job[j].product \notin Existing
    BY <2>1 DEF Upsert, Idle
  <2>2. CASE job[j].product \in Existing
    <3> DEFINE next == [job[j] EXCEPT !.pc = "append"]
    <3>1. next \in JobCall
      BY <1>1, JobsHold
    <3>2. next.pc = "append" /\ next.product = job[j].product /\ next.offer = job[j].offer
      BY <1>1 DEF JobCall
    <3>3. job[j].product \in Products
      BY <1>1 DEF JobsFit
    <3>4. job' = [job EXCEPT ![j] = next]
      BY <2>2 DEF Upsert
    <3> HIDE DEF next
    <3> QED BY <2>2, <3>1, <3>2, <3>3, <3>4 DEF Upsert
  <2> QED BY <2>1, <2>2
<1>3. job' \in [Jobs -> JobCall \cup {Idle}] /\ JobsFit' /\ Creating' = Creating \ {j}
  BY <1>1, <1>2, JobMoves
<1>4. listing' \in [Offers -> ListingRow] /\ \A o \in Offers : listing'[o].product \in Existing \cup {Nothing}
  <2>1. listing \in [Offers -> ListingRow] /\ \A o \in Offers : listing[o].product \in Existing \cup {Nothing}
    BY DEF CatalogueType, References, ListingRow
  <2>2. Existing \subseteq Products
    BY DEF Existing
  <2> QED BY <1>1, <1>2, <2>1, <2>2 DEF ListingRow
<1>5. Existing' = Existing
  BY <1>1 DEF Existing
<1>6. CatalogueType'
  BY <1>1, <1>3, <1>4, <1>5 DEF CatalogueType, References, ListingRow
<1>7. IdsFit'
  BY <1>1, <1>3, IdsKept
<1>8. LogFits' /\ RunsFit'
  BY <1>1 DEF LogFits, RunsFit
<1> QED BY <1>3, <1>6, <1>7, <1>8

LEMMA RejectKeeps ==
    ASSUME CatalogueInd, NEW j \in Jobs, Reject(j)
    PROVE  CatalogueInd'
<1> USE DEF CatalogueInd
<1>1. /\ job[j].pc = "upsert" /\ job[j] \in JobCall /\ job[j].offer \in Offers
      /\ job' = [job EXCEPT ![j] = Idle]
      /\ UNCHANGED <<products, history, watch, cart, log, founded, watched, run, scrapes, runs>>
  BY JobsHold DEF Reject, JobCall
<1>2. job' \in [Jobs -> JobCall \cup {Idle}] /\ JobsFit' /\ Creating' = Creating \ {j}
  BY <1>1, JobMoves DEF Idle
<1>3. listing' \in [Offers -> ListingRow] /\ \A o \in Offers : listing'[o].product = listing[o].product
  <2>1. listing \in [Offers -> ListingRow]
    BY DEF CatalogueType, ListingRow
  <2>2. listing' = listing \/ listing' = [listing EXCEPT ![job[j].offer].status = "REJECTED"]
    BY DEF Reject
  <2> QED BY <1>1, <2>1, <2>2 DEF ListingRow
<1>4. Existing' = Existing
  BY <1>1 DEF Existing
<1>5. CatalogueType'
  BY <1>1, <1>2, <1>3, <1>4 DEF CatalogueType, References, ListingRow
<1>6. IdsFit'
  BY <1>1, <1>2, IdsKept
<1>7. LogFits' /\ RunsFit'
  BY <1>1 DEF LogFits, RunsFit
<1> QED BY <1>2, <1>5, <1>6, <1>7

LEMMA AppendKeeps ==
    ASSUME CatalogueInd, NEW j \in Jobs, AppendPoint(j)
    PROVE  CatalogueInd'
<1> USE DEF CatalogueInd
<1>1. /\ job[j].pc = "append" /\ job[j] \in JobCall /\ job[j].offer \in Offers
      /\ job' = [job EXCEPT ![j] = Idle]
      /\ history' \subseteq history \cup (IF job[j].product \in Existing THEN {<<job[j].offer, job[j].product>>} ELSE {})
      /\ UNCHANGED <<products, listing, watch, cart, log, founded, watched, run, scrapes, runs>>
  BY JobsHold DEF AppendPoint, JobCall
<1>2. job' \in [Jobs -> JobCall \cup {Idle}] /\ JobsFit' /\ Creating' = Creating \ {j}
  BY <1>1, JobMoves DEF Idle
<1>3. Existing' = Existing /\ Existing \subseteq Products
  BY <1>1 DEF Existing
<1>4. history' \subseteq Offers \X Products /\ \A h \in history' : h[2] \in Existing
  BY <1>1, <1>3 DEF CatalogueType, References
<1>5. CatalogueType'
  BY <1>1, <1>2, <1>3, <1>4 DEF CatalogueType, References
<1>6. IdsFit'
  BY <1>1, <1>2, IdsKept
<1>7. LogFits' /\ RunsFit'
  BY <1>1 DEF LogFits, RunsFit
<1> QED BY <1>2, <1>5, <1>6, <1>7

----
(* The reconciliation and the cleanup *)

\* A step of a run that leaves the stored rows alone.
LEMMA RunMoves ==
    ASSUME CatalogueInd, UNCHANGED <<shared, job, scrapes>>,
           NEW r \in Runs, NEW next \in RunRow, run' = [run EXCEPT ![r] = next],
           next.pc \in {"move", "commit"} => next.keep # next.merge
    PROVE  CatalogueInd'
<1> USE DEF CatalogueInd
<1>1. run' \in [Runs -> RunRow]
  BY DEF CatalogueType, RunRow
<1>2. CatalogueType'
  BY <1>1 DEF CatalogueType, References, Existing, shared, RunRow
<1>3. IdsFit' /\ JobsFit' /\ LogFits'
  BY DEF shared, IdsFit, JobsFit, LogFits, Creating
<1>4. RunsFit'
  BY DEF CatalogueType, RunsFit
<1> QED BY <1>2, <1>3, <1>4

\* What a run holds at each point.
LEMMA RunsHold ==
    ASSUME CatalogueType, NEW r \in Runs
    PROVE  /\ run[r] \in RunRow
           /\ run[r].pc = "review" => run[r] \in ReviewRun
           /\ run[r].pc = "pick" => run[r] \in PickRun
           /\ run[r].pc \in {"move", "commit"} => run[r] \in MergeRun
<1>1. run[r] \in RunRow
  BY DEF CatalogueType, RunRow
<1> QED BY <1>1 DEF RunRow, ReviewRun, PickRun, MergeRun, Idle

LEMMA BeginKeeps ==
    ASSUME CatalogueInd, NEW r \in Runs, BeginReconcile(r) \/ BeginCleanup(r) \/ LoadProducts(r)
    PROVE  CatalogueInd'
<1> USE DEF CatalogueInd
<1>1. CASE BeginReconcile(r)
  <2>1. PICK pending \in SUBSET DOMAIN log :
          /\ pending = {} \/ pending = {i \in DOMAIN log : log[i].state = "rules"}
          /\ run' = [run EXCEPT ![r] = [pc |-> "review", kind |-> "reconcile", pending |-> pending]]
    BY <1>1 DEF BeginReconcile
  <2>2. pending \subseteq DOMAIN Legacy
    BY <2>1 DEF LogFits
  <2> DEFINE next == [pc |-> "review", kind |-> "reconcile", pending |-> pending]
  <2>3. next \in RunRow /\ next.pc = "review"
    BY <2>2 DEF RunRow, ReviewRun
  <2> QED BY <1>1, <2>1, <2>3, RunMoves DEF BeginReconcile
<1>2. CASE BeginCleanup(r)
  <2> DEFINE next == [pc |-> "pick", kind |-> "cleanup", rows |-> products, consumed |-> {}]
  <2>1. next \in RunRow /\ next.pc = "pick"
    BY DEF RunRow, PickRun, CatalogueType
  <2> QED BY <1>2, <2>1, RunMoves DEF BeginCleanup
<1>3. CASE LoadProducts(r)
  <2> DEFINE next == [pc |-> "pick", kind |-> "reconcile", rows |-> products, consumed |-> {}]
  <2>1. next \in RunRow /\ next.pc = "pick"
    BY DEF RunRow, PickRun, CatalogueType
  <2> QED BY <1>3, <2>1, RunMoves DEF LoadProducts
<1> QED BY <1>1, <1>2, <1>3

LEMMA PairKeeps ==
    ASSUME CatalogueInd, NEW r \in Runs, run[r].pc = "pick", UNCHANGED <<shared, job, scrapes>>,
           NEW keep \in Products, NEW merge \in Products, keep # merge,
           NEW keepRow \in Rows, NEW mergeRow \in Rows,
           MergePair(r, keep, merge, keepRow, mergeRow)
    PROVE  CatalogueInd'
<1> USE DEF CatalogueInd
<1>1. run[r] \in PickRun
  BY RunsHold
<1> DEFINE next == [pc |-> "move", kind |-> run[r].kind, rows |-> run[r].rows, consumed |-> run[r].consumed,
                    keep |-> keep, merge |-> merge, keepRow |-> keepRow, mergeRow |-> mergeRow,
                    ids |-> {o \in Offers : listing[o].product = merge},
                    moved |-> {}, points |-> {}, items |-> {}, dropped |-> {}]
<1>2. next \in MergeRun /\ next.keep # next.merge
  BY <1>1 DEF MergeRun, PickRun
<1>3. next \in RunRow
  BY <1>2 DEF RunRow
<1>4. run' = [run EXCEPT ![r] = next]
  BY DEF MergePair
<1> HIDE DEF next
<1> QED BY <1>2, <1>3, <1>4, RunMoves

LEMMA PickKeeps ==
    ASSUME CatalogueInd, NEW r \in Runs, PickPair(r) \/ CleanPair(r)
    PROVE  CatalogueInd'
<1> USE DEF CatalogueInd
<1>1. CASE PickPair(r)
  <2>1. PICK a, b \in Products : /\ a < b /\ run[r].rows[a] # Nothing /\ run[r].rows[b] # Nothing
                                 /\ MergePair(r, a, b, run[r].rows[a], run[r].rows[b])
    BY <1>1 DEF PickPair
  <2>2. run[r].pc = "pick" /\ UNCHANGED <<shared, job, scrapes, runs>>
    BY <1>1 DEF PickPair
  <2>3. run[r].rows[a] \in Rows /\ run[r].rows[b] \in Rows
    BY <2>1, <2>2, RunsHold DEF PickRun, Loaded
  <2>4. a # b
    BY <2>1, CatalogueAssumption
  <2> QED BY <2>1, <2>2, <2>3, <2>4, PairKeeps
<1>2. CASE CleanPair(r)
  <2>1. PICK keep, merge \in Existing : keep # merge /\ MergePair(r, keep, merge, products[keep], products[merge])
    BY <1>2 DEF CleanPair
  <2>2. run[r].pc = "pick" /\ UNCHANGED <<shared, job, scrapes, runs>>
    BY <1>2 DEF CleanPair
  <2>3. /\ keep \in Products /\ merge \in Products
        /\ products[keep] \in Rows /\ products[merge] \in Rows
    BY DEF CatalogueType, Loaded, Existing
  <2> QED BY <2>1, <2>2, <2>3, PairKeeps
<1> QED BY <1>1, <1>2

LEMMA MoveKeeps ==
    ASSUME CatalogueInd, NEW r \in Runs, MergeMove(r)
    PROVE  CatalogueInd'
<1> USE DEF CatalogueInd
<1>1. /\ run[r].pc = "move" /\ run[r] \in MergeRun
      /\ UNCHANGED <<shared, job, scrapes, runs>>
  BY RunsHold DEF MergeMove
<1>2. PICK moved \in SUBSET Offers, points \in SUBSET (Offers \X Products),
           items \in SUBSET (Users \X Products \X Products), dropped \in SUBSET (Users \X Products \X Products) :
         run' = [run EXCEPT ![r].pc = "commit", ![r].moved = moved, ![r].points = points,
                            ![r].items = items, ![r].dropped = dropped]
  <2>1. /\ {o \in Offers : listing[o].product = run[r].merge} \in SUBSET Offers
        /\ {h \in history : h[2] = run[r].merge} \in SUBSET (Offers \X Products)
        /\ {w \in watch : w[3] = run[r].merge} \ Superfluous(run[r].keep, run[r].merge) \in SUBSET (Users \X Products \X Products)
        /\ Superfluous(run[r].keep, run[r].merge) \in SUBSET (Users \X Products \X Products)
    BY DEF CatalogueType, Superfluous
  <2> QED BY <2>1 DEF MergeMove
<1>3. PICK next : next = [run[r] EXCEPT !.pc = "commit", !.moved = moved, !.points = points,
                                        !.items = items, !.dropped = dropped]
  OBVIOUS
<1>4. next \in MergeRun /\ next.keep = run[r].keep /\ next.merge = run[r].merge
  BY <1>1, <1>3 DEF MergeRun
<1>5. run' = [run EXCEPT ![r] = next]
  BY <1>2, <1>3
<1>6. next \in RunRow /\ next.keep # next.merge
  BY <1>1, <1>4 DEF RunRow, RunsFit
<1> QED BY <1>1, <1>5, <1>6, RunMoves

LEMMA EndKeeps ==
    ASSUME CatalogueInd, NEW r \in Runs, MergeAbort(r) \/ EndRun(r)
    PROVE  CatalogueInd'
<1>1. Idle \in RunRow /\ Idle.pc = "idle"
  BY DEF RunRow, Idle
<1> QED BY <1>1, RunMoves DEF MergeAbort, EndRun

\* An entry of the log is settled.
LEMMA LogMoves ==
    ASSUME CatalogueInd, NEW i \in DOMAIN Legacy, NEW state \in {"approved", "undone"},
           log' = [log EXCEPT ![i].state = state]
    PROVE  log' \in Seq(Merge) /\ LogFits' /\ i \in DOMAIN log
<1> USE DEF CatalogueInd
<1>1. /\ log \in Seq(Merge) /\ Len(log) \in Nat /\ DOMAIN log = 1..Len(log) /\ log \in [1..Len(log) -> Merge]
  BY LenProperties, SeqDef, ElementOfSeq DEF CatalogueType
<1>2. /\ Legacy \in Seq(Merge) /\ Len(Legacy) \in Nat /\ DOMAIN Legacy = 1..Len(Legacy)
  BY LenProperties, CatalogueAssumption
<1>3. i \in DOMAIN log /\ DOMAIN Legacy \subseteq DOMAIN log
  BY <1>1, <1>2 DEF LogFits
<1>4. PICK entry \in Merge : /\ entry = [log[i] EXCEPT !.state = state]
                             /\ entry.merged = log[i].merged /\ entry.state = state
  <2>1. log[i] \in Merge
    BY <1>1, <1>3
  <2>2. PICK entry : entry = [log[i] EXCEPT !.state = state]
    OBVIOUS
  <2>3. entry \in Merge /\ entry.merged = log[i].merged /\ entry.state = state
    BY <2>1, <2>2 DEF Merge
  <2> QED BY <2>2, <2>3
<1>5. /\ log' = [log EXCEPT ![i] = entry]
      /\ log' \in [1..Len(log) -> Merge]
  BY <1>1, <1>3, <1>4
<1>6. log' \in Seq(Merge) /\ Len(log') = Len(log) /\ DOMAIN log' = DOMAIN log
  BY <1>1, <1>5, SeqDef, LenProperties
<1>7. LogFits'
  BY <1>1, <1>3, <1>4, <1>5, <1>6 DEF LogFits
<1> QED BY <1>3, <1>6, <1>7

LEMMA PendingEntry ==
    ASSUME CatalogueType, NEW r \in Runs, run[r].pc = "review", run[r].pending # {}
    PROVE  Min(run[r].pending) \in run[r].pending /\ Min(run[r].pending) \in DOMAIN Legacy
<1>1. run[r] \in ReviewRun
  BY RunsHold
<1>2. run[r].pending \subseteq DOMAIN Legacy /\ DOMAIN Legacy \subseteq Nat
  BY <1>1, LenProperties, CatalogueAssumption DEF ReviewRun
<1> QED BY <1>2, LeastOf

LEMMA ApproveKeeps ==
    ASSUME CatalogueInd, NEW r \in Runs, ReviewApproves(r)
    PROVE  CatalogueInd'
<1> USE DEF CatalogueInd
<1>1. /\ run[r].pc = "review" /\ run[r].pending # {} /\ run[r] \in ReviewRun
      /\ UNCHANGED <<products, listing, history, watch, cart, founded, watched, job, scrapes, runs>>
  BY RunsHold DEF ReviewApproves
<1>2. PICK i \in DOMAIN Legacy : i = Min(run[r].pending)
  BY <1>1, PendingEntry
<1>3. PICK pending \in SUBSET DOMAIN Legacy :
         /\ run' = [run EXCEPT ![r].pending = pending]
         /\ log' = log \/ log' = [log EXCEPT ![i].state = "approved"]
  <2>1. run[r].pending \ {i} \in SUBSET DOMAIN Legacy /\ {} \in SUBSET DOMAIN Legacy
    BY <1>1 DEF ReviewRun
  <2>2. \/ log' = [log EXCEPT ![i].state = "approved"] /\ run' = [run EXCEPT ![r].pending = run[r].pending \ {i}]
        \/ log' = log /\ run' = [run EXCEPT ![r].pending = {}]
    BY <1>2 DEF ReviewApproves, CatalogueType
  <2> QED BY <2>1, <2>2
<1>4. run' \in [Runs -> RunRow] /\ RunsFit'
  <2>1. PICK next : next = [run[r] EXCEPT !.pending = pending]
    OBVIOUS
  <2>2. next \in ReviewRun
    BY <1>1, <2>1 DEF ReviewRun
  <2>3. run' = [run EXCEPT ![r] = next]
    BY <1>3, <2>1
  <2>4. next \in RunRow /\ next.pc = "review"
    BY <2>2 DEF ReviewRun, RunRow
  <2> QED BY <2>3, <2>4 DEF CatalogueType, RunsFit, RunRow
<1>5. log' \in Seq(Merge) /\ LogFits'
  BY <1>3, LogMoves DEF CatalogueType, LogFits
<1>6. CatalogueType'
  BY <1>1, <1>4, <1>5 DEF CatalogueType, References, Existing, RunRow
<1>7. IdsFit' /\ JobsFit'
  BY <1>1 DEF IdsFit, JobsFit, Creating
<1> QED BY <1>4, <1>5, <1>6, <1>7

\* The row of an undone merge is back, and what points at it is what the merge
\* had moved.
LEMMA UndoRestores ==
    ASSUME CatalogueInd, NEW i \in DOMAIN Legacy, Undo(i), UNCHANGED <<cart, founded>>
    PROVE  /\ products' \in Loaded
           /\ Existing' = Existing \cup {log[i].merged}
           /\ \A p \in Products \ {log[i].merged} : products'[p] = products[p]
           /\ listing' \in [Offers -> ListingRow]
           /\ history' \subseteq Offers \X Products
           /\ watch' \subseteq Users \X Products \X Products
           /\ References'
<1> USE DEF CatalogueInd
<1>1. /\ Len(log) \in Nat /\ DOMAIN log = 1..Len(log) /\ log \in [1..Len(log) -> Merge]
      /\ Len(Legacy) \in Nat /\ DOMAIN Legacy = 1..Len(Legacy)
  BY LenProperties, ElementOfSeq, SeqDef, CatalogueAssumption DEF CatalogueType
<1>2. PICK m \in Merge : m = log[i]
  BY <1>1 DEF LogFits
<1>3. /\ m.merged \in Products /\ m.row \in Rows /\ m.listings \subseteq Offers
      /\ m.items \subseteq Users \X Products /\ m.dropped \subseteq Users
  BY DEF Merge
<1>4. PICK g : g = IF GtinTaken(m.row.gtin) THEN Nothing ELSE m.row.gtin
  OBVIOUS
<1>5. PICK row : row = [m.row EXCEPT !.gtin = g]
  OBVIOUS
<1>6. row \in Rows
  <2>1. g \in {Nothing, m.row.gtin}
    BY <1>4
  <2> QED BY <1>3, <1>5, <2>1 DEF Rows
<1>7. products' = [products EXCEPT ![m.merged] = row]
  BY <1>2, <1>4, <1>5 DEF Undo
<1>8. /\ products' \in Loaded
      /\ Existing' = Existing \cup {m.merged}
      /\ \A p \in Products \ {m.merged} : products'[p] = products[p]
  BY <1>3, <1>6, <1>7, CatalogueAssumption DEF CatalogueType, Loaded, Existing
<1>9. listing' \in [Offers -> ListingRow] /\ \A o \in Offers : listing'[o].product \in Existing' \cup {Nothing}
  <2>1. listing \in [Offers -> ListingRow] /\ \A o \in Offers : listing[o].product \in Existing \cup {Nothing}
    BY DEF CatalogueType, References, ListingRow
  <2>2. listing' = [o \in Offers |-> IF o \in m.listings /\ listing[o].status # "ABSENT"
                                     THEN [listing[o] EXCEPT !.product = m.merged] ELSE listing[o]]
    BY <1>2 DEF Undo
  <2>3. ASSUME NEW o \in Offers
        PROVE  listing'[o] \in ListingRow /\ listing'[o].product \in Existing' \cup {Nothing}
    <3>1. CASE listing'[o] = listing[o]
      BY <1>8, <2>1, <3>1
    <3>2. CASE listing'[o] = [listing[o] EXCEPT !.product = m.merged]
      BY <1>3, <1>8, <2>1, <3>2 DEF ListingRow
    <3> QED BY <2>2, <3>1, <3>2
  <2> QED BY <2>2, <2>3
<1>10. history' \subseteq Offers \X Products /\ \A h \in history' : h[2] \in Existing'
  <2>1. history' = {<<h[1], IF h[1] \in m.listings THEN m.merged ELSE h[2]>> : h \in history}
    BY <1>2 DEF Undo
  <2>2. history \subseteq Offers \X Products /\ \A h \in history : h[2] \in Existing
    BY DEF CatalogueType, References
  <2> QED BY <1>3, <1>8, <2>1, <2>2
<1>11. watch' \subseteq Users \X Products \X Products /\ \A w \in watch' : w[3] \in Existing'
  <2>1. PICK back : back = {w \in watch : <<w[1], w[2]>> \in m.items}
    OBVIOUS
  <2>2. watch' = (watch \ back) \cup {<<w[1], w[2], m.merged>> : w \in back} \cup {<<u, m.merged, m.merged>> : u \in m.dropped}
    BY <1>2, <2>1 DEF Undo
  <2>3. watch \subseteq Users \X Products \X Products /\ \A w \in watch : w[3] \in Existing
    BY DEF CatalogueType, References
  <2>4. ASSUME NEW w \in back
        PROVE  <<w[1], w[2], m.merged>> \in Users \X Products \X Products
    BY <1>3, <2>1, <2>3
  <2> QED BY <1>3, <1>8, <2>1, <2>2, <2>3, <2>4
<1> QED BY <1>2, <1>8, <1>9, <1>10, <1>11 DEF References

LEMMA UndoKeeps ==
    ASSUME CatalogueInd, NEW r \in Runs, ReviewUndoes(r)
    PROVE  CatalogueInd'
<1> USE DEF CatalogueInd
<1>1. /\ run[r].pc = "review" /\ run[r].pending # {} /\ run[r] \in ReviewRun
      /\ UNCHANGED <<cart, founded, watched, job, scrapes, runs>>
  BY RunsHold DEF ReviewUndoes
<1>2. PICK i \in DOMAIN Legacy : i = Min(run[r].pending)
  BY <1>1, PendingEntry
<1>3. CASE log[i].merged \in Existing
  <2>1. run' = [run EXCEPT ![r] = Idle] /\ UNCHANGED <<products, listing, history, watch, log>>
    BY <1>2, <1>3 DEF ReviewUndoes
  <2>2. Idle \in RunRow /\ Idle.pc = "idle"
    BY DEF RunRow, Idle
  <2> QED BY <1>1, <2>1, <2>2, RunMoves DEF shared
<1>4. CASE log[i].merged \notin Existing
  <2>1. Undo(i) /\ run' = [run EXCEPT ![r].pending = @ \ {i}]
    BY <1>2, <1>4 DEF ReviewUndoes
  <2>2. run' \in [Runs -> RunRow] /\ RunsFit'
    <3>1. PICK next : next = [run[r] EXCEPT !.pending = run[r].pending \ {i}]
      OBVIOUS
    <3>2. next \in ReviewRun
      BY <1>1, <3>1 DEF ReviewRun
    <3>3. run' = [run EXCEPT ![r] = next]
      BY <2>1, <3>1 DEF CatalogueType
    <3>4. next \in RunRow /\ next.pc = "review"
      BY <3>2 DEF ReviewRun, RunRow
    <3> QED BY <3>3, <3>4 DEF CatalogueType, RunsFit, RunRow
  <2>3. log' \in Seq(Merge) /\ LogFits'
    <3>1. log' = [log EXCEPT ![i].state = "undone"]
      BY <2>1 DEF Undo
    <3> QED BY <3>1, LogMoves
  <2>4. CatalogueType'
    BY <1>1, <2>1, <2>2, <2>3, UndoRestores DEF CatalogueType, RunRow, ListingRow
  <2>5. IdsFit' /\ JobsFit'
    BY <1>1 DEF IdsFit, JobsFit, Creating
  <2> QED BY <2>2, <2>3, <2>4, <2>5
<1> QED BY <1>3, <1>4

\* The row of the keeper after the merge, if it is still there.
LEMMA KeeperRow ==
    ASSUME CatalogueType, NEW r \in Runs, run[r] \in MergeRun, products[run[r].keep] # Nothing
    PROVE  /\ Backfilled(r) \in Rows
           /\ Backfilled(r).title = products[run[r].keep].title
           /\ \/ Backfilled(r) = products[run[r].keep]
              \/ /\ run[r].keepRow.gtin = Nothing /\ run[r].mergeRow.gtin # Nothing
                 /\ Backfilled(r).gtin = run[r].mergeRow.gtin
<1>1. /\ run[r].keep \in Products /\ run[r].mergeRow \in Rows /\ products[run[r].keep] \in Rows
  BY DEF MergeRun, CatalogueType, Loaded
<1>2. CASE Backfilled(r) = products[run[r].keep]
  BY <1>1, <1>2
<1>3. CASE /\ run[r].keepRow.gtin = Nothing /\ run[r].mergeRow.gtin # Nothing
           /\ Backfilled(r) = [products[run[r].keep] EXCEPT !.gtin = run[r].mergeRow.gtin]
  BY <1>1, <1>3 DEF Rows
<1> QED BY <1>2, <1>3 DEF Backfilled

\* What a committed merge leaves: the loser is gone, the keeper may have been
\* given its identifier, and what pointed at the loser points at the keeper.
LEMMA CommitMoves ==
    ASSUME CatalogueInd, NEW r \in Runs, MergeCommit(r)
    PROVE  /\ run[r] \in MergeRun /\ run[r].keep # run[r].merge
           /\ products' \in Loaded
           /\ Existing' = Existing \ {run[r].merge}
           /\ \A p \in Products \ {run[r].keep, run[r].merge} : products'[p] = products[p]
           /\ run[r].keep \in Existing => products'[run[r].keep] = Backfilled(r)
           /\ listing' \in [Offers -> ListingRow]
           /\ history' \subseteq Offers \X Products
           /\ watch' \subseteq Users \X Products \X Products
           /\ References'
<1> USE DEF CatalogueInd
<1>1. /\ run[r].pc = "commit" /\ run[r] \in MergeRun /\ ~MergeFails(r)
      /\ run[r].keep # run[r].merge
  BY RunsHold DEF MergeCommit, RunsFit
<1>2. PICK k \in Products, m \in Products : k = run[r].keep /\ m = run[r].merge /\ k # m
  BY <1>1 DEF MergeRun
<1>3. /\ run[r].moved \subseteq Offers /\ run[r].points \subseteq Offers \X Products
      /\ run[r].items \subseteq Users \X Products \X Products
      /\ run[r].dropped \subseteq Users \X Products \X Products
  BY <1>1 DEF MergeRun
<1>4. /\ products[m] # Nothing
      /\ products[k] = Nothing => ~MovesAnything(r)
      /\ {h \in history : h[2] = m} = run[r].points
      /\ {w \in watch : w[3] = m} = run[r].items \cup run[r].dropped
  BY <1>1, <1>2 DEF MergeFails
<1>5. PICK row \in Rows \cup {Nothing} :
         /\ row = IF products[k] = Nothing THEN Nothing ELSE Backfilled(r)
         /\ row = Nothing <=> products[k] = Nothing
  BY <1>1, <1>2, KeeperRow, CatalogueAssumption
<1>6. products' = [products EXCEPT ![k] = row, ![m] = Nothing]
  BY <1>2, <1>5 DEF MergeCommit
<1>7. /\ products' \in Loaded
      /\ Existing' = Existing \ {m}
      /\ \A p \in Products \ {k, m} : products'[p] = products[p]
      /\ k \in Existing => products'[k] = Backfilled(r)
  BY <1>2, <1>5, <1>6 DEF CatalogueType, Loaded, Existing
<1>8. MovesAnything(r) => k \in Existing'
  BY <1>2, <1>4, <1>7 DEF Existing
<1>9. listing' \in [Offers -> ListingRow] /\ \A o \in Offers : listing'[o].product \in Existing' \cup {Nothing}
  <2>1. listing \in [Offers -> ListingRow] /\ \A o \in Offers : listing[o].product \in Existing \cup {Nothing}
    BY DEF CatalogueType, References, ListingRow
  <2>2. listing' = [o \in Offers |->
                      CASE o \in run[r].moved -> [listing[o] EXCEPT !.product = k]
                        [] o \notin run[r].moved /\ listing[o].product = m -> [listing[o] EXCEPT !.product = Nothing]
                        [] OTHER -> listing[o]]
    BY <1>2 DEF MergeCommit
  <2>3. ASSUME NEW o \in Offers
        PROVE  listing'[o] \in ListingRow /\ listing'[o].product \in Existing' \cup {Nothing}
    <3>1. CASE o \in run[r].moved
      <4>1. listing'[o] = [listing[o] EXCEPT !.product = k]
        BY <2>2, <3>1
      <4>2. MovesAnything(r)
        BY <3>1 DEF MovesAnything
      <4> QED BY <1>8, <2>1, <4>1, <4>2 DEF ListingRow
    <3>2. CASE o \notin run[r].moved /\ listing[o].product = m
      <4>1. listing'[o] = [listing[o] EXCEPT !.product = Nothing]
        BY <2>2, <3>2
      <4> QED BY <2>1, <4>1 DEF ListingRow
    <3>3. CASE o \notin run[r].moved /\ listing[o].product # m
      <4>1. listing'[o] = listing[o]
        BY <2>2, <3>3
      <4> QED BY <1>7, <2>1, <3>3, <4>1
    <3> QED BY <3>1, <3>2, <3>3
  <2> QED BY <2>2, <2>3
<1>10. history' \subseteq Offers \X Products /\ \A h \in history' : h[2] \in Existing'
  <2>1. history' = (history \ run[r].points) \cup {<<h[1], k>> : h \in run[r].points}
    BY <1>2 DEF MergeCommit
  <2>2. history \subseteq Offers \X Products /\ \A h \in history : h[2] \in Existing
    BY DEF CatalogueType, References
  <2>3. \A h \in history \ run[r].points : h[2] # m
    BY <1>4
  <2>4. run[r].points # {} => k \in Existing'
    BY <1>8 DEF MovesAnything
  <2> QED BY <1>3, <1>7, <2>1, <2>2, <2>3, <2>4
<1>11. watch' \subseteq Users \X Products \X Products /\ \A w \in watch' : w[3] \in Existing'
  <2>1. watch' = (watch \ (run[r].items \cup run[r].dropped)) \cup {<<w[1], w[2], k>> : w \in run[r].items}
    BY <1>2 DEF MergeCommit
  <2>2. watch \subseteq Users \X Products \X Products /\ \A w \in watch : w[3] \in Existing
    BY DEF CatalogueType, References
  <2>3. \A w \in watch \ (run[r].items \cup run[r].dropped) : w[3] # m
    BY <1>4
  <2>4. run[r].items # {} => k \in Existing'
    BY <1>8 DEF MovesAnything
  <2> QED BY <1>3, <1>7, <2>1, <2>2, <2>3, <2>4
<1> QED BY <1>1, <1>2, <1>7, <1>9, <1>10, <1>11 DEF References

LEMMA CommitKeeps ==
    ASSUME CatalogueInd, NEW r \in Runs, MergeCommit(r)
    PROVE  CatalogueInd'
<1> USE DEF CatalogueInd
<1>1. /\ run[r] \in MergeRun /\ run[r].merge \in Products
      /\ cart' = cart \ {run[r].merge}
      /\ UNCHANGED <<founded, watched, job, scrapes, runs>>
  BY CommitMoves DEF MergeCommit, MergeRun
<1>2. run' \in [Runs -> RunRow] /\ RunsFit'
  <2> DEFINE next == [pc |-> "pick", kind |-> run[r].kind, rows |-> run[r].rows,
                      consumed |-> run[r].consumed \cup {run[r].merge}]
  <2>1. next \in PickRun /\ next.pc = "pick"
    BY <1>1 DEF MergeRun, PickRun
  <2>2. run' = [run EXCEPT ![r] = next]
    BY DEF MergeCommit
  <2> HIDE DEF next
  <2>3. next \in RunRow
    BY <2>1 DEF RunRow
  <2> QED BY <2>1, <2>2, <2>3 DEF CatalogueType, RunsFit, RunRow
<1>3. log' \in Seq(Merge) /\ LogFits'
  <2> DEFINE entry == [kept |-> run[r].keep, merged |-> run[r].merge, row |-> run[r].mergeRow,
                       keptTitle |-> run[r].keepRow.title, listings |-> run[r].ids,
                       items |-> {<<w[1], w[2]>> : w \in run[r].items},
                       dropped |-> {w[1] : w \in run[r].dropped}, state |-> "final"]
  <2>1. entry \in Merge /\ entry.state = "final"
    <3>1. /\ run[r].keep \in Products /\ run[r].mergeRow \in Rows /\ run[r].keepRow \in Rows
          /\ run[r].ids \subseteq Offers
          /\ run[r].items \subseteq Users \X Products \X Products
          /\ run[r].dropped \subseteq Users \X Products \X Products
      BY <1>1 DEF MergeRun
    <3>2. {<<w[1], w[2]>> : w \in run[r].items} \subseteq Users \X Products
      BY <3>1
    <3>3. {w[1] : w \in run[r].dropped} \subseteq Users
      BY <3>1
    <3>4. run[r].keepRow.title \in {row.title : row \in Rows}
      BY <3>1
    <3> QED BY <1>1, <3>1, <3>2, <3>3, <3>4 DEF Merge
  <2>2. log' = Append(log, entry)
    BY DEF MergeCommit
  <2> HIDE DEF entry
  <2>3. /\ log \in Seq(Merge) /\ Len(log) \in Nat /\ DOMAIN log = 1..Len(log)
        /\ Len(Legacy) \in Nat /\ DOMAIN Legacy = 1..Len(Legacy)
    BY LenProperties, CatalogueAssumption DEF CatalogueType
  <2>4. /\ log' \in Seq(Merge) /\ Len(log') = Len(log) + 1
        /\ \A i \in 1..Len(log) : log'[i] = log[i]
        /\ log'[Len(log) + 1] = entry
        /\ DOMAIN log' = 1..(Len(log) + 1)
    BY <2>1, <2>2, <2>3, AppendProperties, LenProperties
  <2>5. LogFits'
    <3>1. Len(Legacy) <= Len(log')
      BY <2>3, <2>4 DEF LogFits
    <3>2. \A i \in DOMAIN Legacy : log'[i].merged = Legacy[i].merged
      BY <2>3, <2>4 DEF LogFits
    <3>3. \A i \in DOMAIN log' : log'[i].state = "rules" => i \in DOMAIN Legacy
      BY <2>1, <2>3, <2>4 DEF LogFits
    <3> QED BY <3>1, <3>2, <3>3 DEF LogFits
  <2> QED BY <2>4, <2>5
<1>4. CatalogueType'
  BY <1>1, <1>2, <1>3, CommitMoves DEF CatalogueType, RunRow, ListingRow
<1>5. IdsFit' /\ JobsFit'
  BY <1>1 DEF IdsFit, JobsFit, Creating
<1> QED BY <1>2, <1>3, <1>4, <1>5

LEMMA CleanKeeps ==
    ASSUME CatalogueInd, NEW r \in Runs, DeleteEmpty(r) \/ RepointHistory(r)
    PROVE  CatalogueInd'
<1> USE DEF CatalogueInd
<1>1. CASE DeleteEmpty(r)
  <2>1. PICK p \in Existing :
          /\ \A o \in Offers : listing[o].product # p
          /\ \A h \in history : h[2] # p
          /\ Watching(p) = {}
          /\ products' = [products EXCEPT ![p] = Nothing]
          /\ cart' = cart \ {p}
    BY <1>1 DEF DeleteEmpty
  <2>2. UNCHANGED <<listing, history, watch, log, founded, watched, job, run, scrapes, runs>>
    BY <1>1 DEF DeleteEmpty
  <2>3. products' \in Loaded /\ Existing' = Existing \ {p}
    BY <2>1 DEF CatalogueType, Loaded, Existing
  <2>4. \A w \in watch : w[3] # p
    BY <2>1 DEF Watching
  <2>5. CatalogueType'
    BY <2>1, <2>2, <2>3, <2>4 DEF CatalogueType, References
  <2>6. IdsFit' /\ JobsFit' /\ LogFits' /\ RunsFit'
    BY <2>2 DEF IdsFit, JobsFit, LogFits, RunsFit, Creating
  <2> QED BY <2>5, <2>6
<1>2. CASE RepointHistory(r)
  <2>1. history' = {<<h[1], IF listing[h[1]].product = Nothing THEN h[2] ELSE listing[h[1]].product>> : h \in history}
    BY <1>2 DEF RepointHistory
  <2>2. UNCHANGED <<products, listing, watch, cart, log, founded, watched, job, run, scrapes, runs>>
    BY <1>2 DEF RepointHistory
  <2>3. Existing' = Existing /\ Existing \subseteq Products
    BY <2>2 DEF Existing
  <2>4. /\ history \subseteq Offers \X Products /\ \A h \in history : h[2] \in Existing
        /\ \A o \in Offers : listing[o].product \in Existing \cup {Nothing}
    BY DEF CatalogueType, References
  <2>5. history' \subseteq Offers \X Products /\ \A h \in history' : h[2] \in Existing
    BY <2>1, <2>3, <2>4
  <2>6. CatalogueType'
    BY <2>2, <2>3, <2>5 DEF CatalogueType, References
  <2>7. IdsFit' /\ JobsFit' /\ LogFits' /\ RunsFit'
    BY <2>2 DEF IdsFit, JobsFit, LogFits, RunsFit, Creating
  <2> QED BY <2>6, <2>7
<1> QED BY <1>1, <1>2

LEMMA WatchKeeps ==
    ASSUME CatalogueInd, NEW u \in Users, NEW p \in Products, WatchProduct(u, p)
    PROVE  CatalogueInd'
<1> USE DEF CatalogueInd
<1>1. /\ p \in Existing /\ watch' = watch \cup {<<u, p, p>>}
      /\ UNCHANGED <<products, listing, history, cart, log, founded, job, run, scrapes, runs>>
  BY DEF WatchProduct
<1>2. Existing' = Existing
  BY <1>1 DEF Existing
<1>3. watch' \subseteq Users \X Products \X Products /\ \A w \in watch' : w[3] \in Existing
  BY <1>1 DEF CatalogueType, References
<1>4. CatalogueType'
  BY <1>1, <1>2, <1>3 DEF CatalogueType, References
<1>5. IdsFit' /\ JobsFit' /\ LogFits' /\ RunsFit'
  BY <1>1 DEF IdsFit, JobsFit, LogFits, RunsFit, Creating
<1> QED BY <1>4, <1>5

LEMMA HoldKeeps ==
    ASSUME CatalogueInd, NEW j \in Jobs, NEW o \in Offers, HoldOffer(j, o)
    PROVE  CatalogueInd'
<1> USE DEF CatalogueInd
<1>1. scrapes < MaxScrapes /\ scrapes' = scrapes + 1 /\ UNCHANGED <<shared, job, run, runs>>
  BY DEF HoldOffer
<1>2. CatalogueType' /\ JobsFit' /\ LogFits' /\ RunsFit'
  BY <1>1 DEF shared, CatalogueType, References, Existing, JobsFit, LogFits, RunsFit
<1>3. IdsFit'
  <2>1. IsFiniteSet(Creating) /\ Cardinality(Creating) \in Nat
    BY FS_Subset, FS_CardinalityType, CatalogueAssumption DEF Creating
  <2>2. IsFiniteSet(founded) /\ Cardinality(founded) \in Nat
    BY FS_Subset, FS_CardinalityType, CatalogueAssumption DEF CatalogueType
  <2>3. Creating' = Creating
    BY <1>1 DEF Creating
  <2> QED BY <1>1, <2>1, <2>2, <2>3, CatalogueAssumption DEF IdsFit, shared
<1> QED BY <1>2, <1>3

LEMMA CatalogueStep == CatalogueInd /\ [CatalogueNext]_catalogueVars => CatalogueInd'
<1> SUFFICES ASSUME CatalogueInd, [CatalogueNext]_catalogueVars PROVE CatalogueInd'
  OBVIOUS
<1>1. ASSUME NEW j \in Jobs, NEW o \in Offers, Match(j, o) \/ HoldOffer(j, o)
      PROVE  CatalogueInd'
  BY <1>1, MatchKeeps, HoldKeeps
<1>2. ASSUME NEW j \in Jobs, Create(j) \/ Upsert(j) \/ Reject(j) \/ AppendPoint(j)
      PROVE  CatalogueInd'
  BY <1>2, CreateKeeps, UpsertKeeps, RejectKeeps, AppendKeeps
<1>3. ASSUME NEW r \in Runs,
             \/ BeginReconcile(r) \/ ReviewApproves(r) \/ ReviewUndoes(r) \/ LoadProducts(r) \/ PickPair(r)
             \/ MergeMove(r) \/ MergeCommit(r) \/ MergeAbort(r) \/ EndRun(r)
             \/ BeginCleanup(r) \/ CleanPair(r) \/ DeleteEmpty(r) \/ RepointHistory(r)
      PROVE  CatalogueInd'
  BY <1>3, BeginKeeps, ApproveKeeps, UndoKeeps, PickKeeps, MoveKeeps, CommitKeeps, EndKeeps, CleanKeeps
<1>4. ASSUME NEW u \in Users, NEW p \in Products, WatchProduct(u, p)
      PROVE  CatalogueInd'
  BY <1>4, WatchKeeps
<1>5. CASE UNCHANGED catalogueVars
  BY <1>5 DEF catalogueVars, shared, CatalogueInd, CatalogueType, References, Existing, IdsFit, Creating,
              JobsFit, LogFits, RunsFit
<1> QED BY <1>1, <1>2, <1>3, <1>4, <1>5 DEF CatalogueNext

----
(* Founded once *)

\* A step that founds nothing and changes no founded product's row.
LEMMA FoundKept ==
    ASSUME FoundersFit, FoundedOnce, founded' = founded,
           \A p \in founded \cap Existing' : p \in Existing /\ products'[p] = products[p],
           \A j \in Creating' : j \in Creating /\ job'[j].offer = job[j].offer
    PROVE  FoundersFit' /\ FoundedOnce'
<1>1. FoundersFit'
  <2> SUFFICES ASSUME NEW j \in Creating', NEW p \in founded \cap Existing'
               PROVE  ToldApart(job'[j].offer, products'[p])
    BY DEF FoundersFit
  <2>1. ToldApart(job[j].offer, products[p])
    BY DEF FoundersFit
  <2> QED BY <2>1 DEF ToldApart
<1>2. FoundedOnce'
  BY DEF FoundedOnce
<1> QED BY <1>1, <1>2

\* An offer that founds a product is told apart from all that are founded.
LEMMA MatchFound ==
    ASSUME CatalogueInd, FoundersFit, FoundedOnce, NEW j \in Jobs, NEW o \in Offers, Match(j, o)
    PROVE  FoundersFit' /\ FoundedOnce'
<1>1. /\ UNCHANGED <<products, founded>> /\ Existing' = Existing
      /\ \A k \in Creating' \ {j} : k \in Creating /\ job'[k] = job[k]
  BY DEF Match, shared, Existing, Creating, CatalogueInd, CatalogueType
<1>2. ASSUME j \in Creating'
      PROVE  Nothing \in MatchOf(o) /\ job'[j].offer = o
  <2>1. PICK found \in MatchOf(o) \ {Held} :
          job' = [job EXCEPT ![j] = [pc |-> IF found = Nothing THEN "create" ELSE "upsert",
                                     offer |-> o, product |-> found, new |-> found = Nothing]]
    BY DEF Match
  <2>2. job'[j] = [pc |-> IF found = Nothing THEN "create" ELSE "upsert",
                   offer |-> o, product |-> found, new |-> found = Nothing]
    BY <2>1 DEF CatalogueInd, CatalogueType
  <2>3. job'[j].pc = "create"
    BY <1>2 DEF Creating
  <2> QED BY <2>1, <2>2, <2>3
<1>3. FoundersFit'
  <2> SUFFICES ASSUME NEW k \in Creating', NEW p \in founded \cap Existing
               PROVE  ToldApart(job'[k].offer, products'[p])
    BY <1>1 DEF FoundersFit
  <2>1. CASE k = j
    <3>1. Conflict(OfferRow[o], products[p]) \/ ~SaysSame(OfferRow[o], products[p])
      BY <1>2, <2>1, NothingMatches DEF CatalogueInd
    <3> QED BY <1>1, <1>2, <2>1, <3>1 DEF ToldApart
  <2>2. CASE k # j
    <3>1. ToldApart(job[k].offer, products[p])
      BY <1>1, <2>2 DEF FoundersFit
    <3> QED BY <1>1, <2>2, <3>1 DEF ToldApart
  <2> QED BY <2>1, <2>2
<1>4. FoundedOnce'
  BY <1>1 DEF FoundedOnce
<1> QED BY <1>3, <1>4

LEMMA CreateFound ==
    ASSUME OneFamily, CatalogueInd, FoundersFit, FoundedOnce, NEW j \in Jobs, Create(j)
    PROVE  FoundersFit' /\ FoundedOnce'
<1> USE DEF CatalogueInd
<1>1. PICK o \in Offers, id \in Products \ (founded \cup Taken) :
         o = job[j].offer /\ id = Min(Products \ (founded \cup Taken))
  <2>1. j \in Creating
    BY DEF Create, Creating
  <2>2. job[j].offer \in Offers
    BY <2>1, JobsHold DEF Creating, JobCall
  <2> QED BY <2>1, <2>2, AnIdIsLeft
<1>2. j \in Creating /\ job[j].pc = "create"
  BY DEF Create, Creating
<1>3. \A k \in Creating' : k \in Creating \ {j} /\ job'[k] = job[k]
  <2>1. PICK next : job' = [job EXCEPT ![j] = next] /\ next.pc # "create"
    <3>1. CASE GtinTaken(OfferRow[o].gtin)
      <4>1. job' = [job EXCEPT ![j] = Idle] /\ Idle.pc # "create"
        BY <1>1, <3>1 DEF Create, Idle
      <4> QED BY <4>1
    <3>2. CASE ~GtinTaken(OfferRow[o].gtin)
      <4>1. job' = [job EXCEPT ![j].pc = "upsert", ![j].product = id]
        BY <1>1, <3>2 DEF Create
      <4>2. PICK next : next = [job[j] EXCEPT !.pc = "upsert", !.product = id]
        OBVIOUS
      <4>3. next.pc = "upsert"
        BY <1>2, <4>2, JobsHold DEF JobCall
      <4>4. job' = [job EXCEPT ![j] = next]
        BY <4>1, <4>2
      <4> QED BY <4>3, <4>4
    <3> QED BY <3>1, <3>2
  <2> QED BY <2>1 DEF Creating, CatalogueType
<1>4. CASE GtinTaken(OfferRow[o].gtin)
  <2>1. UNCHANGED <<products, founded>>
    BY <1>1, <1>4 DEF Create
  <2> QED BY <1>3, <2>1, FoundKept DEF Existing
<1>5. CASE ~GtinTaken(OfferRow[o].gtin)
  <2>1. PICK row \in Rows : row = [title |-> OfferRow[o].title, gtin |-> OfferRow[o].gtin]
    BY OfferRows
  <2>2. products' = [products EXCEPT ![id] = row] /\ founded' = founded \cup {id}
    BY <1>1, <1>5, <2>1 DEF Create
  <2>3. /\ Existing' = Existing \cup {id} /\ products'[id] = row /\ id \notin founded
        /\ \A p \in Products \ {id} : products'[p] = products[p]
    BY <1>1, <2>2, CatalogueAssumption DEF Existing, CatalogueType, Loaded
  <2>4. \A p \in founded \cap Existing : Conflict(row, products[p]) \/ ~SaysSame(row, products[p])
    <3> SUFFICES ASSUME NEW p \in founded \cap Existing
                 PROVE  Conflict(row, products[p]) \/ ~SaysSame(row, products[p])
      OBVIOUS
    <3>1. ToldApart(o, products[p])
      BY <1>1, <1>2 DEF FoundersFit
    <3>2. ~(OfferRow[o].gtin # Nothing /\ OfferRow[o].gtin = products[p].gtin)
      BY <1>5 DEF GtinTaken
    <3>3. Conflict(OfferRow[o], products[p]) \/ ~SaysSame(OfferRow[o], products[p])
      BY <3>1, <3>2 DEF ToldApart
    <3> QED BY <2>1, <3>3 DEF Conflict, SaysSame
  <2>5. FoundedOnce'
    <3> SUFFICES ASSUME NEW p \in founded' \cap Existing', NEW q \in founded' \cap Existing', p # q
                 PROVE  Conflict(products'[p], products'[q]) \/ ~SaysSame(products'[p], products'[q])
      BY DEF FoundedOnce, Conflict, SaysSame
    <3>1. p \in Products /\ q \in Products
      BY DEF Existing
    <3>2. CASE p # id /\ q # id
      <4>1. p \in founded \cap Existing /\ q \in founded \cap Existing
        BY <2>2, <2>3, <3>2
      <4> QED BY <2>3, <3>1, <3>2, <4>1 DEF FoundedOnce
    <3>3. CASE p = id
      <4>1. q \in founded \cap Existing /\ products'[q] = products[q]
        BY <2>2, <2>3, <3>1, <3>3
      <4> QED BY <2>3, <2>4, <3>3, <4>1
    <3>4. CASE q = id
      <4>1. p \in founded \cap Existing /\ products'[p] = products[p]
        BY <2>2, <2>3, <3>1, <3>4
      <4>2. Conflict(row, products[p]) \/ ~SaysSame(row, products[p])
        BY <2>4, <4>1
      <4>3. {row.title, products[p].title} = {products[p].title, row.title}
        OBVIOUS
      <4> QED BY <2>3, <3>4, <4>1, <4>2, <4>3 DEF Conflict, SaysSame
    <3> QED BY <3>2, <3>3, <3>4
  <2>6. FoundersFit'
    <3> SUFFICES ASSUME NEW k \in Creating', NEW p \in founded' \cap Existing'
                 PROVE  ToldApart(job'[k].offer, products'[p])
      BY DEF FoundersFit
    <3>1. k \in Creating \ {j} /\ job'[k] = job[k]
      BY <1>3
    <3>2. CASE p # id
      <4>1. p \in founded \cap Existing /\ products'[p] = products[p]
        BY <2>2, <2>3, <3>2 DEF Existing
      <4>2. ToldApart(job[k].offer, products[p])
        BY <3>1, <4>1 DEF FoundersFit
      <4> QED BY <3>1, <4>1, <4>2 DEF ToldApart
    <3>3. CASE p = id
      <4>1. job[k].offer \in Offers /\ job[k].pc # "idle"
        BY <3>1, JobsHold DEF Creating, JobCall
      <4>2. OfferRow[job[k].offer].family # OfferRow[o].family
        BY <1>1, <1>2, <3>1, <4>1 DEF JobsFit, Creating
      <4>3. ~SaysSame(OfferRow[job[k].offer], OfferRow[o])
        BY <4>1, <4>2 DEF OneFamily
      <4>4. ~SaysSame(OfferRow[job[k].offer], row)
        BY <2>1, <4>3 DEF SaysSame
      <4> QED BY <2>3, <3>1, <3>3, <4>4 DEF ToldApart
    <3> QED BY <3>2, <3>3
  <2> QED BY <2>5, <2>6
<1> QED BY <1>4, <1>5

\* A merge gives a founded product another identifier: those told apart from it
\* still are, or its new identifier keeps them from founding.
LEMMA CommitFound ==
    ASSUME CatalogueInd, FoundersFit, FoundedOnce, NEW r \in Runs, MergeCommit(r)
    PROVE  FoundersFit' /\ FoundedOnce'
<1> USE DEF CatalogueInd
<1>1. PICK k \in Products, m \in Products : k = run[r].keep /\ m = run[r].merge
  BY CommitMoves DEF MergeRun
<1>2. /\ run[r] \in MergeRun /\ k # m
      /\ Existing' = Existing \ {m}
      /\ \A p \in Products \ {k, m} : products'[p] = products[p]
      /\ k \in Existing => products'[k] = Backfilled(r)
      /\ founded' = founded /\ job' = job /\ ~MergeFails(r)
  BY <1>1, CommitMoves DEF MergeCommit
<1>3. \A j \in Creating' : j \in Creating
  BY <1>2 DEF Creating
<1>4. CASE k \in Existing => products'[k] = products[k]
  <2>1. \A p \in founded \cap Existing' : p \in Existing /\ products'[p] = products[p]
    BY <1>2, <1>4 DEF Existing
  <2> QED BY <1>2, <1>3, <2>1, FoundKept
<1>5. CASE k \in Existing /\ products'[k] # products[k]
  <2>1. PICK g : g = run[r].mergeRow.gtin
    OBVIOUS
  <2>2. /\ g # Nothing /\ products'[k].gtin = g /\ products'[k].title = products[k].title
        /\ \A p \in Existing \ {k, m} : products[p].gtin # g
    <3>1. products[k] # Nothing
      BY <1>5 DEF Existing
    <3>2. /\ products'[k] = Backfilled(r) /\ Backfilled(r).title = products[k].title
          /\ run[r].keepRow.gtin = Nothing /\ run[r].mergeRow.gtin # Nothing
          /\ Backfilled(r).gtin = run[r].mergeRow.gtin
      BY <1>1, <1>2, <1>5, <3>1, KeeperRow
    <3> QED BY <1>1, <1>2, <2>1, <3>2 DEF MergeFails
  <2>3. FoundedOnce'
    <3> SUFFICES ASSUME NEW p \in founded \cap Existing', NEW q \in founded \cap Existing', p # q
                 PROVE  Conflict(products'[p], products'[q]) \/ ~SaysSame(products'[p], products'[q])
      BY <1>2 DEF FoundedOnce, Conflict, SaysSame
    <3>1. /\ p \in Existing \ {m} /\ q \in Existing \ {m} /\ p \in Products /\ q \in Products
          /\ Conflict(products[p], products[q]) \/ ~SaysSame(products[p], products[q])
      BY <1>2 DEF FoundedOnce, Existing
    <3>2. CASE p # k /\ q # k
      BY <1>2, <3>1, <3>2
    <3>3. CASE p = k
      <4>1. products'[q] = products[q] /\ products[q].gtin # g
        BY <1>2, <2>2, <3>1, <3>3
      <4> QED BY <2>2, <3>1, <3>3, <4>1 DEF Conflict, SaysSame
    <3>4. CASE q = k
      <4>1. products'[p] = products[p] /\ products[p].gtin # g
        BY <1>2, <2>2, <3>1, <3>4
      <4> QED BY <2>2, <3>1, <3>4, <4>1 DEF Conflict, SaysSame
    <3> QED BY <3>2, <3>3, <3>4
  <2>4. FoundersFit'
    <3> SUFFICES ASSUME NEW j \in Creating', NEW p \in founded \cap Existing'
                 PROVE  ToldApart(job'[j].offer, products'[p])
      BY <1>2 DEF FoundersFit
    <3>1. ToldApart(job[j].offer, products[p]) /\ p \in Products \ {m} /\ job'[j] = job[j]
      BY <1>2, <1>3 DEF FoundersFit, Existing
    <3>2. CASE p # k
      BY <1>2, <3>1, <3>2 DEF ToldApart
    <3>3. CASE p = k
      BY <2>2, <3>1, <3>3 DEF ToldApart, Conflict, SaysSame
    <3> QED BY <3>2, <3>3
  <2> QED BY <2>3, <2>4
<1> QED BY <1>4, <1>5

\* What is undone or cleaned up: no row of a founded product but one that goes.
LEMMA RunFound ==
    ASSUME CatalogueInd, FoundersFit, FoundedOnce, NEW r \in Runs,
           \/ BeginReconcile(r) \/ ReviewApproves(r) \/ ReviewUndoes(r) \/ LoadProducts(r) \/ PickPair(r)
           \/ MergeMove(r) \/ MergeAbort(r) \/ EndRun(r)
           \/ BeginCleanup(r) \/ CleanPair(r) \/ DeleteEmpty(r) \/ RepointHistory(r)
    PROVE  FoundersFit' /\ FoundedOnce'
<1> USE DEF CatalogueInd
<1>1. job' = job /\ founded' = founded
  BY DEF BeginReconcile, ReviewApproves, ReviewUndoes, LoadProducts, PickPair, MergeMove, MergeAbort, EndRun,
         BeginCleanup, CleanPair, DeleteEmpty, RepointHistory, shared
<1>2. CASE products' = products
  BY <1>1, <1>2, FoundKept DEF Existing, Creating
<1>3. CASE DeleteEmpty(r)
  <2>1. PICK p \in Existing : products' = [products EXCEPT ![p] = Nothing]
    BY <1>3 DEF DeleteEmpty
  <2>2. \A q \in founded \cap Existing' : q \in Existing /\ products'[q] = products[q]
    BY <2>1 DEF Existing, CatalogueType, Loaded
  <2> QED BY <1>1, <2>2, FoundKept DEF Creating
<1>4. CASE ReviewUndoes(r) /\ products' # products
  <2>1. PICK i \in DOMAIN Legacy : i = Min(run[r].pending)
    BY <1>4, PendingEntry DEF ReviewUndoes
  <2>2. Undo(i) /\ UNCHANGED <<cart, founded>>
    BY <1>4, <2>1 DEF ReviewUndoes
  <2>3. log[i].merged \notin founded
    <3>1. log[i].merged = Legacy[i].merged
      BY DEF LogFits
    <3> QED BY <3>1, TakenIds DEF IdsFit
  <2>4. \A q \in founded \cap Existing' : q \in Existing /\ products'[q] = products[q]
    <3>1. /\ Existing' = Existing \cup {log[i].merged}
          /\ \A p \in Products \ {log[i].merged} : products'[p] = products[p]
      BY <2>2, UndoRestores
    <3> QED BY <2>3, <3>1 DEF Existing
  <2> QED BY <1>1, <2>4, FoundKept DEF Creating
<1>5. CASE ~DeleteEmpty(r) /\ ~ReviewUndoes(r)
  <2>1. products' = products
    BY <1>5 DEF BeginReconcile, ReviewApproves, LoadProducts, PickPair, MergeMove, MergeAbort, EndRun,
                BeginCleanup, CleanPair, RepointHistory, shared
  <2> QED BY <1>2, <2>1
<1> QED BY <1>2, <1>3, <1>4, <1>5

LEMMA FoundStep ==
    ASSUME OneFamily
    PROVE  CatalogueInd /\ FoundersFit /\ FoundedOnce /\ [CatalogueNext]_catalogueVars => FoundersFit' /\ FoundedOnce'
<1> SUFFICES ASSUME CatalogueInd, FoundersFit, FoundedOnce, [CatalogueNext]_catalogueVars
             PROVE  FoundersFit' /\ FoundedOnce'
  OBVIOUS
<1> USE DEF CatalogueInd
<1>1. ASSUME NEW j \in Jobs, NEW o \in Offers, Match(j, o) \/ HoldOffer(j, o)
      PROVE  FoundersFit' /\ FoundedOnce'
  <2>1. CASE HoldOffer(j, o)
    BY <2>1, FoundKept DEF HoldOffer, shared, Existing, Creating
  <2> QED BY <1>1, <2>1, MatchFound
<1>2. ASSUME NEW j \in Jobs, Create(j) \/ Upsert(j) \/ Reject(j) \/ AppendPoint(j)
      PROVE  FoundersFit' /\ FoundedOnce'
  <2>1. CASE Create(j)
    BY <2>1, CreateFound
  <2>2. CASE Upsert(j) \/ Reject(j) \/ AppendPoint(j)
    <3>1. UNCHANGED <<products, founded>> /\ job[j].pc # "create"
      BY <2>2 DEF Upsert, Reject, AppendPoint
    <3>2. PICK next : job' = [job EXCEPT ![j] = next] /\ next.pc # "create"
      <4>1. CASE job' = [job EXCEPT ![j] = Idle]
        <5>1. Idle.pc # "create"
          BY DEF Idle
        <5> QED BY <4>1, <5>1
      <4>2. CASE job' = [job EXCEPT ![j].pc = "append"]
        <5>1. [job[j] EXCEPT !.pc = "append"].pc = "append"
          <6>1. job[j] \in JobCall
            BY <2>2, JobsHold DEF Upsert, Reject, AppendPoint
          <6> QED BY <6>1 DEF JobCall
        <5> QED BY <4>2, <5>1
      <4> QED BY <2>2, <4>1, <4>2 DEF Upsert, Reject, AppendPoint
    <3>3. \A k \in Creating' : k \in Creating /\ job'[k].offer = job[k].offer
      BY <3>2 DEF Creating, CatalogueType
    <3> QED BY <3>1, <3>3, FoundKept DEF Existing
  <2> QED BY <1>2, <2>1, <2>2
<1>3. ASSUME NEW r \in Runs,
             \/ BeginReconcile(r) \/ ReviewApproves(r) \/ ReviewUndoes(r) \/ LoadProducts(r) \/ PickPair(r)
             \/ MergeMove(r) \/ MergeCommit(r) \/ MergeAbort(r) \/ EndRun(r)
             \/ BeginCleanup(r) \/ CleanPair(r) \/ DeleteEmpty(r) \/ RepointHistory(r)
      PROVE  FoundersFit' /\ FoundedOnce'
  BY <1>3, RunFound, CommitFound
<1>4. ASSUME NEW u \in Users, NEW p \in Products, WatchProduct(u, p)
      PROVE  FoundersFit' /\ FoundedOnce'
  BY <1>4, FoundKept DEF WatchProduct, Existing, Creating
<1>5. CASE UNCHANGED catalogueVars
  BY <1>5, FoundKept DEF catalogueVars, shared, Existing, Creating
<1> QED BY <1>1, <1>2, <1>3, <1>4, <1>5 DEF CatalogueNext

\* In every state of every instance: the rows, jobs, runs and merges have their
\* types, what points at a product points at one that is there, a family has one
\* job at a time and an id is left for every product about to be founded.
THEOREM CatalogueInvariant == CatalogueSpec => []CatalogueInd
BY StartCatalogue, CatalogueStep, PTL DEF CatalogueSpec

THEOREM CatalogueTypeCorrect == CatalogueSpec => []CatalogueType
<1>1. CatalogueInd => CatalogueType
  BY DEF CatalogueInd
<1> QED BY <1>1, CatalogueInvariant, PTL

\* No listing, price point or watchlist item refers to a product that is gone,
\* although merges, undone merges and the cleanup delete products whose rows
\* other steps have read before.
THEOREM ReferencesHold == CatalogueSpec => []References
<1>1. CatalogueType => References
  BY DEF CatalogueType
<1> QED BY <1>1, CatalogueTypeCorrect, PTL

\* Two jobs that scrape the same new product at once found it once, where the
\* offers the judge calls the same have one family: that is what the family lock
\* of ListingProcessor needs, whatever is merged, undone and deleted in between.
THEOREM ProductsAreFoundedOnce ==
    ASSUME OneFamily
    PROVE  CatalogueSpec => []FoundedOnce
<1>1. CatalogueInit => CatalogueInd /\ FoundersFit /\ FoundedOnce
  BY StartCatalogue
<1>2. CatalogueInd /\ FoundersFit /\ FoundedOnce /\ [CatalogueNext]_catalogueVars
      => (CatalogueInd /\ FoundersFit /\ FoundedOnce)'
  BY CatalogueStep, FoundStep
<1> QED BY <1>1, <1>2, PTL DEF CatalogueSpec

----
(* The price records *)

\* A row nobody else sees yet is the newest of its listing, and that of the
\* transaction that has the listing's lock; it spans one midnight at most.
OpenRowsFit ==
    \A l \in Listings : \A i \in DOMAIN priceHistory[l] \ Committed(l) :
        LET j == priceHistory[l][i].by IN
        /\ i = Len(priceHistory[l])
        /\ scrape[j].pc = "commit" /\ scrape[j].listing = l
        /\ priceHistory[l][i].day >= day - 1

OneHolder == \A l \in Listings : \A j, k \in Scrapers : Holds(j, l) /\ Holds(k, l) => j = k

\* What a scrape has read under the lock is the newest row, until it adds its own.
ScrapesFit ==
    \A j \in Scrapers :
        LET rows == priceHistory[scrape[j].listing] IN
        /\ scrape[j].pc = "insert" => scrape[j].last = IF rows = <<>> THEN Nobody ELSE rows[Len(rows)]
        /\ scrape[j].pc = "commit" => rows # <<>> /\ rows[Len(rows)].by = j

Differ(row, next) == row.price # next.price \/ row.stock # next.stock

RowsDiffer == \A l \in Listings : \A i \in 1..(Len(priceHistory[l]) - 1) : Differ(priceHistory[l][i], priceHistory[l][i + 1])

RowsPast == \A l \in Listings : \A i \in DOMAIN priceHistory[l] : priceHistory[l][i].day <= day

\* A rolled day had a row, and no rollup starts after the last day that is rolled.
DailyFits == \A k \in DOMAIN daily : OnDay(k[1], k[2]) # {}
RollupsFit ==
    \A r \in Rollups : rollup[r].pc = "write" =>
        rollup[r].from <= 0 \/ \E k \in DOMAIN daily : rollup[r].from <= k[2] - 1

Final(l, d) == (<<l, d>> \in DOMAIN daily <=> OnDay(l, d) # {}) /\ (<<l, d>> \in DOMAIN daily => daily[<<l, d>>] = DayOf(l, d))
FinalFits == \A k \in DOMAIN daily : \A l \in Listings, d \in Days : d <= k[2] - 2 => Final(l, d)

RowsFit == OpenRowsFit /\ OneHolder /\ ScrapesFit /\ RowsDiffer /\ RowsPast
DaysFit == DailyFits /\ RollupsFit /\ FinalFits

\* The inductive invariant of PriceRecords.
RecordsInd == RecordsType /\ RowsFit /\ DaysFit

ScrapeRecord == [pc : {"upsert", "lock", "read", "insert", "commit"}, listing : Listings, price : Prices,
                 stock : BOOLEAN, last : Row \cup {Nobody}]

\* A set of numbers with a bound has a greatest.
LEMMA GreatestOf ==
    ASSUME NEW S \in SUBSET Int, S # {}, NEW b \in Int, \A x \in S : x <= b
    PROVE  Max(S) \in S /\ \A x \in S : x <= Max(S)
<1> DEFINE D == {b - x : x \in S}
<1>1. D \subseteq Nat /\ D # {}
  <2>1. \A x \in S : b - x \in Nat
    OBVIOUS
  <2>2. PICK x \in S : TRUE
    OBVIOUS
  <2>3. b - x \in D
    BY <2>2
  <2> QED BY <2>1, <2>3
<1>2. PICK e \in D : \A f \in D : ~(<<f, e>> \in OpToRel(<, Nat))
  BY <1>1, NatLessThanWellFounded, WFMin, Zenon
<1>3. PICK x \in S : e = b - x
  OBVIOUS
<1>4. \A y \in S : b - y \in D /\ b - y \in Nat /\ e \in Nat
  BY <1>1
<1>5. \A y \in S : ~(b - y < e)
  BY <1>2, <1>4 DEF OpToRel
<1>6. \A y \in S : x >= y
  BY <1>3, <1>5
<1>7. Max(S) \in S /\ \A y \in S : Max(S) >= y
  BY <1>6 DEF Max
<1> QED BY <1>7

LEMMA LeastIn ==
    ASSUME NEW S \in SUBSET Nat, S # {}
    PROVE  Min(S) \in S /\ \A x \in S : Min(S) <= x
<1>1. PICK x \in S : \A y \in S : ~(<<y, x>> \in OpToRel(<, Nat))
  BY NatLessThanWellFounded, WFMin, Zenon
<1>2. \A y \in S : ~(y < x)
  BY <1>1 DEF OpToRel
<1>3. \A y \in S : x <= y
  BY <1>2
<1> QED BY <1>3 DEF Min

\* The tables as the steps use them.
LEMMA RecordTables ==
    ASSUME RecordsType
    PROVE  /\ day \in Nat /\ day \in Days /\ MaxDay \in Nat /\ scrapings \in Nat
           /\ \A l \in Listings : /\ priceHistory[l] \in Seq(Row) /\ Len(priceHistory[l]) \in Nat
                                  /\ DOMAIN priceHistory[l] = 1..Len(priceHistory[l])
                                  /\ \A i \in 1..Len(priceHistory[l]) :
                                        priceHistory[l][i] \in Row /\ priceHistory[l][i].day \in Nat
           /\ scrape \in [Scrapers -> {NoScrape} \cup ScrapeRecord]
           /\ \A j \in Scrapers : scrape[j].pc # "idle" => scrape[j] \in ScrapeRecord /\ scrape[j].listing \in Listings
           /\ NoScrape.pc = "idle"
           /\ \A k \in DOMAIN daily : k = <<k[1], k[2]>> /\ k[1] \in Listings /\ k[2] \in Days /\ k[2] \in Nat
           /\ \A r \in Rollups : rollup[r].pc = "write" => rollup[r].from \in Int
<1>1. day \in Nat /\ day \in Days /\ MaxDay \in Nat /\ scrapings \in Nat
  BY RecordsAssumption DEF RecordsType, Days
<1>2. ASSUME NEW l \in Listings
      PROVE  /\ priceHistory[l] \in Seq(Row) /\ Len(priceHistory[l]) \in Nat
             /\ DOMAIN priceHistory[l] = 1..Len(priceHistory[l])
             /\ \A i \in 1..Len(priceHistory[l]) : priceHistory[l][i] \in Row /\ priceHistory[l][i].day \in Nat
  <2>1. priceHistory[l] \in Seq(Row)
    BY DEF RecordsType
  <2>2. \A i \in 1..Len(priceHistory[l]) : priceHistory[l][i] \in Row
    BY <2>1, ElementOfSeq
  <2>3. \A x \in Row : x.day \in Nat
    BY RecordsAssumption DEF Row, Days
  <2> QED BY <2>1, <2>2, <2>3, LenProperties
<1>3. /\ scrape \in [Scrapers -> {NoScrape} \cup ScrapeRecord]
      /\ NoScrape.pc = "idle"
  BY DEF RecordsType, ScrapeRecord, NoScrape
<1>4. \A j \in Scrapers : scrape[j].pc # "idle" => scrape[j] \in ScrapeRecord /\ scrape[j].listing \in Listings
  BY <1>3 DEF ScrapeRecord
<1>5. \A k \in DOMAIN daily : k = <<k[1], k[2]>> /\ k[1] \in Listings /\ k[2] \in Days /\ k[2] \in Nat
  BY RecordsAssumption DEF RecordsType, Days
<1>6. \A r \in Rollups : rollup[r].pc = "write" => rollup[r].from \in Int
  BY RecordsAssumption DEF RecordsType
<1> QED BY <1>1, <1>2, <1>3, <1>4, <1>5, <1>6

\* Everything that is seen of a listing has a position in its table.
LEMMA SeenRows ==
    ASSUME RecordsType, NEW l \in Listings, NEW d
    PROVE  /\ Committed(l) \subseteq 1..Len(priceHistory[l]) /\ OnDay(l, d) \subseteq Committed(l)
           /\ OnDay(l, d) # {} => Max(OnDay(l, d)) \in OnDay(l, d)
<1>1. Committed(l) \subseteq 1..Len(priceHistory[l]) /\ OnDay(l, d) \subseteq Committed(l)
  BY RecordTables DEF Committed, OnDay
<1>2. OnDay(l, d) \in SUBSET Int /\ \A x \in OnDay(l, d) : x <= Len(priceHistory[l])
  BY <1>1, RecordTables
<1>3. Len(priceHistory[l]) \in Int
  BY RecordTables
<1>4. OnDay(l, d) # {} => Max(OnDay(l, d)) \in OnDay(l, d)
  BY <1>2, <1>3, GreatestOf
<1> QED BY <1>1, <1>4

\* A day is summed up the same as long as its rows say the same.
LEMMA SameDay ==
    ASSUME RecordsType, NEW l \in Listings, NEW d, OnDay(l, d) # {}, OnDay(l, d)' = OnDay(l, d),
           \A i \in OnDay(l, d) : /\ priceHistory'[l][i].price = priceHistory[l][i].price
                                  /\ priceHistory'[l][i].stock = priceHistory[l][i].stock
    PROVE  DayOf(l, d)' = DayOf(l, d)
<1>1. Max(OnDay(l, d)) \in OnDay(l, d)
  BY SeenRows
<1>2. {priceHistory'[l][i].price : i \in OnDay(l, d)} = {priceHistory[l][i].price : i \in OnDay(l, d)}
  OBVIOUS
<1> HIDE DEF OnDay
<1> QED BY <1>1, <1>2 DEF DayOf

\* Steps that leave the rolled days alone.
LEMMA RolledKept ==
    ASSUME RecordsType, DailyFits, RollupsFit, FinalFits, UNCHANGED <<daily, rollup>>,
           \A l \in Listings : \A d : OnDay(l, d) \subseteq OnDay(l, d)',
           \A l \in Listings, d \in Days, k \in DOMAIN daily :
               d <= k[2] - 2 => /\ OnDay(l, d)' = OnDay(l, d)
                                /\ OnDay(l, d) # {} => DayOf(l, d)' = DayOf(l, d)
    PROVE  DailyFits' /\ RollupsFit' /\ FinalFits'
<1>1. DailyFits'
  <2> SUFFICES ASSUME NEW k \in DOMAIN daily PROVE OnDay(k[1], k[2])' # {}
    BY DEF DailyFits
  <2>1. k[1] \in Listings /\ OnDay(k[1], k[2]) # {}
    BY RecordTables DEF DailyFits
  <2> QED BY <2>1
<1>2. RollupsFit'
  BY DEF RollupsFit
<1>3. FinalFits'
  <2> SUFFICES ASSUME NEW k \in DOMAIN daily, NEW l \in Listings, NEW d \in Days, d <= k[2] - 2
               PROVE  Final(l, d)'
    BY DEF FinalFits
  <2>1. Final(l, d)
    BY DEF FinalFits
  <2>2. OnDay(l, d)' = OnDay(l, d) /\ (OnDay(l, d) # {} => DayOf(l, d)' = DayOf(l, d))
    OBVIOUS
  <2> HIDE DEF OnDay, DayOf
  <2> QED BY <2>1, <2>2 DEF Final
<1> QED BY <1>1, <1>2, <1>3

LEMMA StartRecords == RecordsInit => RecordsInd
<1> SUFFICES ASSUME RecordsInit PROVE RecordsInd
  OBVIOUS
<1>1. \A l \in Listings : priceHistory[l] = <<>> /\ DOMAIN priceHistory[l] = {} /\ Len(priceHistory[l]) = 0
  BY DEF RecordsInit
<1>2. \A l \in Listings : \A d : OnDay(l, d) = {}
  BY <1>1 DEF OnDay, Committed
<1>3. DOMAIN daily = {}
  BY DEF RecordsInit
<1>4. RecordsType
  <2>1. day \in Days /\ scrapings \in 0..MaxScrapings
    BY RecordsAssumption DEF RecordsInit, Days
  <2>2. sourceListing \in [Listings -> {NotStored} \cup [status : {"ACCEPTED", "REJECTED"}, stock : BOOLEAN, seen : Days]]
    BY DEF RecordsInit
  <2>3. <<>> \in Seq(Row) /\ <<>> \in Seq(Priced)
    OBVIOUS
  <2>4. priceHistory \in [Listings -> Seq(Row)] /\ observed \in Seq(Priced)
    BY <2>3 DEF RecordsInit
  <2>5. /\ \A j \in Scrapers : scrape[j] = NoScrape
        /\ \A r \in Rollups : rollup[r] = [pc |-> "idle"]
    BY DEF RecordsInit
  <2>6. scrape \in [Scrapers -> {NoScrape} \cup ScrapeRecord]
    BY DEF RecordsInit
  <2>7. rollup \in [Rollups -> {[pc |-> "idle"]} \cup [pc : {"write"}, from : -1..MaxDay]]
    BY DEF RecordsInit
  <2> QED BY <2>1, <2>2, <2>4, <2>6, <2>7, <1>3 DEF RecordsType, ScrapeRecord
<1>5. RowsFit
  BY <1>1 DEF RowsFit, OpenRowsFit, OneHolder, ScrapesFit, RowsDiffer, RowsPast, Holds, RecordsInit, NoScrape, Committed
<1>6. DaysFit
  BY <1>3 DEF DaysFit, DailyFits, RollupsFit, FinalFits, RecordsInit
<1> QED BY <1>4, <1>5, <1>6 DEF RecordsInd

\* Steps that change no row and no rolled day.
LEMMA DaysStay ==
    ASSUME RecordsInd, UNCHANGED <<priceHistory, daily, rollup>>
    PROVE  DaysFit'
<1>1. \A l \in Listings : \A d : OnDay(l, d)' = OnDay(l, d) /\ DayOf(l, d)' = DayOf(l, d)
  BY DEF OnDay, DayOf, Committed
<1> HIDE DEF OnDay, DayOf
<1> QED BY <1>1, RolledKept DEF RecordsInd, DaysFit

\* An open row stays open as long as its scrape is where it was.
LEMMA OpenStays ==
    ASSUME RecordsInd, NEW j \in Scrapers, scrape[j].pc # "commit",
           \A k \in Scrapers \ {j} : scrape'[k] = scrape[k], UNCHANGED <<priceHistory, day>>
    PROVE  OpenRowsFit'
<1> SUFFICES ASSUME NEW l \in Listings, NEW i \in DOMAIN priceHistory[l] \ Committed(l)
             PROVE  LET k == priceHistory[l][i].by IN
                    /\ i = Len(priceHistory[l])
                    /\ scrape'[k].pc = "commit" /\ scrape'[k].listing = l
                    /\ priceHistory[l][i].day >= day - 1
  BY DEF OpenRowsFit, Committed
<1> DEFINE k == priceHistory[l][i].by
<1>1. \A n \in DOMAIN priceHistory[l] : priceHistory[l][n] \in Row
  BY RecordTables DEF RecordsInd
<1>2. k \in Scrapers
  BY <1>1 DEF Row, Committed
<1>3. /\ i = Len(priceHistory[l]) /\ scrape[k].pc = "commit" /\ scrape[k].listing = l
      /\ priceHistory[l][i].day >= day - 1
  BY DEF RecordsInd, RowsFit, OpenRowsFit
<1> QED BY <1>2, <1>3

\* A scrape that goes on without a row of its own.
LEMMA ScrapeMoves ==
    ASSUME RecordsInd, NEW j \in Scrapers, NEW s, scrape' = [scrape EXCEPT ![j] = s],
           scrape[j].pc # "commit", s.pc \notin {"insert", "commit"},
           s.pc = "read" => \A k \in Scrapers : ~Holds(k, s.listing),
           UNCHANGED <<priceHistory, day>>
    PROVE  RowsFit'
<1>1. /\ scrape \in [Scrapers -> {NoScrape} \cup ScrapeRecord]
      /\ \A l \in Listings : \A i \in DOMAIN priceHistory[l] : priceHistory[l][i] \in Row
  BY RecordTables DEF RecordsInd
<1>2. scrape'[j] = s /\ \A k \in Scrapers \ {j} : scrape'[k] = scrape[k]
  BY <1>1
<1>3. OpenRowsFit'
  BY <1>2, OpenStays
<1>4. OneHolder'
  <2> SUFFICES ASSUME NEW l \in Listings, NEW k \in Scrapers, NEW m \in Scrapers, Holds(k, l)', Holds(m, l)'
               PROVE  k = m
    BY DEF OneHolder
  <2>1. \A n \in Scrapers \ {j} : Holds(n, l)' => Holds(n, l)
    BY <1>2 DEF Holds
  <2>2. Holds(j, l)' => s.pc = "read" /\ s.listing = l
    BY <1>2 DEF Holds
  <2> QED BY <2>1, <2>2 DEF RecordsInd, RowsFit, OneHolder
<1>5. ScrapesFit'
  BY <1>2 DEF RecordsInd, RowsFit, ScrapesFit
<1>6. RowsDiffer' /\ RowsPast'
  BY DEF RecordsInd, RowsFit, RowsDiffer, RowsPast
<1> QED BY <1>3, <1>4, <1>5, <1>6 DEF RowsFit

\* A scrape begins, stores its listing, waits for the lock or ends unchanged.
LEMMA ScrapeTyped ==
    ASSUME RecordsType, NEW j \in Scrapers, NEW s \in {NoScrape} \cup ScrapeRecord,
           scrape' = [scrape EXCEPT ![j] = s], UNCHANGED <<day, priceHistory, daily, rollup>>,
           scrapings' \in 0..MaxScrapings, observed' \in Seq(Priced),
           sourceListing' \in [Listings -> {NotStored} \cup [status : {"ACCEPTED", "REJECTED"}, stock : BOOLEAN, seen : Days]]
    PROVE  RecordsType'
<1>1. scrape' \in [Scrapers -> {NoScrape} \cup ScrapeRecord]
  BY DEF RecordsType, ScrapeRecord
<1> QED BY <1>1 DEF RecordsType, ScrapeRecord

LEMMA GoesOn ==
    ASSUME RecordsType, NEW j \in Scrapers, NEW pc \in {"lock", "read"}, scrape[j].pc # "idle"
    PROVE  /\ [scrape[j] EXCEPT !.pc = pc] \in ScrapeRecord
           /\ [scrape EXCEPT ![j].pc = pc] = [scrape EXCEPT ![j] = [scrape[j] EXCEPT !.pc = pc]]
           /\ [scrape[j] EXCEPT !.pc = pc].pc = pc
           /\ [scrape[j] EXCEPT !.pc = pc].listing = scrape[j].listing
<1>1. scrape[j] \in ScrapeRecord /\ j \in DOMAIN scrape
  BY RecordTables
<1> QED BY <1>1 DEF ScrapeRecord

LEMMA BeginsKeeps ==
    ASSUME RecordsInd, NEW j \in Scrapers, ScrapeBegins(j)
    PROVE  RecordsInd'
<1>1. PICK l \in Listings, s \in Shown :
        scrape' = [scrape EXCEPT ![j] =
            [pc |-> "upsert", listing |-> l, price |-> s.price, stock |-> s.stock, last |-> Nobody]]
  BY DEF ScrapeBegins
<1> DEFINE r == [pc |-> "upsert", listing |-> l, price |-> s.price, stock |-> s.stock, last |-> Nobody]
<1>2. s.price \in Prices /\ s.stock \in BOOLEAN
  BY RecordsAssumption DEF Prices
<1>3. r \in ScrapeRecord
  BY <1>2 DEF ScrapeRecord
<1>4. r.pc = "upsert" /\ scrape[j].pc # "commit"
  BY DEF ScrapeBegins
<1>5. scrapings' \in 0..MaxScrapings
  BY RecordsAssumption DEF ScrapeBegins, RecordsInd, RecordsType
<1>6. RecordsType
  BY DEF RecordsInd
<1>7. /\ UNCHANGED <<day, priceHistory, daily, rollup>> /\ observed' \in Seq(Priced)
      /\ sourceListing' \in [Listings -> {NotStored} \cup [status : {"ACCEPTED", "REJECTED"}, stock : BOOLEAN, seen : Days]]
  BY <1>6 DEF ScrapeBegins, RecordsType
<1> HIDE DEF r
<1>8. RecordsType'
  BY <1>1, <1>3, <1>5, <1>6, <1>7, ScrapeTyped DEF r
<1>9. RowsFit'
  BY <1>1, <1>4, <1>7, ScrapeMoves DEF r
<1> QED BY <1>7, <1>8, <1>9, DaysStay DEF RecordsInd

LEMMA SeenTyped ==
    ASSUME RecordsType, NEW l \in Listings, NEW status \in {"ACCEPTED", "REJECTED"}, NEW stock \in BOOLEAN,
           Seen(l, status, stock)
    PROVE  sourceListing' \in [Listings -> {NotStored} \cup [status : {"ACCEPTED", "REJECTED"}, stock : BOOLEAN, seen : Days]]
<1>1. [status |-> status, stock |-> stock, seen |-> day] \in [status : {"ACCEPTED", "REJECTED"}, stock : BOOLEAN, seen : Days]
  BY DEF RecordsType
<1> QED BY <1>1 DEF Seen, RecordsType

LEMMA StoreKeeps ==
    ASSUME RecordsInd, NEW j \in Scrapers, UpsertListing(j)
    PROVE  RecordsInd'
<1> DEFINE s == [scrape[j] EXCEPT !.pc = "lock"]
<1>1. RecordsType /\ scrape[j].pc = "upsert"
  BY DEF RecordsInd, UpsertListing
<1>2. s \in ScrapeRecord /\ scrape' = [scrape EXCEPT ![j] = s] /\ s.pc = "lock"
  BY <1>1, GoesOn DEF UpsertListing, Goes
<1>3. scrape[j].listing \in Listings /\ scrape[j].stock \in BOOLEAN
  BY <1>1, RecordTables DEF ScrapeRecord
<1>4. sourceListing' \in [Listings -> {NotStored} \cup [status : {"ACCEPTED", "REJECTED"}, stock : BOOLEAN, seen : Days]]
  BY <1>1, <1>3, SeenTyped DEF UpsertListing
<1>5. /\ UNCHANGED <<day, priceHistory, daily, rollup>>
      /\ scrapings' \in 0..MaxScrapings /\ observed' \in Seq(Priced)
  BY <1>1 DEF UpsertListing, RecordsType
<1> HIDE DEF s
<1>6. RecordsType'
  BY <1>1, <1>2, <1>4, <1>5, ScrapeTyped
<1>7. RowsFit'
  BY <1>1, <1>2, <1>5, ScrapeMoves
<1> QED BY <1>5, <1>6, <1>7, DaysStay DEF RecordsInd

LEMMA LockKeeps ==
    ASSUME RecordsInd, NEW j \in Scrapers, Lock(j)
    PROVE  RecordsInd'
<1> DEFINE s == [scrape[j] EXCEPT !.pc = "read"]
<1>1. RecordsType /\ scrape[j].pc = "lock"
  BY DEF RecordsInd, Lock
<1>2. /\ s \in ScrapeRecord /\ scrape' = [scrape EXCEPT ![j] = s]
      /\ s.pc = "read" /\ s.listing = scrape[j].listing
  BY <1>1, GoesOn DEF Lock, Goes
<1>3. \A k \in Scrapers : ~Holds(k, s.listing)
  BY <1>2 DEF Lock, LockFree
<1>4. /\ UNCHANGED <<day, priceHistory, daily, rollup>>
      /\ scrapings' \in 0..MaxScrapings /\ observed' \in Seq(Priced)
      /\ sourceListing' \in [Listings -> {NotStored} \cup [status : {"ACCEPTED", "REJECTED"}, stock : BOOLEAN, seen : Days]]
  BY <1>1 DEF Lock, RecordsType
<1> HIDE DEF s
<1>5. RecordsType'
  BY <1>1, <1>2, <1>4, ScrapeTyped
<1>6. RowsFit'
  BY <1>1, <1>2, <1>3, <1>4, ScrapeMoves
<1> QED BY <1>4, <1>5, <1>6, DaysStay DEF RecordsInd

LEMMA LastPosition ==
    ASSUME NEW n \in Nat, n # 0
    PROVE  Max(1..n) = n
<1> DEFINE S == 1..n
<1>1. S \in SUBSET Int /\ n \in S /\ \A x \in S : x <= n
  OBVIOUS
<1>2. n \in Int /\ S # {}
  BY <1>1
<1> HIDE DEF S
<1>3. Max(S) \in S /\ \A x \in S : x <= Max(S)
  BY <1>1, <1>2, GreatestOf
<1>4. Max(S) <= n /\ Max(S) \in Int /\ n <= Max(S)
  BY <1>1, <1>3
<1> QED BY <1>4 DEF S

\* The transaction that has the lock, before it adds a row, sees every row.
LEMMA AllSeen ==
    ASSUME RecordsInd, NEW j \in Scrapers, scrape[j].pc \in {"read", "insert"}
    PROVE  Committed(scrape[j].listing) = DOMAIN priceHistory[scrape[j].listing]
<1> DEFINE l == scrape[j].listing
<1>1. RecordsType /\ l \in Listings
  BY RecordTables DEF RecordsInd
<1>2. ASSUME NEW i \in DOMAIN priceHistory[l] \ Committed(l) PROVE FALSE
  <2> DEFINE k == priceHistory[l][i].by
  <2>1. k \in Scrapers
    BY <1>1, RecordTables DEF Row, Committed
  <2>2. Holds(k, l) /\ scrape[k].pc = "commit"
    BY <1>1 DEF RecordsInd, RowsFit, OpenRowsFit, Holds
  <2>3. Holds(j, l)
    BY DEF Holds
  <2>4. j = k
    BY <1>1, <2>1, <2>2, <2>3 DEF RecordsInd, RowsFit, OneHolder
  <2> QED BY <2>2, <2>4
<1> QED BY <1>2 DEF Committed

\* A scrape that goes on to the next step of its transaction, with no row of its own yet.
LEMMA ReadKeeps ==
    ASSUME RecordsInd, NEW j \in Scrapers, ReadLast(j)
    PROVE  RecordsInd'
<1> DEFINE l == scrape[j].listing
           rows == priceHistory[l]
           last == IF rows = <<>> THEN Nobody ELSE rows[Len(rows)]
           s == [scrape[j] EXCEPT !.pc = "insert", !.last = last]
<1>1. RecordsType /\ scrape[j].pc = "read" /\ l \in Listings /\ scrape[j] \in ScrapeRecord
  BY RecordTables DEF RecordsInd, ReadLast
<1>2. rows \in Seq(Row) /\ Len(rows) \in Nat /\ DOMAIN rows = 1..Len(rows)
  BY <1>1, RecordTables
<1>3. Committed(l) = 1..Len(rows)
  BY <1>1, <1>2, AllSeen
<1>4. (IF Committed(l) = {} THEN Nobody ELSE rows[Max(Committed(l))]) = last
  <2>1. CASE rows = <<>>
    BY <1>3, <2>1
  <2>2. CASE rows # <<>>
    <3>1. Len(rows) # 0
      BY <1>2, <2>2, EmptySeq
    <3>2. Max(1..Len(rows)) = Len(rows)
      BY <1>2, <3>1, LastPosition
    <3>3. Committed(l) # {}
      <4>1. Len(rows) \in 1..Len(rows)
        BY <1>2, <3>1
      <4> QED BY <1>3, <4>1
    <3> QED BY <1>3, <2>2, <3>2, <3>3
  <2> QED BY <2>1, <2>2
<1>5. last \in Row \cup {Nobody}
  BY <1>1, <1>2, RecordTables, EmptySeq
<1>6. s \in ScrapeRecord /\ s.pc = "insert" /\ s.listing = l /\ s.last = last
  BY <1>1, <1>5 DEF ScrapeRecord
<1>7. scrape' = [scrape EXCEPT ![j] = s]
  <2> HIDE DEF last
  <2> QED BY <1>1, <1>4 DEF ReadLast
<1>8. /\ UNCHANGED <<day, priceHistory, daily, rollup>>
      /\ scrapings' \in 0..MaxScrapings /\ observed' \in Seq(Priced)
      /\ sourceListing' \in [Listings -> {NotStored} \cup [status : {"ACCEPTED", "REJECTED"}, stock : BOOLEAN, seen : Days]]
  BY <1>1 DEF ReadLast, RecordsType
<1> HIDE DEF s
<1>9. RecordsType'
  BY <1>1, <1>6, <1>7, <1>8, ScrapeTyped
<1>10. scrape'[j] = s /\ \A k \in Scrapers \ {j} : scrape'[k] = scrape[k]
  BY <1>1, <1>7, RecordTables
<1>11. \A k \in Scrapers, n \in Listings : Holds(k, n)' <=> Holds(k, n)
  BY <1>1, <1>6, <1>10 DEF Holds
<1>12. OpenRowsFit'
  BY <1>1, <1>8, <1>10, OpenStays
<1>13. OneHolder'
  BY <1>11 DEF RecordsInd, RowsFit, OneHolder
<1>14. ScrapesFit'
  BY <1>6, <1>8, <1>10 DEF RecordsInd, RowsFit, ScrapesFit
<1>15. RowsDiffer' /\ RowsPast'
  BY <1>8 DEF RecordsInd, RowsFit, RowsDiffer, RowsPast
<1> QED BY <1>8, <1>9, <1>12, <1>13, <1>14, <1>15, DaysStay DEF RecordsInd, RowsFit

LEMMA SameKeeps ==
    ASSUME RecordsInd, NEW j \in Scrapers, SamePrice(j)
    PROVE  RecordsInd'
<1> DEFINE o == [listing |-> scrape[j].listing, price |-> scrape[j].price, day |-> day]
<1>1. RecordsType /\ scrape[j].pc = "insert" /\ scrape[j] \in ScrapeRecord
  BY RecordTables DEF RecordsInd, SamePrice
<1>2. o \in Priced /\ observed \in Seq(Priced)
  BY <1>1 DEF ScrapeRecord, Priced, RecordsType
<1>3. observed' \in Seq(Priced)
  BY <1>2, AppendProperties DEF SamePrice, Observes
<1>4. /\ UNCHANGED <<day, priceHistory, daily, rollup>>
      /\ scrapings' \in 0..MaxScrapings
      /\ sourceListing' \in [Listings -> {NotStored} \cup [status : {"ACCEPTED", "REJECTED"}, stock : BOOLEAN, seen : Days]]
      /\ scrape' = [scrape EXCEPT ![j] = NoScrape]
  BY <1>1 DEF SamePrice, Ends, RecordsType
<1>5. RecordsType'
  BY <1>1, <1>3, <1>4, ScrapeTyped
<1>6. NoScrape.pc = "idle"
  BY DEF NoScrape
<1>7. RowsFit'
  BY <1>1, <1>4, <1>6, ScrapeMoves
<1> QED BY <1>4, <1>5, <1>7, DaysStay DEF RecordsInd

\* The others, while one scrape adds its row, shows it or takes it back.
LEMMA OthersFit ==
    ASSUME RecordsInd, NEW j \in Scrapers, scrape[j].pc \in {"insert", "commit"}, UNCHANGED day,
           NEW l, l = scrape[j].listing,
           \A k \in Scrapers \ {j} : scrape'[k] = scrape[k],
           \A n \in Listings \ {l} : priceHistory'[n] = priceHistory[n],
           scrape'[j].pc = "idle" \/ (scrape'[j].pc = "commit" /\ scrape'[j].listing = l)
    PROVE  /\ \A n \in Listings \ {l} : \A i \in DOMAIN priceHistory'[n] \ Committed(n)' :
                LET k == priceHistory'[n][i].by IN
                /\ i = Len(priceHistory'[n])
                /\ scrape'[k].pc = "commit" /\ scrape'[k].listing = n
                /\ priceHistory'[n][i].day >= day' - 1
           /\ OneHolder'
           /\ \A k \in Scrapers \ {j} :
                LET rows == priceHistory'[scrape'[k].listing] IN
                /\ scrape'[k].pc = "insert" => scrape'[k].last = IF rows = <<>> THEN Nobody ELSE rows[Len(rows)]
                /\ scrape'[k].pc = "commit" => rows # <<>> /\ rows[Len(rows)].by = k
<1>1. RecordsType /\ l \in Listings /\ Holds(j, l)
  BY RecordTables DEF RecordsInd, Holds
<1>2. ASSUME NEW n \in Listings \ {l}, NEW i \in DOMAIN priceHistory'[n] \ Committed(n)'
      PROVE  LET k == priceHistory'[n][i].by IN
             /\ i = Len(priceHistory'[n])
             /\ scrape'[k].pc = "commit" /\ scrape'[k].listing = n
             /\ priceHistory'[n][i].day >= day' - 1
  <2> DEFINE k == priceHistory[n][i].by
  <2>1. priceHistory'[n] = priceHistory[n] /\ i \in DOMAIN priceHistory[n] \ Committed(n)
    BY DEF Committed
  <2>2. k \in Scrapers
    BY <1>1, <2>1, RecordTables DEF Row, Committed
  <2>3. /\ i = Len(priceHistory[n]) /\ scrape[k].pc = "commit" /\ scrape[k].listing = n
        /\ priceHistory[n][i].day >= day - 1
    BY <2>1 DEF RecordsInd, RowsFit, OpenRowsFit
  <2>4. k # j
    BY <2>3
  <2> QED BY <2>1, <2>2, <2>3, <2>4
<1>3. OneHolder'
  <2> SUFFICES ASSUME NEW n \in Listings, NEW k \in Scrapers, NEW m \in Scrapers, Holds(k, n)', Holds(m, n)'
               PROVE  k = m
    BY DEF OneHolder
  <2>1. \A i \in Scrapers : Holds(i, n)' => Holds(i, n)
    BY DEF Holds
  <2> QED BY <2>1 DEF RecordsInd, RowsFit, OneHolder
<1>4. ASSUME NEW k \in Scrapers \ {j}
      PROVE  LET rows == priceHistory'[scrape'[k].listing] IN
             /\ scrape'[k].pc = "insert" => scrape'[k].last = IF rows = <<>> THEN Nobody ELSE rows[Len(rows)]
             /\ scrape'[k].pc = "commit" => rows # <<>> /\ rows[Len(rows)].by = k
  <2>1. CASE scrape[k].pc \in {"insert", "commit"}
    <3>1. scrape[k].listing \in Listings /\ Holds(k, scrape[k].listing)
      BY <1>1, <2>1, RecordTables DEF Holds
    <3>2. scrape[k].listing # l
      BY <1>1, <3>1 DEF RecordsInd, RowsFit, OneHolder
    <3> QED BY <3>1, <3>2 DEF RecordsInd, RowsFit, ScrapesFit
  <2>2. CASE scrape[k].pc \notin {"insert", "commit"}
    BY <2>2
  <2> QED BY <2>1, <2>2
<1> QED BY <1>2, <1>3, <1>4

\* Rows become visible on the day they carry or the next, so a rolled day keeps its rows.
LEMMA DaysKept ==
    ASSUME RecordsInd, UNCHANGED <<daily, rollup>>,
           \A n \in Listings :
               /\ Committed(n) \subseteq Committed(n)'
               /\ \A i \in Committed(n) : priceHistory'[n][i] = priceHistory[n][i]
               /\ \A i \in Committed(n)' \ Committed(n) : priceHistory'[n][i].day >= day - 1
    PROVE  DaysFit'
<1>1. RecordsType /\ day \in Nat
  BY RecordTables DEF RecordsInd
<1>2. \A n \in Listings : \A d : OnDay(n, d) \subseteq OnDay(n, d)'
  BY DEF OnDay
<1>3. \A k \in DOMAIN daily : k[2] <= day /\ k[2] \in Nat
  <2> SUFFICES ASSUME NEW k \in DOMAIN daily PROVE k[2] <= day /\ k[2] \in Nat
    OBVIOUS
  <2>1. k[1] \in Listings /\ k[2] \in Nat
    BY <1>1, RecordTables
  <2>2. PICK i \in Committed(k[1]) : priceHistory[k[1]][i].day = k[2]
    BY DEF RecordsInd, DaysFit, DailyFits, OnDay
  <2>3. i \in DOMAIN priceHistory[k[1]]
    BY DEF Committed
  <2> QED BY <2>1, <2>2, <2>3 DEF RecordsInd, RowsFit, RowsPast
<1>4. ASSUME NEW n \in Listings, NEW d \in Days, NEW k \in DOMAIN daily, d <= k[2] - 2
      PROVE  OnDay(n, d)' = OnDay(n, d) /\ (OnDay(n, d) # {} => DayOf(n, d)' = DayOf(n, d))
  <2>1. d < day - 1
    BY <1>1, <1>3, <1>4, RecordsAssumption DEF Days
  <2>2. OnDay(n, d)' \subseteq OnDay(n, d)
    <3> SUFFICES ASSUME NEW i \in OnDay(n, d)' PROVE i \in OnDay(n, d)
      OBVIOUS
    <3>1. i \in Committed(n)' /\ priceHistory'[n][i].day = d
      BY DEF OnDay
    <3>2. i \in Committed(n)
      BY <1>1, <2>1, <3>1, RecordsAssumption DEF Days
    <3> QED BY <3>1, <3>2 DEF OnDay
  <2>3. OnDay(n, d)' = OnDay(n, d)
    BY <1>2, <2>2
  <2>4. \A i \in OnDay(n, d) : priceHistory'[n][i] = priceHistory[n][i]
    BY DEF OnDay
  <2> HIDE DEF OnDay, DayOf
  <2> QED BY <1>1, <2>3, <2>4, SameDay
<1> HIDE DEF OnDay, DayOf
<1> QED BY <1>1, <1>2, <1>4, RolledKept DEF RecordsInd, DaysFit

LEMMA InsertKeeps ==
    ASSUME RecordsInd, NEW j \in Scrapers, InsertPoint(j)
    PROVE  RecordsInd'
<1>0. PICK l, rows : l = scrape[j].listing /\ rows = priceHistory[l]
  OBVIOUS
<1> DEFINE r == [price |-> scrape[j].price, stock |-> scrape[j].stock, day |-> day, by |-> j]
           s == [scrape[j] EXCEPT !.pc = "commit"]
<1>1. RecordsType /\ scrape[j].pc = "insert" /\ l \in Listings /\ scrape[j] \in ScrapeRecord
  BY <1>0, RecordTables DEF RecordsInd, InsertPoint
<1>2. rows \in Seq(Row) /\ Len(rows) \in Nat /\ DOMAIN rows = 1..Len(rows) /\ day \in Days /\ day \in Nat
  BY <1>0, <1>1, RecordTables
<1>3. r \in Row /\ j # Nobody
  BY <1>1, <1>2, RecordsAssumption DEF ScrapeRecord, Row
<1>4. /\ priceHistory' = [priceHistory EXCEPT ![l] = Append(rows, r)]
      /\ UNCHANGED <<day, scrapings, sourceListing, daily, rollup, observed>>
  BY <1>0 DEF InsertPoint
<1>5. /\ Append(rows, r) \in Seq(Row) /\ Len(Append(rows, r)) = Len(rows) + 1
      /\ DOMAIN Append(rows, r) = 1..(Len(rows) + 1)
      /\ Append(rows, r)[Len(rows) + 1] = r /\ \A i \in 1..Len(rows) : Append(rows, r)[i] = rows[i]
  <2> HIDE DEF r
  <2> QED BY <1>2, <1>3, AppendProperties, LenProperties
<1>6. /\ scrape' = [scrape EXCEPT ![j] = s] /\ s \in ScrapeRecord
      /\ s.pc = "commit" /\ s.listing = l
  BY <1>0, <1>1 DEF InsertPoint, Goes, ScrapeRecord
<1>7. scrape'[j] = s /\ \A k \in Scrapers \ {j} : scrape'[k] = scrape[k]
  <2> HIDE DEF s
  <2> QED BY <1>1, <1>6, RecordTables
<1>8. priceHistory'[l] = Append(rows, r) /\ \A n \in Listings \ {l} : priceHistory'[n] = priceHistory[n]
  <2> HIDE DEF r
  <2> QED BY <1>1, <1>4 DEF RecordsType
<1>9. Committed(l) = 1..Len(rows)
  BY <1>0, <1>1, <1>2, AllSeen
<1>20. scrape'[j].pc = "commit" /\ scrape'[j].listing = l
  BY <1>6, <1>7
<1>22. /\ DOMAIN priceHistory'[l] = 1..(Len(rows) + 1) /\ Len(priceHistory'[l]) = Len(rows) + 1
       /\ priceHistory'[l][Len(rows) + 1] = r
       /\ \A i \in 1..Len(rows) : priceHistory'[l][i] = rows[i]
  BY <1>5, <1>8
<1>10. RecordsType'
  <2>1. priceHistory' \in [Listings -> Seq(Row)]
    <3> HIDE DEF r
    <3> QED BY <1>1, <1>4, <1>5 DEF RecordsType
  <2>2. scrape' \in [Scrapers -> {NoScrape} \cup ScrapeRecord]
    <3> HIDE DEF s
    <3> QED BY <1>1, <1>6 DEF RecordsType, ScrapeRecord
  <2> QED BY <1>1, <1>4, <2>1, <2>2 DEF RecordsType, ScrapeRecord
<1>11. r.by = j /\ r.day = day /\ r.price = scrape[j].price /\ r.stock = scrape[j].stock
  OBVIOUS
<1>12. /\ \A n \in Listings : Committed(n)' = Committed(n) /\ \A i \in Committed(n) : priceHistory'[n][i] = priceHistory[n][i]
  <2> SUFFICES ASSUME NEW n \in Listings
               PROVE  Committed(n)' = Committed(n) /\ \A i \in Committed(n) : priceHistory'[n][i] = priceHistory[n][i]
    OBVIOUS
  <2> HIDE DEF r
  <2>1. CASE n # l
    BY <1>8, <2>1 DEF Committed
  <2>2. CASE n = l
    <3>1. Len(rows) + 1 \notin Committed(l)'
      BY <1>3, <1>11, <1>22 DEF Committed
    <3>2. \A i \in 1..Len(rows) : i \in Committed(l)' <=> i \in Committed(l)
      BY <1>2, <1>0, <1>22 DEF Committed
    <3>3. Committed(l)' \subseteq 1..(Len(rows) + 1)
      BY <1>22 DEF Committed
    <3>4. Committed(l)' = Committed(l)
      BY <1>2, <1>9, <3>1, <3>2, <3>3, \A x \in 1..(Len(rows) + 1) : x = Len(rows) + 1 \/ x \in 1..Len(rows)
    <3> QED BY <1>9, <1>0, <1>22, <2>2, <3>4
  <2> QED BY <2>1, <2>2
<1> HIDE DEF r, s
<1>13. /\ \A n \in Listings \ {l} : \A i \in DOMAIN priceHistory'[n] \ Committed(n)' :
             LET k == priceHistory'[n][i].by IN
             /\ i = Len(priceHistory'[n])
             /\ scrape'[k].pc = "commit" /\ scrape'[k].listing = n
             /\ priceHistory'[n][i].day >= day' - 1
       /\ OneHolder'
       /\ \A k \in Scrapers \ {j} :
             LET q == priceHistory'[scrape'[k].listing] IN
             /\ scrape'[k].pc = "insert" => scrape'[k].last = IF q = <<>> THEN Nobody ELSE q[Len(q)]
             /\ scrape'[k].pc = "commit" => q # <<>> /\ q[Len(q)].by = k
  <2>1. scrape[j].pc \in {"insert", "commit"} /\ day' = day
    BY <1>1, <1>4
  <2>2. \A n \in Listings \ {l} : priceHistory'[n] = priceHistory[n]
    BY <1>8
  <2>3. \A k \in Scrapers \ {j} : scrape'[k] = scrape[k]
    BY <1>7
  <2> QED BY <2>1, <2>2, <2>3, <1>20, <1>0, OthersFit, Zenon
<1>14. OpenRowsFit'
  <2> SUFFICES ASSUME NEW n \in Listings, NEW i \in DOMAIN priceHistory'[n] \ Committed(n)'
               PROVE  LET k == priceHistory'[n][i].by IN
                      /\ i = Len(priceHistory'[n])
                      /\ scrape'[k].pc = "commit" /\ scrape'[k].listing = n
                      /\ priceHistory'[n][i].day >= day' - 1
    BY DEF OpenRowsFit
  <2>1. CASE n # l
    BY <1>13, <2>1
  <2>2. CASE n = l
    <3>1. i = Len(rows) + 1
      BY <1>2, <1>5, <1>8, <1>9, <1>12, <2>2
    <3> QED BY <1>2, <1>4, <1>5, <1>6, <1>7, <1>8, <1>11, <2>2, <3>1
  <2> QED BY <2>1, <2>2
<1>15. ScrapesFit'
  <2> SUFFICES ASSUME NEW k \in Scrapers
               PROVE  LET q == priceHistory'[scrape'[k].listing] IN
                      /\ scrape'[k].pc = "insert" => scrape'[k].last = IF q = <<>> THEN Nobody ELSE q[Len(q)]
                      /\ scrape'[k].pc = "commit" => q # <<>> /\ q[Len(q)].by = k
    BY DEF ScrapesFit
  <2>1. CASE k # j
    BY <1>13, <2>1
  <2>2. CASE k = j
    <3>1. priceHistory'[l] # <<>>
      BY <1>2, <1>22, EmptySeq
    <3>2. priceHistory'[l][Len(priceHistory'[l])].by = j
      BY <1>11, <1>22
    <3> QED BY <1>20, <2>2, <3>1, <3>2
  <2> QED BY <2>1, <2>2
<1>16. RowsDiffer'
  <2> SUFFICES ASSUME NEW n \in Listings, NEW i \in 1..(Len(priceHistory'[n]) - 1)
               PROVE  Differ(priceHistory'[n][i], priceHistory'[n][i + 1])
    BY DEF RowsDiffer, Differ
  <2>1. CASE n # l
    BY <1>8, <2>1 DEF RecordsInd, RowsFit, RowsDiffer
  <2>2. CASE n = l /\ i # Len(rows)
    <3>0. i \in 1..((Len(rows) + 1) - 1) /\ i # Len(rows)
      BY <1>22, <2>2
    <3>1. i \in 1..(Len(rows) - 1) /\ i \in 1..Len(rows) /\ i + 1 \in 1..Len(rows)
      <4>1. Len(rows) \in Nat
        BY <1>2
      <4> QED BY <3>0, <4>1
    <3>2. Differ(rows[i], rows[i + 1])
      BY <1>0, <1>1, <3>1 DEF RecordsInd, RowsFit, RowsDiffer
    <3> QED BY <1>5, <1>8, <2>2, <3>1, <3>2
  <2>3. CASE n = l /\ i = Len(rows)
    <3>1. i \in 1..Len(rows) /\ rows # <<>>
      BY <1>2, <2>3, EmptySeq
    <3>2. scrape[j].last = rows[i] /\ rows[i] \in Row
      BY <1>0, <1>1, <1>2, <2>3, <3>1, RecordTables DEF RecordsInd, RowsFit, ScrapesFit
    <3>3. Differ(rows[i], r)
      BY <1>11, <3>2, NobodyAssumption DEF InsertPoint, Unchanged, Differ
    <3> QED BY <1>5, <1>8, <2>3, <3>1, <3>3
  <2> QED BY <2>1, <2>2, <2>3
<1>17. RowsPast'
  <2> SUFFICES ASSUME NEW n \in Listings, NEW i \in DOMAIN priceHistory'[n]
               PROVE  priceHistory'[n][i].day <= day
    BY <1>4 DEF RowsPast
  <2>1. CASE n # l
    BY <1>8, <2>1 DEF RecordsInd, RowsFit, RowsPast
  <2>2. CASE n = l /\ i # Len(rows) + 1
    <3>1. i \in 1..Len(rows) /\ i \in DOMAIN priceHistory[l]
      BY <1>0, <1>2, <1>22, <2>2
    <3>2. priceHistory[l][i].day <= day
      BY <1>0, <1>1, <3>1 DEF RecordsInd, RowsFit, RowsPast
    <3> QED BY <1>0, <1>22, <2>2, <3>1, <3>2
  <2>3. CASE n = l /\ i = Len(rows) + 1
    BY <1>2, <1>5, <1>8, <1>11, <2>3
  <2> QED BY <2>1, <2>2, <2>3
<1>18. DaysFit'
  BY <1>4, <1>12, DaysKept
<1> QED BY <1>10, <1>13, <1>14, <1>15, <1>16, <1>17, <1>18 DEF RecordsInd, RowsFit

\* The row of a transaction that is about to commit is the last of its listing, and the only hidden one.
LEMMA MineIsLast ==
    ASSUME RecordsInd, NEW j \in Scrapers, scrape[j].pc = "commit",
           NEW l, NEW rows, l = scrape[j].listing, rows = priceHistory[l]
    PROVE  /\ Len(rows) \in DOMAIN rows /\ Mine(j) = Len(rows) /\ rows[Len(rows)].by = j
           /\ rows[Len(rows)].day >= day - 1
           /\ Committed(l) = DOMAIN rows \ {Len(rows)}
<1>1. RecordsType /\ l \in Listings /\ j # Nobody
  BY RecordTables, RecordsAssumption DEF RecordsInd
<1>2. rows \in Seq(Row) /\ Len(rows) \in Nat /\ DOMAIN rows = 1..Len(rows)
  BY <1>1, RecordTables
<1>3. rows # <<>> /\ rows[Len(rows)].by = j
  BY DEF RecordsInd, RowsFit, ScrapesFit
<1>4. Len(rows) \in DOMAIN rows
  BY <1>2, <1>3, EmptySeq
<1>5. \A i \in DOMAIN rows : rows[i].by # Nobody => i = Len(rows) /\ rows[i].day >= day - 1
  BY <1>1 DEF RecordsInd, RowsFit, OpenRowsFit, Committed
<1>6. Mine(j) \in DOMAIN rows /\ rows[Mine(j)].by = j
  BY <1>3, <1>4 DEF Mine
<1>7. Committed(l) = DOMAIN rows \ {Len(rows)}
  BY <1>1, <1>3, <1>5 DEF Committed
<1> QED BY <1>1, <1>3, <1>4, <1>5, <1>6, <1>7

LEMMA CommitPointKeeps ==
    ASSUME RecordsInd, NEW j \in Scrapers, CommitPoint(j)
    PROVE  RecordsInd'
<1>0. PICK l, rows : l = scrape[j].listing /\ rows = priceHistory[l]
  OBVIOUS
<1> DEFINE r == [rows[Len(rows)] EXCEPT !.by = Nobody]
           o == [listing |-> l, price |-> scrape[j].price, day |-> r.day]
<1>1. RecordsType /\ scrape[j].pc = "commit" /\ l \in Listings /\ scrape[j] \in ScrapeRecord
  BY <1>0, RecordTables DEF RecordsInd, CommitPoint
<1>2. rows \in Seq(Row) /\ Len(rows) \in Nat /\ DOMAIN rows = 1..Len(rows) /\ day \in Nat
  BY <1>0, <1>1, RecordTables
<1>3. /\ Len(rows) \in DOMAIN rows /\ Mine(j) = Len(rows) /\ rows[Len(rows)].by = j
      /\ rows[Len(rows)].day >= day - 1
      /\ Committed(l) = DOMAIN rows \ {Len(rows)}
  BY <1>0, <1>1, MineIsLast
<1>4. rows[Len(rows)] \in Row
  BY <1>2, <1>3, ElementOfSeq
<1>5. /\ r \in Row /\ r.by = Nobody /\ r.day = rows[Len(rows)].day
      /\ r.price = rows[Len(rows)].price /\ r.stock = rows[Len(rows)].stock
  BY <1>4 DEF Row
<1>6. o \in Priced
  BY <1>1, <1>4, <1>5 DEF ScrapeRecord, Priced, Row
<1>7. /\ priceHistory' = [priceHistory EXCEPT ![l] = [rows EXCEPT ![Len(rows)] = r]]
      /\ observed' = Append(observed, o) /\ scrape' = [scrape EXCEPT ![j] = NoScrape]
      /\ UNCHANGED <<day, scrapings, sourceListing, daily, rollup>>
  BY <1>0, <1>3, <1>5 DEF CommitPoint, Observes, Ends
<1> HIDE DEF r, o
<1>8. /\ [rows EXCEPT ![Len(rows)] = r] \in Seq(Row) /\ Len([rows EXCEPT ![Len(rows)] = r]) = Len(rows)
      /\ \A i \in 1..Len(rows) : [rows EXCEPT ![Len(rows)] = r][i] = IF i = Len(rows) THEN r ELSE rows[i]
  BY <1>2, <1>3, <1>5, ExceptSeq
<1>9. /\ priceHistory'[l] = [rows EXCEPT ![Len(rows)] = r]
      /\ \A n \in Listings \ {l} : priceHistory'[n] = priceHistory[n]
  BY <1>1, <1>7 DEF RecordsType
<1>10. /\ DOMAIN priceHistory'[l] = 1..Len(rows) /\ Len(priceHistory'[l]) = Len(rows)
       /\ \A i \in 1..Len(rows) : priceHistory'[l][i] = IF i = Len(rows) THEN r ELSE rows[i]
  BY <1>8, <1>9, LenProperties
<1>11. scrape'[j] = NoScrape /\ NoScrape.pc = "idle" /\ \A k \in Scrapers \ {j} : scrape'[k] = scrape[k]
  BY <1>1, <1>7, RecordTables
<1>12. RecordsType'
  <2>1. priceHistory' \in [Listings -> Seq(Row)]
    BY <1>1, <1>7, <1>8 DEF RecordsType
  <2>2. scrape' \in [Scrapers -> {NoScrape} \cup ScrapeRecord]
    BY <1>1, <1>7 DEF RecordsType, ScrapeRecord
  <2>3. observed' \in Seq(Priced)
    BY <1>1, <1>6, <1>7, AppendProperties DEF RecordsType
  <2> QED BY <1>1, <1>7, <2>1, <2>2, <2>3 DEF RecordsType, ScrapeRecord
<1>13. Committed(l)' = 1..Len(rows)
  <2>1. \A i \in 1..Len(rows) : priceHistory'[l][i].by = Nobody
    <3> SUFFICES ASSUME NEW i \in 1..Len(rows) PROVE priceHistory'[l][i].by = Nobody
      OBVIOUS
    <3>1. CASE i = Len(rows)
      BY <1>5, <1>10, <3>1
    <3>2. CASE i # Len(rows)
      <4>1. i \in Committed(l)
        BY <1>2, <1>3, <3>2
      <4>2. rows[i].by = Nobody
        BY <1>0, <4>1 DEF Committed
      <4> QED BY <1>10, <3>2, <4>2
    <3> QED BY <3>1, <3>2
  <2> QED BY <1>10, <2>1 DEF Committed
<1>14. /\ \A n \in Listings \ {l} : \A i \in DOMAIN priceHistory'[n] \ Committed(n)' :
             LET k == priceHistory'[n][i].by IN
             /\ i = Len(priceHistory'[n])
             /\ scrape'[k].pc = "commit" /\ scrape'[k].listing = n
             /\ priceHistory'[n][i].day >= day' - 1
       /\ OneHolder'
       /\ \A k \in Scrapers \ {j} :
             LET q == priceHistory'[scrape'[k].listing] IN
             /\ scrape'[k].pc = "insert" => scrape'[k].last = IF q = <<>> THEN Nobody ELSE q[Len(q)]
             /\ scrape'[k].pc = "commit" => q # <<>> /\ q[Len(q)].by = k
  <2>1. scrape[j].pc \in {"insert", "commit"} /\ day' = day /\ scrape'[j].pc = "idle"
    BY <1>1, <1>7, <1>11
  <2>2. \A n \in Listings \ {l} : priceHistory'[n] = priceHistory[n]
    BY <1>9
  <2>3. \A k \in Scrapers \ {j} : scrape'[k] = scrape[k]
    BY <1>11
  <2>4. scrape'[j].pc = "idle" \/ (scrape'[j].pc = "commit" /\ scrape'[j].listing = l)
    BY <2>1
  <2> QED BY <2>1, <2>2, <2>3, <2>4, <1>0, OthersFit, Zenon
<1>15. OpenRowsFit'
  BY <1>10, <1>13, <1>14 DEF OpenRowsFit
<1>16. ScrapesFit'
  BY <1>11, <1>14 DEF ScrapesFit
<1>17. RowsDiffer'
  <2> SUFFICES ASSUME NEW n \in Listings, NEW i \in 1..(Len(priceHistory'[n]) - 1)
               PROVE  Differ(priceHistory'[n][i], priceHistory'[n][i + 1])
    BY DEF RowsDiffer, Differ
  <2>1. CASE n # l
    BY <1>9, <2>1 DEF RecordsInd, RowsFit, RowsDiffer
  <2>2. CASE n = l
    <3>0. i \in 1..(Len(rows) - 1)
      BY <1>10, <2>2
    <3>1. i \in 1..(Len(rows) - 1) /\ i \in 1..Len(rows) /\ i + 1 \in 1..Len(rows) /\ i # Len(rows)
      <4>1. Len(rows) \in Nat
        BY <1>2
      <4> QED BY <3>0, <4>1
    <3>2. Differ(rows[i], rows[i + 1])
      BY <1>0, <1>1, <3>1 DEF RecordsInd, RowsFit, RowsDiffer
    <3>3. priceHistory'[l][i] = rows[i]
      BY <1>10, <3>1
    <3>4. priceHistory'[l][i + 1].price = rows[i + 1].price /\ priceHistory'[l][i + 1].stock = rows[i + 1].stock
      BY <1>5, <1>10, <3>1
    <3> QED BY <2>2, <3>2, <3>3, <3>4 DEF Differ
  <2> QED BY <2>1, <2>2
<1>18. RowsPast'
  <2> SUFFICES ASSUME NEW n \in Listings, NEW i \in DOMAIN priceHistory'[n]
               PROVE  priceHistory'[n][i].day <= day
    BY <1>7 DEF RowsPast
  <2>1. CASE n # l
    BY <1>9, <2>1 DEF RecordsInd, RowsFit, RowsPast
  <2>2. CASE n = l
    <3>1. i \in 1..Len(rows) /\ rows[i].day <= day
      BY <1>0, <1>1, <1>2, <1>10, <2>2 DEF RecordsInd, RowsFit, RowsPast
    <3>2. priceHistory'[l][i].day = rows[i].day
      BY <1>5, <1>10, <3>1
    <3> QED BY <2>2, <3>1, <3>2
  <2> QED BY <2>1, <2>2
<1>19. ASSUME NEW n \in Listings
       PROVE  /\ Committed(n) \subseteq Committed(n)'
              /\ \A i \in Committed(n) : priceHistory'[n][i] = priceHistory[n][i]
              /\ \A i \in Committed(n)' \ Committed(n) : priceHistory'[n][i].day >= day - 1
  <2>1. CASE n # l
    BY <1>9, <2>1 DEF Committed
  <2>2. CASE n = l
    BY <1>0, <1>2, <1>3, <1>5, <1>10, <1>13, <2>2
  <2> QED BY <2>1, <2>2
<1>20. DaysFit'
  BY <1>7, <1>19, DaysKept
<1> QED BY <1>12, <1>14, <1>15, <1>16, <1>17, <1>18, <1>20 DEF RecordsInd, RowsFit

LEMMA FailKeeps ==
    ASSUME RecordsInd, NEW j \in Scrapers, ScrapeFails(j)
    PROVE  RecordsInd'
<1>1. RecordsType /\ NoScrape.pc = "idle" /\ scrape' = [scrape EXCEPT ![j] = NoScrape]
  BY DEF RecordsInd, NoScrape, ScrapeFails, Ends
<1>2. /\ UNCHANGED <<day, daily, rollup>>
      /\ scrapings' \in 0..MaxScrapings /\ observed' \in Seq(Priced)
      /\ sourceListing' \in [Listings -> {NotStored} \cup [status : {"ACCEPTED", "REJECTED"}, stock : BOOLEAN, seen : Days]]
  BY <1>1 DEF ScrapeFails, RecordsType
<1>3. CASE scrape[j].pc # "commit"
  <2>1. UNCHANGED priceHistory
    BY <1>3 DEF ScrapeFails
  <2>2. RecordsType'
    BY <1>1, <1>2, <2>1, ScrapeTyped
  <2>3. RowsFit'
    BY <1>1, <1>2, <1>3, <2>1, ScrapeMoves
  <2> QED BY <1>2, <2>1, <2>2, <2>3, DaysStay DEF RecordsInd
<1>4. CASE scrape[j].pc = "commit"
  <2>0. PICK l, rows : l = scrape[j].listing /\ rows = priceHistory[l]
    OBVIOUS
  <2>1. l \in Listings
    BY <1>1, <1>4, <2>0, RecordTables
  <2>2. rows \in Seq(Row) /\ Len(rows) \in Nat /\ DOMAIN rows = 1..Len(rows) /\ day \in Nat
    BY <1>1, <2>0, <2>1, RecordTables
  <2>3. /\ Len(rows) \in DOMAIN rows /\ Mine(j) = Len(rows)
        /\ Committed(l) = DOMAIN rows \ {Len(rows)}
    BY <1>4, <2>0, MineIsLast
  <2> DEFINE rest == SubSeq(rows, 1, Len(rows) - 1)
  <2>4. rest \in Seq(Row) /\ Len(rest) = Len(rows) - 1 /\ \A i \in 1..(Len(rows) - 1) : rest[i] = rows[i]
    <3>1. \A i \in 1..(Len(rows) - 1) : rows[i] \in Row
      BY <1>1, <2>0, <2>1, <2>2, RecordTables
    <3>2. Len(rows) - 1 \in Int /\ Len(rows) - 1 >= 0 /\ 1 \in Int
      BY <2>2, <2>3
    <3>3. /\ rest \in Seq(Row)
          /\ Len(rest) = IF 1 <= Len(rows) - 1 THEN (Len(rows) - 1) - 1 + 1 ELSE 0
          /\ \A i \in 1..((Len(rows) - 1) - 1 + 1) : rest[i] = rows[1 + i - 1]
      BY <3>1, <3>2, SubSeqProperties
    <3> HIDE DEF rest
    <3>4. /\ (IF 1 <= Len(rows) - 1 THEN (Len(rows) - 1) - 1 + 1 ELSE 0) = Len(rows) - 1
          /\ (Len(rows) - 1) - 1 + 1 = Len(rows) - 1
      BY <2>2, <3>2
    <3>5. \A i \in 1..(Len(rows) - 1) : 1 + i - 1 = i
      BY <2>2
    <3> QED BY <3>3, <3>4, <3>5
  <2>5. RemoveAt(rows, Len(rows)) = rest
    <3>1. SubSeq(rows, Len(rows) + 1, Len(rows)) = <<>>
      BY <2>2, SubSeqEmpty
    <3> HIDE DEF rest
    <3>2. rest \o <<>> = rest
      BY <2>4, ConcatEmptySeq
    <3> QED BY <3>1, <3>2 DEF RemoveAt, rest
  <2> HIDE DEF rest
  <2>6. priceHistory' = [priceHistory EXCEPT ![l] = rest]
    BY <1>4, <2>0, <2>3, <2>5 DEF ScrapeFails
  <2>7. priceHistory'[l] = rest /\ \A n \in Listings \ {l} : priceHistory'[n] = priceHistory[n]
    BY <1>1, <2>1, <2>6 DEF RecordsType
  <2>8. /\ DOMAIN priceHistory'[l] = 1..(Len(rows) - 1) /\ Len(priceHistory'[l]) = Len(rows) - 1
        /\ \A i \in 1..(Len(rows) - 1) : priceHistory'[l][i] = rows[i]
    BY <2>4, <2>7, LenProperties
  <2>9. scrape'[j] = NoScrape /\ \A k \in Scrapers \ {j} : scrape'[k] = scrape[k]
    BY <1>1, <1>4, RecordTables
  <2>10. RecordsType'
    <3>1. priceHistory' \in [Listings -> Seq(Row)]
      BY <1>1, <2>4, <2>6 DEF RecordsType
    <3>2. scrape' \in [Scrapers -> {NoScrape} \cup ScrapeRecord]
      BY <1>1 DEF RecordsType, ScrapeRecord
    <3> QED BY <1>1, <1>2, <3>1, <3>2 DEF RecordsType, ScrapeRecord
  <2>11. Committed(l) = 1..(Len(rows) - 1)
    BY <2>2, <2>3
  <2>12. Committed(l)' = 1..(Len(rows) - 1)
    BY <2>0, <2>8, <2>11 DEF Committed
  <2>13. /\ \A n \in Listings \ {l} : \A i \in DOMAIN priceHistory'[n] \ Committed(n)' :
               LET k == priceHistory'[n][i].by IN
               /\ i = Len(priceHistory'[n])
               /\ scrape'[k].pc = "commit" /\ scrape'[k].listing = n
               /\ priceHistory'[n][i].day >= day' - 1
         /\ OneHolder'
         /\ \A k \in Scrapers \ {j} :
               LET q == priceHistory'[scrape'[k].listing] IN
               /\ scrape'[k].pc = "insert" => scrape'[k].last = IF q = <<>> THEN Nobody ELSE q[Len(q)]
               /\ scrape'[k].pc = "commit" => q # <<>> /\ q[Len(q)].by = k
    <3>1. scrape[j].pc \in {"insert", "commit"} /\ day' = day
      BY <1>2, <1>4
    <3>2. scrape'[j].pc = "idle" \/ (scrape'[j].pc = "commit" /\ scrape'[j].listing = l)
      BY <1>1, <2>9
    <3>3. \A n \in Listings \ {l} : priceHistory'[n] = priceHistory[n]
      BY <2>7
    <3>4. \A k \in Scrapers \ {j} : scrape'[k] = scrape[k]
      BY <2>9
    <3> QED BY <3>1, <3>2, <3>3, <3>4, <2>0, OthersFit, Zenon
  <2>14. OpenRowsFit'
    BY <2>8, <2>12, <2>13 DEF OpenRowsFit
  <2>15. ScrapesFit'
    BY <1>1, <2>9, <2>13 DEF ScrapesFit
  <2>16. RowsDiffer'
    <3> SUFFICES ASSUME NEW n \in Listings, NEW i \in 1..(Len(priceHistory'[n]) - 1)
                 PROVE  Differ(priceHistory'[n][i], priceHistory'[n][i + 1])
      BY DEF RowsDiffer, Differ
    <3>1. CASE n # l
      BY <2>7, <3>1 DEF RecordsInd, RowsFit, RowsDiffer
    <3>2. CASE n = l
      <4>1. i \in 1..((Len(rows) - 1) - 1)
        BY <2>8, <3>2
      <4>2. i \in 1..(Len(rows) - 1) /\ i + 1 \in 1..(Len(rows) - 1)
        BY <2>2, <4>1
      <4>3. Differ(rows[i], rows[i + 1])
        BY <2>0, <2>1, <4>2 DEF RecordsInd, RowsFit, RowsDiffer
      <4> QED BY <2>8, <3>2, <4>2, <4>3
    <3> QED BY <3>1, <3>2
  <2>17. RowsPast'
    <3> SUFFICES ASSUME NEW n \in Listings, NEW i \in DOMAIN priceHistory'[n]
                 PROVE  priceHistory'[n][i].day <= day
      BY <1>2 DEF RowsPast
    <3>1. CASE n # l
      BY <2>7, <3>1 DEF RecordsInd, RowsFit, RowsPast
    <3>2. CASE n = l
      <4>0. i \in 1..(Len(rows) - 1)
        BY <2>8, <3>2
      <4>1. i \in 1..(Len(rows) - 1) /\ i \in DOMAIN rows
        BY <2>2, <4>0
      <4>2. rows[i].day <= day
        BY <2>0, <2>1, <4>1 DEF RecordsInd, RowsFit, RowsPast
      <4> QED BY <2>8, <3>2, <4>1, <4>2
    <3> QED BY <3>1, <3>2
  <2>18. ASSUME NEW n \in Listings
         PROVE  /\ Committed(n) \subseteq Committed(n)'
                /\ \A i \in Committed(n) : priceHistory'[n][i] = priceHistory[n][i]
                /\ \A i \in Committed(n)' \ Committed(n) : priceHistory'[n][i].day >= day - 1
    <3>1. CASE n # l
      BY <2>7, <3>1 DEF Committed
    <3>2. CASE n = l
      BY <2>0, <2>8, <2>11, <2>12, <3>2
    <3> QED BY <3>1, <3>2
  <2>19. DaysFit'
    BY <1>2, <2>18, DaysKept
  <2> QED BY <2>10, <2>13, <2>14, <2>15, <2>16, <2>17, <2>19 DEF RecordsInd, RowsFit
<1> QED BY <1>3, <1>4

LEMMA ListingKeeps ==
    ASSUME RecordsInd, NEW l \in Listings, RejectListing(l) \/ SoldOut(l)
    PROVE  RecordsInd'
<1>1. RecordsType /\ UNCHANGED <<day, priceHistory, daily, scrape, rollup, observed>>
  BY DEF RecordsInd, RejectListing, SoldOut
<1>2. scrapings' \in 0..MaxScrapings
  <2>1. scrapings' = scrapings + 1 /\ scrapings < MaxScrapings
    BY DEF RejectListing, SoldOut
  <2>2. scrapings \in 0..MaxScrapings /\ MaxScrapings \in Nat
    BY <1>1, RecordsAssumption DEF RecordsType
  <2> QED BY <2>1, <2>2
<1>3. sourceListing' \in [Listings -> {NotStored} \cup [status : {"ACCEPTED", "REJECTED"}, stock : BOOLEAN, seen : Days]]
  <2>1. sourceListing[l].status # "none" => /\ sourceListing[l].status \in {"ACCEPTED", "REJECTED"}
                                            /\ sourceListing[l].stock \in BOOLEAN
    BY <1>1 DEF RecordsType, NotStored
  <2> QED BY <1>1, <2>1, SeenTyped DEF RejectListing, SoldOut
<1>4. RecordsType'
  BY <1>1, <1>2, <1>3 DEF RecordsType
<1>5. RowsFit'
  BY <1>1 DEF RecordsInd, RowsFit, OpenRowsFit, OneHolder, ScrapesFit, RowsDiffer, RowsPast, Holds, Committed
<1> QED BY <1>1, <1>4, <1>5, DaysStay DEF RecordsInd

LEMMA NextDayKeeps ==
    ASSUME RecordsInd, NextDay
    PROVE  RecordsInd'
<1>1. RecordsType /\ day \in Nat /\ day' = day + 1 /\ MaxDay \in Nat /\ day < MaxDay
      /\ UNCHANGED <<scrapings, sourceListing, priceHistory, daily, scrape, rollup, observed>>
  BY RecordTables DEF RecordsInd, NextDay
<1>2. RecordsType'
  BY <1>1 DEF RecordsType, Days
<1>3. OpenRowsFit'
  <2>1. \A l \in Listings : \A i \in DOMAIN priceHistory[l] \ Committed(l) : priceHistory[l][i].day = day
    BY DEF NextDay
  <2>2. \A l \in Listings : Committed(l)' = Committed(l)
    BY <1>1 DEF Committed
  <2> QED BY <1>1, <2>1, <2>2 DEF RecordsInd, RowsFit, OpenRowsFit
<1>4. RowsPast'
  <2> SUFFICES ASSUME NEW l \in Listings, NEW i \in DOMAIN priceHistory[l] PROVE priceHistory[l][i].day <= day + 1
    BY <1>1 DEF RowsPast
  <2>1. priceHistory[l][i].day <= day /\ priceHistory[l][i].day \in Nat
    BY <1>1, RecordTables DEF RecordsInd, RowsFit, RowsPast
  <2> QED BY <1>1, <2>1
<1>5. OneHolder' /\ ScrapesFit' /\ RowsDiffer'
  BY <1>1 DEF RecordsInd, RowsFit, OneHolder, ScrapesFit, RowsDiffer, Holds
<1> QED BY <1>1, <1>2, <1>3, <1>4, <1>5, DaysStay DEF RecordsInd, RowsFit

\* The newest rolled day.
LEMMA LatestRolled ==
    ASSUME RecordsType, DOMAIN daily # {}
    PROVE  /\ LatestDay \in Nat /\ LatestDay <= MaxDay /\ LatestDay # Nobody
           /\ \E k \in DOMAIN daily : k[2] = LatestDay
           /\ \A k \in DOMAIN daily : k[2] <= LatestDay
<1> DEFINE D == {k[2] : k \in DOMAIN daily}
<1>1. D \in SUBSET Int /\ D \subseteq Nat /\ D # {} /\ MaxDay \in Int /\ \A x \in D : x <= MaxDay
  BY RecordTables, RecordsAssumption DEF Days
<1>2. LatestDay = Max(D)
  BY DEF LatestDay
<1>3. \A k \in DOMAIN daily : k[2] \in D
  OBVIOUS
<1>4. \A x \in D : \E k \in DOMAIN daily : k[2] = x
  OBVIOUS
<1> HIDE DEF D
<1>5. Max(D) \in D /\ \A x \in D : x <= Max(D)
  BY <1>1, GreatestOf
<1> QED BY <1>1, <1>2, <1>3, <1>4, <1>5, RecordsAssumption

LEMMA RollupReadKeeps ==
    ASSUME RecordsInd, NEW r \in Rollups, RollupRead(r)
    PROVE  RecordsInd'
<1> DEFINE from == RollFrom(LatestDay)
<1>1. RecordsType /\ UNCHANGED <<day, scrapings, sourceListing, priceHistory, daily, scrape, observed>>
      /\ rollup' = [rollup EXCEPT ![r] = [pc |-> "write", from |-> from]]
  BY DEF RecordsInd, RollupRead
<1>2. from \in -1..MaxDay /\ (from <= 0 \/ \E k \in DOMAIN daily : from <= k[2] - 1)
  <2>1. CASE DOMAIN daily = {}
    BY <2>1, RecordsAssumption DEF LatestDay, RollFrom
  <2>2. CASE DOMAIN daily # {}
    <3>1. LatestDay \in Nat /\ LatestDay <= MaxDay /\ LatestDay # Nobody /\ \E k \in DOMAIN daily : k[2] = LatestDay
      BY <1>1, <2>2, LatestRolled
    <3> HIDE DEF from
    <3>2. from = LatestDay - 1
      BY <3>1 DEF RollFrom, from
    <3> QED BY <3>1, <3>2, RecordsAssumption
  <2> QED BY <2>1, <2>2
<1> HIDE DEF from
<1>3. RecordsType'
  BY <1>1, <1>2 DEF RecordsType
<1>4. RowsFit'
  BY <1>1 DEF RecordsInd, RowsFit, OpenRowsFit, OneHolder, ScrapesFit, RowsDiffer, RowsPast, Holds, Committed
<1>5. RollupsFit'
  BY <1>1, <1>2 DEF RecordsInd, RecordsType, DaysFit, RollupsFit
<1>6. DailyFits' /\ FinalFits'
  <2>1. \A l \in Listings : \A d : OnDay(l, d)' = OnDay(l, d) /\ DayOf(l, d)' = DayOf(l, d)
    BY <1>1 DEF OnDay, DayOf, Committed
  <2> HIDE DEF OnDay, DayOf
  <2>2. \A k \in DOMAIN daily : k[1] \in Listings
    BY <1>1, RecordTables
  <2> QED BY <1>1, <2>1, <2>2 DEF RecordsInd, DaysFit, DailyFits, FinalFits, Final
<1> QED BY <1>3, <1>4, <1>5, <1>6 DEF RecordsInd, DaysFit

\* Finitely many rows have a greatest price.
LEMMA PricesBounded ==
    ASSUME RecordsType, NEW l \in Listings
    PROVE  \E b \in Nat : \A i \in 1..Len(priceHistory[l]) : priceHistory[l][i].price <= b
<1>1. PICK size \in Nat : size = Len(priceHistory[l])
  BY RecordTables
<1>2. PICK price : \A i \in 1..size : price[i] \in Nat /\ price[i] = priceHistory[l][i].price
  <2>1. \A p \in Prices : p \in Nat
    BY RecordsAssumption DEF Prices
  <2>2. \A i \in 1..size : priceHistory[l][i] \in Row
    BY <1>1, RecordTables
  <2>3. \A i \in 1..size : priceHistory[l][i].price \in Nat
    BY <2>1, <2>2 DEF Row
  <2>4. WITNESS [i \in 1..size |-> priceHistory[l][i].price]
  <2> QED BY <2>3
<1> DEFINE N == {n \in 0..size : ~ \E b \in Nat : \A i \in 1..n : price[i] <= b}
<1>3. ASSUME N # {} PROVE FALSE
  <2>1. N \in SUBSET Nat
    OBVIOUS
  <2>2. Min(N) \in N /\ \A x \in N : Min(N) <= x
    <3> HIDE DEF N
    <3> QED BY <1>3, <2>1, LeastIn
  <2>3. PICK m \in 0..size : m \in N /\ \A x \in N : m <= x
    BY <2>2
  <2>4. m # 0
    <3>1. \A i \in 1..0 : price[i] <= 0
      OBVIOUS
    <3> QED BY <2>3, <3>1
  <2>5. m \in 1..size /\ m - 1 \in 0..size /\ ~(m <= m - 1)
    BY <1>1, <2>4
  <2>6. m - 1 \notin N
    <3> HIDE DEF N
    <3> QED BY <2>3, <2>5
  <2>7. PICK b \in Nat : \A i \in 1..(m - 1) : price[i] <= b
    BY <2>5, <2>6
  <2>8. b + price[m] \in Nat /\ \A i \in 1..m : price[i] <= b + price[m]
    BY <1>1, <1>2, <2>5, <2>7
  <2> QED BY <2>3, <2>8
<1>4. size \in 0..size
  BY <1>1
<1> QED BY <1>1, <1>2, <1>3, <1>4

\* A day with rows is summed up by prices of its rows.
LEMMA DayTyped ==
    ASSUME RecordsType, NEW l \in Listings, NEW d, OnDay(l, d) # {}
    PROVE  DayOf(l, d) \in DayPoint
<1> DEFINE rows == priceHistory[l]
           prices == {rows[i].price : i \in OnDay(l, d)}
<1>1. \A i \in OnDay(l, d) : i \in 1..Len(rows) /\ rows[i] \in Row
  BY SeenRows, RecordTables
<1>2. prices \subseteq Prices /\ prices \in SUBSET Nat
  BY <1>1, RecordsAssumption DEF Row, Prices
<1>3. PICK b \in Nat : \A i \in 1..Len(rows) : rows[i].price <= b
  BY PricesBounded
<1>4. prices # {} /\ \A x \in prices : x <= b
  BY <1>1, <1>3
<1>5. Max(OnDay(l, d)) \in OnDay(l, d)
  BY SeenRows
<1>6. DayOf(l, d) = [min |-> Min(prices), max |-> Max(prices),
                     close |-> rows[Max(OnDay(l, d))].price, stock |-> rows[Max(OnDay(l, d))].stock]
  BY DEF DayOf
<1>7. rows[Max(OnDay(l, d))].price \in Prices /\ rows[Max(OnDay(l, d))].stock \in BOOLEAN
  BY <1>1, <1>5 DEF Row
<1> HIDE DEF prices
<1>8. Min(prices) \in prices /\ Max(prices) \in prices
  BY <1>2, <1>4, LeastIn, GreatestOf
<1>9. Min(prices) \in Prices /\ Max(prices) \in Prices
  BY <1>2, <1>8
<1> HIDE DEF rows
<1> QED BY <1>6, <1>7, <1>9 DEF DayPoint

LEMMA RollupWriteKeeps ==
    ASSUME RecordsInd, NEW r \in Rollups, RollupWrite(r)
    PROVE  RecordsInd'
<1> DEFINE from == rollup[r].from
           New == {c \in Listings \X Days : c[2] >= from /\ OnDay(c[1], c[2]) # {}}
<1>1. RecordsType /\ rollup[r].pc = "write"
      /\ UNCHANGED <<day, scrapings, sourceListing, priceHistory, scrape, observed>>
      /\ rollup' = [rollup EXCEPT ![r] = [pc |-> "idle"]]
  BY DEF RecordsInd, RollupWrite
<1>2. /\ DOMAIN daily' = DOMAIN daily \cup New
      /\ \A k \in New : daily'[k] = DayOf(k[1], k[2])
      /\ \A k \in DOMAIN daily \ New : daily'[k] = daily[k]
  <2> HIDE DEF OnDay, DayOf
  <2> QED BY DEF RollupWrite, Rolled
<1>3. from \in Int /\ (from <= 0 \/ \E k \in DOMAIN daily : from <= k[2] - 1)
  BY <1>1, RecordTables DEF RecordsInd, DaysFit, RollupsFit
<1>4. \A l \in Listings : \A d : OnDay(l, d)' = OnDay(l, d) /\ DayOf(l, d)' = DayOf(l, d)
  BY <1>1 DEF OnDay, DayOf, Committed
<1> HIDE DEF OnDay, DayOf
<1>5. \A k \in New : k[1] \in Listings /\ k[2] \in Days /\ k[2] >= from /\ OnDay(k[1], k[2]) # {}
  OBVIOUS
<1>6. \A l \in Listings, d \in Days : <<l, d>> \in New <=> d >= from /\ OnDay(l, d) # {}
  OBVIOUS
<1>7. New \subseteq Listings \X Days
  OBVIOUS
<1> HIDE DEF New, from
<1>8. RecordsType'
  <2>1. DOMAIN daily' \subseteq Listings \X Days
    BY <1>1, <1>2, <1>7 DEF RecordsType
  <2>2. \A k \in DOMAIN daily' : daily'[k] \in DayPoint
    BY <1>1, <1>2, <1>5, DayTyped DEF RecordsType
  <2>3. rollup' \in [Rollups -> {[pc |-> "idle"]} \cup [pc : {"write"}, from : -1..MaxDay]]
    BY <1>1 DEF RecordsType
  <2> QED BY <1>1, <2>1, <2>2, <2>3 DEF RecordsType
<1>9. RowsFit'
  BY <1>1 DEF RecordsInd, RowsFit, OpenRowsFit, OneHolder, ScrapesFit, RowsDiffer, RowsPast, Holds, Committed
<1>10. DailyFits'
  <2> SUFFICES ASSUME NEW k \in DOMAIN daily' PROVE OnDay(k[1], k[2])' # {}
    BY DEF DailyFits
  <2>1. CASE k \in New
    BY <1>4, <1>5, <2>1
  <2>2. CASE k \in DOMAIN daily
    <3>1. k[1] \in Listings /\ OnDay(k[1], k[2]) # {}
      BY <1>1, <2>2, RecordTables DEF RecordsInd, DaysFit, DailyFits
    <3> QED BY <1>4, <3>1
  <2> QED BY <1>2, <2>1, <2>2
<1>11. RollupsFit'
  <2>1. \A q \in Rollups : rollup'[q].pc = "write" => rollup'[q] = rollup[q]
    BY <1>1 DEF RecordsType
  <2> QED BY <1>2, <2>1 DEF RecordsInd, DaysFit, RollupsFit
\* A day before the first one rolled again is two days before a rolled day, and was right already.
<1>12. FinalFits'
  <2> SUFFICES ASSUME NEW k \in DOMAIN daily', NEW l \in Listings, NEW d \in Days, d <= k[2] - 2
               PROVE  Final(l, d)'
    BY DEF FinalFits
  <2>1. d \in Nat /\ k[2] \in Nat
    BY <1>1, <1>2, <1>5, RecordTables, RecordsAssumption DEF Days
  <2>2. <<l, d>> \in DOMAIN daily => OnDay(l, d) # {}
    BY DEF RecordsInd, DaysFit, DailyFits
  <2>3. CASE d >= from
    <3>1. <<l, d>> \in New <=> OnDay(l, d) # {}
      BY <1>6, <2>3
    <3> QED BY <1>2, <1>4, <2>2, <3>1 DEF Final
  <2>4. CASE ~(d >= from)
    <3>1. PICK m \in DOMAIN daily : from <= m[2] - 1
      BY <1>3, <2>1, <2>4
    <3>2. m[2] \in Nat
      BY <1>1, RecordTables
    <3>3. d <= m[2] - 2
      BY <1>3, <2>1, <2>4, <3>1, <3>2
    <3>4. Final(l, d)
      BY <3>3 DEF RecordsInd, DaysFit, FinalFits
    <3>5. <<l, d>> \notin New
      BY <1>6, <2>4
    <3> QED BY <1>2, <1>4, <3>4, <3>5 DEF Final
  <2> QED BY <2>3, <2>4
<1> QED BY <1>8, <1>9, <1>10, <1>11, <1>12 DEF RecordsInd, DaysFit

LEMMA StepKeepsRecords ==
    RecordsInd /\ [RecordsNext]_recordVars => RecordsInd'
<1> SUFFICES ASSUME RecordsInd, [RecordsNext]_recordVars PROVE RecordsInd'
  OBVIOUS
<1>1. ASSUME NEW j \in Scrapers, ScrapeStep(j) PROVE RecordsInd'
  BY <1>1, BeginsKeeps, StoreKeeps, LockKeeps, ReadKeeps, SameKeeps, InsertKeeps, CommitPointKeeps, FailKeeps DEF ScrapeStep
<1>2. ASSUME NEW l \in Listings, RejectListing(l) \/ SoldOut(l) PROVE RecordsInd'
  BY <1>2, ListingKeeps
<1>3. ASSUME NEW r \in Rollups, RollupRead(r) \/ RollupWrite(r) PROVE RecordsInd'
  BY <1>3, RollupReadKeeps, RollupWriteKeeps
<1>4. CASE NextDay
  BY <1>4, NextDayKeeps
<1>5. CASE UNCHANGED recordVars
  <2>1. RecordsType' /\ RowsFit'
    BY <1>5 DEF recordVars, RecordsInd, RecordsType, RowsFit, OpenRowsFit, OneHolder, ScrapesFit, RowsDiffer,
                RowsPast, Holds, Committed
  <2>2. UNCHANGED <<priceHistory, daily, rollup>>
    BY <1>5 DEF recordVars
  <2> QED BY <2>1, <2>2, DaysStay DEF RecordsInd
<1> QED BY <1>1, <1>2, <1>3, <1>4, <1>5 DEF RecordsNext

\* In every reachable state the price records are related as RecordsInd says
\* (listing-processor.service.ts, ingestion.repository.ts:376, price-rollup.service.ts).
THEOREM RecordsInvariant == RecordsSpec => []RecordsInd
<1>1. RecordsInit => RecordsInd
  BY StartRecords
<1>2. RecordsInd /\ [RecordsNext]_recordVars => RecordsInd'
  BY StepKeepsRecords
<1> QED BY <1>1, <1>2, PTL DEF RecordsSpec

\* Listings, rows, rolled days, scrapes and rollups keep their form, whatever the
\* order of scrapes, crashes, midnights and overlapping rollups.
THEOREM RecordsTypeCorrect == RecordsSpec => []RecordsType
<1>1. RecordsInd => RecordsType
  BY DEF RecordsInd
<1> QED BY <1>1, RecordsInvariant, PTL

\* The visible rows are those before the hidden one, so neighbours among them are neighbours.
LEMMA SeenAreFirst ==
    ASSUME RecordsInd, NEW l \in Listings, NEW i \in Committed(l), NEW k \in Committed(l), i < k,
           \A n \in Committed(l) : n <= i \/ n >= k
    PROVE  k = i + 1 /\ i \in 1..(Len(priceHistory[l]) - 1)
<1>1. /\ Len(priceHistory[l]) \in Nat /\ DOMAIN priceHistory[l] = 1..Len(priceHistory[l])
      /\ i \in 1..Len(priceHistory[l]) /\ k \in 1..Len(priceHistory[l])
  BY RecordTables, SeenRows DEF RecordsInd
<1>2. i + 1 \in DOMAIN priceHistory[l] /\ i + 1 <= k
  BY <1>1
<1>3. i + 1 \in Committed(l) \/ i + 1 = Len(priceHistory[l])
  BY <1>2 DEF RecordsInd, RowsFit, OpenRowsFit
<1>4. CASE i + 1 \in Committed(l)
  BY <1>1, <1>2, <1>4
<1>5. CASE i + 1 = Len(priceHistory[l])
  BY <1>1, <1>5
<1> QED BY <1>3, <1>4, <1>5

\* However many jobs scrape a listing at once, and die on the way, each visible
\* row of price_history is a change from the one before it (ingestion.repository.ts:376).
THEOREM PointsStayChanges == RecordsSpec => []PointsAreChanges
<1>1. ASSUME RecordsInd PROVE PointsAreChanges
  <2> SUFFICES ASSUME NEW l \in Listings, NEW i \in Committed(l), NEW k \in Committed(l), i < k,
                      \A n \in Committed(l) : n <= i \/ n >= k
               PROVE  <<priceHistory[l][i].price, priceHistory[l][i].stock>>
                         # <<priceHistory[l][k].price, priceHistory[l][k].stock>>
    BY DEF PointsAreChanges
  <2>1. k = i + 1 /\ i \in 1..(Len(priceHistory[l]) - 1)
    BY <1>1, SeenAreFirst
  <2>2. Differ(priceHistory[l][i], priceHistory[l][k])
    BY <1>1, <2>1 DEF RecordsInd, RowsFit, RowsDiffer
  <2> QED BY <2>2 DEF Differ
<1> QED BY <1>1, RecordsInvariant, PTL

\* A day that no later rollup starts from has a row exactly for the listings that
\* changed on it, and that row sums it up, with rollups overlapping and changes
\* that become visible after midnight (price-rollup.service.ts:13).
THEOREM RolledDaysStayFinal == RecordsSpec => []RolledDaysAreFinal
<1>1. ASSUME RecordsInd PROVE RolledDaysAreFinal
  <2> SUFFICES ASSUME LatestDay # Nobody, NEW l \in Listings, NEW d \in 0..(LatestDay - 2)
               PROVE  /\ (<<l, d>> \in DOMAIN daily) <=> (OnDay(l, d) # {})
                      /\ <<l, d>> \in DOMAIN daily => daily[<<l, d>>] = DayOf(l, d)
    BY DEF RolledDaysAreFinal
  <2>1. DOMAIN daily # {}
    BY DEF LatestDay
  <2>2. LatestDay \in Nat /\ LatestDay <= MaxDay
    BY <1>1, <2>1, LatestRolled DEF RecordsInd
  <2>3. PICK k \in DOMAIN daily : k[2] = LatestDay
    BY <1>1, <2>1, LatestRolled DEF RecordsInd
  <2>4. d \in Days /\ d <= k[2] - 2
    BY <2>2, <2>3, RecordsAssumption DEF Days
  <2>5. Final(l, d)
    BY <1>1, <2>4 DEF RecordsInd, DaysFit, FinalFits
  <2> HIDE DEF OnDay, DayOf
  <2> QED BY <2>5 DEF Final
<1> QED BY <1>1, RecordsInvariant, PTL

----
(* The daily series from the changes alone *)

\* A cursor that has not passed the last change of a day stops there.
LEMMA AdvanceIs ==
    ASSUME NEW b, Len(b) \in Nat, NEW from \in Nat, NEW d, NEW p \in Nat, from <= p, p <= Len(b),
           \A i \in 1..Len(b) : b[i].day <= d <=> i <= p
    PROVE  Advance(b, from, d) = p
<1> DEFINE W == [i \in from..Len(b) |-> IF i <= p THEN p ELSE i]
           Moves(c) == c = [i \in from..Len(b) |-> IF i < Len(b) /\ b[i + 1].day <= d THEN c[i + 1] ELSE i]
           C == CHOOSE c : Moves(c)
<1>1. Moves(W)
  <2>1. ASSUME NEW i \in from..Len(b)
        PROVE  (IF i <= p THEN p ELSE i) = IF i < Len(b) /\ b[i + 1].day <= d THEN W[i + 1] ELSE i
    <3>1. CASE i < p
      <4>1. i + 1 \in 1..Len(b) /\ i + 1 \in from..Len(b) /\ i + 1 <= p
        BY <3>1
      <4>2. b[i + 1].day <= d /\ W[i + 1] = p
        BY <4>1
      <4> QED BY <3>1, <4>1, <4>2
    <3>2. CASE i >= p
      <4>1. i < Len(b) => i + 1 \in 1..Len(b) /\ ~(i + 1 <= p)
        BY <3>2
      <4>2. ~(i < Len(b) /\ b[i + 1].day <= d)
        BY <4>1
      <4> QED BY <3>2, <4>2
    <3> QED BY <3>1, <3>2
  <2> QED BY <2>1
<1>2. Moves(C)
  <2> HIDE DEF W, Moves
  <2> QED BY <1>1 DEF C
<1>3. Advance(b, from, d) = C[from]
  BY DEF Advance
<1> HIDE DEF W, C
<1>4. \A i \in from..Len(b) : C[i] = IF i < Len(b) /\ b[i + 1].day <= d THEN C[i + 1] ELSE i
  BY <1>2
<1> HIDE DEF Moves
<1> DEFINE Wrong == {i \in from..p : C[i] # p}
<1>5. ASSUME Wrong # {} PROVE FALSE
  <2>1. Wrong \in SUBSET Int /\ p \in Int /\ \A x \in Wrong : x <= p
    OBVIOUS
  <2>2. PICK m \in Wrong : \A x \in Wrong : x <= m
    <3> HIDE DEF Wrong
    <3> QED BY <1>5, <2>1, GreatestOf
  <2>3. m \in from..Len(b) /\ m <= p /\ C[m] # p
    OBVIOUS
  <2>4. CASE m = p
    <3>1. m < Len(b) => m + 1 \in 1..Len(b) /\ ~(m + 1 <= p)
      BY <2>4
    <3> QED BY <1>4, <2>3, <2>4, <3>1
  <2>5. CASE m < p
    <3>1. m + 1 \in from..p /\ m + 1 \in 1..Len(b) /\ m + 1 \notin Wrong
      BY <2>2, <2>3, <2>5
    <3>2. C[m + 1] = p /\ b[m + 1].day <= d /\ m < Len(b)
      BY <3>1, <2>5
    <3> QED BY <1>4, <2>3, <3>2
  <2> QED BY <2>3, <2>4, <2>5
<1>6. from \in from..p
  OBVIOUS
<1> QED BY <1>3, <1>5, <1>6

\* On each day, p[d][l] of the changes of a listing are of that day or before.
Passed(buckets, from, to, p) ==
    /\ p \in [from..to -> [DOMAIN buckets -> Nat]]
    /\ \A l \in DOMAIN buckets : Len(buckets[l]) \in Nat /\ \A i \in 1..Len(buckets[l]) : buckets[l][i].day \in Nat
    /\ \A d \in from..to, l \in DOMAIN buckets :
          p[d][l] <= Len(buckets[l]) /\ \A i \in 1..Len(buckets[l]) : buckets[l][i].day <= d <=> i <= p[d][l]

\* The cursors of ForwardFill.
Moving(buckets, from, to, at) ==
    at = [d \in from..to |-> [l \in DOMAIN buckets |-> Advance(buckets[l], IF d = from THEN 0 ELSE at[d - 1][l], d)]]

\* Moved on from where they were the day before, the cursors pass the changes of a day.
LEMMA CursorMoves ==
    ASSUME NEW buckets, NEW from \in Nat, NEW to \in Nat, NEW p, Passed(buckets, from, to, p),
           NEW d \in from..to, NEW l \in DOMAIN buckets
    PROVE  Advance(buckets[l], IF d = from THEN 0 ELSE p[d - 1][l], d) = p[d][l]
<1>1. PICK b, q, start : b = buckets[l] /\ q = p[d][l] /\ start = IF d = from THEN 0 ELSE p[d - 1][l]
  OBVIOUS
<1>2. /\ Len(b) \in Nat /\ q \in Nat /\ q <= Len(b)
      /\ \A i \in 1..Len(b) : b[i].day \in Nat /\ (b[i].day <= d <=> i <= q)
  BY <1>1 DEF Passed
<1>3. start \in Nat /\ start <= q
  <2>1. CASE d = from
    BY <1>1, <1>2, <2>1
  <2>2. CASE d # from
    <3>1. d - 1 \in from..to
      BY <2>2
    <3>2. PICK r : r = p[d - 1][l]
      OBVIOUS
    <3>3. start = r /\ r \in Nat /\ r <= Len(b) /\ \A i \in 1..Len(b) : b[i].day <= d - 1 <=> i <= r
      BY <1>1, <2>2, <3>1, <3>2 DEF Passed
    <3>4. ASSUME ~(r <= q) PROVE FALSE
      <4>1. r \in 1..Len(b)
        BY <1>2, <3>3, <3>4
      <4>2. b[r].day <= d - 1 /\ b[r].day \in Nat /\ ~(b[r].day <= d)
        BY <1>2, <3>3, <3>4, <4>1
      <4> QED BY <4>2
    <3> QED BY <3>3, <3>4
  <2> QED BY <2>1, <2>2
<1>4. Advance(b, start, d) = q
  BY <1>2, <1>3, AdvanceIs
<1> QED BY <1>1, <1>4

\* So they are known from the changes alone: the number of them up to that day.
LEMMA CursorsAre ==
    ASSUME NEW buckets, NEW from \in Nat, NEW to \in Nat, NEW p, Passed(buckets, from, to, p),
           NEW at, Moving(buckets, from, to, at)
    PROVE  \A d \in from..to : at[d] = p[d]
<1> DEFINE Wrong == {d \in from..to : at[d] # p[d]}
<1>1. ASSUME Wrong # {} PROVE FALSE
  <2>1. Wrong \in SUBSET Nat
    OBVIOUS
  <2>2. PICK d \in Wrong : \A x \in Wrong : d <= x
    <3> HIDE DEF Wrong
    <3> QED BY <1>1, <2>1, LeastIn
  <2>3. d \in from..to /\ at[d] # p[d] /\ d \in Nat
    OBVIOUS
  <2>4. d # from => at[d - 1] = p[d - 1]
    <3>1. d # from => d - 1 \in from..to /\ d - 1 \notin Wrong
      BY <2>2, <2>3
    <3> QED BY <3>1
  <2>5. ASSUME NEW l \in DOMAIN buckets
        PROVE  Advance(buckets[l], IF d = from THEN 0 ELSE at[d - 1][l], d) = p[d][l]
    <3>1. Advance(buckets[l], IF d = from THEN 0 ELSE p[d - 1][l], d) = p[d][l]
      BY <2>3, CursorMoves
    <3> QED BY <2>4, <3>1
  <2>6. at[d] = [l \in DOMAIN buckets |-> p[d][l]]
    BY <2>3, <2>5 DEF Moving
  <2>7. p[d] = [l \in DOMAIN buckets |-> p[d][l]]
    BY <2>3 DEF Passed
  <2> QED BY <2>3, <2>6, <2>7
<1> QED BY <1>1

\* The listings that count on a day.
Counting(buckets, p, d) == {l \in DOMAIN buckets : p[d][l] > 0 /\ d <= FilledUntil(l)}

Filled(buckets, from, to, p) ==
    [d \in {e \in from..to : Counting(buckets, p, e) # {}} |->
        Point([l \in Counting(buckets, p, d) |-> buckets[l][p[d][l]].price])]

\* The filled series: on each day, every listing that has a change and is not
\* beyond its grace counts with its newest one.
LEMMA FilledAt ==
    ASSUME NEW buckets, NEW from \in Nat, NEW to \in Nat, NEW p, Passed(buckets, from, to, p)
    PROVE  ForwardFill(buckets, from, to) = Filled(buckets, from, to, p)
<1> DEFINE A == CHOOSE a : Moving(buckets, from, to, a)
           On(d) == {l \in DOMAIN buckets : A[d][l] > 0 /\ d <= FilledUntil(l)}
<1>1. Moving(buckets, from, to, p)
  <2>1. ASSUME NEW d \in from..to
        PROVE  p[d] = [l \in DOMAIN buckets |-> Advance(buckets[l], IF d = from THEN 0 ELSE p[d - 1][l], d)]
    <3>1. \A l \in DOMAIN buckets : Advance(buckets[l], IF d = from THEN 0 ELSE p[d - 1][l], d) = p[d][l]
      BY CursorMoves
    <3>2. p[d] = [l \in DOMAIN buckets |-> p[d][l]]
      BY DEF Passed
    <3> QED BY <3>1, <3>2
  <2> QED BY <2>1 DEF Passed, Moving
<1>2. Moving(buckets, from, to, A)
  BY <1>1 DEF A
<1>3. ForwardFill(buckets, from, to) =
          [d \in {e \in from..to : On(e) # {}} |-> Point([l \in On(d) |-> buckets[l][A[d][l]].price])]
  BY DEF ForwardFill, Moving
<1> HIDE DEF A
<1>4. \A d \in from..to : A[d] = p[d]
  <2>1. ASSUME NEW a, Moving(buckets, from, to, a) PROVE \A d \in from..to : a[d] = p[d]
    BY <2>1, CursorsAre
  <2> QED BY <1>2, <2>1
<1>5. \A d \in from..to : On(d) = Counting(buckets, p, d)
  BY <1>4 DEF Counting
<1> HIDE DEF On
<1>6. {e \in from..to : On(e) # {}} = {e \in from..to : Counting(buckets, p, e) # {}}
  BY <1>5
<1>7. ASSUME NEW d \in from..to
      PROVE  Point([l \in On(d) |-> buckets[l][A[d][l]].price]) = Point([l \in Counting(buckets, p, d) |-> buckets[l][p[d][l]].price])
  BY <1>4, <1>5, <1>7
<1> QED BY <1>3, <1>6, <1>7 DEF Filled

\* Everybody sees the rows of a listing but the one that is hidden at its end.
LEMMA SeenFirst ==
    ASSUME RecordsInd, NEW l \in Listings
    PROVE  \E n \in Nat : n <= Len(priceHistory[l]) /\ Committed(l) = 1..n
<1>1. PICK m, C : m = Len(priceHistory[l]) /\ C = Committed(l)
  OBVIOUS
<1>2. m \in Nat /\ DOMAIN priceHistory[l] = 1..m /\ C \subseteq 1..m
  BY <1>1, RecordTables, SeenRows DEF RecordsInd
<1>3. \A i \in 1..m : i \notin C => i = m
  BY <1>1, <1>2 DEF RecordsInd, RowsFit, OpenRowsFit
<1>4. CASE m \in C
  <2>1. C = 1..m
    BY <1>2, <1>3, <1>4
  <2> QED BY <1>1, <1>2, <2>1
<1>5. CASE m \notin C
  <2>1. C = 1..(m - 1)
    <3>1. \A i \in C : i \in 1..(m - 1)
      BY <1>2, <1>5
    <3>2. \A i \in 1..(m - 1) : i \in C
      BY <1>2, <1>3
    <3> QED BY <3>1, <3>2
  <2>2. CASE m = 0
    BY <1>1, <1>2, <2>1, <2>2
  <2>3. CASE m # 0
    BY <1>1, <1>2, <2>1, <2>3
  <2> QED BY <2>2, <2>3
<1> QED BY <1>4, <1>5

\* A reader gets exactly these rows, in their order.
LEMMA HistoryIs ==
    ASSUME NEW l, priceHistory[l] \in Seq(Row), NEW n \in Nat, n <= Len(priceHistory[l]), Committed(l) = 1..n
    PROVE  History(l) \in Seq(Row) /\ Len(History(l)) = n /\ \A i \in 1..n : History(l)[i] = priceHistory[l][i]
<1>0. PICK rows : rows = priceHistory[l]
  OBVIOUS
<1>1. /\ rows \in Seq(Row) /\ Len(rows) \in Nat /\ n <= Len(rows) /\ DOMAIN rows = 1..Len(rows)
      /\ \A i \in 1..Len(rows) : rows[i] \in Row /\ (rows[i].by = Nobody <=> i <= n)
  <2>1. rows \in Seq(Row) /\ Len(rows) \in Nat /\ n <= Len(rows) /\ DOMAIN rows = 1..Len(rows)
    BY <1>0, LenProperties
  <2>2. \A i \in 1..Len(rows) : rows[i] \in Row
    BY <2>1, ElementOfSeq
  <2>3. \A i \in 1..Len(rows) : i \in Committed(l) <=> i <= n
    OBVIOUS
  <2> QED BY <1>0, <2>1, <2>2, <2>3 DEF Committed
<1> DEFINE first(k) == SubSeq(rows, 1, k)
           W == [k \in 0..Len(rows) |-> first(IF k <= n THEN k ELSE n)]
           Collects(u) == u = [k \in 0..Len(rows) |-> IF k = 0 THEN <<>> ELSE IF rows[k].by = Nobody THEN Append(u[k - 1], rows[k]) ELSE u[k - 1]]
           U == CHOOSE u : Collects(u)
<1>2. first(0) = <<>>
  BY <1>1, SubSeqEmpty
<1>3. \A k \in 1..n : first(k) = Append(first(k - 1), rows[k])
  <2> SUFFICES ASSUME NEW k \in 1..n PROVE first(k) = Append(first(k - 1), rows[k])
    OBVIOUS
  <2>1. k \in Int /\ k - 1 \in Int /\ 1 \in Int /\ 1 <= k /\ \A i \in 1..k : rows[i] \in Row
    BY <1>1
  <2> QED BY <2>1, SubSeqRecursiveSecond
<1> HIDE DEF first
<1>4. Collects(W)
  <2>1. ASSUME NEW k \in 0..Len(rows)
        PROVE  W[k] = IF k = 0 THEN <<>> ELSE IF rows[k].by = Nobody THEN Append(W[k - 1], rows[k]) ELSE W[k - 1]
    <3>1. CASE k = 0
      BY <1>2, <3>1
    <3>2. CASE k # 0 /\ k <= n
      <4>1. k \in 1..n /\ k - 1 \in 0..Len(rows) /\ rows[k].by = Nobody /\ W[k - 1] = first(k - 1) /\ W[k] = first(k)
        BY <1>1, <3>2
      <4> QED BY <1>3, <3>2, <4>1
    <3>3. CASE k # 0 /\ k > n
      <4>1. k \in 1..Len(rows) /\ k - 1 \in 0..Len(rows) /\ rows[k].by # Nobody
        BY <1>1, <3>3
      <4>2. W[k] = first(n) /\ W[k - 1] = first(n)
        BY <1>1, <3>3, <4>1
      <4> QED BY <3>3, <4>1, <4>2
    <3> QED BY <1>1, <3>1, <3>2, <3>3
  <2> QED BY <2>1
<1>5. Collects(U)
  <2> HIDE DEF W, Collects
  <2> QED BY <1>4 DEF U
<1>6. History(l) = U[Len(rows)]
  BY <1>0 DEF History
<1> HIDE DEF U
<1>7. U[0] = <<>> /\ \A k \in 1..Len(rows) : U[k] = IF rows[k].by = Nobody THEN Append(U[k - 1], rows[k]) ELSE U[k - 1]
  <2>1. \A k \in 0..Len(rows) : U[k] = IF k = 0 THEN <<>> ELSE IF rows[k].by = Nobody THEN Append(U[k - 1], rows[k]) ELSE U[k - 1]
    BY <1>5
  <2>2. 0 \in 0..Len(rows) /\ \A k \in 1..Len(rows) : k \in 0..Len(rows) /\ k # 0
    BY <1>1
  <2> QED BY <2>1, <2>2
<1> HIDE DEF Collects
<1> DEFINE Wrong == {k \in 0..Len(rows) : U[k] # W[k]}
<1>8. ASSUME Wrong # {} PROVE FALSE
  <2>1. Wrong \in SUBSET Nat
    OBVIOUS
  <2>2. PICK k \in Wrong : \A x \in Wrong : k <= x
    <3> HIDE DEF Wrong
    <3> QED BY <1>8, <2>1, LeastIn
  <2>3. k \in 0..Len(rows) /\ U[k] # W[k]
    OBVIOUS
  <2>4. W[0] = <<>> /\ \A q \in 1..Len(rows) : W[q] = IF rows[q].by = Nobody THEN Append(W[q - 1], rows[q]) ELSE W[q - 1]
    <3> HIDE DEF W
    <3>1. \A q \in 0..Len(rows) : W[q] = IF q = 0 THEN <<>> ELSE IF rows[q].by = Nobody THEN Append(W[q - 1], rows[q]) ELSE W[q - 1]
      BY <1>4 DEF Collects
    <3>2. 0 \in 0..Len(rows) /\ \A q \in 1..Len(rows) : q \in 0..Len(rows) /\ q # 0
      BY <1>1
    <3> QED BY <3>1, <3>2
  <2>5. k \in 1..Len(rows) /\ k - 1 \in 0..Len(rows)
    BY <1>1, <1>7, <2>3, <2>4
  <2>6. U[k - 1] = W[k - 1]
    BY <2>2, <2>5
  <2> HIDE DEF W
  <2> QED BY <1>7, <2>3, <2>4, <2>5, <2>6
<1>9. History(l) = first(n)
  <2>1. Len(rows) \in 0..Len(rows) /\ W[Len(rows)] = first(n)
    BY <1>1
  <2> QED BY <1>6, <1>8, <2>1
<1>10. first(n) \in Seq(Row) /\ Len(first(n)) = n /\ \A i \in 1..n : first(n)[i] = rows[i]
  <2>1. \A i \in 1..n : rows[i] \in Row
    BY <1>1
  <2>2. /\ SubSeq(rows, 1, n) \in Seq(Row)
        /\ Len(SubSeq(rows, 1, n)) = IF 1 <= n THEN n - 1 + 1 ELSE 0
        /\ \A i \in 1..(n - 1 + 1) : SubSeq(rows, 1, n)[i] = rows[1 + i - 1]
    BY <2>1, SubSeqProperties
  <2>3. (IF 1 <= n THEN n - 1 + 1 ELSE 0) = n /\ n - 1 + 1 = n /\ \A i \in 1..n : 1 + i - 1 = i
    OBVIOUS
  <2> QED BY <2>2, <2>3 DEF first
<1> QED BY <1>0, <1>9, <1>10

\* The rows of a listing up to a day that everybody sees.
RowsBy(l, d) == {i \in Committed(l) : priceHistory[l][i].day <= d}

RowsInOrder ==
    \A l \in Listings : \A i, k \in DOMAIN priceHistory[l] : i <= k => priceHistory[l][i].day <= priceHistory[l][k].day

\* The hidden row has the price its scrape is about to report.
HeldPrice ==
    \A j \in Scrapers : scrape[j].pc = "commit" =>
        LET rows == priceHistory[scrape[j].listing] IN rows[Len(rows)].price = scrape[j].price

\* On every day the newest row of a listing has the price last observed.
Agree(l, d) ==
    /\ ObservedBy(l, d) = {} <=> RowsBy(l, d) = {}
    /\ RowsBy(l, d) # {} => LastSeenPrice(l, d) = priceHistory[l][Max(RowsBy(l, d))].price
ObservedFit == \A l \in Listings, d \in Days : Agree(l, d)

SeriesFit == RowsInOrder /\ HeldPrice /\ ObservedFit

LEMMA StartFits == RecordsInit => SeriesFit
<1> SUFFICES ASSUME RecordsInit PROVE SeriesFit
  OBVIOUS
<1>1. observed = <<>> /\ \A l \in Listings : priceHistory[l] = <<>>
  BY DEF RecordsInit
<1>2. DOMAIN observed = {} /\ \A l \in Listings : DOMAIN priceHistory[l] = {}
  BY <1>1
<1>3. RowsInOrder
  BY <1>2 DEF RowsInOrder
<1>4. HeldPrice
  BY DEF HeldPrice, RecordsInit, NoScrape
<1>5. ObservedFit
  BY <1>2 DEF ObservedFit, Agree, ObservedBy, RowsBy, Committed
<1> QED BY <1>3, <1>4, <1>5 DEF SeriesFit

\* A step that writes no row and reports no price.
LEMMA QuietFit ==
    ASSUME SeriesFit, UNCHANGED <<priceHistory, observed>>,
           \A j \in Scrapers : scrape'[j].pc = "commit" => scrape'[j] = scrape[j]
    PROVE  SeriesFit'
<1>1. \A l, d : Committed(l)' = Committed(l) /\ RowsBy(l, d)' = RowsBy(l, d) /\ ObservedBy(l, d)' = ObservedBy(l, d)
  BY DEF Committed, RowsBy, ObservedBy
<1>2. RowsInOrder' /\ HeldPrice'
  BY DEF SeriesFit, RowsInOrder, HeldPrice
<1>3. ObservedFit'
  <2> SUFFICES ASSUME NEW l \in Listings, NEW d \in Days PROVE Agree(l, d)'
    BY DEF ObservedFit
  <2>1. Agree(l, d)
    BY DEF SeriesFit, ObservedFit
  <2> QED BY <1>1, <2>1 DEF Agree, LastSeenPrice
<1> QED BY <1>2, <1>3 DEF SeriesFit

\* What a reported price changes: the last one seen of its listing from its day on.
LEMMA ObservedGrows ==
    ASSUME observed \in Seq(Priced), NEW o \in Priced, observed' = Append(observed, o), NEW l, NEW d
    PROVE  /\ o.listing = l /\ o.day <= d => ObservedBy(l, d)' # {} /\ LastSeenPrice(l, d)' = o.price
           /\ ~(o.listing = l /\ o.day <= d) =>
                 /\ ObservedBy(l, d)' = ObservedBy(l, d)
                 /\ ObservedBy(l, d) # {} => LastSeenPrice(l, d)' = LastSeenPrice(l, d)
<1>1. PICK n, S, T : n = Len(observed) /\ S = ObservedBy(l, d) /\ T = ObservedBy(l, d)'
  OBVIOUS
<1>2. /\ n \in Nat /\ DOMAIN observed = 1..n /\ DOMAIN observed' = 1..(n + 1)
      /\ observed'[n + 1] = o /\ \A i \in 1..n : observed'[i] = observed[i]
  <2>1. n \in Nat /\ DOMAIN observed = 1..n
    BY <1>1, LenProperties
  <2>2. observed' \in Seq(Priced) /\ Len(observed') = n + 1 /\ observed'[n + 1] = o /\ \A i \in 1..n : observed'[i] = observed[i]
    BY <1>1, AppendProperties
  <2>3. DOMAIN observed' = 1..(n + 1)
    BY <2>2, LenProperties
  <2> QED BY <2>1, <2>2, <2>3
<1>3. S \subseteq 1..n /\ T \subseteq 1..(n + 1) /\ \A i \in 1..n : i \in T <=> i \in S
  BY <1>1, <1>2 DEF ObservedBy
<1>4. n + 1 \in T <=> o.listing = l /\ o.day <= d
  BY <1>1, <1>2 DEF ObservedBy
<1>5. CASE o.listing = l /\ o.day <= d
  <2>1. n + 1 \in T /\ T \in SUBSET Int /\ \A x \in T : x <= n + 1
    BY <1>2, <1>3, <1>4, <1>5
  <2>2. Max(T) = n + 1
    <3>1. Max(T) \in T /\ \A x \in T : x <= Max(T)
      BY <1>2, <2>1, GreatestOf
    <3> QED BY <1>2, <2>1, <3>1
  <2>3. LastSeenPrice(l, d)' = observed'[Max(T)].price
    BY <1>1 DEF LastSeenPrice
  <2> QED BY <1>1, <1>2, <1>5, <2>1, <2>2, <2>3
<1>6. CASE ~(o.listing = l /\ o.day <= d)
  <2>1. T = S
    <3>1. \A i \in T : i \in 1..n
      BY <1>2, <1>3, <1>4, <1>6
    <3> QED BY <1>3, <3>1
  <2>2. ASSUME S # {} PROVE LastSeenPrice(l, d)' = LastSeenPrice(l, d)
    <3>1. S \in SUBSET Int /\ n \in Int /\ \A x \in S : x <= n
      BY <1>2, <1>3
    <3>2. Max(S) \in 1..n
      <4>1. Max(S) \in S
        BY <2>2, <3>1, GreatestOf
      <4> QED BY <1>3, <4>1
    <3>3. LastSeenPrice(l, d)' = observed'[Max(T)].price /\ LastSeenPrice(l, d) = observed[Max(S)].price
      BY <1>1 DEF LastSeenPrice
    <3> QED BY <1>2, <2>1, <3>2, <3>3
  <2> QED BY <1>1, <1>6, <2>1, <2>2
<1> QED BY <1>5, <1>6

\* A listing whose visible rows stay as they were.
LEMMA AgreeStays ==
    ASSUME RecordsType, NEW l \in Listings, NEW d, Agree(l, d),
           Committed(l)' = Committed(l), \A i \in Committed(l) : priceHistory'[l][i] = priceHistory[l][i],
           ObservedBy(l, d)' = ObservedBy(l, d), ObservedBy(l, d) # {} => LastSeenPrice(l, d)' = LastSeenPrice(l, d)
    PROVE  Agree(l, d)'
<1>1. RowsBy(l, d)' = RowsBy(l, d)
  BY DEF RowsBy
<1>2. ASSUME RowsBy(l, d) # {} PROVE Max(RowsBy(l, d)) \in Committed(l)
  <2>1. Len(priceHistory[l]) \in Nat /\ RowsBy(l, d) \subseteq Committed(l) /\ Committed(l) \subseteq 1..Len(priceHistory[l])
    BY RecordTables, SeenRows DEF RowsBy
  <2>2. PICK n, S : n = Len(priceHistory[l]) /\ S = RowsBy(l, d)
    OBVIOUS
  <2>3. n \in Nat /\ S \in SUBSET Int /\ S # {} /\ \A x \in S : x <= n
    BY <1>2, <2>1, <2>2
  <2>4. Max(S) \in S
    BY <2>3, GreatestOf
  <2> QED BY <2>1, <2>2, <2>4
<1> QED BY <1>1, <1>2 DEF Agree

LEMMA SameFit ==
    ASSUME RecordsInd, SeriesFit, NEW j \in Scrapers, SamePrice(j)
    PROVE  SeriesFit'
<1>0. PICK l, rows : l = scrape[j].listing /\ rows = priceHistory[l]
  OBVIOUS
<1> DEFINE o == [listing |-> l, price |-> scrape[j].price, day |-> day]
<1>1. RecordsType /\ scrape[j].pc = "insert" /\ scrape[j] \in ScrapeRecord /\ l \in Listings /\ Unchanged(j)
  BY <1>0, RecordTables DEF RecordsInd, SamePrice
<1>2. /\ o \in Priced /\ observed \in Seq(Priced) /\ observed' = Append(observed, o)
      /\ priceHistory' = priceHistory /\ scrape' = [scrape EXCEPT ![j] = NoScrape]
  BY <1>0, <1>1 DEF ScrapeRecord, Priced, RecordsType, SamePrice, Observes, Ends
<1>3. o.listing = l /\ o.price = scrape[j].price /\ o.day = day
  OBVIOUS
<1> HIDE DEF o
<1>4. Len(rows) \in Nat /\ DOMAIN rows = 1..Len(rows) /\ day \in Nat /\ Committed(l) = 1..Len(rows)
  BY <1>0, <1>1, RecordTables, AllSeen
<1>5. Len(rows) # 0 /\ rows[Len(rows)].price = o.price
  <2>1. rows # <<>> /\ scrape[j].last = rows[Len(rows)]
    BY <1>0, <1>1 DEF RecordsInd, RowsFit, ScrapesFit, Unchanged
  <2>2. rows \in Seq(Row)
    BY <1>0, <1>1, RecordTables
  <2> QED BY <1>1, <1>3, <2>1, <2>2, EmptySeq DEF Unchanged
<1>6. RowsInOrder' /\ HeldPrice'
  <2>1. NoScrape.pc # "commit" /\ \A k \in Scrapers \ {j} : scrape'[k] = scrape[k]
    BY <1>1, <1>2, RecordTables DEF NoScrape
  <2>2. scrape'[j] = NoScrape
    BY <1>1, <1>2, RecordTables
  <2> QED BY <1>2, <2>1, <2>2 DEF SeriesFit, RowsInOrder, HeldPrice
<1>7. ObservedFit'
  <2> SUFFICES ASSUME NEW n \in Listings, NEW d \in Days PROVE Agree(n, d)'
    BY DEF ObservedFit
  <2>1. Agree(n, d) /\ Committed(n)' = Committed(n) /\ RowsBy(n, d)' = RowsBy(n, d)
    BY <1>2 DEF SeriesFit, ObservedFit, Committed, RowsBy
  <2>2. CASE ~(n = l /\ day <= d)
    <3>1. ObservedBy(n, d)' = ObservedBy(n, d) /\ (ObservedBy(n, d) # {} => LastSeenPrice(n, d)' = LastSeenPrice(n, d))
      <4>1. ~(o.listing = n /\ o.day <= d)
        BY <1>3, <2>2
      <4> QED BY <1>2, <4>1, ObservedGrows
    <3> QED BY <1>1, <1>2, <2>1, <3>1, AgreeStays
  <2>3. CASE n = l /\ day <= d
    <3>1. ObservedBy(n, d)' # {} /\ LastSeenPrice(n, d)' = o.price
      BY <1>2, <1>3, <2>3, ObservedGrows
    <3>2. RowsBy(l, d) = 1..Len(rows)
      <4>1. \A i \in 1..Len(rows) : rows[i].day \in Nat /\ rows[i].day <= day
        BY <1>0, <1>1, <1>4, RecordTables DEF RecordsInd, RowsFit, RowsPast
      <4>2. d \in Nat
        BY RecordsAssumption DEF Days
      <4>3. \A i \in 1..Len(rows) : priceHistory[l][i].day <= d
        BY <1>0, <1>4, <2>3, <4>1, <4>2
      <4> QED BY <1>4, <4>3 DEF RowsBy
    <3>3. RowsBy(n, d)' = 1..Len(rows) /\ Max(1..Len(rows)) = Len(rows) /\ 1..Len(rows) # {}
      BY <1>4, <1>5, <2>1, <2>3, <3>2, LastPosition
    <3>4. priceHistory'[n][Max(RowsBy(n, d)')].price = o.price
      BY <1>0, <1>2, <1>5, <2>3, <3>3
    <3> QED BY <3>1, <3>3, <3>4 DEF Agree
  <2> QED BY <2>2, <2>3
<1> QED BY <1>6, <1>7 DEF SeriesFit

\* The rows of l are the given ones and one more.
RowAdded(l, rows, row) ==
    /\ l \in Listings /\ Len(rows) \in Nat /\ DOMAIN rows = 1..Len(rows)
    /\ DOMAIN priceHistory'[l] = 1..(Len(rows) + 1) /\ Len(priceHistory'[l]) = Len(rows) + 1
    /\ \A i \in 1..Len(rows) : priceHistory'[l][i] = rows[i]
    /\ priceHistory'[l][Len(rows) + 1] = row
    /\ \A n \in Listings \ {l} : priceHistory'[n] = priceHistory[n]

SeenAsBefore ==
    \A n \in Listings : Committed(n)' = Committed(n) /\ \A i \in Committed(n) : priceHistory'[n][i] = priceHistory[n][i]

\* The row that a scrape adds is hidden.
LEMMA InsertRows ==
    ASSUME RecordsInd, NEW j \in Scrapers, InsertPoint(j), NEW l, NEW rows, l = scrape[j].listing, rows = priceHistory[l]
    PROVE  /\ RowAdded(l, rows, [price |-> scrape[j].price, stock |-> scrape[j].stock, day |-> day, by |-> j])
           /\ SeenAsBefore
<1> DEFINE r == [price |-> scrape[j].price, stock |-> scrape[j].stock, day |-> day, by |-> j]
<1>1. RecordsType /\ scrape[j].pc = "insert" /\ l \in Listings /\ scrape[j] \in ScrapeRecord
  BY RecordTables DEF RecordsInd, InsertPoint
<1>2. rows \in Seq(Row) /\ Len(rows) \in Nat /\ DOMAIN rows = 1..Len(rows) /\ day \in Days
  BY <1>1, RecordTables
<1>3. r \in Row /\ j # Nobody /\ r.by = j
  BY <1>1, <1>2, RecordsAssumption DEF ScrapeRecord, Row
<1>4. priceHistory' = [priceHistory EXCEPT ![l] = Append(rows, r)]
  BY DEF InsertPoint
<1> HIDE DEF r
<1>5. /\ Len(Append(rows, r)) = Len(rows) + 1 /\ DOMAIN Append(rows, r) = 1..(Len(rows) + 1)
      /\ Append(rows, r)[Len(rows) + 1] = r /\ \A i \in 1..Len(rows) : Append(rows, r)[i] = rows[i]
  BY <1>2, <1>3, AppendProperties, LenProperties
<1>6. priceHistory'[l] = Append(rows, r) /\ \A n \in Listings \ {l} : priceHistory'[n] = priceHistory[n]
  BY <1>1, <1>4 DEF RecordsType
<1>7. /\ DOMAIN priceHistory'[l] = 1..(Len(rows) + 1) /\ Len(priceHistory'[l]) = Len(rows) + 1
      /\ priceHistory'[l][Len(rows) + 1] = r
      /\ \A i \in 1..Len(rows) : priceHistory'[l][i] = rows[i]
  BY <1>5, <1>6
<1>8. Committed(l) = 1..Len(rows)
  BY <1>1, <1>2, AllSeen
<1>9. ASSUME NEW n \in Listings
      PROVE  Committed(n)' = Committed(n) /\ \A i \in Committed(n) : priceHistory'[n][i] = priceHistory[n][i]
  <2>1. CASE n # l
    BY <1>6, <2>1 DEF Committed
  <2>2. CASE n = l
    <3>1. Len(rows) + 1 \notin Committed(l)'
      BY <1>3, <1>7 DEF Committed
    <3>2. \A i \in 1..Len(rows) : i \in Committed(l)' <=> i \in Committed(l)
      BY <1>2, <1>7 DEF Committed
    <3>3. Committed(l)' \subseteq 1..(Len(rows) + 1)
      BY <1>7 DEF Committed
    <3>4. Committed(l)' = Committed(l)
      BY <1>2, <1>8, <3>1, <3>2, <3>3, \A x \in 1..(Len(rows) + 1) : x = Len(rows) + 1 \/ x \in 1..Len(rows)
    <3> QED BY <1>8, <1>7, <2>2, <3>4
  <2> QED BY <2>1, <2>2
<1> QED BY <1>1, <1>2, <1>6, <1>7, <1>9 DEF r, RowAdded, SeenAsBefore

LEMMA InsertFit ==
    ASSUME RecordsInd, SeriesFit, NEW j \in Scrapers, InsertPoint(j)
    PROVE  SeriesFit'
<1>0. PICK l, rows : l = scrape[j].listing /\ rows = priceHistory[l]
  OBVIOUS
<1>1. /\ RecordsType /\ scrape[j].pc = "insert" /\ scrape[j] \in ScrapeRecord
      /\ scrape' = [scrape EXCEPT ![j].pc = "commit"] /\ observed' = observed
  BY RecordTables DEF RecordsInd, InsertPoint, Goes
<1>2. /\ l \in Listings /\ Len(rows) \in Nat /\ DOMAIN rows = 1..Len(rows)
      /\ DOMAIN priceHistory'[l] = 1..(Len(rows) + 1) /\ Len(priceHistory'[l]) = Len(rows) + 1
      /\ \A i \in 1..Len(rows) : priceHistory'[l][i] = rows[i]
      /\ priceHistory'[l][Len(rows) + 1].price = scrape[j].price /\ priceHistory'[l][Len(rows) + 1].day = day
      /\ \A n \in Listings \ {l} : priceHistory'[n] = priceHistory[n]
  <2>1. RowAdded(l, rows, [price |-> scrape[j].price, stock |-> scrape[j].stock, day |-> day, by |-> j])
    BY <1>0, InsertRows
  <2> QED BY <2>1 DEF RowAdded
<1>3. \A n \in Listings : Committed(n)' = Committed(n) /\ \A i \in Committed(n) : priceHistory'[n][i] = priceHistory[n][i]
  BY <1>0, InsertRows DEF SeenAsBefore
<1>4. RowsInOrder'
  <2> SUFFICES ASSUME NEW n \in Listings, NEW i \in DOMAIN priceHistory'[n], NEW k \in DOMAIN priceHistory'[n], i <= k
               PROVE  priceHistory'[n][i].day <= priceHistory'[n][k].day
    BY DEF RowsInOrder
  <2>1. CASE n # l
    BY <1>2, <2>1 DEF SeriesFit, RowsInOrder
  <2>2. CASE n = l
    <3>1. \A q \in 1..Len(rows) : rows[q].day <= day /\ rows[q].day \in Nat
      BY <1>0, <1>1, <1>2, RecordTables DEF RecordsInd, RowsFit, RowsPast
    <3>2. day \in Nat /\ day <= day
      BY <1>1, RecordTables
    <3>3. \A q \in 1..(Len(rows) + 1) : priceHistory'[l][q].day <= day
      BY <1>2, <3>1, <3>2, \A q \in 1..(Len(rows) + 1) : q \in 1..Len(rows) \/ q = Len(rows) + 1
    <3>4. CASE k = Len(rows) + 1
      BY <1>2, <2>2, <3>3, <3>4
    <3>5. CASE k # Len(rows) + 1
      <4>1. i \in 1..Len(rows) /\ k \in 1..Len(rows)
        BY <1>2, <2>2, <3>5
      <4> QED BY <1>0, <1>2, <2>2, <4>1 DEF SeriesFit, RowsInOrder
    <3> QED BY <3>4, <3>5
  <2> QED BY <2>1, <2>2
<1>5. HeldPrice'
  <2> SUFFICES ASSUME NEW k \in Scrapers, scrape'[k].pc = "commit", NEW q, q = priceHistory'[scrape'[k].listing]
               PROVE  q[Len(q)].price = scrape'[k].price
    BY DEF HeldPrice
  <2>1. CASE k = j
    <3>1. scrape'[j].listing = l /\ scrape'[j].price = scrape[j].price
      BY <1>0, <1>1, RecordTables DEF ScrapeRecord
    <3> QED BY <1>2, <2>1, <3>1
  <2>2. CASE k # j
    <3>1. scrape'[k] = scrape[k]
      BY <1>1, <2>2, RecordTables
    <3>2. scrape[k].listing \in Listings
      BY <1>1, <3>1, RecordTables
    <3>3. scrape[k].listing # l
      <4>1. Holds(j, l) /\ Holds(k, scrape[k].listing)
        BY <1>0, <1>1, <3>1 DEF Holds
      <4> QED BY <1>2, <2>2, <4>1 DEF RecordsInd, RowsFit, OneHolder
    <3>4. q = priceHistory[scrape[k].listing]
      BY <1>2, <3>1, <3>2, <3>3
    <3> QED BY <3>1, <3>4 DEF SeriesFit, HeldPrice
  <2> QED BY <2>1, <2>2
<1>6. ObservedFit'
  <2> SUFFICES ASSUME NEW n \in Listings, NEW d \in Days PROVE Agree(n, d)'
    BY DEF ObservedFit
  <2>1. Agree(n, d) /\ ObservedBy(n, d)' = ObservedBy(n, d) /\ LastSeenPrice(n, d)' = LastSeenPrice(n, d)
    BY <1>1 DEF SeriesFit, ObservedFit, ObservedBy, LastSeenPrice
  <2> QED BY <1>1, <1>3, <2>1, AgreeStays
<1> QED BY <1>4, <1>5, <1>6 DEF SeriesFit

\* The hidden row becomes visible as it is.
RowShown(l, rows) ==
    /\ l \in Listings /\ Len(rows) \in Nat /\ Len(rows) # 0 /\ DOMAIN rows = 1..Len(rows)
    /\ DOMAIN priceHistory'[l] = 1..Len(rows) /\ Len(priceHistory'[l]) = Len(rows)
    /\ \A i \in 1..Len(rows) : priceHistory'[l][i].day = rows[i].day /\ priceHistory'[l][i].price = rows[i].price
    /\ \A i \in 1..(Len(rows) - 1) : priceHistory'[l][i] = rows[i]
    /\ Committed(l) = 1..(Len(rows) - 1) /\ Committed(l)' = 1..Len(rows)
    /\ \A n \in Listings \ {l} : priceHistory'[n] = priceHistory[n]

LEMMA CommitRows ==
    ASSUME RecordsInd, NEW j \in Scrapers, CommitPoint(j), NEW l, NEW rows, l = scrape[j].listing, rows = priceHistory[l]
    PROVE  /\ RowShown(l, rows)
           /\ observed' = Append(observed, [listing |-> l, price |-> scrape[j].price, day |-> rows[Len(rows)].day])
<1> DEFINE r == [rows[Len(rows)] EXCEPT !.by = Nobody]
<1>1. RecordsType /\ scrape[j].pc = "commit" /\ l \in Listings
  BY RecordTables DEF RecordsInd, CommitPoint
<1>2. rows \in Seq(Row) /\ Len(rows) \in Nat /\ DOMAIN rows = 1..Len(rows)
  BY <1>1, RecordTables
<1>3. Len(rows) \in DOMAIN rows /\ Mine(j) = Len(rows) /\ Committed(l) = DOMAIN rows \ {Len(rows)}
  BY <1>1, MineIsLast
<1>4. rows[Len(rows)] \in Row
  BY <1>2, <1>3, ElementOfSeq
<1>5. /\ r \in Row /\ r.by = Nobody /\ r.day = rows[Len(rows)].day /\ r.price = rows[Len(rows)].price
  BY <1>4 DEF Row
<1>6. priceHistory' = [priceHistory EXCEPT ![l] = [rows EXCEPT ![Len(rows)] = r]]
  BY <1>3 DEF CommitPoint
<1>7. observed' = Append(observed, [listing |-> l, price |-> scrape[j].price, day |-> rows[Len(rows)].day])
  BY <1>3 DEF CommitPoint, Observes
<1> HIDE DEF r
<1>8. /\ [rows EXCEPT ![Len(rows)] = r] \in Seq(Row) /\ Len([rows EXCEPT ![Len(rows)] = r]) = Len(rows)
      /\ \A i \in 1..Len(rows) : [rows EXCEPT ![Len(rows)] = r][i] = IF i = Len(rows) THEN r ELSE rows[i]
  BY <1>2, <1>3, <1>5, ExceptSeq
<1>9. priceHistory'[l] = [rows EXCEPT ![Len(rows)] = r] /\ \A n \in Listings \ {l} : priceHistory'[n] = priceHistory[n]
  BY <1>1, <1>6 DEF RecordsType
<1>10. /\ DOMAIN priceHistory'[l] = 1..Len(rows) /\ Len(priceHistory'[l]) = Len(rows)
       /\ \A i \in 1..Len(rows) : priceHistory'[l][i] = IF i = Len(rows) THEN r ELSE rows[i]
  BY <1>8, <1>9, LenProperties
<1>11. Committed(l) = 1..(Len(rows) - 1) /\ Len(rows) # 0
  BY <1>2, <1>3
<1>12. \A i \in 1..(Len(rows) - 1) : i \in 1..Len(rows) /\ i # Len(rows)
  BY <1>2
<1>13. \A i \in 1..Len(rows) : priceHistory'[l][i].by = Nobody
  <2> SUFFICES ASSUME NEW i \in 1..Len(rows) PROVE priceHistory'[l][i].by = Nobody
    OBVIOUS
  <2>1. CASE i = Len(rows)
    BY <1>5, <1>10, <2>1
  <2>2. CASE i # Len(rows)
    <3>1. i \in Committed(l)
      BY <1>2, <1>3, <2>2
    <3> QED BY <1>10, <2>2, <3>1 DEF Committed
  <2> QED BY <2>1, <2>2
<1>14. Committed(l)' = 1..Len(rows)
  BY <1>10, <1>13 DEF Committed
<1>15. \A i \in 1..Len(rows) : priceHistory'[l][i].day = rows[i].day /\ priceHistory'[l][i].price = rows[i].price
  BY <1>5, <1>10
<1> QED BY <1>1, <1>2, <1>7, <1>9, <1>10, <1>11, <1>12, <1>14, <1>15 DEF RowShown

LEMMA CommitFit ==
    ASSUME RecordsInd, SeriesFit, NEW j \in Scrapers, CommitPoint(j)
    PROVE  SeriesFit'
<1>0. PICK l, rows : l = scrape[j].listing /\ rows = priceHistory[l]
  OBVIOUS
<1> DEFINE o == [listing |-> l, price |-> scrape[j].price, day |-> rows[Len(rows)].day]
<1>1. /\ RecordsType /\ scrape[j].pc = "commit" /\ scrape[j] \in ScrapeRecord /\ scrape' = [scrape EXCEPT ![j] = NoScrape]
      /\ observed \in Seq(Priced)
  BY RecordTables DEF RecordsInd, CommitPoint, Ends, RecordsType
<1>2. RowShown(l, rows) /\ observed' = Append(observed, o)
  BY <1>0, CommitRows
<1>3. /\ l \in Listings /\ Len(rows) \in Nat /\ Len(rows) # 0 /\ DOMAIN rows = 1..Len(rows)
      /\ DOMAIN priceHistory'[l] = 1..Len(rows)
      /\ \A i \in 1..Len(rows) : priceHistory'[l][i].day = rows[i].day /\ priceHistory'[l][i].price = rows[i].price
      /\ \A i \in 1..(Len(rows) - 1) : priceHistory'[l][i] = rows[i]
      /\ Committed(l) = 1..(Len(rows) - 1) /\ Committed(l)' = 1..Len(rows)
      /\ \A n \in Listings \ {l} : priceHistory'[n] = priceHistory[n]
  BY <1>2 DEF RowShown
<1>4. rows[Len(rows)] \in Row
  BY <1>0, <1>1, <1>3, RecordTables
<1>5. o \in Priced /\ o.listing = l /\ o.price = scrape[j].price /\ o.day = rows[Len(rows)].day /\ o.day \in Nat
  BY <1>0, <1>1, <1>3, <1>4, RecordsAssumption DEF ScrapeRecord, Priced, Row, Days
<1> HIDE DEF o
<1>6. RowsInOrder'
  <2> SUFFICES ASSUME NEW n \in Listings, NEW i \in DOMAIN priceHistory'[n], NEW k \in DOMAIN priceHistory'[n], i <= k
               PROVE  priceHistory'[n][i].day <= priceHistory'[n][k].day
    BY DEF RowsInOrder
  <2>1. CASE n # l
    BY <1>3, <2>1 DEF SeriesFit, RowsInOrder
  <2>2. CASE n = l
    <3>1. \A x, y \in 1..Len(rows) : x <= y => rows[x].day <= rows[y].day
      BY <1>0, <1>3 DEF SeriesFit, RowsInOrder
    <3>2. i \in 1..Len(rows) /\ k \in 1..Len(rows)
      BY <1>3, <2>2
    <3> QED BY <1>3, <2>2, <3>1, <3>2
  <2> QED BY <2>1, <2>2
<1>7. HeldPrice'
  <2> SUFFICES ASSUME NEW k \in Scrapers, scrape'[k].pc = "commit", NEW q, q = priceHistory'[scrape'[k].listing]
               PROVE  q[Len(q)].price = scrape'[k].price
    BY DEF HeldPrice
  <2>1. k # j /\ scrape'[k] = scrape[k]
    <3>1. NoScrape.pc # "commit" /\ scrape'[j] = NoScrape
      BY <1>1, RecordTables DEF NoScrape
    <3> QED BY <1>1, <3>1, RecordTables
  <2>2. scrape[k].listing \in Listings
    BY <1>1, <2>1, RecordTables
  <2>3. scrape[k].listing # l
    <3>1. Holds(j, l) /\ Holds(k, scrape[k].listing)
      BY <1>0, <1>1, <2>1 DEF Holds
    <3> QED BY <1>3, <2>1, <3>1 DEF RecordsInd, RowsFit, OneHolder
  <2>4. q = priceHistory[scrape[k].listing]
    BY <1>3, <2>1, <2>2, <2>3
  <2> QED BY <2>1, <2>4 DEF SeriesFit, HeldPrice
<1>8. ObservedFit'
  <2> SUFFICES ASSUME NEW n \in Listings, NEW d \in Days PROVE Agree(n, d)'
    BY DEF ObservedFit
  <2>1. Agree(n, d) /\ d \in Nat
    BY RecordsAssumption DEF SeriesFit, ObservedFit, Days
  <2>2. CASE ~(n = l /\ o.day <= d)
    <3>1. ObservedBy(n, d)' = ObservedBy(n, d) /\ (ObservedBy(n, d) # {} => LastSeenPrice(n, d)' = LastSeenPrice(n, d))
      <4>1. ~(o.listing = n /\ o.day <= d)
        BY <1>5, <2>2
      <4> QED BY <1>1, <1>2, <1>5, <4>1, ObservedGrows
    <3>2. CASE n # l
      <4>1. Committed(n)' = Committed(n) /\ \A i \in Committed(n) : priceHistory'[n][i] = priceHistory[n][i]
        BY <1>3, <3>2 DEF Committed
      <4> QED BY <1>1, <2>1, <3>1, <4>1, AgreeStays
    <3>3. CASE n = l /\ ~(o.day <= d)
      <4>1. RowsBy(l, d)' = {i \in 1..Len(rows) : rows[i].day <= d} /\ RowsBy(l, d) = {i \in 1..(Len(rows) - 1) : rows[i].day <= d}
        BY <1>0, <1>3 DEF RowsBy
      <4>2. RowsBy(l, d)' = RowsBy(l, d)
        <5>1. ~(rows[Len(rows)].day <= d) /\ 1..(Len(rows) - 1) \subseteq 1..Len(rows)
          BY <1>3, <1>5, <3>3
        <5>2. ASSUME NEW i \in 1..Len(rows), rows[i].day <= d PROVE i \in 1..(Len(rows) - 1)
          <6>1. i # Len(rows)
            BY <5>1, <5>2
          <6>2. Len(rows) \in Nat
            BY <1>3
          <6> QED BY <6>1, <6>2
        <5> QED BY <4>1, <5>1, <5>2
      <4>3. RowsBy(l, d) # {} => Max(RowsBy(l, d)) \in 1..(Len(rows) - 1)
        <5> DEFINE S == RowsBy(l, d)
        <5>1. S \subseteq 1..(Len(rows) - 1) /\ S \in SUBSET Int /\ Len(rows) \in Int /\ \A x \in S : x <= Len(rows)
          BY <1>3, <4>1
        <5> HIDE DEF S
        <5>2. S # {} => Max(S) \in S
          BY <5>1, GreatestOf
        <5> QED BY <5>1, <5>2 DEF S
      <4> QED BY <1>0, <1>3, <2>1, <3>1, <3>3, <4>2, <4>3 DEF Agree
    <3> QED BY <2>2, <3>2, <3>3
  <2>3. CASE n = l /\ o.day <= d
    <3>1. ObservedBy(n, d)' # {} /\ LastSeenPrice(n, d)' = o.price
      BY <1>1, <1>2, <1>5, <2>3, ObservedGrows
    <3>2. RowsBy(l, d)' = {i \in 1..Len(rows) : rows[i].day <= d}
      BY <1>3 DEF RowsBy
    <3>3. Len(rows) \in RowsBy(l, d)' /\ \A x \in RowsBy(l, d)' : x \in Int /\ x <= Len(rows)
      BY <1>3, <1>5, <2>3, <3>2
    <3>4. Max(RowsBy(l, d)') = Len(rows)
      <4> DEFINE S == RowsBy(l, d)'
      <4>1. S \in SUBSET Int /\ Len(rows) \in S /\ Len(rows) \in Int /\ \A x \in S : x <= Len(rows)
        BY <1>3, <3>3
      <4> HIDE DEF S
      <4>2. Max(S) \in S /\ \A x \in S : x <= Max(S)
        BY <4>1, GreatestOf
      <4>3. Max(S) = Len(rows)
        <5>1. Max(S) \in Int /\ Max(S) <= Len(rows) /\ Len(rows) <= Max(S)
          BY <4>1, <4>2
        <5> QED BY <4>1, <5>1
      <4> QED BY <4>3 DEF S
    <3>5. priceHistory'[n][Max(RowsBy(n, d)')].price = o.price
      <4>1. rows[Len(rows)].price = scrape[j].price
        BY <1>0, <1>1 DEF SeriesFit, HeldPrice
      <4>2. priceHistory'[l][Len(rows)].price = rows[Len(rows)].price
        BY <1>3
      <4> QED BY <1>5, <2>3, <3>4, <4>1, <4>2
    <3> QED BY <2>3, <3>1, <3>3, <3>5 DEF Agree
  <2> QED BY <2>2, <2>3
<1> QED BY <1>6, <1>7, <1>8 DEF SeriesFit

\* A transaction that is rolled back leaves the visible rows as they were.
LEMMA FailRows ==
    ASSUME RecordsInd, NEW j \in Scrapers, ScrapeFails(j), scrape[j].pc = "commit",
           NEW l, NEW rows, l = scrape[j].listing, rows = priceHistory[l]
    PROVE  /\ l \in Listings /\ Len(rows) \in Nat /\ DOMAIN rows = 1..Len(rows)
           /\ DOMAIN priceHistory'[l] = 1..(Len(rows) - 1) /\ \A i \in 1..(Len(rows) - 1) : priceHistory'[l][i] = rows[i]
           /\ \A n \in Listings \ {l} : priceHistory'[n] = priceHistory[n]
           /\ SeenAsBefore
<1>1. RecordsType /\ l \in Listings
  BY RecordTables DEF RecordsInd
<1>2. rows \in Seq(Row) /\ Len(rows) \in Nat /\ DOMAIN rows = 1..Len(rows)
  BY <1>1, RecordTables
<1>3. Len(rows) \in DOMAIN rows /\ Mine(j) = Len(rows) /\ Committed(l) = DOMAIN rows \ {Len(rows)}
  BY MineIsLast
<1> DEFINE rest == SubSeq(rows, 1, Len(rows) - 1)
<1>4. rest \in Seq(Row) /\ Len(rest) = Len(rows) - 1 /\ \A i \in 1..(Len(rows) - 1) : rest[i] = rows[i]
  <2>1. \A i \in 1..(Len(rows) - 1) : rows[i] \in Row
    BY <1>1, <1>2, RecordTables
  <2>2. Len(rows) - 1 \in Int /\ Len(rows) - 1 >= 0 /\ 1 \in Int
    BY <1>2, <1>3
  <2>3. /\ rest \in Seq(Row)
        /\ Len(rest) = IF 1 <= Len(rows) - 1 THEN (Len(rows) - 1) - 1 + 1 ELSE 0
        /\ \A i \in 1..((Len(rows) - 1) - 1 + 1) : rest[i] = rows[1 + i - 1]
    BY <2>1, <2>2, SubSeqProperties
  <2> HIDE DEF rest
  <2>4. /\ (IF 1 <= Len(rows) - 1 THEN (Len(rows) - 1) - 1 + 1 ELSE 0) = Len(rows) - 1
        /\ (Len(rows) - 1) - 1 + 1 = Len(rows) - 1
    BY <1>2, <2>2
  <2>5. \A i \in 1..(Len(rows) - 1) : 1 + i - 1 = i
    BY <1>2
  <2> QED BY <2>3, <2>4, <2>5
<1>5. RemoveAt(rows, Len(rows)) = rest
  <2>1. SubSeq(rows, Len(rows) + 1, Len(rows)) = <<>>
    BY <1>2, SubSeqEmpty
  <2> HIDE DEF rest
  <2>2. rest \o <<>> = rest
    BY <1>4, ConcatEmptySeq
  <2> QED BY <2>1, <2>2 DEF RemoveAt, rest
<1> HIDE DEF rest
<1>6. priceHistory' = [priceHistory EXCEPT ![l] = rest]
  BY <1>3, <1>5 DEF ScrapeFails
<1>7. priceHistory'[l] = rest /\ \A n \in Listings \ {l} : priceHistory'[n] = priceHistory[n]
  BY <1>1, <1>6 DEF RecordsType
<1>8. DOMAIN priceHistory'[l] = 1..(Len(rows) - 1) /\ \A i \in 1..(Len(rows) - 1) : priceHistory'[l][i] = rows[i]
  BY <1>4, <1>7, LenProperties
<1>9. Committed(l) = 1..(Len(rows) - 1)
  BY <1>2, <1>3
<1>10. Committed(l)' = 1..(Len(rows) - 1)
  BY <1>8, <1>9 DEF Committed
<1>11. SeenAsBefore
  <2> SUFFICES ASSUME NEW n \in Listings
               PROVE  Committed(n)' = Committed(n) /\ \A i \in Committed(n) : priceHistory'[n][i] = priceHistory[n][i]
    BY DEF SeenAsBefore
  <2>1. CASE n # l
    BY <1>7, <2>1 DEF Committed
  <2>2. CASE n = l
    BY <1>8, <1>9, <1>10, <2>2
  <2> QED BY <2>1, <2>2
<1> QED BY <1>1, <1>2, <1>7, <1>8, <1>11

LEMMA FailFit ==
    ASSUME RecordsInd, SeriesFit, NEW j \in Scrapers, ScrapeFails(j)
    PROVE  SeriesFit'
<1>1. RecordsType /\ NoScrape.pc # "commit" /\ observed' = observed /\ scrape'[j] = NoScrape /\ \A k \in Scrapers \ {j} : scrape'[k] = scrape[k]
  BY RecordTables DEF RecordsInd, NoScrape, ScrapeFails, Ends
<1>2. CASE scrape[j].pc # "commit"
  <2>1. UNCHANGED <<priceHistory, observed>> /\ \A k \in Scrapers : scrape'[k].pc = "commit" => scrape'[k] = scrape[k]
    BY <1>1, <1>2 DEF ScrapeFails
  <2> QED BY <2>1, QuietFit
<1>3. CASE scrape[j].pc = "commit"
  <2>0. PICK l, rows : l = scrape[j].listing /\ rows = priceHistory[l]
    OBVIOUS
  <2>1. /\ l \in Listings /\ Len(rows) \in Nat /\ DOMAIN rows = 1..Len(rows)
        /\ DOMAIN priceHistory'[l] = 1..(Len(rows) - 1)
    BY <1>3, <2>0, FailRows
  <2>2. \A i \in 1..(Len(rows) - 1) : priceHistory'[l][i] = rows[i]
    BY <1>3, <2>0, FailRows
  <2>3. \A n \in Listings \ {l} : priceHistory'[n] = priceHistory[n]
    BY <1>3, <2>0, FailRows
  <2>4. SeenAsBefore
    BY <1>3, <2>0, FailRows
  <2>5. RowsInOrder'
    <3> SUFFICES ASSUME NEW n \in Listings, NEW i \in DOMAIN priceHistory'[n], NEW k \in DOMAIN priceHistory'[n], i <= k
                 PROVE  priceHistory'[n][i].day <= priceHistory'[n][k].day
      BY DEF RowsInOrder
    <3>1. CASE n # l
      BY <2>3, <3>1 DEF SeriesFit, RowsInOrder
    <3>2. CASE n = l
      <4>1. i \in 1..(Len(rows) - 1) /\ k \in 1..(Len(rows) - 1) /\ 1..(Len(rows) - 1) \subseteq DOMAIN rows
        BY <2>1, <3>2
      <4>2. rows[i].day <= rows[k].day
        BY <2>0, <2>1, <4>1 DEF SeriesFit, RowsInOrder
      <4> QED BY <2>2, <3>2, <4>1, <4>2
    <3> QED BY <3>1, <3>2
  <2>6. HeldPrice'
    <3> SUFFICES ASSUME NEW k \in Scrapers, scrape'[k].pc = "commit", NEW q, q = priceHistory'[scrape'[k].listing]
                 PROVE  q[Len(q)].price = scrape'[k].price
      BY DEF HeldPrice
    <3>1. k # j /\ scrape'[k] = scrape[k]
      BY <1>1
    <3>2. scrape[k].listing \in Listings
      BY <1>1, <3>1, RecordTables
    <3>3. scrape[k].listing # l
      <4>1. Holds(j, l) /\ Holds(k, scrape[k].listing)
        BY <1>3, <2>0, <3>1 DEF Holds
      <4> QED BY <2>1, <3>1, <4>1 DEF RecordsInd, RowsFit, OneHolder
    <3>4. q = priceHistory[scrape[k].listing]
      BY <2>3, <3>1, <3>2, <3>3
    <3> QED BY <3>1, <3>4 DEF SeriesFit, HeldPrice
  <2>7. ObservedFit'
    <3> SUFFICES ASSUME NEW n \in Listings, NEW d \in Days PROVE Agree(n, d)'
      BY DEF ObservedFit
    <3>1. Agree(n, d) /\ ObservedBy(n, d)' = ObservedBy(n, d) /\ LastSeenPrice(n, d)' = LastSeenPrice(n, d)
      BY <1>1 DEF SeriesFit, ObservedFit, ObservedBy, LastSeenPrice
    <3> QED BY <1>1, <2>4, <3>1, AgreeStays DEF SeenAsBefore
  <2> QED BY <2>5, <2>6, <2>7 DEF SeriesFit
<1> QED BY <1>2, <1>3

LEMMA StepFits == RecordsInd /\ SeriesFit /\ [RecordsNext]_recordVars => SeriesFit'
<1> SUFFICES ASSUME RecordsInd, SeriesFit, [RecordsNext]_recordVars PROVE SeriesFit'
  OBVIOUS
<1>0. /\ scrape \in [Scrapers -> {NoScrape} \cup ScrapeRecord] /\ NoScrape.pc = "idle"
  BY RecordTables DEF RecordsInd
<1>1. ASSUME NEW j \in Scrapers, ScrapeStep(j) PROVE SeriesFit'
  <2>1. CASE ScrapeBegins(j) \/ UpsertListing(j) \/ Lock(j) \/ ReadLast(j)
    <3>1. UNCHANGED <<priceHistory, observed>>
      BY <2>1 DEF ScrapeBegins, UpsertListing, Lock, ReadLast
    <3>2. scrape'[j].pc # "commit" /\ \A k \in Scrapers \ {j} : scrape'[k] = scrape[k]
      <4>1. CASE ScrapeBegins(j)
        BY <1>0, <4>1 DEF ScrapeBegins
      <4>2. CASE UpsertListing(j)
        BY <1>0, <4>2 DEF UpsertListing, Goes, ScrapeRecord
      <4>3. CASE Lock(j)
        BY <1>0, <4>3 DEF Lock, Goes, ScrapeRecord
      <4>4. CASE ReadLast(j)
        BY <1>0, <4>4 DEF ReadLast, ScrapeRecord
      <4> QED BY <2>1, <4>1, <4>2, <4>3, <4>4
    <3> QED BY <3>1, <3>2, QuietFit
  <2> QED BY <1>1, <2>1, SameFit, InsertFit, CommitFit, FailFit DEF ScrapeStep
<1>2. CASE UNCHANGED <<priceHistory, observed, scrape>>
  BY <1>2, QuietFit
<1>3. ASSUME NEW l \in Listings, RejectListing(l) \/ SoldOut(l) PROVE SeriesFit'
  BY <1>2, <1>3 DEF RejectListing, SoldOut
<1>4. ASSUME NEW r \in Rollups, RollupRead(r) \/ RollupWrite(r) PROVE SeriesFit'
  BY <1>2, <1>4 DEF RollupRead, RollupWrite
<1>5. CASE NextDay \/ UNCHANGED recordVars
  BY <1>2, <1>5 DEF NextDay, recordVars
<1> QED BY <1>1, <1>3, <1>4, <1>5 DEF RecordsNext

\* Rows are in the order of their days, and on each day the newest has the price
\* last observed, which is why storing only changes loses nothing.
THEOREM ChangesAreObserved == RecordsSpec => []SeriesFit
<1>1. RecordsInit => RecordsInd /\ SeriesFit
  BY StartRecords, StartFits
<1>2. RecordsInd /\ SeriesFit /\ [RecordsNext]_recordVars => (RecordsInd /\ SeriesFit)'
  BY StepKeepsRecords, StepFits
<1> QED BY <1>1, <1>2, PTL DEF RecordsSpec

\* How many of the visible rows of a listing are of a day or before.
Newest(l, d) == IF RowsBy(l, d) = {} THEN 0 ELSE Max(RowsBy(l, d))

\* Rows are in order, so these are the first ones, and the price of the last of
\* them is the one last observed.
LEMMA NewestIs ==
    ASSUME RecordsInd, SeriesFit, NEW l \in Listings, NEW d \in Days, NEW n \in Nat, n <= Len(priceHistory[l]), Committed(l) = 1..n
    PROVE  /\ Newest(l, d) \in 0..n
           /\ \A i \in 1..n : priceHistory[l][i].day <= d <=> i <= Newest(l, d)
           /\ Newest(l, d) > 0 <=> ObservedBy(l, d) # {}
           /\ Newest(l, d) > 0 => LastSeenPrice(l, d) = priceHistory[l][Newest(l, d)].price
<1>1. PICK rows, S : rows = priceHistory[l] /\ S = RowsBy(l, d)
  OBVIOUS
<1>2. /\ Len(rows) \in Nat /\ DOMAIN rows = 1..Len(rows) /\ n <= Len(rows) /\ d \in Nat
      /\ \A i \in 1..Len(rows) : rows[i].day \in Nat
  BY <1>1, RecordTables, RecordsAssumption DEF RecordsInd, Days
<1>3. S \subseteq 1..n /\ \A i \in 1..n : i \in S <=> rows[i].day <= d
  BY <1>1 DEF RowsBy
<1>4. Agree(l, d)
  BY DEF SeriesFit, ObservedFit
<1>5. CASE S = {}
  <2>1. Newest(l, d) = 0 /\ ObservedBy(l, d) = {}
    BY <1>1, <1>4, <1>5 DEF Newest, Agree
  <2>2. \A i \in 1..n : ~(priceHistory[l][i].day <= d) /\ ~(i <= 0)
    BY <1>1, <1>3, <1>5
  <2> QED BY <2>1, <2>2
<1>6. CASE S # {}
  <2>1. PICK m : m = Max(S)
    OBVIOUS
  <2>2. m \in S /\ \A x \in S : x <= m
    <3>1. S \in SUBSET Int /\ n \in Int /\ \A x \in S : x <= n
      BY <1>3
    <3> QED BY <1>6, <2>1, <3>1, GreatestOf
  <2>3. m \in 1..n /\ rows[m].day <= d
    BY <1>3, <2>2
  <2>4. \A i \in 1..n : rows[i].day <= d <=> i <= m
    <3> SUFFICES ASSUME NEW i \in 1..n PROVE rows[i].day <= d <=> i <= m
      OBVIOUS
    <3>1. rows[i].day <= d => i <= m
      BY <1>3, <2>2
    <3>2. ASSUME i <= m PROVE rows[i].day <= d
      <4>1. i \in DOMAIN rows /\ m \in DOMAIN rows
        BY <1>2, <2>3
      <4>2. rows[i].day <= rows[m].day
        BY <1>1, <3>2, <4>1 DEF SeriesFit, RowsInOrder
      <4>3. rows[i].day \in Nat /\ rows[m].day \in Nat
        BY <1>2, <4>1
      <4> QED BY <1>2, <2>3, <4>2, <4>3
    <3> QED BY <3>1, <3>2
  <2>5. Newest(l, d) = m /\ ObservedBy(l, d) # {} /\ LastSeenPrice(l, d) = rows[m].price
    BY <1>1, <1>4, <1>6, <2>1 DEF Newest, Agree
  <2> QED BY <1>1, <2>3, <2>4, <2>5
<1> QED BY <1>5, <1>6

\* Behind the price carried in, the positions are shifted by off, not the prices.
Shifted(h, k, c, b, off) ==
    /\ off \in Nat /\ b \in Seq(Row) /\ Len(b) \in Nat /\ Len(b) + off = Len(h) /\ DOMAIN b = 1..Len(b)
    /\ \A i \in 1..Len(b) : /\ i + off \in 1..Len(h) /\ b[i].price = h[i + off].price
                            /\ k = 0 \/ i > 1 => b[i] = h[i + off]
    /\ k # 0 => 1 \in 1..Len(b) /\ b[1] = c[1]

LEMMA BucketIs ==
    ASSUME NEW h \in Seq(Row), NEW k \in 0..Len(h), NEW c \in Seq(Row), Len(c) = (IF k = 0 THEN 0 ELSE 1),
           k # 0 => c[1].price = h[k].price,
           NEW b, b = c \o SubSeq(h, k + 1, Len(h)), NEW off, off = IF k = 0 THEN 0 ELSE k - 1
    PROVE  Shifted(h, k, c, b, off)
<1> DEFINE t == SubSeq(h, k + 1, Len(h))
<1>1. Len(h) \in Nat /\ k \in Nat /\ k <= Len(h)
  BY LenProperties
<1>2. t \in Seq(Row) /\ Len(t) = Len(h) - k /\ \A i \in 1..(Len(h) - k) : t[i] = h[i + k]
  <2>1. \A i \in (k + 1)..Len(h) : h[i] \in Row
    BY <1>1, ElementOfSeq
  <2>2. /\ t \in Seq(Row) /\ Len(t) = IF k + 1 <= Len(h) THEN Len(h) - (k + 1) + 1 ELSE 0
        /\ \A i \in 1..(Len(h) - (k + 1) + 1) : t[i] = h[(k + 1) + i - 1]
    BY <1>1, <2>1, SubSeqProperties
  <2> HIDE DEF t
  <2>3. /\ (IF k + 1 <= Len(h) THEN Len(h) - (k + 1) + 1 ELSE 0) = Len(h) - k
        /\ Len(h) - (k + 1) + 1 = Len(h) - k
        /\ \A i \in 1..(Len(h) - k) : (k + 1) + i - 1 = i + k
    BY <1>1
  <2> QED BY <2>2, <2>3
<1> HIDE DEF t
<1>3. b = c \o t
  BY DEF t
<1>4. /\ b \in Seq(Row) /\ Len(b) = Len(c) + Len(t)
      /\ \A i \in 1..(Len(c) + Len(t)) : b[i] = IF i <= Len(c) THEN c[i] ELSE t[i - Len(c)]
  <2>1. /\ c \o t \in Seq(Row) /\ Len(c \o t) = Len(c) + Len(t)
        /\ \A i \in 1..(Len(c) + Len(t)) : (c \o t)[i] = IF i <= Len(c) THEN c[i] ELSE t[i - Len(c)]
    BY <1>2, ConcatProperties
  <2> QED BY <1>3, <2>1
<1>5. CASE k = 0
  <2>1. Len(c) = 0 /\ off = 0 /\ Len(b) = Len(h)
    BY <1>1, <1>2, <1>4, <1>5
  <2>2. ASSUME NEW i \in 1..Len(b) PROVE i + off \in 1..Len(h) /\ b[i] = h[i + off]
    <3>1. i \in 1..(Len(h) - k) /\ ~(i <= 0) /\ i - 0 = i /\ i + k = i /\ i + off = i
      BY <1>1, <1>5, <2>1
    <3>2. b[i] = t[i]
      BY <1>1, <1>2, <1>4, <1>5, <2>1, <3>1
    <3> QED BY <1>2, <2>1, <3>1, <3>2
  <2> QED BY <1>1, <1>4, <1>5, <2>1, <2>2, LenProperties DEF Shifted
<1>6. CASE k # 0
  <2>0. PICK m, lb : m = Len(h) /\ lb = Len(b)
    OBVIOUS
  <2>1. Len(c) = 1 /\ off = k - 1 /\ off \in Nat /\ Len(b) = Len(h) - k + 1 /\ Len(b) \in Nat /\ Len(b) >= 1
    <3>1. Len(c) = 1 /\ off = k - 1
      BY <1>6
    <3>2. lb = 1 + (m - k) /\ m \in Nat /\ k \in Nat /\ k <= m /\ k # 0
      BY <1>1, <1>2, <1>4, <1>6, <2>0, <3>1
    <3>3. lb = m - k + 1 /\ lb \in Nat /\ lb >= 1 /\ k - 1 \in Nat
      BY <3>2
    <3> QED BY <2>0, <3>1, <3>3
  <2>2. 1 \in 1..Len(b) /\ b[1] = c[1] /\ 1 + off = k /\ k \in 1..Len(h)
    <3>1. 1 \in 1..Len(b) /\ 1 + off = k /\ k \in 1..Len(h)
      BY <1>1, <1>6, <2>1
    <3>2. 1 \in 1..(Len(c) + Len(t)) /\ 1 <= Len(c)
      BY <1>4, <2>1, <3>1
    <3> QED BY <1>4, <3>1, <3>2
  <2>3. ASSUME NEW i \in 1..Len(b), i > 1 PROVE i + off \in 1..Len(h) /\ b[i] = h[i + off]
    <3>1. i - 1 \in 1..(Len(h) - k) /\ ~(i <= 1) /\ (i - 1) + k = i + off
      BY <1>1, <2>1, <2>3
    <3>2. b[i] = t[i - 1]
      BY <1>1, <1>2, <1>4, <2>1, <3>1
    <3>3. i + off \in 1..Len(h)
      BY <1>1, <2>1, <2>3
    <3> QED BY <1>2, <3>1, <3>2, <3>3
  <2>4. ASSUME NEW i \in 1..Len(b) PROVE i + off \in 1..Len(h) /\ b[i].price = h[i + off].price
    <3>1. CASE i > 1
      BY <2>3, <3>1
    <3>2. CASE ~(i > 1)
      <4>1. i = 1
        BY <2>1, <3>2
      <4> QED BY <1>6, <2>2, <4>1
    <3> QED BY <3>1, <3>2
  <2>5. Len(b) + off = Len(h)
    <3>1. m \in Nat /\ k \in Nat /\ lb = m - k + 1 /\ off = k - 1
      BY <1>1, <2>0, <2>1
    <3>2. (m - k + 1) + (k - 1) = m
      BY <3>1
    <3> QED BY <2>0, <3>1, <3>2
  <2> QED BY <1>4, <1>6, <2>1, <2>2, <2>3, <2>4, <2>5, LenProperties DEF Shifted
<1> QED BY <1>5, <1>6

\* What is carried into a window that opens after k rows of a listing.
CarriedIn(c, l, k, from) ==
    /\ c \in Seq(Row) /\ Len(c) = (IF k = 0 THEN 0 ELSE 1)
    /\ k # 0 => c[1].price = History(l)[k].price /\ c[1].day <= from

CutAt(l, k, from) ==
    /\ k \in 0..Len(History(l))
    /\ \A i \in DOMAIN History(l) : IF i <= k THEN History(l)[i].day <= from ELSE History(l)[i].day >= from

\* The cursor of each day, by the number of rows cut off, and what is behind it.
Behind(b, l, off, from) ==
    /\ Len(b) \in Nat /\ DOMAIN b = 1..Len(b) /\ \A i \in 1..Len(b) : b[i].day \in Nat
    /\ \A d \in from..day : /\ Newest(l, d) - off \in 0..Len(b)
                            /\ \A i \in 1..Len(b) : b[i].day <= d <=> i <= Newest(l, d) - off
                            /\ Newest(l, d) - off > 0 <=> ObservedBy(l, d) # {}
                            /\ Newest(l, d) - off > 0 => b[Newest(l, d) - off].price = LastSeenPrice(l, d)

\* A bucket has, on each day of its window, the price last observed behind the
\* cursor of that day, and nothing if the listing was not seen yet.
LEMMA BucketDays ==
    ASSUME RecordsInd, SeriesFit, NEW from \in 0..day, NEW l \in Listings, NEW k, CutAt(l, k, from),
           NEW c, CarriedIn(c, l, k, from), NEW b, b = c \o Within(l, k), NEW off, off = IF k = 0 THEN 0 ELSE k - 1
    PROVE  Behind(b, l, off, from)
<1>1. PICK n \in Nat : n <= Len(priceHistory[l]) /\ Committed(l) = 1..n
  BY SeenFirst
<1>2. PICK h, rows : h = History(l) /\ rows = priceHistory[l]
  OBVIOUS
<1>3. rows \in Seq(Row) /\ h \in Seq(Row) /\ Len(h) = n /\ \A i \in 1..n : h[i] = rows[i]
  BY <1>1, <1>2, RecordTables, HistoryIs DEF RecordsInd
<1>4. DOMAIN h = 1..n /\ k \in 0..n /\ \A i \in 1..n : IF i <= k THEN h[i].day <= from ELSE h[i].day >= from
  BY <1>2, <1>3, LenProperties DEF CutAt
<1>5. c \in Seq(Row) /\ Len(c) = (IF k = 0 THEN 0 ELSE 1) /\ (k # 0 => c[1].price = h[k].price /\ c[1].day <= from)
  BY <1>2 DEF CarriedIn
<1>6. b = c \o SubSeq(h, k + 1, Len(h))
  BY <1>2 DEF Within
<1>7. /\ off \in Nat /\ b \in Seq(Row) /\ Len(b) \in Nat /\ Len(b) + off = n /\ DOMAIN b = 1..Len(b)
      /\ \A i \in 1..Len(b) : /\ i + off \in 1..n /\ b[i].price = h[i + off].price
                              /\ k = 0 \/ i > 1 => b[i] = h[i + off]
      /\ k # 0 => 1 \in 1..Len(b) /\ b[1] = c[1]
  <2>1. k \in 0..Len(h)
    BY <1>3, <1>4
  <2>2. Shifted(h, k, c, b, off)
    BY <1>3, <1>5, <1>6, <2>1, BucketIs
  <2> QED BY <1>3, <2>2 DEF Shifted
<1>8. \A i \in 1..Len(b) : b[i].day \in Nat
  <2>1. \A i \in 1..Len(b) : b[i] \in Row
    BY <1>7, ElementOfSeq
  <2> QED BY <2>1, RecordsAssumption DEF Row, Days
<1>9. ASSUME NEW d \in from..day
      PROVE  /\ Newest(l, d) - off \in 0..Len(b)
             /\ \A i \in 1..Len(b) : b[i].day <= d <=> i <= Newest(l, d) - off
             /\ Newest(l, d) - off > 0 <=> ObservedBy(l, d) # {}
             /\ Newest(l, d) - off > 0 => b[Newest(l, d) - off].price = LastSeenPrice(l, d)
  <2>1. PICK m, lb : m = Newest(l, d) /\ lb = Len(b)
    OBVIOUS
  <2>2. d \in Days /\ d \in Nat /\ from \in Nat /\ from <= d
    BY RecordTables, RecordsAssumption DEF RecordsInd, Days
  <2>3. /\ m \in 0..n /\ \A i \in 1..n : h[i].day <= d <=> i <= m
        /\ m > 0 <=> ObservedBy(l, d) # {}
        /\ m > 0 => LastSeenPrice(l, d) = h[m].price
    <3>1. /\ m \in 0..n /\ \A i \in 1..n : rows[i].day <= d <=> i <= m
          /\ m > 0 <=> ObservedBy(l, d) # {}
          /\ m > 0 => LastSeenPrice(l, d) = rows[m].price
      BY <1>1, <1>2, <2>1, <2>2, NewestIs
    <3>2. m > 0 => m \in 1..n
      BY <3>1
    <3> QED BY <1>3, <3>1, <3>2
  <2>4. k # 0 => k <= m
    <3> SUFFICES ASSUME k # 0 PROVE k <= m
      OBVIOUS
    <3>1. k \in 1..n /\ h[k].day <= from
      BY <1>4
    <3>2. h[k].day \in Nat
      <4>1. h[k] \in Row
        BY <1>3, <3>1, ElementOfSeq
      <4> QED BY <4>1, RecordsAssumption DEF Row, Days
    <3>3. h[k].day <= d
      BY <2>2, <3>1, <3>2
    <3> QED BY <2>3, <3>1, <3>3
  <2>5. lb \in Nat /\ lb + off = n /\ off \in Nat /\ n \in Nat /\ m \in Nat /\ m <= n /\ k \in Nat
    BY <1>1, <1>4, <1>7, <2>1, <2>3
  <2>6. m - off \in 0..lb /\ (m - off > 0 <=> m > 0) /\ (k # 0 => m - off >= 1)
    <3>1. CASE k = 0
      <4>1. off = 0
        BY <3>1
      <4> QED BY <2>5, <3>1, <4>1
    <3>2. CASE k # 0
      <4>1. off = k - 1 /\ k <= m
        BY <2>4, <3>2
      <4> QED BY <2>5, <3>2, <4>1
    <3> QED BY <3>1, <3>2
  <2>7. ASSUME NEW i \in 1..Len(b) PROVE b[i].day <= d <=> i <= m - off
    <3>1. CASE k = 0 \/ i > 1
      <4>1. b[i] = h[i + off] /\ i + off \in 1..n
        BY <1>7, <3>1
      <4>2. b[i].day <= d <=> i + off <= m
        BY <2>3, <4>1
      <4>3. i + off <= m <=> i <= m - off
        BY <2>1, <2>5
      <4> QED BY <4>2, <4>3
    <3>2. CASE ~(k = 0 \/ i > 1)
      <4>1. i = 1 /\ b[i] = c[1] /\ b[i].day \in Nat /\ b[i].day <= from
        BY <1>5, <1>7, <1>8, <3>2
      <4>2. b[i].day <= d
        BY <2>2, <4>1
      <4> QED BY <2>6, <3>2, <4>1, <4>2
    <3> QED BY <3>1, <3>2
  <2>8. ASSUME m - off > 0 PROVE b[m - off].price = LastSeenPrice(l, d)
    <3>1. m - off \in 1..Len(b) /\ (m - off) + off = m /\ m > 0
      BY <2>1, <2>5, <2>6, <2>8
    <3>2. b[m - off].price = h[(m - off) + off].price
      BY <1>7, <3>1
    <3> QED BY <2>3, <3>1, <3>2
  <2> QED BY <2>1, <2>3, <2>6, <2>7, <2>8
<1> QED BY <1>7, <1>8, <1>9 DEF Behind

Buckets(c, cut) == [l \in Accepted |-> c[l] \o Within(l, cut[l])]

\* A series over buckets that carry what was known when the window opened.
LEMMA SeriesIs ==
    ASSUME RecordsInd, SeriesFit, NEW from \in 0..day, NEW cut,
           \A l \in Accepted : CutAt(l, cut[l], from),
           NEW c, \A l \in Accepted : CarriedIn(c[l], l, cut[l], from)
    PROVE  Series(Buckets(c, cut), from) = AsObserved(from)
<1>0. PICK b : b = Buckets(c, cut)
  OBVIOUS
<1>1. PICK A, D, off, to : /\ A = Accepted /\ to = day
                           /\ D = UNION {{b[l][i].day : i \in DOMAIN b[l]} : l \in DOMAIN b}
                           /\ off = [l \in A |-> IF cut[l] = 0 THEN 0 ELSE cut[l] - 1]
  OBVIOUS
<1>2. A \subseteq Listings /\ to \in Nat /\ from \in Nat /\ from <= to /\ DOMAIN b = A
  <2>1. day \in Nat
    BY RecordTables DEF RecordsInd
  <2> QED BY <1>0, <1>1, <2>1 DEF Accepted, Buckets
<1>3. ASSUME NEW l \in A
      PROVE  /\ Len(b[l]) \in Nat /\ DOMAIN b[l] = 1..Len(b[l]) /\ \A i \in 1..Len(b[l]) : b[l][i].day \in Nat
             /\ \A d \in from..to : /\ Newest(l, d) - off[l] \in 0..Len(b[l])
                                    /\ \A i \in 1..Len(b[l]) : b[l][i].day <= d <=> i <= Newest(l, d) - off[l]
                                    /\ Newest(l, d) - off[l] > 0 <=> ObservedBy(l, d) # {}
                                    /\ Newest(l, d) - off[l] > 0 => b[l][Newest(l, d) - off[l]].price = LastSeenPrice(l, d)
  <2>1. PICK k, cl, bl, o : k = cut[l] /\ cl = c[l] /\ bl = b[l] /\ o = off[l]
    OBVIOUS
  <2>2. l \in Listings /\ CutAt(l, k, from) /\ CarriedIn(cl, l, k, from) /\ bl = cl \o Within(l, k) /\ o = IF k = 0 THEN 0 ELSE k - 1
    BY <1>0, <1>1, <1>2, <2>1 DEF Buckets
  <2>3. Behind(bl, l, o, from)
    BY <2>2, BucketDays
  <2> QED BY <1>1, <2>1, <2>3 DEF Behind
<1>4. PICK p : p = [d \in from..to |-> [l \in A |-> Newest(l, d) - off[l]]]
  OBVIOUS
<1>5. /\ \A d \in from..to : p[d] = [l \in A |-> Newest(l, d) - off[l]]
      /\ \A l \in A : /\ Len(b[l]) \in Nat /\ DOMAIN b[l] = 1..Len(b[l])
                      /\ \A i \in 1..Len(b[l]) : b[l][i].day \in Nat
      /\ \A d \in from..to, l \in A : /\ p[d][l] \in 0..Len(b[l])
                                      /\ \A i \in 1..Len(b[l]) : b[l][i].day <= d <=> i <= p[d][l]
  BY <1>3, <1>4
<1>6. \A d \in from..to, l \in A : /\ p[d][l] > 0 <=> ObservedBy(l, d) # {}
                                   /\ p[d][l] > 0 => b[l][p[d][l]].price = LastSeenPrice(l, d)
  BY <1>3, <1>4
<1>7. D \subseteq Nat /\ \A l \in A : \A i \in 1..Len(b[l]) : b[l][i].day \in D
  <2>1. \A l \in A : DOMAIN b[l] = 1..Len(b[l]) /\ \A i \in 1..Len(b[l]) : b[l][i].day \in Nat
    BY <1>5
  <2>2. D = UNION {{b[l][i].day : i \in 1..Len(b[l])} : l \in A}
    BY <1>1, <1>2, <2>1
  <2> QED BY <2>1, <2>2
<1>8. ASSUME NEW e \in from..to, \A x \in D : ~(x <= e) PROVE KnownOn(e) = {}
  <2> SUFFICES ASSUME NEW l \in A, ObservedBy(l, e) # {} PROVE FALSE
    BY <1>1 DEF KnownOn
  <2>1. p[e][l] > 0
    BY <1>6
  <2>2. p[e][l] \in 1..Len(b[l]) /\ b[l][p[e][l]].day <= e
    <3>1. PICK q, n : q = p[e][l] /\ n = Len(b[l])
      OBVIOUS
    <3>2. q \in 0..n /\ n \in Nat /\ q > 0 /\ \A i \in 1..n : b[l][i].day <= e <=> i <= q
      BY <1>5, <2>1, <3>1
    <3>3. q \in 1..n
      BY <3>2
    <3>4. b[l][q].day <= e
      BY <3>2, <3>3
    <3> QED BY <3>1, <3>3, <3>4
  <2> QED BY <1>7, <1>8, <2>2
<1> DEFINE Known(S) == [d \in S |-> Point([l \in KnownOn(d) |-> LastSeenPrice(l, d)])]
<1>9. AsObserved(from) = Known({e \in from..to : KnownOn(e) # {}})
  BY <1>1 DEF AsObserved
<1> HIDE DEF Known
<1>10. CASE D = {}
  <2>1. Series(b, from) = <<>>
    BY <1>1, <1>10 DEF Series
  <2>2. {e \in from..to : KnownOn(e) # {}} = {}
    BY <1>8, <1>10
  <2>3. Known({}) = <<>>
    BY DEF Known
  <2> QED BY <1>0, <1>9, <2>1, <2>2, <2>3
<1>11. CASE D # {}
  <2>1. PICK f : f = Later(Min(D), from)
    OBVIOUS
  <2>2. Min(D) \in D /\ \A x \in D : Min(D) <= x
    BY <1>7, <1>11, LeastIn
  <2>3. f \in Nat /\ from <= f /\ (f = from \/ f = Min(D))
    <3>1. Min(D) \in Nat
      BY <1>7, <2>2
    <3> QED BY <1>2, <2>1, <3>1 DEF Later
  <2>4. Series(b, from) = ForwardFill(b, f, to)
    BY <1>1, <1>11, <2>1 DEF Series
  <2>5. PICK q : q = [d \in f..to |-> p[d]]
    OBVIOUS
  <2>6. \A d \in f..to : d \in from..to /\ q[d] = p[d]
    BY <1>2, <2>3, <2>5
  <2>7. Passed(b, f, to, q)
    <3>1. q \in [f..to -> [DOMAIN b -> Nat]]
      <4>1. ASSUME NEW d \in f..to PROVE p[d] \in [A -> Nat]
        <5>1. p[d] = [l \in A |-> Newest(l, d) - off[l]]
          BY <1>5, <2>6
        <5>2. ASSUME NEW l \in A PROVE Newest(l, d) - off[l] \in Nat
          <6>1. p[d][l] \in 0..Len(b[l]) /\ p[d][l] = Newest(l, d) - off[l]
            BY <1>5, <2>6, <5>1
          <6> QED BY <6>1
        <5> QED BY <5>1, <5>2
      <4> QED BY <1>2, <2>5, <4>1
    <3>2. \A l \in DOMAIN b : Len(b[l]) \in Nat /\ \A i \in 1..Len(b[l]) : b[l][i].day \in Nat
      BY <1>2, <1>5
    <3>3. ASSUME NEW d \in f..to, NEW l \in DOMAIN b
          PROVE  q[d][l] <= Len(b[l]) /\ \A i \in 1..Len(b[l]) : b[l][i].day <= d <=> i <= q[d][l]
      <4>1. l \in A /\ d \in from..to /\ q[d] = p[d] /\ Len(b[l]) \in Nat
        BY <1>2, <1>5, <2>6
      <4>2. p[d][l] \in 0..Len(b[l]) /\ \A i \in 1..Len(b[l]) : b[l][i].day <= d <=> i <= p[d][l]
        BY <1>5, <4>1
      <4> QED BY <4>1, <4>2
    <3> QED BY <3>1, <3>2, <3>3 DEF Passed
  <2>8. ForwardFill(b, f, to) = Filled(b, f, to, q)
    BY <2>3, <1>2, <2>7, FilledAt
  <2>9. \A d \in f..to : Counting(b, q, d) = KnownOn(d)
    BY <1>1, <1>2, <1>6, <2>6 DEF KnownOn, Counting
  <2>10. ASSUME NEW d \in f..to
         PROVE  Point([l \in Counting(b, q, d) |-> b[l][q[d][l]].price]) = Point([l \in KnownOn(d) |-> LastSeenPrice(l, d)])
    <3>1. \A l \in Counting(b, q, d) : b[l][q[d][l]].price = LastSeenPrice(l, d)
      BY <1>2, <1>6, <2>6 DEF Counting
    <3>2. [l \in Counting(b, q, d) |-> b[l][q[d][l]].price] = [l \in KnownOn(d) |-> LastSeenPrice(l, d)]
      BY <2>9, <3>1
    <3> QED BY <3>2
  <2>11. {e \in from..to : KnownOn(e) # {}} = {e \in f..to : Counting(b, q, e) # {}}
    <3>1. ASSUME NEW e \in from..to, ~(e >= f) PROVE KnownOn(e) = {}
      <4>1. f = Min(D) /\ \A x \in D : ~(x <= e)
        BY <1>2, <1>7, <2>2, <2>3, <3>1
      <4> QED BY <1>8, <4>1
    <3>2. \A e \in from..to : KnownOn(e) # {} => e \in f..to
      BY <1>2, <2>3, <3>1
    <3> QED BY <2>6, <2>9, <3>2
  <2>12. Filled(b, f, to, q) = Known({e \in f..to : Counting(b, q, e) # {}})
    BY <2>10 DEF Filled, Known
  <2> QED BY <1>0, <1>9, <2>4, <2>8, <2>11, <2>12
<1> QED BY <1>10, <1>11

\* A window of the readers is cut where CutAt says.
LEMMA CutsAre ==
    ASSUME NEW from, NEW cut \in Cuts(from), NEW l \in Accepted
    PROVE  CutAt(l, cut[l], from)
<1>1. cut[l] \in 0..Max({0} \cup {Len(History(m)) : m \in Accepted}) /\ cut[l] <= Len(History(l))
  BY DEF Cuts
<1>2. \A i \in DOMAIN History(l) : IF i <= cut[l] THEN History(l)[i].day <= from ELSE History(l)[i].day >= from
  BY DEF Cuts
<1> QED BY <1>1, <1>2 DEF CutAt

\* Over every window, the chart of the product page and the series behind the
\* buy-or-wait verdict are what every price ever observed gives, though only
\* changes are stored (price-statistics.ts:80, price-history.ts:60).
THEOREM SeriesStayAsObserved == RecordsSpec => []SeriesAsObserved
<1>1. ASSUME RecordsInd, SeriesFit PROVE SeriesAsObserved
  <2> SUFFICES ASSUME NEW from \in 0..day, NEW cut \in Cuts(from)
               PROVE  PageChart(cut, from) = AsObserved(from) /\ DailySeries(cut, from) = AsObserved(from)
    BY DEF SeriesAsObserved
  <2>1. from \in Days /\ from \in Nat
    BY <1>1, RecordTables, RecordsAssumption DEF RecordsInd, Days
  <2>2. \A l \in Accepted : CutAt(l, cut[l], from)
    BY CutsAre
  <2>3. ASSUME NEW l \in Accepted
        PROVE  /\ CarriedIn(Carried(l, cut[l]), l, cut[l], from)
               /\ CarriedIn([i \in DOMAIN Carried(l, cut[l]) |-> [Carried(l, cut[l])[i] EXCEPT !.day = from]], l, cut[l], from)
    <3>1. PICK k, h : k = cut[l] /\ h = History(l)
      OBVIOUS
    <3>2. h \in Seq(Row) /\ Len(h) \in Nat /\ DOMAIN h = 1..Len(h)
      <4>1. l \in Listings /\ priceHistory[l] \in Seq(Row)
        BY <1>1, RecordTables DEF RecordsInd, Accepted
      <4>2. PICK n \in Nat : n <= Len(priceHistory[l]) /\ Committed(l) = 1..n
        BY <1>1, <4>1, SeenFirst
      <4>3. h \in Seq(Row)
        BY <3>1, <4>1, <4>2, HistoryIs
      <4> QED BY <4>3, LenProperties
    <3>3. k \in 0..Len(h) /\ (k # 0 => k \in 1..Len(h) /\ h[k].day <= from)
      BY <2>2, <3>1, <3>2 DEF CutAt
    <3>4. CASE k = 0
      <4>1. Carried(l, k) = <<>>
        BY <3>4 DEF Carried
      <4>2. <<>> \in Seq(Row) /\ Len(<<>>) = 0 /\ DOMAIN <<>> = {}
        BY EmptySeq
      <4>3. [i \in DOMAIN <<>> |-> [<<>>[i] EXCEPT !.day = from]] = <<>>
        BY <4>2
      <4> QED BY <3>1, <3>4, <4>1, <4>2, <4>3 DEF CarriedIn
    <3>5. CASE k # 0
      <4>1. PICK x, y : x = h[k] /\ y = [x EXCEPT !.day = from]
        OBVIOUS
      <4>2. Carried(l, k) = <<x>> /\ x \in Row
        BY <3>1, <3>2, <3>3, <3>5, <4>1, ElementOfSeq DEF Carried
      <4>3. y \in Row /\ y.price = x.price /\ y.day = from /\ from <= from
        BY <2>1, <4>1, <4>2 DEF Row
      <4>4. [i \in DOMAIN <<x>> |-> [<<x>>[i] EXCEPT !.day = from]] = <<y>>
        BY <4>1
      <4>5. <<x>> \in Seq(Row) /\ <<y>> \in Seq(Row) /\ Len(<<x>>) = 1 /\ Len(<<y>>) = 1 /\ <<x>>[1] = x /\ <<y>>[1] = y
        BY <4>2, <4>3
      <4>6. CarriedIn(<<x>>, l, k, from) /\ CarriedIn(<<y>>, l, k, from)
        BY <3>1, <3>3, <3>5, <4>1, <4>3, <4>5 DEF CarriedIn
      <4> QED BY <3>1, <4>2, <4>4, <4>6
    <3> QED BY <3>4, <3>5
  <2>4. DailySeries(cut, from) = AsObserved(from)
    <3>1. PICK c : c = [l \in Accepted |-> Carried(l, cut[l])]
      OBVIOUS
    <3>2. \A l \in Accepted : CarriedIn(c[l], l, cut[l], from)
      BY <2>3, <3>1
    <3>3. Series(Buckets(c, cut), from) = AsObserved(from)
      BY <1>1, <2>2, <3>2, SeriesIs
    <3>4. Buckets(c, cut) = [l \in Accepted |-> Carried(l, cut[l]) \o Within(l, cut[l])]
      BY <3>1 DEF Buckets
    <3> QED BY <3>3, <3>4 DEF DailySeries
  <2>5. PageChart(cut, from) = AsObserved(from)
    <3> DEFINE Dated(l) == [i \in DOMAIN Carried(l, cut[l]) |-> [Carried(l, cut[l])[i] EXCEPT !.day = from]]
    <3>1. PICK c : c = [l \in Accepted |-> Dated(l)]
      OBVIOUS
    <3>2. \A l \in Accepted : CarriedIn(c[l], l, cut[l], from)
      BY <2>3, <3>1
    <3>3. Series(Buckets(c, cut), from) = AsObserved(from)
      BY <1>1, <2>2, <3>2, SeriesIs
    <3>4. Buckets(c, cut) = [l \in Accepted |-> Dated(l) \o Within(l, cut[l])]
      BY <3>1 DEF Buckets
    <3> QED BY <3>3, <3>4 DEF PageChart
  <2> QED BY <2>4, <2>5
<1> QED BY <1>1, RecordsInvariant, ChangesAreObserved, PTL

----
(* Watches: where a shopper is led *)

Excepted(u) == Unsettled(u) \/ Crossed(u)

\* A way through the log from a product to one that the user watches, each of
\* whose merges moved the user's watch.
Leads(u, p, f) ==
    /\ f \in [0 .. Len(log) -> Products] /\ f[0] = p
    /\ \A n \in 1 .. Len(log) : f[n] = SentTo(f[n - 1])
    /\ u \in Watching(f[Len(log)])
    /\ \A n \in 0 .. Len(log) : f[n] \notin Existing =>
          \E l \in DOMAIN log : log[l].merged = f[n] /\ u \in MovedBy(l)

Led(u, p) == \E f \in [0 .. Len(log) -> Products] : Leads(u, p, f)

\* Of every watch that was ever made, its user is still led from the product to a watched one.
WatchesLead == watched \subseteq Users \X Products /\ \A w \in watched : Excepted(w[1]) \/ Led(w[1], w[2])

\* Whom an open merge is about to drop watches the keeper, unless that was
\* merged away after the updates.
DropFits(row) ==
    row.pc = "commit" => \A w \in row.dropped :
        Excepted(w[1]) \/ w[1] \in Watching(row.keep) \/ \E l \in DOMAIN log : log[l].merged = row.keep

\* The judge's verdict on a merge under review does not change.
VerdictFits(row) ==
    row.pc = "review" => \A i \in row.pending :
        log[i].state = "undone" => ~SaysSame(log[i].row, [title |-> log[i].keptTitle])

RowsWatched == \A r \in Runs : DropFits(run[r]) /\ VerdictFits(run[r])

\* Ids are not used again.
IdsKnown == Existing \subseteq founded \cup Taken /\ \A l \in DOMAIN log : log[l].merged \in founded \cup Taken

\* The inductive invariant of the watches, beside CatalogueInd.
WatchInd == WatchesLead /\ RowsWatched /\ IdsKnown

LEMMA LogIs ==
    ASSUME CatalogueType
    PROVE  /\ Len(log) \in Nat /\ DOMAIN log = 1 .. Len(log)
           /\ \A i \in DOMAIN log : log[i] \in Merge
BY LenProperties, ElementOfSeq DEF CatalogueType

\* The way is the one the page follows, as each hop is.
LEMMA HomeIs ==
    ASSUME CatalogueType, NEW u, NEW p \in Products, NEW f, Leads(u, p, f)
    PROVE  Home[p] = f[Len(log)]
<1> DEFINE body(h) == [n \in 0 .. Len(log) |-> IF n = 0 THEN p ELSE SentTo(h[n - 1])]
           hop == CHOOSE h : h = body(h)
<1>1. Len(log) \in Nat
  BY LogIs
<1>2. f = body(f)
  <2>1. \A n \in 0 .. Len(log) : f[n] = IF n = 0 THEN p ELSE SentTo(f[n - 1])
    BY <1>1 DEF Leads
  <2> QED BY <2>1 DEF Leads
<1>3. hop = body(hop)
  <2> HIDE DEF body
  <2> QED BY <1>2
<1>4. Home[p] = hop[Len(log)]
  BY DEF Home
<1> HIDE DEF hop
<1> DEFINE bad == {n \in 0 .. Len(log) : hop[n] # f[n]}
<1>5. bad = {}
  <2> SUFFICES ASSUME bad # {} PROVE FALSE
    OBVIOUS
  <2>1. bad \in SUBSET Nat
    BY <1>1
  <2>2. PICK n \in bad : \A k \in bad : n <= k
    <3> HIDE DEF bad
    <3> QED BY <2>1, LeastIn
  <2>3. n \in 0 .. Len(log) /\ hop[n] # f[n]
    OBVIOUS
  <2>4. hop[n] = IF n = 0 THEN p ELSE SentTo(hop[n - 1])
    BY <1>3, <2>3
  <2>5. f[n] = IF n = 0 THEN p ELSE SentTo(f[n - 1])
    BY <1>2, <2>3
  <2>6. CASE n = 0
    BY <2>3, <2>4, <2>5, <2>6
  <2>7. CASE n # 0
    <3>1. n - 1 \in 0 .. Len(log) /\ n - 1 < n /\ n - 1 \in Nat
      BY <1>1, <2>3, <2>7
    <3>2. hop[n - 1] = f[n - 1]
      BY <2>2, <3>1
    <3> QED BY <2>3, <2>4, <2>5, <2>7, <3>2
  <2> QED BY <2>6, <2>7
<1> QED BY <1>1, <1>4, <1>5

LEMMA LedIsHome == CatalogueType /\ WatchInd => WatchersKept
<1> SUFFICES ASSUME CatalogueType, WatchInd, NEW w \in watched, ~Excepted(w[1])
             PROVE  w[1] \in Watching(Home[w[2]])
  BY DEF WatchersKept, Excepted
<1>1. w[1] \in Users /\ w[2] \in Products /\ Led(w[1], w[2])
  BY DEF WatchInd, WatchesLead
<1>2. PICK u \in Users, p \in Products : u = w[1] /\ p = w[2]
  BY <1>1
<1>3. PICK f : Leads(u, p, f)
  BY <1>1, <1>2 DEF Led
<1>4. Home[p] = f[Len(log)]
  BY <1>3, HomeIs
<1> QED BY <1>2, <1>3, <1>4 DEF Leads

\* A way that has come to a product that is there stays with it.
LEMMA StaysThere ==
    ASSUME CatalogueType, NEW u, NEW p, NEW f, Leads(u, p, f), NEW n \in 0 .. Len(log), f[n] \in Existing
    PROVE  \A k \in 0 .. Len(log) : n <= k => f[k] = f[n]
<1> DEFINE bad == {k \in 0 .. Len(log) : n <= k /\ f[k] # f[n]}
<1> SUFFICES ASSUME bad # {} PROVE FALSE
  OBVIOUS
<1>1. Len(log) \in Nat /\ bad \in SUBSET Nat
  BY LogIs
<1>2. PICK k \in bad : \A j \in bad : k <= j
  <2> HIDE DEF bad
  <2> QED BY <1>1, LeastIn
<1>3. k - 1 \in 0 .. Len(log) /\ k \in 1 .. Len(log) /\ n <= k - 1 /\ k - 1 < k
  BY <1>1, <1>2
<1>4. f[k - 1] = f[n]
  <2>1. k - 1 \notin bad
    BY <1>1, <1>2, <1>3
  <2> QED BY <1>3, <2>1
<1>5. f[k] = SentTo(f[k - 1])
  BY <1>3 DEF Leads
<1> QED BY <1>2, <1>4, <1>5 DEF SentTo

\* A hop is to a product.
LEMMA SentToProduct ==
    ASSUME CatalogueType, NEW q \in Products
    PROVE  /\ SentTo(q) \in Products
           /\ q \in Existing => SentTo(q) = q
           /\ Into(q) # {} => Max(Into(q)) \in Into(q) /\ \A i \in Into(q) : i <= Max(Into(q))
<1>1. Into(q) \in SUBSET Int /\ \A i \in Into(q) : i <= Len(log)
  BY LogIs DEF Into
<1>2. Into(q) # {} => Max(Into(q)) \in Into(q) /\ \A i \in Into(q) : i <= Max(Into(q))
  <2> SUFFICES ASSUME Into(q) # {} PROVE Max(Into(q)) \in Into(q) /\ \A i \in Into(q) : i <= Max(Into(q))
    OBVIOUS
  <2>1. Len(log) \in Int
    BY LogIs
  <2> QED BY <1>1, <2>1, GreatestOf
<1>3. Into(q) # {} => log[Max(Into(q))].kept \in Products
  BY <1>2, LogIs DEF Into, Merge
<1> QED BY <1>2, <1>3 DEF SentTo

\* The log keeps its entries, and an undone merge stays undone.
LogStays ==
    /\ DOMAIN log \subseteq DOMAIN log'
    /\ \A i \in DOMAIN log :
          /\ log'[i].merged = log[i].merged /\ log'[i].kept = log[i].kept
          /\ log'[i].items = log[i].items /\ log'[i].dropped = log[i].dropped
          /\ log'[i].row = log[i].row /\ log'[i].keptTitle = log[i].keptTitle
          /\ log[i].state = "undone" => log'[i].state = "undone"

LEMMA ExceptedStays ==
    ASSUME CatalogueType, LogStays
    PROVE  /\ \A u : Excepted(u) => Excepted(u)'
           /\ \A l \in DOMAIN log : MovedBy(l)' = MovedBy(l)
<1>1. \A l \in DOMAIN log : MovedBy(l)' = MovedBy(l)
  BY DEF MovedBy, LogStays
<1>2. ASSUME NEW u, Unsettled(u) PROVE Unsettled(u)'
  BY <1>1, <1>2 DEF Unsettled, LogStays
<1>3. ASSUME NEW u, Crossed(u) PROVE Crossed(u)'
  <2>1. PICK l \in DOMAIN log : u \in log[l].dropped /\ \E i \in 1 .. l - 1 : log[i].merged = log[l].kept
    BY <1>3 DEF Crossed
  <2>2. PICK i \in 1 .. l - 1 : log[i].merged = log[l].kept
    BY <2>1
  <2>3. i \in DOMAIN log
    BY LogIs
  <2> QED BY <2>1, <2>2, <2>3 DEF Crossed, LogStays
<1> QED BY <1>1, <1>2, <1>3 DEF Excepted

\* A way stays one while its hops do and its last product is watched.
LEMMA LeadsOn ==
    ASSUME CatalogueType, LogStays, Len(log') = Len(log),
           NEW u, NEW p, NEW f \in [0 .. Len(log) -> Products], Leads(u, p, f),
           \A n \in 0 .. Len(log) : SentTo(f[n])' = SentTo(f[n]) /\ (f[n] \in Existing => f[n] \in Existing'),
           u \in Watching(f[Len(log)])'
    PROVE  Led(u, p)'
<1>1. \A n \in 1 .. Len(log) : n - 1 \in 0 .. Len(log)
  BY LogIs
<1>2. \A n \in 1 .. Len(log) : f[n] = SentTo(f[n - 1])'
  BY <1>1 DEF Leads
<1>3. ASSUME NEW n \in 0 .. Len(log), f[n] \notin Existing'
      PROVE  \E l \in DOMAIN log' : log'[l].merged = f[n] /\ u \in MovedBy(l)'
  <2>1. PICK l \in DOMAIN log : log[l].merged = f[n] /\ u \in MovedBy(l)
    BY <1>3 DEF Leads
  <2> QED BY <2>1, ExceptedStays DEF LogStays
<1>4. Leads(u, p, f)'
  BY <1>2, <1>3 DEF Leads
<1> QED BY <1>4 DEF Led

\* New products and watches leave the ways alone: ids are not used again.
LEMMA GrownLeads ==
    ASSUME CatalogueType, IdsKnown, log' = log, watch \subseteq watch',
           Existing \subseteq Existing', (Existing' \ Existing) \cap (founded \cup Taken) = {}
    PROVE  /\ \A u, p : Led(u, p) => Led(u, p)'
           /\ \A u : Excepted(u) => Excepted(u)'
           /\ \A u, p : u \in Watching(p) => u \in Watching(p)'
<1>1. LogStays
  BY DEF LogStays
<1>2. \A u, p : u \in Watching(p) => u \in Watching(p)'
  BY DEF Watching
<1>3. ASSUME NEW u, NEW p, Led(u, p) PROVE Led(u, p)'
  <2>1. PICK f \in [0 .. Len(log) -> Products] : Leads(u, p, f)
    BY <1>3 DEF Led
  <2>2. ASSUME NEW n \in 0 .. Len(log)
        PROVE  SentTo(f[n])' = SentTo(f[n]) /\ (f[n] \in Existing => f[n] \in Existing')
    <3>1. f[n] \in Existing <=> f[n] \in Existing'
      BY <2>1 DEF Leads, IdsKnown
    <3>2. Into(f[n])' = Into(f[n])
      BY DEF Into
    <3> QED BY <3>1, <3>2 DEF SentTo
  <2>3. u \in Watching(f[Len(log)])'
    BY <1>2, <2>1 DEF Leads
  <2> QED BY <1>1, <2>1, <2>2, <2>3, LeadsOn
<1> QED BY <1>1, <1>2, <1>3, ExceptedStays

\* What a run holds still fits.
LEMMA RowFits ==
    ASSUME CatalogueType, IdsKnown, log' = log, watch \subseteq watch',
           Existing \subseteq Existing', (Existing' \ Existing) \cap (founded \cup Taken) = {},
           NEW row, DropFits(row), VerdictFits(row)
    PROVE  DropFits(row)' /\ VerdictFits(row)'
<1>1. DropFits(row)'
  BY GrownLeads DEF DropFits
<1>2. VerdictFits(row)'
  BY DEF VerdictFits
<1> QED BY <1>1, <1>2

LEMMA Quietly ==
    ASSUME CatalogueType, WatchInd, log' = log, watch \subseteq watch',
           Existing \subseteq Existing', (Existing' \ Existing) \cap (founded \cup Taken) = {},
           founded \subseteq founded', Existing' \subseteq founded' \cup Taken, watched' = watched,
           \A r \in Runs : run'[r] = run[r] \/ run'[r].pc \notin {"commit", "review"}
                           \/ (DropFits(run'[r]) /\ VerdictFits(run'[r]))
    PROVE  WatchInd'
<1> USE DEF WatchInd
<1>1. WatchesLead'
  BY GrownLeads DEF WatchesLead
<1>2. IdsKnown'
  BY DEF IdsKnown
<1>3. ASSUME NEW r \in Runs PROVE (DropFits(run[r]) /\ VerdictFits(run[r]))'
  <2>1. PICK row : row = run'[r]
    OBVIOUS
  <2>2. CASE row.pc \notin {"commit", "review"}
    BY <2>1, <2>2 DEF DropFits, VerdictFits
  <2>3. CASE row = run[r]
    <3>1. DropFits(row) /\ VerdictFits(row)
      BY <2>3 DEF RowsWatched
    <3>2. DropFits(row)' /\ VerdictFits(row)'
      BY <3>1, RowFits
    <3> QED BY <2>1, <3>2 DEF DropFits, VerdictFits
  <2>4. CASE DropFits(row) /\ VerdictFits(row)
    <3>1. DropFits(row)' /\ VerdictFits(row)'
      BY <2>4, RowFits
    <3> QED BY <2>1, <3>1 DEF DropFits, VerdictFits
  <2> QED BY <2>1, <2>2, <2>3, <2>4
<1> QED BY <1>1, <1>2, <1>3 DEF RowsWatched

LEMMA ScrapeWatch ==
    ASSUME CatalogueInd, WatchInd, NEW j \in Jobs, NEW o \in Offers,
           \/ Match(j, o) \/ HoldOffer(j, o) \/ Create(j) \/ Upsert(j) \/ Reject(j) \/ AppendPoint(j)
    PROVE  WatchInd'
<1> USE DEF CatalogueInd
<1>1. CASE Match(j, o) \/ HoldOffer(j, o) \/ Upsert(j) \/ Reject(j) \/ AppendPoint(j)
  <2>1. UNCHANGED <<products, watch, log, founded, watched, run>>
    BY <1>1 DEF Match, HoldOffer, Upsert, Reject, AppendPoint, shared
  <2>2. Existing' = Existing /\ Existing \subseteq founded \cup Taken
    BY <2>1 DEF Existing, WatchInd, IdsKnown
  <2> QED BY <2>1, <2>2, Quietly
<1>2. CASE Create(j)
  <2>1. UNCHANGED <<watch, log, watched, run>> /\ job[j].pc = "create"
    BY <1>2 DEF Create
  <2>2. PICK id \in Products \ (founded \cup Taken) : id = Min(Products \ (founded \cup Taken))
    BY <2>1, AnIdIsLeft DEF Creating
  <2>3. \/ UNCHANGED <<products, founded>>
        \/ /\ products' = [products EXCEPT ![id] = [title |-> OfferRow[job[j].offer].title,
                                                    gtin |-> OfferRow[job[j].offer].gtin]]
           /\ founded' = founded \cup {id}
    BY <1>2, <2>2 DEF Create
  <2>4. job[j].offer \in Offers
    BY <2>1, JobsHold DEF JobCall
  <2>5. [title |-> OfferRow[job[j].offer].title, gtin |-> OfferRow[job[j].offer].gtin] # Nothing
    BY <2>4, OfferRows, CatalogueAssumption
  <2>6. Existing \subseteq Existing' /\ Existing' \subseteq Existing \cup {id}
        /\ founded \subseteq founded' /\ Existing' \subseteq founded' \cup Taken
    <3>1. CASE UNCHANGED <<products, founded>>
      BY <3>1 DEF Existing, WatchInd, IdsKnown
    <3>2. CASE /\ products' = [products EXCEPT ![id] = [title |-> OfferRow[job[j].offer].title,
                                                       gtin |-> OfferRow[job[j].offer].gtin]]
               /\ founded' = founded \cup {id}
      <4>1. Existing' = Existing \cup {id}
        BY <2>5, <3>2 DEF Existing, CatalogueType, Loaded
      <4> QED BY <3>2, <4>1 DEF WatchInd, IdsKnown
    <3> QED BY <2>3, <3>1, <3>2
  <2>7. (Existing' \ Existing) \cap (founded \cup Taken) = {}
    BY <2>2, <2>6
  <2> QED BY <2>1, <2>6, <2>7, Quietly
<1> QED BY <1>1, <1>2

LEMMA ShopperWatch ==
    ASSUME CatalogueInd, WatchInd, NEW u \in Users, NEW p \in Products, WatchProduct(u, p)
    PROVE  WatchInd'
<1> USE DEF CatalogueInd
<1>1. /\ p \in Existing /\ watch' = watch \cup {<<u, p, p>>} /\ watched' = watched \cup {<<u, p>>}
      /\ UNCHANGED <<products, log, founded, run>>
  BY DEF WatchProduct
<1>2. Existing' = Existing /\ Existing \subseteq founded \cup Taken
  BY <1>1 DEF Existing, WatchInd, IdsKnown
<1>3. /\ \A v, q : Led(v, q) => Led(v, q)'
      /\ \A v : Excepted(v) => Excepted(v)'
  BY <1>1, <1>2, GrownLeads DEF WatchInd
<1>4. Led(u, p)'
  <2>1. Len(log) \in Nat
    BY LogIs
  <2>2. PICK f \in [0 .. Len(log) -> Products] : \A n \in 0 .. Len(log) : f[n] = p
    <3>1. [n \in 0 .. Len(log) |-> p] \in [0 .. Len(log) -> Products]
      OBVIOUS
    <3> QED BY <3>1
  <2>3. SentTo(p)' = p
    BY <1>1, <1>2 DEF SentTo
  <2>4. u \in Watching(p)'
    <3>1. PICK w : w = <<u, p, p>>
      OBVIOUS
    <3>2. w \in watch' /\ w[1] = u /\ w[3] = p
      BY <1>1, <3>1
    <3> QED BY <3>2 DEF Watching
  <2>5. \A n \in 1 .. Len(log) : n \in 0 .. Len(log) /\ n - 1 \in 0 .. Len(log)
    BY <2>1
  <2>6. PICK last \in Nat : last = Len(log) /\ last = Len(log')
    BY <1>1, <2>1
  <2>7. f[last] = p /\ last \in 0 .. last
    BY <2>2, <2>6
  <2>8. u \in Watching(f[last])'
    BY <2>4, <2>7
  <2>9. \A n \in 1 .. last : f[n] = SentTo(f[n - 1])'
    BY <2>2, <2>3, <2>5, <2>6
  <2>10. \A n \in 0 .. last : f[n] \in Existing'
    BY <1>1, <1>2, <2>2, <2>6
  <2>11. Leads(u, p, f)'
    BY <2>2, <2>6, <2>8, <2>9, <2>10 DEF Leads, Watching
  <2> QED BY <1>1, <2>2, <2>11 DEF Led
<1>5. WatchesLead'
  BY <1>1, <1>3, <1>4 DEF WatchesLead, WatchInd
<1>6. IdsKnown'
  BY <1>1, <1>2 DEF IdsKnown, WatchInd
<1>7. ASSUME NEW r \in Runs PROVE (DropFits(run[r]) /\ VerdictFits(run[r]))'
  <2>1. PICK row : row = run[r]
    OBVIOUS
  <2>2. DropFits(row)' /\ VerdictFits(row)'
    BY <1>1, <1>2, <2>1, RowFits DEF WatchInd, RowsWatched
  <2> QED BY <1>1, <2>1, <2>2 DEF DropFits, VerdictFits
<1> QED BY <1>5, <1>6, <1>7 DEF WatchInd, RowsWatched

\* A run that goes on.
LEMMA RunWatch ==
    ASSUME CatalogueInd, WatchInd, UNCHANGED shared, NEW r \in Runs, NEW next,
           run' = [run EXCEPT ![r] = next],
           next.pc \notin {"commit", "review"} \/ (DropFits(next) /\ VerdictFits(next))
    PROVE  WatchInd'
<1>1. Existing' = Existing /\ Existing \subseteq founded \cup Taken
  BY DEF Existing, WatchInd, IdsKnown, shared
<1>2. run'[r] = next /\ \A q \in Runs \ {r} : run'[q] = run[q]
  BY DEF CatalogueInd, CatalogueType
<1>3. \A q \in Runs : run'[q] = run[q] \/ run'[q].pc \notin {"commit", "review"}
                      \/ (DropFits(run'[q]) /\ VerdictFits(run'[q]))
  BY <1>2
<1> QED BY <1>1, <1>3, Quietly DEF CatalogueInd, shared

LEMMA RunsGoOnWatch ==
    ASSUME CatalogueInd, WatchInd, NEW r \in Runs,
           \/ BeginReconcile(r) \/ LoadProducts(r) \/ PickPair(r) \/ MergeMove(r) \/ MergeAbort(r)
           \/ EndRun(r) \/ BeginCleanup(r) \/ CleanPair(r)
    PROVE  WatchInd'
<1> USE DEF CatalogueInd
<1>1. UNCHANGED shared
  BY DEF BeginReconcile, LoadProducts, PickPair, MergeMove, MergeAbort, EndRun, BeginCleanup, CleanPair
<1>2. CASE BeginReconcile(r)
  <2>1. PICK pending \in SUBSET DOMAIN log :
          /\ pending = {} \/ pending = {i \in DOMAIN log : log[i].state = "rules"}
          /\ run' = [run EXCEPT ![r] = [pc |-> "review", kind |-> "reconcile", pending |-> pending]]
    BY <1>2 DEF BeginReconcile
  <2> DEFINE next == [pc |-> "review", kind |-> "reconcile", pending |-> pending]
  <2>2. DropFits(next) /\ VerdictFits(next)
    BY <2>1 DEF DropFits, VerdictFits
  <2> QED BY <1>1, <2>1, <2>2, RunWatch
<1>3. CASE LoadProducts(r) \/ BeginCleanup(r)
  <2>1. PICK kind \in {"reconcile", "cleanup"} :
          run' = [run EXCEPT ![r] = [pc |-> "pick", kind |-> kind, rows |-> products, consumed |-> {}]]
    BY <1>3 DEF LoadProducts, BeginCleanup
  <2> DEFINE next == [pc |-> "pick", kind |-> kind, rows |-> products, consumed |-> {}]
  <2>2. next.pc \notin {"commit", "review"}
    OBVIOUS
  <2> QED BY <1>1, <2>1, <2>2, RunWatch
<1>4. CASE PickPair(r) \/ CleanPair(r)
  <2>1. PICK keep, merge, keepRow, mergeRow : MergePair(r, keep, merge, keepRow, mergeRow)
    BY <1>4 DEF PickPair, CleanPair
  <2> DEFINE next == [pc |-> "move", kind |-> run[r].kind, rows |-> run[r].rows, consumed |-> run[r].consumed,
                      keep |-> keep, merge |-> merge, keepRow |-> keepRow, mergeRow |-> mergeRow,
                      ids |-> {o \in Offers : listing[o].product = merge},
                      moved |-> {}, points |-> {}, items |-> {}, dropped |-> {}]
  <2>2. run' = [run EXCEPT ![r] = next] /\ next.pc = "move"
    BY <2>1 DEF MergePair
  <2> HIDE DEF next
  <2> QED BY <1>1, <2>2, RunWatch
<1>5. CASE MergeMove(r)
  <2>1. PICK moved, points, items, k, m :
          /\ k = run[r].keep /\ m = run[r].merge
          /\ run' = [run EXCEPT ![r].pc = "commit", ![r].moved = moved, ![r].points = points,
                                ![r].items = items, ![r].dropped = Superfluous(k, m)]
    BY <1>5 DEF MergeMove
  <2>2. run[r] \in MergeRun
    BY <1>5, RunsHold DEF MergeMove
  <2>3. PICK next : next = [run[r] EXCEPT !.pc = "commit", !.moved = moved, !.points = points,
                                          !.items = items, !.dropped = Superfluous(k, m)]
    OBVIOUS
  <2>4. run' = [run EXCEPT ![r] = next]
    BY <2>1, <2>3
  <2>5. next.pc = "commit" /\ next.keep = k /\ next.dropped = Superfluous(k, m)
    BY <2>1, <2>2, <2>3 DEF MergeRun
  <2>6. DropFits(next) /\ VerdictFits(next)
    BY <2>5 DEF DropFits, VerdictFits, Superfluous
  <2> QED BY <1>1, <2>4, <2>6, RunWatch
<1>6. CASE MergeAbort(r) \/ EndRun(r)
  BY <1>1, <1>6, RunWatch DEF MergeAbort, EndRun, Idle
<1> QED BY <1>2, <1>3, <1>4, <1>5, <1>6

LEMMA RepointWatch ==
    ASSUME CatalogueInd, WatchInd, NEW r \in Runs, RepointHistory(r)
    PROVE  WatchInd'
<1>1. UNCHANGED <<products, watch, log, founded, watched, run>>
  BY DEF RepointHistory
<1>2. Existing' = Existing /\ Existing \subseteq founded \cup Taken
  BY <1>1 DEF Existing, WatchInd, IdsKnown
<1> QED BY <1>1, <1>2, Quietly DEF CatalogueInd

\* An entry of the log is settled.
LEMMA SettledLog ==
    ASSUME CatalogueType, NEW i \in DOMAIN log, NEW state \in {"approved", "undone"},
           state = "undone" \/ log[i].state # "undone",
           log' = [log EXCEPT ![i].state = state]
    PROVE  /\ LogStays /\ Len(log') = Len(log) /\ DOMAIN log' = DOMAIN log
           /\ log'[i].state = state /\ \A l \in DOMAIN log \ {i} : log'[l] = log[l]
<1>1. /\ Len(log) \in Nat /\ DOMAIN log = 1 .. Len(log) /\ log[i] \in Merge
      /\ log \in [1 .. Len(log) -> Merge] /\ log' \in Seq(Merge)
  <2>1. log \in [1 .. Len(log) -> Merge] /\ log[i] \in Merge /\ Len(log) \in Nat /\ DOMAIN log = 1 .. Len(log)
    BY LogIs, LenProperties, ElementOfSeq DEF CatalogueType
  <2>2. PICK entry : entry = [log[i] EXCEPT !.state = state]
    OBVIOUS
  <2>3. entry \in Merge
    BY <2>1, <2>2 DEF Merge
  <2>4. log' = [log EXCEPT ![i] = entry]
    BY <2>2
  <2>5. log' \in [1 .. Len(log) -> Merge]
    BY <2>1, <2>3, <2>4
  <2> QED BY <2>1, <2>5, SeqDef
<1>2. PICK entry : entry = [log[i] EXCEPT !.state = state]
  OBVIOUS
<1>3. /\ entry.merged = log[i].merged /\ entry.kept = log[i].kept /\ entry.items = log[i].items
      /\ entry.dropped = log[i].dropped /\ entry.row = log[i].row /\ entry.keptTitle = log[i].keptTitle
      /\ entry.state = state
  BY <1>1, <1>2 DEF Merge
<1>4. log' = [log EXCEPT ![i] = entry]
  BY <1>2
<1>5. DOMAIN log' = DOMAIN log /\ log'[i] = entry /\ \A l \in DOMAIN log \ {i} : log'[l] = log[l]
  BY <1>1, <1>4
<1>6. Len(log') = Len(log)
  BY <1>1, <1>5, LenProperties
<1>7. LogStays
  BY <1>3, <1>5 DEF LogStays
<1> QED BY <1>3, <1>5, <1>6, <1>7

LEMMA ApproveWatch ==
    ASSUME CatalogueInd, WatchInd, NEW r \in Runs, ReviewApproves(r)
    PROVE  WatchInd'
<1> USE DEF CatalogueInd
<1>1. /\ run[r].pc = "review" /\ run[r].pending # {} /\ run[r] \in ReviewRun
      /\ UNCHANGED <<products, listing, history, watch, cart, founded, watched, job, scrapes, runs>>
  BY RunsHold DEF ReviewApproves
<1>2. PICK i \in DOMAIN log : i = Min(run[r].pending) /\ i \in run[r].pending
  <2>1. DOMAIN Legacy \subseteq DOMAIN log
    BY LogIs, LenProperties, CatalogueAssumption DEF LogFits
  <2> QED BY <1>1, <2>1, PendingEntry
<1>3. PICK pending \in SUBSET run[r].pending :
         /\ run' = [run EXCEPT ![r].pending = pending]
         /\ \/ log' = log
            \/ /\ log' = [log EXCEPT ![i].state = "approved"]
               /\ SaysSame(log[i].row, [title |-> log[i].keptTitle])
  <2>1. run[r].pending \ {i} \in SUBSET run[r].pending /\ {} \in SUBSET run[r].pending
    OBVIOUS
  <2>2. \/ /\ log' = [log EXCEPT ![i].state = "approved"] /\ run' = [run EXCEPT ![r].pending = run[r].pending \ {i}]
           /\ SaysSame(log[i].row, [title |-> log[i].keptTitle])
        \/ log' = log /\ run' = [run EXCEPT ![r].pending = {}]
    BY <1>2 DEF ReviewApproves, CatalogueType
  <2> QED BY <2>1, <2>2
<1>4. LogStays /\ Len(log') = Len(log) /\ DOMAIN log' = DOMAIN log
      /\ \A l \in DOMAIN log : log[l].state = "undone" <=> log'[l].state = "undone"
  <2>1. CASE log' = log
    BY <2>1 DEF LogStays
  <2>2. CASE log' = [log EXCEPT ![i].state = "approved"] /\ SaysSame(log[i].row, [title |-> log[i].keptTitle])
    <3>1. log[i].state # "undone"
      BY <1>1, <1>2, <2>2 DEF WatchInd, RowsWatched, VerdictFits
    <3> QED BY <2>2, <3>1, SettledLog
  <2> QED BY <1>3, <2>1, <2>2
<1>5. Existing' = Existing /\ \A p : Watching(p)' = Watching(p)
  BY <1>1 DEF Existing, Watching
<1>6. \A q : SentTo(q)' = SentTo(q)
  <2> SUFFICES ASSUME NEW q PROVE SentTo(q)' = SentTo(q)
    OBVIOUS
  <2>1. Into(q)' = Into(q)
    BY <1>4 DEF Into, LogStays
  <2>2. CASE q \in Existing \/ Into(q) = {}
    BY <1>5, <2>1, <2>2 DEF SentTo
  <2>3. CASE q \notin Existing /\ Into(q) # {}
    <3>1. Into(q) \in SUBSET Int /\ \A j \in Into(q) : j <= Len(log)
      BY LogIs DEF Into
    <3>2. Len(log) \in Int
      BY LogIs
    <3>3. Max(Into(q)) \in Into(q)
      BY <2>3, <3>1, <3>2, GreatestOf
    <3>4. Max(Into(q)) \in DOMAIN log
      BY <3>3 DEF Into
    <3> QED BY <1>4, <1>5, <2>1, <3>4 DEF SentTo, LogStays
  <2> QED BY <2>2, <2>3
<1>7. WatchesLead'
  <2>1. ASSUME NEW w \in watched, ~Excepted(w[1])' PROVE Led(w[1], w[2])'
    <3>1. ~Excepted(w[1])
      BY <1>4, <2>1, ExceptedStays
    <3>2. PICK f \in [0 .. Len(log) -> Products] : Leads(w[1], w[2], f)
      BY <2>1, <3>1 DEF WatchInd, WatchesLead, Led
    <3>3. PICK u, p : u = w[1] /\ p = w[2]
      OBVIOUS
    <3>4. Leads(u, p, f)
      BY <3>2, <3>3
    <3>5. \A n \in 0 .. Len(log) : SentTo(f[n])' = SentTo(f[n]) /\ (f[n] \in Existing => f[n] \in Existing')
      BY <1>5, <1>6
    <3>6. u \in Watching(f[Len(log)])'
      BY <1>4, <1>5, <3>4 DEF Leads
    <3>7. Led(u, p)'
      BY <1>4, <3>4, <3>5, <3>6, LeadsOn
    <3> QED BY <3>3, <3>7
  <2> QED BY <1>1, <2>1 DEF WatchInd, WatchesLead
<1>8. IdsKnown'
  BY <1>1, <1>4, <1>5 DEF WatchInd, IdsKnown, LogStays
<1>9. ASSUME NEW q \in Runs PROVE (DropFits(run[q]) /\ VerdictFits(run[q]))'
  <2>1. PICK row, next : row = run[q] /\ next = run'[q]
    OBVIOUS
  <2>2. \/ next = row
        \/ row.pc = "review" /\ next.pc = "review" /\ next.pending \in SUBSET row.pending
    <3>1. PICK mine : mine = [run[r] EXCEPT !.pending = pending]
      OBVIOUS
    <3>2. mine.pc = "review" /\ mine.pending = pending
      BY <1>1, <3>1 DEF ReviewRun
    <3>3. run' = [run EXCEPT ![r] = mine]
      BY <1>3, <3>1
    <3>4. CASE q = r
      BY <1>1, <1>3, <2>1, <3>2, <3>3, <3>4 DEF CatalogueType
    <3>5. CASE q # r
      BY <2>1, <3>3, <3>5 DEF CatalogueType
    <3> QED BY <3>4, <3>5
  <2>3. DropFits(row) /\ VerdictFits(row)
    BY <2>1 DEF WatchInd, RowsWatched
  <2>4. DropFits(next)'
    <3>1. ASSUME next.pc = "commit", NEW w \in next.dropped
          PROVE  Excepted(w[1])' \/ w[1] \in Watching(next.keep)' \/ \E l \in DOMAIN log' : log'[l].merged = next.keep
      <4>1. next = row
        BY <2>2, <3>1
      <4>2. Excepted(w[1]) \/ w[1] \in Watching(row.keep) \/ \E l \in DOMAIN log : log[l].merged = row.keep
        BY <2>3, <3>1, <4>1 DEF DropFits
      <4> QED BY <1>4, <1>5, <4>1, <4>2, ExceptedStays DEF LogStays
    <3> QED BY <3>1 DEF DropFits
  <2>5. VerdictFits(next)'
    <3>1. ASSUME next.pc = "review", NEW l \in next.pending, log'[l].state = "undone"
          PROVE  ~SaysSame(log'[l].row, [title |-> log'[l].keptTitle])
      <4>1. row.pc = "review" /\ l \in row.pending
        BY <2>2, <3>1
      <4>2. l \in DOMAIN log
        <5>1. row \in ReviewRun
          BY <2>1, <4>1, RunsHold
        <5> QED BY <4>1, <5>1, LogIs, LenProperties, CatalogueAssumption DEF ReviewRun, LogFits
      <4>3. log[l].state = "undone"
        BY <1>4, <3>1, <4>2
      <4>4. ~SaysSame(log[l].row, [title |-> log[l].keptTitle])
        BY <2>3, <4>1, <4>3 DEF VerdictFits
      <4> QED BY <1>4, <4>2, <4>4 DEF LogStays
    <3> QED BY <3>1 DEF VerdictFits
  <2> QED BY <2>1, <2>4, <2>5 DEF DropFits, VerdictFits
<1> QED BY <1>7, <1>8, <1>9 DEF WatchInd, RowsWatched

\* The cleanup deletes what nobody watches: no way ends there.
LEMMA DeleteWatch ==
    ASSUME CatalogueInd, WatchInd, NEW r \in Runs, DeleteEmpty(r)
    PROVE  WatchInd'
<1> USE DEF CatalogueInd
<1>1. PICK p \in Existing : Watching(p) = {} /\ products' = [products EXCEPT ![p] = Nothing]
  BY DEF DeleteEmpty
<1>2. UNCHANGED <<watch, log, founded, watched, run>>
  BY DEF DeleteEmpty
<1>3. Existing' = Existing \ {p} /\ LogStays
  BY <1>1, <1>2 DEF CatalogueType, Loaded, Existing, LogStays
<1>4. /\ \A q : Watching(q)' = Watching(q)
      /\ \A u : Excepted(u) => Excepted(u)'
  BY <1>2, <1>3, ExceptedStays DEF Watching
<1>5. ASSUME NEW w \in watched, ~Excepted(w[1])' PROVE Led(w[1], w[2])'
  <2>1. PICK u, v : u = w[1] /\ v = w[2]
    OBVIOUS
  <2>2. PICK f \in [0 .. Len(log) -> Products] : Leads(u, v, f)
    BY <1>4, <1>5, <2>1 DEF WatchInd, WatchesLead, Led
  <2>3. \A n \in 0 .. Len(log) : f[n] # p
    <3> SUFFICES ASSUME NEW n \in 0 .. Len(log), f[n] = p PROVE FALSE
      OBVIOUS
    <3>1. \A k \in 0 .. Len(log) : n <= k => f[k] = p
      BY <1>1, <2>2, StaysThere
    <3>2. f[Len(log)] = p
      BY <3>1, LogIs
    <3> QED BY <1>1, <2>2, <3>2 DEF Leads
  <2>4. \A n \in 0 .. Len(log) : SentTo(f[n])' = SentTo(f[n]) /\ (f[n] \in Existing => f[n] \in Existing')
    BY <1>2, <1>3, <2>3 DEF SentTo, Into
  <2>5. u \in Watching(f[Len(log)])'
    BY <1>2, <1>4, <2>2 DEF Leads
  <2>6. Led(u, v)'
    BY <1>2, <1>3, <2>2, <2>4, <2>5, LeadsOn
  <2> QED BY <2>1, <2>6
<1>6. WatchesLead'
  BY <1>2, <1>5 DEF WatchInd, WatchesLead
<1>7. IdsKnown'
  BY <1>2, <1>3 DEF WatchInd, IdsKnown
<1>8. ASSUME NEW q \in Runs PROVE (DropFits(run[q]) /\ VerdictFits(run[q]))'
  BY <1>2, <1>4 DEF WatchInd, RowsWatched, DropFits, VerdictFits
<1> QED BY <1>6, <1>7, <1>8 DEF WatchInd, RowsWatched

LEMMA PendingInLog ==
    ASSUME CatalogueInd, NEW r \in Runs, run[r].pc = "review"
    PROVE  run[r].pending \subseteq DOMAIN log
<1>1. run[r] \in ReviewRun
  BY RunsHold DEF CatalogueInd
<1> QED BY <1>1, LogIs, LenProperties, CatalogueAssumption DEF ReviewRun, CatalogueInd, LogFits

\* An undo brings a product back.  Whom the way of leads through it was moved
\* by a merge of it, and is not accounted for any more.
LEMMA UndoWatch ==
    ASSUME CatalogueInd, WatchInd, NEW r \in Runs, ReviewUndoes(r)
    PROVE  WatchInd'
<1> USE DEF CatalogueInd
<1>1. /\ run[r].pc = "review" /\ run[r].pending # {} /\ run[r] \in ReviewRun
      /\ UNCHANGED <<cart, founded, watched, job, scrapes, runs>>
  BY RunsHold DEF ReviewUndoes
<1>2. PICK i \in DOMAIN log : i = Min(run[r].pending) /\ i \in run[r].pending
  BY <1>1, PendingEntry, PendingInLog
<1>3. ~SaysSame(log[i].row, [title |-> log[i].keptTitle])
  BY <1>2 DEF ReviewUndoes
<1>4. CASE log[i].merged \in Existing
  <2>1. run' = [run EXCEPT ![r] = Idle] /\ UNCHANGED <<products, listing, history, watch, log>>
    BY <1>2, <1>4 DEF ReviewUndoes
  <2>2. Idle.pc \notin {"commit", "review"}
    BY DEF Idle
  <2> QED BY <1>1, <2>1, <2>2, RunWatch DEF shared
<1>5. CASE log[i].merged \notin Existing
  <2>1. Undo(i) /\ run' = [run EXCEPT ![r].pending = @ \ {i}]
    BY <1>2, <1>5 DEF ReviewUndoes
  <2>2. PICK m \in Products, back \in SUBSET watch :
          /\ m = log[i].merged /\ back = {w \in watch : <<w[1], w[2]>> \in log[i].items}
    BY LogIs DEF Merge
  <2>3. /\ watch \ back \subseteq watch'
        /\ log' = [log EXCEPT ![i].state = "undone"]
    BY <2>1, <2>2 DEF Undo
  <2>4. Existing' = Existing \cup {m}
    <3>1. PICK row : products' = [products EXCEPT ![m] = row] /\ row = [log[i].row EXCEPT !.gtin =
                        IF GtinTaken(log[i].row.gtin) THEN Nothing ELSE log[i].row.gtin]
      BY <2>1, <2>2 DEF Undo
    <3>2. log[i].row \in Rows
      BY LogIs DEF Merge
    <3>3. row \in Rows
      BY <3>1, <3>2 DEF Rows
    <3> QED BY <3>1, <3>3, CatalogueAssumption DEF CatalogueType, Loaded, Existing
  <2>5. /\ LogStays /\ Len(log') = Len(log) /\ DOMAIN log' = DOMAIN log
        /\ log'[i].state = "undone" /\ \A l \in DOMAIN log \ {i} : log'[l] = log[l]
    BY <2>3, SettledLog
  <2>6. \A u : Excepted(u) => Excepted(u)'
    BY <2>5, ExceptedStays
  <2>7. ASSUME NEW u, ~Excepted(u)', NEW l \in DOMAIN log, log[l].merged = m PROVE u \notin MovedBy(l)
    <3>1. ~Unsettled(u)'
      BY <2>7 DEF Excepted
    <3>2. MovedBy(l)' = MovedBy(l) /\ log'[l].merged = log'[i].merged /\ log'[i].state = "undone"
      BY <2>2, <2>5, <2>7, ExceptedStays DEF LogStays
    <3> QED BY <2>5, <2>7, <3>1, <3>2 DEF Unsettled
  <2>8. ASSUME NEW u, NEW q, ~Excepted(u)', u \in Watching(q) PROVE u \in Watching(q)'
    <3>1. PICK w \in watch : w[1] = u /\ w[3] = q
      BY <2>8 DEF Watching
    <3>2. w \notin back
      <4> SUFFICES ASSUME <<w[1], w[2]>> \in log[i].items PROVE FALSE
        BY <2>2
      <4>1. PICK x : x = <<w[1], w[2]>>
        OBVIOUS
      <4>2. x \in log[i].items /\ x[1] = u
        BY <3>1, <4>1
      <4>3. u \in MovedBy(i)
        BY <4>2 DEF MovedBy
      <4> QED BY <2>2, <2>7, <2>8, <4>3
    <3> QED BY <2>3, <3>1, <3>2 DEF Watching
  <2>9. ASSUME NEW w \in watched, ~Excepted(w[1])' PROVE Led(w[1], w[2])'
    <3>1. PICK u, p : u = w[1] /\ p = w[2]
      OBVIOUS
    <3>2. PICK f \in [0 .. Len(log) -> Products] : Leads(u, p, f)
      BY <2>6, <2>9, <3>1 DEF WatchInd, WatchesLead, Led
    <3>3. \A n \in 0 .. Len(log) : f[n] # m
      BY <1>5, <2>2, <2>7, <2>9, <3>1, <3>2 DEF Leads
    <3>4. \A n \in 0 .. Len(log) : SentTo(f[n])' = SentTo(f[n]) /\ (f[n] \in Existing => f[n] \in Existing')
      <4> SUFFICES ASSUME NEW n \in 0 .. Len(log) PROVE SentTo(f[n])' = SentTo(f[n])
        BY <2>4
      <4>1. PICK q \in Products : q = f[n] /\ q # m
        BY <3>3
      <4>2. Into(q)' = Into(q) /\ i \notin Into(q)
        BY <2>2, <2>5, <4>1 DEF Into
      <4>3. Into(q) # {} => Max(Into(q)) \in DOMAIN log \ {i}
        BY <4>2, SentToProduct DEF Into
      <4>4. SentTo(q)' = SentTo(q)
        BY <2>4, <2>5, <4>1, <4>2, <4>3 DEF SentTo
      <4> QED BY <4>1, <4>4
    <3>5. u \in Watching(f[Len(log)])'
      <4>1. PICK q : q = f[Len(log)] /\ q = f[Len(log')]
        BY <2>5
      <4>2. u \in Watching(q)'
        BY <2>8, <2>9, <3>1, <3>2, <4>1 DEF Leads
      <4> QED BY <4>1, <4>2 DEF Watching
    <3>6. Led(u, p)'
      BY <2>5, <3>2, <3>4, <3>5, LeadsOn
    <3> QED BY <3>1, <3>6
  <2>10. WatchesLead'
    BY <1>1, <2>9 DEF WatchInd, WatchesLead
  <2>11. IdsKnown'
    BY <1>1, <2>2, <2>4, <2>5 DEF WatchInd, IdsKnown, LogStays
  <2>12. ASSUME NEW q \in Runs PROVE (DropFits(run[q]) /\ VerdictFits(run[q]))'
    <3>1. PICK row, next : row = run[q] /\ next = run'[q]
      OBVIOUS
    <3>2. \/ next = row
          \/ row.pc = "review" /\ next.pc = "review" /\ next.pending \in SUBSET row.pending
      <4>1. PICK mine : mine = [run[r] EXCEPT !.pending = run[r].pending \ {i}]
        OBVIOUS
      <4>2. mine.pc = "review" /\ mine.pending \in SUBSET run[r].pending
        BY <1>1, <4>1 DEF ReviewRun
      <4>3. run' = [run EXCEPT ![r] = mine]
        BY <2>1, <4>1 DEF CatalogueType
      <4>4. CASE q = r
        BY <1>1, <3>1, <4>2, <4>3, <4>4 DEF CatalogueType
      <4>5. CASE q # r
        BY <3>1, <4>3, <4>5 DEF CatalogueType
      <4> QED BY <4>4, <4>5
    <3>3. DropFits(row) /\ VerdictFits(row)
      BY <3>1 DEF WatchInd, RowsWatched
    <3>4. DropFits(next)'
      <4>1. ASSUME next.pc = "commit", NEW w \in next.dropped, ~Excepted(w[1])'
            PROVE  w[1] \in Watching(next.keep)' \/ \E l \in DOMAIN log' : log'[l].merged = next.keep
        <5>1. next = row /\ ~Excepted(w[1])
          BY <2>6, <3>2, <4>1
        <5>2. w[1] \in Watching(row.keep) \/ \E l \in DOMAIN log : log[l].merged = row.keep
          BY <3>3, <4>1, <5>1 DEF DropFits
        <5>3. PICK u, k : u = w[1] /\ k = row.keep
          OBVIOUS
        <5>4. CASE u \in Watching(k)
          BY <2>8, <4>1, <5>1, <5>3, <5>4
        <5>5. CASE \E l \in DOMAIN log : log[l].merged = k
          BY <2>5, <5>1, <5>3, <5>5 DEF LogStays
        <5> QED BY <5>2, <5>3, <5>4, <5>5
      <4> QED BY <4>1 DEF DropFits
    <3>5. VerdictFits(next)'
      <4>1. ASSUME next.pc = "review", NEW l \in next.pending, log'[l].state = "undone"
            PROVE  ~SaysSame(log'[l].row, [title |-> log'[l].keptTitle])
        <5>1. row.pc = "review" /\ l \in row.pending
          BY <3>2, <4>1
        <5>2. l \in DOMAIN log
          BY <3>1, <5>1, PendingInLog
        <5>3. ~SaysSame(log[l].row, [title |-> log[l].keptTitle])
          BY <1>3, <2>5, <3>3, <4>1, <5>1, <5>2 DEF VerdictFits
        <5> QED BY <2>5, <5>2, <5>3 DEF LogStays
      <4> QED BY <4>1 DEF VerdictFits
    <3> QED BY <3>1, <3>4, <3>5 DEF DropFits, VerdictFits
  <2> QED BY <2>10, <2>11, <2>12 DEF WatchInd, RowsWatched
<1> QED BY <1>4, <1>5

\* What a committed merge adds to the log.
LEMMA CommitLog ==
    ASSUME CatalogueInd, NEW r \in Runs, MergeCommit(r)
    PROVE  /\ LogStays /\ Len(log') = Len(log) + 1 /\ DOMAIN log' = DOMAIN log \cup {Len(log) + 1}
           /\ \A l \in DOMAIN log : log'[l] = log[l]
           /\ log'[Len(log) + 1].merged = run[r].merge /\ log'[Len(log) + 1].kept = run[r].keep
           /\ log'[Len(log) + 1].state = "final"
           /\ log'[Len(log) + 1].dropped = {w[1] : w \in run[r].dropped}
           /\ log'[Len(log) + 1].items = {<<w[1], w[2]>> : w \in run[r].items}
<1> DEFINE entry == [kept |-> run[r].keep, merged |-> run[r].merge, row |-> run[r].mergeRow,
                     keptTitle |-> run[r].keepRow.title, listings |-> run[r].ids,
                     items |-> {<<w[1], w[2]>> : w \in run[r].items},
                     dropped |-> {w[1] : w \in run[r].dropped}, state |-> "final"]
<1>1. log' = Append(log, entry)
  BY DEF MergeCommit
<1>2. /\ entry.merged = run[r].merge /\ entry.kept = run[r].keep /\ entry.state = "final"
      /\ entry.dropped = {w[1] : w \in run[r].dropped}
      /\ entry.items = {<<w[1], w[2]>> : w \in run[r].items}
  OBVIOUS
<1> HIDE DEF entry
<1>3. log \in Seq(Merge) /\ Len(log) \in Nat /\ DOMAIN log = 1 .. Len(log)
  BY LogIs DEF CatalogueInd, CatalogueType
<1>4. /\ Len(log') = Len(log) + 1
      /\ \A l \in 1 .. Len(log) : log'[l] = log[l]
      /\ log'[Len(log) + 1] = entry
      /\ DOMAIN log' = 1 .. (Len(log) + 1)
  <2>1. log \in Seq(Merge \cup {entry}) /\ entry \in Merge \cup {entry}
    BY <1>3, SeqDef
  <2> QED BY <1>1, <1>3, <2>1, AppendProperties, LenProperties
<1>5. LogStays
  BY <1>3, <1>4 DEF LogStays
<1> QED BY <1>2, <1>3, <1>4, <1>5

\* Who watched the loser watches the keeper, and who watched another product
\* still does.
LEMMA CommitWatchers ==
    ASSUME CatalogueInd, WatchInd, NEW r \in Runs, MergeCommit(r),
           NEW k \in Products, NEW m \in Products, k = run[r].keep, m = run[r].merge,
           NEW last \in Nat, last = Len(log) + 1, NEW u, ~Excepted(u)'
    PROVE  /\ \A q : q # m /\ u \in Watching(q) => u \in Watching(q)'
           /\ u \in Watching(m) => k \in Existing' /\ u \in Watching(k)' /\ u \in MovedBy(last)'
<1> USE DEF CatalogueInd
<1>1. k # m /\ Existing' = Existing \ {m} /\ run[r].pc = "commit" /\ run[r] \in MergeRun
      /\ \A w \in watch : w[3] \in Existing
  BY CommitMoves DEF MergeCommit, CatalogueType, References, MergeRun
<1>2. /\ products[k] = Nothing => ~MovesAnything(r)
      /\ {w \in watch : w[3] = m} = run[r].items \cup run[r].dropped
  BY DEF MergeCommit, MergeFails
<1>3. watch' = (watch \ (run[r].items \cup run[r].dropped)) \cup {<<w[1], w[2], k>> : w \in run[r].items}
  BY DEF MergeCommit
<1>4. /\ \A l \in DOMAIN log : log'[l] = log[l]
      /\ DOMAIN log' = DOMAIN log \cup {last}
      /\ log'[last].kept = k /\ log'[last].dropped = {w[1] : w \in run[r].dropped}
      /\ log'[last].items = {<<w[1], w[2]>> : w \in run[r].items}
  BY CommitLog
<1>5. ASSUME NEW q, q # m, u \in Watching(q) PROVE u \in Watching(q)'
  <2>1. PICK w \in watch : w[1] = u /\ w[3] = q
    BY <1>5 DEF Watching
  <2>2. w \in watch'
    BY <1>2, <1>3, <1>5, <2>1
  <2> QED BY <2>1, <2>2 DEF Watching
<1>6. ASSUME u \in Watching(m)
      PROVE  k \in Existing' /\ u \in Watching(k)' /\ u \in MovedBy(last)'
  <2>1. PICK w \in watch : w[1] = u /\ w[3] = m
    BY <1>6 DEF Watching
  <2>2. CASE w \in run[r].items
    <3>1. k \in Existing
      BY <1>2, <2>2 DEF MovesAnything, Existing
    <3>2. PICK x, y : x = <<w[1], w[2], k>> /\ y = <<w[1], w[2]>>
      OBVIOUS
    <3>3. x \in watch' /\ x[1] = u /\ x[3] = k
      BY <1>3, <2>1, <2>2, <3>2
    <3>4. y \in log'[last].items /\ y[1] = u
      BY <1>4, <2>1, <2>2, <3>2
    <3>5. u \in MovedBy(last)'
      BY <3>4 DEF MovedBy
    <3>6. u \in Watching(k)'
      BY <3>3 DEF Watching
    <3> QED BY <1>1, <3>1, <3>5, <3>6
  <2>3. CASE w \in run[r].dropped
    <3>1. u \in log'[last].dropped
      BY <1>4, <2>1, <2>3
    <3>2. ~Excepted(u)
      BY CommitLog, ExceptedStays
    <3>3. ~\E l \in DOMAIN log : log[l].merged = k
      <4> SUFFICES ASSUME NEW l \in DOMAIN log, log[l].merged = k PROVE FALSE
        OBVIOUS
      <4>1. l \in 1 .. last - 1 /\ last \in DOMAIN log'
        BY LogIs, <1>4
      <4>2. log'[l].merged = log'[last].kept
        BY <1>4
      <4>3. Crossed(u)'
        BY <3>1, <4>1, <4>2 DEF Crossed
      <4> QED BY <4>3 DEF Excepted
    <3>4. u \in Watching(k)
      BY <1>1, <2>1, <2>3, <3>2, <3>3 DEF WatchInd, RowsWatched, DropFits
    <3>5. k \in Existing
      BY <1>1, <3>4 DEF Watching
    <3>6. u \in Watching(k)'
      BY <1>1, <1>5, <3>4
    <3>7. u \in MovedBy(last)'
      BY <3>1 DEF MovedBy
    <3> QED BY <1>1, <3>5, <3>6, <3>7
  <2> QED BY <1>2, <2>1, <2>2, <2>3
<1> QED BY <1>5, <1>6

\* The hops after a merge: the loser's is to the keeper, the others stay.
LEMMA CommitHops ==
    ASSUME CatalogueInd, NEW r \in Runs, MergeCommit(r),
           NEW k \in Products, NEW m \in Products, k = run[r].keep, m = run[r].merge
    PROVE  /\ SentTo(m)' = k
           /\ \A q \in Products : q # m => SentTo(q)' = SentTo(q)
<1> USE DEF CatalogueInd
<1>1. Existing' = Existing \ {m} /\ Len(log) \in Nat /\ DOMAIN log = 1 .. Len(log)
  BY CommitMoves, LogIs
<1>2. PICK last \in Nat : last = Len(log) + 1
  BY <1>1
<1>3. /\ DOMAIN log' = DOMAIN log \cup {last} /\ last \notin DOMAIN log
      /\ \A l \in DOMAIN log : log'[l] = log[l]
      /\ log'[last].merged = m /\ log'[last].kept = k /\ log'[last].state = "final"
  <2>1. last \notin DOMAIN log
    BY <1>1, <1>2
  <2> QED BY <1>2, <2>1, CommitLog
<1>4. SentTo(m)' = k
  <2>1. PICK S : S = Into(m)'
    OBVIOUS
  <2>2. last \in S /\ S \in SUBSET Int /\ \A i \in S : i <= last
    BY <1>1, <1>2, <1>3, <2>1 DEF Into
  <2>3. Max(S) \in S /\ \A i \in S : i <= Max(S)
    BY <2>2, GreatestOf
  <2>4. Max(S) \in Int /\ last \in Int /\ Max(S) <= last /\ last <= Max(S)
    BY <2>2, <2>3
  <2>5. Max(S) = last
    BY <2>4
  <2>6. Into(m)' # {} /\ Max(Into(m)') = last /\ m \notin Existing'
    BY <1>1, <2>1, <2>2, <2>5
  <2> QED BY <1>3, <2>6 DEF SentTo
<1>5. ASSUME NEW q \in Products, q # m PROVE SentTo(q)' = SentTo(q)
  <2>1. Into(q)' = Into(q)
    BY <1>3, <1>5 DEF Into
  <2>2. Into(q) # {} => Max(Into(q)) \in DOMAIN log
    BY SentToProduct DEF Into
  <2> QED BY <1>1, <1>3, <1>5, <2>1, <2>2 DEF SentTo
<1> QED BY <1>4, <1>5

\* A way to the loser goes on to the keeper.
LEMMA CommitLeads ==
    ASSUME CatalogueInd, WatchInd, NEW r \in Runs, MergeCommit(r), NEW u, NEW p, ~Excepted(u)', Led(u, p)
    PROVE  Led(u, p)'
<1> USE DEF CatalogueInd
<1>1. PICK k \in Products, m \in Products : k = run[r].keep /\ m = run[r].merge /\ k # m
  BY CommitMoves DEF MergeRun
<1>2. PICK size \in Nat, last \in Nat : size = Len(log) /\ last = Len(log) + 1
  <2>1. Len(log) \in Nat /\ Len(log) + 1 \in Nat
    BY LogIs
  <2> QED BY <2>1
<1>3. PICK f \in [0 .. size -> Products] : Leads(u, p, f)
  BY <1>2 DEF Led
<1>4. /\ f[0] = p /\ u \in Watching(f[size])
      /\ \A n \in 1 .. size : f[n] = SentTo(f[n - 1])
      /\ \A n \in 0 .. size : f[n] \notin Existing => \E l \in DOMAIN log : log[l].merged = f[n] /\ u \in MovedBy(l)
  BY <1>2, <1>3 DEF Leads
<1>5. m \in Existing /\ Existing' = Existing \ {m} /\ f[size] \in Existing
  <2>1. m \in Existing
    BY <1>1 DEF MergeCommit, MergeFails, Existing
  <2>2. f[size] \in Existing
    BY <1>4 DEF Watching, CatalogueType, References
  <2> QED BY <1>1, <2>1, <2>2, CommitMoves
<1>6. /\ LogStays /\ Len(log') = last /\ DOMAIN log' = DOMAIN log \cup {last} /\ log'[last].merged = m
      /\ \A l \in DOMAIN log : log'[l].merged = log[l].merged /\ MovedBy(l)' = MovedBy(l)
  BY <1>1, <1>2, CommitLog, ExceptedStays
<1>7. /\ SentTo(m)' = k
      /\ \A q \in Products : q # m => SentTo(q)' = SentTo(q)
      /\ \A q : q # m /\ u \in Watching(q) => u \in Watching(q)'
      /\ u \in Watching(m) => k \in Existing' /\ u \in Watching(k)' /\ u \in MovedBy(last)'
  BY <1>1, <1>2, CommitHops, CommitWatchers
<1>8. \A n \in 0 .. size : f[n] = m => \A i \in 0 .. size : n <= i => f[i] = m
  BY <1>2, <1>3, <1>5, StaysThere
<1>9. ASSUME NEW g \in [0 .. last -> Products], g[0] = p, u \in Watching(g[last])',
             \A n \in 1 .. last : g[n] = SentTo(g[n - 1])',
             \A n \in 0 .. last : \/ n <= size /\ g[n] = f[n] /\ (f[n] = m => u \in MovedBy(last)')
                                  \/ g[n] \in Existing'
      PROVE  Led(u, p)'
  <2>1. ASSUME NEW n \in 0 .. last, g[n] \notin Existing'
        PROVE  \E l \in DOMAIN log' : log'[l].merged = g[n] /\ u \in MovedBy(l)'
    <3>1. n \in 0 .. size /\ g[n] = f[n] /\ (f[n] = m => u \in MovedBy(last)')
      BY <1>2, <1>9, <2>1
    <3>2. CASE f[n] = m
      BY <1>6, <3>1, <3>2
    <3>3. CASE f[n] # m
      <4>1. f[n] \notin Existing
        BY <1>5, <2>1, <3>1, <3>3
      <4>2. PICK l \in DOMAIN log : log[l].merged = f[n] /\ u \in MovedBy(l)
        BY <1>4, <3>1, <4>1
      <4> QED BY <1>6, <3>1, <4>2
    <3> QED BY <3>2, <3>3
  <2>2. Leads(u, p, g)'
    BY <1>6, <1>9, <2>1 DEF Leads
  <2> QED BY <1>6, <2>2 DEF Led
<1>10. CASE f[size] # m
  <2>1. PICK g \in [0 .. last -> Products] : \A n \in 0 .. last : g[n] = IF n <= size THEN f[n] ELSE f[size]
    <3>1. [n \in 0 .. last |-> IF n <= size THEN f[n] ELSE f[size]] \in [0 .. last -> Products]
      BY <1>2
    <3> QED BY <3>1
  <2>2. \A n \in 0 .. size : g[n] = f[n] /\ f[n] # m
    BY <1>2, <1>8, <1>10, <2>1
  <2>3. g[last] = f[size] /\ f[size] \in Existing' /\ last - 1 = size
    BY <1>2, <1>5, <1>10, <2>1
  <2>4. ASSUME NEW n \in 1 .. last PROVE g[n] = SentTo(g[n - 1])'
    <3>1. CASE n \in 1 .. size
      <4>1. n - 1 \in 0 .. size /\ n \in 0 .. size
        BY <1>2, <3>1
      <4>2. PICK q \in Products : q = f[n - 1] /\ q = g[n - 1] /\ q # m
        BY <2>2, <4>1
      <4>3. f[n] = SentTo(q) /\ g[n] = f[n]
        BY <1>4, <2>2, <3>1, <4>1, <4>2
      <4>4. SentTo(q)' = SentTo(q)
        BY <1>7, <4>2
      <4> QED BY <4>2, <4>3, <4>4
    <3>2. CASE n = last
      <4>1. PICK q \in Products : q = f[size]
        BY <1>2
      <4>2. g[n - 1] = q /\ g[n] = q /\ size \in 0 .. size
        BY <1>2, <2>2, <2>3, <3>2, <4>1
      <4>3. SentTo(q)' = q
        BY <2>3, <4>1 DEF SentTo
      <4> QED BY <4>2, <4>3
    <3> QED BY <1>2, <3>1, <3>2
  <2>5. u \in Watching(g[last])'
    <3>1. PICK q : q = g[last]
      OBVIOUS
    <3>2. u \in Watching(q)'
      BY <1>4, <1>7, <1>10, <2>3, <3>1
    <3> QED BY <3>1, <3>2
  <2>6. \A n \in 0 .. last : \/ n <= size /\ g[n] = f[n] /\ (f[n] = m => u \in MovedBy(last)')
                             \/ g[n] \in Existing'
    <3> SUFFICES ASSUME NEW n \in 0 .. last
                 PROVE  (n \in 0 .. size /\ g[n] = f[n] /\ f[n] # m) \/ g[n] \in Existing'
      OBVIOUS
    <3>1. n \in 0 .. size \/ n = last
      BY <1>2
    <3> QED BY <2>2, <2>3, <3>1
  <2>7. g[0] = p
    BY <1>2, <1>4, <2>2
  <2> QED BY <1>9, <2>1, <2>4, <2>5, <2>6, <2>7
<1>11. CASE f[size] = m
  <2>1. k \in Existing' /\ u \in Watching(k)' /\ u \in MovedBy(last)' /\ SentTo(k)' = k
    <3>1. k \in Existing' /\ u \in Watching(k)' /\ u \in MovedBy(last)'
      BY <1>4, <1>7, <1>11
    <3> QED BY <3>1 DEF SentTo
  <2>2. PICK g \in [0 .. last -> Products] :
          \A n \in 0 .. last : g[n] = IF n = 0 THEN p ELSE IF f[n - 1] = m THEN k ELSE f[n]
    <3>1. \A n \in 0 .. last : n = 0 \/ (n - 1 \in 0 .. size /\ (f[n - 1] = m \/ n \in 0 .. size))
      BY <1>2, <1>11
    <3>2. \A n \in 0 .. last : (IF n = 0 THEN p ELSE IF f[n - 1] = m THEN k ELSE f[n]) \in Products
      BY <1>2, <1>4, <3>1
    <3>3. [n \in 0 .. last |-> IF n = 0 THEN p ELSE IF f[n - 1] = m THEN k ELSE f[n]] \in [0 .. last -> Products]
      BY <3>2
    <3> QED BY <3>3
  <2>3. \A n \in 0 .. last : (n \in 0 .. size /\ g[n] = f[n]) \/ (n # 0 /\ n - 1 \in 0 .. size /\ f[n - 1] = m /\ g[n] = k)
    <3> SUFFICES ASSUME NEW n \in 0 .. last
                 PROVE  (n \in 0 .. size /\ g[n] = f[n]) \/ (n # 0 /\ n - 1 \in 0 .. size /\ f[n - 1] = m /\ g[n] = k)
      OBVIOUS
    <3>1. CASE n = 0
      BY <1>2, <1>4, <2>2, <3>1
    <3>2. CASE n # 0 /\ f[n - 1] = m
      BY <1>2, <2>2, <3>2
    <3>3. CASE n # 0 /\ f[n - 1] # m
      <4>1. n - 1 # size
        BY <1>11, <3>3
      <4> QED BY <1>2, <2>2, <3>3, <4>1
    <3> QED BY <3>1, <3>2, <3>3
  <2>4. ASSUME NEW n \in 1 .. last PROVE g[n] = SentTo(g[n - 1])'
    <3>1. n - 1 \in 0 .. last /\ n - 1 \in 0 .. size /\ n \in 0 .. last /\ n # 0
      BY <1>2
    <3>2. CASE f[n - 1] = m
      <4>1. g[n] = k
        BY <2>2, <3>1, <3>2
      <4>2. g[n - 1] = m \/ g[n - 1] = k
        BY <2>3, <3>1, <3>2
      <4> QED BY <1>7, <2>1, <4>1, <4>2
    <3>3. CASE f[n - 1] # m
      <4>1. n \in 1 .. size /\ g[n] = f[n]
        <5>1. n - 1 # size
          BY <1>11, <3>3
        <5> QED BY <1>2, <2>2, <3>1, <3>3, <5>1
      <4>2. g[n - 1] = f[n - 1]
        <5> SUFFICES ASSUME n - 1 # 0, n - 1 - 1 \in 0 .. size, f[n - 1 - 1] = m PROVE FALSE
          BY <2>3, <3>1
        <5>1. n - 1 - 1 <= n - 1
          BY <1>2
        <5> QED BY <1>8, <3>1, <3>3, <5>1
      <4>3. PICK q \in Products : q = f[n - 1] /\ q # m /\ g[n - 1] = q
        BY <3>1, <3>3, <4>2
      <4>4. SentTo(q)' = SentTo(q) /\ g[n] = SentTo(q)
        BY <1>4, <1>7, <4>1, <4>3
      <4> QED BY <4>3, <4>4
    <3> QED BY <3>2, <3>3
  <2>5. g[last] = k /\ g[0] = p
    BY <1>2, <1>11, <2>2
  <2>6. u \in Watching(g[last])'
    BY <2>1, <2>5
  <2>7. \A n \in 0 .. last : \/ n <= size /\ g[n] = f[n] /\ (f[n] = m => u \in MovedBy(last)')
                             \/ g[n] \in Existing'
    <3> SUFFICES ASSUME NEW n \in 0 .. last
                 PROVE  (n <= size /\ g[n] = f[n]) \/ g[n] \in Existing'
      BY <2>1
    <3>1. n \in 0 .. size => n <= size
      OBVIOUS
    <3> QED BY <2>1, <2>3, <3>1
  <2> QED BY <1>9, <2>2, <2>4, <2>5, <2>6, <2>7
<1> QED BY <1>10, <1>11

LEMMA CommitWatch ==
    ASSUME CatalogueInd, WatchInd, NEW r \in Runs, MergeCommit(r)
    PROVE  WatchInd'
<1> USE DEF CatalogueInd
<1>1. PICK k \in Products, m \in Products : k = run[r].keep /\ m = run[r].merge /\ k # m
  BY CommitMoves DEF MergeRun
<1>2. PICK last \in Nat : last = Len(log) + 1
  BY LogIs
<1>3. /\ LogStays /\ DOMAIN log' = DOMAIN log \cup {last} /\ log'[last].merged = m
      /\ \A l \in DOMAIN log : log'[l] = log[l]
  BY <1>1, <1>2, CommitLog
<1>4. /\ Existing' = Existing \ {m} /\ m \in Existing
      /\ UNCHANGED <<founded, watched>>
      /\ \A q \in Runs \ {r} : run'[q] = run[q]
      /\ run'[r].pc = "pick"
  <2>1. m \in Existing
    BY <1>1 DEF MergeCommit, MergeFails, Existing
  <2> QED BY <1>1, <2>1, CommitMoves DEF MergeCommit, CatalogueType
<1>5. \A u : Excepted(u) => Excepted(u)'
  BY <1>3, ExceptedStays
<1>6. WatchesLead'
  <2>1. ASSUME NEW w \in watched, ~Excepted(w[1])' PROVE Led(w[1], w[2])'
    <3>1. PICK u, p : u = w[1] /\ p = w[2]
      OBVIOUS
    <3>2. Led(u, p) /\ ~Excepted(u)'
      BY <1>5, <2>1, <3>1 DEF WatchInd, WatchesLead
    <3>3. Led(u, p)'
      BY <3>2, CommitLeads
    <3> QED BY <3>1, <3>3
  <2> QED BY <1>4, <2>1 DEF WatchInd, WatchesLead
<1>7. IdsKnown'
  BY <1>3, <1>4 DEF WatchInd, IdsKnown
<1>8. ASSUME NEW q \in Runs PROVE (DropFits(run[q]) /\ VerdictFits(run[q]))'
  <2>1. CASE q = r
    BY <1>4, <2>1 DEF DropFits, VerdictFits
  <2>2. CASE q # r
    <3>1. PICK row : row = run[q] /\ row = run'[q]
      BY <1>4, <2>2
    <3>2. DropFits(row) /\ VerdictFits(row)
      BY <3>1 DEF WatchInd, RowsWatched
    <3>3. DropFits(row)'
      <4>1. ASSUME row.pc = "commit", NEW w \in row.dropped, ~Excepted(w[1])'
            PROVE  w[1] \in Watching(row.keep)' \/ \E l \in DOMAIN log' : log'[l].merged = row.keep
        <5>1. w[1] \in Watching(row.keep) \/ \E l \in DOMAIN log : log[l].merged = row.keep
          BY <1>5, <3>2, <4>1 DEF DropFits
        <5>2. PICK u, c : u = w[1] /\ c = row.keep
          OBVIOUS
        <5>3. CASE c = m \/ \E l \in DOMAIN log : log[l].merged = c
          BY <1>3, <5>2, <5>3
        <5>4. CASE c # m /\ u \in Watching(c)
          BY <1>1, <1>2, <4>1, <5>2, <5>4, CommitWatchers
        <5> QED BY <5>1, <5>2, <5>3, <5>4
      <4> QED BY <4>1 DEF DropFits
    <3>4. VerdictFits(row)'
      <4>1. ASSUME row.pc = "review", NEW l \in row.pending, log'[l].state = "undone"
            PROVE  ~SaysSame(log'[l].row, [title |-> log'[l].keptTitle])
        <5>1. l \in DOMAIN log
          BY <3>1, <4>1, PendingInLog
        <5> QED BY <1>3, <3>2, <4>1, <5>1 DEF VerdictFits
      <4> QED BY <4>1 DEF VerdictFits
    <3> QED BY <3>1, <3>3, <3>4 DEF DropFits, VerdictFits
  <2> QED BY <2>1, <2>2
<1> QED BY <1>6, <1>7, <1>8 DEF WatchInd, RowsWatched

LEMMA WatchStep ==
    ASSUME CatalogueInd, WatchInd, [CatalogueNext]_catalogueVars
    PROVE  WatchInd'
<1>1. CASE \E j \in Jobs, o \in Offers : Match(j, o) \/ HoldOffer(j, o)
  BY <1>1, ScrapeWatch
<1>2. CASE \E j \in Jobs : Create(j) \/ Upsert(j) \/ Reject(j) \/ AppendPoint(j)
  <2>1. PICK j \in Jobs : Create(j) \/ Upsert(j) \/ Reject(j) \/ AppendPoint(j)
    BY <1>2
  <2>2. job[j].offer \in Offers
    <3>1. job[j].pc \in {"create", "upsert", "append"}
      BY <2>1 DEF Create, Upsert, Reject, AppendPoint
    <3> QED BY <3>1, JobsHold DEF JobCall, CatalogueInd
  <2> QED BY <2>1, <2>2, ScrapeWatch
<1>3. CASE \E r \in Runs :
             \/ BeginReconcile(r) \/ ReviewApproves(r) \/ ReviewUndoes(r) \/ LoadProducts(r) \/ PickPair(r)
             \/ MergeMove(r) \/ MergeCommit(r) \/ MergeAbort(r) \/ EndRun(r)
             \/ BeginCleanup(r) \/ CleanPair(r) \/ DeleteEmpty(r) \/ RepointHistory(r)
  BY <1>3, RunsGoOnWatch, ApproveWatch, UndoWatch, CommitWatch, DeleteWatch, RepointWatch
<1>4. CASE \E u \in Users, p \in Products : WatchProduct(u, p)
  BY <1>4, ShopperWatch
<1>5. CASE UNCHANGED catalogueVars
  <2>1. UNCHANGED <<products, watch, log, founded, watched, run>>
    BY <1>5 DEF catalogueVars, shared
  <2>2. Existing' = Existing /\ Existing \subseteq founded \cup Taken
    BY <2>1 DEF Existing, WatchInd, IdsKnown
  <2> QED BY <2>1, <2>2, Quietly DEF CatalogueInd
<1> QED BY <1>1, <1>2, <1>3, <1>4, <1>5 DEF CatalogueNext

LEMMA WatchStart == CatalogueInit /\ WatchesLead => WatchInd
<1> SUFFICES ASSUME CatalogueInit, WatchesLead PROVE WatchInd
  OBVIOUS
<1>1. RowsWatched
  BY DEF CatalogueInit, RowsWatched, DropFits, VerdictFits, Idle
<1>2. Existing \subseteq Taken
  BY DEF CatalogueInit, Existing, Taken
<1>3. \A l \in DOMAIN log : log[l].merged \in Taken
  BY DEF CatalogueInit, Taken, Range
<1> QED BY <1>1, <1>2, <1>3 DEF WatchInd, IdsKnown

\* A merge takes nobody's watch away (reconciliation.service.ts:465), whatever
\* watches, merges, undone merges and cleanups come between its statements: who
\* put a product on the watchlist watches what its page leads to, but for those
\* an undo or a crossing merge has moved.  The first watches lead there too.
THEOREM WatchesStay == CatalogueSpec /\ WatchesLead => []WatchersKept
<1>1. CatalogueInit /\ WatchesLead => CatalogueInd /\ WatchInd
  BY WatchStart, StartCatalogue
<1>2. CatalogueInd /\ WatchInd /\ [CatalogueNext]_catalogueVars => (CatalogueInd /\ WatchInd)'
  BY WatchStep, CatalogueStep
<1>3. CatalogueInd /\ WatchInd => WatchersKept
  BY LedIsHome DEF CatalogueInd
<1> QED BY <1>1, <1>2, <1>3, PTL DEF CatalogueSpec

\* The same for a catalogue nothing has been merged in, with no hypothesis about ways.
THEOREM WatchesStayFromNew ==
    ASSUME Legacy = <<>>, \A w \in WatchedAt : w[3] = w[2]
    PROVE  CatalogueSpec => []WatchersKept
<1>1. CatalogueInit => WatchesLead
  <2> SUFFICES ASSUME CatalogueInit PROVE WatchesLead
    OBVIOUS
  <2>1. log = <<>> /\ Len(log) = 0 /\ DOMAIN log = {} /\ watch = WatchedAt /\ watched = {<<w[1], w[2]>> : w \in WatchedAt}
    BY DEF CatalogueInit
  <2>2. ASSUME NEW w \in WatchedAt PROVE Led(w[1], w[2]) /\ w[1] \in Users /\ w[2] \in Products
    <3>1. w[1] \in Users /\ w[2] \in Products /\ w[3] = w[2] /\ w[3] \in DOMAIN Stored
      BY CatalogueAssumption
    <3>2. PICK u \in Users, p \in Products : u = w[1] /\ p = w[2] /\ p = w[3] /\ p \in Existing
      <4>1. PICK u \in Users, p \in Products : u = w[1] /\ p = w[2] /\ p = w[3]
        BY <3>1
      <4>2. p \in DOMAIN Stored /\ Stored[p] # Nothing
        BY <3>1, <4>1, CatalogueAssumption
      <4>3. products[p] = Stored[p]
        BY <4>2 DEF CatalogueInit
      <4> QED BY <4>1, <4>2, <4>3 DEF Existing
    <3>3. PICK f \in [0 .. 0 -> Products] : f[0] = p
      <4>1. PICK f : f = [n \in 0 .. 0 |-> p]
        OBVIOUS
      <4>2. 0 \in 0 .. 0
        OBVIOUS
      <4>3. f \in [0 .. 0 -> Products] /\ f[0] = p
        BY <4>1, <4>2
      <4> QED BY <4>3
    <3>4. u \in Watching(p)
      BY <2>1, <3>2 DEF Watching
    <3>5. Leads(u, p, f)
      BY <2>1, <3>2, <3>3, <3>4 DEF Leads
    <3> QED BY <2>1, <3>1, <3>2, <3>5 DEF Led
  <2> QED BY <2>1, <2>2 DEF WatchesLead
<1> QED BY <1>1, WatchesStay, PTL DEF CatalogueSpec

----
(* The two ends of a scrape, side by side *)

\* MCIngestion adds no behaviour to the two components it checks together: what
\* is proved of each holds of the run.
THEOREM IngestionIsBoth == IngestionSpec => CatalogueSpec /\ BrowserSpec
<1>1. IngestionInit => CatalogueInit /\ BrowserInit
  BY DEF IngestionInit
<1>2. [IngestionNext]_ingestionVars => [CatalogueNext]_catalogueVars /\ [BrowserNext]_browserVars
  BY DEF IngestionNext, ingestionVars, catalogueVars, browserVars
<1> QED BY <1>1, <1>2, PTL DEF IngestionSpec, CatalogueSpec, BrowserSpec

\* The catalogue's rows, jobs and merges and the browsers' counts and pages keep
\* their types, over every interleaving of jobs, reconciliations, cleanups and searches.
THEOREM IngestionTypeCorrect == IngestionSpec => []IngestionType
<1>1. CatalogueType /\ BrowserInd => IngestionType
  BY DEF IngestionType, BrowserInd
<1> QED BY <1>1, IngestionIsBoth, CatalogueTypeCorrect, BrowsersInvariant, PTL
====
