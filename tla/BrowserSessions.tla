---- MODULE BrowserSessions ----
(***************************************************************************)
(* BrowserSessionService for one store: the browser that all searches of   *)
(* the store share, launched when the first one asks for a page, dropped   *)
(* when it is found unusable and recycled when it has served MaxPages.     *)
(*                                                                         *)
(* Launch l is the l-th browser of the process.  A statement up to its     *)
(* await is one action; crashes and close events come at any time.  The    *)
(* pages that a profile opens with are left out: they are closed by the    *)
(* object captured at launch, and the one kept never is.                   *)
(***************************************************************************)
EXTENDS Naturals, FiniteSets, FiniteSetsExt

CONSTANTS
    Callers,      \* searches that may be under way at once
    NoBrowser,    \* no entry in contexts, or a refused launch
    MaxPages,     \* MAX_PAGES_PER_BROWSER
    MaxLaunches, MaxKills  \* bounds on the launches and on the browsers that die

ASSUME BrowserAssumption ==
    /\ IsFiniteSet(Callers)
    /\ MaxPages \in Nat \ {0}
    /\ MaxLaunches \in Nat /\ NoBrowser \notin 1..MaxLaunches

Launches == 1..MaxLaunches

VARIABLES
    browser,    \* browser[l]: what became of launch l
    cached,     \* contexts: the launch that callers are given
    usage,      \* usage[l]: the pages counted for l, open and served (up to MaxPages)
    recent,     \* has a launch failed less than LAUNCH_RETRY_MS ago?
    caller,     \* caller[c]: the getPage() or the search of c
    kills

browserVars == <<browser, cached, usage, recent, caller, kills>>

NoPage == [pc |-> "idle", on |-> NoBrowser, counted |-> NoBrowser]

BrowserType ==
    /\ browser \in [Launches -> {"none", "launching", "live", "failed", "closing", "dead"}]
    /\ cached \in Launches \cup {NoBrowser}
    /\ usage \in [Launches -> [served : 0..MaxPages, open : Nat]]
    /\ recent \in BOOLEAN
    /\ caller \in [Callers -> [pc : {"idle", "first", "again", "opened", "search"},
                               on : Launches \cup {NoBrowser}, counted : Launches \cup {NoBrowser}]]
    /\ cached # NoBrowser => browser[cached] \notin {"none", "failed", "closing"}

BrowserInit ==
    /\ browser = [l \in Launches |-> "none"]
    /\ cached = NoBrowser
    /\ usage = [l \in Launches |-> [served |-> 0, open |-> 0]]
    /\ recent = FALSE
    /\ caller = [c \in Callers |-> NoPage]
    /\ kills = 0

----
(* getPage *)

\* getContext, for a caller that finds `found` in contexts: that browser, a
\* refusal while a failed launch is recent, or a launch, which the bound allows.
GetContext(c, found, pc) ==
    \/ /\ found # NoBrowser \/ recent
       /\ cached' = found
       /\ caller' = [caller EXCEPT ![c] = [NoPage EXCEPT !.pc = pc, !.on = found]]
       /\ UNCHANGED browser
    \/ /\ found = NoBrowser /\ ~recent
       /\ \E l \in Launches :
             /\ browser[l] = "none" /\ \A k \in 1..(l - 1) : browser[k] # "none"
             /\ browser' = [browser EXCEPT ![l] = "launching"]
             /\ cached' = l
             /\ caller' = [caller EXCEPT ![c] = [NoPage EXCEPT !.pc = pc, !.on = l]]

GetPage(c) ==
    /\ caller[c].pc = "idle"
    /\ GetContext(c, cached, "first")
    /\ UNCHANGED <<usage, recent, kills>>

\* newPage on a browser that has been launched and is still there.
NewPage(c) ==
    /\ caller[c].pc \in {"first", "again"}
    /\ caller[c].on # NoBrowser /\ browser[caller[c].on] = "live"
    /\ caller' = [caller EXCEPT ![c].pc = "opened"]
    /\ UNCHANGED <<browser, cached, usage, recent, kills>>

Unusable(c) == caller[c].on # NoBrowser => browser[caller[c].on] \in {"failed", "closing", "dead"}

\* "Drop it and launch a fresh one, once": evict() drops whatever is cached.
Relaunch(c) ==
    /\ caller[c].pc = "first" /\ Unusable(c)
    /\ GetContext(c, NoBrowser, "again")
    /\ UNCHANGED <<usage, recent, kills>>

\* The second failure is the caller's.
GivesUp(c) ==
    /\ caller[c].pc = "again" /\ Unusable(c)
    /\ caller' = [caller EXCEPT ![c] = NoPage]
    /\ UNCHANGED <<browser, cached, usage, recent, kills>>

\* track, after the await of closeStrayPages: the page is counted for the
\* browser cached by now.  The close event of a page that has died may be past.
Track(c) ==
    /\ caller[c].pc = "opened"
    /\ usage' = IF cached = NoBrowser THEN usage
                ELSE [usage EXCEPT ![cached] =
                          [served |-> Min({@.served + 1, MaxPages}), open |-> @.open + 1]]
    /\ \E heard \in {TRUE} \cup {browser[caller[c].on] # "dead"} :
           caller' = [caller EXCEPT ![c].pc = "search", ![c].counted = IF heard THEN cached ELSE NoBrowser]
    /\ UNCHANGED <<browser, cached, recent, kills>>

----
(* The close event of a page *)

\* Callers whose getPage() has not returned.
Opening == {c \in Callers : caller[c].pc \in {"first", "again", "opened"}}

\* Mutant of Recycles: callers that are being given a page are overlooked.
RecyclesWhileOpening(l) ==
    /\ usage[l].open = 1 /\ usage[l].served >= MaxPages
    /\ cached = l

\* The last page of a browser that has served enough, with no page to come.
Recycles(l) ==
    /\ usage[l].open = 1 /\ usage[l].served >= MaxPages
    /\ Opening = {}
    /\ cached = l

\* The search closes its page, or the page went down with its browser.
PageCloses(c) ==
    LET l == caller[c].counted IN
    /\ caller[c].pc = "search"
    /\ caller' = [caller EXCEPT ![c] = NoPage]
    /\ IF l = NoBrowser THEN UNCHANGED <<browser, cached, usage>>
       ELSE /\ usage' = [usage EXCEPT ![l].open = @ - 1]
            /\ IF Recycles(l)
               THEN /\ cached' = NoBrowser
                    /\ browser' = [browser EXCEPT ![l] = IF @ = "live" THEN "closing" ELSE @]
               ELSE UNCHANGED <<browser, cached>>
    /\ UNCHANGED <<recent, kills>>

----
(* The browsers *)

EvictOnly(l) == cached' = IF cached = l THEN NoBrowser ELSE cached

Launched(l) ==
    /\ browser[l] = "launching"
    /\ browser' = [browser EXCEPT ![l] = "live"]
    /\ recent' = FALSE
    /\ UNCHANGED <<cached, usage, caller, kills>>

\* Mutant of LaunchFails: the failed launch stays cached.
LaunchFailsCached(l) ==
    /\ browser[l] = "launching"
    /\ browser' = [browser EXCEPT ![l] = "failed"]
    /\ recent' = TRUE
    /\ UNCHANGED <<cached, usage, caller, kills>>

LaunchFails(l) ==
    /\ browser[l] = "launching"
    /\ browser' = [browser EXCEPT ![l] = "failed"]
    /\ recent' = TRUE
    /\ EvictOnly(l)
    /\ UNCHANGED <<usage, caller, kills>>

Dies(l) ==
    /\ browser[l] = "live"
    /\ kills < MaxKills
    /\ kills' = kills + 1
    /\ browser' = [browser EXCEPT ![l] = "dead"]
    /\ UNCHANGED <<cached, usage, recent, caller>>

\* The close event of a browser that died ...
CloseEvent(l) ==
    /\ browser[l] = "dead" /\ cached = l
    /\ EvictOnly(l)
    /\ UNCHANGED <<browser, usage, recent, caller, kills>>

\* ... and the end of closeStore.
Closed(l) ==
    /\ browser[l] = "closing"
    /\ browser' = [browser EXCEPT ![l] = "dead"]
    /\ UNCHANGED <<cached, usage, recent, caller, kills>>

\* A failed or refused launch goes on in the same turn of the event loop.
RetryTime ==
    /\ recent
    /\ \A c \in Callers : caller[c].pc \in {"first", "again"} =>
          caller[c].on # NoBrowser /\ browser[caller[c].on] # "failed"
    /\ recent' = FALSE
    /\ UNCHANGED <<browser, cached, usage, caller, kills>>

BrowserNext ==
    \/ \E c \in Callers :
          GetPage(c) \/ NewPage(c) \/ Relaunch(c) \/ GivesUp(c) \/ Track(c) \/ PageCloses(c)
    \/ \E l \in Launches : Launched(l) \/ LaunchFails(l) \/ Dies(l) \/ CloseEvent(l) \/ Closed(l)
    \/ RetryTime

BrowserSpec == BrowserInit /\ [][BrowserNext]_browserVars

----
(* Properties *)

\* "at a moment none of its pages is open": no search has its page, or is being
\* given one, in a browser that is being recycled, although pages are opened,
\* counted and closed in separate steps and may be counted for a browser that
\* was launched after theirs.
RecycleSparesPages ==
    \A c \in Callers : caller[c].on # NoBrowser /\ browser[caller[c].on] = "closing" => caller[c].pc = "idle"

\* "This process is the profile's only user, so a lock found here is always
\* stale" (launchContext): no browser is launched while another one has the
\* profile.
OneBrowserPerProfile ==
    Cardinality({l \in Launches : browser[l] \in {"launching", "live", "closing"}}) <= 1

\* "Forgets a store's browser" when it is gone: a browser that runs is the one
\* that callers are given, or is being closed.
NoBrowserForgotten == \A l \in Launches : browser[l] = "live" => cached = l

\* A browser is recycled "once it has served enough and is idle": when no search
\* is under way, its count of open pages is back at zero.
CountsReturn ==
    (\A c \in Callers : caller[c].pc = "idle") => \A l \in Launches : cached = l /\ browser[l] = "live" => usage[l].open = 0
====
