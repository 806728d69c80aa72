---- MODULE Alerts ----
(***************************************************************************)
(* PriceAlertService and the alerts of WatchlistService, for one product.  *)
(*                                                                         *)
(* Sender w is also a run of the sweep: sweep[w] holds the alerts it read, *)
(* the market it read after them and the time it took after both.  A sweep *)
(* outlives its schedule, so sweeps overlap; each goes through its alerts  *)
(* one database statement at a time, on rows that another sweep or the     *)
(* owner may have changed since.  An alert that fires calls dispatch.      *)
(***************************************************************************)
EXTENDS Notifications

CONSTANTS
    AlertIds,     \* ids alerts may get
    Kinds,        \* alert types: RESTOCK, and PRICE_TARGET for those that look at the price alone
    Markets,      \* what the market of the product may look like
    Cooldown,     \* cooldownHours, at least 1
    ActiveAlerts, \* the plan's limit on active alerts
    MaxArms       \* bound on how often an alert is armed

Stock == BOOLEAN \cup {None}

\* The best price is low enough for a target, too high, or missing when
\* nothing is sold; stock is unknown when no store publishes it.
Market == [price : {"low", "high", None}, stock : Stock]

AlertRow ==
    [kind : Kinds, repeatable : BOOLEAN, status : {"ACTIVE", "TRIGGERED"},
     last : 0..MaxHour \cup {None},     \* lastNotifiedAt
     seen : Stock]                      \* lastSeenInStock

ASSUME AlertAssumption ==
    /\ AlertIds \subseteq Nat
    /\ Kinds \subseteq {"PRICE_TARGET", "RESTOCK"}
    /\ Markets \subseteq Market
    /\ Cooldown \in 1..720 /\ MaxArms \in Nat \ {0}
    /\ None \notin BOOLEAN /\ None \notin AlertRow

VARIABLES
    alerts,    \* table price_alerts: alerts[a], None for no row
    market,    \* the live offers of the product
    sweep,     \* sweep[w]: a run of evaluateActiveAlerts
    owner,     \* the create or reactivate request of the owner in progress
    arms,      \* arms[a]: how often a was created or reactivated
    soldOut    \* has a listing ever said that the product is sold out?

alertVars == <<alerts, market, sweep, owner, arms, soldOut>>
allVars == <<vars, alertVars>>

\* What a sweep read, of the alerts that it has not been through yet.
AlertRows == UNION {[S -> AlertRow] : S \in SUBSET AlertIds}
SweepRun == [pc : {"idle", "market", "alerts"}, rows : AlertRows, market : Market \cup {None}, at : 0..MaxHour]

NoSweep == [pc |-> "idle", rows |-> <<>>, market |-> None, at |-> 0]
NoRequest == [pc |-> "idle", alert |-> 0, row |-> None]

AlertsType ==
    /\ TypeOK
    /\ alerts \in [AlertIds -> AlertRow \cup {None}]
    /\ market \in Market
    /\ sweep \in [Senders -> SweepRun]
    /\ owner \in [pc : {"idle", "create", "reactivate"}, alert : AlertIds \cup {0}, row : AlertRow \cup {None}]
    /\ arms \in [AlertIds -> 0..MaxArms]
    /\ soldOut \in BOOLEAN

AlertsInit ==
    /\ Init
    /\ alerts = [a \in AlertIds |-> None]
    /\ market \in Markets
    /\ sweep = [w \in Senders |-> NoSweep]
    /\ owner = NoRequest
    /\ arms = [a \in AlertIds |-> 0]
    /\ soldOut \in {TRUE, market.stock = FALSE}

----
(* The sweep *)

Exists(a) == alerts[a] # None
Active == {a \in AlertIds : Exists(a) /\ alerts[a].status = "ACTIVE"}

\* Bound: a run starts only while the notifications it may create have room.
Busy(w) == sweep[w].pc # "idle" \/ sending[w].pc # "idle"

SweepRead(w) ==
    /\ sweep[w].pc = "idle" /\ sending[w].pc = "idle"
    /\ Active # {}
    /\ Len(notes) + Cardinality(AlertIds) * Cardinality({v \in Senders : Busy(v)} \cup {w}) <= MaxNotes
    /\ sweep' = [sweep EXCEPT ![w] = [NoSweep EXCEPT !.pc = "market", !.rows = [a \in Active |-> alerts[a]]]]
    /\ UNCHANGED <<vars, alerts, market, owner, arms, soldOut>>

\* Mutant of SweepMarket: the end of the cooldown for the time of the run.
SweepMarketDue(w) ==
    /\ sweep[w].pc = "market"
    /\ sweep' = [sweep EXCEPT ![w].pc = "alerts", ![w].market = market, ![w].at = hour + Cooldown]
    /\ UNCHANGED <<vars, alerts, market, owner, arms, soldOut>>

\* getMarketSnapshots, and the time of this run right after it.
SweepMarket(w) ==
    /\ sweep[w].pc = "market"
    /\ sweep' = [sweep EXCEPT ![w].pc = "alerts", ![w].market = market, ![w].at = hour]
    /\ UNCHANGED <<vars, alerts, market, owner, arms, soldOut>>

\* Mutant of Triggered: an alert that never saw the stock takes it for sold out.
TriggeredUnseen(row, m) ==
    /\ m.price # None
    /\ CASE row.kind = "PRICE_TARGET" -> m.price = "low"
         [] row.kind = "RESTOCK" -> m.stock = TRUE /\ row.seen # TRUE

\* evaluate(): "only a genuine transition counts" for RESTOCK.
Triggered(row, m) ==
    /\ m.price # None
    /\ CASE row.kind = "PRICE_TARGET" -> m.price = "low"
         [] row.kind = "RESTOCK" -> m.stock = TRUE /\ row.seen = FALSE

\* A repeating alert that fired less than its cooldown ago.
Cooling(row, at) == row.repeatable /\ row.last # None /\ at - row.last < Cooldown

\* Sweep w is done with alert a; after the last one the run ends.
Processed(w, a) ==
    LET rest == DOMAIN sweep[w].rows \ {a} IN
    sweep' = [sweep EXCEPT ![w] = IF rest = {} THEN NoSweep
                                  ELSE [@ EXCEPT !.rows = [b \in rest |-> sweep[w].rows[b]]]]

\* The row that sweep w goes on with, when its last call of dispatch returned.
AtAlert(w, a) == sweep[w].pc = "alerts" /\ a \in DOMAIN sweep[w].rows /\ sending[w].pc = "idle"

Fires(w, a) ==
    LET row == sweep[w].rows[a] IN
    Triggered(row, sweep[w].market) /\ ~Cooling(row, sweep[w].at)

Observed(row, m) == IF m.stock = None THEN row ELSE [row EXCEPT !.seen = m.stock]

\* Nothing to tell: the stock seen is stored by id.  A row that was deleted
\* makes the update throw, which ends the whole run.
Stamp(w, a) ==
    /\ AtAlert(w, a)
    /\ ~Fires(w, a)
    /\ IF Exists(a)
       THEN /\ alerts' = [alerts EXCEPT ![a] = Observed(alerts[a], sweep[w].market)]
            /\ Processed(w, a)
       ELSE /\ sweep' = [sweep EXCEPT ![w] = NoSweep]
            /\ UNCHANGED alerts
    /\ UNCHANGED <<vars, market, owner, arms, soldOut>>

\* Mutant of Won: the update is by id.
WonById(w, a) == Exists(a)

\* The alert is still in the state that was read.
Won(w, a) ==
    /\ Exists(a)
    /\ alerts[a].status = "ACTIVE"
    /\ alerts[a].last = sweep[w].rows[a].last

\* The compare-and-set: whoever wins tells the owner.
Fire(w, a) ==
    LET at == sweep[w].at IN
    /\ AtAlert(w, a)
    /\ Fires(w, a)
    /\ Won(w, a)
    /\ alerts' = [alerts EXCEPT ![a] =
           [Observed(@, sweep[w].market) EXCEPT
               !.status = IF alerts[a].repeatable THEN "ACTIVE" ELSE "TRIGGERED",
               !.last = at]]
    /\ Dispatch(w, a, at \div Cooldown, Cooldown)
    /\ Processed(w, a)
    /\ UNCHANGED <<hour, notes, delivery, channel, realtime, mailed, jobVars, settings, crashes,
                   market, owner, arms, soldOut>>

Lose(w, a) ==
    /\ AtAlert(w, a)
    /\ Fires(w, a)
    /\ ~Won(w, a)
    /\ Processed(w, a)
    /\ UNCHANGED <<vars, alerts, market, owner, arms, soldOut>>

\* The notification refers to its alert; one that was deleted makes dispatch
\* throw, which the sweep catches.
Notify(w) ==
    /\ IF sending[w].pc = "create" /\ ~Exists(sending[w].source)
       THEN Returns(w) /\ UNCHANGED <<hour, notes, delivery, channel, realtime, mailed, jobVars, settings, crashes>>
       ELSE CreateNote(w) \/ DispatchStep(w)
    /\ UNCHANGED alertVars

DispatchReturns(w) ==
    /\ Dispatched(w)
    /\ UNCHANGED <<hour, notes, delivery, channel, realtime, mailed, jobVars, settings, crashes, alertVars>>

SweepStep(w) ==
    \/ SweepMarket(w)
    \/ \E a \in AlertIds : Stamp(w, a) \/ Fire(w, a) \/ Lose(w, a)
    \/ Notify(w)
    \/ DispatchReturns(w)

----
(* The owner *)

\* getCurrentStockState, which seeds a new alert: listings too old for a sweep
\* count here, and one of them may be in stock or have been sold out.
Seeds == IF market.stock = TRUE THEN {TRUE}
         ELSE {market.stock, TRUE} \cup (IF soldOut THEN {FALSE} ELSE {})

SeedFor(kind) == IF kind = "RESTOCK" THEN Seeds ELSE {None}

\* isWithinLimit(count, limit): there is room for one more.
WithinLimit == Cardinality(Active) < ActiveAlerts

\* createAlert counts the active alerts and reads the stock ...
CreateRead(a, kind, repeatable) ==
    /\ owner.pc = "idle"
    /\ arms[a] = 0
    /\ WithinLimit
    /\ \E seen \in SeedFor(kind) :
           owner' = [pc |-> "create", alert |-> a,
                     row |-> [kind |-> kind, repeatable |-> repeatable, status |-> "ACTIVE",
                              last |-> None, seen |-> seen]]
    /\ UNCHANGED <<vars, alerts, market, sweep, arms, soldOut>>

\* ... reactivateAlert too, unless the alert is active, and clears the firing ...
ReactivateRead(a) ==
    /\ owner.pc = "idle"
    /\ arms[a] \in 1..(MaxArms - 1)
    /\ Exists(a)
    /\ alerts[a].status = "ACTIVE" \/ WithinLimit
    /\ \E seen \in IF alerts[a].kind = "RESTOCK" THEN Seeds ELSE {alerts[a].seen} :
           owner' = [pc |-> "reactivate", alert |-> a,
                     row |-> [alerts[a] EXCEPT !.seen = seen]]
    /\ UNCHANGED <<vars, alerts, market, sweep, arms, soldOut>>

\* ... and then the row is written.
OwnerWrite ==
    /\ owner.pc # "idle"
    /\ alerts' = [alerts EXCEPT ![owner.alert] =
           IF owner.pc = "create" THEN owner.row
           ELSE [@ EXCEPT !.status = "ACTIVE", !.last = None,
                          !.seen = (IF owner.row.kind = "RESTOCK" THEN owner.row ELSE alerts[owner.alert]).seen]]
    /\ arms' = [arms EXCEPT ![owner.alert] = @ + 1]
    /\ owner' = NoRequest
    /\ UNCHANGED <<vars, market, sweep, soldOut>>

DeleteAlert(a) ==
    /\ owner.pc = "idle"
    /\ Exists(a)
    /\ alerts' = [alerts EXCEPT ![a] = None]
    /\ UNCHANGED <<vars, market, sweep, owner, arms, soldOut>>

\* New listings of the product.
MarketMoves(m) ==
    /\ m # market
    /\ market' = m
    /\ soldOut' = (soldOut \/ m.stock = FALSE)
    /\ UNCHANGED <<vars, alerts, sweep, owner, arms>>

\* A worker that dies takes its sweeps with it.
Crash ==
    /\ WorkerCrash
    /\ sweep' = [w \in Senders |-> NoSweep]
    /\ UNCHANGED <<alerts, market, owner, arms, soldOut>>

OwnerStep ==
    \/ \E a \in AlertIds, kind \in Kinds, repeatable \in BOOLEAN : CreateRead(a, kind, repeatable)
    \/ \E a \in AlertIds : ReactivateRead(a) \/ DeleteAlert(a)
    \/ OwnerWrite

AlertsNext ==
    \/ \E w \in Senders : SweepRead(w) \/ SweepStep(w)
    \/ OwnerStep
    \/ \E m \in Markets : MarketMoves(m)
    \/ (RetryStep \/ DigestStep \/ ChannelStep \/ PlanChanges \/ NextHour) /\ UNCHANGED alertVars
    \/ Crash

AlertsSpec == AlertsInit /\ [][AlertsNext]_allVars

----
(* Properties *)

Told(a) == {n \in DOMAIN notes : notes[n].source = a}

\* "Two overlapping sweeps would otherwise both fire it and both notify": an
\* alert is told once each time it is armed, and a repeating one once more for
\* every cooldown that may have passed since.
ToldPerArming ==
    \A a \in AlertIds : Cardinality(Told(a)) <=
        arms[a] * (IF Exists(a) /\ ~alerts[a].repeatable THEN 1 ELSE 1 + hour \div Cooldown)

\* "A product that is simply in stock, or whose stock we have never observed,
\* must not fire": a RESTOCK alert is told only when some listing had said
\* that the product was sold out.
RestockNeedsTransition ==
    \A a \in AlertIds : Exists(a) /\ alerts[a].kind = "RESTOCK" /\ Told(a) # {} => soldOut
====
