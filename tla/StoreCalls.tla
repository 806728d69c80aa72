---- MODULE StoreCalls ----
(***************************************************************************)
(* StoreCallGuard: every search sent to a store, with the scrape slots     *)
(* (ScrapeSlots) in which the searching jobs run and the queue per store   *)
(* (KeyedMutex) in which their calls wait.                                 *)
(*                                                                         *)
(* search[w] is the search() in progress of the job of loop w.  A date in  *)
(* the code is the time left until it here: pause[s] until the circuit of  *)
(* store s closes, gap[s] until its next call may start, sleep[w] until    *)
(* the timer of w fires.  The stores' browsers are external: a call ends   *)
(* with listings, with none, or throws.  All of this is in memory, so a    *)
(* restart of the worker is a new behaviour.                               *)
(***************************************************************************)
EXTENDS ScrapeSlots

CONSTANTS
    Stores,
    None,           \* no entry in a map
    Threshold,      \* retailers.connectorFailureThreshold
    Cooldown,       \* retailers.connectorCooldownMinutes
    MinInterval,    \* retailers.storeMinRequestIntervalMs
    RetryDelay,     \* retailers.storeRetryDelayMs
    MaxSearches     \* bound on the searches of one job

VARIABLES
    tails, turn,    \* the queue per store, see KeyedMutex
    search,         \* search[w]: the call of w and what is left of its job
    sleep,          \* sleep[w]: the time left of its timer
    gap,            \* lastCallAt, as the time left until the next call
    failures,       \* the breaker's consecutive failures
    pause           \* cooldownUntil, as the time left; None without an entry

guardVars == <<search, sleep, gap, failures, pause>>
vars == <<slotVars, tails, turn, guardVars>>

perStore == INSTANCE KeyedMutex WITH Callers <- Loops, Keys <- Stores, NoKey <- None

ASSUME GuardAssumption ==
    /\ perStore!MutexAssumption
    /\ Threshold \in Nat \ {0} /\ Cooldown \in Nat \ {0}
    /\ MinInterval \in Nat /\ RetryDelay \in Nat /\ MaxSearches \in Nat

NoSearch == [pc |-> "none", strict |-> FALSE, attempt |-> 0, left |-> 0]

TypeOK ==
    /\ SlotType
    /\ perStore!MutexType
    /\ search \in [Loops -> [pc : {"none", "queued", "pacing", "calling", "backoff"},
                             strict : BOOLEAN, attempt : 0..2, left : 0..MaxSearches]]
    /\ sleep \in [Loops -> Nat]
    /\ gap \in [Stores -> 0..MinInterval]
    /\ failures \in [Stores -> Nat]
    /\ pause \in [Stores -> (0..Cooldown) \cup {None}]

Init ==
    /\ SlotInit
    /\ perStore!MutexInit
    /\ search = [w \in Loops |-> NoSearch]
    /\ sleep = [w \in Loops |-> 0]
    /\ gap = [s \in Stores |-> 0]
    /\ failures = [s \in Stores |-> 0]
    /\ pause = [s \in Stores |-> None]

----
(* ConnectorCircuitBreaker *)

Paused(s) == pause[s] # None /\ pause[s] > 0

\* isInCooldown: a served cooldown resets its count.
AskBreaker(s) ==
    IF pause[s] = 0
    THEN pause' = [pause EXCEPT ![s] = None] /\ failures' = [failures EXCEPT ![s] = 0]
    ELSE UNCHANGED <<pause, failures>>

RecordFailure(s) ==
    /\ failures' = [failures EXCEPT ![s] = @ + 1]
    /\ pause' = IF failures[s] + 1 >= Threshold /\ pause[s] = None
                THEN [pause EXCEPT ![s] = Cooldown] ELSE pause

RecordSuccess(s) == failures' = [failures EXCEPT ![s] = 0] /\ UNCHANGED pause

----
(* The jobs and their searches *)

TakeJob(w, priority, expansion) ==
    /\ Acquire(w, priority, expansion)
    /\ search' = [search EXCEPT ![w] = [NoSearch EXCEPT !.left = MaxSearches]]
    /\ UNCHANGED <<tails, turn, sleep, gap, failures, pause>>

EndJob(w) ==
    /\ search[w].pc = "none"
    /\ Release(w)
    /\ search' = [search EXCEPT ![w] = NoSearch]
    /\ UNCHANGED <<tails, turn, sleep, gap, failures, pause>>

Between(w) == job[w].pc = "working" /\ search[w].pc = "none"

\* isPaused, which the loops over stores ask first.
IsPaused(w, s) ==
    /\ Between(w)
    /\ AskBreaker(s)
    /\ UNCHANGED <<slotVars, tails, turn, search, sleep, gap>>

\* search(): a paused store is refused, which changes nothing; any other call
\* joins the store's queue.
Search(w, s, strict) ==
    /\ Between(w)
    /\ search[w].left > 0
    /\ ~Paused(s)
    /\ AskBreaker(s)
    /\ perStore!Join(w, s)
    /\ search' = [search EXCEPT ![w] = [pc |-> "queued", strict |-> strict, attempt |-> 1, left |-> @.left - 1]]
    /\ UNCHANGED <<slotVars, sleep, gap>>

Store(w) == turn[w].key

\* Mutant of Pace: the gap is not waited for.
PaceAtOnce(w) ==
    /\ search' = [search EXCEPT ![w].pc = "pacing"]
    /\ sleep' = [sleep EXCEPT ![w] = 0]

\* pace() sleeps until the store's gap is over.
Pace(w) ==
    /\ search' = [search EXCEPT ![w].pc = "pacing"]
    /\ sleep' = [sleep EXCEPT ![w] = gap[Store(w)]]

EnterQueue(w) ==
    /\ search[w].pc = "queued"
    /\ perStore!Enter(w)
    /\ Pace(w)
    /\ UNCHANGED <<slotVars, gap, failures, pause>>

\* The timer of w has fired: the call starts.
StartCall(w) ==
    /\ search[w].pc = "pacing"
    /\ sleep[w] = 0
    /\ search' = [search EXCEPT ![w].pc = "calling"]
    /\ gap' = [gap EXCEPT ![Store(w)] = MinInterval]
    /\ UNCHANGED <<slotVars, tails, turn, sleep, failures, pause>>

\* Mutant of Leave: the promise is never resolved.
LeaveUnresolved(w) ==
    /\ search' = [search EXCEPT ![w] = [NoSearch EXCEPT !.left = search[w].left]]
    /\ UNCHANGED <<tails, turn>>

\* search() is over and its turn with it.
Leave(w) ==
    /\ perStore!Leave(w)
    /\ search' = [search EXCEPT ![w] = [NoSearch EXCEPT !.left = search[w].left]]

Listings(w) ==
    /\ search[w].pc = "calling"
    /\ RecordSuccess(Store(w))
    /\ Leave(w)
    /\ UNCHANGED <<slotVars, sleep, gap>>

\* An empty answer is a failure only where the caller says so.
NoListings(w) ==
    /\ search[w].pc = "calling"
    /\ IF search[w].strict THEN RecordFailure(Store(w)) ELSE UNCHANGED <<failures, pause>>
    /\ Leave(w)
    /\ UNCHANGED <<slotVars, sleep, gap>>

\* The first error is retried after a while ...
ThrewFirst(w) ==
    /\ search[w].pc = "calling"
    /\ search[w].attempt = 1
    /\ search' = [search EXCEPT ![w].pc = "backoff"]
    /\ sleep' = [sleep EXCEPT ![w] = RetryDelay]
    /\ UNCHANGED <<slotVars, tails, turn, gap, failures, pause>>

Retry(w) ==
    /\ search[w].pc = "backoff"
    /\ sleep[w] = 0
    /\ search' = [search EXCEPT ![w].pc = "pacing", ![w].attempt = 2]
    /\ sleep' = [sleep EXCEPT ![w] = gap[Store(w)]]
    /\ UNCHANGED <<slotVars, tails, turn, gap, failures, pause>>

\* ... and the second is a failure of the store.
ThrewAgain(w) ==
    /\ search[w].pc = "calling"
    /\ search[w].attempt = 2
    /\ RecordFailure(Store(w))
    /\ Leave(w)
    /\ UNCHANGED <<slotVars, sleep, gap>>

\* Time passes for every date at once.
Later(n) == IF n = None \/ n = 0 THEN n ELSE n - 1

Tick ==
    /\ \/ \E w \in Loops : sleep[w] > 0
       \/ \E s \in Stores : gap[s] > 0 \/ Paused(s)
    /\ sleep' = [w \in Loops |-> Later(sleep[w])]
    /\ gap' = [s \in Stores |-> Later(gap[s])]
    /\ pause' = [s \in Stores |-> Later(pause[s])]
    /\ UNCHANGED <<slotVars, tails, turn, search, failures>>

CallStep(w) ==
    \/ EnterQueue(w) \/ StartCall(w) \/ Retry(w)
    \/ Listings(w) \/ NoListings(w) \/ ThrewFirst(w) \/ ThrewAgain(w)

Next ==
    \/ \E w \in Loops, priority \in Priorities, expansion \in BOOLEAN : TakeJob(w, priority, expansion)
    \/ \E w \in Loops : EndJob(w) \/ CallStep(w)
    \/ \E w \in Loops, s \in Stores : IsPaused(w, s)
    \/ \E w \in Loops, s \in Stores, strict \in BOOLEAN : Search(w, s, strict)
    \/ Tick

\* The event loop and the timers run, a call of a browser ends (it has a
\* timeout), and a job ends once its searches are over.
Fairness ==
    /\ \A w \in Loops : WF_vars(CallStep(w)) /\ WF_vars(EndJob(w))
    /\ WF_vars(Tick)

Spec == Init /\ [][Next]_vars /\ Fairness

----
(* Properties *)

\* The call of w starts in this step.
Starts(w) == search[w].pc # "calling" /\ search'[w].pc = "calling"

\* "Calls to one store are spaced at least minIntervalMs apart", retries and
\* calls of other jobs included.
CallsSpaced == [][\A w \in Loops : Starts(w) => gap[Store(w)] = 0]_vars

\* Nobody waits for ever, for a slot's job or for a store: every job at work
\* ends, whichever of its calls and of those ahead of it throw.
JobsEnd == \A w \in Loops : job[w].pc = "working" ~> job[w].pc = "none"

\* The queue per store is a lock: its refinement, under its own name here.
StoreQueue == perStore!OneAtATimeInOrder

\* "Once a store has failed threshold times in a row it is left alone for the
\* cooldown": no call starts at a store whose circuit is open.
PausedIsLeftAlone == [][\A w \in Loops : Starts(w) => ~Paused(Store(w))]_vars
====
