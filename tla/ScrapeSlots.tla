---- MODULE ScrapeSlots ----
(***************************************************************************)
(* ScrapeSlots: how many scrape jobs run at once.                          *)
(*                                                                         *)
(* A worker loop of the queue serves one job at a time.  A scrape job      *)
(* takes a slot or parks; parked jobs get slots by priority (1 is first)   *)
(* and then in arrival order, so `waiting` is kept sorted.  A job that     *)
(* ends, well or badly, hands its slot to the first of them.               *)
(***************************************************************************)
EXTENDS Integers, Sequences, SequencesExt, FiniteSets

CONSTANTS
    Loops,         \* the worker loops of the queue
    SlotLimit,     \* retailers.scrapeConcurrency
    Priorities,    \* JOB_PRIORITY's values
    Expansion,     \* JOB_PRIORITY.storeExpansion
    MaxParked      \* MAX_PARKED_EXPANSIONS

ASSUME SlotsAssumption ==
    /\ IsFiniteSet(Loops)
    /\ SlotLimit \in Nat \ {0}
    /\ Priorities \subseteq Nat /\ Expansion \in Priorities
    /\ MaxParked \in Nat

VARIABLES
    running,    \* slots in use
    waiting,    \* the parked loops, sorted
    job         \* job[w]: the job of loop w

slotVars == <<running, waiting, job>>

\* Only a parked job needs its priority.
NoJob == [pc |-> "none", priority |-> 0]
AtWork == [pc |-> "working", priority |-> 0]

SlotType ==
    /\ running \in 0..SlotLimit
    /\ waiting \in Seq(Loops)
    /\ job \in [Loops -> [pc : {"none", "parked", "working"}, priority : Priorities \cup {0}]]

SlotInit ==
    /\ running = 0
    /\ waiting = <<>>
    /\ job = [w \in Loops |-> NoJob]

Working == {w \in Loops : job[w].pc = "working"}
Parked == {w \in Loops : job[w].pc = "parked"}

\* A push and a sort by priority and arrival: w goes behind its equals.
Inserted(w, priority) ==
    InsertAt(waiting, Cardinality({n \in DOMAIN waiting : job[waiting[n]].priority <= priority}) + 1, w)

\* Loop w takes a job.  An expansion that finds too many parked is skipped and
\* changes nothing; a job with no priority gets that of an expansion.
Acquire(w, priority, expansion) ==
    /\ job[w].pc = "none"
    /\ expansion => priority = Expansion /\ Len(waiting) < MaxParked
    /\ IF running < SlotLimit
       THEN /\ running' = running + 1
            /\ job' = [job EXCEPT ![w] = AtWork]
            /\ UNCHANGED waiting
       ELSE /\ waiting' = Inserted(w, priority)
            /\ job' = [job EXCEPT ![w] = [pc |-> "parked", priority |-> priority]]
            /\ UNCHANGED running

\* Mutant of Release: the parked jobs are left to the next release.
ReleaseOnly(w) ==
    /\ job[w].pc = "working"
    /\ running' = running - 1
    /\ job' = [job EXCEPT ![w] = NoJob]
    /\ UNCHANGED waiting

\* Mutant of Release: the last of the parked jobs is served.
ReleaseLast(w) ==
    /\ job[w].pc = "working"
    /\ running' = IF waiting = <<>> THEN running - 1 ELSE running
    /\ waiting' = IF waiting = <<>> THEN waiting ELSE Front(waiting)
    /\ job' = [x \in Loops |-> IF x = w THEN NoJob
                               ELSE IF waiting # <<>> /\ x = Last(waiting) THEN AtWork
                               ELSE job[x]]

\* The work of w is over, in `finally`: the slot passes straight to the first
\* parked job, or becomes free.
Release(w) ==
    /\ job[w].pc = "working"
    /\ running' = IF waiting = <<>> THEN running - 1 ELSE running
    /\ waiting' = IF waiting = <<>> THEN waiting ELSE Tail(waiting)
    /\ job' = [x \in Loops |-> IF x = w THEN NoJob
                               ELSE IF waiting # <<>> /\ x = Head(waiting) THEN AtWork
                               ELSE job[x]]

----
(* Properties *)

\* "Caps how many scrape jobs run at once": the count is the number of jobs at
\* work and never above the limit, no slot is idle while a job is parked, and
\* every parked job is in the queue once.
SlotsConserved ==
    /\ running = Cardinality(Working)
    /\ running <= SlotLimit
    /\ Parked # {} => running = SlotLimit
    /\ Parked = {waiting[n] : n \in DOMAIN waiting}
    /\ \A m, n \in DOMAIN waiting : waiting[m] = waiting[n] => m = n

\* "A shopper's search that arrives behind a pile of background store
\* expansions still gets the next free slot": a parked job of the first
\* priority is served, although more jobs keep coming.
ShopperServed == \A w \in Loops : job[w].pc = "parked" /\ job[w].priority = 1 ~> job[w].pc = "working"
====
