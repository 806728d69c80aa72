---- MODULE FifoLocks ----
(***************************************************************************)
(* What KeyedMutex promises: calls on one key queue up, the first of them  *)
(* works, and different keys do not touch each other.                      *)
(***************************************************************************)
EXTENDS Sequences

CONSTANTS Callers, Keys

VARIABLES
    queue,    \* queue[k]: the calls on k in arrival order
    busy      \* the callers at work

lockVars == <<queue, busy>>

Queued(c) == \E k \in Keys : \E n \in DOMAIN queue[k] : queue[k][n] = c

LocksInit ==
    /\ queue = [k \in Keys |-> <<>>]
    /\ busy = {}

Arrive(c, k) ==
    /\ ~Queued(c)
    /\ queue' = [queue EXCEPT ![k] = Append(@, c)]
    /\ UNCHANGED busy

Begin(c, k) ==
    /\ queue[k] # <<>>
    /\ Head(queue[k]) = c
    /\ c \notin busy
    /\ busy' = busy \cup {c}
    /\ UNCHANGED queue

Depart(c, k) ==
    /\ queue[k] # <<>>
    /\ Head(queue[k]) = c
    /\ c \in busy
    /\ busy' = busy \ {c}
    /\ queue' = [queue EXCEPT ![k] = Tail(@)]

LocksNext == \E c \in Callers, k \in Keys : Arrive(c, k) \/ Begin(c, k) \/ Depart(c, k)

LocksSpec == LocksInit /\ [][LocksNext]_lockVars
====
