---- MODULE KeyedMutex ----
(***************************************************************************)
(* KeyedMutex: work runs one at a time per key, in arrival order.          *)
(*                                                                         *)
(* tails[key] is the promise that the last caller on the key left behind.  *)
(* A caller replaces it by one of its own and awaits the one it found; its *)
(* own is resolved once that one is and its work is over.  A promise is a  *)
(* number that nothing else refers to while it is in use.                  *)
(***************************************************************************)
EXTENDS Integers, FiniteSets

CONSTANTS
    Callers,    \* each makes one call at a time
    Keys,
    NoKey       \* no key, no promise

\* What a module that instantiates this one has to assume.
MutexAssumption ==
    /\ IsFiniteSet(Callers) /\ IsFiniteSet(Keys)
    /\ NoKey \notin Keys /\ NoKey \notin Nat

VARIABLES
    tails,    \* the map of tails; a key without an entry has NoKey
    turn      \* turn[c]: the call of c

mutexVars == <<tails, turn>>

NoTurn == [key |-> NoKey, promise |-> NoKey, previous |-> NoKey, inside |-> FALSE]

MutexType ==
    /\ tails \in [Keys -> Nat \cup {NoKey}]
    /\ turn \in [Callers -> [key : Keys \cup {NoKey}, promise : Nat \cup {NoKey},
                             previous : Nat \cup {NoKey}, inside : BOOLEAN]]

MutexInit ==
    /\ tails = [k \in Keys |-> NoKey]
    /\ turn = [c \in Callers |-> NoTurn]

InCall(c) == turn[c].key # NoKey

\* The promises that are not resolved yet.
Pending == {turn[c].promise : c \in {x \in Callers : InCall(x)}}

\* A number no reference holds.
Fresh ==
    CHOOSE n \in 0..(2 * Cardinality(Callers) + Cardinality(Keys)) :
        /\ \A k \in Keys : tails[k] # n
        /\ \A c \in Callers : turn[c].promise # n /\ turn[c].previous # n

\* run(key, work) queues behind the tail it finds.
Join(c, key) ==
    /\ ~InCall(c)
    /\ tails' = [tails EXCEPT ![key] = Fresh]
    /\ turn' = [turn EXCEPT ![c] = [key |-> key, promise |-> Fresh, previous |-> tails[key], inside |-> FALSE]]

\* `await previous` returns and the work begins.
Enter(c) ==
    /\ InCall(c)
    /\ ~turn[c].inside
    /\ turn[c].previous \notin Pending
    /\ turn' = [turn EXCEPT ![c].inside = TRUE]
    /\ UNCHANGED tails

\* Mutant of Leave: the key's entry is deleted, whoever is queued behind.
LeaveAndForget(c) ==
    /\ turn[c].inside
    /\ tails' = [tails EXCEPT ![turn[c].key] = NoKey]
    /\ turn' = [turn EXCEPT ![c] = NoTurn]

\* The work is over: the promise is resolved, and the key's entry deleted if
\* nobody has queued behind.
Leave(c) ==
    /\ turn[c].inside
    /\ tails' = IF tails[turn[c].key] = turn[c].promise THEN [tails EXCEPT ![turn[c].key] = NoKey] ELSE tails
    /\ turn' = [turn EXCEPT ![c] = NoTurn]

MutexStep ==
    \E c \in Callers : Enter(c) \/ Leave(c) \/ \E k \in Keys : Join(c, k)

----
(* What it promises: a queue per key (FifoLocks). *)

\* The calls on key k in the order in which they await each other.
QueueOf(k) ==
    LET calls == {c \in Callers : turn[c].key = k}
        chains == {q \in [1..Cardinality(calls) -> calls] :
                      \A n \in 2..Cardinality(calls) : turn[q[n]].previous = turn[q[n - 1]].promise}
    IN IF chains = {} THEN <<>> ELSE CHOOSE q \in chains : TRUE

Locks == INSTANCE FifoLocks WITH
    queue <- [k \in Keys |-> QueueOf(k)],
    busy <- {c \in Callers : turn[c].inside}

\* "Runs async work one at a time per key, in arrival order": KeyedMutex keeps
\* no queue, only the last promise of each key, and yet it is a queue per key
\* of which only the first call works.
OneAtATimeInOrder == Locks!LocksSpec
====
