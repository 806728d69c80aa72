---- MODULE Entitlements ----
(***************************************************************************)
(* EntitlementsService: what a user may do, resolved from the subscription *)
(* tables and cached in Redis for CACHE_TTL_SECONDS.  A viewer is one      *)
(* request that asks; it looks in the cache, resolves on a miss and then   *)
(* fills the cache, and any other step may happen in between.  Every path  *)
(* that changes a subscription deletes the cached entry afterwards, and a  *)
(* deletion that fails is only logged.                                     *)
(***************************************************************************)
EXTENDS BillingStore

CONSTANTS
    Viewers,   \* requests that read entitlements
    Free       \* the free tier, served without a plan row

ASSUME EntitlementAssumption == Free \notin Plans /\ Free # None

VARIABLES
    cache,   \* cache[u]: the cached answer for u, None when there is none
    view     \* view[v]: where viewer v is, and the answer it will store

entVars == <<cache, view>>

Answers == Plans \cup {Free}

Idle == [pc |-> "idle", user |-> None, answer |-> None]

EntType ==
    /\ cache \in [Users -> Answers \cup {None}]
    /\ view \in [Viewers -> [pc : {"idle", "resolve", "fill"},
                             user : Users \cup {None},
                             answer : Answers \cup {None}]]

EntInit ==
    /\ cache = [u \in Users |-> None]
    /\ view = [v \in Viewers |-> Idle]

\* resolve(): no entitling row, an elapsed period and an inactive plan are all
\* the free tier.
Resolved(u) ==
    LET row == subs[ActiveRow(u)] IN
    IF \/ ActiveRow(u) = 0
       \/ row.end # None /\ row.end < now
       \/ row.plan \notin activePlans
    THEN Free
    ELSE row.plan

\* getEntitlements misses the cache, or fails to read it; a hit returns and
\* changes nothing.
ViewMiss(v, u) ==
    /\ view[v].pc = "idle"
    /\ view' = [view EXCEPT ![v] = [Idle EXCEPT !.pc = "resolve", !.user = u]]
    /\ UNCHANGED <<storeVars, cache>>

\* The tables are asked; when the database fails, the answer is the free tier.
ViewResolve(v) ==
    /\ view[v].pc = "resolve"
    /\ \E answer \in {Resolved(view[v].user), Free} :
           view' = [view EXCEPT ![v].pc = "fill", ![v].answer = answer]
    /\ UNCHANGED <<storeVars, cache>>

\* The write of the answer, which may fail and is then dropped.
ViewFill(v) ==
    /\ view[v].pc = "fill"
    /\ cache' \in {cache, [cache EXCEPT ![view[v].user] = view[v].answer]}
    /\ view' = [view EXCEPT ![v] = Idle]
    /\ UNCHANGED storeVars

\* Mutant of CacheExpire: the entry is set without a time to live.
KeepForever(u) == FALSE

\* Redis drops the entry when its time to live is over.
CacheExpire(u) ==
    /\ cache[u] # None
    /\ cache' = [cache EXCEPT ![u] = None]
    /\ UNCHANGED <<storeVars, view>>

\* invalidate(): the entries of `who` are deleted, each unless Redis fails.
Invalidate(who) ==
    \E failed \in SUBSET who :
        cache' = [u \in Users |-> IF u \in who \ failed THEN None ELSE cache[u]]

ViewStep(v) == ViewResolve(v) \/ ViewFill(v)
====
