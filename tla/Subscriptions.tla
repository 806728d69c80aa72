---- MODULE Subscriptions ----
(***************************************************************************)
(* SubscriptionsService and the maintenance job.                           *)
(*                                                                         *)
(* A request p runs grantPlan or cancel one await at a time; frame[p] is   *)
(* its stack frame: the point it has reached, its arguments and the row it *)
(* has read.  Requests interleave with each other and with the maintenance *)
(* job of the worker, which first retires lapsed subscriptions             *)
(* (expireLapsedSubscriptions) and then sends renewal reminders (sendDue). *)
(* A transaction runs at READ COMMITTED: its read is one step, its writes  *)
(* are a second one that commits whole or, when a unique index refuses     *)
(* them, leaves no trace.                                                  *)
(***************************************************************************)
EXTENDS Entitlements, SequencesExt

CONSTANTS
    Procs,         \* requests the API serves at once
    Jobs,          \* runs of the maintenance job at once: a stalled run is retried
    GrantDays,     \* values of adminGrantPlan's `days`, None for not given
    PaymentIds,    \* ids of the wallet payments a run of this module grants
    RemindDays,    \* billing.renewalReminderDays; 0 when the flag RENEWAL_REMINDERS is off
    MaxRequests    \* bound on events: no request of this module past it

ASSUME SubscriptionAssumption ==
    /\ GrantDays \subseteq (Nat \ {0}) \cup {None}
    /\ PaymentIds \subseteq Nat
    /\ RemindDays \in Nat /\ MaxRequests \in Nat

VARIABLES
    frame,     \* frame[p]: the call in progress of request p
    maint,     \* maint[j]: a run of the maintenance job, the lapsed and the due rows it read
    notices    \* the renewal reminders dispatched, in order

subVars == <<storeVars, entVars, frame, maint, notices>>
jobVars == <<maint, notices>>

GrantPoints == {"plan", "lookup", "replayed", "read", "write"}
Points == {"idle", "cancel", "log", "flush", "ok", "failed"} \cup GrantPoints

NoCall == [pc |-> "idle", user |-> None, plan |-> None, provider |-> None, type |-> None,
           id |-> None, psid |-> None, status |-> None, end |-> None, atEnd |-> FALSE, row |-> 0, renews |-> FALSE]

Frame ==
    [pc : Points, user : Users \cup {None}, plan : Plans \cup {None},
     provider : Providers \cup {None}, type : EventTypes \cup {None},
     id : Nat \cup {None}, psid : Nat \cup {None},
     status : SubscriptionStatus \cup {None}, end : Nat \cup {None}, atEnd : BOOLEAN,
     row : Nat,            \* the row read, 0 for none
     renews : BOOLEAN]     \* is that row renewed, or replaced?

IdleJob == [pc |-> "idle", lapsed |-> {}, due |-> {}]

Job == [pc : {"idle", "expire", "log", "flush", "look", "remind"},
        lapsed : {rows \in SUBSET Nat : IsFiniteSet(rows)},
        due : SUBSET [sub : Nat, end : Nat]]     \* rows and the period ends they were read with

SubType ==
    /\ StoreType
    /\ EntType
    /\ frame \in [Procs -> Frame]
    /\ maint \in [Jobs -> Job]
    /\ notices \in Seq([sub : Nat, end : Nat])

SubInit ==
    /\ StoreInit
    /\ EntInit
    /\ frame = [p \in Procs |-> NoCall]
    /\ maint = [j \in Jobs |-> IdleJob]
    /\ notices = <<>>

\* An audit row.
EventRow(sub, type, provider, id) ==
    [sub |-> sub, type |-> type, provider |-> provider, id |-> id]

----
(* grantPlan *)

\* grantPlan(user, plan, {provider, providerEventId, ...}) begins, with no
\* cancelAtPeriodEnd.
Call(p, user, plan, provider, type, id, psid, status, end) ==
    frame' = [frame EXCEPT ![p] =
        [pc |-> "plan", user |-> user, plan |-> plan, provider |-> provider, type |-> type,
         id |-> id, psid |-> psid, status |-> status, end |-> end, atEnd |-> FALSE, row |-> 0, renews |-> FALSE]]

GoTo(p, point) == frame' = [frame EXCEPT ![p].pc = point]

\* An inactive plan is refused.
GrantPlan(p) ==
    /\ frame[p].pc = "plan"
    /\ GoTo(p, IF frame[p].plan \in activePlans THEN "lookup" ELSE "failed")
    /\ UNCHANGED <<storeVars, entVars, jobVars>>

\* Has this event been applied already?
GrantLookup(p) ==
    /\ frame[p].pc = "lookup"
    /\ GoTo(p, IF Seen(frame[p].provider, frame[p].id) THEN "replayed" ELSE "read")
    /\ UNCHANGED <<storeVars, entVars, jobVars>>

\* A replay returns the user's live subscription; with none, it grants again.
GrantReplayed(p) ==
    /\ frame[p].pc = "replayed"
    /\ GoTo(p, IF ActiveRow(frame[p].user) # 0 THEN "ok" ELSE "read")
    /\ UNCHANGED <<storeVars, entVars, jobVars>>

\* Mutant of GrantRead: whatever plan the user has is renewed.
GrantReadAnyPlan(p) ==
    LET f == frame[p]
        r == ActiveRow(f.user)
        renews == r # 0 /\ (f.psid = None \/ subs[r].psid = f.psid)
    IN
    /\ f.pc = "read"
    /\ frame' = [frame EXCEPT ![p] = [f EXCEPT
           !.pc = "write", !.row = r, !.renews = renews,
           !.psid = IF renews THEN subs[r].psid ELSE f.psid]]
    /\ UNCHANGED <<storeVars, entVars, jobVars>>

\* Mutant of GrantRead: a renewal by plan alone takes over the subscription.
GrantReadAnySubscription(p) ==
    LET f == frame[p]
        r == ActiveRow(f.user)
        renews == r # 0 /\ subs[r].plan = f.plan
    IN
    /\ f.pc = "read"
    /\ frame' = [frame EXCEPT ![p] = [f EXCEPT
           !.pc = "write", !.row = r, !.renews = renews,
           !.psid = IF renews /\ f.psid = None THEN subs[r].psid ELSE f.psid]]
    /\ UNCHANGED <<storeVars, entVars, jobVars>>

\* The transaction reads the live subscription.  Same plan, and not another
\* provider subscription: this is a renewal, which keeps the row's psid.
GrantRead(p) ==
    LET f == frame[p]
        r == ActiveRow(f.user)
        renews == /\ r # 0
                  /\ subs[r].plan = f.plan
                  /\ f.psid = None \/ subs[r].psid = f.psid
    IN
    /\ f.pc = "read"
    /\ frame' = [frame EXCEPT ![p] = [f EXCEPT
           !.pc = "write", !.row = r, !.renews = renews,
           !.psid = IF renews THEN subs[r].psid ELSE f.psid]]
    /\ UNCHANGED <<storeVars, entVars, jobVars>>

RenewedRow(f) ==
    [subs[f.row] EXCEPT !.status = f.status, !.end = f.end, !.atEnd = f.atEnd,
                        !.psid = f.psid, !.reminded = FALSE]

\* Mutant of CreatedRow: the reminder column has no default.
CreatedRowBare(f) ==
    [user |-> f.user, plan |-> f.plan, status |-> f.status, provider |-> f.provider,
     psid |-> f.psid, end |-> f.end, atEnd |-> f.atEnd, reminded |-> None]

CreatedRow(f) ==
    [user |-> f.user, plan |-> f.plan, status |-> f.status, provider |-> f.provider,
     psid |-> f.psid, end |-> f.end, atEnd |-> f.atEnd, reminded |-> FALSE]

\* The subscriptions table after the transaction's updates and inserts: the
\* old row is retired before the new one is created.
Granted(f) ==
    IF f.renews THEN [subs EXCEPT ![f.row] = RenewedRow(f)]
    ELSE Append(IF f.row = 0 THEN subs ELSE [subs EXCEPT ![f.row].status = "CANCELED"],
                CreatedRow(f))

GrantedRow(f) == IF f.renews THEN f.row ELSE Len(subs) + 1

\* The unique indexes accept what the transaction would leave.
Accepted(f) ==
    /\ OneLivePerUser(Granted(f))
    /\ ProviderSubscriptionOnce(Granted(f))
    /\ EventIdFree(f.provider, f.id)

\* Mutant of GrantCommit: no transaction, the old row is retired first.
GrantCommitInTwo(p) ==
    LET f == frame[p] IN
    /\ f.pc = "write"
    /\ Accepted(f)
    /\ IF f.row # 0 /\ ~f.renews
       THEN /\ subs' = [subs EXCEPT ![f.row].status = "CANCELED"]
            /\ frame' = [frame EXCEPT ![p].row = 0]
            /\ UNCHANGED events
       ELSE /\ subs' = Granted(f)
            /\ events' = Append(events, EventRow(GrantedRow(f), f.type, f.provider, f.id))
            /\ GoTo(p, "flush")
    /\ UNCHANGED <<now, activePlans, entVars, jobVars>>

GrantCommit(p) ==
    LET f == frame[p] IN
    /\ f.pc = "write"
    /\ Accepted(f)
    /\ subs' = Granted(f)
    /\ events' = Append(events, EventRow(GrantedRow(f), f.type, f.provider, f.id))
    /\ GoTo(p, "flush")
    /\ UNCHANGED <<now, activePlans, entVars, jobVars>>

\* P2002: the transaction rolls back and grantPlan throws.
GrantAbort(p) ==
    /\ frame[p].pc = "write"
    /\ ~Accepted(frame[p])
    /\ GoTo(p, "failed")
    /\ UNCHANGED <<storeVars, entVars, jobVars>>

\* entitlements.invalidate(userId), the last await of grantPlan and cancel.
Flush(p) ==
    /\ frame[p].pc = "flush"
    /\ Invalidate({frame[p].user})
    /\ GoTo(p, "ok")
    /\ UNCHANGED <<storeVars, view, jobVars>>

----
(* cancel *)

\* The row the caller has now is remembered; with none, it throws.
CancelRead(p, u, immediately) ==
    /\ frame[p].pc = "idle"
    /\ ActiveRow(u) # 0
    /\ frame' = [frame EXCEPT ![p] = [NoCall EXCEPT
           !.pc = "cancel", !.user = u, !.row = ActiveRow(u),
           !.provider = subs[ActiveRow(u)].provider,
           !.type = IF immediately THEN "canceled" ELSE "cancel_scheduled"]]
    /\ UNCHANGED <<storeVars, entVars, jobVars>>

\* Updates the remembered row, whatever it has become ...
CancelWrite(p) ==
    /\ frame[p].pc = "cancel"
    /\ subs' = [subs EXCEPT ![frame[p].row] =
           IF frame[p].type = "canceled" THEN [@ EXCEPT !.status = "CANCELED", !.atEnd = FALSE]
           ELSE [@ EXCEPT !.atEnd = TRUE]]
    /\ GoTo(p, "log")
    /\ UNCHANGED <<now, activePlans, events, entVars, jobVars>>

\* ... and logs it, in a second statement and no transaction.
CancelLog(p) ==
    /\ frame[p].pc = "log"
    /\ events' = Append(events, EventRow(frame[p].row, frame[p].type, frame[p].provider, None))
    /\ GoTo(p, "flush")
    /\ UNCHANGED <<now, activePlans, subs, entVars, jobVars>>

----
(* adminGrantPlan: the plan from now, for `days` when given *)

AdminGrant(p, u, plan, days) ==
    /\ frame[p].pc = "idle"
    /\ Call(p, u, plan, "manual", "manual_grant", None, None, "ACTIVE",
            IF days # None THEN now + days
            ELSE IF Interval[plan] > 0 THEN now + Interval[plan] ELSE None)
    /\ UNCHANGED <<storeVars, entVars, jobVars>>

\* The call is answered.
Return(p) ==
    /\ frame[p].pc \in {"ok", "failed"}
    /\ frame' = [frame EXCEPT ![p] = NoCall]
    /\ UNCHANGED <<storeVars, entVars, jobVars>>

----
(* Payments that are not subscriptions at their gateway: wallet, Paymob.    *)

\* Paying before the current period of the same plan ends adds a full period
\* on top; otherwise the period starts today.  The call is grantPlan's, with
\* the current subscription as it is read here.
CallPaid(p, u, plan, provider, type, id, days) ==
    LET row == subs[ActiveRow(u)]
        extendsCurrent == /\ ActiveRow(u) # 0
                          /\ row.plan = plan
                          /\ row.status = "ACTIVE"
                          /\ row.end # None
                          /\ row.end > now
    IN Call(p, u, plan, provider, type, id, None, "ACTIVE",
            (IF extendsCurrent THEN row.end ELSE now) + (IF days > 1 THEN days ELSE 1))

\* A payment service grants payment `id`, once or again.
PaidGrant(p, u, plan, id) ==
    /\ frame[p].pc = "idle"
    /\ CallPaid(p, u, plan, "wallet", "wallet_payment", id, Interval[plan])
    /\ UNCHANGED <<storeVars, entVars, jobVars>>

----
(* The maintenance job *)

Lapsed(i) == subs[i].status \in Entitling /\ subs[i].end # None /\ subs[i].end < now

\* Plans that do not renew by themselves, ending within the reminder days.
NonRenewing == {"wallet", "paymob", "mock"}

DueRow(i) ==
    /\ subs[i].status = "ACTIVE"
    /\ subs[i].provider \in NonRenewing
    /\ ~subs[i].reminded
    /\ subs[i].end # None
    /\ now < subs[i].end
    /\ subs[i].end <= now + RemindDays

\* Mutant of LapsedRows: only the rows that were set to cancel are retired.
LapsedScheduled == {i \in DOMAIN subs : Lapsed(i) /\ subs[i].atEnd}

LapsedRows == {i \in DOMAIN subs : Lapsed(i)}
DueRows == {i \in DOMAIN subs : DueRow(i)}

\* Run j is at a new point.
JobAt(j, state) == maint' = [maint EXCEPT ![j] = state]

\* expireLapsedSubscriptions reads the lapsed rows; with none it returns and
\* sendDue is next.  A run that finds nothing at all changes nothing.
MaintenanceStart(j) ==
    /\ maint[j].pc = "idle"
    /\ JobAt(j, IF LapsedRows # {} THEN [IdleJob EXCEPT !.pc = "expire", !.lapsed = LapsedRows]
                ELSE IF DueRows # {} THEN [IdleJob EXCEPT !.pc = "look"]
                ELSE IdleJob)
    /\ UNCHANGED <<storeVars, entVars, frame, notices>>

\* ... and retires the rows it read, by id ...
ExpireWrite(j) ==
    /\ maint[j].pc = "expire"
    /\ subs' = [i \in DOMAIN subs |-> IF i \in maint[j].lapsed THEN [subs[i] EXCEPT !.status = "EXPIRED"]
                                      ELSE subs[i]]
    /\ JobAt(j, [maint[j] EXCEPT !.pc = "log"])
    /\ UNCHANGED <<now, activePlans, events, entVars, frame, notices>>

\* ... and logs them, one audit row each.
ExpireLog(j) ==
    LET batch == SetToSeq(maint[j].lapsed) IN
    /\ maint[j].pc = "log"
    /\ events' = events \o [n \in DOMAIN batch |-> EventRow(batch[n], "expired", "system", None)]
    /\ JobAt(j, [maint[j] EXCEPT !.pc = "flush"])
    /\ UNCHANGED <<now, activePlans, subs, entVars, frame, notices>>

ExpireFlush(j) ==
    /\ maint[j].pc = "flush"
    /\ Invalidate({subs[i].user : i \in maint[j].lapsed})
    /\ JobAt(j, [IdleJob EXCEPT !.pc = "look"])
    /\ UNCHANGED <<storeVars, view, frame, notices>>

\* sendDue reads the rows that are due a reminder.
RemindLook(j) ==
    /\ maint[j].pc = "look"
    /\ JobAt(j, IF DueRows = {} THEN IdleJob
                ELSE [IdleJob EXCEPT !.pc = "remind",
                                     !.due = {[sub |-> i, end |-> subs[i].end] : i \in DueRows}])
    /\ UNCHANGED <<storeVars, entVars, frame, notices>>

\* Mutant of RemindOne: dispatched without the claim.
RemindUnclaimed(j, d) ==
    LET rest == maint[j].due \ {d} IN
    /\ maint[j].pc = "remind"
    /\ JobAt(j, IF rest = {} THEN IdleJob ELSE [maint[j] EXCEPT !.due = rest])
    /\ subs' = [subs EXCEPT ![d.sub].reminded = TRUE]
    /\ notices' \in {notices, Append(notices, d)}
    /\ UNCHANGED <<now, activePlans, events, entVars, frame>>

\* One of them is claimed, and the reminder of the period that was read is
\* dispatched only by whoever claimed it; a failed dispatch is only logged.
RemindOne(j, d) ==
    LET rest == maint[j].due \ {d} IN
    /\ maint[j].pc = "remind"
    /\ JobAt(j, IF rest = {} THEN IdleJob ELSE [maint[j] EXCEPT !.due = rest])
    /\ subs' = [subs EXCEPT ![d.sub].reminded = TRUE]
    /\ notices' \in IF subs[d.sub].reminded THEN {notices} ELSE {notices, Append(notices, d)}
    /\ UNCHANGED <<now, activePlans, events, entVars, frame>>

\* The worker dies in the middle of the job; the next run starts it afresh.
WorkerCrash(j) ==
    /\ maint[j].pc # "idle"
    /\ JobAt(j, IdleJob)
    /\ UNCHANGED <<storeVars, entVars, frame, notices>>

MaintenanceStep(j) ==
    \/ MaintenanceStart(j)
    \/ ExpireWrite(j)
    \/ ExpireLog(j)
    \/ ExpireFlush(j)
    \/ RemindLook(j)
    \/ \E d \in maint[j].due : RemindOne(j, d)

----
(* The service on its own: grants, cancellations and maintenance. *)

GrantStep(p) ==
    \/ GrantPlan(p)
    \/ GrantLookup(p)
    \/ GrantReplayed(p)
    \/ GrantRead(p)
    \/ GrantCommit(p)
    \/ GrantAbort(p)

FrameStep(p) == GrantStep(p) \/ CancelWrite(p) \/ CancelLog(p) \/ Flush(p)

Environment ==
    \/ NextDay /\ UNCHANGED <<entVars, frame, jobVars>>
    \/ \E plan \in Plans, isActive \in BOOLEAN : AdminUpdate(plan, isActive) /\ UNCHANGED <<entVars, frame, jobVars>>
    \/ \E u \in Users : CacheExpire(u) /\ UNCHANGED <<frame, jobVars>>
    \/ \E v \in Viewers, u \in Users : ViewMiss(v, u) /\ UNCHANGED <<frame, jobVars>>
    \/ \E v \in Viewers : ViewStep(v) /\ UNCHANGED <<frame, jobVars>>

Request(p) ==
    /\ Len(events) < MaxRequests
    /\ \/ \E u \in Users, plan \in Plans, days \in GrantDays : AdminGrant(p, u, plan, days)
       \/ \E u \in Users, plan \in Plans, id \in PaymentIds : PaidGrant(p, u, plan, id)
       \/ \E u \in Users, immediately \in BOOLEAN : CancelRead(p, u, immediately)

SubNext ==
    \/ \E p \in Procs : Request(p) \/ FrameStep(p) \/ Return(p)
    \/ \E j \in Jobs : MaintenanceStep(j) \/ WorkerCrash(j)
    \/ Environment

\* The event loop serves every request, the queue runs the job again and
\* again and not every run is cut short before it retires what it read, and
\* Redis applies the time to live.
SubFairness ==
    /\ \A p \in Procs : WF_subVars(FrameStep(p) \/ Return(p))
    /\ \A j \in Jobs : WF_subVars(MaintenanceStep(j)) /\ SF_subVars(ExpireWrite(j))
    /\ \A v \in Viewers : WF_subVars(ViewStep(v) /\ UNCHANGED <<frame, jobVars>>)
    /\ \A u \in Users : WF_subVars(CacheExpire(u) /\ UNCHANGED <<frame, jobVars>>)

SubSpec == SubInit /\ [][SubNext]_subVars /\ SubFairness

----
(* Properties *)

\* "A user can never be left with the old subscription cancelled and the new
\* one missing": no step of a grant of an entitling status takes away a user's
\* last entitling row, whatever cancellations, other grants and maintenance did
\* to the row it has read.
GrantKeepsEntitlement ==
    [][\A p \in Procs, u \in Users :
          /\ frame[p].user = u
          /\ frame[p].pc \in GrantPoints
          /\ frame[p].status \in Entitling
          /\ frame'[p] # frame[p]
          /\ LiveRows(u) # {}
          => LiveRows(u)' # {}]_subVars

\* A row that still entitles although its period has elapsed.
EntitledPastEnd(i) ==
    i \in DOMAIN subs /\ subs[i].status \in Entitling /\ subs[i].end # None /\ subs[i].end < now

\* "Without it a missed webhook would leave a lapsed user entitled forever":
\* expireLapsedSubscriptions retires every lapsed row in the end, although its
\* runs overlap and may be cut short.
LapsedIsRetired ==
    \A i \in 1..(MaxRequests + Cardinality(Procs)) : EntitledPastEnd(i) ~> ~EntitledPastEnd(i)

\* The events that give a row a new period.
PeriodGrants == {"wallet_payment", "gateway_payment", "stripe_sync", "manual_grant"}

\* "Once per period": sendDue reminds a subscription at most once for every
\* period it has been granted, also when two runs of the job overlap.
ReminderOncePerPeriod ==
    \A i \in DOMAIN subs :
        Cardinality({n \in DOMAIN notices : notices[n].sub = i})
            <= Cardinality({e \in DOMAIN events : events[e].sub = i /\ events[e].type \in PeriodGrants})

\* A cached answer that no longer agrees with the tables.
StaleAnswer(u) == cache[u] # None /\ cache[u] # Resolved(u)

\* Whatever made an answer stale (a fill that raced a write, a failed deletion
\* in invalidate, a period that ran out), the time to live bounds it: the
\* answer agrees with the tables again, or is gone, in the end.
StaleEntitlementHeals == \A u \in Users : StaleAnswer(u) ~> ~StaleAnswer(u)

\* "Retire subscriptions whose paid period has elapsed": the job retires no
\* subscription whose period is still running.
ExpiresOnlyLapsed ==
    [][\A i \in DOMAIN subs :
          subs[i].status # "EXPIRED" /\ subs'[i].status = "EXPIRED"
              => subs[i].end # None /\ subs[i].end < now]_subVars

\* "An early renewal loses no days": a payment that renews an active row whose
\* period still runs adds a full interval on top of that period.
EarlyRenewalLosesNoDays ==
    [][\A i \in DOMAIN subs :
          /\ subs[i].status = "ACTIVE" /\ subs[i].end # None /\ subs[i].end > now
          /\ \E e \in (Len(events) + 1)..Len(events') :
                events'[e].sub = i /\ events'[e].type \in {"wallet_payment", "gateway_payment"}
          => subs'[i].end >= subs[i].end + Interval[subs[i].plan]]_subVars
====
