---- MODULE StripeSync ----
(***************************************************************************)
(* StripeWebhookController and the Stripe side of BillingController.       *)
(*                                                                         *)
(* Stripe keeps its own subscriptions and sends an event for every change. *)
(* It delivers an event until it is answered with success: in any order,   *)
(* again after a failure, and again while an earlier delivery is still     *)
(* being handled.  hook[p] is the delivery, or the cancellation, request p *)
(* is serving; grantPlan and cancel run for it in frame[p].                *)
(***************************************************************************)
EXTENDS Subscriptions

CONSTANTS
    FirstStatus,    \* statuses a new subscription may have at Stripe
    MaxStripe,      \* bound on the subscriptions at Stripe
    MaxEvents,      \* bound on the events Stripe sends
    MayCrash        \* may the API process die?

StripeStatus == {"trialing", "active", "past_due", "unpaid", "canceled", "incomplete", "incomplete_expired"}

ASSUME StripeAssumption ==
    /\ FirstStatus \subseteq StripeStatus
    /\ MaxStripe \in Nat /\ MaxEvents \in Nat
    /\ MayCrash \in BOOLEAN

VARIABLES
    stripe,    \* the subscriptions at Stripe; an id is a position
    sent,      \* the events Stripe has sent; an id is a position
    acked,     \* ids of the events answered with success
    hook       \* hook[p]: what request p handles and the local row it found

stripeVars == <<stripe, sent, acked>>
vars == <<subVars, stripeVars, hook>>

\* The three ways dispatch handles an event: sync stands for the events that
\* end in applySubscription, whatever their type.
EventKinds == {"sync", "deleted", "payment_failed"}

NoHook == [pc |-> "idle", event |-> 0, row |-> 0, user |-> None, now |-> FALSE]

\* What the code reads of a subscription at Stripe.
StripeSubscription == [user : Users, plan : Plans, status : StripeStatus, end : Nat, atEnd : BOOLEAN]

Hook == [pc : {"idle", "granting", "revoke", "mark", "log", "flush", "cancel"},
         event : Nat, row : Nat, user : Users \cup {None}, now : BOOLEAN]

StripeType ==
    /\ SubType
    /\ stripe \in Seq(StripeSubscription)
    /\ sent \in Seq([kind : EventKinds, sub : DOMAIN stripe])
    /\ acked \subseteq DOMAIN sent
    /\ hook \in [Procs -> Hook]

Init ==
    /\ SubInit
    /\ stripe = <<>>
    /\ sent = <<>>
    /\ acked = {}
    /\ hook = [p \in Procs |-> NoHook]

----
(* Stripe *)

\* Stripe charges a plan by the period; every plan sold there has one.
Period(plan) == IF Interval[plan] > 1 THEN Interval[plan] ELSE 1

Send(s, kinds) ==
    /\ Len(sent) + Len(kinds) <= MaxEvents
    /\ sent' = sent \o [n \in DOMAIN kinds |-> [kind |-> kinds[n], sub |-> s]]

\* Subscription s becomes `new` and Stripe tells about it.
Changed(s, new, kinds) ==
    /\ stripe' = [stripe EXCEPT ![s] = new]
    /\ Send(s, kinds)
    /\ UNCHANGED <<subVars, acked, hook>>

\* createCheckout sends the customer to Stripe, whatever they have already; the
\* session carries the user and the plan.
Checkout(u, plan, status) ==
    /\ Len(stripe) < MaxStripe
    /\ plan \in activePlans
    /\ stripe' = Append(stripe, [user |-> u, plan |-> plan, status |-> status,
                                 end |-> now + Period(plan), atEnd |-> FALSE])
    /\ Send(Len(stripe) + 1, <<"sync">>)
    /\ UNCHANGED <<subVars, acked, hook>>

\* The first payment goes through, or never does.
StripeStarts(s) ==
    /\ stripe[s].status = "incomplete"
    /\ \E status \in {"active", "incomplete_expired"} :
           Changed(s, [stripe[s] EXCEPT !.status = status], <<"sync">>)

\* The period is over and the next one is paid, or not; dunning may succeed.
\* Which events are sent depends on what the endpoint is registered for.
StripeRenews(s) ==
    /\ stripe[s].status \in {"trialing", "active"}
    /\ stripe[s].end <= now
    /\ \/ Changed(s, [stripe[s] EXCEPT !.status = "active", !.end = @ + Period(stripe[s].plan)], <<"sync">>)
       \/ \E kinds \in {<<"payment_failed">>, <<"payment_failed", "sync">>} :
              Changed(s, [stripe[s] EXCEPT !.status = "past_due", !.end = @ + Period(stripe[s].plan)], kinds)

StripeRecovers(s) ==
    /\ stripe[s].status = "past_due"
    /\ Changed(s, [stripe[s] EXCEPT !.status = "active"], <<"sync">>)

\* The period of a cancelled subscription ends, dunning gives up, or an
\* operator deletes it.
StripeDeletes(s) ==
    /\ stripe[s].status \in {"trialing", "active", "past_due"}
    /\ Changed(s, [stripe[s] EXCEPT !.status = "canceled"], <<"deleted">>)

StripeStep ==
    \/ \E u \in Users, plan \in Plans, status \in FirstStatus : Checkout(u, plan, status)
    \/ \E s \in DOMAIN stripe :
          StripeStarts(s) \/ StripeRenews(s) \/ StripeRecovers(s) \/ StripeDeletes(s)

----
(* The webhook *)

\* Request p may begin.
Ready(p) == hook[p].pc = "idle" /\ frame[p].pc = "idle"

At(p, point) == hook' = [hook EXCEPT ![p].pc = point]

Answered(p) ==
    /\ acked' = acked \cup {hook[p].event}
    /\ hook' = [hook EXCEPT ![p] = NoHook]

\* An error is answered with 5xx and the event will be delivered again.
Threw(p) ==
    /\ hook' = [hook EXCEPT ![p] = NoHook]
    /\ UNCHANGED acked

MapStatus(status) ==
    CASE status = "trialing" -> "TRIALING"
      [] status = "active" -> "ACTIVE"
      [] status \in {"past_due", "unpaid"} -> "PAST_DUE"
      [] status = "canceled" -> "CANCELED"
      [] status \in {"incomplete", "incomplete_expired"} -> "INCOMPLETE"
      [] OTHER -> "ACTIVE"

\* An event that Stripe still has to deliver.
Deliverable(e, kinds) == e \in DOMAIN sent \ acked /\ sent[e].kind \in kinds

\* applySubscription re-reads the subscription instead of trusting the event,
\* and calls grantPlan with what it reads.
ApplySubscription(p, e) ==
    LET live == stripe[sent[e].sub] IN
    /\ Ready(p)
    /\ Deliverable(e, {"sync"})
    /\ frame' = [frame EXCEPT ![p] = [NoCall EXCEPT
           !.pc = "plan", !.user = live.user, !.plan = live.plan, !.provider = "stripe",
           !.type = "stripe_sync", !.id = e, !.psid = sent[e].sub,
           !.status = MapStatus(live.status), !.end = live.end, !.atEnd = live.atEnd]]
    /\ hook' = [hook EXCEPT ![p] = [NoHook EXCEPT !.pc = "granting", !.event = e]]
    /\ UNCHANGED <<storeVars, entVars, jobVars, stripeVars>>

\* Mutant of HookReturns: an error is logged and the event answered.
HookSwallows(p) ==
    /\ hook[p].pc = "granting"
    /\ frame[p].pc \in {"ok", "failed"}
    /\ Answered(p)
    /\ frame' = [frame EXCEPT ![p] = NoCall]
    /\ UNCHANGED <<storeVars, entVars, jobVars, stripe, sent>>

\* grantPlan or cancel has returned, or thrown.
HookReturns(p) ==
    /\ hook[p].pc = "granting"
    /\ \/ frame[p].pc = "ok" /\ Answered(p)
       \/ frame[p].pc = "failed" /\ Threw(p)
    /\ frame' = [frame EXCEPT ![p] = NoCall]
    /\ UNCHANGED <<storeVars, entVars, jobVars, stripe, sent>>

\* findByProviderSubscriptionId, 0 when there is none.
LocalRow(s) ==
    IF \E i \in DOMAIN subs : subs[i].psid = s THEN CHOOSE i \in DOMAIN subs : subs[i].psid = s ELSE 0

\* A deletion or a failed payment: the local row is looked up first.  There is
\* nothing to do for a subscription that was never applied.
FindLocal(p, e) ==
    LET row == LocalRow(sent[e].sub) IN
    /\ Ready(p)
    /\ Deliverable(e, {"deleted", "payment_failed"})
    /\ IF row = 0 THEN acked' = acked \cup {e} /\ UNCHANGED hook
       ELSE /\ hook' = [hook EXCEPT ![p] = [NoHook EXCEPT
                  !.pc = IF sent[e].kind = "deleted" THEN "revoke" ELSE "mark",
                  !.event = e, !.row = row, !.user = subs[row].user]]
            /\ UNCHANGED acked
    /\ UNCHANGED <<subVars, stripe, sent>>

\* cancel(local.userId, true): the row the user has now, which need not be the
\* one that was found; with none, it throws.
Revoke(p) ==
    /\ hook[p].pc = "revoke"
    /\ IF ActiveRow(hook[p].user) = 0
       THEN Threw(p) /\ UNCHANGED <<storeVars, entVars, jobVars, frame>>
       ELSE CancelRead(p, hook[p].user, TRUE) /\ At(p, "granting") /\ UNCHANGED acked
    /\ UNCHANGED <<stripe, sent>>

\* markPastDue updates the row that was found, whatever it has become: an
\* index may refuse it ...
MarkPastDue(p) ==
    LET table == [subs EXCEPT ![hook[p].row].status = "PAST_DUE"] IN
    /\ hook[p].pc = "mark"
    /\ IF OneLivePerUser(table) THEN subs' = table /\ At(p, "log") /\ UNCHANGED acked
       ELSE Threw(p) /\ UNCHANGED subs
    /\ UNCHANGED <<now, activePlans, events, entVars, frame, jobVars, stripe, sent>>

\* ... and logs it in a second statement, which the event's own id refuses
\* when it was logged before.
MarkLog(p) ==
    LET e == hook[p].event IN
    /\ hook[p].pc = "log"
    /\ IF EventIdFree("stripe", e)
       THEN /\ events' = Append(events, EventRow(hook[p].row, "payment_failed", "stripe", e))
            /\ At(p, "flush")
            /\ UNCHANGED acked
       ELSE Threw(p) /\ UNCHANGED events
    /\ UNCHANGED <<now, activePlans, subs, entVars, frame, jobVars, stripe, sent>>

MarkFlush(p) ==
    /\ hook[p].pc = "flush"
    /\ Invalidate({hook[p].user})
    /\ Answered(p)
    /\ UNCHANGED <<storeVars, view, frame, jobVars, stripe, sent>>

----
(* The customer cancels *)

\* "Keep Stripe as the source of truth": unless it is immediate, a cancellation
\* of a Stripe row is scheduled there first ...
Cancel(p, u, immediately) ==
    LET row == subs[ActiveRow(u)] IN
    /\ Ready(p)
    /\ ActiveRow(u) # 0
    /\ hook' = [hook EXCEPT ![p] = [NoHook EXCEPT !.pc = "cancel", !.user = u, !.now = immediately]]
    /\ IF row.provider = "stripe" /\ row.psid # None /\ ~immediately
       THEN stripe' = [stripe EXCEPT ![row.psid].atEnd = TRUE] /\ Send(row.psid, <<"sync">>)
       ELSE UNCHANGED <<stripe, sent>>
    /\ UNCHANGED <<subVars, acked>>

\* ... and then the service cancels the row the user has by now.
CancelLocally(p) ==
    LET h == hook[p] IN
    /\ h.pc = "cancel"
    /\ hook' = [hook EXCEPT ![p] = NoHook]
    /\ IF ActiveRow(h.user) = 0 THEN UNCHANGED subVars ELSE CancelRead(p, h.user, h.now)
    /\ UNCHANGED <<stripeVars>>

----

\* The API process dies: every request in it is lost, unanswered.
ApiCrash ==
    /\ MayCrash
    /\ hook' = [p \in Procs |-> NoHook]
    /\ frame' = [p \in Procs |-> NoCall]
    /\ view' = [v \in Viewers |-> Idle]
    /\ UNCHANGED <<storeVars, cache, jobVars, stripeVars>>

HookStep(p) ==
    \/ HookReturns(p)
    \/ Revoke(p)
    \/ MarkPastDue(p) \/ MarkLog(p) \/ MarkFlush(p)
    \/ CancelLocally(p)

Deliver(p) == \E e \in DOMAIN sent : ApplySubscription(p, e) \/ FindLocal(p, e)

\* Payments by wallet and admin grants go on next to Stripe.
OtherGrant(p) ==
    /\ Len(events) < MaxRequests
    /\ \/ \E u \in Users, plan \in Plans, days \in GrantDays : AdminGrant(p, u, plan, days)
       \/ \E u \in Users, plan \in Plans, id \in PaymentIds : PaidGrant(p, u, plan, id)

ServiceStep ==
    /\ \/ \E p \in Procs : FrameStep(p)
       \/ \E p \in Procs : hook[p].pc = "idle" /\ (OtherGrant(p) \/ Return(p))
       \/ \E j \in Jobs : MaintenanceStep(j) \/ WorkerCrash(j)
       \/ Environment
    /\ UNCHANGED <<stripeVars, hook>>

Next ==
    \/ StripeStep
    \/ \E p \in Procs : Deliver(p) \/ HookStep(p)
    \/ \E p \in Procs, u \in Users, immediately \in BOOLEAN :
          Len(events) <= MaxRequests /\ Cancel(p, u, immediately)
    \/ ApiCrash
    \/ ServiceStep

Spec == Init /\ [][Next]_vars

\* Stripe delivers an event again and again until it is answered, the event
\* loop serves what was delivered, and the job runs.
Fairness ==
    /\ SubFairness
    /\ \A p \in Procs : WF_vars(HookStep(p) \/ (FrameStep(p) /\ UNCHANGED <<stripeVars, hook>>))
    /\ \A e \in 1..MaxEvents : SF_vars(\E p \in Procs :
           /\ e \in DOMAIN sent
           /\ ApplySubscription(p, e) \/ FindLocal(p, e))

FairSpec == Spec /\ Fairness

----
(* Properties *)

\* "Returning 5xx makes Stripe retry": no event is lost.  One that was answered
\* with success has been applied, also when grantPlan refused it at first, when
\* two deliveries of it raced or when the API died while handling it.
AckedIsApplied == \A e \in acked : sent[e].kind = "sync" => Seen("stripe", e)

\* "Same plan, same provider subscription: this is a renewal, not a switch": a
\* row is never handed over, to another customer, plan or subscription at
\* Stripe; that is what findByProviderSubscriptionId and its callers rely on.
RowKeepsItsSubscription ==
    [][\A i \in DOMAIN subs :
          /\ subs'[i].user = subs[i].user
          /\ subs'[i].plan = subs[i].plan
          /\ subs'[i].psid = subs[i].psid]_vars

\* Stripe has been paid for the days that run, for a plan that is sold.
PaidAtStripe(s) ==
    /\ s \in DOMAIN stripe
    /\ stripe[s].status \in {"trialing", "active"}
    /\ now <= stripe[s].end
    /\ stripe[s].plan \in activePlans

Served(s) == s \in DOMAIN stripe /\ LiveRows(stripe[s].user) # {}

\* expireLapsedSubscriptions "only reconciles stored state": a customer whose
\* renewal Stripe has collected is served again in the end, although the job
\* expired the row before the event of the renewal arrived.
StripePaidIsServed ==
    \A s \in 1..MaxStripe : <>[]PaidAtStripe(s) => []<>Served(s)

\* "A user can never be left with the old subscription cancelled and the new
\* one missing": no sync of a Stripe subscription takes away the access that a
\* row of something else gives.
SyncKeepsEntitlement ==
    [][\A p \in Procs, u \in Users :
          /\ frame[p].user = u
          /\ frame[p].type = "stripe_sync"
          /\ frame'[p] # frame[p]
          /\ \E i \in LiveRows(u) : subs[i].psid # frame[p].psid
          => LiveRows(u)' # {}]_vars
====
