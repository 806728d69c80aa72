---- MODULE ManualPayments ----
(***************************************************************************)
(* ManualPaymentsService: wallet and InstaPay orders that the owner        *)
(* approves by hand.                                                       *)
(*                                                                         *)
(* call[p] is the request p is serving, one await at a time: the customer  *)
(* starts, submits or cancels an order, an admin approves one.  Approval   *)
(* claims the order and then calls grantPlan, which runs in frame[p] (see  *)
(* Subscriptions).  Between two awaits of one request any other request,   *)
(* the maintenance job, a plan edit or the death of the API process may    *)
(* come in.  The table manual_payments is a sequence in creation order.    *)
(***************************************************************************)
EXTENDS Subscriptions, FiniteSetsExt

CONSTANTS
    References,     \* transfer references customers type, method included
    MaxOrders,      \* bound on the table
    MaxAttempts,    \* attempts of startOrder's loop (5 in the code)
    MaxCrashes      \* bound on crashes of the API process

ASSUME OrderAssumption ==
    /\ None \notin References
    /\ PaymentIds = {}     \* the wallet payments here are the approved orders
    /\ MaxOrders \in Nat /\ MaxAttempts \in Nat \ {0} /\ MaxCrashes \in Nat

VARIABLES
    orders,    \* table manual_payments
    call,      \* call[p]: the request in progress and what it has read
    crashes    \* how often the API process has died

vars == <<subVars, orders, call, crashes>>

OpenStatuses == {"AWAITING_PAYMENT", "SUBMITTED"}
OrderStatus == OpenStatuses \cup {"APPROVED", "REJECTED", "CANCELLED"}

Order == [user : Users, plan : Plans, status : OrderStatus, ref : References \cup {None}]

NoRequest == [pc |-> "idle", user |-> None, plan |-> None, order |-> 0,
              ref |-> None, status |-> None, attempt |-> 0]

CallRecord ==
    [pc : {"idle", "replace", "create", "raced", "submit", "cancel", "claim", "current", "granting", "restore"},
     user : Users \cup {None}, plan : Plans \cup {None}, order : Nat,
     ref : References \cup {None}, status : OrderStatus \cup {None}, attempt : Nat]

TypeOK ==
    /\ SubType
    /\ orders \in Seq(Order)
    /\ call \in [Procs -> CallRecord]
    /\ crashes \in Nat

Init ==
    /\ SubInit
    /\ orders = <<>>
    /\ call = [p \in Procs |-> NoRequest]
    /\ crashes = 0

----
(* Queries and indexes of manual_payments *)

OpenOrders(u) == {o \in DOMAIN orders : orders[o].user = u /\ orders[o].status \in OpenStatuses}

\* manual_payments_one_open_per_user
OneOpenPerUser(table) ==
    \A o1, o2 \in DOMAIN table :
        /\ table[o1].user = table[o2].user
        /\ table[o1].status \in OpenStatuses
        /\ table[o2].status \in OpenStatuses
        => o1 = o2

\* manual_payments_reference_once
ReferenceOnce(table) ==
    \A o1, o2 \in DOMAIN table :
        /\ table[o1].ref = table[o2].ref
        /\ table[o1].ref # None
        /\ table[o1].status \in {"SUBMITTED", "APPROVED"}
        /\ table[o2].status \in {"SUBMITTED", "APPROVED"}
        => o1 = o2

\* The partial unique indexes accept a table.
IndexesHold(table) == OneOpenPerUser(table) /\ ReferenceOnce(table)

\* isSellable: every plan of an instance has a price and is not Enterprise, and
\* payments are on.
Sellable(plan) == plan \in activePlans

\* Request p may begin.
Ready(p) == call[p].pc = "idle" /\ frame[p].pc = "idle"

Begin(p, r) == call' = [call EXCEPT ![p] = r]
Advance(p, point) == call' = [call EXCEPT ![p].pc = point]
Finish(p) == call' = [call EXCEPT ![p] = NoRequest]

WithStatus(o, status) == [orders EXCEPT ![o].status = status]

----
(* The customer *)

\* startOrder looks for an open order.  One for the same plan is returned and
\* one that is submitted is a conflict: neither changes anything.  An unpaid
\* one for another plan is to be replaced.  (The bound on the table counts the
\* rows being created.)
Creating == {p \in Procs : call[p].pc \in {"replace", "create", "raced"}}

StartOrder(p, u, plan) ==
    /\ Ready(p)
    /\ Len(orders) + Cardinality(Creating) < MaxOrders
    /\ Sellable(plan)
    /\ \/ /\ OpenOrders(u) = {}
          /\ Begin(p, [NoRequest EXCEPT !.pc = "create", !.user = u, !.plan = plan])
       \/ \E o \in OpenOrders(u) :
            /\ orders[o].plan # plan
            /\ orders[o].status = "AWAITING_PAYMENT"
            /\ Begin(p, [NoRequest EXCEPT !.pc = "replace", !.user = u, !.plan = plan, !.order = o])
    /\ UNCHANGED <<subVars, orders, crashes>>

\* The order found is cancelled by id, whatever it has become.
ReplaceOpen(p) ==
    /\ call[p].pc = "replace"
    /\ orders' = WithStatus(call[p].order, "CANCELLED")
    /\ Advance(p, "create")
    /\ UNCHANGED <<subVars, crashes>>

NewOrder(r) == [user |-> r.user, plan |-> r.plan, status |-> "AWAITING_PAYMENT", ref |-> None]

CreateOrder(p) ==
    /\ call[p].pc = "create"
    /\ OneOpenPerUser(Append(orders, NewOrder(call[p])))
    /\ orders' = Append(orders, NewOrder(call[p]))
    /\ Finish(p)
    /\ UNCHANGED <<subVars, crashes>>

\* P2002: the user has an open order by now, or the code collided with the
\* one of an earlier order.
CreateRefused(p) ==
    /\ call[p].pc = "create"
    /\ orders # <<>>
    /\ Advance(p, "raced")
    /\ UNCHANGED <<subVars, orders, crashes>>

\* The open order is returned, of whatever plan; with none, another attempt.
LookAgain(p) ==
    /\ call[p].pc = "raced"
    /\ IF OpenOrders(call[p].user) # {} \/ call[p].attempt + 1 = MaxAttempts
       THEN Finish(p)
       ELSE Begin(p, [call[p] EXCEPT !.pc = "create", !.attempt = @ + 1])
    /\ UNCHANGED <<subVars, orders, crashes>>

\* submit reads the order, which must be awaiting payment ...
SubmitRead(p, o, ref) ==
    /\ Ready(p)
    /\ orders[o].status = "AWAITING_PAYMENT"
    /\ Begin(p, [NoRequest EXCEPT !.pc = "submit", !.order = o, !.ref = ref])
    /\ UNCHANGED <<subVars, orders, crashes>>

\* ... and then updates it by id alone, unless an index refuses.
SubmitWrite(p) ==
    LET o == call[p].order
        submitted == [orders EXCEPT ![o].status = "SUBMITTED", ![o].ref = call[p].ref]
    IN
    /\ call[p].pc = "submit"
    /\ orders' = IF IndexesHold(submitted) THEN submitted ELSE orders
    /\ Finish(p)
    /\ UNCHANGED <<subVars, crashes>>

CancelOrderRead(p, o) ==
    /\ Ready(p)
    /\ orders[o].status \in OpenStatuses
    /\ Begin(p, [NoRequest EXCEPT !.pc = "cancel", !.order = o])
    /\ UNCHANGED <<subVars, orders, crashes>>

CancelOrderWrite(p) ==
    /\ call[p].pc = "cancel"
    /\ orders' = WithStatus(call[p].order, "CANCELLED")
    /\ Finish(p)
    /\ UNCHANGED <<subVars, crashes>>

----
(* The owner *)

\* Mutant of ApproveRead: the status is not remembered.
ApproveReadForgets(p, o) ==
    /\ Ready(p)
    /\ Begin(p, [NoRequest EXCEPT !.pc = "claim", !.order = o])
    /\ UNCHANGED <<subVars, orders, crashes>>

\* approve reads the order, in any status, and remembers its status.
ApproveRead(p, o) ==
    /\ Ready(p)
    /\ Begin(p, [NoRequest EXCEPT !.pc = "claim", !.order = o, !.status = orders[o].status])
    /\ UNCHANGED <<subVars, orders, crashes>>

\* The claim, one conditional update: of two clicks only one goes on.  An index
\* may refuse it too.
ApproveClaim(p) ==
    LET o == call[p].order
        claimed == WithStatus(o, "APPROVED")
    IN
    /\ call[p].pc = "claim"
    /\ IF orders[o].status \in OpenStatuses /\ IndexesHold(claimed)
       THEN orders' = claimed /\ Advance(p, "current")
       ELSE orders' = orders /\ Finish(p)
    /\ UNCHANGED <<subVars, crashes>>

\* The current subscription is read and grantPlan is called.
ApproveCurrent(p) ==
    LET o == call[p].order IN
    /\ call[p].pc = "current"
    /\ CallPaid(p, orders[o].user, orders[o].plan, "wallet", "wallet_payment", o,
                Interval[orders[o].plan])
    /\ Advance(p, "granting")
    /\ UNCHANGED <<storeVars, entVars, jobVars, orders, crashes>>

ApproveGranted(p) ==
    /\ call[p].pc = "granting"
    /\ frame[p].pc = "ok"
    /\ frame' = [frame EXCEPT ![p] = NoCall]
    /\ Finish(p)
    /\ UNCHANGED <<storeVars, entVars, jobVars, orders, crashes>>

ApproveThrew(p) ==
    /\ call[p].pc = "granting"
    /\ frame[p].pc = "failed"
    /\ frame' = [frame EXCEPT ![p] = NoCall]
    /\ Advance(p, "restore")
    /\ UNCHANGED <<storeVars, entVars, jobVars, orders, crashes>>

\* Mutant of ApproveRestore: the order is put back as submitted.
RestoreSubmitted(p) ==
    LET restored == WithStatus(call[p].order, "SUBMITTED") IN
    /\ call[p].pc = "restore"
    /\ orders' = IF IndexesHold(restored) THEN restored ELSE orders
    /\ Finish(p)
    /\ UNCHANGED <<subVars, crashes>>

\* The order gets back the status it was read with; an index may refuse this
\* too, and then the order stays as it is.
ApproveRestore(p) ==
    LET restored == WithStatus(call[p].order, call[p].status) IN
    /\ call[p].pc = "restore"
    /\ orders' = IF IndexesHold(restored) THEN restored ELSE orders
    /\ Finish(p)
    /\ UNCHANGED <<subVars, crashes>>

\* reject: one conditional update.
Reject(o) ==
    /\ orders[o].status \in OpenStatuses
    /\ orders' = WithStatus(o, "REJECTED")
    /\ UNCHANGED <<subVars, call, crashes>>

----

\* The API process dies: every request in it is lost, every open transaction
\* rolls back.
ApiCrash ==
    /\ crashes < MaxCrashes
    /\ crashes' = crashes + 1
    /\ call' = [p \in Procs |-> NoRequest]
    /\ frame' = [p \in Procs |-> NoCall]
    /\ view' = [v \in Viewers |-> Idle]
    /\ UNCHANGED <<storeVars, cache, jobVars, orders>>

CustomerRequest(p) ==
    \/ \E u \in Users, plan \in Plans : StartOrder(p, u, plan)
    \/ \E o \in DOMAIN orders, ref \in References : SubmitRead(p, o, ref)
    \/ \E o \in DOMAIN orders : CancelOrderRead(p, o)

CallStep(p) ==
    \/ ReplaceOpen(p) \/ CreateOrder(p) \/ CreateRefused(p) \/ LookAgain(p)
    \/ SubmitWrite(p)
    \/ CancelOrderWrite(p)
    \/ ApproveClaim(p) \/ ApproveCurrent(p) \/ ApproveGranted(p) \/ ApproveThrew(p) \/ ApproveRestore(p)

\* The subscription service underneath: grants in progress, cancellations and
\* admin grants, the maintenance job, readers and the clock.
ServiceStep ==
    /\ \/ \E p \in Procs : FrameStep(p)
       \/ \E p \in Procs : call[p].pc = "idle" /\ (Request(p) \/ Return(p))
       \/ \E j \in Jobs : MaintenanceStep(j) \/ WorkerCrash(j)
       \/ Environment
    /\ UNCHANGED <<orders, call, crashes>>

Next ==
    \/ \E p \in Procs : CustomerRequest(p) \/ CallStep(p)
    \/ \E p \in Procs, o \in DOMAIN orders : ApproveRead(p, o)
    \/ \E o \in DOMAIN orders : Reject(o)
    \/ ApiCrash
    \/ ServiceStep

Spec == Init /\ [][Next]_vars

----
(* Properties *)

\* The wallet payments in the audit log.
WalletEvents == {e \in DOMAIN events : events[e].type = "wallet_payment"}

\* The order has been paid out: its grant is in the log.
PaidOut(o) == \E e \in WalletEvents : events[e].id = o

\* An order waiting for approval has the reference its owner typed, also when
\* an approval that failed put it back.
SubmittedHasReference == \A o \in DOMAIN orders : orders[o].status = "SUBMITTED" => orders[o].ref # None

\* "Claim it first, so two clicks (or two admins) cannot grant twice": every
\* wallet grant is of an order, of that order's user and plan, and no order is
\* granted twice, whatever happens to its status afterwards.
GrantsMatchOrders ==
    /\ \A e \in WalletEvents :
          LET o == events[e].id
              row == events[e].sub
          IN  /\ o \in DOMAIN orders
              /\ row \in DOMAIN subs
              /\ subs[row].user = orders[o].user
              /\ subs[row].plan = orders[o].plan
    /\ \A e1, e2 \in WalletEvents : events[e1].id = events[e2].id => e1 = e2

\* The time a user's subscription still runs is time they paid for: with only
\* wallet payments, at most the intervals of their orders that were paid out.
PaidDays(u) ==
    MapThenSumSet(LAMBDA o : Interval[orders[o].plan],
                  {o \in DOMAIN orders : orders[o].user = u /\ PaidOut(o)})

PaidTimeIsPaidFor ==
    \A i \in DOMAIN subs : subs[i].end # None => subs[i].end <= now + PaidDays(subs[i].user)

\* "A receipt counts once: the same transfer reference cannot be claimed by a
\* second order": two orders that were both paid out have two references.
ReceiptCountsOnce ==
    \A o1, o2 \in DOMAIN orders :
        PaidOut(o1) /\ PaidOut(o2) /\ orders[o1].ref = orders[o2].ref /\ orders[o1].ref # None => o1 = o2
====
