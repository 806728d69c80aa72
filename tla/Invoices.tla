---- MODULE Invoices ----
(***************************************************************************)
(* InvoicesService: checkout and settlement for gateways that take one     *)
(* payment per period (Paymob, the test double).                           *)
(*                                                                         *)
(* work[p] is the request p is serving, one await at a time: a checkout,   *)
(* or one gateway callback on its way through settle() and, in frame[p],   *)
(* through grantPlan.  The gateway is external: a customer may try several *)
(* times on one invoice, each try is a transaction whose callback names    *)
(* the invoice, a paid transaction may be refunded, which calls back again *)
(* under the same transaction id, and callbacks come late, twice, out of   *)
(* order and again until one is answered with 200.                         *)
(***************************************************************************)
EXTENDS Subscriptions

CONSTANTS
    MaxInvoices,    \* bound on the table
    MaxTxns,        \* bound on the gateway's transactions
    Duplicates,     \* does the gateway also deliver what it is delivering or was answered?
    MaxCrashes      \* bound on crashes of the API process

ASSUME InvoiceAssumption ==
    /\ MaxInvoices \in Nat /\ MaxTxns \in Nat /\ MaxCrashes \in Nat
    /\ Duplicates \in BOOLEAN
    /\ PaymentIds = {}     \* the wallet has no part in this module

VARIABLES
    invoices,   \* table invoices
    work,       \* work[p]: the request in progress and what it has read
    txns,       \* the gateway's transactions
    unacked,    \* callbacks the gateway still has to deliver
    crashes     \* how often the API process has died

vars == <<subVars, invoices, work, txns, unacked, crashes>>
gatewayVars == <<txns, unacked>>

InvoiceStatus == {"PENDING", "PAID", "FAILED", "REFUNDED"}

Invoice == [user : Users, plan : Plans, status : InvoiceStatus,
            open : BOOLEAN]     \* the gateway has a page to pay it on

Txn == [invoice : Nat,
        outcome : {"PAID", "FAILED"},
        exact : BOOLEAN,        \* the amount and currency are the invoice's
        refunded : BOOLEAN]

Callback == [txn : Nat, outcome : {"PAID", "FAILED"}]

WorkRecord ==
    [pc : {"idle", "session", "refund", "decline", "claim", "current", "granting", "restore"},
     invoice : Nat, callback : Callback \cup {None}, status : InvoiceStatus \cup {None}]

NoWork == [pc |-> "idle", invoice |-> 0, callback |-> None, status |-> None]

TypeOK ==
    /\ SubType
    /\ invoices \in Seq(Invoice)
    /\ work \in [Procs -> WorkRecord]
    /\ txns \in Seq(Txn)
    /\ unacked \in SUBSET Callback
    /\ crashes \in Nat

Init ==
    /\ SubInit
    /\ invoices = <<>>
    /\ work = [p \in Procs |-> NoWork]
    /\ txns = <<>>
    /\ unacked = {}
    /\ crashes = 0

Ready(p) == work[p].pc = "idle" /\ frame[p].pc = "idle"
Finish(p) == work' = [work EXCEPT ![p] = NoWork]
Advance(p, point) == work' = [work EXCEPT ![p].pc = point]
WithStatus(i, status) == [invoices EXCEPT ![i].status = status]

\* The callback is answered with 200 and not delivered again.
Acknowledge(p) == unacked' = unacked \ {work[p].callback}

----
(* The gateway (external) *)

Callbacks(t) ==
    {[txn |-> t, outcome |-> txns[t].outcome]}
        \cup IF txns[t].refunded THEN {[txn |-> t, outcome |-> "FAILED"]} ELSE {}

\* A customer tries to pay; the amount of a declined try does not matter.
Pay(i, outcome, exact) ==
    /\ Len(txns) < MaxTxns
    /\ outcome = "FAILED" => exact
    /\ invoices[i].open
    /\ txns' = Append(txns, [invoice |-> i, outcome |-> outcome, exact |-> exact, refunded |-> FALSE])
    /\ unacked' = unacked \cup {[txn |-> Len(txns) + 1, outcome |-> outcome]}
    /\ UNCHANGED <<subVars, invoices, work, crashes>>

\* The owner refunds or voids a payment at the gateway.
Refund(t) ==
    /\ txns[t].outcome = "PAID"
    /\ ~txns[t].refunded
    /\ txns' = [txns EXCEPT ![t].refunded = TRUE]
    /\ unacked' = unacked \cup {[txn |-> t, outcome |-> "FAILED"]}
    /\ UNCHANGED <<subVars, invoices, work, crashes>>

----
(* startCheckout *)

CheckoutCreate(p, u, plan) ==
    /\ Ready(p)
    /\ Len(invoices) < MaxInvoices
    /\ plan \in activePlans
    /\ Interval[plan] > 0
    /\ invoices' = Append(invoices, [user |-> u, plan |-> plan, status |-> "PENDING", open |-> FALSE])
    /\ work' = [work EXCEPT ![p] = [NoWork EXCEPT !.pc = "session", !.invoice = Len(invoices) + 1]]
    /\ UNCHANGED <<subVars, gatewayVars, crashes>>

\* The gateway answers with the page, or fails and the invoice with it.
CheckoutSession(p) ==
    /\ work[p].pc = "session"
    /\ \/ invoices' = [invoices EXCEPT ![work[p].invoice].open = TRUE]
       \/ invoices' = WithStatus(work[p].invoice, "FAILED")
    /\ Finish(p)
    /\ UNCHANGED <<subVars, gatewayVars, crashes>>

----
(* settle *)

\* Callback m still has to be delivered, and no delivery of it is under way.
Outstanding(m) == m \in unacked /\ \A p \in Procs : work[p].callback # m

\* Mutant of Deliver: any amount will do.
DeliverAnyAmount(p, t, m) ==
    LET i == txns[t].invoice
        status == invoices[i].status
    IN
    /\ Ready(p)
    /\ Duplicates \/ Outstanding(m)
    /\ work' = [work EXCEPT ![p] =
           [pc |-> IF m.outcome = "FAILED" THEN (IF status = "PAID" THEN "refund" ELSE "decline") ELSE "claim",
            invoice |-> i, callback |-> m, status |-> status]]
    /\ UNCHANGED <<subVars, invoices, gatewayVars, crashes>>

\* A callback comes in and the invoice it names is read.  What happens next
\* is decided on the status read here.
Deliver(p, t, m) ==
    LET i == txns[t].invoice
        status == invoices[i].status
    IN
    /\ Ready(p)
    /\ Duplicates \/ Outstanding(m)
    /\ work' = [work EXCEPT ![p] =
           [pc |-> IF m.outcome = "FAILED" THEN (IF status = "PAID" THEN "refund" ELSE "decline")
                   ELSE IF txns[t].exact THEN "claim" ELSE "decline",
            invoice |-> i, callback |-> m, status |-> status]]
    /\ UNCHANGED <<subVars, invoices, gatewayVars, crashes>>

\* A failed transaction on an invoice that was read PAID is its refund.
SettleRefund(p) ==
    /\ work[p].pc = "refund"
    /\ invoices' = WithStatus(work[p].invoice, "REFUNDED")
    /\ Acknowledge(p)
    /\ Finish(p)
    /\ UNCHANGED <<subVars, txns, crashes>>

\* Mutant of SettleDecline: the invoice is marked whatever it has become.
DeclineAny(p) ==
    /\ work[p].pc = "decline"
    /\ invoices' = WithStatus(work[p].invoice, "FAILED")
    /\ Acknowledge(p)
    /\ Finish(p)
    /\ UNCHANGED <<subVars, txns, crashes>>

\* A decline, or an amount that is not the invoice's: only a PENDING invoice
\* is marked.
SettleDecline(p) ==
    LET i == work[p].invoice IN
    /\ work[p].pc = "decline"
    /\ invoices' = IF invoices[i].status = "PENDING" THEN WithStatus(i, "FAILED") ELSE invoices
    /\ Acknowledge(p)
    /\ Finish(p)
    /\ UNCHANGED <<subVars, txns, crashes>>

\* Mutant of Claimable: the claim has no filter on the status.
ClaimableAny == InvoiceStatus

\* A later success on a declined invoice is claimed too.
Claimable == {"PENDING", "FAILED"}

\* The claim, one conditional update.
SettleClaim(p) ==
    LET i == work[p].invoice IN
    /\ work[p].pc = "claim"
    /\ IF invoices[i].status \in Claimable
       THEN invoices' = WithStatus(i, "PAID") /\ Advance(p, "current") /\ UNCHANGED unacked
       ELSE Finish(p) /\ Acknowledge(p) /\ UNCHANGED invoices
    /\ UNCHANGED <<subVars, txns, crashes>>

\* grantPeriod reads the current subscription and calls grantPlan.
SettleCurrent(p) ==
    LET invoice == invoices[work[p].invoice] IN
    /\ work[p].pc = "current"
    /\ CallPaid(p, invoice.user, invoice.plan, "paymob", "gateway_payment",
                work[p].callback.txn, Interval[invoice.plan])
    /\ Advance(p, "granting")
    /\ UNCHANGED <<storeVars, entVars, jobVars, invoices, gatewayVars, crashes>>

SettleGranted(p) ==
    /\ work[p].pc = "granting"
    /\ frame[p].pc = "ok"
    /\ frame' = [frame EXCEPT ![p] = NoCall]
    /\ Acknowledge(p)
    /\ Finish(p)
    /\ UNCHANGED <<storeVars, entVars, jobVars, invoices, txns, crashes>>

SettleThrew(p) ==
    /\ work[p].pc = "granting"
    /\ frame[p].pc = "failed"
    /\ frame' = [frame EXCEPT ![p] = NoCall]
    /\ Advance(p, "restore")
    /\ UNCHANGED <<storeVars, entVars, jobVars, invoices, gatewayVars, crashes>>

\* Mutant of SettleRestore: a status the table does not have.
RestoreUnset(p) ==
    /\ work[p].pc = "restore"
    /\ invoices' = WithStatus(work[p].invoice, None)
    /\ Finish(p)
    /\ UNCHANGED <<subVars, gatewayVars, crashes>>

\* The invoice gets back the status it was read with and the error goes to
\* the gateway, which will deliver the callback again.
SettleRestore(p) ==
    /\ work[p].pc = "restore"
    /\ invoices' = WithStatus(work[p].invoice, work[p].status)
    /\ Finish(p)
    /\ UNCHANGED <<subVars, gatewayVars, crashes>>

----

ApiCrash ==
    /\ crashes < MaxCrashes
    /\ crashes' = crashes + 1
    /\ work' = [p \in Procs |-> NoWork]
    /\ frame' = [p \in Procs |-> NoCall]
    /\ view' = [v \in Viewers |-> Idle]
    /\ UNCHANGED <<storeVars, cache, jobVars, invoices, gatewayVars>>

WorkStep(p) ==
    \/ CheckoutSession(p)
    \/ SettleRefund(p) \/ SettleDecline(p) \/ SettleClaim(p)
    \/ SettleCurrent(p) \/ SettleGranted(p) \/ SettleThrew(p) \/ SettleRestore(p)

\* The subscription service underneath.
ServiceVars == <<invoices, work, gatewayVars, crashes>>

\* A step of the call of p, or the answer to one that is not a settlement's.
FrameOf(p) ==
    /\ FrameStep(p) \/ (work[p].pc = "idle" /\ Return(p))
    /\ UNCHANGED ServiceVars

ServiceStep ==
    /\ \/ \E p \in Procs : FrameStep(p)
       \/ \E p \in Procs : work[p].pc = "idle" /\ (Request(p) \/ Return(p))
       \/ \E j \in Jobs : MaintenanceStep(j) \/ WorkerCrash(j)
       \/ Environment
    /\ UNCHANGED ServiceVars

Next ==
    \/ \E p \in Procs, u \in Users, plan \in Plans : CheckoutCreate(p, u, plan)
    \/ \E i \in DOMAIN invoices, outcome \in {"PAID", "FAILED"}, exact \in BOOLEAN : Pay(i, outcome, exact)
    \/ \E t \in DOMAIN txns : Refund(t)
    \/ \E p \in Procs, t \in DOMAIN txns : \E m \in Callbacks(t) : Deliver(p, t, m)
    \/ \E p \in Procs : WorkStep(p)
    \/ ApiCrash
    \/ ServiceStep

Spec == Init /\ [][Next]_vars

\* The event loop serves every request, and the gateway delivers a callback
\* again and again until it is answered with 200.
Redeliver(t) == \E p \in Procs, m \in Callbacks(t) : Outstanding(m) /\ Deliver(p, t, m)

Fairness ==
    /\ \A p \in Procs : WF_vars(WorkStep(p) \/ FrameOf(p))
    /\ \A t \in 1..MaxTxns : SF_vars(t \in DOMAIN txns /\ Redeliver(t))

FairSpec == Spec /\ Fairness

----
(* Properties *)

\* The gateway payments in the audit log, and the invoice one of them is for.
GatewayEvents == {e \in DOMAIN events : events[e].type = "gateway_payment"}
InvoiceOf(e) == txns[events[e].id].invoice
GrantedInvoice(i) == \E e \in GatewayEvents : InvoiceOf(e) = i

\* "A replayed or duplicated callback cannot grant twice": an invoice is
\* granted at most once, also when two transactions on it both succeed, which
\* the unique event id does not see.
InvoiceGrantedOnce == \A e1, e2 \in GatewayEvents : InvoiceOf(e1) = InvoiceOf(e2) => e1 = e2

\* A grant is of a transaction that was paid in the exact amount, and gives the
\* invoice's plan to the invoice's user.
GrantsMatchCharges ==
    \A e \in GatewayEvents :
        LET txn == txns[events[e].id]
            row == subs[events[e].sub]
        IN  /\ txn.outcome = "PAID"
            /\ txn.exact
            /\ row.user = invoices[txn.invoice].user
            /\ row.plan = invoices[txn.invoice].plan

\* An invoice whose plan was granted never becomes claimable again.
GrantedStaysClosed == \A i \in DOMAIN invoices : GrantedInvoice(i) => invoices[i].status \in {"PAID", "REFUNDED"}

\* The claim comes before the grant: a PAID invoice without its grant is in the
\* hands of the request that claimed it, which grants it or puts it back; only
\* a crash of the process leaves one behind.
PaidIsHeld ==
    \A i \in DOMAIN invoices :
        invoices[i].status = "PAID" =>
            \/ GrantedInvoice(i)
            \/ \E p \in Procs : work[p].invoice = i /\ work[p].pc \in {"current", "granting", "restore"}
            \/ crashes > 0

\* The customer's money was taken and not returned, the plan is still offered,
\* and no grant was made for the invoice.
Owed(t) ==
    /\ t \in DOMAIN txns
    /\ txns[t].outcome = "PAID" /\ txns[t].exact /\ ~txns[t].refunded
    /\ ~GrantedInvoice(txns[t].invoice)
    /\ invoices[txns[t].invoice].plan \in activePlans

\* "Your plan is active the moment the payment goes through": a charge ends in
\* a grant.
ChargeIsGranted == \A t \in 1..MaxTxns : Owed(t) ~> ~Owed(t)
====
