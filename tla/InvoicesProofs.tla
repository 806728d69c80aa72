---- MODULE InvoicesProofs ----
(***************************************************************************)
(* Proofs about Invoices: for any number of customers, invoices, tries to  *)
(* pay, callbacks, crashes and requests in flight, a gateway grant is of a *)
(* payment in the exact amount, to the invoice's user and of its plan, and *)
(* no invoice is granted twice.                                            *)
(***************************************************************************)
EXTENDS Invoices, SubscriptionsProofs

\* The points of a settlement, the points after its claim, and the states of a
\* request that has claimed an invoice and not yet granted it.
Settling == {"refund", "decline", "claim", "current", "granting", "restore"}
Claiming == {"claim", "current", "granting", "restore"}
Holding(r) == r.pc \in {"current", "granting", "restore"}
Ungranted(r, f) ==
    \/ r.pc \in {"current", "restore"}
    \/ r.pc = "granting" /\ f.pc \in GrantPoints \cup {"failed"}

Closed == {"PAID", "REFUNDED"}

\* Every transaction is on an invoice with a page to pay it on.
TxnsFit == \A t \in DOMAIN txns : txns[t].invoice \in DOMAIN invoices /\ invoices[txns[t].invoice].open

\* What a request has read of an invoice and of a callback stays true of the
\* tables; the page of an invoice in checkout does not exist yet.
WorkFits(r, table, paid) ==
    /\ r.pc # "idle" => r.invoice \in DOMAIN table
    /\ r.pc = "session" => ~table[r.invoice].open
    /\ r.pc \in Settling =>
          /\ r.callback \in Callback
          /\ r.callback.txn \in DOMAIN paid
          /\ paid[r.callback.txn].invoice = r.invoice
          /\ r.status \in InvoiceStatus
    /\ r.pc \in Claiming => paid[r.callback.txn].outcome = "PAID" /\ paid[r.callback.txn].exact

WorkFit == \A p \in Procs : WorkFits(work[p], invoices, txns)

\* A checkout is one request's.
SessionsApart ==
    \A p, q \in Procs : work[p].pc = "session" /\ work[q].pc = "session" /\ work[p].invoice = work[q].invoice => p = q

\* A grant of a gateway payment is of the callback its request is settling.
GatewayGrant(f) == f.pc \in GrantPoints /\ f.type = "gateway_payment"

GatewayFrameFits(f, r, table) ==
    GatewayGrant(f) =>
        /\ r.pc = "granting"
        /\ f.id = r.callback.txn
        /\ f.user = table[r.invoice].user
        /\ f.plan = table[r.invoice].plan

GatewayFramesFit == \A p \in Procs : GatewayFrameFits(frame[p], work[p], invoices)

\* An invoice is in one request's hands from the claim on; it is closed as long
\* as it is, and not granted until that request's grant commits.
HeldApart == \A p, q \in Procs : Holding(work[p]) /\ Holding(work[q]) /\ work[p].invoice = work[q].invoice => p = q
HeldClosed == \A p \in Procs : Holding(work[p]) => invoices[work[p].invoice].status \in Closed
HeldUngranted == \A p \in Procs : Ungranted(work[p], frame[p]) => ~GrantedInvoice(work[p].invoice)

\* The rows a gateway event names are there.
EventsFit == \A e \in GatewayEvents : events[e].id \in DOMAIN txns /\ events[e].sub \in DOMAIN subs

\* The inductive invariant.
IInv ==
    /\ SubInd
    /\ TypeOK
    /\ TxnsFit /\ WorkFit /\ SessionsApart /\ GatewayFramesFit
    /\ HeldApart /\ HeldClosed /\ HeldUngranted
    /\ EventsFit /\ InvoiceGrantedOnce /\ GrantsMatchCharges /\ GrantedStaysClosed

\* The tables are only ever extended.  An invoice keeps its user, its plan and
\* its page, a transaction its invoice, outcome and amount.
InvoicesKept(before, after) ==
    /\ DOMAIN before \subseteq DOMAIN after
    /\ \A i \in DOMAIN before :
          /\ after[i].user = before[i].user
          /\ after[i].plan = before[i].plan
          /\ before[i].open => after[i].open

TxnsKept(before, after) ==
    /\ DOMAIN before \subseteq DOMAIN after
    /\ \A t \in DOMAIN before :
          /\ after[t].invoice = before[t].invoice
          /\ after[t].outcome = before[t].outcome
          /\ after[t].exact = before[t].exact

\* The part of the invariant that is about the log.
LogFit == EventsFit /\ InvoiceGrantedOnce /\ GrantsMatchCharges

----
(* Lemmas about the tables *)

\* An update of one invoice, in whatever columns but the user's and the plan's.
LEMMA UpdateInvoice ==
    ASSUME IInv, NEW i \in DOMAIN invoices, NEW row \in Invoice,
           row.user = invoices[i].user, row.plan = invoices[i].plan, invoices[i].open => row.open
    PROVE  /\ [invoices EXCEPT ![i] = row] \in Seq(Invoice)
           /\ DOMAIN [invoices EXCEPT ![i] = row] = DOMAIN invoices
           /\ InvoicesKept(invoices, [invoices EXCEPT ![i] = row])
           /\ \A j \in DOMAIN invoices : [invoices EXCEPT ![i] = row][j] = IF j = i THEN row ELSE invoices[j]
  <1> DEFINE table == [invoices EXCEPT ![i] = row]
  <1>1. invoices \in Seq(Invoice)
    BY DEF IInv, TypeOK
  <1>2. /\ table \in Seq(Invoice) /\ DOMAIN table = DOMAIN invoices
        /\ \A j \in DOMAIN invoices : table[j] = IF j = i THEN row ELSE invoices[j]
    BY <1>1, UpdateRow
  <1> HIDE DEF table
  <1>3. InvoicesKept(invoices, table)
    BY <1>2 DEF InvoicesKept
  <1> QED
    BY <1>2, <1>3 DEF table

\* An invoice changes its status.
LEMMA WithStatusFits ==
    ASSUME IInv, NEW i \in DOMAIN invoices, NEW status \in InvoiceStatus
    PROVE  /\ WithStatus(i, status) \in Seq(Invoice)
           /\ DOMAIN WithStatus(i, status) = DOMAIN invoices
           /\ InvoicesKept(invoices, WithStatus(i, status))
           /\ \A j \in DOMAIN invoices :
                 /\ WithStatus(i, status)[j].open = invoices[j].open
                 /\ WithStatus(i, status)[j].status = IF j = i THEN status ELSE invoices[j].status
  <1> DEFINE old == invoices[i]
             new == [old EXCEPT !.status = status]
             table == [invoices EXCEPT ![i] = new]
  <1>1. invoices \in Seq(Invoice) /\ old \in Invoice
    BY DEF IInv, TypeOK
  <1>2. WithStatus(i, status) = table
    BY DEF WithStatus
  <1> HIDE DEF old
  <1>3. /\ new \in Invoice /\ new.user = old.user /\ new.plan = old.plan
        /\ new.open = old.open /\ new.status = status
    BY <1>1 DEF Invoice
  <1> HIDE DEF new
  <1>4. /\ table \in Seq(Invoice) /\ DOMAIN table = DOMAIN invoices /\ InvoicesKept(invoices, table)
        /\ \A j \in DOMAIN invoices : table[j] = IF j = i THEN new ELSE invoices[j]
    BY <1>3, UpdateInvoice DEF old
  <1> HIDE DEF table
  <1> QED
    BY <1>2, <1>3, <1>4 DEF old

\* The grants in the log stay what they are in a step that logs none, whatever
\* it adds to the tables.
LEMMA LogKept ==
    ASSUME IInv, RowsKept(subs, subs'), InvoicesKept(invoices, invoices'), TxnsKept(txns, txns'), LogsNoGrant
    PROVE  LogFit' /\ \A i : GrantedInvoice(i)' <=> GrantedInvoice(i)
  <1>1. /\ \A e \in GatewayEvents' : e \in GatewayEvents /\ events'[e] = events[e]
        /\ \A e \in GatewayEvents : e \in GatewayEvents' /\ events'[e] = events[e]
    BY GrantsKept DEF IInv, GatewayEvents, PeriodGrants
  <1>2. \A e \in GatewayEvents : events[e].id \in DOMAIN txns /\ events[e].sub \in DOMAIN subs
    BY DEF IInv, EventsFit
  <1>3. \A e \in GatewayEvents : InvoiceOf(e)' = InvoiceOf(e) /\ InvoiceOf(e) \in DOMAIN invoices
    BY <1>1, <1>2 DEF InvoiceOf, TxnsKept, IInv, TxnsFit
  <1>4. EventsFit'
    BY <1>1, <1>2 DEF EventsFit, TxnsKept, RowsKept
  <1>5. InvoiceGrantedOnce'
    BY <1>1, <1>3 DEF InvoiceGrantedOnce, IInv
  <1>6. GrantsMatchCharges'
    <2> SUFFICES ASSUME NEW e \in GatewayEvents'
                 PROVE  /\ txns'[events'[e].id].outcome = "PAID"
                        /\ txns'[events'[e].id].exact
                        /\ subs'[events'[e].sub].user = invoices'[txns'[events'[e].id].invoice].user
                        /\ subs'[events'[e].sub].plan = invoices'[txns'[events'[e].id].invoice].plan
      BY DEF GrantsMatchCharges
    <2> DEFINE t == events[e].id
               s == events[e].sub
    <2>1. e \in GatewayEvents /\ events'[e] = events[e]
      BY <1>1
    <2>2. t \in DOMAIN txns /\ s \in DOMAIN subs /\ txns[t].invoice \in DOMAIN invoices
      BY <1>2, <2>1 DEF IInv, TxnsFit
    <2>3. /\ txns[t].outcome = "PAID" /\ txns[t].exact
          /\ subs[s].user = invoices[txns[t].invoice].user
          /\ subs[s].plan = invoices[txns[t].invoice].plan
      BY <2>1 DEF IInv, GrantsMatchCharges
    <2> QED
      BY <2>1, <2>2, <2>3 DEF TxnsKept, RowsKept, InvoicesKept
  <1>7. \A i : GrantedInvoice(i)' <=> GrantedInvoice(i)
    BY <1>1, <1>3 DEF GrantedInvoice
  <1> QED
    BY <1>4, <1>5, <1>6, <1>7 DEF LogFit

\* What a request has read stays true of tables that are only extended.
LEMMA WorkFitsKept ==
    ASSUME NEW r, NEW table, NEW paid, NEW table2, NEW paid2,
           WorkFits(r, table, paid), InvoicesKept(table, table2), TxnsKept(paid, paid2),
           r.pc = "session" => ~table2[r.invoice].open
    PROVE  WorkFits(r, table2, paid2)
  BY DEF WorkFits, InvoicesKept, TxnsKept, Settling, Claiming

LEMMA NoWorkFits == NoWork \in WorkRecord /\ \A table, paid : WorkFits(NoWork, table, paid)
  BY DEF NoWork, WorkRecord, WorkFits, Settling, Claiming

LEMMA SameTables == RowsKept(subs, subs) /\ InvoicesKept(invoices, invoices) /\ TxnsKept(txns, txns)
  BY DEF RowsKept, InvoicesKept, TxnsKept

----
(* Steps of a request on the invoices *)

\* A step of one request that leaves the subscription service and the gateway's
\* transactions alone.  A status may change to one that is closed, or when
\* nothing was granted for the invoice and no other request holds it.
LEMMA InvoiceStepInd ==
    ASSUME IInv, NEW p \in Procs, NEW r \in WorkRecord, WorkFits(r, invoices', txns),
           work' = [work EXCEPT ![p] = r], work[p].pc # "granting", r.pc # "granting",
           invoices' \in Seq(Invoice), InvoicesKept(invoices, invoices'), unacked' \in SUBSET Callback,
           UNCHANGED <<subVars, txns, crashes>>,
           \A i \in DOMAIN invoices :
              \/ invoices'[i].status \in Closed \cup {invoices[i].status}
              \/ ~GrantedInvoice(i) /\ \A q \in Procs \ {p} : Holding(work[q]) => work[q].invoice # i,
           \A q \in Procs \ {p} : work[q].pc = "session" =>
              /\ ~invoices'[work[q].invoice].open
              /\ r.pc = "session" => work[q].invoice # r.invoice,
           Holding(r) =>
              /\ invoices'[r.invoice].status \in Closed
              /\ ~GrantedInvoice(r.invoice)
              /\ \A q \in Procs \ {p} : Holding(work[q]) => work[q].invoice # r.invoice
    PROVE  IInv'
  <1>1. SubInd'
    BY Aside DEF IInv, SubInd, SubType, StoreType, EntType, subVars, storeVars, entVars, jobVars
  <1>2. work \in [Procs -> WorkRecord] /\ work' \in [Procs -> WorkRecord]
    BY DEF IInv, TypeOK
  <1>3. work'[p] = r /\ \A q \in Procs \ {p} : work'[q] = work[q]
    BY <1>2
  <1>4. TypeOK'
    BY <1>1, <1>2 DEF IInv, TypeOK, SubInd
  <1>5. TxnsFit'
    BY DEF IInv, TxnsFit, InvoicesKept
  <1>6. WorkFit'
    <2>1. ASSUME NEW q \in Procs \ {p} PROVE WorkFits(work[q], invoices', txns)
      BY SameTables, WorkFitsKept DEF IInv, WorkFit
    <2>2. \A q \in Procs : WorkFits(work'[q], invoices', txns)
      BY <1>3, <2>1
    <2> QED
      BY <2>2 DEF WorkFit, WorkFits
  <1>7. SessionsApart'
    BY <1>3 DEF IInv, SessionsApart
  <1>8. GatewayFramesFit'
    <2>1. \A q \in Procs : GatewayFrameFits(frame[q], work'[q], invoices')
      BY <1>3 DEF IInv, GatewayFramesFit, GatewayFrameFits, WorkFit, WorkFits, InvoicesKept
    <2> QED
      BY <2>1 DEF GatewayFramesFit, GatewayFrameFits, GatewayGrant, subVars
  <1>9. LogFit' /\ \A i : GrantedInvoice(i)' <=> GrantedInvoice(i)
    BY LogKept, SameLog, SameTables DEF IInv, subVars, storeVars
  <1>10. HeldApart'
    BY <1>3 DEF IInv, HeldApart
  <1>11. HeldClosed'
    <2> SUFFICES ASSUME NEW q \in Procs, Holding(work'[q]) PROVE invoices'[work'[q].invoice].status \in Closed
      BY DEF HeldClosed, Holding
    <2>1. CASE q = p
      BY <1>3, <2>1
    <2>2. CASE q # p
      BY <1>3, <2>2 DEF IInv, HeldClosed, WorkFit, WorkFits, Holding
    <2> QED
      BY <2>1, <2>2
  <1>12. HeldUngranted'
    <2>1. \A q \in Procs : Ungranted(work'[q], frame[q]) => ~GrantedInvoice(work'[q].invoice)
      BY <1>3 DEF IInv, HeldUngranted, Ungranted, Holding
    <2> QED
      BY <1>9, <2>1 DEF HeldUngranted, Ungranted, subVars
  <1>13. GrantedStaysClosed'
    <2>1. \A i : GrantedInvoice(i) => i \in DOMAIN invoices
      BY DEF GrantedInvoice, InvoiceOf, IInv, EventsFit, TxnsFit
    <2>2. \A i \in DOMAIN invoices' : GrantedInvoice(i) => invoices'[i].status \in Closed
      BY <2>1 DEF IInv, GrantedStaysClosed, Closed
    <2> QED
      BY <1>9, <2>2 DEF GrantedStaysClosed, Closed
  <1> QED
    BY <1>1, <1>4, <1>5, <1>6, <1>7, <1>8, <1>9, <1>10, <1>11, <1>12, <1>13 DEF IInv, LogFit

\* A request goes on, or ends, with what it has read.
LEMMA AdvanceFits ==
    ASSUME IInv, NEW p \in Procs, NEW point \in {"current", "granting", "restore"}, work[p].pc \in Claiming
    PROVE  /\ [work[p] EXCEPT !.pc = point] \in WorkRecord
           /\ [work[p] EXCEPT !.pc = point].pc = point
           /\ [work[p] EXCEPT !.pc = point].invoice = work[p].invoice
           /\ [work[p] EXCEPT !.pc = point].callback = work[p].callback
           /\ WorkFits([work[p] EXCEPT !.pc = point], invoices, txns)
           /\ [work EXCEPT ![p].pc = point] = [work EXCEPT ![p] = [work[p] EXCEPT !.pc = point]]
  <1> DEFINE r == work[p]
             s == [r EXCEPT !.pc = point]
  <1>1. r \in WorkRecord /\ WorkFits(r, invoices, txns) /\ work \in [Procs -> WorkRecord]
    BY DEF IInv, TypeOK, WorkFit
  <1>2. [work EXCEPT ![p].pc = point] = [work EXCEPT ![p] = s]
    BY <1>1
  <1>3. r.pc \in Claiming
    OBVIOUS
  <1> HIDE DEF r
  <1>4. /\ s \in WorkRecord /\ s.pc = point /\ s.invoice = r.invoice
        /\ s.callback = r.callback /\ s.status = r.status
    BY <1>1 DEF WorkRecord
  <1> HIDE DEF s
  <1>5. WorkFits(s, invoices, txns)
    BY <1>1, <1>3, <1>4 DEF WorkFits, Settling, Claiming
  <1> QED
    BY <1>2, <1>4, <1>5 DEF r, s

LEMMA CheckoutCreateInd ==
    ASSUME IInv, NEW p \in Procs, NEW u \in Users, NEW plan \in Plans, CheckoutCreate(p, u, plan)
    PROVE  IInv'
  <1> DEFINE row == [user |-> u, plan |-> plan, status |-> "PENDING", open |-> FALSE]
             n == Len(invoices) + 1
             r == [NoWork EXCEPT !.pc = "session", !.invoice = n]
  <1>1. /\ invoices' = Append(invoices, row) /\ work' = [work EXCEPT ![p] = r]
        /\ work[p].pc = "idle" /\ UNCHANGED <<subVars, gatewayVars, crashes>>
    BY DEF CheckoutCreate, Ready
  <1>2. row \in Invoice /\ ~row.open
    BY DEF Invoice, InvoiceStatus
  <1> HIDE DEF row
  <1>3. invoices \in Seq(Invoice) /\ unacked \in SUBSET Callback
    BY DEF IInv, TypeOK
  <1>4. /\ invoices' \in Seq(Invoice) /\ n \in DOMAIN invoices' /\ invoices'[n] = row
        /\ n \in Nat /\ n \notin DOMAIN invoices
        /\ \A i \in DOMAIN invoices : i \in DOMAIN invoices' /\ invoices'[i] = invoices[i]
    BY <1>1, <1>2, <1>3
  <1> HIDE DEF n
  <1>5. r \in WorkRecord /\ r.pc = "session" /\ r.invoice = n
    BY <1>4 DEF NoWork, WorkRecord
  <1> HIDE DEF r
  <1>6. WorkFits(r, invoices', txns)
    BY <1>2, <1>4, <1>5 DEF WorkFits, Settling, Claiming
  <1>7. InvoicesKept(invoices, invoices')
    BY <1>4 DEF InvoicesKept
  <1>8. \A q \in Procs : work[q].pc = "session" => work[q].invoice \in DOMAIN invoices /\ ~invoices[work[q].invoice].open
    BY DEF IInv, WorkFit, WorkFits
  <1>9. \A q \in Procs \ {p} : work[q].pc = "session" =>
           ~invoices'[work[q].invoice].open /\ work[q].invoice # r.invoice
    BY <1>4, <1>5, <1>8
  <1>10. \A i \in DOMAIN invoices : invoices'[i].status \in Closed \cup {invoices[i].status}
    BY <1>4
  <1>11. ~Holding(r) /\ r.pc # "granting" /\ work[p].pc # "granting" /\ UNCHANGED <<subVars, txns, unacked, crashes>>
    BY <1>1, <1>5 DEF Holding, gatewayVars
  <1> QED
    BY <1>1, <1>3, <1>4, <1>5, <1>6, <1>7, <1>9, <1>10, <1>11, InvoiceStepInd

\* The page of an invoice in checkout: nobody has paid on it yet.
LEMMA SessionUngranted ==
    ASSUME IInv, NEW p \in Procs, work[p].pc = "session"
    PROVE  /\ work[p].invoice \in DOMAIN invoices
           /\ ~GrantedInvoice(work[p].invoice)
           /\ \A q \in Procs : Holding(work[q]) => work[q].invoice # work[p].invoice
           /\ \A q \in Procs \ {p} : work[q].pc = "session" => work[q].invoice # work[p].invoice
  <1>1. work[p].invoice \in DOMAIN invoices /\ ~invoices[work[p].invoice].open
    BY DEF IInv, WorkFit, WorkFits
  <1>2. ~GrantedInvoice(work[p].invoice)
    BY <1>1 DEF GrantedInvoice, InvoiceOf, IInv, EventsFit, TxnsFit
  <1>3. \A q \in Procs : Holding(work[q]) => work[q].invoice # work[p].invoice
    BY <1>1 DEF IInv, WorkFit, WorkFits, Holding, Settling, TxnsFit
  <1> QED
    BY <1>1, <1>2, <1>3 DEF IInv, SessionsApart

LEMMA CheckoutSessionInd == ASSUME IInv, NEW p \in Procs, CheckoutSession(p) PROVE IInv'
  <1> DEFINE i == work[p].invoice
             old == invoices[i]
             opened == [old EXCEPT !.open = TRUE]
  <1>1. /\ work' = [work EXCEPT ![p] = NoWork] /\ work[p].pc = "session"
        /\ UNCHANGED <<subVars, gatewayVars, crashes>>
        /\ \/ invoices' = [invoices EXCEPT ![i].open = TRUE]
           \/ invoices' = WithStatus(i, "FAILED")
    BY DEF CheckoutSession, Finish
  <1>2. /\ i \in DOMAIN invoices /\ ~GrantedInvoice(i)
        /\ \A q \in Procs : Holding(work[q]) => work[q].invoice # i
        /\ \A q \in Procs \ {p} : work[q].pc = "session" => work[q].invoice # i
    BY <1>1, SessionUngranted
  <1>3. invoices \in Seq(Invoice) /\ unacked \in SUBSET Callback /\ old \in Invoice
    BY <1>2 DEF IInv, TypeOK
  <1>4. [invoices EXCEPT ![i].open = TRUE] = [invoices EXCEPT ![i] = opened]
    BY <1>2, <1>3
  <1> HIDE DEF i, old
  <1>5. /\ opened \in Invoice /\ opened.user = old.user /\ opened.plan = old.plan
        /\ opened.open /\ opened.status = old.status
    BY <1>3 DEF Invoice
  <1> HIDE DEF opened
  <1>6. /\ invoices' \in Seq(Invoice) /\ DOMAIN invoices' = DOMAIN invoices
        /\ InvoicesKept(invoices, invoices')
        /\ \A j \in DOMAIN invoices \ {i} :
              invoices'[j].open = invoices[j].open /\ invoices'[j].status = invoices[j].status
    <2>1. CASE invoices' = WithStatus(i, "FAILED")
      BY <1>2, <2>1, WithStatusFits DEF InvoiceStatus
    <2>2. CASE invoices' = [invoices EXCEPT ![i] = opened]
      BY <1>2, <1>5, <2>2, UpdateInvoice DEF old
    <2> QED
      BY <1>1, <1>4, <2>1, <2>2
  <1>7. \A q \in Procs \ {p} : work[q].pc = "session" => ~invoices'[work[q].invoice].open
    BY <1>2, <1>6 DEF IInv, WorkFit, WorkFits
  <1>8. NoWork.pc = "idle" /\ UNCHANGED <<subVars, txns, unacked, crashes>> /\ work[p].pc # "granting"
    BY <1>1 DEF NoWork, gatewayVars
  <1>9. \A j \in DOMAIN invoices :
           \/ invoices'[j].status \in Closed \cup {invoices[j].status}
           \/ ~GrantedInvoice(j) /\ \A q \in Procs \ {p} : Holding(work[q]) => work[q].invoice # j
    BY <1>2, <1>6
  <1> QED
    BY <1>1, <1>3, <1>6, <1>7, <1>8, <1>9, NoWorkFits, InvoiceStepInd DEF Holding

LEMMA DeliverInd ==
    ASSUME IInv, NEW p \in Procs, NEW t \in DOMAIN txns, NEW m \in Callbacks(t), Deliver(p, t, m)
    PROVE  IInv'
  <1> DEFINE i == txns[t].invoice
             status == invoices[i].status
             point == IF m.outcome = "FAILED" THEN (IF status = "PAID" THEN "refund" ELSE "decline")
                      ELSE IF txns[t].exact THEN "claim" ELSE "decline"
             r == [pc |-> point, invoice |-> i, callback |-> m, status |-> status]
  <1>1. work' = [work EXCEPT ![p] = r] /\ work[p].pc = "idle" /\ UNCHANGED <<subVars, invoices, gatewayVars, crashes>>
    BY DEF Deliver, Ready
  <1>2. txns \in Seq(Txn) /\ invoices \in Seq(Invoice) /\ unacked \in SUBSET Callback
    BY DEF IInv, TypeOK
  <1>3. txns[t] \in Txn /\ t \in Nat /\ i \in DOMAIN invoices /\ i \in Nat
    BY <1>2 DEF IInv, TxnsFit
  <1>4. invoices[i] \in Invoice
    BY <1>2, <1>3
  <1>5. status \in InvoiceStatus
    BY <1>4 DEF Invoice
  <1>6. m \in Callback /\ m.txn = t /\ (m.outcome # "FAILED" => txns[t].outcome = "PAID")
    BY <1>3 DEF Callbacks, Callback, Txn
  <1>7. point \in {"refund", "decline", "claim"} /\ (point = "claim" => txns[t].outcome = "PAID" /\ txns[t].exact)
    BY <1>3, <1>6 DEF Txn
  <1> HIDE DEF point, status, i
  <1>8. r \in WorkRecord
    BY <1>3, <1>5, <1>6, <1>7 DEF WorkRecord
  <1>9. WorkFits(r, invoices, txns)
    BY <1>3, <1>5, <1>6, <1>7 DEF WorkFits, Settling, Claiming, i
  <1>10. r.pc \in {"refund", "decline", "claim"}
    BY <1>7
  <1> HIDE DEF r
  <1>11. \A q \in Procs \ {p} : work[q].pc = "session" => ~invoices[work[q].invoice].open
    BY DEF IInv, WorkFit, WorkFits
  <1> QED
    BY <1>1, <1>2, <1>8, <1>9, <1>10, <1>11, SameTables, InvoiceStepInd DEF Holding, gatewayVars

\* A request writes a status and ends: one that is closed, or on an invoice
\* with no grant and in no other request's hands.
LEMMA WriteStatusInd ==
    ASSUME IInv, NEW p \in Procs, work[p].pc \in Settling \ {"granting"},
           NEW status \in InvoiceStatus,
           \/ status \in Closed
           \/ /\ ~GrantedInvoice(work[p].invoice)
              /\ \A q \in Procs \ {p} : Holding(work[q]) => work[q].invoice # work[p].invoice,
           invoices' \in {invoices, WithStatus(work[p].invoice, status)}, Finish(p),
           unacked' \in SUBSET Callback, UNCHANGED <<subVars, txns, crashes>>
    PROVE  IInv'
  <1> DEFINE i == work[p].invoice
  <1>1. i \in DOMAIN invoices /\ invoices \in Seq(Invoice)
    BY DEF IInv, WorkFit, WorkFits, Settling, TypeOK
  <1>2. /\ invoices' \in Seq(Invoice) /\ InvoicesKept(invoices, invoices')
        /\ \A j \in DOMAIN invoices :
              /\ invoices'[j].open = invoices[j].open
              /\ invoices'[j].status \in IF j = i THEN {invoices[j].status, status} ELSE {invoices[j].status}
    BY <1>1, WithStatusFits, SameTables
  <1>3. work' = [work EXCEPT ![p] = NoWork] /\ NoWork.pc = "idle"
    BY DEF Finish, NoWork
  <1>4. \A q \in Procs \ {p} : work[q].pc = "session" => ~invoices'[work[q].invoice].open
    BY <1>2 DEF IInv, WorkFit, WorkFits
  <1>5. \A j \in DOMAIN invoices :
           \/ invoices'[j].status \in Closed \cup {invoices[j].status}
           \/ ~GrantedInvoice(j) /\ \A q \in Procs \ {p} : Holding(work[q]) => work[q].invoice # j
    BY <1>2
  <1>6. work[p].pc # "granting"
    BY DEF Settling
  <1> HIDE DEF i
  <1> QED
    BY <1>2, <1>3, <1>4, <1>5, <1>6, NoWorkFits, InvoiceStepInd DEF Holding

\* A callback that is answered leaves the others to be delivered.
LEMMA Acknowledged == ASSUME IInv, NEW p, Acknowledge(p) PROVE unacked' \in SUBSET Callback
  BY DEF Acknowledge, IInv, TypeOK

\* What is pending is not closed.
LEMMA PendingIsFree ==
    ASSUME IInv, NEW i \in DOMAIN invoices, invoices[i].status \notin Closed
    PROVE  ~GrantedInvoice(i) /\ \A q \in Procs : Holding(work[q]) => work[q].invoice # i
  BY DEF IInv, GrantedStaysClosed, HeldClosed, Closed

LEMMA SettleRefundInd == ASSUME IInv, NEW p \in Procs, SettleRefund(p) PROVE IInv'
  BY Acknowledged, WriteStatusInd DEF SettleRefund, Settling, Closed, InvoiceStatus

LEMMA SettleDeclineInd == ASSUME IInv, NEW p \in Procs, SettleDecline(p) PROVE IInv'
  <1>1. work[p].invoice \in DOMAIN invoices
    BY DEF SettleDecline, IInv, WorkFit, WorkFits
  <1>2. CASE invoices[work[p].invoice].status = "PENDING"
    BY <1>1, <1>2, PendingIsFree, Acknowledged, WriteStatusInd DEF SettleDecline, Settling, InvoiceStatus, Closed
  <1>3. CASE invoices[work[p].invoice].status # "PENDING"
    BY <1>3, Acknowledged, WriteStatusInd DEF SettleDecline, Settling, InvoiceStatus, Closed
  <1> QED
    BY <1>2, <1>3

LEMMA SettleClaimInd == ASSUME IInv, NEW p \in Procs, SettleClaim(p) PROVE IInv'
  <1> DEFINE i == work[p].invoice
             r == [work[p] EXCEPT !.pc = "current"]
  <1>1. work[p].pc = "claim" /\ UNCHANGED <<subVars, txns, crashes>>
    BY DEF SettleClaim
  <1>2. i \in DOMAIN invoices /\ invoices \in Seq(Invoice) /\ unacked \in SUBSET Callback
    BY <1>1 DEF IInv, WorkFit, WorkFits, TypeOK
  <1>3. CASE invoices[i].status \in Claimable
    <2>1. /\ work' = [work EXCEPT ![p] = r] /\ r \in WorkRecord /\ r.pc = "current" /\ r.invoice = i
          /\ WorkFits(r, invoices, txns) /\ invoices' = WithStatus(i, "PAID") /\ UNCHANGED unacked
      BY <1>1, <1>3, AdvanceFits DEF SettleClaim, Advance, Claiming
    <2> HIDE DEF r
    <2>2. ~GrantedInvoice(i) /\ \A q \in Procs : Holding(work[q]) => work[q].invoice # i
      BY <1>2, <1>3, PendingIsFree DEF Claimable, Closed
    <2> HIDE DEF i
    <2>3. /\ invoices' \in Seq(Invoice) /\ InvoicesKept(invoices, invoices')
          /\ \A j \in DOMAIN invoices :
                /\ invoices'[j].open = invoices[j].open
                /\ invoices'[j].status = IF j = i THEN "PAID" ELSE invoices[j].status
      BY <1>2, <2>1, WithStatusFits DEF InvoiceStatus
    <2>4. WorkFits(r, invoices', txns)
      BY <2>1, <2>3, SameTables, WorkFitsKept
    <2>5. \A q \in Procs \ {p} : work[q].pc = "session" => ~invoices'[work[q].invoice].open
      BY <2>3 DEF IInv, WorkFit, WorkFits
    <2> QED
      BY <1>1, <1>2, <2>1, <2>2, <2>3, <2>4, <2>5, InvoiceStepInd DEF Holding, Closed
  <1>4. CASE invoices[i].status \notin Claimable
    BY <1>1, <1>4, Acknowledged, WriteStatusInd DEF SettleClaim, Settling, InvoiceStatus, Closed
  <1> QED
    BY <1>3, <1>4

LEMMA SettleRestoreInd == ASSUME IInv, NEW p \in Procs, SettleRestore(p) PROVE IInv'
  <1>1. work[p].status \in InvoiceStatus /\ unacked \in SUBSET Callback
    BY DEF SettleRestore, IInv, WorkFit, WorkFits, Settling, TypeOK
  <1>2. ~GrantedInvoice(work[p].invoice)
    BY DEF SettleRestore, IInv, HeldUngranted, Ungranted
  <1>3. \A q \in Procs \ {p} : Holding(work[q]) => work[q].invoice # work[p].invoice
    BY DEF SettleRestore, IInv, HeldApart, Holding
  <1> QED
    BY <1>1, <1>2, <1>3, WriteStatusInd DEF SettleRestore, Settling, gatewayVars

----
(* Steps of the gateway *)

\* The gateway's table is extended and nothing else changes.
LEMMA GatewayInd ==
    ASSUME IInv, txns' \in Seq(Txn), unacked' \in SUBSET Callback, TxnsKept(txns, txns'),
           UNCHANGED <<subVars, invoices, work, crashes>>,
           \A t \in DOMAIN txns' \ DOMAIN txns :
              txns'[t].invoice \in DOMAIN invoices /\ invoices[txns'[t].invoice].open
    PROVE  IInv'
  <1>1. SubInd'
    BY Aside DEF IInv, SubInd, SubType, StoreType, EntType, subVars, storeVars, entVars, jobVars
  <1>2. TypeOK'
    BY <1>1 DEF IInv, TypeOK, SubInd
  <1>3. TxnsFit'
    BY DEF IInv, TxnsFit, TxnsKept
  <1>4. WorkFit'
    <2>1. \A q \in Procs : WorkFits(work[q], invoices, txns')
      BY SameTables, WorkFitsKept DEF IInv, WorkFit, WorkFits
    <2> QED
      BY <2>1 DEF WorkFit, WorkFits
  <1>5. LogFit' /\ \A i : GrantedInvoice(i)' <=> GrantedInvoice(i)
    BY LogKept, SameLog, SameTables DEF IInv, subVars, storeVars
  <1>6. SessionsApart' /\ GatewayFramesFit' /\ HeldApart' /\ HeldClosed'
    BY DEF IInv, SessionsApart, GatewayFramesFit, GatewayFrameFits, GatewayGrant, HeldApart, HeldClosed,
           Holding, subVars
  <1>7. HeldUngranted'
    BY <1>5 DEF IInv, HeldUngranted, Ungranted, subVars
  <1>8. GrantedStaysClosed'
    BY <1>5 DEF IInv, GrantedStaysClosed
  <1> QED
    BY <1>1, <1>2, <1>3, <1>4, <1>5, <1>6, <1>7, <1>8 DEF IInv, LogFit

LEMMA PayInd ==
    ASSUME IInv, NEW i \in DOMAIN invoices, NEW outcome \in {"PAID", "FAILED"}, NEW exact \in BOOLEAN,
           Pay(i, outcome, exact)
    PROVE  IInv'
  <1> DEFINE txn == [invoice |-> i, outcome |-> outcome, exact |-> exact, refunded |-> FALSE]
             m == [txn |-> Len(txns) + 1, outcome |-> outcome]
  <1>1. /\ txns' = Append(txns, txn) /\ unacked' = unacked \cup {m} /\ invoices[i].open
        /\ UNCHANGED <<subVars, invoices, work, crashes>>
    BY DEF Pay
  <1>2. txns \in Seq(Txn) /\ unacked \in SUBSET Callback /\ i \in Nat
    BY DEF IInv, TypeOK
  <1>3. txn \in Txn /\ m \in Callback /\ txn.invoice = i
    BY <1>2 DEF Txn, Callback
  <1> HIDE DEF txn, m
  <1>4. /\ txns' \in Seq(Txn) /\ \A t \in DOMAIN txns : t \in DOMAIN txns' /\ txns'[t] = txns[t]
        /\ \A t \in DOMAIN txns' \ DOMAIN txns : txns'[t] = txn
    BY <1>1, <1>2, <1>3
  <1>5. TxnsKept(txns, txns') /\ unacked' \in SUBSET Callback
    BY <1>1, <1>2, <1>3, <1>4 DEF TxnsKept
  <1> QED
    BY <1>1, <1>3, <1>4, <1>5, GatewayInd

LEMMA RefundInd == ASSUME IInv, NEW t \in DOMAIN txns, Refund(t) PROVE IInv'
  <1> DEFINE old == txns[t]
             new == [old EXCEPT !.refunded = TRUE]
             m == [txn |-> t, outcome |-> "FAILED"]
  <1>1. /\ txns' = [txns EXCEPT ![t].refunded = TRUE] /\ unacked' = unacked \cup {m}
        /\ UNCHANGED <<subVars, invoices, work, crashes>>
    BY DEF Refund
  <1>2. txns \in Seq(Txn) /\ unacked \in SUBSET Callback /\ t \in Nat /\ old \in Txn
    BY DEF IInv, TypeOK
  <1>3. txns' = [txns EXCEPT ![t] = new]
    BY <1>1, <1>2
  <1> HIDE DEF old
  <1>4. /\ new \in Txn /\ new.invoice = old.invoice /\ new.outcome = old.outcome /\ new.exact = old.exact
        /\ m \in Callback
    BY <1>2 DEF Txn, Callback
  <1> HIDE DEF new, m
  <1>5. /\ txns' \in Seq(Txn) /\ DOMAIN txns' = DOMAIN txns
        /\ \A x \in DOMAIN txns : txns'[x] = IF x = t THEN new ELSE txns[x]
    BY <1>2, <1>3, <1>4, UpdateRow
  <1>6. TxnsKept(txns, txns') /\ unacked' \in SUBSET Callback
    BY <1>1, <1>2, <1>4, <1>5 DEF TxnsKept, old
  <1> QED
    BY <1>1, <1>5, <1>6, GatewayInd

----
(* Steps that are the subscription service's, or call it *)

\* The parts of the invariant that are about the invoices alone.
LEMMA InvoicesAlone ==
    ASSUME IInv, UNCHANGED <<invoices, txns>>, NEW p \in Procs, NEW r \in WorkRecord,
           work' = [work EXCEPT ![p] = r], WorkFits(r, invoices, txns),
           r.pc = "session" => work[p].pc = "session" /\ r.invoice = work[p].invoice,
           Holding(r) => Holding(work[p]) /\ r.invoice = work[p].invoice
    PROVE  /\ work' \in [Procs -> WorkRecord] /\ TxnsFit' /\ WorkFit' /\ SessionsApart'
           /\ HeldApart' /\ HeldClosed'
  <1>1. work \in [Procs -> WorkRecord]
    BY DEF IInv, TypeOK
  <1>2. /\ work' \in [Procs -> WorkRecord] /\ work'[p] = r
        /\ \A q \in Procs \ {p} : work'[q] = work[q]
    BY <1>1
  <1>3. TxnsFit'
    BY DEF IInv, TxnsFit
  <1>4. WorkFit'
    <2>1. \A q \in Procs : WorkFits(work'[q], invoices, txns)
      BY <1>2 DEF IInv, WorkFit
    <2> QED
      BY <2>1 DEF WorkFit, WorkFits
  <1>5. SessionsApart'
    BY <1>2 DEF IInv, SessionsApart
  <1>6. HeldApart'
    <2>1. \A q \in Procs : Holding(work'[q]) => Holding(work[q]) /\ work'[q].invoice = work[q].invoice
      BY <1>2
    <2>2. \A q1, q2 \in Procs :
             Holding(work'[q1]) /\ Holding(work'[q2]) /\ work'[q1].invoice = work'[q2].invoice => q1 = q2
      BY <2>1 DEF IInv, HeldApart
    <2> QED
      BY <2>2 DEF HeldApart, Holding
  <1>7. HeldClosed'
    <2>1. \A q \in Procs : Holding(work'[q]) => invoices[work'[q].invoice].status \in Closed
      BY <1>2 DEF IInv, HeldClosed
    <2> QED
      BY <2>1 DEF HeldClosed, Holding
  <1> QED
    BY <1>2, <1>3, <1>4, <1>5, <1>6, <1>7

\* A step that logs no grant, of the subscription service or of the settlement
\* that called it.
LEMMA ServiceInd ==
    ASSUME IInv, SubInd', RowsKept(subs, subs'), LogsNoGrant, UNCHANGED <<invoices, txns>>,
           work' \in [Procs -> WorkRecord], unacked' \in SUBSET Callback, crashes' \in Nat,
           TxnsFit', WorkFit', SessionsApart', HeldApart', HeldClosed',
           \A q \in Procs : GatewayFrameFits(frame'[q], work'[q], invoices),
           \A q \in Procs : Ungranted(work'[q], frame'[q]) =>
              Ungranted(work[q], frame[q]) /\ work'[q].invoice = work[q].invoice
    PROVE  IInv'
  <1>1. LogFit' /\ \A i : GrantedInvoice(i)' <=> GrantedInvoice(i)
    BY LogKept, SameTables
  <1>2. TypeOK'
    BY DEF IInv, TypeOK, SubInd
  <1>3. GatewayFramesFit'
    BY DEF GatewayFramesFit, GatewayFrameFits, GatewayGrant
  <1>4. HeldUngranted'
    <2>1. \A q \in Procs : Ungranted(work'[q], frame'[q]) => ~GrantedInvoice(work'[q].invoice)
      BY DEF IInv, HeldUngranted
    <2> QED
      BY <1>1, <2>1 DEF HeldUngranted, Ungranted
  <1>5. GrantedStaysClosed'
    BY <1>1 DEF IInv, GrantedStaysClosed
  <1> QED
    BY <1>1, <1>2, <1>3, <1>4, <1>5 DEF IInv, LogFit

\* The parts about the requests are as they were when their work is.
LEMMA SameWork ==
    ASSUME IInv, UNCHANGED <<invoices, work, txns>>
    PROVE  /\ work' \in [Procs -> WorkRecord] /\ TxnsFit' /\ WorkFit' /\ SessionsApart'
           /\ HeldApart' /\ HeldClosed'
  BY DEF IInv, TypeOK, TxnsFit, WorkFit, WorkFits, SessionsApart, HeldApart, HeldClosed, Holding

LEMMA SettleCurrentInd == ASSUME IInv, NEW p \in Procs, SettleCurrent(p) PROVE IInv'
  <1> DEFINE i == work[p].invoice
             u == invoices[i].user
             plan == invoices[i].plan
             t == work[p].callback.txn
             r == [work[p] EXCEPT !.pc = "granting"]
  <1>1. /\ CallPaid(p, u, plan, "paymob", "gateway_payment", t, Interval[plan]) /\ work[p].pc = "current"
        /\ Advance(p, "granting") /\ UNCHANGED <<storeVars, entVars, jobVars, invoices, gatewayVars, crashes>>
    BY DEF SettleCurrent
  <1>2. /\ r \in WorkRecord /\ r.pc = "granting" /\ r.invoice = i /\ r.callback.txn = t
        /\ WorkFits(r, invoices, txns) /\ work' = [work EXCEPT ![p] = r]
    BY <1>1, AdvanceFits DEF Advance, Claiming
  <1> HIDE DEF r
  <1>3. /\ i \in DOMAIN invoices /\ work[p].callback \in Callback /\ SubInd
        /\ invoices \in Seq(Invoice) /\ frame \in [Procs -> Frame] /\ work \in [Procs -> WorkRecord]
    BY <1>1 DEF IInv, WorkFit, WorkFits, Settling, TypeOK, SubInd, SubType
  <1>4. u \in Users /\ plan \in Plans /\ t \in Nat
    <2>1. invoices[i] \in Invoice
      BY <1>3
    <2> QED
      BY <1>3, <2>1 DEF Invoice, Callback
  <1>5. Interval[plan] \in Nat
    BY <1>4, StoreAssumption
  <1> HIDE DEF i, t
  <1>6. SubInd'
    <2> HIDE DEF u, plan
    <2> QED
      BY <1>1, <1>3, <1>4, <1>5, CallPaidInd DEF Providers, PeriodGrants
  <1>7. /\ frame'[p].user = u /\ frame'[p].plan = plan /\ frame'[p].id = t
        /\ \A q \in Procs \ {p} : frame'[q] = frame[q]
    BY <1>1, <1>3 DEF CallPaid, Call
  <1>8. /\ work' \in [Procs -> WorkRecord] /\ TxnsFit' /\ WorkFit' /\ SessionsApart'
        /\ HeldApart' /\ HeldClosed'
    BY <1>1, <1>2, InvoicesAlone DEF Holding, gatewayVars, i
  <1>9. \A q \in Procs : GatewayFrameFits(frame'[q], work'[q], invoices)
    <2>1. work'[p] = r /\ \A q \in Procs \ {p} : work'[q] = work[q]
      BY <1>2, <1>3
    <2> QED
      BY <1>2, <1>7, <2>1 DEF IInv, GatewayFramesFit, GatewayFrameFits
  <1>10. \A q \in Procs : Ungranted(work'[q], frame'[q]) =>
             Ungranted(work[q], frame[q]) /\ work'[q].invoice = work[q].invoice
    <2>1. work'[p] = r /\ \A q \in Procs \ {p} : work'[q] = work[q]
      BY <1>2, <1>3
    <2> QED
      BY <1>1, <1>2, <1>7, <2>1 DEF Ungranted, i
  <1>11. RowsKept(subs, subs') /\ LogsNoGrant /\ unacked' \in SUBSET Callback /\ crashes' \in Nat
    BY <1>1, <1>3, SameTables, SameLog DEF storeVars, gatewayVars, IInv, TypeOK
  <1> QED
    BY <1>1, <1>6, <1>8, <1>9, <1>10, <1>11, ServiceInd DEF gatewayVars

\* The grant has come to its end: its frame goes.
LEMMA SettleEndInd ==
    ASSUME IInv, NEW p \in Procs, SettleGranted(p) \/ SettleThrew(p)
    PROVE  IInv'
  <1>1. /\ frame' = [frame EXCEPT ![p] = NoCall] /\ frame[p].pc \in {"ok", "failed"}
        /\ work[p].pc = "granting"
        /\ UNCHANGED <<storeVars, entVars, jobVars, invoices, txns, crashes>>
    BY DEF SettleGranted, SettleThrew, gatewayVars
  <1>2. SubInd' /\ frame \in [Procs -> Frame] /\ work \in [Procs -> WorkRecord] /\ SubInd
    BY <1>1, ReturnInd DEF Return, IInv, TypeOK, SubInd, SubType
  <1>3. PICK r \in WorkRecord :
             /\ work' = [work EXCEPT ![p] = r] /\ WorkFits(r, invoices, txns)
             /\ unacked' \in SUBSET Callback
             /\ \/ r.pc = "idle"
                \/ r.pc = "restore" /\ r.invoice = work[p].invoice /\ frame[p].pc = "failed"
    <2>1. CASE SettleGranted(p)
      BY <2>1, NoWorkFits, Acknowledged DEF SettleGranted, Finish, NoWork
    <2>2. CASE SettleThrew(p)
      BY <2>2, AdvanceFits DEF SettleThrew, Advance, Claiming, gatewayVars, IInv, TypeOK
    <2> QED
      BY <2>1, <2>2
  <1>4. /\ work'[p] = r /\ \A q \in Procs \ {p} : work'[q] = work[q]
        /\ frame'[p].pc = "idle" /\ \A q \in Procs \ {p} : frame'[q] = frame[q]
    BY <1>1, <1>2, <1>3 DEF NoCall
  <1>5. /\ work' \in [Procs -> WorkRecord] /\ TxnsFit' /\ WorkFit' /\ SessionsApart'
        /\ HeldApart' /\ HeldClosed'
    BY <1>1, <1>3, InvoicesAlone DEF Holding
  <1>6. \A q \in Procs : GatewayFrameFits(frame'[q], work'[q], invoices)
    BY <1>4 DEF IInv, GatewayFramesFit, GatewayFrameFits, GatewayGrant, GrantPoints
  <1>7. \A q \in Procs : Ungranted(work'[q], frame'[q]) =>
             Ungranted(work[q], frame[q]) /\ work'[q].invoice = work[q].invoice
    BY <1>1, <1>3, <1>4 DEF Ungranted
  <1>8. RowsKept(subs, subs') /\ LogsNoGrant /\ crashes' \in Nat
    BY <1>1, <1>2, SameTables, SameLog DEF storeVars, IInv, TypeOK
  <1> QED
    BY <1>1, <1>2, <1>3, <1>5, <1>6, <1>7, <1>8, ServiceInd

\* A grant that commits logs one event.  A gateway's is of the callback its
\* request is settling: paid, exact, on the invoice that request holds, and
\* which therefore has no grant yet and gets none from another request.
LEMMA CommitInd ==
    ASSUME IInv, NEW p \in Procs, GrantCommit(p), UNCHANGED ServiceVars
    PROVE  IInv'
  <1> DEFINE f == frame[p]
             s == GrantedRow(f)
             e == EventRow(s, f.type, f.provider, f.id)
             i == work[p].invoice
             gateway == f.type = "gateway_payment"
  <1>1. /\ SubInd /\ f.pc = "write" /\ events \in Seq(SubscriptionEvent) /\ frame \in [Procs -> Frame]
        /\ UNCHANGED <<invoices, work, txns, unacked, crashes>>
    BY DEF IInv, SubInd, SubType, StoreType, GrantCommit, ServiceVars, gatewayVars
  <1>2. events' = Append(events, e) /\ subs' = Granted(f) /\ frame' = [frame EXCEPT ![p].pc = "flush"]
    BY DEF GrantCommit, Accepted, GoTo
  <1>3. /\ SubInd' /\ RowsKept(subs, subs')
        /\ s \in DOMAIN subs' /\ subs'[s].user = f.user /\ subs'[s].plan = f.plan
    BY <1>1, <1>2, GrantedTable, GrantCommitInd
  <1>4. gateway => /\ work[p].pc = "granting" /\ i \in DOMAIN invoices
                   /\ f.id \in DOMAIN txns /\ txns[f.id].invoice = i
                   /\ txns[f.id].outcome = "PAID" /\ txns[f.id].exact
                   /\ f.user = invoices[i].user /\ f.plan = invoices[i].plan
    <2>1. gateway => /\ work[p].pc = "granting" /\ f.id = work[p].callback.txn
                     /\ f.user = invoices[i].user /\ f.plan = invoices[i].plan
      BY <1>1 DEF IInv, GatewayFramesFit, GatewayFrameFits, GatewayGrant, GrantPoints
    <2>2. WorkFits(work[p], invoices, txns)
      BY DEF IInv, WorkFit
    <2> QED
      BY <2>1, <2>2 DEF WorkFits, Settling, Claiming
  <1>5. gateway => /\ ~GrantedInvoice(i) /\ invoices[i].status \in Closed
                   /\ \A q \in Procs \ {p} : Holding(work[q]) => work[q].invoice # i
    BY <1>1, <1>4 DEF IInv, HeldUngranted, Ungranted, GrantPoints, HeldClosed, HeldApart, Holding
  <1>6. /\ \A q \in Procs \ {p} : frame'[q] = frame[q]
        /\ frame'[p].pc = "flush"
    BY <1>1, <1>2 DEF Frame
  <1> HIDE DEF f
  <1>7. e.type = f.type /\ e.id = f.id /\ e.sub = s
    BY DEF EventRow
  <1> HIDE DEF s, e
  <1>8. PICK n :
           /\ n \in DOMAIN events' /\ events'[n] = e /\ n \notin DOMAIN events
           /\ \A k \in DOMAIN events : k \in DOMAIN events' /\ events'[k] = events[k]
           /\ \A k \in DOMAIN events' : k = n \/ k \in DOMAIN events
    <2> DEFINE m == Len(events) + 1
    <2>1. /\ m \in DOMAIN events' /\ events'[m] = e /\ m \notin DOMAIN events
          /\ \A k \in DOMAIN events : k \in DOMAIN events' /\ events'[k] = events[k]
          /\ \A k \in DOMAIN events' : k = m \/ k \in DOMAIN events
      BY <1>1, <1>2
    <2> QED
      BY <2>1
  <1>9. /\ \A k \in GatewayEvents' : k \in GatewayEvents \/ (k = n /\ gateway)
        /\ \A k \in GatewayEvents : k \in GatewayEvents' /\ events'[k] = events[k]
        /\ gateway => n \in GatewayEvents'
    BY <1>7, <1>8 DEF GatewayEvents
  <1>10. /\ \A k \in GatewayEvents : InvoiceOf(k)' = InvoiceOf(k)
         /\ gateway => InvoiceOf(n)' = i
    BY <1>1, <1>4, <1>7, <1>8, <1>9 DEF InvoiceOf
  <1>11. EventsFit'
    <2>1. \A k \in GatewayEvents : events[k].id \in DOMAIN txns /\ events[k].sub \in DOMAIN subs'
      BY <1>3 DEF IInv, EventsFit, RowsKept
    <2> QED
      BY <1>1, <1>3, <1>4, <1>7, <1>8, <1>9, <2>1 DEF EventsFit
  <1>12. InvoiceGrantedOnce'
    <2>1. gateway => \A k \in GatewayEvents : InvoiceOf(k) # i
      BY <1>5 DEF GrantedInvoice
    <2> QED
      BY <1>9, <1>10, <2>1 DEF IInv, InvoiceGrantedOnce
  <1>13. GrantsMatchCharges'
    <2> SUFFICES ASSUME NEW k \in GatewayEvents'
                 PROVE  /\ txns[events'[k].id].outcome = "PAID"
                        /\ txns[events'[k].id].exact
                        /\ subs'[events'[k].sub].user = invoices[txns[events'[k].id].invoice].user
                        /\ subs'[events'[k].sub].plan = invoices[txns[events'[k].id].invoice].plan
      BY <1>1 DEF GrantsMatchCharges
    <2>1. CASE k \in GatewayEvents
      BY <1>3, <1>9, <2>1 DEF IInv, GrantsMatchCharges, EventsFit, RowsKept
    <2>2. CASE k = n /\ gateway
      BY <1>3, <1>4, <1>7, <1>8, <2>2
    <2> QED
      BY <1>9, <2>1, <2>2
  <1>14. \A j : GrantedInvoice(j)' => GrantedInvoice(j) \/ (gateway /\ j = i)
    BY <1>9, <1>10 DEF GrantedInvoice
  <1>15. /\ work' \in [Procs -> WorkRecord] /\ TxnsFit' /\ WorkFit' /\ SessionsApart'
         /\ HeldApart' /\ HeldClosed'
    BY <1>1, SameWork
  <1>16. GatewayFramesFit'
    <2>1. \A q \in Procs : GatewayFrameFits(frame'[q], work[q], invoices)
      BY <1>6 DEF IInv, GatewayFramesFit, GatewayFrameFits, GatewayGrant, GrantPoints
    <2> QED
      BY <1>1, <2>1 DEF GatewayFramesFit, GatewayFrameFits, GatewayGrant
  <1>17. HeldUngranted'
    <2> SUFFICES ASSUME NEW q \in Procs, Ungranted(work[q], frame'[q])
                 PROVE  ~GrantedInvoice(work[q].invoice)'
      BY <1>1 DEF HeldUngranted, Ungranted
    <2>1. CASE q = p
      <3>1. work[p].pc \in {"current", "restore"}
        BY <1>6, <2>1 DEF Ungranted, GrantPoints
      <3> QED
        BY <1>1, <1>4, <1>14, <2>1, <3>1 DEF IInv, HeldUngranted, Ungranted
    <2>2. CASE q # p
      <3>1. Ungranted(work[q], frame[q]) /\ Holding(work[q])
        BY <1>6, <2>2 DEF Ungranted, Holding
      <3>2. ~GrantedInvoice(work[q].invoice) /\ (gateway => work[q].invoice # i)
        BY <1>5, <2>2, <3>1 DEF IInv, HeldUngranted
      <3> QED
        BY <1>1, <1>14, <3>2
    <2> QED
      BY <2>1, <2>2
  <1>18. GrantedStaysClosed'
    BY <1>1, <1>5, <1>14 DEF IInv, GrantedStaysClosed, Closed
  <1>19. TypeOK'
    BY <1>1, <1>3, <1>15 DEF IInv, TypeOK, SubInd
  <1> QED
    BY <1>3, <1>11, <1>12, <1>13, <1>15, <1>16, <1>17, <1>18, <1>19 DEF IInv

\* A step of the service that changes one call, or none, and logs no grant: the
\* call was of a gateway payment before, or is of none after, and a settlement
\* that waits for its grant waits for what it waited for.
LEMMA CallsKept ==
    ASSUME IInv, SubInd', RowsKept(subs, subs'), LogsNoGrant, UNCHANGED ServiceVars,
           \A q \in Procs : GatewayGrant(frame'[q]) =>
               /\ GatewayGrant(frame[q])
               /\ frame'[q].id = frame[q].id
               /\ frame'[q].user = frame[q].user
               /\ frame'[q].plan = frame[q].plan,
           \A q \in Procs : Ungranted(work[q], frame'[q]) => Ungranted(work[q], frame[q])
    PROVE  IInv'
  <1>1. UNCHANGED <<invoices, work, txns, unacked, crashes>>
    BY DEF ServiceVars, gatewayVars
  <1>2. \A q \in Procs : GatewayFrameFits(frame'[q], work'[q], invoices)
    BY <1>1 DEF IInv, GatewayFramesFit, GatewayFrameFits
  <1>3. \A q \in Procs : Ungranted(work'[q], frame'[q]) =>
           Ungranted(work[q], frame[q]) /\ work'[q].invoice = work[q].invoice
    BY <1>1
  <1>4. unacked' \in SUBSET Callback /\ crashes' \in Nat
    BY <1>1 DEF IInv, TypeOK
  <1> QED
    BY <1>1, <1>2, <1>3, <1>4, SameWork, ServiceInd

LEMMA ServiceFrameInd == ASSUME IInv, NEW p \in Procs, FrameStep(p), UNCHANGED ServiceVars PROVE IInv'
  <1>1. CASE GrantCommit(p)
    BY <1>1, CommitInd
  <1>2. CASE ~GrantCommit(p)
    <2>1. SubInd' /\ RowsKept(subs, subs') /\ LogsNoGrant
      BY <1>2, FrameStepInd, FrameStepLog DEF IInv
    <2>2. PICK g : /\ frame' = [frame EXCEPT ![p] = g]
                   /\ g.provider = frame[p].provider /\ g.id = frame[p].id
                   /\ g.user = frame[p].user /\ g.plan = frame[p].plan /\ g.type = frame[p].type
                   /\ g.pc \in GrantPoints \cup {"failed"} => frame[p].pc \in GrantPoints
      BY FrameStepArguments DEF IInv
    <2>3. frame \in [Procs -> Frame]
      BY DEF IInv, SubInd, SubType
    <2>4. frame'[p] = g /\ \A q \in Procs \ {p} : frame'[q] = frame[q]
      BY <2>2, <2>3
    <2> QED
      BY <2>1, <2>2, <2>4, CallsKept DEF GatewayGrant, Ungranted
  <1> QED
    BY <1>1, <1>2

LEMMA ServiceStepInd == ASSUME IInv, ServiceStep PROVE IInv'
  <1>1. UNCHANGED ServiceVars /\ SubInd /\ frame \in [Procs -> Frame]
    BY DEF ServiceStep, IInv, SubInd, SubType
  <1>2. CASE \E p \in Procs : FrameStep(p)
    BY <1>1, <1>2, ServiceFrameInd
  <1>3. CASE \E p \in Procs : work[p].pc = "idle" /\ (Request(p) \/ Return(p))
    <2>1. PICK p \in Procs : work[p].pc = "idle" /\ (Request(p) \/ Return(p))
      BY <1>3
    <2>2. SubInd' /\ RowsKept(subs, subs')
      BY <1>1, <2>1, SubNextInd DEF SubNext
    <2>3. LogsNoGrant
      BY <1>1, <2>1, SameLog DEF Request, AdminGrant, PaidGrant, CancelRead, Return, storeVars
    <2>4. ~GatewayGrant(frame'[p]) /\ \A q \in Procs \ {p} : frame'[q] = frame[q]
      <3>1. CASE \E u \in Users, plan \in Plans, days \in GrantDays : AdminGrant(p, u, plan, days)
        BY <1>1, <3>1 DEF AdminGrant, Call, GatewayGrant
      <3>2. CASE \E u \in Users, plan \in Plans, id \in PaymentIds : PaidGrant(p, u, plan, id)
        BY <3>2, InvoiceAssumption
      <3>3. CASE \E u \in Users, immediately \in BOOLEAN : CancelRead(p, u, immediately)
        BY <1>1, <3>3 DEF CancelRead, NoCall, GatewayGrant, GrantPoints
      <3>4. CASE Return(p)
        BY <1>1, <3>4 DEF Return, NoCall, GatewayGrant, GrantPoints
      <3> QED
        BY <2>1, <3>1, <3>2, <3>3, <3>4 DEF Request
    <2> QED
      BY <1>1, <2>1, <2>2, <2>3, <2>4, CallsKept DEF Ungranted
  <1>4. CASE \E j \in Jobs : MaintenanceStep(j) \/ WorkerCrash(j)
    BY <1>1, <1>4, MaintenanceInd, MaintenanceLog, CallsKept
  <1>5. CASE Environment
    BY <1>1, <1>5, EnvironmentInd, EnvironmentLog, CallsKept, SameTables
  <1> QED
    BY <1>2, <1>3, <1>4, <1>5 DEF ServiceStep

LEMMA ApiCrashInd == ASSUME IInv, ApiCrash PROVE IInv'
  <1>1. /\ work' = [p \in Procs |-> NoWork] /\ frame' = [p \in Procs |-> NoCall]
        /\ view' = [v \in Viewers |-> Idle] /\ crashes' = crashes + 1
        /\ UNCHANGED <<storeVars, cache, jobVars, invoices, txns, unacked>>
    BY DEF ApiCrash, gatewayVars
  <1>2. NoCall.pc = "idle"
    BY DEF NoCall
  <1>3. SubInd'
    BY <1>1, CallsLost DEF IInv
  <1>4. /\ work' \in [Procs -> WorkRecord] /\ \A p \in Procs : WorkFits(work'[p], invoices, txns)
        /\ \A p \in Procs : work'[p].pc = "idle" /\ frame'[p].pc = "idle"
    BY <1>1, <1>2, NoWorkFits DEF NoWork
  <1>5. TxnsFit' /\ WorkFit' /\ SessionsApart' /\ HeldApart' /\ HeldClosed'
    BY <1>1, <1>4 DEF IInv, TxnsFit, WorkFit, WorkFits, SessionsApart, HeldApart, HeldClosed, Holding
  <1>6. /\ \A q \in Procs : GatewayFrameFits(frame'[q], work'[q], invoices)
        /\ \A q \in Procs : ~Ungranted(work'[q], frame'[q])
    BY <1>4 DEF GatewayFrameFits, GatewayGrant, GrantPoints, Ungranted
  <1>7. RowsKept(subs, subs') /\ LogsNoGrant /\ crashes' \in Nat /\ unacked' \in SUBSET Callback
    BY <1>1, SameTables, SameLog DEF storeVars, IInv, TypeOK
  <1> QED
    BY <1>1, <1>3, <1>4, <1>5, <1>6, <1>7, ServiceInd

----
(* The theorems *)

\* The invariant holds initially: there are no invoices and nothing is logged.
LEMMA InitInv == Init => IInv
  <1> SUFFICES ASSUME Init PROVE IInv
    OBVIOUS
  <1>1. SubInd
    BY SubInitInd DEF Init
  <1>2. /\ invoices = <<>> /\ txns = <<>> /\ unacked = {} /\ crashes = 0 /\ events = <<>>
        /\ work = [p \in Procs |-> NoWork] /\ frame = [p \in Procs |-> NoCall]
    BY DEF Init, SubInit, StoreInit
  <1>3. \A p \in Procs : work[p].pc = "idle" /\ frame[p].pc = "idle" /\ WorkFits(work[p], invoices, txns)
    BY <1>2, NoWorkFits DEF NoWork, NoCall
  <1>4. TypeOK
    <2>1. invoices \in Seq(Invoice) /\ txns \in Seq(Txn)
      BY <1>2
    <2> QED
      BY <1>1, <1>2, <2>1, NoWorkFits DEF TypeOK, SubInd
  <1>5. TxnsFit /\ WorkFit /\ SessionsApart /\ HeldApart /\ HeldClosed
    BY <1>2, <1>3 DEF TxnsFit, WorkFit, SessionsApart, HeldApart, HeldClosed, Holding
  <1>6. GatewayFramesFit /\ HeldUngranted
    BY <1>3 DEF GatewayFramesFit, GatewayFrameFits, GatewayGrant, GrantPoints, HeldUngranted, Ungranted
  <1>7. GatewayEvents = {} /\ DOMAIN invoices = {}
    BY <1>2 DEF GatewayEvents
  <1> QED
    BY <1>1, <1>4, <1>5, <1>6, <1>7
    DEF IInv, EventsFit, InvoiceGrantedOnce, GrantsMatchCharges, GrantedStaysClosed

\* Every step preserves the invariant, one action at a time.
LEMMA NextInv == IInv /\ [Next]_vars => IInv'
  <1> SUFFICES ASSUME IInv, [Next]_vars PROVE IInv'
    OBVIOUS
  <1>1. CASE \E p \in Procs, u \in Users, plan \in Plans : CheckoutCreate(p, u, plan)
    BY <1>1, CheckoutCreateInd
  <1>2. CASE \E i \in DOMAIN invoices, outcome \in {"PAID", "FAILED"}, exact \in BOOLEAN : Pay(i, outcome, exact)
    BY <1>2, PayInd
  <1>3. CASE \E t \in DOMAIN txns : Refund(t)
    BY <1>3, RefundInd
  <1>4. CASE \E p \in Procs, t \in DOMAIN txns : \E m \in Callbacks(t) : Deliver(p, t, m)
    BY <1>4, DeliverInd
  <1>5. CASE \E p \in Procs : WorkStep(p)
    BY <1>5, CheckoutSessionInd, SettleRefundInd, SettleDeclineInd, SettleClaimInd, SettleCurrentInd,
       SettleEndInd, SettleRestoreInd DEF WorkStep
  <1>6. CASE ApiCrash
    BY <1>6, ApiCrashInd
  <1>7. CASE ServiceStep
    BY <1>7, ServiceStepInd
  <1>8. CASE UNCHANGED vars
    <2>1. UNCHANGED <<subVars, invoices, work, txns, unacked, crashes>>
      BY <1>8 DEF vars
    <2> QED
      BY <2>1, SameTables, GatewayInd DEF IInv, TypeOK
  <1> QED
    BY <1>1, <1>2, <1>3, <1>4, <1>5, <1>6, <1>7, <1>8 DEF Next

\* The invariant holds of every behaviour of checkout and settlement.
THEOREM SpecIInv == Spec => []IInv
  BY InitInv, NextInv, PTL DEF Spec

\* Type correctness of the invoices, the settlements, the gateway's table and
\* the subscription service underneath.
THEOREM TypeCorrect == Spec => []TypeOK
  BY SpecIInv, PTL DEF IInv

\* "A replayed or duplicated callback cannot grant twice": whatever callbacks
\* come late, twice or out of order, and two payments of one invoice among
\* them, no invoice has two grants in the log.
THEOREM InvoicesGrantedOnce == Spec => []InvoiceGrantedOnce
  BY SpecIInv, PTL DEF IInv

\* A gateway grant is of a transaction that was paid in the exact amount, to
\* the user and of the plan of the invoice it is on.
THEOREM GatewayGrantsMatchCharges == Spec => []GrantsMatchCharges
  BY SpecIInv, PTL DEF IInv

\* No decline, no failed grant that is put back and no late callback makes an
\* invoice claimable again once its plan was granted.
THEOREM GrantedInvoicesStayClosed == Spec => []GrantedStaysClosed
  BY SpecIInv, PTL DEF IInv
====
