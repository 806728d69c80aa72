---- MODULE ManualPaymentsProofs ----
(***************************************************************************)
(* Proofs about ManualPayments: for any number of customers, admins,       *)
(* orders, crashes and requests in flight, every wallet grant is of one    *)
(* order and of no other grant's order, an order that waits for approval   *)
(* has its reference, and no subscription runs longer than was paid for.   *)
(***************************************************************************)
EXTENDS ManualPayments, SubscriptionsProofs, WellFoundedInduction

\* The points of approve after it has read the order.
Approving == {"claim", "current", "granting", "restore"}

\* What a request has read of an order stays true of the table.
CallFits(r, table) ==
    /\ r.pc \in {"replace", "create", "raced"} => r.user \in Users /\ r.plan \in Plans
    /\ r.pc = "submit" => r.ref \in References
    /\ r.pc \in Approving =>
          /\ r.order \in DOMAIN table
          /\ r.status \in OrderStatus
          /\ r.status = "SUBMITTED" => table[r.order].ref # None

CallsFit == \A p \in Procs : CallFits(call[p], orders)

\* A grant of a wallet payment is of an order, and of its user and plan.
WalletGrant(f) == f.pc \in GrantPoints /\ f.type = "wallet_payment"

WalletFrameFits(f, table) ==
    WalletGrant(f) =>
        /\ f.provider = "wallet"
        /\ f.id \in DOMAIN table
        /\ table[f.id].user = f.user
        /\ table[f.id].plan = f.plan

WalletFramesFit == \A p \in Procs : WalletFrameFits(frame[p], orders)

\* Wallet events carry the provider whose ids the unique index keeps apart.
WalletProvider == \A e \in WalletEvents : events[e].provider = "wallet"

\* The inductive invariant.
IInv ==
    /\ SubInd
    /\ TypeOK
    /\ SubmittedHasReference
    /\ CallsFit
    /\ WalletFramesFit
    /\ WalletProvider
    /\ GrantsMatchOrders

\* The table of orders is only ever extended; an order keeps its user and plan,
\* and never loses a reference.
OrdersKept(before, after) ==
    /\ DOMAIN before \subseteq DOMAIN after
    /\ \A o \in DOMAIN before :
          /\ after[o].user = before[o].user
          /\ after[o].plan = before[o].plan
          /\ before[o].ref # None => after[o].ref # None

\* SubmittedHasReference, of a table.
HasReferences(table) == \A o \in DOMAIN table : table[o].status = "SUBMITTED" => table[o].ref # None

----
(* Lemmas about the tables *)

\* An order changes its status: the table stays a table and keeps its orders,
\* and an order with a reference may be put back as submitted.
LEMMA WithStatusFits ==
    ASSUME IInv, NEW o, NEW status \in OrderStatus,
           status = "SUBMITTED" /\ o \in DOMAIN orders => orders[o].ref # None
    PROVE  /\ WithStatus(o, status) \in Seq(Order)
           /\ OrdersKept(orders, WithStatus(o, status))
           /\ HasReferences(WithStatus(o, status))
  <1> DEFINE old == orders[o]
             new == [old EXCEPT !.status = status]
             table == [orders EXCEPT ![o] = new]
  <1>1. orders \in Seq(Order)
    BY DEF IInv, TypeOK
  <1>2. o \in DOMAIN orders => old \in Order
    BY <1>1
  <1>3. WithStatus(o, status) = table
    BY DEF WithStatus
  <1> HIDE DEF old
  <1>4. o \in DOMAIN orders => /\ new \in Order /\ new.user = old.user /\ new.plan = old.plan
                               /\ new.ref = old.ref /\ new.status = status
    BY <1>2 DEF Order
  <1> HIDE DEF new
  <1>5. /\ table \in Seq(Order) /\ DOMAIN table = DOMAIN orders
        /\ \A i \in DOMAIN orders : table[i] = IF i = o THEN new ELSE orders[i]
    BY <1>1, <1>4, UpdateRow
  <1> HIDE DEF table
  <1>6. OrdersKept(orders, table)
    BY <1>4, <1>5 DEF OrdersKept, old
  <1>7. HasReferences(table)
    BY <1>4, <1>5 DEF HasReferences, old, IInv, SubmittedHasReference
  <1> QED
    BY <1>3, <1>5, <1>6, <1>7

\* What fits the orders fits them after a step that keeps them.
LEMMA CallFitsKept ==
    ASSUME NEW r, NEW before, NEW after, CallFits(r, before), OrdersKept(before, after)
    PROVE  CallFits(r, after)
  BY DEF CallFits, OrdersKept

LEMMA WalletFrameFitsKept ==
    ASSUME NEW f, NEW before, NEW after, WalletFrameFits(f, before), OrdersKept(before, after)
    PROVE  WalletFrameFits(f, after)
  BY DEF WalletFrameFits, OrdersKept

\* A step that logs no grant keeps every wallet event.
LEMMA EventsKept ==
    ASSUME IInv, RowsKept(subs, subs'), OrdersKept(orders, orders'), LogsNoGrant
    PROVE  WalletProvider' /\ GrantsMatchOrders'
  <1>1. \A e \in WalletEvents' : e \in WalletEvents /\ events'[e] = events[e]
    BY GrantsKept DEF IInv, WalletEvents, PeriodGrants
  <1>2. WalletProvider'
    BY <1>1 DEF IInv, WalletProvider
  <1>3. \A e \in WalletEvents' :
            /\ events'[e].id \in DOMAIN orders'
            /\ events'[e].sub \in DOMAIN subs'
            /\ subs'[events'[e].sub].user = orders'[events'[e].id].user
            /\ subs'[events'[e].sub].plan = orders'[events'[e].id].plan
    <2> TAKE e \in WalletEvents'
    <2>1. e \in WalletEvents /\ events'[e] = events[e]
      BY <1>1
    <2> QED
      BY <2>1 DEF IInv, GrantsMatchOrders, RowsKept, OrdersKept
  <1>4. \A e1, e2 \in WalletEvents' : events'[e1].id = events'[e2].id => e1 = e2
    BY <1>1 DEF IInv, GrantsMatchOrders
  <1> QED
    BY <1>2, <1>3, <1>4 DEF GrantsMatchOrders

LEMMA EventsSame ==
    ASSUME IInv, RowsKept(subs, subs'), OrdersKept(orders, orders'), UNCHANGED events
    PROVE  WalletProvider' /\ GrantsMatchOrders'
  BY DEF IInv, WalletProvider, GrantsMatchOrders, WalletEvents, RowsKept, OrdersKept

----
(* Steps of a request on the orders *)

\* A step of one request that leaves the subscription service alone.
LEMMA OrderStepInd ==
    ASSUME IInv, NEW p \in Procs, NEW r \in CallRecord, CallFits(r, orders'),
           call' = [call EXCEPT ![p] = r],
           orders' \in Seq(Order), OrdersKept(orders, orders'), HasReferences(orders'),
           UNCHANGED <<subVars, crashes>>
    PROVE  IInv'
  <1>1. SubInd'
    BY Aside DEF IInv, SubInd, SubType, StoreType, EntType, subVars, storeVars, entVars, jobVars
  <1>2. TypeOK'
    BY <1>1 DEF IInv, TypeOK, SubInd
  <1>3. SubmittedHasReference'
    BY DEF SubmittedHasReference, HasReferences
  <1>4. CallsFit'
    <2>1. \A q \in Procs : CallFits(call[q], orders')
      BY CallFitsKept DEF IInv, CallsFit
    <2>2. \A q \in Procs : CallFits(call'[q], orders')
      BY <2>1 DEF IInv, TypeOK
    <2> QED
      BY <2>2 DEF CallsFit, CallFits
  <1>5. WalletFramesFit'
    <2>1. \A q \in Procs : WalletFrameFits(frame[q], orders')
      BY WalletFrameFitsKept DEF IInv, WalletFramesFit
    <2> QED
      BY <2>1 DEF WalletFramesFit, WalletFrameFits, WalletGrant, subVars
  <1>6. WalletProvider' /\ GrantsMatchOrders'
    BY EventsSame DEF RowsKept, subVars, storeVars
  <1> QED
    BY <1>1, <1>2, <1>3, <1>4, <1>5, <1>6 DEF IInv

\* The table as it is.
LEMMA SameOrders ==
    ASSUME IInv, UNCHANGED orders
    PROVE  orders' \in Seq(Order) /\ OrdersKept(orders, orders') /\ HasReferences(orders')
  BY DEF IInv, TypeOK, OrdersKept, HasReferences, SubmittedHasReference
LEMMA NoRequestFits == NoRequest \in CallRecord /\ \A table : CallFits(NoRequest, table)
  BY DEF NoRequest, CallRecord, CallFits, Approving

\* A request goes on, or ends, with what it has read.
LEMMA AdvanceFits ==
    ASSUME IInv, NEW p \in Procs, NEW point,
           \/ point = "create" /\ call[p].pc \in {"replace", "create", "raced"}
           \/ point = "raced" /\ call[p].pc = "create"
           \/ point \in Approving /\ call[p].pc \in Approving
    PROVE  /\ [call[p] EXCEPT !.pc = point] \in CallRecord
           /\ CallFits([call[p] EXCEPT !.pc = point], orders)
           /\ [call EXCEPT ![p].pc = point] = [call EXCEPT ![p] = [call[p] EXCEPT !.pc = point]]
  <1> DEFINE r == call[p]
  <1>1. r \in CallRecord /\ CallFits(r, orders) /\ call \in [Procs -> CallRecord]
    BY DEF IInv, TypeOK, CallsFit
  <1>2. [call EXCEPT ![p].pc = point] = [call EXCEPT ![p] = [call[p] EXCEPT !.pc = point]]
    BY <1>1
  <1>3. \/ point = "create" /\ r.pc \in {"replace", "create", "raced"}
        \/ point = "raced" /\ r.pc = "create"
        \/ point \in Approving /\ r.pc \in Approving
    OBVIOUS
  <1> HIDE DEF r
  <1>4. [r EXCEPT !.pc = point] \in CallRecord
    BY <1>1, <1>3 DEF CallRecord, Approving
  <1>5. CallFits([r EXCEPT !.pc = point], orders)
    BY <1>1, <1>3 DEF CallRecord, CallFits, Approving
  <1> QED
    BY <1>2, <1>4, <1>5 DEF r

LEMMA StartOrderInd ==
    ASSUME IInv, NEW p \in Procs, NEW u \in Users, NEW plan \in Plans, StartOrder(p, u, plan)
    PROVE  IInv'
  <1>1. PICK r : /\ call' = [call EXCEPT ![p] = r]
                 /\ \/ r = [NoRequest EXCEPT !.pc = "create", !.user = u, !.plan = plan]
                    \/ \E o \in DOMAIN orders :
                          r = [NoRequest EXCEPT !.pc = "replace", !.user = u, !.plan = plan, !.order = o]
    BY DEF StartOrder, Begin, OpenOrders
  <1>2. DOMAIN orders \subseteq Nat
    BY DEF IInv, TypeOK
  <1>3. CASE r = [NoRequest EXCEPT !.pc = "create", !.user = u, !.plan = plan]
    <2>1. r \in CallRecord /\ CallFits(r, orders)
      BY <1>3 DEF CallRecord, NoRequest, CallFits, Approving
    <2> QED
      BY <1>1, <2>1, SameOrders, OrderStepInd DEF StartOrder
  <1>4. CASE \E o \in DOMAIN orders :
                r = [NoRequest EXCEPT !.pc = "replace", !.user = u, !.plan = plan, !.order = o]
    <2>1. PICK o \in DOMAIN orders :
               r = [NoRequest EXCEPT !.pc = "replace", !.user = u, !.plan = plan, !.order = o]
      BY <1>4
    <2>2. o \in Nat
      BY <1>2
    <2>3. r \in CallRecord /\ CallFits(r, orders)
      BY <2>1, <2>2 DEF CallRecord, NoRequest, CallFits, Approving
    <2> QED
      BY <1>1, <2>3, SameOrders, OrderStepInd DEF StartOrder
  <1> QED
    BY <1>1, <1>3, <1>4

LEMMA ReplaceOpenInd == ASSUME IInv, NEW p \in Procs, ReplaceOpen(p) PROVE IInv'
  <1> DEFINE r == [call[p] EXCEPT !.pc = "create"]
  <1>1. /\ call' = [call EXCEPT ![p] = r] /\ r \in CallRecord /\ CallFits(r, orders)
        /\ UNCHANGED <<subVars, crashes>>
    BY AdvanceFits DEF ReplaceOpen, Advance
  <1>2. orders' \in Seq(Order) /\ OrdersKept(orders, orders') /\ HasReferences(orders')
    BY WithStatusFits DEF ReplaceOpen, OrderStatus
  <1> HIDE DEF r
  <1> QED
    BY <1>1, <1>2, CallFitsKept, OrderStepInd

LEMMA CreateOrderInd == ASSUME IInv, NEW p \in Procs, CreateOrder(p) PROVE IInv'
  <1> DEFINE row == NewOrder(call[p])
  <1>1. /\ call' = [call EXCEPT ![p] = NoRequest] /\ orders' = Append(orders, row)
        /\ UNCHANGED <<subVars, crashes>>
    BY DEF CreateOrder, Finish
  <1>2. call[p].user \in Users /\ call[p].plan \in Plans
    BY DEF CreateOrder, IInv, CallsFit, CallFits
  <1>3. row \in Order /\ row.status = "AWAITING_PAYMENT"
    BY <1>2 DEF NewOrder, Order, OrderStatus, OpenStatuses
  <1> HIDE DEF row
  <1>4. orders \in Seq(Order)
    BY DEF IInv, TypeOK
  <1>5. /\ orders' \in Seq(Order) /\ DOMAIN orders \subseteq DOMAIN orders'
        /\ \A o \in DOMAIN orders' : o \in DOMAIN orders \/ o = Len(orders) + 1
        /\ \A o \in DOMAIN orders : orders'[o] = orders[o]
        /\ orders'[Len(orders) + 1] = row
    BY <1>1, <1>3, <1>4
  <1>6. OrdersKept(orders, orders') /\ HasReferences(orders')
    BY <1>3, <1>5 DEF OrdersKept, HasReferences, IInv, SubmittedHasReference
  <1> QED
    BY <1>1, <1>5, <1>6, NoRequestFits, OrderStepInd

LEMMA CreateRefusedInd == ASSUME IInv, NEW p \in Procs, CreateRefused(p) PROVE IInv'
  <1> DEFINE r == [call[p] EXCEPT !.pc = "raced"]
  <1>1. /\ call' = [call EXCEPT ![p] = r] /\ r \in CallRecord /\ CallFits(r, orders)
        /\ UNCHANGED <<subVars, orders, crashes>>
    BY AdvanceFits DEF CreateRefused, Advance
  <1> HIDE DEF r
  <1> QED
    BY <1>1, SameOrders, OrderStepInd

LEMMA LookAgainInd == ASSUME IInv, NEW p \in Procs, LookAgain(p) PROVE IInv'
  <1> DEFINE c == call[p]
             n == c.attempt + 1
             r == [c EXCEPT !.pc = "create", !.attempt = n]
  <1>1. c \in CallRecord /\ CallFits(c, orders) /\ c.pc = "raced"
    BY DEF LookAgain, IInv, TypeOK, CallsFit
  <1>2. call' = [call EXCEPT ![p] = NoRequest] \/ call' = [call EXCEPT ![p] = r]
    BY DEF LookAgain, Finish, Begin
  <1> HIDE DEF c
  <1>3. n \in Nat
    BY <1>1 DEF CallRecord
  <1> HIDE DEF n
  <1>4. r \in CallRecord /\ r.pc = "create" /\ r.user = c.user /\ r.plan = c.plan
    BY <1>1, <1>3 DEF CallRecord
  <1> HIDE DEF r
  <1>5. CallFits(r, orders)
    BY <1>1, <1>4 DEF CallFits, Approving
  <1> QED
    BY <1>2, <1>4, <1>5, NoRequestFits, SameOrders, OrderStepInd DEF LookAgain

LEMMA SubmitReadInd ==
    ASSUME IInv, NEW p \in Procs, NEW o \in DOMAIN orders, NEW ref \in References, SubmitRead(p, o, ref)
    PROVE  IInv'
  <1> DEFINE r == [NoRequest EXCEPT !.pc = "submit", !.order = o, !.ref = ref]
  <1>1. o \in Nat
    BY DEF IInv, TypeOK
  <1>2. r \in CallRecord /\ CallFits(r, orders)
    BY <1>1 DEF CallRecord, NoRequest, CallFits, Approving
  <1>3. call' = [call EXCEPT ![p] = r] /\ UNCHANGED <<subVars, orders, crashes>>
    BY DEF SubmitRead, Begin
  <1> HIDE DEF r
  <1> QED
    BY <1>2, <1>3, SameOrders, OrderStepInd

LEMMA SubmitWriteInd == ASSUME IInv, NEW p \in Procs, SubmitWrite(p) PROVE IInv'
  <1> DEFINE o == call[p].order
             old == orders[o]
             ref == call[p].ref
             new == [old EXCEPT !.status = "SUBMITTED", !.ref = ref]
             table == [orders EXCEPT ![o] = new]
  <1>1. ref \in References /\ orders \in Seq(Order)
    BY DEF SubmitWrite, IInv, CallsFit, CallFits, TypeOK
  <1>2. [orders EXCEPT ![o].status = "SUBMITTED", ![o].ref = ref] = table
    BY <1>1
  <1>3. /\ orders' \in {table, orders} /\ call' = [call EXCEPT ![p] = NoRequest]
        /\ UNCHANGED <<subVars, crashes>>
    BY <1>2 DEF SubmitWrite, Finish
  <1>4. o \in DOMAIN orders => old \in Order
    BY <1>1
  <1> HIDE DEF o, old, ref
  <1>5. ref # None
    BY <1>1, OrderAssumption
  <1>6. o \in DOMAIN orders => /\ new \in Order /\ new.user = old.user /\ new.plan = old.plan
                               /\ new.ref # None
    <2>1. "SUBMITTED" \in OrderStatus
      BY DEF OrderStatus, OpenStatuses
    <2> QED
      BY <1>1, <1>4, <1>5, <2>1 DEF Order
  <1> HIDE DEF new
  <1>7. /\ table \in Seq(Order) /\ DOMAIN table = DOMAIN orders
        /\ \A i \in DOMAIN orders : table[i] = IF i = o THEN new ELSE orders[i]
    BY <1>1, <1>6, UpdateRow
  <1> HIDE DEF table
  <1>8. OrdersKept(orders, table) /\ HasReferences(table)
    BY <1>6, <1>7 DEF OrdersKept, HasReferences, IInv, SubmittedHasReference, old
  <1>9. orders' \in Seq(Order) /\ OrdersKept(orders, orders') /\ HasReferences(orders')
    BY <1>3, <1>7, <1>8, SameOrders
  <1> QED
    BY <1>3, <1>9, NoRequestFits, OrderStepInd

LEMMA CancelOrderReadInd ==
    ASSUME IInv, NEW p \in Procs, NEW o \in DOMAIN orders, CancelOrderRead(p, o)
    PROVE  IInv'
  <1> DEFINE r == [NoRequest EXCEPT !.pc = "cancel", !.order = o]
  <1>1. o \in Nat
    BY DEF IInv, TypeOK
  <1>2. r \in CallRecord /\ CallFits(r, orders)
    BY <1>1 DEF CallRecord, NoRequest, CallFits, Approving
  <1>3. call' = [call EXCEPT ![p] = r] /\ UNCHANGED <<subVars, orders, crashes>>
    BY DEF CancelOrderRead, Begin
  <1> HIDE DEF r
  <1> QED
    BY <1>2, <1>3, SameOrders, OrderStepInd

LEMMA CancelOrderWriteInd == ASSUME IInv, NEW p \in Procs, CancelOrderWrite(p) PROVE IInv'
  <1>1. orders' \in Seq(Order) /\ OrdersKept(orders, orders') /\ HasReferences(orders')
    BY WithStatusFits DEF CancelOrderWrite, OrderStatus
  <1>2. call' = [call EXCEPT ![p] = NoRequest] /\ UNCHANGED <<subVars, crashes>>
    BY DEF CancelOrderWrite, Finish
  <1> QED
    BY <1>1, <1>2, NoRequestFits, OrderStepInd

LEMMA ApproveReadInd ==
    ASSUME IInv, NEW p \in Procs, NEW o \in DOMAIN orders, ApproveRead(p, o)
    PROVE  IInv'
  <1> DEFINE r == [NoRequest EXCEPT !.pc = "claim", !.order = o, !.status = orders[o].status]
  <1>1. o \in Nat /\ orders[o].status \in OrderStatus
    <2>1. o \in Nat /\ orders[o] \in Order
      BY DEF IInv, TypeOK
    <2> QED
      BY <2>1 DEF Order
  <1>2. r \in CallRecord
    BY <1>1 DEF CallRecord, NoRequest
  <1>3. r.pc = "claim" /\ r.order = o /\ r.status = orders[o].status
    BY DEF NoRequest
  <1>4. call' = [call EXCEPT ![p] = r] /\ UNCHANGED <<subVars, orders, crashes>>
    BY DEF ApproveRead, Begin
  <1> HIDE DEF r
  <1>5. CallFits(r, orders)
    BY <1>1, <1>3 DEF CallFits, IInv, SubmittedHasReference
  <1> QED
    BY <1>2, <1>4, <1>5, SameOrders, OrderStepInd

LEMMA ApproveClaimInd == ASSUME IInv, NEW p \in Procs, ApproveClaim(p) PROVE IInv'
  <1> DEFINE o == call[p].order
             claimed == WithStatus(o, "APPROVED")
             r == [call[p] EXCEPT !.pc = "current"]
  <1>1. CASE orders' = claimed /\ Advance(p, "current")
    <2>1. orders' \in Seq(Order) /\ OrdersKept(orders, orders') /\ HasReferences(orders')
      BY <1>1, WithStatusFits DEF OrderStatus
    <2>2. /\ call' = [call EXCEPT ![p] = r] /\ r \in CallRecord /\ CallFits(r, orders)
          /\ UNCHANGED <<subVars, crashes>>
      BY <1>1, AdvanceFits DEF ApproveClaim, Advance, Approving
    <2> HIDE DEF r, o, claimed
    <2> QED
      BY <2>1, <2>2, CallFitsKept, OrderStepInd
  <1>2. CASE orders' = orders /\ Finish(p)
    BY <1>2, NoRequestFits, SameOrders, OrderStepInd DEF ApproveClaim, Finish
  <1> QED
    BY <1>1, <1>2 DEF ApproveClaim

LEMMA ApproveRestoreInd == ASSUME IInv, NEW p \in Procs, ApproveRestore(p) PROVE IInv'
  <1> DEFINE restored == WithStatus(call[p].order, call[p].status)
  <1>1. /\ call[p].status \in OrderStatus
        /\ call[p].status = "SUBMITTED" => orders[call[p].order].ref # None
    BY DEF ApproveRestore, IInv, CallsFit, CallFits, Approving
  <1>2. restored \in Seq(Order) /\ OrdersKept(orders, restored) /\ HasReferences(restored)
    BY <1>1, WithStatusFits
  <1>3. /\ orders' \in {restored, orders} /\ call' = [call EXCEPT ![p] = NoRequest]
        /\ UNCHANGED <<subVars, crashes>>
    BY DEF ApproveRestore, Finish
  <1> HIDE DEF restored
  <1>4. orders' \in Seq(Order) /\ OrdersKept(orders, orders') /\ HasReferences(orders')
    BY <1>2, <1>3, SameOrders
  <1> QED
    BY <1>3, <1>4, NoRequestFits, OrderStepInd
\* reject is no request's step: the calls are left alone.
LEMMA RejectInd == ASSUME IInv, NEW o \in DOMAIN orders, Reject(o) PROVE IInv'
  <1>1. orders' \in Seq(Order) /\ OrdersKept(orders, orders') /\ HasReferences(orders')
    BY WithStatusFits DEF Reject, OrderStatus
  <1>2. UNCHANGED <<subVars, call, crashes>>
    BY DEF Reject
  <1>3. SubInd'
    BY <1>2, Aside DEF IInv, SubInd, SubType, StoreType, EntType, subVars, storeVars, entVars, jobVars
  <1>4. CallsFit'
    <2>1. \A q \in Procs : CallFits(call[q], orders')
      BY <1>1, CallFitsKept DEF IInv, CallsFit
    <2> QED
      BY <1>2, <2>1 DEF CallsFit, CallFits
  <1>5. WalletFramesFit'
    <2>1. \A q \in Procs : WalletFrameFits(frame[q], orders')
      BY <1>1, WalletFrameFitsKept DEF IInv, WalletFramesFit
    <2> QED
      BY <1>2, <2>1 DEF WalletFramesFit, WalletFrameFits, WalletGrant, subVars
  <1>6. WalletProvider' /\ GrantsMatchOrders'
    BY <1>1, <1>2, EventsSame DEF RowsKept, subVars, storeVars
  <1> QED
    BY <1>1, <1>2, <1>3, <1>4, <1>5, <1>6
    DEF IInv, TypeOK, SubInd, SubmittedHasReference, HasReferences

----
(* Steps of the subscription service *)

\* A step of the subscription service leaves the orders alone.  What has to be
\* shown of it is what it does to the grants in progress and to the log.
LEMMA ServiceInd ==
    ASSUME IInv, SubInd', WalletFramesFit', WalletProvider', GrantsMatchOrders',
           orders' = orders, call' \in [Procs -> CallRecord], crashes' \in Nat, CallsFit'
    PROVE  IInv'
  BY DEF IInv, TypeOK, SubInd, SubmittedHasReference

\* The grants of wallet payments in progress are ones that were in progress,
\* with the arguments they had.
LEMMA WalletFramesKept ==
    ASSUME IInv, UNCHANGED orders,
           \A q \in Procs : WalletGrant(frame'[q]) =>
               /\ WalletGrant(frame[q])
               /\ frame'[q].provider = frame[q].provider
               /\ frame'[q].id = frame[q].id
               /\ frame'[q].user = frame[q].user
               /\ frame'[q].plan = frame[q].plan
    PROVE  WalletFramesFit'
  <1>1. \A q \in Procs : WalletFrameFits(frame'[q], orders)
    BY DEF IInv, WalletFramesFit, WalletFrameFits
  <1> QED
    BY <1>1 DEF WalletFramesFit, WalletFrameFits, WalletGrant

\* No step of a frame changes what it grants.
LEMMA FrameStepFrames ==
    ASSUME IInv, NEW p \in Procs, FrameStep(p), UNCHANGED orders
    PROVE  WalletFramesFit'
  <1>1. PICK g : /\ frame' = [frame EXCEPT ![p] = g]
                 /\ g.provider = frame[p].provider /\ g.id = frame[p].id
                 /\ g.user = frame[p].user /\ g.plan = frame[p].plan /\ g.type = frame[p].type
                 /\ g.pc \in GrantPoints \cup {"failed"} => frame[p].pc \in GrantPoints
    BY FrameStepArguments DEF IInv
  <1>2. frame \in [Procs -> Frame]
    BY DEF IInv, SubInd, SubType
  <1> QED
    BY <1>1, <1>2, WalletFramesKept DEF WalletGrant

\* A grant that commits logs one event; a wallet's is of its own order, and the
\* index on the log has refused it if there was one before.
LEMMA CommitEvents ==
    ASSUME IInv, NEW p \in Procs, GrantCommit(p), UNCHANGED orders
    PROVE  WalletProvider' /\ GrantsMatchOrders'
  <1> DEFINE f == frame[p]
             i == GrantedRow(f)
             e == EventRow(i, f.type, f.provider, f.id)
             n == Len(events) + 1
  <1>1. SubInd /\ f.pc = "write" /\ events \in Seq(SubscriptionEvent)
    BY DEF IInv, SubInd, SubType, StoreType, GrantCommit
  <1>2. events' = Append(events, e) /\ subs' = Granted(f) /\ EventIdFree(f.provider, f.id)
    BY DEF GrantCommit, Accepted
  <1>3. /\ RowsKept(subs, subs')
        /\ i \in DOMAIN subs' /\ subs'[i].user = f.user /\ subs'[i].plan = f.plan
    BY <1>1, <1>2, GrantedTable
  <1>4. f.type = "wallet_payment" =>
          /\ f.provider = "wallet" /\ f.id \in DOMAIN orders
          /\ orders[f.id].user = f.user /\ orders[f.id].plan = f.plan
    BY <1>1 DEF IInv, WalletFramesFit, WalletFrameFits, WalletGrant, GrantPoints
  <1> HIDE DEF f
  <1>5. e.type = f.type /\ e.provider = f.provider /\ e.id = f.id /\ e.sub = i
    BY DEF EventRow
  <1> HIDE DEF i, e
  <1>6. \A k \in DOMAIN events' : \/ k = n /\ events'[k] = e
                                  \/ k \in DOMAIN events /\ events'[k] = events[k]
    BY <1>1, <1>2
  <1> HIDE DEF n
  <1>7. \A k \in WalletEvents' :
          \/ k = n /\ events'[k] = e /\ f.type = "wallet_payment"
          \/ k \in WalletEvents /\ events'[k] = events[k]
    BY <1>5, <1>6 DEF WalletEvents
  <1>8. WalletProvider'
    BY <1>4, <1>5, <1>7 DEF WalletProvider, IInv
  <1>9. \A k \in WalletEvents' :
            /\ events'[k].id \in DOMAIN orders'
            /\ events'[k].sub \in DOMAIN subs'
            /\ subs'[events'[k].sub].user = orders'[events'[k].id].user
            /\ subs'[events'[k].sub].plan = orders'[events'[k].id].plan
    <2> TAKE k \in WalletEvents'
    <2>1. CASE k = n /\ events'[k] = e /\ f.type = "wallet_payment"
      BY <1>3, <1>4, <1>5, <2>1
    <2>2. CASE k \in WalletEvents /\ events'[k] = events[k]
      BY <1>3, <2>2 DEF IInv, GrantsMatchOrders, RowsKept
    <2> QED
      BY <1>7, <2>1, <2>2
  <1>10. \A k1, k2 \in WalletEvents' : events'[k1].id = events'[k2].id => k1 = k2
    <2>1. f.type = "wallet_payment" => \A k \in WalletEvents : events[k].id # f.id
      <3>1. f.type = "wallet_payment" => f.id # None
        BY <1>4, StoreAssumption DEF IInv, TypeOK
      <3> QED
        BY <1>2, <1>4, <3>1 DEF EventIdFree, Seen, IInv, WalletProvider, WalletEvents
    <2> QED
      BY <1>5, <1>7, <2>1 DEF IInv, GrantsMatchOrders
  <1> QED
    BY <1>8, <1>9, <1>10 DEF GrantsMatchOrders

LEMMA FrameStepEvents ==
    ASSUME IInv, NEW p \in Procs, FrameStep(p), RowsKept(subs, subs'), UNCHANGED orders
    PROVE  WalletProvider' /\ GrantsMatchOrders'
  <1>1. OrdersKept(orders, orders')
    BY DEF OrdersKept
  <1> QED
    BY <1>1, CommitEvents, FrameStepLog, EventsKept DEF IInv

\* Steps of the service that no order is behind.
LEMMA ServiceStepInd == ASSUME IInv, ServiceStep PROVE IInv'
  <1>1. UNCHANGED <<orders, call, crashes>>
    BY DEF ServiceStep
  <1>2. call' \in [Procs -> CallRecord] /\ crashes' \in Nat /\ CallsFit' /\ SubInd
    BY <1>1 DEF IInv, TypeOK, CallsFit, CallFits
  <1>3. OrdersKept(orders, orders')
    BY <1>1 DEF OrdersKept
  <1>4. CASE \E p \in Procs : FrameStep(p)
    BY <1>1, <1>2, <1>4, FrameStepInd, FrameStepFrames, FrameStepEvents, ServiceInd
  <1>5. CASE \E p \in Procs : Request(p) \/ Return(p)
    <2>1. PICK p \in Procs : Request(p) \/ Return(p)
      BY <1>5
    <2>2. SubInd'
      BY <1>2, <2>1, SubNextInd DEF SubNext
    <2>3. UNCHANGED <<subs, events>>
      BY <2>1 DEF Request, AdminGrant, PaidGrant, CancelRead, Return, storeVars
    <2>4. WalletFramesFit'
      <3>1. frame \in [Procs -> Frame]
        BY <1>2 DEF SubInd, SubType
      <3>2. ~WalletGrant(frame'[p]) /\ \A q \in Procs \ {p} : frame'[q] = frame[q]
        <4>1. CASE \E u \in Users, plan \in Plans, days \in GrantDays : AdminGrant(p, u, plan, days)
          BY <3>1, <4>1 DEF AdminGrant, Call, WalletGrant
        <4>2. CASE \E u \in Users, plan \in Plans, id \in PaymentIds : PaidGrant(p, u, plan, id)
          BY <4>2, OrderAssumption
        <4>3. CASE \E u \in Users, immediately \in BOOLEAN : CancelRead(p, u, immediately)
          BY <3>1, <4>3 DEF CancelRead, NoCall, WalletGrant, GrantPoints
        <4>4. CASE Return(p)
          BY <3>1, <4>4 DEF Return, NoCall, WalletGrant, GrantPoints
        <4> QED
          BY <2>1, <4>1, <4>2, <4>3, <4>4 DEF Request
      <3> QED
        BY <1>1, <3>1, <3>2, WalletFramesKept
    <2>5. WalletProvider' /\ GrantsMatchOrders'
      BY <1>3, <2>3, EventsSame DEF RowsKept
    <2> QED
      BY <1>1, <1>2, <2>2, <2>4, <2>5, ServiceInd
  <1>6. CASE \E j \in Jobs : MaintenanceStep(j) \/ WorkerCrash(j)
    <2>1. PICK j \in Jobs : MaintenanceStep(j) \/ WorkerCrash(j)
      BY <1>6
    <2>2. SubInd' /\ RowsKept(subs, subs') /\ UNCHANGED frame
      BY <1>2, <2>1, MaintenanceInd
    <2>3. WalletProvider' /\ GrantsMatchOrders'
      BY <1>2, <1>3, <2>1, <2>2, MaintenanceLog, EventsKept
    <2>4. WalletFramesFit'
      BY <1>1, <2>2, WalletFramesKept
    <2> QED
      BY <1>1, <1>2, <2>2, <2>3, <2>4, ServiceInd
  <1>7. CASE Environment
    <2>1. SubInd' /\ UNCHANGED <<subs, frame>>
      BY <1>2, <1>7, EnvironmentInd
    <2>2. WalletProvider' /\ GrantsMatchOrders'
      BY <1>2, <1>3, <1>7, <2>1, EnvironmentLog, EventsKept DEF RowsKept
    <2>3. WalletFramesFit'
      BY <1>1, <2>1, WalletFramesKept
    <2> QED
      BY <1>1, <1>2, <2>1, <2>2, <2>3, ServiceInd
  <1> QED
    BY <1>4, <1>5, <1>6, <1>7 DEF ServiceStep

----
(* Steps of approve on the grant it has called *)

\* The grant that approve begins is of its order, of its user and plan.
LEMMA ApproveCurrentInd == ASSUME IInv, NEW p \in Procs, ApproveCurrent(p) PROVE IInv'
  <1> DEFINE o == call[p].order
             u == orders[o].user
             plan == orders[o].plan
  <1>1. o \in DOMAIN orders /\ SubInd /\ orders \in Seq(Order)
    BY DEF ApproveCurrent, IInv, TypeOK, CallsFit, CallFits, Approving
  <1>2. o \in Nat /\ u \in Users /\ plan \in Plans
    <2>1. o \in Nat /\ orders[o] \in Order
      BY <1>1
    <2> QED
      BY <2>1 DEF Order
  <1>3. Interval[plan] \in Nat
    BY <1>2, StoreAssumption
  <1>4. /\ CallPaid(p, u, plan, "wallet", "wallet_payment", o, Interval[plan])
        /\ Advance(p, "granting") /\ UNCHANGED <<storeVars, entVars, jobVars, orders, crashes>>
    BY DEF ApproveCurrent
  <1>5. call' \in [Procs -> CallRecord] /\ CallsFit'
    <2> DEFINE r == [call[p] EXCEPT !.pc = "granting"]
    <2>1. call' = [call EXCEPT ![p] = r] /\ r \in CallRecord /\ CallFits(r, orders)
      BY <1>4, AdvanceFits DEF ApproveCurrent, Advance, Approving
    <2> HIDE DEF r, o
    <2>2. \A q \in Procs : CallFits(call'[q], orders)
      BY <2>1 DEF IInv, TypeOK, CallsFit
    <2> QED
      BY <1>4, <2>1, <2>2 DEF IInv, TypeOK, CallsFit, CallFits
  <1> HIDE DEF o
  <1>6. SubInd'
    <2> HIDE DEF u, plan
    <2> QED
      BY <1>1, <1>2, <1>3, <1>4, CallPaidInd DEF Providers, PeriodGrants
  <1>7. WalletFramesFit'
    <2>1. frame \in [Procs -> Frame]
      BY <1>1 DEF SubInd, SubType
    <2> DEFINE g == frame'[p]
    <2>2. g.provider = "wallet" /\ g.id = o /\ g.user = u /\ g.plan = plan
      BY <1>4, <2>1 DEF CallPaid, Call
    <2>3. \A q \in Procs \ {p} : frame'[q] = frame[q]
      BY <1>4, <2>1 DEF CallPaid, Call
    <2>4. WalletFrameFits(frame'[p], orders)
      BY <1>1, <2>2 DEF WalletFrameFits
    <2>5. \A q \in Procs : WalletFrameFits(frame'[q], orders)
      BY <2>3, <2>4 DEF IInv, WalletFramesFit
    <2> QED
      BY <1>4, <2>5 DEF WalletFramesFit, WalletFrameFits, WalletGrant
  <1>8. WalletProvider' /\ GrantsMatchOrders'
    BY <1>4, EventsSame DEF RowsKept, OrdersKept, storeVars
  <1> QED
    BY <1>4, <1>5, <1>6, <1>7, <1>8, ServiceInd DEF IInv, TypeOK

\* The grant has come to its end: its frame goes.
LEMMA ApproveEndInd ==
    ASSUME IInv, NEW p \in Procs, ApproveGranted(p) \/ ApproveThrew(p)
    PROVE  IInv'
  <1>1. /\ frame' = [frame EXCEPT ![p] = NoCall] /\ frame[p].pc \in {"ok", "failed"}
        /\ UNCHANGED <<storeVars, entVars, jobVars, orders, crashes>>
    BY DEF ApproveGranted, ApproveThrew
  <1>2. SubInd'
    BY <1>1, ReturnInd DEF Return, IInv
  <1>3. PICK r \in CallRecord : call' = [call EXCEPT ![p] = r] /\ CallFits(r, orders)
    <2>1. CASE ApproveGranted(p)
      BY <2>1, NoRequestFits DEF ApproveGranted, Finish
    <2>2. CASE ApproveThrew(p)
      BY <2>2, AdvanceFits DEF ApproveThrew, Advance, Approving
    <2> QED
      BY <2>1, <2>2
  <1>4. call' \in [Procs -> CallRecord] /\ CallsFit'
    <2>1. \A q \in Procs : CallFits(call'[q], orders)
      BY <1>3 DEF IInv, TypeOK, CallsFit
    <2> QED
      BY <1>1, <1>3, <2>1 DEF IInv, TypeOK, CallsFit, CallFits
  <1>5. WalletFramesFit'
    <2>1. ~WalletGrant(NoCall)
      BY DEF NoCall, WalletGrant, GrantPoints
    <2>2. frame \in [Procs -> Frame]
      BY DEF IInv, SubInd, SubType
    <2> QED
      BY <1>1, <2>1, <2>2, WalletFramesKept
  <1>6. WalletProvider' /\ GrantsMatchOrders'
    BY <1>1, EventsSame DEF RowsKept, OrdersKept, storeVars
  <1> QED
    BY <1>1, <1>2, <1>4, <1>5, <1>6, ServiceInd DEF IInv, TypeOK

LEMMA ApiCrashInd == ASSUME IInv, ApiCrash PROVE IInv'
  <1>1. /\ call' = [p \in Procs |-> NoRequest] /\ frame' = [p \in Procs |-> NoCall]
        /\ view' = [v \in Viewers |-> Idle] /\ crashes' = crashes + 1
        /\ UNCHANGED <<storeVars, cache, jobVars, orders>>
    BY DEF ApiCrash
  <1>2. ~WalletGrant(NoCall)
    BY DEF NoCall, GrantPoints, WalletGrant
  <1>3. SubInd'
    BY <1>1, CallsLost DEF IInv
  <1>4. call' \in [Procs -> CallRecord] /\ CallsFit'
    <2>1. call' \in [Procs -> CallRecord] /\ \A p \in Procs : CallFits(call'[p], orders')
      BY <1>1, NoRequestFits
    <2> QED
      BY <2>1 DEF CallsFit, CallFits
  <1>5. WalletFramesFit'
    BY <1>1, <1>2, WalletFramesKept
  <1>6. WalletProvider' /\ GrantsMatchOrders'
    BY <1>1, EventsSame DEF RowsKept, OrdersKept, storeVars
  <1>7. crashes' \in Nat
    BY <1>1 DEF IInv, TypeOK
  <1> QED
    BY <1>1, <1>3, <1>4, <1>5, <1>6, <1>7, ServiceInd
----
(* The theorems *)

\* The invariant holds initially: nothing is in progress and nothing is logged.
LEMMA InitInv == Init => IInv
  <1> SUFFICES ASSUME Init PROVE IInv
    OBVIOUS
  <1>1. SubInd
    BY SubInitInd DEF Init
  <1>2. /\ orders = <<>> /\ events = <<>> /\ crashes = 0
        /\ call = [p \in Procs |-> NoRequest] /\ frame = [p \in Procs |-> NoCall]
    BY DEF Init, SubInit, StoreInit
  <1>3. TypeOK
    <2>1. orders \in Seq(Order)
      BY <1>2
    <2> QED
      BY <1>1, <1>2, <2>1, NoRequestFits DEF TypeOK, SubInd
  <1>4. CallsFit
    BY <1>2, NoRequestFits DEF CallsFit
  <1>5. WalletFramesFit
    BY <1>2 DEF WalletFramesFit, WalletFrameFits, WalletGrant, NoCall, GrantPoints
  <1>6. SubmittedHasReference
    BY <1>2 DEF SubmittedHasReference
  <1>7. WalletEvents = {}
    BY <1>2 DEF WalletEvents
  <1> QED
    BY <1>1, <1>3, <1>4, <1>5, <1>6, <1>7 DEF IInv, WalletProvider, GrantsMatchOrders

\* Every step preserves the invariant, one action at a time.
LEMMA NextInv == IInv /\ [Next]_vars => IInv'
  <1> SUFFICES ASSUME IInv, [Next]_vars PROVE IInv'
    OBVIOUS
  <1>1. CASE \E p \in Procs : CustomerRequest(p)
    BY <1>1, StartOrderInd, SubmitReadInd, CancelOrderReadInd DEF CustomerRequest
  <1>2. CASE \E p \in Procs : CallStep(p)
    <2>1. PICK p \in Procs : CallStep(p)
      BY <1>2
    <2>2. CASE ReplaceOpen(p) \/ CreateOrder(p) \/ CreateRefused(p) \/ LookAgain(p)
      BY <2>2, ReplaceOpenInd, CreateOrderInd, CreateRefusedInd, LookAgainInd
    <2>3. CASE SubmitWrite(p) \/ CancelOrderWrite(p)
      BY <2>3, SubmitWriteInd, CancelOrderWriteInd
    <2>4. CASE ApproveClaim(p) \/ ApproveCurrent(p) \/ ApproveGranted(p) \/ ApproveThrew(p) \/ ApproveRestore(p)
      BY <2>4, ApproveClaimInd, ApproveCurrentInd, ApproveEndInd, ApproveRestoreInd
    <2> QED
      BY <2>1, <2>2, <2>3, <2>4 DEF CallStep
  <1>3. CASE \E p \in Procs, o \in DOMAIN orders : ApproveRead(p, o)
    BY <1>3, ApproveReadInd
  <1>4. CASE \E o \in DOMAIN orders : Reject(o)
    BY <1>4, RejectInd
  <1>5. CASE ApiCrash
    BY <1>5, ApiCrashInd
  <1>6. CASE ServiceStep
    BY <1>6, ServiceStepInd
  <1>7. CASE UNCHANGED vars
    <2>1. SubInd'
      BY <1>7, SubNextInd DEF IInv, vars
    <2>2. WalletFramesFit'
      BY <1>7, WalletFramesKept DEF vars, subVars
    <2>3. WalletProvider' /\ GrantsMatchOrders'
      BY <1>7, EventsSame DEF vars, subVars, storeVars, RowsKept, OrdersKept
    <2>4. CallsFit'
      BY <1>7 DEF vars, IInv, CallsFit, CallFits
    <2> QED
      BY <1>7, <2>1, <2>2, <2>3, <2>4, ServiceInd DEF vars, IInv, TypeOK
  <1> QED
    BY <1>1, <1>2, <1>3, <1>4, <1>5, <1>6, <1>7 DEF Next

\* The invariant holds of every behaviour of the service.
THEOREM SpecIInv == Spec => []IInv
  BY InitInv, NextInv, PTL DEF Spec

\* Type correctness of the orders, the calls and everything underneath.
THEOREM TypeCorrect == Spec => []TypeOK
  BY SpecIInv, PTL DEF IInv

\* "puts the payment back when granting fails": whatever races an approval that
\* failed, the order it puts back as submitted has the transfer reference the
\* owner needs to find the payment.
THEOREM SubmittedOrdersHaveReferences == Spec => []SubmittedHasReference
  BY SpecIInv, PTL DEF IInv

\* "Claim it first, so two clicks (or two admins) cannot grant twice": for any
\* number of admins, customers, crashes and retries, every wallet grant in the
\* log is of one order, to its user and of its plan, and no order has two.
THEOREM WalletGrantsMatchOrders == Spec => []GrantsMatchOrders
  BY SpecIInv, PTL DEF IInv

----
(* What a set of orders comes to *)

\* PaidDays, of a table and a set of its orders.
Total(price, table, S) == MapThenSumSet(LAMBDA o : price[table[o].plan], S)

\* The sum of MapThenSumSet is a function of the subsets of S; what it says of
\* one of them it says of the first element and of the rest.
AnyOf(T) == CHOOSE o \in T : TRUE
Sums(price, table, S, g) ==
    g = [T \in SUBSET S |-> IF T = {} THEN 0 ELSE price[table[AnyOf(T)].plan] + g[T \ {AnyOf(T)}]]

\* Among sets of subsets of a finite set one is smallest.
LEMMA SmallestSet ==
    ASSUME NEW S, IsFiniteSet(S), NEW B \in SUBSET SUBSET S, B # {}
    PROVE  \E T \in B : \A U \in B : U \subseteq T => U = T
  <1> DEFINE sizes == {Cardinality(T) : T \in B}
  <1>1. \A T \in B : IsFiniteSet(T) /\ Cardinality(T) \in Nat
    BY FS_Subset, FS_CardinalityType
  <1>2. sizes \in SUBSET Nat /\ sizes # {}
    BY <1>1
  <1> HIDE DEF sizes
  <1>3. PICK n \in sizes : \A m \in sizes : ~(<<m, n>> \in OpToRel(<, Nat))
    BY <1>2, NatLessThanWellFounded, WFMin, Zenon
  <1>4. \A m \in sizes : ~(m < n)
    BY <1>2, <1>3 DEF OpToRel
  <1>5. PICK T \in B : Cardinality(T) = n
    BY <1>3 DEF sizes
  <1>6. ASSUME NEW U \in B, U \subseteq T, U # T PROVE FALSE
    <2>1. Cardinality(U) < Cardinality(T)
      BY <1>1, <1>6, FS_Subset
    <2> QED
      BY <1>4, <1>5, <2>1 DEF sizes
  <1> QED
    BY <1>5, <1>6

LEMMA AnyOfIn == ASSUME NEW T, T # {} PROVE AnyOf(T) \in T
  BY DEF AnyOf

\* Two such functions agree where both are defined and the orders have the same plans.
LEMMA SumsAgree ==
    ASSUME NEW price, NEW before, NEW after, NEW S, NEW T \in SUBSET S, IsFiniteSet(T),
           \A o \in T : before[o].plan = after[o].plan,
           NEW g, Sums(price, before, S, g), NEW h, Sums(price, after, T, h)
    PROVE  \A U \in SUBSET T : g[U] = h[U]
  <1> DEFINE B == {U \in SUBSET T : g[U] # h[U]}
  <1> SUFFICES ASSUME B # {} PROVE FALSE
    OBVIOUS
  <1>1. PICK U \in B : \A V \in B : V \subseteq U => V = U
    <2>1. B \in SUBSET SUBSET T
      OBVIOUS
    <2> HIDE DEF B
    <2> QED
      BY <2>1, SmallestSet
  <1>2. g[U] = IF U = {} THEN 0 ELSE price[before[AnyOf(U)].plan] + g[U \ {AnyOf(U)}]
    BY DEF Sums
  <1>3. h[U] = IF U = {} THEN 0 ELSE price[after[AnyOf(U)].plan] + h[U \ {AnyOf(U)}]
    BY DEF Sums
  <1>4. U # {}
    BY <1>2, <1>3
  <1>5. AnyOf(U) \in U
    BY <1>4, AnyOfIn
  <1>6. U \ {AnyOf(U)} \in SUBSET T /\ U \ {AnyOf(U)} \notin B
    BY <1>1, <1>5
  <1> QED
    BY <1>2, <1>3, <1>4, <1>5, <1>6

\* There is one for every finite set: a smallest set without one would have
\* one put together from those of the sets below it.
LEMMA SumsExist ==
    ASSUME NEW price, NEW table, NEW S, IsFiniteSet(S)
    PROVE  \E g : Sums(price, table, S, g)
  <1> DEFINE B == {T \in SUBSET S : ~\E g : Sums(price, table, T, g)}
  <1> SUFFICES ASSUME S \in B PROVE FALSE
    OBVIOUS
  <1>1. PICK T \in B : \A U \in B : U \subseteq T => U = T
    <2>1. B \in SUBSET SUBSET S
      OBVIOUS
    <2> HIDE DEF B
    <2> QED
      BY <2>1, SmallestSet
  <1> DEFINE Below(U) == CHOOSE g : Sums(price, table, U, g)
             Rest(U) == U \ {AnyOf(U)}
             Least(U) == IF U = {} THEN 0 ELSE price[table[AnyOf(U)].plan] + Below(Rest(U))[Rest(U)]
             g == [U \in SUBSET T |-> Least(U)]
  <1>2. \A U \in SUBSET T : U # T => Sums(price, table, U, Below(U))
    BY <1>1
  <1>3. \A U \in SUBSET T : U # {} => Rest(U) \in SUBSET T /\ Rest(U) # T /\ Rest(U) # U
    BY AnyOfIn
  <1>4. ASSUME NEW U \in SUBSET T, U # T PROVE Below(U)[U] = Least(U)
    <2>1. Sums(price, table, U, Below(U))
      BY <1>2, <1>4
    <2>2. Below(U)[U] = IF U = {} THEN 0 ELSE price[table[AnyOf(U)].plan] + Below(U)[Rest(U)]
      <3> HIDE DEF Below
      <3> QED
        BY <2>1 DEF Sums
    <2>3. CASE U = {}
      BY <2>2, <2>3
    <2>4. CASE U # {}
      <3>1. Rest(U) \in SUBSET U /\ Rest(U) \in SUBSET T /\ Rest(U) # T
        BY <1>3, <2>4
      <3>2. IsFiniteSet(Rest(U))
        BY <3>1, FS_Subset
      <3>3. Sums(price, table, Rest(U), Below(Rest(U)))
        BY <1>2, <3>1
      <3>4. Below(U)[Rest(U)] = Below(Rest(U))[Rest(U)]
        <4> HIDE DEF Below, Rest
        <4> QED
          BY <2>1, <3>1, <3>2, <3>3, SumsAgree
      <3> QED
        BY <2>2, <2>4, <3>4
    <2> QED
      BY <2>3, <2>4
  <1>5. \A U \in SUBSET T : g[U] = IF U = {} THEN 0 ELSE price[table[AnyOf(U)].plan] + g[Rest(U)]
    <2> TAKE U \in SUBSET T
    <2>1. g[U] = Least(U)
      OBVIOUS
    <2>2. U # {} => g[Rest(U)] = Below(Rest(U))[Rest(U)]
      <3>1. U # {} => Rest(U) \in SUBSET T /\ Rest(U) # T
        BY <1>3
      <3>2. U # {} => g[Rest(U)] = Least(Rest(U))
        BY <3>1
      <3> HIDE DEF Below, Rest, Least, g
      <3> QED
        BY <1>4, <3>1, <3>2
    <2> HIDE DEF Below, Rest, g
    <2> QED
      BY <2>1, <2>2
  <1>6. g = [U \in SUBSET T |-> g[U]]
    OBVIOUS
  <1> HIDE DEF g
  <1>7. Sums(price, table, T, g)
    BY <1>5, <1>6 DEF Sums
  <1> QED
    BY <1>1, <1>7

\* Total unfolds as its definition says.
LEMMA TotalOf ==
    ASSUME NEW price, NEW table, NEW S, IsFiniteSet(S)
    PROVE  /\ S = {} => Total(price, table, S) = 0
           /\ S # {} => Total(price, table, S) = price[table[AnyOf(S)].plan] + Total(price, table, S \ {AnyOf(S)})
  <1> DEFINE g == CHOOSE h : Sums(price, table, S, h)
             T == S \ {AnyOf(S)}
             k == CHOOSE h : Sums(price, table, T, h)
  <1>1. Total(price, table, S) = g[S] /\ Total(price, table, T) = k[T]
    BY DEF Total, MapThenSumSet, MapThenFoldSet, Sums, AnyOf
  <1>2. T \in SUBSET S /\ IsFiniteSet(T)
    BY FS_Subset
  <1>3. Sums(price, table, S, g)
    BY SumsExist
  <1>4. Sums(price, table, T, k)
    BY <1>2, SumsExist
  <1>0. T \in SUBSET T
    OBVIOUS
  <1> HIDE DEF g, k
  <1>5. g[S] = IF S = {} THEN 0 ELSE price[table[AnyOf(S)].plan] + g[T]
    BY <1>3 DEF Sums
  <1>6. g[T] = k[T]
    <2> HIDE DEF T
    <2> QED
      BY <1>0, <1>2, <1>3, <1>4, SumsAgree
  <1> QED
    BY <1>1, <1>5, <1>6

LEMMA TotalSame ==
    ASSUME NEW price, NEW before, NEW after, NEW S, IsFiniteSet(S), \A o \in S : before[o].plan = after[o].plan
    PROVE  Total(price, before, S) = Total(price, after, S)
  <1> DEFINE g == CHOOSE h : Sums(price, before, S, h)
             k == CHOOSE h : Sums(price, after, S, h)
  <1>1. Total(price, before, S) = g[S] /\ Total(price, after, S) = k[S]
    BY DEF Total, MapThenSumSet, MapThenFoldSet, Sums, AnyOf
  <1>2. Sums(price, before, S, g) /\ Sums(price, after, S, k)
    BY SumsExist
  <1> HIDE DEF g, k
  <1> QED
    BY <1>1, <1>2, SumsAgree

LEMMA TakenInTurn ==
    ASSUME NEW a \in Nat, NEW b \in Nat, NEW x \in Nat, NEW q, NEW r, NEW t, t = a + r, r = b + x, q = a + x
    PROVE  t = b + q
  OBVIOUS

\* The order in which the orders are added up does not matter.
LEMMA TotalFits ==
    ASSUME NEW price, NEW table, NEW S, IsFiniteSet(S), \A o \in S : price[table[o].plan] \in Nat
    PROVE  /\ Total(price, table, S) \in Nat
           /\ \A o \in S : Total(price, table, S) = price[table[o].plan] + Total(price, table, S \ {o})
  <1> DEFINE Fits(T) == /\ Total(price, table, T) \in Nat
                        /\ \A o \in T : Total(price, table, T) = price[table[o].plan] + Total(price, table, T \ {o})
             B == {T \in SUBSET S : ~Fits(T)}
  <1> SUFFICES ASSUME S \in B PROVE FALSE
    OBVIOUS
  <1>1. PICK T \in B : \A U \in B : U \subseteq T => U = T
    <2>1. B \in SUBSET SUBSET S
      OBVIOUS
    <2> HIDE DEF B
    <2> QED
      BY <2>1, SmallestSet
  <1>2. \A U \in SUBSET T : U # T => Fits(U)
    BY <1>1
  <1>3. IsFiniteSet(T) /\ T \subseteq S
    BY <1>1, FS_Subset
  <1>4. T # {}
    <2>1. T = {} => Total(price, table, T) = 0
      BY <1>3, TotalOf
    <2>2. ASSUME T = {} PROVE Fits(T)
      BY <2>1, <2>2
    <2> QED
      BY <1>1, <2>2
  <1> DEFINE c == AnyOf(T)
             R == T \ {c}
  <1>5. c \in T /\ Total(price, table, T) = price[table[c].plan] + Total(price, table, R)
    BY <1>3, <1>4, AnyOfIn, TotalOf
  <1> HIDE DEF c
  <1>6. Total(price, table, R) \in Nat /\ price[table[c].plan] \in Nat
    BY <1>2, <1>3, <1>5
  <1>7. Total(price, table, T) \in Nat
    BY <1>5, <1>6
  <1>8. ASSUME NEW o \in T PROVE Total(price, table, T) = price[table[o].plan] + Total(price, table, T \ {o})
    <2>1. CASE o = c
      BY <1>5, <2>1
    <2>2. CASE o # c
      <3> DEFINE Q == T \ {o}
                 both == T \ {o, c}
      <3>1. R \ {o} = both /\ Q \ {c} = both /\ o \in R /\ c \in Q /\ Q # T /\ R # T
        BY <1>5, <2>2
      <3>2. Total(price, table, R) = price[table[o].plan] + Total(price, table, R \ {o})
        BY <1>2, <3>1
      <3>3. Total(price, table, Q) = price[table[c].plan] + Total(price, table, Q \ {c})
        BY <1>2, <3>1
      <3>4. Total(price, table, both) \in Nat /\ price[table[o].plan] \in Nat
        BY <1>2, <1>3, <3>1
      <3> DEFINE first == price[table[c].plan]
                 other == price[table[o].plan]
                 rest == Total(price, table, both)
      <3>5. Total(price, table, R) = other + rest /\ Total(price, table, Q) = first + rest
        BY <3>1, <3>2, <3>3
      <3>6. first \in Nat /\ other \in Nat /\ rest \in Nat /\ Total(price, table, T) = first + Total(price, table, R)
        BY <1>5, <1>6, <3>4
      <3> HIDE DEF first, other, rest
      <3>7. Total(price, table, T) = other + Total(price, table, Q)
        BY <3>5, <3>6, TakenInTurn
      <3> QED
        BY <3>7 DEF other
    <2> QED
      BY <2>1, <2>2
  <1> QED
    BY <1>1, <1>7, <1>8

\* More orders do not come to less.
LEMMA TotalGrows ==
    ASSUME NEW price, NEW table, NEW S, IsFiniteSet(S), \A o \in S : price[table[o].plan] \in Nat,
           NEW T \in SUBSET S
    PROVE  Total(price, table, T) <= Total(price, table, S)
  <1> DEFINE B == {U \in SUBSET S : T \subseteq U /\ ~(Total(price, table, T) <= Total(price, table, U))}
  <1> SUFFICES ASSUME S \in B PROVE FALSE
    OBVIOUS
  <1>1. PICK U \in B : \A V \in B : V \subseteq U => V = U
    <2>1. B \in SUBSET SUBSET S
      OBVIOUS
    <2> HIDE DEF B
    <2> QED
      BY <2>1, SmallestSet
  <1>2. /\ IsFiniteSet(U) /\ IsFiniteSet(T) /\ U \subseteq S
        /\ \A o \in U : price[table[o].plan] \in Nat
    BY FS_Subset
  <1>3. Total(price, table, T) \in Nat /\ Total(price, table, U) \in Nat
    BY <1>2, TotalFits
  <1>4. U # T
    BY <1>3
  <1>5. PICK o \in U : o \notin T
    BY <1>4
  <1>6. U \ {o} \in SUBSET S /\ T \subseteq U \ {o} /\ U \ {o} # U /\ IsFiniteSet(U \ {o})
    BY <1>2, <1>5, FS_Subset
  <1>7. Total(price, table, T) <= Total(price, table, U \ {o})
    BY <1>1, <1>6
  <1>8. Total(price, table, U \ {o}) \in Nat /\ price[table[o].plan] \in Nat
    BY <1>2, <1>6, TotalFits
  <1>9. Total(price, table, U) = price[table[o].plan] + Total(price, table, U \ {o})
    BY <1>2, TotalFits
  <1> QED
    BY <1>3, <1>7, <1>8, <1>9

LEMMA TotalGrowsBy ==
    ASSUME NEW price, NEW table, NEW S, IsFiniteSet(S), \A q \in S : price[table[q].plan] \in Nat,
           NEW T \in SUBSET S, NEW o \in S, o \notin T
    PROVE  Total(price, table, T) + price[table[o].plan] <= Total(price, table, S)
  <1> DEFINE R == S \ {o}
  <1>1. Total(price, table, S) = price[table[o].plan] + Total(price, table, R)
    <2>1. /\ Total(price, table, S) \in Nat
          /\ \A q \in S : Total(price, table, S) = price[table[q].plan] + Total(price, table, S \ {q})
      BY TotalFits
    <2> QED
      BY <2>1
  <1>2. T \in SUBSET R /\ IsFiniteSet(R) /\ \A q \in R : price[table[q].plan] \in Nat
    BY FS_Subset
  <1>3. IsFiniteSet(T) /\ \A q \in T : price[table[q].plan] \in Nat
    BY FS_Subset
  <1> HIDE DEF R
  <1>4. Total(price, table, T) <= Total(price, table, R)
    BY <1>2, TotalGrows
  <1>5. Total(price, table, T) \in Nat /\ Total(price, table, R) \in Nat /\ price[table[o].plan] \in Nat
    BY <1>2, <1>3, TotalFits
  <1> QED
    BY <1>1, <1>4, <1>5

----
(* Paid time *)

\* PaidOut and PaidDays, of a table and a log.
PaidIn(table, log, u) ==
    {o \in DOMAIN table :
        table[o].user = u /\ \E e \in {k \in DOMAIN log : log[k].type = "wallet_payment"} : log[e].id = o}

PaidFor(table, log, u) == Total(Interval, table, PaidIn(table, log, u))

\* PaidTimeIsPaidFor, of the tables on a date.
RowsPaidFor(rows, table, log, date) ==
    \A i \in DOMAIN rows : rows[i].end # None => rows[i].end <= date + PaidFor(table, log, rows[i].user)

\* The only grants are those of wallet payments, and a grant in progress ends
\* at most a period later than the user has paid for without it.
GrantPaidFor(f, table, log, date) ==
    f.pc \in GrantPoints =>
        /\ f.type = "wallet_payment"
        /\ f.end \in Nat
        /\ f.end <= date + PaidFor(table, log, f.user) + Interval[f.plan]

GrantsPaidFor(frames, table, log, date) == \A p \in Procs : GrantPaidFor(frames[p], table, log, date)

PaidInd ==
    /\ IInv
    /\ RowsPaidFor(subs, orders, events, now)
    /\ GrantsPaidFor(frame, orders, events, now)

\* No order is lost or changes its user or its plan.
PlansKept(before, after) ==
    /\ DOMAIN before \subseteq DOMAIN after
    /\ \A o \in DOMAIN before : after[o].user = before[o].user /\ after[o].plan = before[o].plan

\* No row comes or changes its user or the end of its period.
EndsKept(before, after) ==
    /\ DOMAIN after = DOMAIN before
    /\ \A i \in DOMAIN before : after[i].user = before[i].user /\ after[i].end = before[i].end

LogKept(before, after) == \A e \in DOMAIN before : e \in DOMAIN after /\ after[e] = before[e]

\* Orders come to a number of days.
LEMMA TotalOfOrders ==
    ASSUME NEW table \in Seq(Order), NEW S \in SUBSET DOMAIN table
    PROVE  /\ IsFiniteSet(S)
           /\ \A o \in S : Interval[table[o].plan] \in Nat
           /\ Total(Interval, table, S) \in Nat
  <1>1. IsFiniteSet(DOMAIN table)
    <2>1. DOMAIN table = 1..Len(table) /\ Len(table) \in Nat
      OBVIOUS
    <2> QED
      BY <2>1, FS_Interval
  <1>2. IsFiniteSet(S)
    BY <1>1, FS_Subset
  <1>3. ASSUME NEW o \in S PROVE Interval[table[o].plan] \in Nat
    <2>1. table[o] \in Order
      OBVIOUS
    <2> QED
      BY <2>1, StoreAssumption DEF Order
  <1> QED
    BY <1>2, <1>3, TotalFits

\* What a user has paid for only grows while orders and log only grow, and by
\* its period when an order is paid out.
LEMMA PaidForGrows ==
    ASSUME NEW before \in Seq(Order), NEW after \in Seq(Order), PlansKept(before, after),
           NEW log, NEW longer, LogKept(log, longer), NEW u
    PROVE  /\ PaidFor(before, log, u) \in Nat /\ PaidFor(after, longer, u) \in Nat
           /\ PaidFor(before, log, u) <= PaidFor(after, longer, u)
           /\ \A o \in DOMAIN before : o \notin PaidIn(before, log, u) /\ o \in PaidIn(after, longer, u)
                 => PaidFor(before, log, u) + Interval[before[o].plan] <= PaidFor(after, longer, u)
  <1> DEFINE S == PaidIn(before, log, u)
             T == PaidIn(after, longer, u)
  <1>1. S \subseteq DOMAIN before /\ T \subseteq DOMAIN after
    BY DEF PaidIn
  <1>2. S \subseteq T
    BY DEF PaidIn, PlansKept, LogKept
  <1>3. PaidFor(before, log, u) = Total(Interval, before, S) /\ PaidFor(after, longer, u) = Total(Interval, after, T)
    BY DEF PaidFor
  <1> HIDE DEF S, T
  <1>4. \A o \in DOMAIN before : o \in DOMAIN after /\ after[o].plan = before[o].plan
    BY DEF PlansKept
  <1>5. /\ IsFiniteSet(S) /\ IsFiniteSet(T)
        /\ Total(Interval, before, S) \in Nat /\ Total(Interval, after, T) \in Nat
        /\ \A o \in T : Interval[after[o].plan] \in Nat
    BY <1>1, TotalOfOrders
  <1>6. Total(Interval, before, S) = Total(Interval, after, S)
    <2>1. \A o \in S : before[o].plan = after[o].plan
      BY <1>1, <1>4
    <2> QED
      BY <1>5, <2>1, TotalSame
  <1>7. Total(Interval, after, S) <= Total(Interval, after, T)
    BY <1>2, <1>5, TotalGrows
  <1>8. ASSUME NEW o \in DOMAIN before, o \in T, o \notin S
        PROVE  Total(Interval, before, S) + Interval[before[o].plan] <= Total(Interval, after, T)
    <2>1. Total(Interval, after, S) + Interval[after[o].plan] <= Total(Interval, after, T)
      BY <1>2, <1>5, <1>8, TotalGrowsBy
    <2> QED
      BY <1>4, <1>6, <2>1
  <1> QED
    BY <1>3, <1>5, <1>6, <1>7, <1>8 DEF S, T

\* A step that grants nothing and lets time pass: what was paid for still is.
LEMMA PaidForKept ==
    ASSUME PaidInd, IInv', PlansKept(orders, orders'), EndsKept(subs, subs'), LogKept(events, events'), now' >= now,
           \A q \in Procs : frame'[q].pc \in GrantPoints =>
               /\ frame[q].pc \in GrantPoints
               /\ frame'[q].type = frame[q].type /\ frame'[q].end = frame[q].end
               /\ frame'[q].user = frame[q].user /\ frame'[q].plan = frame[q].plan
    PROVE  PaidInd'
  <1> DEFINE Before(u) == PaidFor(orders, events, u)
             After(u) == PaidFor(orders', events', u)
  <1>1. \A u : Before(u) \in Nat /\ After(u) \in Nat /\ Before(u) <= After(u)
    <2>1. orders \in Seq(Order) /\ orders' \in Seq(Order)
      BY DEF PaidInd, IInv, TypeOK
    <2> QED
      BY <2>1, PaidForGrows
  <1>2. now \in Nat /\ now' \in Nat /\ subs \in Seq(Subscription)
    BY DEF PaidInd, IInv, SubInd, SubType, StoreType
  <1>3. ASSUME NEW i \in DOMAIN subs', subs'[i].end # None
        PROVE  subs'[i].end <= now' + After(subs'[i].user)
    <2>1. i \in DOMAIN subs /\ subs'[i].user = subs[i].user /\ subs'[i].end = subs[i].end
      BY <1>3 DEF EndsKept
    <2>2. subs[i].end <= now + Before(subs[i].user)
      BY <1>3, <2>1 DEF PaidInd, RowsPaidFor
    <2>3. subs[i].end \in Nat
      <3>1. subs[i] \in Subscription
        BY <1>2, <2>1
      <3> QED
        BY <1>3, <2>1, <3>1 DEF Subscription
    <2> HIDE DEF Before, After
    <2>4. Before(subs[i].user) \in Nat /\ After(subs[i].user) \in Nat /\ Before(subs[i].user) <= After(subs[i].user)
      BY <1>1
    <2> QED
      BY <1>2, <2>1, <2>2, <2>3, <2>4
  <1>4. ASSUME NEW q \in Procs PROVE GrantPaidFor(frame'[q], orders', events', now')
    <2> SUFFICES ASSUME frame'[q].pc \in GrantPoints
                 PROVE  /\ frame'[q].type = "wallet_payment" /\ frame'[q].end \in Nat
                        /\ frame'[q].end <= now' + After(frame'[q].user) + Interval[frame'[q].plan]
      BY DEF GrantPaidFor
    <2>1. /\ frame[q].pc \in GrantPoints
          /\ frame'[q].type = frame[q].type /\ frame'[q].end = frame[q].end
          /\ frame'[q].user = frame[q].user /\ frame'[q].plan = frame[q].plan
      OBVIOUS
    <2>2. /\ frame[q].type = "wallet_payment" /\ frame[q].end \in Nat
          /\ frame[q].end <= now + Before(frame[q].user) + Interval[frame[q].plan]
      BY <2>1 DEF PaidInd, GrantsPaidFor, GrantPaidFor
    <2>3. Interval[frame[q].plan] \in Nat
      <3>1. frame[q].plan \in Plans
        BY <2>1 DEF PaidInd, IInv, SubInd, FramesFit, FrameFits
      <3> QED
        BY <3>1, StoreAssumption
    <2> HIDE DEF Before, After
    <2>4. Before(frame[q].user) \in Nat /\ After(frame[q].user) \in Nat
          /\ Before(frame[q].user) <= After(frame[q].user)
      BY <1>1
    <2> QED
      BY <1>2, <2>1, <2>2, <2>3, <2>4
  <1>5. RowsPaidFor(subs', orders', events', now')
    BY <1>3 DEF RowsPaidFor
  <1>6. GrantsPaidFor(frame', orders', events', now')
    BY <1>4 DEF GrantsPaidFor
  <1> QED
    BY <1>5, <1>6 DEF PaidInd

\* What a grant's transaction leaves of the ends of the periods.
LEMMA GrantedEnds ==
    ASSUME SubInd, NEW p \in Procs, frame[p].pc = "write"
    PROVE  \A j \in DOMAIN Granted(frame[p]) :
              \/ Granted(frame[p])[j].user = frame[p].user /\ Granted(frame[p])[j].end = frame[p].end
              \/ /\ j \in DOMAIN subs /\ Granted(frame[p])[j].user = subs[j].user
                 /\ Granted(frame[p])[j].end = subs[j].end
  <1> DEFINE f == frame[p]
  <1>1. FrameFits(f, subs) /\ f.pc = "write" /\ subs \in Seq(Subscription)
    BY DEF SubInd, SubType, StoreType, FramesFit
  <1> HIDE DEF f
  <1>2. CASE f.renews
    <2> DEFINE row == subs[f.row]
               new == RenewedRow(f)
    <2>1. f.row \in DOMAIN subs /\ row \in Subscription /\ row.user = f.user
      BY <1>1, <1>2 DEF FrameFits
    <2>2. new = [row EXCEPT !.status = f.status, !.end = f.end, !.atEnd = f.atEnd,
                            !.psid = f.psid, !.reminded = FALSE]
      BY DEF RenewedRow
    <2>3. Granted(f) = [subs EXCEPT ![f.row] = new]
      BY <1>2 DEF Granted
    <2> HIDE DEF row, new
    <2>4. new.user = f.user /\ new.end = f.end
      BY <2>1, <2>2 DEF Subscription
    <2> QED
      BY <2>3, <2>4 DEF f
  <1>3. CASE ~f.renews
    <2> DEFINE old == subs[f.row]
               ended == [old EXCEPT !.status = "CANCELED"]
               retired == IF f.row = 0 THEN subs ELSE [subs EXCEPT ![f.row] = ended]
               new == CreatedRow(f)
    <2>1. Granted(f) = Append(retired, new)
      BY <1>3 DEF Granted
    <2>2. new.user = f.user /\ new.end = f.end
      BY DEF CreatedRow
    <2>3. f.row \in DOMAIN subs => ended \in Subscription /\ ended.user = old.user /\ ended.end = old.end
      <3>1. f.row \in DOMAIN subs => old \in Subscription
        BY <1>1
      <3> HIDE DEF old
      <3> QED
        BY <3>1 DEF Subscription, SubscriptionStatus
    <2>4. /\ retired \in Seq(Subscription) /\ DOMAIN retired = DOMAIN subs
          /\ \A j \in DOMAIN subs : retired[j].user = subs[j].user /\ retired[j].end = subs[j].end
      <3>1. CASE f.row = 0
        BY <1>1, <3>1
      <3>2. CASE f.row # 0
        <4> DEFINE updated == [subs EXCEPT ![f.row] = ended]
        <4> HIDE DEF ended
        <4>1. /\ updated \in Seq(Subscription) /\ DOMAIN updated = DOMAIN subs
              /\ \A j \in DOMAIN subs : updated[j] = IF j = f.row THEN ended ELSE subs[j]
          BY <1>1, <2>3, UpdateRow
        <4>2. retired = updated
          BY <3>2
        <4> HIDE DEF updated, retired
        <4> QED
          BY <2>3, <4>1, <4>2
      <3> QED
        BY <3>1, <3>2
    <2> HIDE DEF retired, new
    <2>5. \A j \in DOMAIN Append(retired, new) :
             \/ Append(retired, new)[j] = new
             \/ j \in DOMAIN retired /\ Append(retired, new)[j] = retired[j]
      BY <2>4
    <2> QED
      BY <2>1, <2>2, <2>4, <2>5 DEF f
  <1> QED
    BY <1>2, <1>3

\* Every other write to the subscriptions leaves the ends alone.
LEMMA CancelEnds == ASSUME SubInd, NEW p \in Procs, CancelWrite(p) PROVE EndsKept(subs, subs')
  <1> DEFINE f == frame[p]
             old == subs[f.row]
             new == IF f.type = "canceled" THEN [old EXCEPT !.status = "CANCELED", !.atEnd = FALSE]
                    ELSE [old EXCEPT !.atEnd = TRUE]
  <1>1. subs' = [subs EXCEPT ![f.row] = new] /\ subs \in Seq(Subscription)
    BY DEF CancelWrite, SubInd, SubType, StoreType
  <1>2. f.row \in DOMAIN subs => new.user = old.user /\ new.end = old.end
    <2>1. f.row \in DOMAIN subs => old \in Subscription
      BY <1>1
    <2> HIDE DEF old
    <2> QED
      BY <2>1 DEF Subscription
  <1> HIDE DEF f, new
  <1> QED
    BY <1>1, <1>2 DEF EndsKept

LEMMA FrameStepEnds ==
    ASSUME SubInd, NEW p \in Procs, FrameStep(p), ~GrantCommit(p)
    PROVE  EndsKept(subs, subs') /\ UNCHANGED now
  <1>1. CASE CancelWrite(p)
    BY <1>1, CancelEnds DEF CancelWrite
  <1>2. CASE UNCHANGED <<subs, now>>
    BY <1>2 DEF EndsKept
  <1> QED
    BY <1>1, <1>2 DEF FrameStep, GrantStep, GrantPlan, GrantLookup, GrantReplayed, GrantRead,
                      GrantAbort, CancelLog, Flush, storeVars

LEMMA MaintenanceEnds ==
    ASSUME SubInd, NEW j \in Jobs, MaintenanceStep(j) \/ WorkerCrash(j)
    PROVE  EndsKept(subs, subs') /\ UNCHANGED now
  <1>1. subs \in Seq(Subscription)
    BY DEF SubInd, SubType, StoreType
  <1>2. CASE ExpireWrite(j)
    <2>1. subs' = [i \in DOMAIN subs |-> IF i \in maint[j].lapsed THEN [subs[i] EXCEPT !.status = "EXPIRED"]
                                         ELSE subs[i]]
      BY <1>2 DEF ExpireWrite
    <2>2. \A i \in DOMAIN subs : subs'[i].user = subs[i].user /\ subs'[i].end = subs[i].end
      <3> TAKE i \in DOMAIN subs
      <3> DEFINE old == subs[i]
                 new == [old EXCEPT !.status = "EXPIRED"]
      <3>1. old \in Subscription
        BY <1>1
      <3>2. subs'[i] = old \/ subs'[i] = new
        BY <2>1
      <3> HIDE DEF old
      <3>3. new.user = old.user /\ new.end = old.end
        BY <3>1 DEF Subscription
      <3> HIDE DEF new
      <3> QED
        BY <3>2, <3>3 DEF old
    <2> QED
      BY <1>2, <2>1, <2>2 DEF EndsKept, ExpireWrite
  <1>3. CASE \E d \in maint[j].due : RemindOne(j, d)
    <2>1. PICK d \in maint[j].due : RemindOne(j, d)
      BY <1>3
    <2> DEFINE old == subs[d.sub]
               new == [old EXCEPT !.reminded = TRUE]
    <2>2. subs' = [subs EXCEPT ![d.sub] = new]
      BY <1>1, <2>1 DEF RemindOne
    <2>3. d.sub \in DOMAIN subs => new.user = old.user /\ new.end = old.end
      <3>1. d.sub \in DOMAIN subs => old \in Subscription
        BY <1>1
      <3> HIDE DEF old
      <3> QED
        BY <3>1 DEF Subscription
    <2> HIDE DEF new
    <2> QED
      BY <2>1, <2>2, <2>3 DEF EndsKept, RemindOne
  <1>4. CASE UNCHANGED <<subs, now>>
    BY <1>4 DEF EndsKept
  <1> QED
    BY <1>2, <1>3, <1>4 DEF MaintenanceStep, MaintenanceStart, ExpireLog, ExpireFlush, RemindLook, WorkerCrash, storeVars

\* A grant that commits is of an order that had not been paid out and is now.
LEMMA CommitIsPaidFor ==
    ASSUME PaidInd, IInv', NEW p \in Procs, GrantCommit(p), UNCHANGED orders
    PROVE  PaidInd'
  <1> DEFINE f == frame[p]
             i == GrantedRow(f)
             e == EventRow(i, f.type, f.provider, f.id)
             Before(u) == PaidFor(orders, events, u)
             After(u) == PaidFor(orders, events', u)
  <1>1. /\ f \in Frame /\ frame \in [Procs -> Frame] /\ FrameFits(f, subs) /\ f.pc = "write"
        /\ subs \in Seq(Subscription) /\ events \in Seq(SubscriptionEvent) /\ orders \in Seq(Order) /\ now \in Nat
    BY DEF PaidInd, IInv, TypeOK, SubInd, SubType, StoreType, FramesFit, GrantCommit
  <1>2. /\ events' = Append(events, e) /\ subs' = Granted(f) /\ EventIdFree(f.provider, f.id)
        /\ UNCHANGED <<now, orders>>
    BY DEF GrantCommit, Accepted
  <1>3. /\ f.user \in Users /\ f.plan \in Plans /\ f.end \in Nat /\ f.type = "wallet_payment"
        /\ f.end <= now + Before(f.user) + Interval[f.plan]
    BY <1>1 DEF PaidInd, GrantsPaidFor, GrantPaidFor, GrantPoints, FrameFits
  <1>4. /\ f.provider = "wallet" /\ f.id \in DOMAIN orders
        /\ orders[f.id].user = f.user /\ orders[f.id].plan = f.plan
    BY <1>1, <1>3 DEF PaidInd, IInv, WalletFramesFit, WalletFrameFits, WalletGrant, GrantPoints
  <1>5. LogKept(events, events') /\ events'[Len(events) + 1] = e /\ Len(events) + 1 \in DOMAIN events'
    <2> HIDE DEF e
    <2> QED
      BY <1>1, <1>2 DEF LogKept
  <1>6. f.id \notin PaidIn(orders, events, f.user)
    <2>1. f.id # None
      BY <1>1, <1>4, StoreAssumption
    <2>2. \A k \in DOMAIN events : events[k].type = "wallet_payment" => events[k].provider = "wallet"
      BY DEF PaidInd, IInv, WalletProvider, WalletEvents
    <2> QED
      BY <1>2, <1>4, <2>1, <2>2 DEF PaidIn, EventIdFree, Seen
  <1>7. f.id \in PaidIn(orders, events', f.user)
    BY <1>3, <1>4, <1>5 DEF PaidIn, EventRow
  <1>8. PlansKept(orders, orders)
    BY DEF PlansKept
  <1>9. \A u : Before(u) \in Nat /\ After(u) \in Nat /\ Before(u) <= After(u)
    BY <1>1, <1>5, <1>8, PaidForGrows
  <1>10. Before(f.user) + Interval[f.plan] <= After(f.user)
    BY <1>1, <1>4, <1>5, <1>6, <1>7, <1>8, PaidForGrows
  <1>11. Interval[f.plan] \in Nat
    BY <1>3, StoreAssumption
  <1>12. \A j \in DOMAIN subs' : \/ subs'[j].user = f.user /\ subs'[j].end = f.end
                                 \/ j \in DOMAIN subs /\ subs'[j].user = subs[j].user /\ subs'[j].end = subs[j].end
    BY <1>1, <1>2, GrantedEnds DEF PaidInd, IInv
  <1> HIDE DEF f, e, i, Before, After
  <1>13. ASSUME NEW j \in DOMAIN subs', subs'[j].end # None
         PROVE  subs'[j].end <= now + After(subs'[j].user)
    <2>1. CASE subs'[j].user = f.user /\ subs'[j].end = f.end
      BY <1>1, <1>3, <1>9, <1>10, <1>11, <2>1
    <2>2. CASE j \in DOMAIN subs /\ subs'[j].user = subs[j].user /\ subs'[j].end = subs[j].end
      <3>1. subs[j].end <= now + Before(subs[j].user)
        BY <1>13, <2>2 DEF PaidInd, RowsPaidFor, Before
      <3>2. subs[j].end \in Nat
        <4>1. subs[j] \in Subscription
          BY <1>1, <2>2
        <4> QED
          BY <1>13, <2>2, <4>1 DEF Subscription
      <3>3. Before(subs[j].user) \in Nat /\ After(subs[j].user) \in Nat /\ Before(subs[j].user) <= After(subs[j].user)
        BY <1>9
      <3> QED
        BY <1>1, <2>2, <3>1, <3>2, <3>3
    <2> QED
      BY <1>12, <2>1, <2>2
  <1>14. RowsPaidFor(subs', orders', events', now')
    BY <1>2, <1>13 DEF RowsPaidFor, After
  <1>15. ASSUME NEW q \in Procs PROVE GrantPaidFor(frame'[q], orders', events', now')
    <2>1. CASE q = p
      <3>1. frame'[p].pc = "flush"
        BY <1>1 DEF GrantCommit, GoTo
      <3> QED
        BY <2>1, <3>1 DEF GrantPaidFor, GrantPoints
    <2>2. CASE q # p
      <3>1. frame'[q] = frame[q]
        BY <1>1, <2>2 DEF GrantCommit, GoTo
      <3> SUFFICES ASSUME frame[q].pc \in GrantPoints
                   PROVE  /\ frame[q].type = "wallet_payment" /\ frame[q].end \in Nat
                          /\ frame[q].end <= now + After(frame[q].user) + Interval[frame[q].plan]
        BY <1>2, <3>1 DEF GrantPaidFor, After
      <3>2. /\ frame[q].type = "wallet_payment" /\ frame[q].end \in Nat
            /\ frame[q].end <= now + Before(frame[q].user) + Interval[frame[q].plan]
        BY DEF PaidInd, GrantsPaidFor, GrantPaidFor, Before
      <3>3. Interval[frame[q].plan] \in Nat
        <4>1. frame[q].plan \in Plans
          BY DEF PaidInd, IInv, SubInd, FramesFit, FrameFits
        <4> QED
          BY <4>1, StoreAssumption
      <3>4. Before(frame[q].user) \in Nat /\ After(frame[q].user) \in Nat
            /\ Before(frame[q].user) <= After(frame[q].user)
        BY <1>9
      <3> QED
        BY <1>1, <3>2, <3>3, <3>4
    <2> QED
      BY <2>1, <2>2
  <1> QED
    BY <1>14, <1>15 DEF PaidInd, GrantsPaidFor

\* Every step keeps the orders' users and plans.
LEMMA StatusPlans ==
    ASSUME NEW table \in Seq(Order), NEW o, NEW status
    PROVE  PlansKept(table, [table EXCEPT ![o].status = status])
  <1> DEFINE old == table[o]
             new == [old EXCEPT !.status = status]
  <1>1. o \in DOMAIN table => old \in Order
    OBVIOUS
  <1> HIDE DEF old
  <1>2. o \in DOMAIN table => new.user = old.user /\ new.plan = old.plan
    BY <1>1 DEF Order
  <1> HIDE DEF new
  <1>3. PlansKept(table, [table EXCEPT ![o] = new])
    BY <1>2 DEF PlansKept, old
  <1> QED
    BY <1>3 DEF new, old

LEMMA PlansStay == ASSUME IInv, [Next]_vars PROVE PlansKept(orders, orders')
  <1>1. orders \in Seq(Order)
    BY DEF IInv, TypeOK
  <1>2. CASE UNCHANGED orders
    BY <1>2 DEF PlansKept
  <1>3. CASE \E o, status : orders' = WithStatus(o, status)
    <2>1. PICK o, status : orders' = WithStatus(o, status)
      BY <1>3
    <2>2. PlansKept(orders, WithStatus(o, status))
      BY <1>1, StatusPlans DEF WithStatus
    <2> QED
      BY <2>1, <2>2
  <1>4. CASE \E p \in Procs : CreateOrder(p)
    BY <1>1, <1>4 DEF CreateOrder, PlansKept
  <1>5. CASE \E p \in Procs : SubmitWrite(p)
    <2>1. PICK p \in Procs : SubmitWrite(p)
      BY <1>5
    <2> DEFINE o == call[p].order
               old == orders[o]
               ref == call[p].ref
               new == [old EXCEPT !.status = "SUBMITTED", !.ref = ref]
               table == [orders EXCEPT ![o] = new]
    <2>2. [orders EXCEPT ![o].status = "SUBMITTED", ![o].ref = ref] = table
      BY <1>1
    <2>3. orders' \in {table, orders}
      BY <2>1, <2>2 DEF SubmitWrite
    <2>4. o \in DOMAIN orders => old \in Order
      BY <1>1
    <2> HIDE DEF o, old, ref
    <2>5. o \in DOMAIN orders => new.user = old.user /\ new.plan = old.plan
      BY <2>4 DEF Order
    <2> HIDE DEF new
    <2>6. PlansKept(orders, table)
      BY <2>5 DEF PlansKept, old
    <2> HIDE DEF table
    <2> QED
      BY <2>3, <2>6 DEF PlansKept
  <1>6. CASE \E p \in Procs : CustomerRequest(p)
    BY <1>2, <1>6 DEF CustomerRequest, StartOrder, SubmitRead, CancelOrderRead
  <1>7. CASE \E p \in Procs : CallStep(p)
    <2>1. PICK p \in Procs : CallStep(p)
      BY <1>7
    <2>2. CASE ReplaceOpen(p) \/ CancelOrderWrite(p)
      BY <1>3, <2>2 DEF ReplaceOpen, CancelOrderWrite
    <2>3. CASE CreateOrder(p) \/ SubmitWrite(p)
      BY <1>4, <1>5, <2>3
    <2>4. CASE CreateRefused(p) \/ LookAgain(p) \/ ApproveCurrent(p) \/ ApproveGranted(p) \/ ApproveThrew(p)
      BY <1>2, <2>4 DEF CreateRefused, LookAgain, ApproveCurrent, ApproveGranted, ApproveThrew
    <2>5. CASE ApproveClaim(p)
      BY <1>2, <1>3, <2>5 DEF ApproveClaim
    <2>6. CASE ApproveRestore(p)
      BY <1>2, <1>3, <2>6 DEF ApproveRestore
    <2> QED
      BY <2>1, <2>2, <2>3, <2>4, <2>5, <2>6 DEF CallStep
  <1>8. CASE \E o \in DOMAIN orders : Reject(o)
    BY <1>3, <1>8 DEF Reject
  <1>9. CASE (\E p \in Procs, o \in DOMAIN orders : ApproveRead(p, o)) \/ ApiCrash \/ ServiceStep \/ UNCHANGED vars
    BY <1>2, <1>9 DEF ApproveRead, ApiCrash, ServiceStep, vars
  <1> QED
    BY <1>6, <1>7, <1>8, <1>9 DEF Next

\* A grant that approve begins ends a period after now, or after what was left
\* of a row that was paid for.
LEMMA CurrentIsPaidFor ==
    ASSUME PaidInd, IInv', \A plan \in Plans : Interval[plan] > 0, NEW p \in Procs, ApproveCurrent(p)
    PROVE  PaidInd'
  <1> DEFINE o == call[p].order
             u == orders[o].user
             plan == orders[o].plan
             r == ActiveRow(u)
             row == subs[r]
             extends == r # 0 /\ row.plan = plan /\ row.status = "ACTIVE" /\ row.end # None /\ row.end > now
             days == Interval[plan]
             end == (IF extends THEN row.end ELSE now) + (IF days > 1 THEN days ELSE 1)
             Paid(v) == PaidFor(orders, events, v)
  <1>1. /\ o \in DOMAIN orders /\ orders \in Seq(Order) /\ frame \in [Procs -> Frame] /\ now \in Nat
        /\ subs \in Seq(Subscription)
    BY DEF ApproveCurrent, PaidInd, IInv, TypeOK, CallsFit, CallFits, Approving, SubInd, SubType, StoreType
  <1>2. u \in Users /\ plan \in Plans
    <2>1. orders[o] \in Order
      BY <1>1
    <2> QED
      BY <2>1 DEF Order
  <1>3. days \in Nat /\ days > 0
    BY <1>2, StoreAssumption
  <1>4. UNCHANGED <<now, subs, events, orders>>
    BY DEF ApproveCurrent, storeVars
  <1>5. /\ frame'[p].type = "wallet_payment" /\ frame'[p].end = end
        /\ frame'[p].user = u /\ frame'[p].plan = plan
        /\ \A q \in Procs \ {p} : frame'[q] = frame[q]
    BY <1>1 DEF ApproveCurrent, CallPaid, Call
  <1>6. \A v : Paid(v) \in Nat
    <2>1. PlansKept(orders, orders) /\ LogKept(events, events)
      BY DEF PlansKept, LogKept
    <2> QED
      BY <1>1, <2>1, PaidForGrows
  <1>7. extends => row.end \in Nat /\ row.end <= now + Paid(u)
    <2>1. ASSUME r # 0 PROVE r \in DOMAIN subs /\ row.user = u
      BY <2>1, ActiveRowIsLive DEF PaidInd, IInv, SubInd, SubType, LiveRows
    <2>2. r \in DOMAIN subs => row \in Subscription
      BY <1>1
    <2>3. r \in DOMAIN subs /\ row.end # None => row.end <= now + Paid(row.user)
      BY DEF PaidInd, RowsPaidFor
    <2> HIDE DEF r, row, Paid, u
    <2> QED
      BY <2>1, <2>2, <2>3 DEF Subscription
  <1>8. end \in Nat /\ end <= now + Paid(u) + days
    <2> HIDE DEF extends, row, Paid, u, days
    <2> QED
      BY <1>1, <1>3, <1>6, <1>7
  <1> HIDE DEF end, u, plan, o
  <1>9. GrantPaidFor(frame'[p], orders, events, now)
    BY <1>5, <1>8 DEF GrantPaidFor
  <1>10. \A q \in Procs : GrantPaidFor(frame'[q], orders, events, now)
    BY <1>5, <1>9 DEF PaidInd, GrantsPaidFor, GrantPaidFor
  <1> QED
    BY <1>4, <1>10 DEF PaidInd, GrantsPaidFor, RowsPaidFor

----
(* Steps of the subscription service, and the rest *)

LEMMA ServiceIsPaidFor ==
    ASSUME PaidInd, IInv', GrantDays = {}, ServiceStep
    PROVE  PaidInd'
  <1>1. UNCHANGED orders
    BY DEF ServiceStep
  <1>2. /\ PlansKept(orders, orders') /\ SubInd /\ now \in Nat
        /\ events \in Seq(SubscriptionEvent) /\ frame \in [Procs -> Frame]
    BY <1>1 DEF PlansKept, PaidInd, IInv, SubInd, SubType, StoreType
  <1>3. LogsNoGrant => LogKept(events, events')
    BY <1>2, GrantsKept DEF LogKept
  <1>4. ASSUME NEW p \in Procs, FrameStep(p) PROVE PaidInd'
    <2>1. CASE GrantCommit(p)
      BY <1>1, <2>1, CommitIsPaidFor
    <2>2. CASE ~GrantCommit(p)
      <3>1. EndsKept(subs, subs') /\ now' = now /\ LogKept(events, events')
        BY <1>2, <1>3, <1>4, <2>2, FrameStepEnds, FrameStepLog
      <3>2. PICK g : /\ frame' = [frame EXCEPT ![p] = g]
                     /\ g.user = frame[p].user /\ g.plan = frame[p].plan /\ g.type = frame[p].type
                     /\ g.end = frame[p].end
                     /\ g.pc \in GrantPoints \cup {"failed"} => frame[p].pc \in GrantPoints
        BY <1>2, <1>4, FrameStepArguments
      <3>3. \A q \in Procs : frame'[q].pc \in GrantPoints =>
               /\ frame[q].pc \in GrantPoints
               /\ frame'[q].type = frame[q].type /\ frame'[q].end = frame[q].end
               /\ frame'[q].user = frame[q].user /\ frame'[q].plan = frame[q].plan
        BY <1>2, <3>2
      <3> QED
        BY <1>2, <3>1, <3>3, PaidForKept
    <2> QED
      BY <2>1, <2>2
  <1>5. ASSUME NEW p \in Procs, Request(p) \/ Return(p) PROVE PaidInd'
    <2>1. UNCHANGED <<now, subs, events>>
      BY <1>5 DEF Request, AdminGrant, PaidGrant, CancelRead, Return, storeVars
    <2>2. frame'[p].pc \notin GrantPoints /\ \A q \in Procs \ {p} : frame'[q] = frame[q]
      <3>1. CASE \E v \in Users, immediately \in BOOLEAN : CancelRead(p, v, immediately)
        BY <1>2, <3>1 DEF CancelRead, NoCall, GrantPoints
      <3>2. CASE Return(p)
        BY <1>2, <3>2 DEF Return, NoCall, GrantPoints
      <3> QED
        BY <1>5, <3>1, <3>2, OrderAssumption DEF Request
    <2>3. EndsKept(subs, subs') /\ LogKept(events, events')
      BY <2>1 DEF EndsKept, LogKept
    <2> QED
      BY <1>2, <2>1, <2>2, <2>3, PaidForKept
  <1>6. ASSUME NEW j \in Jobs, MaintenanceStep(j) \/ WorkerCrash(j) PROVE PaidInd'
    <2>1. EndsKept(subs, subs') /\ now' = now /\ UNCHANGED frame /\ LogsNoGrant
      BY <1>2, <1>6, MaintenanceEnds, MaintenanceInd, MaintenanceLog
    <2> QED
      BY <1>2, <1>3, <2>1, PaidForKept
  <1>7. CASE Environment
    <2>1. UNCHANGED <<subs, frame, events>>
      BY <1>2, <1>7, EnvironmentInd DEF Environment, NextDay, AdminUpdate, CacheExpire, ViewMiss, ViewStep,
         ViewResolve, ViewFill, storeVars
    <2>2. now' = now \/ now' = now + 1
      BY <1>7 DEF Environment, NextDay, AdminUpdate, CacheExpire, ViewMiss, ViewStep,
         ViewResolve, ViewFill, storeVars
    <2>4. now' >= now
      BY <1>2, <2>2
    <2>3. EndsKept(subs, subs') /\ LogKept(events, events')
      BY <2>1 DEF EndsKept, LogKept
    <2> QED
      BY <1>2, <2>1, <2>3, <2>4, PaidForKept
  <1> QED
    BY <1>4, <1>5, <1>6, <1>7 DEF ServiceStep

\* A step that leaves the subscriptions, the log and the clock alone and begins
\* no grant.
LEMMA AsideIsPaidFor ==
    ASSUME PaidInd, IInv', [Next]_vars, UNCHANGED <<now, subs, events>>,
           \A q \in Procs : frame'[q] = frame[q] \/ frame'[q].pc \notin GrantPoints
    PROVE  PaidInd'
  <1>1. PlansKept(orders, orders')
    BY PlansStay DEF PaidInd
  <1>2. EndsKept(subs, subs') /\ LogKept(events, events') /\ now' >= now
    BY DEF EndsKept, LogKept, PaidInd, IInv, SubInd, SubType, StoreType
  <1> QED
    BY <1>1, <1>2, PaidForKept

LEMMA NextIsPaidFor ==
    ASSUME PaidInd, [Next]_vars, GrantDays = {}, \A plan \in Plans : Interval[plan] > 0
    PROVE  PaidInd'
  <1>1. IInv'
    BY NextInv DEF PaidInd
  <1>2. CASE ServiceStep
    BY <1>1, <1>2, ServiceIsPaidFor
  <1>3. CASE \E p \in Procs : ApproveCurrent(p)
    BY <1>1, <1>3, CurrentIsPaidFor
  <1>4. CASE \E p \in Procs : ApproveGranted(p) \/ ApproveThrew(p)
    <2>1. PICK p \in Procs : ApproveGranted(p) \/ ApproveThrew(p)
      BY <1>4
    <2>2. frame' = [frame EXCEPT ![p] = NoCall] /\ UNCHANGED <<now, subs, events>>
      BY <2>1 DEF ApproveGranted, ApproveThrew, storeVars
    <2>3. frame \in [Procs -> Frame]
      BY DEF PaidInd, IInv, SubInd, SubType
    <2>4. \A q \in Procs : frame'[q] = frame[q] \/ frame'[q].pc \notin GrantPoints
      BY <2>2, <2>3 DEF NoCall, GrantPoints
    <2> QED
      BY <1>1, <2>2, <2>4, AsideIsPaidFor
  <1>5. CASE ApiCrash
    <2>1. UNCHANGED <<now, subs, events>> /\ \A q \in Procs : frame'[q].pc \notin GrantPoints
      BY <1>5 DEF ApiCrash, storeVars, NoCall, GrantPoints
    <2> QED
      BY <1>1, <2>1, AsideIsPaidFor
  <1>6. CASE UNCHANGED subVars
    BY <1>1, <1>6, AsideIsPaidFor DEF subVars, storeVars
  <1>7. ASSUME NEW p \in Procs, CallStep(p) PROVE PaidInd'
    BY <1>3, <1>4, <1>6, <1>7 DEF CallStep, ReplaceOpen, CreateOrder, CreateRefused, LookAgain, SubmitWrite,
       CancelOrderWrite, ApproveClaim, ApproveRestore
  <1>8. CASE \/ \E p \in Procs : CustomerRequest(p)
             \/ \E p \in Procs, o \in DOMAIN orders : ApproveRead(p, o)
             \/ \E o \in DOMAIN orders : Reject(o)
             \/ UNCHANGED vars
    BY <1>6, <1>8 DEF CustomerRequest, StartOrder, SubmitRead, CancelOrderRead, ApproveRead, Reject, vars
  <1> QED
    BY <1>2, <1>5, <1>7, <1>8 DEF Next

LEMMA InitIsPaidFor == Init => PaidInd
  <1> SUFFICES ASSUME Init PROVE PaidInd
    OBVIOUS
  <1>1. IInv
    BY InitInv
  <1>2. subs = <<>> /\ frame = [p \in Procs |-> NoCall]
    BY DEF Init, SubInit, StoreInit
  <1> QED
    BY <1>1, <1>2 DEF PaidInd, RowsPaidFor, GrantsPaidFor, GrantPaidFor, NoCall, GrantPoints

\* "Paying before the current period ends adds a full period on top": however
\* approvals, failed grants, retries, cancellations and the maintenance job
\* interleave, and although the period that is extended was read outside of
\* the transaction, no subscription runs longer than its user has paid for.
\* Where admins grant no plans themselves, and every plan has a period: of a plan
\* without one, a payment buys a day (manual-payments.service.ts).
THEOREM PaidTimeStaysPaidFor ==
    ASSUME GrantDays = {}, \A plan \in Plans : Interval[plan] > 0
    PROVE  Spec => []PaidTimeIsPaidFor
  <1>1. PaidInd /\ [Next]_vars => PaidInd'
    BY NextIsPaidFor
  <1>2. PaidInd => PaidTimeIsPaidFor
    <2> SUFFICES ASSUME PaidInd PROVE PaidTimeIsPaidFor
      OBVIOUS
    <2>1. \A u : PaidDays(u) = PaidFor(orders, events, u)
      BY DEF PaidDays, PaidFor, Total, PaidIn, PaidOut, WalletEvents
    <2> QED
      BY <2>1 DEF PaidInd, RowsPaidFor, PaidTimeIsPaidFor
  <1> QED
    BY <1>1, <1>2, InitIsPaidFor, PTL DEF Spec
====
