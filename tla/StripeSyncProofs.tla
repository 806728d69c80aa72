---- MODULE StripeSyncProofs ----
(***************************************************************************)
(* Proofs about StripeSync: for any number of customers, subscriptions at  *)
(* Stripe, events, deliveries in any order and crashes, an event that was  *)
(* answered with success was applied, and a row is never handed over to    *)
(* another subscription.                                                   *)
(***************************************************************************)
EXTENDS StripeSync, SubscriptionsProofs

\* The points of a request that handles an event.
Handling == {"granting", "revoke", "mark", "log", "flush"}

\* What a request has read stays true: the event it handles was sent, the local
\* row it found is there, and the grant it waits for is that of the event.
HookFits(h, f, feed) ==
    /\ h.pc \in Handling => h.event \in DOMAIN feed
    /\ h.pc \in Handling \ {"granting"} => feed[h.event].kind # "sync" /\ h.user \in Users
    /\ h.pc = "cancel" => h.user \in Users
    /\ h.pc = "granting" /\ feed[h.event].kind = "sync" => f.type = "stripe_sync" /\ f.id = h.event

HooksFit == \A p \in Procs : HookFits(hook[p], frame[p], sent)

\* Event id of the provider is in the log.
Logged(log, provider, id) == \E e \in DOMAIN log : log[e].provider = provider /\ log[e].id = id

\* A call names a subscription at Stripe, or none; a synchronisation that is
\* past its commit, or has found its event in the log, has its event there.
CallFits(f, log, table) ==
    /\ f.psid \in DOMAIN table \cup {None}
    /\ f.pc # "idle" /\ f.type = "stripe_sync" =>
          /\ f.provider = "stripe"
          /\ f.id \in Nat
          /\ f.pc \in {"replayed", "flush", "ok"} => Logged(log, "stripe", f.id)

CallsFit == \A p \in Procs : CallFits(frame[p], events, stripe)

\* So does every row.
RowsFit(rows, table) == \A i \in DOMAIN rows : rows[i].psid \in DOMAIN table \cup {None}

\* The inductive invariant.
IInv ==
    /\ SubInd
    /\ StripeType
    /\ HooksFit
    /\ CallsFit
    /\ RowsFit(subs, stripe)
    /\ AckedIsApplied

\* A log or a feed that only grows.
Extends(before, after) ==
    DOMAIN before \subseteq DOMAIN after /\ \A e \in DOMAIN before : after[e] = before[e]

----
(* What a longer log and a longer feed leave true *)

LEMMA CallFitsKept ==
    ASSUME NEW f, NEW log, NEW log2, NEW table, NEW table2, CallFits(f, log, table),
           Extends(log, log2), DOMAIN table \subseteq DOMAIN table2
    PROVE  CallFits(f, log2, table2)
  BY DEF CallFits, Logged, Extends

\* Events are numbers, which None is not, so an event that is in the log is
\* one that grantPlan has seen.
LEMMA SeenIsLogged ==
    ASSUME NEW id, id \in Nat PROVE Seen("stripe", id) <=> Logged(events, "stripe", id)
  BY StoreAssumption DEF Seen, Logged

LEMMA SentIsNat ==
    ASSUME IInv, NEW e \in DOMAIN sent
    PROVE  /\ e \in Nat /\ sent[e].sub \in DOMAIN stripe /\ sent[e].sub \in Nat
           /\ sent[e].kind \in EventKinds
           /\ stripe[sent[e].sub] \in StripeSubscription
  <1>1. sent \in Seq([kind : EventKinds, sub : DOMAIN stripe]) /\ stripe \in Seq(StripeSubscription)
    BY DEF IInv, StripeType
  <1> DEFINE Event == [kind : EventKinds, sub : DOMAIN stripe]
  <1>2. sent[e] \in Event /\ e \in Nat
    <2>1. sent \in Seq(Event)
      BY <1>1
    <2> HIDE DEF Event
    <2> QED
      BY <2>1
  <1> QED
    BY <1>1, <1>2

\* A step keeps the invariant when everything it adds or changes fits.
LEMMA StepInd ==
    ASSUME IInv, SubInd', Extends(events, events'), Extends(sent, sent'),
           DOMAIN stripe \subseteq DOMAIN stripe', stripe' \in Seq(StripeSubscription),
           sent' \in Seq([kind : EventKinds, sub : DOMAIN stripe']),
           hook' \in [Procs -> Hook], acked' \subseteq DOMAIN sent',
           \A e \in acked' \ acked : sent'[e].kind = "sync" => Logged(events', "stripe", e),
           RowsFit(subs', stripe'),
           \A p \in Procs : frame'[p] = frame[p] \/ CallFits(frame'[p], events', stripe'),
           \A p \in Procs : HookFits(hook'[p], frame'[p], sent')
    PROVE  IInv'
  <1>1. StripeType'
    BY DEF StripeType, SubInd
  <1>2. HooksFit'
    BY DEF HooksFit, HookFits
  <1>3. CallsFit'
    <2>1. \A p \in Procs : CallFits(frame'[p], events', stripe')
      BY CallFitsKept DEF IInv, CallsFit
    <2> QED
      BY <2>1 DEF CallsFit, CallFits, Logged
  <1>4. RowsFit(subs, stripe)'
    BY DEF RowsFit
  <1>5. AckedIsApplied'
    <2>1. ASSUME NEW e \in acked', sent'[e].kind = "sync"
          PROVE  e # None /\ Logged(events', "stripe", e)
      <3>1. e \in Nat
        <4>1. DOMAIN sent' \subseteq Nat
          OBVIOUS
        <4> QED
          BY <4>1, <2>1
      <3>2. CASE e \in acked
        <4>1. e \in DOMAIN sent /\ sent'[e] = sent[e]
          BY <3>2 DEF IInv, StripeType, Extends
        <4>2. Seen("stripe", e)
          BY <2>1, <3>2, <4>1 DEF IInv, AckedIsApplied
        <4> QED
          BY <3>1, <4>2, StoreAssumption DEF Seen, Logged, Extends
      <3>3. CASE e \notin acked
        BY <2>1, <3>1, <3>3, StoreAssumption
      <3> QED
        BY <3>2, <3>3
    <2> QED
      BY <2>1 DEF AckedIsApplied, Seen, Logged
  <1> QED
    BY <1>1, <1>2, <1>3, <1>4, <1>5 DEF IInv

\* What the steps need that leave Stripe alone.
LEMMA StripeKept ==
    ASSUME IInv, UNCHANGED <<stripe, sent>>
    PROVE  /\ Extends(sent, sent') /\ DOMAIN stripe \subseteq DOMAIN stripe'
           /\ stripe' \in Seq(StripeSubscription)
           /\ sent' \in Seq([kind : EventKinds, sub : DOMAIN stripe'])
           /\ acked \subseteq DOMAIN sent'
           /\ hook \in [Procs -> Hook]
  BY DEF IInv, StripeType, Extends

----
(* Stripe *)

\* Events are added to the feed; they name a subscription that is there.
LEMMA SendFits ==
    ASSUME IInv, NEW s \in DOMAIN stripe', NEW kinds \in Seq(EventKinds), Send(s, kinds),
           DOMAIN stripe \subseteq DOMAIN stripe'
    PROVE  Extends(sent, sent') /\ sent' \in Seq([kind : EventKinds, sub : DOMAIN stripe'])
  <1> DEFINE Event == [kind : EventKinds, sub : DOMAIN stripe']
             new == [n \in DOMAIN kinds |-> [kind |-> kinds[n], sub |-> s]]
  <1>1. sent' = sent \o new
    BY DEF Send
  <1>2. DOMAIN kinds = 1..Len(kinds) /\ Len(kinds) \in Nat /\ \A n \in DOMAIN kinds : kinds[n] \in EventKinds
    OBVIOUS
  <1>3. \A n \in DOMAIN kinds : new[n] \in Event
    BY <1>2
  <1> HIDE DEF Event
  <1>4. new \in Seq(Event)
    BY <1>2, <1>3
  <1>5. sent \in Seq(Event)
    <2> DEFINE Old == [kind : EventKinds, sub : DOMAIN stripe]
    <2>1. Old \subseteq Event /\ sent \in Seq(Old)
      BY DEF Event, IInv, StripeType
    <2> HIDE DEF Old
    <2> QED
      BY <2>1, SeqMonotonic
  <1> HIDE DEF new
  <1> QED
    BY <1>1, <1>4, <1>5 DEF Extends, Event

\* A step of Stripe, or one that only tells Stripe something.
LEMMA StripeInd ==
    ASSUME IInv, NEW s \in DOMAIN stripe', NEW kinds \in Seq(EventKinds), Send(s, kinds),
           DOMAIN stripe \subseteq DOMAIN stripe', stripe' \in Seq(StripeSubscription),
           hook' \in [Procs -> Hook], UNCHANGED <<subVars, acked>>,
           \A p \in Procs : hook'[p] = hook[p] \/ (hook'[p].pc = "cancel" /\ hook'[p].user \in Users)
    PROVE  IInv'
  <1>1. Extends(sent, sent') /\ sent' \in Seq([kind : EventKinds, sub : DOMAIN stripe'])
    BY SendFits
  <1>2. SubInd' /\ Extends(events, events')
    BY Aside DEF IInv, SubInd, SubType, StoreType, EntType, subVars, storeVars, entVars, jobVars, Extends
  <1>3. UNCHANGED <<subs, frame>>
    BY DEF subVars, storeVars
  <1>4. \A p \in Procs : HookFits(hook'[p], frame'[p], sent')
    <2>1. \A p \in Procs : HookFits(hook[p], frame[p], sent')
      BY <1>1 DEF IInv, HooksFit, HookFits, Handling, Extends
    <2> QED
      BY <1>3, <2>1 DEF HookFits, Handling
  <1>5. acked' \subseteq DOMAIN sent' /\ RowsFit(subs', stripe')
    BY <1>1, <1>3 DEF IInv, StripeType, Extends, RowsFit
  <1> QED
    BY <1>1, <1>2, <1>3, <1>4, <1>5, StepInd

LEMMA ChangedInd ==
    ASSUME IInv, NEW s \in DOMAIN stripe, NEW new \in StripeSubscription, NEW kinds \in Seq(EventKinds),
           Changed(s, new, kinds)
    PROVE  IInv'
  <1>1. stripe \in Seq(StripeSubscription) /\ hook \in [Procs -> Hook]
    BY DEF IInv, StripeType
  <1>2. DOMAIN stripe' = DOMAIN stripe /\ stripe' \in Seq(StripeSubscription)
    BY <1>1, UpdateRow DEF Changed
  <1> QED
    BY <1>1, <1>2, StripeInd DEF Changed

LEMMA PeriodIsNat == ASSUME NEW plan \in Plans PROVE Period(plan) \in Nat
  BY StoreAssumption DEF Period

LEMMA CheckoutInd ==
    ASSUME IInv, NEW u \in Users, NEW plan \in Plans, NEW status \in FirstStatus, Checkout(u, plan, status)
    PROVE  IInv'
  <1> DEFINE new == [user |-> u, plan |-> plan, status |-> status, end |-> now + Period(plan), atEnd |-> FALSE]
  <1>1. stripe \in Seq(StripeSubscription) /\ hook \in [Procs -> Hook] /\ now \in Nat
    BY DEF IInv, StripeType, SubType, StoreType
  <1>2. new \in StripeSubscription
    BY <1>1, PeriodIsNat, StripeAssumption DEF StripeSubscription
  <1>3. /\ stripe' = Append(stripe, new) /\ Send(Len(stripe) + 1, <<"sync">>)
        /\ UNCHANGED <<subVars, acked, hook>>
    BY DEF Checkout
  <1> HIDE DEF new
  <1>4. /\ stripe' \in Seq(StripeSubscription) /\ DOMAIN stripe \subseteq DOMAIN stripe'
        /\ Len(stripe) + 1 \in DOMAIN stripe'
    BY <1>1, <1>2, <1>3
  <1>5. <<"sync">> \in Seq(EventKinds)
    BY DEF EventKinds
  <1> QED
    BY <1>1, <1>3, <1>4, <1>5, StripeInd

LEMMA StripeStepInd == ASSUME IInv, StripeStep PROVE IInv'
  <1>1. CASE \E u \in Users, plan \in Plans, status \in FirstStatus : Checkout(u, plan, status)
    BY <1>1, CheckoutInd
  <1>2. CASE \E s \in DOMAIN stripe : StripeStarts(s) \/ StripeRenews(s) \/ StripeRecovers(s) \/ StripeDeletes(s)
    <2>1. PICK s \in DOMAIN stripe : StripeStarts(s) \/ StripeRenews(s) \/ StripeRecovers(s) \/ StripeDeletes(s)
      BY <1>2
    <2> DEFINE old == stripe[s]
    <2>2. old \in StripeSubscription
      BY DEF IInv, StripeType
    <2>3. PICK new, kinds :
             /\ Changed(s, new, kinds)
             /\ \/ \E status \in StripeStatus : new = [old EXCEPT !.status = status]
                \/ \E status \in StripeStatus :
                      new = [old EXCEPT !.status = status, !.end = @ + Period(old.plan)]
             /\ kinds \in {<<"sync">>, <<"deleted">>, <<"payment_failed">>, <<"payment_failed", "sync">>}
      <3>1. CASE StripeStarts(s)
        BY <3>1 DEF StripeStarts, StripeStatus
      <3>2. CASE StripeRenews(s)
        BY <3>2 DEF StripeRenews, StripeStatus
      <3>3. CASE StripeRecovers(s)
        BY <3>3 DEF StripeRecovers, StripeStatus
      <3>4. CASE StripeDeletes(s)
        BY <3>4 DEF StripeDeletes, StripeStatus
      <3> QED
        BY <2>1, <3>1, <3>2, <3>3, <3>4
    <2> HIDE DEF old
    <2> DEFINE end == old.end + Period(old.plan)
    <2>4. end \in Nat
      BY <2>2, PeriodIsNat DEF StripeSubscription
    <2>5. new \in StripeSubscription
      <3>1. \E status \in StripeStatus :
               new = [old EXCEPT !.status = status] \/ new = [old EXCEPT !.status = status, !.end = end]
        BY <2>3
      <3> HIDE DEF end
      <3> QED
        BY <2>2, <2>4, <3>1 DEF StripeSubscription
    <2>6. kinds \in Seq(EventKinds)
      <3>1. /\ <<"sync">> \in Seq(EventKinds) /\ <<"deleted">> \in Seq(EventKinds)
            /\ <<"payment_failed">> \in Seq(EventKinds)
        BY DEF EventKinds
      <3>2. <<"payment_failed", "sync">> \in Seq(EventKinds)
        BY DEF EventKinds
      <3> QED
        BY <2>3, <3>1, <3>2
    <2> QED
      BY <2>3, <2>5, <2>6, ChangedInd
  <1> QED
    BY <1>1, <1>2 DEF StripeStep

----
(* The webhook *)

\* A step of request p that leaves Stripe, the other requests and the rows'
\* subscriptions alone.
LEMMA HookInd ==
    ASSUME IInv, SubInd', RowsKept(subs, subs'), DOMAIN subs' = DOMAIN subs, Extends(events, events'),
           UNCHANGED <<stripe, sent>>, NEW p \in Procs, NEW h \in Hook, hook' = [hook EXCEPT ![p] = h],
           acked' = acked \/ (hook[p].pc \in Handling /\ acked' = acked \cup {hook[p].event}
                               /\ (sent[hook[p].event].kind = "sync" => Logged(events', "stripe", hook[p].event))),
           \A q \in Procs \ {p} : frame'[q] = frame[q],
           frame'[p] = frame[p] \/ CallFits(frame'[p], events', stripe),
           HookFits(h, frame'[p], sent)
    PROVE  IInv'
  <1>1. /\ Extends(sent, sent') /\ DOMAIN stripe \subseteq DOMAIN stripe'
        /\ stripe' \in Seq(StripeSubscription)
        /\ sent' \in Seq([kind : EventKinds, sub : DOMAIN stripe'])
        /\ acked \subseteq DOMAIN sent' /\ hook \in [Procs -> Hook]
    BY StripeKept
  <1>2. hook' \in [Procs -> Hook]
    BY <1>1
  <1>3. acked' \subseteq DOMAIN sent' /\ \A e \in acked' \ acked : sent'[e].kind = "sync" => Logged(events', "stripe", e)
    BY <1>1 DEF IInv, HooksFit, HookFits
  <1>4. RowsFit(subs', stripe')
    BY DEF IInv, RowsFit, RowsKept
  <1>5. \A q \in Procs : HookFits(hook'[q], frame'[q], sent')
    BY <1>1 DEF IInv, HooksFit
  <1>6. \A q \in Procs : frame'[q] = frame[q] \/ CallFits(frame'[q], events', stripe')
    OBVIOUS
  <1> QED
    BY <1>1, <1>2, <1>3, <1>4, <1>5, <1>6, StepInd

\* A request that is served, and one that has not begun.
LEMMA NoHookFits == NoHook \in Hook /\ \A f, feed : HookFits(NoHook, f, feed)
  BY DEF NoHook, Hook, HookFits, Handling

LEMMA NoCallFits == \A log, table : CallFits(NoCall, log, table)
  BY DEF NoCall, CallFits

\* A request goes on to another point of the handling of its event.
LEMMA AtFits ==
    ASSUME IInv, NEW p \in Procs, NEW point \in {"granting", "log", "flush"}, At(p, point),
           hook[p].pc \in Handling \ {"granting"}
    PROVE  \E h \in Hook : hook' = [hook EXCEPT ![p] = h] /\ \A f : HookFits(h, f, sent)
  <1> DEFINE old == hook[p]
             h == [old EXCEPT !.pc = point]
  <1>1. old \in Hook /\ HookFits(old, frame[p], sent) /\ hook \in [Procs -> Hook]
    BY DEF IInv, StripeType, HooksFit
  <1>2. hook' = [hook EXCEPT ![p] = h]
    BY <1>1 DEF At
  <1>3. h \in Hook /\ h.event = old.event /\ h.user = old.user /\ h.pc = point
    <2> HIDE DEF old
    <2> QED
      BY <1>1 DEF Hook
  <1> HIDE DEF h
  <1>4. \A f : HookFits(h, f, sent)
    BY <1>1, <1>3 DEF HookFits, Handling
  <1> QED
    BY <1>2, <1>3, <1>4

LEMMA ApplySubscriptionInd ==
    ASSUME IInv, NEW p \in Procs, NEW e \in DOMAIN sent, ApplySubscription(p, e)
    PROVE  IInv'
  <1> DEFINE s == sent[e].sub
             live == stripe[s]
             status == MapStatus(live.status)
             g == [NoCall EXCEPT
                     !.pc = "plan", !.user = live.user, !.plan = live.plan, !.provider = "stripe",
                     !.type = "stripe_sync", !.id = e, !.psid = s,
                     !.status = status, !.end = live.end, !.atEnd = live.atEnd]
             h == [NoHook EXCEPT !.pc = "granting", !.event = e]
  <1>1. e \in Nat /\ s \in DOMAIN stripe /\ s \in Nat /\ live \in StripeSubscription
    BY SentIsNat
  <1>2. /\ frame' = [frame EXCEPT ![p] = g] /\ hook' = [hook EXCEPT ![p] = h]
        /\ UNCHANGED <<storeVars, entVars, jobVars, stripe, sent, acked>>
    BY DEF ApplySubscription, stripeVars
  <1>3. status \in SubscriptionStatus
    BY DEF MapStatus, SubscriptionStatus, Indexed, Entitling
  <1> HIDE DEF s, live, status
  <1>4. live.user \in Users /\ live.plan \in Plans /\ live.end \in Nat /\ live.atEnd \in BOOLEAN
    BY <1>1 DEF StripeSubscription
  <1>5. g \in Frame
    BY <1>1, <1>3, <1>4 DEF NoCall, Frame, Points, GrantPoints, Providers, EventTypes
  <1>6. FrameFits(g, subs)
    BY <1>3, <1>4 DEF NoCall, FrameFits, Providers, PeriodGrants
  <1>7. CallFits(g, events, stripe) /\ g.type = "stripe_sync" /\ g.id = e
    BY <1>1 DEF NoCall, CallFits
  <1>8. h \in Hook /\ h.pc = "granting" /\ h.event = e
    BY <1>1 DEF NoHook, Hook
  <1> HIDE DEF g, h
  <1>9. SubInd'
    BY <1>2, <1>5, <1>6, FrameOnly DEF IInv
  <1>10. frame'[p] = g /\ \A q \in Procs \ {p} : frame'[q] = frame[q]
    BY <1>2 DEF IInv, SubInd, SubType
  <1>11. HookFits(h, g, sent)
    BY <1>7, <1>8 DEF HookFits, Handling
  <1> QED
    BY <1>2, <1>7, <1>8, <1>9, <1>10, <1>11, HookInd DEF RowsKept, Extends, storeVars

\* A synchronisation is answered with success only when its call has returned,
\* and then its event is in the log.
LEMMA HookReturnsInd == ASSUME IInv, NEW p \in Procs, HookReturns(p) PROVE IInv'
  <1>1. /\ hook[p].pc = "granting" /\ frame[p].pc \in {"ok", "failed"}
        /\ frame' = [frame EXCEPT ![p] = NoCall] /\ hook' = [hook EXCEPT ![p] = NoHook]
        /\ acked' = acked \/ (frame[p].pc = "ok" /\ acked' = acked \cup {hook[p].event})
        /\ UNCHANGED <<storeVars, entVars, jobVars, stripe, sent>>
    BY DEF HookReturns, Answered, Threw
  <1>2. SubInd'
    BY <1>1, ReturnInd DEF Return, IInv
  <1>3. frame'[p] = NoCall /\ \A q \in Procs \ {p} : frame'[q] = frame[q]
    BY <1>1 DEF IInv, SubInd, SubType
  <1>4. frame[p].pc = "ok" /\ sent[hook[p].event].kind = "sync" => Logged(events, "stripe", hook[p].event)
    BY <1>1 DEF IInv, HooksFit, HookFits, CallsFit, CallFits
  <1>5. Logged(events, "stripe", hook[p].event) => Logged(events', "stripe", hook[p].event)
    BY <1>1 DEF storeVars
  <1>6. hook[p].pc \in Handling
    BY <1>1 DEF Handling
  <1>7. RowsKept(subs, subs') /\ DOMAIN subs' = DOMAIN subs /\ Extends(events, events')
    BY <1>1 DEF RowsKept, Extends, storeVars
  <1>8. NoHook \in Hook /\ HookFits(NoHook, frame'[p], sent) /\ CallFits(frame'[p], events', stripe)
    BY <1>3, NoHookFits, NoCallFits
  <1> QED
    BY <1>1, <1>2, <1>3, <1>4, <1>5, <1>6, <1>7, <1>8, HookInd

LEMMA FindLocalInd ==
    ASSUME IInv, NEW p \in Procs, NEW e \in DOMAIN sent, FindLocal(p, e)
    PROVE  IInv'
  <1>1. sent[e].kind # "sync" /\ UNCHANGED <<subVars, stripe, sent>> /\ e \in Nat
    BY SentIsNat DEF FindLocal, Deliverable
  <1>2. SubInd' /\ UNCHANGED <<subs, events, frame>>
    BY <1>1, Aside DEF IInv, SubInd, SubType, StoreType, EntType, subVars, storeVars, entVars, jobVars
  <1>3. CASE LocalRow(sent[e].sub) = 0
    <2>1. acked' = acked \cup {e} /\ UNCHANGED hook
      BY <1>3 DEF FindLocal
    <2>2. acked' \subseteq DOMAIN sent' /\ RowsFit(subs', stripe')
      BY <1>1, <1>2, <2>1 DEF IInv, StripeType, RowsFit
    <2>3. \A q \in Procs : HookFits(hook'[q], frame'[q], sent')
      BY <1>1, <1>2, <2>1 DEF IInv, HooksFit
    <2> QED
      BY <1>1, <1>2, <2>1, <2>2, <2>3, StripeKept, StepInd DEF Extends
  <1>4. CASE LocalRow(sent[e].sub) # 0
    <2> DEFINE row == LocalRow(sent[e].sub)
               point == IF sent[e].kind = "deleted" THEN "revoke" ELSE "mark"
               user == subs[row].user
               h == [NoHook EXCEPT !.pc = point, !.event = e, !.row = row, !.user = user]
    <2>1. hook' = [hook EXCEPT ![p] = h] /\ UNCHANGED acked
      BY <1>4 DEF FindLocal
    <2>2. row \in Nat /\ user \in Users
      <3>1. row \in DOMAIN subs
        BY <1>4 DEF LocalRow
      <3>2. subs[row] \in Subscription /\ row \in Nat
        BY <3>1 DEF IInv, SubInd, SubType, StoreType
      <3> QED
        BY <3>2 DEF Subscription
    <2> HIDE DEF row, user
    <2>3. h \in Hook /\ h.pc \in {"revoke", "mark"} /\ h.event = e /\ h.user = user
      BY <1>1, <2>2 DEF NoHook, Hook
    <2> HIDE DEF h
    <2>4. HookFits(h, frame'[p], sent)
      BY <1>1, <2>2, <2>3 DEF HookFits, Handling
    <2> QED
      BY <1>1, <1>2, <2>1, <2>3, <2>4, HookInd DEF RowsKept, Extends
  <1> QED
    BY <1>3, <1>4

\* cancel() is called for the customer's row of now.
LEMMA CancelCall ==
    ASSUME IInv, NEW p \in Procs, NEW u \in Users, NEW immediately \in BOOLEAN,
           CancelRead(p, u, immediately)
    PROVE  /\ SubInd' /\ UNCHANGED <<subs, events>>
           /\ \A q \in Procs \ {p} : frame'[q] = frame[q]
           /\ CallFits(frame'[p], events', stripe)
  <1> DEFINE r == ActiveRow(u)
             type == IF immediately THEN "canceled" ELSE "cancel_scheduled"
             g == [NoCall EXCEPT !.pc = "cancel", !.user = u, !.row = r,
                                 !.provider = subs[r].provider, !.type = type]
  <1>1. frame' = [frame EXCEPT ![p] = g] /\ UNCHANGED <<subs, events>>
    BY DEF CancelRead, storeVars
  <1>2. SubInd'
    BY CancelReadInd DEF IInv
  <1> HIDE DEF r
  <1>3. CallFits(g, events', stripe)
    BY DEF NoCall, CallFits
  <1> HIDE DEF g
  <1>4. frame'[p] = g /\ \A q \in Procs \ {p} : frame'[q] = frame[q]
    BY <1>1 DEF IInv, SubInd, SubType
  <1> QED
    BY <1>1, <1>2, <1>3, <1>4

LEMMA RevokeInd == ASSUME IInv, NEW p \in Procs, Revoke(p) PROVE IInv'
  <1>1. /\ hook[p].pc = "revoke" /\ UNCHANGED <<stripe, sent, acked>>
        /\ hook[p].user \in Users /\ sent[hook[p].event].kind # "sync"
    BY DEF Revoke, Threw, IInv, HooksFit, HookFits, Handling
  <1>2. CASE ActiveRow(hook[p].user) = 0
    <2>1. hook' = [hook EXCEPT ![p] = NoHook] /\ UNCHANGED <<storeVars, entVars, jobVars, frame>>
      BY <1>2 DEF Revoke, Threw
    <2>2. SubInd' /\ UNCHANGED <<subs, events>>
      BY <2>1, Aside DEF IInv, SubInd, SubType, StoreType, EntType, storeVars, entVars
    <2>3. NoHook \in Hook /\ HookFits(NoHook, frame'[p], sent)
      BY NoHookFits
    <2> QED
      BY <1>1, <2>1, <2>2, <2>3, HookInd DEF RowsKept, Extends
  <1>3. CASE ActiveRow(hook[p].user) # 0
    <2>1. CancelRead(p, hook[p].user, TRUE) /\ At(p, "granting")
      BY <1>3 DEF Revoke
    <2>2. /\ SubInd' /\ UNCHANGED <<subs, events>>
          /\ \A q \in Procs \ {p} : frame'[q] = frame[q]
          /\ CallFits(frame'[p], events', stripe)
      BY <1>1, <2>1, CancelCall
    <2>3. PICK h \in Hook : hook' = [hook EXCEPT ![p] = h] /\ \A f : HookFits(h, f, sent)
      BY <1>1, <2>1, AtFits DEF Handling
    <2>4. RowsKept(subs, subs') /\ DOMAIN subs' = DOMAIN subs /\ Extends(events, events')
      BY <2>2 DEF RowsKept, Extends
    <2>5. HookFits(h, frame'[p], sent)
      BY <2>3
    <2> QED
      BY <1>1, <2>2, <2>3, <2>4, <2>5, HookInd
  <1> QED
    BY <1>2, <1>3

\* The row that was found is marked unless an index refuses it; no row changes
\* hands.
LEMMA MarkedTable ==
    ASSUME IInv, NEW p \in Procs, MarkPastDue(p), subs' # subs
    PROVE  /\ subs' \in Seq(Subscription) /\ DOMAIN subs' = DOMAIN subs
           /\ RowsKept(subs, subs') /\ OneLivePerUser(subs')
  <1> DEFINE i == hook[p].row
             old == subs[i]
             new == [old EXCEPT !.status = "PAST_DUE"]
  <1>1. subs' = [subs EXCEPT ![i] = new] /\ OneLivePerUser(subs')
    BY DEF MarkPastDue
  <1>2. subs \in Seq(Subscription)
    BY DEF IInv, SubInd, SubType, StoreType
  <1>3. i \in DOMAIN subs => /\ new \in Subscription /\ new.user = old.user
                              /\ new.plan = old.plan /\ new.psid = old.psid
    <2> SUFFICES ASSUME old \in Subscription
                 PROVE  /\ new \in Subscription /\ new.user = old.user
                        /\ new.plan = old.plan /\ new.psid = old.psid
      BY <1>2
    <2> HIDE DEF old
    <2> QED
      BY DEF Subscription, SubscriptionStatus, Indexed, Entitling
  <1> HIDE DEF new, i
  <1>4. /\ subs' \in Seq(Subscription) /\ DOMAIN subs' = DOMAIN subs
        /\ \A j \in DOMAIN subs : subs'[j] = IF j = i THEN new ELSE subs[j]
    BY <1>1, <1>2, <1>3, UpdateRow
  <1>5. RowsKept(subs, subs')
    BY <1>3, <1>4 DEF RowsKept
  <1> QED
    BY <1>1, <1>4, <1>5

LEMMA MarkPastDueInd == ASSUME IInv, NEW p \in Procs, MarkPastDue(p) PROVE IInv'
  <1>1. /\ hook[p].pc = "mark" /\ UNCHANGED <<stripe, sent, acked, frame, events, now, activePlans, entVars, jobVars>>
    BY DEF MarkPastDue, Threw
  <1>2. PICK h \in Hook : hook' = [hook EXCEPT ![p] = h] /\ \A f : HookFits(h, f, sent)
    BY <1>1, AtFits, NoHookFits DEF MarkPastDue, Threw, Handling
  <1>3. SubInd' /\ RowsKept(subs, subs') /\ DOMAIN subs' = DOMAIN subs
    <2>1. CASE UNCHANGED subs
      BY <1>1, <2>1, Aside DEF IInv, SubInd, SubType, StoreType, EntType, entVars, RowsKept
    <2>2. CASE subs' # subs
      <3>1. /\ subs' \in Seq(Subscription) /\ DOMAIN subs' = DOMAIN subs
            /\ RowsKept(subs, subs') /\ OneLivePerUser(subs')
        BY <2>2, MarkedTable
      <3>2. SubType'
        BY <1>1, <3>1 DEF IInv, SubInd, SubType, StoreType, EntType, entVars, jobVars
      <3>3. FramesFit'
        BY <1>1, <3>1, FramesKept DEF IInv
      <3> QED
        BY <3>1, <3>2, <3>3 DEF SubInd, OneLivePerUser
    <2> QED
      BY <2>1, <2>2
  <1>4. Extends(events, events') /\ HookFits(h, frame'[p], sent)
    BY <1>1, <1>2 DEF Extends
  <1> QED
    BY <1>1, <1>2, <1>3, <1>4, HookInd

LEMMA MarkLogInd == ASSUME IInv, NEW p \in Procs, MarkLog(p) PROVE IInv'
  <1> DEFINE e == EventRow(hook[p].row, "payment_failed", "stripe", hook[p].event)
  <1>1. /\ hook[p].pc = "log" /\ events' \in {events, Append(events, e)}
        /\ UNCHANGED <<now, activePlans, subs, entVars, frame, jobVars, stripe, sent, acked>>
    BY DEF MarkLog, Threw
  <1>2. PICK h \in Hook : hook' = [hook EXCEPT ![p] = h] /\ \A f : HookFits(h, f, sent)
    BY <1>1, AtFits, NoHookFits DEF MarkLog, Threw, Handling
  <1>3. events \in Seq(SubscriptionEvent) /\ hook[p] \in Hook
    BY DEF IInv, StripeType, SubInd, SubType, StoreType
  <1>4. e \in SubscriptionEvent
    BY <1>3 DEF EventRow, SubscriptionEvent, EventTypes, Providers, Hook
  <1> HIDE DEF e
  <1>5. events' \in Seq(SubscriptionEvent) /\ Extends(events, events')
    BY <1>1, <1>3, <1>4 DEF Extends
  <1>6. SubInd'
    BY <1>1, <1>5, Aside DEF IInv, SubInd, SubType, StoreType, EntType, entVars
  <1>7. HookFits(h, frame'[p], sent) /\ RowsKept(subs, subs')
    BY <1>1, <1>2 DEF RowsKept
  <1> QED
    BY <1>1, <1>2, <1>5, <1>6, <1>7, HookInd

LEMMA MarkFlushInd == ASSUME IInv, NEW p \in Procs, MarkFlush(p) PROVE IInv'
  <1>1. /\ hook[p].pc = "flush" /\ Invalidate({hook[p].user}) /\ hook' = [hook EXCEPT ![p] = NoHook]
        /\ acked' = acked \cup {hook[p].event}
        /\ UNCHANGED <<storeVars, view, frame, jobVars, stripe, sent>>
    BY DEF MarkFlush, Answered
  <1>2. sent[hook[p].event].kind # "sync" /\ hook[p].pc \in Handling
    BY <1>1 DEF IInv, HooksFit, HookFits, Handling
  <1>3. EntType'
    BY <1>1, InvalidateType DEF IInv, SubInd, SubType
  <1>4. SubInd'
    BY <1>1, <1>3, Aside DEF IInv, SubInd, SubType, StoreType, storeVars
  <1>5. RowsKept(subs, subs') /\ DOMAIN subs' = DOMAIN subs /\ Extends(events, events')
    BY <1>1 DEF RowsKept, Extends, storeVars
  <1>6. NoHook \in Hook /\ HookFits(NoHook, frame'[p], sent)
    BY NoHookFits
  <1> QED
    BY <1>1, <1>2, <1>4, <1>5, <1>6, HookInd

----
(* The customer cancels *)

LEMMA CancelInd ==
    ASSUME IInv, NEW p \in Procs, NEW u \in Users, NEW immediately \in BOOLEAN, Cancel(p, u, immediately)
    PROVE  IInv'
  <1> DEFINE h == [NoHook EXCEPT !.pc = "cancel", !.user = u, !.now = immediately]
             s == subs[ActiveRow(u)].psid
  <1>1. /\ hook' = [hook EXCEPT ![p] = h] /\ ActiveRow(u) # 0 /\ UNCHANGED <<subVars, acked>>
        /\ \/ s # None /\ stripe' = [stripe EXCEPT ![s].atEnd = TRUE] /\ Send(s, <<"sync">>)
           \/ UNCHANGED <<stripe, sent>>
    BY DEF Cancel
  <1>2. /\ hook \in [Procs -> Hook] /\ stripe \in Seq(StripeSubscription)
        /\ sent \in Seq([kind : EventKinds, sub : DOMAIN stripe])
    BY DEF IInv, StripeType
  <1>3. h \in Hook /\ h.pc = "cancel" /\ h.user = u
    BY DEF NoHook, Hook
  <1> HIDE DEF h
  <1>4. /\ hook' \in [Procs -> Hook]
        /\ \A q \in Procs : hook'[q] = hook[q] \/ (hook'[q].pc = "cancel" /\ hook'[q].user \in Users)
    BY <1>1, <1>2, <1>3
  <1>5. s \in DOMAIN stripe \cup {None}
    BY <1>1, ActiveRowIsLive DEF IInv, SubInd, SubType, LiveRows, RowsFit
  <1> HIDE DEF s
  <1>6. CASE s # None /\ stripe' = [stripe EXCEPT ![s].atEnd = TRUE] /\ Send(s, <<"sync">>)
    <2> DEFINE old == stripe[s]
               new == [old EXCEPT !.atEnd = TRUE]
    <2>1. stripe' = [stripe EXCEPT ![s] = new] /\ old \in StripeSubscription /\ s \in DOMAIN stripe
      BY <1>2, <1>5, <1>6
    <2> HIDE DEF old
    <2>2. new \in StripeSubscription
      BY <2>1 DEF StripeSubscription
    <2> HIDE DEF new
    <2>3. DOMAIN stripe' = DOMAIN stripe /\ stripe' \in Seq(StripeSubscription)
      BY <1>2, <2>1, <2>2, UpdateRow
    <2>4. <<"sync">> \in Seq(EventKinds)
      BY DEF EventKinds
    <2> QED
      BY <1>1, <1>4, <1>6, <2>1, <2>3, <2>4, StripeInd
  <1>7. CASE UNCHANGED <<stripe, sent>>
    <2>1. SubInd' /\ UNCHANGED <<subs, events, frame>>
      BY <1>1, Aside DEF IInv, SubInd, SubType, StoreType, EntType, subVars, storeVars, entVars, jobVars
    <2>2. RowsKept(subs, subs') /\ DOMAIN subs' = DOMAIN subs /\ Extends(events, events')
      BY <2>1 DEF RowsKept, Extends
    <2>3. HookFits(h, frame'[p], sent)
      BY <1>3 DEF HookFits, Handling
    <2> QED
      BY <1>1, <1>3, <1>7, <2>1, <2>2, <2>3, HookInd
  <1> QED
    BY <1>1, <1>6, <1>7

LEMMA CancelLocallyInd == ASSUME IInv, NEW p \in Procs, CancelLocally(p) PROVE IInv'
  <1>1. hook[p].pc = "cancel" /\ hook' = [hook EXCEPT ![p] = NoHook] /\ UNCHANGED <<stripe, sent, acked>>
    BY DEF CancelLocally, stripeVars
  <1>2. hook[p].user \in Users /\ hook[p].now \in BOOLEAN
    <2>1. hook[p] \in Hook
      BY DEF IInv, StripeType
    <2> QED
      BY <1>1, <2>1 DEF Hook, IInv, HooksFit, HookFits
  <1>3. NoHook \in Hook /\ HookFits(NoHook, frame'[p], sent)
    BY NoHookFits
  <1>4. /\ SubInd' /\ UNCHANGED <<subs, events>>
        /\ \A q \in Procs \ {p} : frame'[q] = frame[q]
        /\ frame'[p] = frame[p] \/ CallFits(frame'[p], events', stripe)
    <2>1. CASE UNCHANGED subVars
      BY <2>1, Aside DEF IInv, SubInd, SubType, StoreType, EntType, subVars, storeVars, entVars, jobVars
    <2>2. CASE CancelRead(p, hook[p].user, hook[p].now)
      BY <1>2, <2>2, CancelCall
    <2> QED
      BY <2>1, <2>2 DEF CancelLocally
  <1>5. RowsKept(subs, subs') /\ DOMAIN subs' = DOMAIN subs /\ Extends(events, events')
    BY <1>4 DEF RowsKept, Extends
  <1> QED
    BY <1>1, <1>3, <1>4, <1>5, HookInd

LEMMA ApiCrashInd == ASSUME IInv, ApiCrash PROVE IInv'
  <1>1. /\ hook' = [p \in Procs |-> NoHook] /\ frame' = [p \in Procs |-> NoCall]
        /\ view' = [v \in Viewers |-> Idle]
        /\ UNCHANGED <<storeVars, cache, jobVars, stripe, sent, acked>>
    BY DEF ApiCrash, stripeVars
  <1>2. SubInd'
    BY <1>1, CallsLost DEF IInv
  <1>3. /\ hook' \in [Procs -> Hook]
        /\ \A p \in Procs : HookFits(hook'[p], frame'[p], sent') /\ CallFits(frame'[p], events', stripe')
    BY <1>1, NoHookFits, NoCallFits
  <1>4. Extends(events, events') /\ RowsFit(subs', stripe')
    BY <1>1 DEF IInv, RowsFit, Extends, storeVars
  <1> QED
    BY <1>1, <1>2, <1>3, <1>4, StripeKept, StepInd

----
(* The subscription service underneath *)

\* The log only grows.
LEMMA FrameStepExtends == ASSUME IInv, NEW p \in Procs, FrameStep(p) PROVE Extends(events, events')
  <1>1. CASE GrantCommit(p)
    <2> DEFINE e == EventRow(GrantedRow(frame[p]), frame[p].type, frame[p].provider, frame[p].id)
    <2>1. events' = Append(events, e) /\ events \in Seq(SubscriptionEvent)
      BY <1>1 DEF GrantCommit, IInv, SubInd, SubType, StoreType
    <2> HIDE DEF e
    <2> QED
      BY <2>1 DEF Extends
  <1>2. CASE ~GrantCommit(p)
    BY <1>2, FrameStepLog, GrantsKept DEF IInv, Extends
  <1> QED
    BY <1>1, <1>2

\* The rows a call leaves name the subscriptions that rows and calls named.
LEMMA FrameStepRows == ASSUME IInv, NEW p \in Procs, FrameStep(p) PROVE RowsFit(subs', stripe)
  <1>1. RowsKept(subs, subs')
    BY FrameStepInd DEF IInv
  <1>2. CASE GrantCommit(p)
    <2> DEFINE table == Granted(frame[p])
               i == GrantedRow(frame[p])
    <2>1. subs' = table
      BY <1>2 DEF GrantCommit
    <2>2. DOMAIN table = DOMAIN subs \cup {i} /\ table[i].psid = frame[p].psid
      BY <1>2, GrantedTable DEF GrantCommit, IInv
    <2>3. frame[p].psid \in DOMAIN stripe \cup {None}
      BY DEF IInv, CallsFit, CallFits
    <2> HIDE DEF table, i
    <2> QED
      BY <1>1, <2>1, <2>2, <2>3 DEF IInv, RowsFit, RowsKept
  <1>3. CASE ~GrantCommit(p)
    <2>1. DOMAIN subs' = DOMAIN subs
      BY <1>3 DEF FrameStep, GrantStep, GrantPlan, GrantLookup, GrantReplayed, GrantRead, GrantAbort,
                  CancelWrite, CancelLog, Flush, storeVars
    <2> QED
      BY <1>1, <2>1 DEF IInv, RowsFit, RowsKept
  <1> QED
    BY <1>2, <1>3

\* A synchronisation comes to its end by its commit, which logs its event, or
\* because its event was in the log.
LEMMA FrameStepCall ==
    ASSUME IInv, NEW p \in Procs, FrameStep(p), frame[p].type = "stripe_sync",
           frame'[p].pc \in {"replayed", "flush", "ok"}
    PROVE  Logged(events', "stripe", frame[p].id)
  <1> DEFINE f == frame[p]
  <1>1. f \in Frame /\ FrameFits(f, subs) /\ f.pc # "idle" /\ frame \in [Procs -> Frame]
    BY DEF IInv, SubInd, SubType, FramesFit, FrameStep, GrantStep, GrantPlan, GrantLookup, GrantReplayed,
           GrantRead, GrantCommit, GrantAbort, CancelWrite, CancelLog, Flush
  <1>2. f.provider = "stripe" /\ f.id \in Nat
    BY <1>1 DEF IInv, CallsFit, CallFits
  <1>3. Logged(events, "stripe", f.id) => Logged(events', "stripe", f.id)
    BY FrameStepExtends DEF Logged, Extends
  <1>4. CASE GrantCommit(p)
    <2> DEFINE e == EventRow(GrantedRow(f), f.type, f.provider, f.id)
    <2>1. events' = Append(events, e) /\ events \in Seq(SubscriptionEvent)
      BY <1>4 DEF GrantCommit, IInv, SubInd, SubType, StoreType
    <2>2. e.provider = "stripe" /\ e.id = f.id
      BY <1>2 DEF EventRow
    <2> HIDE DEF e, f
    <2>3. Len(events) + 1 \in DOMAIN events' /\ events'[Len(events) + 1] = e
      BY <2>1
    <2> QED
      BY <2>2, <2>3 DEF Logged, f
  <1>5. CASE GrantLookup(p)
    <2>1. frame'[p].pc = IF Seen(f.provider, f.id) THEN "replayed" ELSE "read"
      BY <1>1, <1>5 DEF GrantLookup, GoTo
    <2> QED
      BY <1>2, <1>3, <2>1, SeenIsLogged
  <1>6. CASE GrantReplayed(p) \/ Flush(p)
    BY <1>1, <1>3, <1>6 DEF GrantReplayed, Flush, IInv, CallsFit, CallFits
  <1>7. CASE GrantPlan(p) \/ GrantRead(p) \/ GrantAbort(p)
    <2>1. CASE GrantRead(p)
      <3>1. PICK row, renews, psid : frame'[p] =
               [f EXCEPT !.pc = "write", !.row = row, !.renews = renews, !.psid = psid]
        BY <1>1, <2>1 DEF GrantRead
      <3>2. frame'[p].pc = "write"
        BY <1>1, <3>1 DEF Frame
      <3> QED
        BY <3>2
    <2>2. CASE GrantPlan(p) \/ GrantAbort(p)
      <3>1. PICK point \in {"lookup", "failed"} : frame' = [frame EXCEPT ![p].pc = point]
        BY <2>2 DEF GrantPlan, GrantAbort, GoTo
      <3>2. frame'[p].pc = point
        BY <1>1, <3>1 DEF Frame
      <3> QED
        BY <3>1, <3>2
    <2> QED
      BY <1>7, <2>1, <2>2
  <1>8. CASE CancelWrite(p) \/ CancelLog(p)
    BY <1>1, <1>8 DEF CancelWrite, CancelLog, FrameFits
  <1> QED
    BY <1>4, <1>5, <1>6, <1>7, <1>8 DEF FrameStep, GrantStep

\* A step of the service that leaves Stripe and its events alone.
LEMMA ServiceInd ==
    ASSUME IInv, SubInd', Extends(events, events'), RowsFit(subs', stripe), UNCHANGED <<stripeVars, hook>>,
           \A p \in Procs : frame'[p] = frame[p] \/ CallFits(frame'[p], events', stripe),
           \A p \in Procs : \/ hook[p].pc = "idle"
                            \/ frame'[p].type = frame[p].type /\ frame'[p].id = frame[p].id
    PROVE  IInv'
  <1>1. UNCHANGED <<stripe, sent, acked, hook>>
    BY DEF stripeVars
  <1>2. \A p \in Procs : HookFits(hook'[p], frame'[p], sent')
    BY <1>1 DEF IInv, HooksFit, HookFits, Handling
  <1> QED
    BY <1>1, <1>2, StripeKept, StepInd

LEMMA ServiceStepInd == ASSUME IInv, ServiceStep PROVE IInv'
  <1>1. UNCHANGED <<stripeVars, hook>> /\ SubInd /\ frame \in [Procs -> Frame]
    BY DEF ServiceStep, IInv, SubInd, SubType
  <1>2. CASE \E p \in Procs : FrameStep(p)
    <2>1. PICK p \in Procs : FrameStep(p)
      BY <1>2
    <2>2. PICK g : /\ frame' = [frame EXCEPT ![p] = g]
                   /\ g.provider = frame[p].provider /\ g.id = frame[p].id /\ g.type = frame[p].type
                   /\ g.psid = frame[p].psid \/ \E i \in DOMAIN subs : g.psid = subs[i].psid
      BY <1>1, <2>1, FrameStepArguments
    <2>3. frame[p].pc # "idle"
      BY <2>1 DEF FrameStep, GrantStep, GrantPlan, GrantLookup, GrantReplayed,
           GrantRead, GrantCommit, GrantAbort, CancelWrite, CancelLog, Flush
    <2>4. frame'[p] = g /\ \A q \in Procs \ {p} : frame'[q] = frame[q]
      BY <1>1, <2>2
    <2>5. CallFits(g, events', stripe)
      BY <2>1, <2>2, <2>3, <2>4, FrameStepCall DEF IInv, CallsFit, CallFits, RowsFit
    <2>6. SubInd' /\ Extends(events, events') /\ RowsFit(subs', stripe)
      BY <1>1, <2>1, FrameStepInd, FrameStepExtends, FrameStepRows
    <2> QED
      BY <1>1, <2>2, <2>4, <2>5, <2>6, ServiceInd
  <1>3. CASE \E p \in Procs : hook[p].pc = "idle" /\ (OtherGrant(p) \/ Return(p))
    <2>1. PICK p \in Procs : hook[p].pc = "idle" /\ (OtherGrant(p) \/ Return(p))
      BY <1>3
    <2>2. SubInd' /\ UNCHANGED <<subs, events>>
      BY <1>1, <2>1, AdminGrantInd, PaidGrantInd, ReturnInd DEF OtherGrant, AdminGrant, PaidGrant, Return, storeVars
    <2>3. CallFits(frame'[p], events', stripe) /\ \A q \in Procs \ {p} : frame'[q] = frame[q]
      <3>1. CASE Return(p)
        BY <1>1, <3>1, NoCallFits DEF Return
      <3>2. CASE OtherGrant(p)
        BY <1>1, <3>2 DEF OtherGrant, AdminGrant, PaidGrant, CallPaid, Call, CallFits
      <3> QED
        BY <2>1, <3>1, <3>2
    <2>4. Extends(events, events') /\ RowsFit(subs', stripe)
      BY <2>2 DEF IInv, Extends, RowsFit
    <2> QED
      BY <1>1, <2>1, <2>2, <2>3, <2>4, ServiceInd
  <1>4. CASE \E j \in Jobs : MaintenanceStep(j) \/ WorkerCrash(j)
    <2>1. PICK j \in Jobs : MaintenanceStep(j) \/ WorkerCrash(j)
      BY <1>4
    <2>2. SubInd' /\ RowsKept(subs, subs') /\ UNCHANGED frame
      BY <1>1, <2>1, MaintenanceInd
    <2>3. Extends(events, events')
      BY <1>1, <2>1, MaintenanceLog, GrantsKept DEF Extends
    <2>4. DOMAIN subs' = DOMAIN subs
      BY <2>1 DEF MaintenanceStep, MaintenanceStart, ExpireWrite, ExpireLog, ExpireFlush, RemindLook,
                  RemindOne, WorkerCrash, storeVars
    <2>5. RowsFit(subs', stripe)
      BY <2>2, <2>4 DEF IInv, RowsFit, RowsKept
    <2> QED
      BY <1>1, <2>2, <2>3, <2>5, ServiceInd
  <1>5. CASE Environment
    <2>1. SubInd' /\ UNCHANGED <<subs, frame>> /\ Extends(events, events')
      BY <1>1, <1>5, EnvironmentInd, EnvironmentLog, GrantsKept DEF Extends
    <2> QED
      BY <1>1, <2>1, ServiceInd DEF IInv, RowsFit
  <1> QED
    BY <1>2, <1>3, <1>4, <1>5 DEF ServiceStep

----
(* The theorems *)

\* The invariant holds initially: nothing was sent and nothing is there.
LEMMA InitInv == Init => IInv
  <1> SUFFICES ASSUME Init PROVE IInv
    OBVIOUS
  <1>1. SubInd
    BY SubInitInd DEF Init
  <1>2. /\ stripe = <<>> /\ sent = <<>> /\ acked = {} /\ hook = [p \in Procs |-> NoHook]
        /\ subs = <<>> /\ frame = [p \in Procs |-> NoCall]
    BY DEF Init, SubInit, StoreInit
  <1>3. StripeType
    <2>1. stripe \in Seq(StripeSubscription) /\ sent \in Seq([kind : EventKinds, sub : DOMAIN stripe])
      BY <1>2
    <2>2. hook \in [Procs -> Hook]
      BY <1>2, NoHookFits
    <2> QED
      BY <1>1, <1>2, <2>1, <2>2 DEF StripeType, SubInd
  <1>4. HooksFit /\ CallsFit
    BY <1>2, NoHookFits, NoCallFits DEF HooksFit, CallsFit
  <1>5. RowsFit(subs, stripe) /\ AckedIsApplied
    BY <1>2 DEF RowsFit, AckedIsApplied
  <1> QED
    BY <1>1, <1>3, <1>4, <1>5 DEF IInv

\* Every step preserves the invariant, one action at a time.
LEMMA NextInv == IInv /\ [Next]_vars => IInv'
  <1> SUFFICES ASSUME IInv, [Next]_vars PROVE IInv'
    OBVIOUS
  <1>1. CASE StripeStep
    BY <1>1, StripeStepInd
  <1>2. CASE \E p \in Procs : Deliver(p)
    BY <1>2, ApplySubscriptionInd, FindLocalInd DEF Deliver
  <1>3. CASE \E p \in Procs : HookStep(p)
    BY <1>3, HookReturnsInd, RevokeInd, MarkPastDueInd, MarkLogInd, MarkFlushInd, CancelLocallyInd DEF HookStep
  <1>4. CASE \E p \in Procs, u \in Users, immediately \in BOOLEAN :
                Len(events) <= MaxRequests /\ Cancel(p, u, immediately)
    BY <1>4, CancelInd
  <1>5. CASE ApiCrash
    BY <1>5, ApiCrashInd
  <1>6. CASE ServiceStep
    BY <1>6, ServiceStepInd
  <1>7. CASE UNCHANGED vars
    <2>1. UNCHANGED <<subVars, stripe, sent, acked, hook>>
      BY <1>7 DEF vars, stripeVars
    <2>2. UNCHANGED <<subs, events, frame>> /\ SubInd'
      BY <2>1, Aside DEF IInv, SubInd, SubType, StoreType, EntType, subVars, storeVars, entVars, jobVars
    <2> QED
      BY <2>1, <2>2, ServiceInd DEF stripeVars, IInv, RowsFit, Extends
  <1> QED
    BY <1>1, <1>2, <1>3, <1>4, <1>5, <1>6, <1>7 DEF Next

\* The invariant holds of every behaviour of the webhook and of the service.
THEOREM SpecIInv == Spec => []IInv
  BY InitInv, NextInv, PTL DEF Spec

\* Type correctness of Stripe's side, of the requests that handle its events
\* and of the subscription service underneath.
THEOREM StripeTypeCorrect == Spec => []StripeType
  BY SpecIInv, PTL DEF IInv

\* "Returning 5xx makes Stripe retry": whatever the order of the deliveries,
\* the races between them and the crashes, an event that ends in
\* applySubscription and was answered with success is in the log.
THEOREM NoEventIsLost == Spec => []AckedIsApplied
  BY SpecIInv, PTL DEF IInv

\* No step makes a row stand for another customer, plan or subscription.
LEMMA StepKeepsRows == ASSUME IInv, [Next]_vars PROVE RowsKept(subs, subs')
  <1>1. CASE UNCHANGED subs
    BY <1>1 DEF RowsKept
  <1>2. CASE \E p \in Procs : FrameStep(p)
    BY <1>2, FrameStepInd DEF IInv
  <1>3. CASE \E j \in Jobs : MaintenanceStep(j) \/ WorkerCrash(j)
    BY <1>3, MaintenanceInd DEF IInv
  <1>4. CASE \E p \in Procs : MarkPastDue(p) /\ subs' # subs
    BY <1>4, MarkedTable
  <1>5. CASE Environment
    BY <1>5, EnvironmentInd DEF IInv, RowsKept
  <1> QED
    <2>1. CASE StripeStep \/ ApiCrash \/ UNCHANGED vars
      BY <1>1, <2>1 DEF StripeStep, Checkout, StripeStarts, StripeRenews, StripeRecovers, StripeDeletes, Changed,
                        ApiCrash, vars, subVars, storeVars
    <2>2. CASE \E p \in Procs : Deliver(p) \/ HookStep(p)
      BY <1>1, <1>4, <2>2 DEF Deliver, HookStep, ApplySubscription, FindLocal, HookReturns, Revoke, CancelRead,
                        MarkLog, MarkFlush, CancelLocally, subVars, storeVars
    <2>3. CASE \E p \in Procs, u \in Users, immediately \in BOOLEAN : Cancel(p, u, immediately)
      BY <1>1, <2>3 DEF Cancel, subVars, storeVars
    <2>4. CASE ServiceStep
      BY <1>1, <1>2, <1>3, <1>5, <2>4 DEF ServiceStep, OtherGrant, AdminGrant, PaidGrant, Return, storeVars
    <2> QED
      BY <2>1, <2>2, <2>3, <2>4 DEF Next

\* "Same plan, same provider subscription: this is a renewal, not a switch":
\* the row that findByProviderSubscriptionId has found stays the row of that
\* customer, plan and subscription, whatever is granted, cancelled, marked or
\* expired in the meantime.
THEOREM RowsNeverChangeHands == Spec => RowKeepsItsSubscription
  <1>1. IInv /\ [Next]_vars =>
        [\A i \in DOMAIN subs :
            /\ subs'[i].user = subs[i].user
            /\ subs'[i].plan = subs[i].plan
            /\ subs'[i].psid = subs[i].psid]_vars
    BY StepKeepsRows DEF RowsKept
  <1> QED
    BY <1>1, SpecIInv, PTL DEF Spec, RowKeepsItsSubscription
====
