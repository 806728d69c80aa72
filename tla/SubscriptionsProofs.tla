---- MODULE SubscriptionsProofs ----
(***************************************************************************)
(* Proofs about Subscriptions: what a grant, a cancellation and the        *)
(* maintenance job preserve, for any number of users, plans, requests and  *)
(* job runs, and the theorems that follow.                                 *)
(***************************************************************************)
EXTENDS Subscriptions, SequenceTheorems, FiniteSetTheorems, TLAPS

\* What a request in progress has read stays true of the tables: a grant knows
\* what it grants, a renewal knows a row of its user, plan and psid, a cancellation
\* knows what it will log.
FrameFits(f, table) ==
    /\ f.pc \in GrantPoints =>
          /\ f.user \in Users
          /\ f.plan \in Plans
          /\ f.provider \in Providers
          /\ f.type \in PeriodGrants
          /\ f.status \in SubscriptionStatus
    /\ f.pc = "write" /\ f.renews =>
          /\ f.row \in DOMAIN table
          /\ table[f.row].user = f.user
          /\ table[f.row].plan = f.plan
          /\ table[f.row].psid = f.psid
    /\ f.pc \in {"cancel", "log"} =>
          /\ f.provider \in Providers
          /\ f.type \in {"canceled", "cancel_scheduled"}

FramesFit == \A p \in Procs : FrameFits(frame[p], subs)

\* The inductive invariant.
SubInd == SubType /\ FramesFit /\ OneLivePerUser(subs)

\* A table is only ever extended, and a row keeps its user, its plan and the
\* provider's subscription it stands for.
RowsKept(before, after) ==
    /\ DOMAIN before \subseteq DOMAIN after
    /\ \A i \in DOMAIN before :
          /\ after[i].user = before[i].user
          /\ after[i].plan = before[i].plan
          /\ after[i].psid = before[i].psid

----
(* Lemmas about the operators *)

\* An update of one row leaves a table of as many rows; of a row that is not
\* there, the table as it was.
LEMMA UpdateRow ==
    ASSUME NEW S, NEW table \in Seq(S), NEW i, NEW row, i \in DOMAIN table => row \in S
    PROVE  /\ [table EXCEPT ![i] = row] \in Seq(S)
           /\ DOMAIN [table EXCEPT ![i] = row] = DOMAIN table
           /\ Len([table EXCEPT ![i] = row]) = Len(table)
           /\ \A j \in DOMAIN table : [table EXCEPT ![i] = row][j] = IF j = i THEN row ELSE table[j]
  <1>1. CASE i \in DOMAIN table
    BY <1>1, ExceptSeq
  <1>2. CASE i \notin DOMAIN table
    <2>1. [table EXCEPT ![i] = row] = table
      BY <1>2
    <2> QED
      BY <1>2, <2>1
  <1> QED
    BY <1>1, <1>2

\* A row returned by getActiveForUser is an entitling row of that user.  The
\* maximum exists because the index leaves at most one.
LEMMA ActiveRowIsLive ==
    ASSUME StoreType, OneLivePerUser(subs), NEW u
    PROVE  /\ ActiveRow(u) = 0 <=> LiveRows(u) = {}
           /\ ActiveRow(u) # 0 => ActiveRow(u) \in LiveRows(u)
           /\ ActiveRow(u) \in Nat
  <1>1. CASE LiveRows(u) = {}
    BY <1>1 DEF ActiveRow
  <1>2. CASE LiveRows(u) # {}
    <2>1. PICK i \in LiveRows(u) : TRUE
      BY <1>2
    <2>2. \A j \in LiveRows(u) : j = i
      BY <2>1 DEF LiveRows, OneLivePerUser, Indexed
    <2>3. i \in Nat /\ i # 0
      BY <2>1 DEF LiveRows, StoreType
    <2>4. \A j \in LiveRows(u) : j <= i
      BY <2>2, <2>3
    <2>5. ActiveRow(u) \in LiveRows(u)
      BY <1>2, <2>1, <2>4 DEF ActiveRow
    <2> QED
      BY <1>2, <2>2, <2>3, <2>5
  <1> QED
    BY <1>1, <1>2

\* What fits a table fits the table after it.
LEMMA FitsKept ==
    ASSUME NEW f, NEW before, NEW after, FrameFits(f, before), RowsKept(before, after)
    PROVE  FrameFits(f, after)
  BY DEF FrameFits, RowsKept

----
(* Two kinds of steps *)

\* A step of one request that leaves everything else alone.
LEMMA FrameOnly ==
    ASSUME SubInd, NEW p \in Procs, NEW g \in Frame, FrameFits(g, subs),
           frame' = [frame EXCEPT ![p] = g], UNCHANGED <<storeVars, entVars, jobVars>>
    PROVE  SubInd'
  <1>1. SubType'
    BY DEF SubInd, SubType, StoreType, EntType, storeVars, entVars, jobVars
  <1>2. \A q \in Procs : FrameFits(frame'[q], subs)
    BY DEF SubInd, SubType, FramesFit
  <1> QED
    BY <1>1, <1>2 DEF SubInd, FramesFit, FrameFits, OneLivePerUser, storeVars

\* A step that leaves the frames alone and the rows theirs.
LEMMA FramesKept ==
    ASSUME SubInd, RowsKept(subs, subs'), UNCHANGED frame
    PROVE  FramesFit'
  <1>1. \A q \in Procs : FrameFits(frame[q], subs')
    BY FitsKept DEF SubInd, FramesFit
  <1> QED
    BY <1>1 DEF FramesFit, FrameFits

----
(* The initial state *)

LEMMA SubInitInd == SubInit => SubInd
  BY SubscriptionAssumption, StoreAssumption, FS_EmptySet
  DEF SubInit, SubInd, SubType, StoreInit, StoreType, EntInit, EntType, FramesFit, FrameFits,
      OneLivePerUser, NoCall, Frame, IdleJob, Job, Idle, Answers, Points, GrantPoints

----
(* grantPlan *)

\* A grant begins with arguments of the right kind.
LEMMA CallInd ==
    ASSUME SubInd, NEW p \in Procs, NEW user \in Users, NEW plan \in Plans,
           NEW provider \in Providers, NEW type \in PeriodGrants, NEW id \in Nat \cup {None},
           NEW psid \in Nat \cup {None}, NEW status \in SubscriptionStatus, NEW end \in Nat \cup {None},
           Call(p, user, plan, provider, type, id, psid, status, end),
           UNCHANGED <<storeVars, entVars, jobVars>>
    PROVE  SubInd'
  <1> DEFINE g == [pc |-> "plan", user |-> user, plan |-> plan, provider |-> provider, type |-> type,
                   id |-> id, psid |-> psid, status |-> status, end |-> end, atEnd |-> FALSE, row |-> 0, renews |-> FALSE]
  <1>1. g \in Frame
    BY DEF Frame, Points, GrantPoints, PeriodGrants, EventTypes, Entitling, Indexed, SubscriptionStatus
  <1>2. FrameFits(g, subs)
    BY DEF FrameFits
  <1>3. frame' = [frame EXCEPT ![p] = g]
    BY DEF Call
  <1> HIDE DEF g
  <1> QED
    BY <1>1, <1>2, <1>3, FrameOnly

\* A request goes from one point of grantPlan to another, or comes to its end.
LEMMA GoToInd ==
    ASSUME SubInd, NEW p \in Procs, NEW point \in {"lookup", "replayed", "read", "ok", "failed"},
           frame[p].pc \in GrantPoints \cup {"flush"},
           point \in GrantPoints => frame[p].pc \in GrantPoints,
           GoTo(p, point), UNCHANGED <<storeVars, entVars, jobVars>>
    PROVE  SubInd'
  <1> DEFINE g == [frame[p] EXCEPT !.pc = point]
  <1>1. frame[p] \in Frame /\ FrameFits(frame[p], subs)
    BY DEF SubInd, SubType, FramesFit
  <1>2. g \in Frame
    BY <1>1 DEF Frame, Points, GrantPoints
  <1>3. FrameFits(g, subs)
    BY <1>1 DEF FrameFits, Frame, GrantPoints
  <1>4. frame' = [frame EXCEPT ![p] = g]
    BY DEF GoTo, SubInd, SubType
  <1> HIDE DEF g
  <1> QED
    BY <1>2, <1>3, <1>4, FrameOnly

LEMMA GrantPlanInd == ASSUME SubInd, NEW p \in Procs, GrantPlan(p) PROVE SubInd'
  BY GoToInd DEF GrantPlan, GrantPoints

LEMMA GrantLookupInd == ASSUME SubInd, NEW p \in Procs, GrantLookup(p) PROVE SubInd'
  BY GoToInd DEF GrantLookup, GrantPoints

LEMMA GrantReplayedInd == ASSUME SubInd, NEW p \in Procs, GrantReplayed(p) PROVE SubInd'
  BY GoToInd DEF GrantReplayed, GrantPoints

LEMMA GrantAbortInd == ASSUME SubInd, NEW p \in Procs, GrantAbort(p) PROVE SubInd'
  BY GoToInd DEF GrantAbort, GrantPoints
LEMMA GrantReadInd == ASSUME SubInd, NEW p \in Procs, GrantRead(p) PROVE SubInd'
  <1> DEFINE f == frame[p]
             r == ActiveRow(f.user)
             renews == r # 0 /\ subs[r].plan = f.plan /\ (f.psid = None \/ subs[r].psid = f.psid)
             psid == IF renews THEN subs[r].psid ELSE f.psid
             g == [f EXCEPT !.pc = "write", !.row = r, !.renews = renews, !.psid = psid]
  <1>1. f \in Frame /\ FrameFits(f, subs) /\ f.pc = "read"
    BY DEF SubInd, SubType, FramesFit, GrantRead
  <1>2. frame' = [frame EXCEPT ![p] = g] /\ UNCHANGED <<storeVars, entVars, jobVars>>
    BY DEF GrantRead
  <1>3. r \in Nat /\ (r # 0 => r \in DOMAIN subs /\ subs[r].user = f.user)
    BY ActiveRowIsLive DEF SubInd, SubType, LiveRows
  <1>4. r # 0 => subs[r] \in Subscription
    BY <1>3 DEF SubInd, SubType, StoreType
  <1>5. psid \in Nat \cup {None} /\ renews \in BOOLEAN
    BY <1>1, <1>4 DEF Subscription, Frame
  <1>6. renews => /\ r \in DOMAIN subs
                  /\ subs[r].user = f.user /\ subs[r].plan = f.plan /\ subs[r].psid = psid
    BY <1>3
  <1> HIDE DEF f, r, renews, psid
  <1>7. g \in Frame
    BY <1>1, <1>3, <1>5 DEF Frame, Points, GrantPoints
  <1>8. FrameFits(g, subs)
    BY <1>1, <1>6 DEF FrameFits, Frame, GrantPoints
  <1> HIDE DEF g
  <1> QED
    BY <1>2, <1>7, <1>8, FrameOnly

\* The table a grant leaves is a table, every row in it keeps what it stands
\* for, and the row granted is of the user, the plan and the status asked for.
LEMMA GrantedTable ==
    ASSUME SubInd, NEW p \in Procs, frame[p].pc = "write"
    PROVE  /\ Granted(frame[p]) \in Seq(Subscription)
           /\ RowsKept(subs, Granted(frame[p]))
           /\ DOMAIN Granted(frame[p]) = DOMAIN subs \cup {GrantedRow(frame[p])}
           /\ \A i \in DOMAIN subs \ {GrantedRow(frame[p])} :
                 Granted(frame[p])[i].reminded = subs[i].reminded
           /\ GrantedRow(frame[p]) \in DOMAIN Granted(frame[p])
           /\ LET row == Granted(frame[p])[GrantedRow(frame[p])] IN
              /\ row.user = frame[p].user
              /\ row.plan = frame[p].plan
              /\ row.psid = frame[p].psid
              /\ row.status = frame[p].status
  <1> DEFINE f == frame[p]
  <1>1. f \in Frame /\ FrameFits(f, subs) /\ f.pc = "write"
    BY DEF SubInd, SubType, FramesFit
  <1>2. /\ f.user \in Users /\ f.plan \in Plans /\ f.provider \in Providers
        /\ f.status \in SubscriptionStatus
        /\ f.psid \in Nat \cup {None} /\ f.end \in Nat \cup {None} /\ f.row \in Nat
        /\ f.atEnd \in BOOLEAN
    BY <1>1 DEF FrameFits, Frame, GrantPoints
  <1>3. subs \in Seq(Subscription)
    BY DEF SubInd, SubType, StoreType
  <1> HIDE DEF f
  <1>4. CASE f.renews
    <2> DEFINE row == subs[f.row]
               new == RenewedRow(f)
    <2>1. /\ f.row \in DOMAIN subs /\ row \in Subscription
          /\ row.user = f.user /\ row.plan = f.plan /\ row.psid = f.psid
      BY <1>1, <1>3, <1>4 DEF FrameFits
    <2>2. new = [row EXCEPT !.status = f.status, !.end = f.end, !.atEnd = f.atEnd,
                            !.psid = f.psid, !.reminded = FALSE]
      BY DEF RenewedRow
    <2>3. Granted(f) = [subs EXCEPT ![f.row] = new] /\ GrantedRow(f) = f.row
      BY <1>4 DEF Granted, GrantedRow
    <2> HIDE DEF row, new
    <2>4. /\ new \in Subscription /\ new.status = f.status
          /\ new.user = row.user /\ new.plan = row.plan /\ new.psid = row.psid
      BY <1>2, <2>1, <2>2 DEF Subscription
    <2>5. Granted(f) \in Seq(Subscription) /\ DOMAIN Granted(f) = DOMAIN subs
      BY <1>3, <2>1, <2>3, <2>4
    <2>6. RowsKept(subs, Granted(f))
      BY <1>3, <2>1, <2>3, <2>4, <2>5 DEF RowsKept, row
    <2> QED
      BY <1>2, <1>3, <2>1, <2>3, <2>4, <2>5, <2>6 DEF f
  <1>5. CASE ~f.renews
    <2> DEFINE old == subs[f.row]
               ended == [old EXCEPT !.status = "CANCELED"]
               retired == IF f.row = 0 THEN subs ELSE [subs EXCEPT ![f.row] = ended]
               new == CreatedRow(f)
    <2>1. Granted(f) = Append(retired, new) /\ GrantedRow(f) = Len(subs) + 1
      BY <1>5 DEF Granted, GrantedRow
    <2>2. /\ new \in Subscription /\ new.status = f.status
          /\ new.user = f.user /\ new.plan = f.plan /\ new.psid = f.psid
      BY <1>2 DEF CreatedRow, Subscription
    <2>3. ASSUME f.row \in DOMAIN subs
          PROVE  /\ ended \in Subscription
                 /\ ended.user = old.user /\ ended.plan = old.plan /\ ended.psid = old.psid
                 /\ ended.reminded = old.reminded
      <3>1. old \in Subscription
        BY <1>3, <2>3
      <3> HIDE DEF old
      <3> QED
        BY <3>1 DEF Subscription, SubscriptionStatus
    <2> HIDE DEF ended, new
    <2>4. /\ retired \in Seq(Subscription) /\ Len(retired) = Len(subs) /\ RowsKept(subs, retired)
          /\ \A i \in DOMAIN subs : retired[i].reminded = subs[i].reminded
      <3>1. CASE f.row = 0
        BY <1>3, <3>1 DEF RowsKept
      <3>2. CASE f.row # 0
        <4> DEFINE updated == [subs EXCEPT ![f.row] = ended]
        <4>1. f.row \in DOMAIN subs => ended \in Subscription
          BY <2>3
        <4>2. /\ updated \in Seq(Subscription)
              /\ DOMAIN updated = DOMAIN subs
              /\ Len(updated) = Len(subs)
              /\ \A i \in DOMAIN subs : updated[i] = IF i = f.row THEN ended ELSE subs[i]
          BY <1>3, <4>1, UpdateRow
        <4>3. retired = updated
          BY <3>2
        <4> HIDE DEF updated, retired
        <4> QED
          BY <2>3, <4>2, <4>3 DEF RowsKept, old
      <3> QED
        BY <3>1, <3>2
    <2> HIDE DEF retired
    <2>5. /\ Granted(f) \in Seq(Subscription)
          /\ Len(Granted(f)) = Len(subs) + 1
          /\ \A i \in DOMAIN subs : Granted(f)[i] = retired[i]
          /\ Granted(f)[Len(subs) + 1] = new
      BY <1>3, <2>1, <2>2, <2>4
    <2>6. RowsKept(subs, Granted(f))
      BY <1>3, <2>4, <2>5 DEF RowsKept
    <2> QED
      BY <1>2, <1>3, <2>1, <2>2, <2>4, <2>5, <2>6 DEF f
  <1> QED
    BY <1>4, <1>5
LEMMA GrantCommitInd ==
    ASSUME SubInd, NEW p \in Procs, GrantCommit(p)
    PROVE  SubInd' /\ RowsKept(subs, subs')
  <1> DEFINE f == frame[p]
             g == [f EXCEPT !.pc = "flush"]
             e == EventRow(GrantedRow(f), f.type, f.provider, f.id)
  <1>1. f \in Frame /\ FrameFits(f, subs) /\ f.pc = "write"
    BY DEF SubInd, SubType, FramesFit, GrantCommit
  <1>2. /\ subs' = Granted(f) /\ events' = Append(events, e) /\ frame' = [frame EXCEPT ![p] = g]
        /\ UNCHANGED <<now, activePlans, entVars, jobVars>>
        /\ OneLivePerUser(Granted(f))
    BY DEF GrantCommit, GoTo, Accepted, SubInd, SubType
  <1>3. Granted(f) \in Seq(Subscription) /\ RowsKept(subs, Granted(f)) /\ GrantedRow(f) \in Nat
    <2>1. Granted(f) \in Seq(Subscription) /\ RowsKept(subs, Granted(f)) /\ GrantedRow(f) \in DOMAIN Granted(f)
      BY <1>1, GrantedTable
    <2> QED
      BY <2>1
  <1> HIDE DEF f
  <1>4. e \in SubscriptionEvent
    BY <1>1, <1>3 DEF EventRow, SubscriptionEvent, FrameFits, Frame, GrantPoints, PeriodGrants, EventTypes
  <1>5. g \in Frame /\ FrameFits(g, Granted(f))
    BY <1>1 DEF FrameFits, Frame, Points, GrantPoints
  <1> HIDE DEF g, e
  <1>6. SubType'
    BY <1>2, <1>3, <1>4, <1>5 DEF SubInd, SubType, StoreType, EntType, entVars, jobVars
  <1>7. FramesFit'
    <2>1. \A q \in Procs : FrameFits(frame[q], Granted(f))
      BY <1>3, FitsKept DEF SubInd, FramesFit
    <2>2. \A q \in Procs : FrameFits(frame'[q], Granted(f))
      BY <1>2, <1>5, <2>1 DEF SubInd, SubType
    <2> QED
      BY <1>2, <2>2 DEF FramesFit, FrameFits
  <1>8. OneLivePerUser(subs)'
    BY <1>2 DEF OneLivePerUser
  <1> QED
    BY <1>2, <1>3, <1>6, <1>7, <1>8 DEF SubInd

\* A deletion from the cache leaves a cache.
LEMMA InvalidateType ==
    ASSUME EntType, NEW who, Invalidate(who), UNCHANGED view
    PROVE  EntType'
  BY DEF EntType, Invalidate, Answers

LEMMA FlushInd == ASSUME SubInd, NEW p \in Procs, Flush(p) PROVE SubInd'
  <1> DEFINE g == [frame[p] EXCEPT !.pc = "ok"]
  <1>1. frame[p] \in Frame
    BY DEF SubInd, SubType
  <1>2. g \in Frame /\ \A table : FrameFits(g, table)
    BY <1>1 DEF FrameFits, Frame, Points, GrantPoints
  <1>3. frame' = [frame EXCEPT ![p] = g] /\ EntType' /\ UNCHANGED <<storeVars, jobVars>>
    BY InvalidateType DEF Flush, GoTo, SubInd, SubType
  <1> HIDE DEF g
  <1>4. SubType'
    BY <1>2, <1>3 DEF SubInd, SubType, StoreType, storeVars, jobVars
  <1>5. \A q \in Procs : FrameFits(frame'[q], subs)
    BY <1>2, <1>3 DEF SubInd, SubType, FramesFit
  <1> QED
    BY <1>3, <1>4, <1>5 DEF SubInd, FramesFit, FrameFits, OneLivePerUser, storeVars

----
(* cancel, adminGrantPlan, payments *)

LEMMA CancelReadInd ==
    ASSUME SubInd, NEW p \in Procs, NEW u \in Users, NEW immediately \in BOOLEAN,
           CancelRead(p, u, immediately)
    PROVE  SubInd'
  <1> DEFINE r == ActiveRow(u)
             type == IF immediately THEN "canceled" ELSE "cancel_scheduled"
             g == [NoCall EXCEPT !.pc = "cancel", !.user = u, !.row = r,
                                 !.provider = subs[r].provider, !.type = type]
  <1>1. r \in Nat /\ subs[r].provider \in Providers
    <2>1. r # 0 /\ r \in Nat /\ r \in DOMAIN subs
      BY ActiveRowIsLive DEF CancelRead, SubInd, SubType, LiveRows
    <2>2. subs[r] \in Subscription
      BY <2>1 DEF SubInd, SubType, StoreType
    <2> QED
      BY <2>1, <2>2 DEF Subscription
  <1>2. frame' = [frame EXCEPT ![p] = g] /\ UNCHANGED <<storeVars, entVars, jobVars>>
    BY DEF CancelRead
  <1> HIDE DEF r
  <1>3. g \in Frame /\ FrameFits(g, subs)
    BY <1>1 DEF FrameFits, Frame, NoCall, Points, GrantPoints, EventTypes
  <1> HIDE DEF g
  <1> QED
    BY <1>2, <1>3, FrameOnly

LEMMA CancelWriteInd ==
    ASSUME SubInd, NEW p \in Procs, CancelWrite(p)
    PROVE  SubInd' /\ RowsKept(subs, subs')
  <1> DEFINE f == frame[p]
             g == [f EXCEPT !.pc = "log"]
             old == subs[f.row]
             new == IF f.type = "canceled" THEN [old EXCEPT !.status = "CANCELED", !.atEnd = FALSE]
                    ELSE [old EXCEPT !.atEnd = TRUE]
             table == [subs EXCEPT ![f.row] = new]
  <1>1. f \in Frame /\ FrameFits(f, subs) /\ f.pc = "cancel" /\ subs \in Seq(Subscription)
    BY DEF SubInd, SubType, StoreType, FramesFit, CancelWrite
  <1>2. /\ subs' = table /\ frame' = [frame EXCEPT ![p] = g]
        /\ UNCHANGED <<now, activePlans, events, entVars, jobVars>>
    BY DEF CancelWrite, GoTo, SubInd, SubType
  <1>3. f.row \in DOMAIN subs => /\ new \in Subscription
                                 /\ new.user = old.user /\ new.plan = old.plan /\ new.psid = old.psid
                                 /\ new.status \in {old.status, "CANCELED"}
    <2> SUFFICES ASSUME old \in Subscription
                 PROVE  /\ new \in Subscription
                        /\ new.user = old.user /\ new.plan = old.plan /\ new.psid = old.psid
                        /\ new.status \in {old.status, "CANCELED"}
      BY <1>1
    <2> HIDE DEF old
    <2> QED
      BY DEF Subscription, SubscriptionStatus
  <1>4. g \in Frame /\ FrameFits(g, table)
    BY <1>1 DEF FrameFits, Frame, Points, GrantPoints
  <1> HIDE DEF f, g, new
  <1>5. /\ table \in Seq(Subscription) /\ DOMAIN table = DOMAIN subs
        /\ \A i \in DOMAIN subs : table[i] = IF i = f.row THEN new ELSE subs[i]
    BY <1>1, <1>3, UpdateRow
  <1> HIDE DEF table
  <1>6. RowsKept(subs, table)
    BY <1>3, <1>5 DEF RowsKept
  <1>7. OneLivePerUser(table)
    BY <1>3, <1>5 DEF SubInd, OneLivePerUser, Indexed, Entitling
  <1>8. SubType'
    BY <1>2, <1>4, <1>5 DEF SubInd, SubType, StoreType, EntType, entVars, jobVars
  <1>9. FramesFit'
    <2>1. \A q \in Procs : FrameFits(frame[q], table)
      BY <1>6, FitsKept DEF SubInd, FramesFit
    <2>2. \A q \in Procs : FrameFits(frame'[q], table)
      BY <1>2, <1>4, <2>1 DEF SubInd, SubType
    <2> QED
      BY <1>2, <2>2 DEF FramesFit, FrameFits
  <1> QED
    BY <1>2, <1>6, <1>7, <1>8, <1>9 DEF SubInd, OneLivePerUser

LEMMA CancelLogInd == ASSUME SubInd, NEW p \in Procs, CancelLog(p) PROVE SubInd'
  <1> DEFINE f == frame[p]
             g == [f EXCEPT !.pc = "flush"]
             e == EventRow(f.row, f.type, f.provider, None)
  <1>1. f \in Frame /\ FrameFits(f, subs) /\ f.pc = "log"
    BY DEF SubInd, SubType, FramesFit, CancelLog
  <1>2. /\ events' = Append(events, e) /\ frame' = [frame EXCEPT ![p] = g]
        /\ UNCHANGED <<now, activePlans, subs, entVars, jobVars>>
    BY DEF CancelLog, GoTo, SubInd, SubType
  <1> HIDE DEF f
  <1>3. e \in SubscriptionEvent
    BY <1>1 DEF EventRow, SubscriptionEvent, FrameFits, Frame, EventTypes
  <1>4. g \in Frame /\ FrameFits(g, subs)
    BY <1>1 DEF FrameFits, Frame, Points, GrantPoints
  <1> HIDE DEF g, e
  <1>5. SubType'
    BY <1>2, <1>3, <1>4 DEF SubInd, SubType, StoreType, EntType, entVars, jobVars
  <1>6. \A q \in Procs : FrameFits(frame'[q], subs)
    BY <1>2, <1>4 DEF SubInd, SubType, FramesFit
  <1> QED
    BY <1>2, <1>5, <1>6 DEF SubInd, FramesFit, FrameFits, OneLivePerUser
LEMMA AdminGrantInd ==
    ASSUME SubInd, NEW p \in Procs, NEW u \in Users, NEW plan \in Plans, NEW days \in GrantDays,
           AdminGrant(p, u, plan, days)
    PROVE  SubInd'
  <1> DEFINE end == IF days # None THEN now + days
                    ELSE IF Interval[plan] > 0 THEN now + Interval[plan] ELSE None
  <1>1. end \in Nat \cup {None}
    BY SubscriptionAssumption, StoreAssumption DEF SubInd, SubType, StoreType
  <1>2. Call(p, u, plan, "manual", "manual_grant", None, None, "ACTIVE", end)
        /\ UNCHANGED <<storeVars, entVars, jobVars>>
    BY DEF AdminGrant
  <1> HIDE DEF end
  <1> QED
    BY <1>1, <1>2, CallInd DEF Providers, PeriodGrants, Entitling, Indexed, SubscriptionStatus

\* A payment is granted to the end of a period that is a number of days.
LEMMA CallPaidInd ==
    ASSUME SubInd, NEW p \in Procs, NEW u \in Users, NEW plan \in Plans,
           NEW provider \in Providers, NEW type \in PeriodGrants, NEW id \in Nat, NEW days \in Nat,
           CallPaid(p, u, plan, provider, type, id, days),
           UNCHANGED <<storeVars, entVars, jobVars>>
    PROVE  SubInd'
  <1> DEFINE r == ActiveRow(u)
             row == subs[r]
             extends == r # 0 /\ row.plan = plan /\ row.status = "ACTIVE" /\ row.end # None /\ row.end > now
             end == (IF extends THEN row.end ELSE now) + (IF days > 1 THEN days ELSE 1)
  <1>1. r # 0 => r \in DOMAIN subs
    BY ActiveRowIsLive DEF SubInd, SubType, LiveRows
  <1>2. r # 0 => row \in Subscription
    BY <1>1 DEF SubInd, SubType, StoreType
  <1>3. Call(p, u, plan, provider, type, id, None, "ACTIVE", end)
    BY DEF CallPaid
  <1> HIDE DEF r
  <1> HIDE DEF row
  <1>4. r # 0 => row.end \in Nat \cup {None}
    BY <1>2 DEF Subscription
  <1>5. end \in Nat
    BY <1>4 DEF SubInd, SubType, StoreType
  <1> HIDE DEF end
  <1> QED
    BY <1>3, <1>5, CallInd DEF Entitling, Indexed, SubscriptionStatus

LEMMA PaidGrantInd ==
    ASSUME SubInd, NEW p \in Procs, NEW u \in Users, NEW plan \in Plans, NEW id \in PaymentIds,
           PaidGrant(p, u, plan, id)
    PROVE  SubInd'
  <1>1. id \in Nat /\ Interval[plan] \in Nat
    BY SubscriptionAssumption, StoreAssumption
  <1> QED
    BY <1>1, CallPaidInd DEF PaidGrant, Providers, PeriodGrants

LEMMA ReturnInd == ASSUME SubInd, NEW p \in Procs, Return(p) PROVE SubInd'
  <1>1. NoCall \in Frame /\ FrameFits(NoCall, subs)
    BY DEF NoCall, Frame, Points, GrantPoints, FrameFits
  <1> QED
    BY <1>1, FrameOnly DEF Return

\* A step of a request, of whatever service it is a call.
LEMMA FrameStepInd ==
    ASSUME SubInd, NEW p \in Procs, FrameStep(p)
    PROVE  SubInd' /\ RowsKept(subs, subs')
  <1>1. CASE UNCHANGED subs
    <2>1. SubInd'
      BY GrantPlanInd, GrantLookupInd, GrantReplayedInd, GrantReadInd, GrantCommitInd, GrantAbortInd,
         CancelWriteInd, CancelLogInd, FlushInd DEF FrameStep, GrantStep
    <2> QED
      BY <1>1, <2>1 DEF RowsKept
  <1>2. CASE subs' # subs
    <2>1. GrantCommit(p) \/ CancelWrite(p)
      BY <1>2 DEF FrameStep, GrantStep, GrantPlan, GrantLookup, GrantReplayed, GrantRead, GrantAbort,
                  CancelLog, Flush, storeVars
    <2> QED
      BY <2>1, GrantCommitInd, CancelWriteInd
  <1> QED
    BY <1>1, <1>2
----
(* The maintenance job *)

\* A step of the maintenance job leaves a run in a state of the right kind.
LEMMA JobAtType ==
    ASSUME SubInd, NEW j \in Jobs, NEW state \in Job, JobAt(j, state)
    PROVE  maint' \in [Jobs -> Job]
  BY DEF JobAt, SubInd, SubType

\* A step of the maintenance job that leaves the tables, the frames and the
\* reminders alone.
LEMMA JobOnly ==
    ASSUME SubInd, NEW j \in Jobs, NEW state \in Job, JobAt(j, state), EntType',
           UNCHANGED <<storeVars, frame, notices>>
    PROVE  SubInd'
  <1>1. maint' \in [Jobs -> Job]
    BY JobAtType
  <1>2. SubType'
    BY <1>1 DEF SubInd, SubType, StoreType, storeVars
  <1> QED
    BY <1>2 DEF SubInd, FramesFit, FrameFits, OneLivePerUser, storeVars

\* Every set of rows is finite: the positions of a table are.
LEMMA RowsFinite == ASSUME SubInd, NEW rows \in SUBSET DOMAIN subs PROVE rows \in SUBSET Nat /\ IsFiniteSet(rows)
  <1>1. DOMAIN subs = 1..Len(subs) /\ Len(subs) \in Nat
    BY DEF SubInd, SubType, StoreType
  <1>2. IsFiniteSet(1..Len(subs))
    BY <1>1, FS_Interval
  <1> QED
    BY <1>1, <1>2, FS_Subset

\* What a run has read is as the type says.
LEMMA JobFits == ASSUME SubInd, NEW j \in Jobs
                 PROVE  maint[j] \in Job /\ IdleJob \in Job
  <1>1. IdleJob \in Job
    BY FS_EmptySet DEF IdleJob, Job
  <1> QED
    BY <1>1 DEF SubInd, SubType

LEMMA MaintenanceStartInd == ASSUME SubInd, NEW j \in Jobs, MaintenanceStart(j) PROVE SubInd'
  <1>1. LapsedRows \in SUBSET Nat /\ IsFiniteSet(LapsedRows)
    BY RowsFinite DEF LapsedRows
  <1>2. PICK state \in {[IdleJob EXCEPT !.pc = "expire", !.lapsed = LapsedRows],
                        [IdleJob EXCEPT !.pc = "look"], IdleJob} : JobAt(j, state)
    BY DEF MaintenanceStart
  <1>3. IdleJob \in Job
    BY JobFits
  <1>4. state \in Job
    BY <1>1, <1>2, <1>3 DEF Job, IdleJob
  <1>5. UNCHANGED <<storeVars, frame, notices>> /\ EntType'
    BY DEF MaintenanceStart, SubInd, SubType, EntType, entVars
  <1> QED
    BY <1>2, <1>4, <1>5, JobOnly

LEMMA ExpireFlushInd == ASSUME SubInd, NEW j \in Jobs, ExpireFlush(j) PROVE SubInd'
  <1> DEFINE state == [IdleJob EXCEPT !.pc = "look"]
  <1>1. state \in Job
    BY JobFits DEF Job, IdleJob
  <1>2. JobAt(j, state) /\ EntType' /\ UNCHANGED <<storeVars, frame, notices>>
    BY InvalidateType DEF ExpireFlush, SubInd, SubType
  <1> HIDE DEF state
  <1> QED
    BY <1>1, <1>2, JobOnly

LEMMA WorkerCrashInd == ASSUME SubInd, NEW j \in Jobs, WorkerCrash(j) PROVE SubInd'
  <1>1. IdleJob \in Job
    BY JobFits
  <1>2. JobAt(j, IdleJob) /\ EntType' /\ UNCHANGED <<storeVars, frame, notices>>
    BY DEF WorkerCrash, SubInd, SubType, EntType, entVars
  <1> QED
    BY <1>1, <1>2, JobOnly

LEMMA RemindLookInd == ASSUME SubInd, NEW j \in Jobs, RemindLook(j) PROVE SubInd'
  <1> DEFINE due == {[sub |-> i, end |-> subs[i].end] : i \in DueRows}
  <1>1. \A i \in DueRows : i \in Nat /\ subs[i].end \in Nat
    <2> TAKE i \in DueRows
    <2>1. i \in DOMAIN subs /\ i \in Nat /\ subs[i].end # None
      BY DEF DueRows, DueRow, SubInd, SubType, StoreType
    <2>2. subs[i] \in Subscription
      BY <2>1 DEF SubInd, SubType, StoreType
    <2> QED
      BY <2>1, <2>2 DEF Subscription
  <1>2. due \in SUBSET [sub : Nat, end : Nat]
    BY <1>1
  <1>3. PICK state \in {IdleJob, [IdleJob EXCEPT !.pc = "remind", !.due = due]} : JobAt(j, state)
    BY DEF RemindLook
  <1> HIDE DEF due
  <1>4. state \in Job
    BY <1>2, <1>3, JobFits DEF Job, IdleJob
  <1>5. UNCHANGED <<storeVars, frame, notices>> /\ EntType'
    BY DEF RemindLook, SubInd, SubType, EntType, entVars
  <1> QED
    BY <1>3, <1>4, <1>5, JobOnly

\* The rows a run has read are retired, and keep their users and plans.
LEMMA ExpireWriteInd ==
    ASSUME SubInd, NEW j \in Jobs, ExpireWrite(j)
    PROVE  SubInd' /\ RowsKept(subs, subs')
  <1> DEFINE batch == maint[j].lapsed
             Retired(i) == IF i \in batch THEN [subs[i] EXCEPT !.status = "EXPIRED"] ELSE subs[i]
             state == [maint[j] EXCEPT !.pc = "log"]
  <1>1. maint[j] \in Job
    BY JobFits
  <1>2. state \in Job
    BY <1>1 DEF Job
  <1>3. /\ subs' = [i \in DOMAIN subs |-> Retired(i)] /\ JobAt(j, state)
        /\ UNCHANGED <<now, activePlans, events, entVars, frame, notices>>
    BY DEF ExpireWrite
  <1>4. subs \in Seq(Subscription) /\ DOMAIN subs = 1..Len(subs) /\ Len(subs) \in Nat
    BY DEF SubInd, SubType, StoreType
  <1>5. \A i \in DOMAIN subs :
           /\ Retired(i) \in Subscription
           /\ Retired(i).user = subs[i].user /\ Retired(i).plan = subs[i].plan
           /\ Retired(i).psid = subs[i].psid
           /\ Retired(i).status \in {subs[i].status, "EXPIRED"}
    <2> TAKE i \in DOMAIN subs
    <2> DEFINE row == subs[i]
    <2>1. row \in Subscription
      BY <1>4
    <2> HIDE DEF row
    <2>2. LET new == [row EXCEPT !.status = "EXPIRED"] IN
          /\ new \in Subscription /\ new.status = "EXPIRED"
          /\ new.user = row.user /\ new.plan = row.plan /\ new.psid = row.psid
      BY <2>1 DEF Subscription, SubscriptionStatus
    <2> QED
      BY <2>1, <2>2 DEF row
  <1> HIDE DEF Retired, state
  <1>6. subs' \in Seq(Subscription)
    BY <1>3, <1>4, <1>5
  <1>7. RowsKept(subs, subs')
    BY <1>3, <1>5 DEF RowsKept
  <1>8. OneLivePerUser(subs')
    BY <1>3, <1>5 DEF SubInd, OneLivePerUser, Indexed, Entitling
  <1>9. maint' \in [Jobs -> Job]
    BY <1>2, <1>3, JobAtType
  <1>10. SubType'
    BY <1>3, <1>6, <1>9 DEF SubInd, SubType, StoreType, EntType, entVars
  <1> QED
    BY <1>3, <1>7, <1>8, <1>10, FramesKept DEF SubInd, OneLivePerUser

\* The audit rows of a batch that was retired.
LEMMA ExpiredRows ==
    ASSUME SubInd, NEW j \in Jobs, ExpireLog(j)
    PROVE  \E rows \in Seq(SubscriptionEvent) :
              events' = events \o rows /\ \A n \in DOMAIN rows : rows[n].type = "expired"
  <1> DEFINE batch == SetToSeq(maint[j].lapsed)
             Row(n) == EventRow(batch[n], "expired", "system", None)
             rows == [n \in DOMAIN batch |-> Row(n)]
  <1>1. maint[j] \in Job
    BY JobFits
  <1>2. batch \in Seq(Nat)
    <2> DEFINE S == maint[j].lapsed
    <2>1. S \in SUBSET Nat /\ IsFiniteSet(S)
      BY <1>1 DEF Job
    <2> HIDE DEF S
    <2>2. Cardinality(S) \in Nat /\ ExistsBijection(1..Cardinality(S), S)
      BY <2>1, FS_CardinalityType
    <2>3. \E f \in [1..Cardinality(S) -> S] : IsInjective(f)
      BY <2>2 DEF ExistsBijection, Bijection, Injection, IsInjective
    <2>4. SetToSeq(S) \in [1..Cardinality(S) -> S]
      BY <2>3 DEF SetToSeq
    <2> QED
      BY <2>1, <2>2, <2>4 DEF S
  <1>3. events' = events \o rows
    BY DEF ExpireLog
  <1> HIDE DEF batch
  <1>4. \A n \in DOMAIN batch : Row(n) \in SubscriptionEvent /\ Row(n).type = "expired"
    BY <1>2 DEF EventRow, SubscriptionEvent, EventTypes, Providers
  <1>5. DOMAIN batch = 1..Len(batch) /\ Len(batch) \in Nat
    BY <1>2
  <1> HIDE DEF Row
  <1>6. rows \in Seq(SubscriptionEvent) /\ \A n \in DOMAIN rows : rows[n].type = "expired"
    BY <1>4, <1>5
  <1> QED
    BY <1>3, <1>6

LEMMA ExpireLogInd == ASSUME SubInd, NEW j \in Jobs, ExpireLog(j) PROVE SubInd'
  <1> DEFINE state == [maint[j] EXCEPT !.pc = "flush"]
  <1>1. state \in Job
    BY JobFits DEF Job
  <1>2. JobAt(j, state) /\ UNCHANGED <<now, activePlans, subs, entVars, frame, notices>>
    BY DEF ExpireLog
  <1> HIDE DEF state
  <1>3. events' \in Seq(SubscriptionEvent)
    <2>1. events \in Seq(SubscriptionEvent)
      BY DEF SubInd, SubType, StoreType
    <2>2. PICK rows \in Seq(SubscriptionEvent) : events' = events \o rows
      BY ExpiredRows
    <2> QED
      BY <2>1, <2>2
  <1>4. maint' \in [Jobs -> Job]
    BY <1>1, <1>2, JobAtType
  <1>5. SubType'
    BY <1>2, <1>3, <1>4 DEF SubInd, SubType, StoreType, EntType, entVars
  <1> QED
    BY <1>2, <1>5 DEF SubInd, FramesFit, FrameFits, OneLivePerUser

\* A claim marks the row it reminds, and keeps everything else about it.
LEMMA RemindOneInd ==
    ASSUME SubInd, NEW j \in Jobs, NEW d \in maint[j].due, RemindOne(j, d)
    PROVE  SubInd' /\ RowsKept(subs, subs')
  <1> DEFINE rest == maint[j].due \ {d}
             state == IF rest = {} THEN IdleJob ELSE [maint[j] EXCEPT !.due = rest]
             old == subs[d.sub]
             new == [old EXCEPT !.reminded = TRUE]
             table == [subs EXCEPT ![d.sub] = new]
  <1>1. maint[j] \in Job /\ IdleJob \in Job
    BY JobFits
  <1>2. state \in Job /\ d \in [sub : Nat, end : Nat]
    BY <1>1 DEF Job
  <1>3. /\ subs' = table /\ JobAt(j, state) /\ notices' \in {notices, Append(notices, d)}
        /\ UNCHANGED <<now, activePlans, events, entVars, frame>>
    BY DEF RemindOne
  <1>4. subs \in Seq(Subscription)
    BY DEF SubInd, SubType, StoreType
  <1>5. d.sub \in DOMAIN subs => /\ new \in Subscription /\ new.user = old.user
                                 /\ new.plan = old.plan /\ new.psid = old.psid
                                 /\ new.status = old.status
    <2> SUFFICES ASSUME old \in Subscription
                 PROVE  /\ new \in Subscription /\ new.user = old.user
                        /\ new.plan = old.plan /\ new.psid = old.psid
                        /\ new.status = old.status
      BY <1>4
    <2> HIDE DEF old
    <2> QED
      BY DEF Subscription
  <1> HIDE DEF new, state
  <1>6. /\ table \in Seq(Subscription) /\ DOMAIN table = DOMAIN subs
        /\ \A i \in DOMAIN subs : table[i] = IF i = d.sub THEN new ELSE subs[i]
    BY <1>4, <1>5, UpdateRow
  <1> HIDE DEF table
  <1>7. RowsKept(subs, subs')
    BY <1>3, <1>5, <1>6 DEF RowsKept
  <1>8. OneLivePerUser(subs')
    BY <1>3, <1>5, <1>6 DEF SubInd, OneLivePerUser, Indexed, Entitling
  <1>9. maint' \in [Jobs -> Job]
    BY <1>2, <1>3, JobAtType
  <1>10. notices' \in Seq([sub : Nat, end : Nat])
    <2> DEFINE Notice == [sub : Nat, end : Nat]
    <2>1. notices \in Seq(Notice) /\ d \in Notice
      BY <1>2 DEF SubInd, SubType
    <2> HIDE DEF Notice
    <2>2. Append(notices, d) \in Seq(Notice)
      BY <2>1
    <2> QED
      BY <1>3, <2>1, <2>2 DEF Notice
  <1>11. SubType'
    BY <1>3, <1>6, <1>9, <1>10 DEF SubInd, SubType, StoreType, EntType, entVars
  <1> QED
    BY <1>3, <1>7, <1>8, <1>11, FramesKept DEF SubInd, OneLivePerUser

LEMMA MaintenanceInd ==
    ASSUME SubInd, NEW j \in Jobs, MaintenanceStep(j) \/ WorkerCrash(j)
    PROVE  SubInd' /\ RowsKept(subs, subs') /\ UNCHANGED frame
  <1>1. CASE UNCHANGED subs
    <2>1. SubInd'
      BY MaintenanceStartInd, ExpireWriteInd, ExpireLogInd, ExpireFlushInd, RemindLookInd,
         RemindOneInd, WorkerCrashInd DEF MaintenanceStep
    <2>2. UNCHANGED frame
      BY DEF MaintenanceStep, MaintenanceStart, ExpireWrite, ExpireLog, ExpireFlush, RemindLook,
             RemindOne, WorkerCrash
    <2> QED
      BY <1>1, <2>1, <2>2 DEF RowsKept
  <1>2. CASE ExpireWrite(j) \/ \E d \in maint[j].due : RemindOne(j, d)
    BY <1>2, ExpireWriteInd, RemindOneInd DEF ExpireWrite, RemindOne
  <1> QED
    BY <1>1, <1>2 DEF MaintenanceStep, MaintenanceStart, ExpireLog, ExpireFlush, RemindLook,
                      WorkerCrash, storeVars

----
(* The end of the process *)

\* The calls in progress and the answers being resolved are lost, and no row is.
LEMMA CallsLost ==
    ASSUME SubInd, frame' = [p \in Procs |-> NoCall], view' = [v \in Viewers |-> Idle],
           UNCHANGED <<storeVars, cache, jobVars>>
    PROVE  SubInd'
  <1>1. NoCall \in Frame /\ \A table : FrameFits(NoCall, table)
    BY DEF NoCall, Frame, Points, GrantPoints, FrameFits
  <1>2. frame' \in [Procs -> Frame] /\ \A p \in Procs : FrameFits(frame'[p], subs')
    BY <1>1
  <1>3. EntType'
    BY DEF SubInd, SubType, EntType, Idle
  <1>4. SubType'
    BY <1>2, <1>3 DEF SubInd, SubType, StoreType, storeVars, jobVars
  <1> QED
    BY <1>2, <1>4 DEF SubInd, FramesFit, FrameFits, OneLivePerUser, storeVars

----
(* The environment *)

\* A step that leaves the subscriptions, the frames and the job alone.
LEMMA Aside ==
    ASSUME SubInd, StoreType', EntType', UNCHANGED <<subs, frame, jobVars>>
    PROVE  SubInd'
  BY DEF SubInd, SubType, FramesFit, FrameFits, OneLivePerUser, jobVars

LEMMA ResolvedType == ASSUME SubInd, NEW u PROVE Resolved(u) \in Answers
  <1>1. CASE ActiveRow(u) = 0
    BY <1>1 DEF Resolved, Answers
  <1>2. CASE ActiveRow(u) # 0
    <2>1. ActiveRow(u) \in DOMAIN subs
      BY <1>2, ActiveRowIsLive DEF SubInd, SubType, LiveRows
    <2>2. subs[ActiveRow(u)] \in Subscription
      BY <2>1 DEF SubInd, SubType, StoreType
    <2>3. subs[ActiveRow(u)].plan \in Plans
      BY <2>2 DEF Subscription
    <2> QED
      BY <2>3 DEF Resolved, Answers
  <1> QED
    BY <1>1, <1>2

LEMMA ViewInd ==
    ASSUME SubInd, NEW v \in Viewers, ViewStep(v) \/ \E u \in Users : ViewMiss(v, u),
           UNCHANGED <<frame, jobVars>>
    PROVE  SubInd'
  <1> DEFINE View == [pc : {"idle", "resolve", "fill"}, user : Users \cup {None},
                      answer : Answers \cup {None}]
             w == view[v]
  <1>1. w \in View /\ view \in [Viewers -> View] /\ cache \in [Users -> Answers \cup {None}] /\ StoreType
    BY DEF SubInd, SubType, EntType
  <1>2. Idle \in View
    BY DEF Idle
  <1>3. CASE \E u \in Users : ViewMiss(v, u)
    <2>1. PICK u \in Users : ViewMiss(v, u)
      BY <1>3
    <2>2. [Idle EXCEPT !.pc = "resolve", !.user = u] \in View
      BY DEF Idle
    <2>3. view' \in [Viewers -> View] /\ UNCHANGED <<storeVars, cache>>
      BY <1>1, <2>1, <2>2 DEF ViewMiss
    <2> QED
      BY <1>1, <2>3, Aside DEF StoreType, EntType, storeVars
  <1>4. CASE ViewResolve(v)
    <2>1. PICK answer \in {Resolved(view[v].user), Free} :
               view' = [view EXCEPT ![v].pc = "fill", ![v].answer = answer]
      BY <1>4 DEF ViewResolve
    <2>2. answer \in Answers
      BY <2>1, ResolvedType DEF Answers
    <2> DEFINE x == [w EXCEPT !.pc = "fill", !.answer = answer]
    <2>3. view' = [view EXCEPT ![v] = x]
      BY <1>1, <2>1
    <2> HIDE DEF w
    <2>4. x \in View
      <3>1. w \in View /\ answer \in Answers
        BY <1>1, <2>2
      <3> QED
        BY <3>1
    <2> HIDE DEF x
    <2>5. view' \in [Viewers -> View] /\ UNCHANGED <<storeVars, cache>>
      BY <1>1, <1>4, <2>3, <2>4 DEF ViewResolve
    <2> QED
      BY <1>1, <2>5, Aside DEF StoreType, EntType, storeVars
  <1>5. CASE ViewFill(v)
    <2>1. view' \in [Viewers -> View]
      BY <1>1, <1>2, <1>5 DEF ViewFill
    <2>2. cache' \in [Users -> Answers \cup {None}]
      <3>1. w.answer \in Answers \cup {None}
        BY <1>1
      <3> QED
        BY <1>1, <1>5, <3>1 DEF ViewFill
    <2>3. UNCHANGED storeVars
      BY <1>5 DEF ViewFill
    <2> QED
      BY <1>1, <2>1, <2>2, <2>3, Aside DEF StoreType, EntType, storeVars
  <1> QED
    BY <1>3, <1>4, <1>5 DEF ViewStep

LEMMA EnvironmentInd ==
    ASSUME SubInd, Environment
    PROVE  SubInd' /\ UNCHANGED <<subs, frame>>
  <1>1. CASE NextDay /\ UNCHANGED <<entVars, frame, jobVars>>
    <2>1. now' \in Nat
      BY <1>1 DEF NextDay, SubInd, SubType, StoreType
    <2>2. StoreType'
      BY <1>1, <2>1 DEF NextDay, SubInd, SubType, StoreType
    <2>3. EntType'
      BY <1>1 DEF SubInd, SubType, EntType, entVars
    <2> QED
      BY <1>1, <2>2, <2>3, Aside DEF NextDay
  <1>2. CASE \E plan \in Plans, isActive \in BOOLEAN :
                AdminUpdate(plan, isActive) /\ UNCHANGED <<entVars, frame, jobVars>>
    <2>1. PICK plan \in Plans, isActive \in BOOLEAN :
               AdminUpdate(plan, isActive) /\ UNCHANGED <<entVars, frame, jobVars>>
      BY <1>2
    <2>2. activePlans' \in SUBSET Plans
      BY <2>1 DEF AdminUpdate, SubInd, SubType, StoreType
    <2>3. StoreType'
      BY <2>1, <2>2 DEF AdminUpdate, SubInd, SubType, StoreType
    <2>4. EntType'
      BY <2>1 DEF SubInd, SubType, EntType, entVars
    <2> QED
      BY <2>1, <2>3, <2>4, Aside DEF AdminUpdate
  <1>3. CASE \E u \in Users : CacheExpire(u) /\ UNCHANGED <<frame, jobVars>>
    <2>1. EntType' /\ StoreType'
      BY <1>3 DEF CacheExpire, SubInd, SubType, EntType, StoreType, storeVars
    <2> QED
      BY <1>3, <2>1, Aside DEF CacheExpire, storeVars
  <1>4. CASE \E v \in Viewers : (ViewStep(v) \/ \E u \in Users : ViewMiss(v, u)) /\ UNCHANGED <<frame, jobVars>>
    BY <1>4, ViewInd DEF ViewStep, ViewMiss, ViewResolve, ViewFill, storeVars
  <1> QED
    BY <1>1, <1>2, <1>3, <1>4 DEF Environment
----
(* What a step logs *)

\* A step that adds no grant to the log.
LogsNoGrant ==
    \E rows \in Seq(SubscriptionEvent) :
        events' = events \o rows /\ \A n \in DOMAIN rows : rows[n].type \notin PeriodGrants

\* The grants in the log before and after such a step are the same.
LEMMA GrantsKept ==
    ASSUME SubInd, LogsNoGrant
    PROVE  /\ \A e \in DOMAIN events : e \in DOMAIN events' /\ events'[e] = events[e]
           /\ \A e \in DOMAIN events' :
                 events'[e].type \in PeriodGrants => e \in DOMAIN events /\ events'[e] = events[e]
  <1>1. PICK rows \in Seq(SubscriptionEvent) :
           events' = events \o rows /\ \A n \in DOMAIN rows : rows[n].type \notin PeriodGrants
    BY DEF LogsNoGrant
  <1>2. events \in Seq(SubscriptionEvent)
    BY DEF SubInd, SubType, StoreType
  <1>3. \A e \in DOMAIN events : e \in DOMAIN events' /\ events'[e] = events[e]
    BY <1>1, <1>2
  <1>4. ASSUME NEW e \in DOMAIN events', events'[e].type \in PeriodGrants
        PROVE  e \in DOMAIN events /\ events'[e] = events[e]
    <2>1. CASE e <= Len(events)
      BY <1>1, <1>2, <2>1
    <2>2. CASE ~(e <= Len(events))
      <3>1. e - Len(events) \in DOMAIN rows /\ events'[e] = rows[e - Len(events)]
        BY <1>1, <1>2, <2>2
      <3> QED
        BY <1>1, <1>4, <3>1
    <2> QED
      BY <2>1, <2>2
  <1> QED
    BY <1>3, <1>4

LEMMA SameLog == ASSUME SubInd, UNCHANGED events PROVE LogsNoGrant
  <1> DEFINE rows == <<>>
  <1>1. rows \in Seq(SubscriptionEvent) /\ events' = events \o rows /\ DOMAIN rows = {}
    BY DEF SubInd, SubType, StoreType
  <1> HIDE DEF rows
  <1> QED
    BY <1>1 DEF LogsNoGrant

\* Of all the steps of a call only the commit of a grant logs one.
LEMMA FrameStepLog ==
    ASSUME SubInd, NEW p \in Procs, FrameStep(p), ~GrantCommit(p)
    PROVE  LogsNoGrant
  <1>1. CASE CancelLog(p)
    <2> DEFINE e == EventRow(frame[p].row, frame[p].type, frame[p].provider, None)
    <2>1. frame[p] \in Frame /\ FrameFits(frame[p], subs) /\ events \in Seq(SubscriptionEvent)
      BY DEF SubInd, SubType, StoreType, FramesFit
    <2>2. e \in SubscriptionEvent /\ e.type \notin PeriodGrants
      BY <1>1, <2>1 DEF CancelLog, EventRow, SubscriptionEvent, FrameFits, Frame, EventTypes, PeriodGrants
    <2>3. events' = Append(events, e)
      BY <1>1 DEF CancelLog
    <2> HIDE DEF e
    <2> DEFINE rows == <<e>>
    <2>4. events' = events \o rows /\ rows \in Seq(SubscriptionEvent)
      BY <2>1, <2>2, <2>3
    <2>5. \A n \in DOMAIN rows : rows[n].type \notin PeriodGrants
      BY <2>2
    <2> HIDE DEF rows
    <2> QED
      BY <2>4, <2>5 DEF LogsNoGrant
  <1>2. CASE UNCHANGED events
    BY <1>2, SameLog
  <1> QED
    BY <1>1, <1>2 DEF FrameStep, GrantStep, GrantPlan, GrantLookup, GrantReplayed, GrantRead,
                      GrantAbort, CancelWrite, Flush, storeVars

\* The maintenance job logs expiries only.
LEMMA MaintenanceLog ==
    ASSUME SubInd, NEW j \in Jobs, MaintenanceStep(j) \/ WorkerCrash(j)
    PROVE  LogsNoGrant
  <1>1. CASE ExpireLog(j)
    BY <1>1, ExpiredRows DEF LogsNoGrant, PeriodGrants
  <1>2. CASE UNCHANGED events
    BY <1>2, SameLog
  <1> QED
    BY <1>1, <1>2 DEF MaintenanceStep, MaintenanceStart, ExpireWrite, ExpireFlush, RemindLook,
                      RemindOne, WorkerCrash, storeVars

LEMMA EnvironmentLog == ASSUME SubInd, Environment PROVE LogsNoGrant
  BY SameLog DEF Environment, NextDay, AdminUpdate, CacheExpire, ViewMiss, ViewStep, ViewResolve,
                 ViewFill, storeVars

\* No step of a call changes what it grants, and a call that fails was granting;
\* a renewal takes the psid of the row it renews.
LEMMA FrameStepArguments ==
    ASSUME SubInd, NEW p \in Procs, FrameStep(p)
    PROVE  \E g : /\ frame' = [frame EXCEPT ![p] = g]
                  /\ g.provider = frame[p].provider /\ g.id = frame[p].id
                  /\ g.user = frame[p].user /\ g.plan = frame[p].plan /\ g.type = frame[p].type
                  /\ g.end = frame[p].end
                  /\ g.psid = frame[p].psid \/ \E i \in DOMAIN subs : g.psid = subs[i].psid
                  /\ g.pc \in GrantPoints \cup {"failed"} => frame[p].pc \in GrantPoints
  <1> DEFINE f == frame[p]
  <1>1. f \in Frame /\ frame \in [Procs -> Frame]
    BY DEF SubInd, SubType
  <1>2. CASE GrantRead(p)
    <2> DEFINE r == ActiveRow(f.user)
               renews == r # 0 /\ subs[r].plan = f.plan /\ (f.psid = None \/ subs[r].psid = f.psid)
               psid == IF renews THEN subs[r].psid ELSE f.psid
               g == [f EXCEPT !.pc = "write", !.row = r, !.renews = renews, !.psid = psid]
    <2>1. frame' = [frame EXCEPT ![p] = g] /\ f.pc = "read"
      BY <1>2 DEF GrantRead
    <2>2. psid = f.psid \/ \E i \in DOMAIN subs : psid = subs[i].psid
      BY ActiveRowIsLive DEF SubInd, SubType, LiveRows
    <2> HIDE DEF r, renews, psid, f
    <2>3. /\ g.provider = f.provider /\ g.id = f.id /\ g.user = f.user
          /\ g.plan = f.plan /\ g.type = f.type /\ g.end = f.end /\ g.psid = psid
      BY <1>1 DEF Frame
    <2> HIDE DEF g
    <2> QED
      BY <2>1, <2>2, <2>3 DEF GrantPoints, f
  <1>3. CASE ~GrantRead(p)
    <2>1. PICK point \in {"lookup", "replayed", "read", "failed", "flush", "log", "ok"} :
               /\ frame' = [frame EXCEPT ![p].pc = point]
               /\ point \in GrantPoints \cup {"failed"} => f.pc \in GrantPoints
      <3>1. CASE GrantPlan(p)
        BY <3>1 DEF GrantPlan, GoTo, GrantPoints
      <3>2. CASE GrantLookup(p)
        BY <3>2 DEF GrantLookup, GoTo, GrantPoints
      <3>3. CASE GrantReplayed(p)
        BY <3>3 DEF GrantReplayed, GoTo, GrantPoints
      <3>4. CASE GrantCommit(p) \/ GrantAbort(p)
        BY <3>4 DEF GrantCommit, GrantAbort, GoTo, GrantPoints
      <3>5. CASE CancelWrite(p) \/ CancelLog(p) \/ Flush(p)
        BY <3>5 DEF CancelWrite, CancelLog, Flush, GoTo, GrantPoints
      <3> QED
        BY <1>3, <3>1, <3>2, <3>3, <3>4, <3>5 DEF FrameStep, GrantStep
    <2> DEFINE g == [f EXCEPT !.pc = point]
    <2>2. frame' = [frame EXCEPT ![p] = g]
      BY <1>1, <2>1
    <2> HIDE DEF f
    <2>3. /\ g.provider = f.provider /\ g.id = f.id /\ g.user = f.user
          /\ g.plan = f.plan /\ g.type = f.type /\ g.end = f.end /\ g.psid = f.psid /\ g.pc = point
      BY <1>1 DEF Frame
    <2> HIDE DEF g
    <2> QED
      BY <2>1, <2>2, <2>3 DEF f
  <1> QED
    BY <1>2, <1>3

----
(* The theorems *)

\* Every step of the service, or of none of it, preserves the invariant, and
\* no row ever changes its user, its plan or its psid, or goes away.
LEMMA SubNextInd ==
    ASSUME SubInd, [SubNext]_subVars
    PROVE  SubInd' /\ RowsKept(subs, subs')
  <1>1. CASE UNCHANGED subVars
    BY <1>1, Aside DEF subVars, storeVars, entVars, RowsKept, SubInd, SubType, StoreType, EntType, jobVars
  <1>2. CASE \E p \in Procs : Request(p) \/ Return(p)
    <2>1. PICK p \in Procs : Request(p) \/ Return(p)
      BY <1>2
    <2>2. UNCHANGED subs
      BY <2>1 DEF Request, AdminGrant, PaidGrant, CancelRead, Return, storeVars
    <2>3. SubInd'
      BY <2>1, AdminGrantInd, PaidGrantInd, CancelReadInd, ReturnInd DEF Request
    <2> QED
      BY <2>2, <2>3 DEF RowsKept
  <1>3. CASE \E p \in Procs : FrameStep(p)
    BY <1>3, FrameStepInd
  <1>4. CASE \E j \in Jobs : MaintenanceStep(j) \/ WorkerCrash(j)
    BY <1>4, MaintenanceInd
  <1>5. CASE Environment
    BY <1>5, EnvironmentInd DEF RowsKept
  <1> QED
    BY <1>1, <1>2, <1>3, <1>4, <1>5 DEF SubNext

\* The invariant holds of the service: its tables, its calls and its jobs are
\* of their types, what each call has read is still true, and the partial
\* index subscriptions_one_live_per_user is never broken.
THEOREM SubSpecInd == SubSpec => []SubInd
  <1>1. SubInit => SubInd
    BY SubInitInd
  <1>2. SubInd /\ [SubNext]_subVars => SubInd'
    BY SubNextInd
  <1> QED
    BY <1>1, <1>2, PTL DEF SubSpec

\* Type correctness of the subscription service, for any number of requests,
\* job runs, users and plans.
THEOREM SubTypeCorrect == SubSpec => []SubType
  BY SubSpecInd, PTL DEF SubInd

\* "A user may hold at most ONE entitlement-granting subscription at a time":
\* no interleaving of grants, cancellations and maintenance
\* leaves a user with two rows the index covers, and so getActiveForUser has
\* at most one answer.
THEOREM OneLiveRow == SubSpec => []OneLivePerUser(subs)
  BY SubSpecInd, PTL DEF SubInd

\* A step of a grant leaves the user the rows the user has, or the row that
\* it grants: it is never left with the old subscription cancelled and the
\* new one missing.
LEMMA GrantStepKeeps ==
    ASSUME SubInd, [SubNext]_subVars, NEW p \in Procs, NEW u \in Users,
           frame[p].user = u, frame[p].pc \in GrantPoints, frame[p].status \in Entitling,
           frame'[p] # frame[p], LiveRows(u) # {}
    PROVE  LiveRows(u)' # {}
  <1>1. GrantStep(p)
    <2>1. CASE \E q \in Procs : Request(q) \/ FrameStep(q) \/ Return(q)
      <3>1. PICK q \in Procs : Request(q) \/ FrameStep(q) \/ Return(q)
        BY <2>1
      <3>2. q = p
        <4>1. \A r \in Procs : r # q => frame'[r] = frame[r]
          BY <3>1 DEF SubInd, SubType, Request, AdminGrant, PaidGrant, CallPaid, CancelRead, Call, GoTo,
             FrameStep, GrantStep, GrantPlan, GrantLookup, GrantReplayed, GrantRead, GrantCommit,
             GrantAbort, CancelWrite, CancelLog, Flush, Return
        <4> QED
          BY <4>1
      <3> QED
        BY <3>1, <3>2 DEF GrantPoints, Request, AdminGrant, PaidGrant, CancelRead, FrameStep,
           CancelWrite, CancelLog, Flush, Return
    <2>2. CASE UNCHANGED frame
      BY <2>2
    <2> QED
      BY <2>1, <2>2, MaintenanceInd, EnvironmentInd DEF SubNext, subVars
  <1>2. CASE GrantCommit(p)
    <2> DEFINE table == Granted(frame[p])
               i == GrantedRow(frame[p])
    <2>1. i \in DOMAIN table /\ table[i].user = u /\ table[i].status \in Entitling
      BY <1>2, GrantedTable DEF GrantCommit
    <2>2. subs' = table
      BY <1>2 DEF GrantCommit
    <2> HIDE DEF i, table
    <2> QED
      BY <2>1, <2>2 DEF LiveRows
  <1>3. CASE UNCHANGED subs
    BY <1>3 DEF LiveRows
  <1> QED
    BY <1>1, <1>2, <1>3 DEF GrantStep, GrantPlan, GrantLookup, GrantReplayed, GrantRead, GrantAbort, storeVars

\* "A user can never be left with the old subscription cancelled and the new
\* one missing", for any number of requests and whatever else runs between
\* the read and the writes of grantPlan's transaction.
THEOREM GrantNeverDisentitles == SubSpec => GrantKeepsEntitlement
  <1>1. SubInd /\ [SubNext]_subVars =>
        [\A p \in Procs, u \in Users :
            /\ frame[p].user = u
            /\ frame[p].pc \in GrantPoints
            /\ frame[p].status \in Entitling
            /\ frame'[p] # frame[p]
            /\ LiveRows(u) # {}
            => LiveRows(u)' # {}]_subVars
    BY GrantStepKeeps
  <1> QED
    BY <1>1, SubSpecInd, PTL DEF SubSpec, GrantKeepsEntitlement

----
(* Reminders *)

NoticesOf(i) == {n \in DOMAIN notices : notices[n].sub = i}
GrantsOf(i) == {e \in DOMAIN events : events[e].sub = i /\ events[e].type \in PeriodGrants}

\* A row whose reminder was not claimed in its period has one more grant than
\* reminders.
Unreminded(row) == IF row.reminded THEN 0 ELSE 1

RemindersFit ==
    /\ \A j \in Jobs : \A d \in maint[j].due : d.sub \in DOMAIN subs
    /\ \A n \in DOMAIN notices : notices[n].sub \in DOMAIN subs
    /\ \A i \in DOMAIN subs : Cardinality(NoticesOf(i)) + Unreminded(subs[i]) <= Cardinality(GrantsOf(i))

\* A set of positions of a log, and the same set with the next position.
LEMMA Counted ==
    ASSUME NEW n \in Nat, NEW N \in SUBSET (1..n)
    PROVE  /\ IsFiniteSet(N) /\ Cardinality(N) \in Nat
           /\ Cardinality(N \cup {n + 1}) = Cardinality(N) + 1
  <1>1. IsFiniteSet(N)
    <2>1. IsFiniteSet(1..n)
      BY FS_Interval
    <2> QED
      BY <2>1, FS_Subset
  <1>2. n + 1 \notin N
    OBVIOUS
  <1> QED
    BY <1>1, <1>2, FS_CardinalityType, FS_AddElement

LEMMA Counts ==
    ASSUME SubInd, NEW i
    PROVE  /\ Cardinality(NoticesOf(i)) \in Nat /\ Cardinality(GrantsOf(i)) \in Nat
           /\ Cardinality(NoticesOf(i) \cup {Len(notices) + 1}) = Cardinality(NoticesOf(i)) + 1
           /\ Cardinality(GrantsOf(i) \cup {Len(events) + 1}) = Cardinality(GrantsOf(i)) + 1
  <1>1. /\ notices \in Seq([sub : Nat, end : Nat]) /\ events \in Seq(SubscriptionEvent)
    BY DEF SubInd, SubType, StoreType
  <1>2. /\ Len(notices) \in Nat /\ NoticesOf(i) \in SUBSET (1..Len(notices))
        /\ Len(events) \in Nat /\ GrantsOf(i) \in SUBSET (1..Len(events))
    BY <1>1 DEF NoticesOf, GrantsOf
  <1> QED
    BY <1>2, Counted

\* A step that claims nothing and grants nothing.
LEMMA NothingDue ==
    ASSUME SubInd, RemindersFit, LogsNoGrant, UNCHANGED notices, DOMAIN subs' = DOMAIN subs,
           \A i \in DOMAIN subs : subs'[i].reminded = subs[i].reminded,
           \A j \in Jobs : \A d \in maint'[j].due : d.sub \in DOMAIN subs
    PROVE  RemindersFit'
  <1>1. \A i : NoticesOf(i)' = NoticesOf(i)
    BY DEF NoticesOf
  <1>2. \A i : GrantsOf(i)' = GrantsOf(i)
    BY GrantsKept DEF GrantsOf
  <1> QED
    BY <1>1, <1>2 DEF RemindersFit, Unreminded

\* A grant starts a period: one more reminder is due.
LEMMA CommitReminders ==
    ASSUME SubInd, RemindersFit, NEW p \in Procs, GrantCommit(p)
    PROVE  RemindersFit'
  <1> DEFINE f == frame[p]
             e == EventRow(GrantedRow(f), f.type, f.provider, f.id)
  <1> PICK k : k = GrantedRow(f)
    OBVIOUS
  <1>1. f \in Frame /\ FrameFits(f, subs) /\ f.pc = "write"
    BY DEF SubInd, SubType, FramesFit, GrantCommit
  <1>2. /\ DOMAIN subs' = DOMAIN subs \cup {k}
        /\ \A i \in DOMAIN subs \ {k} : subs'[i].reminded = subs[i].reminded
    BY <1>1, GrantedTable DEF GrantCommit
  <1>3. /\ events' = Append(events, e) /\ events \in Seq(SubscriptionEvent)
        /\ UNCHANGED <<maint, notices>>
    BY DEF GrantCommit, SubInd, SubType, StoreType, jobVars
  <1>4. e.sub = k /\ e.type \in PeriodGrants
    BY <1>1 DEF EventRow, FrameFits, GrantPoints
  <1> HIDE DEF e
  <1>5. \A i : NoticesOf(i)' = NoticesOf(i)
    BY <1>3 DEF NoticesOf
  <1>6. /\ GrantsOf(k)' = GrantsOf(k) \cup {Len(events) + 1}
        /\ \A i : i # k => GrantsOf(i)' = GrantsOf(i)
    BY <1>3, <1>4 DEF GrantsOf
  <1>7. ASSUME NEW i \in DOMAIN subs'
        PROVE  Cardinality(NoticesOf(i)') + Unreminded(subs'[i]) <= Cardinality(GrantsOf(i)')
    <2>1. /\ Cardinality(NoticesOf(i)) \in Nat /\ Cardinality(GrantsOf(i)) \in Nat
          /\ Cardinality(GrantsOf(i) \cup {Len(events) + 1}) = Cardinality(GrantsOf(i)) + 1
      BY Counts
    <2>2. CASE i # k
      BY <1>2, <1>5, <1>6, <1>7, <2>2 DEF RemindersFit, Unreminded
    <2>3. CASE i = k
      <3>1. Cardinality(NoticesOf(i)) <= Cardinality(GrantsOf(i))
        <4>1. CASE i \in DOMAIN subs
          BY <2>1, <4>1 DEF RemindersFit, Unreminded
        <4>2. CASE i \notin DOMAIN subs
          <5>1. NoticesOf(i) = {}
            BY <4>2 DEF RemindersFit, NoticesOf
          <5> QED
            BY <2>1, <5>1, FS_EmptySet
        <4> QED
          BY <4>1, <4>2
      <3> QED
        <4>1. Unreminded(subs'[i]) \in {0, 1}
          BY DEF Unreminded
        <4>2. Cardinality(GrantsOf(i)') = Cardinality(GrantsOf(i)) + 1
          BY <1>6, <2>1, <2>3
        <4> QED
          BY <1>5, <2>1, <3>1, <4>1, <4>2
    <2> QED
      BY <2>2, <2>3
  <1> QED
    BY <1>2, <1>3, <1>7 DEF RemindersFit

\* Whoever claims a reminder may send it, and nobody claims it again in the
\* period.
LEMMA RemindOneReminders ==
    ASSUME SubInd, RemindersFit, NEW j \in Jobs, NEW d \in maint[j].due, RemindOne(j, d)
    PROVE  RemindersFit'
  <1> DEFINE k == d.sub
             old == subs[k]
             new == [old EXCEPT !.reminded = TRUE]
             rest == maint[j].due \ {d}
             state == IF rest = {} THEN IdleJob ELSE [maint[j] EXCEPT !.due = rest]
  <1>1. k \in DOMAIN subs
    BY DEF RemindersFit
  <1>2. old \in Subscription /\ subs \in Seq(Subscription) /\ notices \in Seq([sub : Nat, end : Nat])
    BY <1>1 DEF SubInd, SubType, StoreType
  <1>3. /\ subs' = [subs EXCEPT ![k] = new] /\ maint' = [maint EXCEPT ![j] = state] /\ UNCHANGED events
        /\ notices' \in IF old.reminded THEN {notices} ELSE {notices, Append(notices, d)}
    BY <1>1, <1>2 DEF RemindOne, JobAt
  <1>4. new.reminded = TRUE
    <2> HIDE DEF old
    <2> QED
      BY <1>2 DEF Subscription
  <1>5. state.due \subseteq maint[j].due
    BY JobFits DEF Job, IdleJob
  <1> HIDE DEF new, state
  <1>6. DOMAIN subs' = DOMAIN subs /\ \A i \in DOMAIN subs : subs'[i] = IF i = k THEN new ELSE subs[i]
    BY <1>1, <1>3
  <1>7. \A h \in Jobs : \A x \in maint'[h].due : x.sub \in DOMAIN subs'
    BY <1>3, <1>5, <1>6 DEF RemindersFit, SubInd, SubType
  <1>8. \A i : GrantsOf(i)' = GrantsOf(i)
    BY <1>3 DEF GrantsOf
  <1>9. old.reminded \in BOOLEAN
    <2> HIDE DEF old
    <2> QED
      BY <1>2 DEF Subscription
  <1>10. CASE notices' = notices
    <2>1. \A i : NoticesOf(i)' = NoticesOf(i)
      BY <1>10 DEF NoticesOf
    <2>2. ASSUME NEW i \in DOMAIN subs'
          PROVE  Cardinality(NoticesOf(i)') + Unreminded(subs'[i]) <= Cardinality(GrantsOf(i)')
      <3>1. Cardinality(NoticesOf(i)) \in Nat /\ Cardinality(GrantsOf(i)) \in Nat
        BY Counts
      <3>2. Cardinality(NoticesOf(i)) + Unreminded(subs[i]) <= Cardinality(GrantsOf(i))
        BY <1>6, <2>2 DEF RemindersFit
      <3>3. Unreminded(subs'[i]) <= Unreminded(subs[i]) /\ Unreminded(subs'[i]) \in Nat /\ Unreminded(subs[i]) \in Nat
        BY <1>4, <1>6, <2>2 DEF Unreminded
      <3> QED
        BY <1>8, <2>1, <3>1, <3>2, <3>3
    <2> QED
      BY <1>6, <1>7, <1>10, <2>2 DEF RemindersFit
  <1>11. CASE ~old.reminded /\ notices' = Append(notices, d)
    <2>1. /\ NoticesOf(k)' = NoticesOf(k) \cup {Len(notices) + 1}
          /\ \A i : i # k => NoticesOf(i)' = NoticesOf(i)
          /\ \A n \in DOMAIN notices' : notices'[n].sub \in DOMAIN subs'
      <3> DEFINE Notice == [sub : Nat, end : Nat]
      <3>1. notices \in Seq(Notice)
        BY <1>2
      <3> HIDE DEF Notice
      <3> QED
        BY <1>1, <1>6, <1>11, <3>1 DEF NoticesOf, RemindersFit
    <2>2. ASSUME NEW i \in DOMAIN subs'
          PROVE  Cardinality(NoticesOf(i)') + Unreminded(subs'[i]) <= Cardinality(GrantsOf(i)')
      <3>1. /\ Cardinality(NoticesOf(i)) \in Nat /\ Cardinality(GrantsOf(i)) \in Nat
            /\ Cardinality(NoticesOf(i) \cup {Len(notices) + 1}) = Cardinality(NoticesOf(i)) + 1
        BY Counts
      <3>2. Cardinality(NoticesOf(i)) + Unreminded(subs[i]) <= Cardinality(GrantsOf(i))
        BY <1>6, <2>2 DEF RemindersFit
      <3>3. CASE i = k
        <4>1. Unreminded(subs'[i]) = 0 /\ Unreminded(subs[i]) = 1
          BY <1>4, <1>6, <1>11, <2>2, <3>3 DEF Unreminded
        <4>2. Cardinality(NoticesOf(i)') = Cardinality(NoticesOf(i)) + 1
          BY <2>1, <3>1, <3>3
        <4> QED
          BY <1>8, <3>1, <3>2, <4>1, <4>2
      <3>4. CASE i # k
        BY <1>6, <1>8, <2>1, <2>2, <3>2, <3>4 DEF Unreminded
      <3> QED
        BY <3>3, <3>4
    <2> QED
      BY <1>7, <2>1, <2>2 DEF RemindersFit
  <1> QED
    BY <1>3, <1>9, <1>10, <1>11

LEMMA FrameStepReminders ==
    ASSUME SubInd, RemindersFit, NEW p \in Procs, FrameStep(p)
    PROVE  RemindersFit'
  <1>1. CASE GrantCommit(p)
    BY <1>1, CommitReminders
  <1>2. CASE ~GrantCommit(p)
    <2>1. LogsNoGrant /\ UNCHANGED <<maint, notices>>
      BY <1>2, FrameStepLog DEF FrameStep, GrantStep, GrantPlan, GrantLookup, GrantReplayed, GrantRead,
         GrantAbort, CancelWrite, CancelLog, Flush, jobVars
    <2>2. DOMAIN subs' = DOMAIN subs /\ \A i \in DOMAIN subs : subs'[i].reminded = subs[i].reminded
      <3>1. CASE UNCHANGED subs
        BY <3>1
      <3>2. CASE CancelWrite(p)
        <4> DEFINE k == frame[p].row
                   old == subs[k]
                   new == IF frame[p].type = "canceled" THEN [old EXCEPT !.status = "CANCELED", !.atEnd = FALSE]
                          ELSE [old EXCEPT !.atEnd = TRUE]
        <4>1. subs' = [subs EXCEPT ![k] = new] /\ subs \in Seq(Subscription)
          BY <3>2 DEF CancelWrite, SubInd, SubType, StoreType
        <4>2. k \in DOMAIN subs => new.reminded = old.reminded
          <5> SUFFICES ASSUME old \in Subscription PROVE new.reminded = old.reminded
            BY <4>1
          <5> HIDE DEF old
          <5> QED
            BY DEF Subscription
        <4> HIDE DEF new
        <4> QED
          BY <4>1, <4>2
      <3> QED
        BY <1>2, <3>1, <3>2 DEF FrameStep, GrantStep, GrantPlan, GrantLookup, GrantReplayed, GrantRead,
           GrantAbort, CancelLog, Flush, storeVars
    <2> QED
      BY <2>1, <2>2, NothingDue DEF RemindersFit
  <1> QED
    BY <1>1, <1>2

LEMMA MaintenanceReminders ==
    ASSUME SubInd, RemindersFit, NEW j \in Jobs, MaintenanceStep(j) \/ WorkerCrash(j)
    PROVE  RemindersFit'
  <1>1. CASE \E d \in maint[j].due : RemindOne(j, d)
    BY <1>1, RemindOneReminders
  <1>2. CASE ~\E d \in maint[j].due : RemindOne(j, d)
    <2>1. LogsNoGrant /\ maint[j] \in Job /\ maint \in [Jobs -> Job] /\ IdleJob.due = {}
      BY MaintenanceLog, JobFits DEF SubInd, SubType, IdleJob
    <2>2. UNCHANGED notices
      BY <1>2 DEF MaintenanceStep, MaintenanceStart, ExpireWrite, ExpireLog, ExpireFlush, RemindLook, WorkerCrash
    <2>3. DOMAIN subs' = DOMAIN subs /\ \A i \in DOMAIN subs : subs'[i].reminded = subs[i].reminded
      <3>1. CASE UNCHANGED subs
        BY <3>1
      <3>2. CASE ExpireWrite(j)
        <4>1. ASSUME NEW i \in DOMAIN subs
              PROVE  subs'[i].reminded = subs[i].reminded
          <5> DEFINE old == subs[i]
          <5>1. subs'[i] \in {old, [old EXCEPT !.status = "EXPIRED"]} /\ old \in Subscription
            BY <3>2, <4>1 DEF ExpireWrite, SubInd, SubType, StoreType
          <5> HIDE DEF old
          <5>2. subs'[i].reminded = old.reminded
            BY <5>1 DEF Subscription
          <5> QED
            BY <5>2 DEF old
        <4> QED
          BY <3>2, <4>1 DEF ExpireWrite
      <3> QED
        BY <1>2, <3>1, <3>2 DEF MaintenanceStep, MaintenanceStart, ExpireLog, ExpireFlush, RemindLook,
           WorkerCrash, storeVars
    <2>4. \A h \in Jobs : \A d \in maint'[h].due : d.sub \in DOMAIN subs
      <3>1. PICK state : /\ maint' = [maint EXCEPT ![j] = state]
                         /\ state.due \subseteq maint[j].due \cup {[sub |-> i, end |-> subs[i].end] : i \in DueRows}
        <4>1. CASE MaintenanceStart(j)
          <5>1. PICK state : /\ maint' = [maint EXCEPT ![j] = state]
                             /\ state \in {[IdleJob EXCEPT !.pc = "expire", !.lapsed = LapsedRows],
                                           [IdleJob EXCEPT !.pc = "look"], IdleJob}
            BY <4>1 DEF MaintenanceStart, JobAt
          <5>2. [IdleJob EXCEPT !.pc = "expire", !.lapsed = LapsedRows].due = {}
            BY DEF IdleJob
          <5>3. [IdleJob EXCEPT !.pc = "look"].due = {}
            BY DEF IdleJob
          <5> QED
            BY <2>1, <5>1, <5>2, <5>3
        <4>2. CASE ExpireWrite(j) \/ ExpireLog(j)
          <5>1. PICK point \in {"log", "flush"} : maint' = [maint EXCEPT ![j] = [maint[j] EXCEPT !.pc = point]]
            BY <4>2 DEF ExpireWrite, ExpireLog, JobAt
          <5>2. [maint[j] EXCEPT !.pc = point].due = maint[j].due
            BY <2>1 DEF Job
          <5> QED
            BY <5>1, <5>2
        <4>3. CASE ExpireFlush(j) \/ WorkerCrash(j)
          BY <2>1, <4>3 DEF ExpireFlush, WorkerCrash, JobAt, IdleJob
        <4>4. CASE RemindLook(j)
          <5> DEFINE due == {[sub |-> i, end |-> subs[i].end] : i \in DueRows}
          <5>1. PICK state : /\ maint' = [maint EXCEPT ![j] = state]
                             /\ state \in {IdleJob, [IdleJob EXCEPT !.pc = "remind", !.due = due]}
            BY <4>4 DEF RemindLook, JobAt
          <5> HIDE DEF due
          <5>2. [IdleJob EXCEPT !.pc = "remind", !.due = due].due = due
            BY DEF IdleJob
          <5> QED
            BY <2>1, <5>1, <5>2 DEF due
        <4> QED
          BY <1>2, <4>1, <4>2, <4>3, <4>4 DEF MaintenanceStep
      <3>2. \A d \in state.due : d.sub \in DOMAIN subs
        BY <3>1 DEF RemindersFit, DueRows
      <3> QED
        BY <2>1, <3>1, <3>2 DEF RemindersFit
    <2> QED
      BY <2>1, <2>2, <2>3, <2>4, NothingDue
  <1> QED
    BY <1>1, <1>2

LEMMA SubNextReminders == ASSUME SubInd, RemindersFit, [SubNext]_subVars PROVE RemindersFit'
  <1>1. CASE \E p \in Procs : FrameStep(p)
    BY <1>1, FrameStepReminders
  <1>2. CASE \E j \in Jobs : MaintenanceStep(j) \/ WorkerCrash(j)
    BY <1>2, MaintenanceReminders
  <1>3. CASE UNCHANGED <<subs, events, maint, notices>>
    BY <1>3, SameLog, NothingDue DEF RemindersFit
  <1>4. CASE UNCHANGED subVars \/ \E p \in Procs : Request(p) \/ Return(p)
    BY <1>3, <1>4 DEF Request, AdminGrant, PaidGrant, CancelRead, Return, subVars, storeVars, jobVars
  <1>5. CASE Environment
    BY <1>3, <1>5 DEF Environment, NextDay, AdminUpdate, CacheExpire, ViewMiss, ViewStep, ViewResolve,
       ViewFill, storeVars, jobVars
  <1> QED
    BY <1>1, <1>2, <1>4, <1>5 DEF SubNext

\* "Once per period": however many runs of the job overlap and wherever they
\* are cut short, a subscription has no more reminders than granted periods.
THEOREM RemindersOncePerPeriod == SubSpec => []ReminderOncePerPeriod
  <1>1. SubInit => RemindersFit
    BY DEF SubInit, StoreInit, RemindersFit, IdleJob
  <1>2. SubInd /\ RemindersFit /\ [SubNext]_subVars => RemindersFit'
    BY SubNextReminders
  <1>3. SubInd /\ RemindersFit => ReminderOncePerPeriod
    <2> SUFFICES ASSUME SubInd, RemindersFit, NEW i \in DOMAIN subs
                 PROVE  Cardinality(NoticesOf(i)) <= Cardinality(GrantsOf(i))
      BY DEF ReminderOncePerPeriod, NoticesOf, GrantsOf
    <2>1. Cardinality(NoticesOf(i)) \in Nat /\ Cardinality(GrantsOf(i)) \in Nat
      BY Counts
    <2> QED
      BY <2>1 DEF RemindersFit, Unreminded
  <1> QED
    BY <1>1, <1>2, <1>3, SubSpecInd, PTL DEF SubSpec
====
