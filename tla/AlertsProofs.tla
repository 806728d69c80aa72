---- MODULE AlertsProofs ----
(***************************************************************************)
(* Proofs about Notifications and Alerts: for any number of concurrent     *)
(* dispatches, sweeps, alerts and crashes, a notification is mailed once   *)
(* but for the messages a crash leaves unrecorded, the hourly cap holds up *)
(* to the dispatches that counted at once, and an alert is told once each  *)
(* time it is armed and its cooldown is over.                              *)
(***************************************************************************)
EXTENDS Alerts, FiniteSetTheorems, SequenceTheorems, TLAPS

\* The points at which a dispatch has its notification in hand.
Unsent == {"targets", "hold", "send"}
InHand == Unsent \cup {"record"}

\* What a dispatch has in hand is a row of its own without a delivery yet.
DispatchFits(c, n, rows) ==
    /\ c.pc \in InHand => c.note \in n /\ rows[c.note].status = None
    /\ c.pc = "record" => c.outcome \in Sends

DispatchesFit ==
    /\ \A w \in Senders : DispatchFits(sending[w], DOMAIN notes, delivery)
    /\ \A w, v \in Senders :
          sending[w].pc \in InHand /\ sending[v].pc \in InHand /\ sending[w].note = sending[v].note => w = v

\* A job has what it read: nobody else settles a failed or a held delivery.
JobsFit ==
    /\ \A n \in retry.todo : n \in DOMAIN notes /\ delivery[n].status = "FAILED"
    /\ \A n \in digest.todo : n \in DOMAIN notes /\ delivery[n].status = "PENDING"
    /\ retry.pc = "record" => retry.note \in retry.todo
    /\ retry.pc = "record" => retry.outcome \in Sends
    /\ digest.pc = "record" => digest.outcome \in Sends

\* Notification n may still be mailed: it is to come, a dispatch has it in hand,
\* or its delivery is held or failed, and it is not mailed already with the
\* record to come.
StillToMail(n) ==
    \/ n \notin DOMAIN notes
    \/ \E w \in Senders : /\ sending[w].note = n
                          /\ sending[w].pc \in Unsent \/ (sending[w].pc = "record" /\ sending[w].outcome # "SENT")
    \/ /\ delivery[n].status = "FAILED"
       /\ ~(retry.pc = "record" /\ retry.note = n /\ retry.outcome = "SENT")
    \/ /\ delivery[n].status = "PENDING"
       /\ ~(digest.pc = "record" /\ n \in digest.todo /\ digest.outcome = "SENT")

\* A message too many is one that a crash has left unrecorded.
MailFits ==
    \A n \in 1..MaxNotes :
        /\ mailed[n] <= crashes + 1
        /\ StillToMail(n) => mailed[n] <= crashes
        /\ n \notin DOMAIN notes => delivery[n].status = None

Passed == {w \in Senders : sending[w].pc = "create"}

\* The notifications of the last hour, and those that passed the cap.
RateFits == RateCap > 0 => Cardinality(Since(1)) + Cardinality(Passed) <= RateCap + Cardinality(Senders) - 1

\* The inductive invariant of Notifications.
NotesInd == TypeOK /\ DispatchesFit /\ JobsFit /\ MailFits /\ RateFits

----
(* The steps of Notifications *)

\* The parts of the type invariant that the steps of a dispatch depend on.
LEMMA Types ==
    ASSUME TypeOK
    PROVE  /\ hour \in 0..MaxHour /\ notes \in Seq(Note) /\ Len(notes) \in 0..MaxNotes
           /\ DOMAIN notes = 1..Len(notes) /\ DOMAIN notes \subseteq 1..MaxNotes
           /\ delivery \in [1..MaxNotes -> Delivery]
           /\ mailed \in [1..MaxNotes -> Nat]
           /\ sending \in [Senders -> DispatchCall]
           /\ retry \in JobRun /\ digest \in JobRun
           /\ crashes \in Nat /\ MaxNotes \in Nat
  <1>1. notes \in Seq(Note) /\ Len(notes) <= MaxNotes BY DEF TypeOK
  <1>2. DOMAIN notes = 1..Len(notes) /\ Len(notes) \in Nat BY <1>1, LenProperties
  <1>3. MaxNotes \in Nat /\ MaxCrashes \in Nat BY NotificationAssumption
  <1> QED BY <1>1, <1>2, <1>3 DEF TypeOK

LEMMA NoNote ==
    /\ None \notin Nat /\ None # "PENDING" /\ None # "SENT" /\ None # "FAILED" /\ None # "SKIPPED"
  BY NotificationAssumption

\* A sender that is idle or done fits its record.
LEMMA IdleFits ==
    /\ NotSending \in DispatchCall
    /\ [NotSending EXCEPT !.pc = "done"] \in DispatchCall
    /\ NoJob \in JobRun
  <1>1. MaxNotes \in Nat BY NotificationAssumption
  <1> QED BY <1>1 DEF NotSending, DispatchCall, NoJob, JobRun

\* A dispatch moves on.
LEMMA MovesOn ==
    ASSUME NEW c \in DispatchCall,
           NEW p \in {"idle", "duplicate", "rate", "create", "targets", "hold", "send", "record", "count", "done"}
    PROVE  [c EXCEPT !.pc = p] \in DispatchCall
  BY DEF DispatchCall

\* The call of one sender changes.
LEMMA OneSender ==
    ASSUME sending \in [Senders -> DispatchCall],
           NEW w \in Senders, NEW c \in DispatchCall, sending' = [sending EXCEPT ![w] = c]
    PROVE  /\ sending' \in [Senders -> DispatchCall]
           /\ sending'[w] = c
           /\ \A v \in Senders : v # w => sending'[v] = sending[v]
  OBVIOUS

\* The notifications of a window are finitely many.
LEMMA SinceFinite ==
    ASSUME TypeOK, NEW h
    PROVE  IsFiniteSet(Since(h)) /\ Cardinality(Since(h)) \in Nat
  <1>1. Since(h) \subseteq 1..MaxNotes /\ MaxNotes \in Nat BY Types DEF Since
  <1>2. IsFiniteSet(1..MaxNotes) BY <1>1, FS_Interval
  <1> QED BY <1>1, <1>2, FS_Subset, FS_CardinalityType

\* What the steps that change a dispatch, and nothing that was sent, have in common.
QuietSend(w, c) ==
    /\ sending' = [sending EXCEPT ![w] = c]
    /\ UNCHANGED <<hour, notes, delivery, realtime, mailed, jobVars, settings, crashes>>
    /\ channel' \in Channel \cup {None}
    /\ c.pc \in InHand => c.note = sending[w].note /\ c.pc \in Unsent /\ sending[w].pc \in Unsent
    /\ c.pc = "create" => RateCap = 0 \/ Cardinality(Since(1)) < RateCap

LEMMA QuietSteps ==
    ASSUME NotesInd, NEW w \in Senders, NEW c \in DispatchCall, QuietSend(w, c)
    PROVE  NotesInd'
  <1> USE DEF NotesInd
  <1>1. /\ sending' \in [Senders -> DispatchCall]
        /\ sending'[w] = c
        /\ \A v \in Senders : v # w => sending'[v] = sending[v]
    BY OneSender, Types DEF QuietSend
  <1>2. TypeOK'
    BY <1>1 DEF TypeOK, QuietSend, jobVars
  <1>3. c.pc \in InHand => c.note = sending[w].note /\ c.pc \in Unsent /\ sending[w].pc \in Unsent
    BY DEF QuietSend
  <1>4. DispatchesFit'
    <2>1. \A v \in Senders : sending'[v].pc \in InHand =>
             /\ sending[v].pc \in InHand /\ sending'[v].note = sending[v].note
             /\ sending'[v].pc = "record" => sending[v].pc = "record" /\ sending'[v].outcome = sending[v].outcome
      BY <1>1, <1>3 DEF InHand, Unsent
    <2> QED BY <2>1 DEF DispatchesFit, DispatchFits, QuietSend, InHand
  <1>5. JobsFit'
    BY DEF JobsFit, QuietSend, jobVars
  <1>6. MailFits'
    <2>1. ASSUME NEW n \in 1..MaxNotes, StillToMail(n)' PROVE StillToMail(n)
      <3>1. CASE \E v \in Senders : /\ sending'[v].note = n
                                    /\ \/ sending'[v].pc \in Unsent
                                       \/ sending'[v].pc = "record" /\ sending'[v].outcome # "SENT"
        <4>1. PICK v \in Senders : /\ sending'[v].note = n
                                   /\ \/ sending'[v].pc \in Unsent
                                      \/ sending'[v].pc = "record" /\ sending'[v].outcome # "SENT"
          BY <3>1
        <4>2. CASE v = w BY <4>1, <4>2, <1>1, <1>3 DEF StillToMail, InHand, Unsent
        <4>3. CASE v # w BY <4>1, <4>3, <1>1 DEF StillToMail
        <4> QED BY <4>2, <4>3
      <3>2. CASE ~\E v \in Senders : /\ sending'[v].note = n
                                     /\ \/ sending'[v].pc \in Unsent
                                        \/ sending'[v].pc = "record" /\ sending'[v].outcome # "SENT"
        BY <2>1, <3>2 DEF StillToMail, QuietSend, jobVars
      <3> QED BY <3>1, <3>2
    <2> QED BY <2>1 DEF MailFits, QuietSend
  <1>7. RateFits'
    <2>1. Since(1)' = Since(1) BY DEF Since, QuietSend
    <2>2. Passed \subseteq Senders /\ Passed' \subseteq Senders /\ IsFiniteSet(Senders)
      BY NotificationAssumption DEF Passed
    <2>3. /\ IsFiniteSet(Passed) /\ IsFiniteSet(Passed') /\ Cardinality(Passed') <= Cardinality(Senders)
          /\ Cardinality(Passed) \in Nat /\ Cardinality(Passed') \in Nat /\ Cardinality(Senders) \in Nat
      BY <2>2, FS_Subset, FS_CardinalityType
    <2>4. Cardinality(Since(1)) \in Nat BY SinceFinite
    <2>5. RateCap \in Nat BY NotificationAssumption
    <2>6. CASE c.pc = "create"
      BY <2>1, <2>3, <2>4, <2>5, <2>6 DEF RateFits, QuietSend
    <2>7. CASE c.pc # "create"
      <3>1. Passed' \subseteq Passed BY <2>7, <1>1 DEF Passed
      <3>2. Cardinality(Passed') <= Cardinality(Passed) BY <3>1, <2>3, FS_Subset
      <3> QED BY <3>2, <2>1, <2>3, <2>4, <2>5 DEF RateFits
    <2> QED BY <2>6, <2>7
  <1> QED BY <1>2, <1>4, <1>5, <1>6, <1>7

\* The channel, the plan or the clock moves, which touches no message.
LEMMA WorldSteps ==
    ASSUME NotesInd, TypeOK', hour' >= hour,
           UNCHANGED <<notes, delivery, mailed, sending, jobVars, crashes>>
    PROVE  NotesInd'
  <1>1. TypeOK /\ TypeOK' BY DEF NotesInd
  <1>2. DispatchesFit' /\ JobsFit'
    BY DEF NotesInd, DispatchesFit, JobsFit, jobVars
  <1>3. MailFits'
    BY DEF NotesInd, MailFits, StillToMail, jobVars
  <1>4. RateFits'
    <2>1. \A n \in DOMAIN notes : notes[n].at \in Nat
      <3>1. notes \in Seq(Note) /\ DOMAIN notes = 1..Len(notes) BY <1>1, Types
      <3>2. \A n \in 1..Len(notes) : notes[n] \in Note BY <3>1, ElementOfSeq
      <3> QED BY <3>1, <3>2 DEF Note
    <2>2. hour \in Nat /\ hour' \in Nat
      BY <1>1, NotificationAssumption DEF TypeOK
    <2>3. Since(1)' \subseteq Since(1)
      BY <2>1, <2>2 DEF Since
    <2>4. Cardinality(Since(1)') <= Cardinality(Since(1))
      BY <2>3, <1>1, SinceFinite, FS_Subset
    <2>5. Cardinality(Since(1)) \in Nat /\ Cardinality(Since(1)') \in Nat
      BY <2>3, <1>1, SinceFinite, FS_Subset, FS_CardinalityType
    <2>6. Passed' = Passed BY DEF Passed
    <2>7. Passed \subseteq Senders BY DEF Passed
    <2>8. Cardinality(Passed) \in Nat /\ Cardinality(Senders) \in Nat /\ RateCap \in Nat
      BY <2>7, NotificationAssumption, FS_Subset, FS_CardinalityType
    <2> QED BY <2>4, <2>5, <2>6, <2>8 DEF NotesInd, RateFits
  <1> QED BY <1>1, <1>2, <1>3, <1>4 DEF NotesInd

\* The delivery rows after one of the recordings.
LEMMA Recorded ==
    ASSUME TypeOK, NEW ns, NEW status \in DeliveryStatus, Delivered(ns, status)
    PROVE  /\ delivery' \in [1..MaxNotes -> Delivery]
           /\ \A n \in 1..MaxNotes : delivery'[n].status = IF n \in ns THEN status ELSE delivery[n].status
  <1>1. delivery \in [1..MaxNotes -> Delivery] BY Types
  <1>2. \A n \in 1..MaxNotes : delivery[n].attempts + (IF status = "PENDING" THEN 0 ELSE 1) \in Nat
    BY <1>1 DEF Delivery
  <1> QED BY <1>1, <1>2 DEF Delivered, Delivery

\* The cap does not look at what is sent.
LEMMA RateKept ==
    ASSUME NotesInd, UNCHANGED <<hour, notes>>, Passed' \subseteq Passed
    PROVE  RateFits'
  <1>1. Since(1)' = Since(1) BY DEF Since
  <1>2. Cardinality(Since(1)) \in Nat BY SinceFinite DEF NotesInd
  <1>3. Passed \subseteq Senders BY DEF Passed
  <1>4. IsFiniteSet(Passed) /\ Cardinality(Senders) \in Nat /\ RateCap \in Nat
    BY <1>3, NotificationAssumption, FS_Subset, FS_CardinalityType
  <1>5. Cardinality(Passed') <= Cardinality(Passed) /\ Cardinality(Passed) \in Nat /\ Cardinality(Passed') \in Nat
    BY <1>4, FS_Subset, FS_CardinalityType
  <1> QED BY <1>1, <1>2, <1>4, <1>5 DEF NotesInd, RateFits

\* A dispatch records what became of the notification in its hand.
SettleSend(w, c, status) ==
    /\ sending' = [sending EXCEPT ![w] = c]
    /\ sending[w].pc \in InHand
    /\ c.pc \in {"count", "done"}
    /\ Delivered({sending[w].note}, status)
    /\ status = "FAILED" => sending[w].pc = "record" /\ sending[w].outcome = "FAILED"
    /\ status = "PENDING" => sending[w].pc = "hold"
    /\ UNCHANGED <<hour, notes, channel, realtime, mailed, jobVars, settings, crashes>>

LEMMA SettleSteps ==
    ASSUME NotesInd, NEW w \in Senders, NEW c \in DispatchCall,
           NEW status \in DeliveryStatus, SettleSend(w, c, status)
    PROVE  NotesInd'
  <1> DEFINE note == sending[w].note
  <1>1. /\ sending' \in [Senders -> DispatchCall]
        /\ sending'[w] = c
        /\ \A v \in Senders : v # w => sending'[v] = sending[v]
    BY OneSender, Types DEF NotesInd, SettleSend
  <1>2. /\ delivery' \in [1..MaxNotes -> Delivery]
        /\ \A n \in 1..MaxNotes : delivery'[n].status = IF n = note THEN status ELSE delivery[n].status
    BY Recorded DEF NotesInd, SettleSend
  <1>3. TypeOK'
    BY <1>1, <1>2 DEF NotesInd, TypeOK, SettleSend, jobVars
  <1>4. /\ note \in DOMAIN notes /\ note \in 1..MaxNotes /\ delivery[note].status = None
        /\ \A v \in Senders : v # w /\ sending[v].pc \in InHand => sending[v].note # note
    BY Types DEF NotesInd, DispatchesFit, DispatchFits, SettleSend
  <1>5. DOMAIN notes \subseteq 1..MaxNotes
    BY Types DEF NotesInd
  <1>6. DispatchesFit'
    BY <1>1, <1>2, <1>4, <1>5 DEF NotesInd, DispatchesFit, DispatchFits, SettleSend, InHand, Unsent
  <1>7. JobsFit'
    <2>1. note \notin retry.todo /\ note \notin digest.todo
      BY <1>4, NoNote DEF NotesInd, JobsFit
    <2> QED BY <2>1, <1>2, <1>5 DEF NotesInd, JobsFit, SettleSend, jobVars
  <1>8. MailFits'
    <2>1. ASSUME NEW n \in 1..MaxNotes, StillToMail(n)' PROVE StillToMail(n)
      <3>1. CASE n = note
        <4>1. ~\E v \in Senders : sending'[v].note = n /\ sending'[v].pc \in InHand
          BY <3>1, <1>1, <1>4 DEF SettleSend, InHand, Unsent
        <4>2. delivery'[n].status = status /\ status \in {"FAILED", "PENDING"}
          BY <2>1, <3>1, <4>1, <1>2, <1>4 DEF StillToMail, SettleSend, InHand, Unsent
        <4> QED BY <3>1, <4>2 DEF StillToMail, SettleSend, Unsent
      <3>2. CASE n # note
        <4>1. delivery'[n].status = delivery[n].status BY <3>2, <1>2
        <4>2. \A v \in Senders : sending'[v].note = n /\ sending'[v].pc \in InHand => sending'[v] = sending[v]
          BY <3>2, <1>1 DEF SettleSend, InHand, Unsent
        <4> QED BY <2>1, <4>1, <4>2 DEF StillToMail, SettleSend, jobVars, InHand
      <3> QED BY <3>1, <3>2
    <2>2. \A n \in 1..MaxNotes : n \notin DOMAIN notes => n # note BY <1>4
    <2> QED BY <2>1, <2>2, <1>2 DEF NotesInd, MailFits, SettleSend
  <1>9. Passed' \subseteq Passed
    BY <1>1 DEF Passed, SettleSend
  <1>10. RateFits'
    BY <1>9, RateKept DEF SettleSend
  <1> QED BY <1>3, <1>6, <1>7, <1>8, <1>10 DEF NotesInd

\* The messages after one of the sends.
LEMMA Sent ==
    ASSUME TypeOK, NEW ns, NEW outcome, Mail(ns, outcome)
    PROVE  /\ mailed' \in [1..MaxNotes -> Nat]
           /\ \A n \in 1..MaxNotes :
                 mailed'[n] = IF outcome = "SENT" /\ n \in ns THEN mailed[n] + 1 ELSE mailed[n]
  <1>1. mailed \in [1..MaxNotes -> Nat] BY Types
  <1> QED BY <1>1 DEF Mail

\* A dispatch sends the notification in its hand.
LEMMA SendSteps ==
    ASSUME NotesInd, NEW w \in Senders, Send(w)
    PROVE  NotesInd'
  <1> DEFINE note == sending[w].note
  <1>1. PICK outcome \in Sends : /\ Mail({note}, outcome)
                                 /\ sending' = [sending EXCEPT ![w].pc = "record", ![w].outcome = outcome]
    BY DEF Send
  <1>2. /\ sending[w].pc = "send"
        /\ UNCHANGED <<hour, notes, delivery, channel, realtime, jobVars, settings, crashes>>
    BY DEF Send
  <1>3. PICK c : c = [sending[w] EXCEPT !.pc = "record", !.outcome = outcome] OBVIOUS
  <1>4. sending[w] \in DispatchCall /\ sending \in [Senders -> DispatchCall] BY Types DEF NotesInd
  <1>5. c \in DispatchCall /\ c.pc = "record" /\ c.outcome = outcome /\ c.note = note
    BY <1>3, <1>4 DEF DispatchCall, Outcomes
  <1>6. sending' = [sending EXCEPT ![w] = c] BY <1>1, <1>3, <1>4 DEF DispatchCall
  <1>7. /\ sending' \in [Senders -> DispatchCall]
        /\ sending'[w] = c
        /\ \A v \in Senders : v # w => sending'[v] = sending[v]
    BY <1>4, <1>5, <1>6, OneSender
  <1>8. /\ mailed' \in [1..MaxNotes -> Nat]
        /\ \A n \in 1..MaxNotes : mailed'[n] = IF outcome = "SENT" /\ n = note THEN mailed[n] + 1 ELSE mailed[n]
    BY <1>1, Sent DEF NotesInd
  <1>9. TypeOK' BY <1>2, <1>7, <1>8 DEF NotesInd, TypeOK, jobVars
  <1>10. /\ note \in DOMAIN notes /\ note \in 1..MaxNotes /\ delivery[note].status = None
         /\ \A v \in Senders : v # w /\ sending[v].pc \in InHand => sending[v].note # note
    BY <1>2, Types DEF NotesInd, DispatchesFit, DispatchFits, InHand, Unsent
  <1>11. \A v \in Senders : /\ sending'[v].pc \in InHand <=> sending[v].pc \in InHand
                            /\ sending'[v].note = sending[v].note
    BY <1>2, <1>5, <1>7 DEF InHand, Unsent
  <1>12. DispatchesFit'
    <2>1. \A v \in Senders : sending'[v].pc = "record" => sending'[v].outcome \in Sends
      BY <1>5, <1>7 DEF NotesInd, DispatchesFit, DispatchFits
    <2> QED BY <2>1, <1>2, <1>11 DEF NotesInd, DispatchesFit, DispatchFits
  <1>13. JobsFit' BY <1>2 DEF NotesInd, JobsFit, jobVars
  <1>14. MailFits'
    <2> SUFFICES ASSUME NEW n \in 1..MaxNotes
                 PROVE  /\ mailed'[n] <= crashes + 1
                        /\ StillToMail(n)' => mailed'[n] <= crashes
                        /\ n \notin DOMAIN notes => delivery[n].status = None
      BY <1>2 DEF MailFits
    <2>1. /\ mailed[n] <= crashes + 1
          /\ StillToMail(n) => mailed[n] <= crashes
          /\ n \notin DOMAIN notes => delivery[n].status = None
          /\ mailed[n] \in Nat /\ crashes \in Nat
      BY Types DEF NotesInd, MailFits
    <2>2. CASE n = note
      <3>1. StillToMail(n) BY <2>2, <1>2 DEF StillToMail, Unsent
      <3>2. outcome = "SENT" => ~StillToMail(n)'
        <4>1. \A v \in Senders : sending'[v].pc \in InHand /\ sending'[v].note = n => v = w
          BY <2>2, <1>10, <1>11
        <4> QED BY <4>1, <2>2, <1>2, <1>5, <1>7, <1>10, NoNote DEF StillToMail, InHand, Unsent
      <3> QED BY <3>1, <3>2, <2>1, <1>8
    <2>3. CASE n # note
      <3>1. \A v \in Senders : sending'[v].note = n => sending'[v] = sending[v]
        BY <2>3, <1>5, <1>7
      <3>2. StillToMail(n)' => StillToMail(n)
        BY <3>1, <1>2 DEF StillToMail, jobVars
      <3> QED BY <3>2, <2>1, <2>3, <1>8
    <2> QED BY <2>2, <2>3
  <1>15. Passed' \subseteq Passed BY <1>5, <1>7 DEF Passed
  <1>16. RateFits' BY <1>2, <1>15, RateKept
  <1> QED BY <1>9, <1>12, <1>13, <1>14, <1>16 DEF NotesInd

\* A notification is written; it is the next of its dispatch.
LEMMA CreateFits ==
    ASSUME NotesInd, NEW w \in Senders, CreateNote(w)
    PROVE  NotesInd'
  <1> DEFINE next == Len(notes) + 1
  <1>1. /\ notes \in Seq(Note) /\ Len(notes) \in 0..MaxNotes /\ DOMAIN notes = 1..Len(notes)
        /\ DOMAIN notes \subseteq 1..MaxNotes /\ MaxNotes \in Nat /\ hour \in 0..MaxHour /\ MaxHour \in Nat
        /\ sending \in [Senders -> DispatchCall] /\ sending[w] \in DispatchCall
    BY Types, NotificationAssumption DEF NotesInd
  <1>2. PICK row \in Note : row = [source |-> sending[w].source, key |-> sending[w].key, at |-> hour]
    <2>1. sending[w].source \in Nat /\ sending[w].key \in Nat \cup {None} /\ hour \in Nat
      BY <1>1 DEF DispatchCall
    <2>2. [source |-> sending[w].source, key |-> sending[w].key, at |-> hour] \in Note
      BY <2>1 DEF Note
    <2> QED BY <2>2
  <1>3. notes' = Append(notes, row) /\ next \in 1..MaxNotes
    BY <1>1, <1>2 DEF CreateNote
  <1>4. /\ notes' \in Seq(Note) /\ Len(notes') = next /\ DOMAIN notes' = 1..next
        /\ notes'[next] = row /\ \A n \in 1..Len(notes) : notes'[n] = notes[n]
    BY <1>1, <1>2, <1>3, AppendProperties, LenProperties
  <1>5. PICK c : c = [sending[w] EXCEPT !.pc = "targets", !.note = next] OBVIOUS
  <1>6. c \in DispatchCall /\ c.pc = "targets" /\ c.note = next /\ sending[w].pc = "create"
    <2>1. sending[w] \in DispatchCall /\ next \in 0..MaxNotes BY <1>1, <1>3
    <2>2. c \in DispatchCall /\ c.pc = "targets" /\ c.note = next BY <2>1, <1>5 DEF DispatchCall
    <2> QED BY <2>2 DEF CreateNote
  <1>7. sending' = [sending EXCEPT ![w] = c]
    BY <1>1, <1>5 DEF CreateNote, DispatchCall
  <1>8. /\ sending' \in [Senders -> DispatchCall]
        /\ sending'[w] = c
        /\ \A v \in Senders : v # w => sending'[v] = sending[v]
    BY <1>1, <1>6, <1>7, OneSender
  <1>9. UNCHANGED <<hour, delivery, channel, realtime, mailed, jobVars, settings, crashes>>
    BY DEF CreateNote
  <1>10. TypeOK'
    BY <1>3, <1>4, <1>8, <1>9, <1>1 DEF NotesInd, TypeOK, jobVars
  <1>11. DOMAIN notes \subseteq DOMAIN notes' /\ next \notin DOMAIN notes /\ DOMAIN notes' = DOMAIN notes \cup {next}
    BY <1>1, <1>4
  <1>12. delivery[next].status = None
    BY <1>3, <1>11 DEF NotesInd, MailFits
  <1>13. DispatchesFit'
    <2>1. \A v \in Senders : v # w /\ sending'[v].pc \in InHand => sending'[v].note \in DOMAIN notes
      BY <1>8 DEF NotesInd, DispatchesFit, DispatchFits
    <2>2. \A v \in Senders : sending'[v].pc \in InHand /\ sending'[v].note = next => v = w
      BY <2>1, <1>11
    <2>3. \A v, u \in Senders :
             sending'[v].pc \in InHand /\ sending'[u].pc \in InHand /\ sending'[v].note = sending'[u].note => v = u
      BY <2>2, <1>6, <1>8 DEF NotesInd, DispatchesFit
    <2>4. \A v \in Senders : DispatchFits(sending'[v], DOMAIN notes', delivery')
      BY <1>6, <1>8, <1>9, <1>11, <1>12 DEF NotesInd, DispatchesFit, DispatchFits
    <2> QED BY <2>3, <2>4 DEF DispatchesFit
  <1>14. JobsFit'
    BY <1>9, <1>11 DEF NotesInd, JobsFit, jobVars
  <1>15. MailFits'
    <2>1. ASSUME NEW n \in 1..MaxNotes, StillToMail(n)' PROVE StillToMail(n)
      <3>1. CASE n = next BY <3>1, <1>11 DEF StillToMail
      <3>2. CASE n # next
        <4>1. \A v \in Senders : sending'[v].note = n => sending'[v] = sending[v]
          BY <3>2, <1>6, <1>8
        <4> QED BY <4>1, <3>2, <2>1, <1>9, <1>11 DEF StillToMail, jobVars
      <3> QED BY <3>1, <3>2
    <2> QED BY <2>1, <1>9, <1>11 DEF NotesInd, MailFits
  <1>16. RateFits'
    <2>1. Since(1)' \subseteq Since(1) \cup {next}
      BY <1>4, <1>1, <1>9 DEF Since
    <2>2. IsFiniteSet(Since(1)) /\ Cardinality(Since(1)) \in Nat BY SinceFinite DEF NotesInd
    <2>3. IsFiniteSet(Since(1) \cup {next}) /\ Cardinality(Since(1) \cup {next}) <= Cardinality(Since(1)) + 1
      <3>1. /\ IsFiniteSet(Since(1) \cup {next})
            /\ Cardinality(Since(1) \cup {next}) =
                 IF next \in Since(1) THEN Cardinality(Since(1)) ELSE Cardinality(Since(1)) + 1
        BY <2>2, FS_AddElement
      <3> QED BY <3>1, <2>2
    <2>4. Cardinality(Since(1)') \in Nat /\ Cardinality(Since(1)') <= Cardinality(Since(1)) + 1
      <3>1. IsFiniteSet(Since(1)') /\ Cardinality(Since(1)') <= Cardinality(Since(1) \cup {next})
        BY <2>1, <2>3, FS_Subset
      <3> QED BY <3>1, <2>2, <2>3, FS_CardinalityType
    <2>5. Passed' = Passed \ {w} /\ w \in Passed
      BY <1>6, <1>8 DEF Passed
    <2>6. IsFiniteSet(Passed) /\ Cardinality(Passed) \in Nat
      <3>1. Passed \subseteq Senders BY DEF Passed
      <3> QED BY <3>1, NotificationAssumption, FS_Subset, FS_CardinalityType
    <2>7. Cardinality(Passed') = Cardinality(Passed) - 1 /\ Cardinality(Passed') \in Nat
      BY <2>5, <2>6, FS_RemoveElement, FS_CardinalityType
    <2>8. Cardinality(Senders) \in Nat /\ RateCap \in Nat BY NotificationAssumption, FS_CardinalityType
    <2> QED BY <2>2, <2>4, <2>6, <2>7, <2>8 DEF NotesInd, RateFits
  <1> QED BY <1>10, <1>13, <1>14, <1>15, <1>16 DEF NotesInd

\* The worker dies: what was sent and not recorded may be sent once more.
LEMMA CrashFits ==
    ASSUME NotesInd, WorkerCrash
    PROVE  NotesInd'
  <1>1. /\ sending' = [v \in Senders |-> NotSending] /\ retry' = NoJob /\ digest' = NoJob
        /\ crashes' = crashes + 1 /\ crashes < MaxCrashes
        /\ UNCHANGED <<hour, notes, delivery, channel, realtime, mailed, settings>>
    BY DEF WorkerCrash
  <1>2. /\ MaxCrashes \in Nat /\ crashes \in Nat /\ mailed \in [1..MaxNotes -> Nat] /\ MaxNotes \in Nat
    BY Types, NotificationAssumption DEF NotesInd
  <1>3. TypeOK'
    BY <1>1, <1>2, IdleFits DEF NotesInd, TypeOK
  <1>4. \A v \in Senders : sending'[v].pc = "idle"
    BY <1>1 DEF NotSending
  <1>5. DispatchesFit' /\ JobsFit'
    BY <1>1, <1>4 DEF DispatchesFit, DispatchFits, JobsFit, NoJob, InHand, Unsent
  <1>6. MailFits'
    <2>1. \A n \in 1..MaxNotes : mailed[n] <= crashes + 1 /\ mailed[n] \in Nat
      BY <1>2 DEF NotesInd, MailFits
    <2> QED BY <2>1, <1>1, <1>2 DEF NotesInd, MailFits
  <1>7. Passed' \subseteq Passed BY <1>4 DEF Passed
  <1>8. RateFits' BY <1>1, <1>7, RateKept
  <1> QED BY <1>3, <1>5, <1>6, <1>8 DEF NotesInd

\* A job settles deliveries that are under way, so no dispatch notices.
LEMMA JobsSpareDispatches ==
    ASSUME NotesInd, UNCHANGED <<notes, sending>>,
           \A n \in 1..MaxNotes : delivery[n].status = None => delivery'[n].status = None
    PROVE  DispatchesFit'
  <1>1. DOMAIN notes \subseteq 1..MaxNotes BY Types DEF NotesInd
  <1> QED BY <1>1 DEF NotesInd, DispatchesFit, DispatchFits

\* The cap does not look at the jobs.
LEMMA JobsSpareTheCap ==
    ASSUME NotesInd, UNCHANGED <<hour, notes, sending>>
    PROVE  RateFits'
  <1>1. Passed' = Passed BY DEF Passed
  <1> QED BY <1>1, RateKept

\* What is in a job's list is a notification with a delivery under way, which
\* no dispatch has in hand.
LEMMA InList ==
    ASSUME NotesInd, NEW n \in retry.todo \cup digest.todo
    PROVE  /\ n \in DOMAIN notes /\ n \in 1..MaxNotes
           /\ delivery[n].status # None
           /\ \A w \in Senders : sending[w].note = n => sending[w].pc \notin InHand
           /\ n \in retry.todo => delivery[n].status = "FAILED" /\ n \notin digest.todo
           /\ n \in digest.todo => delivery[n].status = "PENDING" /\ n \notin retry.todo
  <1>1. n \in DOMAIN notes /\ n \in 1..MaxNotes BY Types DEF NotesInd, JobsFit
  <1>2. /\ n \in retry.todo => delivery[n].status = "FAILED" /\ n \notin digest.todo
        /\ n \in digest.todo => delivery[n].status = "PENDING" /\ n \notin retry.todo
    BY DEF NotesInd, JobsFit
  <1>3. delivery[n].status # None BY <1>2, NoNote
  <1>4. \A w \in Senders : sending[w].note = n => sending[w].pc \notin InHand
    BY <1>3 DEF NotesInd, DispatchesFit, DispatchFits
  <1> QED BY <1>1, <1>2, <1>3, <1>4

\* A job reads its list.
LEMMA ReadSteps ==
    ASSUME NotesInd, RetryRead \/ DigestRead
    PROVE  NotesInd'
  <1>1. /\ UNCHANGED <<hour, notes, delivery, channel, realtime, mailed, sending, settings, crashes>>
        /\ DOMAIN notes \subseteq 1..MaxNotes
    BY Types DEF NotesInd, RetryRead, DigestRead
  <1>2. DispatchesFit' /\ RateFits'
    BY <1>1, JobsSpareDispatches, JobsSpareTheCap
  <1>3. NoJob \in JobRun /\ retry \in JobRun /\ digest \in JobRun /\ channel \in Channel \cup {None}
    BY IdleFits DEF NotesInd, TypeOK
  <1>4. CASE RetryRead
    <2>1. PICK todo \in SUBSET (1..MaxNotes) :
             /\ todo = {n \in With("FAILED") : delivery[n].attempts < MaxAttempts}
             /\ retry' = [NoJob EXCEPT !.pc = "send", !.todo = todo, !.channel = channel]
      BY <1>1, <1>4 DEF RetryRead, With
    <2>2. retry' \in JobRun /\ retry'.pc = "send" /\ retry'.todo = todo
      BY <2>1, <1>3 DEF JobRun, NoJob
    <2>3. digest' = digest /\ retry.pc = "idle" BY <1>4 DEF RetryRead
    <2>4. TypeOK' BY <1>1, <2>2, <2>3 DEF NotesInd, TypeOK
    <2>5. JobsFit' BY <1>1, <2>1, <2>2, <2>3 DEF NotesInd, JobsFit, With
    <2>6. MailFits' BY <1>1, <2>2, <2>3 DEF NotesInd, MailFits, StillToMail
    <2> QED BY <1>2, <2>4, <2>5, <2>6 DEF NotesInd
  <1>5. CASE DigestRead
    <2>1. PICK todo \in SUBSET (1..MaxNotes) :
             /\ todo = With("PENDING")
             /\ digest' = [NoJob EXCEPT !.pc = "send", !.todo = todo, !.channel = channel]
      BY <1>1, <1>5 DEF DigestRead, With
    <2>2. digest' \in JobRun /\ digest'.pc = "send" /\ digest'.todo = todo
      BY <2>1, <1>3 DEF JobRun, NoJob
    <2>3. retry' = retry /\ digest.pc = "idle" BY <1>5 DEF DigestRead
    <2>4. TypeOK' BY <1>1, <2>2, <2>3 DEF NotesInd, TypeOK
    <2>5. JobsFit' BY <1>1, <2>1, <2>2, <2>3 DEF NotesInd, JobsFit, With
    <2>6. MailFits' BY <1>1, <2>2, <2>3 DEF NotesInd, MailFits, StillToMail
    <2> QED BY <1>2, <2>4, <2>5, <2>6 DEF NotesInd
  <1> QED BY <1>4, <1>5

\* A job sends what it read: one failed notification, or the digest.
LEMMA JobSendSteps ==
    ASSUME NotesInd, DigestSend \/ \E n \in 1..MaxNotes : RetrySend(n)
    PROVE  NotesInd'
  <1>1. UNCHANGED <<hour, notes, delivery, channel, realtime, sending, settings, crashes>>
    BY DEF RetrySend, DigestSend
  <1>2. DispatchesFit' /\ RateFits'
    BY <1>1, JobsSpareDispatches, JobsSpareTheCap
  <1>3. retry \in JobRun /\ digest \in JobRun /\ mailed \in [1..MaxNotes -> Nat] /\ crashes \in Nat
    BY Types DEF NotesInd
  <1>4. \A n \in 1..MaxNotes :
           /\ mailed[n] \in Nat /\ mailed[n] <= crashes + 1
           /\ StillToMail(n) => mailed[n] <= crashes
           /\ n \notin DOMAIN notes => delivery[n].status = None
    BY <1>3 DEF NotesInd, MailFits
  <1>5. CASE DigestSend
    <2>1. PICK outcome \in Sends : /\ Mail(digest.todo, outcome)
                                   /\ digest' = [digest EXCEPT !.pc = "record", !.outcome = outcome]
      BY <1>5 DEF DigestSend
    <2>2. /\ digest' \in JobRun /\ digest'.pc = "record" /\ digest'.outcome = outcome
          /\ digest'.todo = digest.todo /\ digest.pc = "send" /\ retry' = retry
      BY <2>1, <1>3, <1>5 DEF JobRun, DigestSend, Outcomes
    <2>3. /\ mailed' \in [1..MaxNotes -> Nat]
          /\ \A n \in 1..MaxNotes :
                mailed'[n] = IF outcome = "SENT" /\ n \in digest.todo THEN mailed[n] + 1 ELSE mailed[n]
      BY <2>1, Sent DEF NotesInd
    <2>4. TypeOK' BY <1>1, <2>2, <2>3 DEF NotesInd, TypeOK
    <2>5. JobsFit' BY <1>1, <2>2 DEF NotesInd, JobsFit
    <2>6. MailFits'
      <3> SUFFICES ASSUME NEW n \in 1..MaxNotes
                   PROVE  mailed'[n] <= crashes + 1 /\ (StillToMail(n)' => mailed'[n] <= crashes)
        BY <1>1, <1>4 DEF MailFits
      <3>1. CASE n \in digest.todo
        <4>1. StillToMail(n) BY <3>1, <2>2, InList DEF StillToMail
        <4>2. outcome = "SENT" => ~StillToMail(n)'
          BY <3>1, <2>2, <1>1, InList DEF StillToMail, InHand, Unsent
        <4>3. mailed[n] \in Nat /\ mailed[n] <= crashes BY <4>1, <1>4
        <4>4. mailed'[n] = IF outcome = "SENT" THEN mailed[n] + 1 ELSE mailed[n] BY <3>1, <2>3
        <4>5. CASE outcome = "SENT" BY <4>2, <4>3, <4>4, <4>5, <1>3
        <4>6. CASE outcome # "SENT" BY <4>3, <4>4, <4>6, <1>3
        <4> QED BY <4>5, <4>6
      <3>2. CASE n \notin digest.todo
        <4>1. StillToMail(n)' => StillToMail(n)
          BY <3>2, <2>2, <1>1 DEF StillToMail
        <4> QED BY <4>1, <3>2, <2>3, <1>4
      <3> QED BY <3>1, <3>2
    <2> QED BY <1>2, <2>4, <2>5, <2>6 DEF NotesInd
  <1>6. ASSUME NEW m \in 1..MaxNotes, RetrySend(m) PROVE NotesInd'
    <2>1. PICK outcome \in Sends : /\ Mail({m}, outcome)
                                   /\ retry' = [retry EXCEPT !.pc = "record", !.note = m, !.outcome = outcome]
      BY <1>6 DEF RetrySend
    <2>2. /\ retry' \in JobRun /\ retry'.pc = "record" /\ retry'.outcome = outcome /\ retry'.note = m
          /\ retry'.todo = retry.todo
      <3>1. m \in 0..MaxNotes /\ outcome \in Outcomes \cup {None}
        BY NotificationAssumption DEF Outcomes
      <3> QED BY <3>1, <2>1, <1>3 DEF JobRun
    <2>3. retry.pc = "send" /\ m \in retry.todo /\ digest' = digest
      BY <1>6 DEF RetrySend
    <2>4. /\ mailed' \in [1..MaxNotes -> Nat]
          /\ \A n \in 1..MaxNotes : mailed'[n] = IF outcome = "SENT" /\ n = m THEN mailed[n] + 1 ELSE mailed[n]
      BY <2>1, Sent DEF NotesInd
    <2>5. TypeOK' BY <1>1, <2>2, <2>3, <2>4 DEF NotesInd, TypeOK
    <2>6. JobsFit' BY <1>1, <2>2, <2>3 DEF NotesInd, JobsFit
    <2>7. MailFits'
      <3> SUFFICES ASSUME NEW n \in 1..MaxNotes
                   PROVE  mailed'[n] <= crashes + 1 /\ (StillToMail(n)' => mailed'[n] <= crashes)
        BY <1>1, <1>4 DEF MailFits
      <3>1. CASE n = m
        <4>1. StillToMail(n) BY <3>1, <2>3, InList DEF StillToMail
        <4>2. outcome = "SENT" => ~StillToMail(n)'
          BY <3>1, <2>2, <2>3, <1>1, InList DEF StillToMail, InHand, Unsent
        <4>3. mailed[n] \in Nat /\ mailed[n] <= crashes BY <4>1, <1>4
        <4>4. mailed'[n] = IF outcome = "SENT" THEN mailed[n] + 1 ELSE mailed[n] BY <3>1, <2>4
        <4>5. CASE outcome = "SENT" BY <4>2, <4>3, <4>4, <4>5, <1>3
        <4>6. CASE outcome # "SENT" BY <4>3, <4>4, <4>6, <1>3
        <4> QED BY <4>5, <4>6
      <3>2. CASE n # m
        <4>1. StillToMail(n)' => StillToMail(n)
          BY <3>2, <2>2, <2>3, <1>1 DEF StillToMail
        <4> QED BY <4>1, <3>2, <2>4, <1>4
      <3> QED BY <3>1, <3>2
    <2> QED BY <1>2, <2>5, <2>6, <2>7 DEF NotesInd
  <1> QED BY <1>5, <1>6

\* The deliveries of ns get a status; the job that did it is done with ns.
LEMMA JobSettles ==
    ASSUME NotesInd, NEW ns \in SUBSET (1..MaxNotes), NEW status \in DeliveryStatus,
           ns \subseteq retry.todo \/ ns \subseteq digest.todo,
           UNCHANGED <<hour, notes, channel, realtime, mailed, sending, settings, crashes>>,
           delivery' \in [1..MaxNotes -> Delivery],
           \A n \in 1..MaxNotes : delivery'[n].status = IF n \in ns THEN status ELSE delivery[n].status,
           retry' \in JobRun, digest' \in JobRun,
           retry'.todo \subseteq retry.todo \ ns, digest'.todo \subseteq digest.todo \ ns,
           retry'.pc = "record" => retry' = retry /\ retry.note \notin ns,
           digest'.pc = "record" => digest' = digest,
           retry.pc = "record" => retry' = retry \/ retry.note \in ns,
           digest.pc = "record" => digest' = digest \/ ns = digest.todo,
           status \in {"FAILED", "PENDING"} => \A n \in ns : StillToMail(n)
    PROVE  NotesInd'
  <1>1. \A n \in ns : /\ n \in DOMAIN notes
                      /\ delivery[n].status # None
                      /\ \A w \in Senders : sending[w].note = n => sending[w].pc \notin InHand
    BY InList
  <1>2. DispatchesFit' /\ RateFits'
    BY <1>1, JobsSpareDispatches, JobsSpareTheCap
  <1>3. TypeOK' BY DEF NotesInd, TypeOK
  <1>4. DOMAIN notes \subseteq 1..MaxNotes BY Types DEF NotesInd
  <1>5. JobsFit' BY <1>4 DEF NotesInd, JobsFit
  <1>6. MailFits'
    <2>1. ASSUME NEW n \in 1..MaxNotes, StillToMail(n)' PROVE StillToMail(n)
      <3>1. CASE n \in ns
        <4>1. delivery'[n].status = status BY <3>1
        <4>2. status \in {"FAILED", "PENDING"}
          BY <2>1, <3>1, <4>1, <1>1 DEF StillToMail, InHand, Unsent
        <4> QED BY <3>1, <4>2
      <3>2. CASE n \notin ns
        <4>1. delivery'[n].status = delivery[n].status BY <3>2
        <4>2. retry.pc = "record" /\ retry.note = n => retry' = retry BY <3>2
        <4>3. digest.pc = "record" /\ n \in digest.todo => digest' = digest BY <3>2
        <4> QED BY <2>1, <4>1, <4>2, <4>3 DEF StillToMail
      <3> QED BY <3>1, <3>2
    <2> QED BY <2>1, <1>1 DEF NotesInd, MailFits
  <1> QED BY <1>2, <1>3, <1>5, <1>6 DEF NotesInd

\* The retry skips a notification, or records what became of it.
LEMMA RetrySettles ==
    ASSUME NotesInd, RetryRecord \/ \E n \in 1..MaxNotes : RetrySkip(n)
    PROVE  NotesInd'
  <1>1. retry \in JobRun /\ digest \in JobRun /\ NoJob \in JobRun /\ TypeOK
    BY Types, IdleFits DEF NotesInd
  <1>2. PICK note \in retry.todo, status \in Outcomes :
           /\ Delivered({note}, status)
           /\ \/ retry' = NoJob /\ retry.todo = {note}
              \/ retry' = [retry EXCEPT !.pc = "send", !.todo = @ \ {note}]
           /\ retry.pc = "record" => retry.note = note /\ retry.outcome = status
           /\ status # "SKIPPED" => retry.pc = "record"
    <2>1. CASE RetryRecord
      <3>1. retry.note \in retry.todo /\ retry.outcome \in Outcomes
        BY <2>1 DEF RetryRecord, NotesInd, JobsFit, Outcomes
      <3> QED BY <2>1, <3>1 DEF RetryRecord
    <2>2. ASSUME NEW n \in 1..MaxNotes, RetrySkip(n)
          PROVE  /\ n \in retry.todo /\ Delivered({n}, "SKIPPED") /\ retry.pc # "record" /\ "SKIPPED" \in Outcomes
                 /\ \/ retry' = NoJob /\ retry.todo = {n}
                    \/ retry' = [retry EXCEPT !.pc = "send", !.todo = @ \ {n}]
      <3>1. retry' = [retry EXCEPT !.pc = "send", !.todo = @ \ {n}]
               \/ (retry' = NoJob /\ retry.todo = {n})
        BY <1>1, <2>2 DEF RetrySkip, JobRun
      <3> QED BY <2>2, <3>1 DEF RetrySkip, Outcomes
    <2> QED BY <2>1, <2>2
  <1>3. UNCHANGED <<hour, notes, channel, realtime, mailed, sending, digest, settings, crashes>>
    BY DEF RetryRecord, RetrySkip
  <1>4. /\ note \in 1..MaxNotes /\ note \notin digest.todo /\ delivery[note].status = "FAILED"
        /\ status \in DeliveryStatus
    BY <1>2, InList DEF DeliveryStatus
  <1>5. /\ delivery' \in [1..MaxNotes -> Delivery]
        /\ \A n \in 1..MaxNotes : delivery'[n].status = IF n \in {note} THEN status ELSE delivery[n].status
    BY <1>1, <1>2, <1>4, Recorded
  <1>6. /\ retry' \in JobRun /\ retry'.pc # "record" /\ retry'.todo = retry.todo \ {note}
    <2>1. CASE retry' = NoJob /\ retry.todo = {note}
      BY <1>1, <2>1 DEF NoJob
    <2>2. CASE retry' = [retry EXCEPT !.pc = "send", !.todo = @ \ {note}]
      BY <1>1, <2>2 DEF JobRun
    <2> QED BY <1>2, <2>1, <2>2
  <1>7. status \in {"FAILED", "PENDING"} => StillToMail(note)
    BY <1>2, <1>4, NoNote DEF StillToMail, Outcomes, Sends
  <1>8. digest' \in JobRun /\ digest'.todo = digest.todo \ {note} /\ {note} \in SUBSET (1..MaxNotes)
    BY <1>1, <1>3, <1>4
  <1>9. \A n \in {note} : status \in {"FAILED", "PENDING"} => StillToMail(n) BY <1>7
  <1> QED BY JobSettles, <1>2, <1>3, <1>4, <1>5, <1>6, <1>8, <1>9

\* The digest is skipped, or recorded as one.
LEMMA DigestSettles ==
    ASSUME NotesInd, DigestRecord \/ DigestSkip
    PROVE  NotesInd'
  <1>1. retry \in JobRun /\ digest \in JobRun /\ NoJob \in JobRun /\ TypeOK
        /\ delivery \in [1..MaxNotes -> Delivery]
    BY Types, IdleFits DEF NotesInd
  <1>2. /\ UNCHANGED <<hour, notes, channel, realtime, mailed, sending, retry, settings, crashes>>
        /\ digest' = NoJob
    BY DEF DigestRecord, DigestSkip
  <1>3. PICK status \in Outcomes :
           /\ delivery' \in [1..MaxNotes -> Delivery]
           /\ \A n \in 1..MaxNotes : delivery'[n].status = IF n \in digest.todo THEN status ELSE delivery[n].status
           /\ status # "SKIPPED" => digest.pc = "record" /\ status = digest.outcome
    <2>1. CASE DigestRecord
      <3>1. digest.outcome \in Outcomes /\ digest.outcome \in DeliveryStatus
        BY <2>1 DEF DigestRecord, NotesInd, JobsFit, Outcomes, DeliveryStatus
      <3>2. /\ delivery' \in [1..MaxNotes -> Delivery]
            /\ \A n \in 1..MaxNotes :
                  delivery'[n].status = IF n \in digest.todo THEN digest.outcome ELSE delivery[n].status
        BY <1>1, <2>1, <3>1, Recorded DEF DigestRecord
      <3> QED BY <2>1, <3>1, <3>2 DEF DigestRecord
    <2>2. CASE DigestSkip
      <3>1. delivery' = [n \in 1..MaxNotes |->
               IF n \in digest.todo THEN [delivery[n] EXCEPT !.status = "SKIPPED"] ELSE delivery[n]]
        BY <2>2 DEF DigestSkip
      <3>2. \A n \in 1..MaxNotes : [delivery[n] EXCEPT !.status = "SKIPPED"] \in Delivery
        BY <1>1 DEF Delivery, DeliveryStatus, Outcomes
      <3>3. delivery' \in [1..MaxNotes -> Delivery]
        BY <1>1, <3>1, <3>2
      <3>4. \A n \in 1..MaxNotes :
               delivery'[n].status = IF n \in digest.todo THEN "SKIPPED" ELSE delivery[n].status
        BY <1>1, <3>1 DEF Delivery
      <3> QED BY <3>3, <3>4 DEF Outcomes
    <2> QED BY <2>1, <2>2
  <1>4. \A n \in digest.todo : n \in 1..MaxNotes /\ n \notin retry.todo /\ delivery[n].status = "PENDING"
    BY InList
  <1>5. /\ digest' \in JobRun /\ digest'.pc # "record" /\ digest'.todo = {}
    BY <1>1, <1>2 DEF NoJob
  <1>6. ASSUME status \in {"FAILED", "PENDING"}, NEW n \in digest.todo PROVE StillToMail(n)
    BY <1>3, <1>4, <1>6, NoNote DEF StillToMail, Outcomes, Sends
  <1>7. digest.todo \in SUBSET (1..MaxNotes) /\ retry'.todo = retry.todo \ digest.todo /\ status \in DeliveryStatus
        /\ retry' \in JobRun /\ retry' = retry
    BY <1>1, <1>2, <1>4 DEF DeliveryStatus
  <1>8. retry.pc = "record" => retry.note \notin digest.todo
    BY <1>4 DEF NotesInd, JobsFit
  <1> QED BY JobSettles, <1>2, <1>3, <1>5, <1>6, <1>7, <1>8

\* A dispatch begins, and one ends.
LEMMA BeginFits ==
    ASSUME NotesInd, NEW w \in Senders, NEW source \in Nat, NEW key \in Nat \cup {None}, NEW window \in Nat,
           Dispatch(w, source, key, window),
           UNCHANGED <<hour, notes, delivery, channel, realtime, mailed, jobVars, settings, crashes>>
    PROVE  NotesInd'
  <1>1. PICK c : c = [NotSending EXCEPT !.pc = IF key = None THEN "rate" ELSE "duplicate",
                                        !.source = source, !.key = key, !.window = window]
    OBVIOUS
  <1>2. c \in DispatchCall /\ c.pc \in {"rate", "duplicate"}
    BY <1>1, IdleFits DEF DispatchCall, NotSending
  <1>3. QuietSend(w, c)
    BY <1>1, <1>2 DEF Dispatch, QuietSend, InHand, Unsent, NotesInd, TypeOK
  <1> QED BY <1>2, <1>3, QuietSteps

LEMMA EndFits ==
    ASSUME NotesInd, NEW w \in Senders, Returns(w) \/ Dispatched(w),
           UNCHANGED <<hour, notes, delivery, realtime, mailed, jobVars, settings, crashes>>,
           channel' \in Channel \cup {None}
    PROVE  NotesInd'
  <1>1. PICK c \in DispatchCall : sending' = [sending EXCEPT ![w] = c] /\ c.pc \in {"idle", "done"}
    <2>1. [NotSending EXCEPT !.pc = "done"].pc = "done" /\ NotSending.pc = "idle"
      BY DEF NotSending
    <2> QED BY <2>1, IdleFits DEF Returns, Dispatched
  <1>2. QuietSend(w, c)
    BY <1>1 DEF QuietSend, InHand, Unsent
  <1> QED BY <1>2, QuietSteps

\* A dispatch moves to its next point without a word to the user.
LEMMA PointFits ==
    ASSUME NotesInd, NEW w \in Senders, NEW p \in {"rate", "create", "send"}, SendAt(w, p),
           UNCHANGED <<hour, notes, delivery, channel, realtime, mailed, jobVars, settings, crashes>>,
           p = "send" => sending[w].pc = "hold",
           p = "create" => RateCap = 0 \/ Cardinality(Since(1)) < RateCap
    PROVE  NotesInd'
  <1>1. sending[w] \in DispatchCall /\ sending \in [Senders -> DispatchCall] BY Types DEF NotesInd
  <1>2. PICK c : c = [sending[w] EXCEPT !.pc = p] OBVIOUS
  <1>3. c \in DispatchCall /\ c.pc = p /\ c.note = sending[w].note
    BY <1>1, <1>2 DEF DispatchCall
  <1>4. sending' = [sending EXCEPT ![w] = c]
    BY <1>1, <1>2 DEF SendAt, DispatchCall
  <1>5. QuietSend(w, c)
    BY <1>3, <1>4 DEF QuietSend, InHand, Unsent, NotesInd, TypeOK
  <1> QED BY <1>3, <1>5, QuietSteps

\* Every step of a dispatch.
LEMMA DispatchSteps ==
    ASSUME NotesInd, NEW w \in Senders, DispatchStep(w)
    PROVE  NotesInd'
  <1>1. sending[w] \in DispatchCall /\ sending \in [Senders -> DispatchCall] /\ channel \in Channel \cup {None}
    BY Types DEF NotesInd, TypeOK
  <1>2. CASE Duplicate(w)
    BY <1>1, <1>2, EndFits, PointFits DEF Duplicate
  <1>3. CASE RateLimited(w)
    <2>1. RateCap \in Nat /\ Cardinality(Since(1)) \in Nat
      BY NotificationAssumption, SinceFinite DEF NotesInd
    <2>2. CASE RateCap > 0 /\ Cardinality(Since(1)) >= RateCap
      BY <1>1, <1>3, <2>2, EndFits DEF RateLimited
    <2>3. CASE ~(RateCap > 0 /\ Cardinality(Since(1)) >= RateCap)
      <3>1. RateCap = 0 \/ Cardinality(Since(1)) < RateCap BY <2>1, <2>3
      <3>2. SendAt(w, "create") /\ UNCHANGED <<hour, notes, delivery, channel, realtime, mailed, jobVars, settings, crashes>>
        BY <1>3, <2>3 DEF RateLimited
      <3> QED BY <3>1, <3>2, PointFits
    <2> QED BY <2>2, <2>3
  <1>4. CASE Targets(w)
    <2>1. CASE ~Usable BY <1>1, <1>4, <2>1, EndFits DEF Targets
    <2>2. CASE Usable
      <3>1. PICK c : c = [sending[w] EXCEPT !.pc = "hold", !.channel = channel] OBVIOUS
      <3>2. c \in DispatchCall /\ c.pc = "hold" /\ c.note = sending[w].note
        BY <1>1, <3>1 DEF DispatchCall
      <3>3. sending' = [sending EXCEPT ![w] = c]
        BY <1>1, <1>4, <2>2, <3>1 DEF Targets, DispatchCall
      <3>4. QuietSend(w, c)
        BY <1>1, <1>4, <3>2, <3>3 DEF QuietSend, Targets, InHand, Unsent
      <3> QED BY <3>2, <3>4, QuietSteps
    <2> QED BY <2>1, <2>2
  <1>5. CASE Hold(w)
    <2>1. CASE realtime BY <1>5, <2>1, PointFits DEF Hold
    <2>2. CASE ~realtime /\ channel = None BY <1>1, <1>5, <2>2, EndFits DEF Hold
    <2>3. CASE ~realtime /\ channel # None
      <3>1. PICK c \in DispatchCall : c = [NotSending EXCEPT !.pc = "done"] BY IdleFits
      <3>2. c.pc = "done" BY <3>1 DEF NotSending
      <3>3. SettleSend(w, c, "PENDING")
        BY <1>5, <2>3, <3>1, <3>2 DEF SettleSend, Hold, Returns, InHand, Unsent
      <3> QED BY <3>3, SettleSteps DEF DeliveryStatus
    <2> QED BY <2>1, <2>2, <2>3
  <1>6. CASE Send(w) BY <1>6, SendSteps
  <1>7. CASE Record(w)
    <2>1. CASE channel = None BY <1>1, <1>7, <2>1, EndFits DEF Record
    <2>2. CASE channel # None
      <3>1. PICK c : c = [sending[w] EXCEPT !.pc = "count"] OBVIOUS
      <3>2. c \in DispatchCall /\ c.pc = "count" BY <1>1, <3>1 DEF DispatchCall
      <3>3. sending' = [sending EXCEPT ![w] = c]
        BY <1>1, <1>7, <2>2, <3>1 DEF Record, SendAt, DispatchCall
      <3>4. sending[w].outcome \in Sends
        BY <1>7 DEF NotesInd, DispatchesFit, DispatchFits, Record
      <3>5. PICK status \in Sends : status = sending[w].outcome BY <3>4
      <3>6. SettleSend(w, c, status)
        BY <1>7, <2>2, <3>2, <3>3, <3>5 DEF SettleSend, Record, InHand, Sends
      <3> QED BY <3>2, <3>5, <3>6, SettleSteps DEF DeliveryStatus, Outcomes
    <2> QED BY <2>1, <2>2
  <1>8. CASE Count(w)
    <2>1. channel' \in Channel \cup {None}
      <3>1. CASE channel = None BY <1>8, <3>1 DEF Count
      <3>2. CASE channel # None
        <4>1. ParkAfter \in Nat BY NotificationAssumption
        <4>2. channel \in Channel /\ channel.failures \in 0..ParkAfter BY <1>1, <3>2 DEF Channel
        <4>3. PICK failures \in 0..ParkAfter : channel' = [channel EXCEPT !.failures = failures]
          <5>1. channel' = [channel EXCEPT !.failures =
                   IF sending[w].outcome = "SENT" THEN 0
                   ELSE IF channel.failures < ParkAfter THEN channel.failures + 1 ELSE channel.failures]
            BY <1>8, <3>2, <4>2 DEF Count, Channel
          <5>2. (IF sending[w].outcome = "SENT" THEN 0
                 ELSE IF channel.failures < ParkAfter THEN channel.failures + 1 ELSE channel.failures) \in 0..ParkAfter
            BY <4>1, <4>2
          <5> QED BY <5>1, <5>2
        <4> QED BY <4>2, <4>3 DEF Channel
      <3> QED BY <3>1, <3>2
    <2> QED BY <1>8, <2>1, EndFits DEF Count
  <1> QED BY <1>2, <1>3, <1>4, <1>5, <1>6, <1>7, <1>8 DEF DispatchStep, Duplicate, Targets, Hold, Record, Count

\* The user, the plan and the clock.
LEMMA OutsideSteps ==
    ASSUME NotesInd, ChannelStep \/ PlanChanges \/ NextHour
    PROVE  NotesInd'
  <1>1. hour \in 0..MaxHour /\ channel \in Channel \cup {None} /\ ParkAfter \in Nat /\ MaxHour \in Nat
    BY NotificationAssumption DEF NotesInd, TypeOK
  <1>2. UNCHANGED <<notes, delivery, mailed, sending, jobVars, crashes>>
    BY DEF ChannelStep, ChangeAddress, VerifyRead, VerifyWrite, SetActive, Remove, PlanChanges, NextHour
  <1>3. hour' \in 0..MaxHour /\ hour' >= hour
    BY <1>1 DEF ChannelStep, ChangeAddress, VerifyRead, VerifyWrite, SetActive, Remove, PlanChanges, NextHour
  <1>4. realtime' \in BOOLEAN
    BY DEF ChannelStep, ChangeAddress, VerifyRead, VerifyWrite, SetActive, Remove, PlanChanges, NextHour,
           NotesInd, TypeOK
  <1>5. channel' \in Channel \cup {None} /\ settings' \in Addresses \cup {None}
    <2>1. settings \in Addresses \cup {None} BY DEF NotesInd, TypeOK
    <2>2. ASSUME NEW a \in Addresses, ChangeAddress(a) PROVE channel' \in Channel /\ settings' = settings
      BY <1>1, <2>2 DEF ChangeAddress, Channel
    <2>3. CASE VerifyRead BY <1>1, <2>3 DEF VerifyRead, Channel
    <2>4. CASE VerifyWrite
      <3>1. channel # None => [channel EXCEPT !.verified = TRUE] \in Channel BY <1>1 DEF Channel
      <3> QED BY <2>4, <3>1 DEF VerifyWrite
    <2>5. ASSUME NEW b \in BOOLEAN, SetActive(b) PROVE channel' \in Channel /\ settings' = settings
      BY <1>1, <2>5 DEF SetActive, Channel
    <2>6. CASE Remove BY <2>1, <2>6 DEF Remove
    <2>7. CASE PlanChanges BY <1>1, <2>1, <2>7 DEF PlanChanges
    <2>8. CASE NextHour BY <1>1, <2>1, <2>8 DEF NextHour
    <2> QED BY <2>1, <2>2, <2>3, <2>4, <2>5, <2>6, <2>7, <2>8 DEF ChannelStep
  <1>6. TypeOK'
    BY <1>2, <1>3, <1>4, <1>5 DEF NotesInd, TypeOK, jobVars
  <1> QED BY <1>2, <1>3, <1>6, WorldSteps

\* The jobs of the worker.
LEMMA JobSteps ==
    ASSUME NotesInd, RetryStep \/ DigestStep
    PROVE  NotesInd'
  BY ReadSteps, JobSendSteps, RetrySettles, DigestSettles DEF RetryStep, DigestStep

LEMMA NotesInit ==
    ASSUME Init
    PROVE  NotesInd
  <1>1. /\ MaxHour \in Nat /\ MaxNotes \in Nat /\ MaxCrashes \in Nat /\ ParkAfter \in Nat /\ RateCap \in Nat
        /\ Cardinality(Senders) \in Nat /\ IsFiniteSet(Senders)
    BY NotificationAssumption, FS_CardinalityType
  <1>2. notes = <<>> /\ notes \in Seq(Note) /\ Len(notes) = 0 /\ DOMAIN notes = {}
    BY EmptySeq DEF Init
  <1>3. channel \in Channel \cup {None} /\ realtime \in BOOLEAN
    <2>1. CASE Addresses = {} BY <2>1 DEF Init
    <2>2. CASE Addresses # {}
      <3>1. PICK a \in Addresses : channel = [address |-> a, active |-> TRUE, verified |-> TRUE, failures |-> 0]
        BY <2>2 DEF Init
      <3>2. channel \in Channel BY <3>1, <1>1 DEF Channel
      <3> QED BY <2>2, <3>2 DEF Init
    <2> QED BY <2>1, <2>2
  <1>4. TypeOK
    BY <1>1, <1>2, <1>3, IdleFits DEF Init, TypeOK, Delivery, NoDelivery
  <1>5. DispatchesFit
    BY DEF Init, DispatchesFit, DispatchFits, NotSending, InHand, Unsent
  <1>6. JobsFit
    BY DEF Init, JobsFit, NoJob
  <1>7. MailFits
    BY <1>1 DEF Init, MailFits, NoDelivery
  <1>8. RateFits
    <2>1. Since(1) = {} BY <1>2 DEF Since
    <2>2. Passed = {} BY DEF Init, Passed, NotSending
    <2>3. RateCap > 0 => Cardinality(Senders) + RateCap - 1 >= 0 BY <1>1
    <2>4. Cardinality(Since(1)) = 0 /\ Cardinality(Passed) = 0 BY <2>1, <2>2, FS_EmptySet
    <2> QED BY <2>3, <2>4, <1>1 DEF RateFits
  <1> QED BY <1>4, <1>5, <1>6, <1>7, <1>8 DEF NotesInd

\* The announcements of the other services.
LEMMA NextFits ==
    ASSUME NotesInd, Next
    PROVE  NotesInd'
  <1>1. ASSUME NEW w \in Senders, Announce(w) PROVE NotesInd'
    BY <1>1, BeginFits DEF Announce
  <1>2. ASSUME NEW w \in Senders, AnnounceStep(w) PROVE NotesInd'
    <2>1. channel \in Channel \cup {None} BY DEF NotesInd, TypeOK
    <2> QED BY <1>2, <2>1, CreateFits, DispatchSteps, EndFits DEF AnnounceStep
  <1> QED BY <1>1, <1>2, JobSteps, OutsideSteps, CrashFits DEF Next

LEMMA NotesStutter ==
    ASSUME NotesInd, UNCHANGED vars
    PROVE  NotesInd'
  <1>1. TypeOK' BY DEF NotesInd, TypeOK, vars, jobVars
  <1>2. DispatchesFit' /\ JobsFit'
    BY DEF NotesInd, DispatchesFit, JobsFit, vars, jobVars
  <1>3. MailFits'
    BY DEF NotesInd, MailFits, StillToMail, vars, jobVars
  <1>4. RateFits'
    BY JobsSpareTheCap DEF vars
  <1> QED BY <1>1, <1>2, <1>3, <1>4 DEF NotesInd

\* Notifications keeps its inductive invariant.
THEOREM NotesInvariant == Spec => []NotesInd
  <1>1. Init => NotesInd BY NotesInit
  <1>2. NotesInd /\ [Next]_vars => NotesInd' BY NextFits, NotesStutter
  <1> QED BY <1>1, <1>2, PTL DEF Spec

\* "None stays PENDING, so nothing is sent twice": whatever the dispatches, the
\* digest and the retry do at the same time, a notification is mailed once, and
\* once more at most for every time that the worker died
\* (notifications.service.ts:216, 262).
THEOREM NothingIsMailedTwice == Spec => []MailedOnce
  <1>1. NotesInd => MailedOnce
    BY Types, NotificationAssumption DEF NotesInd, MailFits, MailedOnce
  <1> QED BY <1>1, NotesInvariant, PTL

----
(* Alerts *)

\* Dispatches on the way to a notification about alert a.
Flight(a) == {w \in Senders : sending[w].pc \in {"duplicate", "rate", "create"} /\ sending[w].source = a}

\* The notifications there are of an alert and that there will be.
Tellings(a) == Cardinality(Told(a)) + Cardinality(Flight(a))

Cooldowns(h) == h \div Cooldown

\* What an alert may have told at hour h, armed so often.  One that repeats not has
\* told once less while it is active; one that repeats, as often as its cooldown
\* fits before it last did.
Budget(row, armed, h) ==
    IF row = None THEN armed * (1 + Cooldowns(h))
    ELSE IF ~row.repeatable THEN IF row.status = "ACTIVE" THEN armed - 1 ELSE armed
    ELSE (armed - 1) * (1 + Cooldowns(h)) + IF row.last = None THEN 0 ELSE 1 + Cooldowns(row.last)

\* A row that takes the product for sold out has it from a listing.
SoldOutBefore(row, sold) == row.seen = FALSE => sold

RowFits(row, armed, told, h, sold) ==
    /\ row # None => /\ armed > 0
                     /\ SoldOutBefore(row, sold)
                     /\ row.last # None => row.last <= h
                     /\ row.repeatable => row.status = "ACTIVE"
    /\ armed = 0 => told = 0
    /\ told <= Budget(row, armed, h)
    /\ row # None /\ row.kind = "RESTOCK" /\ told # 0 => sold

RowsFit == \A a \in AlertIds : RowFits(alerts[a], arms[a], Tellings(a), hour, soldOut)

\* A sweep has rows of alerts that were armed; ids are not used again.
RunFits(run, rows, armed, h, sold) ==
    /\ run.at <= h
    /\ run.pc = "alerts" => run.market \in Market /\ (run.market.stock = FALSE => sold)
    /\ \A a \in DOMAIN run.rows :
          /\ armed[a] > 0
          /\ SoldOutBefore(run.rows[a], sold)
          /\ rows[a] # None => /\ rows[a].kind = run.rows[a].kind
                               /\ rows[a].repeatable = run.rows[a].repeatable

SweepsFit == \A w \in Senders : RunFits(sweep[w], alerts, arms, hour, soldOut)

OwnerFits ==
    owner.pc # "idle" =>
        /\ owner.alert \in AlertIds /\ owner.row \in AlertRow /\ SoldOutBefore(owner.row, soldOut)
        /\ owner.pc = "create" => arms[owner.alert] = 0 /\ owner.row.last = None /\ owner.row.status = "ACTIVE"
        /\ owner.pc = "reactivate" => /\ Exists(owner.alert) /\ arms[owner.alert] \in 1..(MaxArms - 1)
                                      /\ owner.row.kind = alerts[owner.alert].kind

MarketFits == market.stock = FALSE => soldOut

\* The inductive invariant of Alerts.
AlertsInd == NotesInd /\ AlertsType /\ RowsFit /\ SweepsFit /\ OwnerFits /\ MarketFits

----
(* An alert and its budget *)

LEMMA CooldownsGrow ==
    /\ \A x \in Nat : Cooldowns(x) \in Nat
    /\ \A x, y \in Nat : x <= y => Cooldowns(x) <= Cooldowns(y)
    /\ \A x, y \in Nat : x + Cooldown <= y => Cooldowns(x) + 1 <= Cooldowns(y)
  <1>1. Cooldown \in Nat /\ Cooldown > 0 BY AlertAssumption
  <1>2. ASSUME NEW c \in Nat, c > 0, NEW x \in Nat PROVE x \div c \in Nat BY <1>2
  <1>3. ASSUME NEW c \in Nat, c > 0, NEW x \in Nat, NEW y \in Nat, x <= y PROVE x \div c <= y \div c BY <1>3
  <1>4. ASSUME NEW c \in Nat, c > 0, NEW x \in Nat, NEW y \in Nat, x + c <= y PROVE x \div c + 1 <= y \div c BY <1>4
  <1> QED BY <1>1, <1>2, <1>3, <1>4 DEF Cooldowns

\* Products of a number of armings with a number of cooldowns.
LEMMA Products ==
    ASSUME NEW k \in Nat, NEW c \in Nat, NEW d \in Nat, c <= d
    PROVE  /\ k * (1 + c) \in Nat /\ k * (1 + c) <= k * (1 + d) /\ k <= k * (1 + c)
           /\ (k + 1) * (1 + c) = k * (1 + c) + 1 + c
           /\ k > 0 => (k - 1) * (1 + c) \in Nat /\ k * (1 + c) = (k - 1) * (1 + c) + 1 + c
                       /\ (k - 1) * (1 + c) <= (k - 1) * (1 + d)
  <1>1. k * (1 + c) \in Nat /\ k * (1 + c) <= k * (1 + d) /\ k <= k * (1 + c) OBVIOUS
  <1>2. (k + 1) * (1 + c) = k * (1 + c) + 1 + c OBVIOUS
  <1>3. k > 0 => (k - 1) * (1 + c) \in Nat /\ k * (1 + c) = (k - 1) * (1 + c) + 1 + c
                 /\ (k - 1) * (1 + c) <= (k - 1) * (1 + d)
    OBVIOUS
  <1> QED BY <1>1, <1>2, <1>3

LEMMA RowValues ==
    ASSUME NEW row \in AlertRow
    PROVE  /\ row # None /\ row.repeatable \in BOOLEAN /\ row.status \in {"ACTIVE", "TRIGGERED"}
           /\ row.last \in Nat \cup {None} /\ row.last \in 0..MaxHour \cup {None}
  BY AlertAssumption, NotificationAssumption DEF AlertRow

\* Time passes, and less is on the way: the row still fits.
LEMMA RowLater ==
    ASSUME NEW row \in AlertRow \cup {None}, NEW k \in Nat, NEW t \in Nat, NEW u \in Nat,
           NEW h \in Nat, NEW g \in Nat, NEW sold \in BOOLEAN, NEW told \in BOOLEAN,
           RowFits(row, k, t, h, sold), u <= t, h <= g, sold => told
    PROVE  RowFits(row, k, u, g, told)
  <1>1. Cooldowns(h) \in Nat /\ Cooldowns(g) \in Nat /\ Cooldowns(h) <= Cooldowns(g)
    BY CooldownsGrow
  <1>2. Budget(row, k, h) <= Budget(row, k, g) /\ Budget(row, k, h) \in Int /\ Budget(row, k, g) \in Int
    <2>1. CASE row = None
      BY <1>1, <2>1, Products DEF Budget
    <2>2. CASE row # None /\ ~row.repeatable
      BY <2>2, RowValues DEF Budget
    <2>3. CASE row # None /\ row.repeatable
      <3>1. row \in AlertRow /\ k > 0 BY <2>3 DEF RowFits
      <3>2. /\ (k - 1) * (1 + Cooldowns(h)) \in Nat /\ (k - 1) * (1 + Cooldowns(g)) \in Nat
            /\ (k - 1) * (1 + Cooldowns(h)) <= (k - 1) * (1 + Cooldowns(g))
        BY <1>1, <3>1, Products
      <3>3. PICK spent \in Nat : spent = IF row.last = None THEN 0 ELSE 1 + Cooldowns(row.last)
        BY <3>1, RowValues, CooldownsGrow
      <3> QED BY <2>3, <3>2, <3>3 DEF Budget
    <2> QED BY <2>1, <2>2, <2>3
  <1>3. row # None /\ row.last # None => row.last \in Nat
    BY RowValues
  <1>4. u <= Budget(row, k, g) BY <1>2 DEF RowFits
  <1>5. k = 0 => u = 0 BY DEF RowFits
  <1>6. u # 0 => t # 0 OBVIOUS
  <1> QED BY <1>3, <1>4, <1>5, <1>6 DEF RowFits, SoldOutBefore

\* What the owner deletes leaves what was told within its armings.
LEMMA RowGone ==
    ASSUME NEW row \in AlertRow, NEW k \in Nat, NEW t \in Nat, NEW h \in Nat, NEW sold \in BOOLEAN,
           RowFits(row, k, t, h, sold)
    PROVE  t <= k * (1 + Cooldowns(h)) /\ RowFits(None, k, t, h, sold)
  <1>1. Cooldowns(h) \in Nat /\ row # None /\ k > 0 BY CooldownsGrow, RowValues DEF RowFits
  <1>2. /\ k * (1 + Cooldowns(h)) \in Nat /\ k <= k * (1 + Cooldowns(h))
        /\ (k - 1) * (1 + Cooldowns(h)) \in Nat
        /\ k * (1 + Cooldowns(h)) = (k - 1) * (1 + Cooldowns(h)) + 1 + Cooldowns(h)
    BY <1>1, Products
  <1>3. t <= k * (1 + Cooldowns(h))
    <2>1. CASE ~row.repeatable
      BY <2>1, <1>1, <1>2 DEF RowFits, Budget
    <2>2. CASE row.repeatable
      <3>1. row.last # None => row.last \in Nat /\ row.last <= h BY <1>1, RowValues DEF RowFits
      <3>2. row.last # None => Cooldowns(row.last) \in Nat /\ Cooldowns(row.last) <= Cooldowns(h)
        BY <3>1, CooldownsGrow
      <3> QED BY <2>2, <3>2, <1>1, <1>2 DEF RowFits, Budget
    <2> QED BY <2>1, <2>2
  <1> QED BY <1>1, <1>3 DEF RowFits, Budget

\* What the sweep saw is noted.
LEMMA RowSeen ==
    ASSUME NEW row \in AlertRow, NEW k \in Nat, NEW t \in Nat, NEW h \in Nat, NEW sold \in BOOLEAN,
           RowFits(row, k, t, h, sold), NEW seen \in Stock, seen = FALSE => sold
    PROVE  /\ [row EXCEPT !.seen = seen] \in AlertRow
           /\ RowFits([row EXCEPT !.seen = seen], k, t, h, sold)
  <1>1. PICK after : after = [row EXCEPT !.seen = seen] OBVIOUS
  <1>2. /\ after \in AlertRow /\ after.seen = seen /\ after.kind = row.kind /\ after.repeatable = row.repeatable
        /\ after.status = row.status /\ after.last = row.last
    BY <1>1 DEF AlertRow
  <1>3. after # None /\ row # None BY <1>2, RowValues
  <1>4. RowFits(after, k, t, h, sold)
    BY <1>2, <1>3 DEF RowFits, SoldOutBefore, Budget
  <1> QED BY <1>1, <1>2, <1>4

\* An alert is told once more.
FiredRow(row, at) == [row EXCEPT !.status = IF row.repeatable THEN "ACTIVE" ELSE "TRIGGERED", !.last = at]

LEMMA RowFired ==
    ASSUME NEW row \in AlertRow, NEW k \in Nat, NEW t \in Nat, NEW h \in Nat, NEW sold \in BOOLEAN,
           RowFits(row, k, t, h, sold), h <= MaxHour,
           NEW at \in Nat, at <= h,
           row.status = "ACTIVE",
           row.repeatable /\ row.last # None => at - row.last >= Cooldown,
           row.kind = "RESTOCK" => sold
    PROVE  FiredRow(row, at) \in AlertRow /\ RowFits(FiredRow(row, at), k, t + 1, h, sold)
  <1>0. PICK after : after = FiredRow(row, at) OBVIOUS
  <1>1. MaxHour \in Nat /\ Cooldown \in Nat BY NotificationAssumption, AlertAssumption
  <1>2. /\ after \in AlertRow /\ after.seen = row.seen /\ after.kind = row.kind /\ after.repeatable = row.repeatable
        /\ after.status = (IF row.repeatable THEN "ACTIVE" ELSE "TRIGGERED") /\ after.last = at
    <2>1. at \in 0..MaxHour BY <1>1
    <2> QED BY <2>1, <1>0 DEF AlertRow, FiredRow
  <1>3. after # None /\ row # None /\ at # None /\ row.repeatable \in BOOLEAN
    BY <1>2, RowValues, NoNote
  <1>4. k > 0 BY <1>3 DEF RowFits
  <1>5. t + 1 <= Budget(after, k, h)
    <2>1. CASE ~row.repeatable
      BY <2>1, <1>2, <1>3 DEF RowFits, Budget
    <2>2. CASE row.repeatable
      <3>1. (k - 1) * (1 + Cooldowns(h)) \in Nat /\ Cooldowns(at) \in Nat
        BY <1>4, CooldownsGrow, Products
      <3>2. CASE row.last = None
        BY <2>2, <3>1, <3>2, <1>2, <1>3 DEF RowFits, Budget
      <3>3. CASE row.last # None
        <4>1. row.last \in Nat BY <3>3, RowValues
        <4>2. row.last + Cooldown <= at BY <4>1, <2>2, <3>3, <1>1
        <4>3. Cooldowns(row.last) + 1 <= Cooldowns(at) /\ Cooldowns(row.last) \in Nat
          BY <4>1, <4>2, CooldownsGrow
        <4> QED BY <2>2, <3>1, <3>3, <4>3, <1>2, <1>3 DEF RowFits, Budget
      <3> QED BY <3>2, <3>3
    <2> QED BY <2>1, <2>2
  <1> QED BY <1>0, <1>2, <1>3, <1>4, <1>5 DEF RowFits, SoldOutBefore

\* An alert is armed again.
RearmedRow(row, seen) == [row EXCEPT !.status = "ACTIVE", !.last = None, !.seen = seen]

LEMMA RowRearmed ==
    ASSUME NEW row \in AlertRow, NEW k \in Nat, NEW t \in Nat, NEW h \in Nat, NEW sold \in BOOLEAN,
           RowFits(row, k, t, h, sold), NEW seen \in Stock, seen = FALSE => sold
    PROVE  RearmedRow(row, seen) \in AlertRow /\ RowFits(RearmedRow(row, seen), k + 1, t, h, sold)
  <1>0. PICK after : after = RearmedRow(row, seen) OBVIOUS
  <1>1. /\ after \in AlertRow /\ after.seen = seen /\ after.kind = row.kind /\ after.repeatable = row.repeatable
        /\ after.status = "ACTIVE" /\ after.last = None
    BY <1>0 DEF AlertRow, RearmedRow
  <1>2. after # None /\ row # None /\ row.repeatable \in BOOLEAN BY <1>1, RowValues
  <1>3. k > 0 /\ Cooldowns(h) \in Nat BY <1>2, CooldownsGrow DEF RowFits
  <1>4. t <= Budget(after, k + 1, h)
    <2>1. CASE row.repeatable
      <3>1. t <= k * (1 + Cooldowns(h)) BY RowGone
      <3>2. k * (1 + Cooldowns(h)) \in Nat /\ (k + 1) - 1 = k BY <1>3, Products
      <3> QED BY <2>1, <3>1, <3>2, <1>1, <1>2 DEF Budget
    <2>2. CASE ~row.repeatable
      BY <2>2, <1>1, <1>2 DEF RowFits, Budget
    <2> QED BY <2>1, <2>2, <1>2
  <1> QED BY <1>0, <1>1, <1>2, <1>3, <1>4 DEF RowFits, SoldOutBefore

\* A new alert has told nothing.
LEMMA RowCreated ==
    ASSUME NEW row \in AlertRow, NEW old, NEW t \in Nat, NEW h \in Nat, NEW sold \in BOOLEAN,
           RowFits(old, 0, t, h, sold), row.last = None, row.status = "ACTIVE", SoldOutBefore(row, sold)
    PROVE  RowFits(row, 1, t, h, sold)
  <1>1. t = 0 /\ row # None /\ Cooldowns(h) \in Nat BY RowValues, CooldownsGrow DEF RowFits
  <1>2. (1 - 1) * (1 + Cooldowns(h)) = 0 BY <1>1
  <1>3. Budget(row, 1, h) = 0 BY <1>1, <1>2 DEF Budget
  <1> QED BY <1>1, <1>3 DEF RowFits

----
(* What an alert tells *)

\* The notifications of an alert and the dispatches on the way are finitely many.
LEMMA TellingsType ==
    ASSUME TypeOK, NEW a
    PROVE  /\ IsFiniteSet(Told(a)) /\ Cardinality(Told(a)) \in Nat
           /\ IsFiniteSet(Flight(a)) /\ Cardinality(Flight(a)) \in Nat
           /\ Tellings(a) \in Nat
  <1>1. Told(a) \subseteq 1..MaxNotes /\ MaxNotes \in Nat BY Types DEF Told
  <1>2. Flight(a) \subseteq Senders /\ IsFiniteSet(Senders) BY NotificationAssumption DEF Flight
  <1>3. IsFiniteSet(1..MaxNotes) BY <1>1, FS_Interval
  <1>4. IsFiniteSet(Told(a)) /\ IsFiniteSet(Flight(a)) BY <1>1, <1>2, <1>3, FS_Subset
  <1> QED BY <1>4, FS_CardinalityType DEF Tellings

LEMMA TellingsAreNumbers == TypeOK => \A a \in AlertIds : Tellings(a) \in Nat
  BY TellingsType

LEMMA NextTellingsAreNumbers == TypeOK' => \A a \in AlertIds : Tellings(a)' \in Nat
  <1>1. TypeOK' => (\A a \in AlertIds : Tellings(a) \in Nat)' BY TellingsAreNumbers, PTL
  <1> QED BY <1>1

\* Nothing is told anew when no notification is, and no dispatch begins.
LEMMA NothingTold ==
    ASSUME TypeOK, TypeOK', notes' = notes, NEW a, Flight(a)' \subseteq Flight(a)
    PROVE  Tellings(a)' <= Tellings(a)
  <1>1. Told(a)' = Told(a) BY DEF Told
  <1>2. Cardinality(Flight(a)') <= Cardinality(Flight(a)) BY TellingsType, FS_Subset
  <1>3. /\ Cardinality(Told(a)) \in Nat /\ Cardinality(Flight(a)) \in Nat
        /\ Cardinality(Flight(a)') \in Nat
    BY TellingsType, FS_Subset, FS_CardinalityType
  <1> QED BY <1>1, <1>2, <1>3 DEF Tellings

\* A dispatch that is past its checks, or goes on through them, tells nothing new.
LEMMA SenderGoesOn ==
    ASSUME TypeOK, NEW w \in Senders, NEW c, sending' = [sending EXCEPT ![w] = c],
           c.pc \in {"duplicate", "rate", "create"} =>
               sending[w].pc \in {"duplicate", "rate", "create"} /\ c.source = sending[w].source,
           NEW a
    PROVE  Flight(a)' \subseteq Flight(a)
  <1>1. /\ sending'[w] = c /\ \A v \in Senders : v # w => sending'[v] = sending[v]
    BY Types
  <1> QED BY <1>1 DEF Flight

\* Where the steps of a dispatch lead.
LEMMA DispatchGoesOn ==
    ASSUME TypeOK, NEW w \in Senders, DispatchStep(w) \/ Returns(w) \/ Dispatched(w), NEW a
    PROVE  Flight(a)' \subseteq Flight(a)
  <1>1. sending[w] \in DispatchCall /\ sending \in [Senders -> DispatchCall] BY Types
  <1>2. ASSUME NEW c, sending' = [sending EXCEPT ![w] = c], c.pc \notin {"duplicate", "rate", "create"}
        PROVE  Flight(a)' \subseteq Flight(a)
    BY <1>2, SenderGoesOn
  <1>3. ASSUME NEW p, SendAt(w, p), sending[w].pc \in {"duplicate", "rate", "create"} \/ p \notin {"duplicate", "rate", "create"}
        PROVE  Flight(a)' \subseteq Flight(a)
    <2>1. PICK c : c = [sending[w] EXCEPT !.pc = p] OBVIOUS
    <2>2. c.pc = p /\ c.source = sending[w].source BY <1>1, <2>1 DEF DispatchCall
    <2>3. sending' = [sending EXCEPT ![w] = c] BY <1>1, <1>3, <2>1 DEF SendAt
    <2> QED BY <1>3, <2>2, <2>3, SenderGoesOn
  <1>4. CASE Returns(w) \/ Dispatched(w)
    <2>1. PICK c : sending' = [sending EXCEPT ![w] = c] /\ c.pc \in {"idle", "done"}
      BY <1>4 DEF Returns, Dispatched, NotSending
    <2> QED BY <2>1, <1>2
  <1>5. CASE Duplicate(w) BY <1>3, <1>4, <1>5 DEF Duplicate
  <1>6. CASE RateLimited(w) BY <1>3, <1>4, <1>6 DEF RateLimited
  <1>7. CASE Targets(w)
    <2>1. CASE Usable
      <3>1. PICK c : c = [sending[w] EXCEPT !.pc = "hold", !.channel = channel] OBVIOUS
      <3>2. c.pc = "hold" BY <1>1, <3>1 DEF DispatchCall
      <3>3. sending' = [sending EXCEPT ![w] = c] BY <1>1, <1>7, <2>1, <3>1 DEF Targets
      <3> QED BY <3>2, <3>3, <1>2
    <2> QED BY <2>1, <1>4, <1>7 DEF Targets
  <1>8. CASE Hold(w) BY <1>3, <1>4, <1>8 DEF Hold
  <1>9. CASE Send(w)
    <2>1. PICK outcome : sending' = [sending EXCEPT ![w].pc = "record", ![w].outcome = outcome]
      BY <1>9 DEF Send
    <2>2. PICK c : c = [sending[w] EXCEPT !.pc = "record", !.outcome = outcome] OBVIOUS
    <2>3. c.pc = "record" BY <1>1, <2>2 DEF DispatchCall
    <2>4. sending' = [sending EXCEPT ![w] = c] BY <1>1, <2>1, <2>2
    <2> QED BY <2>3, <2>4, <1>2
  <1>10. CASE Record(w) BY <1>3, <1>4, <1>10 DEF Record
  <1>11. CASE Count(w) BY <1>4, <1>11 DEF Count
  <1> QED BY <1>4, <1>5, <1>6, <1>7, <1>8, <1>9, <1>10, <1>11 DEF DispatchStep

\* A dispatch on the way becomes a notification.
LEMMA CreateTells ==
    ASSUME TypeOK, TypeOK', NEW w \in Senders, CreateNote(w), NEW a
    PROVE  Tellings(a)' <= Tellings(a)
  <1> DEFINE next == Len(notes) + 1
  <1>1. /\ notes \in Seq(Note) /\ Len(notes) \in Nat /\ DOMAIN notes = 1..Len(notes) /\ hour \in 0..MaxHour
        /\ sending \in [Senders -> DispatchCall] /\ sending[w] \in DispatchCall
        /\ MaxHour \in Nat
    BY Types, NotificationAssumption
  <1>2. PICK row \in Note : row = [source |-> sending[w].source, key |-> sending[w].key, at |-> hour]
    <2>1. sending[w].source \in Nat /\ sending[w].key \in Nat \cup {None} /\ hour \in Nat
      BY <1>1 DEF DispatchCall
    <2>2. [source |-> sending[w].source, key |-> sending[w].key, at |-> hour] \in Note
      BY <2>1 DEF Note
    <2> QED BY <2>2
  <1>3. notes' = Append(notes, row) /\ row.source = sending[w].source
    BY <1>2 DEF CreateNote
  <1>4. /\ DOMAIN notes' = 1..next /\ notes'[next] = row /\ \A n \in 1..Len(notes) : notes'[n] = notes[n]
    BY <1>1, <1>2, <1>3, AppendProperties, LenProperties
  <1>5. DOMAIN notes' = DOMAIN notes \cup {next} /\ next \notin DOMAIN notes
    BY <1>1, <1>4
  <1>6. PICK c : c = [sending[w] EXCEPT !.pc = "targets", !.note = next] OBVIOUS
  <1>7. c.pc = "targets" BY <1>1, <1>6 DEF DispatchCall
  <1>8. sending' = [sending EXCEPT ![w] = c] BY <1>1, <1>6 DEF CreateNote
  <1>9. /\ sending'[w] = c /\ \A v \in Senders : v # w => sending'[v] = sending[v]
    BY <1>1, <1>8
  <1>10. sending[w].pc = "create" BY DEF CreateNote
  <1>11. /\ IsFiniteSet(Told(a)) /\ Cardinality(Told(a)) \in Nat
         /\ IsFiniteSet(Flight(a)) /\ Cardinality(Flight(a)) \in Nat
    BY TellingsType
  <1>12. CASE sending[w].source = a
    <2>1. Told(a)' = Told(a) \cup {next} /\ next \notin Told(a)
      BY <1>3, <1>4, <1>5, <1>1, <1>12 DEF Told
    <2>2. Flight(a)' = Flight(a) \ {w} /\ w \in Flight(a)
      BY <1>7, <1>9, <1>10, <1>12 DEF Flight
    <2>3. Cardinality(Told(a)') = Cardinality(Told(a)) + 1 BY <2>1, <1>11, FS_AddElement
    <2>4. Cardinality(Flight(a)') = Cardinality(Flight(a)) - 1 BY <2>2, <1>11, FS_RemoveElement
    <2> QED BY <2>3, <2>4, <1>11 DEF Tellings
  <1>13. CASE sending[w].source # a
    <2>1. Told(a)' = Told(a)
      BY <1>3, <1>4, <1>5, <1>1, <1>13 DEF Told
    <2>2. Flight(a)' = Flight(a)
      BY <1>7, <1>9, <1>13 DEF Flight
    <2> QED BY <2>1, <2>2, <1>11 DEF Tellings
  <1> QED BY <1>12, <1>13

\* An alert that fires has one dispatch more on the way.
LEMMA FireTells ==
    ASSUME TypeOK, NEW w \in Senders, NEW a \in Nat, NEW key, NEW window,
           sending[w].pc = "idle", Dispatch(w, a, key, window), notes' = notes, NEW b
    PROVE  Tellings(b)' = IF b = a THEN Tellings(b) + 1 ELSE Tellings(b)
  <1>1. PICK c : c = [NotSending EXCEPT !.pc = IF key = None THEN "rate" ELSE "duplicate",
                                        !.source = a, !.key = key, !.window = window]
    OBVIOUS
  <1>2. c.pc \in {"rate", "duplicate"} /\ c.source = a BY <1>1 DEF NotSending
  <1>3. sending' = [sending EXCEPT ![w] = c] BY <1>1 DEF Dispatch
  <1>4. /\ sending'[w] = c /\ \A v \in Senders : v # w => sending'[v] = sending[v]
    BY <1>3, Types
  <1>5. Told(b)' = Told(b) BY DEF Told
  <1>6. /\ IsFiniteSet(Flight(b)) /\ Cardinality(Flight(b)) \in Nat /\ Cardinality(Told(b)) \in Nat
    BY TellingsType
  <1>7. CASE b = a
    <2>1. Flight(b)' = Flight(b) \cup {w} /\ w \notin Flight(b)
      BY <1>2, <1>4, <1>7 DEF Flight
    <2>2. Cardinality(Flight(b)') = Cardinality(Flight(b)) + 1 BY <2>1, <1>6, FS_AddElement
    <2> QED BY <2>2, <1>5, <1>6, <1>7 DEF Tellings
  <1>8. CASE b # a
    <2>1. Flight(b)' = Flight(b) BY <1>2, <1>4, <1>8 DEF Flight
    <2> QED BY <2>1, <1>5, <1>6, <1>8 DEF Tellings
  <1> QED BY <1>7, <1>8

----
(* The steps of Alerts *)

LEMMA AlertValues ==
    ASSUME AlertsType
    PROVE  /\ hour \in 0..MaxHour /\ hour \in Nat /\ MaxHour \in Nat /\ soldOut \in BOOLEAN
           /\ alerts \in [AlertIds -> AlertRow \cup {None}]
           /\ arms \in [AlertIds -> 0..MaxArms] /\ MaxArms \in Nat
           /\ \A a \in AlertIds : arms[a] \in Nat
           /\ sweep \in [Senders -> SweepRun]
           /\ \A w \in Senders : /\ sweep[w] \in SweepRun
                                 /\ sweep[w].at \in Nat /\ sweep[w].at \in 0..MaxHour
                                 /\ DOMAIN sweep[w].rows \subseteq AlertIds
                                 /\ \A a \in DOMAIN sweep[w].rows : sweep[w].rows[a] \in AlertRow
           /\ \A a : Tellings(a) \in Nat
  <1>1. MaxHour \in Nat /\ MaxArms \in Nat BY NotificationAssumption, AlertAssumption
  <1>2. hour \in 0..MaxHour BY DEF AlertsType, TypeOK
  <1>3. ASSUME NEW w \in Senders
        PROVE  /\ sweep[w] \in SweepRun
               /\ sweep[w].at \in Nat /\ sweep[w].at \in 0..MaxHour
               /\ DOMAIN sweep[w].rows \subseteq AlertIds
               /\ \A a \in DOMAIN sweep[w].rows : sweep[w].rows[a] \in AlertRow
    <2>1. sweep[w] \in SweepRun BY DEF AlertsType
    <2>2. sweep[w].at \in 0..MaxHour /\ sweep[w].rows \in AlertRows BY <2>1 DEF SweepRun
    <2>3. PICK S \in SUBSET AlertIds : sweep[w].rows \in [S -> AlertRow] BY <2>2 DEF AlertRows
    <2> QED BY <2>1, <2>2, <2>3, <1>1
  <1>4. \A a : Tellings(a) \in Nat BY TellingsType DEF AlertsType
  <1>5. \A a \in AlertIds : arms[a] \in Nat BY <1>1 DEF AlertsType
  <1> QED BY <1>1, <1>2, <1>3, <1>4, <1>5 DEF AlertsType

\* An alert that a step passes by still fits.
LEMMA RowPassedBy ==
    ASSUME AlertsInd, AlertsType', NEW a \in AlertIds,
           alerts'[a] = alerts[a], arms'[a] = arms[a], Tellings(a)' <= Tellings(a),
           hour <= hour', soldOut => soldOut'
    PROVE  RowFits(alerts'[a], arms'[a], Tellings(a)', hour', soldOut')
  <1>1. /\ alerts[a] \in AlertRow \cup {None} /\ arms[a] \in Nat /\ Tellings(a) \in Nat /\ hour \in Nat
        /\ soldOut \in BOOLEAN
    BY AlertValues DEF AlertsInd
  <1>2. Tellings(a)' \in Nat /\ hour' \in Nat /\ soldOut' \in BOOLEAN
    <2>1. TypeOK' /\ MaxHour \in Nat BY NotificationAssumption DEF AlertsType
    <2> QED BY <2>1, NextTellingsAreNumbers DEF AlertsType, TypeOK
  <1>3. RowFits(alerts[a], arms[a], Tellings(a), hour, soldOut) BY DEF AlertsInd, RowsFit
  <1>4. PICK row \in AlertRow \cup {None}, k \in Nat, t \in Nat, u \in Nat, h \in Nat, g \in Nat,
             sold \in BOOLEAN, told \in BOOLEAN :
           /\ row = alerts[a] /\ k = arms[a] /\ t = Tellings(a) /\ u = Tellings(a)' /\ h = hour /\ g = hour'
           /\ sold = soldOut /\ told = soldOut'
    BY <1>1, <1>2
  <1>5. RowFits(row, k, t, h, sold) /\ u <= t /\ h <= g /\ (sold => told) BY <1>3, <1>4
  <1>6. RowFits(row, k, u, g, told) BY <1>5, RowLater
  <1> QED BY <1>4, <1>6

\* An armed alert stays armed, and its row stays what it is for or goes.
RowsMove ==
    \A a \in AlertIds : arms[a] > 0 =>
        /\ arms'[a] > 0
        /\ alerts'[a] # None => /\ alerts[a] # None /\ alerts'[a].kind = alerts[a].kind
                                /\ alerts'[a].repeatable = alerts[a].repeatable

LEMMA RunsKept ==
    ASSUME AlertsInd, AlertsType', RowsMove, hour <= hour', soldOut => soldOut',
           \A w \in Senders : RunFits(sweep'[w], alerts, arms, hour, soldOut)
    PROVE  SweepsFit'
  <1>1. \A w \in Senders : DOMAIN sweep'[w].rows \subseteq AlertIds /\ sweep'[w].at \in Nat
    <2>1. ASSUME NEW w \in Senders PROVE DOMAIN sweep'[w].rows \subseteq AlertIds /\ sweep'[w].at \in Nat
      <3>1. sweep'[w] \in SweepRun BY DEF AlertsType
      <3>2. sweep'[w].at \in 0..MaxHour /\ sweep'[w].rows \in AlertRows BY <3>1 DEF SweepRun
      <3>3. MaxHour \in Nat BY NotificationAssumption
      <3> QED BY <3>2, <3>3 DEF AlertRows
    <2> QED BY <2>1
  <1>2. hour \in Nat /\ hour' \in Nat
    <2>1. MaxHour \in Nat BY NotificationAssumption
    <2> QED BY <2>1 DEF AlertsInd, AlertsType, TypeOK
  <1>3. ASSUME NEW w \in Senders PROVE RunFits(sweep'[w], alerts', arms', hour', soldOut')
    <2>1. RunFits(sweep'[w], alerts, arms, hour, soldOut) OBVIOUS
    <2>2. sweep'[w].at <= hour' BY <2>1, <1>1, <1>2 DEF RunFits
    <2>3. ASSUME NEW a \in DOMAIN sweep'[w].rows
          PROVE  /\ arms'[a] > 0
                 /\ SoldOutBefore(sweep'[w].rows[a], soldOut')
                 /\ alerts'[a] # None => /\ alerts'[a].kind = sweep'[w].rows[a].kind
                                         /\ alerts'[a].repeatable = sweep'[w].rows[a].repeatable
      <3>1. a \in AlertIds BY <1>1
      <3>2. /\ arms[a] > 0 /\ SoldOutBefore(sweep'[w].rows[a], soldOut)
            /\ alerts[a] # None => /\ alerts[a].kind = sweep'[w].rows[a].kind
                                   /\ alerts[a].repeatable = sweep'[w].rows[a].repeatable
        BY <2>1 DEF RunFits
      <3> QED BY <3>1, <3>2 DEF RowsMove, SoldOutBefore
    <2>4. sweep'[w].pc = "alerts" => sweep'[w].market \in Market /\ (sweep'[w].market.stock = FALSE => soldOut')
      BY <2>1 DEF RunFits
    <2> QED BY <2>2, <2>3, <2>4 DEF RunFits
  <1> QED BY <1>3 DEF SweepsFit

\* The alerts stay as they are while time passes and dispatches go on.
LEMMA AlertsRest ==
    ASSUME AlertsInd, NotesInd', UNCHANGED <<alerts, market, owner, arms, soldOut>>,
           sweep' \in [Senders -> SweepRun],
           \A w \in Senders : RunFits(sweep'[w], alerts, arms, hour, soldOut),
           hour <= hour', \A a \in AlertIds : Tellings(a)' <= Tellings(a)
    PROVE  AlertsInd'
  <1>1. AlertsType' BY DEF AlertsInd, AlertsType, NotesInd
  <1>2. RowsFit' BY <1>1, RowPassedBy DEF RowsFit
  <1>3. SweepsFit' BY <1>1, RunsKept DEF RowsMove
  <1>4. OwnerFits' /\ MarketFits' BY DEF AlertsInd, OwnerFits, MarketFits, Exists
  <1> QED BY <1>1, <1>2, <1>3, <1>4 DEF AlertsInd

\* Nothing is told when the service rests.
LEMMA ServiceRests ==
    ASSUME AlertsInd, UNCHANGED vars
    PROVE  NotesInd' /\ hour <= hour' /\ \A a : Tellings(a)' <= Tellings(a)
  <1>1. NotesInd' BY NotesStutter DEF AlertsInd
  <1>2. hour \in Nat BY AlertValues DEF AlertsInd
  <1>3. \A a : Flight(a)' = Flight(a) BY DEF Flight, vars
  <1>4. TypeOK /\ TypeOK' BY <1>1 DEF AlertsInd, NotesInd
  <1>5. \A a : Tellings(a)' <= Tellings(a) BY <1>3, <1>4, NothingTold DEF vars
  <1> QED BY <1>1, <1>2, <1>5 DEF vars

\* A sweep is done with one of its alerts.
LEMMA ProcessedFits ==
    ASSUME AlertsInd, NEW w \in Senders, NEW a, Processed(w, a) \/ sweep' = [sweep EXCEPT ![w] = NoSweep]
    PROVE  /\ sweep' \in [Senders -> SweepRun]
           /\ \A v \in Senders : RunFits(sweep'[v], alerts, arms, hour, soldOut)
  <1>1. sweep \in [Senders -> SweepRun] /\ hour \in Nat /\ MaxHour \in Nat /\ SweepsFit
    BY AlertValues DEF AlertsInd
  <1>2. NoSweep \in SweepRun /\ RunFits(NoSweep, alerts, arms, hour, soldOut)
    <2>1. <<>> \in [{} -> AlertRow] /\ DOMAIN <<>> = {} OBVIOUS
    <2>2. <<>> \in AlertRows BY <2>1 DEF AlertRows
    <2> QED BY <1>1, <2>1, <2>2 DEF NoSweep, SweepRun, RunFits
  <1>3. PICK run \in SweepRun : /\ sweep' = [sweep EXCEPT ![w] = run]
                                /\ RunFits(run, alerts, arms, hour, soldOut)
    <2>1. PICK rest : rest = DOMAIN sweep[w].rows \ {a} OBVIOUS
    <2>2. PICK rows : rows = [b \in rest |-> sweep[w].rows[b]] OBVIOUS
    <2>3. rest \subseteq AlertIds /\ rows \in [rest -> AlertRow] /\ DOMAIN rows = rest
      BY <2>1, <2>2, AlertValues DEF AlertsInd
    <2>4. rows \in AlertRows BY <2>3 DEF AlertRows
    <2>5. PICK run : run = [sweep[w] EXCEPT !.rows = rows] OBVIOUS
    <2>6. /\ run \in SweepRun /\ run.rows = rows /\ run.at = sweep[w].at /\ run.pc = sweep[w].pc
          /\ run.market = sweep[w].market
      BY <1>1, <2>4, <2>5 DEF SweepRun
    <2>7. RunFits(run, alerts, arms, hour, soldOut)
      BY <1>1, <2>1, <2>2, <2>3, <2>6 DEF SweepsFit, RunFits
    <2>8. sweep' = [sweep EXCEPT ![w] = run] \/ sweep' = [sweep EXCEPT ![w] = NoSweep]
      BY <1>1, <2>1, <2>2, <2>5 DEF Processed
    <2> QED BY <1>2, <2>6, <2>7, <2>8
  <1> QED BY <1>1, <1>3 DEF SweepsFit

\* A sweep reads the active alerts, then the market, and loses an alert.
LEMMA SweepReads ==
    ASSUME AlertsInd, NEW w \in Senders, SweepRead(w) \/ SweepMarket(w) \/ \E a \in AlertIds : Lose(w, a)
    PROVE  AlertsInd'
  <1>1. UNCHANGED <<vars, alerts, market, owner, arms, soldOut>>
    BY DEF SweepRead, SweepMarket, Lose
  <1>2. NotesInd' /\ hour <= hour' /\ \A a : Tellings(a)' <= Tellings(a)
    BY <1>1, ServiceRests
  <1>3. sweep \in [Senders -> SweepRun] /\ hour \in 0..MaxHour /\ hour \in Nat /\ MaxHour \in Nat /\ SweepsFit
    BY AlertValues DEF AlertsInd
  <1>4. CASE SweepRead(w)
    <2>1. PICK rows : rows = [a \in Active |-> alerts[a]] OBVIOUS
    <2>2. Active \subseteq AlertIds /\ DOMAIN rows = Active BY <2>1 DEF Active
    <2>3. \A a \in Active : rows[a] \in AlertRow /\ rows[a] = alerts[a] /\ alerts[a] # None
      BY <2>1, AlertValues DEF AlertsInd, Active, Exists
    <2>4. rows \in AlertRows
      <3>1. rows \in [Active -> AlertRow] BY <2>1, <2>3
      <3> QED BY <2>2, <3>1 DEF AlertRows
    <2>5. PICK run : run = [NoSweep EXCEPT !.pc = "market", !.rows = rows] OBVIOUS
    <2>6. run \in SweepRun /\ run.rows = rows /\ run.at = 0 /\ run.pc = "market"
      <3>1. run = [pc |-> "market", rows |-> rows, market |-> None, at |-> 0] BY <2>5 DEF NoSweep
      <3>2. 0 \in 0..MaxHour BY <1>3
      <3> QED BY <3>1, <3>2, <2>4 DEF SweepRun
    <2>7. RunFits(run, alerts, arms, hour, soldOut)
      <3>1. \A a \in Active : arms[a] > 0 /\ SoldOutBefore(alerts[a], soldOut)
        BY <2>2, <2>3 DEF AlertsInd, RowsFit, RowFits
      <3> QED BY <3>1, <2>2, <2>3, <2>6, <1>3 DEF RunFits
    <2>8. sweep' = [sweep EXCEPT ![w] = run] BY <1>4, <2>1, <2>5 DEF SweepRead
    <2>9. sweep' \in [Senders -> SweepRun] /\ \A v \in Senders : RunFits(sweep'[v], alerts, arms, hour, soldOut)
      BY <2>6, <2>7, <2>8, <1>3 DEF SweepsFit
    <2> QED BY <1>1, <1>2, <2>9, AlertsRest
  <1>5. CASE SweepMarket(w)
    <2>1. PICK run : run = [sweep[w] EXCEPT !.pc = "alerts", !.market = market, !.at = hour] OBVIOUS
    <2>2. sweep[w] \in SweepRun /\ market \in Market BY <1>3 DEF AlertsInd, AlertsType
    <2>3. /\ run \in SweepRun /\ run.rows = sweep[w].rows /\ run.at = hour /\ run.pc = "alerts"
          /\ run.market = market
      BY <2>1, <2>2, <1>3 DEF SweepRun
    <2>4. RunFits(run, alerts, arms, hour, soldOut)
      BY <2>2, <2>3, <1>3 DEF AlertsInd, MarketFits, SweepsFit, RunFits
    <2>5. sweep' = [sweep EXCEPT ![w] = run] BY <1>3, <1>5, <2>1 DEF SweepMarket
    <2>6. sweep' \in [Senders -> SweepRun] /\ \A v \in Senders : RunFits(sweep'[v], alerts, arms, hour, soldOut)
      BY <2>3, <2>4, <2>5, <1>3 DEF SweepsFit
    <2> QED BY <1>1, <1>2, <2>6, AlertsRest
  <1>6. ASSUME NEW a \in AlertIds, Lose(w, a) PROVE AlertsInd'
    <2>1. sweep' \in [Senders -> SweepRun] /\ \A v \in Senders : RunFits(sweep'[v], alerts, arms, hour, soldOut)
      BY <1>6, ProcessedFits DEF Lose
    <2> QED BY <1>1, <1>2, <2>1, AlertsRest
  <1> QED BY <1>4, <1>5, <1>6

\* A row of an alert is written by a sweep.
LEMMA RowWritten ==
    ASSUME AlertsInd, NotesInd', hour' = hour, NEW a \in AlertIds, NEW row \in AlertRow,
           Exists(a), alerts' = [alerts EXCEPT ![a] = row],
           row.kind = alerts[a].kind, row.repeatable = alerts[a].repeatable,
           UNCHANGED <<market, owner, arms, soldOut>>,
           sweep' \in [Senders -> SweepRun],
           \A w \in Senders : RunFits(sweep'[w], alerts, arms, hour, soldOut),
           \A b \in AlertIds : b # a => Tellings(b)' <= Tellings(b),
           RowFits(row, arms[a], Tellings(a)', hour, soldOut)
    PROVE  AlertsInd'
  <1>1. alerts \in [AlertIds -> AlertRow \cup {None}] /\ hour \in Nat /\ row # None
    BY AlertValues, RowValues DEF AlertsInd
  <1>2. alerts' \in [AlertIds -> AlertRow \cup {None}] /\ alerts'[a] = row
        /\ \A b \in AlertIds : b # a => alerts'[b] = alerts[b]
    BY <1>1
  <1>3. AlertsType' BY <1>2 DEF AlertsInd, AlertsType, NotesInd
  <1>4. RowsFit'
    <2>1. ASSUME NEW b \in AlertIds PROVE RowFits(alerts'[b], arms'[b], Tellings(b)', hour', soldOut')
      <3>1. CASE b = a BY <3>1, <1>2
      <3>2. CASE b # a BY <3>2, <1>1, <1>2, <1>3, RowPassedBy
      <3> QED BY <3>1, <3>2
    <2> QED BY <2>1 DEF RowsFit
  <1>5. RowsMove BY <1>2 DEF RowsMove, Exists
  <1>6. SweepsFit' BY <1>1, <1>3, <1>5, RunsKept
  <1>7. OwnerFits' BY <1>1, <1>2 DEF AlertsInd, OwnerFits, Exists
  <1>8. MarketFits' BY DEF AlertsInd, MarketFits
  <1> QED BY <1>3, <1>4, <1>6, <1>7, <1>8 DEF AlertsInd

\* What a sweep knows of an alert that it has come to.
LEMMA AtItsAlert ==
    ASSUME AlertsInd, NEW w \in Senders, NEW a \in AlertIds, AtAlert(w, a)
    PROVE  /\ sweep[w].market \in Market /\ (sweep[w].market.stock = FALSE => soldOut)
           /\ sweep[w].at \in Nat /\ sweep[w].at <= hour
           /\ sweep[w].rows[a] \in AlertRow
           /\ SoldOutBefore(sweep[w].rows[a], soldOut)
           /\ Exists(a) => /\ alerts[a].kind = sweep[w].rows[a].kind
                           /\ alerts[a].repeatable = sweep[w].rows[a].repeatable
                           /\ alerts[a] \in AlertRow
                           /\ RowFits(alerts[a], arms[a], Tellings(a), hour, soldOut)
                           /\ Observed(alerts[a], sweep[w].market) \in AlertRow
                           /\ RowFits(Observed(alerts[a], sweep[w].market), arms[a], Tellings(a), hour, soldOut)
  <1>1. RunFits(sweep[w], alerts, arms, hour, soldOut) /\ sweep[w].pc = "alerts" /\ a \in DOMAIN sweep[w].rows
    BY DEF AlertsInd, SweepsFit, AtAlert
  <1>2. sweep[w].market \in Market /\ (sweep[w].market.stock = FALSE => soldOut)
    BY <1>1 DEF RunFits
  <1>3. sweep[w].at \in Nat /\ sweep[w].at <= hour /\ sweep[w].rows[a] \in AlertRow
    BY <1>1, AlertValues DEF AlertsInd, RunFits
  <1>4. /\ SoldOutBefore(sweep[w].rows[a], soldOut)
        /\ Exists(a) => /\ alerts[a].kind = sweep[w].rows[a].kind
                        /\ alerts[a].repeatable = sweep[w].rows[a].repeatable
    BY <1>1 DEF RunFits, Exists
  <1>5. ASSUME Exists(a)
        PROVE  /\ alerts[a] \in AlertRow
               /\ RowFits(alerts[a], arms[a], Tellings(a), hour, soldOut)
               /\ Observed(alerts[a], sweep[w].market) \in AlertRow
               /\ RowFits(Observed(alerts[a], sweep[w].market), arms[a], Tellings(a), hour, soldOut)
    <2>1. /\ alerts[a] \in AlertRow /\ arms[a] \in Nat /\ Tellings(a) \in Nat /\ hour \in Nat /\ soldOut \in BOOLEAN
          /\ RowFits(alerts[a], arms[a], Tellings(a), hour, soldOut)
      BY <1>5, AlertValues DEF AlertsInd, RowsFit, Exists
    <2>2. PICK row \in AlertRow, k \in Nat, t \in Nat, h \in Nat, sold \in BOOLEAN, seen \in Stock :
             /\ row = alerts[a] /\ k = arms[a] /\ t = Tellings(a) /\ h = hour /\ sold = soldOut
             /\ seen = sweep[w].market.stock
      <3>1. sweep[w].market.stock \in Stock BY <1>2 DEF Market
      <3> QED BY <2>1, <3>1
    <2>3. RowFits(row, k, t, h, sold) /\ (seen = FALSE => sold) BY <2>1, <2>2, <1>2
    <2>4. [row EXCEPT !.seen = seen] \in AlertRow /\ RowFits([row EXCEPT !.seen = seen], k, t, h, sold)
      BY <2>3, RowSeen
    <2>5. Observed(row, sweep[w].market) = row \/ Observed(row, sweep[w].market) = [row EXCEPT !.seen = seen]
      BY <2>2 DEF Observed
    <2> QED BY <2>1, <2>2, <2>3, <2>4, <2>5
  <1> QED BY <1>2, <1>3, <1>4, <1>5

LEMMA ObservedRow ==
    ASSUME NEW row \in AlertRow, NEW m
    PROVE  /\ Observed(row, m).kind = row.kind /\ Observed(row, m).repeatable = row.repeatable
           /\ Observed(row, m).status = row.status /\ Observed(row, m).last = row.last
  BY DEF Observed, AlertRow

\* Nothing to tell: the stock is noted.
LEMMA StampFits ==
    ASSUME AlertsInd, NEW w \in Senders, NEW a \in AlertIds, Stamp(w, a)
    PROVE  AlertsInd'
  <1>1. UNCHANGED <<vars, market, owner, arms, soldOut>> /\ AtAlert(w, a)
    BY DEF Stamp
  <1>2. NotesInd' /\ hour <= hour' /\ \A b : Tellings(b)' <= Tellings(b)
    BY <1>1, ServiceRests
  <1>3. sweep' \in [Senders -> SweepRun] /\ \A v \in Senders : RunFits(sweep'[v], alerts, arms, hour, soldOut)
    BY ProcessedFits DEF Stamp
  <1>4. CASE ~Exists(a)
    <2>1. alerts' = alerts BY <1>4 DEF Stamp
    <2> QED BY <1>1, <1>2, <1>3, <2>1, AlertsRest
  <1>5. CASE Exists(a)
    <2>1. PICK row \in AlertRow : row = Observed(alerts[a], sweep[w].market)
      BY <1>1, <1>5, AtItsAlert
    <2>2. /\ alerts' = [alerts EXCEPT ![a] = row] /\ row.kind = alerts[a].kind
          /\ row.repeatable = alerts[a].repeatable /\ RowFits(row, arms[a], Tellings(a), hour, soldOut)
      BY <1>1, <1>5, <2>1, AtItsAlert, ObservedRow DEF Stamp
    <2>3. Tellings(a)' = Tellings(a)
      <3>1. Flight(a)' = Flight(a) BY <1>1 DEF Flight, vars
      <3>2. Told(a)' = Told(a) BY <1>1 DEF Told, vars
      <3> QED BY <3>1, <3>2 DEF Tellings
    <2>4. hour' = hour BY <1>1 DEF vars
    <2> QED BY <1>1, <1>2, <1>3, <1>5, <2>2, <2>3, <2>4, RowWritten
  <1> QED BY <1>4, <1>5

\* The alert fires.
LEMMA FireFits ==
    ASSUME AlertsInd, NEW w \in Senders, NEW a \in AlertIds, Fire(w, a)
    PROVE  AlertsInd'
  <1> DEFINE at == sweep[w].at
  <1>1. /\ UNCHANGED <<hour, notes, delivery, channel, realtime, mailed, jobVars, settings, crashes>>
        /\ UNCHANGED <<market, owner, arms, soldOut>>
        /\ AtAlert(w, a) /\ Exists(a) /\ sending[w].pc = "idle"
        /\ Dispatch(w, a, at \div Cooldown, Cooldown)
    BY DEF Fire, Won, AtAlert
  <1>2. NotesInd'
    <2>1. Cooldown \in Nat /\ a \in Nat BY AlertAssumption
    <2>2. at \div Cooldown \in Nat
      BY <1>1, AtItsAlert, CooldownsGrow DEF Cooldowns
    <2> QED BY <1>1, <2>1, <2>2, BeginFits DEF AlertsInd
  <1>3. sweep' \in [Senders -> SweepRun] /\ \A v \in Senders : RunFits(sweep'[v], alerts, arms, hour, soldOut)
    BY ProcessedFits DEF Fire
  <1>4. \A b \in AlertIds : Tellings(b)' = IF b = a THEN Tellings(b) + 1 ELSE Tellings(b)
    <2>1. a \in Nat /\ TypeOK BY AlertAssumption DEF AlertsInd, NotesInd
    <2> QED BY <1>1, <2>1, FireTells
  <1>5. /\ hour \in Nat /\ hour <= MaxHour /\ arms[a] \in Nat /\ Tellings(a) \in Nat /\ soldOut \in BOOLEAN
        /\ \A b \in AlertIds : Tellings(b) \in Nat
    BY AlertValues DEF AlertsInd
  <1>6. PICK row \in AlertRow : row = Observed(alerts[a], sweep[w].market)
    BY <1>1, AtItsAlert
  <1>7. /\ row.kind = alerts[a].kind /\ row.repeatable = alerts[a].repeatable
        /\ row.status = alerts[a].status /\ row.last = alerts[a].last
        /\ RowFits(row, arms[a], Tellings(a), hour, soldOut)
    BY <1>1, <1>6, AtItsAlert, ObservedRow
  <1>8. row.status = "ACTIVE" /\ row.last = sweep[w].rows[a].last
    BY <1>7 DEF Fire, Won
  <1>9. row.repeatable /\ row.last # None => at - row.last >= Cooldown
    <2>1. ~Cooling(sweep[w].rows[a], at) BY DEF Fire, Fires
    <2>2. sweep[w].rows[a].repeatable = row.repeatable BY <1>1, <1>7, AtItsAlert
    <2>3. row.last # None => row.last \in Nat BY RowValues
    <2>4. at \in Nat /\ Cooldown \in Nat
      <3>1. Cooldown \in Nat BY AlertAssumption
      <3> QED BY <3>1, <1>1, AtItsAlert
    <2> QED BY <2>1, <2>2, <2>3, <2>4, <1>8 DEF Cooling
  <1>10. row.kind = "RESTOCK" => soldOut
    <2>1. Triggered(sweep[w].rows[a], sweep[w].market) BY DEF Fire, Fires
    <2>2. sweep[w].rows[a].kind = row.kind /\ SoldOutBefore(sweep[w].rows[a], soldOut)
      BY <1>1, <1>7, AtItsAlert
    <2> QED BY <2>1, <2>2 DEF Triggered, SoldOutBefore
  <1>11. PICK after : after = FiredRow(row, at)
    OBVIOUS
  <1>12. after \in AlertRow /\ RowFits(after, arms[a], Tellings(a) + 1, hour, soldOut)
    <2>1. PICK k \in Nat, t \in Nat, h \in Nat, sold \in BOOLEAN, now \in Nat :
             k = arms[a] /\ t = Tellings(a) /\ h = hour /\ sold = soldOut /\ now = at
      BY <1>1, <1>5, AtItsAlert
    <2>2. /\ RowFits(row, k, t, h, sold) /\ h <= MaxHour /\ now <= h
          /\ row.repeatable /\ row.last # None => now - row.last >= Cooldown
          /\ row.kind = "RESTOCK" => sold
          /\ row.status = "ACTIVE" /\ after = FiredRow(row, now)
      BY <2>1, <1>1, <1>5, <1>7, <1>8, <1>9, <1>10, <1>11, AtItsAlert
    <2>3. after \in AlertRow /\ RowFits(after, k, t + 1, h, sold)
      BY <2>2, RowFired
    <2> QED BY <2>1, <2>3
  <1>13. after.kind = row.kind /\ after.repeatable = row.repeatable BY <1>11 DEF AlertRow, FiredRow
  <1>14. alerts' = [alerts EXCEPT ![a] = after]
    <2>1. alerts \in [AlertIds -> AlertRow \cup {None}] BY AlertValues DEF AlertsInd
    <2>2. alerts' = [alerts EXCEPT ![a] =
             [Observed(alerts[a], sweep[w].market) EXCEPT
                 !.status = IF alerts[a].repeatable THEN "ACTIVE" ELSE "TRIGGERED", !.last = at]]
      BY <2>1 DEF Fire
    <2> QED BY <2>2, <1>6, <1>7, <1>11 DEF FiredRow
  <1>15. \A b \in AlertIds : b # a => Tellings(b)' <= Tellings(b) BY <1>4, <1>5
  <1>16. RowFits(after, arms[a], Tellings(a)', hour, soldOut) BY <1>4, <1>12
  <1> QED BY <1>1, <1>2, <1>3, <1>7, <1>12, <1>13, <1>14, <1>15, <1>16, RowWritten

\* What the owner's request and the market find of the stock.
LEMMA SeedsFit ==
    ASSUME AlertsInd
    PROVE  \A seen \in Seeds : seen \in Stock /\ (seen = FALSE => soldOut)
  <1>1. market \in Market /\ (market.stock = FALSE => soldOut) BY DEF AlertsInd, AlertsType, MarketFits
  <1> QED BY <1>1 DEF Seeds, Market, Stock

\* The owner reads before a create or a reactivation.
LEMMA OwnerReads ==
    ASSUME AlertsInd, NEW a \in AlertIds,
           ReactivateRead(a) \/ \E kind \in Kinds, repeatable \in BOOLEAN : CreateRead(a, kind, repeatable)
    PROVE  AlertsInd'
  <1>1. UNCHANGED <<vars, alerts, market, sweep, arms, soldOut>>
    BY DEF ReactivateRead, CreateRead
  <1>2. NotesInd' /\ hour <= hour' /\ \A b : Tellings(b)' <= Tellings(b)
    BY <1>1, ServiceRests
  <1>3. PICK point \in {"create", "reactivate"}, row \in AlertRow :
           /\ owner' = [pc |-> point, alert |-> a, row |-> row]
           /\ SoldOutBefore(row, soldOut)
           /\ point = "create" => arms[a] = 0 /\ row.last = None /\ row.status = "ACTIVE"
           /\ point = "reactivate" => Exists(a) /\ arms[a] \in 1..(MaxArms - 1) /\ row.kind = alerts[a].kind
    <2>1. ASSUME NEW kind \in Kinds, NEW repeatable \in BOOLEAN, CreateRead(a, kind, repeatable)
          PROVE  \E row \in AlertRow :
                    /\ owner' = [pc |-> "create", alert |-> a, row |-> row]
                    /\ SoldOutBefore(row, soldOut)
                    /\ arms[a] = 0 /\ row.last = None /\ row.status = "ACTIVE"
      <3>1. PICK seen \in SeedFor(kind) :
               owner' = [pc |-> "create", alert |-> a,
                         row |-> [kind |-> kind, repeatable |-> repeatable, status |-> "ACTIVE",
                                  last |-> None, seen |-> seen]]
        BY <2>1 DEF CreateRead
      <3>2. seen \in Stock /\ (seen = FALSE => soldOut)
        BY SeedsFit, AlertAssumption DEF SeedFor, Stock
      <3>3. PICK row : row = [kind |-> kind, repeatable |-> repeatable, status |-> "ACTIVE",
                              last |-> None, seen |-> seen]
        OBVIOUS
      <3>4. row \in AlertRow /\ row.last = None /\ row.status = "ACTIVE" /\ row.seen = seen
        BY <3>2, <3>3 DEF AlertRow
      <3>5. SoldOutBefore(row, soldOut) BY <3>2, <3>4 DEF SoldOutBefore
      <3>6. arms[a] = 0 BY <2>1 DEF CreateRead
      <3> QED BY <3>1, <3>3, <3>4, <3>5, <3>6
    <2>2. ASSUME ReactivateRead(a)
          PROVE  \E row \in AlertRow :
                    /\ owner' = [pc |-> "reactivate", alert |-> a, row |-> row]
                    /\ SoldOutBefore(row, soldOut)
                    /\ Exists(a) /\ arms[a] \in 1..(MaxArms - 1) /\ row.kind = alerts[a].kind
      <3>1. PICK seen \in IF alerts[a].kind = "RESTOCK" THEN Seeds ELSE {alerts[a].seen} :
               owner' = [pc |-> "reactivate", alert |-> a, row |-> [alerts[a] EXCEPT !.seen = seen]]
        BY <2>2 DEF ReactivateRead
      <3>2. Exists(a) /\ alerts[a] \in AlertRow /\ SoldOutBefore(alerts[a], soldOut) /\ arms[a] \in 1..(MaxArms - 1)
        BY <2>2, AlertValues DEF AlertsInd, RowsFit, RowFits, ReactivateRead, Exists
      <3>3. alerts[a].seen \in Stock BY <3>2 DEF AlertRow
      <3>4. seen \in Stock /\ (seen = FALSE => soldOut)
        BY <3>2, <3>3, SeedsFit DEF SoldOutBefore
      <3>5. PICK row : row = [alerts[a] EXCEPT !.seen = seen] OBVIOUS
      <3>6. row \in AlertRow /\ row.seen = seen /\ row.kind = alerts[a].kind
        BY <3>2, <3>4, <3>5 DEF AlertRow
      <3>7. SoldOutBefore(row, soldOut) BY <3>4, <3>6 DEF SoldOutBefore
      <3> QED BY <3>1, <3>2, <3>5, <3>6, <3>7
    <2> QED BY <2>1, <2>2
  <1>4. /\ owner'.pc = point /\ owner'.alert = a /\ owner'.row = row
        /\ owner' \in [pc : {"idle", "create", "reactivate"}, alert : AlertIds \cup {0}, row : AlertRow \cup {None}]
    BY <1>3
  <1>5. AlertsType' BY <1>1, <1>2, <1>4 DEF AlertsInd, AlertsType, NotesInd
  <1>6. RowsFit' BY <1>1, <1>2, <1>5, RowPassedBy DEF RowsFit
  <1>7. SweepsFit'
    BY <1>1, <1>2, <1>5, RunsKept DEF AlertsInd, SweepsFit, RowsMove
  <1>8. OwnerFits' BY <1>1, <1>3, <1>4 DEF OwnerFits, Exists
  <1>9. MarketFits' BY <1>1 DEF AlertsInd, MarketFits
  <1> QED BY <1>2, <1>5, <1>6, <1>7, <1>8, <1>9 DEF AlertsInd

\* The owner's row is written: the alert is armed.
LEMMA OwnerWrites ==
    ASSUME AlertsInd, OwnerWrite
    PROVE  AlertsInd'
  <1>0. PICK a : a = owner.alert OBVIOUS
  <1>1. /\ UNCHANGED <<vars, market, sweep, soldOut>> /\ owner' = NoRequest /\ owner.pc # "idle"
        /\ owner.pc \in {"create", "reactivate"}
    BY DEF OwnerWrite, AlertsInd, AlertsType
  <1>2. NotesInd' /\ hour <= hour' /\ \A b : Tellings(b)' <= Tellings(b)
    BY <1>1, ServiceRests
  <1>3. /\ a \in AlertIds /\ owner.row \in AlertRow /\ SoldOutBefore(owner.row, soldOut)
        /\ owner.pc = "create" => arms[a] = 0 /\ owner.row.last = None /\ owner.row.status = "ACTIVE"
        /\ owner.pc = "reactivate" => Exists(a) /\ arms[a] \in 1..(MaxArms - 1) /\ owner.row.kind = alerts[a].kind
    BY <1>0, <1>1 DEF AlertsInd, OwnerFits
  <1>4. /\ alerts \in [AlertIds -> AlertRow \cup {None}] /\ arms \in [AlertIds -> 0..MaxArms] /\ MaxArms \in Nat \ {0}
        /\ hour \in Nat /\ Tellings(a) \in Nat /\ soldOut \in BOOLEAN /\ arms[a] \in Nat
        /\ RowFits(alerts[a], arms[a], Tellings(a), hour, soldOut)
    BY <1>3, AlertValues, AlertAssumption DEF AlertsInd, RowsFit
  <1>5. PICK row \in AlertRow :
           /\ alerts' = [alerts EXCEPT ![a] = row]
           /\ RowFits(row, arms[a] + 1, Tellings(a), hour, soldOut)
           /\ arms[a] > 0 => alerts[a] # None /\ row.kind = alerts[a].kind /\ row.repeatable = alerts[a].repeatable
    <2>1. CASE owner.pc = "create"
      <3>1. PICK row \in AlertRow, t \in Nat, h \in Nat, sold \in BOOLEAN :
               row = owner.row /\ t = Tellings(a) /\ h = hour /\ sold = soldOut
        BY <1>3, <1>4
      <3>2. RowFits(alerts[a], 0, t, h, sold) /\ row.last = None /\ row.status = "ACTIVE" /\ SoldOutBefore(row, sold)
        BY <2>1, <3>1, <1>3, <1>4
      <3>3. RowFits(row, 1, t, h, sold) BY <3>2, RowCreated
      <3>4. alerts' = [alerts EXCEPT ![a] = row] BY <1>0, <2>1, <3>1 DEF OwnerWrite
      <3>5. arms[a] = 0 /\ arms[a] + 1 = 1 /\ ~(arms[a] > 0) BY <2>1, <1>3
      <3>6. RowFits(row, arms[a] + 1, Tellings(a), hour, soldOut) BY <3>1, <3>3, <3>5
      <3> QED BY <3>4, <3>5, <3>6
    <2>2. CASE owner.pc = "reactivate"
      <3>1. PICK old \in AlertRow, k \in Nat, t \in Nat, h \in Nat, sold \in BOOLEAN, seen \in Stock :
               /\ old = alerts[a] /\ k = arms[a] /\ t = Tellings(a) /\ h = hour /\ sold = soldOut
               /\ seen = IF owner.row.kind = "RESTOCK" THEN owner.row.seen ELSE alerts[a].seen
        <4>1. alerts[a] \in AlertRow BY <2>2, <1>3, <1>4 DEF Exists
        <4>2. owner.row.seen \in Stock /\ alerts[a].seen \in Stock BY <4>1, <1>3 DEF AlertRow
        <4>3. (IF owner.row.kind = "RESTOCK" THEN owner.row.seen ELSE alerts[a].seen) \in Stock BY <4>2
        <4> QED BY <4>1, <4>3, <1>4
      <3>2. RowFits(old, k, t, h, sold) /\ old # None BY <3>1, <1>4, RowValues
      <3>3. seen = FALSE => sold
        BY <3>1, <3>2, <1>3 DEF RowFits, SoldOutBefore
      <3>4. PICK row : row = RearmedRow(old, seen) OBVIOUS
      <3>5. row \in AlertRow /\ RowFits(row, k + 1, t, h, sold)
        BY <3>2, <3>3, <3>4, RowRearmed
      <3>6. row.kind = old.kind /\ row.repeatable = old.repeatable BY <3>4 DEF AlertRow, RearmedRow
      <3>7. alerts' = [alerts EXCEPT ![a] = row]
        <4>1. alerts' = [alerts EXCEPT ![a] = RearmedRow(alerts[a],
                 (IF owner.row.kind = "RESTOCK" THEN owner.row ELSE alerts[a]).seen)]
          BY <1>0, <2>2 DEF OwnerWrite, RearmedRow
        <4>2. (IF owner.row.kind = "RESTOCK" THEN owner.row ELSE alerts[a]).seen = seen BY <3>1
        <4> QED BY <4>1, <4>2, <3>1, <3>4
      <3> QED BY <3>1, <3>2, <3>5, <3>6, <3>7
    <2> QED BY <1>1, <2>1, <2>2
  <1>6. /\ arms' = [arms EXCEPT ![a] = arms[a] + 1] /\ arms[a] + 1 \in 0..MaxArms
    BY <1>0, <1>1, <1>3, <1>4 DEF OwnerWrite
  <1>7. /\ alerts' \in [AlertIds -> AlertRow \cup {None}] /\ arms' \in [AlertIds -> 0..MaxArms]
        /\ alerts'[a] = row /\ arms'[a] = arms[a] + 1
        /\ \A b \in AlertIds : b # a => alerts'[b] = alerts[b] /\ arms'[b] = arms[b]
    BY <1>3, <1>4, <1>5, <1>6
  <1>8. AlertsType' BY <1>1, <1>2, <1>7 DEF AlertsInd, AlertsType, NotesInd, NoRequest
  <1>9. RowsFit'
    <2>1. hour' = hour /\ soldOut' = soldOut BY <1>1 DEF vars
    <2>2. \A b : Tellings(b)' = Tellings(b)
      <3>1. \A b : Flight(b)' = Flight(b) /\ Told(b)' = Told(b) BY <1>1 DEF Flight, Told, vars
      <3> QED BY <3>1 DEF Tellings
    <2>3. ASSUME NEW b \in AlertIds PROVE RowFits(alerts'[b], arms'[b], Tellings(b)', hour', soldOut')
      <3>1. CASE b = a
        BY <3>1, <1>5, <1>7, <2>1, <2>2
      <3>2. CASE b # a BY <3>2, <1>1, <1>2, <1>7, <1>8, <2>1, RowPassedBy
      <3> QED BY <3>1, <3>2
    <2> QED BY <2>3 DEF RowsFit
  <1>10. RowsMove
    <2>1. ASSUME NEW b \in AlertIds, arms[b] > 0
          PROVE  /\ arms'[b] > 0
                 /\ alerts'[b] # None => /\ alerts[b] # None /\ alerts'[b].kind = alerts[b].kind
                                         /\ alerts'[b].repeatable = alerts[b].repeatable
      <3>1. CASE b = a BY <2>1, <3>1, <1>4, <1>5, <1>7
      <3>2. CASE b # a BY <2>1, <3>2, <1>7
      <3> QED BY <3>1, <3>2
    <2> QED BY <2>1 DEF RowsMove
  <1>11. SweepsFit'
    BY <1>1, <1>2, <1>8, <1>10, RunsKept DEF AlertsInd, SweepsFit
  <1>12. OwnerFits' BY <1>1 DEF OwnerFits, NoRequest
  <1>13. MarketFits' BY <1>1 DEF AlertsInd, MarketFits
  <1> QED BY <1>2, <1>8, <1>9, <1>11, <1>12, <1>13 DEF AlertsInd

\* The owner deletes an alert.
LEMMA DeleteFits ==
    ASSUME AlertsInd, NEW a \in AlertIds, DeleteAlert(a)
    PROVE  AlertsInd'
  <1>1. UNCHANGED <<vars, market, sweep, owner, arms, soldOut>> /\ owner.pc = "idle" /\ alerts[a] # None
        /\ alerts' = [alerts EXCEPT ![a] = None]
    BY DEF DeleteAlert, Exists
  <1>2. NotesInd' /\ hour <= hour' /\ \A b : Tellings(b)' <= Tellings(b)
    BY <1>1, ServiceRests
  <1>3. /\ alerts \in [AlertIds -> AlertRow \cup {None}] /\ alerts[a] \in AlertRow
        /\ hour \in Nat /\ Tellings(a) \in Nat /\ soldOut \in BOOLEAN /\ arms[a] \in Nat
        /\ RowFits(alerts[a], arms[a], Tellings(a), hour, soldOut)
    BY <1>1, AlertValues DEF AlertsInd, RowsFit
  <1>4. /\ alerts' \in [AlertIds -> AlertRow \cup {None}] /\ alerts'[a] = None
        /\ \A b \in AlertIds : b # a => alerts'[b] = alerts[b]
    BY <1>1, <1>3
  <1>5. AlertsType' BY <1>1, <1>2, <1>4 DEF AlertsInd, AlertsType, NotesInd
  <1>6. RowFits(None, arms[a], Tellings(a), hour, soldOut)
    <2>1. PICK old \in AlertRow, k \in Nat, t \in Nat, h \in Nat, sold \in BOOLEAN :
             old = alerts[a] /\ k = arms[a] /\ t = Tellings(a) /\ h = hour /\ sold = soldOut
      BY <1>3
    <2>2. RowFits(old, k, t, h, sold) BY <1>3, <2>1
    <2>3. RowFits(None, k, t, h, sold) BY <2>2, RowGone
    <2> QED BY <2>1, <2>3
  <1>7. \A b : Tellings(b)' = Tellings(b)
    <2>1. \A b : Flight(b)' = Flight(b) /\ Told(b)' = Told(b) BY <1>1 DEF Flight, Told, vars
    <2> QED BY <2>1 DEF Tellings
  <1>8. RowsFit'
    <2>1. hour' = hour /\ soldOut' = soldOut /\ arms' = arms BY <1>1 DEF vars
    <2>2. ASSUME NEW b \in AlertIds PROVE RowFits(alerts'[b], arms'[b], Tellings(b)', hour', soldOut')
      <3>1. CASE b = a BY <3>1, <1>4, <1>6, <1>7, <2>1
      <3>2. CASE b # a BY <3>2, <1>2, <1>4, <1>5, <2>1, RowPassedBy
      <3> QED BY <3>1, <3>2
    <2> QED BY <2>2 DEF RowsFit
  <1>9. RowsMove BY <1>1, <1>4 DEF RowsMove
  <1>10. SweepsFit' BY <1>1, <1>2, <1>5, <1>9, RunsKept DEF AlertsInd, SweepsFit
  <1>11. OwnerFits' /\ MarketFits' BY <1>1 DEF AlertsInd, OwnerFits, MarketFits
  <1> QED BY <1>2, <1>5, <1>8, <1>10, <1>11 DEF AlertsInd

\* New listings.
LEMMA MarketFitsOn ==
    ASSUME AlertsInd, NEW m \in Markets, MarketMoves(m)
    PROVE  AlertsInd'
  <1>1. /\ UNCHANGED <<vars, alerts, sweep, owner, arms>> /\ market' = m
        /\ soldOut' = (soldOut \/ m.stock = FALSE) /\ m \in Market
    BY AlertAssumption DEF MarketMoves
  <1>2. NotesInd' /\ hour <= hour' /\ \A b : Tellings(b)' <= Tellings(b)
    BY <1>1, ServiceRests
  <1>3. soldOut' \in BOOLEAN /\ (soldOut => soldOut') BY <1>1
  <1>4. AlertsType' BY <1>1, <1>2, <1>3 DEF AlertsInd, AlertsType, NotesInd
  <1>5. RowsFit' BY <1>1, <1>2, <1>3, <1>4, RowPassedBy DEF RowsFit
  <1>6. SweepsFit' BY <1>1, <1>2, <1>3, <1>4, RunsKept DEF AlertsInd, SweepsFit, RowsMove
  <1>7. OwnerFits' BY <1>1, <1>3 DEF AlertsInd, OwnerFits, Exists, SoldOutBefore
  <1>8. MarketFits' BY <1>1 DEF MarketFits
  <1> QED BY <1>2, <1>4, <1>5, <1>6, <1>7, <1>8 DEF AlertsInd

\* The dispatches, the jobs, the user and the clock.
LEMMA ServiceMoves ==
    ASSUME AlertsInd,
           \/ (RetryStep \/ DigestStep \/ ChannelStep \/ PlanChanges \/ NextHour) /\ UNCHANGED alertVars
           \/ \E w \in Senders : Notify(w) \/ DispatchReturns(w)
    PROVE  AlertsInd'
  <1>1. UNCHANGED <<alerts, market, sweep, owner, arms, soldOut>>
    BY DEF alertVars, Notify, DispatchReturns
  <1>2. NotesInd /\ TypeOK /\ hour \in Nat /\ channel \in Channel \cup {None}
    BY AlertValues DEF AlertsInd, NotesInd, TypeOK
  <1>3. CASE RetryStep \/ DigestStep \/ ChannelStep \/ PlanChanges \/ NextHour
    <2>1. NotesInd' BY <1>2, <1>3, JobSteps, OutsideSteps
    <2>2. notes' = notes /\ sending' = sending /\ hour <= hour'
      <3>1. CASE RetryStep
        <4>1. UNCHANGED <<hour, notes, sending>> BY <3>1 DEF RetryStep, RetryRead, RetryRecord, RetrySkip, RetrySend
        <4> QED BY <4>1, <1>2
      <3>2. CASE DigestStep
        <4>1. UNCHANGED <<hour, notes, sending>> BY <3>2 DEF DigestStep, DigestRead, DigestSkip, DigestSend, DigestRecord
        <4> QED BY <4>1, <1>2
      <3>3. CASE ChannelStep
        BY <3>3, <1>2 DEF ChannelStep, ChangeAddress, VerifyRead, VerifyWrite, SetActive, Remove
      <3>4. CASE PlanChanges \/ NextHour
        BY <3>4, <1>2 DEF PlanChanges, NextHour
      <3> QED BY <1>3, <3>1, <3>2, <3>3, <3>4
    <2>3. \A a \in AlertIds : Tellings(a)' <= Tellings(a)
      <3>1. \A a : Flight(a)' = Flight(a) BY <2>2 DEF Flight
      <3>2. TypeOK' BY <2>1 DEF NotesInd
      <3> QED BY <3>1, <3>2, <2>2, <1>2, NothingTold
    <2> QED BY <1>1, <2>1, <2>2, <2>3, AlertsRest DEF AlertsInd, AlertsType, SweepsFit
  <1>4. ASSUME NEW w \in Senders, Notify(w) \/ DispatchReturns(w) PROVE AlertsInd'
    <2>1. CASE CreateNote(w)
      <3>1. NotesInd' BY <1>2, <2>1, CreateFits
      <3>2. hour' = hour BY <2>1 DEF CreateNote
      <3>3. \A a \in AlertIds : Tellings(a)' <= Tellings(a)
        BY <1>2, <2>1, <3>1, CreateTells DEF NotesInd
      <3> QED BY <1>1, <1>2, <3>1, <3>2, <3>3, AlertsRest DEF AlertsInd, AlertsType, SweepsFit
    <2>2. CASE ~CreateNote(w)
      <3>1. /\ DispatchStep(w) \/ Returns(w) \/ Dispatched(w)
            /\ hour' = hour /\ notes' = notes
            /\ NotesInd'
        <4>1. CASE DispatchStep(w)
          BY <1>2, <4>1, DispatchSteps
             DEF DispatchStep, Duplicate, RateLimited, Targets, Hold, Send, Record, Count
        <4>2. CASE /\ Returns(w) \/ Dispatched(w)
                   /\ UNCHANGED <<hour, notes, delivery, channel, realtime, mailed, jobVars, settings, crashes>>
          BY <1>2, <4>2, EndFits
        <4> QED BY <1>4, <2>2, <4>1, <4>2 DEF Notify, DispatchReturns
      <3>2. TypeOK' BY <3>1 DEF NotesInd
      <3>3. \A a \in AlertIds : Flight(a)' \subseteq Flight(a)
        BY <1>2, <3>1, DispatchGoesOn
      <3>4. \A a \in AlertIds : Tellings(a)' <= Tellings(a)
        BY <1>2, <3>1, <3>2, <3>3, NothingTold
      <3> QED BY <1>1, <1>2, <3>1, <3>4, AlertsRest DEF AlertsInd, AlertsType, SweepsFit
    <2> QED BY <2>1, <2>2
  <1> QED BY <1>3, <1>4

\* A worker that dies.
LEMMA AlertsCrashFits ==
    ASSUME AlertsInd, Crash
    PROVE  AlertsInd'
  <1>1. /\ WorkerCrash /\ sweep' = [w \in Senders |-> NoSweep]
        /\ UNCHANGED <<alerts, market, owner, arms, soldOut>>
    BY DEF Crash
  <1>2. NotesInd' /\ hour' = hour /\ notes' = notes /\ hour \in Nat /\ MaxHour \in Nat
    BY <1>1, CrashFits, AlertValues DEF AlertsInd, WorkerCrash
  <1>3. \A a \in AlertIds : Tellings(a)' <= Tellings(a)
    <2>1. \A a \in AlertIds : Flight(a)' \subseteq Flight(a) BY <1>1 DEF Flight, WorkerCrash, NotSending
    <2>2. TypeOK /\ TypeOK' BY <1>2 DEF NotesInd, AlertsInd
    <2> QED BY <2>1, <2>2, <1>2, NothingTold
  <1>4. NoSweep \in SweepRun /\ RunFits(NoSweep, alerts, arms, hour, soldOut)
    <2>1. <<>> \in [{} -> AlertRow] /\ DOMAIN <<>> = {} OBVIOUS
    <2>2. <<>> \in AlertRows BY <2>1 DEF AlertRows
    <2> QED BY <1>2, <2>1, <2>2 DEF NoSweep, SweepRun, RunFits
  <1> QED BY <1>1, <1>2, <1>3, <1>4, AlertsRest

LEMMA AlertsStart ==
    ASSUME AlertsInit
    PROVE  AlertsInd
  <1>1. NotesInd /\ TypeOK /\ hour = 0 /\ MaxHour \in Nat /\ MaxArms \in Nat
    BY NotesInit, NotificationAssumption, AlertAssumption DEF AlertsInit, NotesInd, Init
  <1>2. market \in Market /\ soldOut \in BOOLEAN /\ MarketFits
    BY AlertAssumption DEF AlertsInit, MarketFits
  <1>3. NoSweep \in SweepRun /\ RunFits(NoSweep, alerts, arms, hour, soldOut)
    <2>1. <<>> \in [{} -> AlertRow] /\ DOMAIN <<>> = {} OBVIOUS
    <2>2. <<>> \in AlertRows BY <2>1 DEF AlertRows
    <2> QED BY <1>1, <2>1, <2>2 DEF NoSweep, SweepRun, RunFits
  <1>4. AlertsType
    BY <1>1, <1>2, <1>3 DEF AlertsInit, AlertsType, NoRequest
  <1>5. RowsFit
    <2>1. ASSUME NEW a \in AlertIds PROVE RowFits(alerts[a], arms[a], Tellings(a), hour, soldOut)
      <3>1. alerts[a] = None /\ arms[a] = 0 BY DEF AlertsInit
      <3>2. DOMAIN notes = {} /\ \A w \in Senders : sending[w].pc = "idle"
        BY EmptySeq DEF AlertsInit, Init, NotSending
      <3>3. Told(a) = {} /\ Flight(a) = {} BY <3>2 DEF Told, Flight
      <3>4. Tellings(a) = 0 BY <3>3, FS_EmptySet DEF Tellings
      <3>5. Cooldowns(hour) \in Nat BY <1>1, CooldownsGrow
      <3>6. 0 * (1 + Cooldowns(hour)) = 0 BY <3>5
      <3> QED BY <3>1, <3>4, <3>6 DEF RowFits, Budget
    <2> QED BY <2>1 DEF RowsFit
  <1>6. SweepsFit BY <1>3 DEF AlertsInit, SweepsFit
  <1>7. OwnerFits BY DEF AlertsInit, OwnerFits, NoRequest
  <1> QED BY <1>1, <1>2, <1>4, <1>5, <1>6, <1>7 DEF AlertsInd

LEMMA AlertsNextFits ==
    ASSUME AlertsInd, AlertsNext
    PROVE  AlertsInd'
  <1>1. ASSUME NEW w \in Senders, SweepRead(w) \/ SweepStep(w) PROVE AlertsInd'
    BY <1>1, SweepReads, StampFits, FireFits, ServiceMoves DEF SweepStep
  <1>2. CASE OwnerStep
    BY <1>2, OwnerReads, OwnerWrites, DeleteFits DEF OwnerStep
  <1>3. ASSUME NEW m \in Markets, MarketMoves(m) PROVE AlertsInd'
    BY <1>3, MarketFitsOn
  <1>4. CASE (RetryStep \/ DigestStep \/ ChannelStep \/ PlanChanges \/ NextHour) /\ UNCHANGED alertVars
    BY <1>4, ServiceMoves
  <1>5. CASE Crash BY <1>5, AlertsCrashFits
  <1> QED BY <1>1, <1>2, <1>3, <1>4, <1>5 DEF AlertsNext

LEMMA AlertsStutter ==
    ASSUME AlertsInd, UNCHANGED allVars
    PROVE  AlertsInd'
  <1>1. UNCHANGED vars /\ UNCHANGED <<alerts, market, sweep, owner, arms, soldOut>>
    BY DEF allVars, alertVars
  <1> QED BY <1>1, ServiceRests, AlertsRest DEF AlertsInd, AlertsType, SweepsFit

\* Alerts keeps its inductive invariant.
THEOREM AlertsInvariant == AlertsSpec => []AlertsInd
  <1>1. AlertsInit => AlertsInd BY AlertsStart
  <1>2. AlertsInd /\ [AlertsNext]_allVars => AlertsInd' BY AlertsNextFits, AlertsStutter
  <1> QED BY <1>1, <1>2, PTL DEF AlertsSpec

\* The variables of the alerts and of the notifications keep their types.
THEOREM AlertsTypeCorrect == AlertsSpec => []AlertsType
  <1>1. AlertsInd => AlertsType BY DEF AlertsInd
  <1> QED BY <1>1, AlertsInvariant, PTL

\* "Two overlapping sweeps would otherwise both fire it and both notify"
\* (price-alert.service.ts:186): however many sweeps overlap, with an owner who
\* deletes and reactivates between their steps, an alert that does not repeat is
\* told once each time it is armed, and a repeating one once more for each of the
\* cooldowns that may have passed.
THEOREM AlertsTellOncePerArming == AlertsSpec => []ToldPerArming
  <1>1. ASSUME AlertsInd, NEW a \in AlertIds
        PROVE  Cardinality(Told(a)) <=
                   arms[a] * (IF Exists(a) /\ ~alerts[a].repeatable THEN 1 ELSE 1 + hour \div Cooldown)
    <2>1. /\ alerts[a] \in AlertRow \cup {None} /\ arms[a] \in Nat /\ hour \in Nat /\ soldOut \in BOOLEAN
          /\ Tellings(a) \in Nat /\ RowFits(alerts[a], arms[a], Tellings(a), hour, soldOut)
      BY <1>1, AlertValues DEF AlertsInd, RowsFit
    <2>2. Cardinality(Told(a)) \in Nat /\ Cardinality(Told(a)) <= Tellings(a)
      BY <1>1, TellingsType DEF AlertsInd, NotesInd, Tellings
    <2>3. CASE Exists(a) /\ ~alerts[a].repeatable
      BY <2>1, <2>2, <2>3 DEF RowFits, Budget, Exists
    <2>4. CASE ~(Exists(a) /\ ~alerts[a].repeatable)
      <3>1. Tellings(a) <= arms[a] * (1 + Cooldowns(hour))
        <4>1. CASE alerts[a] = None BY <4>1, <2>1 DEF RowFits, Budget
        <4>2. CASE alerts[a] # None
          <5>1. PICK row \in AlertRow, k \in Nat, t \in Nat, h \in Nat, sold \in BOOLEAN :
                   row = alerts[a] /\ k = arms[a] /\ t = Tellings(a) /\ h = hour /\ sold = soldOut
            BY <2>1, <4>2
          <5>2. RowFits(row, k, t, h, sold) BY <2>1, <5>1
          <5>3. t <= k * (1 + Cooldowns(h)) BY <5>2, RowGone
          <5> QED BY <5>1, <5>3
        <4> QED BY <4>1, <4>2
      <3>2. arms[a] * (1 + Cooldowns(hour)) \in Nat BY <2>1, CooldownsGrow, Products
      <3>3. Cardinality(Told(a)) <= arms[a] * (1 + Cooldowns(hour)) BY <2>1, <2>2, <3>1, <3>2
      <3> QED BY <2>4, <3>3 DEF Cooldowns
    <2> QED BY <2>3, <2>4
  <1>2. AlertsInd => ToldPerArming BY <1>1 DEF ToldPerArming
  <1> QED BY <1>2, AlertsInvariant, PTL

\* "A product that is simply in stock, or whose stock we have never observed, must
\* not fire" (price-alert.service.ts:340): what a RESTOCK alert tells was preceded
\* by a listing that said sold out.
THEOREM RestockIsATransition == AlertsSpec => []RestockNeedsTransition
  <1>1. ASSUME AlertsInd, NEW a \in AlertIds, Exists(a), alerts[a].kind = "RESTOCK", Told(a) # {}
        PROVE  soldOut
    <2>1. /\ IsFiniteSet(Told(a)) /\ Cardinality(Told(a)) \in Nat /\ Cardinality(Flight(a)) \in Nat
      BY <1>1, TellingsType DEF AlertsInd, NotesInd
    <2>2. Cardinality(Told(a)) # 0 BY <1>1, <2>1, FS_EmptySet
    <2>3. Tellings(a) # 0 BY <2>1, <2>2 DEF Tellings
    <2> QED BY <1>1, <2>3 DEF AlertsInd, RowsFit, RowFits, Exists
  <1>2. AlertsInd => RestockNeedsTransition BY <1>1 DEF RestockNeedsTransition
  <1> QED BY <1>2, AlertsInvariant, PTL

\* maxPerUserPerHour (notifications.service.ts:330): the cap is exceeded by no more
\* than the other dispatches that counted before the row was written.
THEOREM TheCapHolds == AlertsSpec => []RateHolds
  <1>1. ASSUME NotesInd, RateCap > 0
        PROVE  Cardinality(Since(1)) <= RateCap + Cardinality(Senders) - 1
    <2>1. Cardinality(Since(1)) \in Nat BY <1>1, SinceFinite DEF NotesInd
    <2>2. Passed \subseteq Senders BY DEF Passed
    <2>3. Cardinality(Passed) \in Nat /\ Cardinality(Senders) \in Nat /\ RateCap \in Nat
      BY <2>2, NotificationAssumption, FS_Subset, FS_CardinalityType
    <2> QED BY <1>1, <2>1, <2>3 DEF NotesInd, RateFits
  <1>2. AlertsInd => RateHolds BY <1>1 DEF AlertsInd, RateHolds
  <1> QED BY <1>2, AlertsInvariant, PTL
====
