---- MODULE Notifications ----
(***************************************************************************)
(* NotificationsService and NotificationChannelsService, for one user: a   *)
(* notification is a row of the inbox, sent by email on top of that.       *)
(*                                                                         *)
(* A sender runs dispatch one await at a time in sending[w].  The worker   *)
(* has two jobs over the deliveries: the daily digest of those that were   *)
(* held, and the retry of those that failed; Bull runs neither twice at    *)
(* once.  All of them read the channel, send, and record the outcome       *)
(* afterwards; the user may change the channel and the worker may die in   *)
(* between.  Time is in hours.                                             *)
(***************************************************************************)
EXTENDS Integers, Sequences, FiniteSets

CONSTANTS
    None,
    Senders,       \* concurrent calls of dispatch
    Addresses,     \* email addresses of the user; with none there is no channel
    RateCap,       \* notifications.maxPerUserPerHour; 0 is no cap
    MaxAttempts,   \* notifications.maxDeliveryAttempts
    ParkAfter,     \* failures that park a channel (10 in the code)
    MaxNotes,      \* bound on the notifications
    MaxHour,       \* bound on the clock
    MaxCrashes     \* bound on crashes of the worker

ASSUME NotificationAssumption ==
    /\ RateCap \in Nat /\ MaxAttempts \in Nat /\ ParkAfter \in Nat \ {0}
    /\ MaxNotes \in Nat /\ MaxHour \in Nat /\ MaxCrashes \in Nat
    /\ IsFiniteSet(Senders)
    /\ None \notin Addresses \cup Nat \cup {"PENDING", "SENT", "FAILED", "SKIPPED"}

VARIABLES
    hour,       \* the clock
    notes,      \* table notifications
    delivery,   \* delivery[n]: the email delivery row of notification n
    channel,    \* the email channel of the user, None when there is none
    realtime,   \* does the user's plan include real-time email?
    mailed,     \* mailed[n]: how often notification n was sent
    sending,    \* sending[w]: the dispatch in progress of sender w
    retry,      \* the run of retryFailedDeliveries
    digest,     \* the run of sendDailyDigests
    settings,   \* the user's verify in progress
    crashes     \* how often the worker has died

jobVars == <<retry, digest>>
vars == <<hour, notes, delivery, channel, realtime, mailed, sending, retry, digest, settings, crashes>>

Sends == {"SENT", "FAILED"}
Outcomes == Sends \cup {"SKIPPED"}
DeliveryStatus == Outcomes \cup {"PENDING"}

Note == [source : Nat, key : Nat \cup {None}, at : Nat]

NoDelivery == [status |-> None, attempts |-> 0]
Delivery == [status : DeliveryStatus \cup {None}, attempts : Nat]

Channel == [address : Addresses, active : BOOLEAN, verified : BOOLEAN, failures : 0..ParkAfter]

NotSending == [pc |-> "idle", source |-> 0, key |-> None, window |-> 0, note |-> 0,
               channel |-> None, outcome |-> None]

NoJob == [pc |-> "idle", todo |-> {}, note |-> 0, channel |-> None, outcome |-> None]

DispatchCall ==
    [pc : {"idle", "duplicate", "rate", "create", "targets", "hold", "send", "record", "count", "done"},
     source : Nat, key : Nat \cup {None}, window : Nat, note : 0..MaxNotes,
     channel : Channel \cup {None}, outcome : Outcomes \cup {None}]

JobRun == [pc : {"idle", "send", "record"}, todo : SUBSET (1..MaxNotes), note : 0..MaxNotes,
           channel : Channel \cup {None}, outcome : Outcomes \cup {None}]

TypeOK ==
    /\ hour \in 0..MaxHour
    /\ notes \in Seq(Note) /\ Len(notes) <= MaxNotes
    /\ delivery \in [1..MaxNotes -> Delivery]
    /\ channel \in Channel \cup {None}
    /\ realtime \in BOOLEAN
    /\ mailed \in [1..MaxNotes -> Nat]
    /\ sending \in [Senders -> DispatchCall]
    /\ retry \in JobRun /\ digest \in JobRun
    /\ settings \in Addresses \cup {None}
    /\ crashes \in 0..MaxCrashes

\* ensureDefaultChannels gives a new user their account address, verified.
Init ==
    /\ hour = 0
    /\ notes = <<>>
    /\ delivery = [n \in 1..MaxNotes |-> NoDelivery]
    /\ channel \in IF Addresses = {} THEN {None}
                   ELSE {[address |-> a, active |-> TRUE, verified |-> TRUE, failures |-> 0] : a \in Addresses}
    /\ realtime \in IF Addresses = {} THEN {TRUE} ELSE BOOLEAN
    /\ mailed = [n \in 1..MaxNotes |-> 0]
    /\ sending = [w \in Senders |-> NotSending]
    /\ retry = NoJob
    /\ digest = NoJob
    /\ settings = None
    /\ crashes = 0

----
(* dispatch *)

SendAt(w, point) == sending' = [sending EXCEPT ![w].pc = point]
Returns(w) == sending' = [sending EXCEPT ![w] = [NotSending EXCEPT !.pc = "done"]]

\* dispatch(...) begins; a call without a dedupeKey is not looked up.
Dispatch(w, source, key, window) ==
    sending' = [sending EXCEPT ![w] = [NotSending EXCEPT
        !.pc = IF key = None THEN "rate" ELSE "duplicate",
        !.source = source, !.key = key, !.window = window]]

Since(hours) == {n \in DOMAIN notes : notes[n].at >= hour - hours}

\* isDuplicate: the key, which starts with its source, was used in the window.
Duplicate(w) ==
    /\ sending[w].pc = "duplicate"
    /\ IF \E n \in Since(sending[w].window) :
              notes[n].source = sending[w].source /\ notes[n].key = sending[w].key
       THEN Returns(w) ELSE SendAt(w, "rate")
    /\ UNCHANGED <<hour, notes, delivery, channel, realtime, mailed, jobVars, settings, crashes>>

\* Mutant of RateLimited: one more than the cap.
RateLimitedAbove(w) ==
    /\ sending[w].pc = "rate"
    /\ IF RateCap > 0 /\ Cardinality(Since(1)) > RateCap THEN Returns(w) ELSE SendAt(w, "create")
    /\ UNCHANGED <<hour, notes, delivery, channel, realtime, mailed, jobVars, settings, crashes>>

\* isRateLimited: the user's notifications of the last hour are counted.
RateLimited(w) ==
    /\ sending[w].pc = "rate"
    /\ IF RateCap > 0 /\ Cardinality(Since(1)) >= RateCap THEN Returns(w) ELSE SendAt(w, "create")
    /\ UNCHANGED <<hour, notes, delivery, channel, realtime, mailed, jobVars, settings, crashes>>

\* The inbox row comes before any send.
CreateNote(w) ==
    /\ sending[w].pc = "create"
    /\ Len(notes) < MaxNotes
    /\ notes' = Append(notes, [source |-> sending[w].source, key |-> sending[w].key, at |-> hour])
    /\ sending' = [sending EXCEPT ![w].pc = "targets", ![w].note = Len(notes) + 1]
    /\ UNCHANGED <<hour, delivery, channel, realtime, mailed, jobVars, settings, crashes>>

\* resolveTargets: an active, verified channel that is not parked.
IsActive(chan) == chan # None /\ chan.active

Usable == IsActive(channel) /\ channel.verified /\ channel.failures < ParkAfter

Targets(w) ==
    /\ sending[w].pc = "targets"
    /\ IF Usable THEN sending' = [sending EXCEPT ![w].pc = "hold", ![w].channel = channel] ELSE Returns(w)
    /\ UNCHANGED <<hour, notes, delivery, channel, realtime, mailed, jobVars, settings, crashes>>

\* Mutant of Delivered: an attempt after the first is not counted.
DeliveredUncounted(ns, status) ==
    delivery' = [n \in 1..MaxNotes |->
        IF n \in ns THEN [status |-> status, attempts |-> IF status = "PENDING" THEN 0 ELSE 1] ELSE delivery[n]]

\* Delivery row n gets a status; one attempt more unless it is only held.
Delivered(ns, status) ==
    delivery' = [n \in 1..MaxNotes |->
        IF n \in ns THEN [status |-> status, attempts |-> delivery[n].attempts + (IF status = "PENDING" THEN 0 ELSE 1)]
        ELSE delivery[n]]

\* Without real-time email the delivery is held for the digest.  Its row
\* refers to the channel: when that was removed, dispatch throws.
Hold(w) ==
    /\ sending[w].pc = "hold"
    /\ IF realtime THEN SendAt(w, "send") /\ UNCHANGED delivery
       ELSE /\ Returns(w)
            /\ IF channel # None THEN Delivered({sending[w].note}, "PENDING") ELSE UNCHANGED delivery
    /\ UNCHANGED <<hour, notes, channel, realtime, mailed, jobVars, settings, crashes>>

\* driver.send: one message for all of ns, delivered or refused.
Mail(ns, outcome) ==
    mailed' = IF outcome = "SENT" THEN [n \in 1..MaxNotes |-> IF n \in ns THEN mailed[n] + 1 ELSE mailed[n]]
              ELSE mailed

Send(w) ==
    /\ sending[w].pc = "send"
    /\ \E outcome \in Sends :
           /\ Mail({sending[w].note}, outcome)
           /\ sending' = [sending EXCEPT ![w].pc = "record", ![w].outcome = outcome]
    /\ UNCHANGED <<hour, notes, delivery, channel, realtime, jobVars, settings, crashes>>

\* The outcome is recorded, unless the channel was removed, as above ...
Record(w) ==
    /\ sending[w].pc = "record"
    /\ IF channel # None THEN Delivered({sending[w].note}, sending[w].outcome) /\ SendAt(w, "count")
       ELSE Returns(w) /\ UNCHANGED delivery
    /\ UNCHANGED <<hour, notes, channel, realtime, mailed, jobVars, settings, crashes>>

\* ... and counted on the channel: a success clears its failures.
Count(w) ==
    /\ sending[w].pc = "count"
    /\ channel' = IF channel = None THEN None
                  ELSE [channel EXCEPT !.failures =
                      IF sending[w].outcome = "SENT" THEN 0 ELSE IF @ < ParkAfter THEN @ + 1 ELSE @]
    /\ Returns(w)
    /\ UNCHANGED <<hour, notes, delivery, realtime, mailed, jobVars, settings, crashes>>

\* The caller of dispatch goes on.
Dispatched(w) ==
    /\ sending[w].pc = "done"
    /\ sending' = [sending EXCEPT ![w] = NotSending]
DispatchStep(w) ==
    \/ Duplicate(w) \/ RateLimited(w) \/ Targets(w) \/ Hold(w) \/ Send(w) \/ Record(w) \/ Count(w)

----
(* The jobs of the worker *)

With(status) == {n \in DOMAIN notes : delivery[n].status = status}

\* retryFailedDeliveries reads the failed deliveries with attempts left, each
\* with its channel.
RetryRead ==
    LET todo == {n \in With("FAILED") : delivery[n].attempts < MaxAttempts} IN
    /\ retry.pc = "idle"
    /\ todo # {}
    /\ retry' = [NoJob EXCEPT !.pc = "send", !.todo = todo, !.channel = channel]
    /\ UNCHANGED <<hour, notes, delivery, channel, realtime, mailed, sending, digest, settings, crashes>>

\* One without a channel, or whose channel is off, is skipped ...
RetrySkip(n) ==
    /\ retry.pc = "send" /\ n \in retry.todo
    /\ ~IsActive(retry.channel)
    /\ Delivered({n}, "SKIPPED")
    /\ retry' = IF retry.todo = {n} THEN NoJob ELSE [retry EXCEPT !.todo = @ \ {n}]
    /\ UNCHANGED <<hour, notes, channel, realtime, mailed, sending, digest, settings, crashes>>

\* ... the others are sent ...
RetrySend(n) ==
    /\ retry.pc = "send" /\ n \in retry.todo
    /\ IsActive(retry.channel)
    /\ \E outcome \in Sends :
           /\ Mail({n}, outcome)
           /\ retry' = [retry EXCEPT !.pc = "record", !.note = n, !.outcome = outcome]
    /\ UNCHANGED <<hour, notes, delivery, channel, realtime, sending, digest, settings, crashes>>

\* ... and recorded.
RetryRecord ==
    /\ retry.pc = "record"
    /\ Delivered({retry.note}, retry.outcome)
    /\ retry' = IF retry.todo = {retry.note} THEN NoJob
                ELSE [retry EXCEPT !.pc = "send", !.todo = @ \ {retry.note}]
    /\ UNCHANGED <<hour, notes, channel, realtime, mailed, sending, digest, settings, crashes>>

\* sendDailyDigests reads what is held, with its channel.
DigestRead ==
    /\ digest.pc = "idle"
    /\ With("PENDING") # {}
    /\ digest' = [NoJob EXCEPT !.pc = "send", !.todo = With("PENDING"), !.channel = channel]
    /\ UNCHANGED <<hour, notes, delivery, channel, realtime, mailed, sending, retry, settings, crashes>>

\* Without a usable address all of it is skipped ...
DigestSkip ==
    /\ digest.pc = "send"
    /\ ~(IsActive(digest.channel) /\ digest.channel.verified)
    /\ delivery' = [n \in 1..MaxNotes |->
           IF n \in digest.todo THEN [delivery[n] EXCEPT !.status = "SKIPPED"] ELSE delivery[n]]
    /\ digest' = NoJob
    /\ UNCHANGED <<hour, notes, channel, realtime, mailed, sending, retry, settings, crashes>>

\* ... or all of it is sent in one message ...
DigestSend ==
    /\ digest.pc = "send"
    /\ IsActive(digest.channel) /\ digest.channel.verified
    /\ \E outcome \in Sends :
           /\ Mail(digest.todo, outcome)
           /\ digest' = [digest EXCEPT !.pc = "record", !.outcome = outcome]
    /\ UNCHANGED <<hour, notes, delivery, channel, realtime, sending, retry, settings, crashes>>

\* Mutant of DigestRecord: one delivery of those sent is recorded.
DigestRecordOne ==
    /\ digest.pc = "record"
    /\ Delivered({CHOOSE n \in digest.todo : TRUE}, digest.outcome)
    /\ digest' = NoJob
    /\ UNCHANGED <<hour, notes, channel, realtime, mailed, sending, retry, settings, crashes>>

\* ... and recorded in one statement.
DigestRecord ==
    /\ digest.pc = "record"
    /\ Delivered(digest.todo, digest.outcome)
    /\ digest' = NoJob
    /\ UNCHANGED <<hour, notes, channel, realtime, mailed, sending, retry, settings, crashes>>

RetryStep == RetryRead \/ RetryRecord \/ \E n \in 1..MaxNotes : RetrySkip(n) \/ RetrySend(n)
DigestStep == DigestRead \/ DigestSkip \/ DigestSend \/ DigestRecord

----
(* The user and the rest of the world *)

\* upsert: another address has to be verified first, and is not parked.
ChangeAddress(a) ==
    /\ channel # None
    /\ channel' = [address |-> a, active |-> TRUE, verified |-> FALSE, failures |-> 0]
    /\ UNCHANGED <<hour, notes, delivery, realtime, mailed, sending, jobVars, settings, crashes>>

\* verify: the code is compared with that of the address read here ...
VerifyRead ==
    /\ settings = None
    /\ channel # None /\ ~channel.verified
    /\ settings' = channel.address
    /\ UNCHANGED <<hour, notes, delivery, channel, realtime, mailed, sending, jobVars, crashes>>

\* ... and the channel is marked by id, whatever its address is by now.
VerifyWrite ==
    /\ settings # None
    /\ channel' = IF channel = None THEN None ELSE [channel EXCEPT !.verified = TRUE]
    /\ settings' = None
    /\ UNCHANGED <<hour, notes, delivery, realtime, mailed, sending, jobVars, crashes>>

SetActive(isActive) ==
    /\ channel # None
    /\ channel' = [channel EXCEPT !.active = isActive]
    /\ UNCHANGED <<hour, notes, delivery, realtime, mailed, sending, jobVars, settings, crashes>>

\* remove: the deliveries lose their channel.  (Bound: a removed channel is not
\* made again.)
Remove ==
    /\ channel # None
    /\ channel' = None
    /\ UNCHANGED <<hour, notes, delivery, realtime, mailed, sending, jobVars, settings, crashes>>

ChannelStep ==
    \/ \E a \in Addresses : ChangeAddress(a)
    \/ VerifyRead \/ VerifyWrite
    \/ \E isActive \in BOOLEAN : SetActive(isActive)
    \/ Remove

\* The plan, or the flag REALTIME_ALERTS, changes.  (Without a channel it makes
\* no difference.)
PlanChanges ==
    /\ channel # None
    /\ realtime' = ~realtime
    /\ UNCHANGED <<hour, notes, delivery, channel, mailed, sending, jobVars, settings, crashes>>

\* The clock is for the cap, and a step of Alerts, which has one.
NextHour ==
    /\ hour < MaxHour
    /\ hour' = hour + 1
    /\ UNCHANGED <<notes, delivery, channel, realtime, mailed, sending, jobVars, settings, crashes>>

\* The worker dies, with every dispatch and job in it.
WorkerCrash ==
    /\ crashes < MaxCrashes
    /\ crashes' = crashes + 1
    /\ sending' = [w \in Senders |-> NotSending]
    /\ retry' = NoJob
    /\ digest' = NoJob
    /\ UNCHANGED <<hour, notes, delivery, channel, realtime, mailed, settings>>

----
(* The service on its own: any other service announces something. *)

\* Room for the notifications of the calls in progress and one more.
Room == Len(notes) + Cardinality({w \in Senders : sending[w].pc \in {"duplicate", "rate", "create"}}) < MaxNotes

Announce(w) ==
    /\ sending[w].pc = "idle"
    /\ Room
    /\ \E key \in {None, 0} : Dispatch(w, 0, key, 0)
    /\ UNCHANGED <<hour, notes, delivery, channel, realtime, mailed, jobVars, settings, crashes>>

AnnounceStep(w) ==
    \/ CreateNote(w)
    \/ DispatchStep(w)
    \/ Dispatched(w) /\ UNCHANGED <<hour, notes, delivery, channel, realtime, mailed, jobVars, settings, crashes>>

Next ==
    \/ \E w \in Senders : Announce(w) \/ AnnounceStep(w)
    \/ RetryStep
    \/ DigestStep
    \/ ChannelStep
    \/ PlanChanges
    \/ WorkerCrash

\* The scheduler starts both jobs again and again, and the worker serves them.
Fairness == WF_vars(RetryStep) /\ WF_vars(DigestStep)

Spec == Init /\ [][Next]_vars /\ Fairness

----
(* Properties *)

\* "None stays PENDING, so nothing is sent twice": between dispatch, digest and
\* retry a notification is mailed once, and once more at most for every time
\* the worker dies between a message and its record.
MailedOnce == \A n \in DOMAIN notes : mailed[n] <= 1 + crashes

\* maxPerUserPerHour: the cap is counted before the row is written, so it holds
\* up to the calls that counted at the same time.
RateHolds == RateCap > 0 => Cardinality(Since(1)) <= RateCap + Cardinality(Senders) - 1

\* A delivery that a job still has to look after.
Unsettled(n) ==
    \/ delivery[n].status = "PENDING"
    \/ delivery[n].status = "FAILED" /\ delivery[n].attempts < MaxAttempts

\* "A permanently bad address drains out of the queue instead of being retried
\* forever", and what was held is not forgotten: every delivery is settled.
DeliveriesSettle == \A n \in 1..MaxNotes : Unsettled(n) ~> ~Unsettled(n)

\* "An unverified channel is never delivered to".
OnlyVerifiedIsMailed ==
    \A run \in {retry, digest} \cup {sending[w] : w \in Senders} :
        run.pc = "record" => run.channel.verified
====
