---- MODULE BillingStore ----
(***************************************************************************)
(* The billing tables every payment path shares: plans, subscriptions and  *)
(* the append-only subscription_events log, with the unique indexes that   *)
(* PostgreSQL enforces on them.  A table is a sequence in creation order,  *)
(* so a row's id is its position and the newest row has the largest one.   *)
(* Dates are whole days.                                                   *)
(***************************************************************************)
EXTENDS Integers, Sequences, FiniteSets

CONSTANTS
    Users,      \* customers
    Plans,      \* plan keys
    Interval,   \* intervalDays of each plan; 0 is a plan with no period
    None,       \* the SQL NULL
    MaxTime     \* bound on the clock, in days

ASSUME StoreAssumption ==
    /\ Interval \in [Plans -> Nat]
    /\ MaxTime \in Nat
    /\ None \notin Nat
    /\ None \notin Plans

VARIABLES
    now,           \* the date
    activePlans,   \* plans whose isActive is true
    subs,          \* table subscriptions
    events         \* table subscription_events

storeVars == <<now, activePlans, subs, events>>

\* ENTITLING_STATUSES: the statuses that still grant access.
Entitling == {"TRIALING", "ACTIVE", "PAST_DUE"}

\* The statuses of the partial index subscriptions_one_live_per_user.
Indexed == Entitling \cup {"INCOMPLETE"}

SubscriptionStatus == Indexed \cup {"CANCELED", "EXPIRED"}

Providers == {"wallet", "paymob", "mock", "stripe", "manual", "system"}

EventTypes == {"wallet_payment", "gateway_payment", "stripe_sync", "manual_grant",
               "canceled", "cancel_scheduled", "expired", "payment_failed"}

Subscription ==
    [user     : Users,
     plan     : Plans,
     status   : SubscriptionStatus,
     provider : Providers,
     psid     : Nat \cup {None},     \* providerSubscriptionId
     end      : Nat \cup {None},     \* currentPeriodEnd
     atEnd    : BOOLEAN,             \* cancelAtPeriodEnd
     reminded : BOOLEAN]             \* renewalReminderSentAt is set

SubscriptionEvent ==
    [sub      : Nat,
     type     : EventTypes,
     provider : Providers,
     id       : Nat \cup {None}]     \* providerEventId

StoreType ==
    /\ now \in Nat
    /\ activePlans \in SUBSET Plans
    /\ subs \in Seq(Subscription)
    /\ events \in Seq(SubscriptionEvent)

StoreInit ==
    /\ now = 0
    /\ activePlans = Plans
    /\ subs = <<>>
    /\ events = <<>>

----
(* Queries *)

\* The rows of user u that still grant access.
LiveRows(u) == {i \in DOMAIN subs : subs[i].user = u /\ subs[i].status \in Entitling}

\* getActiveForUser: the newest entitling row of u, 0 when there is none.
ActiveRow(u) ==
    IF LiveRows(u) = {} THEN 0
    ELSE CHOOSE i \in LiveRows(u) : \A j \in LiveRows(u) : j <= i

\* Mutant of Seen: events are neither looked up nor unique.
NeverSeen(provider, id) == FALSE

\* Has this provider event been applied already?
Seen(provider, id) ==
    id # None /\ \E e \in DOMAIN events : events[e].provider = provider /\ events[e].id = id

----
(* Unique indexes, as predicates on the contents a write would leave. *)

\* subscriptions_one_live_per_user
OneLivePerUser(table) ==
    \A i, j \in DOMAIN table :
        /\ table[i].user = table[j].user
        /\ table[i].status \in Indexed
        /\ table[j].status \in Indexed
        => i = j

\* providerSubscriptionId @unique: NULLs never collide
ProviderSubscriptionOnce(table) ==
    \A i, j \in DOMAIN table : table[i].psid = table[j].psid /\ table[i].psid # None => i = j

\* @@unique([provider, providerEventId]) on subscription_events
EventIdFree(provider, id) == ~Seen(provider, id)

----
(* The environment of the tables *)

\* A day passes.
NextDay ==
    /\ now < MaxTime
    /\ now' = now + 1
    /\ UNCHANGED <<activePlans, subs, events>>

\* adminUpdate sets a plan's isActive.
AdminUpdate(plan, isActive) ==
    /\ activePlans' = IF isActive THEN activePlans \cup {plan} ELSE activePlans \ {plan}
    /\ UNCHANGED <<now, subs, events>>
====
