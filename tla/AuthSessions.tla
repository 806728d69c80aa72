---- MODULE AuthSessions ----
(***************************************************************************)
(* AuthService for one user, and the website's API client that uses it.    *)
(*                                                                         *)
(* A session is one refresh token, good for one refresh: the refresh       *)
(* revokes it (rotates) and creates its successor.  The tabs of a browser  *)
(* share its cookies, which name a session; each tab has its own client,   *)
(* which refreshes once at a time, so call[t] is the call in progress of   *)
(* tab t, one await at a time.  A reply may be lost on the way back.  The  *)
(* clock counts in REFRESH_REUSE_GRACE_MS: what was rotated at an earlier  *)
(* tick is past the grace window.                                          *)
(***************************************************************************)
EXTENDS Integers, Sequences, FiniteSets

CONSTANTS
    Never,
    Tabs,
    Browser,       \* Browser[t]: the browser of tab t
    Keep,          \* sessions kept when a new one is created (5 in the code)
    Ttl,           \* ticks that a refresh token lives
    MaxSessions,   \* bound on the sessions
    MaxClock,      \* bound on the clock
    MaxLost        \* bound on the replies that are lost

ASSUME SessionAssumption ==
    /\ IsFiniteSet(Tabs)
    /\ Keep \in Nat \ {0} /\ Ttl \in Nat \ {0}
    /\ MaxSessions \in Nat /\ MaxClock \in Nat /\ MaxLost \in Nat

VARIABLES
    clock,
    sessions,   \* table sessions, in the order of createdAt
    jar,        \* jar[b]: the session in the cookies of browser b, 0 without cookies
    call,       \* call[t]: the call in progress of tab t
    lost        \* browsers that missed a reply, and how many were lost

sessionVars == <<clock, sessions, jar, call, lost>>

Ids == 1..MaxSessions
Browsers == {Browser[t] : t \in Tabs}

\* parent is the session that was rotated for this one, 0 after a sign-in.
Session == [revoked : BOOLEAN, rotated : 0..MaxClock \cup {Never}, at : 0..MaxClock, parent : 0..MaxSessions]

NoCall == [pc |-> "idle", token |-> 0, new |-> 0, doomed |-> {}]

Call == [pc : {"idle", "find", "reuse", "rotate", "create", "list", "prune", "reply",
               "denied", "logout", "logoutAll", "cleared"},
         token : 0..MaxSessions, new : 0..MaxSessions, doomed : SUBSET Ids]

SessionsType ==
    /\ clock \in 0..MaxClock
    /\ sessions \in Seq(Session) /\ Len(sessions) <= MaxSessions
    /\ jar \in [Browsers -> 0..MaxSessions]
    /\ call \in [Tabs -> Call]
    /\ lost \in [browsers : SUBSET Browsers, count : 0..MaxLost]

SessionsInit ==
    /\ clock = 0
    /\ sessions = <<>>
    /\ jar = [b \in Browsers |-> 0]
    /\ call = [t \in Tabs |-> NoCall]
    /\ lost = [browsers |-> {}, count |-> 0]

Live == {s \in DOMAIN sessions : ~sessions[s].revoked}
Expired(s) == clock - sessions[s].at >= Ttl

CallAt(t, point) == call[t].pc = point
CallGoes(t, point) == call' = [call EXCEPT ![t].pc = point]
CallBegins(t, point) == CallAt(t, "idle") /\ call' = [call EXCEPT ![t] = [NoCall EXCEPT !.pc = point, !.token = jar[Browser[t]]]]

\* Bound: room for the sessions of the calls in progress and one more.
SessionRoom == Len(sessions) + Cardinality({t \in Tabs : call[t].pc \in {"find", "rotate", "create"}}) < MaxSessions

----
(* Sign-in and refresh *)

\* login and register, once the password was checked or the account made.
SignIn(t) ==
    /\ CallAt(t, "idle") /\ SessionRoom
    /\ call' = [call EXCEPT ![t] = [NoCall EXCEPT !.pc = "create"]]
    /\ UNCHANGED <<clock, sessions, jar, lost>>

\* refreshSession: a call was answered 401, for instance because its access
\* token is past its 15 minutes, and there are cookies.
Refresh(t) ==
    /\ SessionRoom
    /\ jar[Browser[t]] # 0
    /\ CallBegins(t, "find")
    /\ UNCHANGED <<clock, sessions, jar, lost>>

\* The session of the token is read: rotated before the grace window it is
\* taken for a copied token, otherwise it is refused or rotated.
Find(t) ==
    LET s == sessions[call[t].token] IN
    /\ CallAt(t, "find")
    /\ CallGoes(t, IF s.revoked THEN IF s.rotated # Never /\ s.rotated < clock THEN "reuse" ELSE "denied"
             ELSE IF Expired(call[t].token) THEN "denied" ELSE "rotate")
    /\ UNCHANGED <<clock, sessions, jar, lost>>

Revoke(S) == sessions' = [s \in DOMAIN sessions |-> [sessions[s] EXCEPT !.revoked = @ \/ s \in S]]

\* "Ending every session is the only way to cut the copy off."
Reuse(t) ==
    /\ CallAt(t, "reuse")
    /\ Revoke(Live)
    /\ CallGoes(t, "denied")
    /\ UNCHANGED <<clock, jar, lost>>

Spend(s) == sessions' = [sessions EXCEPT ![s].revoked = TRUE, ![s].rotated = clock]

\* Mutant of Rotate: the update is by id.
RotateById(t) ==
    /\ CallAt(t, "rotate")
    /\ Spend(call[t].token) /\ CallGoes(t, "create")
    /\ UNCHANGED <<clock, jar, lost>>

\* The conditional update: of concurrent refreshes one goes on.
Rotate(t) ==
    LET s == call[t].token IN
    /\ CallAt(t, "rotate")
    /\ IF sessions[s].revoked THEN CallGoes(t, "denied") /\ UNCHANGED sessions
       ELSE Spend(s) /\ CallGoes(t, "create")
    /\ UNCHANGED <<clock, jar, lost>>

\* Mutant of Create: the end of the session for its beginning.
CreateExpiring(t) ==
    /\ CallAt(t, "create")
    /\ sessions' = Append(sessions, [revoked |-> FALSE, rotated |-> Never, at |-> clock + Ttl, parent |-> call[t].token])
    /\ call' = [call EXCEPT ![t].pc = "list", ![t].new = Len(sessions) + 1]
    /\ UNCHANGED <<clock, jar, lost>>

\* createSessionAndTokens: the row ...
Create(t) ==
    /\ CallAt(t, "create")
    /\ sessions' = Append(sessions, [revoked |-> FALSE, rotated |-> Never, at |-> clock, parent |-> call[t].token])
    /\ call' = [call EXCEPT ![t].pc = "list", ![t].new = Len(sessions) + 1]
    /\ UNCHANGED <<clock, jar, lost>>

Newer(s) == {r \in Live : r > s}

\* ... the sessions to keep, newest first, are read ...
List(t) ==
    LET doomed == {s \in Live : Cardinality(Newer(s)) >= Keep} IN
    /\ CallAt(t, "list")
    /\ call' = [call EXCEPT ![t].pc = IF doomed = {} THEN "reply" ELSE "prune", ![t].doomed = doomed]
    /\ UNCHANGED <<clock, sessions, jar, lost>>

\* Mutant of Prune: one of them is revoked.
PruneOne(t) ==
    /\ CallAt(t, "prune")
    /\ Revoke({CHOOSE s \in call[t].doomed : TRUE})
    /\ call' = [call EXCEPT ![t].pc = "reply", ![t].doomed = {}]
    /\ UNCHANGED <<clock, jar, lost>>

\* ... and the others revoked, by id.
Prune(t) ==
    /\ CallAt(t, "prune")
    /\ Revoke(call[t].doomed)
    /\ call' = [call EXCEPT ![t].pc = "reply", ![t].doomed = {}]
    /\ UNCHANGED <<clock, jar, lost>>

CallEnds(t) == call' = [call EXCEPT ![t] = NoCall]

\* Mutant of Reply: the tokens of a refresh are in the body only.
ReplyWithoutCookies(t) ==
    /\ CallAt(t, "reply")
    /\ jar' = [jar EXCEPT ![Browser[t]] = IF call[t].token = 0 THEN call[t].new ELSE @]
    /\ CallEnds(t)
    /\ UNCHANGED <<clock, sessions, lost>>

\* respond: the reply sets the cookies of the whole browser.
Reply(t) ==
    /\ CallAt(t, "reply")
    /\ jar' = [jar EXCEPT ![Browser[t]] = call[t].new]
    /\ CallEnds(t)
    /\ UNCHANGED <<clock, sessions, lost>>

\* A 401 leaves the cookies; the tab goes to the sign-in page and back.
Denied(t) == CallAt(t, "denied") /\ CallEnds(t) /\ UNCHANGED <<clock, sessions, jar, lost>>

----
(* Sign-out *)

\* The guard on both calls is validateJwtUser: the session is live.
LogoutBegins(t) ==
    /\ jar[Browser[t]] \in Live /\ ~Expired(jar[Browser[t]])
    /\ \E point \in {"logout", "logoutAll"} : CallBegins(t, point)
    /\ UNCHANGED <<clock, sessions, jar, lost>>

\* logout ends the session of the caller, logoutAll every one there is.
Logout(t) ==
    /\ call[t].pc \in {"logout", "logoutAll"}
    /\ Revoke(IF CallAt(t, "logout") THEN {call[t].token} ELSE Live)
    /\ CallGoes(t, "cleared")
    /\ UNCHANGED <<clock, jar, lost>>

\* clearAuthCookies.
Cleared(t) ==
    /\ CallAt(t, "cleared")
    /\ jar' = [jar EXCEPT ![Browser[t]] = 0]
    /\ CallEnds(t)
    /\ UNCHANGED <<clock, sessions, lost>>

\* A reply is lost: the cookies stay as they are.
LoseReply(t) ==
    /\ call[t].pc \in {"reply", "cleared"}
    /\ lost.count < MaxLost
    /\ lost' = [browsers |-> lost.browsers \cup {Browser[t]}, count |-> lost.count + 1]
    /\ CallEnds(t)
    /\ UNCHANGED <<clock, sessions, jar>>

Tick ==
    /\ clock < MaxClock
    /\ clock' = clock + 1
    /\ UNCHANGED <<sessions, jar, call, lost>>

TabStep(t) ==
    \/ SignIn(t) \/ Refresh(t) \/ Find(t) \/ Reuse(t) \/ Rotate(t) \/ Create(t) \/ List(t) \/ Prune(t)
    \/ Reply(t) \/ Denied(t) \/ LogoutBegins(t) \/ Logout(t) \/ Cleared(t) \/ LoseReply(t)

SessionsNext == Tick \/ \E t \in Tabs : TabStep(t)

SessionsSpec == SessionsInit /\ [][SessionsNext]_sessionVars

----
(* Properties *)

\* "Two concurrent refreshes cannot both succeed and fork the session": what
\* was rotated has one successor, or none when the reply of the database or a
\* sign-out came in between.
OneSuccessor ==
    \A r, s \in DOMAIN sessions :
        sessions[r].parent # 0 /\ sessions[r].parent = sessions[s].parent => r = s

\* "Keep last 5": once the calls that create sessions are through, no more than
\* that are live, whatever the order in which they listed and revoked.
FewLive ==
    Cardinality(Live) <= Keep + Cardinality({t \in Tabs : call[t].pc \in {"list", "prune"}})

\* A browser that got every reply and waits for none never holds a token that
\* was spent, however its tabs raced: its next refresh is no reuse.
CookiesUnspent ==
    \A b \in Browsers :
        (b \notin lost.browsers /\ jar[b] # 0 /\ \A t \in Tabs : Browser[t] = b => CallAt(t, "idle"))
            => sessions[jar[b]].rotated = Never

\* "A rotated token coming back after the grace window means two parties hold
\* it": no browser gives its token away here, so none should be taken for a copy.
ReuseMeansTwoHolders == \A t \in Tabs : ~CallAt(t, "reuse")
====
