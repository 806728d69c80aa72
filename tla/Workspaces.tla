---- MODULE Workspaces ----
(***************************************************************************)
(* OrganizationsService and InvitesService, for one workspace.             *)
(*                                                                         *)
(* A request runs in req[p], one await at a time: the seats are counted in *)
(* two queries side by side, and what follows acts on what was read.  Only *)
(* accepting an invitation is a transaction.  An invitation is for the     *)
(* account of one user; the plan of the owner gives the seats.             *)
(***************************************************************************)
EXTENDS Integers, Sequences, FiniteSets

CONSTANTS
    Absent,
    Requests,     \* concurrent requests
    Owner,        \* who created the workspace
    Users,        \* everybody else
    Roles,        \* roles below the owner's: MEMBER and ADMIN
    Seats,        \* the seats of the owner's plan
    MaxInvites    \* bound on the invitations

ASSUME WorkspaceAssumption ==
    /\ IsFiniteSet(Users) /\ IsFiniteSet(Requests)
    /\ Owner \notin Users /\ Absent \notin Users \cup {"OWNER", "MEMBER", "ADMIN"} \cup Nat
    /\ Roles \subseteq {"MEMBER", "ADMIN"}
    /\ Seats \in Nat /\ MaxInvites \in Nat

VARIABLES
    members,   \* table organization_members: the role of a user, Absent for no row
    invites,   \* table organization_invites
    joins,     \* joins[i]: how often invitation i made somebody join
    req        \* req[p]: the request in progress

workspaceVars == <<members, invites, joins, req>>

Everybody == Users \cup {Owner}
InviteIds == 1..MaxInvites

Invite == [email : Users, role : Roles, accepted : BOOLEAN, revoked : BOOLEAN, expired : BOOLEAN]

NoReq == [op |-> "none", pc |-> "idle", user |-> Absent, role |-> Absent, invite |-> 0,
              replaces |-> 0, members |-> Absent, open |-> Absent]

Request == [op : {"none", "invite", "add", "accept", "remove"},
            pc : {"idle", "member", "open", "seats", "revoke", "create", "existing", "upsert", "claim", "delete"},
            user : Users \cup {Owner, Absent}, role : Roles \cup {Absent},
            invite : 0..MaxInvites, replaces : 0..MaxInvites,
            members : Nat \cup {Absent}, open : Nat \cup {Absent}]

WorkspaceType ==
    /\ members \in [Everybody -> Roles \cup {"OWNER", Absent}]
    /\ invites \in Seq(Invite) /\ Len(invites) <= MaxInvites
    /\ joins \in [InviteIds -> Nat]
    /\ req \in [Requests -> Request]

\* create: the workspace with its owner.
WorkspaceInit ==
    /\ members = [u \in Everybody |-> IF u = Owner THEN "OWNER" ELSE Absent]
    /\ invites = <<>>
    /\ joins = [i \in InviteIds |-> 0]
    /\ req = [p \in Requests |-> NoReq]

ReqAt(p, point) == req[p].pc = point
ReqGoes(p, point) == req' = [req EXCEPT ![p].pc = point]
ReqEnds(p) == req' = [req EXCEPT ![p] = NoReq]

Members == {u \in Everybody : members[u] # Absent}

\* acceptedAt and revokedAt are null and expiresAt is to come.
Open == {i \in DOMAIN invites : ~invites[i].accepted /\ ~invites[i].revoked /\ ~invites[i].expired}

----
(* Seats *)

\* requireMembership(ADMIN): some administrator is there to ask; the owner is.
ReqBegins(p, request) ==
    /\ ReqAt(p, "idle")
    /\ req' = [req EXCEPT ![p] = request]
    /\ UNCHANGED <<members, invites, joins>>

\* assertSeatAvailable counts the members and the open invitations, leaving
\* out the one to be replaced.
CountMembers(p) ==
    /\ ReqAt(p, "seats") /\ req[p].members = Absent
    /\ req' = [req EXCEPT ![p].members = Cardinality(Members)]
    /\ UNCHANGED <<members, invites, joins>>

CountInvites(p) ==
    /\ ReqAt(p, "seats") /\ req[p].open = Absent
    /\ req' = [req EXCEPT ![p].open = Cardinality(Open \ {req[p].replaces})]
    /\ UNCHANGED <<members, invites, joins>>

SeatFree(p) == req[p].members + req[p].open < Seats

\* Mutant of SeatsCounted: an open invitation holds no seat.
SeatsOfMembers(p) ==
    /\ ReqAt(p, "seats") /\ req[p].members # Absent /\ req[p].open # Absent
    /\ IF req[p].members < Seats THEN ReqGoes(p, IF req[p].op = "invite" THEN "revoke" ELSE "existing") ELSE ReqEnds(p)
    /\ UNCHANGED <<members, invites, joins>>

SeatsCounted(p) ==
    /\ ReqAt(p, "seats") /\ req[p].members # Absent /\ req[p].open # Absent
    /\ IF SeatFree(p) THEN ReqGoes(p, IF req[p].op = "invite" THEN "revoke" ELSE "existing") ELSE ReqEnds(p)
    /\ UNCHANGED <<members, invites, joins>>

----
(* Invitations *)

\* (Bound: MaxInvites.)
InviteBegins(p, user, role) ==
    /\ Len(invites) + Cardinality({q \in Requests : req[q].op = "invite"}) < MaxInvites
    /\ ReqBegins(p, [NoReq EXCEPT !.op = "invite", !.pc = "member", !.user = user, !.role = role])

\* Somebody who is a member already is not invited.
InviteMember(p) ==
    /\ ReqAt(p, "member")
    /\ IF req[p].user \in Members THEN ReqEnds(p) ELSE ReqGoes(p, "open")
    /\ UNCHANGED <<members, invites, joins>>

\* "Re-inviting replaces the open invitation": any open one of that email.
InviteOpen(p) ==
    LET mine == {i \in Open : invites[i].email = req[p].user} IN
    /\ ReqAt(p, "open")
    /\ \E i \in IF mine = {} THEN {0} ELSE mine :
           req' = [req EXCEPT ![p].pc = "seats", ![p].replaces = i]
    /\ UNCHANGED <<members, invites, joins>>

\* It is revoked by id ...
InviteReplaces(p) ==
    /\ ReqAt(p, "revoke")
    /\ invites' = [i \in DOMAIN invites |-> [invites[i] EXCEPT !.revoked = @ \/ i = req[p].replaces]]
    /\ ReqGoes(p, "create")
    /\ UNCHANGED <<members, joins>>

\* ... and the new one is created.
InviteCreated(p) ==
    /\ ReqAt(p, "create")
    /\ invites' = Append(invites, [email |-> req[p].user, role |-> req[p].role,
                                   accepted |-> FALSE, revoked |-> FALSE, expired |-> FALSE])
    /\ ReqEnds(p)
    /\ UNCHANGED <<members, joins>>

\* revoke: conditional, in one statement.
RevokeInvite(i) ==
    /\ ~invites[i].accepted /\ ~invites[i].revoked
    /\ invites' = [invites EXCEPT ![i].revoked = TRUE]
    /\ UNCHANGED <<members, joins, req>>

Expire(i) ==
    /\ ~invites[i].expired
    /\ invites' = [invites EXCEPT ![i].expired = TRUE]
    /\ UNCHANGED <<members, joins, req>>

\* accept: findOpen, for a user whose email is that of the invitation ...
AcceptBegins(p, i) ==
    /\ i \in Open
    /\ ReqBegins(p, [NoReq EXCEPT !.op = "accept", !.pc = "claim", !.user = invites[i].email, !.invite = i])

Join(p) ==
    LET i == req[p].invite IN
    /\ invites' = [invites EXCEPT ![i].accepted = TRUE]
    /\ members' = [members EXCEPT ![req[p].user] = IF @ = Absent THEN invites[i].role ELSE @]
    /\ joins' = [joins EXCEPT ![i] = @ + 1]

\* Mutant of AcceptInvite: the claim is by id.
AcceptById(p) == ReqAt(p, "claim") /\ Join(p) /\ ReqEnds(p)

\* ... and the transaction: the claim and the membership, whose role stays
\* when there is one.
AcceptInvite(p) ==
    /\ ReqAt(p, "claim")
    /\ IF invites[req[p].invite].accepted \/ invites[req[p].invite].revoked
       THEN UNCHANGED <<members, invites, joins>> ELSE Join(p)
    /\ ReqEnds(p)

----
(* Members *)

\* addMember: the seat comes first, for somebody who has one too.
AddBegins(p, user, role) ==
    ReqBegins(p, [NoReq EXCEPT !.op = "add", !.pc = "seats", !.user = user, !.role = role])

\* Mutant of AddExisting: the owner is not looked for.
AddAnybody(p) == ReqAt(p, "existing") /\ ReqGoes(p, "upsert") /\ UNCHANGED <<members, invites, joins>>

\* The owner's role is not changed ...
AddExisting(p) ==
    /\ ReqAt(p, "existing")
    /\ IF members[req[p].user] = "OWNER" THEN ReqEnds(p) ELSE ReqGoes(p, "upsert")
    /\ UNCHANGED <<members, invites, joins>>

\* ... the others get the role.
AddUpsert(p) ==
    /\ ReqAt(p, "upsert")
    /\ members' = [members EXCEPT ![req[p].user] = req[p].role]
    /\ ReqEnds(p)
    /\ UNCHANGED <<invites, joins>>

\* removeMember reads the row, which is not the owner's, and deletes it by id;
\* the second of two such deletes throws.
RemoveBegins(p, user) ==
    /\ members[user] \in Roles
    /\ ReqBegins(p, [NoReq EXCEPT !.op = "remove", !.pc = "delete", !.user = user])

RemoveMember(p) ==
    /\ ReqAt(p, "delete")
    /\ members' = [members EXCEPT ![req[p].user] = Absent]
    /\ req' = [q \in Requests |-> IF ReqAt(q, "delete") /\ req[q].user = req[p].user THEN NoReq ELSE req[q]]
    /\ UNCHANGED <<invites, joins>>

RequestStep(p) ==
    \/ CountMembers(p) \/ CountInvites(p) \/ SeatsCounted(p)
    \/ \E user \in Users, role \in Roles : InviteBegins(p, user, role)
    \/ InviteMember(p) \/ InviteOpen(p) \/ InviteReplaces(p) \/ InviteCreated(p)
    \/ \E i \in DOMAIN invites : AcceptBegins(p, i)
    \/ AcceptInvite(p)
    \/ \E user \in Everybody, role \in Roles : AddBegins(p, user, role)
    \/ AddExisting(p) \/ AddUpsert(p)
    \/ \E user \in Users : RemoveBegins(p, user)
    \/ RemoveMember(p)

WorkspaceNext ==
    \/ \E p \in Requests : RequestStep(p)
    \/ \E i \in DOMAIN invites : RevokeInvite(i) \/ Expire(i)

WorkspaceSpec == WorkspaceInit /\ [][WorkspaceNext]_workspaceVars

----
(* Properties *)

\* "An open invitation holds a seat": the members, and the people who may still
\* become one, exceed the plan by no more than the requests that counted at the
\* same time and the acceptances that a count of members came too early for,
\* and the count of invitations too late.
SeatsHold ==
    Cardinality(Members \cup {invites[i].email : i \in Open})
        <= Seats + Cardinality(Requests) - 1 + Cardinality({i \in DOMAIN invites : invites[i].accepted})

\* "Two clicks cannot join twice": an invitation makes somebody join once, even
\* when the member is removed again before the second click is through.
InviteUsedOnce == \A i \in InviteIds : joins[i] <= 1

\* "A workspace has exactly one owner", who keeps it whatever the administrators
\* do at the same time.
OneOwner == {u \in Everybody : members[u] = "OWNER"} = {Owner}

\* "Already a member (added by hand meanwhile): keep the higher role": an
\* administrator by invitation is no plain member afterwards.
HigherRoleKept ==
    [][\A i \in InviteIds : joins'[i] # joins[i] /\ invites[i].role = "ADMIN"
            => members'[invites[i].email] # "MEMBER"]_workspaceVars
====
