---- MODULE AccountsProofs ----
(***************************************************************************)
(* Proofs about Workspaces and AuthSessions.  Workspaces: for any number   *)
(* of requests, users and invitations at once, an invitation makes nobody  *)
(* join twice, the workspace keeps its one owner, and its seats hold but   *)
(* for what requests that counted at the same time add.  AuthSessions: for *)
(* any number of browsers, tabs, lost replies and sessions, a session does *)
(* not fork, no more are live than are kept and are being counted, and a   *)
(* browser that got its replies holds a token that is good.                *)
(***************************************************************************)
EXTENDS MCAccounts, FiniteSetTheorems, SequenceTheorems, WellFoundedInduction, TLAPS

----
(* Workspaces: what a request relies on at each of its points *)

ReqFits(r, table) ==
    /\ r.pc \in {"member", "open", "revoke", "create"} => r.op = "invite"
    /\ r.op = "invite" => r.user \in Users
    /\ r.op # "none" /\ r.op # "accept" /\ r.op # "remove" => r.user \in Everybody /\ r.role \in Roles
    /\ r.pc \in {"seats", "existing", "upsert"} => r.op \in {"invite", "add"}
    /\ r.pc = "upsert" => r.user # Owner
    /\ r.pc = "claim" => r.invite \in DOMAIN table /\ r.user \in Users
    /\ r.pc = "delete" => r.user \in Users

ReqsFit(requests, table) == \A p \in Requests : ReqFits(requests[p], table)

\* Only the owner's row says OWNER.
OwnerAlone(rows) == rows[Owner] = "OWNER" /\ \A u \in Users : rows[u] # "OWNER"

\* An invitation that made somebody join is there and accepted.
JoinsFit(table, count) ==
    \A i \in InviteIds : count[i] = 0 \/ (count[i] = 1 /\ i \in DOMAIN table /\ table[i].accepted)

Inviting(requests) == {q \in Requests : requests[q].op = "invite"}

InviteRoom(requests, table) == Len(table) + Cardinality(Inviting(requests)) <= MaxInvites

WorkspaceInd ==
    /\ WorkspaceType
    /\ ReqsFit(req, invites)
    /\ OwnerAlone(members)
    /\ JoinsFit(invites, joins)
    /\ InviteRoom(req, invites)

LEMMA WorkspaceInitInd ==
  ASSUME WorkspaceInit
  PROVE  WorkspaceInd
  <1>1. invites = <<>> /\ invites \in Seq(Invite) /\ Len(invites) = 0
    BY DEF WorkspaceInit
  <1>2. \A p \in Requests : req[p] = NoReq
    BY DEF WorkspaceInit
  <1>3. NoReq \in Request
    BY WorkspaceAssumption DEF NoReq, Request
  <1>4. WorkspaceType
    BY <1>1, <1>3, WorkspaceAssumption DEF WorkspaceInit, WorkspaceType, Everybody
  <1>5. ReqsFit(req, invites)
    BY <1>2 DEF ReqsFit, ReqFits, NoReq
  <1>6. OwnerAlone(members) /\ JoinsFit(invites, joins)
    BY WorkspaceAssumption DEF WorkspaceInit, OwnerAlone, JoinsFit, Everybody
  <1>7. Inviting(req) = {}
    BY <1>2 DEF Inviting, NoReq
  <1>8. InviteRoom(req, invites)
    BY <1>1, <1>7, FS_EmptySet, WorkspaceAssumption DEF InviteRoom
  <1> QED
    BY <1>4, <1>5, <1>6, <1>8 DEF WorkspaceInd

LEMMA InvitingFinite ==
  ASSUME NEW requests
  PROVE  IsFiniteSet(Inviting(requests)) /\ Cardinality(Inviting(requests)) \in Nat
  <1>1. Inviting(requests) \subseteq Requests
    BY DEF Inviting
  <1> QED
    BY <1>1, FS_Subset, FS_CardinalityType, WorkspaceAssumption

\* Fewer requests that invite leave the room there is.
LEMMA FewerInviting ==
  ASSUME NEW requests, NEW after, Inviting(after) \subseteq Inviting(requests)
  PROVE  Cardinality(Inviting(after)) <= Cardinality(Inviting(requests))
  BY InvitingFinite, FS_Subset

\* A request that only moves, or begins without inviting.
LEMMA RequestMoves ==
  ASSUME WorkspaceInd, NEW p \in Requests, NEW r \in Request, ReqFits(r, invites),
         r.op = "invite" => req[p].op = "invite",
         req' = [req EXCEPT ![p] = r], UNCHANGED <<members, invites, joins>>
  PROVE  WorkspaceInd'
  <1>1. WorkspaceType'
    BY DEF WorkspaceInd, WorkspaceType
  <1>2. req'[p] = r /\ \A q \in Requests \ {p} : req'[q] = req[q]
    BY DEF WorkspaceInd, WorkspaceType
  <1>3. ReqsFit(req, invites)'
    BY <1>2 DEF WorkspaceInd, ReqsFit
  <1>4. Inviting(req') \subseteq Inviting(req)
    BY <1>2 DEF Inviting
  <1>5. InviteRoom(req, invites)'
    <2>1. Len(invites) \in Nat
      BY DEF WorkspaceInd, WorkspaceType
    <2>2. Cardinality(Inviting(req')) <= Cardinality(Inviting(req))
      BY <1>4, FewerInviting
    <2>3. Cardinality(Inviting(req')) \in Nat /\ Cardinality(Inviting(req)) \in Nat
      BY InvitingFinite
    <2> QED
      BY <2>1, <2>2, <2>3, WorkspaceAssumption DEF WorkspaceInd, InviteRoom
  <1> QED
    BY <1>1, <1>3, <1>5 DEF WorkspaceInd, OwnerAlone, JoinsFit

LEMMA NoReqFits ==
  ASSUME NEW table
  PROVE  NoReq \in Request /\ ReqFits(NoReq, table) /\ NoReq.op # "invite"
  BY WorkspaceAssumption DEF NoReq, Request, ReqFits

LEMMA RequestEnds ==
  ASSUME WorkspaceInd, NEW p \in Requests, ReqEnds(p), UNCHANGED <<members, invites, joins>>
  PROVE  WorkspaceInd'
  BY NoReqFits, RequestMoves DEF ReqEnds

LEMMA RequestGoes ==
  ASSUME WorkspaceInd, NEW p \in Requests, NEW point, ReqGoes(p, point),
         [req[p] EXCEPT !.pc = point] \in Request, ReqFits([req[p] EXCEPT !.pc = point], invites),
         UNCHANGED <<members, invites, joins>>
  PROVE  WorkspaceInd'
  <1>1. req' = [req EXCEPT ![p] = [req[p] EXCEPT !.pc = point]]
    BY DEF ReqGoes
  <1>2. [req[p] EXCEPT !.pc = point].op = req[p].op
    BY DEF WorkspaceInd, WorkspaceType, Request
  <1> QED
    BY <1>1, <1>2, RequestMoves

LEMMA FiniteWorkspace ==
  ASSUME WorkspaceType
  PROVE  /\ Cardinality(Members) \in Nat
         /\ \A i : Cardinality(Open \ {i}) \in Nat
         /\ DOMAIN invites = 1..Len(invites) /\ Len(invites) \in Nat /\ Open \subseteq DOMAIN invites
         /\ DOMAIN invites \subseteq InviteIds
  <1>1. IsFiniteSet(Everybody)
    <2>1. IsFiniteSet(Users \cup {Owner})
      BY FS_AddElement, WorkspaceAssumption
    <2> QED
      BY <2>1 DEF Everybody
  <1>2. Members \subseteq Everybody
    BY DEF Members
  <1>3. DOMAIN invites = 1..Len(invites) /\ Len(invites) \in Nat
    BY DEF WorkspaceType
  <1>4. IsFiniteSet(1..Len(invites))
    BY <1>3, FS_Interval
  <1>5. Open \subseteq 1..Len(invites)
    BY <1>3 DEF Open
  <1>6. ASSUME NEW i PROVE Cardinality(Open \ {i}) \in Nat
    <2>1. Open \ {i} \subseteq 1..Len(invites)
      BY <1>5
    <2> QED
      BY <2>1, <1>4, FS_Subset, FS_CardinalityType
  <1>7. DOMAIN invites \subseteq InviteIds
    BY <1>3, WorkspaceAssumption DEF WorkspaceType, InviteIds
  <1> QED
    BY <1>1, <1>2, <1>3, <1>5, <1>6, <1>7, FS_Subset, FS_CardinalityType

LEMMA CountingInd ==
  ASSUME WorkspaceInd, NEW p \in Requests, CountMembers(p) \/ CountInvites(p)
  PROVE  WorkspaceInd'
  <1> USE DEF ReqAt
  <1>0. req[p] \in Request /\ ReqFits(req[p], invites)
    BY DEF WorkspaceInd, WorkspaceType, ReqsFit
  <1>1. ASSUME CountMembers(p) PROVE WorkspaceInd'
    <2> DEFINE r == [req[p] EXCEPT !.members = Cardinality(Members)]
    <2>1. r \in Request
      BY <1>0, FiniteWorkspace DEF WorkspaceInd, Request
    <2>2. r.pc = req[p].pc /\ r.op = req[p].op /\ r.user = req[p].user /\ r.role = req[p].role /\ r.invite = req[p].invite
      BY <1>0 DEF Request
    <2>3. ReqFits(r, invites)
      BY <1>0, <2>2 DEF ReqFits
    <2> QED
      BY <1>1, <2>1, <2>2, <2>3, RequestMoves DEF CountMembers
  <1>2. ASSUME CountInvites(p) PROVE WorkspaceInd'
    <2> DEFINE r == [req[p] EXCEPT !.open = Cardinality(Open \ {req[p].replaces})]
    <2>1. r \in Request
      BY <1>0, FiniteWorkspace DEF WorkspaceInd, Request
    <2>2. r.pc = req[p].pc /\ r.op = req[p].op /\ r.user = req[p].user /\ r.role = req[p].role /\ r.invite = req[p].invite
      BY <1>0 DEF Request
    <2>3. ReqFits(r, invites)
      BY <1>0, <2>2 DEF ReqFits
    <2> QED
      BY <1>2, <2>1, <2>2, <2>3, RequestMoves DEF CountInvites
  <1> QED
    BY <1>1, <1>2

\* The steps of a request that move it on or end it.
LEMMA MovingInd ==
  ASSUME WorkspaceInd, NEW p \in Requests,
         SeatsCounted(p) \/ InviteMember(p) \/ AddExisting(p)
  PROVE  WorkspaceInd'
  <1>0. req[p] \in Request /\ ReqFits(req[p], invites) /\ members[Owner] = "OWNER"
    BY DEF WorkspaceInd, WorkspaceType, ReqsFit, OwnerAlone
  <1>1. ASSUME NEW point \in {"revoke", "existing", "open", "upsert"},
               ReqGoes(p, point), UNCHANGED <<members, invites, joins>>,
               point \in {"revoke", "open"} => req[p].op = "invite",
               point \in {"existing", "upsert"} => req[p].op \in {"invite", "add"},
               point = "upsert" => req[p].user # Owner
        PROVE  WorkspaceInd'
    <2> DEFINE r == [req[p] EXCEPT !.pc = point]
    <2>1. r \in Request /\ r.pc = point /\ r.op = req[p].op /\ r.user = req[p].user /\ r.role = req[p].role
      BY <1>0 DEF Request
    <2>2. ReqFits(r, invites)
      BY <1>0, <1>1, <2>1 DEF ReqFits
    <2> QED
      BY <1>1, <2>1, <2>2, RequestGoes
  <1>2. CASE SeatsCounted(p)
    <2>1. req[p].op \in {"invite", "add"}
      BY <1>0, <1>2 DEF SeatsCounted, ReqAt, ReqFits
    <2> QED
      BY <1>1, <1>2, <2>1, RequestEnds DEF SeatsCounted
  <1>3. CASE InviteMember(p)
    <2>1. req[p].op = "invite"
      BY <1>0, <1>3 DEF InviteMember, ReqAt, ReqFits
    <2> QED
      BY <1>1, <1>3, <2>1, RequestEnds DEF InviteMember
  <1>4. CASE AddExisting(p)
    <2>1. req[p].op \in {"invite", "add"}
      BY <1>0, <1>4 DEF AddExisting, ReqAt, ReqFits
    <2>2. members[req[p].user] # "OWNER" => req[p].user # Owner
      BY <1>0
    <2> QED
      BY <1>1, <1>4, <2>1, <2>2, RequestEnds DEF AddExisting
  <1> QED
    BY <1>2, <1>3, <1>4

LEMMA InviteOpenInd ==
  ASSUME WorkspaceInd, NEW p \in Requests, InviteOpen(p)
  PROVE  WorkspaceInd'
  <1>0. req[p] \in Request /\ ReqFits(req[p], invites) /\ req[p].pc = "open"
    BY DEF WorkspaceInd, WorkspaceType, ReqsFit, InviteOpen, ReqAt
  <1> DEFINE mine == {i \in Open : invites[i].email = req[p].user}
  <1>1. PICK i \in IF mine = {} THEN {0} ELSE mine : req' = [req EXCEPT ![p].pc = "seats", ![p].replaces = i]
    BY DEF InviteOpen
  <1>2. i \in 0..MaxInvites
    BY FiniteWorkspace, WorkspaceAssumption DEF WorkspaceInd, InviteIds
  <1> DEFINE r == [req[p] EXCEPT !.pc = "seats", !.replaces = i]
  <1>3. r \in Request /\ r.pc = "seats" /\ r.op = req[p].op /\ r.user = req[p].user /\ r.role = req[p].role
    BY <1>0, <1>2 DEF Request
  <1>4. ReqFits(r, invites)
    BY <1>0, <1>3 DEF ReqFits
  <1>5. req' = [req EXCEPT ![p] = r]
    BY <1>1
  <1>6. UNCHANGED <<members, invites, joins>>
    BY DEF InviteOpen
  <1> QED
    BY <1>3, <1>4, <1>5, <1>6, RequestMoves

\* Requests that begin.
LEMMA BeginningInd ==
  ASSUME WorkspaceInd, NEW p \in Requests,
         \/ \E i \in DOMAIN invites : AcceptBegins(p, i)
         \/ \E user \in Everybody, role \in Roles : AddBegins(p, user, role)
         \/ \E user \in Users : RemoveBegins(p, user)
  PROVE  WorkspaceInd'
  <1>1. ASSUME NEW i \in DOMAIN invites, AcceptBegins(p, i) PROVE WorkspaceInd'
    <2> DEFINE r == [NoReq EXCEPT !.op = "accept", !.pc = "claim", !.user = invites[i].email, !.invite = i]
    <2>1. i \in InviteIds /\ invites[i].email \in Users
      <3>1. i \in InviteIds /\ DOMAIN invites = 1..Len(invites) /\ invites \in Seq(Invite)
        BY FiniteWorkspace DEF WorkspaceInd, WorkspaceType
      <3>2. invites[i] \in Invite
        BY <3>1
      <3> QED
        BY <3>1, <3>2 DEF Invite
    <2>2. r \in Request /\ r.op = "accept" /\ r.pc = "claim" /\ r.user = invites[i].email /\ r.invite = i
      <3>1. i \in 0..MaxInvites
        BY <2>1, WorkspaceAssumption DEF InviteIds
      <3>2. NoReq \in Request
        BY NoReqFits
      <3> DEFINE email == invites[i].email
      <3>3. email \in Users
        BY <2>1
      <3> HIDE DEF email
      <3>4. [NoReq EXCEPT !.op = "accept", !.pc = "claim", !.user = email, !.invite = i] \in Request
        BY <3>1, <3>2, <3>3 DEF Request
      <3>5. r \in Request
        BY <3>4 DEF email
      <3> QED
        BY <3>2, <3>5 DEF Request
    <2>3. ReqFits(r, invites)
      BY <2>1, <2>2 DEF ReqFits
    <2> QED
      BY <1>1, <2>2, <2>3, RequestMoves DEF AcceptBegins, ReqBegins
  <1>2. ASSUME NEW user \in Everybody, NEW role \in Roles, AddBegins(p, user, role) PROVE WorkspaceInd'
    <2> DEFINE r == [NoReq EXCEPT !.op = "add", !.pc = "seats", !.user = user, !.role = role]
    <2>2. r \in Request /\ r.op = "add" /\ r.pc = "seats" /\ r.user = user /\ r.role = role
      BY NoReqFits DEF Request, Everybody
    <2>3. ReqFits(r, invites)
      BY <2>2 DEF ReqFits
    <2> QED
      BY <1>2, <2>2, <2>3, RequestMoves DEF AddBegins, ReqBegins
  <1>3. ASSUME NEW user \in Users, RemoveBegins(p, user) PROVE WorkspaceInd'
    <2> DEFINE r == [NoReq EXCEPT !.op = "remove", !.pc = "delete", !.user = user]
    <2>2. r \in Request /\ r.op = "remove" /\ r.pc = "delete" /\ r.user = user
      BY NoReqFits DEF Request
    <2>3. ReqFits(r, invites)
      BY <2>2 DEF ReqFits
    <2> QED
      BY <1>3, <2>2, <2>3, RequestMoves DEF RemoveBegins, ReqBegins
  <1> QED
    BY <1>1, <1>2, <1>3

\* An invitation keeps its room: the one to come counts already.
LEMMA InviteBeginsInd ==
  ASSUME WorkspaceInd, NEW p \in Requests, NEW user \in Users, NEW role \in Roles,
         InviteBegins(p, user, role)
  PROVE  WorkspaceInd'
  <1> DEFINE r == [NoReq EXCEPT !.op = "invite", !.pc = "member", !.user = user, !.role = role]
  <1>1. r \in Request /\ r.op = "invite" /\ r.pc = "member" /\ r.user = user /\ r.role = role
    BY NoReqFits DEF Request
  <1>2. ReqFits(r, invites)
    BY <1>1 DEF ReqFits, Everybody
  <1>3. /\ req' = [req EXCEPT ![p] = r] /\ UNCHANGED <<members, invites, joins>>
        /\ Len(invites) + Cardinality(Inviting(req)) < MaxInvites
    BY DEF InviteBegins, ReqBegins, Inviting
  <1> HIDE DEF r
  <1>4. WorkspaceType' /\ req'[p] = r /\ \A q \in Requests \ {p} : req'[q] = req[q]
    BY <1>1, <1>3 DEF WorkspaceInd, WorkspaceType
  <1>5. ReqsFit(req, invites)'
    BY <1>2, <1>3, <1>4 DEF WorkspaceInd, ReqsFit
  <1>6. Inviting(req') \subseteq Inviting(req) \cup {p}
    BY <1>4 DEF Inviting
  <1>7. Cardinality(Inviting(req')) <= Cardinality(Inviting(req)) + 1
    <2>1. IsFiniteSet(Inviting(req)) /\ Cardinality(Inviting(req)) \in Nat
      BY InvitingFinite
    <2>2. /\ IsFiniteSet(Inviting(req) \cup {p})
          /\ Cardinality(Inviting(req) \cup {p}) = IF p \in Inviting(req) THEN Cardinality(Inviting(req))
                                                   ELSE Cardinality(Inviting(req)) + 1
      BY <2>1, FS_AddElement
    <2>3. Cardinality(Inviting(req')) <= Cardinality(Inviting(req) \cup {p})
      BY <1>6, <2>2, FS_Subset
    <2> QED
      BY <2>1, <2>2, <2>3, InvitingFinite
  <1>8. InviteRoom(req, invites)'
    <2>1. Len(invites) \in Nat /\ Cardinality(Inviting(req')) \in Nat /\ Cardinality(Inviting(req)) \in Nat
      BY InvitingFinite DEF WorkspaceInd, WorkspaceType
    <2> QED
      BY <1>3, <1>7, <2>1, WorkspaceAssumption DEF InviteRoom
  <1> QED
    BY <1>3, <1>4, <1>5, <1>8 DEF WorkspaceInd, OwnerAlone, JoinsFit

LEMMA ReqFitsMore ==
  ASSUME NEW r, NEW table, NEW longer, DOMAIN table \subseteq DOMAIN longer, ReqFits(r, table)
  PROVE  ReqFits(r, longer)
  BY DEF ReqFits

\* Changes of the invitations that neither add one nor take back an acceptance.
LEMMA InvitesMarked ==
  ASSUME WorkspaceInd,
         DOMAIN invites' = DOMAIN invites,
         \A i \in DOMAIN invites : invites'[i] \in Invite /\ invites'[i].accepted = invites[i].accepted,
         invites' = [i \in DOMAIN invites |-> invites'[i]]
  PROVE  /\ invites' \in Seq(Invite) /\ Len(invites') = Len(invites)
         /\ JoinsFit(invites', joins)
         /\ \A r : ReqFits(r, invites) => ReqFits(r, invites')
  <1>1. DOMAIN invites = 1..Len(invites) /\ Len(invites) \in Nat
    BY FiniteWorkspace DEF WorkspaceInd
  <1>2. invites' \in Seq(Invite) /\ Len(invites') = Len(invites)
    <2>1. invites' \in [1..Len(invites) -> Invite]
      BY <1>1
    <2> QED
      BY <1>1, <2>1, LenProperties, SeqDef
  <1>3. JoinsFit(invites', joins)
    BY DEF WorkspaceInd, JoinsFit
  <1> QED
    BY <1>2, <1>3, ReqFitsMore

LEMMA InviteReplacesInd ==
  ASSUME WorkspaceInd, NEW p \in Requests, InviteReplaces(p)
  PROVE  WorkspaceInd'
  <1>0. req[p] \in Request /\ ReqFits(req[p], invites) /\ req[p].pc = "revoke"
    BY DEF WorkspaceInd, WorkspaceType, ReqsFit, InviteReplaces, ReqAt
  <1>1. \A i \in DOMAIN invites : invites[i] \in Invite
    BY FiniteWorkspace DEF WorkspaceInd, WorkspaceType
  <1>2. invites' = [i \in DOMAIN invites |-> [invites[i] EXCEPT !.revoked = @ \/ i = req[p].replaces]]
    BY DEF InviteReplaces
  <1>3. ASSUME NEW i \in DOMAIN invites
        PROVE  invites'[i] \in Invite /\ invites'[i].accepted = invites[i].accepted
    <2>1. PICK b \in BOOLEAN : b = (invites[i].revoked \/ i = req[p].replaces)
      OBVIOUS
    <2>2. invites'[i] = [invites[i] EXCEPT !.revoked = b]
      BY <1>2, <2>1
    <2> QED
      BY <1>1, <2>2 DEF Invite
  <1>4. /\ invites' \in Seq(Invite) /\ Len(invites') = Len(invites)
        /\ JoinsFit(invites', joins)
        /\ \A r : ReqFits(r, invites) => ReqFits(r, invites')
    BY <1>2, <1>3, InvitesMarked
  <1> DEFINE r == [req[p] EXCEPT !.pc = "create"]
  <1>5. r \in Request /\ r.pc = "create" /\ r.op = req[p].op /\ r.user = req[p].user /\ r.role = req[p].role
    BY <1>0 DEF Request
  <1>6. ReqFits(r, invites)
    BY <1>0, <1>5 DEF ReqFits
  <1> HIDE DEF r
  <1>7. req' = [req EXCEPT ![p] = r] /\ members' = members /\ joins' = joins
    BY DEF InviteReplaces, ReqGoes, r
  <1>8. req'[p] = r /\ \A q \in Requests \ {p} : req'[q] = req[q]
    BY <1>7 DEF WorkspaceInd, WorkspaceType
  <1>9. WorkspaceType'
    BY <1>4, <1>5, <1>7 DEF WorkspaceInd, WorkspaceType
  <1>10. ReqsFit(req, invites)'
    BY <1>4, <1>6, <1>8 DEF WorkspaceInd, ReqsFit
  <1>11. Inviting(req') = Inviting(req)
    BY <1>5, <1>8 DEF Inviting
  <1> QED
    BY <1>4, <1>7, <1>9, <1>10, <1>11 DEF WorkspaceInd, OwnerAlone, JoinsFit, InviteRoom

LEMMA MarkedInd ==
  ASSUME WorkspaceInd, NEW i \in DOMAIN invites, RevokeInvite(i) \/ Expire(i)
  PROVE  WorkspaceInd'
  <1>1. \A k \in DOMAIN invites : invites[k] \in Invite
    BY FiniteWorkspace DEF WorkspaceInd, WorkspaceType
  <1>2. /\ DOMAIN invites' = DOMAIN invites
        /\ \A k \in DOMAIN invites : invites'[k] \in Invite /\ invites'[k].accepted = invites[k].accepted
        /\ invites' = [k \in DOMAIN invites |-> invites'[k]]
    <2>1. CASE RevokeInvite(i)
      <3>1. invites' = [invites EXCEPT ![i] = [invites[i] EXCEPT !.revoked = TRUE]]
        BY <2>1 DEF RevokeInvite
      <3>2. invites = [k \in DOMAIN invites |-> invites[k]]
        BY FiniteWorkspace DEF WorkspaceInd, WorkspaceType
      <3>3. [invites[i] EXCEPT !.revoked = TRUE] \in Invite /\ [invites[i] EXCEPT !.revoked = TRUE].accepted = invites[i].accepted
        BY <1>1 DEF Invite
      <3> QED
        BY <1>1, <3>1, <3>2, <3>3
    <2>2. CASE Expire(i)
      <3>1. invites' = [invites EXCEPT ![i] = [invites[i] EXCEPT !.expired = TRUE]]
        BY <2>2 DEF Expire
      <3>2. invites = [k \in DOMAIN invites |-> invites[k]]
        BY FiniteWorkspace DEF WorkspaceInd, WorkspaceType
      <3>3. [invites[i] EXCEPT !.expired = TRUE] \in Invite /\ [invites[i] EXCEPT !.expired = TRUE].accepted = invites[i].accepted
        BY <1>1 DEF Invite
      <3> QED
        BY <1>1, <3>1, <3>2, <3>3
    <2> QED
      BY <2>1, <2>2
  <1>3. /\ invites' \in Seq(Invite) /\ Len(invites') = Len(invites)
        /\ JoinsFit(invites', joins)
        /\ \A r : ReqFits(r, invites) => ReqFits(r, invites')
    BY <1>2, InvitesMarked
  <1>4. UNCHANGED <<members, joins, req>>
    BY DEF RevokeInvite, Expire
  <1> QED
    BY <1>3, <1>4 DEF WorkspaceInd, WorkspaceType, ReqsFit, OwnerAlone, JoinsFit, InviteRoom, Inviting

\* A request that ends, whatever else it changes.
LEMMA AfterRequestEnds ==
  ASSUME WorkspaceInd, NEW p \in Requests, ReqEnds(p)
  PROVE  /\ req' \in [Requests -> Request]
         /\ \A q \in Requests : req'[q] = req[q] \/ req'[q] = NoReq
         /\ req'[p] = NoReq
         /\ ReqsFit(req', invites)
         /\ Inviting(req') = Inviting(req) \ {p}
  <1>1. NoReq \in Request /\ ReqFits(NoReq, invites) /\ NoReq.op # "invite"
    BY NoReqFits
  <1>2. req' = [req EXCEPT ![p] = NoReq] /\ req \in [Requests -> Request] /\ ReqsFit(req, invites)
    BY DEF ReqEnds, WorkspaceInd, WorkspaceType
  <1>3. req'[p] = NoReq /\ \A q \in Requests \ {p} : req'[q] = req[q]
    BY <1>2
  <1>4. ReqsFit(req', invites)
    BY <1>1, <1>2, <1>3 DEF ReqsFit
  <1>5. Inviting(req') = Inviting(req) \ {p}
    BY <1>1, <1>3 DEF Inviting
  <1> QED
    BY <1>1, <1>2, <1>3, <1>4, <1>5

LEMMA InviteCreatedInd ==
  ASSUME WorkspaceInd, NEW p \in Requests, InviteCreated(p)
  PROVE  WorkspaceInd'
  <1>0. req[p] \in Request /\ ReqFits(req[p], invites) /\ req[p].pc = "create"
    BY DEF WorkspaceInd, WorkspaceType, ReqsFit, InviteCreated, ReqAt
  <1>1. req[p].op = "invite" /\ req[p].user \in Users /\ req[p].role \in Roles
    BY <1>0 DEF ReqFits
  <1>2. PICK i \in Invite : i = [email |-> req[p].user, role |-> req[p].role,
                                 accepted |-> FALSE, revoked |-> FALSE, expired |-> FALSE]
    BY <1>1 DEF Invite
  <1>3. /\ invites' = Append(invites, i) /\ ReqEnds(p)
        /\ members' = members /\ joins' = joins
    BY <1>2 DEF InviteCreated
  <1>4. invites \in Seq(Invite) /\ Len(invites) \in Nat
    BY DEF WorkspaceInd, WorkspaceType
  <1>5. /\ invites' \in Seq(Invite) /\ Len(invites') = Len(invites) + 1
        /\ DOMAIN invites \subseteq DOMAIN invites'
        /\ \A k \in DOMAIN invites : invites'[k] = invites[k]
    BY <1>3, <1>4
  <1>6. /\ req' \in [Requests -> Request] /\ ReqsFit(req', invites)
        /\ Inviting(req') = Inviting(req) \ {p}
    BY <1>3, AfterRequestEnds
  <1>7. ReqsFit(req', invites')
    BY <1>5, <1>6, ReqFitsMore DEF ReqsFit
  <1>8. Len(invites') + Cardinality(Inviting(req')) <= MaxInvites
    <2>1. p \in Inviting(req) /\ IsFiniteSet(Inviting(req)) /\ Cardinality(Inviting(req)) \in Nat
      BY <1>1, InvitingFinite DEF Inviting
    <2>2. Cardinality(Inviting(req) \ {p}) = Cardinality(Inviting(req)) - 1
      BY <2>1, FS_RemoveElement
    <2> QED
      BY <1>4, <1>5, <1>6, <2>1, <2>2, WorkspaceAssumption DEF WorkspaceInd, InviteRoom
  <1>9. Len(invites') <= MaxInvites
    BY <1>4, <1>5, <1>8, InvitingFinite, WorkspaceAssumption
  <1>10. WorkspaceType'
    BY <1>3, <1>5, <1>6, <1>9 DEF WorkspaceInd, WorkspaceType
  <1>11. JoinsFit(invites', joins')
    BY <1>3, <1>5 DEF WorkspaceInd, JoinsFit
  <1> QED
    BY <1>3, <1>7, <1>8, <1>10, <1>11 DEF WorkspaceInd, InviteRoom, OwnerAlone

LEMMA AcceptInviteInd ==
  ASSUME WorkspaceInd, NEW p \in Requests, AcceptInvite(p)
  PROVE  WorkspaceInd'
  <1>0. req[p] \in Request /\ ReqFits(req[p], invites) /\ req[p].pc = "claim" /\ ReqEnds(p)
    BY DEF WorkspaceInd, WorkspaceType, ReqsFit, AcceptInvite, ReqAt
  <1>1. req[p].invite \in DOMAIN invites /\ req[p].user \in Users
    BY <1>0 DEF ReqFits
  <1>2. PICK i \in DOMAIN invites : i = req[p].invite
    BY <1>1
  <1>3. CASE UNCHANGED <<members, invites, joins>>
    BY <1>0, <1>3, RequestEnds
  <1>4. CASE ~invites[i].accepted /\ Join(p)
    <2>1. \A k \in DOMAIN invites : invites[k] \in Invite
      BY FiniteWorkspace DEF WorkspaceInd, WorkspaceType
    <2>2. /\ invites' = [invites EXCEPT ![i] = [invites[i] EXCEPT !.accepted = TRUE]]
          /\ members' = [members EXCEPT ![req[p].user] = IF @ = Absent THEN invites[i].role ELSE @]
          /\ joins' = [joins EXCEPT ![i] = joins[i] + 1]
      BY <1>2, <1>4 DEF Join
    <2>3. [invites[i] EXCEPT !.accepted = TRUE] \in Invite /\ [invites[i] EXCEPT !.accepted = TRUE].accepted
      BY <2>1 DEF Invite
    <2>4. invites \in Seq(Invite) /\ DOMAIN invites = 1..Len(invites) /\ Len(invites) \in Nat /\ i \in InviteIds
      BY FiniteWorkspace DEF WorkspaceInd, WorkspaceType
    <2>5. invites' \in Seq(Invite) /\ Len(invites') = Len(invites) /\ DOMAIN invites' = DOMAIN invites
      <3> PICK new \in Invite : new = [invites[i] EXCEPT !.accepted = TRUE]
        BY <2>3
      <3>1. invites' = [invites EXCEPT ![i] = new]
        BY <2>2
      <3>2. i \in 1..Len(invites)
        BY <2>4
      <3> QED
        BY <2>4, <3>1, <3>2
    <2>6. invites'[i].accepted /\ \A k \in DOMAIN invites \ {i} : invites'[k] = invites[k]
      BY <2>2, <2>3
    <2>7. joins \in [InviteIds -> Nat] /\ JoinsFit(invites, joins) /\ ~invites[i].accepted
      BY <1>4 DEF WorkspaceInd, WorkspaceType
    <2>8. joins[i] = 0 /\ joins' \in [InviteIds -> Nat]
          /\ joins'[i] = 1 /\ \A k \in InviteIds \ {i} : joins'[k] = joins[k]
      BY <2>2, <2>4, <2>7 DEF JoinsFit
    <2>9. JoinsFit(invites', joins')
      BY <2>4, <2>5, <2>6, <2>7, <2>8 DEF JoinsFit
    <2>10. members \in [Everybody -> Roles \cup {"OWNER", Absent}] /\ OwnerAlone(members)
           /\ invites[i].role \in Roles /\ req[p].user \in Everybody
      BY <1>1, <2>1 DEF WorkspaceInd, WorkspaceType, Invite, Everybody
    <2>11. members' \in [Everybody -> Roles \cup {"OWNER", Absent}]
      BY <2>2, <2>10
    <2>12. OwnerAlone(members')
      <3>1. Owner \in Everybody /\ Owner # req[p].user /\ invites[i].role # "OWNER"
            /\ \A u \in Users : u \in Everybody
        BY <1>1, <2>10, WorkspaceAssumption DEF Everybody
      <3>2. members'[Owner] = members[Owner]
        BY <2>2, <2>10, <3>1
      <3>3. ASSUME NEW u \in Users PROVE members'[u] # "OWNER"
        BY <2>2, <2>10, <3>1 DEF OwnerAlone
      <3> QED
        BY <2>10, <3>2, <3>3 DEF OwnerAlone
    <2>13. req' \in [Requests -> Request] /\ ReqsFit(req', invites) /\ Inviting(req') \subseteq Inviting(req)
      BY <1>0, AfterRequestEnds
    <2>14. ReqsFit(req', invites')
      BY <2>5, <2>13, ReqFitsMore DEF ReqsFit
    <2>15. InviteRoom(req', invites')
      <3>1. Cardinality(Inviting(req')) <= Cardinality(Inviting(req))
        BY <2>13, FewerInviting
      <3>2. Cardinality(Inviting(req')) \in Nat /\ Cardinality(Inviting(req)) \in Nat
        BY InvitingFinite
      <3> QED
        BY <2>4, <2>5, <3>1, <3>2, WorkspaceAssumption DEF WorkspaceInd, InviteRoom
    <2>16. WorkspaceType'
      BY <2>5, <2>8, <2>11, <2>13 DEF WorkspaceInd, WorkspaceType
    <2> QED
      BY <2>9, <2>12, <2>14, <2>15, <2>16 DEF WorkspaceInd
  <1> QED
    BY <1>2, <1>3, <1>4 DEF AcceptInvite

\* Rows of members that change for others than the owner.
LEMMA AddUpsertInd ==
  ASSUME WorkspaceInd, NEW p \in Requests, AddUpsert(p)
  PROVE  WorkspaceInd'
  <1>0. req[p] \in Request /\ ReqFits(req[p], invites) /\ req[p].pc = "upsert" /\ ReqEnds(p)
        /\ members' = [members EXCEPT ![req[p].user] = req[p].role] /\ invites' = invites /\ joins' = joins
    BY DEF WorkspaceInd, WorkspaceType, ReqsFit, AddUpsert, ReqAt
  <1>1. req[p].user \in Everybody /\ req[p].role \in Roles /\ req[p].user # Owner
    BY <1>0 DEF ReqFits
  <1>2. members' \in [Everybody -> Roles \cup {"OWNER", Absent}] /\ OwnerAlone(members')
    BY <1>0, <1>1, WorkspaceAssumption DEF WorkspaceInd, WorkspaceType, OwnerAlone, Everybody
  <1>3. req' \in [Requests -> Request] /\ ReqsFit(req', invites) /\ Inviting(req') \subseteq Inviting(req)
    BY <1>0, AfterRequestEnds
  <1>4. InviteRoom(req', invites)
    <2>1. Cardinality(Inviting(req')) <= Cardinality(Inviting(req))
      BY <1>3, FewerInviting
    <2>2. Cardinality(Inviting(req')) \in Nat /\ Cardinality(Inviting(req)) \in Nat /\ Len(invites) \in Nat
      BY InvitingFinite DEF WorkspaceInd, WorkspaceType
    <2> QED
      BY <2>1, <2>2, WorkspaceAssumption DEF WorkspaceInd, InviteRoom
  <1> QED
    BY <1>0, <1>2, <1>3, <1>4 DEF WorkspaceInd, WorkspaceType

LEMMA RemoveMemberInd ==
  ASSUME WorkspaceInd, NEW p \in Requests, RemoveMember(p)
  PROVE  WorkspaceInd'
  <1>0. req[p] \in Request /\ ReqFits(req[p], invites) /\ req[p].pc = "delete"
        /\ members' = [members EXCEPT ![req[p].user] = Absent] /\ invites' = invites /\ joins' = joins
    BY DEF WorkspaceInd, WorkspaceType, ReqsFit, RemoveMember, ReqAt
  <1>1. req[p].user \in Users
    BY <1>0 DEF ReqFits
  <1>2. members' \in [Everybody -> Roles \cup {"OWNER", Absent}] /\ OwnerAlone(members')
    BY <1>0, <1>1, WorkspaceAssumption DEF WorkspaceInd, WorkspaceType, OwnerAlone, Everybody
  <1>3. NoReq \in Request /\ ReqFits(NoReq, invites) /\ NoReq.op # "invite"
    BY NoReqFits
  <1>4. req' = [q \in Requests |-> IF ReqAt(q, "delete") /\ req[q].user = req[p].user THEN NoReq ELSE req[q]]
    BY DEF RemoveMember
  <1>5. \A q \in Requests : req'[q] = NoReq \/ req'[q] = req[q]
    BY <1>4
  <1>6. req' \in [Requests -> Request] /\ ReqsFit(req', invites) /\ Inviting(req') \subseteq Inviting(req)
    BY <1>3, <1>4, <1>5 DEF WorkspaceInd, WorkspaceType, ReqsFit, Inviting
  <1>7. InviteRoom(req', invites)
    <2>1. Cardinality(Inviting(req')) <= Cardinality(Inviting(req))
      BY <1>6, FewerInviting
    <2>2. Cardinality(Inviting(req')) \in Nat /\ Cardinality(Inviting(req)) \in Nat /\ Len(invites) \in Nat
      BY InvitingFinite DEF WorkspaceInd, WorkspaceType
    <2> QED
      BY <2>1, <2>2, WorkspaceAssumption DEF WorkspaceInd, InviteRoom
  <1> QED
    BY <1>0, <1>2, <1>6, <1>7 DEF WorkspaceInd, WorkspaceType

LEMMA WorkspaceNextInd ==
  ASSUME WorkspaceInd, [WorkspaceNext]_workspaceVars
  PROVE  WorkspaceInd'
  <1>1. CASE UNCHANGED workspaceVars
    BY <1>1 DEF WorkspaceInd, WorkspaceType, ReqsFit, OwnerAlone, JoinsFit, InviteRoom, Inviting, workspaceVars
  <1>2. ASSUME NEW p \in Requests, RequestStep(p) PROVE WorkspaceInd'
    BY <1>2, CountingInd, MovingInd, InviteOpenInd, BeginningInd, InviteBeginsInd, InviteReplacesInd,
       InviteCreatedInd, AcceptInviteInd, AddUpsertInd, RemoveMemberInd DEF RequestStep
  <1>3. ASSUME NEW i \in DOMAIN invites, RevokeInvite(i) \/ Expire(i) PROVE WorkspaceInd'
    BY <1>3, MarkedInd
  <1> QED
    BY <1>1, <1>2, <1>3 DEF WorkspaceNext

\* The inductive invariant of a workspace.
THEOREM WorkspaceInvariant == WorkspaceSpec => []WorkspaceInd
  BY WorkspaceInitInd, WorkspaceNextInd, PTL DEF WorkspaceSpec

\* The rows of members, invitations and requests keep their types.
THEOREM WorkspaceTypeCorrect == WorkspaceSpec => []WorkspaceType
  <1>1. WorkspaceInd => WorkspaceType
    BY DEF WorkspaceInd
  <1> QED
    BY <1>1, WorkspaceInvariant, PTL

\* "Two clicks cannot join twice" (invites.service.ts): for any number of
\* requests, members, seats and invitations.
THEOREM InvitationsJoinOnce == WorkspaceSpec => []InviteUsedOnce
  <1>1. WorkspaceInd => InviteUsedOnce
    BY DEF WorkspaceInd, JoinsFit, InviteUsedOnce
  <1> QED
    BY <1>1, WorkspaceInvariant, PTL

\* A workspace keeps its one owner whatever its administrators do.
THEOREM WorkspacesKeepTheirOwner == WorkspaceSpec => []OneOwner
  <1>1. WorkspaceInd => OneOwner
    BY DEF WorkspaceInd, OwnerAlone, OneOwner, Everybody
  <1> QED
    BY <1>1, WorkspaceInvariant, PTL

----
(***************************************************************************)
(* Workspaces: the seats                                                   *)
(*                                                                         *)
(* Over: by how many people the workspace exceeds its seats and the        *)
(* acceptances.  To exceed them by j takes j + 1 requests each of which    *)
(* either was let past the seats and has its person among those held, or   *)
(* has made one of its two counts before at most j came that it no longer  *)
(* sees.  Requests that wait for nothing are behind by 0: with nobody over *)
(* the seats, one of them is enough.                                       *)
(***************************************************************************)

\* A request that was let past the seats, or will be: both its counts are in.
Admitted(r) ==
    \/ r.pc \in {"revoke", "create", "existing", "upsert"}
    \/ r.pc = "seats" /\ r.members # Absent /\ r.open # Absent /\ r.members + r.open < Seats

\* M the members, E the emails of the open invitations, a the acceptances: by
\* how much the people held exceed what is always allowed.
Over(M, E, a) == Cardinality(M \cup E) - Seats - a

\* How many came since the one count that a request has made.
Unseen(r, M, E, a) ==
    IF r.pc = "seats" /\ r.members # Absent /\ r.open = Absent THEN Cardinality(M \ {r.user}) - r.members - a
    ELSE IF r.pc = "seats" /\ r.members = Absent /\ r.open # Absent THEN Cardinality(E \ {r.user}) - r.open
    ELSE 0

Level(r, M, E, a) ==
    IF Admitted(r) THEN IF r.user \in M \cup E THEN Over(M, E, a) ELSE Over(M, E, a) + 1
    ELSE Unseen(r, M, E, a)

\* To exceed by one more takes one request more that is behind.
Behind(R, M, E, a, j) == {p \in Requests : Level(R[p], M, E, a) <= j}

Levels(R, M, E, a) ==
    \A j \in 0..Over(M, E, a) : Cardinality(Behind(R, M, E, a, j)) >= j + 1

LEMMA LevelInt ==
  ASSUME NEW r \in Request, NEW M, NEW E, IsFiniteSet(M), IsFiniteSet(E), NEW a \in Nat
  PROVE  /\ Over(M, E, a) \in Int /\ Unseen(r, M, E, a) \in Int /\ Level(r, M, E, a) \in Int
         /\ Cardinality(M \cup E) \in Nat /\ IsFiniteSet(M \cup E)
         /\ Cardinality(M \ {r.user}) \in Nat /\ Cardinality(E \ {r.user}) \in Nat
         /\ r.members # Absent => r.members \in Nat
         /\ r.open # Absent => r.open \in Nat
  <1>1. IsFiniteSet(M \cup E) /\ IsFiniteSet(M \ {r.user}) /\ IsFiniteSet(E \ {r.user})
    BY FS_Union, FS_RemoveElement
  <1>2. Cardinality(M \cup E) \in Nat /\ Cardinality(M \ {r.user}) \in Nat /\ Cardinality(E \ {r.user}) \in Nat
    BY <1>1, FS_CardinalityType
  <1>3. (r.members # Absent => r.members \in Nat) /\ (r.open # Absent => r.open \in Nat)
    BY DEF Request
  <1>4. Over(M, E, a) \in Int
    BY <1>2, WorkspaceAssumption DEF Over
  <1>5. Unseen(r, M, E, a) \in Int
    BY <1>2, <1>3 DEF Unseen
  <1> QED
    BY <1>1, <1>2, <1>3, <1>4, <1>5 DEF Level

\* Nobody comes to be further behind, as far as it still matters.
LEMMA LevelsStay ==
  ASSUME NEW R, NEW M, NEW E, NEW a, NEW R2, NEW M2, NEW E2, NEW a2,
         R \in [Requests -> Request], R2 \in [Requests -> Request],
         IsFiniteSet(M), IsFiniteSet(E), a \in Nat, IsFiniteSet(M2), IsFiniteSet(E2), a2 \in Nat,
         Levels(R, M, E, a), Over(M2, E2, a2) <= Over(M, E, a),
         \A p \in Requests : \/ Level(R2[p], M2, E2, a2) <= Level(R[p], M, E, a)
                             \/ Level(R2[p], M2, E2, a2) <= 0
                             \/ Level(R[p], M, E, a) > Over(M2, E2, a2)
  PROVE  Levels(R2, M2, E2, a2)
  <1> SUFFICES ASSUME NEW j \in 0..Over(M2, E2, a2)
               PROVE  Cardinality(Behind(R2, M2, E2, a2, j)) >= j + 1
    BY DEF Levels
  <1>1. \A p \in Requests : Level(R[p], M, E, a) \in Int /\ Level(R2[p], M2, E2, a2) \in Int
    BY LevelInt
  <1>2. Over(M, E, a) \in Int /\ Over(M2, E2, a2) \in Int
    <2>1. NoReq \in Request
      BY NoReqFits
    <2> QED
      BY <2>1, LevelInt
  <1>3. Cardinality(Behind(R, M, E, a, j)) >= j + 1
    BY <1>2 DEF Levels
  <1>4. Behind(R, M, E, a, j) \subseteq Behind(R2, M2, E2, a2, j)
    <2> SUFFICES ASSUME NEW p \in Requests, Level(R[p], M, E, a) <= j
                 PROVE  Level(R2[p], M2, E2, a2) <= j
      BY DEF Behind
    <2> QED
      BY <1>1, <1>2
  <1>5. IsFiniteSet(Behind(R, M, E, a, j)) /\ IsFiniteSet(Behind(R2, M2, E2, a2, j))
    BY FS_Subset, WorkspaceAssumption DEF Behind
  <1>6. Cardinality(Behind(R, M, E, a, j)) <= Cardinality(Behind(R2, M2, E2, a2, j))
    BY <1>4, <1>5, FS_Subset
  <1>7. Cardinality(Behind(R, M, E, a, j)) \in Nat /\ Cardinality(Behind(R2, M2, E2, a2, j)) \in Nat
    BY <1>5, FS_CardinalityType
  <1> QED
    BY <1>3, <1>6, <1>7

\* One person more is held, or seen: the request that did it is behind no more,
\* and the others are by one.
LEMMA LevelsRise ==
  ASSUME NEW R, NEW M, NEW E, NEW a, NEW R2, NEW M2, NEW E2, NEW a2, NEW d \in Requests,
         R \in [Requests -> Request], R2 \in [Requests -> Request],
         IsFiniteSet(M), IsFiniteSet(E), a \in Nat, IsFiniteSet(M2), IsFiniteSet(E2), a2 \in Nat,
         Levels(R, M, E, a), Over(M2, E2, a2) <= Over(M, E, a) + 1,
         Level(R[d], M, E, a) >= Over(M2, E2, a2), Level(R2[d], M2, E2, a2) <= 0,
         \A p \in Requests \ {d} : \/ Level(R2[p], M2, E2, a2) <= Level(R[p], M, E, a) + 1
                                   \/ Level(R[p], M, E, a) >= Over(M2, E2, a2)
  PROVE  Levels(R2, M2, E2, a2)
  <1> SUFFICES ASSUME NEW j \in 0..Over(M2, E2, a2)
               PROVE  Cardinality(Behind(R2, M2, E2, a2, j)) >= j + 1
    BY DEF Levels
  <1> DEFINE before == Behind(R, M, E, a, j - 1)
             after == Behind(R2, M2, E2, a2, j)
  <1>1. \A p \in Requests : Level(R[p], M, E, a) \in Int /\ Level(R2[p], M2, E2, a2) \in Int
    BY LevelInt
  <1>2. Over(M, E, a) \in Int /\ Over(M2, E2, a2) \in Int
    <2>1. NoReq \in Request
      BY NoReqFits
    <2> QED
      BY <2>1, LevelInt
  <1>3. IsFiniteSet(before) /\ IsFiniteSet(after) /\ IsFiniteSet(before \cup {d})
    <2>1. before \subseteq Requests /\ after \subseteq Requests
      BY DEF Behind
    <2> QED
      BY <2>1, FS_Subset, FS_AddElement, WorkspaceAssumption
  <1>4. Cardinality(before) \in Nat /\ Cardinality(after) \in Nat
    BY <1>3, FS_CardinalityType
  <1>5. Cardinality(before) >= j
    <2>1. CASE j = 0
      BY <1>4, <2>1
    <2>2. CASE j # 0
      <3>1. j - 1 \in 0..Over(M, E, a)
        BY <1>2, <2>2
      <3>2. Cardinality(before) >= (j - 1) + 1
        BY <3>1 DEF Levels
      <3> QED
        BY <1>4, <3>2
    <2> QED
      BY <2>1, <2>2
  <1>6. d \notin before
    BY <1>1, <1>2 DEF Behind
  <1>7. before \cup {d} \subseteq after
    <2>1. d \in after
      BY <1>1 DEF Behind
    <2>2. ASSUME NEW p \in before PROVE p \in after
      <3>1. p \in Requests \ {d} /\ Level(R[p], M, E, a) <= j - 1
        BY <1>6, <2>2 DEF Behind
      <3> HIDE DEF before
      <3>2. Level(R[p], M, E, a) < Over(M2, E2, a2)
        BY <1>1, <1>2, <3>1
      <3>3. Level(R2[p], M2, E2, a2) <= j
        BY <1>1, <1>2, <3>1, <3>2
      <3> QED
        BY <3>1, <3>3 DEF Behind
    <2> QED
      BY <2>1, <2>2
  <1> HIDE DEF before, after
  <1>8. Cardinality(before \cup {d}) = Cardinality(before) + 1
    BY <1>3, <1>6, FS_AddElement
  <1>9. Cardinality(before \cup {d}) <= Cardinality(after)
    BY <1>3, <1>7, FS_Subset
  <1>10. Cardinality(after) >= j + 1
    BY <1>4, <1>5, <1>8, <1>9
  <1> QED
    BY <1>10 DEF after

LEMMA CountAdd ==
  ASSUME NEW S, IsFiniteSet(S), NEW u, NEW v
  PROVE  /\ IsFiniteSet(S \cup {u}) /\ Cardinality(S) \in Nat /\ Cardinality(S \cup {u}) \in Nat
         /\ Cardinality(S \cup {u}) = IF u \in S THEN Cardinality(S) ELSE Cardinality(S) + 1
         /\ IsFiniteSet(S \ {v}) /\ Cardinality(S \ {v}) \in Nat
         /\ Cardinality(S \ {v}) = IF v \in S THEN Cardinality(S) - 1 ELSE Cardinality(S)
         /\ Cardinality((S \cup {u}) \ {v}) \in Nat
         /\ Cardinality((S \cup {u}) \ {v}) <= Cardinality(S \ {v}) + 1
  <1>1. /\ IsFiniteSet(S \cup {u})
        /\ Cardinality(S \cup {u}) = IF u \in S THEN Cardinality(S) ELSE Cardinality(S) + 1
        /\ IsFiniteSet(S \ {v})
        /\ Cardinality(S \ {v}) = IF v \in S THEN Cardinality(S) - 1 ELSE Cardinality(S)
    BY FS_AddElement, FS_RemoveElement
  <1>2. /\ IsFiniteSet((S \cup {u}) \ {v}) /\ IsFiniteSet((S \ {v}) \cup {u})
        /\ Cardinality((S \ {v}) \cup {u}) = IF u \in S \ {v} THEN Cardinality(S \ {v}) ELSE Cardinality(S \ {v}) + 1
    BY <1>1, FS_AddElement, FS_RemoveElement
  <1>3. Cardinality((S \cup {u}) \ {v}) <= Cardinality((S \ {v}) \cup {u})
    BY <1>2, FS_Subset
  <1>4. Cardinality(S) \in Nat /\ Cardinality(S \cup {u}) \in Nat /\ Cardinality(S \ {v}) \in Nat
        /\ Cardinality((S \cup {u}) \ {v}) \in Nat /\ Cardinality((S \ {v}) \cup {u}) \in Nat
    BY <1>1, <1>2, FS_CardinalityType
  <1> QED
    BY <1>1, <1>2, <1>3, <1>4

LEMMA CountLess ==
  ASSUME NEW S, NEW T, IsFiniteSet(S), T \subseteq S, NEW v
  PROVE  /\ IsFiniteSet(T) /\ Cardinality(T) <= Cardinality(S)
         /\ Cardinality(T \ {v}) <= Cardinality(S \ {v})
         /\ v \in S \ T => Cardinality(T) <= Cardinality(S) - 1
  <1>1. IsFiniteSet(T) /\ Cardinality(T) <= Cardinality(S)
    BY FS_Subset
  <1>2. T \ {v} \subseteq S \ {v} /\ IsFiniteSet(S \ {v})
    BY FS_RemoveElement
  <1>3. Cardinality(T \ {v}) <= Cardinality(S \ {v})
    BY <1>2, FS_Subset
  <1>4. v \in S \ T => T = T \ {v} /\ Cardinality(S \ {v}) = Cardinality(S) - 1
    BY FS_RemoveElement
  <1> QED
    BY <1>1, <1>3, <1>4

\* People leave, or their invitations do.
LEMMA FewerHeld ==
  ASSUME NEW r \in Request, NEW M, NEW E, NEW a \in Nat, NEW M2, NEW E2,
         IsFiniteSet(M), IsFiniteSet(E), M2 \subseteq M, E2 \subseteq E
  PROVE  /\ IsFiniteSet(M2) /\ IsFiniteSet(E2)
         /\ Over(M2, E2, a) <= Over(M, E, a)
         /\ \/ Level(r, M2, E2, a) <= Level(r, M, E, a)
            \/ Level(r, M, E, a) > Over(M2, E2, a)
  <1>1. IsFiniteSet(M2) /\ IsFiniteSet(E2)
    BY FS_Subset
  <1>2. /\ Over(M, E, a) \in Int /\ Over(M2, E2, a) \in Int
        /\ Cardinality(M \cup E) \in Nat /\ IsFiniteSet(M \cup E) /\ Cardinality(M2 \cup E2) \in Nat
        /\ Cardinality(M \ {r.user}) \in Nat /\ Cardinality(E \ {r.user}) \in Nat
        /\ Cardinality(M2 \ {r.user}) \in Nat /\ Cardinality(E2 \ {r.user}) \in Nat
        /\ r.members # Absent => r.members \in Nat
        /\ r.open # Absent => r.open \in Nat
    BY <1>1, LevelInt
  <1>3. /\ Cardinality(M2 \ {r.user}) <= Cardinality(M \ {r.user})
        /\ Cardinality(E2 \ {r.user}) <= Cardinality(E \ {r.user})
    BY CountLess
  <1>4. /\ Cardinality(M2 \cup E2) <= Cardinality(M \cup E)
        /\ r.user \in (M \cup E) \ (M2 \cup E2) => Cardinality(M2 \cup E2) <= Cardinality(M \cup E) - 1
    <2>1. M2 \cup E2 \subseteq M \cup E
      OBVIOUS
    <2> QED
      BY <1>2, <2>1, CountLess
  <1>5. /\ Over(M2, E2, a) <= Over(M, E, a)
        /\ r.user \in (M \cup E) \ (M2 \cup E2) => Over(M2, E2, a) <= Over(M, E, a) - 1
    BY <1>2, <1>4, WorkspaceAssumption DEF Over
  <1>6. Unseen(r, M2, E2, a) <= Unseen(r, M, E, a)
    BY <1>2, <1>3 DEF Unseen
  <1>7. CASE ~Admitted(r)
    BY <1>1, <1>5, <1>6, <1>7 DEF Level
  <1>8. CASE Admitted(r)
    <2>1. CASE r.user \in M2 \cup E2
      BY <1>1, <1>2, <1>5, <1>8, <2>1 DEF Level
    <2>2. CASE r.user \in (M \cup E) \ (M2 \cup E2)
      BY <1>1, <1>2, <1>5, <1>8, <2>2 DEF Level
    <2>3. CASE r.user \notin M \cup E
      BY <1>1, <1>2, <1>5, <1>8, <2>3 DEF Level
    <2> QED
      BY <2>1, <2>2, <2>3
  <1> QED
    BY <1>1, <1>5, <1>7, <1>8

\* Somebody becomes a member, or is invited.
LEMMA OneMoreHeld ==
  ASSUME NEW r \in Request, NEW M, NEW E, NEW a \in Nat, NEW M2, NEW E2, NEW u,
         IsFiniteSet(M), IsFiniteSet(E),
         \/ M2 = M \cup {u} /\ E2 = E
         \/ M2 = M /\ E2 = E \cup {u}
  PROVE  /\ IsFiniteSet(M2) /\ IsFiniteSet(E2)
         /\ Over(M2, E2, a) = IF u \in M \cup E THEN Over(M, E, a) ELSE Over(M, E, a) + 1
         /\ \/ Level(r, M2, E2, a) <= Level(r, M, E, a) + 1
            \/ Level(r, M, E, a) >= Over(M2, E2, a)
  <1>1. IsFiniteSet(M2) /\ IsFiniteSet(E2)
    BY FS_AddElement
  <1>2. /\ Over(M, E, a) \in Int /\ Over(M2, E2, a) \in Int
        /\ Cardinality(M \cup E) \in Nat /\ IsFiniteSet(M \cup E) /\ Cardinality(M2 \cup E2) \in Nat
        /\ Cardinality(M \ {r.user}) \in Nat /\ Cardinality(E \ {r.user}) \in Nat
        /\ Cardinality(M2 \ {r.user}) \in Nat /\ Cardinality(E2 \ {r.user}) \in Nat
        /\ r.members # Absent => r.members \in Nat
        /\ r.open # Absent => r.open \in Nat
    BY <1>1, LevelInt
  <1>3. /\ Cardinality(M2 \ {r.user}) <= Cardinality(M \ {r.user}) + 1
        /\ Cardinality(E2 \ {r.user}) <= Cardinality(E \ {r.user}) + 1
    <2>1. Cardinality((M \cup {u}) \ {r.user}) <= Cardinality(M \ {r.user}) + 1
      BY CountAdd
    <2>2. Cardinality((E \cup {u}) \ {r.user}) <= Cardinality(E \ {r.user}) + 1
      BY CountAdd
    <2>3. CASE M2 = M \cup {u} /\ E2 = E
      BY <1>2, <2>1, <2>3
    <2>4. CASE M2 = M /\ E2 = E \cup {u}
      BY <1>2, <2>2, <2>4
    <2> QED
      BY <2>3, <2>4
  <1>4. M2 \cup E2 = (M \cup E) \cup {u}
    OBVIOUS
  <1>5. Cardinality(M2 \cup E2) = IF u \in M \cup E THEN Cardinality(M \cup E) ELSE Cardinality(M \cup E) + 1
    BY <1>2, <1>4, FS_AddElement
  <1>6. Over(M2, E2, a) = IF u \in M \cup E THEN Over(M, E, a) ELSE Over(M, E, a) + 1
    BY <1>2, <1>5, WorkspaceAssumption DEF Over
  <1>7. Unseen(r, M2, E2, a) <= Unseen(r, M, E, a) + 1
    BY <1>2, <1>3 DEF Unseen
  <1>8. CASE ~Admitted(r)
    BY <1>1, <1>6, <1>7, <1>8 DEF Level
  <1>9. CASE Admitted(r)
    <2>1. CASE r.user \in M \cup E
      <3>1. r.user \in M2 \cup E2
        BY <2>1, <1>4
      <3>2. Level(r, M2, E2, a) = Over(M2, E2, a) /\ Level(r, M, E, a) = Over(M, E, a)
        BY <1>9, <2>1, <3>1 DEF Level
      <3>3. Level(r, M2, E2, a) <= Level(r, M, E, a) + 1
        BY <1>2, <1>6, <3>2
      <3> QED
        BY <1>1, <1>6, <3>3
    <2>2. CASE r.user \notin M \cup E
      BY <1>1, <1>2, <1>6, <1>9, <2>2 DEF Level
    <2> QED
      BY <2>1, <2>2
  <1> QED
    BY <1>1, <1>6, <1>8, <1>9

LEMMA OneMoreInvited ==
  ASSUME NEW r \in Request, NEW M, NEW E, NEW a \in Nat, NEW u, IsFiniteSet(M), IsFiniteSet(E)
  PROVE  /\ IsFiniteSet(E \cup {u})
         /\ Over(M, E \cup {u}, a) = IF u \in M \cup E THEN Over(M, E, a) ELSE Over(M, E, a) + 1
         /\ \/ Level(r, M, E \cup {u}, a) <= Level(r, M, E, a) + 1
            \/ Level(r, M, E, a) >= Over(M, E \cup {u}, a)
  <1>1. PICK M2, E2 : M2 = M /\ E2 = E \cup {u}
    OBVIOUS
  <1>2. /\ IsFiniteSet(E2)
        /\ Over(M2, E2, a) = IF u \in M \cup E THEN Over(M, E, a) ELSE Over(M, E, a) + 1
        /\ \/ Level(r, M2, E2, a) <= Level(r, M, E, a) + 1
           \/ Level(r, M, E, a) >= Over(M2, E2, a)
    BY <1>1, OneMoreHeld, Z3T(60)
  <1> QED
    BY <1>1, <1>2

\* Somebody joins by invitation.
LEMMA OneJoins ==
  ASSUME NEW r \in Request, NEW M, NEW E, NEW a \in Nat, NEW M2, NEW E2, NEW u,
         IsFiniteSet(M), IsFiniteSet(E),
         M2 = M \cup {u}, E2 \subseteq E, E \subseteq E2 \cup {u}
  PROVE  /\ IsFiniteSet(M2) /\ IsFiniteSet(E2)
         /\ Over(M2, E2, a + 1) <= Over(M, E, a)
         /\ \/ Level(r, M2, E2, a + 1) <= Level(r, M, E, a)
            \/ Level(r, M, E, a) > Over(M2, E2, a + 1)
  <1>1. IsFiniteSet(M2) /\ IsFiniteSet(E2)
    BY FS_AddElement, FS_Subset
  <1>2. /\ Over(M, E, a) \in Int /\ Over(M2, E2, a + 1) \in Int
        /\ Cardinality(M \cup E) \in Nat /\ IsFiniteSet(M \cup E) /\ Cardinality(M2 \cup E2) \in Nat
        /\ Cardinality(M \ {r.user}) \in Nat /\ Cardinality(E \ {r.user}) \in Nat
        /\ Cardinality(M2 \ {r.user}) \in Nat /\ Cardinality(E2 \ {r.user}) \in Nat
        /\ r.members # Absent => r.members \in Nat
        /\ r.open # Absent => r.open \in Nat
    <2>1. a + 1 \in Nat
      OBVIOUS
    <2> QED
      BY <1>1, <2>1, LevelInt
  <1>3. /\ Cardinality(M2 \ {r.user}) <= Cardinality(M \ {r.user}) + 1
        /\ Cardinality(E2 \ {r.user}) <= Cardinality(E \ {r.user})
    BY CountAdd, CountLess
  <1>4. M2 \cup E2 = (M \cup E) \cup {u}
    OBVIOUS
  <1>5. Cardinality(M2 \cup E2) <= Cardinality(M \cup E) + 1
    <2>1. Cardinality((M \cup E) \cup {u}) = IF u \in M \cup E THEN Cardinality(M \cup E) ELSE Cardinality(M \cup E) + 1
      BY <1>2, FS_AddElement
    <2>2. Cardinality((M \cup E) \cup {u}) <= Cardinality(M \cup E) + 1
      BY <1>2, <2>1
    <2> QED
      BY <1>4, <2>2
  <1>6. Over(M2, E2, a + 1) <= Over(M, E, a)
    BY <1>2, <1>5, WorkspaceAssumption DEF Over
  <1>7. Unseen(r, M2, E2, a + 1) <= Unseen(r, M, E, a)
    BY <1>2, <1>3 DEF Unseen
  <1>8. CASE ~Admitted(r)
    BY <1>1, <1>6, <1>7, <1>8 DEF Level
  <1>9. CASE Admitted(r)
    <2>1. CASE r.user \in M \cup E
      <3>1. r.user \in M2 \cup E2
        BY <2>1, <1>4
      <3>2. Level(r, M2, E2, a + 1) = Over(M2, E2, a + 1) /\ Level(r, M, E, a) = Over(M, E, a)
        BY <1>9, <2>1, <3>1 DEF Level
      <3> QED
        BY <1>1, <1>6, <3>2
    <2>2. CASE r.user \notin M \cup E
      BY <1>1, <1>2, <1>6, <1>9, <2>2 DEF Level
    <2> QED
      BY <2>1, <2>2
  <1> QED
    BY <1>1, <1>6, <1>8, <1>9

LEMMA HeldApart ==
  ASSUME NEW M, NEW E, NEW u, IsFiniteSet(M), IsFiniteSet(E)
  PROVE  Cardinality((M \cup E) \ {u}) <= Cardinality(M \ {u}) + Cardinality(E \ {u})
  <1>1. IsFiniteSet(M \ {u}) /\ IsFiniteSet(E \ {u})
    BY FS_RemoveElement
  <1>2. (M \cup E) \ {u} = (M \ {u}) \cup (E \ {u})
    OBVIOUS
  <1>3. Cardinality((M \ {u}) \cup (E \ {u}))
          = Cardinality(M \ {u}) + Cardinality(E \ {u}) - Cardinality((M \ {u}) \cap (E \ {u}))
    BY <1>1, FS_Union
  <1>4. IsFiniteSet((M \ {u}) \cap (E \ {u}))
    BY <1>1, FS_Subset
  <1>5. Cardinality((M \ {u}) \cap (E \ {u})) \in Nat /\ Cardinality(M \ {u}) \in Nat /\ Cardinality(E \ {u}) \in Nat
    BY <1>1, <1>4, FS_CardinalityType
  <1>6. Cardinality((M \ {u}) \cup (E \ {u})) <= Cardinality(M \ {u}) + Cardinality(E \ {u})
    BY <1>3, <1>5
  <1> QED
    BY <1>2, <1>6

\* A request makes a count, c of the members or n of the invitations.
LEMMA MembersCounted ==
  ASSUME NEW r \in Request, NEW r2 \in Request, NEW M, NEW E, NEW a \in Nat,
         IsFiniteSet(M), IsFiniteSet(E), r.pc = "seats", r.members = Absent,
         r2 = [r EXCEPT !.members = Cardinality(M)]
  PROVE  \/ Level(r2, M, E, a) <= Level(r, M, E, a)
         \/ Level(r2, M, E, a) <= 0
         \/ Level(r, M, E, a) > Over(M, E, a)
  <1>1. /\ r2.pc = "seats" /\ r2.user = r.user /\ r2.open = r.open /\ r2.members = Cardinality(M)
    BY DEF Request
  <1>2. /\ Over(M, E, a) \in Int
        /\ Cardinality(M \cup E) \in Nat /\ IsFiniteSet(M \cup E) /\ Cardinality(M) \in Nat
        /\ Cardinality(M \ {r.user}) \in Nat /\ Cardinality(E \ {r.user}) \in Nat
        /\ r.open # Absent => r.open \in Nat
        /\ Cardinality(M) # Absent
    <2>1. Cardinality(M) \in Nat
      BY FS_CardinalityType
    <2> QED
      BY <2>1, LevelInt, WorkspaceAssumption
  <1>3. Cardinality(M \ {r.user}) <= Cardinality(M)
    BY CountLess
  <1>4. CASE r.open = Absent
    <2>1. ~Admitted(r2)
      BY <1>1, <1>4 DEF Admitted
    <2>2. Unseen(r2, M, E, a) = Cardinality(M \ {r.user}) - Cardinality(M) - a
      BY <1>1, <1>2, <1>4 DEF Unseen
    <2> QED
      BY <1>2, <1>3, <2>1, <2>2 DEF Level
  <1>5. CASE r.open # Absent
    <2>1. ~Admitted(r) /\ Level(r, M, E, a) = Cardinality(E \ {r.user}) - r.open
      BY <1>5 DEF Admitted, Level, Unseen
    <2>2. CASE ~(Cardinality(M) + r.open < Seats)
      <3>1. ~Admitted(r2)
        BY <1>1, <2>2 DEF Admitted
      <3>2. Unseen(r2, M, E, a) = 0
        BY <1>1, <1>2, <1>5 DEF Unseen
      <3> QED
        BY <3>1, <3>2 DEF Level
    <2>3. CASE Cardinality(M) + r.open < Seats
      <3>1. Admitted(r2)
        BY <1>1, <1>2, <1>5, <2>3 DEF Admitted
      <3>2. Cardinality((M \cup E) \ {r.user}) <= Cardinality(M \ {r.user}) + Cardinality(E \ {r.user})
        BY HeldApart
      <3>3. Cardinality(M \cup E) = IF r.user \in M \cup E THEN Cardinality((M \cup E) \ {r.user}) + 1
                                    ELSE Cardinality((M \cup E) \ {r.user})
        <4>1. Cardinality((M \cup E) \ {r.user}) = IF r.user \in M \cup E THEN Cardinality(M \cup E) - 1
                                                  ELSE Cardinality(M \cup E)
          BY <1>2, FS_RemoveElement
        <4> QED
          BY <1>2, <4>1
      <3>4. Cardinality((M \cup E) \ {r.user}) \in Nat
        BY <1>2, CountAdd
      <3>5. CASE r.user \in M \cup E
        <4>1. Level(r2, M, E, a) = Cardinality(M \cup E) - Seats - a
          BY <1>1, <3>1, <3>5 DEF Level, Over
        <4> QED
          BY <1>2, <1>3, <1>5, <2>1, <2>3, <3>2, <3>3, <3>4, <3>5, <4>1, WorkspaceAssumption
      <3>6. CASE r.user \notin M \cup E
        <4>1. Over(M, E, a) = Cardinality(M \cup E) - Seats - a
          BY DEF Over
        <4> QED
          BY <1>2, <1>3, <1>5, <2>1, <2>3, <3>2, <3>3, <3>4, <3>6, <4>1, WorkspaceAssumption
      <3> QED
        BY <3>5, <3>6
    <2> QED
      BY <2>2, <2>3
  <1> QED
    BY <1>4, <1>5

LEMMA InvitesCounted ==
  ASSUME NEW r \in Request, NEW r2 \in Request, NEW M, NEW E, NEW a \in Nat, NEW n \in Nat,
         IsFiniteSet(M), IsFiniteSet(E), r.pc = "seats", r.open = Absent,
         n >= Cardinality(E \ {r.user}),
         r2 = [r EXCEPT !.open = n]
  PROVE  \/ Level(r2, M, E, a) <= Level(r, M, E, a)
         \/ Level(r2, M, E, a) <= 0
         \/ Level(r, M, E, a) > Over(M, E, a)
  <1>1. /\ r2.pc = "seats" /\ r2.user = r.user /\ r2.open = n /\ r2.members = r.members
    BY DEF Request
  <1>2. /\ Over(M, E, a) \in Int
        /\ Cardinality(M \cup E) \in Nat /\ IsFiniteSet(M \cup E)
        /\ Cardinality(M \ {r.user}) \in Nat /\ Cardinality(E \ {r.user}) \in Nat
        /\ r.members # Absent => r.members \in Nat
        /\ n # Absent
    BY LevelInt, WorkspaceAssumption
  <1>4. CASE r.members = Absent
    <2>1. ~Admitted(r2)
      BY <1>1, <1>4 DEF Admitted
    <2>2. Unseen(r2, M, E, a) = Cardinality(E \ {r.user}) - n
      BY <1>1, <1>2, <1>4 DEF Unseen
    <2> QED
      BY <1>2, <2>1, <2>2 DEF Level
  <1>5. CASE r.members # Absent
    <2>1. ~Admitted(r) /\ Level(r, M, E, a) = Cardinality(M \ {r.user}) - r.members - a
      BY <1>5 DEF Admitted, Level, Unseen
    <2>2. CASE ~(r.members + n < Seats)
      <3>1. ~Admitted(r2)
        BY <1>1, <2>2 DEF Admitted
      <3>2. Unseen(r2, M, E, a) = 0
        BY <1>1, <1>2, <1>5 DEF Unseen
      <3> QED
        BY <3>1, <3>2 DEF Level
    <2>3. CASE r.members + n < Seats
      <3>1. Admitted(r2)
        BY <1>1, <1>2, <1>5, <2>3 DEF Admitted
      <3>2. Cardinality((M \cup E) \ {r.user}) <= Cardinality(M \ {r.user}) + Cardinality(E \ {r.user})
        BY HeldApart
      <3>3. Cardinality(M \cup E) = IF r.user \in M \cup E THEN Cardinality((M \cup E) \ {r.user}) + 1
                                    ELSE Cardinality((M \cup E) \ {r.user})
        <4>1. Cardinality((M \cup E) \ {r.user}) = IF r.user \in M \cup E THEN Cardinality(M \cup E) - 1
                                                  ELSE Cardinality(M \cup E)
          BY <1>2, FS_RemoveElement
        <4> QED
          BY <1>2, <4>1
      <3>4. Cardinality((M \cup E) \ {r.user}) \in Nat
        BY <1>2, CountAdd
      <3>5. CASE r.user \in M \cup E
        <4>1. Level(r2, M, E, a) = Cardinality(M \cup E) - Seats - a
          BY <1>1, <3>1, <3>5 DEF Level, Over
        <4> QED
          BY <1>2, <1>5, <2>1, <2>3, <3>2, <3>3, <3>4, <3>5, <4>1, WorkspaceAssumption
      <3>6. CASE r.user \notin M \cup E
        <4>1. Over(M, E, a) = Cardinality(M \cup E) - Seats - a
          BY DEF Over
        <4> QED
          BY <1>2, <1>5, <2>1, <2>3, <3>2, <3>3, <3>4, <3>6, <4>1, WorkspaceAssumption
      <3> QED
        BY <3>5, <3>6
    <2> QED
      BY <2>2, <2>3
  <1> QED
    BY <1>4, <1>5

Emails == {invites[i].email : i \in Open}
Accepted == {i \in DOMAIN invites : invites[i].accepted}

\* No count is made before the seats are reached, and the invitation to be
\* replaced, or claimed, is one of the same person.
CountsFit(r, table) ==
    /\ r.pc \in {"member", "open"} => r.members = Absent /\ r.open = Absent
    /\ r.pc = "seats" => r.replaces = 0 \/ (r.replaces \in DOMAIN table /\ table[r.replaces].email = r.user)
    /\ r.pc = "claim" => r.invite \in DOMAIN table /\ table[r.invite].email = r.user

LevelsHold == Levels(req, Members, Emails, Cardinality(Accepted))

SeatsInd == LevelsHold /\ \A p \in Requests : CountsFit(req[p], invites)

LEMMA SeatsFinite ==
  ASSUME WorkspaceType
  PROVE  /\ IsFiniteSet(Members) /\ IsFiniteSet(Emails) /\ IsFiniteSet(Accepted) /\ IsFiniteSet(Open)
         /\ Cardinality(Members) \in Nat /\ Cardinality(Accepted) \in Nat
         /\ Members \subseteq Everybody /\ Emails \subseteq Users
         /\ \A i \in DOMAIN invites : invites[i] \in Invite
         /\ DOMAIN invites = 1..Len(invites) /\ Len(invites) \in Nat
         /\ req \in [Requests -> Request]
  <1>1. DOMAIN invites = 1..Len(invites) /\ Len(invites) \in Nat /\ invites \in Seq(Invite)
    BY DEF WorkspaceType
  <1>2. \A i \in DOMAIN invites : invites[i] \in Invite
    BY <1>1
  <1>3. Emails \subseteq Users
    BY <1>2 DEF Emails, Open, Invite
  <1>4. Accepted \subseteq 1..Len(invites) /\ Open \subseteq 1..Len(invites) /\ IsFiniteSet(1..Len(invites))
    BY <1>1, FS_Interval DEF Accepted, Open
  <1>5. Members \subseteq Everybody /\ IsFiniteSet(Everybody)
    <2>1. IsFiniteSet(Users \cup {Owner})
      BY FS_AddElement, WorkspaceAssumption
    <2> QED
      BY <2>1 DEF Members, Everybody
  <1>6. IsFiniteSet(Members) /\ IsFiniteSet(Emails) /\ IsFiniteSet(Accepted) /\ IsFiniteSet(Open)
    BY <1>3, <1>4, <1>5, FS_Subset, WorkspaceAssumption
  <1> QED
    BY <1>1, <1>2, <1>3, <1>5, <1>6, FS_CardinalityType DEF WorkspaceType

\* Whoever waits for nothing is not behind.
LEMMA NotCounting ==
  ASSUME NEW r, NEW M, NEW E, NEW a,
         r.pc \in {"idle", "member", "open", "claim", "delete"}
         \/ (r.pc = "seats" /\ r.members = Absent /\ r.open = Absent)
  PROVE  Level(r, M, E, a) = 0
  BY DEF Level, Admitted, Unseen

LEMMA NoReqLevel ==
  ASSUME NEW M, NEW E, NEW a
  PROVE  Level(NoReq, M, E, a) = 0
  BY NotCounting DEF NoReq

LEMMA NoReqCounts ==
  ASSUME NEW table
  PROVE  CountsFit(NoReq, table)
  BY DEF CountsFit, NoReq

LEMMA SeatsInitInd ==
  ASSUME WorkspaceInit, WorkspaceInd, Seats # 0, Requests # {}
  PROVE  SeatsInd
  <1>1. /\ IsFiniteSet(Members) /\ IsFiniteSet(Emails) /\ Cardinality(Accepted) \in Nat
    BY SeatsFinite DEF WorkspaceInd
  <1>2. \A p \in Requests : req[p] = NoReq
    BY DEF WorkspaceInit
  <1>3. \A p \in Requests : CountsFit(req[p], invites)
    BY <1>2, NoReqCounts
  <1>4. Members \cup Emails = {Owner}
    <2>1. Members = {Owner}
      BY WorkspaceAssumption DEF WorkspaceInit, Members, Everybody
    <2>2. DOMAIN invites = {}
      BY DEF WorkspaceInit
    <2>3. Emails = {}
      BY <2>2 DEF Emails, Open
    <2> QED
      BY <2>1, <2>3
  <1>5. Over(Members, Emails, Cardinality(Accepted)) <= 0
    <2>1. Cardinality(Members \cup Emails) = 1
      BY <1>4, FS_Singleton
    <2> QED
      BY <1>1, <2>1, WorkspaceAssumption DEF Over
  <1>6. Cardinality(Behind(req, Members, Emails, Cardinality(Accepted), 0)) >= 1
    <2>1. Behind(req, Members, Emails, Cardinality(Accepted), 0) = Requests
      BY <1>2, NoReqLevel DEF Behind
    <2>2. Cardinality(Requests) \in Nat /\ Cardinality(Requests) # 0
      BY FS_CardinalityType, FS_EmptySet, WorkspaceAssumption
    <2> QED
      BY <2>1, <2>2
  <1>7. Over(Members, Emails, Cardinality(Accepted)) \in Int
    BY <1>1, LevelInt, NoReqFits
  <1>8. ASSUME NEW j \in 0..Over(Members, Emails, Cardinality(Accepted))
        PROVE  Cardinality(Behind(req, Members, Emails, Cardinality(Accepted), j)) >= j + 1
    <2>1. j = 0
      BY <1>5, <1>7
    <2> QED
      BY <1>6, <2>1
  <1> QED
    BY <1>3, <1>8 DEF SeatsInd, LevelsHold, Levels

\* A request moves, and neither members nor invitations do.
LEMMA SeatsMove ==
  ASSUME WorkspaceInd, WorkspaceInd', SeatsInd, NEW p \in Requests, NEW r \in Request,
         CountsFit(r, invites), req' = [req EXCEPT ![p] = r], UNCHANGED <<members, invites>>,
         \/ Level(r, Members, Emails, Cardinality(Accepted)) <= Level(req[p], Members, Emails, Cardinality(Accepted))
         \/ Level(r, Members, Emails, Cardinality(Accepted)) <= 0
         \/ Level(req[p], Members, Emails, Cardinality(Accepted)) > Over(Members, Emails, Cardinality(Accepted))
  PROVE  SeatsInd'
  <1>1. PICK M, E, a : M = Members /\ E = Emails /\ a = Cardinality(Accepted)
    OBVIOUS
  <1>2. IsFiniteSet(M) /\ IsFiniteSet(E) /\ a \in Nat /\ req \in [Requests -> Request] /\ req' \in [Requests -> Request]
    BY <1>1, SeatsFinite DEF WorkspaceInd, WorkspaceType
  <1>3. M = Members' /\ E = Emails' /\ a = Cardinality(Accepted')
    BY <1>1 DEF Members, Emails, Open, Accepted
  <1>4. req'[p] = r /\ \A q \in Requests \ {p} : req'[q] = req[q]
    BY <1>2
  <1>5. Over(M, E, a) \in Int /\ \A q \in Requests : Level(req[q], M, E, a) \in Int
    BY <1>2, LevelInt
  <1>6. \A q \in Requests : \/ Level(req'[q], M, E, a) <= Level(req[q], M, E, a)
                            \/ Level(req'[q], M, E, a) <= 0
                            \/ Level(req[q], M, E, a) > Over(M, E, a)
    BY <1>1, <1>4, <1>5
  <1>7. Levels(req, M, E, a)
    BY <1>1 DEF SeatsInd, LevelsHold
  <1>8. Levels(req', M, E, a)
    <2>1. PICK R, R2 : R = req /\ R2 = req'
      OBVIOUS
    <2>2. Over(M, E, a) <= Over(M, E, a)
      BY <1>5
    <2>3. Levels(R2, M, E, a)
      BY <1>2, <1>6, <1>7, <2>1, <2>2, LevelsStay
    <2> QED
      BY <2>1, <2>3
  <1>9. LevelsHold'
    BY <1>3, <1>8 DEF LevelsHold
  <1>10. \A q \in Requests : CountsFit(req'[q], invites')
    BY <1>4 DEF SeatsInd
  <1> QED
    BY <1>9, <1>10 DEF SeatsInd

LEMMA SeatsEnd ==
  ASSUME WorkspaceInd, WorkspaceInd', SeatsInd, NEW p \in Requests, ReqEnds(p), UNCHANGED <<members, invites>>
  PROVE  SeatsInd'
  <1>1. NoReq \in Request /\ CountsFit(NoReq, invites) /\ Level(NoReq, Members, Emails, Cardinality(Accepted)) <= 0
    BY NoReqFits, NoReqCounts, NoReqLevel
  <1>2. req' = [req EXCEPT ![p] = NoReq]
    BY DEF ReqEnds
  <1> QED
    BY <1>1, <1>2, SeatsMove

LEMMA SeatsCount ==
  ASSUME WorkspaceInd, WorkspaceInd', SeatsInd, NEW p \in Requests, CountMembers(p) \/ CountInvites(p)
  PROVE  SeatsInd'
  <1> USE DEF ReqAt
  <1>0. req[p] \in Request /\ CountsFit(req[p], invites) /\ req[p].pc = "seats"
    BY DEF WorkspaceInd, WorkspaceType, SeatsInd, CountMembers, CountInvites
  <1>1. PICK M, E, a : M = Members /\ E = Emails /\ a = Cardinality(Accepted)
    OBVIOUS
  <1>2. /\ IsFiniteSet(M) /\ IsFiniteSet(E) /\ a \in Nat /\ Cardinality(M) \in Nat
        /\ IsFiniteSet(Open) /\ \A i \in DOMAIN invites : invites[i] \in Invite
    BY <1>1, SeatsFinite DEF WorkspaceInd, WorkspaceType
  <1>3. CASE CountMembers(p)
    <2>1. PICK r : r = [req[p] EXCEPT !.members = Cardinality(M)]
      OBVIOUS
    <2>2. r \in Request /\ r.pc = "seats" /\ r.replaces = req[p].replaces /\ r.user = req[p].user
      BY <1>0, <1>2, <2>1 DEF Request
    <2>3. CountsFit(r, invites)
      BY <1>0, <2>2 DEF CountsFit
    <2>4. \/ Level(r, M, E, a) <= Level(req[p], M, E, a)
          \/ Level(r, M, E, a) <= 0
          \/ Level(req[p], M, E, a) > Over(M, E, a)
      BY <1>0, <1>2, <1>3, <2>1, <2>2, MembersCounted DEF CountMembers
    <2>5. req' = [req EXCEPT ![p] = r] /\ UNCHANGED <<members, invites>>
      BY <1>1, <1>3, <2>1 DEF CountMembers
    <2> QED
      BY <1>1, <2>2, <2>3, <2>4, <2>5, SeatsMove
  <1>4. CASE CountInvites(p)
    <2>0. PICK n : n = Cardinality(Open \ {req[p].replaces})
      OBVIOUS
    <2>1. PICK r : r = [req[p] EXCEPT !.open = n]
      OBVIOUS
    <2>2. n \in Nat
      BY <2>0, FiniteWorkspace DEF WorkspaceInd
    <2>3. r \in Request /\ r.pc = "seats" /\ r.replaces = req[p].replaces /\ r.user = req[p].user
      BY <1>0, <2>1, <2>2 DEF Request
    <2>4. CountsFit(r, invites)
      BY <1>0, <2>3 DEF CountsFit
    <2>5. n >= Cardinality(E \ {req[p].user})
      <3>1. PICK S, T : S = Open \ {req[p].replaces} /\ T = {invites[i].email : i \in S}
        OBVIOUS
      <3>2. IsFiniteSet(S)
        BY <1>2, <3>1, FS_RemoveElement
      <3>3. [i \in S |-> invites[i].email] \in Surjection(S, T)
        BY <3>1 DEF Surjection
      <3>4. IsFiniteSet(T) /\ Cardinality(T) <= Cardinality(S)
        BY <3>2, <3>3, FS_Surjection
      <3>5. E \ {req[p].user} \subseteq T
        <4> SUFFICES ASSUME NEW e \in E, e # req[p].user PROVE e \in T
          OBVIOUS
        <4>1. PICK i \in Open : e = invites[i].email
          BY <1>1 DEF Emails
        <4>2. i # req[p].replaces
          <5>1. i \in DOMAIN invites /\ i # 0
            BY <1>2, SeatsFinite DEF Open, WorkspaceInd
          <5> QED
            BY <1>0, <4>1, <5>1 DEF CountsFit
        <4> QED
          BY <3>1, <4>1, <4>2
      <3>6. Cardinality(E \ {req[p].user}) <= Cardinality(T)
        BY <3>4, <3>5, FS_Subset
      <3>7. Cardinality(S) \in Nat /\ Cardinality(T) \in Nat /\ Cardinality(E \ {req[p].user}) \in Nat
        BY <1>2, <3>2, <3>4, FS_RemoveElement, FS_CardinalityType
      <3> QED
        BY <2>0, <3>1, <3>4, <3>6, <3>7
    <2>6. \/ Level(r, M, E, a) <= Level(req[p], M, E, a)
          \/ Level(r, M, E, a) <= 0
          \/ Level(req[p], M, E, a) > Over(M, E, a)
      BY <1>0, <1>2, <1>4, <2>1, <2>2, <2>3, <2>5, InvitesCounted DEF CountInvites
    <2>7. req' = [req EXCEPT ![p] = r] /\ UNCHANGED <<members, invites>>
      BY <1>4, <2>0, <2>1 DEF CountInvites
    <2> QED
      BY <1>1, <2>3, <2>4, <2>6, <2>7, SeatsMove
  <1> QED
    BY <1>3, <1>4

\* A request that counts nothing yet moves to a point where it counts nothing yet.
LEMMA SeatsBefore ==
  ASSUME WorkspaceInd, WorkspaceInd', SeatsInd, NEW p \in Requests, NEW r \in Request,
         CountsFit(r, invites), req' = [req EXCEPT ![p] = r], UNCHANGED <<members, invites>>,
         r.pc \in {"member", "open", "claim", "delete"} \/ (r.pc = "seats" /\ r.members = Absent /\ r.open = Absent)
  PROVE  SeatsInd'
  <1>1. Level(r, Members, Emails, Cardinality(Accepted)) = 0
    BY NotCounting
  <1>2. Level(r, Members, Emails, Cardinality(Accepted)) <= 0
    BY <1>1
  <1> QED
    BY <1>2, SeatsMove

LEMMA SeatsBegin ==
  ASSUME WorkspaceInd, WorkspaceInd', SeatsInd, NEW p \in Requests,
         \/ \E user \in Users, role \in Roles : InviteBegins(p, user, role)
         \/ \E i \in DOMAIN invites : AcceptBegins(p, i)
         \/ \E user \in Everybody, role \in Roles : AddBegins(p, user, role)
         \/ \E user \in Users : RemoveBegins(p, user)
  PROVE  SeatsInd'
  <1>1. /\ NoReq \in Request
        /\ NoReq.members = Absent /\ NoReq.open = Absent /\ NoReq.replaces = 0
    BY NoReqFits DEF NoReq
  <1>2. ASSUME NEW r, ReqBegins(p, r), r.members = Absent, r.open = Absent, r.replaces = 0,
               r.pc \in {"member", "seats", "claim", "delete"}, CountsFit(r, invites)
        PROVE  SeatsInd'
    <2>1. req' = [req EXCEPT ![p] = r] /\ UNCHANGED <<members, invites>>
      BY <1>2 DEF ReqBegins
    <2>2. r \in Request
      BY <2>1 DEF WorkspaceInd, WorkspaceType
    <2> QED
      BY <1>2, <2>1, <2>2, SeatsBefore
  <1>3. ASSUME NEW user \in Users, NEW role \in Roles, InviteBegins(p, user, role) PROVE SeatsInd'
    <2>1. PICK r : r = [NoReq EXCEPT !.op = "invite", !.pc = "member", !.user = user, !.role = role]
      OBVIOUS
    <2>2. r.members = Absent /\ r.open = Absent /\ r.replaces = 0 /\ r.pc = "member"
      BY <1>1, <2>1 DEF Request
    <2> QED
      BY <1>2, <1>3, <2>1, <2>2 DEF InviteBegins, CountsFit
  <1>4. ASSUME NEW i \in DOMAIN invites, AcceptBegins(p, i) PROVE SeatsInd'
    <2>1. PICK r : r = [NoReq EXCEPT !.op = "accept", !.pc = "claim", !.user = invites[i].email, !.invite = i]
      OBVIOUS
    <2>2. /\ r.members = Absent /\ r.open = Absent /\ r.replaces = 0 /\ r.pc = "claim"
          /\ r.user = invites[i].email /\ r.invite = i
      BY <1>1, <2>1 DEF Request
    <2> QED
      BY <1>2, <1>4, <2>1, <2>2 DEF AcceptBegins, CountsFit
  <1>5. ASSUME NEW user \in Everybody, NEW role \in Roles, AddBegins(p, user, role) PROVE SeatsInd'
    <2>1. PICK r : r = [NoReq EXCEPT !.op = "add", !.pc = "seats", !.user = user, !.role = role]
      OBVIOUS
    <2>2. r.members = Absent /\ r.open = Absent /\ r.replaces = 0 /\ r.pc = "seats"
      BY <1>1, <2>1 DEF Request
    <2> QED
      BY <1>2, <1>5, <2>1, <2>2 DEF AddBegins, CountsFit
  <1>6. ASSUME NEW user \in Users, RemoveBegins(p, user) PROVE SeatsInd'
    <2>1. PICK r : r = [NoReq EXCEPT !.op = "remove", !.pc = "delete", !.user = user]
      OBVIOUS
    <2>2. r.members = Absent /\ r.open = Absent /\ r.replaces = 0 /\ r.pc = "delete"
      BY <1>1, <2>1 DEF Request
    <2> QED
      BY <1>2, <1>6, <2>1, <2>2 DEF RemoveBegins, CountsFit
  <1> QED
    BY <1>3, <1>4, <1>5, <1>6

LEMMA SeatsBeforeCounting ==
  ASSUME WorkspaceInd, WorkspaceInd', SeatsInd, NEW p \in Requests, InviteMember(p) \/ InviteOpen(p)
  PROVE  SeatsInd'
  <1>0. req[p] \in Request /\ CountsFit(req[p], invites)
    BY DEF WorkspaceInd, WorkspaceType, SeatsInd
  <1>1. req[p].members = Absent /\ req[p].open = Absent
    BY <1>0 DEF InviteMember, InviteOpen, ReqAt, CountsFit
  <1>2. CASE InviteMember(p)
    <2>1. CASE ReqEnds(p)
      BY <1>2, <2>1, SeatsEnd DEF InviteMember
    <2>2. CASE ReqGoes(p, "open")
      <3>1. PICK r : r = [req[p] EXCEPT !.pc = "open"]
        OBVIOUS
      <3>2. r \in Request /\ r.pc = "open" /\ r.members = Absent /\ r.open = Absent
        BY <1>0, <1>1, <3>1 DEF Request
      <3>3. CountsFit(r, invites)
        BY <3>2 DEF CountsFit
      <3> QED
        BY <1>2, <2>2, <3>1, <3>2, <3>3, SeatsBefore DEF InviteMember, ReqGoes
    <2> QED
      BY <1>2, <2>1, <2>2 DEF InviteMember
  <1>3. CASE InviteOpen(p)
    <2> DEFINE mine == {i \in Open : invites[i].email = req[p].user}
    <2>1. PICK i \in IF mine = {} THEN {0} ELSE mine : req' = [req EXCEPT ![p].pc = "seats", ![p].replaces = i]
      BY <1>3 DEF InviteOpen
    <2>2. i = 0 \/ (i \in DOMAIN invites /\ invites[i].email = req[p].user)
      BY DEF Open
    <2>3. PICK r : r = [req[p] EXCEPT !.pc = "seats", !.replaces = i]
      OBVIOUS
    <2>4. r.pc = "seats" /\ r.members = Absent /\ r.open = Absent /\ r.replaces = i /\ r.user = req[p].user
      BY <1>0, <1>1, <2>3 DEF Request
    <2>5. req' = [req EXCEPT ![p] = r]
      BY <2>1, <2>3
    <2>6. r \in Request
      BY <2>5 DEF WorkspaceInd, WorkspaceType
    <2>7. CountsFit(r, invites)
      BY <2>2, <2>4 DEF CountsFit
    <2> QED
      BY <1>3, <2>4, <2>5, <2>6, <2>7, SeatsBefore DEF InviteOpen
  <1> QED
    BY <1>2, <1>3

\* What was admitted stays admitted until it is done.
LEMMA SeatsAdmitted ==
  ASSUME WorkspaceInd, WorkspaceInd', SeatsInd, NEW p \in Requests, SeatsCounted(p) \/ AddExisting(p)
  PROVE  SeatsInd'
  <1>0. req[p] \in Request /\ UNCHANGED <<members, invites>>
    BY DEF WorkspaceInd, WorkspaceType, SeatsCounted, AddExisting
  <1>1. ASSUME NEW point \in {"revoke", "existing", "upsert"}, ReqGoes(p, point), Admitted(req[p])
        PROVE  SeatsInd'
    <2>1. PICK r : r = [req[p] EXCEPT !.pc = point]
      OBVIOUS
    <2>2. r.pc = point /\ r.user = req[p].user
      BY <1>0, <2>1 DEF Request
    <2>3. req' = [req EXCEPT ![p] = r]
      BY <1>1, <2>1 DEF ReqGoes
    <2>4. r \in Request
      BY <2>3 DEF WorkspaceInd, WorkspaceType
    <2>5. Level(r, Members, Emails, Cardinality(Accepted)) = Level(req[p], Members, Emails, Cardinality(Accepted))
      BY <1>1, <2>2 DEF Level, Admitted
    <2>6. Level(r, Members, Emails, Cardinality(Accepted)) \in Int
      BY <2>4, LevelInt, SeatsFinite DEF WorkspaceInd
    <2>7. Level(r, Members, Emails, Cardinality(Accepted)) <= Level(req[p], Members, Emails, Cardinality(Accepted))
      BY <2>5, <2>6
    <2>8. CountsFit(r, invites)
      BY <2>2 DEF CountsFit
    <2> QED
      BY <1>0, <2>3, <2>4, <2>7, <2>8, SeatsMove
  <1>2. CASE SeatsCounted(p)
    <2>1. CASE SeatFree(p)
      <3>1. Admitted(req[p])
        BY <1>2, <2>1 DEF SeatsCounted, SeatFree, ReqAt, Admitted
      <3> QED
        BY <1>1, <1>2, <2>1, <3>1 DEF SeatsCounted
    <2>2. CASE ~SeatFree(p)
      BY <1>0, <1>2, <2>2, SeatsEnd DEF SeatsCounted
    <2> QED
      BY <2>1, <2>2
  <1>3. CASE AddExisting(p)
    <2>1. Admitted(req[p])
      BY <1>3 DEF AddExisting, ReqAt, Admitted
    <2> QED
      BY <1>0, <1>1, <1>3, <2>1, SeatsEnd DEF AddExisting
  <1> QED
    BY <1>2, <1>3

\* People leave or their invitations do, while requests go on as they were.
LEMMA SeatsFewer ==
  ASSUME WorkspaceInd, WorkspaceInd', SeatsInd,
         Members' \subseteq Members, Emails' \subseteq Emails, Accepted' = Accepted,
         \A q \in Requests : CountsFit(req'[q], invites'),
         \A q \in Requests : \/ req'[q] = req[q] \/ req'[q] = NoReq
                             \/ Admitted(req[q]) /\ Admitted(req'[q]) /\ req'[q].user = req[q].user
  PROVE  SeatsInd'
  <1>1. PICK M, E, a, M2, E2, R, R2 :
          M = Members /\ E = Emails /\ a = Cardinality(Accepted) /\ M2 = Members' /\ E2 = Emails' /\ R = req /\ R2 = req'
    OBVIOUS
  <1>2. /\ IsFiniteSet(M) /\ IsFiniteSet(E) /\ a \in Nat /\ M2 \subseteq M /\ E2 \subseteq E
        /\ R \in [Requests -> Request] /\ R2 \in [Requests -> Request] /\ Levels(R, M, E, a)
    BY <1>1, SeatsFinite DEF WorkspaceInd, WorkspaceType, SeatsInd, LevelsHold
  <1>3. IsFiniteSet(M2) /\ IsFiniteSet(E2)
    BY <1>2, FS_Subset
  <1>4. Over(M2, E2, a) <= Over(M, E, a)
    BY <1>2, NoReqFits, FewerHeld
  <1>5. ASSUME NEW q \in Requests
        PROVE  \/ Level(R2[q], M2, E2, a) <= Level(R[q], M, E, a)
               \/ Level(R2[q], M2, E2, a) <= 0
               \/ Level(R[q], M, E, a) > Over(M2, E2, a)
    <2>1. \/ Level(R[q], M2, E2, a) <= Level(R[q], M, E, a)
          \/ Level(R[q], M, E, a) > Over(M2, E2, a)
      BY <1>2, FewerHeld
    <2>2. CASE R2[q] = R[q]
      BY <2>1, <2>2
    <2>3. CASE R2[q] = NoReq
      <3>1. Level(R2[q], M2, E2, a) = 0
        BY <2>3, NoReqLevel
      <3> QED
        BY <3>1
    <2>4. CASE Admitted(R[q]) /\ Admitted(R2[q]) /\ R2[q].user = R[q].user
      <3>1. Level(R2[q], M2, E2, a) = Level(R[q], M2, E2, a)
        BY <2>4 DEF Level
      <3> QED
        BY <2>1, <3>1
    <2> QED
      BY <1>1, <2>2, <2>3, <2>4
  <1>6. Levels(R2, M2, E2, a)
    BY <1>2, <1>3, <1>4, <1>5, LevelsStay
  <1>7. LevelsHold'
    BY <1>1, <1>6 DEF LevelsHold
  <1> QED
    BY <1>7 DEF SeatsInd

LEMMA CountsFitStay ==
  ASSUME NEW r, NEW table, NEW table2, CountsFit(r, table), DOMAIN table \subseteq DOMAIN table2,
         \A i \in DOMAIN table : table2[i].email = table[i].email
  PROVE  CountsFit(r, table2)
  BY DEF CountsFit

\* An invitation is revoked or expires.
LEMMA SeatsMarked ==
  ASSUME WorkspaceInd, WorkspaceInd', SeatsInd,
         \/ \E p \in Requests : InviteReplaces(p)
         \/ \E i \in DOMAIN invites : RevokeInvite(i) \/ Expire(i)
  PROVE  SeatsInd'
  <1>0. /\ \A k \in DOMAIN invites : invites[k] \in Invite
        /\ req \in [Requests -> Request]
    BY SeatsFinite DEF WorkspaceInd
  <1>1. /\ DOMAIN invites' = DOMAIN invites
        /\ \A k \in DOMAIN invites : /\ invites'[k].email = invites[k].email /\ invites'[k].accepted = invites[k].accepted
                                     /\ invites[k].revoked => invites'[k].revoked
                                     /\ invites[k].expired => invites'[k].expired
    <2>1. ASSUME NEW p \in Requests, InviteReplaces(p)
          PROVE  <1>1!1 /\ <1>1!2
      BY <1>0, <2>1 DEF InviteReplaces, Invite
    <2>2. ASSUME NEW i \in DOMAIN invites, RevokeInvite(i)
          PROVE  <1>1!1 /\ <1>1!2
      BY <1>0, <2>2 DEF RevokeInvite, Invite
    <2>3. ASSUME NEW i \in DOMAIN invites, Expire(i)
          PROVE  <1>1!1 /\ <1>1!2
      BY <1>0, <2>3 DEF Expire, Invite
    <2> QED
      BY <2>1, <2>2, <2>3
  <1>2. Open' \subseteq Open
    BY <1>1 DEF Open
  <1>3. Emails' \subseteq Emails
    BY <1>1, <1>2 DEF Emails, Open
  <1>4. Accepted' = Accepted
    BY <1>1 DEF Accepted
  <1>5. Members' = Members
    BY DEF Members, InviteReplaces, RevokeInvite, Expire
  <1>6. ASSUME NEW q \in Requests
        PROVE  /\ req'[q] = req[q] \/ (Admitted(req[q]) /\ Admitted(req'[q]) /\ req'[q].user = req[q].user)
               /\ CountsFit(req'[q], invites)
    <2>1. CASE \E i \in DOMAIN invites : RevokeInvite(i) \/ Expire(i)
      <3>1. req' = req
        BY <2>1 DEF RevokeInvite, Expire
      <3> QED
        BY <3>1 DEF SeatsInd
    <2>2. ASSUME NEW p \in Requests, InviteReplaces(p)
          PROVE  <1>6!2
      <3>1. req' = [req EXCEPT ![p].pc = "create"] /\ req[p].pc = "revoke"
        BY <2>2 DEF InviteReplaces, ReqGoes, ReqAt
      <3>2. CASE q # p
        <4>1. req'[q] = req[q]
          BY <1>0, <3>1, <3>2
        <4> QED
          BY <4>1 DEF SeatsInd
      <3>3. CASE q = p
        <4>1. req'[q].pc = "create" /\ req'[q].user = req[q].user
          BY <1>0, <3>1, <3>3 DEF Request
        <4> QED
          BY <3>1, <3>3, <4>1 DEF Admitted, CountsFit
      <3> QED
        BY <3>2, <3>3
    <2> QED
      BY <2>1, <2>2
  <1>7. \A q \in Requests : CountsFit(req'[q], invites')
    BY <1>1, <1>6, CountsFitStay
  <1> QED
    BY <1>3, <1>4, <1>5, <1>6, <1>7, SeatsFewer

LEMMA SeatsRemoved ==
  ASSUME WorkspaceInd, WorkspaceInd', SeatsInd, NEW p \in Requests, RemoveMember(p)
  PROVE  SeatsInd'
  <1>1. members \in [Everybody -> Roles \cup {"OWNER", Absent}] /\ members' = [members EXCEPT ![req[p].user] = Absent]
        /\ invites' = invites
    BY DEF WorkspaceInd, WorkspaceType, RemoveMember
  <1>2. Members' \subseteq Members
    BY <1>1 DEF Members
  <1>3. Emails' = Emails /\ Accepted' = Accepted
    BY <1>1 DEF Emails, Open, Accepted
  <1>4. \A q \in Requests : req'[q] = req[q] \/ req'[q] = NoReq
    BY DEF RemoveMember
  <1>5. \A q \in Requests : CountsFit(req'[q], invites')
    BY <1>1, <1>4, NoReqCounts DEF SeatsInd
  <1> QED
    BY <1>2, <1>3, <1>4, <1>5, SeatsFewer

\* An admitted request adds its member or its invitation, and is done.
LEMMA SeatsAdded ==
  ASSUME WorkspaceInd, WorkspaceInd', SeatsInd, NEW p \in Requests, AddUpsert(p) \/ InviteCreated(p)
  PROVE  SeatsInd'
  <1>1. PICK M, E, a, M2, E2, R, R2, u :
          /\ M = Members /\ E = Emails /\ a = Cardinality(Accepted) /\ M2 = Members' /\ E2 = Emails'
          /\ R = req /\ R2 = req' /\ u = req[p].user
    OBVIOUS
  <1>2. /\ IsFiniteSet(M) /\ IsFiniteSet(E) /\ a \in Nat
        /\ R \in [Requests -> Request] /\ R2 \in [Requests -> Request] /\ Levels(R, M, E, a)
    BY <1>1, SeatsFinite DEF WorkspaceInd, WorkspaceType, SeatsInd, LevelsHold
  <1>3. ReqEnds(p) /\ Admitted(req[p]) /\ ReqFits(req[p], invites) /\ req[p] \in Request
    BY DEF AddUpsert, InviteCreated, ReqAt, Admitted, WorkspaceInd, WorkspaceType, ReqsFit
  <1>4. R2[p] = NoReq /\ \A q \in Requests \ {p} : R2[q] = R[q]
    BY <1>1, <1>2, <1>3 DEF ReqEnds
  <1>5. /\ (M2 = M \cup {u} /\ E2 = E) \/ (M2 = M /\ E2 = E \cup {u})
        /\ Accepted' = Accepted
        /\ DOMAIN invites \subseteq DOMAIN invites' /\ \A i \in DOMAIN invites : invites'[i] = invites[i]
    <2>1. CASE AddUpsert(p)
      <3>1. /\ members' = [members EXCEPT ![u] = req[p].role] /\ invites' = invites
            /\ members \in [Everybody -> Roles \cup {"OWNER", Absent}]
        BY <1>1, <2>1 DEF AddUpsert, WorkspaceInd, WorkspaceType
      <3>2. u \in Everybody /\ req[p].role \in Roles
        BY <1>1, <1>3, <2>1 DEF AddUpsert, ReqAt, ReqFits
      <3>3. req[p].role # Absent
        BY <3>2, WorkspaceAssumption
      <3>4. Members' = Members \cup {u}
        BY <3>1, <3>2, <3>3 DEF Members
      <3>5. Emails' = Emails /\ Accepted' = Accepted
        BY <3>1 DEF Emails, Open, Accepted
      <3> QED
        BY <1>1, <3>1, <3>4, <3>5
    <2>2. CASE InviteCreated(p)
      <3>1. PICK i : i = [email |-> u, role |-> req[p].role, accepted |-> FALSE, revoked |-> FALSE, expired |-> FALSE]
        OBVIOUS
      <3>2. invites' = Append(invites, i) /\ members' = members
        BY <1>1, <2>2, <3>1 DEF InviteCreated
      <3>3. i.email = u /\ i.accepted = FALSE /\ i.revoked = FALSE /\ i.expired = FALSE
        BY <3>1
      <3>4. invites \in Seq(Invite) /\ Len(invites) \in Nat
        BY DEF WorkspaceInd, WorkspaceType
      <3>5. /\ DOMAIN invites = 1..Len(invites) /\ DOMAIN invites' = 1..(Len(invites) + 1)
            /\ invites'[Len(invites) + 1] = i
            /\ \A k \in DOMAIN invites : invites'[k] = invites[k]
        <4>1. invites' \in Seq(Invite \cup {i}) /\ Len(invites') = Len(invites) + 1
          BY <3>2, <3>4
        <4> QED
          BY <3>2, <3>4, <4>1
      <3>6. DOMAIN invites' = DOMAIN invites \cup {Len(invites) + 1}
        BY <3>4, <3>5
      <3>7. Open' = Open \cup {Len(invites) + 1}
        BY <3>3, <3>5, <3>6 DEF Open
      <3>8. Emails' = Emails \cup {u}
        <4>1. \A k \in Open : invites'[k] = invites[k]
          BY <3>5 DEF Open
        <4> QED
          BY <3>3, <3>5, <3>7, <4>1 DEF Emails
      <3>9. Accepted' = Accepted
        BY <3>3, <3>5, <3>6 DEF Accepted
      <3>10. Members' = Members
        BY <3>2 DEF Members
      <3> QED
        BY <1>1, <3>5, <3>6, <3>8, <3>9, <3>10
    <2> QED
      BY <2>1, <2>2
  <1>6. /\ IsFiniteSet(M2) /\ IsFiniteSet(E2)
        /\ Over(M2, E2, a) = IF u \in M \cup E THEN Over(M, E, a) ELSE Over(M, E, a) + 1
    <2>1. CASE M2 = M \cup {u} /\ E2 = E
      BY <1>2, <2>1, NoReqFits, OneMoreHeld
    <2>2. CASE M2 = M /\ E2 = E \cup {u}
      BY <1>2, <2>2, NoReqFits, OneMoreInvited
    <2> QED
      BY <1>5, <2>1, <2>2
  <1>7. Over(M, E, a) \in Int /\ Over(M2, E2, a) \in Int
    BY <1>2, <1>6, NoReqFits, LevelInt
  <1>8. Over(M2, E2, a) <= Over(M, E, a) + 1
    BY <1>6, <1>7
  <1>9. Level(R[p], M, E, a) >= Over(M2, E2, a)
    <2>1. Level(R[p], M, E, a) = IF u \in M \cup E THEN Over(M, E, a) ELSE Over(M, E, a) + 1
      BY <1>1, <1>3 DEF Level
    <2> QED
      BY <1>6, <1>7, <2>1
  <1>10. Level(R2[p], M2, E2, a) <= 0
    <2>1. Level(R2[p], M2, E2, a) = 0
      BY <1>4, NoReqLevel
    <2> QED
      BY <2>1
  <1>11. ASSUME NEW q \in Requests \ {p}
         PROVE  \/ Level(R2[q], M2, E2, a) <= Level(R[q], M, E, a) + 1
                \/ Level(R[q], M, E, a) >= Over(M2, E2, a)
    <2>1. R[q] \in Request /\ R2[q] = R[q]
      BY <1>2, <1>4
    <2> QED
      <3>1. PICK r \in Request : r = R[q]
        BY <2>1
      <3>2. \/ Level(r, M2, E2, a) <= Level(r, M, E, a) + 1
            \/ Level(r, M, E, a) >= Over(M2, E2, a)
        <4>1. CASE M2 = M \cup {u} /\ E2 = E
          BY <1>2, <4>1, OneMoreHeld
        <4>2. CASE M2 = M /\ E2 = E \cup {u}
          BY <1>2, <4>2, OneMoreInvited
        <4> QED
          BY <1>5, <4>1, <4>2
      <3> QED
        BY <2>1, <3>1, <3>2
  <1>12. Levels(R2, M2, E2, a)
    BY <1>2, <1>6, <1>8, <1>9, <1>10, <1>11, LevelsRise
  <1>13. LevelsHold'
    BY <1>1, <1>5, <1>12 DEF LevelsHold
  <1>14. \A q \in Requests : CountsFit(req'[q], invites')
    <2> SUFFICES ASSUME NEW q \in Requests PROVE CountsFit(req'[q], invites')
      OBVIOUS
    <2>1. CASE q = p
      BY <1>1, <1>4, <2>1, NoReqCounts
    <2>2. CASE q # p
      <3>1. CountsFit(req'[q], invites)
        BY <1>1, <1>4, <2>2 DEF SeatsInd
      <3> QED
        BY <1>5, <3>1, CountsFitStay
    <2> QED
      BY <2>1, <2>2
  <1> QED
    BY <1>13, <1>14 DEF SeatsInd

\* An invitation that is accepted, or was taken already.
LEMMA SeatsJoined ==
  ASSUME WorkspaceInd, WorkspaceInd', SeatsInd, NEW p \in Requests, AcceptInvite(p)
  PROVE  SeatsInd'
  <1>0. ReqEnds(p) /\ req[p].pc = "claim" /\ req \in [Requests -> Request] /\ ReqFits(req[p], invites)
    BY DEF AcceptInvite, ReqAt, WorkspaceInd, WorkspaceType, ReqsFit
  <1>1. CASE UNCHANGED <<members, invites, joins>>
    BY <1>0, <1>1, SeatsEnd
  <1>2. CASE Join(p) /\ ~invites[req[p].invite].accepted
    <2>1. PICK i \in DOMAIN invites : i = req[p].invite
      BY <1>0 DEF ReqFits
    <2>2. PICK M, E, a, M2, E2, R, R2, u :
            /\ M = Members /\ E = Emails /\ a = Cardinality(Accepted) /\ M2 = Members' /\ E2 = Emails'
            /\ R = req /\ R2 = req' /\ u = req[p].user
      OBVIOUS
    <2>3. /\ IsFiniteSet(M) /\ IsFiniteSet(E) /\ a \in Nat
          /\ R \in [Requests -> Request] /\ R2 \in [Requests -> Request] /\ Levels(R, M, E, a)
          /\ IsFiniteSet(Accepted) /\ \A k \in DOMAIN invites : invites[k] \in Invite
      BY <2>2, SeatsFinite DEF WorkspaceInd, WorkspaceType, SeatsInd, LevelsHold
    <2>4. /\ invites' = [invites EXCEPT ![i].accepted = TRUE]
          /\ members' = [members EXCEPT ![u] = IF @ = Absent THEN invites[i].role ELSE @]
      BY <1>2, <2>1, <2>2 DEF Join
    <2>5. /\ DOMAIN invites' = DOMAIN invites
          /\ \A k \in DOMAIN invites \ {i} : invites'[k] = invites[k]
          /\ invites'[i].accepted /\ \A k \in DOMAIN invites : invites'[k].email = invites[k].email
      BY <2>3, <2>4 DEF Invite
    <2>6. Accepted' = Accepted \cup {i} /\ i \notin Accepted
      BY <1>2, <2>1, <2>5 DEF Accepted
    <2>7. Cardinality(Accepted') = a + 1
      BY <2>2, <2>3, <2>6, FS_AddElement
    <2>8. Open' = Open \ {i}
      BY <2>5 DEF Open
    <2>9. E2 \subseteq E /\ E \subseteq E2 \cup {u}
      <3>1. E2 \subseteq E
        BY <2>2, <2>5, <2>8 DEF Emails, Open
      <3>2. invites[i].email = u
        <4>1. CountsFit(req[p], invites)
        BY DEF SeatsInd
      <4> QED
        BY <1>0, <2>1, <2>2, <4>1 DEF CountsFit
      <3>3. ASSUME NEW e \in E, e # u PROVE e \in E2
        <4>1. PICK k \in Open : e = invites[k].email
          BY <2>2 DEF Emails
        <4>2. k \in Open' /\ invites'[k].email = e
          BY <2>5, <2>8, <3>2, <3>3, <4>1 DEF Open
        <4> QED
          BY <2>2, <4>2 DEF Emails
      <3> QED
        BY <3>1, <3>3
    <2>10. M2 = M \cup {u}
      <3>1. u \in Everybody /\ members \in [Everybody -> Roles \cup {"OWNER", Absent}]
        BY <1>0, <2>2 DEF ReqFits, Everybody, WorkspaceInd, WorkspaceType
      <3>2. invites[i].role # Absent
        BY <2>3, WorkspaceAssumption DEF Invite
      <3> QED
        BY <2>2, <2>4, <3>1, <3>2 DEF Members
    <2>11. R2[p] = NoReq /\ \A q \in Requests \ {p} : R2[q] = R[q]
      BY <1>0, <2>2 DEF ReqEnds
    <2>12. IsFiniteSet(M2) /\ IsFiniteSet(E2) /\ Over(M2, E2, a + 1) <= Over(M, E, a) /\ a + 1 \in Nat
      BY <2>3, <2>9, <2>10, NoReqFits, OneJoins
    <2>13. ASSUME NEW q \in Requests
           PROVE  \/ Level(R2[q], M2, E2, a + 1) <= Level(R[q], M, E, a)
                  \/ Level(R2[q], M2, E2, a + 1) <= 0
                  \/ Level(R[q], M, E, a) > Over(M2, E2, a + 1)
      <3>1. CASE q = p
        <4>1. Level(R2[q], M2, E2, a + 1) = 0
          BY <2>11, <3>1, NoReqLevel
        <4> QED
          BY <4>1
      <3>2. CASE q # p
        <4>1. R[q] \in Request /\ R2[q] = R[q]
          BY <2>3, <2>11, <3>2
        <4> QED
          BY <2>3, <2>9, <2>10, <4>1, OneJoins
      <3> QED
        BY <3>1, <3>2
    <2>14. Levels(R2, M2, E2, a + 1)
      BY <2>3, <2>12, <2>13, LevelsStay
    <2>15. LevelsHold'
      BY <2>2, <2>7, <2>14 DEF LevelsHold
    <2>16. ASSUME NEW q \in Requests PROVE CountsFit(req'[q], invites')
      <3>1. CountsFit(req'[q], invites)
        BY <2>2, <2>11, NoReqCounts DEF SeatsInd
      <3> QED
        BY <2>5, <3>1, CountsFitStay
    <2> QED
      BY <2>15, <2>16 DEF SeatsInd
  <1> QED
    BY <1>1, <1>2 DEF AcceptInvite

LEMMA SeatsNextInd ==
  ASSUME WorkspaceInd, WorkspaceInd', SeatsInd, [WorkspaceNext]_workspaceVars
  PROVE  SeatsInd'
  <1>1. CASE UNCHANGED workspaceVars
    <2>1. UNCHANGED <<members, invites, joins, req>>
      BY <1>1 DEF workspaceVars
    <2>2. Members' = Members /\ Emails' = Emails /\ Accepted' = Accepted
      BY <2>1 DEF Members, Emails, Open, Accepted
    <2>3. LevelsHold'
      BY <2>1, <2>2 DEF SeatsInd, LevelsHold
    <2> QED
      BY <2>1, <2>3 DEF SeatsInd
  <1>2. ASSUME NEW p \in Requests, RequestStep(p) PROVE SeatsInd'
    BY <1>2, SeatsCount, SeatsAdmitted, SeatsBegin, SeatsBeforeCounting, SeatsMarked, SeatsRemoved, SeatsAdded,
       SeatsJoined DEF RequestStep
  <1>3. ASSUME NEW i \in DOMAIN invites, RevokeInvite(i) \/ Expire(i) PROVE SeatsInd'
    BY <1>3, SeatsMarked
  <1> QED
    BY <1>1, <1>2, <1>3 DEF WorkspaceNext

\* Every level of excess has its requests, in a plan of one seat or more.
THEOREM SeatsInvariant ==
  ASSUME Seats # 0, Requests # {}
  PROVE  WorkspaceSpec => []SeatsInd
  <1>1. WorkspaceInit => SeatsInd
    BY WorkspaceInitInd, SeatsInitInd
  <1>2. WorkspaceInd /\ WorkspaceInd' /\ SeatsInd /\ [WorkspaceNext]_workspaceVars => SeatsInd'
    BY SeatsNextInd
  <1> QED
    BY <1>1, <1>2, WorkspaceInvariant, PTL DEF WorkspaceSpec

\* "An open invitation holds a seat" (organizations.service.ts,
\* assertSeatAvailable): for any number of requests, seats, people and
\* invitations, the members and those who may still become one exceed the plan
\* by no more than the requests that counted at the same time, less one, and the
\* acceptances.  (A plan edited to no seats is full with its owner alone.)
THEOREM SeatsStayHeld ==
  ASSUME Seats # 0, Requests # {}
  PROVE  WorkspaceSpec => []SeatsHold
  <1>1. WorkspaceInd /\ SeatsInd => SeatsHold
    <2> SUFFICES ASSUME WorkspaceInd, SeatsInd PROVE SeatsHold
      OBVIOUS
    <2>1. PICK M, E, a : M = Members /\ E = Emails /\ a = Cardinality(Accepted)
      OBVIOUS
    <2>2. IsFiniteSet(M) /\ IsFiniteSet(E) /\ a \in Nat
      BY <2>1, SeatsFinite DEF WorkspaceInd
    <2>3. Over(M, E, a) \in Int /\ Cardinality(M \cup E) \in Nat
      BY <2>2, NoReqFits, LevelInt
    <2>4. Cardinality(Requests) \in Nat /\ Cardinality(Requests) >= 1
      BY FS_CardinalityType, FS_EmptySet, WorkspaceAssumption
    <2>5. Over(M, E, a) <= Cardinality(Requests) - 1
      <3>1. CASE Over(M, E, a) < 0
        BY <2>3, <2>4, <3>1
      <3>2. CASE Over(M, E, a) >= 0
        <4>1. PICK B : B = Behind(req, M, E, a, Over(M, E, a))
          OBVIOUS
        <4>2. Cardinality(B) >= Over(M, E, a) + 1
          BY <2>1, <2>3, <3>2, <4>1 DEF SeatsInd, LevelsHold, Levels
        <4>3. B \subseteq Requests
          BY <4>1 DEF Behind
        <4>4. Cardinality(B) <= Cardinality(Requests) /\ Cardinality(B) \in Nat
          BY <4>3, FS_Subset, FS_CardinalityType, WorkspaceAssumption
        <4> QED
          BY <2>3, <2>4, <4>2, <4>4
      <3> QED
        BY <2>3, <3>1, <3>2
    <2>6. Cardinality(M \cup E) <= Seats + Cardinality(Requests) - 1 + a
      BY <2>2, <2>3, <2>4, <2>5, WorkspaceAssumption DEF Over
    <2> QED
      BY <2>1, <2>6 DEF SeatsHold, Emails, Accepted
  <1> QED
    BY <1>1, SeatsInvariant, WorkspaceInvariant, PTL

----
(* AuthSessions: what the calls of the tabs rely on *)

\* The points of a call that has created its session and not yet answered.
Made == {"list", "prune", "reply"}

\* A spent session is revoked, and so is one that has a successor, of which
\* there is one.
RowsFit(table) ==
    \A s \in DOMAIN table :
        /\ table[s].rotated # Never => table[s].revoked
        /\ table[s].parent # 0 => table[s].parent \in DOMAIN table /\ table[table[s].parent].revoked
        /\ \A r \in DOMAIN table : table[s].parent # 0 /\ table[r].parent = table[s].parent => r = s

\* A call that will create a session has revoked the one that it replaces,
\* which has no successor yet; a session is unspent while it is on its way.
CallFits(c, table) ==
    /\ c.token \in DOMAIN table \cup {0}
    /\ c.pc \in {"find", "rotate"} => c.token # 0
    /\ c.pc \in Made => c.new \in DOMAIN table /\ table[c.new].rotated = Never
    /\ c.pc = "create" /\ c.token # 0 =>
          table[c.token].revoked /\ \A s \in DOMAIN table : table[s].parent # c.token

CallsFit(calls, table) == \A t \in Tabs : CallFits(calls[t], table)

\* Two calls neither replace the same session nor bring the same one, and none
\* uses a session that is still on its way.
CallsDiffer(calls) ==
    \A t, u \in Tabs :
        /\ calls[t].pc = "create" /\ calls[u].pc = "create" /\ calls[t].token = calls[u].token /\ calls[t].token # 0
              => t = u
        /\ calls[t].pc \in Made /\ calls[u].pc \in Made /\ calls[t].new = calls[u].new => t = u
        /\ calls[t].pc \in Made => calls[u].token # calls[t].new

\* A session is in the cookies of one browser, whose tabs use it, and of none
\* while it is on its way.
JarsFit(cookies, calls, table) ==
    \A b \in Browsers :
        /\ cookies[b] \in DOMAIN table \cup {0}
        /\ \A d \in Browsers : cookies[b] = cookies[d] /\ cookies[b] # 0 => b = d
        /\ \A t \in Tabs :
              /\ cookies[b] = calls[t].token /\ cookies[b] # 0 => Browser[t] = b
              /\ calls[t].pc \in Made => cookies[b] # calls[t].new

\* Cookies that were spent: the tab that spent them has its reply to come.
SpentFit(cookies, calls, table, missed) ==
    \A b \in Browsers \ missed :
        cookies[b] # 0 /\ table[cookies[b]].rotated # Never =>
            \E t \in Tabs : /\ Browser[t] = b /\ calls[t].token = cookies[b]
                            /\ calls[t].pc \in Made \cup {"create"}

Creating(calls) == {t \in Tabs : calls[t].pc \in {"find", "rotate", "create"}}
Pruning(calls) == {t \in Tabs : calls[t].pc = "prune"}
Listing(calls) == {t \in Tabs : calls[t].pc \in {"list", "prune"}}
LiveIn(table) == {s \in DOMAIN table : ~table[s].revoked}

RoomLeft(calls, table) == Len(table) + Cardinality(Creating(calls)) <= MaxSessions

\* Whichever of the calls that prune are through, no more than Keep are live
\* but for one session of each of the others.
FewIn(live, calls) ==
    \A T \in SUBSET Pruning(calls) :
        Cardinality(live \ UNION {calls[t].doomed : t \in T}) <= Keep + Cardinality(Listing(calls) \ T)

SessionsInd ==
    /\ SessionsType
    /\ RowsFit(sessions)
    /\ CallsFit(call, sessions)
    /\ CallsDiffer(call)
    /\ JarsFit(jar, call, sessions)
    /\ SpentFit(jar, call, sessions, lost.browsers)
    /\ RoomLeft(call, sessions)
    /\ FewIn(LiveIn(sessions), call)

LEMMA SessionRows ==
  ASSUME SessionsType
  PROVE  /\ DOMAIN sessions = 1..Len(sessions) /\ Len(sessions) \in Nat /\ DOMAIN sessions \subseteq Ids
         /\ \A s \in DOMAIN sessions : sessions[s] \in Session
         /\ 0 \notin DOMAIN sessions
         /\ Live = LiveIn(sessions) /\ IsFiniteSet(LiveIn(sessions))
  <1>1. DOMAIN sessions = 1..Len(sessions) /\ Len(sessions) \in Nat
    BY DEF SessionsType
  <1>2. DOMAIN sessions \subseteq Ids /\ 0 \notin DOMAIN sessions
    BY <1>1, SessionAssumption DEF SessionsType, Ids
  <1>3. \A s \in DOMAIN sessions : sessions[s] \in Session
    BY <1>1 DEF SessionsType
  <1>4. IsFiniteSet(1..Len(sessions))
    BY <1>1, FS_Interval
  <1>5. LiveIn(sessions) \subseteq 1..Len(sessions)
    BY <1>1 DEF LiveIn
  <1>6. IsFiniteSet(LiveIn(sessions))
    BY <1>4, <1>5, FS_Subset
  <1> QED
    BY <1>1, <1>2, <1>3, <1>6 DEF Live, LiveIn

LEMMA TabSets ==
  ASSUME NEW T, T \subseteq Tabs
  PROVE  IsFiniteSet(T) /\ Cardinality(T) \in Nat
  BY FS_Subset, FS_CardinalityType, SessionAssumption

LEMMA NoCallFits ==
  ASSUME NEW table
  PROVE  NoCall \in Call /\ CallFits(NoCall, table) /\ NoCall.pc = "idle" /\ NoCall.token = 0
  BY SessionAssumption DEF NoCall, Call, CallFits, Made

LEMMA SessionsInitInd ==
  ASSUME SessionsInit
  PROVE  SessionsInd
  <1>1. sessions = <<>> /\ sessions \in Seq(Session) /\ Len(sessions) = 0 /\ DOMAIN sessions = {}
    BY DEF SessionsInit
  <1>2. /\ \A t \in Tabs : call[t] = NoCall
        /\ \A b \in Browsers : jar[b] = 0
    BY DEF SessionsInit
  <1>3. SessionsType
    BY <1>1, NoCallFits, SessionAssumption DEF SessionsInit, SessionsType
  <1>4. RowsFit(sessions)
    BY <1>1 DEF RowsFit
  <1>5. CallsFit(call, sessions)
    BY <1>2, NoCallFits DEF CallsFit
  <1>6. CallsDiffer(call) /\ Creating(call) = {} /\ Pruning(call) = {} /\ Listing(call) = {}
    BY <1>2, NoCallFits DEF CallsDiffer, Creating, Pruning, Listing, Made
  <1>7. JarsFit(jar, call, sessions) /\ SpentFit(jar, call, sessions, lost.browsers)
    BY <1>2, NoCallFits DEF JarsFit, SpentFit, Made
  <1>8. RoomLeft(call, sessions)
    BY <1>1, <1>6, FS_EmptySet, SessionAssumption DEF RoomLeft
  <1>9. LiveIn(sessions) = {}
    BY <1>1 DEF LiveIn
  <1>10. ASSUME NEW T \in SUBSET Pruning(call)
         PROVE  Cardinality(LiveIn(sessions) \ UNION {call[t].doomed : t \in T}) <= Keep + Cardinality(Listing(call) \ T)
    <2>1. LiveIn(sessions) \ UNION {call[t].doomed : t \in T} = {} /\ Listing(call) \ T = {}
      BY <1>6, <1>9
    <2> QED
      BY <2>1, FS_EmptySet, SessionAssumption
  <1>11. FewIn(LiveIn(sessions), call)
    BY <1>10 DEF FewIn
  <1> QED
    BY <1>3, <1>4, <1>5, <1>6, <1>7, <1>8, <1>11 DEF SessionsInd

\* Rows that only get revoked.
Later(table, after) ==
    /\ DOMAIN after = DOMAIN table
    /\ \A s \in DOMAIN table :
          /\ after[s].rotated = table[s].rotated /\ after[s].parent = table[s].parent
          /\ table[s].revoked => after[s].revoked

LEMMA LaterRows ==
  ASSUME NEW table, NEW after, Later(table, after), RowsFit(table)
  PROVE  /\ RowsFit(after)
         /\ \A c : CallFits(c, table) => CallFits(c, after)
         /\ \A cookies, calls : JarsFit(cookies, calls, table) => JarsFit(cookies, calls, after)
         /\ LiveIn(after) \subseteq LiveIn(table)
  <1>1. RowsFit(after)
    BY DEF Later, RowsFit
  <1>2. ASSUME NEW c, CallFits(c, table) PROVE CallFits(c, after)
    BY <1>2 DEF Later, CallFits
  <1>3. \A cookies, calls : JarsFit(cookies, calls, table) => JarsFit(cookies, calls, after)
    BY DEF Later, JarsFit
  <1>4. LiveIn(after) \subseteq LiveIn(table)
    BY DEF Later, LiveIn
  <1> QED
    BY <1>1, <1>2, <1>3, <1>4

LEMMA LaterSpent ==
  ASSUME NEW table, NEW after, Later(table, after), NEW cookies, NEW calls, NEW missed,
         SpentFit(cookies, calls, table, missed), JarsFit(cookies, calls, table)
  PROVE  SpentFit(cookies, calls, after, missed)
  BY DEF Later, SpentFit, JarsFit

\* Revoke changes nothing else.
LEMMA RevokeIsLater ==
  ASSUME SessionsType, NEW S, Revoke(S)
  PROVE  /\ sessions' \in Seq(Session) /\ Len(sessions') = Len(sessions)
         /\ Later(sessions, sessions')
         /\ LiveIn(sessions') = LiveIn(sessions) \ S
  <1>1. /\ DOMAIN sessions = 1..Len(sessions) /\ Len(sessions) \in Nat
        /\ \A s \in DOMAIN sessions : sessions[s] \in Session
    BY SessionRows
  <1>2. ASSUME NEW s \in DOMAIN sessions
        PROVE  /\ sessions'[s] \in Session
               /\ sessions'[s].rotated = sessions[s].rotated /\ sessions'[s].parent = sessions[s].parent
               /\ sessions'[s].revoked <=> sessions[s].revoked \/ s \in S
    <2>1. PICK b \in BOOLEAN : b <=> (sessions[s].revoked \/ s \in S)
      <3>1. (sessions[s].revoked \/ s \in S) \in BOOLEAN
        OBVIOUS
      <3> QED
        BY <3>1
    <2>2. b = (sessions[s].revoked \/ s \in S)
      BY <2>1, <1>1 DEF Session
    <2>3. sessions'[s] = [sessions[s] EXCEPT !.revoked = b]
      BY <2>2 DEF Revoke
    <2> QED
      BY <1>1, <2>1, <2>3 DEF Session
  <1>3. sessions' \in [1..Len(sessions) -> Session]
    BY <1>1, <1>2 DEF Revoke
  <1>4. sessions' \in Seq(Session) /\ Len(sessions') = Len(sessions)
    BY <1>1, <1>3, SeqDef, LenProperties
  <1>5. DOMAIN sessions' = DOMAIN sessions
    BY DEF Revoke
  <1>6. Later(sessions, sessions')
    BY <1>2, <1>5 DEF Later
  <1>7. LiveIn(sessions') = LiveIn(sessions) \ S
    BY <1>2, <1>5 DEF LiveIn
  <1> QED
    BY <1>4, <1>6, <1>7

\* Fewer live sessions, and nobody begins or ends to prune.
LEMMA FewStays ==
  ASSUME NEW live, NEW after, after \subseteq live, IsFiniteSet(live), NEW calls, NEW later, FewIn(live, calls),
         Pruning(later) = Pruning(calls), Listing(later) = Listing(calls),
         \A t \in Pruning(calls) : later[t].doomed = calls[t].doomed
  PROVE  FewIn(after, later)
  <1> SUFFICES ASSUME NEW T \in SUBSET Pruning(later)
               PROVE  Cardinality(after \ UNION {later[t].doomed : t \in T}) <= Keep + Cardinality(Listing(later) \ T)
    BY DEF FewIn
  <1>1. UNION {later[t].doomed : t \in T} = UNION {calls[t].doomed : t \in T}
    OBVIOUS
  <1> PICK D : D = UNION {calls[t].doomed : t \in T}
    OBVIOUS
  <1>2. Cardinality(live \ D) <= Keep + Cardinality(Listing(calls) \ T)
    BY DEF FewIn
  <1>3. IsFiniteSet(live \ D)
    BY FS_Subset
  <1>4. after \ D \subseteq live \ D
    OBVIOUS
  <1>5. /\ IsFiniteSet(after \ D) /\ Cardinality(after \ D) <= Cardinality(live \ D)
        /\ Cardinality(after \ D) \in Nat /\ Cardinality(live \ D) \in Nat
    BY <1>3, <1>4, FS_Subset, FS_CardinalityType
  <1>6. Cardinality(Listing(calls) \ T) \in Nat
    <2>1. Listing(calls) \ T \subseteq Tabs
      BY DEF Listing
    <2> QED
      BY <2>1, TabSets
  <1>7. UNION {later[t].doomed : t \in T} = D /\ Listing(later) = Listing(calls)
    BY <1>1
  <1>8. Keep \in Nat
    BY SessionAssumption
  <1>9. Cardinality(after \ D) <= Keep + Cardinality(Listing(calls) \ T)
    BY <1>2, <1>5, <1>6, <1>8
  <1> QED
    BY <1>7, <1>9

LEMMA CallChanges ==
  ASSUME SessionsType, NEW t \in Tabs, NEW c \in Call, call' = [call EXCEPT ![t] = c]
  PROVE  call' \in [Tabs -> Call] /\ call'[t] = c /\ \A u \in Tabs \ {t} : call'[u] = call[u]
  BY DEF SessionsType

LEMMA LaterIsReflexive ==
  ASSUME NEW table
  PROVE  Later(table, table)
  BY DEF Later

\* One more call that will create a session, where there is room for it.
LEMMA RoomStays ==
  ASSUME SessionsType, NEW calls, NEW later, NEW t \in Tabs,
         RoomLeft(calls, sessions),
         Creating(later) \subseteq Creating(calls) \cup {t},
         t \in Creating(later) \ Creating(calls) => Len(sessions) + Cardinality(Creating(calls)) < MaxSessions
  PROVE  RoomLeft(later, sessions)
  <1>1. Len(sessions) \in Nat /\ MaxSessions \in Nat
    BY SessionRows, SessionAssumption
  <1>2. Creating(calls) \subseteq Tabs /\ Creating(later) \subseteq Tabs
    BY DEF Creating
  <1>3. /\ IsFiniteSet(Creating(calls)) /\ Cardinality(Creating(calls)) \in Nat
        /\ IsFiniteSet(Creating(later)) /\ Cardinality(Creating(later)) \in Nat
    BY <1>2, TabSets
  <1>4. CASE t \in Creating(later) \ Creating(calls)
    <2>1. /\ IsFiniteSet(Creating(calls) \cup {t})
          /\ Cardinality(Creating(calls) \cup {t}) = Cardinality(Creating(calls)) + 1
      BY <1>3, <1>4, FS_AddElement
    <2>2. Cardinality(Creating(later)) <= Cardinality(Creating(calls) \cup {t})
      BY <2>1, FS_Subset
    <2> QED
      BY <1>1, <1>3, <1>4, <2>1, <2>2 DEF RoomLeft
  <1>5. CASE t \notin Creating(later) \ Creating(calls)
    <2>1. Creating(later) \subseteq Creating(calls)
      BY <1>5
    <2>2. Cardinality(Creating(later)) <= Cardinality(Creating(calls))
      BY <1>3, <2>1, FS_Subset
    <2> QED
      BY <1>1, <1>3, <2>2 DEF RoomLeft
  <1> QED
    BY <1>4, <1>5

\* A call that neither has nor had a successor on the way: it begins, reads,
\* is refused, or revokes.
LEMMA OutsideMove ==
  ASSUME SessionsInd, NEW t \in Tabs, NEW c \in Call, call' = [call EXCEPT ![t] = c],
         c.pc \notin Made, call[t].pc \notin Made \cup {"create"},
         c.pc = "create" => c.token = 0,
         c.pc \in {"find", "rotate"} => c.token # 0,
         c.token \in {0, call[t].token, jar[Browser[t]]},
         c.pc \in {"find", "rotate", "create"} => t \in Creating(call) \/ SessionRoom,
         sessions' \in Seq(Session), Len(sessions') = Len(sessions), Later(sessions, sessions'),
         UNCHANGED <<clock, jar, lost>>
  PROVE  SessionsInd'
  <1>0. /\ SessionsType /\ RowsFit(sessions) /\ CallsFit(call, sessions) /\ CallsDiffer(call)
        /\ JarsFit(jar, call, sessions) /\ SpentFit(jar, call, sessions, lost.browsers)
        /\ RoomLeft(call, sessions) /\ FewIn(LiveIn(sessions), call)
    BY DEF SessionsInd
  <1>1. call' \in [Tabs -> Call] /\ call'[t] = c /\ \A u \in Tabs \ {t} : call'[u] = call[u]
    BY <1>0, CallChanges
  <1>2. SessionsType'
    BY <1>0, <1>1 DEF SessionsType
  <1>3. Browser[t] \in Browsers /\ 0 \notin DOMAIN sessions
    BY <1>0, SessionRows DEF Browsers
  <1>4. RowsFit(sessions') /\ LiveIn(sessions') \subseteq LiveIn(sessions)
    BY <1>0, LaterRows
  <1>5. CallFits(c, sessions)
    BY <1>0, <1>3 DEF CallFits, CallsFit, JarsFit
  <1>6. CallsFit(call', sessions')
    <2>1. \A u \in Tabs : CallFits(call'[u], sessions)
      BY <1>0, <1>1, <1>5 DEF CallsFit
    <2> QED
      BY <1>0, <2>1, LaterRows DEF CallsFit
  <1>7. ASSUME NEW u \in Tabs, call[u].pc \in Made PROVE c.token # call[u].new
    BY <1>0, <1>3, <1>7 DEF CallsFit, CallFits, CallsDiffer, JarsFit
  <1>8. CallsDiffer(call')
    <2> SUFFICES ASSUME NEW u \in Tabs, NEW v \in Tabs
                 PROVE  /\ call'[u].pc = "create" /\ call'[v].pc = "create" /\ call'[u].token = call'[v].token /\ call'[u].token # 0
                              => u = v
                        /\ call'[u].pc \in Made /\ call'[v].pc \in Made /\ call'[u].new = call'[v].new => u = v
                        /\ call'[u].pc \in Made => call'[v].token # call'[u].new
      BY DEF CallsDiffer
    <2>1. CASE u # t /\ v # t
      BY <1>0, <1>1, <2>1 DEF CallsDiffer
    <2>2. CASE u = t
      BY <1>1, <2>2
    <2>3. CASE u # t /\ v = t
      BY <1>1, <1>7, <2>3
    <2> QED
      BY <2>1, <2>2, <2>3
  <1>9. JarsFit(jar, call', sessions)
    <2> SUFFICES ASSUME NEW b \in Browsers, NEW u \in Tabs
                 PROVE  /\ jar[b] = call'[u].token /\ jar[b] # 0 => Browser[u] = b
                        /\ call'[u].pc \in Made => jar[b] # call'[u].new
      BY <1>0 DEF JarsFit
    <2>1. CASE u # t
      BY <1>0, <1>1, <2>1 DEF JarsFit
    <2>2. CASE u = t
      BY <1>0, <1>1, <1>3, <2>2 DEF JarsFit
    <2> QED
      BY <2>1, <2>2
  <1>10. SpentFit(jar, call', sessions, lost.browsers)
    <2> SUFFICES ASSUME NEW b \in Browsers \ lost.browsers, jar[b] # 0 /\ sessions[jar[b]].rotated # Never
                 PROVE  \E u \in Tabs : /\ Browser[u] = b /\ call'[u].token = jar[b]
                                        /\ call'[u].pc \in Made \cup {"create"}
      BY DEF SpentFit
    <2>1. PICK u \in Tabs : Browser[u] = b /\ call[u].token = jar[b] /\ call[u].pc \in Made \cup {"create"}
      BY <1>0 DEF SpentFit
    <2> QED
      BY <1>1, <2>1
  <1>11. JarsFit(jar, call', sessions') /\ SpentFit(jar, call', sessions', lost.browsers)
    BY <1>0, <1>9, <1>10, LaterRows, LaterSpent
  <1>12. Pruning(call') = Pruning(call) /\ Listing(call') = Listing(call)
         /\ \A u \in Pruning(call) : call'[u] = call[u]
    BY <1>1 DEF Pruning, Listing, Made
  <1>13. FewIn(LiveIn(sessions'), call')
    <2>1. IsFiniteSet(LiveIn(sessions))
      BY <1>0, SessionRows
    <2>2. \A u \in Pruning(call) : call'[u].doomed = call[u].doomed
      BY <1>12
    <2> QED
      <3>1. FewIn(LiveIn(sessions), call) /\ LiveIn(sessions') \subseteq LiveIn(sessions)
        BY <1>0, <1>4
      <3>2. Pruning(call') = Pruning(call) /\ Listing(call') = Listing(call)
        BY <1>12
      <3>3. PICK live, after, later : live = LiveIn(sessions) /\ after = LiveIn(sessions') /\ later = call'
        OBVIOUS
      <3>4. /\ IsFiniteSet(live) /\ after \subseteq live /\ FewIn(live, call)
            /\ Pruning(later) = Pruning(call) /\ Listing(later) = Listing(call)
            /\ \A u \in Pruning(call) : later[u].doomed = call[u].doomed
        BY <2>1, <2>2, <3>1, <3>2, <3>3
      <3>5. FewIn(after, later)
        BY <3>4, FewStays, Zenon
      <3> QED
        BY <3>3, <3>5
  <1>14. RoomLeft(call', sessions')
    <2>1. Creating(call') \subseteq Creating(call) \cup {t}
      BY <1>1 DEF Creating
    <2>2. t \in Creating(call') \ Creating(call) => Len(sessions) + Cardinality(Creating(call)) < MaxSessions
      BY <1>1 DEF Creating, SessionRoom
    <2>3. RoomLeft(call', sessions)
      BY <1>0, <2>1, <2>2, RoomStays
    <2> QED
      BY <2>3 DEF RoomLeft
  <1>15. jar' = jar /\ lost' = lost
    OBVIOUS
  <1> QED
    BY <1>2, <1>4, <1>6, <1>8, <1>11, <1>13, <1>14, <1>15 DEF SessionsInd

\* The calls that begin: sign-in, refresh and sign-out.
LEMMA CallBeginsInd ==
  ASSUME SessionsInd, NEW t \in Tabs, SignIn(t) \/ Refresh(t) \/ LogoutBegins(t)
  PROVE  SessionsInd'
  <1>0. /\ SessionsType /\ call[t] \in Call /\ call[t].pc = "idle"
        /\ Browser[t] \in Browsers /\ jar[Browser[t]] \in 0..MaxSessions
    BY DEF SessionsInd, SessionsType, Browsers, SignIn, Refresh, LogoutBegins, CallBegins, CallAt
  <1>1. sessions' = sessions /\ UNCHANGED <<clock, jar, lost>>
    BY DEF SignIn, Refresh, LogoutBegins
  <1>2. sessions' \in Seq(Session) /\ Len(sessions') = Len(sessions) /\ Later(sessions, sessions')
    BY <1>0, <1>1, LaterIsReflexive DEF SessionsType
  <1>3. NoCall \in Call
    BY NoCallFits
  <1>4. CASE SignIn(t)
    <2> DEFINE c == [NoCall EXCEPT !.pc = "create"]
    <2>1. c \in Call /\ c.pc = "create" /\ c.token = 0
      BY <1>3 DEF Call, NoCall
    <2>2. call' = [call EXCEPT ![t] = c] /\ SessionRoom
      BY <1>4 DEF SignIn
    <2> HIDE DEF c
    <2> QED
      BY <1>0, <1>1, <1>2, <2>1, <2>2, OutsideMove DEF Made
  <1>5. ASSUME NEW point \in {"find", "logout", "logoutAll"}, CallBegins(t, point),
               point = "find" => SessionRoom /\ jar[Browser[t]] # 0
        PROVE  SessionsInd'
    <2> DEFINE c == [NoCall EXCEPT !.pc = point, !.token = jar[Browser[t]]]
    <2>1. c \in Call /\ c.pc = point /\ c.token = jar[Browser[t]]
      BY <1>0, <1>3 DEF Call
    <2>2. call' = [call EXCEPT ![t] = c]
      BY <1>5 DEF CallBegins
    <2> HIDE DEF c
    <2>3. /\ c.pc \notin Made /\ call[t].pc \notin Made \cup {"create"} /\ c.pc # "create"
          /\ c.pc \in {"find", "rotate"} => c.token # 0 /\ SessionRoom
      BY <1>0, <1>5, <2>1 DEF Made
    <2> QED
      BY <1>1, <1>2, <2>1, <2>2, <2>3, OutsideMove
  <1>6. CASE Refresh(t)
    BY <1>5, <1>6 DEF Refresh
  <1>7. CASE LogoutBegins(t)
    BY <1>5, <1>7 DEF LogoutBegins
  <1> QED
    BY <1>4, <1>6, <1>7

\* The calls that go on without a successor.
LEMMA CallGoesInd ==
  ASSUME SessionsInd, NEW t \in Tabs, NEW point \in {"reuse", "rotate", "denied", "cleared"},
         CallGoes(t, point), call[t].pc \notin Made \cup {"create"},
         point = "rotate" => call[t].pc = "find",
         sessions' \in Seq(Session), Len(sessions') = Len(sessions), Later(sessions, sessions'),
         UNCHANGED <<clock, jar, lost>>
  PROVE  SessionsInd'
  <1>0. call[t] \in Call /\ CallFits(call[t], sessions)
    BY DEF SessionsInd, SessionsType, CallsFit
  <1> DEFINE c == [call[t] EXCEPT !.pc = point]
  <1>1. c \in Call /\ c.pc = point /\ c.token = call[t].token
    BY <1>0 DEF Call
  <1>2. call' = [call EXCEPT ![t] = c]
    BY DEF CallGoes
  <1> HIDE DEF c
  <1>3. /\ c.pc \notin Made /\ c.pc # "create"
        /\ c.pc \in {"find", "rotate"} => c.token # 0 /\ t \in Creating(call)
    BY <1>0, <1>1 DEF Made, CallFits, Creating
  <1> QED
    BY <1>1, <1>2, <1>3, OutsideMove

LEMMA OutsideInd ==
  ASSUME SessionsInd, NEW t \in Tabs,
         Find(t) \/ Reuse(t) \/ Logout(t) \/ (Rotate(t) /\ sessions[call[t].token].revoked)
  PROVE  SessionsInd'
  <1>0. SessionsType
    BY DEF SessionsInd
  <1>1. sessions' = sessions => sessions' \in Seq(Session) /\ Len(sessions') = Len(sessions) /\ Later(sessions, sessions')
    BY <1>0, LaterIsReflexive DEF SessionsType
  <1>2. CASE Find(t)
    BY <1>1, <1>2, CallGoesInd DEF Find, CallAt, Made
  <1>3. CASE Reuse(t)
    BY <1>0, <1>3, RevokeIsLater, CallGoesInd DEF Reuse, CallAt, Made
  <1>4. CASE Logout(t)
    BY <1>0, <1>4, RevokeIsLater, CallGoesInd DEF Logout, CallAt, Made
  <1>5. CASE Rotate(t) /\ sessions[call[t].token].revoked
    BY <1>1, <1>5, CallGoesInd DEF Rotate, CallAt, Made
  <1> QED
    BY <1>2, <1>3, <1>4, <1>5

LEMMA DeniedInd ==
  ASSUME SessionsInd, NEW t \in Tabs, Denied(t)
  PROVE  SessionsInd'
  <1>1. sessions' \in Seq(Session) /\ Len(sessions') = Len(sessions) /\ Later(sessions, sessions')
    BY LaterIsReflexive DEF Denied, SessionsInd, SessionsType
  <1> QED
    BY <1>1, NoCallFits, OutsideMove DEF Denied, CallEnds, CallAt, Made

\* The steps that end a call and leave the rows: the others go on as before.
LEMMA AfterCallEnds ==
  ASSUME SessionsInd, NEW t \in Tabs, CallEnds(t), sessions' = sessions,
         call[t].pc \notin {"list", "prune"}
  PROVE  /\ call' \in [Tabs -> Call] /\ call'[t] = NoCall /\ \A u \in Tabs \ {t} : call'[u] = call[u]
         /\ RowsFit(sessions') /\ CallsFit(call', sessions') /\ CallsDiffer(call')
         /\ RoomLeft(call', sessions') /\ FewIn(LiveIn(sessions'), call')
  <1>0. SessionsType /\ NoCall \in Call /\ CallFits(NoCall, sessions) /\ NoCall.pc = "idle" /\ NoCall.token = 0
    BY NoCallFits DEF SessionsInd
  <1>1. call' \in [Tabs -> Call] /\ call'[t] = NoCall /\ \A u \in Tabs \ {t} : call'[u] = call[u]
    BY <1>0, CallChanges DEF CallEnds
  <1>2. RowsFit(sessions') /\ CallsFit(call', sessions')
    BY <1>0, <1>1 DEF SessionsInd, CallsFit
  <1>3. \A u \in Tabs : call[u].pc \in Made => call[u].new # 0
    BY <1>0, SessionRows DEF SessionsInd, CallsFit, CallFits
  <1>4. CallsDiffer(call')
    <2> SUFFICES ASSUME NEW u \in Tabs, NEW v \in Tabs
                 PROVE  /\ call'[u].pc = "create" /\ call'[v].pc = "create" /\ call'[u].token = call'[v].token /\ call'[u].token # 0
                              => u = v
                        /\ call'[u].pc \in Made /\ call'[v].pc \in Made /\ call'[u].new = call'[v].new => u = v
                        /\ call'[u].pc \in Made => call'[v].token # call'[u].new
      BY DEF CallsDiffer
    <2>1. CASE u # t /\ v # t
      BY <1>1, <2>1 DEF SessionsInd, CallsDiffer
    <2>2. CASE u = t
      BY <1>0, <1>1, <2>2 DEF Made
    <2>3. CASE u # t /\ v = t
      BY <1>0, <1>1, <1>3, <2>3 DEF Made
    <2> QED
      BY <2>1, <2>2, <2>3
  <1>5. Creating(call') \subseteq Creating(call) \cup {t} /\ t \notin Creating(call')
    BY <1>0, <1>1 DEF Creating
  <1>6. RoomLeft(call', sessions')
    <2>1. RoomLeft(call', sessions)
      BY <1>0, <1>5, RoomStays DEF SessionsInd
    <2> QED
      BY <2>1
  <1>7. Pruning(call') = Pruning(call) /\ Listing(call') = Listing(call)
        /\ \A u \in Pruning(call) : call'[u].doomed = call[u].doomed
    BY <1>0, <1>1 DEF Pruning, Listing
  <1>8. IsFiniteSet(LiveIn(sessions)) /\ LiveIn(sessions') \subseteq LiveIn(sessions)
    BY <1>0, SessionRows
  <1>9. FewIn(LiveIn(sessions'), call')
    BY <1>7, <1>8, FewStays DEF SessionsInd
  <1> QED
    BY <1>1, <1>2, <1>4, <1>6, <1>9

\* The cookies take the session of the reply, which nobody has yet ...
LEMMA ReplyInd ==
  ASSUME SessionsInd, NEW t \in Tabs, Reply(t)
  PROVE  SessionsInd'
  <1>0. /\ SessionsType /\ CallFits(call[t], sessions) /\ CallsDiffer(call)
        /\ JarsFit(jar, call, sessions) /\ SpentFit(jar, call, sessions, lost.browsers)
        /\ call[t] \in Call /\ call[t].pc = "reply"
    BY DEF SessionsInd, SessionsType, CallsFit, Reply, CallAt
  <1>1. PICK n \in DOMAIN sessions : n = call[t].new /\ sessions[n].rotated = Never
    BY <1>0 DEF CallFits, Made
  <1>2. n # 0 /\ n \in 0..MaxSessions /\ Browser[t] \in Browsers
    BY <1>0, <1>1, SessionRows DEF Call, Browsers
  <1>3. /\ CallEnds(t) /\ sessions' = sessions /\ UNCHANGED <<clock, lost>>
        /\ jar' = [jar EXCEPT ![Browser[t]] = n]
    BY <1>1 DEF Reply
  <1>4. /\ call' \in [Tabs -> Call] /\ call'[t] = NoCall /\ \A u \in Tabs \ {t} : call'[u] = call[u]
        /\ RowsFit(sessions') /\ CallsFit(call', sessions') /\ CallsDiffer(call')
        /\ RoomLeft(call', sessions') /\ FewIn(LiveIn(sessions'), call')
    BY <1>0, <1>3, AfterCallEnds
  <1>5. /\ jar' \in [Browsers -> 0..MaxSessions] /\ jar'[Browser[t]] = n
        /\ \A b \in Browsers \ {Browser[t]} : jar'[b] = jar[b]
    BY <1>0, <1>2, <1>3 DEF SessionsType
  <1>6. SessionsType'
    BY <1>0, <1>3, <1>4, <1>5 DEF SessionsType
  <1>7. \A b \in Browsers : jar[b] # n
    BY <1>0, <1>1 DEF JarsFit, Made
  <1>8. \A u \in Tabs : call'[u].token # n /\ (call'[u].pc \in Made => call'[u].new # n)
    BY <1>0, <1>1, <1>2, <1>4, NoCallFits DEF CallsDiffer, Made
  <1>9. JarsFit(jar', call', sessions)
    <2> SUFFICES ASSUME NEW b \in Browsers
                 PROVE  /\ jar'[b] \in DOMAIN sessions \cup {0}
                        /\ \A d \in Browsers : jar'[b] = jar'[d] /\ jar'[b] # 0 => b = d
                        /\ \A u \in Tabs :
                              /\ jar'[b] = call'[u].token /\ jar'[b] # 0 => Browser[u] = b
                              /\ call'[u].pc \in Made => jar'[b] # call'[u].new
      BY DEF JarsFit
    <2>1. CASE b = Browser[t]
      BY <1>1, <1>5, <1>7, <1>8, <2>1
    <2>2. CASE b # Browser[t]
      <3>1. jar'[b] = jar[b] /\ jar[b] # n
        BY <1>5, <1>7, <2>2
      <3>2. \A u \in Tabs : u = t \/ call'[u] = call[u]
        BY <1>4
      <3>3. NoCall.token = 0 /\ NoCall.pc \notin Made
        BY NoCallFits DEF Made
      <3> QED
        BY <1>0, <1>4, <1>5, <3>1, <3>2, <3>3 DEF JarsFit
    <2> QED
      BY <2>1, <2>2
  <1>10. SpentFit(jar', call', sessions, lost.browsers)
    <2> SUFFICES ASSUME NEW b \in Browsers \ lost.browsers, jar'[b] # 0 /\ sessions[jar'[b]].rotated # Never
                 PROVE  \E u \in Tabs : /\ Browser[u] = b /\ call'[u].token = jar'[b]
                                        /\ call'[u].pc \in Made \cup {"create"}
      BY DEF SpentFit
    <2>1. b # Browser[t] /\ jar'[b] = jar[b]
      BY <1>1, <1>5
    <2>2. PICK u \in Tabs : Browser[u] = b /\ call[u].token = jar[b] /\ call[u].pc \in Made \cup {"create"}
      BY <1>0, <2>1 DEF SpentFit
    <2> QED
      BY <1>4, <2>1, <2>2
  <1>11. JarsFit(jar', call', sessions') /\ SpentFit(jar', call', sessions', lost'.browsers)
    BY <1>3, <1>9, <1>10
  <1> QED
    BY <1>4, <1>6, <1>11 DEF SessionsInd

\* ... or are cleared; when the reply is lost they stay.
LEMMA ClearedInd ==
  ASSUME SessionsInd, NEW t \in Tabs, Cleared(t)
  PROVE  SessionsInd'
  <1>0. /\ SessionsType /\ JarsFit(jar, call, sessions) /\ SpentFit(jar, call, sessions, lost.browsers)
        /\ call[t].pc = "cleared" /\ Browser[t] \in Browsers
    BY DEF SessionsInd, Cleared, CallAt, Browsers
  <1>1. /\ CallEnds(t) /\ sessions' = sessions /\ UNCHANGED <<clock, lost>>
        /\ jar' = [jar EXCEPT ![Browser[t]] = 0]
    BY DEF Cleared
  <1>2. /\ call' \in [Tabs -> Call] /\ call'[t] = NoCall /\ \A u \in Tabs \ {t} : call'[u] = call[u]
        /\ RowsFit(sessions') /\ CallsFit(call', sessions') /\ CallsDiffer(call')
        /\ RoomLeft(call', sessions') /\ FewIn(LiveIn(sessions'), call')
    BY <1>0, <1>1, AfterCallEnds
  <1>3. /\ jar' \in [Browsers -> 0..MaxSessions]
        /\ \A b \in Browsers : jar'[b] = 0 \/ (jar'[b] = jar[b] /\ b # Browser[t])
    BY <1>0, <1>1, SessionAssumption DEF SessionsType
  <1>4. SessionsType'
    BY <1>0, <1>1, <1>2, <1>3 DEF SessionsType
  <1>5. NoCall.token = 0 /\ NoCall.pc \notin Made /\ \A u \in Tabs : u = t \/ call'[u] = call[u]
    BY <1>2, NoCallFits DEF Made
  <1>6. \A u \in Tabs : call'[u].pc \in Made => call'[u].new # 0
    BY <1>0, <1>1, <1>2, SessionRows DEF CallsFit, CallFits
  <1>7. JarsFit(jar', call', sessions)
    <2> SUFFICES ASSUME NEW b \in Browsers
                 PROVE  /\ jar'[b] \in DOMAIN sessions \cup {0}
                        /\ \A d \in Browsers : jar'[b] = jar'[d] /\ jar'[b] # 0 => b = d
                        /\ \A u \in Tabs :
                              /\ jar'[b] = call'[u].token /\ jar'[b] # 0 => Browser[u] = b
                              /\ call'[u].pc \in Made => jar'[b] # call'[u].new
      BY DEF JarsFit
    <2>1. CASE jar'[b] = 0
      BY <1>6, <2>1
    <2>2. CASE jar'[b] = jar[b] /\ jar[b] # 0
      BY <1>0, <1>2, <1>3, <1>5, <2>2 DEF JarsFit
    <2> QED
      BY <1>3, <2>1, <2>2
  <1>8. SpentFit(jar', call', sessions, lost.browsers)
    <2> SUFFICES ASSUME NEW b \in Browsers \ lost.browsers, jar'[b] # 0 /\ sessions[jar'[b]].rotated # Never
                 PROVE  \E u \in Tabs : /\ Browser[u] = b /\ call'[u].token = jar'[b]
                                        /\ call'[u].pc \in Made \cup {"create"}
      BY DEF SpentFit
    <2>1. b # Browser[t] /\ jar'[b] = jar[b]
      BY <1>3
    <2>2. PICK u \in Tabs : Browser[u] = b /\ call[u].token = jar[b] /\ call[u].pc \in Made \cup {"create"}
      BY <1>0, <2>1 DEF SpentFit
    <2> QED
      BY <1>2, <2>1, <2>2
  <1>9. JarsFit(jar', call', sessions') /\ SpentFit(jar', call', sessions', lost'.browsers)
    BY <1>1, <1>7, <1>8
  <1> QED
    BY <1>2, <1>4, <1>9 DEF SessionsInd

LEMMA LoseReplyInd ==
  ASSUME SessionsInd, NEW t \in Tabs, LoseReply(t)
  PROVE  SessionsInd'
  <1>0. /\ SessionsType /\ JarsFit(jar, call, sessions) /\ SpentFit(jar, call, sessions, lost.browsers)
        /\ call[t].pc \in {"reply", "cleared"} /\ Browser[t] \in Browsers
    BY DEF SessionsInd, LoseReply, Browsers
  <1>1. /\ CallEnds(t) /\ sessions' = sessions /\ clock' = clock /\ jar' = jar
        /\ lost' = [browsers |-> lost.browsers \cup {Browser[t]}, count |-> lost.count + 1]
        /\ lost.count < MaxLost
    BY DEF LoseReply
  <1>2. /\ call' \in [Tabs -> Call] /\ call'[t] = NoCall /\ \A u \in Tabs \ {t} : call'[u] = call[u]
        /\ RowsFit(sessions') /\ CallsFit(call', sessions') /\ CallsDiffer(call')
        /\ RoomLeft(call', sessions') /\ FewIn(LiveIn(sessions'), call')
    BY <1>0, <1>1, AfterCallEnds
  <1>3. lost' \in [browsers : SUBSET Browsers, count : 0..MaxLost]
    <2>1. lost.browsers \subseteq Browsers /\ lost.count \in 0..MaxLost
      BY <1>0 DEF SessionsType
    <2> QED
      BY <1>0, <1>1, <2>1, SessionAssumption
  <1>4. SessionsType'
    BY <1>0, <1>1, <1>2, <1>3 DEF SessionsType
  <1>5. NoCall.token = 0 /\ NoCall.pc \notin Made /\ \A u \in Tabs : u = t \/ call'[u] = call[u]
    BY <1>2, NoCallFits DEF Made
  <1>6. JarsFit(jar, call', sessions)
    BY <1>0, <1>2, <1>5 DEF JarsFit
  <1>7. SpentFit(jar, call', sessions, lost'.browsers)
    <2> SUFFICES ASSUME NEW b \in Browsers \ lost'.browsers, jar[b] # 0 /\ sessions[jar[b]].rotated # Never
                 PROVE  \E u \in Tabs : /\ Browser[u] = b /\ call'[u].token = jar[b]
                                        /\ call'[u].pc \in Made \cup {"create"}
      BY DEF SpentFit
    <2>1. b # Browser[t] /\ b \in Browsers \ lost.browsers
      BY <1>1
    <2>2. PICK u \in Tabs : Browser[u] = b /\ call[u].token = jar[b] /\ call[u].pc \in Made \cup {"create"}
      BY <1>0, <2>1 DEF SpentFit
    <2> QED
      BY <1>2, <2>1, <2>2
  <1>8. JarsFit(jar', call', sessions') /\ SpentFit(jar', call', sessions', lost'.browsers)
    BY <1>1, <1>6, <1>7
  <1> QED
    BY <1>2, <1>4, <1>8 DEF SessionsInd

\* The conditional update: nobody else spends the session.
LEMMA RotateInd ==
  ASSUME SessionsInd, NEW t \in Tabs, Rotate(t), ~sessions[call[t].token].revoked
  PROVE  SessionsInd'
  <1>0. /\ SessionsType /\ RowsFit(sessions) /\ CallsFit(call, sessions) /\ CallsDiffer(call)
        /\ JarsFit(jar, call, sessions) /\ SpentFit(jar, call, sessions, lost.browsers)
        /\ RoomLeft(call, sessions) /\ FewIn(LiveIn(sessions), call)
        /\ call[t] \in Call /\ call[t].pc = "rotate"
    BY DEF SessionsInd, SessionsType, Rotate, CallAt
  <1>1. PICK s \in DOMAIN sessions : s = call[t].token /\ ~sessions[s].revoked
    BY <1>0 DEF CallsFit, CallFits
  <1>2. s # 0 /\ s \in 1..Len(sessions) /\ sessions[s] \in Session /\ clock \in 0..MaxClock
    BY <1>0, SessionRows DEF SessionsType
  <1>3. PICK row \in Session : row = [sessions[s] EXCEPT !.revoked = TRUE, !.rotated = clock]
    BY <1>2 DEF Session
  <1>4. row.revoked /\ row.parent = sessions[s].parent
    BY <1>2, <1>3 DEF Session
  <1>5. /\ sessions' = [sessions EXCEPT ![s] = row] /\ UNCHANGED <<clock, jar, lost>>
        /\ call' = [call EXCEPT ![t] = [call[t] EXCEPT !.pc = "create"]]
    BY <1>1, <1>3 DEF Rotate, Spend, CallGoes
  <1>6. PICK c \in Call : c = [call[t] EXCEPT !.pc = "create"]
    BY <1>0 DEF Call
  <1>7. c.pc = "create" /\ c.token = s
    BY <1>0, <1>1, <1>6 DEF Call
  <1>8. call' \in [Tabs -> Call] /\ call'[t] = c /\ \A u \in Tabs \ {t} : call'[u] = call[u]
    BY <1>0, <1>5, <1>6, CallChanges
  <1>9. /\ sessions' \in Seq(Session) /\ Len(sessions') = Len(sessions) /\ DOMAIN sessions' = DOMAIN sessions
        /\ sessions'[s] = row /\ \A r \in DOMAIN sessions : r = s \/ sessions'[r] = sessions[r]
    BY <1>0, <1>2, <1>5 DEF SessionsType
  <1>10. SessionsType'
    BY <1>0, <1>5, <1>8, <1>9 DEF SessionsType
  <1>11. \A r \in DOMAIN sessions : /\ sessions'[r].parent = sessions[r].parent
                                    /\ sessions[r].revoked => sessions'[r].revoked
                                    /\ r # s => sessions'[r].rotated = sessions[r].rotated
    BY <1>4, <1>9
  <1>12. RowsFit(sessions')
    BY <1>0, <1>4, <1>9, <1>11 DEF RowsFit
  <1>13. \A r \in DOMAIN sessions : sessions[r].parent # s
    BY <1>0, <1>1, <1>2 DEF RowsFit
  <1>14. CallFits(c, sessions')
    BY <1>1, <1>4, <1>7, <1>9, <1>11, <1>13 DEF CallFits, Made
  <1>15. ASSUME NEW u \in Tabs \ {t} PROVE CallFits(call[u], sessions')
    <2>1. CallFits(call[u], sessions) /\ (call[u].pc \in Made => call[u].new # s)
      BY <1>0, <1>1 DEF CallsFit, CallsDiffer
    <2> QED
      BY <1>9, <1>11, <2>1 DEF CallFits
  <1>16. CallsFit(call', sessions')
    <2> SUFFICES ASSUME NEW u \in Tabs PROVE CallFits(call'[u], sessions')
      BY DEF CallsFit
    <2> QED
      BY <1>8, <1>14, <1>15
  <1>17. \A u \in Tabs : call[u].pc = "create" => call[u].token # s
    BY <1>0, <1>1, <1>2 DEF CallsFit, CallFits
  <1>18. /\ \A u \in Tabs : call'[u].token = call[u].token
         /\ \A u \in Tabs : call'[u].pc \in Made => call[u].pc \in Made /\ call'[u].new = call[u].new
         /\ \A u \in Tabs : u # t /\ call'[u].pc = "create" => call[u].pc = "create"
    BY <1>1, <1>7, <1>8 DEF Made
  <1>19. CallsDiffer(call')
    BY <1>0, <1>1, <1>17, <1>18 DEF CallsDiffer
  <1>20. JarsFit(jar, call', sessions')
    BY <1>0, <1>9, <1>18 DEF JarsFit
  <1>21. SpentFit(jar, call', sessions', lost.browsers)
    <2> SUFFICES ASSUME NEW b \in Browsers \ lost.browsers, jar[b] # 0 /\ sessions'[jar[b]].rotated # Never
                 PROVE  \E u \in Tabs : /\ Browser[u] = b /\ call'[u].token = jar[b]
                                        /\ call'[u].pc \in Made \cup {"create"}
      BY DEF SpentFit
    <2>1. CASE jar[b] = s
      <3>1. Browser[t] = b
        BY <1>0, <1>1, <2>1 DEF JarsFit
      <3> QED
        BY <1>7, <1>8, <2>1, <3>1
    <2>2. CASE jar[b] # s
      <3>1. sessions[jar[b]].rotated # Never
        BY <1>0, <1>11, <2>2 DEF JarsFit
      <3>2. PICK u \in Tabs : Browser[u] = b /\ call[u].token = jar[b] /\ call[u].pc \in Made \cup {"create"}
        BY <1>0, <3>1 DEF SpentFit
      <3>3. u # t
        BY <1>1, <2>2, <3>2
      <3> QED
        BY <1>8, <3>2, <3>3
    <2> QED
      BY <2>1, <2>2
  <1>22. Pruning(call') = Pruning(call) /\ Listing(call') = Listing(call) /\ Creating(call') = Creating(call)
    BY <1>0, <1>7, <1>8 DEF Pruning, Listing, Creating
  <1>23. FewIn(LiveIn(sessions'), call')
    <2>1. IsFiniteSet(LiveIn(sessions)) /\ LiveIn(sessions') \subseteq LiveIn(sessions)
      BY <1>0, <1>9, <1>11, SessionRows DEF LiveIn
    <2>2. \A u \in Pruning(call) : call'[u].doomed = call[u].doomed
      BY <1>0, <1>8 DEF Pruning
    <2>3. PICK live, after, later : live = LiveIn(sessions) /\ after = LiveIn(sessions') /\ later = call'
      OBVIOUS
    <2>4. /\ IsFiniteSet(live) /\ after \subseteq live /\ FewIn(live, call)
          /\ Pruning(later) = Pruning(call) /\ Listing(later) = Listing(call)
          /\ \A u \in Pruning(call) : later[u].doomed = call[u].doomed
      BY <1>0, <1>22, <2>1, <2>2, <2>3
    <2>5. FewIn(after, later)
      BY <2>4, FewStays, Zenon
    <2> QED
      BY <2>3, <2>5
  <1>24. RoomLeft(call', sessions')
    BY <1>0, <1>9, <1>22 DEF RoomLeft
  <1>25. jar' = jar /\ lost' = lost
    BY <1>5
  <1> QED
    BY <1>10, <1>12, <1>16, <1>19, <1>20, <1>21, <1>23, <1>24, <1>25 DEF SessionsInd

\* A new session is live, and its call lists.
LEMMA FewWithNew ==
  ASSUME NEW live, IsFiniteSet(live), NEW n, NEW calls, NEW later, NEW t \in Tabs, FewIn(live, calls),
         Pruning(later) = Pruning(calls), Listing(later) = Listing(calls) \cup {t}, t \notin Listing(calls),
         \A u \in Pruning(calls) : later[u].doomed = calls[u].doomed
  PROVE  FewIn(live \cup {n}, later)
  <1> SUFFICES ASSUME NEW T \in SUBSET Pruning(later)
               PROVE  Cardinality((live \cup {n}) \ UNION {later[u].doomed : u \in T})
                         <= Keep + Cardinality(Listing(later) \ T)
    BY DEF FewIn
  <1> PICK D : D = UNION {calls[u].doomed : u \in T}
    OBVIOUS
  <1>1. UNION {later[u].doomed : u \in T} = D /\ T \subseteq Listing(calls) /\ t \notin T
    BY DEF Pruning, Listing
  <1>2. Cardinality(live \ D) <= Keep + Cardinality(Listing(calls) \ T)
    BY DEF FewIn
  <1>3. IsFiniteSet(live \ D) /\ Cardinality(live \ D) \in Nat
    BY FS_Subset, FS_CardinalityType
  <1>4. /\ IsFiniteSet((live \ D) \cup {n})
        /\ Cardinality((live \ D) \cup {n}) \in Nat
        /\ Cardinality((live \ D) \cup {n}) <= Cardinality(live \ D) + 1
    <2>1. /\ IsFiniteSet((live \ D) \cup {n})
          /\ Cardinality((live \ D) \cup {n}) = IF n \in live \ D THEN Cardinality(live \ D)
                                                ELSE Cardinality(live \ D) + 1
      BY <1>3, FS_AddElement
    <2> QED
      BY <1>3, <2>1
  <1>5. (live \cup {n}) \ D \subseteq (live \ D) \cup {n}
    OBVIOUS
  <1>6. /\ Cardinality((live \cup {n}) \ D) <= Cardinality((live \ D) \cup {n})
        /\ Cardinality((live \cup {n}) \ D) \in Nat
    BY <1>4, <1>5, FS_Subset, FS_CardinalityType
  <1>7. IsFiniteSet(Listing(calls) \ T) /\ Cardinality(Listing(calls) \ T) \in Nat
    <2>1. Listing(calls) \ T \subseteq Tabs
      BY DEF Listing
    <2> QED
      BY <2>1, TabSets
  <1>8. Listing(later) \ T = (Listing(calls) \ T) \cup {t} /\ t \notin Listing(calls) \ T
    BY <1>1
  <1>9. Cardinality(Listing(later) \ T) = Cardinality(Listing(calls) \ T) + 1
    BY <1>7, <1>8, FS_AddElement
  <1>10. Keep \in Nat
    BY SessionAssumption
  <1>11. Cardinality((live \cup {n}) \ D) <= Keep + Cardinality(Listing(later) \ T)
    BY <1>2, <1>3, <1>4, <1>6, <1>7, <1>9, <1>10
  <1> QED
    BY <1>1, <1>11

LEMMA CreateInd ==
  ASSUME SessionsInd, NEW t \in Tabs, Create(t)
  PROVE  SessionsInd'
  <1>0. /\ SessionsType /\ RowsFit(sessions) /\ CallsFit(call, sessions) /\ CallsDiffer(call)
        /\ JarsFit(jar, call, sessions) /\ SpentFit(jar, call, sessions, lost.browsers)
        /\ RoomLeft(call, sessions) /\ FewIn(LiveIn(sessions), call)
        /\ call[t] \in Call /\ call[t].pc = "create" /\ CallFits(call[t], sessions)
    BY DEF SessionsInd, SessionsType, CallsFit, Create, CallAt
  <1>1. /\ Len(sessions) \in Nat /\ DOMAIN sessions = 1..Len(sessions) /\ 0 \notin DOMAIN sessions
        /\ sessions \in Seq(Session) /\ clock \in 0..MaxClock /\ \A u \in Tabs : call[u] \in Call
    BY <1>0, SessionRows DEF SessionsType
  <1>2. t \in Creating(call) /\ IsFiniteSet(Creating(call)) /\ Cardinality(Creating(call)) \in Nat
    <2>1. Creating(call) \subseteq Tabs
      BY DEF Creating
    <2> QED
      BY <1>0, <2>1, TabSets DEF Creating
  <1>3. /\ Cardinality(Creating(call) \ {t}) = Cardinality(Creating(call)) - 1
        /\ Cardinality(Creating(call) \ {t}) \in Nat
    BY <1>2, FS_RemoveElement, FS_CardinalityType
  <1>4. PICK n \in Ids : n = Len(sessions) + 1
    BY <1>0, <1>1, <1>2, <1>3, SessionAssumption DEF RoomLeft, Ids
  <1>5. n \notin DOMAIN sessions /\ n # 0 /\ n \in 0..MaxSessions
    BY <1>1, <1>4, SessionAssumption DEF Ids
  <1>6. PICK row \in Session : row = [revoked |-> FALSE, rotated |-> Never, at |-> clock, parent |-> call[t].token]
    BY <1>0, <1>1 DEF Session, Call
  <1>7. ~row.revoked /\ row.rotated = Never /\ row.parent = call[t].token
    BY <1>6
  <1>8. /\ sessions' = Append(sessions, row) /\ UNCHANGED <<clock, jar, lost>>
        /\ call' = [call EXCEPT ![t] = [call[t] EXCEPT !.pc = "list", !.new = n]]
    BY <1>4, <1>6 DEF Create
  <1>9. PICK c \in Call : c = [call[t] EXCEPT !.pc = "list", !.new = n]
    BY <1>0, <1>5 DEF Call
  <1>10. c.pc = "list" /\ c.new = n /\ c.token = call[t].token
    BY <1>0, <1>9 DEF Call
  <1>11. call' \in [Tabs -> Call] /\ call'[t] = c /\ \A u \in Tabs \ {t} : call'[u] = call[u]
    BY <1>0, <1>8, <1>9, CallChanges
  <1>12. /\ sessions' \in Seq(Session) /\ Len(sessions') = n /\ DOMAIN sessions' = DOMAIN sessions \cup {n}
         /\ sessions'[n] = row /\ \A r \in DOMAIN sessions : sessions'[r] = sessions[r]
    BY <1>1, <1>4, <1>8
  <1>13. SessionsType'
    BY <1>0, <1>5, <1>8, <1>11, <1>12 DEF SessionsType
  <1>14. /\ call[t].token # 0 => call[t].token \in DOMAIN sessions /\ sessions[call[t].token].revoked
         /\ call[t].token # 0 => \A s \in DOMAIN sessions : sessions[s].parent # call[t].token
    BY <1>0 DEF CallFits
  <1>15. RowsFit(sessions')
    <2> SUFFICES ASSUME NEW s \in DOMAIN sessions'
                 PROVE  /\ sessions'[s].rotated # Never => sessions'[s].revoked
                        /\ sessions'[s].parent # 0 => sessions'[s].parent \in DOMAIN sessions' /\ sessions'[sessions'[s].parent].revoked
                        /\ \A r \in DOMAIN sessions' :
                              sessions'[s].parent # 0 /\ sessions'[r].parent = sessions'[s].parent => r = s
      BY DEF RowsFit
    <2>1. CASE s = n
      BY <1>7, <1>12, <1>14, <2>1
    <2>2. CASE s \in DOMAIN sessions
      BY <1>0, <1>7, <1>12, <1>14, <2>2 DEF RowsFit
    <2> QED
      BY <1>12, <2>1, <2>2
  <1>16. ASSUME NEW u \in Tabs \ {t} PROVE CallFits(call[u], sessions')
    <2>1. CallFits(call[u], sessions)
      BY <1>0 DEF CallsFit
    <2>2. call[u].pc = "create" /\ call[u].token # 0 => call[u].token # row.parent
      BY <1>0, <1>7 DEF CallsDiffer
    <2> QED
      BY <1>12, <2>1, <2>2 DEF CallFits
  <1>17. CallFits(c, sessions')
    BY <1>0, <1>7, <1>10, <1>12 DEF CallFits, Made
  <1>18. CallsFit(call', sessions')
    <2> SUFFICES ASSUME NEW u \in Tabs PROVE CallFits(call'[u], sessions')
      BY DEF CallsFit
    <2> QED
      BY <1>11, <1>16, <1>17
  <1>19. \A u \in Tabs : call[u].token # n /\ (call[u].pc \in Made => call[u].new # n)
    BY <1>0, <1>5 DEF CallsFit, CallFits
  <1>20. \A u \in Tabs : call'[u].token = call[u].token /\ (u # t => call'[u] = call[u])
    BY <1>10, <1>11
  <1>21. CallsDiffer(call')
    <2> SUFFICES ASSUME NEW u \in Tabs, NEW v \in Tabs
                 PROVE  /\ call'[u].pc = "create" /\ call'[v].pc = "create" /\ call'[u].token = call'[v].token /\ call'[u].token # 0
                              => u = v
                        /\ call'[u].pc \in Made /\ call'[v].pc \in Made /\ call'[u].new = call'[v].new => u = v
                        /\ call'[u].pc \in Made => call'[v].token # call'[u].new
      BY DEF CallsDiffer
    <2>1. CASE u # t /\ v # t
      BY <1>0, <1>20, <2>1 DEF CallsDiffer
    <2>2. CASE u = t
      BY <1>10, <1>11, <1>19, <1>20, <2>2
    <2>3. CASE u # t /\ v = t
      BY <1>0, <1>10, <1>11, <1>19, <1>20, <2>3 DEF CallsDiffer
    <2> QED
      BY <2>1, <2>2, <2>3
  <1>22. JarsFit(jar, call', sessions')
    <2> SUFFICES ASSUME NEW b \in Browsers
                 PROVE  /\ jar[b] \in DOMAIN sessions' \cup {0}
                        /\ \A d \in Browsers : jar[b] = jar[d] /\ jar[b] # 0 => b = d
                        /\ \A u \in Tabs :
                              /\ jar[b] = call'[u].token /\ jar[b] # 0 => Browser[u] = b
                              /\ call'[u].pc \in Made => jar[b] # call'[u].new
      BY DEF JarsFit
    <2>1. jar[b] \in DOMAIN sessions \cup {0} /\ jar[b] # n
      BY <1>0, <1>5 DEF JarsFit
    <2> QED
      BY <1>0, <1>10, <1>11, <1>12, <1>20, <2>1 DEF JarsFit
  <1>23. SpentFit(jar, call', sessions', lost.browsers)
    <2> SUFFICES ASSUME NEW b \in Browsers \ lost.browsers, jar[b] # 0 /\ sessions'[jar[b]].rotated # Never
                 PROVE  \E u \in Tabs : /\ Browser[u] = b /\ call'[u].token = jar[b]
                                        /\ call'[u].pc \in Made \cup {"create"}
      BY DEF SpentFit
    <2>1. sessions[jar[b]].rotated # Never
      BY <1>0, <1>12 DEF JarsFit
    <2>2. PICK u \in Tabs : Browser[u] = b /\ call[u].token = jar[b] /\ call[u].pc \in Made \cup {"create"}
      BY <1>0, <2>1 DEF SpentFit
    <2> QED
      BY <1>10, <1>11, <1>20, <2>2 DEF Made
  <1>24. /\ Pruning(call') = Pruning(call) /\ Listing(call') = Listing(call) \cup {t} /\ t \notin Listing(call)
         /\ Creating(call') = Creating(call) \ {t}
    BY <1>0, <1>10, <1>11 DEF Pruning, Listing, Creating
  <1>25. FewIn(LiveIn(sessions'), call')
    <2>1. IsFiniteSet(LiveIn(sessions)) /\ LiveIn(sessions') = LiveIn(sessions) \cup {n}
      BY <1>0, <1>7, <1>12, SessionRows DEF LiveIn
    <2>2. \A u \in Pruning(call) : call'[u].doomed = call[u].doomed
      BY <1>0, <1>11 DEF Pruning
    <2>3. PICK live, after, later : live = LiveIn(sessions) /\ after = LiveIn(sessions') /\ later = call'
      OBVIOUS
    <2>4. /\ IsFiniteSet(live) /\ after = live \cup {n} /\ FewIn(live, call)
          /\ Pruning(later) = Pruning(call) /\ Listing(later) = Listing(call) \cup {t} /\ t \notin Listing(call)
          /\ \A u \in Pruning(call) : later[u].doomed = call[u].doomed
      BY <1>0, <1>24, <2>1, <2>2, <2>3
    <2>5. FewIn(live \cup {n}, later)
      BY <2>4, FewWithNew, Zenon
    <2> QED
      BY <2>3, <2>4, <2>5
  <1>26. RoomLeft(call', sessions')
    BY <1>0, <1>1, <1>2, <1>3, <1>4, <1>12, <1>24, SessionAssumption DEF RoomLeft
  <1>27. jar' = jar /\ lost' = lost
    BY <1>8
  <1> QED
    BY <1>13, <1>15, <1>18, <1>21, <1>22, <1>23, <1>25, <1>26, <1>27 DEF SessionsInd

\* A call whose session is on its way moves on; rows may be revoked.
LEMMA MadeMove ==
  ASSUME SessionsInd, NEW t \in Tabs, NEW c \in Call, call' = [call EXCEPT ![t] = c],
         c.pc \in Made, call[t].pc \in Made, c.token = call[t].token, c.new = call[t].new,
         sessions' \in Seq(Session), Len(sessions') = Len(sessions), Later(sessions, sessions'),
         UNCHANGED <<clock, jar, lost>>, FewIn(LiveIn(sessions'), call')
  PROVE  SessionsInd'
  <1>0. /\ SessionsType /\ RowsFit(sessions) /\ CallsFit(call, sessions) /\ CallsDiffer(call)
        /\ JarsFit(jar, call, sessions) /\ SpentFit(jar, call, sessions, lost.browsers)
        /\ RoomLeft(call, sessions)
    BY DEF SessionsInd
  <1>1. call' \in [Tabs -> Call] /\ call'[t] = c /\ \A u \in Tabs \ {t} : call'[u] = call[u]
    BY <1>0, CallChanges
  <1>2. SessionsType'
    BY <1>0, <1>1 DEF SessionsType
  <1>3. RowsFit(sessions')
    BY <1>0, LaterRows
  <1>4. CallFits(c, sessions)
    BY <1>0 DEF CallsFit, CallFits, Made
  <1>5. CallsFit(call', sessions')
    <2>1. \A u \in Tabs : CallFits(call'[u], sessions)
      BY <1>0, <1>1, <1>4 DEF CallsFit
    <2> QED
      BY <1>0, <2>1, LaterRows DEF CallsFit
  <1>6. /\ \A u \in Tabs : call'[u].token = call[u].token /\ call'[u].new = call[u].new
        /\ \A u \in Tabs : call'[u].pc \in Made <=> call[u].pc \in Made
        /\ \A u \in Tabs : call'[u].pc = "create" <=> call[u].pc = "create"
    BY <1>1 DEF Made
  <1>7. CallsDiffer(call')
    BY <1>0, <1>6 DEF CallsDiffer
  <1>8. JarsFit(jar, call', sessions)
    BY <1>0, <1>6 DEF JarsFit
  <1>9. SpentFit(jar, call', sessions, lost.browsers)
    BY <1>0, <1>6 DEF SpentFit
  <1>10. JarsFit(jar, call', sessions') /\ SpentFit(jar, call', sessions', lost.browsers)
    BY <1>0, <1>8, <1>9, LaterRows, LaterSpent
  <1>11. Creating(call') = Creating(call)
    BY <1>1 DEF Creating, Made
  <1>12. RoomLeft(call', sessions') /\ jar' = jar /\ lost' = lost
    BY <1>0, <1>11 DEF RoomLeft
  <1> QED
    BY <1>2, <1>3, <1>5, <1>7, <1>10, <1>12 DEF SessionsInd

LEMMA LeastSession ==
  ASSUME NEW S, S \subseteq Nat, S # {}
  PROVE  \E x \in S : \A y \in S : x <= y
  <1>1. PICK x \in S : \A y \in S : ~(<<y, x>> \in OpToRel(<, Nat))
    BY NatLessThanWellFounded, WFMin, Zenon
  <1>2. \A y \in S : ~(y < x)
    BY <1>1, Zenon DEF OpToRel
  <1> QED
    BY <1>2

\* The sessions that are kept, each with fewer than Keep newer ones, are no more
\* than Keep: the oldest of them has all the others after it.
LEMMA KeptAreFew ==
  ASSUME NEW S, S \subseteq Nat, IsFiniteSet(S)
  PROVE  Cardinality({s \in S : ~(Cardinality({r \in S : r > s}) >= Keep)}) <= Keep
  <1> DEFINE K == {s \in S : ~(Cardinality({r \in S : r > s}) >= Keep)}
  <1>0. Keep \in Nat /\ Keep > 0
    BY SessionAssumption
  <1>1. CASE K = {}
    <2> HIDE DEF K
    <2>1. Cardinality(K) = 0
      BY <1>1, FS_EmptySet
    <2>2. Cardinality(K) <= Keep
      BY <1>0, <2>1
    <2> QED
      BY <2>2 DEF K
  <1>2. CASE K # {}
    <2>1. K \subseteq Nat
      OBVIOUS
    <2> HIDE DEF K
    <2>2. PICK s \in K : \A y \in K : s <= y
      BY <1>2, <2>1, LeastSession
    <2> DEFINE after == {r \in S : r > s}
    <2>3. after \subseteq S
      OBVIOUS
    <2>4. IsFiniteSet(after) /\ Cardinality(after) \in Nat
      BY <2>3, FS_Subset, FS_CardinalityType
    <2>5. ~(Cardinality(after) >= Keep)
      BY <2>2 DEF K
    <2>6. K \subseteq after \cup {s}
      BY <2>1, <2>2 DEF K
    <2>7. s \notin after
      BY <2>1, <2>2
    <2> HIDE DEF after
    <2>8. IsFiniteSet(after \cup {s}) /\ Cardinality(after \cup {s}) = Cardinality(after) + 1
      BY <2>4, <2>7, FS_AddElement
    <2>9. Cardinality(K) <= Cardinality(after \cup {s}) /\ IsFiniteSet(K)
      BY <2>6, <2>8, FS_Subset
    <2>10. Cardinality(K) \in Nat
      BY <2>9, FS_CardinalityType
    <2>11. Cardinality(K) <= Keep
      BY <1>0, <2>4, <2>5, <2>8, <2>9, <2>10
    <2> QED
      BY <2>11 DEF K
  <1> QED
    BY <1>1, <1>2

\* The call that listed: it is through with what is left, or prunes the rest.
LEMMA FewListed ==
  ASSUME NEW live, IsFiniteSet(live), NEW doomed, Cardinality(live \ doomed) <= Keep,
         NEW calls, NEW later, NEW t \in Tabs, FewIn(live, calls), t \notin Pruning(calls),
         \A u \in Pruning(calls) : later[u].doomed = calls[u].doomed,
         \/ doomed = {} /\ Pruning(later) = Pruning(calls) /\ Listing(later) \subseteq Listing(calls)
         \/ /\ Pruning(later) = Pruning(calls) \cup {t} /\ Listing(later) = Listing(calls)
            /\ later[t].doomed = doomed
  PROVE  FewIn(live, later)
  <1> SUFFICES ASSUME NEW T \in SUBSET Pruning(later)
               PROVE  Cardinality(live \ UNION {later[u].doomed : u \in T}) <= Keep + Cardinality(Listing(later) \ T)
    BY DEF FewIn
  <1>0. Keep \in Nat /\ Cardinality(Listing(later) \ T) \in Nat
    <2>1. Listing(later) \ T \subseteq Tabs
      BY DEF Listing
    <2> QED
      BY <2>1, TabSets, SessionAssumption
  <1> PICK D : D = UNION {later[u].doomed : u \in T}
    OBVIOUS
  <1>1. CASE doomed \subseteq D
    <2>1. live \ D \subseteq live \ doomed /\ IsFiniteSet(live \ doomed) /\ IsFiniteSet(live \ D)
      BY <1>1, FS_Subset
    <2>2. Cardinality(live \ D) <= Cardinality(live \ doomed)
      BY <2>1, FS_Subset
    <2>3. Cardinality(live \ doomed) \in Nat /\ Cardinality(live \ D) \in Nat
      BY <2>1, FS_CardinalityType
    <2>4. Cardinality(live \ D) <= Keep + Cardinality(Listing(later) \ T)
      BY <1>0, <2>2, <2>3
    <2> QED
      BY <2>4
  <1>2. CASE ~(doomed \subseteq D)
    <2>1. /\ Pruning(later) = Pruning(calls) \cup {t} /\ Listing(later) = Listing(calls)
          /\ later[t].doomed = doomed
      BY <1>2
    <2>2. t \notin T
      BY <1>2, <2>1
    <2>3. T \subseteq Pruning(calls)
      BY <2>1, <2>2
    <2>4. D = UNION {calls[u].doomed : u \in T}
      BY <2>3
    <2> QED
      BY <2>1, <2>3, <2>4 DEF FewIn
  <1> QED
    BY <1>1, <1>2

LEMMA ListInd ==
  ASSUME SessionsInd, NEW t \in Tabs, List(t)
  PROVE  SessionsInd'
  <1>0. /\ SessionsType /\ call[t] \in Call /\ call[t].pc = "list" /\ FewIn(LiveIn(sessions), call)
        /\ sessions' = sessions /\ UNCHANGED <<clock, jar, lost>>
    BY DEF SessionsInd, SessionsType, List, CallAt
  <1>1. /\ Live = LiveIn(sessions) /\ IsFiniteSet(Live) /\ Live \subseteq Ids /\ Live \subseteq Nat
    <2>1. /\ Live = LiveIn(sessions) /\ IsFiniteSet(LiveIn(sessions))
          /\ DOMAIN sessions \subseteq Ids
      BY <1>0, SessionRows
    <2>2. Live \subseteq DOMAIN sessions /\ Ids \subseteq Nat
      BY DEF Live, Ids
    <2> QED
      BY <2>1, <2>2
  <1> DEFINE old == {s \in Live : Cardinality(Newer(s)) >= Keep}
  <1>2. PICK doomed \in SUBSET Ids : doomed = old
    BY <1>1
  <1>3. Live \ doomed = {s \in Live : ~(Cardinality({r \in Live : r > s}) >= Keep)}
    BY <1>2 DEF Newer
  <1>4. Cardinality(Live \ doomed) <= Keep
    BY <1>1, <1>3, KeptAreFew
  <1>5. call' = [call EXCEPT ![t] = [call[t] EXCEPT !.pc = IF doomed = {} THEN "reply" ELSE "prune", !.doomed = doomed]]
    BY <1>2 DEF List
  <1> HIDE DEF old
  <1>6. PICK c \in Call : c = [call[t] EXCEPT !.pc = IF doomed = {} THEN "reply" ELSE "prune", !.doomed = doomed]
    BY <1>0 DEF Call
  <1>7. /\ c.pc = IF doomed = {} THEN "reply" ELSE "prune"
        /\ c.doomed = doomed /\ c.token = call[t].token /\ c.new = call[t].new
    BY <1>0, <1>6 DEF Call
  <1>8. call' = [call EXCEPT ![t] = c]
    BY <1>5, <1>6
  <1>9. call' \in [Tabs -> Call] /\ call'[t] = c /\ \A u \in Tabs \ {t} : call'[u] = call[u]
    BY <1>0, <1>8, CallChanges
  <1>10. t \notin Pruning(call) /\ t \in Listing(call)
    BY <1>0 DEF Pruning, Listing
  <1>11. \A u \in Pruning(call) : call'[u].doomed = call[u].doomed
    BY <1>9, <1>10 DEF Pruning
  <1>12. \/ doomed = {} /\ Pruning(call') = Pruning(call) /\ Listing(call') \subseteq Listing(call)
         \/ /\ Pruning(call') = Pruning(call) \cup {t} /\ Listing(call') = Listing(call)
            /\ call'[t].doomed = doomed
    <2>1. CASE doomed = {}
      BY <1>0, <1>7, <1>9, <2>1 DEF Pruning, Listing
    <2>2. CASE doomed # {}
      BY <1>0, <1>7, <1>9, <2>2 DEF Pruning, Listing
    <2> QED
      BY <2>1, <2>2
  <1>13. PICK live, later : live = Live /\ later = call'
    OBVIOUS
  <1>14. FewIn(live, later)
    <2>1. /\ IsFiniteSet(live) /\ Cardinality(live \ doomed) <= Keep /\ FewIn(live, call)
          /\ \A u \in Pruning(call) : later[u].doomed = call[u].doomed
          /\ \/ doomed = {} /\ Pruning(later) = Pruning(call) /\ Listing(later) \subseteq Listing(call)
             \/ /\ Pruning(later) = Pruning(call) \cup {t} /\ Listing(later) = Listing(call)
                /\ later[t].doomed = doomed
      BY <1>0, <1>1, <1>4, <1>11, <1>12, <1>13
    <2> QED
      BY <1>10, <2>1, FewListed, Zenon
  <1>15. FewIn(LiveIn(sessions'), call')
    BY <1>0, <1>1, <1>13, <1>14
  <1>16. sessions' \in Seq(Session) /\ Len(sessions') = Len(sessions) /\ Later(sessions, sessions')
    BY <1>0, LaterIsReflexive DEF SessionsType
  <1>17. c.pc \in Made /\ call[t].pc \in Made
    BY <1>0, <1>7 DEF Made
  <1> QED
    BY <1>0, <1>7, <1>8, <1>15, <1>16, <1>17, MadeMove

\* The call that pruned has revoked what it listed.
LEMMA FewPruned ==
  ASSUME NEW live, NEW calls, NEW later, NEW t \in Pruning(calls), FewIn(live, calls),
         Pruning(later) = Pruning(calls) \ {t}, Listing(later) = Listing(calls) \ {t},
         \A u \in Pruning(later) : later[u].doomed = calls[u].doomed
  PROVE  FewIn(live \ calls[t].doomed, later)
  <1> SUFFICES ASSUME NEW T \in SUBSET Pruning(later)
               PROVE  Cardinality((live \ calls[t].doomed) \ UNION {later[u].doomed : u \in T})
                         <= Keep + Cardinality(Listing(later) \ T)
    BY DEF FewIn
  <1>1. T \cup {t} \in SUBSET Pruning(calls)
    OBVIOUS
  <1>2. Cardinality(live \ UNION {calls[u].doomed : u \in T \cup {t}}) <= Keep + Cardinality(Listing(calls) \ (T \cup {t}))
    BY <1>1 DEF FewIn
  <1>3. Listing(calls) \ (T \cup {t}) = Listing(later) \ T
    OBVIOUS
  <1>4. UNION {calls[u].doomed : u \in T \cup {t}} = calls[t].doomed \cup UNION {later[u].doomed : u \in T}
    OBVIOUS
  <1>5. live \ UNION {calls[u].doomed : u \in T \cup {t}} = (live \ calls[t].doomed) \ UNION {later[u].doomed : u \in T}
    BY <1>4
  <1> QED
    BY <1>2, <1>3, <1>5

LEMMA PruneInd ==
  ASSUME SessionsInd, NEW t \in Tabs, Prune(t)
  PROVE  SessionsInd'
  <1>0. /\ SessionsType /\ call[t] \in Call /\ call[t].pc = "prune" /\ FewIn(LiveIn(sessions), call)
        /\ Revoke(call[t].doomed) /\ UNCHANGED <<clock, jar, lost>>
        /\ call' = [call EXCEPT ![t] = [call[t] EXCEPT !.pc = "reply", !.doomed = {}]]
    BY DEF SessionsInd, SessionsType, Prune, CallAt
  <1>1. /\ sessions' \in Seq(Session) /\ Len(sessions') = Len(sessions) /\ Later(sessions, sessions')
        /\ LiveIn(sessions') = LiveIn(sessions) \ call[t].doomed
    BY <1>0, RevokeIsLater
  <1>2. PICK c \in Call : c = [call[t] EXCEPT !.pc = "reply", !.doomed = {}]
    BY <1>0 DEF Call
  <1>3. c.pc = "reply" /\ c.token = call[t].token /\ c.new = call[t].new
    BY <1>0, <1>2 DEF Call
  <1>4. call' = [call EXCEPT ![t] = c]
    BY <1>0, <1>2
  <1>5. call' \in [Tabs -> Call] /\ call'[t] = c /\ \A u \in Tabs \ {t} : call'[u] = call[u]
    BY <1>0, <1>4, CallChanges
  <1>6. /\ t \in Pruning(call)
        /\ Pruning(call') = Pruning(call) \ {t} /\ Listing(call') = Listing(call) \ {t}
        /\ \A u \in Pruning(call') : call'[u].doomed = call[u].doomed
    BY <1>0, <1>3, <1>5 DEF Pruning, Listing
  <1>7. PICK live, later : live = LiveIn(sessions) /\ later = call'
    OBVIOUS
  <1>8. FewIn(live \ call[t].doomed, later)
    <2>1. /\ FewIn(live, call) /\ t \in Pruning(call)
          /\ Pruning(later) = Pruning(call) \ {t} /\ Listing(later) = Listing(call) \ {t}
          /\ \A u \in Pruning(later) : later[u].doomed = call[u].doomed
      BY <1>0, <1>6, <1>7
    <2> QED
      BY <2>1, FewPruned, Zenon
  <1>9. FewIn(LiveIn(sessions'), call')
    BY <1>1, <1>7, <1>8
  <1>10. c.pc \in Made /\ call[t].pc \in Made
    BY <1>0, <1>3 DEF Made
  <1> QED
    BY <1>0, <1>1, <1>3, <1>4, <1>9, <1>10, MadeMove

LEMMA TickInd ==
  ASSUME SessionsInd, Tick
  PROVE  SessionsInd'
  <1>1. clock' \in 0..MaxClock
    BY SessionAssumption DEF SessionsInd, SessionsType, Tick
  <1> QED
    BY <1>1 DEF SessionsInd, SessionsType, Tick

LEMMA SessionsNextInd ==
  ASSUME SessionsInd, [SessionsNext]_sessionVars
  PROVE  SessionsInd'
  <1>1. CASE UNCHANGED sessionVars
    BY <1>1 DEF SessionsInd, SessionsType, sessionVars
  <1>2. CASE Tick
    BY <1>2, TickInd
  <1>3. ASSUME NEW t \in Tabs, TabStep(t) PROVE SessionsInd'
    BY <1>3, CallBeginsInd, OutsideInd, RotateInd, CreateInd, ListInd, PruneInd, ReplyInd, DeniedInd,
       ClearedInd, LoseReplyInd DEF TabStep
  <1> QED
    BY <1>1, <1>2, <1>3 DEF SessionsNext

\* The inductive invariant of the sessions.
THEOREM SessionsInvariant == SessionsSpec => []SessionsInd
  BY SessionsInitInd, SessionsNextInd, PTL DEF SessionsSpec

\* The table of sessions, the cookies and the calls keep their types.
THEOREM SessionsTypeCorrect == SessionsSpec => []SessionsType
  <1>1. SessionsInd => SessionsType
    BY DEF SessionsInd
  <1> QED
    BY <1>1, SessionsInvariant, PTL

\* "Two concurrent refreshes cannot both succeed and fork the session"
\* (auth.service.ts): for any number of tabs, browsers and sessions.
THEOREM SessionsDoNotFork == SessionsSpec => []OneSuccessor
  <1>1. SessionsInd => OneSuccessor
    BY DEF SessionsInd, RowsFit, OneSuccessor
  <1> QED
    BY <1>1, SessionsInvariant, PTL

\* "Keep last 5": no more are live than that, but for one of each call that
\* created a session and has yet to prune.
THEOREM SessionsStayFew == SessionsSpec => []FewLive
  <1>1. SessionsInd => FewLive
    <2> SUFFICES ASSUME SessionsInd PROVE FewLive
      OBVIOUS
    <2>1. {} \in SUBSET Pruning(call) /\ UNION {call[u].doomed : u \in {}} = {}
      OBVIOUS
    <2>2. Cardinality(LiveIn(sessions) \ UNION {call[u].doomed : u \in {}}) <= Keep + Cardinality(Listing(call) \ {})
      BY <2>1 DEF SessionsInd, FewIn
    <2>3. LiveIn(sessions) \ UNION {call[u].doomed : u \in {}} = Live /\ Listing(call) \ {} = Listing(call)
      BY <2>1 DEF Live, LiveIn
    <2>4. Cardinality(Live) <= Keep + Cardinality(Listing(call))
      BY <2>2, <2>3
    <2> QED
      BY <2>4 DEF FewLive, Listing
  <1> QED
    BY <1>1, SessionsInvariant, PTL

\* A browser whose replies all arrived holds no spent token: its next refresh
\* is not taken for that of a copy.
THEOREM CookiesStayUnspent == SessionsSpec => []CookiesUnspent
  <1>1. SessionsInd => CookiesUnspent
    BY DEF SessionsInd, SpentFit, CookiesUnspent, CallAt, Made
  <1> QED
    BY <1>1, SessionsInvariant, PTL

----
(* The two side by side *)

\* MCAccounts adds no behaviour to the components it checks together: what is
\* proved of each holds of the run.
THEOREM AccountsAreBoth == AccountsSpec => SessionsSpec /\ WorkspaceSpec
  <1>1. AccountsInit => SessionsInit /\ WorkspaceInit
    BY DEF AccountsInit
  <1>2. [AccountsNext]_accountVars => [SessionsNext]_sessionVars /\ [WorkspaceNext]_workspaceVars
    BY DEF AccountsNext, accountVars, sessionVars, workspaceVars
  <1> QED
    BY <1>1, <1>2, PTL DEF AccountsSpec, SessionsSpec, WorkspaceSpec

\* The tables of both keep their types.
THEOREM AccountsTypeCorrect == AccountsSpec => []AccountsType
  <1>1. SessionsType /\ WorkspaceType => AccountsType
    BY DEF AccountsType
  <1> QED
    BY <1>1, AccountsAreBoth, SessionsTypeCorrect, WorkspaceTypeCorrect, PTL
====
