----------------------------- MODULE TeamProofs -----------------------------
(***************************************************************************)
(* A team: its owner, members, invitations and keys (Accounts), and its    *)
(* plan and customer at Stripe (Billing), for any number of overlapping    *)
(* requests and events.                                                    *)
(***************************************************************************)
EXTENDS Accounts, Billing, FiniteSetTheorems, TLAPS

-----------------------------------------------------------------------------
(* The team keeps its one owner, and nothing of it outlives it, for any    *)
(* sets of users, invitations, keys and concurrent requests.               *)
(*                                                                         *)
(* CreatorStaysOwner is not inductive: a request whose target was checked  *)
(* earlier writes now.  The strengthening says what that check has         *)
(* established for good, that the target is not the creator.               *)

\* No request under way makes anyone an owner, and none that may write touches
\* the creator's membership.
RequestsInv ==
    \A r \in Requests : request[r].pc # "idle" =>
        /\ request[r].do.op \in {"invite", "set_role"} => request[r].do.role # "owner"
        /\ request[r].pc = "checked" /\ request[r].do.op \in {"remove", "set_role"} =>
              request[r].do.user # Creator

\* No invitation makes anyone an owner.
InvitationsInv == \A i \in Invitations : invitations[i].role # "owner"

\* Without its row the team has no other rows.
RowsNeedTeam ==
    team # "present" =>
        /\ keys = {}
        /\ \A u \in Users : members[u] = "none"
        /\ \A i \in Invitations : invitations[i].status = "absent"

AccountsInv ==
    AccountsTypeOK /\ RequestsInv /\ InvitationsInv /\ RowsNeedTeam /\ CreatorStaysOwner

\* The operations that a request can carry.
LEMMA OpsFields ==
    ASSUME NEW do \in Ops
    PROVE  /\ do.op \in {"invite", "set_role"} => do.user \in Users /\ do.role \in Roles
           /\ do.op = "remove" => do.user \in Users
           /\ do.op = "revoke" => do.invitation \in Invitations
           /\ do.op \in {"create_key", "delete_key"} => do.key \in Keys
BY DEF Ops

\* A request in progress carries an operation.
LEMMA RequestCarriesOp ==
    ASSUME AccountsTypeOK, NEW r \in Requests, request[r].pc # "idle"
    PROVE  request[r].do \in Ops /\ request[r].pc \in {"authorised", "checked"}
BY DEF AccountsTypeOK, RequestState, NoRequest

\* A finished request leaves the other requests, and what is said of them, alone.
LEMMA FinishKeeps ==
    ASSUME AccountsTypeOK, RequestsInv, NEW r \in Requests, Finish(r)
    PROVE  request' \in [Requests -> RequestState] /\ RequestsInv'
<1>1. request' = [request EXCEPT ![r] = NoRequest] /\ request \in [Requests -> RequestState]
  BY DEF Finish, AccountsTypeOK
<1>2. NoRequest \in RequestState /\ NoRequest.pc = "idle"
  BY DEF RequestState, NoRequest
<1>3. \A q \in Requests : request'[q] = IF q = r THEN NoRequest ELSE request[q]
  BY <1>1
<1> QED
  BY <1>1, <1>2, <1>3 DEF RequestsInv

LEMMA AccountsInitInv == AccountsInit => AccountsInv
<1> SUFFICES ASSUME AccountsInit PROVE AccountsInv
  OBVIOUS
<1>1. NoRequest \in RequestState /\ NoRequest.pc = "idle"
  BY DEF RequestState, NoRequest
<1>2. NoInvitation \in InvitationRow /\ NoInvitation.role = "member" /\ NoInvitation.status = "absent"
  BY AccountsAssumption DEF NoInvitation, InvitationRow, Roles
<1>3. AccountsTypeOK
  BY <1>1, <1>2 DEF AccountsInit, AccountsTypeOK
<1> QED
  BY <1>1, <1>2, <1>3
  DEF AccountsInit, AccountsInv, RequestsInv, InvitationsInv, RowsNeedTeam, CreatorStaysOwner

-----------------------------------------------------------------------------
(* One lemma per action.                                                   *)

LEMMA CreateTeamKeeps == AccountsInv /\ CreateTeam => AccountsInv'
<1> SUFFICES ASSUME AccountsInv, CreateTeam PROVE AccountsInv'
  OBVIOUS
<1>1. /\ team = "none" /\ team' = "present"
      /\ members' = [members EXCEPT ![Creator] = "owner"]
      /\ UNCHANGED <<invitations, keys, request>>
  BY DEF CreateTeam, CreateWithOwner
<1>2. members \in [Users -> Roles \cup {"none"}] /\ \A u \in Users : members[u] = "none"
  BY <1>1 DEF AccountsInv, AccountsTypeOK, RowsNeedTeam
<1>3. AccountsTypeOK'
  BY <1>1, <1>2, AccountsAssumption DEF AccountsInv, AccountsTypeOK, Roles
<1>4. CreatorStaysOwner'
  BY <1>1, <1>2, AccountsAssumption DEF CreatorStaysOwner
<1> QED
  BY <1>1, <1>3, <1>4 DEF AccountsInv, RequestsInv, InvitationsInv, RowsNeedTeam

LEMMA AuthoriseKeeps ==
    ASSUME AccountsInv, NEW r \in Requests, Authorise(r)
    PROVE  AccountsInv'
<1>1. PICK do \in Ops :
        /\ RoleAllowed(do)
        /\ request' = [request EXCEPT ![r] =
              [pc |-> IF do.op \in {"remove", "set_role"} THEN "authorised" ELSE "checked",
               do |-> do]]
  BY DEF Authorise
<1>2. UNCHANGED <<team, members, invitations, keys>> /\ request \in [Requests -> RequestState]
  BY DEF Authorise, AccountsInv, AccountsTypeOK
<1> DEFINE new == [pc |-> IF do.op \in {"remove", "set_role"} THEN "authorised" ELSE "checked", do |-> do]
<1>3. /\ new \in RequestState /\ new.do = do
      /\ new.pc = "checked" => do.op \notin {"remove", "set_role"}
  BY DEF RequestState
<1>4. \A q \in Requests : request'[q] = IF q = r THEN new ELSE request[q]
  BY <1>1, <1>2
<1>5. request' \in [Requests -> RequestState]
  BY <1>1, <1>2, <1>3
<1> HIDE DEF new
<1>6. RequestsInv'
  BY <1>1, <1>3, <1>4 DEF RequestsInv, RoleAllowed, AccountsInv
<1> QED
  BY <1>2, <1>5, <1>6 DEF AccountsInv, AccountsTypeOK, InvitationsInv, RowsNeedTeam, CreatorStaysOwner

\* The check: a member who is not the owner is not the creator.
LEMMA CheckTargetKeeps ==
    ASSUME AccountsInv, NEW r \in Requests, CheckTarget(r)
    PROVE  AccountsInv'
<1>1. UNCHANGED <<team, members, invitations, keys>> /\ request \in [Requests -> RequestState]
  BY DEF CheckTarget, AccountsInv, AccountsTypeOK
<1>2. CASE Finish(r)
  BY <1>1, <1>2, FinishKeeps
  DEF AccountsInv, AccountsTypeOK, InvitationsInv, RowsNeedTeam, CreatorStaysOwner
<1>3. CASE TargetAllowed(request[r].do) /\ request' = [request EXCEPT ![r].pc = "checked"]
  <2>1. request[r].pc = "authorised" /\ request[r].do \in Ops
    BY RequestCarriesOp DEF CheckTarget, AccountsInv
  <2>2. request[r] \in [pc : {"authorised", "checked"}, do : Ops]
    BY <1>1, <2>1 DEF RequestState, NoRequest
  <2>3. \A q \in Requests : request'[q] = IF q = r THEN [request[r] EXCEPT !.pc = "checked"] ELSE request[q]
    BY <1>1, <1>3
  <2> DEFINE new == [request[r] EXCEPT !.pc = "checked"]
  <2>4. new \in RequestState /\ new.pc = "checked" /\ new.do = request[r].do
    BY <2>2 DEF RequestState
  <2>5. request' \in [Requests -> RequestState]
    BY <1>1, <1>3, <2>4
  <2>6. ASSUME request[r].do.op \in {"remove", "set_role"} PROVE request[r].do.user # Creator
    <3>1. request[r].do.user \in Users /\ members[request[r].do.user] \in Roles \ {"owner"}
      BY <1>3, <2>1, <2>6, OpsFields DEF TargetAllowed
    <3>2. team = "present"
      BY <3>1 DEF AccountsInv, RowsNeedTeam, Roles
    <3> QED
      BY <3>1, <3>2 DEF AccountsInv, CreatorStaysOwner
  <2> HIDE DEF new
  <2>7. RequestsInv'
    BY <2>1, <2>3, <2>4, <2>6 DEF RequestsInv, AccountsInv, new
  <2> QED
    BY <1>1, <2>5, <2>7 DEF AccountsInv, AccountsTypeOK, InvitationsInv, RowsNeedTeam, CreatorStaysOwner
<1> QED
  BY <1>2, <1>3 DEF CheckTarget

LEMMA DoDeleteTeamKeeps ==
    ASSUME AccountsInv, NEW r \in Requests, DoDeleteTeam(r)
    PROVE  AccountsInv'
<1>1. DeleteTeam /\ Finish(r)
  BY DEF DoDeleteTeam
<1>2. NoInvitation \in InvitationRow /\ NoInvitation.role = "member" /\ NoInvitation.status = "absent"
  BY AccountsAssumption DEF NoInvitation, InvitationRow, Roles
<1>3. request' \in [Requests -> RequestState] /\ RequestsInv'
  BY <1>1, FinishKeeps DEF AccountsInv
<1> QED
  BY <1>1, <1>2, <1>3
  DEF DeleteTeam, AccountsInv, AccountsTypeOK, InvitationsInv, RowsNeedTeam, CreatorStaysOwner

\* Both writes to a membership go to a member who is not the creator, and give
\* no one the owner's role.
LEMMA MemberWriteKeeps ==
    ASSUME AccountsInv, NEW r \in Requests, NEW u \in Users, u # Creator,
           NEW role \in (Roles \cup {"none"}) \ {"owner"}, members[u] # "none" \/ role = "none",
           members' = [members EXCEPT ![u] = role], Finish(r),
           UNCHANGED <<team, invitations, keys>>
    PROVE  AccountsInv'
<1>1. members \in [Users -> Roles \cup {"none"}]
  BY DEF AccountsInv, AccountsTypeOK
<1>2. \A v \in Users : members'[v] = IF v = u THEN role ELSE members[v]
  BY <1>1
<1>3. request' \in [Requests -> RequestState] /\ RequestsInv'
  BY FinishKeeps DEF AccountsInv
<1>4. AccountsTypeOK' /\ InvitationsInv'
  BY <1>1, <1>3 DEF AccountsInv, AccountsTypeOK, InvitationsInv
<1>5. CreatorStaysOwner'
  BY <1>2 DEF AccountsInv, CreatorStaysOwner
<1>6. RowsNeedTeam'
  BY <1>2 DEF AccountsInv, RowsNeedTeam
<1> QED
  BY <1>3, <1>4, <1>5, <1>6 DEF AccountsInv

LEMMA DoRemoveKeeps ==
    ASSUME AccountsInv, NEW r \in Requests, DoRemove(r)
    PROVE  AccountsInv'
<1>1. request[r].pc = "checked" /\ request[r].do.op = "remove" /\ request[r].do \in Ops
  BY RequestCarriesOp DEF DoRemove, Ready, AccountsInv
<1>2. request[r].do.user \in Users /\ request[r].do.user # Creator
  BY <1>1, OpsFields DEF AccountsInv, RequestsInv
<1> QED
  BY <1>2, MemberWriteKeeps DEF DoRemove, RemoveMember, Roles

LEMMA DoSetRoleKeeps ==
    ASSUME AccountsInv, NEW r \in Requests, DoSetRole(r)
    PROVE  AccountsInv'
<1> DEFINE u == request[r].do.user  role == request[r].do.role
<1>1. request[r].pc = "checked" /\ request[r].do.op = "set_role" /\ request[r].do \in Ops
  BY RequestCarriesOp DEF DoSetRole, Ready, AccountsInv
<1>2. u \in Users /\ u # Creator /\ role \in (Roles \cup {"none"}) \ {"owner"}
  BY <1>1, OpsFields DEF AccountsInv, RequestsInv
<1>3. Finish(r) /\ UNCHANGED <<team, invitations, keys>>
  BY DEF DoSetRole
<1>4. CASE members[u] = "none"
  <2>1. members' = [members EXCEPT ![u] = "none"]
    BY <1>2, <1>4 DEF DoSetRole, UpdateMemberRole, AccountsInv, AccountsTypeOK
  <2> QED
    BY <1>2, <1>3, <2>1, MemberWriteKeeps
<1>5. CASE members[u] # "none"
  BY <1>2, <1>3, <1>5, MemberWriteKeeps DEF DoSetRole, UpdateMemberRole
<1> QED
  BY <1>4, <1>5

\* Steps that write nothing but invitations, each row keeping its role or
\* getting one that is not the owner's.
LEMMA InvitationWriteKeeps ==
    ASSUME AccountsInv, invitations' \in [Invitations -> InvitationRow], InvitationsInv',
           team = "present" \/ \A i \in Invitations : invitations'[i].status = "absent",
           request' \in [Requests -> RequestState], RequestsInv',
           UNCHANGED <<team, members, keys>>
    PROVE  AccountsInv'
BY DEF AccountsInv, AccountsTypeOK, RowsNeedTeam, CreatorStaysOwner

LEMMA RevokeExpiredRows ==
    ASSUME AccountsInv, NEW u \in Users
    PROVE  /\ RevokeExpired(u) \in [Invitations -> InvitationRow]
           /\ \A i \in Invitations :
                 /\ RevokeExpired(u)[i].role # "owner"
                 /\ invitations[i].status = "absent" => RevokeExpired(u)[i].status = "absent"
<1>1. \A i \in Invitations : invitations[i] \in InvitationRow /\ invitations[i].role # "owner"
  BY DEF AccountsInv, AccountsTypeOK, InvitationsInv
<1>2. \A i \in Invitations :
        LET x == [invitations[i] EXCEPT !.status = "revoked"]
        IN  x \in InvitationRow /\ x.role # "owner"
  BY <1>1 DEF InvitationRow
<1> QED
  BY <1>1, <1>2 DEF RevokeExpired

LEMMA DoInviteKeeps ==
    ASSUME AccountsInv, NEW r \in Requests, DoInvite(r)
    PROVE  AccountsInv'
<1> DEFINE u == request[r].do.user  role == request[r].do.role
<1>1. request[r].pc = "checked" /\ request[r].do.op = "invite" /\ request[r].do \in Ops
  BY RequestCarriesOp DEF DoInvite, Ready, AccountsInv
<1>2. u \in Users /\ role \in Roles /\ role # "owner"
  BY <1>1, OpsFields DEF AccountsInv, RequestsInv
<1>3. request' \in [Requests -> RequestState] /\ RequestsInv' /\ UNCHANGED <<team, members, keys>>
  BY FinishKeeps DEF DoInvite, AccountsInv
<1>4. CASE invitations' = RevokeExpired(u)
  <2>1. team = "present" \/ \A i \in Invitations : invitations'[i].status = "absent"
    BY <1>2, <1>4, RevokeExpiredRows DEF AccountsInv, RowsNeedTeam
  <2> QED
    BY <1>2, <1>3, <1>4, <2>1, RevokeExpiredRows, InvitationWriteKeeps DEF InvitationsInv
<1>5. CASE /\ RowOfTeam
           /\ \E i \in Invitations : invitations' = InsertInvitation(RevokeExpired(u), i, u, role)
  <2>1. PICK i \in Invitations : invitations' = InsertInvitation(RevokeExpired(u), i, u, role)
    BY <1>5
  <2> DEFINE new == [status |-> "pending", email |-> u, role |-> role, expired |-> FALSE]
  <2>2. new \in InvitationRow /\ new.role # "owner"
    BY <1>2 DEF InvitationRow
  <2>3. invitations' = [RevokeExpired(u) EXCEPT ![i] = new]
    BY <2>1 DEF InsertInvitation
  <2> HIDE DEF new
  <2>4. invitations' \in [Invitations -> InvitationRow] /\ InvitationsInv'
    BY <1>2, <2>2, <2>3, RevokeExpiredRows DEF InvitationsInv
  <2> QED
    BY <1>3, <1>5, <2>4, InvitationWriteKeeps DEF RowOfTeam
<1> QED
  BY <1>4, <1>5 DEF DoInvite

LEMMA StatusWriteKeeps ==
    ASSUME AccountsInv, NEW i \in Invitations, NEW s \in {"accepted", "revoked"},
           invitations[i].status = "pending",
           invitations' = [invitations EXCEPT ![i].status = s]
    PROVE  /\ invitations' \in [Invitations -> InvitationRow] /\ InvitationsInv'
           /\ team = "present"
<1>1. \A j \in Invitations : invitations[j] \in InvitationRow /\ invitations[j].role # "owner"
  BY DEF AccountsInv, AccountsTypeOK, InvitationsInv
<1> DEFINE new == [invitations[i] EXCEPT !.status = s]
<1>2. new \in InvitationRow /\ new.role # "owner"
  BY <1>1 DEF InvitationRow
<1>3. invitations' = [invitations EXCEPT ![i] = new] /\ invitations \in [Invitations -> InvitationRow]
  BY DEF AccountsInv, AccountsTypeOK
<1> HIDE DEF new
<1>4. team = "present"
  BY DEF AccountsInv, RowsNeedTeam
<1> QED
  BY <1>1, <1>2, <1>3, <1>4 DEF InvitationsInv

LEMMA DoRevokeKeeps ==
    ASSUME AccountsInv, NEW r \in Requests, DoRevoke(r)
    PROVE  AccountsInv'
<1> DEFINE i == request[r].do.invitation
<1>1. request[r].pc = "checked" /\ request[r].do.op = "revoke" /\ request[r].do \in Ops
  BY RequestCarriesOp DEF DoRevoke, Ready, AccountsInv
<1>2. i \in Invitations
  BY <1>1, OpsFields
<1>3. request' \in [Requests -> RequestState] /\ RequestsInv' /\ UNCHANGED <<team, members, keys>>
  BY FinishKeeps DEF DoRevoke, AccountsInv
<1>4. CASE invitations[i].status = "pending"
  <2>1. invitations' = [invitations EXCEPT ![i].status = "revoked"]
    BY <1>4 DEF DoRevoke, RevokeInvitation
  <2> HIDE DEF i
  <2> QED
    BY <1>2, <1>3, <1>4, <2>1, StatusWriteKeeps, InvitationWriteKeeps
<1>5. CASE invitations[i].status # "pending"
  BY <1>3, <1>5 DEF DoRevoke, RevokeInvitation, AccountsInv, AccountsTypeOK, InvitationsInv,
                    RowsNeedTeam, CreatorStaysOwner
<1> QED
  BY <1>4, <1>5

\* The foreign key keeps a late insert out.
LEMMA KeyWriteKeeps ==
    ASSUME AccountsInv, NEW r \in Requests, DoCreateKey(r) \/ DoDeleteKey(r)
    PROVE  AccountsInv'
<1>1. request[r].pc = "checked" /\ request[r].do \in Ops
      /\ request[r].do.op \in {"create_key", "delete_key"}
  BY RequestCarriesOp DEF DoCreateKey, DoDeleteKey, Ready, AccountsInv
<1>2. request[r].do.key \in Keys
  BY <1>1, OpsFields
<1>3. request' \in [Requests -> RequestState] /\ RequestsInv'
  BY FinishKeeps DEF DoCreateKey, DoDeleteKey, AccountsInv
<1>4. keys' \in SUBSET Keys /\ (team = "present" \/ keys' = {}) /\ UNCHANGED <<team, members, invitations>>
  BY <1>2 DEF DoCreateKey, DoDeleteKey, RowOfTeam, AccountsInv, AccountsTypeOK, RowsNeedTeam
<1> QED
  BY <1>3, <1>4 DEF AccountsInv, AccountsTypeOK, InvitationsInv, RowsNeedTeam, CreatorStaysOwner

\* Whoever joins is not the creator, who is there already, and is no owner.
LEMMA AcceptInvitationKeeps ==
    ASSUME AccountsInv, NEW i \in Invitations, NEW u \in Users, AcceptInvitation(i, u)
    PROVE  AccountsInv'
<1>1. /\ invitations[i].status = "pending"
      /\ invitations' = [invitations EXCEPT ![i].status = "accepted"]
      /\ UNCHANGED <<team, keys, request>>
  BY DEF AcceptInvitation, CanAcceptInvitation
<1>2. invitations' \in [Invitations -> InvitationRow] /\ InvitationsInv' /\ team = "present"
  BY <1>1, StatusWriteKeeps
<1>3. invitations[i].role \in Roles \ {"owner"}
  BY DEF AccountsInv, AccountsTypeOK, InvitationsInv, InvitationRow
<1>4. /\ members \in [Users -> Roles \cup {"none"}]
      /\ members' = IF members[u] = "none" THEN [members EXCEPT ![u] = invitations[i].role] ELSE members
  BY DEF AcceptInvitation, AcceptMember, AccountsInv, AccountsTypeOK
<1>5. CreatorStaysOwner' /\ members' \in [Users -> Roles \cup {"none"}]
  BY <1>1, <1>2, <1>3, <1>4 DEF AccountsInv, CreatorStaysOwner
<1> QED
  BY <1>1, <1>2, <1>5 DEF AccountsInv, AccountsTypeOK, RowsNeedTeam, RequestsInv

LEMMA SevenDaysPassKeeps ==
    ASSUME AccountsInv, NEW i \in Invitations, SevenDaysPass(i)
    PROVE  AccountsInv'
<1>1. \A j \in Invitations : invitations[j] \in InvitationRow /\ invitations[j].role # "owner"
  BY DEF AccountsInv, AccountsTypeOK, InvitationsInv
<1> DEFINE new == [invitations[i] EXCEPT !.expired = TRUE]
<1>2. new \in InvitationRow /\ new.role # "owner"
  BY <1>1 DEF InvitationRow
<1>3. /\ invitations' = [invitations EXCEPT ![i] = new] /\ invitations \in [Invitations -> InvitationRow]
      /\ UNCHANGED <<team, members, keys, request>> /\ invitations[i].status = "pending"
  BY DEF SevenDaysPass, AccountsInv, AccountsTypeOK
<1> HIDE DEF new
<1>4. invitations' \in [Invitations -> InvitationRow] /\ InvitationsInv' /\ team = "present"
  BY <1>1, <1>2, <1>3 DEF InvitationsInv, AccountsInv, RowsNeedTeam
<1> QED
  BY <1>3, <1>4, InvitationWriteKeeps DEF AccountsInv, AccountsTypeOK, RequestsInv

LEMMA AccountsNextKeeps == AccountsInv /\ [AccountsNext]_accountVars => AccountsInv'
<1> SUFFICES ASSUME AccountsInv, [AccountsNext]_accountVars PROVE AccountsInv'
  OBVIOUS
<1>1. CASE UNCHANGED accountVars
  BY <1>1 DEF accountVars, AccountsInv, AccountsTypeOK, RequestsInv, InvitationsInv, RowsNeedTeam,
              CreatorStaysOwner
<1>2. CASE CreateTeam
  BY <1>2, CreateTeamKeeps
<1>3. ASSUME NEW r \in Requests,
             \/ Authorise(r) \/ CheckTarget(r)
             \/ DoDeleteTeam(r) \/ DoRemove(r) \/ DoSetRole(r) \/ DoInvite(r) \/ DoRevoke(r)
             \/ DoCreateKey(r) \/ DoDeleteKey(r)
      PROVE  AccountsInv'
  BY <1>3, AuthoriseKeeps, CheckTargetKeeps, DoDeleteTeamKeeps, DoRemoveKeeps, DoSetRoleKeeps,
     DoInviteKeeps, DoRevokeKeeps, KeyWriteKeeps
<1>4. ASSUME NEW i \in Invitations, SevenDaysPass(i) \/ \E u \in Users : AcceptInvitation(i, u)
      PROVE  AccountsInv'
  BY <1>4, SevenDaysPassKeeps, AcceptInvitationKeeps
<1> QED
  BY <1>1, <1>2, <1>3, <1>4 DEF AccountsNext

-----------------------------------------------------------------------------
\* The invariant of team_repo.go's tables and of the requests at work on them.
THEOREM AccountsInvariance == AccountsSpec => []AccountsInv
<1> QED
  BY AccountsInitInv, AccountsNextKeeps, PTL DEF AccountsSpec

\* However the requests of RemoveMember, UpdateMemberRole and AcceptInvitation
\* overlap, a team has its creator as its one owner until it is deleted.
THEOREM OneOwner == AccountsSpec => []CreatorStaysOwner
<1>1. AccountsInv => CreatorStaysOwner
  BY DEF AccountsInv
<1> QED
  BY <1>1, AccountsInvariance, PTL

\* TeamRepo.Delete takes everything along, and the foreign keys refuse what a
\* request that is under way would add.
THEOREM DeletionIsComplete == AccountsSpec => []NothingOutlivesTeam
<1>1. AccountsInv => NothingOutlivesTeam
  BY DEF AccountsInv, RowsNeedTeam, NothingOutlivesTeam
<1> QED
  BY <1>1, AccountsInvariance, PTL

\* Every step by which someone joins a team uses up a pending invitation of
\* theirs (AcceptInvitation); no other statement adds a member.
THEOREM JoiningUsesInvitation == AccountsSpec => InvitationsAreSingleUse
<1>1. ASSUME AccountsInv, [AccountsNext]_accountVars PROVE [JoinsByInvitation]_accountVars
  <2> SUFFICES ASSUME NEW u \in Users, members[u] = "none", members'[u] # "none", team = "present",
                      AccountsNext
               PROVE  \E i \in Invitations :
                        /\ invitations[i].email = u /\ ~invitations[i].expired
                        /\ invitations[i].status = "pending" /\ invitations'[i].status = "accepted"
    BY <1>1 DEF JoinsByInvitation
  <2>0. members \in [Users -> Roles \cup {"none"}] /\ invitations \in [Invitations -> InvitationRow]
    BY <1>1 DEF AccountsInv, AccountsTypeOK
  <2>1. ASSUME NEW i \in Invitations, NEW v \in Users, AcceptInvitation(i, v)
        PROVE  \E j \in Invitations :
                 /\ invitations[j].email = u /\ ~invitations[j].expired
                 /\ invitations[j].status = "pending" /\ invitations'[j].status = "accepted"
    <3>1. v = u
      BY <2>0, <2>1 DEF AcceptInvitation, AcceptMember
    <3>2. invitations[i] \in InvitationRow
      BY <2>0
    <3>3. invitations'[i] = [invitations[i] EXCEPT !.status = "accepted"]
      BY <2>0, <2>1 DEF AcceptInvitation
    <3>4. invitations'[i].status = "accepted"
      BY <3>2, <3>3 DEF InvitationRow
    <3> QED
      BY <2>1, <3>1, <3>4 DEF AcceptInvitation, CanAcceptInvitation
  <2>2. ~CreateTeam
    BY DEF CreateTeam
  <2>3. ASSUME NEW r \in Requests PROVE ~DoRemove(r) /\ ~DoSetRole(r) /\ ~DoDeleteTeam(r)
    BY <2>0 DEF DoRemove, RemoveMember, DoSetRole, UpdateMemberRole, DoDeleteTeam, DeleteTeam
  <2>4. ASSUME NEW r \in Requests
        PROVE  ~(Authorise(r) \/ CheckTarget(r) \/ DoInvite(r) \/ DoRevoke(r) \/ DoCreateKey(r) \/ DoDeleteKey(r))
    BY DEF Authorise, CheckTarget, DoInvite, DoRevoke, DoCreateKey, DoDeleteKey
  <2>5. ASSUME NEW i \in Invitations PROVE ~SevenDaysPass(i)
    BY DEF SevenDaysPass
  <2> QED
    BY <2>1, <2>2, <2>3, <2>4, <2>5 DEF AccountsNext
<1> QED
  BY <1>1, AccountsInvariance, PTL DEF AccountsSpec, InvitationsAreSingleUse

-----------------------------------------------------------------------------
(* The plan follows the newest recorded event and the team has one         *)
(* customer, for any number of events, seconds and concurrent checkouts.   *)
(*                                                                         *)
(* NewestEventWins only says that some recorded event decides the plan.    *)
(* The strengthening (RowIsNewest) says which: the one whose second and    *)
(* name the row carries.                                                   *)

\* The types that the argument needs: the clock and Stripe's order play no part
\* and come with StripeInv.
ColumnsOK ==
    /\ billing \in BillingRow
    /\ seen \in SUBSET EventIDs
    /\ emitted \in [EventIDs -> StripeEvent \cup {NONE}]
    /\ customers \in SUBSET Customers
    /\ checkout \in [Checkouts -> [pc : {"new", "read", "made", "session", "done"}, customer : Customers \cup {NONE}]]
    /\ billingTeam \in {"present", "deleted"}

\* One customer, known to whoever knows one; and there is one before any event.
CustomerInv ==
    /\ \A c, d \in customers : c = d
    /\ \A k \in Checkouts : checkout[k].customer \in customers \cup {NONE}
    /\ billing.customer \in customers \cup {NONE}
    /\ (\E x \in EventIDs : emitted[x] # NONE) => customers # {}

\* What the row holds is what event x asks for, and carries x's second and name.
RowIs(x) ==
    /\ billing.id = x /\ billing.created = emitted[x].created
    /\ billing.plan = PlanOf(emitted[x]) /\ billing.sub = SubscriptionOf(emitted[x])
    /\ billing.status = StatusOf(emitted[x])

\* y is not newer than x.
NotAfter(y, x) ==
    \/ emitted[y].created < emitted[x].created
    \/ emitted[y].created = emitted[x].created /\ y <= x

RowIsNewest ==
    /\ \A x \in seen : emitted[x] # NONE
    /\ billingTeam = "present" =>
          /\ seen = {} => billing.created = 0
          /\ seen # {} => \E x \in seen : RowIs(x) /\ \A y \in seen : NotAfter(y, x)

\* Stripe's clock, and its own order of the events it has emitted.
StripeInv ==
    /\ second \in 1..MaxSecond
    /\ IsFiniteSet(Emitted)
    /\ order \in [EventIDs -> 0..Cardinality(Emitted)]

BillingInv == ColumnsOK /\ CustomerInv /\ RowIsNewest

LEMMA BillingInitInv == BillingInit => BillingInv
<1> SUFFICES ASSUME BillingInit PROVE BillingInv
  OBVIOUS
<1>1. ColumnsOK
  BY BillingAssumption DEF BillingInit, ColumnsOK, BillingRow
<1>2. CustomerInv /\ RowIsNewest
  BY DEF BillingInit, CustomerInv, RowIsNewest
<1> QED
  BY <1>1, <1>2 DEF BillingInv

-----------------------------------------------------------------------------
(* Checkout                                                                *)

\* A checkout moves; the row may get its customer.
LEMMA CheckoutMoves ==
    ASSUME BillingInv, NEW k \in Checkouts,
           NEW new \in [pc : {"new", "read", "made", "session", "done"}, customer : Customers \cup {NONE}],
           checkout' = [checkout EXCEPT ![k] = new],
           customers' \in SUBSET Customers, customers \subseteq customers',
           \A c, d \in customers' : c = d,
           new.customer \in customers' \cup {NONE},
           UNCHANGED <<billing, seen, emitted, billingTeam>>
    PROVE  BillingInv'
<1>1. checkout \in [Checkouts -> [pc : {"new", "read", "made", "session", "done"}, customer : Customers \cup {NONE}]]
  BY DEF BillingInv, ColumnsOK
<1>2. \A j \in Checkouts : checkout'[j] = IF j = k THEN new ELSE checkout[j]
  BY <1>1
<1>3. ColumnsOK'
  BY <1>1 DEF BillingInv, ColumnsOK
<1>4. CustomerInv'
  BY <1>2 DEF BillingInv, CustomerInv
<1>5. RowIsNewest'
  BY DEF BillingInv, RowIsNewest, RowIs, NotAfter
<1> QED
  BY <1>3, <1>4, <1>5 DEF BillingInv

LEMMA CheckoutReadKeeps ==
    ASSUME BillingInv, NEW k \in Checkouts, CheckoutRead(k)
    PROVE  BillingInv'
<1> DEFINE new == IF billingTeam = "deleted" THEN [pc |-> "done", customer |-> NONE]
                  ELSE [pc |-> IF billing.customer = NONE THEN "read" ELSE "session",
                        customer |-> billing.customer]
<1>1. checkout' = [checkout EXCEPT ![k] = new] /\ UNCHANGED <<billing, seen, emitted, customers, billingTeam>>
  BY DEF CheckoutRead
<1>2. /\ billing.customer \in customers \cup {NONE} /\ customers \in SUBSET Customers
      /\ \A c, d \in customers : c = d
  BY DEF BillingInv, ColumnsOK, CustomerInv
<1>3. /\ new \in [pc : {"new", "read", "made", "session", "done"}, customer : Customers \cup {NONE}]
      /\ new.customer \in {billing.customer, NONE}
  BY <1>2
<1> HIDE DEF new
<1> QED
  BY <1>1, <1>2, <1>3, CheckoutMoves

\* The idempotency key answers every call with the customer the first one made.
LEMMA CheckoutCreateKeeps ==
    ASSUME BillingInv, NEW k \in Checkouts, CheckoutCreate(k)
    PROVE  BillingInv'
<1>1. PICK c \in Customers :
        /\ CreateCustomer(c) /\ customers' = customers \cup {c}
        /\ \/ checkout' = [checkout EXCEPT ![k] = [pc |-> "made", customer |-> c]]
           \/ checkout' = [checkout EXCEPT ![k] = [pc |-> "done", customer |-> NONE]]
  BY DEF CheckoutCreate
<1>2. UNCHANGED <<billing, seen, emitted, billingTeam>>
  BY DEF CheckoutCreate
<1>3. customers \in SUBSET Customers /\ \A a, b \in customers : a = b
  BY DEF BillingInv, ColumnsOK, CustomerInv
<1>4. /\ customers' \in SUBSET Customers /\ customers \subseteq customers' /\ c \in customers'
      /\ \A a, b \in customers' : a = b
  BY <1>1, <1>3 DEF CreateCustomer
<1>5. CASE checkout' = [checkout EXCEPT ![k] = [pc |-> "made", customer |-> c]]
  <2> DEFINE new == [pc |-> "made", customer |-> c]
  <2>1. /\ new \in [pc : {"new", "read", "made", "session", "done"}, customer : Customers \cup {NONE}]
        /\ new.customer = c /\ checkout' = [checkout EXCEPT ![k] = new]
    BY <1>5
  <2> HIDE DEF new
  <2> QED
    BY <1>2, <1>4, <2>1, CheckoutMoves
<1>6. CASE checkout' = [checkout EXCEPT ![k] = [pc |-> "done", customer |-> NONE]]
  <2> DEFINE new == [pc |-> "done", customer |-> NONE]
  <2>1. /\ new \in [pc : {"new", "read", "made", "session", "done"}, customer : Customers \cup {NONE}]
        /\ new.customer = NONE /\ checkout' = [checkout EXCEPT ![k] = new]
    BY <1>6
  <2> HIDE DEF new
  <2> QED
    BY <1>2, <1>4, <2>1, CheckoutMoves
<1> QED
  BY <1>1, <1>5, <1>6

LEMMA CreateCheckoutSessionKeeps ==
    ASSUME BillingInv, NEW k \in Checkouts, CreateCheckoutSession(k)
    PROVE  BillingInv'
<1> DEFINE new == [checkout[k] EXCEPT !.pc = "done"]
<1>1. checkout' = [checkout EXCEPT ![k] = new] /\ UNCHANGED <<billing, seen, emitted, customers, billingTeam>>
  BY DEF CreateCheckoutSession
<1>2. /\ checkout[k] \in [pc : {"new", "read", "made", "session", "done"}, customer : Customers \cup {NONE}]
      /\ checkout[k].customer \in customers \cup {NONE} /\ customers \in SUBSET Customers
      /\ \A c, d \in customers : c = d
  BY DEF BillingInv, ColumnsOK, CustomerInv
<1>3. /\ new \in [pc : {"new", "read", "made", "session", "done"}, customer : Customers \cup {NONE}]
      /\ new.customer = checkout[k].customer
  BY <1>2
<1> HIDE DEF new
<1> QED
  BY <1>1, <1>2, <1>3, CheckoutMoves

LEMMA SetStripeCustomerIDKeeps ==
    ASSUME BillingInv, NEW k \in Checkouts, SetStripeCustomerID(k)
    PROVE  BillingInv'
<1> DEFINE new == [checkout[k] EXCEPT !.pc = "session"]
<1>1. /\ billing' = IF billingTeam = "present" THEN [billing EXCEPT !.customer = checkout[k].customer]
                    ELSE billing
      /\ checkout' = [checkout EXCEPT ![k] = new] /\ UNCHANGED <<seen, emitted, customers, billingTeam>>
  BY DEF SetStripeCustomerID
<1>2. /\ checkout \in [Checkouts -> [pc : {"new", "read", "made", "session", "done"}, customer : Customers \cup {NONE}]]
      /\ billing \in BillingRow
  BY DEF BillingInv, ColumnsOK
<1>3. /\ new \in [pc : {"new", "read", "made", "session", "done"}, customer : Customers \cup {NONE}]
      /\ new.customer = checkout[k].customer /\ checkout[k].customer \in customers \cup {NONE}
  BY <1>2 DEF BillingInv, CustomerInv
<1>4. /\ billing' \in BillingRow /\ billing'.customer \in {checkout[k].customer, billing.customer}
      /\ billing'.sub = billing.sub /\ billing'.plan = billing.plan /\ billing'.status = billing.status
      /\ billing'.created = billing.created /\ billing'.id = billing.id
  BY <1>1, <1>2 DEF BillingRow
<1> HIDE DEF new
<1>5. \A j \in Checkouts : checkout'[j] = IF j = k THEN new ELSE checkout[j]
  BY <1>1, <1>2
<1>6. ColumnsOK'
  BY <1>1, <1>2, <1>3, <1>4 DEF BillingInv, ColumnsOK
<1>7. CustomerInv'
  BY <1>1, <1>3, <1>4, <1>5 DEF BillingInv, CustomerInv
<1>8. RowIsNewest'
  BY <1>1, <1>4 DEF BillingInv, RowIsNewest, RowIs, NotAfter
<1> QED
  BY <1>6, <1>7, <1>8 DEF BillingInv

-----------------------------------------------------------------------------
(* Stripe and its events.                                                  *)

LEMMA EmitKeeps ==
    ASSUME BillingInv, NEW x \in EventIDs, Emit(x)
    PROVE  BillingInv'
<1>1. PICK ev \in StripeEvent : emitted' = [emitted EXCEPT ![x] = ev]
  BY DEF Emit
<1>2. /\ emitted[x] = NONE /\ UNCHANGED <<billing, seen, customers, checkout, billingTeam>>
      /\ \E k \in Checkouts : checkout[k].customer # NONE
  BY DEF Emit
<1>3. emitted \in [EventIDs -> StripeEvent \cup {NONE}] /\ seen \subseteq EventIDs
  BY DEF BillingInv, ColumnsOK
<1>4. \A y \in EventIDs : y # x => emitted'[y] = emitted[y]
  BY <1>1, <1>3
<1>5. x \notin seen
  BY <1>2 DEF BillingInv, RowIsNewest
<1>6. \A y \in seen : emitted'[y] = emitted[y]
  BY <1>3, <1>4, <1>5
<1>7. ColumnsOK'
  BY <1>1, <1>2, <1>3 DEF BillingInv, ColumnsOK
<1>8. CustomerInv'
  BY <1>2 DEF BillingInv, CustomerInv
<1>9. RowIsNewest'
  BY <1>2, <1>6 DEF BillingInv, RowIsNewest, RowIs, NotAfter
<1> QED
  BY <1>7, <1>8, <1>9 DEF BillingInv

\* The columns an event asks for are columns.
LEMMA EventColumns ==
    ASSUME NEW ev \in StripeEvent
    PROVE  /\ PlanOf(ev) \in Plans \cup {"free"} /\ SubscriptionOf(ev) \in StripeSubs \cup {NONE}
           /\ StatusOf(ev) \in {"inactive", "active", "canceled", "past_due"}
           /\ ev.created \in 1..MaxSecond
<1>1. ev.type \in Types /\ ev.plan \in Plans /\ ev.sub \in StripeSubs /\ ev.created \in 1..MaxSecond
  BY DEF StripeEvent
<1>2. StatusOf(ev) \in {"inactive", "active", "canceled", "past_due"}
  BY DEF StatusOf
<1> QED
  BY <1>1, <1>2 DEF PlanOf, SubscriptionOf

\* The statement's guard compares with the event that the row carries.
LEMMA HandleWebhookKeeps ==
    ASSUME BillingInv, NEW x \in EventIDs, HandleWebhook(x)
    PROVE  BillingInv'
<1> DEFINE ev == emitted[x]
           new == [customer |-> CHOOSE c \in customers : TRUE, sub |-> SubscriptionOf(ev),
                   plan |-> PlanOf(ev), status |-> StatusOf(ev), created |-> ev.created, id |-> x]
<1>1. ev # NONE /\ UNCHANGED <<emitted, customers, checkout, billingTeam>>
  BY DEF HandleWebhook
<1>2. /\ billing \in BillingRow /\ seen \subseteq EventIDs /\ ev \in StripeEvent
      /\ emitted \in [EventIDs -> StripeEvent \cup {NONE}] /\ customers \in SUBSET Customers
  BY <1>1 DEF BillingInv, ColumnsOK
<1>3. CASE UNCHANGED <<billing, seen>>
  BY <1>1, <1>3 DEF BillingInv, ColumnsOK, CustomerInv, RowIsNewest, RowIs, NotAfter
<1>4. CASE /\ billingTeam = "present"
           /\ seen' = seen \cup {x} /\ x \notin seen /\ Newer(x, ev) /\ billing' = new
  <2>1. customers # {}
    BY <1>1 DEF BillingInv, CustomerInv
  <2>2. (CHOOSE c \in customers : TRUE) \in customers
    BY <2>1
  <2>3. /\ PlanOf(ev) \in Plans \cup {"free"} /\ SubscriptionOf(ev) \in StripeSubs \cup {NONE}
        /\ StatusOf(ev) \in {"inactive", "active", "canceled", "past_due"}
        /\ ev.created \in 1..MaxSecond
    BY <1>2, EventColumns
  <2>4. new \in BillingRow /\ new.customer \in customers
    BY <1>2, <2>2, <2>3, BillingAssumption DEF BillingRow
  <2>5. /\ new.id = x /\ new.created = ev.created /\ new.plan = PlanOf(ev)
        /\ new.sub = SubscriptionOf(ev) /\ new.status = StatusOf(ev)
    OBVIOUS
  <2> HIDE DEF new
  <2>6. ColumnsOK'
    BY <1>1, <1>2, <1>4, <2>4 DEF BillingInv, ColumnsOK
  <2>7. CustomerInv'
    BY <1>1, <1>4, <2>4 DEF BillingInv, CustomerInv
  <2>8. RowIs(x)'
    BY <1>1, <1>4, <2>5 DEF RowIs
  <2>9. ASSUME NEW y \in seen' PROVE NotAfter(y, x)'
    <3>1. CASE y = x
      BY <1>1, <2>3, <3>1, BillingAssumption DEF NotAfter
    <3>2. CASE y # x
      <4>1. PICK z \in seen : RowIs(z) /\ NotAfter(y, z)
        BY <1>4, <3>2 DEF BillingInv, RowIsNewest
      <4>2. emitted[y] \in StripeEvent /\ emitted[z] \in StripeEvent /\ y \in Nat /\ z \in Nat /\ x \in Nat
        BY <1>2, <1>4, <3>2, BillingAssumption DEF BillingInv, RowIsNewest
      <4>3. emitted[y].created \in Nat /\ emitted[z].created \in Nat /\ ev.created \in Nat
        BY <1>2, <4>2, BillingAssumption DEF StripeEvent
      <4>4. emitted[z].created < ev.created \/ (emitted[z].created = ev.created /\ z <= x)
        BY <1>4, <4>1 DEF Newer, RowIs
      <4>5. NotAfter(y, x)
        BY <4>1, <4>2, <4>3, <4>4 DEF NotAfter
      <4> QED
        BY <1>1, <4>5 DEF NotAfter
    <3> QED
      BY <3>1, <3>2
  <2>10. RowIsNewest'
    BY <1>1, <1>4, <2>8, <2>9 DEF BillingInv, RowIsNewest
  <2> QED
    BY <2>6, <2>7, <2>10 DEF BillingInv
<1>5. CASE /\ billingTeam = "present"
           /\ seen' = seen \cup {x} /\ ~(x \notin seen /\ Newer(x, ev)) /\ billing' = billing
  <2>1. CASE x \in seen
    <3>1. seen' = seen
      BY <1>5, <2>1
    <3> QED
      BY <1>3, <1>5, <3>1
  <2>2. CASE x \notin seen
    <3>1. ev.created \in Nat /\ ev.created > 0 /\ billing.created \in Nat /\ x \in Nat
      BY <1>2, BillingAssumption DEF StripeEvent, BillingRow
    <3>2. seen # {}
      BY <1>5, <2>2, <3>1 DEF BillingInv, RowIsNewest, Newer
    <3>3. PICK z \in seen : RowIs(z) /\ \A y \in seen : NotAfter(y, z)
      BY <1>5, <3>2 DEF BillingInv, RowIsNewest
    <3>4. z \in Nat
      BY <1>2, BillingAssumption
    <3>5. NotAfter(x, z)
      BY <1>5, <2>2, <3>1, <3>3, <3>4 DEF RowIs, Newer, NotAfter
    <3>6. RowIs(z)' /\ \A y \in seen' : NotAfter(y, z)'
      BY <1>1, <1>5, <3>3, <3>5 DEF RowIs, NotAfter
    <3>7. RowIsNewest'
      BY <1>1, <1>5, <3>6 DEF BillingInv, RowIsNewest
    <3>8. ColumnsOK' /\ CustomerInv'
      BY <1>1, <1>5 DEF BillingInv, ColumnsOK, CustomerInv
    <3> QED
      BY <3>7, <3>8 DEF BillingInv
  <2> QED
    BY <2>1, <2>2
<1>6. CASE billingTeam = "deleted" /\ seen' \in {seen, seen \cup {x}} /\ UNCHANGED billing
  BY <1>1, <1>2, <1>6 DEF BillingInv, ColumnsOK, CustomerInv, RowIsNewest
<1> QED
  BY <1>3, <1>4, <1>5, <1>6 DEF HandleWebhook, ApplyBillingEvent

-----------------------------------------------------------------------------
LEMMA BillingNextKeeps ==
    ASSUME BillingInv, [BillingNext]_billingVars
    PROVE  BillingInv'
<1>1. CASE UNCHANGED <<billing, seen, emitted, customers, checkout, billingTeam>>
  BY <1>1 DEF BillingInv, ColumnsOK, CustomerInv, RowIsNewest, RowIs, NotAfter
<1>2. CASE UNCHANGED billingVars
  BY <1>1, <1>2 DEF billingVars
<1>3. CASE SecondPasses
  BY <1>1, <1>3 DEF SecondPasses
<1>4. CASE DeleteTeamBilling
  BY <1>4 DEF DeleteTeamBilling, BillingInv, ColumnsOK, CustomerInv, RowIsNewest
<1>5. CASE BillingNext
  BY <1>3, <1>4, <1>5, CheckoutReadKeeps, CheckoutCreateKeeps, SetStripeCustomerIDKeeps,
     CreateCheckoutSessionKeeps, EmitKeeps, HandleWebhookKeeps
  DEF BillingNext
<1> QED
  BY <1>2, <1>5

\* Stripe numbers the events in the order it emits them.
LEMMA StripeNextKeeps ==
    ASSUME BillingInv, StripeInv, [BillingNext]_billingVars
    PROVE  StripeInv'
<1>1. ASSUME NEW x \in EventIDs, Emit(x) PROVE StripeInv'
  <2>1. PICK ev \in StripeEvent : emitted' = [emitted EXCEPT ![x] = ev]
    BY <1>1 DEF Emit
  <2>2. Emitted' = Emitted \cup {x} /\ x \notin Emitted
    BY <1>1, <2>1, BillingAssumption DEF Emit, Emitted, BillingInv, ColumnsOK
  <2>3. IsFiniteSet(Emitted') /\ Cardinality(Emitted') = Cardinality(Emitted) + 1
    BY <2>2, FS_AddElement DEF StripeInv
  <2>4. Cardinality(Emitted) \in Nat
    BY FS_CardinalityType DEF StripeInv
  <2>5. order' = [order EXCEPT ![x] = 1 + Cardinality(Emitted)] /\ second' = second
    BY <1>1 DEF Emit
  <2>6. order' \in [EventIDs -> 0..Cardinality(Emitted')]
    BY <2>3, <2>4, <2>5 DEF StripeInv
  <2> QED
    BY <2>3, <2>5, <2>6 DEF StripeInv
<1>2. CASE UNCHANGED <<emitted, order>> /\ second' \in {second, second + 1} /\ second' <= MaxSecond
  <2>1. Emitted' = Emitted
    BY <1>2 DEF Emitted
  <2> QED
    BY <1>2, <2>1, BillingAssumption DEF StripeInv
<1>3. CASE UNCHANGED <<emitted, order, second>>
  BY <1>2, <1>3, BillingAssumption DEF StripeInv
<1>4. CASE SecondPasses
  BY <1>2, <1>4, BillingAssumption DEF SecondPasses, StripeInv
<1> QED
  BY <1>1, <1>3, <1>4 DEF BillingNext, billingVars, CheckoutRead, CheckoutCreate, SetStripeCustomerID,
     CreateCheckoutSession, HandleWebhook, DeleteTeamBilling

LEMMA StripeInitInv == BillingInit => StripeInv
<1> SUFFICES ASSUME BillingInit PROVE StripeInv
  OBVIOUS
<1>1. Emitted = {}
  BY DEF BillingInit, Emitted
<1>2. IsFiniteSet(Emitted) /\ Cardinality(Emitted) = 0
  BY <1>1, FS_EmptySet
<1> QED
  BY <1>2, BillingAssumption DEF BillingInit, StripeInv

\* The strengthened invariant holds in every reachable state.
THEOREM BillingInvariance == BillingSpec => []BillingInv
<1>1. BillingInit => BillingInv
  BY BillingInitInv
<1>2. BillingInv /\ [BillingNext]_billingVars => BillingInv'
  BY BillingNextKeeps
<1> QED
  BY <1>1, <1>2, PTL DEF BillingSpec

\* NewestEventWins: lost order and repeated deliveries of any number of events
\* leave the plan of the newest, by second and then by name.
THEOREM PlanOfNewest == BillingSpec => []NewestEventWins
<1>1. BillingInv => NewestEventWins
  BY DEF BillingInv, RowIsNewest, RowIs, NotAfter, NewestEventWins
<1> QED
  BY <1>1, BillingInvariance, PTL

\* OneCustomer: however many Checkout calls overlap, or lose their reply.
THEOREM SingleCustomer == BillingSpec => []OneCustomer
<1>1. BillingInv => OneCustomer
  <2> SUFFICES ASSUME BillingInv PROVE OneCustomer
    OBVIOUS
  <2>1. billing.customer \in customers \cup {NONE} /\ \A c, d \in customers : c = d
    BY DEF BillingInv, CustomerInv
  <2>2. CASE customers = {}
    BY <2>1, <2>2, FS_EmptySet DEF OneCustomer
  <2>3. CASE customers # {}
    <3>1. PICK c \in customers : TRUE
      BY <2>3
    <3>2. customers = {c}
      BY <2>1, <3>1
    <3>3. Cardinality({c}) = 1
      BY FS_Singleton
    <3>4. Cardinality(customers) <= 1
      BY <3>2, <3>3
    <3> QED
      BY <2>1, <3>4 DEF OneCustomer
  <2> QED
    BY <2>2, <2>3
<1> QED
  BY <1>1, BillingInvariance, PTL
=============================================================================
