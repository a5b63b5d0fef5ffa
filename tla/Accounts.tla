------------------------------ MODULE Accounts ------------------------------
(***************************************************************************)
(* A team: its members and their roles, its invitations and its API keys   *)
(* (team_handler.go, team_service.go, team_repo.go, apikey_handler.go,     *)
(* apikey_repo.go, the authentication middleware).                         *)
(*                                                                         *)
(* A request is authorised by the role that is read then, for some         *)
(* operations checked against the target's membership, and carried out:    *)
(* each in a query of its own, with everything possible in between.  Name, *)
(* slug and timestamps are left out.  The tables of other teams are        *)
(* separate, so one team is enough.                                        *)
(***************************************************************************)
EXTENDS Integers, FiniteSets

CONSTANTS
    Users,          \* accounts, each with its one email address
    Creator,        \* the user who creates the team
    Invitations,    \* invitation IDs, each with its token
    Keys,           \* API key IDs
    Requests        \* requests under way

ASSUME AccountsAssumption == Creator \in Users /\ Users \cap Keys = {}

Roles == {"owner", "admin", "member"}

VARIABLES
    team,           \* is the row of teams there
    members,        \* team_members: user -> role or "none"
    invitations,    \* team_invitations: ID -> row
    keys,           \* api_keys: keys the table holds
    request         \* request -> what it is about and how far it got

accountVars == <<team, members, invitations, keys, request>>

InvitationRow == [status : {"absent", "pending", "accepted", "revoked"},
                  email : Users, role : Roles, expired : BOOLEAN]

NoInvitation == [status |-> "absent", email |-> Creator, role |-> "member", expired |-> FALSE]

\* Operations and their arguments; role is used by two of them only.
Ops == [op : {"delete_team"}]
    \cup [op : {"invite", "set_role"}, user : Users, role : Roles]
    \cup [op : {"remove"}, user : Users]
    \cup [op : {"revoke"}, invitation : Invitations]
    \cup [op : {"create_key", "delete_key"}, key : Keys]

NoRequest == [pc |-> "idle"]

RequestState == {NoRequest} \cup [pc : {"authorised", "checked"}, do : Ops]

AccountsTypeOK ==
    /\ team \in {"none", "present", "deleted"}
    /\ members \in [Users -> Roles \cup {"none"}]
    /\ invitations \in [Invitations -> InvitationRow]
    /\ keys \in SUBSET Keys
    /\ request \in [Requests -> RequestState]

AccountsInit ==
    /\ team = "none"
    /\ members = [u \in Users |-> "none"]
    /\ invitations = [i \in Invitations |-> NoInvitation]
    /\ keys = {}
    /\ request = [r \in Requests |-> NoRequest]

-----------------------------------------------------------------------------
(* Statements.                                                             *)

CreateWithOwner ==
    /\ team' = "present"
    /\ members' = [members EXCEPT ![Creator] = "owner"]

\* The team's rows go with it: ON DELETE CASCADE.  What goes in other parts is
\* theirs to say (DeleteTeamDomains, DeleteTeamContacts and their like).
DeleteTeam ==
    /\ team' = "deleted"
    /\ members' = [u \in Users |-> "none"]
    /\ invitations' = [i \in Invitations |-> NoInvitation]
    /\ keys' = {}

RemoveMember(u) == members' = [members EXCEPT ![u] = "none"]

UpdateMemberRole(u, role) ==
    members' = IF members[u] = "none" THEN members ELSE [members EXCEPT ![u] = role]

\* The first statement of CreateInvitation: what has expired makes room.
RevokeExpired(u) ==
    [i \in Invitations |->
        IF invitations[i].email = u /\ invitations[i].status = "pending" /\ invitations[i].expired
        THEN [invitations[i] EXCEPT !.status = "revoked"] ELSE invitations[i]]

\* ux_team_invitations_pending_email
PendingFor(inv, u) == \E i \in Invitations : inv[i].status = "pending" /\ inv[i].email = u

InsertInvitation(inv, i, u, role) ==
    [inv EXCEPT ![i] = [status |-> "pending", email |-> u, role |-> role, expired |-> FALSE]]

RevokeInvitation(i) ==
    invitations' = IF invitations[i].status = "pending"
                   THEN [invitations EXCEPT ![i].status = "revoked"] ELSE invitations

\* Mutant: the token works again after it has been used.
CanAcceptInvitation_Again(i, u) ==
    /\ invitations[i].status \in {"pending", "accepted"} /\ ~invitations[i].expired
    /\ invitations[i].email = u

CanAcceptInvitation(i, u) ==
    /\ invitations[i].status = "pending" /\ ~invitations[i].expired
    /\ invitations[i].email = u

\* ON CONFLICT (team_id, user_id) DO NOTHING
AcceptMember(u, role) ==
    members' = IF members[u] = "none" THEN [members EXCEPT ![u] = role] ELSE members

-----------------------------------------------------------------------------
(* Requests.                                                               *)

CreateTeam ==
    /\ team = "none"
    /\ CreateWithOwner
    /\ UNCHANGED <<invitations, keys, request>>

HasAnyRole(role, allowed) == role \in allowed

\* AuthMiddleware turns a JWT and its X-Team-ID into the user's role in the
\* team, and an API key that the table holds into the role "api_key".
RoleOf(who) ==
    IF who \in Users THEN members[who] ELSE IF who \in keys THEN "api_key" ELSE "none"

\* requireRoles (the keys) and authorizeTeam (the rest), by the role read then.
MayDo(who, do) ==
    HasAnyRole(RoleOf(who), IF do.op = "delete_team" THEN {"owner"} ELSE {"owner", "admin"})

\* CreateInvitation and UpdateMemberRole: no one is made an owner.
RoleAllowed(do) == do.op \in {"invite", "set_role"} => do.role # "owner"

\* A request that passes; one that does not changes nothing.
Authorise(r) ==
    /\ request[r].pc = "idle"
    /\ \E who \in Users \cup Keys, do \in Ops :
          /\ MayDo(who, do) /\ RoleAllowed(do)
          /\ request' = [request EXCEPT ![r] =
                [pc |-> IF do.op \in {"remove", "set_role"} THEN "authorised" ELSE "checked",
                 do |-> do]]
    /\ UNCHANGED <<team, members, invitations, keys>>

Finish(r) == request' = [request EXCEPT ![r] = NoRequest]

\* Mutant: the owner may be removed or demoted like anyone else.
TargetAllowed_Owner(do) == members[do.user] # "none"

\* RemoveMember and UpdateMemberRole: the target is a member and not the owner.
TargetAllowed(do) == members[do.user] \in Roles \ {"owner"}

CheckTarget(r) ==
    /\ request[r].pc = "authorised"
    /\ IF TargetAllowed(request[r].do)
       THEN request' = [request EXCEPT ![r].pc = "checked"]
       ELSE Finish(r)
    /\ UNCHANGED <<team, members, invitations, keys>>

\* Mutant: the team's row is not required.
RowOfTeam_Free == team # "none"

\* The foreign key that every insert of the team's rows carries.
RowOfTeam == team = "present"

Ready(r, op) == request[r].pc = "checked" /\ request[r].do.op = op

DoDeleteTeam(r) ==
    /\ Ready(r, "delete_team") /\ DeleteTeam /\ Finish(r)

DoRemove(r) ==
    /\ Ready(r, "remove") /\ RemoveMember(request[r].do.user) /\ Finish(r)
    /\ UNCHANGED <<team, invitations, keys>>

DoSetRole(r) ==
    /\ Ready(r, "set_role") /\ UpdateMemberRole(request[r].do.user, request[r].do.role) /\ Finish(r)
    /\ UNCHANGED <<team, invitations, keys>>

\* Two statements.  The insert fails if the address has a pending invitation or
\* the team is gone, or for any other reason.
DoInvite(r) ==
    /\ Ready(r, "invite") /\ Finish(r)
    /\ LET do == request[r].do  revoked == RevokeExpired(do.user) IN
       \/ /\ RowOfTeam /\ ~PendingFor(revoked, do.user)
          /\ \E i \in Invitations :
                /\ invitations[i].status = "absent"
                /\ invitations' = InsertInvitation(revoked, i, do.user, do.role)
       \/ invitations' = revoked
    /\ UNCHANGED <<team, members, keys>>

DoRevoke(r) ==
    /\ Ready(r, "revoke") /\ RevokeInvitation(request[r].do.invitation) /\ Finish(r)
    /\ UNCHANGED <<team, members, keys>>

DoCreateKey(r) ==
    /\ Ready(r, "create_key") /\ Finish(r)
    /\ keys' = IF RowOfTeam THEN keys \cup {request[r].do.key} ELSE keys
    /\ UNCHANGED <<team, members, invitations>>

DoDeleteKey(r) ==
    /\ Ready(r, "delete_key") /\ Finish(r)
    /\ keys' = keys \ {request[r].do.key}
    /\ UNCHANGED <<team, members, invitations>>

\* AcceptInvitation is one statement, and needs no membership.
AcceptInvitation(i, u) ==
    /\ CanAcceptInvitation(i, u)
    /\ invitations' = [invitations EXCEPT ![i].status = "accepted"]
    /\ AcceptMember(u, invitations[i].role)
    /\ UNCHANGED <<team, keys, request>>

SevenDaysPass(i) ==
    /\ invitations[i].status = "pending" /\ ~invitations[i].expired
    /\ invitations' = [invitations EXCEPT ![i].expired = TRUE]
    /\ UNCHANGED <<team, members, keys, request>>

AccountsNext ==
    \/ CreateTeam
    \/ \E r \in Requests :
          \/ Authorise(r) \/ CheckTarget(r)
          \/ DoDeleteTeam(r) \/ DoRemove(r) \/ DoSetRole(r) \/ DoInvite(r) \/ DoRevoke(r)
          \/ DoCreateKey(r) \/ DoDeleteKey(r)
    \/ \E i \in Invitations :
          SevenDaysPass(i) \/ \E u \in Users : AcceptInvitation(i, u)

AccountsSpec == AccountsInit /\ [][AccountsNext]_accountVars

-----------------------------------------------------------------------------
(* A team has one owner, the user who created it, as long as it exists:    *)
(* RemoveMember and UpdateMemberRole look at the target's role in one      *)
(* query and write in another, and accepting an invitation may hit a       *)
(* membership that is already there.                                       *)
CreatorStaysOwner ==
    team = "present" => \A u \in Users : members[u] = "owner" <=> u = Creator

\* Nobody joins but by an invitation of their own that is pending and in time,
\* and that ends with it: a removed member cannot use the old token again.
JoinsByInvitation ==
    \A u \in Users :
        members[u] = "none" /\ members'[u] # "none" /\ team = "present" =>
            \E i \in Invitations :
                /\ invitations[i].email = u /\ ~invitations[i].expired
                /\ invitations[i].status = "pending" /\ invitations'[i].status = "accepted"

InvitationsAreSingleUse == [][JoinsByInvitation]_accountVars

\* Whatever requests are under way when the team is deleted, no member, invitation
\* or API key of it is left behind or added later.
NothingOutlivesTeam ==
    team = "deleted" =>
        /\ keys = {}
        /\ \A u \in Users : members[u] = "none"
        /\ \A i \in Invitations : invitations[i].status = "absent"
=============================================================================
