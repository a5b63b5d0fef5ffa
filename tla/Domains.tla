------------------------------- MODULE Domains -------------------------------
(***************************************************************************)
(* A sending domain and its verification (domain_handler.go,               *)
(* domain_service.go, domain_repo.go, mailer/ses_identity.go).  Several    *)
(* teams claim one name.  A domain ID stands for the verification token    *)
(* drawn with it, and Verify looks for that token in the DNS.  What else   *)
(* Verify looks up belongs to the owner of the name and to SES, who may    *)
(* change it at any time, so each lookup has any answer.  The columns that *)
(* are only shown to the user are left out.                                *)
(***************************************************************************)
EXTENDS Integers, FiniteSets

CONSTANTS
    DomainTeams,    \* teams that claim the name
    DomainIDs,      \* IDs of rows, and their tokens
    DomainJobs,     \* Create and Verify requests under way
    NoDomain        \* no ID, no team

ASSUME DomainsAssumption == NoDomain \notin DomainIDs \cup DomainTeams

VARIABLES
    domains,    \* the rows for the name: ID -> row
    published,  \* tokens that have been in the DNS
    identity,   \* is there an SES identity for the name
    domainJob,  \* request -> where it is and what it found so far
    formerTeams \* teams whose row in teams was deleted

domainVars == <<domains, published, identity, domainJob, formerTeams>>

DomainRow == [status : {"absent", "pending", "verified", "deleted"},
              team : DomainTeams \cup {NoDomain}, mx : {"pending", "verified", "failed"}]

NoDomainRow == [status |-> "absent", team |-> NoDomain, mx |-> "pending"]

\* good: every check of outboundDomainVerified passed so far.
DomainJobState ==
    [pc : {"idle", "create", "insert", "ses", "spf", "token", "mx", "write"},
     id : DomainIDs \cup {NoDomain}, team : DomainTeams \cup {NoDomain},
     good : BOOLEAN, mx : {"pending", "verified", "failed"}]

IdleDomainJob == [pc |-> "idle", id |-> NoDomain, team |-> NoDomain, good |-> FALSE, mx |-> "pending"]

DomainsTypeOK ==
    /\ domains \in [DomainIDs -> DomainRow]
    /\ published \in SUBSET DomainIDs
    /\ identity \in BOOLEAN
    /\ domainJob \in [DomainJobs -> DomainJobState]
    /\ formerTeams \in SUBSET DomainTeams

DomainsInit ==
    /\ domains = [d \in DomainIDs |-> NoDomainRow]
    /\ published = {}
    /\ identity = FALSE
    /\ domainJob = [j \in DomainJobs |-> IdleDomainJob]
    /\ formerTeams = {}

-----------------------------------------------------------------------------
(* Statements.                                                             *)

DomainExists(d) == domains[d].status \in {"pending", "verified"}

\* GetByName looks among the team's own rows.
OwnName(t) == \E d \in DomainIDs : DomainExists(d) /\ domains[d].team = t

\* Mutant: a name is unique within a team only.
NameIsFree_Team(t) == ~OwnName(t)

\* The unique index on the normalised name, over all teams.
NameIsFree(t) == \A d \in DomainIDs : ~DomainExists(d)

InsertDomain(d, t) == [domains EXCEPT ![d] = [status |-> "pending", team |-> t, mx |-> "pending"]]

\* Mutant: whichever row the team has for the name now.
UpdateDomainForTeam_Team(d, t, status, mx) ==
    [x \in DomainIDs |-> IF DomainExists(x) /\ domains[x].team = t
                         THEN [status |-> status, team |-> t, mx |-> mx] ELSE domains[x]]

\* WHERE id = $14 AND team_id = $15
UpdateDomainForTeam(d, t, status, mx) ==
    [x \in DomainIDs |-> IF DomainExists(x) /\ x = d /\ domains[x].team = t
                         THEN [status |-> status, team |-> t, mx |-> mx] ELSE domains[x]]

\* The teams GetTeamByDomain may answer with.
TeamsByDomain ==
    {domains[d].team : d \in {x \in DomainIDs :
        domains[x].status = "verified" /\ domains[x].mx = "verified"}}

-----------------------------------------------------------------------------
(* Create: GetByName for the own team, the SES identity, the insert.       *)

\* A lookup that fails counts as none, as if it had come before the other insert.
CreateDomain(j, t) ==
    /\ domainJob[j].pc = "idle" /\ ~OwnName(t)
    /\ domainJob' = [domainJob EXCEPT ![j].pc = "create", ![j].team = t]
    /\ UNCHANGED <<domains, published, identity, formerTeams>>

\* An identity that exists already is read instead; a failed call ends it.
CreateIdentity(j) ==
    /\ domainJob[j].pc = "create"
    /\ \/ identity' = TRUE /\ domainJob' = [domainJob EXCEPT ![j].pc = "insert"]
       \/ UNCHANGED identity /\ domainJob' = [domainJob EXCEPT ![j] = IdleDomainJob]
    /\ UNCHANGED <<domains, published, formerTeams>>

\* If the insert fails, by the index or because the team is gone, the identity
\* stays behind.
CreateInsert(j) ==
    /\ domainJob[j].pc = "insert"
    /\ \/ /\ NameIsFree(domainJob[j].team) /\ domainJob[j].team \notin formerTeams
          /\ \E d \in DomainIDs :
                /\ domains[d].status = "absent"
                /\ domains' = InsertDomain(d, domainJob[j].team)
       \/ UNCHANGED domains
    /\ domainJob' = [domainJob EXCEPT ![j] = IdleDomainJob]
    /\ UNCHANGED <<published, identity, formerTeams>>

-----------------------------------------------------------------------------
(* Verify: the row, the identity, three lookups, all columns at once.      *)

VerifyRead(j, d) ==
    /\ domainJob[j].pc = "idle" /\ DomainExists(d)
    /\ domainJob' = [domainJob EXCEPT ![j] =
          [pc |-> "ses", id |-> d, team |-> domains[d].team, good |-> TRUE, mx |-> "pending"]]
    /\ UNCHANGED <<domains, published, identity, formerTeams>>

Found(j, ok, next) ==
    domainJob' = [domainJob EXCEPT ![j].good = @ /\ ok, ![j].pc = next]

\* Verified for sending and for DKIM.  A failed call ends the request, and
\* nothing is written.
ApplySESIdentity(j) ==
    /\ domainJob[j].pc = "ses"
    /\ \/ identity /\ \E ok \in BOOLEAN : Found(j, ok, "spf")
       \/ domainJob' = [domainJob EXCEPT ![j] = IdleDomainJob]
    /\ UNCHANGED <<domains, published, identity, formerTeams>>

\* One SPF record, and it includes SES; a failed lookup counts as none.
LookupSPF(j) ==
    /\ domainJob[j].pc = "spf"
    /\ \E ok \in BOOLEAN : Found(j, ok, "token")
    /\ UNCHANGED <<domains, published, identity, formerTeams>>

\* The token of the row as it was read.
LookupToken(j) ==
    /\ domainJob[j].pc = "token"
    /\ \E ok \in {domainJob[j].id \in published, FALSE} : Found(j, ok, "mx")
    /\ UNCHANGED <<domains, published, identity, formerTeams>>

LookupMX(j) ==
    /\ domainJob[j].pc = "mx"
    /\ \E mx \in {"pending", "verified", "failed"} :
          domainJob' = [domainJob EXCEPT ![j].pc = "write", ![j].mx = mx]
    /\ UNCHANGED <<domains, published, identity, formerTeams>>

VerifyWrite(j) ==
    /\ domainJob[j].pc = "write"
    /\ LET c == domainJob[j] IN
       domains' = UpdateDomainForTeam(c.id, c.team, IF c.good THEN "verified" ELSE "pending", c.mx)
    /\ domainJob' = [domainJob EXCEPT ![j] = IdleDomainJob]
    /\ UNCHANGED <<published, identity, formerTeams>>

DeleteDomain(d) ==
    /\ DomainExists(d)
    /\ domains' = [domains EXCEPT ![d].status = "deleted"]
    /\ UNCHANGED <<published, identity, domainJob, formerTeams>>

\* DELETE FROM teams takes the team's rows with it (ON DELETE CASCADE).
DeleteTeamDomains(t) ==
    /\ t \notin formerTeams
    /\ formerTeams' = formerTeams \cup {t}
    /\ domains' = [d \in DomainIDs |->
          IF DomainExists(d) /\ domains[d].team = t THEN [domains[d] EXCEPT !.status = "deleted"]
          ELSE domains[d]]
    /\ UNCHANGED <<published, identity, domainJob>>

\* The owner of the name publishes the token the team was shown.
PublishToken(d) ==
    /\ DomainExists(d) /\ d \notin published
    /\ published' = published \cup {d}
    /\ UNCHANGED <<domains, identity, domainJob, formerTeams>>

DomainsNext ==
    \/ \E j \in DomainJobs :
          \/ \E t \in DomainTeams : CreateDomain(j, t)
          \/ CreateIdentity(j) \/ CreateInsert(j)
          \/ \E d \in DomainIDs : VerifyRead(j, d)
          \/ ApplySESIdentity(j) \/ LookupSPF(j) \/ LookupToken(j) \/ LookupMX(j) \/ VerifyWrite(j)
    \/ \E d \in DomainIDs : DeleteDomain(d) \/ PublishToken(d)
    \/ \E t \in DomainTeams : DeleteTeamDomains(t)

DomainsSpec == DomainsInit /\ [][DomainsNext]_domainVars

-----------------------------------------------------------------------------
(* A row is marked verified only if its own token has been in the DNS: not *)
(* the token of the team's earlier row of that name, although a Verify     *)
(* begun for that row may write after it was deleted and created anew.     *)
OwnershipProved ==
    \A d \in DomainIDs : domains[d].status = "verified" => d \in published

\* Inbound mail for the name goes to one team, and to one that exists: Create looks
\* for the name in its own team only, two teams may do so at once, a Verify may
\* write late, and a Create or a Verify may be under way when its team is deleted.
RoutingIsUnambiguous ==
    /\ Cardinality({d \in DomainIDs : DomainExists(d)}) <= 1
    /\ Cardinality(TeamsByDomain) <= 1
    /\ TeamsByDomain \cap formerTeams = {}
=============================================================================
