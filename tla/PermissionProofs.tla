-------------------------- MODULE PermissionProofs --------------------------
(***************************************************************************)
(* What a team may send from and to: the names it has proved it owns       *)
(* (Domains), and the addresses that have not refused (Consent).           *)
(***************************************************************************)
EXTENDS Domains, Consent, FiniteSetTheorems, TLAPS

-----------------------------------------------------------------------------
(* A verified domain is one whose own token was published, and one name    *)
(* has one row, for any number of teams, rows and concurrent requests.     *)
(*                                                                         *)
(* OwnershipProved is not inductive: a Verify writes what it found several *)
(* steps ago.  TokenWasSeen says what a Verify that is past its token      *)
(* lookup has established, and that stays true because tokens are never    *)
(* reused: a row that is created anew has another ID.                      *)

\* A Verify that will write "verified" has seen the token of the row it read.
TokenWasSeen ==
    \A j \in DomainJobs :
        domainJob[j].pc \in {"mx", "write"} /\ domainJob[j].good => domainJob[j].id \in published

\* The unique index on the name.
OneRow == \A d, e \in DomainIDs : DomainExists(d) /\ DomainExists(e) => d = e

\* No row outlives its team.
RowsHaveTeams == \A d \in DomainIDs : DomainExists(d) => domains[d].team \notin formerTeams

DomainsInv == DomainsTypeOK /\ TokenWasSeen /\ OwnershipProved /\ OneRow /\ RowsHaveTeams

LEMMA DomainsInitInv == DomainsInit => DomainsInv
<1> SUFFICES ASSUME DomainsInit PROVE DomainsInv
  OBVIOUS
<1>1. NoDomainRow \in DomainRow /\ NoDomainRow.status = "absent"
  BY DEF NoDomainRow, DomainRow
<1>2. IdleDomainJob \in DomainJobState /\ IdleDomainJob.pc = "idle"
  BY DEF IdleDomainJob, DomainJobState
<1> QED
  BY <1>1, <1>2 DEF DomainsInit, DomainsInv, DomainsTypeOK, TokenWasSeen, OwnershipProved, OneRow,
                      RowsHaveTeams, DomainExists

-----------------------------------------------------------------------------
(* Steps that move a request and leave the rows alone.                     *)

LEMMA DomainJobMoves ==
    ASSUME DomainsInv, NEW j \in DomainJobs, NEW new \in DomainJobState,
           domainJob' = [domainJob EXCEPT ![j] = new],
           new.pc \in {"mx", "write"} /\ new.good => new.id \in published,
           published' = published
    PROVE  domainJob' \in [DomainJobs -> DomainJobState] /\ TokenWasSeen'
<1>1. domainJob \in [DomainJobs -> DomainJobState]
  BY DEF DomainsInv, DomainsTypeOK
<1>2. \A i \in DomainJobs : domainJob'[i] = IF i = j THEN new ELSE domainJob[i]
  BY <1>1
<1> QED
  BY <1>1, <1>2 DEF DomainsInv, TokenWasSeen

LEMMA OnlyDomainJobMoves ==
    ASSUME DomainsInv, NEW j \in DomainJobs, NEW new \in DomainJobState,
           domainJob' = [domainJob EXCEPT ![j] = new],
           new.pc \in {"mx", "write"} /\ new.good => new.id \in published,
           UNCHANGED <<domains, published, formerTeams>>, identity' \in BOOLEAN
    PROVE  DomainsInv'
<1>1. domainJob' \in [DomainJobs -> DomainJobState] /\ TokenWasSeen'
  BY DomainJobMoves
<1> QED
  BY <1>1 DEF DomainsInv, DomainsTypeOK, OwnershipProved, OneRow, RowsHaveTeams, DomainExists

\* A request that ends.
LEMMA IdleIsHarmless ==
    IdleDomainJob \in DomainJobState /\ IdleDomainJob.pc = "idle"
BY DEF IdleDomainJob, DomainJobState

LEMMA CreateDomainKeeps ==
    ASSUME DomainsInv, NEW j \in DomainJobs, NEW t \in DomainTeams, CreateDomain(j, t)
    PROVE  DomainsInv'
<1> DEFINE new == [domainJob[j] EXCEPT !.pc = "create", !.team = t]
<1>1. domainJob' = [domainJob EXCEPT ![j] = new] /\ UNCHANGED <<domains, published, identity, formerTeams>>
  BY DEF CreateDomain
<1>2. domainJob[j] \in DomainJobState /\ identity \in BOOLEAN
  BY DEF DomainsInv, DomainsTypeOK
<1>3. new \in DomainJobState /\ new.pc = "create"
  BY <1>2 DEF DomainJobState
<1> HIDE DEF new
<1> QED
  BY <1>1, <1>2, <1>3, OnlyDomainJobMoves

LEMMA CreateIdentityKeeps ==
    ASSUME DomainsInv, NEW j \in DomainJobs, CreateIdentity(j)
    PROVE  DomainsInv'
<1> DEFINE new == [domainJob[j] EXCEPT !.pc = "insert"]
<1>1. /\ UNCHANGED <<domains, published, formerTeams>>
      /\ domainJob' = [domainJob EXCEPT ![j] = new] \/ domainJob' = [domainJob EXCEPT ![j] = IdleDomainJob]
      /\ identity' = TRUE \/ identity' = identity
  BY DEF CreateIdentity
<1>2. domainJob[j] \in DomainJobState /\ identity' \in BOOLEAN
  BY <1>1 DEF DomainsInv, DomainsTypeOK
<1>3. new \in DomainJobState /\ new.pc = "insert"
  BY <1>2 DEF DomainJobState
<1> HIDE DEF new
<1> QED
  BY <1>1, <1>2, <1>3, IdleIsHarmless, OnlyDomainJobMoves

\* The index refuses the insert while the name has a row.
LEMMA CreateInsertKeeps ==
    ASSUME DomainsInv, NEW j \in DomainJobs, CreateInsert(j)
    PROVE  DomainsInv'
<1>1. /\ domainJob' = [domainJob EXCEPT ![j] = IdleDomainJob] /\ UNCHANGED <<published, identity, formerTeams>>
      /\ domains \in [DomainIDs -> DomainRow]
  BY DEF CreateInsert, DomainsInv, DomainsTypeOK
<1>2. domainJob' \in [DomainJobs -> DomainJobState] /\ TokenWasSeen'
  BY <1>1, IdleIsHarmless, DomainJobMoves
<1>3. CASE UNCHANGED domains
  BY <1>1, <1>2, <1>3 DEF DomainsInv, DomainsTypeOK, OwnershipProved, OneRow, RowsHaveTeams, DomainExists
<1>4. CASE ~UNCHANGED domains
  <2> DEFINE t == domainJob[j].team
             new == [status |-> "pending", team |-> t, mx |-> "pending"]
  <2>1. PICK d \in DomainIDs : domains' = [domains EXCEPT ![d] = new]
    BY <1>4 DEF CreateInsert, InsertDomain
  <2>2. t \notin formerTeams /\ \A e \in DomainIDs : ~DomainExists(e)
    BY <1>4 DEF CreateInsert, NameIsFree
  <2>3. new \in DomainRow /\ new.status = "pending" /\ new.team = t
    BY DEF DomainsInv, DomainsTypeOK, DomainJobState, DomainRow
  <2> HIDE DEF new, t
  <2>4. \A e \in DomainIDs : domains'[e] = IF e = d THEN new ELSE domains[e]
    BY <1>1, <2>1
  <2>5. DomainsTypeOK'
    BY <1>1, <1>2, <2>1, <2>3 DEF DomainsInv, DomainsTypeOK
  <2>6. OwnershipProved'
    BY <1>1, <2>3, <2>4 DEF DomainsInv, OwnershipProved
  <2>7. OneRow' /\ RowsHaveTeams'
    BY <1>1, <2>2, <2>3, <2>4 DEF OneRow, RowsHaveTeams, DomainExists
  <2> QED
    BY <1>2, <2>5, <2>6, <2>7 DEF DomainsInv
<1> QED
  BY <1>3, <1>4

LEMMA VerifyReadKeeps ==
    ASSUME DomainsInv, NEW j \in DomainJobs, NEW d \in DomainIDs, VerifyRead(j, d)
    PROVE  DomainsInv'
<1> DEFINE new == [pc |-> "ses", id |-> d, team |-> domains[d].team, good |-> TRUE, mx |-> "pending"]
<1>1. domainJob' = [domainJob EXCEPT ![j] = new] /\ UNCHANGED <<domains, published, identity, formerTeams>>
  BY DEF VerifyRead
<1>2. domains[d] \in DomainRow /\ identity \in BOOLEAN
  BY DEF DomainsInv, DomainsTypeOK
<1>3. new \in DomainJobState /\ new.pc = "ses"
  BY <1>2 DEF DomainJobState, DomainRow
<1> HIDE DEF new
<1> QED
  BY <1>1, <1>2, <1>3, OnlyDomainJobMoves

\* A lookup adds its answer to what the request found.
LEMMA FoundKeeps ==
    ASSUME DomainsInv, NEW j \in DomainJobs, NEW ok \in BOOLEAN, NEW next \in {"spf", "token", "mx"},
           Found(j, ok, next), next = "mx" /\ ok => domainJob[j].id \in published,
           UNCHANGED <<domains, published, identity, formerTeams>>
    PROVE  DomainsInv'
<1> DEFINE new == [domainJob[j] EXCEPT !.good = @ /\ ok, !.pc = next]
<1>1. domainJob' = [domainJob EXCEPT ![j] = new]
  BY DEF Found
<1>2. domainJob[j] \in DomainJobState /\ identity \in BOOLEAN
  BY DEF DomainsInv, DomainsTypeOK
<1>3. new \in DomainJobState /\ new.pc = next /\ new.id = domainJob[j].id /\ (new.good => ok)
  BY <1>2 DEF DomainJobState
<1> HIDE DEF new
<1> QED
  BY <1>1, <1>2, <1>3, OnlyDomainJobMoves

LEMMA LookupsKeep ==
    ASSUME DomainsInv, NEW j \in DomainJobs,
           ApplySESIdentity(j) \/ LookupSPF(j) \/ LookupToken(j)
    PROVE  DomainsInv'
<1>1. CASE ApplySESIdentity(j)
  <2>1. CASE \E ok \in BOOLEAN : Found(j, ok, "spf")
    BY <1>1, <2>1, FoundKeeps DEF ApplySESIdentity
  <2>2. CASE domainJob' = [domainJob EXCEPT ![j] = IdleDomainJob]
    <3>1. UNCHANGED <<domains, published, identity, formerTeams>> /\ identity \in BOOLEAN
      BY <1>1 DEF ApplySESIdentity, DomainsInv, DomainsTypeOK
    <3> QED
      BY <2>2, <3>1, IdleIsHarmless, OnlyDomainJobMoves
  <2> QED
    BY <1>1, <2>1, <2>2 DEF ApplySESIdentity
<1>2. CASE LookupSPF(j)
  BY <1>2, FoundKeeps DEF LookupSPF
<1>3. CASE LookupToken(j)
  <2>1. /\ Found(j, domainJob[j].id \in published, "mx") \/ Found(j, FALSE, "mx")
        /\ UNCHANGED <<domains, published, identity, formerTeams>>
    BY <1>3 DEF LookupToken
  <2>2. (domainJob[j].id \in published) \in BOOLEAN
    OBVIOUS
  <2>3. CASE Found(j, domainJob[j].id \in published, "mx")
    BY <2>1, <2>2, <2>3, FoundKeeps
  <2>4. CASE Found(j, FALSE, "mx")
    BY <2>1, <2>4, FoundKeeps
  <2> QED
    BY <2>1, <2>3, <2>4
<1> QED
  BY <1>1, <1>2, <1>3

LEMMA LookupMXKeeps ==
    ASSUME DomainsInv, NEW j \in DomainJobs, LookupMX(j)
    PROVE  DomainsInv'
<1>1. PICK mx \in {"pending", "verified", "failed"} :
        domainJob' = [domainJob EXCEPT ![j].pc = "write", ![j].mx = mx]
  BY DEF LookupMX
<1> DEFINE new == [domainJob[j] EXCEPT !.pc = "write", !.mx = mx]
<1>2. /\ domainJob[j].pc = "mx" /\ domainJob[j] \in DomainJobState /\ identity \in BOOLEAN
      /\ UNCHANGED <<domains, published, identity, formerTeams>>
  BY DEF LookupMX, DomainsInv, DomainsTypeOK
<1>3. domainJob' = [domainJob EXCEPT ![j] = new]
  BY <1>1
<1>4. /\ new \in DomainJobState /\ new.pc = "write" /\ new.id = domainJob[j].id
      /\ new.good = domainJob[j].good
  BY <1>2 DEF DomainJobState
<1>5. new.good => new.id \in published
  BY <1>2, <1>4 DEF DomainsInv, TokenWasSeen
<1> HIDE DEF new
<1> QED
  BY <1>2, <1>3, <1>4, <1>5, OnlyDomainJobMoves

\* The statement names the row that was read, not the name.
LEMMA VerifyWriteKeeps ==
    ASSUME DomainsInv, NEW j \in DomainJobs, VerifyWrite(j)
    PROVE  DomainsInv'
<1> DEFINE c == domainJob[j]
           new == [status |-> IF c.good THEN "verified" ELSE "pending", team |-> c.team, mx |-> c.mx]
<1>1. /\ c.pc = "write" /\ domainJob' = [domainJob EXCEPT ![j] = IdleDomainJob]
      /\ UNCHANGED <<published, identity, formerTeams>>
      /\ domains' = UpdateDomainForTeam(c.id, c.team, IF c.good THEN "verified" ELSE "pending", c.mx)
  BY DEF VerifyWrite
<1>2. c \in DomainJobState /\ domains \in [DomainIDs -> DomainRow]
  BY DEF DomainsInv, DomainsTypeOK
<1>3. \A x \in DomainIDs :
        domains'[x] = IF DomainExists(x) /\ x = c.id /\ domains[x].team = c.team
                      THEN new ELSE domains[x]
  BY <1>1 DEF UpdateDomainForTeam
<1>4. /\ new \in DomainRow /\ new.status \in {"pending", "verified"} /\ new.team = c.team
      /\ new.status = "verified" => c.good
  BY <1>2 DEF DomainJobState, DomainRow
<1>5. c.good => c.id \in published
  BY <1>1 DEF DomainsInv, TokenWasSeen
<1>6. domains' \in [DomainIDs -> DomainRow]
  BY <1>1, <1>2, <1>4 DEF UpdateDomainForTeam
<1>7. domainJob' \in [DomainJobs -> DomainJobState] /\ TokenWasSeen'
  BY <1>1, IdleIsHarmless, DomainJobMoves
<1> HIDE DEF c, new
<1>8. OwnershipProved'
  BY <1>1, <1>3, <1>4, <1>5 DEF DomainsInv, OwnershipProved
<1>9. OneRow' /\ RowsHaveTeams'
  BY <1>1, <1>3, <1>4 DEF DomainsInv, OneRow, RowsHaveTeams, DomainExists
<1> QED
  BY <1>1, <1>6, <1>7, <1>8, <1>9 DEF DomainsInv, DomainsTypeOK

LEMMA DeleteDomainKeeps ==
    ASSUME DomainsInv, NEW d \in DomainIDs, DeleteDomain(d)
    PROVE  DomainsInv'
<1> DEFINE new == [domains[d] EXCEPT !.status = "deleted"]
<1>1. domains' = [domains EXCEPT ![d] = new] /\ UNCHANGED <<published, identity, domainJob, formerTeams>>
  BY DEF DeleteDomain
<1>2. domains \in [DomainIDs -> DomainRow]
  BY DEF DomainsInv, DomainsTypeOK
<1>3. new \in DomainRow /\ new.status = "deleted"
  BY <1>2 DEF DomainRow
<1> HIDE DEF new
<1>4. \A x \in DomainIDs : domains'[x] = IF x = d THEN new ELSE domains[x]
  BY <1>1, <1>2
<1>5. DomainsTypeOK'
  BY <1>1, <1>2, <1>3 DEF DomainsInv, DomainsTypeOK
<1>6. OwnershipProved' /\ OneRow' /\ RowsHaveTeams' /\ TokenWasSeen'
  BY <1>1, <1>3, <1>4 DEF DomainsInv, OwnershipProved, OneRow, RowsHaveTeams, TokenWasSeen, DomainExists
<1> QED
  BY <1>5, <1>6 DEF DomainsInv

\* The rows that are left belong to other teams.
LEMMA DeleteTeamDomainsKeeps ==
    ASSUME DomainsInv, NEW t \in DomainTeams, DeleteTeamDomains(t)
    PROVE  DomainsInv'
<1> DEFINE new(d) == [domains[d] EXCEPT !.status = "deleted"]
<1>1. /\ formerTeams' = formerTeams \cup {t} /\ UNCHANGED <<published, identity, domainJob>>
      /\ domains' = [d \in DomainIDs |->
            IF DomainExists(d) /\ domains[d].team = t THEN new(d) ELSE domains[d]]
  BY DEF DeleteTeamDomains
<1>2. domains \in [DomainIDs -> DomainRow]
  BY DEF DomainsInv, DomainsTypeOK
<1>3. \A d \in DomainIDs : new(d) \in DomainRow /\ new(d).status = "deleted"
  BY <1>2 DEF DomainRow
<1> HIDE DEF new
<1>4. domains' \in [DomainIDs -> DomainRow]
  BY <1>1, <1>2, <1>3
<1>5. \A d \in DomainIDs :
        \/ domains'[d].status = "deleted"
        \/ domains'[d] = domains[d] /\ (DomainExists(d) => domains[d].team # t)
  BY <1>1, <1>3 DEF DomainExists
<1>6. DomainsTypeOK'
  BY <1>1, <1>4 DEF DomainsInv, DomainsTypeOK
<1>7. OwnershipProved' /\ TokenWasSeen'
  BY <1>1, <1>5 DEF DomainsInv, OwnershipProved, TokenWasSeen
<1>8. OneRow' /\ RowsHaveTeams'
  BY <1>1, <1>5 DEF DomainsInv, OneRow, RowsHaveTeams, DomainExists
<1> QED
  BY <1>6, <1>7, <1>8 DEF DomainsInv

LEMMA PublishTokenKeeps ==
    ASSUME DomainsInv, NEW d \in DomainIDs, PublishToken(d)
    PROVE  DomainsInv'
BY DEF PublishToken, DomainsInv, DomainsTypeOK, OwnershipProved, OneRow, RowsHaveTeams, TokenWasSeen,
       DomainExists

-----------------------------------------------------------------------------
LEMMA DomainsNextKeeps ==
    ASSUME DomainsInv, [DomainsNext]_domainVars
    PROVE  DomainsInv'
<1>1. CASE UNCHANGED domainVars
  BY <1>1 DEF domainVars, DomainsInv, DomainsTypeOK, OwnershipProved, OneRow, RowsHaveTeams, TokenWasSeen,
              DomainExists
<1>2. CASE DomainsNext
  BY <1>2, CreateDomainKeeps, CreateIdentityKeeps, CreateInsertKeeps, VerifyReadKeeps, LookupsKeep,
     LookupMXKeeps, VerifyWriteKeeps, DeleteDomainKeeps, DeleteTeamDomainsKeeps, PublishTokenKeeps
  DEF DomainsNext
<1> QED
  BY <1>1, <1>2

\* The strengthened invariant holds in every reachable state.
THEOREM DomainsInvariance == DomainsSpec => []DomainsInv
<1>1. DomainsInit => DomainsInv
  BY DomainsInitInv
<1>2. DomainsInv /\ [DomainsNext]_domainVars => DomainsInv'
  BY DomainsNextKeeps
<1> QED
  BY <1>1, <1>2, PTL DEF DomainsSpec

\* OwnershipProved: whoever has a verified row had its token published, however
\* many Verify, Delete and Create requests of how many teams overlap.
THEOREM VerifiedMeansOwned == DomainsSpec => []OwnershipProved
<1>1. DomainsInv => OwnershipProved
  BY DEF DomainsInv
<1> QED
  BY <1>1, DomainsInvariance, PTL

\* A set whose members are all equal has at most one.
LEMMA AtMostOne ==
    ASSUME NEW X, \A x, y \in X : x = y
    PROVE  Cardinality(X) <= 1
<1>1. CASE X = {}
  BY <1>1, FS_EmptySet
<1>2. CASE X # {}
  <2>1. PICK x \in X : TRUE
    BY <1>2
  <2>2. X = {x}
    BY <2>1
  <2>3. Cardinality({x}) = 1
    BY FS_Singleton
  <2> QED
    BY <2>2, <2>3
<1> QED
  BY <1>1, <1>2

\* RoutingIsUnambiguous: GetTeamByDomain never has two teams to choose from, nor one
\* that was deleted.
THEOREM OneTeamPerName == DomainsSpec => []RoutingIsUnambiguous
<1>1. DomainsInv => RoutingIsUnambiguous
  <2> SUFFICES ASSUME DomainsInv PROVE RoutingIsUnambiguous
    OBVIOUS
  <2>1. \A d, e \in {x \in DomainIDs : DomainExists(x)} : d = e
    BY DEF DomainsInv, OneRow
  <2>2. \A s, t \in TeamsByDomain : s = t
    BY DEF DomainsInv, OneRow, DomainExists, TeamsByDomain
  <2>3. TeamsByDomain \cap formerTeams = {}
    BY DEF DomainsInv, RowsHaveTeams, DomainExists, TeamsByDomain
  <2> QED
    BY <2>1, <2>2, <2>3, AtMostOne DEF RoutingIsUnambiguous
<1> QED
  BY <1>1, DomainsInvariance, PTL

-----------------------------------------------------------------------------
(* Nobody is mailed after a refusal and suppressions only grow, for any    *)
(* sets of addresses and contacts.                                         *)
(*                                                                         *)
(* The check before a submission sees every refusal that came before it    *)
(* because a refusal always leaves a suppression and nothing but the       *)
(* deletion of the team lifts it (RefusedIsSuppressed): what becomes of    *)
(* the contact does not matter.  An email that a check without that list   *)
(* has cleared is one of a team that is gone (LateInv), and is not started.*)

\* Whoever refused is suppressed.
RefusedIsSuppressed == consentTeam = "present" => \A a \in refused : suppressions[a] # "none"

\* A check that missed a refusal read the list of a team that was being deleted.
LateInv ==
    /\ mail.late # {} => consentTeam = "deleted"
    /\ mail.pc = "started" => mail.late = {}

ConsentInv == ConsentTypeOK /\ RefusedIsSuppressed /\ LateInv

\* Upsert keeps the strongest of the reasons, and leaves one in any case.
LEMMA StrongerGrows ==
    ASSUME NEW old \in Reasons, NEW new \in {"unsubscribe", "bounce", "complaint"}
    PROVE  /\ Stronger(old, new) \in Reasons /\ Stronger(old, new) # "none"
           /\ Rank(Stronger(old, new)) >= Rank(old)
<1>1. /\ Rank("none") = 0 /\ Rank("unsubscribe") = 1 /\ Rank("bounce") = 2 /\ Rank("complaint") = 3
  BY DEF Rank
<1>2. Stronger(old, new) \in Reasons /\ Stronger(old, new) # "none"
  BY DEF Stronger, Reasons
<1>3. CASE "complaint" \in {old, new}
  <2>1. Stronger(old, new) = "complaint"
    BY <1>3 DEF Stronger
  <2> QED
    BY <1>1, <1>2, <2>1 DEF Reasons
<1>4. CASE "complaint" \notin {old, new} /\ "bounce" \in {old, new}
  <2>1. Stronger(old, new) = "bounce" /\ old \in {"none", "unsubscribe", "bounce"}
    BY <1>4 DEF Stronger, Reasons
  <2> QED
    BY <1>1, <1>2, <2>1
<1>5. CASE "complaint" \notin {old, new} /\ "bounce" \notin {old, new}
  <2>1. Stronger(old, new) = "unsubscribe" /\ old \in {"none", "unsubscribe"}
    BY <1>5 DEF Stronger, Reasons
  <2> QED
    BY <1>1, <1>2, <2>1
<1> QED
  BY <1>3, <1>4, <1>5

\* What an upsert does to the table.
LEMMA UpsertGrows ==
    ASSUME ConsentTypeOK, NEW a \in Addresses, NEW reason \in {"unsubscribe", "bounce", "complaint"},
           UpsertSuppression(a, reason)
    PROVE  /\ suppressions' \in [Addresses -> Reasons] /\ suppressions'[a] # "none"
           /\ \A b \in Addresses : b # a => suppressions'[b] = suppressions[b]
           /\ \A b \in Addresses : Rank(suppressions'[b]) >= Rank(suppressions[b])
<1>1. suppressions \in [Addresses -> Reasons]
  BY DEF ConsentTypeOK
<1>2. suppressions' = [suppressions EXCEPT ![a] = Stronger(suppressions[a], reason)]
  BY DEF UpsertSuppression
<1>3. /\ Stronger(suppressions[a], reason) \in Reasons /\ Stronger(suppressions[a], reason) # "none"
      /\ Rank(Stronger(suppressions[a], reason)) >= Rank(suppressions[a])
  BY <1>1, StrongerGrows
<1>4. \A b \in Addresses : Rank(suppressions[b]) >= Rank(suppressions[b])
  <2> SUFFICES ASSUME NEW b \in Addresses PROVE Rank(suppressions[b]) >= Rank(suppressions[b])
    OBVIOUS
  <2>1. suppressions[b] \in {"none", "unsubscribe", "bounce", "complaint"}
    BY <1>1 DEF Reasons
  <2> QED
    BY <2>1 DEF Rank
<1> QED
  BY <1>1, <1>2, <1>3, <1>4

LEMMA ConsentInitInv == ConsentInit => ConsentInv
<1> SUFFICES ASSUME ConsentInit PROVE ConsentInv
  OBVIOUS
<1>1. NoContact \in ContactRow /\ NoContact.status = "absent"
  BY DEF NoContact, ContactRow
<1>2. IdleMail \in MailState /\ IdleMail.late = {} /\ IdleMail.pc = "idle"
  BY DEF IdleMail, MailState
<1> QED
  BY <1>1, <1>2 DEF ConsentInit, ConsentInv, ConsentTypeOK, RefusedIsSuppressed, LateInv, Reasons

-----------------------------------------------------------------------------
(* Contacts.                                                               *)

\* A step that writes contacts only.
LEMMA ContactsKeep ==
    ASSUME ConsentInv, contacts' \in [ContactIDs -> ContactRow],
           editing' \in [ids : SUBSET ContactIDs, copy : ContactRow],
           leaving' \in SUBSET Addresses,
           UNCHANGED <<suppressions, refused, mail, consentTeam>>
    PROVE  ConsentInv'
BY DEF ConsentInv, ConsentTypeOK, RefusedIsSuppressed, LateInv

LEMMA ImportCSVKeeps ==
    ASSUME ConsentInv, NEW new \in SUBSET ContactIDs, NEW email \in [new -> Addresses],
           NEW sub \in SUBSET new, ImportCSV(new, email, sub)
    PROVE  ConsentInv'
<1> DEFINE row(c) == [status |-> "present", email |-> email[c], subscribed |-> c \in sub]
<1>1. /\ contacts' = [c \in ContactIDs |-> IF c \in new THEN row(c) ELSE contacts[c]]
      /\ UNCHANGED <<suppressions, leaving, refused, editing, mail, consentTeam>>
  BY DEF ImportCSV
<1>2. /\ contacts \in [ContactIDs -> ContactRow]
      /\ editing' \in [ids : SUBSET ContactIDs, copy : ContactRow] /\ leaving' \in SUBSET Addresses
  BY <1>1 DEF ConsentInv, ConsentTypeOK
<1>3. \A c \in new : row(c) \in ContactRow
  BY DEF ContactRow
<1> HIDE DEF row
<1>4. contacts' \in [ContactIDs -> ContactRow]
  BY <1>1, <1>2, <1>3
<1> QED
  BY <1>1, <1>2, <1>4, ContactsKeep

LEMMA UpdateContactReadKeeps ==
    ASSUME ConsentInv, NEW c \in ContactIDs, UpdateContactRead(c)
    PROVE  ConsentInv'
<1>1. /\ UNCHANGED <<contacts, suppressions, leaving, refused, mail, consentTeam>>
      /\ \E a \in Addresses, s \in BOOLEAN :
            editing' = [ids |-> {c}, copy |-> [status |-> "present", email |-> a, subscribed |-> s]]
  BY DEF UpdateContactRead
<1>2. editing' \in [ids : SUBSET ContactIDs, copy : ContactRow]
  BY <1>1 DEF ContactRow
<1>3. contacts' \in [ContactIDs -> ContactRow] /\ leaving' \in SUBSET Addresses
  BY <1>1 DEF ConsentInv, ConsentTypeOK
<1> QED
  BY <1>1, <1>2, <1>3, ContactsKeep

LEMMA UpdateContactWriteKeeps ==
    ASSUME ConsentInv, UpdateContactWrite
    PROVE  ConsentInv'
<1>1. /\ editing' = [ids |-> {}, copy |-> NoContact]
      /\ UNCHANGED <<suppressions, leaving, refused, mail, consentTeam>>
  BY DEF UpdateContactWrite
<1>2. /\ contacts \in [ContactIDs -> ContactRow] /\ editing.ids \subseteq ContactIDs
      /\ editing.copy \in ContactRow /\ leaving' \in SUBSET Addresses
  BY <1>1 DEF ConsentInv, ConsentTypeOK
<1>3. PICK c \in ContactIDs :
        contacts' = IF contacts[c].status = "present" /\ AddressIsFree(editing.copy.email, c)
                    THEN [contacts EXCEPT ![c] = editing.copy] ELSE contacts
  BY <1>2 DEF UpdateContactWrite
<1>4. editing' \in [ids : SUBSET ContactIDs, copy : ContactRow]
  BY <1>1 DEF NoContact, ContactRow
<1>5. contacts' \in [ContactIDs -> ContactRow]
  BY <1>2, <1>3
<1> QED
  BY <1>1, <1>2, <1>4, <1>5, ContactsKeep

LEMMA DeleteContactKeeps ==
    ASSUME ConsentInv, NEW c \in ContactIDs, DeleteContact(c)
    PROVE  ConsentInv'
<1> DEFINE gone == [NoContact EXCEPT !.status = "deleted"]
<1>1. /\ contacts' = [contacts EXCEPT ![c] = gone]
      /\ UNCHANGED <<suppressions, leaving, refused, editing, mail, consentTeam>>
  BY DEF DeleteContact
<1>2. /\ contacts \in [ContactIDs -> ContactRow] /\ leaving' \in SUBSET Addresses
      /\ editing' \in [ids : SUBSET ContactIDs, copy : ContactRow]
  BY <1>1 DEF ConsentInv, ConsentTypeOK
<1>3. gone \in ContactRow
  BY DEF NoContact, ContactRow
<1> HIDE DEF gone
<1>4. contacts' \in [ContactIDs -> ContactRow]
  BY <1>1, <1>2, <1>3
<1> QED
  BY <1>1, <1>2, <1>4, ContactsKeep

-----------------------------------------------------------------------------
(* Refusals.                                                               *)

LEMMA UnsubscribeContactKeeps ==
    ASSUME ConsentInv, NEW a \in Addresses, UnsubscribeContact(a)
    PROVE  ConsentInv'
<1> DEFINE row(c) == [contacts[c] EXCEPT !.subscribed = FALSE]
<1>1. /\ contacts' = [c \in ContactIDs |-> IF c \in ContactsFor(a) THEN row(c) ELSE contacts[c]]
      /\ leaving' = leaving \cup {a} /\ UNCHANGED <<suppressions, refused, editing, mail, consentTeam>>
  BY DEF UnsubscribeContact, SetSubscribedByEmail
<1>2. /\ contacts \in [ContactIDs -> ContactRow] /\ leaving' \in SUBSET Addresses
      /\ editing' \in [ids : SUBSET ContactIDs, copy : ContactRow]
  BY <1>1 DEF ConsentInv, ConsentTypeOK
<1>3. \A c \in ContactIDs : row(c) \in ContactRow
  BY <1>2 DEF ContactRow
<1> HIDE DEF row
<1>4. contacts' \in [ContactIDs -> ContactRow]
  BY <1>1, <1>2, <1>3
<1> QED
  BY <1>1, <1>2, <1>4, ContactsKeep

\* A refusal that is recorded and its suppression come together.
LEMMA RefusalKeeps ==
    ASSUME ConsentInv, NEW a \in Addresses, NEW reason \in {"unsubscribe", "bounce", "complaint"},
           UpsertSuppression(a, reason), refused' = refused \cup {a},
           leaving' \in SUBSET Addresses, UNCHANGED <<contacts, editing, mail, consentTeam>>
    PROVE  ConsentInv'
<1>1. ConsentTypeOK /\ refused \subseteq Addresses
  BY DEF ConsentInv, ConsentTypeOK
<1>2. /\ suppressions' \in [Addresses -> Reasons] /\ suppressions'[a] # "none"
      /\ \A b \in Addresses : b # a => suppressions'[b] = suppressions[b]
  BY <1>1, UpsertGrows
<1>3. RefusedIsSuppressed'
  BY <1>1, <1>2 DEF ConsentInv, RefusedIsSuppressed
<1> QED
  BY <1>1, <1>2, <1>3 DEF ConsentInv, ConsentTypeOK, LateInv

LEMMA RefusalsKeep ==
    ASSUME ConsentInv, NEW a \in Addresses,
           \/ UnsubscribeSuppress(a) \/ UnsubscribeFails(a)
           \/ \E reason \in {"bounce", "complaint"} : ApplySuppression(a, reason)
    PROVE  ConsentInv'
<1>1. leaving \in SUBSET Addresses
  BY DEF ConsentInv, ConsentTypeOK
<1>2. CASE UnsubscribeSuppress(a)
  BY <1>1, <1>2, RefusalKeeps DEF UnsubscribeSuppress
<1>3. CASE UnsubscribeFails(a)
  BY <1>1, <1>3 DEF UnsubscribeFails, ConsentInv, ConsentTypeOK, LateInv, RefusedIsSuppressed
<1>4. CASE \E reason \in {"bounce", "complaint"} : ApplySuppression(a, reason)
  BY <1>1, <1>4, RefusalKeeps DEF ApplySuppression
<1> QED
  BY <1>2, <1>3, <1>4

-----------------------------------------------------------------------------
(* The email.                                                              *)

LEMMA MailKeeps ==
    ASSUME ConsentInv, mail' \in MailState,
           mail'.late = {} \/ (consentTeam = "deleted" /\ mail'.pc # "started"),
           UNCHANGED <<contacts, suppressions, leaving, refused, editing, consentTeam>>
    PROVE  ConsentInv'
BY DEF ConsentInv, ConsentTypeOK, LateInv, RefusedIsSuppressed

LEMMA MailGotoKeeps ==
    ASSUME ConsentInv, NEW pc \in {"queued", "policy", "cleared", "started"},
           NEW late \in SUBSET Addresses,
           MailGoto(pc, late) \/ mail' = IdleMail,
           late = {} \/ (consentTeam = "deleted" /\ pc # "started"),
           UNCHANGED <<contacts, suppressions, leaving, refused, editing, consentTeam>>
    PROVE  ConsentInv'
<1> DEFINE next == [mail EXCEPT !.pc = pc, !.late = late]
<1>1. mail \in MailState
  BY DEF ConsentInv, ConsentTypeOK
<1>2. next \in MailState /\ next.late = late /\ next.pc = pc
  BY <1>1 DEF MailState
<1>3. IdleMail \in MailState /\ IdleMail.late = {}
  BY DEF IdleMail, MailState
<1>4. mail' = next \/ mail' = IdleMail
  BY DEF MailGoto
<1> HIDE DEF next
<1> QED
  BY <1>2, <1>3, <1>4, MailKeeps

\* The query that begins the check before a submission finds every refusal there
\* has been, if the team is there.
LEMMA PolicyKeeps ==
    ASSUME ConsentInv, Policy
    PROVE  ConsentInv'
<1>1. UNCHANGED <<contacts, suppressions, leaving, refused, editing, consentTeam>>
  BY DEF Policy
<1>2. refused \subseteq Addresses /\ consentTeam \in {"present", "deleted"}
  BY DEF ConsentInv, ConsentTypeOK
<1>3. CASE Suppressed(mail.to)
  <2>1. mail' = IdleMail
    BY <1>3 DEF Policy
  <2>2. {} \in SUBSET Addresses
    OBVIOUS
  <2> QED
    BY <1>1, <2>1, <2>2, MailGotoKeeps
<1>4. CASE ~Suppressed(mail.to)
  <2>1. MailGoto("policy", mail.to \cap refused) /\ mail.to \cap refused \in SUBSET Addresses
    BY <1>2, <1>4 DEF Policy
  <2>2. mail.to \cap refused = {} \/ consentTeam = "deleted"
    BY <1>2, <1>4 DEF Suppressed, ConsentInv, RefusedIsSuppressed
  <2> QED
    BY <1>1, <2>1, <2>2, MailGotoKeeps
<1> QED
  BY <1>3, <1>4

LEMMA MailsKeep ==
    ASSUME ConsentInv,
           \/ \E to \in (SUBSET Addresses) \ {{}} : Queued(to)
           \/ QueuedContacts \/ PolicyContacts \/ PolicyUnavailable \/ MarkSendStarted \/ Submit
    PROVE  ConsentInv'
<1> DEFINE same == UNCHANGED <<contacts, suppressions, leaving, refused, editing, consentTeam>>
<1>1. CASE \E to \in (SUBSET Addresses) \ {{}} : Queued(to)
  <2>1. mail' \in MailState /\ mail'.late = {}
    BY <1>1 DEF Queued, MailState
  <2> QED
    BY <1>1, <2>1, MailKeeps DEF Queued
<1>2. CASE QueuedContacts \/ PolicyUnavailable \/ Submit
  <2>1. (MailGoto("queued", {}) \/ mail' = IdleMail) /\ same
    BY <1>2 DEF QueuedContacts, PolicyUnavailable, Submit
  <2>2. {} \in SUBSET Addresses
    OBVIOUS
  <2> QED
    BY <2>1, <2>2, MailGotoKeeps
<1>3. mail.late \in SUBSET Addresses /\ (mail.late = {} \/ consentTeam = "deleted")
  BY DEF ConsentInv, ConsentTypeOK, MailState, LateInv
<1>4. CASE PolicyContacts
  <2>1. (MailGoto("cleared", mail.late) \/ mail' = IdleMail) /\ same
    BY <1>4 DEF PolicyContacts
  <2> QED
    BY <1>3, <2>1, MailGotoKeeps
<1>5. CASE MarkSendStarted
  <2>1. same /\ \/ mail' = IdleMail
                \/ consentTeam = "present" /\ MailGoto("started", mail.late)
    BY <1>5 DEF MarkSendStarted, RowIsStarted
  <2>2. CASE mail' = IdleMail
    BY <1>3, <2>1, <2>2, MailGotoKeeps
  <2>3. CASE consentTeam = "present" /\ MailGoto("started", mail.late)
    BY <1>3, <2>1, <2>3, MailGotoKeeps
  <2> QED
    BY <2>1, <2>2, <2>3
<1> QED
  BY <1>1, <1>2, <1>4, <1>5

\* The list goes with the team; an email in mid-check is not past its start.
LEMMA DeleteTeamContactsKeeps ==
    ASSUME ConsentInv, DeleteTeamContacts
    PROVE  ConsentInv'
<1> DEFINE gone == [NoContact EXCEPT !.status = "deleted"]
<1>1. /\ consentTeam' = "deleted" /\ suppressions' = [a \in Addresses |-> "none"]
      /\ contacts' = [c \in ContactIDs |-> IF contacts[c].status = "present" THEN gone ELSE contacts[c]]
      /\ UNCHANGED <<leaving, refused, editing, mail>>
  BY DEF DeleteTeamContacts
<1>2. gone \in ContactRow
  BY DEF NoContact, ContactRow
<1> HIDE DEF gone
<1>3. contacts' \in [ContactIDs -> ContactRow] /\ suppressions' \in [Addresses -> Reasons]
  BY <1>1, <1>2 DEF ConsentInv, ConsentTypeOK, Reasons
<1> QED
  BY <1>1, <1>3 DEF ConsentInv, ConsentTypeOK, LateInv, RefusedIsSuppressed

-----------------------------------------------------------------------------
LEMMA ConsentNextKeeps ==
    ASSUME ConsentInv, [ConsentNext]_consentVars
    PROVE  ConsentInv'
<1>1. CASE UNCHANGED consentVars
  BY <1>1 DEF consentVars, ConsentInv, ConsentTypeOK, LateInv, RefusedIsSuppressed
<1>2. CASE ConsentNext
  BY <1>2, ImportCSVKeeps, UpdateContactReadKeeps, UpdateContactWriteKeeps, DeleteContactKeeps,
     UnsubscribeContactKeeps, RefusalsKeep, PolicyKeeps, MailsKeep, DeleteTeamContactsKeeps
  DEF ConsentNext
<1> QED
  BY <1>1, <1>2

\* The strengthened invariant holds in every reachable state.
THEOREM ConsentInvariance == ConsentSpec => []ConsentInv
<1>1. ConsentInit => ConsentInv
  BY ConsentInitInv
<1>2. ConsentInv /\ [ConsentNext]_consentVars => ConsentInv'
  BY ConsentNextKeeps
<1> QED
  BY <1>1, <1>2, PTL DEF ConsentSpec

\* NoMailAfterRefusal: an email that is being submitted has no recipient who had
\* refused when its check began, also if the team was deleted in mid-check.
THEOREM RefusalsAreKept == ConsentSpec => []NoMailAfterRefusal
<1>1. ConsentInv => NoMailAfterRefusal
  BY DEF ConsentInv, LateInv, NoMailAfterRefusal
<1> QED
  BY <1>1, ConsentInvariance, PTL

\* SuppressionsOnlyGrow: no step but the team's deletion lifts or weakens a
\* suppression.
THEOREM SuppressionsGrow == ConsentSpec => SuppressionsOnlyGrow
<1> DEFINE Grows ==
        consentTeam' = "present" =>
            \A a \in Addresses : Rank(suppressions'[a]) >= Rank(suppressions[a])
<1>1. ConsentInv /\ [ConsentNext]_consentVars => [Grows]_suppressions
  <2> SUFFICES ASSUME ConsentInv, [ConsentNext]_consentVars, suppressions' # suppressions,
                      consentTeam' = "present"
               PROVE  \A a \in Addresses : Rank(suppressions'[a]) >= Rank(suppressions[a])
    OBVIOUS
  <2>1. PICK a \in Addresses : \/ UnsubscribeSuppress(a)
                               \/ \E reason \in {"bounce", "complaint"} : ApplySuppression(a, reason)
    BY DEF ConsentNext, consentVars, ImportCSV, UpdateContactRead, DeleteContact, UpdateContactWrite,
           UnsubscribeContact, UnsubscribeFails, Queued, QueuedContacts, Policy, PolicyContacts,
           PolicyUnavailable, MarkSendStarted, Submit, DeleteTeamContacts
  <2>2. PICK reason \in {"unsubscribe", "bounce", "complaint"} : UpsertSuppression(a, reason)
    BY <2>1 DEF UnsubscribeSuppress, ApplySuppression
  <2> QED
    BY <2>2, UpsertGrows DEF ConsentInv
<1> QED
  BY <1>1, ConsentInvariance, PTL DEF ConsentSpec, SuppressionsOnlyGrow
=============================================================================
