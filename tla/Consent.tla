------------------------------- MODULE Consent -------------------------------
(***************************************************************************)
(* Who must not be mailed: contacts and suppressions of one team, the      *)
(* operations that change them (contact_handler.go, contact_service.go,    *)
(* unsubscribe.go, the suppressions of a provider event) and the check     *)
(* that an email passes when it is queued and again when it is sent        *)
(* (email_service.go).  Addresses are canonical: every statement normalises*)
(* its own.  Names and properties of contacts are left out.                *)
(***************************************************************************)
EXTENDS Integers, FiniteSets

CONSTANTS
    Addresses,      \* recipients
    ContactIDs,     \* rows of contacts
    NoAddress

ASSUME ConsentAssumption == NoAddress \notin Addresses

VARIABLES
    contacts,       \* contacts: ID -> row
    suppressions,   \* suppressions: address -> reason or "none"
    leaving,        \* addresses whose Unsubscribe is between its two statements
    refused,        \* addresses with an unsubscribe acknowledged or an event applied: history
    editing,        \* the copy a ContactService.Update works on, and of which ID, if any
    mail,           \* one email: where it is, its recipients, who had refused by then
    consentTeam     \* the team's row in teams

consentVars == <<contacts, suppressions, leaving, refused, editing, mail, consentTeam>>

Reasons == {"none", "unsubscribe", "bounce", "complaint"}

ContactRow == [status : {"absent", "present", "deleted"}, email : Addresses \cup {NoAddress},
               subscribed : BOOLEAN]

NoContact == [status |-> "absent", email |-> NoAddress, subscribed |-> FALSE]

MailState == [pc : {"idle", "intake", "queued", "policy", "cleared", "started"},
              to : SUBSET Addresses, late : SUBSET Addresses]

IdleMail == [pc |-> "idle", to |-> {}, late |-> {}]

ConsentTypeOK ==
    /\ contacts \in [ContactIDs -> ContactRow]
    /\ suppressions \in [Addresses -> Reasons]
    /\ leaving \in SUBSET Addresses
    /\ refused \in SUBSET Addresses
    /\ editing \in [ids : SUBSET ContactIDs, copy : ContactRow]
    /\ mail \in MailState
    /\ consentTeam \in {"present", "deleted"}

ConsentInit ==
    /\ contacts = [c \in ContactIDs |-> NoContact]
    /\ suppressions = [a \in Addresses |-> "none"]
    /\ leaving = {}
    /\ refused = {}
    /\ editing = [ids |-> {}, copy |-> NoContact]
    /\ mail = IdleMail
    /\ consentTeam = "present"

-----------------------------------------------------------------------------
(* Statements.                                                             *)

ContactsFor(a) == {c \in ContactIDs : contacts[c].status = "present" /\ contacts[c].email = a}

\* ux_contacts_team_canonical_email, for a row c.
AddressIsFree(a, c) == ContactsFor(a) \subseteq {c}

SetSubscribedByEmail(a, sub) ==
    contacts' = [c \in ContactIDs |->
        IF c \in ContactsFor(a) THEN [contacts[c] EXCEPT !.subscribed = sub] ELSE contacts[c]]

\* Mutant: the last reason wins.
Stronger_Last(old, new) == new

\* Upsert, in suppression_repo.go and in ApplyProviderEvent.
Stronger(old, new) ==
    IF "complaint" \in {old, new} THEN "complaint"
    ELSE IF "bounce" \in {old, new} THEN "bounce" ELSE "unsubscribe"

UpsertSuppression(a, reason) ==
    suppressions' = [suppressions EXCEPT ![a] = Stronger(@, reason)]

\* Mutant: the contact alone decides.
Suppressed_Contacts(to) == FALSE

\* GetByEmails and GetUnsubscribedByEmails: one recipient is enough.
Suppressed(to) == \E a \in to : suppressions[a] # "none"

Unsubscribed(to) == \E a \in to, c \in ContactIDs : c \in ContactsFor(a) /\ ~contacts[c].subscribed

-----------------------------------------------------------------------------
(* Contacts.                                                               *)

\* BulkCreate, all rows or none, and none without the team (its foreign key).
\* Create is an import of one: its GetByEmail decides nothing that the index does
\* not decide again.
ImportCSV(new, email, subscribed) ==
    /\ consentTeam = "present"
    /\ \A c \in new : contacts[c].status = "absent" /\ AddressIsFree(email[c], c)
    /\ \A c, d \in new : c # d => email[c] # email[d]
    /\ contacts' = [c \in ContactIDs |->
          IF c \in new THEN [status |-> "present", email |-> email[c], subscribed |-> c \in subscribed]
          ELSE contacts[c]]
    /\ UNCHANGED <<suppressions, leaving, refused, editing, mail, consentTeam>>

UpdateContactRead(c) ==
    /\ editing.ids = {} /\ contacts[c].status = "present"
    /\ \E a \in Addresses, s \in BOOLEAN :
          editing' = [ids |-> {c}, copy |-> [status |-> "present", email |-> a, subscribed |-> s]]
    /\ UNCHANGED <<contacts, suppressions, leaving, refused, mail, consentTeam>>

\* The whole row as it was read, with the request's fields; nothing happens if it
\* is gone, and the index may refuse the new address.
UpdateContactWrite ==
    /\ editing.ids # {}
    /\ \E c \in editing.ids :
          contacts' = IF contacts[c].status = "present" /\ AddressIsFree(editing.copy.email, c)
                      THEN [contacts EXCEPT ![c] = editing.copy] ELSE contacts
    /\ editing' = [ids |-> {}, copy |-> NoContact]
    /\ UNCHANGED <<suppressions, leaving, refused, mail, consentTeam>>

DeleteContact(c) ==
    /\ contacts[c].status = "present"
    /\ contacts' = [contacts EXCEPT ![c] = [NoContact EXCEPT !.status = "deleted"]]
    /\ UNCHANGED <<suppressions, leaving, refused, editing, mail, consentTeam>>

-----------------------------------------------------------------------------
(* Unsubscribe: the contact, then the suppression, then 204.               *)

UnsubscribeContact(a) ==
    /\ a \notin leaving
    /\ SetSubscribedByEmail(a, FALSE)
    /\ leaving' = leaving \cup {a}
    /\ UNCHANGED <<suppressions, refused, editing, mail, consentTeam>>

UnsubscribeSuppress(a) ==
    /\ a \in leaving /\ consentTeam = "present"
    /\ UpsertSuppression(a, "unsubscribe")
    /\ leaving' = leaving \ {a}
    /\ refused' = refused \cup {a}
    /\ UNCHANGED <<contacts, editing, mail, consentTeam>>

\* 503: the contact is unsubscribed and the suppression is not there.
UnsubscribeFails(a) ==
    /\ a \in leaving
    /\ leaving' = leaving \ {a}
    /\ UNCHANGED <<contacts, suppressions, refused, editing, mail, consentTeam>>

\* ApplyProviderEvent: a permanent bounce or a complaint.
ApplySuppression(a, reason) ==
    /\ consentTeam = "present"
    /\ UpsertSuppression(a, reason)
    /\ refused' = refused \cup {a}
    /\ UNCHANGED <<contacts, leaving, editing, mail, consentTeam>>

-----------------------------------------------------------------------------
(* An email: checkRecipientSuppression, two queries, when it is queued and *)
(* again when the worker is about to submit it.  The worker goes by the    *)
(* copy it read, also when the row is gone, and learns so when it writes.  *)

MailGoto(pc, late) == mail' = [mail EXCEPT !.pc = pc, !.late = late]

Queued(to) ==
    /\ mail.pc = "idle" /\ ~Suppressed(to)
    /\ mail' = [pc |-> "intake", to |-> to, late |-> {}]
    /\ UNCHANGED <<contacts, suppressions, leaving, refused, editing, consentTeam>>

QueuedContacts ==
    /\ mail.pc = "intake"
    /\ IF Unsubscribed(mail.to) \/ consentTeam = "deleted" THEN mail' = IdleMail
       ELSE MailGoto("queued", {})
    /\ UNCHANGED <<contacts, suppressions, leaving, refused, editing, consentTeam>>

Policy ==
    /\ mail.pc = "queued"
    /\ IF Suppressed(mail.to) THEN mail' = IdleMail ELSE MailGoto("policy", mail.to \cap refused)
    /\ UNCHANGED <<contacts, suppressions, leaving, refused, editing, consentTeam>>

PolicyContacts ==
    /\ mail.pc = "policy"
    /\ IF Unsubscribed(mail.to) THEN mail' = IdleMail ELSE MailGoto("cleared", mail.late)
    /\ UNCHANGED <<contacts, suppressions, leaving, refused, editing, consentTeam>>

\* Either query may fail: the email goes back to the queue (MarkSendRetryable).
PolicyUnavailable ==
    /\ mail.pc \in {"queued", "policy"}
    /\ IF consentTeam = "deleted" THEN mail' = IdleMail ELSE MailGoto("queued", {})
    /\ UNCHANGED <<contacts, suppressions, leaving, refused, editing, consentTeam>>

\* Mutant: the update's row count is not looked at.
RowIsStarted_Any == TRUE

\* MarkSendStarted found the row, which goes with the team.
RowIsStarted == consentTeam = "present"

MarkSendStarted ==
    /\ mail.pc = "cleared"
    /\ IF RowIsStarted THEN MailGoto("started", mail.late) ELSE mail' = IdleMail
    /\ UNCHANGED <<contacts, suppressions, leaving, refused, editing, consentTeam>>

Submit ==
    /\ mail.pc = "started"
    /\ mail' = IdleMail
    /\ UNCHANGED <<contacts, suppressions, leaving, refused, editing, consentTeam>>

-----------------------------------------------------------------------------
\* DELETE FROM teams takes contacts and suppressions with it (ON DELETE CASCADE),
\* under a worker that may be between its queries.
DeleteTeamContacts ==
    /\ consentTeam = "present"
    /\ consentTeam' = "deleted"
    /\ contacts' = [c \in ContactIDs |->
          IF contacts[c].status = "present" THEN [NoContact EXCEPT !.status = "deleted"]
          ELSE contacts[c]]
    /\ suppressions' = [a \in Addresses |-> "none"]
    /\ UNCHANGED <<leaving, refused, editing, mail>>

ConsentNext ==
    \/ \E new \in (SUBSET ContactIDs) \ {{}} : \E email \in [new -> Addresses], sub \in SUBSET new :
          ImportCSV(new, email, sub)
    \/ \E c \in ContactIDs : UpdateContactRead(c) \/ DeleteContact(c)
    \/ UpdateContactWrite
    \/ \E a \in Addresses :
          \/ UnsubscribeContact(a) \/ UnsubscribeSuppress(a) \/ UnsubscribeFails(a)
          \/ \E reason \in {"bounce", "complaint"} : ApplySuppression(a, reason)
    \/ \E to \in (SUBSET Addresses) \ {{}} : Queued(to)
    \/ QueuedContacts \/ Policy \/ PolicyContacts \/ PolicyUnavailable \/ MarkSendStarted \/ Submit
    \/ DeleteTeamContacts

ConsentSpec == ConsentInit /\ [][ConsentNext]_consentVars

-----------------------------------------------------------------------------
(* No email is submitted to an address that had refused before the check   *)
(* that cleared it began, whatever happened to the address's contact       *)
(* since: an Update that read it earlier writes "subscribed" back, a       *)
(* deletion and an import give it a new row.  And when the team's deletion *)
(* empties the list that the check reads, the email does not get past      *)
(* MarkSendStarted.                                                        *)
NoMailAfterRefusal == mail.pc = "started" => mail.late = {}

Rank(reason) == CASE reason = "none" -> 0 [] reason = "unsubscribe" -> 1
                  [] reason = "bounce" -> 2 [] reason = "complaint" -> 3

\* As long as there is the team, a suppression never weakens and is never lifted:
\* an unsubscribe that arrives after a complaint leaves the complaint on record.
SuppressionsOnlyGrow ==
    [][consentTeam' = "present" =>
          \A a \in Addresses : Rank(suppressions'[a]) >= Rank(suppressions[a])]_suppressions
=============================================================================
