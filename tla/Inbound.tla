------------------------------- MODULE Inbound -------------------------------
(***************************************************************************)
(* Inbound mail, from SES to its row and its event and to its end by       *)
(* retention or with its team (worker/inbound_worker.go,                   *)
(* inbound_handler.go, inbound_service.go, inbound_repo.go,                *)
(* CreateInboundWithOutbox, purgeInbound of retention_service.go).  SES    *)
(* puts the raw mail into S3, or into the notification; the notification   *)
(* comes through SNS, which may send it twice, into SQS, which hands it to *)
(* another worker when its visibility runs out.  Parsing and signatures    *)
(* are a free choice of the outcome.                                       *)
(***************************************************************************)
EXTENDS Integers, FiniteSets

CONSTANTS
    Mails,              \* mails, each with its message ID
    InboundTeams,       \* teams that a mail may be for
    InboundWorkers,     \* goroutines of inbound workers
    MaxReceives,        \* maxReceiveCount of the queue's redrive policy
    NoOne               \* no mail, no team

ASSUME InboundAssumption ==
    NoOne \notin Mails \cup InboundTeams /\ MaxReceives \in Nat \ {0}

VARIABLES
    raw,            \* mail -> where its raw content is
    sqs,            \* mail -> its message in the queue
    receives,       \* mail -> how often it was received
    route,          \* what GetTeamByDomain answers now
    inbounds,       \* inbound_emails: team and mail -> row
    received,       \* team and mail -> outbox events inserted
    job,            \* worker -> where it is, with its mail and team
    purge,          \* the retention pass: the row it is at
    goneTeams       \* teams whose row in teams was deleted

inboundVars == <<raw, sqs, receives, route, inbounds, received, job, purge, goneTeams>>

Rows == InboundTeams \X Mails

\* purged: deleted by retention; cascaded: deleted with its team.
RowStates == {"absent", "present", "expired", "purged", "cascaded"}

JobState == [pc : {"idle", "fetch", "route", "lookup", "store", "delete"},
             mail : Mails \cup {NoOne}, team : InboundTeams \cup {NoOne}]

IdleJob == [pc |-> "idle", mail |-> NoOne, team |-> NoOne]

IdlePurge == [pc |-> "idle", row |-> NoOne]

InboundTypeOK ==
    /\ raw \in [Mails -> {"none", "object", "inline", "deleted"}]
    /\ sqs \in [Mails -> {"none", "visible", "inflight", "dead", "done", "discarded"}]
    /\ receives \in [Mails -> 0..MaxReceives]
    /\ route \in InboundTeams \cup {NoOne}
    /\ inbounds \in [Rows -> RowStates]
    /\ received \in [Rows -> Nat]
    /\ job \in [InboundWorkers -> JobState]
    /\ purge \in {IdlePurge} \cup [pc : {"object", "row"}, row : Rows]
    /\ goneTeams \in SUBSET InboundTeams

InboundInit ==
    /\ raw = [m \in Mails |-> "none"]
    /\ sqs = [m \in Mails |-> "none"]
    /\ receives = [m \in Mails |-> 0]
    /\ route = NoOne
    /\ inbounds = [x \in Rows |-> "absent"]
    /\ received = [x \in Rows |-> 0]
    /\ job = [w \in InboundWorkers |-> IdleJob]
    /\ purge = IdlePurge
    /\ goneTeams = {}

Queue(m) == sqs[m] \in {"visible", "inflight"}

HasRow(x) == inbounds[x] \in {"present", "expired"}

\* No row of the mail is old enough for retention.
Recent(m) == \A t \in InboundTeams : inbounds[<<t, m>>] \notin {"expired", "purged"}

-----------------------------------------------------------------------------
(* Around the code: SES, SNS, SQS, the domains and the calendar.           *)

Arrive(m) ==
    /\ raw[m] = "none"
    /\ \E place \in {"object", "inline"} : raw' = [raw EXCEPT ![m] = place]
    /\ sqs' = [sqs EXCEPT ![m] = "visible"]
    /\ UNCHANGED <<receives, route, inbounds, received, job, purge, goneTeams>>

\* SNS sends it again.
Redeliver(m) ==
    /\ sqs[m] = "done" /\ Recent(m)
    /\ sqs' = [sqs EXCEPT ![m] = "visible"]
    /\ receives' = [receives EXCEPT ![m] = 0]
    /\ UNCHANGED <<raw, route, inbounds, received, job, purge, goneTeams>>

\* The heartbeat was late or failed, or the worker is gone.
VisibilityEnds(m) ==
    /\ sqs[m] = "inflight"
    /\ sqs' = [sqs EXCEPT ![m] = "visible"]
    /\ UNCHANGED <<raw, receives, route, inbounds, received, job, purge, goneTeams>>

\* A domain is verified, deleted, or claimed by another team.
RouteChanges ==
    /\ route' \in ((InboundTeams \ goneTeams) \cup {NoOne}) \ {route}
    /\ UNCHANGED <<raw, sqs, receives, inbounds, received, job, purge, goneTeams>>

\* INBOUND_RETENTION_DAYS is far longer than a message stays in the queue.
Expire(t, m) ==
    /\ inbounds[<<t, m>>] = "present" /\ ~Queue(m) /\ \A w \in InboundWorkers : job[w].mail # m
    /\ inbounds' = [x \in Rows |-> IF x[2] = m /\ inbounds[x] = "present" THEN "expired" ELSE inbounds[x]]
    /\ UNCHANGED <<raw, sqs, receives, route, received, job, purge, goneTeams>>

-----------------------------------------------------------------------------
(* The worker.                                                             *)

JobGoto(w, pc) == job' = [job EXCEPT ![w].pc = pc]

JobEnds(w) == job' = [job EXCEPT ![w] = IdleJob]

\* A message that was received too often goes to the dead-letter queue instead.
ReceiveMessage(w, m) ==
    /\ job[w].pc = "idle" /\ sqs[m] = "visible"
    /\ IF receives[m] = MaxReceives
       THEN sqs' = [sqs EXCEPT ![m] = "dead"] /\ UNCHANGED <<receives, job>>
       ELSE /\ sqs' = [sqs EXCEPT ![m] = "inflight"]
            /\ receives' = [receives EXCEPT ![m] = @ + 1]
            /\ job' = [job EXCEPT ![w] = [pc |-> "fetch", mail |-> m, team |-> NoOne]]
    /\ UNCHANGED <<raw, route, inbounds, received, purge, goneTeams>>

\* DecodeAndVerifySNS, readRawEmail and ParseRawMessage.
Fetch(w) ==
    /\ job[w].pc = "fetch"
    /\ \/ raw[job[w].mail] \in {"object", "inline"} /\ JobGoto(w, "route")
       \/ JobEnds(w)
    /\ UNCHANGED <<raw, sqs, receives, route, inbounds, received, purge, goneTeams>>

\* ErrDiscardInboundMessage, and its deleteMessage: not signed by the topic.
Discard(w) ==
    /\ job[w].pc = "fetch"
    /\ sqs' = [sqs EXCEPT ![job[w].mail] = IF Queue(job[w].mail) THEN "discarded" ELSE @]
    /\ JobEnds(w)
    /\ UNCHANGED <<raw, receives, route, inbounds, received, purge, goneTeams>>

\* Mutant: what cannot be routed is acknowledged.
NotRouted_Ack(w) == JobGoto(w, "delete")

\* An error: the message stays and becomes visible again.
NotRouted(w) == JobEnds(w)

TeamForRecipients(w) ==
    /\ job[w].pc = "route"
    /\ IF route = NoOne THEN NotRouted(w)
       ELSE job' = [job EXCEPT ![w].pc = "lookup", ![w].team = route]
    /\ UNCHANGED <<raw, sqs, receives, route, inbounds, received, purge, goneTeams>>

GetByMessageID(w) ==
    /\ job[w].pc = "lookup"
    /\ \/ JobGoto(w, IF HasRow(<<job[w].team, job[w].mail>>) THEN "delete" ELSE "store")
       \/ JobEnds(w)
    /\ UNCHANGED <<raw, sqs, receives, route, inbounds, received, purge, goneTeams>>

\* Mutant: no index, only the lookup.
MessageIsNew_Any(x) == TRUE

\* ux_inbound_emails_team_message_id
MessageIsNew(x) == ~HasRow(x)

\* One transaction: the row and its event.
CreateInboundWithOutbox(x) ==
    /\ inbounds' = [inbounds EXCEPT ![x] = "present"]
    /\ received' = [received EXCEPT ![x] = @ + 1]

\* The foreign key on teams.
TeamIsThere(t) == t \notin goneTeams

\* A duplicate (23505) counts as stored; any other error leaves the message, also
\* that the team was deleted since it was looked up.
Store(w) ==
    /\ job[w].pc = "store"
    /\ LET x == <<job[w].team, job[w].mail>> IN
       \/ TeamIsThere(x[1]) /\ MessageIsNew(x) /\ CreateInboundWithOutbox(x) /\ JobGoto(w, "delete")
       \/ HasRow(x) /\ JobGoto(w, "delete") /\ UNCHANGED <<inbounds, received>>
       \/ JobEnds(w) /\ UNCHANGED <<inbounds, received>>
    /\ UNCHANGED <<raw, sqs, receives, route, purge, goneTeams>>

\* An old receipt handle still deletes; a failure is logged.
DeleteMessage(w) ==
    /\ job[w].pc = "delete"
    /\ sqs' \in {sqs, [sqs EXCEPT ![job[w].mail] = IF Queue(job[w].mail) THEN "done" ELSE @]}
    /\ JobEnds(w)
    /\ UNCHANGED <<raw, receives, route, inbounds, received, purge, goneTeams>>

WorkerDies(w) ==
    /\ job[w].pc # "idle"
    /\ JobEnds(w)
    /\ UNCHANGED <<raw, sqs, receives, route, inbounds, received, purge, goneTeams>>

\* The same notification by HTTP: it is refused unless it carries the content.
HandleSESPayload(m) ==
    /\ raw[m] = "inline" /\ route # NoOne /\ MessageIsNew(<<route, m>>) /\ Recent(m)
    /\ CreateInboundWithOutbox(<<route, m>>)
    /\ UNCHANGED <<raw, sqs, receives, route, job, purge, goneTeams>>

-----------------------------------------------------------------------------
(* purgeInbound: for each expired row the object, then the row.            *)

ListExpired(x) ==
    /\ purge.pc = "idle" /\ inbounds[x] = "expired"
    /\ purge' = [pc |-> IF raw[x[2]] = "inline" THEN "row" ELSE "object", row |-> x]
    /\ UNCHANGED <<raw, sqs, receives, route, inbounds, received, job, goneTeams>>

\* Mutant: the failure is ignored.
ObjectStays_GoOn == purge' = [purge EXCEPT !.pc = "row"]

\* S3 did not confirm: the pass ends.
ObjectStays == purge' = IdlePurge

DeleteInboundObject ==
    /\ purge.pc = "object"
    /\ \/ raw' = [raw EXCEPT ![purge.row[2]] = "deleted"] /\ purge' = [purge EXCEPT !.pc = "row"]
       \/ UNCHANGED raw /\ ObjectStays
    /\ UNCHANGED <<sqs, receives, route, inbounds, received, job, goneTeams>>

\* If the worker dies in between the row is left for the next pass; it may also
\* have gone with its team.
DeleteExpired ==
    /\ purge.pc = "row"
    /\ \/ HasRow(purge.row) /\ inbounds' = [inbounds EXCEPT ![purge.row] = "purged"]
       \/ UNCHANGED inbounds
    /\ purge' = IdlePurge
    /\ UNCHANGED <<raw, sqs, receives, route, received, job, goneTeams>>

-----------------------------------------------------------------------------
\* DELETE FROM teams takes the team's rows and its domain with it, by ON DELETE
\* CASCADE.  The objects of the rows stay in S3: nothing in the code knows their
\* keys any more, and only the bucket's own lifecycle rule removes them.
DeleteTeamInbound(t) ==
    /\ TeamIsThere(t)
    /\ goneTeams' = goneTeams \cup {t}
    /\ inbounds' = [x \in Rows |-> IF x[1] = t /\ HasRow(x) THEN "cascaded" ELSE inbounds[x]]
    /\ route' = IF route = t THEN NoOne ELSE route
    /\ UNCHANGED <<raw, sqs, receives, received, job, purge>>

InboundNext ==
    \/ \E m \in Mails :
          \/ Arrive(m) \/ Redeliver(m) \/ VisibilityEnds(m) \/ HandleSESPayload(m)
          \/ \E t \in InboundTeams : Expire(t, m)
          \/ \E w \in InboundWorkers : ReceiveMessage(w, m)
    \/ RouteChanges
    \/ \E w \in InboundWorkers :
          \/ Fetch(w) \/ Discard(w) \/ TeamForRecipients(w) \/ GetByMessageID(w) \/ Store(w)
          \/ DeleteMessage(w) \/ WorkerDies(w)
    \/ \E x \in Rows : ListExpired(x)
    \/ DeleteInboundObject \/ DeleteExpired
    \/ \E t \in InboundTeams : DeleteTeamInbound(t)

InboundSpec == InboundInit /\ [][InboundNext]_inboundVars

-----------------------------------------------------------------------------
\* Someone still knows of the mail, or decided that it is none.
Tracked(m) == sqs[m] \in {"visible", "inflight", "dead", "discarded"}

(* A mail that arrived is in its queue, in the dead-letter queue or in the *)
(* table until retention or the deletion of its team removes it, whatever  *)
(* its workers do: it is acknowledged only after its row is committed.     *)
NoMailIsLost ==
    \A m \in Mails :
        raw[m] # "none" => Tracked(m) \/ \E t \in InboundTeams : inbounds[<<t, m>>] # "absent"

\* Redeliveries, two workers at once, a failed delete and a team that goes in
\* between do not store a mail twice for a team, and every row came with exactly
\* one event.
OneEventPerMail ==
    \A x \in Rows : received[x] = IF inbounds[x] = "absent" THEN 0 ELSE 1

\* Retention leaves no object behind, although S3 fails, the worker dies between
\* object and row, and the row may be deleted under it: an object that no message
\* and no row leads to any more was lost by the deletion of a team (where the code
\* does lose it), or with a message that was thrown away as not genuine.
RetentionLeavesNoObject ==
    \A m \in Mails : raw[m] = "object" =>
        /\ \A t \in InboundTeams : inbounds[<<t, m>>] # "purged"
        /\ \/ Tracked(m)
           \/ \E t \in InboundTeams : HasRow(<<t, m>>) \/ inbounds[<<t, m>>] = "cascaded"
=============================================================================
