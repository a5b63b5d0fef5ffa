---------------------------- MODULE InboundProofs ----------------------------
(***************************************************************************)
(* Inbound mail is neither lost nor stored twice, and retention leaves no  *)
(* object behind, for any number of mails, teams, workers and receives,    *)
(* with teams deleted at any time.  The strengthening says what a worker   *)
(* knows at each place (JobsInv), that a mail whose rows are up for        *)
(* retention is out of the queue for good (ExpiredIsQuiet), what the       *)
(* retention pass has done to the object when it comes to the row          *)
(* (PurgeInv), and that the rows of a deleted team stay away (CascadeInv). *)
(***************************************************************************)
EXTENDS Inbound, TLAPS

\* Notification and content arrive together; before them there is nothing.
ArrivalInv ==
    \A m \in Mails :
        /\ raw[m] = "none" <=> sqs[m] = "none"
        /\ raw[m] = "none" => \A t \in InboundTeams : inbounds[<<t, m>>] = "absent"

\* A message is gone from the queue only after a row of its mail was committed.
DoneInv ==
    \A m \in Mails : sqs[m] = "done" => \E t \in InboundTeams : inbounds[<<t, m>>] # "absent"

\* A worker at work has a message that arrived, and one that is about to delete
\* it has seen the row, or the constraint that stands for it.
JobsInv ==
    \A w \in InboundWorkers :
        IF job[w].pc = "idle" THEN job[w].mail = NoOne
        ELSE /\ job[w].mail \in Mails /\ sqs[job[w].mail] # "none"
             /\ job[w].pc \in {"lookup", "store", "delete"} => job[w].team \in InboundTeams
             /\ job[w].pc = "delete" => inbounds[<<job[w].team, job[w].mail>>] # "absent"

\* When retention comes to a mail, the queue and the workers are done with it.
ExpiredIsQuiet ==
    \A t \in InboundTeams, m \in Mails :
        inbounds[<<t, m>>] \in {"expired", "purged"} =>
            ~Queue(m) /\ \A w \in InboundWorkers : job[w].mail # m

\* The pass is at a row that has expired, or went with its team since, and removes
\* it after its object only.
PurgeInv ==
    /\ purge.pc # "idle" => /\ purge.row \in Rows
                            /\ inbounds[purge.row] \in {"expired", "purged", "cascaded"}
    /\ purge.pc = "row" => raw[purge.row[2]] # "object"
    /\ \A x \in Rows : inbounds[x] = "purged" => raw[x[2]] # "object"

\* A row that went with its team does not come back, and no mail is routed there.
CascadeInv ==
    /\ \A x \in Rows : inbounds[x] = "cascaded" => x[1] \in goneTeams
    /\ route \notin goneTeams

InboundInv ==
    /\ InboundTypeOK /\ ArrivalInv /\ DoneInv /\ JobsInv /\ ExpiredIsQuiet /\ PurgeInv
    /\ CascadeInv /\ OneEventPerMail

\* Rows are pairs.
LEMMA RowPairs ==
    /\ \A x \in Rows : x = <<x[1], x[2]>> /\ x[1] \in InboundTeams /\ x[2] \in Mails
    /\ \A t \in InboundTeams, m \in Mails : <<t, m>> \in Rows /\ <<t, m>>[1] = t /\ <<t, m>>[2] = m
BY DEF Rows

\* NULL is no mail.
LEMMA NoOneIsNoMail == NoOne \notin Mails /\ NoOne \notin InboundTeams
BY InboundAssumption

\* The rows of a mail that retention has not come to.
LEMMA RecentRows ==
    ASSUME InboundInv, NEW m \in Mails, Recent(m)
    PROVE  \A t \in InboundTeams : inbounds[<<t, m>>] \in {"absent", "present", "cascaded"}
BY RowPairs DEF InboundInv, InboundTypeOK, RowStates, Recent

LEMMA InboundInitInv == InboundInit => InboundInv
<1> SUFFICES ASSUME InboundInit PROVE InboundInv
  OBVIOUS
<1>1. InboundTypeOK
  BY InboundAssumption DEF InboundInit, InboundTypeOK, RowStates, IdleJob, JobState, IdlePurge
<1>2. ArrivalInv /\ DoneInv /\ ExpiredIsQuiet /\ OneEventPerMail
  BY RowPairs DEF InboundInit, ArrivalInv, DoneInv, ExpiredIsQuiet, OneEventPerMail
<1>3. JobsInv /\ PurgeInv /\ CascadeInv
  BY DEF InboundInit, JobsInv, PurgeInv, CascadeInv, IdleJob, IdlePurge
<1> QED
  BY <1>1, <1>2, <1>3 DEF InboundInv

-----------------------------------------------------------------------------
(* The world around the code.                                              *)

LEMMA ArriveKeeps ==
    ASSUME InboundInv, NEW m \in Mails, Arrive(m)
    PROVE  InboundInv'
<1>1. /\ raw[m] = "none" /\ sqs' = [sqs EXCEPT ![m] = "visible"]
      /\ \E place \in {"object", "inline"} : raw' = [raw EXCEPT ![m] = place]
      /\ UNCHANGED <<receives, route, inbounds, received, job, purge, goneTeams>>
  BY DEF Arrive
<1>2. raw \in [Mails -> {"none", "object", "inline", "deleted"}]
      /\ sqs \in [Mails -> {"none", "visible", "inflight", "dead", "done", "discarded"}]
  BY DEF InboundInv, InboundTypeOK, RowStates
<1>3. /\ \A n \in Mails : n # m => raw'[n] = raw[n] /\ sqs'[n] = sqs[n]
      /\ raw'[m] \in {"object", "inline"} /\ sqs'[m] = "visible" /\ sqs[m] = "none"
      /\ \A t \in InboundTeams : inbounds[<<t, m>>] = "absent"
  BY <1>1, <1>2 DEF InboundInv, ArrivalInv
<1>4. InboundTypeOK'
  BY <1>1, <1>2 DEF InboundInv, InboundTypeOK, RowStates
<1>5. ArrivalInv' /\ DoneInv' /\ OneEventPerMail'
  BY <1>1, <1>3 DEF InboundInv, ArrivalInv, DoneInv, OneEventPerMail
<1>6. JobsInv'
  BY <1>1, <1>3 DEF InboundInv, JobsInv
<1>7. ExpiredIsQuiet'
  BY <1>1, <1>3 DEF InboundInv, ExpiredIsQuiet, Queue
<1>8. PurgeInv' /\ CascadeInv'
  BY <1>1, <1>3, RowPairs DEF InboundInv, PurgeInv, CascadeInv
<1> QED
  BY <1>4, <1>5, <1>6, <1>7, <1>8 DEF InboundInv

\* A message changes its place in the queue; those of a mail that retention is
\* at stay out of it.
LEMMA QueueMoveKeeps ==
    ASSUME InboundInv, NEW m \in Mails,
           NEW s \in {"visible", "inflight", "dead", "done", "discarded"},
           sqs[m] # "none", sqs' = [sqs EXCEPT ![m] = s],
           s = "done" => \E t \in InboundTeams : inbounds[<<t, m>>] # "absent",
           s \in {"visible", "inflight"} =>
               \A t \in InboundTeams : inbounds[<<t, m>>] \in {"absent", "present", "cascaded"},
           receives' \in [Mails -> 0..MaxReceives], JobsInv', ExpiredIsQuiet',
           job' \in [InboundWorkers -> JobState],
           UNCHANGED <<raw, route, inbounds, received, purge, goneTeams>>
    PROVE  InboundInv'
<1>1. sqs \in [Mails -> {"none", "visible", "inflight", "dead", "done", "discarded"}]
  BY DEF InboundInv, InboundTypeOK, RowStates
<1>2. \A n \in Mails : sqs'[n] = IF n = m THEN s ELSE sqs[n]
  BY <1>1
<1>3. InboundTypeOK'
  BY <1>1 DEF InboundInv, InboundTypeOK, RowStates
<1>4. ArrivalInv' /\ DoneInv' /\ OneEventPerMail' /\ PurgeInv' /\ CascadeInv'
  BY <1>2 DEF InboundInv, ArrivalInv, DoneInv, OneEventPerMail, PurgeInv, CascadeInv
<1> QED
  BY <1>3, <1>4 DEF InboundInv

LEMMA RedeliverKeeps ==
    ASSUME InboundInv, NEW m \in Mails, Redeliver(m)
    PROVE  InboundInv'
<1>1. /\ sqs[m] = "done" /\ sqs' = [sqs EXCEPT ![m] = "visible"]
      /\ \A t \in InboundTeams : inbounds[<<t, m>>] \in {"absent", "present", "cascaded"}
      /\ receives' = [receives EXCEPT ![m] = 0]
      /\ UNCHANGED <<raw, route, inbounds, received, job, purge, goneTeams>>
  BY RecentRows DEF Redeliver
<1>2. sqs \in [Mails -> {"none", "visible", "inflight", "dead", "done", "discarded"}]
      /\ receives' \in [Mails -> 0..MaxReceives] /\ job' \in [InboundWorkers -> JobState]
  BY <1>1, InboundAssumption DEF InboundInv, InboundTypeOK, RowStates
<1>3. JobsInv'
  BY <1>1, <1>2 DEF InboundInv, JobsInv
<1>4. ExpiredIsQuiet'
  BY <1>1, <1>2 DEF InboundInv, ExpiredIsQuiet, Queue
<1> QED
  BY <1>1, <1>2, <1>3, <1>4, QueueMoveKeeps

LEMMA VisibilityEndsKeeps ==
    ASSUME InboundInv, NEW m \in Mails, VisibilityEnds(m)
    PROVE  InboundInv'
<1>1. /\ sqs[m] = "inflight" /\ sqs' = [sqs EXCEPT ![m] = "visible"]
      /\ UNCHANGED <<raw, receives, route, inbounds, received, job, purge, goneTeams>>
  BY DEF VisibilityEnds
<1>2. sqs \in [Mails -> {"none", "visible", "inflight", "dead", "done", "discarded"}]
      /\ receives' \in [Mails -> 0..MaxReceives] /\ job' \in [InboundWorkers -> JobState]
      /\ inbounds \in [Rows -> {"absent", "present", "expired", "purged", "cascaded"}]
  BY <1>1 DEF InboundInv, InboundTypeOK, RowStates
<1>3. \A t \in InboundTeams : inbounds[<<t, m>>] \in {"absent", "present", "cascaded"}
  BY <1>1, <1>2, RowPairs DEF InboundInv, ExpiredIsQuiet, Queue
<1>4. JobsInv'
  BY <1>1, <1>2 DEF InboundInv, JobsInv
<1>5. ExpiredIsQuiet'
  BY <1>1, <1>2, <1>3 DEF InboundInv, ExpiredIsQuiet, Queue
<1> QED
  BY <1>1, <1>2, <1>3, <1>4, <1>5, QueueMoveKeeps

LEMMA RouteChangesKeeps ==
    ASSUME InboundInv, RouteChanges
    PROVE  InboundInv'
<1>1. /\ route' \in (InboundTeams \ goneTeams) \cup {NoOne}
      /\ UNCHANGED <<raw, sqs, receives, inbounds, received, job, purge, goneTeams>>
  BY DEF RouteChanges
<1>2. InboundTypeOK' /\ CascadeInv'
  BY <1>1, NoOneIsNoMail DEF InboundInv, InboundTypeOK, CascadeInv
<1> QED
  BY <1>1, <1>2 DEF InboundInv, ArrivalInv, DoneInv, JobsInv, ExpiredIsQuiet, Queue, PurgeInv, OneEventPerMail

LEMMA ExpireKeeps ==
    ASSUME InboundInv, NEW t \in InboundTeams, NEW m \in Mails, Expire(t, m)
    PROVE  InboundInv'
<1>1. /\ ~Queue(m) /\ \A w \in InboundWorkers : job[w].mail # m
      /\ inbounds' = [x \in Rows |-> IF x[2] = m /\ inbounds[x] = "present" THEN "expired" ELSE inbounds[x]]
      /\ UNCHANGED <<raw, sqs, receives, route, received, job, purge, goneTeams>>
  BY DEF Expire
<1>2. inbounds \in [Rows -> {"absent", "present", "expired", "purged", "cascaded"}]
  BY DEF InboundInv, InboundTypeOK, RowStates
<1>3. \A x \in Rows :
        /\ inbounds'[x] = "absent" <=> inbounds[x] = "absent"
        /\ inbounds'[x] = "purged" <=> inbounds[x] = "purged"
        /\ inbounds'[x] = "cascaded" <=> inbounds[x] = "cascaded"
        /\ inbounds[x] = "expired" => inbounds'[x] = "expired"
        /\ x[2] # m => inbounds'[x] = inbounds[x]
  BY <1>1, <1>2
<1>4. InboundTypeOK'
  BY <1>1, <1>2 DEF InboundInv, InboundTypeOK, RowStates
<1>5. ArrivalInv' /\ DoneInv' /\ OneEventPerMail'
  BY <1>1, <1>3, RowPairs DEF InboundInv, ArrivalInv, DoneInv, OneEventPerMail
<1>6. JobsInv'
  BY <1>1, <1>3, RowPairs DEF InboundInv, JobsInv
<1>7. ExpiredIsQuiet'
  BY <1>1, <1>3, RowPairs DEF InboundInv, ExpiredIsQuiet, Queue
<1>8. PurgeInv' /\ CascadeInv'
  BY <1>1, <1>3, RowPairs DEF InboundInv, PurgeInv, CascadeInv
<1> QED
  BY <1>4, <1>5, <1>6, <1>7, <1>8 DEF InboundInv

-----------------------------------------------------------------------------
(* The workers.                                                            *)

\* A worker goes on with its mail, or drops it: enough of the two parts of the
\* invariant that speak of workers, for every step that puts nothing back into
\* the queue and gives no row to retention.
LEMMA JobMoveKeeps ==
    ASSUME InboundInv, NEW w \in InboundWorkers, NEW j \in JobState,
           job' = [job EXCEPT ![w] = j],
           j.pc = "idle" => j.mail = NoOne,
           j.pc # "idle" => job[w].pc # "idle" /\ j.mail = job[w].mail,
           j.pc \in {"lookup", "store", "delete"} => j.team \in InboundTeams,
           j.pc = "delete" => inbounds'[<<j.team, j.mail>>] # "absent",
           \A m \in Mails : sqs[m] # "none" => sqs'[m] # "none",
           \A m \in Mails : sqs'[m] \in {"visible", "inflight"} => Queue(m),
           \A x \in Rows : inbounds[x] # "absent" => inbounds'[x] # "absent",
           \A x \in Rows : inbounds'[x] \in {"expired", "purged"} =>
                               inbounds[x] \in {"expired", "purged"}
    PROVE  JobsInv' /\ ExpiredIsQuiet' /\ job' \in [InboundWorkers -> JobState]
<1>1. job \in [InboundWorkers -> JobState]
  BY DEF InboundInv, InboundTypeOK, RowStates
<1>2. job' \in [InboundWorkers -> JobState]
  BY <1>1
<1>3. \A v \in InboundWorkers : job'[v] = IF v = w THEN j ELSE job[v]
  BY <1>1
<1>4. \A v \in InboundWorkers : v # w =>
        IF job'[v].pc = "idle" THEN job'[v].mail = NoOne
        ELSE /\ job'[v].mail \in Mails /\ sqs'[job'[v].mail] # "none"
             /\ job'[v].pc \in {"lookup", "store", "delete"} => job'[v].team \in InboundTeams
             /\ job'[v].pc = "delete" => inbounds'[<<job'[v].team, job'[v].mail>>] # "absent"
  BY <1>3, RowPairs DEF InboundInv, JobsInv
<1>5. j.pc # "idle" => j.mail \in Mails /\ sqs'[j.mail] # "none"
  BY DEF InboundInv, JobsInv
<1>6. JobsInv'
  BY <1>3, <1>4, <1>5 DEF JobsInv
<1>7. \A v \in InboundWorkers : job'[v].mail = job[v].mail \/ job'[v].mail = NoOne
  BY <1>3
<1>8. ExpiredIsQuiet'
  BY <1>7, RowPairs, NoOneIsNoMail DEF InboundInv, ExpiredIsQuiet, Queue
<1> QED
  BY <1>2, <1>6, <1>8

\* Only the worker moves.
LEMMA OnlyJobMoves ==
    ASSUME InboundInv, JobsInv', ExpiredIsQuiet', job' \in [InboundWorkers -> JobState],
           UNCHANGED <<raw, sqs, receives, route, inbounds, received, purge, goneTeams>>
    PROVE  InboundInv'
BY DEF InboundInv, InboundTypeOK, ArrivalInv, DoneInv, PurgeInv, CascadeInv, OneEventPerMail

\* A worker drops its message: it failed, or it died.
LEMMA JobEndsKeeps ==
    ASSUME InboundInv, NEW w \in InboundWorkers, JobEnds(w),
           UNCHANGED <<raw, sqs, receives, route, inbounds, received, purge, goneTeams>>
    PROVE  InboundInv'
<1>1. IdleJob \in JobState /\ IdleJob.pc = "idle" /\ IdleJob.mail = NoOne
  BY DEF IdleJob, JobState
<1>2. JobsInv' /\ ExpiredIsQuiet' /\ job' \in [InboundWorkers -> JobState]
  BY <1>1, JobMoveKeeps DEF JobEnds, Queue
<1> QED
  BY <1>2, OnlyJobMoves

\* A worker goes to its next place.
LEMMA JobGotoKeeps ==
    ASSUME InboundInv, NEW w \in InboundWorkers, job[w].pc # "idle",
           NEW pc \in {"route", "store", "delete"}, JobGoto(w, pc),
           pc \in {"store", "delete"} => job[w].team \in InboundTeams,
           pc = "delete" => inbounds[<<job[w].team, job[w].mail>>] # "absent",
           UNCHANGED <<raw, sqs, receives, route, inbounds, received, purge, goneTeams>>
    PROVE  InboundInv'
<1> DEFINE j == [job[w] EXCEPT !.pc = pc]
<1>1. job[w] \in JobState
  BY DEF InboundInv, InboundTypeOK, RowStates
<1>2. j \in JobState /\ j.pc = pc /\ j.mail = job[w].mail /\ j.team = job[w].team
  BY <1>1 DEF JobState
<1>3. job' = [job EXCEPT ![w] = j]
  BY DEF JobGoto
<1> HIDE DEF j
<1>4. JobsInv' /\ ExpiredIsQuiet' /\ job' \in [InboundWorkers -> JobState]
  BY <1>2, <1>3, JobMoveKeeps DEF Queue
<1> QED
  BY <1>4, OnlyJobMoves

LEMMA ReceiveMessageKeeps ==
    ASSUME InboundInv, NEW w \in InboundWorkers, NEW m \in Mails, ReceiveMessage(w, m)
    PROVE  InboundInv'
<1>1. job[w].pc = "idle" /\ sqs[m] = "visible" /\ UNCHANGED <<raw, route, inbounds, received, purge, goneTeams>>
  BY DEF ReceiveMessage
<1>2. /\ sqs \in [Mails -> {"none", "visible", "inflight", "dead", "done", "discarded"}]
      /\ receives \in [Mails -> 0..MaxReceives] /\ job \in [InboundWorkers -> JobState]
      /\ inbounds \in [Rows -> {"absent", "present", "expired", "purged", "cascaded"}]
  BY DEF InboundInv, InboundTypeOK, RowStates
<1>3. \A t \in InboundTeams : inbounds[<<t, m>>] \in {"absent", "present", "cascaded"}
  BY <1>1, <1>2, RowPairs DEF InboundInv, ExpiredIsQuiet, Queue
<1>4. CASE receives[m] = MaxReceives
  <2>1. sqs' = [sqs EXCEPT ![m] = "dead"] /\ UNCHANGED <<receives, job>>
    BY <1>4 DEF ReceiveMessage
  <2>2. JobsInv' /\ ExpiredIsQuiet'
    BY <1>1, <1>2, <2>1 DEF InboundInv, JobsInv, ExpiredIsQuiet, Queue
  <2> QED
    BY <1>1, <1>2, <2>1, <2>2, QueueMoveKeeps
<1>5. CASE receives[m] # MaxReceives
  <2> DEFINE j == [pc |-> "fetch", mail |-> m, team |-> NoOne]
  <2>1. /\ sqs' = [sqs EXCEPT ![m] = "inflight"] /\ receives' = [receives EXCEPT ![m] = @ + 1]
        /\ job' = [job EXCEPT ![w] = j]
    BY <1>5 DEF ReceiveMessage
  <2>2. j \in JobState /\ j.pc = "fetch" /\ j.mail = m
    BY DEF JobState
  <2> HIDE DEF j
  <2>3. receives' \in [Mails -> 0..MaxReceives] /\ job' \in [InboundWorkers -> JobState]
    BY <1>2, <1>5, <2>1, <2>2, InboundAssumption
  <2>4. \A v \in InboundWorkers : job'[v] = IF v = w THEN j ELSE job[v]
    BY <1>2, <2>1
  <2>5. \A n \in Mails : sqs'[n] = IF n = m THEN "inflight" ELSE sqs[n]
    BY <1>2, <2>1
  <2>6. JobsInv'
    BY <1>1, <2>2, <2>4, <2>5 DEF InboundInv, JobsInv
  <2>7. ExpiredIsQuiet'
    BY <1>1, <1>3, <2>2, <2>4, <2>5 DEF InboundInv, ExpiredIsQuiet, Queue
  <2> QED
    BY <1>1, <1>3, <2>1, <2>3, <2>6, <2>7, QueueMoveKeeps
<1> QED
  BY <1>4, <1>5

LEMMA FetchKeeps ==
    ASSUME InboundInv, NEW w \in InboundWorkers, Fetch(w)
    PROVE  InboundInv'
<1>1. /\ job[w].pc = "fetch"
      /\ JobGoto(w, "route") \/ JobEnds(w)
      /\ UNCHANGED <<raw, sqs, receives, route, inbounds, received, purge, goneTeams>>
  BY DEF Fetch
<1>2. job[w].pc # "idle"
  BY DEF Fetch
<1> QED
  BY <1>1, <1>2, JobGotoKeeps, JobEndsKeeps

LEMMA TeamForRecipientsKeeps ==
    ASSUME InboundInv, NEW w \in InboundWorkers, TeamForRecipients(w)
    PROVE  InboundInv'
<1>1. /\ job[w].pc = "route"
      /\ UNCHANGED <<raw, sqs, receives, route, inbounds, received, purge, goneTeams>>
  BY DEF TeamForRecipients
<1>2. CASE route = NoOne
  BY <1>1, <1>2, JobEndsKeeps DEF TeamForRecipients, NotRouted
<1>3. CASE route # NoOne
  <2> DEFINE j == [job[w] EXCEPT !.pc = "lookup", !.team = route]
  <2>1. job[w] \in JobState /\ route \in InboundTeams
    BY <1>3 DEF InboundInv, InboundTypeOK, RowStates
  <2>2. j \in JobState /\ j.pc = "lookup" /\ j.mail = job[w].mail /\ j.team = route
    BY <2>1 DEF JobState
  <2>3. job' = [job EXCEPT ![w] = j]
    BY <1>3 DEF TeamForRecipients
  <2> HIDE DEF j
  <2>4. JobsInv' /\ ExpiredIsQuiet' /\ job' \in [InboundWorkers -> JobState]
    BY <1>1, <2>1, <2>2, <2>3, JobMoveKeeps DEF Queue
  <2> QED
    BY <1>1, <2>4, OnlyJobMoves
<1> QED
  BY <1>2, <1>3

LEMMA GetByMessageIDKeeps ==
    ASSUME InboundInv, NEW w \in InboundWorkers, GetByMessageID(w)
    PROVE  InboundInv'
<1>1. /\ job[w].pc = "lookup" /\ job[w].pc # "idle"
      /\ UNCHANGED <<raw, sqs, receives, route, inbounds, received, purge, goneTeams>>
  BY DEF GetByMessageID
<1>2. job[w].team \in InboundTeams
  BY <1>1 DEF InboundInv, JobsInv
<1>3. CASE JobEnds(w)
  BY <1>1, <1>3, JobEndsKeeps
<1>4. CASE HasRow(<<job[w].team, job[w].mail>>) /\ JobGoto(w, "delete")
  BY <1>1, <1>2, <1>4, JobGotoKeeps DEF HasRow
<1>5. CASE JobGoto(w, "store")
  BY <1>1, <1>2, <1>5, JobGotoKeeps
<1> QED
  BY <1>3, <1>4, <1>5 DEF GetByMessageID

\* The row and its event, for a mail that no team's retention has come to.
LEMMA InsertKeeps ==
    ASSUME InboundInv, NEW t \in InboundTeams, NEW m \in Mails,
           inbounds[<<t, m>>] = "absent", sqs[m] # "none",
           CreateInboundWithOutbox(<<t, m>>), JobsInv', ExpiredIsQuiet',
           job' \in [InboundWorkers -> JobState],
           UNCHANGED <<raw, sqs, receives, route, purge, goneTeams>>
    PROVE  InboundInv'
<1> DEFINE x == <<t, m>>
<1>1. x \in Rows /\ inbounds[x] = "absent" /\ received[x] = 0
  BY RowPairs DEF InboundInv, OneEventPerMail
<1>2. /\ inbounds \in [Rows -> {"absent", "present", "expired", "purged", "cascaded"}]
      /\ received \in [Rows -> Nat]
  BY DEF InboundInv, InboundTypeOK, RowStates
<1>3. /\ inbounds' = [inbounds EXCEPT ![x] = "present"]
      /\ received' = [received EXCEPT ![x] = @ + 1]
  BY DEF CreateInboundWithOutbox
<1> HIDE DEF x
<1>4. \A y \in Rows : /\ inbounds'[y] = IF y = x THEN "present" ELSE inbounds[y]
                      /\ received'[y] = IF y = x THEN 1 ELSE received[y]
  BY <1>1, <1>2, <1>3
<1>5. InboundTypeOK'
  BY <1>1, <1>2, <1>3 DEF InboundInv, InboundTypeOK, RowStates
<1>6. ArrivalInv'
  BY <1>4, RowPairs DEF InboundInv, ArrivalInv, x
<1>7. DoneInv' /\ OneEventPerMail'
  BY <1>4, RowPairs DEF InboundInv, DoneInv, OneEventPerMail
<1>8. PurgeInv' /\ CascadeInv'
  BY <1>1, <1>4 DEF InboundInv, PurgeInv, CascadeInv
<1> QED
  BY <1>5, <1>6, <1>7, <1>8 DEF InboundInv

\* A worker drops its message and takes it off the queue.
LEMMA RemoveKeeps ==
    ASSUME InboundInv, NEW w \in InboundWorkers, job[w].pc # "idle", JobEnds(w),
           NEW s \in {"done", "discarded"},
           sqs' = [sqs EXCEPT ![job[w].mail] = IF Queue(job[w].mail) THEN s ELSE @],
           s = "done" => /\ job[w].team \in InboundTeams
                         /\ inbounds[<<job[w].team, job[w].mail>>] # "absent",
           UNCHANGED <<raw, receives, route, inbounds, received, purge, goneTeams>>
    PROVE  InboundInv'
<1> DEFINE m == job[w].mail
<1>1. m \in Mails /\ sqs[m] # "none"
  BY DEF InboundInv, JobsInv
<1>2. /\ sqs \in [Mails -> {"none", "visible", "inflight", "dead", "done", "discarded"}]
      /\ receives' \in [Mails -> 0..MaxReceives]
  BY DEF InboundInv, InboundTypeOK, RowStates
<1>3. sqs' = [sqs EXCEPT ![m] = IF Queue(m) THEN s ELSE sqs[m]]
  OBVIOUS
<1>4. IdleJob \in JobState /\ IdleJob.pc = "idle" /\ IdleJob.mail = NoOne
  BY DEF IdleJob, JobState
<1>5. s = "done" => \E t \in InboundTeams : inbounds[<<t, m>>] # "absent"
  OBVIOUS
<1> HIDE DEF m
<1>6. \A n \in Mails : sqs'[n] = IF n = m /\ Queue(m) THEN s ELSE sqs[n]
  BY <1>1, <1>2, <1>3
<1>7. \A n \in Mails : /\ sqs[n] # "none" => sqs'[n] # "none"
                       /\ sqs'[n] \in {"visible", "inflight"} => Queue(n)
  BY <1>6 DEF Queue
<1>8. JobsInv' /\ ExpiredIsQuiet' /\ job' \in [InboundWorkers -> JobState]
  BY <1>4, <1>7, JobMoveKeeps DEF JobEnds
<1>9. CASE Queue(m)
  <2>1. sqs' = [sqs EXCEPT ![m] = s]
    BY <1>3, <1>9
  <2> QED
    BY <1>1, <1>2, <1>5, <1>8, <2>1, QueueMoveKeeps
<1>10. CASE ~Queue(m)
  <2>1. sqs' = sqs
    BY <1>1, <1>2, <1>3, <1>10
  <2> QED
    BY <1>8, <2>1, OnlyJobMoves
<1> QED
  BY <1>9, <1>10

LEMMA DiscardKeeps ==
    ASSUME InboundInv, NEW w \in InboundWorkers, Discard(w)
    PROVE  InboundInv'
BY RemoveKeeps DEF Discard

LEMMA DeleteMessageKeeps ==
    ASSUME InboundInv, NEW w \in InboundWorkers, DeleteMessage(w)
    PROVE  InboundInv'
<1>1. /\ job[w].pc = "delete" /\ job[w].pc # "idle" /\ JobEnds(w)
      /\ UNCHANGED <<raw, receives, route, inbounds, received, purge, goneTeams>>
  BY DEF DeleteMessage
<1>2. job[w].team \in InboundTeams /\ inbounds[<<job[w].team, job[w].mail>>] # "absent"
  BY <1>1 DEF InboundInv, JobsInv
<1>3. CASE sqs' = sqs
  BY <1>1, <1>3, JobEndsKeeps
<1>4. CASE sqs' = [sqs EXCEPT ![job[w].mail] = IF Queue(job[w].mail) THEN "done" ELSE @]
  BY <1>1, <1>2, <1>4, RemoveKeeps
<1> QED
  BY <1>3, <1>4 DEF DeleteMessage

\* The mail a worker holds is not yet up for retention: the index decides
\* between a row that is there and one that never was.
LEMMA StoreKeeps ==
    ASSUME InboundInv, NEW w \in InboundWorkers, Store(w)
    PROVE  InboundInv'
<1> DEFINE t == job[w].team
           m == job[w].mail
<1>1. /\ job[w].pc = "store" /\ job[w].pc # "idle"
      /\ UNCHANGED <<raw, sqs, receives, route, purge, goneTeams>>
  BY DEF Store
<1>2. t \in InboundTeams /\ m \in Mails /\ sqs[m] # "none"
  BY <1>1 DEF InboundInv, JobsInv
<1>3. inbounds \in [Rows -> {"absent", "present", "expired", "purged", "cascaded"}] /\ job[w] \in JobState
  BY DEF InboundInv, InboundTypeOK, RowStates
<1>4. inbounds[<<t, m>>] \in {"absent", "present", "cascaded"}
  BY <1>2, <1>3, RowPairs DEF InboundInv, ExpiredIsQuiet
<1>5. CASE TeamIsThere(t) /\ MessageIsNew(<<t, m>>) /\ CreateInboundWithOutbox(<<t, m>>) /\ JobGoto(w, "delete")
  <2> DEFINE j == [job[w] EXCEPT !.pc = "delete"]
  <2>1. j \in JobState /\ j.pc = "delete" /\ j.mail = m /\ j.team = t
    BY <1>3 DEF JobState
  <2>2. job' = [job EXCEPT ![w] = j]
    BY <1>5 DEF JobGoto
  <2>3. inbounds[<<t, m>>] = "absent"
    BY <1>2, <1>4, <1>5, RowPairs DEF InboundInv, CascadeInv, TeamIsThere, MessageIsNew, HasRow
  <2>4. \A y \in Rows : inbounds'[y] = IF y = <<t, m>> THEN "present" ELSE inbounds[y]
    BY <1>3, <1>5 DEF CreateInboundWithOutbox
  <2> HIDE DEF j, t, m
  <2>5. inbounds'[<<j.team, j.mail>>] # "absent"
    BY <1>2, <2>1, <2>4, RowPairs
  <2>6. /\ \A y \in Rows : inbounds[y] # "absent" => inbounds'[y] # "absent"
        /\ \A y \in Rows : inbounds'[y] \in {"expired", "purged"} => inbounds[y] \in {"expired", "purged"}
    BY <2>4
  <2>7. /\ \A n \in Mails : sqs[n] # "none" => sqs'[n] # "none"
        /\ \A n \in Mails : sqs'[n] \in {"visible", "inflight"} => Queue(n)
    BY <1>1 DEF Queue
  <2>8. j.mail = job[w].mail
    BY <2>1 DEF m
  <2>9. JobsInv' /\ ExpiredIsQuiet' /\ job' \in [InboundWorkers -> JobState]
    BY <1>1, <1>2, <2>1, <2>2, <2>5, <2>6, <2>7, <2>8, JobMoveKeeps
  <2> QED
    BY <1>1, <1>2, <1>5, <2>3, <2>9, InsertKeeps
<1>6. CASE HasRow(<<t, m>>) /\ JobGoto(w, "delete") /\ UNCHANGED <<inbounds, received>>
  BY <1>1, <1>2, <1>6, JobGotoKeeps DEF HasRow
<1>7. CASE JobEnds(w) /\ UNCHANGED <<inbounds, received>>
  BY <1>1, <1>7, JobEndsKeeps
<1> QED
  BY <1>5, <1>6, <1>7 DEF Store

LEMMA WorkerDiesKeeps ==
    ASSUME InboundInv, NEW w \in InboundWorkers, WorkerDies(w)
    PROVE  InboundInv'
BY JobEndsKeeps DEF WorkerDies

LEMMA HandleSESPayloadKeeps ==
    ASSUME InboundInv, NEW m \in Mails, HandleSESPayload(m)
    PROVE  InboundInv'
<1>1. /\ raw[m] = "inline" /\ route # NoOne /\ MessageIsNew(<<route, m>>)
      /\ \A t \in InboundTeams : inbounds[<<t, m>>] \in {"absent", "present", "cascaded"}
      /\ CreateInboundWithOutbox(<<route, m>>)
      /\ UNCHANGED <<raw, sqs, receives, route, job, purge, goneTeams>>
  BY RecentRows DEF HandleSESPayload
<1>2. /\ route \in InboundTeams /\ job' \in [InboundWorkers -> JobState]
      /\ inbounds \in [Rows -> {"absent", "present", "expired", "purged", "cascaded"}]
  BY <1>1 DEF InboundInv, InboundTypeOK, RowStates
<1>3. sqs[m] # "none" /\ inbounds[<<route, m>>] = "absent"
  BY <1>1, <1>2, RowPairs DEF InboundInv, ArrivalInv, CascadeInv, MessageIsNew, HasRow
<1>4. \A y \in Rows : inbounds'[y] = IF y = <<route, m>> THEN "present" ELSE inbounds[y]
  BY <1>1, <1>2 DEF CreateInboundWithOutbox
<1>5. JobsInv'
  BY <1>1, <1>4, RowPairs DEF InboundInv, JobsInv
<1>6. ExpiredIsQuiet'
  BY <1>1, <1>4, RowPairs DEF InboundInv, ExpiredIsQuiet, Queue
<1> QED
  BY <1>1, <1>2, <1>3, <1>5, <1>6, InsertKeeps

-----------------------------------------------------------------------------
(* Retention.                                                              *)

LEMMA ListExpiredKeeps ==
    ASSUME InboundInv, NEW x \in Rows, ListExpired(x)
    PROVE  InboundInv'
<1> DEFINE p == [pc |-> IF raw[x[2]] = "inline" THEN "row" ELSE "object", row |-> x]
<1>1. /\ inbounds[x] = "expired" /\ purge' = p
      /\ UNCHANGED <<raw, sqs, receives, route, inbounds, received, job, goneTeams>>
  BY DEF ListExpired
<1>2. /\ p \in [pc : {"object", "row"}, row : Rows] /\ p.row = x
      /\ p.pc = "row" => raw[x[2]] = "inline"
  OBVIOUS
<1> HIDE DEF p
<1>3. PurgeInv' /\ CascadeInv'
  BY <1>1, <1>2 DEF InboundInv, PurgeInv, CascadeInv
<1>4. InboundTypeOK'
  BY <1>1, <1>2 DEF InboundInv, InboundTypeOK, RowStates
<1> QED
  BY <1>1, <1>3, <1>4 DEF InboundInv, ArrivalInv, DoneInv, JobsInv, ExpiredIsQuiet, Queue, OneEventPerMail

LEMMA DeleteInboundObjectKeeps ==
    ASSUME InboundInv, DeleteInboundObject
    PROVE  InboundInv'
<1>1. purge.pc = "object" /\ UNCHANGED <<sqs, receives, route, inbounds, received, job, goneTeams>>
  BY DEF DeleteInboundObject
<1>2. /\ raw \in [Mails -> {"none", "object", "inline", "deleted"}]
      /\ purge \in [pc : {"object", "row"}, row : Rows]
      /\ inbounds[purge.row] \in {"expired", "purged", "cascaded"}
  BY <1>1 DEF InboundInv, InboundTypeOK, RowStates, IdlePurge, PurgeInv
<1>3. CASE raw' = [raw EXCEPT ![purge.row[2]] = "deleted"] /\ purge' = [purge EXCEPT !.pc = "row"]
  <2>1. /\ purge.row \in Rows /\ purge.row[2] \in Mails /\ purge.row[1] \in InboundTeams
        /\ purge.row = <<purge.row[1], purge.row[2]>>
    BY <1>2, RowPairs
  <2>2. /\ purge' \in [pc : {"object", "row"}, row : Rows] /\ purge'.row = purge.row
        /\ raw' \in [Mails -> {"none", "object", "inline", "deleted"}]
    BY <1>2, <1>3
  <2>3. \A m \in Mails : raw'[m] = IF m = purge.row[2] THEN "deleted" ELSE raw[m]
    BY <1>2, <1>3
  <2>4. raw[purge.row[2]] # "none"
    BY <1>2, <2>1 DEF InboundInv, ArrivalInv
  <2>5. InboundTypeOK'
    BY <1>1, <2>2 DEF InboundInv, InboundTypeOK, RowStates
  <2>6. ArrivalInv'
    BY <1>1, <2>1, <2>3, <2>4 DEF InboundInv, ArrivalInv
  <2>7. PurgeInv' /\ CascadeInv'
    BY <1>1, <1>2, <2>1, <2>2, <2>3, RowPairs DEF InboundInv, PurgeInv, CascadeInv
  <2> QED
    BY <1>1, <2>5, <2>6, <2>7 DEF InboundInv, DoneInv, JobsInv, ExpiredIsQuiet, Queue, OneEventPerMail
<1>4. CASE UNCHANGED raw /\ ObjectStays
  <2>1. purge' = IdlePurge /\ IdlePurge.pc = "idle"
    BY <1>4 DEF ObjectStays, IdlePurge
  <2> QED
    BY <1>1, <1>4, <2>1 DEF InboundInv, InboundTypeOK, ArrivalInv, DoneInv, JobsInv, ExpiredIsQuiet, Queue,
                            PurgeInv, CascadeInv, OneEventPerMail
<1> QED
  BY <1>3, <1>4 DEF DeleteInboundObject

LEMMA DeleteExpiredKeeps ==
    ASSUME InboundInv, DeleteExpired
    PROVE  InboundInv'
<1>1. /\ purge.pc = "row" /\ purge' = IdlePurge /\ IdlePurge.pc = "idle"
      /\ UNCHANGED <<raw, sqs, receives, route, received, job, goneTeams>>
  BY DEF DeleteExpired, IdlePurge
<1>2. /\ inbounds \in [Rows -> {"absent", "present", "expired", "purged", "cascaded"}]
      /\ purge.row \in Rows /\ inbounds[purge.row] \in {"expired", "purged", "cascaded"}
      /\ raw[purge.row[2]] # "object"
  BY <1>1 DEF InboundInv, InboundTypeOK, RowStates, PurgeInv
<1>3. /\ inbounds' \in [Rows -> {"absent", "present", "expired", "purged", "cascaded"}]
      /\ \A x \in Rows : inbounds'[x] = inbounds[x] \/ (x = purge.row /\ inbounds'[x] = "purged")
  BY <1>2 DEF DeleteExpired
<1>4. inbounds' = inbounds \/ inbounds[purge.row] = "expired"
  BY <1>2 DEF DeleteExpired, HasRow
<1>5. \A x \in Rows : /\ inbounds'[x] = "absent" <=> inbounds[x] = "absent"
                      /\ inbounds'[x] \in {"expired", "purged"} => inbounds[x] \in {"expired", "purged"}
                      /\ inbounds'[x] = "purged" => raw[x[2]] # "object"
                      /\ inbounds'[x] = "cascaded" => inbounds[x] = "cascaded"
  BY <1>2, <1>3, <1>4 DEF InboundInv, PurgeInv
<1>6. InboundTypeOK'
  BY <1>1, <1>3 DEF InboundInv, InboundTypeOK, RowStates
<1>7. ArrivalInv' /\ DoneInv'
  <2>1. \A t \in InboundTeams, m \in Mails : inbounds'[<<t, m>>] = "absent" <=> inbounds[<<t, m>>] = "absent"
    BY <1>5, RowPairs
  <2> QED
    BY <1>1, <2>1 DEF InboundInv, ArrivalInv, DoneInv
<1>8. OneEventPerMail'
  BY <1>1, <1>5 DEF InboundInv, OneEventPerMail
<1>9. JobsInv'
  BY <1>1, <1>5, RowPairs DEF InboundInv, JobsInv
<1>10. ExpiredIsQuiet'
  BY <1>1, <1>5, RowPairs DEF InboundInv, ExpiredIsQuiet, Queue
<1>11. PurgeInv' /\ CascadeInv'
  BY <1>1, <1>5 DEF InboundInv, PurgeInv, CascadeInv
<1> QED
  BY <1>6, <1>7, <1>8, <1>9, <1>10, <1>11 DEF InboundInv

\* A team goes: what changes is the status of rows that were there, which no part
\* of the invariant asks to stay, and the route.
LEMMA DeleteTeamInboundKeeps ==
    ASSUME InboundInv, NEW t \in InboundTeams, DeleteTeamInbound(t)
    PROVE  InboundInv'
<1>1. /\ goneTeams' = goneTeams \cup {t}
      /\ inbounds' = [x \in Rows |-> IF x[1] = t /\ HasRow(x) THEN "cascaded" ELSE inbounds[x]]
      /\ route' = IF route = t THEN NoOne ELSE route
      /\ UNCHANGED <<raw, sqs, receives, received, job, purge>>
  BY DEF DeleteTeamInbound
<1>2. inbounds \in [Rows -> {"absent", "present", "expired", "purged", "cascaded"}]
  BY DEF InboundInv, InboundTypeOK, RowStates
<1>3. \A x \in Rows :
        /\ inbounds'[x] = "absent" <=> inbounds[x] = "absent"
        /\ inbounds'[x] = inbounds[x] \/ (inbounds'[x] = "cascaded" /\ x[1] = t)
  BY <1>1, <1>2 DEF HasRow
<1>4. inbounds' \in [Rows -> {"absent", "present", "expired", "purged", "cascaded"}]
  BY <1>1, <1>2
<1>5. InboundTypeOK'
  BY <1>1, <1>4 DEF InboundInv, InboundTypeOK, RowStates
<1>6. ArrivalInv' /\ DoneInv'
  BY <1>1, <1>3, RowPairs DEF InboundInv, ArrivalInv, DoneInv
<1>7. OneEventPerMail'
  BY <1>1, <1>3 DEF InboundInv, OneEventPerMail
<1>8. JobsInv'
  BY <1>1, <1>3, RowPairs DEF InboundInv, JobsInv
<1>9. ExpiredIsQuiet'
  BY <1>1, <1>3, RowPairs DEF InboundInv, ExpiredIsQuiet, Queue
<1>10. PurgeInv'
  BY <1>1, <1>3 DEF InboundInv, PurgeInv
<1>11. CascadeInv'
  BY <1>1, <1>3, NoOneIsNoMail DEF InboundInv, InboundTypeOK, CascadeInv
<1> QED
  BY <1>5, <1>6, <1>7, <1>8, <1>9, <1>10, <1>11 DEF InboundInv

-----------------------------------------------------------------------------
LEMMA InboundNextKeeps ==
    ASSUME InboundInv, [InboundNext]_inboundVars
    PROVE  InboundInv'
<1>1. CASE UNCHANGED inboundVars
  BY <1>1 DEF inboundVars, InboundInv, InboundTypeOK, ArrivalInv, DoneInv, JobsInv, ExpiredIsQuiet, Queue,
              PurgeInv, CascadeInv, OneEventPerMail
<1>2. CASE InboundNext
  BY <1>2, ArriveKeeps, RedeliverKeeps, VisibilityEndsKeeps, HandleSESPayloadKeeps, ExpireKeeps,
     ReceiveMessageKeeps, RouteChangesKeeps, FetchKeeps, DiscardKeeps, TeamForRecipientsKeeps,
     GetByMessageIDKeeps, StoreKeeps, DeleteMessageKeeps, WorkerDiesKeeps, ListExpiredKeeps,
     DeleteInboundObjectKeeps, DeleteExpiredKeeps, DeleteTeamInboundKeeps
  DEF InboundNext
<1> QED
  BY <1>1, <1>2

\* The strengthened invariant holds in every reachable state.
THEOREM InboundInvariance == InboundSpec => []InboundInv
<1>1. InboundInit => InboundInv
  BY InboundInitInv
<1>2. InboundInv /\ [InboundNext]_inboundVars => InboundInv'
  BY InboundNextKeeps
<1> QED
  BY <1>1, <1>2, PTL DEF InboundSpec

\* NoMailIsLost: a message that left its queue for good left a row behind it, or
\* was refused as not genuine.
THEOREM MailIsKept == InboundSpec => []NoMailIsLost
<1>1. InboundInv => NoMailIsLost
  <2> SUFFICES ASSUME InboundInv, NEW m \in Mails, raw[m] # "none", ~Tracked(m)
               PROVE  \E t \in InboundTeams : inbounds[<<t, m>>] # "absent"
    BY DEF NoMailIsLost
  <2>1. sqs[m] = "done"
    BY DEF InboundInv, InboundTypeOK, RowStates, ArrivalInv, Tracked
  <2> QED
    BY <2>1 DEF InboundInv, DoneInv
<1> QED
  BY <1>1, InboundInvariance, PTL

\* OneEventPerMail: the row of a team and a message is inserted once, with its
\* event, however often and by however many workers the message is handled.
THEOREM MailIsStoredOnce == InboundSpec => []OneEventPerMail
<1>1. InboundInv => OneEventPerMail
  BY DEF InboundInv
<1> QED
  BY <1>1, InboundInvariance, PTL

\* RetentionLeavesNoObject: retention removes a row only when its object is gone, so
\* an object without message or row was left by the deletion of a team.
THEOREM RetentionIsThorough == InboundSpec => []RetentionLeavesNoObject
<1>1. InboundInv => RetentionLeavesNoObject
  <2> SUFFICES ASSUME InboundInv, NEW m \in Mails, raw[m] = "object"
               PROVE  /\ \A t \in InboundTeams : inbounds[<<t, m>>] # "purged"
                      /\ \/ Tracked(m)
                         \/ \E t \in InboundTeams : HasRow(<<t, m>>) \/ inbounds[<<t, m>>] = "cascaded"
    BY DEF RetentionLeavesNoObject
  <2>1. \A t \in InboundTeams : inbounds[<<t, m>>] # "purged"
    BY RowPairs DEF InboundInv, PurgeInv
  <2>2. CASE ~Tracked(m)
    <3>1. sqs[m] = "done"
      BY <2>2 DEF InboundInv, InboundTypeOK, ArrivalInv, Tracked
    <3>2. PICK t \in InboundTeams : inbounds[<<t, m>>] # "absent"
      BY <3>1 DEF InboundInv, DoneInv
    <3>3. inbounds[<<t, m>>] \in {"present", "expired", "cascaded"}
      BY <2>1, <3>2, RowPairs DEF InboundInv, InboundTypeOK, RowStates
    <3> QED
      BY <2>1, <3>3 DEF HasRow
  <2> QED
    BY <2>1, <2>2
<1> QED
  BY <1>1, InboundInvariance, PTL
=============================================================================
