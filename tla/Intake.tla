------------------------------- MODULE Intake -------------------------------
(***************************************************************************)
(* How an email enters (email_handler.go, EmailService.send and BatchSend, *)
(* queue/usage.go, batch_repo.go, EmailRepo.Create): idempotency keys,     *)
(* batch manifests and the daily quota of one team, with several requests  *)
(* under way, midnight, and requests that die.  What validation, the       *)
(* domain and the suppression check refuse changes nothing (Refuse).  A    *)
(* body is known by its number of recipients, which is also its hash.  The *)
(* deletion of the team takes its emails and batches along (ON DELETE      *)
(* CASCADE); requests that passed the middleware before it go on.          *)
(***************************************************************************)
EXTENDS Integers, Sequences, FiniteSets, FiniteSetsExt

CONSTANTS
    SingleKeys,     \* idempotency keys of POST /emails; one may be the key of a batch item
    BatchKeys,      \* idempotency keys of POST /emails/batch, a name space of their own
    NoKey,          \* no key was given
    Bodies,         \* requests: naturals
    BatchSize,      \* items of a batch
    DailyLimits,    \* recipient limits that a plan may bring
    IntakeSlots,    \* requests under way
    MaxEmails       \* bound: rows

ASSUME IntakeAssumption ==
    /\ Bodies \subseteq Nat \ {0} /\ DailyLimits \subseteq Nat \ {0}
    /\ \E most \in DailyLimits : \A lim \in DailyLimits : lim <= most
    /\ BatchSize \in Nat \ {0} /\ MaxEmails \in Nat
    /\ SingleKeys \cap BatchKeys = {}
    /\ NoKey \notin SingleKeys \cup BatchKeys \cup (BatchKeys \X (1..BatchSize))

VARIABLES
    intakeTeam,     \* the row of teams
    emails,         \* rows in the order of their insertion; the ID is the position.  The
                    \* rows of a deleted team stay here as history: no statement finds them
    manifests,      \* email_batches: key -> the items of the first request, or none; likewise
    used,           \* today's counter in Redis; yesterday's has expired
    accepted,       \* recipients of the emails queued on a reservation of today: history
    leaked,         \* today's reservations that nobody will give back: history
    replies,        \* successful answers to requests with a key, and the key of the request
    slot            \* request -> where it is

intakeVars == <<intakeTeam, emails, manifests, used, accepted, leaked, replies, slot>>

Lists == [1..BatchSize -> Bodies]

\* batchItemIdempotencyKey
ItemKey(k, n) == IF k \in BatchKeys THEN <<k, n>> ELSE k

AllKeys == SingleKeys \cup {NoKey} \cup (BatchKeys \X (1..BatchSize))

\* What becomes of the row's status is SendAttempt's to say.
EmailRow == [key : AllKeys, body : Bodies]

\* All the code does with a day is compare it with another one.
Days == {"none", "today", "past"}

IdleSlot == [pc |-> "idle"]

\* n: the item; day: reservationAt; charged: the day whose counter holds the
\* reservation; id: the row to answer with, 0 if the answer is an error.
SlotState == {IdleSlot} \cup
    [pc : {"ensure", "lookup", "limit", "reserve", "create", "push", "release"},
     key : SingleKeys \cup BatchKeys \cup {NoKey}, items : Lists \cup [1..1 -> Bodies],
     n : 1..BatchSize, day : Days, lim : DailyLimits \cup {0}, charged : Days,
     id : 0..MaxEmails]

IntakeTypeOK ==
    /\ intakeTeam \in {"present", "deleted"}
    /\ emails \in Seq(EmailRow) /\ Len(emails) <= MaxEmails
    /\ manifests \in [BatchKeys -> Lists \cup {<<>>}]
    /\ used \in 0..Max(DailyLimits)
    /\ accepted \in Nat /\ leaked \in Nat
    /\ replies \in SUBSET [key : AllKeys, body : Bodies, id : 1..MaxEmails, of : SingleKeys \cup BatchKeys]
    /\ slot \in [IntakeSlots -> SlotState]

IntakeInit ==
    /\ intakeTeam = "present"
    /\ emails = <<>>
    /\ manifests = [k \in BatchKeys |-> <<>>]
    /\ used = 0 /\ accepted = 0 /\ leaked = 0
    /\ replies = {}
    /\ slot = [r \in IntakeSlots |-> IdleSlot]

-----------------------------------------------------------------------------
Body(r) == slot[r].items[slot[r].n]

Key(r) == ItemKey(slot[r].key, slot[r].n)

\* GetByIdempotencyKey
Existing(k) == {i \in 1..Len(emails) : intakeTeam = "present" /\ emails[i].key = k}

\* IdempotencyHash against requestHash, at the lookup and after a failed insert.
SameRequest(i, b) == emails[i].body = b

\* Mutant: another payload under the same key passes.
Ensure_Any(k, items) == TRUE

\* The upsert of email_batches.
Ensure(k, items) == manifests[k] \in {<<>>, items}

\* Mutant: the limit is compared before the units are added.
Fits_Before(r) == used < slot[r].lim

\* The script of Reserve, on the key of the day it runs in.
Fits(r) == used + Body(r) <= slot[r].lim

\* Mutant: the day it is now.
ReleaseDay_Now(r) == "today"

\* The day the caller noted before Reserve.
ReleaseDay(r) == slot[r].day

\* Release: a key that has expired is left alone.
Released(r) ==
    IF ReleaseDay(r) = "today" THEN Max({0, used - Body(r)}) ELSE used

\* Units that stay charged if r ends now without giving them back.
Held(r) == IF slot[r].pc # "idle" /\ slot[r].charged = "today" THEN Body(r) ELSE 0

\* The units under way, one by one.
UnitsHeld == UNION {{r} \X (1..Held(r)) : r \in IntakeSlots}

-----------------------------------------------------------------------------
(* The answer to an item.  A batch stops at the first error.               *)

EndSlot(r) == slot' = [slot EXCEPT ![r] = IdleSlot]

Answer(r, id) ==
    /\ replies' = IF id = 0 \/ Key(r) = NoKey THEN replies
                  ELSE replies \cup {[key |-> Key(r), body |-> Body(r), id |-> id, of |-> slot[r].key]}
    /\ IF id # 0 /\ slot[r].n < Len(slot[r].items)
       THEN slot' = [slot EXCEPT ![r].pc = "lookup", ![r].n = @ + 1, ![r].day = "none",
                                 ![r].charged = "none", ![r].id = 0]
       ELSE EndSlot(r)

\* The middleware finds the API key of a team that is there.
Send(r, k, items) ==
    /\ slot[r].pc = "idle" /\ intakeTeam = "present"
    /\ slot' = [slot EXCEPT ![r] =
          [pc |-> IF k \in BatchKeys THEN "ensure" ELSE "lookup", key |-> k, items |-> items, n |-> 1,
           day |-> "none", lim |-> 0, charged |-> "none", id |-> 0]]
    /\ UNCHANGED <<intakeTeam, emails, manifests, used, accepted, leaked, replies>>

BatchSend(r) ==
    /\ slot[r].pc = "ensure"
    /\ LET k == slot[r].key IN
       IF intakeTeam = "present" /\ Ensure(k, slot[r].items)
       THEN /\ manifests' = [manifests EXCEPT ![k] = IF @ = <<>> THEN slot[r].items ELSE @]
            /\ slot' = [slot EXCEPT ![r].pc = "lookup"]
       ELSE UNCHANGED manifests /\ EndSlot(r)
    /\ UNCHANGED <<intakeTeam, emails, used, accepted, leaked, replies>>

\* Without a key there is nothing to look up.
Lookup(r) ==
    /\ slot[r].pc = "lookup"
    /\ IF Key(r) # NoKey /\ Existing(Key(r)) # {}
       THEN LET i == Min(Existing(Key(r))) IN Answer(r, IF SameRequest(i, Body(r)) THEN i ELSE 0)
       ELSE slot' = [slot EXCEPT ![r].pc = "limit"] /\ UNCHANGED replies
    /\ UNCHANGED <<intakeTeam, emails, manifests, used, accepted, leaked>>

\* Invalid, a domain that is not verified, a recipient that must not be mailed, or
\* recipientLimit does not find the team.
Refuse(r) ==
    /\ slot[r].pc \in {"lookup", "limit"}
    /\ Answer(r, 0)
    /\ UNCHANGED <<intakeTeam, emails, manifests, used, accepted, leaked>>

\* reservationAt, then recipientLimit: the plan may have changed at any time.
RecipientLimit(r) ==
    /\ slot[r].pc = "limit" /\ intakeTeam = "present"
    /\ \E lim \in DailyLimits :
          slot' = [slot EXCEPT ![r].pc = "reserve", ![r].day = "today", ![r].lim = lim]
    /\ UNCHANGED <<intakeTeam, emails, manifests, used, accepted, leaked, replies>>

\* If the reply is lost the caller does not know that it holds a reservation.
Reserve(r) ==
    /\ slot[r].pc = "reserve"
    /\ \/ /\ Fits(r)
          /\ used' = used + Body(r)
          /\ slot' = [slot EXCEPT ![r].pc = "create", ![r].lim = 0, ![r].charged = "today"]
          /\ UNCHANGED <<replies, leaked>>
       \/ /\ Fits(r)
          /\ used' = used + Body(r) /\ leaked' = leaked + Body(r)
          /\ Answer(r, 0)
       \/ Answer(r, 0) /\ UNCHANGED <<used, leaked>>          \* over the limit, or Redis is away
    /\ UNCHANGED <<intakeTeam, emails, manifests, accepted>>

\* Mutant: keys are not unique.
KeyIsFree_Any(k) == TRUE

\* ux_emails_team_idempotency_key
KeyIsFree(k) == k = NoKey \/ Existing(k) = {}

\* The foreign key of emails.team_id asks for the team's row too.
CanInsert(r) == intakeTeam = "present" /\ KeyIsFree(Key(r)) /\ Len(emails) < MaxEmails

\* What the lookup after a failed insert answers with.
RowOfKey(r) == {i \in Existing(Key(r)) : Key(r) # NoKey /\ SameRequest(i, Body(r))}

\* The loser of two requests with one key answers with the winner's row.  If only
\* the reply of its insert is lost, the row that the lookup finds is its own: the
\* caller is told that the email is there, and nobody pushes it.
Create(r) ==
    /\ slot[r].pc = "create"
    /\ \/ /\ CanInsert(r)
          /\ emails' = Append(emails, [key |-> Key(r), body |-> Body(r)])
          /\ \/ slot' = [slot EXCEPT ![r].pc = "push", ![r].id = Len(emails) + 1]
             \/ \E id \in {0, IF Key(r) = NoKey THEN 0 ELSE Len(emails) + 1} :
                   slot' = [slot EXCEPT ![r].pc = "release", ![r].id = id]
       \/ /\ \E id \in {0} \cup RowOfKey(r) : slot' = [slot EXCEPT ![r].pc = "release", ![r].id = id]
          /\ UNCHANGED emails
    /\ UNCHANGED <<intakeTeam, manifests, used, accepted, leaked, replies>>

\* Enqueue or Schedule; if it fails the row is failed, if it is still there and the
\* write does not fail too (SendAttempt!ApiQueueFailed, ApiReturn), and the quota is
\* given back.
Push(r) ==
    /\ slot[r].pc = "push"
    /\ \/ /\ accepted' = accepted + Held(r)
          /\ Answer(r, slot[r].id)
       \/ /\ slot' = [slot EXCEPT ![r].pc = "release", ![r].id = 0]
          /\ UNCHANGED <<accepted, replies>>
    /\ UNCHANGED <<intakeTeam, emails, manifests, used, leaked>>

\* The deferred Release, or its failure, which is logged.
Release(r) ==
    /\ slot[r].pc = "release"
    /\ \/ used' = Released(r) /\ leaked' = leaked + IF slot[r].day = "today" THEN 0 ELSE Held(r)
       \/ used' = used /\ leaked' = leaked + Held(r)
    /\ Answer(r, slot[r].id)
    /\ UNCHANGED <<intakeTeam, emails, manifests, accepted>>

\* The process dies; the client may try again.
RequestDies(r) ==
    /\ slot[r].pc # "idle"
    /\ leaked' = leaked + Held(r)
    /\ EndSlot(r)
    /\ UNCHANGED <<intakeTeam, emails, manifests, used, accepted, replies>>

PastDay(d) == IF d = "today" THEN "past" ELSE d

\* The counter expires with its day.
Midnight ==
    /\ used' = 0 /\ accepted' = 0 /\ leaked' = 0
    /\ slot' = [r \in IntakeSlots |->
          IF slot[r].pc = "idle" THEN slot[r]
          ELSE [slot[r] EXCEPT !.day = PastDay(@), !.charged = PastDay(@)]]
    /\ UNCHANGED <<intakeTeam, emails, manifests, replies>>

\* TeamRepo.Delete takes emails and email_batches along; the counter in Redis stays.
DeleteTeamEmails ==
    /\ intakeTeam = "present"
    /\ intakeTeam' = "deleted"
    /\ UNCHANGED <<emails, manifests, used, accepted, leaked, replies, slot>>

IntakeNext ==
    \/ \E r \in IntakeSlots :
          \/ \E k \in SingleKeys \cup {NoKey}, b \in Bodies : Send(r, k, <<b>>)
          \/ \E k \in BatchKeys, items \in Lists : Send(r, k, items)
          \/ BatchSend(r) \/ Lookup(r) \/ Refuse(r) \/ RecipientLimit(r) \/ Reserve(r)
          \/ Create(r) \/ Push(r) \/ Release(r) \/ RequestDies(r)
    \/ Midnight \/ DeleteTeamEmails

IntakeSpec == IntakeInit /\ [][IntakeNext]_intakeVars

-----------------------------------------------------------------------------
(* Whoever was answered successfully for a key was answered with one and   *)
(* the same email, which is the one they asked for, although requests with *)
(* the key overlap, fail, die and are sent again.                          *)
KeysAreExact ==
    \A x, y \in replies : x.key = y.key =>
        x.id = y.id /\ x.body = y.body /\ emails[x.id].body = x.body

\* Every answered item of a batch is the item of the manifest: a batch key never
\* mixes two payloads, however often and by whom it is tried.
BatchesAreWhole ==
    \A x \in replies, n \in 1..BatchSize :
        x.of \in BatchKeys /\ x.key = ItemKey(x.of, n) =>
            manifests[x.of] # <<>> /\ manifests[x.of][n] = x.body

\* Today's counter is what is queued on it, what is under way and what has leaked
\* (a reply lost, a request that died, a Release that failed or that named
\* yesterday): it never gives back what it did not take, so no day exceeds the
\* largest limit that was in force.
QuotaIsExact ==
    /\ used = accepted + leaked + Cardinality(UnitsHeld)
    /\ accepted <= Max(DailyLimits)
=============================================================================
