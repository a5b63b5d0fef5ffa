------------------------- MODULE DeliveryQueueProofs -------------------------
(***************************************************************************)
(* The composed system implements the send-attempt protocol, for any sets  *)
(* of emails, workers, attempts and receipt tokens, any limits and any     *)
(* faults: every action of DeliveryQueue either leaves the variables of    *)
(* SendAttempt alone or is one of its actions.  What SendAttemptProofs     *)
(* proves is then true with the queue in place.  Without the faults, no    *)
(* queued email is forgotten.                                              *)
(***************************************************************************)
EXTENDS DeliveryQueue, SendAttemptProofs, FiniteSetTheorems, SequenceTheorems, WellFoundedInduction

-----------------------------------------------------------------------------
(* The types of the queue's variables.                                     *)

\* The receipt a worker drops, or is given, keeps the workers' receipts typed
\* and each busy worker on the email of its receipt.
LEMMA DropType ==
    ASSUME TypeOK, QueueTypeOK, NEW w \in Workers, Drop(w),
           pc' = [pc EXCEPT ![w] = "idle"], job' = [job EXCEPT ![w] = NULL]
    PROVE  /\ receipt' \in [Workers -> Receipt \cup {NULL}]
           /\ \A v \in Workers : pc'[v] # "idle" => receipt'[v] # NULL /\ receipt'[v].email = job'[v]
BY DEF TypeOK, QueueTypeOK, Drop

\* Steps that move a busy worker on and leave its receipt alone.
LEMMA MoveType ==
    ASSUME TypeOK, QueueTypeOK, NEW w \in Workers, NEW l, pc[w] # "idle",
           pc' = [pc EXCEPT ![w] = l], UNCHANGED <<job, receipt>>
    PROVE  \A v \in Workers : pc'[v] # "idle" => receipt'[v] # NULL /\ receipt'[v].email = job'[v]
BY DEF TypeOK, QueueTypeOK

\* LTRIM keeps the dead list within its cap.
LEMMA PushDeadType ==
    ASSUME QueueTypeOK, NEW e \in Emails, PushDead(e)
    PROVE  dead' \in Seq(Emails) /\ Len(dead') <= DeadCap
<1> DEFINE n == IF Len(dead) < DeadCap THEN Len(dead) + 1 ELSE DeadCap
<1>1. dead \in Seq(Emails) /\ Len(dead) <= DeadCap /\ DeadCap \in Nat \ {0} /\ Len(dead) \in Nat
  BY QueueAssumption DEF QueueTypeOK
<1>2. <<e>> \o dead \in Seq(Emails) /\ Len(<<e>> \o dead) = Len(dead) + 1
  BY <1>1
<1>3. n \in Nat /\ n <= DeadCap /\ n <= Len(dead) + 1
  BY <1>1
<1>4. dead' = SubSeq(<<e>> \o dead, 1, n)
  BY DEF PushDead
<1> HIDE DEF n
<1> QED
  BY <1>1, <1>2, <1>3, <1>4

\* Every step of a worker keeps the types.
LEMMA QueueWorkerStepType ==
    ASSUME TypeOK, QueueTypeOK, NEW w \in Workers, QueueWorkerStep(w)
    PROVE  QueueTypeOK'
<1> USE DEF Receipt
<1>1. CASE Dequeue(w)
  <2>1. Head(pending) \in Emails /\ Tail(pending) \in Seq(Emails)
    BY <1>1 DEF Dequeue, QueueTypeOK
  <2>2. PICK t \in Tokens :
          /\ processing' = processing \cup {[token |-> t, email |-> Head(pending)]}
          /\ \/ receipt' = [receipt EXCEPT ![w] = [token |-> t, email |-> Head(pending)]]
             \/ UNCHANGED receipt
    BY <1>1 DEF Dequeue
  <2>3. processing' \in SUBSET Receipt /\ receipt' \in [Workers -> Receipt \cup {NULL}] /\ expired' \in SUBSET processing'
    <3>1. [token |-> t, email |-> Head(pending)] \in Receipt
      BY <2>1
    <3>2. UNCHANGED expired
      BY <1>1 DEF Dequeue
    <3>3. /\ processing \in SUBSET Receipt /\ expired \in SUBSET processing
          /\ receipt \in [Workers -> Receipt \cup {NULL}]
      BY DEF QueueTypeOK
    <3> HIDE DEF Receipt
    <3> QED
      BY <2>2, <3>1, <3>2, <3>3
  <2>4. \A v \in Workers : pc'[v] # "idle" => receipt'[v] # NULL /\ receipt'[v].email = job'[v]
    BY <1>1, <2>2 DEF Dequeue, QueueTypeOK, vars, Idle
  <2> QED
    BY <1>1, <2>1, <2>3, <2>4 DEF Dequeue, QueueTypeOK, ticks
<1>2. CASE QRead(w)
  <2>1. \A v \in Workers : pc'[v] # "idle" => receipt'[v] # NULL /\ receipt'[v].email = job'[v]
    <3>1. pc[w] = "idle" /\ receipt[w] # NULL /\ job' = [job EXCEPT ![w] = receipt[w].email]
      BY <1>2 DEF QRead, Read
    <3>2. PICK l : pc' = [pc EXCEPT ![w] = l]
      BY <1>2 DEF QRead, Read, Goto
    <3> QED
      BY <1>2, <3>1, <3>2 DEF QRead, queue, QueueTypeOK, TypeOK
  <2> QED
    BY <1>2, <2>1 DEF QRead, queue, redis, ticks, QueueTypeOK
<1>3. CASE QProcess(w)
  <2>1. UNCHANGED queue /\ UNCHANGED job /\ pc[w] # "idle"
    BY <1>3 DEF QProcess, Claim, CheckRecipientSuppression, MarkStarted, Send, PersistAccepted,
       PersistUnknown, PersistRetryable, PersistFailed
  <2>2. PICK l : pc' = [pc EXCEPT ![w] = l]
    BY <1>3 DEF QProcess, Claim, CheckRecipientSuppression, MarkStarted, Send, PersistAccepted,
       PersistUnknown, PersistRetryable, PersistFailed, Goto
  <2>3. \A v \in Workers : pc'[v] # "idle" => receipt'[v] # NULL /\ receipt'[v].email = job'[v]
    BY <2>1, <2>2, MoveType DEF queue
  <2> QED
    BY <2>1, <2>3 DEF queue, redis, ticks, QueueTypeOK
<1>4. CASE SettleFails(w) \/ Ack(w) \/ Requeue(w) \/ Reschedule(w)
  <2>1. Settle(w) /\ Drop(w)
    BY <1>4 DEF SettleFails, Ack, Requeue, Reschedule
  <2>2. /\ receipt' \in [Workers -> Receipt \cup {NULL}]
        /\ \A v \in Workers : pc'[v] # "idle" => receipt'[v] # NULL /\ receipt'[v].email = job'[v]
    BY <2>1, DropType DEF Settle, Rest, Goto
  <2>3. job[w] \in Emails
    BY <2>1 DEF Settle, TypeOK
  <2>4. /\ processing' \in SUBSET Receipt /\ expired' \in SUBSET processing'
        /\ scheduled' \in SUBSET Emails
    BY <1>4, <2>3 DEF SettleFails, Ack, Requeue, Reschedule, RemoveReceipt, QueueTypeOK, redis
  <2>5. tries' \in [Emails -> 0 .. MaxEmailAttempts]
    <3>1. CASE Requeue(w)
      BY <3>1, <2>3, QueueAssumption DEF Requeue, QueueTypeOK
    <3> QED
      BY <1>4, <3>1 DEF SettleFails, Ack, Reschedule, QueueTypeOK, redis
  <2>6. UNCHANGED <<pending, dead, toEnqueue, toMark, pushed, moved>>
    BY <1>4 DEF SettleFails, Ack, Requeue, Reschedule, redis, ticks
  <2> QED
    BY <2>2, <2>4, <2>5, <2>6 DEF QueueTypeOK
<1>5. CASE RequeueDead(w)
  <2>1. pc[w] = "requeue" /\ job[w] \in Emails
    BY <1>5 DEF RequeueDead, TypeOK
  <2>2. /\ receipt' \in [Workers -> Receipt \cup {NULL}]
        /\ \A v \in Workers : pc'[v] # "idle" => receipt'[v] # NULL /\ receipt'[v].email = job'[v]
    <3>1. CASE DeadLetter(w) /\ UNCHANGED receipt
      BY <3>1, <2>1, MoveType DEF DeadLetter, Goto, QueueTypeOK
    <3>2. CASE Settle(w) /\ Drop(w)
      BY <3>2, DropType DEF Settle, Rest, Goto
    <3> QED
      BY <1>5, <3>1, <3>2 DEF RequeueDead
  <2>3. dead' \in Seq(Emails) /\ Len(dead') <= DeadCap
    BY <1>5, <2>1, PushDeadType DEF RequeueDead
  <2>4. processing' \in SUBSET Receipt /\ expired' \in SUBSET processing'
    BY <1>5 DEF RequeueDead, RemoveReceipt, QueueTypeOK
  <2>5. tries' \in [Emails -> 0 .. MaxEmailAttempts]
    BY <1>5, <2>1, QueueAssumption DEF RequeueDead, QueueTypeOK
  <2> QED
    BY <1>5, <2>2, <2>3, <2>4, <2>5 DEF RequeueDead, QueueTypeOK, ticks
<1>6. CASE QMarkFailed(w)
  <2>1. /\ receipt' \in [Workers -> Receipt \cup {NULL}]
        /\ \A v \in Workers : pc'[v] # "idle" => receipt'[v] # NULL /\ receipt'[v].email = job'[v]
    BY <1>6, DropType DEF QMarkFailed, MarkFailedFromQueue, Rest, Goto
  <2> QED
    BY <1>6, <2>1 DEF QMarkFailed, QueueTypeOK, redis, ticks
<1>7. CASE QCrash(w)
  <2>1. /\ receipt' \in [Workers -> Receipt \cup {NULL}]
        /\ \A v \in Workers : pc'[v] # "idle" => receipt'[v] # NULL /\ receipt'[v].email = job'[v]
    <3>1. CASE Crash(w)
      BY <1>7, <3>1, DropType DEF QCrash, Crash, Rest, Goto
    <3>2. CASE pc[w] = "idle" /\ UNCHANGED vars
      BY <1>7, <3>2 DEF QCrash, Drop, QueueTypeOK, vars
    <3> QED
      BY <1>7, <3>1, <3>2 DEF QCrash
  <2> QED
    BY <1>7, <2>1 DEF QCrash, QueueTypeOK, redis
<1>8. CASE ListQueueRecoveryPending(w)
  BY <1>8 DEF ListQueueRecoveryPending, QueueTypeOK, redis, vars
<1>9. CASE MarkRecovered(w)
  <2>1. UNCHANGED <<pc, job>>
    BY <1>9 DEF MarkRecovered, QueueRecoveryDone, worker, vars
  <2> QED
    BY <1>9, <2>1 DEF MarkRecovered, QueueTypeOK, redis
<1>10. ASSUME NEW e \in Emails, EnqueueRecovered(w, e) PROVE QueueTypeOK'
  <2>1. pending' \in Seq(Emails)
    <3>1. pending \in Seq(Emails)
      BY DEF QueueTypeOK
    <3>2. pending' = Append(pending, e) \/ pending' = pending
      BY <1>10 DEF EnqueueRecovered, Push
    <3> QED
      BY <3>1, <3>2
  <2>2. toMark' \in [Workers -> Emails \cup {NULL}] /\ toEnqueue' \in [Workers -> SUBSET Emails]
    BY <1>10 DEF EnqueueRecovered, QueueTypeOK
  <2> QED
    BY <1>10, <2>1, <2>2 DEF EnqueueRecovered, QueueTypeOK, vars
<1> QED
  BY <1>1, <1>2, <1>3, <1>4, <1>5, <1>6, <1>7, <1>8, <1>9, <1>10 DEF QueueWorkerStep

\* LPUSH leaves a list.
LEMMA PushType ==
    ASSUME QueueTypeOK, NEW e \in Emails, Push(e)
    PROVE  pending' \in Seq(Emails)
<1>1. pending \in Seq(Emails) /\ pending' = Append(pending, e)
  BY DEF QueueTypeOK, Push
<1> QED
  BY <1>1

\* LREM takes the least position that holds e, and leaves a list.
LEMMA RemoveFirstType ==
    ASSUME NEW s \in Seq(Emails), NEW e, Contains(s, e)
    PROVE  RemoveFirst(s, e) \in Seq(Emails) /\ Len(RemoveFirst(s, e)) = Len(s) - 1
<1> DEFINE I == {i \in 1 .. Len(s) : s[i] = e}
<1>1. I # {} /\ I \subseteq Nat
  BY DEF Contains
<1>2. \E i \in I : \A j \in I : i <= j
  <2>1. PICK i \in I : \A j \in I : <<j, i>> \notin OpToRel(<, Nat)
    BY <1>1, NatLessThanWellFounded, WFMin, Zenon
  <2>2. \A j \in I : ~(j < i)
    BY <1>1, <2>1 DEF OpToRel
  <2> QED
    BY <1>1, <2>2
<1>3. Min(I) \in 1 .. Len(s)
  BY <1>2 DEF Min
<1>4. RemoveFirst(s, e) = RemoveAt(s, Min(I))
  BY <1>1 DEF RemoveFirst, SelectInSeq, Contains
<1> HIDE DEF I
<1>5. RemoveFirst(s, e) = SubSeq(s, 1, Min(I) - 1) \o SubSeq(s, Min(I) + 1, Len(s))
  BY <1>4 DEF RemoveAt
<1>6. Min(I) - 1 \in Nat /\ Min(I) + 1 \in Nat /\ Len(s) \in Nat
  BY <1>3
<1>7. SubSeq(s, 1, Min(I) - 1) \in Seq(Emails) /\ Len(SubSeq(s, 1, Min(I) - 1)) = Min(I) - 1
  BY <1>3, <1>6
<1>8. SubSeq(s, Min(I) + 1, Len(s)) \in Seq(Emails) /\ Len(SubSeq(s, Min(I) + 1, Len(s))) = Len(s) - Min(I)
  BY <1>3, <1>6
<1>9. ASSUME NEW a \in Seq(Emails), NEW b \in Seq(Emails)
      PROVE  a \o b \in Seq(Emails) /\ Len(a \o b) = Len(a) + Len(b)
  OBVIOUS
<1>10. Min(I) - 1 + (Len(s) - Min(I)) = Len(s) - 1
  BY <1>3, <1>6
<1> QED
  BY <1>5, <1>7, <1>8, <1>9, <1>10

\* Every step of the API, the operators, a lease or an event handler keeps them.
LEMMA QueueRowStepType ==
    ASSUME TypeOK, QueueTypeOK, NEW e \in Emails, QueueRowStep(e)
    PROVE  QueueTypeOK'
<1>1. UNCHANGED <<pc, job>>
  BY DEF QueueRowStep, PromoteScheduled, TriesExpire, QLeaseExpires, QCreate, ApiPush, QReturn, QQueueFailed,
     QBecomesDue, QCancel, QReplayPrepare, QReview, ReplayDead, QReplayDone, QReplayCancel, QProviderEvent,
     LeaseExpires, ApiCreate, ApiReturn, ApiQueueFailed, BecomesDue, Cancel, ReplayPrepare, ReviewFailed,
     ReviewAccepted, ReplayDone, ReplayCancel, CorrelateProviderEvent, HandleProviderEvent, worker, vars
<1>2. CASE UNCHANGED queue
  BY <1>1, <1>2 DEF queue, redis, ticks, QueueTypeOK
<1>3. CASE PromoteScheduled(e)
  <2>1. pending' \in Seq(Emails)
    BY <1>3, PushType DEF PromoteScheduled
  <2> QED
    BY <1>1, <1>3, <2>1 DEF PromoteScheduled, ticks, QueueTypeOK
<1>4. CASE TriesExpire(e)
  <2>1. tries' \in [Emails -> 0 .. MaxEmailAttempts]
    BY <1>4, QueueAssumption DEF TriesExpire, QueueTypeOK
  <2> QED
    BY <1>1, <1>4, <2>1 DEF TriesExpire, ticks, QueueTypeOK
<1>5. CASE ApiPush(e)
  <2>1. pending' \in Seq(Emails)
    <3>1. CASE Push(e)
      BY <3>1, PushType
    <3>2. CASE UNCHANGED pending
      BY <3>2 DEF QueueTypeOK
    <3> QED
      BY <1>5, <3>1, <3>2 DEF ApiPush
  <2>2. scheduled' \in SUBSET Emails /\ pushed' \in SUBSET Emails
    BY <1>5 DEF ApiPush, QueueTypeOK
  <2> QED
    BY <1>1, <1>5, <2>1, <2>2 DEF ApiPush, ticks, QueueTypeOK
<1>6. ASSUME NEW t \in Attempts, ReplayDead(e, t) PROVE QueueTypeOK'
  <2>1. pending' \in Seq(Emails)
    BY <1>6, PushType DEF ReplayDead
  <2>2. dead' \in Seq(Emails) /\ Len(dead') <= DeadCap
    <3>1. dead \in Seq(Emails) /\ Len(dead) <= DeadCap /\ DeadCap \in Nat
      BY QueueAssumption DEF QueueTypeOK
    <3>2. dead' = RemoveFirst(dead, e) /\ Contains(dead, e)
      BY <1>6 DEF ReplayDead
    <3> QED
      BY <3>1, <3>2, RemoveFirstType
  <2>3. tries' \in [Emails -> 0 .. MaxEmailAttempts]
    BY <1>6, QueueAssumption DEF ReplayDead, QueueTypeOK
  <2>4. moved' \in SUBSET Attempts
    BY <1>6 DEF ReplayDead, QueueTypeOK
  <2> QED
    BY <1>1, <1>6, <2>1, <2>2, <2>3, <2>4 DEF ReplayDead, ticks, QueueTypeOK
<1> QED
  BY <1>2, <1>3, <1>4, <1>5, <1>6 DEF QueueRowStep, QLeaseExpires, QCreate, QReturn, QQueueFailed,
     QBecomesDue, QCancel, QReplayPrepare, QReview, QReplayDone, QReplayCancel, QProviderEvent

\* The queue's own clock and the recovery of its receipts keep them.
LEMMA QueueRecoverType ==
    ASSUME TypeOK, QueueTypeOK, IsFiniteSet(processing),
           Recover \/ QRecoverExpired \/ \E r \in processing : ReceiptExpires(r)
    PROVE  QueueTypeOK'
<1>1. CASE QRecoverExpired
  BY <1>1 DEF QRecoverExpired, RecoverExpiredSendAttempts, worker, queue, redis, ticks, QueueTypeOK
<1>2. ASSUME NEW r \in processing, ReceiptExpires(r) PROVE QueueTypeOK'
  BY <1>2 DEF ReceiptExpires, vars, ticks, QueueTypeOK
<1>3. CASE Recover
  <2>1. PICK s \in SetToSeqs(expired) : pending' = [i \in DOMAIN s |-> s[i].email] \o pending
    BY <1>3 DEF Recover
  <2> DEFINE n == Cardinality(expired)
  <2>2. n \in Nat
    <3>1. IsFiniteSet(expired)
      BY FS_Subset DEF QueueTypeOK
    <3> QED
      BY <3>1, FS_CardinalityType
  <2>3. [i \in DOMAIN s |-> s[i].email] \in Seq(Emails)
    <3>1. s \in [1 .. n -> expired]
      BY DEF SetToSeqs
    <3>2. [i \in DOMAIN s |-> s[i].email] \in [1 .. n -> Emails]
      BY <3>1 DEF QueueTypeOK, Receipt
    <3> HIDE DEF n
    <3> QED
      BY <2>2, <3>2, SeqDef
  <2>4. pending' \in Seq(Emails)
    BY <2>1, <2>3 DEF QueueTypeOK
  <2>5. processing' \in SUBSET Receipt /\ expired' \in SUBSET processing'
    BY <1>3 DEF Recover, QueueTypeOK
  <2> QED
    BY <1>3, <2>4, <2>5 DEF Recover, vars, ticks, QueueTypeOK
<1> QED
  BY <1>1, <1>2, <1>3

-----------------------------------------------------------------------------
(* The refinement.                                                         *)

\* A worker driven by the queue takes steps of SendAttempt's workers, steps on
\* Redis alone, and clears the flag of a row it has pushed.
LEMMA QueueWorkerStepImplements ==
    ASSUME QueueTypeOK, NEW w \in Workers, QueueWorkerStep(w)
    PROVE  Next \/ UNCHANGED vars
<1>1. CASE Dequeue(w) \/ ListQueueRecoveryPending(w) \/ \E e \in Emails : EnqueueRecovered(w, e)
  BY <1>1 DEF Dequeue, ListQueueRecoveryPending, EnqueueRecovered
<1>2. CASE QRead(w)
  <2>1. receipt[w].email \in Emails
    BY <1>2 DEF QRead, QueueTypeOK, Receipt
  <2>2. WorkerStep(w)
    BY <1>2, <2>1 DEF QRead, WorkerStep
  <2> QED
    BY <2>2 DEF Next
<1>3. CASE QProcess(w)
  BY <1>3 DEF QProcess, WorkerStep, Next
<1>4. CASE SettleFails(w) \/ Ack(w) \/ Requeue(w) \/ Reschedule(w)
  <2>1. Settle(w)
    BY <1>4 DEF SettleFails, Ack, Requeue, Reschedule
  <2> QED
    BY <2>1 DEF WorkerStep, Next
<1>5. CASE RequeueDead(w)
  <2>1. DeadLetter(w) \/ Settle(w)
    BY <1>5 DEF RequeueDead
  <2> QED
    BY <2>1 DEF WorkerStep, Next
<1>6. CASE QMarkFailed(w)
  BY <1>6 DEF QMarkFailed, WorkerStep, Next
<1>7. CASE QCrash(w)
  BY <1>7 DEF QCrash, WorkerStep, Next
<1>8. CASE MarkRecovered(w)
  <2>1. toMark[w] \in Emails
    BY <1>8 DEF MarkRecovered, QueueTypeOK
  <2>2. RowStep(toMark[w]) \/ UNCHANGED vars
    BY <1>8 DEF MarkRecovered, RowStep
  <2> QED
    BY <2>1, <2>2 DEF Next
<1> QED
  BY <1>1, <1>2, <1>3, <1>4, <1>5, <1>6, <1>7, <1>8 DEF QueueWorkerStep

\* The API, the operators and the clocks take the steps they take in SendAttempt,
\* or steps on Redis alone.
LEMMA QueueRowStepImplements ==
    ASSUME NEW e \in Emails, QueueRowStep(e)
    PROVE  RowStep(e) \/ UNCHANGED vars
BY DEF QueueRowStep, PromoteScheduled, TriesExpire, QLeaseExpires, QCreate, ApiPush, QReturn, QQueueFailed,
   QBecomesDue, QCancel, QReplayPrepare, QReview, ReplayDead, QReplayDone, QReplayCancel, QProviderEvent,
   RowStep

\* The inductive invariant of the composed system.
QueueInv == QueueTypeOK /\ IsFiniteSet(processing)

\* Receipts are added one by one.
LEMMA ProcessingIsFinite ==
    ASSUME QueueInv, [QueueNext]_queueVars
    PROVE  IsFiniteSet(processing')
<1>1. processing' \subseteq processing \/ \E r : processing' = processing \cup {r}
  BY DEF QueueNext, QueueWorkerStep, QueueRowStep, queueVars, queue, redis, Dequeue, QRead, QProcess,
     SettleFails, Ack, Requeue, RequeueDead, QMarkFailed, Reschedule, QCrash, ListQueueRecoveryPending,
     MarkRecovered, EnqueueRecovered, PromoteScheduled, TriesExpire, QLeaseExpires, QCreate, ApiPush,
     QReturn, QQueueFailed, QBecomesDue, QCancel, QReplayPrepare, QReview, ReplayDead, QReplayDone,
     QReplayCancel, QProviderEvent, ReceiptExpires, Recover, QRecoverExpired, RemoveReceipt
<1> QED
  BY <1>1, FS_Subset, FS_AddElement DEF QueueInv

\* The invariant holds initially.
LEMMA QueueInitInv == QueueInit => QueueInv /\ Init
BY QueueAssumption, FS_EmptySet DEF QueueInit, QueueInv, QueueTypeOK, Init

\* Every step keeps it, and is a step of SendAttempt or leaves its variables alone.
LEMMA QueueNextInv == IInv /\ QueueInv /\ [QueueNext]_queueVars => QueueInv' /\ [Next]_vars
<1> SUFFICES ASSUME IInv, QueueInv, [QueueNext]_queueVars
             PROVE  QueueInv' /\ [Next]_vars
  OBVIOUS
<1>1. TypeOK /\ QueueTypeOK /\ IsFiniteSet(processing)
  BY DEF IInv, QueueInv
<1>2. QueueTypeOK' /\ [Next]_vars
  <2>1. ASSUME NEW w \in Workers, QueueWorkerStep(w) PROVE QueueTypeOK' /\ [Next]_vars
    BY <1>1, <2>1, QueueWorkerStepType, QueueWorkerStepImplements
  <2>2. ASSUME NEW e \in Emails, QueueRowStep(e) PROVE QueueTypeOK' /\ [Next]_vars
    <3>1. RowStep(e) \/ UNCHANGED vars
      BY <2>2, QueueRowStepImplements
    <3> QED
      BY <1>1, <2>2, <3>1, QueueRowStepType DEF Next
  <2>3. CASE Recover \/ QRecoverExpired \/ \E r \in processing : ReceiptExpires(r)
    <3>1. RecoverExpiredSendAttempts \/ UNCHANGED vars
      BY <2>3 DEF Recover, QRecoverExpired, ReceiptExpires
    <3> QED
      BY <1>1, <2>3, <3>1, QueueRecoverType DEF Next
  <2>4. CASE UNCHANGED queueVars
    BY <1>1, <2>4 DEF queueVars, vars, queue, redis, ticks, QueueTypeOK
  <2> QED
    BY <2>1, <2>2, <2>3, <2>4 DEF QueueNext
<1> QED
  BY <1>2, ProcessingIsFinite DEF QueueInv

\* The queue with its workers implements the send-attempt protocol: the queue
\* decides when a worker is woken, and nothing else.
THEOREM QueueImplements == QueueSpec => ImplementsSendAttempt
<1>1. QueueInit => Init /\ IInv /\ QueueInv
  BY QueueInitInv, InitInv
<1>2. IInv /\ QueueInv /\ [QueueNext]_queueVars => IInv' /\ QueueInv' /\ [Next]_vars
  BY QueueNextInv, NextInv
<1> QED
  BY <1>1, <1>2, PTL DEF QueueSpec, ImplementsSendAttempt, Spec

\* Redis keeps well-formed lists and receipts, at most DeadCap dead letters and
\* at most MaxEmailAttempts counted attempts; a busy worker works on the email of
\* the receipt it holds.
THEOREM QueueTypeCorrectness == QueueSpec => []QueueTypeOK
<1>1. QueueInit => IInv /\ QueueInv
  BY QueueInitInv, InitInv
<1>2. IInv /\ QueueInv /\ [QueueNext]_queueVars => IInv' /\ QueueInv'
  BY QueueNextInv, NextInv
<1>3. QueueInv => QueueTypeOK
  BY DEF QueueInv
<1> QED
  BY <1>1, <1>2, <1>3, PTL DEF QueueSpec

\* With the queue redelivering, duplicating and losing items and workers losing
\* their receipts, no email is submitted twice, no cancelled email is sent, no
\* attempt is stranded or loses its row to someone else, no send is reported that
\* did not happen, and no unknown outcome is settled by sending again.
THEOREM QueueIsSafe ==
    QueueSpec =>
        /\ [](/\ AtMostOneLiveSubmission /\ CancelledNeverSent
              /\ SendingIsRecoverable /\ ReportedSentIsGenuine)
        /\ AmbiguousNeedsEvidence
        /\ LiveAttemptKeepsItsRow
<1>1. QueueSpec => Spec
  BY QueueImplements DEF ImplementsSendAttempt
<1> QED
  BY <1>1, NoDoubleSubmission, CancelIsFinal, NoStrandedAttempt, NoFalseReceipt,
     AmbiguityIsSettledByEvidence, LiveAttemptsAreFenced, PTL

-----------------------------------------------------------------------------
(* Receipts.                                                               *)

\* Only the worker a receipt was given to, or the end of its lease, takes it off
\* the processing list: Ack, Requeue and RescheduleReceipt name the whole receipt,
\* and a worker has one only while it works on its email.
THEOREM ReceiptsAreFenced == QueueSpec => ReceiptIsFenced
<1> DEFINE Fenced ==
      \A r \in processing : r \notin processing' =>
          \/ r \in expired
          \/ \E w \in Workers : receipt[w] = r /\ pc[w] # "idle" /\ pc'[w] # pc[w]
<1>1. ASSUME IInv, [QueueNext]_queueVars PROVE Fenced
  <2>0. pc \in [Workers -> PC]
    BY <1>1 DEF IInv, TypeOK
  <2>1. ASSUME NEW w \in Workers, Ack(w) \/ Requeue(w) \/ RequeueDead(w) \/ Reschedule(w) PROVE Fenced
    <3>1. processing' = processing \ {receipt[w]}
      BY <2>1 DEF Ack, Requeue, RequeueDead, Reschedule, RemoveReceipt
    <3>2. pc[w] \in {"ack", "requeue", "reschedule"} /\ (Settle(w) \/ DeadLetter(w))
      BY <2>1 DEF Ack, Requeue, RequeueDead, Reschedule
    <3>3. pc'[w] \in {"idle", "dead"}
      BY <2>0, <3>2 DEF Settle, DeadLetter, Rest, Goto
    <3> QED
      BY <3>1, <3>2, <3>3
  <2>2. CASE Recover
    BY <2>2 DEF Recover
  <2>3. CASE processing \subseteq processing'
    BY <2>3
  <2>4. ASSUME NEW w \in Workers, QueueWorkerStep(w) PROVE Fenced
    BY <2>1, <2>3, <2>4 DEF QueueWorkerStep, queue, redis, Dequeue, QRead, QProcess, SettleFails,
       QMarkFailed, QCrash, ListQueueRecoveryPending, MarkRecovered, EnqueueRecovered
  <2>5. ASSUME NEW e \in Emails, QueueRowStep(e) PROVE Fenced
    BY <2>3, <2>5 DEF QueueRowStep, queue, redis, PromoteScheduled, TriesExpire, QLeaseExpires, QCreate,
       ApiPush, QReturn, QQueueFailed, QBecomesDue, QCancel, QReplayPrepare, QReview, ReplayDead,
       QReplayDone, QReplayCancel, QProviderEvent
  <2>6. CASE UNCHANGED queueVars \/ QRecoverExpired \/ \E r \in processing : ReceiptExpires(r)
    BY <2>3, <2>6 DEF queueVars, queue, redis, QRecoverExpired, ReceiptExpires
  <2> QED
    BY <1>1, <2>2, <2>4, <2>5, <2>6 DEF QueueNext
<1>2. IInv /\ [QueueNext]_queueVars => [Fenced]_queueVars
  BY <1>1
<1>3. QueueSpec => []IInv
  BY QueueImplements, Invariance, PTL DEF ImplementsSendAttempt
<1> QED
  BY <1>2, <1>3, PTL DEF QueueSpec, ReceiptIsFenced

-----------------------------------------------------------------------------
(* No queued email is forgotten.                                           *)
(*                                                                         *)
(* NoLostWakeup is not inductive: some of what makes an email Wakeable is  *)
(* about to go away.  A worker at "ack" takes its receipt off, a flag goes *)
(* with the tick that has pushed the row, a caller of ReplayDeadLetter     *)
(* whose token is no longer the row's just ends.  A source is what does    *)
(* not go away before it has left another one.                             *)

\* A worker that gives a receipt back to the queue if its email is queued.
Harmless == {"idle", "read", "requeue", "reschedule"}

ReceiptBrings(r) == \A w \in Workers : receipt[w] = r => pc[w] \in Harmless

Item(e) ==
    \/ Contains(pending, e) \/ e \in scheduled
    \/ \E r \in processing : r.email = e /\ ReceiptBrings(r)

Flagged(e) == emails[e].recovery /\ \A w \in Workers : toMark[w] # e

StillToPush(e) == api[e] = "created" /\ e \notin pushed /\ ~emails[e].recovery

StillToReplay(e) ==
    ~emails[e].recovery /\ \E t \in replays[e] \ moved : CanCancelDeadLetterReplay(emails[e], t)

AboutToFail(e) ==
    \E w \in Workers : job[w] = e /\ pc[w] = "dead" /\ CanMarkDeadLetterFailed(emails[e])

Source(e) == Item(e) \/ Flagged(e) \/ StillToPush(e) \/ StillToReplay(e) \/ AboutToFail(e)

SourcesInv == \A e \in Emails : emails[e].status = "queued" => Source(e)

\* Without an overrun a worker's receipt stays on the processing list, its lease
\* live, until the worker takes it off; and it is no other worker's.
HeldInv ==
    /\ \A w \in Workers : receipt[w] # NULL /\ pc[w] # "dead" => receipt[w] \in processing \ expired
    /\ \A v, w \in Workers :
          receipt[v] # NULL /\ receipt[w] # NULL /\ receipt[v].token = receipt[w].token => v = w

Stuck(r) == r.status = "sending" /\ r.lease = "expired"

\* Without an overrun a row that a tick has listed is not recovered once more
\* before the tick is through with it.
TickInv ==
    \A w \in Workers, e \in Emails : e \in toEnqueue[w] \/ toMark[w] = e => ~Stuck(emails[e])

CallersInv ==
    /\ moved \subseteq used
    /\ \A e \in Emails : replays[e] \subseteq used
    /\ \A e, f \in Emails : e # f => replays[e] \cap replays[f] = {}
    /\ \A e \in pushed : api[e] # "new"

WakeInv == SourcesInv /\ HeldInv /\ TickInv /\ CallersInv

\* Lists: what is found after a push, a pop and a recovery.
LEMMA FoundAfterPush ==
    ASSUME NEW s \in Seq(Emails), NEW e \in Emails, NEW f
    PROVE  Contains(Append(s, e), f) <=> Contains(s, f) \/ f = e
<1>1. Len(Append(s, e)) = Len(s) + 1 /\ Len(s) \in Nat
  OBVIOUS
<1>2. Append(s, e)[Len(s) + 1] = e /\ \A i \in 1..Len(s) : Append(s, e)[i] = s[i]
  OBVIOUS
<1>3. \A i \in 1..Len(s) + 1 : i \in 1..Len(s) \/ i = Len(s) + 1
  BY <1>1
<1> QED
  BY <1>1, <1>2, <1>3 DEF Contains

LEMMA FoundWhenPushed ==
    ASSUME pending \in Seq(Emails), NEW e \in Emails, pending' = Append(pending, e)
    PROVE  Contains(pending', e) /\ \A f : Contains(pending, f) => Contains(pending', f)
<1>1. ASSUME NEW f PROVE Contains(Append(pending, e), f) <=> Contains(pending, f) \/ f = e
  BY FoundAfterPush
<1> QED
  BY <1>1

LEMMA FoundAfterPop ==
    ASSUME NEW s \in Seq(Emails), s # <<>>, NEW f, Contains(s, f)
    PROVE  f = Head(s) \/ Contains(Tail(s), f)
<1>1. PICK i \in 1..Len(s) : s[i] = f
  BY DEF Contains
<1>2. CASE i = 1
  BY <1>1, <1>2
<1>3. CASE i # 1
  <2>1. i - 1 \in 1..Len(Tail(s)) /\ Tail(s)[i - 1] = s[i]
    BY <1>1, <1>3
  <2> QED
    BY <1>1, <2>1 DEF Contains
<1> QED
  BY <1>2, <1>3

LEMMA FoundInEither ==
    ASSUME NEW a \in Seq(Emails), NEW b \in Seq(Emails), NEW f, Contains(a, f) \/ Contains(b, f)
    PROVE  Contains(a \o b, f)
<1>1. Len(a) \in Nat /\ Len(b) \in Nat /\ Len(a \o b) = Len(a) + Len(b)
  OBVIOUS
<1>2. CASE Contains(a, f)
  <2>1. PICK i \in 1..Len(a) : a[i] = f
    BY <1>2 DEF Contains
  <2>2. i \in 1..Len(a \o b) /\ (a \o b)[i] = a[i]
    BY <1>1, <2>1
  <2> QED
    BY <2>1, <2>2 DEF Contains
<1>3. CASE Contains(b, f)
  <2>1. PICK i \in 1..Len(b) : b[i] = f
    BY <1>3 DEF Contains
  <2>2. Len(a) + i \in 1..Len(a \o b) /\ (a \o b)[Len(a) + i] = b[i]
    BY <1>1, <2>1
  <2> QED
    BY <2>1, <2>2 DEF Contains
<1> QED
  BY <1>2, <1>3

\* A sequence of all members of a finite set leaves none out.
LEMMA AllAreListed ==
    ASSUME NEW S, IsFiniteSet(S), NEW s \in SetToSeqs(S), NEW r \in S
    PROVE  \E i \in DOMAIN s : s[i] = r
<1> DEFINE n == Cardinality(S)
           T == S \ {r}
<1>1. n \in Nat
  BY FS_CardinalityType
<1>2. s \in [1..n -> S] /\ \A i, j \in 1..n : s[i] = s[j] => i = j
  BY DEF SetToSeqs
<1>3. SUFFICES ASSUME \A i \in 1..n : s[i] # r PROVE FALSE
  BY <1>2
<1>4. s \in Injection(1..n, T)
  BY <1>2, <1>3 DEF Injection, IsInjective
<1>5. IsFiniteSet(T) /\ Cardinality(T) = n - 1
  BY FS_RemoveElement
<1>6. Cardinality(1..n) = n
  BY <1>1, FS_Interval
<1> HIDE DEF n, T
<1>7. Cardinality(1..n) <= Cardinality(T)
  BY <1>4, <1>5, FS_Injection
<1> QED
  BY <1>1, <1>5, <1>6, <1>7

\* What a step leaves of a row that is queued afterwards.
RowStays(e) ==
    emails'[e].status = "queued" =>
        /\ emails[e].status = "queued" /\ emails'[e].state = emails[e].state
        /\ emails'[e].attempt = emails[e].attempt /\ emails'[e].fence = emails[e].fence
        /\ emails'[e].recovery = emails[e].recovery

NotStuckNow(e) == Stuck(emails'[e]) => Stuck(emails[e])

\* The columns of a row after each statement that a worker issues.
LEMMA WorkerStatements ==
    ASSUME NEW r \in Row, NEW acc, RowInv(r, acc), NEW a
    PROVE  /\ ClaimSendAttempt(r, a).status = "sending" /\ ClaimSendAttempt(r, a).lease = "live"
           /\ CanMarkSendStarted(r, a) =>
                 MarkSendStarted(r, a).status = "sending" /\ MarkSendStarted(r, a).lease = "live"
           /\ CanFinalizeAccepted(r, a) =>
                 FinalizeAccepted(r, a).status # "queued" /\ FinalizeAccepted(r, a).lease = "null"
           /\ FinalizeAmbiguous(r, a).status = "ambiguous"
           /\ FinalizeFailed(r, a).status = "failed"
           /\ MarkSendRetryable(r, a).status = "queued"
           /\ MarkDeadLetterFailed(r).status = "failed"
<1>1. CanFinalizeAccepted(r, a) => r.status # "queued"
  BY DEF CanFinalizeAccepted, RowInv
<1> QED
  BY <1>1 DEF Row, ClaimSendAttempt, CanMarkSendStarted, Owns, MarkSendStarted, CanFinalizeAccepted,
     FinalizeAccepted, FinalizeAmbiguous, FinalizeFailed, MarkSendRetryable, MarkDeadLetterFailed

\* A row that nobody writes.
LEMMA UnwrittenStays ==
    ASSUME NEW e, emails'[e] = emails[e]
    PROVE  RowStays(e) /\ NotStuckNow(e)
BY DEF RowStays, NotStuckNow

\* processFromQueueDurable makes a row queued by MarkSendRetryable only.
LEMMA ProcessRows ==
    ASSUME IInv, NEW w \in Workers, NEW e \in Emails, QProcess(w)
    PROVE  /\ NotStuckNow(e)
           /\ RowStays(e) \/ (e = job[w] /\ pc[w] = "release" /\ pc' = [pc EXCEPT ![w] = "requeue"])
<1>0. emails \in [Emails -> Row] /\ RowsInv /\ pc[w] # "idle" /\ job[w] \in Emails
  BY DEF IInv, TypeOK, QProcess, Claim, CheckRecipientSuppression, MarkStarted, Send, PersistAccepted,
     PersistUnknown, PersistRetryable, PersistFailed
<1>1. CASE emails'[e] = emails[e]
  BY <1>1, UnwrittenStays
<1>2. CASE emails'[e] # emails[e]
  <2> DEFINE r == emails[job[w]]
  <2>0. r \in Row /\ RowInv(r, accepted[job[w]])
    BY <1>0 DEF RowsInv
  <2>1. ASSUME NEW x, Write(w, x) PROVE e = job[w] /\ emails'[e] = x
    BY <1>0, <1>2, <2>1 DEF Write
  <2>2. CASE Claim(w)
    BY <1>2, <2>0, <2>1, <2>2, WorkerStatements DEF Claim, RowStays, NotStuckNow, Stuck
  <2>3. CASE MarkStarted(w)
    BY <1>2, <2>0, <2>1, <2>3, WorkerStatements DEF MarkStarted, RowStays, NotStuckNow, Stuck
  <2>4. CASE PersistAccepted(w)
    BY <1>2, <2>0, <2>1, <2>4, WorkerStatements DEF PersistAccepted, RowStays, NotStuckNow, Stuck
  <2>5. CASE PersistUnknown(w)
    BY <1>2, <2>0, <2>1, <2>5, WorkerStatements DEF PersistUnknown, RowStays, NotStuckNow, Stuck
  <2>6. CASE PersistRetryable(w)
    BY <1>2, <2>0, <2>1, <2>6, WorkerStatements DEF PersistRetryable, RowStays, NotStuckNow, Stuck, Goto
  <2>7. CASE PersistFailed(w)
    BY <1>2, <2>0, <2>1, <2>7, WorkerStatements DEF PersistFailed, RowStays, NotStuckNow, Stuck
  <2>8. CASE CheckRecipientSuppression(w) \/ Send(w)
    BY <1>2, <2>8 DEF CheckRecipientSuppression, Send
  <2> QED
    BY <2>2, <2>3, <2>4, <2>5, <2>6, <2>7, <2>8 DEF QProcess
<1> QED
  BY <1>1, <1>2

-----------------------------------------------------------------------------
(* What stays while a worker w, or nobody, moves.                          *)

LEMMA SourceStays ==
    ASSUME NEW e \in Emails, emails'[e].status = "queued", RowStays(e), Source(e),
           UNCHANGED <<toMark, api, pushed, replays, moved>>,
           Item(e) => Source(e)', AboutToFail(e) => Source(e)'
    PROVE  Source(e)'
<1>1. Flagged(e) => Flagged(e)'
  BY DEF RowStays, Flagged
<1>2. StillToPush(e) => StillToPush(e)'
  BY DEF RowStays, StillToPush
<1>3. StillToReplay(e) => StillToReplay(e)'
  BY DEF RowStays, StillToReplay, CanCancelDeadLetterReplay
<1> QED
  BY <1>1, <1>2, <1>3 DEF Source

LEMMA DeadStays ==
    ASSUME NEW e \in Emails, emails'[e].status = "queued", RowStays(e), NEW w,
           w \in Workers => pc[w] # "dead",
           \A v \in Workers \ {w} : pc'[v] = pc[v] /\ job'[v] = job[v]
    PROVE  AboutToFail(e) => AboutToFail(e)'
BY DEF RowStays, AboutToFail, CanMarkDeadLetterFailed

LEMMA ItemStays ==
    ASSUME NEW e \in Emails, Contains(pending, e) => Contains(pending', e),
           e \in scheduled => e \in scheduled',
           \A r \in processing : r.email = e /\ ReceiptBrings(r) =>
               (r \in processing' /\ ReceiptBrings(r)') \/ e \in scheduled' \/ Contains(pending', e)
    PROVE  Item(e) => Item(e)'
BY DEF Item

LEMMA CallersStay ==
    ASSUME CallersInv, used \subseteq used', UNCHANGED <<moved, pushed>>,
           \A e \in Emails : replays'[e] \subseteq replays[e] /\ (api[e] # "new" => api'[e] # "new"),
           pushed \subseteq Emails
    PROVE  CallersInv'
BY DEF CallersInv

LEMMA TickStays ==
    ASSUME TickInv, \A w \in Workers : toEnqueue'[w] \subseteq toEnqueue[w] /\ toMark'[w] \in {toMark[w], NULL},
           \A e \in Emails : NotStuckNow(e)
    PROVE  TickInv'
<1>1. NULL \notin Emails
  BY QueueAssumption
<1> QED
  BY <1>1 DEF TickInv, NotStuckNow

\* A worker lets its receipt go, and may take it off the processing list.
LEMMA DropKeepsHeld ==
    ASSUME TypeOK, QueueTypeOK, HeldInv, NEW w \in Workers, Drop(w),
           \A v \in Workers \ {w} : pc'[v] = pc[v],
           \/ processing' = processing \ {receipt[w]} /\ expired' = expired \ {receipt[w]}
           \/ UNCHANGED <<processing, expired>>
    PROVE  HeldInv'
<1>1. receipt'[w] = NULL /\ \A v \in Workers \ {w} : receipt'[v] = receipt[v]
  BY DEF Drop, QueueTypeOK
<1>2. \A v \in Workers \ {w} : receipt[v] # NULL => receipt[v] # receipt[w]
  BY DEF HeldInv
<1> QED
  BY <1>1, <1>2 DEF HeldInv

-----------------------------------------------------------------------------
(* The steps of a worker.                                                  *)

\* What the proofs below use of the state.
LEMMA WakeFacts ==
    ASSUME IInv, QueueInv, WakeInv
    PROVE  /\ TypeOK /\ QueueTypeOK /\ SourcesInv /\ HeldInv /\ TickInv /\ CallersInv /\ RowsInv
           /\ emails \in [Emails -> Row] /\ pc \in [Workers -> PC] /\ job \in [Workers -> Emails \cup {NULL}]
           /\ pending \in Seq(Emails) /\ processing \subseteq Receipt /\ expired \subseteq processing
           /\ receipt \in [Workers -> Receipt \cup {NULL}] /\ pushed \subseteq Emails
           /\ toMark \in [Workers -> Emails \cup {NULL}] /\ toEnqueue \in [Workers -> SUBSET Emails]
           /\ NULL \notin Emails /\ NULL \notin Receipt
BY QueueAssumption DEF IInv, QueueInv, WakeInv, TypeOK, QueueTypeOK, Receipt

\* The popped item becomes a receipt, which the worker has or nobody.
LEMMA DequeueKeepsWake ==
    ASSUME IInv, QueueInv, WakeInv, NEW w \in Workers, Dequeue(w)
    PROVE  WakeInv'
<1>1. /\ pc[w] = "idle" /\ receipt[w] = NULL /\ pending # <<>> /\ pending' = Tail(pending)
      /\ UNCHANGED <<vars, scheduled, expired, toEnqueue, toMark, pushed, moved>>
  BY DEF Dequeue, Idle, ticks
<1>2. UNCHANGED <<emails, pc, job, used, api, replays>>
  BY <1>1 DEF vars
<1>3. PICK f \in Emails : f = Head(pending)
  BY <1>1, WakeFacts
<1>4. PICK t \in Tokens :
        /\ \A s \in processing : s.token # t
        /\ \A v \in Workers : receipt[v] # NULL => receipt[v].token # t
        /\ processing' = processing \cup {[token |-> t, email |-> f]}
        /\ receipt' = [receipt EXCEPT ![w] = [token |-> t, email |-> f]] \/ UNCHANGED receipt
  BY <1>3 DEF Dequeue
<1>5. PICK r \in Receipt :
        /\ r.token = t /\ r.email = f /\ r # NULL /\ r \notin processing
        /\ processing' = processing \cup {r} /\ processing \subseteq processing'
        /\ receipt' = [receipt EXCEPT ![w] = r] \/ UNCHANGED receipt
  <2> DEFINE s == [token |-> t, email |-> f]
  <2>1. s \in Receipt /\ s.token = t /\ s.email = f
    BY DEF Receipt
  <2>2. processing' = processing \cup {s} /\ (receipt' = [receipt EXCEPT ![w] = s] \/ UNCHANGED receipt)
    BY <1>4
  <2> HIDE DEF s
  <2>3. s \notin processing /\ s # NULL
    BY <1>4, <2>1, WakeFacts
  <2> QED
    BY <2>1, <2>2, <2>3
<1>6. \A v \in Workers : receipt'[v] = receipt[v] \/ (v = w /\ receipt'[v] = r)
  BY <1>5, WakeFacts
<1>7. \A v \in Workers : receipt[v] # r
  BY <1>4, <1>5
<1>8. HeldInv'
  <2>1. \A v \in Workers : receipt'[v] # NULL /\ pc'[v] # "dead" => receipt'[v] \in processing' \ expired'
    BY <1>1, <1>2, <1>5, <1>6, WakeFacts DEF HeldInv
  <2>2. \A u, v \in Workers :
          receipt'[u] # NULL /\ receipt'[v] # NULL /\ receipt'[u].token = receipt'[v].token => u = v
    BY <1>4, <1>5, <1>6, WakeFacts DEF HeldInv
  <2> QED
    BY <2>1, <2>2 DEF HeldInv
<1>9. SourcesInv'
  <2> SUFFICES ASSUME NEW e \in Emails, emails'[e].status = "queued" PROVE Source(e)'
    BY DEF SourcesInv
  <2>1. RowStays(e) /\ Source(e)
    BY <1>2, UnwrittenStays, WakeFacts DEF SourcesInv
  <2>2. Item(e) => Item(e)'
    <3>1. CASE e = f
      <4>1. ReceiptBrings(r)'
        BY <1>1, <1>2, <1>6, <1>7 DEF ReceiptBrings, Harmless
      <4> QED
        BY <1>5, <3>1, <4>1 DEF Item
    <3>2. CASE e # f
      <4>1. Contains(pending, e) => Contains(pending', e)
        BY <1>1, <1>3, <3>2, FoundAfterPop, WakeFacts
      <4>2. ASSUME NEW s \in processing, ReceiptBrings(s) PROVE ReceiptBrings(s)'
        BY <1>1, <1>2, <1>5, <1>6, <4>2 DEF ReceiptBrings, Harmless
      <4> QED
        BY <1>1, <1>5, <4>1, <4>2, ItemStays
    <3> QED
      BY <3>1, <3>2
  <2>3. AboutToFail(e) => AboutToFail(e)'
    BY <1>2 DEF AboutToFail
  <2> QED
    BY <1>1, <1>2, <2>1, <2>2, <2>3, SourceStays DEF Source
<1>10. TickInv'
  BY <1>1, <1>2, WakeFacts, UnwrittenStays, TickStays
<1>11. CallersInv'
  BY <1>1, <1>2, WakeFacts, CallersStay
<1> QED
  BY <1>8, <1>9, <1>10, <1>11 DEF WakeInv

\* A worker reads its email or works on it: no queue operation.
LEMMA ProcessKeepsWake ==
    ASSUME IInv, QueueInv, WakeInv, NEW w \in Workers, QRead(w) \/ QProcess(w)
    PROVE  WakeInv'
<1>0. /\ UNCHANGED <<pending, scheduled, processing, expired, receipt, toEnqueue, toMark, pushed, moved>>
      /\ UNCHANGED <<api, replays>> /\ used \subseteq used'
  BY DEF QRead, QProcess, Read, Claim, CheckRecipientSuppression, MarkStarted, Send, PersistAccepted,
     PersistUnknown, PersistRetryable, PersistFailed, queue, redis, ticks
<1>1. /\ pc[w] # "dead" /\ \A v \in Workers \ {w} : pc'[v] = pc[v] /\ job'[v] = job[v]
      /\ pc'[w] # "dead" /\ receipt[w] # NULL
  <2>1. CASE QRead(w)
    BY <2>1, WakeFacts DEF QRead, Read, Goto
  <2>2. CASE QProcess(w)
    <3>1. pc[w] \notin {"dead", "idle"} /\ UNCHANGED job
      BY <2>2 DEF QProcess, Claim, CheckRecipientSuppression, MarkStarted, Send, PersistAccepted,
         PersistUnknown, PersistRetryable, PersistFailed
    <3>2. \E l \in PC \ {"dead"} : pc' = [pc EXCEPT ![w] = l]
      BY <2>2 DEF QProcess, Claim, CheckRecipientSuppression, MarkStarted, Send, PersistAccepted,
         PersistUnknown, PersistRetryable, PersistFailed, Goto, PC
    <3> QED
      BY <3>1, <3>2, WakeFacts DEF QueueTypeOK
  <2> QED
    BY <2>1, <2>2
<1>2. \A e \in Emails : NotStuckNow(e)
  BY UnwrittenStays, ProcessRows DEF QRead, Read
<1>3. HeldInv'
  BY <1>0, <1>1, WakeFacts DEF HeldInv
<1>4. SourcesInv'
  <2> SUFFICES ASSUME NEW e \in Emails, emails'[e].status = "queued" PROVE Source(e)'
    BY DEF SourcesInv
  <2>1. CASE RowStays(e)
    <3>1. emails[e].status = "queued" /\ Source(e)
      BY <2>1, WakeFacts DEF RowStays, SourcesInv
    <3>2. ASSUME NEW r \in processing, r.email = e, ReceiptBrings(r) PROVE ReceiptBrings(r)'
      <4>1. ASSUME receipt[w] = r PROVE pc'[w] \in Harmless
        <5>1. pc[w] \in Harmless /\ receipt[w].email = e
          BY <3>2, <4>1 DEF ReceiptBrings
        <5>2. CASE QRead(w)
          BY <3>1, <5>1, <5>2, WakeFacts DEF QRead, Read, Goto, Harmless
        <5>3. CASE QProcess(w)
          <6>1. Claim(w)
            BY <5>1, <5>3 DEF QProcess, CheckRecipientSuppression, MarkStarted, Send, PersistAccepted,
               PersistUnknown, PersistRetryable, PersistFailed, Harmless
          <6>2. job[w] = e
            BY <5>1, <6>1, WakeFacts DEF Claim, QueueTypeOK
          <6>3. emails[e] \in Row /\ RowInv(emails[e], accepted[e])
            BY WakeFacts DEF RowsInv
          <6>4. CanClaimSendAttempt(emails[e])
            BY <3>1, <6>3 DEF RowInv, CanClaimSendAttempt
          <6>5. \A a : emails' # [emails EXCEPT ![e] = ClaimSendAttempt(emails[e], a)]
            BY <6>3, WorkerStatements, WakeFacts
          <6> QED
            BY <6>1, <6>2, <6>4, <6>5, WakeFacts DEF Claim, Write, Goto, Harmless
        <5> QED
          BY <5>2, <5>3
      <4> QED
        BY <1>0, <1>1, <3>2, <4>1 DEF ReceiptBrings
    <3>3. Item(e) => Item(e)'
      BY <1>0, <3>2, ItemStays
    <3>4. AboutToFail(e) => AboutToFail(e)'
      BY <1>1, <2>1, DeadStays
    <3> QED
      BY <1>0, <2>1, <3>1, <3>3, <3>4, SourceStays DEF Source
  <2>2. CASE ~RowStays(e)
    <3>1. e = job[w] /\ pc[w] = "release" /\ pc' = [pc EXCEPT ![w] = "requeue"]
      BY <2>2, UnwrittenStays, ProcessRows DEF QRead, Read
    <3>2. receipt[w] \in processing /\ receipt[w].email = e
      BY <1>1, <3>1, WakeFacts DEF HeldInv, QueueTypeOK
    <3>3. \A v \in Workers : receipt[v] = receipt[w] => v = w
      BY <1>1, WakeFacts DEF HeldInv
    <3>4. ReceiptBrings(receipt[w])'
      BY <1>0, <3>1, <3>3, WakeFacts DEF ReceiptBrings, Harmless
    <3> QED
      BY <1>0, <3>2, <3>4 DEF Source, Item
  <2> QED
    BY <2>1, <2>2
<1>5. TickInv'
  BY <1>0, <1>2, WakeFacts, TickStays
<1>6. CallersInv'
  BY <1>0, WakeFacts, CallersStay
<1> QED
  BY <1>3, <1>4, <1>5, <1>6 DEF WakeInv

\* The calls that end the work on an email.  Requeue and RescheduleReceipt put an
\* item for the receipt, Ack is for a row that was not queued.
LEMMA SettleKeepsWake ==
    ASSUME IInv, QueueInv, WakeInv, NEW w \in Workers,
           SettleFails(w) \/ Ack(w) \/ Requeue(w) \/ Reschedule(w)
    PROVE  WakeInv'
<1>1. /\ UNCHANGED <<emails, used, api, replays, pending, toEnqueue, toMark, pushed, moved>>
      /\ Settle(w) /\ Drop(w) /\ scheduled \subseteq scheduled'
      /\ \/ processing' = processing \ {receipt[w]} /\ expired' = expired \ {receipt[w]}
         \/ UNCHANGED <<processing, expired>>
  BY DEF SettleFails, Ack, Requeue, Reschedule, Settle, RemoveReceipt, redis, ticks
<1>2. /\ pc[w] \in {"ack", "requeue", "reschedule"}
      /\ \A v \in Workers \ {w} : pc'[v] = pc[v] /\ job'[v] = job[v] /\ receipt'[v] = receipt[v]
      /\ receipt'[w] = NULL
  BY <1>1, WakeFacts DEF Settle, Rest, Goto, Drop
<1>3. HeldInv'
  BY <1>1, <1>2, DropKeepsHeld, WakeFacts
<1>4. SourcesInv'
  <2> SUFFICES ASSUME NEW e \in Emails, emails'[e].status = "queued" PROVE Source(e)'
    BY DEF SourcesInv
  <2>1. RowStays(e) /\ Source(e)
    BY <1>1, UnwrittenStays, WakeFacts DEF SourcesInv
  <2>2. ASSUME NEW r \in processing, r.email = e, ReceiptBrings(r)
        PROVE  (r \in processing' /\ ReceiptBrings(r)') \/ e \in scheduled'
    <3>1. ReceiptBrings(r)'
      BY <1>2, <2>2, WakeFacts DEF ReceiptBrings
    <3>2. CASE r \notin processing'
      <4>1. r = receipt[w] /\ pc[w] # "ack" /\ ~SettleFails(w)
        BY <1>1, <2>2, <3>2 DEF ReceiptBrings, Harmless, SettleFails, redis
      <4>2. job[w] = e
        BY <1>2, <2>2, <4>1, WakeFacts DEF QueueTypeOK
      <4> QED
        BY <4>1, <4>2 DEF Ack, Requeue, Reschedule
    <3> QED
      BY <3>1, <3>2
  <2>3. Item(e) => Item(e)'
    BY <1>1, <2>2, ItemStays
  <2>4. AboutToFail(e) => AboutToFail(e)'
    BY <1>2, <2>1, DeadStays
  <2> QED
    BY <1>1, <2>1, <2>3, <2>4, SourceStays DEF Source
<1>5. TickInv'
  BY <1>1, WakeFacts, UnwrittenStays, TickStays
<1>6. CallersInv'
  BY <1>1, WakeFacts, CallersStay
<1> QED
  BY <1>3, <1>4, <1>5, <1>6 DEF WakeInv

\* At the retry limit the worker stays to fail the row, which it can.
LEMMA RequeueDeadKeepsWake ==
    ASSUME IInv, QueueInv, WakeInv, Faults = {}, NEW w \in Workers, RequeueDead(w)
    PROVE  WakeInv'
<1>1. /\ UNCHANGED <<emails, job, used, api, replays, pending, scheduled, receipt, toEnqueue, toMark, pushed, moved>>
      /\ pc[w] = "requeue" /\ pc' = [pc EXCEPT ![w] = "dead"] /\ receipt[w] \in processing
      /\ processing' = processing \ {receipt[w]} /\ expired' = expired \ {receipt[w]}
      /\ emails[job[w]].status = "queued" => CanMarkDeadLetterFailed(emails[job[w]])
  BY DEF RequeueDead, DeadLetter, Goto, RemoveReceipt, ticks
<1>2. pc'[w] = "dead" /\ \A v \in Workers \ {w} : pc'[v] = pc[v]
  BY <1>1, WakeFacts
<1>3. HeldInv'
  <2>1. \A v \in Workers \ {w} : receipt[v] # NULL => receipt[v] # receipt[w]
    BY <1>1, WakeFacts DEF HeldInv
  <2> QED
    BY <1>1, <1>2, <2>1, WakeFacts DEF HeldInv
<1>4. SourcesInv'
  <2> SUFFICES ASSUME NEW e \in Emails, emails'[e].status = "queued" PROVE Source(e)'
    BY DEF SourcesInv
  <2>1. RowStays(e) /\ Source(e) /\ emails[e].status = "queued"
    BY <1>1, UnwrittenStays, WakeFacts DEF SourcesInv
  <2>2. CASE e = job[w]
    BY <1>1, <1>2, <2>1, <2>2 DEF Source, AboutToFail
  <2>3. CASE e # job[w]
    <3>1. ASSUME NEW r \in processing, r.email = e, ReceiptBrings(r) PROVE r \in processing' /\ ReceiptBrings(r)'
      <4>1. r # receipt[w]
        BY <1>1, <2>3, <3>1, WakeFacts DEF QueueTypeOK
      <4> QED
        BY <1>1, <1>2, <3>1, <4>1 DEF ReceiptBrings
    <3>2. Item(e) => Item(e)'
      BY <1>1, <3>1, ItemStays
    <3>3. AboutToFail(e) => AboutToFail(e)'
      BY <1>1, <1>2, <2>1, DeadStays
    <3> QED
      BY <1>1, <2>1, <3>2, <3>3, SourceStays DEF Source
  <2> QED
    BY <2>2, <2>3
<1>5. TickInv'
  BY <1>1, WakeFacts, UnwrittenStays, TickStays
<1>6. CallersInv'
  BY <1>1, WakeFacts, CallersStay
<1> QED
  BY <1>3, <1>4, <1>5, <1>6 DEF WakeInv

\* The worker fails the row it stayed for, or one that another has changed.
LEMMA MarkFailedKeepsWake ==
    ASSUME IInv, QueueInv, WakeInv, Faults = {}, NEW w \in Workers, QMarkFailed(w)
    PROVE  WakeInv'
<1>1. /\ UNCHANGED <<used, api, replays, pending, scheduled, processing, expired, toEnqueue, toMark, pushed, moved>>
      /\ pc[w] = "dead" /\ Drop(w) /\ job[w] \in Emails
      /\ pc' = [pc EXCEPT ![w] = "idle"] /\ job' = [job EXCEPT ![w] = NULL]
      /\ emails' = [emails EXCEPT ![job[w]] = MarkDeadLetterFailed(emails[job[w]])] \/ UNCHANGED emails
      /\ emails'[job[w]] # emails[job[w]] \/ ~CanMarkDeadLetterFailed(emails[job[w]])
  BY WakeFacts DEF QMarkFailed, MarkFailedFromQueue, Rest, Goto, Write, redis, ticks, TypeOK
<1>2. /\ \A v \in Workers \ {w} : pc'[v] = pc[v] /\ job'[v] = job[v] /\ receipt'[v] = receipt[v]
      /\ receipt'[w] = NULL
  BY <1>1, WakeFacts DEF Drop
<1>3. HeldInv'
  BY <1>1, <1>2, DropKeepsHeld, WakeFacts
<1>4. ASSUME NEW e \in Emails
      PROVE  RowStays(e) /\ NotStuckNow(e) /\ (emails'[e].status = "queued" => emails'[e] = emails[e])
  <2>1. emails[job[w]] \in Row /\ RowInv(emails[job[w]], accepted[job[w]])
    BY <1>1, WakeFacts DEF RowsInv
  <2>2. MarkDeadLetterFailed(emails[job[w]]).status = "failed"
    BY <2>1, WorkerStatements
  <2>3. emails'[e] = emails[e] \/ emails'[e].status = "failed"
    BY <1>1, <2>2, WakeFacts
  <2> QED
    BY <2>3, UnwrittenStays DEF RowStays, NotStuckNow, Stuck
<1>5. SourcesInv'
  <2> SUFFICES ASSUME NEW e \in Emails, emails'[e].status = "queued" PROVE Source(e)'
    BY DEF SourcesInv
  <2>1. RowStays(e) /\ Source(e)
    BY <1>4, WakeFacts DEF SourcesInv, RowStays
  <2>2. ASSUME NEW r \in processing, ReceiptBrings(r) PROVE ReceiptBrings(r)'
    BY <1>2, <2>2, WakeFacts DEF ReceiptBrings
  <2>3. Item(e) => Item(e)'
    BY <1>1, <2>2, ItemStays
  <2>4. AboutToFail(e) => AboutToFail(e)'
    BY <1>1, <1>2, <1>4 DEF AboutToFail
  <2> QED
    BY <1>1, <2>1, <2>3, <2>4, SourceStays DEF Source
<1>6. TickInv'
  BY <1>1, <1>4, WakeFacts, TickStays
<1>7. CallersInv'
  BY <1>1, WakeFacts, CallersStay
<1> QED
  BY <1>3, <1>5, <1>6, <1>7 DEF WakeInv

\* A process that dies leaves its receipt on the processing list.
LEMMA CrashKeepsWake ==
    ASSUME IInv, QueueInv, WakeInv, Faults = {}, NEW w \in Workers, QCrash(w)
    PROVE  WakeInv'
<1>1. /\ UNCHANGED <<emails, used, api, replays, pending, scheduled, processing, expired, pushed, moved>>
      /\ pc[w] # "dead" /\ Drop(w)
      /\ toEnqueue' = [toEnqueue EXCEPT ![w] = {}] /\ toMark' = [toMark EXCEPT ![w] = NULL]
  BY DEF QCrash, Crash, vars, redis
<1>2. \A v \in Workers \ {w} : pc'[v] = pc[v] /\ job'[v] = job[v]
  BY WakeFacts DEF QCrash, Crash, Rest, Goto, vars
<1>3. receipt'[w] = NULL /\ \A v \in Workers \ {w} : receipt'[v] = receipt[v]
  BY <1>1, WakeFacts DEF Drop
<1>4. HeldInv'
  BY <1>1, <1>2, DropKeepsHeld, WakeFacts
<1>5. SourcesInv'
  <2> SUFFICES ASSUME NEW e \in Emails, emails'[e].status = "queued" PROVE Source(e)'
    BY DEF SourcesInv
  <2>1. RowStays(e) /\ Source(e)
    BY <1>1, UnwrittenStays, WakeFacts DEF SourcesInv
  <2>2. ASSUME NEW r \in processing, ReceiptBrings(r) PROVE ReceiptBrings(r)'
    BY <1>2, <1>3, <2>2, WakeFacts DEF ReceiptBrings
  <2>3. Item(e) => Item(e)'
    BY <1>1, <2>2, ItemStays
  <2>4. AboutToFail(e) => AboutToFail(e)'
    BY <1>1, <1>2, <2>1, DeadStays
  <2>5. Flagged(e) => Flagged(e)'
    BY <1>1, WakeFacts DEF Flagged
  <2>6. (StillToPush(e) => StillToPush(e)') /\ (StillToReplay(e) => StillToReplay(e)')
    BY <1>1 DEF StillToPush, StillToReplay
  <2> QED
    BY <2>1, <2>3, <2>4, <2>5, <2>6 DEF Source
<1>6. TickInv'
  <2>1. \A v \in Workers : toEnqueue'[v] \subseteq toEnqueue[v] /\ toMark'[v] \in {toMark[v], NULL}
    BY <1>1, WakeFacts
  <2> QED
    BY <1>1, <2>1, WakeFacts, UnwrittenStays, TickStays
<1>7. CallersInv'
  BY <1>1, WakeFacts, CallersStay
<1> QED
  BY <1>4, <1>5, <1>6, <1>7 DEF WakeInv

\* RecoverSending: the rows it lists are queued, and a flag is cleared only once
\* the row's ID is on the pending list.
LEMMA TickKeepsWake ==
    ASSUME IInv, QueueInv, WakeInv, NEW w \in Workers,
           \/ ListQueueRecoveryPending(w) \/ MarkRecovered(w)
           \/ \E e \in Emails : EnqueueRecovered(w, e)
    PROVE  WakeInv'
<1>1. /\ UNCHANGED <<pc, job, used, api, replays, scheduled, processing, expired, receipt, pushed, moved>>
      /\ pending' = pending \/ \E e \in Emails : pending' = Append(pending, e)
  BY DEF ListQueueRecoveryPending, MarkRecovered, EnqueueRecovered, QueueRecoveryDone, Push, vars, worker, redis
<1>2. HeldInv'
  BY <1>1, WakeFacts DEF HeldInv
<1>3. CallersInv'
  BY <1>1, WakeFacts, CallersStay
<1>4. ASSUME NEW f \in Emails PROVE Item(f) => Item(f)'
  <2>1. Contains(pending, f) => Contains(pending', f)
    BY <1>1, FoundWhenPushed, WakeFacts
  <2>2. \A r \in processing : ReceiptBrings(r) => ReceiptBrings(r)'
    BY <1>1 DEF ReceiptBrings
  <2> QED
    BY <1>1, <2>1, <2>2, ItemStays
<1>5. CASE ListQueueRecoveryPending(w)
  <2>1. /\ UNCHANGED <<emails, toMark>>
        /\ toEnqueue' = [toEnqueue EXCEPT ![w] =
              {e \in Emails : emails[e].status = "queued" /\ emails[e].recovery}]
    BY <1>5 DEF ListQueueRecoveryPending, vars
  <2>2. TickInv'
    BY <2>1, WakeFacts DEF TickInv, Stuck
  <2>3. SourcesInv'
    BY <1>1, <1>4, <2>1, WakeFacts DEF SourcesInv, Source, Flagged, StillToPush, StillToReplay, AboutToFail
  <2> QED
    BY <1>2, <1>3, <2>2, <2>3 DEF WakeInv
<1>6. ASSUME NEW e \in Emails, EnqueueRecovered(w, e) PROVE WakeInv'
  <2>1. /\ UNCHANGED emails /\ e \in toEnqueue[w]
        /\ toEnqueue' = [toEnqueue EXCEPT ![w] = @ \ {e}]
        /\ \/ pending' = Append(pending, e) /\ (toMark' = [toMark EXCEPT ![w] = e] \/ UNCHANGED toMark)
           \/ UNCHANGED <<pending, toMark>>
    BY <1>6 DEF EnqueueRecovered, Push, vars
  <2>2. TickInv'
    BY <2>1, WakeFacts DEF TickInv
  <2>3. ASSUME NEW f \in Emails, Flagged(f) PROVE Flagged(f)' \/ Item(f)'
    <3>1. CASE f = e
      BY <2>1, <2>3, <3>1, FoundWhenPushed, WakeFacts DEF Flagged, Item
    <3>2. CASE f # e
      BY <2>1, <2>3, <3>2, WakeFacts DEF Flagged
    <3> QED
      BY <3>1, <3>2
  <2>4. SourcesInv'
    BY <1>1, <1>4, <2>1, <2>3, WakeFacts DEF SourcesInv, Source, StillToPush, StillToReplay, AboutToFail
  <2> QED
    BY <1>2, <1>3, <2>2, <2>4 DEF WakeInv
<1>7. CASE MarkRecovered(w)
  <2>1. PICK e \in Emails : e = toMark[w]
    BY <1>7, WakeFacts DEF MarkRecovered
  <2>2. /\ UNCHANGED toEnqueue /\ toMark' = [toMark EXCEPT ![w] = NULL]
        /\ emails' = [emails EXCEPT ![e] = MarkQueueRecoveryEnqueued(@)] \/ UNCHANGED emails
    BY <1>7, <2>1 DEF MarkRecovered, QueueRecoveryDone, vars
  <2>3. ASSUME NEW f \in Emails
        PROVE  /\ emails'[f].status = emails[f].status /\ emails'[f].state = emails[f].state
               /\ emails'[f].attempt = emails[f].attempt /\ emails'[f].fence = emails[f].fence
               /\ emails'[f].lease = emails[f].lease
               /\ emails'[f].recovery = emails[f].recovery \/ (f = e /\ ~emails'[f].recovery)
    <3>1. CASE emails'[f] = emails[f]
      BY <3>1
    <3>2. CASE emails'[f] # emails[f]
      <4>1. f = e /\ emails'[f] = [emails[e] EXCEPT !.recovery = FALSE]
        BY <2>2, <3>2, WakeFacts DEF MarkQueueRecoveryEnqueued
      <4>2. emails[e] \in Row
        BY WakeFacts
      <4> QED
        BY <4>1, <4>2 DEF Row
    <3> QED
      BY <3>1, <3>2
  <2>4. TickInv'
    <3>1. \A f \in Emails : NotStuckNow(f)
      BY <2>3 DEF NotStuckNow, Stuck
    <3>2. \A v \in Workers : toEnqueue'[v] \subseteq toEnqueue[v] /\ toMark'[v] \in {toMark[v], NULL}
      BY <2>2, WakeFacts
    <3> QED
      BY <3>1, <3>2, WakeFacts, TickStays
  <2>5. SourcesInv'
    <3> SUFFICES ASSUME NEW f \in Emails, emails'[f].status = "queued" PROVE Source(f)'
      BY DEF SourcesInv
    <3>1. Source(f)
      BY <2>3, WakeFacts DEF SourcesInv
    <3>2. Flagged(f) => Flagged(f)'
      BY <2>1, <2>2, <2>3, WakeFacts DEF Flagged
    <3>3. (StillToPush(f) => StillToPush(f)') /\ (StillToReplay(f) => StillToReplay(f)')
      BY <1>1, <2>3 DEF StillToPush, StillToReplay, CanCancelDeadLetterReplay
    <3>4. AboutToFail(f) => AboutToFail(f)'
      BY <1>1, <2>3 DEF AboutToFail, CanMarkDeadLetterFailed
    <3> QED
      BY <1>4, <3>1, <3>2, <3>3, <3>4 DEF Source
  <2> QED
    BY <1>2, <1>3, <2>4, <2>5 DEF WakeInv
<1> QED
  BY <1>5, <1>6, <1>7

-----------------------------------------------------------------------------
(* Steps on Redis alone: the clocks, the API's and the operators' calls.   *)

\* PromoteScheduled, the API's push and ReplayDead put the item on the pending
\* list in the script that takes it from where it was.
LEMMA MoveKeepsWake ==
    ASSUME IInv, QueueInv, WakeInv, NEW e \in Emails,
           \/ PromoteScheduled(e) \/ TriesExpire(e) \/ ApiPush(e)
           \/ \E t \in Attempts : ReplayDead(e, t)
    PROVE  WakeInv'
<1>1. /\ UNCHANGED <<emails, pc, job, used, api, replays, processing, expired, receipt, toEnqueue, toMark>>
      /\ pending' = pending \/ pending' = Append(pending, e)
      /\ \A f \in scheduled : f \in scheduled' \/ (f = e /\ pending' = Append(pending, e))
  BY DEF PromoteScheduled, TriesExpire, ApiPush, ReplayDead, Push, vars, ticks
<1>2. HeldInv'
  BY <1>1, WakeFacts DEF HeldInv
<1>3. TickInv'
  BY <1>1, WakeFacts DEF TickInv
<1>4. /\ pushed' = pushed \/ (pushed' = pushed \cup {e} /\ api[e] = "created" /\ Item(e)')
      /\ moved' = moved \/ (Item(e)' /\ \E t \in replays[e] : moved' = moved \cup {t})
  <2>1. pending' = Append(pending, e) => Contains(pending', e)
    BY FoundWhenPushed, WakeFacts
  <2> QED
    BY <2>1 DEF PromoteScheduled, TriesExpire, ApiPush, ReplayDead, Push, Item
<1>5. CallersInv'
  BY <1>1, <1>4, WakeFacts DEF CallersInv
<1>6. SourcesInv'
  <2> SUFFICES ASSUME NEW f \in Emails, emails'[f].status = "queued" PROVE Source(f)'
    BY DEF SourcesInv
  <2>1. Source(f)
    BY <1>1, WakeFacts DEF SourcesInv
  <2>2. Item(f) => Item(f)'
    <3>1. Contains(pending, f) => Contains(pending', f)
      BY <1>1, FoundWhenPushed, WakeFacts
    <3>2. f \in scheduled => f \in scheduled' \/ Contains(pending', f)
      BY <1>1, FoundWhenPushed, WakeFacts
    <3>3. \A r \in processing : ReceiptBrings(r) => ReceiptBrings(r)'
      BY <1>1 DEF ReceiptBrings
    <3> QED
      BY <1>1, <3>1, <3>2, <3>3 DEF Item
  <2>3. StillToPush(f) => StillToPush(f)' \/ Item(f)'
    BY <1>1, <1>4 DEF StillToPush
  <2>4. StillToReplay(f) => StillToReplay(f)' \/ Item(f)'
    BY <1>1, <1>4, WakeFacts DEF StillToReplay, CallersInv
  <2>5. (Flagged(f) => Flagged(f)') /\ (AboutToFail(f) => AboutToFail(f)')
    BY <1>1 DEF Flagged, AboutToFail
  <2> QED
    BY <2>1, <2>2, <2>3, <2>4, <2>5 DEF Source
<1> QED
  BY <1>2, <1>3, <1>5, <1>6 DEF WakeInv

\* The lease of a receipt nobody holds runs out, and the item comes back.
LEMMA RecoverKeepsWake ==
    ASSUME IInv, QueueInv, WakeInv, Faults = {},
           Recover \/ \E r \in processing : ReceiptExpires(r)
    PROVE  WakeInv'
<1>1. UNCHANGED <<emails, pc, job, used, api, replays, scheduled, receipt, toEnqueue, toMark, pushed, moved>>
  BY DEF Recover, ReceiptExpires, vars, ticks
<1>2. TickInv' /\ CallersInv'
  BY <1>1, WakeFacts DEF TickInv, CallersInv
<1>3. HeldInv'
  <2>1. CASE Recover
    BY <1>1, <2>1, WakeFacts DEF Recover, HeldInv
  <2>2. ASSUME NEW r \in processing, ReceiptExpires(r) PROVE HeldInv'
    BY <1>1, <2>2, WakeFacts DEF ReceiptExpires, HeldInv
  <2> QED
    BY <2>1, <2>2
<1>4. ASSUME NEW f \in Emails PROVE Item(f) => Item(f)'
  <2>1. \A r \in processing : ReceiptBrings(r) => ReceiptBrings(r)'
    BY <1>1 DEF ReceiptBrings
  <2>2. CASE \E r \in processing : ReceiptExpires(r)
    BY <1>1, <2>1, <2>2 DEF ReceiptExpires, Item
  <2>3. CASE Recover
    <3>1. PICK s \in SetToSeqs(expired) : pending' = [i \in DOMAIN s |-> s[i].email] \o pending
      BY <2>3 DEF Recover
    <3> DEFINE n == Cardinality(expired)
               back == [i \in DOMAIN s |-> s[i].email]
    <3>2. IsFiniteSet(expired) /\ n \in Nat
      BY WakeFacts, FS_Subset, FS_CardinalityType DEF QueueInv
    <3>3. s \in [1 .. n -> expired]
      BY DEF SetToSeqs
    <3>4. back \in [1 .. n -> Emails]
      BY <3>3, WakeFacts DEF Receipt
    <3>5. back \in Seq(Emails) /\ Len(back) = n
      <4> HIDE DEF n, back
      <4> QED
        BY <3>2, <3>4, SeqDef
    <3>6. ASSUME NEW r \in expired PROVE Contains(pending', r.email)
      <4>1. PICK i \in DOMAIN s : s[i] = r
        BY <3>2, AllAreListed
      <4>2. i \in 1 .. n /\ back[i] = r.email
        BY <3>3, <4>1
      <4> HIDE DEF n, back
      <4>3. Contains(back, r.email)
        BY <3>5, <4>2 DEF Contains
      <4>4. pending' = back \o pending
        BY <3>1 DEF back
      <4> QED
        BY <3>5, <4>3, <4>4, FoundInEither, WakeFacts
    <3>7. Contains(pending, f) => Contains(pending', f)
      <4>1. pending' = back \o pending
        BY <3>1
      <4> HIDE DEF n, back
      <4> QED
        BY <3>5, <4>1, FoundInEither, WakeFacts
    <3>8. processing' = processing \ expired
      BY <2>3 DEF Recover
    <3>9. ASSUME NEW r \in processing, r.email = f, ReceiptBrings(r)
          PROVE  (r \in processing' /\ ReceiptBrings(r)') \/ Contains(pending', f)
      BY <2>1, <3>6, <3>8, <3>9
    <3> HIDE DEF n, back
    <3> QED
      BY <1>1, <3>7, <3>9, ItemStays
  <2> QED
    BY <2>2, <2>3
<1>5. SourcesInv'
  BY <1>1, <1>4, WakeFacts DEF SourcesInv, Source, Flagged, StillToPush, StillToReplay, AboutToFail
<1> QED
  BY <1>2, <1>3, <1>5 DEF WakeInv

-----------------------------------------------------------------------------
(* Steps on the table alone.                                               *)

\* A caller, a clock or an event handler writes rows and leaves Redis and the
\* workers alone.  What has to be shown of it is that a row it makes queued has
\* a source.
LEMMA TableKeepsWake ==
    ASSUME IInv, QueueInv, WakeInv, UNCHANGED <<queue, pc, job>>, CallersInv', TickInv',
           \A e \in Emails : emails'[e].status = "queued" =>
               \/ Source(e)'
               \/ /\ RowStays(e)
                  /\ StillToPush(e) => StillToPush(e)'
                  /\ replays'[e] = replays[e] \/ (StillToReplay(e) => StillToReplay(e)')
    PROVE  WakeInv'
<1>1. UNCHANGED <<pending, scheduled, processing, expired, receipt, toEnqueue, toMark, pushed, moved>>
  BY DEF queue, redis, ticks
<1>2. HeldInv'
  BY <1>1, WakeFacts DEF HeldInv
<1>3. SourcesInv'
  <2> SUFFICES ASSUME NEW e \in Emails, emails'[e].status = "queued", RowStays(e),
                      StillToPush(e) => StillToPush(e)',
                      replays'[e] = replays[e] \/ (StillToReplay(e) => StillToReplay(e)')
               PROVE  Source(e)'
    BY DEF SourcesInv
  <2>1. Source(e)
    BY WakeFacts DEF SourcesInv, RowStays
  <2>2. Item(e) => Item(e)'
    BY <1>1 DEF Item, ReceiptBrings
  <2>3. Flagged(e) => Flagged(e)'
    BY <1>1 DEF Flagged, RowStays
  <2>4. AboutToFail(e) => AboutToFail(e)'
    BY DEF AboutToFail, RowStays, CanMarkDeadLetterFailed
  <2>5. StillToReplay(e) => StillToReplay(e)'
    BY <1>1 DEF StillToReplay, RowStays, CanCancelDeadLetterReplay
  <2> QED
    BY <2>1, <2>2, <2>3, <2>4, <2>5 DEF Source
<1> QED
  BY <1>2, <1>3 DEF WakeInv

\* The status of a row after each statement of the API and the operators.
LEMMA CallerStatements ==
    ASSUME NEW r \in Row, NEW m
    PROVE  /\ Create(r).status = "queued" /\ UpdateStatus(r, "failed").status = "failed"
           /\ CancelQueued(r).status = "cancelled"
           /\ ReconcileFailed(r).status = "failed" /\ ReconcileAccepted(r, m).status = "sent"
           /\ CancelDeadLetterReplay(r).status = "failed"
           /\ CanCancelDeadLetterReplay(PrepareDeadLetterReplay(r, m), m)
           /\ ~PrepareDeadLetterReplay(r, m).recovery
BY DEF Row, Create, UpdateStatus, CancelQueued, ReconcileFailed, ReconcileAccepted, CancelDeadLetterReplay,
   CanCancelDeadLetterReplay, PrepareDeadLetterReplay

\* A provider event never makes a row queued, nor touches what a queued row's
\* source depends on.
LEMMA EventStatement ==
    ASSUME NEW r \in Row, NEW m, NEW target \in TargetStatus
    PROVE  LET s == ApplyProviderEvent(r, m, target)
           IN  \/ s.status \notin {"queued", "sending"}
               \/ /\ s.status = r.status /\ s.state = r.state /\ s.attempt = r.attempt
                  /\ s.fence = r.fence /\ s.lease = r.lease /\ s.recovery = r.recovery
<1>1. CASE ShouldApplyProviderStatus(r.status, target)
  <2>1. target \notin {"queued", "sending"}
    BY DEF TargetStatus
  <2>2. ApplyProviderEvent(r, m, target).status = target
    BY <1>1 DEF ApplyProviderEvent, Row
  <2> QED
    BY <2>1, <2>2
<1>2. CASE ~ShouldApplyProviderStatus(r.status, target)
  BY <1>2 DEF ApplyProviderEvent, Row
<1> QED
  BY <1>1, <1>2

\* The API: an email it has created and not pushed is its own to push.
LEMMA ApiKeepsWake ==
    ASSUME IInv, QueueInv, WakeInv, Faults = {}, NEW e \in Emails,
           QCreate(e) \/ QReturn(e) \/ QQueueFailed(e) \/ QBecomesDue(e) \/ QCancel(e)
    PROVE  WakeInv'
<1>0. emails \in [Emails -> Row] /\ api \in [Emails -> {"new", "created", "returned"}] /\ emails[e] \in Row
  BY WakeFacts DEF TypeOK
<1>1. /\ UNCHANGED <<queue, pc, job, used, replays>>
      /\ \A f \in Emails \ {e} : emails'[f] = emails[f] /\ api'[f] = api[f]
  BY <1>0 DEF QCreate, QReturn, QQueueFailed, QBecomesDue, QCancel, ApiCreate, ApiReturn, ApiQueueFailed,
     BecomesDue, Cancel, worker
<1>2. UNCHANGED <<toEnqueue, toMark, pushed, moved>>
  BY <1>1 DEF queue, ticks
<1>3. /\ api[e] # "new" => api'[e] # "new"
      /\ ~Stuck(emails'[e]) \/ emails'[e] = emails[e]
      /\ emails'[e].status = "queued" =>
            \/ emails'[e] = emails[e] /\ (StillToPush(e) => StillToPush(e)')
            \/ StillToPush(e)'
  <2>1. CASE QCreate(e)
    <3>1. emails'[e].status = "queued" /\ api'[e] = "created" /\ api[e] = "new"
      BY <1>0, <2>1, CallerStatements DEF QCreate, ApiCreate
    <3>2. e \notin pushed
      BY <3>1, WakeFacts DEF CallersInv
    <3>3. emails[e] = NoRow /\ emails'[e] = Create(emails[e])
      BY <1>0, <2>1, <3>1, WakeFacts DEF QCreate, ApiCreate, IInv, NewIsAbsent, RowsInv, RowInv
    <3>4. ~emails'[e].recovery
      BY <3>3 DEF NoRow, Create
    <3> QED
      BY <1>2, <3>1, <3>2, <3>4 DEF Stuck, StillToPush
  <2>2. CASE QReturn(e)
    BY <1>0, <1>2, <2>2 DEF QReturn, ApiReturn, StillToPush
  <2>3. CASE QQueueFailed(e)
    BY <1>0, <2>3, CallerStatements DEF QQueueFailed, ApiQueueFailed, Stuck
  <2>4. CASE QBecomesDue(e)
    BY <1>2, <2>4 DEF QBecomesDue, BecomesDue, StillToPush
  <2>5. CASE QCancel(e)
    BY <1>0, <2>5, CallerStatements DEF QCancel, Cancel, Stuck
  <2> QED
    BY <2>1, <2>2, <2>3, <2>4, <2>5
<1>4. CallersInv'
  BY <1>1, <1>2, <1>3, WakeFacts, CallersStay
<1>5. TickInv'
  <2>1. \A f \in Emails : NotStuckNow(f)
    BY <1>1, <1>3 DEF NotStuckNow
  <2> QED
    BY <1>2, <2>1, WakeFacts, TickStays
<1>6. ASSUME NEW f \in Emails, emails'[f].status = "queued"
      PROVE  Source(f)' \/ (RowStays(f) /\ (StillToPush(f) => StillToPush(f)') /\ replays'[f] = replays[f])
  <2>1. CASE f = e
    BY <1>1, <1>3, <1>6, <2>1, UnwrittenStays DEF Source
  <2>2. CASE f # e
    BY <1>1, <1>2, <2>2, UnwrittenStays DEF StillToPush
  <2> QED
    BY <2>1, <2>2
<1> QED
  BY <1>1, <1>4, <1>5, <1>6, TableKeepsWake

\* The operators: a row that is prepared for a replay has the caller's token, and
\* the caller moves the ID or takes the row back.
LEMMA OperatorKeepsWake ==
    ASSUME IInv, QueueInv, WakeInv, Faults = {}, NEW e \in Emails,
           \/ QReplayPrepare(e) \/ QReview(e)
           \/ \E t \in Attempts : QReplayDone(e, t) \/ QReplayCancel(e, t)
    PROVE  WakeInv'
<1>0. emails \in [Emails -> Row] /\ replays \in [Emails -> SUBSET Attempts] /\ emails[e] \in Row
  BY WakeFacts DEF TypeOK
<1>1. /\ UNCHANGED <<queue, pc, job, api>> /\ used \subseteq used'
      /\ \A f \in Emails \ {e} : emails'[f] = emails[f] /\ replays'[f] = replays[f]
  BY <1>0 DEF QReplayPrepare, QReview, QReplayDone, QReplayCancel, ReplayPrepare, ReviewFailed, ReviewAccepted,
     ReplayDone, ReplayCancel, worker
<1>2. UNCHANGED <<toEnqueue, toMark, pushed, moved>>
  BY <1>1 DEF queue, ticks
<1>3. /\ CallersInv'
      /\ emails'[e] = emails[e] \/ emails'[e].status # "sending"
      /\ emails'[e].status = "queued" =>
            \/ StillToReplay(e)'
            \/ emails'[e] = emails[e] /\ (StillToReplay(e) => StillToReplay(e)')
  <2>1. CASE QReplayPrepare(e)
    <3>1. PICK t \in Attempts \ used :
            /\ emails' = [emails EXCEPT ![e] = PrepareDeadLetterReplay(@, t)]
            /\ used' = used \cup {t} /\ replays' = [replays EXCEPT ![e] = @ \cup {t}]
      BY <2>1 DEF QReplayPrepare, ReplayPrepare
    <3>2. t \notin moved /\ \A f \in Emails : t \notin replays[f]
      BY WakeFacts DEF CallersInv
    <3>3. CallersInv'
      BY <1>0, <1>1, <1>2, <3>1, <3>2, WakeFacts DEF CallersInv
    <3>4. CanCancelDeadLetterReplay(emails'[e], t) /\ ~emails'[e].recovery
      BY <1>0, <3>1, CallerStatements
    <3> QED
      BY <1>0, <1>2, <3>1, <3>2, <3>3, <3>4 DEF StillToReplay, CanCancelDeadLetterReplay
  <2>2. CASE QReview(e)
    <3>1. emails'[e].status \in {"failed", "sent"} /\ UNCHANGED replays
      BY <1>0, <2>2, CallerStatements DEF QReview, ReviewFailed, ReviewAccepted
    <3>2. CallersInv'
      BY <1>1, <1>2, <3>1, WakeFacts, CallersStay
    <3> QED
      BY <3>1, <3>2
  <2>3. ASSUME NEW t \in Attempts, QReplayDone(e, t) \/ QReplayCancel(e, t)
        PROVE  /\ CallersInv'
               /\ emails'[e] = emails[e] \/ emails'[e].status = "failed"
               /\ emails'[e] = emails[e] => (StillToReplay(e) => StillToReplay(e)')
    <3>1. replays' = [replays EXCEPT ![e] = @ \ {t}]
      BY <2>3 DEF QReplayDone, QReplayCancel, ReplayDone, ReplayCancel
    <3>2. CallersInv'
      BY <1>0, <1>1, <1>2, <3>1, WakeFacts, CallersStay
    <3>3. CASE QReplayCancel(e, t)
      BY <1>0, <3>2, <3>3, CallerStatements DEF QReplayCancel, ReplayCancel, CanCancelDeadLetterReplay
    <3>4. CASE QReplayDone(e, t)
      <4>1. UNCHANGED emails /\ (t \in moved \/ ~CanCancelDeadLetterReplay(emails[e], t))
        BY <3>4 DEF QReplayDone, ReplayDone
      <4> QED
        BY <1>0, <1>2, <3>1, <3>2, <4>1 DEF StillToReplay
    <3> QED
      BY <2>3, <3>3, <3>4
  <2> QED
    BY <2>1, <2>2, <2>3
<1>4. TickInv'
  <2>1. \A f \in Emails : NotStuckNow(f)
    BY <1>1, <1>3 DEF NotStuckNow, Stuck
  <2> QED
    BY <1>2, <2>1, WakeFacts, TickStays
<1>5. ASSUME NEW f \in Emails, emails'[f].status = "queued"
      PROVE  \/ Source(f)'
             \/ /\ RowStays(f)
                /\ StillToPush(f) => StillToPush(f)'
                /\ replays'[f] = replays[f] \/ (StillToReplay(f) => StillToReplay(f)')
  <2>1. emails'[f] = emails[f] => (StillToPush(f) => StillToPush(f)')
    BY <1>1, <1>2 DEF StillToPush
  <2>2. CASE f = e
    BY <1>3, <1>5, <2>1, <2>2, UnwrittenStays DEF Source
  <2>3. CASE f # e
    BY <1>1, <2>1, <2>3, UnwrittenStays
  <2> QED
    BY <2>2, <2>3
<1> QED
  BY <1>1, <1>3, <1>4, <1>5, TableKeepsWake

\* The send leases and the provider's events.  A lease that runs out belongs to no
\* row a tick is working on; the row it is recovered to is flagged.
LEMMA ClockAndEventsKeepWake ==
    ASSUME IInv, QueueInv, WakeInv, Faults = {},
           \/ \E e \in Emails : QLeaseExpires(e) \/ \E m \in Attempts : QProviderEvent(e, m)
           \/ QRecoverExpired
    PROVE  WakeInv'
<1>0. emails \in [Emails -> Row] /\ \A e \in Emails : emails[e] \in Row
  BY WakeFacts
<1>1. UNCHANGED <<queue, pc, job, used, api, replays>>
  BY DEF QLeaseExpires, QProviderEvent, QRecoverExpired, LeaseExpires, CorrelateProviderEvent,
     HandleProviderEvent, RecoverExpiredSendAttempts, worker
<1>2. UNCHANGED <<toEnqueue, toMark, pushed, moved>>
  BY <1>1 DEF queue, ticks
<1>3. CallersInv'
  BY <1>1, <1>2, WakeFacts, CallersStay
<1>4. ASSUME NEW f \in Emails
      PROVE  /\ emails'[f].status = "queued" => RowStays(f) \/ Flagged(f)'
             /\ \A w \in Workers : f \in toEnqueue[w] \/ toMark[w] = f => NotStuckNow(f)
  <2>1. ASSUME NEW e \in Emails, QLeaseExpires(e)
        PROVE  RowStays(f) /\ \A w \in Workers : f \in toEnqueue[w] \/ toMark[w] = f => NotStuckNow(f)
    <3>1. CASE f # e
      <4>1. emails'[f] = emails[f]
        BY <1>0, <2>1, <3>1 DEF QLeaseExpires, LeaseExpires
      <4> QED
        BY <4>1, UnwrittenStays
    <3>2. CASE f = e
      <4>1. emails'[f] = [emails[f] EXCEPT !.lease = "expired"] /\ emails[f] \in Row
        BY <1>0, <2>1, <3>2 DEF QLeaseExpires, LeaseExpires
      <4>2. RowStays(f)
        BY <4>1 DEF RowStays, Row
      <4>3. \A w \in Workers : f \notin toEnqueue[w] /\ toMark[w] # f
        BY <2>1, <3>2 DEF QLeaseExpires
      <4> QED
        BY <4>2, <4>3
    <3> QED
      BY <3>1, <3>2
  <2>2. ASSUME NEW e \in Emails, NEW m \in Attempts, QProviderEvent(e, m)
        PROVE  RowStays(f) /\ NotStuckNow(f)
    <3>1. CASE emails'[f] = emails[f]
      BY <3>1, UnwrittenStays
    <3>2. CASE emails'[f] # emails[f]
      <4>1. PICK target \in TargetStatus : emails'[f] = ApplyProviderEvent(emails[f], m, target)
        BY <1>0, <2>2, <3>2 DEF QProviderEvent, CorrelateProviderEvent, HandleProviderEvent
      <4> QED
        BY <1>0, <4>1, EventStatement DEF RowStays, NotStuckNow, Stuck
    <3> QED
      BY <3>1, <3>2
  <2>3. CASE QRecoverExpired
    <3>1. emails'[f] = RecoverExpiredSendAttempt(emails[f]) /\ emails[f] \in Row
      BY <1>0, <2>3 DEF QRecoverExpired, RecoverExpiredSendAttempts
    <3>2. CASE CanRequeueExpired(emails[f])
      <4>1. emails'[f].status = "queued" /\ emails'[f].recovery
        BY <3>1, <3>2 DEF RecoverExpiredSendAttempt, Row
      <4>2. \A w \in Workers : toMark[w] # f
        BY <3>2, WakeFacts DEF CanRequeueExpired, TickInv, Stuck
      <4> QED
        BY <1>2, <4>1, <4>2 DEF Flagged, NotStuckNow, Stuck
    <3>3. CASE ~CanRequeueExpired(emails[f]) /\ CanQuarantineExpired(emails[f])
      <4>1. emails'[f].status = "ambiguous"
        BY <3>1, <3>3 DEF RecoverExpiredSendAttempt, Row
      <4> QED
        BY <4>1 DEF RowStays, NotStuckNow, Stuck
    <3>4. CASE ~CanRequeueExpired(emails[f]) /\ ~CanQuarantineExpired(emails[f])
      <4>1. emails'[f] = emails[f]
        BY <3>1, <3>4 DEF RecoverExpiredSendAttempt
      <4> QED
        BY <4>1, UnwrittenStays
    <3> QED
      BY <3>2, <3>3, <3>4
  <2> QED
    BY <2>1, <2>2, <2>3
<1>5. TickInv'
  BY <1>2, <1>4, WakeFacts DEF TickInv, NotStuckNow
<1>6. ASSUME NEW f \in Emails, emails'[f].status = "queued"
      PROVE  Source(f)' \/ (RowStays(f) /\ (StillToPush(f) => StillToPush(f)') /\ replays'[f] = replays[f])
  BY <1>1, <1>2, <1>4, <1>6 DEF RowStays, Source, StillToPush
<1> QED
  BY <1>1, <1>3, <1>5, <1>6, TableKeepsWake

-----------------------------------------------------------------------------
\* A queued row that stays queued keeps its flag, but for the tick's statement.
LEMMA OnlyTheTickClears ==
    ASSUME IInv, QueueInv, WakeInv, [QueueNext]_queueVars, NEW e \in Emails,
           emails[e].recovery, ~emails'[e].recovery,
           emails[e].status = "queued", emails'[e].status = "queued"
    PROVE  \E w \in Workers : MarkRecovered(w) /\ toMark[w] = e
<1>0. emails \in [Emails -> Row] /\ (\A f \in Emails : emails[f] \in Row) /\ ~RowStays(e)
  BY WakeFacts DEF RowStays
<1>1. ASSUME NEW f \in Emails, NEW r, emails' = [emails EXCEPT ![f] = r] PROVE f = e /\ emails'[e] = r
  BY <1>0, <1>1
<1>2. ASSUME NEW w \in Workers, QueueWorkerStep(w) PROVE MarkRecovered(w) /\ toMark[w] = e
  <2>1. CASE QProcess(w)
    <3>1. e = job[w] /\ PersistRetryable(w) /\ emails'[e] # emails[e]
      BY <1>0, <2>1, ProcessRows DEF QProcess, Claim, CheckRecipientSuppression, MarkStarted, Send,
         PersistAccepted, PersistUnknown, PersistFailed
    <3> QED
      BY <3>1 DEF PersistRetryable, CanMarkSendRetryable, Owns
  <2>2. CASE QMarkFailed(w)
    <3>1. job[w] \in Emails
      BY <2>2, WakeFacts DEF QMarkFailed, MarkFailedFromQueue, TypeOK
    <3>2. emails' = [emails EXCEPT ![job[w]] = MarkDeadLetterFailed(emails[job[w]])]
      BY <2>2 DEF QMarkFailed, MarkFailedFromQueue, Write
    <3>3. emails'[e] = MarkDeadLetterFailed(emails[e])
      BY <1>1, <3>1, <3>2
    <3>4. MarkDeadLetterFailed(emails[e]).status = "failed"
      BY <1>0 DEF MarkDeadLetterFailed, Row
    <3> QED
      BY <3>3, <3>4
  <2>3. CASE MarkRecovered(w)
    <3>1. emails' = [emails EXCEPT ![toMark[w]] = MarkQueueRecoveryEnqueued(@)] /\ toMark[w] \in Emails
      BY <2>3, WakeFacts DEF MarkRecovered, QueueRecoveryDone, vars
    <3> QED
      BY <1>1, <2>3, <3>1
  <2>4. CASE UNCHANGED emails
    BY <2>4
  <2> QED
    BY <1>2, <2>1, <2>2, <2>3, <2>4 DEF QueueWorkerStep, Dequeue, QRead, Read, SettleFails, Ack, Requeue,
       RequeueDead, Reschedule, Settle, DeadLetter, QCrash, Crash, ListQueueRecoveryPending, EnqueueRecovered, vars
<1>3. ASSUME NEW f \in Emails, QueueRowStep(f) PROVE FALSE
  <2>1. CASE UNCHANGED emails
    BY <2>1
  <2>2. CASE QLeaseExpires(f)
    <3>1. emails'[e] = [emails[e] EXCEPT !.lease = "expired"]
      BY <1>1, <2>2 DEF QLeaseExpires, LeaseExpires
    <3> QED
      BY <1>0, <3>1 DEF Row
  <2>3. CASE QCreate(f)
    <3>1. f = e /\ api[f] = "new"
      BY <1>1, <2>3 DEF QCreate, ApiCreate
    <3> QED
      BY <3>1 DEF IInv, NewIsAbsent
  <2>4. CASE QQueueFailed(f) \/ QCancel(f) \/ QReview(f)
    <3>1. emails'[e].status \in {"failed", "cancelled", "sent"}
      BY <1>0, <1>1, <2>4, CallerStatements DEF QQueueFailed, ApiQueueFailed, QCancel, Cancel, QReview,
         ReviewFailed, ReviewAccepted
    <3> QED
      BY <3>1
  <2>5. CASE QReplayPrepare(f)
    <3>1. f = e /\ CanPrepareDeadLetterReplay(emails[f])
      BY <1>1, <2>5 DEF QReplayPrepare, ReplayPrepare
    <3> QED
      BY <3>1 DEF CanPrepareDeadLetterReplay
  <2>6. ASSUME NEW t \in Attempts, QReplayCancel(f, t) PROVE FALSE
    <3>1. emails'[e].status = "failed"
      BY <1>0, <1>1, <2>6, CallerStatements DEF QReplayCancel, ReplayCancel
    <3> QED
      BY <3>1
  <2>7. ASSUME NEW m \in Attempts, NEW target \in TargetStatus, HandleProviderEvent(f, m, target) PROVE FALSE
    <3>1. emails'[e] = ApplyProviderEvent(emails[e], m, target)
      BY <1>0, <1>1, <2>7 DEF HandleProviderEvent
    <3> QED
      BY <1>0, <3>1, EventStatement
  <2> QED
    BY <1>3, <2>1, <2>2, <2>3, <2>4, <2>5, <2>6, <2>7 DEF QueueRowStep, PromoteScheduled, TriesExpire, ApiPush,
       QReturn, ApiReturn, QBecomesDue, BecomesDue, ReplayDead, QReplayDone, ReplayDone, QProviderEvent,
       CorrelateProviderEvent, vars
<1>4. CASE QRecoverExpired
  <2>1. emails'[e] = RecoverExpiredSendAttempt(emails[e])
    BY <1>4 DEF QRecoverExpired, RecoverExpiredSendAttempts
  <2> QED
    BY <2>1 DEF RecoverExpiredSendAttempt, CanRequeueExpired, CanQuarantineExpired
<1>5. CASE UNCHANGED vars
  BY <1>5 DEF vars
<1> QED
  BY <1>2, <1>3, <1>4, <1>5 DEF QueueNext, queueVars, Recover, ReceiptExpires

LEMMA WakeInit == QueueInit => WakeInv
<1> SUFFICES ASSUME QueueInit PROVE WakeInv
  OBVIOUS
<1>1. \A e \in Emails : emails[e].status = "absent"
  BY DEF QueueInit, Init, NoRow
<1> QED
  BY <1>1, QueueAssumption
     DEF QueueInit, Init, WakeInv, SourcesInv, HeldInv, TickInv, CallersInv, Stuck

\* Without the faults, every step keeps it.
LEMMA WakeNext ==
    ASSUME IInv, QueueInv, WakeInv, Faults = {}, [QueueNext]_queueVars
    PROVE  WakeInv'
<1>1. ASSUME NEW w \in Workers, QueueWorkerStep(w) PROVE WakeInv'
  BY <1>1, DequeueKeepsWake, ProcessKeepsWake, SettleKeepsWake, RequeueDeadKeepsWake, MarkFailedKeepsWake,
     CrashKeepsWake, TickKeepsWake DEF QueueWorkerStep
<1>2. ASSUME NEW e \in Emails, QueueRowStep(e) PROVE WakeInv'
  BY <1>2, MoveKeepsWake, ApiKeepsWake, OperatorKeepsWake, ClockAndEventsKeepWake DEF QueueRowStep
<1>3. CASE Recover \/ QRecoverExpired \/ \E r \in processing : ReceiptExpires(r)
  BY <1>3, RecoverKeepsWake, ClockAndEventsKeepWake
<1>4. CASE UNCHANGED queueVars
  BY <1>4, WakeFacts DEF queueVars, vars, queue, redis, ticks, WakeInv, SourcesInv, HeldInv, TickInv, CallersInv,
     Source, Item, ReceiptBrings, Flagged, StillToPush, StillToReplay, AboutToFail
<1> QED
  BY <1>1, <1>2, <1>3, <1>4 DEF QueueNext

\* As long as none of the four faults happens, no queued email is forgotten, with
\* any number of workers, emails and receipts: whatever workers crash, replies get
\* lost, calls fail and items are duplicated, something will bring it to a worker
\* (Enqueue, Requeue, Recover, RecoverSending, ReplayDead) or fail its row.
THEOREM NothingIsForgotten == ASSUME Faults = {} PROVE QueueSpec => []NoLostWakeup
<1>1. QueueInit => IInv /\ QueueInv /\ WakeInv
  BY QueueInitInv, InitInv, WakeInit
<1>2. IInv /\ QueueInv /\ WakeInv /\ [QueueNext]_queueVars => IInv' /\ QueueInv' /\ WakeInv'
  BY QueueNextInv, NextInv, WakeNext
<1>3. WakeInv => NoLostWakeup
  BY DEF WakeInv, SourcesInv, Source, Item, Flagged, StillToPush, StillToReplay, AboutToFail,
     NoLostWakeup, Wakeable
<1> QED
  BY <1>1, <1>2, <1>3, PTL DEF QueueSpec

-----------------------------------------------------------------------------
(* What the documentation and a test say of dead letters and of recovered  *)
(* rows is true of the code as long as none of the faults happens.         *)

\* An item on the dead list whose row is still queued is about to be failed or
\* brought to a worker: every other dead letter can be replayed.
THEOREM DeadLettersAreReplayable == ASSUME Faults = {} PROVE QueueSpec => []DeadLetterIsReplayable
<1>1. ASSUME NoLostWakeup PROVE DeadLetterIsReplayable
  BY <1>1 DEF NoLostWakeup, DeadLetterIsReplayable
<1> QED
  BY <1>1, NothingIsForgotten, PTL

\* MarkQueueRecoveryEnqueued clears the flag of a queued row only while an item in
\* Redis will bring the row to a worker, although the push that put the item there
\* was another call, and other workers may have popped it, claimed the row and died
\* since.
THEOREM RecoveredRowsStayPending == ASSUME Faults = {} PROVE QueueSpec => RecoveredStaysPending
<1> DEFINE Kept ==
      \A e \in Emails :
          /\ emails[e].recovery /\ ~emails'[e].recovery
          /\ emails[e].status = "queued" /\ emails'[e].status = "queued"
          => \/ Contains(pending, e) \/ e \in scheduled
             \/ \E r \in processing : r.email = e
<1>1. ASSUME IInv, QueueInv, WakeInv, [QueueNext]_queueVars PROVE [Kept]_queueVars
  <2> SUFFICES ASSUME NEW e \in Emails, emails[e].recovery, ~emails'[e].recovery,
                      emails[e].status = "queued", emails'[e].status = "queued"
               PROVE  Item(e)
    BY DEF Item
  <2>1. Source(e)
    BY <1>1, WakeFacts DEF SourcesInv
  <2>2. SUFFICES ~Flagged(e)
    BY <2>1 DEF Source, StillToPush, StillToReplay, AboutToFail, CanMarkDeadLetterFailed
  <2>3. PICK w \in Workers : MarkRecovered(w) /\ toMark[w] = e
    BY <1>1, OnlyTheTickClears
  <2> QED
    BY <2>3 DEF Flagged
<1>2. QueueInit => IInv /\ QueueInv /\ WakeInv
  BY QueueInitInv, InitInv, WakeInit
<1>3. IInv /\ QueueInv /\ WakeInv /\ [QueueNext]_queueVars => IInv' /\ QueueInv' /\ WakeInv'
  BY QueueNextInv, NextInv, WakeNext
<1> QED
  BY <1>1, <1>2, <1>3, PTL DEF QueueSpec, RecoveredStaysPending
=============================================================================
