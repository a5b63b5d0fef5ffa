---------------------------- MODULE IntakeProofs ----------------------------
(***************************************************************************)
(* One key one email, one batch one payload, and a quota that is exact,    *)
(* for any keys, bodies, limits, batch sizes and requests under way.       *)
(*                                                                         *)
(* The three properties speak of answers and of a counter.  What makes     *)
(* them inductive is what each request has established so far (GoodSlot):  *)
(* past the manifest its items are the manifest's; the row it is about to  *)
(* answer with is the row of its key and its body; it holds a reservation  *)
(* exactly while it is creating, pushing or releasing, and if the day it   *)
(* noted is still today, the reservation is on today's counter.            *)
(***************************************************************************)
EXTENDS Intake, FiniteSetTheorems, TLAPS

Request ==
    [pc : {"ensure", "lookup", "limit", "reserve", "create", "push", "release"},
     key : SingleKeys \cup BatchKeys \cup {NoKey}, items : Lists \cup [1..1 -> Bodies],
     n : 1..BatchSize, day : Days, lim : DailyLimits \cup {0}, charged : Days,
     id : 0..MaxEmails]

Reply == [key : AllKeys, body : Bodies, id : 1..MaxEmails, of : SingleKeys \cup BatchKeys]

Size(s) == IF s.key \in BatchKeys THEN BatchSize ELSE 1

BodyOf(s) == s.items[s.n]

KeyOf(s) == ItemKey(s.key, s.n)

HeldBy(s) == IF s.pc # "idle" /\ s.charged = "today" THEN BodyOf(s) ELSE 0

\* Row i is what a request that is at s asks for.
IsRowOf(i, s, rows) ==
    i \in 1..Len(rows) /\ rows[i].key = KeyOf(s) /\ rows[i].body = BodyOf(s)

Reserved(s) ==
    IF s.pc \in {"create", "push", "release"}
    THEN s.charged # "none" /\ (s.day = "today" => s.charged = "today")
    ELSE s.charged = "none"

GoodSlot(s, rows, lists) ==
    s.pc # "idle" =>
        /\ s.items \in [1..Size(s) -> Bodies] /\ s.n \in 1..Size(s)
        /\ s.key \in BatchKeys /\ s.pc # "ensure" => lists[s.key] = s.items
        /\ s.pc = "ensure" => s.key \in BatchKeys
        /\ s.pc = "reserve" => s.lim \in DailyLimits
        /\ s.id # 0 => IsRowOf(s.id, s, rows)
        /\ s.pc = "push" => s.id # 0
        /\ s.pc \notin {"push", "release"} => s.id = 0
        /\ Reserved(s)

SlotsInv == \A r \in IntakeSlots : GoodSlot(slot[r], emails, manifests)

\* ux_emails_team_idempotency_key
KeysAreUnique ==
    \A i, j \in 1..Len(emails) :
        emails[i].key = emails[j].key /\ emails[i].key # NoKey => i = j

\* An answer is the row of its key, and an item of the manifest.
GoodReply(x, rows, lists) ==
    /\ x.id \in 1..Len(rows) /\ rows[x.id].key = x.key /\ rows[x.id].body = x.body
    /\ x.key # NoKey
    /\ x.of \in BatchKeys => \E n \in 1..BatchSize :
          x.key = <<x.of, n>> /\ lists[x.of] \in Lists /\ lists[x.of][n] = x.body

RepliesInv == \A x \in replies : GoodReply(x, emails, manifests)

QuotaInv == IsFiniteSet(UnitsHeld) /\ used = accepted + leaked + Cardinality(UnitsHeld)

IntakeInv == IntakeTypeOK /\ SlotsInv /\ KeysAreUnique /\ RepliesInv /\ QuotaInv

-----------------------------------------------------------------------------
(* The operators                                                           *)

LEMMA LargestLimit ==
    /\ Max(DailyLimits) \in DailyLimits /\ Max(DailyLimits) \in Nat
    /\ \A lim \in DailyLimits : lim <= Max(DailyLimits)
<1>1. \E m \in DailyLimits : \A lim \in DailyLimits : m >= lim
  BY IntakeAssumption
<1>2. Max(DailyLimits) \in DailyLimits /\ \A lim \in DailyLimits : Max(DailyLimits) >= lim
  BY <1>1 DEF Max
<1> QED
  BY <1>2, IntakeAssumption

LEMMA Monus ==
    ASSUME NEW a \in Nat, NEW b \in Nat, b <= a
    PROVE  Max({0, a - b}) = a - b
<1>1. a - b \in {0, a - b} /\ \A y \in {0, a - b} : a - b >= y
  OBVIOUS
<1>2. \A x \in {0, a - b} : (\A y \in {0, a - b} : x >= y) => x = a - b
  OBVIOUS
<1> QED
  BY <1>1, <1>2 DEF Max

LEMMA MinOfOne ==
    ASSUME NEW i \in Nat, NEW S, S = {i}
    PROVE  Min(S) = i
<1>1. i \in S /\ \A y \in S : i <= y
  OBVIOUS
<1> QED
  BY <1>1 DEF Min

\* An empty list is no list of a batch.
LEMMA ListsAreNotEmpty == <<>> \notin Lists
<1> SUFFICES ASSUME <<>> \in Lists PROVE FALSE
  OBVIOUS
<1>1. DOMAIN <<>> = 1..BatchSize
  BY DEF Lists
<1>2. 1 \in DOMAIN <<>>
  BY <1>1, IntakeAssumption
<1> QED
  BY <1>2

\* What a request is about.
LEMMA RequestFields ==
    ASSUME NEW s \in SlotState, s.pc # "idle"
    PROVE  /\ s \in Request
           /\ s.pc \in {"ensure", "lookup", "limit", "reserve", "create", "push", "release"}
           /\ s.key \in SingleKeys \cup BatchKeys \cup {NoKey}
           /\ s.items \in Lists \cup [1..1 -> Bodies]
           /\ s.n \in 1..BatchSize /\ s.day \in Days /\ s.lim \in DailyLimits \cup {0}
           /\ s.charged \in Days /\ s.id \in 0..MaxEmails
<1>1. s # IdleSlot
  BY DEF IdleSlot
<1>2. s \in Request
  BY <1>1 DEF SlotState, Request
<1> QED
  BY <1>2 DEF Request

LEMMA RequestIsState == Request \subseteq SlotState
BY DEF Request, SlotState

LEMMA RequestContent ==
    ASSUME NEW s \in SlotState, s.pc # "idle", NEW rows, NEW lists, GoodSlot(s, rows, lists)
    PROVE  /\ BodyOf(s) \in Bodies /\ BodyOf(s) \in Nat \ {0}
           /\ KeyOf(s) \in AllKeys
           /\ KeyOf(s) = NoKey <=> s.key = NoKey
           /\ s.key \in BatchKeys => KeyOf(s) = <<s.key, s.n>>
           /\ Len(s.items) = Size(s)
           /\ HeldBy(s) \in Nat
<1>1. s.items \in [1..Size(s) -> Bodies] /\ s.n \in 1..Size(s) /\ Size(s) \in Nat
  BY IntakeAssumption DEF GoodSlot, Size
<1>2. BodyOf(s) \in Bodies
  BY <1>1 DEF BodyOf
<1>3. s.key \in SingleKeys \cup BatchKeys \cup {NoKey} /\ s.n \in 1..BatchSize
  BY RequestFields
<1>4. Len(s.items) = Size(s)
  BY <1>1
<1>5. KeyOf(s) \in AllKeys /\ (KeyOf(s) = NoKey <=> s.key = NoKey)
  BY <1>3, IntakeAssumption DEF KeyOf, ItemKey, AllKeys
<1>6. s.key \in BatchKeys => KeyOf(s) = <<s.key, s.n>>
  BY DEF KeyOf, ItemKey
<1> QED
  BY <1>2, <1>4, <1>5, <1>6, IntakeAssumption DEF HeldBy

-----------------------------------------------------------------------------
(* The units of several holders, and what one of them changes.             *)

Units(h) == UNION {{q} \X (1..h[q]) : q \in IntakeSlots}

LEMMA UnitsOfOne ==
    ASSUME NEW r, NEW v \in Nat
    PROVE  IsFiniteSet({r} \X (1..v)) /\ Cardinality({r} \X (1..v)) = v
<1>1. IsFiniteSet(1..v) /\ Cardinality(1..v) = v
  BY FS_Interval
<1>2. IsFiniteSet({r}) /\ Cardinality({r}) = 1
  BY FS_Singleton
<1> QED
  BY <1>1, <1>2, FS_Product

LEMMA UnitsMove ==
    ASSUME NEW h \in [IntakeSlots -> Nat], IsFiniteSet(Units(h)), NEW r \in IntakeSlots, NEW v \in Nat,
           NEW g, g = [h EXCEPT ![r] = v]
    PROVE  /\ IsFiniteSet(Units(g))
           /\ Cardinality(Units(g)) = Cardinality(Units(h)) - h[r] + v
           /\ Cardinality(Units(h)) \in Nat /\ h[r] <= Cardinality(Units(h))
<1> DEFINE own == {r} \X (1..h[r])
           new == {r} \X (1..v)
           rest == Units(h) \ own
<1>1. Units(h) \cap own = own
  BY DEF Units
<1>2. Units(g) = rest \cup new /\ rest \cap new = {}
  BY DEF Units
<1>3. IsFiniteSet(own) /\ Cardinality(own) = h[r] /\ IsFiniteSet(new) /\ Cardinality(new) = v
  BY UnitsOfOne
<1>4. IsFiniteSet(rest) /\ Cardinality(rest) = Cardinality(Units(h)) - h[r]
  BY <1>1, <1>3, FS_Difference
<1>5. Cardinality(Units(h)) \in Nat /\ Cardinality(rest) \in Nat
  BY <1>4, FS_CardinalityType
<1> HIDE DEF own, new, rest
<1>6. IsFiniteSet(rest \cup new)
      /\ Cardinality(rest \cup new) = Cardinality(rest) + v - Cardinality({})
  BY <1>2, <1>3, <1>4, FS_Union
<1>7. Cardinality({}) = 0
  BY FS_EmptySet
<1>8. h[r] \in Nat
  OBVIOUS
<1>9. IsFiniteSet(Units(g)) /\ Cardinality(Units(g)) = Cardinality(rest) + v - Cardinality({})
  BY <1>2, <1>6
<1>10. /\ Cardinality(Units(g)) = Cardinality(Units(h)) - h[r] + v
       /\ h[r] <= Cardinality(Units(h))
  BY <1>4, <1>5, <1>7, <1>8, <1>9
<1> QED
  BY <1>5, <1>9, <1>10

\* The state's units, by what each request holds.
LEMMA UnitsOfState ==
    /\ UnitsHeld = Units([q \in IntakeSlots |-> HeldBy(slot[q])])
    /\ \A r \in IntakeSlots : Held(r) = HeldBy(slot[r]) /\ Body(r) = BodyOf(slot[r]) /\ Key(r) = KeyOf(slot[r])
<1>1. \A r \in IntakeSlots : Held(r) = HeldBy(slot[r]) /\ Body(r) = BodyOf(slot[r]) /\ Key(r) = KeyOf(slot[r])
  BY DEF Held, HeldBy, Body, BodyOf, Key, KeyOf
<1>2. \A q \in IntakeSlots : {q} \X (1..Held(q)) = {q} \X (1..[p \in IntakeSlots |-> HeldBy(slot[p])][q])
  BY <1>1
<1> QED
  BY <1>1, <1>2 DEF UnitsHeld, Units

LEMMA HeldIsNat ==
    ASSUME IntakeTypeOK, SlotsInv
    PROVE  [q \in IntakeSlots |-> HeldBy(slot[q])] \in [IntakeSlots -> Nat]
<1> SUFFICES ASSUME NEW q \in IntakeSlots PROVE HeldBy(slot[q]) \in Nat
  OBVIOUS
<1>1. slot[q] \in SlotState /\ GoodSlot(slot[q], emails, manifests)
  BY DEF IntakeTypeOK, SlotsInv
<1> QED
  BY <1>1, RequestContent DEF HeldBy

-----------------------------------------------------------------------------
(* Rows and manifests only grow, and what was good stays good.             *)

RowsGrow(rows, rows2) ==
    /\ Len(rows) \in Nat /\ Len(rows2) \in Nat /\ Len(rows) <= Len(rows2)
    /\ \A i \in 1..Len(rows) : rows2[i].key = rows[i].key /\ rows2[i].body = rows[i].body

ListsGrow(lists, lists2) == \A k \in BatchKeys : lists[k] \in Lists => lists2[k] = lists[k]

LEMMA RowsAreStable == ASSUME IntakeTypeOK PROVE RowsGrow(emails, emails) /\ ListsGrow(manifests, manifests)
BY DEF IntakeTypeOK, RowsGrow, ListsGrow

LEMMA GoodSlotStays ==
    ASSUME NEW s, NEW rows, NEW lists, NEW rows2, NEW lists2,
           GoodSlot(s, rows, lists), RowsGrow(rows, rows2), ListsGrow(lists, lists2)
    PROVE  GoodSlot(s, rows2, lists2)
<1> SUFFICES ASSUME s.pc # "idle" PROVE GoodSlot(s, rows2, lists2)
  BY DEF GoodSlot
<1>1. s.id # 0 => IsRowOf(s.id, s, rows2)
  BY DEF GoodSlot, IsRowOf, RowsGrow
<1>2. s.key \in BatchKeys /\ s.pc # "ensure" => lists2[s.key] = s.items
  BY DEF GoodSlot, ListsGrow, Size, Lists
<1> QED
  BY <1>1, <1>2 DEF GoodSlot

LEMMA GoodReplyStays ==
    ASSUME NEW x, NEW rows, NEW lists, NEW rows2, NEW lists2,
           GoodReply(x, rows, lists), RowsGrow(rows, rows2), ListsGrow(lists, lists2)
    PROVE  GoodReply(x, rows2, lists2)
BY DEF GoodReply, RowsGrow, ListsGrow

\* One request moves to s.
LEMMA SlotMoves ==
    ASSUME IntakeInv, NEW r \in IntakeSlots, NEW s \in SlotState,
           slot' = [slot EXCEPT ![r] = s], GoodSlot(s, emails', manifests'),
           RowsGrow(emails, emails'), ListsGrow(manifests, manifests')
    PROVE  /\ slot' \in [IntakeSlots -> SlotState] /\ SlotsInv'
           /\ IsFiniteSet(UnitsHeld')
           /\ Cardinality(UnitsHeld') = Cardinality(UnitsHeld) - Held(r) + HeldBy(s)
           /\ Cardinality(UnitsHeld) \in Nat /\ Held(r) \in Nat /\ HeldBy(s) \in Nat
           /\ Held(r) <= Cardinality(UnitsHeld)
<1>1. slot \in [IntakeSlots -> SlotState] /\ IntakeTypeOK /\ SlotsInv /\ IsFiniteSet(UnitsHeld)
  BY DEF IntakeInv, IntakeTypeOK, QuotaInv
<1>2. \A q \in IntakeSlots : slot'[q] = IF q = r THEN s ELSE slot[q]
  BY <1>1
<1>3. slot' \in [IntakeSlots -> SlotState]
  BY <1>1
<1>4. SlotsInv'
  BY <1>1, <1>2, GoodSlotStays DEF SlotsInv
<1> DEFINE h == [q \in IntakeSlots |-> HeldBy(slot[q])]
           g == [q \in IntakeSlots |-> HeldBy(slot'[q])]
<1>5. h \in [IntakeSlots -> Nat] /\ h[r] = Held(r)
  BY <1>1, HeldIsNat, UnitsOfState
<1>6. HeldBy(s) \in Nat
  BY RequestContent DEF HeldBy
<1>7. g = [h EXCEPT ![r] = HeldBy(s)]
  <2>1. \A q \in IntakeSlots : HeldBy(slot'[q]) = IF q = r THEN HeldBy(s) ELSE HeldBy(slot[q])
    BY <1>2
  <2> HIDE DEF HeldBy
  <2> QED
    BY <2>1
<1>8. UnitsHeld = Units(h)
  BY UnitsOfState
<1>9. UnitsHeld' = Units(g)
  <2>1. \A q \in IntakeSlots : Held(q)' = g[q]
    BY DEF Held, HeldBy, Body, BodyOf
  <2>2. \A q \in IntakeSlots : {q} \X (1..Held(q)') = {q} \X (1..g[q])
    BY <2>1
  <2> QED
    BY <2>2 DEF UnitsHeld, Units
<1> HIDE DEF h, g
<1>10. /\ IsFiniteSet(Units(g))
       /\ Cardinality(Units(g)) = Cardinality(Units(h)) - h[r] + HeldBy(s)
       /\ Cardinality(Units(h)) \in Nat /\ h[r] <= Cardinality(Units(h))
  BY <1>1, <1>5, <1>6, <1>7, <1>8, UnitsMove
<1>11. h[r] \in Nat
  BY <1>5
<1> QED
  BY <1>3, <1>4, <1>5, <1>6, <1>8, <1>9, <1>10, <1>11

\* What the proofs of the actions use of the state.
LEMMA StateFacts ==
    ASSUME IntakeInv
    PROVE  /\ IntakeTypeOK /\ SlotsInv /\ KeysAreUnique /\ RepliesInv /\ QuotaInv
           /\ slot \in [IntakeSlots -> SlotState] /\ Len(emails) \in 0..MaxEmails
           /\ intakeTeam \in {"present", "deleted"}
           /\ emails \in Seq(EmailRow) /\ manifests \in [BatchKeys -> Lists \cup {<<>>}]
           /\ used \in 0..Max(DailyLimits) /\ used \in Nat /\ accepted \in Nat /\ leaked \in Nat
           /\ used = accepted + leaked + Cardinality(UnitsHeld)
BY LargestLimit, IntakeAssumption DEF IntakeInv, IntakeTypeOK, QuotaInv

LEMMA SlotFacts ==
    ASSUME IntakeInv, NEW r \in IntakeSlots, slot[r].pc # "idle"
    PROVE  /\ slot[r] \in SlotState /\ GoodSlot(slot[r], emails, manifests)
           /\ Body(r) = BodyOf(slot[r]) /\ Key(r) = KeyOf(slot[r]) /\ Held(r) = HeldBy(slot[r])
           /\ Body(r) \in Bodies /\ Body(r) \in Nat \ {0} /\ Key(r) \in AllKeys
           /\ Key(r) = NoKey <=> slot[r].key = NoKey
           /\ slot[r].key \in BatchKeys => Key(r) = <<slot[r].key, slot[r].n>>
           /\ Len(slot[r].items) = Size(slot[r])
<1>1. slot[r] \in SlotState /\ GoodSlot(slot[r], emails, manifests)
  BY StateFacts DEF SlotsInv
<1> QED
  BY <1>1, RequestContent, UnitsOfState

\* A request ends.
LEMMA EndKeeps ==
    ASSUME IntakeInv, NEW r \in IntakeSlots, EndSlot(r),
           RowsGrow(emails, emails'), ListsGrow(manifests, manifests')
    PROVE  /\ slot' \in [IntakeSlots -> SlotState] /\ SlotsInv'
           /\ IsFiniteSet(UnitsHeld')
           /\ Cardinality(UnitsHeld') = Cardinality(UnitsHeld) - Held(r)
           /\ Cardinality(UnitsHeld) \in Nat /\ Held(r) \in Nat /\ Held(r) <= Cardinality(UnitsHeld)
<1>1. IdleSlot \in SlotState /\ GoodSlot(IdleSlot, emails', manifests') /\ HeldBy(IdleSlot) = 0
  BY DEF IdleSlot, SlotState, GoodSlot, HeldBy
<1>2. slot' = [slot EXCEPT ![r] = IdleSlot]
  BY DEF EndSlot
<1> HIDE DEF IdleSlot
<1>3. /\ slot' \in [IntakeSlots -> SlotState] /\ SlotsInv'
      /\ IsFiniteSet(UnitsHeld')
      /\ Cardinality(UnitsHeld') = Cardinality(UnitsHeld) - Held(r) + HeldBy(IdleSlot)
      /\ Cardinality(UnitsHeld) \in Nat /\ Held(r) \in Nat /\ Held(r) <= Cardinality(UnitsHeld)
  BY <1>1, <1>2, SlotMoves
<1> QED
  BY <1>1, <1>3

\* The answer to an item, which is the row of its key and its body.
LEMMA AnswerKeeps ==
    ASSUME IntakeInv, NEW r \in IntakeSlots, slot[r].pc \notin {"idle", "ensure"},
           NEW id, id # 0 => IsRowOf(id, slot[r], emails), Answer(r, id),
           UNCHANGED <<intakeTeam, emails, manifests>>
    PROVE  /\ slot' \in [IntakeSlots -> SlotState] /\ SlotsInv'
           /\ replies' \in SUBSET Reply
           /\ RepliesInv'
           /\ IsFiniteSet(UnitsHeld')
           /\ Cardinality(UnitsHeld') = Cardinality(UnitsHeld) - Held(r)
           /\ Cardinality(UnitsHeld) \in Nat /\ Held(r) \in Nat /\ Held(r) <= Cardinality(UnitsHeld)
<1> DEFINE s == slot[r]
<1>1. /\ s \in SlotState /\ s.pc # "idle" /\ GoodSlot(s, emails, manifests)
      /\ RowsGrow(emails, emails') /\ ListsGrow(manifests, manifests')
  BY SlotFacts, StateFacts, RowsAreStable
<1>2. /\ replies' \in SUBSET Reply
      /\ RepliesInv'
  <2>1. CASE id = 0 \/ Key(r) = NoKey
    BY <2>1, StateFacts DEF Answer, IntakeTypeOK, RepliesInv, Reply
  <2>2. CASE id # 0 /\ Key(r) # NoKey
    <3> DEFINE x == [key |-> Key(r), body |-> Body(r), id |-> id, of |-> slot[r].key]
    <3>1. replies' = replies \cup {x}
      BY <2>2 DEF Answer
    <3>2. id \in 1..Len(emails) /\ emails[id].key = Key(r) /\ emails[id].body = Body(r)
      BY <2>2, SlotFacts DEF IsRowOf
    <3>3. slot[r].key \in SingleKeys \cup BatchKeys
      BY <1>1, <2>2, RequestFields, SlotFacts
    <3>4. x \in Reply
      <4>1. Key(r) \in AllKeys /\ Body(r) \in Bodies /\ Len(emails) \in 0..MaxEmails
        BY <1>1, SlotFacts, StateFacts
      <4>2. id \in 1..MaxEmails
        BY <3>2, <4>1, IntakeAssumption
      <4> QED
        BY <3>3, <4>1, <4>2 DEF Reply
    <3>5. ASSUME slot[r].key \in BatchKeys
          PROVE  /\ slot[r].n \in 1..BatchSize /\ Key(r) = <<slot[r].key, slot[r].n>>
                 /\ manifests[slot[r].key] \in Lists /\ manifests[slot[r].key][slot[r].n] = Body(r)
      BY <1>1, <3>5, SlotFacts DEF GoodSlot, Size, Lists, Body
    <3>6. GoodReply(x, emails, manifests)
      BY <2>2, <3>2, <3>5 DEF GoodReply
    <3> HIDE DEF x
    <3> QED
      BY <3>1, <3>4, <3>6, StateFacts DEF RepliesInv, IntakeTypeOK, Reply
  <2> QED
    BY <2>1, <2>2
<1>3. CASE ~(id # 0 /\ slot[r].n < Len(slot[r].items))
  BY <1>1, <1>2, <1>3, EndKeeps DEF Answer
<1>4. CASE id # 0 /\ slot[r].n < Len(slot[r].items)
  <2> DEFINE t == [s EXCEPT !.pc = "lookup", !.n = @ + 1, !.day = "none", !.charged = "none", !.id = 0]
  <2>1. slot' = [slot EXCEPT ![r] = t]
    BY <1>4, StateFacts DEF Answer
  <2>2. s.n \in 1..Size(s) /\ s.n < Size(s) /\ Size(s) \in Nat /\ Size(s) <= BatchSize
    BY <1>1, <1>4, SlotFacts, IntakeAssumption DEF GoodSlot, Size
  <2>3. s.n + 1 \in 1..BatchSize /\ s.n + 1 \in 1..Size(s)
    BY <2>2, IntakeAssumption
  <2>0. s \in Request /\ 0 \in 0..MaxEmails
    BY <1>1, RequestFields, IntakeAssumption
  <2>4. /\ t \in Request
        /\ t.pc = "lookup" /\ t.key = s.key /\ t.items = s.items /\ t.n = s.n + 1
        /\ t.charged = "none" /\ t.id = 0
    BY <2>0, <2>3 DEF Request, Days
  <2>5. t \in SlotState
    BY <2>4, RequestIsState
  <2> HIDE DEF t
  <2>6. Size(t) = Size(s)
    BY <2>4 DEF Size
  <2>7. GoodSlot(t, emails', manifests')
    BY <1>1, <2>3, <2>4, <2>6 DEF GoodSlot, Reserved
  <2>8. HeldBy(t) = 0
    BY <2>4 DEF HeldBy
  <2>9. /\ slot' \in [IntakeSlots -> SlotState] /\ SlotsInv'
        /\ IsFiniteSet(UnitsHeld')
        /\ Cardinality(UnitsHeld') = Cardinality(UnitsHeld) - Held(r) + HeldBy(t)
        /\ Cardinality(UnitsHeld) \in Nat /\ Held(r) \in Nat /\ Held(r) <= Cardinality(UnitsHeld)
    BY <1>1, <2>1, <2>5, <2>7, SlotMoves
  <2> QED
    BY <1>2, <2>8, <2>9
<1> QED
  BY <1>3, <1>4

\* The rest of the state.
LEMMA OthersKeep ==
    ASSUME IntakeInv, UNCHANGED <<intakeTeam, emails, manifests>>,
           slot' \in [IntakeSlots -> SlotState], SlotsInv',
           replies' \in SUBSET Reply,
           RepliesInv', used' \in 0..Max(DailyLimits), accepted' \in Nat, leaked' \in Nat, QuotaInv'
    PROVE  IntakeInv'
BY StateFacts DEF IntakeInv, IntakeTypeOK, KeysAreUnique, Reply

-----------------------------------------------------------------------------
(* One lemma per action.                                                   *)

LEMMA IntakeInitInv == IntakeInit => IntakeInv
<1> SUFFICES ASSUME IntakeInit PROVE IntakeInv
  OBVIOUS
<1>1. IdleSlot \in SlotState /\ IdleSlot.pc = "idle"
  BY DEF IdleSlot, SlotState
<1>2. \A r \in IntakeSlots : slot[r] = IdleSlot /\ Held(r) = 0
  BY <1>1 DEF IntakeInit, Held
<1>3. UnitsHeld = {}
  <2>1. \A r \in IntakeSlots : {r} \X (1..Held(r)) = {}
    BY <1>2
  <2> QED
    BY <2>1 DEF UnitsHeld
<1>4. IsFiniteSet(UnitsHeld) /\ Cardinality(UnitsHeld) = 0
  BY <1>3, FS_EmptySet
<1>5. IntakeTypeOK
  <2>1. emails \in Seq(EmailRow) /\ Len(emails) <= MaxEmails
    BY IntakeAssumption DEF IntakeInit
  <2>2. used \in 0..Max(DailyLimits)
    BY LargestLimit DEF IntakeInit
  <2> QED
    BY <1>1, <2>1, <2>2 DEF IntakeInit, IntakeTypeOK
<1> HIDE DEF IdleSlot
<1>6. SlotsInv /\ KeysAreUnique /\ RepliesInv
  BY <1>1, <1>2 DEF IntakeInit, SlotsInv, GoodSlot, KeysAreUnique, RepliesInv
<1>7. QuotaInv
  BY <1>4 DEF QuotaInv, IntakeInit
<1> QED
  BY <1>5, <1>6, <1>7 DEF IntakeInv

\* A request moves and nothing else does.
LEMMA OnlySlotMoves ==
    ASSUME IntakeInv, NEW r \in IntakeSlots, NEW t \in SlotState,
           slot' = [slot EXCEPT ![r] = t], GoodSlot(t, emails, manifests), HeldBy(t) = Held(r),
           UNCHANGED <<intakeTeam, emails, manifests, used, accepted, leaked, replies>>
    PROVE  IntakeInv'
<1>1. RowsGrow(emails, emails') /\ ListsGrow(manifests, manifests') /\ GoodSlot(t, emails', manifests')
  BY StateFacts, RowsAreStable
<1>2. /\ slot' \in [IntakeSlots -> SlotState] /\ SlotsInv' /\ IsFiniteSet(UnitsHeld')
      /\ Cardinality(UnitsHeld') = Cardinality(UnitsHeld) - Held(r) + HeldBy(t)
      /\ Cardinality(UnitsHeld) \in Nat /\ Held(r) \in Nat
  BY <1>1, SlotMoves
<1>3. QuotaInv'
  BY <1>2, StateFacts DEF QuotaInv
<1>4. RepliesInv' /\ replies' \in SUBSET Reply
  BY StateFacts DEF RepliesInv, IntakeTypeOK, Reply
<1> QED
  BY <1>2, <1>3, <1>4, OthersKeep, StateFacts

LEMMA SendKeeps ==
    ASSUME IntakeInv, NEW r \in IntakeSlots, NEW k, NEW items, Send(r, k, items),
           \/ k \in BatchKeys /\ items \in Lists
           \/ k \in SingleKeys \cup {NoKey} /\ items \in [1..1 -> Bodies]
    PROVE  IntakeInv'
<1> DEFINE t == [pc |-> IF k \in BatchKeys THEN "ensure" ELSE "lookup", key |-> k, items |-> items, n |-> 1,
                 day |-> "none", lim |-> 0, charged |-> "none", id |-> 0]
<1>1. slot[r].pc = "idle" /\ slot' = [slot EXCEPT ![r] = t]
      /\ UNCHANGED <<intakeTeam, emails, manifests, used, accepted, leaked, replies>>
  BY DEF Send
<1>2. 1 \in 1..BatchSize /\ 0 \in 0..MaxEmails /\ SingleKeys \cap BatchKeys = {} /\ NoKey \notin BatchKeys
  BY IntakeAssumption
<1>3. t \in Request
  BY <1>2 DEF Request, Days
<1>4. /\ t.pc = IF k \in BatchKeys THEN "ensure" ELSE "lookup"
      /\ t.key = k /\ t.items = items /\ t.n = 1 /\ t.charged = "none" /\ t.id = 0
  OBVIOUS
<1> HIDE DEF t
<1>5. HeldBy(t) = 0 /\ Held(r) = 0
  BY <1>1, <1>4 DEF HeldBy, Held
<1>6. t.items \in [1..Size(t) -> Bodies] /\ t.n \in 1..Size(t)
  <2>1. CASE k \in BatchKeys /\ items \in Lists
    <3>1. Size(t) = BatchSize
      BY <1>4, <2>1 DEF Size
    <3> QED
      BY <1>2, <1>4, <2>1, <3>1 DEF Lists
  <2>2. CASE k \in SingleKeys \cup {NoKey} /\ items \in [1..1 -> Bodies]
    <3>1. Size(t) = 1
      BY <1>2, <1>4, <2>2 DEF Size
    <3> QED
      BY <1>4, <2>2, <3>1
  <2> QED
    BY <2>1, <2>2
<1>7. GoodSlot(t, emails, manifests)
  BY <1>4, <1>6 DEF GoodSlot, Reserved
<1> QED
  BY <1>1, <1>3, <1>5, <1>7, RequestIsState, OnlySlotMoves

LEMMA BatchSendKeeps ==
    ASSUME IntakeInv, NEW r \in IntakeSlots, BatchSend(r)
    PROVE  IntakeInv'
<1> DEFINE s == slot[r]
           k == slot[r].key
<1>1. /\ s.pc = "ensure" /\ s \in SlotState /\ GoodSlot(s, emails, manifests) /\ s \in Request
      /\ Held(r) = HeldBy(s)
      /\ UNCHANGED <<intakeTeam, emails, used, accepted, leaked, replies>>
  BY SlotFacts, RequestFields DEF BatchSend
<1>2. k \in BatchKeys /\ s.items \in Lists /\ s.charged = "none"
  BY <1>1 DEF GoodSlot, Size, Lists, Reserved
<1>3. HeldBy(s) = 0
  BY <1>2 DEF HeldBy
<1>4. CASE intakeTeam = "present" /\ Ensure(k, s.items)
  <2> DEFINE t == [s EXCEPT !.pc = "lookup"]
  <2>1. /\ manifests' = [manifests EXCEPT ![k] = IF manifests[k] = <<>> THEN s.items ELSE manifests[k]]
        /\ slot' = [slot EXCEPT ![r].pc = "lookup"]
    BY <1>1, <1>4 DEF BatchSend
  <2>2. slot' = [slot EXCEPT ![r] = t]
    BY <2>1, StateFacts
  <2>3. manifests' \in [BatchKeys -> Lists \cup {<<>>}] /\ manifests'[k] = s.items
        /\ \A j \in BatchKeys \ {k} : manifests'[j] = manifests[j]
    BY <1>2, <1>4, <2>1, StateFacts DEF Ensure
  <2>4. ListsGrow(manifests, manifests')
    BY <1>2, <1>4, <2>3, ListsAreNotEmpty DEF ListsGrow, Ensure
  <2>5. RowsGrow(emails, emails')
    BY <1>1, StateFacts, RowsAreStable
  <2>6. t \in Request /\ t.pc = "lookup" /\ t.key = s.key /\ t.items = s.items /\ t.n = s.n
        /\ t.charged = "none" /\ t.id = s.id
    BY <1>1, <1>2 DEF Request
  <2> HIDE DEF t
  <2>7. Size(t) = Size(s)
    BY <2>6 DEF Size
  <2>8. GoodSlot(t, emails', manifests') /\ HeldBy(t) = 0
    BY <1>1, <2>3, <2>6, <2>7 DEF GoodSlot, Reserved, HeldBy
  <2>9. /\ slot' \in [IntakeSlots -> SlotState] /\ SlotsInv' /\ IsFiniteSet(UnitsHeld')
        /\ Cardinality(UnitsHeld') = Cardinality(UnitsHeld) - Held(r) + HeldBy(t)
        /\ Cardinality(UnitsHeld) \in Nat
    BY <2>2, <2>4, <2>5, <2>6, <2>8, RequestIsState, SlotMoves
  <2>10. QuotaInv'
    BY <1>1, <1>3, <2>8, <2>9, StateFacts DEF QuotaInv
  <2>11. RepliesInv'
    BY <1>1, <2>4, <2>5, StateFacts, GoodReplyStays DEF RepliesInv
  <2> QED
    BY <1>1, <2>3, <2>9, <2>10, <2>11, StateFacts DEF IntakeInv, IntakeTypeOK, KeysAreUnique
<1>5. CASE ~(intakeTeam = "present" /\ Ensure(k, s.items))
  <2>1. EndSlot(r) /\ UNCHANGED manifests
    BY <1>5 DEF BatchSend
  <2>2. RowsGrow(emails, emails') /\ ListsGrow(manifests, manifests')
    BY <1>1, <2>1, StateFacts, RowsAreStable
  <2>3. /\ slot' \in [IntakeSlots -> SlotState] /\ SlotsInv' /\ IsFiniteSet(UnitsHeld')
        /\ Cardinality(UnitsHeld') = Cardinality(UnitsHeld) - Held(r)
        /\ Cardinality(UnitsHeld) \in Nat
    BY <2>1, <2>2, EndKeeps
  <2>4. QuotaInv'
    BY <1>1, <1>3, <2>3, StateFacts DEF QuotaInv
  <2>5. RepliesInv' /\ replies' \in SUBSET Reply
    BY <1>1, <2>1, StateFacts DEF RepliesInv, IntakeTypeOK, Reply
  <2> QED
    BY <1>1, <2>1, <2>3, <2>4, <2>5, OthersKeep, StateFacts
<1> QED
  BY <1>4, <1>5

\* An answer that costs nothing: the request holds no reservation.
LEMMA FreeAnswerKeeps ==
    ASSUME IntakeInv, NEW r \in IntakeSlots, slot[r].pc \in {"lookup", "limit", "reserve"},
           NEW id, id # 0 => IsRowOf(id, slot[r], emails), Answer(r, id),
           UNCHANGED <<intakeTeam, emails, manifests, used, accepted, leaked>>
    PROVE  IntakeInv'
<1>1. Held(r) = 0
  BY SlotFacts DEF GoodSlot, Reserved, Held
<1>2. /\ slot' \in [IntakeSlots -> SlotState] /\ SlotsInv' /\ replies' \in SUBSET Reply /\ RepliesInv'
      /\ IsFiniteSet(UnitsHeld')
      /\ Cardinality(UnitsHeld') = Cardinality(UnitsHeld) - Held(r)
      /\ Cardinality(UnitsHeld) \in Nat
  BY AnswerKeeps
<1>3. QuotaInv'
  BY <1>1, <1>2, StateFacts DEF QuotaInv
<1> QED
  BY <1>2, <1>3, OthersKeep, StateFacts

\* The rows of a key are one row, which Min and CHOOSE find.
LEMMA TheRowOfKey ==
    ASSUME IntakeInv, NEW k, k # NoKey, NEW S, S \subseteq Existing(k), S # {}
    PROVE  Min(S) \in Existing(k) /\ Min(S) \in S
<1>1. PICK i \in S : TRUE
  OBVIOUS
<1>2. Len(emails) \in Nat
  BY StateFacts
<1>3. \A j \in S : j \in 1..Len(emails) /\ emails[j].key = k
  BY DEF Existing
<1>4. KeysAreUnique
  BY StateFacts
<1>5. i \in Nat /\ \A j \in S : j = i
  BY <1>2, <1>3, <1>4 DEF KeysAreUnique
<1>6. S = {i}
  BY <1>5
<1> QED
  BY <1>5, <1>6, MinOfOne

LEMMA LookupKeeps ==
    ASSUME IntakeInv, NEW r \in IntakeSlots, Lookup(r)
    PROVE  IntakeInv'
<1> DEFINE s == slot[r]
<1>1. /\ s.pc = "lookup" /\ s \in SlotState /\ GoodSlot(s, emails, manifests) /\ s \in Request
      /\ Key(r) = KeyOf(s) /\ Body(r) = BodyOf(s) /\ Held(r) = HeldBy(s)
      /\ UNCHANGED <<intakeTeam, emails, manifests, used, accepted, leaked>>
  BY SlotFacts, RequestFields DEF Lookup
<1>2. CASE Key(r) # NoKey /\ Existing(Key(r)) # {}
  <2> DEFINE i == Min(Existing(Key(r)))
             id == IF SameRequest(i, Body(r)) THEN i ELSE 0
  <2>1. Answer(r, id)
    BY <1>2 DEF Lookup
  <2>2. i \in 1..Len(emails) /\ emails[i].key = Key(r)
    BY <1>2, TheRowOfKey DEF Existing
  <2>3. id # 0 => IsRowOf(id, s, emails)
    BY <1>1, <2>2 DEF IsRowOf, SameRequest
  <2> HIDE DEF i, id
  <2> QED
    BY <1>1, <2>1, <2>3, FreeAnswerKeeps
<1>3. CASE ~(Key(r) # NoKey /\ Existing(Key(r)) # {})
  <2> DEFINE t == [s EXCEPT !.pc = "limit"]
  <2>1. slot' = [slot EXCEPT ![r].pc = "limit"] /\ UNCHANGED replies
    BY <1>3 DEF Lookup
  <2>2. slot' = [slot EXCEPT ![r] = t]
    BY <2>1, StateFacts
  <2>3. t \in Request /\ t.pc = "limit" /\ t.key = s.key /\ t.items = s.items /\ t.n = s.n
        /\ t.charged = s.charged /\ t.id = s.id
    BY <1>1 DEF Request
  <2> HIDE DEF t
  <2>4. Size(t) = Size(s)
    BY <2>3 DEF Size
  <2>5. GoodSlot(t, emails, manifests) /\ HeldBy(t) = HeldBy(s)
    BY <1>1, <2>3, <2>4 DEF GoodSlot, Reserved, HeldBy
  <2> QED
    BY <1>1, <2>1, <2>2, <2>3, <2>5, RequestIsState, OnlySlotMoves
<1> QED
  BY <1>2, <1>3

LEMMA RefuseKeeps ==
    ASSUME IntakeInv, NEW r \in IntakeSlots, Refuse(r)
    PROVE  IntakeInv'
BY FreeAnswerKeeps DEF Refuse

LEMMA RecipientLimitKeeps ==
    ASSUME IntakeInv, NEW r \in IntakeSlots, RecipientLimit(r)
    PROVE  IntakeInv'
<1> DEFINE s == slot[r]
<1>1. /\ s.pc = "limit" /\ s \in SlotState /\ GoodSlot(s, emails, manifests) /\ s \in Request
      /\ Held(r) = HeldBy(s)
      /\ UNCHANGED <<intakeTeam, emails, manifests, used, accepted, leaked, replies>>
  BY SlotFacts, RequestFields DEF RecipientLimit
<1>2. PICK lim \in DailyLimits :
        slot' = [slot EXCEPT ![r].pc = "reserve", ![r].day = "today", ![r].lim = lim]
  BY DEF RecipientLimit
<1> DEFINE t == [s EXCEPT !.pc = "reserve", !.day = "today", !.lim = lim]
<1>3. slot' = [slot EXCEPT ![r] = t]
  BY <1>2, StateFacts
<1>4. t \in Request /\ t.pc = "reserve" /\ t.key = s.key /\ t.items = s.items /\ t.n = s.n
      /\ t.charged = s.charged /\ t.id = s.id /\ t.lim = lim
  BY <1>1 DEF Request, Days
<1> HIDE DEF t
<1>5. Size(t) = Size(s)
  BY <1>4 DEF Size
<1>6. GoodSlot(t, emails, manifests) /\ HeldBy(t) = HeldBy(s)
  BY <1>1, <1>4, <1>5 DEF GoodSlot, Reserved, HeldBy
<1> QED
  BY <1>1, <1>3, <1>4, <1>6, RequestIsState, OnlySlotMoves

LEMMA ReserveKeeps ==
    ASSUME IntakeInv, NEW r \in IntakeSlots, Reserve(r)
    PROVE  IntakeInv'
<1> DEFINE s == slot[r]
<1>1. /\ s.pc = "reserve" /\ s \in SlotState /\ GoodSlot(s, emails, manifests) /\ s \in Request
      /\ Held(r) = HeldBy(s) /\ Body(r) = BodyOf(s) /\ Body(r) \in Nat
      /\ UNCHANGED <<intakeTeam, emails, manifests, accepted>>
  BY SlotFacts, RequestFields DEF Reserve
<1>2. s.lim \in DailyLimits /\ s.charged = "none" /\ s.id = 0
  BY <1>1 DEF GoodSlot, Reserved
<1>3. Held(r) = 0
  BY <1>1, <1>2 DEF HeldBy
<1>4. ASSUME Fits(r) PROVE used + Body(r) \in 0..Max(DailyLimits)
  <2>1. used + Body(r) <= s.lim /\ s.lim <= Max(DailyLimits) /\ s.lim \in Nat
    BY <1>2, <1>4, LargestLimit, IntakeAssumption DEF Fits
  <2> QED
    BY <1>1, <2>1, StateFacts, LargestLimit
<1>5. CASE /\ Fits(r)
           /\ used' = used + Body(r)
           /\ slot' = [slot EXCEPT ![r].pc = "create", ![r].lim = 0, ![r].charged = "today"]
           /\ UNCHANGED <<replies, leaked>>
  <2> DEFINE t == [s EXCEPT !.pc = "create", !.lim = 0, !.charged = "today"]
  <2>1. slot' = [slot EXCEPT ![r] = t]
    BY <1>5, StateFacts
  <2>2. t \in Request /\ t.pc = "create" /\ t.key = s.key /\ t.items = s.items /\ t.n = s.n
        /\ t.charged = "today" /\ t.id = s.id /\ t.day = s.day
    BY <1>1 DEF Request, Days
  <2> HIDE DEF t
  <2>3. Size(t) = Size(s)
    BY <2>2 DEF Size
  <2>4. GoodSlot(t, emails, manifests) /\ HeldBy(t) = Body(r)
    BY <1>1, <1>2, <2>2, <2>3 DEF GoodSlot, Reserved, HeldBy, BodyOf
  <2>5. RowsGrow(emails, emails') /\ ListsGrow(manifests, manifests') /\ GoodSlot(t, emails', manifests')
    BY <1>1, <2>4, StateFacts, RowsAreStable
  <2>6. /\ slot' \in [IntakeSlots -> SlotState] /\ SlotsInv' /\ IsFiniteSet(UnitsHeld')
        /\ Cardinality(UnitsHeld') = Cardinality(UnitsHeld) - Held(r) + HeldBy(t)
        /\ Cardinality(UnitsHeld) \in Nat
    BY <2>1, <2>2, <2>5, RequestIsState, SlotMoves
  <2>7. QuotaInv'
    BY <1>1, <1>3, <1>5, <2>4, <2>6, StateFacts DEF QuotaInv
  <2>8. RepliesInv' /\ replies' \in SUBSET Reply
    BY <1>1, <1>5, StateFacts DEF RepliesInv, IntakeTypeOK, Reply
  <2> QED
    BY <1>1, <1>4, <1>5, <2>6, <2>7, <2>8, OthersKeep, StateFacts
<1>6. CASE Fits(r) /\ used' = used + Body(r) /\ leaked' = leaked + Body(r) /\ Answer(r, 0)
  <2>1. /\ slot' \in [IntakeSlots -> SlotState] /\ SlotsInv' /\ replies' \in SUBSET Reply /\ RepliesInv'
        /\ IsFiniteSet(UnitsHeld')
        /\ Cardinality(UnitsHeld') = Cardinality(UnitsHeld) - Held(r)
        /\ Cardinality(UnitsHeld) \in Nat
    BY <1>1, <1>6, AnswerKeeps
  <2>2. QuotaInv'
    BY <1>1, <1>3, <1>6, <2>1, StateFacts DEF QuotaInv
  <2>3. leaked' \in Nat
    BY <1>1, <1>6, StateFacts
  <2> QED
    BY <1>1, <1>4, <1>6, <2>1, <2>2, <2>3, OthersKeep, StateFacts
<1>7. CASE Answer(r, 0) /\ UNCHANGED <<used, leaked>>
  BY <1>1, <1>7, FreeAnswerKeeps
<1> QED
  BY <1>5, <1>6, <1>7 DEF Reserve

\* The insert, its lost reply, and its failure: the indexes, or the database.
LEMMA CreateKeeps ==
    ASSUME IntakeInv, NEW r \in IntakeSlots, Create(r)
    PROVE  IntakeInv'
<1> DEFINE s == slot[r]
<1>1. /\ s.pc = "create" /\ s \in SlotState /\ GoodSlot(s, emails, manifests) /\ s \in Request
      /\ Held(r) = HeldBy(s) /\ Body(r) = BodyOf(s) /\ Key(r) = KeyOf(s)
      /\ Body(r) \in Bodies /\ Key(r) \in AllKeys
      /\ UNCHANGED <<intakeTeam, manifests, used, accepted, leaked, replies>>
  BY SlotFacts, RequestFields DEF Create
<1>2. emails \in Seq(EmailRow) /\ Len(emails) \in 0..MaxEmails /\ Len(emails) \in Nat
  BY StateFacts
<1>3. ASSUME NEW pc, NEW id,
             \/ pc = "push" /\ id = Len(emails) + 1
             \/ pc = "release" /\ id \in {0, Len(emails) + 1},
             CanInsert(r),
             emails' = Append(emails, [key |-> Key(r), body |-> Body(r)]),
             slot' = [slot EXCEPT ![r].pc = pc, ![r].id = id]
      PROVE  IntakeInv'
  <2> DEFINE row == [key |-> Key(r), body |-> Body(r)]
             t == [s EXCEPT !.pc = pc, !.id = id]
  <2>1. row \in EmailRow /\ row.key = Key(r) /\ row.body = Body(r)
    BY <1>1 DEF EmailRow
  <2> HIDE DEF row
  <2>2. emails' = Append(emails, row)
    BY <1>3 DEF row
  <2>3. /\ emails' \in Seq(EmailRow) /\ Len(emails') = Len(emails) + 1
        /\ emails'[Len(emails) + 1] = row
        /\ \A i \in 1..Len(emails) : emails'[i] = emails[i]
    BY <1>2, <2>1, <2>2
  <2>4. Len(emails) + 1 \in 0..MaxEmails /\ Len(emails) + 1 # 0 /\ Len(emails') <= MaxEmails
    BY <1>2, <1>3, <2>3, IntakeAssumption DEF CanInsert
  <2>5. RowsGrow(emails, emails') /\ ListsGrow(manifests, manifests')
    BY <1>1, <1>2, <2>3, StateFacts, RowsAreStable DEF RowsGrow
  <2>6. slot' = [slot EXCEPT ![r] = t]
    BY <1>3, StateFacts
  <2>0. id \in 0..MaxEmails /\ pc \in {"push", "release"} /\ (pc = "push" => id # 0)
        /\ (id # 0 => id = Len(emails) + 1)
    BY <1>2, <1>3, <2>4, IntakeAssumption
  <2>7. t \in Request /\ t.pc = pc /\ t.key = s.key /\ t.items = s.items /\ t.n = s.n
        /\ t.charged = s.charged /\ t.id = id /\ t.day = s.day
    BY <1>1, <2>0 DEF Request
  <2> HIDE DEF t
  <2>8. Size(t) = Size(s) /\ KeyOf(t) = Key(r) /\ BodyOf(t) = Body(r)
    BY <1>1, <2>7 DEF Size, KeyOf, BodyOf
  <2>9. t.id # 0 => IsRowOf(t.id, t, emails')
    BY <1>2, <2>0, <2>1, <2>3, <2>7, <2>8 DEF IsRowOf
  <2>10. GoodSlot(t, emails', manifests') /\ HeldBy(t) = Held(r)
    BY <1>1, <2>0, <2>7, <2>8, <2>9 DEF GoodSlot, Reserved, HeldBy
  <2>11. /\ slot' \in [IntakeSlots -> SlotState] /\ SlotsInv' /\ IsFiniteSet(UnitsHeld')
         /\ Cardinality(UnitsHeld') = Cardinality(UnitsHeld) - Held(r) + HeldBy(t)
         /\ Cardinality(UnitsHeld) \in Nat /\ Held(r) \in Nat
    BY <2>5, <2>6, <2>7, <2>10, RequestIsState, SlotMoves
  <2>12. QuotaInv'
    BY <1>1, <2>10, <2>11, StateFacts DEF QuotaInv
  <2>13. RepliesInv'
    BY <1>1, <2>5, StateFacts, GoodReplyStays DEF RepliesInv
  <2>14. KeysAreUnique'
    <3>1. \A i \in 1..Len(emails) : Key(r) # NoKey => emails[i].key # Key(r)
      BY <1>3 DEF CanInsert, KeyIsFree, Existing
    <3>2. \A i \in 1..Len(emails') : i \in 1..Len(emails) \/ i = Len(emails) + 1
      BY <1>2, <2>3
    <3>3. KeysAreUnique
      BY StateFacts
    <3> QED
      BY <2>1, <2>3, <3>1, <3>2, <3>3 DEF KeysAreUnique
  <2>15. IntakeTypeOK'
    BY <1>1, <2>3, <2>4, <2>11, StateFacts DEF IntakeTypeOK
  <2> QED
    BY <2>11, <2>12, <2>13, <2>14, <2>15 DEF IntakeInv
<1>4. ASSUME NEW id \in {0} \cup RowOfKey(r), slot' = [slot EXCEPT ![r].pc = "release", ![r].id = id],
             UNCHANGED emails
      PROVE  IntakeInv'
  <2> DEFINE t == [s EXCEPT !.pc = "release", !.id = id]
  <2>1. slot' = [slot EXCEPT ![r] = t]
    BY <1>4, StateFacts
  <2>2. id # 0 => id \in 1..Len(emails) /\ IsRowOf(id, s, emails)
    BY <1>1, <1>4 DEF RowOfKey, IsRowOf, Existing, SameRequest
  <2>3. id \in 0..MaxEmails
    BY <1>2, <1>4, <2>2, IntakeAssumption
  <2>4. t \in Request /\ t.pc = "release" /\ t.key = s.key /\ t.items = s.items /\ t.n = s.n
        /\ t.charged = s.charged /\ t.id = id /\ t.day = s.day
    BY <1>1, <2>3 DEF Request
  <2> HIDE DEF t
  <2>5. Size(t) = Size(s) /\ KeyOf(t) = KeyOf(s) /\ BodyOf(t) = BodyOf(s)
    BY <1>1, <2>4 DEF Size, KeyOf, BodyOf
  <2>6. t.id # 0 => IsRowOf(t.id, t, emails)
    BY <2>2, <2>4, <2>5 DEF IsRowOf
  <2>7. GoodSlot(t, emails, manifests) /\ HeldBy(t) = Held(r)
    BY <1>1, <2>4, <2>5, <2>6 DEF GoodSlot, Reserved, HeldBy
  <2> QED
    BY <1>1, <1>4, <2>1, <2>4, <2>7, RequestIsState, OnlySlotMoves
<1>5. CASE /\ CanInsert(r)
           /\ emails' = Append(emails, [key |-> Key(r), body |-> Body(r)])
           /\ \/ slot' = [slot EXCEPT ![r].pc = "push", ![r].id = Len(emails) + 1]
              \/ \E id \in {0, IF Key(r) = NoKey THEN 0 ELSE Len(emails) + 1} :
                    slot' = [slot EXCEPT ![r].pc = "release", ![r].id = id]
  <2>1. CASE slot' = [slot EXCEPT ![r].pc = "push", ![r].id = Len(emails) + 1]
    BY <1>3, <1>5, <2>1
  <2>2. ASSUME NEW id \in {0, IF Key(r) = NoKey THEN 0 ELSE Len(emails) + 1},
               slot' = [slot EXCEPT ![r].pc = "release", ![r].id = id]
        PROVE  IntakeInv'
    <3>1. id \in {0, Len(emails) + 1}
      BY <2>2
    <3> QED
      BY <1>3, <1>5, <2>2, <3>1
  <2> QED
    BY <1>5, <2>1, <2>2
<1> QED
  BY <1>4, <1>5 DEF Create

LEMMA PushKeeps ==
    ASSUME IntakeInv, NEW r \in IntakeSlots, Push(r)
    PROVE  IntakeInv'
<1> DEFINE s == slot[r]
<1>1. /\ s.pc = "push" /\ s \in SlotState /\ GoodSlot(s, emails, manifests) /\ s \in Request
      /\ Held(r) = HeldBy(s) /\ UNCHANGED <<intakeTeam, emails, manifests, used, leaked>>
  BY SlotFacts, RequestFields DEF Push
<1>2. IsRowOf(s.id, s, emails) /\ s.id \in 1..Len(emails)
  BY <1>1 DEF GoodSlot, IsRowOf
<1>3. CASE accepted' = accepted + Held(r) /\ Answer(r, s.id)
  <2>1. /\ slot' \in [IntakeSlots -> SlotState] /\ SlotsInv' /\ replies' \in SUBSET Reply /\ RepliesInv'
        /\ IsFiniteSet(UnitsHeld')
        /\ Cardinality(UnitsHeld') = Cardinality(UnitsHeld) - Held(r)
        /\ Cardinality(UnitsHeld) \in Nat /\ Held(r) \in Nat
    BY <1>1, <1>2, <1>3, AnswerKeeps
  <2>2. QuotaInv' /\ accepted' \in Nat
    BY <1>1, <1>3, <2>1, StateFacts DEF QuotaInv
  <2> QED
    BY <1>1, <1>3, <2>1, <2>2, OthersKeep, StateFacts
<1>4. CASE /\ slot' = [slot EXCEPT ![r].pc = "release", ![r].id = 0]
           /\ UNCHANGED <<accepted, replies>>
  <2> DEFINE t == [s EXCEPT !.pc = "release", !.id = 0]
  <2>1. slot' = [slot EXCEPT ![r] = t]
    BY <1>4, StateFacts
  <2>2. t \in Request /\ t.pc = "release" /\ t.key = s.key /\ t.items = s.items /\ t.n = s.n
        /\ t.charged = s.charged /\ t.id = 0 /\ t.day = s.day
    <3>1. 0 \in 0..MaxEmails /\ s \in Request
      BY <1>1, IntakeAssumption
    <3> QED
      BY <3>1 DEF Request
  <2> HIDE DEF t
  <2>3. Size(t) = Size(s) /\ BodyOf(t) = BodyOf(s)
    BY <2>2 DEF Size, BodyOf
  <2>4. GoodSlot(t, emails, manifests) /\ HeldBy(t) = Held(r)
    BY <1>1, <2>2, <2>3 DEF GoodSlot, Reserved, HeldBy
  <2> QED
    BY <1>1, <1>4, <2>1, <2>2, <2>4, RequestIsState, OnlySlotMoves
<1> QED
  BY <1>3, <1>4 DEF Push

\* A Release that names today gives back what today's counter holds.
LEMMA ReleaseKeeps ==
    ASSUME IntakeInv, NEW r \in IntakeSlots, Release(r)
    PROVE  IntakeInv'
<1> DEFINE s == slot[r]
<1>1. /\ s.pc = "release" /\ s \in SlotState /\ GoodSlot(s, emails, manifests)
      /\ Held(r) = HeldBy(s) /\ Body(r) = BodyOf(s) /\ Body(r) \in Nat
      /\ UNCHANGED <<intakeTeam, emails, manifests, accepted>> /\ Answer(r, s.id)
  BY SlotFacts DEF Release
<1>2. s.id # 0 => IsRowOf(s.id, s, emails)
  BY <1>1 DEF GoodSlot
<1>3. s.day = "today" => Held(r) = Body(r)
  BY <1>1 DEF GoodSlot, Reserved, HeldBy
<1>4. /\ slot' \in [IntakeSlots -> SlotState] /\ SlotsInv' /\ replies' \in SUBSET Reply /\ RepliesInv'
      /\ IsFiniteSet(UnitsHeld')
      /\ Cardinality(UnitsHeld') = Cardinality(UnitsHeld) - Held(r)
      /\ Cardinality(UnitsHeld) \in Nat /\ Held(r) \in Nat /\ Held(r) <= Cardinality(UnitsHeld)
  BY <1>1, <1>2, AnswerKeeps
<1>5. /\ used \in 0..Max(DailyLimits) /\ used \in Nat /\ accepted \in Nat /\ leaked \in Nat
      /\ used = accepted + leaked + Cardinality(UnitsHeld) /\ Max(DailyLimits) \in Nat
  BY StateFacts, LargestLimit
<1>6. CASE used' = Released(r) /\ s.day = "today" /\ leaked' = leaked + 0
  <2>1. Body(r) <= used
    BY <1>1, <1>3, <1>4, <1>5, <1>6
  <2>2. used' = used - Body(r)
    BY <1>1, <1>5, <1>6, <2>1, Monus DEF Released, ReleaseDay
  <2>3. QuotaInv' /\ used' \in 0..Max(DailyLimits) /\ leaked' \in Nat
    BY <1>1, <1>3, <1>4, <1>5, <1>6, <2>1, <2>2 DEF QuotaInv
  <2> QED
    BY <1>1, <1>4, <1>5, <2>3, OthersKeep
<1>7. CASE used' = used /\ leaked' = leaked + Held(r)
  <2>1. QuotaInv' /\ leaked' \in Nat
    BY <1>1, <1>4, <1>5, <1>7 DEF QuotaInv
  <2> QED
    BY <1>1, <1>4, <1>5, <1>7, <2>1, OthersKeep
<1>8. CASE used' = Released(r) /\ s.day # "today" /\ leaked' = leaked + Held(r)
  BY <1>7, <1>8 DEF Released, ReleaseDay
<1> QED
  BY <1>6, <1>7, <1>8 DEF Release

LEMMA RequestDiesKeeps ==
    ASSUME IntakeInv, NEW r \in IntakeSlots, RequestDies(r)
    PROVE  IntakeInv'
<1>1. /\ leaked' = leaked + Held(r) /\ EndSlot(r)
      /\ UNCHANGED <<intakeTeam, emails, manifests, used, accepted, replies>>
  BY DEF RequestDies
<1>2. RowsGrow(emails, emails') /\ ListsGrow(manifests, manifests')
  BY <1>1, StateFacts, RowsAreStable
<1>3. /\ slot' \in [IntakeSlots -> SlotState] /\ SlotsInv' /\ IsFiniteSet(UnitsHeld')
      /\ Cardinality(UnitsHeld') = Cardinality(UnitsHeld) - Held(r)
      /\ Cardinality(UnitsHeld) \in Nat /\ Held(r) \in Nat
  BY <1>1, <1>2, EndKeeps
<1>4. QuotaInv' /\ leaked' \in Nat
  BY <1>1, <1>3, StateFacts DEF QuotaInv
<1>5. RepliesInv' /\ replies' \in SUBSET Reply
  BY <1>1, StateFacts DEF RepliesInv, IntakeTypeOK, Reply
<1> QED
  BY <1>1, <1>3, <1>4, <1>5, OthersKeep, StateFacts

\* Nothing that was reserved yesterday counts today.
LEMMA MidnightKeeps == IntakeInv /\ Midnight => IntakeInv'
<1> SUFFICES ASSUME IntakeInv, Midnight PROVE IntakeInv'
  OBVIOUS
<1> DEFINE late(s) == [s EXCEPT !.day = PastDay(@), !.charged = PastDay(@)]
<1>1. /\ used' = 0 /\ accepted' = 0 /\ leaked' = 0 /\ UNCHANGED <<intakeTeam, emails, manifests, replies>>
      /\ slot' = [r \in IntakeSlots |-> IF slot[r].pc = "idle" THEN slot[r] ELSE late(slot[r])]
  BY DEF Midnight
<1>2. ASSUME NEW r \in IntakeSlots
      PROVE  slot'[r] \in SlotState /\ GoodSlot(slot'[r], emails, manifests) /\ HeldBy(slot'[r]) = 0
  <2>1. slot[r] \in SlotState /\ GoodSlot(slot[r], emails, manifests)
    BY StateFacts DEF SlotsInv
  <2>2. CASE slot[r].pc = "idle"
    BY <1>1, <2>1, <2>2 DEF HeldBy
  <2>3. CASE slot[r].pc # "idle"
    <3> DEFINE s == slot[r]
               t == late(s)
    <3>1. s \in Request
      BY <2>1, <2>3, RequestFields
    <3>2. PastDay(s.day) \in Days \ {"today"} /\ PastDay(s.charged) \in Days \ {"today"}
          /\ (PastDay(s.charged) = "none" <=> s.charged = "none")
      BY <3>1 DEF PastDay, Request, Days
    <3>3. t \in Request /\ t.pc = s.pc /\ t.key = s.key /\ t.items = s.items /\ t.n = s.n
          /\ t.charged = PastDay(s.charged) /\ t.id = s.id /\ t.day = PastDay(s.day) /\ t.lim = s.lim
      BY <3>1, <3>2 DEF Request
    <3>4. slot'[r] = t
      BY <1>1, <2>3
    <3> HIDE DEF t
    <3>5. Size(t) = Size(s) /\ KeyOf(t) = KeyOf(s) /\ BodyOf(t) = BodyOf(s)
      BY <3>3 DEF Size, KeyOf, BodyOf
    <3>6. t.id # 0 => IsRowOf(t.id, t, emails)
      BY <2>1, <2>3, <3>3, <3>5 DEF GoodSlot, IsRowOf
    <3>7. Reserved(t)
      BY <2>1, <2>3, <3>2, <3>3 DEF GoodSlot, Reserved
    <3>8. GoodSlot(t, emails, manifests)
      BY <2>1, <2>3, <3>3, <3>5, <3>6, <3>7 DEF GoodSlot
    <3>9. HeldBy(t) = 0
      BY <3>2, <3>3 DEF HeldBy
    <3> QED
      BY <3>3, <3>4, <3>8, <3>9, RequestIsState
  <2> QED
    BY <2>2, <2>3
<1> HIDE DEF late
<1>3. slot' \in [IntakeSlots -> SlotState] /\ SlotsInv'
  BY <1>1, <1>2 DEF SlotsInv
<1>4. UnitsHeld' = {}
  <2>1. \A r \in IntakeSlots : Held(r)' = 0
    BY <1>2 DEF Held, HeldBy, Body, BodyOf
  <2>2. \A r \in IntakeSlots : {r} \X (1..Held(r)') = {}
    BY <2>1
  <2> QED
    BY <2>2 DEF UnitsHeld
<1>5. QuotaInv'
  BY <1>1, <1>4, FS_EmptySet DEF QuotaInv
<1>6. RepliesInv' /\ replies' \in SUBSET Reply
  BY <1>1, StateFacts DEF RepliesInv, IntakeTypeOK, Reply
<1>7. used' \in 0..Max(DailyLimits)
  BY <1>1, LargestLimit
<1> QED
  BY <1>1, <1>3, <1>5, <1>6, <1>7, OthersKeep

\* The rows stay as history; what is under way stays what it is.
LEMMA DeleteTeamEmailsKeeps == IntakeInv /\ DeleteTeamEmails => IntakeInv'
<1> SUFFICES ASSUME IntakeInv, DeleteTeamEmails PROVE IntakeInv'
  OBVIOUS
<1>1. /\ intakeTeam' = "deleted"
      /\ UNCHANGED <<emails, manifests, used, accepted, leaked, replies, slot>>
  BY DEF DeleteTeamEmails
<1>2. UnitsHeld' = UnitsHeld
  BY <1>1 DEF UnitsHeld, Held, Body
<1> QED
  BY <1>1, <1>2 DEF IntakeInv, IntakeTypeOK, SlotsInv, KeysAreUnique, RepliesInv, QuotaInv

LEMMA IntakeNextKeeps == IntakeInv /\ [IntakeNext]_intakeVars => IntakeInv'
<1> SUFFICES ASSUME IntakeInv, [IntakeNext]_intakeVars PROVE IntakeInv'
  OBVIOUS
<1>1. ASSUME NEW r \in IntakeSlots, NEW k \in SingleKeys \cup {NoKey}, NEW b \in Bodies, Send(r, k, <<b>>)
      PROVE  IntakeInv'
  <2>1. <<b>> \in [1..1 -> Bodies]
    OBVIOUS
  <2> QED
    BY <1>1, <2>1, SendKeeps
<1>2. ASSUME NEW r \in IntakeSlots, NEW k \in BatchKeys, NEW items \in Lists, Send(r, k, items)
      PROVE  IntakeInv'
  BY <1>2, SendKeeps
<1>3. ASSUME NEW r \in IntakeSlots,
             \/ BatchSend(r) \/ Lookup(r) \/ Refuse(r) \/ RecipientLimit(r) \/ Reserve(r)
             \/ Create(r) \/ Push(r) \/ Release(r) \/ RequestDies(r)
      PROVE  IntakeInv'
  BY <1>3, BatchSendKeeps, LookupKeeps, RefuseKeeps, RecipientLimitKeeps, ReserveKeeps,
     CreateKeeps, PushKeeps, ReleaseKeeps, RequestDiesKeeps
<1>4. CASE UNCHANGED intakeVars
  <2>1. UnitsHeld' = UnitsHeld
    BY <1>4 DEF intakeVars, UnitsHeld, Held, Body
  <2> QED
    BY <1>4, <2>1
    DEF intakeVars, IntakeInv, IntakeTypeOK, SlotsInv, KeysAreUnique, RepliesInv, QuotaInv
<1> QED
  BY <1>1, <1>2, <1>3, <1>4, MidnightKeeps, DeleteTeamEmailsKeeps DEF IntakeNext

-----------------------------------------------------------------------------
(* What the team may rely on.                                              *)

\* The rows, the manifests, the counter and the requests of send and BatchSend
\* keep their types and what each request has established, whatever overlaps,
\* fails or dies.
THEOREM IntakeInvariance == IntakeSpec => []IntakeInv
<1> QED
  BY IntakeInitInv, IntakeNextKeeps, PTL DEF IntakeSpec

\* GetByIdempotencyKey, the unique index of EmailRepo.Create and the fallback to
\* the winner's row give every caller of one key one and the same email.
THEOREM OneEmailPerKey == IntakeSpec => []KeysAreExact
<1>1. IntakeInv => KeysAreExact
  <2> SUFFICES ASSUME IntakeInv, NEW x \in replies, NEW y \in replies, x.key = y.key
               PROVE  x.id = y.id /\ x.body = y.body /\ emails[x.id].body = x.body
    BY DEF KeysAreExact
  <2>1. GoodReply(x, emails, manifests) /\ GoodReply(y, emails, manifests) /\ KeysAreUnique
    BY DEF IntakeInv, RepliesInv
  <2> QED
    BY <2>1 DEF GoodReply, KeysAreUnique
<1> QED
  BY <1>1, IntakeInvariance, PTL

\* The upsert of email_batches refuses another payload under the key, so what is
\* answered for an item of a batch is the item of the first request, even if a
\* single request used the item's key before.
THEOREM BatchesKeepTheirPayload == IntakeSpec => []BatchesAreWhole
<1>1. IntakeInv => BatchesAreWhole
  <2> SUFFICES ASSUME IntakeInv, NEW x \in replies, NEW n \in 1..BatchSize,
                      x.of \in BatchKeys, x.key = ItemKey(x.of, n)
               PROVE  manifests[x.of] # <<>> /\ manifests[x.of][n] = x.body
    BY DEF BatchesAreWhole
  <2>1. PICK m \in 1..BatchSize :
          x.key = <<x.of, m>> /\ manifests[x.of] \in Lists /\ manifests[x.of][m] = x.body
    BY DEF IntakeInv, RepliesInv, GoodReply
  <2>2. m = n
    BY <2>1 DEF ItemKey
  <2> QED
    BY <2>1, <2>2, ListsAreNotEmpty
<1> QED
  BY <1>1, IntakeInvariance, PTL

\* Reserve and Release keep today's counter equal to what was queued, is under
\* way or has leaked, across midnight and plan changes, and within the limits.
THEOREM QuotaIsNeverWrong == IntakeSpec => []QuotaIsExact
<1>1. IntakeInv => QuotaIsExact
  <2> SUFFICES ASSUME IntakeInv PROVE QuotaIsExact
    OBVIOUS
  <2>1. /\ used \in 0..Max(DailyLimits) /\ accepted \in Nat /\ leaked \in Nat
        /\ used = accepted + leaked + Cardinality(UnitsHeld) /\ IsFiniteSet(UnitsHeld)
    BY StateFacts DEF QuotaInv
  <2>2. Cardinality(UnitsHeld) \in Nat
    BY <2>1, FS_CardinalityType
  <2> QED
    BY <2>1, <2>2, LargestLimit DEF QuotaIsExact
<1> QED
  BY <1>1, IntakeInvariance, PTL
=============================================================================
