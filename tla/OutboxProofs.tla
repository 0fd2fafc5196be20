---------------------------- MODULE OutboxProofs ----------------------------
(***************************************************************************)
(* Proofs about Outbox, for any events, publishers, batch and number of    *)
(* faults: no event is marked without a delivery, and only a crash has an  *)
(* event delivered once more.                                              *)
(***************************************************************************)
EXTENDS Outbox, WellFoundedInduction, TLAPS

OutboxTypeOK ==
    /\ row \in [Events -> {"NONE", "PENDING", "PROCESSED"}]
    /\ delivered \in [Events -> Nat]
    /\ claimed \in [Publishers -> SUBSET Events]
    /\ handled \in [Publishers -> SUBSET Events]
    /\ failed \in [Publishers -> SUBSET Events]
    /\ faults \in Nat

\* A row is locked by one publisher, and only while it is pending.
LocksArePrivate ==
    /\ \A p \in Publishers : /\ failed[p] \subseteq handled[p] /\ handled[p] \subseteq claimed[p]
                             /\ \A e \in claimed[p] : row[e] = "PENDING"
    /\ \A p, q \in Publishers : p # q => claimed[p] \cap claimed[q] = {}

\* A publisher has delivered the event and has neither committed nor crashed since.
InDelivery(e) == \E p \in Publishers : e \in handled[p] \ failed[p]

\* Every delivery but the last one was followed by a fault; the last one may still
\* be uncommitted.
DeliveriesCounted ==
    \A e \in Events :
        /\ delivered[e] <= faults + 1
        /\ row[e] = "NONE" => delivered[e] = 0
        /\ row[e] = "PENDING" => delivered[e] <= faults \/ InDelivery(e)
        /\ row[e] = "PROCESSED" \/ InDelivery(e) => delivered[e] > 0

OutboxInv == OutboxTypeOK /\ LocksArePrivate /\ DeliveriesCounted

-----------------------------------------------------------------------------
\* A set of naturals that is not empty has a minimum.
LEMMA MinIsLeast ==
    ASSUME NEW S \in SUBSET Nat, S # {}
    PROVE  Min(S) \in S /\ \A x \in S : Min(S) <= x
<1> DEFINE Less == OpToRel(<, Nat)
<1>1. IsWellFoundedOn(Less, Nat)
    BY NatLessThanWellFounded
<1>2. PICK x \in S : \A y \in S : <<y, x>> \notin Less
    <2> HIDE DEF Less
    <2> QED
        BY <1>1, WFMin
<1>3. \A y \in S : x <= y
    <2>1. \A i, j \in Nat : i < j => <<i, j>> \in Less
        BY DEF OpToRel
    <2>2. ASSUME NEW y \in S
          PROVE  ~(y < x) /\ x \in Nat /\ y \in Nat
        <3> HIDE DEF Less
        <3> QED
            BY <1>2, <2>1
    <2> QED
        BY <2>2
<1> QED
    BY <1>3 DEF Min

\* The row that is handled next is one the publisher has locked and not yet handled.
LEMMA NextIsClaimed ==
    ASSUME OutboxInv, NEW p \in Publishers, claimed[p] # handled[p]
    PROVE  NextOf(p) \in claimed[p] \ handled[p] /\ NextOf(p) \in Events
<1>1. claimed[p] \subseteq Events /\ claimed[p] \ handled[p] # {}
    BY DEF OutboxInv, OutboxTypeOK, LocksArePrivate
<1>2. claimed[p] \ handled[p] \in SUBSET Nat
    BY <1>1 DEF Events
<1> QED
    BY <1>1, <1>2, MinIsLeast DEF NextOf

\* An event that a publisher has locked is in no other publisher's batch.
LEMMA NobodyElseHas ==
    ASSUME OutboxInv, NEW p \in Publishers, NEW q \in Publishers, NEW e \in claimed[p], q # p
    PROVE  e \notin claimed[q] /\ e \notin handled[q] /\ e \notin failed[q]
BY DEF OutboxInv, LocksArePrivate

-----------------------------------------------------------------------------
\* The table is empty at the start.
LEMMA OutboxInitInv == Init => OutboxInv
BY OutboxBounds DEF Init, OutboxInv, OutboxTypeOK, LocksArePrivate, DeliveriesCounted, InDelivery

\* A row is written.
LEMMA InsertInv ==
    ASSUME OutboxInv, NEW e \in Events, Insert(e)
    PROVE  OutboxInv'
<1>1. /\ OutboxTypeOK' /\ row[e] = "NONE" /\ row'[e] = "PENDING"
      /\ \A d \in Events : d # e => row'[d] = row[d]
    BY DEF Insert, OutboxInv, OutboxTypeOK
<1>2. UNCHANGED <<delivered, claimed, handled, failed, faults>>
    BY DEF Insert
<1>3. LocksArePrivate'
    BY <1>1, <1>2 DEF OutboxInv, OutboxTypeOK, LocksArePrivate
<1>4. \A d \in Events : InDelivery(d)' <=> InDelivery(d)
    BY <1>2 DEF InDelivery
<1>5. DeliveriesCounted'
    BY <1>1, <1>2, <1>4 DEF OutboxInv, OutboxTypeOK, DeliveriesCounted
<1> QED
    BY <1>1, <1>3, <1>5 DEF OutboxInv

\* A batch is locked: rows that are pending and that nobody has.
LEMMA PollInv ==
    ASSUME OutboxInv, NEW p \in Publishers, Poll(p)
    PROVE  OutboxInv'
<1>1. /\ ListPending \subseteq Events
      /\ \A e \in ListPending : row[e] = "PENDING" /\ \A q \in Publishers : e \notin claimed[q]
    BY DEF ListPending, Free, Locked
<1>2. /\ OutboxTypeOK' /\ claimed[p] = {} /\ claimed'[p] = ListPending
      /\ \A q \in Publishers : q # p => claimed'[q] = claimed[q]
    BY <1>1 DEF Poll, OutboxInv, OutboxTypeOK
<1>3. UNCHANGED <<row, delivered, handled, failed, faults>>
    BY DEF Poll
<1>4. LocksArePrivate'
    BY <1>1, <1>2, <1>3 DEF OutboxInv, LocksArePrivate
<1>5. DeliveriesCounted'
    BY <1>3 DEF OutboxInv, DeliveriesCounted, InDelivery
<1> QED
    BY <1>2, <1>4, <1>5 DEF OutboxInv

\* A delivery: nobody else is delivering the event, so all earlier ones were
\* followed by a fault.
LEMMA HandleOkInv ==
    ASSUME OutboxInv, NEW p \in Publishers, HandleOk(p)
    PROVE  OutboxInv'
<1>1. PICK n \in Events : n = NextOf(p) /\ n \in claimed[p] /\ n \notin handled[p]
    BY NextIsClaimed DEF HandleOk
<1>2. /\ delivered' = [delivered EXCEPT ![n] = @ + 1]
      /\ handled' = [handled EXCEPT ![p] = @ \cup {n}]
      /\ UNCHANGED <<row, claimed, failed, faults>>
    BY <1>1 DEF HandleOk
<1>3. /\ OutboxTypeOK'
      /\ delivered'[n] = delivered[n] + 1
      /\ \A e \in Events : e # n => delivered'[e] = delivered[e]
      /\ handled'[p] = handled[p] \cup {n}
      /\ \A q \in Publishers : q # p => handled'[q] = handled[q]
    BY <1>1, <1>2 DEF OutboxInv, OutboxTypeOK
<1>4. LocksArePrivate'
    BY <1>1, <1>2, <1>3 DEF OutboxInv, LocksArePrivate
<1>5. ~InDelivery(n) /\ row[n] = "PENDING"
    BY <1>1, NobodyElseHas DEF InDelivery, OutboxInv, LocksArePrivate
<1>6. n \notin failed[p]
    BY <1>1 DEF OutboxInv, LocksArePrivate
<1>7. InDelivery(n)' /\ \A e \in Events : e # n => (InDelivery(e)' <=> InDelivery(e))
    BY <1>1, <1>2, <1>3, <1>6 DEF InDelivery
<1>8. delivered[n] <= faults /\ delivered[n] \in Nat /\ faults \in Nat
    BY <1>1, <1>5 DEF OutboxInv, OutboxTypeOK, DeliveriesCounted
<1>9. DeliveriesCounted'
    BY <1>2, <1>3, <1>5, <1>7, <1>8 DEF OutboxInv, DeliveriesCounted
<1> QED
    BY <1>3, <1>4, <1>9 DEF OutboxInv

\* A refusal delivers nothing.
LEMMA HandleFailsInv ==
    ASSUME OutboxInv, NEW p \in Publishers, HandleFails(p)
    PROVE  OutboxInv'
<1>1. PICK n \in Events : n = NextOf(p) /\ n \in claimed[p] /\ n \notin handled[p]
    BY NextIsClaimed DEF HandleFails
<1>2. /\ failed' = [failed EXCEPT ![p] = @ \cup {n}]
      /\ handled' = [handled EXCEPT ![p] = @ \cup {n}]
      /\ UNCHANGED <<row, delivered, claimed>>
      /\ faults' = faults \/ faults' = faults + 1
    BY <1>1 DEF HandleFails
<1>3. /\ OutboxTypeOK' /\ faults' >= faults
      /\ handled'[p] = handled[p] \cup {n} /\ failed'[p] = failed[p] \cup {n}
      /\ \A q \in Publishers : q # p => handled'[q] = handled[q] /\ failed'[q] = failed[q]
    BY <1>1, <1>2 DEF OutboxInv, OutboxTypeOK
<1>4. LocksArePrivate'
    BY <1>1, <1>2, <1>3 DEF OutboxInv, LocksArePrivate
<1>5. \A e \in Events : InDelivery(e)' <=> InDelivery(e)
    <2>1. \A q \in Publishers : handled'[q] \ failed'[q] = handled[q] \ failed[q]
        BY <1>1, <1>3
    <2> QED
        BY <2>1 DEF InDelivery
<1>6. DeliveriesCounted'
    BY <1>2, <1>3, <1>5 DEF OutboxInv, OutboxTypeOK, DeliveriesCounted
<1> QED
    BY <1>3, <1>4, <1>6 DEF OutboxInv

\* What Released does to a publisher's batch.
LEMMA ReleasedBatch ==
    ASSUME OutboxInv, NEW p \in Publishers, Released(p)
    PROVE  /\ claimed'[p] = {} /\ handled'[p] = {} /\ failed'[p] = {}
           /\ \A q \in Publishers : q # p => /\ claimed'[q] = claimed[q]
                                           /\ handled'[q] = handled[q] /\ failed'[q] = failed[q]
           /\ claimed' \in [Publishers -> SUBSET Events]
           /\ handled' \in [Publishers -> SUBSET Events]
           /\ failed' \in [Publishers -> SUBSET Events]
BY DEF Released, OutboxInv, OutboxTypeOK

\* The commit marks what was delivered; refused rows stay pending.
LEMMA CommitInv ==
    ASSUME OutboxInv, NEW p \in Publishers, Commit(p)
    PROVE  OutboxInv'
<1>1. /\ handled[p] = claimed[p] /\ Released(p) /\ UNCHANGED <<delivered, faults>>
      /\ row' = [e \in Events |-> IF e \in claimed[p] \ failed[p] THEN "PROCESSED" ELSE row[e]]
    BY DEF Commit
<1>2. OutboxTypeOK'
    BY <1>1, ReleasedBatch DEF OutboxInv, OutboxTypeOK
<1>3. LocksArePrivate'
    <2>1. ASSUME NEW q \in Publishers, q # p, NEW e \in claimed[q]
          PROVE  row'[e] = "PENDING"
        <3>1. e \notin claimed[p] /\ e \in Events /\ row[e] = "PENDING"
            BY <2>1 DEF OutboxInv, OutboxTypeOK, LocksArePrivate
        <3> QED
            BY <1>1, <3>1
    <2> QED
        BY <1>1, <2>1, ReleasedBatch DEF OutboxInv, LocksArePrivate
<1>4. ASSUME NEW e \in Events, e \in claimed[p]
      PROVE  /\ ~InDelivery(e)'
             /\ InDelivery(e) <=> e \notin failed[p]
             /\ row[e] = "PENDING"
    BY <1>1, <1>4, NobodyElseHas, ReleasedBatch DEF InDelivery, OutboxInv, LocksArePrivate
<1>5. ASSUME NEW e \in Events, e \notin claimed[p]
      PROVE  (InDelivery(e)' <=> InDelivery(e)) /\ row'[e] = row[e]
    BY <1>1, <1>5, ReleasedBatch DEF InDelivery
<1>6. DeliveriesCounted'
    <2> SUFFICES ASSUME NEW e \in Events
                 PROVE  /\ delivered'[e] <= faults' + 1
                        /\ row'[e] = "NONE" => delivered'[e] = 0
                        /\ row'[e] = "PENDING" => delivered'[e] <= faults' \/ InDelivery(e)'
                        /\ row'[e] = "PROCESSED" \/ InDelivery(e)' => delivered'[e] > 0
        BY DEF DeliveriesCounted
    <2>1. CASE e \in claimed[p]
        BY <1>1, <1>4, <2>1 DEF OutboxInv, DeliveriesCounted
    <2>2. CASE e \notin claimed[p]
        BY <1>1, <1>5, <2>2 DEF OutboxInv, DeliveriesCounted
    <2> QED
        BY <2>1, <2>2
<1> QED
    BY <1>2, <1>3, <1>6 DEF OutboxInv

\* A crash is one more fault, and one more delivery of what the batch had delivered.
LEMMA CrashInv ==
    ASSUME OutboxInv, NEW p \in Publishers, Crash(p)
    PROVE  OutboxInv'
<1>1. Released(p) /\ faults' = faults + 1 /\ UNCHANGED <<row, delivered>>
    BY DEF Crash
<1>2. OutboxTypeOK'
    BY <1>1, ReleasedBatch DEF OutboxInv, OutboxTypeOK
<1>3. LocksArePrivate'
    BY <1>1, ReleasedBatch DEF OutboxInv, LocksArePrivate
<1>4. \A e \in Events : InDelivery(e)' => InDelivery(e)
    BY ReleasedBatch, <1>1 DEF InDelivery
<1>5. DeliveriesCounted'
    BY <1>1, <1>4 DEF OutboxInv, OutboxTypeOK, DeliveriesCounted
<1> QED
    BY <1>2, <1>3, <1>5 DEF OutboxInv

\* The invariant of the outbox table and its publishers.
THEOREM OutboxInvariantHolds == Spec => []OutboxInv
<1>1. OutboxInv /\ [Next]_vars => OutboxInv'
    <2> SUFFICES ASSUME OutboxInv, [Next]_vars PROVE OutboxInv'
        OBVIOUS
    <2>1. CASE UNCHANGED vars
        BY <2>1 DEF vars, OutboxInv, OutboxTypeOK, LocksArePrivate, DeliveriesCounted, InDelivery
    <2> QED
        BY <2>1, InsertInv, PollInv, HandleOkInv, HandleFailsInv, CommitInv, CrashInv
        DEF Next, Publish
<1> QED
    BY OutboxInitInv, <1>1, PTL DEF Spec

\* No event is marked without a delivery, and concurrent publishers never repeat each
\* other: a second delivery needs a fault.
THEOREM DeliveredOnceHolds == Spec => []DeliveredOncePerFault
<1>1. OutboxInv => DeliveredOncePerFault
    BY DEF OutboxInv, DeliveriesCounted, DeliveredOncePerFault
<1> QED
    BY <1>1, OutboxInvariantHolds, PTL
=============================================================================
