------------------------------- MODULE Outbox -------------------------------
(***************************************************************************)
(* The outbox publisher (internal/outbox): every business transaction      *)
(* leaves a PENDING row, and publishers, one per running process, poll the *)
(* table, hand each row to the handler inside a transaction and mark it.   *)
(* The README asks for one instance; two overlap while one replaces the    *)
(* other, which is what FOR UPDATE SKIP LOCKED is for.                     *)
(* A publisher can stop at any point: its transaction rolls back, the      *)
(* deliveries it has made stay made.                                       *)
(***************************************************************************)
EXTENDS Naturals, FiniteSets, FiniteSetsExt

CONSTANTS MaxEvents,  \* events are numbered by created_at
          Poison,     \* events the handler always refuses
          Publishers,
          Batch,      \* LIMIT of ListPending, 50 in the code
          MaxFaults,  \* bound on crashes and passing handler errors
          MaxRetries  \* where the counted retries saturate

Events == 1..MaxEvents

ASSUME OutboxBounds ==
    /\ MaxEvents \in Nat /\ Batch \in Nat \ {0} /\ MaxFaults \in Nat /\ MaxRetries \in Nat
    /\ Poison \subseteq Events

VARIABLES row,        \* [Events -> {"NONE", "PENDING", "PROCESSED"}], committed status
          retries,    \* [Events -> Nat], committed
          delivered,  \* [Events -> Nat]: calls of the handler that succeeded
          claimed,    \* [Publishers -> SUBSET Events]: rows its transaction has locked
          handled,    \* [Publishers -> SUBSET Events]: of these, handed to the handler
          failed,     \* [Publishers -> SUBSET Events]: of these, refused
          faults      \* crashes and passing errors so far

vars == <<row, retries, delivered, claimed, handled, failed, faults>>

Init ==
    /\ row = [e \in Events |-> "NONE"]
    /\ retries = [e \in Events |-> 0]
    /\ delivered = [e \in Events |-> 0]
    /\ claimed = [p \in Publishers |-> {}]
    /\ handled = [p \in Publishers |-> {}]
    /\ failed = [p \in Publishers |-> {}]
    /\ faults = 0

\* The commit of a business transaction; commits need not follow created_at.
Insert(e) ==
    /\ row[e] = "NONE"
    /\ row' = [row EXCEPT ![e] = "PENDING"]
    /\ UNCHANGED <<retries, delivered, claimed, handled, failed, faults>>

Locked == UNION {claimed[p] : p \in Publishers}

\* Mutant: pending rows are read without FOR UPDATE SKIP LOCKED.
FreeUnlocked == {e \in Events : row[e] = "PENDING"}

Free == {e \in Events : row[e] = "PENDING" /\ e \notin Locked}

\* The oldest pending rows that no other transaction has locked (SKIP LOCKED).
ListPending == {e \in Free : Cardinality({d \in Free : d < e}) < Batch}

Poll(p) ==
    /\ claimed[p] = {}
    /\ ListPending # {}
    /\ claimed' = [claimed EXCEPT ![p] = ListPending]
    /\ UNCHANGED <<row, retries, delivered, handled, failed, faults>>

\* The rows of a batch are handled oldest first.
NextOf(p) == Min(claimed[p] \ handled[p])

HandleOk(p) ==
    /\ claimed[p] # handled[p]
    /\ NextOf(p) \notin Poison
    /\ delivered' = [delivered EXCEPT ![NextOf(p)] = @ + 1]
    /\ handled' = [handled EXCEPT ![p] = @ \cup {NextOf(p)}]
    /\ UNCHANGED <<row, retries, claimed, failed, faults>>

\* Mutant: the first refused row ends the batch.
HandleFailsForAll(p) ==
    /\ claimed[p] # handled[p]
    /\ \/ NextOf(p) \in Poison /\ UNCHANGED faults
       \/ NextOf(p) \notin Poison /\ faults < MaxFaults /\ faults' = faults + 1
    /\ failed' = [failed EXCEPT ![p] = @ \cup (claimed[p] \ handled[p])]
    /\ handled' = [handled EXCEPT ![p] = claimed[p]]
    /\ UNCHANGED <<row, retries, delivered, claimed>>

\* A refused row stays PENDING and the batch goes on.
HandleFails(p) ==
    /\ claimed[p] # handled[p]
    /\ \/ NextOf(p) \in Poison /\ UNCHANGED faults
       \/ NextOf(p) \notin Poison /\ faults < MaxFaults /\ faults' = faults + 1
    /\ failed' = [failed EXCEPT ![p] = @ \cup {NextOf(p)}]
    /\ handled' = [handled EXCEPT ![p] = @ \cup {NextOf(p)}]
    /\ UNCHANGED <<row, retries, delivered, claimed>>

Released(p) ==
    /\ claimed' = [claimed EXCEPT ![p] = {}]
    /\ handled' = [handled EXCEPT ![p] = {}]
    /\ failed' = [failed EXCEPT ![p] = {}]

\* MarkProcessed and IncrementRetries take effect together.
Commit(p) ==
    /\ claimed[p] # {}
    /\ handled[p] = claimed[p]
    /\ row' = [e \in Events |-> IF e \in claimed[p] \ failed[p] THEN "PROCESSED" ELSE row[e]]
    /\ retries' = [e \in Events |->
                     IF e \in failed[p] /\ retries[e] < MaxRetries THEN retries[e] + 1 ELSE retries[e]]
    /\ Released(p)
    /\ UNCHANGED <<delivered, faults>>

\* The process stops, or a statement fails: the transaction rolls back.
Crash(p) ==
    /\ claimed[p] # {}
    /\ faults < MaxFaults
    /\ faults' = faults + 1
    /\ Released(p)
    /\ UNCHANGED <<row, retries, delivered>>

Publish(p) == Poll(p) \/ HandleOk(p) \/ HandleFails(p) \/ Commit(p)

Next == \/ \E e \in Events : Insert(e)
        \/ \E p \in Publishers : Publish(p) \/ Crash(p)

\* The ticker of a running publisher keeps firing and its statements return.
Spec == Init /\ [][Next]_vars /\ \A p \in Publishers : WF_vars(Publish(p))

-----------------------------------------------------------------------------
(* Properties *)

\* An event is marked PROCESSED only after a delivery, and is delivered more than
\* once only because of a crash: concurrent publishers never repeat each other.
DeliveredOncePerFault ==
    /\ \A e \in Events : row[e] = "PROCESSED" => delivered[e] > 0
    /\ \A e \in Events : delivered[e] <= faults + 1

\* As long as a batch is not full of them, events the handler keeps refusing do
\* not keep the others from being delivered.
GoodEventsArePublished ==
    Cardinality(Poison) < Batch =>
        \A e \in Events \ Poison : row[e] = "PENDING" ~> row[e] = "PROCESSED"
=============================================================================
