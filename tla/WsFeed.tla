------------------------------- MODULE WsFeed -------------------------------
(***************************************************************************)
(* The WebSocket feed (internal/wsfeed): the hub's client set behind a     *)
(* read-write mutex, the bridge goroutines that publish engine events to   *)
(* it, and for every connection a reader and a writer goroutine that share *)
(* the client's bounded queue.  The reader unregisters the client and then *)
(* closes the queue; Publish must never send on a closed one (Go panics).  *)
(***************************************************************************)
EXTENDS Naturals, Sequences, FiniteSets

CONSTANTS Clients,
          Bridges,  \* goroutines of the event bus that are inside the bridge
          BufLen    \* sendBufferLength, 256 in the code

ASSUME WsBounds == BufLen \in Nat \ {0}

VARIABLES clients,   \* Hub.clients
          topics,    \* [Clients -> SUBSET Topics]: Client.topics
          out,       \* [Clients -> Seq(Topics)]: Client.out
          closed,    \* the clients whose out is closed
          conn,      \* [Clients -> {"none", "open", "broken"}]
          reader,    \* [Clients -> pc of readLoop]
          writer,    \* [Clients -> pc of writeLoop]
          bridge,    \* [Bridges -> [jobs, todo, sending]]
          panicked   \* a goroutine has sent on a closed channel

vars == <<clients, topics, out, closed, conn, reader, writer, bridge, panicked>>

Topics == {"trades", "orderbook"}
EventTypes == {"TradeMatched", "OrderRested", "OrderCancelled"}
IdleBridge == [jobs |-> <<>>, todo |-> {}, sending |-> FALSE]

Init ==
    /\ clients = {} /\ closed = {} /\ panicked = FALSE
    /\ topics = [c \in Clients |-> {}]
    /\ out = [c \in Clients |-> <<>>]
    /\ conn = [c \in Clients |-> "none"]
    /\ reader = [c \in Clients |-> "none"]
    /\ writer = [c \in Clients |-> "none"]
    /\ bridge = [b \in Bridges |-> IdleBridge]

-----------------------------------------------------------------------------
(* Hub *)

\* Publish holds the read lock while it goes through the clients.
NoReadLock == \A b \in Bridges : ~bridge[b].sending

\* A goroutine that waits for the write lock keeps new readers out (sync.RWMutex).
NoWriterWaits == \A c \in Clients : reader[c] # "unregistering"

\* ServeHTTP: upgrade, register and start both loops.
Connect(c) ==
    /\ conn[c] = "none"
    /\ NoReadLock
    /\ clients' = clients \cup {c}
    /\ conn' = [conn EXCEPT ![c] = "open"]
    /\ reader' = [reader EXCEPT ![c] = "reading"]
    /\ writer' = [writer EXCEPT ![c] = "running"]
    /\ UNCHANGED <<topics, out, closed, bridge, panicked>>

-----------------------------------------------------------------------------
(* EngineBridge and Hub.Publish *)

\* What an engine event is published to, in this order.
Published(type) == IF type = "TradeMatched" THEN <<"trades", "orderbook", "orderbook">>
                                            ELSE <<"orderbook">>

OnEvent(b, type) ==
    /\ bridge[b] = IdleBridge
    /\ bridge' = [bridge EXCEPT ![b].jobs = Published(type)]
    /\ UNCHANGED <<clients, topics, out, closed, conn, reader, writer, panicked>>

BeginPublish(b) ==
    /\ bridge[b].jobs # <<>>
    /\ ~bridge[b].sending
    /\ NoWriterWaits
    /\ bridge' = [bridge EXCEPT ![b].sending = TRUE, ![b].todo = clients]
    /\ UNCHANGED <<clients, topics, out, closed, conn, reader, writer, panicked>>

\* Mutant: send waits for room in the queue.
SendWaits(c, topic) ==
    /\ Len(out[c]) < BufLen
    /\ panicked' = (panicked \/ c \in closed)
    /\ out' = [out EXCEPT ![c] = Append(@, topic)]

\* Client.send never waits: it queues, drops when the queue is full, or panics.
Send(c, topic) ==
    /\ panicked' = (panicked \/ c \in closed)
    /\ out' = IF Len(out[c]) < BufLen THEN [out EXCEPT ![c] = Append(@, topic)] ELSE out

\* One round of the loop over the clients, which go in any order.
Offer(b, c) ==
    /\ bridge[b].sending
    /\ c \in bridge[b].todo
    /\ \/ Head(bridge[b].jobs) \in topics[c] /\ Send(c, Head(bridge[b].jobs))
       \/ Head(bridge[b].jobs) \notin topics[c] /\ UNCHANGED <<out, panicked>>
    /\ bridge' = [bridge EXCEPT ![b].todo = @ \ {c}]
    /\ UNCHANGED <<clients, topics, closed, conn, reader, writer>>

EndPublish(b) ==
    /\ bridge[b].sending
    /\ bridge[b].todo = {}
    /\ bridge' = [bridge EXCEPT ![b].sending = FALSE, ![b].jobs = Tail(@)]
    /\ UNCHANGED <<clients, topics, out, closed, conn, reader, writer, panicked>>

Publish(b) == BeginPublish(b) \/ (\E c \in Clients : Offer(b, c)) \/ EndPublish(b)

-----------------------------------------------------------------------------
(* readLoop and close *)

\* A subscribe or unsubscribe message.
ReadOp(c, topic) ==
    /\ reader[c] = "reading"
    /\ conn[c] = "open"
    /\ topics' = [topics EXCEPT ![c] = IF topic \in @ THEN @ \ {topic} ELSE @ \cup {topic}]
    /\ UNCHANGED <<clients, out, closed, conn, reader, writer, bridge, panicked>>

\* ReadMessage returns an error: the connection is broken or no pong came in time.
ReadFails(c) ==
    /\ reader[c] = "reading"
    /\ reader' = [reader EXCEPT ![c] = "unregistering"]
    /\ UNCHANGED <<clients, topics, out, closed, conn, writer, bridge, panicked>>

\* Mutant: unregister does not take the write lock.
UnregisterUnlocked(c) ==
    /\ reader[c] = "unregistering"
    /\ clients' = clients \ {c}
    /\ reader' = [reader EXCEPT ![c] = "closing"]
    /\ UNCHANGED <<topics, out, closed, conn, writer, bridge, panicked>>

Unregister(c) ==
    /\ reader[c] = "unregistering"
    /\ NoReadLock
    /\ clients' = clients \ {c}
    /\ reader' = [reader EXCEPT ![c] = "closing"]
    /\ UNCHANGED <<topics, out, closed, conn, writer, bridge, panicked>>

CloseOut(c) ==
    /\ reader[c] = "closing"
    /\ closed' = closed \cup {c}
    /\ reader' = [reader EXCEPT ![c] = "ended"]
    /\ UNCHANGED <<clients, topics, out, conn, writer, bridge, panicked>>

Reader(c) == (conn[c] = "broken" /\ ReadFails(c)) \/ Unregister(c) \/ CloseOut(c)

-----------------------------------------------------------------------------
(* writeLoop *)

Write(c) ==
    /\ writer[c] = "running"
    /\ out[c] # <<>>
    /\ conn[c] = "open"
    /\ out' = [out EXCEPT ![c] = Tail(@)]
    /\ UNCHANGED <<clients, topics, closed, conn, reader, writer, bridge, panicked>>

\* Mutant: a failed write does not end the loop.
EndWriterOnClose(c) ==
    /\ writer[c] = "running"
    /\ c \in closed /\ out[c] = <<>>
    /\ writer' = [writer EXCEPT ![c] = "ended"]
    /\ conn' = [conn EXCEPT ![c] = "broken"]
    /\ UNCHANGED <<clients, topics, out, closed, reader, bridge, panicked>>

\* The queue is closed and drained, or a write or ping fails or exceeds writeWait:
\* the loop ends and closes the connection.
EndWriter(c) ==
    /\ writer[c] = "running"
    /\ (c \in closed /\ out[c] = <<>>) \/ conn[c] = "broken"
    /\ writer' = [writer EXCEPT ![c] = "ended"]
    /\ conn' = [conn EXCEPT ![c] = "broken"]
    /\ UNCHANGED <<clients, topics, out, closed, reader, bridge, panicked>>

Writer(c) == Write(c) \/ EndWriter(c)

\* The peer goes away, or stops reading until a deadline passes.
Break(c) ==
    /\ conn[c] = "open"
    /\ conn' = [conn EXCEPT ![c] = "broken"]
    /\ UNCHANGED <<clients, topics, out, closed, reader, writer, bridge, panicked>>

-----------------------------------------------------------------------------
Next ==
    \/ \E b \in Bridges : Publish(b) \/ \E type \in EventTypes : OnEvent(b, type)
    \/ \E c \in Clients : \/ Connect(c) \/ Break(c) \/ ReadFails(c) \/ Unregister(c)
                          \/ CloseOut(c) \/ Writer(c)
                          \/ \E topic \in Topics : ReadOp(c, topic)

\* Runnable goroutines run.  Peers are free: they may stay silent or go at any time.
Spec ==
    /\ Init /\ [][Next]_vars
    /\ \A b \in Bridges : WF_vars(Publish(b))
    /\ \A c \in Clients : WF_vars(Reader(c)) /\ WF_vars(Writer(c))

-----------------------------------------------------------------------------
(* Properties *)

\* Publish never sends on a queue that readLoop has closed: unregister, under the
\* write lock, comes before close, so no Publish still holds the client.
NoSendOnClosedQueue == ~panicked

\* Publish returns whatever its clients do: slow, silent and vanished peers do not
\* hold up the event handlers ("Publish is non-blocking", hub.go).
PublishReturns == \A b \in Bridges : bridge[b].jobs # <<>> ~> bridge[b].jobs = <<>>

\* When a connection is gone both of its goroutines end and the hub forgets it.
GoneClientsAreForgotten ==
    \A c \in Clients : conn[c] = "broken" ~>
        c \notin clients /\ reader[c] = "ended" /\ writer[c] = "ended"
=============================================================================
