--------------------------- MODULE OperatorChannel ---------------------------
(***************************************************************************)
(* The WebSocket channel of the web interface                              *)
(* (pkg/channels/operator/operator.go): handshakes, one reader and one     *)
(* pinger per connection, broadcasts to the connections of a session by    *)
(* the channel's worker and by the readers, and Stop.  Writes to one       *)
(* connection exclude each other and have no deadline: one blocks while    *)
(* the client does not read.                                               *)
(* Left out: authentication, the contents of messages, and what becomes of *)
(* a message on the bus; the typing indicator and the placeholder a        *)
(* message sets off are one broadcast.                                     *)
(***************************************************************************)
EXTENDS Naturals, FiniteSets

CONSTANTS
    Client,          \* each connects once at most
    Session,
    SessionOf,       \* [Client -> Session]
    MaxConnections,
    Window,          \* frames the network holds for a client that does not read
    Nobody

ASSUME OperatorAssumption ==
    /\ SessionOf \in [Client -> Session]
    /\ MaxConnections \in Nat \ {0} /\ Window \in Nat \ {0}
    /\ Nobody \notin Client /\ {"send", "stop"} \cap Client = {}

VARIABLES
    stopAt,       \* how far Stop has come
    connections,  \* OperatorChannel.connections
    connCount,
    reader,       \* Client -> progress of its handshake, then of readLoop
    closed,       \* clients whose connection is closed on this side
    unread,       \* Client -> frames in the network
    writeMu,      \* Client -> who holds its write lock
    walk          \* who ranges over connections: the connection at hand and those still to visit

opVars == <<stopAt, connections, connCount, reader, closed, unread, writeMu, walk>>
connVars == <<connections, connCount>>

\* The worker of the channel, Stop, and the readers.
Ranger == Client \cup {"send", "stop"}

NotRanging == [step |-> "idle", at |-> Nobody, left |-> {}]

OpInit ==
    /\ stopAt = "running"
    /\ connections = {} /\ connCount = 0
    /\ reader = [k \in Client |-> "off"]
    /\ closed = {}
    /\ unread = [k \in Client |-> 0]
    /\ writeMu = [k \in Client |-> Nobody]
    /\ walk = [w \in Ranger |-> NotRanging]

Canceled == stopAt = "stopped"

Reads(k, step) == reader' = [reader EXCEPT ![k] = step]

(***************************************************************************)
(* handleWebSocket                                                         *)
(***************************************************************************)

\* The channel runs, and the limit is not reached yet.
Handshake(k) ==
    /\ reader[k] = "off"
    /\ stopAt = "running"
    /\ connCount < MaxConnections
    /\ Reads(k, "checked")
    /\ UNCHANGED <<stopAt, connVars, closed, unread, writeMu, walk>>

\* The connection is stored and counted, and its reader and pinger start.  If Stop ranges
\* over the map at this time, it sees the connection or not; a broadcast goes without it.
StoreConn(k) ==
    /\ reader[k] = "checked"
    /\ connections' = connections \cup {k}
    /\ connCount' = connCount + 1
    /\ Reads(k, "loop")
    /\ \/ UNCHANGED walk
       \/ /\ walk["stop"].step = "walk"
          /\ walk' = [walk EXCEPT !["stop"].left = @ \cup {k}]
    /\ UNCHANGED <<stopAt, closed, unread, writeMu>>

(***************************************************************************)
(* Ranging over the connections and writing                                *)
(***************************************************************************)

\* broadcastToSession skips the connections of other sessions.
Members(s) == {k \in connections : SessionOf[k] = s}

Remaining(left) ==
    IF left = {} THEN NotRanging ELSE [step |-> "walk", at |-> Nobody, left |-> left]
Ranging(w, left) == walk' = [walk EXCEPT ![w] = Remaining(left)]

At(w, step, k, left) == walk' = [walk EXCEPT ![w] = [step |-> step, at |-> k, left |-> left]]

\* The next connection: writeJSON fails at once if it is closed, and goes for the lock
\* else.  One that was deleted meanwhile is not seen any more.
Visit(w) ==
    /\ walk[w].step = "walk" /\ w # "stop"
    /\ \E k \in walk[w].left :
          IF k \in closed \/ (w # k /\ k \notin connections)
          THEN Ranging(w, walk[w].left \ {k})
          ELSE At(w, "lock", k, walk[w].left \ {k})
    /\ UNCHANGED <<stopAt, connVars, reader, closed, unread, writeMu>>

\* A write ends with an error once the connection is closed; otherwise the network must
\* have room.
Free(k) == k \in closed \/ unread[k] < Window
PutFrame(k) == unread' = IF k \in closed THEN unread ELSE [unread EXCEPT ![k] = @ + 1]

\* The writer takes the free lock; it keeps it while the network is full.
LockConn(w) ==
    LET k == walk[w].at IN
    /\ walk[w].step = "lock"
    /\ writeMu[k] = Nobody
    /\ \/ Free(k) /\ PutFrame(k) /\ Ranging(w, walk[w].left) /\ UNCHANGED writeMu
       \/ /\ ~Free(k)
          /\ writeMu' = [writeMu EXCEPT ![k] = w]
          /\ At(w, "write", k, walk[w].left)
          /\ UNCHANGED unread
    /\ UNCHANGED <<stopAt, connVars, reader, closed>>

Written(w) ==
    LET k == walk[w].at IN
    /\ walk[w].step = "write"
    /\ Free(k) /\ PutFrame(k)
    /\ writeMu' = [writeMu EXCEPT ![k] = Nobody]
    /\ Ranging(w, walk[w].left)
    /\ UNCHANGED <<stopAt, connVars, reader, closed>>

\* The client has left: the write fails before the reader learns of it.
WriteFails(w) ==
    /\ walk[w].step = "write"
    /\ writeMu' = [writeMu EXCEPT ![walk[w].at] = Nobody]
    /\ Ranging(w, walk[w].left)
    /\ UNCHANGED <<stopAt, connVars, reader, closed, unread>>

\* Send and EditMessage, the latter whether the channel runs or not.
Broadcast(s) ==
    /\ walk["send"].step = "idle"
    /\ Ranging("send", Members(s))
    /\ UNCHANGED <<stopAt, connVars, reader, closed, unread, writeMu>>

(***************************************************************************)
(* readLoop                                                                *)
(***************************************************************************)

\* MUTANT: the deferred calls are registered after the first look at the context.
CheckContextBare(k) ==
    /\ reader[k] = "loop" /\ walk[k] = NotRanging
    /\ Reads(k, IF Canceled THEN "ended" ELSE "read")
    /\ UNCHANGED <<stopAt, connVars, closed, unread, writeMu, walk>>

CheckContext(k) ==
    /\ reader[k] = "loop" /\ walk[k] = NotRanging
    /\ Reads(k, IF Canceled THEN "close" ELSE "read")
    /\ UNCHANGED <<stopAt, connVars, closed, unread, writeMu, walk>>

\* A message arrives, and is handled before the next look at the context.  A ping, an
\* unknown or an unreadable message is answered on the connection; a text for a session
\* makes the session's connections show the typing indicator.
ClientSends(k) ==
    /\ reader[k] = "read" /\ k \notin closed
    /\ Reads(k, "loop")
    /\ Ranging(k, {k}) \/ \E s \in Session : Ranging(k, Members(s))
    /\ UNCHANGED <<stopAt, connVars, closed, unread, writeMu>>

\* The client closes the connection, this side has closed it, or the read deadline passes.
ReadFails(k) ==
    /\ reader[k] = "read"
    /\ Reads(k, "close")
    /\ UNCHANGED <<stopAt, connVars, closed, unread, writeMu, walk>>

\* MUTANT: close waits for the writer.
CloseBetweenWrites(k) ==
    /\ reader[k] = "close"
    /\ writeMu[k] = Nobody
    /\ closed' = closed \cup {k}
    /\ connections' = connections \ {k}
    /\ connCount' = connCount - 1
    /\ Reads(k, "ended")
    /\ UNCHANGED <<stopAt, unread, writeMu, walk>>

\* The deferred calls close the connection, delete it and take it off the count; a writer
\* that still finds it closed passes it over.
CloseAtEnd(k) ==
    /\ reader[k] = "close"
    /\ closed' = closed \cup {k}
    /\ connections' = connections \ {k}
    /\ connCount' = connCount - 1
    /\ Reads(k, "ended")
    /\ UNCHANGED <<stopAt, unread, writeMu, walk>>

(***************************************************************************)
(* pingLoop                                                                *)
(***************************************************************************)

\* Until the context is canceled or the connection is closed, a ping every half minute.
Ping(k) ==
    /\ reader[k] \notin {"off", "checked"}
    /\ ~Canceled /\ k \notin closed
    /\ writeMu[k] = Nobody
    /\ \/ Free(k) /\ PutFrame(k) /\ UNCHANGED writeMu
       \/ ~Free(k) /\ writeMu' = [writeMu EXCEPT ![k] = "pinger"] /\ UNCHANGED unread
    /\ UNCHANGED <<stopAt, connVars, reader, closed, walk>>

Pinged(k) ==
    /\ writeMu[k] = "pinger"
    /\ Free(k) /\ PutFrame(k)
    /\ writeMu' = [writeMu EXCEPT ![k] = Nobody]
    /\ UNCHANGED <<stopAt, connVars, reader, closed, walk>>

(***************************************************************************)
(* The client, and Stop                                                    *)
(***************************************************************************)

TakeFrame(k) ==
    /\ unread[k] > 0
    /\ unread' = [unread EXCEPT ![k] = @ - 1]
    /\ UNCHANGED <<stopAt, connVars, reader, closed, writeMu, walk>>

\* Stop: no handshake begins any more, ...
StopRange ==
    /\ stopAt = "running"
    /\ stopAt' = "ranging"
    /\ Ranging("stop", connections)
    /\ UNCHANGED <<connVars, reader, closed, unread, writeMu>>

\* ... every connection is closed and deleted, ...
StopVisit ==
    /\ stopAt = "ranging"
    /\ \E k \in walk["stop"].left :
          /\ closed' = closed \cup {k}
          /\ connections' = connections \ {k}
          /\ walk' = [walk EXCEPT !["stop"] = Remaining(@.left \ {k})]
    /\ UNCHANGED <<stopAt, connCount, reader, unread, writeMu>>

\* ... and the context is canceled.
StopCancel ==
    /\ stopAt = "ranging"
    /\ walk["stop"] = NotRanging
    /\ stopAt' = "stopped"
    /\ UNCHANGED <<connVars, reader, closed, unread, writeMu, walk>>

(***************************************************************************)
(* Specification                                                           *)
(***************************************************************************)

Reading(k) ==
    \/ StoreConn(k) \/ CheckContext(k)
    \/ CloseAtEnd(k)

OpNext ==
    \/ \E k \in Client :
          \/ Handshake(k) \/ Reading(k) \/ ClientSends(k) \/ ReadFails(k)
          \/ Ping(k) \/ Pinged(k) \/ TakeFrame(k)
    \/ \E w \in Ranger : Visit(w) \/ LockConn(w) \/ Written(w) \/ WriteFails(w)
    \/ \E s \in Session : Broadcast(s)
    \/ StopRange \/ StopVisit \/ StopCancel

OpSpec == OpInit /\ [][OpNext]_opVars

\* No pong comes from a client that takes no frame out of the full network, and none once
\* pings have ended with the context: then the read deadline passes.
Silent(k) == k \in closed \/ unread[k] = Window \/ Canceled

\* Goroutines run, and Stop waits for nobody; the mutex serves a waiter of more than a
\* millisecond first.  A client does what it likes, when it likes.
OpFairness ==
    /\ \A k \in Client :
          /\ WF_opVars(Reading(k)) /\ WF_opVars(ReadFails(k) /\ Silent(k))
          /\ WF_opVars(Pinged(k))
    /\ \A w \in Ranger : WF_opVars(Visit(w) \/ LockConn(w) \/ Written(w))
    /\ SF_opVars(LockConn("send"))
    /\ WF_opVars(StopVisit \/ StopCancel)

OpFairSpec == OpSpec /\ OpFairness

(***************************************************************************)
(* Properties                                                              *)
(***************************************************************************)

Position == [step : {"idle", "walk", "lock", "write"}, at : Client \cup {Nobody},
             left : SUBSET Client]

OpTypeOK ==
    /\ stopAt \in {"running", "ranging", "stopped"}
    /\ connections \subseteq Client /\ connCount \in Nat
    /\ reader \in [Client -> {"off", "checked", "loop", "read", "close", "ended"}]
    /\ closed \subseteq Client
    /\ unread \in [Client -> 0..Window]
    /\ writeMu \in [Client -> Ranger \cup {"pinger", Nobody}]
    /\ walk \in [Ranger -> Position]

\* The clients whose connection was stored and whose reader has not ended.
Served == {k \in Client : reader[k] \in {"loop", "read", "close"}}

\* A connection whose reader has ended is closed and forgotten by the map, and the count is
\* that of the others, also when a handshake overtook Stop's walk over the connections.
EndedForgotten ==
    /\ \A k \in Client : reader[k] = "ended" => k \in closed /\ k \notin connections
    /\ connCount = Cardinality(Served)

\* Send has no deadline, but a client that stops reading does not hold up the worker of the
\* channel for ever: the pings go unanswered, the read deadline passes, and closing the
\* connection ends the write.  This works once the clients send no more messages and no
\* reader is held up by a write of its own.
SendEnds ==
    <>[](\A k \in Client : reader[k] # "loop") => []<>(walk["send"].step = "idle")

\* A client that stops reading while its own reader handles a message holds up Send for
\* ever: WriteTimeout of OperatorConfig is not used.
SendAlwaysEnds == []<>(walk["send"].step = "idle")

\* MaxConnections is the limit of open connections.
LimitKept == connCount <= MaxConnections
=============================================================================
