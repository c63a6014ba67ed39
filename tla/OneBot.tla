-------------------------------- MODULE OneBot --------------------------------
(***************************************************************************)
(* The OneBot channel (pkg/channels/onebot/onebot.go): one WebSocket to    *)
(* the OneBot server, a listener per connection, a loop that connects      *)
(* again, API requests that wait for an answer read by the listener, and   *)
(* a ring of message ids against duplicates.                               *)
(* Reconnecting is configured (reconnect_interval > 0).  Left out: the     *)
(* content of messages, media downloads, the bot's own id, and the quoted  *)
(* message id of a reply; Send only writes to the connection it reads.     *)
(***************************************************************************)
EXTENDS Naturals, Sequences, FiniteSets

CONSTANTS
    Id,         \* ids of messages
    RingSize,   \* dedupSize: 1024
    Conn,       \* connections; one that nobody refers to any more is used again
    NoConn

Request == {"fetch", "set", "undo"}   \* get_login_info; set_msg_emoji_like of one reaction
NoId == 0                             \* an empty place of the ring; an event without an id

ASSUME OneBotAssumption ==
    RingSize \in Nat \ {0} /\ NoConn \notin Conn /\ NoId \notin Id

VARIABLES
    service,    \* starting, running, stopping (canceled), stopped
    conn,       \* c.conn
    link,       \* the connections themselves
    listener,   \* the goroutine started for each connection
    dialer,     \* Start, then reconnectLoop
    api,        \* sendAPIRequest calls: the next step
    reaction,   \* no, set, undone: what HandleMessage and the manager have asked for
    emoji,      \* the reaction the server shows
    dedup, dedupRing, dedupIdx,
    recent      \* history: the last RingSize + 1 ids that passed isDuplicate

linkVars == <<conn, link, listener, dialer>>
dedupVars == <<dedup, dedupRing, dedupIdx, recent>>
oneBotVars == <<service, linkVars, api, reaction, emoji, dedupVars>>

OneBotInit ==
    /\ service = "starting"
    /\ conn = NoConn
    /\ link = [k \in Conn |-> "down"]
    /\ listener = [k \in Conn |-> "none"]
    /\ dialer = "dial"
    /\ api = [a \in Request |-> "idle"]
    /\ reaction = "no" /\ emoji = FALSE
    /\ dedup = {} /\ dedupRing = [i \in 0..(RingSize - 1) |-> NoId] /\ dedupIdx = 0
    /\ recent = <<>>

(***************************************************************************)
(* Connecting                                                              *)
(***************************************************************************)

Unused(k) == conn # k /\ link[k] = "down" /\ listener[k] = "none"

Started == IF service = "starting" THEN "running" ELSE service

\* connect has dialed, without regard to the channel's context; the listener starts, and
\* fetchSelfID asks for the bot's id.
Connect ==
    /\ dialer = "dial"
    /\ \E k \in Conn :
          /\ Unused(k)
          /\ conn' = k
          /\ link' = [link EXCEPT ![k] = "up"]
          /\ listener' = [listener EXCEPT ![k] = "go"]
    /\ dialer' = "fetch"
    /\ api' = [api EXCEPT !["fetch"] = "begin"]
    /\ UNCHANGED <<service, reaction, emoji, dedupVars>>

ConnectFails ==
    /\ dialer = "dial"
    /\ dialer' = "wait"
    /\ service' = Started
    /\ UNCHANGED <<conn, link, listener, api, reaction, emoji, dedupVars>>

fetchSelfID ==
    /\ dialer = "fetch" /\ api["fetch"] = "idle"
    /\ dialer' = "wait"
    /\ service' = Started
    /\ UNCHANGED <<conn, link, listener, api, reaction, emoji, dedupVars>>

\* reconnectLoop: after the interval it looks whether there is a connection.
reconnectLoop ==
    /\ dialer = "wait"
    /\ \/ service = "running" /\ conn = NoConn /\ dialer' = "dial"
       \/ service \in {"stopping", "stopped"} /\ dialer' = "off"
    /\ UNCHANGED <<service, conn, link, listener, api, reaction, emoji, dedupVars>>

\* The server or the network ends a connection, or nothing is heard of it for 60 seconds.
Break(k) ==
    /\ link[k] = "up"
    /\ link' = [link EXCEPT ![k] = "down"]
    /\ UNCHANGED <<service, conn, listener, dialer, api, reaction, emoji, dedupVars>>

(***************************************************************************)
(* The listener                                                            *)
(***************************************************************************)

\* The goroutine reads c.conn when it first runs.
ListenBegin(k) ==
    /\ listener[k] = "go"
    /\ listener' = IF conn = NoConn THEN [listener EXCEPT ![k] = "none"]
                   ELSE [listener EXCEPT ![k] = "none", ![conn] = "read"]
    /\ UNCHANGED <<service, conn, link, dialer, api, reaction, emoji, dedupVars>>

ListenCanceled(k) ==
    /\ listener[k] = "read" /\ service \in {"stopping", "stopped"}
    /\ listener' = [listener EXCEPT ![k] = "none"]
    /\ UNCHANGED <<service, conn, link, dialer, api, reaction, emoji, dedupVars>>

\* MUTANT: the listener ends and leaves c.conn as it is.
ReadErrorKeeps(k) ==
    /\ listener[k] = "read" /\ link[k] = "down"
    /\ listener' = [listener EXCEPT ![k] = "none"]
    /\ UNCHANGED <<service, conn, link, dialer, api, reaction, emoji, dedupVars>>

\* ReadMessage fails: the connection is given up, if it is still the current one.
ReadError(k) ==
    /\ listener[k] = "read" /\ link[k] = "down"
    /\ listener' = [listener EXCEPT ![k] = "none"]
    /\ conn' = IF conn = k THEN NoConn ELSE conn
    /\ UNCHANGED <<service, link, dialer, api, reaction, emoji, dedupVars>>

\* MUTANT: the oldest id makes room before the new one is looked up.
isDuplicateEvictsFirst(m) == m # NoId /\ m \in dedup \ {dedupRing[dedupIdx]}

isDuplicate(m) == m # NoId /\ m \in dedup

\* isDuplicate's second half: the id takes the place of the oldest one.
Remember(m) ==
    /\ dedup' = (dedup \ {dedupRing[dedupIdx]}) \cup {m}
    /\ dedupRing' = [dedupRing EXCEPT ![dedupIdx] = m]
    /\ dedupIdx' = (dedupIdx + 1) % RingSize
    /\ recent' = Append(IF Len(recent) > RingSize THEN Tail(recent) ELSE recent, m)

\* A message event: a duplicate is dropped; others are remembered and, unless the filters
\* that follow drop them too, handed to HandleMessage.
ReadMessage(k, m) ==
    /\ listener[k] = "read" /\ link[k] = "up"
    /\ ~isDuplicate(m)
    /\ IF m = NoId THEN UNCHANGED dedupVars ELSE Remember(m)
    /\ \E step \in {"read", "handle"} : listener' = [listener EXCEPT ![k] = step]
    /\ UNCHANGED <<service, conn, link, dialer, api, reaction, emoji>>

\* HandleMessage returns, once the bus has room; a group message gets a reaction, set by a
\* goroutine of its own.
HandleMessage(k) ==
    /\ listener[k] = "handle"
    /\ listener' = [listener EXCEPT ![k] = "read"]
    /\ \/ /\ reaction = "no"
          /\ reaction' = "set"
          /\ api' = [api EXCEPT !["set"] = "begin"]
       \/ UNCHANGED <<reaction, api>>
    /\ UNCHANGED <<service, conn, link, dialer, emoji, dedupVars>>

\* The manager undoes the reaction, again in a goroutine.
UndoReaction ==
    /\ reaction = "set"
    /\ reaction' = "undone"
    /\ api' = [api EXCEPT !["undo"] = "begin"]
    /\ UNCHANGED <<service, linkVars, emoji, dedupVars>>

(***************************************************************************)
(* sendAPIRequest                                                          *)
(***************************************************************************)

\* The request is written to the connection of the moment, unless there is none or it has
\* failed by then.  The goroutines of a reaction only log the answer: their waiting is left
\* out.
ApiWrite(a) ==
    /\ api[a] = "begin"
    /\ LET written == conn # NoConn /\ link[conn] = "up" IN
       /\ api' = [api EXCEPT ![a] = IF written /\ a = "fetch" THEN "wait" ELSE "idle"]
       /\ emoji' = IF written /\ a # "fetch" THEN a = "set" ELSE emoji
    /\ UNCHANGED <<service, linkVars, reaction, dedupVars>>

\* The listener reads the answer, the request times out, or the context is canceled.
ApiEnd(a) ==
    /\ api[a] = "wait"
    /\ api' = [api EXCEPT ![a] = "idle"]
    /\ UNCHANGED <<service, linkVars, reaction, emoji, dedupVars>>

(***************************************************************************)
(* Stop                                                                    *)
(***************************************************************************)

\* The context is canceled and the waiting requests are woken ...
Cancel ==
    /\ service = "running"
    /\ service' = "stopping"
    /\ api' = [a \in Request |-> IF api[a] = "wait" THEN "idle" ELSE api[a]]
    /\ UNCHANGED <<linkVars, reaction, emoji, dedupVars>>

\* ... then the connection of that moment is closed.
CloseConn ==
    /\ service = "stopping"
    /\ service' = "stopped"
    /\ conn' = NoConn
    /\ link' = IF conn = NoConn THEN link ELSE [link EXCEPT ![conn] = "down"]
    /\ UNCHANGED <<listener, dialer, api, reaction, emoji, dedupVars>>

Listen(k) == ListenBegin(k) \/ ListenCanceled(k) \/ ReadError(k) \/ HandleMessage(k)
Call(a) == ApiWrite(a) \/ ApiEnd(a)

OneBotNext ==
    \/ Connect \/ ConnectFails \/ fetchSelfID \/ reconnectLoop
    \/ \E k \in Conn : Break(k) \/ Listen(k)
    \/ \E k \in Conn, m \in Id \cup {NoId} : ReadMessage(k, m)
    \/ \E a \in Request : Call(a)
    \/ UndoReaction \/ Cancel \/ CloseConn

OneBotSpec == OneBotInit /\ [][OneBotNext]_oneBotVars

\* A listener whose connection has failed gets the error, HandleMessage gets room in the
\* bus since turns end, requests have a timeout, and the interval of the loop elapses.
\* Nothing is assumed of the server.
OneBotFairness ==
    /\ \A k \in Conn : WF_oneBotVars(Listen(k))
    /\ \A a \in Request : WF_oneBotVars(Call(a))
    /\ WF_oneBotVars(fetchSelfID \/ reconnectLoop)

OneBotFairSpec == OneBotSpec /\ OneBotFairness

(***************************************************************************)
(* Properties                                                              *)
(***************************************************************************)

\* Types; and a connection has a listener as long as it is the channel's and not canceled.
OneBotTypeOK ==
    /\ service \in {"starting", "running", "stopping", "stopped"}
    /\ conn \in Conn \cup {NoConn}
    /\ link \in [Conn -> {"up", "down"}]
    /\ listener \in [Conn -> {"none", "go", "read", "handle"}]
    /\ conn # NoConn /\ service = "running" => listener[conn] # "none"
    /\ dialer \in {"dial", "fetch", "wait", "off"}
    /\ api \in [Request -> {"idle", "begin", "wait"}]
    /\ reaction \in {"no", "set", "undone"} /\ emoji \in BOOLEAN
    /\ dedup \subseteq Id \cup {NoId} /\ dedupIdx \in 0..(RingSize - 1)
    /\ dedupRing \in [0..(RingSize - 1) -> Id \cup {NoId}]
    /\ recent \in Seq(Id) /\ Len(recent) <= RingSize + 1

\* A message the server delivers again, on this connection or the next one, is not handled
\* again while fewer than dedupSize others have come in between; and the set holds just the
\* ids of the ring, so it does not grow.
HandledOnce ==
    /\ \A i, j \in DOMAIN recent : i # j => recent[i] # recent[j]
    /\ dedup \ {NoId} = {dedupRing[i] : i \in DOMAIN dedupRing} \ {NoId}

Connected == conn # NoConn /\ link[conn] = "up"

\* A running channel that has no connection, or one that has failed, dials again: no
\* listener, request or fetchSelfID that still hangs on the old connection prevents it.
Redials ==
    []<>(dialer = "dial" \/ Connected \/ service # "running")

\* "The returned undo function removes the reaction": once the request to set it and the
\* one to undo it have ended, the server shows none.
ReactionRemoved ==
    (reaction = "undone" /\ api["set"] = "idle" /\ api["undo"] = "idle" /\ Connected) => ~emoji
=============================================================================
