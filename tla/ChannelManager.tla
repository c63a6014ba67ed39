--------------------------- MODULE ChannelManager ---------------------------
(***************************************************************************)
(* The outbound side of pkg/channels/manager.go.  Two dispatchers (text    *)
(* and media) take messages from the bus, look the channel's worker up     *)
(* under m.mu and put the message into the worker's queue; per channel a   *)
(* text and a media worker send it, chunk by chunk, with rate limiting and *)
(* retries.  Shutdown follows the gateway: cancel the context, close the   *)
(* bus, StopAll.  UnregisterChannel may be called while the manager runs.  *)
(*                                                                         *)
(* A send on a closed Go channel panics and ends the process: panicked.    *)
(***************************************************************************)
EXTENDS Naturals, Sequences, FiniteSets

CONSTANTS
    Channel,       \* names of the configured channels
    Internal,      \* the names of constants.IsInternalChannel
    Msg,           \* messages; each is published at most once
    ChannelOf,     \* [Msg -> Channel \cup Internal]
    KindOf,        \* [Msg -> Kind]
    ChunksOf,      \* [Msg -> 1..]: how many pieces SplitMessage makes of it
    MediaSender,   \* the channels that implement MediaSender
    QueueSize,     \* defaultChannelQueueSize
    MaxRetries,    \* maxRetries
    Removable,     \* channels UnregisterChannel is called for
    None

Kind == {"text", "media"}
Lane == Channel \X Kind

ASSUME MsgAssumption ==
    /\ None \notin Msg \cup Channel
    /\ Channel \cap Internal = {}
    /\ ChannelOf \in [Msg -> Channel \cup Internal]
    /\ KindOf \in [Msg -> Kind]
    /\ ChunksOf \in [Msg -> Nat \ {0}]
ASSUME BoundAssumption ==
    /\ QueueSize \in Nat \ {0} /\ MaxRetries \in Nat
    /\ Removable \subseteq Channel /\ MediaSender \subseteq Channel

VARIABLES
    phase,      \* life of the manager: see Phase
    panicked,   \* a goroutine sent on, or closed, a closed channel
    published,  \* messages handed to the bus so far
    busQueue,   \* the bus's outbound and outboundMedia channels
    hand,       \* the two dispatchers: pc and message in hand
    registered, \* keys of m.channels
    workers,    \* keys of m.workers
    unreg,      \* the UnregisterChannel call in progress: channel and step
    lane,       \* workers: queue, closed, and what the goroutine is doing
    enqueued,   \* history: messages put into each lane
    delivered,  \* history: chunks whose Send (or placeholder edit) succeeded
    settled     \* history: messages a worker has finished with

vars == <<phase, panicked, published, busQueue, hand, registered, workers,
          unreg, lane, enqueued, delivered, settled>>

Phase == {"new", "running", "cancelled", "busClosed", "stopping", "drainText",
          "drainMedia", "stopped"}
cancelled == phase \notin {"new", "running"}
busDone == cancelled /\ phase # "cancelled"
stopHoldsLock == phase \in {"stopping", "drainText", "drainMedia"}
NoUnreg == [ch |-> None, step |-> "none"]
lockFree == ~stopHoldsLock /\ unreg = NoUnreg

LaneOf(m) == <<ChannelOf[m], KindOf[m]>>
NoWorker == [queue |-> <<>>, shut |-> FALSE, pc |-> "none", msg |-> None,
             chunk |-> 0, attempt |-> 0]

----------------------------------------------------------------------------
Init ==
    /\ phase = "new"
    /\ panicked = FALSE
    /\ published = {}
    /\ busQueue = [k \in Kind |-> <<>>]
    /\ hand = [k \in Kind |-> [pc |-> "off", msg |-> None]]
    /\ registered = Channel
    /\ workers = {}
    /\ unreg = NoUnreg
    /\ lane = [l \in Lane |-> NoWorker]
    /\ enqueued = [l \in Lane |-> <<>>]
    /\ delivered = [l \in Lane |-> <<>>]
    /\ settled = {}

histories == <<enqueued, delivered, settled>>

\* Mutex held throughout.  A channel whose Start fails gets no worker.
StartAll ==
    /\ phase = "new" /\ lockFree /\ registered # {}
    /\ \E started \in SUBSET registered :
          /\ workers' = started
          /\ lane' = [l \in Lane |-> IF l[1] \in started THEN [lane[l] EXCEPT !.pc = "recv"]
                                     ELSE lane[l]]
    /\ hand' = [k \in Kind |-> [hand[k] EXCEPT !.pc = "idle"]]
    /\ phase' = "running"
    /\ UNCHANGED <<panicked, published, busQueue, registered, unreg, histories>>

\* The agent publishes (what is published before StartAll waits on the bus until
\* then and is not told apart).  A Publish call that passed the closed check may still
\* send after Close has drained the bus (MessageBus, PublishSend).
Publish(m) ==
    /\ phase # "new" /\ m \notin published
    /\ published' = published \cup {m}
    /\ busQueue' = [busQueue EXCEPT ![KindOf[m]] = Append(@, m)]
    /\ UNCHANGED <<phase, panicked, hand, registered, workers, unreg, lane, histories>>

----------------------------------------------------------------------------
(* dispatchLoop                                                            *)

\* subscribe delivers a message; messages for internal channels are skipped.
Subscribe(k) ==
    /\ hand[k].pc = "idle"
    /\ busQueue[k] # <<>>
    /\ busQueue' = [busQueue EXCEPT ![k] = Tail(@)]
    /\ IF ChannelOf[Head(busQueue[k])] \in Internal THEN UNCHANGED hand
       ELSE hand' = [hand EXCEPT ![k] = [pc |-> "lookup", msg |-> Head(busQueue[k])]]
    /\ UNCHANGED <<phase, panicked, published, registered, workers, unreg, lane, histories>>

\* subscribe returns false: the context is canceled or the bus is done.
SubscribeEnd(k) ==
    /\ hand[k].pc = "idle" /\ cancelled
    /\ hand' = [hand EXCEPT ![k].pc = "exited"]
    /\ UNCHANGED <<phase, panicked, published, busQueue, registered, workers, unreg, lane, histories>>

\* channels and workers are read under m.mu.RLock.  Without a channel or a worker
\* the dispatcher skips the message.
Lookup(k) ==
    LET c == ChannelOf[hand[k].msg] IN
    /\ hand[k].pc = "lookup" /\ lockFree
    /\ hand' = [hand EXCEPT ![k] = IF c \in registered /\ c \in workers
                                   THEN [@ EXCEPT !.pc = "enqueue"]
                                   ELSE [pc |-> "idle", msg |-> None]]
    /\ UNCHANGED <<phase, panicked, published, busQueue, registered, workers, unreg, lane, histories>>

\* Mutant: the message is dropped when the worker's queue is full.
EnqueueOrDrop(k) ==
    LET m == hand[k].msg
        l == LaneOf(m) IN
    /\ hand[k].pc = "enqueue" /\ ~lane[l].shut
    /\ IF Len(lane[l].queue) < QueueSize
       THEN /\ lane' = [lane EXCEPT ![l].queue = Append(@, m)]
            /\ enqueued' = [enqueued EXCEPT ![l] = Append(@, m)]
       ELSE UNCHANGED <<lane, enqueued>>
    /\ hand' = [hand EXCEPT ![k] = [pc |-> "idle", msg |-> None]]
    /\ UNCHANGED <<phase, panicked, published, busQueue, registered, workers, unreg, delivered, settled>>

\* The send case of the select: it waits for room and panics on a closed queue.
Enqueue(k) ==
    LET m == hand[k].msg
        l == LaneOf(m) IN
    /\ hand[k].pc = "enqueue"
    /\ \/ /\ lane[l].shut
          /\ panicked' = TRUE
          /\ UNCHANGED <<hand, lane, enqueued>>
       \/ /\ ~lane[l].shut
          /\ Len(lane[l].queue) < QueueSize
          /\ lane' = [lane EXCEPT ![l].queue = Append(@, m)]
          /\ enqueued' = [enqueued EXCEPT ![l] = Append(@, m)]
          /\ hand' = [hand EXCEPT ![k] = [pc |-> "idle", msg |-> None]]
          /\ UNCHANGED panicked
    /\ UNCHANGED <<phase, published, busQueue, registered, workers, unreg, delivered, settled>>

\* The ctx.Done() case: the dispatcher ends.
EnqueueCancel(k) ==
    /\ hand[k].pc = "enqueue" /\ cancelled
    /\ hand' = [hand EXCEPT ![k] = [pc |-> "exited", msg |-> None]]
    /\ UNCHANGED <<phase, panicked, published, busQueue, registered, workers, unreg, lane, histories>>

----------------------------------------------------------------------------
(* runWorker, sendWithRetry and their media twins                          *)

workerUnchanged ==
    UNCHANGED <<phase, panicked, published, busQueue, hand, registered, workers, unreg, enqueued>>

\* The receive case of the worker's select; a closed queue delivers what it holds.
WorkerRecv(l) ==
    /\ lane[l].pc = "recv" /\ lane[l].queue # <<>>
    /\ lane' = [lane EXCEPT ![l].queue = Tail(@), ![l].msg = Head(lane[l].queue),
                            ![l].chunk = 1, ![l].attempt = 0, ![l].pc = "begin"]
    /\ UNCHANGED <<delivered, settled>> /\ workerUnchanged

\* Mutant: the worker does not look whether its queue was closed.
WorkerExitOnlyCancelled(l) ==
    /\ lane[l].pc = "recv" /\ cancelled
    /\ lane' = [lane EXCEPT ![l].pc = "exited"]
    /\ UNCHANGED <<delivered, settled>> /\ workerUnchanged

\* Mutant: the worker ends as soon as its queue is closed, whatever it holds.
WorkerExitUndrained(l) ==
    /\ lane[l].pc = "recv" /\ (lane[l].shut \/ cancelled)
    /\ lane' = [lane EXCEPT ![l].pc = "exited"]
    /\ UNCHANGED <<delivered, settled>> /\ workerUnchanged

\* The queue is closed and empty, or the ctx.Done() case: close(w.done).
WorkerExit(l) ==
    /\ lane[l].pc = "recv"
    /\ \/ lane[l].shut /\ lane[l].queue = <<>>
       \/ cancelled
    /\ lane' = [lane EXCEPT ![l].pc = "exited"]
    /\ UNCHANGED <<delivered, settled>> /\ workerUnchanged

\* sendWithRetry has returned: on to the next chunk, or back to the select.
ChunkOver(l) ==
    IF lane[l].chunk < ChunksOf[lane[l].msg]
    THEN /\ lane' = [lane EXCEPT ![l].chunk = @ + 1, ![l].attempt = 0, ![l].pc = "begin"]
         /\ UNCHANGED settled
    ELSE /\ lane' = [lane EXCEPT ![l].pc = "recv", ![l].msg = None, ![l].chunk = 0,
                                 ![l].attempt = 0]
         /\ settled' = settled \cup {lane[l].msg}

Deliver(l) ==
    delivered' = [delivered EXCEPT ![l] = Append(@, <<lane[l].msg, lane[l].chunk>>)]

\* sendMediaWithRetry skips channels that are no MediaSender; limiter.Wait first
\* looks at the context.
SendBegin(l) ==
    /\ lane[l].pc = "begin"
    /\ IF cancelled \/ (l[2] = "media" /\ l[1] \notin MediaSender)
       THEN ChunkOver(l)
       ELSE lane' = [lane EXCEPT ![l].pc = "wait"] /\ UNCHANGED settled
    /\ UNCHANGED delivered /\ workerUnchanged

\* The token arrives, and preSend may edit the text into a placeholder; or the
\* context is canceled while waiting.
RateWait(l) ==
    /\ lane[l].pc = "wait"
    /\ \/ /\ lane' = [lane EXCEPT ![l].pc = "send"]
          /\ UNCHANGED <<delivered, settled>>
       \/ l[2] = "text" /\ Deliver(l) /\ ChunkOver(l)
       \/ cancelled /\ ChunkOver(l) /\ UNCHANGED delivered
    /\ workerUnchanged

\* Mutant: a success does not end the retry loop.
SendKeepsTrying(l) ==
    /\ lane[l].pc = "send"
    /\ \/ Deliver(l) /\ (IF lane[l].attempt < MaxRetries
                         THEN lane' = [lane EXCEPT ![l].pc = "backoff"] /\ UNCHANGED settled
                         ELSE ChunkOver(l))
       \/ UNCHANGED delivered /\ ChunkOver(l)
    /\ workerUnchanged

\* One Send call: success, a permanent error, or an error worth a retry.
Send(l) ==
    /\ lane[l].pc = "send"
    /\ \/ Deliver(l) /\ ChunkOver(l)
       \/ UNCHANGED delivered /\ ChunkOver(l)
       \/ /\ lane[l].attempt < MaxRetries
          /\ lane' = [lane EXCEPT ![l].pc = "backoff"]
          /\ UNCHANGED <<delivered, settled>>
    /\ workerUnchanged

\* Mutant: attempts are not counted.
BackoffUncounted(l) ==
    /\ lane[l].pc = "backoff"
    /\ lane' = [lane EXCEPT ![l].pc = "send"]
    /\ UNCHANGED <<delivered, settled>> /\ workerUnchanged

\* The delay after a failed attempt is over, or the context is canceled.
Backoff(l) ==
    /\ lane[l].pc = "backoff"
    /\ \/ /\ lane' = [lane EXCEPT ![l].pc = "send", ![l].attempt = @ + 1]
          /\ UNCHANGED settled
       \/ cancelled /\ ChunkOver(l)
    /\ UNCHANGED delivered /\ workerUnchanged

----------------------------------------------------------------------------
(* Shutdown and UnregisterChannel                                          *)

\* Close the queues of one kind of the given channels; closing twice panics.
CloseQueues(cs, k) ==
    /\ lane' = [l \in Lane |-> IF l[1] \in cs /\ l[2] = k THEN [lane[l] EXCEPT !.shut = TRUE]
                               ELSE lane[l]]
    /\ panicked' = (\E c \in cs : lane[<<c, k>>].shut)

Exited(cs, k) == \A c \in cs : lane[<<c, k>>].pc = "exited"

\* The gateway cancels the context all goroutines of the manager share.
Cancel ==
    /\ phase = "running"
    /\ phase' = "cancelled"
    /\ UNCHANGED <<panicked, published, busQueue, hand, registered, workers, unreg, lane, histories>>

\* msgBus.Close() empties the bus.
CloseBus ==
    /\ phase = "cancelled"
    /\ phase' = "busClosed"
    /\ busQueue' = [k \in Kind |-> <<>>]
    /\ UNCHANGED <<panicked, published, hand, registered, workers, unreg, lane, histories>>

\* StopAll: take m.mu and close the text queues ...
StopBegin ==
    /\ phase = "busClosed" /\ lockFree
    /\ phase' = "stopping"
    /\ UNCHANGED <<panicked, published, busQueue, hand, registered, workers, unreg, lane, histories>>

StopCloseText ==
    /\ phase = "stopping"
    /\ phase' = "drainText"
    /\ CloseQueues(workers, "text")
    /\ UNCHANGED <<published, busQueue, hand, registered, workers, unreg, histories>>

\* ... wait for the text workers, close the media queues ...
StopCloseMedia ==
    /\ phase = "drainText" /\ Exited(workers, "text")
    /\ phase' = "drainMedia"
    /\ CloseQueues(workers, "media")
    /\ UNCHANGED <<published, busQueue, hand, registered, workers, unreg, histories>>

\* ... wait for the media workers, stop the channels and release m.mu.
StopEnd ==
    /\ phase = "drainMedia" /\ Exited(workers, "media")
    /\ phase' = "stopped"
    /\ UNCHANGED <<panicked, published, busQueue, hand, registered, workers, unreg, lane, histories>>

\* UnregisterChannel holds m.mu from here to the end.
UnregisterBegin(c) ==
    /\ lockFree /\ c \in registered
    /\ IF c \in workers
       THEN /\ CloseQueues({c}, "text")
            /\ unreg' = [ch |-> c, step |-> "text"]
            /\ UNCHANGED registered
       ELSE /\ registered' = registered \ {c}
            /\ UNCHANGED <<panicked, lane, unreg>>
    /\ UNCHANGED <<phase, published, busQueue, hand, workers, histories>>

UnregisterMedia ==
    /\ unreg.step = "text" /\ Exited({unreg.ch}, "text")
    /\ CloseQueues({unreg.ch}, "media")
    /\ unreg' = [unreg EXCEPT !.step = "media"]
    /\ UNCHANGED <<phase, published, busQueue, hand, registered, workers, histories>>

UnregisterEnd ==
    /\ unreg.step = "media" /\ Exited({unreg.ch}, "media")
    /\ workers' = workers \ {unreg.ch}
    /\ registered' = registered \ {unreg.ch}
    /\ unreg' = NoUnreg
    /\ UNCHANGED <<phase, panicked, published, busQueue, hand, lane, histories>>

----------------------------------------------------------------------------
Dispatch(k) == Lookup(k) \/ Enqueue(k) \/ EnqueueCancel(k)
Work(l) == WorkerRecv(l) \/ WorkerExit(l) \/ SendBegin(l) \/ RateWait(l) \/ Send(l) \/ Backoff(l)
Stop == StopCloseText \/ StopCloseMedia \/ StopEnd
Unregister == UnregisterMedia \/ UnregisterEnd

Next ==
    /\ ~panicked
    /\ \/ StartAll \/ Cancel \/ CloseBus \/ StopBegin \/ Stop \/ Unregister
       \/ \E m \in Msg : Publish(m)
       \/ \E k \in Kind : Subscribe(k) \/ SubscribeEnd(k) \/ Dispatch(k)
       \/ \E l \in Lane : Work(l)
       \/ \E c \in Removable : UnregisterBegin(c)

Spec == Init /\ [][Next]_vars

\* Goroutines with a ready case proceed; Send calls return and rate limiters and
\* backoff timers elapse.  Nothing forces a message, a shutdown or a removal.
FairSpec ==
    /\ Spec
    /\ WF_vars(~panicked /\ Stop) /\ WF_vars(~panicked /\ Unregister)
    /\ \A l \in Lane : WF_vars(~panicked /\ Work(l))
    /\ \A k \in Kind : WF_vars(~panicked /\ (Subscribe(k) \/ SubscribeEnd(k))) /\ WF_vars(~panicked /\ Dispatch(k))

----------------------------------------------------------------------------
(* Properties                                                              *)

\* The manager's maps, queues and goroutines hold values of their types, a queue
\* never exceeds its capacity and an attempt number never exceeds maxRetries.
TypeOK ==
    /\ phase \in Phase
    /\ panicked \in BOOLEAN
    /\ published \subseteq Msg
    /\ busQueue \in [Kind -> Seq(Msg)]
    /\ hand \in [Kind -> [pc : {"off", "idle", "exited"}, msg : {None}]
                                \cup [pc : {"lookup", "enqueue"}, msg : Msg]]
    /\ registered \subseteq Channel
    /\ workers \subseteq registered
    /\ unreg \in {NoUnreg} \cup [ch : workers, step : {"text", "media"}]
    /\ lane \in [Lane -> [queue : Seq(Msg), shut : BOOLEAN, pc : {"none", "recv", "exited"},
                          msg : {None}, chunk : {0}, attempt : {0}]
                         \cup [queue : Seq(Msg), shut : BOOLEAN,
                               pc : {"begin", "wait", "send", "backoff"},
                               msg : Msg, chunk : Nat, attempt : 0..MaxRetries]]
    /\ \A l \in Lane : Len(lane[l].queue) <= QueueSize
    /\ enqueued \in [Lane -> Seq(Msg)]
    /\ delivered \in [Lane -> Seq(Msg \X Nat)]
    /\ settled \subseteq Msg

\* The position of a message in the order its lane accepted it.
Rank(l, m) == CHOOSE i \in 1..Len(enqueued[l]) : enqueued[l][i] = m

\* Whatever fails and is retried, a channel sees the chunks of its messages in the
\* order the messages were enqueued and the chunks were cut, each at most once.
DeliveredInOrder ==
    \A l \in Lane : \A i, j \in 1..Len(delivered[l]) :
        LET first == delivered[l][i]
            later == delivered[l][j] IN
        i < j => \/ Rank(l, first[1]) < Rank(l, later[1])
                 \/ first[1] = later[1] /\ first[2] < later[2]

\* Until the context is canceled, a message for a channel with a worker is on its
\* way: on the bus, in a dispatcher's hand, in the worker's
\* queue, being sent, or settled.
NothingLostWhileRunning ==
    \A m \in published :
        (~panicked /\ phase = "running" /\ ChannelOf[m] \in workers) =>
            \/ \E k \in Kind : \E i \in 1..Len(busQueue[k]) : busQueue[k][i] = m
            \/ \E k \in Kind : hand[k].msg = m
            \/ \E i \in 1..Len(lane[LaneOf(m)].queue) : lane[LaneOf(m)].queue[i] = m
            \/ lane[LaneOf(m)].msg = m
            \/ m \in settled

\* UnregisterChannel waits for the workers: when it has removed a channel, every
\* message its queues accepted has been settled.
UnregisterDrains ==
    \A l \in Lane : (~cancelled /\ ~panicked /\ l[1] \notin registered) =>
        \A i \in 1..Len(enqueued[l]) : enqueued[l][i] \in settled

\* What the workers have taken out of their queues.
taken == [l \in Lane |-> SubSeq(enqueued[l], 1, Len(enqueued[l]) - Len(lane[l].queue))]

\* Whatever is canceled, closed or removed, a worker's queue is a FIFO of bounded
\* length from which messages leave into the hands of its worker only: closing it
\* discards nothing.
Queues == INSTANCE BoundedChannel
          WITH Queue <- Lane, Cap <- QueueSize, contents <- [l \in Lane |-> lane[l].queue],
               received <- taken, shut <- FALSE
ImplementsQueues == Queues!AbsSpec

\* StopAll and UnregisterChannel, which wait for workers while holding m.mu,
\* come to an end.
LockReleased ==
    /\ stopHoldsLock ~> (phase = "stopped" \/ panicked)
    /\ (unreg # NoUnreg) ~> (unreg = NoUnreg \/ panicked)

\* While the manager runs, every message that was put into a worker's queue is
\* settled in the end.
EnqueuedSettles ==
    \A m \in {x \in Msg : ChannelOf[x] \in Channel} :
        (\E i \in 1..Len(lane[LaneOf(m)].queue) : lane[LaneOf(m)].queue[i] = m)
            ~> (m \in settled \/ cancelled \/ panicked)

\* Shutdown is documented to be graceful: no goroutine sends on a closed queue.
NoPanic == ~panicked

\* StopAll is documented to wait until the closed queues are drained.
StopDrains ==
    (phase = "stopped" /\ ~panicked) =>
        \A l \in Lane : l[1] \in workers => lane[l].queue = <<>>
=============================================================================
