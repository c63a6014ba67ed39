----------------------------- MODULE MessageBus -----------------------------
(***************************************************************************)
(* The in-process message bus of pkg/bus/bus.go: three buffered Go         *)
(* channels (inbound, outbound, outboundMedia), a done channel and an      *)
(* atomic closed flag.                                                     *)
(*                                                                         *)
(* A Publish call reads the flag and its context and then sits in a select *)
(* on {send, done, ctx.Done()}; when several cases are ready Go picks any. *)
(* Close swaps the flag, closes done, and empties the three channels one   *)
(* after the other while publishers and consumers keep running.  The three *)
(* channels have the same code, so a queue is a parameter here.            *)
(***************************************************************************)
EXTENDS Naturals, Sequences, FiniteSets

CONSTANTS
    NumQueues,  \* the channels; Close drains them in this order
    Cap,        \* defaultBusBufferSize
    Publisher,  \* goroutines that publish
    Consumer,   \* goroutines that consume
    Msg,        \* messages; each is published at most once
    None

ASSUME QueueAssumption == NumQueues \in Nat
ASSUME CapAssumption == Cap \in Nat
ASSUME NoneAssumption == None \notin Msg

Queue == 1..NumQueues

VARIABLES
    queue,      \* buffered messages of each channel
    closing,    \* progress of Close: see Closing
    pub,        \* publisher goroutines
    con,        \* consumer goroutines: the queue they wait on, or 0
    sent,       \* messages handed to a Publish call so far
    accepted,   \* history: messages a Publish call returned nil for, in order
    received,   \* history: messages handed to consumers, in order
    removed     \* history: messages taken from a queue, by consumers or Close

vars == <<queue, closing, pub, con, sent, accepted, received, removed>>

\* Close has not been called; has swapped the flag; is draining queue k; is over.
Closing == [phase : {"open", "flagged", "over"}, k : {0}]
              \cup [phase : {"drain"}, k : Queue]
closed == closing.phase # "open"
done == closing.phase \in {"drain", "over"}

Idle == [pc |-> "idle", k |-> 0, msg |-> None]

----------------------------------------------------------------------------
Init ==
    /\ queue = [k \in Queue |-> <<>>]
    /\ closing = [phase |-> "open", k |-> 0]
    /\ pub = [p \in Publisher |-> Idle]
    /\ con = [c \in Consumer |-> 0]
    /\ sent = {}
    /\ accepted = [k \in Queue |-> <<>>]
    /\ received = [k \in Queue |-> <<>>]
    /\ removed = [k \in Queue |-> <<>>]

\* Publish up to the select: the closed flag is read here, and only here.  A
\* closed bus or a canceled context makes the call return at once.
PublishBegin(p, k, m) ==
    /\ pub[p] = Idle
    /\ m \notin sent
    /\ sent' = sent \cup {m}
    /\ \/ ~closed /\ pub' = [pub EXCEPT ![p] = [pc |-> "select", k |-> k, msg |-> m]]
       \/ UNCHANGED pub
    /\ UNCHANGED <<queue, closing, con, accepted, received, removed>>

\* The send case of the select.
PublishSend(p) ==
    LET k == pub[p].k IN
    /\ pub[p].pc = "select"
    /\ Len(queue[k]) < Cap
    /\ queue' = [queue EXCEPT ![k] = Append(@, pub[p].msg)]
    /\ accepted' = [accepted EXCEPT ![k] = Append(@, pub[p].msg)]
    /\ pub' = [pub EXCEPT ![p] = Idle]
    /\ UNCHANGED <<closing, con, sent, received, removed>>

\* The done case of the select: ErrBusClosed.
PublishDone(p) ==
    /\ pub[p].pc = "select"
    /\ done
    /\ pub' = [pub EXCEPT ![p] = Idle]
    /\ UNCHANGED <<queue, closing, con, sent, accepted, received, removed>>

\* The ctx.Done() case: the caller's context ends whenever it likes.
PublishCancel(p) ==
    /\ pub[p].pc = "select"
    /\ pub' = [pub EXCEPT ![p] = Idle]
    /\ UNCHANGED <<queue, closing, con, sent, accepted, received, removed>>

ConsumeBegin(c, k) ==
    /\ con[c] = 0
    /\ con' = [con EXCEPT ![c] = k]
    /\ UNCHANGED <<queue, closing, pub, sent, accepted, received, removed>>

\* The receive case of the select.
ConsumeRecv(c) ==
    LET k == con[c] IN
    /\ k # 0
    /\ queue[k] # <<>>
    /\ received' = [received EXCEPT ![k] = Append(@, Head(queue[k]))]
    /\ removed' = [removed EXCEPT ![k] = Append(@, Head(queue[k]))]
    /\ queue' = [queue EXCEPT ![k] = Tail(@)]
    /\ con' = [con EXCEPT ![c] = 0]
    /\ UNCHANGED <<closing, pub, sent, accepted>>

\* Mutant: a consumer looks at done only while messages are queued.
ConsumeDoneBusy(c) ==
    /\ con[c] # 0 /\ done /\ queue[con[c]] # <<>>
    /\ con' = [con EXCEPT ![c] = 0]
    /\ UNCHANGED <<queue, closing, pub, sent, accepted, received, removed>>

\* The done and the ctx.Done() case of the select.
ConsumeDone(c) ==
    /\ con[c] # 0 /\ done
    /\ con' = [con EXCEPT ![c] = 0]
    /\ UNCHANGED <<queue, closing, pub, sent, accepted, received, removed>>

\* Mutant: a message received together with the cancellation is thrown away.
ConsumeCancelTakes(c) ==
    LET k == con[c] IN
    /\ k # 0 /\ queue[k] # <<>>
    /\ removed' = [removed EXCEPT ![k] = Append(@, Head(queue[k]))]
    /\ queue' = [queue EXCEPT ![k] = Tail(@)]
    /\ con' = [con EXCEPT ![c] = 0]
    /\ UNCHANGED <<closing, pub, sent, accepted, received>>

ConsumeCancel(c) ==
    /\ con[c] # 0
    /\ con' = [con EXCEPT ![c] = 0]
    /\ UNCHANGED <<queue, closing, pub, sent, accepted, received, removed>>

\* Close: the swap of the flag, then close(done).  A second Close is a no-op.
CloseFlag ==
    /\ ~closed
    /\ closing' = [phase |-> "flagged", k |-> 0]
    /\ UNCHANGED <<queue, pub, con, sent, accepted, received, removed>>

\* The queue that is drained after k: the next one, or none.
AfterQueue(k) ==
    IF k + 1 \in Queue THEN [phase |-> "drain", k |-> k + 1]
    ELSE [phase |-> "over", k |-> 0]

CloseDone ==
    /\ closing.phase = "flagged"
    /\ closing' = AfterQueue(0)
    /\ UNCHANGED <<queue, pub, con, sent, accepted, received, removed>>

\* One turn of a drain loop: take a message, or find the channel empty.
CloseDrain ==
    LET k == closing.k IN
    /\ closing.phase = "drain"
    /\ IF queue[k] # <<>>
       THEN /\ removed' = [removed EXCEPT ![k] = Append(@, Head(queue[k]))]
            /\ queue' = [queue EXCEPT ![k] = Tail(@)]
            /\ UNCHANGED closing
       ELSE /\ closing' = AfterQueue(k)
            /\ UNCHANGED <<queue, removed>>
    /\ UNCHANGED <<pub, con, sent, accepted, received>>

----------------------------------------------------------------------------
Next ==
    \/ CloseFlag \/ CloseDone \/ CloseDrain
    \/ \E p \in Publisher :
          \/ \E k \in Queue, m \in Msg : PublishBegin(p, k, m)
          \/ PublishSend(p) \/ PublishDone(p) \/ PublishCancel(p)
    \/ \E c \in Consumer :
          \/ \E k \in Queue : ConsumeBegin(c, k)
          \/ ConsumeRecv(c) \/ ConsumeDone(c) \/ ConsumeCancel(c)

Spec == Init /\ [][Next]_vars

\* A goroutine in a select with a ready case proceeds, and Close, once called,
\* keeps running.  No fairness for contexts, consumers or Close being called.
FairSpec ==
    /\ Spec
    /\ WF_vars(CloseDone) /\ WF_vars(CloseDrain)
    /\ \A p \in Publisher : WF_vars(PublishSend(p) \/ PublishDone(p))
    /\ \A c \in Consumer : WF_vars(ConsumeRecv(c) \/ ConsumeDone(c))

----------------------------------------------------------------------------
(* Properties                                                              *)

\* Every variable holds a value of the Go type it stands for; no queue holds more
\* than the buffer size.
TypeOK ==
    /\ queue \in [Queue -> Seq(Msg)]
    /\ \A k \in Queue : Len(queue[k]) <= Cap
    /\ closing \in Closing
    /\ pub \in [Publisher -> [pc : {"idle"}, k : {0}, msg : {None}]
                             \cup [pc : {"select"}, k : Queue, msg : Msg]]
    /\ con \in [Consumer -> Queue \cup {0}]
    /\ sent \in SUBSET Msg
    /\ accepted \in [Queue -> Seq(Msg)]
    /\ received \in [Queue -> Seq(Msg)]
    /\ removed \in [Queue -> Seq(Msg)]

\* What a Publish call accepted leaves the queue exactly once and in the order it
\* was accepted, whichever of the consumers and of Close takes it.
InOrder == \A k \in Queue : accepted[k] = removed[k] \o queue[k]

\* A bus nobody has closed loses nothing: every accepted message was received or
\* is still queued.
NothingLostWhileOpen ==
    ~closed => \A k \in Queue : accepted[k] = received[k] \o queue[k]

\* The bus implements three bounded FIFO channels.
Channels == INSTANCE BoundedChannel WITH contents <- queue, shut <- closed
ImplementsChannels == Channels!AbsSpec

\* Close returns once called, however many publishers race with it, and every
\* Publish and Consume call that is blocked when it does is released.
CloseReleases ==
    /\ closing.phase = "flagged" ~> closing.phase = "over"
    /\ \A p \in Publisher : (closed /\ pub[p].pc = "select") ~> pub[p].pc = "idle"
    /\ \A c \in Consumer : (closed /\ con[c] # 0) ~> con[c] = 0

\* Close is documented to drain pending messages (bus/interface.go): once it has
\* returned and no Publish call is in flight, no message is left in a queue.
DrainedAfterClose ==
    (closing.phase = "over" /\ \A p \in Publisher : pub[p] = Idle)
        => \A k \in Queue : queue[k] = <<>>
=============================================================================
