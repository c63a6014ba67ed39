------------------------ MODULE ChannelManagerProofs ------------------------
(***************************************************************************)
(* Proofs about ChannelManager for any channels, messages, chunks, queue   *)
(* size and number of retries: type correctness, that a channel sees its   *)
(* messages in order, that no message is lost while the manager runs, and  *)
(* that UnregisterChannel waits for what the queues hold.                  *)
(***************************************************************************)
EXTENDS ChannelManager, TLAPS

Sending == {"begin", "wait", "send", "backoff"}

\* How many messages the worker of lane l has taken out of its queue.
Taken(l) == Len(enqueued[l]) - Len(lane[l].queue)

\* A message is in one place at a time: on the bus, in a dispatcher's hand or put
\* into its lane, and there once.
BusOnce ==
    \A k \in Kind : \A i \in 1..Len(busQueue[k]) :
        /\ busQueue[k][i] \in published /\ KindOf[busQueue[k][i]] = k
        /\ \A j \in 1..Len(busQueue[k]) : busQueue[k][i] = busQueue[k][j] => i = j

HandOnce ==
    \A k \in Kind : hand[k].pc \in {"lookup", "enqueue"} =>
        /\ hand[k].msg \in published
        /\ KindOf[hand[k].msg] = k /\ ChannelOf[hand[k].msg] \in Channel
        /\ \A i \in 1..Len(busQueue[k]) : busQueue[k][i] # hand[k].msg

LaneOnce(l) ==
    \A i \in 1..Len(enqueued[l]) :
        /\ enqueued[l][i] \in published /\ LaneOf(enqueued[l][i]) = l
        /\ \A j \in 1..Len(enqueued[l]) : enqueued[l][i] = enqueued[l][j] => i = j
        /\ enqueued[l][i] # hand[l[2]].msg
        /\ \A j \in 1..Len(busQueue[l[2]]) : busQueue[l[2]][j] # enqueued[l][i]

\* The queue holds the last messages that were put into it, the worker sends the one
\* before them, and it has settled those before that.
QueueIsTail(l) ==
    /\ Len(lane[l].queue) <= Len(enqueued[l])
    /\ \A i \in 1..Len(lane[l].queue) : lane[l].queue[i] = enqueued[l][Taken(l) + i]
    /\ lane[l].pc \in Sending => Taken(l) >= 1 /\ lane[l].msg = enqueued[l][Taken(l)]
    /\ \A i \in 1..Taken(l) :
          (i < Taken(l)) \/ lane[l].pc \notin Sending => enqueued[l][i] \in settled

\* Everything delivered is of a message that was taken; of the one being sent, earlier chunks.
DeliveredTaken(l) ==
    \A i \in 1..Len(delivered[l]) :
        /\ \E a \in 1..Taken(l) : enqueued[l][a] = delivered[l][i][1]
        /\ lane[l].pc \in Sending /\ delivered[l][i][1] = lane[l].msg => delivered[l][i][2] < lane[l].chunk

\* DeliveredInOrder, with positions in place of Rank.
InOrder(l) ==
    \A i, j \in 1..Len(delivered[l]) : \A a, b \in 1..Len(enqueued[l]) :
        i < j /\ enqueued[l][a] = delivered[l][i][1] /\ enqueued[l][b] = delivered[l][j][1]
            => a < b \/ (a = b /\ delivered[l][i][2] < delivered[l][j][2])

\* Before StartAll nothing is published and there are no workers.
NewIsEmpty ==
    phase = "new" =>
        /\ published = {} /\ workers = {}
        /\ \A l \in Lane : lane[l].pc = "none"
        /\ \A k \in Kind : hand[k].pc = "off"

\* A lane without a goroutine holds nothing; a dispatcher found a worker for the message
\* it wants to enqueue; a worker goes on until its queue is closed and empty, or canceled.
Started ==
    /\ \A l \in Lane : lane[l].pc = "none" => enqueued[l] = <<>>
    /\ \A l \in Lane : l[1] \in workers => lane[l].pc # "none"
    /\ \A k \in Kind : hand[k].pc = "enqueue" => lane[LaneOf(hand[k].msg)].pc # "none"
    /\ \A l \in Lane : lane[l].pc = "exited" /\ ~cancelled /\ ~panicked =>
          lane[l].shut /\ lane[l].queue = <<>>

\* The worker of a channel that is not in m.workers never ran or has ended; an
\* UnregisterChannel that closes the media queue has seen the text worker end.
WithoutWorker ==
    /\ \A l \in Lane : l[1] \notin workers => lane[l].pc \in {"none", "exited"}
    /\ unreg.step = "media" => lane[<<unreg.ch, "text">>].pc = "exited"

IInv ==
    /\ TypeOK /\ BusOnce /\ HandOnce
    /\ \A l \in Lane : LaneOnce(l) /\ QueueIsTail(l) /\ DeliveredTaken(l) /\ InOrder(l)
    /\ NewIsEmpty /\ Started /\ WithoutWorker /\ NothingLostWhileRunning


----------------------------------------------------------------------------
(* Types                                                                   *)

LaneState ==
    [queue : Seq(Msg), shut : BOOLEAN, pc : {"none", "recv", "exited"},
     msg : {None}, chunk : {0}, attempt : {0}]
    \cup [queue : Seq(Msg), shut : BOOLEAN, pc : {"begin", "wait", "send", "backoff"},
          msg : Msg, chunk : Nat, attempt : 0..MaxRetries]

HandState == [pc : {"off", "idle", "exited"}, msg : {None}] \cup [pc : {"lookup", "enqueue"}, msg : Msg]

\* The lanes and the dispatchers' hands have the types TypeOK gives them, field by field.
LEMMA Types ==
  ASSUME TypeOK
  PROVE  /\ lane \in [Lane -> LaneState] /\ hand \in [Kind -> HandState]
         /\ \A l \in Lane :
               /\ lane[l].queue \in Seq(Msg) /\ lane[l].shut \in BOOLEAN
               /\ lane[l].pc \in {"none", "recv", "exited"} \cup Sending
               /\ lane[l].pc \in Sending =>
                     lane[l].msg \in Msg /\ lane[l].chunk \in Nat /\ lane[l].attempt \in 0..MaxRetries
               /\ lane[l].pc \notin Sending => lane[l].msg = None
         /\ \A k \in Kind :
               /\ hand[k].pc \in {"off", "idle", "exited", "lookup", "enqueue"}
               /\ hand[k].pc \in {"lookup", "enqueue"} => hand[k].msg \in Msg
               /\ hand[k].pc \notin {"lookup", "enqueue"} => hand[k].msg = None
         /\ None \notin Msg
BY MsgAssumption DEF TypeOK, LaneState, HandState, Sending

\* What Append makes of a sequence, position by position.
LEMMA Appended ==
  ASSUME NEW S, NEW s \in Seq(S), NEW x \in S
  PROVE  /\ Append(s, x) \in Seq(S) /\ Len(s) \in Nat
         /\ Len(Append(s, x)) = Len(s) + 1
         /\ \A i \in 1..Len(s) : Append(s, x)[i] = s[i]
         /\ Append(s, x)[Len(s) + 1] = x
OBVIOUS

\* A worker's queue may change, and be closed, whatever the worker does.
LEMMA QueueChanges ==
  ASSUME NEW s \in LaneState
  PROVE  /\ \A u \in Seq(Msg) : [s EXCEPT !.queue = u] \in LaneState
         /\ [s EXCEPT !.shut = TRUE] \in LaneState
<1>1. CASE s \in [queue : Seq(Msg), shut : BOOLEAN, pc : {"none", "recv", "exited"},
                  msg : {None}, chunk : {0}, attempt : {0}]
  BY <1>1 DEF LaneState
<1>2. CASE s \in [queue : Seq(Msg), shut : BOOLEAN, pc : {"begin", "wait", "send", "backoff"},
                  msg : Msg, chunk : Nat, attempt : 0..MaxRetries]
  BY <1>2 DEF LaneState
<1> QED BY <1>1, <1>2 DEF LaneState

\* The lane of a message for a channel is a lane, and a lane is its channel and its kind.
LEMMA Lanes ==
  /\ \A m \in Msg : ChannelOf[m] \in Channel => LaneOf(m) \in Lane /\ LaneOf(m)[1] = ChannelOf[m] /\ LaneOf(m)[2] = KindOf[m]
  /\ \A l \in Lane : l = <<l[1], l[2]>> /\ l[1] \in Channel /\ l[2] \in Kind
  /\ \A c \in Channel, k \in Kind : <<c, k>> \in Lane /\ <<c, k>>[1] = c /\ <<c, k>>[2] = k
  /\ \A m \in Msg : KindOf[m] \in Kind
BY MsgAssumption DEF Lane, LaneOf

\* What the steps of a worker that is sending do: it goes on with the chunk, or is over
\* with it, after a delivery or without one.
LEMMA SendOutcome ==
  ASSUME TypeOK, NEW l \in Lane, SendBegin(l) \/ RateWait(l) \/ Send(l) \/ Backoff(l)
  PROVE  /\ lane[l].pc \in Sending /\ workerUnchanged
         /\ lane' \in [Lane -> LaneState]
         /\ \A d \in Lane \ {l} : lane'[d] = lane[d]
         /\ lane'[l].queue = lane[l].queue /\ lane'[l].shut = lane[l].shut
         /\ \/ delivered' = delivered
            \/ Deliver(l) /\ ~(lane'[l].pc \in Sending /\ lane'[l].chunk = lane[l].chunk)
         /\ \/ lane'[l].pc \in Sending /\ lane'[l].msg = lane[l].msg /\ settled' = settled
                  /\ lane'[l].chunk \in {lane[l].chunk, lane[l].chunk + 1}
            \/ lane'[l].pc = "recv" /\ settled' = settled \cup {lane[l].msg}
<1>1. lane[l].pc \in Sending /\ workerUnchanged
  BY DEF SendBegin, RateWait, Send, Backoff, Sending
<1>t. /\ lane \in [Lane -> LaneState] /\ lane[l].queue \in Seq(Msg) /\ lane[l].shut \in BOOLEAN
      /\ lane[l].msg \in Msg /\ lane[l].chunk \in Nat /\ lane[l].attempt \in 0..MaxRetries
  BY <1>1, Types
<1> DEFINE On == /\ delivered' = delivered /\ settled' = settled
                 /\ \E p \in Sending, a \in 0..MaxRetries : lane' = [lane EXCEPT ![l].pc = p, ![l].attempt = a]
<1>2. On \/ (ChunkOver(l) /\ (delivered' = delivered \/ Deliver(l)))
  <2>0. MaxRetries \in Nat BY BoundAssumption
  <2>a. \A p : [lane EXCEPT ![l].pc = p] = [lane EXCEPT ![l].pc = p, ![l].attempt = lane[l].attempt]
    <3>1. lane[l] = [queue |-> lane[l].queue, shut |-> lane[l].shut, pc |-> lane[l].pc, msg |-> lane[l].msg,
                     chunk |-> lane[l].chunk, attempt |-> lane[l].attempt]
      BY <1>t DEF LaneState
    <3> QED BY <1>t, <3>1
  <2>1. CASE SendBegin(l) BY <2>1, <2>a, <1>t DEF SendBegin, Sending
  <2>2. CASE RateWait(l) BY <2>2, <2>a, <1>t DEF RateWait, Sending
  <2>3. CASE Send(l) BY <2>3, <2>a, <1>t DEF Send, Sending
  <2>4. CASE Backoff(l) BY <2>4, <2>0, <1>t DEF Backoff, Sending
  <2> QED BY <2>1, <2>2, <2>3, <2>4
<1>3. CASE On
  <2>1. PICK p \in Sending, a \in 0..MaxRetries : lane' = [lane EXCEPT ![l].pc = p, ![l].attempt = a]
    BY <1>3
  <2>2. [lane[l] EXCEPT !.pc = p, !.attempt = a] \in LaneState
    BY <1>1, <1>t DEF LaneState, Sending
  <2> QED BY <1>1, <1>3, <1>t, <2>1, <2>2 DEF LaneState, Sending
<1>4. CASE ChunkOver(l) /\ (delivered' = delivered \/ Deliver(l))
  <2>1. CASE lane[l].chunk < ChunksOf[lane[l].msg]
    <3>1. [lane[l] EXCEPT !.chunk = @ + 1, !.attempt = 0, !.pc = "begin"] \in LaneState
      <4>1. lane[l].chunk + 1 \in Nat /\ 0 \in 0..MaxRetries
        BY <1>t, BoundAssumption
      <4>2. lane[l] \in [queue : Seq(Msg), shut : BOOLEAN, pc : {"begin", "wait", "send", "backoff"},
                         msg : Msg, chunk : Nat, attempt : 0..MaxRetries]
        BY <1>1, <1>t DEF LaneState, Sending
      <4> QED BY <4>1, <4>2 DEF LaneState
    <3>2. /\ lane' = [lane EXCEPT ![l] = [lane[l] EXCEPT !.chunk = @ + 1, !.attempt = 0, !.pc = "begin"]]
          /\ settled' = settled
      BY <1>4, <1>t, <2>1 DEF ChunkOver
    <3> QED BY <1>1, <1>4, <1>t, <3>1, <3>2 DEF LaneState, Sending
  <2>2. CASE ~(lane[l].chunk < ChunksOf[lane[l].msg])
    <3>1. [lane[l] EXCEPT !.pc = "recv", !.msg = None, !.chunk = 0, !.attempt = 0] \in LaneState
      BY <1>1, <1>t DEF LaneState, Sending
    <3>2. /\ lane' = [lane EXCEPT ![l] = [lane[l] EXCEPT !.pc = "recv", !.msg = None, !.chunk = 0, !.attempt = 0]]
          /\ settled' = settled \cup {lane[l].msg}
      BY <1>4, <1>t, <2>2 DEF ChunkOver
    <3> QED BY <1>1, <1>4, <1>t, <3>1, <3>2 DEF LaneState, Sending
  <2> QED BY <2>1, <2>2
<1> QED BY <1>2, <1>3, <1>4

----------------------------------------------------------------------------
(* The steps                                                               *)

LaneInv(l) == LaneOnce(l) /\ QueueIsTail(l) /\ DeliveredTaken(l) /\ InOrder(l)

\* The order of what was delivered stays while the lane's histories do.
LEMMA OrderKept ==
  ASSUME NEW l \in Lane, InOrder(l), enqueued'[l] = enqueued[l], delivered'[l] = delivered[l]
  PROVE  InOrder(l)'
<1> DEFINE P(e, d) == \A i, j \in 1..Len(d) : \A a, b \in 1..Len(e) :
                         i < j /\ e[a] = d[i][1] /\ e[b] = d[j][1] => a < b \/ (a = b /\ d[i][2] < d[j][2])
<1>1. P(enqueued[l], delivered[l])
  BY DEF InOrder
<1>2. P(enqueued'[l], delivered'[l])
  <2> HIDE DEF P
  <2> QED BY <1>1
<1> QED BY <1>2 DEF InOrder

\* A lane whose worker stays where it is, or starts, keeps its invariants.
LEMMA LanesKept ==
  ASSUME UNCHANGED histories, NEW l \in Lane, QueueIsTail(l), DeliveredTaken(l), InOrder(l),
         lane'[l].queue = lane[l].queue, lane'[l].msg = lane[l].msg, lane'[l].chunk = lane[l].chunk,
         lane'[l].pc \in Sending <=> lane[l].pc \in Sending
  PROVE  QueueIsTail(l)' /\ DeliveredTaken(l)' /\ InOrder(l)'
<1>1. /\ Taken(l)' = Taken(l) /\ enqueued'[l] = enqueued[l] /\ delivered'[l] = delivered[l]
      /\ settled' = settled
  BY DEF histories, Taken
<1>2. QueueIsTail(l)' BY <1>1 DEF QueueIsTail
<1>3. DeliveredTaken(l)' BY <1>1 DEF DeliveredTaken
<1>4. InOrder(l)' BY <1>1, OrderKept
<1> QED BY <1>2, <1>3, <1>4

\* The bus takes a message that was nowhere before.
LEMMA PublishStep ==
  ASSUME IInv, NEW m \in Msg, Publish(m)
  PROVE  IInv'
<1> DEFINE k0 == KindOf[m]
<1>1. /\ busQueue[k0] \in Seq(Msg) /\ k0 \in Kind /\ m \notin published
      /\ published' = published \cup {m}
      /\ busQueue' \in [Kind -> Seq(Msg)]
      /\ \A k \in Kind \ {k0} : busQueue'[k] = busQueue[k]
      /\ Len(busQueue'[k0]) = Len(busQueue[k0]) + 1
      /\ \A i \in 1..Len(busQueue[k0]) : busQueue'[k0][i] = busQueue[k0][i]
      /\ busQueue'[k0][Len(busQueue[k0]) + 1] = m
      /\ \A k \in Kind : Len(busQueue[k]) \in Nat
      /\ UNCHANGED <<phase, panicked, hand, registered, workers, unreg, lane, enqueued, delivered, settled>>
  BY Lanes DEF Publish, IInv, TypeOK, histories
<1> HIDE DEF k0
<1>2. TypeOK'
  BY <1>1 DEF IInv, TypeOK
<1>3. BusOnce'
  <2> SUFFICES ASSUME NEW k \in Kind, NEW i \in 1..Len(busQueue'[k])
               PROVE  /\ busQueue'[k][i] \in published' /\ KindOf[busQueue'[k][i]] = k
                      /\ \A j \in 1..Len(busQueue'[k]) : busQueue'[k][i] = busQueue'[k][j] => i = j
    BY DEF BusOnce
  <2>0. /\ \A h \in 1..Len(busQueue[k]) : busQueue[k][h] \in published /\ KindOf[busQueue[k][h]] = k
        /\ \A h, j \in 1..Len(busQueue[k]) : busQueue[k][h] = busQueue[k][j] => h = j
    BY DEF IInv, BusOnce
  <2>1. CASE k # k0
    <3>1. busQueue'[k] = busQueue[k] BY <1>1, <2>1
    <3> QED BY <1>1, <2>0, <3>1
  <2>2. CASE k = k0
    <3>1. \A h \in 1..Len(busQueue'[k]) :
             \/ h \in 1..Len(busQueue[k]) /\ busQueue'[k][h] = busQueue[k][h]
             \/ h = Len(busQueue[k]) + 1 /\ busQueue'[k][h] = m
      BY <1>1, <2>2
    <3>2. i \in 1..(Len(busQueue[k]) + 1) /\ m \notin published /\ published' = published \cup {m} /\ KindOf[m] = k
      BY <1>1, <2>2 DEF k0
    <3>3. \A h \in 1..Len(busQueue[k]) : busQueue[k][h] # m
      BY <2>0, <3>2
    <3> QED BY ONLY <2>0, <3>1, <3>2, <3>3
  <2> QED BY <2>1, <2>2
<1>4. HandOnce'
  <2> SUFFICES ASSUME NEW k \in Kind, hand[k].pc \in {"lookup", "enqueue"}
               PROVE  /\ hand[k].msg \in published'
                      /\ KindOf[hand[k].msg] = k /\ ChannelOf[hand[k].msg] \in Channel
                      /\ \A i \in 1..Len(busQueue'[k]) : busQueue'[k][i] # hand[k].msg
    BY <1>1 DEF HandOnce
  <2>1. CASE k # k0 BY <1>1, <2>1 DEF IInv, HandOnce
  <2>2. CASE k = k0 BY <1>1, <2>2 DEF IInv, HandOnce
  <2> QED BY <2>1, <2>2
<1>5. ASSUME NEW l \in Lane PROVE LaneInv(l)'
  <2>1. LaneOnce(l)'
    <3>1. \A i \in 1..Len(enqueued[l]) : enqueued[l][i] \in published /\ enqueued[l][i] # m
      BY <1>1 DEF IInv, LaneOnce
    <3>0. l[2] \in Kind BY Lanes
    <3>2. \A j \in 1..Len(busQueue'[l[2]]) :
             busQueue'[l[2]][j] = m \/ (j \in 1..Len(busQueue[l[2]]) /\ busQueue'[l[2]][j] = busQueue[l[2]][j])
      <4>1. CASE l[2] # k0
        <5>1. busQueue'[l[2]] = busQueue[l[2]] BY <1>1, <3>0, <4>1
        <5> QED BY <5>1
      <4>2. CASE l[2] = k0 BY <1>1, <3>0, <4>2
      <4> QED BY <4>1, <4>2
    <3>3. /\ LaneOnce(l) /\ published \subseteq published'
          /\ enqueued' = enqueued /\ hand' = hand
      BY <1>1 DEF IInv
    <3> QED BY <3>1, <3>2, <3>3 DEF LaneOnce
  <2> QED BY <1>1, <2>1, LanesKept DEF IInv, LaneInv, histories
<1>6. NewIsEmpty' /\ Started' /\ WithoutWorker'
  BY <1>1 DEF IInv, NewIsEmpty, Started, WithoutWorker, Publish, cancelled
<1>7. NothingLostWhileRunning'
  <2> SUFFICES ASSUME NEW n \in published', ~panicked, phase = "running", ChannelOf[n] \in workers,
                      \A k \in Kind : hand[k].msg # n,
                      \A i \in 1..Len(lane[LaneOf(n)].queue) : lane[LaneOf(n)].queue[i] # n,
                      lane[LaneOf(n)].msg # n, n \notin settled
               PROVE  \E k \in Kind : \E i \in 1..Len(busQueue'[k]) : busQueue'[k][i] = n
    BY <1>1 DEF NothingLostWhileRunning
  <2>1. CASE n = m BY <1>1, <2>1
  <2>2. CASE n # m
    <3>1. PICK k \in Kind : \E i \in 1..Len(busQueue[k]) : busQueue[k][i] = n
      BY <1>1, <2>2 DEF IInv, NothingLostWhileRunning
    <3> QED BY <1>1, <3>1
  <2> QED BY <2>1, <2>2
<1> QED BY <1>2, <1>3, <1>4, <1>5, <1>6, <1>7 DEF IInv, LaneInv

\* A dispatcher takes the oldest message of its kind from the bus; those for internal
\* channels it skips.
LEMMA SubscribeStep ==
  ASSUME IInv, NEW k \in Kind, Subscribe(k)
  PROVE  IInv'
<1> DEFINE m == Head(busQueue[k])
<1>1. /\ busQueue \in [Kind -> Seq(Msg)] /\ hand \in [Kind -> HandState]
      /\ busQueue[k] # <<>> /\ hand[k].pc = "idle" /\ hand[k].msg = None
      /\ busQueue' = [busQueue EXCEPT ![k] = Tail(@)]
  BY Types DEF Subscribe, IInv, TypeOK
<1>2. /\ m \in Msg /\ m = busQueue[k][1] /\ Len(busQueue[k]) \in Nat \ {0}
      /\ busQueue' \in [Kind -> Seq(Msg)]
      /\ \A j \in Kind \ {k} : busQueue'[j] = busQueue[j]
      /\ Len(busQueue'[k]) = Len(busQueue[k]) - 1
      /\ \A i \in 1..Len(busQueue'[k]) : i + 1 \in 1..Len(busQueue[k]) /\ busQueue'[k][i] = busQueue[k][i + 1]
  BY <1>1
<1>3. /\ UNCHANGED <<phase, panicked, published, registered, workers, unreg, lane, enqueued, delivered, settled>>
      /\ hand' \in [Kind -> HandState]
      /\ \A j \in Kind \ {k} : hand'[j] = hand[j]
      /\ \/ ChannelOf[m] \in Internal /\ hand'[k] = hand[k]
         \/ ChannelOf[m] \in Channel /\ hand'[k].pc = "lookup" /\ hand'[k].msg = m
  <2>1. UNCHANGED <<phase, panicked, published, registered, workers, unreg, lane, enqueued, delivered, settled>>
    BY DEF Subscribe, histories
  <2>2. CASE ChannelOf[m] \in Internal
    BY <1>1, <2>1, <2>2 DEF Subscribe
  <2>3. CASE ChannelOf[m] \notin Internal
    <3>1. hand' = [hand EXCEPT ![k] = [pc |-> "lookup", msg |-> m]]
      BY <2>3 DEF Subscribe
    <3>2. [pc |-> "lookup", msg |-> m] \in HandState
      BY <1>2 DEF HandState
    <3>3. ChannelOf[m] \in Channel
      BY <1>2, <2>3, MsgAssumption
    <3> QED BY ONLY <1>1, <2>1, <3>1, <3>2, <3>3
  <2> QED BY <2>2, <2>3
<1>4. m \in published /\ KindOf[m] = k /\ \A i \in 1..Len(busQueue'[k]) : busQueue'[k][i] # m
  <2>1. /\ \A i \in 1..Len(busQueue[k]) : busQueue[k][i] \in published /\ KindOf[busQueue[k][i]] = k
        /\ \A i, j \in 1..Len(busQueue[k]) : busQueue[k][i] = busQueue[k][j] => i = j
    BY DEF IInv, BusOnce
  <2>2. 1 \in 1..Len(busQueue[k]) BY <1>2
  <2>3. \A i \in 1..Len(busQueue'[k]) : i + 1 # 1 BY <1>2
  <2> QED BY ONLY <1>2, <2>1, <2>2, <2>3
<1> HIDE DEF m
<1>5. TypeOK'
  BY <1>2, <1>3 DEF IInv, TypeOK, HandState
<1>6. BusOnce'
  <2> SUFFICES ASSUME NEW j \in Kind PROVE \A i \in 1..Len(busQueue'[j]) :
                        /\ busQueue'[j][i] \in published' /\ KindOf[busQueue'[j][i]] = j
                        /\ \A h \in 1..Len(busQueue'[j]) : busQueue'[j][i] = busQueue'[j][h] => i = h
    BY DEF BusOnce
  <2>1. CASE j # k BY <1>2, <1>3, <2>1 DEF IInv, BusOnce
  <2>2. CASE j = k
    <3>1. ASSUME NEW i \in 1..Len(busQueue'[k]), NEW h \in 1..Len(busQueue'[k]), busQueue'[k][i] = busQueue'[k][h]
          PROVE  i = h
      <4>1. i + 1 = h + 1
        <5>1. \A u, v \in 1..Len(busQueue[k]) : busQueue[k][u] = busQueue[k][v] => u = v
          BY DEF IInv, BusOnce
        <5> QED BY ONLY <1>2, <3>1, <5>1
      <4> QED BY <1>2, <4>1
    <3> QED BY <1>2, <1>3, <2>2, <3>1 DEF IInv, BusOnce
  <2> QED BY <2>1, <2>2
<1>7. HandOnce'
  <2> SUFFICES ASSUME NEW j \in Kind, hand'[j].pc \in {"lookup", "enqueue"}
               PROVE  /\ hand'[j].msg \in published'
                      /\ KindOf[hand'[j].msg] = j /\ ChannelOf[hand'[j].msg] \in Channel
                      /\ \A i \in 1..Len(busQueue'[j]) : busQueue'[j][i] # hand'[j].msg
    BY DEF HandOnce
  <2>1. CASE j # k
    <3>1. hand'[j] = hand[j] /\ busQueue'[j] = busQueue[j] /\ published' = published
      BY <1>2, <1>3, <2>1
    <3> QED BY <3>1 DEF IInv, HandOnce
  <2>2. CASE j = k BY <1>1, <1>3, <1>4, <2>2
  <2> QED BY <2>1, <2>2
<1>8. ASSUME NEW l \in Lane PROVE LaneInv(l)'
  <2>1. LaneOnce(l)'
    <3>0. l[2] \in Kind /\ LaneOnce(l) /\ enqueued' = enqueued /\ published' = published
      BY <1>3, Lanes DEF IInv
    <3>1. CASE l[2] # k
      <4>1. hand'[l[2]] = hand[l[2]] /\ busQueue'[l[2]] = busQueue[l[2]] BY <1>2, <1>3, <3>0, <3>1
      <4> QED BY <3>0, <4>1 DEF LaneOnce
    <3>2. CASE l[2] = k
      <4>1. \A i \in 1..Len(enqueued[l]) : enqueued[l][i] # m
        <5>1. 1 \in 1..Len(busQueue[k]) BY <1>2
        <5> QED BY <1>2, <3>0, <3>2, <5>1 DEF LaneOnce
      <4>2. hand'[k].msg \in {hand[k].msg, m}
        BY <1>3
      <4>3. \A i \in 1..Len(enqueued[l]) : \A j \in 1..Len(busQueue'[k]) : busQueue'[k][j] # enqueued[l][i]
        BY <1>2, <3>0, <3>2 DEF LaneOnce
      <4> QED BY ONLY <3>0, <3>2, <4>1, <4>2, <4>3 DEF LaneOnce
    <3> QED BY <3>1, <3>2
  <2> QED BY <1>3, <2>1, LanesKept DEF IInv, LaneInv, histories
<1>9. NewIsEmpty' /\ Started' /\ WithoutWorker'
  <2>1. phase # "new"
    BY <1>1 DEF IInv, NewIsEmpty
  <2>2. NewIsEmpty' /\ WithoutWorker'
    BY <1>3, <2>1 DEF IInv, NewIsEmpty, WithoutWorker
  <2>3. \A j \in Kind : hand'[j].pc = "enqueue" => hand'[j] = hand[j] /\ hand[j].pc = "enqueue"
    BY <1>1, <1>3
  <2>4. Started'
    BY <1>3, <2>3 DEF IInv, Started, cancelled, LaneOf
  <2> QED BY <2>2, <2>4
<1>10. NothingLostWhileRunning'
  <2> SUFFICES ASSUME NEW n \in published, ~panicked, phase = "running", ChannelOf[n] \in workers,
                      \A i \in 1..Len(lane[LaneOf(n)].queue) : lane[LaneOf(n)].queue[i] # n,
                      lane[LaneOf(n)].msg # n, n \notin settled
               PROVE  \/ \E j \in Kind : \E i \in 1..Len(busQueue'[j]) : busQueue'[j][i] = n
                      \/ \E j \in Kind : hand'[j].msg = n
    BY <1>3 DEF NothingLostWhileRunning
  <2>1. CASE \E j \in Kind : hand[j].msg = n
    <3>1. n # None BY MsgAssumption DEF IInv, TypeOK
    <3>2. PICK j \in Kind : hand[j].msg = n BY <2>1
    <3>3. j # k BY <1>1, <3>1, <3>2
    <3> QED BY <1>3, <3>2, <3>3
  <2>2. CASE \E j \in Kind : \E i \in 1..Len(busQueue[j]) : busQueue[j][i] = n
    <3>0. PICK j \in Kind : \E i \in 1..Len(busQueue[j]) : busQueue[j][i] = n
      BY <2>2
    <3>1. PICK i \in 1..Len(busQueue[j]) : busQueue[j][i] = n
      BY <3>0
    <3>2. CASE j # k BY <1>2, <3>1, <3>2
    <3>3. CASE j = k /\ i # 1
      <4>1. i - 1 \in 1..Len(busQueue'[k]) /\ busQueue'[k][i - 1] = busQueue[k][i]
        BY <1>2, <3>3
      <4> QED BY <3>1, <3>3, <4>1
    <3>4. CASE j = k /\ i = 1
      <4>1. n = m BY <1>2, <3>1, <3>4
      <4>2. ChannelOf[m] \in Channel BY <4>1 DEF IInv, TypeOK
      <4> QED BY <1>3, <4>1, <4>2, MsgAssumption
    <3> QED BY <3>2, <3>3, <3>4
  <2> QED BY <2>1, <2>2 DEF IInv, NothingLostWhileRunning
<1> QED BY <1>5, <1>6, <1>7, <1>8, <1>9, <1>10 DEF IInv, LaneInv

\* A dispatcher ends, drops its message, or goes on to enqueue it for a worker.
LEMMA HandStep ==
  ASSUME IInv, NEW k \in Kind, SubscribeEnd(k) \/ Lookup(k) \/ EnqueueCancel(k)
  PROVE  IInv'
<1>1. /\ hand \in [Kind -> HandState]
      /\ hand[k].pc \in {"idle", "lookup", "enqueue"}
      /\ hand[k].pc \in {"lookup", "enqueue"} => hand[k].msg \in Msg
      /\ hand[k].pc \notin {"lookup", "enqueue"} => hand[k].msg = None
      /\ None \notin Msg
  BY Types DEF IInv, SubscribeEnd, Lookup, EnqueueCancel
<1>2. /\ UNCHANGED <<phase, panicked, published, busQueue, registered, workers, unreg, lane,
                     enqueued, delivered, settled>>
      /\ hand' \in [Kind -> HandState]
      /\ \A j \in Kind \ {k} : hand'[j] = hand[j]
      /\ \/ hand'[k].pc \in {"idle", "exited"} /\ hand'[k].msg = None
              /\ (cancelled \/ ChannelOf[hand[k].msg] \notin workers)
         \/ hand'[k].pc = "enqueue" /\ hand'[k].msg = hand[k].msg /\ hand[k].pc = "lookup"
              /\ ChannelOf[hand[k].msg] \in workers
  <2>1. CASE SubscribeEnd(k)
    BY <1>1, <2>1 DEF SubscribeEnd, HandState, histories
  <2>2. CASE EnqueueCancel(k)
    BY <1>1, <2>2 DEF EnqueueCancel, HandState, histories
  <2>3. CASE Lookup(k)
    <3>1. CASE ChannelOf[hand[k].msg] \in registered /\ ChannelOf[hand[k].msg] \in workers
      <4>1. [hand[k] EXCEPT !.pc = "enqueue"] \in HandState
        BY <1>1, <2>3 DEF HandState, Lookup
      <4> QED BY <1>1, <2>3, <3>1, <4>1 DEF Lookup, HandState, histories
    <3>2. CASE ~(ChannelOf[hand[k].msg] \in registered /\ ChannelOf[hand[k].msg] \in workers)
      <4>1. ChannelOf[hand[k].msg] \notin workers
        BY <3>2 DEF IInv, TypeOK
      <4> QED BY <1>1, <2>3, <3>2, <4>1 DEF Lookup, HandState, histories
    <3> QED BY <3>1, <3>2
  <2> QED BY <2>1, <2>2, <2>3
<1>3. TypeOK'
  BY <1>2 DEF IInv, TypeOK, HandState
<1>4. BusOnce' /\ HandOnce'
  <2>1. BusOnce' BY <1>2 DEF IInv, BusOnce
  <2>2. \A j \in Kind : hand'[j].pc \in {"lookup", "enqueue"} =>
           hand[j].pc \in {"lookup", "enqueue"} /\ hand'[j].msg = hand[j].msg
    BY <1>1, <1>2
  <2>3. HandOnce' BY <1>2, <2>2 DEF IInv, HandOnce
  <2> QED BY <2>1, <2>3
<1>5. ASSUME NEW l \in Lane PROVE LaneInv(l)'
  <2>1. LaneOnce(l) /\ l[2] \in Kind
    BY Lanes DEF IInv
  <2>2. hand'[l[2]].msg \in {hand[l[2]].msg, None}
    BY <1>2, <2>1
  <2>3. \A i \in 1..Len(enqueued[l]) : enqueued[l][i] # None
    BY <1>1, <2>1 DEF LaneOnce, IInv, TypeOK
  <2>4. LaneOnce(l)'
    BY <1>2, <2>1, <2>2, <2>3 DEF LaneOnce
  <2> QED BY <1>2, <2>4, LanesKept DEF IInv, LaneInv, histories
<1>6. NewIsEmpty' /\ WithoutWorker'
  BY <1>1, <1>2 DEF IInv, NewIsEmpty, WithoutWorker
<1>7. Started'
  <2>1. hand'[k].pc = "enqueue" => lane[LaneOf(hand[k].msg)].pc # "none"
    <3> SUFFICES ASSUME hand'[k].pc = "enqueue" PROVE lane[LaneOf(hand[k].msg)].pc # "none"
      OBVIOUS
    <3>1. ChannelOf[hand[k].msg] \in workers /\ hand[k].msg \in Msg
      BY <1>1, <1>2
    <3>2. LaneOf(hand[k].msg) \in Lane /\ LaneOf(hand[k].msg)[1] \in workers
      BY <3>1, Lanes DEF IInv, TypeOK
    <3> QED BY <3>2 DEF IInv, Started
  <2>2. \A j \in Kind : hand'[j].pc = "enqueue" => lane[LaneOf(hand'[j].msg)].pc # "none"
    <3>1. \A j \in Kind : hand[j].pc = "enqueue" => lane[LaneOf(hand[j].msg)].pc # "none"
      BY DEF IInv, Started
    <3> QED BY <1>2, <2>1, <3>1
  <2> QED BY <1>2, <2>2 DEF IInv, Started, cancelled, LaneOf
<1>8. NothingLostWhileRunning'
  <2> SUFFICES ASSUME NEW n \in published, ~panicked, phase = "running", ChannelOf[n] \in workers,
                      NEW j \in Kind, hand[j].msg = n
               PROVE  \E h \in Kind : hand'[h].msg = n
    BY <1>2 DEF IInv, NothingLostWhileRunning, LaneOf
  <2> QED BY <1>2 DEF cancelled
<1> QED BY <1>3, <1>4, <1>5, <1>6, <1>7, <1>8 DEF IInv, LaneInv

\* A dispatcher puts its message into the worker's queue, or panics because it is closed.
LEMMA EnqueueStep ==
  ASSUME IInv, ~panicked, NEW k \in Kind, Enqueue(k)
  PROVE  IInv'
<1>0. PICK m, q : m = hand[k].msg /\ q = LaneOf(m)
  OBVIOUS
<1>1. /\ hand[k].pc = "enqueue" /\ m = hand[k].msg /\ q = LaneOf(m) /\ m \in Msg /\ q \in Lane /\ q[2] = k /\ None \notin Msg
      /\ KindOf[m] = k /\ ChannelOf[m] \in Channel
      /\ \A l \in Lane : lane[l].queue \in Seq(Msg) /\ enqueued[l] \in Seq(Msg)
      /\ lane \in [Lane -> LaneState] /\ hand \in [Kind -> HandState]
      /\ UNCHANGED <<phase, published, busQueue, registered, workers, unreg, delivered, settled>>
  <2>1. hand[k].pc = "enqueue" /\ m \in Msg
    BY <1>0, Types DEF IInv, Enqueue
  <2>2. KindOf[m] = k /\ ChannelOf[m] \in Channel
    BY <1>0, <2>1 DEF IInv, HandOnce
  <2> QED BY <1>0, <2>1, <2>2, Lanes, Types DEF IInv, TypeOK, Enqueue
<1>2. CASE lane[q].shut
  <2>1. panicked' = TRUE /\ UNCHANGED <<hand, lane, enqueued>>
    BY <1>1, <1>2 DEF Enqueue
  <2>2. TypeOK' BY <1>1, <2>1 DEF IInv, TypeOK
  <2>3. BusOnce' /\ HandOnce'
    BY <1>1, <2>1 DEF IInv, BusOnce, HandOnce
  <2>4. ASSUME NEW l \in Lane PROVE LaneInv(l)'
    <3>1. LaneOnce(l)' BY <1>1, <2>1 DEF IInv, LaneOnce
    <3> QED BY <1>1, <2>1, <3>1, LanesKept DEF IInv, LaneInv, histories
  <2>5. NewIsEmpty' /\ Started' /\ WithoutWorker' /\ NothingLostWhileRunning'
    BY <1>1, <2>1 DEF IInv, NewIsEmpty, Started, WithoutWorker, NothingLostWhileRunning, LaneOf
  <2> QED BY <2>2, <2>3, <2>4, <2>5 DEF IInv, LaneInv
<1>3. CASE ~lane[q].shut
  <2>1. /\ lane' = [lane EXCEPT ![q].queue = Append(@, m)]
        /\ enqueued' = [enqueued EXCEPT ![q] = Append(@, m)]
        /\ hand' = [hand EXCEPT ![k] = [pc |-> "idle", msg |-> None]]
        /\ panicked' = panicked /\ Len(lane[q].queue) < QueueSize
    BY <1>1, <1>3 DEF Enqueue
  <2>u. published' = published /\ busQueue' = busQueue /\ delivered' = delivered /\ settled' = settled
    BY <1>1
  <2>2. /\ hand' \in [Kind -> HandState] /\ hand'[k].pc = "idle" /\ hand'[k].msg = None
        /\ \A j \in Kind \ {k} : hand'[j] = hand[j]
    BY <1>1, <2>1 DEF HandState
  <2>3. /\ lane' \in [Lane -> LaneState]
        /\ \A l \in Lane \ {q} : lane'[l] = lane[l]
        /\ lane'[q].queue = Append(lane[q].queue, m)
        /\ lane'[q].pc = lane[q].pc /\ lane'[q].msg = lane[q].msg /\ lane'[q].chunk = lane[q].chunk
        /\ lane'[q].shut = lane[q].shut
    <3>1. Append(lane[q].queue, m) \in Seq(Msg)
      BY <1>1
    <3>2. [lane[q] EXCEPT !.queue = Append(lane[q].queue, m)] \in LaneState
      BY <1>1, <3>1, QueueChanges
    <3> QED BY <1>1, <2>1, <3>2 DEF LaneState
  <2>4. /\ enqueued' \in [Lane -> Seq(Msg)]
        /\ \A l \in Lane \ {q} : enqueued'[l] = enqueued[l]
        /\ enqueued'[q] = Append(enqueued[q], m)
    BY <1>1, <2>1 DEF IInv, TypeOK
  <2>n. PICK e \in Nat, w \in Nat : e = Len(enqueued[q]) /\ w = Len(lane[q].queue)
    BY <1>1
  <2>5. /\ Len(enqueued[q]) = e /\ Len(enqueued'[q]) = e + 1
        /\ \A i \in 1..e : enqueued'[q][i] = enqueued[q][i]
        /\ enqueued'[q][e + 1] = m
        /\ Len(lane[q].queue) = w /\ Len(lane'[q].queue) = w + 1
        /\ \A i \in 1..w : lane'[q].queue[i] = lane[q].queue[i]
        /\ lane'[q].queue[w + 1] = m
    <3>1. enqueued[q] \in Seq(Msg) /\ lane[q].queue \in Seq(Msg) BY <1>1
    <3>2. enqueued'[q] = Append(enqueued[q], m) /\ lane'[q].queue = Append(lane[q].queue, m) /\ m \in Msg
      BY <1>1, <2>3, <2>4
    <3>3. /\ Len(enqueued'[q]) = e + 1 /\ enqueued'[q][e + 1] = m
          /\ \A i \in 1..e : enqueued'[q][i] = enqueued[q][i]
      BY <2>n, <3>1, <3>2, Appended
    <3>4. /\ Len(lane'[q].queue) = w + 1 /\ lane'[q].queue[w + 1] = m
          /\ \A i \in 1..w : lane'[q].queue[i] = lane[q].queue[i]
      BY <2>n, <3>1, <3>2, Appended
    <3> QED BY <2>n, <3>3, <3>4
  <2>6. \A i \in 1..Len(enqueued[q]) : enqueued[q][i] # m
    BY <1>1 DEF IInv, LaneOnce
  <2>7. m \in published /\ \A i \in 1..Len(busQueue[k]) : busQueue[k][i] # m
    BY <1>1 DEF IInv, HandOnce
  <2>8. TypeOK'
    <3>1. \A l \in Lane : Len(lane'[l].queue) <= QueueSize
      BY <2>1, <2>3, <2>5, BoundAssumption DEF IInv, TypeOK
    <3> QED BY <1>1, <2>1, <2>2, <2>3, <2>4, <3>1 DEF IInv, TypeOK, HandState, LaneState
  <2>9. BusOnce' /\ HandOnce'
    BY <1>1, <2>2 DEF IInv, BusOnce, HandOnce
  <2>10. ASSUME NEW l \in Lane PROVE LaneInv(l)'
    <3>1. CASE l # q
      <4>1. /\ lane'[l] = lane[l] /\ enqueued'[l] = enqueued[l] /\ LaneOnce(l) /\ l[2] \in Kind
            /\ QueueIsTail(l) /\ DeliveredTaken(l) /\ InOrder(l)
        BY <2>3, <2>4, <3>1, Lanes DEF IInv
      <4>2. Taken(l)' = Taken(l)
        BY <4>1 DEF Taken
      <4>3. hand'[l[2]].msg \in {hand[l[2]].msg, None} /\ \A i \in 1..Len(enqueued[l]) : enqueued[l][i] # None
        <5>1. hand'[l[2]].msg \in {hand[l[2]].msg, None}
          BY <2>2, <4>1
        <5>2. \A i \in 1..Len(enqueued[l]) : enqueued[l][i] \in Msg
          BY <4>1 DEF LaneOnce, IInv, TypeOK
        <5> QED BY <1>1, <5>1, <5>2
      <4>4. LaneOnce(l)'
        BY <1>1, <4>1, <4>3 DEF LaneOnce
      <4>5. QueueIsTail(l)' BY <1>1, <4>1, <4>2 DEF QueueIsTail
      <4>6. DeliveredTaken(l)' BY <1>1, <4>1, <4>2 DEF DeliveredTaken
      <4>7. InOrder(l)'
        BY <1>1, <4>1, OrderKept
      <4> QED BY <4>4, <4>5, <4>6, <4>7 DEF LaneInv
    <3>2. CASE l = q
      <4>0. LaneOnce(q) /\ QueueIsTail(q) /\ DeliveredTaken(q) /\ InOrder(q)
        BY <3>2 DEF IInv
      <4>1. PICK n \in Nat : Taken(q) = n /\ Taken(q)' = n /\ n + w = e
        <5>1. w <= e BY <2>5, <4>0 DEF QueueIsTail
        <5>2. e - w \in Nat /\ (e + 1) - (w + 1) = e - w /\ (e - w) + w = e
          BY <5>1
        <5>3. Taken(q) = e - w BY <2>5 DEF Taken
        <5>4. Taken(q)' = (e + 1) - (w + 1) BY <2>5 DEF Taken
        <5> QED BY <5>2, <5>3, <5>4
      <4>2. LaneOnce(q)'
        <5>1. q[2] = k /\ LaneOf(m) = q BY <1>1
        <5>2. \A i \in 1..Len(enqueued[q]) : enqueued[q][i] # None
          BY <1>1, <4>0 DEF LaneOnce, IInv, TypeOK
        <5>3. \A i \in 1..Len(enqueued'[q]) : enqueued'[q][i] # None
          <6>1. \A i \in 1..(e + 1) : i \in 1..e \/ i = e + 1 OBVIOUS
          <6>2. m # None BY <1>1
          <6> QED BY ONLY <2>5, <5>2, <6>1, <6>2
        <5>4. \A i, j \in 1..Len(enqueued'[q]) : enqueued'[q][i] = enqueued'[q][j] => i = j
          <6>1. \A i, j \in 1..e : enqueued[q][i] = enqueued[q][j] => i = j
            BY <2>5, <4>0 DEF LaneOnce
          <6>2. \A i \in 1..(e + 1) : i \in 1..e \/ i = e + 1
            OBVIOUS
          <6>3. \A i \in 1..e : enqueued[q][i] # m
            BY <2>5, <2>6
          <6> QED BY <2>5, <6>1, <6>2, <6>3
        <5>5. \A i \in 1..Len(enqueued'[q]) :
                 /\ enqueued'[q][i] \in published' /\ LaneOf(enqueued'[q][i]) = q
                 /\ \A j \in 1..Len(busQueue'[k]) : busQueue'[k][j] # enqueued'[q][i]
          <6>1. \A i \in 1..(e + 1) : i \in 1..e \/ i = e + 1 OBVIOUS
          <6>2. \A i \in 1..e : /\ enqueued[q][i] \in published /\ LaneOf(enqueued[q][i]) = q
                                /\ \A j \in 1..Len(busQueue[k]) : busQueue[k][j] # enqueued[q][i]
            BY <2>5, <4>0, <5>1 DEF LaneOnce
          <6> QED BY ONLY <2>u, <2>5, <2>7, <5>1, <6>1, <6>2
        <5> QED BY <2>2, <5>1, <5>3, <5>4, <5>5 DEF LaneOnce
      <4>t. \A i \in 1..n : i \in 1..e
        BY <4>1
      <4>3. QueueIsTail(q)'
        <5>1. \A i \in 1..(w + 1) : lane'[q].queue[i] = enqueued'[q][n + i]
          <6>1. \A i \in 1..w : n + i \in 1..e /\ lane[q].queue[i] = enqueued[q][n + i]
            <7>1. \A i \in 1..w : lane[q].queue[i] = enqueued[q][n + i]
              BY <2>5, <4>0, <4>1 DEF QueueIsTail
            <7> QED BY <4>1, <7>1
          <6>2. n + (w + 1) = e + 1 BY <4>1
          <6>3. \A i \in 1..(w + 1) : i \in 1..w \/ i = w + 1 OBVIOUS
          <6> QED BY <2>5, <6>1, <6>2, <6>3
        <5>2. lane[q].pc \in Sending => n >= 1 /\ lane[q].msg = enqueued'[q][n]
          <6>1. lane[q].pc \in Sending => n >= 1 /\ lane[q].msg = enqueued[q][n]
            BY <4>0, <4>1 DEF QueueIsTail
          <6>2. n >= 1 => n \in 1..n BY <4>1
          <6> QED BY <2>5, <4>t, <6>1, <6>2
        <5>3. \A i \in 1..n : (i < n) \/ lane[q].pc \notin Sending => enqueued'[q][i] \in settled
          <6>1. \A i \in 1..n : (i < n) \/ lane[q].pc \notin Sending => enqueued[q][i] \in settled
            BY <4>0, <4>1 DEF QueueIsTail
          <6> QED BY <2>5, <4>t, <6>1
        <5>4. w + 1 <= e + 1 BY <4>1
        <5>5. lane'[q].pc = lane[q].pc /\ lane'[q].msg = lane[q].msg BY <2>3
        <5> QED BY ONLY <2>u, <2>5, <4>1, <5>1, <5>2, <5>3, <5>4, <5>5 DEF QueueIsTail
      <4>4. DeliveredTaken(q)'
        <5>1. \A i \in 1..n : enqueued'[q][i] = enqueued[q][i]
          BY <2>5, <4>t
        <5>2. lane'[q].pc = lane[q].pc /\ lane'[q].msg = lane[q].msg /\ lane'[q].chunk = lane[q].chunk BY <2>3
        <5>3. \A i \in 1..Len(delivered[q]) :
                 /\ \E a \in 1..n : enqueued[q][a] = delivered[q][i][1]
                 /\ lane[q].pc \in Sending /\ delivered[q][i][1] = lane[q].msg => delivered[q][i][2] < lane[q].chunk
          BY <4>0, <4>1 DEF DeliveredTaken
        <5> QED BY ONLY <2>u, <4>1, <5>1, <5>2, <5>3 DEF DeliveredTaken
      <4>5. InOrder(q)'
        <5>0. delivered'[q] = delivered[q] /\ Len(enqueued'[q]) = e + 1 BY <2>u, <2>5
        <5> SUFFICES ASSUME NEW i \in 1..Len(delivered[q]), NEW j \in 1..Len(delivered[q]),
                            NEW a \in 1..(e + 1), NEW b \in 1..(e + 1),
                            i < j, enqueued'[q][a] = delivered[q][i][1], enqueued'[q][b] = delivered[q][j][1]
                     PROVE  a < b \/ (a = b /\ delivered[q][i][2] < delivered[q][j][2])
          BY <5>0 DEF InOrder
        <5>1. \A h \in 1..Len(delivered[q]) : delivered[q][h][1] # m
          <6>1. \A h \in 1..Len(delivered[q]) : \E c \in 1..n : enqueued[q][c] = delivered[q][h][1]
            BY <4>0, <4>1 DEF DeliveredTaken
          <6>2. \A c \in 1..n : enqueued[q][c] # m
            BY <2>5, <2>6, <4>t
          <6> QED BY ONLY <6>1, <6>2
        <5>2. /\ a \in 1..e /\ enqueued'[q][a] = enqueued[q][a]
              /\ b \in 1..e /\ enqueued'[q][b] = enqueued[q][b]
          <6>1. a # e + 1 /\ b # e + 1 BY <2>5, <5>1
          <6> QED BY <2>5, <6>1
        <5>3. enqueued[q][a] = delivered[q][i][1] /\ enqueued[q][b] = delivered[q][j][1]
          BY <5>2
        <5>4. a \in 1..Len(enqueued[q]) /\ b \in 1..Len(enqueued[q])
          BY <2>5, <5>2
        <5> QED BY <4>0, <5>3, <5>4 DEF InOrder
      <4> QED BY <3>2, <4>2, <4>3, <4>4, <4>5 DEF LaneInv
    <3> QED BY <3>1, <3>2
  <2>11. NewIsEmpty' /\ WithoutWorker'
    <3>1. phase # "new" BY <1>1 DEF IInv, NewIsEmpty
    <3>2. \A l \in Lane : lane'[l].pc = lane[l].pc BY <2>3
    <3>3. unreg.step = "media" => <<unreg.ch, "text">> \in Lane
      BY MsgAssumption DEF IInv, TypeOK, NoUnreg, Lane, Kind
    <3> QED BY <1>1, <3>1, <3>2, <3>3 DEF IInv, NewIsEmpty, WithoutWorker
  <2>12. Started'
    <3>1. \A l \in Lane : lane'[l].pc = lane[l].pc /\ lane'[l].shut = lane[l].shut BY <2>3
    <3>2. lane[q].pc # "none" BY <1>1 DEF IInv, Started
    <3>3. lane[q].pc = "exited" => cancelled BY <1>1, <1>3 DEF IInv, Started
    <3>4. \A j \in Kind : hand'[j].pc = "enqueue" => hand'[j] = hand[j] /\ hand[j].pc = "enqueue"
             /\ LaneOf(hand[j].msg) \in Lane
      <4>1. \A j \in Kind : hand[j].pc = "enqueue" => LaneOf(hand[j].msg) \in Lane
        BY Types, Lanes DEF IInv, HandOnce
      <4> QED BY <2>2, <4>1
    <3>5. cancelled' = cancelled BY <1>1 DEF cancelled
    <3>6. \A j \in Kind : hand'[j].pc = "enqueue" => lane'[LaneOf(hand'[j].msg)].pc # "none"
      BY <3>1, <3>4 DEF IInv, Started
    <3>7. \A l \in Lane : lane'[l].pc = "none" => enqueued'[l] = <<>>
      <4>1. \A l \in Lane : lane'[l].pc = "none" => l # q BY <3>1, <3>2
      <4> QED BY <2>4, <3>1, <4>1 DEF IInv, Started
    <3>8. \A l \in Lane : lane'[l].pc = "exited" /\ ~cancelled /\ ~panicked => lane'[l].shut /\ lane'[l].queue = <<>>
      <4>1. \A l \in Lane : lane'[l].pc = "exited" /\ ~cancelled => l # q BY <3>1, <3>3
      <4> QED BY <2>3, <4>1 DEF IInv, Started
    <3>9. \A l \in Lane : l[1] \in workers' => lane'[l].pc # "none"
      BY <1>1, <3>1 DEF IInv, Started
    <3> QED BY ONLY <1>1, <2>1, <3>5, <3>6, <3>7, <3>8, <3>9 DEF Started
  <2>13. NothingLostWhileRunning'
    <3> SUFFICES ASSUME NEW n \in published, phase = "running", ChannelOf[n] \in workers
                 PROVE  \/ \E j \in Kind : \E i \in 1..Len(busQueue[j]) : busQueue[j][i] = n
                        \/ \E j \in Kind : hand'[j].msg = n
                        \/ \E i \in 1..Len(lane'[LaneOf(n)].queue) : lane'[LaneOf(n)].queue[i] = n
                        \/ lane'[LaneOf(n)].msg = n
                        \/ n \in settled
      <4> QED BY <1>1, <2>1 DEF NothingLostWhileRunning, LaneOf
    <3>0. LaneOf(n) \in Lane BY Lanes DEF IInv, TypeOK
    <3>1. CASE n = m
      <4>1. LaneOf(n) = q BY <1>1, <3>1
      <4>2. w + 1 \in 1..Len(lane'[q].queue) /\ lane'[q].queue[w + 1] = m
        BY <2>5
      <4> QED BY <3>1, <4>1, <4>2
    <3>2. CASE n # m
      <4>1. CASE \E j \in Kind : hand[j].msg = n BY <1>1, <2>2, <3>2, <4>1
      <4>2. CASE lane[LaneOf(n)].msg = n BY <2>3, <3>0, <4>2
      <4>3. CASE \E i \in 1..Len(lane[LaneOf(n)].queue) : lane[LaneOf(n)].queue[i] = n
        <5>1. CASE LaneOf(n) # q BY <2>3, <3>0, <4>3, <5>1
        <5>2. CASE LaneOf(n) = q
          <6>1. PICK i \in 1..w : lane[q].queue[i] = n BY <2>5, <4>3, <5>2
          <6>2. i \in 1..(w + 1) BY <6>1
          <6> QED BY <2>5, <5>2, <6>1, <6>2
        <5> QED BY <5>1, <5>2
      <4> QED BY <4>1, <4>2, <4>3, <2>1 DEF IInv, NothingLostWhileRunning
    <3> QED BY <3>1, <3>2
  <2> QED BY <2>8, <2>9, <2>10, <2>11, <2>12, <2>13 DEF IInv, LaneInv
<1> QED BY <1>2, <1>3

\* A step of one worker leaves the other lanes as they are.
LEMMA OtherLanes ==
  ASSUME NEW d \in Lane, LaneInv(d), UNCHANGED <<published, busQueue, hand, enqueued>>,
         lane'[d] = lane[d], delivered'[d] = delivered[d], settled \subseteq settled'
  PROVE  LaneInv(d)'
<1>1. Taken(d)' = Taken(d)
  BY DEF Taken
<1>2. LaneOnce(d)' BY DEF LaneInv, LaneOnce
<1>3. QueueIsTail(d)' BY <1>1 DEF LaneInv, QueueIsTail
<1>4. DeliveredTaken(d)' BY <1>1 DEF LaneInv, DeliveredTaken
<1>5. InOrder(d)' BY OrderKept DEF LaneInv
<1> QED BY <1>2, <1>3, <1>4, <1>5 DEF LaneInv

\* What a step of a worker that goes on, or ends when it may, keeps of the rest.
LEMMA WorkerFrame ==
  ASSUME IInv, NEW l \in Lane, workerUnchanged, lane[l].pc \notin {"none", "exited"},
         lane' \in [Lane -> LaneState], \A d \in Lane \ {l} : lane'[d] = lane[d],
         lane'[l].pc # "none",
         lane'[l].pc = "exited" => cancelled \/ (lane'[l].shut /\ lane'[l].queue = <<>>),
         Len(lane'[l].queue) <= QueueSize, delivered' \in [Lane -> Seq(Msg \X Nat)], settled' \subseteq Msg
  PROVE  TypeOK' /\ BusOnce' /\ HandOnce' /\ NewIsEmpty' /\ Started' /\ WithoutWorker'
<1>1. TypeOK'
  BY DEF IInv, TypeOK, workerUnchanged, LaneState
<1>2. BusOnce' /\ HandOnce'
  BY DEF IInv, BusOnce, HandOnce, workerUnchanged
<1>3. NewIsEmpty'
  BY DEF IInv, NewIsEmpty, workerUnchanged
<1>4. Started'
  <2>1. cancelled' = cancelled BY DEF workerUnchanged, cancelled
  <2>2. \A k \in Kind : hand[k].pc = "enqueue" => LaneOf(hand[k].msg) \in Lane
    BY Types, Lanes DEF IInv, HandOnce
  <2>3. \A d \in Lane : lane[d].pc # "none" => lane'[d].pc # "none"
    OBVIOUS
  <2>4. \A k \in Kind : hand'[k].pc = "enqueue" => lane'[LaneOf(hand'[k].msg)].pc # "none"
    BY <2>2, <2>3 DEF IInv, Started, workerUnchanged
  <2>5. \A d \in Lane : lane'[d].pc = "none" => enqueued'[d] = <<>>
    BY <2>3 DEF IInv, Started, workerUnchanged
  <2>6. \A d \in Lane : d[1] \in workers' => lane'[d].pc # "none"
    BY <2>3 DEF IInv, Started, workerUnchanged
  <2>7. \A d \in Lane : lane'[d].pc = "exited" /\ ~cancelled /\ ~panicked' => lane'[d].shut /\ lane'[d].queue = <<>>
    BY DEF IInv, Started, workerUnchanged
  <2> QED BY <2>1, <2>4, <2>5, <2>6, <2>7 DEF Started, LaneOf
<1>5. WithoutWorker'
  <2>1. unreg.step = "media" => <<unreg.ch, "text">> \in Lane
    BY MsgAssumption DEF IInv, TypeOK, NoUnreg, Lane, Kind
  <2> QED BY <2>1 DEF IInv, WithoutWorker, workerUnchanged
<1> QED BY <1>1, <1>2, <1>3, <1>4, <1>5

\* What Tail leaves of a sequence, position by position.
LEMMA TailLeaves ==
  ASSUME NEW S, NEW s \in Seq(S), s # <<>>
  PROVE  /\ Head(s) = s[1] /\ Head(s) \in S /\ Tail(s) \in Seq(S) /\ Len(s) \in Nat \ {0}
         /\ Len(Tail(s)) = Len(s) - 1
         /\ \A i \in 1..(Len(s) - 1) : Tail(s)[i] = s[i + 1]
OBVIOUS

\* The worker takes the next message out of its queue.
LEMMA RecvStep ==
  ASSUME IInv, NEW l \in Lane, WorkerRecv(l)
  PROVE  IInv'
<1>1. /\ workerUnchanged /\ UNCHANGED <<delivered, settled>>
      /\ lane[l].pc = "recv" /\ lane[l].queue # <<>> /\ lane[l].queue \in Seq(Msg)
      /\ lane \in [Lane -> LaneState] /\ LaneInv(l)
      /\ enqueued' = enqueued /\ published' = published /\ hand' = hand /\ busQueue' = busQueue
  BY Types DEF IInv, WorkerRecv, workerUnchanged, LaneInv
<1>2. /\ lane' \in [Lane -> LaneState]
      /\ \A d \in Lane \ {l} : lane'[d] = lane[d]
      /\ lane'[l].pc = "begin" /\ lane'[l].msg = Head(lane[l].queue)
      /\ lane'[l].queue = Tail(lane[l].queue) /\ lane'[l].chunk = 1
  <2>1. lane' = [lane EXCEPT ![l] = [lane[l] EXCEPT !.queue = Tail(lane[l].queue), !.msg = Head(lane[l].queue),
                                                    !.chunk = 1, !.attempt = 0, !.pc = "begin"]]
    BY <1>1 DEF WorkerRecv
  <2>2. Tail(lane[l].queue) \in Seq(Msg) /\ Head(lane[l].queue) \in Msg
    BY <1>1, TailLeaves
  <2>3. lane[l] \in [queue : Seq(Msg), shut : BOOLEAN, pc : {"none", "recv", "exited"},
                     msg : {None}, chunk : {0}, attempt : {0}]
    BY <1>1 DEF LaneState
  <2>4. [lane[l] EXCEPT !.queue = Tail(lane[l].queue), !.msg = Head(lane[l].queue),
                        !.chunk = 1, !.attempt = 0, !.pc = "begin"]
          \in [queue : Seq(Msg), shut : BOOLEAN, pc : {"begin", "wait", "send", "backoff"},
               msg : Msg, chunk : Nat, attempt : 0..MaxRetries]
    <3>1. 0 \in 0..MaxRetries /\ 1 \in Nat BY BoundAssumption
    <3>3. lane[l].shut \in BOOLEAN BY <2>3
    <3> QED BY <2>2, <2>3, <3>1, <3>3
  <2> QED BY <1>1, <2>1, <2>3, <2>4 DEF LaneState
<1>3. PICK e \in Nat, w \in Nat, n \in Nat :
        /\ e = Len(enqueued[l]) /\ w + 1 = Len(lane[l].queue) /\ Len(lane'[l].queue) = w
        /\ n + (w + 1) = e /\ n = Taken(l) /\ Taken(l)' = n + 1
  <2>1. PICK e \in Nat, v \in Nat : e = Len(enqueued[l]) /\ v = Len(lane[l].queue)
    BY <1>1 DEF IInv, TypeOK
  <2>2. v # 0 /\ v <= e /\ Len(lane'[l].queue) = v - 1
    BY <1>1, <1>2, <2>1, TailLeaves DEF LaneInv, QueueIsTail
  <2>3. Taken(l) = e - v /\ Taken(l)' = e - (v - 1)
    BY <1>1, <2>1, <2>2 DEF Taken
  <2>4. /\ v - 1 \in Nat /\ e - v \in Nat /\ (v - 1) + 1 = v
        /\ (e - v) + ((v - 1) + 1) = e /\ e - (v - 1) = (e - v) + 1
    BY <2>2
  <2> QED BY <2>1, <2>2, <2>3, <2>4
<1>4. /\ \A i \in 1..w : lane'[l].queue[i] = lane[l].queue[i + 1]
      /\ lane'[l].msg = lane[l].queue[1]
      /\ \A i \in 1..(w + 1) : lane[l].queue[i] = enqueued[l][n + i]
      /\ \A i \in 1..n : enqueued[l][i] \in settled
  <2>1. \A i \in 1..w : lane'[l].queue[i] = lane[l].queue[i + 1]
    <3>1. (w + 1) - 1 = w OBVIOUS
    <3> QED BY <1>1, <1>2, <1>3, <3>1, TailLeaves
  <2>2. lane'[l].msg = lane[l].queue[1]
    BY <1>1, <1>2, TailLeaves
  <2>3. \A i \in 1..(w + 1) : lane[l].queue[i] = enqueued[l][n + i]
    BY <1>1, <1>3 DEF LaneInv, QueueIsTail
  <2>4. \A i \in 1..n : enqueued[l][i] \in settled
    BY <1>1, <1>3 DEF LaneInv, QueueIsTail, Sending
  <2> QED BY <2>1, <2>2, <2>3, <2>4
<1>5. TypeOK' /\ BusOnce' /\ HandOnce' /\ NewIsEmpty' /\ Started' /\ WithoutWorker'
  <2>1. Len(lane'[l].queue) <= QueueSize
    BY <1>3, BoundAssumption DEF IInv, TypeOK
  <2>2. delivered' \in [Lane -> Seq(Msg \X Nat)] /\ settled' \subseteq Msg
    BY <1>1 DEF IInv, TypeOK
  <2> QED BY <1>1, <1>2, <2>1, <2>2, WorkerFrame
<1>6. ASSUME NEW d \in Lane PROVE LaneInv(d)'
  <2>1. CASE d # l
    BY <1>1, <1>2, <2>1, OtherLanes DEF IInv, LaneInv
  <2>2. CASE d = l
    <3>1. LaneOnce(l)' BY <1>1 DEF LaneInv, LaneOnce
    <3>2. QueueIsTail(l)'
      <4>1. \A i \in 1..w : lane'[l].queue[i] = enqueued[l][(n + 1) + i]
        <5>1. \A i \in 1..w : i + 1 \in 1..(w + 1) /\ n + (i + 1) = (n + 1) + i OBVIOUS
        <5> QED BY <1>4, <5>1
      <4>2. lane'[l].msg = enqueued[l][n + 1] /\ n + 1 >= 1
        <5>1. 1 \in 1..(w + 1) OBVIOUS
        <5> QED BY <1>4, <5>1
      <4>3. \A i \in 1..(n + 1) : i < n + 1 => enqueued[l][i] \in settled
        <5>1. \A i \in 1..(n + 1) : i < n + 1 => i \in 1..n OBVIOUS
        <5> QED BY <1>4, <5>1
      <4>4. w <= e BY <1>3
      <4> QED BY <1>1, <1>2, <1>3, <4>1, <4>2, <4>3, <4>4 DEF QueueIsTail, Sending
    <3>3. DeliveredTaken(l)'
      <4>1. \A i \in 1..Len(delivered[l]) : \E a \in 1..n : enqueued[l][a] = delivered[l][i][1]
        BY <1>1, <1>3 DEF LaneInv, DeliveredTaken
      <4>2. \A a \in 1..n : a \in 1..(n + 1) /\ enqueued[l][a] # lane'[l].msg
        <5>1. \A a \in 1..n : a \in 1..e /\ n + 1 \in 1..e /\ a # n + 1 BY <1>3
        <5>2. \A a, b \in 1..e : enqueued[l][a] = enqueued[l][b] => a = b
          BY <1>1, <1>3 DEF LaneInv, LaneOnce
        <5>3. lane'[l].msg = enqueued[l][n + 1] BY <1>4
        <5> QED BY <5>1, <5>2, <5>3
      <4>3. \A i \in 1..Len(delivered[l]) :
               (\E a \in 1..(n + 1) : enqueued[l][a] = delivered[l][i][1]) /\ delivered[l][i][1] # lane'[l].msg
        BY ONLY <4>1, <4>2
      <4> QED BY <1>1, <1>3, <4>3 DEF DeliveredTaken
    <3>4. InOrder(l)' BY <1>1, OrderKept DEF LaneInv
    <3> QED BY <2>2, <3>1, <3>2, <3>3, <3>4 DEF LaneInv
  <2> QED BY <2>1, <2>2
<1>7. NothingLostWhileRunning'
  <2> SUFFICES ASSUME NEW m \in published, ~panicked, phase = "running", ChannelOf[m] \in workers
               PROVE  \/ \E k \in Kind : \E i \in 1..Len(busQueue[k]) : busQueue[k][i] = m
                      \/ \E k \in Kind : hand[k].msg = m
                      \/ \E i \in 1..Len(lane'[LaneOf(m)].queue) : lane'[LaneOf(m)].queue[i] = m
                      \/ lane'[LaneOf(m)].msg = m
                      \/ m \in settled
    BY <1>1 DEF NothingLostWhileRunning, LaneOf, workerUnchanged
  <2>0. LaneOf(m) \in Lane /\ m # None BY Lanes, MsgAssumption DEF IInv, TypeOK
  <2>1. CASE lane[LaneOf(m)].msg = m
    <3>1. LaneOf(m) # l BY <1>1, <2>0, <2>1, Types DEF IInv, Sending
    <3> QED BY <1>2, <2>0, <2>1, <3>1
  <2>2. CASE \E i \in 1..Len(lane[LaneOf(m)].queue) : lane[LaneOf(m)].queue[i] = m
    <3>1. CASE LaneOf(m) # l BY <1>2, <2>0, <2>2, <3>1
    <3>2. CASE LaneOf(m) = l
      <4>1. PICK i \in 1..(w + 1) : lane[l].queue[i] = m BY <1>3, <2>2, <3>2
      <4>2. CASE i = 1 BY <1>4, <3>2, <4>1, <4>2
      <4>3. CASE i # 1
        <5>1. i - 1 \in 1..w /\ (i - 1) + 1 = i BY <4>1, <4>3
        <5>2. lane'[l].queue[i - 1] = m BY <1>4, <4>1, <5>1
        <5> QED BY <1>3, <3>2, <5>1, <5>2
      <4> QED BY <4>2, <4>3
    <3> QED BY <3>1, <3>2
  <2> QED BY <2>1, <2>2 DEF IInv, NothingLostWhileRunning
<1> QED BY <1>5, <1>6, <1>7 DEF IInv, LaneInv

\* The worker ends.
LEMMA ExitStep ==
  ASSUME IInv, NEW l \in Lane, WorkerExit(l)
  PROVE  IInv'
<1>1. /\ workerUnchanged /\ UNCHANGED <<delivered, settled>>
      /\ lane[l].pc = "recv" /\ (cancelled \/ (lane[l].shut /\ lane[l].queue = <<>>))
      /\ lane \in [Lane -> LaneState]
      /\ enqueued' = enqueued /\ published' = published /\ hand' = hand /\ busQueue' = busQueue
  BY Types DEF IInv, WorkerExit, workerUnchanged
<1>2. /\ lane' \in [Lane -> LaneState]
      /\ \A d \in Lane \ {l} : lane'[d] = lane[d]
      /\ lane'[l].pc = "exited" /\ lane'[l].queue = lane[l].queue /\ lane'[l].shut = lane[l].shut
      /\ lane'[l].msg = lane[l].msg /\ lane'[l].chunk = lane[l].chunk
  <2>1. lane' = [lane EXCEPT ![l] = [lane[l] EXCEPT !.pc = "exited"]]
    BY <1>1 DEF WorkerExit
  <2>2. [lane[l] EXCEPT !.pc = "exited"] \in LaneState
    BY <1>1 DEF LaneState
  <2> QED BY <1>1, <2>1, <2>2 DEF LaneState
<1>3. TypeOK' /\ BusOnce' /\ HandOnce' /\ NewIsEmpty' /\ Started' /\ WithoutWorker'
  <2>1. Len(lane'[l].queue) <= QueueSize /\ delivered' \in [Lane -> Seq(Msg \X Nat)] /\ settled' \subseteq Msg
    BY <1>1, <1>2 DEF IInv, TypeOK
  <2> QED BY <1>1, <1>2, <2>1, WorkerFrame
<1>4. \A d \in Lane : /\ lane'[d].queue = lane[d].queue /\ lane'[d].msg = lane[d].msg
                      /\ lane'[d].chunk = lane[d].chunk
                      /\ (lane'[d].pc \in Sending <=> lane[d].pc \in Sending)
  BY <1>1, <1>2 DEF Sending
<1>5. ASSUME NEW d \in Lane PROVE LaneInv(d)'
  <2>1. LaneOnce(d)' BY <1>1 DEF IInv, LaneOnce
  <2> QED BY <1>1, <1>4, <2>1, LanesKept DEF IInv, LaneInv, histories
<1>6. NothingLostWhileRunning'
  <2>1. \A m \in published : LaneOf(m) \in Lane \/ ChannelOf[m] \notin workers
    BY Lanes DEF IInv, TypeOK
  <2>2. UNCHANGED <<panicked, phase, published, workers, busQueue, hand, settled>>
    BY <1>1 DEF workerUnchanged
  <2> QED BY <1>4, <2>1, <2>2 DEF IInv, NothingLostWhileRunning, LaneOf
<1> QED BY <1>3, <1>5, <1>6 DEF IInv, LaneInv

\* The steps of a worker that is sending.
LEMMA SendStep ==
  ASSUME IInv, NEW l \in Lane, SendBegin(l) \/ RateWait(l) \/ Send(l) \/ Backoff(l)
  PROVE  IInv'
<1> DEFINE x == lane[l].msg
           c == lane[l].chunk
<1>1. /\ lane[l].pc \in Sending /\ workerUnchanged
      /\ lane' \in [Lane -> LaneState]
      /\ \A d \in Lane \ {l} : lane'[d] = lane[d]
      /\ lane'[l].queue = lane[l].queue /\ lane'[l].shut = lane[l].shut
      /\ \/ delivered' = delivered
         \/ Deliver(l) /\ ~(lane'[l].pc \in Sending /\ lane'[l].chunk = c)
      /\ \/ lane'[l].pc \in Sending /\ lane'[l].msg = x /\ settled' = settled
               /\ lane'[l].chunk \in {c, c + 1}
         \/ lane'[l].pc = "recv" /\ settled' = settled \cup {x}
  BY SendOutcome DEF IInv
<1>2. x \in Msg /\ c \in Nat /\ LaneInv(l) /\ delivered \in [Lane -> Seq(Msg \X Nat)]
      /\ enqueued' = enqueued /\ published' = published /\ hand' = hand /\ busQueue' = busQueue
  BY <1>1, Types DEF IInv, LaneInv, TypeOK, workerUnchanged
<1>3. PICK y \in Msg, z \in Nat : y = x /\ z = c
  BY <1>2
<1>4. /\ lane[l].msg = y /\ lane[l].chunk = z /\ y \in Msg
      /\ lane'[l].pc \in Sending =>
            lane'[l].msg = y /\ lane'[l].chunk \in Nat /\ lane'[l].chunk >= z
              /\ (delivered' # delivered => lane'[l].chunk > z)
      /\ lane'[l].pc \in Sending \/ y \in settled'
      /\ lane'[l].pc \in Sending \cup {"recv"}
      /\ settled \subseteq settled' /\ settled' \subseteq Msg
  <2>1. lane'[l].pc \in Sending => lane'[l].msg = y /\ lane'[l].chunk \in {z, z + 1}
    BY <1>1, <1>3 DEF Sending
  <2>2. delivered' # delivered /\ lane'[l].pc \in Sending => lane'[l].chunk # z
    BY <1>1, <1>3
  <2>3. settled \subseteq Msg BY DEF IInv, TypeOK
  <2> QED BY <1>1, <1>2, <1>3, <2>1, <2>2, <2>3
<1>5. PICK v \in Nat : /\ v = Len(delivered[l])
                       /\ \A i \in 1..Len(delivered'[l]) :
                             \/ i \in 1..v /\ delivered'[l][i] = delivered[l][i]
                             \/ i = v + 1 /\ delivered'[l][i] = <<y, z>> /\ delivered' # delivered
                       /\ delivered' \in [Lane -> Seq(Msg \X Nat)]
                       /\ \A d \in Lane \ {l} : delivered'[d] = delivered[d]
  <2>0. PICK v \in Nat : v = Len(delivered[l]) BY <1>2
  <2>1. CASE delivered' = delivered BY <1>2, <2>0, <2>1
  <2>2. CASE Deliver(l)
    <3>1. <<y, z>> \in Msg \X Nat BY <1>4
    <3>2. delivered' = [delivered EXCEPT ![l] = Append(delivered[l], <<y, z>>)]
      BY <1>4, <2>2 DEF Deliver
    <3>3. delivered[l] \in Seq(Msg \X Nat) BY <1>2
    <3>4. /\ Append(delivered[l], <<y, z>>) \in Seq(Msg \X Nat)
          /\ Len(Append(delivered[l], <<y, z>>)) = v + 1
          /\ \A i \in 1..v : Append(delivered[l], <<y, z>>)[i] = delivered[l][i]
          /\ Append(delivered[l], <<y, z>>)[v + 1] = <<y, z>>
      BY <2>0, <3>1, <3>3, Appended
    <3>5. delivered'[l] = Append(delivered[l], <<y, z>>) /\ delivered' \in [Lane -> Seq(Msg \X Nat)]
          /\ \A d \in Lane \ {l} : delivered'[d] = delivered[d]
      BY <1>2, <3>2, <3>4
    <3>6. delivered' # delivered BY <2>0, <3>4, <3>5
    <3>7. \A i \in 1..(v + 1) : i \in 1..v \/ i = v + 1 OBVIOUS
    <3> QED BY <2>0, <3>4, <3>5, <3>6, <3>7
  <2> QED BY <1>1, <2>1, <2>2
<1> HIDE DEF x, c
<1>6. PICK e \in Nat, n \in Nat : e = Len(enqueued[l]) /\ n = Taken(l) /\ n = Taken(l)' /\ n >= 1 /\ n <= e
                                  /\ y = enqueued[l][n]
  <2>1. PICK e \in Nat, w \in Nat : e = Len(enqueued[l]) /\ w = Len(lane[l].queue)
    <3>1. enqueued[l] \in Seq(Msg) /\ lane[l].queue \in Seq(Msg)
      BY Types DEF IInv, TypeOK
    <3> QED BY ONLY <3>1
  <2>2. w <= e BY <2>1, <1>2 DEF LaneInv, QueueIsTail
  <2>3. Taken(l) = e - w /\ Taken(l)' = e - w BY <1>1, <1>2, <2>1 DEF Taken
  <2>4. e - w \in Nat /\ e - w <= e BY <2>2
  <2>5. Taken(l) >= 1 /\ y = enqueued[l][Taken(l)] BY <1>1, <1>2, <1>4 DEF LaneInv, QueueIsTail
  <2> QED BY <2>1, <2>3, <2>4, <2>5
<1>7. TypeOK' /\ BusOnce' /\ HandOnce' /\ NewIsEmpty' /\ Started' /\ WithoutWorker'
  <2>1. Len(lane'[l].queue) <= QueueSize BY <1>1 DEF IInv, TypeOK
  <2>2. lane[l].pc \notin {"none", "exited"} /\ lane'[l].pc \notin {"none", "exited"}
    BY <1>1, <1>4 DEF Sending
  <2> QED BY <1>1, <1>4, <1>5, <2>1, <2>2, WorkerFrame
<1>8. ASSUME NEW d \in Lane PROVE LaneInv(d)'
  <2>1. CASE d # l
    BY <1>1, <1>2, <1>4, <1>5, <2>1, OtherLanes DEF IInv, LaneInv
  <2>2. CASE d = l
    <3>1. LaneOnce(l)' BY <1>2 DEF LaneInv, LaneOnce
    <3>2. QueueIsTail(l)'
      <4>1. \A i \in 1..n : (i < n) => enqueued[l][i] \in settled
        BY <1>2, <1>6 DEF LaneInv, QueueIsTail
      <4>2. \A i \in 1..n : (i < n) \/ lane'[l].pc \notin Sending => enqueued[l][i] \in settled'
        <5>1. \A i \in 1..n : (i < n) \/ i = n OBVIOUS
        <5> QED BY <1>4, <1>6, <4>1, <5>1
      <4>3. /\ Len(lane[l].queue) <= Len(enqueued[l])
            /\ \A i \in 1..Len(lane[l].queue) : lane[l].queue[i] = enqueued[l][n + i]
        BY <1>2, <1>6 DEF LaneInv, QueueIsTail
      <4> QED BY <1>1, <1>2, <1>4, <1>6, <4>2, <4>3 DEF QueueIsTail
    <3>3. \A i \in 1..v : /\ \E a \in 1..n : enqueued[l][a] = delivered[l][i][1]
                          /\ delivered[l][i][1] = y => delivered[l][i][2] < z
      BY <1>1, <1>2, <1>4, <1>5, <1>6 DEF LaneInv, DeliveredTaken
    <3>n. \A i \in 1..v : delivered[l][i][2] \in Nat
      BY <1>2, <1>5
    <3>4. DeliveredTaken(l)'
      <4> SUFFICES ASSUME NEW i \in 1..Len(delivered'[l])
                   PROVE  /\ \E a \in 1..n : enqueued[l][a] = delivered'[l][i][1]
                          /\ lane'[l].pc \in Sending /\ delivered'[l][i][1] = lane'[l].msg
                                => delivered'[l][i][2] < lane'[l].chunk
        BY <1>2, <1>6 DEF DeliveredTaken
      <4>1. CASE i \in 1..v /\ delivered'[l][i] = delivered[l][i]
        <5>1. delivered[l][i][2] < z /\ lane'[l].pc \in Sending => delivered[l][i][2] < lane'[l].chunk
          BY <1>4, <3>n, <4>1
        <5> QED BY <1>4, <3>3, <4>1, <5>1
      <4>2. CASE delivered'[l][i] = <<y, z>> /\ delivered' # delivered
        <5>1. n \in 1..n BY <1>6
        <5> QED BY <1>4, <1>6, <4>2, <5>1
      <4> QED BY <1>5, <4>1, <4>2
    <3>5. InOrder(l)'
      <4> SUFFICES ASSUME NEW i \in 1..Len(delivered'[l]), NEW j \in 1..Len(delivered'[l]),
                          NEW a \in 1..e, NEW b \in 1..e, i < j,
                          enqueued[l][a] = delivered'[l][i][1], enqueued[l][b] = delivered'[l][j][1]
                   PROVE  a < b \/ (a = b /\ delivered'[l][i][2] < delivered'[l][j][2])
        BY <1>2, <1>6 DEF InOrder
      <4>0. i \in Nat /\ j \in Nat /\ (i \in 1..v \/ i = v + 1) /\ (j \in 1..v \/ j = v + 1)
        BY <1>5
      <4>1. i \in 1..v /\ delivered'[l][i] = delivered[l][i]
        BY <1>5, <4>0
      <4>2. CASE j \in 1..v
        <5>1. delivered'[l][j] = delivered[l][j]
          BY <1>5, <4>2
        <5>2. \A f, g \in 1..v : \A p, q \in 1..e :
                 f < g /\ enqueued[l][p] = delivered[l][f][1] /\ enqueued[l][q] = delivered[l][g][1]
                     => p < q \/ (p = q /\ delivered[l][f][2] < delivered[l][g][2])
          <6>1. InOrder(l) BY <1>2 DEF LaneInv
          <6> QED BY ONLY <1>5, <1>6, <6>1 DEF InOrder
        <5>3. enqueued[l][a] = delivered[l][i][1] /\ enqueued[l][b] = delivered[l][j][1]
          BY <4>1, <5>1
        <5> QED BY <4>1, <4>2, <5>1, <5>2, <5>3
      <4>3. CASE j = v + 1
        <5>0. j \notin 1..v BY <4>3
        <5>1. delivered'[l][j] = <<y, z>> BY <1>5, <5>0
        <5>2. \A g, h \in 1..e : enqueued[l][g] = enqueued[l][h] => g = h
          BY <1>2, <1>6 DEF LaneInv, LaneOnce
        <5>3. b = n BY <1>6, <5>1, <5>2
        <5>4. PICK g \in 1..n : enqueued[l][g] = delivered[l][i][1] BY <3>3, <4>1
        <5>5. a = g BY <1>6, <4>1, <5>2, <5>4
        <5>6. a = n => delivered[l][i][1] = y BY <1>6, <4>1
        <5>7. a = n => delivered[l][i][2] < z BY <3>3, <4>1, <5>6
        <5>8. delivered'[l][j][2] = z /\ delivered'[l][i][2] = delivered[l][i][2] BY <4>1, <5>1
        <5> QED BY <5>3, <5>5, <5>7, <5>8
      <4> QED BY <4>0, <4>2, <4>3
    <3> QED BY <2>2, <3>1, <3>2, <3>4, <3>5 DEF LaneInv
  <2> QED BY <2>1, <2>2
<1>9. NothingLostWhileRunning'
  <2> SUFFICES ASSUME NEW m \in published, ~panicked, phase = "running", ChannelOf[m] \in workers
               PROVE  \/ \E k \in Kind : \E i \in 1..Len(busQueue[k]) : busQueue[k][i] = m
                      \/ \E k \in Kind : hand[k].msg = m
                      \/ \E i \in 1..Len(lane'[LaneOf(m)].queue) : lane'[LaneOf(m)].queue[i] = m
                      \/ lane'[LaneOf(m)].msg = m
                      \/ m \in settled'
    BY <1>1, <1>2 DEF NothingLostWhileRunning, LaneOf, workerUnchanged
  <2>0. LaneOf(m) \in Lane BY Lanes DEF IInv, TypeOK
  <2>1. lane'[LaneOf(m)].queue = lane[LaneOf(m)].queue
    BY <1>1, <2>0
  <2>2. lane[LaneOf(m)].msg = m => lane'[LaneOf(m)].msg = m \/ m \in settled'
    <3>1. CASE LaneOf(m) # l BY <1>1, <2>0, <3>1
    <3>2. CASE LaneOf(m) = l BY <1>4, <3>2
    <3> QED BY <3>1, <3>2
  <2> QED BY <1>4, <2>1, <2>2 DEF IInv, NothingLostWhileRunning
<1> QED BY <1>7, <1>8, <1>9 DEF IInv, LaneInv

\* What the steps of the gateway, of StopAll and of UnregisterChannel have in common: they may
\* empty the bus after the context was canceled, close queues, and remove channels.
LEMMA CalmStep ==
  ASSUME IInv, ~panicked, UNCHANGED <<published, hand, enqueued, delivered, settled>>,
         panicked' \in BOOLEAN, phase' \in Phase,
         phase' # phase => phase # "new" /\ phase' \notin {"new", "running"},
         busQueue' = busQueue \/ (busQueue' = [k \in Kind |-> <<>>] /\ phase' \notin {"new", "running"}),
         lane' \in [Lane -> LaneState],
         \A d \in Lane : /\ lane'[d].queue = lane[d].queue /\ lane'[d].pc = lane[d].pc
                         /\ lane'[d].msg = lane[d].msg /\ lane'[d].chunk = lane[d].chunk
                         /\ lane[d].shut => lane'[d].shut,
         workers' \subseteq workers, workers' \subseteq registered', registered' \subseteq registered,
         unreg' \in {NoUnreg} \cup [ch : workers', step : {"text", "media"}],
         WithoutWorker'
  PROVE  IInv'
<1>1. TypeOK'
  <2>1. busQueue' \in [Kind -> Seq(Msg)]
    <3>1. <<>> \in Seq(Msg) OBVIOUS
    <3>2. busQueue \in [Kind -> Seq(Msg)] BY DEF IInv, TypeOK
    <3> QED BY <3>1, <3>2
  <2>2. /\ published' \subseteq Msg /\ hand' \in [Kind -> HandState] /\ settled' \subseteq Msg
        /\ enqueued' \in [Lane -> Seq(Msg)] /\ delivered' \in [Lane -> Seq(Msg \X Nat)]
    BY Types DEF IInv, TypeOK
  <2>3. registered' \subseteq Channel BY DEF IInv, TypeOK
  <2>4. \A l \in Lane : Len(lane'[l].queue) <= QueueSize BY DEF IInv, TypeOK
  <2> QED BY <2>1, <2>2, <2>3, <2>4 DEF TypeOK, LaneState, HandState
<1>2. BusOnce' /\ HandOnce'
  <2>1. CASE busQueue' = busQueue BY <2>1 DEF IInv, BusOnce, HandOnce
  <2>2. CASE busQueue' = [k \in Kind |-> <<>>]
    <3>1. \A k \in Kind : Len(busQueue'[k]) = 0 BY <2>2
    <3>2. \A k \in Kind : 1..Len(busQueue'[k]) = {} BY <3>1
    <3> QED BY <3>2 DEF IInv, BusOnce, HandOnce
  <2> QED BY <2>1, <2>2
<1>3. ASSUME NEW d \in Lane PROVE LaneInv(d)'
  <2>1. d[2] \in Kind BY Lanes
  <2>2. \A j \in 1..Len(busQueue'[d[2]]) : j \in 1..Len(busQueue[d[2]]) /\ busQueue'[d[2]][j] = busQueue[d[2]][j]
    <3>1. CASE busQueue' = [k \in Kind |-> <<>>]
      <4>1. Len(busQueue'[d[2]]) = 0 BY <2>1, <3>1
      <4>2. 1..Len(busQueue'[d[2]]) = {} BY <4>1
      <4> QED BY <4>2
    <3> QED BY <3>1
  <2>3. LaneOnce(d) BY DEF IInv
  <2>4. LaneOnce(d)' BY <2>2, <2>3 DEF LaneOnce
  <2> QED BY <2>4, LanesKept DEF IInv, LaneInv, histories
<1>4. NewIsEmpty'
  BY DEF IInv, NewIsEmpty
<1>5. Started'
  <2>1. cancelled => cancelled' BY DEF cancelled
  <2>2. \A k \in Kind : hand[k].pc = "enqueue" => LaneOf(hand[k].msg) \in Lane
    BY Types, Lanes DEF IInv, HandOnce
  <2>3. \A k \in Kind : hand'[k].pc = "enqueue" => lane'[LaneOf(hand'[k].msg)].pc # "none"
    BY <2>2 DEF IInv, Started
  <2>4. \A d \in Lane : lane'[d].pc = "exited" /\ ~cancelled' /\ ~panicked' => lane'[d].shut /\ lane'[d].queue = <<>>
    BY <2>1 DEF IInv, Started
  <2>5. \A d \in Lane : /\ lane'[d].pc = "none" => enqueued'[d] = <<>>
                        /\ d[1] \in workers' => lane'[d].pc # "none"
    BY DEF IInv, Started
  <2> QED BY <2>3, <2>4, <2>5 DEF Started, LaneOf
<1>6. NothingLostWhileRunning'
  <2> SUFFICES ASSUME NEW m \in published, phase' = "running", ChannelOf[m] \in workers'
               PROVE  \/ \E k \in Kind : \E i \in 1..Len(busQueue'[k]) : busQueue'[k][i] = m
                      \/ \E k \in Kind : hand[k].msg = m
                      \/ \E i \in 1..Len(lane'[LaneOf(m)].queue) : lane'[LaneOf(m)].queue[i] = m
                      \/ lane'[LaneOf(m)].msg = m
                      \/ m \in settled
    BY DEF NothingLostWhileRunning, LaneOf
  <2>1. phase = "running" /\ busQueue' = busQueue /\ LaneOf(m) \in Lane /\ ChannelOf[m] \in workers
    BY Lanes DEF IInv, TypeOK
  <2> QED BY <2>1 DEF IInv, NothingLostWhileRunning
<1> QED BY <1>1, <1>2, <1>3, <1>4, <1>5, <1>6 DEF IInv, LaneInv

\* Closing queues changes nothing else of the workers.
LEMMA Closed ==
  ASSUME TypeOK, NEW cs, NEW k, CloseQueues(cs, k)
  PROVE  /\ lane' \in [Lane -> LaneState] /\ panicked' \in BOOLEAN
         /\ \A d \in Lane : /\ lane'[d].queue = lane[d].queue /\ lane'[d].pc = lane[d].pc
                            /\ lane'[d].msg = lane[d].msg /\ lane'[d].chunk = lane[d].chunk
                            /\ lane[d].shut => lane'[d].shut
<1>1. lane \in [Lane -> LaneState] BY Types
<1>2. \A d \in Lane : [lane[d] EXCEPT !.shut = TRUE] \in LaneState BY <1>1, QueueChanges
<1>3. lane' = [d \in Lane |-> IF d[1] \in cs /\ d[2] = k THEN [lane[d] EXCEPT !.shut = TRUE] ELSE lane[d]]
  BY DEF CloseQueues
<1>4. lane' \in [Lane -> LaneState] BY <1>1, <1>2, <1>3
<1>5. \A d \in Lane : /\ lane'[d].queue = lane[d].queue /\ lane'[d].pc = lane[d].pc
                      /\ lane'[d].msg = lane[d].msg /\ lane'[d].chunk = lane[d].chunk
                      /\ lane[d].shut => lane'[d].shut
  BY <1>1, <1>3 DEF LaneState
<1>6. panicked' \in BOOLEAN BY DEF CloseQueues
<1> QED BY <1>4, <1>5, <1>6

\* The gateway's steps and StopAll.
LEMMA StopSteps ==
  ASSUME IInv, ~panicked, Cancel \/ CloseBus \/ StopBegin \/ Stop
  PROVE  IInv'
<1>1. /\ UNCHANGED <<published, hand, registered, workers, unreg, enqueued, delivered, settled>>
      /\ phase \in {"running", "cancelled", "busClosed", "stopping", "drainText", "drainMedia"}
      /\ phase' \in Phase \ {"new", "running"}
      /\ busQueue' = busQueue \/ busQueue' = [k \in Kind |-> <<>>]
  BY DEF Cancel, CloseBus, StopBegin, Stop, StopCloseText, StopCloseMedia, StopEnd, Phase, histories, CloseQueues
<1>2. /\ lane' \in [Lane -> LaneState] /\ panicked' \in BOOLEAN
      /\ \A d \in Lane : /\ lane'[d].queue = lane[d].queue /\ lane'[d].pc = lane[d].pc
                         /\ lane'[d].msg = lane[d].msg /\ lane'[d].chunk = lane[d].chunk
                         /\ lane[d].shut => lane'[d].shut
  <2>1. CASE UNCHANGED <<lane, panicked>>
    BY <2>1, Types DEF IInv, TypeOK
  <2>2. CASE StopCloseText BY <2>2, Closed DEF IInv, StopCloseText
  <2>3. CASE StopCloseMedia BY <2>3, Closed DEF IInv, StopCloseMedia
  <2> QED BY <2>1, <2>2, <2>3 DEF Cancel, CloseBus, StopBegin, Stop, StopEnd
<1>3. WithoutWorker'
  <2>1. unreg.step = "media" => <<unreg.ch, "text">> \in Lane
    BY MsgAssumption DEF IInv, TypeOK, NoUnreg, Lane, Kind
  <2> QED BY <1>1, <1>2, <2>1 DEF IInv, WithoutWorker
<1>4. workers \subseteq registered /\ unreg' \in {NoUnreg} \cup [ch : workers', step : {"text", "media"}]
  BY <1>1 DEF IInv, TypeOK, NoUnreg
<1> QED BY <1>1, <1>2, <1>3, <1>4, CalmStep

\* UnregisterChannel.
LEMMA UnregisterSteps ==
  ASSUME IInv, ~panicked, (\E c \in Removable : UnregisterBegin(c)) \/ Unregister
  PROVE  IInv'
<1>0. /\ registered \subseteq Channel /\ workers \subseteq registered
      /\ unreg \in {NoUnreg} \cup [ch : workers, step : {"text", "media"}]
      /\ NoUnreg.step = "none"
      /\ phase \in Phase /\ lane \in [Lane -> LaneState] /\ panicked \in BOOLEAN
  BY Types DEF IInv, TypeOK, NoUnreg
<1>1. UNCHANGED <<phase, published, busQueue, hand, enqueued, delivered, settled>>
  BY DEF UnregisterBegin, Unregister, UnregisterMedia, UnregisterEnd, histories
<1>2. ASSUME NEW c \in Removable, UnregisterBegin(c) PROVE IInv'
  <2>1. CASE c \in workers
    <3>1. CloseQueues({c}, "text") /\ unreg' = [ch |-> c, step |-> "text"] /\ UNCHANGED <<registered, workers>>
      BY <1>2, <2>1 DEF UnregisterBegin
    <3>2. WithoutWorker'
      BY <3>1, Closed DEF IInv, WithoutWorker
    <3>3. unreg' \in [ch : workers', step : {"text", "media"}]
      BY <2>1, <3>1
    <3> QED BY <1>0, <1>1, <3>1, <3>2, <3>3, Closed, CalmStep DEF IInv
  <2>2. CASE c \notin workers
    <3>1. registered' = registered \ {c} /\ UNCHANGED <<panicked, lane, unreg, workers>>
      BY <1>2, <2>2 DEF UnregisterBegin
    <3>2. WithoutWorker' BY <3>1 DEF IInv, WithoutWorker
    <3>3. unreg' \in {NoUnreg} \cup [ch : workers', step : {"text", "media"}]
      BY <1>0, <3>1 DEF NoUnreg
    <3>4. workers' \subseteq registered' BY <1>0, <2>2, <3>1
    <3> QED BY <1>0, <1>1, <3>1, <3>2, <3>3, <3>4, CalmStep
  <2> QED BY <2>1, <2>2
<1>3. CASE UnregisterMedia
  <2>1. /\ unreg.step = "text" /\ Exited({unreg.ch}, "text") /\ CloseQueues({unreg.ch}, "media")
        /\ unreg' = [unreg EXCEPT !.step = "media"] /\ UNCHANGED <<registered, workers>>
    BY <1>3 DEF UnregisterMedia
  <2>2. unreg \in [ch : workers, step : {"text", "media"}]
    BY <1>0, <2>1
  <2>3. unreg' \in [ch : workers', step : {"text", "media"}] /\ unreg'.ch = unreg.ch
    BY <2>1, <2>2
  <2>4. <<unreg.ch, "text">> \in Lane /\ lane[<<unreg.ch, "text">>].pc = "exited"
    BY <1>0, <2>1, <2>2 DEF Exited, Lane, Kind
  <2>5. WithoutWorker'
    BY <2>1, <2>3, <2>4, Closed DEF IInv, WithoutWorker
  <2> QED BY <1>0, <1>1, <2>1, <2>3, <2>5, Closed, CalmStep DEF IInv
<1>4. CASE UnregisterEnd
  <2>1. /\ unreg.step = "media" /\ Exited({unreg.ch}, "media")
        /\ workers' = workers \ {unreg.ch} /\ registered' = registered \ {unreg.ch}
        /\ unreg' = NoUnreg /\ UNCHANGED <<panicked, lane>>
    BY <1>4 DEF UnregisterEnd
  <2>2. lane[<<unreg.ch, "text">>].pc = "exited" /\ lane[<<unreg.ch, "media">>].pc = "exited"
    BY <2>1 DEF Exited, IInv, WithoutWorker
  <2>3. \A d \in Lane : d[1] = unreg.ch => lane[d].pc = "exited"
    BY <2>2, Lanes DEF Kind
  <2>4. WithoutWorker'
    BY <1>0, <2>1, <2>3 DEF IInv, WithoutWorker
  <2>5. workers' \subseteq registered' BY <1>0, <2>1
  <2> QED BY <1>0, <1>1, <2>1, <2>4, <2>5, CalmStep
<1> QED BY <1>2, <1>3, <1>4 DEF Unregister

\* StartAll starts the workers of the channels that could be started.
LEMMA StartStep ==
  ASSUME IInv, StartAll
  PROVE  IInv'
<1>1. /\ phase = "new" /\ phase' = "running" /\ lockFree /\ published = {} /\ workers = {}
      /\ UNCHANGED <<panicked, published, busQueue, registered, unreg, enqueued, delivered, settled>>
      /\ hand' = [k \in Kind |-> [hand[k] EXCEPT !.pc = "idle"]]
      /\ hand \in [Kind -> HandState] /\ lane \in [Lane -> LaneState]
      /\ \A l \in Lane : lane[l].pc = "none" /\ lane[l].msg = None
      /\ \A k \in Kind : hand[k].pc = "off" /\ hand[k].msg = None
  BY Types DEF StartAll, IInv, NewIsEmpty, histories, Sending
<1>2. PICK started \in SUBSET registered :
        /\ workers' = started
        /\ lane' = [l \in Lane |-> IF l[1] \in started THEN [lane[l] EXCEPT !.pc = "recv"] ELSE lane[l]]
  BY DEF StartAll
<1>3. /\ hand' \in [Kind -> HandState]
      /\ \A k \in Kind : hand'[k].pc = "idle" /\ hand'[k].msg = hand[k].msg
  BY <1>1 DEF HandState
<1>4. /\ lane' \in [Lane -> LaneState]
      /\ \A d \in Lane : /\ lane'[d].queue = lane[d].queue /\ lane'[d].msg = lane[d].msg
                         /\ lane'[d].chunk = lane[d].chunk
                         /\ lane'[d].pc \in {"none", "recv"} /\ (lane'[d].pc = "recv" <=> d[1] \in workers')
  <2>1. \A d \in Lane : lane[d] \in [queue : Seq(Msg), shut : BOOLEAN, pc : {"none", "recv", "exited"},
                                     msg : {None}, chunk : {0}, attempt : {0}]
    BY <1>1 DEF LaneState
  <2>2. \A d \in Lane : [lane[d] EXCEPT !.pc = "recv"] \in LaneState
    BY <2>1 DEF LaneState
  <2>3. lane' \in [Lane -> LaneState] BY <1>1, <1>2, <2>2
  <2> QED BY <1>1, <1>2, <2>1, <2>3
<1>5. TypeOK'
  <2>1. unreg = NoUnreg BY <1>1 DEF lockFree
  <2>2. workers' \subseteq registered' BY <1>1, <1>2
  <2> QED BY <1>1, <1>3, <1>4, <2>1, <2>2 DEF IInv, TypeOK, HandState, LaneState, Phase
<1>6. BusOnce' /\ HandOnce'
  BY <1>1, <1>3 DEF IInv, BusOnce, HandOnce
<1>7. ASSUME NEW d \in Lane PROVE LaneInv(d)'
  <2>1. d[2] \in Kind /\ LaneOnce(d) BY Lanes DEF IInv
  <2>2. LaneOnce(d)' BY <1>1, <1>3, <2>1 DEF LaneOnce
  <2>3. lane'[d].pc \in Sending <=> lane[d].pc \in Sending
    BY <1>1, <1>4 DEF Sending
  <2> QED BY <1>1, <1>4, <2>2, <2>3, LanesKept DEF IInv, LaneInv, histories
<1>8. NewIsEmpty' /\ NothingLostWhileRunning'
  BY <1>1 DEF NewIsEmpty, NothingLostWhileRunning
<1>9. Started' /\ WithoutWorker'
  <2>1. unreg.step # "media" BY <1>1 DEF lockFree, NoUnreg
  <2>2. \A l \in Lane : lane'[l].pc = "none" => enqueued'[l] = <<>>
    BY <1>1 DEF IInv, Started
  <2> QED BY <1>1, <1>3, <1>4, <2>1, <2>2 DEF Started, WithoutWorker, LaneOf
<1> QED BY <1>5, <1>6, <1>7, <1>8, <1>9 DEF IInv, LaneInv

\* Every step keeps the invariant.
LEMMA Step == IInv /\ [Next]_vars => IInv'
<1> SUFFICES ASSUME IInv, [Next]_vars PROVE IInv'
  OBVIOUS
<1>1. CASE UNCHANGED vars
  <2>1. TypeOK' /\ BusOnce' /\ HandOnce'
    BY <1>1 DEF vars, IInv, TypeOK, BusOnce, HandOnce
  <2>2. ASSUME NEW l \in Lane PROVE LaneInv(l)'
    BY <1>1, OtherLanes DEF vars, IInv, LaneInv
  <2>3. NewIsEmpty' /\ Started' /\ WithoutWorker' /\ NothingLostWhileRunning'
    BY <1>1 DEF vars, IInv, NewIsEmpty, Started, WithoutWorker, NothingLostWhileRunning, cancelled, LaneOf
  <2> QED BY <2>1, <2>2, <2>3 DEF IInv, LaneInv
<1>2. CASE Next
  BY <1>2, PublishStep, SubscribeStep, HandStep, EnqueueStep, RecvStep, ExitStep, SendStep,
     StopSteps, UnregisterSteps, StartStep DEF Next, Dispatch, Work
<1> QED BY <1>1, <1>2

LEMMA InitIInv == Init => IInv
<1> SUFFICES ASSUME Init PROVE IInv
  OBVIOUS
<1>1. /\ phase = "new" /\ panicked = FALSE /\ published = {} /\ workers = {} /\ unreg = NoUnreg
      /\ registered = Channel /\ settled = {}
      /\ \A k \in Kind : busQueue[k] = <<>> /\ hand[k].pc = "off" /\ hand[k].msg = None
      /\ \A l \in Lane : /\ lane[l].queue = <<>> /\ lane[l].pc = "none" /\ lane[l].msg = None
                         /\ enqueued[l] = <<>> /\ delivered[l] = <<>>
  BY DEF Init, NoWorker
<1>2. TypeOK
  <2>1. /\ busQueue \in [Kind -> Seq(Msg)] /\ enqueued \in [Lane -> Seq(Msg)]
        /\ delivered \in [Lane -> Seq(Msg \X Nat)]
    BY DEF Init
  <2>2. hand \in [Kind -> HandState] BY DEF Init, HandState
  <2>3. NoWorker \in LaneState BY DEF NoWorker, LaneState
  <2>4. lane \in [Lane -> LaneState] BY <2>3 DEF Init
  <2>5. \A l \in Lane : Len(lane[l].queue) <= QueueSize BY <1>1, BoundAssumption
  <2> QED BY <1>1, <2>1, <2>2, <2>4, <2>5 DEF TypeOK, HandState, LaneState, Phase
<1>3. BusOnce /\ HandOnce
  BY <1>1 DEF BusOnce, HandOnce
<1>4. ASSUME NEW l \in Lane PROVE LaneOnce(l) /\ QueueIsTail(l) /\ DeliveredTaken(l) /\ InOrder(l)
  <2>1. Taken(l) = 0 BY <1>1 DEF Taken
  <2> QED BY <1>1, <2>1 DEF LaneOnce, QueueIsTail, DeliveredTaken, InOrder, Sending
<1>5. NewIsEmpty /\ NothingLostWhileRunning
  BY <1>1 DEF NewIsEmpty, NothingLostWhileRunning
<1>6. Started /\ WithoutWorker
  BY <1>1 DEF Started, WithoutWorker, NoUnreg
<1> QED BY <1>2, <1>3, <1>4, <1>5, <1>6 DEF IInv

----------------------------------------------------------------------------
(* The theorems                                                            *)

\* In a lane that takes each message once, Rank is the position of the message.
LEMMA RankIs ==
  ASSUME NEW l \in Lane, LaneOnce(l), NEW i \in 1..Len(enqueued[l])
  PROVE  Rank(l, enqueued[l][i]) = i
<1>1. \A j \in 1..Len(enqueued[l]) : enqueued[l][j] = enqueued[l][i] <=> j = i
  BY DEF LaneOnce
<1> QED BY <1>1 DEF Rank

\* The manager's maps, queues and goroutines hold values of their types, and no worker's
\* queue exceeds its capacity, for any channels, messages and bounds.
THEOREM TypeCorrect == Spec => []TypeOK
<1>1. IInv => TypeOK BY DEF IInv
<1> QED BY InitIInv, Step, <1>1, PTL DEF Spec

\* Every channel sees the chunks of its messages in the order the dispatchers enqueued
\* them, each at most once, whatever is retried, canceled, removed or closed.
THEOREM Ordered == Spec => []DeliveredInOrder
<1>1. IInv => DeliveredInOrder
  <2> SUFFICES ASSUME IInv, NEW l \in Lane, NEW i \in 1..Len(delivered[l]), NEW j \in 1..Len(delivered[l]), i < j
               PROVE  \/ Rank(l, delivered[l][i][1]) < Rank(l, delivered[l][j][1])
                      \/ delivered[l][i][1] = delivered[l][j][1] /\ delivered[l][i][2] < delivered[l][j][2]
    BY DEF DeliveredInOrder
  <2>1. PICK e \in Nat, w \in Nat : e = Len(enqueued[l]) /\ w = Len(lane[l].queue)
    <3>1. enqueued[l] \in Seq(Msg) /\ lane[l].queue \in Seq(Msg) BY Types DEF IInv, TypeOK
    <3> QED BY ONLY <3>1
  <2>2. w <= e /\ Taken(l) = e - w BY <2>1 DEF IInv, QueueIsTail, Taken
  <2>3. \A a \in 1..Taken(l) : a \in 1..Len(enqueued[l]) BY <2>1, <2>2
  <2>4. PICK a \in 1..Len(enqueued[l]) : enqueued[l][a] = delivered[l][i][1]
    BY <2>3 DEF IInv, DeliveredTaken
  <2>5. PICK b \in 1..Len(enqueued[l]) : enqueued[l][b] = delivered[l][j][1]
    BY <2>3 DEF IInv, DeliveredTaken
  <2>6. Rank(l, delivered[l][i][1]) = a /\ Rank(l, delivered[l][j][1]) = b
    BY <2>4, <2>5, RankIs DEF IInv
  <2>7. a < b \/ (a = b /\ delivered[l][i][2] < delivered[l][j][2])
    BY <2>4, <2>5 DEF IInv, InOrder
  <2> QED BY <2>4, <2>5, <2>6, <2>7
<1> QED BY InitIInv, Step, <1>1, PTL DEF Spec

\* While the manager runs, a message published for a channel with a worker is on the bus,
\* in a dispatcher's hand, with the worker or settled: no step loses it.
THEOREM NothingLost == Spec => []NothingLostWhileRunning
<1>1. IInv => NothingLostWhileRunning BY DEF IInv
<1> QED BY InitIInv, Step, <1>1, PTL DEF Spec

\* When UnregisterChannel has removed a channel, all that its queues accepted is settled.
THEOREM Drained == Spec => []UnregisterDrains
<1>1. IInv => UnregisterDrains
  <2> SUFFICES ASSUME IInv, NEW l \in Lane, ~cancelled, ~panicked, l[1] \notin registered
               PROVE  \A i \in 1..Len(enqueued[l]) : enqueued[l][i] \in settled
    BY DEF UnregisterDrains
  <2>1. l[1] \notin workers BY DEF IInv, TypeOK
  <2>2. CASE lane[l].pc = "none"
    <3>1. enqueued[l] = <<>> BY <2>2 DEF IInv, Started
    <3> QED BY <3>1
  <2>3. CASE lane[l].pc = "exited"
    <3>1. lane[l].queue = <<>> BY <2>3 DEF IInv, Started
    <3>2. Len(enqueued[l]) \in Nat BY DEF IInv, TypeOK
    <3>3. Taken(l) = Len(enqueued[l]) BY <3>1, <3>2 DEF Taken
    <3> QED BY <2>3, <3>3 DEF IInv, QueueIsTail, Sending
  <2> QED BY <2>1, <2>2, <2>3 DEF IInv, WithoutWorker
<1> QED BY InitIInv, Step, <1>1, PTL DEF Spec

----------------------------------------------------------------------------
(* The queues                                                              *)

\* The first messages of a sequence, and one more of them.
LEMMA Firsts ==
  ASSUME NEW S, NEW s \in Seq(S), NEW n \in 0..Len(s)
  PROVE  /\ SubSeq(s, 1, n) \in Seq(S) /\ Len(SubSeq(s, 1, n)) = n
         /\ \A i \in 1..n : SubSeq(s, 1, n)[i] = s[i]
         /\ \A x \in S : SubSeq(Append(s, x), 1, n) = SubSeq(s, 1, n)
         /\ n < Len(s) => SubSeq(s, 1, n + 1) = Append(SubSeq(s, 1, n), s[n + 1])
<1>0. PICK e \in Nat : e = Len(s) /\ n \in Nat /\ n <= e
  OBVIOUS
<1>1. /\ SubSeq(s, 1, n) = [i \in 1..n |-> s[i]]
      /\ \A i \in 1..n : i \in 1..Len(s) /\ s[i] \in S
  BY <1>0
<1>2. SubSeq(s, 1, n) \in Seq(S) /\ Len(SubSeq(s, 1, n)) = n /\ \A i \in 1..n : SubSeq(s, 1, n)[i] = s[i]
  BY <1>0, <1>1
<1>3. ASSUME NEW x \in S PROVE SubSeq(Append(s, x), 1, n) = SubSeq(s, 1, n)
  <2>1. \A i \in 1..n : Append(s, x)[i] = s[i]
    BY <1>0, <1>1, Appended
  <2>2. SubSeq(Append(s, x), 1, n) = [i \in 1..n |-> Append(s, x)[i]]
    BY <1>0
  <2> QED BY <1>1, <2>1, <2>2
<1>4. ASSUME n < Len(s) PROVE SubSeq(s, 1, n + 1) = Append(SubSeq(s, 1, n), s[n + 1])
  <2>1. n + 1 \in 1..Len(s) /\ s[n + 1] \in S
    BY <1>0, <1>4
  <2>2. SubSeq(s, 1, n + 1) = [i \in 1..(n + 1) |-> s[i]]
    BY <1>0, <2>1
  <2>3. Append(SubSeq(s, 1, n), s[n + 1]) = [i \in 1..(n + 1) |-> IF i = n + 1 THEN s[n + 1] ELSE SubSeq(s, 1, n)[i]]
    BY <1>0, <1>2
  <2>4. \A i \in 1..(n + 1) : s[i] = IF i = n + 1 THEN s[n + 1] ELSE SubSeq(s, 1, n)[i]
    BY <1>0, <1>2
  <2> QED BY <2>2, <2>3, <2>4
<1> QED BY <1>2, <1>3, <1>4

\* A step that neither fills nor empties a queue does nothing to the queues.
LEMMA QueuesKept ==
  ASSUME enqueued' = enqueued, \A l \in Lane : lane'[l].queue = lane[l].queue
  PROVE  UNCHANGED Queues!absVars
<1>1. [l \in Lane |-> lane[l].queue]' = [l \in Lane |-> lane[l].queue]
  OBVIOUS
<1>2. taken' = taken
  BY DEF taken
<1> QED BY <1>1, <1>2 DEF Queues!absVars

\* The message a dispatcher enqueues goes to the end of a queue that has room.
LEMMA EnqueuePuts ==
  ASSUME IInv, NEW k \in Kind, Enqueue(k)
  PROVE  [Queues!AbsNext]_(Queues!absVars)
<1>0. PICK m, q : m = hand[k].msg /\ q = LaneOf(m)
  OBVIOUS
<1>1. /\ m \in Msg /\ q \in Lane
      /\ \A l \in Lane : lane[l].queue \in Seq(Msg) /\ enqueued[l] \in Seq(Msg)
      /\ lane \in [Lane -> LaneState] /\ enqueued \in [Lane -> Seq(Msg)]
  <2>1. hand[k].pc = "enqueue" /\ m \in Msg
    BY <1>0, Types DEF IInv, Enqueue
  <2>2. ChannelOf[m] \in Channel
    BY <1>0, <2>1 DEF IInv, HandOnce
  <2> QED BY <1>0, <2>1, <2>2, Lanes, Types DEF IInv, TypeOK
<1>2. CASE lane[q].shut
  <2>1. UNCHANGED <<lane, enqueued>>
    BY <1>0, <1>2 DEF Enqueue
  <2> QED BY <2>1, QueuesKept
<1>3. CASE ~lane[q].shut
  <2>1. /\ lane' = [lane EXCEPT ![q].queue = Append(@, m)]
        /\ enqueued' = [enqueued EXCEPT ![q] = Append(@, m)]
        /\ Len(lane[q].queue) < QueueSize
    BY <1>0, <1>3 DEF Enqueue
  <2>2. /\ \A l \in Lane \ {q} : lane'[l].queue = lane[l].queue /\ enqueued'[l] = enqueued[l]
        /\ lane'[q].queue = Append(lane[q].queue, m) /\ enqueued'[q] = Append(enqueued[q], m)
    BY <1>1, <2>1 DEF LaneState
  <2>3. [l \in Lane |-> lane[l].queue]' = [[l \in Lane |-> lane[l].queue] EXCEPT ![q] = Append(@, m)]
    BY <1>1, <2>2
  <2>4. taken'[q] = taken[q]
    <3>1. PICK e \in Nat, w \in Nat : e = Len(enqueued[q]) /\ w = Len(lane[q].queue) /\ w <= e
      BY <1>1 DEF IInv, QueueIsTail
    <3>2. Len(enqueued'[q]) = e + 1 /\ Len(lane'[q].queue) = w + 1
      BY <1>1, <2>2, <3>1, Appended
    <3>3. PICK n \in Nat : n = e - w /\ (e + 1) - (w + 1) = n /\ n \in 0..e
      <4>1. e \in Nat /\ w \in Nat /\ w <= e BY <3>1
      <4> QED BY ONLY <4>1
    <3>4. taken'[q] = SubSeq(Append(enqueued[q], m), 1, n) /\ taken[q] = SubSeq(enqueued[q], 1, n)
      BY <1>1, <2>2, <3>1, <3>2, <3>3 DEF taken
    <3>5. SubSeq(Append(enqueued[q], m), 1, n) = SubSeq(enqueued[q], 1, n)
      <4>1. enqueued[q] \in Seq(Msg) /\ n \in 0..Len(enqueued[q]) /\ m \in Msg
        BY <1>1, <3>1, <3>3
      <4> QED BY ONLY <4>1, Firsts
    <3> QED BY <3>4, <3>5
  <2>5. taken' = taken
    BY <1>1, <2>2, <2>4 DEF taken
  <2>6. Queues!Put(q)
    BY <1>1, <2>1, <2>3, <2>5 DEF Queues!Put
  <2> QED BY <1>1, <2>6 DEF Queues!AbsNext
<1> QED BY <1>2, <1>3

\* A worker receives the head of its queue.
LEMMA RecvGets ==
  ASSUME IInv, NEW l \in Lane, WorkerRecv(l)
  PROVE  Queues!AbsNext
<1>1. /\ \A d \in Lane : lane[d].queue \in Seq(Msg) /\ enqueued[d] \in Seq(Msg)
      /\ lane \in [Lane -> LaneState] /\ lane[l].queue # <<>> /\ enqueued' = enqueued
  BY Types DEF IInv, TypeOK, WorkerRecv, workerUnchanged
<1>2. /\ \A d \in Lane \ {l} : lane'[d].queue = lane[d].queue
      /\ lane'[l].queue = Tail(lane[l].queue)
  BY <1>1 DEF WorkerRecv, LaneState
<1>3. [d \in Lane |-> lane[d].queue]' = [[d \in Lane |-> lane[d].queue] EXCEPT ![l] = Tail(@)]
  BY <1>1, <1>2
<1>4. taken'[l] = Append(taken[l], Head(lane[l].queue))
  <2>1. PICK e \in Nat, w \in Nat :
          e = Len(enqueued[l]) /\ w = Len(lane[l].queue) /\ w <= e /\ w # 0 /\ Len(lane'[l].queue) = w - 1
    BY <1>1, <1>2, TailLeaves DEF IInv, QueueIsTail
  <2>2. PICK n \in Nat : n = e - w /\ e - (w - 1) = n + 1 /\ n \in 0..e /\ n < e
    <3>1. e \in Nat /\ w \in Nat /\ w <= e /\ w # 0 BY <2>1
    <3> QED BY ONLY <3>1
  <2>3. taken[l] = SubSeq(enqueued[l], 1, n) /\ taken'[l] = SubSeq(enqueued[l], 1, n + 1)
    BY <1>1, <2>1, <2>2 DEF taken
  <2>4. Head(lane[l].queue) = enqueued[l][n + 1]
    <3>1. Head(lane[l].queue) = lane[l].queue[1] /\ 1 \in 1..Len(lane[l].queue)
      BY <1>1, <2>1
    <3>2. Taken(l) = n
      BY <2>1, <2>2 DEF Taken
    <3> QED BY <3>1, <3>2 DEF IInv, QueueIsTail
  <2>5. SubSeq(enqueued[l], 1, n + 1) = Append(SubSeq(enqueued[l], 1, n), enqueued[l][n + 1])
    <3>1. enqueued[l] \in Seq(Msg) /\ n \in 0..Len(enqueued[l]) /\ n < Len(enqueued[l])
      BY <1>1, <2>1, <2>2
    <3> QED BY ONLY <3>1, Firsts
  <2> QED BY <2>3, <2>4, <2>5
<1>5. taken' = [taken EXCEPT ![l] = Append(@, Head(lane[l].queue))]
  BY <1>1, <1>2, <1>4 DEF taken
<1>6. Queues!Get(l)
  BY <1>1, <1>3, <1>5 DEF Queues!Get
<1> QED BY <1>6 DEF Queues!AbsNext

\* Closing queues leaves what they hold.
LEMMA ClosingKeeps ==
  ASSUME TypeOK, NEW cs, NEW k, CloseQueues(cs, k)
  PROVE  \A l \in Lane : lane'[l].queue = lane[l].queue
BY Types DEF CloseQueues, LaneState

\* Every other step leaves the queues as they are.
LEMMA OthersKeep ==
  ASSUME IInv, Next, \A k \in Kind : ~Enqueue(k), \A l \in Lane : ~WorkerRecv(l)
  PROVE  UNCHANGED Queues!absVars
<1> USE DEF histories
<1>0. TypeOK /\ lane \in [Lane -> LaneState]
  BY Types DEF IInv
<1>1. CASE StartAll
  BY <1>0, <1>1, QueuesKept DEF StartAll, LaneState
<1>2. CASE Stop
  <2>1. CASE StopCloseText \/ StopCloseMedia
    BY <1>0, <2>1, ClosingKeeps, QueuesKept DEF StopCloseText, StopCloseMedia
  <2>2. CASE StopEnd BY <2>2, QueuesKept DEF StopEnd
  <2> QED BY <1>2, <2>1, <2>2 DEF Stop
<1>3. CASE Unregister
  <2>1. CASE UnregisterMedia BY <1>0, <2>1, ClosingKeeps, QueuesKept DEF UnregisterMedia
  <2>2. CASE UnregisterEnd BY <2>2, QueuesKept DEF UnregisterEnd
  <2> QED BY <1>3, <2>1, <2>2 DEF Unregister
<1>4. ASSUME NEW c \in Removable, UnregisterBegin(c) PROVE UNCHANGED Queues!absVars
  <2>1. CASE c \in workers BY <1>0, <1>4, <2>1, ClosingKeeps, QueuesKept DEF UnregisterBegin
  <2>2. CASE c \notin workers BY <1>4, <2>2, QueuesKept DEF UnregisterBegin
  <2> QED BY <2>1, <2>2
<1>5. ASSUME NEW l \in Lane, Work(l) PROVE UNCHANGED Queues!absVars
  <2>1. CASE WorkerExit(l)
    BY <1>0, <2>1, QueuesKept DEF WorkerExit, workerUnchanged, LaneState
  <2>2. CASE SendBegin(l) \/ RateWait(l) \/ Send(l) \/ Backoff(l)
    <3>1. workerUnchanged /\ \A d \in Lane : lane'[d].queue = lane[d].queue
      BY <1>0, <2>2, SendOutcome
    <3> QED BY <3>1, QueuesKept DEF workerUnchanged
  <2> QED BY <1>5, <2>1, <2>2 DEF Work
<1>6. CASE \/ Cancel \/ CloseBus \/ StopBegin
           \/ \E m \in Msg : Publish(m)
           \/ \E k \in Kind : Subscribe(k) \/ SubscribeEnd(k) \/ Lookup(k) \/ EnqueueCancel(k)
  <2>1. UNCHANGED <<lane, enqueued>>
    BY <1>6 DEF Cancel, CloseBus, StopBegin, Publish, Subscribe, SubscribeEnd, Lookup, EnqueueCancel
  <2> QED BY <2>1, QueuesKept
<1> QED BY <1>1, <1>2, <1>3, <1>4, <1>5, <1>6 DEF Next, Dispatch

\* The workers' queues keep what a bounded channel promises, whatever is canceled,
\* closed or removed: in order, within defaultChannelQueueSize, and out of them only
\* into the hands of the worker.
THEOREM QueuesImplemented == Spec => ImplementsQueues
<1>1. Init => Queues!AbsInit
  <2> SUFFICES ASSUME Init PROVE Queues!AbsInit
    OBVIOUS
  <2>1. [l \in Lane |-> lane[l].queue] = [l \in Lane |-> <<>>]
    BY DEF Init, NoWorker
  <2>2. taken = [l \in Lane |-> <<>>]
    <3>1. \A l \in Lane : enqueued[l] = <<>> /\ lane[l].queue = <<>>
      BY DEF Init, NoWorker
    <3>2. SubSeq(<<>>, 1, Len(<<>>) - Len(<<>>)) = <<>>
      OBVIOUS
    <3> QED BY <3>1, <3>2 DEF taken
  <2> QED BY <2>1, <2>2 DEF Queues!AbsInit
<1>2. IInv /\ [Next]_vars => [Queues!AbsNext]_(Queues!absVars)
  <2> SUFFICES ASSUME IInv, [Next]_vars PROVE [Queues!AbsNext]_(Queues!absVars)
    OBVIOUS
  <2>1. CASE UNCHANGED vars
    <3>1. lane' = lane /\ enqueued' = enqueued BY <2>1 DEF vars
    <3> QED BY <3>1, QueuesKept
  <2>2. CASE Next
    BY <2>2, EnqueuePuts, RecvGets, OthersKeep
  <2> QED BY <2>1, <2>2
<1> QED BY InitIInv, Step, <1>1, <1>2, PTL DEF Spec, ImplementsQueues, Queues!AbsSpec
=============================================================================
