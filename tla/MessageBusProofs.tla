-------------------------- MODULE MessageBusProofs --------------------------
(* Proofs about MessageBus for any number of queues, publishers, consumers *)
(* and messages and any buffer size: type correctness, which includes that *)
(* no buffer overflows, and that the bus implements bounded channels.      *)
EXTENDS MessageBus, SequenceTheorems, TLAPS

\* Queues are positive, so that 0 can stand for none.
LEMMA QueueType == Queue \subseteq Nat /\ 0 \notin Queue
BY QueueAssumption DEF Queue

\* The states Close moves through are states of Close.
LEMMA AfterQueueType == \A k \in Queue \cup {0} : AfterQueue(k) \in Closing
BY DEF AfterQueue, Closing

\* Every step keeps the types and the bound on the buffers.
LEMMA TypeStep == TypeOK /\ [Next]_vars => TypeOK'
<1> SUFFICES ASSUME TypeOK, [Next]_vars PROVE TypeOK'
  OBVIOUS
<1> USE QueueType, CapAssumption
<1> DEFINE PubType == [pc : {"idle"}, k : {0}, msg : {None}]
                        \cup [pc : {"select"}, k : Queue, msg : Msg]
<1>0. Idle \in PubType
  BY DEF Idle
<1>1. ASSUME NEW p \in Publisher, NEW k \in Queue, NEW m \in Msg, PublishBegin(p, k, m)
      PROVE  TypeOK'
  <2>1. pub' \in [Publisher -> PubType] /\ sent' \in SUBSET Msg
    BY <1>1 DEF PublishBegin, TypeOK
  <2> QED BY <1>1, <2>1 DEF PublishBegin, TypeOK
<1>2. ASSUME NEW p \in Publisher, PublishSend(p) PROVE TypeOK'
  <2>1. pub[p].k \in Queue /\ pub[p].msg \in Msg
    BY <1>2 DEF PublishSend, TypeOK
  <2>2. /\ queue' \in [Queue -> Seq(Msg)] /\ accepted' \in [Queue -> Seq(Msg)]
        /\ \A k \in Queue : Len(queue'[k]) <= Cap
    <3>1. queue[pub[p].k] \in Seq(Msg) /\ accepted[pub[p].k] \in Seq(Msg)
      BY <2>1 DEF TypeOK
    <3>2. /\ Append(queue[pub[p].k], pub[p].msg) \in Seq(Msg)
          /\ Append(accepted[pub[p].k], pub[p].msg) \in Seq(Msg)
          /\ Len(Append(queue[pub[p].k], pub[p].msg)) <= Cap
      BY <1>2, <2>1, <3>1 DEF PublishSend
    <3> QED BY <1>2, <2>1, <3>2 DEF PublishSend, TypeOK
  <2>3. pub' \in [Publisher -> PubType]
    BY <1>0, <1>2 DEF PublishSend, TypeOK
  <2> QED BY <1>2, <2>2, <2>3 DEF PublishSend, TypeOK
<1>3. ASSUME NEW p \in Publisher, PublishDone(p) \/ PublishCancel(p) PROVE TypeOK'
  <2>1. pub' \in [Publisher -> PubType]
    BY <1>0, <1>3 DEF PublishDone, PublishCancel, TypeOK
  <2> QED BY <1>3, <2>1 DEF PublishDone, PublishCancel, TypeOK
<1>4. ASSUME NEW c \in Consumer, NEW k \in Queue, ConsumeBegin(c, k) PROVE TypeOK'
  BY <1>4 DEF ConsumeBegin, TypeOK
<1>5. ASSUME NEW k \in Queue, queue[k] # <<>>,
             removed' = [removed EXCEPT ![k] = Append(@, Head(queue[k]))],
             queue' = [queue EXCEPT ![k] = Tail(@)]
      PROVE  /\ queue' \in [Queue -> Seq(Msg)] /\ removed' \in [Queue -> Seq(Msg)]
             /\ \A j \in Queue : Len(queue'[j]) <= Cap
             /\ [received EXCEPT ![k] = Append(@, Head(queue[k]))] \in [Queue -> Seq(Msg)]
  <2>1. queue[k] \in Seq(Msg) /\ Head(queue[k]) \in Msg /\ Tail(queue[k]) \in Seq(Msg)
    BY <1>5 DEF TypeOK
  <2>2. Len(Tail(queue[k])) <= Cap
    BY <1>5, <2>1 DEF TypeOK
  <2> QED BY <1>5, <2>1, <2>2 DEF TypeOK
<1>6. ASSUME NEW c \in Consumer, ConsumeRecv(c) PROVE TypeOK'
  <2>1. con[c] \in Queue
    BY <1>6 DEF ConsumeRecv, TypeOK
  <2>2. con' \in [Consumer -> Queue \cup {0}]
    BY <1>6 DEF ConsumeRecv, TypeOK
  <2>3. /\ queue' \in [Queue -> Seq(Msg)] /\ removed' \in [Queue -> Seq(Msg)]
        /\ \A j \in Queue : Len(queue'[j]) <= Cap
        /\ received' \in [Queue -> Seq(Msg)]
    BY <1>5, <1>6, <2>1 DEF ConsumeRecv
  <2> QED BY <1>6, <2>2, <2>3 DEF ConsumeRecv, TypeOK
<1>7. ASSUME NEW c \in Consumer, ConsumeDone(c) \/ ConsumeCancel(c) PROVE TypeOK'
  BY <1>7 DEF ConsumeDone, ConsumeCancel, TypeOK
<1>8. CASE CloseFlag
  BY <1>8 DEF CloseFlag, TypeOK, Closing
<1>9. CASE CloseDone
  BY <1>9, AfterQueueType DEF CloseDone, TypeOK
<1>10. CASE CloseDrain
  <2>1. closing.k \in Queue
    BY <1>10 DEF CloseDrain, TypeOK, Closing
  <2>2. CASE queue[closing.k] # <<>>
    BY <1>5, <1>10, <2>1, <2>2 DEF CloseDrain, TypeOK
  <2>3. CASE queue[closing.k] = <<>>
    BY <1>10, <2>1, <2>3, AfterQueueType DEF CloseDrain, TypeOK
  <2> QED BY <2>2, <2>3
<1>11. CASE UNCHANGED vars
  BY <1>11 DEF vars, TypeOK
<1> QED
  BY <1>1, <1>2, <1>3, <1>4, <1>6, <1>7, <1>8, <1>9, <1>10, <1>11 DEF Next

\* Type correctness of the bus; in particular no buffer holds more than Cap.
THEOREM TypeCorrect == Spec => []TypeOK
<1>1. Init => TypeOK
  BY CapAssumption, QueueType DEF Init, TypeOK, Closing, Idle
<1> QED BY <1>1, TypeStep, PTL DEF Spec

\* The bus implements bounded FIFO channels: Close and the races around it are,
\* to a user of the queues, discards after the bus is shut.
THEOREM Refinement == Spec => ImplementsChannels
<1>1. Init => Channels!AbsInit
  BY DEF Init, Channels!AbsInit, closed
<1>2. TypeOK /\ [Next]_vars => [Channels!AbsNext]_(Channels!absVars)
  <2> SUFFICES ASSUME TypeOK, [Next]_vars
               PROVE  [Channels!AbsNext]_(Channels!absVars)
    OBVIOUS
  <2> USE QueueType DEF Channels!absVars
  <2>1. ASSUME NEW p \in Publisher, PublishSend(p) PROVE Channels!AbsNext
    <3>1. pub[p].k \in Queue /\ pub[p].msg \in Msg
      BY <2>1 DEF PublishSend, TypeOK
    <3>2. Channels!Put(pub[p].k)
      BY <2>1, <3>1 DEF PublishSend, Channels!Put, closed
    <3> QED BY <3>1, <3>2 DEF Channels!AbsNext
  <2>2. ASSUME NEW c \in Consumer, ConsumeRecv(c) PROVE Channels!AbsNext
    <3>1. con[c] \in Queue
      BY <2>2 DEF ConsumeRecv, TypeOK
    <3>2. Channels!Get(con[c])
      BY <2>2, <3>1 DEF ConsumeRecv, Channels!Get, closed
    <3> QED BY <3>1, <3>2 DEF Channels!AbsNext
  <2>3. CASE CloseDrain
    <3>1. closing.k \in Queue /\ closed = TRUE
      BY <2>3 DEF CloseDrain, TypeOK, Closing, closed
    <3>2. CASE queue[closing.k] # <<>>
      <4>1. Channels!Discard(closing.k)
        BY <2>3, <3>1, <3>2 DEF CloseDrain, Channels!Discard, closed
      <4> QED BY <3>1, <4>1 DEF Channels!AbsNext
    <3>3. CASE queue[closing.k] = <<>>
      <4>1. closed' = TRUE
        BY <2>3, <3>1, <3>3 DEF CloseDrain, AfterQueue, closed
      <4> QED BY <2>3, <3>1, <3>3, <4>1 DEF CloseDrain
    <3> QED BY <3>2, <3>3
  <2>4. CASE CloseFlag
    <3>1. closed' = TRUE
      BY <2>4 DEF CloseFlag, closed
    <3> QED BY <2>4, <3>1 DEF CloseFlag, Channels!AbsNext, Channels!Shut
  <2>5. CASE CloseDone
    <3>1. closed = TRUE /\ closed' = TRUE
      BY <2>5 DEF CloseDone, AfterQueue, closed
    <3> QED BY <2>5, <3>1 DEF CloseDone
  <2>6. ASSUME UNCHANGED <<queue, received, closing>>
        PROVE  [Channels!AbsNext]_(Channels!absVars)
    BY <2>6 DEF closed
  <2>7. ASSUME NEW p \in Publisher, NEW k \in Queue, NEW m \in Msg, PublishBegin(p, k, m)
        PROVE  UNCHANGED <<queue, received, closing>>
    BY <2>7 DEF PublishBegin
  <2>8. ASSUME NEW p \in Publisher, PublishDone(p) \/ PublishCancel(p)
        PROVE  UNCHANGED <<queue, received, closing>>
    BY <2>8 DEF PublishDone, PublishCancel
  <2>9. ASSUME NEW c \in Consumer,
               ConsumeDone(c) \/ ConsumeCancel(c) \/ \E k \in Queue : ConsumeBegin(c, k)
        PROVE  UNCHANGED <<queue, received, closing>>
    BY <2>9 DEF ConsumeDone, ConsumeCancel, ConsumeBegin
  <2>10. CASE UNCHANGED vars
    BY <2>6, <2>10 DEF vars
  <2> QED
    BY <2>1, <2>2, <2>3, <2>4, <2>5, <2>6, <2>7, <2>8, <2>9, <2>10 DEF Next
<1> QED BY <1>1, <1>2, TypeCorrect, PTL DEF Spec, ImplementsChannels, Channels!AbsSpec

----------------------------------------------------------------------------
\* A message appended to the second of two sequences is appended to both.
LEMMA AppendToConcat ==
    ASSUME NEW s \in Seq(Msg), NEW q \in Seq(Msg), NEW m \in Msg
    PROVE  s \o Append(q, m) = Append(s \o q, m)
<1>1. <<m>> \in Seq(Msg) /\ s \o q \in Seq(Msg)
  BY ConcatProperties
<1>2. Append(q, m) = q \o <<m>> /\ Append(s \o q, m) = (s \o q) \o <<m>>
  BY <1>1, AppendIsConcat
<1> QED BY <1>1, <1>2, ConcatAssociative

\* Moving the head of the second sequence to the end of the first changes nothing.
LEMMA MoveHead ==
    ASSUME NEW s \in Seq(Msg), NEW q \in Seq(Msg), q # <<>>
    PROVE  Append(s, Head(q)) \o Tail(q) = s \o q
<1>1. Head(q) \in Msg /\ Tail(q) \in Seq(Msg) /\ <<Head(q)>> \in Seq(Msg)
  BY HeadTailProperties
<1>2. <<Head(q)>> \o Tail(q) = q
  BY <1>1, HeadTailProperties, ConcatProperties, SeqEqual
<1>3. Append(s, Head(q)) = s \o <<Head(q)>>
  BY <1>1, AppendIsConcat
<1> QED BY <1>1, <1>2, <1>3, ConcatAssociative

\* While the bus is open, consumers are the only ones to take messages.
OnlyReceived == closed = FALSE => removed = received

\* The bus hands on what it accepts in order and exactly once, and as long as it
\* is open hands on all of it.
THEOREM OrderHolds == Spec => [](InOrder /\ NothingLostWhileOpen)
<1>1. Init => InOrder /\ OnlyReceived
  <2> SUFFICES ASSUME Init PROVE InOrder /\ OnlyReceived
    OBVIOUS
  <2>1. <<>> \o <<>> = <<>>
    BY ConcatEmptySeq
  <2> QED BY <2>1 DEF Init, InOrder, OnlyReceived
<1>2. TypeOK /\ InOrder /\ OnlyReceived /\ [Next]_vars => (InOrder /\ OnlyReceived)'
  <2> SUFFICES ASSUME TypeOK, InOrder, OnlyReceived, [Next]_vars
               PROVE  InOrder' /\ OnlyReceived'
    OBVIOUS
  <2> USE QueueType
  <2>0. \A k \in Queue : queue[k] \in Seq(Msg) /\ removed[k] \in Seq(Msg)
    BY DEF TypeOK
  <2>1. ASSUME NEW p \in Publisher, PublishSend(p) PROVE InOrder' /\ OnlyReceived'
    <3>1. pub[p].k \in Queue /\ pub[p].msg \in Msg
      BY <2>1 DEF PublishSend, TypeOK
    <3>2. ASSUME NEW k \in Queue PROVE accepted'[k] = removed'[k] \o queue'[k]
      <4>1. CASE k = pub[p].k
        <5>1. accepted'[k] = Append(accepted[k], pub[p].msg) /\ removed'[k] = removed[k]
          BY <2>1, <4>1 DEF PublishSend, TypeOK
        <5>2. queue'[k] = Append(queue[k], pub[p].msg)
          BY <2>1, <4>1 DEF PublishSend, TypeOK
        <5>3. accepted[k] = removed[k] \o queue[k]
          BY DEF InOrder
        <5>4. Append(removed[k] \o queue[k], pub[p].msg) = removed[k] \o Append(queue[k], pub[p].msg)
          BY <2>0, <3>1, AppendToConcat
        <5> QED BY <5>1, <5>2, <5>3, <5>4
      <4>2. CASE k # pub[p].k
        BY <2>1, <4>2 DEF PublishSend, TypeOK, InOrder
      <4> QED BY <4>1, <4>2
    <3>3. OnlyReceived'
      BY <2>1 DEF PublishSend, OnlyReceived, closed
    <3> QED BY <3>2, <3>3 DEF InOrder
  <2>2. ASSUME NEW k \in Queue, queue[k] # <<>>, accepted' = accepted,
               removed' = [removed EXCEPT ![k] = Append(@, Head(queue[k]))],
               queue' = [queue EXCEPT ![k] = Tail(@)]
        PROVE  InOrder'
    <3>1. ASSUME NEW j \in Queue PROVE accepted'[j] = removed'[j] \o queue'[j]
      <4>1. CASE j = k
        <5>1. removed'[j] = Append(removed[j], Head(queue[j])) /\ queue'[j] = Tail(queue[j])
          BY <2>2, <4>1 DEF TypeOK
        <5>2. queue[j] # <<>> /\ accepted'[j] = removed[j] \o queue[j]
          BY <2>2, <4>1 DEF InOrder
        <5>3. Append(removed[j], Head(queue[j])) \o Tail(queue[j]) = removed[j] \o queue[j]
          BY <2>0, <5>2, MoveHead
        <5> QED BY <5>1, <5>2, <5>3
      <4>2. CASE j # k
        BY <2>2, <4>2 DEF TypeOK, InOrder
      <4> QED BY <4>1, <4>2
    <3> QED BY <3>1 DEF InOrder
  <2>3. ASSUME NEW c \in Consumer, ConsumeRecv(c) PROVE InOrder' /\ OnlyReceived'
    <3>1. con[c] \in Queue
      BY <2>3 DEF ConsumeRecv, TypeOK
    <3>2. InOrder'
      BY <2>2, <2>3, <3>1 DEF ConsumeRecv
    <3>3. OnlyReceived'
      BY <2>3 DEF ConsumeRecv, OnlyReceived, closed
    <3> QED BY <3>2, <3>3
  <2>4. CASE CloseDrain
    <3>1. closing.k \in Queue
      BY <2>4 DEF CloseDrain, TypeOK, Closing
    <3>2. InOrder'
      BY <2>2, <2>4, <3>1 DEF CloseDrain, InOrder
    <3>3. closed' = TRUE
      BY <2>4 DEF CloseDrain, AfterQueue, closed
    <3> QED BY <3>2, <3>3 DEF OnlyReceived
  <2>5. CASE CloseFlag \/ CloseDone
    <3>1. UNCHANGED <<queue, accepted, received, removed>> /\ closed' = TRUE
      BY <2>5 DEF CloseFlag, CloseDone, AfterQueue, closed
    <3> QED BY <3>1 DEF InOrder, OnlyReceived
  <2>6. ASSUME UNCHANGED <<queue, closing, accepted, received, removed>>
        PROVE  InOrder' /\ OnlyReceived'
    BY <2>6 DEF InOrder, OnlyReceived, closed
  <2>7. ASSUME NEW p \in Publisher, NEW k \in Queue, NEW m \in Msg, PublishBegin(p, k, m)
        PROVE  UNCHANGED <<queue, closing, accepted, received, removed>>
    BY <2>7 DEF PublishBegin
  <2>8. ASSUME NEW p \in Publisher, PublishDone(p) \/ PublishCancel(p)
        PROVE  UNCHANGED <<queue, closing, accepted, received, removed>>
    BY <2>8 DEF PublishDone, PublishCancel
  <2>9. ASSUME NEW c \in Consumer,
               ConsumeDone(c) \/ ConsumeCancel(c) \/ \E k \in Queue : ConsumeBegin(c, k)
        PROVE  UNCHANGED <<queue, closing, accepted, received, removed>>
    BY <2>9 DEF ConsumeDone, ConsumeCancel, ConsumeBegin
  <2>10. CASE UNCHANGED vars
    BY <2>6, <2>10 DEF vars
  <2> QED
    BY <2>1, <2>3, <2>4, <2>5, <2>6, <2>7, <2>8, <2>9, <2>10 DEF Next
<1>3. InOrder /\ OnlyReceived => InOrder /\ NothingLostWhileOpen
  BY DEF InOrder, OnlyReceived, NothingLostWhileOpen, closed
<1> QED BY <1>1, <1>2, <1>3, TypeCorrect, PTL DEF Spec
=============================================================================
