----------------------------- MODULE ServicesProofs -----------------------------
(***************************************************************************)
(* Proofs about the services in the background, for any workers, servers,  *)
(* callers, users and bounds: the inductive invariant of each service, the *)
(* properties that follow, and that the types hold as well where           *)
(* MCServices puts the services side by side.                              *)
(***************************************************************************)
EXTENDS MCServices, FiniteSetTheorems, NaturalsInduction, WellFoundedInduction, TLAPS

(***************************************************************************)
(* Workers                                                                 *)
(***************************************************************************)

\* A message can be delivered once more while it is ready.
DeliverableOnce ==
    \A m \in Message :
        /\ stream[m] = "unpublished" => delivered[m] = 0
        /\ stream[m] = "ready" => delivered[m] < MaxDeliver

\* Loops go only while their worker runs: Run starts them, and waits for their end.
LoopsWithinRun ==
    \A l \in Loop : loop[l].step # "off" => worker[WorkerOf[l]].run = "running"

\* A loop that acknowledges, processes or answers has a message, and an answer is published
\* after its message was processed.
AtHand ==
    \A l \in Loop :
        /\ loop[l].step \in {"ack", "process", "publish"} => loop[l].msg \in Message
        /\ loop[l].step = "publish" => loop[l].msg \in handled

WInv == WorkersTypeOK /\ DeliverableOnce /\ LoopsWithinRun /\ AtHand /\ TakenIsProcessed

LEMMA InitWInv == WorkersInit => WInv
  BY WorkersAssumption
  DEF WorkersInit, WInv, WorkersTypeOK, DeliverableOnce, LoopsWithinRun, AtHand,
      TakenIsProcessed, NewWorker, NotLooping

\* The steps of the stream: no loop and no worker takes part.
LEMMA WorkersStreamSteps ==
  ASSUME WInv, NEW m \in Message, PublishMessage(m) \/ Redeliver(m)
  PROVE  WInv'
<1>1. stream' \in [Message -> {"unpublished", "ready", "pending", "gone", "dead"}]
  BY DEF WInv, WorkersTypeOK, PublishMessage, Redeliver
<1>2. /\ UNCHANGED <<delivered, worker, loop, busOpen, restarts, handled, cutShort>>
      /\ \A n \in Message \ {m} : stream'[n] = stream[n]
      /\ stream'[m] \in {"ready", "dead"}
      /\ stream'[m] = "ready" => delivered[m] < MaxDeliver
  BY WorkersAssumption DEF WInv, WorkersTypeOK, DeliverableOnce, PublishMessage, Redeliver, historyVars
<1>3. WorkersTypeOK'
  BY <1>1, <1>2 DEF WInv, WorkersTypeOK
<1>4. DeliverableOnce'
  BY <1>2 DEF WInv, DeliverableOnce
<1>5. LoopsWithinRun' /\ AtHand'
  BY <1>2 DEF WInv, LoopsWithinRun, AtHand
<1>6. TakenIsProcessed'
  BY <1>2 DEF WInv, TakenIsProcessed, InHand
<1> QED BY <1>3, <1>4, <1>5, <1>6 DEF WInv

\* Run and Stop: loops begin where there were none.
LEMMA WorkersRunSteps ==
  ASSUME WInv, NEW w \in Worker,
         RunBegin(w) \/ RunLoops(w) \/ RunEnd(w) \/ StopWorker(w)
  PROVE  WInv'
<1>1. UNCHANGED <<stream, delivered, busOpen, restarts, handled, cutShort>>
  BY DEF RunBegin, RunLoops, RunEnd, StopWorker, streamVars, historyVars
<1>2. worker' \in [Worker -> [run : {"new", "begun", "running", "ended"},
                              stopped : BOOLEAN, canceled : BOOLEAN]]
  <2>1. CASE RunBegin(w) BY <2>1 DEF WInv, WorkersTypeOK, RunBegin
  <2>2. CASE RunLoops(w) BY <2>2 DEF WInv, WorkersTypeOK, RunLoops
  <2>3. CASE RunEnd(w) BY <2>3 DEF WInv, WorkersTypeOK, RunEnd
  <2>4. CASE StopWorker(w)
    <3>1. PICK b : b = (worker[w].run \in {"running", "ended"})
      OBVIOUS
    <3>2. b \in BOOLEAN
      BY <3>1
    <3>3. worker' = [worker EXCEPT ![w].stopped = TRUE, ![w].canceled = b]
      BY <2>4, <3>1 DEF StopWorker
    <3> QED BY <3>2, <3>3 DEF WInv, WorkersTypeOK
  <2> QED BY <2>1, <2>2, <2>3, <2>4
<1>3. /\ loop' \in [Loop -> [step : {"off", "consume", "fetch", "ack", "process", "publish"},
                             msg : Message \cup {NoMessage}]]
      /\ \A l \in Loop :
            \/ loop'[l] = loop[l]
            \/ loop[l].step = "off" /\ loop'[l].step = "consume" /\ worker'[WorkerOf[l]].run = "running"
  <2>1. CASE RunLoops(w)
    BY <2>1, WorkersAssumption DEF WInv, WorkersTypeOK, LoopsWithinRun, RunLoops
  <2>2. CASE RunBegin(w) \/ RunEnd(w) \/ StopWorker(w)
    BY <2>2 DEF WInv, WorkersTypeOK, RunBegin, RunEnd, StopWorker
  <2> QED BY <2>1, <2>2
<1>4. WorkersTypeOK'
  BY <1>1, <1>2, <1>3 DEF WInv, WorkersTypeOK
<1>5. DeliverableOnce' /\ AtHand'
  BY <1>1, <1>3 DEF WInv, DeliverableOnce, AtHand
<1>6. LoopsWithinRun'
  <2> SUFFICES ASSUME NEW l \in Loop, loop'[l].step # "off"
               PROVE  worker'[WorkerOf[l]].run = "running"
    BY DEF LoopsWithinRun
  <2>1. CASE loop'[l] = loop[l]
    <3>1. worker[WorkerOf[l]].run = "running" /\ WorkerOf[l] \in Worker
      BY <2>1, WorkersAssumption DEF WInv, LoopsWithinRun
    <3>2. CASE RunEnd(w)
      <4>1. WorkerOf[l] # w BY <3>2, <2>1 DEF RunEnd
      <4> QED BY <3>1, <3>2, <4>1 DEF RunEnd, WInv, WorkersTypeOK
    <3>3. CASE RunBegin(w)
      BY <3>1, <3>3 DEF RunBegin, WInv, WorkersTypeOK
    <3>4. CASE RunLoops(w)
      BY <3>1, <3>4 DEF RunLoops, WInv, WorkersTypeOK
    <3>5. CASE StopWorker(w)
      BY <3>1, <3>5 DEF StopWorker, WInv, WorkersTypeOK
    <3> QED BY <3>2, <3>3, <3>4, <3>5
  <2> QED BY <2>1, <1>3
<1>7. TakenIsProcessed'
  BY <1>1, <1>3 DEF WInv, TakenIsProcessed, InHand
<1> QED BY <1>4, <1>5, <1>6, <1>7 DEF WInv

\* A loop takes a message, or comes back for the next one.
LEMMA WorkersLoopSteps ==
  ASSUME WInv, NEW l \in Loop, Looping(l)
  PROVE  WInv'
<1> USE DEF WInv
<1>1. worker' = worker /\ worker[WorkerOf[l]].run = "running" /\ UNCHANGED <<busOpen, restarts, cutShort>>
  BY DEF Looping, LoopsWithinRun, ConsumeInbound, Fetch, FetchEmpty, Ack, processMessage,
         PublishAnswer, historyVars
<1>2. CASE ConsumeInbound(l) \/ FetchEmpty(l) \/ PublishAnswer(l)
  <2>1. /\ UNCHANGED <<stream, delivered, handled>>
        /\ \E s \in {"off", "fetch", "consume"} :
              loop' = [loop EXCEPT ![l] = [step |-> s, msg |-> NoMessage]]
        /\ InHand(l) => loop[l].msg \in handled
    BY <1>2 DEF ConsumeInbound, FetchEmpty, PublishAnswer, Goes, InHand, AtHand, streamVars, historyVars
  <2>2. WorkersTypeOK' /\ DeliverableOnce'
    BY <1>1, <2>1 DEF WorkersTypeOK, DeliverableOnce
  <2>3. LoopsWithinRun' /\ AtHand'
    BY <1>1, <2>1 DEF WorkersTypeOK, LoopsWithinRun, AtHand
  <2>4. TakenIsProcessed'
    <3> SUFFICES ASSUME NEW m \in Message, stream[m] = "gone"
                 PROVE  m \in handled \cup cutShort \/ \E k \in Loop : InHand(k)' /\ loop'[k].msg = m
      BY <1>1, <2>1 DEF TakenIsProcessed
    <3>1. CASE m \in handled \cup cutShort BY <3>1
    <3>2. CASE m \notin handled \cup cutShort
      <4>1. PICK k \in Loop : InHand(k) /\ loop[k].msg = m BY <3>2 DEF TakenIsProcessed
      <4>2. k # l BY <4>1, <3>2, <2>1
      <4>3. loop'[k] = loop[k] BY <2>1, <4>2 DEF WorkersTypeOK
      <4> QED BY <4>1, <4>3 DEF InHand
    <3> QED BY <3>1, <3>2
  <2> QED BY <2>2, <2>3, <2>4
<1>3. CASE Fetch(l)
  <2>1. PICK m \in Message :
           /\ loop[l].step = "fetch" /\ stream[m] = "ready"
           /\ stream' = [stream EXCEPT ![m] = "pending"]
           /\ delivered' = [delivered EXCEPT ![m] = @ + 1]
           /\ loop' = [loop EXCEPT ![l] = [step |-> "ack", msg |-> m]]
           /\ handled' = handled
    BY <1>3 DEF Fetch, Goes, historyVars
  <2>2. delivered[m] \in Nat /\ delivered[m] + 1 \in 0..MaxDeliver
    BY <2>1, WorkersAssumption DEF WorkersTypeOK, DeliverableOnce
  <2>3. WorkersTypeOK'
    BY <1>1, <2>1, <2>2 DEF WorkersTypeOK
  <2>4. DeliverableOnce'
    BY <2>1 DEF WorkersTypeOK, DeliverableOnce
  <2>5. LoopsWithinRun' /\ AtHand'
    BY <1>1, <2>1 DEF WorkersTypeOK, LoopsWithinRun, AtHand
  <2>6. \A n \in Message : stream'[n] = "gone" => stream[n] = "gone"
    BY <2>1 DEF WorkersTypeOK
  <2>7. \A k \in Loop : InHand(k) => k # l /\ loop'[k] = loop[k]
    BY <2>1 DEF InHand, WorkersTypeOK
  <2>8. TakenIsProcessed'
    BY <1>1, <2>1, <2>6, <2>7 DEF TakenIsProcessed, InHand
  <2> QED BY <2>3, <2>4, <2>5, <2>8
<1>4. CASE Ack(l)
  <2> DEFINE n == loop[l].msg
  <2>1. /\ loop[l].step = "ack" /\ n \in Message
        /\ stream' = stream \/ stream' = [stream EXCEPT ![n] = "gone"]
        /\ loop' = [loop EXCEPT ![l] = [step |-> "process", msg |-> n]]
        /\ UNCHANGED <<delivered, handled>>
    BY <1>4 DEF Ack, Goes, AtHand, historyVars
  <2> HIDE DEF n
  <2>2. WorkersTypeOK'
    BY <1>1, <2>1 DEF WorkersTypeOK
  <2>3. DeliverableOnce'
    BY <2>1 DEF WorkersTypeOK, DeliverableOnce
  <2>4. LoopsWithinRun' /\ AtHand'
    BY <1>1, <2>1 DEF WorkersTypeOK, LoopsWithinRun, AtHand
  <2>5. \A k \in Loop : InHand(k) => k # l /\ loop'[k] = loop[k]
    BY <2>1 DEF InHand, WorkersTypeOK
  <2>6. InHand(l)' /\ loop'[l].msg = n
    BY <2>1 DEF InHand, WorkersTypeOK
  <2>7. \A m \in Message \ {n} : stream'[m] = "gone" => stream[m] = "gone"
    BY <2>1 DEF WorkersTypeOK
  <2>8. TakenIsProcessed'
    BY <1>1, <2>1, <2>5, <2>6, <2>7 DEF TakenIsProcessed, InHand
  <2> QED BY <2>2, <2>3, <2>4, <2>8
<1>5. CASE processMessage(l)
  <2> DEFINE n == loop[l].msg
  <2>1. /\ n \in Message /\ handled' = handled \cup {n}
        /\ UNCHANGED <<stream, delivered>>
        /\ \/ loop' = [loop EXCEPT ![l] = [step |-> "publish", msg |-> n]]
           \/ loop' = [loop EXCEPT ![l] = [step |-> "consume", msg |-> NoMessage]]
    BY <1>5 DEF processMessage, Goes, AtHand, streamVars
  <2>2. \A k \in Loop : InHand(k) /\ loop[k].msg # n => k # l
    OBVIOUS
  <2> HIDE DEF n
  <2>3. WorkersTypeOK' /\ DeliverableOnce'
    BY <1>1, <2>1 DEF WorkersTypeOK, DeliverableOnce
  <2>5. /\ \A k \in Loop : k # l => loop'[k] = loop[k]
        /\ \/ loop'[l] = [step |-> "publish", msg |-> n]
           \/ loop'[l] = [step |-> "consume", msg |-> NoMessage]
    BY <2>1 DEF WorkersTypeOK
  <2>4. LoopsWithinRun' /\ AtHand'
    <3>1. LoopsWithinRun' BY <1>1, <2>5 DEF LoopsWithinRun
    <3>2. AtHand' BY <2>1, <2>5 DEF AtHand
    <3> QED BY <3>1, <3>2
  <2>6. TakenIsProcessed'
    BY <1>1, <2>1, <2>2, <2>5 DEF TakenIsProcessed, InHand
  <2> QED BY <2>3, <2>4, <2>6
<1> QED BY <1>2, <1>3, <1>4, <1>5 DEF Looping

\* What was at hand when the process dies is remembered.
LEMMA WorkersRestartStep ==
  ASSUME WInv, Restart
  PROVE  WInv'
<1> USE DEF WInv
<1>1. /\ UNCHANGED <<stream, delivered, handled>> /\ restarts' \in 0..MaxRestart /\ busOpen' = TRUE
      /\ worker' = [w \in Worker |-> NewWorker] /\ loop' = [k \in Loop |-> NotLooping]
      /\ cutShort' = cutShort \cup {loop[l].msg : l \in {k \in Loop : InHand(k)}}
  BY WorkersAssumption DEF Restart, streamVars, WorkersTypeOK
<1>2. cutShort' \subseteq Message
  BY <1>1 DEF InHand, AtHand, WorkersTypeOK
<1>3. WorkersTypeOK' /\ DeliverableOnce'
  BY <1>1, <1>2 DEF WorkersTypeOK, DeliverableOnce, NewWorker, NotLooping
<1>4. LoopsWithinRun' /\ AtHand'
  BY <1>1 DEF LoopsWithinRun, AtHand, NotLooping
<1>5. TakenIsProcessed'
  BY <1>1 DEF TakenIsProcessed
<1> QED BY <1>3, <1>4, <1>5

LEMMA WInvStep == WInv /\ [WorkersNext]_workersVars => WInv'
<1> SUFFICES ASSUME WInv, [WorkersNext]_workersVars
             PROVE  WInv'
  OBVIOUS
<1>1. CASE UNCHANGED workersVars
  BY <1>1 DEF workersVars, WInv, WorkersTypeOK, DeliverableOnce, LoopsWithinRun, AtHand,
              TakenIsProcessed, InHand
<1>2. CASE CloseNATS
  BY <1>2 DEF CloseNATS, streamVars, historyVars, WInv, WorkersTypeOK, DeliverableOnce,
              LoopsWithinRun, AtHand, TakenIsProcessed, InHand
<1> QED BY <1>1, <1>2, WorkersStreamSteps, WorkersRunSteps, WorkersLoopSteps, WorkersRestartStep DEF WorkersNext

LEMMA WInvHolds == WorkersSpec => []WInv
  BY InitWInv, WInvStep, PTL DEF WorkersSpec

\* Types of the stream, the workers and their loops; in particular a message is delivered
\* MaxDeliver times at most.
THEOREM WorkersTypeCorrect == WorkersSpec => []WorkersTypeOK
<1>1. WInv => WorkersTypeOK BY DEF WInv
<1> QED BY <1>1, WInvHolds, PTL

\* A message that JetStream has given up was processed, is being processed, or was at hand
\* when the process died, whatever Stop, Close and the network do.
THEOREM TakenIsProcessedHolds == WorkersSpec => []TakenIsProcessed
<1>1. WInv => TakenIsProcessed BY DEF WInv
<1> QED BY <1>1, WInvHolds, PTL

(***************************************************************************)
(* McpManager                                                              *)
(***************************************************************************)

\* A stored connection is open, and while the manager is open so is each open one stored once
\* the servers are loaded; afterwards nothing is connected any more.
Connections ==
    /\ \A s \in servers : session[s] = "open"
    /\ closing # "no" => \A s \in Server : session[s] # "none"
    /\ closing \in {"wait", "lock"} => \A s \in Server : session[s] = "open" => s \in servers

\* Close waits for the calls counted before it set the flag.
EarlyCounted ==
    /\ closing = "no" => early = {} /\ cutOff = {}
    /\ closing = "wait" => cutOff = {}
    /\ closing = "lock" => early \cap Counted = {} /\ cutOff = {}

\* A call that is not under way any more, or that was counted, does not begin again.
EarlyBegun ==
    \A c \in early : calling[c].step \in {"unlock", "calling", "ended"}

MInv == McpTypeOK /\ Connections /\ EarlyCounted /\ EarlyBegun /\ CloseIsComplete

LEMMA InitMInv == McpInit => MInv
<1> SUFFICES ASSUME McpInit PROVE MInv
  OBVIOUS
<1>1. McpTypeOK
  BY DEF McpInit, McpTypeOK
<1>2. Connections /\ EarlyCounted /\ EarlyBegun
  BY DEF McpInit, Connections, EarlyCounted, EarlyBegun
<1>3. CloseIsComplete
  BY DEF McpInit, CloseIsComplete
<1> QED BY <1>1, <1>2, <1>3 DEF MInv

\* Connecting the servers, which is over before Close begins.
LEMMA McpConnectSteps ==
  ASSUME MInv, NEW s \in Server, ConnectServer(s) \/ StoreConnection(s)
  PROVE  MInv'
<1> USE DEF MInv
<1>1. /\ UNCHANGED <<mcpClosed, calling, closing, early, cutOff>>
      /\ closing = "no"
  BY DEF ConnectServer, StoreConnection, mcpHistory, Connections
<1>2. EarlyCounted' /\ EarlyBegun'
  BY <1>1 DEF EarlyCounted, EarlyBegun, Counted
<1>3. McpTypeOK' /\ Connections' /\ CloseIsComplete'
  <2>1. CASE ConnectServer(s)
    <3>1. /\ servers' = servers /\ s \notin servers
          /\ session' \in [Server -> {"none", "open", "failed", "closed"}]
          /\ \A t \in Server \ {s} : session'[t] = session[t]
      BY <2>1 DEF ConnectServer, McpTypeOK, Connections
    <3> QED BY <1>1, <3>1 DEF McpTypeOK, Connections, CloseIsComplete
  <2>2. CASE StoreConnection(s)
    BY <1>1, <2>2 DEF StoreConnection, McpTypeOK, Connections, CloseIsComplete
  <2> QED BY <2>1, <2>2
<1> QED BY <1>2, <1>3

\* A call makes one step; none that Close has waited for comes back.
LEMMA McpCallSteps ==
  ASSUME MInv, NEW c \in ToolCall, BeginCall(c) \/ CallTool(c)
  PROVE  MInv'
<1> USE DEF MInv
<1>1. UNCHANGED <<session, servers, mcpClosed, closing, early, cutOff>>
  BY DEF BeginCall, CallTool, ReadLock, CheckAgain, AddToGroup, ReadUnlock, EndCall,
         sessionVars, mcpHistory
<1>2. PICK step \in {"lock", "check", "add", "unlock", "calling", "ended", "refused", "unknown"},
           s \in Server \cup {NoServer} :
         /\ calling' = [calling EXCEPT ![c] = [step |-> step, server |-> s]]
         /\ step = "unlock" => calling[c].step = "add"
         /\ step = "calling" => calling[c].step = "unlock"
         /\ calling[c].step \notin {"unlock", "calling", "ended"} \/ step \in {"calling", "ended"}
  <2>1. CASE BeginCall(c)
    BY <2>1 DEF BeginCall
  <2>2. CASE CallTool(c)
    <3>1. /\ calling[c].server \in Server \cup {NoServer}
          /\ \A x : [calling EXCEPT ![c].step = x]
                      = [calling EXCEPT ![c] = [step |-> x, server |-> calling[c].server]]
      BY DEF McpTypeOK
    <3> QED BY <2>2, <3>1
            DEF CallTool, ReadLock, CheckAgain, AddToGroup, ReadUnlock, EndCall, Proceed
  <2> QED BY <2>1, <2>2
<1>3. McpTypeOK'
  BY <1>1, <1>2 DEF McpTypeOK
<1>4. Connections' /\ CloseIsComplete'
  BY <1>1 DEF Connections, CloseIsComplete
<1>5. EarlyBegun'
  BY <1>1, <1>2 DEF EarlyBegun, McpTypeOK
<1>6. EarlyCounted'
  <2>1. early \cap Counted = {} => early \cap Counted' = {}
    BY <1>2 DEF EarlyBegun, McpTypeOK, Counted
  <2> QED BY <1>1, <2>1 DEF EarlyCounted
<1> QED BY <1>3, <1>4, <1>5, <1>6

\* Close: the flag, the wait, and the end of every session.
LEMMA McpCloseSteps ==
  ASSUME MInv, CloseSwap \/ CloseWait \/ CloseSessions
  PROVE  MInv'
<1> USE DEF MInv
<1>1. CASE CloseSwap
  BY <1>1 DEF CloseSwap, sessionVars, Loaded, McpTypeOK, Connections, EarlyCounted, EarlyBegun,
              CloseIsComplete, Counted
<1>2. CASE CloseWait
  BY <1>2 DEF CloseWait, sessionVars, mcpHistory, McpTypeOK, Connections, EarlyCounted,
              EarlyBegun, CloseIsComplete, Counted
<1>3. CASE CloseSessions
  <2>1. /\ closing = "lock" /\ closing' = "closed" /\ servers' = {}
        /\ UNCHANGED <<mcpClosed, calling, early>>
        /\ session' = [s \in Server |-> IF s \in servers THEN "closed" ELSE session[s]]
        /\ cutOff' \subseteq Counted /\ cutOff' \subseteq ToolCall
    BY <1>3 DEF CloseSessions, EarlyCounted, InFlight, Counted
  <2>2. McpTypeOK' /\ EarlyCounted' /\ EarlyBegun'
    BY <2>1 DEF McpTypeOK, EarlyCounted, EarlyBegun
  <2>3. Connections' /\ \A s \in Server : session'[s] # "open"
    BY <2>1 DEF McpTypeOK, Connections
  <2>4. CloseIsComplete'
    BY <2>1, <2>3 DEF EarlyCounted, CloseIsComplete
  <2> QED BY <2>2, <2>3, <2>4
<1> QED BY <1>1, <1>2, <1>3

LEMMA MInvStep == MInv /\ [McpNext]_mcpVars => MInv'
<1> SUFFICES ASSUME MInv, [McpNext]_mcpVars
             PROVE  MInv'
  OBVIOUS
<1>1. CASE UNCHANGED mcpVars
  BY <1>1 DEF mcpVars, MInv, McpTypeOK, Connections, EarlyCounted, EarlyBegun,
              CloseIsComplete, Counted
<1> QED BY <1>1, McpConnectSteps, McpCallSteps, McpCloseSteps DEF McpNext

LEMMA MInvHolds == McpSpec => []MInv
  BY InitMInv, MInvStep, PTL DEF McpSpec

\* Types of the sessions, the calls and Close.
THEOREM McpTypeCorrect == McpSpec => []McpTypeOK
<1>1. MInv => McpTypeOK BY DEF MInv
<1> QED BY <1>1, MInvHolds, PTL

\* Close leaves no session open, and cuts no call off that was counted before it began.
THEOREM CloseIsCompleteHolds == McpSpec => []CloseIsComplete
<1>1. MInv => CloseIsComplete BY DEF MInv
<1> QED BY <1>1, MInvHolds, PTL

(***************************************************************************)
(* AuthFile                                                                *)
(***************************************************************************)

\* A caller that uses or fetches something has a credential, and so has one that goes on
\* after it has saved.
HasCred ==
    \A c \in AuthCaller :
        /\ caller[c].step \in {"refresh", "project"} => caller[c].cred \in Cred
        /\ caller[c].then = "project" => caller[c].cred \in Cred

\* No refresh token comes from a grant that has not been made.
Granted ==
    /\ spent \subseteq 1..granted
    /\ \A p \in Provider : latest[p] # NoCred => latest[p].refresh \in 1..granted

\* What was granted last can still be refreshed, each with a token of its own.
LatestUsable ==
    \A p \in Provider : latest[p] # NoCred =>
        /\ latest[p].refresh \notin spent
        /\ \A q \in Provider \ {p} : latest[q] # NoCred => latest[q].refresh # latest[p].refresh

OneAtATime == \A c, d \in AuthCaller : caller[c].step # "idle" /\ caller[d].step # "idle" => c = d

\* The one caller under way knows what was granted last for its provider, and its copy holds
\* what was granted last for all.
CallerUpToDate ==
    \A c \in AuthCaller :
        LET p == caller[c].of IN
        /\ caller[c].step # "idle" => caller[c].cred = latest[p]
        /\ caller[c].step \in {"refresh", "project"} => authFile = latest
        /\ caller[c].step = "load" => \A q \in Provider \ {p} : authFile[q] = latest[q]
        /\ caller[c].step = "save" => caller[c].copy = latest

FileUpToDate == (\A c \in AuthCaller : caller[c].step = "idle") => authFile = latest

InOrder == Granted /\ LatestUsable /\ OneAtATime /\ CallerUpToDate /\ FileUpToDate /\ ~reused

AInv == AuthTypeOK /\ HasCred /\ (~crowded /\ ~unsaved => InOrder)

(***************************************************************************)
(* Types                                                                   *)
(***************************************************************************)

\* What a caller is at, as the type invariant has it.
CallerState ==
    [step : {"idle", "refresh", "project", "load", "save"}, of : Provider,
     cred : Cred \cup {NoCred}, copy : AuthStore, then : {"idle", "project"}]

LEMMA AuthRestingType ==
  Resting \in [step : {"idle", "refresh", "project", "load", "save"}, of : Provider,
               cred : Cred \cup {NoCred}, copy : AuthStore, then : {"idle", "project"}]
<1>1. (CHOOSE p \in Provider : TRUE) \in Provider
  BY AuthAssumption
<1> QED BY <1>1 DEF Resting, NothingStored, AuthStore

LEMMA InitAInv == AuthInit => AInv
<1> SUFFICES ASSUME AuthInit PROVE AInv
  OBVIOUS
<1>1. AuthTypeOK
  <2>1. NothingStored \in AuthStore
    BY DEF NothingStored, AuthStore
  <2>2. caller \in [AuthCaller ->
           [step : {"idle", "refresh", "project", "load", "save"}, of : Provider,
            cred : Cred \cup {NoCred}, copy : AuthStore, then : {"idle", "project"}]]
    BY AuthRestingType DEF AuthInit
  <2>3. granted \in 0..MaxGrant
    BY AuthAssumption DEF AuthInit
  <2>4. stale \subseteq Grant /\ spent \subseteq Grant /\ {reused, crowded, unsaved} \subseteq BOOLEAN
    BY DEF AuthInit
  <2>5. authFile \in AuthStore /\ latest \in AuthStore
    BY <2>1 DEF AuthInit
  <2> QED BY <2>2, <2>3, <2>4, <2>5 DEF AuthTypeOK
<1>2. HasCred /\ OneAtATime /\ CallerUpToDate
  BY DEF AuthInit, HasCred, OneAtATime, CallerUpToDate, Resting
<1>3. Granted /\ LatestUsable
  BY DEF AuthInit, Granted, LatestUsable, NothingStored
<1>4. FileUpToDate /\ ~reused
  BY DEF AuthInit, FileUpToDate
<1> QED BY <1>1, <1>2, <1>3, <1>4 DEF AInv, InOrder

(***************************************************************************)
(* Beginning: a caller that finds nobody under way                         *)
(***************************************************************************)

LEMMA AuthExpireStep ==
  ASSUME AInv, NEW g \in Grant, Expire(g)
  PROVE  AInv'
<1>1. /\ UNCHANGED <<authFile, caller, granted, spent, latest, reused, crowded, unsaved>>
      /\ stale' \subseteq Grant
  BY DEF Expire, authHistory, AInv, AuthTypeOK
<1> QED BY <1>1 DEF AInv, AuthTypeOK, HasCred, Granted, InOrder, LatestUsable, OneAtATime,
                    CallerUpToDate, FileUpToDate

\* Nobody else is under way if the step does not crowd.
LEMMA AuthLonely ==
  ASSUME NEW c \in AuthCaller, Crowd(c), ~crowded'
  PROVE  ~crowded /\ \A d \in AuthCaller \ {c} : caller[d].step = "idle"
  BY DEF Crowd

LEMMA AuthLoginStep ==
  ASSUME AInv, NEW c \in AuthCaller, NEW p \in Provider, Login(c, p)
  PROVE  AInv'
<1> USE DEF AInv
<1>1. PICK had \in Cred :
        /\ had.refresh = granted + 1
        /\ caller' = [caller EXCEPT ![c] = [Resting EXCEPT !.step = "load", !.of = p, !.cred = had]]
        /\ latest' = [latest EXCEPT ![p] = had]
  <2>1. granted + 1 \in Grant
    BY AuthAssumption DEF Login, AuthTypeOK, Grant
  <2>2. PICK project \in BOOLEAN :
          LET had == [access |-> granted + 1, refresh |-> granted + 1,
                       project |-> project /\ p \in Projected]
          IN  /\ caller' = [caller EXCEPT ![c] =
                     [Resting EXCEPT !.step = "load", !.of = p, !.cred = had]]
              /\ latest' = [latest EXCEPT ![p] = had]
    BY DEF Login
  <2> DEFINE b == project /\ p \in Projected
  <2>3. b \in BOOLEAN OBVIOUS
  <2> HIDE DEF b
  <2>4. [access |-> granted + 1, refresh |-> granted + 1, project |-> b] \in Cred
    BY <2>1, <2>3 DEF Cred
  <2> QED BY <2>2, <2>4 DEF b
<1>2. /\ caller[c].step = "idle" /\ granted < MaxGrant /\ granted' = granted + 1
      /\ UNCHANGED <<authFile, stale, spent, reused, unsaved>> /\ Crowd(c)
  BY DEF Login
<1>3. caller'[c] = [step |-> "load", of |-> p, cred |-> had, copy |-> NothingStored, then |-> "idle"]
      /\ \A d \in AuthCaller \ {c} : caller'[d] = caller[d]
  BY <1>1 DEF AuthTypeOK, Resting
<1>4. AuthTypeOK'
  <2>1. caller'[c] \in
          [step : {"idle", "refresh", "project", "load", "save"}, of : Provider,
           cred : Cred \cup {NoCred}, copy : AuthStore, then : {"idle", "project"}]
    BY <1>3 DEF NothingStored, AuthStore
  <2>2. crowded' \in BOOLEAN BY <1>2 DEF Crowd, AuthTypeOK
  <2> QED BY <1>1, <1>2, <2>1, <2>2, AuthAssumption DEF AuthTypeOK, AuthStore
<1>5. HasCred'
  BY <1>1, <1>2, <1>3, AuthAssumption DEF AuthTypeOK, AuthStore, HasCred, Granted
<1>6. ASSUME ~crowded', ~unsaved' PROVE InOrder'
  <2>1. ~crowded /\ ~unsaved /\ \A d \in AuthCaller \ {c} : caller'[d].step = "idle"
    BY <1>2, <1>3, <1>6, AuthLonely
  <2>2. InOrder /\ authFile = latest
    BY <1>2, <1>3, <2>1 DEF InOrder, FileUpToDate
  <2>3. Granted' /\ LatestUsable'
    <3>1. granted \in Nat BY AuthAssumption DEF AuthTypeOK
    <3>2. latest'[p] = had /\ \A q \in Provider \ {p} : latest'[q] = latest[q]
      BY <1>1 DEF AuthTypeOK, AuthStore
    <3>3. Granted'
      BY <1>1, <1>2, <2>2, <3>1, <3>2 DEF InOrder, Granted
    <3>4. LatestUsable'
      BY <1>1, <1>2, <2>2, <3>1, <3>2 DEF InOrder, Granted, LatestUsable
    <3> QED BY <3>3, <3>4
  <2>4. OneAtATime' /\ FileUpToDate' /\ ~reused'
    BY <1>2, <1>3, <2>1, <2>2 DEF InOrder, OneAtATime, FileUpToDate
  <2>5. CallerUpToDate'
    BY <1>1, <1>2, <1>3, <2>1, <2>2 DEF CallerUpToDate, AuthTypeOK, AuthStore
  <2> QED BY <2>3, <2>4, <2>5 DEF InOrder
<1> QED BY <1>4, <1>5, <1>6

LEMMA AuthLogoutStep ==
  ASSUME AInv, NEW c \in AuthCaller, NEW p \in Provider, Logout(c, p)
  PROVE  AInv'
<1> USE DEF AInv
<1>1. /\ caller[c].step = "idle" /\ latest' = [latest EXCEPT ![p] = NoCred]
      /\ UNCHANGED <<authFile, granted, stale, spent, reused, unsaved>> /\ Crowd(c)
  BY DEF Logout, tokenVars
<1>2. caller'[c] = [step |-> "load", of |-> p, cred |-> NoCred, copy |-> NothingStored, then |-> "idle"]
      /\ \A d \in AuthCaller \ {c} : caller'[d] = caller[d]
  BY DEF Logout, AuthTypeOK, Resting
<1>3. AuthTypeOK'
  <2>1. caller'[c] \in
          [step : {"idle", "refresh", "project", "load", "save"}, of : Provider,
           cred : Cred \cup {NoCred}, copy : AuthStore, then : {"idle", "project"}]
    BY <1>2 DEF NothingStored, AuthStore
  <2>2. crowded' \in BOOLEAN BY <1>1 DEF Crowd, AuthTypeOK
  <2>3. latest' \in AuthStore BY <1>1 DEF AuthTypeOK, AuthStore
  <2>4. caller' \in [AuthCaller -> CallerState]
    <3>1. caller'[c] \in CallerState
      BY <2>1 DEF CallerState
    <3>2. \A d \in AuthCaller : caller[d] \in CallerState
      BY DEF AuthTypeOK, CallerState
    <3>3. \A d \in AuthCaller : caller'[d] \in CallerState
      BY <1>2, <3>1, <3>2
    <3>4. caller' = [d \in AuthCaller |-> caller'[d]]
      BY DEF Logout, AuthTypeOK
    <3> QED BY ONLY <3>3, <3>4
  <2> QED BY <1>1, <2>2, <2>3, <2>4 DEF AuthTypeOK, CallerState
<1>4. HasCred'
  BY <1>1, <1>2 DEF AuthTypeOK, AuthStore, HasCred, Granted
<1>5. ASSUME ~crowded', ~unsaved' PROVE InOrder'
  <2>1. ~crowded /\ ~unsaved /\ \A d \in AuthCaller \ {c} : caller'[d].step = "idle"
    BY <1>1, <1>2, <1>5, AuthLonely
  <2>2. InOrder /\ authFile = latest
    BY <1>1, <1>2, <2>1 DEF InOrder, FileUpToDate
  <2>3. Granted' /\ LatestUsable'
    BY <1>1, <2>2 DEF InOrder, LatestUsable, Granted, AuthTypeOK, AuthStore
  <2>4. OneAtATime' /\ FileUpToDate' /\ ~reused'
    BY <1>1, <1>2, <2>1, <2>2 DEF InOrder, OneAtATime, FileUpToDate
  <2>5. CallerUpToDate'
    BY <1>1, <1>2, <2>1, <2>2 DEF CallerUpToDate, AuthTypeOK, AuthStore
  <2> QED BY <2>3, <2>4, <2>5 DEF InOrder
<1> QED BY <1>3, <1>4, <1>5

LEMMA AuthGetStep ==
  ASSUME AInv, NEW c \in AuthCaller, NEW p \in Provider, GetCredential(c, p)
  PROVE  AInv'
<1> USE DEF AInv
<1>1. /\ caller[c].step = "idle" /\ authFile[p] # NoCred
      /\ UNCHANGED <<authFile, granted, stale, spent, latest, reused, unsaved>> /\ Crowd(c)
  BY DEF GetCredential, tokenVars
<1>2. PICK step \in {"refresh", "project", "idle"} :
        /\ caller' = [d \in AuthCaller |-> caller'[d]]
        /\ caller'[c] = [step |-> step, of |-> p, cred |-> authFile[p],
                         copy |-> NothingStored, then |-> "idle"]
        /\ \A d \in AuthCaller \ {c} : caller'[d] = caller[d]
  <2>1. PICK step \in {"refresh", "project", "idle"} :
          caller' = [caller EXCEPT ![c] = [Resting EXCEPT !.step = step, !.of = p, !.cred = authFile[p]]]
    BY DEF GetCredential, Afterwards
  <2> QED BY <2>1 DEF AuthTypeOK, Resting
<1>3. authFile[p] \in Cred
  BY <1>1 DEF AuthTypeOK, AuthStore
<1>4. AuthTypeOK'
  <2>1. caller'[c] \in
          [step : {"idle", "refresh", "project", "load", "save"}, of : Provider,
           cred : Cred \cup {NoCred}, copy : AuthStore, then : {"idle", "project"}]
    BY <1>2, <1>3 DEF NothingStored, AuthStore
  <2>2. crowded' \in BOOLEAN BY <1>1 DEF Crowd, AuthTypeOK
  <2> QED BY <1>1, <1>2, <2>1, <2>2 DEF AuthTypeOK
<1>5. HasCred'
  BY <1>1, <1>2, <1>3 DEF HasCred, Granted
<1>6. ASSUME ~crowded', ~unsaved' PROVE InOrder'
  <2>1. ~crowded /\ ~unsaved /\ \A d \in AuthCaller \ {c} : caller'[d].step = "idle"
    BY <1>1, <1>2, <1>6, AuthLonely
  <2>2. InOrder /\ authFile = latest
    BY <1>1, <1>2, <2>1 DEF InOrder, FileUpToDate
  <2>3. Granted' /\ LatestUsable'
    BY <1>1, <2>2 DEF InOrder, LatestUsable, Granted
  <2>4. OneAtATime' /\ FileUpToDate' /\ ~reused'
    BY <1>1, <1>2, <2>1, <2>2 DEF InOrder, OneAtATime, FileUpToDate
  <2>5. CallerUpToDate'
    BY <1>1, <1>2, <2>1, <2>2 DEF CallerUpToDate
  <2> QED BY <2>3, <2>4, <2>5 DEF InOrder
<1> QED BY <1>4, <1>5, <1>6

(***************************************************************************)
(* The token source and the writing of the file                            *)
(***************************************************************************)

LEMMA AuthRefreshStep ==
  ASSUME AInv, NEW c \in AuthCaller, RefreshAccessToken(c)
  PROVE  AInv'
<1> USE DEF AInv
<1> DEFINE p == caller[c].of
           had == caller[c].cred
<1>1. /\ caller[c].step = "refresh" /\ granted < MaxGrant /\ granted' = granted + 1
      /\ had \in Cred /\ p \in Provider /\ had.refresh \notin spent
      /\ UNCHANGED <<authFile, stale, reused, crowded, unsaved>>
  BY DEF RefreshAccessToken, HasCred, AuthTypeOK
<1>2. PICK rotated \in BOOLEAN, new \in Cred, then \in {"idle", "project"} :
        /\ new.refresh = IF rotated THEN granted + 1 ELSE had.refresh
        /\ spent' = IF rotated THEN spent \cup {had.refresh} ELSE spent
        /\ caller' = [caller EXCEPT ![c].step = "load", ![c].cred = new, ![c].then = then]
        /\ latest' = [latest EXCEPT ![p] = new]
  <2>1. granted + 1 \in Grant
    BY <1>1, AuthAssumption DEF AuthTypeOK, Grant
  <2>2. PICK rotated \in BOOLEAN :
          LET new == [had EXCEPT !.access = granted + 1,
                                  !.refresh = IF rotated THEN granted + 1 ELSE @]
          IN  /\ spent' = IF rotated THEN spent \cup {had.refresh} ELSE spent
              /\ caller' = [caller EXCEPT ![c].step = "load", ![c].cred = new,
                                         ![c].then = Afterwards(p, had)]
              /\ latest' = [latest EXCEPT ![p] = new]
    BY DEF RefreshAccessToken
  <2>3. Afterwards(p, had) \in {"idle", "project"}
    BY DEF Afterwards
  <2>4. [had EXCEPT !.access = granted + 1, !.refresh = IF rotated THEN granted + 1 ELSE @] \in Cred
    BY <1>1, <2>1 DEF Cred
  <2>5. [had EXCEPT !.access = granted + 1, !.refresh = IF rotated THEN granted + 1 ELSE @].refresh
          = IF rotated THEN granted + 1 ELSE had.refresh
    BY <1>1 DEF Cred
  <2> QED BY <2>2, <2>3, <2>4, <2>5
<1>3. /\ caller'[c] = [step |-> "load", of |-> p, cred |-> new, copy |-> caller[c].copy, then |-> then]
      /\ \A d \in AuthCaller \ {c} : caller'[d] = caller[d]
      /\ DOMAIN caller' = AuthCaller /\ caller' = [d \in AuthCaller |-> caller'[d]]
  <2>1. /\ DOMAIN caller = AuthCaller
        /\ caller[c] = [step |-> caller[c].step, of |-> caller[c].of, cred |-> caller[c].cred,
                        copy |-> caller[c].copy, then |-> caller[c].then]
    BY DEF AuthTypeOK
  <2>2. caller' = [caller EXCEPT ![c].step = "load", ![c].cred = new, ![c].then = then]
    BY <1>2
  <2> QED BY ONLY <1>1, <2>1, <2>2
<1> HIDE DEF p, had
<1>4. AuthTypeOK'
  <2>1. caller'[c] \in
          [step : {"idle", "refresh", "project", "load", "save"}, of : Provider,
           cred : Cred \cup {NoCred}, copy : AuthStore, then : {"idle", "project"}]
    BY <1>1, <1>2, <1>3 DEF AuthTypeOK
  <2>2. caller' \in [AuthCaller ->
           [step : {"idle", "refresh", "project", "load", "save"}, of : Provider,
            cred : Cred \cup {NoCred}, copy : AuthStore, then : {"idle", "project"}]]
    BY <1>3, <2>1 DEF AuthTypeOK
  <2>3. latest' \in AuthStore BY <1>1, <1>2 DEF AuthTypeOK, AuthStore
  <2>4. spent' \subseteq Grant BY <1>1, <1>2 DEF AuthTypeOK, Cred
  <2>5. granted' \in 0..MaxGrant BY <1>1, AuthAssumption DEF AuthTypeOK
  <2> QED BY <1>1, <2>2, <2>3, <2>4, <2>5 DEF AuthTypeOK
<1>5. HasCred'
  BY <1>2, <1>3 DEF HasCred
<1>6. ASSUME ~crowded', ~unsaved' PROVE InOrder' /\ had = latest[p] /\ latest[p] # NoCred
  <2>1. InOrder /\ ~crowded /\ ~unsaved BY <1>1, <1>6
  <2>2. had = latest[p] /\ authFile = latest
    BY <1>1, <2>1 DEF InOrder, CallerUpToDate, p, had
  <2>3. latest[p] # NoCred BY <1>1, <2>2, AuthAssumption
  <2>4. \A d \in AuthCaller \ {c} : caller'[d].step = "idle"
    BY <1>1, <1>3, <2>1 DEF InOrder, OneAtATime
  <2>5. latest'[p] = new /\ \A q \in Provider \ {p} : latest'[q] = latest[q]
    BY <1>1, <1>2 DEF AuthTypeOK, AuthStore
  <2>6. Granted' /\ LatestUsable'
    <3>1. granted \in Nat BY AuthAssumption DEF AuthTypeOK
    <3>2. Granted'
      BY <1>1, <1>2, <2>1, <2>2, <2>3, <2>5, <3>1 DEF InOrder, Granted
    <3>3. LatestUsable'
      BY <1>1, <1>2, <2>1, <2>2, <2>3, <2>5, <3>1 DEF InOrder, Granted, LatestUsable
    <3> QED BY <3>2, <3>3
  <2>7. OneAtATime' /\ FileUpToDate' /\ ~reused'
    BY <1>1, <1>3, <2>1, <2>4 DEF InOrder, OneAtATime, FileUpToDate
  <2>8. CallerUpToDate'
    BY <1>1, <1>3, <2>2, <2>4, <2>5 DEF CallerUpToDate
  <2> QED BY <2>2, <2>3, <2>6, <2>7, <2>8 DEF InOrder
<1> QED BY <1>4, <1>5, <1>6

\* A caller that rests leaves the rest as it is.
LEMMA AuthRestsType ==
  ASSUME AuthTypeOK, NEW c \in AuthCaller, Rests(c)
  PROVE  /\ caller'[c] = Resting /\ Resting.step = "idle" /\ Resting.then = "idle"
         /\ \A d \in AuthCaller \ {c} : caller'[d] = caller[d]
         /\ caller' \in [AuthCaller ->
               [step : {"idle", "refresh", "project", "load", "save"}, of : Provider,
                cred : Cred \cup {NoCred}, copy : AuthStore, then : {"idle", "project"}]]
<1>1. Resting.step = "idle" /\ Resting.then = "idle"
  BY DEF Resting
<1> QED BY <1>1, AuthRestingType DEF Rests, AuthTypeOK

LEMMA AuthRefreshFailsStep ==
  ASSUME AInv, NEW c \in AuthCaller, RefreshFails(c)
  PROVE  AInv'
<1> USE DEF AInv
<1> DEFINE r == caller[c].cred.refresh
<1>1. /\ caller[c].step = "refresh" /\ caller[c].cred \in Cred /\ r \in Grant
      /\ reused' = (reused \/ r \in spent)
      /\ \/ UNCHANGED <<spent, unsaved>>
         \/ spent' = spent \cup {r} /\ unsaved' = TRUE
      /\ Rests(c) /\ UNCHANGED <<authFile, granted, stale, latest, crowded>>
  BY DEF RefreshFails, HasCred, Cred
<1>2. AuthTypeOK'
  <2>1. reused' \in BOOLEAN BY <1>1
  <2>2. spent' \subseteq Grant /\ unsaved' \in BOOLEAN BY <1>1 DEF AuthTypeOK
  <2>3. AuthTypeOK OBVIOUS
  <2> QED BY <1>1, <2>1, <2>2, <2>3, AuthRestsType DEF AuthTypeOK
<1>3. HasCred'
  BY <1>1, AuthRestsType DEF HasCred
<1>4. ASSUME ~crowded', ~unsaved' PROVE InOrder'
  <2>1. InOrder /\ spent' = spent BY <1>1, <1>4
  <2>2. caller[c].cred = latest[caller[c].of] /\ authFile = latest /\ caller[c].of \in Provider
    BY <1>1, <2>1 DEF InOrder, CallerUpToDate, AuthTypeOK
  <2>3. r \notin spent
    BY <1>1, <2>1, <2>2, AuthAssumption DEF InOrder, LatestUsable
  <2>4. ~reused' BY <1>1, <2>1, <2>3 DEF InOrder
  <2>5. \A d \in AuthCaller : caller'[d].step = "idle"
    BY <1>1, <2>1, AuthRestsType DEF InOrder, OneAtATime
  <2>6. OneAtATime' /\ CallerUpToDate' /\ FileUpToDate'
    BY <1>1, <2>2, <2>5 DEF OneAtATime, CallerUpToDate, FileUpToDate
  <2>7. Granted' /\ LatestUsable'
    BY <1>1, <2>1 DEF InOrder, Granted, LatestUsable
  <2> QED BY <2>4, <2>6, <2>7 DEF InOrder
<1> QED BY <1>2, <1>3, <1>4

LEMMA AuthProjectStep ==
  ASSUME AInv, NEW c \in AuthCaller, FetchProject(c)
  PROVE  AInv'
<1> USE DEF AInv
<1>1. /\ caller[c].step = "project" /\ caller[c].cred \in Cred /\ caller[c].of \in Provider
      /\ UNCHANGED <<authFile, granted, stale, spent, reused, crowded, unsaved>>
  BY DEF FetchProject, tokenVars, HasCred, AuthTypeOK
<1>2. CASE Rests(c) /\ UNCHANGED latest
  <2>1. AuthTypeOK' BY <1>1, <1>2, AuthRestsType DEF AuthTypeOK
  <2>2. HasCred' BY <1>2, AuthRestsType DEF HasCred
  <2>3. ASSUME ~crowded', ~unsaved' PROVE InOrder'
    <3>1. InOrder /\ authFile = latest
      BY <1>1, <2>3 DEF InOrder, CallerUpToDate
    <3>2. \A d \in AuthCaller : caller'[d].step = "idle"
      BY <1>1, <1>2, <3>1, AuthRestsType DEF InOrder, OneAtATime
    <3>3. OneAtATime' /\ CallerUpToDate' /\ FileUpToDate' /\ ~reused'
      BY <1>1, <1>2, <3>1, <3>2 DEF InOrder, OneAtATime, CallerUpToDate, FileUpToDate
    <3>4. Granted' /\ LatestUsable'
      BY <1>1, <1>2, <3>1 DEF InOrder, Granted, LatestUsable
    <3> QED BY <3>3, <3>4 DEF InOrder
  <2> QED BY <2>1, <2>2, <2>3
<1>3. CASE ~(Rests(c) /\ UNCHANGED latest)
  <2> DEFINE p == caller[c].of
             new == [caller[c].cred EXCEPT !.project = TRUE]
  <2>1. new \in Cred /\ new.refresh = caller[c].cred.refresh
    BY <1>1 DEF Cred
  <2>2. /\ caller'[c] = [step |-> "load", of |-> p, cred |-> new,
                         copy |-> caller[c].copy, then |-> caller[c].then]
        /\ \A d \in AuthCaller \ {c} : caller'[d] = caller[d]
        /\ caller' = [d \in AuthCaller |-> caller'[d]]
    BY <1>3 DEF FetchProject, AuthTypeOK
  <2>3. latest' = IF latest[p] = caller[c].cred THEN [latest EXCEPT ![p].project = TRUE] ELSE latest
    BY <1>3 DEF FetchProject
  <2>4. /\ latest[p] = caller[c].cred => latest'[p] = new
        /\ latest[p] # caller[c].cred => latest' = latest
        /\ \A q \in Provider \ {p} : latest'[q] = latest[q]
        /\ latest' = [q \in Provider |-> latest'[q]]
    BY <1>1, <2>3 DEF AuthTypeOK, AuthStore
  <2> HIDE DEF new
  <2>5. AuthTypeOK'
    <3>1. caller'[c] \in
            [step : {"idle", "refresh", "project", "load", "save"}, of : Provider,
             cred : Cred \cup {NoCred}, copy : AuthStore, then : {"idle", "project"}]
      BY <1>1, <2>1, <2>2 DEF AuthTypeOK
    <3>2. caller' \in [AuthCaller ->
             [step : {"idle", "refresh", "project", "load", "save"}, of : Provider,
              cred : Cred \cup {NoCred}, copy : AuthStore, then : {"idle", "project"}]]
      <4>1. \A d \in AuthCaller : caller'[d] \in
              [step : {"idle", "refresh", "project", "load", "save"}, of : Provider,
               cred : Cred \cup {NoCred}, copy : AuthStore, then : {"idle", "project"}]
        BY <2>2, <3>1 DEF AuthTypeOK
      <4> QED BY <2>2, <4>1
    <3>3. latest' \in AuthStore
      BY <2>1, <2>4 DEF AuthTypeOK, AuthStore
    <3> QED BY <1>1, <3>2, <3>3 DEF AuthTypeOK
  <2>6. HasCred' BY <2>1, <2>2 DEF HasCred
  <2>7. ASSUME ~crowded', ~unsaved' PROVE InOrder'
    <3>1. InOrder /\ authFile = latest /\ latest[p] = caller[c].cred
      BY <1>1, <2>7 DEF InOrder, CallerUpToDate
    <3>2. latest[p] # NoCred /\ latest'[p] = new /\ new # NoCred
      BY <1>1, <2>1, <2>4, <3>1, AuthAssumption
    <3>3. \A d \in AuthCaller \ {c} : caller'[d].step = "idle"
      BY <1>1, <2>2, <3>1 DEF InOrder, OneAtATime
    <3>4. Granted' /\ LatestUsable'
      BY <1>1, <2>1, <2>4, <3>1, <3>2 DEF InOrder, Granted, LatestUsable
    <3>5. OneAtATime' /\ FileUpToDate' /\ ~reused'
      BY <1>1, <2>2, <3>1, <3>3 DEF InOrder, OneAtATime, FileUpToDate
    <3>6. CallerUpToDate'
      BY <1>1, <2>2, <2>4, <3>1, <3>2, <3>3 DEF CallerUpToDate
    <3> QED BY <3>4, <3>5, <3>6 DEF InOrder
  <2> QED BY <2>5, <2>6, <2>7
<1> QED BY <1>2, <1>3

LEMMA AuthLoadStep ==
  ASSUME AInv, NEW c \in AuthCaller, LoadStore(c)
  PROVE  AInv'
<1> USE DEF AInv
<1> DEFINE p == caller[c].of
           copy == [authFile EXCEPT ![p] = caller[c].cred]
<1>1. /\ caller[c].step = "load" /\ p \in Provider /\ copy \in AuthStore
      /\ UNCHANGED <<authFile, granted, stale, spent, latest, reused, crowded, unsaved>>
  BY DEF LoadStore, tokenVars, authHistory, AuthTypeOK, AuthStore
<1>2. /\ caller'[c] = [step |-> "save", of |-> p, cred |-> caller[c].cred,
                       copy |-> copy, then |-> caller[c].then]
      /\ \A d \in AuthCaller \ {c} : caller'[d] = caller[d]
      /\ caller' = [d \in AuthCaller |-> caller'[d]]
  BY DEF LoadStore, AuthTypeOK
<1>3. AuthTypeOK'
  <2>1. \A d \in AuthCaller : caller[d] \in CallerState
    BY DEF AuthTypeOK, CallerState
  <2>2. caller'[c] \in CallerState
    <3>1. caller[c].cred \in Cred \cup {NoCred} /\ caller[c].then \in {"idle", "project"}
      BY DEF AuthTypeOK
    <3> HIDE DEF copy, p
    <3> QED BY <1>1, <1>2, <3>1 DEF CallerState
  <2>3. \A d \in AuthCaller : caller'[d] \in CallerState
    BY <1>2, <2>1, <2>2
  <2>4. caller' = [d \in AuthCaller |-> caller'[d]]
    BY <1>2
  <2>5. caller' \in [AuthCaller -> CallerState]
    <3> QED BY ONLY <2>3, <2>4
  <2> QED BY <1>1, <2>5 DEF AuthTypeOK, CallerState
<1>4. HasCred' BY <1>2 DEF HasCred
<1>5. ASSUME ~crowded', ~unsaved' PROVE InOrder'
  <2>1. InOrder BY <1>1, <1>5
  <2>2. copy = latest
    <3>1. caller[c].cred = latest[p] /\ \A q \in Provider \ {p} : authFile[q] = latest[q]
      BY <1>1, <2>1 DEF InOrder, CallerUpToDate
    <3>2. copy = [q \in Provider |-> latest[q]]
      BY <3>1 DEF AuthTypeOK, AuthStore
    <3> QED BY <3>2 DEF AuthTypeOK, AuthStore
  <2> HIDE DEF copy
  <2>3. OneAtATime' /\ FileUpToDate' /\ ~reused'
    BY <1>1, <1>2, <2>1 DEF InOrder, OneAtATime, FileUpToDate
  <2>4. CallerUpToDate'
    BY <1>1, <1>2, <2>1, <2>2 DEF InOrder, CallerUpToDate
  <2>5. Granted' /\ LatestUsable'
    BY <1>1, <2>1 DEF InOrder, Granted, LatestUsable
  <2> QED BY <2>3, <2>4, <2>5 DEF InOrder
<1> QED BY <1>3, <1>4, <1>5

LEMMA AuthSaveStep ==
  ASSUME AInv, NEW c \in AuthCaller, SaveStore(c)
  PROVE  AInv'
<1> USE DEF AInv
<1>1. /\ caller[c].step = "save" /\ caller[c].of \in Provider /\ caller[c].copy \in AuthStore
      /\ UNCHANGED <<granted, stale, spent, latest, reused, crowded>>
  BY DEF SaveStore, tokenVars, AuthTypeOK
<1>2. CASE unsaved' = TRUE /\ UNCHANGED authFile /\ Rests(c)
  <2>1. AuthTypeOK' BY <1>1, <1>2, AuthRestsType DEF AuthTypeOK
  <2>2. HasCred' BY <1>2, AuthRestsType DEF HasCred
  <2> QED BY <1>2, <2>1, <2>2
<1>3. CASE ~(unsaved' = TRUE /\ UNCHANGED authFile /\ Rests(c))
  <2>1. /\ authFile' = caller[c].copy /\ unsaved' = unsaved
        /\ \A d \in AuthCaller \ {c} : caller'[d] = caller[d]
        /\ caller' = [d \in AuthCaller |-> caller'[d]]
        /\ caller[c].then = "idle" => caller'[c] = Resting
        /\ caller[c].then # "idle" =>
              caller'[c] = [step |-> "project", of |-> caller[c].of, cred |-> caller[c].cred,
                            copy |-> NothingStored, then |-> "idle"]
    BY <1>3 DEF SaveStore, AuthTypeOK
  <2>2. /\ caller[c].then \in {"idle", "project"}
        /\ Resting.step = "idle" /\ Resting.then = "idle" /\ NothingStored \in AuthStore
    BY DEF AuthTypeOK, Resting, NothingStored, AuthStore
  <2>3. AuthTypeOK'
    <3>1. \A d \in AuthCaller : caller'[d] \in
            [step : {"idle", "refresh", "project", "load", "save"}, of : Provider,
             cred : Cred \cup {NoCred}, copy : AuthStore, then : {"idle", "project"}]
      BY <1>1, <2>1, <2>2, AuthRestingType DEF AuthTypeOK
    <3>2. caller' \in [AuthCaller ->
             [step : {"idle", "refresh", "project", "load", "save"}, of : Provider,
              cred : Cred \cup {NoCred}, copy : AuthStore, then : {"idle", "project"}]]
      BY <2>1, <3>1
    <3> QED BY <1>1, <2>1, <3>2 DEF AuthTypeOK
  <2>4. HasCred' BY <2>1, <2>2 DEF HasCred
  <2>5. ASSUME ~crowded', ~unsaved' PROVE InOrder'
    <3>1. InOrder BY <1>1, <2>1, <2>5
    <3>2. authFile' = latest /\ caller[c].cred = latest[caller[c].of]
      BY <1>1, <2>1, <3>1 DEF InOrder, CallerUpToDate
    <3>3. \A d \in AuthCaller \ {c} : caller'[d].step = "idle"
      BY <1>1, <2>1, <3>1 DEF InOrder, OneAtATime
    <3>4. OneAtATime' /\ FileUpToDate' /\ ~reused'
      BY <1>1, <3>1, <3>2, <3>3 DEF InOrder, OneAtATime, FileUpToDate
    <3>5. CallerUpToDate'
      BY <1>1, <2>1, <2>2, <3>2, <3>3 DEF CallerUpToDate
    <3>6. Granted' /\ LatestUsable'
      BY <1>1, <3>1 DEF InOrder, Granted, LatestUsable
    <3> QED BY <3>4, <3>5, <3>6 DEF InOrder
  <2> QED BY <2>3, <2>4, <2>5
<1> QED BY <1>2, <1>3

(***************************************************************************)
(* Theorems                                                                *)
(***************************************************************************)

LEMMA AInvStep == AInv /\ [AuthNext]_authVars => AInv'
<1> SUFFICES ASSUME AInv, [AuthNext]_authVars
             PROVE  AInv'
  OBVIOUS
<1>1. CASE UNCHANGED authVars
  BY <1>1 DEF authVars, AInv, AuthTypeOK, HasCred, InOrder, Granted, LatestUsable, OneAtATime,
              CallerUpToDate, FileUpToDate
<1> QED BY <1>1, AuthExpireStep, AuthLoginStep, AuthLogoutStep, AuthGetStep, AuthRefreshStep, AuthRefreshFailsStep,
           AuthProjectStep, AuthLoadStep, AuthSaveStep DEF AuthNext, AuthStep

LEMMA AInvHolds == AuthSpec => []AInv
  BY InitAInv, AInvStep, PTL DEF AuthSpec

\* Types of the file, the callers and the grants.
THEOREM AuthTypeCorrect == AuthSpec => []AuthTypeOK
<1>1. AInv => AuthTypeOK BY DEF AInv
<1> QED BY <1>1, AInvHolds, PTL

\* Callers who follow one another, and whose saves succeed, never present a spent refresh
\* token, and leave what was granted last in the file.
THEOREM LastGrantStoredHolds == AuthSpec => []LastGrantStored
<1>1. AInv => LastGrantStored BY DEF AInv, InOrder, FileUpToDate, LastGrantStored
<1> QED BY <1>1, AInvHolds, PTL

(***************************************************************************)
(* Subagents                                                               *)
(***************************************************************************)

TurnState == [step : {"idle", "llm", "execute", "spawn"}, chat : Chat \cup {NoChat},
              origin : Chat \cup {NoChat}, alone : BOOLEAN]
TaskState == [step : {"none", "start", "loop", "report", "done"}, origin : Chat \cup {NoChat},
              from : Chat \cup {NoChat}, alone : BOOLEAN, told : BOOLEAN]

\* A turn works for a chat; the tool's context is that chat while the turn is between SetContext
\* and Execute and nobody came between, and so is the origin it has read.
SubTurns ==
    /\ turn \in [Turner -> TurnState] /\ origin \in Chat \cup {NoChat}
    /\ \A t \in Turner :
          /\ turn[t].step # "idle" => turn[t].chat \in Chat /\ origin \in Chat
          /\ turn[t].step = "execute" /\ turn[t].alone => origin = turn[t].chat
          /\ turn[t].step = "spawn" => turn[t].origin \in Chat
          /\ turn[t].step = "spawn" /\ turn[t].alone => turn[t].origin = turn[t].chat

\* A task reports to a chat, and its report is in the queue only between its end and the turn
\* that takes it.
SubTasks ==
    /\ task \in [Task -> TaskState] /\ inbound \in Seq(Inbound)
    /\ \A k \in Task : task[k].step # "none" => task[k].origin \in Chat
    /\ \A k \in Task : task[k].told => task[k].step = "done"
    /\ \A i \in DOMAIN inbound : inbound[i].task # 0 => task[inbound[i].task].step = "done"
    /\ ReportsHome

SubRest ==
    /\ Len(inbound) <= Capacity /\ written \in 0..MaxUser
    /\ mutex \in Task \cup {Free} /\ running \in BOOLEAN

SubInv == SubTurns /\ SubTasks /\ SubRest

LEMMA SubInvTypes == SubInv => SubTypeOK
BY DEF SubInv, SubTurns, SubTasks, SubRest, SubTypeOK, TurnState, TaskState

LEMMA SubInitInv == SubInit => SubInv
<1> SUFFICES ASSUME SubInit PROVE SubInv
  OBVIOUS
<1>1. NoTurn \in TurnState /\ NoTurn.step = "idle"
  BY DEF NoTurn, TurnState
<1>2. SubTurns
  BY <1>1 DEF SubInit, SubTurns
<1>3. NoneYet \in TaskState /\ NoneYet.step = "none" /\ ~NoneYet.told /\ NoneYet.origin = NoneYet.from
  BY DEF NoneYet, TaskState
<1>4. inbound \in Seq(Inbound) /\ Len(inbound) = 0 /\ DOMAIN inbound = {}
  BY DEF SubInit
<1>5. SubTasks
  BY <1>3, <1>4 DEF SubInit, SubTasks, ReportsHome
<1>6. SubRest
  BY <1>4, SubagentAssumption DEF SubInit, SubRest
<1> QED BY <1>2, <1>5, <1>6 DEF SubInv

\* What the beginning of a turn does to the turns.
LEMMA SubBegin ==
  ASSUME SubTurns, NEW t \in Turner, NEW c \in Chat, BeginTurn(t, c)
  PROVE  SubTurns'
<1>1. /\ origin' = c
      /\ \A s \in Turner : turn[s] \in TurnState
      /\ turn' = [[s \in Turner |-> [turn[s] EXCEPT !.alone = @ /\ turn[s].step # "execute"]]
                    EXCEPT ![t] = [NoTurn EXCEPT !.step = "llm", !.chat = c]]
  BY DEF BeginTurn, Interfered, SubTurns
<1>2. PICK new : new = [NoTurn EXCEPT !.step = "llm", !.chat = c]
  OBVIOUS
<1>3. new \in TurnState /\ new.step = "llm" /\ new.chat = c
  BY <1>2 DEF NoTurn, TurnState
<1>4. turn'[t] = new /\ DOMAIN turn' = Turner
  BY <1>1, <1>2
<1>5. ASSUME NEW s \in Turner, s # t
      PROVE  /\ turn'[s] \in TurnState /\ turn'[s].step = turn[s].step /\ turn'[s].chat = turn[s].chat
             /\ turn'[s].origin = turn[s].origin
             /\ turn'[s].alone => turn[s].alone /\ turn[s].step # "execute"
  <2>1. turn'[s] = [turn[s] EXCEPT !.alone = @ /\ turn[s].step # "execute"]
    BY <1>1, <1>5
  <2>2. turn[s] \in TurnState BY <1>1
  <2> QED BY <2>1, <2>2 DEF TurnState
<1>6. \A s \in Turner : turn'[s] \in TurnState
  BY <1>3, <1>4, <1>5
<1>7. turn' \in [Turner -> TurnState]
  <2>1. turn' = [s \in Turner |-> turn'[s]] BY <1>1
  <2> QED BY <1>6, <2>1
<1>8. ASSUME NEW s \in Turner
      PROVE  /\ turn'[s].step # "idle" => turn'[s].chat \in Chat /\ origin' \in Chat
             /\ turn'[s].step = "execute" /\ turn'[s].alone => origin' = turn'[s].chat
             /\ turn'[s].step = "spawn" => turn'[s].origin \in Chat
             /\ turn'[s].step = "spawn" /\ turn'[s].alone => turn'[s].origin = turn'[s].chat
  <2>1. CASE s = t BY <1>1, <1>3, <1>4, <2>1
  <2>2. CASE s # t BY <1>1, <1>5, <2>2 DEF SubTurns
  <2> QED BY <2>1, <2>2
<1> QED BY <1>1, <1>7, <1>8 DEF SubTurns

\* One turn goes on, the context stays.
LEMMA SubGoesOn ==
  ASSUME SubTurns, NEW t \in Turner, NEW new \in TurnState, turn' = [turn EXCEPT ![t] = new], origin' = origin,
         new.step # "idle" => new.chat \in Chat /\ origin \in Chat,
         new.step # "execute",
         new.step = "spawn" => new.origin \in Chat,
         new.step = "spawn" /\ new.alone => new.origin = new.chat
  PROVE  SubTurns'
<1>1. /\ turn' \in [Turner -> TurnState] /\ turn'[t] = new
      /\ \A s \in Turner \ {t} : turn'[s] = turn[s]
  BY DEF SubTurns
<1>2. ASSUME NEW s \in Turner
      PROVE  /\ turn'[s].step # "idle" => turn'[s].chat \in Chat /\ origin' \in Chat
             /\ turn'[s].step = "execute" /\ turn'[s].alone => origin' = turn'[s].chat
             /\ turn'[s].step = "spawn" => turn'[s].origin \in Chat
             /\ turn'[s].step = "spawn" /\ turn'[s].alone => turn'[s].origin = turn'[s].chat
  <2>1. CASE s = t BY <1>1, <2>1
  <2>2. CASE s # t BY <1>1, <2>2 DEF SubTurns
  <2> QED BY <2>1, <2>2
<1> QED BY <1>1, <1>2 DEF SubTurns

\* The turns.
LEMMA SubTurnSteps ==
  ASSUME SubInv,
         \/ \E t \in Side, c \in SideChat : SideTurn(t, c)
         \/ \E t \in Turner : SetContextSpawn(t) \/ Execute(t) \/ EndTurn(t)
  PROVE  SubInv'
<1>0. SubTurns /\ Side \subseteq Turner /\ SideChat \subseteq Chat /\ turn \in [Turner -> TurnState]
  BY DEF SubInv, Turner, Chat, SubTurns
<1>1. UNCHANGED <<inbound, written, task, mutex, running>>
  BY DEF SideTurn, SetContextSpawn, Execute, EndTurn
<1>2. SubTasks' /\ SubRest'
  BY <1>1 DEF SubInv, SubTasks, SubRest, ReportsHome
<1>3. ASSUME NEW t \in Side, NEW c \in SideChat, SideTurn(t, c) PROVE SubTurns'
  BY <1>0, <1>3, SubBegin DEF SideTurn
<1>4. ASSUME NEW t \in Turner, SetContextSpawn(t) PROVE SubTurns'
  <2>1. PICK c : c = turn[t].chat /\ c \in Chat /\ turn[t].step = "llm"
    BY <1>0, <1>4 DEF SetContextSpawn, SubTurns
  <2>2. /\ origin' = c
        /\ turn' = [[s \in Turner |-> [turn[s] EXCEPT !.alone = @ /\ turn[s].step # "execute"]]
                      EXCEPT ![t].step = "execute"]
    BY <1>4, <2>1 DEF SetContextSpawn, Interfered
  <2>3. ASSUME NEW s \in Turner
        PROVE  /\ turn'[s] \in TurnState /\ turn'[s].chat = turn[s].chat /\ turn'[s].origin = turn[s].origin
               /\ turn'[s].step = IF s = t THEN "execute" ELSE turn[s].step
               /\ s # t /\ turn'[s].alone => turn[s].alone /\ turn[s].step # "execute"
    <3>1. turn[s] \in TurnState BY <1>0
    <3>2. CASE s = t
      <4>1. turn'[s] = [[turn[s] EXCEPT !.alone = @ /\ turn[s].step # "execute"] EXCEPT !.step = "execute"]
        BY <2>2, <3>2
      <4> QED BY <3>1, <3>2, <4>1 DEF TurnState
    <3>3. CASE s # t
      <4>1. turn'[s] = [turn[s] EXCEPT !.alone = @ /\ turn[s].step # "execute"]
        BY <2>2, <3>3
      <4> QED BY <3>1, <3>3, <4>1 DEF TurnState
    <3> QED BY <3>2, <3>3
  <2>4. turn' \in [Turner -> TurnState]
    <3>1. turn' = [s \in Turner |-> turn'[s]] BY <2>2
    <3> QED BY <2>3, <3>1
  <2>5. ASSUME NEW s \in Turner
        PROVE  /\ turn'[s].step # "idle" => turn'[s].chat \in Chat /\ origin' \in Chat
               /\ turn'[s].step = "execute" /\ turn'[s].alone => origin' = turn'[s].chat
               /\ turn'[s].step = "spawn" => turn'[s].origin \in Chat
               /\ turn'[s].step = "spawn" /\ turn'[s].alone => turn'[s].origin = turn'[s].chat
    <3>1. turn[s].step # "idle" => turn[s].chat \in Chat
      BY DEF SubInv, SubTurns
    <3>2. turn[s].step = "spawn" => turn[s].origin \in Chat /\ (turn[s].alone => turn[s].origin = turn[s].chat)
      BY DEF SubInv, SubTurns
    <3>3. CASE s = t
      <4>1. turn'[s].step = "execute" /\ turn'[s].chat = c
        BY <2>1, <2>3, <3>3
      <4> QED BY <2>1, <2>2, <4>1
    <3>4. CASE s # t
      <4>1. /\ turn'[s].step = turn[s].step /\ turn'[s].chat = turn[s].chat /\ turn'[s].origin = turn[s].origin
            /\ turn'[s].alone => turn[s].alone /\ turn[s].step # "execute"
        BY <2>3, <3>4
      <4> QED BY <2>1, <2>2, <3>1, <3>2, <4>1
    <3> QED BY <3>3, <3>4
  <2> QED BY <2>1, <2>2, <2>4, <2>5 DEF SubTurns
<1>5. ASSUME NEW t \in Turner, Execute(t) PROVE SubTurns'
  <2>1. PICK q : q = turn[t] /\ q \in TurnState /\ q.step = "execute" /\ q.chat \in Chat /\ origin \in Chat
                 /\ (q.alone => origin = q.chat)
    BY <1>0, <1>5 DEF Execute, SubTurns
  <2>2. PICK new : new = [q EXCEPT !.step = "spawn", !.origin = origin] OBVIOUS
  <2>3. new \in TurnState /\ new.step = "spawn" /\ new.origin = origin /\ new.chat = q.chat /\ new.alone = q.alone
    BY <2>1, <2>2 DEF TurnState
  <2>4. turn' = [turn EXCEPT ![t] = new] /\ origin' = origin
    BY <1>5, <2>1, <2>2 DEF Execute
  <2> QED BY <1>0, <2>1, <2>3, <2>4, SubGoesOn
<1>6. ASSUME NEW t \in Turner, EndTurn(t) PROVE SubTurns'
  <2>1. NoTurn \in TurnState /\ NoTurn.step = "idle" BY DEF NoTurn, TurnState
  <2>2. turn' = [turn EXCEPT ![t] = NoTurn] /\ origin' = origin BY <1>6 DEF EndTurn
  <2> QED BY <1>0, <2>1, <2>2, SubGoesOn
<1> QED BY <1>2, <1>3, <1>4, <1>5, <1>6 DEF SubInv

\* One task goes on to a later step; what it had to say and to whom stays.
LEMMA SubTaskGoesOn ==
  ASSUME SubTasks, NEW k \in Task, NEW step \in {"loop", "report", "done"},
         task[k].step \notin {"none", "done"}, task' = [task EXCEPT ![k].step = step], inbound' = inbound
  PROVE  SubTasks'
<1>1. PICK q : q = task[k] /\ q \in TaskState /\ q.step \notin {"none", "done"}
  BY DEF SubTasks
<1>2. /\ task' \in [Task -> TaskState]
      /\ task'[k].step = step /\ task'[k].origin = q.origin /\ task'[k].from = q.from
      /\ task'[k].alone = q.alone /\ task'[k].told = q.told
      /\ \A j \in Task \ {k} : task'[j] = task[j]
  <2>1. [q EXCEPT !.step = step] \in TaskState BY <1>1 DEF TaskState
  <2>2. task' = [task EXCEPT ![k] = [q EXCEPT !.step = step]] BY <1>1
  <2>3. task'[k] = [q EXCEPT !.step = step] BY <1>1, <2>2 DEF SubTasks
  <2> QED BY <1>1, <2>1, <2>2, <2>3 DEF SubTasks, TaskState
<1>3. \A i \in DOMAIN inbound : inbound[i].task # 0 =>
         inbound[i].task # k /\ inbound[i].task \in Task /\ task'[inbound[i].task] = task[inbound[i].task]
  <2>1. \A i \in DOMAIN inbound : inbound[i] \in Inbound BY DEF SubTasks
  <2>2. \A i \in DOMAIN inbound : inbound[i].task # 0 => inbound[i].task \in Task
    BY <2>1, SubagentAssumption DEF Inbound, Task
  <2> QED BY <1>1, <1>2, <2>2 DEF SubTasks
<1>4. ReportsHome'
  <2>1. \A j \in Task : task'[j].alone => task'[j].origin = task'[j].from
    BY <1>1, <1>2 DEF SubTasks, ReportsHome
  <2> QED BY <1>3, <2>1 DEF SubTasks, ReportsHome
<1>5. \A j \in Task : (task'[j].step # "none" => task'[j].origin \in Chat) /\ (task'[j].told => task'[j].step = "done")
  <2>1. q.origin \in Chat /\ ~q.told BY <1>1 DEF SubTasks
  <2> QED BY <1>2, <2>1 DEF SubTasks
<1> QED BY <1>2, <1>3, <1>4, <1>5 DEF SubTasks

\* Spawn.
LEMMA SubSpawnStep ==
  ASSUME SubInv, NEW t \in Turner, Spawn(t)
  PROVE  SubInv'
<1>1. PICK q : /\ q = turn[t] /\ q \in TurnState /\ q.step = "spawn" /\ q.chat \in Chat /\ q.origin \in Chat
               /\ origin \in Chat /\ (q.alone => q.origin = q.chat)
  BY DEF Spawn, SubInv, SubTurns
<1>2. SubTurns'
  <2>1. PICK new : new = [NoTurn EXCEPT !.step = "llm", !.chat = q.chat] OBVIOUS
  <2>2. new \in TurnState /\ new.step = "llm" /\ new.chat = q.chat BY <1>1, <2>1 DEF NoTurn, TurnState
  <2>3. turn' = [turn EXCEPT ![t] = new] /\ origin' = origin BY <1>1, <2>1 DEF Spawn
  <2> QED BY <1>1, <2>2, <2>3, SubGoesOn DEF SubInv
<1>3. UNCHANGED <<inbound, written, mutex, running>>
  BY DEF Spawn
<1>4. SubRest'
  BY <1>3 DEF SubInv, SubRest
<1>5. CASE UNCHANGED task
  BY <1>2, <1>3, <1>4, <1>5 DEF SubInv, SubTasks, ReportsHome
<1>6. ASSUME NEW k \in Task, task[k].step = "none",
             task' = [task EXCEPT ![k] = [NoneYet EXCEPT !.step = "start", !.origin = turn[t].origin,
                                                         !.from = turn[t].chat, !.alone = turn[t].alone]]
      PROVE  SubTasks'
  <2>1. PICK new : new = [NoneYet EXCEPT !.step = "start", !.origin = q.origin, !.from = q.chat, !.alone = q.alone]
    OBVIOUS
  <2>2. /\ new \in TaskState /\ new.step = "start" /\ new.origin = q.origin /\ new.from = q.chat
        /\ new.alone = q.alone /\ new.told = FALSE
    BY <1>1, <2>1 DEF NoneYet, TaskState, TurnState
  <2>3. task' = [task EXCEPT ![k] = new]
    BY <1>1, <1>6, <2>1
  <2>4. task' \in [Task -> TaskState] /\ task'[k] = new /\ \A j \in Task \ {k} : task'[j] = task[j]
    BY <2>2, <2>3 DEF SubInv, SubTasks
  <2>5. \A i \in DOMAIN inbound : inbound[i].task # 0 =>
           inbound[i].task # k /\ inbound[i].task \in Task /\ task'[inbound[i].task] = task[inbound[i].task]
    <3>1. \A i \in DOMAIN inbound : inbound[i] \in Inbound BY DEF SubInv, SubTasks
    <3>2. \A i \in DOMAIN inbound : inbound[i].task # 0 => inbound[i].task \in Task
      BY <3>1, SubagentAssumption DEF Inbound, Task
    <3> QED BY <1>6, <2>4, <3>2 DEF SubInv, SubTasks
  <2>6. ReportsHome'
    <3>1. \A j \in Task : task'[j].alone => task'[j].origin = task'[j].from
      BY <1>1, <2>2, <2>4 DEF SubInv, SubTasks, ReportsHome
    <3> QED BY <1>3, <2>5, <3>1 DEF SubInv, SubTasks, ReportsHome
  <2>7. \A j \in Task : (task'[j].step # "none" => task'[j].origin \in Chat) /\ (task'[j].told => task'[j].step = "done")
    BY <1>1, <2>2, <2>4 DEF SubInv, SubTasks
  <2> QED BY <1>3, <2>4, <2>5, <2>6, <2>7 DEF SubInv, SubTasks
<1> QED BY <1>2, <1>4, <1>5, <1>6 DEF SubInv, Spawn

\* Run takes a message; if it is a report, nobody takes it again.
LEMMA SubConsumeStep ==
  ASSUME SubInv, Consume
  PROVE  SubInv'
<1>1. PICK n, q, head : /\ n \in Nat /\ q = inbound' /\ head = Head(inbound)
                        /\ n + 1 = Len(inbound) /\ head = inbound[1] /\ head \in Inbound
                        /\ q \in Seq(Inbound) /\ Len(q) = n
                        /\ \A i \in 1..n : q[i] = inbound[i + 1] /\ i + 1 \in DOMAIN inbound
                        /\ 1 \in DOMAIN inbound /\ DOMAIN q = 1..n
  <2>1. PICK w \in Nat : w = Len(inbound) /\ w # 0 /\ inbound \in Seq(Inbound) /\ inbound # <<>>
    BY DEF Consume, SubInv, SubTasks
  <2>2. /\ Tail(inbound) \in Seq(Inbound) /\ Len(Tail(inbound)) = w - 1
        /\ \A i \in 1..(w - 1) : Tail(inbound)[i] = inbound[i + 1] /\ i + 1 \in DOMAIN inbound
        /\ Head(inbound) = inbound[1] /\ inbound[1] \in Inbound /\ 1 \in DOMAIN inbound
    BY <2>1
  <2>3. PICK m \in Nat : m = w - 1 /\ m + 1 = w
    BY <2>1
  <2>4. PICK q : q = inbound'
    OBVIOUS
  <2>5. q = Tail(inbound)
    BY <2>4 DEF Consume
  <2>6. DOMAIN q = 1..m
    BY <2>2, <2>3, <2>5
  <2> QED BY <2>1, <2>2, <2>3, <2>4, <2>5, <2>6
<1>2. head.chat \in Chat /\ head.task \in 0..MaxTask
  BY <1>1 DEF Inbound
<1>3. SubTurns'
  BY <1>1, <1>2, SubBegin DEF SubInv, Consume, Turner
<1>4. SubRest'
  <2>1. n <= Capacity BY <1>1, SubagentAssumption DEF SubInv, SubRest
  <2> QED BY <1>1, <2>1 DEF SubInv, SubRest, Consume
\* What is left in the queue are other reports.
<1>5. \A i \in 1..n : q[i].task # 0 =>
         /\ q[i].task \in Task /\ q[i].task # head.task
         /\ task[q[i].task].step = "done" /\ q[i].chat = task[q[i].task].origin /\ ~task[q[i].task].told
         /\ \A j \in 1..n : j # i => q[j].task # q[i].task
  <2> SUFFICES ASSUME NEW i \in 1..n, q[i].task # 0
               PROVE  /\ q[i].task \in Task /\ q[i].task # head.task
                      /\ task[q[i].task].step = "done" /\ q[i].chat = task[q[i].task].origin /\ ~task[q[i].task].told
                      /\ \A j \in 1..n : j # i => q[j].task # q[i].task
    OBVIOUS
  <2>1. q[i] = inbound[i + 1] /\ i + 1 \in DOMAIN inbound /\ i + 1 # 1 /\ q[i] \in Inbound
    BY <1>1
  <2>2. q[i].task \in Task
    BY <2>1, SubagentAssumption DEF Inbound, Task
  <2>3. /\ task[q[i].task].step = "done" /\ q[i].chat = task[q[i].task].origin /\ ~task[q[i].task].told
        /\ \A j \in DOMAIN inbound : j # i + 1 => inbound[j].task # q[i].task
    BY <2>1 DEF SubInv, SubTasks, ReportsHome
  <2>4. \A j \in 1..n : j # i => q[j].task # q[i].task
    <3>1. \A j \in 1..n : j # i => j + 1 # i + 1 OBVIOUS
    <3> QED BY <1>1, <2>3, <3>1
  <2> QED BY <1>1, <2>1, <2>2, <2>3, <2>4
<1>6. CASE head.task = 0
  <2>1. task' = task BY <1>1, <1>6 DEF Consume
  <2>2. ReportsHome' BY <1>1, <1>5, <2>1 DEF SubInv, SubTasks, ReportsHome
  <2>3. SubTasks' BY <1>1, <1>5, <2>1, <2>2 DEF SubInv, SubTasks
  <2> QED BY <1>3, <1>4, <2>3 DEF SubInv
<1>7. CASE head.task # 0
  <2>1. PICK k, r : /\ k \in Task /\ k = head.task /\ r = task[k] /\ r \in TaskState /\ r.step = "done"
                    /\ task' = [task EXCEPT ![k] = [r EXCEPT !.told = TRUE]]
    <3>1. head.task \in Task BY <1>2, <1>7, SubagentAssumption DEF Task
    <3>2. task[head.task].step = "done" BY <1>1, <1>7 DEF SubInv, SubTasks
    <3> QED BY <1>1, <1>7, <3>1, <3>2 DEF Consume, SubInv, SubTasks
  <2>2. PICK new : new = [r EXCEPT !.told = TRUE]
    OBVIOUS
  <2>3. /\ new \in TaskState /\ new.step = "done" /\ new.origin = r.origin /\ new.from = r.from /\ new.alone = r.alone
    BY <2>1, <2>2 DEF TaskState
  <2>4. task' \in [Task -> TaskState] /\ task'[k] = new /\ \A j \in Task \ {k} : task'[j] = task[j]
    BY <2>1, <2>2, <2>3 DEF SubInv, SubTasks
  <2>5. \A i \in 1..n : q[i].task # 0 => task'[q[i].task] = task[q[i].task]
    BY <1>5, <2>1, <2>4
  <2>6. ReportsHome'
    <3>1. \A j \in Task : task'[j].alone => task'[j].origin = task'[j].from
      BY <2>1, <2>3, <2>4 DEF SubInv, SubTasks, ReportsHome
    <3> QED BY <1>1, <1>5, <2>5, <3>1 DEF ReportsHome
  <2>7. \A j \in Task : (task'[j].step # "none" => task'[j].origin \in Chat) /\ (task'[j].told => task'[j].step = "done")
    BY <2>1, <2>3, <2>4 DEF SubInv, SubTasks
  <2>8. SubTasks' BY <1>1, <1>5, <2>4, <2>5, <2>6, <2>7 DEF SubTasks
  <2> QED BY <1>3, <1>4, <2>8 DEF SubInv
<1> QED BY <1>6, <1>7

\* What a message is.
LEMMA SubMessage ==
  ASSUME NEW k \in 0..MaxTask, NEW c \in Chat
  PROVE  \E m \in Inbound : m = [task |-> k, chat |-> c] /\ m.task = k /\ m.chat = c
<1>1. [task |-> k, chat |-> c] \in [task : 0..MaxTask, chat : Chat]
  OBVIOUS
<1>2. [task |-> k, chat |-> c] \in Inbound
  BY <1>1 DEF Inbound
<1> QED BY <1>2

\* A message or a report enters the queue.
LEMMA SubEnqueue ==
  ASSUME SubTasks, NEW m \in Inbound, inbound' = Append(inbound, m), NEW new \in [Task -> TaskState], task' = new,
         \A j \in Task : new[j].step # "none" => new[j].origin \in Chat,
         \A j \in Task : new[j].told => new[j].step = "done",
         \A j \in Task : new[j].alone => new[j].origin = new[j].from,
         \A i \in DOMAIN inbound : inbound[i].task # 0 => new[inbound[i].task] = task[inbound[i].task],
         m.task # 0 => /\ m.chat = new[m.task].origin /\ new[m.task].step = "done" /\ ~new[m.task].told
                       /\ \A i \in DOMAIN inbound : inbound[i].task # m.task
  PROVE  SubTasks'
<1>1. PICK n \in Nat : n = Len(inbound) /\ DOMAIN inbound = 1..n
  BY DEF SubTasks
<1>2. PICK q : q = inbound' OBVIOUS
<1>3. /\ q \in Seq(Inbound) /\ Len(q) = n + 1 /\ DOMAIN q = 1..(n + 1) /\ q[n + 1] = m
      /\ \A i \in 1..n : q[i] = inbound[i]
  BY <1>1, <1>2 DEF SubTasks
<1>4. \A i \in 1..(n + 1) : i \in 1..n \/ i = n + 1
  BY <1>1
<1>5. \A i \in 1..n : i # n + 1
  BY <1>1
<1>6. ASSUME NEW i \in 1..(n + 1), q[i].task # 0
      PROVE  /\ new[q[i].task].step = "done" /\ q[i].chat = new[q[i].task].origin /\ ~new[q[i].task].told
             /\ \A j \in 1..(n + 1) : j # i => q[j].task # q[i].task
  <2>1. CASE i = n + 1
    BY <1>1, <1>3, <1>4, <1>6, <2>1
  <2>2. CASE i \in 1..n
    <3>1. /\ q[i] = inbound[i] /\ i \in DOMAIN inbound /\ new[q[i].task] = task[q[i].task]
      BY <1>1, <1>3, <1>6, <2>2
    <3>2. /\ task[q[i].task].step = "done" /\ q[i].chat = task[q[i].task].origin /\ ~task[q[i].task].told
          /\ \A j \in 1..n : j # i => inbound[j].task # q[i].task
      <4>1. inbound[i].task # 0 /\ inbound[i].task = q[i].task BY <1>6, <3>1
      <4> QED BY <1>1, <3>1, <4>1 DEF SubTasks, ReportsHome
    <3>3. q[n + 1].task # q[i].task
      <4>1. CASE m.task = 0 BY <1>3, <1>6, <4>1
      <4>2. CASE m.task # 0 BY <1>3, <3>1, <4>2
      <4> QED BY <4>1, <4>2
    <3> QED BY <1>3, <1>4, <3>1, <3>2, <3>3
  <2> QED BY <1>4, <2>1, <2>2
<1>7. ReportsHome'
  BY <1>2, <1>3, <1>6 DEF ReportsHome
<1> QED BY <1>2, <1>3, <1>6, <1>7 DEF SubTasks

\* The channels, the tasks and the shutdown.
LEMMA SubTaskSteps ==
  ASSUME SubInv,
         \/ \E c \in UserChat : UserMessage(c)
         \/ \E k \in Task : StartTask(k) \/ FinishTask(k) \/ Report(k)
         \/ Shutdown
  PROVE  SubInv'
<1>0. UNCHANGED <<turn, origin>>
  BY DEF UserMessage, StartTask, FinishTask, Report, Shutdown
<1>1. SubTurns'
  BY <1>0 DEF SubInv, SubTurns
<1>3. ASSUME NEW c \in UserChat, UserMessage(c) PROVE SubInv'
  <2>0. 0 \in 0..MaxTask /\ c \in Chat
    BY SubagentAssumption DEF Chat
  <2>1. PICK m : m = [task |-> 0, chat |-> c] /\ m \in Inbound /\ m.task = 0
    BY <2>0, SubMessage
  <2>2. inbound' = Append(inbound, m) /\ task' = task /\ Len(inbound) < Capacity /\ UNCHANGED <<mutex, running>>
    BY <1>3, <2>1 DEF UserMessage
  <2>3. SubTasks'
    <3>1. PICK f : f = task /\ f \in [Task -> TaskState]
      BY DEF SubInv, SubTasks
    <3>2. \A j \in Task : /\ f[j].step # "none" => f[j].origin \in Chat
                          /\ f[j].told => f[j].step = "done"
                          /\ f[j].alone => f[j].origin = f[j].from
      BY <3>1 DEF SubInv, SubTasks, ReportsHome
    <3>3. task' = f /\ SubTasks /\ inbound' = Append(inbound, m)
      BY <2>2, <3>1 DEF SubInv
    <3> QED BY <2>1, <3>1, <3>2, <3>3, SubEnqueue
  <2>4. written' \in 0..MaxUser
    BY <1>3, SubagentAssumption DEF UserMessage, SubInv, SubRest
  <2>5. Len(inbound') <= Capacity
    <3>1. PICK n \in Nat : n = Len(inbound) BY DEF SubInv, SubTasks
    <3>2. Len(inbound') = n + 1 BY <2>1, <2>2, <3>1 DEF SubInv, SubTasks
    <3> QED BY <2>2, <3>1, <3>2, SubagentAssumption
  <2> QED BY <1>1, <2>2, <2>3, <2>4, <2>5 DEF SubInv, SubRest
<1>4. ASSUME NEW k \in Task, StartTask(k) \/ FinishTask(k) PROVE SubInv'
  <2>1. PICK step \in {"loop", "report", "done"} : task' = [task EXCEPT ![k].step = step]
    BY <1>4 DEF StartTask, FinishTask
  <2>2. task[k].step \notin {"none", "done"} /\ inbound' = inbound
    BY <1>4 DEF StartTask, FinishTask
  <2>3. SubTasks'
    BY <2>1, <2>2, SubTaskGoesOn DEF SubInv
  <2>4. SubRest'
    BY <1>4 DEF StartTask, FinishTask, SubInv, SubRest
  <2> QED BY <1>1, <2>3, <2>4 DEF SubInv
<1>5. ASSUME NEW k \in Task, Report(k) PROVE SubInv'
  <2>1. /\ task[k].step = "report" /\ task' = [task EXCEPT ![k].step = "done"] /\ mutex' = Free
        /\ UNCHANGED <<written, running>>
    BY <1>5 DEF Report
  <2>2. CASE inbound' = inbound
    <3>1. SubTasks' BY <2>1, <2>2, SubTaskGoesOn DEF SubInv
    <3> QED BY <1>1, <2>1, <2>2, <3>1 DEF SubInv, SubRest
  <2>3. CASE Len(inbound) < Capacity /\ inbound' = Append(inbound, [task |-> k, chat |-> task[k].origin])
    <3>1. PICK q : q = task[k] /\ q \in TaskState /\ q.step = "report" /\ q.origin \in Chat /\ ~q.told
      BY <2>1 DEF SubInv, SubTasks
    <3>2. PICK m : m = [task |-> k, chat |-> q.origin] /\ m \in Inbound /\ m.task = k /\ m.chat = q.origin
      <4>1. k \in 0..MaxTask BY SubagentAssumption DEF Task
      <4> QED BY <3>1, <4>1, SubMessage
    <3>3. PICK new, f : new = [q EXCEPT !.step = "done"] /\ f = task' OBVIOUS
    <3>4. /\ new \in TaskState /\ new.step = "done" /\ new.origin = q.origin /\ new.from = q.from
          /\ new.alone = q.alone /\ new.told = q.told
      BY <3>1, <3>3 DEF TaskState
    <3>5. f \in [Task -> TaskState] /\ f[k] = new /\ \A j \in Task \ {k} : f[j] = task[j]
      <4>1. f = [task EXCEPT ![k] = new] BY <2>1, <3>1, <3>3
      <4> QED BY <3>4, <4>1 DEF SubInv, SubTasks
    <3>6. \A i \in DOMAIN inbound : inbound[i].task # 0 =>
             inbound[i].task # k /\ f[inbound[i].task] = task[inbound[i].task]
      <4>1. \A i \in DOMAIN inbound : inbound[i] \in Inbound BY DEF SubInv, SubTasks
      <4>2. \A i \in DOMAIN inbound : inbound[i].task # 0 => inbound[i].task \in Task
        BY <4>1, SubagentAssumption DEF Inbound, Task
      <4> QED BY <3>1, <3>5, <4>2 DEF SubInv, SubTasks
    <3>7. k # 0 BY SubagentAssumption DEF Task
    <3>8. \A j \in Task : /\ f[j].step # "none" => f[j].origin \in Chat
                          /\ f[j].told => f[j].step = "done"
                          /\ f[j].alone => f[j].origin = f[j].from
      BY <3>1, <3>4, <3>5 DEF SubInv, SubTasks, ReportsHome
    <3>9. inbound' = Append(inbound, m) /\ \A i \in DOMAIN inbound : inbound[i].task # m.task
      BY <2>3, <3>1, <3>2, <3>6, <3>7
    <3>10. SubTasks'
      <4>1. task' = f /\ SubTasks BY <3>3 DEF SubInv
      <4>2. m.chat = f[m.task].origin /\ f[m.task].step = "done" /\ ~f[m.task].told
        BY <3>1, <3>2, <3>4, <3>5
      <4> QED BY <3>2, <3>5, <3>6, <3>8, <3>9, <4>1, <4>2, SubEnqueue
    <3>11. Len(inbound') <= Capacity
      <4>1. PICK n \in Nat : n = Len(inbound) BY DEF SubInv, SubTasks
      <4>2. Len(inbound') = n + 1 BY <3>2, <3>9, <4>1 DEF SubInv, SubTasks
      <4> QED BY <2>3, <4>1, <4>2, SubagentAssumption
    <3> QED BY <1>1, <2>1, <3>10, <3>11 DEF SubInv, SubRest
  <2> QED BY <1>5, <2>2, <2>3 DEF Report
<1>6. CASE Shutdown
  <2>1. inbound' = <<>> /\ running' = FALSE /\ UNCHANGED <<written, task, mutex>>
    BY <1>6 DEF Shutdown
  <2>2. inbound' \in Seq(Inbound) /\ Len(inbound') = 0 /\ DOMAIN inbound' = {}
    BY <2>1
  <2>3. SubTasks'
    BY <2>1, <2>2 DEF SubInv, SubTasks, ReportsHome
  <2>4. SubRest'
    <3>1. Capacity \in Nat /\ 0 <= Capacity BY SubagentAssumption
    <3> QED BY <2>1, <2>2, <3>1 DEF SubInv, SubRest
  <2> QED BY <1>1, <2>3, <2>4 DEF SubInv
<1> QED BY <1>3, <1>4, <1>5, <1>6

LEMMA SubStep == SubInv /\ [SubNext]_subVars => SubInv'
<1>1. ASSUME SubInv, UNCHANGED subVars PROVE SubInv'
  BY <1>1 DEF subVars, SubInv, SubTurns, SubTasks, SubRest, ReportsHome
<1> QED BY <1>1, SubTurnSteps, SubSpawnStep, SubConsumeStep, SubTaskSteps DEF SubNext

\* A report goes to the chat whose turn spawned the task unless another turn came between SetContext
\* and Execute, and is told once: for any chats, turns, tasks and size of the queue.
THEOREM ReportsGoHome == SubSpec => [](SubTypeOK /\ ReportsHome)
<1>1. SubInv => SubTypeOK /\ ReportsHome
  BY SubInvTypes DEF SubInv, SubTasks
<1> QED BY SubInitInv, SubStep, <1>1, PTL DEF SubSpec

(***************************************************************************)
(* Credentials                                                             *)
(***************************************************************************)

\* Sweepers on their way.
CredBusy == {p \in Sweeper : refresh[p] # "idle"}

CredPlain ==
    /\ row \in {"none", "pending", "failed"} /\ flow \in BOOLEAN
    /\ leaving \in {"no", "revoke", "reset", "row", "credential", "done"}
    /\ issued \in Token /\ wait \in Nat /\ sweeping \in BOOLEAN

\* Whoever sends or stores holds the mutex and a copy of the credential; only sweepers count.
CredMutex ==
    /\ refresh \in [Refresher -> {"idle", "lock", "send", "store", "count"}]
    /\ current \in [Refresher -> Copy \cup {Nil}]
    /\ holder \in Refresher \cup {Nil}
    /\ \A p \in Refresher : refresh[p] \in {"send", "store"} => holder = p /\ current[p] \in Copy
    /\ \A p \in Refresher : refresh[p] = "count" => p \in Sweeper

\* A token in the vault or about to be sent is good, or known to be lost; the vault's one may be
\* spent already while its successor waits to be stored.
CredTokens ==
    /\ cred \in Credential \cup {Nil}
    /\ valid \subseteq Token /\ lost \subseteq Token
    /\ cred # Nil =>
          \/ cred.token \in valid \cup lost \cup {0}
          \/ \E p \in Refresher : refresh[p] = "store" /\ current[p].sent = cred.token
    /\ \A p \in Refresher : refresh[p] = "send" => current[p].token \in valid \cup lost
    /\ \A p \in Refresher : refresh[p] = "store" => current[p].token \in valid

\* Whoever is on the way was started while the retries were not used up.
CredCount ==
    /\ retries \in Nat
    /\ retries + Cardinality(CredBusy) < MaxRetries + Cardinality(Sweeper)

CredInv == CredPlain /\ CredMutex /\ CredTokens /\ CredCount

LEMMA CredBusyCount ==
  /\ IsFiniteSet(CredBusy) /\ Cardinality(CredBusy) \in Nat
  /\ Cardinality(Sweeper) \in Nat /\ Cardinality(CredBusy) <= Cardinality(Sweeper)
  /\ IsFiniteSet(CredBusy') /\ Cardinality(CredBusy') \in Nat
  /\ Cardinality(CredBusy') <= Cardinality(Sweeper)
<1>1. IsFiniteSet(Sweeper) BY CredentialsAssumption
<1>2. CredBusy \subseteq Sweeper /\ CredBusy' \subseteq Sweeper BY DEF CredBusy
<1> QED BY <1>1, <1>2, FS_Subset, FS_CardinalityType

LEMMA CredInvTypes == CredInv => CredTypeOK
<1> SUFFICES ASSUME CredInv PROVE CredTypeOK
  OBVIOUS
<1>1. PICK a, b, m \in Nat : a = Cardinality(CredBusy) /\ b = Cardinality(Sweeper) /\ m = MaxRetries
  BY CredBusyCount, CredentialsAssumption
<1>2. retries < MaxRetries + Cardinality(Sweeper)
  BY <1>1 DEF CredInv, CredCount
<1> QED BY <1>2 DEF CredInv, CredPlain, CredMutex, CredTokens, CredCount, CredTypeOK

LEMMA CredInitInv == CredInit => CredInv
<1> SUFFICES ASSUME CredInit PROVE CredInv
  OBVIOUS
<1>1. CredPlain
  <2>1. 0 \in Token BY CredentialsAssumption DEF Token
  <2> QED BY <2>1 DEF CredInit, CredPlain
<1>3. CredMutex
  BY DEF CredInit, CredMutex
<1>4. CredTokens
  BY DEF CredInit, CredTokens
<1>2. CredCount
  <2>1. CredBusy = {} BY DEF CredBusy, CredInit, Refresher
  <2>2. Cardinality(CredBusy) = 0 BY <2>1, FS_EmptySet
  <2>3. Cardinality(Sweeper) \in Nat BY CredBusyCount
  <2> QED BY <2>2, <2>3, CredentialsAssumption DEF CredInit, CredCount
<1> QED BY <1>1, <1>2, <1>3, <1>4 DEF CredInv

\* The retries may be forgotten and sweepers come home at any time.
LEMMA CredCountKept ==
  ASSUME CredCount, retries' \in {retries, 0}, CredBusy' \subseteq CredBusy
  PROVE  CredCount'
<1>1. PICK a, b, c, m \in Nat : /\ a = Cardinality(CredBusy) /\ b = Cardinality(Sweeper) /\ m = MaxRetries
                                /\ c = Cardinality(CredBusy') /\ m # 0
  BY CredBusyCount, CredentialsAssumption
<1>2. c <= a
  BY <1>1, CredBusyCount, FS_Subset
<1>3. c <= b
  BY <1>1, CredBusyCount
<1> QED BY <1>1, <1>2, <1>3 DEF CredCount

LEMMA CredSweepCounted ==
  ASSUME CredCount, CredMutex, NEW p \in Sweeper, retries < MaxRetries, retries' = retries,
         refresh[p] = "idle", refresh' = [refresh EXCEPT ![p] = "lock"]
  PROVE  CredCount'
<1>1. p \in Refresher BY DEF Refresher
<1>2. CredBusy' = CredBusy \cup {p} /\ p \notin CredBusy
  BY <1>1 DEF CredMutex, CredBusy, Refresher
<1>3. PICK b, c, m \in Nat : b = Cardinality(Sweeper) /\ m = MaxRetries /\ c = Cardinality(CredBusy')
  BY CredBusyCount, CredentialsAssumption
<1>4. c <= b
  BY <1>3, CredBusyCount
<1> QED BY <1>3, <1>4 DEF CredCount

LEMMA CredFailureCounted ==
  ASSUME CredCount, CredMutex, NEW p \in Refresher, CountFailure(p), p \in Sweeper
  PROVE  CredCount'
<1>1. CredBusy' = CredBusy \ {p} /\ p \in CredBusy
  BY DEF CredMutex, CredBusy, CountFailure, Refresher
<1>2. PICK a, b, c, m \in Nat : /\ a = Cardinality(CredBusy) /\ b = Cardinality(Sweeper) /\ m = MaxRetries
                                /\ c = Cardinality(CredBusy')
  BY CredBusyCount, CredentialsAssumption
<1>3. c = a - 1
  BY <1>1, <1>2, CredBusyCount, FS_RemoveElement
<1>4. retries' = retries + 1
  BY DEF CountFailure
<1> QED BY <1>2, <1>3, <1>4 DEF CredCount

\* The user and the provider's callback.
LEMMA CredTokensKept ==
  ASSUME CredTokens, UNCHANGED <<lost, refresh, current>>,
         valid \subseteq valid', valid' \subseteq Token, cred' \in Credential \cup {Nil},
         \/ cred' = Nil
         \/ cred # Nil /\ cred'.token = cred.token
         \/ cred'.token \in valid' \cup {0}
  PROVE  CredTokens'
<1>1. cred' # Nil =>
          \/ cred'.token \in valid' \cup lost \cup {0}
          \/ \E p \in Refresher : refresh[p] = "store" /\ current[p].sent = cred'.token
  BY DEF CredTokens
<1> QED BY <1>1 DEF CredTokens

LEMMA CredApiStep == CredInv /\ ApiStep => CredInv'
<1> SUFFICES ASSUME CredInv, ApiStep PROVE CredInv'
  OBVIOUS
<1> USE DEF CredInv
<1>1. CredMutex' /\ UNCHANGED <<lost, holder, refresh, current, sweeping>> /\ retries' \in {retries, 0}
  BY DEF ApiStep, handleConnect, handleReconnect, HandleCallback, handleDisconnect, Revoke, ResetRetries,
     DeleteRow, DeleteCredential, providerVars, retryVars, CredMutex
<1>2. CredCount'
  <2>1. CredBusy' = CredBusy BY <1>1 DEF CredBusy
  <2> QED BY <1>1, <2>1, CredCountKept
<1>3. CASE HandleCallback
  <2>1. CredPlain'
    BY <1>1, <1>3, CredentialsAssumption DEF HandleCallback, Returning, CredPlain, retryVars, Token
  <2>2. CASE UNCHANGED <<cred, valid>>
    BY <1>1, <1>2, <2>1, <2>2 DEF CredTokens
  <2>3. ASSUME NEW t \in Token, cred' = [token |-> t, left |-> Ttl, status |-> "active"],
               valid' = valid \cup ({t} \ {0})
        PROVE  CredTokens'
    <3>1. cred' \in Credential /\ cred'.token = t
      BY <2>3, CredentialsAssumption DEF Credential
    <3>2. t \in valid' \cup {0} /\ valid \subseteq valid' /\ valid' \subseteq Token
      BY <2>3 DEF CredTokens
    <3> QED BY <1>1, <3>1, <3>2, CredTokensKept
  <2> QED BY <1>1, <1>2, <1>3, <2>1, <2>2, <2>3 DEF HandleCallback
<1>4. CASE Revoke
  <2>1. CredPlain' /\ valid' = valid /\ UNCHANGED issued
    BY <1>1, <1>4 DEF Revoke, CredPlain, providerVars, retryVars
  <2>2. CASE cred' = cred
    BY <1>1, <1>2, <2>1, <2>2 DEF CredTokens
  <2>3. CASE cred # Nil /\ cred' = [cred EXCEPT !.status = "revoked"]
    <3>1. cred' \in Credential /\ cred'.token = cred.token
      BY <2>3 DEF CredTokens, Credential
    <3>2. valid \subseteq valid' /\ valid' \subseteq Token
      BY <2>1 DEF CredTokens
    <3> QED BY <1>1, <1>2, <2>1, <2>3, <3>1, <3>2, CredTokensKept
  <2> QED BY <1>4, <2>2, <2>3 DEF Revoke
<1>5. CASE DeleteCredential
  <2>1. CredPlain' /\ valid' = valid
    BY <1>1, <1>5 DEF DeleteCredential, CredPlain, providerVars, retryVars
  <2>2. CASE cred' = cred
    BY <1>1, <1>2, <2>1, <2>2 DEF CredTokens
  <2>3. CASE cred' = Nil
    BY <1>1, <1>2, <2>1, <2>3 DEF CredTokens
  <2> QED BY <1>5, <2>2, <2>3 DEF DeleteCredential
<1>6. CASE handleConnect \/ handleReconnect \/ handleDisconnect \/ ResetRetries \/ DeleteRow
  <2>1. UNCHANGED <<cred, valid, issued>> /\ wait' \in Nat
    BY <1>6 DEF handleConnect, handleReconnect, handleDisconnect, ResetRetries, DeleteRow, CredPlain,
       providerVars, retryVars
  <2>2. row' \in {"none", "pending", "failed"} /\ flow' \in BOOLEAN
        /\ leaving' \in {"no", "revoke", "reset", "row", "credential", "done"}
    <3>1. CASE handleConnect BY <3>1 DEF handleConnect, StartFlow, Returning, CredPlain
    <3>2. CASE handleReconnect BY <3>2 DEF handleReconnect, StartFlow, Returning, CredPlain
    <3>3. CASE handleDisconnect BY <3>3 DEF handleDisconnect, CredPlain
    <3>4. CASE ResetRetries BY <3>4 DEF ResetRetries, CredPlain
    <3>5. CASE DeleteRow BY <3>5 DEF DeleteRow, CredPlain
    <3> QED BY <1>6, <3>1, <3>2, <3>3, <3>4, <3>5
  <2>3. CredPlain'
    BY <1>1, <2>1, <2>2 DEF CredPlain
  <2> QED BY <1>1, <1>2, <2>1, <2>3 DEF CredTokens
<1> QED BY <1>3, <1>4, <1>5, <1>6 DEF ApiStep

\* Those who start to refresh; the manager's end and a new one.
LEMMA CredRestStep ==
  ASSUME CredInv,
         \/ \E p \in Sweeper : Sweep(p)
         \/ \E p \in Caller : RefreshCredential(p) \/ EnsureFresh(p)
         \/ Stop \/ Start
  PROVE  CredInv'
<1> USE DEF CredInv
<1>1. CASE Stop \/ Start
  <2>1. UNCHANGED <<cred, row, flow, leaving, valid, issued, lost, holder, refresh, current>>
        /\ retries' \in {retries, 0} /\ wait' \in {wait, 0} /\ sweeping' \in BOOLEAN
    BY <1>1 DEF Stop, Start, apiVars, providerVars, retryVars
  <2>2. CredCount'
    <3>1. CredBusy' = CredBusy BY <2>1 DEF CredBusy
    <3> QED BY <2>1, <3>1, CredCountKept
  <2>3. CredPlain' /\ CredMutex' /\ CredTokens'
    BY <2>1 DEF CredPlain, CredMutex, CredTokens
  <2> QED BY <2>2, <2>3
<1>2. ASSUME NEW p \in Refresher, refresh[p] = "idle", refresh' = [refresh EXCEPT ![p] = "lock"],
             UNCHANGED <<cred, apiVars, providerVars, holder, current, retryVars, sweeping>>
      PROVE  CredPlain' /\ CredMutex' /\ CredTokens'
  <2>1. UNCHANGED <<cred, row, flow, leaving, valid, issued, lost, holder, current, retries, wait, sweeping>>
    BY <1>2 DEF apiVars, providerVars, retryVars
  <2>2. refresh' \in [Refresher -> {"idle", "lock", "send", "store", "count"}]
    BY <1>2 DEF CredMutex
  <2>3. \A q \in Refresher : refresh'[q] \in {"send", "store", "count"} => refresh'[q] = refresh[q]
    BY <1>2 DEF CredMutex
  <2>4. CredMutex'
    BY <2>1, <2>2, <2>3 DEF CredMutex
  <2>5. \A q \in Refresher : refresh[q] = "store" => refresh'[q] = "store"
    BY <1>2 DEF CredMutex
  <2>6. CredTokens'
    BY <2>1, <2>3, <2>5 DEF CredTokens
  <2> QED BY <2>1, <2>4, <2>6 DEF CredPlain
<1>3. ASSUME NEW p \in Sweeper, Sweep(p) PROVE CredInv'
  <2>1. p \in Refresher BY DEF Refresher
  <2>2. CredPlain' /\ CredMutex' /\ CredTokens'
    BY <1>2, <1>3, <2>1 DEF Sweep
  <2>3. retries' = retries /\ retries < MaxRetries /\ refresh[p] = "idle" /\ refresh' = [refresh EXCEPT ![p] = "lock"]
    BY <1>3 DEF Sweep, retryVars
  <2> QED BY <2>2, <2>3, CredSweepCounted
<1>4. ASSUME NEW p \in Caller, RefreshCredential(p) \/ EnsureFresh(p) PROVE CredInv'
  <2>1. p \in Refresher /\ RefreshCredential(p) BY <1>4 DEF Refresher, EnsureFresh
  <2>2. CredPlain' /\ CredMutex' /\ CredTokens'
    BY <1>2, <2>1 DEF RefreshCredential
  <2>3. CredBusy' = CredBusy
    BY <2>1, CredentialsAssumption DEF RefreshCredential, CredBusy, CredMutex, Refresher
  <2>4. retries' = retries BY <2>1 DEF RefreshCredential, retryVars
  <2> QED BY <2>2, <2>3, <2>4, CredCountKept
<1> QED BY <1>1, <1>3, <1>4

\* Two to the power of a number.
LEMMA CredPower == ASSUME NEW n \in Nat PROVE 2 ^ n \in Nat
<1>1. IsFiniteSet(1..n) /\ Cardinality(1..n) = n
  BY FS_Interval
<1>2. IsFiniteSet(SUBSET (1..n)) /\ Cardinality(SUBSET (1..n)) = 2 ^ Cardinality(1..n)
  BY <1>1, FS_SUBSET
<1> QED BY <1>1, <1>2, FS_CardinalityType

LEMMA CredCountStep == ASSUME CredInv, NEW p \in Refresher, CountFailure(p) PROVE CredInv'
<1> USE DEF CredInv
<1>0. p \in Sweeper
  BY DEF CountFailure, CredMutex
<1>1. /\ UNCHANGED <<cred, row, flow, leaving, valid, issued, lost, holder, current, sweeping>>
      /\ refresh' = [refresh EXCEPT ![p] = "idle"] /\ refresh[p] = "count" /\ wait' = 2 ^ retries
  BY DEF CountFailure, apiVars, providerVars
<1>2. wait' \in Nat
  BY <1>1, CredPower DEF CredCount
<1>3. CredCount'
  BY <1>0, CredFailureCounted
<1>4. /\ refresh' \in [Refresher -> {"idle", "lock", "send", "store", "count"}]
      /\ \A q \in Refresher : refresh'[q] \in {"send", "store", "count"} => refresh'[q] = refresh[q]
      /\ \A q \in Refresher : refresh[q] = "store" => refresh'[q] = "store"
  BY <1>1 DEF CredMutex
<1>5. CredMutex'
  BY <1>1, <1>4 DEF CredMutex
<1>6. CredTokens'
  BY <1>1, <1>4 DEF CredTokens
<1> QED BY <1>1, <1>2, <1>3, <1>5, <1>6 DEF CredPlain

\* A refresher leaves the queue for the mutex, or releases it.
LEMMA CredLeaves ==
  ASSUME CredMutex, CredCount, NEW p \in Refresher, NEW new \in {"idle", "count"}, new = "count" => p \in Sweeper,
         refresh' = [refresh EXCEPT ![p] = new], refresh[p] # "idle", retries' \in {retries, 0},
         \/ UNCHANGED <<holder, current>> /\ refresh[p] \notin {"send", "store"}
         \/ holder = p /\ Unlock(p)
  PROVE  CredMutex' /\ CredCount'
<1>1. refresh' \in [Refresher -> {"idle", "lock", "send", "store", "count"}]
  BY DEF CredMutex
<1>2. refresh'[p] = new /\ \A q \in Refresher \ {p} : refresh'[q] = refresh[q]
  BY DEF CredMutex
<1>3. current' \in [Refresher -> Copy \cup {Nil}] /\ holder' \in Refresher \cup {Nil}
  BY DEF CredMutex, Unlock
<1>4. \A q \in Refresher : refresh'[q] \in {"send", "store"} => holder' = q /\ current'[q] \in Copy
  BY <1>2 DEF CredMutex, Unlock
<1>5. \A q \in Refresher : refresh'[q] = "count" => q \in Sweeper
  BY <1>2 DEF CredMutex
<1>6. CredBusy' \subseteq CredBusy
  BY <1>2 DEF CredBusy, Refresher
<1>7. CredCount'
  BY <1>6, CredCountKept
<1> QED BY <1>1, <1>3, <1>4, <1>5, <1>7 DEF CredMutex

\* What is known of the tokens while one refresher has the mutex or none.
LEMMA CredHolderKnows ==
  ASSUME CredMutex, CredTokens, NEW p \in Refresher, holder \in {Nil, p}, cred # Nil
  PROVE  \/ cred.token \in valid \cup lost \cup {0}
         \/ refresh[p] = "store" /\ current[p].sent = cred.token
BY CredentialsAssumption DEF CredMutex, CredTokens

LEMMA CredHolderTells ==
  ASSUME CredMutex, NEW p \in Refresher, holder \in {Nil, p}, \A q \in Refresher \ {p} : refresh'[q] = refresh[q],
         cred' \in Credential \cup {Nil}, valid' \subseteq Token, lost' \subseteq Token,
         cred' # Nil => \/ cred'.token \in valid' \cup lost' \cup {0}
                        \/ refresh'[p] = "store" /\ current'[p].sent = cred'.token,
         refresh'[p] = "send" => current'[p].token \in valid' \cup lost',
         refresh'[p] = "store" => current'[p].token \in valid'
  PROVE  CredTokens'
<1>1. \A q \in Refresher \ {p} : refresh'[q] \notin {"send", "store"}
  BY CredentialsAssumption DEF CredMutex
<1> QED BY <1>1 DEF CredTokens

\* The mutex is taken.
LEMMA CredLockStep == ASSUME CredInv, NEW p \in Refresher, Lock(p) PROVE CredInv'
<1> USE DEF CredInv
<1>1. /\ UNCHANGED <<cred, row, flow, leaving, valid, issued, lost, sweeping>>
      /\ refresh[p] = "lock" /\ holder = Nil /\ retries' \in {retries, 0} /\ wait' \in {wait, 0}
  BY DEF Lock, apiVars, providerVars, retryVars
<1>2. CredPlain'
  BY <1>1 DEF CredPlain
<1>3. ASSUME NEW new \in {"idle", "count"}, refresh' = [refresh EXCEPT ![p] = new], new = "count" => p \in Sweeper,
             UNCHANGED <<holder, current>>
      PROVE  CredInv'
  <2>1. CredMutex' /\ CredCount'
    BY <1>1, <1>3, CredLeaves
  <2>2. refresh'[p] = new /\ \A q \in Refresher \ {p} : refresh'[q] = refresh[q]
    BY <1>3 DEF CredMutex
  <2>3. CredTokens'
    <3>1. cred' # Nil => cred'.token \in valid' \cup lost' \cup {0}
      BY <1>1, CredHolderKnows
    <3>2. cred' \in Credential \cup {Nil} /\ valid' \subseteq Token /\ lost' \subseteq Token
      BY <1>1 DEF CredTokens
    <3> QED BY <1>1, <2>2, <3>1, <3>2, CredHolderTells
  <2> QED BY <1>2, <2>1, <2>3
<1>4. CASE /\ Due /\ cred.token # 0 /\ holder' = p /\ refresh' = [refresh EXCEPT ![p] = "send"]
           /\ current' = [current EXCEPT ![p] = [token |-> cred.token, left |-> cred.left, sent |-> cred.token]]
  <2>1. PICK c : c = [token |-> cred.token, left |-> cred.left, sent |-> cred.token]
    OBVIOUS
  <2>2. cred \in Credential /\ cred # Nil
    BY <1>4 DEF Due, CredTokens
  <2>3. c \in Copy /\ c.token = cred.token
    BY <2>1, <2>2 DEF Credential, Copy
  <2>4. /\ refresh'[p] = "send" /\ current'[p] = c /\ \A q \in Refresher \ {p} : refresh'[q] = refresh[q]
        /\ refresh' \in [Refresher -> {"idle", "lock", "send", "store", "count"}]
        /\ current' \in [Refresher -> Copy \cup {Nil}]
    BY <1>4, <2>1, <2>3 DEF CredMutex
  <2>5. CredMutex'
    <3>1. \A q \in Refresher \ {p} : refresh'[q] \notin {"send", "store"}
      BY <1>1, <2>4, CredentialsAssumption DEF CredMutex
    <3> QED BY <1>4, <2>3, <2>4, <3>1 DEF CredMutex
  <2>6. CredTokens'
    <3>1. cred.token \in valid \cup lost
      BY <1>1, <1>4, <2>2, CredHolderKnows
    <3>2. cred' \in Credential \cup {Nil} /\ valid' \subseteq Token /\ lost' \subseteq Token
      BY <1>1 DEF CredTokens
    <3> QED BY <1>1, <2>3, <2>4, <3>1, <3>2, CredHolderTells
  <2>7. CredCount'
    <3>1. CredBusy' \subseteq CredBusy BY <1>1, <2>4 DEF CredBusy, Refresher
    <3> QED BY <1>1, <3>1, CredCountKept
  <2> QED BY <1>2, <2>5, <2>6, <2>7
<1>5. CASE refresh' = [refresh EXCEPT ![p] = "idle"] /\ UNCHANGED <<holder, current>>
  BY <1>3, <1>5
<1>6. CASE Failed(p) /\ UNCHANGED <<holder, current>>
  BY <1>3, <1>6 DEF Failed
<1> QED BY <1>4, <1>5, <1>6 DEF Lock

\* The mutex is released: what is left to know are the tokens.
LEMMA CredReleased ==
  ASSUME CredInv, NEW p \in Refresher, NEW new \in {"idle", "count"}, new = "count" => p \in Sweeper,
         refresh[p] \in {"send", "store"}, refresh' = [refresh EXCEPT ![p] = new], Unlock(p),
         retries' \in {retries, 0}, CredPlain',
         cred' \in Credential \cup {Nil}, valid' \subseteq Token, lost' \subseteq Token,
         cred' # Nil => cred'.token \in valid' \cup lost' \cup {0}
  PROVE  CredInv'
<1>1. holder = p
  BY DEF CredInv, CredMutex
<1>2. CredMutex' /\ CredCount'
  BY <1>1, CredLeaves DEF CredInv
<1>3. refresh'[p] = new /\ \A q \in Refresher \ {p} : refresh'[q] = refresh[q]
  BY DEF CredInv, CredMutex
<1>4. CredTokens'
  BY <1>1, <1>3, CredHolderTells DEF CredInv
<1> QED BY <1>2, <1>4 DEF CredInv

\* The holder goes on to store what it was given.
LEMMA CredToStore ==
  ASSUME CredInv, NEW p \in Refresher, NEW c \in Copy, refresh[p] = "send",
         refresh' = [refresh EXCEPT ![p] = "store"], current' = [current EXCEPT ![p] = c],
         UNCHANGED <<holder, retries, cred, lost>>, CredPlain', valid' \subseteq Token,
         cred # Nil => cred.token \in valid' \cup lost \cup {0} \/ c.sent = cred.token,
         c.token \in valid'
  PROVE  CredInv'
<1>1. holder = p
  BY DEF CredInv, CredMutex
<1>2. /\ refresh'[p] = "store" /\ current'[p] = c /\ \A q \in Refresher \ {p} : refresh'[q] = refresh[q]
      /\ refresh' \in [Refresher -> {"idle", "lock", "send", "store", "count"}]
      /\ current' \in [Refresher -> Copy \cup {Nil}]
  BY DEF CredInv, CredMutex
<1>3. CredMutex'
  <2>1. \A q \in Refresher \ {p} : refresh'[q] \notin {"send", "store"}
    BY <1>1, <1>2 DEF CredInv, CredMutex
  <2> QED BY <1>1, <1>2, <2>1 DEF CredInv, CredMutex
<1>4. CredCount'
  <2>1. CredBusy' \subseteq CredBusy BY <1>2 DEF CredBusy, Refresher
  <2> QED BY <2>1, CredCountKept DEF CredInv
<1>5. CredTokens'
  <2>1. cred' \in Credential \cup {Nil} /\ lost' \subseteq Token
    BY DEF CredInv, CredTokens
  <2> QED BY <1>1, <1>2, <2>1, CredHolderTells DEF CredInv
<1> QED BY <1>3, <1>4, <1>5 DEF CredInv

\* The provider is asked: it may keep the token or rotate it, the answer may be lost.
LEMMA CredExchangeStep == ASSUME CredInv, NEW p \in Refresher, Exchange(p) PROVE CredInv'
<1>1. /\ UNCHANGED <<cred, row, flow, leaving, retries, wait, sweeping>> /\ refresh[p] = "send"
  BY DEF Exchange, apiVars, retryVars
<1>2. PICK c, old, new : /\ c = current[p] /\ c \in Copy /\ old = c.token /\ old \in valid \cup lost
                         /\ new = issued + 1
  BY <1>1 DEF CredInv, CredMutex, CredTokens
<1>3. /\ cred' \in Credential \cup {Nil} /\ valid \subseteq Token /\ lost \subseteq Token
      /\ cred # Nil => cred.token \in valid \cup lost \cup {0}
  BY <1>1, CredHolderKnows DEF CredInv, CredMutex, CredTokens
<1>4. issued' \in Token => CredPlain'
  BY <1>1 DEF CredInv, CredPlain
<1>5. old \in Token
  BY <1>2, <1>3
<1>6. ASSUME old \in valid, NEW left \in {Ttl, c.left}, current' = [current EXCEPT ![p].left = left],
             refresh' = [refresh EXCEPT ![p] = "store"], UNCHANGED <<providerVars, holder>>
      PROVE  CredInv'
  <2>1. PICK d : d = [c EXCEPT !.left = left]
    OBVIOUS
  <2>2. d \in Copy /\ d.token = old
    BY <1>2, <2>1, CredentialsAssumption DEF Copy
  <2>3. current' = [current EXCEPT ![p] = d]
    BY <1>2, <1>6, <2>1
  <2>4. UNCHANGED <<valid, issued, lost, holder>>
    BY <1>6 DEF providerVars
  <2>5. CredPlain'
    BY <1>4, <2>4 DEF CredInv, CredPlain
  <2> QED BY <1>1, <1>3, <1>6, <2>2, <2>3, <2>4, <2>5, CredToStore
<1>7. ASSUME old \in valid, new \in Token, issued' = new, valid' = (valid \ {old}) \cup {new}
      PROVE  CredPlain' /\ valid' \subseteq Token /\ valid \subseteq valid' \cup {old}
  BY <1>3, <1>4, <1>7
<1>8. ASSUME old \in valid, new \in Token, issued' = new, valid' = (valid \ {old}) \cup {new},
             NEW left \in {Ttl, c.left},
             current' = [current EXCEPT ![p] = [token |-> new, left |-> left, sent |-> old]],
             refresh' = [refresh EXCEPT ![p] = "store"], UNCHANGED <<lost, holder>>
      PROVE  CredInv'
  <2>1. PICK d : d = [token |-> new, left |-> left, sent |-> old]
    OBVIOUS
  <2>2. left \in 0..Ttl
    BY <1>2, <1>8, CredentialsAssumption DEF Copy
  <2>3. d \in Copy /\ d.token = new /\ d.sent = old
    BY <1>5, <1>8, <2>1, <2>2 DEF Copy
  <2>4. current' = [current EXCEPT ![p] = d]
    BY <1>8, <2>1
  <2>5. CredPlain' /\ valid' \subseteq Token /\ valid \subseteq valid' \cup {old} /\ new \in valid'
    BY <1>7, <1>8
  <2>6. cred # Nil => cred.token \in valid' \cup lost \cup {0} \/ d.sent = cred.token
    BY <1>3, <2>3, <2>5
  <2> QED BY <1>1, <1>8, <2>3, <2>4, <2>5, <2>6, CredToStore
<1>9. ASSUME Failed(p), Unlock(p), CredPlain', valid' \subseteq Token, lost' \subseteq Token,
             cred # Nil => cred.token \in valid' \cup lost' \cup {0}
      PROVE  CredInv'
  <2>1. PICK step \in {"idle", "count"} : refresh' = [refresh EXCEPT ![p] = step] /\ (step = "count" => p \in Sweeper)
    BY <1>9 DEF Failed
  <2> QED BY <1>1, <1>3, <1>9, <2>1, CredReleased
<1>10. ASSUME old \in valid, new \in Token, issued' = new, valid' = (valid \ {old}) \cup {new},
              lost' = lost \cup {old}, Failed(p), Unlock(p)
       PROVE  CredInv'
  <2>1. CredPlain' /\ valid' \subseteq Token /\ valid \subseteq valid' \cup {old}
    BY <1>7, <1>10
  <2>2. lost' \subseteq Token
    BY <1>3, <1>5, <1>10
  <2>3. cred # Nil => cred.token \in valid' \cup lost' \cup {0}
    BY <1>3, <1>10, <2>1
  <2> QED BY <1>9, <1>10, <2>1, <2>2, <2>3
<1>11. ASSUME Failed(p), Unlock(p), UNCHANGED providerVars PROVE CredInv'
  <2>1. UNCHANGED <<valid, issued, lost>>
    BY <1>11 DEF providerVars
  <2>2. CredPlain'
    BY <1>4, <2>1 DEF CredInv, CredPlain
  <2> QED BY <1>3, <1>9, <1>11, <2>1, <2>2
<1>12. \/ /\ old \in valid
          /\ \E left \in {Ttl, c.left} : current' = [current EXCEPT ![p].left = left]
          /\ refresh' = [refresh EXCEPT ![p] = "store"] /\ UNCHANGED <<providerVars, holder>>
       \/ /\ old \in valid /\ new \in Token /\ issued' = new /\ valid' = (valid \ {old}) \cup {new}
          /\ \/ /\ \E left \in {Ttl, c.left} :
                      current' = [current EXCEPT ![p] = [token |-> new, left |-> left, sent |-> old]]
                /\ refresh' = [refresh EXCEPT ![p] = "store"] /\ UNCHANGED <<lost, holder>>
             \/ lost' = lost \cup {old} /\ Failed(p) /\ Unlock(p)
       \/ Failed(p) /\ Unlock(p) /\ UNCHANGED providerVars
  BY <1>2 DEF Exchange
<1> QED BY <1>6, <1>8, <1>10, <1>11, <1>12

\* The copy is stored, or its successor is lost.
LEMMA CredStoreStep == ASSUME CredInv, NEW p \in Refresher, Store(p) PROVE CredInv'
<1>1. UNCHANGED <<row, flow, leaving, valid, issued, sweeping>> /\ refresh[p] = "store" /\ Unlock(p)
  BY DEF Store, apiVars
<1>2. PICK c : c = current[p] /\ c \in Copy /\ c.token \in valid
  BY <1>1 DEF CredInv, CredMutex, CredTokens
<1>3. /\ cred \in Credential \cup {Nil} /\ valid \subseteq Token /\ lost \subseteq Token
      /\ cred # Nil => cred.token \in valid \cup lost \cup {0} \/ c.sent = cred.token
  BY <1>1, <1>2, CredHolderKnows DEF CredInv, CredMutex, CredTokens
<1>4. wait' \in Nat => CredPlain'
  BY <1>1 DEF CredInv, CredPlain
<1>5. CASE /\ cred' = [token |-> c.token, left |-> c.left, status |-> "active"]
           /\ retries' = 0 /\ wait' = 0 /\ refresh' = [refresh EXCEPT ![p] = "idle"] /\ UNCHANGED lost
  <2>1. cred' \in Credential /\ cred'.token = c.token
    BY <1>2, <1>5 DEF Credential, Copy
  <2> QED BY <1>1, <1>2, <1>3, <1>4, <1>5, <2>1, CredReleased
<1>6. CASE lost' = lost \cup ({c.sent} \ {c.token}) /\ Failed(p) /\ UNCHANGED <<cred, retries, wait>>
  <2>1. PICK step \in {"idle", "count"} : refresh' = [refresh EXCEPT ![p] = step] /\ (step = "count" => p \in Sweeper)
    BY <1>6 DEF Failed
  <2>2. c.sent \in Token
    BY <1>2 DEF Copy
  <2>3. lost' \subseteq Token /\ (cred' # Nil => cred'.token \in valid \cup lost' \cup {0})
    BY <1>2, <1>3, <1>6, <2>2
  <2>4. CredPlain'
    BY <1>4, <1>6 DEF CredInv, CredPlain
  <2> QED BY <1>1, <1>3, <1>6, <2>1, <2>3, <2>4, CredReleased
<1> QED BY <1>2, <1>5, <1>6 DEF Store, retryVars

\* Time passes.
LEMMA CredTickStep == ASSUME CredInv, Tick PROVE CredInv'
<1> USE DEF CredInv
<1>1. /\ UNCHANGED <<row, flow, leaving, valid, issued, lost, holder, refresh, retries, sweeping>>
      /\ wait' = Less(wait) /\ cred' = (IF cred = Nil THEN Nil ELSE [cred EXCEPT !.left = Less(@)])
      /\ current' = [p \in Refresher |-> IF current[p] = Nil THEN Nil ELSE [current[p] EXCEPT !.left = Less(@)]]
  BY DEF Tick, apiVars, providerVars
<1>2. /\ \A n \in Nat : Less(n) \in Nat
      /\ \A n \in 0..Ttl : Less(n) \in 0..Ttl
  BY CredentialsAssumption DEF Less
<1>3. CredPlain'
  BY <1>1, <1>2 DEF CredPlain
<1>4. \A p \in Refresher : /\ current[p] \in Copy => /\ current'[p] \in Copy
                                                     /\ current'[p].token = current[p].token
                                                     /\ current'[p].sent = current[p].sent
                           /\ current[p] = Nil => current'[p] = Nil
  <2> SUFFICES ASSUME NEW p \in Refresher
               PROVE  /\ current[p] \in Copy => /\ current'[p] \in Copy
                                                /\ current'[p].token = current[p].token
                                                /\ current'[p].sent = current[p].sent
                      /\ current[p] = Nil => current'[p] = Nil
    OBVIOUS
  <2>1. CASE current[p] \in Copy
    <3>1. PICK c : c = current[p] /\ c \in Copy BY <2>1
    <3>2. c # Nil BY <3>1, CredentialsAssumption DEF Copy
    <3>3. PICK d : d = [c EXCEPT !.left = Less(@)] OBVIOUS
    <3>4. d \in Copy /\ d.token = c.token /\ d.sent = c.sent BY <1>2, <3>1, <3>3 DEF Copy
    <3>5. current'[p] = d BY <1>1, <3>1, <3>2, <3>3
    <3> QED BY <3>1, <3>2, <3>4, <3>5
  <2>2. CASE current[p] \notin Copy BY <1>1, <2>2
  <2> QED BY <2>1, <2>2
<1>5. CredMutex'
  <2>1. current' \in [Refresher -> Copy \cup {Nil}]
    <3>1. \A p \in Refresher : current'[p] \in Copy \cup {Nil}
      BY <1>4 DEF CredMutex
    <3>2. current' = [p \in Refresher |-> current'[p]] BY <1>1
    <3> QED BY <3>1, <3>2
  <2> QED BY <1>1, <1>4, <2>1 DEF CredMutex
<1>6. cred' \in Credential \cup {Nil} /\ (cred' # Nil => cred # Nil /\ cred'.token = cred.token)
  <2>1. CASE cred = Nil BY <1>1, <2>1
  <2>2. CASE cred # Nil
    <3>1. PICK c : c = cred /\ c \in Credential BY <2>2 DEF CredTokens
    <3>2. PICK d : d = [c EXCEPT !.left = Less(@)] OBVIOUS
    <3>3. d \in Credential /\ d.token = c.token BY <1>2, <3>1, <3>2 DEF Credential
    <3> QED BY <1>1, <2>2, <3>1, <3>2, <3>3
  <2> QED BY <2>1, <2>2
<1>7. CredTokens'
  <2>1. \A p \in Refresher : refresh[p] \in {"send", "store"} =>
           current'[p].token = current[p].token /\ current'[p].sent = current[p].sent
    BY <1>4 DEF CredMutex
  <2>2. cred' # Nil =>
          \/ cred'.token \in valid \cup lost \cup {0}
          \/ \E p \in Refresher : refresh[p] = "store" /\ current'[p].sent = cred'.token
    BY <1>6, <2>1 DEF CredTokens
  <2> QED BY <1>1, <1>6, <2>1, <2>2 DEF CredTokens
<1>8. CredCount'
  <2>1. CredBusy' = CredBusy BY <1>1 DEF CredBusy
  <2> QED BY <1>1, <2>1, CredCountKept
<1> QED BY <1>3, <1>5, <1>7, <1>8

\* A crash loses the successors that were not stored yet, and everything in memory.
LEMMA CredCrashStep == ASSUME CredInv, Crash PROVE CredInv'
<1> USE DEF CredInv
<1>1. /\ UNCHANGED <<cred, row, flow, valid, issued>> /\ sweeping' = FALSE /\ holder' = Nil
      /\ refresh' = [p \in Refresher |-> "idle"] /\ current' = [p \in Refresher |-> Nil]
      /\ retries' = 0 /\ wait' = 0 /\ leaving' \in {"done", "no"}
      /\ lost' = lost \cup {current[p].sent : p \in {q \in Refresher :
                                refresh[q] = "store" /\ current[q].sent # current[q].token}}
  BY DEF Crash
<1>2. CredPlain'
  BY <1>1 DEF CredPlain
<1>3. CredMutex'
  BY <1>1 DEF CredMutex
<1>4. \A p \in Refresher : refresh[p] = "store" =>
         /\ current[p].sent \in Token
         /\ current[p].sent # current[p].token => current[p].sent \in lost'
         /\ current[p].token \in valid
  <2>1. \A p \in Refresher : refresh[p] = "store" => current[p] \in Copy
    BY DEF CredMutex
  <2> QED BY <1>1, <2>1 DEF CredTokens, Copy
<1>5. lost' \subseteq Token /\ lost \subseteq lost'
  BY <1>1, <1>4 DEF CredTokens
<1>6. cred' # Nil => cred'.token \in valid' \cup lost' \cup {0}
  BY <1>1, <1>4, <1>5 DEF CredTokens
<1>7. CredTokens'
  BY <1>1, <1>5, <1>6 DEF CredTokens
<1>8. CredCount'
  <2>1. CredBusy' \subseteq CredBusy BY <1>1 DEF CredBusy, Refresher
  <2> QED BY <1>1, <2>1, CredCountKept
<1> QED BY <1>2, <1>3, <1>7, <1>8

LEMMA CredStep == CredInv /\ [CredNext]_credVars => CredInv'
<1>1. ASSUME CredInv, UNCHANGED credVars PROVE CredInv'
  <2>1. UNCHANGED <<cred, row, flow, leaving, valid, issued, lost, holder, refresh, current, retries, wait, sweeping>>
    BY <1>1 DEF credVars, apiVars, providerVars, retryVars
  <2> QED BY <1>1, <2>1 DEF CredInv, CredPlain, CredMutex, CredTokens, CredCount, CredBusy
<1>2. ASSUME CredInv, NEW p \in Refresher, RefreshStep(p) PROVE CredInv'
  BY <1>2, CredLockStep, CredExchangeStep, CredStoreStep, CredCountStep DEF RefreshStep
<1> QED BY <1>1, <1>2, CredApiStep, CredRestStep, CredTickStep, CredCrashStep DEF CredNext

\* Types, with the bound on the failures counted, and: no refresh token is presented a second time unless
\* the refresh that exchanged it lost the successor.  The mutex does it, for any number of sweepers,
\* callers and tokens; the callback and the disconnect, which do not take it, cannot undo it.
THEOREM TokensUsedOnce == CredSpec => [](CredTypeOK /\ NoReuse)
<1>1. CredInv => CredTypeOK /\ NoReuse
  BY CredInvTypes DEF CredInv, CredTokens, NoReuse
<1> QED BY CredInitInv, CredStep, <1>1, PTL DEF CredSpec

(***************************************************************************)
(* Billing                                                                 *)
(***************************************************************************)

StripeState == [price : Price, status : StripeStatus \cup {"none"}]

BillTypes ==
    /\ rows \in Seq(Row) /\ Len(rows) <= MaxRow
    /\ stripe \in [Sub -> StripeState]
    /\ events \in Seq(Event) /\ Len(events) <= MaxEvent
    /\ seen \in 0..Len(events) /\ calm \in BOOLEAN
    /\ work \in [Handler -> Work \cup {NoWork}]
    /\ \A h \in Handler : work[h] # NoWork => work[h].id <= Len(rows)

\* The events say what Stripe does: the last one about a subscription has its status, the last update
\* its price.
BillStripe(s) == stripe[s].status # "none" =>
    /\ \E m \in DOMAIN events :
          /\ events[m].sub = s /\ events[m].status = stripe[s].status
          /\ \A k \in DOMAIN events : k > m => events[k].sub # s
    /\ \E m \in DOMAIN events :
          /\ events[m].sub = s /\ events[m].type = "updated" /\ events[m].price = stripe[s].price
          /\ \A k \in DOMAIN events : k > m /\ events[k].type = "updated" => events[k].sub # s

\* A subscription begins with its checkout and an update, and ends for good; an invoice is paid
\* late only when it was not paid in time.
BillEvent(m) ==
    /\ stripe[events[m].sub].status # "none"
    /\ events[m].status = "canceled" <=> events[m].type = "deleted"
    /\ events[m].type = "failed" => events[m].status = "past_due"
    /\ events[m].type \in {"checkout", "succeeded"} => events[m].status = "active"
    /\ events[m].status \in Ended =>
          /\ stripe[events[m].sub].status = events[m].status
          /\ \A k \in DOMAIN events : k > m => events[k].sub # events[m].sub
    /\ events[m].type = "checkout" =>
          /\ m + 1 \in DOMAIN events /\ events[m + 1].type = "updated" /\ events[m + 1].sub = events[m].sub
          /\ \A k \in DOMAIN events : events[k].type = "checkout" /\ events[k].sub = events[m].sub => k = m
    /\ events[m].type = "succeeded" =>
          \E k \in DOMAIN events :
             /\ k < m /\ events[k].sub = events[m].sub /\ events[k].status = "past_due"
             /\ \A j \in DOMAIN events : k < j /\ j < m => events[j].sub # events[m].sub

BillEvents ==
    /\ \A s \in Sub : BillStripe(s)
    /\ \A m \in DOMAIN events : BillEvent(m)

\* A canceled row has its reason.
Legit(r) == r.status = "canceled" =>
    \/ r.link = 0 /\ r.plan = "free"
    \/ \E j \in DOMAIN events : events[j].sub = r.link /\ Cancels(events[j])

BillLegit ==
    /\ \A i \in DOMAIN rows : Legit(rows[i])
    /\ \A h \in Handler : work[h] # NoWork => Legit(work[h].row)

\* An event of this type about s is still to come.
Pending(type, s) == \E j \in DOMAIN events : j > seen /\ events[j].type = type /\ events[j].sub = s

\* A linked row says what Stripe said up to the last event seen, as far as the maps know it, except
\* that it may be ahead of it: a plan is changed and a subscription canceled before Stripe's event comes.
LinkedOK(r) == r.link # 0 =>
    /\ \E j \in DOMAIN events : j <= seen /\ events[j].type = "checkout" /\ events[j].sub = r.link
    /\ r.status = "expired" => stripe[r.link].status = "incomplete_expired"
    /\ stripe[r.link].status = "canceled" => r.status = "canceled" \/ Pending("deleted", r.link)
    /\ stripe[r.link].status # "canceled" =>
          /\ Known(stripe[r.link].price) => r.plan = stripe[r.link].price \/ Pending("updated", r.link)
          /\ \E j \in DOMAIN events :
                /\ j <= seen /\ events[j].sub = r.link
                /\ Mapped(events[j].status) /\ mapStripeStatus[events[j].status] = r.status
                /\ \A k \in DOMAIN events :
                      j < k /\ k <= seen /\ Mapped(events[k].status) => events[k].sub # r.link

\* Of several rows with the same link only the newest is still in use.
Twins(R) == \A i, j \in DOMAIN R :
    i < j /\ R[i].link = R[j].link /\ R[i].link # 0 =>
        R[i].status = "canceled" /\ stripe[R[i].link].status = "canceled"

\* While a checkout is the last event seen it may come again, and take another row.
Retaken(R) == seen # 0 /\ events[seen].type = "checkout" =>
    \A i \in DOMAIN R :
        R[i].link = events[seen].sub /\ (i # Len(R) \/ R[i].plan = "free") =>
            R[i].status = "canceled" /\ stripe[R[i].link].status = "canceled"

InStep(R) == (\A i \in DOMAIN R : LinkedOK(R[i])) /\ Twins(R) /\ Retaken(R)

\* The rows as they will be.
Applied(w) == IF w.id = 0 THEN Append(rows, w.row) ELSE [rows EXCEPT ![w.id] = w.row]

BillCalm == calm =>
    \/ (\A h \in Handler : work[h] = NoWork) /\ InStep(rows)
    \/ \E h \in Handler : /\ work[h] # NoWork /\ \A g \in Handler \ {h} : work[g] = NoWork
                          /\ InStep(Applied(work[h]))

BillInv == BillTypes /\ BillEvents /\ BillLegit /\ BillCalm

LEMMA BillPlans ==
  /\ Plan = {"free", "starter", "pro"} /\ Paid = {"starter", "pro"} /\ Price = {"starter", "pro", "unknown"}
  /\ \A price \in Price : Known(price) => price \in Plan /\ price # "free"
BY DEF Plan, Paid, Price, Known, PlanTierOrder

LEMMA BillStatuses ==
  /\ DOMAIN mapStripeStatus = {"active", "trialing", "past_due", "canceled", "unpaid", "paused", "incomplete_expired"}
  /\ StripeStatus = DOMAIN mapStripeStatus \cup {"incomplete"} /\ "none" \notin StripeStatus
BY DEF StripeStatus, mapStripeStatus

\* What mapStripeStatus makes of Stripe's statuses.
LEMMA BillMapped ==
  /\ \A status : Mapped(status) =>
        /\ mapStripeStatus[status] \in Status
        /\ mapStripeStatus[status] = "canceled" => status \in {"canceled", "unpaid"}
        /\ mapStripeStatus[status] = "expired" => status = "incomplete_expired"
  /\ Mapped("active") /\ mapStripeStatus["active"] = "active"
  /\ Mapped("past_due") /\ mapStripeStatus["past_due"] = "past_due"
  /\ Mapped("canceled") /\ mapStripeStatus["canceled"] = "canceled"
<1>1. \A status \in {"active", "trialing", "past_due", "canceled", "unpaid", "paused", "incomplete_expired"} :
        /\ mapStripeStatus[status] \in {"active", "trialing", "past_due", "paused", "canceled", "expired"}
        /\ mapStripeStatus[status] = "canceled" => status \in {"canceled", "unpaid"}
        /\ mapStripeStatus[status] = "expired" => status = "incomplete_expired"
  BY DEF mapStripeStatus
<1>2. /\ mapStripeStatus["active"] = "active" /\ mapStripeStatus["past_due"] = "past_due"
      /\ mapStripeStatus["canceled"] = "canceled"
  BY DEF mapStripeStatus
<1> QED BY <1>1, <1>2, BillStatuses DEF Mapped, Status

LEMMA BillRank ==
  /\ Rank["canceled"] = 5 /\ Rank["expired"] = 6
  /\ \A status \in Status \ {"canceled", "expired"} : Rank[status] \in Nat /\ Rank[status] < 5
BY DEF Rank, Status

LEMMA SeqConcat ==
  ASSUME NEW S, NEW a \in Seq(S), NEW b \in Seq(S)
  PROVE  /\ a \o b \in Seq(S) /\ Len(a \o b) = Len(a) + Len(b)
         /\ \A i \in 1..(Len(a) + Len(b)) : (a \o b)[i] = IF i <= Len(a) THEN a[i] ELSE b[i - Len(a)]
OBVIOUS

\* What Emits adds to the events.
LEMMA BillEmitted ==
  ASSUME BillTypes, NEW s \in Sub, NEW price \in Price, NEW status \in StripeStatus, NEW types,
         types \in Seq({"checkout", "updated", "deleted", "failed", "succeeded"}),
         Emits(s, price, status, types)
  PROVE  /\ events' \in Seq(Event) /\ Len(events') = Len(events) + Len(types) /\ Len(events') <= MaxEvent
         /\ \A i \in 1..Len(events) : events'[i] = events[i]
         /\ \A i \in 1..Len(types) : events'[Len(events) + i] =
                [type |-> types[i], sub |-> s, price |-> price, status |-> status]
         /\ stripe' \in [Sub -> StripeState] /\ stripe'[s].price = price /\ stripe'[s].status = status
         /\ \A t \in Sub \ {s} : stripe'[t] = stripe[t]
<1>0. PICK n \in Nat : n = Len(types)
  OBVIOUS
<1>1. PICK more : more = [i \in 1..n |-> EventOf(types[i], s, price, status)]
  OBVIOUS
<1>2. \A i \in 1..n : more[i] = [type |-> types[i], sub |-> s, price |-> price, status |-> status] /\ more[i] \in Event
  BY <1>0, <1>1 DEF EventOf, Event
<1>3. more \in Seq(Event) /\ Len(more) = n
  <2>1. more \in [1..n -> Event]
    BY <1>1, <1>2
  <2> QED BY <2>1
<1>4. events \in Seq(Event) /\ events' = events \o more /\ Len(events) + n <= MaxEvent
  BY <1>0, <1>1 DEF Emits, BillTypes
<1>5. /\ events' \in Seq(Event) /\ Len(events') = Len(events) + n
      /\ \A i \in 1..Len(events) : events'[i] = events[i]
      /\ \A i \in 1..n : events'[Len(events) + i] = more[i]
  <2>1. PICK L \in Nat : L = Len(events)
    BY <1>4
  <2>2. /\ events' \in Seq(Event) /\ Len(events') = L + n
        /\ \A i \in 1..(L + n) : events'[i] = IF i <= L THEN events[i] ELSE more[i - L]
    BY <1>3, <1>4, <2>1, SeqConcat
  <2>3. \A i \in 1..n : L + i \in 1..(L + n) /\ ~(L + i <= L) /\ (L + i) - L = i
    BY <2>1
  <2>4. \A i \in 1..L : i \in 1..(L + n) /\ i <= L
    BY <2>1
  <2> QED BY <2>1, <2>2, <2>3, <2>4
<1>6. PICK new : new = [price |-> price, status |-> status]
  OBVIOUS
<1>7. new \in StripeState /\ new.price = price /\ new.status = status
  BY <1>6 DEF StripeState
<1>8. stripe' = [stripe EXCEPT ![s] = new] /\ stripe \in [Sub -> StripeState]
  BY <1>6 DEF Emits, BillTypes
<1> QED BY <1>0, <1>2, <1>4, <1>5, <1>7, <1>8

\* A subscription changes, and the event says so.
BillOne(type, s, price, status) ==
    /\ Exists(s) /\ Emits(s, price, status, <<type>>)
    /\ type \in {"updated", "deleted", "failed", "succeeded"}
    /\ status = "canceled" <=> type = "deleted"
    /\ type = "failed" => status = "past_due"
    /\ type = "succeeded" => status = "active" /\ stripe[s].status = "past_due"
    /\ type # "updated" => price = stripe[s].price

\* The log with one more event.
BillLog(L, type, s, price, status) ==
    /\ L \in Nat /\ L = Len(events) /\ Len(events') = L + 1
    /\ DOMAIN events = 1..L /\ DOMAIN events' = 1..(L + 1)
    /\ \A i \in 1..L : events'[i] = events[i] /\ events[i].sub \in Sub
    /\ events'[L + 1].type = type /\ events'[L + 1].sub = s /\ events'[L + 1].price = price
    /\ events'[L + 1].status = status
    /\ stripe'[s].price = price /\ stripe'[s].status = status
    /\ \A t \in Sub \ {s} : stripe'[t] = stripe[t]

LEMMA BillOneLog ==
  ASSUME BillTypes, NEW type, NEW s \in Sub, NEW price \in Price, NEW status \in StripeStatus,
         BillOne(type, s, price, status)
  PROVE  /\ events' \in Seq(Event) /\ Len(events') <= MaxEvent /\ stripe' \in [Sub -> StripeState]
         /\ Len(events) <= Len(events')
         /\ \E L : BillLog(L, type, s, price, status)
<1>1. PICK types : types = <<type>>
  OBVIOUS
<1>2. types \in Seq({"checkout", "updated", "deleted", "failed", "succeeded"}) /\ Len(types) = 1 /\ types[1] = type
  BY <1>1 DEF BillOne
<1>3. Emits(s, price, status, types)
  BY <1>1 DEF BillOne
<1>4. PICK L \in Nat : L = Len(events) /\ DOMAIN events = 1..L /\ \A i \in 1..L : events[i] \in Event
  BY DEF BillTypes
<1>5. /\ events' \in Seq(Event) /\ Len(events') = L + 1 /\ Len(events') <= MaxEvent
      /\ \A i \in 1..L : events'[i] = events[i]
      /\ events'[L + 1] = [type |-> type, sub |-> s, price |-> price, status |-> status]
      /\ stripe' \in [Sub -> StripeState] /\ stripe'[s].price = price /\ stripe'[s].status = status
      /\ \A t \in Sub \ {s} : stripe'[t] = stripe[t]
  <2>1. PICK n \in Nat : n = Len(types) /\ n = 1
    BY <1>2
  <2>2. /\ events' \in Seq(Event) /\ Len(events') = Len(events) + Len(types) /\ Len(events') <= MaxEvent
        /\ \A i \in 1..Len(events) : events'[i] = events[i]
        /\ \A i \in 1..Len(types) : events'[Len(events) + i] =
              [type |-> types[i], sub |-> s, price |-> price, status |-> status]
        /\ stripe' \in [Sub -> StripeState] /\ stripe'[s].price = price /\ stripe'[s].status = status
        /\ \A t \in Sub \ {s} : stripe'[t] = stripe[t]
    BY <1>2, <1>3, BillEmitted
  <2>3. /\ Len(events') = L + 1
        /\ \A i \in 1..L : events'[i] = events[i]
        /\ \A i \in 1..n : events'[L + i] = [type |-> types[i], sub |-> s, price |-> price, status |-> status]
    BY <1>4, <2>1, <2>2
  <2>4. 1 \in 1..n
    BY <2>1
  <2>5. events'[L + 1] = [type |-> type, sub |-> s, price |-> price, status |-> status]
    BY <1>2, <2>3, <2>4
  <2> QED BY <2>2, <2>3, <2>5
<1>6. \A i \in 1..L : events[i].sub \in Sub
  BY <1>4 DEF Event
<1>7. DOMAIN events' = 1..(L + 1)
  BY <1>5
<1>8. BillLog(L, type, s, price, status)
  BY <1>4, <1>5, <1>6, <1>7 DEF BillLog
<1> QED BY <1>4, <1>5, <1>8

LEMMA BillOneEvents ==
  ASSUME BillEvents, NEW type, NEW s \in Sub, NEW price \in Price, NEW status \in StripeStatus, NEW L,
         BillOne(type, s, price, status), BillLog(L, type, s, price, status)
  PROVE  BillEvents'
<1>1. ASSUME NEW t \in Sub PROVE BillStripe(t)'
  <2>1. CASE t = s
    <3>1. \E m \in DOMAIN events' :
             /\ events'[m].sub = s /\ events'[m].status = stripe'[s].status
             /\ \A k \in DOMAIN events' : k > m => events'[k].sub # s
      <4>1. L + 1 \in DOMAIN events' /\ \A k \in DOMAIN events' : ~(k > L + 1)
        BY DEF BillLog
      <4> QED BY <4>1 DEF BillLog
    <3>2. \E m \in DOMAIN events' :
             /\ events'[m].sub = s /\ events'[m].type = "updated" /\ events'[m].price = stripe'[s].price
             /\ \A k \in DOMAIN events' : k > m /\ events'[k].type = "updated" => events'[k].sub # s
      <4>1. CASE type = "updated"
        <5>1. L + 1 \in DOMAIN events' /\ \A k \in DOMAIN events' : ~(k > L + 1)
          BY DEF BillLog
        <5> QED BY <4>1, <5>1 DEF BillLog
      <4>2. CASE type # "updated"
        <5>1. stripe[s].status # "none" /\ price = stripe[s].price
          BY <4>2 DEF BillOne, Exists
        <5>2. PICK m \in DOMAIN events :
             /\ events[m].sub = s /\ events[m].type = "updated" /\ events[m].price = stripe[s].price
             /\ \A k \in DOMAIN events : k > m /\ events[k].type = "updated" => events[k].sub # s
          BY <5>1 DEF BillEvents, BillStripe
        <5>3. m \in DOMAIN events' /\ \A k \in DOMAIN events' : k \in DOMAIN events \/ k = L + 1
          BY DEF BillLog
        <5> QED BY <4>2, <5>1, <5>2, <5>3 DEF BillLog
      <4> QED BY <4>1, <4>2
    <3> QED BY <2>1, <3>1, <3>2 DEF BillStripe
  <2>2. CASE t # s
    <3>1. \A k \in DOMAIN events' : k \in DOMAIN events \/ k = L + 1
      BY DEF BillLog
    <3>2. \A k \in DOMAIN events : k \in DOMAIN events' /\ events'[k] = events[k]
      BY DEF BillLog
    <3>3. stripe'[t] = stripe[t] /\ events'[L + 1].sub # t
      BY <2>2 DEF BillLog
    <3> QED BY <3>1, <3>2, <3>3 DEF BillEvents, BillStripe
  <2> QED BY <2>1, <2>2
<1>2. ASSUME NEW m \in DOMAIN events PROVE BillEvent(m)'
  <2>1. m \in 1..L /\ events'[m] = events[m] /\ events[m].sub \in Sub
    BY DEF BillLog
  <2>2. \A k \in DOMAIN events' : (k \in DOMAIN events /\ events'[k] = events[k]) \/ k = L + 1
    BY DEF BillLog
  <2>3. \A k \in DOMAIN events : k \in DOMAIN events' /\ events'[k] = events[k] /\ k < L + 1
    BY DEF BillLog
  <2>4. BillEvent(m)
    BY DEF BillEvents
  <2>5. stripe'[events[m].sub].status # "none"
    <3>1. CASE events[m].sub = s BY <3>1, BillStatuses DEF BillLog
    <3>2. CASE events[m].sub # s BY <2>1, <2>4, <3>2 DEF BillLog, BillEvent
    <3> QED BY <3>1, <3>2
  <2>6. events[m].status \in Ended =>
          /\ stripe'[events[m].sub].status = events[m].status
          /\ \A k \in DOMAIN events' : k > m => events'[k].sub # events[m].sub
    <3>1. SUFFICES ASSUME events[m].status \in Ended
                   PROVE  /\ stripe'[events[m].sub].status = events[m].status
                          /\ \A k \in DOMAIN events' : k > m => events'[k].sub # events[m].sub
      OBVIOUS
    <3>2. /\ stripe[events[m].sub].status = events[m].status
          /\ \A k \in DOMAIN events : k > m => events[k].sub # events[m].sub
      BY <2>4, <3>1 DEF BillEvent
    <3>3. events[m].sub # s
      BY <3>1, <3>2 DEF BillOne, Exists
    <3> QED BY <2>1, <2>2, <3>2, <3>3 DEF BillLog
  <2>7. events[m].type = "checkout" =>
          /\ m + 1 \in DOMAIN events' /\ events'[m + 1].type = "updated" /\ events'[m + 1].sub = events[m].sub
          /\ \A k \in DOMAIN events' : events'[k].type = "checkout" /\ events'[k].sub = events[m].sub => k = m
    <3>1. type # "checkout" BY DEF BillOne
    <3> QED BY <2>2, <2>3, <2>4, <3>1 DEF BillEvent, BillLog
  <2>8. events[m].type = "succeeded" =>
          \E k \in DOMAIN events' :
             /\ k < m /\ events'[k].sub = events[m].sub /\ events'[k].status = "past_due"
             /\ \A j \in DOMAIN events' : k < j /\ j < m => events'[j].sub # events[m].sub
    <3>1. SUFFICES ASSUME events[m].type = "succeeded"
                   PROVE  \E k \in DOMAIN events' :
                             /\ k < m /\ events'[k].sub = events[m].sub /\ events'[k].status = "past_due"
                             /\ \A j \in DOMAIN events' : k < j /\ j < m => events'[j].sub # events[m].sub
      OBVIOUS
    <3>2. PICK k \in DOMAIN events :
             /\ k < m /\ events[k].sub = events[m].sub /\ events[k].status = "past_due"
             /\ \A j \in DOMAIN events : k < j /\ j < m => events[j].sub # events[m].sub
      BY <2>4, <3>1 DEF BillEvent
    <3>3. ~(L + 1 < m) /\ L \in Nat
      BY <2>1 DEF BillLog
    <3> QED BY <2>2, <2>3, <3>2, <3>3
  <2> QED BY <2>1, <2>4, <2>5, <2>6, <2>7, <2>8 DEF BillEvent
<1>3. BillEvent(L + 1)'
  <2>1. \A k \in DOMAIN events' : ~(k > L + 1) /\ (k < L + 1 => k \in DOMAIN events /\ events'[k] = events[k])
    BY DEF BillLog
  <2>2. \A k \in DOMAIN events : k \in DOMAIN events' /\ events'[k] = events[k] /\ k < L + 1
    BY DEF BillLog
  <2>3. stripe'[s].status # "none" BY BillStatuses DEF BillLog
  <2>4. type = "succeeded" =>
          \E k \in DOMAIN events' :
             /\ k < L + 1 /\ events'[k].sub = s /\ events'[k].status = "past_due"
             /\ \A j \in DOMAIN events' : k < j /\ j < L + 1 => events'[j].sub # s
    <3>1. SUFFICES ASSUME type = "succeeded"
                   PROVE  \E k \in DOMAIN events' :
                             /\ k < L + 1 /\ events'[k].sub = s /\ events'[k].status = "past_due"
                             /\ \A j \in DOMAIN events' : k < j /\ j < L + 1 => events'[j].sub # s
      OBVIOUS
    <3>2. stripe[s].status = "past_due"
      BY <3>1 DEF BillOne
    <3>3. PICK k \in DOMAIN events : /\ events[k].sub = s /\ events[k].status = "past_due"
                                     /\ \A j \in DOMAIN events : j > k => events[j].sub # s
      BY <3>2 DEF BillEvents, BillStripe
    <3>4. \A j \in DOMAIN events : k < j => j > k
      BY DEF BillLog
    <3> QED BY <2>1, <2>2, <3>3, <3>4
  <2>5. /\ events'[L + 1].type = type /\ events'[L + 1].sub = s /\ events'[L + 1].status = status
        /\ stripe'[s].status = status
    BY DEF BillLog
  <2> QED BY <2>1, <2>3, <2>4, <2>5 DEF BillEvent, BillOne
<1>4. \A k \in DOMAIN events' : k \in DOMAIN events \/ k = L + 1
  BY DEF BillLog
<1> QED BY <1>1, <1>2, <1>3, <1>4 DEF BillEvents

\* Rows in step stay so while the log grows.
LEMMA BillLogGrows ==
  ASSUME NEW R \in Seq(Row), InStep(R), seen' = seen, seen \in Nat, seen # 0 => seen \in DOMAIN events,
         \A k \in DOMAIN events : k \in DOMAIN events' /\ events'[k] = events[k] /\ k \in Nat /\ events[k].sub \in Sub,
         \A k \in DOMAIN events' : k \in DOMAIN events \/ (k > seen /\ k \in Nat),
         \A t \in Sub :
            \/ stripe'[t] = stripe[t]
            \/ \A i \in DOMAIN R : R[i].link # t
            \/ /\ stripe[t].status \notin Ended
               /\ stripe'[t].status = "canceled" => Pending("deleted", t)'
               /\ stripe'[t].price = stripe[t].price \/ Pending("updated", t)'
  PROVE  InStep(R)'
<1>1. ASSUME NEW i \in DOMAIN R, R[i].link # 0 PROVE R[i].link \in Sub
  <2>1. R[i] \in Row OBVIOUS
  <2> QED BY <1>1, <2>1, BillingAssumption DEF Row, Sub
<1>2. ASSUME NEW i \in DOMAIN R, R[i].link # 0, stripe[R[i].link].status \in Ended
      PROVE  stripe'[R[i].link] = stripe[R[i].link]
  BY <1>1, <1>2
<1>0. "canceled" \in Ended /\ "incomplete_expired" \in Ended
  BY DEF Ended
<1>3. ASSUME NEW type, NEW t, Pending(type, t) PROVE Pending(type, t)'
  BY <1>3 DEF Pending
<1>4. ASSUME NEW i \in DOMAIN R PROVE LinkedOK(R[i])'
  <2> SUFFICES ASSUME R[i].link # 0
               PROVE  /\ \E j \in DOMAIN events' : j <= seen /\ events'[j].type = "checkout" /\ events'[j].sub = R[i].link
                      /\ stripe'[R[i].link].status = "canceled" => R[i].status = "canceled" \/ Pending("deleted", R[i].link)'
                      /\ R[i].status = "expired" => stripe'[R[i].link].status = "incomplete_expired"
                      /\ stripe'[R[i].link].status # "canceled" =>
                            /\ Known(stripe'[R[i].link].price) =>
                                  R[i].plan = stripe'[R[i].link].price \/ Pending("updated", R[i].link)'
                            /\ \E j \in DOMAIN events' :
                                  /\ j <= seen /\ events'[j].sub = R[i].link
                                  /\ Mapped(events'[j].status) /\ mapStripeStatus[events'[j].status] = R[i].status
                                  /\ \A k \in DOMAIN events' :
                                        j < k /\ k <= seen /\ Mapped(events'[k].status) => events'[k].sub # R[i].link
    BY DEF LinkedOK
  <2>1. PICK t : t = R[i].link /\ t \in Sub
    BY <1>1
  <2>2. \E j \in DOMAIN events' : j <= seen /\ events'[j].type = "checkout" /\ events'[j].sub = t
    BY <2>1 DEF InStep, LinkedOK
  <2>3. \/ stripe'[t] = stripe[t]
        \/ /\ stripe[t].status \notin Ended
           /\ stripe'[t].status = "canceled" => Pending("deleted", t)'
           /\ stripe'[t].price = stripe[t].price \/ Pending("updated", t)'
    BY <2>1
  <2>4. stripe'[t].status = "canceled" => R[i].status = "canceled" \/ Pending("deleted", t)'
    BY <1>3, <2>1, <2>3 DEF InStep, LinkedOK
  <2>5. ASSUME stripe'[t].status # "canceled"
        PROVE  /\ Known(stripe'[t].price) => R[i].plan = stripe'[t].price \/ Pending("updated", t)'
               /\ \E j \in DOMAIN events' :
                     /\ j <= seen /\ events'[j].sub = t
                     /\ Mapped(events'[j].status) /\ mapStripeStatus[events'[j].status] = R[i].status
                     /\ \A k \in DOMAIN events' : j < k /\ k <= seen /\ Mapped(events'[k].status) => events'[k].sub # t
    <3>1. stripe[t].status # "canceled" BY <1>0, <2>3, <2>5
    <3>2. Known(stripe[t].price) => R[i].plan = stripe[t].price \/ Pending("updated", t)
      BY <2>1, <3>1 DEF InStep, LinkedOK
    <3>3. PICK j \in DOMAIN events :
             /\ j <= seen /\ events[j].sub = t
             /\ Mapped(events[j].status) /\ mapStripeStatus[events[j].status] = R[i].status
             /\ \A k \in DOMAIN events : j < k /\ k <= seen /\ Mapped(events[k].status) => events[k].sub # t
      BY <2>1, <3>1 DEF InStep, LinkedOK
    <3>4. \A k \in DOMAIN events' : k <= seen => k \in DOMAIN events
      OBVIOUS
    <3>5. Known(stripe'[t].price) => R[i].plan = stripe'[t].price \/ Pending("updated", t)'
      BY <1>3, <2>3, <3>2
    <3>6. /\ j \in DOMAIN events' /\ events'[j] = events[j]
          /\ \A k \in DOMAIN events' : k <= seen => events'[k] = events[k]
      BY <3>4
    <3> QED BY <3>3, <3>4, <3>5, <3>6
  <2>6. R[i].status = "expired" => stripe'[t].status = "incomplete_expired"
    <3>1. R[i].status = "expired" => stripe[t].status = "incomplete_expired"
      BY <2>1 DEF InStep, LinkedOK
    <3> QED BY <1>0, <2>3, <3>1
  <2> QED BY <2>1, <2>2, <2>4, <2>5, <2>6
<1>5. Twins(R)'
  <2>1. \A i, j \in DOMAIN R : i < j /\ R[i].link = R[j].link /\ R[i].link # 0 =>
           R[i].status = "canceled" /\ stripe[R[i].link].status = "canceled"
    BY DEF InStep, Twins
  <2>2. \A i, j \in DOMAIN R : i < j /\ R[i].link = R[j].link /\ R[i].link # 0 =>
           R[i].status = "canceled" /\ stripe'[R[i].link].status = "canceled"
    BY <1>0, <1>2, <2>1
  <2> QED BY <2>2 DEF Twins
<1>6. Retaken(R)'
  <2> SUFFICES ASSUME seen # 0, events[seen].type = "checkout", NEW i \in DOMAIN R, R[i].link = events[seen].sub,
                      i # Len(R) \/ R[i].plan = "free"
               PROVE  R[i].status = "canceled" /\ stripe'[R[i].link].status = "canceled"
    BY DEF Retaken
  <2>1. R[i].status = "canceled" /\ stripe[R[i].link].status = "canceled"
    BY DEF InStep, Retaken
  <2>2. CASE R[i].link # 0 BY <1>0, <1>2, <2>1, <2>2
  <2>3. CASE R[i].link = 0
    <3>1. 0 \notin Sub BY BillingAssumption DEF Sub
    <3> QED BY <2>3, <3>1
  <2> QED BY <2>2, <2>3
<1> QED BY <1>4, <1>5, <1>6 DEF InStep

LEMMA BillOneKeeps ==
  ASSUME NEW type, NEW s \in Sub, NEW price \in Price, NEW status \in StripeStatus, NEW L,
         BillOne(type, s, price, status), BillLog(L, type, s, price, status), seen' = seen, seen \in 0..L,
         NEW R \in Seq(Row), InStep(R)
  PROVE  InStep(R)'
<1>1. seen \in Nat /\ (seen # 0 => seen \in DOMAIN events)
  BY DEF BillLog
<1>2. \A k \in DOMAIN events : k \in DOMAIN events' /\ events'[k] = events[k] /\ k \in Nat /\ events[k].sub \in Sub
  BY DEF BillLog
<1>3. \A k \in DOMAIN events' : k \in DOMAIN events \/ (k > seen /\ k \in Nat)
  BY DEF BillLog
<1>4. L + 1 \in DOMAIN events' /\ L + 1 > seen
  BY DEF BillLog
<1>5. Pending(type, s)'
  BY <1>4 DEF Pending, BillLog
<1>6. /\ stripe[s].status \notin Ended
      /\ stripe'[s].status = "canceled" => type = "deleted"
      /\ stripe'[s].price = stripe[s].price \/ type = "updated"
  BY DEF BillOne, BillLog, Exists
<1>7. \A t \in Sub : \/ stripe'[t] = stripe[t]
                     \/ /\ stripe[t].status \notin Ended
                        /\ stripe'[t].status = "canceled" => Pending("deleted", t)'
                        /\ stripe'[t].price = stripe[t].price \/ Pending("updated", t)'
  BY <1>5, <1>6 DEF BillLog
<1> QED BY <1>1, <1>2, <1>3, <1>7, BillLogGrows

\* A checkout adds two events at once.
BillLogTwo(L, s, price) ==
    /\ L \in Nat /\ L = Len(events) /\ Len(events') = L + 2
    /\ DOMAIN events = 1..L /\ DOMAIN events' = 1..(L + 2)
    /\ \A i \in 1..L : events'[i] = events[i] /\ events[i].sub \in Sub
    /\ events'[L + 1].type = "checkout" /\ events'[L + 2].type = "updated"
    /\ \A i \in {L + 1, L + 2} : events'[i].sub = s /\ events'[i].price = price /\ events'[i].status = "active"
    /\ stripe'[s].price = price /\ stripe'[s].status = "active"
    /\ \A t \in Sub \ {s} : stripe'[t] = stripe[t]

LEMMA BillTwoLog ==
  ASSUME BillTypes, NEW s \in Sub, NEW price \in Price, Emits(s, price, "active", <<"checkout", "updated">>)
  PROVE  /\ events' \in Seq(Event) /\ Len(events') <= MaxEvent /\ stripe' \in [Sub -> StripeState]
         /\ Len(events) <= Len(events')
         /\ \E L : BillLogTwo(L, s, price)
<1>1. PICK types : types = <<"checkout", "updated">>
  OBVIOUS
<1>2. /\ types \in Seq({"checkout", "updated", "deleted", "failed", "succeeded"}) /\ Len(types) = 2
      /\ types[1] = "checkout" /\ types[2] = "updated"
  BY <1>1
<1>3. Emits(s, price, "active", types) /\ "active" \in StripeStatus
  BY <1>1, BillStatuses
<1>4. PICK L \in Nat : L = Len(events) /\ DOMAIN events = 1..L /\ \A i \in 1..L : events[i] \in Event
  BY DEF BillTypes
<1>5. /\ events' \in Seq(Event) /\ Len(events') = L + 2 /\ Len(events') <= MaxEvent
      /\ \A i \in 1..L : events'[i] = events[i]
      /\ \A i \in 1..2 : events'[L + i] = [type |-> types[i], sub |-> s, price |-> price, status |-> "active"]
      /\ stripe' \in [Sub -> StripeState] /\ stripe'[s].price = price /\ stripe'[s].status = "active"
      /\ \A t \in Sub \ {s} : stripe'[t] = stripe[t]
  <2>1. PICK status \in StripeStatus, n \in Nat : status = "active" /\ n = Len(types) /\ n = 2
    BY <1>2, <1>3
  <2>2. Emits(s, price, status, types)
    BY <1>3, <2>1
  <2>3. /\ events' \in Seq(Event) /\ Len(events') = L + n /\ Len(events') <= MaxEvent
        /\ \A i \in 1..L : events'[i] = events[i]
        /\ \A i \in 1..n : events'[L + i] = [type |-> types[i], sub |-> s, price |-> price, status |-> status]
        /\ stripe' \in [Sub -> StripeState] /\ stripe'[s].price = price /\ stripe'[s].status = status
        /\ \A t \in Sub \ {s} : stripe'[t] = stripe[t]
    <3>1. /\ events' \in Seq(Event) /\ Len(events') = Len(events) + Len(types) /\ Len(events') <= MaxEvent
          /\ \A i \in 1..Len(events) : events'[i] = events[i]
          /\ \A i \in 1..Len(types) : events'[Len(events) + i] =
                [type |-> types[i], sub |-> s, price |-> price, status |-> status]
          /\ stripe' \in [Sub -> StripeState] /\ stripe'[s].price = price /\ stripe'[s].status = status
          /\ \A t \in Sub \ {s} : stripe'[t] = stripe[t]
      BY <1>2, <2>2, BillEmitted
    <3> QED BY <1>4, <2>1, <3>1
  <2> QED BY <2>1, <2>3
<1>6. /\ events'[L + 1] = [type |-> "checkout", sub |-> s, price |-> price, status |-> "active"]
      /\ events'[L + 2] = [type |-> "updated", sub |-> s, price |-> price, status |-> "active"]
  BY <1>2, <1>5
<1>7. \A i \in 1..L : events[i].sub \in Sub
  BY <1>4 DEF Event
<1>8. DOMAIN events' = 1..(L + 2)
  BY <1>5
<1>9. BillLogTwo(L, s, price)
  BY <1>4, <1>5, <1>6, <1>7, <1>8 DEF BillLogTwo
<1> QED BY <1>4, <1>5, <1>9

LEMMA BillTwoEvents ==
  ASSUME BillEvents, NEW s \in Sub, NEW price \in Price, NEW L, BillLogTwo(L, s, price), stripe[s].status = "none"
  PROVE  BillEvents'
<1>1. \A k \in DOMAIN events' : k \in DOMAIN events \/ k = L + 1 \/ k = L + 2
  BY DEF BillLogTwo
<1>2. \A k \in DOMAIN events : /\ k \in DOMAIN events' /\ events'[k] = events[k] /\ k < L + 1 /\ k < L + 2 /\ k \in Nat
                               /\ k + 1 < L + 2 /\ events[k].sub \in Sub
  BY DEF BillLogTwo
<1>3. \A k \in DOMAIN events : events[k].sub # s
  BY <1>2 DEF BillEvents, BillEvent
<1>4. /\ L + 1 \in DOMAIN events' /\ L + 2 \in DOMAIN events' /\ (L + 1) + 1 = L + 2
      /\ ~(L + 1 > L + 2) /\ ~(L + 2 > L + 2) /\ L + 1 # L + 2 /\ L \in Nat
  BY DEF BillLogTwo
<1>5. ASSUME NEW t \in Sub PROVE BillStripe(t)'
  <2>1. CASE t = s
    <3>1. \A k \in DOMAIN events' : ~(k > L + 2)
      BY DEF BillLogTwo
    <3>2. /\ events'[L + 2].sub = s /\ events'[L + 2].status = stripe'[s].status
          /\ events'[L + 2].type = "updated" /\ events'[L + 2].price = stripe'[s].price
      BY DEF BillLogTwo
    <3> QED BY <1>4, <2>1, <3>1, <3>2 DEF BillStripe
  <2>2. CASE t # s
    <3>1. stripe'[t] = stripe[t] /\ events'[L + 1].sub # t /\ events'[L + 2].sub # t
      BY <2>2 DEF BillLogTwo
    <3> QED BY <1>1, <1>2, <3>1 DEF BillEvents, BillStripe
  <2> QED BY <2>1, <2>2
<1>6. ASSUME NEW m \in DOMAIN events PROVE BillEvent(m)'
  <2>1. BillEvent(m) /\ events[m].sub # s /\ events'[m] = events[m] /\ stripe'[events[m].sub] = stripe[events[m].sub]
    BY <1>2, <1>3 DEF BillEvents, BillLogTwo
  <2>2. events'[L + 1].sub = s /\ events'[L + 2].sub = s
    BY DEF BillLogTwo
  <2>3. events[m].status \in Ended => \A k \in DOMAIN events' : k > m => events'[k].sub # events[m].sub
    BY <1>1, <1>2, <2>1, <2>2 DEF BillEvent
  <2>4. events[m].type = "checkout" =>
          /\ m + 1 \in DOMAIN events' /\ events'[m + 1].type = "updated" /\ events'[m + 1].sub = events[m].sub
          /\ \A k \in DOMAIN events' : events'[k].type = "checkout" /\ events'[k].sub = events[m].sub => k = m
    BY <1>1, <1>2, <2>1, <2>2 DEF BillEvent
  <2>5. events[m].type = "succeeded" =>
          \E k \in DOMAIN events' :
             /\ k < m /\ events'[k].sub = events[m].sub /\ events'[k].status = "past_due"
             /\ \A j \in DOMAIN events' : k < j /\ j < m => events'[j].sub # events[m].sub
    BY <1>1, <1>2, <2>1, <2>2 DEF BillEvent
  <2> QED BY <2>1, <2>3, <2>4, <2>5 DEF BillEvent
<1>7. BillEvent(L + 1)'
  <2>1. /\ events'[L + 1].type = "checkout" /\ events'[L + 1].sub = s /\ events'[L + 1].status = "active"
        /\ events'[L + 2].type = "updated" /\ events'[L + 2].sub = s /\ stripe'[s].status = "active"
    BY DEF BillLogTwo
  <2>2. \A k \in DOMAIN events' : events'[k].type = "checkout" /\ events'[k].sub = s => k = L + 1
    BY <1>1, <1>2, <1>3, <2>1
  <2>3. "active" \notin Ended BY DEF Ended
  <2> QED BY <1>4, <2>1, <2>2, <2>3 DEF BillEvent
<1>8. BillEvent(L + 2)'
  <2>1. events'[L + 2].type = "updated" /\ events'[L + 2].sub = s /\ events'[L + 2].status = "active" /\ stripe'[s].status = "active"
    BY DEF BillLogTwo
  <2>2. "active" \notin Ended BY DEF Ended
  <2> QED BY <2>1, <2>2 DEF BillEvent
<1> QED BY <1>1, <1>5, <1>6, <1>7, <1>8 DEF BillEvents

LEMMA BillTwoKeeps ==
  ASSUME BillEvents, NEW s \in Sub, NEW price \in Price, NEW L, BillLogTwo(L, s, price), stripe[s].status = "none",
         seen' = seen, seen \in 0..L, NEW R \in Seq(Row), InStep(R)
  PROVE  InStep(R)'
<1>1. seen \in Nat /\ (seen # 0 => seen \in DOMAIN events)
  BY DEF BillLogTwo
<1>2. \A k \in DOMAIN events : k \in DOMAIN events' /\ events'[k] = events[k] /\ k \in Nat /\ events[k].sub \in Sub
  BY DEF BillLogTwo
<1>3. \A k \in DOMAIN events' : k \in DOMAIN events \/ (k > seen /\ k \in Nat)
  BY DEF BillLogTwo
<1>4. ASSUME NEW i \in DOMAIN R PROVE R[i].link # s
  <2>1. R[i].link # 0 => \E j \in DOMAIN events : events[j].sub = R[i].link
    BY DEF InStep, LinkedOK
  <2>2. \A j \in DOMAIN events : events[j].sub # s
    BY DEF BillEvents, BillEvent
  <2>3. s # 0 BY BillingAssumption DEF Sub
  <2> QED BY <2>1, <2>2, <2>3
<1>5. \A t \in Sub : stripe'[t] = stripe[t] \/ \A i \in DOMAIN R : R[i].link # t
  BY <1>4 DEF BillLogTwo
<1> QED BY <1>1, <1>2, <1>3, <1>5, BillLogGrows

LEMMA BillLegitKept ==
  ASSUME NEW r, Legit(r), \A j \in DOMAIN events : j \in DOMAIN events' /\ events'[j] = events[j]
  PROVE  Legit(r)'
BY DEF Legit, Cancels

\* What is being written is a row of the right place.
LEMMA BillWork ==
  ASSUME BillTypes, NEW h \in Handler, work[h] # NoWork
  PROVE  /\ work[h].row \in Row /\ work[h].id \in 0..Len(rows)
         /\ Applied(work[h]) \in Seq(Row)
<1>1. PICK w : w = work[h] /\ w \in Work
  BY DEF BillTypes
<1>2. w.row \in Row /\ w.id \in 0..MaxRow
  BY <1>1 DEF Work
<1>3. PICK n \in Nat : n = Len(rows) /\ rows \in Seq(Row) /\ DOMAIN rows = 1..n
  BY DEF BillTypes
<1>4. w.id \in 0..n
  BY <1>1, <1>2, <1>3, BillingAssumption DEF BillTypes
<1>5. Applied(w) \in Seq(Row)
  <2>1. CASE w.id = 0 BY <1>2, <1>3, <2>1 DEF Applied
  <2>2. CASE w.id # 0
    <3>1. rows \in [1..n -> Row] /\ w.id \in 1..n
      BY <1>3, <1>4, <2>2
    <3>2. [rows EXCEPT ![w.id] = w.row] \in [1..n -> Row]
      BY <1>2, <3>1
    <3> QED BY <1>3, <2>2, <3>2 DEF Applied
  <2> QED BY <2>1, <2>2
<1> QED BY <1>1, <1>2, <1>3, <1>4, <1>5

\* Stripe may have moved ...
BillGrows ==
    /\ events' \in Seq(Event) /\ Len(events') <= MaxEvent /\ Len(events) <= Len(events')
    /\ stripe' \in [Sub -> StripeState]
    /\ BillEvents'
    /\ \A j \in DOMAIN events : j \in DOMAIN events' /\ events'[j] = events[j]

\* ... and rows in step are still.
BillMoves == BillGrows /\ \A R \in Seq(Row) : InStep(R) => InStep(R)'

LEMMA BillOneMoves ==
  ASSUME BillInv, NEW type, NEW s \in Sub, NEW price \in Price, NEW status \in StripeStatus, BillOne(type, s, price, status),
         seen' = seen
  PROVE  /\ BillMoves /\ Pending(type, s)' /\ stripe'[s].status = status
         /\ \E j \in DOMAIN events' : events'[j].type = type /\ events'[j].sub = s
<1>1. /\ events' \in Seq(Event) /\ Len(events') <= MaxEvent /\ stripe' \in [Sub -> StripeState]
      /\ Len(events) <= Len(events')
      /\ \E L : BillLog(L, type, s, price, status)
  BY BillOneLog DEF BillInv
<1>2. PICK L : BillLog(L, type, s, price, status) BY <1>1
<1>3. BillEvents' BY <1>2, BillOneEvents DEF BillInv
<1>4. seen \in 0..L BY <1>2 DEF BillLog, BillInv, BillTypes
<1>5. \A R \in Seq(Row) : InStep(R) => InStep(R)'
  BY <1>2, <1>4, BillOneKeeps
<1>6. \A j \in DOMAIN events : j \in DOMAIN events' /\ events'[j] = events[j]
  BY <1>2 DEF BillLog
<1>7. L + 1 \in DOMAIN events' /\ L + 1 > seen
  BY <1>2, <1>4 DEF BillLog
<1>8. /\ Pending(type, s)' /\ stripe'[s].status = status
      /\ \E j \in DOMAIN events' : events'[j].type = type /\ events'[j].sub = s
  BY <1>2, <1>7 DEF Pending, BillLog
<1> QED BY <1>1, <1>3, <1>5, <1>6, <1>8 DEF BillMoves, BillGrows

LEMMA BillStill == ASSUME BillInv, UNCHANGED <<stripe, events, seen>> PROVE BillMoves
<1>1. PICK n \in Nat : n = Len(events) BY DEF BillInv, BillTypes
<1>2. BillEvents' BY DEF BillInv, BillEvents, BillStripe, BillEvent
<1>3. ASSUME NEW R, InStep(R) PROVE InStep(R)'
  BY <1>3 DEF InStep, LinkedOK, Pending, Twins, Retaken
<1> QED BY <1>1, <1>2, <1>3 DEF BillMoves, BillGrows, BillInv, BillTypes

\* Stripe moves, the service does not.
LEMMA BillStripeKeeps ==
  ASSUME BillInv, UNCHANGED <<rows, seen, calm, work>>, BillMoves
  PROVE  BillInv'
<1> USE DEF BillMoves, BillGrows
<1>1. BillTypes'
  <2>1. seen' \in 0..Len(events')
    <3>1. PICK a, b \in Nat : a = Len(events) /\ b = Len(events') BY DEF BillInv, BillTypes
    <3> QED BY <3>1 DEF BillInv, BillTypes
  <2> QED BY <2>1 DEF BillInv, BillTypes
<1>2. BillLegit'
  <2>1. \A i \in DOMAIN rows : rows[i] \in Row BY DEF BillInv, BillTypes
  <2>2. \A h \in Handler : work[h] # NoWork => work[h].row \in Row BY BillWork DEF BillInv
  <2> QED BY <2>1, <2>2, BillLegitKept DEF BillInv, BillLegit
<1>3. BillCalm'
  <2> SUFFICES ASSUME calm
               PROVE  \/ (\A h \in Handler : work[h] = NoWork) /\ InStep(rows)'
                      \/ \E h \in Handler : /\ work[h] # NoWork /\ \A g \in Handler \ {h} : work[g] = NoWork
                                            /\ InStep(Applied(work[h]))'
    BY DEF BillCalm
  <2>1. CASE (\A h \in Handler : work[h] = NoWork) /\ InStep(rows)
    <3>1. PICK R \in Seq(Row) : R = rows BY DEF BillInv, BillTypes
    <3>2. InStep(R)' /\ R = rows' BY <2>1, <3>1
    <3>3. InStep(rows)' BY <3>2
    <3> QED BY <2>1, <3>3
  <2>2. ASSUME NEW h \in Handler, work[h] # NoWork, \A g \in Handler \ {h} : work[g] = NoWork, InStep(Applied(work[h]))
        PROVE  InStep(Applied(work[h]))'
    <3>1. PICK R \in Seq(Row) : R = Applied(work[h]) BY <2>2, BillWork DEF BillInv
    <3>2. InStep(R)' BY <2>2, <3>1
    <3>3. R = Applied(work[h])' BY <3>1 DEF Applied
    <3> QED BY <3>2, <3>3
  <2> QED BY <2>1, <2>2 DEF BillInv, BillCalm
<1> QED BY <1>1, <1>2, <1>3 DEF BillInv

LEMMA BillStripeStep ==
  ASSUME BillInv, NEW s \in Sub, Checkout(s) \/ Charge(s) \/ Amend(s) \/ End(s)
  PROVE  BillInv'
<1>1. UNCHANGED <<rows, seen, calm, work>>
  BY DEF Checkout, Charge, Amend, End
<1>2. stripe[s].price \in Price
  BY DEF BillInv, BillTypes, StripeState
<1>3. ASSUME NEW type, NEW price \in Price, NEW status \in StripeStatus, BillOne(type, s, price, status) PROVE BillInv'
  <2>1. BillMoves BY <1>1, <1>2, <1>3, BillOneMoves
  <2> QED BY <1>1, <2>1, BillStripeKeeps
<1>4. CASE Checkout(s)
  <2>1. PICK price \in Price : Emits(s, price, "active", <<"checkout", "updated">>) /\ stripe[s].status = "none"
    BY <1>4 DEF Checkout, Price
  <2>2. /\ events' \in Seq(Event) /\ Len(events') <= MaxEvent /\ stripe' \in [Sub -> StripeState]
        /\ Len(events) <= Len(events')
        /\ \E L : BillLogTwo(L, s, price)
    BY <2>1, BillTwoLog DEF BillInv
  <2>3. PICK L : BillLogTwo(L, s, price) BY <2>2
  <2>4. BillEvents' BY <2>1, <2>3, BillTwoEvents DEF BillInv
  <2>5. seen \in 0..L BY <2>3 DEF BillLogTwo, BillInv, BillTypes
  <2>6. \A R \in Seq(Row) : InStep(R) => InStep(R)'
    BY <1>1, <2>1, <2>3, <2>5, BillTwoKeeps DEF BillInv
  <2>7. \A j \in DOMAIN events : j \in DOMAIN events' /\ events'[j] = events[j]
    BY <2>3 DEF BillLogTwo
  <2>8. BillMoves BY <2>2, <2>4, <2>6, <2>7 DEF BillMoves, BillGrows
  <2> QED BY <1>1, <2>8, BillStripeKeeps
<1>5. CASE Charge(s)
  <2>1. "past_due" \in StripeStatus /\ "active" \in StripeStatus BY BillStatuses
  <2>2. CASE stripe[s].status \in {"active", "trialing"} /\ Emits(s, stripe[s].price, "past_due", <<"failed">>)
    <3>1. BillOne("failed", s, stripe[s].price, "past_due") BY <2>2 DEF BillOne, Exists, Ended
    <3> QED BY <1>2, <1>3, <2>1, <3>1
  <2>3. CASE stripe[s].status = "past_due" /\ Emits(s, stripe[s].price, "active", <<"succeeded">>)
    <3>1. BillOne("succeeded", s, stripe[s].price, "active") BY <2>3 DEF BillOne, Exists, Ended
    <3> QED BY <1>2, <1>3, <2>1, <3>1
  <2> QED BY <1>5, <2>2, <2>3 DEF Charge
<1>6. CASE Amend(s)
  <2>1. PICK r \in Reported : Emits(s, r.price, r.status, <<"updated">>) /\ Exists(s)
    BY <1>6 DEF Amend
  <2>2. r.price \in Price /\ r.status \in StripeStatus /\ r.status # "canceled"
    BY BillingAssumption
  <2>3. BillOne("updated", s, r.price, r.status) BY <2>1, <2>2 DEF BillOne
  <2> QED BY <1>3, <2>2, <2>3
<1>7. CASE End(s)
  <2>1. "canceled" \in StripeStatus BY BillStatuses
  <2>2. BillOne("deleted", s, stripe[s].price, "canceled") BY <1>7 DEF BillOne, End
  <2> QED BY <1>2, <1>3, <2>1, <2>2
<1> QED BY <1>4, <1>5, <1>6, <1>7

\* A row that is in step takes the place of another.
LEMMA BillReplaceKeeps ==
  ASSUME NEW R \in Seq(Row), NEW id \in DOMAIN R, NEW new \in Row, NEW S, S = [R EXCEPT ![id] = new],
         \A i \in DOMAIN R : i # id => LinkedOK(R[i])', LinkedOK(new)',
         \A i, j \in DOMAIN S : i < j /\ S[i].link = S[j].link /\ S[i].link # 0 =>
             S[i].status = "canceled" /\ stripe'[S[i].link].status = "canceled",
         seen' # 0 /\ events'[seen'].type = "checkout" =>
             \A i \in DOMAIN S : S[i].link = events'[seen'].sub /\ (i # Len(S) \/ S[i].plan = "free") =>
                 S[i].status = "canceled" /\ stripe'[S[i].link].status = "canceled"
  PROVE  S \in Seq(Row) /\ DOMAIN S = DOMAIN R /\ Len(S) = Len(R) /\ InStep(S)'
<1>1. PICK n \in Nat : n = Len(R) /\ DOMAIN R = 1..n /\ R \in [1..n -> Row]
  OBVIOUS
<1>2. S \in [1..n -> Row]
  BY <1>1
<1>3. S \in Seq(Row) /\ DOMAIN S = 1..n /\ Len(S) = n
  BY <1>2
<1>4. \A i \in DOMAIN S : LinkedOK(S[i])'
  <2>1. S[id] = new /\ \A i \in DOMAIN R : i # id => S[i] = R[i]
    BY <1>1
  <2> QED BY <1>1, <1>3, <2>1
<1>5. Twins(S)'
  BY DEF Twins
<1>6. Retaken(S)'
  BY DEF Retaken
<1> QED BY <1>1, <1>3, <1>4, <1>5, <1>6 DEF InStep

\* A handler that is alone prepares to write.
LEMMA BillAlone ==
  ASSUME BillTypes, NEW h \in Handler, \A g \in Handler : work[g] = NoWork, NEW w \in Work,
         work' = [work EXCEPT ![h] = w], rows' = rows,
         NEW S, S = (IF w.id = 0 THEN Append(rows, w.row) ELSE [rows EXCEPT ![w.id] = w.row]), InStep(S)'
  PROVE  BillCalm'
<1>1. work'[h] = w /\ w # NoWork /\ \A g \in Handler \ {h} : work'[g] = NoWork
  BY BillingAssumption DEF BillTypes
<1>2. Applied(work[h])' = S
  <2>1. (IF work[h].id = 0 THEN Append(rows, work[h].row) ELSE [rows EXCEPT ![work[h].id] = work[h].row])' = S
    <3>1. CASE w.id = 0
      <4>1. S = Append(rows, w.row) BY <3>1
      <4> QED BY <1>1, <3>1, <4>1
    <3>2. CASE w.id # 0
      <4>1. S = [rows EXCEPT ![w.id] = w.row] BY <3>2
      <4> QED BY <1>1, <3>2, <4>1
    <3> QED BY <3>1, <3>2
  <2> QED BY <2>1 DEF Applied
<1>3. InStep(Applied(work[h]))'
  BY <1>2
<1> QED BY <1>1, <1>3 DEF BillCalm

\* A row is written, or cannot be.
LEMMA BillWriteStep == ASSUME BillInv, NEW h \in Handler, Write(h) PROVE BillInv'
<1>1. UNCHANGED <<stripe, events, seen>> /\ work[h] # NoWork /\ work' = [work EXCEPT ![h] = NoWork]
  BY DEF Write
<1>2. PICK w : w = work[h] /\ w.row \in Row /\ w.id \in 0..Len(rows) /\ Applied(w) \in Seq(Row) /\ Legit(w.row)
  BY <1>1, BillWork DEF BillInv, BillLegit
<1>3. PICK n \in Nat : n = Len(rows) /\ rows \in [1..n -> Row] /\ DOMAIN rows = 1..n /\ n <= MaxRow
  BY DEF BillInv, BillTypes
<1>4. /\ work' \in [Handler -> Work \cup {NoWork}] /\ work'[h] = NoWork
      /\ \A g \in Handler \ {h} : work'[g] = work[g]
  BY <1>1 DEF BillInv, BillTypes
<1>5. \/ rows' = Applied(w) /\ calm' = calm /\ (w.id = 0 => n < MaxRow)
      \/ rows' = rows /\ calm' = FALSE
  BY <1>2, <1>3 DEF Write, Applied, Newest
<1>6. /\ rows' \in Seq(Row) /\ n <= Len(rows') /\ Len(rows') <= MaxRow
      /\ \A i \in DOMAIN rows' : Legit(rows'[i])
  <2>1. CASE rows' = rows BY <1>3, <2>1 DEF BillInv, BillTypes, BillLegit
  <2>2. CASE w.id = 0 /\ rows' = Append(rows, w.row) /\ n < MaxRow
    <3>1. /\ Len(rows') = n + 1 /\ DOMAIN rows' = 1..(n + 1) /\ rows'[n + 1] = w.row
          /\ \A i \in 1..n : rows'[i] = rows[i]
      BY <1>2, <1>3, <2>2 DEF BillInv, BillTypes
    <3>2. \A i \in 1..(n + 1) : i \in 1..n \/ i = n + 1 BY <1>3
    <3>3. \A i \in DOMAIN rows' : Legit(rows'[i]) BY <1>2, <1>3, <3>1, <3>2 DEF BillInv, BillLegit
    <3>4. rows' \in Seq(Row) BY <1>2, <2>2 DEF Applied
    <3>5. n + 1 <= MaxRow BY <1>3, <2>2, BillingAssumption
    <3> QED BY <1>3, <3>1, <3>3, <3>4, <3>5
  <2>3. CASE w.id # 0 /\ rows' = [rows EXCEPT ![w.id] = w.row]
    <3>1. w.id \in 1..n BY <1>2, <1>3, <2>3
    <3>2. rows' \in [1..n -> Row] BY <1>2, <1>3, <2>3, <3>1
    <3>3. rows' \in Seq(Row) /\ Len(rows') = n /\ DOMAIN rows' = 1..n BY <3>2
    <3>4. rows'[w.id] = w.row /\ \A i \in 1..n : i # w.id => rows'[i] = rows[i] BY <1>3, <2>3, <3>1
    <3>5. \A i \in DOMAIN rows' : Legit(rows'[i]) BY <1>2, <1>3, <3>3, <3>4 DEF BillInv, BillLegit
    <3> QED BY <1>3, <3>3, <3>5
  <2> QED BY <1>2, <1>5, <2>1, <2>2, <2>3 DEF Applied
<1>7. BillTypes'
  <2>1. \A g \in Handler : work'[g] # NoWork => work'[g].id <= Len(rows')
    <3>1. ASSUME NEW g \in Handler, work'[g] # NoWork PROVE work'[g].id <= Len(rows')
      <4>1. PICK k : k = work[g].id /\ k \in 0..n /\ work'[g] = work[g]
        BY <1>3, <1>4, <3>1, BillWork DEF BillInv
      <4>2. PICK m \in Nat : m = Len(rows') /\ n <= m BY <1>6
      <4> QED BY <1>3, <4>1, <4>2
    <3> QED BY <3>1
  <2>2. calm' \in BOOLEAN BY <1>5 DEF BillInv, BillTypes
  <2> QED BY <1>1, <1>4, <1>6, <2>1, <2>2 DEF BillInv, BillTypes
<1>8. BillEvents'
  BY <1>1 DEF BillInv, BillEvents, BillStripe, BillEvent
<1>9. BillLegit'
  <2>1. \A i \in DOMAIN rows' : Legit(rows[i])' BY <1>1, <1>6 DEF Legit, Cancels
  <2>2. \A g \in Handler : work'[g] # NoWork => Legit(work[g].row)' BY <1>1, <1>4 DEF BillInv, BillLegit, Legit, Cancels
  <2> QED BY <2>1, <2>2 DEF BillLegit
<1>10. BillCalm'
  <2>1. SUFFICES ASSUME calm' PROVE (\A g \in Handler : work'[g] = NoWork) /\ InStep(rows)'
    BY DEF BillCalm
  <2>2. calm /\ rows' = Applied(w) BY <1>5, <2>1
  <2>3. (\A g \in Handler \ {h} : work[g] = NoWork) /\ InStep(Applied(w))
    BY <1>1, <1>2, <2>2 DEF BillInv, BillCalm
  <2>4. InStep(rows)'
    <3>1. PICK R : R = Applied(w) OBVIOUS
    <3>2. InStep(R) BY <2>3, <3>1
    <3>3. InStep(R)' BY <1>1, <3>2 DEF InStep, LinkedOK, Pending, Twins, Retaken
    <3> QED BY <2>2, <3>1, <3>3
  <2> QED BY <1>4, <2>3, <2>4
<1> QED BY <1>7, <1>8, <1>9, <1>10 DEF BillInv

\* The newest row changes, its link does not.
LEMMA BillNewestKeeps ==
  ASSUME NEW R \in Seq(Row), NEW n \in Nat, n = Len(R), n # 0, NEW new \in Row, new.link = R[n].link,
         InStep(R)', LinkedOK(new)', seen' # 0 => events'[seen'].sub # 0,
         \/ new.plan # "free" \/ new.link = 0 \/ new = R[n]
         \/ new.status = "canceled" /\ stripe'[new.link].status = "canceled"
  PROVE  InStep([R EXCEPT ![n] = new])'
<1>1. DOMAIN R = 1..n /\ n \in DOMAIN R /\ R \in [1..n -> Row]
  OBVIOUS
<1>2. PICK S : S = [R EXCEPT ![n] = new]
  OBVIOUS
<1>3. S \in [1..n -> Row] /\ S[n] = new /\ \A i \in 1..n : (i # n => S[i] = R[i]) /\ S[i].link = R[i].link
  BY <1>1, <1>2
<1>4. Len(S) = n /\ DOMAIN S = 1..n
  BY <1>3
<1>5. \A i \in DOMAIN R : i # n => LinkedOK(R[i])'
  BY DEF InStep
<1>6. \A i, j \in DOMAIN S : i < j /\ S[i].link = S[j].link /\ S[i].link # 0 =>
             S[i].status = "canceled" /\ stripe'[S[i].link].status = "canceled"
  <2>1. \A i, j \in 1..n : i < j /\ R[i].link = R[j].link /\ R[i].link # 0 =>
             R[i].status = "canceled" /\ stripe'[R[i].link].status = "canceled"
    BY <1>1 DEF InStep, Twins
  <2>2. \A i, j \in 1..n : i < j => i # n
    OBVIOUS
  <2> QED BY <1>3, <1>4, <2>1, <2>2
<1>7. seen' # 0 /\ events'[seen'].type = "checkout" =>
             \A i \in DOMAIN S : S[i].link = events'[seen'].sub /\ (i # Len(S) \/ S[i].plan = "free") =>
                 S[i].status = "canceled" /\ stripe'[S[i].link].status = "canceled"
  <2> SUFFICES ASSUME seen' # 0, events'[seen'].type = "checkout", NEW i \in 1..n, S[i].link = events'[seen'].sub,
                      i # n \/ S[i].plan = "free"
               PROVE  S[i].status = "canceled" /\ stripe'[S[i].link].status = "canceled"
    BY <1>4
  <2>1. R[i].link = events'[seen'].sub /\ (i # n \/ R[i].plan = "free") =>
           R[i].status = "canceled" /\ stripe'[R[i].link].status = "canceled"
    BY <1>1 DEF InStep, Retaken
  <2>2. CASE i # n BY <1>3, <2>1, <2>2
  <2>3. CASE i = n BY <1>3, <2>1, <2>3
  <2> QED BY <2>2, <2>3
<1>8. InStep(S)'
  BY <1>1, <1>2, <1>5, <1>6, <1>7, BillReplaceKeeps
<1> QED BY <1>2, <1>8

\* A row without a link is added after one on the free plan.
LEMMA BillCreateKeeps ==
  ASSUME NEW R \in Seq(Row), NEW n \in Nat, n = Len(R), n # 0 => R[n].plan = "free", NEW new \in Row, new.link = 0,
         InStep(R)', seen' # 0 => events'[seen'].sub # 0
  PROVE  InStep(Append(R, new))'
<1>1. DOMAIN R = 1..n
  OBVIOUS
<1>2. PICK S : S = Append(R, new)
  OBVIOUS
<1>3. /\ S \in Seq(Row) /\ Len(S) = n + 1 /\ DOMAIN S = 1..(n + 1) /\ S[n + 1] = new
      /\ \A i \in 1..n : S[i] = R[i]
  BY <1>2
<1>4. \A i \in 1..(n + 1) : i \in 1..n \/ i = n + 1
  OBVIOUS
<1>5. \A i \in DOMAIN S : LinkedOK(S[i])'
  <2>1. LinkedOK(new)' BY DEF LinkedOK
  <2>2. \A i \in 1..n : LinkedOK(R[i])' BY <1>1 DEF InStep
  <2> QED BY <1>3, <1>4, <2>1, <2>2
<1>6. Twins(S)'
  <2>1. \A i, j \in 1..n : i < j /\ R[i].link = R[j].link /\ R[i].link # 0 =>
             R[i].status = "canceled" /\ stripe'[R[i].link].status = "canceled"
    BY <1>1 DEF InStep, Twins
  <2>2. ASSUME NEW i \in 1..(n + 1), NEW j \in 1..(n + 1), i < j, S[i].link = S[j].link, S[i].link # 0
        PROVE  S[i].status = "canceled" /\ stripe'[S[i].link].status = "canceled"
    <3>1. i \in 1..n /\ j \in 1..n BY <1>3, <1>4, <2>2
    <3> QED BY <1>3, <2>1, <2>2, <3>1
  <2> QED BY <1>3, <2>2 DEF Twins
<1>7. Retaken(S)'
  <2> SUFFICES ASSUME seen' # 0, events'[seen'].type = "checkout", NEW i \in 1..(n + 1), S[i].link = events'[seen'].sub
               PROVE  S[i].status = "canceled" /\ stripe'[S[i].link].status = "canceled"
    BY <1>3 DEF Retaken
  <2>1. i \in 1..n /\ S[i] = R[i] BY <1>3, <1>4
  <2>2. i # n \/ R[i].plan = "free" BY <2>1
  <2> QED BY <1>1, <2>1, <2>2 DEF InStep, Retaken
<1> QED BY <1>2, <1>5, <1>6, <1>7 DEF InStep

\* A handler has read a row and called Stripe.
LEMMA BillPrepare ==
  ASSUME BillInv, NEW h \in Handler, NEW w \in Work, work' = [work EXCEPT ![h] = w], UNCHANGED <<rows>>,
         seen' \in 0..Len(events'), BillGrows,
         w.id <= Len(rows), Legit(w.row)', w.row \in Row, calm' \in BOOLEAN, calm' => \A g \in Handler : work[g] = NoWork,
         NEW S, S = (IF w.id = 0 THEN Append(rows, w.row) ELSE [rows EXCEPT ![w.id] = w.row]), calm' => InStep(S)'
  PROVE  BillInv'
<1>1. /\ work' \in [Handler -> Work \cup {NoWork}] /\ work'[h] = w
      /\ \A g \in Handler \ {h} : work'[g] = work[g]
  BY DEF BillInv, BillTypes
<1>2. BillTypes'
  <2>1. \A g \in Handler : work'[g] # NoWork => work'[g].id <= Len(rows')
    BY <1>1 DEF BillInv, BillTypes
  <2> QED BY <1>1, <2>1 DEF BillInv, BillTypes, BillGrows
<1>3. BillLegit'
  <2>1. \A i \in DOMAIN rows : rows[i] \in Row /\ Legit(rows[i]) BY DEF BillInv, BillTypes, BillLegit
  <2>2. \A i \in DOMAIN rows : Legit(rows[i])'
    <3>1. ASSUME NEW i \in DOMAIN rows PROVE Legit(rows[i])'
      <4>1. PICK r : r = rows[i] /\ r \in Row /\ Legit(r) BY <2>1
      <4>2. Legit(r)' BY <4>1, BillLegitKept DEF BillGrows
      <4> QED BY <4>1, <4>2
    <3> QED BY <3>1
  <2>3. ASSUME NEW g \in Handler, work'[g] # NoWork PROVE Legit(work[g].row)'
    <3>1. CASE g = h
      <4>1. PICK r : r = w.row /\ Legit(r)' OBVIOUS
      <4>2. work'[g].row = r BY <1>1, <3>1, <4>1
      <4> QED BY <4>1, <4>2
    <3>2. CASE g # h
      <4>1. PICK r : r = work[g].row /\ r = work'[g].row /\ Legit(r)
        BY <1>1, <2>3, <3>2 DEF BillInv, BillLegit
      <4>2. Legit(r)' BY <4>1, BillLegitKept DEF BillGrows
      <4> QED BY <4>1, <4>2
    <3> QED BY <3>1, <3>2
  <2> QED BY <2>2, <2>3 DEF BillLegit
<1>4. BillCalm'
  <2>1. CASE calm' BY <2>1, BillAlone DEF BillInv
  <2>2. CASE ~calm' BY <2>2 DEF BillCalm
  <2> QED BY <2>1, <2>2
<1> QED BY <1>2, <1>3, <1>4 DEF BillInv, BillGrows

LEMMA BillSeen ==
  ASSUME BillInv, BillGrows, seen' = seen
  PROVE  seen' \in 0..Len(events') /\ (seen' # 0 => events'[seen'].sub # 0)
<1>1. PICK a, b \in Nat : a = Len(events) /\ b = Len(events') /\ a <= b /\ DOMAIN events' = 1..b
  BY DEF BillInv, BillTypes, BillGrows
<1>2. seen' \in 0..b
  BY <1>1 DEF BillInv, BillTypes
<1>3. seen' # 0 => events'[seen'] \in Event
  BY <1>1, <1>2 DEF BillGrows
<1>4. \A e \in Event : e.sub # 0
  BY DEF Event, Sub
<1> QED BY <1>1, <1>2, <1>3, <1>4

\* The newest row is about to be written, with the same link.
LEMMA BillChange ==
  ASSUME BillInv, BillMoves, NEW c \in Handler, NEW n \in Nat, n = Len(rows), n # 0, NEW new \in Row,
         new.link = rows[n].link, work' = [work EXCEPT ![c] = [id |-> n, row |-> new]], UNCHANGED <<rows, seen>>,
         Legit(new)', calm' \in BOOLEAN, calm' => calm /\ \A g \in Handler : work[g] = NoWork,
         calm' => (LinkedOK(rows[n])' => LinkedOK(new)'),
         \/ new.plan # "free" \/ new.link = 0 \/ new = rows[n]
         \/ new.status = "canceled" /\ stripe'[new.link].status = "canceled"
  PROVE  BillInv'
<1>0. BillGrows
  BY DEF BillMoves
<1>1. PICK R \in Seq(Row) : R = rows /\ DOMAIN R = 1..n
  BY DEF BillInv, BillTypes
<1>2. PICK w : w = [id |-> n, row |-> new]
  OBVIOUS
<1>3. w \in Work /\ w.id = n /\ w.row = new
  <2>1. n \in 0..MaxRow BY DEF BillInv, BillTypes
  <2>2. [id |-> n, row |-> new] \in [id : 0..MaxRow, row : Row] BY <2>1
  <2> QED BY <1>2, <2>2 DEF Work
<1>4. PICK S : S = [R EXCEPT ![n] = new]
  OBVIOUS
<1>5. S = (IF w.id = 0 THEN Append(rows, w.row) ELSE [rows EXCEPT ![w.id] = w.row])
  BY <1>1, <1>3, <1>4
<1>6. calm' => InStep(S)'
  <2>1. SUFFICES ASSUME calm' PROVE InStep(S)'
    OBVIOUS
  <2>2. InStep(rows) BY <2>1 DEF BillInv, BillCalm
  <2>3. InStep(R)' BY <1>1, <2>2 DEF BillMoves
  <2>4. LinkedOK(R[n])' BY <1>1, <2>3 DEF InStep
  <2>5. LinkedOK(new)'
    <3>1. LinkedOK(rows[n])' BY <1>1, <2>4
    <3> QED BY <2>1, <3>1
  <2>6. n = Len(R) /\ new.link = R[n].link BY <1>1
  <2>7. \/ new.plan # "free" \/ new.link = 0 \/ new = R[n]
        \/ new.status = "canceled" /\ stripe'[new.link].status = "canceled"
    BY <1>1
  <2> QED BY <1>4, <2>3, <2>5, <2>6, <2>7, <1>0, BillNewestKeeps, BillSeen
<1>7. seen' \in 0..Len(events') /\ work' = [work EXCEPT ![c] = w]
  BY <1>0, <1>2, BillSeen
<1>8. w.id <= Len(rows) /\ Legit(w.row)' /\ w.row \in Row
  BY <1>3
<1> QED BY <1>0, <1>3, <1>5, <1>6, <1>7, <1>8, BillPrepare

\* The user changes the plan.
LEMMA BillChangePlanStep == ASSUME BillInv, NEW c \in Handler, ChangePlan(c) PROVE BillInv'
<1>1. UNCHANGED <<rows, seen>>
  BY DEF ChangePlan
<1>2. PICK n \in Nat : n = Len(rows) /\ n = Newest /\ DOMAIN rows = 1..n /\ rows \in Seq(Row)
  BY DEF BillInv, BillTypes, Newest
<1>3. Busy <=> ~\A g \in Handler : work[g] = NoWork
  BY DEF Busy
<1>4. calm \in BOOLEAN
  BY DEF BillInv, BillTypes
<1>5. ASSUME handleDowngradeToFree(c) \/ \E to \in Paid : handlePaidPlanChange(c, to) PROVE n # 0
  <2>1. rows # <<>> BY <1>5, BillPlans DEF handleDowngradeToFree, handlePaidPlanChange, CurrentPlan
  <2> QED BY <1>2, <2>1
<1>6. n # 0 => rows[n] \in Row /\ Legit(rows[n]) /\ CurrentPlan = rows[n].plan
  <2>1. n # 0 => n \in DOMAIN rows /\ rows # <<>> BY <1>2
  <2> QED BY <1>2, <2>1 DEF BillInv, BillLegit, CurrentPlan
<1>7. \A r \in Row : r.link # 0 => r.link \in Sub
  BY DEF Row, Sub
<1>8. ASSUME handleDowngradeToFree(c) PROVE BillInv'
  <2>1. PICK r : r = rows[n] /\ r \in Row /\ Legit(r) /\ n # 0 /\ r.plan # "free"
    BY <1>5, <1>6, <1>8 DEF handleDowngradeToFree
  <2>2. calm' \in BOOLEAN /\ (calm' => calm /\ \A g \in Handler : work[g] = NoWork)
    BY <1>3, <1>4, <1>8 DEF handleDowngradeToFree
  <2>3. CASE DowngradeLater(c)
    <3>1. work' = [work EXCEPT ![c] = [id |-> n, row |-> r]] /\ UNCHANGED <<stripe, events>>
      BY <1>2, <2>1, <2>3 DEF DowngradeLater, Prepare
    <3>2. BillMoves BY <1>1, <3>1, BillStill
    <3>3. Legit(r)' BY <2>1, <3>2, BillLegitKept DEF BillMoves, BillGrows
    <3> QED BY <1>1, <1>2, <2>1, <2>2, <3>1, <3>2, <3>3, BillChange
  <2>4. CASE DowngradeNow(c)
    <3>1. PICK new : new = [r EXCEPT !.status = "canceled", !.plan = "free"]
      OBVIOUS
    <3>2. new \in Row /\ new.link = r.link /\ new.status = "canceled" /\ new.plan = "free"
      BY <2>1, <3>1, BillPlans DEF Row, Status
    <3>3. work' = [work EXCEPT ![c] = [id |-> n, row |-> new]]
      BY <1>2, <2>1, <2>4, <3>1 DEF DowngradeNow, Prepare
    <3>5. CASE r.link = 0 /\ UNCHANGED <<stripe, events>>
      <4>1. BillMoves BY <1>1, <3>5, BillStill
      <4>2. LinkedOK(new)' BY <3>2, <3>5 DEF LinkedOK
      <4>3. Legit(new)' BY <3>2, <3>5 DEF Legit
      <4> QED BY <1>1, <1>2, <2>1, <2>2, <3>2, <3>3, <3>5, <4>1, <4>2, <4>3, BillChange
    <3>6. CASE r.link # 0 /\ Exists(r.link) /\ Emits(r.link, stripe[r.link].price, "canceled", <<"deleted">>)
      <4>1. PICK s \in Sub : s = r.link BY <1>7, <2>1, <3>6
      <4>2. PICK price \in Price : price = stripe[s].price BY DEF BillInv, BillTypes, StripeState
      <4>3. BillOne("deleted", s, price, "canceled") /\ "canceled" \in StripeStatus
        BY <3>6, <4>1, <4>2, BillStatuses DEF BillOne
      <4>4. /\ BillMoves /\ stripe'[s].status = "canceled"
            /\ \E j \in DOMAIN events' : events'[j].type = "deleted" /\ events'[j].sub = s
        BY <1>1, <4>3, BillOneMoves
      <4>6. Legit(new)' BY <3>2, <4>1, <4>4 DEF Legit, Cancels
      <4>5. LinkedOK(rows[n])' => LinkedOK(new)'
        <5>1. rows'[n] = r BY <1>1, <2>1
        <5> QED BY <3>2, <4>1, <4>4, <5>1 DEF LinkedOK
      <4> QED BY <1>1, <1>2, <2>1, <2>2, <3>2, <3>3, <4>1, <4>4, <4>5, <4>6, BillChange
    <3> QED BY <1>2, <2>1, <2>4, <3>5, <3>6 DEF DowngradeNow
  <2> QED BY <1>8, <2>3, <2>4 DEF handleDowngradeToFree
<1>9. ASSUME NEW to \in Paid, handlePaidPlanChange(c, to) PROVE BillInv'
  <2>1. PICK r : r = rows[n] /\ r \in Row /\ Legit(r) /\ n # 0 /\ r.plan # "free" /\ to # "free"
    BY <1>5, <1>6, <1>9, BillPlans DEF handlePaidPlanChange
  <2>2. PICK changed : changed = [r EXCEPT !.plan = to]
    OBVIOUS
  <2>3. changed \in Row /\ changed.link = r.link /\ changed.status = r.status /\ changed.plan = to
    BY <2>1, <2>2, BillPlans DEF Row
  <2>4. /\ Legit(changed)
        /\ BillMoves => Legit(changed)' /\ Legit(r)'
    <3>1. Legit(changed) BY <2>1, <2>3 DEF Legit
    <3> QED BY <2>1, <3>1, BillLegitKept DEF BillMoves, BillGrows
  <2>5. CASE r.link = 0 /\ Prepare(c, n, changed) /\ UNCHANGED <<stripe, events>> /\ calm' = (calm /\ ~Busy)
    <3>1. BillMoves BY <1>1, <2>5, BillStill
    <3>2. LinkedOK(changed)' BY <2>3, <2>5 DEF LinkedOK
    <3>3. calm' \in BOOLEAN /\ (calm' => calm /\ \A g \in Handler : work[g] = NoWork)
      BY <1>3, <1>4, <2>5
    <3>4. work' = [work EXCEPT ![c] = [id |-> n, row |-> changed]] BY <2>5 DEF Prepare
    <3> QED BY <1>1, <1>2, <2>1, <2>3, <2>4, <2>5, <3>1, <3>2, <3>3, <3>4, BillChange
  <2>6. CASE /\ r.link # 0 /\ Exists(r.link)
             /\ Emits(r.link, to, stripe[r.link].status, <<"updated">>)
             /\ \E stored \in {r, changed} : Prepare(c, n, stored)
             /\ calm' = (calm /\ ~Busy)
    <3>1. PICK s \in Sub, status \in StripeStatus : s = r.link /\ status = stripe[s].status /\ status # "canceled"
      BY <1>7, <2>1, <2>6 DEF BillInv, BillTypes, StripeState, Exists, Ended
    <3>2. BillOne("updated", s, to, status) /\ to \in Price BY <2>6, <3>1 DEF BillOne, Price
    <3>3. BillMoves /\ Pending("updated", s)' /\ stripe'[s].status = status BY <1>1, <3>2, BillOneMoves
    <3>4. PICK new \in {r, changed} : work' = [work EXCEPT ![c] = [id |-> n, row |-> new]]
      BY <2>6 DEF Prepare
    <3>5. new \in Row /\ new.link = s /\ new.status = r.status /\ new.plan # "free" /\ Legit(new)'
      BY <2>1, <2>3, <2>4, <3>1, <3>3
    <3>6. calm' \in BOOLEAN /\ (calm' => calm /\ \A g \in Handler : work[g] = NoWork)
      BY <1>3, <1>4, <2>6
    <3>7. LinkedOK(rows[n])' => LinkedOK(new)'
      <4>1. rows'[n] = r BY <1>1, <2>1
      <4> QED BY <3>1, <3>3, <3>5, <4>1 DEF LinkedOK
    <3> QED BY <1>1, <1>2, <2>1, <3>1, <3>3, <3>4, <3>5, <3>6, <3>7, BillChange
  <2>7. CASE r.link # 0 /\ Prepare(c, n, changed) /\ UNCHANGED <<stripe, events>> /\ calm' = FALSE
    <3>1. BillMoves BY <1>1, <2>7, BillStill
    <3>2. work' = [work EXCEPT ![c] = [id |-> n, row |-> changed]] BY <2>7 DEF Prepare
    <3> QED BY <1>1, <1>2, <2>1, <2>3, <2>4, <2>7, <3>1, <3>2, BillChange
  <2> QED BY <1>2, <1>9, <2>1, <2>2, <2>5, <2>6, <2>7 DEF handlePaidPlanChange
<1>10. ASSUME NEW to \in Paid, handleUpgradeFromFree(c, to) PROVE BillInv'
  <2>1. PICK new : new = [plan |-> to, status |-> "active", link |-> 0]
    OBVIOUS
  <2>2. new \in Row /\ new.link = 0 /\ Legit(new)'
    BY <2>1, BillPlans, BillingAssumption DEF Row, Status, Legit
  <2>3. PICK w : w = [id |-> 0, row |-> new]
    OBVIOUS
  <2>4. w \in Work /\ w.id = 0 /\ w.row = new
    <3>1. 0 \in 0..MaxRow BY BillingAssumption
    <3>2. [id |-> 0, row |-> new] \in [id : 0..MaxRow, row : Row] BY <2>2, <3>1
    <3> QED BY <2>3, <3>2 DEF Work
  <2>5. /\ work' = [work EXCEPT ![c] = w] /\ UNCHANGED <<stripe, events>> /\ calm' = (calm /\ ~Busy)
        /\ CurrentPlan = "free"
    BY <1>10, <2>1, <2>3 DEF handleUpgradeFromFree, Prepare
  <2>6. BillMoves /\ BillGrows BY <1>1, <2>5, BillStill DEF BillMoves
  <2>7. PICK R, S : R = rows /\ S = Append(R, new)
    OBVIOUS
  <2>8. calm' => InStep(S)'
    <3>1. SUFFICES ASSUME calm' PROVE InStep(S)'
      OBVIOUS
    <3>2. InStep(rows) BY <1>3, <2>5, <3>1 DEF BillInv, BillCalm
    <3>3. InStep(R)' /\ R \in Seq(Row) BY <1>2, <2>6, <2>7, <3>2 DEF BillMoves
    <3>4. n = Len(R) /\ (n # 0 => R[n].plan = "free") BY <1>2, <1>6, <2>5, <2>7
    <3>5. seen' # 0 => events'[seen'].sub # 0 BY <1>1, <2>6, BillSeen
    <3> QED BY <2>2, <2>7, <3>3, <3>4, <3>5, BillCreateKeeps
  <2>9. S = (IF w.id = 0 THEN Append(rows, w.row) ELSE [rows EXCEPT ![w.id] = w.row])
    BY <2>4, <2>7
  <2>10. calm' \in BOOLEAN /\ (calm' => \A g \in Handler : work[g] = NoWork)
    BY <1>3, <1>4, <2>5
  <2>12. w.id <= Len(rows)
    BY <1>2, <2>4
  <2>11. seen' \in 0..Len(events') BY <1>1, <2>6, BillSeen
  <2> QED BY <1>1, <2>2, <2>4, <2>5, <2>6, <2>8, <2>9, <2>10, <2>11, <2>12, BillPrepare
<1> QED BY <1>8, <1>9, <1>10 DEF ChangePlan

LEMMA BillLeast ==
  ASSUME NEW T \in SUBSET Nat, T # {}
  PROVE  \E x \in T : \A y \in T : x <= y
<1>1. IsWellFoundedOn(OpToRel(<, Nat), Nat)
  BY NatLessThanWellFounded
<1>2. PICK x \in T : \A y \in T : ~(<<y, x>> \in OpToRel(<, Nat))
  BY <1>1, WFMin
<1>3. \A y \in T : ~(y < x)
  BY <1>2 DEF OpToRel
<1> QED BY <1>3

\* Rows in step: findByStripeSubID finds a row if there is one, and the newest.
LEMMA BillFound ==
  ASSUME BillTypes, InStep(rows), NEW s \in Sub
  PROVE  /\ \A id \in findByStripeSubID(s) : /\ id \in DOMAIN rows /\ rows[id].link = s
                                             /\ \A k \in DOMAIN rows : rows[k].link = s /\ k # id =>
                                                   /\ k < id /\ rows[k].status = "canceled"
                                                   /\ stripe[s].status = "canceled"
         /\ findByStripeSubID(s) = {} => \A k \in DOMAIN rows : rows[k].link # s
<1>1. PICK n \in Nat : n = Len(rows) /\ DOMAIN rows = 1..n
  BY DEF BillTypes
<1>2. PICK Linked : Linked = {i \in 1..n : rows[i].link = s}
  OBVIOUS
<1>3. findByStripeSubID(s) = {i \in Linked : \A j \in Linked :
        \/ Rank[rows[i].status] < Rank[rows[j].status]
        \/ rows[i].status = rows[j].status /\ i >= j}
  BY <1>1, <1>2 DEF findByStripeSubID
<1>4. \A i \in 1..n : rows[i].status \in Status
  <2>1. \A i \in 1..n : rows[i] \in Row BY <1>1 DEF BillTypes
  <2>2. \A r \in Row : r.status \in Status BY DEF Row
  <2> QED BY <2>1, <2>2
<1>5. s # 0
  BY BillingAssumption DEF Sub
<1>6. \A i, j \in Linked : i < j => rows[i].status = "canceled" /\ stripe[s].status = "canceled"
  BY <1>1, <1>2, <1>5 DEF InStep, Twins
<1>9. \A i \in Linked : rows[i].status = "expired" => stripe[s].status # "canceled"
  BY <1>1, <1>2, <1>5 DEF InStep, LinkedOK
<1>7. ASSUME NEW id \in findByStripeSubID(s), NEW k \in Linked, k # id
      PROVE  k < id /\ rows[k].status = "canceled" /\ stripe[s].status = "canceled"
  <2>1. id \in Linked /\ (Rank[rows[id].status] < Rank[rows[k].status] \/ (rows[id].status = rows[k].status /\ id >= k))
    BY <1>3, <1>7
  <2>2. id \in Nat /\ k \in Nat
    BY <1>2, <2>1
  <2>3. CASE id < k
    <3>1. rows[id].status = "canceled" BY <1>6, <1>7, <2>1, <2>3
    <3>2. ~(id >= k) BY <2>2, <2>3
    <3>3. Rank["canceled"] < Rank[rows[k].status] BY <2>1, <3>1, <3>2
    <3>4. rows[k].status \in Status \ {"expired"} BY <1>2, <1>4, <1>6, <1>7, <1>9, <2>1, <2>3
    <3>5. FALSE BY <3>3, <3>4, BillRank
    <3> QED BY <3>5
  <2>4. CASE k < id
    BY <1>6, <1>7, <2>1, <2>4
  <2> QED BY <1>7, <2>2, <2>3, <2>4
<1>8. ASSUME Linked # {} PROVE findByStripeSubID(s) # {}
  <2>1. PICK T : T = {n - i : i \in Linked}
    OBVIOUS
  <2>2. T \in SUBSET Nat /\ T # {}
    BY <1>2, <1>8, <2>1
  <2>3. PICK x \in T : \A y \in T : x <= y
    BY <2>2, BillLeast
  <2>4. PICK id \in Linked : x = n - id
    BY <2>1, <2>3
  <2>5. \A j \in Linked : id >= j
    BY <1>2, <2>1, <2>3, <2>4
  <2>6. ASSUME NEW j \in Linked
        PROVE  Rank[rows[id].status] < Rank[rows[j].status] \/ (rows[id].status = rows[j].status /\ id >= j)
    <3>1. CASE j = id BY <2>5, <3>1
    <3>2. CASE j # id
      <4>1. j < id BY <1>2, <2>5, <3>2
      <4>2. rows[j].status = "canceled" BY <1>6, <4>1
      <4>3. rows[id].status \in Status \ {"expired"} BY <1>2, <1>4, <1>6, <1>9, <4>1
      <4>4. CASE rows[id].status = "canceled" BY <2>5, <4>2, <4>4
      <4>5. CASE rows[id].status # "canceled" BY <4>2, <4>3, <4>5, BillRank
      <4> QED BY <4>4, <4>5
    <3> QED BY <3>1, <3>2
  <2>7. id \in findByStripeSubID(s)
    BY <1>3, <2>6
  <2> QED BY <2>7
<1> QED BY <1>1, <1>2, <1>3, <1>7, <1>8

\* After a subscription's end no event comes that is not its end.
LEMMA BillEndToCome ==
  ASSUME BillTypes, BillEvents, NEW i \in DOMAIN events, events[i].type # "deleted", stripe[events[i].sub].status = "canceled"
  PROVE  \E j \in DOMAIN events : j > i /\ events[j].type = "deleted" /\ events[j].sub = events[i].sub
<1>1. PICK s \in Sub : s = events[i].sub
  <2>1. events[i] \in Event BY DEF BillTypes
  <2>2. \A e \in Event : e.sub \in Sub BY DEF Event
  <2> QED BY <2>1, <2>2
<1>2. PICK m \in DOMAIN events : /\ events[m].sub = s /\ events[m].status = "canceled"
                                 /\ \A k \in DOMAIN events : k > m => events[k].sub # s
  BY <1>1 DEF BillEvents, BillStripe
<1>3. events[m].type = "deleted"
  BY <1>2 DEF BillEvents, BillEvent
<1>4. m # i /\ ~(i > m) /\ i \in Nat /\ m \in Nat
  BY <1>1, <1>2, <1>3 DEF BillTypes
<1> QED BY <1>1, <1>2, <1>3, <1>4

\* An event about another subscription leaves a row in step.
LEMMA BillSeenOther ==
  ASSUME BillTypes, NEW i \in DOMAIN events, i \in {seen, seen + 1}, seen' = i, UNCHANGED <<stripe, events>>,
         NEW r, LinkedOK(r), r.link # events[i].sub
  PROVE  LinkedOK(r)'
<1>1. PICK n \in Nat : DOMAIN events = 1..n /\ seen \in 0..n
  BY DEF BillTypes
<1>2. \A j \in 1..n : /\ j <= seen => j <= i
                      /\ j > seen => j > i \/ j = i
                      /\ j <= i => j <= seen \/ j = i
  BY <1>1
<1>3. ASSUME NEW type, Pending(type, r.link) PROVE Pending(type, r.link)'
  BY <1>1, <1>2, <1>3 DEF Pending
<1> QED BY <1>1, <1>2, <1>3 DEF LinkedOK

\* A row of an ended subscription stays in step with its end.
LEMMA BillEndedKeeps ==
  ASSUME BillTypes, NEW i, i \in {seen, seen + 1}, seen' = i, UNCHANGED <<stripe, events>>,
         NEW r, LinkedOK(r), r.status = "canceled", stripe[r.link].status = "canceled"
  PROVE  LinkedOK(r)'
<1>1. \A j \in DOMAIN events : j <= seen => j <= i
  <2>1. PICK l \in Nat : DOMAIN events = 1..l /\ seen \in 0..l BY DEF BillTypes
  <2> QED BY <2>1
<1> QED BY <1>1 DEF LinkedOK

\* What the handlers make of a row.
LEMMA BillHandled ==
  ASSUME NEW e \in Event, NEW r \in Row, e.type # "checkout"
  PROVE  /\ Handled(e, r) \in Row /\ Handled(e, r).link = r.link
         /\ e.type = "updated" =>
               /\ Handled(e, r).status = IF Mapped(e.status) THEN mapStripeStatus[e.status] ELSE r.status
               /\ Handled(e, r).plan = IF Known(e.price) THEN e.price ELSE r.plan
         /\ e.type # "updated" => Handled(e, r).plan = r.plan
         /\ e.type = "deleted" => Handled(e, r).status = "canceled"
         /\ e.type = "failed" => Handled(e, r).status = "past_due"
         /\ e.type = "succeeded" => Handled(e, r).status = "active"
<1>0. /\ e.type \in {"updated", "deleted", "failed", "succeeded"} /\ e.price \in Price
      /\ "canceled" \in Status /\ "past_due" \in Status /\ "active" \in Status
  BY DEF Event, Status
<1>1. CASE e.type = "updated"
  <2>1. PICK status, plan : /\ status = IF Mapped(e.status) THEN mapStripeStatus[e.status] ELSE r.status
                            /\ plan = IF Known(e.price) THEN e.price ELSE r.plan
    OBVIOUS
  <2>2. status \in Status /\ plan \in Plan BY <1>0, <2>1, BillMapped, BillPlans DEF Row
  <2>3. Handled(e, r) = [r EXCEPT !.status = status, !.plan = plan]
    BY <1>1, <2>1 DEF Handled, handleSubscriptionUpdated, Row
  <2>4. /\ Handled(e, r) \in Row /\ Handled(e, r).link = r.link
        /\ Handled(e, r).status = status /\ Handled(e, r).plan = plan
    BY <2>2, <2>3 DEF Row
  <2> QED BY <1>1, <2>1, <2>4
<1>2. CASE e.type = "deleted"
  <2>1. Handled(e, r) = [r EXCEPT !.status = "canceled"]
    BY <1>2 DEF Handled
  <2> QED BY <1>0, <1>2, <2>1 DEF Row
<1>3. CASE e.type = "failed"
  <2>1. Handled(e, r) = [r EXCEPT !.status = "past_due"]
    BY <1>3 DEF Handled
  <2> QED BY <1>0, <1>3, <2>1 DEF Row
<1>4. CASE e.type = "succeeded"
  <2>1. Handled(e, r) = [r EXCEPT !.status = "active"]
    BY <1>4 DEF Handled
  <2> QED BY <1>0, <1>4, <2>1 DEF Row
<1> QED BY <1>0, <1>1, <1>2, <1>3, <1>4

\* An event other than an update leaves what is known of the plan as it is.
LEMMA BillPlanKept ==
  ASSUME BillTypes, NEW i \in DOMAIN events, i \in {seen, seen + 1}, events[i].type # "updated", NEW s, Pending("updated", s)
  PROVE  \E j \in DOMAIN events : j > i /\ events[j].type = "updated" /\ events[j].sub = s
<1>1. PICK n \in Nat : DOMAIN events = 1..n /\ seen \in 0..n
  BY DEF BillTypes
<1>2. \A j \in DOMAIN events : j > seen /\ j # i => j > i
  BY <1>1
<1> QED BY <1>2 DEF Pending

\* The event in its turn, or the last one again, keeps the row it is about in step.
LEMMA BillHandledKeeps ==
  ASSUME BillTypes, BillEvents, NEW i \in DOMAIN events, i \in {seen, seen + 1}, seen' = i,
         UNCHANGED <<stripe, events>>, events[i].type # "checkout",
         NEW r \in Row, LinkedOK(r), r.link = events[i].sub, NEW new, new = Handled(events[i], r)
  PROVE  LinkedOK(new)'
<1>1. PICK n \in Nat : DOMAIN events = 1..n /\ seen \in 0..n
  BY DEF BillTypes
<1>2. PICK e \in Event : e = events[i] /\ BillEvent(i)
  BY DEF BillTypes, BillEvents
<1>3. PICK s \in Sub : s = e.sub /\ s = r.link /\ s # 0
  BY <1>2, BillingAssumption DEF Event, Sub
<1>4. /\ new \in Row /\ new.link = s
      /\ e.type = "updated" =>
            /\ new.status = IF Mapped(e.status) THEN mapStripeStatus[e.status] ELSE r.status
            /\ new.plan = IF Known(e.price) THEN e.price ELSE r.plan
      /\ e.type # "updated" => new.plan = r.plan
      /\ e.type = "deleted" => new.status = "canceled"
      /\ e.type = "failed" => new.status = "past_due"
      /\ e.type = "succeeded" => new.status = "active"
  BY <1>2, <1>3, BillHandled
<1>5. \E j \in DOMAIN events : j <= i /\ events[j].type = "checkout" /\ events[j].sub = s
  BY <1>1, <1>3 DEF LinkedOK
<1>6. stripe[s].status = "canceled" =>
         new.status = "canceled" \/ \E j \in DOMAIN events : j > i /\ events[j].type = "deleted" /\ events[j].sub = s
  BY <1>2, <1>3, <1>4, BillEndToCome
<1>7. e.type \in {"updated", "deleted", "failed", "succeeded"}
  BY <1>2 DEF Event
<1>8. new.status = IF Mapped(e.status) THEN mapStripeStatus[e.status] ELSE r.status
  <2>1. e.type = "deleted" => e.status = "canceled" BY <1>2 DEF BillEvent
  <2>2. e.type = "failed" => e.status = "past_due" BY <1>2 DEF BillEvent
  <2>3. e.type = "succeeded" => e.status = "active" BY <1>2 DEF BillEvent
  <2> QED BY <1>4, <1>7, <2>1, <2>2, <2>3, BillMapped
<1>9. new.status = "expired" => stripe[s].status = "incomplete_expired"
  <2>1. CASE Mapped(e.status)
    <3>1. new.status = "expired" => e.status = "incomplete_expired" BY <1>8, <2>1, BillMapped
    <3>2. e.status = "incomplete_expired" => stripe[s].status = "incomplete_expired"
      BY <1>2, <1>3 DEF BillEvent, Ended
    <3> QED BY <3>1, <3>2
  <2>2. CASE ~Mapped(e.status)
    BY <1>3, <1>8, <2>2 DEF LinkedOK
  <2> QED BY <2>1, <2>2
<1>10. stripe[s].status # "canceled" /\ Known(stripe[s].price) =>
         new.plan = stripe[s].price \/ \E j \in DOMAIN events : j > i /\ events[j].type = "updated" /\ events[j].sub = s
  <2> SUFFICES ASSUME stripe[s].status # "canceled", Known(stripe[s].price)
               PROVE  \/ new.plan = stripe[s].price
                      \/ \E j \in DOMAIN events : j > i /\ events[j].type = "updated" /\ events[j].sub = s
    OBVIOUS
  <2>1. CASE e.type = "updated"
    <3>1. stripe[s].status # "none"
      BY <1>2, <1>3 DEF BillEvent
    <3>2. PICK m \in DOMAIN events :
             /\ events[m].sub = s /\ events[m].type = "updated" /\ events[m].price = stripe[s].price
             /\ \A k \in DOMAIN events : k > m /\ events[k].type = "updated" => events[k].sub # s
      BY <3>1 DEF BillEvents, BillStripe
    <3>3. ~(i > m) BY <1>2, <1>3, <2>1, <3>2
    <3>4. m = i \/ m > i BY <1>1, <3>3
    <3>5. CASE m = i BY <1>2, <1>4, <2>1, <3>2, <3>5
    <3> QED BY <3>2, <3>4, <3>5
  <2>2. CASE e.type # "updated"
    <3>1. r.plan = stripe[s].price \/ Pending("updated", s)
      BY <1>3 DEF LinkedOK
    <3> QED BY <1>2, <1>4, <2>2, <3>1, BillPlanKept
  <2> QED BY <2>1, <2>2
<1>11. stripe[s].status # "canceled" =>
         \E j \in DOMAIN events :
            /\ j <= i /\ events[j].sub = s
            /\ Mapped(events[j].status) /\ mapStripeStatus[events[j].status] = new.status
            /\ \A k \in DOMAIN events : j < k /\ k <= i /\ Mapped(events[k].status) => events[k].sub # s
  <2> SUFFICES ASSUME stripe[s].status # "canceled"
               PROVE  \E j \in DOMAIN events :
                         /\ j <= i /\ events[j].sub = s
                         /\ Mapped(events[j].status) /\ mapStripeStatus[events[j].status] = new.status
                         /\ \A k \in DOMAIN events : j < k /\ k <= i /\ Mapped(events[k].status) => events[k].sub # s
    OBVIOUS
  <2>1. CASE Mapped(e.status)
    <3>1. i <= i /\ \A k \in DOMAIN events : ~(i < k /\ k <= i)
      BY <1>1
    <3> QED BY <1>2, <1>3, <1>8, <2>1, <3>1
  <2>2. CASE ~Mapped(e.status)
    <3>1. PICK j \in DOMAIN events :
             /\ j <= seen /\ events[j].sub = s
             /\ Mapped(events[j].status) /\ mapStripeStatus[events[j].status] = r.status
             /\ \A k \in DOMAIN events : j < k /\ k <= seen /\ Mapped(events[k].status) => events[k].sub # s
      BY <1>3 DEF LinkedOK
    <3>2. j <= i /\ \A k \in DOMAIN events : k <= i => k <= seen \/ k = i
      BY <1>1, <3>1
    <3> QED BY <1>2, <1>8, <2>2, <3>1, <3>2
  <2> QED BY <2>1, <2>2
<1> QED BY <1>4, <1>5, <1>6, <1>9, <1>10, <1>11 DEF LinkedOK, Pending

\* So does a payment that changes nothing, as a payment in its turn finds the row past due.
LEMMA BillPaidKeeps ==
  ASSUME BillTypes, BillEvents, NEW i \in DOMAIN events, i \in {seen, seen + 1}, seen' = i,
         UNCHANGED <<stripe, events>>, NEW r, LinkedOK(r), r.link = events[i].sub, NothingToDo(events[i], r)
  PROVE  LinkedOK(r)'
<1>1. PICK n \in Nat : DOMAIN events = 1..n /\ seen \in 0..n
  BY DEF BillTypes
<1>2. PICK e \in Event : e = events[i] /\ BillEvent(i) /\ e.type = "succeeded" /\ r.status # "past_due"
  BY DEF BillTypes, BillEvents, NothingToDo
<1>3. PICK s \in Sub : s = e.sub /\ s = r.link /\ s # 0
  BY <1>2, BillingAssumption DEF Event, Sub
<1>4. CASE i = seen
  BY <1>4 DEF LinkedOK, Pending
<1>5. CASE i = seen + 1
  <2>1. stripe[s].status = "canceled"
    <3>1. SUFFICES ASSUME stripe[s].status # "canceled" PROVE FALSE
      OBVIOUS
    <3>2. PICK j \in DOMAIN events :
             /\ j <= seen /\ events[j].sub = s
             /\ Mapped(events[j].status) /\ mapStripeStatus[events[j].status] = r.status
             /\ \A k \in DOMAIN events : j < k /\ k <= seen /\ Mapped(events[k].status) => events[k].sub # s
      BY <1>3, <3>1 DEF LinkedOK
    <3>3. PICK k \in DOMAIN events :
             /\ k < i /\ events[k].sub = s /\ events[k].status = "past_due"
             /\ \A l \in DOMAIN events : k < l /\ l < i => events[l].sub # s
      BY <1>2, <1>3 DEF BillEvent
    <3>4. j < i /\ k <= seen BY <1>1, <1>5, <3>2, <3>3
    <3>5. ~(k < j) BY <3>2, <3>3, <3>4
    <3>6. ~(j < k) BY <3>2, <3>3, <3>4, BillMapped
    <3>7. j = k BY <1>1, <3>5, <3>6
    <3> QED BY <1>2, <3>2, <3>3, <3>7, BillMapped
  <2>2. \E j \in DOMAIN events : j <= i /\ events[j].type = "checkout" /\ events[j].sub = s
    BY <1>1, <1>3 DEF LinkedOK
  <2>3. \E j \in DOMAIN events : j > i /\ events[j].type = "deleted" /\ events[j].sub = s
    BY <1>2, <1>3, <2>1, BillEndToCome
  <2>4. r.status # "expired"
    BY <1>3, <2>1 DEF LinkedOK
  <2> QED BY <1>3, <2>1, <2>2, <2>3, <2>4 DEF LinkedOK, Pending
<1> QED BY <1>4, <1>5

\* The checkout in its turn, or again: the newest row is linked to the new subscription.
LEMMA BillCheckoutKeeps ==
  ASSUME BillTypes, BillEvents, InStep(rows), NEW i \in DOMAIN events, i \in {seen, seen + 1}, seen' = i,
         UNCHANGED <<stripe, events>>, events[i].type = "checkout", NEW new \in Row,
         new.plan = "starter", new.status = "active", new.link = events[i].sub,
         NEW n \in Nat, n = Len(rows), NEW S, S = IF n = 0 THEN Append(rows, new) ELSE [rows EXCEPT ![n] = new]
  PROVE  InStep(S)'
<1>1. PICK l \in Nat : DOMAIN events = 1..l /\ seen \in 0..l
  BY DEF BillTypes
<1>2. BillEvent(i) /\ events[i] \in Event
  BY DEF BillTypes, BillEvents
<1>3. PICK s \in Sub : s = events[i].sub /\ s = new.link /\ s # 0
  BY <1>2, BillingAssumption DEF Event, Sub
<1>4. PICK R \in Seq(Row) : R = rows /\ DOMAIN R = 1..n /\ Len(R) = n
  BY DEF BillTypes
<1>5. LinkedOK(new)'
  <2>1. /\ i + 1 \in DOMAIN events /\ i + 1 > i
        /\ events[i + 1].type = "updated" /\ events[i + 1].sub = s /\ events[i].status = "active"
    BY <1>1, <1>2, <1>3 DEF BillEvent
  <2>2. stripe[s].status = "canceled" => \E j \in DOMAIN events : j > i /\ events[j].type = "deleted" /\ events[j].sub = s
    BY <1>3, BillEndToCome
  <2>3. i <= i /\ \A k \in DOMAIN events : ~(i < k /\ k <= i)
    BY <1>1
  <2> QED BY <1>3, <2>1, <2>2, <2>3, BillMapped DEF LinkedOK, Pending
<1>6. ASSUME NEW k \in 1..n, rows[k].link = s
      PROVE  i = seen
  <2>1. LinkedOK(rows[k]) BY <1>4 DEF InStep
  <2>2. PICK j \in DOMAIN events : j <= seen /\ events[j].type = "checkout" /\ events[j].sub = s
    BY <1>3, <1>6, <2>1 DEF LinkedOK
  <2>3. j = i BY <1>2, <1>3, <2>2 DEF BillEvent
  <2> QED BY <1>1, <2>2, <2>3
<1>7. ASSUME NEW k \in 1..n, rows[k].link = s, k # n
      PROVE  rows[k].status = "canceled" /\ stripe[s].status = "canceled"
  <2>1. i = seen /\ seen # 0 BY <1>1, <1>6, <1>7
  <2> QED BY <1>3, <1>4, <1>7, <2>1 DEF InStep, Retaken
<1>8. CASE n = 0
  <2>1. S = Append(R, new) BY <1>4, <1>8
  <2>2. S \in Seq(Row) /\ Len(S) = 1 /\ DOMAIN S = 1..1 /\ S[1] = new
    BY <1>4, <1>8, <2>1
  <2>3. \A k \in DOMAIN S : S[k] = new BY <2>2
  <2>4. (\A k \in DOMAIN S : LinkedOK(S[k]))' BY <1>5, <2>3
  <2>5. Twins(S)' BY <2>2 DEF Twins
  <2>6. Retaken(S)' BY <2>2 DEF Retaken
  <2> QED BY <2>4, <2>5, <2>6 DEF InStep
<1>9. CASE n # 0
  <2>1. n \in DOMAIN R /\ S = [R EXCEPT ![n] = new] BY <1>4, <1>9
  <2>2. DOMAIN S = 1..n /\ S[n] = new /\ \A k \in 1..n : k # n => S[k] = rows[k]
    BY <1>4, <2>1
  <2>3. Len(S) = n
    <3>1. R \in [1..n -> Row] BY <1>4
    <3>2. S \in [1..n -> Row] BY <2>1, <3>1
    <3> QED BY <3>2
  <2>4. \A k \in DOMAIN R : k # n => LinkedOK(R[k])'
    <3>1. ASSUME NEW k \in DOMAIN R PROVE LinkedOK(R[k])'
      <4>1. PICK r : r = R[k] /\ r = rows[k] /\ k \in 1..n /\ LinkedOK(r) BY <1>4 DEF InStep
      <4>2. CASE r.link = s
        <5>1. seen' = seen BY <1>6, <4>1, <4>2
        <5>2. LinkedOK(r)' BY <4>1, <5>1 DEF LinkedOK, Pending
        <5> QED BY <4>1, <5>2
      <4>3. CASE r.link # s
        <5>1. LinkedOK(r)' BY <1>3, <4>1, <4>3, BillSeenOther
        <5> QED BY <4>1, <5>1
      <4> QED BY <4>2, <4>3
    <3> QED BY <3>1
  <2>5. \A k, j \in DOMAIN S : k < j /\ S[k].link = S[j].link /\ S[k].link # 0 =>
             S[k].status = "canceled" /\ stripe'[S[k].link].status = "canceled"
    <3>1. ASSUME NEW k \in 1..n, NEW j \in 1..n, k < j, S[k].link = S[j].link, S[k].link # 0
          PROVE  S[k].status = "canceled" /\ stripe'[S[k].link].status = "canceled"
      <4>1. k # n /\ S[k] = rows[k] BY <2>2, <3>1
      <4>2. CASE j = n BY <1>3, <1>7, <2>2, <3>1, <4>1, <4>2
      <4>3. CASE j # n
        <5>1. S[j] = rows[j] BY <2>2, <4>3
        <5> QED BY <1>4, <3>1, <4>1, <5>1 DEF InStep, Twins
      <4> QED BY <4>2, <4>3
    <3> QED BY <2>2, <3>1
  <2>6. seen' # 0 /\ events'[seen'].type = "checkout" =>
             \A k \in DOMAIN S : S[k].link = events'[seen'].sub /\ (k # Len(S) \/ S[k].plan = "free") =>
                 S[k].status = "canceled" /\ stripe'[S[k].link].status = "canceled"
    BY <1>3, <1>7, <2>2, <2>3
  <2> QED BY <1>5, <2>1, <2>4, <2>5, <2>6, BillReplaceKeeps
<1> QED BY <1>8, <1>9

\* The event about a row, in its turn or again.
LEMMA BillRowKeeps ==
  ASSUME BillTypes, BillEvents, InStep(rows), NEW i \in DOMAIN events, i \in {seen, seen + 1}, seen' = i,
         UNCHANGED <<stripe, events>>, events[i].type # "checkout",
         NEW id \in findByStripeSubID(events[i].sub), NEW new, new = Handled(events[i], rows[id]),
         NEW S, S = [rows EXCEPT ![id] = new]
  PROVE  InStep(S)'
<1>1. PICK e \in Event : e = events[i]
  BY DEF BillTypes
<1>2. PICK s \in Sub : s = e.sub /\ s # 0
  BY <1>1, BillingAssumption DEF Event, Sub
<1>3. PICK n \in Nat, R \in Seq(Row) : R = rows /\ DOMAIN R = 1..n
  BY DEF BillTypes
<1>4. /\ id \in DOMAIN R /\ R[id].link = s
      /\ \A k \in DOMAIN R : R[k].link = s /\ k # id =>
            k < id /\ R[k].status = "canceled" /\ stripe[s].status = "canceled"
  <2>1. id \in findByStripeSubID(s) BY <1>1, <1>2
  <2> QED BY <1>3, <2>1, BillFound
<1>5. new \in Row /\ new.link = s
  BY <1>1, <1>3, <1>4, BillHandled
<1>6. LinkedOK(new)'
  <2>1. PICK r \in Row : r = R[id] /\ LinkedOK(r) BY <1>3, <1>4 DEF InStep
  <2> QED BY <1>1, <1>2, <1>3, <1>4, <2>1, BillHandledKeeps
<1>7. \A k \in DOMAIN R : k # id => LinkedOK(R[k])'
  <2>1. ASSUME NEW k \in DOMAIN R, k # id PROVE LinkedOK(R[k])'
    <3>1. PICK r : r = R[k] /\ LinkedOK(r) BY <1>3 DEF InStep
    <3>2. CASE r.link = s
      <4>1. r.status = "canceled" /\ stripe[r.link].status = "canceled" BY <1>4, <2>1, <3>1, <3>2
      <4>2. LinkedOK(r)' BY <3>1, <4>1, BillEndedKeeps
      <4> QED BY <3>1, <4>2
    <3>3. CASE r.link # s
      <4>1. LinkedOK(r)' BY <1>1, <1>2, <3>1, <3>3, BillSeenOther
      <4> QED BY <3>1, <4>1
    <3> QED BY <3>2, <3>3
  <2> QED BY <2>1
<1>8. S = [R EXCEPT ![id] = new] /\ DOMAIN S = 1..n /\ S[id] = new /\ \A k \in 1..n : k # id => S[k] = R[k]
  BY <1>3, <1>4
<1>9. \A k, j \in DOMAIN S : k < j /\ S[k].link = S[j].link /\ S[k].link # 0 =>
             S[k].status = "canceled" /\ stripe'[S[k].link].status = "canceled"
  <2>1. ASSUME NEW k \in 1..n, NEW j \in 1..n, k < j, S[k].link = S[j].link, S[k].link # 0
        PROVE  S[k].status = "canceled" /\ stripe'[S[k].link].status = "canceled"
    <3>1. CASE S[k].link = s
      <4>1. k # id
        <5>1. SUFFICES ASSUME k = id PROVE FALSE OBVIOUS
        <5>2. j # id /\ R[j].link = s BY <1>8, <2>1, <3>1, <5>1
        <5>3. j < id BY <1>3, <1>4, <5>2
        <5> QED BY <1>3, <1>4, <2>1, <5>1, <5>3
      <4> QED BY <1>3, <1>4, <1>8, <2>1, <3>1, <4>1
    <3>2. CASE S[k].link # s
      <4>1. k # id /\ j # id BY <1>5, <1>8, <2>1, <3>2
      <4> QED BY <1>3, <1>8, <2>1, <4>1 DEF InStep, Twins
    <3> QED BY <3>1, <3>2
  <2> QED BY <1>8, <2>1
<1>10. ~(seen' # 0 /\ events'[seen'].type = "checkout")
  OBVIOUS
<1>11. \A k \in DOMAIN R : k # id => LinkedOK(R[k])'
  BY <1>7
<1> QED BY <1>4, <1>5, <1>6, <1>8, <1>9, <1>10, <1>11, BillReplaceKeeps

\* An event about no row, or a payment of a row that is not past due.
LEMMA BillDroppedKeeps ==
  ASSUME BillTypes, BillEvents, InStep(rows), NEW i \in DOMAIN events, i \in {seen, seen + 1}, seen' = i,
         UNCHANGED <<rows, stripe, events>>, events[i].type # "checkout",
         \A id \in findByStripeSubID(events[i].sub) : NothingToDo(events[i], rows[id])
  PROVE  InStep(rows)'
<1>1. PICK s \in Sub : s = events[i].sub
  <2>1. events[i] \in Event BY DEF BillTypes
  <2> QED BY <2>1 DEF Event
<1>2. (\A k \in DOMAIN rows : LinkedOK(rows[k]))'
  <2>1. ASSUME NEW k \in DOMAIN rows PROVE LinkedOK(rows[k])'
    <3>1. PICK r : r = rows[k] /\ LinkedOK(r) BY DEF InStep
    <3>2. CASE k \in findByStripeSubID(s)
      <4>1. r.link = s /\ NothingToDo(events[i], r) BY <1>1, <3>1, <3>2, BillFound
      <4>2. LinkedOK(r)' BY <1>1, <3>1, <4>1, BillPaidKeeps
      <4> QED BY <3>1, <4>2
    <3>3. CASE r.link = s /\ k \notin findByStripeSubID(s)
      <4>1. r.status = "canceled" /\ stripe[r.link].status = "canceled" BY <3>1, <3>3, BillFound
      <4>2. LinkedOK(r)' BY <3>1, <4>1, BillEndedKeeps
      <4> QED BY <3>1, <4>2
    <3>4. CASE r.link # s
      <4>1. LinkedOK(r)' BY <1>1, <3>1, <3>4, BillSeenOther
      <4> QED BY <3>1, <4>1
    <3> QED BY <3>2, <3>3, <3>4
  <2> QED BY <2>1
<1>3. Twins(rows)'
  BY DEF InStep, Twins
<1>4. Retaken(rows)'
  BY DEF Retaken
<1> QED BY <1>2, <1>3, <1>4 DEF InStep

\* Whatever comes when, a row is canceled for a reason.
LEMMA BillHandledLegit ==
  ASSUME BillTypes, BillEvents, NEW i \in DOMAIN events, events[i].type # "checkout",
         NEW r \in Row, Legit(r), r.link = events[i].sub
  PROVE  Legit(Handled(events[i], r))
<1>1. PICK e \in Event : e = events[i] /\ BillEvent(i)
  BY DEF BillTypes, BillEvents
<1>2. r.link # 0
  BY <1>1, BillingAssumption DEF Event, Sub
<1>3. PICK new : new = Handled(e, r)
  OBVIOUS
<1>4. /\ new \in Row /\ new.link = r.link
      /\ e.type = "updated" => new.status = IF Mapped(e.status) THEN mapStripeStatus[e.status] ELSE r.status
      /\ e.type = "failed" => new.status = "past_due"
      /\ e.type = "succeeded" => new.status = "active"
  BY <1>1, <1>3, BillHandled
<1>5. e.type \in {"updated", "deleted", "failed", "succeeded"}
  BY <1>1 DEF Event
<1>6. new.status = "canceled" => Cancels(e) \/ r.status = "canceled"
  <2>1. CASE e.type = "updated" BY <1>4, <2>1, BillMapped DEF Cancels
  <2>2. CASE e.type = "deleted" BY <2>2 DEF Cancels
  <2>3. CASE e.type \in {"failed", "succeeded"} BY <1>4, <2>3
  <2> QED BY <1>5, <2>1, <2>2, <2>3
<1>7. Legit(new)
  BY <1>1, <1>2, <1>4, <1>6 DEF Legit
<1> QED BY <1>1, <1>3, <1>7

\* A request to the webhook.
LEMMA BillDeliverStep == ASSUME BillInv, NEW h \in Handler, NEW i \in 1..MaxEvent, Deliver(h, i) PROVE BillInv'
<1>1. UNCHANGED <<rows, stripe, events>> /\ i \in DOMAIN events /\ work[h] = NoWork
  BY DEF Deliver
<1>2. PICK n \in Nat : n = Len(rows) /\ n = Newest /\ DOMAIN rows = 1..n /\ rows \in Seq(Row) /\ n <= MaxRow
  BY DEF BillInv, BillTypes, Newest
<1>3. PICK e \in Event : e = events[i] /\ e.sub \in Sub
  <2>1. events[i] \in Event BY <1>1 DEF BillInv, BillTypes
  <2>2. \A m \in Event : m.sub \in Sub BY DEF Event
  <2> QED BY <2>1, <2>2
<1>4. /\ calm' \in BOOLEAN
      /\ calm' => calm /\ i \in {seen, seen + 1} /\ ~Busy /\ seen' = i
      /\ calm' => \A g \in Handler : work[g] = NoWork
  BY DEF Deliver, Busy, BillInv, BillTypes
<1>5. seen' \in 0..Len(events')
  <2>1. PICK l \in Nat : l = Len(events) /\ DOMAIN events = 1..l /\ seen \in 0..l
    BY DEF BillInv, BillTypes
  <2>2. seen' = i \/ seen' = seen BY DEF Deliver
  <2> QED BY <1>1, <2>1, <2>2
<1>6. BillGrows
  <2>1. BillEvents' BY <1>1 DEF BillInv, BillEvents, BillStripe, BillEvent
  <2>2. Len(events) <= Len(events)
    <3>1. Len(events) \in Nat BY DEF BillInv, BillTypes
    <3> QED BY <3>1
  <2>3. \A j \in DOMAIN events : j \in DOMAIN events' /\ events'[j] = events[j] BY <1>1
  <2> QED BY <1>1, <2>1, <2>2, <2>3 DEF BillGrows, BillInv, BillTypes
<1>7. calm' => InStep(rows)
  BY <1>4 DEF BillInv, BillCalm
<1>8. ASSUME NEW id \in 0..n, NEW put \in Row, work' = [work EXCEPT ![h] = [id |-> id, row |-> put]], Legit(put),
             calm' => InStep(IF id = 0 THEN Append(rows, put) ELSE [rows EXCEPT ![id] = put])'
      PROVE  BillInv'
  <2>1. PICK w : w = [id |-> id, row |-> put] OBVIOUS
  <2>2. w \in Work /\ w.id = id /\ w.row = put /\ w.id <= Len(rows)
    <3>1. id \in 0..MaxRow BY <1>2, BillingAssumption
    <3>2. [id |-> id, row |-> put] \in [id : 0..MaxRow, row : Row] BY <3>1
    <3> QED BY <1>2, <2>1, <3>2 DEF Work
  <2>3. PICK S : S = (IF id = 0 THEN Append(rows, put) ELSE [rows EXCEPT ![id] = put])
    OBVIOUS
  <2>4. S = (IF w.id = 0 THEN Append(rows, w.row) ELSE [rows EXCEPT ![w.id] = w.row]) BY <2>2, <2>3
  <2>5. calm' => InStep(S)'
    <3>1. S = (IF id = 0 THEN Append(rows, put) ELSE [rows EXCEPT ![id] = put])' BY <1>1, <2>3
    <3> QED BY <1>8, <3>1
  <2>6. Legit(w.row)'
    <3>1. Legit(put)' BY <1>1, <1>8, BillLegitKept
    <3> QED BY <2>2, <3>1
  <2> QED BY <1>1, <1>4, <1>5, <1>6, <1>8, <2>1, <2>2, <2>4, <2>5, <2>6, BillPrepare
<1>9. CASE e.type = "checkout" /\ work' = [work EXCEPT ![h] = handleCheckoutCompleted(e)]
  <2>1. PICK new : new = [plan |-> "starter", status |-> "active", link |-> e.sub] OBVIOUS
  <2>2. new \in Row /\ Legit(new) /\ new.plan = "starter" /\ new.status = "active" /\ new.link = e.sub
    <3>1. e.sub \in 0..MaxSub BY <1>3, BillingAssumption DEF Sub
    <3> QED BY <2>1, <3>1, BillPlans DEF Row, Status, Legit
  <2>3. work' = [work EXCEPT ![h] = [id |-> n, row |-> new]]
    BY <1>2, <1>9, <2>1 DEF handleCheckoutCompleted
  <2>4. PICK S : S = IF n = 0 THEN Append(rows, new) ELSE [rows EXCEPT ![n] = new] OBVIOUS
  <2>5. calm' => InStep(S)'
    BY <1>1, <1>2, <1>3, <1>4, <1>7, <1>9, <2>2, <2>4, BillCheckoutKeeps DEF BillInv
  <2>6. S = (IF n = 0 THEN Append(rows, new) ELSE [rows EXCEPT ![n] = new])' BY <1>1, <2>4
  <2>7. calm' => InStep(IF n = 0 THEN Append(rows, new) ELSE [rows EXCEPT ![n] = new])' BY <2>5, <2>6
  <2>8. n \in 0..n BY <1>2
  <2> QED BY <1>8, <2>2, <2>3, <2>7, <2>8
<1>10. ASSUME e.type # "checkout", NEW id \in findByStripeSubID(e.sub),
              work' = [work EXCEPT ![h] = [id |-> id, row |-> Handled(e, rows[id])]]
       PROVE  BillInv'
  <2>1. id \in 1..n /\ rows[id].link = e.sub BY <1>2, <1>10 DEF findByStripeSubID
  <2>2. PICK r \in Row : r = rows[id] /\ Legit(r) BY <1>2, <2>1 DEF BillInv, BillLegit
  <2>3. PICK new : new = Handled(e, r) OBVIOUS
  <2>4. new \in Row BY <1>10, <2>2, <2>3, BillHandled
  <2>5. Legit(new)
    BY <1>1, <1>3, <1>10, <2>1, <2>2, <2>3, BillHandledLegit DEF BillInv
  <2>6. PICK S : S = [rows EXCEPT ![id] = new] OBVIOUS
  <2>7. calm' => InStep(S)'
    <3>1. new = Handled(events[i], rows[id]) /\ id \in findByStripeSubID(events[i].sub) BY <1>3, <1>10, <2>2, <2>3
    <3> QED BY <1>1, <1>3, <1>4, <1>7, <1>10, <2>6, <3>1, BillRowKeeps DEF BillInv
  <2>8. id # 0 /\ id \in 0..n BY <2>1
  <2>9. S = (IF id = 0 THEN Append(rows, new) ELSE [rows EXCEPT ![id] = new])' BY <1>1, <2>6, <2>8
  <2>10. calm' => InStep(IF id = 0 THEN Append(rows, new) ELSE [rows EXCEPT ![id] = new])' BY <2>7, <2>9
  <2> QED BY <1>8, <1>10, <2>2, <2>3, <2>4, <2>5, <2>8, <2>10
<1>11. ASSUME e.type # "checkout", Busy \/ \A id \in findByStripeSubID(e.sub) : NothingToDo(e, rows[id]), UNCHANGED work
       PROVE  BillInv'
  <2>1. BillTypes' BY <1>1, <1>4, <1>5, <1>11 DEF BillInv, BillTypes
  <2>2. BillLegit' BY <1>1, <1>11 DEF BillInv, BillLegit, Legit, Cancels
  <2>3. BillCalm'
    <3>1. SUFFICES ASSUME calm' PROVE (\A g \in Handler : work'[g] = NoWork) /\ InStep(rows)'
      BY DEF BillCalm
    <3>2. InStep(rows)' BY <1>1, <1>3, <1>4, <1>7, <1>11, <3>1, BillDroppedKeeps DEF BillInv
    <3> QED BY <1>4, <1>11, <3>1, <3>2
  <2> QED BY <1>6, <2>1, <2>2, <2>3 DEF BillInv, BillGrows
<1>12. \/ e.type = "checkout" /\ work' = [work EXCEPT ![h] = handleCheckoutCompleted(e)]
       \/ e.type # "checkout" /\ \E id \in findByStripeSubID(e.sub) :
                work' = [work EXCEPT ![h] = [id |-> id, row |-> Handled(e, rows[id])]]
       \/ /\ e.type # "checkout" /\ UNCHANGED work
          /\ Busy \/ \A id \in findByStripeSubID(e.sub) : NothingToDo(e, rows[id])
  BY <1>3 DEF Deliver
<1> QED BY <1>9, <1>10, <1>11, <1>12

LEMMA BillInitInv == BillInit => BillInv
<1> SUFFICES ASSUME BillInit PROVE BillInv
  OBVIOUS
<1>1. "starter" \in Price
  BY BillPlans
<1>2. stripe \in [Sub -> StripeState] /\ \A s \in Sub : stripe[s].status = "none"
  <2>1. [price |-> "starter", status |-> "none"] \in StripeState BY <1>1 DEF StripeState
  <2> QED BY <2>1 DEF BillInit
<1>3. rows \in Seq(Row) /\ Len(rows) = 0 /\ DOMAIN rows = {} /\ events \in Seq(Event) /\ Len(events) = 0 /\ DOMAIN events = {}
  BY DEF BillInit
<1>4. BillTypes
  BY <1>2, <1>3, BillingAssumption DEF BillInit, BillTypes
<1>5. BillEvents
  BY <1>2, <1>3 DEF BillEvents, BillStripe
<1>6. BillLegit
  BY <1>3 DEF BillInit, BillLegit
<1>7. InStep(rows)
  BY <1>3 DEF InStep, Twins, Retaken
<1>8. BillCalm
  BY <1>7 DEF BillInit, BillCalm
<1> QED BY <1>4, <1>5, <1>6, <1>8 DEF BillInv

LEMMA BillStep == BillInv /\ [BillNext]_billVars => BillInv'
<1> SUFFICES ASSUME BillInv, [BillNext]_billVars PROVE BillInv'
  OBVIOUS
<1>1. ASSUME NEW s \in Sub, Checkout(s) \/ Charge(s) \/ Amend(s) \/ End(s) PROVE BillInv'
  BY <1>1, BillStripeStep
<1>2. ASSUME NEW h \in Handler, NEW i \in 1..MaxEvent, Deliver(h, i) PROVE BillInv'
  BY <1>2, BillDeliverStep
<1>3. ASSUME NEW c \in Handler, ChangePlan(c) PROVE BillInv'
  BY <1>3, BillChangePlanStep
<1>4. ASSUME NEW h \in Handler, Write(h) PROVE BillInv'
  BY <1>4, BillWriteStep
<1>5. CASE UNCHANGED billVars
  <2>1. UNCHANGED <<stripe, events, seen>> /\ UNCHANGED <<rows, seen, calm, work>> BY <1>5 DEF billVars
  <2> QED BY <2>1, BillStill, BillStripeKeeps
<1> QED BY <1>1, <1>2, <1>3, <1>4, <1>5 DEF BillNext

LEMMA BillInvTypes == BillInv => BillTypeOK
BY DEF BillInv, BillTypes, BillTypeOK, StripeState

LEMMA BillInvLegit == BillInv => NoWrongfulCancel
BY DEF BillInv, BillLegit, Legit, NoWrongfulCancel

LEMMA BillInvSynced == BillInv => SyncedWhenCalm
<1> SUFFICES ASSUME BillInv, calm, seen = Len(events), ~Busy, NEW i \in DOMAIN rows, rows[i].link # 0
             PROVE  /\ Mapped(stripe[rows[i].link].status) =>
                          rows[i].status = mapStripeStatus[stripe[rows[i].link].status]
                    /\ stripe[rows[i].link].status # "canceled" /\ Known(stripe[rows[i].link].price) =>
                          rows[i].plan = stripe[rows[i].link].price
  BY DEF SyncedWhenCalm
<1>1. PICK r \in Row : r = rows[i]
  BY DEF BillInv, BillTypes
<1>2. LinkedOK(r)
  BY <1>1 DEF BillInv, BillCalm, Busy, InStep
<1>3. PICK s \in Sub : s = r.link
  BY <1>1, BillingAssumption DEF Row, Sub
<1>4. PICK l \in Nat : seen = l /\ DOMAIN events = 1..l
  BY DEF BillInv, BillTypes
<1>5. \A j \in DOMAIN events : j <= seen /\ ~(j > seen)
  BY <1>4
<1>6. ~Pending("deleted", s) /\ ~Pending("updated", s)
  BY <1>5 DEF Pending
<1>7. CASE stripe[s].status = "canceled"
  BY <1>1, <1>2, <1>3, <1>6, <1>7, BillMapped DEF LinkedOK
<1>8. CASE stripe[s].status # "canceled"
  <2>1. Known(stripe[s].price) => r.plan = stripe[s].price
    BY <1>1, <1>2, <1>3, <1>6, <1>8 DEF LinkedOK
  <2>2. PICK j \in DOMAIN events :
           /\ events[j].sub = s /\ Mapped(events[j].status) /\ mapStripeStatus[events[j].status] = r.status
           /\ \A k \in DOMAIN events : j < k /\ Mapped(events[k].status) => events[k].sub # s
    BY <1>1, <1>2, <1>3, <1>5, <1>8 DEF LinkedOK
  <2>3. stripe[s].status # "none"
    BY <2>2 DEF BillInv, BillEvents, BillEvent
  <2>4. PICK m \in DOMAIN events : /\ events[m].sub = s /\ events[m].status = stripe[s].status
                                   /\ \A k \in DOMAIN events : k > m => events[k].sub # s
    BY <2>3 DEF BillInv, BillEvents, BillStripe
  <2>5. ASSUME Mapped(stripe[s].status) PROVE r.status = mapStripeStatus[stripe[s].status]
    <3>1. ~(j < m) BY <2>2, <2>4, <2>5
    <3>2. ~(j > m) BY <2>2, <2>4
    <3>3. j \in Nat /\ m \in Nat BY <1>4
    <3>4. j = m BY <3>1, <3>2, <3>3
    <3> QED BY <2>2, <2>4, <3>4
  <2> QED BY <1>1, <1>3, <1>8, <2>1, <2>5
<1> QED BY <1>7, <1>8

\* However late, repeated or overlapping Stripe's events and the plan changes are, a row is canceled
\* only because Stripe has said so of the subscription the row is linked to, or because the user went
\* back to the free plan: each handler's row carries its reason from the read to the write.
THEOREM NoWrongfulEnd == BillSpec => [](BillTypeOK /\ NoWrongfulCancel)
<1>1. BillSpec => []BillInv
  BY BillInitInv, BillStep, PTL DEF BillSpec
<1> QED BY <1>1, BillInvTypes, BillInvLegit, PTL

\* Events in order, no overlap and no failed call: once the last event is handled every linked row has
\* what the maps make of Stripe's status and price, when they know it - also when a plan change or a
\* cancellation ran ahead of its event, when the last event came twice, and when updates with a status
\* or a price the maps do not know lie between.
THEOREM InStepWhenCalm == BillSpec => []SyncedWhenCalm
<1>1. BillSpec => []BillInv
  BY BillInitInv, BillStep, PTL DEF BillSpec
<1> QED BY <1>1, BillInvSynced, PTL

(***************************************************************************)
(* Accounts                                                                *)
(***************************************************************************)

\* A used token of the account.
Vouched(a) == a # NoRow /\ \E t \in Ticket : tickets[t].of = a /\ tickets[t].used

\* A request that verifies has a token of its account, and has marked it before it writes; what it
\* and every other request has read is a row that was vouched for.
RequestOK(r) ==
    /\ r.step \in {"mark", "write"} => r.copy \in UserRow
    /\ r.op = "verify" /\ r.step \in {"read", "mark", "write"} =>
          r.ticket \in Ticket /\ tickets[r.ticket].of = r.of /\ r.of # NoRow
    /\ r.op = "verify" /\ r.step = "write" => tickets[r.ticket].used
    /\ r.step \in {"mark", "write"} /\ r.copy.verified => Vouched(r.of)

AccountInv ==
    /\ AccountTypeOK
    /\ \A q \in Request : RequestOK(request[q])
    /\ \A a \in Account : users[a] # NoRow /\ users[a].verified => Vouched(a)
    /\ DeletedStaysGone

LEMMA AccountInitInv == AccountInit => AccountInv
<1> SUFFICES ASSUME AccountInit PROVE AccountInv
  OBVIOUS
<1>1. NoChange \in Change
  BY DEF NoChange, Change
<1>2. AccountTypeOK
  BY <1>1, AccountsAssumption DEF AccountInit, AccountTypeOK, Idle, UserRow, UserStatus, Role
<1> QED BY <1>2 DEF AccountInit, AccountInv, RequestOK, Idle, DeletedStaysGone

\* A token that vouches goes on to.
LEMMA VouchedKept ==
  ASSUME AccountTypeOK,
         \A t \in Ticket : /\ tickets[t].used => tickets'[t].used
                           /\ tickets[t].of # NoRow => tickets'[t].of = tickets[t].of
  PROVE  /\ \A a : Vouched(a) => Vouched(a)'
         /\ \A r : RequestOK(r) => RequestOK(r)'
<1>1. ASSUME NEW a, Vouched(a) PROVE Vouched(a)'
  BY <1>1 DEF Vouched
<1> QED BY <1>1 DEF RequestOK

LEMMA AccountStep == AccountInv /\ [AccountNext]_accountVars => AccountInv'
<1> SUFFICES ASSUME AccountInv, [AccountNext]_accountVars PROVE AccountInv'
  OBVIOUS
<1> DEFINE Rec == [step : {"new", "read", "mark", "last", "create", "write", "delete", "ended"},
            op : {"none", "profile", "verify", "resend", "update", "delete"},
            of : Account, change : Change,
            copy : UserRow \cup {NoRow}, ticket : Ticket \cup {NoTicket}]
<1>0. /\ request \in [Request -> Rec] /\ tickets \in [Ticket -> [of : Account \cup {NoRow}, used : BOOLEAN, expired : BOOLEAN]]
      /\ users \in [Account -> UserRow \cup {NoRow}]
  BY DEF AccountInv, AccountTypeOK
<1>n. NoChange \in Change /\ Wish \subseteq Change /\ Founder \in Account
  BY AccountsAssumption DEF NoChange, Change
<1>i. Idle \in Rec /\ Idle.copy = NoRow
  BY <1>n DEF Idle
<1>k. ASSUME UNCHANGED tickets PROVE /\ \A a : Vouched(a) => Vouched(a)'
                                     /\ \A r : RequestOK(r) => RequestOK(r)'
  BY <1>k, VouchedKept DEF AccountInv
\* A request alone goes on.
<1>1. ASSUME NEW q \in Request, NEW r \in Rec, request' = [request EXCEPT ![q] = r], RequestOK(r),
             UNCHANGED <<users, tickets>>, cooling' \subseteq Account, UNCHANGED <<removed, twice>>
      PROVE  AccountInv'
  <2>1. request' \in [Request -> Rec] BY <1>0, <1>1
  <2>2. AccountTypeOK' BY <1>1, <2>1 DEF AccountInv, AccountTypeOK
  <2>3. ASSUME NEW p \in Request PROVE RequestOK(request[p])'
    <3>1. PICK o : o = request'[p] /\ RequestOK(o) BY <1>0, <1>1 DEF AccountInv
    <3>2. RequestOK(o)' BY <1>1, <1>k, <3>1
    <3> QED BY <3>1, <3>2
  <2>4. \A a \in Account : users'[a] # NoRow /\ users'[a].verified => Vouched(a)'
    BY <1>1, <1>k DEF AccountInv
  <2> QED BY <1>1, <2>2, <2>3, <2>4 DEF AccountInv, DeletedStaysGone
<1>2. ASSUME NEW a \in Account, handleRegister(a) PROVE AccountInv'
  <2>1. PICK row1 : row1 = [status |-> "pending_verification", role |-> "user", verified |-> FALSE] OBVIOUS
  <2>2. row1 \in UserRow /\ row1.verified = FALSE BY <2>1 DEF UserRow, UserStatus, Role
  <2>3. users' = [users EXCEPT ![a] = row1] BY <1>2, <2>1 DEF handleRegister
  <2>4. users' \in [Account -> UserRow \cup {NoRow}] BY <1>0, <2>2, <2>3
  <2>5. UNCHANGED <<tickets, cooling, request, removed, twice>> /\ a \notin removed
    BY <1>2 DEF handleRegister, accountHistory
  <2>6. AccountTypeOK' BY <2>4, <2>5 DEF AccountInv, AccountTypeOK
  <2>7. (\A q \in Request : RequestOK(request[q]))' BY <1>k, <2>5 DEF AccountInv
  <2>8. \A b \in Account : users'[b] # NoRow /\ users'[b].verified => Vouched(b)'
    BY <1>0, <1>k, <2>2, <2>3, <2>5 DEF AccountInv
  <2>9. DeletedStaysGone' BY <1>0, <2>3, <2>5 DEF AccountInv, DeletedStaysGone, AccountTypeOK
  <2> QED BY <2>6, <2>7, <2>8, <2>9 DEF AccountInv
<1>3. ASSUME NEW a \in Account, CoolDown(a) PROVE AccountInv'
  <2>1. UNCHANGED <<users, tickets, request, removed, twice>> /\ cooling' \subseteq Account
    BY <1>3 DEF CoolDown, accountHistory, AccountInv, AccountTypeOK
  <2>2. AccountTypeOK' BY <2>1 DEF AccountInv, AccountTypeOK
  <2>3. (\A q \in Request : RequestOK(request[q]))' BY <1>k, <2>1 DEF AccountInv
  <2>4. \A b \in Account : users'[b] # NoRow /\ users'[b].verified => Vouched(b)' BY <1>k, <2>1 DEF AccountInv
  <2> QED BY <2>1, <2>2, <2>3, <2>4 DEF AccountInv, DeletedStaysGone
\* A token changes, and a request with it.
<1>4. ASSUME tickets' \in [Ticket -> [of : Account \cup {NoRow}, used : BOOLEAN, expired : BOOLEAN]],
             \A t \in Ticket : /\ tickets[t].used => tickets'[t].used
                               /\ tickets[t].of # NoRow => tickets'[t].of = tickets[t].of,
             NEW now \in [Request -> Rec], request' = now, \A q \in Request : now[q] = request[q] \/ RequestOK(now[q])',
             UNCHANGED <<users, removed>>, cooling' \subseteq Account, twice' \in BOOLEAN
      PROVE  AccountInv'
  <2>1. /\ \A a : Vouched(a) => Vouched(a)'
        /\ \A r : RequestOK(r) => RequestOK(r)'
    BY <1>4, VouchedKept DEF AccountInv
  <2>2. AccountTypeOK' BY <1>4 DEF AccountInv, AccountTypeOK
  <2>3. ASSUME NEW q \in Request PROVE RequestOK(request[q])'
    <3>1. CASE now[q] = request[q]
      <4>1. PICK o : o = request[q] /\ RequestOK(o) BY DEF AccountInv
      <4>2. RequestOK(o)' BY <2>1, <4>1
      <4>3. o = request'[q] BY <1>4, <3>1, <4>1
      <4> QED BY <4>2, <4>3
    <3>2. CASE RequestOK(now[q])'
      <4>1. PICK o : o = now[q] OBVIOUS
      <4>2. RequestOK(o)' BY <3>2, <4>1
      <4>3. o = request'[q] BY <1>4, <4>1
      <4> QED BY <4>2, <4>3
    <3> QED BY <1>4, <3>1, <3>2
  <2>4. \A a \in Account : users'[a] # NoRow /\ users'[a].verified => Vouched(a)' BY <1>4, <2>1 DEF AccountInv
  <2> QED BY <1>4, <2>2, <2>3, <2>4 DEF AccountInv, DeletedStaysGone
<1>5. ASSUME NEW t \in Ticket, ExpireTicket(t) PROVE AccountInv'
  <2>1. /\ tickets' \in [Ticket -> [of : Account \cup {NoRow}, used : BOOLEAN, expired : BOOLEAN]]
        /\ \A u \in Ticket : /\ tickets[u].used => tickets'[u].used
                             /\ tickets[u].of # NoRow => tickets'[u].of = tickets[u].of
    BY <1>0, <1>5 DEF ExpireTicket
  <2>2. UNCHANGED <<users, request, cooling, removed, twice>> BY <1>5 DEF ExpireTicket, accountHistory
  <2>3. PICK now \in [Request -> Rec] : now = request BY <1>0
  <2> QED BY <1>4, <2>1, <2>2, <2>3 DEF AccountInv, AccountTypeOK
\* A request begins.
<1>6. ASSUME NEW q \in Request, Begin(q) PROVE AccountInv'
  <2>1. UNCHANGED <<users, tickets, cooling, removed, twice>>
    BY <1>6 DEF Begin, BeginOwn, BeginVerify, BeginAdmin, BeginDelete, tableVars, accountHistory
  <2>2. cooling' \subseteq Account BY <2>1 DEF AccountInv, AccountTypeOK
  <2>3. ASSUME NEW a \in Account, NEW op \in {"profile", "resend"}, BeginOwn(q, a, op) PROVE AccountInv'
    <3>1. PICK r : r = [Idle EXCEPT !.step = "read", !.op = op, !.of = a] OBVIOUS
    <3>2. r \in Rec /\ r.op = op /\ r.step = "read" BY <1>i, <3>1
    <3>3. request' = [request EXCEPT ![q] = r] BY <2>3, <3>1 DEF BeginOwn
    <3> QED BY <1>1, <2>1, <2>2, <3>2, <3>3 DEF RequestOK
  <2>4. ASSUME NEW t \in Ticket, BeginVerify(q, t) PROVE AccountInv'
    <3>1. PICK r : r = [Idle EXCEPT !.step = "read", !.op = "verify", !.of = tickets[t].of, !.ticket = t] OBVIOUS
    <3>2. tickets[t].of \in Account /\ tickets[t].of # NoRow BY <1>0, <2>4 DEF BeginVerify
    <3>3. r \in Rec /\ r.op = "verify" /\ r.step = "read" /\ r.of = tickets[t].of /\ r.ticket = t BY <1>i, <3>1, <3>2
    <3>4. request' = [request EXCEPT ![q] = r] BY <2>4, <3>1 DEF BeginVerify
    <3> QED BY <1>1, <2>1, <2>2, <3>2, <3>3, <3>4 DEF RequestOK
  <2>5. ASSUME NEW by \in Account, NEW a \in Account, NEW change \in Wish, BeginAdmin(q, by, a, change) PROVE AccountInv'
    <3>1. PICK r : r = [Idle EXCEPT !.step = "read", !.op = "update", !.of = a, !.change = change] OBVIOUS
    <3>2. r \in Rec /\ r.op = "update" /\ r.step = "read" BY <1>i, <1>n, <3>1
    <3>3. request' = [request EXCEPT ![q] = r] BY <2>5, <3>1 DEF BeginAdmin
    <3> QED BY <1>1, <2>1, <2>2, <3>2, <3>3 DEF RequestOK
  <2>6. ASSUME NEW by \in Account, NEW a \in Account, BeginDelete(q, by, a) PROVE AccountInv'
    <3>1. PICK r : r = [Idle EXCEPT !.step = "delete", !.op = "delete", !.of = a] OBVIOUS
    <3>2. r \in Rec /\ r.op = "delete" /\ r.step = "delete" BY <1>i, <3>1
    <3>3. request' = [request EXCEPT ![q] = r] BY <2>6, <3>1 DEF BeginDelete
    <3> QED BY <1>1, <2>1, <2>2, <3>2, <3>3 DEF RequestOK
  <2> QED BY <1>6, <2>3, <2>4, <2>5, <2>6 DEF Begin
<1>7. ASSUME NEW q \in Request, GetByID(q) PROVE AccountInv'
  <2>1. UNCHANGED <<users, tickets, cooling, removed, twice>> /\ cooling' \subseteq Account
    BY <1>7 DEF GetByID, tableVars, accountHistory, AccountInv, AccountTypeOK
  <2>2. PICK r \in Rec, a \in Account : r = request[q] /\ a = r.of /\ r.step = "read" /\ RequestOK(r)
    BY <1>0, <1>7 DEF GetByID, AccountInv
  <2>3. CASE users[a] = NoRow \/ (r.op \in {"verify", "resend"} /\ users[a].verified)
    <3>1. PICK o : o = [r EXCEPT !.step = "ended"] OBVIOUS
    <3>2. request' = [request EXCEPT ![q] = o] BY <1>0, <1>7, <2>2, <2>3, <3>1 DEF GetByID, Step
    <3>3. o \in Rec /\ o.step = "ended" BY <2>2, <3>1
    <3> QED BY <1>1, <2>1, <3>2, <3>3 DEF RequestOK
  <2>4. CASE ~(users[a] = NoRow \/ (r.op \in {"verify", "resend"} /\ users[a].verified))
    <3>1. PICK step : step = CASE r.op = "verify" -> "mark" [] r.op = "resend" -> "last" [] OTHER -> "write" OBVIOUS
    <3>2. PICK o : o = [r EXCEPT !.copy = users[a], !.step = step] OBVIOUS
    <3>3. request' = [request EXCEPT ![q] = o]
      <4>1. request' = [request EXCEPT ![q].copy = users[a], ![q].step = step]
        BY <1>7, <2>2, <2>4, <3>1 DEF GetByID
      <4> QED BY <1>0, <2>2, <3>2, <4>1
    <3>4. /\ step \in {"mark", "last", "write"} /\ (step = "mark" <=> r.op = "verify") /\ (step = "last" <=> r.op = "resend")
      BY <3>1
    <3>5. users[a] \in UserRow BY <1>0, <2>2, <2>4
    <3>6. /\ o \in Rec /\ o.copy = users[a] /\ o.step = step /\ o.op = r.op /\ o.of = a /\ o.ticket = r.ticket
      BY <2>2, <3>2, <3>4, <3>5
    <3>7. users[a].verified => Vouched(a) BY <2>2, <2>4 DEF AccountInv
    <3>8. RequestOK(o) BY <2>2, <3>4, <3>5, <3>6, <3>7 DEF RequestOK
    <3> QED BY <1>1, <2>1, <3>3, <3>6, <3>8
  <2> QED BY <2>3, <2>4
<1>8. ASSUME NEW q \in Request, MarkUsed(q) PROVE AccountInv'
  <2>1. PICK r \in Rec : r = request[q] /\ r.step = "mark" /\ RequestOK(r)
    BY <1>0, <1>8 DEF MarkUsed, AccountInv
  <2>2. tickets' = [tickets EXCEPT ![r.ticket].used = TRUE] BY <1>8, <2>1 DEF MarkUsed
  <2>3. /\ tickets' \in [Ticket -> [of : Account \cup {NoRow}, used : BOOLEAN, expired : BOOLEAN]]
        /\ \A u \in Ticket : /\ tickets[u].used => tickets'[u].used
                             /\ tickets[u].of # NoRow => tickets'[u].of = tickets[u].of
        /\ r.ticket \in Ticket => tickets'[r.ticket].used
    <3>1. CASE r.ticket \in Ticket
      <4>1. PICK k \in [of : Account \cup {NoRow}, used : BOOLEAN, expired : BOOLEAN] : k = tickets[r.ticket]
        BY <1>0, <3>1
      <4>2. PICK m : m = [k EXCEPT !.used = TRUE] OBVIOUS
      <4>3. /\ m \in [of : Account \cup {NoRow}, used : BOOLEAN, expired : BOOLEAN]
            /\ m.used /\ m.of = k.of
        BY <4>1, <4>2
      <4>4. tickets' = [tickets EXCEPT ![r.ticket] = m] BY <1>0, <2>2, <3>1, <4>1, <4>2
      <4>5. tickets'[r.ticket] = m /\ \A u \in Ticket \ {r.ticket} : tickets'[u] = tickets[u]
        BY <1>0, <3>1, <4>4
      <4> QED BY <1>0, <4>1, <4>3, <4>4, <4>5
    <3>2. CASE r.ticket \notin Ticket
      <4>1. tickets' = tickets BY <1>0, <2>2, <3>2
      <4> QED BY <1>0, <3>2, <4>1
    <3> QED BY <3>1, <3>2
  <2>4. PICK o : o = [r EXCEPT !.step = "write"] OBVIOUS
  <2>5. /\ o \in Rec /\ o.step = "write" /\ o.op = r.op /\ o.of = r.of /\ o.ticket = r.ticket /\ o.copy = r.copy
    BY <2>1, <2>4
  <2>6. PICK now : now = [request EXCEPT ![q] = o] OBVIOUS
  <2>7. request' = now BY <1>0, <1>8, <2>1, <2>4, <2>6 DEF MarkUsed, Step
  <2>8. now \in [Request -> Rec] /\ now[q] = o /\ \A p \in Request \ {q} : now[p] = request[p] BY <1>0, <2>5, <2>6
  <2>9. RequestOK(o)'
    <3>1. \A b : Vouched(b) => Vouched(b)' BY <2>3, VouchedKept DEF AccountInv
    <3>2. o.copy \in UserRow /\ (o.copy.verified => Vouched(o.of)') BY <2>1, <2>5, <3>1 DEF RequestOK
    <3>3. o.op = "verify" => o.ticket \in Ticket /\ tickets'[o.ticket].of = o.of /\ o.of # NoRow /\ tickets'[o.ticket].used
      BY <2>1, <2>3, <2>5 DEF RequestOK
    <3> QED BY <3>2, <3>3 DEF RequestOK
  <2>10. \A p \in Request : now[p] = request[p] \/ RequestOK(now[p])'
    <3>1. ASSUME NEW p \in Request, p = q PROVE RequestOK(now[p])'
      <4>1. now[p] = o BY <2>8, <3>1
      <4> QED BY <2>9, <4>1
    <3> QED BY <2>8, <3>1
  <2>11. UNCHANGED <<users, cooling, removed, twice>> BY <1>8 DEF MarkUsed, accountHistory
  <2> QED BY <1>4, <2>3, <2>7, <2>8, <2>10, <2>11 DEF AccountInv, AccountTypeOK
\* A row is written or deleted.
<1>9. ASSUME NEW q \in Request, NEW o \in Rec, request' = [request EXCEPT ![q] = o], RequestOK(o), NEW a \in Account,
             NEW row1 \in UserRow \cup {NoRow},
             users' = [users EXCEPT ![a] = row1], row1 # NoRow /\ row1.verified => Vouched(a),
             row1 # NoRow => a \notin removed,
             removed' \subseteq Account, \A b \in removed' : b \in removed \/ (b = a /\ row1 = NoRow),
             UNCHANGED <<tickets, cooling, twice>>
      PROVE  AccountInv'
  <2>1. request' \in [Request -> Rec] /\ users' \in [Account -> UserRow \cup {NoRow}] BY <1>0, <1>9
  <2>2. AccountTypeOK' BY <1>9, <2>1 DEF AccountInv, AccountTypeOK
  <2>3. ASSUME NEW p \in Request PROVE RequestOK(request[p])'
    <3>1. PICK r : r = request'[p] /\ RequestOK(r) BY <1>0, <1>9 DEF AccountInv
    <3>2. RequestOK(r)' BY <1>9, <1>k, <3>1
    <3> QED BY <3>1, <3>2
  <2>4. \A b \in Account : users'[b] # NoRow /\ users'[b].verified => Vouched(b)'
    BY <1>0, <1>9, <1>k DEF AccountInv
  <2>5. \A b \in removed' : users'[b] = NoRow
    BY <1>0, <1>9 DEF AccountInv, DeletedStaysGone
  <2> QED BY <2>2, <2>3, <2>4, <2>5 DEF AccountInv, DeletedStaysGone
<1>10. ASSUME NEW q \in Request PROVE \E o \in Rec : o = [request[q] EXCEPT !.step = "ended"] /\ RequestOK(o)
  <2>1. PICK r \in Rec : r = request[q] BY <1>0
  <2>2. PICK o : o = [r EXCEPT !.step = "ended"] OBVIOUS
  <2>3. o \in Rec /\ o.step = "ended" BY <2>1, <2>2
  <2>4. RequestOK(o) BY <2>3 DEF RequestOK
  <2> QED BY <2>1, <2>2, <2>3, <2>4
<1>11. ASSUME NEW q \in Request, Update(q) PROVE AccountInv'
  <2>1. PICK o \in Rec : o = [request[q] EXCEPT !.step = "ended"] /\ RequestOK(o) BY <1>10
  <2>2. request' = [request EXCEPT ![q] = o] BY <1>0, <1>11, <2>1 DEF Update, Step
  <2>3. PICK r \in Rec, a \in Account : r = request[q] /\ a = r.of /\ r.step = "write" /\ RequestOK(r)
    BY <1>0, <1>11 DEF Update, AccountInv
  <2>4. UNCHANGED <<tickets, cooling, removed, twice>> BY <1>11 DEF Update, accountHistory
  <2>5. CASE users[a] = NoRow
    <3>1. users' = users BY <1>11, <2>3, <2>5 DEF Update
    <3> QED BY <1>1, <2>1, <2>2, <2>4, <3>1 DEF AccountInv, AccountTypeOK
  <2>6. CASE users[a] # NoRow
    <3>1. PICK row1 : row1 = Changed(q) OBVIOUS
    <3>2. users' = [users EXCEPT ![a] = row1] BY <1>11, <2>3, <2>6, <3>1 DEF Update
    <3>3. r.copy \in UserRow BY <2>3 DEF RequestOK
    <3>4. row1 \in UserRow /\ (row1.verified => Vouched(a))
      <4>1. PICK copy \in UserRow, change \in Change : copy = r.copy /\ change = r.change BY <2>3, <3>3
      <4>2. copy.status \in UserStatus /\ copy.role \in Role /\ change.role \in Role \cup {"same"} /\ change.status \in UserStatus \cup {"same"}
        BY <4>1 DEF UserRow, Change
      <4>3. CASE r.op = "verify"
        <5>1. PICK st : st = IF copy.status = "pending_verification" THEN "active" ELSE copy.status OBVIOUS
        <5>2. row1 = [copy EXCEPT !.verified = TRUE, !.status = st] BY <2>3, <3>1, <4>1, <4>3, <5>1 DEF Changed
        <5>3. st \in UserStatus BY <4>2, <5>1 DEF UserStatus
        <5>4. row1 \in UserRow BY <5>2, <5>3, <4>1 DEF UserRow
        <5>5. Vouched(a) BY <2>3, <4>3 DEF RequestOK, Vouched
        <5> QED BY <5>4, <5>5
      <4>4. CASE r.op # "verify"
        <5>1. PICK ro, st : /\ ro = (IF change.role = "same" THEN copy.role ELSE change.role)
                            /\ st = (IF change.status = "same" THEN copy.status ELSE change.status)
          OBVIOUS
        <5>2. row1 = [copy EXCEPT !.role = ro, !.status = st] BY <2>3, <3>1, <4>1, <4>4, <5>1 DEF Changed
        <5>3. st \in UserStatus /\ ro \in Role BY <4>2, <5>1
        <5>4. row1 \in UserRow /\ row1.verified = copy.verified BY <5>2, <5>3, <4>1 DEF UserRow
        <5>5. copy.verified => Vouched(a) BY <2>3, <4>1 DEF RequestOK
        <5> QED BY <5>4, <5>5
      <4> QED BY <4>3, <4>4
    <3>5. a \notin removed BY <2>6 DEF AccountInv, DeletedStaysGone
    <3>6. removed' \subseteq Account BY <2>4 DEF AccountInv, AccountTypeOK
    <3>7. \A b \in removed' : b \in removed \/ (b = a /\ row1 = NoRow) BY <2>4
    <3>8. UNCHANGED <<tickets, cooling, twice>> BY <2>4
    <3> QED BY <1>9, <2>1, <2>2, <3>2, <3>4, <3>5, <3>6, <3>7, <3>8
  <2> QED BY <2>5, <2>6
<1>12. ASSUME NEW q \in Request, DeleteUser(q) PROVE AccountInv'
  <2>1. PICK o \in Rec : o = [request[q] EXCEPT !.step = "ended"] /\ RequestOK(o) BY <1>10
  <2>2. request' = [request EXCEPT ![q] = o] BY <1>0, <1>12, <2>1 DEF DeleteUser, Step
  <2>3. PICK a \in Account : a = request[q].of BY <1>0
  <2>4. users' = [users EXCEPT ![a] = NoRow] /\ UNCHANGED <<tickets, cooling, twice>>
    BY <1>12, <2>3 DEF DeleteUser
  <2>5. removed' \subseteq Account /\ \A b \in removed' : b \in removed \/ b = a
    BY <1>12, <2>3 DEF DeleteUser, AccountInv, AccountTypeOK
  <2> QED BY <1>9, <2>1, <2>2, <2>4, <2>5
<1>13. ASSUME NEW q \in Request, LastTokenTime(q) PROVE AccountInv'
  <2>1. PICK r \in Rec, step \in {"ended", "create"} :
            r = request[q] /\ request' = [request EXCEPT ![q].step = step]
    BY <1>0, <1>13 DEF LastTokenTime, Step
  <2>2. PICK o : o = [r EXCEPT !.step = step] OBVIOUS
  <2>3. o \in Rec /\ o.step = step /\ request' = [request EXCEPT ![q] = o] BY <1>0, <2>1, <2>2
  <2>4. RequestOK(o) BY <2>1, <2>3 DEF RequestOK
  <2>5. UNCHANGED <<users, tickets, cooling, removed, twice>> /\ cooling' \subseteq Account
    BY <1>13 DEF LastTokenTime, tableVars, accountHistory, AccountInv, AccountTypeOK
  <2> QED BY <1>1, <2>3, <2>4, <2>5
<1>14. ASSUME NEW q \in Request, CreateToken(q) PROVE AccountInv'
  <2>1. PICK o \in Rec : o = [request[q] EXCEPT !.step = "ended"] /\ RequestOK(o) BY <1>10
  <2>2. PICK now : now = [request EXCEPT ![q] = o] OBVIOUS
  <2>3. request' = now BY <1>0, <1>14, <2>1, <2>2 DEF CreateToken, Step
  <2>4. now \in [Request -> Rec] /\ now[q] = o /\ \A p \in Request \ {q} : now[p] = request[p] BY <1>0, <2>1, <2>2
  <2>5. PICK a \in Account : a = request[q].of BY <1>0
  <2>6. PICK t \in Ticket : tickets[t].of = NoRow /\ tickets' = [tickets EXCEPT ![t].of = a]
    BY <1>14, <2>5 DEF CreateToken
  <2>7. /\ tickets' \in [Ticket -> [of : Account \cup {NoRow}, used : BOOLEAN, expired : BOOLEAN]]
        /\ \A u \in Ticket : /\ tickets[u].used => tickets'[u].used
                             /\ tickets[u].of # NoRow => tickets'[u].of = tickets[u].of
    BY <1>0, <2>6
  <2>8. UNCHANGED <<users, removed>> /\ cooling' \subseteq Account /\ twice' \in BOOLEAN
    BY <1>14, <2>5 DEF CreateToken, AccountInv, AccountTypeOK
  <2>9. \A p \in Request : now[p] = request[p] \/ RequestOK(now[p])'
    <3>1. ASSUME NEW p \in Request, p = q PROVE RequestOK(now[p])'
      <4>1. now[p] = o /\ o.step = "ended" BY <2>1, <2>4, <3>1, <1>0
      <4> QED BY <4>1 DEF RequestOK
    <3> QED BY <2>4, <3>1
  <2> QED BY <1>4, <2>3, <2>4, <2>7, <2>8, <2>9
<1>15. CASE UNCHANGED accountVars
  <2>1. UNCHANGED <<users, tickets, cooling, request, removed, twice>> BY <1>15 DEF accountVars
  <2>2. PICK now \in [Request -> Rec] : now = request BY <1>0
  <2> QED BY <1>4, <2>1, <2>2 DEF AccountInv, AccountTypeOK
<1> QED BY <1>2, <1>3, <1>5, <1>6, <1>7, <1>8, <1>11, <1>12, <1>13, <1>14, <1>15 DEF AccountNext, Handle

\* However many requests overlap on the rows they have read: a deleted account stays deleted, and an
\* account is verified only with a token of its own that is used up.
THEOREM AccountsHold == AccountSpec => [](AccountTypeOK /\ DeletedStaysGone /\ VerifiedByToken)
<1>1. AccountInv => AccountTypeOK /\ DeletedStaysGone /\ VerifiedByToken
  BY DEF AccountInv, VerifiedByToken, Vouched
<1> QED BY <1>1, AccountInitInv, AccountStep, PTL DEF AccountSpec

(***************************************************************************)
(* The heartbeat's chat                                                    *)
(***************************************************************************)

\* The heartbeat's manager reads its file when it is made and keeps what it read: a turn that runs
\* runs for the chat the result will be sent to.
LastInv ==
    /\ LastTypeOK
    /\ \A b \in Beater : beat[b] # "idle" => beat[b] = memory["heartbeat"]
    /\ ResultFollowsTurn

LEMMA LastInitInv == LastInit => LastInv
<1> SUFFICES ASSUME LastInit PROVE LastInv
  OBVIOUS
<1>1. sent \in [turn : User \cup {NoUser}, to : User \cup {NoUser}] /\ sent.to = sent.turn
  BY DEF LastInit, NotSent
<1>2. boots \in 0..MaxBoot
  BY LastAssumption DEF LastInit
<1>3. LastTypeOK
  BY <1>1, <1>2 DEF LastInit, LastTypeOK
<1> QED BY <1>1, <1>3 DEF LastInit, LastInv, ResultFollowsTurn, NotSent

LEMMA LastStep == LastInv /\ [LastNext]_lastVars => LastInv'
<1> SUFFICES ASSUME LastInv, [LastNext]_lastVars PROVE LastInv'
  OBVIOUS
<1> USE DEF LastInv, LastTypeOK, ResultFollowsTurn
<1>1. CASE Boot
  <2>1. boots' \in 0..MaxBoot BY <1>1, LastAssumption DEF Boot
  <2>2. memory' \in [Manager -> User \cup {NoUser}] BY <1>1 DEF Boot
  <2>3. beat' \in [Beater -> User \cup {NoUser, "idle"}] /\ \A b \in Beater : beat'[b] = "idle" BY <1>1 DEF Boot
  <2> QED BY <1>1, <2>1, <2>2, <2>3 DEF Boot
<1>2. CASE BeginService \/ EndService \/ TimerLate \/ NoPrompt
  BY <1>2 DEF BeginService, EndService, TimerLate, NoPrompt
<1>3. "loop" \in Manager /\ "heartbeat" \in Manager /\ "loop" # "heartbeat"
  BY DEF Manager
<1>4. ASSUME NEW c \in User, UserTurn(c) \/ OtherTurn(c) PROVE LastInv'
  <2>1. /\ memory' \in [Manager -> User \cup {NoUser}] /\ memory'["heartbeat"] = memory["heartbeat"]
        /\ file' \in User \cup {NoUser}
    BY <1>3, <1>4 DEF UserTurn, OtherTurn, SetLastChannel
  <2> QED BY <1>4, <2>1 DEF UserTurn, OtherTurn, serviceVars
<1>5. ASSUME NEW b \in Beater, executeHeartbeat(b) PROVE LastInv'
  <2>1. PICK c \in User \cup {NoUser} : c = memory["heartbeat"]
    BY <1>3
  <2>2. /\ memory' \in [Manager -> User \cup {NoUser}] /\ memory'["heartbeat"] = c
        /\ file' \in User \cup {NoUser}
    BY <1>3, <1>5, <2>1 DEF executeHeartbeat, SetLastChannel
  <2>3. beat' = [beat EXCEPT ![b] = c]
    BY <1>5, <2>1 DEF executeHeartbeat
  <2>4. /\ beat' \in [Beater -> User \cup {NoUser, "idle"}]
        /\ \A g \in Beater : beat'[g] # "idle" => beat'[g] = c
    BY <2>1, <2>3
  <2>5. armed' \in BOOLEAN /\ UNCHANGED <<boots, alive, lastActive, sent>>
    BY <1>5 DEF executeHeartbeat
  <2> QED BY <2>2, <2>4, <2>5
<1>6. ASSUME NEW b \in Beater, ResultKept(b) PROVE LastInv'
  BY <1>6 DEF ResultKept, serviceVars
<1>7. ASSUME NEW b \in Beater, sendResponse(b) PROVE LastInv'
  <2>1. PICK c \in User \cup {NoUser} : c = memory["heartbeat"] /\ c = beat[b]
    BY <1>3, <1>7 DEF sendResponse
  <2>2. sent' = sent \/ sent' = [turn |-> c, to |-> c]
    BY <1>7, <2>1 DEF sendResponse
  <2>3. sent' \in [turn : User \cup {NoUser}, to : User \cup {NoUser}] /\ sent'.to = sent'.turn
    BY <2>1, <2>2
  <2> QED BY <1>7, <2>3 DEF sendResponse, serviceVars
<1>8. CASE UNCHANGED lastVars
  BY <1>8 DEF lastVars
<1> QED BY <1>1, <1>2, <1>4, <1>5, <1>6, <1>7, <1>8 DEF LastNext

\* The result of a heartbeat goes to the chat its turn ran for, though other turns record their chats
\* and the process restarts meanwhile: the chat looked up last is the one looked up first.
THEOREM ResultsFollowTurns == LastSpec => [](LastTypeOK /\ ResultFollowsTurn)
<1>1. LastInv => LastTypeOK /\ ResultFollowsTurn
  BY DEF LastInv
<1> QED BY <1>1, LastInitInv, LastStep, PTL DEF LastSpec

(***************************************************************************)
(* Managed services                                                        *)
(***************************************************************************)

UsingRec == [step : {"idle", "over", "remove", "run", "mark", "wait", "stop", "stopped"},
             of : ServiceManager, container : Container \cup {NoContainer}]
InfoRec == [state : {"stopped", "starting", "running", "degraded", "stopping", "error"},
            container : Container \cup {NoContainer}]

Starting(step) == step \in {"remove", "run", "mark"}

\* A manager nobody has stopped: one turn at most starts its container, just while its state says so;
\* nobody is stopping it, and while docker is asked for its health it runs.
OneStarter(m) ==
    /\ \A t, u \in Turn : using[t].of = m /\ Starting(using[t].step) /\ using[u].of = m /\ Starting(using[u].step) => t = u
    /\ info[m].state = "starting" <=> \E t \in Turn : using[t].of = m /\ Starting(using[t].step)
    /\ \A t \in Turn : using[t].of = m => using[t].step \notin {"stop", "stopped"}
    /\ m \in Agent /\ monitor[m] => info[m].state = "running"

ManagedInv == ManagedTypeOK /\ \A m \in ServiceManager \ stopUsed : OneStarter(m)

LEMMA ManagedAway == Away \in UsingRec /\ Away.step = "idle"
<1>1. (CHOOSE m \in ServiceManager : TRUE) \in ServiceManager
  BY ManagedAssumption DEF ServiceManager
<1> QED BY <1>1 DEF Away, UsingRec

LEMMA ManagedInitInv == ManagedInit => ManagedInv
<1> SUFFICES ASSUME ManagedInit PROVE ManagedInv
  OBVIOUS
<1>1. using \in [Turn -> UsingRec] /\ \A t \in Turn : using[t].step = "idle"
  BY ManagedAway DEF ManagedInit
<1>2. info \in [ServiceManager -> InfoRec] /\ \A m \in ServiceManager : info[m].state = "stopped"
  BY DEF ManagedInit, InfoRec
<1>3. ran \in 0..MaxContainer
  BY ManagedAssumption DEF ManagedInit
<1>4. ManagedTypeOK
  BY <1>1, <1>2, <1>3 DEF ManagedInit, ManagedTypeOK, UsingRec, InfoRec
<1> QED BY <1>1, <1>2, <1>4 DEF ManagedInit, ManagedInv, OneStarter, Starting

\* One turn goes on, and the state of one manager.
LEMMA ManagedMove ==
  ASSUME ManagedInv, NEW t \in Turn, NEW new \in UsingRec, using' = [using EXCEPT ![t] = new],
         NEW m \in ServiceManager, NEW i \in InfoRec, info' = [info EXCEPT ![m] = i],
         ran' \in 0..MaxContainer, docker' \in Container \cup {NoContainer}, monitor' = monitor,
         stopUsed \subseteq stopUsed', stopUsed' \subseteq ServiceManager,
         Starting(using[t].step) => using[t].of = m, Starting(new.step) => new.of = m,
         new.step \in {"stop", "stopped"} => new.of \in stopUsed',
         m \notin stopUsed' =>
            /\ m \in Agent /\ monitor[m] => i.state = "running"
            /\ \/ Starting(new.step) /\ i.state = "starting" /\ (info[m].state # "starting" \/ Starting(using[t].step))
               \/ ~Starting(new.step) /\ i.state # "starting" /\ (info[m].state # "starting" \/ Starting(using[t].step))
               \/ ~Starting(new.step) /\ ~Starting(using[t].step) /\ i.state = info[m].state
  PROVE  ManagedInv'
<1>1. /\ using \in [Turn -> UsingRec] /\ info \in [ServiceManager -> InfoRec]
  BY DEF ManagedInv, ManagedTypeOK, UsingRec, InfoRec
<1>2. /\ using' \in [Turn -> UsingRec] /\ info' \in [ServiceManager -> InfoRec]
      /\ using'[t] = new /\ \A u \in Turn \ {t} : using'[u] = using[u]
      /\ info'[m] = i /\ \A k \in ServiceManager \ {m} : info'[k] = info[k]
  BY <1>1
<1>3. ManagedTypeOK'
  BY <1>2 DEF ManagedInv, ManagedTypeOK, UsingRec, InfoRec
<1>4. ASSUME NEW k \in ServiceManager, k \notin stopUsed' PROVE OneStarter(k)'
  <2>1. OneStarter(k) BY <1>4 DEF ManagedInv
  <2>2. \A u \in Turn : using'[u].of = k => using'[u].step \notin {"stop", "stopped"}
    BY <1>2, <1>4, <2>1 DEF OneStarter
  <2>3. CASE k # m
    <3>1. \A u \in Turn : using'[u].of = k /\ Starting(using'[u].step) <=> using[u].of = k /\ Starting(using[u].step)
      BY <1>2, <2>3
    <3>2. info'[k] = info[k] BY <1>2, <2>3
    <3> QED BY <2>1, <2>2, <3>1, <3>2 DEF OneStarter
  <2>4. CASE k = m
    <3>1. k \in Agent /\ monitor'[k] => info'[k].state = "running" BY <1>2, <1>4, <2>4
    <3>2. CASE Starting(new.step) /\ i.state = "starting" /\ (info[m].state # "starting" \/ Starting(using[t].step))
      <4>1. \A u \in Turn : using'[u].of = k /\ Starting(using'[u].step) => u = t
        BY <1>2, <2>1, <2>4, <3>2 DEF OneStarter
      <4>2. using'[t].of = k /\ Starting(using'[t].step) /\ info'[k].state = "starting" BY <1>2, <2>4, <3>2
      <4> QED BY <2>2, <3>1, <4>1, <4>2 DEF OneStarter
    <3>3. CASE ~Starting(new.step) /\ i.state # "starting" /\ (info[m].state # "starting" \/ Starting(using[t].step))
      <4>1. \A u \in Turn : ~(using'[u].of = k /\ Starting(using'[u].step))
        BY <1>2, <2>1, <2>4, <3>3 DEF OneStarter
      <4> QED BY <1>2, <2>2, <2>4, <3>1, <3>3, <4>1 DEF OneStarter
    <3>4. CASE ~Starting(new.step) /\ ~Starting(using[t].step) /\ i.state = info[m].state
      <4>1. \A u \in Turn : using'[u].of = k /\ Starting(using'[u].step) <=> using[u].of = k /\ Starting(using[u].step)
        BY <1>2, <3>4
      <4>2. info'[k].state = info[k].state BY <1>2, <2>4, <3>4
      <4> QED BY <2>1, <2>2, <3>1, <4>1, <4>2 DEF OneStarter
    <3> QED BY <1>4, <2>4, <3>2, <3>3, <3>4
  <2> QED BY <2>3, <2>4
<1> QED BY <1>3, <1>4 DEF ManagedInv

LEMMA ManagedStep == ManagedInv /\ [ManagedNext]_managedVars => ManagedInv'
<1> SUFFICES ASSUME ManagedInv, [ManagedNext]_managedVars PROVE ManagedInv'
  OBVIOUS
<1>1. /\ using \in [Turn -> UsingRec] /\ info \in [ServiceManager -> InfoRec] /\ ran \in 0..MaxContainer
      /\ docker \in Container \cup {NoContainer} /\ monitor \in [Agent -> BOOLEAN] /\ stopUsed \subseteq ServiceManager
  BY DEF ManagedInv, ManagedTypeOK, UsingRec, InfoRec
<1>2. ASSUME NEW t \in Turn, Finish(t)
      PROVE  \E new \in UsingRec : using' = [using EXCEPT ![t] = new] /\ new.step \in {"idle", "over"}
  <2>1. PICK new : new = [Away EXCEPT !.step = IF t \in Command THEN "over" ELSE "idle"] OBVIOUS
  <2>2. new \in UsingRec /\ new.step \in {"idle", "over"} BY <2>1, ManagedAway DEF UsingRec
  <2> QED BY <1>2, <2>1, <2>2 DEF Finish
<1>3. ASSUME NEW t \in Turn
      PROVE  \E r \in UsingRec, m \in ServiceManager, i \in InfoRec : r = using[t] /\ m = r.of /\ i = info[m]
  BY <1>1 DEF UsingRec
<1>4. ASSUME NEW t \in Turn, NEW r \in UsingRec, NEW step \in {"remove", "run", "mark", "stop", "stopped"}
      PROVE  [r EXCEPT !.step = step] \in UsingRec
  BY DEF UsingRec
<1>5. ASSUME NEW m \in ServiceManager, NEW i \in InfoRec, i = info[m] PROVE info = [info EXCEPT ![m] = i]
  BY <1>1, <1>5
<1>6. ASSUME NEW t \in Turn, NEW m \in ServiceManager, EnsureRunning(t, m) PROVE ManagedInv'
  <2>1. PICK i \in InfoRec : i = info[m] BY <1>1
  <2>2. UNCHANGED <<docker, ran, monitor, stopUsed>> /\ using[t].step = "idle" BY <1>6 DEF EnsureRunning, MayUse
  <2>3. CASE i.state = "running"
    <3>1. Finish(t) /\ info' = info BY <1>6, <2>1, <2>3 DEF EnsureRunning
    <3>2. PICK new \in UsingRec : using' = [using EXCEPT ![t] = new] /\ new.step \in {"idle", "over"} BY <1>2, <3>1
    <3>3. info' = [info EXCEPT ![m] = i] BY <1>5, <2>1, <3>1
    <3>4. ~Starting(using[t].step) /\ ~Starting(new.step) /\ new.step \notin {"stop", "stopped"}
      BY <2>2, <3>2 DEF Starting
    <3> QED BY <1>1, <2>1, <2>2, <2>3, <3>2, <3>3, <3>4, ManagedMove
  <2>4. CASE i.state = "starting"
    <3>1. PICK new : new = [Away EXCEPT !.step = "wait", !.of = m] OBVIOUS
    <3>2. new \in UsingRec /\ new.step = "wait" BY <3>1, ManagedAway DEF UsingRec
    <3>3. using' = [using EXCEPT ![t] = new] BY <1>6, <2>1, <2>4, <3>1 DEF EnsureRunning
    <3>4. info' = [info EXCEPT ![m] = i]
      <4>1. info' = info BY <1>6, <2>1, <2>4 DEF EnsureRunning
      <4> QED BY <1>5, <2>1, <4>1
    <3>5. ~Starting(using[t].step) /\ ~Starting(new.step) /\ new.step \notin {"stop", "stopped"}
      BY <2>2, <3>2 DEF Starting
    <3>6. m \notin stopUsed => (m \in Agent /\ monitor[m] => i.state = "running")
      BY <2>1 DEF ManagedInv, OneStarter
    <3>7. i.state = info[m].state BY <2>1
    <3> QED BY <1>1, <2>2, <3>2, <3>3, <3>4, <3>5, <3>6, <3>7, ManagedMove
  <2>5. CASE i.state \notin {"running", "starting"}
    <3>1. PICK new : new = [Away EXCEPT !.step = "remove", !.of = m] OBVIOUS
    <3>2. new \in UsingRec /\ new.step = "remove" /\ new.of = m BY <3>1, ManagedAway DEF UsingRec
    <3>3. PICK j : j = [i EXCEPT !.state = "starting"] OBVIOUS
    <3>4. j \in InfoRec /\ j.state = "starting" BY <3>3 DEF InfoRec
    <3>5. using' = [using EXCEPT ![t] = new] BY <1>6, <2>1, <2>5, <3>1 DEF EnsureRunning
    <3>6. info' = [info EXCEPT ![m] = j] BY <1>1, <1>6, <2>1, <2>5, <3>3 DEF EnsureRunning
    <3>7. ~Starting(using[t].step) /\ Starting(new.step) /\ new.step \notin {"stop", "stopped"}
      BY <2>2, <3>2 DEF Starting
    <3>8. m \notin stopUsed => ~(m \in Agent /\ monitor[m])
      BY <2>1, <2>5 DEF ManagedInv, OneStarter
    <3>9. info[m].state # "starting" BY <2>1, <2>5
    <3> QED BY <1>1, <2>2, <3>2, <3>4, <3>5, <3>6, <3>7, <3>8, <3>9, ManagedMove
  <2> QED BY <2>3, <2>4, <2>5
<1>7. ASSUME NEW t \in Turn, NEW m \in ServiceManager, BeginStop(t, m) PROVE ManagedInv'
  <2>1. PICK i \in InfoRec : i = info[m] BY <1>1
  <2>2. UNCHANGED <<docker, ran, monitor>> /\ using[t].step = "idle" BY <1>7 DEF BeginStop, MayUse
  <2>3. CASE i.state \in {"running", "degraded"}
    <3>1. PICK new : new = [step |-> "stop", of |-> m, container |-> i.container] OBVIOUS
    <3>2. new \in UsingRec /\ new.step = "stop" /\ new.of = m BY <3>1 DEF UsingRec, InfoRec
    <3>3. PICK j : j = [i EXCEPT !.state = "stopping"] OBVIOUS
    <3>4. j \in InfoRec BY <3>3 DEF InfoRec
    <3>5. using' = [using EXCEPT ![t] = new] /\ stopUsed' = stopUsed \cup {m} BY <1>7, <2>1, <2>3, <3>1 DEF BeginStop
    <3>6. info' = [info EXCEPT ![m] = j] BY <1>1, <1>7, <2>1, <2>3, <3>3 DEF BeginStop
    <3> QED BY <1>1, <2>2, <3>2, <3>4, <3>5, <3>6, ManagedMove DEF Starting
  <2>4. CASE i.state \notin {"running", "degraded"}
    <3>1. Finish(t) /\ info' = info /\ stopUsed' = stopUsed BY <1>7, <2>1, <2>4 DEF BeginStop
    <3>2. PICK new \in UsingRec : using' = [using EXCEPT ![t] = new] /\ new.step \in {"idle", "over"} BY <1>2, <3>1
    <3>3. info' = [info EXCEPT ![m] = i] BY <1>5, <2>1, <3>1
    <3>4. ~Starting(using[t].step) /\ ~Starting(new.step) /\ new.step \notin {"stop", "stopped"}
      BY <2>2, <3>2 DEF Starting
    <3>5. m \notin stopUsed => (m \in Agent /\ monitor[m] => i.state = "running")
      BY <2>1 DEF ManagedInv, OneStarter
    <3> QED BY <1>1, <2>1, <2>2, <3>1, <3>2, <3>3, <3>4, <3>5, ManagedMove
  <2> QED BY <2>3, <2>4
\* A turn that is starting the container of m, or stopping it.
<1>8. ASSUME NEW t \in Turn, NEW from \in {"remove", "run", "stop"}, NEW to \in {"run", "mark", "stopped"},
             (to = "stopped") = (from = "stop"), using[t].step = from,
             using' = [using EXCEPT ![t].step = to], docker' \in Container \cup {NoContainer}, ran' \in 0..MaxContainer,
             NEW k \in Container \cup {NoContainer}, info' = info \/ info' = [info EXCEPT ![using[t].of].container = k],
             UNCHANGED <<monitor, stopUsed>>
      PROVE  ManagedInv'
  <2>1. PICK r \in UsingRec, m \in ServiceManager, i \in InfoRec : r = using[t] /\ m = r.of /\ i = info[m]
    BY <1>3
  <2>2. PICK new : new = [r EXCEPT !.step = to] OBVIOUS
  <2>3. new \in UsingRec /\ new.step = to /\ new.of = m BY <1>8, <2>1, <2>2 DEF UsingRec
  <2>4. using' = [using EXCEPT ![t] = new] BY <1>1, <1>8, <2>1, <2>2
  <2>5. PICK j \in InfoRec : info' = [info EXCEPT ![m] = j] /\ j.state = i.state
    <3>1. CASE info' = info BY <1>5, <2>1, <3>1
    <3>2. CASE info' = [info EXCEPT ![m].container = k]
      <4>1. PICK j : j = [i EXCEPT !.container = k] OBVIOUS
      <4>2. j \in InfoRec /\ j.state = i.state BY <4>1 DEF InfoRec
      <4>3. info' = [info EXCEPT ![m] = j] BY <1>1, <2>1, <3>2, <4>1
      <4> QED BY <4>2, <4>3
    <3> QED BY <1>8, <2>1, <3>1, <3>2
  <2>6. m \notin stopUsed => from # "stop" /\ i.state = "starting" /\ (m \in Agent /\ monitor[m] => i.state = "running")
    BY <1>8, <2>1 DEF ManagedInv, OneStarter, Starting
  <2>7. /\ (Starting(from) <=> from # "stop") /\ (Starting(to) <=> from # "stop")
        /\ to \in {"stop", "stopped"} => from = "stop"
    BY <1>8 DEF Starting
  <2>8. from = "stop" => m \in stopUsed BY <2>6
  <2>9. Starting(using[t].step) <=> from # "stop" BY <1>8, <2>7
  <2>10. Starting(new.step) <=> from # "stop" BY <2>3, <2>7
  <2>11. new.step \in {"stop", "stopped"} => new.of \in stopUsed BY <2>3, <2>7, <2>8
  <2>12. stopUsed' = stopUsed /\ monitor' = monitor /\ using[t].of = m /\ new.of = m
    BY <1>8, <2>1, <2>3
  <2>13. m \notin stopUsed => (m \in Agent /\ monitor[m] => j.state = "running")
    BY <2>1, <2>5, <2>6
  <2>14. ran' \in 0..MaxContainer /\ docker' \in Container \cup {NoContainer} BY <1>8
  <2>15. m \notin stopUsed => Starting(new.step) /\ j.state = "starting" /\ Starting(using[t].step)
    BY <2>1, <2>5, <2>6, <2>9, <2>10
  <2>16. info' = [info EXCEPT ![m] = j] BY <2>5
  <2> QED BY <1>1, <2>3, <2>4, <2>11, <2>12, <2>13, <2>15, <2>14, <2>16, ManagedMove
<1>9. ASSUME NEW t \in Turn, RemoveOld(t) PROVE ManagedInv'
  BY <1>1, <1>8, <1>9 DEF RemoveOld
<1>10. ASSUME NEW t \in Turn, RunContainer(t) PROVE ManagedInv'
  <2>1. PICK k \in Container : k = ran + 1 /\ k \in 0..MaxContainer
    BY <1>1, <1>10, ManagedAssumption DEF RunContainer, Container
  <2>2. /\ using[t].step = "run" /\ using' = [using EXCEPT ![t].step = "mark"]
        /\ docker' = k /\ ran' = k /\ info' = [info EXCEPT ![using[t].of].container = k]
        /\ UNCHANGED <<monitor, stopUsed>>
    BY <1>10, <2>1 DEF RunContainer
  <2>3. docker' \in Container \cup {NoContainer} /\ ran' \in 0..MaxContainer BY <2>1, <2>2
  <2>4. k \in Container \cup {NoContainer} /\ (("mark" = "stopped") = ("run" = "stop")) BY <2>1
  <2> QED BY <1>8, <2>2, <2>3, <2>4
<1>11. ASSUME NEW t \in Turn, StopContainer(t) PROVE ManagedInv'
  <2>1. docker' \in Container \cup {NoContainer} BY <1>1, <1>11 DEF StopContainer
  <2>2. /\ using[t].step = "stop" /\ using' = [using EXCEPT ![t].step = "stopped"] /\ info' = info
        /\ ran' = ran /\ UNCHANGED <<monitor, stopUsed>>
    BY <1>11 DEF StopContainer
  <2>3. ran' \in 0..MaxContainer BY <1>1, <2>2
  <2>4. NoContainer \in Container \cup {NoContainer} /\ (("stopped" = "stopped") = ("stop" = "stop")) OBVIOUS
  <2> QED BY <1>8, <2>1, <2>2, <2>3, <2>4
\* A turn is over.
<1>12. ASSUME NEW t \in Turn, Finish(t), NEW m \in ServiceManager, m = using[t].of, NEW j \in InfoRec,
              info' = [info EXCEPT ![m] = j], UNCHANGED <<monitor, stopUsed>>,
              ran' \in 0..MaxContainer, docker' \in Container \cup {NoContainer},
              \/ Starting(using[t].step) /\ j.state \in {"running", "error"}
              \/ using[t].step = "stopped"
              \/ using[t].step = "wait" /\ j = info[m]
       PROVE  ManagedInv'
  <2>1. PICK new \in UsingRec : using' = [using EXCEPT ![t] = new] /\ new.step \in {"idle", "over"} BY <1>2, <1>12
  <2>2. m \notin stopUsed =>
           /\ OneStarter(m) /\ using[t].step # "stopped"
           /\ Starting(using[t].step) => info[m].state = "starting"
    BY <1>12 DEF ManagedInv, OneStarter
  <2>3. m \notin stopUsed => (m \in Agent /\ monitor[m] => j.state = "running")
    BY <1>12, <2>2 DEF OneStarter, Starting
  <2> QED BY <1>1, <1>12, <2>1, <2>2, <2>3, ManagedMove DEF Starting
<1>13. ASSUME NEW t \in Turn, RunFails(t) \/ MarkRunning(t) \/ waitForReady(t) \/ MarkStopped(t) PROVE ManagedInv'
  <2>1. PICK r \in UsingRec, m \in ServiceManager, i \in InfoRec : r = using[t] /\ m = r.of /\ i = info[m]
    BY <1>3
  <2>2. /\ Finish(t) /\ UNCHANGED <<monitor, stopUsed>>
        /\ ran' \in 0..MaxContainer /\ docker' \in Container \cup {NoContainer}
    <3>1. Finish(t) /\ UNCHANGED <<monitor, stopUsed>>
      BY <1>13 DEF RunFails, MarkRunning, waitForReady, MarkStopped
    <3>2. \/ UNCHANGED <<docker, ran>>
          \/ ran < MaxContainer /\ docker' = ran + 1 /\ ran' = ran + 1
      BY <1>13 DEF RunFails, MarkRunning, waitForReady, MarkStopped
    <3>3. CASE UNCHANGED <<docker, ran>> BY <1>1, <3>1, <3>3
    <3>4. CASE ran < MaxContainer /\ docker' = ran + 1 /\ ran' = ran + 1
      <4>1. PICK k \in Container : k = ran + 1 /\ k \in 0..MaxContainer
        BY <1>1, <3>4, ManagedAssumption DEF Container
      <4> QED BY <3>1, <3>4, <4>1
    <3> QED BY <3>1, <3>2, <3>3, <3>4
  <2>3. ASSUME NEW state \in {"running", "error"}
        PROVE  \E j \in InfoRec : j.state = state /\ [info EXCEPT ![m].state = state] = [info EXCEPT ![m] = j]
    <3>1. PICK j : j = [i EXCEPT !.state = state] OBVIOUS
    <3>2. j \in InfoRec /\ j.state = state BY <3>1 DEF InfoRec
    <3> QED BY <1>1, <2>1, <3>1, <3>2
  <2>4. CASE RunFails(t)
    <3>1. PICK j \in InfoRec : j.state = "error" /\ info' = [info EXCEPT ![m] = j] BY <2>1, <2>3, <2>4 DEF RunFails
    <3>2. Starting(using[t].step) BY <2>4 DEF RunFails, Starting
    <3> QED BY <1>12, <2>1, <2>2, <3>1, <3>2
  <2>5. CASE MarkRunning(t)
    <3>1. PICK j \in InfoRec : j.state = "running" /\ info' = [info EXCEPT ![m] = j] BY <2>1, <2>3, <2>5 DEF MarkRunning
    <3>2. Starting(using[t].step) BY <2>5 DEF MarkRunning, Starting
    <3> QED BY <1>12, <2>1, <2>2, <3>1, <3>2
  <2>6. CASE waitForReady(t)
    <3>1. info' = [info EXCEPT ![m] = i] /\ using[t].step = "wait" BY <1>5, <2>1, <2>6 DEF waitForReady
    <3> QED BY <1>12, <2>1, <2>2, <3>1
  <2>7. CASE MarkStopped(t)
    <3>1. PICK j : j = [state |-> "stopped", container |-> NoContainer] OBVIOUS
    <3>2. j \in InfoRec BY <3>1 DEF InfoRec
    <3>3. info' = [info EXCEPT ![m] = j] /\ using[t].step = "stopped" BY <2>1, <2>7, <3>1 DEF MarkStopped
    <3> QED BY <1>12, <2>1, <2>2, <3>2, <3>3
  <2> QED BY <1>13, <2>4, <2>5, <2>6, <2>7
<1>14. ASSUME NEW a \in Agent, CheckState(a) PROVE ManagedInv'
  <2>1. /\ UNCHANGED <<info, docker, ran, using, stopUsed>> /\ info[a].state = "running" /\ monitor' = [monitor EXCEPT ![a] = TRUE]
    BY <1>14 DEF CheckState
  <2>2. monitor' \in [Agent -> BOOLEAN] /\ \A b \in Agent : b # a => monitor'[b] = monitor[b] BY <1>1, <2>1
  <2>3. ManagedTypeOK' BY <2>1, <2>2 DEF ManagedInv, ManagedTypeOK
  <2>4. (\A m \in ServiceManager \ stopUsed : OneStarter(m))' BY <2>1, <2>2 DEF ManagedInv, OneStarter
  <2> QED BY <2>3, <2>4 DEF ManagedInv
<1>15. ASSUME NEW a \in Agent, CheckResult(a) PROVE ManagedInv'
  <2>1. PICK i \in InfoRec : i = info[a] /\ a \in ServiceManager BY <1>1 DEF ServiceManager
  <2>2. PICK j : j = [i EXCEPT !.state = "degraded"] OBVIOUS
  <2>3. j \in InfoRec /\ j.state = "degraded" BY <2>2 DEF InfoRec
  <2>4. info' = info \/ info' = [info EXCEPT ![a] = j]
    BY <1>1, <1>15, <2>1, <2>2 DEF CheckResult
  <2>5. /\ UNCHANGED <<docker, ran, using, stopUsed>> /\ monitor[a] /\ monitor' = [monitor EXCEPT ![a] = FALSE]
    BY <1>15 DEF CheckResult
  <2>6. /\ monitor' \in [Agent -> BOOLEAN] /\ ~monitor'[a] /\ \A b \in Agent : b # a => monitor'[b] = monitor[b]
        /\ info' \in [ServiceManager -> InfoRec] /\ \A m \in ServiceManager : m # a => info'[m] = info[m]
        /\ info'[a] = info[a] \/ info'[a].state = "degraded"
    BY <1>1, <2>1, <2>3, <2>4, <2>5
  <2>7. ManagedTypeOK' BY <2>5, <2>6 DEF ManagedInv, ManagedTypeOK, InfoRec
  <2>8. ASSUME NEW m \in ServiceManager, m \notin stopUsed' PROVE OneStarter(m)'
    <3>1. OneStarter(m) BY <2>5, <2>8 DEF ManagedInv
    <3>2. CASE m # a BY <2>5, <2>6, <3>1, <3>2 DEF OneStarter
    <3>3. CASE m = a
      <4>1. info[m].state = "running" BY <2>5, <3>1, <3>3 DEF OneStarter
      <4>2. info'[m].state # "starting" BY <2>6, <3>3, <4>1
      <4> QED BY <2>5, <2>6, <3>1, <3>3, <4>1, <4>2 DEF OneStarter
    <3> QED BY <3>2, <3>3
  <2> QED BY <2>7, <2>8 DEF ManagedInv
<1>16. CASE UNCHANGED managedVars
  BY <1>16 DEF managedVars, ManagedInv, ManagedTypeOK, OneStarter
<1> QED BY <1>6, <1>7, <1>9, <1>10, <1>11, <1>13, <1>14, <1>15, <1>16 DEF ManagedNext, UseStep

LEMMA ManagedStarted == ManagedInv => StartedOnce
<1> SUFFICES ASSUME ManagedInv, NEW m \in ServiceManager \ stopUsed
             PROVE  /\ Cardinality(Starters(m)) <= 1
                    /\ Starters(m) # {} <=> info[m].state = "starting"
  BY DEF StartedOnce
<1>1. OneStarter(m) BY DEF ManagedInv
<1>2. \A t : t \in Starters(m) <=> t \in Turn /\ using[t].of = m /\ Starting(using[t].step)
  BY DEF Starters, Starting
<1>3. Cardinality(Starters(m)) <= 1
  <2>1. CASE Starters(m) = {} BY <2>1, FS_EmptySet
  <2>2. CASE Starters(m) # {}
    <3>1. PICK t : t \in Starters(m) BY <2>2
    <3>2. \A u \in Starters(m) : u = t BY <1>1, <1>2, <3>1 DEF OneStarter
    <3>3. Starters(m) = {t} BY <3>1, <3>2
    <3> QED BY <3>3, FS_Singleton
  <2> QED BY <2>1, <2>2
<1> QED BY <1>1, <1>2, <1>3 DEF OneStarter

\* Turns that need a service at once start its container once, however many turns, managers and health
\* checks there are, as long as its manager has not been asked to stop it.
THEOREM ServiceStartedOnce == ManagedSpec => [](ManagedTypeOK /\ StartedOnce)
<1>1. ManagedInv => ManagedTypeOK /\ StartedOnce
  BY ManagedStarted DEF ManagedInv
<1> QED BY <1>1, ManagedInitInv, ManagedStep, PTL DEF ManagedSpec

(***************************************************************************)
(* Media files                                                             *)
(***************************************************************************)

\* What the handler of a delivery has stored stays its own: a reference is there or its file is to be
\* removed, never both, and a file nobody else names is on disk until then.
MediaInv ==
    /\ MediaTypeOK
    /\ \A e \in refs \cup removing : handler[e] = "stored"
    /\ refs \cap removing = {}
    /\ \A e \in Delivery : Alone(e) /\ handler[e] \in {"writing", "written", "seen"} => PathOf[e] \in disk
    /\ EntryHasFile
    /\ FilesHaveOwners

LEMMA MediaInitInv == MediaInit => MediaInv
<1> SUFFICES ASSUME MediaInit PROVE MediaInv
  OBVIOUS
<1>1. runs \in 1..MaxRun
  BY MediaAssumption DEF MediaInit
<1>2. MediaTypeOK
  BY <1>1 DEF MediaInit, MediaTypeOK, Fresh
<1> QED BY <1>2 DEF MediaInit, MediaInv, EntryHasFile, FilesHaveOwners, Fresh

\* A handler goes on; the disk, or the references, follow.
LEMMA MediaHandles ==
  ASSUME MediaInv, NEW e \in Delivery, NEW from, NEW to \in {"writing", "written", "seen", "unseen", "stored", "failed"},
         Handles(e, from, to), from # "stored",
         disk' \subseteq Path, \A p \in Path : p # PathOf[e] => (p \in disk' <=> p \in disk),
         to \in {"writing", "written", "seen", "stored"} => (PathOf[e] \in disk' <=> PathOf[e] \in disk) \/ to = "writing",
         to = "writing" => PathOf[e] \in disk',
         to \in {"written", "seen", "stored"} => from \in {"writing", "written", "seen"},
         to \in {"unseen", "failed"} => PathOf[e] \notin disk',
         refs' = IF to = "stored" THEN refs \cup {e} ELSE refs,
         reader' \in [Delivery -> {"none", "queued", "resolved", "sent", "left out"}],
         UNCHANGED <<aged, removing, runs, kept>>
  PROVE  MediaInv'
<1>1. /\ handler' \in [Delivery -> {"none", "writing", "written", "seen", "unseen", "stored", "failed"}]
      /\ handler[e] = from /\ handler'[e] = to /\ \A f \in Delivery \ {e} : handler'[f] = handler[f]
  BY DEF MediaInv, MediaTypeOK, Handles
<1>2. e \notin refs /\ e \notin removing
  BY <1>1 DEF MediaInv
<1>3. MediaTypeOK'
  BY <1>1 DEF MediaInv, MediaTypeOK
<1>4. PathOf \in [Delivery -> Path]
  BY MediaAssumption
<1>5. \A f \in refs' \cup removing' : handler'[f] = "stored"
  BY <1>1 DEF MediaInv, MediaTypeOK
<1>6. refs' \cap removing' = {}
  BY <1>2 DEF MediaInv
<1>7. ASSUME NEW f \in Delivery, Alone(f), f # e PROVE PathOf[f] \in disk' <=> PathOf[f] \in disk
  BY <1>4, <1>7 DEF Alone
<1>8. ASSUME NEW f \in Delivery, Alone(f), handler'[f] \in {"writing", "written", "seen"} PROVE PathOf[f] \in disk'
  <2>1. CASE f = e BY <1>1, <1>8, <2>1 DEF MediaInv
  <2>2. CASE f # e BY <1>1, <1>7, <1>8, <2>2 DEF MediaInv
  <2> QED BY <2>1, <2>2
<1>9. ASSUME NEW f \in refs', Alone(f) PROVE PathOf[f] \in disk'
  <2>0. f \in Delivery BY DEF MediaInv, MediaTypeOK
  <2>1. CASE f = e BY <1>1, <1>2, <1>9, <2>1 DEF MediaInv
  <2>2. CASE f # e BY <1>7, <1>9, <2>0, <2>2 DEF MediaInv, EntryHasFile
  <2> QED BY <2>1, <2>2
<1>10. ASSUME NEW p \in disk' \ kept'
       PROVE  \E f \in Delivery : PathOf[f] = p /\ (handler'[f] \in {"writing", "written", "seen"} \/ f \in refs' \cup removing')
  <2>1. CASE p = PathOf[e] /\ to \in {"writing", "written", "seen", "stored"}
    BY <1>1, <2>1
  <2>2. CASE p = PathOf[e] /\ to \in {"unseen", "failed"}
    BY <1>10, <2>2
  <2>3. CASE p # PathOf[e]
    <3>1. p \in disk \ kept BY <1>10, <2>3
    <3>2. PICK f \in Delivery : PathOf[f] = p /\ (handler[f] \in {"writing", "written", "seen"} \/ f \in refs \cup removing)
      BY <3>1 DEF MediaInv, FilesHaveOwners
    <3>3. f # e BY <2>3, <3>2
    <3> QED BY <1>1, <3>2, <3>3
  <2> QED BY <2>1, <2>2, <2>3
<1> QED BY <1>3, <1>5, <1>6, <1>8, <1>9, <1>10 DEF MediaInv, EntryHasFile, FilesHaveOwners, Alone

LEMMA MediaStep == MediaInv /\ [MediaNext]_mediaVars => MediaInv'
<1> SUFFICES ASSUME MediaInv, [MediaNext]_mediaVars PROVE MediaInv'
  OBVIOUS
<1>0. PathOf \in [Delivery -> Path] /\ disk \subseteq Path /\ MaxRun \in Nat
  BY MediaAssumption DEF MediaInv, MediaTypeOK
<1>r. reader \in [Delivery -> {"none", "queued", "resolved", "sent", "left out"}]
  BY DEF MediaInv, MediaTypeOK
<1>1. ASSUME NEW e \in Delivery, CreateFile(e) PROVE MediaInv'
  BY <1>0, <1>1, <1>r, MediaHandles DEF CreateFile
<1>2. ASSUME NEW e \in Delivery, WriteFile(e) PROVE MediaInv'
  <2>1. CASE Handles(e, "writing", "written") /\ UNCHANGED disk
    BY <1>0, <1>2, <1>r, <2>1, MediaHandles DEF WriteFile
  <2>2. CASE Handles(e, "writing", "failed") /\ disk' = disk \ {PathOf[e]}
    BY <1>0, <1>2, <1>r, <2>2, MediaHandles DEF WriteFile
  <2> QED BY <1>2, <2>1, <2>2 DEF WriteFile
<1>3. ASSUME NEW e \in Delivery, StoreStat(e) PROVE MediaInv'
  <2>1. CASE PathOf[e] \in disk
    <3>1. Handles(e, "written", "seen") BY <1>3, <2>1 DEF StoreStat
    <3> QED BY <1>0, <1>3, <1>r, <3>1, MediaHandles DEF StoreStat
  <2>2. CASE PathOf[e] \notin disk
    <3>1. Handles(e, "written", "unseen") BY <1>3, <2>2 DEF StoreStat
    <3> QED BY <1>0, <1>3, <1>r, <2>2, <3>1, MediaHandles DEF StoreStat
  <2> QED BY <2>1, <2>2
<1>4. ASSUME NEW e \in Delivery, StoreFails(e) PROVE MediaInv'
  BY <1>0, <1>4, <1>r, MediaHandles DEF StoreFails
<1>5. ASSUME NEW e \in Delivery, StoreRef(e) PROVE MediaInv'
  BY <1>0, <1>5, <1>r, MediaHandles DEF StoreRef
<1>6. ASSUME NEW e \in Delivery, ResolveWithMeta(e) \/ OpenFile(e) PROVE MediaInv'
  BY <1>6 DEF ResolveWithMeta, OpenFile, MediaInv, MediaTypeOK, EntryHasFile, FilesHaveOwners, Alone
<1>7. ASSUME NEW e \in Delivery, Age(e) PROVE MediaInv'
  BY <1>7 DEF Age, MediaInv, MediaTypeOK, EntryHasFile, FilesHaveOwners, Alone
<1>8. ASSUME NEW e \in Delivery, RemoveFile(e) PROVE MediaInv'
  <2>1. /\ e \in removing /\ removing' = removing \ {e} /\ UNCHANGED <<refs, aged, handler, reader, runs>>
        /\ \/ disk' = disk \ {PathOf[e]} /\ kept' = kept
           \/ kept' = kept \cup {PathOf[e]} /\ disk' = disk
    BY <1>8 DEF RemoveFile
  <2>2. handler[e] = "stored" /\ e \notin refs BY <2>1 DEF MediaInv
  <2>3. MediaTypeOK' BY <1>0, <2>1 DEF MediaInv, MediaTypeOK
  <2>4. \A f \in Delivery : Alone(f) /\ f # e => (PathOf[f] \in disk' <=> PathOf[f] \in disk)
    BY <2>1 DEF Alone
  <2>5. \A f \in Delivery : Alone(f) /\ handler'[f] \in {"writing", "written", "seen"} => PathOf[f] \in disk'
    BY <2>1, <2>2, <2>4 DEF MediaInv
  <2>6. \A f \in refs' : Alone(f) => PathOf[f] \in disk'
    BY <2>1, <2>2, <2>4 DEF MediaInv, MediaTypeOK, EntryHasFile
  <2>7. ASSUME NEW p \in disk' \ kept'
        PROVE  \E f \in Delivery : PathOf[f] = p /\ (handler'[f] \in {"writing", "written", "seen"} \/ f \in refs' \cup removing')
    <3>1. p \in disk \ kept /\ p # PathOf[e] BY <2>1, <2>7
    <3>2. PICK f \in Delivery : PathOf[f] = p /\ (handler[f] \in {"writing", "written", "seen"} \/ f \in refs \cup removing)
      BY <3>1 DEF MediaInv, FilesHaveOwners
    <3> QED BY <2>1, <3>1, <3>2
  <2> QED BY <2>1, <2>3, <2>5, <2>6, <2>7 DEF MediaInv, EntryHasFile, FilesHaveOwners, Alone
<1>9. CASE CollectExpired
  BY <1>9 DEF CollectExpired, MediaInv, MediaTypeOK, EntryHasFile, FilesHaveOwners, Alone
<1>10. CASE MediaRestart
  <2>1. runs' \in 1..MaxRun
    <3>1. runs \in 1..MaxRun /\ runs < MaxRun /\ runs' = runs + 1 BY <1>10 DEF MediaRestart, MediaInv, MediaTypeOK
    <3> QED BY <1>0, <3>1
  <2> QED BY <1>10, <2>1 DEF MediaRestart, Fresh, MediaInv, MediaTypeOK, EntryHasFile, FilesHaveOwners
<1>11. CASE UNCHANGED mediaVars
  BY <1>11 DEF mediaVars, MediaInv, MediaTypeOK, EntryHasFile, FilesHaveOwners, Alone
<1> QED BY <1>1, <1>2, <1>3, <1>4, <1>5, <1>6, <1>7, <1>8, <1>9, <1>10, <1>11 DEF MediaNext

\* The clean-up removes files without the lock: a reference has its file all the same, when no other
\* delivery names its file alike, and a file is somebody's as long as no removal fails and the process
\* goes on.
THEOREM MediaFilesKept == MediaSpec => [](MediaTypeOK /\ EntryHasFile /\ FilesHaveOwners)
<1>1. MediaInv => MediaTypeOK /\ EntryHasFile /\ FilesHaveOwners
  BY DEF MediaInv
<1> QED BY <1>1, MediaInitInv, MediaStep, PTL DEF MediaSpec

(***************************************************************************)
(* The ten side by side, as MCServices has them                            *)
(***************************************************************************)

ServicesInv ==
    /\ SubInv /\ CredInv /\ BillInv /\ WInv /\ MInv /\ AInv
    /\ AccountInv /\ LastInv /\ ManagedInv /\ MediaInv

LEMMA ServicesInitInv == ServicesInit => ServicesInv
<1>1. WorkersInit => WInv BY InitWInv
<1>2. McpInit => MInv BY InitMInv
<1>3. AuthInit => AInv BY InitAInv
<1> QED BY <1>1, <1>2, <1>3, SubInitInv, CredInitInv, BillInitInv, AccountInitInv, LastInitInv,
           ManagedInitInv, MediaInitInv DEF ServicesInit, ServicesInv

\* The part that takes a step keeps its invariant, the others stand still.
LEMMA ServicesStep == ServicesInv /\ [ServicesNext]_servicesVars => ServicesInv'
<1>1. SubInv /\ ([SubNext]_subVars) => SubInv' BY SubStep
<1>2. CredInv /\ ([CredNext]_credVars) => CredInv' BY CredStep
<1>3. BillInv /\ ([BillNext]_billVars) => BillInv' BY BillStep
<1>4. WInv /\ ([WorkersNext]_workersVars) => WInv' BY WInvStep
<1>5. MInv /\ ([McpNext]_mcpVars) => MInv' BY MInvStep
<1>6. AInv /\ ([AuthNext]_authVars) => AInv' BY AInvStep
<1>7. AccountInv /\ ([AccountNext]_accountVars) => AccountInv' BY AccountStep
<1>8. LastInv /\ ([LastNext]_lastVars) => LastInv' BY LastStep
<1>9. ManagedInv /\ ([ManagedNext]_managedVars) => ManagedInv' BY ManagedStep
<1>10. MediaInv /\ ([MediaNext]_mediaVars) => MediaInv' BY MediaStep
<1>11. SUFFICES ASSUME [ServicesNext]_servicesVars
                PROVE  /\ [SubNext]_subVars /\ [CredNext]_credVars /\ [BillNext]_billVars /\ [WorkersNext]_workersVars
                       /\ [McpNext]_mcpVars /\ [AuthNext]_authVars /\ [AccountNext]_accountVars /\ [LastNext]_lastVars
                       /\ [ManagedNext]_managedVars /\ [MediaNext]_mediaVars
  BY <1>1, <1>2, <1>3, <1>4, <1>5, <1>6, <1>7, <1>8, <1>9, <1>10 DEF ServicesInv
<1> QED BY <1>11 DEF ServicesNext, servicesVars, Delegating, Connecting, Paying, Working, Administrating, Tooling,
     Beating, Hosting, Authorizing, Filing

\* The variables of the ten keep their types, also where one handler writes back what it read before
\* another one's write.
THEOREM ServicesTypes == ServicesSpec => []TypeOK
<1>1. ServicesInv => TypeOK
  BY SubInvTypes, CredInvTypes, BillInvTypes
     DEF ServicesInv, WInv, MInv, AInv, AccountInv, LastInv, ManagedInv, MediaInv, SubInv, CredInv, TypeOK
<1> QED BY ServicesInitInv, ServicesStep, <1>1, PTL DEF ServicesSpec
=============================================================================
