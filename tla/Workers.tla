------------------------------- MODULE Workers -------------------------------
(***************************************************************************)
(* The pool of workers (pkg/worker) on the NATS bus (pkg/bus/nats_bus.go): *)
(* JetStream holds the inbound messages, every consumer goroutine fetches  *)
(* one, acknowledges it, hands it to the processor and publishes the       *)
(* answer.  A message that is not acknowledged in time is delivered again. *)
(* The process may crash and be started anew; JetStream keeps its stream.  *)
(* Left out: bodies that cannot be decoded, the limit of 24 hours on a     *)
(* message's age, what happens to the answers, and counters.               *)
(***************************************************************************)
EXTENDS Naturals, FiniteSets

CONSTANTS
    Message,      \* inbound messages
    Worker,       \* of the pool
    Loop,         \* goroutines running consumeLoop
    WorkerOf,     \* [Loop -> Worker]
    MaxDeliver,   \* NATSConfig.MaxDeliver
    MaxRestart,   \* bound: crashes
    NoMessage

ASSUME WorkersAssumption ==
    /\ WorkerOf \in [Loop -> Worker]
    /\ MaxDeliver \in Nat \ {0} /\ MaxRestart \in Nat
    /\ NoMessage \notin Message

VARIABLES
    stream,     \* JetStream: where each message is
    delivered,  \* JetStream: how often it was delivered
    worker,     \* Worker: Run's progress, the stopped flag, its context
    loop,       \* consumeLoop: the next step and the message at hand
    busOpen,    \* NATSBus.closed is not set
    restarts,   \* crashes so far
    handled,    \* history: messages whose processing has come to its end
    cutShort    \* history: messages at hand when the process died

workersVars == <<stream, delivered, worker, loop, busOpen, restarts, handled, cutShort>>

NewWorker == [run |-> "new", stopped |-> FALSE, canceled |-> FALSE]
NotLooping == [step |-> "off", msg |-> NoMessage]

WorkersInit ==
    /\ stream = [m \in Message |-> "unpublished"]
    /\ delivered = [m \in Message |-> 0]
    /\ worker = [w \in Worker |-> NewWorker]
    /\ loop = [l \in Loop |-> NotLooping]
    /\ busOpen = TRUE
    /\ restarts = 0
    /\ handled = {} /\ cutShort = {}

streamVars == <<stream, delivered>>
historyVars == <<handled, cutShort>>

(***************************************************************************)
(* JetStream                                                               *)
(***************************************************************************)

\* A process publishes a message, and JetStream has stored it.
PublishMessage(m) ==
    /\ stream[m] = "unpublished"
    /\ stream' = [stream EXCEPT ![m] = "ready"]
    /\ UNCHANGED <<delivered, worker, loop, busOpen, restarts, historyVars>>

\* AckWait is over: the message may be delivered again, up to MaxDeliver times in all.
Redeliver(m) ==
    /\ stream[m] = "pending"
    /\ stream' = [stream EXCEPT ![m] = IF delivered[m] < MaxDeliver THEN "ready" ELSE "dead"]
    /\ UNCHANGED <<delivered, worker, loop, busOpen, restarts, historyVars>>

(***************************************************************************)
(* Run and Stop                                                            *)
(***************************************************************************)

\* Run looks at the stopped flag ...
RunBegin(w) ==
    /\ worker[w].run = "new"
    /\ worker' = [worker EXCEPT ![w].run = IF worker[w].stopped THEN "ended" ELSE "begun"]
    /\ UNCHANGED <<streamVars, loop, busOpen, restarts, historyVars>>

\* ... then makes the context Stop cancels, and starts the loops.
RunLoops(w) ==
    /\ worker[w].run = "begun"
    /\ worker' = [worker EXCEPT ![w].run = "running"]
    /\ loop' = [l \in Loop |->
           IF WorkerOf[l] = w THEN [step |-> "consume", msg |-> NoMessage] ELSE loop[l]]
    /\ UNCHANGED <<streamVars, busOpen, restarts, historyVars>>

\* Once all loops have ended Run returns.
RunEnd(w) ==
    /\ worker[w].run = "running"
    /\ \A l \in Loop : WorkerOf[l] = w => loop[l].step = "off"
    /\ worker' = [worker EXCEPT ![w].run = "ended"]
    /\ UNCHANGED <<streamVars, loop, busOpen, restarts, historyVars>>

\* Stop sets the flag and cancels the context if there is one yet.
StopWorker(w) ==
    /\ ~worker[w].stopped
    /\ worker' = [worker EXCEPT ![w].stopped = TRUE,
                                ![w].canceled = worker[w].run \in {"running", "ended"}]
    /\ UNCHANGED <<streamVars, loop, busOpen, restarts, historyVars>>

CloseNATS ==
    /\ busOpen
    /\ busOpen' = FALSE
    /\ UNCHANGED <<streamVars, worker, loop, restarts, historyVars>>

(***************************************************************************)
(* consumeLoop and consume                                                 *)
(***************************************************************************)

Leaves(l) == worker[WorkerOf[l]].canceled \/ ~busOpen

Goes(l, step, m) == loop' = [loop EXCEPT ![l] = [step |-> step, msg |-> m]]

\* The loop and consume look at the context and the bus before each fetch.
ConsumeInbound(l) ==
    /\ loop[l].step = "consume"
    /\ Goes(l, IF Leaves(l) THEN "off" ELSE "fetch", NoMessage)
    /\ UNCHANGED <<streamVars, worker, busOpen, restarts, historyVars>>

\* Fetch does not know the context: it returns a message even if the worker is being stopped.
Fetch(l) ==
    /\ loop[l].step = "fetch"
    /\ \E m \in Message :
          /\ stream[m] = "ready"
          /\ stream' = [stream EXCEPT ![m] = "pending"]
          /\ delivered' = [delivered EXCEPT ![m] = @ + 1]
          /\ Goes(l, "ack", m)
    /\ UNCHANGED <<worker, busOpen, restarts, historyVars>>

\* MUTANT: no message in time ends the loop.
FetchEndsEmpty(l) ==
    /\ loop[l].step = "fetch"
    /\ Goes(l, "off", NoMessage)
    /\ UNCHANGED <<streamVars, worker, busOpen, restarts, historyVars>>

\* There was no message within five seconds, or the fetch failed.
FetchEmpty(l) ==
    /\ loop[l].step = "fetch"
    /\ Goes(l, "consume", NoMessage)
    /\ UNCHANGED <<streamVars, worker, busOpen, restarts, historyVars>>

\* MUTANT: a context that is canceled meanwhile is noticed after the acknowledgement.
AckThenLeave(l) ==
    /\ loop[l].step = "ack"
    /\ \E stored \in BOOLEAN :
          stream' = IF stored THEN [stream EXCEPT ![loop[l].msg] = "gone"] ELSE stream
    /\ IF Leaves(l) THEN Goes(l, "off", NoMessage) ELSE Goes(l, "process", loop[l].msg)
    /\ UNCHANGED <<delivered, worker, busOpen, restarts, historyVars>>

\* The message is acknowledged before it is processed; an acknowledgement that fails is
\* logged, and the message is processed all the same.
Ack(l) ==
    /\ loop[l].step = "ack"
    /\ \E stored \in BOOLEAN :
          stream' = IF stored THEN [stream EXCEPT ![loop[l].msg] = "gone"] ELSE stream
    /\ Goes(l, "process", loop[l].msg)
    /\ UNCHANGED <<delivered, worker, busOpen, restarts, historyVars>>

\* processMessage: an answer, an error (a canceled context and the timeout are errors), or
\* nothing; both of the former are published ...
processMessage(l) ==
    /\ loop[l].step = "process"
    /\ handled' = handled \cup {loop[l].msg}
    /\ \/ Goes(l, "publish", loop[l].msg)
       \/ Goes(l, "consume", NoMessage)
    /\ UNCHANGED <<streamVars, worker, busOpen, restarts, cutShort>>

\* ... within five seconds, or not at all.
PublishAnswer(l) ==
    /\ loop[l].step = "publish"
    /\ Goes(l, "consume", NoMessage)
    /\ UNCHANGED <<streamVars, worker, busOpen, restarts, historyVars>>

(***************************************************************************)
(* Crash and restart with a new pool                                       *)
(***************************************************************************)

InHand(l) == loop[l].step \in {"process", "publish"}

Restart ==
    /\ restarts < MaxRestart
    /\ restarts' = restarts + 1
    /\ cutShort' = cutShort \cup {loop[l].msg : l \in {k \in Loop : InHand(k)}}
    /\ worker' = [w \in Worker |-> NewWorker]
    /\ loop' = [l \in Loop |-> NotLooping]
    /\ busOpen' = TRUE
    /\ UNCHANGED <<streamVars, handled>>

(***************************************************************************)
(* Specification                                                           *)
(***************************************************************************)

Looping(l) ==
    \/ ConsumeInbound(l) \/ Fetch(l) \/ FetchEmpty(l)
    \/ Ack(l) \/ processMessage(l) \/ PublishAnswer(l)

WorkersNext ==
    \/ \E m \in Message : PublishMessage(m) \/ Redeliver(m)
    \/ \E w \in Worker : RunBegin(w) \/ RunLoops(w) \/ RunEnd(w) \/ StopWorker(w)
    \/ \E l \in Loop : Looping(l)
    \/ CloseNATS \/ Restart

WorkersSpec == WorkersInit /\ [][WorkersNext]_workersVars

\* Fetch waits five seconds at most, the processor's context has a timeout, and so has the
\* publication of the answer; a message that stays ready is fetched some time, for each
\* fetch that finds nothing is followed by another one; AckWait elapses.
WorkersFairness ==
    /\ \A l \in Loop :
          /\ WF_workersVars(Looping(l))
          /\ SF_workersVars(Fetch(l))
    /\ \A w \in Worker : WF_workersVars(RunBegin(w) \/ RunLoops(w)) /\ WF_workersVars(RunEnd(w))
    /\ \A m \in Message : WF_workersVars(Redeliver(m))

WorkersFairSpec == WorkersSpec /\ WorkersFairness

(***************************************************************************)
(* Properties                                                              *)
(***************************************************************************)

WorkersTypeOK ==
    /\ stream \in [Message -> {"unpublished", "ready", "pending", "gone", "dead"}]
    /\ delivered \in [Message -> 0..MaxDeliver]
    /\ worker \in [Worker -> [run : {"new", "begun", "running", "ended"},
                              stopped : BOOLEAN, canceled : BOOLEAN]]
    /\ loop \in [Loop -> [step : {"off", "consume", "fetch", "ack", "process", "publish"},
                          msg : Message \cup {NoMessage}]]
    /\ busOpen \in BOOLEAN /\ restarts \in 0..MaxRestart
    /\ handled \subseteq Message /\ cutShort \subseteq Message

\* A message the stream has given up was processed, or is being processed, or was at hand
\* when the process died: stopping, closing the bus, a lost acknowledgement and a second
\* delivery lose none.
TakenIsProcessed ==
    \A m \in Message : stream[m] = "gone" =>
        m \in handled \cup cutShort \/ \E l \in Loop : InHand(l) /\ loop[l].msg = m

\* A message in the stream is taken out or delivered until MaxDeliver is reached, as long as
\* a worker that has been started is not stopped and the bus is open: no fetch that finds
\* nothing, error or lost acknowledgement ends its loops.
Served(w) == worker[w].run \in {"running", "ended"} /\ ~worker[w].stopped /\ busOpen
QueueServed ==
    \A m \in Message : \A w \in Worker :
        []<>(stream[m] \notin {"ready", "pending"} \/ ~Served(w))

\* "NATSBus implements the Bus interface using NATS JetStream for durable, at-least-once
\* message delivery": a message the stream has given up has been processed, or is being.
AtLeastOnce ==
    \A m \in Message : stream[m] = "gone" =>
        m \in handled \/ \E l \in Loop : InHand(l) /\ loop[l].msg = m

\* "Stop initiates graceful shutdown": a worker that is stopped comes to its end.
StopStops == \A w \in Worker : worker[w].stopped ~> (worker[w].run = "ended" \/ ~worker[w].stopped)
=============================================================================
