------------------------------ MODULE Subagents ------------------------------
(***************************************************************************)
(* Tasks in the background (pkg/tools/subagent.go, spawn.go): a turn calls *)
(* the spawn tool, the SubagentManager runs the task in a goroutine and    *)
(* reports its end as a system message on the inbound queue of the bus,    *)
(* which AgentLoop.Run answers with a turn in the chat the task came from. *)
(* The manager publishes with its mutex held, and the only consumer of the *)
(* queue needs that mutex to spawn.  One agent: its manager and tool are   *)
(* shared by the turns of Run and those of the cron and heartbeat          *)
(* goroutines.                                                             *)
(***************************************************************************)
EXTENDS Naturals, Sequences

CONSTANTS
    UserChat,   \* external chats users write in
    SideChat,   \* external chats cron jobs and the heartbeat work for
    Side,       \* goroutines other than Run that run turns
    MaxTask,    \* bound: tasks spawned
    MaxUser,    \* bound: messages of users
    Capacity,   \* of the inbound queue
    NoChat

Chat == UserChat \cup SideChat

ASSUME SubagentAssumption ==
    /\ MaxTask \in Nat /\ MaxUser \in Nat /\ Capacity \in Nat \ {0}
    /\ NoChat \notin Chat /\ "run" \notin Side

Turner == Side \cup {"run"}
Task == 1..MaxTask
Free == 0                   \* nobody holds the manager's mutex
Inbound == [task : 0..MaxTask, chat : Chat]    \* task 0: a message of a user

VARIABLES
    inbound,   \* the bus
    written,   \* messages users have sent so far
    turn,      \* per goroutine: step, its chat, and the origin it has read
    origin,    \* SpawnTool.originChannel and originChatID
    task,      \* the manager's tasks and their goroutines
    mutex,     \* the task that holds SubagentManager.mu
    running    \* the context of Run is not canceled and the bus is open

subVars == <<inbound, written, turn, origin, task, mutex, running>>

\* alone: history, no other turn set the tool's context between SetContext and Execute.
NoTurn == [step |-> "idle", chat |-> NoChat, origin |-> NoChat, alone |-> TRUE]
NoneYet == [step |-> "none", origin |-> NoChat, from |-> NoChat, alone |-> TRUE, told |-> FALSE]

SubInit ==
    /\ inbound = <<>> /\ written = 0
    /\ turn = [t \in Turner |-> NoTurn]
    /\ origin = NoChat
    /\ task = [k \in Task |-> NoneYet]
    /\ mutex = Free
    /\ running = TRUE

(***************************************************************************)
(* Turns                                                                   *)
(***************************************************************************)

\* A channel publishes a message of a user.
UserMessage(c) ==
    /\ running /\ written < MaxUser /\ Len(inbound) < Capacity
    /\ written' = written + 1
    /\ inbound' = Append(inbound, [task |-> 0, chat |-> c])
    /\ UNCHANGED <<turn, origin, task, mutex, running>>

\* Another turn that is about to read the tool's context loses it.
Interfered == [s \in Turner |-> [turn[s] EXCEPT !.alone = @ /\ turn[s].step # "execute"]]

\* updateToolContexts, as a turn for chat c begins.
BeginTurn(t, c) ==
    /\ origin' = c
    /\ turn' = [Interfered EXCEPT ![t] = [NoTurn EXCEPT !.step = "llm", !.chat = c]]

\* Run takes the next message; processSystemMessage answers a report in the chat it names.
Consume ==
    /\ running /\ turn["run"].step = "idle" /\ inbound # <<>>
    /\ inbound' = Tail(inbound)
    /\ BeginTurn("run", Head(inbound).chat)
    /\ task' = IF Head(inbound).task = 0 THEN task
               ELSE [task EXCEPT ![Head(inbound).task].told = TRUE]
    /\ UNCHANGED <<written, mutex, running>>

\* The cron service or the heartbeat starts a turn.
SideTurn(t, c) ==
    /\ t \in Side /\ turn[t].step = "idle"
    /\ BeginTurn(t, c)
    /\ UNCHANGED <<inbound, written, task, mutex, running>>

\* MUTANT: the context set as the turn began has to do.
SetContextNever(t) ==
    /\ turn[t].step = "llm"
    /\ turn' = [turn EXCEPT ![t].step = "execute"]
    /\ UNCHANGED <<inbound, written, origin, task, mutex, running>>

\* The model calls the spawn tool; ExecuteWithContext sets its context once more ...
SetContextSpawn(t) ==
    /\ turn[t].step = "llm"
    /\ origin' = turn[t].chat
    /\ turn' = [Interfered EXCEPT ![t].step = "execute"]
    /\ UNCHANGED <<inbound, written, task, mutex, running>>

\* ... Execute reads the origin as it calls Spawn ...
Execute(t) ==
    /\ turn[t].step = "execute"
    /\ turn' = [turn EXCEPT ![t].step = "spawn", ![t].origin = origin]
    /\ UNCHANGED <<inbound, written, origin, task, mutex, running>>

\* ... and Spawn, once it has the mutex, starts the task.
Spawn(t) ==
    /\ turn[t].step = "spawn" /\ mutex = Free
    /\ turn' = [turn EXCEPT ![t] = [NoTurn EXCEPT !.step = "llm", !.chat = turn[t].chat]]
    /\ \/ \E k \in Task :
            /\ task[k].step = "none" /\ \A j \in Task : j < k => task[j].step # "none"
            /\ task' = [task EXCEPT ![k] = [NoneYet EXCEPT !.step = "start",
                   !.origin = turn[t].origin, !.from = turn[t].chat, !.alone = turn[t].alone]]
       \/ (\A k \in Task : task[k].step # "none") /\ UNCHANGED task
    /\ UNCHANGED <<inbound, written, origin, mutex, running>>

EndTurn(t) ==
    /\ turn[t].step = "llm"
    /\ turn' = [turn EXCEPT ![t] = NoTurn]
    /\ UNCHANGED <<inbound, written, origin, task, mutex, running>>

(***************************************************************************)
(* runTask                                                                 *)
(***************************************************************************)

\* A context that is canceled already ends the task without a report.  Otherwise the
\* options are read under the mutex and the tool loop runs.
StartTask(k) ==
    /\ task[k].step = "start" /\ mutex = Free
    /\ \/ task' = [task EXCEPT ![k].step = "loop"]
       \/ ~running /\ task' = [task EXCEPT ![k].step = "done"]
    /\ UNCHANGED <<inbound, written, turn, origin, mutex, running>>

\* RunToolLoop has returned, with an answer, an error or a canceled context: the mutex is
\* taken and the result recorded.
FinishTask(k) ==
    /\ task[k].step = "loop" /\ mutex = Free
    /\ mutex' = k
    /\ task' = [task EXCEPT ![k].step = "report"]
    /\ UNCHANGED <<inbound, written, turn, origin, running>>

\* MUTANT: the report is published without a timeout.
ReportPatiently(k) ==
    /\ task[k].step = "report"
    /\ \/ /\ running /\ Len(inbound) < Capacity
          /\ inbound' = Append(inbound, [task |-> k, chat |-> task[k].origin])
       \/ ~running /\ UNCHANGED inbound
    /\ task' = [task EXCEPT ![k].step = "done"]
    /\ mutex' = Free
    /\ UNCHANGED <<written, turn, origin, running>>

\* PublishInbound: the queue has room, or five seconds pass, or the bus is closed; only
\* then is the mutex released.
Report(k) ==
    /\ task[k].step = "report"
    /\ \/ /\ running /\ Len(inbound) < Capacity
          /\ inbound' = Append(inbound, [task |-> k, chat |-> task[k].origin])
       \/ /\ ~running \/ Len(inbound) = Capacity
          /\ UNCHANGED inbound
    /\ task' = [task EXCEPT ![k].step = "done"]
    /\ mutex' = Free
    /\ UNCHANGED <<written, turn, origin, running>>

\* The gateway shuts down.
Shutdown ==
    /\ running
    /\ running' = FALSE
    /\ inbound' = <<>>
    /\ UNCHANGED <<written, turn, origin, task, mutex>>

SubNext ==
    \/ \E c \in UserChat : UserMessage(c)
    \/ Consume
    \/ \E t \in Side, c \in SideChat : SideTurn(t, c)
    \/ \E t \in Turner : SetContextSpawn(t) \/ Execute(t) \/ Spawn(t) \/ EndTurn(t)
    \/ \E k \in Task : StartTask(k) \/ FinishTask(k) \/ Report(k)
    \/ Shutdown

SubSpec == SubInit /\ [][SubNext]_subVars

\* A waiting goroutine gets the mutex when it stays free, and PublishInbound has a timeout.
SubFairness ==
    /\ \A t \in Turner : WF_subVars(Spawn(t))
    /\ \A k \in Task : WF_subVars(Report(k))

SubFairSpec == SubSpec /\ SubFairness

(***************************************************************************)
(* Properties                                                              *)
(***************************************************************************)

SubTypeOK ==
    /\ inbound \in Seq(Inbound) /\ Len(inbound) <= Capacity /\ written \in 0..MaxUser
    /\ turn \in [Turner -> [step : {"idle", "llm", "execute", "spawn"},
                            chat : Chat \cup {NoChat}, origin : Chat \cup {NoChat},
                            alone : BOOLEAN]]
    /\ origin \in Chat \cup {NoChat}
    /\ task \in [Task -> [step : {"none", "start", "loop", "report", "done"},
                          origin : Chat \cup {NoChat}, from : Chat \cup {NoChat},
                          alone : BOOLEAN, told : BOOLEAN]]
    /\ mutex \in Task \cup {Free} /\ running \in BOOLEAN

\* A turn that spawns gets the mutex: Run waits for a task that holds it, and that task
\* waits for Run to make room in the queue, until its publish times out.
SpawnReturns == \A t \in Turner : []<>(turn[t].step # "spawn")

\* A report goes to the chat whose turn spawned the task, though turns of the same agent
\* run at the same time - unless one of them sets the tool's context just between
\* SetContext and Execute of the other; and the queue holds a report once.
ReportsHome ==
    /\ \A k \in Task : task[k].alone => task[k].origin = task[k].from
    /\ \A i \in DOMAIN inbound : inbound[i].task # 0 =>
           /\ inbound[i].chat = task[inbound[i].task].origin
           /\ ~task[inbound[i].task].told
           /\ \A j \in DOMAIN inbound : j # i => inbound[j].task # inbound[i].task
=============================================================================
