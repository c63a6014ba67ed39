------------------------------- MODULE WeComBot -------------------------------
(***************************************************************************)
(* The WeCom AI Bot channel (pkg/channels/wecom/aibot.go).  WeCom polls    *)
(* for the answer to a message: each text message becomes a stream task,   *)
(* found by its stream id when WeCom polls (streamTasks) and by its chat   *)
(* when the agent's reply comes (chatTasks, oldest first).  After 30       *)
(* seconds a poll closes the stream with a notice and the reply goes to    *)
(* the message's response_url instead, which may be used once.             *)
(* One chat; the agent behind the bus answers messages in turn, each with  *)
(* any number of messages or none, sent by the channel's one worker.       *)
(***************************************************************************)
EXTENDS Naturals, Sequences, FiniteSets

CONSTANTS
    Text,       \* text messages of the chat, in the order they arrive: 1..n
    Poller,     \* concurrent stream callbacks
    MaxReply,   \* bound: messages the agent sends
    NoTask

ASSUME BotAssumption == Text \subseteq Nat \ {0} /\ IsFiniteSet(Text) /\ MaxReply \in Nat
                        /\ NoTask \notin Text

VARIABLES
    arrived,      \* messages a task was made for
    streamTasks,  \* tasks a poll finds
    chatTasks,    \* the chat's queue of tasks
    streamClosed, \* tasks whose stream was closed by the deadline
    finished,     \* tasks removeTask was called for
    canceled,     \* tasks whose context is canceled
    age,          \* "new", "late" (past the deadline), "old" (past its lifetime)
    answerCh,     \* replies in each task's channel (capacity 1)
    posts,        \* history: how often each response_url was used
    replies,      \* messages the agent has sent so far
    sending,      \* the worker in Send: the task it found and where it goes
    polling,      \* callbacks: the task they found and the step that is next
    botRunning

botVars == <<arrived, streamTasks, chatTasks, streamClosed, finished, canceled, age,
             answerCh, posts, replies, sending, polling, botRunning>>

NotSending == [task |-> NoTask, step |-> "idle"]
NotPolling == [task |-> NoTask, step |-> "idle"]

BotInit ==
    /\ arrived = {} /\ streamTasks = {} /\ chatTasks = <<>>
    /\ streamClosed = {} /\ finished = {} /\ canceled = {}
    /\ age = [m \in Text |-> "new"]
    /\ answerCh = [m \in Text |-> 0]
    /\ posts = [m \in Text |-> 0]
    /\ replies = 0
    /\ sending = NotSending
    /\ polling = [p \in Poller |-> NotPolling]
    /\ botRunning = TRUE

Without(q, drop) ==
    LET kept[n \in 0..Len(q)] ==
            IF n = 0 THEN <<>>
            ELSE IF q[n] \in drop THEN kept[n - 1] ELSE Append(kept[n - 1], q[n])
    IN kept[Len(q)]

(***************************************************************************)
(* Messages and polls                                                      *)
(***************************************************************************)

\* handleTextMessage: the task goes into both maps; the callback goes on as a first poll.
handleTextMessage(p, m) ==
    /\ botRunning /\ polling[p].step = "idle"
    /\ m \notin arrived /\ \A n \in Text : n < m => n \in arrived
    /\ arrived' = arrived \cup {m}
    /\ streamTasks' = streamTasks \cup {m}
    /\ chatTasks' = Append(chatTasks, m)
    /\ polling' = [polling EXCEPT ![p] = [task |-> m, step |-> "take"]]
    /\ UNCHANGED <<streamClosed, finished, canceled, age, answerCh, posts, replies,
                   sending, botRunning>>

\* handleStreamMessage finds the task, or answers that there is none.
handleStreamMessage(p, m) ==
    /\ polling[p].step = "idle" /\ m \in streamTasks
    /\ polling' = [polling EXCEPT ![p] = [task |-> m, step |-> "take"]]
    /\ UNCHANGED <<arrived, streamTasks, chatTasks, streamClosed, finished, canceled, age,
                   answerCh, posts, replies, sending, botRunning>>

\* getStreamResponse: the reply, if there is one; else it depends on the deadline.
getStreamResponse(p) ==
    LET m == polling[p].task IN
    /\ polling[p].step = "take"
    /\ \/ /\ answerCh[m] > 0
          /\ answerCh' = [answerCh EXCEPT ![m] = @ - 1]
          /\ polling' = [polling EXCEPT ![p].step = "remove"]
       \/ /\ answerCh[m] = 0
          /\ polling' = [polling EXCEPT ![p] =
                 IF age[m] = "new" THEN NotPolling ELSE [task |-> m, step |-> "close"]]
          /\ UNCHANGED answerCh
    /\ UNCHANGED <<arrived, streamTasks, chatTasks, streamClosed, finished, canceled, age,
                   posts, replies, sending, botRunning>>

\* removeTask, as far as the maps go.
removeTask(m) ==
    /\ canceled' = canceled \cup {m}
    /\ finished' = finished \cup {m}
    /\ streamTasks' = streamTasks \ {m}
    /\ chatTasks' = Without(chatTasks, {m})

\* The callback that has taken the reply removes the task and responds with the reply.
RespondAnswer(p) ==
    /\ polling[p].step = "remove"
    /\ removeTask(polling[p].task)
    /\ polling' = [polling EXCEPT ![p] = NotPolling]
    /\ UNCHANGED <<arrived, streamClosed, age, answerCh, posts, replies, sending, botRunning>>

\* MUTANT: the closed stream's task leaves the chat's queue as well.
RespondNoticeDequeues(p) ==
    LET m == polling[p].task IN
    /\ polling[p].step = "close"
    /\ streamClosed' = streamClosed \cup {m}
    /\ chatTasks' = Without(chatTasks, {m})
    /\ polling' = [polling EXCEPT ![p] = NotPolling]
    /\ UNCHANGED <<arrived, streamTasks, finished, canceled, age, answerCh, posts, replies,
                   sending, botRunning>>

\* Past the deadline the stream is closed with a notice; the task waits in the chat's queue.
RespondNotice(p) ==
    LET m == polling[p].task IN
    /\ polling[p].step = "close"
    /\ streamClosed' = streamClosed \cup {m}
    /\ streamTasks' = streamTasks \ {m}
    /\ polling' = [polling EXCEPT ![p] = NotPolling]
    /\ UNCHANGED <<arrived, chatTasks, finished, canceled, age, answerCh, posts, replies,
                   sending, botRunning>>

(***************************************************************************)
(* Replies                                                                 *)
(***************************************************************************)

\* Send skips finished tasks at the head, takes the oldest one and looks, under the lock,
\* whether its stream is closed.  Without a task the reply is dropped.
Send ==
    /\ sending.step = "idle" /\ botRunning
    /\ replies < MaxReply
    /\ replies' = replies + 1
    /\ LET q == Without(chatTasks, IF chatTasks = <<>> THEN {} ELSE finished \cap {Head(chatTasks)})
       IN
       /\ chatTasks' = q
       /\ sending' = IF q = <<>> THEN NotSending
                     ELSE [task |-> Head(q),
                           step |-> IF Head(q) \in streamClosed THEN "post" ELSE "put"]
    /\ UNCHANGED <<arrived, streamTasks, streamClosed, finished, canceled, age, answerCh,
                   posts, polling, botRunning>>

\* MUTANT: a failed post keeps the task, for another try.
PostKeeps ==
    LET m == sending.task IN
    /\ sending.step = "post"
    /\ posts' = [posts EXCEPT ![m] = @ + 1]
    /\ sending' = NotSending
    /\ \/ removeTask(m)
       \/ UNCHANGED <<canceled, finished, streamTasks, chatTasks>>
    /\ UNCHANGED <<arrived, streamClosed, age, answerCh, replies, polling, botRunning>>

\* sendViaResponseURL posts the reply, if the message came with a URL; the task is removed
\* whether or not that worked.
Post ==
    LET m == sending.task IN
    /\ sending.step = "post"
    /\ \E used \in {0, 1} : posts' = [posts EXCEPT ![m] = @ + used]
    /\ sending' = NotSending
    /\ removeTask(m)
    /\ UNCHANGED <<arrived, streamClosed, age, answerCh, replies, polling, botRunning>>

\* The reply goes to the task's channel for the next poll, or is dropped because the task
\* was canceled; a select with both ready picks either.
Put ==
    LET m == sending.task IN
    /\ sending.step = "put"
    /\ \/ answerCh[m] = 0 /\ answerCh' = [answerCh EXCEPT ![m] = 1]
       \/ m \in canceled /\ UNCHANGED answerCh
    /\ sending' = NotSending
    /\ UNCHANGED <<arrived, streamTasks, chatTasks, streamClosed, finished, canceled, age,
                   posts, replies, polling, botRunning>>

(***************************************************************************)
(* Time, cleanup, Stop                                                     *)
(***************************************************************************)

\* 30 seconds; then 10 minutes after the stream was closed, or one hour.
Pass(m) ==
    /\ m \in arrived /\ age[m] # "old"
    /\ age' = [age EXCEPT ![m] = IF @ = "new" THEN "late" ELSE "old"]
    /\ UNCHANGED <<arrived, streamTasks, chatTasks, streamClosed, finished, canceled,
                   answerCh, posts, replies, sending, polling, botRunning>>

Tasks == streamTasks \cup {chatTasks[i] : i \in DOMAIN chatTasks}

\* MUTANT: tasks are forgotten without canceling their contexts.
cleanupKeepsContext ==
    LET Old == {m \in Tasks : age[m] = "old"} IN
    /\ botRunning /\ Old # {}
    /\ streamTasks' = streamTasks \ Old
    /\ chatTasks' = Without(chatTasks, Old)
    /\ UNCHANGED <<arrived, streamClosed, finished, canceled, age, answerCh, posts, replies,
                   sending, polling, botRunning>>

\* cleanupOldTasks, every five minutes: the old tasks leave both maps, their contexts are
\* canceled; finished ones left in the queue leave it, too.
cleanupOldTasks ==
    LET Old == {m \in Tasks : age[m] = "old"} IN
    /\ botRunning /\ Old # {}
    /\ streamTasks' = streamTasks \ Old
    /\ chatTasks' = Without(chatTasks, Old \cup finished)
    /\ canceled' = canceled \cup Old
    /\ UNCHANGED <<arrived, streamClosed, finished, age, answerCh, posts, replies,
                   sending, polling, botRunning>>

\* Stop cancels the channel's context, and with it every task's.
BotStop ==
    /\ botRunning
    /\ botRunning' = FALSE
    /\ canceled' = canceled \cup arrived
    /\ UNCHANGED <<arrived, streamTasks, chatTasks, streamClosed, finished, age, answerCh,
                   posts, replies, sending, polling>>

Poll(p) == getStreamResponse(p) \/ RespondAnswer(p) \/ RespondNotice(p)

BotNext ==
    \/ \E p \in Poller, m \in Text : handleTextMessage(p, m) \/ handleStreamMessage(p, m)
    \/ \E m \in Text : Pass(m)
    \/ \E p \in Poller : Poll(p)
    \/ Send \/ Post \/ Put
    \/ cleanupOldTasks \/ BotStop

BotSpec == BotInit /\ [][BotNext]_botVars

\* Callbacks and the worker run; time passes and the cleanup's ticker fires.  Nothing makes
\* WeCom poll or the agent answer.
BotFairness ==
    /\ \A p \in Poller : WF_botVars(Poll(p))
    /\ WF_botVars(Post) /\ WF_botVars(Put)
    /\ \A m \in Text : WF_botVars(Pass(m))
    /\ WF_botVars(cleanupOldTasks)

BotFairSpec == BotSpec /\ BotFairness

(***************************************************************************)
(* Properties                                                              *)
(***************************************************************************)

BotTypeOK ==
    /\ arrived \subseteq Text /\ streamTasks \subseteq arrived
    /\ chatTasks \in Seq(arrived)
    /\ streamClosed \subseteq arrived /\ finished \subseteq canceled /\ canceled \subseteq arrived
    /\ age \in [Text -> {"new", "late", "old"}]
    /\ answerCh \in [Text -> 0..1] /\ posts \in [Text -> Nat] /\ replies \in 0..MaxReply
    /\ sending \in [task : Text \cup {NoTask}, step : {"idle", "put", "post"}]
    /\ polling \in [Poller -> [task : Text \cup {NoTask}, step : {"idle", "take", "remove", "close"}]]
    /\ botRunning \in BOOLEAN

\* A response_url "can only be used once per callback": no second reply, poll or cleanup
\* makes Send use one again.
UrlUsedOnce == \A m \in Text : posts[m] <= 1

\* The two maps agree: a task WeCom can still poll is in its chat's queue, so a reply finds
\* it; the queue has the order of arrival and no task twice.
MapsAgree ==
    /\ \A m \in streamTasks : \E i \in DOMAIN chatTasks : chatTasks[i] = m
    /\ \A i, j \in DOMAIN chatTasks : i < j => chatTasks[i] < chatTasks[j]

\* Send never blocks for good: a poll takes the reply before it, or the cleanup or Stop
\* cancels the task.
SendReturns == []<>(sending.step = "idle")

\* "If the stream has already closed (deadline passed), it posts directly to response_url":
\* a reply in a task's channel can still be taken - the stream is open or a poll is at it -
\* unless the task was canceled.
ReplyReachable ==
    \A m \in Text : (answerCh[m] > 0 /\ m \notin canceled) =>
        m \in streamTasks \/ \E p \in Poller : polling[p] = [task |-> m, step |-> "take"]
=============================================================================
