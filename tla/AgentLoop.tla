----------------------------- MODULE AgentLoop -----------------------------
(***************************************************************************)
(* Turns of the agent loop (pkg/agent/loop.go) and the message tool        *)
(* (pkg/tools/message.go) they share.  Three goroutines run turns: Run     *)
(* takes inbound messages from the bus, the cron service and the heartbeat *)
(* service call in from goroutines of their own.  Every agent has one      *)
(* message tool, with a default chat and a sentInRound flag that nothing   *)
(* protects.  Run publishes a turn's response unless the DEFAULT agent's   *)
(* tool says that it has sent something in this round.                     *)
(*                                                                         *)
(* A write of the tool's three fields is one step here.  A response of the *)
(* model with several tool calls is treated like several responses with    *)
(* one call each.                                                          *)
(*                                                                         *)
(* Not every call a turn makes comes back: tools of MCP servers, models    *)
(* reached through a command-line program and Run's publishing run with    *)
(* the context of Run or of the service, which has no deadline.            *)
(***************************************************************************)
EXTENDS Naturals

CONSTANTS
    Agent,          \* agents of the registry
    Default,        \* the default agent
    Chat,           \* external chats (channel and chat id)
    MaxTurns,       \* turns in a behaviour
    MaxIterations,  \* agent.MaxIterations
    MaxLLMRetries,  \* maxRetries of runLLMIteration
    None

ASSUME AgentAssumption == Default \in Agent /\ None \notin Agent \cup Chat
ASSUME BoundAssumption == MaxTurns \in Nat /\ MaxIterations \in Nat /\ MaxLLMRetries \in Nat

Thread == {"run", "cron", "heartbeat"}
Kind == {"user", "command", "system", "cron", "heartbeat"}

VARIABLES
    tool,    \* the message tool of each agent: default chat and sentInRound
    thread,  \* the goroutines that run turns, each with the turn it runs
    turns,   \* number of turns begun
    last,    \* the turn settled last, as the properties see it
    blocked  \* the goroutines that wait in a call without a deadline

vars == <<tool, thread, turns, last, blocked>>

\* History kept with a turn.  shared: another turn of the same agent ran at the same
\* time.  sent: the round's last message-tool call was sent; ever: one of them was.
\* stray: a message without an explicit target went to a chat other than the turn's.
Idle == [pc |-> "idle", kind |-> None, agent |-> None, chat |-> None, iter |-> 0, retry |-> 0,
         shared |-> FALSE, sent |-> FALSE, ever |-> FALSE, stray |-> FALSE]

Nothing == [kind |-> None, agent |-> None, shared |-> FALSE, sent |-> FALSE, ever |-> FALSE,
            reply |-> "none"]

Active(t) == thread[t].pc # "idle"
RunsAgent(t, a) == a # None /\ Active(t) /\ thread[t].agent = a

----------------------------------------------------------------------------
Init ==
    /\ tool = [a \in Agent |-> [chat |-> None, sent |-> FALSE]]
    /\ thread = [t \in Thread |-> Idle]
    /\ turns = 0
    /\ last = Nothing
    /\ blocked = {}

\* Mutant: only the first context is kept.
SetContextOnce(a, c) == [tool EXCEPT ![a].chat = IF @ = None THEN c ELSE @, ![a].sent = FALSE]

\* Mutant: the flag is not reset.
SetContextKeep(a, c) == [tool EXCEPT ![a].chat = c]

\* MessageTool.SetContext.
SetContext(a, c) == [tool EXCEPT ![a] = [chat |-> c, sent |-> FALSE]]

\* A turn begins.  Run handles user and system messages, the other two goroutines
\* their own.  A command is answered at once, before any tool is touched; every
\* other turn sets the context of its agent's message tool.  System messages and
\* heartbeats always go to the default agent.  (A system message from an internal
\* channel is only logged.)
Begin(t, k, a, c) ==
    /\ ~Active(t) /\ turns < MaxTurns
    /\ \/ t = "run" /\ k \in {"user", "command", "system"}
       \/ t = "cron" /\ k \in {"cron", "command"}
       \/ t = "heartbeat" /\ k = "heartbeat"
    /\ k \in {"system", "heartbeat"} => a = Default
    /\ (k = "command") <=> (a = None)
    /\ turns' = turns + 1
    /\ tool' = IF k = "command" THEN tool ELSE SetContext(a, c)
    /\ thread' = [s \in Thread |->
           IF s = t THEN [Idle EXCEPT !.pc = IF k = "command" THEN "respond" ELSE "llm",
                             !.kind = k, !.agent = a, !.chat = c,
                             !.shared = \E r \in Thread : RunsAgent(r, a)]
           ELSE [thread[s] EXCEPT !.shared = @ \/ RunsAgent(s, a)]]
    /\ UNCHANGED <<last, blocked>>

\* The model answers or the iterations are used up: the turn has its response (the
\* answer or the default response).
Finish(t) ==
    /\ thread[t].pc = "llm"
    /\ thread' = [thread EXCEPT ![t].pc = "respond"]
    /\ UNCHANGED <<tool, turns, last>>

\* The model call fails for good; the error text takes the place of the response.
Fail(t) ==
    /\ thread[t].pc = "llm" /\ thread[t].iter < MaxIterations
    /\ thread' = [thread EXCEPT ![t].pc = "failed"]
    /\ UNCHANGED <<tool, turns, last>>

\* A timeout is retried after a pause, a context-window error after forceCompression.
RetryLLM(t) ==
    /\ thread[t].pc = "llm" /\ thread[t].iter < MaxIterations
    /\ thread[t].retry < MaxLLMRetries
    /\ thread' = [thread EXCEPT ![t].retry = @ + 1]
    /\ UNCHANGED <<tool, turns, last>>

\* Mutant: tool calls do not count as iterations.
CallOtherToolFree(t) ==
    /\ thread[t].pc = "llm" /\ thread[t].iter < MaxIterations
    /\ thread' = [thread EXCEPT ![t].retry = 0]
    /\ UNCHANGED <<tool, turns, last>>

\* The model asks for tools other than the message tool.
CallOtherTool(t) ==
    /\ thread[t].pc = "llm" /\ thread[t].iter < MaxIterations
    /\ thread' = [thread EXCEPT ![t].iter = @ + 1, ![t].retry = 0]
    /\ UNCHANGED <<tool, turns, last>>

\* The model asks for the message tool: ExecuteWithContext sets its context again ...
CallMessageTool(t) ==
    /\ thread[t].pc = "llm" /\ thread[t].iter < MaxIterations
    /\ thread' = [thread EXCEPT ![t].pc = "execute", ![t].iter = @ + 1, ![t].retry = 0,
                                ![t].sent = FALSE]
    /\ tool' = SetContext(thread[t].agent, thread[t].chat)
    /\ UNCHANGED <<turns, last>>

\* ... and Execute publishes to the target the model names, or to the default chat.
SendMessage(t, explicit) ==
    LET a == thread[t].agent IN
    /\ thread[t].pc = "execute"
    /\ tool' = [tool EXCEPT ![a].sent = TRUE]
    /\ thread' = [thread EXCEPT ![t].pc = "llm", ![t].sent = TRUE, ![t].ever = TRUE,
                    ![t].stray = @ \/ (~explicit /\ tool[a].chat # thread[t].chat)]
    /\ UNCHANGED <<turns, last>>

\* Bad arguments and a failed publish leave the flag alone.
SendNothing(t) ==
    /\ thread[t].pc = "execute"
    /\ thread' = [thread EXCEPT ![t].pc = "llm"]
    /\ UNCHANGED <<tool, turns, last>>

\* What becomes of the response.  runAgentLoop publishes that of a system message to
\* the chat it came from, unless the model failed; what Run publishes for it goes to
\* the "system" channel, which nobody reads.  Run publishes the others unless the
\* default agent's tool has sent.  The callers of ProcessDirectWithChannel and
\* ProcessHeartbeat drop it.
Respond(t) ==
    LET turn == thread[t]
        reply == IF turn.kind = "system"
                 THEN IF turn.pc = "failed" THEN "discarded" ELSE "published"
                 ELSE IF t # "run" THEN "discarded"
                 ELSE IF tool[Default].sent THEN "skipped" ELSE "published" IN
    /\ turn.pc \in {"respond", "failed"}
    /\ thread' = [thread EXCEPT ![t] = Idle]
    /\ last' = [kind |-> turn.kind, agent |-> turn.agent, shared |-> turn.shared,
                sent |-> turn.sent, ever |-> turn.ever, reply |-> reply]
    /\ UNCHANGED <<tool, turns>>

\* The turn makes a call that has no deadline: CallTool of an MCP server (mcp/manager.go),
\* Chat of a provider that runs a program (claude_cli_provider.go), the publishing of a
\* tool's output for the user, or Run's publishing of a response while the bus is full.
\* The message tool's own publishing gives up after five seconds.
Block(t) ==
    /\ t \notin blocked
    /\ \/ thread[t].pc = "llm" /\ thread[t].iter < MaxIterations
       \/ thread[t].pc \in {"respond", "failed"} /\ t = "run"
    /\ blocked' = blocked \cup {t}
    /\ UNCHANGED <<tool, thread, turns, last>>

\* The next step of a turn.  That of a blocked one is what the call it waits for, if it
\* ever comes back, leads to.
Step(t) ==
    /\ \/ Finish(t) \/ Fail(t) \/ RetryLLM(t) \/ CallOtherTool(t)
       \/ CallMessageTool(t) \/ SendNothing(t) \/ Respond(t)
       \/ \E explicit \in BOOLEAN : SendMessage(t, explicit)
    /\ blocked' = blocked \ {t}

Next ==
    \E t \in Thread :
        \/ Step(t) \/ Block(t)
        \/ \E k \in Kind, a \in Agent \cup {None}, c \in Chat : Begin(t, k, a, c)

Spec == Init /\ [][Next]_vars

\* A goroutine in a turn keeps going unless it is blocked: nothing forces a call without
\* a deadline to return.
FairSpec == Spec /\ \A t \in Thread : WF_vars(t \notin blocked /\ Step(t))

----------------------------------------------------------------------------
(* Properties                                                              *)

TurnType ==
    [pc : {"idle", "llm", "execute", "respond", "failed"}, kind : Kind \cup {None},
     agent : Agent \cup {None}, chat : Chat \cup {None}, iter : 0..MaxIterations,
     retry : 0..MaxLLMRetries, shared : BOOLEAN, sent : BOOLEAN, ever : BOOLEAN, stray : BOOLEAN]

LastType ==
    [kind : Kind \cup {None}, agent : Agent \cup {None}, shared : BOOLEAN, sent : BOOLEAN,
     ever : BOOLEAN, reply : {"none", "published", "skipped", "discarded"}]

\* Every variable holds a value of its type; iterations and retries stay within the
\* configured limits.
TypeOK ==
    /\ tool \in [Agent -> [chat : Chat \cup {None}, sent : BOOLEAN]]
    /\ thread \in [Thread -> TurnType]
    /\ turns \in 0..MaxTurns
    /\ last \in LastType
    /\ blocked \subseteq Thread

\* A user message to the default agent, with no other turn of that agent under way,
\* is answered: Run skips the response exactly if the last message-tool call of this
\* round was sent, whatever earlier rounds left in the flag.
RoundAnswered ==
    (last.kind = "user" /\ last.agent = Default /\ ~last.shared)
        => (last.reply = "skipped") = last.sent

\* A message-tool call without an explicit target reaches the chat of its own turn,
\* unless another turn of the same agent ran at the same time.
OwnChat == \A t \in Thread : thread[t].stray => thread[t].shared

\* A goroutine is always done with its turns some day, unless one of them waits for ever
\* in a call that has no deadline: iterations and retries do not add up to an endless turn,
\* and a turn that hangs stops no other goroutine's.
TurnEnds == \A t \in Thread : []<>~Active(t) \/ <>[](t \in blocked)

\* The comments in Run and processMessage: a response is withheld only when the
\* message tool has sent something during this very round.
SkippedOnlyIfSent == last.reply = "skipped" => last.ever
=============================================================================
