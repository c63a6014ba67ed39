-------------------------- MODULE AgentLoopProofs --------------------------
(***************************************************************************)
(* Proofs about AgentLoop, for any agents, chats and limits: the message   *)
(* tool serves a turn correctly as long as no other turn of the same agent *)
(* runs at the same time.                                                  *)
(***************************************************************************)
EXTENDS AgentLoop, TLAPS

\* A turn that is not a command has an agent and a chat; user turns run in Run.
TurnShape ==
    \A t \in Thread :
        /\ thread[t].pc \in {"llm", "execute"} => thread[t].agent \in Agent
        /\ Active(t) => thread[t].chat \in Chat
        /\ Active(t) /\ thread[t].kind = "user" => t = "run"

\* Two turns of one agent both know that they share its tool.
SharingKnown ==
    \A s, t \in Thread :
        s # t /\ Active(s) /\ Active(t) /\ thread[s].agent \in Agent
            /\ thread[s].agent = thread[t].agent
        => thread[s].shared /\ thread[t].shared

\* The tool of an agent whose turn is alone holds that turn's chat and flag.
ToolIsTurns ==
    \A t \in Thread :
        Active(t) /\ thread[t].agent \in Agent /\ ~thread[t].shared
        => /\ tool[thread[t].agent].chat = thread[t].chat
           /\ tool[thread[t].agent].sent = thread[t].sent

\* The inductive invariant.
IInv == TypeOK /\ TurnShape /\ SharingKnown /\ ToolIsTurns /\ OwnChat /\ RoundAnswered

----------------------------------------------------------------------------
\* The initial state satisfies the invariant.
LEMMA InitIInv == Init => IInv
<1> SUFFICES ASSUME Init PROVE IInv
  OBVIOUS
<1> USE AgentAssumption, BoundAssumption
<1>1. tool \in [Agent -> [chat : Chat \cup {None}, sent : BOOLEAN]]
  BY DEF Init
<1>2. thread \in [Thread -> TurnType] /\ turns \in 0..MaxTurns
  BY DEF Init, Idle, TurnType
<1>3. last \in LastType
  BY DEF Init, Nothing, LastType
<1>4. TypeOK
  BY <1>1, <1>2, <1>3 DEF TypeOK, Init
<1>5. TurnShape /\ SharingKnown /\ ToolIsTurns /\ OwnChat /\ RoundAnswered
  BY DEF Init, TurnShape, SharingKnown, ToolIsTurns, OwnChat, RoundAnswered, Idle, Nothing, Active
<1> QED BY <1>4, <1>5 DEF IInv

\* Steps that move only a thread's program counter and counters.
LEMMA CountersKeepIInv ==
  ASSUME IInv, NEW t \in Thread, Finish(t) \/ Fail(t) \/ RetryLLM(t) \/ CallOtherTool(t),
         blocked' = blocked \ {t}
  PROVE  IInv'
<1> USE AgentAssumption, BoundAssumption DEF IInv, Thread
<1>1. CASE Finish(t)
  <2>1. TypeOK'
    BY <1>1 DEF Finish, TypeOK, TurnType
  <2>2. TurnShape' /\ OwnChat' /\ RoundAnswered'
    BY <1>1 DEF Finish, TypeOK, TurnShape, OwnChat, RoundAnswered, Active
  <2>3. SharingKnown'
    BY <1>1, SMTT(30) DEF Finish, TypeOK, SharingKnown, Active
  <2>4. ToolIsTurns'
    BY <1>1 DEF Finish, TypeOK, ToolIsTurns, Active
  <2> QED BY <2>1, <2>2, <2>3, <2>4
<1>2. CASE Fail(t)
  <2>1. TypeOK'
    BY <1>2 DEF Fail, TypeOK, TurnType
  <2>2. TurnShape' /\ OwnChat' /\ RoundAnswered'
    BY <1>2 DEF Fail, TypeOK, TurnShape, OwnChat, RoundAnswered, Active
  <2>3. SharingKnown'
    BY <1>2, SMTT(30) DEF Fail, TypeOK, SharingKnown, Active
  <2>4. ToolIsTurns'
    BY <1>2 DEF Fail, TypeOK, ToolIsTurns, Active
  <2> QED BY <2>1, <2>2, <2>3, <2>4
<1>3. CASE RetryLLM(t)
  <2>1. TypeOK'
    BY <1>3 DEF RetryLLM, TypeOK, TurnType
  <2>2. TurnShape' /\ OwnChat' /\ RoundAnswered'
    BY <1>3 DEF RetryLLM, TypeOK, TurnShape, OwnChat, RoundAnswered, Active
  <2>3. SharingKnown'
    BY <1>3, SMTT(30) DEF RetryLLM, TypeOK, SharingKnown, Active
  <2>4. ToolIsTurns'
    BY <1>3 DEF RetryLLM, TypeOK, ToolIsTurns, Active
  <2> QED BY <2>1, <2>2, <2>3, <2>4
<1>4. CASE CallOtherTool(t)
  <2>1. TypeOK'
    BY <1>4 DEF CallOtherTool, TypeOK, TurnType
  <2>2. TurnShape' /\ OwnChat' /\ RoundAnswered'
    BY <1>4 DEF CallOtherTool, TypeOK, TurnShape, OwnChat, RoundAnswered, Active
  <2>3. SharingKnown'
    BY <1>4, SMTT(30) DEF CallOtherTool, TypeOK, SharingKnown, Active
  <2>4. ToolIsTurns'
    BY <1>4 DEF CallOtherTool, TypeOK, ToolIsTurns, Active
  <2> QED BY <2>1, <2>2, <2>3, <2>4
<1> QED BY <1>1, <1>2, <1>3, <1>4

\* A turn begins: it overwrites the tool's state, and tells the other turns of its agent.
LEMMA BeginKeepsIInv ==
  ASSUME IInv, NEW t \in Thread, NEW k \in Kind, NEW a \in Agent \cup {None}, NEW c \in Chat,
         Begin(t, k, a, c)
  PROVE  IInv'
<1> USE AgentAssumption, BoundAssumption DEF IInv
<1> DEFINE overlap == \E r \in Thread : RunsAgent(r, a)
           begun == [Idle EXCEPT !.pc = IF k = "command" THEN "respond" ELSE "llm",
                        !.kind = k, !.agent = a, !.chat = c,
                        !.shared = overlap]
           other(s) == [thread[s] EXCEPT !.shared = @ \/ RunsAgent(s, a)]
<1>1. thread' = [s \in Thread |-> IF s = t THEN begun ELSE other(s)]
  BY DEF Begin
<1>2. tool' = IF k = "command" THEN tool ELSE [tool EXCEPT ![a] = [chat |-> c, sent |-> FALSE]]
  BY DEF Begin, SetContext
<1>3. /\ ~Active(t) /\ turns' = turns + 1 /\ turns < MaxTurns /\ last' = last
      /\ blocked' = blocked
      /\ (k = "command") <=> (a = None)
      /\ k = "user" => t = "run"
  BY DEF Begin
<1>4. begun \in TurnType
  <2>1. overlap \in BOOLEAN
    OBVIOUS
  <2>2. \A b \in BOOLEAN : [Idle EXCEPT !.pc = IF k = "command" THEN "respond" ELSE "llm",
                        !.kind = k, !.agent = a, !.chat = c, !.shared = b] \in TurnType
    <3>1. Idle \in TurnType
      BY DEF TurnType, Idle
    <3>2. (IF k = "command" THEN "respond" ELSE "llm") \in {"respond", "llm"}
      OBVIOUS
    <3> QED BY <3>1, <3>2 DEF TurnType
  <2> QED BY ONLY <2>1, <2>2, Zenon
<1>5. ASSUME NEW s \in Thread PROVE other(s) \in TurnType
  <2>1. thread[s] \in TurnType
    BY DEF TypeOK
  <2>2. (thread[s].shared \/ RunsAgent(s, a)) \in BOOLEAN
    BY <2>1 DEF TurnType
  <2>3. \A r \in TurnType, b \in BOOLEAN : [r EXCEPT !.shared = b] \in TurnType
    BY SMTT(30) DEF TurnType
  <2> QED BY ONLY <2>1, <2>2, <2>3, Zenon
<1>6. TypeOK'
  <2>1. thread' \in [Thread -> TurnType]
    BY <1>1, <1>4, <1>5
  <2>2. tool' \in [Agent -> [chat : Chat \cup {None}, sent : BOOLEAN]]
    BY <1>2, <1>3 DEF TypeOK
  <2> QED BY <2>1, <2>2, <1>3 DEF TypeOK
<1>7. /\ begun.pc = (IF k = "command" THEN "respond" ELSE "llm") /\ begun.kind = k
      /\ begun.agent = a /\ begun.chat = c /\ begun.sent = FALSE /\ begun.stray = FALSE
      /\ begun.shared = overlap
  BY DEF Idle
<1>8. ASSUME NEW s \in Thread
      PROVE  /\ other(s).pc = thread[s].pc /\ other(s).kind = thread[s].kind
             /\ other(s).agent = thread[s].agent /\ other(s).chat = thread[s].chat
             /\ other(s).sent = thread[s].sent /\ other(s).stray = thread[s].stray
             /\ other(s).shared = (thread[s].shared \/ RunsAgent(s, a))
  BY DEF TypeOK, TurnType
<1> HIDE DEF begun, other
<1>9. TurnShape'
  BY <1>1, <1>3, <1>7, <1>8 DEF TurnShape, Active
<1>10. SharingKnown'
  <2>1. SUFFICES ASSUME NEW s \in Thread, NEW r \in Thread, s # r, Active(s)', Active(r)',
                        thread'[s].agent \in Agent, thread'[s].agent = thread'[r].agent
                 PROVE  thread'[s].shared /\ thread'[r].shared
    BY DEF SharingKnown
  <2>2. ASSUME NEW q \in Thread, q # t, Active(q)', thread'[q].agent = a, a \in Agent
        PROVE  RunsAgent(q, a)
    BY <2>2, <1>1, <1>8 DEF Active, RunsAgent
  <2>3. CASE s = t
    BY <2>1, <2>2, <2>3, <1>1, <1>7, <1>8
  <2>4. CASE r = t
    BY <2>1, <2>2, <2>4, <1>1, <1>7, <1>8
  <2>5. CASE s # t /\ r # t
    <3>1. thread'[s] = other(s) /\ thread'[r] = other(r)
      BY <2>5, <1>1
    <3>2. Active(s) /\ Active(r) /\ thread[s].agent \in Agent /\ thread[s].agent = thread[r].agent
      BY <2>1, <3>1, <1>8 DEF Active
    <3>3. thread[s].shared /\ thread[r].shared
      BY <2>1, <3>2 DEF SharingKnown
    <3> QED BY <3>1, <3>3, <1>8
  <2> QED BY <2>3, <2>4, <2>5
<1>11. ToolIsTurns'
  <2>1. SUFFICES ASSUME NEW s \in Thread, Active(s)', thread'[s].agent \in Agent, ~thread'[s].shared
                 PROVE  /\ tool'[thread'[s].agent].chat = thread'[s].chat
                        /\ tool'[thread'[s].agent].sent = thread'[s].sent
    BY DEF ToolIsTurns
  <2>2. CASE s = t
    BY <2>1, <2>2, <1>1, <1>2, <1>3, <1>7 DEF TypeOK
  <2>3. CASE s # t
    <3>1. Active(s) /\ thread[s].agent \in Agent /\ ~thread[s].shared /\ thread[s].agent # a
      BY <2>1, <2>3, <1>1, <1>8 DEF Active, RunsAgent
    <3>2. tool'[thread[s].agent] = tool[thread[s].agent]
      BY <3>1, <1>2 DEF TypeOK
    <3> QED BY <3>1, <3>2, <2>3, <1>1, <1>8 DEF ToolIsTurns
  <2> QED BY <2>2, <2>3
<1>12. OwnChat' /\ RoundAnswered'
  BY <1>1, <1>3, <1>7, <1>8 DEF OwnChat, RoundAnswered
<1> QED BY <1>6, <1>9, <1>10, <1>11, <1>12

\* The message tool is called, and executed: it belongs to the caller's agent.
LEMMA MessageToolKeepsIInv ==
  ASSUME IInv, NEW t \in Thread, \/ CallMessageTool(t) \/ SendNothing(t)
                             \/ \E explicit \in BOOLEAN : SendMessage(t, explicit),
         blocked' = blocked \ {t}
  PROVE  IInv'
<1> USE AgentAssumption, BoundAssumption DEF IInv, Thread
<1>1. CASE CallMessageTool(t)
  <2>1. thread[t].agent \in Agent /\ thread[t].chat \in Chat
    BY <1>1 DEF CallMessageTool, TurnShape, Active
  <2>2. TypeOK'
    BY <1>1, <2>1 DEF CallMessageTool, TypeOK, TurnType, SetContext
  <2>3. TurnShape' /\ OwnChat' /\ RoundAnswered'
    BY <1>1 DEF CallMessageTool, TypeOK, TurnShape, OwnChat, RoundAnswered, Active
  <2>5. SharingKnown'
    BY <1>1, SMTT(30) DEF CallMessageTool, TypeOK, SharingKnown, Active
  <2>4. ToolIsTurns'
    <3>1. SUFFICES ASSUME NEW s \in Thread, Active(s)', thread'[s].agent \in Agent, ~thread'[s].shared
                   PROVE  /\ tool'[thread'[s].agent].chat = thread'[s].chat
                          /\ tool'[thread'[s].agent].sent = thread'[s].sent
      BY DEF ToolIsTurns
    <3>2. CASE s = t
      BY <1>1, <2>1, <3>2 DEF CallMessageTool, TypeOK, TurnType, SetContext
    <3>3. CASE s # t
      <4>1. thread'[s] = thread[s] /\ Active(t)
        BY <1>1, <3>3 DEF CallMessageTool, TypeOK, Active
      <4>2. thread[s].agent # thread[t].agent
        BY <4>1, <3>1, <3>3 DEF SharingKnown, Active
      <4>3. tool'[thread[s].agent] = tool[thread[s].agent]
        BY <1>1, <2>1, <4>1, <4>2, <3>1 DEF CallMessageTool, TypeOK, SetContext
      <4> QED BY <4>1, <4>3, <3>1 DEF ToolIsTurns, Active
    <3> QED BY <3>2, <3>3
  <2> QED BY <2>2, <2>3, <2>4, <2>5
<1>2. CASE SendNothing(t)
  BY <1>2 DEF SendNothing, TypeOK, TurnType, TurnShape, SharingKnown, ToolIsTurns, OwnChat, RoundAnswered, Active
<1>3. ASSUME NEW explicit \in BOOLEAN, SendMessage(t, explicit) PROVE IInv'
  <2> DEFINE a == thread[t].agent
             strays == thread[t].stray \/ (~explicit /\ tool[a].chat # thread[t].chat)
             turn == [thread[t] EXCEPT !.pc = "llm", !.sent = TRUE, !.ever = TRUE, !.stray = strays]
  <2>1. /\ thread[t].pc = "execute" /\ a \in Agent /\ Active(t)
        /\ tool' = [tool EXCEPT ![a].sent = TRUE]
        /\ last' = last /\ turns' = turns
    BY <1>3 DEF SendMessage, TurnShape, Active
  <2>2. thread' = [thread EXCEPT ![t] = turn]
    BY <1>3 DEF SendMessage, TypeOK, TurnType
  <2>3. turn \in TurnType
    <3>1. strays \in BOOLEAN
      BY DEF TypeOK, TurnType
    <3>2. \A r \in TurnType, b \in BOOLEAN : [r EXCEPT !.pc = "llm", !.sent = TRUE, !.ever = TRUE,
                                                      !.stray = b] \in TurnType
      <4>1. ASSUME NEW r \in TurnType, NEW b \in BOOLEAN
            PROVE  [r EXCEPT !.pc = "llm", !.sent = TRUE, !.ever = TRUE, !.stray = b] \in TurnType
        <5>1. [r EXCEPT !.pc = "llm"] \in TurnType
          BY DEF TurnType
        <5>2. \A q \in TurnType : [q EXCEPT !.sent = TRUE] \in TurnType
          BY DEF TurnType
        <5>3. \A q \in TurnType : [q EXCEPT !.ever = TRUE] \in TurnType
          BY DEF TurnType
        <5>4. \A q \in TurnType : [q EXCEPT !.stray = b] \in TurnType
          BY DEF TurnType
        <5> QED BY <5>1, <5>2, <5>3, <5>4
      <4> QED BY <4>1
    <3>3. thread[t] \in TurnType
      BY DEF TypeOK
    <3> QED BY ONLY <3>1, <3>2, <3>3, Zenon
  <2>4. /\ turn.pc = "llm" /\ turn.kind = thread[t].kind /\ turn.agent = a
        /\ turn.chat = thread[t].chat /\ turn.sent = TRUE /\ turn.shared = thread[t].shared
        /\ turn.stray = strays
    BY DEF TypeOK, TurnType
  <2>5. strays => thread[t].shared
    BY <2>1 DEF OwnChat, ToolIsTurns
  <2> HIDE DEF turn, strays
  <2>6. TypeOK'
    BY <2>1, <2>2, <2>3 DEF TypeOK
  <2>7. TurnShape' /\ SharingKnown' /\ OwnChat' /\ RoundAnswered'
    BY <2>1, <2>2, <2>4, <2>5 DEF TypeOK, TurnShape, SharingKnown, OwnChat, RoundAnswered, Active
  <2>8. ToolIsTurns'
    <3>1. SUFFICES ASSUME NEW s \in Thread, Active(s)', thread'[s].agent \in Agent, ~thread'[s].shared
                   PROVE  /\ tool'[thread'[s].agent].chat = thread'[s].chat
                          /\ tool'[thread'[s].agent].sent = thread'[s].sent
      BY DEF ToolIsTurns
    <3>2. CASE s = t
      <4>1. thread'[s] = turn
        BY <2>2, <3>2 DEF TypeOK
      <4>2. tool[a].chat = thread[t].chat
        BY <2>1, <2>4, <3>1, <4>1 DEF ToolIsTurns
      <4>3. tool'[a].chat = tool[a].chat /\ tool'[a].sent = TRUE
        BY <2>1 DEF TypeOK
      <4> QED BY <2>4, <4>1, <4>2, <4>3
    <3>3. CASE s # t
      <4>1. thread'[s] = thread[s]
        BY <2>2, <3>3 DEF TypeOK
      <4>2. thread[s].agent # a
        BY <2>1, <4>1, <3>1, <3>3 DEF SharingKnown, Active
      <4>3. tool'[thread[s].agent] = tool[thread[s].agent]
        BY <2>1, <4>1, <4>2, <3>1 DEF TypeOK
      <4> QED BY <4>1, <4>3, <3>1 DEF ToolIsTurns, Active
    <3> QED BY <3>2, <3>3
  <2> QED BY <2>6, <2>7, <2>8
<1> QED BY <1>1, <1>2, <1>3

\* The turn is settled: the flag it is judged by is its own, if it was alone.
LEMMA RespondKeepsIInv ==
  ASSUME IInv, NEW t \in Thread, Respond(t), blocked' = blocked \ {t}
  PROVE  IInv'
<1> USE AgentAssumption, BoundAssumption DEF IInv, Thread
<1>1. TypeOK'
  BY DEF Respond, TypeOK, TurnType, LastType, Idle
<1>2. TurnShape' /\ SharingKnown' /\ ToolIsTurns' /\ OwnChat'
  BY DEF Respond, TypeOK, TurnShape, SharingKnown, ToolIsTurns, OwnChat, Idle, Active
<1>3. RoundAnswered'
  <2>1. SUFFICES ASSUME last'.kind = "user", last'.agent = Default, ~last'.shared
                 PROVE  (last'.reply = "skipped") = last'.sent
    BY DEF RoundAnswered
  <2>2. Active(t) /\ thread[t].agent = Default /\ ~thread[t].shared /\ thread[t].kind = "user"
    BY <2>1 DEF Respond, Active
  <2>3. t = "run" /\ tool[Default].sent = thread[t].sent
    BY <2>2 DEF TurnShape, ToolIsTurns
  <2>4. last'.sent = thread[t].sent
        /\ last'.reply = IF tool[Default].sent THEN "skipped" ELSE "published"
    BY <2>2, <2>3 DEF Respond
  <2> QED BY <2>3, <2>4 DEF TypeOK, TurnType
<1> QED BY <1>1, <1>2, <1>3

\* A goroutine that waits in a call keeps its turn and its tool.
LEMMA BlockKeepsIInv ==
  ASSUME IInv, NEW t \in Thread, Block(t)
  PROVE  IInv'
BY DEF Block, IInv, TypeOK, TurnShape, SharingKnown, ToolIsTurns, OwnChat, RoundAnswered, Active

\* The invariant is inductive.
LEMMA NextIInv == IInv /\ [Next]_vars => IInv'
<1> SUFFICES ASSUME IInv, [Next]_vars PROVE IInv'
  OBVIOUS
<1>1. CASE UNCHANGED vars
  BY <1>1 DEF vars, IInv, TypeOK, TurnShape, SharingKnown, ToolIsTurns, OwnChat, RoundAnswered, Active
<1>2. CASE Next
  BY <1>2, CountersKeepIInv, BeginKeepsIInv, MessageToolKeepsIInv, RespondKeepsIInv,
     BlockKeepsIInv DEF Next, Step
<1> QED BY <1>1, <1>2

\* The invariant holds in every reachable state.
LEMMA IInvHolds == Spec => []IInv
  BY InitIInv, NextIInv, PTL DEF Spec

\* Type correctness: in particular retries and iterations of runLLMIteration stay in bounds.
THEOREM TypeCorrect == Spec => []TypeOK
<1>1. IInv => TypeOK
  BY DEF IInv
<1> QED BY <1>1, IInvHolds, PTL

\* Run withholds the response of an undisturbed user round of the default agent exactly
\* if the round's last message-tool call was sent, however many rounds came before.
THEOREM RoundAnsweredHolds == Spec => []RoundAnswered
<1>1. IInv => RoundAnswered
  BY DEF IInv
<1> QED BY <1>1, IInvHolds, PTL

\* A message-tool call without a target goes astray only if turns of one agent overlap.
THEOREM OwnChatHolds == Spec => []OwnChat
<1>1. IInv => OwnChat
  BY DEF IInv
<1> QED BY <1>1, IInvHolds, PTL
=============================================================================
