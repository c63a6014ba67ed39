-------------------------------- MODULE MCChats --------------------------------
(***************************************************************************)
(* TLC instances of the indicators of the chats and of four channels.      *)
(* They share no state, so each is explored by itself: the initial state   *)
(* picks one, and the others stand still.                                  *)
(***************************************************************************)
EXTENDS Presence, WeComBot, OneBot, OperatorChannel, WhatsApp, TLC

\* Two messages of one chat.
CONSTANTS k1, m1, m2
OneChat == (m1 :> k1) @@ (m2 :> k1)

\* Two connections, of two sessions: either may write to the other's.
CONSTANTS o1, o2, s1, s2
TwoSessions == (o1 :> s1) @@ (o2 :> s2)

VARIABLE part

chatsVars == <<part, presenceVars, botVars, oneBotVars, opVars, waVars>>

ChatsInit ==
    /\ part \in {"presence", "wecom", "onebot", "operator", "whatsapp"}
    /\ PresenceInit /\ BotInit /\ OneBotInit /\ OpInit /\ WaInit

Presenting == part = "presence" /\ UNCHANGED <<part, botVars, oneBotVars, opVars, waVars>>
Polling == part = "wecom" /\ UNCHANGED <<part, presenceVars, oneBotVars, opVars, waVars>>
Listening == part = "onebot" /\ UNCHANGED <<part, presenceVars, botVars, opVars, waVars>>
Serving == part = "operator" /\ UNCHANGED <<part, presenceVars, botVars, oneBotVars, waVars>>
Pairing == part = "whatsapp" /\ UNCHANGED <<part, presenceVars, botVars, oneBotVars, opVars>>

ChatsNext ==
    \/ PresenceNext /\ Presenting
    \/ BotNext /\ Polling
    \/ OneBotNext /\ Listening
    \/ OpNext /\ Serving
    \/ WaNext /\ Pairing

ChatsSpec == ChatsInit /\ [][ChatsNext]_chatsVars

\* PresenceFairness, BotFairness, OneBotFairness and OpFairness, each for its own part.
ChatsFairness ==
    /\ WF_chatsVars(Presenting /\ preSend) /\ WF_chatsVars(Presenting /\ JanitorDelete)
    /\ \A m \in Msg : WF_chatsVars(Presenting /\ Indicate(m))
    /\ \A i \in Map : \A k \in Key :
          WF_chatsVars(Presenting /\ Expire(i, k)) /\ WF_chatsVars(Presenting /\ JanitorRead(i, k))
    /\ \A p \in Poller : WF_chatsVars(Polling /\ Poll(p))
    /\ WF_chatsVars(Polling /\ Post) /\ WF_chatsVars(Polling /\ Put)
    /\ \A m \in Text : WF_chatsVars(Polling /\ Pass(m))
    /\ WF_chatsVars(Polling /\ cleanupOldTasks)
    /\ \A k \in Conn : WF_chatsVars(Listening /\ Listen(k))
    /\ \A a \in Request : WF_chatsVars(Listening /\ Call(a))
    /\ WF_chatsVars(Listening /\ (fetchSelfID \/ reconnectLoop))
    /\ \A k \in Client :
          /\ WF_chatsVars(Serving /\ Reading(k))
          /\ WF_chatsVars(Serving /\ ReadFails(k) /\ Silent(k))
          /\ WF_chatsVars(Serving /\ Pinged(k))
    /\ \A w \in Ranger : WF_chatsVars(Serving /\ (Visit(w) \/ LockConn(w) \/ Written(w)))
    /\ SF_chatsVars(Serving /\ LockConn("send"))
    /\ WF_chatsVars(Serving /\ (StopVisit \/ StopCancel))

ChatsFairSpec == ChatsSpec /\ ChatsFairness

\* The types of the five parts.
TypeOK == PresenceTypeOK /\ BotTypeOK /\ OneBotTypeOK /\ OpTypeOK /\ WaTypeOK
=============================================================================
