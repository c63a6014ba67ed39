------------------------------ MODULE Presence ------------------------------
(***************************************************************************)
(* Typing indicators, reactions and placeholder messages: what             *)
(* BaseChannel.HandleMessage (pkg/channels/base.go) starts for an inbound  *)
(* message and the Manager (pkg/channels/manager.go) records per chat,     *)
(* and what preSend and the TTL janitor take away again.  The three        *)
(* sync.Maps are keyed by chat, not by message.                            *)
(***************************************************************************)
EXTENDS Naturals, FiniteSets

CONSTANTS
    Key,       \* "channel:chatID"
    Msg,       \* inbound messages
    KeyOf,     \* [Msg -> Key]
    MaxAnswer,  \* outbound messages (or chunks of one) per chat
    None

Map == 1..3                 \* typingStops, reactionUndos, placeholders
Placeholder == 3

ASSUME KeyAssumption == KeyOf \in [Msg -> Key] /\ None \notin Msg \cup Key /\ MaxAnswer \in Nat

VARIABLES
    handler,   \* HandleMessage of each message: the next of the three steps; 4: published
    table,     \* the maps: whose entry a chat has
    shown,     \* is the indicator on, off again, or was it never on
    expired,   \* chats whose entry is older than its TTL
    worker,    \* the channel's worker in preSend: chat and step
    answers,   \* outbound messages per chat so far
    janitor,   \* the janitor between reading an entry and deleting the key
    edits      \* history: how often a placeholder was edited into a reply

presenceVars == <<handler, table, shown, expired, worker, answers, janitor, edits>>

IdleWorker == [key |-> None, step |-> 0]
IdleJanitor == [map |-> 0, msg |-> None]

PresenceInit ==
    /\ handler = [m \in Msg |-> 0]
    /\ table = [i \in Map |-> [k \in Key |-> None]]
    /\ shown = [i \in Map |-> [m \in Msg |-> "never"]]
    /\ expired = {}
    /\ worker = IdleWorker
    /\ answers = [k \in Key |-> 0]
    /\ janitor = IdleJanitor
    /\ edits = [m \in Msg |-> 0]

\* HandleMessage lets the sender in.
Receive(m) ==
    /\ handler[m] = 0
    /\ handler' = [handler EXCEPT ![m] = 1]
    /\ UNCHANGED <<table, shown, expired, worker, answers, janitor, edits>>

\* One of the three pipelines: the channel cannot do it or fails, or the indicator
\* goes on and is recorded, over whatever the chat had recorded before.
Indicate(m) ==
    LET i == handler[m] IN
    /\ i \in Map
    /\ handler' = [handler EXCEPT ![m] = i + 1]
    /\ \/ UNCHANGED <<table, shown, expired>>
       \/ /\ table' = [table EXCEPT ![i][KeyOf[m]] = m]
          /\ shown' = [shown EXCEPT ![i][m] = "on"]
          /\ expired' = expired \ {<<i, KeyOf[m]>>}
    /\ UNCHANGED <<worker, answers, janitor, edits>>

\* Time passes the TTL of a recorded entry.
Expire(i, k) ==
    /\ table[i][k] # None /\ <<i, k>> \notin expired
    /\ expired' = expired \cup {<<i, k>>}
    /\ UNCHANGED <<handler, table, shown, worker, answers, janitor, edits>>

\* A reply for the chat reaches sendWithRetry.
ReplyBegin(k) ==
    /\ worker = IdleWorker
    /\ answers[k] < MaxAnswer
    /\ \E m \in Msg : KeyOf[m] = k /\ handler[m] = 4
    /\ worker' = [key |-> k, step |-> 1]
    /\ answers' = [answers EXCEPT ![k] = @ + 1]
    /\ UNCHANGED <<handler, table, shown, expired, janitor, edits>>

AfterStep == IF worker.step = 3 THEN IdleWorker ELSE [worker EXCEPT !.step = @ + 1]

\* Mutant: the placeholder is read but stays in the map.
preSendKeeps ==
    LET i == worker.step
        m == table[i][worker.key] IN
    /\ i # 0
    /\ worker' = AfterStep
    /\ IF m = None THEN UNCHANGED <<table, shown, edits>>
       ELSE /\ UNCHANGED table
            /\ IF i = Placeholder
               THEN \/ edits' = [edits EXCEPT ![m] = @ + 1] /\ shown' = [shown EXCEPT ![i][m] = "off"]
                    \/ UNCHANGED <<shown, edits>>
               ELSE shown' = [shown EXCEPT ![i][m] = "off"] /\ UNCHANGED edits
    /\ UNCHANGED <<handler, expired, answers, janitor>>

\* One step of preSend: LoadAndDelete, then stop, undo, or an edit that may fail.
preSend ==
    LET i == worker.step
        m == table[i][worker.key] IN
    /\ i # 0
    /\ worker' = AfterStep
    /\ IF m = None THEN UNCHANGED <<table, shown, edits>>
       ELSE /\ table' = [table EXCEPT ![i][worker.key] = None]
            /\ IF i = Placeholder
               THEN \/ edits' = [edits EXCEPT ![m] = @ + 1] /\ shown' = [shown EXCEPT ![i][m] = "off"]
                    \/ UNCHANGED <<shown, edits>>
               ELSE shown' = [shown EXCEPT ![i][m] = "off"] /\ UNCHANGED edits
    /\ expired' = expired \ {<<i, worker.key>>}
    /\ UNCHANGED <<handler, answers, janitor>>

\* Mutant: the janitor does not scan the reactions.
JanitorReadTyping(i, k) ==
    /\ i # 2
    /\ janitor = IdleJanitor
    /\ table[i][k] # None /\ <<i, k>> \in expired
    /\ janitor' = [map |-> i, msg |-> table[i][k]]
    /\ UNCHANGED <<handler, table, shown, expired, worker, answers, edits>>

\* The janitor's Range hands it an expired entry ...
JanitorRead(i, k) ==
    /\ janitor = IdleJanitor
    /\ table[i][k] # None /\ <<i, k>> \in expired
    /\ janitor' = [map |-> i, msg |-> table[i][k]]
    /\ UNCHANGED <<handler, table, shown, expired, worker, answers, edits>>

\* ... and it deletes whatever the key holds by now; if that was anything, it stops
\* the entry it read.  Placeholders are only deleted.
JanitorDelete ==
    LET i == janitor.map
        k == KeyOf[janitor.msg] IN
    /\ janitor # IdleJanitor
    /\ janitor' = IdleJanitor
    /\ table' = [table EXCEPT ![i][k] = None]
    /\ IF table[i][k] # None /\ i # Placeholder
       THEN shown' = [shown EXCEPT ![i][janitor.msg] = "off"]
       ELSE UNCHANGED shown
    /\ expired' = expired \ {<<i, k>>}
    /\ UNCHANGED <<handler, worker, answers, edits>>

PresenceNext ==
    \/ \E m \in Msg : Receive(m) \/ Indicate(m)
    \/ \E k \in Key : ReplyBegin(k)
    \/ preSend
    \/ \E i \in Map, k \in Key : Expire(i, k) \/ JanitorRead(i, k)
    \/ JanitorDelete

PresenceSpec == PresenceInit /\ [][PresenceNext]_presenceVars

\* Time passes, and handlers, the worker inside preSend and the janitor's ticker
\* keep running.  No reply is ever guaranteed.
PresenceFairness ==
    /\ WF_presenceVars(preSend) /\ WF_presenceVars(JanitorDelete)
    /\ \A m \in Msg : WF_presenceVars(Indicate(m))
    /\ \A i \in Map : \A k \in Key : WF_presenceVars(Expire(i, k)) /\ WF_presenceVars(JanitorRead(i, k))

PresenceFairSpec == PresenceSpec /\ PresenceFairness

----------------------------------------------------------------------------
(* Properties                                                              *)

\* The maps hold messages of their own chat, the goroutines are in one of their steps.
PresenceTypeOK ==
    /\ handler \in [Msg -> 0..4]
    /\ table \in [Map -> [Key -> Msg \cup {None}]]
    /\ \A i \in Map : \A k \in Key : table[i][k] # None => KeyOf[table[i][k]] = k
    /\ shown \in [Map -> [Msg -> {"never", "on", "off"}]]
    /\ expired \subseteq Map \X Key
    /\ worker \in {IdleWorker} \cup [key : Key, step : Map]
    /\ answers \in [Key -> 0..MaxAnswer]
    /\ janitor \in {IdleJanitor} \cup [map : Map, msg : Msg]
    /\ edits \in [Msg -> Nat]

\* A placeholder is edited into at most one reply, although chunks of a reply,
\* later answers and the janitor all look for it; and an entry that is still
\* recorded has not been stopped or edited yet.
EditedOnce ==
    /\ \A m \in Msg : edits[m] <= 1
    /\ \A i \in Map : \A k \in Key : table[i][k] # None => shown[i][table[i][k]] = "on"

Recorded(m) == \E i \in Map : table[i][KeyOf[m]] = m

\* The janitor "prevents memory accumulation": no message stays in the maps for ever,
\* even when no reply is ever sent.
EntriesEvicted == \A m \in Msg : []<>~Recorded(m)

\* The channels' README says a typing stop function is called on expiry at the
\* latest: a typing indicator that is on goes off.
TypingStops == \A m \in Msg : (shown[1][m] = "on") ~> (shown[1][m] = "off")
=============================================================================
