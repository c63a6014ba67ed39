----------------------------- MODULE LastChannel -----------------------------
(***************************************************************************)
(* The chat a heartbeat is for.  Each turn records its chat in the         *)
(* workspace's state (pkg/state), a file that is read when a manager is    *)
(* constructed and never again.  The agent loop and the heartbeat service  *)
(* (pkg/heartbeat) construct a manager each, so each has a copy.           *)
(* Left out: the device service, whose notices go to the chat of a third   *)
(* copy, the last chat ID (nobody sets it), the former place of the file,  *)
(* the database backend (no command uses it), the log, and a second Start  *)
(* of the heartbeat service in a process (no command calls it twice).      *)
(***************************************************************************)
EXTENDS Naturals

CONSTANTS
    User,        \* chats of users, on channels that are not internal
    NoUser,      \* an empty LastChannel
    MaxBoot      \* bound: processes

ASSUME LastAssumption == NoUser \notin User /\ MaxBoot \in Nat

Manager == {"loop", "heartbeat"}
\* The goroutines that execute heartbeats: the timer of a second, the ticker.
Beater == {"timer", "ticker"}

VARIABLES
    file,       \* state.json: last_channel
    memory,     \* Manager.state of each manager: LastChannel
    boots,      \* processes so far
    alive,      \* stopChan: not made yet, open, or closed and set to nil
    armed,      \* the timer of a second is running
    beat,       \* executeHeartbeat: the chat its turn runs for, "idle" without a turn
    lastActive, \* history: the chat a user has written from last
    sent        \* history: the chats of the heartbeat whose result was sent, and of the message

lastVars == <<file, memory, boots, alive, armed, beat, lastActive, sent>>

NotSent == [turn |-> NoUser, to |-> NoUser]

LastInit ==
    /\ file = NoUser
    /\ memory = [m \in Manager |-> NoUser]
    /\ boots = 0
    /\ alive = "new" /\ armed = FALSE
    /\ beat = [b \in Beater |-> "idle"]
    /\ lastActive = NoUser
    /\ sent = NotSent

serviceVars == <<boots, alive, armed>>

\* NewManager reads the file; a file that cannot be read leaves the state empty.
Boot ==
    /\ boots < MaxBoot
    /\ boots' = boots + 1
    /\ memory' \in [Manager -> {file, NoUser}]
    /\ alive' = "new" /\ armed' = FALSE
    /\ beat' = [b \in Beater |-> "idle"]
    /\ UNCHANGED <<file, lastActive, sent>>

\* MUTANT: one manager for both.
SetLastShared(c) ==
    /\ memory' = [m \in Manager |-> c]
    /\ file' \in {file, c}

\* SetLastChannel of the loop's manager; the file keeps its content if it cannot be saved.
SetLastChannel(c) ==
    /\ memory' = [memory EXCEPT !["loop"] = c]
    /\ file' \in {file, c}

\* A turn that a message of a user begins records the message's chat ...
UserTurn(c) ==
    /\ boots > 0
    /\ SetLastChannel(c)
    /\ lastActive' = c
    /\ UNCHANGED <<serviceVars, beat, sent>>

\* ... and so does a turn for a scheduled job, or for the report of a subagent.
OtherTurn(c) ==
    /\ boots > 0
    /\ SetLastChannel(c)
    /\ UNCHANGED <<serviceVars, beat, lastActive, sent>>

(***************************************************************************)
(* HeartbeatService                                                        *)
(***************************************************************************)

BeginService ==
    /\ boots > 0 /\ alive = "new"
    /\ alive' = "open" /\ armed' = TRUE
    /\ UNCHANGED <<file, memory, boots, beat, lastActive, sent>>

EndService ==
    /\ alive = "open"
    /\ alive' = "closed"
    /\ UNCHANGED <<file, memory, boots, armed, beat, lastActive, sent>>

\* The timer goes off after the service has been stopped: nothing is executed.
TimerLate ==
    /\ armed /\ alive = "closed"
    /\ armed' = FALSE
    /\ UNCHANGED <<file, memory, boots, alive, beat, lastActive, sent>>

\* executeHeartbeat: with a prompt, the handler runs a turn for the last chat, which
\* records it; without a chat the turn is for the command line, which is not recorded.
executeHeartbeat(b) ==
    /\ alive = "open" /\ beat[b] = "idle"
    /\ IF b = "timer" THEN armed /\ armed' = FALSE ELSE UNCHANGED armed
    /\ LET c == memory["heartbeat"] IN
          /\ beat' = [beat EXCEPT ![b] = c]
          /\ IF c = NoUser THEN UNCHANGED <<file, memory>> ELSE SetLastChannel(c)
    /\ UNCHANGED <<boots, alive, lastActive, sent>>

\* HEARTBEAT.md is missing, empty or cannot be read.
NoPrompt ==
    /\ alive = "open" /\ armed
    /\ armed' = FALSE
    /\ UNCHANGED <<file, memory, boots, alive, beat, lastActive, sent>>

\* The handler's result is nil, an error, asynchronous or silent (the gateway's handler
\* returns no others), or the outbound queue refuses it.
ResultKept(b) ==
    /\ beat[b] # "idle"
    /\ beat' = [beat EXCEPT ![b] = "idle"]
    /\ UNCHANGED <<file, memory, serviceVars, lastActive, sent>>

\* sendResponse looks the chat up again.
sendResponse(b) ==
    /\ beat[b] # "idle"
    /\ beat' = [beat EXCEPT ![b] = "idle"]
    /\ sent' = IF memory["heartbeat"] = NoUser THEN sent
               ELSE [turn |-> beat[b], to |-> memory["heartbeat"]]
    /\ UNCHANGED <<file, memory, serviceVars, lastActive>>

LastNext ==
    \/ Boot \/ BeginService \/ EndService \/ TimerLate \/ NoPrompt
    \/ \E c \in User : UserTurn(c) \/ OtherTurn(c)
    \/ \E b \in Beater : executeHeartbeat(b) \/ ResultKept(b) \/ sendResponse(b)

LastSpec == LastInit /\ [][LastNext]_lastVars

(***************************************************************************)
(* Properties                                                              *)
(***************************************************************************)

LastTypeOK ==
    /\ file \in User \cup {NoUser}
    /\ memory \in [Manager -> User \cup {NoUser}]
    /\ boots \in 0..MaxBoot
    /\ alive \in {"new", "open", "closed"} /\ armed \in BOOLEAN
    /\ beat \in [Beater -> User \cup {NoUser, "idle"}]
    /\ lastActive \in User \cup {NoUser}
    /\ sent \in [turn : User \cup {NoUser}, to : User \cup {NoUser}]

\* The result of a heartbeat goes to the chat its turn ran for, though the chat is looked
\* up a second time when the turn is over and other turns record their chats meanwhile.
ResultFollowsTurn == sent.to = sent.turn

\* "channel and chatID are derived from the last active user channel": the turn of a
\* heartbeat that has just begun is for the chat a user has written from last.
NotifiesLastActive ==
    [][\A b \in Beater : executeHeartbeat(b) => beat'[b] = lastActive]_lastVars
=============================================================================
