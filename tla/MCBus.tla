-------------------------------- MODULE MCBus --------------------------------
(***************************************************************************)
(* TLC instances of the bus and, for their liveness, of the subagents that *)
(* publish on it.  The two modules share no state, so each is explored by  *)
(* itself: the initial state picks one, and the other stands still.        *)
(***************************************************************************)
EXTENDS MessageBus, Subagents, TLC

VARIABLE part

busVars == <<part, vars, subVars>>

BusInit == part \in {"bus", "subagents"} /\ Init /\ SubInit

Exchanging == part = "bus" /\ UNCHANGED <<part, subVars>>
Delegating == part = "subagents" /\ UNCHANGED <<part, vars>>

BusNext ==
    \/ Exchanging /\ Next
    \/ Delegating /\ SubNext

\* The fairness of FairSpec and SubFairness, each for its own part.
BusFairness ==
    /\ WF_busVars(Exchanging /\ CloseDone) /\ WF_busVars(Exchanging /\ CloseDrain)
    /\ \A p \in Publisher : WF_busVars(Exchanging /\ (PublishSend(p) \/ PublishDone(p)))
    /\ \A c \in Consumer : WF_busVars(Exchanging /\ (ConsumeRecv(c) \/ ConsumeDone(c)))
    /\ \A t \in Turner : WF_busVars(Delegating /\ Spawn(t))
    /\ \A k \in Task : WF_busVars(Delegating /\ Report(k))

BusFairSpec == BusInit /\ [][BusNext]_busVars /\ BusFairness
==============================================================================
