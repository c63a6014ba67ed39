-------------------------------- MODULE MCAgent --------------------------------
(***************************************************************************)
(* TLC instances of the turns and, for their liveness, of the credentials  *)
(* the turns' integration tools need.  The two modules share no state, so  *)
(* each is explored by itself: the initial state picks one, and the other  *)
(* stands still.                                                           *)
(***************************************************************************)
EXTENDS AgentLoop, Credentials, TLC

VARIABLE part

agentVars == <<part, vars, credVars>>

AgentInit == part \in {"turns", "credentials"} /\ Init /\ CredInit

Turning == part = "turns" /\ UNCHANGED <<part, credVars>>
Connecting == part = "credentials" /\ UNCHANGED <<part, vars>>

AgentNext ==
    \/ Turning /\ Next
    \/ Connecting /\ CredNext

\* The fairness of FairSpec and CredFairness, each for its own part.
AgentFairness ==
    /\ \A t \in Thread : WF_agentVars(Turning /\ t \notin blocked /\ Step(t))
    /\ \A p \in Refresher :
          /\ SF_agentVars(Connecting /\ Lock(p))
          /\ WF_agentVars(Connecting /\ (Exchange(p) \/ Store(p) \/ CountFailure(p)))
    /\ \A p \in Sweeper : WF_agentVars(Connecting /\ Sweep(p))
    /\ WF_agentVars(Connecting /\ Tick)

AgentFairSpec == AgentInit /\ [][AgentNext]_agentVars /\ AgentFairness
================================================================================
