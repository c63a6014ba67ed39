---------------------------- MODULE ManagedServices ----------------------------
(***************************************************************************)
(* The container of a managed service (pkg/services/manager.go): started   *)
(* when a tool of an agent needs it, stopped by the services tool, and     *)
(* looked at by a health monitor.  Each agent has a manager of its own,    *)
(* and so has each call of `operator services`, but they all give the      *)
(* container of a service the same name.                                   *)
(* Left out: the other services (they have names and states of their own), *)
(* hardware profiles, ports and images; StopAll, which nothing calls.      *)
(***************************************************************************)
EXTENDS Naturals, FiniteSets

CONSTANTS
    Agent,        \* agents of the gateway, each with a manager
    Command,      \* calls of `operator services`, each with a manager
    Turn,         \* turns that use the service; a command is one, too
    MaxContainer, \* bound: containers run
    NoContainer

ServiceManager == Agent \cup Command
Container == 1..MaxContainer

ASSUME ManagedAssumption ==
    /\ Agent \cap Command = {} /\ Command \subseteq Turn
    /\ Agent # {}      \* NewAgentRegistry makes an agent "main" when none is configured
    /\ MaxContainer \in Nat /\ NoContainer \notin Nat /\ IsFiniteSet(Turn)

VARIABLES
    info,      \* ServiceInfo of each manager: State, ContainerID
    docker,    \* the container that has the name of the service
    ran,       \* containers run so far
    using,     \* each turn: its next step, its manager and the container it is to stop
    monitor,   \* HealthCheck of each agent's monitor: waiting for docker or not
    stopUsed   \* history: managers whose Stop has changed something

managedVars == <<info, docker, ran, using, monitor, stopUsed>>

Away == [step |-> "idle", of |-> CHOOSE m \in ServiceManager : TRUE, container |-> NoContainer]

ManagedInit ==
    /\ info = [m \in ServiceManager |-> [state |-> "stopped", container |-> NoContainer]]
    /\ docker = NoContainer /\ ran = 0
    /\ using = [t \in Turn |-> Away]
    /\ monitor = [a \in Agent |-> FALSE]
    /\ stopUsed = {}

\* A turn uses its agent's manager, a command its own, and only once.
MayUse(t, m) ==
    /\ using[t].step = "idle"
    /\ IF t \in Command THEN m = t ELSE m \in Agent

Finish(t) ==
    using' = [using EXCEPT ![t] =
        [Away EXCEPT !.step = IF t \in Command THEN "over" ELSE "idle"]]

(***************************************************************************)
(* EnsureRunning                                                           *)
(***************************************************************************)

\* MUTANT: a manager that is starting its container starts it again.
EnsureStarts(t, m) ==
    /\ MayUse(t, m)
    /\ IF info[m].state = "running"
       THEN Finish(t) /\ UNCHANGED info
       ELSE /\ using' = [using EXCEPT ![t] = [Away EXCEPT !.step = "remove", !.of = m]]
            /\ info' = [info EXCEPT ![m].state = "starting"]
    /\ UNCHANGED <<docker, ran, monitor, stopUsed>>

EnsureRunning(t, m) ==
    /\ MayUse(t, m)
    /\ CASE info[m].state = "running" -> Finish(t) /\ UNCHANGED info
         [] info[m].state = "starting" ->
                /\ using' = [using EXCEPT ![t] = [Away EXCEPT !.step = "wait", !.of = m]]
                /\ UNCHANGED info
         [] OTHER ->
                /\ using' = [using EXCEPT ![t] = [Away EXCEPT !.step = "remove", !.of = m]]
                /\ info' = [info EXCEPT ![m].state = "starting"]
    /\ UNCHANGED <<docker, ran, monitor, stopUsed>>

\* startContainer removes the container of the name, whose ever it is; errors are ignored.
RemoveOld(t) ==
    /\ using[t].step = "remove"
    /\ docker' \in {docker, NoContainer}
    /\ using' = [using EXCEPT ![t].step = "run"]
    /\ UNCHANGED <<info, ran, monitor, stopUsed>>

RunContainer(t) ==
    /\ using[t].step = "run"
    /\ docker = NoContainer /\ ran < MaxContainer
    /\ ran' = ran + 1
    /\ docker' = ran + 1
    /\ info' = [info EXCEPT ![using[t].of].container = ran + 1]
    /\ using' = [using EXCEPT ![t].step = "mark"]
    /\ UNCHANGED <<monitor, stopUsed>>

\* The name is in use, or the image is not there, or a port is taken, or the context has
\* ended: docker may have made the container all the same, and nobody removes it here.
RunFails(t) ==
    /\ using[t].step = "run"
    /\ \/ UNCHANGED <<docker, ran>>
       \/ docker = NoContainer /\ ran < MaxContainer /\ docker' = ran + 1 /\ ran' = ran + 1
    /\ info' = [info EXCEPT ![using[t].of].state = "error"]
    /\ Finish(t)
    /\ UNCHANGED <<monitor, stopUsed>>

MarkRunning(t) ==
    /\ using[t].step = "mark"
    /\ info' = [info EXCEPT ![using[t].of].state = "running"]
    /\ Finish(t)
    /\ UNCHANGED <<docker, ran, monitor, stopUsed>>

\* waitForReady: the service runs, or has failed, or the wait ends for another reason.
waitForReady(t) ==
    /\ using[t].step = "wait"
    /\ Finish(t)
    /\ UNCHANGED <<info, docker, ran, monitor, stopUsed>>

(***************************************************************************)
(* Stop                                                                    *)
(***************************************************************************)

\* Stop leaves alone a service that this manager does not know to run.
BeginStop(t, m) ==
    /\ MayUse(t, m)
    /\ IF info[m].state \in {"running", "degraded"}
       THEN /\ using' = [using EXCEPT ![t] =
                   [step |-> "stop", of |-> m, container |-> info[m].container]]
            /\ info' = [info EXCEPT ![m].state = "stopping"]
            /\ stopUsed' = stopUsed \cup {m}
       ELSE Finish(t) /\ UNCHANGED <<info, stopUsed>>
    /\ UNCHANGED <<docker, ran, monitor>>

\* docker stop and docker rm -f of the container, if it is still there; errors are ignored.
StopContainer(t) ==
    /\ using[t].step = "stop"
    /\ docker' \in {docker} \cup
           (IF using[t].container \in {docker, NoContainer} THEN {NoContainer} ELSE {})
    /\ using' = [using EXCEPT ![t].step = "stopped"]
    /\ UNCHANGED <<info, ran, monitor, stopUsed>>

MarkStopped(t) ==
    /\ using[t].step = "stopped"
    /\ info' = [info EXCEPT ![using[t].of] = [state |-> "stopped", container |-> NoContainer]]
    /\ Finish(t)
    /\ UNCHANGED <<docker, ran, monitor, stopUsed>>

(***************************************************************************)
(* HealthCheck, every 30 seconds                                           *)
(***************************************************************************)

CheckState(a) ==
    /\ ~monitor[a] /\ info[a].state = "running"
    /\ monitor' = [monitor EXCEPT ![a] = TRUE]
    /\ UNCHANGED <<info, docker, ran, using, stopUsed>>

\* docker inspect fails without a container; a status other than healthy is recorded.
CheckResult(a) ==
    /\ monitor[a]
    /\ monitor' = [monitor EXCEPT ![a] = FALSE]
    /\ info' \in {info} \cup
           (IF docker = NoContainer THEN {} ELSE {[info EXCEPT ![a].state = "degraded"]})
    /\ UNCHANGED <<docker, ran, using, stopUsed>>

UseStep(t) ==
    \/ RemoveOld(t) \/ RunContainer(t) \/ RunFails(t) \/ MarkRunning(t) \/ waitForReady(t)
    \/ StopContainer(t) \/ MarkStopped(t)

ManagedNext ==
    \/ \E t \in Turn : UseStep(t) \/ \E m \in ServiceManager : EnsureRunning(t, m) \/ BeginStop(t, m)
    \/ \E a \in Agent : CheckState(a) \/ CheckResult(a)

ManagedSpec == ManagedInit /\ [][ManagedNext]_managedVars

(***************************************************************************)
(* Properties                                                              *)
(***************************************************************************)

ManagedTypeOK ==
    /\ info \in [ServiceManager ->
           [state : {"stopped", "starting", "running", "degraded", "stopping", "error"},
            container : Container \cup {NoContainer}]]
    /\ docker \in Container \cup {NoContainer} /\ ran \in 0..MaxContainer
    /\ using \in [Turn ->
           [step : {"idle", "over", "remove", "run", "mark", "wait", "stop", "stopped"},
            of : ServiceManager, container : Container \cup {NoContainer}]]
    /\ monitor \in [Agent -> BOOLEAN]
    /\ stopUsed \subseteq ServiceManager

Starters(m) == {t \in Turn : using[t].of = m /\ using[t].step \in {"remove", "run", "mark"}}

\* Turns that need the service at once start its container once, as long as the manager
\* has not been asked to stop it, whatever the health checks say meanwhile; and its state
\* says that the container is starting just while one of them starts it.
StartedOnce ==
    \A m \in ServiceManager \ stopUsed :
        /\ Cardinality(Starters(m)) <= 1
        /\ Starters(m) # {} <=> info[m].state = "starting"

\* A manager that says its service runs has its container.
NotTakenAway ==
    \A a \in Agent : info[a].state = "running" => docker = info[a].container

\* "Stop a managed service": when `operator services stop` says that the service is stopped,
\* no container has its name.
CommandStops ==
    [][\A t \in Command :
           BeginStop(t, t) /\ using'[t].step = "over" => docker = NoContainer]_managedVars
=============================================================================
