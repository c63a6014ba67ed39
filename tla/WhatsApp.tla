------------------------------- MODULE WhatsApp -------------------------------
(***************************************************************************)
(* The WhatsApp channel in the process itself (pkg/channels/               *)
(* whatsapp_native): Start opens a store and connects a client of          *)
(* whatsmeow, a goroutine shows QR codes until the device is paired,       *)
(* another one reconnects with a backoff, and Stop waits for both before   *)
(* it closes the store.  The channel manager holds its lock around Start   *)
(* and around Stop, so neither runs during the other.                      *)
(* Left out: messages in both directions, and the reconnecting that        *)
(* whatsmeow does by itself.                                               *)
(***************************************************************************)
EXTENDS Naturals, FiniteSets

CONSTANTS
    MaxStart,     \* bound: calls of Start that construct a client
    Reconnecter,  \* goroutines of reconnectWithBackoff
    MaxDrop,      \* bound: connections lost
    NoClient

ASSUME WhatsAppAssumption ==
    MaxStart \in Nat /\ MaxDrop \in Nat /\ NoClient \notin Nat /\ IsFiniteSet(Reconnecter)

WaClient == 1..MaxStart

VARIABLES
    calls,        \* the caller of Start and Stop: its next step
    made,         \* clients constructed
    client,       \* c.client
    online,       \* clients that are connected
    store,        \* of each client: its container
    runCanceled,  \* c.runCtx is canceled
    stopping,     \* c.stopping
    reconnecting, \* c.reconnecting
    qr,           \* the goroutine of the QR codes is running
    event,        \* Disconnected events on their way to eventHandler
    again,        \* reconnectWithBackoff: the next step and its copy of c.client
    drops,        \* connections lost
    hurried       \* history: a Stop has not waited to the end

clientVars == <<made, client, online, store>>
flagVars == <<runCanceled, stopping, reconnecting>>
goVars == <<qr, event, again>>
countVars == <<drops, hurried>>
waVars == <<calls, clientVars, flagVars, goVars, countVars>>

NotAgain == [step |-> "off", client |-> NoClient]

WaInit ==
    /\ calls = "stopped" /\ made = 0 /\ client = NoClient
    /\ online = {} /\ store = [k \in WaClient |-> "none"]
    /\ runCanceled = TRUE /\ stopping = FALSE /\ reconnecting = FALSE
    /\ qr = FALSE /\ event = 0 /\ again = [r \in Reconnecter |-> NotAgain]
    /\ drops = 0 /\ hurried = FALSE

\* The wait group: goroutines that have been counted and are not done.
Group == {r \in Reconnecter : again[r].step # "off"}
GroupEmpty == Group = {} /\ ~qr

(***************************************************************************)
(* Start                                                                   *)
(***************************************************************************)

StartReset ==
    /\ calls = "stopped" /\ made < MaxStart
    /\ stopping' = FALSE /\ reconnecting' = FALSE
    /\ calls' = "open"
    /\ UNCHANGED <<clientVars, runCanceled, goVars, countVars>>

\* The store cannot be opened, upgraded or read: whatever was opened is closed again.
OpenFails ==
    /\ calls = "open"
    /\ calls' = "failed"
    /\ UNCHANGED <<clientVars, flagVars, goVars, countVars>>

OpenStore ==
    /\ calls = "open"
    /\ made' = made + 1 /\ client' = made + 1
    /\ store' = [store EXCEPT ![made + 1] = "open"]
    /\ runCanceled' = FALSE
    /\ calls' = "connect"
    /\ UNCHANGED <<online, stopping, reconnecting, goVars, countVars>>

\* cleanupOnError.
StartFails ==
    /\ calls = "connect"
    /\ runCanceled' = TRUE
    /\ online' = online \ {client}
    /\ store' = [store EXCEPT ![client] = "closed"]
    /\ client' = NoClient
    /\ calls' = "failed"
    /\ UNCHANGED <<made, stopping, reconnecting, goVars, countVars>>

\* Connected; a device that is not paired gets a goroutine for the QR codes.
StartConnects ==
    /\ calls = "connect"
    /\ online' = online \cup {client}
    /\ qr' \in {qr, TRUE}
    /\ calls' = "running"
    /\ UNCHANGED <<made, client, store, flagVars, event, again, countVars>>

(***************************************************************************)
(* The goroutines                                                          *)
(***************************************************************************)

\* The context c.runCtx of the moment is canceled, or the channel of codes is closed.
EndQR ==
    /\ qr
    /\ qr' = FALSE
    /\ UNCHANGED <<calls, clientVars, flagVars, event, again, countVars>>

\* The server or the network ends the connection.
Drop(k) ==
    /\ k \in online /\ drops < MaxDrop
    /\ online' = online \ {k}
    /\ event' = event + 1 /\ drops' = drops + 1
    /\ UNCHANGED <<calls, made, client, store, flagVars, qr, again, hurried>>

\* A new goroutine of reconnectWithBackoff, counted under the lock of the flags.
SpawnAgain ==
    \E r \in Reconnecter \ Group :
        again' = [again EXCEPT ![r] = [step |-> "check", client |-> NoClient]]

\* MUTANT: a channel that is being stopped starts one all the same.
eventHandlerStopping ==
    /\ event > 0
    /\ event' = event - 1
    /\ IF reconnecting THEN UNCHANGED <<reconnecting, again>>
       ELSE reconnecting' = TRUE /\ SpawnAgain
    /\ UNCHANGED <<calls, clientVars, runCanceled, stopping, qr, countVars>>

eventHandler ==
    /\ event > 0
    /\ event' = event - 1
    /\ IF reconnecting \/ stopping THEN UNCHANGED <<reconnecting, again>>
       ELSE reconnecting' = TRUE /\ SpawnAgain
    /\ UNCHANGED <<calls, clientVars, runCanceled, stopping, qr, countVars>>

AgainGoes(r, step, k) == again' = [again EXCEPT ![r] = [step |-> step, client |-> k]]

\* The loop looks at the context and takes the client ...
AgainCheck(r) ==
    /\ again[r].step = "check"
    /\ IF runCanceled \/ client = NoClient
       THEN AgainGoes(r, "leave", NoClient)
       ELSE AgainGoes(r, "connect", client)
    /\ UNCHANGED <<calls, clientVars, flagVars, qr, event, countVars>>

\* ... and connects it, or sleeps for the backoff.
AgainConnects(r) ==
    /\ again[r].step = "connect"
    /\ online' = online \cup {again[r].client}
    /\ AgainGoes(r, "leave", NoClient)
    /\ UNCHANGED <<calls, made, client, store, flagVars, qr, event, countVars>>

AgainFails(r) ==
    /\ again[r].step = "connect"
    /\ AgainGoes(r, "check", NoClient)
    /\ UNCHANGED <<calls, clientVars, flagVars, qr, event, countVars>>

AgainLeaves(r) ==
    /\ again[r].step = "leave"
    /\ reconnecting' = FALSE
    /\ AgainGoes(r, "done", NoClient)
    /\ UNCHANGED <<calls, clientVars, runCanceled, stopping, qr, event, countVars>>

AgainDone(r) ==
    /\ again[r].step = "done"
    /\ AgainGoes(r, "off", NoClient)
    /\ UNCHANGED <<calls, clientVars, flagVars, qr, event, countVars>>

reconnectWithBackoff(r) ==
    AgainCheck(r) \/ AgainConnects(r) \/ AgainFails(r) \/ AgainLeaves(r) \/ AgainDone(r)

(***************************************************************************)
(* Stop                                                                    *)
(***************************************************************************)

StopMark ==
    /\ calls \in {"running", "failed"}
    /\ stopping' = TRUE
    /\ calls' = "cancel"
    /\ UNCHANGED <<clientVars, runCanceled, reconnecting, goVars, countVars>>

CancelRun ==
    /\ calls = "cancel"
    /\ runCanceled' = TRUE
    /\ calls' = "disconnect"
    /\ UNCHANGED <<clientVars, stopping, reconnecting, goVars, countVars>>

Disconnect ==
    /\ calls = "disconnect"
    /\ online' = online \ {client}
    /\ calls' = "wait"
    /\ UNCHANGED <<made, client, store, flagVars, goVars, countVars>>

WaitGroupDone ==
    /\ calls = "wait" /\ GroupEmpty
    /\ calls' = "clear"
    /\ UNCHANGED <<clientVars, flagVars, goVars, countVars>>

\* The caller's context ends first.
WaitTooLong ==
    /\ calls = "wait" /\ ~GroupEmpty
    /\ hurried' = TRUE
    /\ calls' = "clear"
    /\ UNCHANGED <<clientVars, flagVars, goVars, drops>>

ClearClient ==
    /\ calls = "clear"
    /\ store' = IF client = NoClient THEN store ELSE [store EXCEPT ![client] = "closed"]
    /\ client' = NoClient
    /\ calls' = "stopped"
    /\ UNCHANGED <<made, online, flagVars, goVars, countVars>>

WaNext ==
    \/ StartReset \/ OpenFails \/ OpenStore \/ StartFails \/ StartConnects
    \/ EndQR \/ eventHandler
    \/ \E k \in WaClient : Drop(k)
    \/ \E r \in Reconnecter : reconnectWithBackoff(r)
    \/ StopMark \/ CancelRun \/ Disconnect \/ WaitGroupDone \/ WaitTooLong \/ ClearClient

WaSpec == WaInit /\ [][WaNext]_waVars

(***************************************************************************)
(* Properties                                                              *)
(***************************************************************************)

WaTypeOK ==
    /\ calls \in {"stopped", "open", "connect", "running", "failed",
                  "cancel", "disconnect", "wait", "clear"}
    /\ made \in 0..MaxStart /\ client \in WaClient \cup {NoClient}
    /\ online \subseteq WaClient
    /\ store \in [WaClient -> {"none", "open", "closed"}]
    /\ runCanceled \in BOOLEAN /\ stopping \in BOOLEAN /\ reconnecting \in BOOLEAN
    /\ qr \in BOOLEAN /\ event \in 0..MaxDrop
    /\ again \in [Reconnecter ->
           [step : {"off", "check", "connect", "leave", "done"},
            client : WaClient \cup {NoClient}]]
    /\ drops \in 0..MaxDrop /\ hurried \in BOOLEAN

\* "Now it is safe to clear and close resources": while no Stop was cut short, none of the
\* goroutines is left from the moment Stop has waited for them, and until then the client they
\* work with has its store open, unless it is one that Start has given up.
StoreOutlivesUsers ==
    hurried \/ /\ calls \in {"clear", "stopped"} => GroupEmpty
               /\ \A r \in Group : again[r].client # NoClient /\ client # NoClient =>
                     store[again[r].client] = "open"

\* "cleanupOnError ... prevents ... stray event handler callbacks": also when Start fails, no
\* goroutine works with a client whose store is closed.
NoStrayCallback ==
    hurried \/ \A r \in Group : again[r].client # NoClient => store[again[r].client] = "open"

\* "Disconnect the client first so any blocking Connect()/reconnect loops can be interrupted":
\* no client is connected once the channel has stopped.
StopDisconnects == calls = "stopped" /\ ~hurried => online = {}

\* A channel that was started again has one goroutine that reconnects, not two.
OneReconnect == Cardinality({r \in Group : again[r].step # "done"}) <= 1
=============================================================================
