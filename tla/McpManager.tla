------------------------------ MODULE McpManager ------------------------------
(***************************************************************************)
(* The manager of the MCP servers (pkg/mcp/manager.go) as the agent loop   *)
(* uses it: it connects the configured servers, then turns call their      *)
(* tools, and Run closes the manager when it returns.  Turns of scheduled  *)
(* jobs, heartbeats and subagents go on meanwhile, and keep calling.       *)
(* A session stands for the connection and the process behind it.          *)
(* Left out: transports, environment files, arguments and results.         *)
(***************************************************************************)
EXTENDS Naturals, FiniteSets

CONSTANTS
    Server,      \* enabled servers of the configuration
    ToolCall,    \* calls of CallTool
    NoServer

ASSUME McpAssumption == NoServer \notin Server /\ IsFiniteSet(Server) /\ IsFiniteSet(ToolCall)

VARIABLES
    session,   \* each server's session
    servers,   \* Manager.servers: the names
    mcpClosed, \* Manager.closed
    calling,   \* CallTool: the next step and the server of each call
    closing,   \* Close: the next step
    early,     \* history: calls counted when Close set the flag
    cutOff     \* history: calls whose session was closed while they used it

mcpVars == <<session, servers, mcpClosed, calling, closing, early, cutOff>>

McpInit ==
    /\ session = [s \in Server |-> "none"]
    /\ servers = {}
    /\ mcpClosed = FALSE
    /\ calling = [c \in ToolCall |-> [step |-> "new", server |-> NoServer]]
    /\ closing = "no"
    /\ early = {} /\ cutOff = {}

sessionVars == <<session, servers>>
mcpHistory == <<early, cutOff>>

\* Manager.wg and the readers of Manager.mu.
InFlight == {c \in ToolCall : calling[c].step = "calling"}
Counted == {c \in ToolCall : calling[c].step \in {"unlock", "calling"}}
Readers == {c \in ToolCall : calling[c].step \in {"check", "add", "unlock"}}

(***************************************************************************)
(* LoadFromMCPConfig: a goroutine per server, and Run waits for all        *)
(***************************************************************************)

\* The session is opened and the tools are listed; the connection is not yet stored.
ConnectServer(s) ==
    /\ session[s] = "none"
    /\ session' \in {[session EXCEPT ![s] = "open"], [session EXCEPT ![s] = "failed"]}
    /\ UNCHANGED <<servers, mcpClosed, calling, closing, mcpHistory>>

StoreConnection(s) ==
    /\ session[s] = "open" /\ s \notin servers /\ closing = "no"
    /\ servers' = servers \cup {s}
    /\ UNCHANGED <<session, mcpClosed, calling, closing, mcpHistory>>

\* Every goroutine has ended, with a connection or without: the tools are registered.
Loaded == \A s \in Server : session[s] = "failed" \/ s \in servers

(***************************************************************************)
(* CallTool                                                                *)
(***************************************************************************)

Proceed(c, step) == calling' = [calling EXCEPT ![c].step = step]

\* A turn calls a registered tool; the flag is looked at without the lock ...
BeginCall(c) ==
    /\ Loaded \/ closing # "no"
    /\ calling[c].step = "new"
    /\ \E s \in {t \in Server : session[t] \in {"open", "closed"}} :
          calling' = [calling EXCEPT
              ![c] = [step |-> IF mcpClosed THEN "refused" ELSE "lock", server |-> s]]
    /\ UNCHANGED <<sessionVars, mcpClosed, closing, mcpHistory>>

ReadLock(c) ==
    /\ calling[c].step = "lock"
    /\ Proceed(c, "check")
    /\ UNCHANGED <<sessionVars, mcpClosed, closing, mcpHistory>>

\* ... and once more under the lock.
CheckAgain(c) ==
    /\ calling[c].step = "check"
    /\ Proceed(c, IF mcpClosed THEN "refused"
                  ELSE IF calling[c].server \in servers THEN "add" ELSE "unknown")
    /\ UNCHANGED <<sessionVars, mcpClosed, closing, mcpHistory>>

AddToGroup(c) ==
    /\ calling[c].step = "add"
    /\ Proceed(c, "unlock")
    /\ UNCHANGED <<sessionVars, mcpClosed, closing, mcpHistory>>

ReadUnlock(c) ==
    /\ calling[c].step = "unlock"
    /\ Proceed(c, "calling")
    /\ UNCHANGED <<sessionVars, mcpClosed, closing, mcpHistory>>

\* The server answers, or the session is closed, or the context has ended.
EndCall(c) ==
    /\ calling[c].step = "calling"
    /\ Proceed(c, "ended")
    /\ UNCHANGED <<sessionVars, mcpClosed, closing, mcpHistory>>

CallTool(c) ==
    ReadLock(c) \/ CheckAgain(c) \/ AddToGroup(c) \/ ReadUnlock(c) \/ EndCall(c)

(***************************************************************************)
(* Close                                                                   *)
(***************************************************************************)

\* Run returns: closed is set and the calls already counted are waited for.
CloseSwap ==
    /\ Loaded /\ closing = "no"
    /\ mcpClosed' = TRUE
    /\ closing' = "wait"
    /\ early' = Counted
    /\ UNCHANGED <<sessionVars, calling, cutOff>>

\* MUTANT: nobody waits.
CloseWaitsNot ==
    /\ closing = "wait"
    /\ closing' = "lock"
    /\ UNCHANGED <<sessionVars, mcpClosed, calling, mcpHistory>>

CloseWait ==
    /\ closing = "wait"
    /\ Counted = {}
    /\ closing' = "lock"
    /\ UNCHANGED <<sessionVars, mcpClosed, calling, mcpHistory>>

\* MUTANT: the connections are forgotten first.
CloseForgets ==
    /\ closing = "lock" /\ Readers = {}
    /\ closing' = "closed"
    /\ servers' = {}
    /\ UNCHANGED <<session, mcpClosed, calling, mcpHistory>>

\* Under the lock every session is closed, errors or not, and forgotten.
CloseSessions ==
    /\ closing = "lock" /\ Readers = {}
    /\ closing' = "closed"
    /\ session' = [s \in Server |-> IF s \in servers THEN "closed" ELSE session[s]]
    /\ servers' = {}
    /\ cutOff' = cutOff \cup {c \in InFlight : calling[c].server \in servers}
    /\ UNCHANGED <<mcpClosed, calling, early>>

McpNext ==
    \/ \E s \in Server : ConnectServer(s) \/ StoreConnection(s)
    \/ \E c \in ToolCall : BeginCall(c) \/ CallTool(c)
    \/ CloseSwap \/ CloseWait \/ CloseSessions

McpSpec == McpInit /\ [][McpNext]_mcpVars

(***************************************************************************)
(* Properties                                                              *)
(***************************************************************************)

McpTypeOK ==
    /\ session \in [Server -> {"none", "open", "failed", "closed"}]
    /\ servers \subseteq Server
    /\ mcpClosed \in BOOLEAN
    /\ calling \in [ToolCall ->
           [step : {"new", "lock", "check", "add", "unlock", "calling",
                    "ended", "refused", "unknown"},
            server : Server \cup {NoServer}]]
    /\ closing \in {"no", "wait", "lock", "closed"}
    /\ early \subseteq ToolCall /\ cutOff \subseteq ToolCall

\* A call that was counted when Close set the flag keeps its session to the end, and when
\* Close is done no session is open: no process of a server is left behind.
CloseIsComplete ==
    /\ early \cap cutOff = {}
    /\ closing = "closed" => \A s \in Server : session[s] # "open"

\* "After closed=true is set, no new CallTool can start (they check closed first)": no call
\* loses its session.
NoneCutOff == cutOff = {}
=============================================================================
