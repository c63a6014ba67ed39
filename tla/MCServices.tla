------------------------------ MODULE MCServices ------------------------------
(***************************************************************************)
(* TLC instances of ten services in the background: subagents, the OAuth   *)
(* credentials and the subscription of a user, the workers, the accounts,  *)
(* the MCP servers, the heartbeat, a managed container, the credentials of *)
(* model providers and the media files.  They share no state, so each is   *)
(* explored by itself: the initial state picks one, and the others stand   *)
(* still.                                                                  *)
(***************************************************************************)
EXTENDS Subagents, Credentials, Billing, Workers, Accounts, McpManager, LastChannel,
        ManagedServices, AuthFile, MediaStore, TLC

\* Two workers with one goroutine each.
CONSTANTS l1, l2, w1, w2
OneLoopEach == (l1 :> w1) @@ (l2 :> w2)

\* What administrators ask for.
PromotionAndSuspension ==
    {[role |-> "admin", status |-> "same"], [role |-> "same", status |-> "suspended"]}

\* A plan change, an invoice Stripe has given up, and what the maps do not know.
SomeReports ==
    {[status |-> "active", price |-> "pro"], [status |-> "unpaid", price |-> "pro"],
     [status |-> "incomplete", price |-> "unknown"]}

\* Two messages with a file each, or one message that is delivered twice.
CONSTANTS d1, d2, f1, f2
OwnFiles == (d1 :> f1) @@ (d2 :> f2)
SameFile == (d1 :> f1) @@ (d2 :> f1)

VARIABLE part

servicesVars ==
    <<part, subVars, credVars, billVars, workersVars, accountVars, mcpVars, lastVars,
      managedVars, authVars, mediaVars>>

ServicesInit ==
    /\ part \in {"subagents", "credentials", "billing", "workers",
                 "accounts", "mcp", "heartbeat", "containers", "auth", "media"}
    /\ SubInit /\ CredInit /\ BillInit /\ WorkersInit /\ AccountInit /\ McpInit /\ LastInit
    /\ ManagedInit /\ AuthInit /\ MediaInit

Delegating ==
    /\ part = "subagents" /\ UNCHANGED part
    /\ UNCHANGED <<credVars, billVars, workersVars, accountVars, mcpVars, lastVars, managedVars, authVars, mediaVars>>
Connecting ==
    /\ part = "credentials" /\ UNCHANGED part
    /\ UNCHANGED <<subVars, billVars, workersVars, accountVars, mcpVars, lastVars, managedVars, authVars, mediaVars>>
Paying ==
    /\ part = "billing" /\ UNCHANGED part
    /\ UNCHANGED <<subVars, credVars, workersVars, accountVars, mcpVars, lastVars, managedVars, authVars, mediaVars>>
Working ==
    /\ part = "workers" /\ UNCHANGED part
    /\ UNCHANGED <<subVars, credVars, billVars, accountVars, mcpVars, lastVars, managedVars, authVars, mediaVars>>
Administrating ==
    /\ part = "accounts" /\ UNCHANGED part
    /\ UNCHANGED <<subVars, credVars, billVars, workersVars, mcpVars, lastVars, managedVars, authVars, mediaVars>>
Tooling ==
    /\ part = "mcp" /\ UNCHANGED part
    /\ UNCHANGED <<subVars, credVars, billVars, workersVars, accountVars, lastVars, managedVars, authVars, mediaVars>>
Beating ==
    /\ part = "heartbeat" /\ UNCHANGED part
    /\ UNCHANGED <<subVars, credVars, billVars, workersVars, accountVars, mcpVars, managedVars, authVars, mediaVars>>
Hosting ==
    /\ part = "containers" /\ UNCHANGED part
    /\ UNCHANGED <<subVars, credVars, billVars, workersVars, accountVars, mcpVars, lastVars, authVars, mediaVars>>
Authorizing ==
    /\ part = "auth" /\ UNCHANGED part
    /\ UNCHANGED <<subVars, credVars, billVars, workersVars, accountVars, mcpVars, lastVars, managedVars, mediaVars>>
Filing ==
    /\ part = "media" /\ UNCHANGED part
    /\ UNCHANGED <<subVars, credVars, billVars, workersVars, accountVars, mcpVars, lastVars, managedVars, authVars>>

ServicesNext ==
    \/ Delegating /\ SubNext
    \/ Connecting /\ CredNext
    \/ Paying /\ BillNext
    \/ Working /\ WorkersNext
    \/ Administrating /\ AccountNext
    \/ Tooling /\ McpNext
    \/ Beating /\ LastNext
    \/ Hosting /\ ManagedNext
    \/ Authorizing /\ AuthNext
    \/ Filing /\ MediaNext

ServicesSpec == ServicesInit /\ [][ServicesNext]_servicesVars

\* CredFairness and WorkersFairness, each for its own part.
ServicesFairness ==
    /\ \A p \in Refresher :
          /\ SF_servicesVars(Connecting /\ Lock(p))
          /\ WF_servicesVars(Connecting /\ (Exchange(p) \/ Store(p) \/ CountFailure(p)))
    /\ \A p \in Sweeper : WF_servicesVars(Connecting /\ Sweep(p))
    /\ WF_servicesVars(Connecting /\ Tick)
    /\ \A l \in Loop : WF_servicesVars(Working /\ Looping(l)) /\ SF_servicesVars(Working /\ Fetch(l))
    /\ \A w \in Worker :
          /\ WF_servicesVars(Working /\ (RunBegin(w) \/ RunLoops(w)))
          /\ WF_servicesVars(Working /\ RunEnd(w))
    /\ \A m \in Message : WF_servicesVars(Working /\ Redeliver(m))

ServicesFairSpec == ServicesSpec /\ ServicesFairness

\* The types of the ten parts.
TypeOK ==
    /\ SubTypeOK /\ CredTypeOK /\ BillTypeOK /\ WorkersTypeOK
    /\ AccountTypeOK /\ McpTypeOK /\ LastTypeOK
    /\ ManagedTypeOK /\ AuthTypeOK /\ MediaTypeOK
=============================================================================
