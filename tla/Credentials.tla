----------------------------- MODULE Credentials -----------------------------
(***************************************************************************)
(* The credential of one user for one OAuth integration: the vault         *)
(* (pkg/oauth/vault.go), the TokenRefreshManager that keeps it fresh       *)
(* (pkg/oauth/refresh_manager.go), the authorization flow that creates it  *)
(* (pkg/oauth/service.go) and the management API that connects and         *)
(* disconnects the integration (pkg/integrations/management_api.go).       *)
(* Every map and table is keyed by the pair, so one pair is enough.        *)
(* Tokens are numbered by the provider; 0 stands for no refresh token.     *)
(***************************************************************************)
EXTENDS Naturals, FiniteSets

CONSTANTS
    Sweeper,      \* goroutines maybeRefresh starts
    Caller,       \* goroutines that call RefreshCredential or EnsureFresh
    Nil,
    MaxToken,     \* bound: refresh tokens the provider issues
    Ttl,          \* lifetime of an access token
    NeedsWithin,  \* VaultCredential.NeedsRefresh: 5 minutes
    SweepWithin,  \* RefreshConfig.RefreshBefore
    MaxRetries    \* RefreshConfig.MaxRetries

Refresher == Sweeper \cup Caller
Token == 0..MaxToken

ASSUME CredentialsAssumption ==
    /\ MaxToken \in Nat /\ Ttl \in Nat
    /\ NeedsWithin \in Nat /\ SweepWithin \in Nat /\ MaxRetries \in Nat \ {0}
    /\ IsFiniteSet(Sweeper) /\ Sweeper \cap Caller = {}
    /\ Nil \notin Refresher
    /\ Nil \notin [token : Token, left : 0..Ttl, status : {"active", "revoked"}]
    /\ Nil \notin [token : Token, left : 0..Ttl, sent : Token]

VARIABLES
    cred,      \* the vault's row
    row,       \* the user_integrations row
    flow,      \* an unused state record of the OAuth flow exists
    valid,     \* refresh tokens the provider accepts
    issued,    \* refresh tokens it has issued
    lost,      \* history: exchanged tokens whose successor never reached the vault
    holder,    \* who holds the credential's mutex (inflight)
    refresh,   \* where each refresher is
    current,   \* doRefresh's copy of the credential, and the token it presents
    retries,   \* consecutive failures (refreshState.retries)
    wait,      \* time to refreshState.nextRetry
    leaving,   \* the next step of handleDisconnect
    sweeping   \* loop runs

retryVars == <<retries, wait>>
providerVars == <<valid, issued, lost>>
apiVars == <<row, flow, leaving>>
credVars == <<cred, apiVars, providerVars, holder, refresh, current, retryVars, sweeping>>

Credential == [token : Token, left : 0..Ttl, status : {"active", "revoked"}]
Copy == [token : Token, left : 0..Ttl, sent : Token]

CredInit ==
    /\ cred = Nil
    /\ row = "none" /\ flow = FALSE /\ leaving = "no"
    /\ valid = {} /\ issued = 0 /\ lost = {}
    /\ holder = Nil
    /\ refresh = [p \in Refresher |-> "idle"]
    /\ current = [p \in Refresher |-> Nil]
    /\ retries = 0 /\ wait = 0
    /\ sweeping = TRUE

(***************************************************************************)
(* The management API and the authorization flow                           *)
(***************************************************************************)

\* StartFlow persists a state record, or fails and the row says so.
StartFlow ==
    \/ row' = "pending" /\ flow' = TRUE
    \/ row' = "failed" /\ UNCHANGED flow

\* A new connection ends what a finished disconnect has left.
Returning == leaving' = IF leaving = "done" THEN "no" ELSE leaving

handleConnect ==
    /\ row \in {"none", "failed"}
    /\ StartFlow
    /\ Returning
    /\ UNCHANGED <<cred, providerVars, holder, refresh, current, retryVars, sweeping>>

handleReconnect ==
    /\ row # "none"
    /\ StartFlow
    /\ Returning
    /\ retries' = 0 /\ wait' = 0
    /\ UNCHANGED <<cred, providerVars, holder, refresh, current, sweeping>>

\* HandleCallback uses up the state record; the tokens of a successful exchange go to
\* the vault with StoreFromTokenResponse, without the credential's mutex.
HandleCallback ==
    /\ flow
    /\ flow' = FALSE
    /\ \/ UNCHANGED <<cred, valid, issued, leaving>>
       \/ \E refreshable \in BOOLEAN :
             LET t == IF refreshable THEN issued + 1 ELSE 0 IN
             /\ t \in Token
             /\ cred' = [token |-> t, left |-> Ttl, status |-> "active"]
             /\ issued' = IF refreshable THEN t ELSE issued
             /\ valid' = valid \cup ({t} \ {0})
             /\ Returning
    /\ UNCHANGED <<row, lost, holder, refresh, current, retryVars, sweeping>>

\* handleDisconnect: Revoke, ResetRetries, delete the integration's row, delete the
\* credential; another request or a refresh can come between any two of them.  The vault's
\* errors are ignored, one of the store ends the request.
handleDisconnect ==
    /\ leaving \in {"no", "done"} /\ row # "none"
    /\ leaving' = "revoke"
    /\ UNCHANGED <<cred, row, flow, providerVars, holder, refresh, current, retryVars, sweeping>>

Revoke ==
    /\ leaving = "revoke"
    /\ leaving' = "reset"
    /\ cred' \in {cred} \cup (IF cred = Nil THEN {} ELSE {[cred EXCEPT !.status = "revoked"]})
    /\ UNCHANGED <<row, flow, providerVars, holder, refresh, current, retryVars, sweeping>>

ResetRetries ==
    /\ leaving = "reset"
    /\ leaving' = "row"
    /\ retries' = 0 /\ wait' = 0
    /\ UNCHANGED <<cred, row, flow, providerVars, holder, refresh, current, sweeping>>

DeleteRow ==
    /\ leaving = "row"
    /\ \/ row' = "none" /\ leaving' = "credential"
       \/ row' = row /\ leaving' = "no"
    /\ UNCHANGED <<cred, flow, providerVars, holder, refresh, current, retryVars, sweeping>>

DeleteCredential ==
    /\ leaving = "credential"
    /\ \/ cred' = Nil /\ leaving' = "done"
       \/ cred' = cred /\ leaving' = "no"
    /\ UNCHANGED <<row, flow, providerVars, holder, refresh, current, retryVars, sweeping>>

(***************************************************************************)
(* The refresh manager                                                     *)
(***************************************************************************)

Due == cred # Nil /\ cred.left < NeedsWithin
Listed == cred # Nil /\ cred.status = "active" /\ cred.left < SweepWithin

\* MUTANT: a credential that failed once is not tried again.
SweepOnce(p) ==
    /\ sweeping /\ Listed /\ retries = 0 /\ wait = 0
    /\ refresh[p] = "idle"
    /\ refresh' = [refresh EXCEPT ![p] = "lock"]
    /\ UNCHANGED <<cred, apiVars, providerVars, holder, current, retryVars, sweeping>>

\* checkAll lists the credential and maybeRefresh starts a goroutine for it.
Sweep(p) ==
    /\ sweeping /\ Listed /\ retries < MaxRetries /\ wait = 0
    /\ refresh[p] = "idle"
    /\ refresh' = [refresh EXCEPT ![p] = "lock"]
    /\ UNCHANGED <<cred, apiVars, providerVars, holder, current, retryVars, sweeping>>

RefreshCredential(p) ==
    /\ cred # Nil /\ cred.token # 0
    /\ refresh[p] = "idle"
    /\ refresh' = [refresh EXCEPT ![p] = "lock"]
    /\ UNCHANGED <<cred, apiVars, providerVars, holder, current, retryVars, sweeping>>

EnsureFresh(p) == Due /\ RefreshCredential(p)

\* doRefresh has returned an error: refreshCredential counts it, a caller gets it.
Failed(p) == refresh' = [refresh EXCEPT ![p] = IF p \in Sweeper THEN "count" ELSE "idle"]

\* MUTANT: the mutex is not taken.
LockNothing(p) ==
    /\ refresh[p] = "lock"
    /\ \/ /\ Due /\ cred.token # 0
          /\ refresh' = [refresh EXCEPT ![p] = "send"]
          /\ current' = [current EXCEPT ![p] =
                 [token |-> cred.token, left |-> cred.left, sent |-> cred.token]]
          /\ UNCHANGED retryVars
       \/ /\ cred # Nil /\ ~Due
          /\ refresh' = [refresh EXCEPT ![p] = "idle"]
          /\ retries' = 0 /\ wait' = 0
          /\ UNCHANGED current
       \/ Failed(p) /\ UNCHANGED <<current, retryVars>>
    /\ UNCHANGED <<cred, apiVars, providerVars, holder, sweeping>>

\* doRefresh takes the mutex and reads the credential again: it may be fresh by now, gone,
\* without a refresh token, or the vault may fail.
Lock(p) ==
    /\ refresh[p] = "lock" /\ holder = Nil
    /\ \/ /\ Due /\ cred.token # 0
          /\ holder' = p
          /\ refresh' = [refresh EXCEPT ![p] = "send"]
          /\ current' = [current EXCEPT ![p] =
                 [token |-> cred.token, left |-> cred.left, sent |-> cred.token]]
          /\ UNCHANGED retryVars
       \/ /\ cred # Nil /\ ~Due
          /\ refresh' = [refresh EXCEPT ![p] = "idle"]
          /\ retries' = 0 /\ wait' = 0
          /\ UNCHANGED <<holder, current>>
       \/ Failed(p) /\ UNCHANGED <<holder, current, retryVars>>
    /\ UNCHANGED <<cred, apiVars, providerVars, sweeping>>

Unlock(p) == holder' = Nil /\ current' = [current EXCEPT ![p] = Nil]

\* Service.RefreshToken.  The provider may keep the refresh token or replace it, and may
\* leave out the lifetime (ExpiresAt then stays); the answer may be lost on the way, and
\* the request may be refused or never arrive.
Exchange(p) ==
    LET old == current[p].token
        new == issued + 1
    IN
    /\ refresh[p] = "send"
    /\ \/ /\ old \in valid
          /\ \E left \in {Ttl, current[p].left} :
                current' = [current EXCEPT ![p].left = left]
          /\ refresh' = [refresh EXCEPT ![p] = "store"]
          /\ UNCHANGED <<providerVars, holder>>
       \/ /\ old \in valid /\ new \in Token
          /\ issued' = new /\ valid' = (valid \ {old}) \cup {new}
          /\ \/ /\ \E left \in {Ttl, current[p].left} :
                      current' = [current EXCEPT ![p] =
                          [token |-> new, left |-> left, sent |-> old]]
                /\ refresh' = [refresh EXCEPT ![p] = "store"]
                /\ UNCHANGED <<lost, holder>>
             \/ lost' = lost \cup {old} /\ Failed(p) /\ Unlock(p)
       \/ Failed(p) /\ Unlock(p) /\ UNCHANGED providerVars
    /\ UNCHANGED <<cred, apiVars, retryVars, sweeping>>

\* MUTANT: the error path of Store returns with the mutex held.
StoreKeepsLock(p) ==
    /\ refresh[p] = "store"
    /\ \/ /\ cred' = [token |-> current[p].token, left |-> current[p].left, status |-> "active"]
          /\ retries' = 0 /\ wait' = 0
          /\ refresh' = [refresh EXCEPT ![p] = "idle"]
          /\ Unlock(p)
          /\ UNCHANGED lost
       \/ /\ lost' = lost \cup ({current[p].sent} \ {current[p].token})
          /\ Failed(p)
          /\ UNCHANGED <<cred, holder, current, retryVars>>
    /\ UNCHANGED <<apiVars, valid, issued, sweeping>>

\* doRefresh stores its copy, whatever the vault holds by now, and clears the retries; or
\* Store fails.
Store(p) ==
    /\ refresh[p] = "store"
    /\ \/ /\ cred' = [token |-> current[p].token, left |-> current[p].left, status |-> "active"]
          /\ retries' = 0 /\ wait' = 0
          /\ refresh' = [refresh EXCEPT ![p] = "idle"]
          /\ UNCHANGED lost
       \/ /\ lost' = lost \cup ({current[p].sent} \ {current[p].token})
          /\ Failed(p)
          /\ UNCHANGED <<cred, retryVars>>
    /\ Unlock(p)
    /\ UNCHANGED <<apiVars, valid, issued, sweeping>>

\* refreshCredential counts the failure, after doRefresh has released the mutex.
CountFailure(p) ==
    /\ refresh[p] = "count"
    /\ retries' = retries + 1
    /\ wait' = 2 ^ retries
    /\ refresh' = [refresh EXCEPT ![p] = "idle"]
    /\ UNCHANGED <<cred, apiVars, providerVars, holder, current, sweeping>>

(***************************************************************************)
(* Time, Stop, and a crash that loses what is only in memory               *)
(***************************************************************************)

Less(n) == IF n > 0 THEN n - 1 ELSE 0

Tick ==
    /\ wait > 0 \/ (cred # Nil /\ cred.left > 0)
    /\ wait' = Less(wait)
    /\ cred' = IF cred = Nil THEN Nil ELSE [cred EXCEPT !.left = Less(@)]
    /\ current' = [p \in Refresher |->
           IF current[p] = Nil THEN Nil ELSE [current[p] EXCEPT !.left = Less(@)]]
    /\ UNCHANGED <<apiVars, providerVars, holder, refresh, retries, sweeping>>

Stop ==
    /\ sweeping
    /\ sweeping' = FALSE
    /\ UNCHANGED <<cred, apiVars, providerVars, holder, refresh, current, retryVars>>

Crash ==
    /\ sweeping' = FALSE
    /\ lost' = lost \cup {current[p].sent : p \in {q \in Refresher :
                              refresh[q] = "store" /\ current[q].sent # current[q].token}}
    /\ holder' = Nil
    /\ refresh' = [p \in Refresher |-> "idle"]
    /\ current' = [p \in Refresher |-> Nil]
    /\ retries' = 0 /\ wait' = 0
    /\ leaving' = IF leaving = "done" THEN "done" ELSE "no"
    /\ UNCHANGED <<cred, row, flow, valid, issued>>

\* NewTokenRefreshManager and Start, once nothing of the previous manager is left.
Start ==
    /\ ~sweeping /\ \A p \in Refresher : refresh[p] = "idle"
    /\ sweeping' = TRUE
    /\ retries' = 0 /\ wait' = 0
    /\ UNCHANGED <<cred, apiVars, providerVars, holder, refresh, current>>

(***************************************************************************)
(* Specification                                                           *)
(***************************************************************************)

ApiStep ==
    \/ handleConnect \/ handleReconnect \/ HandleCallback
    \/ handleDisconnect \/ Revoke \/ ResetRetries \/ DeleteRow \/ DeleteCredential

RefreshStep(p) == Lock(p) \/ Exchange(p) \/ Store(p) \/ CountFailure(p)

CredNext ==
    \/ ApiStep
    \/ \E p \in Sweeper : Sweep(p)
    \/ \E p \in Caller : RefreshCredential(p) \/ EnsureFresh(p)
    \/ \E p \in Refresher : RefreshStep(p)
    \/ Tick \/ Stop \/ Crash \/ Start

CredSpec == CredInit /\ [][CredNext]_credVars

\* Go's mutex hands itself over to whoever waits longest (strong fairness of Lock); the
\* HTTP client has a timeout of 30 s and the vault's calls return (weak fairness of the
\* other steps); the ticker keeps calling checkAll and time passes.
CredFairness ==
    /\ \A p \in Refresher :
          SF_credVars(Lock(p)) /\ WF_credVars(Exchange(p) \/ Store(p) \/ CountFailure(p))
    /\ \A p \in Sweeper : WF_credVars(Sweep(p))
    /\ WF_credVars(Tick)

CredFairSpec == CredSpec /\ CredFairness

(***************************************************************************)
(* Properties                                                              *)
(***************************************************************************)

\* Types; and the failures counted exceed MaxRetries at most by the goroutines that were
\* started before the last one was counted (maybeRefresh checks, the goroutine counts).
CredTypeOK ==
    /\ cred \in Credential \cup {Nil}
    /\ row \in {"none", "pending", "failed"} /\ flow \in BOOLEAN
    /\ leaving \in {"no", "revoke", "reset", "row", "credential", "done"}
    /\ valid \subseteq Token /\ issued \in Token /\ lost \subseteq Token
    /\ holder \in Refresher \cup {Nil}
    /\ refresh \in [Refresher -> {"idle", "lock", "send", "store", "count"}]
    /\ current \in [Refresher -> Copy \cup {Nil}]
    /\ retries \in Nat /\ retries < MaxRetries + Cardinality(Sweeper) /\ wait \in Nat
    /\ sweeping \in BOOLEAN

\* doRefresh never presents a refresh token that an earlier refresh has exchanged already,
\* unless that refresh lost the successor (the answer or its Store failed, or the process
\* died in between): providers with rotation take a second use for theft.
NoReuse ==
    \A p \in Refresher : refresh[p] = "send" => current[p].token \in valid \cup lost

\* Every refresh comes to an end, so that the credential's mutex is free again and
\* RefreshCredential returns.
RefreshEnds == \A p \in Refresher : []<>(refresh[p] = "idle")

\* While the loop runs, an active credential that needs a refresh is presented to the
\* provider, or the attempt fails before that and is counted, unless the retries are used
\* up or it stops being due.
DueIsTried ==
    []<>(\/ \E p \in Refresher : refresh[p] \in {"send", "count"}
         \/ ~sweeping \/ ~Due \/ retries >= MaxRetries
         \/ Due /\ cred.status # "active")

\* "handleDisconnect disconnects an integration, revoking tokens and cleaning up": once it
\* is done, the vault holds no credential until the user authorizes again.
DisconnectCleansUp == leaving = "done" => cred = Nil
=============================================================================
