------------------------------- MODULE AuthFile -------------------------------
(***************************************************************************)
(* The credentials of model providers in auth.json (pkg/auth/store.go):    *)
(* every turn that calls a provider reads the file, refreshes the access   *)
(* token if it is about to expire and writes the file again; logging in    *)
(* and out are commands of their own.  Each writer loads the whole file,   *)
(* changes one entry and saves it; there is no lock, neither between the   *)
(* goroutines of a process nor between processes.                          *)
(* Left out: the database backend (no command sets it), token and account  *)
(* data, the flows of a login, and removing the whole file.                *)
(***************************************************************************)
EXTENDS Naturals

CONSTANTS
    Provider,
    Projected,   \* providers whose credential has a project ID (Antigravity)
    AuthCaller,  \* goroutines and commands that use credentials
    MaxGrant,    \* bound: access tokens granted
    NoCred

Grant == 1..MaxGrant
\* A credential: its access token, and the grant its refresh token came with.
Cred == [access : Grant, refresh : Grant, project : BOOLEAN]

ASSUME AuthAssumption ==
    /\ Provider # {} /\ Projected \subseteq Provider
    /\ MaxGrant \in Nat /\ NoCred \notin Cred

AuthStore == [Provider -> Cred \cup {NoCred}]

VARIABLES
    authFile,  \* auth.json
    caller,    \* each caller: next step, provider, credential, copy of the file, step after saving
    granted,   \* grants so far
    stale,     \* access tokens that expire within five minutes
    spent,     \* refresh tokens that the provider has replaced
    latest,    \* history: what was granted last for each provider, NoCred after a logout
    reused,    \* history: a spent refresh token has been presented
    crowded,   \* history: two callers have been under way at once
    unsaved    \* history: a save has failed, or an answer of the provider was lost

authVars == <<authFile, caller, granted, stale, spent, latest, reused, crowded, unsaved>>
tokenVars == <<granted, stale, spent>>
authHistory == <<latest, reused, crowded, unsaved>>

NothingStored == [p \in Provider |-> NoCred]
Resting == [step |-> "idle", of |-> CHOOSE p \in Provider : TRUE,
            cred |-> NoCred, copy |-> NothingStored, then |-> "idle"]

AuthInit ==
    /\ authFile = NothingStored
    /\ caller = [c \in AuthCaller |-> Resting]
    /\ granted = 0 /\ stale = {} /\ spent = {}
    /\ latest = NothingStored
    /\ reused = FALSE /\ crowded = FALSE /\ unsaved = FALSE

Rests(c) == caller' = [caller EXCEPT ![c] = Resting]
Crowd(c) == crowded' = (crowded \/ \E d \in AuthCaller \ {c} : caller[d].step # "idle")

Expire(g) ==
    /\ g \in (1..granted) \ stale
    /\ stale' = stale \cup {g}
    /\ UNCHANGED <<authFile, caller, granted, spent, authHistory>>

(***************************************************************************)
(* Commands                                                                *)
(***************************************************************************)

\* A login gets a credential, with a project or without, and stores it.
Login(c, p) ==
    /\ caller[c].step = "idle" /\ granted < MaxGrant
    /\ granted' = granted + 1
    /\ \E project \in BOOLEAN :
          LET cred == [access |-> granted + 1, refresh |-> granted + 1,
                       project |-> project /\ p \in Projected]
          IN  /\ caller' = [caller EXCEPT ![c] =
                     [Resting EXCEPT !.step = "load", !.of = p, !.cred = cred]]
              /\ latest' = [latest EXCEPT ![p] = cred]
    /\ Crowd(c)
    /\ UNCHANGED <<authFile, stale, spent, reused, unsaved>>

Logout(c, p) ==
    /\ caller[c].step = "idle"
    /\ caller' = [caller EXCEPT ![c] = [Resting EXCEPT !.step = "load", !.of = p]]
    /\ latest' = [latest EXCEPT ![p] = NoCred]
    /\ Crowd(c)
    /\ UNCHANGED <<authFile, tokenVars, reused, unsaved>>

(***************************************************************************)
(* The token source of a provider                                          *)
(***************************************************************************)

\* What is left to do for a credential that is valid: fetch a project it has not.
Afterwards(p, cred) == IF p \in Projected /\ ~cred.project THEN "project" ELSE "idle"

GetCredential(c, p) ==
    /\ caller[c].step = "idle"
    /\ LET cred == authFile[p] IN
          /\ cred # NoCred
          /\ caller' = [caller EXCEPT ![c] = [Resting EXCEPT
                 !.step = IF cred.access \in stale THEN "refresh" ELSE Afterwards(p, cred),
                 !.of = p, !.cred = cred]]
    /\ Crowd(c)
    /\ UNCHANGED <<authFile, tokenVars, latest, reused, unsaved>>

\* MUTANT: an answer without a refresh token leaves the credential without its old one.
RefreshForgets(c) ==
    LET p == caller[c].of
        cred == caller[c].cred
        new == [cred EXCEPT !.access = granted + 1, !.refresh = granted + 1]
    IN  /\ caller[c].step = "refresh" /\ granted < MaxGrant
        /\ cred.refresh \notin spent
        /\ granted' = granted + 1
        /\ caller' = [caller EXCEPT ![c].step = "load", ![c].cred = new,
                                   ![c].then = Afterwards(p, cred)]
        /\ \E rotated \in BOOLEAN :
              /\ spent' = IF rotated THEN spent \cup {cred.refresh} ELSE spent
              /\ latest' = [latest EXCEPT ![p] =
                     IF rotated THEN new ELSE [new EXCEPT !.refresh = cred.refresh]]
        /\ UNCHANGED <<authFile, stale, reused, crowded, unsaved>>

\* The provider grants an access token, with a refresh token that replaces the old one or
\* without; then the old one is kept.
RefreshAccessToken(c) ==
    LET p == caller[c].of
        cred == caller[c].cred
    IN  /\ caller[c].step = "refresh" /\ granted < MaxGrant
        /\ cred.refresh \notin spent
        /\ granted' = granted + 1
        /\ \E rotated \in BOOLEAN :
              LET new == [cred EXCEPT !.access = granted + 1,
                                      !.refresh = IF rotated THEN granted + 1 ELSE @]
              IN  /\ spent' = IF rotated THEN spent \cup {cred.refresh} ELSE spent
                  /\ caller' = [caller EXCEPT ![c].step = "load", ![c].cred = new,
                                             ![c].then = Afterwards(p, cred)]
                  /\ latest' = [latest EXCEPT ![p] = new]
        /\ UNCHANGED <<authFile, stale, reused, crowded, unsaved>>

\* The provider refuses a spent token, does not answer, or its answer does not arrive.
RefreshFails(c) ==
    LET r == caller[c].cred.refresh
    IN  /\ caller[c].step = "refresh"
        /\ reused' = (reused \/ r \in spent)
        /\ \/ UNCHANGED <<spent, unsaved>>
           \/ spent' = spent \cup {r} /\ unsaved' = TRUE
        /\ Rests(c)
        /\ UNCHANGED <<authFile, granted, stale, latest, crowded>>

\* FetchAntigravityProjectID; without an answer a default is used and nothing is stored.
FetchProject(c) ==
    /\ caller[c].step = "project"
    /\ \/ /\ caller' = [caller EXCEPT ![c].step = "load", ![c].cred.project = TRUE]
          /\ latest' = IF latest[caller[c].of] = caller[c].cred
                       THEN [latest EXCEPT ![caller[c].of].project = TRUE] ELSE latest
       \/ Rests(c) /\ UNCHANGED latest
    /\ UNCHANGED <<authFile, tokenVars, reused, crowded, unsaved>>

(***************************************************************************)
(* SetCredential and DeleteCredential                                      *)
(***************************************************************************)

\* MUTANT: the other entries are not loaded.
LoadNothing(c) ==
    /\ caller[c].step = "load"
    /\ caller' = [caller EXCEPT ![c].step = "save",
           ![c].copy = [NothingStored EXCEPT ![caller[c].of] = caller[c].cred]]
    /\ UNCHANGED <<authFile, tokenVars, authHistory>>

LoadStore(c) ==
    /\ caller[c].step = "load"
    /\ caller' = [caller EXCEPT ![c].step = "save",
           ![c].copy = [authFile EXCEPT ![caller[c].of] = caller[c].cred]]
    /\ UNCHANGED <<authFile, tokenVars, authHistory>>

\* WriteFileAtomic.  A refreshed Antigravity credential may still need its project.
SaveStore(c) ==
    /\ caller[c].step = "save"
    /\ \/ /\ authFile' = caller[c].copy
          /\ caller' = [caller EXCEPT ![c] = IF @.then = "idle" THEN Resting
                 ELSE [@ EXCEPT !.step = "project", !.then = "idle", !.copy = NothingStored]]
          /\ UNCHANGED unsaved
       \/ unsaved' = TRUE /\ UNCHANGED authFile /\ Rests(c)
    /\ UNCHANGED <<tokenVars, latest, reused, crowded>>

AuthStep(c) ==
    \/ RefreshAccessToken(c) \/ RefreshFails(c) \/ FetchProject(c)
    \/ LoadStore(c) \/ SaveStore(c)

AuthNext ==
    \/ \E g \in Grant : Expire(g)
    \/ \E c \in AuthCaller :
           AuthStep(c) \/ \E p \in Provider : Login(c, p) \/ Logout(c, p) \/ GetCredential(c, p)

AuthSpec == AuthInit /\ [][AuthNext]_authVars

(***************************************************************************)
(* Properties                                                              *)
(***************************************************************************)

AuthTypeOK ==
    /\ authFile \in AuthStore
    /\ caller \in [AuthCaller ->
           [step : {"idle", "refresh", "project", "load", "save"}, of : Provider,
            cred : Cred \cup {NoCred}, copy : AuthStore, then : {"idle", "project"}]]
    /\ granted \in 0..MaxGrant /\ stale \subseteq Grant /\ spent \subseteq Grant
    /\ latest \in AuthStore
    /\ {reused, crowded, unsaved} \subseteq BOOLEAN

\* As long as one caller follows the other and every save succeeds, no spent refresh token
\* is presented, and between two callers the file holds what was granted last for each
\* provider, whether the provider replaces refresh tokens or not.
LastGrantStored ==
    ~crowded /\ ~unsaved =>
        /\ ~reused
        /\ (\A c \in AuthCaller : caller[c].step = "idle") => authFile = latest

\* No spent refresh token is presented, whoever else is under way.
NeverReused == ~unsaved => ~reused

\* A credential of one provider is not lost to a caller that deals with another one.
OthersKept ==
    [][\A c \in AuthCaller : \A p \in Provider :
           SaveStore(c) /\ caller[c].of # p => authFile'[p] = authFile[p]]_authVars
=============================================================================
