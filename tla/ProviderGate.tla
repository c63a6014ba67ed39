---------------------------- MODULE ProviderGate ----------------------------
(***************************************************************************)
(* What the cooldown tracker promises its callers: a failed call closes    *)
(* the provider for some time, no later failure opens it earlier, and no   *)
(* call starts at a closed provider.  Only a successful call or the        *)
(* passing of time opens it.                                               *)
(***************************************************************************)
EXTENDS Naturals

CONSTANTS
    Caller,    \* goroutines that call a provider
    Provider,
    Wait,      \* the times a failure may close a provider for
    None

VARIABLES
    closed,    \* how long each provider is still closed
    calling    \* the provider each caller waits for, or None

vars == <<closed, calling>>

Init ==
    /\ closed = [p \in Provider |-> 0]
    /\ calling = [c \in Caller |-> None]

Start(c, p) ==
    /\ calling[c] = None /\ closed[p] = 0
    /\ calling' = [calling EXCEPT ![c] = p]
    /\ UNCHANGED closed

\* The call ends: it opens the provider, keeps it closed for at least w, or (an error
\* that says nothing about the provider) leaves it as it is.
Return(c, p) ==
    /\ calling[c] = p
    /\ calling' = [calling EXCEPT ![c] = None]
    /\ \/ closed' = [closed EXCEPT ![p] = 0]
       \/ \E w \in Wait : closed' = [closed EXCEPT ![p] = IF @ < w THEN w ELSE @]
       \/ UNCHANGED closed

Tick ==
    /\ closed' = [p \in Provider |-> IF closed[p] = 0 THEN 0 ELSE closed[p] - 1]
    /\ UNCHANGED calling

Next ==
    \/ Tick
    \/ \E c \in Caller, p \in Provider : Start(c, p) \/ Return(c, p)

Spec == Init /\ [][Next]_vars
=============================================================================
