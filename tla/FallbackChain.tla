--------------------------- MODULE FallbackChain ---------------------------
(***************************************************************************)
(* FallbackChain.Execute and the CooldownTracker (pkg/providers/fallback.go *)
(* and cooldown.go).  The turns of all agents share one tracker; each call *)
(* of Execute tries the candidates of its agent in order.  Its lock makes  *)
(* IsAvailable, MarkFailure and MarkSuccess atomic, but a provider call    *)
(* runs without it: other calls may close or open the provider meanwhile.  *)
(*                                                                         *)
(* The tracker's points in time are kept relative to now: a cooldown as    *)
(* the time left, LastFailure as its age.  Counts stop at the number from  *)
(* which the cooldown no longer grows, the age at Window + 1, where it     *)
(* resets the counts however old it is; a zero LastFailure, with its zero  *)
(* counts, is as good as an old one.  Of the reasons only billing is told  *)
(* apart.  A candidate is its provider: two models of one provider share   *)
(* its entry.                                                              *)
(***************************************************************************)
EXTENDS Naturals, Sequences

CONSTANTS
    Caller,         \* goroutines that run turns
    Provider,
    CandidateList,  \* the candidates of the agents: sequences of providers
    Steps,          \* the error count from which cooldowns no longer grow (4)
    Standard,       \* calculateStandardCooldown for 1..Steps errors (1, 5, 25, 60 min)
    Billing,        \* calculateBillingCooldown for 1..Steps errors (5, 10, 20, 24 h)
    Window,         \* failureWindow (24 h)
    None

\* Cooldowns grow with the count and never outlast the failure window.
Backoff(table) ==
    /\ table \in [1..Steps -> 1..Window]
    /\ \A i, j \in 1..Steps : i <= j => table[i] <= table[j]

ASSUME BackoffAssumption ==
    Steps \in Nat \ {0} /\ Window \in Nat /\ Backoff(Standard) /\ Backoff(Billing)
ASSUME CandidateAssumption == CandidateList \subseteq Seq(Provider) /\ None \notin Provider

VARIABLES
    entry,  \* the tracker's entry of each provider
    call    \* the call of Execute each caller is in

vars == <<entry, call>>

Fresh == [errors |-> 0, billing |-> 0, cooldown |-> 0, disabled |-> 0, age |-> Window + 1]
Idle == [pc |-> "idle", list |-> <<>>, i |-> 1, canceled |-> FALSE]

Smaller(m, n) == IF m < n THEN m ELSE n

Init ==
    /\ entry = [p \in Provider |-> Fresh]
    /\ call = [c \in Caller |-> Idle]

IsAvailable(p) == entry[p].disabled = 0 /\ entry[p].cooldown = 0

\* No failure within the window: the counts are reset.
Reset(e) == e.age > Window

\* Mutant: another failure puts its cooldown in the place of a billing disable.
MarkFailureReplace(p, reason) ==
    LET e == entry[p]
        errors == Smaller(Steps, (IF Reset(e) THEN 0 ELSE e.errors) + 1)
        billing == Smaller(Steps, (IF Reset(e) THEN 0 ELSE e.billing)
                                  + IF reason = "billing" THEN 1 ELSE 0) IN
    [errors |-> errors, billing |-> billing, age |-> 0,
     cooldown |-> IF reason = "billing" THEN 0 ELSE Standard[errors],
     disabled |-> IF reason = "billing" THEN Billing[billing] ELSE 0]

\* MarkFailure: the entry of p after one more failure.
MarkFailure(p, reason) ==
    LET e == entry[p]
        errors == Smaller(Steps, (IF Reset(e) THEN 0 ELSE e.errors) + 1)
        billing == Smaller(Steps, (IF Reset(e) THEN 0 ELSE e.billing)
                                  + IF reason = "billing" THEN 1 ELSE 0) IN
    [errors |-> errors, billing |-> billing, age |-> 0,
     cooldown |-> IF reason = "billing" THEN e.cooldown ELSE Standard[errors],
     disabled |-> IF reason = "billing" THEN Billing[billing] ELSE e.disabled]

\* MarkSuccess: everything is reset but LastFailure.
MarkSuccess(p) ==
    [entry[p] EXCEPT !.errors = 0, !.billing = 0, !.cooldown = 0, !.disabled = 0]

----------------------------------------------------------------------------
Current(c) == call[c].list[call[c].i]

\* A call to Execute; with fewer than two candidates callLLM does without it.
Execute(c, list) ==
    /\ call[c].pc = "idle" /\ Len(list) > 1
    /\ call' = [call EXCEPT ![c] = [pc |-> "check", list |-> list, i |-> 1, canceled |-> FALSE]]
    /\ UNCHANGED entry

\* The context of a turn is canceled (shutdown).
Cancel(c) ==
    /\ call[c].pc # "idle" /\ ~call[c].canceled
    /\ call' = [call EXCEPT ![c].canceled = TRUE]
    /\ UNCHANGED entry

\* Execute returns: a canceled context before the next attempt, or no candidate left.
Return(c) ==
    /\ call[c].pc = "check"
    /\ call[c].canceled \/ call[c].i > Len(call[c].list)
    /\ call' = [call EXCEPT ![c] = Idle]
    /\ UNCHANGED entry

\* Mutant: a skipped candidate counts as a failure of its provider.
SkipAsFailure(c) ==
    /\ call[c].pc = "check" /\ ~call[c].canceled /\ call[c].i <= Len(call[c].list)
    /\ ~IsAvailable(Current(c))
    /\ call' = [call EXCEPT ![c].i = @ + 1]
    /\ entry' = [entry EXCEPT ![Current(c)] = MarkFailure(Current(c), "other")]

\* The provider is in cooldown: the candidate is skipped.
Skip(c) ==
    /\ call[c].pc = "check" /\ ~call[c].canceled /\ call[c].i <= Len(call[c].list)
    /\ ~IsAvailable(Current(c))
    /\ call' = [call EXCEPT ![c].i = @ + 1]
    /\ UNCHANGED entry

\* The provider is available: run is called.
Run(c) ==
    /\ call[c].pc = "check" /\ ~call[c].canceled /\ call[c].i <= Len(call[c].list)
    /\ IsAvailable(Current(c))
    /\ call' = [call EXCEPT ![c].pc = "run"]
    /\ UNCHANGED entry

\* run succeeds.
Succeed(c) ==
    /\ call[c].pc = "run"
    /\ entry' = [entry EXCEPT ![Current(c)] = MarkSuccess(Current(c))]
    /\ call' = [call EXCEPT ![c] = Idle]

\* run fails because the context was canceled, with an error ClassifyError does not
\* know, or with a format error: Execute returns and the tracker learns nothing.
Abort(c) ==
    /\ call[c].pc = "run"
    /\ call' = [call EXCEPT ![c] = Idle]
    /\ UNCHANGED entry

\* run fails with a retriable error: on to the next candidate, if there is one.
Fail(c, reason) ==
    /\ call[c].pc = "run" /\ ~call[c].canceled
    /\ entry' = [entry EXCEPT ![Current(c)] = MarkFailure(Current(c), reason)]
    /\ call' = IF call[c].i = Len(call[c].list) THEN [call EXCEPT ![c] = Idle]
               ELSE [call EXCEPT ![c].pc = "check", ![c].i = @ + 1]

\* Time passes.
Tick ==
    /\ entry' = [p \in Provider |->
           [entry[p] EXCEPT !.cooldown = IF @ = 0 THEN 0 ELSE @ - 1,
                            !.disabled = IF @ = 0 THEN 0 ELSE @ - 1,
                            !.age = Smaller(Window + 1, @ + 1)]]
    /\ UNCHANGED call

Step(c) ==
    \/ Return(c) \/ Skip(c) \/ Run(c) \/ Succeed(c) \/ Abort(c)
    \/ \E reason \in {"billing", "other"} : Fail(c, reason)

Next ==
    \/ Tick
    \/ \E c \in Caller : Step(c) \/ Cancel(c) \/ \E list \in CandidateList : Execute(c, list)

Spec == Init /\ [][Next]_vars

\* Time goes on.  Nothing is assumed of the callers: a provider call need not return.
FairSpec == Spec /\ WF_vars(Tick)

----------------------------------------------------------------------------
(* Properties                                                              *)

EntryType ==
    [errors : 0..Steps, billing : 0..Steps, cooldown : 0..Window, disabled : 0..Window,
     age : 0..Window + 1]
CallType == [pc : {"idle", "check", "run"}, list : Seq(Provider), i : Nat \ {0}, canceled : BOOLEAN]

\* Every variable holds a value of its type: no cooldown outlasts the failure window,
\* and a candidate that is being tried exists.
TypeOK ==
    /\ entry \in [Provider -> EntryType]
    /\ call \in [Caller -> CallType]
    /\ \A c \in Caller : call[c].pc = "run" => call[c].i <= Len(call[c].list)

\* MarkFailure and MarkSuccess keep the counts together: never more billing failures
\* than failures, and a provider that is closed has a failure on record.
CountsAgree ==
    \A p \in Provider :
        /\ entry[p].billing <= entry[p].errors
        /\ entry[p].errors = 0 => IsAvailable(p)

Closed(p) == IF entry[p].disabled < entry[p].cooldown THEN entry[p].cooldown ELSE entry[p].disabled

Gate == INSTANCE ProviderGate
    WITH Wait <- 1..Window,
         closed <- [p \in Provider |-> Closed(p)],
         calling <- [c \in Caller |-> IF call[c].pc = "run" THEN Current(c) ELSE None]

\* The tracker overwrites CooldownEnd and DisabledUntil with every failure, and resets
\* its counts after a day, yet keeps the promise of ProviderGate: a failure, however late
\* it comes in, never opens a provider earlier than an earlier failure said.
ImplementsGate == Gate!Spec

\* A provider in cooldown is available again some time: skipping it does not keep it there.
Recovers == \A p \in Provider : []<>IsAvailable(p)
=============================================================================
