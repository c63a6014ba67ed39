------------------------ MODULE FallbackChainProofs ------------------------
(***************************************************************************)
(* Proofs about FallbackChain, for any callers, providers, candidates and  *)
(* cooldowns: the tracker implements ProviderGate.                         *)
(***************************************************************************)
EXTENDS FallbackChain, TLAPS

\* What the last failures left in an entry.  A cooldown that still runs was set, by the
\* last failure or before it, for no longer than the present count stands for, so the
\* next failure can only extend it, and a count that is reset has no cooldown left.
EntryOK(e) ==
    /\ e.billing <= e.errors
    /\ e.errors = 0 => e.cooldown = 0 /\ e.disabled = 0
    /\ e.cooldown > 0 => e.cooldown + e.age <= Standard[e.errors]
    /\ e.disabled > 0 => e.billing > 0 /\ e.disabled + e.age <= Billing[e.billing]

\* The inductive invariant.
IInv == TypeOK /\ \A p \in Provider : EntryOK(entry[p])

----------------------------------------------------------------------------
\* The table entries are positive times, no longer than the window.
LEMMA TableBounds ==
  ASSUME NEW i \in 1..Steps
  PROVE  Standard[i] \in 1..Window /\ Billing[i] \in 1..Window
  BY BackoffAssumption DEF Backoff

\* One more failure within the window never gets a shorter cooldown.
LEMMA TableGrows ==
  ASSUME NEW i \in 1..Steps, NEW j \in 1..Steps, i <= j
  PROVE  Standard[i] <= Standard[j] /\ Billing[i] <= Billing[j]
  BY BackoffAssumption DEF Backoff

\* What MarkFailure makes of an entry: neither of the two times gets shorter, and the
\* longer of them becomes the longer of the old one and the new cooldown.
LEMMA MarkFailureExtends ==
  ASSUME NEW p \in Provider, NEW reason \in {"billing", "other"},
         entry \in [Provider -> EntryType], EntryOK(entry[p]),
         NEW f, f = MarkFailure(p, reason)
  PROVE  /\ f \in EntryType /\ EntryOK(f)
         /\ f.cooldown >= entry[p].cooldown /\ f.disabled >= entry[p].disabled
         /\ reason = "billing" => f.cooldown = entry[p].cooldown /\ f.disabled \in 1..Window
         /\ reason = "other" => f.disabled = entry[p].disabled /\ f.cooldown \in 1..Window
<1> DEFINE e == entry[p]
           n0 == IF Reset(e) THEN 0 ELSE e.errors
           b0 == IF Reset(e) THEN 0 ELSE e.billing
           n == Smaller(Steps, n0 + 1)
           b == Smaller(Steps, b0 + IF reason = "billing" THEN 1 ELSE 0)
<1>1. /\ e.errors \in 0..Steps /\ e.billing \in 0..Steps /\ e.cooldown \in 0..Window
      /\ e.disabled \in 0..Window /\ e.age \in 0..Window + 1
  BY DEF EntryType
<1>2. /\ f.errors = n /\ f.billing = b /\ f.age = 0
      /\ f.cooldown = IF reason = "billing" THEN e.cooldown ELSE Standard[n]
      /\ f.disabled = IF reason = "billing" THEN Billing[b] ELSE e.disabled
      /\ f = [errors |-> f.errors, billing |-> f.billing, cooldown |-> f.cooldown,
              disabled |-> f.disabled, age |-> f.age]
  BY DEF MarkFailure
<1>3. Steps \in Nat \ {0} /\ Window \in Nat
  BY BackoffAssumption
<1>4. /\ n \in 1..Steps /\ b \in 0..Steps /\ b <= n /\ n0 <= n /\ b0 <= b
      /\ reason = "billing" => b >= 1
  BY <1>1, <1>3 DEF Smaller, EntryOK
<1>5. CASE Reset(e)
  <2>1. e.cooldown = 0 /\ e.disabled = 0
    <3>1. e.cooldown > 0 => e.errors \in 1..Steps /\ Standard[e.errors] \in 1..Window
      BY <1>1, <1>3, TableBounds DEF EntryOK
    <3>2. e.disabled > 0 => e.billing \in 1..Steps /\ Billing[e.billing] \in 1..Window
      BY <1>1, <1>3, TableBounds DEF EntryOK
    <3> QED BY <3>1, <3>2, <1>1, <1>3, <1>5 DEF Reset, EntryOK
  <2>2. Standard[n] \in 1..Window /\ (reason = "billing" => Billing[b] \in 1..Window)
    BY <1>3, <1>4, TableBounds
  <2> HIDE DEF n, b, e
  <2>3. EntryOK(f)
    BY <1>1, <1>2, <1>3, <1>4, <2>1, <2>2 DEF EntryOK
  <2>4. f \in EntryType
    BY <1>1, <1>2, <1>3, <1>4, <2>1, <2>2 DEF EntryType
  <2> QED BY <1>1, <1>2, <1>3, <2>1, <2>2, <2>3, <2>4 DEF e
<1>6. CASE ~Reset(e)
  <2>1. n0 = e.errors /\ b0 = e.billing
    BY <1>6
  <2>2. Standard[n] \in 1..Window /\ (reason = "billing" => Billing[b] \in 1..Window)
    BY <1>3, <1>4, TableBounds
  <2>3. e.cooldown <= Standard[n] /\ (e.cooldown > 0 => e.errors > 0)
    <3>1. CASE e.cooldown > 0
      <4>1. e.errors \in 1..Steps /\ e.errors <= n
        BY <3>1, <1>1, <1>3, <1>4, <2>1 DEF EntryOK
      <4>2. Standard[e.errors] <= Standard[n] /\ Standard[e.errors] \in 1..Window
        BY <4>1, <1>4, TableGrows, TableBounds
      <4> QED BY <3>1, <4>1, <4>2, <2>2, <1>1, <1>3 DEF EntryOK
    <3> QED BY <3>1, <2>2, <1>1, <1>3
  <2>4. e.disabled > 0 => b \in 1..Steps /\ e.disabled <= Billing[b] /\ Billing[b] \in 1..Window
    <3>1. SUFFICES ASSUME e.disabled > 0
                   PROVE  b \in 1..Steps /\ e.disabled <= Billing[b] /\ Billing[b] \in 1..Window
      OBVIOUS
    <3>2. e.billing \in 1..Steps /\ e.billing <= b /\ b \in 1..Steps
      BY <3>1, <1>1, <1>3, <1>4, <2>1 DEF EntryOK
    <3>3. Billing[e.billing] <= Billing[b] /\ Billing[e.billing] \in 1..Window /\ Billing[b] \in 1..Window
      BY <3>2, TableGrows, TableBounds
    <3> QED BY <3>1, <3>2, <3>3, <1>1, <1>3 DEF EntryOK
  <2> HIDE DEF n, b, e
  <2>5. EntryOK(f)
    BY <1>1, <1>2, <1>3, <1>4, <2>2, <2>3, <2>4 DEF EntryOK
  <2>6. f \in EntryType
    BY <1>1, <1>2, <1>3, <1>4, <2>2 DEF EntryType
  <2> QED BY <1>1, <1>2, <1>3, <2>2, <2>3, <2>4, <2>5, <2>6 DEF e
<1> QED BY <1>5, <1>6

\* MarkSuccess opens the provider; only the age of the last failure stays.
LEMMA MarkSuccessOpens ==
  ASSUME NEW p \in Provider, entry \in [Provider -> EntryType],
         NEW f, f = MarkSuccess(p)
  PROVE  f \in EntryType /\ EntryOK(f) /\ f.cooldown = 0 /\ f.disabled = 0
<1>1. /\ f.errors = 0 /\ f.billing = 0 /\ f.cooldown = 0 /\ f.disabled = 0 /\ f.age \in 0..Window + 1
      /\ f = [errors |-> f.errors, billing |-> f.billing, cooldown |-> f.cooldown,
              disabled |-> f.disabled, age |-> f.age]
  BY DEF MarkSuccess, EntryType
<1>2. EntryOK(f)
  BY <1>1 DEF EntryOK
<1>3. f \in EntryType
  BY <1>1, BackoffAssumption DEF EntryType
<1> QED BY <1>1, <1>2, <1>3

\* Time passing shortens both times by one, down to zero, and ages the last failure.
LEMMA TickAges ==
  ASSUME NEW p \in Provider, entry \in [Provider -> EntryType], EntryOK(entry[p]), Tick
  PROVE  /\ entry'[p] \in EntryType /\ EntryOK(entry'[p])
         /\ entry'[p].cooldown = IF entry[p].cooldown = 0 THEN 0 ELSE entry[p].cooldown - 1
         /\ entry'[p].disabled = IF entry[p].disabled = 0 THEN 0 ELSE entry[p].disabled - 1
<1> DEFINE e == entry[p]
           f == entry'[p]
<1>1. /\ e.errors \in 0..Steps /\ e.billing \in 0..Steps /\ e.cooldown \in 0..Window
      /\ e.disabled \in 0..Window /\ e.age \in 0..Window + 1
  BY DEF EntryType
<1>2. /\ f.errors = e.errors /\ f.billing = e.billing
      /\ f.cooldown = (IF e.cooldown = 0 THEN 0 ELSE e.cooldown - 1)
      /\ f.disabled = (IF e.disabled = 0 THEN 0 ELSE e.disabled - 1)
      /\ f.age = Smaller(Window + 1, e.age + 1)
      /\ f = [errors |-> f.errors, billing |-> f.billing, cooldown |-> f.cooldown,
              disabled |-> f.disabled, age |-> f.age]
  BY DEF Tick, EntryType
<1>3. Steps \in Nat \ {0} /\ Window \in Nat
  BY BackoffAssumption
<1>4. e.errors \in 1..Steps => Standard[e.errors] \in 1..Window
  BY TableBounds
<1>5. e.billing \in 1..Steps => Billing[e.billing] \in 1..Window
  BY TableBounds
<1>6. f.age \in 0..Window + 1 /\ f.age <= e.age + 1
  BY <1>1, <1>2, <1>3 DEF Smaller
<1>7. EntryOK(f)
  BY <1>1, <1>2, <1>3, <1>4, <1>5, <1>6 DEF EntryOK
<1>8. f \in EntryType
  BY <1>1, <1>2, <1>3, <1>6 DEF EntryType
<1> QED BY <1>2, <1>7, <1>8

\* A candidate that is being tried is one of the providers.
LEMMA CurrentIsProvider ==
  ASSUME TypeOK, NEW c \in Caller, call[c].i <= Len(call[c].list)
  PROVE  Current(c) \in Provider
<1>1. call[c].list \in Seq(Provider) /\ call[c].i \in Nat \ {0}
  BY DEF TypeOK, CallType
<1>2. call[c].i \in 1..Len(call[c].list)
  BY <1>1
<1> QED BY <1>1, <1>2 DEF Current

----------------------------------------------------------------------------
\* The initial state satisfies the invariant.
LEMMA InitIInv == Init => IInv
<1> SUFFICES ASSUME Init PROVE IInv
  OBVIOUS
<1>1. Fresh \in EntryType /\ EntryOK(Fresh)
  BY BackoffAssumption DEF Fresh, EntryType, EntryOK
<1>2. Idle \in CallType /\ Idle.pc = "idle"
  BY DEF Idle, CallType
<1> QED BY <1>1, <1>2 DEF Init, IInv, TypeOK

\* The steps that leave the tracker alone.
LEMMA CallStepsKeepIInv ==
  ASSUME IInv, NEW c \in Caller,
         \/ Return(c) \/ Skip(c) \/ Run(c) \/ Abort(c) \/ Cancel(c)
         \/ \E list \in CandidateList : Execute(c, list)
  PROVE  IInv'
<1> USE DEF IInv
<1>1. entry' = entry
  BY DEF Return, Skip, Run, Abort, Cancel, Execute
<1>2. Idle \in CallType /\ Idle.pc = "idle"
  BY DEF Idle, CallType
<1>3. PICK r \in CallType : /\ call' = [call EXCEPT ![c] = r]
                            /\ r.pc = "run" => r.i <= Len(r.list)
  <2>0. /\ call[c] \in CallType /\ call[c].i \in Nat \ {0}
        /\ call[c].pc = "run" => call[c].i <= Len(call[c].list)
    BY DEF TypeOK, CallType
  <2>1. CASE Return(c) \/ Abort(c)
    BY <2>1, <1>2 DEF Return, Abort
  <2>2. CASE Skip(c)
    <3> DEFINE r == [call[c] EXCEPT !.i = @ + 1]
    <3>1. r \in CallType /\ (r.pc = "run" => r.i <= Len(r.list))
      BY <2>0, <2>2 DEF Skip, CallType
    <3>2. call' = [call EXCEPT ![c] = r]
      BY <2>2 DEF Skip, TypeOK, CallType
    <3> QED BY <3>1, <3>2
  <2>3. CASE Run(c)
    <3> DEFINE r == [call[c] EXCEPT !.pc = "run"]
    <3>1. r \in CallType /\ (r.pc = "run" => r.i <= Len(r.list))
      BY <2>0, <2>3 DEF Run, CallType
    <3>2. call' = [call EXCEPT ![c] = r]
      BY <2>3 DEF Run, TypeOK, CallType
    <3> QED BY <3>1, <3>2
  <2>4. CASE Cancel(c)
    <3> DEFINE r == [call[c] EXCEPT !.canceled = TRUE]
    <3>1. r \in CallType /\ (r.pc = "run" => r.i <= Len(r.list))
      BY <2>0, <2>4 DEF Cancel, CallType
    <3>2. call' = [call EXCEPT ![c] = r]
      BY <2>4 DEF Cancel, TypeOK, CallType
    <3> QED BY <3>1, <3>2
  <2>5. ASSUME NEW list \in CandidateList, Execute(c, list)
        PROVE  \E r \in CallType : /\ call' = [call EXCEPT ![c] = r]
                                   /\ r.pc = "run" => r.i <= Len(r.list)
    <3> DEFINE r == [pc |-> "check", list |-> list, i |-> 1, canceled |-> FALSE]
    <3>1. r \in CallType /\ r.pc = "check"
      <4>1. list \in Seq(Provider)
        BY CandidateAssumption
      <4> QED BY <4>1 DEF CallType
    <3>2. call' = [call EXCEPT ![c] = r]
      BY <2>5 DEF Execute
    <3> HIDE DEF r
    <3> QED BY <3>1, <3>2
  <2> QED BY <2>1, <2>2, <2>3, <2>4, <2>5
<1>4. TypeOK'
  BY <1>1, <1>3 DEF TypeOK
<1> QED BY <1>1, <1>4

\* The end of a provider call, by which the tracker learns something.
LEMMA MarksKeepIInv ==
  ASSUME IInv, NEW c \in Caller,
         Succeed(c) \/ \E reason \in {"billing", "other"} : Fail(c, reason)
  PROVE  IInv'
<1> USE DEF IInv
<1>1. call[c].pc = "run" /\ call[c] \in CallType
  BY DEF Succeed, Fail, TypeOK
<1>2. Current(c) \in Provider
  BY <1>1, CurrentIsProvider DEF TypeOK
<1>3. PICK f \in EntryType : EntryOK(f) /\ entry' = [entry EXCEPT ![Current(c)] = f]
  <2>1. CASE Succeed(c)
    BY <2>1, <1>2, MarkSuccessOpens DEF Succeed, TypeOK
  <2>2. ASSUME NEW reason \in {"billing", "other"}, Fail(c, reason)
        PROVE  \E f \in EntryType : EntryOK(f) /\ entry' = [entry EXCEPT ![Current(c)] = f]
    BY <2>2, <1>2, MarkFailureExtends DEF Fail, TypeOK
  <2> QED BY <2>1, <2>2
<1>4. Idle \in CallType /\ Idle.pc = "idle"
  BY DEF Idle, CallType
<1>5. PICK r \in CallType : call' = [call EXCEPT ![c] = r] /\ r.pc # "run"
  <2>1. CASE call' = [call EXCEPT ![c] = Idle]
    BY <2>1, <1>4
  <2>2. CASE call' = [call EXCEPT ![c].pc = "check", ![c].i = @ + 1]
    <3> DEFINE r == [call[c] EXCEPT !.pc = "check", !.i = @ + 1]
    <3>1. r \in CallType /\ r.pc = "check"
      <4> DEFINE q == [call[c] EXCEPT !.pc = "check"]
      <4>1. q \in CallType /\ q.pc = "check" /\ q.i = call[c].i
        BY <1>1 DEF CallType
      <4>2. r = [q EXCEPT !.i = q.i + 1]
        BY <1>1, <4>1 DEF CallType
      <4> HIDE DEF q, r
      <4> QED BY <4>1, <4>2 DEF CallType
    <3>2. call' = [call EXCEPT ![c] = r]
      BY <2>2 DEF TypeOK, CallType
    <3> HIDE DEF r
    <3> QED BY <3>1, <3>2
  <2> QED BY <2>1, <2>2 DEF Succeed, Fail
<1>6. TypeOK'
  BY <1>3, <1>5 DEF TypeOK
<1>7. \A p \in Provider : EntryOK(entry'[p])
  BY <1>3 DEF TypeOK
<1> QED BY <1>6, <1>7

\* The invariant is inductive.
LEMMA NextIInv == IInv /\ [Next]_vars => IInv'
<1> SUFFICES ASSUME IInv, [Next]_vars PROVE IInv'
  OBVIOUS
<1>1. CASE UNCHANGED vars
  BY <1>1 DEF vars, IInv, TypeOK
<1>2. CASE Tick
  <2>1. \A p \in Provider : entry'[p] \in EntryType /\ EntryOK(entry'[p])
    BY <1>2, TickAges DEF IInv, TypeOK
  <2>2. TypeOK'
    BY <1>2, <2>1 DEF Tick, IInv, TypeOK
  <2> QED BY <2>1, <2>2 DEF IInv
<1>3. CASE \E c \in Caller : Step(c) \/ Cancel(c) \/ \E list \in CandidateList : Execute(c, list)
  BY <1>3, CallStepsKeepIInv, MarksKeepIInv DEF Step
<1> QED BY <1>1, <1>2, <1>3 DEF Next

\* The invariant holds in every reachable state.
LEMMA IInvHolds == Spec => []IInv
  BY InitIInv, NextIInv, PTL DEF Spec

\* Type correctness: no cooldown outlasts the failure window, and Execute never reads
\* past its candidates.
THEOREM TypeCorrect == Spec => []TypeOK
<1>1. IInv => TypeOK
  BY DEF IInv
<1> QED BY <1>1, IInvHolds, PTL

\* Billing failures are failures, and a closed provider has one on record.
THEOREM CountsAgreeHolds == Spec => []CountsAgree
<1>1. IInv => CountsAgree
  BY DEF IInv, CountsAgree, EntryOK, IsAvailable
<1> QED BY <1>1, IInvHolds, PTL

----------------------------------------------------------------------------
(* Refinement of ProviderGate.                                             *)

Calling(c) == IF call[c].pc = "run" THEN Current(c) ELSE None

\* The abstract variables are well typed; a caller calls exactly while it is in run.
LEMMA AbstractState ==
  ASSUME IInv
  PROVE  /\ \A p \in Provider : Closed(p) \in 0..Window /\ (Closed(p) = 0 <=> IsAvailable(p))
         /\ \A c \in Caller : Calling(c) \in Provider <=> call[c].pc = "run"
<1>1. \A p \in Provider : entry[p].cooldown \in 0..Window /\ entry[p].disabled \in 0..Window
  BY DEF IInv, TypeOK, EntryType
<1>2. \A c \in Caller : call[c].pc = "run" => Current(c) \in Provider
  BY CurrentIsProvider DEF IInv, TypeOK
<1>3. Window \in Nat
  BY BackoffAssumption
<1>4. \A p \in Provider : Closed(p) \in 0..Window /\ (Closed(p) = 0 <=> IsAvailable(p))
  BY <1>1, <1>3 DEF Closed, IsAvailable
<1> QED BY <1>2, <1>4, CandidateAssumption DEF Calling

\* A step that changes neither the tracker nor who is in run is a stutter.
LEMMA Stutter ==
  ASSUME IInv, entry' = entry, \A c \in Caller : Calling(c)' = Calling(c)
  PROVE  UNCHANGED Gate!vars
<1>1. [p \in Provider |-> Closed(p)]' = [p \in Provider |-> Closed(p)]
  BY DEF Closed
<1>2. [c \in Caller |-> Calling(c)]' = [c \in Caller |-> Calling(c)]
  OBVIOUS
<1> QED BY <1>1, <1>2 DEF Gate!vars, Calling

\* A provider call ends: the caller calls nobody, and the provider is open, closed for at
\* least as long as before, or as it was.
LEMMA ReturnStep ==
  ASSUME IInv, NEW c \in Caller, call[c].pc = "run", call'[c].pc # "run",
         NEW q \in Provider, q = Current(c),
         \A d \in Caller \ {c} : call'[d] = call[d],
         \A p \in Provider \ {q} : entry'[p] = entry[p],
         \/ Closed(q)' = 0
         \/ \E w \in 1..Window : Closed(q)' = IF Closed(q) < w THEN w ELSE Closed(q)
         \/ entry' = entry
  PROVE  Gate!Return(c, q)
<1> DEFINE cl == [p \in Provider |-> Closed(p)]
           ca == [d \in Caller |-> Calling(d)]
<1>2. ca[c] = q
  BY DEF Calling
<1>3. ca' = [ca EXCEPT ![c] = None]
  <2>1. Calling(c)' = None
    BY DEF Calling
  <2>2. ASSUME NEW d \in Caller, d # c PROVE Calling(d)' = Calling(d)
    BY <2>2 DEF Calling, Current
  <2> QED BY <2>1, <2>2
<1>4. \A p \in Provider \ {q} : Closed(p)' = Closed(p)
  BY DEF Closed
<1>6. cl' = [cl EXCEPT ![q] = Closed(q)']
  BY <1>4
<1>7. \/ cl' = [cl EXCEPT ![q] = 0]
      \/ \E w \in 1..Window : cl' = [cl EXCEPT ![q] = IF @ < w THEN w ELSE @]
      \/ cl' = cl
  <2>1. CASE Closed(q)' = 0
    BY <2>1, <1>6
  <2>2. CASE \E w \in 1..Window : Closed(q)' = IF Closed(q) < w THEN w ELSE Closed(q)
    BY <2>2, <1>6
  <2>3. CASE entry' = entry
    BY <2>3 DEF Closed
  <2> QED BY <2>1, <2>2, <2>3
<1> QED BY <1>2, <1>3, <1>7 DEF Gate!Return, Calling

\* Every step of Execute and of the tracker is one of ProviderGate, or changes nothing there.
LEMMA NextRefines == IInv /\ [Next]_vars => [Gate!Next]_(Gate!vars)
<1> SUFFICES ASSUME IInv, [Next]_vars PROVE Gate!Next \/ UNCHANGED Gate!vars
  OBVIOUS
<1>1. CASE UNCHANGED vars
  BY <1>1, Stutter DEF vars, Calling, Current
<1>2. CASE Tick
  <2>1. \A p \in Provider : Closed(p)' = IF Closed(p) = 0 THEN 0 ELSE Closed(p) - 1
    <3>1. SUFFICES ASSUME NEW p \in Provider
                   PROVE  Closed(p)' = IF Closed(p) = 0 THEN 0 ELSE Closed(p) - 1
      OBVIOUS
    <3>2. /\ entry'[p].cooldown = IF entry[p].cooldown = 0 THEN 0 ELSE entry[p].cooldown - 1
          /\ entry'[p].disabled = IF entry[p].disabled = 0 THEN 0 ELSE entry[p].disabled - 1
      BY <1>2, TickAges DEF IInv, TypeOK
    <3>3. entry[p].cooldown \in Nat /\ entry[p].disabled \in Nat
      BY BackoffAssumption DEF IInv, TypeOK, EntryType
    <3> QED BY <3>2, <3>3 DEF Closed
  <2>2. \A c \in Caller : Calling(c)' = Calling(c)
    BY <1>2 DEF Tick, Calling, Current
  <2>3. Gate!Tick
    BY <2>1, <2>2 DEF Gate!Tick, Calling
  <2> QED BY <2>3 DEF Gate!Next
<1>3. ASSUME NEW c \in Caller,
             Return(c) \/ Skip(c) \/ Cancel(c) \/ \E list \in CandidateList : Execute(c, list)
      PROVE  UNCHANGED Gate!vars
  <2>1. entry' = entry
    BY <1>3 DEF Return, Skip, Cancel, Execute
  <2>2. ASSUME NEW d \in Caller PROVE Calling(d)' = Calling(d)
    <3>1. d # c => call'[d] = call[d]
      BY <1>3 DEF Return, Skip, Cancel, Execute, IInv, TypeOK
    <3>2. \/ call[c].pc # "run" /\ call'[c].pc # "run"
          \/ call'[c].pc = call[c].pc /\ call'[c].list = call[c].list /\ call'[c].i = call[c].i
      <4>1. CASE Return(c)
        BY <4>1 DEF Return, IInv, TypeOK, Idle
      <4>2. CASE Skip(c)
        BY <4>2 DEF Skip, IInv, TypeOK, CallType
      <4>3. CASE Cancel(c)
        BY <4>3 DEF Cancel, IInv, TypeOK, CallType
      <4>4. CASE \E list \in CandidateList : Execute(c, list)
        BY <4>4 DEF Execute, IInv, TypeOK
      <4> QED BY <1>3, <4>1, <4>2, <4>3, <4>4
    <3> QED BY <3>1, <3>2 DEF Calling, Current
  <2> QED BY <2>1, <2>2, Stutter
<1>4. ASSUME NEW c \in Caller, Run(c) PROVE Gate!Next
  <2>0. call[c].pc = "check" /\ call[c].i <= Len(call[c].list) /\ IsAvailable(Current(c)) /\ entry' = entry
    BY <1>4 DEF Run
  <2>1. PICK q \in Provider : q = Current(c)
    BY <2>0, CurrentIsProvider DEF IInv
  <2>2. Closed(q) = 0 /\ Calling(c) = None
    BY <2>0, <2>1, AbstractState DEF Calling
  <2>3. Calling(c)' = q
    BY <1>4, <2>1 DEF Run, Calling, Current, IInv, TypeOK, CallType
  <2>4. ASSUME NEW d \in Caller, d # c PROVE Calling(d)' = Calling(d)
    BY <1>4, <2>4 DEF Run, Calling, Current, IInv, TypeOK
  <2>5. \A p \in Provider : Closed(p)' = Closed(p)
    BY <2>0 DEF Closed
  <2>6. Gate!Start(c, q)
    <3> DEFINE cl == [p \in Provider |-> Closed(p)]
               ca == [d \in Caller |-> Calling(d)]
    <3>1. ca[c] = None /\ cl[q] = 0
      BY <2>2
    <3>2. cl' = cl
      BY <2>5
    <3>3. ca' = [ca EXCEPT ![c] = q]
      BY <2>3, <2>4
    <3> QED BY <3>1, <3>2, <3>3 DEF Gate!Start, Calling
  <2> QED BY <2>6 DEF Gate!Next
<1>5. ASSUME NEW c \in Caller,
             Abort(c) \/ Succeed(c) \/ \E reason \in {"billing", "other"} : Fail(c, reason)
      PROVE  Gate!Next
  <2>1. call[c].pc = "run" /\ call[c].i <= Len(call[c].list)
    BY <1>5 DEF Abort, Succeed, Fail, IInv, TypeOK
  <2>2. PICK q \in Provider : q = Current(c)
    BY <2>1, CurrentIsProvider DEF IInv
  <2>3. call'[c].pc # "run" /\ \A d \in Caller \ {c} : call'[d] = call[d]
    BY <1>5 DEF Abort, Succeed, Fail, IInv, TypeOK, CallType, Idle
  <2>4. \A p \in Provider \ {q} : entry'[p] = entry[p]
    BY <1>5, <2>2 DEF Abort, Succeed, Fail, IInv, TypeOK
  <2>5. \/ Closed(q)' = 0
        \/ \E w \in 1..Window : Closed(q)' = IF Closed(q) < w THEN w ELSE Closed(q)
        \/ entry' = entry
    <3>1. CASE Abort(c)
      BY <3>1 DEF Abort
    <3>2. CASE Succeed(c)
      <4>1. entry'[q] = MarkSuccess(q)
        BY <3>2, <2>2 DEF Succeed, IInv, TypeOK
      <4>2. entry'[q].cooldown = 0 /\ entry'[q].disabled = 0
        BY <4>1, MarkSuccessOpens DEF IInv, TypeOK
      <4> QED BY <4>2 DEF Closed
    <3>3. ASSUME NEW reason \in {"billing", "other"}, Fail(c, reason)
          PROVE  \E w \in 1..Window : Closed(q)' = IF Closed(q) < w THEN w ELSE Closed(q)
      <4>1. entry'[q] = MarkFailure(q, reason)
        BY <3>3, <2>2 DEF Fail, IInv, TypeOK
      <4>2. /\ entry'[q].cooldown >= entry[q].cooldown /\ entry'[q].disabled >= entry[q].disabled
            /\ reason = "billing" => entry'[q].cooldown = entry[q].cooldown /\ entry'[q].disabled \in 1..Window
            /\ reason = "other" => entry'[q].disabled = entry[q].disabled /\ entry'[q].cooldown \in 1..Window
        BY <4>1, MarkFailureExtends DEF IInv, TypeOK
      <4>3. entry[q].cooldown \in Nat /\ entry[q].disabled \in Nat /\ Window \in Nat
        BY BackoffAssumption DEF IInv, TypeOK, EntryType
      <4>4. CASE reason = "billing"
        BY <4>2, <4>3, <4>4 DEF Closed
      <4>5. CASE reason = "other"
        BY <4>2, <4>3, <4>5 DEF Closed
      <4> QED BY <4>4, <4>5
    <3> QED BY <1>5, <3>1, <3>2, <3>3
  <2>6. Gate!Return(c, q)
    BY <2>1, <2>2, <2>3, <2>4, <2>5, ReturnStep
  <2> QED BY <2>6 DEF Gate!Next
<1> QED BY <1>1, <1>2, <1>3, <1>4, <1>5 DEF Next, Step

\* The tracker implements ProviderGate: whatever the order in which overlapping calls come
\* back, a failure never opens a provider earlier than an earlier failure said, and no call
\* of Execute starts at a closed provider.
THEOREM ImplementsGateHolds == Spec => ImplementsGate
<1>1. Init => Gate!Init
  <2>1. SUFFICES ASSUME Init PROVE Gate!Init
    OBVIOUS
  <2>2. \A p \in Provider : Closed(p) = 0
    BY <2>1 DEF Init, Fresh, Closed
  <2>3. \A c \in Caller : Calling(c) = None
    BY <2>1 DEF Init, Idle, Calling
  <2> QED BY <2>2, <2>3 DEF Gate!Init, Calling
<1> QED BY <1>1, IInvHolds, NextRefines, PTL DEF Spec, ImplementsGate, Gate!Spec
=============================================================================
