--------------------------- MODULE SessionHistory ---------------------------
(***************************************************************************)
(* The history of one session: the JSON SessionManager                     *)
(* (pkg/session/manager.go), the turns that append to it, compress it and  *)
(* save it, and the background summariser (pkg/agent/loop.go).  A cron job *)
(* uses the session of the chat it delivers to, so turns of Run and of the *)
(* cron goroutine can overlap.  Every call of the session manager is one   *)
(* step, because it is made under the manager's mutex; a Save is two, the  *)
(* snapshot and the rename.                                                *)
(*                                                                         *)
(* A message is its position in the log of all messages ever appended.  A  *)
(* summary is the set of messages it was made from.  Left out: oversized   *)
(* messages, which a summary omits.                                        *)
(***************************************************************************)
EXTENDS Naturals, Sequences, SequencesExt, FiniteSetsExt

CONSTANTS
    Keep,           \* messages kept by a truncation (4)
    Threshold,      \* history length that triggers a summary (20)
    BatchMax,       \* messages summarised in one part (10)
    MaxIterations,  \* agent.MaxIterations
    MaxCalls,       \* tool calls in one answer of the model
    MaxLLMRetries,  \* maxRetries of runLLMIteration
    MaxLog,         \* bound: messages appended
    MaxCrash,       \* bound: crashes
    Thread          \* goroutines whose turns use the session (Run, cron)

ASSUME SessionAssumption ==
    /\ Keep \in Nat \ {0} /\ Threshold \in Nat /\ BatchMax \in Nat \ {0}
    /\ MaxIterations \in Nat /\ MaxCalls \in Nat \ {0} /\ MaxLLMRetries \in Nat
    /\ MaxLog \in Nat /\ MaxCrash \in Nat

Id == 1..MaxLog
Role == {"user", "assistant", "call", "tool"}  \* "call": assistant with tool calls

VARIABLES
    log,      \* every message appended: role, for a result the call it answers, number of calls
    mem,      \* the session in memory: history and summary
    disk,     \* the session file
    thread,   \* the turns
    sum,      \* the summariser goroutine; al.summarizing has its key iff it is not idle
    crashes,  \* number of crashes
    excused,  \* messages lost by compression, to a late summary or to a crash; see the actions
    mixed,    \* two turns of the session have overlapped
    torn      \* a restart has found a call without its results

vars == <<log, mem, disk, thread, sum, crashes, excused, mixed, torn>>
flags == <<crashes, excused, mixed, torn>>

Empty == [hist |-> <<>>, sum |-> {}]
Idle == [pc |-> "idle", request |-> 0, call |-> 0, left |-> 0, iter |-> 0, retry |-> 0,
         copy |-> Empty]
NoSum == [pc |-> "idle", late |-> FALSE, copy |-> Empty]

Active(t) == thread[t].pc # "idle"
AtModel(t) == thread[t].pc \in {"llm", "rebuilt"} /\ thread[t].iter < MaxIterations

----------------------------------------------------------------------------
(* sanitizeHistoryForProvider                                              *)

RoleOf(i) == log[i].role

\* The last message of s that is not a tool result, 0 if there is none.
Nearest(s) == LET js == {j \in 1..Len(s) : RoleOf(s[j]) # "tool"}
              IN  IF js = {} THEN 0 ELSE s[Max(js)]

\* Mutant: results are kept wherever they are.
AcceptsAnyTool(s, i) ==
    RoleOf(i) = "call" => s # <<>> /\ RoleOf(Last(s)) \in {"user", "tool"}

\* Whether message i is kept after the messages s that have been kept.
Accepts(s, i) ==
    /\ RoleOf(i) = "tool" => Nearest(s) # 0 /\ RoleOf(Nearest(s)) = "call"
    /\ RoleOf(i) = "call" => s # <<>> /\ RoleOf(Last(s)) \in {"user", "tool"}

sanitizeHistoryForProvider(h) ==
    FoldLeft(LAMBDA s, i : IF Accepts(s, i) THEN Append(s, i) ELSE s, <<>>, h)

----------------------------------------------------------------------------
(* The session manager                                                     *)

\* AddFullMessage: appends to the log and to the session.
AddFullMessage(role, call, n) ==
    /\ Len(log) < MaxLog
    /\ log' = Append(log, [role |-> role, of |-> call, calls |-> n])
    /\ mem' = [mem EXCEPT !.hist = Append(@, Len(log) + 1)]
    /\ sum' = [sum EXCEPT !.late = @ \/ sum.pc \in {"text", "truncate"}]

\* Mutant: one message fewer is kept.
KeptShort(h) == IF Len(h) < Keep THEN h ELSE SubSeq(h, Len(h) - Keep + 2, Len(h))

\* TruncateHistory(key, 4).
Kept(h) == IF Len(h) <= Keep THEN h ELSE SubSeq(h, Len(h) - Keep + 1, Len(h))

\* Save of a turn: the snapshot under the read lock, then the rename, which may fail.
SaveSnapshot(t, from, to) ==
    /\ thread[t].pc = from
    /\ thread' = [thread EXCEPT ![t].pc = to, ![t].copy = mem]
    /\ UNCHANGED <<log, mem, disk, sum, flags>>

SaveRename(t, from, to) ==
    /\ thread[t].pc = from
    /\ disk' \in {disk, thread[t].copy}
    /\ thread' = [thread EXCEPT ![t].pc = to, ![t].copy = Empty]
    /\ UNCHANGED <<log, mem, sum, flags>>

----------------------------------------------------------------------------
(* Turns                                                                   *)

Init ==
    /\ log = <<>> /\ mem = Empty /\ disk = Empty
    /\ thread = [t \in Thread |-> Idle] /\ sum = NoSum
    /\ crashes = 0 /\ excused = {} /\ mixed = FALSE /\ torn = FALSE

\* runAgentLoop builds the prompt from the history and appends the user message.
Begin(t) ==
    /\ ~Active(t)
    /\ AddFullMessage("user", 0, 0)
    /\ thread' = [thread EXCEPT ![t].pc = "llm", ![t].request = Len(log) + 1]
    /\ mixed' = (mixed \/ \E s \in Thread : Active(s))
    /\ UNCHANGED <<disk, crashes, excused, torn>>

\* The model asks for n tools: the assistant message is appended ...
CallTools(t, n) ==
    /\ AtModel(t)
    /\ AddFullMessage("call", 0, n)
    /\ thread' = [thread EXCEPT ![t].pc = "tools", ![t].call = Len(log) + 1, ![t].left = n,
                                ![t].iter = @ + 1, ![t].retry = 0]
    /\ UNCHANGED <<disk, flags>>

\* ... and each result as its tool returns.
ToolResult(t) ==
    /\ thread[t].pc = "tools"
    /\ AddFullMessage("tool", thread[t].call, 0)
    /\ thread' = [thread EXCEPT ![t].left = @ - 1, ![t].pc = IF thread[t].left = 1 THEN "llm" ELSE @,
                                ![t].call = IF thread[t].left = 1 THEN 0 ELSE @]
    /\ UNCHANGED <<disk, flags>>

\* The model answers or the iterations are used up: the answer is appended, then saved.
Answer(t) ==
    /\ thread[t].pc \in {"llm", "rebuilt"}
    /\ AddFullMessage("assistant", 0, 0)
    /\ thread' = [thread EXCEPT ![t] = [Idle EXCEPT !.pc = "save"]]
    /\ UNCHANGED <<disk, flags>>

\* The model fails for good: the turn ends without an answer and without a save.
FailTurn(t) ==
    /\ AtModel(t)
    /\ thread' = [thread EXCEPT ![t] = Idle]
    /\ UNCHANGED <<log, mem, disk, sum, flags>>

\* A context-window error: forceCompression reads the history; a short one is left alone.
CompressRead(t) ==
    /\ AtModel(t) /\ thread[t].retry < MaxLLMRetries
    /\ thread' = [thread EXCEPT ![t].retry = @ + 1,
           ![t].pc = IF Len(mem.hist) <= Keep THEN "rebuilt" ELSE "compress",
           ![t].copy = IF Len(mem.hist) <= Keep THEN Empty ELSE mem]
    /\ UNCHANGED <<log, mem, disk, sum, flags>>

\* Mutant: the conversation includes the last message.
CompressedTwice(h) ==
    LET conversation == SubSeq(h, 2, Len(h))
    IN  <<h[1]>> \o SubSeq(conversation, Len(conversation) \div 2 + 1, Len(conversation)) \o <<Last(h)>>

\* The first message, the second half of the conversation, the last message.
Compressed(h) ==
    LET conversation == SubSeq(h, 2, Len(h) - 1)
    IN  IF conversation = <<>> THEN h
        ELSE <<h[1]>> \o SubSeq(conversation, Len(conversation) \div 2 + 1, Len(conversation)) \o <<Last(h)>>

\* SetHistory replaces whatever the history is by now.
CompressWrite(t) ==
    LET h == thread[t].copy.hist IN
    /\ thread[t].pc = "compress"
    /\ mem' = [mem EXCEPT !.hist = Compressed(h)]
    /\ excused' = excused \cup (ToSet(h) \ ToSet(Compressed(h)))
    /\ thread' = [thread EXCEPT ![t].pc = "csave", ![t].copy = Empty]
    /\ UNCHANGED <<log, disk, sum, crashes, mixed, torn>>

\* maybeSummarize at the end of the turn.  The length or the estimated tokens pass the
\* threshold (the latter with any history); a summariser that is running is left alone.
MaybeSummarize(t) ==
    /\ thread[t].pc = "summarize"
    /\ thread' = [thread EXCEPT ![t] = Idle]
    /\ \/ Len(mem.hist) <= Threshold /\ UNCHANGED sum
       \/ sum.pc # "idle" /\ UNCHANGED sum
       \/ sum.pc = "idle" /\ sum' = [NoSum EXCEPT !.pc = "read"]
    /\ UNCHANGED <<log, mem, disk, flags>>

----------------------------------------------------------------------------
(* summarizeSession                                                        *)

\* validMessages, a set because the history has the order of the log.
Valid(h) == {i \in {h[j] : j \in 1..Len(h) - Keep} : RoleOf(i) # "tool"}

\* validMessages[:mid].
FirstPart(v) == {i \in v : Cardinality({j \in v : j <= i}) <= Cardinality(v) \div 2}

\* The texts a summary of the messages v can be: whether there is one, and the messages
\* it covers.  One batch includes the existing summary.  Two batches do not; either of
\* them may fail, and even if both do the text is not empty.
Texts(v, old) ==
    LET none == [any |-> FALSE, of |-> {}]
        some(c) == [any |-> TRUE, of |-> c]
    IN  IF Cardinality(v) <= BatchMax THEN {none, some(v \cup old)}
        ELSE {none, some(v), some(FirstPart(v)), some(v \ FirstPart(v)), some({})}

\* Mutant: the early return does not release the key.
SumReadStuck ==
    /\ sum.pc = "read"
    /\ sum' = [sum EXCEPT !.pc = IF Len(mem.hist) <= Keep \/ Valid(mem.hist) = {} THEN "read" ELSE "text",
                          !.copy = IF Len(mem.hist) <= Keep \/ Valid(mem.hist) = {} THEN Empty ELSE mem]
    /\ UNCHANGED <<log, mem, disk, thread, flags>>

\* The history and the summary are read; a short history is left alone.
SumRead ==
    /\ sum.pc = "read"
    /\ sum' = IF Len(mem.hist) <= Keep \/ Valid(mem.hist) = {} THEN NoSum
              ELSE [sum EXCEPT !.pc = "text", !.copy = mem]
    /\ UNCHANGED <<log, mem, disk, thread, flags>>

\* The model has summarised; with an empty text nothing happens, else SetSummary ...
SetSummary ==
    /\ sum.pc = "text"
    /\ \E text \in Texts(Valid(sum.copy.hist), sum.copy.sum) :
          IF text.any
          THEN /\ mem' = [mem EXCEPT !.sum = text.of]
               /\ excused' = excused \cup ((mem.sum \cup Valid(sum.copy.hist)) \ text.of)
               /\ sum' = [sum EXCEPT !.pc = "truncate"]
          ELSE sum' = NoSum /\ UNCHANGED <<mem, excused>>
    /\ UNCHANGED <<log, disk, thread, crashes, mixed, torn>>

\* ... TruncateHistory, on the history as it is by now ...
Truncate ==
    /\ sum.pc = "truncate"
    /\ mem' = [mem EXCEPT !.hist = Kept(@)]
    /\ excused' = IF sum.late THEN excused \cup (ToSet(mem.hist) \ ToSet(Kept(mem.hist))) ELSE excused
    /\ sum' = [NoSum EXCEPT !.pc = "save"]
    /\ UNCHANGED <<log, disk, thread, crashes, mixed, torn>>

\* ... and Save.
SumSnapshot ==
    /\ sum.pc = "save"
    /\ sum' = [sum EXCEPT !.pc = "rename", !.copy = mem]
    /\ UNCHANGED <<log, mem, disk, thread, flags>>

SumRename ==
    /\ sum.pc = "rename"
    /\ disk' \in {disk, sum.copy}
    /\ sum' = NoSum
    /\ UNCHANGED <<log, mem, thread, flags>>

Summarise == SumRead \/ SetSummary \/ Truncate \/ SumSnapshot \/ SumRename

----------------------------------------------------------------------------
Unanswered(h) == \E k \in 1..Len(h) :
    /\ RoleOf(h[k]) = "call"
    /\ Cardinality({j \in k+1..Len(h) : log[h[j]].of = h[k]}) < log[h[k]].calls

\* The process stops and starts again: NewSessionManager loads the file.
Crash ==
    /\ crashes < MaxCrash
    /\ crashes' = crashes + 1
    /\ mem' = disk
    /\ thread' = [t \in Thread |-> Idle] /\ sum' = NoSum
    /\ excused' = excused \cup (1..Len(log) \ (ToSet(disk.hist) \cup disk.sum))
    /\ torn' = (torn \/ Unanswered(disk.hist))
    /\ UNCHANGED <<log, disk, mixed>>

Step(t) ==
    \/ Begin(t) \/ ToolResult(t) \/ Answer(t) \/ FailTurn(t) \/ MaybeSummarize(t)
    \/ \E n \in 1..MaxCalls : CallTools(t, n)
    \/ CompressRead(t) \/ CompressWrite(t)
    \/ SaveSnapshot(t, "csave", "crename") \/ SaveRename(t, "crename", "rebuilt")
    \/ SaveSnapshot(t, "save", "rename") \/ SaveRename(t, "rename", "summarize")

Next == (\E t \in Thread : Step(t)) \/ Summarise \/ Crash

Spec == Init /\ [][Next]_vars

\* The summariser's model calls have a timeout of two minutes.
FairSpec == Spec /\ WF_vars(Summarise)

----------------------------------------------------------------------------
(* Properties                                                              *)

Session == [hist : Seq(Id), sum : SUBSET Id]

\* Every variable holds a value of its type; tool results never outnumber their calls.
TypeOK ==
    /\ log \in Seq([role : Role, of : 0..MaxLog, calls : 0..MaxCalls]) /\ Len(log) <= MaxLog
    /\ mem \in Session /\ disk \in Session
    /\ thread \in [Thread ->
          [pc : {"idle", "llm", "tools", "compress", "csave", "crename", "rebuilt", "save", "rename",
                 "summarize"},
           request : 0..MaxLog, call : 0..MaxLog, left : 0..MaxCalls, iter : 0..MaxIterations,
           retry : 0..MaxLLMRetries, copy : Session]]
    /\ sum \in [pc : {"idle", "read", "text", "truncate", "save", "rename"},
                late : BOOLEAN, copy : Session]
    /\ crashes \in 0..MaxCrash /\ excused \subseteq Id /\ mixed \in BOOLEAN /\ torn \in BOOLEAN

\* The history never holds a message twice or out of order, in memory or on disk:
\* whatever compressions, truncations, stale writes and restarts come together.
InOrder ==
    \A s \in {mem, disk} : \A j, k \in 1..Len(s.hist) : j < k => s.hist[j] < s.hist[k]

\* The results that follow the call at position k of h.
Answers(h, k) == {j \in k+1..Len(h) : log[h[j]].of = h[k]}

\* What providers require: a result follows its call, and a call is followed by all
\* its results.
WellFormed(h) ==
    \A k \in 1..Len(h) :
        /\ RoleOf(h[k]) = "tool" => Nearest(SubSeq(h, 1, k)) = log[h[k]].of
        /\ RoleOf(h[k]) = "call" => Answers(h, k) = k+1..k+log[h[k]].calls

\* The history sent at the start of a turn and after a compression is well formed,
\* however it was cut by truncations and compressions, as long as turns of the session
\* do not overlap and no restart has cut a turn in two.
PromptWellFormed ==
    (~mixed /\ ~torn /\ \A t \in Thread : thread[t].pc # "tools")
        => WellFormed(sanitizeHistoryForProvider(mem.hist))

Covered(s) ==
    LET known == ToSet(s.hist) \cup s.sum
    IN  \A i \in 1..Len(log) :
           (i \notin known /\ RoleOf(i) # "tool" /\ \E j \in known : i < j) => i \in excused

\* No message of the user or the model vanishes from the session, in memory or on
\* disk: it is in the history or in the summary.  Excused are messages dropped by
\* forceCompression, by a two-part summary, by a truncation that met messages
\* appended after the summary was begun, and those a crash found unsaved.
NothingForgotten == ~mixed => Covered(mem) /\ Covered(disk)

\* The summarising key is always released again.
SummariserFreed == sum.pc # "idle" ~> sum.pc = "idle"

\* The comment of forceCompression: it keeps the last user message, so that the
\* retried prompt still has the request.
RequestKept ==
    \A t \in Thread : thread[t].pc = "rebuilt"
        => thread[t].request \in ToSet(sanitizeHistoryForProvider(mem.hist))
=============================================================================
