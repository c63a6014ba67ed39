------------------------ MODULE SessionHistoryProofs ------------------------
(***************************************************************************)
(* Proofs about SessionHistory, for any number of goroutines whose turns   *)
(* overlap on the session, any limits and any number of crashes.           *)
(***************************************************************************)
EXTENDS SessionHistory, TLAPS, SequenceTheorems, FiniteSetTheorems, NaturalsInduction,
        WellFoundedInduction

\* A history: messages of the log, each at most once and in the order of the log.
Increasing(h) == \A j, k \in 1..Len(h) : j < k => h[j] < h[k]
GoodHist(h, max) == h \in Seq(1..max) /\ Increasing(h)

\* A session, or a copy of one, with a good history.
GoodSession(s, max) == s = [hist |-> s.hist, sum |-> s.sum] /\ GoodHist(s.hist, max)

\* The state of a goroutine, with the copy it holds.
GoodThread(r, max) ==
    /\ r = [pc |-> r.pc, request |-> r.request, call |-> r.call, left |-> r.left,
            iter |-> r.iter, retry |-> r.retry, copy |-> r.copy]
    /\ GoodSession(r.copy, max)
    /\ r.pc = "compress" => Len(r.copy.hist) >= 2

GoodSum(r, max) == r = [pc |-> r.pc, late |-> r.late, copy |-> r.copy] /\ GoodSession(r.copy, max)

\* The inductive invariant: the session and every copy in flight are good, because a
\* stale copy may be written back at any time.
IInv ==
    /\ \E S : log \in Seq(S)
    /\ Len(log) \in Nat
    /\ GoodSession(mem, Len(log)) /\ GoodSession(disk, Len(log))
    /\ thread = [t \in Thread |-> thread[t]]
    /\ \A t \in Thread : GoodThread(thread[t], Len(log))
    /\ GoodSum(sum, Len(log))

----------------------------------------------------------------------------
\* What a part of a sequence is.
LEMMA PartOf ==
  ASSUME NEW S, NEW h \in Seq(S), NEW i \in 1..Len(h)+1, NEW n \in 0..Len(h), i <= n + 1
  PROVE  /\ SubSeq(h, i, n) \in Seq(S)
         /\ Len(SubSeq(h, i, n)) = n - i + 1
         /\ \A k \in 1..(n - i + 1) : SubSeq(h, i, n)[k] = h[i + k - 1]
<1>1. Len(h) \in Nat /\ i \in Int /\ n \in Int
  BY LenProperties
<1>2. \A k \in i..n : h[k] \in S
  BY <1>1, ElementOfSeq
<1>3. /\ SubSeq(h, i, n) \in Seq(S)
      /\ Len(SubSeq(h, i, n)) = IF i <= n THEN n - i + 1 ELSE 0
      /\ \A k \in 1..(n - i + 1) : SubSeq(h, i, n)[k] = h[i + k - 1]
  BY <1>1, <1>2, SubSeqProperties
<1> QED BY <1>1, <1>3

\* A part of a good history is good.
LEMMA SubSeqGood ==
  ASSUME NEW max \in Nat, NEW h, GoodHist(h, max), NEW i \in 1..Len(h)+1, NEW n \in 0..Len(h), i <= n + 1
  PROVE  GoodHist(SubSeq(h, i, n), max)
<1> DEFINE p == SubSeq(h, i, n)
<1>1. h \in Seq(1..max) /\ Len(h) \in Nat
  BY LenProperties DEF GoodHist
<1>2. /\ p \in Seq(1..max)
      /\ Len(p) = n - i + 1
      /\ \A k \in 1..(n - i + 1) : p[k] = h[i + k - 1]
  BY <1>1, PartOf
<1> HIDE DEF p
<1>3. ASSUME NEW j \in 1..Len(p), NEW k \in 1..Len(p), j < k
      PROVE  p[j] < p[k]
  <2>1. p[j] = h[i + j - 1] /\ p[k] = h[i + k - 1]
    BY <1>2
  <2>2. i + j - 1 \in 1..Len(h) /\ i + k - 1 \in 1..Len(h) /\ i + j - 1 < i + k - 1
    BY <1>1, <1>2, <1>3
  <2> QED BY <2>1, <2>2 DEF GoodHist, Increasing
<1> USE DEF p
<1> QED BY <1>2, <1>3 DEF GoodHist, Increasing

\* Truncation keeps a good history good.
LEMMA KeptGood ==
  ASSUME NEW max \in Nat, NEW h, GoodHist(h, max)
  PROVE  GoodHist(Kept(h), max)
<1>1. CASE Len(h) <= Keep
  BY <1>1 DEF Kept
<1>2. CASE ~(Len(h) <= Keep)
  <2>1. Len(h) \in Nat /\ Keep \in Nat \ {0}
    BY SessionAssumption DEF GoodHist
  <2>2. Len(h) - Keep + 1 \in 1..Len(h)+1 /\ Len(h) \in 0..Len(h) /\ Len(h) - Keep + 1 <= Len(h) + 1
    BY <1>2, <2>1
  <2> QED BY <1>2, <2>2, SubSeqGood DEF Kept
<1> QED BY <1>1, <1>2

\* The history h is what is left of g without d messages after the first one, or without the
\* first d: its own first message may be any.
CutOf(g, h, d) ==
    /\ Len(h) \in Nat /\ d \in Nat /\ Len(g) = Len(h) + d
    /\ \A k \in 2..Len(h) : h[k] = g[k + d]

\* Compression keeps a good history good, for its three parts follow each other, and adds nothing.
LEMMA CompressedGood ==
  ASSUME NEW max \in Nat, NEW h, GoodHist(h, max), Len(h) >= 2
  PROVE  /\ GoodHist(Compressed(h), max) /\ ToSet(Compressed(h)) \subseteq ToSet(h)
         /\ \E d : CutOf(h, Compressed(h), d)
<1> DEFINE c == SubSeq(h, 2, Len(h) - 1)
           m == Len(c) \div 2
           k == SubSeq(c, m + 1, Len(c))
<1>1. h \in Seq(1..max) /\ Len(h) \in Nat /\ h[1] \in 1..max /\ h[Len(h)] \in 1..max
  BY LenProperties, ElementOfSeq DEF GoodHist
<1>2. c \in Seq(1..max) /\ Len(c) = Len(h) - 2 /\ \A i \in 1..Len(h)-2 : c[i] = h[2 + i - 1]
  <2>1. 2 \in 1..Len(h)+1 /\ Len(h) - 1 \in 0..Len(h) /\ 2 <= Len(h) - 1 + 1
    BY <1>1
  <2>2. /\ c \in Seq(1..max) /\ Len(c) = Len(h) - 1 - 2 + 1
        /\ \A i \in 1..(Len(h) - 1 - 2 + 1) : c[i] = h[2 + i - 1]
    BY <1>1, <2>1, PartOf
  <2> QED BY <1>1, <2>2
<1> HIDE DEF c
<1>3. m \in Nat /\ m <= Len(c) /\ Len(c) \in Nat
  BY <1>2, <1>1
<1> HIDE DEF m
<1>4. k \in Seq(1..max) /\ Len(k) = Len(c) - m /\ \A i \in 1..Len(c)-m : k[i] = c[m + 1 + i - 1]
  <2>1. m + 1 \in 1..Len(c)+1 /\ Len(c) \in 0..Len(c) /\ m + 1 <= Len(c) + 1
    BY <1>3
  <2>2. /\ k \in Seq(1..max) /\ Len(k) = Len(c) - (m + 1) + 1
        /\ \A i \in 1..(Len(c) - (m + 1) + 1) : k[i] = c[m + 1 + i - 1]
    BY <1>2, <2>1, PartOf, SMTT(30)
  <2> QED BY <1>3, <2>2
<1> HIDE DEF k
<1>5. Len(k) \in Nat /\ \A i \in 1..Len(k) : k[i] = h[m + i + 1]
  <2>1. ASSUME NEW i \in 1..Len(k) PROVE k[i] = h[m + i + 1]
    <3>1. i \in 1..Len(c)-m /\ m + 1 + i - 1 \in 1..Len(h)-2 /\ m + 1 + i - 1 = m + i /\ 2 + (m + i) - 1 = m + i + 1
      BY <1>1, <1>2, <1>3, <1>4
    <3> QED BY <3>1, <1>2, <1>4
  <2> QED BY <2>1, <1>3, <1>4
<1>6. Last(h) = h[Len(h)]
  BY DEF Last
<1> DEFINE r == <<h[1]>> \o k \o <<Last(h)>>
<1>7. /\ r \in Seq(1..max) /\ Len(r) = Len(k) + 2
      /\ r[1] = h[1] /\ r[Len(k) + 2] = h[Len(h)]
      /\ \A i \in 2..Len(k)+1 : r[i] = k[i - 1]
  <2> DEFINE a == <<h[1]>>
             b == a \o k
             z == <<Last(h)>>
  <2>1. /\ a \in Seq(1..max) /\ Len(a) = 1 /\ a[1] = h[1]
        /\ z \in Seq(1..max) /\ Len(z) = 1 /\ z[1] = h[Len(h)]
    BY <1>1, <1>6
  <2> HIDE DEF a, z
  <2>2. /\ b \in Seq(1..max) /\ Len(b) = Len(a) + Len(k)
        /\ \A i \in 1..Len(a) + Len(k) : b[i] = IF i <= Len(a) THEN a[i] ELSE k[i - Len(a)]
    BY <2>1, <1>4, ConcatProperties
  <2> HIDE DEF b
  <2>3. /\ b \o z \in Seq(1..max) /\ Len(b \o z) = Len(b) + Len(z)
        /\ \A i \in 1..Len(b) + Len(z) : (b \o z)[i] = IF i <= Len(b) THEN b[i] ELSE z[i - Len(b)]
    <3>1. b \in Seq(1..max) /\ z \in Seq(1..max)
      BY <2>1, <2>2
    <3> QED BY <3>1, ConcatProperties
  <2>4. r = b \o z
    BY DEF r, b, a, z
  <2> HIDE DEF r
  <2>5. r \in Seq(1..max) /\ Len(b) = Len(k) + 1 /\ Len(r) = Len(k) + 2
    BY <2>1, <2>2, <2>3, <2>4, <1>5
  <2>6. \A i \in 1..Len(k)+1 : r[i] = b[i]
    BY <2>1, <2>3, <2>4, <2>5, <1>5
  <2>7. r[1] = h[1]
    BY <2>1, <2>2, <2>6, <1>5
  <2>8. r[Len(k) + 2] = h[Len(h)]
    BY <2>1, <2>3, <2>4, <2>5, <1>5, SMTT(30)
  <2>9. ASSUME NEW i \in 2..Len(k)+1 PROVE r[i] = k[i - 1]
    <3>1. i \in 1..Len(k)+1 /\ i \in 1..Len(a) + Len(k) /\ ~(i <= Len(a)) /\ i - Len(a) = i - 1
      BY <2>1, <1>5
    <3>2. b[i] = k[i - Len(a)]
      BY <2>2, <3>1
    <3> QED BY <2>6, <3>1, <3>2
  <2> QED BY <2>5, <2>7, <2>8, <2>9
<1> HIDE DEF r
<1>8. \A i \in 2..Len(k)+1 : r[i] = h[m + i] /\ m + i \in 2..Len(h)-1
  <2>1. ASSUME NEW i \in 2..Len(k)+1 PROVE r[i] = h[m + i] /\ m + i \in 2..Len(h)-1
    <3>1. i - 1 \in 1..Len(k) /\ m + (i - 1) + 1 = m + i
      BY <1>3, <1>5
    <3>2. r[i] = h[m + (i - 1) + 1]
      BY <3>1, <1>5, <1>7
    <3> QED BY <3>1, <3>2, <1>1, <1>2, <1>3, <1>4, <1>5
  <2> QED BY <2>1
<1> DEFINE pos(n) == IF n = 1 THEN 1 ELSE IF n = Len(k) + 2 THEN Len(h) ELSE m + n
<1>9. \A n \in 1..Len(r) : r[n] = h[pos(n)] /\ pos(n) \in 1..Len(h)
  <2>1. ASSUME NEW n \in 1..Len(r) PROVE r[n] = h[pos(n)] /\ pos(n) \in 1..Len(h)
    <3>1. n = 1 \/ n = Len(k) + 2 \/ n \in 2..Len(k)+1
      BY <1>5, <1>7
    <3>2. CASE n = 1
      BY <3>2, <1>1, <1>7
    <3>3. CASE n = Len(k) + 2
      BY <3>3, <1>1, <1>5, <1>7
    <3>4. CASE n \in 2..Len(k)+1
      <4>1. n # 1 /\ n # Len(k) + 2
        BY <3>4, <1>5
      <4> QED BY <4>1, <3>4, <1>1, <1>8, SMTT(30)
    <3> QED BY <3>1, <3>2, <3>3, <3>4
  <2> QED BY <2>1
<1>10. ASSUME NEW i \in 1..Len(r), NEW j \in 1..Len(r), i < j PROVE r[i] < r[j]
  <2>1. pos(i) < pos(j)
    <3>1. Len(k) + 2 = Len(h) - m /\ Len(r) = Len(k) + 2
      BY <1>1, <1>2, <1>3, <1>4, <1>7
    <3> QED BY ONLY <1>1, <1>3, <1>5, <1>10, <3>1, Len(h) >= 2, SMTT(30)
  <2> HIDE DEF pos
  <2> QED BY <2>1, <1>9 DEF GoodHist, Increasing
<1> HIDE DEF pos
<1>11. ToSet(r) \subseteq ToSet(h)
  <2>1. DOMAIN r = 1..Len(r) /\ DOMAIN h = 1..Len(h)
    BY <1>1, <1>7, LenProperties
  <2> QED BY <2>1, <1>9 DEF ToSet
<1>12. Compressed(h) = (IF c = <<>> THEN h ELSE r)
  BY DEF Compressed, r, k, m, c
<1>13. CutOf(h, h, 0)
  BY <1>1 DEF CutOf
<1>14. CutOf(h, r, m)
  <2>1. Len(r) = Len(k) + 2 /\ Len(k) + 2 = Len(h) - m
    BY <1>1, <1>2, <1>3, <1>4, <1>7
  <2>2. ASSUME NEW i \in 2..Len(r) PROVE r[i] = h[i + m]
    <3>1. m \in Nat /\ Len(k) \in Nat /\ Len(h) \in Nat /\ Len(r) = Len(k) + 2 /\ Len(k) + 2 = Len(h) - m
      BY <2>1, <1>1, <1>3, <1>5
    <3>2. i # 1 /\ i \in 1..Len(r) /\ m + i = i + m
      BY ONLY <3>1, i \in 2..Len(r)
    <3>3. i = Len(k) + 2 => i + m = Len(h)
      BY ONLY <3>1
    <3>4. r[i] = h[pos(i)]
      BY <3>2, <1>9
    <3> QED BY <3>2, <3>3, <3>4 DEF pos
  <2> QED BY <2>1, <2>2, <1>1, <1>3, <1>5 DEF CutOf
<1>15. \E d : CutOf(h, Compressed(h), d)
  BY <1>12, <1>13, <1>14
<1> QED BY <1>7, <1>10, <1>11, <1>12, <1>15 DEF GoodHist, Increasing

\* Append of the next message keeps a good history good.
LEMMA AppendGood ==
  ASSUME NEW max \in Nat, NEW h, GoodHist(h, max)
  PROVE  GoodHist(Append(h, max + 1), max + 1)
<1> DEFINE r == Append(h, max + 1)
<1>1. h \in Seq(1..max+1) /\ Len(h) \in Nat /\ max + 1 \in 1..max+1
  BY LenProperties DEF GoodHist
<1>2. /\ r \in Seq(1..max+1) /\ Len(r) = Len(h) + 1
      /\ \A i \in 1..Len(h) : r[i] = h[i]
      /\ r[Len(h) + 1] = max + 1
  BY <1>1, AppendProperties
<1>3. \A i \in 1..Len(h) : h[i] \in 1..max
  BY ElementOfSeq DEF GoodHist
<1> HIDE DEF r
<1>4. ASSUME NEW j \in 1..Len(r), NEW k \in 1..Len(r), j < k PROVE r[j] < r[k]
  <2>1. CASE k = Len(h) + 1
    <3>1. j \in 1..Len(h) /\ r[k] = max + 1 /\ r[j] = h[j] /\ h[j] \in 1..max
      BY <2>1, <1>1, <1>2, <1>3, <1>4
    <3> QED BY <3>1
  <2>2. CASE k # Len(h) + 1
    <3>1. j \in 1..Len(h) /\ k \in 1..Len(h)
      <4>1. Len(r) = Len(h) + 1 /\ Len(h) \in Nat
        BY <1>1, <1>2
      <4> QED BY <2>2, <1>4, <4>1
    <3>2. r[j] = h[j] /\ r[k] = h[k] /\ h[j] < h[k]
      BY <3>1, <1>2, <1>4 DEF GoodHist, Increasing
    <3> QED BY <3>2
  <2> QED BY <2>1, <2>2
<1> USE DEF r
<1> QED BY <1>2, <1>4 DEF GoodHist, Increasing

\* A longer log keeps sessions, copies and goroutines good.
LEMMA LogGrows ==
  ASSUME NEW max \in Nat
  PROVE  /\ \A s : GoodSession(s, max) => GoodSession(s, max + 1)
         /\ \A r : GoodThread(r, max) => GoodThread(r, max + 1)
         /\ \A r : GoodSum(r, max) => GoodSum(r, max + 1)
<1>1. \A h : h \in Seq(1..max) => h \in Seq(1..max+1)
  OBVIOUS
<1>2. \A s : GoodSession(s, max) => GoodSession(s, max + 1)
  BY <1>1 DEF GoodSession, GoodHist
<1> QED BY <1>2 DEF GoodThread, GoodSum

\* The empty session and the initial goroutines are good.
LEMMA EmptyGood ==
  ASSUME NEW max \in Nat
  PROVE  GoodSession(Empty, max) /\ GoodThread(Idle, max) /\ GoodSum(NoSum, max)
<1>1. GoodSession(Empty, max)
  BY DEF GoodSession, GoodHist, Increasing, Empty
<1> QED BY <1>1 DEF GoodThread, GoodSum, Idle, NoSum

----------------------------------------------------------------------------
\* The initial state satisfies the invariant.
LEMMA InitIInv == Init => IInv
<1> SUFFICES ASSUME Init PROVE IInv
  OBVIOUS
<1>1. Len(log) = 0
  BY DEF Init
<1>2. log \in Seq({})
  BY DEF Init
<1> QED BY <1>1, <1>2, EmptyGood DEF Init, IInv

\* A message is appended.
LEMMA AddKeeps ==
  ASSUME IInv, NEW role, NEW call, NEW n, AddFullMessage(role, call, n)
  PROVE  /\ \E S : log' \in Seq(S)
         /\ Len(log') \in Nat
         /\ GoodSession(mem', Len(log')) /\ GoodSum(sum', Len(log'))
         /\ GoodSession(disk, Len(log')) /\ \A t \in Thread : GoodThread(thread[t], Len(log'))
<1> DEFINE x == [role |-> role, of |-> call, calls |-> n]
<1>1. PICK S : log \in Seq(S)
  BY DEF IInv
<1>2. log' = Append(log, x) /\ log \in Seq(S \cup {x})
  BY <1>1 DEF AddFullMessage
<1> HIDE DEF x
<1>3. log' \in Seq(S \cup {x}) /\ Len(log') = Len(log) + 1 /\ Len(log') \in Nat
  BY <1>2, AppendProperties, LenProperties
<1>4. mem' = [hist |-> Append(mem.hist, Len(log) + 1), sum |-> mem.sum]
  BY DEF IInv, GoodSession, AddFullMessage
<1>5. GoodHist(Append(mem.hist, Len(log) + 1), Len(log'))
  BY <1>3, AppendGood DEF IInv, GoodSession
<1>6. GoodSession(mem', Len(log'))
  BY <1>4, <1>5 DEF GoodSession
<1>7. sum' = [pc |-> sum.pc, late |-> sum'.late, copy |-> sum.copy]
  BY DEF IInv, GoodSum, AddFullMessage
<1>8. GoodSum(sum', Len(log))
  BY <1>7 DEF IInv, GoodSum
<1>9. /\ GoodSum(sum', Len(log')) /\ GoodSession(disk, Len(log'))
      /\ \A t \in Thread : GoodThread(thread[t], Len(log'))
  BY <1>3, <1>8, LogGrows DEF IInv
<1> QED BY <1>3, <1>6, <1>9

\* A goroutine's new state leaves the others as they are.
LEMMA ThreadKeeps ==
  ASSUME IInv, NEW t \in Thread, NEW r, NEW max,
         \A s \in Thread : GoodThread(thread[s], max), GoodThread(r, max),
         thread' = [thread EXCEPT ![t] = r]
  PROVE  /\ thread' = [s \in Thread |-> thread'[s]]
         /\ \A s \in Thread : GoodThread(thread'[s], max)
  BY DEF IInv

\* The actions that append a message.
LEMMA AppendActions ==
  ASSUME IInv, NEW t \in Thread,
         Begin(t) \/ ToolResult(t) \/ Answer(t) \/ \E n \in 1..MaxCalls : CallTools(t, n)
  PROVE  IInv'
<1> DEFINE r == thread'[t]
<1>1. GoodThread(thread[t], Len(log))
  BY DEF IInv
<1>2. \E role, call, n : AddFullMessage(role, call, n)
  BY Zenon DEF Begin, ToolResult, Answer, CallTools
<1>3. disk' = disk
  BY DEF Begin, ToolResult, Answer, CallTools
<1>4. /\ (\E S : log' \in Seq(S)) /\ Len(log') \in Nat
      /\ GoodSession(mem', Len(log')) /\ GoodSum(sum', Len(log'))
      /\ GoodSession(disk', Len(log')) /\ \A s \in Thread : GoodThread(thread[s], Len(log'))
  BY <1>2, <1>3, AddKeeps
<1>5. thread' = [thread EXCEPT ![t] = r] /\ GoodThread(r, Len(log'))
  <2>1. CASE Begin(t)
    <3>1. r = [pc |-> r.pc, request |-> r.request, call |-> r.call, left |-> r.left,
              iter |-> r.iter, retry |-> r.retry, copy |-> thread[t].copy] /\ r.pc # "compress"
      BY <2>1, <1>1 DEF Begin, IInv, GoodThread
    <3>2. thread' = [thread EXCEPT ![t] = r]
      BY <2>1 DEF Begin, IInv
    <3> HIDE DEF r
    <3>3. r.copy = thread[t].copy
      BY <3>1
    <3>4. GoodSession(r.copy, Len(log'))
      BY <3>3, <1>4 DEF GoodThread
    <3>5. r = [pc |-> r.pc, request |-> r.request, call |-> r.call, left |-> r.left,
              iter |-> r.iter, retry |-> r.retry, copy |-> r.copy]
      BY <3>1, <3>3
    <3> QED BY <3>1, <3>2, <3>4, <3>5 DEF GoodThread
  <2>2. CASE Answer(t)
    <3>1. thread' = [thread EXCEPT ![t] = [Idle EXCEPT !.pc = "save"]]
      BY <2>2 DEF Answer
    <3>2. GoodThread([Idle EXCEPT !.pc = "save"], Len(log'))
      BY <1>4, EmptyGood DEF GoodThread, Idle
    <3> QED BY <3>1, <3>2 DEF IInv
  <2>3. CASE ToolResult(t)
    <3>1. r = [pc |-> r.pc, request |-> r.request, call |-> r.call, left |-> r.left,
              iter |-> r.iter, retry |-> r.retry, copy |-> thread[t].copy] /\ r.pc # "compress"
      BY <2>3, <1>1 DEF ToolResult, IInv, GoodThread
    <3>2. thread' = [thread EXCEPT ![t] = r]
      BY <2>3 DEF ToolResult, IInv
    <3> HIDE DEF r
    <3>3. r.copy = thread[t].copy
      BY <3>1
    <3>4. GoodSession(r.copy, Len(log'))
      BY <3>3, <1>4 DEF GoodThread
    <3>5. r = [pc |-> r.pc, request |-> r.request, call |-> r.call, left |-> r.left,
              iter |-> r.iter, retry |-> r.retry, copy |-> r.copy]
      BY <3>1, <3>3
    <3> QED BY <3>1, <3>2, <3>4, <3>5 DEF GoodThread
  <2>4. CASE \E n \in 1..MaxCalls : CallTools(t, n)
    <3>1. r = [pc |-> r.pc, request |-> r.request, call |-> r.call, left |-> r.left,
              iter |-> r.iter, retry |-> r.retry, copy |-> thread[t].copy] /\ r.pc # "compress"
      <4>1. PICK n \in 1..MaxCalls : CallTools(t, n)
        BY <2>4
      <4>2. r = [thread[t] EXCEPT !.pc = "tools", !.call = Len(log) + 1, !.left = n,
                                  !.iter = thread[t].iter + 1, !.retry = 0]
        BY <4>1 DEF CallTools, IInv
      <4> QED BY <4>2, <1>1 DEF GoodThread
    <3>2. thread' = [thread EXCEPT ![t] = r]
      BY <2>4 DEF CallTools, IInv
    <3> HIDE DEF r
    <3>3. r.copy = thread[t].copy
      BY <3>1
    <3>4. GoodSession(r.copy, Len(log'))
      BY <3>3, <1>4 DEF GoodThread
    <3>5. r = [pc |-> r.pc, request |-> r.request, call |-> r.call, left |-> r.left,
              iter |-> r.iter, retry |-> r.retry, copy |-> r.copy]
      BY <3>1, <3>3
    <3> QED BY <3>1, <3>2, <3>4, <3>5 DEF GoodThread
  <2> QED BY <2>1, <2>2, <2>3, <2>4
<1> HIDE DEF r
<1>6. thread' = [s \in Thread |-> thread'[s]] /\ \A s \in Thread : GoodThread(thread'[s], Len(log'))
  BY <1>4, <1>5, ThreadKeeps
<1> QED BY <1>4, <1>6 DEF IInv

\* A goroutine's next state is good if its copy is.
LEMMA NewThread ==
  ASSUME NEW max, NEW old, GoodThread(old, max), NEW copy, GoodSession(copy, max), NEW pc,
         pc = "compress" => Len(copy.hist) >= 2, NEW r, NEW retry,
         r = [old EXCEPT !.retry = retry, !.pc = pc, !.copy = copy]
         \/ r = [old EXCEPT !.pc = pc, !.copy = copy]
  PROVE  GoodThread(r, max)
<1>1. old = [pc |-> old.pc, request |-> old.request, call |-> old.call, left |-> old.left,
             iter |-> old.iter, retry |-> old.retry, copy |-> old.copy]
  BY DEF GoodThread
<1>2. r = [pc |-> r.pc, request |-> r.request, call |-> r.call, left |-> r.left,
           iter |-> r.iter, retry |-> r.retry, copy |-> r.copy]
  BY <1>1
<1>3. r.pc = pc /\ r.copy = copy
  BY <1>1
<1> QED BY <1>2, <1>3 DEF GoodThread

\* The summariser's next state is good if its copy is.
LEMMA NewSum ==
  ASSUME NEW max, NEW old, GoodSum(old, max), NEW copy, GoodSession(copy, max), NEW pc, NEW r,
         r = [old EXCEPT !.pc = pc, !.copy = copy] \/ r = [old EXCEPT !.pc = pc]
  PROVE  GoodSum(r, max)
<1>1. old = [pc |-> old.pc, late |-> old.late, copy |-> old.copy]
  BY DEF GoodSum
<1>2. r = [pc |-> r.pc, late |-> r.late, copy |-> r.copy]
  BY <1>1
<1>3. r.copy = copy \/ r.copy = old.copy
  BY <1>1
<1> QED BY <1>2, <1>3 DEF GoodSum

\* The actions of a turn that append nothing.
LEMMA TurnActions ==
  ASSUME IInv, NEW t \in Thread,
         \/ FailTurn(t) \/ CompressRead(t) \/ CompressWrite(t) \/ MaybeSummarize(t)
         \/ SaveSnapshot(t, "csave", "crename") \/ SaveSnapshot(t, "save", "rename")
         \/ SaveRename(t, "crename", "rebuilt") \/ SaveRename(t, "rename", "summarize")
  PROVE  IInv'
<1>1. /\ GoodThread(thread[t], Len(log)) /\ Len(log) \in Nat
      /\ GoodSession(mem, Len(log)) /\ GoodSession(disk, Len(log)) /\ GoodSum(sum, Len(log))
      /\ \A s \in Thread : GoodThread(thread[s], Len(log))
      /\ GoodSession(thread[t].copy, Len(log))
      /\ thread = [s \in Thread |-> thread[s]]
  BY DEF IInv, GoodThread
<1>2. GoodSession(Empty, Len(log)) /\ GoodThread(Idle, Len(log)) /\ GoodSum(NoSum, Len(log))
  BY <1>1, EmptyGood
<1>3. log' = log
  BY DEF FailTurn, CompressRead, CompressWrite, MaybeSummarize, SaveSnapshot, SaveRename
<1>4. SUFFICES /\ GoodSession(mem', Len(log)) /\ GoodSession(disk', Len(log)) /\ GoodSum(sum', Len(log))
               /\ \E r : thread' = [thread EXCEPT ![t] = r] /\ GoodThread(r, Len(log))
  BY <1>1, <1>3, ThreadKeeps DEF IInv
<1>5. CASE FailTurn(t)
  BY <1>5, <1>1, <1>2 DEF FailTurn
<1>6. CASE MaybeSummarize(t)
  <2>1. sum' = sum \/ sum' = [NoSum EXCEPT !.pc = "read"]
    BY <1>6 DEF MaybeSummarize
  <2>2. GoodSum([NoSum EXCEPT !.pc = "read"], Len(log))
    BY <1>1, <1>2, NewSum
  <2> QED BY <1>6, <1>1, <1>2, <2>1, <2>2 DEF MaybeSummarize
<1>7. CASE CompressRead(t)
  <2> DEFINE short == Len(mem.hist) <= Keep
             pc == IF short THEN "rebuilt" ELSE "compress"
             copy == IF short THEN Empty ELSE mem
             r == [thread[t] EXCEPT !.retry = thread[t].retry + 1, !.pc = pc, !.copy = copy]
  <2>1. thread' = [thread EXCEPT ![t] = r] /\ mem' = mem /\ disk' = disk /\ sum' = sum
    BY <1>7, <1>1 DEF CompressRead
  <2>2. GoodSession(copy, Len(log)) /\ (pc = "compress" => Len(copy.hist) >= 2)
    <3>1. Len(mem.hist) \in Nat /\ Keep \in Nat \ {0}
      BY <1>1, SessionAssumption, LenProperties DEF GoodSession, GoodHist
    <3> QED BY <3>1, <1>1, <1>2
  <2> HIDE DEF pc, copy
  <2>3. GoodThread(r, Len(log))
    BY <2>2, <1>1, NewThread
  <2> QED BY <2>1, <2>3, <1>1
<1>8. CASE CompressWrite(t)
  <2> DEFINE h == thread[t].copy.hist
             r == [thread[t] EXCEPT !.pc = "csave", !.copy = Empty]
  <2>1. thread' = [thread EXCEPT ![t] = r] /\ disk' = disk /\ sum' = sum
    BY <1>8, <1>1 DEF CompressWrite
  <2>2. GoodThread(r, Len(log))
    BY <1>1, <1>2, NewThread
  <2>3. GoodHist(Compressed(h), Len(log))
    BY <1>8, <1>1, CompressedGood DEF CompressWrite, GoodThread, GoodSession
  <2>4. mem' = [hist |-> Compressed(h), sum |-> mem.sum]
    BY <1>8, <1>1 DEF CompressWrite, GoodSession
  <2>5. GoodSession(mem', Len(log))
    BY <2>3, <2>4 DEF GoodSession
  <2> QED BY <2>1, <2>2, <2>5, <1>1
<1>9. ASSUME NEW from, NEW to, to # "compress", SaveSnapshot(t, from, to)
      PROVE  /\ GoodSession(mem', Len(log)) /\ GoodSession(disk', Len(log)) /\ GoodSum(sum', Len(log))
             /\ \E r : thread' = [thread EXCEPT ![t] = r] /\ GoodThread(r, Len(log))
  <2> DEFINE r == [thread[t] EXCEPT !.pc = to, !.copy = mem]
  <2>1. thread' = [thread EXCEPT ![t] = r] /\ mem' = mem /\ disk' = disk /\ sum' = sum
    BY <1>9, <1>1 DEF SaveSnapshot
  <2>2. GoodThread(r, Len(log))
    BY <1>9, <1>1, NewThread
  <2> QED BY <2>1, <2>2, <1>1
<1>10. ASSUME NEW from, NEW to, to # "compress", SaveRename(t, from, to)
       PROVE  /\ GoodSession(mem', Len(log)) /\ GoodSession(disk', Len(log)) /\ GoodSum(sum', Len(log))
              /\ \E r : thread' = [thread EXCEPT ![t] = r] /\ GoodThread(r, Len(log))
  <2> DEFINE r == [thread[t] EXCEPT !.pc = to, !.copy = Empty]
  <2>1. thread' = [thread EXCEPT ![t] = r] /\ mem' = mem /\ disk' \in {disk, thread[t].copy} /\ sum' = sum
    BY <1>10, <1>1 DEF SaveRename
  <2>2. GoodThread(r, Len(log))
    BY <1>10, <1>1, <1>2, NewThread
  <2> QED BY <2>1, <2>2, <1>1
<1> QED BY <1>5, <1>6, <1>7, <1>8, <1>9, <1>10

\* The summariser's actions.
LEMMA SummariserActions ==
  ASSUME IInv, Summarise
  PROVE  IInv'
<1>1. /\ Len(log) \in Nat
      /\ GoodSession(mem, Len(log)) /\ GoodSession(disk, Len(log)) /\ GoodSum(sum, Len(log))
      /\ GoodSession(sum.copy, Len(log))
  BY DEF IInv, GoodSum
<1>2. GoodSum(NoSum, Len(log))
  BY <1>1, EmptyGood
<1>3. log' = log /\ thread' = thread
  BY DEF Summarise, SumRead, SetSummary, Truncate, SumSnapshot, SumRename
<1>4. SUFFICES GoodSession(mem', Len(log)) /\ GoodSession(disk', Len(log)) /\ GoodSum(sum', Len(log))
  BY <1>3 DEF IInv
<1>5. CASE SumRead
  <2>1. GoodSum([sum EXCEPT !.pc = "text", !.copy = mem], Len(log))
    BY <1>1, NewSum
  <2> QED BY <1>5, <2>1, <1>1, <1>2 DEF SumRead
<1>6. CASE SetSummary
  <2>1. GoodSum([sum EXCEPT !.pc = "truncate"], Len(log))
    BY <1>1, NewSum
  <2>2. ASSUME NEW x PROVE GoodSession([mem EXCEPT !.sum = x], Len(log))
    <3>1. [mem EXCEPT !.sum = x] = [hist |-> mem.hist, sum |-> x]
      BY <1>1 DEF GoodSession
    <3> QED BY <3>1, <1>1 DEF GoodSession
  <2>3. PICK text : IF text.any
                    THEN mem' = [mem EXCEPT !.sum = text.of] /\ sum' = [sum EXCEPT !.pc = "truncate"]
                    ELSE sum' = NoSum /\ mem' = mem
    BY <1>6 DEF SetSummary
  <2>4. disk' = disk
    BY <1>6 DEF SetSummary
  <2> QED BY <2>1, <2>2, <2>3, <2>4, <1>1, <1>2
<1>7. CASE Truncate
  <2>1. mem' = [hist |-> Kept(mem.hist), sum |-> mem.sum]
    BY <1>7, <1>1 DEF Truncate, GoodSession
  <2>2. GoodHist(Kept(mem.hist), Len(log))
    BY <1>1, KeptGood DEF GoodSession
  <2>3. GoodSession(mem', Len(log))
    BY <2>1, <2>2 DEF GoodSession
  <2>4. GoodSum([NoSum EXCEPT !.pc = "save"], Len(log))
    BY <1>1, <1>2, NewSum
  <2> QED BY <1>7, <2>3, <2>4, <1>1 DEF Truncate
<1>8. CASE SumSnapshot
  <2>1. GoodSum([sum EXCEPT !.pc = "rename", !.copy = mem], Len(log))
    BY <1>1, NewSum
  <2> QED BY <1>8, <2>1, <1>1 DEF SumSnapshot
<1>9. CASE SumRename
  BY <1>9, <1>1, <1>2 DEF SumRename
<1> QED BY <1>5, <1>6, <1>7, <1>8, <1>9 DEF Summarise

\* A crash goes back to the file.
LEMMA CrashAction ==
  ASSUME IInv, Crash
  PROVE  IInv'
<1>1. GoodThread(Idle, Len(log)) /\ GoodSum(NoSum, Len(log))
  BY EmptyGood DEF IInv
<1> QED BY <1>1 DEF IInv, Crash

\* The invariant is inductive.
LEMMA NextIInv == IInv /\ [Next]_vars => IInv'
<1> SUFFICES ASSUME IInv, [Next]_vars PROVE IInv'
  OBVIOUS
<1>1. CASE UNCHANGED vars
  BY <1>1 DEF vars, IInv
<1>2. CASE \E t \in Thread : Step(t)
  BY <1>2, AppendActions, TurnActions DEF Step
<1>3. CASE Summarise
  BY <1>3, SummariserActions
<1>4. CASE Crash
  BY <1>4, CrashAction
<1> QED BY <1>1, <1>2, <1>3, <1>4 DEF Next

\* The invariant gives the property.
LEMMA IInvInOrder == IInv => InOrder
  BY DEF IInv, InOrder, GoodSession, GoodHist, Increasing

\* Whatever turns overlap on a session and whichever stale copies they or the summariser
\* write back, and however often the process restarts, the history holds no message
\* twice and none out of order.
THEOREM InOrderHolds == Spec => []InOrder
  BY InitIInv, NextIInv, IInvInOrder, PTL DEF Spec

----------------------------------------------------------------------------
(* What sessions know                                                      *)

\* The messages a session has, and those it has or has summed up.
LEMMA InSet ==
  ASSUME NEW max \in Nat, NEW h, GoodHist(h, max)
  PROVE  /\ Len(h) \in Nat
         /\ ToSet(h) = {h[j] : j \in 1..Len(h)}
         /\ ToSet(h) \subseteq 1..max
<1>1. h \in Seq(1..max) /\ DOMAIN h = 1..Len(h) /\ Len(h) \in Nat
  BY LenProperties DEF GoodHist
<1>2. \A j \in 1..Len(h) : h[j] \in 1..max
  BY <1>1, ElementOfSeq
<1> QED BY <1>1, <1>2 DEF ToSet

\* A set of natural numbers that is not empty has a least element.
LEMMA Least ==
  ASSUME NEW T \in SUBSET Nat, T # {}
  PROVE  \E x \in T : \A y \in T : x <= y
<1>1. IsWellFoundedOn(OpToRel(<, Nat), Nat)
  BY NatLessThanWellFounded
<1>2. PICK x \in T : \A y \in T : ~(<<y, x>> \in OpToRel(<, Nat))
  BY <1>1, WFMin
<1>3. \A y \in T : ~(y < x)
  BY <1>2 DEF OpToRel
<1> QED BY <1>3

\* A function that grows with each step of one has grown by n after n steps.
LEMMA GrowsByOne ==
  ASSUME NEW n \in Nat, NEW p \in 1..n, NEW f \in [1..n -> Int],
         \A j, k \in 1..n : j < k => f[j] < f[k]
  PROVE  f[n] - f[p] >= n - p
<1> DEFINE Bad == {d \in 0..n-p : f[p + d] < f[p] + d}
<1>1. CASE Bad = {}
  <2>1. n - p \in 0..n-p /\ n - p \notin Bad
    BY <1>1
  <2>2. ~(f[p + (n - p)] < f[p] + (n - p)) /\ p + (n - p) = n
    BY <2>1
  <2> QED BY <2>2
<1>2. CASE Bad # {}
  <2>1. PICK d \in Bad : \A e \in Bad : d <= e
    <3>1. Bad \in SUBSET Nat
      OBVIOUS
    <3> QED BY <3>1, <1>2, Least
  <2>2. d \in 0..n-p /\ f[p + d] < f[p] + d
    BY <2>1
  <2>3. d # 0
    BY <2>2
  <2>4. d - 1 \in 0..n-p /\ d - 1 \notin Bad
    BY <2>1, <2>2, <2>3
  <2>5. f[p + (d - 1)] >= f[p] + (d - 1)
    BY <2>2, <2>4
  <2>6. f[p + (d - 1)] < f[p + d]
    <3>1. p + (d - 1) \in 1..n /\ p + d \in 1..n /\ p + (d - 1) < p + d
      BY <2>2, <2>3
    <3> QED BY <3>1
  <2>7. p + d \in 1..n /\ p + (d - 1) \in 1..n
    BY <2>2, <2>3
  <2> QED BY <2>2, <2>5, <2>6, <2>7
<1> QED BY <1>1, <1>2

\* What a truncation takes from a history comes before the last Keep messages.
LEMMA KeptDrops ==
  ASSUME NEW max \in Nat, NEW h, GoodHist(h, max)
  PROVE  /\ ToSet(Kept(h)) \subseteq ToSet(h)
         /\ \A i \in ToSet(h) \ ToSet(Kept(h)) : \E p \in 1..Len(h)-Keep : h[p] = i
<1>1. /\ h \in Seq(1..max) /\ Len(h) \in Nat /\ ToSet(h) = {h[j] : j \in 1..Len(h)}
      /\ Keep \in Nat \ {0}
  BY InSet, SessionAssumption DEF GoodHist
<1>2. CASE Len(h) <= Keep
  BY <1>2 DEF Kept
<1>3. CASE ~(Len(h) <= Keep)
  <2> DEFINE r == SubSeq(h, Len(h) - Keep + 1, Len(h))
  <2>1. /\ Len(r) = Keep
        /\ \A k \in 1..Keep : r[k] = h[Len(h) - Keep + k]
    <3>1. Len(h) - Keep + 1 \in 1..Len(h)+1 /\ Len(h) \in 0..Len(h) /\ Len(h) - Keep + 1 <= Len(h) + 1
      BY <1>1, <1>3
    <3>2. /\ Len(r) = Len(h) - (Len(h) - Keep + 1) + 1
          /\ \A k \in 1..(Len(h) - (Len(h) - Keep + 1) + 1) : r[k] = h[Len(h) - Keep + 1 + k - 1]
      BY <1>1, <3>1, PartOf
    <3>3. Len(h) - (Len(h) - Keep + 1) + 1 = Keep
      BY <1>1
    <3>4. \A k \in 1..Keep : Len(h) - Keep + 1 + k - 1 = Len(h) - Keep + k
      BY <1>1
    <3> HIDE DEF r
    <3> QED BY <3>2, <3>3, <3>4
  <2>2. Kept(h) = r
    BY <1>3 DEF Kept
  <2>3. GoodHist(r, max)
    BY <2>2, KeptGood
  <2> HIDE DEF r
  <2>4. ToSet(r) = {r[k] : k \in 1..Len(r)}
    BY <2>3, InSet
  <2>5. ToSet(r) \subseteq ToSet(h)
    <3>1. \A k \in 1..Keep : Len(h) - Keep + k \in 1..Len(h)
      BY <1>1, <1>3
    <3> QED BY <1>1, <2>1, <2>4, <3>1
  <2>6. ASSUME NEW i \in ToSet(h) \ ToSet(r) PROVE \E p \in 1..Len(h)-Keep : h[p] = i
    <3>1. PICK p \in 1..Len(h) : h[p] = i
      BY <1>1
    <3>2. CASE p > Len(h) - Keep
      <4>1. p - (Len(h) - Keep) \in 1..Keep /\ Len(h) - Keep + (p - (Len(h) - Keep)) = p
        BY <1>1, <3>1, <3>2
      <4>2. r[p - (Len(h) - Keep)] = i
        BY <4>1, <2>1, <3>1
      <4> QED BY <4>1, <4>2, <2>1, <2>4, <2>6
    <3>3. CASE p <= Len(h) - Keep
      <4>1. p \in 1..Len(h)-Keep
        BY <1>1, <3>1, <3>3
      <4> QED BY <4>1, <3>1
    <3>4. p \in Nat /\ Len(h) \in Nat /\ Keep \in Nat
      BY <1>1, <3>1
    <3> QED BY ONLY <3>2, <3>3, <3>4
  <2> QED BY <2>2, <2>5, <2>6
<1> QED BY <1>1, <1>2, <1>3

\* A message that comes before the last Keep messages of a history does so as well in a
\* history that has all of these messages.
EarlyIn(a, b) == \A p \in 1..Len(a)-Keep : \E q \in 1..Len(b)-Keep : b[q] = a[p]

LEMMA EarlyInBoth ==
  ASSUME NEW max \in Nat, NEW a, NEW b, GoodHist(a, max), GoodHist(b, max), ToSet(a) \subseteq ToSet(b)
  PROVE  EarlyIn(a, b)
<1> SUFFICES ASSUME NEW p \in 1..Len(a)-Keep PROVE \E q \in 1..Len(b)-Keep : b[q] = a[p]
  BY DEF EarlyIn
<1> DEFINE n == Len(a)
           f == [k \in 1..n |-> CHOOSE q \in 1..Len(b) : b[q] = a[k]]
<1>1. /\ Len(a) \in Nat /\ ToSet(a) = {a[j] : j \in 1..Len(a)} /\ ToSet(a) \subseteq 1..max
      /\ Len(b) \in Nat /\ ToSet(b) = {b[j] : j \in 1..Len(b)} /\ ToSet(b) \subseteq 1..max
      /\ Keep \in Nat \ {0}
  BY InSet, SessionAssumption
<1>2. \A k \in 1..n : \E q \in 1..Len(b) : b[q] = a[k]
  BY <1>1
<1>3. \A k \in 1..n : f[k] \in 1..Len(b) /\ b[f[k]] = a[k]
  BY <1>2
<1>4. f \in [1..n -> Int]
  BY <1>1, <1>3
<1> HIDE DEF f
<1>5. ASSUME NEW j \in 1..n, NEW k \in 1..n, j < k PROVE f[j] < f[k]
  <2>1. a[j] < a[k] /\ a[j] \in 1..max /\ a[k] \in 1..max
    BY <1>1, <1>5 DEF GoodHist, Increasing
  <2>2. f[k] # f[j]
    BY <1>3, <2>1
  <2>3. ~(f[k] < f[j])
    <3>1. f[k] < f[j] => b[f[k]] < b[f[j]]
      BY <1>3 DEF GoodHist, Increasing
    <3> QED BY <3>1, <1>3, <2>1
  <2>4. f[j] \in Int /\ f[k] \in Int
    BY <1>1, <1>3
  <2> QED BY <2>2, <2>3, <2>4
<1>6. p \in 1..n /\ n \in Nat /\ n - p >= Keep
  BY <1>1
<1>7. f[n] - f[p] >= n - p
  BY <1>4, <1>5, <1>6, GrowsByOne
<1>8. f[p] \in 1..Len(b) /\ f[n] \in 1..Len(b) /\ b[f[p]] = a[p]
  BY <1>3, <1>6
<1>9. f[p] \in 1..Len(b)-Keep
  BY <1>1, <1>6, <1>7, <1>8
<1> QED BY <1>8, <1>9

----------------------------------------------------------------------------
(* Types                                                                   *)

LogEntry == [role : Role, of : 0..MaxLog, calls : 0..MaxCalls]
ThreadState ==
    [pc : {"idle", "llm", "tools", "compress", "csave", "crename", "rebuilt", "save", "rename",
           "summarize"},
     request : 0..MaxLog, call : 0..MaxLog, left : 0..MaxCalls, iter : 0..MaxIterations,
     retry : 0..MaxLLMRetries, copy : Session]
SumState == [pc : {"idle", "read", "text", "truncate", "save", "rename"}, late : BOOLEAN, copy : Session]

\* Every summary, also that of a copy, is of messages of the log.
SumsKnown ==
    /\ mem.sum \subseteq 1..Len(log) /\ disk.sum \subseteq 1..Len(log)
    /\ sum.copy.sum \subseteq 1..Len(log)
    /\ \A t \in Thread : thread[t].copy.sum \subseteq 1..Len(log)

\* A turn that waits for tools waits for one at least.
CallsLeft == \A t \in Thread : thread[t].pc = "tools" => thread[t].left >= 1

\* A summary is of messages it was made from.
LEMMA TextsFrom ==
  ASSUME NEW v, NEW old, NEW text \in Texts(v, old)
  PROVE  text.of \subseteq v \cup old
<1> DEFINE some(c) == [any |-> TRUE, of |-> c]
<1>1. \/ text = [any |-> FALSE, of |-> {}] \/ text = some(v \cup old) \/ text = some(v)
      \/ text = some(FirstPart(v)) \/ text = some(v \ FirstPart(v)) \/ text = some({})
  BY DEF Texts
<1>2. FirstPart(v) \subseteq v
  BY DEF FirstPart
<1>3. \A c : some(c).of = c
  OBVIOUS
<1> HIDE DEF some
<1>4. \/ text.of = {} \/ text.of = v \cup old \/ text.of = v
      \/ text.of = FirstPart(v) \/ text.of = v \ FirstPart(v)
  BY <1>1, <1>3
<1> QED BY <1>2, <1>4

\* Where copies and files come from.
LEMMA Moves ==
  ASSUME IInv, Next
  PROVE  /\ Len(log') \in {Len(log), Len(log) + 1}
         /\ \A t \in Thread : thread'[t].copy \in {thread[t].copy, Empty, mem}
         /\ sum'.copy \in {sum.copy, Empty, mem}
         /\ disk' \in {disk, sum.copy} \/ \E t \in Thread : disk' = thread[t].copy
         /\ \/ mem'.sum \in {mem.sum, disk.sum}
            \/ mem'.sum \subseteq Valid(sum.copy.hist) \cup sum.copy.sum
<1> DEFINE Goal ==
             /\ Len(log') \in {Len(log), Len(log) + 1}
             /\ \A t \in Thread : thread'[t].copy \in {thread[t].copy, Empty, mem}
             /\ sum'.copy \in {sum.copy, Empty, mem}
             /\ disk' \in {disk, sum.copy} \/ \E t \in Thread : disk' = thread[t].copy
             /\ \/ mem'.sum \in {mem.sum, disk.sum}
                \/ mem'.sum \subseteq Valid(sum.copy.hist) \cup sum.copy.sum
<1>1. /\ thread = [t \in Thread |-> thread[t]]
      /\ \A t \in Thread : thread[t] = [pc |-> thread[t].pc, request |-> thread[t].request,
            call |-> thread[t].call, left |-> thread[t].left, iter |-> thread[t].iter,
            retry |-> thread[t].retry, copy |-> thread[t].copy]
      /\ sum = [pc |-> sum.pc, late |-> sum.late, copy |-> sum.copy]
      /\ mem = [hist |-> mem.hist, sum |-> mem.sum]
  BY DEF IInv, GoodThread, GoodSum, GoodSession
<1>2. Idle.copy = Empty /\ NoSum.copy = Empty
  BY DEF Idle, NoSum
<1>3. ASSUME NEW t \in Thread, Begin(t) \/ ToolResult(t) \/ Answer(t) \/ \E n \in 1..MaxCalls : CallTools(t, n)
      PROVE  Goal
  <2>1. PICK S : log \in Seq(S)
    BY DEF IInv
  <2>2. PICK role, call, n : AddFullMessage(role, call, n)
    BY <1>3, Zenon DEF Begin, ToolResult, Answer, CallTools
  <2>3. Len(log') = Len(log) + 1
    <3> DEFINE x == [role |-> role, of |-> call, calls |-> n]
    <3>1. log' = Append(log, x)
      BY <2>2 DEF AddFullMessage
    <3> HIDE DEF x
    <3>2. log \in Seq(S \cup {x}) /\ x \in S \cup {x}
      BY <2>1
    <3> QED BY <3>1, <3>2, AppendProperties
  <2>4. sum'.copy = sum.copy /\ mem'.sum = mem.sum
    BY <1>1, <2>2 DEF AddFullMessage
  <2>5. disk' = disk
    BY <1>3 DEF Begin, ToolResult, Answer, CallTools
  <2>6. \A s \in Thread : thread'[s].copy \in {thread[s].copy, Empty}
    <3>1. CASE Begin(t)
      BY <3>1, <1>1 DEF Begin
    <3>2. CASE ToolResult(t)
      BY <3>2, <1>1 DEF ToolResult
    <3>3. CASE Answer(t)
      <4>1. [Idle EXCEPT !.pc = "save"].copy = Empty
        BY DEF Idle
      <4> QED BY <3>3, <4>1, <1>1 DEF Answer
    <3>4. CASE \E k \in 1..MaxCalls : CallTools(t, k)
      BY <3>4, <1>1 DEF CallTools
    <3> QED BY <1>3, <3>1, <3>2, <3>3, <3>4
  <2> QED BY <2>3, <2>4, <2>5, <2>6
<1>4. ASSUME NEW t \in Thread, FailTurn(t) \/ CompressRead(t) \/ CompressWrite(t) \/ MaybeSummarize(t)
      PROVE  Goal
  <2>1. CASE FailTurn(t)
    BY <2>1, <1>1, <1>2 DEF FailTurn
  <2>2. CASE CompressRead(t)
    BY <2>2, <1>1 DEF CompressRead
  <2>3. CASE CompressWrite(t)
    BY <2>3, <1>1 DEF CompressWrite
  <2>4. CASE MaybeSummarize(t)
    <3>1. sum' = sum \/ sum'.copy = Empty
      BY <2>4 DEF MaybeSummarize, NoSum
    <3> QED BY <2>4, <3>1, <1>1, <1>2 DEF MaybeSummarize
  <2> QED BY <1>4, <2>1, <2>2, <2>3, <2>4
<1>5. ASSUME NEW t \in Thread, NEW from, NEW to, SaveSnapshot(t, from, to) \/ SaveRename(t, from, to)
      PROVE  Goal
  BY <1>1, <1>5 DEF SaveSnapshot, SaveRename
<1>6. CASE Summarise
  <2>1. CASE SumRead
    BY <2>1, <1>1, <1>2 DEF SumRead
  <2>2. CASE SetSummary
    <3>1. PICK text \in Texts(Valid(sum.copy.hist), sum.copy.sum) :
            \/ mem' = [mem EXCEPT !.sum = text.of] /\ sum' = [sum EXCEPT !.pc = "truncate"]
            \/ sum' = NoSum /\ mem' = mem
      BY <2>2 DEF SetSummary
    <3>2. text.of \subseteq Valid(sum.copy.hist) \cup sum.copy.sum
      BY TextsFrom
    <3>3. mem'.sum \in {mem.sum, text.of}
      BY <3>1, <1>1
    <3>4. sum'.copy \in {sum.copy, Empty}
      BY <3>1, <1>1, <1>2
    <3> QED BY <2>2, <3>2, <3>3, <3>4 DEF SetSummary
  <2>3. CASE Truncate
    <3>1. sum'.copy = Empty
      BY <2>3 DEF Truncate, NoSum
    <3> QED BY <2>3, <3>1, <1>1 DEF Truncate
  <2>4. CASE SumSnapshot
    BY <2>4, <1>1 DEF SumSnapshot
  <2>5. CASE SumRename
    BY <2>5, <1>1, <1>2 DEF SumRename
  <2> QED BY <1>6, <2>1, <2>2, <2>3, <2>4, <2>5 DEF Summarise
<1>7. CASE Crash
  BY <1>7, <1>2 DEF Crash
<1> QED BY <1>3, <1>4, <1>5, <1>6, <1>7 DEF Next, Step

LEMMA SumsStep == IInv /\ SumsKnown /\ [Next]_vars => SumsKnown'
<1> SUFFICES ASSUME IInv, SumsKnown, [Next]_vars PROVE SumsKnown'
  OBVIOUS
<1>1. CASE UNCHANGED vars
  BY <1>1 DEF vars, SumsKnown
<1>2. CASE Next
  <2>1. Len(log) \in Nat /\ Len(log') \in {Len(log), Len(log) + 1}
    BY <1>2, Moves DEF IInv
  <2>2. 1..Len(log) \subseteq 1..Len(log')
    BY <2>1
  <2>3. Empty.sum = {}
    BY DEF Empty
  <2>4. Valid(sum.copy.hist) \subseteq 1..Len(log)
    <3>1. GoodHist(sum.copy.hist, Len(log))
      BY DEF IInv, GoodSum, GoodSession
    <3>2. /\ Len(sum.copy.hist) \in Nat /\ Keep \in Nat
          /\ \A j \in 1..Len(sum.copy.hist) : sum.copy.hist[j] \in 1..Len(log)
      BY <2>1, <3>1, InSet, SessionAssumption
    <3>3. \A j \in 1..Len(sum.copy.hist)-Keep : j \in 1..Len(sum.copy.hist)
      BY <3>2
    <3> QED BY <3>2, <3>3 DEF Valid
  <2>5. mem'.sum \subseteq 1..Len(log)
    BY <1>2, <2>4, Moves DEF SumsKnown
  <2>6. disk'.sum \subseteq 1..Len(log)
    BY <1>2, Moves DEF SumsKnown
  <2>7. sum'.copy.sum \subseteq 1..Len(log)
    BY <1>2, <2>3, Moves DEF SumsKnown
  <2>8. \A t \in Thread : thread'[t].copy.sum \subseteq 1..Len(log)
    BY <1>2, <2>3, Moves DEF SumsKnown
  <2> HIDE DEF SumsKnown
  <2> QED BY <2>2, <2>5, <2>6, <2>7, <2>8 DEF SumsKnown
<1> QED BY <1>1, <1>2

\* A session that is good in a log of the allowed length is a session.
LEMMA SessionType ==
  ASSUME NEW max \in 0..MaxLog, NEW s, GoodSession(s, max), s.sum \subseteq 1..max
  PROVE  s \in Session
<1>1. MaxLog \in Nat /\ 1..max \subseteq Id
  BY SessionAssumption DEF Id
<1>2. s.hist \in Seq(1..max) /\ s.sum \in SUBSET Id
  BY <1>1 DEF GoodSession, GoodHist
<1>4. \A T : 1..max \subseteq T => Seq(1..max) \subseteq Seq(T)
  OBVIOUS
<1>5. s.hist \in Seq(Id)
  BY <1>1, <1>2, <1>4
<1>3. s = [hist |-> s.hist, sum |-> s.sum]
  BY DEF GoodSession
<1> QED BY <1>2, <1>3, <1>5 DEF Session

\* All sessions and copies of a good state are sessions.
LEMMA SessionTypes ==
  ASSUME IInv, SumsKnown, Len(log) <= MaxLog
  PROVE  /\ mem \in Session /\ disk \in Session /\ sum.copy \in Session
         /\ \A t \in Thread : thread[t].copy \in Session
<1>1. Len(log) \in 0..MaxLog
  BY SessionAssumption DEF IInv
<1> QED BY <1>1, SessionType DEF IInv, SumsKnown, GoodThread, GoodSum

LEMMA InitTypes == Init => TypeOK /\ CallsLeft /\ SumsKnown
<1> SUFFICES ASSUME Init PROVE TypeOK /\ CallsLeft /\ SumsKnown
  OBVIOUS
<1>1. log = <<>> /\ Len(log) = 0 /\ log \in Seq(LogEntry)
  BY DEF Init
<1>2. SumsKnown
  BY <1>1 DEF Init, SumsKnown, Empty, Idle, NoSum
<1>3. CallsLeft
  BY DEF Init, CallsLeft, Idle
<1>4. mem \in Session /\ disk \in Session /\ sum.copy \in Session /\ \A t \in Thread : thread[t].copy \in Session
  BY <1>1, <1>2, InitIInv, SessionTypes, SessionAssumption
<1>5. Empty \in Session
  BY <1>4 DEF Init
<1>6. sum \in SumState
  BY <1>5 DEF Init, NoSum, SumState
<1>7. thread \in [Thread -> ThreadState]
  <2>1. Idle \in ThreadState
    BY <1>5, SessionAssumption DEF Idle, ThreadState
  <2> QED BY <2>1 DEF Init
<1>8. crashes \in 0..MaxCrash /\ excused \subseteq Id /\ mixed \in BOOLEAN /\ torn \in BOOLEAN
  <2>1. crashes = 0 /\ excused = {} /\ mixed = FALSE /\ torn = FALSE
    BY DEF Init
  <2>2. 0 \in 0..MaxCrash
    BY SessionAssumption
  <2> QED BY <2>1, <2>2
<1>9. Len(log) <= MaxLog
  BY <1>1, SessionAssumption
<1>10. TypeOK
  BY <1>1, <1>4, <1>6, <1>7, <1>8, <1>9 DEF TypeOK, LogEntry, SumState, ThreadState
<1> QED BY <1>2, <1>3, <1>10

\* Appending an entry to the log.
LEMMA AddTypes ==
  ASSUME TypeOK, NEW role \in Role, NEW call \in 0..MaxLog, NEW n \in 0..MaxCalls,
         AddFullMessage(role, call, n)
  PROVE  /\ log' \in Seq(LogEntry) /\ Len(log') <= MaxLog /\ Len(log) + 1 \in 1..MaxLog
         /\ sum'.pc = sum.pc /\ sum'.late \in BOOLEAN
         /\ sum' = [pc |-> sum'.pc, late |-> sum'.late, copy |-> sum'.copy]
<1> DEFINE x == [role |-> role, of |-> call, calls |-> n]
<1>1. log' = Append(log, x) /\ Len(log) < MaxLog
  BY DEF AddFullMessage
<1>2. log \in Seq(LogEntry) /\ x \in LogEntry /\ Len(log) \in Nat /\ MaxLog \in Nat
  BY LenProperties, SessionAssumption DEF TypeOK, LogEntry
<1> HIDE DEF x
<1>3. log' \in Seq(LogEntry) /\ Len(log') = Len(log) + 1
  BY <1>1, <1>2, AppendProperties
<1>4. sum \in SumState
  BY DEF TypeOK, SumState
<1>5. sum' = [sum EXCEPT !.late = sum.late \/ sum.pc \in {"text", "truncate"}]
  BY DEF AddFullMessage
<1>6. /\ sum'.pc = sum.pc /\ sum'.late \in BOOLEAN
      /\ sum' = [pc |-> sum'.pc, late |-> sum'.late, copy |-> sum'.copy]
  BY <1>4, <1>5 DEF SumState
<1> QED BY <1>1, <1>2, <1>3, <1>6

\* The part of the types that is about the goroutines, the log and the histories.
Scalars ==
    /\ log \in Seq(LogEntry) /\ Len(log) <= MaxLog
    /\ thread = [t \in Thread |-> thread[t]]
    /\ \A t \in Thread :
         /\ thread[t] = [pc |-> thread[t].pc, request |-> thread[t].request,
              call |-> thread[t].call, left |-> thread[t].left, iter |-> thread[t].iter,
              retry |-> thread[t].retry, copy |-> thread[t].copy]
         /\ thread[t].pc \in {"idle", "llm", "tools", "compress", "csave", "crename", "rebuilt",
                               "save", "rename", "summarize"}
         /\ thread[t].request \in 0..MaxLog /\ thread[t].call \in 0..MaxLog
         /\ thread[t].left \in 0..MaxCalls /\ thread[t].iter \in 0..MaxIterations
         /\ thread[t].retry \in 0..MaxLLMRetries
    /\ sum = [pc |-> sum.pc, late |-> sum.late, copy |-> sum.copy]
    /\ sum.pc \in {"idle", "read", "text", "truncate", "save", "rename"} /\ sum.late \in BOOLEAN
    /\ crashes \in 0..MaxCrash /\ excused \subseteq Id /\ mixed \in BOOLEAN /\ torn \in BOOLEAN

\* The types are these and those of the sessions.
LEMMA TypesFrom ==
  ASSUME IInv, SumsKnown, Scalars
  PROVE  TypeOK
<1>1. /\ mem \in Session /\ disk \in Session /\ sum.copy \in Session
      /\ \A t \in Thread : thread[t].copy \in Session
  BY SessionTypes DEF Scalars
<1>2. ASSUME NEW t \in Thread PROVE thread[t] \in ThreadState
  <2> DEFINE r == thread[t]
  <2>1. /\ r = [pc |-> r.pc, request |-> r.request, call |-> r.call, left |-> r.left,
                iter |-> r.iter, retry |-> r.retry, copy |-> r.copy]
        /\ r.pc \in {"idle", "llm", "tools", "compress", "csave", "crename", "rebuilt",
                      "save", "rename", "summarize"}
        /\ r.request \in 0..MaxLog /\ r.call \in 0..MaxLog
        /\ r.left \in 0..MaxCalls /\ r.iter \in 0..MaxIterations
        /\ r.retry \in 0..MaxLLMRetries /\ r.copy \in Session
    BY <1>1 DEF Scalars
  <2> HIDE DEF r
  <2>2. r \in ThreadState
    BY <2>1 DEF ThreadState
  <2> QED BY <2>2 DEF r
<1>3. thread \in [Thread -> ThreadState]
  BY <1>2 DEF Scalars
<1>4. sum \in SumState
  BY <1>1 DEF Scalars, SumState
<1> QED BY <1>1, <1>3, <1>4 DEF Scalars, TypeOK, ThreadState, SumState, LogEntry

LEMMA TypesGive ==
  ASSUME TypeOK
  PROVE  Scalars
<1>1. thread \in [Thread -> ThreadState] /\ sum \in SumState
  BY DEF TypeOK, ThreadState, SumState
<1> QED BY <1>1 DEF TypeOK, Scalars, ThreadState, SumState, LogEntry

\* A step of one goroutine, given by its new state.
LEMMA ThreadScalars ==
  ASSUME Scalars, NEW t \in Thread, NEW r, thread' = [thread EXCEPT ![t] = r],
         r = [pc |-> r.pc, request |-> r.request, call |-> r.call, left |-> r.left,
              iter |-> r.iter, retry |-> r.retry, copy |-> r.copy],
         r.pc \in {"idle", "llm", "tools", "compress", "csave", "crename", "rebuilt",
                   "save", "rename", "summarize"},
         r.request \in 0..MaxLog, r.call \in 0..MaxLog, r.left \in 0..MaxCalls,
         r.iter \in 0..MaxIterations, r.retry \in 0..MaxLLMRetries,
         log' \in Seq(LogEntry), Len(log') <= MaxLog,
         sum' = [pc |-> sum'.pc, late |-> sum'.late, copy |-> sum'.copy],
         sum'.pc \in {"idle", "read", "text", "truncate", "save", "rename"}, sum'.late \in BOOLEAN,
         crashes' \in 0..MaxCrash, excused' \subseteq Id, mixed' \in BOOLEAN, torn' \in BOOLEAN,
         CallsLeft, r.pc = "tools" => r.left >= 1
  PROVE  Scalars' /\ CallsLeft'
<1>1. thread' = [s \in Thread |-> thread'[s]]
  BY DEF Scalars
<1>2. \A s \in Thread : thread'[s] = IF s = t THEN r ELSE thread[s]
  BY DEF Scalars
<1>3. CallsLeft'
  BY <1>2 DEF CallsLeft
<1>4. ASSUME NEW s \in Thread
      PROVE  /\ thread'[s] = [pc |-> thread'[s].pc, request |-> thread'[s].request,
                call |-> thread'[s].call, left |-> thread'[s].left, iter |-> thread'[s].iter,
                retry |-> thread'[s].retry, copy |-> thread'[s].copy]
             /\ thread'[s].pc \in {"idle", "llm", "tools", "compress", "csave", "crename", "rebuilt",
                                   "save", "rename", "summarize"}
             /\ thread'[s].request \in 0..MaxLog /\ thread'[s].call \in 0..MaxLog
             /\ thread'[s].left \in 0..MaxCalls /\ thread'[s].iter \in 0..MaxIterations
             /\ thread'[s].retry \in 0..MaxLLMRetries
  <2>1. CASE s = t
    BY <2>1, <1>2
  <2>2. CASE s # t
    <3>1. thread'[s] = thread[s]
      BY <2>2, <1>2
    <3> QED BY <3>1 DEF Scalars
  <2> QED BY <2>1, <2>2
<1> QED BY <1>1, <1>3, <1>4 DEF Scalars

LEMMA IdleScalars ==
    /\ Idle.pc = "idle" /\ Idle.request = 0 /\ Idle.call = 0 /\ Idle.left = 0 /\ Idle.iter = 0
    /\ Idle.retry = 0 /\ NoSum.pc = "idle" /\ NoSum.late = FALSE
    /\ Idle = [pc |-> "idle", request |-> 0, call |-> 0, left |-> 0, iter |-> 0, retry |-> 0,
               copy |-> Empty]
    /\ NoSum = [pc |-> "idle", late |-> FALSE, copy |-> Empty]
BY DEF Idle, NoSum

LEMMA AppendScalars ==
  ASSUME TypeOK, CallsLeft, NEW t \in Thread,
         Begin(t) \/ ToolResult(t) \/ Answer(t) \/ \E n \in 1..MaxCalls : CallTools(t, n)
  PROVE  Scalars' /\ CallsLeft'
<1> DEFINE r == thread'[t]
<1>1. Scalars /\ MaxLog \in Nat /\ MaxCalls \in Nat \ {0} /\ MaxIterations \in Nat /\ MaxLLMRetries \in Nat
  BY TypesGive, SessionAssumption
<1>2. \E role \in Role, call \in 0..MaxLog, n \in 0..MaxCalls : AddFullMessage(role, call, n)
  <2>1. CASE Begin(t)
    BY <2>1, <1>1 DEF Begin, Role
  <2>2. CASE ToolResult(t)
    <3>1. AddFullMessage("tool", thread[t].call, 0) /\ thread[t].call \in 0..MaxLog
      BY <2>2, <1>1 DEF ToolResult, Scalars
    <3>2. 0 \in 0..MaxCalls /\ "tool" \in Role
      BY <1>1 DEF Role
    <3> QED BY <3>1, <3>2
  <2>3. CASE Answer(t)
    BY <2>3, <1>1 DEF Answer, Role
  <2>4. CASE \E n \in 1..MaxCalls : CallTools(t, n)
    <3>1. PICK n \in 1..MaxCalls : CallTools(t, n)
      BY <2>4
    <3>2. AddFullMessage("call", 0, n)
      BY <3>1 DEF CallTools
    <3>3. n \in 0..MaxCalls /\ 0 \in 0..MaxLog /\ "call" \in Role
      BY <1>1 DEF Role
    <3> QED BY <3>2, <3>3
  <2> QED BY <2>1, <2>2, <2>3, <2>4
<1>3. /\ log' \in Seq(LogEntry) /\ Len(log') <= MaxLog /\ Len(log) + 1 \in 1..MaxLog
      /\ sum'.pc = sum.pc /\ sum'.late \in BOOLEAN
      /\ sum' = [pc |-> sum'.pc, late |-> sum'.late, copy |-> sum'.copy]
  BY <1>2, AddTypes
<1>4. crashes' = crashes /\ excused' = excused /\ torn' = torn /\ mixed' \in BOOLEAN
  BY <1>1 DEF Begin, ToolResult, Answer, CallTools, flags, Scalars
<1>5. /\ thread' = [thread EXCEPT ![t] = r]
      /\ r = [pc |-> r.pc, request |-> r.request, call |-> r.call, left |-> r.left,
              iter |-> r.iter, retry |-> r.retry, copy |-> r.copy]
      /\ r.pc \in {"llm", "tools", "save"}
      /\ r.request \in 0..MaxLog /\ r.call \in 0..MaxLog /\ r.left \in 0..MaxCalls
      /\ r.iter \in 0..MaxIterations /\ r.retry \in 0..MaxLLMRetries
      /\ r.pc = "tools" => r.left >= 1
  <2> DEFINE old == thread[t]
  <2>0. /\ thread = [s \in Thread |-> thread[s]]
        /\ old = [pc |-> old.pc, request |-> old.request, call |-> old.call, left |-> old.left,
                  iter |-> old.iter, retry |-> old.retry, copy |-> old.copy]
        /\ old.request \in 0..MaxLog /\ old.call \in 0..MaxLog /\ old.left \in 0..MaxCalls
        /\ old.iter \in 0..MaxIterations /\ old.retry \in 0..MaxLLMRetries
        /\ old.pc = "tools" => old.left >= 1
    BY <1>1 DEF Scalars, CallsLeft
  <2>1. CASE Begin(t)
    <3>1. r = [old EXCEPT !.pc = "llm", !.request = Len(log) + 1] /\ thread' = [thread EXCEPT ![t] = r]
      BY <2>0, <2>1 DEF Begin
    <3> HIDE DEF old
    <3>2. /\ r = [pc |-> "llm", request |-> Len(log) + 1, call |-> old.call, left |-> old.left,
                  iter |-> old.iter, retry |-> old.retry, copy |-> old.copy]
      BY <2>0, <3>1
    <3>3. /\ r.pc = "llm" /\ r.request = Len(log) + 1 /\ r.call = old.call /\ r.left = old.left
          /\ r.iter = old.iter /\ r.retry = old.retry /\ r.copy = old.copy
      BY <3>2
    <3>4. Len(log) + 1 \in 0..MaxLog
      BY <1>1, <1>3
    <3> HIDE DEF r
    <3> QED BY <2>0, <3>1, <3>2, <3>3, <3>4
  <2>2. CASE ToolResult(t)
    <3>1. /\ old.pc = "tools"
          /\ thread' = [thread EXCEPT ![t] = r]
          /\ r = [old EXCEPT !.left = old.left - 1, !.pc = IF old.left = 1 THEN "llm" ELSE old.pc,
                             !.call = IF old.left = 1 THEN 0 ELSE old.call]
      BY <2>0, <2>2 DEF ToolResult
    <3> HIDE DEF old
    <3>2. r = [pc |-> IF old.left = 1 THEN "llm" ELSE old.pc, request |-> old.request,
               call |-> IF old.left = 1 THEN 0 ELSE old.call, left |-> old.left - 1,
               iter |-> old.iter, retry |-> old.retry, copy |-> old.copy]
      BY <2>0, <3>1
    <3>3. /\ r.pc = (IF old.left = 1 THEN "llm" ELSE old.pc) /\ r.request = old.request
          /\ r.call = (IF old.left = 1 THEN 0 ELSE old.call) /\ r.left = old.left - 1
          /\ r.iter = old.iter /\ r.retry = old.retry /\ r.copy = old.copy
      BY <3>2
    <3> HIDE DEF r
    <3>4. r = [pc |-> r.pc, request |-> r.request, call |-> r.call, left |-> r.left,
               iter |-> r.iter, retry |-> r.retry, copy |-> r.copy]
      BY <3>2, <3>3
    <3>5. old.left \in Nat /\ old.left - 1 \in 0..MaxCalls /\ 0 \in 0..MaxLog
          /\ (old.left # 1 => old.left - 1 >= 1)
      BY <2>0, <3>1, <1>1
    <3>6. r.call \in 0..MaxLog /\ r.pc \in {"llm", "tools"} /\ (r.pc = "tools" => r.left >= 1)
      BY <2>0, <3>1, <3>3, <3>5
    <3> QED BY <2>0, <3>1, <3>3, <3>4, <3>5, <3>6
  <2>3. CASE Answer(t)
    <3>1. r = [Idle EXCEPT !.pc = "save"] /\ thread' = [thread EXCEPT ![t] = r]
      BY <2>0, <2>3 DEF Answer
    <3>2. r = [pc |-> "save", request |-> 0, call |-> 0, left |-> 0, iter |-> 0, retry |-> 0, copy |-> Empty]
      BY <3>1 DEF Idle
    <3>3. /\ r.pc = "save" /\ r.request = 0 /\ r.call = 0 /\ r.left = 0 /\ r.iter = 0
          /\ r.retry = 0 /\ r.copy = Empty
      BY <3>2
    <3> HIDE DEF r
    <3>4. r = [pc |-> r.pc, request |-> r.request, call |-> r.call, left |-> r.left,
               iter |-> r.iter, retry |-> r.retry, copy |-> r.copy]
      BY <3>2, <3>3
    <3>5. 0 \in 0..MaxLog /\ 0 \in 0..MaxCalls /\ 0 \in 0..MaxIterations /\ 0 \in 0..MaxLLMRetries
      BY <1>1
    <3> QED BY <3>1, <3>3, <3>4, <3>5
  <2>4. CASE \E n \in 1..MaxCalls : CallTools(t, n)
    <3>1. PICK n \in 1..MaxCalls : CallTools(t, n)
      BY <2>4
    <3>2. /\ old.iter < MaxIterations
          /\ thread' = [thread EXCEPT ![t] = r]
          /\ r = [old EXCEPT !.pc = "tools", !.call = Len(log) + 1, !.left = n,
                             !.iter = old.iter + 1, !.retry = 0]
      BY <2>0, <3>1 DEF CallTools, AtModel
    <3> HIDE DEF old
    <3>3. r = [pc |-> "tools", request |-> old.request, call |-> Len(log) + 1, left |-> n,
               iter |-> old.iter + 1, retry |-> 0, copy |-> old.copy]
      BY <2>0, <3>2
    <3>5. /\ r.pc = "tools" /\ r.request = old.request /\ r.call = Len(log) + 1 /\ r.left = n
          /\ r.iter = old.iter + 1 /\ r.retry = 0 /\ r.copy = old.copy
      BY <3>3
    <3> HIDE DEF r
    <3>6. r = [pc |-> r.pc, request |-> r.request, call |-> r.call, left |-> r.left,
               iter |-> r.iter, retry |-> r.retry, copy |-> r.copy]
      BY <3>3, <3>5
    <3>7. Len(log) + 1 \in 0..MaxLog
      BY <1>1, <1>3
    <3>4. old.iter + 1 \in 0..MaxIterations /\ n \in 0..MaxCalls /\ n >= 1 /\ 0 \in 0..MaxLLMRetries
      BY <2>0, <3>2, <1>1
    <3> QED BY <2>0, <3>2, <3>4, <3>5, <3>6, <3>7
  <2> QED BY <2>1, <2>2, <2>3, <2>4
<1> HIDE DEF r
<1>6. /\ sum'.pc \in {"idle", "read", "text", "truncate", "save", "rename"}
      /\ crashes' \in 0..MaxCrash /\ excused' \subseteq Id /\ torn' \in BOOLEAN
  BY <1>1, <1>3, <1>4 DEF Scalars
<1> QED BY <1>1, <1>3, <1>4, <1>5, <1>6, ThreadScalars

\* The messages of a history are messages.
LEMMA HistIds ==
  ASSUME NEW h \in Seq(Id)
  PROVE  ToSet(h) \subseteq Id /\ (\A j \in 1..Len(h) : h[j] \in Id) /\ Valid(h) \subseteq Id
<1>1. DOMAIN h = 1..Len(h) /\ Len(h) \in Nat /\ \A j \in 1..Len(h) : h[j] \in Id
  BY LenProperties, ElementOfSeq
<1>2. \A j \in 1..Len(h)-Keep : j \in 1..Len(h)
  BY <1>1, SessionAssumption
<1> QED BY <1>1, <1>2 DEF ToSet, Valid

\* The steps of a turn that append nothing.
LEMMA TurnScalars ==
  ASSUME TypeOK, CallsLeft, NEW t \in Thread,
         \/ FailTurn(t) \/ MaybeSummarize(t) \/ CompressRead(t) \/ CompressWrite(t)
         \/ SaveSnapshot(t, "csave", "crename") \/ SaveRename(t, "crename", "rebuilt")
         \/ SaveSnapshot(t, "save", "rename") \/ SaveRename(t, "rename", "summarize")
  PROVE  Scalars' /\ CallsLeft'
<1> DEFINE old == thread[t]
<1>1. Scalars /\ MaxLog \in Nat /\ MaxCalls \in Nat \ {0} /\ MaxIterations \in Nat /\ MaxLLMRetries \in Nat
  BY TypesGive, SessionAssumption
<1>2. /\ thread = [s \in Thread |-> thread[s]]
      /\ old = [pc |-> old.pc, request |-> old.request, call |-> old.call, left |-> old.left,
                iter |-> old.iter, retry |-> old.retry, copy |-> old.copy]
      /\ old.request \in 0..MaxLog /\ old.call \in 0..MaxLog /\ old.left \in 0..MaxCalls
      /\ old.iter \in 0..MaxIterations /\ old.retry \in 0..MaxLLMRetries
  BY <1>1 DEF Scalars
<1>3. PICK r : /\ thread' = [thread EXCEPT ![t] = r]
               /\ \/ r = Idle
                  \/ \E pc \in {"compress", "csave", "crename", "rebuilt", "rename", "summarize"} :
                        \E copy : r = [old EXCEPT !.pc = pc, !.copy = copy]
                  \/ \E pc \in {"compress", "rebuilt"} : \E copy :
                        /\ old.retry < MaxLLMRetries
                        /\ r = [old EXCEPT !.retry = old.retry + 1, !.pc = pc, !.copy = copy]
  <2>1. CASE FailTurn(t) \/ MaybeSummarize(t)
    BY <2>1 DEF FailTurn, MaybeSummarize
  <2>2. CASE CompressRead(t)
    <3> DEFINE pc == IF Len(mem.hist) <= Keep THEN "rebuilt" ELSE "compress"
               copy == IF Len(mem.hist) <= Keep THEN Empty ELSE mem
    <3>1. /\ thread' = [thread EXCEPT ![t] = [old EXCEPT !.retry = old.retry + 1, !.pc = pc, !.copy = copy]]
          /\ old.retry < MaxLLMRetries /\ pc \in {"compress", "rebuilt"}
      BY <2>2 DEF CompressRead
    <3> HIDE DEF pc, copy
    <3> QED BY <3>1
  <2>3. CASE CompressWrite(t)
    BY <2>3 DEF CompressWrite
  <2>4. ASSUME NEW from, NEW to \in {"crename", "rebuilt", "rename", "summarize"},
               SaveSnapshot(t, from, to) \/ SaveRename(t, from, to)
        PROVE  \E pc \in {"compress", "csave", "crename", "rebuilt", "rename", "summarize"} :
                  \E copy : thread' = [thread EXCEPT ![t] = [old EXCEPT !.pc = pc, !.copy = copy]]
    <3>1. CASE SaveSnapshot(t, from, to)
      <4>1. thread' = [thread EXCEPT ![t] = [old EXCEPT !.pc = to, !.copy = mem]]
        BY <3>1 DEF SaveSnapshot
      <4> HIDE DEF old
      <4> QED BY <4>1
    <3>2. CASE SaveRename(t, from, to)
      <4>1. thread' = [thread EXCEPT ![t] = [old EXCEPT !.pc = to, !.copy = Empty]]
        BY <3>2 DEF SaveRename
      <4> HIDE DEF old
      <4> QED BY <4>1
    <3> QED BY <2>4, <3>1, <3>2
  <2>5. CASE \/ SaveSnapshot(t, "csave", "crename") \/ SaveRename(t, "crename", "rebuilt")
             \/ SaveSnapshot(t, "save", "rename") \/ SaveRename(t, "rename", "summarize")
    <3>1. PICK pc \in {"compress", "csave", "crename", "rebuilt", "rename", "summarize"} :
             \E copy : thread' = [thread EXCEPT ![t] = [old EXCEPT !.pc = pc, !.copy = copy]]
      BY <2>4, <2>5
    <3>2. PICK copy : thread' = [thread EXCEPT ![t] = [old EXCEPT !.pc = pc, !.copy = copy]]
      BY <3>1
    <3>3. PICK u : u = [old EXCEPT !.pc = pc, !.copy = copy]
      OBVIOUS
    <3>4. thread' = [thread EXCEPT ![t] = u]
      BY <3>2, <3>3
    <3> HIDE DEF old
    <3> QED BY <3>3, <3>4
  <2> QED BY <2>1, <2>2, <2>3, <2>5
<1> HIDE DEF old
<1> DEFINE Fine ==
             /\ r = [pc |-> r.pc, request |-> r.request, call |-> r.call, left |-> r.left,
                     iter |-> r.iter, retry |-> r.retry, copy |-> r.copy]
             /\ r.pc \in {"idle", "compress", "csave", "crename", "rebuilt", "rename", "summarize"}
             /\ r.request \in 0..MaxLog /\ r.call \in 0..MaxLog /\ r.left \in 0..MaxCalls
             /\ r.iter \in 0..MaxIterations /\ r.retry \in 0..MaxLLMRetries
<1>4. Fine
  <2>1. CASE r = Idle
    <3>1. 0 \in 0..MaxLog /\ 0 \in 0..MaxCalls /\ 0 \in 0..MaxIterations /\ 0 \in 0..MaxLLMRetries
      BY <1>1
    <3> QED BY <2>1, <3>1 DEF Idle
  <2>2. ASSUME NEW pc \in {"compress", "csave", "crename", "rebuilt", "rename", "summarize"}, NEW copy,
               r = [old EXCEPT !.pc = pc, !.copy = copy]
        PROVE  Fine
    BY <1>2, <2>2
  <2>3. ASSUME NEW pc \in {"compress", "rebuilt"}, NEW copy, old.retry < MaxLLMRetries,
               r = [old EXCEPT !.retry = old.retry + 1, !.pc = pc, !.copy = copy]
        PROVE  Fine
    <3>1. old.retry + 1 \in 0..MaxLLMRetries
      BY <1>1, <1>2, <2>3
    <3>2. PICK n : n = old.retry + 1
      OBVIOUS
    <3>3. r = [old EXCEPT !.retry = n, !.pc = pc, !.copy = copy] /\ n \in 0..MaxLLMRetries
      BY <2>3, <3>1, <3>2
    <3>4. r = [pc |-> pc, request |-> old.request, call |-> old.call, left |-> old.left,
               iter |-> old.iter, retry |-> n, copy |-> copy]
      BY <1>2, <3>3
    <3> QED BY <1>2, <3>3, <3>4
  <2> QED BY <1>3, <2>1, <2>2, <2>3
<1>5. log' = log /\ crashes' = crashes /\ mixed' = mixed /\ torn' = torn
  BY DEF FailTurn, MaybeSummarize, CompressRead, CompressWrite, SaveSnapshot, SaveRename, flags
<1>6. excused' \subseteq Id
  <2>1. CASE excused' = excused
    BY <2>1, <1>1 DEF Scalars
  <2>2. CASE CompressWrite(t)
    <3>1. thread[t].copy.hist \in Seq(Id)
      BY DEF TypeOK, Session
    <3> QED BY <2>2, <3>1, HistIds, <1>1 DEF CompressWrite, Scalars
  <2> QED BY <2>1, <2>2 DEF FailTurn, MaybeSummarize, CompressRead, SaveSnapshot, SaveRename, flags
<1>7. /\ sum' = [pc |-> sum'.pc, late |-> sum'.late, copy |-> sum'.copy]
      /\ sum'.pc \in {"idle", "read", "text", "truncate", "save", "rename"} /\ sum'.late \in BOOLEAN
  <2>1. CASE sum' = sum
    BY <2>1, <1>1 DEF Scalars
  <2>2. CASE sum' = [NoSum EXCEPT !.pc = "read"]
    BY <2>2 DEF NoSum
  <2> QED BY <2>1, <2>2 DEF FailTurn, MaybeSummarize, CompressRead, CompressWrite, SaveSnapshot, SaveRename
<1> QED BY <1>1, <1>3, <1>4, <1>5, <1>6, <1>7, ThreadScalars DEF Scalars

\* The steps of the summariser.
LEMMA SummariserScalars ==
  ASSUME TypeOK, CallsLeft, Summarise
  PROVE  Scalars' /\ CallsLeft'
<1>1. /\ Scalars /\ sum \in SumState /\ excused \subseteq Id
      /\ sum.copy.hist \in Seq(Id) /\ mem.hist \in Seq(Id) /\ mem.sum \subseteq Id
  BY TypesGive DEF TypeOK, SumState, Session
<1>2. UNCHANGED <<log, thread, crashes, mixed, torn>>
  BY DEF Summarise, SumRead, SetSummary, Truncate, SumSnapshot, SumRename, flags
<1>3. excused' \subseteq Id
  <2>1. CASE excused' = excused
    BY <1>1, <2>1
  <2>2. CASE SetSummary
    <3>1. excused' = excused \/ \E c : excused' = excused \cup ((mem.sum \cup Valid(sum.copy.hist)) \ c)
      BY <2>2 DEF SetSummary
    <3> QED BY <1>1, <3>1, HistIds
  <2>3. CASE Truncate
    BY <1>1, <2>3, HistIds DEF Truncate
  <2> QED BY <2>1, <2>2, <2>3 DEF Summarise, SumRead, SumSnapshot, SumRename, flags
<1>4. \/ sum' = NoSum
      \/ \E pc \in {"text", "truncate", "rename"} : \E copy : sum' = [sum EXCEPT !.pc = pc, !.copy = copy]
      \/ sum' = [sum EXCEPT !.pc = "truncate"]
      \/ sum' = [NoSum EXCEPT !.pc = "save"]
  BY DEF Summarise, SumRead, SetSummary, Truncate, SumSnapshot, SumRename
<1>5. /\ sum' = [pc |-> sum'.pc, late |-> sum'.late, copy |-> sum'.copy]
      /\ sum'.pc \in {"idle", "read", "text", "truncate", "save", "rename"} /\ sum'.late \in BOOLEAN
  <2>1. CASE sum' = NoSum
    BY <2>1 DEF NoSum
  <2>2. ASSUME NEW pc \in {"text", "truncate", "rename"}, NEW copy, sum' = [sum EXCEPT !.pc = pc, !.copy = copy]
        PROVE  /\ sum' = [pc |-> sum'.pc, late |-> sum'.late, copy |-> sum'.copy]
               /\ sum'.pc \in {"idle", "read", "text", "truncate", "save", "rename"} /\ sum'.late \in BOOLEAN
    BY <1>1, <2>2 DEF SumState
  <2>3. CASE sum' = [sum EXCEPT !.pc = "truncate"]
    BY <1>1, <2>3 DEF SumState
  <2>4. CASE sum' = [NoSum EXCEPT !.pc = "save"]
    BY <2>4 DEF NoSum
  <2> QED BY <1>4, <2>1, <2>2, <2>3, <2>4
<1> QED BY <1>1, <1>2, <1>3, <1>5 DEF Scalars, CallsLeft

\* A crash and a restart.
LEMMA CrashScalars ==
  ASSUME TypeOK, CallsLeft, Crash
  PROVE  Scalars' /\ CallsLeft'
<1>1. Scalars /\ log' = log /\ mixed' = mixed /\ sum' = NoSum /\ thread' = [t \in Thread |-> Idle]
  BY TypesGive DEF Crash
<1>2. /\ MaxLog \in Nat /\ MaxCalls \in Nat /\ MaxIterations \in Nat /\ MaxLLMRetries \in Nat /\ MaxCrash \in Nat
      /\ Len(log) \in Nat /\ Len(log) <= MaxLog
  BY <1>1, SessionAssumption, LenProperties DEF Scalars
<1>3. crashes' \in 0..MaxCrash
  BY <1>1, <1>2 DEF Scalars, Crash
<1>4. excused' \subseteq Id
  <2>1. 1..Len(log) \subseteq Id
    BY <1>2 DEF Id
  <2> QED BY <1>1, <2>1 DEF Scalars, Crash
<1>5. torn' \in BOOLEAN
  <2>1. torn' = (torn \/ Unanswered(disk.hist))
    BY DEF Crash
  <2> QED BY <2>1
<1>6. \A t \in Thread : thread'[t] = Idle
  BY <1>1
<1>7. CallsLeft'
  BY <1>6, IdleScalars DEF CallsLeft
<1>8. thread' = [t \in Thread |-> thread'[t]]
  BY <1>1
<1> QED BY <1>1, <1>2, <1>3, <1>4, <1>5, <1>6, <1>7, <1>8, IdleScalars DEF Scalars

\* Each step keeps the types; sessions get theirs from IInv and SumsKnown.
LEMMA ScalarsStep == Scalars /\ CallsLeft /\ IInv /\ SumsKnown /\ [Next]_vars => Scalars' /\ CallsLeft'
<1> SUFFICES ASSUME Scalars, CallsLeft, IInv, SumsKnown, [Next]_vars PROVE Scalars' /\ CallsLeft'
  OBVIOUS
<1>0. TypeOK
  BY TypesFrom
<1>1. CASE UNCHANGED vars
  BY <1>1 DEF vars, Scalars, CallsLeft
<1>2. CASE Summarise \/ Crash
  BY <1>0, <1>2, SummariserScalars, CrashScalars
<1>3. ASSUME NEW t \in Thread, Step(t) PROVE Scalars' /\ CallsLeft'
  <2>1. \/ Begin(t) \/ ToolResult(t) \/ Answer(t) \/ (\E n \in 1..MaxCalls : CallTools(t, n))
        \/ FailTurn(t) \/ MaybeSummarize(t) \/ CompressRead(t) \/ CompressWrite(t)
        \/ SaveSnapshot(t, "csave", "crename") \/ SaveRename(t, "crename", "rebuilt")
        \/ SaveSnapshot(t, "save", "rename") \/ SaveRename(t, "rename", "summarize")
    BY <1>3 DEF Step
  <2> QED BY <1>0, <2>1, AppendScalars, TurnScalars
<1> QED BY <1>1, <1>2, <1>3 DEF Next

\* Every variable has its type, and no counter of a turn leaves its range: a result only comes
\* for a call that is left, and neither iterations nor retries pass their limits.
THEOREM TypeCorrect == Spec => []TypeOK
<1> DEFINE J == Scalars /\ CallsLeft /\ SumsKnown /\ IInv
<1>1. Init => J
  BY InitTypes, InitIInv, TypesGive
<1>2. J /\ [Next]_vars => J'
  BY ScalarsStep, NextIInv, SumsStep
<1>3. J => TypeOK
  BY TypesFrom
<1> QED BY <1>1, <1>2, <1>3, PTL DEF Spec

----------------------------------------------------------------------------
(* Nothing is forgotten                                                    *)

Known(s) == ToSet(s.hist) \cup s.sum

\* Of the messages of the log l that are no tool results: all are in K or excused by x, and
\* all that come before one in K are.
AllBy(K, l, x) == \A i \in 1..Len(l) : l[i].role # "tool" => i \in K \cup x
CoveredBy(K, l, x) ==
    \A i \in 1..Len(l) : (i \notin K /\ l[i].role # "tool" /\ \E j \in K : i < j) => i \in x

\* As long as turns have not overlapped: at most one goroutine has a turn; the session lacks
\* nothing at all that is not excused; what is saved, or about to be, lacks nothing that is
\* older than its last message.
OneTurn == \A s, t \in Thread : Active(s) /\ Active(t) => s = t
CopiesCovered ==
    /\ CoveredBy(Known(disk), log, excused)
    /\ \A t \in Thread : thread[t].pc \in {"crename", "rename"} => CoveredBy(Known(thread[t].copy), log, excused)
    /\ sum.pc = "rename" => CoveredBy(Known(sum.copy), log, excused)

\* A compression will lose nothing that its turn did not excuse: the summary may grow
\* while it runs, but the history has got nothing that its copy lacks.
Compressing(t) == thread[t].pc = "compress"
Compression ==
    \A t \in Thread : Compressing(t) =>
        /\ AllBy(ToSet(thread[t].copy.hist) \cup mem.sum, log, excused)
        /\ sum.pc = "read" => ToSet(thread[t].copy.hist) \subseteq ToSet(mem.hist)

\* A truncation that is not late takes only what the summary has: the history is part of
\* the one that was summed up, and will be after a compression.
Summary ==
    /\ sum.pc = "truncate" => Valid(sum.copy.hist) \subseteq mem.sum \cup excused
    /\ sum.pc \in {"text", "truncate"} /\ ~sum.late =>
          /\ ToSet(mem.hist) \subseteq ToSet(sum.copy.hist)
          /\ \A t \in Thread : Compressing(t) => ToSet(thread[t].copy.hist) \subseteq ToSet(sum.copy.hist)

Complete == OneTurn /\ AllBy(Known(mem), log, excused) /\ CopiesCovered /\ Compression /\ Summary
NothingLeftOut == ~mixed => Complete

LEMMA AllMore ==
  ASSUME NEW K, NEW L, NEW l, NEW x, NEW y, AllBy(K, l, x), K \cup x \subseteq L \cup y
  PROVE  AllBy(L, l, y)
BY DEF AllBy

LEMMA CoveredMore ==
  ASSUME NEW K, NEW l, NEW x, NEW y, CoveredBy(K, l, x), x \subseteq y
  PROVE  CoveredBy(K, l, y)
BY DEF CoveredBy

LEMMA AllCovered ==
  ASSUME NEW K, NEW l, NEW x, AllBy(K, l, x)
  PROVE  CoveredBy(K, l, x)
BY DEF AllBy, CoveredBy

\* A new message comes after everything that is known.
LEMMA CoveredGrows ==
  ASSUME NEW S, NEW l \in Seq(S), NEW e, NEW K, K \subseteq 1..Len(l), NEW x, CoveredBy(K, l, x)
  PROVE  CoveredBy(K, Append(l, e), x)
<1>1. Len(l) \in Nat /\ l \in Seq(S \cup {e}) /\ e \in S \cup {e}
  BY LenProperties
<1>2. Len(Append(l, e)) = Len(l) + 1 /\ \A i \in 1..Len(l) : Append(l, e)[i] = l[i]
  BY <1>1, AppendProperties
<1>3. ASSUME NEW i \in 1..Len(l)+1, NEW j \in K, i < j PROVE i \in 1..Len(l)
  BY <1>1, <1>3
<1> QED BY <1>2, <1>3 DEF CoveredBy

LEMMA AllGrows ==
  ASSUME NEW S, NEW l \in Seq(S), NEW e, NEW K, NEW x, AllBy(K, l, x)
  PROVE  AllBy(K \cup {Len(l) + 1}, Append(l, e), x)
<1>1. Len(l) \in Nat /\ l \in Seq(S \cup {e}) /\ e \in S \cup {e}
  BY LenProperties
<1>2. Len(Append(l, e)) = Len(l) + 1 /\ \A i \in 1..Len(l) : Append(l, e)[i] = l[i]
  BY <1>1, AppendProperties
<1>3. \A i \in 1..Len(l)+1 : i \in 1..Len(l) \/ i = Len(l) + 1
  BY <1>1
<1> QED BY <1>2, <1>3 DEF AllBy

\* The sessions, copies and goroutines, field by field.
LEMMA Records ==
  ASSUME IInv
  PROVE  /\ thread = [t \in Thread |-> thread[t]]
         /\ \A t \in Thread : thread[t] = [pc |-> thread[t].pc, request |-> thread[t].request,
               call |-> thread[t].call, left |-> thread[t].left, iter |-> thread[t].iter,
               retry |-> thread[t].retry, copy |-> thread[t].copy]
         /\ sum = [pc |-> sum.pc, late |-> sum.late, copy |-> sum.copy]
         /\ mem = [hist |-> mem.hist, sum |-> mem.sum]
BY DEF IInv, GoodThread, GoodSum, GoodSession

\* Everything a session or a copy knows is in the log.
LEMMA KnownInLog ==
  ASSUME IInv, SumsKnown
  PROVE  /\ Known(mem) \subseteq 1..Len(log) /\ Known(disk) \subseteq 1..Len(log)
         /\ Known(sum.copy) \subseteq 1..Len(log)
         /\ \A t \in Thread : Known(thread[t].copy) \subseteq 1..Len(log)
<1>1. Len(log) \in Nat
  BY DEF IInv
<1>2. ASSUME NEW s, GoodSession(s, Len(log)), s.sum \subseteq 1..Len(log) PROVE Known(s) \subseteq 1..Len(log)
  <2>1. ToSet(s.hist) \subseteq 1..Len(log)
    BY <1>1, <1>2, InSet DEF GoodSession
  <2> QED BY <1>2, <2>1 DEF Known
<1> QED BY <1>2 DEF IInv, SumsKnown, GoodThread, GoodSum

\* A turn appends a message; no other turn is under way, and a text of a summary gets late.
LEMMA AppendComplete ==
  ASSUME IInv, SumsKnown, Complete, ~mixed', NEW t \in Thread,
         Begin(t) \/ ToolResult(t) \/ Answer(t) \/ \E n \in 1..MaxCalls : CallTools(t, n)
  PROVE  Complete'
<1>1. PICK S : log \in Seq(S)
  BY DEF IInv
<1>2. PICK role, call, n : AddFullMessage(role, call, n)
  BY Zenon DEF Begin, ToolResult, Answer, CallTools
<1>3. PICK e : log' = Append(log, e)
  BY <1>2 DEF AddFullMessage
<1>4. /\ mem'.hist = Append(mem.hist, Len(log) + 1) /\ mem'.sum = mem.sum
      /\ sum'.pc = sum.pc /\ sum'.copy = sum.copy
      /\ sum.pc \in {"text", "truncate"} => sum'.late
      /\ disk' = disk /\ excused' = excused
  BY <1>2, Records DEF AddFullMessage, Begin, ToolResult, Answer, CallTools, flags
<1>5. /\ thread'[t].pc \in {"llm", "tools", "save"}
      /\ \A s \in Thread \ {t} : thread'[s] = thread[s]
  <2>1. CASE Begin(t)
    BY <2>1, Records DEF Begin
  <2>2. CASE ToolResult(t)
    BY <2>2, Records DEF ToolResult
  <2>3. CASE Answer(t)
    <3>1. [Idle EXCEPT !.pc = "save"].pc = "save"
      BY DEF Idle
    <3> QED BY <2>3, <3>1, Records DEF Answer
  <2>4. CASE \E k \in 1..MaxCalls : CallTools(t, k)
    <3>1. PICK k : thread' = [thread EXCEPT ![t].pc = "tools", ![t].call = Len(log) + 1, ![t].left = k,
                                           ![t].iter = @ + 1, ![t].retry = 0]
      BY <2>4 DEF CallTools
    <3> QED BY <3>1, Records
  <2> QED BY <2>1, <2>2, <2>3, <2>4
<1>6. \A s \in Thread \ {t} : thread[s].pc = "idle"
  <2>1. CASE Begin(t)
    <3>1. mixed' = (mixed \/ \E s \in Thread : Active(s))
      BY <2>1 DEF Begin
    <3> QED BY <3>1 DEF Active
  <2>2. CASE ~Begin(t)
    <3>1. Active(t)
      BY <2>2 DEF ToolResult, Answer, CallTools, AtModel, Active
    <3> QED BY <3>1 DEF Complete, OneTurn, Active
  <2> QED BY <2>1, <2>2
<1>7. \A s \in Thread : thread'[s].pc \in {"idle", "llm", "tools", "save"}
  BY <1>5, <1>6
<1>8. OneTurn'
  <2>1. \A s \in Thread : thread'[s].pc # "idle" => s = t
    BY <1>5, <1>6
  <2> QED BY <2>1 DEF OneTurn, Active
<1>9. ToSet(mem'.hist) = ToSet(mem.hist) \cup {Len(log) + 1}
  <2>1. GoodHist(mem.hist, Len(log)) /\ Len(log) \in Nat
    BY DEF IInv, GoodSession
  <2>2. mem.hist \in Seq(1..Len(log))
    BY <2>1 DEF GoodHist
  <2>3. mem.hist \in Seq(1..Len(log)+1) /\ Len(log) + 1 \in 1..Len(log)+1 /\ Len(mem.hist) \in Nat
    BY <2>1, <2>2, LenProperties
  <2> DEFINE h == Append(mem.hist, Len(log) + 1)
  <2>4. /\ h \in Seq(1..Len(log)+1) /\ Len(h) = Len(mem.hist) + 1
        /\ \A i \in 1..Len(mem.hist) : h[i] = mem.hist[i]
        /\ h[Len(mem.hist) + 1] = Len(log) + 1
    BY <2>3, AppendProperties
  <2> HIDE DEF h
  <2>5. DOMAIN h = 1..Len(mem.hist)+1 /\ DOMAIN mem.hist = 1..Len(mem.hist)
    BY <2>2, <2>4, LenProperties
  <2>6. \A i \in 1..Len(mem.hist)+1 : i \in 1..Len(mem.hist) \/ i = Len(mem.hist) + 1
    BY <2>3
  <2>7. 1..Len(mem.hist) \subseteq 1..Len(mem.hist)+1 /\ Len(mem.hist) + 1 \in 1..Len(mem.hist)+1
    BY <2>3
  <2>8. ToSet(h) = ToSet(mem.hist) \cup {Len(log) + 1}
    BY <2>4, <2>5, <2>6, <2>7 DEF ToSet
  <2> QED BY <2>8, <1>4 DEF h
<1>10. AllBy(Known(mem'), log', excused')
  <2>1. AllBy(Known(mem) \cup {Len(log) + 1}, log', excused)
    BY <1>1, <1>3, AllGrows DEF Complete
  <2> QED BY <2>1, <1>4, <1>9 DEF Known
<1>11. CopiesCovered'
  <2>1. CoveredBy(Known(disk'), log', excused')
    BY <1>1, <1>3, <1>4, CoveredGrows, KnownInLog DEF Complete, CopiesCovered
  <2>2. sum'.pc = "rename" => CoveredBy(Known(sum'.copy), log', excused')
    BY <1>1, <1>3, <1>4, CoveredGrows, KnownInLog DEF Complete, CopiesCovered
  <2> QED BY <1>7, <2>1, <2>2 DEF CopiesCovered
<1>12. Compression'
  BY <1>7 DEF Compression, Compressing
<1>13. Summary'
  <2>1. Valid(sum.copy.hist)' \subseteq Valid(sum.copy.hist)
    <3>1. GoodHist(sum.copy.hist, Len(log)) /\ Len(log) \in Nat
      BY DEF IInv, GoodSum, GoodSession
    <3>2. /\ Len(sum.copy.hist) \in Nat /\ \A j \in 1..Len(sum.copy.hist) : sum.copy.hist[j] \in 1..Len(log)
      BY <3>1, InSet
    <3>3. \A j \in 1..Len(sum.copy.hist)-Keep : j \in 1..Len(sum.copy.hist)
      BY <3>2, SessionAssumption
    <3>4. \A i \in 1..Len(log) : log'[i] = log[i]
      <4>1. log \in Seq(S \cup {e}) /\ e \in S \cup {e}
        BY <1>1
      <4> QED BY <1>3, <4>1, AppendProperties
    <3>5. \A j \in 1..Len(sum.copy.hist)-Keep : log'[sum.copy.hist[j]] = log[sum.copy.hist[j]]
      BY <3>2, <3>3, <3>4
    <3>6. sum'.copy = sum.copy
      BY <1>4
    <3> QED BY ONLY <3>5, <3>6 DEF Valid, RoleOf
  <2> QED BY <1>4, <2>1 DEF Complete, Summary
<1> QED BY <1>8, <1>10, <1>11, <1>12, <1>13 DEF Complete

\* The steps of a turn that append nothing.
LEMMA TurnComplete ==
  ASSUME IInv, Complete, NEW t \in Thread,
         \/ FailTurn(t) \/ MaybeSummarize(t) \/ CompressRead(t) \/ CompressWrite(t)
         \/ SaveSnapshot(t, "csave", "crename") \/ SaveRename(t, "crename", "rebuilt")
         \/ SaveSnapshot(t, "save", "rename") \/ SaveRename(t, "rename", "summarize")
  PROVE  Complete'
<1>1. \A s \in Thread \ {t} : thread'[s] = thread[s] /\ thread[s].pc = "idle"
  <2>1. Active(t)
    BY DEF FailTurn, MaybeSummarize, CompressRead, CompressWrite, SaveSnapshot, SaveRename, AtModel, Active
  <2>2. \A s \in Thread \ {t} : thread'[s] = thread[s]
    BY Records DEF FailTurn, MaybeSummarize, CompressRead, CompressWrite, SaveSnapshot, SaveRename
  <2> QED BY <2>1, <2>2 DEF Complete, OneTurn, Active
<1>2. OneTurn'
  <2>1. \A s \in Thread : thread'[s].pc # "idle" => s = t
    BY <1>1
  <2> QED BY <2>1 DEF OneTurn, Active
<1>3. log' = log /\ \A h : Valid(h)' = Valid(h)
  <2>1. log' = log
    BY DEF FailTurn, MaybeSummarize, CompressRead, CompressWrite, SaveSnapshot, SaveRename
  <2> QED BY <2>1 DEF Valid, RoleOf
<1>4. CASE FailTurn(t)
  <2>1. thread'[t].pc = "idle" /\ UNCHANGED <<mem, disk, sum, excused>>
    BY <1>4, Records, IdleScalars DEF FailTurn, flags
  <2>2. \A s \in Thread : thread'[s].pc = "idle"
    BY <1>1, <2>1
  <2> QED BY <1>2, <1>3, <2>1, <2>2 DEF Complete, CopiesCovered, Compression, Compressing, Summary
<1>5. CASE MaybeSummarize(t)
  <2>1. thread'[t].pc = "idle" /\ UNCHANGED <<mem, disk, excused>>
    BY <1>5, Records, IdleScalars DEF MaybeSummarize, flags
  <2>2. \A s \in Thread : thread'[s].pc = "idle"
    BY <1>1, <2>1
  <2>3. sum' = sum \/ sum'.pc = "read"
    BY <1>5 DEF MaybeSummarize, NoSum
  <2> QED BY <1>2, <1>3, <2>1, <2>2, <2>3 DEF Complete, CopiesCovered, Compression, Compressing, Summary
<1>6. CASE CompressRead(t)
  <2>1. /\ thread'[t].pc = "rebuilt" \/ (thread'[t].pc = "compress" /\ thread'[t].copy = mem)
        /\ UNCHANGED <<mem, disk, sum, excused>>
    BY <1>6, Records DEF CompressRead, flags
  <2>2. \A s \in Thread : thread'[s].pc \in {"idle", "rebuilt"} \/ (s = t /\ thread'[t].copy = mem /\ thread'[t].pc = "compress")
    BY <1>1, <2>1
  <2>3. CopiesCovered'
    BY <1>3, <2>1, <2>2 DEF Complete, CopiesCovered
  <2>4. Compression'
    BY <1>3, <2>1, <2>2 DEF Complete, Compression, Compressing, Known
  <2>5. Summary'
    BY <1>3, <2>1, <2>2 DEF Complete, Summary, Compressing
  <2> QED BY <1>2, <1>3, <2>1, <2>3, <2>4, <2>5 DEF Complete
<1>7. CASE CompressWrite(t)
  <2> DEFINE h == thread[t].copy.hist
             c == Compressed(h)
  <2>1. /\ thread[t].pc = "compress" /\ thread'[t].pc = "csave"
        /\ mem'.hist = c /\ mem'.sum = mem.sum
        /\ excused' = excused \cup (ToSet(h) \ ToSet(c))
        /\ UNCHANGED <<disk, sum>>
    BY <1>7, Records DEF CompressWrite
  <2>2. ToSet(c) \subseteq ToSet(h)
    <3>1. GoodHist(h, Len(log)) /\ Len(h) >= 2 /\ Len(log) \in Nat
      BY <2>1 DEF IInv, GoodThread, GoodSession
    <3> QED BY <3>1, CompressedGood
  <2> HIDE DEF h, c
  <2>3. AllBy(Known(mem'), log', excused')
    <3>1. AllBy(ToSet(h) \cup mem.sum, log, excused)
      BY <2>1 DEF Complete, Compression, Compressing, h
    <3>2. (ToSet(h) \cup mem.sum) \cup excused \subseteq Known(mem') \cup excused'
      BY <2>1 DEF Known
    <3> QED BY <1>3, <3>1, <3>2, AllMore
  <2>4. excused \subseteq excused' /\ \A s \in Thread : thread'[s].pc \in {"idle", "csave"}
    BY <1>1, <2>1
  <2>5. CopiesCovered'
    BY <1>3, <2>1, <2>4, CoveredMore DEF Complete, CopiesCovered
  <2>6. Compression'
    BY <2>4 DEF Compression, Compressing
  <2>7. Summary'
    <3>1. sum.pc \in {"text", "truncate"} /\ ~sum.late => ToSet(h) \subseteq ToSet(sum.copy.hist)
      BY <2>1 DEF Complete, Summary, Compressing, h
    <3>2. sum.pc = "truncate" => Valid(sum.copy.hist) \subseteq mem.sum \cup excused
      BY DEF Complete, Summary
    <3> QED BY <1>3, <2>1, <2>2, <2>4, <3>1, <3>2 DEF Summary, Compressing
  <2> QED BY <1>2, <2>3, <2>5, <2>6, <2>7 DEF Complete
<1>8. ASSUME NEW from, NEW to \in {"crename", "rename"}, SaveSnapshot(t, from, to) PROVE Complete'
  <2>1. /\ thread'[t].pc \in {"crename", "rename"} /\ thread'[t].copy = mem
        /\ UNCHANGED <<mem, disk, sum, excused>>
    BY <1>8, Records DEF SaveSnapshot, flags
  <2>2. \A s \in Thread : thread'[s].pc = "idle" \/ (s = t /\ thread'[s].copy = mem /\ thread'[s].pc # "compress")
    BY <1>1, <2>1
  <2>3. CoveredBy(Known(mem), log, excused)
    BY AllCovered DEF Complete
  <2>4. CopiesCovered'
    BY <1>3, <2>1, <2>2, <2>3 DEF Complete, CopiesCovered
  <2>5. \A s \in Thread : thread'[s].pc # "compress"
    BY <2>2
  <2> QED BY <1>2, <1>3, <2>1, <2>4, <2>5 DEF Complete, Compression, Compressing, Summary
<1>9. ASSUME NEW from \in {"crename", "rename"}, NEW to \in {"rebuilt", "summarize"}, SaveRename(t, from, to)
      PROVE  Complete'
  <2>1. /\ thread[t].pc \in {"crename", "rename"} /\ thread'[t].pc \in {"rebuilt", "summarize"}
        /\ disk' \in {disk, thread[t].copy} /\ UNCHANGED <<mem, sum, excused>>
    BY <1>9, Records DEF SaveRename, flags
  <2>2. \A s \in Thread : thread'[s].pc \in {"idle", "rebuilt", "summarize"}
    BY <1>1, <2>1
  <2>3. CopiesCovered'
    BY <1>3, <2>1, <2>2 DEF Complete, CopiesCovered
  <2> QED BY <1>2, <1>3, <2>1, <2>2, <2>3 DEF Complete, Compression, Compressing, Summary
<1> QED BY <1>4, <1>5, <1>6, <1>7, <1>8, <1>9

\* The steps of the summariser.
LEMMA SummariserComplete ==
  ASSUME IInv, Complete, Summarise
  PROVE  Complete'
<1>1. log' = log /\ thread' = thread /\ \A h : Valid(h)' = Valid(h)
  <2>1. log' = log /\ thread' = thread
    BY DEF Summarise, SumRead, SetSummary, Truncate, SumSnapshot, SumRename
  <2> QED BY <2>1 DEF Valid, RoleOf
<1>2. OneTurn'
  BY <1>1 DEF Complete, OneTurn, Active
<1>3. CASE SumRead
  <2>1. /\ sum.pc = "read" /\ UNCHANGED <<mem, disk, excused>>
        /\ sum'.pc = "idle" \/ (sum'.pc = "text" /\ sum'.copy = mem)
    BY <1>3, Records, IdleScalars DEF SumRead, flags
  <2> QED BY <1>1, <1>2, <2>1 DEF Complete, CopiesCovered, Compression, Compressing, Summary
<1>4. CASE SetSummary
  <2>1. PICK c : \/ /\ mem'.hist = mem.hist /\ mem'.sum = c
                    /\ excused' = excused \cup ((mem.sum \cup Valid(sum.copy.hist)) \ c)
                    /\ sum'.pc = "truncate" /\ sum'.late = sum.late /\ sum'.copy = sum.copy
                 \/ sum'.pc = "idle" /\ UNCHANGED <<mem, excused>>
    <3>1. PICK text : IF text.any
                      THEN /\ mem' = [mem EXCEPT !.sum = text.of]
                           /\ excused' = excused \cup ((mem.sum \cup Valid(sum.copy.hist)) \ text.of)
                           /\ sum' = [sum EXCEPT !.pc = "truncate"]
                      ELSE sum' = NoSum /\ UNCHANGED <<mem, excused>>
      BY <1>4 DEF SetSummary
    <3> QED BY <3>1, Records, IdleScalars
  <2>2. sum.pc = "text" /\ disk' = disk
    BY <1>4 DEF SetSummary
  <2>3. CASE sum'.pc = "idle" /\ UNCHANGED <<mem, excused>>
    BY <1>1, <1>2, <2>2, <2>3 DEF Complete, CopiesCovered, Compression, Compressing, Summary
  <2>4. CASE /\ mem'.hist = mem.hist /\ mem'.sum = c
             /\ excused' = excused \cup ((mem.sum \cup Valid(sum.copy.hist)) \ c)
             /\ sum'.pc = "truncate" /\ sum'.late = sum.late /\ sum'.copy = sum.copy
    <3>1. /\ excused \subseteq excused' /\ mem.sum \subseteq mem'.sum \cup excused'
          /\ Valid(sum.copy.hist) \subseteq mem'.sum \cup excused'
      BY <2>4
    <3>2. AllBy(Known(mem'), log', excused')
      <4>1. Known(mem) \cup excused \subseteq Known(mem') \cup excused'
        BY <2>4, <3>1 DEF Known
      <4> QED BY <1>1, <4>1, AllMore DEF Complete
    <3>3. CopiesCovered'
      BY <1>1, <2>2, <2>4, <3>1, CoveredMore DEF Complete, CopiesCovered
    <3>4. Compression'
      <4> SUFFICES ASSUME NEW t \in Thread, Compressing(t)
                   PROVE  AllBy(ToSet(thread[t].copy.hist) \cup mem'.sum, log, excused')
        BY <1>1, <2>4 DEF Compression, Compressing
      <4>1. AllBy(ToSet(thread[t].copy.hist) \cup mem.sum, log, excused)
        BY DEF Complete, Compression
      <4>2. (ToSet(thread[t].copy.hist) \cup mem.sum) \cup excused
               \subseteq (ToSet(thread[t].copy.hist) \cup mem'.sum) \cup excused'
        BY <3>1
      <4> QED BY <4>1, <4>2, AllMore
    <3>5. Summary'
      BY <1>1, <2>2, <2>4, <3>1 DEF Complete, Summary, Compressing
    <3> QED BY <1>2, <3>2, <3>3, <3>4, <3>5 DEF Complete
  <2> QED BY <2>1, <2>3, <2>4
<1>5. CASE Truncate
  <2> DEFINE h == mem.hist
             k == Kept(h)
  <2>1. /\ sum.pc = "truncate" /\ sum'.pc = "save" /\ disk' = disk
        /\ mem'.hist = k /\ mem'.sum = mem.sum /\ excused \subseteq excused'
        /\ sum.late => ToSet(h) \ ToSet(k) \subseteq excused'
    BY <1>5, Records DEF Truncate, NoSum
  <2>2. GoodHist(h, Len(log)) /\ GoodHist(sum.copy.hist, Len(log)) /\ Len(log) \in Nat
    BY DEF IInv, GoodSession, GoodSum
  <2>3. ASSUME NEW i \in ToSet(h) \ ToSet(k), RoleOf(i) # "tool" PROVE i \in mem.sum \cup excused'
    <3>1. CASE sum.late
      BY <2>1, <3>1
    <3>2. CASE ~sum.late
      <4>1. ToSet(h) \subseteq ToSet(sum.copy.hist)
        BY <2>1, <3>2 DEF Complete, Summary
      <4>2. PICK p \in 1..Len(h)-Keep : h[p] = i
        BY <2>2, KeptDrops
      <4>3. PICK q \in 1..Len(sum.copy.hist)-Keep : sum.copy.hist[q] = i
        <5>1. PICK a, b, max : a = h /\ b = sum.copy.hist /\ max = Len(log)
          OBVIOUS
        <5>2. /\ GoodHist(a, max) /\ GoodHist(b, max) /\ ToSet(a) \subseteq ToSet(b)
              /\ p \in 1..Len(a)-Keep /\ a[p] = i /\ max \in Nat
          BY <2>2, <4>1, <4>2, <5>1
        <5>3. EarlyIn(a, b)
          BY ONLY <5>2, EarlyInBoth
        <5> QED BY <5>1, <5>2, <5>3 DEF EarlyIn
      <4>4. i \in Valid(sum.copy.hist)
        BY <2>3, <4>3 DEF Valid
      <4> QED BY <2>1, <4>4 DEF Complete, Summary
    <3> QED BY <3>1, <3>2
  <2> HIDE DEF h, k
  <2>4. AllBy(Known(mem'), log', excused')
    <3> SUFFICES ASSUME NEW i \in 1..Len(log), log[i].role # "tool" PROVE i \in Known(mem') \cup excused'
      BY <1>1 DEF AllBy
    <3>1. i \in ToSet(h) \cup mem.sum \cup excused
      BY DEF Complete, AllBy, Known, h
    <3>2. i \in ToSet(h) \ ToSet(k) => i \in mem.sum \cup excused'
      BY <2>3 DEF RoleOf
    <3> QED BY <2>1, <3>1, <3>2 DEF Known
  <2>5. CopiesCovered'
    BY <1>1, <2>1, CoveredMore DEF Complete, CopiesCovered
  <2>6. Compression'
    <3> SUFFICES ASSUME NEW t \in Thread, Compressing(t)
                 PROVE  AllBy(ToSet(thread[t].copy.hist) \cup mem.sum, log, excused')
      BY <1>1, <2>1 DEF Compression, Compressing
    <3>1. AllBy(ToSet(thread[t].copy.hist) \cup mem.sum, log, excused)
      BY DEF Complete, Compression
    <3>2. (ToSet(thread[t].copy.hist) \cup mem.sum) \cup excused
             \subseteq (ToSet(thread[t].copy.hist) \cup mem.sum) \cup excused'
      BY <2>1
    <3> QED BY <3>1, <3>2, AllMore
  <2>7. Summary'
    BY <2>1 DEF Summary
  <2> QED BY <1>2, <2>4, <2>5, <2>6, <2>7 DEF Complete
<1>6. CASE SumSnapshot
  <2>1. sum'.pc = "rename" /\ sum'.copy = mem /\ UNCHANGED <<mem, disk, excused>>
    BY <1>6, Records DEF SumSnapshot, flags
  <2>2. CoveredBy(Known(mem), log, excused)
    BY AllCovered DEF Complete
  <2> QED BY <1>1, <1>2, <2>1, <2>2 DEF Complete, CopiesCovered, Compression, Compressing, Summary
<1>7. CASE SumRename
  <2>1. sum.pc = "rename" /\ disk' \in {disk, sum.copy} /\ sum'.pc = "idle" /\ UNCHANGED <<mem, excused>>
    BY <1>7, IdleScalars DEF SumRename, flags
  <2> QED BY <1>1, <1>2, <2>1 DEF Complete, CopiesCovered, Compression, Compressing, Summary
<1> QED BY <1>3, <1>4, <1>5, <1>6, <1>7 DEF Summarise

\* A crash: what the file does not have is excused.
LEMMA CrashComplete ==
  ASSUME IInv, Complete, Crash
  PROVE  Complete'
<1>1. /\ log' = log /\ mem' = disk /\ disk' = disk /\ sum'.pc = "idle"
      /\ excused' = excused \cup (1..Len(log) \ Known(disk))
      /\ \A t \in Thread : thread'[t].pc = "idle"
  BY IdleScalars DEF Crash, Known
<1>2. AllBy(Known(mem'), log', excused')
  BY <1>1 DEF AllBy
<1>3. CoveredBy(Known(disk'), log', excused')
  BY <1>1, <1>2, AllCovered
<1> QED BY <1>1, <1>2, <1>3 DEF Complete, OneTurn, Active, CopiesCovered, Compression, Compressing, Summary

LEMMA LeftOutStep == IInv /\ SumsKnown /\ NothingLeftOut /\ [Next]_vars => NothingLeftOut'
<1> SUFFICES ASSUME IInv, SumsKnown, NothingLeftOut, [Next]_vars, ~mixed' PROVE Complete'
  BY DEF NothingLeftOut
<1>1. CASE UNCHANGED vars
  <2>1. Complete
    BY <1>1 DEF NothingLeftOut, vars
  <2> QED BY <1>1, <2>1 DEF vars, Complete, OneTurn, Active, CopiesCovered, Compression, Compressing, Summary, Valid, RoleOf
<1>2. CASE Summarise \/ Crash
  <2>1. mixed' = mixed
    BY <1>2 DEF Summarise, SumRead, SetSummary, Truncate, SumSnapshot, SumRename, Crash, flags
  <2> QED BY <1>2, <2>1, SummariserComplete, CrashComplete DEF NothingLeftOut
<1>3. ASSUME NEW t \in Thread, Step(t) PROVE Complete'
  <2>1. \/ Begin(t) \/ ToolResult(t) \/ Answer(t) \/ (\E n \in 1..MaxCalls : CallTools(t, n))
        \/ FailTurn(t) \/ MaybeSummarize(t) \/ CompressRead(t) \/ CompressWrite(t)
        \/ SaveSnapshot(t, "csave", "crename") \/ SaveRename(t, "crename", "rebuilt")
        \/ SaveSnapshot(t, "save", "rename") \/ SaveRename(t, "rename", "summarize")
    BY <1>3 DEF Step
  <2>2. ~mixed
    BY <2>1 DEF Begin, ToolResult, Answer, CallTools, FailTurn, MaybeSummarize, CompressRead, CompressWrite,
                SaveSnapshot, SaveRename, flags
  <2> QED BY <2>1, <2>2, AppendComplete, TurnComplete DEF NothingLeftOut
<1> QED BY <1>1, <1>2, <1>3 DEF Next

\* No message of the user or the model vanishes from the session, in memory or on disk,
\* unless it is excused: whatever compressions, truncations, late summaries, failed saves and
\* crashes come together, for any history lengths and any number of crashes.
THEOREM NothingForgottenHolds == Spec => []NothingForgotten
<1>1. Init => SumsKnown /\ IInv /\ NothingLeftOut
  <2> SUFFICES ASSUME Init PROVE NothingLeftOut
    BY InitTypes, InitIInv
  <2>1. 1..Len(log) = {} /\ sum.pc = "idle" /\ \A t \in Thread : thread[t].pc = "idle"
    BY DEF Init, Idle, NoSum
  <2> QED BY <2>1 DEF NothingLeftOut, Complete, OneTurn, Active, AllBy, CopiesCovered, CoveredBy, Compression,
                      Compressing, Summary
<1>2. (SumsKnown /\ IInv /\ NothingLeftOut) /\ [Next]_vars => (SumsKnown /\ IInv /\ NothingLeftOut)'
  BY SumsStep, NextIInv, LeftOutStep
<1>3. NothingLeftOut => NothingForgotten
  <2> SUFFICES ASSUME NothingLeftOut, ~mixed PROVE Covered(mem) /\ Covered(disk)
    BY DEF NothingForgotten
  <2>1. CoveredBy(Known(mem), log, excused) /\ CoveredBy(Known(disk), log, excused)
    BY AllCovered DEF NothingLeftOut, Complete, CopiesCovered
  <2> QED BY <2>1 DEF Covered, CoveredBy, Known, RoleOf
<1> QED BY <1>1, <1>2, <1>3, PTL DEF Spec

----------------------------------------------------------------------------
(* The prompt is well formed                                               *)

\* The messages kept after message i has been looked at.
Into(s, i) == IF Accepts(s, i) THEN Append(s, i) ELSE s

\* Induction up to a bound.
LEMMA UpTo ==
  ASSUME NEW N \in Nat, NEW Q, 0 \in Q, \A n \in 0..N : n \in Q /\ n < N => n + 1 \in Q
  PROVE  \A n \in 0..N : n \in Q
<1> DEFINE T == {n \in 0..N : n \notin Q}
<1>1. CASE T = {}
  BY <1>1
<1>2. CASE T # {}
  <2>1. PICK x \in T : \A y \in T : x <= y
    <3>1. T \in SUBSET Nat
      OBVIOUS
    <3> QED BY <3>1, <1>2, Least
  <2>2. x # 0 /\ x \in Nat /\ x - 1 \in 0..N /\ x - 1 < N /\ (x - 1) + 1 = x
    BY <2>1
  <2>3. x - 1 \in Q
    BY <2>1, <2>2
  <2> QED BY <2>1, <2>2, <2>3
<1> QED BY <1>1, <1>2

\* The greatest element of a set that has one.
LEMMA MaxIs ==
  ASSUME NEW n \in Nat, NEW T \in SUBSET (1..n+1)
  PROVE  /\ n + 1 \in T => Max(T) = n + 1
         /\ n + 1 \notin T => T \in SUBSET (1..n)
<1>1. ASSUME n + 1 \in T PROVE Max(T) = n + 1
  <2>1. \A y \in T : n + 1 >= y
    OBVIOUS
  <2>2. \A x \in T : (\A y \in T : x >= y) => x = n + 1
    BY <1>1
  <2>3. Max(T) \in T /\ \A y \in T : Max(T) >= y
    BY <1>1, <2>1 DEF Max
  <2> QED BY <2>2, <2>3
<1>2. ASSUME n + 1 \notin T PROVE T \in SUBSET (1..n)
  <2>1. \A x \in T : x \in 1..n+1 /\ x # n + 1
    BY <1>2
  <2>2. \A x \in 1..n+1 : x # n + 1 => x \in 1..n
    OBVIOUS
  <2> QED BY <2>1, <2>2
<1> QED BY <1>1, <1>2

\* The fold, which takes the last position of a set of positions first, computes the kept
\* messages from the front.
LEMMA SanitizeIs ==
  ASSUME NEW S, NEW h \in Seq(S)
  PROVE  \E f : /\ f[0] = <<>>
                /\ \A n \in 1..Len(h) : f[n] = Into(f[n - 1], h[n])
                /\ sanitizeHistoryForProvider(h) = f[Len(h)]
<1> DEFINE Body(g, T) == IF T = {} THEN <<>> ELSE Into(g[T \ {Max(T)}], h[Max(T)])
           Fold(g, n) == g = [T \in SUBSET (1..n) |-> Body(g, T)]
           P == {n \in 0..Len(h) : \E g : Fold(g, n)}
<1>1. Len(h) \in Nat /\ DOMAIN h = 1..Len(h)
  BY LenProperties
<1>2. 0 \in P
  <2> DEFINE z == [T \in SUBSET (1..0) |-> <<>>]
  <2>1. \A T \in SUBSET (1..0) : T = {}
    OBVIOUS
  <2>2. z = [T \in SUBSET (1..0) |-> Body(z, T)]
    BY <2>1
  <2>3. \E g : Fold(g, 0)
    <3> HIDE DEF Body, z
    <3> QED BY <2>2
  <2>4. 0 \in 0..Len(h)
    BY <1>1
  <2> HIDE DEF Fold
  <2> QED BY <2>3, <2>4
<1>3. ASSUME NEW n \in 0..Len(h), n \in P, n < Len(h) PROVE n + 1 \in P
  <2>1. PICK g : Fold(g, n)
    BY <1>3
  <2> DEFINE G == [T \in SUBSET (1..n+1) |-> IF n + 1 \in T THEN Into(g[T \ {n + 1}], h[n + 1]) ELSE g[T]]
  <2>2. n \in Nat /\ n + 1 \in 0..Len(h)
    BY <1>3
  <2>3. ASSUME NEW T \in SUBSET (1..n) PROVE G[T] = g[T] /\ g[T] = Body(g, T)
    <3>1. n + 1 \notin T /\ T \in SUBSET (1..n+1)
      BY <2>2
    <3> QED BY <2>1, <3>1
  <2>4. ASSUME NEW T \in SUBSET (1..n+1) PROVE G[T] = Body(G, T)
    <3>1. CASE n + 1 \in T
      <4>1. Max(T) = n + 1
        BY <2>2, <3>1, MaxIs
      <4>2. T \ {n + 1} \in SUBSET (1..n+1) /\ n + 1 \notin T \ {n + 1}
        OBVIOUS
      <4>3. T \ {n + 1} \in SUBSET (1..n)
        BY <2>2, <4>2, MaxIs
      <4>4. G[T] = Into(g[T \ {n + 1}], h[n + 1])
        BY <3>1
      <4>5. G[T \ {n + 1}] = g[T \ {n + 1}]
        BY <2>3, <4>3
      <4> HIDE DEF G
      <4>6. Body(G, T) = Into(G[T \ {n + 1}], h[n + 1])
        BY <3>1, <4>1
      <4> QED BY <4>4, <4>5, <4>6
    <3>2. CASE n + 1 \notin T
      <4>1. T \in SUBSET (1..n)
        BY <2>2, <3>2, MaxIs
      <4>2. T \ {Max(T)} \in SUBSET (1..n)
        BY <4>1
      <4>3. G[T] = Body(g, T) /\ G[T \ {Max(T)}] = g[T \ {Max(T)}]
        BY <2>3, <4>1, <4>2
      <4> HIDE DEF G
      <4> QED BY <4>3
    <3> QED BY <3>1, <3>2
  <2>5. Fold(G, n + 1)
    <3>1. G = [T \in SUBSET (1..n+1) |-> G[T]]
      OBVIOUS
    <3> HIDE DEF G, Body
    <3> QED BY <2>4, <3>1
  <2>6. \E x : Fold(x, n + 1)
    <3> HIDE DEF G, Fold
    <3> QED BY <2>5
  <2> QED BY <2>2, <2>6
<1>4. \E g : Fold(g, Len(h))
  <2>1. Len(h) \in P
    <3> HIDE DEF P
    <3>1. \A n \in 0..Len(h) : n \in P /\ n < Len(h) => n + 1 \in P
      BY <1>3
    <3>2. Len(h) \in 0..Len(h)
      BY <1>1
    <3> QED BY <1>1, <1>2, <3>1, <3>2, UpTo
  <2> QED BY <2>1
<1> DEFINE it == CHOOSE g : Fold(g, Len(h))
<1>5. Fold(it, Len(h))
  BY <1>4
<1>6. sanitizeHistoryForProvider(h) = it[1..Len(h)]
  BY <1>1 DEF sanitizeHistoryForProvider, FoldLeft, MapThenFoldSet, Into
<1> DEFINE f == [n \in 0..Len(h) |-> it[1..n]]
<1>7. f[0] = <<>>
  <2>1. 1..0 = {} /\ 1..0 \in SUBSET (1..Len(h)) /\ 0 \in 0..Len(h)
    BY <1>1
  <2> HIDE DEF it
  <2>2. it[1..0] = Body(it, 1..0)
    BY <1>5, <2>1
  <2> QED BY <2>1, <2>2
<1>8. ASSUME NEW n \in 1..Len(h) PROVE f[n] = Into(f[n - 1], h[n])
  <2>1. n - 1 \in Nat /\ (n - 1) + 1 = n /\ n \in 0..Len(h) /\ n - 1 \in 0..Len(h)
    BY <1>1
  <2>2. 1..n \in SUBSET (1..Len(h)) /\ n \in 1..n /\ (1..n) \ {n} = 1..n-1
    BY <1>1
  <2>3. Max(1..n) = n
    <3>1. 1..n \in SUBSET (1..(n - 1) + 1)
      BY <2>1
    <3> QED BY <2>1, <2>2, <3>1, MaxIs
  <2> HIDE DEF it
  <2>4. it[1..n] = Body(it, 1..n)
    BY <1>5, <2>2
  <2>5. it[1..n] = Into(it[1..n-1], h[n])
    BY <2>2, <2>3, <2>4
  <2> QED BY <2>1, <2>5
<1>9. f[Len(h)] = it[1..Len(h)]
  BY <1>1
<1> HIDE DEF f, it
<1> QED BY <1>6, <1>7, <1>8, <1>9

----------------------------------------------------------------------------
\* A call has a number of results, at least one, and only a result names a call.
LogCalls(l) == \A i \in 1..Len(l) :
    /\ l[i].calls \in Nat /\ (l[i].role = "call" => l[i].calls >= 1)
    /\ l[i].role \in Role /\ (l[i].role # "tool" => l[i].of = 0)

\* Position k of the history h is among the results of the call at c, or would be.
Within(l, h, c, k) == l[h[c]].role = "call" /\ k <= c + l[h[c]].calls

\* How a history can have been cut.  Its first message may be any, for a compression keeps
\* it.  After that come the last results of a call that is lost, and then calls, each
\* followed by its results, as far as they have come.
OnlyResults(l, h, k) == \A j \in 2..k : l[h[j]].role = "tool"
Shape(l, h) ==
    /\ \A k \in 2..Len(h) : l[h[k]].role = "tool" =>
          OnlyResults(l, h, k) \/ \E c \in 2..k-1 : Within(l, h, c, k)
    /\ \A c \in 2..Len(h) : \A k \in c+1..Len(h) : Within(l, h, c, k) =>
          l[h[k]].role = "tool" /\ l[h[k]].of = h[c]

\* No call waits for a result.
Closed(l, h) == \A c \in 2..Len(h) : l[h[c]].role = "call" => c + l[h[c]].calls <= Len(h)

\* What has been kept, as the messages s, of the first n messages of the history h.
From(h, n, s) == GoodHist(s, Len(log)) /\ \A j \in 1..Len(s) : \E k \in 1..n : h[k] = s[j]

\* A result stands among the results of its call, ...
ResultsFollow(s) ==
    \A k \in 1..Len(s) : RoleOf(s[k]) = "tool" =>
        \E c \in 1..k-1 : /\ s[c] = log[s[k]].of /\ RoleOf(s[c]) = "call" /\ k <= c + log[s[c]].calls
                          /\ \A j \in c+1..k : RoleOf(s[j]) = "tool"

\* ... a call is followed by its results, ...
CallsFollowed(s) ==
    \A c \in 1..Len(s) : \A k \in c+1..Len(s) : Within(log, s, c, k) =>
        RoleOf(s[k]) = "tool" /\ log[s[k]].of = s[c]

\* ... by all of them, unless the next message is one of them, ...
CallsAnswered(h, n, s) ==
    \A c \in 1..Len(s) : RoleOf(s[c]) = "call" =>
        c + log[s[c]].calls <= Len(s) \/ \E k \in 2..n : h[k] = s[c] /\ n < k + log[s[c]].calls

\* ... of a call that is not answered yet everything is kept or nothing, ...
LastCall(h, n, s) ==
    \A k \in 2..n : Within(log, h, k, n) =>
        \/ \E c \in 1..Len(s) : s[c] = h[k] /\ Len(s) = c + (n - k)
        \/ s = <<>> \/ RoleOf(s[Len(s)]) = "assistant"

\* ... and of a history that begins with results none is kept.
NoneYet(h, n, s) == OnlyResults(log, h, n) => \A j \in 1..Len(s) : RoleOf(s[j]) \notin {"call", "tool"}

GoodKept(h, n, s) ==
    /\ From(h, n, s) /\ ResultsFollow(s) /\ CallsFollowed(s)
    /\ CallsAnswered(h, n, s) /\ LastCall(h, n, s) /\ NoneYet(h, n, s)

\* A set of positions that is not empty has a last one.
LEMMA MaxOf ==
  ASSUME NEW n \in Nat, NEW T \in SUBSET (1..n), T # {}
  PROVE  Max(T) \in T /\ \A y \in T : Max(T) >= y
<1> DEFINE D == {n - y : y \in T}
<1>1. D \in SUBSET Nat /\ D # {}
  <2>1. \A y \in T : y \in 1..n
    OBVIOUS
  <2>2. \A y \in 1..n : n - y \in Nat
    OBVIOUS
  <2> QED BY <2>1, <2>2
<1>2. PICK d \in D : \A e \in D : d <= e
  BY <1>1, Least
<1>3. PICK x \in T : d = n - x
  BY <1>2
<1>4. \A y \in T : x >= y
  <2>1. ASSUME NEW y \in T PROVE x >= y
    <3>1. n - y \in D /\ d <= n - y
      BY <1>2
    <3> QED BY <3>1, <1>3
  <2> QED BY <2>1
<1> QED BY <1>4 DEF Max

\* The nearest message that is no result.
LEMMA NearestIs ==
  ASSUME NEW max \in Nat, NEW s, GoodHist(s, max)
  PROVE  /\ \A c \in 1..Len(s) : RoleOf(s[c]) # "tool" /\ (\A j \in c+1..Len(s) : RoleOf(s[j]) = "tool")
               => Nearest(s) = s[c]
         /\ \/ Nearest(s) = 0
            \/ \E c \in 1..Len(s) : Nearest(s) = s[c] /\ RoleOf(s[c]) # "tool"
         /\ s = <<>> => Nearest(s) = 0
<1> DEFINE js == {j \in 1..Len(s) : RoleOf(s[j]) # "tool"}
<1>1. Len(s) \in Nat
  BY InSet
<1>2. js # {} => Max(js) \in js /\ \A y \in js : Max(js) >= y
  BY <1>1, MaxOf
<1>3. Nearest(s) = IF js = {} THEN 0 ELSE s[Max(js)]
  BY DEF Nearest
<1>4. ASSUME NEW c \in 1..Len(s), RoleOf(s[c]) # "tool", \A j \in c+1..Len(s) : RoleOf(s[j]) = "tool"
      PROVE  Nearest(s) = s[c]
  <2>1. c \in js
    BY <1>4
  <2>2. Max(js) \in 1..Len(s) /\ Max(js) >= c /\ RoleOf(s[Max(js)]) # "tool"
    BY <1>2, <2>1
  <2>3. Max(js) = c
    <3> HIDE DEF js
    <3>1. Max(js) > c => Max(js) \in c+1..Len(s)
      BY <1>1, <2>2
    <3>2. ~(Max(js) > c)
      BY <2>2, <3>1, <1>4
    <3> QED BY <1>1, <2>2, <3>2
  <2> HIDE DEF js
  <2> QED BY <1>3, <2>1, <2>3
<1>5. s = <<>> => js = {}
  OBVIOUS
<1>6. \A j \in js : j \in 1..Len(s) /\ RoleOf(s[j]) # "tool"
  OBVIOUS
<1> HIDE DEF js
<1> QED BY <1>2, <1>3, <1>4, <1>5, <1>6

\* Of two calls only the later one can still wait.
LEMMA OneWaits ==
  ASSUME NEW h, Len(h) \in Nat, Shape(log, h), LogCalls(log), \A j \in 1..Len(h) : h[j] \in 1..Len(log),
         NEW n \in Nat, n < Len(h), NEW c \in 2..n, NEW k \in 2..n,
         Within(log, h, c, n + 1), Within(log, h, k, n + 1)
  PROVE  c = k
<1>1. ASSUME NEW a \in 2..n, NEW b \in 2..n, Within(log, h, a, n + 1), Within(log, h, b, n + 1), a < b
      PROVE  FALSE
  <2>1. a \in 2..Len(h) /\ b \in a+1..Len(h) /\ h[a] \in 1..Len(log)
    BY <1>1
  <2>2. log[h[a]].calls \in Nat
    BY <2>1 DEF LogCalls
  <2>3. Within(log, h, a, b)
    BY <2>2, <1>1 DEF Within
  <2>4. log[h[b]].role = "tool"
    BY <2>1, <2>3 DEF Shape
  <2> QED BY <2>4, <1>1 DEF Within
<1> QED BY <1>1

\* A message that is no result comes after all results of the calls before it.
LEMMA NoneWaits ==
  ASSUME NEW h, Len(h) \in Nat, Shape(log, h), LogCalls(log), \A j \in 1..Len(h) : h[j] \in 1..Len(log),
         NEW n \in Nat, n < Len(h), RoleOf(h[n + 1]) # "tool",
         NEW s, CallsAnswered(h, n, s)
  PROVE  /\ \A k \in 2..n : ~Within(log, h, k, n + 1)
         /\ \A c \in 1..Len(s) : RoleOf(s[c]) = "call" => c + log[s[c]].calls <= Len(s)
<1>1. ASSUME NEW k \in 2..n, Within(log, h, k, n + 1) PROVE FALSE
  <2>1. k \in 2..Len(h) /\ n + 1 \in k+1..Len(h)
    BY <1>1
  <2>2. log[h[n + 1]].role = "tool"
    BY <2>1, <1>1 DEF Shape
  <2> QED BY <2>2 DEF RoleOf
<1>2. ASSUME NEW c \in 1..Len(s), RoleOf(s[c]) = "call", NEW k \in 2..n, h[k] = s[c], n < k + log[s[c]].calls
      PROVE  FALSE
  <2>1. k \in 1..Len(h) /\ h[k] \in 1..Len(log)
    BY <1>2
  <2>2. log[h[k]].calls \in Nat
    BY <2>1 DEF LogCalls
  <2>3. Within(log, h, k, n + 1)
    BY <2>2, <1>2 DEF Within, RoleOf
  <2> QED BY <2>3, <1>1
<1> QED BY <1>1, <1>2 DEF CallsAnswered

\* What appending a message to the kept ones does.
LEMMA AppendIs ==
  ASSUME NEW h, GoodHist(h, Len(log)), Len(log) \in Nat, NEW n \in 0..Len(h), n < Len(h), NEW s, From(h, n, s)
  PROVE  /\ From(h, n + 1, Append(s, h[n + 1]))
         /\ Len(s) \in Nat /\ Len(Append(s, h[n + 1])) = Len(s) + 1
         /\ \A j \in 1..Len(s) : Append(s, h[n + 1])[j] = s[j]
         /\ Append(s, h[n + 1])[Len(s) + 1] = h[n + 1]
<1> DEFINE i == h[n + 1]
           r == Append(s, i)
<1>1. /\ h \in Seq(1..Len(log)) /\ Len(h) \in Nat /\ n \in Nat /\ n + 1 \in 1..Len(h) /\ h[n + 1] \in 1..Len(log)
      /\ s \in Seq(1..Len(log)) /\ Len(s) \in Nat
  <2>1. h \in Seq(1..Len(log)) /\ s \in Seq(1..Len(log))
    BY DEF GoodHist, From
  <2>2. Len(h) \in Nat /\ Len(s) \in Nat
    BY <2>1, LenProperties
  <2>3. n \in Nat /\ n + 1 \in 1..Len(h)
    BY <2>2
  <2> QED BY <2>1, <2>2, <2>3, ElementOfSeq
<1>2. r \in Seq(1..Len(log)) /\ Len(r) = Len(s) + 1 /\ (\A j \in 1..Len(s) : r[j] = s[j]) /\ r[Len(s) + 1] = i
  BY <1>1, AppendProperties
<1> HIDE DEF r
<1>3. \A j \in 1..Len(s) : s[j] < i
  <2>1. ASSUME NEW j \in 1..Len(s) PROVE s[j] < i
    <3>1. PICK k \in 1..n : h[k] = s[j]
      BY DEF From
    <3>2. k \in 1..Len(h) /\ k < n + 1
      BY <1>1, <3>1
    <3>3. h[k] < h[n + 1]
      BY <1>1, <3>2 DEF GoodHist, Increasing
    <3> QED BY <3>1, <3>3
  <2> QED BY <2>1
<1>4. \A j \in 1..Len(r) : j \in 1..Len(s) \/ j = Len(s) + 1
  BY <1>1, <1>2
<1>5. ASSUME NEW j \in 1..Len(r), NEW k \in 1..Len(r), j < k PROVE r[j] < r[k]
  <2>1. j \in 1..Len(s)
    BY <1>1, <1>2, <1>5
  <2>2. CASE k \in 1..Len(s)
    BY <2>1, <2>2, <1>2, <1>5 DEF From, GoodHist, Increasing
  <2>3. CASE k = Len(s) + 1
    BY <2>1, <2>3, <1>2, <1>3
  <2> QED BY <2>2, <2>3, <1>4
<1>6. ASSUME NEW j \in 1..Len(r) PROVE \E k \in 1..n+1 : h[k] = r[j]
  <2>1. CASE j \in 1..Len(s)
    <3>1. PICK k \in 1..n : h[k] = s[j]
      BY <2>1 DEF From
    <3>2. k \in 1..n+1
      BY <1>1, <3>1
    <3> QED BY <2>1, <3>1, <3>2, <1>2
  <2>2. CASE j = Len(s) + 1
    <3>1. n + 1 \in 1..n+1
      BY <1>1
    <3> QED BY <2>2, <3>1, <1>2
  <2> QED BY <2>1, <2>2, <1>4
<1>7. From(h, n + 1, r)
  BY <1>2, <1>5, <1>6 DEF From, GoodHist, Increasing
<1> USE DEF r
<1> QED BY <1>1, <1>2, <1>7

\* A message that is not kept.
LEMMA LeftAway ==
  ASSUME NEW h, GoodHist(h, Len(log)), Len(log) \in Nat, NEW n \in 0..Len(h), n < Len(h), NEW s, GoodKept(h, n, s)
  PROVE  From(h, n + 1, s) /\ ResultsFollow(s) /\ CallsFollowed(s)
<1>1. n \in Nat /\ \A k \in 1..n : k \in 1..n+1
  OBVIOUS
<1>2. From(h, n + 1, s)
  <2>1. ASSUME NEW j \in 1..Len(s) PROVE \E k \in 1..n+1 : h[k] = s[j]
    BY <1>1 DEF GoodKept, From
  <2> QED BY <2>1 DEF GoodKept, From
<1> QED BY <1>2 DEF GoodKept

\* The first message is kept if it is one of the user or an answer.
LEMMA KeptFirst ==
  ASSUME NEW h, GoodHist(h, Len(log)), Len(log) \in Nat, Len(h) >= 1, GoodKept(h, 0, <<>>)
  PROVE  GoodKept(h, 1, Into(<<>>, h[1]))
<1> DEFINE i == h[1]
           s == <<>>
           r == Append(s, i)
<1>1. Len(h) \in Nat /\ 0 \in 0..Len(h) /\ 0 < Len(h) /\ 0 + 1 = 1 /\ Len(s) = 0
  BY InSet
<1>2. From(h, 1, r) /\ Len(r) = 1 /\ r[1] = i
  <2>1. From(h, 0, s)
    BY DEF GoodKept
  <2>2. From(h, 0 + 1, Append(s, h[0 + 1])) /\ Len(Append(s, h[0 + 1])) = Len(s) + 1
        /\ Append(s, h[0 + 1])[Len(s) + 1] = h[0 + 1]
    <3>1. 0 \in 0..Len(h) /\ 0 < Len(h)
      BY <1>1
    <3> HIDE DEF s
    <3> QED BY <3>1, <2>1, AppendIs
  <2> QED BY <1>1, <2>2
<1> HIDE DEF r
<1>3. \A k : k \notin 2..1
  OBVIOUS
<1>4. CASE Accepts(s, i)
  <2>1. RoleOf(i) # "tool" /\ RoleOf(i) # "call"
    <3>1. Nearest(s) = 0
      <4>1. GoodHist(s, Len(log))
        BY DEF GoodKept, From
      <4> QED BY <4>1, NearestIs
    <3> QED BY <3>1, <1>4 DEF Accepts
  <2>2. \A j \in 1..Len(r) : j = 1 /\ RoleOf(r[j]) # "tool" /\ RoleOf(r[j]) # "call"
    BY <1>2, <2>1
  <2>3. Into(s, i) = r
    BY <1>4 DEF Into, r
  <2> HIDE DEF s, i
  <2>4. GoodKept(h, 1, r)
    <3>1. ResultsFollow(r)
      BY <2>2 DEF ResultsFollow
    <3>2. CallsFollowed(r)
      BY <2>2 DEF CallsFollowed, Within, RoleOf
    <3>3. CallsAnswered(h, 1, r)
      BY <2>2 DEF CallsAnswered
    <3>4. LastCall(h, 1, r)
      BY <1>3 DEF LastCall
    <3>5. NoneYet(h, 1, r)
      BY <2>2 DEF NoneYet
    <3> QED BY <1>2, <3>1, <3>2, <3>3, <3>4, <3>5 DEF GoodKept
  <2> USE DEF s, i
  <2> QED BY <2>3, <2>4
<1>5. CASE ~Accepts(s, i)
  <2>1. Into(s, i) = s
    BY <1>5 DEF Into
  <2>2. From(h, 1, s) /\ ResultsFollow(s) /\ CallsFollowed(s)
    BY <1>1, LeftAway
  <2>3. CallsAnswered(h, 1, s) /\ NoneYet(h, 1, s)
    BY DEF CallsAnswered, NoneYet
  <2>4. LastCall(h, 1, s)
    BY <1>3 DEF LastCall
  <2> HIDE DEF s, i
  <2>5. GoodKept(h, 1, s)
    BY <2>2, <2>3, <2>4 DEF GoodKept
  <2> USE DEF s, i
  <2> QED BY <2>1, <2>5
<1> QED BY <1>4, <1>5

\* What the steps assume: a history cut as it may be, and the kept ones of its first n messages.
Cutting(h, n, s) ==
    /\ Len(log) \in Nat /\ LogCalls(log)
    /\ GoodHist(h, Len(log)) /\ Shape(log, h)
    /\ n \in Nat /\ 1 <= n /\ n < Len(h)
    /\ GoodKept(h, n, s)

LEMMA CuttingGives ==
  ASSUME NEW h, NEW n, NEW s, Cutting(h, n, s)
  PROVE  /\ Len(h) \in Nat /\ n \in 0..Len(h) /\ n \in Nat /\ n < Len(h) /\ n + 1 \in 2..Len(h)
         /\ \A j \in 1..Len(h) : h[j] \in 1..Len(log)
         /\ Len(s) \in Nat /\ \A j \in 1..Len(s) : s[j] \in 1..Len(log)
         /\ \A j, k \in 1..Len(s) : s[j] = s[k] => j = k
<1>1. h \in Seq(1..Len(log)) /\ s \in Seq(1..Len(log)) /\ Len(log) \in Nat
  BY DEF Cutting, GoodKept, From, GoodHist
<1>2. Len(h) \in Nat /\ Len(s) \in Nat
  BY <1>1, LenProperties
<1>3. (\A j \in 1..Len(h) : h[j] \in 1..Len(log)) /\ \A j \in 1..Len(s) : s[j] \in 1..Len(log)
  BY <1>1, ElementOfSeq
<1>4. n \in 0..Len(h) /\ n \in Nat /\ n < Len(h) /\ n + 1 \in 2..Len(h)
  BY <1>2 DEF Cutting
<1>5. ASSUME NEW j \in 1..Len(s), NEW k \in 1..Len(s), s[j] = s[k] PROVE j = k
  <2>1. j < k => s[j] < s[k]
    BY DEF Cutting, GoodKept, From, GoodHist, Increasing
  <2>2. k < j => s[k] < s[j]
    BY DEF Cutting, GoodKept, From, GoodHist, Increasing
  <2> QED BY <2>1, <2>2, <1>2, <1>3, <1>5
<1> QED BY <1>2, <1>3, <1>4, <1>5

\* Another message than a result.
LEMMA KeptOther ==
  ASSUME NEW h, NEW n, NEW s, Cutting(h, n, s), RoleOf(h[n + 1]) # "tool"
  PROVE  GoodKept(h, n + 1, Into(s, h[n + 1]))
<1> DEFINE i == h[n + 1]
           r == Append(s, i)
<1>1. /\ Len(h) \in Nat /\ n \in 0..Len(h) /\ n \in Nat /\ n < Len(h) /\ n + 1 \in 2..Len(h)
      /\ \A j \in 1..Len(h) : h[j] \in 1..Len(log)
      /\ Len(s) \in Nat /\ \A j \in 1..Len(s) : s[j] \in 1..Len(log)
  BY CuttingGives
<1>2. /\ \A k \in 2..n : ~Within(log, h, k, n + 1)
      /\ \A c \in 1..Len(s) : RoleOf(s[c]) = "call" => c + log[s[c]].calls <= Len(s)
  BY <1>1, NoneWaits DEF Cutting, GoodKept
<1>3. \A k \in 2..n+1 : k \in 2..n \/ k = n + 1
  BY <1>1
<1>4. ~OnlyResults(log, h, n + 1)
  BY <1>1 DEF OnlyResults, RoleOf
<1>5. RoleOf(i) = "call" => log[i].calls \in Nat /\ log[i].calls >= 1
  BY <1>1 DEF Cutting, LogCalls, RoleOf
<1>6. CASE Accepts(s, i)
  <2>1. /\ From(h, n + 1, r) /\ Len(r) = Len(s) + 1
        /\ (\A j \in 1..Len(s) : r[j] = s[j]) /\ r[Len(s) + 1] = i
    BY <1>1, AppendIs DEF Cutting, GoodKept
  <2>2. Into(s, i) = r
    BY <1>6 DEF Into
  <2> HIDE DEF r
  <2>3. \A j \in 1..Len(r) : j \in 1..Len(s) \/ j = Len(s) + 1
    BY <1>1, <2>1
  <2>4. ResultsFollow(r)
    <3>1. ASSUME NEW k \in 1..Len(r), RoleOf(r[k]) = "tool"
          PROVE  \E c \in 1..k-1 : /\ r[c] = log[r[k]].of /\ RoleOf(r[c]) = "call" /\ k <= c + log[r[c]].calls
                                   /\ \A j \in c+1..k : RoleOf(r[j]) = "tool"
      <4>1. k \in 1..Len(s) /\ r[k] = s[k]
        BY <3>1, <2>1, <2>3
      <4>2. PICK c \in 1..k-1 : /\ s[c] = log[s[k]].of /\ RoleOf(s[c]) = "call" /\ k <= c + log[s[c]].calls
                                /\ \A j \in c+1..k : RoleOf(s[j]) = "tool"
        BY <4>1, <3>1 DEF Cutting, GoodKept, ResultsFollow
      <4>3. c \in 1..Len(s) /\ \A j \in c+1..k : j \in 1..Len(s)
        BY <1>1, <4>1
      <4>4. r[c] = s[c] /\ \A j \in c+1..k : r[j] = s[j]
        BY <4>3, <2>1
      <4> QED BY <4>1, <4>2, <4>4
    <3> QED BY <3>1 DEF ResultsFollow
  <2>5. CallsFollowed(r)
    <3>1. ASSUME NEW c \in 1..Len(r), NEW k \in c+1..Len(r), Within(log, r, c, k)
          PROVE  RoleOf(r[k]) = "tool" /\ log[r[k]].of = r[c]
      <4>1. c \in 1..Len(s) /\ r[c] = s[c] /\ k \in Nat /\ k <= Len(s) + 1
        BY <1>1, <2>1
      <4>2. Within(log, s, c, k)
        BY <4>1, <3>1 DEF Within
      <4>3. c + log[s[c]].calls <= Len(s) /\ log[s[c]].calls \in Nat
        BY <4>1, <4>2, <1>1, <1>2 DEF Within, RoleOf, Cutting, LogCalls
      <4>4. k \in c+1..Len(s) /\ k \in 1..Len(s)
        BY <4>1, <4>2, <4>3, <1>1 DEF Within
      <4>5. RoleOf(s[k]) = "tool" /\ log[s[k]].of = s[c]
        BY <4>1, <4>2, <4>4 DEF Cutting, GoodKept, CallsFollowed
      <4> QED BY <4>1, <4>4, <4>5, <2>1
    <3> QED BY <3>1 DEF CallsFollowed
  <2>6. CallsAnswered(h, n + 1, r)
    <3>1. ASSUME NEW c \in 1..Len(r), RoleOf(r[c]) = "call"
          PROVE  c + log[r[c]].calls <= Len(r) \/ \E k \in 2..n+1 : h[k] = r[c] /\ n + 1 < k + log[r[c]].calls
      <4>1. CASE c \in 1..Len(s)
        <5>1. c + log[s[c]].calls <= Len(s) /\ r[c] = s[c] /\ log[s[c]].calls \in Nat
          BY <4>1, <3>1, <1>1, <1>2, <2>1 DEF Cutting, LogCalls
        <5> QED BY <5>1, <4>1, <1>1, <2>1
      <4>2. CASE c = Len(s) + 1
        <5>1. r[c] = i /\ n + 1 \in 2..n+1 /\ n + 1 < n + 1 + log[i].calls
          BY <4>2, <3>1, <1>1, <1>5, <2>1
        <5> QED BY <5>1
      <4> QED BY <4>1, <4>2, <2>3
    <3> QED BY <3>1 DEF CallsAnswered
  <2>7. LastCall(h, n + 1, r)
    <3>1. ASSUME NEW k \in 2..n+1, Within(log, h, k, n + 1)
          PROVE  \/ \E c \in 1..Len(r) : r[c] = h[k] /\ Len(r) = c + ((n + 1) - k)
                 \/ r = <<>> \/ RoleOf(r[Len(r)]) = "assistant"
      <4>1. k = n + 1
        BY <3>1, <1>2, <1>3
      <4>2. Len(s) + 1 \in 1..Len(r) /\ r[Len(s) + 1] = h[k] /\ Len(r) = (Len(s) + 1) + ((n + 1) - k)
        BY <4>1, <1>1, <2>1
      <4>3. \E c \in 1..Len(r) : r[c] = h[k] /\ Len(r) = c + ((n + 1) - k)
        BY <4>2, Zenon
      <4> QED BY <4>3
    <3> QED BY <3>1 DEF LastCall
  <2>8. NoneYet(h, n + 1, r)
    BY <1>4 DEF NoneYet
  <2> QED BY <2>1, <2>2, <2>4, <2>5, <2>6, <2>7, <2>8 DEF GoodKept
<1>7. CASE ~Accepts(s, i)
  <2>1. Into(s, i) = s
    BY <1>7 DEF Into
  <2>2. From(h, n + 1, s) /\ ResultsFollow(s) /\ CallsFollowed(s)
    BY <1>1, LeftAway DEF Cutting
  <2>3. CallsAnswered(h, n + 1, s)
    BY <1>2 DEF CallsAnswered
  <2>4. s = <<>> \/ RoleOf(s[Len(s)]) = "assistant"
    <3>1. SUFFICES ASSUME s # <<>> PROVE RoleOf(s[Len(s)]) = "assistant"
      OBVIOUS
    <3>2. RoleOf(s[Len(s)]) \notin {"user", "tool"}
      BY <3>1, <1>7 DEF Accepts, Last
    <3>3. Len(s) \in 1..Len(s)
      <4>1. s \in Seq(1..Len(log))
        BY DEF Cutting, GoodKept, From, GoodHist
      <4>2. Len(s) # 0
        BY <4>1, <3>1, EmptySeq
      <4> QED BY <4>2, <1>1
    <3>4. RoleOf(s[Len(s)]) # "call"
      <4>1. SUFFICES ASSUME RoleOf(s[Len(s)]) = "call" PROVE FALSE
        OBVIOUS
      <4>2. Len(s) + log[s[Len(s)]].calls <= Len(s)
        BY <4>1, <3>3, <1>2
      <4>3. log[s[Len(s)]].calls \in Nat /\ log[s[Len(s)]].calls >= 1
        BY <4>1, <3>3, <1>1 DEF Cutting, LogCalls, RoleOf
      <4> QED BY <4>2, <4>3, <1>1
    <3>5. log[s[Len(s)]].role \in Role
      BY <3>3, <1>1 DEF Cutting, LogCalls
    <3> QED BY <3>2, <3>4, <3>5 DEF RoleOf, Role
  <2>5. LastCall(h, n + 1, s)
    BY <2>4 DEF LastCall
  <2>6. NoneYet(h, n + 1, s)
    BY <1>4 DEF NoneYet
  <2> QED BY <2>1, <2>2, <2>3, <2>5, <2>6 DEF GoodKept
<1> QED BY <1>6, <1>7

\* The results at the beginning of a history are not kept.
LEMMA KeptOrphan ==
  ASSUME NEW h, NEW n, NEW s, Cutting(h, n, s), RoleOf(h[n + 1]) = "tool", OnlyResults(log, h, n + 1)
  PROVE  GoodKept(h, n + 1, Into(s, h[n + 1]))
<1>1. /\ Len(h) \in Nat /\ n \in 0..Len(h) /\ n \in Nat /\ n < Len(h)
      /\ Len(s) \in Nat /\ GoodHist(s, Len(log)) /\ Len(log) \in Nat
      /\ \A j \in 1..Len(s) : s[j] \in 1..Len(log)
  BY CuttingGives DEF Cutting, GoodKept, From
<1>2. \A j \in 2..n+1 : log[h[j]].role = "tool"
  BY DEF OnlyResults
<1>3. \A j \in 1..Len(s) : RoleOf(s[j]) \notin {"call", "tool"}
  <2>1. OnlyResults(log, h, n)
    <3>1. \A j \in 2..n : j \in 2..n+1
      BY <1>1
    <3> QED BY <3>1, <1>2 DEF OnlyResults
  <2> QED BY <2>1 DEF Cutting, GoodKept, NoneYet
<1>4. Into(s, h[n + 1]) = s
  <2>1. Nearest(s) = 0 \/ \E c \in 1..Len(s) : Nearest(s) = s[c]
    BY <1>1, NearestIs
  <2>2. Nearest(s) = 0 \/ RoleOf(Nearest(s)) # "call"
    BY <2>1, <1>3
  <2>3. ~Accepts(s, h[n + 1])
    BY <2>2 DEF Accepts
  <2> QED BY <2>3 DEF Into
<1>5. From(h, n + 1, s) /\ ResultsFollow(s) /\ CallsFollowed(s)
  BY <1>1, LeftAway DEF Cutting
<1>6. CallsAnswered(h, n + 1, s)
  BY <1>3 DEF CallsAnswered
<1>7. LastCall(h, n + 1, s)
  BY <1>2 DEF LastCall, Within
<1>8. NoneYet(h, n + 1, s)
  BY <1>3 DEF NoneYet
<1> QED BY <1>4, <1>5, <1>6, <1>7, <1>8 DEF GoodKept

\* A result is kept if its call is.
LEMMA KeptResult ==
  ASSUME NEW h, NEW n, NEW s, Cutting(h, n, s), RoleOf(h[n + 1]) = "tool",
         NEW c \in 2..n, Within(log, h, c, n + 1)
  PROVE  GoodKept(h, n + 1, Into(s, h[n + 1]))
<1> DEFINE i == h[n + 1]
           r == Append(s, i)
<1>1. /\ Len(h) \in Nat /\ n \in 0..Len(h) /\ n \in Nat /\ n < Len(h) /\ n + 1 \in 2..Len(h)
      /\ \A j \in 1..Len(h) : h[j] \in 1..Len(log)
      /\ Len(s) \in Nat /\ \A j \in 1..Len(s) : s[j] \in 1..Len(log)
      /\ \A j, k \in 1..Len(s) : s[j] = s[k] => j = k
  BY CuttingGives
<1>2. /\ RoleOf(h[c]) = "call" /\ log[h[c]].calls \in Nat /\ n + 1 <= c + log[h[c]].calls
      /\ log[i].of = h[c] /\ c \in 1..Len(h) /\ c \in Nat /\ c <= n
  <2>1. c \in 2..Len(h) /\ n + 1 \in c+1..Len(h) /\ h[c] \in 1..Len(log)
    BY <1>1
  <2>2. log[i].of = h[c]
    BY <2>1 DEF Cutting, Shape
  <2> QED BY <2>1, <2>2 DEF Within, Cutting, LogCalls, RoleOf
<1>3. \A k \in 2..n : Within(log, h, k, n + 1) => k = c
  BY <1>1, OneWaits DEF Cutting
<1>4. \A k \in 2..n+1 : Within(log, h, k, n + 1) => k = c
  <2>1. ~Within(log, h, n + 1, n + 1)
    BY DEF Within, RoleOf
  <2>2. \A k \in 2..n+1 : k \in 2..n \/ k = n + 1
    BY <1>1
  <2> QED BY <2>1, <2>2, <1>3
<1>5. ASSUME NEW e \in 1..Len(s), RoleOf(s[e]) = "call"
      PROVE  /\ log[s[e]].calls \in Nat
             /\ e + log[s[e]].calls <= Len(s) \/ s[e] = h[c]
  <2>1. log[s[e]].calls \in Nat
    BY <1>1 DEF Cutting, LogCalls
  <2>2. ASSUME NEW k \in 2..n, h[k] = s[e], n < k + log[s[e]].calls PROVE s[e] = h[c]
    <3>1. Within(log, h, k, n + 1)
      BY <1>1, <1>5, <2>1, <2>2 DEF Within, RoleOf
    <3> QED BY <3>1, <1>3, <2>2
  <2> QED BY <2>1, <2>2, <1>5 DEF Cutting, GoodKept, CallsAnswered
<1>6. ~OnlyResults(log, h, n + 1)
  <2>1. c \in 2..n+1 /\ log[h[c]].role # "tool"
    BY <1>1, <1>2 DEF RoleOf
  <2> QED BY <2>1 DEF OnlyResults
<1>7. Within(log, h, c, n)
  BY <1>1, <1>2 DEF Within, RoleOf
<1>8. CASE \E e \in 1..Len(s) : s[e] = h[c] /\ Len(s) = e + (n - c)
  <2>1. PICK e \in 1..Len(s) : s[e] = h[c] /\ Len(s) = e + (n - c)
    BY <1>8
  <2>2. /\ From(h, n + 1, r) /\ Len(r) = Len(s) + 1
        /\ (\A j \in 1..Len(s) : r[j] = s[j]) /\ r[Len(s) + 1] = i
    BY <1>1, AppendIs DEF Cutting, GoodKept
  <2>3. RoleOf(s[e]) = "call" /\ Len(s) + 1 <= e + log[s[e]].calls
    <3>1. /\ n \in Nat /\ c \in Nat /\ e \in Nat /\ log[h[c]].calls \in Nat
          /\ n + 1 <= c + log[h[c]].calls /\ Len(s) = e + (n - c)
      BY <2>1, <1>1, <1>2
    <3>2. Len(s) + 1 <= e + log[h[c]].calls
      BY ONLY <3>1
    <3> QED BY <3>2, <2>1, <1>2
  <2>4. \A j \in e+1..Len(s) : RoleOf(s[j]) = "tool"
    <3>1. ASSUME NEW j \in e+1..Len(s) PROVE Within(log, s, e, j)
      <4>1. j <= Len(s) /\ j \in Int /\ e \in Int /\ log[s[e]].calls \in Nat
        BY <1>1, <1>2, <2>1
      <4> QED BY <4>1, <2>3, <1>1 DEF Within, RoleOf
    <3> QED BY <3>1 DEF Cutting, GoodKept, CallsFollowed
  <2>5. Into(s, i) = r
    <3>1. GoodHist(s, Len(log)) /\ Len(log) \in Nat
      BY DEF Cutting, GoodKept, From
    <3>2. Nearest(s) = s[e]
      BY <3>1, <2>3, <2>4, NearestIs
    <3>3. s[e] # 0
      BY <1>1
    <3> QED BY <3>2, <3>3, <2>3 DEF Into, Accepts
  <2> HIDE DEF r
  <2>6. \A j \in 1..Len(r) : j \in 1..Len(s) \/ j = Len(s) + 1
    <3>1. Len(s) \in Nat /\ Len(r) = Len(s) + 1
      BY <1>1, <2>2
    <3> QED BY <3>1
  <2>7. ResultsFollow(r)
    <3>1. ASSUME NEW k \in 1..Len(r), RoleOf(r[k]) = "tool"
          PROVE  \E a \in 1..k-1 : /\ r[a] = log[r[k]].of /\ RoleOf(r[a]) = "call" /\ k <= a + log[r[a]].calls
                                   /\ \A j \in a+1..k : RoleOf(r[j]) = "tool"
      <4>1. CASE k \in 1..Len(s)
        <5>1. r[k] = s[k]
          BY <4>1, <2>2
        <5>2. PICK a \in 1..k-1 : /\ s[a] = log[s[k]].of /\ RoleOf(s[a]) = "call" /\ k <= a + log[s[a]].calls
                                  /\ \A j \in a+1..k : RoleOf(s[j]) = "tool"
          BY <5>1, <4>1, <3>1 DEF Cutting, GoodKept, ResultsFollow
        <5>3. a \in 1..Len(s) /\ \A j \in a+1..k : j \in 1..Len(s)
          BY <1>1, <4>1
        <5>4. r[a] = s[a] /\ \A j \in a+1..k : r[j] = s[j]
          BY <5>3, <2>2
        <5> QED BY <5>1, <5>2, <5>4
      <4>2. CASE k = Len(s) + 1
        <5>1. r[k] = i /\ r[e] = s[e] /\ e \in 1..k-1
          BY <4>2, <2>1, <2>2, <1>1
        <5>2. ASSUME NEW j \in e+1..k PROVE RoleOf(r[j]) = "tool"
          <6>1. j \in e+1..Len(s) \/ j = k
            BY <4>2, <1>1, <2>1
          <6>2. j \in e+1..Len(s) => j \in 1..Len(s)
            BY <1>1, <2>1
          <6> QED BY <6>1, <6>2, <3>1, <2>2, <2>4
        <5>3. r[e] = log[r[k]].of /\ RoleOf(r[e]) = "call" /\ k <= e + log[r[e]].calls
          BY <5>1, <4>2, <1>2, <2>1, <2>3
        <5> QED BY <5>1, <5>2, <5>3
      <4> QED BY <4>1, <4>2, <2>6
    <3> QED BY <3>1 DEF ResultsFollow
  <2>8. CallsFollowed(r)
    <3>1. ASSUME NEW a \in 1..Len(r), NEW k \in a+1..Len(r), Within(log, r, a, k)
          PROVE  RoleOf(r[k]) = "tool" /\ log[r[k]].of = r[a]
      <4>1. a \in 1..Len(s) /\ r[a] = s[a] /\ k \in Nat /\ k <= Len(s) + 1 /\ k \in 1..Len(r)
        BY <1>1, <2>2
      <4>2. Within(log, s, a, k) /\ RoleOf(s[a]) = "call" /\ k <= a + log[s[a]].calls
        BY <4>1, <3>1 DEF Within, RoleOf
      <4>3. CASE k \in 1..Len(s)
        <5>1. k \in a+1..Len(s)
          BY <4>1, <4>3
        <5>2. RoleOf(s[k]) = "tool" /\ log[s[k]].of = s[a]
          BY <4>1, <4>2, <5>1 DEF Cutting, GoodKept, CallsFollowed
        <5> QED BY <4>1, <4>3, <5>2, <2>2
      <4>4. CASE k = Len(s) + 1
        <5>1. s[a] = h[c]
          <6>1. log[s[a]].calls \in Nat /\ (a + log[s[a]].calls <= Len(s) \/ s[a] = h[c])
            BY <4>1, <4>2, <1>5
          <6>2. ~(a + log[s[a]].calls <= Len(s))
            BY <6>1, <4>1, <4>2, <4>4, <1>1
          <6> QED BY <6>1, <6>2
        <5> QED BY <5>1, <4>1, <4>4, <1>2, <2>2
      <4> QED BY <4>1, <4>3, <4>4, <2>6
    <3> QED BY <3>1 DEF CallsFollowed
  <2>9. CallsAnswered(h, n + 1, r)
    <3>1. ASSUME NEW a \in 1..Len(r), RoleOf(r[a]) = "call"
          PROVE  a + log[r[a]].calls <= Len(r) \/ \E k \in 2..n+1 : h[k] = r[a] /\ n + 1 < k + log[r[a]].calls
      <4>1. a \in 1..Len(s) /\ r[a] = s[a]
        BY <3>1, <2>2, <2>6
      <4>2. log[s[a]].calls \in Nat /\ (a + log[s[a]].calls <= Len(s) \/ s[a] = h[c])
        BY <4>1, <3>1, <1>5
      <4>3. CASE a + log[s[a]].calls <= Len(s)
        BY <4>1, <4>2, <4>3, <1>1, <2>2
      <4>4. CASE s[a] = h[c]
        <5>1. a = e
          BY <4>1, <4>4, <2>1, <1>1
        <5>2. CASE n + 1 = c + log[h[c]].calls
          <6>1. a + log[s[a]].calls <= Len(s) + 1
            <7>1. PICK x \in Nat : x = log[h[c]].calls
              BY <1>2
            <7>2. n \in Nat /\ c \in Nat /\ e \in Nat /\ Len(s) = e + (n - c) /\ n + 1 = c + x
              BY <7>1, <5>2, <2>1, <1>1, <1>2
            <7>3. e + x <= Len(s) + 1
              BY ONLY <7>2
            <7> QED BY <7>1, <7>3, <5>1, <4>4
          <6> QED BY <6>1, <4>1, <2>2
        <5>3. CASE n + 1 # c + log[h[c]].calls
          <6>1. n + 1 < c + log[h[c]].calls
            <7>1. n \in Nat /\ c \in Nat /\ log[h[c]].calls \in Nat /\ n + 1 <= c + log[h[c]].calls
              BY <1>1, <1>2
            <7> QED BY ONLY <7>1, <5>3
          <6>2. c \in 2..n+1
            BY <1>1
          <6> QED BY <6>1, <6>2, <4>1, <4>4
        <5> QED BY <5>2, <5>3
      <4> QED BY <4>2, <4>3, <4>4
    <3> QED BY <3>1 DEF CallsAnswered
  <2>10. LastCall(h, n + 1, r)
    <3>1. e \in 1..Len(r) /\ r[e] = h[c] /\ Len(r) = e + ((n + 1) - c)
      BY <2>1, <2>2, <1>1, <1>2
    <3>2. \E a \in 1..Len(r) : r[a] = h[c] /\ Len(r) = a + ((n + 1) - c)
      BY <3>1, Zenon
    <3> QED BY <3>2, <1>4 DEF LastCall
  <2>11. NoneYet(h, n + 1, r)
    BY <1>6 DEF NoneYet
  <2> QED BY <2>2, <2>5, <2>7, <2>8, <2>9, <2>10, <2>11 DEF GoodKept
<1>9. CASE s = <<>> \/ RoleOf(s[Len(s)]) = "assistant"
  <2>1. Into(s, i) = s
    <3>1. GoodHist(s, Len(log)) /\ Len(log) \in Nat
      BY DEF Cutting, GoodKept, From
    <3>2. CASE s = <<>>
      <4>1. Nearest(s) = 0
        BY <3>1, <3>2, NearestIs
      <4> QED BY <4>1 DEF Into, Accepts
    <3>3. CASE s # <<>> /\ RoleOf(s[Len(s)]) = "assistant"
      <4>1. Len(s) \in 1..Len(s)
        <5>1. s \in Seq(1..Len(log))
          BY <3>1 DEF GoodHist
        <5>2. Len(s) # 0
          BY <5>1, <3>3, EmptySeq
        <5> QED BY <5>2, <1>1
      <4>2. \A j \in Len(s)+1..Len(s) : FALSE
        BY <1>1
      <4>3. Nearest(s) = s[Len(s)]
        BY <3>1, <3>3, <4>1, <4>2, NearestIs
      <4> QED BY <4>3, <3>3 DEF Into, Accepts
    <3> QED BY <3>2, <3>3, <1>9
  <2>2. From(h, n + 1, s) /\ ResultsFollow(s) /\ CallsFollowed(s)
    BY <1>1, LeftAway DEF Cutting
  <2>3. \A e \in 1..Len(s) : RoleOf(s[e]) = "call" => e + log[s[e]].calls <= Len(s)
    <3>1. ASSUME NEW e \in 1..Len(s), RoleOf(s[e]) = "call", ~(e + log[s[e]].calls <= Len(s)) PROVE FALSE
      <4>1. log[s[e]].calls \in Nat
        BY <3>1, <1>5
      <4>2. Len(s) # 0 /\ RoleOf(s[Len(s)]) = "assistant"
        <5>1. Len(s) # 0
          BY <1>1, <3>1
        <5>2. Len(<<>>) = 0
          OBVIOUS
        <5> QED BY <5>1, <5>2, <1>9
      <4>3. e # Len(s)
        BY <3>1, <4>2
      <4>4. Len(s) \in e+1..Len(s) /\ Len(s) <= e + log[s[e]].calls
        BY <4>1, <4>3, <3>1, <1>1
      <4>5. RoleOf(s[Len(s)]) = "tool"
        BY <4>4, <3>1 DEF Cutting, GoodKept, CallsFollowed, Within, RoleOf
      <4> QED BY <4>2, <4>5
    <3> QED BY <3>1
  <2>4. CallsAnswered(h, n + 1, s)
    BY <2>3 DEF CallsAnswered
  <2>5. LastCall(h, n + 1, s)
    BY <1>9 DEF LastCall
  <2>6. NoneYet(h, n + 1, s)
    BY <1>6 DEF NoneYet
  <2> QED BY <2>1, <2>2, <2>4, <2>5, <2>6 DEF GoodKept
<1> QED BY <1>7, <1>8, <1>9 DEF Cutting, GoodKept, LastCall

\* The kept messages stay good from one message to the next.
LEMMA KeptStep ==
  ASSUME NEW h, NEW n, NEW s, Cutting(h, n, s)
  PROVE  GoodKept(h, n + 1, Into(s, h[n + 1]))
<1>1. CASE RoleOf(h[n + 1]) # "tool"
  BY <1>1, KeptOther
<1>2. CASE RoleOf(h[n + 1]) = "tool"
  <2>1. n + 1 \in 2..Len(h) /\ (n + 1) - 1 = n
    BY CuttingGives
  <2>2. OnlyResults(log, h, n + 1) \/ \E c \in 2..(n+1)-1 : Within(log, h, c, n + 1)
    BY <1>2, <2>1 DEF Cutting, Shape, RoleOf
  <2> QED BY <1>2, <2>1, <2>2, KeptOrphan, KeptResult
<1> QED BY <1>1, <1>2

\* Messages that are kept of a history in which no call waits are well formed.
LEMMA KeptWellFormed ==
  ASSUME NEW h, NEW s, Len(log) \in Nat, LogCalls(log), GoodHist(h, Len(log)), Closed(log, h),
         GoodKept(h, Len(h), s)
  PROVE  WellFormed(s)
<1>1. /\ Len(h) \in Nat /\ Len(s) \in Nat /\ GoodHist(s, Len(log))
      /\ \A j \in 1..Len(h) : h[j] \in 1..Len(log)
      /\ \A j \in 1..Len(s) : s[j] \in 1..Len(log)
  <2>1. h \in Seq(1..Len(log)) /\ s \in Seq(1..Len(log)) /\ GoodHist(s, Len(log))
    BY DEF GoodKept, From, GoodHist
  <2> QED BY <2>1, LenProperties, ElementOfSeq
<1>2. ASSUME NEW k \in 1..Len(s), RoleOf(s[k]) = "tool"
      PROVE  Nearest(SubSeq(s, 1, k)) = log[s[k]].of
  <2> DEFINE p == SubSeq(s, 1, k)
  <2>1. PICK c \in 1..k-1 : /\ s[c] = log[s[k]].of /\ RoleOf(s[c]) = "call"
                            /\ \A j \in c+1..k : RoleOf(s[j]) = "tool"
    BY <1>2 DEF GoodKept, ResultsFollow
  <2>2. 1 \in 1..Len(s)+1 /\ k \in 0..Len(s) /\ 1 <= k + 1 /\ k \in Nat
    BY <1>1
  <2>3. GoodHist(p, Len(log))
    BY <1>1, <2>2, SubSeqGood
  <2>4. Len(p) = k /\ \A j \in 1..k : p[j] = s[j]
    <3>1. s \in Seq(1..Len(log))
      BY <1>1 DEF GoodHist
    <3>2. Len(p) = k - 1 + 1 /\ \A j \in 1..(k - 1 + 1) : p[j] = s[1 + j - 1]
      BY <3>1, <2>2, PartOf
    <3>3. k - 1 + 1 = k /\ \A j \in 1..k : 1 + j - 1 = j
      BY <2>2
    <3> HIDE DEF p
    <3> QED BY <3>2, <3>3
  <2> HIDE DEF p
  <2>5. c \in 1..k /\ \A j \in c+1..k : j \in 1..k
    BY <2>2
  <2>6. RoleOf(p[c]) # "tool" /\ \A j \in c+1..Len(p) : RoleOf(p[j]) = "tool"
    BY <2>1, <2>4, <2>5
  <2>7. Nearest(p) = p[c]
    BY <1>1, <2>3, <2>4, <2>5, <2>6, NearestIs
  <2> USE DEF p
  <2> QED BY <2>1, <2>4, <2>5, <2>7
<1>3. ASSUME NEW k \in 1..Len(s), RoleOf(s[k]) = "call"
      PROVE  Answers(s, k) = k+1..k+log[s[k]].calls
  <2>1. log[s[k]].calls \in Nat /\ k \in Nat /\ s[k] \in 1..Len(log)
    BY <1>1 DEF LogCalls
  <2>2. k + log[s[k]].calls <= Len(s)
    <3>1. ASSUME NEW c \in 2..Len(h), h[c] = s[k], Len(h) < c + log[s[k]].calls PROVE FALSE
      <4>1. c + log[h[c]].calls <= Len(h)
        BY <1>3, <3>1 DEF Closed, RoleOf
      <4> QED BY <4>1, <3>1, <2>1, <1>1
    <3> QED BY <3>1, <1>3 DEF GoodKept, CallsAnswered
  <2>3. ASSUME NEW j \in k+1..k+log[s[k]].calls PROVE j \in Answers(s, k)
    <3>1. j \in k+1..Len(s) /\ j <= k + log[s[k]].calls
      BY <1>1, <2>1, <2>2
    <3>2. log[s[j]].of = s[k]
      BY <1>3, <3>1 DEF GoodKept, CallsFollowed, Within, RoleOf
    <3> QED BY <3>1, <3>2 DEF Answers
  <2>4. ASSUME NEW j \in Answers(s, k) PROVE j \in k+1..k+log[s[k]].calls
    <3>1. j \in k+1..Len(s) /\ log[s[j]].of = s[k]
      BY DEF Answers
    <3>2. j \in 1..Len(s)
      BY <3>1, <1>1
    <3>3. s[k] # 0
      BY <2>1, <1>1
    <3>4. RoleOf(s[j]) = "tool"
      BY <3>1, <3>2, <3>3, <1>1 DEF LogCalls, RoleOf
    <3>5. PICK c \in 1..j-1 : s[c] = s[k] /\ j <= c + log[s[c]].calls
      BY <3>1, <3>2, <3>4 DEF GoodKept, ResultsFollow
    <3>6. c \in 1..Len(s)
      BY <3>2, <1>1
    <3>7. c = k
      <4>1. ~(c < k) /\ ~(k < c)
        BY <3>5, <3>6, <1>1, <2>1 DEF GoodHist, Increasing
      <4> QED BY <4>1, <3>6, <2>1
    <3> QED BY <3>1, <3>5, <3>7, <2>1, <1>1
  <2> QED BY <2>3, <2>4
<1> QED BY <1>2, <1>3 DEF WellFormed

\* The prompt of a history in which no call waits is well formed, however it was cut.
LEMMA SanitizeGood ==
  ASSUME NEW h, Len(log) \in Nat, LogCalls(log), GoodHist(h, Len(log)), Shape(log, h), Closed(log, h)
  PROVE  WellFormed(sanitizeHistoryForProvider(h))
<1>1. h \in Seq(1..Len(log)) /\ Len(h) \in Nat
  BY LenProperties DEF GoodHist
<1>2. PICK f : /\ f[0] = <<>>
               /\ \A n \in 1..Len(h) : f[n] = Into(f[n - 1], h[n])
               /\ sanitizeHistoryForProvider(h) = f[Len(h)]
  BY <1>1, SanitizeIs
<1> DEFINE Q == {n \in 0..Len(h) : GoodKept(h, n, f[n])}
<1>3. GoodKept(h, 0, <<>>)
  <2>1. From(h, 0, <<>>)
    BY DEF From, GoodHist, Increasing
  <2>2. ResultsFollow(<<>>) /\ CallsFollowed(<<>>) /\ CallsAnswered(h, 0, <<>>) /\ LastCall(h, 0, <<>>) /\ NoneYet(h, 0, <<>>)
    BY DEF ResultsFollow, CallsFollowed, CallsAnswered, LastCall, NoneYet
  <2> QED BY <2>1, <2>2 DEF GoodKept
<1>4. 0 \in Q
  BY <1>1, <1>2, <1>3
<1>5. ASSUME NEW n \in 0..Len(h), n \in Q, n < Len(h) PROVE n + 1 \in Q
  <2>1. n \in Nat /\ n + 1 \in 1..Len(h) /\ n + 1 \in 0..Len(h) /\ (n + 1) - 1 = n /\ (n = 0 \/ 1 <= n)
    BY <1>1, <1>5
  <2>2. GoodKept(h, n, f[n]) /\ f[n + 1] = Into(f[n], h[n + 1])
    <3>1. f[n + 1] = Into(f[(n + 1) - 1], h[n + 1])
      BY <1>2, <2>1
    <3> QED BY <3>1, <2>1, <1>5
  <2>3. CASE n = 0
    <3>1. Len(h) >= 1 /\ f[1] = Into(<<>>, h[1]) /\ n + 1 = 1
      BY <2>1, <2>2, <2>3, <1>1, <1>2
    <3>2. GoodKept(h, 1, f[1])
      BY <3>1, <1>3, KeptFirst
    <3> QED BY <2>1, <3>1, <3>2
  <2>4. CASE 1 <= n
    <3>1. Cutting(h, n, f[n])
      BY <2>1, <2>2, <2>4, <1>5 DEF Cutting
    <3>2. GoodKept(h, n + 1, f[n + 1])
      BY <3>1, <2>2, KeptStep
    <3> QED BY <2>1, <3>2
  <2> QED BY <2>1, <2>3, <2>4
<1>6. GoodKept(h, Len(h), f[Len(h)])
  <2>1. Len(h) \in Q
    <3> HIDE DEF Q
    <3>1. \A n \in 0..Len(h) : n \in Q /\ n < Len(h) => n + 1 \in Q
      BY <1>5
    <3>2. Len(h) \in 0..Len(h)
      BY <1>1
    <3> QED BY <1>1, <1>4, <3>1, <3>2, UpTo
  <2> QED BY <2>1
<1>7. WellFormed(f[Len(h)])
  BY <1>6, KeptWellFormed
<1> QED BY <1>2, <1>7

----------------------------------------------------------------------------
\* The last call of a history, if it is still there, waits for some results and no other does.
OpenTail(l, h, call, left) ==
    /\ left \in Nat /\ left >= 1
    /\ \/ OnlyResults(l, h, Len(h))
       \/ \E k \in 2..Len(h) : h[k] = call /\ l[call].role = "call" /\ Len(h) + left = k + l[call].calls

\* A truncation leaves the end of a history.
LEMMA KeptCut ==
  ASSUME NEW max \in Nat, NEW h, GoodHist(h, max)
  PROVE  \E d : CutOf(h, Kept(h), d)
<1>1. h \in Seq(1..max) /\ Len(h) \in Nat /\ Keep \in Nat \ {0}
  BY LenProperties, SessionAssumption DEF GoodHist
<1>2. CASE Len(h) <= Keep
  <2>1. CutOf(h, h, 0)
    BY <1>1 DEF CutOf
  <2> QED BY <2>1, <1>2 DEF Kept
<1>3. CASE ~(Len(h) <= Keep)
  <2> DEFINE a == Len(h) - Keep
             r == SubSeq(h, a + 1, Len(h))
  <2>1. a \in Nat /\ a + 1 \in 1..Len(h)+1 /\ Len(h) \in 0..Len(h) /\ a + 1 <= Len(h) + 1
        /\ Len(h) - (a + 1) + 1 = Keep /\ Len(h) = Keep + a
    BY <1>1, <1>3
  <2>2. Kept(h) = r
    BY <1>3 DEF Kept
  <2> HIDE DEF a
  <2>3. Len(r) = Len(h) - (a + 1) + 1 /\ \A k \in 1..(Len(h) - (a + 1) + 1) : r[k] = h[a + 1 + k - 1]
    BY <1>1, <2>1, PartOf
  <2> HIDE DEF r
  <2>4. Len(r) = Keep /\ \A k \in 2..Keep : r[k] = h[k + a]
    <3>1. ASSUME NEW k \in 2..Keep PROVE r[k] = h[k + a]
      <4>1. k \in 1..Keep /\ a + 1 + k - 1 = k + a
        BY <1>1, <2>1
      <4> QED BY <4>1, <2>1, <2>3
    <3> QED BY <3>1, <2>1, <2>3
  <2>5. CutOf(h, r, a)
    BY <1>1, <2>1, <2>4 DEF CutOf
  <2> QED BY <2>2, <2>5
<1> QED BY <1>2, <1>3

\* Cutting a history keeps its form, and which call waits.
LEMMA CutKeeps ==
  ASSUME NEW l, NEW g, NEW h, NEW d, CutOf(g, h, d), \A k \in 1..Len(g) : l[g[k]].calls \in Nat
  PROVE  /\ Shape(l, g) => Shape(l, h)
         /\ Closed(l, g) => Closed(l, h)
         /\ \A call, left : OpenTail(l, g, call, left) /\ Shape(l, g) => OpenTail(l, h, call, left)
<1>1. /\ Len(h) \in Nat /\ d \in Nat /\ Len(g) = Len(h) + d
      /\ \A k \in 2..Len(h) : h[k] = g[k + d]
  BY DEF CutOf
<1>2. \A k \in 2..Len(h) : k + d \in 2..Len(g)
  BY <1>1
<1>3. ASSUME NEW c \in 2..Len(h), NEW k \in 2..Len(h)
      PROVE  Within(l, h, c, k) <=> Within(l, g, c + d, k + d)
  <2>1. h[c] = g[c + d] /\ l[g[c + d]].calls \in Nat
    <3>1. c + d \in 1..Len(g)
      BY <1>1
    <3> QED BY <3>1, <1>1
  <2>2. k <= c + l[g[c + d]].calls <=> k + d <= c + d + l[g[c + d]].calls
    <3>1. c \in Int /\ k \in Int /\ d \in Int
      BY <1>1
    <3> QED BY ONLY <3>1, <2>1
  <2> QED BY <2>1, <2>2 DEF Within
\* A call that is lost leaves nothing but its results.
<1>4. ASSUME Shape(l, g), NEW c \in 2..Len(g), c <= d + 1, NEW k \in 1..Len(h), Within(l, g, c, k + d)
      PROVE  OnlyResults(l, h, k)
  <2>1. ASSUME NEW j \in 2..k PROVE l[h[j]].role = "tool"
    <3>1. j \in 2..Len(h) /\ j + d \in c+1..Len(g) /\ j + d <= k + d
      BY <1>1, <1>4
    <3>2. l[g[c]].calls \in Nat
      BY <1>1
    <3>3. Within(l, g, c, j + d)
      BY <3>1, <3>2, <1>1, <1>4 DEF Within
    <3> QED BY <3>1, <3>3, <1>1, <1>4 DEF Shape
  <2> QED BY <2>1 DEF OnlyResults
<1>5. ASSUME Shape(l, g) PROVE Shape(l, h)
  <2>1. ASSUME NEW k \in 2..Len(h), l[h[k]].role = "tool"
        PROVE  OnlyResults(l, h, k) \/ \E c \in 2..k-1 : Within(l, h, c, k)
    <3>1. k + d \in 2..Len(g) /\ l[g[k + d]].role = "tool"
      BY <2>1, <1>1, <1>2
    <3>2. CASE OnlyResults(l, g, k + d)
      <4>1. \A j \in 2..k : j \in 2..Len(h) /\ j + d \in 2..k+d
        BY <1>1
      <4> QED BY <4>1, <3>2, <1>1 DEF OnlyResults
    <3>3. CASE \E c \in 2..(k + d)-1 : Within(l, g, c, k + d)
      <4>1. PICK c \in 2..(k + d)-1 : Within(l, g, c, k + d)
        BY <3>3
      <4>2. CASE c <= d + 1
        <5>1. c \in 2..Len(g) /\ k \in 1..Len(h)
          BY <1>1
        <5> QED BY <5>1, <4>1, <4>2, <1>4, <1>5
      <4>3. CASE ~(c <= d + 1)
        <5>1. c - d \in 2..k-1 /\ c - d \in 2..Len(h) /\ (c - d) + d = c
          BY <4>3, <1>1
        <5>2. Within(l, h, c - d, k)
          BY <5>1, <4>1, <1>3
        <5> QED BY <5>1, <5>2
      <4> QED BY <4>2, <4>3
    <3> QED BY <3>1, <3>2, <3>3, <1>5 DEF Shape
  <2>2. ASSUME NEW c \in 2..Len(h), NEW k \in c+1..Len(h), Within(l, h, c, k)
        PROVE  l[h[k]].role = "tool" /\ l[h[k]].of = h[c]
    <3>1. k \in 2..Len(h) /\ c + d \in 2..Len(g) /\ k + d \in (c+d)+1..Len(g)
      BY <1>1
    <3>2. Within(l, g, c + d, k + d)
      BY <3>1, <2>2, <1>3
    <3>3. l[g[k + d]].role = "tool" /\ l[g[k + d]].of = g[c + d]
      BY ONLY <3>1, <3>2, <1>5 DEF Shape
    <3>4. h[k] = g[k + d] /\ h[c] = g[c + d]
      BY <3>1, <1>1
    <3> QED BY ONLY <3>3, <3>4
  <2> QED BY <2>1, <2>2 DEF Shape
<1>6. ASSUME Closed(l, g) PROVE Closed(l, h)
  <2>1. ASSUME NEW c \in 2..Len(h), l[h[c]].role = "call" PROVE c + l[h[c]].calls <= Len(h)
    <3>1. c + d \in 2..Len(g) /\ h[c] = g[c + d] /\ c + d \in 1..Len(g)
      BY <1>1
    <3>2. c + d + l[h[c]].calls <= Len(g) /\ l[h[c]].calls \in Nat
      BY <3>1, <2>1, <1>6 DEF Closed
    <3> QED BY <3>2, <1>1
  <2> QED BY <2>1 DEF Closed
<1>7. ASSUME NEW call, NEW left, OpenTail(l, g, call, left), Shape(l, g) PROVE OpenTail(l, h, call, left)
  <2>1. CASE OnlyResults(l, g, Len(g))
    <3>1. \A j \in 2..Len(h) : j + d \in 2..Len(g)
      BY <1>1
    <3>2. OnlyResults(l, h, Len(h))
      BY <3>1, <2>1, <1>1 DEF OnlyResults
    <3> QED BY <3>2, <1>7 DEF OpenTail
  <2>2. CASE \E k \in 2..Len(g) : g[k] = call /\ l[call].role = "call" /\ Len(g) + left = k + l[call].calls
    <3>1. PICK k \in 2..Len(g) : g[k] = call /\ l[call].role = "call" /\ Len(g) + left = k + l[call].calls
      BY <2>2
    <3>2. left \in Nat /\ left >= 1 /\ l[call].calls \in Nat
      <4>1. k \in 1..Len(g)
        BY <1>1
      <4> QED BY <4>1, <3>1, <1>7 DEF OpenTail
    <3>3. CASE k <= d + 1
      <4>1. CASE Len(h) \in 1..Len(h)
        <5>1. Within(l, g, k, Len(h) + d)
          BY <3>1, <3>2, <1>1 DEF Within
        <5>2. OnlyResults(l, h, Len(h))
          BY <5>1, <4>1, <3>3, <1>4, <1>7
        <5> QED BY <5>2, <3>2 DEF OpenTail
      <4>2. CASE Len(h) = 0
        <5>1. OnlyResults(l, h, Len(h))
          BY <4>2 DEF OnlyResults
        <5> QED BY <5>1, <3>2 DEF OpenTail
      <4> QED BY <4>1, <4>2, <1>1
    <3>4. CASE ~(k <= d + 1)
      <4>1. k - d \in 2..Len(h) /\ (k - d) + d = k /\ Len(h) + left = (k - d) + l[call].calls
        <5>1. Len(h) \in Nat /\ d \in Nat /\ Len(g) = Len(h) + d /\ l[call].calls \in Nat /\ left \in Nat
          BY <1>1, <3>2
        <5>2. k \in 2..Len(g) /\ Len(g) + left = k + l[call].calls
          BY <3>1
        <5> QED BY ONLY <5>1, <5>2, <3>4
      <4>2. h[k - d] = call
        BY <4>1, <3>1, <1>1
      <4>3. \E e \in 2..Len(h) : h[e] = call /\ l[call].role = "call" /\ Len(h) + left = e + l[call].calls
        BY <4>1, <4>2, <3>1
      <4> QED BY <4>3, <3>2 DEF OpenTail
    <3> QED BY <3>3, <3>4
  <2> QED BY <2>1, <2>2, <1>7 DEF OpenTail
<1> QED BY <1>5, <1>6, <1>7

\* The form of a history depends only on its own messages.
LEMMA LogKeeps ==
  ASSUME NEW l, NEW m, NEW h, Len(h) \in Nat, \A k \in 1..Len(h) : m[h[k]] = l[h[k]]
  PROVE  /\ Shape(l, h) => Shape(m, h)
         /\ Closed(l, h) => Closed(m, h)
         /\ \A call, left : OpenTail(l, h, call, left) => OpenTail(m, h, call, left)
<1>1. \A c \in 2..Len(h) : c \in 1..Len(h) /\ m[h[c]] = l[h[c]]
  OBVIOUS
<1>2. ASSUME NEW k \in 1..Len(h) PROVE OnlyResults(l, h, k) => OnlyResults(m, h, k)
  <2>1. \A j \in 2..k : j \in 2..Len(h)
    OBVIOUS
  <2> QED BY <2>1, <1>1 DEF OnlyResults
<1>3. ASSUME NEW c \in 2..Len(h), NEW k PROVE Within(l, h, c, k) <=> Within(m, h, c, k)
  BY <1>1 DEF Within
<1>4. ASSUME Shape(l, h) PROVE Shape(m, h)
  <2>1. ASSUME NEW k \in 2..Len(h), m[h[k]].role = "tool"
        PROVE  OnlyResults(m, h, k) \/ \E c \in 2..k-1 : Within(m, h, c, k)
    <3>1. k \in 1..Len(h) /\ \A c \in 2..k-1 : c \in 2..Len(h)
      OBVIOUS
    <3>2. OnlyResults(l, h, k) \/ \E c \in 2..k-1 : Within(l, h, c, k)
      BY <2>1, <1>1, <1>4 DEF Shape
    <3> QED BY <3>1, <3>2, <1>2, <1>3
  <2>2. ASSUME NEW c \in 2..Len(h), NEW k \in c+1..Len(h), Within(m, h, c, k)
        PROVE  m[h[k]].role = "tool" /\ m[h[k]].of = h[c]
    <3>1. k \in 2..Len(h)
      OBVIOUS
    <3>2. l[h[k]].role = "tool" /\ l[h[k]].of = h[c]
      BY <2>2, <1>3, <1>4 DEF Shape
    <3> QED BY <3>1, <3>2, <1>1
  <2> QED BY <2>1, <2>2 DEF Shape
<1>5. Closed(l, h) => Closed(m, h)
  BY <1>1 DEF Closed
<1>6. ASSUME NEW call, NEW left, OpenTail(l, h, call, left) PROVE OpenTail(m, h, call, left)
  <2>1. CASE OnlyResults(l, h, Len(h))
    <3>1. OnlyResults(m, h, Len(h))
      BY <2>1, <1>1 DEF OnlyResults
    <3> QED BY <3>1, <1>6 DEF OpenTail
  <2>2. CASE \E k \in 2..Len(h) : h[k] = call /\ l[call].role = "call" /\ Len(h) + left = k + l[call].calls
    <3>1. PICK k \in 2..Len(h) : h[k] = call /\ l[call].role = "call" /\ Len(h) + left = k + l[call].calls
      BY <2>2
    <3>2. m[call] = l[call]
      BY <3>1, <1>1
    <3> QED BY <3>1, <3>2, <1>6 DEF OpenTail
  <2> QED BY <2>1, <2>2, <1>6 DEF OpenTail
<1> QED BY <1>4, <1>5, <1>6

\* What a message appended to a history leaves as it was.
LEMMA LongerKeeps ==
  ASSUME NEW l, NEW h, NEW r, NEW i, Len(h) \in Nat, Len(r) = Len(h) + 1, r[Len(h) + 1] = i,
         \A k \in 1..Len(h) : r[k] = h[k],
         Shape(l, h),
         l[i].role = "tool" => \/ OnlyResults(l, h, Len(h))
                               \/ \E c \in 2..Len(h) : Within(l, h, c, Len(h) + 1),
         \A c \in 2..Len(h) : Within(l, h, c, Len(h) + 1) => l[i].role = "tool" /\ l[i].of = h[c]
  PROVE  /\ Shape(l, r)
         /\ OnlyResults(l, h, Len(h)) /\ l[i].role = "tool" => OnlyResults(l, r, Len(r))
<1>1. \A c \in 2..Len(h) : c \in 1..Len(h) /\ r[c] = h[c]
  OBVIOUS
<1>2. \A k \in 2..Len(r) : k \in 2..Len(h) \/ (k = Len(h) + 1 /\ r[k] = i)
  OBVIOUS
<1>3. ASSUME NEW c \in 2..Len(h), NEW k PROVE Within(l, h, c, k) <=> Within(l, r, c, k)
  BY <1>1 DEF Within
<1>4. ASSUME OnlyResults(l, h, Len(h)), l[i].role = "tool" PROVE OnlyResults(l, r, Len(r))
  BY <1>1, <1>2, <1>4 DEF OnlyResults
<1>5. ASSUME NEW k \in 2..Len(r), l[r[k]].role = "tool"
      PROVE  OnlyResults(l, r, k) \/ \E c \in 2..k-1 : Within(l, r, c, k)
  <2>1. CASE k \in 2..Len(h)
    <3>1. \A c \in 2..k : c \in 2..Len(h)
      BY <2>1
    <3>2. \A c \in 2..k-1 : c \in 2..Len(h)
      BY <2>1
    <3>3. OnlyResults(l, h, k) \/ \E c \in 2..k-1 : Within(l, h, c, k)
      BY <2>1, <1>1, <1>5 DEF Shape
    <3>4. OnlyResults(l, h, k) => OnlyResults(l, r, k)
      BY <3>1, <1>1 DEF OnlyResults
    <3> QED BY <3>2, <3>3, <3>4, <1>3
  <2>2. CASE k = Len(h) + 1 /\ r[k] = i
    <3>1. CASE OnlyResults(l, h, Len(h))
      BY <3>1, <2>2, <1>4, <1>5
    <3>2. CASE \E c \in 2..Len(h) : Within(l, h, c, Len(h) + 1)
      <4>1. PICK c \in 2..Len(h) : Within(l, h, c, Len(h) + 1)
        BY <3>2
      <4>2. c \in 2..k-1
        BY <2>2
      <4>3. Within(l, r, c, k)
        BY <4>1, <2>2, <1>3
      <4> QED BY <4>2, <4>3
    <3> QED BY <3>1, <3>2, <2>2, <1>5
  <2> QED BY <2>1, <2>2, <1>2
<1>6. ASSUME NEW c \in 2..Len(r), NEW k \in c+1..Len(r), Within(l, r, c, k)
      PROVE  l[r[k]].role = "tool" /\ l[r[k]].of = r[c]
  <2>1. c \in 2..Len(h) /\ k \in 2..Len(r)
    OBVIOUS
  <2>2. Within(l, h, c, k)
    BY <2>1, <1>3, <1>6
  <2>3. CASE k \in 2..Len(h)
    <3>1. k \in c+1..Len(h)
      BY <2>3
    <3> QED BY <3>1, <2>1, <2>2, <2>3, <1>1 DEF Shape
  <2>4. CASE k = Len(h) + 1 /\ r[k] = i
    BY <2>1, <2>2, <2>4, <1>1
  <2> QED BY <2>1, <2>3, <2>4, <1>2
<1>7. Shape(l, r)
  BY <1>5, <1>6 DEF Shape
<1> QED BY <1>4, <1>7

\* A message of the user, an answer or a call is appended when no call waits.
LEMMA AppendOther ==
  ASSUME NEW l, NEW h, NEW r, NEW i, Len(h) \in Nat, Len(r) = Len(h) + 1, r[Len(h) + 1] = i,
         \A k \in 1..Len(h) : r[k] = h[k] /\ l[h[k]].calls \in Nat,
         Shape(l, h), Closed(l, h), l[i].role # "tool"
  PROVE  /\ Shape(l, r)
         /\ l[i].role # "call" => Closed(l, r)
         /\ \A n \in Nat : l[i].role = "call" /\ l[i].calls = n /\ n >= 1 => OpenTail(l, r, i, n)
<1>1. ASSUME NEW c \in 2..Len(h), Within(l, h, c, Len(h) + 1) PROVE FALSE
  <2>1. c + l[h[c]].calls <= Len(h) /\ l[h[c]].calls \in Nat
    BY <1>1 DEF Closed, Within
  <2> QED BY <2>1, <1>1 DEF Within
<1>2. Shape(l, r)
  BY <1>1, LongerKeeps
<1>3. ASSUME l[i].role # "call" PROVE Closed(l, r)
  <2>1. ASSUME NEW c \in 2..Len(r), l[r[c]].role = "call" PROVE c + l[r[c]].calls <= Len(r)
    <3>1. c \in 2..Len(h) /\ r[c] = h[c] /\ l[h[c]].calls \in Nat
      <4>1. c # Len(h) + 1
        BY <2>1, <1>3
      <4>2. c \in 2..Len(h) /\ c \in 1..Len(h)
        BY <4>1
      <4> QED BY <4>2
    <3>2. c + l[h[c]].calls <= Len(h)
      BY <3>1, <2>1 DEF Closed
    <3> QED BY <3>1, <3>2
  <2> QED BY <2>1 DEF Closed
<1>4. ASSUME NEW n \in Nat, l[i].role = "call", l[i].calls = n, n >= 1 PROVE OpenTail(l, r, i, n)
  <2>1. CASE Len(h) = 0
    <3>1. OnlyResults(l, r, Len(r))
      BY <2>1 DEF OnlyResults
    <3> QED BY <3>1, <1>4 DEF OpenTail
  <2>2. CASE Len(h) # 0
    <3>1. Len(r) \in 2..Len(r) /\ r[Len(r)] = i /\ Len(r) + n = Len(r) + l[i].calls
      BY <2>2, <1>4
    <3> QED BY <3>1, <1>4 DEF OpenTail
  <2> QED BY <2>1, <2>2
<1> QED BY <1>2, <1>3, <1>4

\* A result is appended.
LEMMA AppendResult ==
  ASSUME NEW l, NEW h, NEW r, NEW i, Len(h) \in Nat, Len(r) = Len(h) + 1, r[Len(h) + 1] = i,
         \A k \in 1..Len(h) : r[k] = h[k] /\ l[h[k]].calls \in Nat,
         NEW call, NEW left, Shape(l, h), OpenTail(l, h, call, left), l[i].role = "tool", l[i].of = call
  PROVE  /\ Shape(l, r)
         /\ left = 1 => Closed(l, r)
         /\ left # 1 => OpenTail(l, r, call, left - 1)
<1>1. left \in Nat /\ left >= 1
  BY DEF OpenTail
<1>2. CASE OnlyResults(l, h, Len(h))
  <2>1. \A c \in 2..Len(h) : ~Within(l, h, c, Len(h) + 1)
    BY <1>2 DEF OnlyResults, Within
  <2>2. Shape(l, r) /\ OnlyResults(l, r, Len(r))
    BY <2>1, <1>2, LongerKeeps
  <2>3. Closed(l, r)
    BY <2>2 DEF OnlyResults, Closed
  <2>4. left # 1 => OpenTail(l, r, call, left - 1)
    BY <1>1, <2>2 DEF OpenTail
  <2> QED BY <2>2, <2>3, <2>4
<1>3. CASE \E k \in 2..Len(h) : h[k] = call /\ l[call].role = "call" /\ Len(h) + left = k + l[call].calls
  <2>1. PICK k \in 2..Len(h) : h[k] = call /\ l[call].role = "call" /\ Len(h) + left = k + l[call].calls
    BY <1>3
  <2>2. l[call].calls \in Nat /\ k \in 1..Len(h)
    <3>1. k \in 1..Len(h)
      OBVIOUS
    <3> QED BY <3>1, <2>1
  <2>3. Within(l, h, k, Len(h) + 1)
    BY <2>1, <2>2, <1>1 DEF Within
\* No other call is that close to the end.
  <2>4. ASSUME NEW c \in 2..Len(h), l[h[c]].role = "call", c + l[h[c]].calls > Len(h) PROVE c = k
    <3>1. l[h[c]].calls \in Nat /\ c \in Nat /\ k \in Nat
      <4>1. c \in 1..Len(h)
        OBVIOUS
      <4> QED BY <4>1
    <3>2. CASE c < k
      <4>1. k \in c+1..Len(h) /\ Within(l, h, c, k)
        BY <3>1, <3>2, <2>4 DEF Within
      <4> QED BY <4>1, <2>1 DEF Shape
    <3>3. CASE k < c
      <4>1. c \in k+1..Len(h) /\ Within(l, h, k, c)
        BY <3>1, <3>3, <2>1, <2>2, <1>1 DEF Within
      <4> QED BY <4>1, <2>4 DEF Shape
    <3> QED BY <3>1, <3>2, <3>3
  <2>5. ASSUME NEW c \in 2..Len(h), Within(l, h, c, Len(h) + 1) PROVE c = k
    <3>1. l[h[c]].calls \in Nat
      <4>1. c \in 1..Len(h)
        OBVIOUS
      <4> QED BY <4>1
    <3>2. c + l[h[c]].calls > Len(h)
      BY <3>1, <2>5 DEF Within
    <3> QED BY <3>2, <2>4, <2>5 DEF Within
  <2>6. Shape(l, r)
    <3>1. \A c \in 2..Len(h) : Within(l, h, c, Len(h) + 1) => l[i].role = "tool" /\ l[i].of = h[c]
      BY <2>1, <2>5
    <3> QED BY <3>1, <2>3, LongerKeeps
  <2>7. k \in 2..Len(r) /\ r[k] = call
    BY <2>1, <2>2
  <2>8. ASSUME left = 1 PROVE Closed(l, r)
    <3>1. ASSUME NEW c \in 2..Len(r), l[r[c]].role = "call" PROVE c + l[r[c]].calls <= Len(r)
      <4>1. c \in 2..Len(h) /\ c \in 1..Len(h)
        <5>1. c # Len(h) + 1
          BY <3>1
        <5> QED BY <5>1
      <4>2. r[c] = h[c] /\ l[h[c]].calls \in Nat
        BY <4>1
      <4>3. CASE c = k
        BY <4>3, <2>1, <2>2, <2>7, <2>8
      <4>4. CASE c # k
        <5>1. ~(c + l[h[c]].calls > Len(h))
          BY <4>1, <4>2, <4>4, <3>1, <2>4
        <5> QED BY <5>1, <4>1, <4>2
      <4> QED BY <4>3, <4>4
    <3> QED BY <3>1 DEF Closed
  <2>9. ASSUME left # 1 PROVE OpenTail(l, r, call, left - 1)
    <3>1. left - 1 \in Nat /\ left - 1 >= 1 /\ Len(r) + (left - 1) = k + l[call].calls
      BY <1>1, <2>1, <2>2, <2>9
    <3> QED BY <3>1, <2>1, <2>7 DEF OpenTail
  <2> QED BY <2>6, <2>8, <2>9
<1> QED BY <1>2, <1>3 DEF OpenTail

----------------------------------------------------------------------------
\* As long as turns have not overlapped and no restart has cut one in two, the session and
\* all its copies can only be cut like that, and a call waits only while its turn runs tools.
Cuts ==
    /\ Shape(log, mem.hist) /\ Shape(log, disk.hist) /\ Shape(log, sum.copy.hist)
    /\ \A t \in Thread : Shape(log, thread[t].copy.hist)
    /\ \A t \in Thread : Compressing(t) => Closed(log, thread[t].copy.hist)
    /\ (\A t \in Thread : thread[t].pc # "tools") => Closed(log, mem.hist)
    /\ \A t \in Thread : thread[t].pc = "tools" => OpenTail(log, mem.hist, thread[t].call, thread[t].left)
WellCut == LogCalls(log) /\ (~mixed /\ ~torn => Cuts)

\* The messages of a history are in the log.
LEMMA Numbered ==
  ASSUME Len(log) \in Nat, LogCalls(log), NEW h, GoodHist(h, Len(log))
  PROVE  Len(h) \in Nat /\ \A k \in 1..Len(h) : h[k] \in 1..Len(log) /\ log[h[k]].calls \in Nat
<1>1. h \in Seq(1..Len(log))
  BY DEF GoodHist
<1> QED BY <1>1, LenProperties, ElementOfSeq DEF LogCalls

\* The empty history.
LEMMA EmptyShape == \A l : Shape(l, Empty.hist) /\ Closed(l, Empty.hist)
<1>1. Empty.hist = <<>> /\ Len(<<>>) = 0
  BY DEF Empty
<1>2. \A k : k \notin 2..0
  OBVIOUS
<1> QED BY <1>1, <1>2 DEF Shape, Closed

\* The histories and the log are good.
LEMMA CutGood ==
  ASSUME IInv
  PROVE  /\ Len(log) \in Nat /\ GoodHist(mem.hist, Len(log)) /\ GoodHist(disk.hist, Len(log))
         /\ GoodHist(sum.copy.hist, Len(log))
         /\ \A t \in Thread : GoodHist(thread[t].copy.hist, Len(log))
BY DEF IInv, GoodSession, GoodSum, GoodThread

\* A message is appended to the log and to the session.
Added(role, call, n) ==
    /\ LogCalls(log') /\ log'[Len(log) + 1] = [role |-> role, of |-> call, calls |-> n]
    /\ \A h : GoodHist(h, Len(log)) =>
         /\ Shape(log, h) => Shape(log', h)
         /\ Closed(log, h) => Closed(log', h)
         /\ \A c, left : OpenTail(log, h, c, left) => OpenTail(log', h, c, left)
    /\ Len(mem.hist) \in Nat /\ Len(mem'.hist) = Len(mem.hist) + 1
    /\ mem'.hist[Len(mem.hist) + 1] = Len(log) + 1
    /\ \A k \in 1..Len(mem.hist) : mem'.hist[k] = mem.hist[k] /\ log'[mem.hist[k]].calls \in Nat
    /\ sum'.copy = sum.copy

LEMMA AddCuts ==
  ASSUME IInv, LogCalls(log), NEW role \in Role, NEW call, NEW n \in Nat, role = "call" => n >= 1,
         role # "tool" => call = 0, AddFullMessage(role, call, n)
  PROVE  Added(role, call, n)
<1> DEFINE x == [role |-> role, of |-> call, calls |-> n]
<1>1. PICK S : log \in Seq(S)
  BY DEF IInv
<1>2. log' = Append(log, x) /\ log \in Seq(S \cup {x}) /\ Len(log) \in Nat
  BY <1>1 DEF AddFullMessage, IInv
<1>3. x.role = role /\ x.of = call /\ x.calls = n
  OBVIOUS
<1> HIDE DEF x
<1>4. /\ Len(log') = Len(log) + 1 /\ log'[Len(log) + 1] = x
      /\ \A i \in 1..Len(log) : log'[i] = log[i]
  BY <1>2, AppendProperties
<1>5. LogCalls(log')
  <2>1. \A i \in 1..Len(log') : i \in 1..Len(log) \/ i = Len(log) + 1
    BY <1>2, <1>4
  <2> QED BY <2>1, <1>3, <1>4 DEF LogCalls
<1>6. ASSUME NEW h, GoodHist(h, Len(log))
      PROVE  /\ Shape(log, h) => Shape(log', h)
             /\ Closed(log, h) => Closed(log', h)
             /\ \A c, left : OpenTail(log, h, c, left) => OpenTail(log', h, c, left)
  <2>1. Len(h) \in Nat /\ \A k \in 1..Len(h) : h[k] \in 1..Len(log)
    BY <1>2, <1>6, Numbered
  <2>2. \A k \in 1..Len(h) : log'[h[k]] = log[h[k]]
    BY ONLY <2>1, <1>4
  <2> QED BY <2>1, <2>2, LogKeeps
<1>7. /\ Len(mem.hist) \in Nat /\ \A k \in 1..Len(mem.hist) : mem.hist[k] \in 1..Len(log) /\ log[mem.hist[k]].calls \in Nat
      /\ mem.hist \in Seq(1..Len(log)+1) /\ Len(log) + 1 \in 1..Len(log)+1
  <2>1. GoodHist(mem.hist, Len(log))
    BY CutGood
  <2>2. Len(mem.hist) \in Nat /\ \A k \in 1..Len(mem.hist) : mem.hist[k] \in 1..Len(log) /\ log[mem.hist[k]].calls \in Nat
    BY <2>1, <1>2, Numbered
  <2>3. Len(log) \in Nat /\ mem.hist \in Seq(1..Len(log))
    BY <2>1, <1>2 DEF GoodHist
  <2>4. mem.hist \in Seq(1..Len(log)+1) /\ Len(log) + 1 \in 1..Len(log)+1
    BY ONLY <2>3
  <2> QED BY <2>2, <2>4
<1>8. mem'.hist = Append(mem.hist, Len(log) + 1) /\ sum'.copy = sum.copy
  BY Records DEF AddFullMessage
<1>9. /\ Len(mem'.hist) = Len(mem.hist) + 1 /\ mem'.hist[Len(mem.hist) + 1] = Len(log) + 1
      /\ \A k \in 1..Len(mem.hist) : mem'.hist[k] = mem.hist[k]
  BY <1>7, <1>8, AppendProperties
<1>10. \A k \in 1..Len(mem.hist) : log'[mem.hist[k]].calls \in Nat
  BY <1>4, <1>7
<1> USE DEF x
<1>11. log'[Len(log) + 1] = [role |-> role, of |-> call, calls |-> n]
  BY <1>4
<1> HIDE DEF x
<1> QED BY <1>5, <1>6, <1>7, <1>8, <1>9, <1>10, <1>11 DEF Added

\* A turn appends a message.
LEMMA AppendCuts ==
  ASSUME IInv, Complete, Cuts, LogCalls(log), ~mixed', NEW t \in Thread,
         Begin(t) \/ ToolResult(t) \/ Answer(t) \/ \E n \in 1..MaxCalls : CallTools(t, n)
  PROVE  Cuts'
<1>1. /\ disk' = disk /\ \A s \in Thread : thread'[s].copy = thread[s].copy \/ thread'[s].copy = Empty
      /\ \A s \in Thread : ~Compressing(s)'
      /\ \A s \in Thread : s # t => thread'[s] = thread[s] /\ thread[s].pc = "idle"
  <2>1. disk' = disk /\ \A s \in Thread : s # t => thread'[s] = thread[s]
    BY Records DEF Begin, ToolResult, Answer, CallTools
  <2>2. /\ thread'[t].copy = thread[t].copy \/ thread'[t].copy = Empty
        /\ thread'[t].pc \in {"llm", "tools", "save"}
    <3>1. CASE Begin(t)
      BY <3>1, Records DEF Begin
    <3>2. CASE ToolResult(t)
      BY <3>2, Records DEF ToolResult
    <3>3. CASE Answer(t)
      <4>1. thread'[t] = [Idle EXCEPT !.pc = "save"]
        BY <3>3, Records DEF Answer
      <4> QED BY <4>1 DEF Idle
    <3>4. CASE \E n \in 1..MaxCalls : CallTools(t, n)
      <4>1. PICK n \in 1..MaxCalls : thread' = [thread EXCEPT ![t].pc = "tools", ![t].call = Len(log) + 1,
                                                              ![t].left = n, ![t].iter = @ + 1, ![t].retry = 0]
        BY <3>4 DEF CallTools
      <4>2. thread'[t] = [thread[t] EXCEPT !.pc = "tools", !.call = Len(log) + 1, !.left = n,
                                           !.iter = thread[t].iter + 1, !.retry = 0]
        BY <4>1, Records
      <4> QED BY <4>2, Records
    <3> QED BY <3>1, <3>2, <3>3, <3>4
  <2>3. \A s \in Thread : s # t => thread[s].pc = "idle"
    BY Zenon DEF Complete, OneTurn, Active, Begin, ToolResult, Answer, CallTools, AtModel
  <2> QED BY <2>1, <2>2, <2>3 DEF Compressing
<1>2. ASSUME NEW role \in Role, NEW call, NEW n \in Nat, role = "call" => n >= 1,
             role # "tool" => call = 0, AddFullMessage(role, call, n)
      PROVE  /\ Shape(log', disk'.hist) /\ Shape(log', sum'.copy.hist)
             /\ \A s \in Thread : Shape(log', thread'[s].copy.hist)
  <2>1. Added(role, call, n)
    BY <1>2, AddCuts
  <2> QED BY <1>1, <2>1, CutGood, EmptyShape DEF Cuts, Added
<1>3. thread[t].pc # "tools" => Closed(log, mem.hist)
  BY <1>1 DEF Cuts
<1>4. ASSUME NEW role \in {"user", "assistant"}, AddFullMessage(role, 0, 0), thread[t].pc # "tools", thread'[t].pc # "tools"
      PROVE  Cuts'
  <2>1. role \in Role /\ role # "tool" /\ role # "call" /\ 0 \in Nat
    BY DEF Role
  <2>2. Added(role, 0, 0)
    BY <2>1, <1>4, AddCuts
  <2>3. Shape(log', mem.hist) /\ Closed(log', mem.hist) /\ log'[Len(log) + 1].role = role
    BY <2>2, <1>3, <1>4, CutGood DEF Cuts, Added
  <2>4. Shape(log', mem'.hist) /\ Closed(log', mem'.hist)
    BY <2>1, <2>2, <2>3, AppendOther DEF Added
  <2> QED BY <2>1, <2>4, <1>1, <1>2, <1>4 DEF Cuts
<1>5. CASE Begin(t)
  BY <1>5, <1>4, Records DEF Begin, Active
<1>6. CASE Answer(t)
  BY <1>6, <1>4, Records, IdleScalars DEF Answer
<1>7. ASSUME NEW n \in 1..MaxCalls, CallTools(t, n) PROVE Cuts'
  <2>1. /\ AddFullMessage("call", 0, n) /\ thread[t].pc # "tools" /\ n \in Nat /\ n >= 1
        /\ thread'[t].pc = "tools" /\ thread'[t].call = Len(log) + 1 /\ thread'[t].left = n
    <3>1. n \in Nat /\ n >= 1 /\ MaxCalls \in Nat
      BY SessionAssumption
    <3>2. thread[t].pc # "tools" /\ AddFullMessage("call", 0, n)
      BY <1>7 DEF CallTools, AtModel
    <3>3. thread'[t] = [thread[t] EXCEPT !.pc = "tools", !.call = Len(log) + 1, !.left = n,
                                         !.iter = thread[t].iter + 1, !.retry = 0]
      BY <1>7, Records DEF CallTools
    <3> QED BY <3>1, <3>2, <3>3, Records
  <2>2. "call" \in Role /\ Added("call", 0, n)
    <3>1. "call" \in Role
      BY DEF Role
    <3> QED BY <3>1, <2>1, AddCuts
  <2>3. /\ Shape(log', mem.hist) /\ Closed(log', mem.hist)
        /\ log'[Len(log) + 1].role = "call" /\ log'[Len(log) + 1].calls = n
    BY <2>1, <2>2, <1>3, CutGood DEF Cuts, Added
  <2>4. Shape(log', mem'.hist) /\ OpenTail(log', mem'.hist, Len(log) + 1, n)
    <3> DEFINE i == Len(log) + 1
    <3>1. /\ Len(mem.hist) \in Nat /\ Len(mem'.hist) = Len(mem.hist) + 1 /\ mem'.hist[Len(mem.hist) + 1] = i
          /\ \A k \in 1..Len(mem.hist) : mem'.hist[k] = mem.hist[k] /\ log'[mem.hist[k]].calls \in Nat
          /\ log'[i].role = "call" /\ log'[i].calls = n
      BY <2>2, <2>3 DEF Added
    <3> HIDE DEF i
    <3>2. log'[i].role # "tool"
      BY <3>1
    <3>3. Shape(log', mem'.hist) /\ OpenTail(log', mem'.hist, i, n)
      BY <3>1, <3>2, <2>1, <2>3, AppendOther
    <3> QED BY <3>1, <3>3 DEF i
  <2> QED BY <2>1, <2>2, <2>4, <1>1, <1>2 DEF Cuts
<1>8. CASE ToolResult(t)
  <2> DEFINE call == thread[t].call
             left == thread[t].left
  <2>1. /\ thread[t].pc = "tools" /\ AddFullMessage("tool", call, 0)
        /\ left = 1 => thread'[t].pc = "llm"
        /\ left # 1 => thread'[t].pc = "tools" /\ thread'[t].call = call /\ thread'[t].left = left - 1
    BY <1>8, Records DEF ToolResult
  <2>2. Added("tool", call, 0)
    <3>1. "tool" \in Role /\ 0 \in Nat
      BY DEF Role
    <3> QED BY <3>1, <2>1, AddCuts
  <2>3. /\ Shape(log', mem.hist) /\ OpenTail(log', mem.hist, call, left)
        /\ log'[Len(log) + 1].role = "tool" /\ log'[Len(log) + 1].of = call
    BY <2>1, <2>2, CutGood DEF Cuts, Added
  <2> HIDE DEF call, left
  <2>4. /\ Shape(log', mem'.hist)
        /\ left = 1 => Closed(log', mem'.hist)
        /\ left # 1 => OpenTail(log', mem'.hist, call, left - 1)
    <3> DEFINE i == Len(log) + 1
    <3>1. /\ Len(mem.hist) \in Nat /\ Len(mem'.hist) = Len(mem.hist) + 1 /\ mem'.hist[Len(mem.hist) + 1] = i
          /\ \A k \in 1..Len(mem.hist) : mem'.hist[k] = mem.hist[k] /\ log'[mem.hist[k]].calls \in Nat
          /\ log'[i].role = "tool" /\ log'[i].of = call
      BY <2>2, <2>3 DEF Added
    <3> HIDE DEF i
    <3> QED BY ONLY <3>1, <2>3, AppendResult, ZenonT(30)
  <2>5. /\ Shape(log', disk'.hist) /\ Shape(log', sum'.copy.hist)
        /\ \A s \in Thread : Shape(log', thread'[s].copy.hist)
    <3>1. "tool" \in Role /\ 0 \in Nat
      BY DEF Role
    <3> QED BY <3>1, <2>1, <1>2
  <2>6. \A s \in Thread : s # t => thread'[s].pc = "idle"
    BY <1>1
  <2>7. CASE left = 1
    <3>1. \A s \in Thread : thread'[s].pc # "tools"
      BY <2>1, <2>6, <2>7
    <3> QED BY <3>1, <2>4, <2>5, <2>7, <1>1 DEF Cuts
  <2>8. CASE left # 1
    <3>1. thread'[t].pc = "tools" /\ OpenTail(log', mem'.hist, thread'[t].call, thread'[t].left)
      BY <2>1, <2>4, <2>8
    <3>2. \A s \in Thread : thread'[s].pc = "tools" => s = t
      BY <2>6
    <3> QED BY <3>1, <3>2, <2>4, <2>5, <1>1 DEF Cuts
  <2> QED BY <2>7, <2>8
<1> QED BY <1>5, <1>6, <1>7, <1>8

\* The other steps of a turn.
LEMMA TurnCuts ==
  ASSUME IInv, Complete, Cuts, LogCalls(log), NEW t \in Thread,
         \/ FailTurn(t) \/ MaybeSummarize(t) \/ CompressRead(t) \/ CompressWrite(t)
         \/ SaveSnapshot(t, "csave", "crename") \/ SaveRename(t, "crename", "rebuilt")
         \/ SaveSnapshot(t, "save", "rename") \/ SaveRename(t, "rename", "summarize")
  PROVE  Cuts'
<1>1. log' = log /\ sum'.copy \in {sum.copy, Empty}
  BY Records, IdleScalars DEF FailTurn, MaybeSummarize, CompressRead, CompressWrite, SaveSnapshot, SaveRename
<1>2. /\ thread[t].pc \notin {"idle", "tools"} /\ thread'[t].pc # "tools"
      /\ \A s \in Thread : s # t => thread'[s] = thread[s]
  BY Records, IdleScalars DEF FailTurn, MaybeSummarize, CompressRead, CompressWrite, SaveSnapshot, SaveRename, AtModel
<1>3. \A s \in Thread : s # t => thread[s].pc = "idle"
  BY <1>2 DEF Complete, OneTurn, Active
<1>4. (\A s \in Thread : thread'[s].pc # "tools") /\ Closed(log, mem.hist)
  BY <1>2, <1>3 DEF Cuts
<1>5. /\ thread'[t].copy \in {thread[t].copy, mem, Empty} /\ disk' \in {disk, thread[t].copy}
      /\ thread'[t].pc = "compress" => thread'[t].copy = mem
  BY Records, IdleScalars
     DEF FailTurn, MaybeSummarize, CompressRead, CompressWrite, SaveSnapshot, SaveRename
<1>6. Shape(log', disk'.hist) /\ Shape(log', sum'.copy.hist) /\ \A s \in Thread : Shape(log', thread'[s].copy.hist)
  BY <1>1, <1>2, <1>5, EmptyShape DEF Cuts
<1>7. \A s \in Thread : Compressing(s)' => Closed(log', thread'[s].copy.hist)
  <2>1. \A s \in Thread : Compressing(s)' => s = t
    BY <1>2, <1>3 DEF Compressing
  <2> QED BY <2>1, <1>1, <1>4, <1>5 DEF Compressing
<1>8. Shape(log', mem'.hist) /\ Closed(log', mem'.hist)
  <2>1. CASE CompressWrite(t)
    <3> DEFINE h == thread[t].copy.hist
    <3>1. mem'.hist = Compressed(h) /\ Compressing(t)
      BY <2>1, Records DEF CompressWrite, Compressing
    <3>2. GoodHist(h, Len(log)) /\ Len(h) >= 2 /\ Len(log) \in Nat
      BY <3>1 DEF IInv, GoodThread, GoodSession, Compressing
    <3>3. Shape(log, h) /\ Closed(log, h)
      BY <3>1 DEF Cuts
    <3> HIDE DEF h
    <3>4. \A k \in 1..Len(h) : log[h[k]].calls \in Nat
      BY <3>2, Numbered
    <3>5. PICK d : CutOf(h, Compressed(h), d)
      BY <3>2, CompressedGood
    <3>6. Shape(log, Compressed(h)) /\ Closed(log, Compressed(h))
      BY <3>3, <3>4, <3>5, CutKeeps
    <3> QED BY <3>1, <3>6, <1>1
  <2>2. CASE ~CompressWrite(t)
    <3>1. mem' = mem
      BY <2>2 DEF FailTurn, MaybeSummarize, CompressRead, SaveSnapshot, SaveRename
    <3> QED BY <3>1, <1>1, <1>4 DEF Cuts
  <2> QED BY <2>1, <2>2
<1> QED BY <1>4, <1>6, <1>7, <1>8 DEF Cuts

\* The steps of the summariser.
LEMMA SummariserCuts ==
  ASSUME IInv, Cuts, LogCalls(log), Summarise
  PROVE  Cuts'
<1>1. log' = log /\ thread' = thread
  BY DEF Summarise, SumRead, SetSummary, Truncate, SumSnapshot, SumRename
<1>2. /\ disk' \in {disk, sum.copy} /\ sum'.copy \in {sum.copy, mem, Empty}
      /\ mem'.hist = mem.hist \/ mem'.hist = Kept(mem.hist)
  <2>1. CASE SumRead
    BY <2>1, Records, IdleScalars DEF SumRead
  <2>2. CASE SetSummary
    <3>1. PICK text : IF text.any
                      THEN mem' = [mem EXCEPT !.sum = text.of] /\ sum' = [sum EXCEPT !.pc = "truncate"]
                      ELSE sum' = NoSum /\ UNCHANGED mem
      BY <2>2 DEF SetSummary
    <3>2. disk' = disk
      BY <2>2 DEF SetSummary
    <3> QED BY <3>1, <3>2, Records, IdleScalars
  <2>3. CASE Truncate
    BY <2>3, Records DEF Truncate, NoSum
  <2>4. CASE SumSnapshot
    BY <2>4, Records DEF SumSnapshot
  <2>5. CASE SumRename
    BY <2>5, Records, IdleScalars DEF SumRename
  <2> QED BY <2>1, <2>2, <2>3, <2>4, <2>5 DEF Summarise
<1>4. /\ Shape(log, mem'.hist)
      /\ Closed(log, mem.hist) => Closed(log, mem'.hist)
      /\ \A call, left : OpenTail(log, mem.hist, call, left) => OpenTail(log, mem'.hist, call, left)
  <2> DEFINE h == mem.hist
  <2>1. GoodHist(h, Len(log)) /\ Len(log) \in Nat /\ Shape(log, h)
    BY CutGood DEF Cuts
  <2> HIDE DEF h
  <2>2. \A k \in 1..Len(h) : log[h[k]].calls \in Nat
    BY <2>1, Numbered
  <2>3. PICK d : CutOf(h, Kept(h), d)
    BY <2>1, KeptCut
  <2>4. /\ Shape(log, Kept(h))
        /\ Closed(log, h) => Closed(log, Kept(h))
        /\ \A call, left : OpenTail(log, h, call, left) => OpenTail(log, Kept(h), call, left)
    BY <2>1, <2>2, <2>3, CutKeeps
  <2>5. mem'.hist = h \/ mem'.hist = Kept(h)
    BY <1>2 DEF h
  <2>6. /\ Shape(log, mem'.hist)
        /\ Closed(log, h) => Closed(log, mem'.hist)
        /\ \A call, left : OpenTail(log, h, call, left) => OpenTail(log, mem'.hist, call, left)
    BY <2>1, <2>4, <2>5
  <2> QED BY <2>6 DEF h
<1> QED BY <1>1, <1>2, <1>4, EmptyShape DEF Cuts, Compressing

\* A restart that finds each call with all its results finds no call that waits.
LEMMA AnsweredClosed ==
  ASSUME Len(log) \in Nat, LogCalls(log), NEW h, GoodHist(h, Len(log)), Shape(log, h), ~Unanswered(h)
  PROVE  Closed(log, h)
<1>1. Len(h) \in Nat /\ \A k \in 1..Len(h) : h[k] \in 1..Len(log) /\ log[h[k]].calls \in Nat
  BY Numbered
<1>2. ASSUME NEW c \in 2..Len(h), log[h[c]].role = "call", ~(c + log[h[c]].calls <= Len(h)) PROVE FALSE
  <2> DEFINE R == {j \in c+1..Len(h) : log[h[j]].of = h[c]}
             n == log[h[c]].calls
  <2>1. c \in 1..Len(h) /\ n \in Nat /\ c + 1 \in Int /\ Len(h) \in Int
    BY <1>1
  <2>2. IsFiniteSet(c+1..Len(h)) /\ Cardinality(c+1..Len(h)) = IF c + 1 > Len(h) THEN 0 ELSE Len(h) - (c + 1) + 1
    BY <2>1, FS_Interval
  <2>3. R \in SUBSET (c+1..Len(h))
    OBVIOUS
  <2> HIDE DEF R
  <2>4. Cardinality(R) <= Cardinality(c+1..Len(h)) /\ Cardinality(R) \in Nat
    BY <2>2, <2>3, FS_Subset, FS_CardinalityType
  <2>5. Cardinality(R) < n
    BY <2>1, <2>2, <2>4, <1>1, <1>2
  <2> USE DEF R
  <2>6. Unanswered(h)
    BY <2>1, <2>5, <1>2 DEF Unanswered, RoleOf
  <2> QED BY <2>6
<1> QED BY <1>2 DEF Closed

LEMMA CrashCuts ==
  ASSUME IInv, Cuts, LogCalls(log), Crash, ~torn'
  PROVE  Cuts'
<1>1. /\ log' = log /\ mem' = disk /\ disk' = disk /\ sum'.copy = Empty /\ ~Unanswered(disk.hist)
      /\ \A t \in Thread : thread'[t].pc = "idle" /\ thread'[t].copy = Empty
  BY IdleScalars DEF Crash
<1>2. Closed(log, disk.hist)
  BY <1>1, CutGood, AnsweredClosed DEF Cuts
<1> QED BY <1>1, <1>2, EmptyShape DEF Cuts, Compressing

\* The actions that append say what they append.
LEMMA LogCallsStep == IInv /\ WellCut /\ [Next]_vars => LogCalls(log)'
<1> SUFFICES ASSUME IInv, LogCalls(log), [Next]_vars PROVE LogCalls(log')
  BY DEF WellCut
<1>1. "user" \in Role /\ "assistant" \in Role /\ "call" \in Role /\ "tool" \in Role /\ 0 \in Nat
  BY DEF Role
<1>2. CASE log' = log
  BY <1>2
<1>3. ASSUME NEW t \in Thread, Begin(t) \/ ToolResult(t) \/ Answer(t) PROVE LogCalls(log')
  <2>1. \/ AddFullMessage("user", 0, 0) \/ AddFullMessage("tool", thread[t].call, 0)
        \/ AddFullMessage("assistant", 0, 0)
    BY <1>3 DEF Begin, ToolResult, Answer
  <2>2. Added("user", 0, 0) \/ Added("tool", thread[t].call, 0) \/ Added("assistant", 0, 0)
    BY <2>1, <1>1, AddCuts
  <2> QED BY <2>2 DEF Added
<1>4. ASSUME NEW t \in Thread, NEW n \in 1..MaxCalls, CallTools(t, n) PROVE LogCalls(log')
  <2>1. n \in Nat /\ n >= 1
    OBVIOUS
  <2>2. Added("call", 0, n)
    BY <2>1, <1>1, <1>4, AddCuts DEF CallTools
  <2> QED BY <2>2 DEF Added
<1>5. \/ log' = log
      \/ \E t \in Thread : Begin(t) \/ ToolResult(t) \/ Answer(t) \/ \E n \in 1..MaxCalls : CallTools(t, n)
  BY DEF Next, Step, Summarise, vars, FailTurn, CompressRead, CompressWrite, SaveSnapshot, SaveRename,
         MaybeSummarize, SumRead, SetSummary, Truncate, SumSnapshot, SumRename, Crash
<1> QED BY <1>2, <1>3, <1>4, <1>5

LEMMA WellCutStep == IInv /\ NothingLeftOut /\ WellCut /\ [Next]_vars => WellCut'
<1> SUFFICES ASSUME IInv, NothingLeftOut, WellCut, [Next]_vars, ~mixed', ~torn' PROVE Cuts'
  BY LogCallsStep DEF WellCut
<1>1. CASE UNCHANGED vars
  <2>1. Cuts
    BY <1>1 DEF WellCut, vars
  <2> QED BY <1>1, <2>1 DEF vars, Cuts, Compressing
<1>2. LogCalls(log)
  BY DEF WellCut
<1>3. CASE Summarise \/ Crash
  <2>1. ~mixed /\ ~torn
    <3>1. CASE Summarise
      <4>1. mixed' = mixed /\ torn' = torn
        BY <3>1 DEF Summarise, SumRead, SetSummary, Truncate, SumSnapshot, SumRename, flags
      <4> QED BY <4>1
    <3>2. CASE Crash
      BY <3>2 DEF Crash
    <3> QED BY <1>3, <3>1, <3>2
  <2> QED BY <1>2, <1>3, <2>1, SummariserCuts, CrashCuts DEF WellCut
<1>4. ASSUME NEW t \in Thread, Step(t) PROVE Cuts'
  <2>1. \/ Begin(t) \/ ToolResult(t) \/ Answer(t) \/ (\E n \in 1..MaxCalls : CallTools(t, n))
        \/ FailTurn(t) \/ MaybeSummarize(t) \/ CompressRead(t) \/ CompressWrite(t)
        \/ SaveSnapshot(t, "csave", "crename") \/ SaveRename(t, "crename", "rebuilt")
        \/ SaveSnapshot(t, "save", "rename") \/ SaveRename(t, "rename", "summarize")
    BY <1>4 DEF Step
  <2>2. ~mixed /\ ~torn
    <3>1. torn' = torn
      BY <2>1 DEF Begin, ToolResult, Answer, CallTools, FailTurn, MaybeSummarize, CompressRead, CompressWrite,
                  SaveSnapshot, SaveRename, flags
    <3>2. CASE Begin(t)
      <4>1. mixed' = (mixed \/ \E s \in Thread : Active(s))
        BY <3>2 DEF Begin
      <4> QED BY <3>1, <4>1
    <3>3. CASE ~Begin(t)
      <4>1. mixed' = mixed
        BY <2>1, <3>3 DEF ToolResult, Answer, CallTools, FailTurn, MaybeSummarize, CompressRead, CompressWrite,
                          SaveSnapshot, SaveRename, flags
      <4> QED BY <3>1, <4>1
    <3> QED BY <3>2, <3>3
  <2> QED BY <1>2, <2>1, <2>2, AppendCuts, TurnCuts DEF NothingLeftOut, WellCut
<1> QED BY <1>1, <1>3, <1>4 DEF Next

\* The history sent to the provider is well formed, each result with its call and each call with
\* all its results, whatever truncations, compressions, late summaries, failed saves and crashes
\* have cut it, for any limits: as long as turns of the session do not overlap and no restart
\* has cut a turn in two.
THEOREM PromptWellFormedHolds == Spec => []PromptWellFormed
<1>1. Init => SumsKnown /\ IInv /\ NothingLeftOut /\ WellCut
  <2> SUFFICES ASSUME Init PROVE NothingLeftOut /\ WellCut
    BY InitTypes, InitIInv
  <2>1. /\ 1..Len(log) = {} /\ sum.pc = "idle" /\ \A t \in Thread : thread[t].pc = "idle"
        /\ mem = Empty /\ disk = Empty /\ sum.copy = Empty /\ \A t \in Thread : thread[t].copy = Empty
    BY DEF Init, Idle, NoSum
  <2>2. NothingLeftOut
    BY <2>1 DEF NothingLeftOut, Complete, OneTurn, Active, AllBy, CopiesCovered, CoveredBy, Compression,
                Compressing, Summary
  <2>3. WellCut
    BY <2>1, EmptyShape DEF WellCut, LogCalls, Cuts, Compressing
  <2> QED BY <2>2, <2>3
<1>2. (SumsKnown /\ IInv /\ NothingLeftOut /\ WellCut) /\ [Next]_vars
         => (SumsKnown /\ IInv /\ NothingLeftOut /\ WellCut)'
  BY SumsStep, NextIInv, LeftOutStep, WellCutStep
<1>3. IInv /\ WellCut => PromptWellFormed
  <2> SUFFICES ASSUME IInv, WellCut, ~mixed, ~torn, \A t \in Thread : thread[t].pc # "tools"
               PROVE  WellFormed(sanitizeHistoryForProvider(mem.hist))
    BY DEF PromptWellFormed
  <2>1. LogCalls(log) /\ Shape(log, mem.hist) /\ Closed(log, mem.hist)
    BY DEF WellCut, Cuts
  <2> QED BY <2>1, CutGood, SanitizeGood
<1> QED BY <1>1, <1>2, <1>3, PTL DEF Spec

=============================================================================
