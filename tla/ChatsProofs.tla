----------------------------- MODULE ChatsProofs -----------------------------
(***************************************************************************)
(* Proofs about the indicators of the chats and the four channels, for any *)
(* chats, messages, connections, clients and bounds: type correctness and  *)
(* the safety properties of each, and that they hold as well where MCChats *)
(* puts the five side by side.                                             *)
(***************************************************************************)
EXTENDS MCChats, NaturalsInduction, WellFoundedInduction, FiniteSetTheorems, TLAPS

(***************************************************************************)
(* Sequences                                                               *)
(***************************************************************************)

\* A set of natural numbers that is not empty has a least element: every proof by induction
\* below looks for the least number that fails.
LEMMA Least ==
  ASSUME NEW T \in SUBSET Nat, T # {}
  PROVE  \E x \in T : \A y \in T : x <= y
<1>1. IsWellFoundedOn(OpToRel(<, Nat), Nat)
  BY NatLessThanWellFounded
<1>2. PICK x \in T : \A y \in T : ~(<<y, x>> \in OpToRel(<, Nat))
  BY <1>1, WFMin
<1>3. \A y \in T : ~(y < x)
  BY <1>2 DEF OpToRel
<1> QED BY <1>3

\* Induction over a set: zero is in it, and with a number its successor up to N.
LEMMA Induction ==
  ASSUME NEW N \in Nat, NEW P, 0 \in P, \A n \in 0..N : n \in P /\ n < N => n + 1 \in P
  PROVE  \A n \in 0..N : n \in P
<1> DEFINE T == {n \in 0..N : n \notin P}
<1> SUFFICES ASSUME T # {} PROVE FALSE
  OBVIOUS
<1>1. T \in SUBSET Nat
  OBVIOUS
<1>2. PICK x \in T : \A y \in T : x <= y
  BY <1>1, Least
<1>3. x # 0 /\ x \in 0..N /\ x \notin P
  BY <1>2
<1>4. x - 1 \in 0..N /\ x - 1 \in P /\ x - 1 < N /\ (x - 1) + 1 = x
  BY <1>2, <1>3
<1> QED BY <1>3, <1>4

\* Without is computed front to back.
LEMMA WithoutIs ==
  ASSUME NEW q, Len(q) \in Nat, NEW drop
  PROVE  \E f : /\ f[0] = <<>>
                /\ \A n \in 1..Len(q) : f[n] = IF q[n] \in drop THEN f[n - 1] ELSE Append(f[n - 1], q[n])
                /\ Without(q, drop) = f[Len(q)]
<1> DEFINE Body(f, n) == IF n = 0 THEN <<>>
                         ELSE IF q[n] \in drop THEN f[n - 1] ELSE Append(f[n - 1], q[n])
           P == {N \in 0..Len(q) : \E f : f = [n \in 0..N |-> Body(f, n)]}
<1>1. 0 \in P
  <2>1. [n \in 0..0 |-> <<>>] = [n \in 0..0 |-> Body([m \in 0..0 |-> <<>>], n)]
    OBVIOUS
  <2> DEFINE z == [m \in 0..0 |-> <<>>]
  <2>2. z = [n \in 0..0 |-> Body(z, n)] BY <2>1
  <2>3. \E f : f = [n \in 0..0 |-> Body(f, n)]
    <3> HIDE DEF z, Body
    <3> WITNESS z
    <3> QED BY <2>2
  <2> QED BY <2>3
<1>2. ASSUME NEW N \in 0..Len(q), N \in P, N < Len(q) PROVE N + 1 \in P
  <2>1. PICK h : h = [n \in 0..N |-> Body(h, n)]
    BY <1>2
  <2> DEFINE g == [n \in 0..(N + 1) |-> IF n = N + 1 THEN Body(h, N + 1) ELSE h[n]]
  <2>2. \A n \in 0..(N + 1) : g[n] = Body(g, n)
    <3>1. \A n \in 0..N : g[n] = h[n] OBVIOUS
    <3>2. \A n \in 0..N : h[n] = Body(h, n) BY <2>1
    <3>3. ASSUME NEW n \in 0..(N + 1) PROVE Body(g, n) = Body(h, n)
      <4>1. n # 0 => g[n - 1] = h[n - 1] BY <3>1
      <4> QED BY <4>1
    <3>4. g[N + 1] = Body(h, N + 1) OBVIOUS
    <3>5. \A n \in 0..(N + 1) : n \in 0..N \/ n = N + 1 OBVIOUS
    <3> HIDE DEF g, Body
    <3> QED BY <3>1, <3>2, <3>3, <3>4, <3>5
  <2>3. g = [n \in 0..(N + 1) |-> g[n]] OBVIOUS
  <2>4. g = [n \in 0..(N + 1) |-> Body(g, n)]
    <3> HIDE DEF g, Body
    <3> QED BY <2>2, <2>3
  <2>5. \E f : f = [n \in 0..(N + 1) |-> Body(f, n)]
    <3> HIDE DEF g, Body
    <3> WITNESS g
    <3> QED BY <2>4
  <2>6. N + 1 \in 0..Len(q) BY <1>2
  <2> QED BY <2>5, <2>6
<1>3. \E f : f = [n \in 0..Len(q) |-> Body(f, n)]
  <2>1. Len(q) \in P
    <3> HIDE DEF P
    <3>1. \A n \in 0..Len(q) : n \in P /\ n < Len(q) => n + 1 \in P BY <1>2
    <3>2. \A n \in 0..Len(q) : n \in P BY <1>1, <3>1, Induction
    <3> QED BY <3>2
  <2> QED BY <2>1
<1> DEFINE kept[n \in 0..Len(q)] ==
      IF n = 0 THEN <<>> ELSE IF q[n] \in drop THEN kept[n - 1] ELSE Append(kept[n - 1], q[n])
<1>4. kept = [n \in 0..Len(q) |-> Body(kept, n)]
  <2>1. kept = CHOOSE f : f = [n \in 0..Len(q) |-> Body(f, n)]
    BY DEF kept
  <2> HIDE DEF kept, Body
  <2> QED BY <1>3, <2>1
<1>5. Without(q, drop) = kept[Len(q)]
  BY DEF Without
<1> HIDE DEF kept
<1>6. kept[0] = <<>>
  BY <1>4
<1>7. \A n \in 1..Len(q) : kept[n] = IF q[n] \in drop THEN kept[n - 1] ELSE Append(kept[n - 1], q[n])
  <2>1. \A n \in 0..Len(q) : kept[n] = Body(kept, n)
    <3> HIDE DEF Body
    <3> QED BY <1>4
  <2> QED BY <2>1
<1> QED BY <1>5, <1>6, <1>7

\* Without keeps just the elements that are not dropped, in their order.
LEMMA WithoutKeeps ==
  ASSUME NEW S, NEW q \in Seq(S), NEW drop
  PROVE  /\ Without(q, drop) \in Seq(S)
         /\ \A i \in 1..Len(Without(q, drop)) :
               /\ Without(q, drop)[i] \notin drop
               /\ \E k \in 1..Len(q) : q[k] = Without(q, drop)[i]
         /\ \A k \in 1..Len(q) : q[k] \notin drop => \E i \in 1..Len(Without(q, drop)) : Without(q, drop)[i] = q[k]
         /\ (S \subseteq Nat /\ \A i, j \in 1..Len(q) : i < j => q[i] < q[j]) =>
               \A i, j \in 1..Len(Without(q, drop)) : i < j => Without(q, drop)[i] < Without(q, drop)[j]
<1>1. Len(q) \in Nat /\ \A k \in 1..Len(q) : q[k] \in S
  OBVIOUS
<1>2. PICK f : /\ f[0] = <<>>
               /\ \A n \in 1..Len(q) : f[n] = IF q[n] \in drop THEN f[n - 1] ELSE Append(f[n - 1], q[n])
               /\ Without(q, drop) = f[Len(q)]
  BY <1>1, WithoutIs
<1> DEFINE Kept(s, n) == /\ s \in Seq(S)
                         /\ \A i \in 1..Len(s) : s[i] \notin drop /\ \E k \in 1..n : q[k] = s[i]
                         /\ \A k \in 1..n : q[k] \notin drop => \E i \in 1..Len(s) : s[i] = q[k]
           Rising(s) == \A i, j \in 1..Len(s) : i < j => s[i] < s[j]
           P == {n \in 0..Len(q) : Kept(f[n], n) /\ (S \subseteq Nat /\ Rising(q) => Rising(f[n]))}
<1>3. 0 \in P
  <2>1. f[0] \in Seq(S) /\ Len(f[0]) = 0 BY <1>2
  <2> QED BY <1>1, <2>1
<1>4. ASSUME NEW n \in 0..Len(q), n \in P, n < Len(q) PROVE n + 1 \in P
  <2>1. /\ Kept(f[n], n) /\ (S \subseteq Nat /\ Rising(q) => Rising(f[n]))
    BY <1>4
  <2>2. n \in Nat /\ n + 1 \in 1..Len(q) /\ (n + 1) - 1 = n /\ q[n + 1] \in S
    BY <1>1, <1>4
  <2>3. \A k \in 1..(n + 1) : k \in 1..n \/ k = n + 1
    BY <2>2
  <2>4. \A k \in 1..n : k \in 1..(n + 1)
    BY <2>2
  <2>5. n + 1 \in 1..(n + 1) /\ n + 1 \in 0..Len(q)
    BY <2>2
  <2>6. CASE q[n + 1] \in drop
    <3>1. f[n + 1] = f[n] BY <1>2, <2>2, <2>6
    <3>2. Kept(f[n], n + 1)
      <4>1. \A i \in 1..Len(f[n]) : f[n][i] \notin drop /\ \E k \in 1..(n + 1) : q[k] = f[n][i]
        BY <2>1, <2>4
      <4>2. \A k \in 1..(n + 1) : q[k] \notin drop => \E i \in 1..Len(f[n]) : f[n][i] = q[k]
        BY <2>1, <2>3, <2>6
      <4> QED BY <2>1, <4>1, <4>2
    <3> HIDE DEF Kept, Rising
    <3> QED BY <2>1, <2>5, <3>1, <3>2
  <2>7. CASE q[n + 1] \notin drop
    <3>0. PICK w \in Nat : w = Len(f[n]) BY <2>1
    <3>1. PICK g : g = f[n + 1] OBVIOUS
    <3>2. /\ g = Append(f[n], q[n + 1])
      BY <1>2, <2>2, <2>7, <3>1
    <3>3. /\ g \in Seq(S) /\ Len(g) = w + 1 /\ g[w + 1] = q[n + 1]
          /\ \A i \in 1..w : g[i] = f[n][i]
      BY <2>1, <2>2, <3>0, <3>2
    <3>4. \A i \in 1..(w + 1) : i \in 1..w \/ i = w + 1 OBVIOUS
    <3>5. Kept(g, n + 1)
      <4>1. \A i \in 1..w : f[n][i] \notin drop /\ \E k \in 1..n : q[k] = f[n][i]
        BY <2>1, <3>0
      <4>2. \A i \in 1..w : g[i] \notin drop /\ \E k \in 1..(n + 1) : q[k] = g[i]
        BY <2>4, <3>3, <4>1
      <4>3. \A i \in 1..Len(g) : g[i] \notin drop /\ \E k \in 1..(n + 1) : q[k] = g[i]
        BY <2>5, <2>7, <3>3, <3>4, <4>2
      <4>4. \A k \in 1..n : q[k] \notin drop => \E i \in 1..w : f[n][i] = q[k]
        BY <2>1, <3>0
      <4>5. \A i \in 1..w : i \in 1..(w + 1) BY <3>0
      <4>6. \A k \in 1..n : q[k] \notin drop => \E i \in 1..Len(g) : g[i] = q[k]
        BY <3>3, <4>4, <4>5
      <4>7. w + 1 \in 1..(w + 1) BY <3>0
      <4>8. \A k \in 1..(n + 1) : q[k] \notin drop => \E i \in 1..Len(g) : g[i] = q[k]
        BY <2>3, <3>3, <4>6, <4>7
      <4> QED BY <3>3, <4>3, <4>8
    <3>6. S \subseteq Nat /\ Rising(q) => Rising(g)
      <4> SUFFICES ASSUME S \subseteq Nat, Rising(q), NEW i \in 1..(w + 1), NEW j \in 1..(w + 1), i < j
                   PROVE  g[i] < g[j]
        BY <3>3
      <4>1. CASE j \in 1..w
        <5>1. i \in 1..w BY <3>0, <4>1
        <5>2. f[n][i] < f[n][j] BY <2>1, <3>0, <4>1, <5>1
        <5> QED BY <3>3, <4>1, <5>1, <5>2
      <4>2. CASE j = w + 1
        <5>1. i \in 1..w BY <3>0, <4>2
        <5>2. PICK k \in 1..n : q[k] = f[n][i] BY <2>1, <3>0, <5>1
        <5>3. k < n + 1 /\ k \in 1..Len(q) BY <2>2, <5>2
        <5>4. q[k] < q[n + 1] BY <2>2, <5>3
        <5> QED BY <3>3, <4>2, <5>1, <5>2, <5>4
      <4> QED BY <3>4, <4>1, <4>2
    <3> HIDE DEF Kept, Rising
    <3> QED BY <2>5, <3>1, <3>5, <3>6
  <2> QED BY <2>6, <2>7
<1>5. Len(q) \in P
  <2> HIDE DEF P
  <2>1. \A n \in 0..Len(q) : n \in P /\ n < Len(q) => n + 1 \in P BY <1>4
  <2>2. \A n \in 0..Len(q) : n \in P BY <1>1, <1>3, <2>1, Induction
  <2> QED BY <1>1, <2>2
<1> QED BY <1>2, <1>5

(***************************************************************************)
(* Presence                                                                *)
(***************************************************************************)

\* A message's placeholder is not edited before its handler has recorded it, nor while
\* it is recorded.
PreInv ==
    /\ PresenceTypeOK /\ EditedOnce
    /\ \A m \in Msg : handler[m] < 4 => edits[m] = 0
    /\ \A k \in Key : table[Placeholder][k] # None =>
          handler[table[Placeholder][k]] = 4 /\ edits[table[Placeholder][k]] = 0

LEMMA PreInitInv == PresenceInit => PreInv
  BY KeyAssumption
  DEF PresenceInit, PreInv, PresenceTypeOK, EditedOnce, Map, Placeholder, IdleWorker, IdleJanitor

\* One entry of the maps or of the indicators changes.
LEMMA PreEntry ==
  ASSUME PresenceTypeOK, NEW i \in Map
  PROVE  /\ \A k \in Key, x \in Msg \cup {None} :
               /\ [table EXCEPT ![i][k] = x] \in [Map -> [Key -> Msg \cup {None}]]
               /\ \A j \in Map, l \in Key :
                     [table EXCEPT ![i][k] = x][j][l] = IF j = i /\ l = k THEN x ELSE table[j][l]
         /\ \A m \in Msg, x \in {"on", "off"} :
               /\ [shown EXCEPT ![i][m] = x] \in [Map -> [Msg -> {"never", "on", "off"}]]
               /\ \A j \in Map, n \in Msg :
                     [shown EXCEPT ![i][m] = x][j][n] = IF j = i /\ n = m THEN x ELSE shown[j][n]
BY DEF PresenceTypeOK

LEMMA PreHandlerSteps ==
  ASSUME PreInv, NEW m \in Msg, Receive(m) \/ Indicate(m)
  PROVE  PreInv'
<1>1. CASE Receive(m)
  BY <1>1 DEF Receive, PreInv, PresenceTypeOK, EditedOnce, Map, Placeholder
<1>2. CASE Indicate(m)
  <2>0. PICK i \in Map : i = handler[m]
    BY <1>2 DEF Indicate
  <2>1. /\ KeyOf[m] \in Key /\ m # None
        /\ handler' = [handler EXCEPT ![m] = i + 1] /\ UNCHANGED <<worker, answers, janitor, edits>>
        /\ handler' \in [Msg -> 0..4] /\ handler'[m] = i + 1
        /\ \A n \in Msg \ {m} : handler'[n] = handler[n]
    <3>1. i + 1 \in 0..4 BY DEF Map
    <3>2. handler' = [handler EXCEPT ![m] = i + 1] /\ UNCHANGED <<worker, answers, janitor, edits>>
      BY <1>2, <2>0 DEF Indicate
    <3>3. KeyOf[m] \in Key /\ m # None BY KeyAssumption
    <3> QED BY <3>1, <3>2, <3>3 DEF PreInv, PresenceTypeOK
  <2>2. edits[m] = 0 /\ i \in {1, 2, 3} /\ (i + 1 = 4 <=> i = 3)
    BY <2>0 DEF PreInv, Map
  <2>3. CASE UNCHANGED <<table, shown, expired>>
    BY <2>0, <2>1, <2>2, <2>3 DEF PreInv, PresenceTypeOK, EditedOnce, Map, Placeholder
  <2>4. CASE /\ table' = [table EXCEPT ![i][KeyOf[m]] = m]
             /\ shown' = [shown EXCEPT ![i][m] = "on"]
             /\ expired' = expired \ {<<i, KeyOf[m]>>}
    <3>1. /\ table' \in [Map -> [Key -> Msg \cup {None}]]
          /\ \A j \in Map, l \in Key : table'[j][l] = IF j = i /\ l = KeyOf[m] THEN m ELSE table[j][l]
          /\ shown' \in [Map -> [Msg -> {"never", "on", "off"}]]
          /\ \A j \in Map, n \in Msg : shown'[j][n] = IF j = i /\ n = m THEN "on" ELSE shown[j][n]
      BY <2>1, <2>4, PreEntry DEF PreInv
    <3>2. PresenceTypeOK'
      BY <2>1, <2>4, <3>1 DEF PreInv, PresenceTypeOK
    <3>3. EditedOnce'
      BY <2>1, <3>1 DEF PreInv, PresenceTypeOK, EditedOnce
    <3>4. \A k \in Key : table'[Placeholder][k] # None =>
             handler'[table'[Placeholder][k]] = 4 /\ edits'[table'[Placeholder][k]] = 0
      <4> SUFFICES ASSUME NEW k \in Key, table'[3][k] # None
                   PROVE  handler'[table'[3][k]] = 4 /\ edits[table'[3][k]] = 0
        BY <2>1 DEF Placeholder
      <4>1. CASE i = 3 /\ k = KeyOf[m] BY <2>1, <2>2, <3>1, <4>1
      <4>2. CASE ~(i = 3 /\ k = KeyOf[m])
        <5>1. table'[3][k] = table[3][k] BY <2>2, <3>1, <4>2 DEF Map
        <5>2. table[3][k] \in Msg /\ handler[table[3][k]] = 4 /\ edits[table[3][k]] = 0
          BY <5>1 DEF PreInv, PresenceTypeOK, Map, Placeholder
        <5>3. table[3][k] # m BY <2>0, <2>2, <5>2
        <5> QED BY <2>1, <5>1, <5>2, <5>3
      <4> QED BY <4>1, <4>2
    <3>5. \A n \in Msg : handler'[n] < 4 => edits'[n] = 0
      BY <2>1, <2>2 DEF PreInv
    <3> QED BY <3>2, <3>3, <3>4, <3>5 DEF PreInv
  <2> QED BY <1>2, <2>0, <2>3, <2>4 DEF Indicate
<1> QED BY <1>1, <1>2

LEMMA PreReplySteps ==
  ASSUME PreInv, preSend \/ \E k \in Key : ReplyBegin(k)
  PROVE  PreInv'
<1>1. ASSUME NEW k \in Key, ReplyBegin(k) PROVE PreInv'
  BY <1>1, KeyAssumption DEF ReplyBegin, PreInv, PresenceTypeOK, EditedOnce, Map, Placeholder, IdleWorker
<1>2. CASE preSend
  <2>1. PICK i \in Map, k \in Key : i = worker.step /\ k = worker.key
    BY <1>2 DEF preSend, PreInv, PresenceTypeOK, IdleWorker
  <2>2. worker' \in {IdleWorker} \cup [key : Key, step : Map]
    BY <1>2, <2>1 DEF preSend, AfterStep, PreInv, PresenceTypeOK, Map, IdleWorker
  <2>3. expired' \subseteq Map \X Key /\ UNCHANGED <<handler, answers, janitor>>
    BY <1>2 DEF preSend, PreInv, PresenceTypeOK
  <2>4. CASE table[i][k] = None
    <3>1. UNCHANGED <<table, shown, edits>>
      BY <1>2, <2>1, <2>4 DEF preSend
    <3> QED BY <2>2, <2>3, <3>1 DEF PreInv, PresenceTypeOK, EditedOnce
  <2>5. CASE table[i][k] # None
    <3>0. PICK m : m = table[i][k] OBVIOUS
    <3>1. m \in Msg /\ KeyOf[m] = k /\ shown[i][m] = "on" /\ None \in Msg \cup {None}
      BY <2>5, <3>0 DEF PreInv, PresenceTypeOK, EditedOnce
    <3>2. table' = [table EXCEPT ![i][k] = None]
      BY <1>2, <2>1, <2>5 DEF preSend
    <3>3. /\ table' \in [Map -> [Key -> Msg \cup {None}]]
          /\ \A j \in Map, l \in Key : table'[j][l] = IF j = i /\ l = k THEN None ELSE table[j][l]
      BY <3>1, <3>2, PreEntry DEF PreInv
    <3>4. /\ shown' = shown \/ shown' = [shown EXCEPT ![i][m] = "off"]
          /\ edits' = edits \/ (i = Placeholder /\ edits' = [edits EXCEPT ![m] = @ + 1])
      BY <1>2, <2>1, <2>5, <3>0 DEF preSend
    <3>5. /\ shown' \in [Map -> [Msg -> {"never", "on", "off"}]]
          /\ \A j \in Map, n \in Msg : (j # i \/ n # m) => shown'[j][n] = shown[j][n]
      <4>1. CASE shown' = shown BY <4>1 DEF PreInv, PresenceTypeOK
      <4>2. CASE shown' = [shown EXCEPT ![i][m] = "off"] BY <3>1, <4>2, PreEntry DEF PreInv
      <4> QED BY <3>4, <4>1, <4>2
    <3>6. /\ edits' \in [Msg -> Nat]
          /\ \A n \in Msg : edits'[n] = edits[n] \/ (i = Placeholder /\ n = m /\ edits'[n] = edits[n] + 1)
      BY <3>1, <3>4 DEF PreInv, PresenceTypeOK
    <3>7. i = Placeholder => handler[m] = 4 /\ edits[m] = 0
      BY <2>5, <3>0 DEF PreInv
    <3>8. PresenceTypeOK'
      BY <2>2, <2>3, <3>3, <3>5, <3>6 DEF PreInv, PresenceTypeOK
    <3>9. \A j \in Map, l \in Key : table'[j][l] # None => table'[j][l] = table[j][l] /\ (j # i \/ table[j][l] # m)
      BY <3>1, <3>3 DEF PreInv, PresenceTypeOK
    <3>10. EditedOnce'
      <4>1. \A n \in Msg : edits'[n] <= 1
        BY <3>6, <3>7 DEF PreInv, EditedOnce
      <4>2. \A j \in Map, l \in Key : table'[j][l] # None => shown'[j][table'[j][l]] = "on"
        <5>1. ASSUME NEW j \in Map, NEW l \in Key, table'[j][l] # None
              PROVE  shown'[j][table'[j][l]] = "on"
          <6>1. PICK n : n = table[j][l] OBVIOUS
          <6>2. table'[j][l] = n /\ n # None /\ (j # i \/ n # m)
            BY <3>9, <5>1, <6>1
          <6>3. n \in Msg /\ shown[j][n] = "on"
            BY <6>1, <6>2 DEF PreInv, PresenceTypeOK, EditedOnce
          <6> QED BY <3>5, <6>2, <6>3
        <5> QED BY <5>1
      <4> QED BY <4>1, <4>2 DEF EditedOnce
    <3>11. \A n \in Msg : handler'[n] < 4 => edits'[n] = 0
      BY <2>3, <3>6, <3>7 DEF PreInv
    <3>12. \A l \in Key : table'[Placeholder][l] # None =>
              handler'[table'[Placeholder][l]] = 4 /\ edits'[table'[Placeholder][l]] = 0
      BY <2>3, <3>6, <3>9 DEF PreInv, PresenceTypeOK, Map, Placeholder
    <3> QED BY <3>8, <3>10, <3>11, <3>12 DEF PreInv
  <2> QED BY <2>4, <2>5
<1> QED BY <1>1, <1>2

LEMMA PreJanitorSteps ==
  ASSUME PreInv, JanitorDelete \/ \E i \in Map, k \in Key : Expire(i, k) \/ JanitorRead(i, k)
  PROVE  PreInv'
<1>1. ASSUME NEW i \in Map, NEW k \in Key, Expire(i, k) \/ JanitorRead(i, k) PROVE PreInv'
  <2>1. UNCHANGED <<handler, table, shown, worker, answers, edits>>
    BY <1>1 DEF Expire, JanitorRead
  <2>2. expired' \subseteq Map \X Key /\ janitor' \in {IdleJanitor} \cup [map : Map, msg : Msg]
    BY <1>1 DEF Expire, JanitorRead, PreInv, PresenceTypeOK
  <2> QED BY <2>1, <2>2 DEF PreInv, PresenceTypeOK, EditedOnce
<1>2. CASE JanitorDelete
  <2>1. PICK i \in Map, m \in Msg : i = janitor.map /\ m = janitor.msg
    BY <1>2 DEF JanitorDelete, PreInv, PresenceTypeOK
  <2>2. PICK k \in Key : k = KeyOf[m]
    BY KeyAssumption
  <2>3. /\ table' = [table EXCEPT ![i][k] = None] /\ janitor' = IdleJanitor
        /\ shown' = shown \/ shown' = [shown EXCEPT ![i][m] = "off"]
        /\ expired' \subseteq Map \X Key
        /\ UNCHANGED <<handler, worker, answers, edits>>
    BY <1>2, <2>1, <2>2 DEF JanitorDelete, PreInv, PresenceTypeOK
  <2>4. /\ table' \in [Map -> [Key -> Msg \cup {None}]]
        /\ \A j \in Map, l \in Key : table'[j][l] = IF j = i /\ l = k THEN None ELSE table[j][l]
    BY <2>3, PreEntry DEF PreInv
  <2>5. /\ shown' \in [Map -> [Msg -> {"never", "on", "off"}]]
        /\ \A j \in Map, n \in Msg : (j # i \/ n # m) => shown'[j][n] = shown[j][n]
    <3>1. CASE shown' = shown BY <3>1 DEF PreInv, PresenceTypeOK
    <3>2. CASE shown' = [shown EXCEPT ![i][m] = "off"] BY <3>2, PreEntry DEF PreInv
    <3> QED BY <2>3, <3>1, <3>2
  <2>6. \A j \in Map, l \in Key : table'[j][l] # None => table'[j][l] = table[j][l] /\ (j # i \/ table[j][l] # m)
    BY <2>2, <2>4 DEF PreInv, PresenceTypeOK
  <2>7. PresenceTypeOK'
    BY <2>3, <2>4, <2>5 DEF PreInv, PresenceTypeOK
  <2>8. EditedOnce'
    BY <2>3, <2>5, <2>6 DEF PreInv, PresenceTypeOK, EditedOnce
  <2>9. \A l \in Key : table'[Placeholder][l] # None =>
           handler'[table'[Placeholder][l]] = 4 /\ edits'[table'[Placeholder][l]] = 0
    BY <2>3, <2>6 DEF PreInv, Map, Placeholder
  <2> QED BY <2>3, <2>7, <2>8, <2>9 DEF PreInv
<1> QED BY <1>1, <1>2

LEMMA PreStep == PreInv /\ [PresenceNext]_presenceVars => PreInv'
<1>1. ASSUME PreInv, UNCHANGED presenceVars PROVE PreInv'
  BY <1>1 DEF presenceVars, PreInv, PresenceTypeOK, EditedOnce
<1> QED BY <1>1, PreHandlerSteps, PreReplySteps, PreJanitorSteps DEF PresenceNext

\* A placeholder is edited into one reply at most, and what the maps still record has been
\* neither stopped nor edited, however handlers, preSend and the janitor take turns.
THEOREM PlaceholderEditedOnce == PresenceSpec => [](PresenceTypeOK /\ EditedOnce)
<1>1. PreInv => PresenceTypeOK /\ EditedOnce
  BY DEF PreInv
<1> QED BY PreInitInv, PreStep, <1>1, PTL DEF PresenceSpec

(***************************************************************************)
(* WeComBot                                                                *)
(***************************************************************************)

\* Messages arrive in order; a removed task is in no map again, and only removed tasks have
\* had their URL used; the worker and the polls hold tasks that were made.
BotInv ==
    /\ BotTypeOK /\ UrlUsedOnce /\ MapsAgree
    /\ \A m \in arrived : \A n \in Text : n < m => n \in arrived
    /\ \A i \in DOMAIN chatTasks : chatTasks[i] \notin finished
    /\ \A m \in Text : posts[m] > 0 => m \in finished
    /\ sending.step # "idle" => sending.task \in arrived
    /\ sending.step = "post" => posts[sending.task] = 0
    /\ \A p \in Poller : polling[p].step # "idle" => polling[p].task \in arrived

LEMMA BotInitInv == BotInit => BotInv
<1> SUFFICES ASSUME BotInit PROVE BotInv
  OBVIOUS
<1>1. BotTypeOK
  BY BotAssumption DEF BotInit, BotTypeOK, NotSending, NotPolling
<1>2. UrlUsedOnce /\ MapsAgree
  BY DEF BotInit, UrlUsedOnce, MapsAgree
<1> QED BY <1>1, <1>2 DEF BotInit, BotInv, NotSending, NotPolling

\* Dropping tasks from both maps, and marking dropped ones finished or canceled, keeps the maps in
\* agreement.
LEMMA DropTasks ==
  ASSUME BotInv, NEW drop, chatTasks' = Without(chatTasks, drop), arrived \subseteq arrived',
         streamTasks' \subseteq streamTasks, drop \cap streamTasks' = {},
         finished' \subseteq finished \cup drop
  PROVE  /\ chatTasks' \in Seq(arrived') /\ MapsAgree'
         /\ \A i \in DOMAIN chatTasks' : chatTasks'[i] \notin finished' /\ chatTasks'[i] \notin drop
<1>0. chatTasks \in Seq(arrived) /\ arrived \subseteq Nat
  BY BotAssumption DEF BotInv, BotTypeOK
<1>1. PICK q : q = Without(chatTasks, drop) /\ chatTasks' = q
  OBVIOUS
<1>2. q \in Seq(arrived)
  BY <1>0, <1>1, WithoutKeeps
<1>3. \A i \in 1..Len(q) : q[i] \notin drop /\ \E k \in 1..Len(chatTasks) : chatTasks[k] = q[i]
  BY ONLY <1>0, <1>1, WithoutKeeps
<1>4. \A k \in 1..Len(chatTasks) : chatTasks[k] \notin drop => \E i \in 1..Len(q) : q[i] = chatTasks[k]
  BY ONLY <1>0, <1>1, WithoutKeeps
<1>5. DOMAIN chatTasks = 1..Len(chatTasks) /\ DOMAIN q = 1..Len(q)
  BY <1>0, <1>2
<1>6. \A i, j \in 1..Len(q) : i < j => q[i] < q[j]
  <2>1. \A i, j \in 1..Len(chatTasks) : i < j => chatTasks[i] < chatTasks[j]
    BY <1>5 DEF BotInv, MapsAgree
  <2> QED BY ONLY <1>0, <1>1, <2>1, WithoutKeeps
<1>7. chatTasks' \in Seq(arrived')
  BY <1>1, <1>2
<1>8. MapsAgree'
  <2>1. \A m \in streamTasks' : \E k \in 1..Len(chatTasks) : chatTasks[k] = m /\ chatTasks[k] \notin drop
    BY <1>5 DEF BotInv, MapsAgree
  <2>2. \A m \in streamTasks' : \E i \in DOMAIN chatTasks' : chatTasks'[i] = m
    BY <1>1, <1>4, <1>5, <2>1
  <2>3. \A i, j \in DOMAIN chatTasks' : i < j => chatTasks'[i] < chatTasks'[j]
    BY <1>1, <1>5, <1>6
  <2> QED BY <2>2, <2>3 DEF MapsAgree
<1>9. \A i \in DOMAIN chatTasks' : chatTasks'[i] \notin finished' /\ chatTasks'[i] \notin drop
  BY <1>1, <1>3, <1>5 DEF BotInv
<1> QED BY <1>7, <1>8, <1>9

\* Messages and polls.
LEMMA BotPollSteps ==
  ASSUME BotInv, NEW p \in Poller,
         \/ \E m \in Text : handleTextMessage(p, m) \/ handleStreamMessage(p, m)
         \/ Poll(p)
  PROVE  BotInv'
<1> DEFINE PollState == [task : Text \cup {NoTask}, step : {"idle", "take", "remove", "close"}]
<1>0. /\ polling \in [Poller -> PollState] /\ NotPolling \in PollState
      /\ arrived \subseteq Text /\ Text \subseteq Nat
      /\ \A m \in Text : [task |-> m, step |-> "take"] \in PollState /\ [task |-> m, step |-> "close"] \in PollState
  BY BotAssumption DEF BotInv, BotTypeOK, NotPolling
<1>1. ASSUME NEW m \in Text, handleTextMessage(p, m) PROVE BotInv'
  <2>1. /\ m \notin arrived /\ \A n \in Text : n < m => n \in arrived
        /\ arrived' = arrived \cup {m} /\ streamTasks' = streamTasks \cup {m}
        /\ chatTasks' = Append(chatTasks, m)
        /\ polling' = [polling EXCEPT ![p] = [task |-> m, step |-> "take"]]
        /\ UNCHANGED <<streamClosed, finished, canceled, age, answerCh, posts, replies, sending, botRunning>>
    BY <1>1 DEF handleTextMessage
  <2>2. polling' \in [Poller -> PollState] /\ \A q \in Poller : polling'[q].step # "idle" => polling'[q].task \in arrived'
    BY <1>0, <2>1 DEF BotInv
  <2>3. PICK c \in Nat : c = Len(chatTasks) BY DEF BotInv, BotTypeOK
  <2>4. /\ chatTasks' \in Seq(arrived') /\ Len(chatTasks') = c + 1 /\ chatTasks'[c + 1] = m
        /\ \A i \in 1..c : chatTasks'[i] = chatTasks[i] /\ chatTasks[i] \in arrived
        /\ DOMAIN chatTasks' = 1..(c + 1) /\ DOMAIN chatTasks = 1..c
    <3>1. chatTasks \in Seq(arrived') /\ m \in arrived' /\ chatTasks \in Seq(arrived)
      BY <2>1 DEF BotInv, BotTypeOK
    <3> QED BY <2>1, <2>3, <3>1
  <2>5. \A n \in arrived : n < m
    <3>1. \A n \in arrived : n # m /\ ~(m < n) BY <2>1 DEF BotInv
    <3> QED BY <1>0, <3>1
  <2>6. \A i \in 1..(c + 1) : i \in 1..c \/ i = c + 1
    BY <2>3
  <2>7. MapsAgree'
    <3>1. \A n \in streamTasks' : \E i \in 1..(c + 1) : chatTasks'[i] = n
      <4>1. \A n \in streamTasks : \E i \in 1..c : chatTasks[i] = n BY <2>4 DEF BotInv, MapsAgree
      <4>2. \A i \in 1..c : i \in 1..(c + 1) OBVIOUS
      <4>3. c + 1 \in 1..(c + 1) OBVIOUS
      <4> QED BY <2>1, <2>4, <4>1, <4>2, <4>3
    <3>2. ASSUME NEW i \in 1..(c + 1), NEW j \in 1..(c + 1), i < j PROVE chatTasks'[i] < chatTasks'[j]
      <4>1. i \in 1..c BY <3>2
      <4>2. CASE j \in 1..c
        <5>1. chatTasks[i] < chatTasks[j] BY <2>4, <3>2, <4>1, <4>2 DEF BotInv, MapsAgree
        <5> QED BY <2>4, <4>1, <4>2, <5>1
      <4>3. CASE j = c + 1 BY <2>4, <2>5, <4>1, <4>3
      <4> QED BY <2>6, <4>2, <4>3
    <3> QED BY <2>4, <3>1, <3>2 DEF MapsAgree
  <2>8. \A i \in DOMAIN chatTasks' : chatTasks'[i] \notin finished'
    <3>1. m \notin finished BY <2>1 DEF BotInv, BotTypeOK
    <3>2. \A i \in 1..c : chatTasks[i] \notin finished BY <2>4 DEF BotInv
    <3> QED BY <2>1, <2>4, <2>6, <3>1, <3>2
  <2>9. BotTypeOK'
    BY <2>1, <2>2, <2>4 DEF BotInv, BotTypeOK
  <2> QED BY <2>1, <2>2, <2>7, <2>8, <2>9 DEF BotInv, UrlUsedOnce
<1>2. ASSUME NEW m \in Text, handleStreamMessage(p, m) PROVE BotInv'
  <2>1. /\ m \in streamTasks /\ polling' = [polling EXCEPT ![p] = [task |-> m, step |-> "take"]]
        /\ UNCHANGED <<arrived, streamTasks, chatTasks, streamClosed, finished, canceled, age,
                       answerCh, posts, replies, sending, botRunning>>
    BY <1>2 DEF handleStreamMessage
  <2>2. polling' \in [Poller -> PollState] /\ \A q \in Poller : polling'[q].step # "idle" => polling'[q].task \in arrived'
    BY <1>0, <2>1 DEF BotInv, BotTypeOK
  <2> QED BY <2>1, <2>2 DEF BotInv, BotTypeOK, UrlUsedOnce, MapsAgree
<1>3. CASE getStreamResponse(p)
  <2>0. PICK m \in arrived : m = polling[p].task
    BY <1>3 DEF getStreamResponse, BotInv
  <2>1. UNCHANGED <<arrived, streamTasks, chatTasks, streamClosed, finished, canceled, age, posts, replies,
                    sending, botRunning>>
    BY <1>3 DEF getStreamResponse
  <2>2. answerCh' \in [Text -> 0..1]
    <3>1. answerCh[m] \in 0..1 /\ m \in Text BY <1>0 DEF BotInv, BotTypeOK
    <3>2. answerCh' = answerCh \/ (answerCh[m] > 0 /\ answerCh' = [answerCh EXCEPT ![m] = @ - 1])
      BY <1>3, <2>0 DEF getStreamResponse
    <3>3. answerCh \in [Text -> 0..1] BY DEF BotInv, BotTypeOK
    <3>4. CASE answerCh[m] > 0 /\ answerCh' = [answerCh EXCEPT ![m] = @ - 1]
      <4>1. answerCh[m] - 1 \in 0..1 BY <3>1, <3>4
      <4> QED BY <3>1, <3>3, <3>4, <4>1
    <3> QED BY <3>2, <3>3, <3>4
  <2>3. /\ polling' \in [Poller -> PollState]
        /\ \A q \in Poller : polling'[q].step # "idle" => polling'[q].task \in arrived'
    <3>1. \/ polling' = [polling EXCEPT ![p].step = "remove"]
          \/ polling' = [polling EXCEPT ![p] = NotPolling]
          \/ polling' = [polling EXCEPT ![p] = [task |-> m, step |-> "close"]]
      BY <1>3, <2>0 DEF getStreamResponse
    <3>2. CASE polling' = [polling EXCEPT ![p].step = "remove"]
      BY <1>0, <2>0, <2>1, <3>2 DEF BotInv
    <3>3. CASE polling' = [polling EXCEPT ![p] = NotPolling]
      BY <1>0, <2>1, <3>3 DEF BotInv, NotPolling
    <3>4. CASE polling' = [polling EXCEPT ![p] = [task |-> m, step |-> "close"]]
      BY <1>0, <2>1, <3>4 DEF BotInv
    <3> QED BY <3>1, <3>2, <3>3, <3>4
  <2> QED BY <2>1, <2>2, <2>3 DEF BotInv, BotTypeOK, UrlUsedOnce, MapsAgree
<1>4. ASSUME RespondAnswer(p) \/ RespondNotice(p)
      PROVE  /\ polling' \in [Poller -> PollState] /\ polling[p].task \in arrived
             /\ \A q \in Poller : polling'[q].step # "idle" => polling'[q].task \in arrived
             /\ UNCHANGED <<arrived, age, answerCh, posts, replies, sending, botRunning>>
  BY <1>0, <1>4 DEF RespondAnswer, RespondNotice, BotInv, NotPolling
<1>5. CASE RespondAnswer(p)
  <2>0. PICK m \in arrived : m = polling[p].task BY <1>4, <1>5
  <2>1. /\ canceled' = canceled \cup {m} /\ finished' = finished \cup {m} /\ streamTasks' = streamTasks \ {m}
        /\ chatTasks' = Without(chatTasks, {m}) /\ streamClosed' = streamClosed
    BY <1>5, <2>0 DEF RespondAnswer, removeTask
  <2>2. /\ chatTasks' \in Seq(arrived') /\ MapsAgree'
        /\ \A i \in DOMAIN chatTasks' : chatTasks'[i] \notin finished'
    BY <1>4, <1>5, <2>1, DropTasks
  <2>3. BotTypeOK'
    BY <1>4, <1>5, <2>1, <2>2 DEF BotInv, BotTypeOK
  <2> QED BY <1>4, <1>5, <2>1, <2>2, <2>3 DEF BotInv, UrlUsedOnce
<1>6. CASE RespondNotice(p)
  <2>0. PICK m \in arrived : m = polling[p].task BY <1>4, <1>6
  <2>1. /\ streamClosed' = streamClosed \cup {m} /\ streamTasks' = streamTasks \ {m}
        /\ UNCHANGED <<chatTasks, finished, canceled>>
    BY <1>6, <2>0 DEF RespondNotice
  <2>2. BotTypeOK'
    BY <1>4, <1>6, <2>1 DEF BotInv, BotTypeOK
  <2> QED BY <1>4, <1>6, <2>1, <2>2 DEF BotInv, UrlUsedOnce, MapsAgree
<1> QED BY <1>1, <1>2, <1>3, <1>5, <1>6 DEF Poll

\* The worker: a reply finds the oldest task that is not finished, and leaves it in the queue
\* until it is posted.
LEMMA BotSendSteps ==
  ASSUME BotInv, Send \/ Post \/ Put
  PROVE  BotInv'
<1> DEFINE SendState == [task : Text \cup {NoTask}, step : {"idle", "put", "post"}]
<1>0. /\ sending \in SendState /\ NotSending \in SendState /\ arrived \subseteq Text
      /\ \A m \in Text : [task |-> m, step |-> "put"] \in SendState /\ [task |-> m, step |-> "post"] \in SendState
  BY DEF BotInv, BotTypeOK, NotSending
<1>1. CASE Send
  <2>1. PICK drop : /\ drop \subseteq finished /\ chatTasks' = Without(chatTasks, drop)
                    /\ sending' = IF chatTasks' = <<>> THEN NotSending
                                  ELSE [task |-> Head(chatTasks'),
                                        step |-> IF Head(chatTasks') \in streamClosed THEN "post" ELSE "put"]
    BY <1>1 DEF Send
  <2>2. /\ replies' \in 0..MaxReply
        /\ UNCHANGED <<arrived, streamTasks, streamClosed, finished, canceled, age, answerCh,
                       posts, polling, botRunning>>
    BY <1>1, BotAssumption DEF Send, BotInv, BotTypeOK
  <2>3. drop \cap streamTasks' = {}
    <3>1. \A m \in streamTasks : m \notin finished BY DEF BotInv, MapsAgree
    <3> QED BY <2>1, <2>2, <3>1
  <2>4. /\ chatTasks' \in Seq(arrived') /\ MapsAgree'
        /\ \A i \in DOMAIN chatTasks' : chatTasks'[i] \notin finished'
    BY <2>1, <2>2, <2>3, DropTasks
  <2>5. /\ sending' \in SendState /\ (sending'.step # "idle" => sending'.task \in arrived')
        /\ (sending'.step = "post" => posts'[sending'.task] = 0)
    <3>1. CASE chatTasks' = <<>>
      BY <1>0, <2>1, <3>1 DEF NotSending
    <3>2. CASE chatTasks' # <<>>
      <4>1. 1 \in DOMAIN chatTasks' /\ Head(chatTasks') = chatTasks'[1] /\ chatTasks'[1] \in arrived'
        BY <2>4, <3>2
      <4>2. PICK m \in arrived : m = Head(chatTasks') /\ m \notin finished
        BY <2>2, <2>4, <4>1
      <4>3. sending' = [task |-> m, step |-> "put"] \/ sending' = [task |-> m, step |-> "post"]
        BY <2>1, <3>2, <4>2
      <4>4. posts[m] = 0
        BY <1>0, <4>2 DEF BotInv, BotTypeOK
      <4> QED BY <1>0, <2>2, <4>2, <4>3, <4>4
    <3> QED BY <3>1, <3>2
  <2>6. BotTypeOK'
    BY <2>2, <2>4, <2>5 DEF BotInv, BotTypeOK
  <2> QED BY <2>2, <2>4, <2>5, <2>6 DEF BotInv, UrlUsedOnce
<1>2. CASE Post
  <2>1. PICK m \in arrived : m = sending.task /\ posts[m] = 0
    BY <1>2 DEF Post, BotInv
  <2>2. /\ canceled' = canceled \cup {m} /\ finished' = finished \cup {m} /\ streamTasks' = streamTasks \ {m}
        /\ chatTasks' = Without(chatTasks, {m}) /\ sending' = NotSending
        /\ UNCHANGED <<arrived, streamClosed, age, answerCh, replies, polling, botRunning>>
    BY <1>2, <2>1 DEF Post, removeTask
  <2>3. PICK used \in {0, 1} : posts' = [posts EXCEPT ![m] = @ + used]
    BY <1>2, <2>1 DEF Post
  <2>4. /\ posts' \in [Text -> Nat] /\ \A n \in Text : posts'[n] <= 1 /\ (posts'[n] > 0 => n \in finished')
    <3>1. posts \in [Text -> Nat] /\ m \in Text /\ \A n \in Text : posts[n] <= 1 /\ (posts[n] > 0 => n \in finished)
      BY <1>0, <2>1 DEF BotInv, BotTypeOK, UrlUsedOnce
    <3>2. posts' \in [Text -> Nat] /\ posts'[m] \in {0, 1} /\ \A n \in Text \ {m} : posts'[n] = posts[n]
      BY <2>1, <2>3, <3>1
    <3> QED BY <2>2, <3>1, <3>2
  <2>5. /\ chatTasks' \in Seq(arrived') /\ MapsAgree'
        /\ \A i \in DOMAIN chatTasks' : chatTasks'[i] \notin finished'
    BY <2>2, DropTasks
  <2>6. BotTypeOK'
    BY <1>0, <2>2, <2>4, <2>5 DEF BotInv, BotTypeOK
  <2> QED BY <2>2, <2>4, <2>5, <2>6 DEF BotInv, UrlUsedOnce, NotSending
<1>3. CASE Put
  <2>1. answerCh' \in [Text -> 0..1]
    BY <1>3 DEF Put, BotInv, BotTypeOK
  <2>2. BotTypeOK'
    BY <1>0, <1>3, <2>1 DEF Put, BotInv, BotTypeOK
  <2> QED BY <1>3, <2>2 DEF Put, BotInv, UrlUsedOnce, MapsAgree, NotSending
<1> QED BY <1>1, <1>2, <1>3

\* Time, the cleanup and Stop.
LEMMA BotTimeSteps ==
  ASSUME BotInv, (\E m \in Text : Pass(m)) \/ cleanupOldTasks \/ BotStop
  PROVE  BotInv'
<1>1. ASSUME NEW m \in Text, Pass(m) PROVE BotInv'
  <2>1. age' \in [Text -> {"new", "late", "old"}]
    BY <1>1 DEF Pass, BotInv, BotTypeOK
  <2> QED BY <1>1, <2>1 DEF Pass, BotInv, BotTypeOK, UrlUsedOnce, MapsAgree
<1>2. CASE cleanupOldTasks
  <2>1. PICK Old : /\ Old \subseteq Tasks
                   /\ streamTasks' = streamTasks \ Old /\ chatTasks' = Without(chatTasks, Old \cup finished)
                   /\ canceled' = canceled \cup Old
    BY <1>2 DEF cleanupOldTasks
  <2>2. UNCHANGED <<arrived, streamClosed, finished, age, answerCh, posts, replies, sending, polling, botRunning>>
    BY <1>2 DEF cleanupOldTasks
  <2>3. Tasks \subseteq arrived
    BY DEF Tasks, BotInv, BotTypeOK
  <2>4. (Old \cup finished) \cap streamTasks' = {}
    <3>1. \A m \in streamTasks : m \notin finished BY DEF BotInv, MapsAgree
    <3> QED BY <2>1, <3>1
  <2>5. /\ chatTasks' \in Seq(arrived') /\ MapsAgree'
        /\ \A i \in DOMAIN chatTasks' : chatTasks'[i] \notin finished'
    BY <2>1, <2>2, <2>4, DropTasks
  <2>6. BotTypeOK'
    BY <2>1, <2>2, <2>3, <2>5 DEF BotInv, BotTypeOK
  <2> QED BY <2>2, <2>5, <2>6 DEF BotInv, UrlUsedOnce
<1>3. CASE BotStop
  <2>1. BotTypeOK'
    BY <1>3 DEF BotStop, BotInv, BotTypeOK
  <2> QED BY <1>3, <2>1 DEF BotStop, BotInv, UrlUsedOnce, MapsAgree
<1> QED BY <1>1, <1>2, <1>3

LEMMA BotStep == BotInv /\ [BotNext]_botVars => BotInv'
<1>1. ASSUME BotInv, UNCHANGED botVars PROVE BotInv'
  BY <1>1 DEF botVars, BotInv, BotTypeOK, UrlUsedOnce, MapsAgree
<1> QED BY <1>1, BotPollSteps, BotSendSteps, BotTimeSteps DEF BotNext

\* No response_url is used twice, whichever of replies, polls and the cleanup come together.
THEOREM UrlsUsedOnce == BotSpec => [](BotTypeOK /\ UrlUsedOnce)
<1>1. BotInv => BotTypeOK /\ UrlUsedOnce
  BY DEF BotInv
<1> QED BY BotInitInv, BotStep, <1>1, PTL DEF BotSpec

\* A task WeCom can still poll is in its chat's queue, where a reply finds it, and the queue has
\* the order of arrival: for any messages, callbacks and replies.
THEOREM MapsInAgreement == BotSpec => []MapsAgree
<1>1. BotInv => MapsAgree
  BY DEF BotInv
<1> QED BY BotInitInv, BotStep, <1>1, PTL DEF BotSpec

(***************************************************************************)
(* OneBot                                                                  *)
(***************************************************************************)

\* The place of the ring that was written d messages ago, when the next one goes to i.
Slot(i, d) == IF d <= i THEN i - d ELSE (i + RingSize) - d

\* The ring holds the last ids of the history, newest last; a connection that is the channel's
\* and not canceled has a listener from the start.
OneBotInv ==
    /\ OneBotTypeOK /\ HandledOnce
    /\ \A d \in 1..RingSize :
          dedupRing[Slot(dedupIdx, d)] = IF d <= Len(recent) THEN recent[Len(recent) + 1 - d] ELSE NoId
    /\ conn # NoConn /\ service = "starting" => listener[conn] # "none"

LEMMA OneBotInitInv == OneBotInit => OneBotInv
<1> SUFFICES ASSUME OneBotInit PROVE OneBotInv
  OBVIOUS
<1>1. RingSize \in Nat \ {0} /\ NoId \notin Id
  BY OneBotAssumption
<1>2. \A d \in 1..RingSize : Slot(0, d) \in 0..(RingSize - 1)
  BY <1>1 DEF Slot
<1>3. OneBotTypeOK
  <2>1. recent \in Seq(Id) /\ Len(recent) = 0 /\ 0 <= RingSize + 1 /\ 0 \in 0..(RingSize - 1)
    BY <1>1 DEF OneBotInit
  <2>2. /\ dedupRing \in [0..(RingSize - 1) -> Id \cup {NoId}]
        /\ link \in [Conn -> {"up", "down"}] /\ listener \in [Conn -> {"none", "go", "read", "handle"}]
        /\ api \in [Request -> {"idle", "begin", "wait"}]
    BY DEF OneBotInit
  <2> QED BY <2>1, <2>2 DEF OneBotInit, OneBotTypeOK
<1>4. HandledOnce
  <2>1. \A i \in DOMAIN dedupRing : dedupRing[i] = NoId BY DEF OneBotInit
  <2> QED BY <2>1 DEF OneBotInit, HandledOnce
<1>5. \A d \in 1..RingSize : dedupRing[Slot(dedupIdx, d)] = NoId /\ ~(d <= Len(recent))
  BY <1>2 DEF OneBotInit
<1> QED BY <1>3, <1>4, <1>5 DEF OneBotInit, OneBotInv

\* A message that is remembered is none of the last dedupSize ones.
LEMMA RememberInv ==
  ASSUME OneBotInv, NEW m \in Id, m \notin dedup, Remember(m)
  PROVE  /\ dedup' \subseteq Id \cup {NoId} /\ dedupIdx' \in 0..(RingSize - 1)
         /\ dedupRing' \in [0..(RingSize - 1) -> Id \cup {NoId}]
         /\ recent' \in Seq(Id) /\ Len(recent') <= RingSize + 1
         /\ HandledOnce'
         /\ \A d \in 1..RingSize : dedupRing'[Slot(dedupIdx', d)]
               = IF d <= Len(recent') THEN recent'[Len(recent') + 1 - d] ELSE NoId
<1>1. PICK N \in Nat : N = RingSize /\ N > 0
  BY OneBotAssumption
<1>2. PICK x, y : x \in 0..(N - 1) /\ x = dedupIdx /\ y = dedupIdx' /\ y = IF x + 1 = N THEN 0 ELSE x + 1
  <2>1. \A z \in 0..(N - 1) : (z + 1) % N = IF z + 1 = N THEN 0 ELSE z + 1
    BY <1>1
  <2> QED BY <1>1, <2>1 DEF OneBotInv, OneBotTypeOK, Remember
\* The places of the ring, seen from two places in a row.
<1>3. /\ y \in 0..(N - 1) /\ Slot(y, 1) = x /\ Slot(x, N) = x
      /\ \A d \in 1..(N - 1) : Slot(y, d + 1) = Slot(x, d) /\ Slot(x, d) # x
      /\ \A d \in 1..N : Slot(x, d) \in 0..(N - 1)
      /\ \A i \in 0..(N - 1) : \E d \in 1..N : Slot(x, d) = i
  <2>1. N \in Nat /\ N > 0 /\ N = RingSize
    BY <1>1
  <2>2. y \in 0..(N - 1)
    BY <1>2, <2>1
  <2>3. Slot(y, 1) = x /\ Slot(x, N) = x
    BY <1>2, <2>1, <2>2 DEF Slot
  <2>4. \A d \in 1..(N - 1) : Slot(y, d + 1) = Slot(x, d) /\ Slot(x, d) # x
    BY <1>2, <2>1, <2>2 DEF Slot
  <2>5. \A d \in 1..N : Slot(x, d) \in 0..(N - 1)
    BY <1>2, <2>1 DEF Slot
  <2>6. ASSUME NEW i \in 0..(N - 1) PROVE \E d \in 1..N : Slot(x, d) = i
    <3>1. CASE i < x
      <4>1. x - i \in 1..N /\ Slot(x, x - i) = i BY <1>2, <2>1, <3>1 DEF Slot
      <4> QED BY <4>1
    <3>2. CASE x <= i
      <4>1. (x + N) - i \in 1..N /\ Slot(x, (x + N) - i) = i BY <1>2, <2>1, <3>2 DEF Slot
      <4> QED BY <4>1
    <3> QED BY <1>2, <2>1, <3>1, <3>2
  <2> QED BY <2>2, <2>3, <2>4, <2>5, <2>6
<1>4. PICK ring, next : /\ ring = dedupRing /\ next = dedupRing'
                        /\ ring \in [0..(N - 1) -> Id \cup {NoId}] /\ next = [ring EXCEPT ![x] = m]
  BY <1>1, <1>2 DEF OneBotInv, OneBotTypeOK, Remember
<1>5. /\ next \in [0..(N - 1) -> Id \cup {NoId}] /\ next[x] = m
      /\ \A i \in 0..(N - 1) : i # x => next[i] = ring[i]
  BY <1>2, <1>4
<1>6. PICK r \in Seq(Id), n \in Nat : r = recent /\ n = Len(r)
  BY DEF OneBotInv, OneBotTypeOK
<1>7. /\ n <= N + 1
      /\ \A i, j \in 1..n : i # j => r[i] # r[j]
      /\ \A d \in 1..N : ring[Slot(x, d)] = IF d <= n THEN r[n + 1 - d] ELSE NoId
      /\ dedup \ {NoId} = {ring[i] : i \in 0..(N - 1)} \ {NoId}
      /\ \A i \in 1..n : r[i] \in Id
      /\ NoId \notin Id
  BY <1>1, <1>2, <1>4, <1>6, OneBotAssumption DEF OneBotInv, OneBotTypeOK, HandledOnce
\* The new history is the old one, without its first element if it was full, and the new id.
<1>8. PICK k, w, s : k = (IF n > N THEN 1 ELSE 0) /\ w = n + 1 - k /\ s = recent'
  OBVIOUS
<1>9. /\ k \in Nat /\ w \in Nat /\ 1 <= w /\ w + k = n + 1 /\ w <= N + 1
      /\ k = 0 \/ (k = 1 /\ w = N + 1)
  BY <1>1, <1>6, <1>7, <1>8
<1>10. s \in Seq(Id) /\ Len(s) = w /\ s[w] = m /\ \A i \in 1..(w - 1) : s[i] = r[i + k]
  <2>1. CASE n > N
    <3>1. k = 1 /\ w = n /\ s = Append(Tail(r), m)
      BY <1>1, <1>6, <1>8, <2>1 DEF Remember
    <3>2. PICK t : t = Tail(r) OBVIOUS
    <3>3. t \in Seq(Id) /\ Len(t) = n - 1 /\ \A i \in 1..(n - 1) : t[i] = r[i + 1]
      <4>1. r # <<>> BY <1>1, <1>6, <2>1
      <4> QED BY <1>6, <3>2, <4>1
    <3>4. s = Append(t, m) /\ (n - 1) + 1 = n BY <3>1, <3>2, <1>6
    <3>5. s \in Seq(Id) /\ Len(s) = n /\ s[n] = m /\ \A i \in 1..(n - 1) : s[i] = t[i]
      BY <1>6, <3>3, <3>4
    <3> QED BY <3>1, <3>3, <3>5
  <2>2. CASE ~(n > N)
    <3>1. k = 0 /\ w = n + 1 /\ w - 1 = n /\ s = Append(r, m)
      BY <1>1, <1>6, <1>8, <2>2 DEF Remember
    <3>2. s \in Seq(Id) /\ Len(s) = n + 1 /\ s[n + 1] = m /\ \A i \in 1..n : s[i] = r[i]
      BY <1>6, <3>1
    <3>3. \A i \in 1..n : i + k = i BY <3>1
    <3> QED BY <3>1, <3>2, <3>3
  <2> QED BY <2>1, <2>2
\* The ring and the new history.
<1>11. ASSUME NEW d \in 1..N PROVE next[Slot(y, d)] = IF d <= w THEN s[w + 1 - d] ELSE NoId
  <2>1. CASE d = 1
    <3>1. 1 <= w /\ w + 1 - d = w BY <1>9, <2>1
    <3>2. next[Slot(y, d)] = m BY <1>3, <1>5, <2>1
    <3> QED BY <1>10, <3>1, <3>2
  <2>2. CASE d # 1
    <3>1. PICK e \in 1..(N - 1) : d = e + 1 BY <2>2
    <3>2. next[Slot(y, d)] = ring[Slot(x, e)] /\ e \in 1..N
      <4>1. e \in 1..N /\ Slot(y, d) = Slot(x, e) /\ Slot(x, e) # x BY <1>3, <3>1
      <4>2. Slot(x, e) \in 0..(N - 1) BY <1>3, <4>1
      <4> QED BY <1>5, <4>1, <4>2
    <3>3. next[Slot(y, d)] = IF e <= n THEN r[n + 1 - e] ELSE NoId
      BY <1>7, <3>2
    <3>4. (d <= w) <=> (e <= n)
      BY <1>9, <3>1
    <3>5. ASSUME e <= n PROVE s[w + 1 - d] = r[n + 1 - e]
      <4>1. w + 1 - d \in 1..(w - 1) /\ (w + 1 - d) + k = n + 1 - e
        BY <1>9, <3>1, <3>4, <3>5
      <4> QED BY <1>9, <1>10, <4>1
    <3> QED BY <3>3, <3>4, <3>5
  <2> QED BY <2>1, <2>2
<1>12. \A i \in 1..w : i \in 1..(w - 1) \/ i = w
  BY <1>9
\* The new id is none of the others.
<1>13. ASSUME NEW i \in 1..(w - 1) PROVE s[i] # m /\ i + k \in 1..n
  <2>1. PICK d \in 1..N : d <= n /\ i + k = n + 1 - d
    <3>1. w - i \in 1..N /\ w - i <= n /\ i + k = n + 1 - (w - i)
      BY <1>1, <1>7, <1>9
    <3> QED BY <3>1
  <2>2. s[i] = r[i + k] /\ i + k \in 1..n
    BY <1>9, <1>10, <2>1
  <2>3. ring[Slot(x, d)] = r[i + k] /\ Slot(x, d) \in 0..(N - 1)
    BY <1>3, <1>7, <2>1
  <2>4. r[i + k] \in dedup
    BY <1>7, <2>2, <2>3
  <2> QED BY <2>2, <2>4
<1>14. \A i, j \in 1..w : i # j => s[i] # s[j]
  <2>1. \A i, j \in 1..(w - 1) : i # j => s[i] # s[j]
    <3> SUFFICES ASSUME NEW i \in 1..(w - 1), NEW j \in 1..(w - 1), i # j PROVE s[i] # s[j]
      OBVIOUS
    <3>1. i + k # j + k /\ i + k \in 1..n /\ j + k \in 1..n BY <1>13, <1>9
    <3> QED BY <1>7, <1>9, <1>10, <3>1
  <2> QED BY <1>9, <1>10, <1>12, <1>13, <2>1
\* The id that leaves the set is nowhere else in the ring.
<1>15. ASSUME NEW i \in 0..(N - 1), i # x, ring[i] # NoId PROVE ring[i] # ring[x]
  <2>1. PICK d \in 1..N : Slot(x, d) = i BY <1>3
  <2>2. d \in 1..N /\ d # N /\ N \in 1..N BY <1>3, <1>15, <2>1
  <2>3. d <= n /\ ring[i] = r[n + 1 - d] BY <1>7, <1>15, <2>1
  <2>4. CASE N <= n
    <3>1. ring[x] = r[n + 1 - N] BY <1>3, <1>7, <2>2, <2>4
    <3>2. n + 1 - d # n + 1 - N /\ n + 1 - d \in 1..n /\ n + 1 - N \in 1..n BY <1>1, <2>2, <2>3, <2>4
    <3> QED BY <1>7, <2>3, <3>1, <3>2
  <2>5. CASE ~(N <= n)
    <3>1. ring[x] = NoId BY <1>3, <1>7, <2>2, <2>5
    <3> QED BY <1>15, <3>1
  <2> QED BY <2>4, <2>5
<1>16. PICK old, new : /\ old = dedup /\ new = dedup' /\ new = (old \ {ring[x]}) \cup {m}
  BY <1>2, <1>4 DEF Remember
<1>17. new \ {NoId} = {next[i] : i \in 0..(N - 1)} \ {NoId}
  <2>1. m # NoId BY <1>7
  <2>2. ASSUME NEW e, e \in new, e # NoId PROVE \E i \in 0..(N - 1) : next[i] = e
    <3>1. CASE e = m BY <1>2, <1>5, <3>1
    <3>2. CASE e # m
      <4>1. e \in old /\ e # ring[x] BY <1>16, <2>2, <3>2
      <4>2. PICK i \in 0..(N - 1) : ring[i] = e BY <1>7, <1>16, <2>2, <4>1
      <4> QED BY <1>5, <4>1, <4>2
    <3> QED BY <3>1, <3>2
  <2>3. ASSUME NEW i \in 0..(N - 1), next[i] # NoId PROVE next[i] \in new
    <3>1. CASE i = x BY <1>5, <1>16, <3>1
    <3>2. CASE i # x
      <4>1. next[i] = ring[i] BY <1>5, <3>2
      <4>2. ring[i] \in old /\ ring[i] # ring[x] BY <1>7, <1>15, <1>16, <2>3, <3>2, <4>1
      <4> QED BY <1>16, <4>1, <4>2
    <3> QED BY <3>1, <3>2
  <2> QED BY <2>2, <2>3
<1>18. new \subseteq Id \cup {NoId}
  BY <1>16 DEF OneBotInv, OneBotTypeOK
<1>19. HandledOnce'
  <2>1. DOMAIN recent' = 1..w /\ DOMAIN dedupRing' = 0..(N - 1) BY <1>4, <1>5, <1>8, <1>10
  <2>2. \A i, j \in DOMAIN recent' : i # j => recent'[i] # recent'[j] BY <1>8, <1>14, <2>1
  <2>3. dedup' \ {NoId} = {dedupRing'[i] : i \in DOMAIN dedupRing'} \ {NoId} BY <1>4, <1>16, <1>17, <2>1
  <2> QED BY <2>2, <2>3 DEF HandledOnce
<1>20. dedupIdx' \in 0..(RingSize - 1) /\ dedupRing' \in [0..(RingSize - 1) -> Id \cup {NoId}]
  <2>1. y = dedupIdx' /\ next = dedupRing' BY <1>2, <1>4
  <2> QED BY <1>1, <1>3, <1>5, <2>1
<1>21. recent' \in Seq(Id) /\ Len(recent') <= RingSize + 1 /\ Len(recent') = w
  BY <1>1, <1>8, <1>9, <1>10
<1>22. \A d \in 1..RingSize : dedupRing'[Slot(dedupIdx', d)]
          = IF d <= Len(recent') THEN recent'[Len(recent') + 1 - d] ELSE NoId
  <2>1. y = dedupIdx' /\ next = dedupRing' /\ s = recent' BY <1>2, <1>4, <1>8
  <2>2. \A d \in 1..N : dedupRing'[Slot(dedupIdx', d)] = IF d <= w THEN recent'[w + 1 - d] ELSE NoId
    BY ONLY <1>11, <2>1
  <2> QED BY <1>1, <1>21, <2>2
<1> QED BY ONLY <1>16, <1>18, <1>19, <1>20, <1>21, <1>22

LEMMA OneBotStep == OneBotInv /\ [OneBotNext]_oneBotVars => OneBotInv'
<1> SUFFICES ASSUME OneBotInv, [OneBotNext]_oneBotVars PROVE OneBotInv'
  OBVIOUS
<1>0. NoConn \notin Conn /\ NoId \notin Id
  BY OneBotAssumption
\* What the steps other than a message leave alone, and what they may do to the rest.
<1> DEFINE Links == /\ service \in {"starting", "running", "stopping", "stopped"}
                    /\ conn \in Conn \cup {NoConn} /\ link \in [Conn -> {"up", "down"}]
                    /\ listener \in [Conn -> {"none", "go", "read", "handle"}]
                    /\ (conn # NoConn /\ service \in {"starting", "running"} => listener[conn] # "none")
                    /\ dialer \in {"dial", "fetch", "wait", "off"}
           Asks == /\ api \in [Request -> {"idle", "begin", "wait"}]
                   /\ reaction \in {"no", "set", "undone"} /\ emoji \in BOOLEAN
<1>1. Links /\ Asks
  BY DEF OneBotInv, OneBotTypeOK
<1>2. ASSUME Links', Asks', UNCHANGED dedupVars PROVE OneBotInv'
  BY <1>2 DEF OneBotInv, OneBotTypeOK, HandledOnce, dedupVars
<1>3. CASE Connect \/ ConnectFails \/ fetchSelfID \/ reconnectLoop
  BY <1>0, <1>1, <1>2, <1>3 DEF Connect, ConnectFails, fetchSelfID, reconnectLoop, Started, Request
<1>4. ASSUME NEW k \in Conn, Break(k) \/ Listen(k) PROVE OneBotInv'
  BY <1>0, <1>1, <1>2, <1>4 DEF Break, Listen, ListenBegin, ListenCanceled, ReadError, HandleMessage, Request
<1>5. ASSUME NEW k \in Conn, NEW m \in Id \cup {NoId}, ReadMessage(k, m) PROVE OneBotInv'
  <2>1. Links' /\ Asks'
    BY <1>1, <1>5 DEF ReadMessage
  <2>2. CASE m = NoId BY <1>2, <1>5, <2>1, <2>2 DEF ReadMessage
  <2>3. CASE m # NoId
    <3>1. m \in Id /\ m \notin dedup /\ Remember(m)
      BY <1>5, <2>3 DEF ReadMessage, isDuplicate
    <3>2. /\ dedup' \subseteq Id \cup {NoId} /\ dedupIdx' \in 0..(RingSize - 1)
          /\ dedupRing' \in [0..(RingSize - 1) -> Id \cup {NoId}]
          /\ recent' \in Seq(Id) /\ Len(recent') <= RingSize + 1
          /\ HandledOnce'
          /\ \A d \in 1..RingSize : dedupRing'[Slot(dedupIdx', d)]
                = IF d <= Len(recent') THEN recent'[Len(recent') + 1 - d] ELSE NoId
      BY <3>1, RememberInv
    <3> QED BY <2>1, <3>2 DEF OneBotInv, OneBotTypeOK
  <2> QED BY <2>2, <2>3
<1>6. ASSUME NEW a \in Request, Call(a) PROVE OneBotInv'
  <2>1. UNCHANGED <<service, linkVars, reaction, dedupVars>>
    BY <1>6 DEF Call, ApiWrite, ApiEnd
  <2>2. Links'
    BY <1>1, <2>1 DEF linkVars
  <2>3. api' \in [Request -> {"idle", "begin", "wait"}]
    BY <1>1, <1>6 DEF Call, ApiWrite, ApiEnd
  <2>4. emoji' \in BOOLEAN
    BY <1>1, <1>6 DEF Call, ApiWrite, ApiEnd
  <2> QED BY <1>1, <1>2, <2>1, <2>2, <2>3, <2>4
<1>7. CASE UndoReaction \/ Cancel \/ CloseConn
  BY <1>0, <1>1, <1>2, <1>7 DEF UndoReaction, Cancel, CloseConn, linkVars, Request
<1>8. CASE UNCHANGED oneBotVars
  BY <1>1, <1>2, <1>8 DEF oneBotVars, linkVars
<1> QED BY <1>3, <1>4, <1>5, <1>6, <1>7, <1>8 DEF OneBotNext

\* A message is not handled again while fewer than dedupSize others have come in between, for
\* any size of the ring, and the set of remembered ids never holds more than the ring.
THEOREM MessageHandledOnce == OneBotSpec => [](OneBotTypeOK /\ HandledOnce)
<1>1. OneBotInv => OneBotTypeOK /\ HandledOnce
  BY DEF OneBotInv
<1> QED BY OneBotInitInv, OneBotStep, <1>1, PTL DEF OneBotSpec

(***************************************************************************)
(* OperatorChannel                                                         *)
(***************************************************************************)

\* What the handshakes, the readers and Stop keep: the map holds connections that are served.
Conns ==
    /\ stopAt \in {"running", "ranging", "stopped"}
    /\ connections \subseteq Served /\ connCount \in Nat /\ IsFiniteSet(Served)
    /\ reader \in [Client -> {"off", "checked", "loop", "read", "close", "ended"}]
    /\ closed \subseteq Client
    /\ EndedForgotten

\* What those who range over the connections keep: they write to clients.
Walks ==
    /\ unread \in [Client -> 0..Window]
    /\ writeMu \in [Client -> Ranger \cup {"pinger", Nobody}]
    /\ walk \in [Ranger -> Position]
    /\ \A w \in Ranger : walk[w].step \in {"lock", "write"} => walk[w].at \in Client

LEMMA OpInvImplies == Conns /\ Walks => OpTypeOK /\ EndedForgotten
BY DEF Conns, Walks, OpTypeOK, Served

LEMMA OpInitInv == OpInit => Conns /\ Walks
<1> SUFFICES ASSUME OpInit PROVE Conns /\ Walks
  OBVIOUS
<1>1. Served = {}
  BY DEF OpInit, Served
<1>2. IsFiniteSet(Served) /\ Cardinality(Served) = 0
  BY <1>1, FS_EmptySet
<1>3. Conns
  BY <1>1, <1>2 DEF OpInit, Conns, EndedForgotten
<1>4. NotRanging \in Position /\ NotRanging.step = "idle"
  BY DEF NotRanging, Position
<1>5. Walks
  <2>1. unread \in [Client -> 0..Window] BY OperatorAssumption DEF OpInit
  <2> QED BY <1>4, <2>1 DEF OpInit, Walks
<1> QED BY <1>3, <1>5

\* Clients that connect, are served, and leave.
LEMMA OpConns ==
  ASSUME Conns, Walks, [OpNext]_opVars
  PROVE  Conns'
<1> DEFINE States == {"off", "checked", "loop", "read", "close", "ended"}
           Busy == {"loop", "read", "close"}
<1>0. /\ reader \in [Client -> States] /\ \A k \in Client : k \in Served <=> reader[k] \in Busy
      /\ Served \subseteq Client /\ Served' = {k \in Client : reader'[k] \in Busy}
  BY DEF Conns, Served
\* Steps that leave the connections alone, and move no reader into or out of its loop.
<1>1. ASSUME UNCHANGED connVars, closed' = closed, stopAt' \in {"running", "ranging", "stopped"},
             reader' \in [Client -> States],
             \A k \in Client : reader'[k] = reader[k] \/ (reader[k] \in Busy /\ reader'[k] \in Busy)
                               \/ (reader[k] = "off" /\ reader'[k] = "checked")
      PROVE  Conns'
  <2>1. Served' = Served
    BY <1>0, <1>1
  <2> QED BY <1>1, <2>1 DEF Conns, EndedForgotten, connVars
<1>2. ASSUME NEW k \in Client, Handshake(k) \/ CheckContext(k) \/ ClientSends(k) \/ ReadFails(k)
      PROVE  Conns'
  <2>1. PICK step \in States : /\ reader' = [reader EXCEPT ![k] = step]
                               /\ \/ step \in Busy /\ reader[k] \in Busy
                                  \/ step = "checked" /\ reader[k] = "off"
    <3>1. CASE Handshake(k) BY <3>1 DEF Handshake, Reads
    <3>2. CASE CheckContext(k)
      <4>1. CASE Canceled BY <3>2, <4>1 DEF CheckContext, Reads
      <4>2. CASE ~Canceled BY <3>2, <4>2 DEF CheckContext, Reads
      <4> QED BY <4>1, <4>2
    <3>3. CASE ClientSends(k) BY <3>3 DEF ClientSends, Reads
    <3>4. CASE ReadFails(k) BY <3>4 DEF ReadFails, Reads
    <3> QED BY <1>2, <3>1, <3>2, <3>3, <3>4
  <2>2. UNCHANGED connVars /\ closed' = closed /\ stopAt' = stopAt
    BY <1>2 DEF Handshake, CheckContext, ClientSends, ReadFails
  <2> QED BY <1>0, <1>1, <2>1, <2>2 DEF Conns
<1>3. ASSUME NEW k \in Client, StoreConn(k) PROVE Conns'
  <2>1. /\ reader[k] = "checked" /\ reader' = [reader EXCEPT ![k] = "loop"]
        /\ connections' = connections \cup {k} /\ connCount' = connCount + 1
        /\ closed' = closed /\ stopAt' = stopAt
    BY <1>3 DEF StoreConn, Reads
  <2>2. k \notin Served /\ Served' = Served \cup {k}
    BY <1>0, <2>1
  <2>3. IsFiniteSet(Served') /\ Cardinality(Served') = Cardinality(Served) + 1
    BY <2>2, FS_AddElement DEF Conns
  <2>4. reader' \in [Client -> States] BY <1>0, <2>1
  <2>5. connections' \subseteq Served' BY <2>1, <2>2 DEF Conns
  <2>6. \A i \in Client : reader'[i] = "ended" => i \in closed' /\ i \notin connections'
    BY <1>0, <2>1 DEF Conns, EndedForgotten
  <2> QED BY <2>1, <2>3, <2>4, <2>5, <2>6 DEF Conns, EndedForgotten
<1>4. ASSUME NEW k \in Client, CloseAtEnd(k) PROVE Conns'
  <2>1. /\ reader[k] = "close" /\ reader' = [reader EXCEPT ![k] = "ended"]
        /\ connections' = connections \ {k} /\ connCount' = connCount - 1
        /\ closed' = closed \cup {k} /\ stopAt' = stopAt
    BY <1>4 DEF CloseAtEnd, Reads
  <2>2. k \in Served /\ Served' = Served \ {k}
    BY <1>0, <2>1
  <2>3. IsFiniteSet(Served') /\ Cardinality(Served') = Cardinality(Served) - 1
    BY <2>2, FS_RemoveElement DEF Conns
  <2>4. reader' \in [Client -> States] BY <1>0, <2>1
  <2>5. connections' \subseteq Served' /\ closed' \subseteq Client BY <2>1, <2>2 DEF Conns
  <2>6. \A i \in Client : reader'[i] = "ended" => i \in closed' /\ i \notin connections'
    BY <1>0, <2>1 DEF Conns, EndedForgotten
  <2>7. connCount' \in Nat
    <3>1. Cardinality(Served') \in Nat BY <2>3, FS_CardinalityType
    <3> QED BY <2>1, <2>3, <3>1 DEF Conns, EndedForgotten
  <2> QED BY <2>1, <2>3, <2>4, <2>5, <2>6, <2>7 DEF Conns, EndedForgotten
<1>5. CASE StopVisit
  <2>1. PICK k \in Client \cup walk["stop"].left : closed' = closed \cup {k} /\ connections' = connections \ {k}
    BY <1>5 DEF StopVisit
  <2>2. k \in Client
    BY <2>1 DEF Walks, Position, Ranger
  <2>3. Served' = Served /\ UNCHANGED <<stopAt, connCount, reader>>
    BY <1>5 DEF StopVisit, Served
  <2> QED BY <2>1, <2>2, <2>3 DEF Conns, EndedForgotten
<1>6. ASSUME NEW k \in Client, Ping(k) \/ Pinged(k) \/ TakeFrame(k) PROVE Conns'
  BY <1>0, <1>1, <1>6 DEF Ping, Pinged, TakeFrame, Conns
<1>7. ASSUME NEW w \in Ranger, Visit(w) \/ LockConn(w) \/ Written(w) \/ WriteFails(w) PROVE Conns'
  BY <1>0, <1>1, <1>7 DEF Visit, LockConn, Written, WriteFails, Conns
<1>8. CASE (\E s \in Session : Broadcast(s)) \/ StopRange \/ StopCancel \/ UNCHANGED opVars
  BY <1>0, <1>1, <1>8 DEF Broadcast, StopRange, StopCancel, opVars, connVars, Conns
<1> QED BY <1>2, <1>3, <1>4, <1>5, <1>6, <1>7, <1>8 DEF OpNext, Reading

\* Those who range over the connections, and the writes.
LEMMA OpWalks ==
  ASSUME Conns, Walks, [OpNext]_opVars
  PROVE  Walks'
<1> DEFINE Steps == {"idle", "walk", "lock", "write"}
<1>0. /\ unread \in [Client -> 0..Window] /\ writeMu \in [Client -> Ranger \cup {"pinger", Nobody}]
      /\ walk \in [Ranger -> Position] /\ "send" \in Ranger /\ "stop" \in Ranger /\ Client \subseteq Ranger
      /\ \A w \in Ranger : walk[w].step \in {"lock", "write"} => walk[w].at \in Client
      /\ \A w \in Ranger : walk[w].left \subseteq Client /\ walk[w].step \in Steps /\ walk[w].at \in Client \cup {Nobody}
      /\ connections \subseteq Client /\ Window \in Nat
  BY OperatorAssumption DEF Walks, Position, Ranger, Conns, Served
\* Where a step leaves the one who ranges over the connections.
<1>1. \A left \in SUBSET Client :
         Remaining(left) \in Position /\ Remaining(left).step \in {"idle", "walk"}
  BY DEF Remaining, NotRanging, Position
<1>2. ASSUME NEW w \in Ranger, NEW p \in Position, walk' = [walk EXCEPT ![w] = p],
             p.step \in {"lock", "write"} => p.at \in Client
      PROVE  /\ walk' \in [Ranger -> Position]
             /\ \A v \in Ranger : walk'[v].step \in {"lock", "write"} => walk'[v].at \in Client
  BY <1>0, <1>2
<1>3. ASSUME NEW w \in Ranger, NEW left \in SUBSET Client, Ranging(w, left)
      PROVE  /\ walk' \in [Ranger -> Position]
             /\ \A v \in Ranger : walk'[v].step \in {"lock", "write"} => walk'[v].at \in Client
  <2>1. PICK p \in Position : p = Remaining(left) /\ p.step \in {"idle", "walk"}
    BY <1>1
  <2> QED BY <1>2, <1>3, <2>1 DEF Ranging
<1>4. ASSUME NEW w \in Ranger, NEW step \in Steps, NEW k \in Client, NEW left \in SUBSET Client, At(w, step, k, left)
      PROVE  /\ walk' \in [Ranger -> Position]
             /\ \A v \in Ranger : walk'[v].step \in {"lock", "write"} => walk'[v].at \in Client
  <2>1. [step |-> step, at |-> k, left |-> left] \in Position
    BY DEF Position
  <2> QED BY <1>0, <1>4, <2>1 DEF At
<1>5. ASSUME NEW k \in Client, Free(k), PutFrame(k)
      PROVE  unread' \in [Client -> 0..Window]
  <2>1. CASE k \in closed BY <1>0, <1>5, <2>1 DEF PutFrame
  <2>2. CASE k \notin closed
    <3>1. unread[k] + 1 \in 0..Window BY <1>0, <1>5, <2>2 DEF Free
    <3> QED BY <1>0, <1>5, <2>2, <3>1 DEF PutFrame
  <2> QED BY <2>1, <2>2
<1>6. ASSUME UNCHANGED <<unread, writeMu, walk>> PROVE Walks'
  BY <1>6 DEF Walks
<1>7. ASSUME NEW k \in Client, Handshake(k) \/ CheckContext(k) \/ ReadFails(k) \/ CloseAtEnd(k) PROVE Walks'
  BY <1>6, <1>7 DEF Handshake, CheckContext, ReadFails, CloseAtEnd
<1>8. CASE StopCancel \/ UNCHANGED opVars
  BY <1>6, <1>8 DEF StopCancel, opVars
<1>9. ASSUME NEW k \in Client, StoreConn(k) PROVE Walks'
  <2>1. UNCHANGED <<unread, writeMu>>
    BY <1>9 DEF StoreConn
  <2>2. CASE UNCHANGED walk BY <1>6, <2>1, <2>2
  <2>3. CASE walk["stop"].step = "walk" /\ walk' = [walk EXCEPT !["stop"].left = @ \cup {k}]
    <3>1. PICK p : /\ p \in Position /\ walk' = [walk EXCEPT !["stop"] = p] /\ p.step = "walk"
      <4>1. [walk["stop"] EXCEPT !.left = @ \cup {k}] \in Position
            /\ [walk["stop"] EXCEPT !.left = @ \cup {k}].step = "walk"
        BY <1>0, <2>3 DEF Position
      <4>2. walk' = [walk EXCEPT !["stop"] = [walk["stop"] EXCEPT !.left = @ \cup {k}]]
        BY <2>3
      <4> QED BY <4>1, <4>2
    <3> QED BY <1>0, <1>2, <2>1, <3>1 DEF Walks
  <2> QED BY <1>9, <2>2, <2>3 DEF StoreConn
<1>10. ASSUME NEW k \in Client, ClientSends(k) PROVE Walks'
  <2>1. PICK left \in SUBSET Client : Ranging(k, left)
    BY <1>0, <1>10 DEF ClientSends, Members
  <2> QED BY <1>0, <1>3, <1>10, <2>1 DEF Walks, ClientSends
<1>11. ASSUME NEW k \in Client, Ping(k) \/ Pinged(k) \/ TakeFrame(k) PROVE Walks'
  <2>1. UNCHANGED walk
    BY <1>11 DEF Ping, Pinged, TakeFrame
  <2>2. writeMu' \in [Client -> Ranger \cup {"pinger", Nobody}]
    BY <1>0, <1>11 DEF Ping, Pinged, TakeFrame
  <2>3. unread' \in [Client -> 0..Window]
    BY <1>0, <1>5, <1>11 DEF Ping, Pinged, TakeFrame
  <2> QED BY <2>1, <2>2, <2>3 DEF Walks
<1>12. ASSUME NEW w \in Ranger, Visit(w) PROVE Walks'
  <2>1. UNCHANGED <<unread, writeMu>>
    BY <1>12 DEF Visit
  <2>2. PICK k \in Client : \/ Ranging(w, walk[w].left \ {k})
                            \/ At(w, "lock", k, walk[w].left \ {k})
    BY <1>0, <1>12 DEF Visit
  <2>3. walk[w].left \ {k} \in SUBSET Client
    BY <1>0
  <2> QED BY <1>0, <1>3, <1>4, <2>1, <2>2, <2>3 DEF Walks
<1>13. ASSUME NEW w \in Ranger, LockConn(w) \/ Written(w) PROVE Walks'
  <2>1. PICK k \in Client, left \in SUBSET Client : k = walk[w].at /\ left = walk[w].left
    BY <1>0, <1>13 DEF LockConn, Written
  <2>2. \/ Free(k) /\ PutFrame(k) /\ Ranging(w, left)
        \/ At(w, "write", k, left) /\ unread' = unread
    BY <1>13, <2>1 DEF LockConn, Written
  <2>3. writeMu' = writeMu \/ writeMu' = [writeMu EXCEPT ![k] = w] \/ writeMu' = [writeMu EXCEPT ![k] = Nobody]
    BY <1>13, <2>1 DEF LockConn, Written
  <2>4. writeMu' \in [Client -> Ranger \cup {"pinger", Nobody}]
    BY <1>0, <2>3
  <2> QED BY <1>0, <1>3, <1>4, <1>5, <2>2, <2>4 DEF Walks
<1>14. ASSUME NEW w \in Ranger, WriteFails(w) PROVE Walks'
  <2>1. PICK k \in Client, left \in SUBSET Client : k = walk[w].at /\ left = walk[w].left
    BY <1>0, <1>14 DEF WriteFails
  <2>2. /\ writeMu' = [writeMu EXCEPT ![k] = Nobody] /\ Ranging(w, left) /\ unread' = unread
    BY <1>14, <2>1 DEF WriteFails
  <2> QED BY <1>0, <1>3, <2>2 DEF Walks
<1>15. CASE (\E s \in Session : Broadcast(s)) \/ StopRange
  <2>1. PICK w \in Ranger, left \in SUBSET Client : Ranging(w, left)
    BY <1>0, <1>15 DEF Broadcast, StopRange, Members
  <2> QED BY <1>0, <1>3, <1>15, <2>1 DEF Walks, Broadcast, StopRange
<1>16. CASE StopVisit
  <2>1. PICK k : walk' = [walk EXCEPT !["stop"] = Remaining(@.left \ {k})] /\ UNCHANGED <<unread, writeMu>>
    BY <1>16 DEF StopVisit
  <2>2. walk["stop"].left \ {k} \in SUBSET Client /\ Ranging("stop", walk["stop"].left \ {k})
    BY <1>0, <2>1 DEF Ranging
  <2> QED BY <1>0, <1>3, <2>1, <2>2 DEF Walks
<1> QED BY <1>7, <1>8, <1>9, <1>10, <1>11, <1>12, <1>13, <1>14, <1>15, <1>16 DEF OpNext, Reading

\* A connection whose reader has ended is closed and forgotten, and the count is that of the
\* clients still served, for any clients, sessions and limits, and however many broadcasts,
\* writes that block and a Stop run meanwhile.
THEOREM ConnectionsForgotten == OpSpec => [](OpTypeOK /\ EndedForgotten)
<1>1. OpInit => Conns /\ Walks
  BY OpInitInv
<1>2. Conns /\ Walks /\ [OpNext]_opVars => (Conns /\ Walks)'
  BY OpConns, OpWalks
<1>3. Conns /\ Walks => OpTypeOK /\ EndedForgotten
  BY OpInvImplies
<1> QED BY <1>1, <1>2, <1>3, PTL DEF OpSpec

(***************************************************************************)
(* WhatsApp                                                                *)
(***************************************************************************)

\* A goroutine has a client only while it connects it; c.client is the last client made, and its
\* store is open; before a client is made, and while there is none to be stopped, no goroutine
\* holds an older one.
WaInv ==
    /\ WaTypeOK /\ StoreOutlivesUsers
    /\ event <= drops
    /\ \A r \in Reconnecter : again[r].client # NoClient <=> again[r].step = "connect"
    /\ client # NoClient => store[client] = "open"
    /\ calls = "open" => made < MaxStart
    /\ calls = "connect" => client # NoClient
    /\ calls \in {"stopped", "open"} => client = NoClient
    /\ calls \in {"cancel", "disconnect", "wait", "clear"} => stopping
    /\ calls = "stopped" /\ ~stopping => event = 0 /\ online = {} /\ Group = {}
    /\ hurried \/ (calls = "open" => \A r \in Reconnecter : again[r].client = NoClient)

LEMMA WaInitInv == WaInit => WaInv
<1> SUFFICES ASSUME WaInit PROVE WaInv
  OBVIOUS
<1>1. \A r \in Reconnecter : again[r] = NotAgain
  BY DEF WaInit
<1>2. Group = {}
  BY <1>1 DEF Group, NotAgain
<1>3. again \in [Reconnecter -> [step : {"off", "check", "connect", "leave", "done"},
                                 client : WaClient \cup {NoClient}]]
  BY DEF WaInit, NotAgain
<1>4. WaTypeOK
  <2>1. 0 \in 0..MaxStart /\ 0 \in 0..MaxDrop
    BY WhatsAppAssumption
  <2> QED BY <1>3, <2>1 DEF WaInit, WaTypeOK
<1> QED BY <1>1, <1>2, <1>4, WhatsAppAssumption DEF WaInit, WaInv, StoreOutlivesUsers, GroupEmpty, NotAgain

\* Start and Stop, which exclude each other.
LEMMA WaCallSteps ==
  ASSUME WaInv,
         \/ StartReset \/ OpenFails \/ OpenStore \/ StartFails \/ StartConnects
         \/ StopMark \/ CancelRun \/ Disconnect \/ WaitGroupDone \/ WaitTooLong \/ ClearClient
  PROVE  WaInv'
<1>0. UNCHANGED <<again, event, drops>> /\ Group' = Group
  BY DEF StartReset, OpenFails, OpenStore, StartFails, StartConnects, StopMark, CancelRun, Disconnect,
         WaitGroupDone, WaitTooLong, ClearClient, clientVars, flagVars, goVars, countVars, Group
<1>1. /\ NoClient \notin WaClient /\ MaxStart \in Nat
      /\ \A r \in Group : r \in Reconnecter
      /\ \A r \in Reconnecter : again[r].client # NoClient => r \in Group
  BY WhatsAppAssumption DEF WaClient, Group, WaInv
<1>2. CASE StartReset \/ OpenFails \/ CancelRun \/ WaitGroupDone \/ WaitTooLong \/ StopMark
  <2>1. CASE StartReset
    BY <1>0, <1>1, <1>2, <2>1 DEF StartReset, clientVars, goVars, countVars, WaInv, WaTypeOK,
         StoreOutlivesUsers, GroupEmpty
  <2>2. CASE OpenFails \/ StopMark \/ CancelRun
    BY <1>0, <1>1, <2>2 DEF OpenFails, StopMark, CancelRun, clientVars, flagVars, goVars, countVars,
         WaInv, WaTypeOK, StoreOutlivesUsers, GroupEmpty
  <2>3. CASE WaitGroupDone
    BY <1>0, <1>1, <2>3 DEF WaitGroupDone, clientVars, flagVars, goVars, countVars,
         WaInv, WaTypeOK, StoreOutlivesUsers, GroupEmpty
  <2>4. CASE WaitTooLong
    <3>1. calls' = "clear" /\ calls = "wait" /\ hurried' = TRUE /\ UNCHANGED <<clientVars, flagVars, goVars>>
      BY <2>4 DEF WaitTooLong
    <3>2. WaTypeOK' /\ event' <= drops'
      BY <1>0, <3>1 DEF WaInv, WaTypeOK, clientVars, flagVars, goVars
    <3> QED BY <1>0, <3>1, <3>2 DEF WaInv, StoreOutlivesUsers, clientVars, flagVars, goVars
  <2> QED BY <1>2, <2>1, <2>2, <2>3, <2>4
<1>3. CASE OpenStore
  <2>1. PICK k \in WaClient : k = made + 1
    BY <1>1, <1>3 DEF OpenStore, WaInv, WaTypeOK, WaClient
  <2>2. /\ made' = k /\ client' = k /\ store' = [store EXCEPT ![k] = "open"] /\ runCanceled' = FALSE
        /\ calls = "open" /\ calls' = "connect" /\ UNCHANGED <<online, stopping, reconnecting, qr, hurried>>
    BY <1>3, <2>1 DEF OpenStore, goVars, countVars
  <2>3. made' \in 0..MaxStart
    BY <1>1, <2>1, <2>2 DEF WaInv, WaTypeOK, WaClient
  <2> QED BY <1>0, <1>1, <2>2, <2>3 DEF WaInv, WaTypeOK, StoreOutlivesUsers
<1>4. CASE StartFails
  BY <1>0, <1>1, <1>4 DEF StartFails, countVars, goVars, WaInv, WaTypeOK,
       StoreOutlivesUsers
<1>4b. CASE StartConnects \/ Disconnect
  BY <1>0, <1>1, <1>4b DEF StartConnects, Disconnect, flagVars, countVars, goVars, WaInv, WaTypeOK,
       StoreOutlivesUsers
<1>5. CASE ClearClient
  BY <1>0, <1>1, <1>5 DEF ClearClient, flagVars, countVars, goVars, WaInv, WaTypeOK, StoreOutlivesUsers, GroupEmpty
<1> QED BY <1>2, <1>3, <1>4, <1>4b, <1>5

\* The server, the event handler and the goroutines.
LEMMA WaGoSteps ==
  ASSUME WaInv,
         \/ EndQR \/ eventHandler
         \/ \E k \in WaClient : Drop(k)
         \/ \E r \in Reconnecter : reconnectWithBackoff(r)
  PROVE  WaInv'
<1> DEFINE AgainState == [step : {"off", "check", "connect", "leave", "done"}, client : WaClient \cup {NoClient}]
<1>1. /\ NoClient \notin WaClient /\ MaxStart \in Nat /\ MaxDrop \in Nat
      /\ \A r \in Group : r \in Reconnecter
      /\ \A r \in Reconnecter : r \in Group <=> again[r].step # "off"
      /\ \A r \in Reconnecter : again[r].client # NoClient => r \in Group
      /\ again \in [Reconnecter -> AgainState]
      /\ Group' = {r \in Reconnecter : again'[r].step # "off"}
  BY WhatsAppAssumption DEF WaClient, Group, WaInv, WaTypeOK
<1>2. CASE EndQR
  BY <1>1, <1>2 DEF EndQR, clientVars, flagVars, countVars, WaInv, WaTypeOK, StoreOutlivesUsers, GroupEmpty, Group
<1>3. ASSUME NEW k \in WaClient, Drop(k) PROVE WaInv'
  <2>1. /\ k \in online /\ online' = online \ {k} /\ event' = event + 1 /\ drops' = drops + 1 /\ drops < MaxDrop
        /\ UNCHANGED <<calls, made, client, store, runCanceled, stopping, reconnecting, qr, again, hurried>>
    BY <1>3 DEF Drop, flagVars
  <2>2. event' \in 0..MaxDrop /\ drops' \in 0..MaxDrop /\ event' <= drops'
    BY <1>1, <2>1 DEF WaInv, WaTypeOK
  <2>3. ~(calls = "stopped" /\ ~stopping)
    BY <2>1 DEF WaInv
  <2> QED BY <1>1, <2>1, <2>2, <2>3 DEF WaInv, WaTypeOK, StoreOutlivesUsers, GroupEmpty, Group
\* What a goroutine, new or old, leaves.
<1>4. ASSUME NEW r \in Reconnecter, NEW step \in {"off", "check", "connect", "leave", "done"},
             NEW k \in WaClient \cup {NoClient}, again' = [again EXCEPT ![r] = [step |-> step, client |-> k]],
             k # NoClient <=> step = "connect"
      PROVE  /\ again' \in [Reconnecter -> AgainState]
             /\ \A i \in Reconnecter : again'[i].client # NoClient <=> again'[i].step = "connect"
             /\ again'[r].client = k /\ again'[r].step = step
             /\ \A i \in Reconnecter \ {r} : again'[i] = again[i]
  BY <1>1, <1>4 DEF WaInv
<1>5. CASE eventHandler
  <2>1. /\ event > 0 /\ event' = event - 1
        /\ UNCHANGED <<calls, made, client, online, store, runCanceled, stopping, qr, drops, hurried>>
    BY <1>5 DEF eventHandler, clientVars, countVars
  <2>2. event' \in 0..MaxDrop /\ event' <= drops /\ event # 0
    BY <1>1, <2>1 DEF WaInv, WaTypeOK
  <2>3. CASE UNCHANGED <<reconnecting, again>>
    BY <1>1, <2>1, <2>2, <2>3 DEF WaInv, WaTypeOK, StoreOutlivesUsers, GroupEmpty, Group
  <2>4. CASE ~stopping /\ reconnecting' = TRUE /\ SpawnAgain
    <3>1. PICK r \in Reconnecter : again' = [again EXCEPT ![r] = [step |-> "check", client |-> NoClient]]
      BY <2>4 DEF SpawnAgain
    <3>2. /\ again' \in [Reconnecter -> AgainState]
          /\ \A i \in Reconnecter : again'[i].client # NoClient <=> again'[i].step = "connect"
          /\ again'[r].client = NoClient
          /\ \A i \in Reconnecter \ {r} : again'[i] = again[i]
      BY <1>4, <3>1
    <3>3. calls \notin {"stopped", "clear", "cancel", "disconnect", "wait"}
      BY <2>2, <2>4 DEF WaInv
    <3> QED BY <1>1, <2>1, <2>2, <2>4, <3>2, <3>3 DEF WaInv, WaTypeOK, StoreOutlivesUsers
  <2> QED BY <1>5, <2>3, <2>4 DEF eventHandler
<1>6. ASSUME NEW r \in Reconnecter, reconnectWithBackoff(r) PROVE WaInv'
  <2>1. UNCHANGED <<calls, made, client, store, runCanceled, stopping, qr, event, drops, hurried>>
    BY <1>6 DEF reconnectWithBackoff, AgainCheck, AgainConnects, AgainFails, AgainLeaves, AgainDone,
         clientVars, flagVars, countVars
  <2>2. online' \subseteq WaClient /\ reconnecting' \in BOOLEAN
    BY <1>1, <1>6 DEF reconnectWithBackoff, AgainCheck, AgainConnects, AgainFails, AgainLeaves, AgainDone,
         clientVars, flagVars, WaInv, WaTypeOK
  <2>3. PICK step \in {"off", "check", "connect", "leave", "done"}, k \in WaClient \cup {NoClient} :
           /\ again' = [again EXCEPT ![r] = [step |-> step, client |-> k]]
           /\ k # NoClient <=> step = "connect"
           /\ k # NoClient => k = client
    BY <1>1, <1>6 DEF reconnectWithBackoff, AgainCheck, AgainConnects, AgainFails, AgainLeaves, AgainDone, AgainGoes,
         WaInv, WaTypeOK
  <2>4. /\ again' \in [Reconnecter -> AgainState]
        /\ \A i \in Reconnecter : again'[i].client # NoClient <=> again'[i].step = "connect"
        /\ again'[r].client = k /\ again'[r].step = step
        /\ \A i \in Reconnecter \ {r} : again'[i] = again[i]
    BY <1>4, <2>3
  <2>5. r \in Group
    BY <1>1, <1>6 DEF reconnectWithBackoff, AgainCheck, AgainConnects, AgainFails, AgainLeaves, AgainDone
  <2>6. Group' \subseteq Group
    BY <1>1, <2>4, <2>5
  <2> QED BY <1>1, <2>1, <2>2, <2>3, <2>4, <2>5, <2>6 DEF WaInv, WaTypeOK, StoreOutlivesUsers, GroupEmpty
<1> QED BY <1>2, <1>3, <1>5, <1>6

LEMMA WaStep == WaInv /\ [WaNext]_waVars => WaInv'
<1>1. ASSUME WaInv, UNCHANGED waVars PROVE WaInv'
  BY <1>1 DEF waVars, clientVars, flagVars, goVars, countVars, WaInv, WaTypeOK, StoreOutlivesUsers, GroupEmpty, Group
<1> QED BY <1>1, WaCallSteps, WaGoSteps DEF WaNext

\* None of the goroutines is left when a Stop that was not cut short closes the store, however
\* often the channel is started and whatever events of earlier connections come late.
THEOREM StoreClosedLast == WaSpec => [](WaTypeOK /\ StoreOutlivesUsers)
<1>1. WaInv => WaTypeOK /\ StoreOutlivesUsers
  BY DEF WaInv
<1> QED BY WaInitInv, WaStep, <1>1, PTL DEF WaSpec

(***************************************************************************)
(* The five side by side, as MCChats has them                              *)
(***************************************************************************)

ChatsInv == PreInv /\ BotInv /\ OneBotInv /\ Conns /\ Walks /\ WaInv

LEMMA ChatsInitInv == ChatsInit => ChatsInv
BY PreInitInv, BotInitInv, OneBotInitInv, OpInitInv, WaInitInv DEF ChatsInit, ChatsInv

\* The part that takes a step keeps its invariant, the others stand still.
LEMMA ChatsStep == ChatsInv /\ [ChatsNext]_chatsVars => ChatsInv'
<1>1. PreInv /\ ([PresenceNext]_presenceVars) => PreInv'
  BY PreStep
<1>2. BotInv /\ ([BotNext]_botVars) => BotInv'
  BY BotStep
<1>3. OneBotInv /\ ([OneBotNext]_oneBotVars) => OneBotInv'
  BY OneBotStep
<1>4. Conns /\ Walks /\ ([OpNext]_opVars) => Conns' /\ Walks'
  BY OpConns, OpWalks
<1>5. WaInv /\ ([WaNext]_waVars) => WaInv'
  BY WaStep
<1> QED BY <1>1, <1>2, <1>3, <1>4, <1>5
     DEF ChatsNext, chatsVars, Presenting, Polling, Listening, Serving, Pairing, ChatsInv

\* The variables of the five keep their types, also the counters and positions that one action
\* reads after another has changed them.
THEOREM ChatsTypes == ChatsSpec => []TypeOK
<1>1. ChatsInv => TypeOK
  BY OpInvImplies DEF ChatsInv, PreInv, BotInv, OneBotInv, WaInv, TypeOK
<1> QED BY ChatsInitInv, ChatsStep, <1>1, PTL DEF ChatsSpec
=============================================================================
