---------------------------- MODULE HistoryProofs ----------------------------
(***************************************************************************)
(* Proofs about the numbers used last: they stay linked in the order of    *)
(* their last use, for any numbers and any history, restarts included.     *)
(***************************************************************************)
EXTENDS History, ListLemmas

(* What makes LinkedByUse inductive: two numbers are never used at the     *)
(* same time, a node that is not the first knows the one before it, and a  *)
(* number without a node has no pointers yet.                              *)
UseTimes ==
  /\ \A n \in known : lastUse[n] <= clock
  /\ \A m, n \in known : m # n => lastUse[m] # lastUse[n]

Behind ==
  /\ \A n \in known \ {first} : prev[n] \in known /\ next[prev[n]] = n
  /\ \A n \in Numbers \ known : next[n] = None

RecentInv == LinksTypeOK /\ UseTimes /\ Behind /\ LinkedByUse

-----------------------------------------------------------------------------
(* Both ways the program starts leave an empty list. *)
LEMMA RecentStarts == RecentInit => RecentInv
<1> SUFFICES ASSUME RecentInit PROVE RecentInv
  OBVIOUS
<1>1. LinksTypeOK
  BY DEF RecentInit, LinksTypeOK
<1>2. UseTimes /\ Behind /\ LinkedByUse
  BY DEF RecentInit, UseTimes, Behind, LinkedByUse
<1> QED
  BY <1>1, <1>2 DEF RecentInv

LEMMA RecentRestarts == RecentReset => RecentInv'
<1> SUFFICES ASSUME RecentReset PROVE RecentInv'
  OBVIOUS
<1>1. LinksTypeOK'
  BY DEF RecentReset, LinksTypeOK
<1>2. (UseTimes /\ Behind /\ LinkedByUse)'
  BY DEF RecentReset, UseTimes, Behind, LinkedByUse
<1> QED
  BY <1>1, <1>2 DEF RecentInv

(* A step that leaves the links alone. *)
LEMMA RecentKept ==
  ASSUME RecentInv, UNCHANGED <<links, lastUse, clock>>
  PROVE  RecentInv'
BY DEF RecentInv, LinksTypeOK, UseTimes, Behind, LinkedByUse, LaterThan, links

(* The first number is used again. *)
LEMMA FirstAgain ==
  ASSUME RecentInv, NEW n \in Numbers, n = first, UNCHANGED links,
         clock' = clock + 1, lastUse' = [lastUse EXCEPT ![n] = clock + 1]
  PROVE  RecentInv'
<1> USE RecentAssumption DEF RecentInv, LinksTypeOK, links
<1>1. LinksTypeOK'
  OBVIOUS
<1>2. n \in known
  BY DEF LinkedByUse
<1>3. UseTimes'
  BY DEF UseTimes
<1>4. Behind'
  BY DEF Behind
<1>5. \A m \in known \ {n} : lastUse'[m] = lastUse[m] /\ lastUse'[n] > lastUse[m]
  BY DEF UseTimes
<1>6. LinkedByUse'
  BY <1>2, <1>5 DEF LinkedByUse, LaterThan
<1> QED
  BY <1>1, <1>3, <1>4, <1>6

(* Another number comes to the front. *)
LEMMA PushKeeps ==
  ASSUME RecentInv, NEW n \in Numbers, Push(n),
         clock' = clock + 1, lastUse' = [lastUse EXCEPT ![n] = clock + 1]
  PROVE  RecentInv'
<1> USE RecentAssumption DEF RecentInv, LinksTypeOK
<1> DEFINE p == prev[n]  x == next[n]
<1>1. /\ n # first /\ first' = n /\ known' = known \union {n}
      /\ first # None <=> known # {}
      /\ first # None => first \in known
  BY DEF Push, LinkedByUse
<1>2. \A m \in known \ {n} : lastUse'[m] = lastUse[m] /\ lastUse'[n] > lastUse[m]
  BY DEF UseTimes
<1>3. UseTimes'
  BY <1>1, <1>2 DEF UseTimes
<1>4. CASE n \notin known
  <2>1. prev' = At(prev, first, n)
    BY <1>4 DEF Push, Unlinked
  <2>2. next' = IF first = None THEN next ELSE [next EXCEPT ![n] = first]
    BY <1>4 DEF Push, Unlinked
  <2>3. LinksTypeOK'
    BY <2>1, <2>2, <1>1 DEF At
  <2>4. Behind'
    BY <2>1, <2>2, <1>1, <1>4 DEF At, Behind, LinkedByUse
  <2>5. LinkedByUse'
    BY <2>1, <2>2, <1>1, <1>2, <1>4 DEF At, Behind, LinkedByUse, LaterThan
  <2> QED
    BY <1>3, <2>3, <2>4, <2>5
<1>5. CASE n \in known
  <2>0. /\ first \in known /\ p \in known /\ next[p] = n /\ p # n
        /\ x \in known \union {None} /\ x # n /\ x # p
        /\ x # None => prev[x] = n /\ LaterThan(n, x)
        /\ LaterThan(p, n)
    BY <1>1, <1>5 DEF Behind, LinkedByUse, LaterThan
  <2>1. prev' = At(At(prev, x, p), first, n)
    BY <1>5 DEF Push, Unlinked
  <2>2. next' = [next EXCEPT ![p] = x, ![n] = first]
    BY <1>5, <2>0 DEF Push, Unlinked, At
  <2>3. LinksTypeOK'
    BY <2>0, <2>1, <2>2, <1>1 DEF At
  <2>4. \A m \in known \ {p, n} : next'[m] = next[m]
    BY <2>2
  <2>5. next'[p] = x /\ next'[n] = first
    BY <2>0, <2>2
  <2>6. x # None => x # first /\ prev'[x] = p
    BY <2>0, <2>1 DEF At, LinkedByUse, LaterThan
  <2>7. prev'[first] = n
    BY <2>0, <2>1 DEF At
  <2>8. \A m \in known \ {x, first} : prev'[m] = prev[m]
    BY <2>0, <2>1 DEF At
  <2>9. \A m \in known \ {p} : next[m] # n
    BY <2>0 DEF LinkedByUse, LaterThan
  <2>10. Behind'
    <3>1. \A m \in known \ {n} : prev'[m] \in known /\ next'[prev'[m]] = m
      <4> SUFFICES ASSUME NEW m \in known \ {n} PROVE prev'[m] \in known /\ next'[prev'[m]] = m
        OBVIOUS
      <4>1. CASE m = first
        BY <4>1, <1>5, <2>5, <2>7
      <4>2. CASE m = x
        BY <4>2, <2>0, <2>5, <2>6
      <4>3. CASE m \notin {first, x}
        <5>1. prev'[m] = prev[m] /\ prev[m] \in known /\ next[prev[m]] = m
          BY <4>3, <2>8 DEF Behind
        <5>2. prev[m] \notin {p, n}
          BY <5>1, <4>3, <2>0
        <5> QED
          BY <5>1, <5>2, <2>4
      <4> QED
        BY <4>1, <4>2, <4>3
    <3>2. \A m \in Numbers \ known : next'[m] = None
      BY <2>0, <2>2, <1>5 DEF Behind
    <3> QED
      BY <3>1, <3>2, <1>1, <1>5 DEF Behind
  <2>11. LinkedByUse'
    <3> DEFINE Older(a, b) == lastUse'[a] > lastUse'[b]
    <3>1. \A m \in known \ {n} : Older(n, m)
      BY <1>2
    <3>2. \A a, b \in known \ {n} : Older(a, b) <=> LaterThan(a, b)
      BY <1>2 DEF LaterThan
    <3>3. \A m \in known : next'[m] = None => \A b \in known \ {m} : Older(b, m)
      <4> SUFFICES ASSUME NEW m \in known, next'[m] = None, NEW b \in known \ {m} PROVE Older(b, m)
        OBVIOUS
      <4>1. m # n
        BY <2>0, <2>5
      <4>2. CASE b = n
        BY <4>1, <4>2, <3>1
      <4>3. CASE b # n /\ m = p
        BY <4>1, <4>3, <3>2, <2>0, <2>5 DEF LinkedByUse, LaterThan
      <4>4. CASE b # n /\ m # p
        BY <4>1, <4>4, <3>2, <2>4 DEF LinkedByUse
      <4> QED
        BY <4>2, <4>3, <4>4
    <3>4. \A m \in known : next'[m] # None =>
            next'[m] \in known /\ Older(m, next'[m]) /\ prev'[next'[m]] = m
      <4> SUFFICES ASSUME NEW m \in known, next'[m] # None
                   PROVE  next'[m] \in known /\ Older(m, next'[m]) /\ prev'[next'[m]] = m
        OBVIOUS
      <4>1. CASE m = n
        BY <4>1, <2>0, <2>5, <2>7, <3>1, <1>1
      <4>2. CASE m = p
        BY <4>2, <2>0, <2>5, <2>6, <3>2 DEF LaterThan
      <4>3. CASE m \notin {n, p}
        <5>1. next'[m] = next[m] /\ next[m] # n
          BY <4>3, <2>4, <2>9
        <5>2. next[m] \in known /\ LaterThan(m, next[m]) /\ prev[next[m]] = m
          BY <5>1 DEF LinkedByUse
        <5>3. next[m] \notin {x, first}
          BY <5>2, <4>3, <2>0, <1>1 DEF LinkedByUse, LaterThan
        <5> QED
          BY <5>1, <5>2, <5>3, <4>3, <3>2, <2>8
      <4> QED
        BY <4>1, <4>2, <4>3
    <3>5. \A m, b \in known : next'[m] # None /\ Older(m, b) => b = next'[m] \/ Older(next'[m], b)
      <4> SUFFICES ASSUME NEW m \in known, NEW b \in known, next'[m] # None, Older(m, b)
                   PROVE  b = next'[m] \/ Older(next'[m], b)
        OBVIOUS
      <4>0. b # n
        BY <1>2, <1>5
      <4>1. CASE m = n
        BY <4>0, <4>1, <2>0, <2>5, <3>2, <1>1 DEF LinkedByUse
      <4>2. CASE m = p
        BY <4>0, <4>2, <2>0, <2>5, <3>2 DEF LinkedByUse
      <4>3. CASE m \notin {n, p}
        BY <4>0, <4>3, <2>4, <2>9, <3>2 DEF LinkedByUse
      <4> QED
        BY <4>1, <4>2, <4>3
    <3> QED
      BY <1>1, <1>5, <2>0, <3>1, <3>3, <3>4, <3>5 DEF LinkedByUse, LaterThan
  <2> QED
    BY <1>3, <2>3, <2>10, <2>11
<1> QED
  BY <1>4, <1>5

(* Any step of the list. *)
LEMMA RecentStep == RecentInv /\ [RecentNext]_recentVars => RecentInv'
<1> SUFFICES ASSUME RecentInv, [RecentNext]_recentVars PROVE RecentInv'
  OBVIOUS
<1>1. CASE RecentReset
  BY <1>1, RecentRestarts
<1>2. CASE ReadRows
  BY <1>2, RecentKept DEF ReadRows
<1>3. ASSUME NEW n \in Numbers, Used(n) PROVE RecentInv'
  <2>1. CASE Push(n)
    BY <1>3, <2>1, PushKeeps DEF Used
  <2>2. CASE n = first /\ UNCHANGED <<links, valid, rows>>
    BY <1>3, <2>2, FirstAgain DEF Used
  <2> QED
    BY <1>3, <2>1, <2>2 DEF Used
<1>4. CASE UNCHANGED recentVars
  BY <1>4, RecentKept DEF recentVars
<1> QED
  BY <1>1, <1>2, <1>3, <1>4 DEF RecentNext

-----------------------------------------------------------------------------
(* The list keeps the order of use, whoever uses it (addCall, data).       *)
THEOREM RecentCorrect == RecentSpec => []LinkedByUse
<1>1. RecentInv => LinkedByUse
  BY DEF RecentInv
<1> QED
  BY <1>1, RecentStarts, RecentStep, PTL DEF RecentSpec

-----------------------------------------------------------------------------
(* The rows.  Following is the one function that satisfies its equation.   *)
LEMMA FollowingStepwise ==
  /\ Following[1] = first
  /\ \A i \in 1..MaxItem : i + 1 \in 1..MaxItem =>
       Following[i + 1] = IF Following[i] = None THEN None ELSE next[Following[i]]
<1> DEFINE After(x) == IF x = None THEN None ELSE next[x]
           Chain(g, n) == g = [i \in 1..n |-> IF i = 1 THEN first ELSE After(g[i - 1])]
           Some(n) == \E g : Chain(g, n)
           K == {n \in Nat : Some(n)}
<1>1. 0 \in K
  <2>1. Chain([i \in 1..0 |-> i], 0)
    OBVIOUS
  <2> QED
    BY <2>1
<1>2. ASSUME NEW n \in Nat, n \in K PROVE n + 1 \in K
  <2>1. PICK g : Chain(g, n)
    BY <1>2
  <2> DEFINE last == IF n = 0 THEN first ELSE After(g[n])
             h == [i \in 1..(n + 1) |-> IF i = n + 1 THEN last ELSE g[i]]
  <2>2. ASSUME NEW i \in 1..(n + 1) PROVE h[i] = IF i = 1 THEN first ELSE After(h[i - 1])
    <3>1. CASE i = n + 1
      <4>1. n # 0 => h[i - 1] = g[n] /\ i # 1
        BY <3>1
      <4> HIDE DEF After
      <4> QED
        BY <3>1, <4>1
    <3>2. CASE i # n + 1
      <4>1. i \in 1..n /\ h[i] = g[i] /\ (i # 1 => h[i - 1] = g[i - 1])
        BY <3>2
      <4>2. g[i] = IF i = 1 THEN first ELSE After(g[i - 1])
        <5> HIDE DEF After
        <5> QED
          BY <2>1, <4>1
      <4> HIDE DEF After, h
      <4> QED
        BY <4>1, <4>2
    <3> QED
      BY <3>1, <3>2
  <2>3. Chain(h, n + 1)
    <3> HIDE DEF After, last
    <3> QED
      BY <2>2
  <2> HIDE DEF Chain
  <2> QED
    BY <2>3
<1>3. Some(MaxItem)
  <2> HIDE DEF K, Some
  <2>1. Nat \subseteq K
    BY <1>1, <1>2, Induction, SMTT(30)
  <2> QED
    BY <2>1, RecentAssumption DEF K
<1>4. Chain(Following, MaxItem)
  <2>1. PICK g : Chain(g, MaxItem)
    BY <1>3
  <2> DEFINE f == CHOOSE g1 : g1 = [i \in 1..MaxItem |-> IF i = 1 THEN first
                        ELSE IF g1[i - 1] = None THEN None ELSE next[g1[i - 1]]]
  <2>2. Following = f
    BY DEF Following
  <2> QED
    BY <2>1, <2>2
<1> HIDE DEF After
<1>5. ASSUME NEW i \in 1..MaxItem PROVE Following[i] = IF i = 1 THEN first ELSE After(Following[i - 1])
  BY <1>4
<1>6. 1 \in 1..MaxItem
  BY RecentAssumption
<1>7. ASSUME NEW i \in 1..MaxItem, i + 1 \in 1..MaxItem PROVE Following[i + 1] = After(Following[i])
  <2>1. i + 1 # 1 /\ i + 1 - 1 = i
    OBVIOUS
  <2> QED
    BY <2>1, <1>5, <1>7
<1> QED
  BY <1>5, <1>6, <1>7 DEF After

Newer(n) == {m \in known : LaterThan(m, n)}

(* The next older number has one more that was used after it, and as long  *)
(* as some number is missing there is a next one.                          *)
LEMMA OneMore ==
  ASSUME RecentInv, IsFiniteSet(known), NEW n \in known,
         Cardinality(Newer(n)) + 1 < Cardinality(known)
  PROVE  /\ next[n] # None /\ next[n] \in known
         /\ Cardinality(Newer(next[n])) = Cardinality(Newer(n)) + 1
<1> USE DEF RecentInv, LinksTypeOK
<1>1. IsFiniteSet(Newer(n)) /\ n \notin Newer(n)
  BY FS_Subset DEF Newer, LaterThan
<1>2. Cardinality(Newer(n) \cup {n}) = Cardinality(Newer(n)) + 1
  BY <1>1, FS_AddElement
<1>3. next[n] # None
  <2> SUFFICES ASSUME next[n] = None PROVE FALSE
    OBVIOUS
  <2>1. Newer(n) \cup {n} = known
    BY DEF Newer, LinkedByUse
  <2>2. Cardinality(known) \in Nat /\ Cardinality(Newer(n)) \in Nat
    BY <1>1, FS_CardinalityType
  <2> QED
    BY <1>2, <2>1, <2>2
<1>4. next[n] \in known /\ LaterThan(n, next[n])
      /\ \A m \in known : LaterThan(n, m) => m = next[n] \/ LaterThan(next[n], m)
  BY <1>3 DEF LinkedByUse
<1>5. Newer(next[n]) = Newer(n) \cup {n}
  BY <1>4 DEF Newer, LaterThan, UseTimes
<1> QED
  BY <1>2, <1>3, <1>4, <1>5

(* What the view reads after the array was filled.                         *)
LEMMA FollowingByUse ==
  ASSUME RecentInv, IsFiniteSet(known), NEW i \in 1..RowCount
  PROVE  Following[i] \in known /\ Cardinality(Newer(Following[i])) = i - 1
<1> DEFINE Right(k) == Following[k] \in known /\ Cardinality(Newer(Following[k])) = k - 1
           K == {k \in Nat : k + 1 \in 1..RowCount => Right(k + 1)}
<1>0. /\ Cardinality(known) \in Nat /\ RowCount \in Nat /\ MaxItem \in Nat \ {0}
      /\ RowCount <= MaxItem /\ RowCount <= Cardinality(known)
  BY FS_CardinalityType, RecentAssumption DEF RowCount
<1>1. 0 \in K
  <2> SUFFICES ASSUME 1 \in 1..RowCount PROVE Right(1)
    OBVIOUS
  <2>1. known # {}
    BY <1>0, FS_EmptySet
  <2>2. first \in known /\ \A m \in known \ {first} : LaterThan(first, m)
    BY <2>1 DEF RecentInv, LinkedByUse
  <2>3. Newer(first) = {}
    BY <2>2 DEF Newer, LaterThan, RecentInv, LinksTypeOK
  <2> QED
    BY <2>2, <2>3, FollowingStepwise, FS_EmptySet
<1>2. ASSUME NEW k \in Nat, k \in K PROVE k + 1 \in K
  <2> SUFFICES ASSUME k + 1 + 1 \in 1..RowCount PROVE Right(k + 1 + 1)
    OBVIOUS
  <2>1. k + 1 \in 1..RowCount /\ k + 1 \in 1..MaxItem /\ k + 1 + 1 \in 1..MaxItem
    BY <1>0
  <2>2. Right(k + 1)
    BY <1>2, <2>1
  <2> DEFINE n == Following[k + 1]
  <2>3. n \in known /\ Cardinality(Newer(n)) = k
    BY <2>2
  <2>4. Following[k + 1 + 1] = IF n = None THEN None ELSE next[n]
    BY <2>1, FollowingStepwise
  <2>5. n # None
    BY <2>3, RecentAssumption DEF RecentInv, LinksTypeOK
  <2> HIDE DEF n
  <2>6. Cardinality(Newer(n)) + 1 < Cardinality(known)
    BY <1>0, <2>1, <2>3
  <2>7. next[n] \in known /\ Cardinality(Newer(next[n])) = k + 1
    BY <2>3, <2>6, OneMore
  <2> QED
    BY <2>4, <2>5, <2>7
<1>3. Nat \subseteq K
  <2> HIDE DEF K
  <2> QED
    BY <1>1, <1>2, Induction
<1>4. i - 1 \in Nat /\ i - 1 + 1 = i
  BY <1>0
<1>5. i - 1 \in K
  BY <1>3, <1>4
<1> HIDE DEF Right
<1>6. Right(i)
  BY <1>4, <1>5
<1> QED
  BY <1>6 DEF Right

RowsInv ==
  /\ IsFiniteSet(known)
  /\ valid \in BOOLEAN /\ rows \in [1..MaxItem -> Numbers \union {None}]
  /\ RowsRecent

LEMMA RowsStart == RecentInit => RowsInv
BY FS_EmptySet DEF RecentInit, RowsInv, RowsRecent

LEMMA RowsFilled == ASSUME RecentInv, RowsInv, ReadRows PROVE RowsInv'
<1>1. UNCHANGED <<known, lastUse>> /\ rows' = Filled /\ valid' = TRUE
  BY DEF ReadRows, links
<1>2. RowCount' = RowCount
  BY <1>1 DEF RowCount
<1>3. /\ Cardinality(known) \in Nat /\ RowCount \in Nat /\ MaxItem \in Nat \ {0}
      /\ RowCount <= MaxItem
  BY FS_CardinalityType, RecentAssumption DEF RowCount, RowsInv
<1>4. ASSUME NEW i \in 1..RowCount
      PROVE  rows'[i] \in known /\ Cardinality({m \in known : LaterThan(m, rows'[i])}) = i - 1
  <2>1. i \in 1..MaxItem
    BY <1>3
  <2>2. Following[i] \in known /\ Cardinality(Newer(Following[i])) = i - 1
    BY FollowingByUse DEF RowsInv
  <2>3. Following[i] # None
    BY <2>2, RecentAssumption DEF RecentInv, LinksTypeOK
  <2>4. rows'[i] = Following[i]
    BY <1>1, <2>1, <2>3 DEF Filled
  <2> QED
    BY <2>2, <2>4 DEF Newer
<1>5. ASSUME NEW i \in 1..MaxItem PROVE Following[i] \in Numbers \union {None}
  <2> DEFINE K == {k \in Nat : k + 1 \in 1..MaxItem => Following[k + 1] \in Numbers \union {None}}
  <2>1. 0 \in K
    BY FollowingStepwise DEF RecentInv, LinksTypeOK
  <2>2. ASSUME NEW k \in Nat, k \in K PROVE k + 1 \in K
    <3> SUFFICES ASSUME k + 1 + 1 \in 1..MaxItem PROVE Following[k + 1 + 1] \in Numbers \union {None}
      OBVIOUS
    <3>1. k + 1 \in 1..MaxItem
      BY <1>3
    <3>2. Following[k + 1 + 1] = IF Following[k + 1] = None THEN None ELSE next[Following[k + 1]]
      BY <3>1, FollowingStepwise
    <3>3. Following[k + 1] \in Numbers \union {None}
      BY <2>2, <3>1
    <3> QED
      BY <3>2, <3>3 DEF RecentInv, LinksTypeOK
  <2>3. i - 1 \in K
    <3> HIDE DEF K
    <3>1. Nat \subseteq K
      BY <2>1, <2>2, Induction
    <3> QED
      BY <3>1, <1>3
  <2> QED
    BY <2>3, <1>3
<1>6. rows' \in [1..MaxItem -> Numbers \union {None}]
  BY <1>1, <1>5 DEF Filled, RowsInv
<1> QED
  BY <1>1, <1>2, <1>4, <1>6 DEF RowsInv, RowsRecent, LaterThan

LEMMA RowsKept ==
  ASSUME RowsInv, UNCHANGED <<links, valid, rows, lastUse>>
  PROVE  RowsInv'
BY DEF RowsInv, RowsRecent, RowCount, LaterThan, links

(* The first number is used again: the rows stay, and stay right.          *)
LEMMA RowsOfFirst ==
  ASSUME RecentInv, RowsInv, NEW n \in Numbers, n = first, UNCHANGED <<links, valid, rows>>,
         clock' = clock + 1, lastUse' = [lastUse EXCEPT ![n] = clock + 1]
  PROVE  RowsInv'
<1> USE DEF RecentInv, LinksTypeOK, links
<1>1. n \in known /\ \A m \in known \ {n} : LaterThan(n, m)
  BY RecentAssumption DEF LinkedByUse
<1>2. \A m \in known \ {n} : lastUse'[m] = lastUse[m] /\ lastUse'[n] > lastUse[m]
  BY DEF UseTimes
<1>3. \A m, r \in known : (lastUse'[m] > lastUse'[r]) <=> LaterThan(m, r)
  BY <1>1, <1>2 DEF LaterThan
<1>4. ASSUME NEW r \in known
      PROVE  {m \in known : lastUse'[m] > lastUse'[r]} = {m \in known : LaterThan(m, r)}
  BY <1>3
<1>5. RowCount' = RowCount
  BY DEF RowCount
<1> QED
  BY <1>4, <1>5 DEF RowsInv, RowsRecent, LaterThan

LEMMA RowsStep == RecentInv /\ RowsInv /\ [RecentNext]_recentVars => RowsInv'
<1> SUFFICES ASSUME RecentInv, RowsInv, [RecentNext]_recentVars PROVE RowsInv'
  OBVIOUS
<1>1. CASE RecentReset
  BY <1>1, FS_EmptySet DEF RecentReset, RowsInv, RowsRecent
<1>2. CASE ReadRows
  BY <1>2, RowsFilled
<1>3. ASSUME NEW n \in Numbers, Used(n) PROVE RowsInv'
  <2>1. CASE Push(n)
    <3>1. known' = known \union {n} /\ valid' = FALSE /\ rows' = rows
      BY <2>1 DEF Push
    <3> QED
      BY <3>1, FS_AddElement DEF RowsInv, RowsRecent
  <2>2. CASE n = first /\ UNCHANGED <<links, valid, rows>>
    BY <1>3, <2>2, RowsOfFirst DEF Used
  <2> QED
    BY <1>3, <2>1, <2>2 DEF Used
<1>4. CASE UNCHANGED recentVars
  BY <1>4, RowsKept DEF recentVars
<1> QED
  BY <1>1, <1>2, <1>3, <1>4 DEF RecentNext

(* A view reads the numbers in the order of their last use, however the    *)
(* list has changed since it was read before (data, addCall).              *)
THEOREM RowsCorrect == RecentSpec => []RowsRecent
<1>1. RowsInv => RowsRecent
  BY DEF RowsInv
<1> QED
  BY <1>1, RecentStarts, RecentStep, RowsStart, RowsStep, PTL DEF RecentSpec

-----------------------------------------------------------------------------
(* What the history needs of its calls, its days and its file.             *)
Record == [day : 0..MaxDay, second : Seconds, number : Numbers, call : Nat]

CallsOk ==
  /\ added \in Seq(Record) /\ \A c \in DOMAIN added : added[c].call \in 1..c
  /\ before \in 0..Len(added) /\ unsaved \subseteq (before + 1)..Len(added)
  /\ file \in Seq(DOMAIN added)
  /\ today \in 0..MaxDay /\ started \in 0..today /\ loading \in Nat
  /\ name \in [Numbers -> Numbers \union Contacts] /\ renamed \subseteq Numbers

LEMMA CallsInit == Init => CallsOk
BY HistoryAssumption DEF Init, CallsOk

LEMMA CallFields ==
  ASSUME CallsOk, NEW c \in DOMAIN added
  PROVE  /\ added[c] \in Record /\ added[c].day \in 0..MaxDay /\ added[c].second \in Seconds
         /\ added[c].number \in Numbers /\ added[c].call \in 1..c
<1>1. added[c] \in Record
  BY SeqAt DEF CallsOk
<1> QED
  BY <1>1 DEF Record, CallsOk

(* What is added becomes the latest, and nothing else changes.             *)
LEMMA NewRecord ==
  ASSUME CallsOk, NEW e \in Record, added' = Append(added, e)
  PROVE  /\ added' \in Seq(Record) /\ Latest \in Nat /\ Len(added) \in Nat
         /\ Len(added') = Latest /\ Latest = Len(added) + 1
         /\ DOMAIN added' = 1..Latest /\ DOMAIN added = 1..Len(added)
         /\ added'[Latest] = e /\ \A x \in DOMAIN added : added'[x] = added[x]
         /\ Latest \in DOMAIN added' /\ Latest \notin DOMAIN added
         /\ DOMAIN added \subseteq DOMAIN added'
         /\ \A x \in DOMAIN added' : x \in DOMAIN added \/ x = Latest
<1>1. added \in Seq(Record)
  BY DEF CallsOk
<1> HIDE DEF Record
<1>2. /\ added' \in Seq(Record) /\ Len(added) \in Nat /\ Len(added') = Len(added) + 1
      /\ DOMAIN added = 1..Len(added) /\ DOMAIN added' = 1..(Len(added) + 1)
      /\ added'[Len(added) + 1] = e /\ \A x \in 1..Len(added) : added'[x] = added[x]
  BY <1>1
<1> QED
  BY <1>2 DEF Latest

(* A new call, and one that is added again.                                *)
LEMMA NewCall ==
  ASSUME CallsOk, NEW n \in Numbers, NEW second \in Seconds
  PROVE  LET e == [day |-> today, second |-> second, number |-> n, call |-> Latest]
         IN  e \in Record /\ e.number = n /\ e.call = Latest
BY DEF CallsOk, Record, Latest

LEMMA SeqWider ==
  ASSUME NEW S, NEW T, S \subseteq T, NEW q \in Seq(S)
  PROVE  q \in Seq(T)
OBVIOUS

(* The calls stay what they are when one is added that is its own or an    *)
(* earlier addition.                                                       *)
LEMMA MoreCalls ==
  ASSUME CallsOk, NEW e \in Record, added' = Append(added, e), e.call \in 1..Latest
  PROVE  /\ \A c \in DOMAIN added' : added'[c].call \in 1..c
         /\ file \in Seq(DOMAIN added') /\ Append(file, Latest) \in Seq(DOMAIN added')
<1>1. /\ DOMAIN added \subseteq DOMAIN added' /\ Latest \in DOMAIN added'
      /\ added'[Latest] = e /\ \A x \in DOMAIN added : added'[x] = added[x]
      /\ \A x \in DOMAIN added' : x \in DOMAIN added \/ x = Latest
  BY NewRecord
<1>2. \A c \in DOMAIN added' : added'[c].call \in 1..c
  BY <1>1 DEF CallsOk
<1>3. file \in Seq(DOMAIN added')
  BY <1>1, SeqWider DEF CallsOk
<1>4. Append(file, Latest) \in Seq(DOMAIN added')
  <2> DEFINE D == DOMAIN added'
  <2>1. file \in Seq(D) /\ Latest \in D
    BY <1>1, <1>3
  <2> HIDE DEF D
  <2>2. Append(file, Latest) \in Seq(D)
    BY <2>1
  <2> QED
    BY <2>2 DEF D
<1> QED
  BY <1>2, <1>3, <1>4

LEMMA CallsStep == CallsOk /\ [Next]_vars => CallsOk'
<1> SUFFICES ASSUME CallsOk, [Next]_vars PROVE CallsOk'
  OBVIOUS
<1> USE HistoryAssumption
<1>1. ASSUME NEW n \in Numbers, NEW second \in Seconds, Finish(n, second) PROVE CallsOk'
  <2> DEFINE e == [day |-> today, second |-> second, number |-> n, call |-> Latest]
  <2>1. e \in Record /\ e.call = Latest /\ added' = Append(added, e)
    BY <1>1, NewCall DEF Finish
  <2> HIDE DEF e
  <2>2. /\ added' \in Seq(Record) /\ Latest \in Nat /\ Len(added) \in Nat
        /\ Len(added') = Latest /\ Latest = Len(added) + 1
    BY <2>1, NewRecord
  <2>3. e.call \in 1..Latest
    BY <2>1, <2>2
  <2>4. /\ \A c \in DOMAIN added' : added'[c].call \in 1..c
        /\ file \in Seq(DOMAIN added') /\ Append(file, Latest) \in Seq(DOMAIN added')
    BY <2>1, <2>3, MoreCalls
  <2>5. /\ UNCHANGED <<before, today, started, name, renamed, loading>>
        /\ file' \in {file, Append(file, Latest)} /\ unsaved' \subseteq unsaved \union {Latest}
    BY <1>1 DEF Finish, dayVars, nameVars
  <2>6. before' \in 0..Len(added') /\ unsaved' \subseteq (before' + 1)..Len(added')
    <3>1. /\ before \in Nat /\ before <= Len(added) /\ before' = before
          /\ Len(added') = Len(added) + 1 /\ Len(added) \in Nat
      BY <2>2, <2>5 DEF CallsOk
    <3>2. ASSUME NEW x \in unsaved'  PROVE x \in (before + 1)..Len(added')
      <4>1. x \in (before + 1)..Len(added) \/ x = Len(added')
        BY <2>2, <2>5, <3>2 DEF CallsOk
      <4>. QED
        BY <3>1, <4>1
    <3>. QED
      BY <3>1, <3>2
  <2> QED
    BY <2>2, <2>4, <2>5, <2>6 DEF CallsOk
<1>2. ASSUME NEW c \in (before + 1)..Len(added), FinishAgain(c) PROVE CallsOk'
  <2> DEFINE e == added[c]
  <2>1. c \in DOMAIN added /\ c \in 1..Len(added) /\ Len(added) \in Nat
    BY DEF CallsOk
  <2>2. e \in Record /\ e.call \in 1..c /\ added' = Append(added, e)
    BY <1>2, <2>1, CallFields DEF FinishAgain
  <2> HIDE DEF e
  <2>3. /\ added' \in Seq(Record) /\ Latest \in Nat
        /\ Len(added') = Latest /\ Latest = Len(added) + 1
    BY <2>2, NewRecord
  <2>4. e.call \in 1..Latest
    BY <2>1, <2>2, <2>3
  <2>5. /\ \A x \in DOMAIN added' : added'[x].call \in 1..x
        /\ file \in Seq(DOMAIN added') /\ Append(file, Latest) \in Seq(DOMAIN added')
    BY <2>2, <2>4, MoreCalls
  <2>6. /\ UNCHANGED <<before, today, started, name, renamed, loading>>
        /\ file' \in {file, Append(file, Latest)} /\ unsaved' \subseteq unsaved
    BY <1>2 DEF FinishAgain, dayVars, nameVars
  <2>7. before' \in 0..Len(added') /\ unsaved' \subseteq (before' + 1)..Len(added')
    BY <2>1, <2>3, <2>6 DEF CallsOk
  <2> QED
    BY <2>3, <2>5, <2>6, <2>7 DEF CallsOk
<1>3. ASSUME NEW n \in Numbers, NEW second \in Seconds, Torn(n, second) PROVE CallsOk'
  <2> DEFINE e == [day |-> today, second |-> second, number |-> n, call |-> Latest]
  <2>1. e \in Record /\ e.call = Latest /\ added' = Append(added, e)
    BY <1>3, NewCall DEF Torn
  <2> HIDE DEF e
  <2>2. added' \in Seq(Record) /\ Latest \in Nat /\ Len(added') = Latest /\ Latest = Len(added) + 1
        /\ Len(added) \in Nat
    BY <2>1, NewRecord
  <2>3. e.call \in 1..Latest
    BY <2>1, <2>2
  <2>4. /\ \A c \in DOMAIN added' : added'[c].call \in 1..c
        /\ file \in Seq(DOMAIN added')
    BY <2>1, <2>3, MoreCalls
  <2> QED
    BY <1>3, <2>2, <2>4 DEF Torn, StartAgain, CallsOk
<1>4. CASE Restart
  <2>1. Len(added) \in Nat
    BY DEF CallsOk
  <2> QED
    BY <1>4, <2>1 DEF Restart, StartAgain, CallsOk
<1>5. CASE LoadOne
  BY <1>5 DEF LoadOne, AfterRead, CallsOk, callVars, dayVars, nameVars
<1>6. CASE Loaded
  BY <1>6 DEF Loaded, CallsOk, callVars, dayVars, nameVars
<1>7. CASE Clear
  BY <1>7 DEF Clear, CallsOk, callVars, dayVars, nameVars
<1>8. CASE Midnight
  BY <1>8 DEF Midnight, CallsOk, callVars, nameVars
<1>9. ASSUME NEW r, SetCategoryRole(r) PROVE CallsOk'
  BY <1>9 DEF SetCategoryRole, CallsOk, callVars, dayVars
<1>10. ASSUME NEW c, Parent(c) PROVE CallsOk'
  BY <1>10 DEF Parent, CallsOk, callVars, dayVars, nameVars
<1>11. ASSUME NEW n \in Numbers, NEW x \in Contacts, Named(n, x) PROVE CallsOk'
  BY <1>11 DEF Named, CallsOk, callVars, dayVars
<1>12. CASE UNCHANGED <<modelVars, callVars, dayVars, nameVars, file, loading>>
  BY <1>12 DEF CallsOk, callVars, dayVars, nameVars
<1> QED
  BY <1>1, <1>2, <1>3, <1>4, <1>5, <1>6, <1>7, <1>8, <1>9, <1>10, <1>11, <1>12 DEF Next, vars

(* The history touches the list by nothing but its operations. *)
LEMMA RecentUse == CallsOk /\ [Next]_vars => [RecentNext]_recentVars
<1> SUFFICES ASSUME CallsOk, [Next]_vars PROVE [RecentNext]_recentVars
  OBVIOUS
<1>1. ASSUME NEW n \in Numbers, NEW second \in Seconds, Finish(n, second)
      PROVE  RecentNext
  <2> DEFINE e == [day |-> today, second |-> second, number |-> n, call |-> Latest]
  <2>1. e \in Record /\ e.number = n /\ added' = Append(added, e)
    BY <1>1, NewCall DEF Finish
  <2> HIDE DEF e
  <2>2. added'[Latest].number = n
    BY <2>1, NewRecord
  <2> QED
    BY <1>1, <2>2 DEF Finish, Add, RecentNext
<1>2. ASSUME NEW c \in (before + 1)..Len(added), FinishAgain(c) PROVE RecentNext
  <2>1. c \in DOMAIN added
    BY DEF CallsOk
  <2>2. added[c] \in Record /\ added[c].number \in Numbers
    BY <2>1, CallFields
  <2>3. added'[Latest] = added[c]
    BY <1>2, <2>2, NewRecord DEF FinishAgain
  <2> QED
    BY <1>2, <2>2, <2>3 DEF FinishAgain, Add, RecentNext
<1>3. ASSUME NEW n \in Numbers, NEW second \in Seconds, Torn(n, second) PROVE RecentNext
  BY <1>3 DEF Torn, StartAgain, RecentNext
<1>4. CASE LoadOne
  <2>1. file[loading] \in DOMAIN added /\ added' = added
    BY <1>4 DEF LoadOne, CallsOk, callVars
  <2>2. added'[file[loading]].number \in Numbers
    BY <2>1, CallFields
  <2> QED
    BY <1>4, <2>2 DEF LoadOne, Add, RecentNext
<1>5. CASE Restart
  BY <1>5 DEF Restart, StartAgain, RecentNext
<1>6. CASE Loaded \/ Clear \/ Midnight
  BY <1>6 DEF Loaded, Clear, Midnight
<1>7. ASSUME NEW r, SetCategoryRole(r) PROVE UNCHANGED recentVars
  BY <1>7 DEF SetCategoryRole
<1>8. ASSUME NEW c, Parent(c) PROVE UNCHANGED recentVars
  BY <1>8 DEF Parent
<1>9. ASSUME NEW n, NEW x, Named(n, x) PROVE UNCHANGED recentVars
  BY <1>9 DEF Named
<1>10. CASE ReadRows
  BY <1>10 DEF RecentNext
<1>11. CASE UNCHANGED vars
  BY <1>11 DEF vars
<1> QED
  BY <1>1, <1>2, <1>3, <1>4, <1>5, <1>6, <1>7, <1>8, <1>9, <1>10, <1>11 DEF Next

(* The history implements the list of recent numbers (add, load).          *)
THEOREM HistoryImplementsRecent == Spec => RecentSpec
<1>1. Init => RecentInit
  BY DEF Init
<1> QED
  BY <1>1, CallsInit, CallsStep, RecentUse, PTL DEF Spec, RecentSpec

(* So the numbers used last are listed in the order of their last use,     *)
(* through restarts, midnights and everything else (addCall).              *)
THEOREM HistoryKeepsOrder == Spec => []LinkedByUse
BY HistoryImplementsRecent, RecentCorrect, PTL

(* And a view of the recent numbers shows them in this order.              *)
THEOREM HistoryShowsRecent == Spec => []RowsRecent
BY HistoryImplementsRecent, RowsCorrect, PTL

-----------------------------------------------------------------------------
(* The categories.  Rows of R are in one row of one category each.         *)
Keys == Numbers \union Contacts \union 0..MaxDay
Lists(U) == Seq([key : Keys, rows : Seq(U)])

Grouped(cs, R) ==
  /\ UNION {ToSet(cs[i].rows) : i \in DOMAIN cs} = R
  /\ \A i \in DOMAIN cs : IsInjective(cs[i].rows)
  /\ \A i, j \in DOMAIN cs : i # j =>
       cs[i].key # cs[j].key /\ ToSet(cs[i].rows) \cap ToSet(cs[j].rows) = {}

(* Every row but those of a set is under its own key.                      *)
ByKey(cs, own, but) ==
  \A i \in DOMAIN cs : \A c \in ToSet(cs[i].rows) : c \in but \/ cs[i].key = own[c]

LEMMA CategoryRecord ==
  ASSUME NEW U, NEW x \in [key : Keys, rows : Seq(U)], NEW c \in U
  PROVE  /\ x.key \in Keys /\ x.rows \in Seq(U)
         /\ LET y == [x EXCEPT !.rows = Append(@, c)]
            IN  y \in [key : Keys, rows : Seq(U)] /\ y.key = x.key /\ y.rows = Append(x.rows, c)
OBVIOUS

(* getCategory() finds one or makes an empty one.                          *)
LEMMA WithCategoryEffect ==
  ASSUME NEW U, NEW cs \in Lists(U), NEW key \in Keys, NEW own, NEW but
  PROVE  LET all == WithCategory(cs, key)
         IN  /\ all \in Lists(U) /\ \E i \in DOMAIN all : all[i].key = key
             /\ \A R : Grouped(cs, R) => Grouped(all, R)
             /\ ByKey(cs, own, but) => ByKey(all, own, but)
<1> DEFINE x == [key |-> key, rows |-> <<>>]
           all == WithCategory(cs, key)
           C == [key : Keys, rows : Seq(U)]
<1>1. CASE Found(cs, key)
  BY <1>1 DEF WithCategory, Found
<1>2. CASE ~Found(cs, key)
  <2>1. x \in C /\ x.key = key /\ x.rows = <<>> /\ ToSet(x.rows) = {} /\ IsInjective(x.rows)
    BY DEF ToSet, IsInjective
  <2> HIDE DEF x, C
  <2>2. /\ all \in Seq(C) /\ Len(cs) \in Nat /\ DOMAIN cs = 1..Len(cs)
        /\ DOMAIN all = 1..(Len(cs) + 1) /\ all[Len(cs) + 1] = x
        /\ \A i \in 1..Len(cs) : all[i] = cs[i]
    <3>1. all = Append(cs, x)
      BY <1>2 DEF WithCategory, x
    <3> QED
      BY <3>1, <2>1, AppendElements DEF Lists, C
  <2> HIDE DEF all
  <2>3. \A i \in DOMAIN all : (i \in DOMAIN cs /\ all[i] = cs[i]) \/ (i = Len(cs) + 1 /\ all[i] = x)
    BY <2>2
  <2>4. \A i \in DOMAIN cs : i \in DOMAIN all /\ all[i] = cs[i] /\ cs[i].key # key
    BY <1>2, <2>2 DEF Found
  <2>5. ASSUME NEW R, Grouped(cs, R) PROVE Grouped(all, R)
    <3>1. UNION {ToSet(all[i].rows) : i \in DOMAIN all} = UNION {ToSet(cs[i].rows) : i \in DOMAIN cs}
      BY <2>1, <2>3, <2>4
    <3>2. \A i \in DOMAIN all : IsInjective(all[i].rows)
      BY <2>1, <2>3, <2>5 DEF Grouped
    <3>3. ASSUME NEW i \in DOMAIN all, NEW j \in DOMAIN all, i # j
          PROVE  all[i].key # all[j].key /\ ToSet(all[i].rows) \cap ToSet(all[j].rows) = {}
      BY <2>1, <2>3, <2>4, <2>5, <3>3 DEF Grouped
    <3> QED
      BY <2>5, <3>1, <3>2, <3>3 DEF Grouped
  <2>6. ByKey(cs, own, but) => ByKey(all, own, but)
    BY <2>1, <2>3 DEF ByKey
  <2>7. Len(cs) + 1 \in DOMAIN all
    BY <2>2
  <2> QED
    BY <2>1, <2>2, <2>5, <2>6, <2>7 DEF Lists, C, all
<1> QED
  BY <1>1, <1>2

(* A call is listed once more.                                             *)
LEMMA ListedEffect ==
  ASSUME NEW U, NEW cs \in Lists(U), NEW key \in Keys, NEW c \in U, NEW own, NEW but
  PROVE  LET new == Listed(cs, key, c)
         IN  /\ new \in Lists(U)
             /\ \A R : Grouped(cs, R) /\ c \notin R => Grouped(new, R \union {c})
             /\ ByKey(cs, own, but) /\ own[c] = key => ByKey(new, own, but)
<1> DEFINE all == WithCategory(cs, key)
           new == Listed(cs, key, c)
           C == [key : Keys, rows : Seq(U)]
<1>1. /\ all \in Seq(C) /\ \E i \in DOMAIN all : all[i].key = key
      /\ \A R : Grouped(cs, R) => Grouped(all, R)
      /\ ByKey(cs, own, but) => ByKey(all, own, but)
  BY WithCategoryEffect DEF Lists
<1>2. new = [i \in DOMAIN all |-> IF all[i].key = key
                                  THEN [all[i] EXCEPT !.rows = Append(@, c)] ELSE all[i]]
  BY DEF Listed
<1> HIDE DEF all, new
<1>3. ASSUME NEW i \in DOMAIN all
      PROVE  /\ new[i] \in C /\ new[i].key = all[i].key
             /\ all[i].rows \in Seq(U) /\ new[i].rows \in Seq(U)
             /\ new[i].rows = IF all[i].key = key THEN Append(all[i].rows, c) ELSE all[i].rows
  <2>1. all[i] \in C
    BY <1>1, SeqAt
  <2>2. [all[i] EXCEPT !.rows = Append(@, c)] \in C
    BY <2>1, CategoryRecord
  <2> QED
    BY <1>2, <2>1, <2>2, CategoryRecord
<1>4. DOMAIN new = DOMAIN all /\ new \in Lists(U)
  <2>1. DOMAIN new = 1..Len(all) /\ Len(all) \in Nat /\ DOMAIN all = 1..Len(all)
    BY <1>1, <1>2
  <2>2. new = [i \in 1..Len(all) |-> new[i]]
    BY <1>2, <2>1
  <2> HIDE DEF C
  <2>3. new \in [1..Len(all) -> C]
    BY <1>3, <2>1, <2>2
  <2>4. new \in Seq(C)
    BY <2>1, <2>3
  <2> QED
    BY <1>2, <2>4 DEF Lists, C
<1>5. ASSUME NEW i \in DOMAIN all
      PROVE  ToSet(new[i].rows) = IF all[i].key = key THEN ToSet(all[i].rows) \union {c}
                                  ELSE ToSet(all[i].rows)
  <2>1. all[i].rows \in Seq(U)
    BY <1>3
  <2>2. ToSet(Append(all[i].rows, c)) = ToSet(all[i].rows) \union {c}
    BY <2>1, AppendEffect
  <2> QED
    BY <1>3, <2>2
<1>6. ASSUME NEW R, Grouped(cs, R), c \notin R PROVE Grouped(new, R \union {c})
  <2>1. Grouped(all, R) /\ \A i \in DOMAIN all : c \notin ToSet(all[i].rows)
    <3>1. Grouped(all, R)
      BY <1>1, <1>6
    <3> QED
      BY <3>1, <1>6 DEF Grouped
  <2>2. UNION {ToSet(new[i].rows) : i \in DOMAIN new} = R \union {c}
    <3>1. PICK k \in DOMAIN all : all[k].key = key
      BY <1>1
    <3>2. ASSUME NEW i \in DOMAIN new PROVE ToSet(new[i].rows) \subseteq R \union {c}
      <4>1. i \in DOMAIN all /\ ToSet(all[i].rows) \subseteq R
        BY <1>4, <2>1 DEF Grouped
      <4> QED
        BY <4>1, <1>5
    <3>3. c \in ToSet(new[k].rows) /\ k \in DOMAIN new
      BY <1>4, <1>5, <3>1
    <3>4. ASSUME NEW x \in R PROVE \E i \in DOMAIN new : x \in ToSet(new[i].rows)
      <4>1. PICK i \in DOMAIN all : x \in ToSet(all[i].rows)
        BY <2>1 DEF Grouped
      <4> QED
        BY <4>1, <1>4, <1>5
    <3> QED
      BY <3>2, <3>3, <3>4
  <2>3. ASSUME NEW i \in DOMAIN new PROVE IsInjective(new[i].rows)
    <3>1. i \in DOMAIN all /\ IsInjective(all[i].rows) /\ c \notin ToSet(all[i].rows)
      BY <1>4, <2>1 DEF Grouped
    <3> QED
      BY <3>1, <1>3, AppendEffect
  <2>4. ASSUME NEW i \in DOMAIN new, NEW j \in DOMAIN new, i # j
        PROVE  new[i].key # new[j].key /\ ToSet(new[i].rows) \cap ToSet(new[j].rows) = {}
    <3>1. i \in DOMAIN all /\ j \in DOMAIN all
      BY <1>4
    <3>2. all[i].key # all[j].key /\ ToSet(all[i].rows) \cap ToSet(all[j].rows) = {}
      BY <2>1, <2>4, <3>1 DEF Grouped
    <3>3. new[i].key = all[i].key /\ new[j].key = all[j].key
      BY <1>3, <3>1
    <3> QED
      BY <3>1, <3>2, <3>3, <1>5, <2>1
  <2> QED
    BY <2>2, <2>3, <2>4 DEF Grouped
<1>7. ASSUME ByKey(cs, own, but), own[c] = key PROVE ByKey(new, own, but)
  <2>1. ByKey(all, own, but)
    BY <1>1, <1>7
  <2>2. ASSUME NEW i \in DOMAIN new, NEW x \in ToSet(new[i].rows)
        PROVE  x \in but \/ new[i].key = own[x]
    <3>1. i \in DOMAIN all /\ new[i].key = all[i].key
      BY <1>3, <1>4
    <3>2. x \in ToSet(all[i].rows) \/ (x = c /\ all[i].key = key)
      BY <1>5, <3>1
    <3> QED
      BY <1>7, <2>1, <3>1, <3>2 DEF ByKey
  <2> QED
    BY <2>2 DEF ByKey
<1> QED
  BY <1>4, <1>6, <1>7 DEF new

(* Some order by time exists, so reloadCategories() goes through every     *)
(* call once.                                                              *)
LEMMA TimeOrder ==
  ASSUME CallsOk, entries \subseteq DOMAIN added
  PROVE  ByTime \in Seq(entries) /\ IsInjective(ByTime) /\ ToSet(ByTime) = entries
<1> DEFINE R == {p \in entries \X entries : Earlier(p[1], p[2])}
           Good(q) == q \in SetToSeqs(entries) /\ IsSorted(q, Earlier)
<1>1. DOMAIN added = 1..Len(added) /\ Len(added) \in Nat
  BY DEF CallsOk
<1>2. IsFiniteSet(entries)
  <2>1. IsFiniteSet(1..Len(added)) /\ entries \in SUBSET (1..Len(added))
    BY <1>1, FS_Interval
  <2> QED
    BY <2>1, FS_Subset
<1>3. \A c \in entries : added[c].day \in Int /\ added[c].second \in Int
  <2>1. ASSUME NEW c \in entries PROVE added[c].day \in 0..MaxDay /\ added[c].second \in Seconds
    BY CallFields
  <2>2. Seconds \subseteq Int /\ 0..MaxDay \subseteq Int
    BY HistoryAssumption
  <2> QED
    BY <2>1, <2>2
<1>4. \A a, b \in entries : <<a, b>> \in R <=> Earlier(a, b)
  OBVIOUS
<1>5. /\ \A a, b \in entries : Earlier(a, b) \/ Earlier(b, a)
      /\ \A a, b, c \in entries : Earlier(a, b) /\ Earlier(b, c) => Earlier(a, c)
  BY <1>3 DEF Earlier
<1> HIDE DEF R
<1>6. Compares(R, entries)
  BY <1>4, <1>5 DEF Compares
<1>7. PICK q \in SetToSeqs(entries) :
        \A i, j \in 1..Cardinality(entries) : i < j => <<q[i], q[j]>> \in R
  BY <1>2, <1>6, OrderExists
<1>8. q \in Seq(entries) /\ Len(q) = Cardinality(entries)
  <2>1. q \in [1..Cardinality(entries) -> entries] /\ Cardinality(entries) \in Nat
    BY <1>2, FS_CardinalityType DEF SetToSeqs
  <2> QED
    BY <2>1
<1>9. Good(q)
  <2>1. ASSUME NEW i \in 1..Len(q), NEW j \in 1..Len(q), i < j PROVE Earlier(q[i], q[j])
    <3>1. q[i] \in entries /\ q[j] \in entries /\ <<q[i], q[j]>> \in R
      BY <1>7, <1>8, <2>1
    <3> QED
      BY <3>1, <1>4
  <2> QED
    BY <1>7, <2>1 DEF IsSorted
<1>10. ByTime \in SetToSeqs(entries)
  <2>1. ByTime = CHOOSE cs : Good(cs)
    BY DEF ByTime
  <2> HIDE DEF Good
  <2>2. Good(ByTime)
    BY <1>9, <2>1
  <2> QED
    BY <2>2 DEF Good
<1> QED
  BY <1>2, <1>10, ListedOnce

(* The key each call has, and the calls whose number was renamed since.    *)
Own(r) == [c \in DOMAIN added |-> IF r = "date" THEN Age(added[c]) ELSE name[added[c].number]]
Exempt == {c \in DOMAIN added : added[c].number \in renamed}

(* What reloadCategories() makes of the calls in memory: every one is in   *)
(* one row, under its own key.                                             *)
LEMMA RegroupedEffect ==
  ASSUME CallsOk, entries \subseteq DOMAIN added, UNCHANGED added, NEW r,
         \A c \in entries : Key(c, r) \in Keys
  PROVE  /\ Regrouped(r) \in Lists(DOMAIN added) /\ Grouped(Regrouped(r), entries)
         /\ ByKey(Regrouped(r), Own(r), {})
<1> DEFINE s == ByTime
           N == Len(s)
           U == DOMAIN added
           D == Lists(U)
           Step(l, c) == Listed(l, Key(c, r), c)
           step == [i \in 1..N |-> [l \in D |-> Step(l, s[i])]]
           Folds(g) == g = [t \in SUBSET (DOMAIN s) |->
                              IF t = {} THEN <<>> ELSE Step(g[t \ {Max(t)}], s[Max(t)])]
           f == CHOOSE g : Folds(g)
           First(k) == {s[i] : i \in 1..k}
           Good(k) == /\ f[1..k] \in D /\ Grouped(f[1..k], First(k))
                      /\ ByKey(f[1..k], Own(r), {})
<1>1. /\ s \in Seq(entries) /\ IsInjective(s) /\ ToSet(s) = entries
      /\ N \in Nat /\ DOMAIN s = 1..N /\ \A i \in 1..N : s[i] \in entries
  BY TimeOrder
<1>2. Regrouped(r) = f[DOMAIN s]
  BY DEF Regrouped, FoldLeft, MapThenFoldSet
<1>3. <<>> \in D /\ Grouped(<<>>, {}) /\ ByKey(<<>>, Own(r), {})
  BY DEF Lists, Grouped, ByKey
<1> HIDE DEF s
<1>4. step \in [1..N -> [D -> D]]
  <2>1. ASSUME NEW i \in 1..N, NEW l \in D PROVE Step(l, s[i]) \in D
    <3>1. s[i] \in U /\ Key(s[i], r) \in Keys
      BY <1>1
    <3> QED
      BY <3>1, ListedEffect
  <2> QED
    BY <2>1
<1>5. Folds(f)
  <2>1. PICK g \in [SUBSET (1..N) -> D] : IsFold(g, N, <<>>, step)
    <3> HIDE DEF N, step, D
    <3> QED
      BY <1>1, <1>3, <1>4, FoldExists
  <2>2. \A t \in SUBSET (1..N) : t # {} => Max(t) \in 1..N /\ g[t \ {Max(t)}] \in D
    BY <1>1, MaxIsMember
  <2>3. \A t \in SUBSET (1..N) : t # {} =>
          step[Max(t)][g[t \ {Max(t)}]] = Step(g[t \ {Max(t)}], s[Max(t)])
    BY <1>1, <2>2
  <2>4. Folds(g)
    <3> HIDE DEF step, Step
    <3> QED
      BY <1>1, <2>1, <2>3, Zenon DEF IsFold
  <2> HIDE DEF Folds
  <2> QED
    BY <2>4
<1>6. /\ f[1..0] = <<>>
      /\ \A k \in 1..N : f[1..k] = Step(f[1..(k - 1)], s[k])
  <2> HIDE DEF f, Step
  <2>1. \A t \in SUBSET (1..N) :
          f[t] = IF t = {} THEN <<>> ELSE Step(f[t \ {Max(t)}], s[Max(t)])
    BY <1>1, <1>5, Zenon
  <2>2. 1..0 = {} /\ 1..0 \in SUBSET (1..N)
    OBVIOUS
  <2>3. f[1..0] = <<>>
    BY <2>1, <2>2
  <2>4. ASSUME NEW k \in 1..N PROVE f[1..k] = Step(f[1..(k - 1)], s[k])
    <3>1. /\ 1..k \in SUBSET (1..N) /\ 1..k # {} /\ Max(1..k) = k
          /\ (1..k) \ {k} = 1..(k - 1)
      BY <1>1, UpTo
    <3>2. f[1..k] = Step(f[(1..k) \ {Max(1..k)}], s[Max(1..k)])
      BY <2>1, <3>1
    <3> QED
      BY <3>1, <3>2
  <2> QED
    BY <2>3, <2>4
<1> HIDE DEF f, step, Folds
<1>7. Good(0)
  <2>1. First(0) = {}
    OBVIOUS
  <2> HIDE DEF First
  <2> QED
    BY <1>3, <1>6, <2>1
<1>8. ASSUME NEW k \in Nat, k + 1 =< N, Good(k) PROVE Good(k + 1)
  <2>1. k + 1 \in 1..N /\ k + 1 - 1 = k /\ s[k + 1] \in U /\ Key(s[k + 1], r) \in Keys
    BY <1>1, <1>8
  <2>2. f[1..(k + 1)] = Step(f[1..k], s[k + 1])
    BY <1>6, <2>1
  <2>3. First(k + 1) = First(k) \union {s[k + 1]}
    <3>1. 1..(k + 1) = 1..k \union {k + 1}
      BY <1>8
    <3> QED
      BY <3>1
  <2>4. s[k + 1] \notin First(k)
    <3>1. \A i \in 1..k : i \in 1..N /\ i # k + 1
      BY <1>1, <2>1
    <3> QED
      BY <1>1, <2>1, <3>1 DEF IsInjective
  <2>5. Own(r)[s[k + 1]] = Key(s[k + 1], r)
    BY <2>1 DEF Key, Own
  <2> HIDE DEF First, U
  <2>6. /\ f[1..(k + 1)] \in D
        /\ Grouped(f[1..k], First(k)) /\ s[k + 1] \notin First(k)
             => Grouped(f[1..(k + 1)], First(k) \union {s[k + 1]})
        /\ ByKey(f[1..k], Own(r), {}) /\ Own(r)[s[k + 1]] = Key(s[k + 1], r)
             => ByKey(f[1..(k + 1)], Own(r), {})
    <3>1. PICK x, y, z, o : x = f[1..k] /\ y = s[k + 1] /\ z = f[1..(k + 1)] /\ o = Own(r)
      OBVIOUS
    <3>2. x \in Lists(U) /\ y \in U /\ Key(y, r) \in Keys /\ z = Listed(x, Key(y, r), y)
      BY <1>8, <2>1, <2>2, <3>1
    <3>3. /\ z \in Lists(U)
          /\ Grouped(x, First(k)) /\ y \notin First(k) => Grouped(z, First(k) \union {y})
          /\ ByKey(x, o, {}) /\ o[y] = Key(y, r) => ByKey(z, o, {})
      <4> HIDE DEF D
      <4>1. PICK key \in Keys : key = Key(y, r)
        BY <3>2
      <4>. QED
        BY <3>2, <4>1, ListedEffect
    <3> QED
      BY <3>1, <3>3
  <2> QED
    BY <1>8, <2>3, <2>4, <2>5, <2>6
<1>9. Good(N)
  <2> DEFINE K == {k \in Nat : k =< N => Good(k)}
  <2> HIDE DEF Good
  <2>1. 0 \in K
    BY <1>7
  <2>2. ASSUME NEW k \in Nat, k \in K PROVE k + 1 \in K
    <3>1. k + 1 =< N => k =< N
      BY <1>1
    <3> QED
      BY <1>8, <2>2, <3>1
  <2>3. Nat \subseteq K
    <3> HIDE DEF K
    <3> QED
      BY <2>1, <2>2, Induction
  <2> QED
    BY <1>1, <2>3
<1>10. First(N) = entries
  BY <1>1 DEF ToSet
<1> QED
  BY <1>1, <1>2, <1>9, <1>10

-----------------------------------------------------------------------------
(* The invariant of the history: what its lists are made of, the calls of  *)
(* the view, and what was read of the file so far.  Records are of         *)
(* different calls, and a call without a backend has none.                 *)
ViewInv ==
  /\ entries \subseteq Shown /\ Shown \subseteq DOMAIN added
  /\ cats \in Lists(DOMAIN added) /\ Grouped(cats, Shown)
  /\ role \in {"date", "name"} /\ ByKey(cats, Own(role), Exempt)

InMemory(c) == \E d \in entries : Twins(c, d)

RecordsInv ==
  /\ \A i, j \in DOMAIN file : i # j => added[file[i]].call # added[file[j]].call
  /\ \A k \in DOMAIN file : added[file[k]].call \notin unsaved

FileInv ==
  /\ RecordsInv /\ loading <= Len(file) + 1
  /\ loading # 0 => Shown \subseteq {file[k] : k \in 1..(loading - 1)}
  /\ \A k \in DOMAIN file : loading = 0 \/ k < loading => InMemory(file[k])

HistoryInv == CallsOk /\ ViewInv /\ FileInv

(* Days are counted from the start of the program.                         *)
LEMMA KeyOfCall ==
  ASSUME CallsOk, NEW c \in DOMAIN added', added'[c] \in Record, NEW r
  PROVE  Key(c, r) \in Keys
<1>1. added'[c].day \in 0..MaxDay /\ added'[c].number \in Numbers
  BY DEF Record
<1>2. started \in 0..MaxDay /\ 0 \in 0..MaxDay
  BY HistoryAssumption DEF CallsOk
<1>3. Age(added'[c]) \in 0..MaxDay
  <2>1. added'[c].day < started => started - added'[c].day \in 0..MaxDay
    BY <1>1, <1>2, HistoryAssumption
  <2> QED
    BY <1>2, <2>1 DEF Age
<1>4. name[added'[c].number] \in Numbers \union Contacts
  BY <1>1 DEF CallsOk
<1> QED
  BY <1>3, <1>4 DEF Key, Keys

LEMMA ListsWider ==
  ASSUME NEW U, NEW V, U \subseteq V, NEW cs \in Lists(U)
  PROVE  cs \in Lists(V)
<1> DEFINE C(W) == [key : Keys, rows : Seq(W)]
<1>1. C(U) \subseteq C(V)
  <2>1. Seq(U) \subseteq Seq(V)
    BY SeqWider
  <2> QED
    BY <2>1
<1>2. cs \in Seq(C(U))
  BY DEF Lists
<1> HIDE DEF C
<1>3. cs \in Seq(C(V))
  BY <1>1, <1>2, SeqWider
<1> QED
  BY <1>3 DEF Lists, C

(* A new category changes nothing of the rows.                             *)
LEMMA ShownIs ==
  ASSUME NEW R, Grouped(cats, R)
  PROVE  Shown = R
BY DEF Grouped, Shown

(* add() of a call that is not in the view.                                *)
LEMMA AddKeeps ==
  ASSUME CallsOk, ViewInv, NEW c \in DOMAIN added', c \notin Shown, added'[c] \in Record,
         Add(c), UNCHANGED <<role, started, name, renamed>>, DOMAIN added \subseteq DOMAIN added',
         \A x \in DOMAIN added : added'[x] = added[x]
  PROVE  /\ ViewInv' /\ Shown' = Shown \union {c} /\ InMemory(c)'
         /\ \A x \in DOMAIN added : InMemory(x) => InMemory(x)'
<1> DEFINE key == Key(c, role)
           own == Own(role)'
           but == Exempt'
<1>0. key \in Keys
  BY KeyOfCall
<1>1. cats' = Listed(cats, key, c)
  BY DEF Add
<1>2. cats \in Lists(DOMAIN added')
  BY ListsWider DEF ViewInv
<1>3. ByKey(cats, own, but)
  <2>1. \A i \in DOMAIN cats : \A x \in ToSet(cats[i].rows) : x \in DOMAIN added
    BY DEF ViewInv, Shown
  <2>2. ASSUME NEW x \in DOMAIN added PROVE own[x] = Own(role)[x] /\ (x \in Exempt => x \in but)
    <3>1. x \in DOMAIN added' /\ added'[x] = added[x]
      OBVIOUS
    <3>2. Age(added[x])' = Age(added[x]) /\ name'[added'[x].number] = name[added[x].number]
      BY <3>1 DEF Age
    <3> QED
      BY <3>1, <3>2 DEF Own, Exempt
  <2>3. ByKey(cats, Own(role), Exempt)
    BY DEF ViewInv
  <2> HIDE DEF own, but
  <2> QED
    BY <2>1, <2>2, <2>3 DEF ByKey
<1>4. own[c] = key
  BY DEF Key, Own, Age
<1> HIDE DEF key, own, but
<1>5. /\ cats' \in Lists(DOMAIN added') /\ Grouped(cats', Shown \union {c})
      /\ ByKey(cats', own, but)
  <2>1. Grouped(cats, Shown)
    BY DEF ViewInv
  <2> QED
    BY <1>0, <1>1, <1>2, <1>3, <1>4, <2>1, ListedEffect
<1>6. Shown' = Shown \union {c}
  BY <1>5 DEF Grouped, Shown
<1>7. c \in entries' /\ entries' \subseteq entries \union {c}
      /\ \A d \in entries \ entries' : Start(d) = Start(c)
  BY DEF Add
<1>8. ViewInv'
  <2>1. ByKey(cats, Own(role), Exempt)'
    BY <1>5 DEF own, but, ByKey
  <2> QED
    BY <1>5, <1>6, <1>7, <2>1 DEF ViewInv
<1>9. InMemory(c)'
  BY <1>7 DEF InMemory, Twins
<1>10. ASSUME NEW x \in DOMAIN added, InMemory(x) PROVE InMemory(x)'
  <2>1. PICK d \in entries : added[x].day = added[d].day /\ added[x].second = added[d].second
    BY <1>10 DEF InMemory, Twins
  <2>2. d \in DOMAIN added
    BY DEF ViewInv
  <2>3. added'[x].day = added'[d].day /\ added'[x].second = added'[d].second
    BY <2>1, <2>2
  <2>4. CASE d \in entries'
    BY <2>3, <2>4 DEF InMemory, Twins
  <2>5. CASE d \notin entries'
    <3>1. added'[d].day = added'[c].day /\ added'[d].second = added'[c].second
      BY <1>7, <2>5 DEF Start
    <3> QED
      BY <1>7, <2>3, <3>1 DEF InMemory, Twins
  <2> QED
    BY <2>4, <2>5
<1> QED
  BY <1>6, <1>8, <1>9, <1>10

-----------------------------------------------------------------------------
(* The program starts with an empty view and reads the file from its       *)
(* first record.                                                           *)
LEMMA EmptyView ==
  /\ \A U : <<>> \in Lists(U)
  /\ Grouped(<<>>, {})
  /\ \A own, but : ByKey(<<>>, own, but)
BY DEF Lists, Grouped, ByKey

(* Records stay records of different calls when others are added.          *)
LEMMA OldRecords ==
  ASSUME RecordsInv, CallsOk, \A x \in DOMAIN added : added'[x] = added[x],
         UNCHANGED file, unsaved' \subseteq unsaved \union {Latest}
  PROVE  RecordsInv'
<1>1. \A k \in DOMAIN file : file[k] \in DOMAIN added
  BY DEF CallsOk
<1>2. \A k \in DOMAIN file : added[file[k]].call \in 1..Len(added) /\ Len(added) \in Nat
  BY <1>1, CallFields DEF CallsOk
<1>3. \A k \in DOMAIN file : added[file[k]].call # Latest
  BY <1>2 DEF Latest
<1> QED
  BY <1>1, <1>3 DEF RecordsInv

LEMMA StartsAgain ==
  ASSUME StartAgain, RecordsInv, CallsOk, \A x \in DOMAIN added : added'[x] = added[x],
         UNCHANGED file
  PROVE  ViewInv' /\ FileInv'
<1>1. role' = "date" /\ entries' = {} /\ cats' = <<>> /\ loading' = 1 /\ unsaved' = {}
      /\ Len(file) \in Nat
  BY DEF StartAgain, CallsOk
<1>2. Shown' = {}
  BY <1>1 DEF Shown
<1>3. ViewInv'
  BY <1>1, <1>2, EmptyView DEF ViewInv
<1>4. RecordsInv'
  BY <1>1, OldRecords
<1>5. FileInv'
  BY <1>1, <1>2, <1>4 DEF FileInv, CallsOk
<1> QED
  BY <1>3, <1>5

LEMMA HistoryStarts == Init => HistoryInv
<1> SUFFICES ASSUME Init PROVE HistoryInv
  OBVIOUS
<1>1. role = "date" /\ entries = {} /\ cats = <<>> /\ loading = 1 /\ added = <<>> /\ file = <<>>
  BY DEF Init
<1>2. Shown = {}
  BY <1>1 DEF Shown
<1>3. ViewInv
  BY <1>1, <1>2, EmptyView DEF ViewInv
<1>4. FileInv
  BY <1>1, <1>2 DEF FileInv, RecordsInv
<1> QED
  BY <1>3, <1>4, CallsInit DEF HistoryInv

(* A call is over, or added again: one more is in the view, and recorded   *)
(* when no record is of this call.                                         *)
LEMMA AddedKeeps ==
  ASSUME HistoryInv, CallsOk', NEW e \in Record, added' = Append(added, e), Add(Latest),
         loading = 0, UNCHANGED <<loading, role, started, name, renamed>>,
         \/ /\ file' = Append(file, Latest) /\ unsaved' = unsaved \ {e.call}
            /\ \A k \in DOMAIN file : added[file[k]].call # e.call
         \/ UNCHANGED file /\ unsaved' \subseteq unsaved \union {Latest}
  PROVE  HistoryInv'
<1>1. /\ Latest \in DOMAIN added' /\ Latest \notin DOMAIN added
      /\ DOMAIN added \subseteq DOMAIN added' /\ added'[Latest] = e
      /\ \A x \in DOMAIN added : added'[x] = added[x]
  BY NewRecord DEF HistoryInv
<1>0. PICK c : c = Latest
  OBVIOUS
<1>2. /\ ViewInv' /\ InMemory(c)'
      /\ \A x \in DOMAIN added : InMemory(x) => InMemory(x)'
  <2>1. CallsOk /\ ViewInv /\ c \notin Shown
    BY <1>0, <1>1 DEF HistoryInv, ViewInv
  <2>2. c \in DOMAIN added' /\ added'[c] \in Record /\ Add(c)
    BY <1>0, <1>1
  <2> QED
    BY <1>1, <2>1, <2>2, AddKeeps
<1>3. file \in Seq(DOMAIN added) /\ Len(file) \in Nat /\ DOMAIN file = 1..Len(file)
      /\ \A k \in DOMAIN file : file[k] \in DOMAIN added
  BY DEF HistoryInv, CallsOk
<1>4. RecordsInv /\ \A k \in DOMAIN file : InMemory(file[k])
  BY DEF HistoryInv, FileInv
<1>5. CASE UNCHANGED file /\ unsaved' \subseteq unsaved \union {Latest}
  <2>1. RecordsInv'
    BY <1>1, <1>4, <1>5, OldRecords DEF HistoryInv
  <2>2. \A k \in DOMAIN file : InMemory(file[k])'
    BY <1>2, <1>3, <1>4
  <2> QED
    BY <1>2, <1>3, <1>5, <2>1, <2>2 DEF HistoryInv, FileInv, InMemory, Twins
<1>6. CASE /\ file' = Append(file, Latest) /\ unsaved' = unsaved \ {e.call}
           /\ \A k \in DOMAIN file : added[file[k]].call # e.call
  <2>1. /\ DOMAIN file' = 1..(Len(file) + 1) /\ file'[Len(file) + 1] = Latest /\ Len(file') \in Nat
        /\ \A k \in 1..Len(file) : file'[k] = file[k]
    <3> DEFINE D == DOMAIN added \union {Latest}
    <3>1. file \in Seq(D) /\ Latest \in D
      BY <1>3, SeqWider
    <3> HIDE DEF D
    <3> QED
      BY <1>6, <3>1
  <2>2. \A k \in DOMAIN file' : \/ k = Len(file) + 1 /\ file'[k] = Latest
                                \/ k \in DOMAIN file /\ file'[k] = file[k]
    BY <1>3, <2>1
  <2>3. \A k \in DOMAIN file' : \/ k = Len(file) + 1 /\ added'[file'[k]].call = e.call
                                \/ k \in DOMAIN file /\ added'[file'[k]].call = added[file[k]].call
    BY <1>1, <1>3, <2>2
  <2>4. RecordsInv'
    <3>1. ASSUME NEW i \in DOMAIN file', NEW j \in DOMAIN file', i # j
          PROVE  added'[file'[i]].call # added'[file'[j]].call
      BY <1>4, <1>6, <2>3, <3>1 DEF RecordsInv
    <3>2. ASSUME NEW k \in DOMAIN file' PROVE added'[file'[k]].call \notin unsaved'
      BY <1>4, <1>6, <2>3 DEF RecordsInv
    <3> QED
      BY <3>1, <3>2 DEF RecordsInv
  <2>5. \A k \in DOMAIN file' : InMemory(file[k])'
    <3>1. \A x \in DOMAIN added : InMemory(x) => \E d \in entries' : Twins(x, d)'
      BY <1>2 DEF InMemory, Twins
    <3>2. \E d \in entries' : Twins(c, d)'
      BY <1>2 DEF InMemory, Twins
    <3>3. ASSUME NEW k \in DOMAIN file'
          PROVE  \E d \in entries' : added'[file'[k]].day = added'[d].day
                                     /\ added'[file'[k]].second = added'[d].second
      BY <1>0, <1>3, <1>4, <2>2, <3>1, <3>2 DEF Twins
    <3> QED
      BY <3>3 DEF InMemory, Twins
  <2> QED
    BY <1>2, <2>1, <2>4, <2>5 DEF HistoryInv, FileInv
<1> QED
  BY <1>5, <1>6

(* A call is over.                                                         *)
LEMMA FinishKeeps ==
  ASSUME HistoryInv, CallsOk', NEW n \in Numbers, NEW second \in Seconds, Finish(n, second)
  PROVE  HistoryInv'
<1> DEFINE e == [day |-> today, second |-> second, number |-> n, call |-> Latest]
<1>1. e \in Record /\ e.call = Latest /\ added' = Append(added, e)
  BY NewCall DEF Finish, HistoryInv
<1>2. /\ Latest \notin unsaved
      /\ \A k \in DOMAIN file : added[file[k]].call # Latest
  <2>1. Len(added) \in Nat /\ unsaved \subseteq (before + 1)..Len(added) /\ before \in Nat
    BY DEF HistoryInv, CallsOk
  <2>2. ASSUME NEW k \in DOMAIN file PROVE added[file[k]].call \in 1..Len(added)
    <3>1. file[k] \in DOMAIN added /\ file[k] \in 1..Len(added)
      BY DEF HistoryInv, CallsOk
    <3> QED
      BY <2>1, <3>1, CallFields DEF HistoryInv
  <2> QED
    BY <2>1, <2>2 DEF Latest
<1> HIDE DEF e
<1>3. /\ loading = 0 /\ Add(Latest) /\ UNCHANGED <<loading, role, started, name, renamed>>
      /\ \/ file' = Append(file, Latest) /\ UNCHANGED unsaved
         \/ UNCHANGED file /\ unsaved' = unsaved \union {Latest}
  BY DEF Finish, dayVars, nameVars
<1> QED
  BY <1>1, <1>2, <1>3, AddedKeeps

(* A call is added again.                                                  *)
LEMMA FinishAgainKeeps ==
  ASSUME HistoryInv, CallsOk', NEW c \in (before + 1)..Len(added), added[c].call = c, FinishAgain(c)
  PROVE  HistoryInv'
<1>1. c \in DOMAIN added
  BY DEF HistoryInv, CallsOk
<1>2. added[c] \in Record /\ added' = Append(added, added[c])
  BY <1>1, CallFields DEF HistoryInv, FinishAgain
<1>3. /\ loading = 0 /\ Add(Latest) /\ UNCHANGED <<loading, role, started, name, renamed>>
      /\ \/ c \in unsaved /\ file' = Append(file, Latest) /\ unsaved' = unsaved \ {c}
         \/ UNCHANGED <<file, unsaved>>
  BY DEF FinishAgain, dayVars, nameVars
<1>4. c \in unsaved => \A k \in DOMAIN file : added[file[k]].call # c
  BY DEF HistoryInv, FileInv, RecordsInv
<1> QED
  BY <1>2, <1>3, <1>4, AddedKeeps

(* One record is read: it is not in the view yet.                          *)
LEMMA LoadKeeps ==
  ASSUME HistoryInv, CallsOk', LoadOne
  PROVE  HistoryInv'
<1>0. PICK c : c = file[loading]
  OBVIOUS
<1>1. /\ loading # 0 /\ loading <= Len(file) /\ loading' = loading + 1 /\ Add(c)
      /\ UNCHANGED <<added, unsaved, file, role, started, name, renamed>>
  BY <1>0 DEF LoadOne, AfterRead, callVars, dayVars, nameVars
<1>2. /\ loading \in Nat /\ loading \in DOMAIN file /\ c \in DOMAIN added
      /\ Len(file) \in Nat /\ DOMAIN file = 1..Len(file)
      /\ \A k \in DOMAIN file : file[k] \in DOMAIN added
  BY <1>0, <1>1 DEF HistoryInv, CallsOk
<1>3. c \notin Shown
  <2>1. \A k \in 1..(loading - 1) : k \in DOMAIN file /\ k # loading
    BY <1>1, <1>2
  <2>2. \A k \in 1..(loading - 1) : file[k] # c
    BY <1>0, <1>2, <2>1 DEF HistoryInv, FileInv, RecordsInv
  <2> QED
    BY <1>1, <2>2 DEF HistoryInv, FileInv
<1>4. added'[c] \in Record
  BY <1>1, <1>2, CallFields DEF HistoryInv
<1>5. /\ ViewInv' /\ Shown' = Shown \union {c} /\ InMemory(c)'
      /\ \A x \in DOMAIN added : InMemory(x) => InMemory(x)'
  BY <1>1, <1>2, <1>3, <1>4, AddKeeps DEF HistoryInv
<1>6. RecordsInv'
  BY <1>1 DEF HistoryInv, FileInv, RecordsInv
<1>7. Shown' \subseteq {file[k] : k \in 1..loading}
  <2>1. Shown \subseteq {file[k] : k \in 1..(loading - 1)}
    BY <1>1 DEF HistoryInv, FileInv
  <2>2. 1..(loading - 1) \subseteq 1..loading /\ loading \in 1..loading
    BY <1>1, <1>2
  <2> QED
    BY <1>0, <1>5, <2>1, <2>2
<1>8. ASSUME NEW k \in DOMAIN file, k < loading + 1 PROVE InMemory(file[k])'
  <2>1. k < loading \/ k = loading
    BY <1>2, <1>8
  <2>2. k < loading => InMemory(file[k])
    BY DEF HistoryInv, FileInv
  <2>3. InMemory(file[k]) => InMemory(file[k])'
    <3>1. InMemory(file[k])' <=> \E d \in entries' : Twins(file[k], d)'
      BY <1>1 DEF InMemory
    <3> QED
      BY <1>1, <1>2, <1>5 DEF InMemory, Twins
  <2>4. k = loading => InMemory(file[k])'
    BY <1>0, <1>1, <1>5 DEF InMemory, Twins
  <2> QED
    BY <2>1, <2>2, <2>3, <2>4
<1>9. FileInv'
  BY <1>1, <1>2, <1>6, <1>7, <1>8 DEF FileInv
<1> QED
  BY <1>5, <1>9 DEF HistoryInv

(* The view is regrouped.                                                  *)
LEMMA RegroupKeeps ==
  ASSUME HistoryInv, CallsOk', NEW r \in {"date", "name"}, SetCategoryRole(r)
  PROVE  HistoryInv'
<1>1. /\ loading = 0 /\ role' = r /\ cats' = Regrouped(r) /\ renamed' = {}
      /\ UNCHANGED <<added, unsaved, entries, started, name, file, loading>>
  BY DEF SetCategoryRole, callVars, dayVars
<1>2. entries \subseteq DOMAIN added /\ \A c \in entries : Key(c, r) \in Keys
  <2>1. entries \subseteq DOMAIN added /\ DOMAIN added' = DOMAIN added
    BY <1>1 DEF HistoryInv, ViewInv
  <2>2. \A c \in DOMAIN added : added'[c] \in Record
    BY <1>1, CallFields DEF HistoryInv
  <2> QED
    BY <2>1, <2>2, KeyOfCall DEF HistoryInv
<1>3. /\ cats' \in Lists(DOMAIN added) /\ Grouped(cats', entries)
      /\ ByKey(cats', Own(r), {})
  BY <1>1, <1>2, RegroupedEffect DEF HistoryInv
<1>4. Shown' = entries
  BY <1>3 DEF Grouped, Shown
<1>5. ByKey(cats, Own(role), Exempt)'
  <2>1. Own(role)' = Own(r)
    BY <1>1 DEF Own, Age
  <2> QED
    BY <1>3, <2>1 DEF ByKey
<1>6. ViewInv'
  BY <1>1, <1>2, <1>3, <1>4, <1>5 DEF ViewInv
<1>7. FileInv'
  BY <1>1 DEF FileInv, RecordsInv, HistoryInv, InMemory, Twins
<1> QED
  BY <1>6, <1>7 DEF HistoryInv

(* What the view shows stays when only what it does not depend on changes. *)
LEMMA SameView ==
  ASSUME ViewInv, UNCHANGED <<role, entries, cats, added, started, name, renamed>>
  PROVE  ViewInv' /\ Shown' = Shown
<1>1. Shown' = Shown
  BY DEF Shown
<1>2. Own(role)' = Own(role) /\ Exempt' = Exempt
  BY DEF Own, Age, Exempt
<1>3. ByKey(cats, Own(role), Exempt)'
  BY <1>2 DEF ViewInv, ByKey
<1> QED
  BY <1>1, <1>3 DEF ViewInv

LEMMA SameFile ==
  ASSUME FileInv, UNCHANGED <<entries, added, unsaved, file, loading>>, Shown' = Shown
  PROVE  FileInv'
BY DEF FileInv, RecordsInv, InMemory, Twins

(* The view asks for a parent that has to be made.                         *)
LEMMA ParentKeeps ==
  ASSUME HistoryInv, CallsOk', NEW c \in DOMAIN added, Parent(c)
  PROVE  HistoryInv'
<1>1. /\ loading = 0 /\ cats' = WithCategory(cats, Key(c, role))
      /\ UNCHANGED <<added, unsaved, role, entries, started, name, renamed, file, loading>>
  BY DEF Parent, callVars, dayVars, nameVars
<1>2. Key(c, role) \in Keys
  BY <1>1, CallFields, KeyOfCall DEF HistoryInv
<1>3. /\ cats' \in Lists(DOMAIN added) /\ Grouped(cats', Shown)
      /\ ByKey(cats', Own(role), Exempt)
  BY <1>1, <1>2, WithCategoryEffect DEF HistoryInv, ViewInv
<1>4. Shown' = Shown
  BY <1>3 DEF Grouped, Shown
<1>5. ByKey(cats, Own(role), Exempt)'
  <2>1. Own(role)' = Own(role) /\ Exempt' = Exempt
    BY <1>1 DEF Own, Age, Exempt
  <2> QED
    BY <1>3, <2>1 DEF ByKey
<1>6. ViewInv'
  BY <1>1, <1>3, <1>4, <1>5 DEF ViewInv, HistoryInv
<1>7. FileInv'
  BY <1>1, <1>4, SameFile DEF HistoryInv
<1> QED
  BY <1>6, <1>7 DEF HistoryInv

(* A number gets a name: by name its rows stay where they are.             *)
LEMMA NamedKeeps ==
  ASSUME HistoryInv, CallsOk', NEW n \in Numbers, NEW x \in Contacts, Named(n, x)
  PROVE  HistoryInv'
<1>1. /\ name' = [name EXCEPT ![n] = x]
      /\ renamed' = IF role = "name" THEN renamed \union {n} ELSE renamed
      /\ UNCHANGED <<role, entries, cats, added, unsaved, started, file, loading>>
  BY DEF Named, modelVars, callVars, dayVars
<1>2. Shown' = Shown
  BY <1>1 DEF Shown
<1>3. ASSUME NEW c \in DOMAIN added PROVE c \in Exempt' \/ (c \notin Exempt /\ Own(role)'[c] = Own(role)[c])
  <2>1. added'[c] = added[c] /\ c \in DOMAIN added' /\ Age(added[c])' = Age(added[c])
    BY <1>1 DEF Age
  <2>2. CASE role = "date"
    BY <1>1, <2>1, <2>2 DEF Own, Exempt
  <2>3. CASE role # "date" /\ added[c].number = n
    BY <1>1, <2>1, <2>3 DEF Exempt, HistoryInv, ViewInv
  <2>4. CASE role # "date" /\ added[c].number # n
    <3>1. name'[added[c].number] = name[added[c].number]
      BY <1>1, <2>4, CallFields DEF HistoryInv, CallsOk
    <3> QED
      BY <1>1, <2>1, <2>4, <3>1 DEF Own, Exempt
  <2> QED
    BY <2>2, <2>3, <2>4
<1>4. ByKey(cats, Own(role), Exempt)'
  <2>1. \A i \in DOMAIN cats : \A c \in ToSet(cats[i].rows) : c \in DOMAIN added
    BY DEF HistoryInv, ViewInv, Shown
  <2>2. ByKey(cats, Own(role), Exempt)
    BY DEF HistoryInv, ViewInv
  <2> QED
    BY <1>1, <1>3, <2>1, <2>2 DEF ByKey
<1>5. ViewInv'
  BY <1>1, <1>2, <1>4 DEF ViewInv, HistoryInv
<1>6. FileInv'
  BY <1>1, <1>2, SameFile DEF HistoryInv
<1> QED
  BY <1>5, <1>6 DEF HistoryInv

LEMMA HistoryStep == HistoryInv /\ [Next]_vars => HistoryInv'
<1> SUFFICES ASSUME HistoryInv, [Next]_vars PROVE HistoryInv'
  OBVIOUS
<1>0. CallsOk'
  BY CallsStep DEF HistoryInv
<1>1. ASSUME NEW n \in Numbers, NEW second \in Seconds, Finish(n, second) PROVE HistoryInv'
  BY <1>0, <1>1, FinishKeeps
<1>2. ASSUME NEW c \in (before + 1)..Len(added), added[c].call = c, FinishAgain(c) PROVE HistoryInv'
  BY <1>0, <1>2, FinishAgainKeeps
<1>3. ASSUME NEW n \in Numbers, NEW second \in Seconds, Torn(n, second) PROVE HistoryInv'
  <2> DEFINE e == [day |-> today, second |-> second, number |-> n, call |-> Latest]
  <2>1. e \in Record /\ added' = Append(added, e) /\ UNCHANGED file /\ StartAgain
    BY <1>3, NewCall DEF Torn, HistoryInv
  <2> HIDE DEF e
  <2>2. \A x \in DOMAIN added : added'[x] = added[x]
    BY <2>1, NewRecord DEF HistoryInv
  <2>3. ViewInv' /\ FileInv'
    BY <2>1, <2>2, StartsAgain DEF HistoryInv, FileInv
  <2> QED
    BY <1>0, <2>3 DEF HistoryInv
<1>4. CASE LoadOne
  BY <1>0, <1>4, LoadKeeps
<1>5. CASE Loaded
  <2>1. /\ UNCHANGED <<role, entries, cats, added, unsaved, started, name, renamed, file>>
        /\ loading' = 0 /\ loading > Len(file)
    BY <1>5 DEF Loaded, modelVars, callVars, dayVars, nameVars
  <2>2. \A k \in DOMAIN file : k < loading
    BY <2>1 DEF HistoryInv, CallsOk
  <2>3. \A k \in DOMAIN file : InMemory(file[k])
    BY <2>2 DEF HistoryInv, FileInv
  <2>4. FileInv'
    BY <2>1, <2>3 DEF HistoryInv, FileInv, RecordsInv, InMemory, Twins, CallsOk
  <2> QED
    BY <1>0, <2>1, <2>4, SameView DEF HistoryInv
<1>6. CASE Restart
  <2>1. ViewInv' /\ FileInv'
    BY <1>6, StartsAgain DEF Restart, HistoryInv, FileInv
  <2> QED
    BY <1>0, <2>1 DEF HistoryInv
<1>7. CASE Clear
  <2>1. /\ UNCHANGED <<role, entries, cats, added, unsaved, started, name, renamed, loading>>
        /\ loading = 0 /\ file' = <<>>
    BY <1>7 DEF Clear, modelVars, callVars, dayVars, nameVars
  <2>2. FileInv'
    BY <2>1 DEF FileInv, RecordsInv
  <2> QED
    BY <1>0, <2>1, <2>2, SameView DEF HistoryInv
<1>8. CASE Midnight
  <2>1. UNCHANGED <<role, entries, cats, added, unsaved, started, name, renamed, file, loading>>
    BY <1>8 DEF Midnight, modelVars, callVars, nameVars
  <2> QED
    BY <1>0, <2>1, SameView, SameFile DEF HistoryInv
<1>9. ASSUME NEW r \in {"date", "name"}, SetCategoryRole(r) PROVE HistoryInv'
  BY <1>0, <1>9, RegroupKeeps
<1>10. ASSUME NEW c \in DOMAIN added, Parent(c) PROVE HistoryInv'
  BY <1>0, <1>10, ParentKeeps
<1>11. ASSUME NEW n \in Numbers, NEW x \in Contacts, Named(n, x) PROVE HistoryInv'
  BY <1>0, <1>11, NamedKeeps
<1>12. CASE UNCHANGED <<modelVars, callVars, dayVars, nameVars, file, loading>>
  <2>1. UNCHANGED <<role, entries, cats, added, unsaved, started, name, renamed, file, loading>>
    BY <1>12 DEF modelVars, callVars, dayVars, nameVars
  <2> QED
    BY <1>0, <2>1, SameView, SameFile DEF HistoryInv
<1> QED
  BY <1>1, <1>2, <1>3, <1>4, <1>5, <1>6, <1>7, <1>8, <1>9, <1>10, <1>11, <1>12 DEF Next, vars

(* However often a call is added, its rows are in one category per key and *)
(* its record is written once.                                             *)
THEOREM HistoryInvariance == Spec => []HistoryInv
BY HistoryStarts, HistoryStep, PTL DEF Spec

(* Each time a call was added is one row of one category, under the key it *)
(* has, except by name when its number was renamed since; whatever states, *)
(* regroupings and questions of the view came between (getCategory,        *)
(* reloadCategories, parent).                                              *)
THEOREM CategoriesCorrect == Spec => []CategoriesAgree
<1>1. HistoryInv => CategoriesAgree
  <2> SUFFICES ASSUME HistoryInv PROVE CategoriesAgree
    OBVIOUS
  <2>1. ASSUME NEW i \in DOMAIN cats, NEW c \in ToSet(cats[i].rows), added[c].number \notin renamed
        PROVE  cats[i].key = OwnKey(c)
    <3>1. c \in DOMAIN added
      BY DEF HistoryInv, ViewInv, Shown
    <3>2. c \notin Exempt /\ Own(role)[c] = OwnKey(c)
      BY <2>1, <3>1 DEF Exempt, Own, OwnKey
    <3> QED
      BY <3>2 DEF HistoryInv, ViewInv, ByKey
  <2> QED
    BY <2>1 DEF HistoryInv, ViewInv, Grouped, CategoriesAgree
<1> QED
  BY <1>1, HistoryInvariance, PTL

(* A call is recorded once, also one that was added several times, and     *)
(* what is recorded is in the view, or a call of the same second, through  *)
(* restarts and torn records (add, load).                                  *)
THEOREM RecordsCorrect == Spec => []RecordsAgree
<1>1. HistoryInv => RecordsAgree
  <2> SUFFICES ASSUME HistoryInv PROVE RecordsAgree
    OBVIOUS
  <2>1. loading = 0 => \A c \in ToSet(file) : InMemory(c)
    BY DEF HistoryInv, FileInv, ToSet
  <2>2. entries \subseteq Shown
    BY DEF HistoryInv, ViewInv
  <2> QED
    BY <2>1, <2>2 DEF HistoryInv, FileInv, RecordsInv, InMemory, RecordsAgree
<1> QED
  BY <1>1, HistoryInvariance, PTL

(* Every variable holds what it is declared for.                           *)
THEOREM HistoryTypeCorrect == Spec => []TypeOK
<1>1. HistoryInv /\ RecentInv /\ RowsInv => TypeOK
  <2> SUFFICES ASSUME HistoryInv, RecentInv, RowsInv PROVE TypeOK
    OBVIOUS
  <2>1. RecentTypeOK
    BY DEF RecentInv, RowsInv, RecentTypeOK
  <2>2. ASSUME NEW i \in DOMAIN cats
        PROVE  cats[i].rows \in Seq(DOMAIN added) /\ cats[i].key \in Numbers \union Contacts \union 0..MaxDay
    <3>1. cats[i] \in [key : Keys, rows : Seq(DOMAIN added)]
      BY SeqAt DEF HistoryInv, ViewInv, Lists
    <3> QED
      BY <3>1 DEF Keys
  <2>3. loading \in 0..(Len(file) + 1)
    BY DEF HistoryInv, CallsOk, FileInv
  <2>4. added \in Seq([day : 0..MaxDay, second : Seconds, number : Numbers, call : Nat])
    BY DEF HistoryInv, CallsOk, Record
  <2> QED
    BY <2>1, <2>2, <2>3, <2>4 DEF TypeOK, HistoryInv, CallsOk, ViewInv
<1>2. RecentSpec => [](RecentInv /\ RowsInv)
  BY RecentStarts, RecentStep, RowsStart, RowsStep, PTL DEF RecentSpec
<1> QED
  BY <1>1, <1>2, HistoryInvariance, HistoryImplementsRecent, PTL

==============================================================================
