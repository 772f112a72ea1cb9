------------------------------ MODULE ListLemmas ------------------------------
(***************************************************************************)
(* Induction over the natural numbers and what a FoldLeft computes, for    *)
(* the modules whose proofs need them.  The handlers of the client loop    *)
(* over lists, and a model folds over the same list; that the loop keeps   *)
(* something takes an induction over the rounds.                           *)
(*                                                                         *)
(* A fold is a function on the sets of indices, taken as the one that      *)
(* satisfies its equation: FoldExists shows that there is one.  The        *)
(* operator that is folded is given as a function of the index and of the  *)
(* value so far.                                                           *)
(***************************************************************************)
EXTENDS QtLists, FiniteSetTheorems, TLAPS

(* A set of numbers without a least one would hold, below any n of it,     *)
(* every number up to n, and the step down would map these into themselves *)
(* and miss n: a finite set has no such map.                               *)
LEMMA MinIsMember ==
  ASSUME NEW S \in SUBSET Nat, S # {}
  PROVE  Min(S) \in S /\ \A y \in S : Min(S) =< y
<1>1. \E x \in S : \A y \in S : x =< y
  <2>1. SUFFICES ASSUME \A x \in S : \E y \in S : y < x  PROVE FALSE
    OBVIOUS
  <2>2. PICK n \in S : TRUE
    OBVIOUS
  <2> DEFINE T == {y \in 0..n : \E x \in S : x =< y}
             down == [y \in T |-> y - 1]
  <2>3. n \in T
    BY <2>2
  <2>4. \A y \in T : y - 1 \in T
    BY <2>1, <2>2
  <2>5. down \in Injection(T, T)
    BY <2>4 DEF Injection, IsInjective
  <2>6. IsFiniteSet(T)
    <3>1. IsFiniteSet(0..n)
      BY <2>2, FS_Interval
    <3>2. T \in SUBSET (0..n)
      OBVIOUS
    <3>. QED
      BY <3>1, <3>2, FS_Subset
  <2>7. down \in Surjection(T, T)
    BY <2>5, <2>6, FS_Injection
  <2>8. PICK y \in T : down[y] = n
    BY <2>3, <2>7 DEF Surjection
  <2>9. y \in 0..n /\ y - 1 = n
    BY <2>8
  <2>. QED
    BY <2>9
<1>. QED
  BY <1>1 DEF Min

(* Induction, of a set instead of a predicate.                             *)
LEMMA Induction ==
  ASSUME NEW S, 0 \in S, \A n \in Nat : n \in S => n + 1 \in S
  PROVE  Nat \subseteq S
<1>. DEFINE out == Nat \ S
            m   == Min(out)
<1>. SUFFICES ASSUME out # {}  PROVE FALSE
  OBVIOUS
<1>1. m \in out /\ \A y \in out : m =< y
  BY MinIsMember
<1>. HIDE DEF m
<1>2. m \in Nat /\ m # 0
  BY <1>1
<1>3. m - 1 \in Nat /\ m - 1 \in S
  BY <1>1, <1>2
<1>4. m - 1 + 1 = m
  BY <1>2
<1>. QED
  BY <1>1, <1>3, <1>4

(* The greatest index of a set below n + 1.                                *)
LEMMA MaxOfIndices ==
  ASSUME NEW n \in Nat, NEW s \in SUBSET (1..(n + 1))
  PROVE  /\ n + 1 \in s => Max(s) = n + 1
         /\ n + 1 \notin s => s \in SUBSET (1..n)
         /\ s \ {n + 1} \in SUBSET (1..n)
<1>1. n + 1 \in s => Max(s) = n + 1
  <2>. SUFFICES ASSUME n + 1 \in s  PROVE Max(s) = n + 1
    OBVIOUS
  <2>1. \A y \in s : y \in Int /\ n + 1 >= y
    OBVIOUS
  <2>2. \A x \in s : (\A y \in s : x >= y) => x = n + 1
    BY <2>1
  <2>. QED
    BY <2>1, <2>2 DEF Max
<1>2. \A x \in s : x # n + 1 => x \in 1..n
  OBVIOUS
<1>. QED
  BY <1>1, <1>2

(* What a fold computes: the greatest index is handled last.               *)
IsFold(g, N, base, step) ==
  \A s \in SUBSET (1..N) : g[s] = IF s = {} THEN base ELSE step[Max(s)][g[s \ {Max(s)}]]

(* There is a function that folds: for the indices up to n from the one    *)
(* for those up to n - 1.                                                  *)
LEMMA FoldExists ==
  ASSUME NEW N \in Nat, NEW D, NEW base \in D, NEW step \in [1..N -> [D -> D]]
  PROVE  \E g \in [SUBSET (1..N) -> D] : IsFold(g, N, base, step)
<1>. DEFINE Value(g, s) == IF s = {} THEN base ELSE step[Max(s)][g[s \ {Max(s)}]]
            Folds(n, g) == \A s \in SUBSET (1..n) : g[s] = Value(g, s)
            Some(n) == \E g \in [SUBSET (1..n) -> D] : Folds(n, g)
            S == {n \in Nat : n =< N => Some(n)}
<1>. HIDE DEF Folds, Some
<1>1. 0 \in S
  <2>. DEFINE g == [s \in SUBSET (1..0) |-> base]
  <2>1. SUBSET (1..0) = {{}}
    OBVIOUS
  <2>2. g \in [SUBSET (1..0) -> D] /\ Folds(0, g)
    BY <2>1 DEF Folds
  <2>. QED
    BY <2>2 DEF Some
<1>2. \A n \in Nat : n \in S => n + 1 \in S
  <2>. SUFFICES ASSUME NEW n \in Nat, n \in S, n + 1 =< N
                PROVE  Some(n + 1)
    OBVIOUS
  <2>0. Some(n)
    OBVIOUS
  <2>1. PICK f \in [SUBSET (1..n) -> D] : Folds(n, f)
    BY <2>0 DEF Some
  <2>. DEFINE g == [s \in SUBSET (1..(n + 1)) |->
                      IF n + 1 \in s THEN step[n + 1][f[s \ {n + 1}]] ELSE f[s]]
  <2>2. n + 1 \in 1..N
    OBVIOUS
  <2>3. \A s \in SUBSET (1..(n + 1)) :
          /\ n + 1 \in s => Max(s) = n + 1
          /\ n + 1 \notin s => s \in SUBSET (1..n)
          /\ s \ {n + 1} \in SUBSET (1..n)
    BY MaxOfIndices
  <2>4. g \in [SUBSET (1..(n + 1)) -> D]
    BY <2>2, <2>3
  <2>5. \A s \in SUBSET (1..n) : g[s] = f[s]
    OBVIOUS
  <2>6. ASSUME NEW s \in SUBSET (1..(n + 1))  PROVE g[s] = Value(g, s)
    <3>1. CASE n + 1 \in s
      <4>1. s # {} /\ Max(s) = n + 1 /\ s \ {n + 1} \in SUBSET (1..n)
        BY <2>3, <3>1
      <4>2. g[s] = step[n + 1][f[s \ {n + 1}]]
        BY <3>1
      <4>. QED
        BY <4>1, <4>2, <2>5
    <3>2. CASE s = {}
      <4>1. f[s] = base
        BY <2>1, <3>2 DEF Folds
      <4>. QED
        BY <4>1, <3>2
    <3>3. CASE n + 1 \notin s /\ s # {}
      <4>1. s \in SUBSET (1..n) /\ s \ {Max(s)} \in SUBSET (1..n)
        BY <2>3, <3>3
      <4>2. f[s] = step[Max(s)][f[s \ {Max(s)}]]
        BY <2>1, <3>3, <4>1 DEF Folds
      <4>. QED
        BY <4>1, <4>2, <3>3, <2>5
    <3>. QED
      BY <3>1, <3>2, <3>3
  <2>7. Folds(n + 1, g)
    BY <2>6 DEF Folds
  <2>. QED
    BY <2>4, <2>7 DEF Some
<1>3. Some(N)
  <2>1. N \in S
    <3>. HIDE DEF S
    <3>. QED
      BY <1>1, <1>2, Induction
  <2>. QED
    BY <2>1
<1>4. PICK g \in [SUBSET (1..N) -> D] : Folds(N, g)
  BY <1>3 DEF Some
<1>. QED
  BY <1>4 DEF Folds, IsFold

(* The indices up to k, from which a fold takes the greatest first.        *)
LEMMA UpTo ==
  ASSUME NEW N \in Nat, NEW k \in 1..N
  PROVE  /\ 1..k \in SUBSET (1..N) /\ 1..k # {} /\ Max(1..k) = k
         /\ (1..k) \ {k} = 1..(k - 1)
<1>1. k - 1 \in Nat /\ 1..k \in SUBSET (1..(k - 1 + 1)) /\ k - 1 + 1 = k /\ k \in 1..k
  OBVIOUS
<1>2. Max(1..k) = k
  BY <1>1, MaxOfIndices
<1>. QED
  BY <1>1, <1>2

LEMMA MaxIsMember ==
  ASSUME NEW N \in Nat, NEW s \in SUBSET (1..N), s # {}
  PROVE  Max(s) \in s
<1>. DEFINE T == {N - x : x \in s}
            m == Min(T)
<1>1. T \in SUBSET Nat /\ T # {}
  <2>1. \A x \in s : N - x \in Nat
    OBVIOUS
  <2>. QED
    BY <2>1
<1>2. m \in T /\ \A y \in T : m =< y
  BY <1>1, MinIsMember
<1>. HIDE DEF m
<1>3. PICK x \in s : m = N - x
  BY <1>2
<1>4. \A y \in s : x >= y
  <2>. TAKE y \in s
  <2>1. x \in Nat /\ y \in Nat /\ N - y \in T
    OBVIOUS
  <2>2. N - x =< N - y
    BY <1>2, <1>3, <2>1
  <2>. QED
    BY <2>1, <2>2
<1>. QED
  BY <1>4 DEF Max

-----------------------------------------------------------------------------
(* What the operators on sequences do to the set of elements listed.       *)

LEMMA AppendRange ==
  ASSUME NEW S, NEW s \in Seq(S), NEW e
  PROVE  Range(Append(s, e)) = Range(s) \cup {e}
<1>. DEFINE t == Append(s, e)
<1>1. /\ Len(s) \in Nat /\ DOMAIN s = 1..Len(s) /\ DOMAIN t = 1..(Len(s) + 1)
      /\ t[Len(s) + 1] = e /\ \A i \in 1..Len(s) : t[i] = s[i]
  <2>1. s \in Seq(S \cup {e}) /\ e \in S \cup {e}
    OBVIOUS
  <2>. QED
    BY <2>1
<1>2. \A x : x \in Range(t) <=> x \in Range(s) \/ x = e
  BY <1>1 DEF Range
<1>. QED
  BY <1>2

LEMMA ConcatRange ==
  ASSUME NEW S, NEW s \in Seq(S), NEW t \in Seq(S)
  PROVE  Range(s \o t) = Range(s) \cup Range(t)
<1>1. /\ Len(s) \in Nat /\ Len(t) \in Nat /\ DOMAIN s = 1..Len(s) /\ DOMAIN t = 1..Len(t)
      /\ DOMAIN (s \o t) = 1..(Len(s) + Len(t))
      /\ \A i \in 1..Len(s) : (s \o t)[i] = s[i]
      /\ \A i \in 1..Len(t) : (s \o t)[Len(s) + i] = t[i]
  OBVIOUS
<1>2. \A i \in 1..(Len(s) + Len(t)) :
        i \in 1..Len(s) \/ (i - Len(s) \in 1..Len(t) /\ i = Len(s) + (i - Len(s)))
  BY <1>1
<1>3. \A x \in Range(s \o t) : x \in Range(s) \/ x \in Range(t)
  BY <1>1, <1>2 DEF Range
<1>4. Range(s) \subseteq Range(s \o t)
  BY <1>1 DEF Range
<1>5. Range(t) \subseteq Range(s \o t)
  <2>1. \A i \in 1..Len(t) : Len(s) + i \in 1..(Len(s) + Len(t))
    BY <1>1
  <2>. QED
    BY <1>1, <2>1 DEF Range
<1>. QED
  BY <1>3, <1>4, <1>5

LEMMA RemoveRange ==
  ASSUME NEW S, NEW s \in Seq(S), NEW i \in 1..Len(s)
  PROVE  Range(RemoveAt(s, i)) \subseteq Range(s)
<1>. DEFINE before == SubSeq(s, 1, i - 1)
            after  == SubSeq(s, i + 1, Len(s))
<1>1. before \in Seq(S) /\ after \in Seq(S)
  OBVIOUS
<1>2. Range(before) \subseteq Range(s) /\ Range(after) \subseteq Range(s)
  <2>1. /\ Len(s) \in Nat /\ DOMAIN s = 1..Len(s)
        /\ DOMAIN before = 1..(i - 1) /\ \A k \in 1..(i - 1) : before[k] = s[k]
    OBVIOUS
  <2>2. /\ DOMAIN after = 1..(Len(s) - i)
        /\ \A k \in 1..(Len(s) - i) : after[k] = s[i + k] /\ i + k \in 1..Len(s)
    OBVIOUS
  <2>3. Range(before) \subseteq Range(s)
    BY <2>1 DEF Range
  <2>4. Range(after) \subseteq Range(s)
    BY <2>1, <2>2 DEF Range
  <2>. QED
    BY <2>3, <2>4
<1>3. Range(before \o after) = Range(before) \cup Range(after)
  BY <1>1, ConcatRange
<1>. QED
  BY <1>2, <1>3 DEF RemoveAt

LEMMA SwapRange ==
  ASSUME NEW S, NEW s \in Seq(S), NEW i \in 1..Len(s), NEW j \in 1..Len(s)
  PROVE  Range([s EXCEPT ![i] = s[j], ![j] = s[i]]) = Range(s)
  BY DEF Range

LEMMA AppendElements ==
  ASSUME NEW S, NEW s \in Seq(S), NEW e \in S
  PROVE  /\ Append(s, e) \in Seq(S) /\ Len(s) \in Nat /\ DOMAIN s = 1..Len(s)
         /\ DOMAIN Append(s, e) = 1..(Len(s) + 1) /\ Append(s, e)[Len(s) + 1] = e
         /\ \A i \in 1..Len(s) : Append(s, e)[i] = s[i]
  OBVIOUS

LEMMA ConcatElements ==
  ASSUME NEW S, NEW s \in Seq(S), NEW t \in Seq(S)
  PROVE  /\ s \o t \in Seq(S) /\ Len(s \o t) = Len(s) + Len(t)
         /\ \A k \in 1..Len(s) : (s \o t)[k] = s[k]
         /\ \A k \in (Len(s) + 1)..(Len(s) + Len(t)) : (s \o t)[k] = t[k - Len(s)]
  OBVIOUS

LEMMA InsertEffect ==
  ASSUME NEW S, NEW s \in Seq(S), NEW e \in S, NEW i \in 1..(Len(s) + 1)
  PROVE  /\ InsertAt(s, i, e) \in Seq(S) /\ Len(InsertAt(s, i, e)) = Len(s) + 1
         /\ Range(InsertAt(s, i, e)) \subseteq Range(s) \cup {e}
         /\ IsInjective(s) /\ e \notin Range(s) => IsInjective(InsertAt(s, i, e))
<1>. DEFINE before == SubSeq(s, 1, i - 1)
            after  == SubSeq(s, i, Len(s))
            t      == InsertAt(s, i, e)
<1>1. /\ before \in Seq(S) /\ Len(before) = i - 1 /\ \A k \in 1..(i - 1) : before[k] = s[k]
      /\ after \in Seq(S) /\ Len(after) = Len(s) - i + 1
      /\ \A k \in 1..(Len(s) - i + 1) : after[k] = s[i + k - 1]
  OBVIOUS
<1>2. t = (before \o <<e>>) \o after
  BY DEF InsertAt
<1>. HIDE DEF before, after, t
<1>3. /\ before \o <<e>> \in Seq(S) /\ Len(before \o <<e>>) = i
      /\ \A k \in 1..(i - 1) : (before \o <<e>>)[k] = s[k]
      /\ (before \o <<e>>)[i] = e
  <2>. DEFINE one == <<e>>
  <2>1. one \in Seq(S) /\ Len(one) = 1 /\ one[1] = e
    OBVIOUS
  <2>. HIDE DEF one
  <2>2. /\ before \o one \in Seq(S) /\ Len(before \o one) = i
        /\ \A k \in 1..(i - 1) : (before \o one)[k] = before[k]
        /\ (before \o one)[i] = one[1]
    <3>1. i \in Nat /\ i - (i - 1) = 1 /\ i - 1 + 1 = i /\ i \in ((i - 1) + 1)..((i - 1) + 1)
      OBVIOUS
    <3>2. /\ before \o one \in Seq(S) /\ Len(before \o one) = (i - 1) + 1
          /\ \A k \in 1..(i - 1) : (before \o one)[k] = before[k]
          /\ \A k \in ((i - 1) + 1)..((i - 1) + 1) : (before \o one)[k] = one[k - (i - 1)]
      <4>1. before \in Seq(S) /\ one \in Seq(S)
        BY <1>1, <2>1
      <4>2. /\ before \o one \in Seq(S) /\ Len(before \o one) = Len(before) + Len(one)
            /\ \A k \in 1..Len(before) : (before \o one)[k] = before[k]
            /\ \A k \in (Len(before) + 1)..(Len(before) + Len(one)) :
                 (before \o one)[k] = one[k - Len(before)]
        BY <4>1, ConcatElements, Zenon
      <4>3. Len(before) = i - 1 /\ Len(one) = 1
        BY <1>1, <2>1
      <4>. QED
        BY <4>2, <4>3, Zenon
    <3>. QED
      BY <3>1, <3>2
  <2>. QED
    BY <1>1, <2>1, <2>2 DEF one
<1>4. /\ t \in Seq(S) /\ Len(t) = Len(s) + 1
      /\ \A k \in 1..i : t[k] = (before \o <<e>>)[k]
      /\ \A k \in (i + 1)..(Len(s) + 1) : t[k] = after[k - i]
  <2>. DEFINE u == before \o <<e>>
  <2>1. u \in Seq(S) /\ Len(u) = i /\ t = u \o after
    BY <1>2, <1>3
  <2>. HIDE DEF u
  <2>2. /\ t \in Seq(S) /\ Len(t) = Len(s) + 1
        /\ \A k \in 1..i : t[k] = u[k]
        /\ \A k \in (i + 1)..(Len(s) + 1) : t[k] = after[k - i]
    BY <1>1, <2>1
  <2>. QED
    BY <2>2 DEF u
<1>5. /\ \A k \in 1..(i - 1) : t[k] = s[k]
      /\ t[i] = e
      /\ \A k \in (i + 1)..(Len(s) + 1) : t[k] = s[k - 1]
  <2>1. \A k \in (i + 1)..(Len(s) + 1) : k - i \in 1..(Len(s) - i + 1) /\ i + (k - i) - 1 = k - 1
    OBVIOUS
  <2>2. \A k \in (i + 1)..(Len(s) + 1) : after[k - i] = s[k - 1]
    BY <1>1, <2>1
  <2>. QED
    BY <1>3, <1>4, <2>2
<1>6. \A k \in 1..(Len(s) + 1) : \/ k \in 1..(i - 1) /\ k \in 1..Len(s)
                                 \/ k = i
                                 \/ k \in (i + 1)..(Len(s) + 1) /\ k - 1 \in 1..Len(s)
  OBVIOUS
<1>7. DOMAIN t = 1..(Len(s) + 1) /\ DOMAIN s = 1..Len(s)
  BY <1>4
<1>8. Range(t) \subseteq Range(s) \cup {e}
  <2>1. \A k \in DOMAIN t : t[k] = e \/ \E j \in DOMAIN s : t[k] = s[j]
    BY <1>5, <1>6, <1>7
  <2>. QED
    BY <2>1 DEF Range
<1>9. ASSUME IsInjective(s), e \notin Range(s)  PROVE IsInjective(t)
  <2>. DEFINE from(k) == IF k < i THEN k ELSE k - 1
  <2>1. \A k \in DOMAIN t : k # i => from(k) \in DOMAIN s /\ t[k] = s[from(k)] /\ t[k] # e
    <3>1. \A k \in DOMAIN t : k # i => from(k) \in DOMAIN s /\ t[k] = s[from(k)]
      BY <1>5, <1>6, <1>7
    <3>. QED
      BY <3>1, <1>9 DEF Range
  <2>2. \A j, k \in DOMAIN t : j # i /\ k # i /\ from(j) = from(k) => j = k
    BY <1>7
  <2>. HIDE DEF from
  <2>3. \A j, k \in DOMAIN t : t[j] = t[k] => j = k
    BY <2>1, <2>2, <1>5, <1>9 DEF IsInjective
  <2>. QED
    BY <2>3 DEF IsInjective
<1>. QED
  BY <1>4, <1>8, <1>9 DEF t

LEMMA RemoveAtElements ==
  ASSUME NEW S, NEW s \in Seq(S), NEW i \in 1..Len(s)
  PROVE  LET t == RemoveAt(s, i)
         IN  /\ t \in Seq(S) /\ Len(s) \in Nat /\ DOMAIN s = 1..Len(s)
             /\ DOMAIN t = 1..(Len(s) - 1)
             /\ \A k \in 1..(Len(s) - 1) : t[k] = s[IF k < i THEN k ELSE k + 1]
<1>. DEFINE t == RemoveAt(s, i)
            from(k) == IF k < i THEN k ELSE k + 1
<1>1. /\ Len(s) \in Nat /\ DOMAIN s = 1..Len(s)
      /\ DOMAIN t = 1..(Len(s) - 1)
      /\ \A k \in 1..(Len(s) - 1) : t[k] = s[from(k)]
  <2>. DEFINE before == SubSeq(s, 1, i - 1)
              after  == SubSeq(s, i + 1, Len(s))
  <2>1. /\ before \in Seq(S) /\ Len(before) = i - 1 /\ \A k \in 1..(i - 1) : before[k] = s[k]
        /\ after \in Seq(S) /\ Len(after) = Len(s) - i
        /\ \A k \in 1..(Len(s) - i) : after[k] = s[i + k]
    OBVIOUS
  <2>2. t = before \o after
    BY DEF RemoveAt
  <2>. HIDE DEF before, after, t
  <2>3. /\ DOMAIN t = 1..(Len(s) - 1)
        /\ \A k \in 1..(i - 1) : t[k] = before[k]
        /\ \A k \in i..(Len(s) - 1) : t[k] = after[k - (i - 1)] /\ k - (i - 1) \in 1..(Len(s) - i)
    BY <2>1, <2>2
  <2>4. \A k \in i..(Len(s) - 1) : t[k] = s[k + 1]
    <3>1. \A k \in i..(Len(s) - 1) : i + (k - (i - 1)) = k + 1
      OBVIOUS
    <3>. QED
      BY <2>1, <2>3, <3>1
  <2>5. \A k \in 1..(Len(s) - 1) : \/ k \in 1..(i - 1) /\ k < i
                                   \/ k \in i..(Len(s) - 1) /\ ~(k < i)
    OBVIOUS
  <2>6. ASSUME NEW k \in 1..(Len(s) - 1)  PROVE t[k] = s[from(k)]
    BY <2>1, <2>3, <2>4, <2>5
  <2>7. Len(s) \in Nat /\ DOMAIN s = 1..Len(s)
    OBVIOUS
  <2>. HIDE DEF from
  <2>. QED
    BY <2>3, <2>6, <2>7
<1>2. t \in Seq(S)
  BY DEF RemoveAt
<1>. QED
  BY <1>1, <1>2

LEMMA RemoveInjective ==
  ASSUME NEW S, NEW s \in Seq(S), NEW i \in 1..Len(s), IsInjective(s)
  PROVE  IsInjective(RemoveAt(s, i))
<1>. DEFINE t == RemoveAt(s, i)
            from(k) == IF k < i THEN k ELSE k + 1
<1>1. /\ Len(s) \in Nat /\ DOMAIN s = 1..Len(s)
      /\ DOMAIN t = 1..(Len(s) - 1)
      /\ \A k \in 1..(Len(s) - 1) : t[k] = s[from(k)]
  BY RemoveAtElements
<1>2. \A j, k \in 1..(Len(s) - 1) : /\ from(k) \in 1..Len(s)
                                    /\ from(j) = from(k) => j = k
  OBVIOUS
<1>. HIDE DEF t, from
<1>3. \A j, k \in DOMAIN t : t[j] = t[k] => j = k
  BY <1>1, <1>2 DEF IsInjective
<1>. QED
  BY <1>3 DEF IsInjective, t

LEMMA ConcatInjective ==
  ASSUME NEW S, NEW s \in Seq(S), NEW t \in Seq(S), IsInjective(s), IsInjective(t),
         Range(s) \cap Range(t) = {}
  PROVE  IsInjective(s \o t)
<1>. DEFINE u == s \o t
<1>1. /\ Len(s) \in Nat /\ Len(t) \in Nat /\ DOMAIN s = 1..Len(s) /\ DOMAIN t = 1..Len(t)
      /\ DOMAIN u = 1..(Len(s) + Len(t))
      /\ \A k \in 1..Len(s) : u[k] = s[k]
      /\ \A k \in (Len(s) + 1)..(Len(s) + Len(t)) : u[k] = t[k - Len(s)]
  OBVIOUS
<1>. HIDE DEF u
<1>2. \A k \in DOMAIN u : \/ k \in DOMAIN s /\ u[k] = s[k]
                          \/ k - Len(s) \in DOMAIN t /\ u[k] = t[k - Len(s)]
  BY <1>1
<1>3. \A j \in DOMAIN s, k \in DOMAIN t : s[j] # t[k]
  BY DEF Range
<1>4. \A j, k \in DOMAIN u : u[j] = u[k] => j = k
  BY <1>1, <1>2, <1>3 DEF IsInjective
<1>. QED
  BY <1>4 DEF IsInjective, u

LEMMA FirstIndex ==
  ASSUME NEW S, NEW s \in Seq(S), NEW e, \E i \in 1..Len(s) : s[i] = e
  PROVE  LET i == SelectInSeq(s, LAMBDA x : x = e) IN i \in 1..Len(s) /\ s[i] = e
<1>. DEFINE I == {i \in 1..Len(s) : s[i] = e}
<1>1. I \in SUBSET Nat /\ I # {}
  OBVIOUS
<1>2. Min(I) \in I
  <2>. HIDE DEF I
  <2>. QED
    BY <1>1, MinIsMember
<1>3. SelectInSeq(s, LAMBDA x : x = e) = Min(I)
  BY <1>1 DEF SelectInSeq
<1>. QED
  BY <1>2, <1>3

(* Taking an element out leaves the others.                                *)
LEMMA RemoveEffect ==
  ASSUME NEW S, NEW s \in Seq(S), NEW e
  PROVE  /\ RemoveFirst(s, e) \in Seq(S)
         /\ \A x : x # e => (x \in ToSet(RemoveFirst(s, e)) <=> x \in ToSet(s))
         /\ ToSet(RemoveFirst(s, e)) \subseteq ToSet(s)
         /\ IsInjective(s) => IsInjective(RemoveFirst(s, e)) /\ e \notin ToSet(RemoveFirst(s, e))
<1>1. CASE ~ \E i \in 1..Len(s) : s[i] = e
  <2>1. RemoveFirst(s, e) = s
    BY <1>1 DEF RemoveFirst
  <2>. QED
    BY <2>1, <1>1 DEF ToSet
<1>2. CASE \E i \in 1..Len(s) : s[i] = e
  <2>. DEFINE n == SelectInSeq(s, LAMBDA x : x = e)
              t == RemoveAt(s, n)
              from(k) == IF k < n THEN k ELSE k + 1
  <2>1. n \in 1..Len(s) /\ s[n] = e
    BY <1>2, FirstIndex
  <2>2. RemoveFirst(s, e) = t
    BY <1>2 DEF RemoveFirst
  <2>. HIDE DEF n
  <2>3. /\ t \in Seq(S) /\ Len(s) \in Nat /\ DOMAIN s = 1..Len(s)
        /\ DOMAIN t = 1..(Len(s) - 1)
        /\ \A k \in 1..(Len(s) - 1) : t[k] = s[from(k)]
    BY <2>1, RemoveAtElements
  <2>4. /\ \A k \in 1..(Len(s) - 1) : from(k) \in 1..Len(s) /\ from(k) # n
        /\ \A k \in 1..Len(s) : k # n => \E j \in 1..(Len(s) - 1) : from(j) = k
    <3>1. \A k \in 1..(Len(s) - 1) : from(k) \in 1..Len(s) /\ from(k) # n
      BY <2>1
    <3>2. ASSUME NEW k \in 1..Len(s), k # n  PROVE \E j \in 1..(Len(s) - 1) : from(j) = k
      <4>1. CASE k < n
        BY <4>1, <2>1
      <4>2. CASE k > n
        <5>1. k - 1 \in 1..(Len(s) - 1) /\ from(k - 1) = k
          BY <4>2, <2>1
        <5>. QED
          BY <5>1
      <4>. QED
        BY <4>1, <4>2, <3>2, <2>1
    <3>. QED
      BY <3>1, <3>2
  <2>. HIDE DEF t, from
  <2>5. \A x : x \in ToSet(t) => x \in ToSet(s)
    BY <2>3, <2>4 DEF ToSet
  <2>6. \A x : x # e /\ x \in ToSet(s) => x \in ToSet(t)
    <3>. SUFFICES ASSUME NEW k \in 1..Len(s), s[k] # e  PROVE s[k] \in ToSet(t)
      BY <2>3 DEF ToSet
    <3>1. PICK j \in 1..(Len(s) - 1) : from(j) = k
      BY <2>1, <2>4
    <3>. QED
      BY <2>3, <3>1 DEF ToSet
  <2>7. ASSUME IsInjective(s)  PROVE IsInjective(t) /\ e \notin ToSet(t)
    <3>1. IsInjective(t)
      BY <2>1, <2>7, RemoveInjective DEF t
    <3>2. \A k \in 1..(Len(s) - 1) : t[k] # e
      BY <2>1, <2>3, <2>4, <2>7 DEF IsInjective
    <3>. QED
      BY <3>1, <3>2, <2>3 DEF ToSet
  <2>. QED
    BY <2>2, <2>3, <2>5, <2>6, <2>7
<1>. QED
  BY <1>1, <1>2

LEMMA AppendEffect ==
  ASSUME NEW S, NEW s \in Seq(S), NEW e \in S
  PROVE  /\ Append(s, e) \in Seq(S) /\ Append(s, e) # <<>>
         /\ ToSet(Append(s, e)) = ToSet(s) \cup {e}
         /\ IsInjective(s) /\ e \notin ToSet(s) => IsInjective(Append(s, e))
<1>. DEFINE t == Append(s, e)
<1>1. /\ Len(s) \in Nat /\ DOMAIN s = 1..Len(s) /\ DOMAIN t = 1..(Len(s) + 1)
      /\ t[Len(s) + 1] = e /\ \A i \in 1..Len(s) : t[i] = s[i]
      /\ t \in Seq(S) /\ t # <<>>
  OBVIOUS
<1>2. \A i \in 1..(Len(s) + 1) : i \in 1..Len(s) \/ i = Len(s) + 1
  BY <1>1
<1>. HIDE DEF t
<1>3. \A x : x \in ToSet(t) <=> x \in ToSet(s) \/ x = e
  BY <1>1, <1>2 DEF ToSet
<1>4. ASSUME IsInjective(s), e \notin ToSet(s)  PROVE IsInjective(t)
  <2>1. \A i \in 1..Len(s) : s[i] # e
    BY <1>1, <1>4 DEF ToSet
  <2>2. \A i, j \in DOMAIN t : t[i] = t[j] => i = j
    BY <1>1, <1>2, <1>4, <2>1 DEF IsInjective
  <2>. QED
    BY <2>2 DEF IsInjective
<1>. QED
  BY <1>1, <1>3, <1>4 DEF t

(* A sequence without repetitions has as many elements as places.          *)
LEMMA LengthOfInjective ==
  ASSUME NEW S, NEW s \in Seq(S), IsInjective(s)
  PROVE  IsFiniteSet(ToSet(s)) /\ Cardinality(ToSet(s)) = Len(s)
<1>1. Len(s) \in Nat /\ DOMAIN s = 1..Len(s) /\ s \in [1..Len(s) -> S]
  OBVIOUS
<1>2. IsFiniteSet(1..Len(s)) /\ Cardinality(1..Len(s)) = Len(s)
  BY <1>1, FS_Interval
<1>3. s \in Bijection(1..Len(s), ToSet(s))
  BY <1>1 DEF ToSet, IsInjective, Bijection, Injection, Surjection
<1>. QED
  BY <1>2, <1>3, FS_Bijection DEF ExistsBijection

(* What FlattenSeq joins: the elements of all sequences, and no repetition *)
(* when each has none and no two share an element.                         *)
LEMMA FlattenEffect ==
  ASSUME NEW S, NEW ss \in Seq(Seq(S))
  PROVE  /\ FlattenSeq(ss) \in Seq(S)
         /\ ToSet(FlattenSeq(ss)) = UNION {ToSet(ss[i]) : i \in 1..Len(ss)}
         /\ (\A i \in 1..Len(ss) : IsInjective(ss[i]))
            /\ (\A i, j \in 1..Len(ss) : i # j => ToSet(ss[i]) \cap ToSet(ss[j]) = {})
              => IsInjective(FlattenSeq(ss))
<1>. DEFINE N == Len(ss)
            Joined(g, i) == IF i = 1 THEN ss[i] ELSE g[i - 1] \o ss[i]
            Joins(g, n) == \A i \in 1..n : g[i] = Joined(g, i)
            Some(n) == \E g \in [1..n -> Seq(S)] : Joins(g, n)
            Flattens(g) == g = [i \in 1..Len(ss) |-> IF i = 1 THEN ss[i] ELSE g[i - 1] \o ss[i]]
            f == CHOOSE g : Flattens(g)
            Apart == /\ \A i \in 1..N : IsInjective(ss[i])
                     /\ \A i, j \in 1..N : i # j => ToSet(ss[i]) \cap ToSet(ss[j]) = {}
            UpToK(k) == UNION {ToSet(ss[i]) : i \in 1..k}
            Good(k) == /\ f[k] \in Seq(S) /\ ToSet(f[k]) = UpToK(k)
                       /\ Apart => IsInjective(f[k])
<1>1. N \in Nat /\ (\A i \in 1..N : ss[i] \in Seq(S))
  OBVIOUS
<1>2. \A n \in Nat : n =< N => Some(n)
  <2>. DEFINE K == {n \in Nat : n =< N => Some(n)}
  <2>. HIDE DEF Some
  <2>1. 0 \in K
    <3>1. [i \in 1..0 |-> <<>>] \in [1..0 -> Seq(S)] /\ Joins([i \in 1..0 |-> <<>>], 0)
      OBVIOUS
    <3>. QED
      BY <3>1 DEF Some
  <2>2. ASSUME NEW n \in Nat, n \in K, n + 1 =< N  PROVE Some(n + 1)
    <3>1. PICK g \in [1..n -> Seq(S)] : Joins(g, n)
      <4>1. n =< N
        BY <2>2, <1>1
      <4>. QED
        BY <2>2, <4>1 DEF Some
    <3>. DEFINE last == IF n = 0 THEN ss[1] ELSE g[n] \o ss[n + 1]
                h == [i \in 1..(n + 1) |-> IF i = n + 1 THEN last ELSE g[i]]
    <3>2. last \in Seq(S)
      <4>1. n # 0 => g[n] \in Seq(S) /\ ss[n + 1] \in Seq(S)
        BY <1>1, <2>2
      <4>2. n # 0 => g[n] \o ss[n + 1] \in Seq(S)
        BY <4>1, ConcatElements
      <4>. QED
        BY <1>1, <2>2, <4>2
    <3>. HIDE DEF last
    <3>3. h \in [1..(n + 1) -> Seq(S)]
      BY <3>2
    <3>4. ASSUME NEW i \in 1..(n + 1)  PROVE h[i] = Joined(h, i)
      <4>1. CASE i = n + 1
        <5>1. n # 0 => h[n] = g[n] /\ i - 1 = n
          BY <4>1
        <5>2. n = 0 => i = 1
          BY <4>1
        <5>. QED
          BY <4>1, <5>1, <5>2 DEF last
      <4>2. CASE i # n + 1
        <5>1. i \in 1..n /\ h[i] = g[i] /\ (i # 1 => h[i - 1] = g[i - 1])
          BY <4>2
        <5>2. g[i] = IF i = 1 THEN ss[i] ELSE g[i - 1] \o ss[i]
          BY <3>1, <5>1
        <5>. QED
          BY <5>1, <5>2
      <4>. QED
        BY <4>1, <4>2
    <3>. QED
      BY <3>3, <3>4 DEF Some
  <2>3. Nat \subseteq K
    <3>. HIDE DEF K
    <3>1. \A n \in Nat : n \in K => n + 1 \in K
      BY <2>2 DEF K
    <3>. QED
      BY <2>1, <3>1, Induction
  <2>. QED
    BY <2>3
<1>3. Flattens(f)
  <2>1. PICK g \in [1..N -> Seq(S)] : Joins(g, N)
    <3>1. Some(N)
      <4>. HIDE DEF Some
      <4>. QED
        BY <1>1, <1>2
    <3>. QED
      BY <3>1
  <2>2. Flattens(g)
    BY <2>1
  <2>. HIDE DEF Flattens
  <2>. QED
    BY <2>2
<1>4. N # 0 => FlattenSeq(ss) = f[N]
  BY DEF FlattenSeq
<1>5. N = 0 => FlattenSeq(ss) = <<>>
  BY DEF FlattenSeq
<1>6. \A i \in 1..N : f[i] = IF i = 1 THEN ss[i] ELSE f[i - 1] \o ss[i]
  <2>. HIDE DEF f
  <2>. QED
    BY <1>3
<1>. HIDE DEF f, Flattens, Apart
<1>7. ASSUME NEW k \in Nat, k + 1 \in 1..N, k # 0 => Good(k)  PROVE Good(k + 1)
  <2>1. CASE k = 0
    <3>1. f[k + 1] = ss[1] /\ 1 \in 1..N
      BY <1>6, <1>7, <2>1, SMTT(30)
    <3>2. UpToK(k + 1) = ToSet(ss[1])
      BY <2>1
    <3>. QED
      BY <3>1, <3>2, <1>1, <2>1 DEF Apart
  <2>2. CASE k # 0
    <3>1. f[k + 1] = f[k] \o ss[k + 1] /\ k \in 1..N
      <4>1. k + 1 # 1 /\ k + 1 - 1 = k /\ k \in 1..N
        BY <1>1, <1>7, <2>2
      <4>2. f[k + 1] = IF k + 1 = 1 THEN ss[k + 1] ELSE f[k + 1 - 1] \o ss[k + 1]
        BY <1>6, <1>7
      <4>. QED
        BY <4>1, <4>2
    <3>2. f[k] \in Seq(S) /\ ss[k + 1] \in Seq(S)
      BY <1>1, <1>7, <2>2
    <3>3. f[k + 1] \in Seq(S)
      BY <3>1, <3>2, ConcatElements
    <3>4. ToSet(f[k + 1]) = ToSet(f[k]) \cup ToSet(ss[k + 1])
      <4>1. Range(f[k] \o ss[k + 1]) = Range(f[k]) \cup Range(ss[k + 1])
        BY <3>2, ConcatRange
      <4>. QED
        BY <3>1, <4>1 DEF ToSet, Range
    <3>5. UpToK(k + 1) = UpToK(k) \cup ToSet(ss[k + 1])
      <4>1. 1..(k + 1) = 1..k \cup {k + 1}
        BY <1>7
      <4>. QED
        BY <4>1
    <3>6. ASSUME Apart  PROVE IsInjective(f[k + 1])
      <4>1. ToSet(f[k]) \cap ToSet(ss[k + 1]) = {}
        <5>1. \A i \in 1..k : i \in 1..N /\ i # k + 1
          BY <1>7, <1>1
        <5>. QED
          BY <1>7, <2>2, <3>6, <5>1 DEF Apart
      <4>2. IsInjective(f[k]) /\ IsInjective(ss[k + 1])
        BY <1>7, <2>2, <3>6 DEF Apart
      <4>. QED
        BY <3>1, <3>2, <4>1, <4>2, ConcatInjective DEF ToSet, Range
    <3>. QED
      BY <1>7, <2>2, <3>3, <3>4, <3>5, <3>6
  <2>. QED
    BY <2>1, <2>2
<1>8. N # 0 => Good(N)
  <2>. DEFINE K == {k \in Nat : k \in 1..N => Good(k)}
  <2>. HIDE DEF Good
  <2>1. 0 \in K
    OBVIOUS
  <2>2. \A k \in Nat : k \in K => k + 1 \in K
    <3>1. ASSUME NEW k \in Nat, k \in K  PROVE k + 1 \in K
      <4>1. k + 1 \in 1..N /\ k # 0 => k \in 1..N
        BY <1>1
      <4>2. k + 1 \in 1..N => Good(k + 1)
        BY <1>7, <3>1, <4>1
      <4>. QED
        BY <4>2
    <3>. QED
      BY <3>1
  <2>3. Nat \subseteq K
    <3>. HIDE DEF K
    <3>. QED
      BY <2>1, <2>2, Induction
  <2>. QED
    BY <1>1, <2>3
<1>9. CASE N # 0
  BY <1>4, <1>8, <1>9 DEF Apart
<1>10. CASE N = 0
  <2>1. FlattenSeq(ss) \in Seq(S) /\ ToSet(FlattenSeq(ss)) = {} /\ IsInjective(FlattenSeq(ss))
    BY <1>5, <1>10 DEF ToSet, IsInjective
  <2>2. UNION {ToSet(ss[i]) : i \in 1..Len(ss)} = {}
    BY <1>10
  <2>. QED
    BY <2>1, <2>2
<1>. QED
  BY <1>9, <1>10

(* R compares any two elements of S, and is transitive there.              *)
Compares(R, S) ==
  /\ \A a, b \in S : <<a, b>> \in R \/ <<b, a>> \in R
  /\ \A a, b, c \in S : <<a, b>> \in R /\ <<b, c>> \in R => <<a, c>> \in R

(* A finite set has a greatest element in any order that compares all.     *)
LEMMA HasGreatest ==
  ASSUME NEW S, NEW R, Compares(R, S),
         NEW n \in Nat, NEW T \in SUBSET S, IsFiniteSet(T), Cardinality(T) = n + 1
  PROVE  \E m \in T : \A k \in T : <<k, m>> \in R
<1>. DEFINE Greatest(U) == \E m \in U : \A k \in U : <<k, m>> \in R
            K == {i \in Nat : \A U \in SUBSET S :
                    IsFiniteSet(U) /\ Cardinality(U) = i + 1 => Greatest(U)}
<1>1. 0 \in K
  <2>1. ASSUME NEW U \in SUBSET S, IsFiniteSet(U), Cardinality(U) = 1  PROVE Greatest(U)
    <3>1. PICK x : U = {x}
      BY <2>1, FS_Singleton
    <3>. QED
      BY <3>1 DEF Compares
  <2>. HIDE DEF Greatest
  <2>. QED
    BY <2>1
<1>2. ASSUME NEW i \in Nat, i \in K  PROVE i + 1 \in K
  <2>1. ASSUME NEW U \in SUBSET S, IsFiniteSet(U), Cardinality(U) = i + 1 + 1  PROVE Greatest(U)
    <3>1. PICK x \in U : TRUE
      BY <1>2, <2>1, FS_EmptySet
    <3>2. U \ {x} \in SUBSET S /\ IsFiniteSet(U \ {x}) /\ Cardinality(U \ {x}) = i + 1
      BY <1>2, <2>1, <3>1, FS_RemoveElement
    <3>3. Greatest(U \ {x})
      <4>. HIDE DEF Greatest
      <4>. QED
        BY <1>2, <3>2
    <3>4. PICK m \in U \ {x} : \A k \in U \ {x} : <<k, m>> \in R
      BY <3>3
    <3>5. CASE <<x, m>> \in R
      BY <3>4, <3>5
    <3>6. CASE <<m, x>> \in R
      <4>1. \A k \in U : k = x \/ <<k, x>> \in R
        BY <3>1, <3>4, <3>6 DEF Compares
      <4>2. <<x, x>> \in R
        BY <3>1 DEF Compares
      <4>. QED
        BY <3>1, <4>1, <4>2
    <3>. QED
      BY <3>1, <3>4, <3>5, <3>6 DEF Compares
  <2>. HIDE DEF Greatest
  <2>. QED
    BY <1>2, <2>1
<1>3. Nat \subseteq K
  <2>. HIDE DEF K
  <2>. QED
    BY <1>1, <1>2, Induction
<1>. QED
  BY <1>3

(* So it can be listed in that order.                                      *)
LEMMA OrderExists ==
  ASSUME NEW S, NEW R, IsFiniteSet(S), Compares(R, S)
  PROVE  \E q \in SetToSeqs(S) : \A i, j \in 1..Cardinality(S) : i < j => <<q[i], q[j]>> \in R
<1>. DEFINE Sorts(U, q, n) == /\ \A i, j \in 1..n : i # j => q[i] # q[j]
                              /\ \A i, j \in 1..n : i < j => <<q[i], q[j]>> \in R
            Sortable(U, n) == \E q \in [1..n -> U] : Sorts(U, q, n)
            K == {n \in Nat : \A U \in SUBSET S :
                    IsFiniteSet(U) /\ Cardinality(U) = n => Sortable(U, n)}
<1>1. 0 \in K
  <2>1. ASSUME NEW U \in SUBSET S  PROVE Sortable(U, 0)
    <3>1. [i \in 1..0 |-> i] \in [1..0 -> U] /\ Sorts(U, [i \in 1..0 |-> i], 0)
      OBVIOUS
    <3>. HIDE DEF Sorts
    <3>. QED
      BY <3>1
  <2>. HIDE DEF Sortable
  <2>. QED
    BY <2>1
<1>2. ASSUME NEW n \in Nat, n \in K  PROVE n + 1 \in K
  <2>1. ASSUME NEW U \in SUBSET S, IsFiniteSet(U), Cardinality(U) = n + 1
        PROVE  Sortable(U, n + 1)
    <3>1. PICK m \in U : \A k \in U : <<k, m>> \in R
      BY <1>2, <2>1, HasGreatest
    <3>2. U \ {m} \in SUBSET S /\ IsFiniteSet(U \ {m}) /\ Cardinality(U \ {m}) = n
      BY <1>2, <2>1, <3>1, FS_RemoveElement
    <3>3. PICK q \in [1..n -> U \ {m}] : Sorts(U \ {m}, q, n)
      <4>1. Sortable(U \ {m}, n)
        <5>. HIDE DEF Sortable
        <5>. QED
          BY <1>2, <3>2
      <4>. QED
        BY <4>1
    <3>. DEFINE r == [i \in 1..(n + 1) |-> IF i = n + 1 THEN m ELSE q[i]]
    <3>4. \A i \in 1..(n + 1) : i = n + 1 \/ (i \in 1..n /\ r[i] = q[i] /\ q[i] \in U /\ q[i] # m)
      BY <3>3
    <3>5. r \in [1..(n + 1) -> U] /\ r[n + 1] = m
      BY <3>4, <3>1
    <3>. HIDE DEF r
    <3>6. Sorts(U, r, n + 1)
      BY <3>1, <3>3, <3>4, <3>5
    <3>. HIDE DEF Sorts
    <3>. QED
      BY <3>5, <3>6
  <2>. HIDE DEF Sortable
  <2>. QED
    BY <1>2, <2>1
<1>3. Nat \subseteq K
  <2>. HIDE DEF K
  <2>. QED
    BY <1>1, <1>2, Induction
<1>4. Cardinality(S) \in Nat
  BY FS_CardinalityType
<1>5. Sortable(S, Cardinality(S))
  <2>. HIDE DEF Sortable
  <2>. QED
    BY <1>3, <1>4
<1>. QED
  BY <1>5 DEF SetToSeqs

(* What any listing of a finite set holds.                                 *)
LEMMA ListedOnce ==
  ASSUME NEW S, IsFiniteSet(S), NEW q \in SetToSeqs(S)
  PROVE  q \in Seq(S) /\ IsInjective(q) /\ ToSet(q) = S
<1>1. Cardinality(S) \in Nat
  BY FS_CardinalityType
<1>2. q \in [1..Cardinality(S) -> S] /\ IsInjective(q)
  BY DEF SetToSeqs, IsInjective
<1>3. q \in Seq(S) /\ Len(q) = Cardinality(S)
  BY <1>1, <1>2
<1>4. ToSet(q) \in SUBSET S
  BY <1>2 DEF ToSet
<1>5. Cardinality(ToSet(q)) = Len(q)
  BY <1>2, <1>3, LengthOfInjective
<1>. QED
  BY <1>2, <1>3, <1>4, <1>5, FS_Subset

(* What a sequence and its changes hold.                                   *)
LEMMA SeqAt == ASSUME NEW S, NEW s \in Seq(S), NEW i \in DOMAIN s PROVE s[i] \in S
OBVIOUS

LEMMA FunIsSeq ==
  ASSUME NEW S, NEW n \in Nat, NEW f \in [1..n -> S]
  PROVE  f \in Seq(S) /\ Len(f) = n /\ DOMAIN f = 1..n
OBVIOUS

LEMMA ChangedAt ==
  ASSUME NEW S, NEW s \in Seq(S), NEW e \in S, NEW i, NEW n \in Nat, Len(s) = n
  PROVE  /\ [s EXCEPT ![i] = e] \in Seq(S) /\ Len([s EXCEPT ![i] = e]) = n
         /\ DOMAIN [s EXCEPT ![i] = e] = 1..n /\ DOMAIN s = 1..n
         /\ \A x \in 1..n : [s EXCEPT ![i] = e][x] = IF x = i THEN e ELSE s[x]
<1>. DEFINE w == [s EXCEPT ![i] = e]
<1>1. DOMAIN s = 1..n /\ \A x \in 1..n : s[x] \in S
  OBVIOUS
<1>2. /\ w = [x \in 1..n |-> w[x]]
      /\ \A x \in 1..n : w[x] = IF x = i THEN e ELSE s[x]
  BY <1>1
<1>. HIDE DEF w
<1>3. w \in [1..n -> S]
  BY <1>1, <1>2
<1>4. w \in Seq(S) /\ Len(w) = n /\ DOMAIN w = 1..n
  BY <1>3, FunIsSeq
<1>. QED
  BY <1>1, <1>2, <1>4 DEF w

LEMMA AppendedTo ==
  ASSUME NEW S, NEW s \in Seq(S), NEW e \in S, NEW n \in Nat, Len(s) = n
  PROVE  /\ Append(s, e) \in Seq(S) /\ Len(Append(s, e)) = n + 1
         /\ DOMAIN Append(s, e) = 1..(n + 1) /\ DOMAIN s = 1..n
         /\ Append(s, e)[n + 1] = e /\ \A i \in 1..n : Append(s, e)[i] = s[i]
OBVIOUS

(* A fold stays where its steps stay.                                      *)
LEMMA FoldValues ==
  ASSUME NEW N \in Nat, NEW D, NEW f, f[1..0] \in D,
         \A k \in 1..N : f[1..(k - 1)] \in D => f[1..k] \in D
  PROVE  f[1..N] \in D
<1>. DEFINE K == {k \in Nat : k =< N => f[1..k] \in D}
<1>1. 0 \in K
  OBVIOUS
<1>2. ASSUME NEW k \in Nat, k \in K  PROVE k + 1 \in K
  <2>1. k + 1 =< N => k + 1 \in 1..N /\ k + 1 - 1 = k /\ k =< N
    OBVIOUS
  <2>. QED
    BY <1>2, <2>1
<1>3. Nat \subseteq K
  <2>. HIDE DEF K
  <2>. QED
    BY <1>1, <1>2, Induction
<1>. QED
  BY <1>3

(* removeAll, by induction over the list.                                  *)
LEMMA WithoutEffect ==
  ASSUME NEW S, NEW s \in Seq(S), NEW x
  PROVE  /\ Without(s, x) \in Seq(S)
         /\ ToSet(Without(s, x)) = ToSet(s) \ {x}
         /\ IsInjective(s) => IsInjective(Without(s, x))
<1>. DEFINE N == Len(s)
            Step(l, y) == IF y = x THEN l ELSE Append(l, y)
            D == Seq(S)
            step == [i \in 1..N |-> [l \in D |-> Step(l, s[i])]]
            Folds(g) == g = [r \in SUBSET (DOMAIN s) |->
                               IF r = {} THEN <<>> ELSE Step(g[r \ {Max(r)}], s[Max(r)])]
            f == CHOOSE g : Folds(g)
            First(k) == {s[i] : i \in 1..k}
            Good(k) == /\ f[1..k] \in Seq(S) /\ ToSet(f[1..k]) = First(k) \ {x}
                       /\ IsInjective(s) => IsInjective(f[1..k])
<1>1. N \in Nat /\ DOMAIN s = 1..N /\ \A i \in 1..N : s[i] \in S
  OBVIOUS
<1>2. Without(s, x) = f[DOMAIN s]
  BY DEF Without, FoldLeft, MapThenFoldSet
<1>3. <<>> \in D /\ step \in [1..N -> [D -> D]]
  <2>1. ASSUME NEW i \in 1..N, NEW l \in D  PROVE Step(l, s[i]) \in D
    BY <1>1, AppendElements
  <2>. QED
    BY <2>1
<1>4. Folds(f)
  <2>1. PICK g \in [SUBSET (1..N) -> D] : IsFold(g, N, <<>>, step)
    <3>. HIDE DEF N, step, D
    <3>. QED
      BY <1>1, <1>3, FoldExists
  <2>2. \A r \in SUBSET (1..N) : r # {} => Max(r) \in 1..N /\ g[r \ {Max(r)}] \in D
    BY <1>1, MaxIsMember
  <2>3. \A r \in SUBSET (1..N) : r # {} =>
          step[Max(r)][g[r \ {Max(r)}]] = Step(g[r \ {Max(r)}], s[Max(r)])
    BY <1>1, <2>2
  <2>4. Folds(g)
    <3>. HIDE DEF step, Step
    <3>. QED
      BY <1>1, <2>1, <2>3, Zenon DEF IsFold
  <2>. HIDE DEF Folds
  <2>. QED
    BY <2>4
<1>5. /\ f[1..0] = <<>>
      /\ \A k \in 1..N : f[1..k] = Step(f[1..(k - 1)], s[k])
  <2>. HIDE DEF f, Step
  <2>1. \A r \in SUBSET (1..N) :
          f[r] = IF r = {} THEN <<>> ELSE Step(f[r \ {Max(r)}], s[Max(r)])
    BY <1>1, <1>4, Zenon
  <2>2. 1..0 = {} /\ 1..0 \in SUBSET (1..N)
    OBVIOUS
  <2>3. f[1..0] = <<>>
    BY <2>1, <2>2
  <2>4. ASSUME NEW k \in 1..N  PROVE f[1..k] = Step(f[1..(k - 1)], s[k])
    <3>1. /\ 1..k \in SUBSET (1..N) /\ 1..k # {} /\ Max(1..k) = k
          /\ (1..k) \ {k} = 1..(k - 1)
      BY <1>1, UpTo
    <3>2. f[1..k] = Step(f[(1..k) \ {Max(1..k)}], s[Max(1..k)])
      BY <2>1, <3>1
    <3>. QED
      BY <3>1, <3>2
  <2>. QED
    BY <2>3, <2>4
<1>. HIDE DEF f, step, Folds
<1>6. Good(0)
  BY <1>5 DEF ToSet, IsInjective
<1>7. ASSUME NEW k \in Nat, k + 1 =< N, Good(k)  PROVE Good(k + 1)
  <2>1. k + 1 \in 1..N /\ k + 1 - 1 = k /\ s[k + 1] \in S
    BY <1>1, <1>7
  <2>2. f[1..(k + 1)] = Step(f[1..k], s[k + 1])
    BY <1>5, <2>1
  <2>3. First(k + 1) = First(k) \cup {s[k + 1]}
    <3>1. 1..(k + 1) = 1..k \cup {k + 1}
      BY <1>7
    <3>. QED
      BY <3>1
  <2>4. IsInjective(s) => s[k + 1] \notin First(k)
    <3>1. \A i \in 1..k : i \in 1..N /\ i # k + 1
      BY <1>1, <2>1
    <3>. QED
      BY <1>1, <2>1, <3>1 DEF IsInjective
  <2>. HIDE DEF First
  <2>5. CASE s[k + 1] = x
    BY <1>7, <2>2, <2>3, <2>5
  <2>6. CASE s[k + 1] # x
    <3>1. f[1..(k + 1)] = Append(f[1..k], s[k + 1])
      BY <2>2, <2>6
    <3>2. /\ Append(f[1..k], s[k + 1]) \in Seq(S)
          /\ ToSet(Append(f[1..k], s[k + 1])) = ToSet(f[1..k]) \cup {s[k + 1]}
          /\ IsInjective(f[1..k]) /\ s[k + 1] \notin ToSet(f[1..k])
               => IsInjective(Append(f[1..k], s[k + 1]))
      BY <1>7, <2>1, AppendEffect
    <3>. QED
      BY <1>7, <2>3, <2>4, <2>6, <3>1, <3>2
  <2>. QED
    BY <2>5, <2>6
<1>8. Good(N)
  <2>. DEFINE K == {k \in Nat : k =< N => Good(k)}
  <2>. HIDE DEF Good
  <2>1. 0 \in K
    BY <1>6
  <2>2. ASSUME NEW k \in Nat, k \in K  PROVE k + 1 \in K
    <3>1. k + 1 =< N => k =< N
      BY <1>1
    <3>. QED
      BY <1>7, <2>2, <3>1
  <2>3. Nat \subseteq K
    <3>. HIDE DEF K
    <3>. QED
      BY <2>1, <2>2, Induction
  <2>. QED
    BY <1>1, <2>3
<1>. QED
  BY <1>1, <1>2, <1>8 DEF ToSet

(* Sequences as functions, and their changes.                              *)
LEMMA LongerSeqs ==
  ASSUME NEW n \in Nat, NEW q \in Seq(1..n)
  PROVE  q \in Seq(1..(n + 1))
  OBVIOUS

LEMMA AppendedFun ==
  ASSUME NEW n \in Nat, NEW S, NEW f \in [1..n -> S], NEW x \in S
  PROVE  Append(f, x) \in [1..(n + 1) -> S]
<1>1. f \in Seq(S) /\ Len(f) = n
  BY FunIsSeq
<1>2. Append(f, x) \in Seq(S) /\ Len(Append(f, x)) = n + 1
  BY <1>1, AppendedTo
<1>3. \A q \in Seq(S) : q \in [1..Len(q) -> S]
  OBVIOUS
<1>. QED
  BY <1>2, <1>3

LEMMA SeqIs ==
  ASSUME NEW S, NEW s \in Seq(S)
  PROVE  s \in [1..Len(s) -> S] /\ Len(s) \in Nat /\ DOMAIN s = 1..Len(s)
  OBVIOUS

LEMMA AtMostOne ==
  ASSUME NEW k, NEW S \in SUBSET {k}
  PROVE  Cardinality(S) = IF k \in S THEN 1 ELSE 0
<1>1. S = {} \/ S = {k}
  OBVIOUS
<1>. QED
  BY <1>1, FS_Singleton, FS_EmptySet
=============================================================================
