--------------------------- MODULE MainWindowProofs ---------------------------
(***************************************************************************)
(* The main window behaves as each of its parts; what holds of the box of  *)
(* the accounts, the call view, the macro and the table of presence        *)
(* states, for any number of accounts, calls, macros and states.           *)
(***************************************************************************)
EXTENDS MainWindow, SequenceTheorems, ListLemmas

-----------------------------------------------------------------------------
(* The box of the accounts.                                                *)

(* Every account has one row, and IP2IP has one. *)
Distinct(rows) == \A i, j \in 1..Len(rows) : rows[i] = rows[j] => i = j
Listed(b)      == b \in AccountModel /\ Distinct(b.rows) /\ IP2IP \in ToSet(b.rows)

-----------------------------------------------------------------------------
(* Searching the rows. *)

LEMMA IndexFinds ==
  ASSUME NEW b \in AccountModel, NEW a \in ToSet(b.rows)
  PROVE  index(b, a) \in 1..Len(b.rows) /\ b.rows[index(b, a)] = a
<1> DEFINE I == {i \in 1..Len(b.rows) : b.rows[i] = a}
<1>1. b.rows \in Seq(Ids) /\ DOMAIN b.rows = 1..Len(b.rows)
  BY DEF AccountModel
<1>2. I \in SUBSET Nat /\ I # {}
  BY <1>1 DEF ToSet
<1>3. Min(I) \in I
  BY <1>2, MinIsMember
<1>4. index(b, a) = Min(I)
  BY <1>2 DEF index, SelectInSeq
<1>. QED
  BY <1>3, <1>4

LEMMA FirstIsUsable ==
  ASSUME NEW b \in AccountModel
  PROVE  \/ /\ firstRegisteredAccount(b) \in ToSet(b.rows)
            /\ Usable(b, firstRegisteredAccount(b))
         \/ /\ firstRegisteredAccount(b) = IP2IP
            /\ \A a \in ToSet(b.rows) : ~Usable(b, a)
<1> DEFINE I == {i \in 1..Len(b.rows) : Usable(b, b.rows[i])}
<1>1. b.rows \in Seq(Ids) /\ DOMAIN b.rows = 1..Len(b.rows)
  BY DEF AccountModel
<1>2. CASE I = {}
  <2>1. firstRegisteredAccount(b) = IP2IP
    BY <1>2 DEF firstRegisteredAccount, SelectInSeq
  <2>. QED
    BY <2>1, <1>1, <1>2 DEF ToSet
<1>3. CASE I # {}
  <2>0. I \in SUBSET Nat
    BY <1>1
  <2> HIDE DEF I
  <2>1. Min(I) \in I
    BY <2>0, <1>3, MinIsMember
  <2> USE DEF I
  <2>2. firstRegisteredAccount(b) = b.rows[Min(I)]
    BY <1>3, <2>1 DEF firstRegisteredAccount, SelectInSeq
  <2>. QED
    BY <1>1, <2>1, <2>2 DEF ToSet
<1>. QED
  BY <1>2, <1>3

-----------------------------------------------------------------------------
(* The model and the box. *)

LEMMA ChosenIsListed ==
  ASSUME NEW b, Listed(b), NEW a \in ToSet(b.rows)
  PROVE  /\ Chosen(b, a) \in ToSet(b.rows)
         /\ (\E x \in ToSet(b.rows) : Usable(b, x)) => Usable(b, Chosen(b, a))
BY FirstIsUsable DEF Listed, Chosen

(* c is b after the slots agreed on a current account. *)
Settled(b, c) ==
  /\ c \in AccountModel
  /\ c.rows = b.rows /\ c.registered = b.registered /\ c.enabled = b.enabled
  /\ c.prior \in ToSet(b.rows)
  /\ c.prior # b.prior \/ c.box # b.box => c.box = index(b, c.prior)

LEMMA ShownSettles ==
  ASSUME NEW b, Listed(b), NEW a \in ToSet(b.rows)
  PROVE  Settled(b, Shown(b, a)) /\ Shown(b, a).prior = a /\ Shown(b, a).box = index(b, a)
<1>1. index(b, a) \in 1..Len(b.rows)
  BY IndexFinds DEF Listed
<1>2. a \in Ids
  BY DEF Listed, AccountModel, ToSet
<1>3. b \in AccountModel
  BY DEF Listed
<1>4. ASSUME NEW i \in Nat, NEW c, c = [b EXCEPT !.prior = a, !.box = i]
      PROVE  /\ c \in AccountModel
             /\ c.rows = b.rows /\ c.registered = b.registered /\ c.enabled = b.enabled
             /\ c.prior = a /\ c.box = i
  BY <1>2, <1>3, <1>4 DEF AccountModel
<1>5. Shown(b, a) = [b EXCEPT !.prior = a, !.box = index(b, a)] /\ index(b, a) \in Nat
  BY <1>1 DEF Shown
<1> DEFINE c == Shown(b, a)
           i == index(b, a)
<1>6. c = [b EXCEPT !.prior = a, !.box = i] /\ i \in Nat
  BY <1>5
<1> HIDE DEF c, i
<1>7. /\ c \in AccountModel
      /\ c.rows = b.rows /\ c.registered = b.registered /\ c.enabled = b.enabled
      /\ c.prior = a /\ c.box = i
  BY <1>4, <1>6, Zenon
<1>. QED
  BY <1>7 DEF Settled, c, i

LEMMA CurrentSettles ==
  ASSUME NEW b, Listed(b), b.prior \in ToSet(b.rows)
  PROVE  Settled(b, currentAccount(b)) /\ currentAccount(b).prior = Chosen(b, b.prior)
<1>1. Chosen(b, b.prior) \in ToSet(b.rows)
  BY ChosenIsListed
<1>2. b \in AccountModel
  BY DEF Listed
<1>. QED
  BY <1>1, <1>2, ShownSettles DEF currentAccount, Settled

LEMMA PriorSettles ==
  ASSUME NEW b, Listed(b), b.prior \in ToSet(b.rows), NEW a \in ToSet(b.rows)
  PROVE  /\ Settled(b, setPriorAccount(b, a))
         /\ a # b.prior => setPriorAccount(b, a).box = index(b, setPriorAccount(b, a).prior)
<1>1. Chosen(b, a) \in ToSet(b.rows)
  BY ChosenIsListed
<1>2. b \in AccountModel
  BY DEF Listed
<1>. QED
  BY <1>1, <1>2, ShownSettles DEF setPriorAccount, Settled

-----------------------------------------------------------------------------
(* Rows that go and come. *)

LEMMA RowRemoved ==
  ASSUME NEW s \in Seq(Ids), Distinct(s), NEW i \in 1..Len(s)
  PROVE  /\ RemoveAt(s, i) \in Seq(Ids) /\ Distinct(RemoveAt(s, i))
         /\ ToSet(RemoveAt(s, i)) = ToSet(s) \ {s[i]}
<1> DEFINE r == RemoveAt(s, i)
<1>1. /\ r \in Seq(Ids) /\ Len(r) = Len(s) - 1
      /\ \A j \in 1..Len(r) : r[j] = IF j < i THEN s[j] ELSE s[j + 1]
  <2> DEFINE before == SubSeq(s, 1, i - 1)
             behind == SubSeq(s, i + 1, Len(s))
  <2>1. Len(s) \in Nat /\ i \in Nat /\ 1 \leq i /\ i \leq Len(s)
    OBVIOUS
  <2>2. /\ before \in Seq(Ids) /\ Len(before) = i - 1
        /\ \A j \in 1..i - 1 : before[j] = s[j]
    BY <2>1, SubSeqProperties
  <2>3. /\ behind \in Seq(Ids) /\ Len(behind) = Len(s) - i
        /\ \A j \in 1..Len(s) - i : behind[j] = s[i + j]
    BY <2>1, SubSeqProperties
  <2>4. r = before \o behind
    BY DEF RemoveAt
  <2> HIDE DEF before, behind, r
  <2>5. before \in Seq(Ids) /\ behind \in Seq(Ids)
    BY <2>2, <2>3
  <2>6. r \in Seq(Ids) /\ Len(r) = Len(before) + Len(behind)
    BY <2>4, <2>5, ConcatProperties
  <2>7. \A j \in 1..Len(before) + Len(behind) :
          r[j] = IF j <= Len(before) THEN before[j] ELSE behind[j - Len(before)]
    BY <2>4, <2>5, ConcatProperties, Zenon
  <2>. QED
    BY <2>1, <2>2, <2>3, <2>6, <2>7
<1> HIDE DEF r
<1>2. Len(s) \in Nat /\ Len(r) \in Nat /\ DOMAIN r = 1..Len(r) /\ DOMAIN s = 1..Len(s)
  BY <1>1
<1>3. Distinct(r)
  BY <1>1, <1>2 DEF Distinct
<1>4. \A j \in 1..Len(r) : r[j] \in ToSet(s) /\ r[j] # s[i]
  BY <1>1, <1>2 DEF Distinct, ToSet
<1>5. ASSUME NEW j \in 1..Len(s), j # i
      PROVE  s[j] \in ToSet(r)
  <2>1. CASE j < i
    BY <2>1, <1>1, <1>2 DEF ToSet
  <2>2. CASE j > i
    <3>1. j - 1 \in 1..Len(r) /\ r[j - 1] = s[j]
      BY <2>2, <1>1, <1>2
    <3>. QED
      BY <3>1, <1>2 DEF ToSet
  <2>. QED
    BY <2>1, <2>2, <1>5
<1>6. ToSet(r) = ToSet(s) \ {s[i]}
  BY <1>2, <1>4, <1>5 DEF ToSet
<1>. QED
  BY <1>1, <1>3, <1>6 DEF r

LEMMA RowsJoined ==
  ASSUME NEW s \in Seq(Ids), NEW t \in Seq(Ids), Distinct(s), Distinct(t),
         ToSet(s) \intersect ToSet(t) = {}
  PROVE  s \o t \in Seq(Ids) /\ Distinct(s \o t) /\ ToSet(s \o t) = ToSet(s) \union ToSet(t)
<1> DEFINE r == s \o t
<1>1. r \in Seq(Ids) /\ Len(r) = Len(s) + Len(t)
  BY ConcatProperties
<1>2. \A j \in 1..Len(s) + Len(t) : r[j] = IF j <= Len(s) THEN s[j] ELSE t[j - Len(s)]
  BY ConcatProperties, Zenon
<1> HIDE DEF r
<1>3. /\ Len(s) \in Nat /\ Len(t) \in Nat
      /\ DOMAIN s = 1..Len(s) /\ DOMAIN t = 1..Len(t) /\ DOMAIN r = 1..Len(r)
  BY <1>1
<1>4. ASSUME NEW i \in 1..Len(r), NEW j \in 1..Len(r), r[i] = r[j]
      PROVE  i = j
  <2>1. CASE i <= Len(s) /\ j <= Len(s)
    BY <1>1, <1>2, <1>3, <1>4, <2>1 DEF Distinct
  <2>2. CASE i > Len(s) /\ j > Len(s)
    <3>1. /\ i - Len(s) \in 1..Len(t) /\ j - Len(s) \in 1..Len(t)
          /\ t[i - Len(s)] = t[j - Len(s)]
      BY <1>1, <1>2, <1>3, <1>4, <2>2
    <3>2. i - Len(s) = j - Len(s)
      BY <3>1 DEF Distinct
    <3>. QED
      BY <3>2, <1>3
  <2>3. ASSUME NEW k \in 1..Len(r), NEW l \in 1..Len(r), k <= Len(s), l > Len(s)
        PROVE  r[k] # r[l]
    <3>1. r[k] \in ToSet(s)
      BY <1>1, <1>2, <1>3, <2>3 DEF ToSet
    <3>2. r[l] \in ToSet(t)
      <4>1. l - Len(s) \in 1..Len(t) /\ r[l] = t[l - Len(s)]
        BY <1>1, <1>2, <1>3, <2>3
      <4>. QED
        BY <4>1, <1>3 DEF ToSet
    <3>. QED
      BY <3>1, <3>2
  <2>. QED
    BY <1>1, <1>3, <1>4, <2>1, <2>2, <2>3
<1>5. ToSet(r) \subseteq ToSet(s) \union ToSet(t)
  BY <1>1, <1>2, <1>3 DEF ToSet
<1>6. ToSet(s) \subseteq ToSet(r)
  BY <1>1, <1>2, <1>3 DEF ToSet
<1>7. ASSUME NEW j \in 1..Len(t)
      PROVE  t[j] \in ToSet(r)
  <2> DEFINE k == j + Len(s)
  <2>1. k \in 1..Len(s) + Len(t) /\ k > Len(s) /\ k - Len(s) = j
    BY <1>3
  <2> HIDE DEF k
  <2>2. k \in 1..Len(r) /\ r[k] = t[j]
    BY <1>1, <1>2, <2>1, <1>3
  <2>. QED
    BY <2>2, <1>3 DEF ToSet
<1>8. ToSet(r) = ToSet(s) \union ToSet(t)
  BY <1>3, <1>5, <1>6, <1>7 DEF ToSet
<1>9. Distinct(r)
  BY <1>4 DEF Distinct
<1>. QED
  BY <1>1, <1>8, <1>9 DEF r

LEMMA IdsFinite == IsFiniteSet(Ids)
BY ServersAssumption, FS_AddElement DEF Ids

LEMMA OrderLists ==
  ASSUME NEW T \in SUBSET Ids, NEW r \in SetToSeqs(T)
  PROVE  r \in Seq(Ids) /\ Distinct(r) /\ ToSet(r) = T
<1>1. IsFiniteSet(T) /\ Cardinality(T) \in Nat
  BY IdsFinite, FS_Subset, FS_CardinalityType
<1> DEFINE n == Cardinality(T)
<1>2. r \in [1..n -> T] /\ \A i, j \in 1..n : i # j => r[i] # r[j]
  BY DEF SetToSeqs
<1>3. r \in Injection(1..n, T)
  BY <1>2 DEF Injection, IsInjective
<1>4. Cardinality(1..n) = n
  BY <1>1, FS_Interval
<1>5. r \in Surjection(1..n, T)
  BY <1>1, <1>3, <1>4, FS_Injection
<1>6. r \in Seq(Ids) /\ Len(r) = n
  BY <1>1, <1>2
<1>7. ToSet(r) = T
  BY <1>2, <1>5 DEF ToSet, Surjection
<1>. QED
  BY <1>2, <1>6, <1>7 DEF Distinct

-----------------------------------------------------------------------------
(* Removing an account, and loading some. *)

(* The list after a step: c has a current account that is listed, and if   *)
(* it or the box changed since b, the box shows it.                        *)
Good(b)           == Listed(b) /\ b.prior \in ToSet(b.rows)
ShownAfter(b, c)  == c.prior # b.prior \/ c.box # b.box => c.box = index(c, c.prior)

LEMMA IndexOfRows ==
  ASSUME NEW b, NEW c, c.rows = b.rows, NEW a
  PROVE  index(c, a) = index(b, a)
BY DEF index

LEMMA SettledIsGood ==
  ASSUME NEW b, NEW c, Listed(b), Settled(b, c)
  PROVE  Good(c) /\ ShownAfter(b, c)
BY IndexOfRows DEF Settled, Good, Listed, ShownAfter

LEMMA RemovedIsGood ==
  ASSUME NEW b, Good(b), NEW a \in ToSet(b.rows), a # IP2IP
  PROVE  /\ Good(Removed(b, a)) /\ ShownAfter(b, Removed(b, a))
         /\ ToSet(Removed(b, a).rows) = ToSet(b.rows) \ {a}
         /\ Removed(b, a).registered = b.registered \ {a}
<1> DEFINE rows == RemoveAt(b.rows, index(b, a))
           c == [b EXCEPT !.rows = rows]
           w == currentAccount(c)
           s == IF w.prior = a THEN setPriorAccount(w, IP2IP) ELSE w
           r == [s EXCEPT !.registered = @ \ {a}, !.enabled = @ \ {a}]
<1>1. b \in AccountModel /\ b.rows \in Seq(Ids) /\ Distinct(b.rows) /\ IP2IP \in ToSet(b.rows)
  BY DEF Good, Listed, AccountModel
<1>2. rows \in Seq(Ids) /\ Distinct(rows) /\ ToSet(rows) = ToSet(b.rows) \ {a}
  BY <1>1, IndexFinds, RowRemoved
<1> HIDE DEF rows
<1>3. /\ c \in AccountModel /\ c.rows = rows /\ c.prior = b.prior /\ c.box = b.box
      /\ c.registered = b.registered /\ c.enabled = b.enabled
  BY <1>1, <1>2 DEF AccountModel
<1> HIDE DEF c
<1>4. Listed(c)
  BY <1>1, <1>2, <1>3 DEF Listed
<1>5. Settled(c, s)
  <2>1. CASE b.prior # a
    <3>1. Settled(c, w)
      BY <2>1, <1>2, <1>3, <1>4, CurrentSettles DEF Good
    <3>2. w.prior # a
      BY <3>1, <1>2, <1>3 DEF Settled
    <3>. QED
      BY <3>1, <3>2
  <2>2. CASE b.prior = a /\ Usable(c, a)
    <3>1. w = c
      BY <2>2, <1>3 DEF currentAccount, Chosen
    <3>2. s = Shown(c, Chosen(c, IP2IP))
      BY <2>2, <3>1, <1>3 DEF setPriorAccount
    <3>3. Chosen(c, IP2IP) \in ToSet(c.rows)
      BY <1>1, <1>2, <1>3, <1>4, ChosenIsListed
    <3>. QED
      BY <3>2, <3>3, <1>4, ShownSettles
  <2>3. CASE b.prior = a /\ ~Usable(c, a)
    <3>1. Chosen(c, a) \in ToSet(c.rows)
      BY <2>3, <1>1, <1>2, <1>3, FirstIsUsable DEF Chosen
    <3>2. w = Shown(c, Chosen(c, a))
      BY <2>3, <3>1, <1>2, <1>3 DEF currentAccount
    <3>3. w.prior # a /\ Settled(c, w)
      BY <3>1, <3>2, <1>2, <1>3, <1>4, ShownSettles
    <3>. QED
      BY <3>3
  <2>. QED
    BY <2>1, <2>2, <2>3
<1> HIDE DEF w, s
<1>6. s \in AccountModel
  BY <1>5 DEF Settled
<1>7. /\ r \in AccountModel /\ r.rows = s.rows /\ r.prior = s.prior /\ r.box = s.box
      /\ r.registered = s.registered \ {a}
  BY <1>6 DEF AccountModel
<1>8. Removed(b, a) = r
  BY DEF Removed, r, s, w, c, rows
<1> HIDE DEF r
<1>9. Good(s) /\ ShownAfter(c, s)
  BY <1>4, <1>5, SettledIsGood
<1>10. Good(r) /\ ShownAfter(b, r)
  BY <1>3, <1>7, <1>9, IndexOfRows DEF Good, Listed, ShownAfter
<1>11. ToSet(r.rows) = ToSet(b.rows) \ {a} /\ r.registered = b.registered \ {a}
  BY <1>2, <1>3, <1>5, <1>7 DEF Settled
<1>. QED
  BY <1>8, <1>10, <1>11

LEMMA LoadedKeeps ==
  ASSUME daemon.registered \in SUBSET Servers,
         NEW b \in AccountModel, NEW rows \in Seq(Ids),
         NEW S \in SUBSET Servers, NEW enabled \in SUBSET Servers
  PROVE  LET c == Loaded(b, rows, S, enabled)
         IN  /\ c \in AccountModel /\ c.rows = rows /\ c.prior = b.prior /\ c.box = b.box
             /\ c.registered = (b.registered \ S) \union (S \intersect daemon.registered)
<1> DEFINE d == [b EXCEPT !.rows = rows, !.enabled = (@ \ S) \union (enabled \intersect S)]
           c == Reread(d, S)
<1>1. /\ d \in AccountModel /\ d.rows = rows /\ d.prior = b.prior /\ d.box = b.box
      /\ d.registered = b.registered
  BY DEF AccountModel
<1> HIDE DEF d
<1>2. /\ c \in AccountModel /\ c.rows = d.rows /\ c.prior = d.prior /\ c.box = d.box
      /\ c.registered = (d.registered \ S) \union (S \intersect daemon.registered)
  BY <1>1 DEF Reread, AccountModel
<1>3. c = Loaded(b, rows, S, enabled)
  BY DEF Loaded, d
<1>. QED
  BY <1>1, <1>2, <1>3

-----------------------------------------------------------------------------
(* The inductive invariant: a status that is not the daemon's has a signal *)
(* on its way.                                                             *)

StatusAgrees ==
  \A a \in Account(accounts) \ daemon.signals :
    a \in accounts.registered <=> a \in daemon.registered

AccountInv == daemon \in Daemon /\ Good(accounts) /\ StatusAgrees

LEMMA Starts == AccountInit => AccountInv
<1> SUFFICES ASSUME AccountInit PROVE AccountInv
  OBVIOUS
<1>1. PICK listed \in SUBSET Servers : \E registered \in SUBSET listed, enabled \in SUBSET listed :
        /\ daemon = [known |-> listed, registered |-> registered, signals |-> {}, changed |-> FALSE]
        /\ \E order \in SetToSeqs(listed) :
             accounts = currentAccount([rows |-> <<IP2IP>> \o order, registered |-> registered,
                                        enabled |-> enabled, prior |-> IP2IP, box |-> 1])
  BY DEF AccountInit
<1>2. PICK registered \in SUBSET listed, enabled \in SUBSET listed :
        /\ daemon = [known |-> listed, registered |-> registered, signals |-> {}, changed |-> FALSE]
        /\ \E order \in SetToSeqs(listed) :
             accounts = currentAccount([rows |-> <<IP2IP>> \o order, registered |-> registered,
                                        enabled |-> enabled, prior |-> IP2IP, box |-> 1])
  BY <1>1
<1>3. PICK order \in SetToSeqs(listed) :
             accounts = currentAccount([rows |-> <<IP2IP>> \o order, registered |-> registered,
                                        enabled |-> enabled, prior |-> IP2IP, box |-> 1])
  BY <1>2
<1> DEFINE rows == <<IP2IP>> \o order
           b == [rows |-> rows, registered |-> registered, enabled |-> enabled,
                 prior |-> IP2IP, box |-> 1]
<1>4. order \in Seq(Ids) /\ Distinct(order) /\ ToSet(order) = listed
  BY OrderLists DEF Ids
<1>5. <<IP2IP>> \in Seq(Ids) /\ Distinct(<<IP2IP>>) /\ ToSet(<<IP2IP>>) = {IP2IP}
  BY DEF Ids, Distinct, ToSet
<1>6. rows \in Seq(Ids) /\ Distinct(rows) /\ ToSet(rows) = listed \union {IP2IP}
  <2>1. ToSet(<<IP2IP>>) \intersect ToSet(order) = {}
    BY <1>4, <1>5, ServersAssumption
  <2>2. /\ rows \in Seq(Ids) /\ Distinct(rows)
        /\ ToSet(rows) = ToSet(<<IP2IP>>) \union ToSet(order)
    BY <1>4, <1>5, <2>1, RowsJoined, Zenon
  <2>. QED
    BY <1>4, <1>5, <2>2
<1> HIDE DEF rows
<1>7. b \in AccountModel /\ b.rows = rows /\ b.prior = IP2IP /\ b.registered = registered
  BY <1>6 DEF AccountModel, Ids
<1>8. accounts = currentAccount(b)
  BY <1>3 DEF rows
<1> HIDE DEF b
<1>9. Good(b)
  BY <1>6, <1>7 DEF Good, Listed
<1>10. Settled(b, accounts)
  BY <1>8, <1>9, CurrentSettles DEF Good
<1>11. Good(accounts)
  BY <1>9, <1>10, SettledIsGood DEF Good
<1>12. daemon \in Daemon /\ accounts.registered = daemon.registered
  BY <1>2, <1>7, <1>10 DEF Settled, Daemon
<1>. QED
  BY <1>11, <1>12 DEF AccountInv, StatusAgrees

(* The rows and the statuses of the list stay. *)
LEMMA Kept ==
  ASSUME AccountInv, daemon' = daemon, Good(accounts'), accounts'.registered = accounts.registered,
         ToSet(accounts'.rows) = ToSet(accounts.rows)
  PROVE  AccountInv'
BY DEF AccountInv, StatusAgrees, Account

(* The list stays, and every change of the daemon has its signal. *)
LEMMA Announced ==
  ASSUME AccountInv, UNCHANGED accounts, daemon' \in Daemon,
         daemon.signals \subseteq daemon'.signals,
         \A a \in Account(accounts) \ daemon'.signals :
           a \in daemon'.registered <=> a \in daemon.registered
  PROVE  AccountInv' /\ ShownAfter(accounts, accounts')
BY DEF AccountInv, StatusAgrees, ShownAfter, Account

LEMMA Asked ==
  ASSUME AccountInv, daemon' = daemon, accounts' = currentAccount(accounts)
  PROVE  AccountInv' /\ ShownAfter(accounts, accounts')
<1>1. Settled(accounts, accounts')
  BY CurrentSettles DEF AccountInv, Good
<1>2. Good(accounts') /\ ShownAfter(accounts, accounts')
  BY <1>1, SettledIsGood DEF AccountInv, Good
<1>. QED
  BY <1>1, <1>2, Kept DEF Settled

LEMMA BoxStep ==
  ASSUME AccountInv, NEW row \in 2..Len(accounts.rows), currentAccountIndexChanged(row)
  PROVE  AccountInv' /\ ShownAfter(accounts, accounts')
<1> DEFINE b == [accounts EXCEPT !.box = row]
           a == accounts.rows[row]
<1>1. accounts \in AccountModel /\ accounts.rows \in Seq(Ids) /\ Distinct(accounts.rows)
  BY DEF AccountInv, Good, Listed, AccountModel
<1>2. /\ b \in AccountModel /\ b.rows = accounts.rows /\ b.prior = accounts.prior /\ b.box = row
      /\ b.registered = accounts.registered
  BY <1>1 DEF AccountModel
<1>3. a \in ToSet(b.rows)
  BY <1>1, <1>2 DEF ToSet
<1>4. accounts' = setPriorAccount(b, a) /\ daemon' = daemon
  BY DEF currentAccountIndexChanged, Keeps
<1>5. index(b, a) = row
  <2>1. index(b, a) \in 1..Len(b.rows) /\ b.rows[index(b, a)] = a
    BY <1>2, <1>3, IndexFinds
  <2>. QED
    BY <2>1, <1>1, <1>2 DEF Distinct
<1> HIDE DEF b, a
<1>6. Good(b)
  BY <1>2 DEF AccountInv, Good, Listed
<1>7. Settled(b, accounts') /\ (a # b.prior => accounts'.box = index(b, accounts'.prior))
  BY <1>3, <1>4, <1>6, PriorSettles DEF Good
<1>8. Good(accounts')
  BY <1>6, <1>7, SettledIsGood DEF Good
<1>9. accounts'.box = index(b, accounts'.prior)
  <2>1. CASE a = b.prior
    BY <2>1, <1>2, <1>4, <1>5 DEF setPriorAccount
  <2>. QED
    BY <2>1, <1>7
<1>10. index(accounts', accounts'.prior) = index(b, accounts'.prior)
  BY <1>7, IndexOfRows DEF Settled
<1>. QED
  BY <1>2, <1>4, <1>7, <1>8, <1>9, <1>10, Kept DEF Settled, ShownAfter

LEMMA RemoveStep ==
  ASSUME AccountInv, NEW a, removeAccount(a)
  PROVE  AccountInv' /\ ShownAfter(accounts, accounts')
<1>1. a \in ToSet(accounts.rows) /\ a # IP2IP /\ accounts' = Removed(accounts, a) /\ daemon' = daemon
  BY DEF removeAccount, Account, Keeps
<1>2. /\ Good(accounts') /\ ShownAfter(accounts, accounts')
      /\ ToSet(accounts'.rows) = ToSet(accounts.rows) \ {a}
      /\ accounts'.registered = accounts.registered \ {a}
  BY <1>1, RemovedIsGood DEF AccountInv
<1>. QED
  BY <1>1, <1>2 DEF AccountInv, StatusAgrees, Account

LEMMA MoveStep ==
  ASSUME AccountInv, NEW row, moveAccount(row)
  PROVE  AccountInv' /\ ShownAfter(accounts, accounts')
<1> DEFINE s == accounts.rows
           r == accounts'.rows
<1>1. accounts \in AccountModel /\ s \in Seq(Ids) /\ Distinct(s) /\ IP2IP \in ToSet(s)
  BY DEF AccountInv, Good, Listed, AccountModel
<1>2. row \in 2..Len(s) - 1 /\ daemon' = daemon
  BY DEF moveAccount, Keeps
<1>3. /\ accounts' \in AccountModel /\ accounts'.prior = accounts.prior
      /\ accounts'.box = accounts.box /\ accounts'.registered = accounts.registered
      /\ Len(r) = Len(s)
      /\ \A i \in 1..Len(s) : r[i] = IF i = row THEN s[row + 1]
                                     ELSE IF i = row + 1 THEN s[row] ELSE s[i]
  <2> DEFINE t == [s EXCEPT ![row] = s[row + 1], ![row + 1] = s[row]]
  <2>1. t \in Seq(Ids) /\ Len(t) = Len(s)
    BY <1>1, <1>2
  <2>2. \A i \in 1..Len(s) : t[i] = IF i = row THEN s[row + 1]
                                    ELSE IF i = row + 1 THEN s[row] ELSE s[i]
    BY <1>1, <1>2
  <2>3. accounts' = [accounts EXCEPT !.rows = t]
    BY DEF moveAccount
  <2> HIDE DEF t
  <2>4. /\ accounts' \in AccountModel /\ accounts'.prior = accounts.prior /\ r = t
        /\ accounts'.box = accounts.box /\ accounts'.registered = accounts.registered
    BY <1>1, <2>1, <2>3 DEF AccountModel
  <2>. QED
    BY <2>1, <2>2, <2>4
<1> HIDE DEF s, r
<1>4. r \in Seq(Ids) /\ DOMAIN r = 1..Len(r) /\ DOMAIN s = 1..Len(s) /\ Len(s) \in Nat
  BY <1>1, <1>3 DEF r, AccountModel
<1>5. Distinct(r)
  BY <1>1, <1>2, <1>3, <1>4 DEF Distinct
<1>6. ToSet(r) = ToSet(s)
  <2>1. \A i \in 1..Len(s) : r[i] \in ToSet(s)
    BY <1>2, <1>3, <1>4 DEF ToSet
  <2>2. \A i \in 1..Len(s) : s[i] \in ToSet(r)
    BY <1>2, <1>3, <1>4 DEF ToSet
  <2>. QED
    BY <2>1, <2>2, <1>3, <1>4 DEF ToSet
<1>7. Good(accounts')
  BY <1>1, <1>3, <1>5, <1>6 DEF AccountInv, Good, Listed, r, s
<1>. QED
  BY <1>2, <1>3, <1>6, <1>7, Kept DEF ShownAfter, r, s

LEMMA EnableStep ==
  ASSUME AccountInv, NEW a \in Servers, setEnabled(a)
  PROVE  AccountInv' /\ ShownAfter(accounts, accounts')
<1>1. accounts \in AccountModel
  BY DEF AccountInv, Good, Listed
<1>2. /\ accounts' = [accounts EXCEPT !.enabled = SymDiff(@, {a})]
      /\ SymDiff(accounts.enabled, {a}) \in SUBSET Servers /\ daemon' = daemon
  BY <1>1 DEF setEnabled, Keeps, SymDiff, AccountModel
<1>3. /\ accounts' \in AccountModel /\ accounts'.rows = accounts.rows
      /\ accounts'.prior = accounts.prior /\ accounts'.box = accounts.box
      /\ accounts'.registered = accounts.registered
  BY <1>1, <1>2 DEF AccountModel
<1>4. Good(accounts')
  BY <1>3 DEF AccountInv, Good, Listed
<1>. QED
  BY <1>2, <1>3, <1>4, Kept DEF ShownAfter

LEMMA SaveStep ==
  ASSUME AccountInv, saveAccounts
  PROVE  AccountInv' /\ ShownAfter(accounts, accounts')
<1> DEFINE gone == daemon.known \ Account(accounts)
<1>1. daemon \in Daemon /\ UNCHANGED accounts
  BY DEF AccountInv, saveAccounts
<1>2. /\ daemon' = [daemon EXCEPT !.known = @ \ gone, !.registered = @ \ gone,
                                  !.signals = @ \union gone, !.changed = TRUE]
      /\ gone \in SUBSET Servers /\ gone \intersect Account(accounts) = {}
  BY <1>1 DEF saveAccounts, Daemon
<1> HIDE DEF gone
<1>3. /\ daemon' \in Daemon /\ daemon'.signals = daemon.signals \union gone
      /\ daemon'.registered = daemon.registered \ gone
  BY <1>1, <1>2 DEF Daemon
<1>. QED
  BY <1>1, <1>2, <1>3, Announced

LEMMA DaemonStep ==
  ASSUME AccountInv, NEW a \in Servers, Registration(a) \/ AddedToDaemon(a)
  PROVE  AccountInv' /\ ShownAfter(accounts, accounts')
<1>1. daemon \in Daemon /\ UNCHANGED accounts
  BY DEF AccountInv, Registration, AddedToDaemon
<1>2. CASE Registration(a)
  <2>1. /\ daemon' = [daemon EXCEPT !.registered = SymDiff(@, {a}), !.signals = @ \union {a}]
        /\ SymDiff(daemon.registered, {a}) \in SUBSET Servers
    BY <1>1, <1>2 DEF Registration, SymDiff, Daemon
  <2>2. /\ daemon' \in Daemon /\ daemon'.signals = daemon.signals \union {a}
        /\ daemon'.registered = SymDiff(daemon.registered, {a})
    BY <1>1, <2>1 DEF Daemon
  <2>. QED
    BY <1>1, <2>2, Announced DEF SymDiff
<1>3. CASE AddedToDaemon(a)
  <2>1. /\ daemon' \in Daemon /\ daemon'.signals = daemon.signals \union {a}
        /\ daemon'.registered = daemon.registered
    BY <1>1, <1>3 DEF AddedToDaemon, Daemon
  <2>. QED
    BY <1>1, <2>1, Announced
<1>. QED
  BY <1>2, <1>3

(* The accounts S are read, those of them that are new get a row. *)
LEMMA ReadStep ==
  ASSUME AccountInv, NEW rows \in Seq(Ids), Distinct(rows),
         NEW S \in SUBSET Servers, NEW new \in SUBSET S,
         ToSet(rows) = ToSet(accounts.rows) \union new,
         NEW c \in AccountModel, c.rows = rows, c.prior = accounts.prior,
         c.registered = (accounts.registered \ S) \union (S \intersect daemon.registered)
  PROVE  /\ Good(c)
         /\ \A a \in Account(c) \ (daemon.signals \ S) :
              a \in c.registered <=> a \in daemon.registered
<1>1. Good(c)
  BY DEF AccountInv, Good, Listed
<1>2. ASSUME NEW a \in Account(c), a \notin daemon.signals \ S
      PROVE  a \in c.registered <=> a \in daemon.registered
  <2>1. CASE a \in S
    BY <2>1
  <2>2. CASE a \notin S
    <3>1. a \in Account(accounts) \ daemon.signals
      BY <1>2, <2>2 DEF Account
    <3>. QED
      BY <2>2, <3>1 DEF AccountInv, StatusAgrees
  <2>. QED
    BY <2>1, <2>2
<1>. QED
  BY <1>1, <1>2

LEMMA SignalStep ==
  ASSUME AccountInv, NEW a \in Servers, registrationRead(a)
  PROVE  AccountInv' /\ ShownAfter(accounts, accounts')
<1>1. daemon \in Daemon /\ accounts \in AccountModel /\ Distinct(accounts.rows)
  BY DEF AccountInv, Good, Listed
<1>2. /\ daemon' \in Daemon /\ daemon'.signals = daemon.signals \ {a}
      /\ daemon'.registered = daemon.registered
  BY <1>1 DEF registrationRead, Daemon
<1>3. accounts.rows \in Seq(Ids) /\ daemon.registered \in SUBSET Servers
  BY <1>1 DEF AccountModel, Daemon
<1>4. CASE a \in Account(accounts)
  <2>1. accounts' = Reread(accounts, {a})
    BY <1>4 DEF registrationRead
  <2>2. /\ accounts' \in AccountModel /\ accounts'.rows = accounts.rows
        /\ accounts'.prior = accounts.prior /\ accounts'.box = accounts.box
        /\ accounts'.registered = (accounts.registered \ {a}) \union ({a} \intersect daemon.registered)
    BY <1>1, <1>3, <2>1 DEF Reread, AccountModel
  <2> DEFINE c == accounts'
             rows == accounts.rows
  <2>3. /\ Good(c)
        /\ \A x \in Account(c) \ (daemon.signals \ {a}) :
             x \in c.registered <=> x \in daemon.registered
    <3> HIDE DEF c
    <3>1. {a} \in SUBSET Servers /\ {} \in SUBSET {a} /\ ToSet(rows) = ToSet(accounts.rows) \union {}
      OBVIOUS
    <3>2. /\ c \in AccountModel /\ c.rows = rows /\ c.prior = accounts.prior
          /\ c.registered = (accounts.registered \ {a}) \union ({a} \intersect daemon.registered)
      BY <2>2 DEF c
    <3>3. rows \in Seq(Ids) /\ Distinct(rows)
      BY <1>1, <1>3
    <3> HIDE DEF rows
    <3>. QED
      BY <3>1, <3>2, <3>3, ReadStep
  <2>. QED
    BY <1>2, <2>2, <2>3 DEF AccountInv, StatusAgrees, ShownAfter, Account
<1>5. CASE a \notin Account(accounts)
  <2>1. PICK new \in SUBSET (daemon.known \ Account(accounts)), enabled \in SUBSET Servers :
          \E rows \in Inserted(accounts.rows, new) : accounts' = Loaded(accounts, rows, new, enabled)
    BY <1>5 DEF registrationRead
  <2>2. PICK rows \in Inserted(accounts.rows, new) : accounts' = Loaded(accounts, rows, new, enabled)
    BY <2>1
  <2>3. new \in SUBSET Servers /\ ToSet(accounts.rows) \union new \in SUBSET Ids
    BY <1>1, <1>3 DEF Daemon, ToSet, Ids
  <2>4. /\ rows \in Seq(Ids) /\ Distinct(rows)
        /\ ToSet(rows) = ToSet(accounts.rows) \union new
    BY <2>3, OrderLists DEF Inserted
  <2> DEFINE c == accounts'
  <2>5. /\ c \in AccountModel /\ c.rows = rows
        /\ c.prior = accounts.prior /\ c.box = accounts.box
        /\ c.registered = (accounts.registered \ new) \union (new \intersect daemon.registered)
    <3> DEFINE d == Loaded(accounts, rows, new, enabled)
    <3>1. /\ d \in AccountModel /\ d.rows = rows
          /\ d.prior = accounts.prior /\ d.box = accounts.box
          /\ d.registered = (accounts.registered \ new) \union (new \intersect daemon.registered)
      <4>1. /\ daemon.registered \in SUBSET Servers /\ accounts \in AccountModel
            /\ rows \in Seq(Ids) /\ new \in SUBSET Servers /\ enabled \in SUBSET Servers
        BY <1>1, <1>3, <2>3, <2>4
      <4>. QED
        BY <4>1, LoadedKeeps
    <3>2. c = d
      BY <2>2
    <3> HIDE DEF c, d
    <3>. QED
      BY <3>1, <3>2
  <2>6. /\ Good(c)
        /\ \A x \in Account(c) \ (daemon.signals \ new) :
             x \in c.registered <=> x \in daemon.registered
    <3> HIDE DEF c
    <3>. QED
      BY <2>3, <2>4, <2>5, ReadStep
  <2>7. \A x \in Account(c) \ daemon'.signals : x \in Account(c) \ (daemon.signals \ new)
    BY <1>2, <1>5, <2>4, <2>5 DEF Account
  <2>. QED
    BY <1>2, <2>5, <2>6, <2>7 DEF AccountInv, StatusAgrees, ShownAfter, Account
<1>. QED
  BY <1>4, <1>5

LEMMA ListStep ==
  ASSUME AccountInv, accountsRead
  PROVE  AccountInv' /\ ShownAfter(accounts, accounts')
<1> DEFINE fresh == daemon.known \ Account(accounts)
<1>1. daemon \in Daemon /\ accounts \in AccountModel /\ Distinct(accounts.rows)
  BY DEF AccountInv, Good, Listed
<1>2. /\ daemon' \in Daemon /\ daemon'.signals = daemon.signals
      /\ daemon'.registered = daemon.registered
  BY <1>1 DEF accountsRead, Daemon
<1>3. accounts.rows \in Seq(Ids) /\ daemon.registered \in SUBSET Servers
  BY <1>1 DEF AccountModel, Daemon
<1>4. PICK order \in SetToSeqs(fresh), enabled \in SUBSET Servers,
           reloaded \in SUBSET (Account(accounts) \intersect daemon.known) :
        accounts' = currentAccount(
          Loaded(accounts, accounts.rows \o order, fresh \union reloaded, enabled))
  BY DEF accountsRead
<1> DEFINE S    == fresh \union reloaded
           rows == accounts.rows \o order
           c    == Loaded(accounts, rows, S, enabled)
<1>5. fresh \in SUBSET Servers /\ S \in SUBSET Servers /\ fresh \in SUBSET S
  BY <1>1 DEF Daemon
<1>6. accounts' = currentAccount(c)
  BY <1>4
<1>7. /\ rows \in Seq(Ids) /\ Distinct(rows)
      /\ ToSet(rows) = ToSet(accounts.rows) \union fresh
  <2>1. order \in Seq(Ids) /\ Distinct(order) /\ ToSet(order) = fresh
    BY <1>5, OrderLists DEF Ids
  <2>2. ToSet(accounts.rows) \intersect ToSet(order) = {}
    BY <1>5, <2>1, ServersAssumption DEF Account
  <2>. QED
    BY <1>1, <1>3, <2>1, <2>2, RowsJoined
<1> HIDE DEF rows, S, fresh
<1>8. /\ c \in AccountModel /\ c.rows = rows /\ c.prior = accounts.prior /\ c.box = accounts.box
      /\ c.registered = (accounts.registered \ S) \union (S \intersect daemon.registered)
  BY <1>1, <1>3, <1>5, <1>7, LoadedKeeps
<1> HIDE DEF c
<1>9. /\ Good(c)
      /\ \A x \in Account(c) \ (daemon.signals \ S) :
           x \in c.registered <=> x \in daemon.registered
  BY <1>5, <1>7, <1>8, ReadStep
<1>10. Settled(c, accounts')
  BY <1>6, <1>9, CurrentSettles DEF Good
<1>11. Good(accounts') /\ ShownAfter(c, accounts')
  BY <1>9, <1>10, SettledIsGood DEF Good
<1>. QED
  BY <1>2, <1>8, <1>9, <1>10, <1>11 DEF AccountInv, StatusAgrees, ShownAfter, Account, Settled

-----------------------------------------------------------------------------
(* The theorems. *)

LEMMA Steps ==
  ASSUME AccountInv, [AccountNext]_accountVars
  PROVE  AccountInv' /\ ShownAfter(accounts, accounts')
<1>1. ASSUME UNCHANGED <<daemon, accounts>>
      PROVE  AccountInv' /\ ShownAfter(accounts, accounts')
  BY <1>1 DEF AccountInv, StatusAgrees, ShownAfter, Account
<1>2. ASSUME NEW row \in 2..Len(accounts.rows), currentAccountIndexChanged(row) \/ moveAccount(row)
      PROVE  AccountInv' /\ ShownAfter(accounts, accounts')
  BY <1>2, BoxStep, MoveStep
<1>3. ASSUME NEW a \in Servers, removeAccount(a) \/ setEnabled(a)
      PROVE  AccountInv' /\ ShownAfter(accounts, accounts')
  BY <1>3, RemoveStep, EnableStep
<1>4. CASE Ask \/ dial \/ EnterDialled \/ MailBox
  BY <1>4, Asked DEF Ask, dial, EnterDialled, MailBox, Keeps, Place
<1>5. CASE cancelDialing \/ AcceptDialled
  BY <1>5, <1>1 DEF cancelDialing, AcceptDialled, Place
<1>6. CASE saveAccounts
  BY <1>6, SaveStep
<1>7. ASSUME NEW a \in Servers, Registration(a) \/ AddedToDaemon(a) \/ registrationRead(a)
      PROVE  AccountInv' /\ ShownAfter(accounts, accounts')
  BY <1>7, DaemonStep, SignalStep
<1>8. CASE accountsRead
  BY <1>8, ListStep
<1>9. CASE UNCHANGED accountVars
  BY <1>9, <1>1 DEF accountVars
<1>. QED
  BY <1>2, <1>3, <1>4, <1>5, <1>6, <1>7, <1>8, <1>9 DEF AccountNext

(* Each account has one row, IP2IP and the current account have theirs, and *)
(* a status that is not the daemon's has a signal on its way.               *)
THEOREM AccountInvariance == AccountSpec => []AccountInv
<1>1. AccountInv /\ [AccountNext]_accountVars => AccountInv'
  BY Steps
<1>. QED
  BY Starts, <1>1, PTL DEF AccountSpec

(* The rows, the statuses and the current account keep their types. *)
THEOREM AccountTypeCorrect == AccountSpec => []AccountTypeOK
<1>1. AccountInv => AccountTypeOK
  BY DEF AccountInv, AccountTypeOK, Good, Listed
<1>. QED
  BY AccountInvariance, <1>1, PTL

(* The current account is one of the list, and the box follows each change *)
(* of it (setPriorAccount, currentPriorAccountChanged), however the slots  *)
(* call each other.                                                        *)
THEOREM ShownCorrect == AccountSpec => AccountShown
<1>1. ASSUME AccountInv, [AccountNext]_accountVars
      PROVE  [/\ index(accounts', accounts'.prior) # 0
              /\ accounts'.prior # accounts.prior \/ accounts'.box # accounts.box
                   => accounts'.box = index(accounts', accounts'.prior)]_accountVars
  <2>1. AccountInv' /\ ShownAfter(accounts, accounts')
    BY <1>1, Steps
  <2>2. Good(accounts')
    BY <2>1 DEF AccountInv
  <2>3. index(accounts', accounts'.prior) \in 1..Len(accounts'.rows)
    BY <2>2, IndexFinds DEF Good, Listed
  <2>. QED
    BY <2>1, <2>3 DEF ShownAfter
<1>. QED
  BY AccountInvariance, <1>1, PTL DEF AccountSpec, AccountShown

(* A call placed with Enter goes out by an account the daemon has          *)
(* registered, if an enabled one of the list is and no signal is on its    *)
(* way (EventManager::enter, currentAccount).                              *)
THEOREM CallsCorrect == AccountSpec => CallsGoOut
<1>1. ASSUME AccountInv, EnterDialled, daemon.signals = {},
             Account(accounts) \intersect accounts.enabled \intersect daemon.registered # {}
      PROVE  placed' \in daemon.registered
  <2>1. PICK x \in Account(accounts) : x \in accounts.enabled /\ x \in daemon.registered
    BY <1>1
  <2>2. Usable(accounts, x) /\ x \in ToSet(accounts.rows)
    BY <1>1, <2>1 DEF AccountInv, StatusAgrees, Usable, Account
  <2>3. placed' = Chosen(accounts, accounts.prior)
    BY <1>1, CurrentSettles DEF EnterDialled, Place, AccountInv, Good
  <2>4. placed' \in ToSet(accounts.rows) /\ Usable(accounts, placed')
    BY <1>1, <2>2, <2>3, ChosenIsListed DEF AccountInv, Good
  <2>5. placed' \in Account(accounts) /\ placed' \in accounts.registered
    BY <1>1, <2>4, ServersAssumption DEF Usable, Account, AccountInv, Good, Listed, AccountModel
  <2>. QED
    BY <1>1, <2>5 DEF AccountInv, StatusAgrees
<1>2. AccountInv => [EnterDialled /\ daemon.signals = {}
                       /\ Account(accounts) \intersect accounts.enabled \intersect daemon.registered # {}
                     => placed' \in daemon.registered]_accountVars
  BY <1>1
<1>. QED
  BY AccountInvariance, <1>2, PTL DEF CallsGoOut

-----------------------------------------------------------------------------
USE MaxCallsAssumption

-----------------------------------------------------------------------------
(* The call view.                                                          *)

(* The action a button asks for, and what it leads to when the daemon does *)
(* as it is told.                                                          *)
ActionOf(u) == [Accept |-> "ACCEPT", Refuse |-> "REFUSE", Hold |-> "HOLD",
                Transfer |-> "TRANSFER", Record |-> "RECORD"][MenuActionOf(u)]
LeadsTo(s, u) ==
  IF MenuActionOf(u) = "Accept" /\ s \in {"RINGING", "CURRENT", "HOLD", "BUSY", "FAILURE", "ERROR"}
    THEN s ELSE actionPerformedStateMap[s][ActionOf(u)]

(* The buttons that may be pressed in a state.                             *)
Applicable(s) == {u \in UserAction : u = "MUTE" \/ LeadsTo(s, u) # "ERROR"}

(* A call that is listed, found by id or transferred has begun, and the    *)
(* selection is in the rows.                                               *)
Begun(v, c)  == v.state[c] # "NONE"
Loose(v) ==
  /\ v \in View /\ IsInjective(v.rows)
  /\ \A c \in Calls : c \in ToSet(v.rows) \/ c \in v.tracked \/ c = v.overlayCall => Begun(v, c)
  /\ v.current # None => v.current \in ToSet(v.rows)

(* The toolbar offers what applies to the selected call, although not each *)
(* change of its state is announced.                                       *)
Offers(v) ==
  IF v.current = None THEN v.offered = {}
  ELSE v.state[v.current] # "ERROR" => v.offered \subseteq Applicable(v.state[v.current])

GoodView(v) == Loose(v) /\ (v.rows # <<>> => v.current # None) /\ Offers(v)

(* A state that is left without telling the toolbar offers nothing that    *)
(* does not apply to the next one.                                         *)
Follows(s, t) ==
  \/ t \in {"TRANSFERRED", "OVER", "ERROR"}
  \/ s # "ERROR" /\ Applicable(s) \subseteq Applicable(t)

LEMMA ActionFollows ==
  ASSUME NEW s \in CallState, NEW a \in Action
  PROVE  actionPerformedStateMap[s][a] \in CallState /\ Follows(s, actionPerformedStateMap[s][a])
BY DEF CallState, Initializing, InProgress, Finished, Action, actionPerformedStateMap, OnAction,
       Follows, Applicable, LeadsTo, ActionOf, MenuActionOf, UserAction

LEMMA OffersApply ==
  ASSUME NEW s \in CallState, s # "ERROR"
  PROVE  availableActions(s) \subseteq Applicable(s)
BY DEF CallState, Initializing, InProgress, Finished, actionPerformedStateMap, OnAction,
       availableActions, Applicable, LeadsTo, ActionOf, MenuActionOf, UserAction

LEMMA UpdateState ==
  ASSUME NEW v, Loose(v)
  PROVE  LET w == updateState(v) IN GoodView(w) /\ w.state = v.state /\ w.rows = v.rows
<1>. DEFINE c == IF v.current = None /\ v.rows # <<>> THEN Head(v.rows) ELSE v.current
            o == IF c = None THEN {} ELSE availableActions(v.state[c])
            w == updateState(v)
<1>1. v \in View /\ v.rows \in Seq(Calls)
  BY DEF Loose, View
<1>2. c \in Calls \union {None} /\ (c # None => c \in ToSet(v.rows)) /\ (v.rows # <<>> => c # None)
  <2>1. v.rows # <<>> => Head(v.rows) \in ToSet(v.rows) /\ Head(v.rows) \in Calls
    <3>1. v.rows # <<>> => Head(v.rows) = v.rows[1] /\ 1 \in DOMAIN v.rows
      BY <1>1
    <3>. QED
      BY <1>1, <3>1 DEF ToSet
  <2>2. \A x \in Calls : x # None
    BY DEF Calls, None
  <2>3. v.current \in Calls \union {None} /\ (v.current # None => v.current \in ToSet(v.rows))
    BY DEF Loose, View
  <2>. QED
    BY <2>1, <2>2, <2>3
<1>3. o \in SUBSET UserAction
  BY DEF availableActions
<1>4. w = [v EXCEPT !.current = c, !.offered = o]
  BY DEF updateState
<1>. HIDE DEF c, o, w
<1>5. /\ w \in View /\ w.state = v.state /\ w.rows = v.rows /\ w.tracked = v.tracked
      /\ w.overlayCall = v.overlayCall /\ w.current = c /\ w.offered = o
  BY <1>1, <1>2, <1>3, <1>4 DEF View
<1>6. Loose(w)
  BY <1>2, <1>5 DEF Loose, Begun
<1>7. Offers(w)
  <2>1. c # None => c \in Calls /\ v.state[c] \in CallState
    BY <1>1, <1>2 DEF Loose, View, Begun
  <2>. QED
    BY <1>5, <2>1, OffersApply DEF Offers, o
<1>. QED
  BY <1>2, <1>5, <1>6, <1>7 DEF GoodView, w

LEMMA UpdateWindow ==
  ASSUME NEW v, Loose(v)
  PROVE  LET w == updateWindowCallState(v)
         IN  /\ Loose(w) /\ (GoodView(v) => GoodView(w))
             /\ w.state = v.state /\ w.rows = v.rows /\ w.current = v.current
<1>. DEFINE w == updateWindowCallState(v)
<1>1. v \in View
  BY DEF Loose
<1>2. /\ w \in View /\ w.state = v.state /\ w.rows = v.rows /\ w.tracked = v.tracked
      /\ w.current = v.current /\ w.offered = v.offered
      /\ \/ w.overlayCall = v.overlayCall
         \/ w.overlayCall = v.current /\ v.current # None
  <2>1. CASE v.current = None
    <3>1. w = [v EXCEPT !.visible = {"Accept", "Mailbox"}]
      BY <2>1 DEF updateWindowCallState
    <3>. HIDE DEF w
    <3>. QED
      BY <1>1, <3>1 DEF View, MenuAction
  <2>2. CASE v.current # None /\ v.state[v.current] = "TRANSFERRED"
    <3>1. w = [v EXCEPT !.visible = MenuAction, !.overlay = TRUE, !.overlayCall = v.current]
      BY <2>2 DEF updateWindowCallState
    <3>. HIDE DEF w
    <3>. QED
      BY <1>1, <2>2, <3>1 DEF View
  <2>3. CASE v.current # None /\ v.state[v.current] # "TRANSFERRED"
    <3>. DEFINE m == menuActions(v.state[v.current])
    <3>1. w = [v EXCEPT !.visible = m] /\ m \in SUBSET MenuAction
      BY <2>3 DEF updateWindowCallState, menuActions
    <3>. HIDE DEF w, m
    <3>. QED
      BY <1>1, <3>1 DEF View
  <2>. QED
    BY <2>1, <2>2, <2>3
<1>. HIDE DEF w
<1>3. Loose(w)
  BY <1>2 DEF Loose, Begun
<1>4. GoodView(v) => GoodView(w)
  BY <1>2, <1>3 DEF GoodView, Offers
<1>. QED
  BY <1>2, <1>3, <1>4 DEF w

LEMMA StateIsTold ==
  ASSUME NEW v, Loose(v)
  PROVE  LET w == callStateChanged(v) IN GoodView(w) /\ w.state = v.state /\ w.rows = v.rows
<1>. DEFINE u == updateWindowCallState(v)
<1>1. Loose(u) /\ u.state = v.state /\ u.rows = v.rows
  BY UpdateWindow
<1>. HIDE DEF u
<1>2. GoodView(updateState(u)) /\ updateState(u).state = u.state /\ updateState(u).rows = u.rows
  BY <1>1, UpdateState
<1>. QED
  BY <1>1, <1>2 DEF callStateChanged, u

LEMMA SetCurrent ==
  ASSUME NEW v, GoodView(v), NEW c \in ToSet(v.rows)
  PROVE  LET w == setCurrentIndex(v, c)
         IN  GoodView(w) /\ w.state = v.state /\ w.rows = v.rows
<1>. DEFINE u == [v EXCEPT !.current = c]
<1>1. v \in View /\ c \in Calls /\ c # None
  BY DEF GoodView, Loose, View, ToSet, Calls, None
<1>2. /\ u \in View /\ u.state = v.state /\ u.rows = v.rows /\ u.tracked = v.tracked
      /\ u.overlayCall = v.overlayCall /\ u.current = c
  BY <1>1 DEF View
<1>. HIDE DEF u
<1>3. Loose(u)
  BY <1>2 DEF GoodView, Loose, Begun
<1>4. GoodView(updateState(u)) /\ updateState(u).state = u.state /\ updateState(u).rows = u.rows
  BY <1>3, UpdateState
<1>. QED
  BY <1>2, <1>4 DEF setCurrentIndex, u

LEMMA RemoveCall ==
  ASSUME NEW v, Loose(v), NEW c \in Calls
  PROVE  LET w == removeCall(v, c) IN GoodView(w) /\ w.state = v.state
<1>. DEFINE r == RemoveFirst(v.rows, c)
            t == v.tracked \ {c}
            k == IF v.current = c THEN None ELSE v.current
            u == [v EXCEPT !.rows = r, !.tracked = t, !.current = k]
<1>1. v \in View /\ v.rows \in Seq(Calls) /\ t \in SUBSET Calls /\ k \in Calls \union {None}
  BY DEF Loose, View
<1>2. /\ r \in Seq(Calls) /\ ToSet(r) \subseteq ToSet(v.rows) /\ IsInjective(r)
      /\ \A x : x # c => (x \in ToSet(r) <=> x \in ToSet(v.rows))
  BY <1>1, RemoveEffect DEF Loose
<1>3. k # None => k \in ToSet(r)
  BY <1>2 DEF Loose
<1>. HIDE DEF r, k
<1>4. /\ u \in View /\ u.state = v.state /\ u.rows = r /\ u.tracked = t
      /\ u.overlayCall = v.overlayCall /\ u.current = k
  BY <1>1, <1>2 DEF View
<1>. HIDE DEF u
<1>5. Loose(u)
  BY <1>2, <1>3, <1>4 DEF Loose, Begun
<1>6. GoodView(updateState(u)) /\ updateState(u).state = u.state
  BY <1>5, UpdateState
<1>. QED
  BY <1>4, <1>6 DEF removeCall, u, r, k

(* A state is set: the selection and the menu agree with the rows again,   *)
(* the toolbar when the state follows the one that is left.                *)
LEMMA ChangeState ==
  ASSUME NEW v, Loose(v), NEW c \in Calls, NEW s \in CallState
  PROVE  LET w == changeCurrentState(v, c, s)
         IN  /\ w.state = [v.state EXCEPT ![c] = s]
             /\ Loose(w)
             /\ GoodView(v) /\ (c = v.current => Follows(v.state[c], s)) => GoodView(w)
<1>. DEFINE states == [v.state EXCEPT ![c] = s]
            u == [v EXCEPT !.state[c] = s]
            w == changeCurrentState(v, c, s)
<1>1. v \in View /\ v.state \in [Calls -> CallState \union {"NONE"}]
  BY DEF Loose, View
<1>2. /\ states \in [Calls -> CallState \union {"NONE"}]
      /\ \A d \in Calls : states[d] = IF d = c THEN s ELSE v.state[d]
  BY <1>1
<1>3. u = [v EXCEPT !.state = states]
  BY <1>1 DEF View
<1>. HIDE DEF states, u
<1>4. /\ u \in View /\ u.state = states /\ u.rows = v.rows /\ u.tracked = v.tracked
      /\ u.overlayCall = v.overlayCall /\ u.current = v.current /\ u.offered = v.offered
  BY <1>1, <1>2, <1>3 DEF View
<1>5. s # "NONE"
  BY DEF CallState, Initializing, InProgress, Finished
<1>6. Loose(u)
  BY <1>2, <1>4, <1>5 DEF Loose, Begun
<1>7. CASE s = "TRANSFERRED"
  <2>1. w = callStateChanged(u)
    BY <1>7 DEF changeCurrentState, u
  <2>2. GoodView(callStateChanged(u)) /\ callStateChanged(u).state = u.state
    BY <1>6, StateIsTold
  <2>. QED
    BY <1>4, <2>1, <2>2 DEF GoodView, states
<1>8. CASE s \in {"OVER", "ERROR"}
  <2>1. w = removeCall(u, c)
    BY <1>8 DEF changeCurrentState, u
  <2>2. GoodView(removeCall(u, c)) /\ removeCall(u, c).state = u.state
    BY <1>6, RemoveCall
  <2>. QED
    BY <1>4, <2>1, <2>2 DEF GoodView, states
<1>9. CASE s \notin {"TRANSFERRED", "OVER", "ERROR"}
  <2>1. w = u
    BY <1>9 DEF changeCurrentState, u
  <2>2. ASSUME GoodView(v), c = v.current => Follows(v.state[c], s)  PROVE Offers(u)
    <3>1. CASE v.current = None
      BY <1>4, <2>2, <3>1 DEF GoodView, Offers
    <3>2. CASE v.current # None /\ v.current # c
      <4>1. u.state[u.current] = v.state[v.current]
        BY <1>1, <1>2, <1>4, <3>2 DEF View
      <4>. QED
        BY <1>4, <2>2, <3>2, <4>1 DEF GoodView, Offers
    <3>3. CASE v.current # None /\ v.current = c
      <4>1. u.state[u.current] = s /\ v.offered \subseteq Applicable(v.state[c])
        BY <1>1, <1>2, <1>4, <1>9, <2>2, <3>3 DEF GoodView, Offers, Follows
      <4>. QED
        BY <1>4, <1>9, <2>2, <3>3, <4>1 DEF Follows, Offers
    <3>. QED
      BY <3>1, <3>2, <3>3
  <2>. QED
    BY <1>4, <1>6, <2>1, <2>2 DEF GoodView, states
<1>. QED
  BY <1>7, <1>8, <1>9

(* The fields the properties speak of are not those that change.           *)
LEMMA Numbers ==
  ASSUME NEW v, GoodView(v), NEW w, NEW t \in SUBSET Calls, NEW k \in SUBSET Calls,
         \/ w = [v EXCEPT !.typed = t, !.known = k]
         \/ w = [v EXCEPT !.typed = t]
         \/ w = [v EXCEPT !.known = k]
         \/ w = [v EXCEPT !.dialled = t]
  PROVE  GoodView(w) /\ w.state = v.state /\ w.rows = v.rows
<1>1. v \in View
  BY DEF GoodView, Loose
<1>2. /\ w \in View /\ w.state = v.state /\ w.rows = v.rows /\ w.tracked = v.tracked
      /\ w.overlayCall = v.overlayCall /\ w.current = v.current /\ w.offered = v.offered
  BY <1>1 DEF View
<1>3. GoodView(w)
  BY <1>2 DEF GoodView, Loose, Offers, Begun
<1>. QED
  BY <1>2, <1>3

(* Call::call, out of the state an action entered.                         *)
LEMMA PlaceCall ==
  ASSUME NEW v, GoodView(v), NEW c \in Calls, v.state[c] = "INITIALIZATION"
  PROVE  LET w == call(v, c)
         IN  /\ GoodView(w) /\ w.state[c] \in {"INITIALIZATION", "FAILURE"}
             /\ \A d \in Calls : d # c => w.state[d] = v.state[d]
<1>. DEFINE w == call(v, c)
<1>1. v \in View /\ v.state \in [Calls -> CallState \union {"NONE"}] /\ Loose(v)
  BY DEF GoodView, Loose, View
<1>2. CASE c \in v.typed
  <2>. DEFINE t == v.typed \ {c}
              k == v.known \union {c}
  <2>1. t \in SUBSET Calls /\ k \in SUBSET Calls
    BY <1>1 DEF View
  <2>2. w = [v EXCEPT !.typed = t, !.known = k]
    BY <1>2 DEF call
  <2>. HIDE DEF t, k, w
  <2>3. GoodView(w) /\ w.state = v.state
    BY <2>1, <2>2, Numbers, Zenon
  <2>. QED
    BY <2>3 DEF w
<1>3. CASE c \notin v.typed
  <2>. DEFINE u == changeCurrentState(v, c, "FAILURE")
  <2>1. w = u
    BY <1>3 DEF call
  <2>2. "FAILURE" \in CallState /\ Follows("INITIALIZATION", "FAILURE")
    BY DEF CallState, Initializing, InProgress, Finished, actionPerformedStateMap, OnAction,
           Follows, Applicable, LeadsTo, ActionOf, MenuActionOf, UserAction
  <2>3. GoodView(u) /\ u.state = [v.state EXCEPT ![c] = "FAILURE"]
    BY <1>1, <2>2, ChangeState
  <2>. QED
    BY <1>1, <2>1, <2>3
<1>. QED
  BY <1>2, <1>3

LEMMA Perform ==
  ASSUME NEW v, GoodView(v), NEW c \in Calls, Begun(v, c), NEW a \in Action, NEW ok \in BOOLEAN
  PROVE  LET w == performAction(v, c, a, ok)
         IN  /\ GoodView(w) /\ w.state[c] \in CallState
             /\ \A d \in Calls : d # c => w.state[d] = v.state[d]
             /\ ok => w.state[c] \in {actionPerformedStateMap[v.state[c]][a], "FAILURE"}
<1>. DEFINE s == v.state[c]
            t == actionPerformedStateMap[s][a]
            f == actionPerformedFunctionMap[s][a]
            u == changeCurrentState(v, c, t)
            w == performAction(v, c, a, ok)
<1>1. v \in View /\ v.state \in [Calls -> CallState \union {"NONE"}] /\ Loose(v)
  BY DEF GoodView, Loose, View
<1>2. s \in CallState
  BY <1>1 DEF Begun
<1>3. t \in CallState /\ Follows(s, t)
  BY <1>2, ActionFollows
<1>4. f = "call" => t = "INITIALIZATION"
  BY <1>2 DEF CallState, Initializing, InProgress, Finished, Action, actionPerformedStateMap,
              actionPerformedFunctionMap, OnAction
<1>5. w = IF f = "refuse" /\ ~ok THEN changeCurrentState(u, c, "ERROR")
          ELSE IF f \in {"hangUp", "cancel"} /\ ~ok THEN changeCurrentState(u, c, "OVER")
          ELSE IF f = "call" THEN call(u, c)
          ELSE u
  BY DEF performAction
<1>. HIDE DEF t, f
<1>6. GoodView(u) /\ u.state = [v.state EXCEPT ![c] = t]
  BY <1>1, <1>3, ChangeState
<1>. HIDE DEF u, w
<1>7. /\ u.state[c] = t /\ Loose(u)
      /\ u.state \in [Calls -> CallState \union {"NONE"}]
      /\ \A d \in Calls : d # c => u.state[d] = v.state[d]
  BY <1>1, <1>3, <1>6 DEF GoodView
<1>8. ASSUME NEW e \in {"OVER", "ERROR"}
      PROVE  /\ GoodView(changeCurrentState(u, c, e))
             /\ changeCurrentState(u, c, e).state = [u.state EXCEPT ![c] = e]
  <2>1. e \in CallState /\ Follows(u.state[c], e)
    BY DEF CallState, Finished, Follows
  <2>. QED
    BY <1>6, <1>7, <2>1, ChangeState
<1>9. CASE f = "refuse" /\ ~ok
  BY <1>5, <1>7, <1>8, <1>9 DEF CallState, Finished, w
<1>10. CASE f \in {"hangUp", "cancel"} /\ ~ok
  BY <1>5, <1>7, <1>8, <1>10 DEF CallState, Finished, w
<1>11. CASE f = "call"
  <2>1. /\ GoodView(call(u, c)) /\ call(u, c).state[c] \in {"INITIALIZATION", "FAILURE"}
        /\ \A d \in Calls : d # c => call(u, c).state[d] = u.state[d]
    BY <1>4, <1>6, <1>7, <1>11, PlaceCall
  <2>2. w = call(u, c)
    BY <1>5, <1>11
  <2>. QED
    BY <1>4, <1>7, <1>11, <2>1, <2>2 DEF CallState, Initializing, Finished, w, t
<1>12. CASE w = u
  BY <1>3, <1>6, <1>7, <1>12 DEF w, t
<1>. QED
  <2>1. w = u \/ (f = "refuse" /\ ~ok) \/ (f \in {"hangUp", "cancel"} /\ ~ok) \/ f = "call"
    BY <1>5
  <2>. QED
    BY <2>1, <1>9, <1>10, <1>11, <1>12 DEF w, t

LEMMA NewIsUnused ==
  ASSUME NEW v, Unused(v) # {}
  PROVE  New(v) \in Calls /\ v.state[New(v)] = "NONE"
<1>. DEFINE U == Unused(v)
<1>1. U \in SUBSET Nat /\ U # {} /\ U \subseteq Calls
  BY DEF Unused, Calls
<1>. HIDE DEF U
<1>2. \E m \in U : \A d \in U : m =< d
  BY <1>1, MinIsMember
<1>3. New(v) \in U
  BY <1>2 DEF New, U
<1>. QED
  BY <1>1, <1>3 DEF Unused, U

LEMMA AddCall ==
  ASSUME NEW v, Loose(v), NEW c \in Calls, v.state[c] = "NONE", NEW s \in CallState
  PROVE  LET w == addCall(v, c, s)
         IN  /\ GoodView(w) /\ w.state = [v.state EXCEPT ![c] = s]
             /\ c \in ToSet(w.rows) /\ w.state[c] = s
<1>. DEFINE states == [v.state EXCEPT ![c] = s]
            r == Append(v.rows, c)
            t == v.tracked \union {c}
            u == [v EXCEPT !.state[c] = s, !.rows = Append(v.rows, c),
                           !.tracked = v.tracked \union {c}]
<1>1. /\ v \in View /\ v.state \in [Calls -> CallState \union {"NONE"}]
      /\ v.rows \in Seq(Calls) /\ t \in SUBSET Calls
  BY DEF Loose, View
<1>2. /\ states \in [Calls -> CallState \union {"NONE"}]
      /\ \A d \in Calls : states[d] = IF d = c THEN s ELSE v.state[d]
  BY <1>1
<1>3. u = [v EXCEPT !.state = states, !.rows = r, !.tracked = t]
  BY <1>1 DEF View
<1>4. /\ r \in Seq(Calls) /\ ToSet(r) = ToSet(v.rows) \union {c} /\ IsInjective(r)
  <2>1. c \notin ToSet(v.rows)
    BY DEF Loose, Begun
  <2>. QED
    BY <1>1, <2>1, AppendEffect DEF Loose
<1>5. s # "NONE"
  BY DEF CallState, Initializing, InProgress, Finished
<1>. HIDE DEF states, r, u
<1>6. /\ u \in View /\ u.state = states /\ u.rows = r /\ u.tracked = t
      /\ u.overlayCall = v.overlayCall /\ u.current = v.current /\ u.offered = v.offered
  BY <1>1, <1>2, <1>3, <1>4 DEF View
<1>7. Loose(u)
  BY <1>2, <1>4, <1>5, <1>6 DEF Loose, Begun
<1>8. /\ GoodView(updateState(u)) /\ updateState(u).state = u.state
      /\ updateState(u).rows = u.rows
  BY <1>7, UpdateState
<1>. QED
  BY <1>2, <1>4, <1>6, <1>8 DEF addCall, u, states

(* A call may be opened; the others stay as they are.                      *)
Opened(v, w) == \A c \in Calls : w.state[c] = v.state[c] \/ w.state[c] = "DIALING"

LEMMA DialingIsListed ==
  ASSUME NEW v, GoodView(v), Dialing(v) # {}
  PROVE  /\ DialingOf(v) \in Calls /\ DialingOf(v) \in ToSet(v.rows)
         /\ v.state[DialingOf(v)] = "DIALING"
<1>1. DialingOf(v) \in Dialing(v)
  BY DEF DialingOf
<1>2. ToSet(v.rows) \subseteq Calls
  BY DEF GoodView, Loose, View, ToSet
<1>. QED
  BY <1>1, <1>2 DEF Dialing

LEMMA DialingCall ==
  ASSUME NEW v, GoodView(v), HasRoom(v)
  PROVE  LET w == dialingCall(v) IN GoodView(w) /\ Dialing(w) # {} /\ Opened(v, w)
<1>1. CASE Dialing(v) # {}
  BY <1>1 DEF dialingCall, Opened
<1>2. CASE Dialing(v) = {}
  <2>. DEFINE c == New(v)
              u == addCall(v, c, "DIALING")
              d == v.dialled \union {c}
              w == [u EXCEPT !.dialled = d]
  <2>1. c \in Calls /\ v.state[c] = "NONE"
    BY <1>2, NewIsUnused DEF HasRoom
  <2>2. "DIALING" \in CallState /\ Loose(v) /\ d \in SUBSET Calls
    BY <2>1 DEF CallState, Initializing, GoodView, Loose, View
  <2>3. dialingCall(v) = w
    BY <1>2 DEF dialingCall
  <2>. HIDE DEF c, d
  <2>4. /\ GoodView(u) /\ u.state = [v.state EXCEPT ![c] = "DIALING"]
        /\ c \in ToSet(u.rows) /\ u.state[c] = "DIALING"
    BY <2>1, <2>2, AddCall
  <2>. HIDE DEF u
  <2>5. GoodView(w) /\ w.state = u.state /\ w.rows = u.rows
    BY <2>2, <2>4, Numbers, Zenon
  <2>. HIDE DEF w
  <2>6. c \in Dialing(w)
    BY <2>4, <2>5 DEF Dialing
  <2>7. Opened(v, w)
    BY <2>2, <2>4, <2>5 DEF Opened, Loose, View
  <2>. QED
    BY <2>3, <2>5, <2>6, <2>7
<1>. QED
  BY <1>1, <1>2

LEMMA SelectDialing ==
  ASSUME NEW v, GoodView(v)
  PROVE  LET w == selectDialingCall(v)
         IN  GoodView(w) /\ w.state = v.state /\ w.rows = v.rows /\ Dialing(w) = Dialing(v)
<1>1. CASE Dialing(v) = {}
  BY <1>1 DEF selectDialingCall
<1>2. CASE Dialing(v) # {}
  <2>. DEFINE w == setCurrentIndex(v, DialingOf(v))
  <2>1. GoodView(w) /\ w.state = v.state /\ w.rows = v.rows
    BY <1>2, DialingIsListed, SetCurrent
  <2>2. selectDialingCall(v) = w
    BY <1>2 DEF selectDialingCall
  <2>. QED
    BY <2>1, <2>2 DEF Dialing
<1>. QED
  BY <1>1, <1>2

LEMMA OpenDialing ==
  ASSUME NEW v, GoodView(v), HasRoom(v)
  PROVE  LET w == openDialingCall(v) IN GoodView(w) /\ Opened(v, w)
<1>. DEFINE d == dialingCall(v)
            u == selectDialingCall(d)
            w == openDialingCall(v)
<1>1. GoodView(d) /\ Opened(v, d)
  BY DialingCall
<1>. HIDE DEF d
<1>2. GoodView(u) /\ u.state = d.state
  BY <1>1, SelectDialing
<1>. HIDE DEF u
<1>3. GoodView(updateWindowCallState(u)) /\ updateWindowCallState(u).state = u.state
  BY <1>2, UpdateWindow DEF GoodView
<1>. QED
  BY <1>1, <1>2, <1>3 DEF openDialingCall, Opened, d, u

LEMMA AppendText ==
  ASSUME NEW v, GoodView(v), NEW c \in Calls
  PROVE  GoodView(appendText(v, c)) /\ appendText(v, c).state = v.state
<1>1. CASE v.state[c] = "DIALING"
  <2>. DEFINE t == v.typed \union {c}
              w == appendText(v, c)
  <2>1. t \in SUBSET Calls
    BY DEF GoodView, Loose, View
  <2>2. w = [v EXCEPT !.typed = t]
    BY <1>1 DEF appendText
  <2>. HIDE DEF t, w
  <2>3. GoodView(w) /\ w.state = v.state
    BY <2>1, <2>2, Numbers, Zenon
  <2>. QED
    BY <2>3 DEF w
<1>2. CASE v.state[c] # "DIALING"
  BY <1>2 DEF appendText
<1>. QED
  BY <1>1, <1>2

LEMMA TypeString ==
  ASSUME NEW v, GoodView(v), HasRoom(v)
  PROVE  GoodView(typeString(v))
<1>. DEFINE inCall == v.current # None /\ v.state[v.current] = "CURRENT"
<1>1. CASE inCall
  BY <1>1 DEF typeString
<1>2. CASE ~inCall /\ Dialing(v) # {}
  <2>. DEFINE u == selectDialingCall(v)
  <2>1. GoodView(u) /\ DialingOf(v) \in Calls
    BY <1>2, SelectDialing, DialingIsListed
  <2>. HIDE DEF u
  <2>2. GoodView(appendText(u, DialingOf(v)))
    BY <2>1, AppendText
  <2>. QED
    BY <1>2, <2>2 DEF typeString, u
<1>3. CASE ~inCall /\ Dialing(v) = {}
  <2>. DEFINE d == dialingCall(v)
              w == selectDialingCall(d)
              u == updateWindowCallState(w)
  <2>1. GoodView(d) /\ Dialing(d) # {}
    BY DialingCall
  <2>. HIDE DEF d
  <2>2. GoodView(w) /\ Dialing(w) # {}
    BY <2>1, SelectDialing
  <2>. HIDE DEF w
  <2>3. DialingOf(w) \in Calls /\ GoodView(u)
    BY <2>2, DialingIsListed, UpdateWindow DEF GoodView
  <2>. HIDE DEF u
  <2>4. GoodView(appendText(u, DialingOf(w)))
    BY <2>3, AppendText
  <2>. QED
    BY <1>3, <2>4 DEF typeString, u, w, d
<1>. QED
  BY <1>1, <1>2, <1>3

LEMMA SelectedHasBegun ==
  ASSUME NEW v, GoodView(v), v.current # None
  PROVE  v.current \in Calls /\ Begun(v, v.current)
BY DEF GoodView, Loose, View

LEMMA HideOverlay ==
  ASSUME NEW v, GoodView(v)
  PROVE  GoodView(hideOverlay(v))
<1>. DEFINE c == v.overlayCall
            w == IF c # None /\ v.state[c] = "TRANSFERRED"
                   THEN performAction(v, c, "TRANSFER", TRUE) ELSE v
            u == [w EXCEPT !.overlay = FALSE, !.overlayCall = None]
<1>1. GoodView(w)
  <2>1. CASE c # None /\ v.state[c] = "TRANSFERRED"
    <3>1. c \in Calls /\ Begun(v, c) /\ "TRANSFER" \in Action /\ TRUE \in BOOLEAN
      BY <2>1 DEF GoodView, Loose, View, Begun, Action
    <3>2. GoodView(performAction(v, c, "TRANSFER", TRUE))
      BY <3>1, Perform
    <3>. QED
      BY <2>1, <3>2
  <2>2. CASE ~(c # None /\ v.state[c] = "TRANSFERRED")
    BY <2>2
  <2>. QED
    BY <2>1, <2>2
<1>2. hideOverlay(v) = u
  BY DEF hideOverlay
<1>. HIDE DEF w
<1>3. w \in View
  BY <1>1 DEF GoodView, Loose
<1>4. /\ u \in View /\ u.state = w.state /\ u.rows = w.rows /\ u.tracked = w.tracked
      /\ u.overlayCall = None /\ u.current = w.current /\ u.offered = w.offered
  BY <1>3 DEF View
<1>. HIDE DEF u
<1>5. \A d \in Calls : d # None
  BY DEF Calls, None
<1>6. GoodView(u)
  BY <1>1, <1>4, <1>5 DEF GoodView, Loose, Offers, Begun
<1>. QED
  BY <1>2, <1>6

LEMMA Transfer ==
  ASSUME NEW v, GoodView(v), NEW c \in Calls, Begun(v, c)
  PROVE  GoodView(transfer(v, c))
<1>. DEFINE entered  == performAction(v, c, "TRANSFER", TRUE)
            forced   == changeCurrentState(entered, c, "TRANSFERRED")
            accepted == performAction(forced, c, "ACCEPT", TRUE)
            w        == changeCurrentState(accepted, c, "OVER")
<1>1. /\ "TRANSFER" \in Action /\ "ACCEPT" \in Action /\ TRUE \in BOOLEAN
      /\ "TRANSFERRED" \in CallState /\ "OVER" \in CallState
      /\ \A s : Follows(s, "TRANSFERRED") /\ Follows(s, "OVER")
  BY DEF Action, CallState, InProgress, Finished, Follows
<1>2. GoodView(entered)
  BY <1>1, Perform
<1>. HIDE DEF entered
<1>3. GoodView(forced) /\ forced.state = [entered.state EXCEPT ![c] = "TRANSFERRED"]
  BY <1>1, <1>2, ChangeState DEF GoodView
<1>. HIDE DEF forced
<1>4. Begun(forced, c)
  BY <1>2, <1>3 DEF Begun, GoodView, Loose, View
<1>5. GoodView(accepted)
  BY <1>1, <1>3, <1>4, Perform
<1>. HIDE DEF accepted
<1>6. GoodView(w)
  BY <1>1, <1>5, ChangeState DEF GoodView
<1>. QED
  BY <1>6 DEF transfer, w, accepted, forced, entered

LEMMA Overlay ==
  ASSUME NEW v, GoodView(v), v.overlayCall # None
  PROVE  /\ GoodView(slotTransferClicked(v))
         /\ \A other \in Calls : GoodView(slotAttendedTransfer(v, other))
<1>. DEFINE c == v.overlayCall
<1>1. c \in Calls /\ Begun(v, c)
  BY DEF GoodView, Loose, View
<1>2. "OVER" \in CallState /\ \A s : Follows(s, "OVER")
  BY DEF CallState, Finished, Follows
<1>3. GoodView(slotTransferClicked(v))
  <2>. DEFINE w == transfer(v, c)
  <2>1. GoodView(w)
    BY <1>1, Transfer
  <2>. HIDE DEF w
  <2>2. GoodView(hideOverlay(w))
    BY <2>1, HideOverlay
  <2>. QED
    BY <2>2 DEF slotTransferClicked, w
<1>4. ASSUME NEW other \in Calls  PROVE GoodView(slotAttendedTransfer(v, other))
  <2>. DEFINE u == changeCurrentState(v, c, "OVER")
              w == changeCurrentState(u, other, "OVER")
  <2>1. GoodView(u)
    BY <1>1, <1>2, ChangeState DEF GoodView
  <2>. HIDE DEF u
  <2>2. GoodView(w)
    BY <1>2, <2>1, ChangeState DEF GoodView
  <2>. HIDE DEF w
  <2>3. GoodView(hideOverlay(w))
    BY <2>2, HideOverlay
  <2>. QED
    BY <2>3 DEF slotAttendedTransfer, w, u
<1>. QED
  BY <1>3, <1>4

(* The keys. *)
LEMMA Keys ==
  ASSUME NEW v, GoodView(v), NEW ok \in BOOLEAN, NEW more \in BOOLEAN
  PROVE  /\ GoodView(enter(v, ok)) /\ GoodView(backspace(v, more))
         /\ GoodView(escape(v, ok)) /\ GoodView(enterCompletion(v))
         /\ HasRoom(v) => \A key : GoodView(addDTMF(v, key, ok))
<1>. DEFINE c == v.current
<1>1. c # None => c \in Calls /\ Begun(v, c)
  BY SelectedHasBegun
<1>2. /\ {"ACCEPT", "HOLD", "TRANSFER", "REFUSE"} \subseteq Action
      /\ "OVER" \in CallState /\ \A s : Follows(s, "OVER")
  BY DEF Action, CallState, Finished, Follows
<1>3. c # None => \A a \in Action : GoodView(performAction(v, c, a, ok))
  BY <1>1, Perform
<1>4. GoodView(enter(v, ok))
  BY <1>2, <1>3 DEF enter
<1>5. GoodView(backspace(v, more))
  <2>1. c # None => GoodView(changeCurrentState(v, c, "OVER"))
    BY <1>1, <1>2, ChangeState DEF GoodView
  <2>. DEFINE t == v.typed \ {c}
              w == [v EXCEPT !.typed = t]
  <2>2. t \in SUBSET Calls
    BY DEF GoodView, Loose, View
  <2>. HIDE DEF t
  <2>3. GoodView(w)
    BY <2>2, Numbers, Zenon
  <2>4. backspace(v, more) \in {v, w, changeCurrentState(v, c, "OVER")}
        /\ (c = None => backspace(v, more) = v)
    BY DEF backspace, t
  <2>. QED
    BY <2>1, <2>3, <2>4
<1>6. GoodView(escape(v, ok))
  <2>1. GoodView(updateWindowCallState(hideOverlay(v)))
    <3>1. GoodView(hideOverlay(v))
      BY HideOverlay
    <3>. QED
      BY <3>1, UpdateWindow DEF GoodView
  <2>2. escapeAction(v.state[c]) \in Action
    BY <1>2 DEF escapeAction
  <2>. QED
    BY <1>3, <2>1, <2>2 DEF escape
<1>7. GoodView(enterCompletion(v))
  <2>1. CASE c # None /\ v.state[c] = "DIALING"
    <3>. DEFINE t == v.typed \union {c}
                w == [v EXCEPT !.typed = t]
    <3>1. t \in SUBSET Calls
      BY <1>1, <2>1 DEF GoodView, Loose, View
    <3>2. enterCompletion(v) = performAction(w, c, "ACCEPT", TRUE)
      BY <2>1 DEF enterCompletion
    <3>. HIDE DEF t
    <3>3. GoodView(w) /\ w.state = v.state
      BY <3>1, Numbers, Zenon
    <3>. HIDE DEF w
    <3>4. c \in Calls /\ Begun(w, c) /\ "ACCEPT" \in Action /\ TRUE \in BOOLEAN
      BY <1>1, <1>2, <2>1, <3>3 DEF Begun
    <3>5. GoodView(performAction(w, c, "ACCEPT", TRUE))
      BY <3>3, <3>4, Perform
    <3>. QED
      BY <3>2, <3>5
  <2>2. CASE ~(c # None /\ v.state[c] = "DIALING")
    BY <2>2 DEF enterCompletion
  <2>. QED
    BY <2>1, <2>2
<1>8. HasRoom(v) => \A key : GoodView(addDTMF(v, key, ok))
  BY <1>4, TypeString DEF addDTMF
<1>. QED
  BY <1>4, <1>5, <1>6, <1>7, <1>8

LEMMA MailBoxDials ==
  ASSUME NEW v, GoodView(v), HasRoom(v)
  PROVE  GoodView(mailBox(v))
<1>. DEFINE w == dialingCall(v)
            c == DialingOf(w)
            t == w.typed \union {c}
            u == [w EXCEPT !.typed = t]
<1>1. GoodView(w) /\ Dialing(w) # {}
  BY DialingCall
<1>2. mailBox(v) = performAction(u, c, "ACCEPT", TRUE)
  BY DEF mailBox
<1>. HIDE DEF w
<1>3. c \in Calls /\ w.state[c] = "DIALING"
  BY <1>1, DialingIsListed
<1>4. t \in SUBSET Calls
  BY <1>1, <1>3 DEF GoodView, Loose, View
<1>. HIDE DEF c, t
<1>5. GoodView(u) /\ u.state = w.state
  BY <1>1, <1>4, Numbers, Zenon
<1>. HIDE DEF u
<1>6. Begun(u, c) /\ "ACCEPT" \in Action /\ TRUE \in BOOLEAN
  BY <1>3, <1>5 DEF Begun, Action
<1>7. GoodView(performAction(u, c, "ACCEPT", TRUE))
  BY <1>3, <1>5, <1>6, Perform
<1>. QED
  BY <1>2, <1>7

LEMMA Accept ==
  ASSUME NEW v, GoodView(v), HasRoom(v), NEW ok \in BOOLEAN
  PROVE  GoodView(accept(v, ok))
<1>1. GoodView(openDialingCall(v))
  BY OpenDialing
<1>2. v.current # None => GoodView(performAction(v, v.current, "ACCEPT", ok))
  <2>1. "ACCEPT" \in Action
    BY DEF Action
  <2>. QED
    BY <2>1, SelectedHasBegun, Perform
<1>. QED
  BY <1>1, <1>2 DEF accept

LEMMA Triggered ==
  ASSUME NEW v, GoodView(v), HasRoom(v), NEW ok \in BOOLEAN, NEW a \in MenuAction
  PROVE  GoodView(triggered(v, a, ok))
<1>1. GoodView(accept(v, ok)) /\ GoodView(mailBox(v))
  BY Accept, MailBoxDials
<1>2. ASSUME NEW b \in Action  PROVE GoodView(OnSelected(v, b, ok))
  <2>1. v.current # None => GoodView(performAction(v, v.current, b, ok))
    BY SelectedHasBegun, Perform
  <2>. QED
    BY <2>1 DEF OnSelected
<1>3. a \in {"Accept", "Mailbox"} \/
        [Refuse |-> "REFUSE", Hold |-> "HOLD", Transfer |-> "TRANSFER",
         Record |-> "RECORD"][a] \in Action
  BY DEF MenuAction, Action
<1>. QED
  BY <1>1, <1>2, <1>3 DEF triggered

-----------------------------------------------------------------------------
(* The view after every action. *)

LEMMA GoodStart ==
  ASSUME Init
  PROVE  GoodView(view)
<1>1. /\ view.state = [c \in Calls |-> "NONE"] /\ view.rows = <<>> /\ view.tracked = {}
      /\ view.known = {} /\ view.typed = {} /\ view.dialled = {} /\ view.current = None
      /\ view.offered = {} /\ view.visible = {"Accept", "Mailbox"} /\ view.overlay = FALSE
      /\ view.overlayCall = None
  BY DEF Init
<1>2. view \in View
  <2>1. view = [state |-> [c \in Calls |-> "NONE"], rows |-> <<>>, tracked |-> {}, known |-> {},
                typed |-> {}, dialled |-> {}, current |-> None, offered |-> {},
                visible |-> {"Accept", "Mailbox"}, overlay |-> FALSE, overlayCall |-> None]
    BY DEF Init
  <2>2. /\ [c \in Calls |-> "NONE"] \in [Calls -> CallState \union {"NONE"}]
        /\ <<>> \in Seq(Calls) /\ {"Accept", "Mailbox"} \in SUBSET MenuAction
    BY DEF MenuAction
  <2>. QED
    BY <2>1, <2>2 DEF View
<1>3. ToSet(view.rows) = {} /\ IsInjective(view.rows)
  BY <1>1 DEF ToSet, IsInjective
<1>4. \A c \in Calls : c # None
  BY DEF Calls, None
<1>. QED
  BY <1>1, <1>2, <1>3, <1>4 DEF GoodView, Loose, Offers

LEMMA ViewStep ==
  ASSUME GoodView(view), Next
  PROVE  GoodView(view')
<1>1. CASE TypeKey
  BY <1>1, TypeString DEF TypeKey
<1>2. CASE Enter
  BY <1>2, Keys DEF Enter
<1>3. CASE Complete
  BY <1>3, Keys DEF Complete
<1>4. CASE Erase
  BY <1>4, Keys DEF Erase
<1>5. CASE Escape
  BY <1>5, Keys DEF Escape
<1>6. CASE MacroExecute
  <2>1. PICK ok \in BOOLEAN : view' = addDTMF(view, Typed(sequence), ok)
    BY <1>6 DEF MacroExecute
  <2>2. GoodView(addDTMF(view, Typed(sequence), ok))
    BY <1>6, Keys DEF MacroExecute
  <2>. QED
    BY <2>1, <2>2
<1>7. CASE MacroTimeout
  <2>1. PICK ok \in BOOLEAN : view' = addDTMF(view, Typed(escaped), ok)
    BY <1>7 DEF MacroTimeout
  <2>2. GoodView(addDTMF(view, Typed(escaped), ok))
    BY <1>7, Keys DEF MacroTimeout
  <2>. QED
    BY <2>1, <2>2
<1>8. CASE MacroEdit
  BY <1>8 DEF MacroEdit
<1>9. ASSUME NEW a \in MenuAction, NEW ok \in BOOLEAN, Menu(a, ok)  PROVE GoodView(view')
  BY <1>9, Triggered DEF Menu
<1>10. ASSUME NEW u \in UserAction, NEW ok \in BOOLEAN, Button(u, ok)  PROVE GoodView(view')
  <2>1. MenuActionOf(u) \in MenuAction
    BY DEF MenuActionOf, MenuAction
  <2>. QED
    BY <1>10, <2>1, Triggered DEF Button
<1>11. CASE DropNumber
  BY <1>11, MailBoxDials DEF DropNumber
<1>12. CASE OverlayTransfer
  BY <1>12, Overlay DEF OverlayTransfer
<1>13. ASSUME NEW c \in Calls, OverlayAttended(c)  PROVE GoodView(view')
  BY <1>13, Overlay DEF OverlayAttended
<1>14. ASSUME NEW c \in Calls, Select(c)  PROVE GoodView(view')
  BY <1>14, SetCurrent DEF Select
<1>15. CASE Refresh
  BY <1>15, StateIsTold DEF Refresh, GoodView
<1>16. ASSUME NEW c \in Calls, NEW d \in DaemonState, StateChanged(c, d)  PROVE GoodView(view')
  <2>. DEFINE old  == view.state[c]
              s    == stateChangedStateMap[old][d]
              t    == view.typed \ {c}
              u    == [view EXCEPT !.typed = t]
              w    == changeCurrentState(u, c, s)
              over == d = "HUNG_UP" \/ (old \notin Finished /\ s = "OVER")
              x    == IF over THEN removeCall(w, c) ELSE w
  <2>1. old \in CallState
    BY <1>16 DEF StateChanged, GoodView, Loose, View, Begun
  <2>2. s \in CallState
    BY <2>1 DEF CallState, Initializing, InProgress, Finished, DaemonState, stateChangedStateMap, OnEvent
  <2>3. t \in SUBSET Calls
    BY DEF GoodView, Loose, View
  <2>4. view' = callStateChanged(x)
    BY <1>16 DEF StateChanged
  <2>. HIDE DEF s, t
  <2>5. GoodView(u)
    BY <2>3, Numbers, Zenon
  <2>. HIDE DEF u
  <2>6. Loose(w)
    BY <2>2, <2>5, ChangeState DEF GoodView
  <2>. HIDE DEF w, over
  <2>7. Loose(x)
    BY <2>6, RemoveCall DEF GoodView
  <2>. HIDE DEF x
  <2>8. GoodView(callStateChanged(x))
    BY <2>7, StateIsTold
  <2>. QED
    BY <2>4, <2>8
<1>17. CASE RingingCall
  <2>. DEFINE c == New(view)
              w == addCall(view, c, "RINGING")
              k == w.known \union {c}
              u == [w EXCEPT !.known = k]
  <2>1. c \in Calls /\ view.state[c] = "NONE"
    BY <1>17, NewIsUnused DEF RingingCall
  <2>2. view' = callStateChanged(u)
    BY <1>17 DEF RingingCall
  <2>. HIDE DEF c
  <2>3. GoodView(w)
    <3>1. "RINGING" \in CallState /\ Loose(view)
      BY DEF CallState, Initializing, GoodView
    <3>. QED
      BY <2>1, <3>1, AddCall
  <2>. HIDE DEF w
  <2>4. k \in SUBSET Calls
    BY <2>1, <2>3 DEF GoodView, Loose, View
  <2>. HIDE DEF k
  <2>5. GoodView(u)
    BY <2>3, <2>4, Numbers, Zenon
  <2>. HIDE DEF u
  <2>6. GoodView(callStateChanged(u))
    BY <2>5, StateIsTold DEF GoodView
  <2>. QED
    BY <2>2, <2>6
<1>18. CASE IncomingCall
  <2>. DEFINE c == New(view)
              a == addCall(view, c, "INCOMING")
              w == updateWindowCallState(a)
              k == w.known \union {c}
              u == [w EXCEPT !.known = k]
  <2>1. c \in Calls /\ view.state[c] = "NONE"
    BY <1>18, NewIsUnused DEF IncomingCall
  <2>2. view' = setCurrentIndex(u, c)
    BY <1>18 DEF IncomingCall
  <2>. HIDE DEF c
  <2>3. GoodView(a) /\ c \in ToSet(a.rows)
    <3>1. "INCOMING" \in CallState /\ Loose(view)
      BY DEF CallState, Initializing, GoodView
    <3>. QED
      BY <2>1, <3>1, AddCall
  <2>. HIDE DEF a
  <2>4. GoodView(w) /\ w.rows = a.rows
    BY <2>3, UpdateWindow DEF GoodView
  <2>. HIDE DEF w
  <2>5. k \in SUBSET Calls
    BY <2>1, <2>4 DEF GoodView, Loose, View
  <2>. HIDE DEF k
  <2>6. GoodView(u) /\ u.rows = w.rows
    BY <2>4, <2>5, Numbers, Zenon
  <2>. HIDE DEF u
  <2>7. GoodView(setCurrentIndex(u, c))
    BY <2>3, <2>4, <2>6, SetCurrent
  <2>. QED
    BY <2>2, <2>7
<1>. QED
  BY <1>1, <1>2, <1>3, <1>4, <1>5, <1>6, <1>7, <1>8, <1>9, <1>10, <1>11, <1>12, <1>13, <1>14,
     <1>15, <1>16, <1>17, <1>18 DEF Next

(* Two executions may overlap: what keeps the position right is that it is *)
(* zero whenever no timer is left.                                         *)
MacroInv == position \in Nat /\ timers \in 0..MaxTimers /\ MacroStartsOver

LEMMA MacroStep ==
  ASSUME MacroInv, [Next]_vars
  PROVE  MacroInv'
<1>. USE DEF MacroInv, MacroStartsOver
<1>1. MaxTimers \in Nat /\ timers \in Nat /\ timers =< MaxTimers
  BY MaxTimersAssumption
<1>2. CASE execute
  BY <1>1, <1>2 DEF execute, nextStep
<1>3. CASE Timeout
  BY <1>1, <1>3 DEF Timeout, nextStep
<1>4. CASE UNCHANGED <<position, timers>>
  BY <1>4
<1>5. execute \/ Timeout \/ UNCHANGED <<position, timers>>
  BY DEF Next, vars, macroVars, TypeKey, Enter, Complete, Erase, Escape, MacroExecute, MacroTimeout,
         MacroEdit, setSequence, Menu, Button, DropNumber, OverlayTransfer, OverlayAttended, Select,
         Refresh, StateChanged, RingingCall, IncomingCall, KeepsMacro
<1>. QED
  BY <1>2, <1>3, <1>4, <1>5

ViewInv == GoodView(view) /\ MacroInv

LEMMA ViewInvariance == Spec => []ViewInv
<1>1. Init => ViewInv
  <2>. SUFFICES ASSUME Init  PROVE ViewInv
    OBVIOUS
  <2>1. position = 0 /\ timers = 0 /\ 0 \in 0..MaxTimers
    BY MaxTimersAssumption DEF Init, MacroInit
  <2>. QED
    BY <2>1, GoodStart DEF ViewInv, MacroInv, MacroStartsOver
<1>2. ViewInv /\ [Next]_vars => ViewInv'
  <2>. SUFFICES ASSUME ViewInv, [Next]_vars  PROVE ViewInv'
    OBVIOUS
  <2>1. GoodView(view')
    <3>1. CASE Next
      BY <3>1, ViewStep DEF ViewInv
    <3>2. CASE UNCHANGED vars
      BY <3>2 DEF ViewInv, vars
    <3>. QED
      BY <3>1, <3>2
  <2>2. MacroInv'
    BY MacroStep DEF ViewInv
  <2>. QED
    BY <2>1, <2>2 DEF ViewInv
<1>. QED
  BY <1>1, <1>2, PTL DEF Spec

(* What a button leads the selected call into.                             *)
LEMMA ButtonLeads ==
  ASSUME GoodView(view), NEW u \in UserAction, Button(u, TRUE), NEW c \in Calls,
         view.state[c] # "ERROR"
  PROVE  view'.state[c] # "ERROR"
<1>. DEFINE k == view.current
            s == view.state[k]
            a == ActionOf(u)
            m == MenuActionOf(u)
<1>1. /\ u \in view.offered /\ u # "MUTE" /\ HasRoom(view)
      /\ view' = triggered(view, m, TRUE)
  BY DEF Button
<1>2. k # None
  BY <1>1 DEF GoodView, Offers
<1>3. k \in Calls /\ Begun(view, k)
  BY <1>2, SelectedHasBegun
<1>4. s \in CallState
  BY <1>3 DEF GoodView, Loose, View, Begun
<1>5. /\ m \in {"Accept", "Refuse", "Hold", "Transfer", "Record"} /\ a \in Action
      /\ m = "Accept" => a = "ACCEPT"
      /\ m # "Accept" => a = [Refuse |-> "REFUSE", Hold |-> "HOLD", Transfer |-> "TRANSFER",
                              Record |-> "RECORD"][m]
  BY DEF MenuActionOf, ActionOf, Action
<1>6. s # "ERROR" => LeadsTo(s, u) # "ERROR"
  BY <1>1, <1>2 DEF GoodView, Offers, Applicable
<1>7. CASE view' = performAction(view, k, a, TRUE) /\ LeadsTo(s, u) = actionPerformedStateMap[s][a]
  <2>. DEFINE w == performAction(view, k, a, TRUE)
  <2>1. /\ w.state[k] \in {actionPerformedStateMap[s][a], "FAILURE"}
        /\ \A d \in Calls : d # k => w.state[d] = view.state[d]
    BY <1>3, <1>5, Perform
  <2>2. c = k => actionPerformedStateMap[s][a] # "ERROR"
    BY <1>6, <1>7
  <2>. HIDE DEF w
  <2>. QED
    BY <1>7, <2>1, <2>2 DEF w
<1>8. CASE view' = openDialingCall(view)
  <2>1. Opened(view, view')
    BY <1>1, <1>8, OpenDialing
  <2>. QED
    BY <2>1 DEF Opened
<1>9. view' = openDialingCall(view)
        \/ (view' = performAction(view, k, a, TRUE) /\ LeadsTo(s, u) = actionPerformedStateMap[s][a])
  <2>1. CASE m = "Accept"
    BY <1>1, <1>2, <1>5, <2>1 DEF triggered, accept, LeadsTo
  <2>2. CASE m # "Accept"
    BY <1>1, <1>2, <1>5, <2>2 DEF triggered, OnSelected, LeadsTo
  <2>. QED
    BY <2>1, <2>2
<1>. QED
  BY <1>7, <1>8, <1>9

-----------------------------------------------------------------------------
(* The table of presence states. *)

Table == [flags : Seq(BOOLEAN), custom : BOOLEAN, default : Int, current : Int]

OneDefault(flags) == \A i, j \in DOMAIN flags : flags[i] /\ flags[j] => i = j

(* The default is a row, freed or none, and bears the only mark.           *)
Marked(t) ==
  /\ t \in Table /\ t.default \in {Freed, NoStatus} \union DOMAIN t.flags
  /\ \A row \in DOMAIN t.flags : t.flags[row] <=> row = t.default

PresenceInv == Marked(table) /\ stored \in Seq(BOOLEAN) /\ OneDefault(stored)

LEMMA LoadMarks ==
  ASSUME NEW list \in Seq(BOOLEAN), OneDefault(list)
  PROVE  Marked(load(list)) /\ load(list).current = load(list).default
<1>. DEFINE flags == IF list = <<>> THEN DefaultList ELSE list
            I == {i \in 1..Len(flags) : flags[i]}
            first == SelectInSeq(flags, LAMBDA f : f)
            last  == SelectLastInSeq(flags, LAMBDA f : f)
            t == load(list)
<1>1. flags \in Seq(BOOLEAN) /\ \A i, j \in 1..Len(flags) : flags[i] /\ flags[j] => i = j
  <2>1. CASE list = <<>>
    <3>. DEFINE d == <<TRUE, FALSE, FALSE, FALSE>>
    <3>1. d \in Seq(BOOLEAN) /\ Len(d) = 4 /\ ~d[2] /\ ~d[3] /\ ~d[4]
      OBVIOUS
    <3>2. flags = d
      BY <2>1 DEF DefaultList
    <3>. HIDE DEF d, flags
    <3>3. \A i \in 1..4 : i = 1 \/ i = 2 \/ i = 3 \/ i = 4
      OBVIOUS
    <3>. QED
      BY <3>1, <3>2, <3>3
  <2>2. CASE list # <<>>
    <3>1. DOMAIN list = 1..Len(list)
      OBVIOUS
    <3>. QED
      BY <2>2, <3>1 DEF OneDefault
  <2>. QED
    BY <2>1, <2>2
<1>2. t = [flags |-> flags, custom |-> FALSE, default |-> last, current |-> first]
  BY DEF load
<1>. HIDE DEF flags
<1>3. Len(flags) \in Nat /\ DOMAIN flags = 1..Len(flags) /\ I \in SUBSET (1..Len(flags))
      /\ I \in SUBSET Nat
  BY <1>1
<1>4. CASE I = {}
  <2>1. first = 0 /\ last = 0
    BY <1>4 DEF SelectInSeq, SelectLastInSeq
  <2>2. \A i \in 1..Len(flags) : ~flags[i] /\ i # 0
    BY <1>4
  <2>. HIDE DEF first, last, t
  <2>. QED
    BY <1>1, <1>2, <1>3, <2>1, <2>2 DEF Marked, Table, NoStatus, t
<1>5. CASE I # {}
  <2>1. first = Min(I) /\ last = Max(I)
    BY <1>5 DEF SelectInSeq, SelectLastInSeq
  <2>. HIDE DEF I
  <2>2. Min(I) \in I /\ Max(I) \in I
    BY <1>3, <1>5, MinIsMember, MaxIsMember
  <2>. USE DEF I
  <2>3. /\ Min(I) = Max(I) /\ Max(I) \in 1..Len(flags)
        /\ \A i \in 1..Len(flags) : flags[i] <=> i = Max(I)
    BY <1>1, <2>2
  <2>. HIDE DEF I, first, last, t
  <2>. QED
    BY <1>1, <1>2, <1>3, <2>1, <2>3 DEF Marked, Table, t
<1>. QED
  BY <1>4, <1>5

LEMMA AddRowMarks ==
  ASSUME NEW t, Marked(t)
  PROVE  Marked(addRow(t))
<1>. DEFINE flags == Append(t.flags, FALSE)
            n == Len(t.flags)
            w == addRow(t)
<1>1. t \in Table /\ t.flags \in Seq(BOOLEAN) /\ t.default \in Int
  BY DEF Marked, Table
<1>2. /\ flags \in Seq(BOOLEAN) /\ n \in Nat /\ DOMAIN t.flags = 1..n
      /\ DOMAIN flags = 1..(n + 1) /\ flags[n + 1] = FALSE
      /\ \A i \in 1..n : flags[i] = t.flags[i]
  <2>1. ASSUME NEW e \in BOOLEAN
        PROVE  /\ Append(t.flags, e) \in Seq(BOOLEAN) /\ n \in Nat /\ DOMAIN t.flags = 1..n
               /\ DOMAIN Append(t.flags, e) = 1..(n + 1) /\ Append(t.flags, e)[n + 1] = e
               /\ \A i \in 1..n : Append(t.flags, e)[i] = t.flags[i]
    BY <1>1, AppendElements
  <2>2. FALSE \in BOOLEAN
    OBVIOUS
  <2>. QED
    BY <2>1, <2>2, Zenon
<1>3. w = [t EXCEPT !.flags = flags]
  BY <1>1 DEF addRow, Table
<1>. HIDE DEF flags, w
<1>4. w \in Table /\ w.flags = flags /\ w.default = t.default
  BY <1>1, <1>2, <1>3 DEF Table
<1>5. \A i \in 1..(n + 1) : i \in 1..n \/ i = n + 1
  BY <1>2
<1>6. t.default # n + 1
  BY <1>2 DEF Marked, Freed, NoStatus
<1>. QED
  BY <1>2, <1>4, <1>5, <1>6 DEF Marked, w

LEMMA RemoveRowMarks ==
  ASSUME NEW t, Marked(t), NEW row \in DOMAIN t.flags
  PROVE  Marked(removeRow(t, row))
<1>. DEFINE flags == RemoveAt(t.flags, row)
            d == AfterRemoval(t.default, row)
            c == AfterRemoval(t.current, row)
            from(k) == IF k < row THEN k ELSE k + 1
            n == Len(t.flags)
            w == removeRow(t, row)
<1>1. /\ t \in Table /\ t.flags \in Seq(BOOLEAN) /\ t.default \in Int /\ t.current \in Int
      /\ n \in Nat /\ DOMAIN t.flags = 1..n
  BY DEF Marked, Table
<1>2. /\ flags \in Seq(BOOLEAN) /\ DOMAIN flags = 1..(n - 1)
      /\ \A k \in 1..(n - 1) : flags[k] = t.flags[from(k)]
  <2>. DEFINE s == t.flags
  <2>1. s \in Seq(BOOLEAN) /\ row \in 1..Len(s)
    BY <1>1
  <2>. HIDE DEF s
  <2>2. LET r == RemoveAt(s, row)
        IN  /\ r \in Seq(BOOLEAN) /\ DOMAIN r = 1..(Len(s) - 1)
            /\ \A k \in 1..(Len(s) - 1) : r[k] = s[IF k < row THEN k ELSE k + 1]
    BY <2>1, RemoveAtElements
  <2>. QED
    BY <2>2 DEF s
<1>3. d \in Int /\ c \in Int
  BY <1>1 DEF AfterRemoval, Freed
<1>4. w = [t EXCEPT !.flags = flags, !.default = d, !.current = c]
  BY <1>1 DEF removeRow, Table
<1>5. d \in {Freed, NoStatus} \union 1..(n - 1) /\ \A k \in 1..(n - 1) : k = d <=> from(k) = t.default
  BY <1>1 DEF Marked, AfterRemoval, Freed, NoStatus
<1>6. \A k \in 1..(n - 1) : from(k) \in 1..n
  BY <1>1
<1>. HIDE DEF flags, d, c, w, from
<1>7. w \in Table /\ w.flags = flags /\ w.default = d
  BY <1>1, <1>2, <1>3, <1>4 DEF Table
<1>. QED
  BY <1>1, <1>2, <1>5, <1>6, <1>7 DEF Marked, w

LEMMA SwapMarks ==
  ASSUME NEW t, Marked(t), NEW i \in DOMAIN t.flags, NEW j \in DOMAIN t.flags
  PROVE  Marked(Swapped(t, i, j))
<1>. DEFINE flags == [t.flags EXCEPT ![i] = t.flags[j], ![j] = t.flags[i]]
            d == AfterSwap(t.default, i, j)
            c == AfterSwap(t.current, i, j)
            n == Len(t.flags)
            w == Swapped(t, i, j)
<1>1. /\ t \in Table /\ t.flags \in Seq(BOOLEAN) /\ t.default \in Int /\ t.current \in Int
      /\ n \in Nat /\ DOMAIN t.flags = 1..n
  BY DEF Marked, Table
<1>2. /\ flags \in Seq(BOOLEAN) /\ DOMAIN flags = 1..n
      /\ flags[i] = t.flags[j] /\ flags[j] = t.flags[i]
      /\ \A k \in 1..n : k # i /\ k # j => flags[k] = t.flags[k]
  BY <1>1
<1>3. d \in Int /\ c \in Int
  BY <1>1 DEF AfterSwap
<1>4. w = [t EXCEPT !.flags = flags, !.default = d, !.current = c]
  BY <1>1 DEF Swapped, Table
<1>5. d \in {Freed, NoStatus} \union 1..n /\ \A k \in 1..n : flags[k] <=> k = d
  BY <1>1, <1>2 DEF Marked, AfterSwap
<1>. HIDE DEF flags, d, c, w
<1>6. w \in Table /\ w.flags = flags /\ w.default = d
  BY <1>1, <1>2, <1>3, <1>4 DEF Table
<1>. QED
  BY <1>2, <1>5, <1>6 DEF Marked, w

LEMMA SetDefaultMarks ==
  ASSUME NEW t, Marked(t), NEW row \in DOMAIN t.flags
  PROVE  Marked(setDefaultStatus(t, row))
<1>. DEFINE n == Len(t.flags)
            flags == [i \in 1..n |-> IF i = row THEN TRUE ELSE t.flags[i] /\ i # t.default]
            w == setDefaultStatus(t, row)
<1>1. /\ t \in Table /\ t.flags \in Seq(BOOLEAN) /\ t.default \in Int
      /\ n \in Nat /\ DOMAIN t.flags = 1..n
  BY DEF Marked, Table
<1>2. flags \in Seq(BOOLEAN) /\ DOMAIN flags = 1..n /\ row \in Int
  <2>1. \A i \in 1..n : (IF i = row THEN TRUE ELSE t.flags[i] /\ i # t.default) \in BOOLEAN
    OBVIOUS
  <2>2. flags \in [1..n -> BOOLEAN]
    BY <2>1, Zenon
  <2>3. \A f \in [1..n -> BOOLEAN] : f \in Seq(BOOLEAN) /\ DOMAIN f = 1..n
    BY <1>1
  <2>. HIDE DEF flags
  <2>. QED
    BY <1>1, <2>2, <2>3
<1>3. w = [t EXCEPT !.flags = flags, !.default = row]
  BY <1>1 DEF setDefaultStatus, Rows
<1>4. \A k \in 1..n : flags[k] <=> k = row
  BY <1>1 DEF Marked
<1>. HIDE DEF flags, w
<1>5. w \in Table /\ w.flags = flags /\ w.default = row
  BY <1>1, <1>2, <1>3 DEF Table
<1>. QED
  BY <1>1, <1>2, <1>4, <1>5 DEF Marked, w

LEMMA PresenceStart ==
  ASSUME PresenceInit
  PROVE  PresenceInv
<1>1. stored \in Seq(BOOLEAN) /\ OneDefault(stored)
  BY StoredAssumption DEF PresenceInit, OneDefault
<1>. QED
  BY <1>1, LoadMarks DEF PresenceInit, PresenceInv

LEMMA PresenceStep ==
  ASSUME PresenceInv, PresenceNext
  PROVE  PresenceInv' /\ (RestartPresence => table'.current = table'.default)
<1>1. Marked(table) /\ DOMAIN table.flags = 1..Len(table.flags) /\ Len(table.flags) \in Nat
  BY DEF PresenceInv, Marked, Table
<1>2. stored' = stored \/ stored' = table.flags
  BY DEF PresenceNext, OpenPresence, AddStatus, slotRemoveRow, slotMoveUp, slotMoveDown, EditStatus,
         SavePresence, setUseCustomStatus, RestartPresence, SelectStatus, CheckDefault, PickStatus,
         Breaks, Fine
<1>3. stored' \in Seq(BOOLEAN) /\ OneDefault(stored)'
  <2>1. OneDefault(table.flags) /\ table.flags \in Seq(BOOLEAN)
    BY <1>1 DEF OneDefault, Marked, Table
  <2>. QED
    BY <1>2, <2>1 DEF PresenceInv, OneDefault
<1>4. RestartPresence => Marked(table') /\ table'.current = table'.default
  BY LoadMarks DEF RestartPresence, PresenceInv
<1>. SUFFICES Marked(table')
  BY <1>3, <1>4 DEF PresenceInv
<1>5. CASE table' = table
  BY <1>1, <1>5
<1>6. CASE AddStatus
  BY <1>1, <1>6, AddRowMarks DEF AddStatus
<1>7. CASE slotRemoveRow
  BY <1>1, <1>5, <1>7, RemoveRowMarks DEF slotRemoveRow, Rows, Breaks
<1>8. CASE slotMoveUp
  <2>1. CASE page.selected \in Rows(table)
    <3>1. page.selected \in 1..Len(table.flags) /\ page.selected - 1 \in 1..Len(table.flags)
      BY <1>1, <1>8, <2>1 DEF slotMoveUp, Rows
    <3>. QED
      BY <1>1, <1>8, <2>1, <3>1, SwapMarks DEF slotMoveUp
  <2>2. CASE page.selected \notin Rows(table)
    BY <1>5, <1>8, <2>2 DEF slotMoveUp, Breaks
  <2>. QED
    BY <2>1, <2>2
<1>9. CASE slotMoveDown
  <2>1. CASE page.selected \in 1..Len(table.flags) - 1
    <3>1. page.selected \in 1..Len(table.flags) /\ page.selected + 1 \in 1..Len(table.flags)
      BY <1>1, <2>1
    <3>. QED
      BY <1>1, <1>9, <2>1, <3>1, SwapMarks DEF slotMoveDown
  <2>2. CASE page.selected \notin 1..Len(table.flags) - 1
    BY <1>5, <1>9, <2>2 DEF slotMoveDown, Breaks
  <2>. QED
    BY <2>1, <2>2
<1>10. ASSUME NEW row, CheckDefault(row)  PROVE Marked(table')
  BY <1>1, <1>5, <1>10, SetDefaultMarks DEF CheckDefault, Rows, Breaks
<1>11. ASSUME \/ \E custom \in BOOLEAN : table' = [table EXCEPT !.custom = custom]
              \/ \E row \in DOMAIN table.flags : table' = [table EXCEPT !.current = row]
       PROVE  Marked(table')
  <2>1. table \in Table /\ DOMAIN table.flags \subseteq Int
    BY <1>1 DEF Marked
  <2>2. table' \in Table /\ table'.flags = table.flags /\ table'.default = table.default
    BY <1>11, <2>1 DEF Table
  <2>. QED
    BY <1>1, <2>2 DEF Marked
<1>12. CASE setUseCustomStatus
  <2>1. table.custom \in BOOLEAN
    BY <1>1 DEF Marked, Table
  <2>2. table' = table \/ table' = [table EXCEPT !.custom = ~table.custom]
    BY <1>12 DEF setUseCustomStatus, Breaks
  <2>3. (~table.custom) \in BOOLEAN
    BY <2>1, Zenon
  <2>. QED
    BY <1>5, <1>11, <2>2, <2>3, Zenon
<1>13. ASSUME NEW row, PickStatus(row)  PROVE Marked(table')
  BY <1>11, <1>13 DEF PickStatus, Rows
<1>14. CASE OpenPresence \/ EditStatus \/ SavePresence \/ \E row : SelectStatus(row)
  BY <1>5, <1>14 DEF OpenPresence, EditStatus, SavePresence, SelectStatus, Fine
<1>. QED
  BY <1>4, <1>6, <1>7, <1>8, <1>9, <1>10, <1>12, <1>13, <1>14 DEF PresenceNext

-----------------------------------------------------------------------------
(* The window. *)

LEMMA Parts ==
  WindowSpec => Spec /\ AccountSpec /\ PresenceInit /\ [][PresenceNext]_presenceVars
<1>1. WindowInit => Init /\ AccountInit /\ PresenceInit
  BY DEF WindowInit
<1>2. [WindowNext]_windowVars =>
        [Next]_vars /\ [AccountNext]_accountVars /\ [PresenceNext]_presenceVars
  BY DEF WindowNext, windowVars
<1>. QED
  BY <1>1, <1>2, PTL DEF WindowSpec, Spec, AccountSpec

(* The fields of the call view keep their types: the rows name calls, each *)
(* once, the toolbar and the menu offer what they have (View; addCall,     *)
(* removeCall, updateState, updateWindowCallState).                        *)
THEOREM ViewTypeCorrect == WindowSpec => []TypeOK
<1>1. ViewInv => TypeOK
  <2>. SUFFICES ASSUME ViewInv  PROVE TypeOK
    OBVIOUS
  <2>1. /\ view \in View /\ IsInjective(view.rows) /\ MacroInv
        /\ ToSet(view.rows) \subseteq Calls
    BY DEF ViewInv, GoodView, Loose, View, ToSet
  <2>. QED
    BY <2>1 DEF TypeOK, View, MacroInv
<1>. QED
  BY <1>1, Parts, ViewInvariance, PTL

(* While there are calls, one of them is selected, for any number of calls *)
(* and whatever removed the one that was: keys and menu act on a row       *)
(* (removeCall, updateState).                                              *)
THEOREM SelectionCorrect == WindowSpec => []SelectionInRows
<1>1. ViewInv => SelectionInRows
  <2>. SUFFICES ASSUME ViewInv  PROVE SelectionInRows
    OBVIOUS
  <2>1. view.rows = <<>> => ToSet(view.rows) = {}
    BY DEF ToSet
  <2>. QED
    BY <2>1 DEF ViewInv, GoodView, Loose, SelectionInRows
<1>. QED
  BY <1>1, Parts, ViewInvariance, PTL

(* What the toolbar offers does not lead the selected call into ERROR,     *)
(* although the toolbar is not told of most changes of its state           *)
(* (CallViewToolbar::updateState, Call::performAction).                    *)
THEOREM ButtonsCorrect == WindowSpec => ButtonsApply
<1>. DEFINE A == \A u \in UserAction, c \in Calls :
                   Button(u, TRUE) /\ view.state[c] # "ERROR" => view'.state[c] # "ERROR"
<1>1. ViewInv /\ [Next]_vars => [A]_vars
  BY ButtonLeads DEF ViewInv
<1>2. Spec => [][A]_vars
  BY <1>1, ViewInvariance, PTL DEF Spec
<1>. QED
  BY <1>2, Parts, PTL DEF ButtonsApply

(* An execution of the macro begins with its first character whenever none *)
(* is under way, although executions overlap and share the position        *)
(* (Macro::execute, nextStep).                                             *)
THEOREM MacroCorrect == WindowSpec => []MacroStartsOver
<1>1. ViewInv => MacroStartsOver
  BY DEF ViewInv, MacroInv
<1>. QED
  BY <1>1, Parts, ViewInvariance, PTL

(* The mark is on the default status, however the rows were moved, removed *)
(* and added, and a restart uses the status that was the default, for a    *)
(* table of any length (setDefaultStatus, addStatus, load).                *)
THEOREM DefaultCorrect == WindowSpec => DefaultAgrees
<1>. DEFINE A == /\ ~dangling' => \A row \in Rows(table') : table'.flags[row] <=> row = table'.default
                 /\ RestartPresence => table'.current = table'.default
<1>1. PresenceInv /\ [PresenceNext]_presenceVars => PresenceInv'
  BY PresenceStep DEF presenceVars, PresenceInv, Marked, OneDefault
<1>2. PresenceInv /\ [PresenceNext]_presenceVars => [A]_presenceVars
  BY PresenceStep DEF PresenceInv, Marked, Rows
<1>3. PresenceInit => PresenceInv
  BY PresenceStart
<1>4. PresenceInit /\ [][PresenceNext]_presenceVars => [][A]_presenceVars
  BY <1>1, <1>2, <1>3, PTL
<1>. QED
  BY <1>4, Parts, PTL DEF DefaultAgrees

(* In the window, too, the box shows the current account, and Enter calls  *)
(* by a registered one (currentPriorAccountChanged, EventManager::enter).  *)
THEOREM WindowAccounts == WindowSpec => AccountShown /\ CallsGoOut
  BY Parts, ShownCorrect, CallsCorrect, PTL
=============================================================================
