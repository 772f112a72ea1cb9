---------------------------- MODULE ContactsProofs ----------------------------
(***************************************************************************)
(* Proofs about the contacts: the tree of the dock, the placeholders, the  *)
(* switches of the address books and the rows of the bookmarks, for any    *)
(* books, any contacts and any order of fetches, notifications and changes.*)
(***************************************************************************)
EXTENDS Bookmarks, ListLemmas

Categories == {Unloaded} \union UNION {{CategoryOf[r][p] : p \in Payloads} : r \in Roles}
Nodes == [contact : Nat, row : Nat]
Branches == [name : Categories, row : Nat, nodes : Seq(Nodes)]
PhoneNumbers == Seq([uri : Uris, contact : Nat])
Hashes == [uri : Uris, uid : Uids \union {None}]
Stored == UNION {[S -> Hashes] : S \in SUBSET Nat}

ContactRecord ==
  [uid : Seq(Uids), part : Seq(Nat), parents : Seq(Seq(Nat)),
   payload : Seq(Payloads \union {None}), active : Seq(BOOLEAN),
   owner : Seq(Backends \union {None}), contacts : Seq(Nat), byUid : [Uids -> Nat],
   placeholders : [Uids -> Nat], numbers : PhoneNumbers, tree : Seq(Branches)]

(* What holds of m, whichever step made it: the fields go together.        *)
Sized(c) ==
  /\ c \in ContactRecord
  /\ Len(c.uid) = Len(c.part) /\ Len(c.parents) = Len(c.part)
  /\ Len(c.payload) = Len(c.part) /\ Len(c.active) = Len(c.part)
  /\ Len(c.owner) = Len(c.part)
  /\ \A n \in DOMAIN c.numbers : c.numbers[n].contact \in 0..Len(c.part)

(* A contact of a book keeps its own part, and each part knows its         *)
(* objects.                                                                *)
PartsOk(c) ==
  /\ \A o \in Objects(c) : /\ c.part[o] \in Objects(c)
                           /\ c.owner[o] # None => c.part[o] = o
  /\ \A p \in Objects(c) : /\ IsInjective(c.parents[p])
                           /\ ToSet(c.parents[p]) = {o \in Objects(c) : c.part[o] = p}

Belongs(c) == {o \in Objects(c) : c.owner[o] # None}

(* The contacts of books are listed, and found by their uid.               *)
ListedOk(c) ==
  /\ IsInjective(c.contacts) /\ ToSet(c.contacts) = Belongs(c)
  /\ \A u \in Uids : c.byUid[u] # 0 => c.byUid[u] \in Belongs(c) /\ c.uid[c.byUid[u]] = u
  /\ \A o \in Belongs(c) : c.byUid[c.uid[o]] # 0

(* A placeholder waits for its contact, or shares the part of one of its   *)
(* uid.                                                                    *)
HeldOk(c) ==
  /\ \A u \in Uids : c.placeholders[u] # 0 =>
       /\ c.placeholders[u] \in Objects(c) \ Belongs(c)
       /\ c.uid[c.placeholders[u]] = u /\ c.byUid[u] = 0
  /\ \A o \in Objects(c) \ Belongs(c) :
       \/ c.placeholders[c.uid[o]] = o
       \/ c.part[o] \in Belongs(c) /\ c.uid[c.part[o]] = c.uid[o]

(* The tree shows the contacts of S, each at one place.                    *)
Rowed(tree) ==
  \A i \in DOMAIN tree :
    /\ tree[i].row = i /\ tree[i].nodes # <<>>
    /\ \A j \in DOMAIN tree[i].nodes : tree[i].nodes[j].row = j
At(tree, o, i, j) == i \in DOMAIN tree /\ j \in DOMAIN tree[i].nodes /\ tree[i].nodes[j].contact = o
TreeOk(tree, S) ==
  /\ tree \in Seq(Branches) /\ Rowed(tree)
  /\ \A i, k \in DOMAIN tree : tree[i].name = tree[k].name => i = k
  /\ \A i \in DOMAIN tree : \A j \in DOMAIN tree[i].nodes : tree[i].nodes[j].contact \in S
  /\ \A o \in S : \E i, j \in Nat : At(tree, o, i, j)
  /\ \A o \in S, i, j, k, l \in Nat : At(tree, o, i, j) /\ At(tree, o, k, l) => i = k /\ j = l

Sound(c) ==
  Sized(c) /\ PartsOk(c) /\ ListedOk(c) /\ HeldOk(c) /\ TreeOk(c.tree, Belongs(c))

(* What is gone excepted, the contacts of the books that are on are active; *)
(* and contacts are only those of books that were on once.                 *)
Live(c, on, g) == \A o \in Belongs(c) : on[c.owner[o]] /\ o \notin g => c.active[o]
Loaded(c, on, was) == \A o \in Belongs(c) : on[c.owner[o]] \/ was[c.owner[o]]

Held == [Uids -> Payloads \union {None}]
Letters == [kind : {"added", "changed"}, uid : Uids, payload : Payloads]
           \union [kind : {"removed"}, uid : Uids, payload : {None}]

(* The books, Akonadi's and the program's.                                 *)
BooksOk ==
  /\ items \in [Backends -> Held] /\ sent \in [Backends -> Held]
  /\ fetch \in [Backends -> {"idle", "asked", "sent"}]
  /\ mail \in [Backends -> Seq(Letters)]
  /\ known \in Seq(Backends) /\ IsInjective(known)
  /\ enabled \in [Backends -> BOOLEAN] /\ wasEnabled \in [Backends -> BOOLEAN]
  /\ \A b \in Backends :
       /\ ~(enabled[b] /\ wasEnabled[b])
       /\ fetch[b] # "idle" \/ mail[b] # <<>> => Monitored(b)
       /\ Monitored(b) => b \in Range(known)

(* The page: check marks differ from what is stored only where the page    *)
(* has rows.                                                               *)
PageOk ==
  /\ stored \subseteq Backends /\ unchecked \subseteq Backends
  /\ rows \in Nat \union {-1} /\ rows <= Len(known)
  /\ \A b \in Backends : (b \in stored <=> b \in unchecked) \/ \E i \in 1..rows : known[i] = b
  /\ BackendsAsStored

(* The contacts, with what has been deleted and is being deleted.          *)
ContentOk ==
  /\ Sound(m) /\ removing \in Belongs(m) \union {0}
  /\ Live(m, enabled, gone) /\ Loaded(m, enabled, wasEnabled)

ContactsOk == ContentOk /\ BooksOk /\ PageOk /\ role \in Roles

ContactsInv == ContactsOk /\ saved \in Seq(Hashes) /\ nuid \in Stored

-----------------------------------------------------------------------------
(* Lists and records.                                                      *)

(* A record of contacts, taken apart and put together.                     *)
Fields == {"uid", "part", "parents", "payload", "active", "owner", "contacts", "byUid",
           "placeholders", "numbers", "tree"}
IsRec(c) == c = [f \in Fields |-> c[f]]

LEMMA FieldsOf ==
  ASSUME NEW c \in ContactRecord
  PROVE  /\ c.uid \in Seq(Uids) /\ c.part \in Seq(Nat) /\ c.parents \in Seq(Seq(Nat))
         /\ c.payload \in Seq(Payloads \union {None}) /\ c.active \in Seq(BOOLEAN)
         /\ c.owner \in Seq(Backends \union {None}) /\ c.contacts \in Seq(Nat)
         /\ c.byUid \in [Uids -> Nat] /\ c.placeholders \in [Uids -> Nat]
         /\ c.numbers \in PhoneNumbers /\ c.tree \in Seq(Branches)
         /\ IsRec(c)
BY DEF ContactRecord, IsRec, Fields

LEMMA RecordOf ==
  ASSUME NEW c, IsRec(c), c.uid \in Seq(Uids), c.part \in Seq(Nat), c.parents \in Seq(Seq(Nat)),
         c.payload \in Seq(Payloads \union {None}), c.active \in Seq(BOOLEAN),
         c.owner \in Seq(Backends \union {None}), c.contacts \in Seq(Nat),
         c.byUid \in [Uids -> Nat], c.placeholders \in [Uids -> Nat],
         c.numbers \in PhoneNumbers, c.tree \in Seq(Branches)
  PROVE  c \in ContactRecord
BY DEF ContactRecord, IsRec, Fields

(* The fields of d that a change of payloads, switches and numbers keeps.  *)
Same(c, d) ==
  /\ d.uid = c.uid /\ d.part = c.part /\ d.parents = c.parents /\ d.owner = c.owner
  /\ d.contacts = c.contacts /\ d.byUid = c.byUid /\ d.placeholders = c.placeholders
  /\ d.tree = c.tree

Alike(c, d) == Sized(d) /\ Same(c, d)

(* Such a change keeps the tree, the placeholders and the lists.           *)
LEMMA AlikeIsSound ==
  ASSUME NEW c, NEW d, Alike(c, d)
  PROVE  /\ Objects(d) = Objects(c) /\ Belongs(d) = Belongs(c)
         /\ PartsOk(c) => PartsOk(d)
         /\ Sound(c) => Sound(d)
<1>1. Sized(d) /\ Same(c, d)
  BY DEF Alike
<1>2. Objects(d) = Objects(c) /\ Belongs(d) = Belongs(c)
  BY <1>1 DEF Same, Objects, Belongs
<1>3. PartsOk(c) => PartsOk(d)
  BY <1>1, <1>2 DEF Same, PartsOk
<1>4. Sound(c) => ListedOk(d) /\ HeldOk(d) /\ TreeOk(d.tree, Belongs(d))
  BY <1>1, <1>2 DEF Same, Sound, ListedOk, HeldOk
<1>. QED
  BY <1>1, <1>2, <1>3, <1>4 DEF Sound

-----------------------------------------------------------------------------
(* Numbers.                                                                *)

(* getNumber() only changes the numbers.                                   *)
LEMMA NumberEffect ==
  ASSUME NEW c, Sized(c), NEW u \in Uris, NEW o \in 0..Len(c.part)
  PROVE  /\ Alike(c, getNumber(c, u, o)[1]) /\ getNumber(c, u, o)[2] \in Nat
         /\ getNumber(c, u, o)[1].active = c.active
<1>. DEFINE n == FirstNumber(c, u, o)
            P == [uri : Uris, contact : Nat]
            x == [uri |-> u, contact |-> o]
            w1 == [c EXCEPT !.numbers = Append(@, x)]
            w2 == [c EXCEPT !.numbers[n].contact = o]
<1>1. /\ c \in ContactRecord /\ c.numbers \in Seq(P) /\ Len(c.part) \in Nat /\ Len(c.numbers) \in Nat
      /\ DOMAIN c.numbers = 1..Len(c.numbers) /\ x \in P /\ x.contact = o
      /\ \A k \in DOMAIN c.numbers : c.numbers[k] \in P /\ c.numbers[k].contact \in 0..Len(c.part)
  <2>1. c \in ContactRecord /\ c.numbers \in Seq(P) /\ c.part \in Seq(Nat)
    BY FieldsOf DEF Sized, PhoneNumbers
  <2>2. \A k \in DOMAIN c.numbers : c.numbers[k] \in P
    BY <2>1, SeqAt
  <2>. QED
    BY <2>1, <2>2 DEF Sized
<1>2. n \in Nat
  <2>. DEFINE own == IF o = 0 \/ u \in Complete THEN 0 ELSE NumberOfUid(c, u, c.uid[o])
              J == {i \in 1..Len(c.numbers) : c.numbers[i].uri = u /\ OfUid(c, c.numbers[i], c.uid[o])}
              I == {i \in 1..Len(c.numbers) :
                      /\ c.numbers[i].uri = u
                      /\ o = 0 \/ c.numbers[i].contact = 0 \/ OfUid(c, c.numbers[i], c.uid[o])}
  <2>1. NumberOfUid(c, u, c.uid[o]) = IF J = {} THEN 0 ELSE Min(J)
    BY DEF NumberOfUid, SelectInSeq
  <2>2. n = IF own # 0 THEN own ELSE IF I = {} THEN 0 ELSE Min(I)
    BY DEF FirstNumber, SelectInSeq
  <2>3. I \in SUBSET Nat /\ J \in SUBSET Nat
    BY <1>1
  <2>. HIDE DEF I, J, n
  <2>. QED
    BY <2>1, <2>2, <2>3, MinIsMember
<1>. HIDE DEF n, x
<1>. HIDE DEF P
<1>0. IsRec(c)
  BY <1>1, FieldsOf
<1>3. Alike(c, w1) /\ w1.active = c.active
  <2>1. /\ w1.numbers = Append(c.numbers, x) /\ Same(c, w1) /\ w1.payload = c.payload
        /\ w1.active = c.active
        /\ IsRec(w1)
    BY <1>0 DEF IsRec, Fields, Same
  <2>. HIDE DEF w1
  <2>2. w1.numbers \in Seq(P) /\ \A k \in DOMAIN w1.numbers : w1.numbers[k].contact \in 0..Len(c.part)
    <3>1. /\ Append(c.numbers, x) \in Seq(P) /\ DOMAIN Append(c.numbers, x) = 1..(Len(c.numbers) + 1)
          /\ Append(c.numbers, x)[Len(c.numbers) + 1] = x
          /\ \A i \in 1..Len(c.numbers) : Append(c.numbers, x)[i] = c.numbers[i]
      BY <1>1, AppendElements
    <3>2. \A i \in 1..(Len(c.numbers) + 1) : i \in 1..Len(c.numbers) \/ i = Len(c.numbers) + 1
      BY <1>1
    <3>. QED
      BY <2>1, <3>1, <3>2, <1>1
  <2>3. w1 \in ContactRecord
    <3>1. w1.numbers \in PhoneNumbers
      BY <2>2 DEF PhoneNumbers, P
    <3>. QED
      BY <1>1, <2>1, <3>1, FieldsOf, RecordOf DEF Same
  <2>. QED
    BY <2>1, <2>2, <2>3 DEF Alike, Sized, Same
<1>4. Alike(c, w2) /\ w2.active = c.active
  <2>1. /\ w2.numbers = [c.numbers EXCEPT ![n].contact = o] /\ Same(c, w2) /\ w2.payload = c.payload
        /\ w2.active = c.active
        /\ IsRec(w2)
    BY <1>0 DEF IsRec, Fields, Same
  <2>. HIDE DEF w2
  <2>2. w2.numbers \in Seq(P) /\ \A k \in DOMAIN w2.numbers : w2.numbers[k].contact \in 0..Len(c.part)
    <3>1. /\ DOMAIN w2.numbers = 1..Len(c.numbers)
          /\ \A k \in 1..Len(c.numbers) :
               /\ w2.numbers[k] \in P
               /\ w2.numbers[k].contact = IF k = n THEN o ELSE c.numbers[k].contact
      BY <1>1, <2>1 DEF P
    <3>2. w2.numbers = [k \in 1..Len(c.numbers) |-> w2.numbers[k]]
      BY <1>1, <2>1
    <3>3. w2.numbers \in [1..Len(c.numbers) -> P]
      BY <3>1, <3>2
    <3>. QED
      BY <3>1, <3>3, <1>1
  <2>3. w2 \in ContactRecord
    <3>1. w2.numbers \in PhoneNumbers
      BY <2>2 DEF PhoneNumbers, P
    <3>. QED
      BY <1>1, <2>1, <3>1, FieldsOf, RecordOf DEF Same
  <2>. QED
    BY <2>1, <2>2, <2>3 DEF Alike, Sized, Same
<1>5. Alike(c, c)
  BY DEF Alike, Same
<1>6. \/ getNumber(c, u, o) = <<w1, Len(c.numbers) + 1>>
      \/ getNumber(c, u, o) = <<w2, n>>
      \/ getNumber(c, u, o) = <<c, n>>
  BY DEF getNumber, n, x
<1>. HIDE DEF w1, w2
<1>. QED
  BY <1>1, <1>2, <1>3, <1>4, <1>5, <1>6

(* A contact that is filled again changes its payload and its number.      *)
LEMMA FillEffect ==
  ASSUME NEW c, Sized(c), PartsOk(c), NEW o \in Objects(c), NEW p \in Payloads
  PROVE  Alike(c, fillContact(c, o, p)) /\ fillContact(c, o, p).active = c.active
<1>. DEFINE d == [c EXCEPT !.payload[c.part[o]] = p]
<1>1. /\ c \in ContactRecord /\ Len(c.part) \in Nat /\ DOMAIN c.part = 1..Len(c.part)
      /\ c.payload \in Seq(Payloads \union {None}) /\ DOMAIN c.payload = 1..Len(c.part)
      /\ c.uid \in Seq(Uids) /\ DOMAIN c.uid = 1..Len(c.part)
  BY FieldsOf DEF Sized
<1>0. IsRec(c)
  BY <1>1, FieldsOf
<1>2. /\ d.payload = [c.payload EXCEPT ![c.part[o]] = p] /\ Same(c, d) /\ d.active = c.active
      /\ d.numbers = c.numbers
      /\ IsRec(d)
  BY <1>0 DEF IsRec, Fields, Same
<1>. HIDE DEF d
<1>3. d.payload \in Seq(Payloads \union {None}) /\ Len(d.payload) = Len(c.part)
  <2>1. p \in Payloads \union {None} /\ Len(c.payload) = Len(c.part)
    BY DEF Sized
  <2>. DEFINE i == c.part[o]
              T == Payloads \union {None}
              n == Len(c.part)
  <2>2. n \in Nat /\ c.payload \in Seq(T) /\ p \in T /\ Len(c.payload) = n
        /\ d.payload = [c.payload EXCEPT ![i] = p]
    BY <1>1, <1>2, <2>1
  <2>. HIDE DEF i, T, n
  <2>3. d.payload \in Seq(T) /\ Len(d.payload) = n
    BY <2>2, ChangedAt
  <2>. QED
    BY <2>3 DEF T, n
<1>4. d \in ContactRecord
  BY <1>1, <1>2, <1>3, FieldsOf, RecordOf DEF Same
<1>5. Alike(c, d)
  BY <1>2, <1>3, <1>4 DEF Alike, Sized, Same
<1>6. o \in 0..Len(d.part) /\ Sized(d) /\ (UriOf[p] # None => UriOf[p] \in Uris)
  BY <1>1, <1>2, <1>5, ContactsAssumption DEF Objects, Same, Alike
<1>7. UriOf[p] # None =>
        Alike(d, getNumber(d, UriOf[p], o)[1]) /\ getNumber(d, UriOf[p], o)[1].active = d.active
  BY <1>6, NumberEffect
<1>8. fillContact(c, o, p) = IF UriOf[p] = None THEN d ELSE getNumber(d, UriOf[p], o)[1]
  BY DEF fillContact, d
<1>. QED
  BY <1>2, <1>5, <1>7, <1>8 DEF Alike, Same

-----------------------------------------------------------------------------
(* Numbers and their contacts.                                             *)

(* The first of the numbers s that is u.                                   *)
IsFirst(s, n, u) == n \in DOMAIN s /\ s[n].uri = u /\ \A k \in DOMAIN s : k < n => s[k].uri # u

(* Two numbers of one URI have contacts, of different uids.                *)
Separate(c) ==
  \A n, k \in DOMAIN c.numbers : n # k /\ c.numbers[n].uri = c.numbers[k].uri =>
    c.numbers[n].contact # 0 /\ ~OfUid(c, c.numbers[k], c.uid[c.numbers[n].contact])

(* d has the numbers of c, whose contacts keep their uids, and maybe more. *)
Grown(c, d) ==
  /\ Len(c.numbers) <= Len(d.numbers)
  /\ \A n \in DOMAIN c.numbers :
       /\ d.numbers[n].uri = c.numbers[n].uri
       /\ c.numbers[n].contact # 0 => OfUid(d, d.numbers[n], c.uid[c.numbers[n].contact])

(* d is c after number n was met as u, of contact o.                       *)
Met(c, d, n, u, o) ==
  /\ d.numbers \in PhoneNumbers /\ Grown(c, d) /\ Separate(d)
  /\ n \in DOMAIN d.numbers /\ d.numbers[n].uri = u
  /\ IF o = 0 THEN IsFirst(d.numbers, n, u) ELSE OfUid(d, d.numbers[n], c.uid[o])
  /\ \A k \in DOMAIN d.numbers : \/ d.numbers[k].contact = o
                                 \/ k \in DOMAIN c.numbers /\ d.numbers[k] = c.numbers[k]

LEMMA SizesOf ==
  ASSUME NEW a \in PhoneNumbers
  PROVE  /\ Len(a) \in Nat /\ DOMAIN a = 1..Len(a)
         /\ \A k \in DOMAIN a : /\ a[k] \in [uri : Uris, contact : Nat]
                                /\ a[k].uri \in Uris /\ a[k].contact \in Nat
<1>. DEFINE P == [uri : Uris, contact : Nat]
<1>1. a \in Seq(P)
  BY DEF PhoneNumbers
<1>2. \A k \in DOMAIN a : a[k] \in P
  BY <1>1, SeqAt
<1>3. Len(a) \in Nat /\ DOMAIN a = 1..Len(a)
  BY <1>1
<1>. QED
  BY <1>2, <1>3

(* Growing goes on, and keeps who is the first.                            *)
LEMMA GrownTwice ==
  ASSUME NEW c, c.numbers \in PhoneNumbers, NEW d, d.numbers \in PhoneNumbers,
         NEW e, e.numbers \in PhoneNumbers, Grown(c, d), Grown(d, e)
  PROVE  Grown(c, e)
  BY SizesOf DEF Grown, OfUid

LEMMA FirstStays ==
  ASSUME NEW c, c.numbers \in PhoneNumbers, NEW d, d.numbers \in PhoneNumbers, Grown(c, d),
         NEW n \in DOMAIN c.numbers, NEW u
  PROVE  IsFirst(d.numbers, n, u) <=> IsFirst(c.numbers, n, u)
  BY SizesOf DEF Grown, IsFirst

(* Where there is a number there is a first.                               *)
LEMMA FirstExists ==
  ASSUME NEW s \in PhoneNumbers, NEW n \in DOMAIN s
  PROVE  \E f \in DOMAIN s : IsFirst(s, f, s[n].uri)
<1>. DEFINE I == {k \in DOMAIN s : s[k].uri = s[n].uri}
<1>1. DOMAIN s = 1..Len(s) /\ Len(s) \in Nat
  BY SizesOf
<1>2. I \in SUBSET Nat /\ I # {} /\ \A k \in DOMAIN s : k \in I <=> s[k].uri = s[n].uri
  BY <1>1
<1>3. I \subseteq DOMAIN s
  OBVIOUS
<1>. HIDE DEF I
<1>4. Min(I) \in I /\ \A k \in I : Min(I) <= k
  BY <1>2, MinIsMember
<1>5. \A k \in DOMAIN s : k < Min(I) => k \notin I
  BY <1>1, <1>3, <1>4
<1>6. IsFirst(s, Min(I), s[n].uri)
  BY <1>2, <1>3, <1>4, <1>5 DEF IsFirst
<1>. QED
  BY <1>3, <1>4, <1>6

(* The two searches of getNumber().                                        *)
LEMMA OwnNumberIs ==
  ASSUME NEW c, c.numbers \in PhoneNumbers, NEW u, NEW v
  PROVE  NumberOfUid(c, u, v) # 0 =>
           /\ NumberOfUid(c, u, v) \in DOMAIN c.numbers
           /\ c.numbers[NumberOfUid(c, u, v)].uri = u
           /\ OfUid(c, c.numbers[NumberOfUid(c, u, v)], v)
<1>. DEFINE I == {i \in 1..Len(c.numbers) : c.numbers[i].uri = u /\ OfUid(c, c.numbers[i], v)}
            n == NumberOfUid(c, u, v)
<1>1. n = IF I = {} THEN 0 ELSE Min(I)
  BY DEF NumberOfUid, SelectInSeq
<1>2. DOMAIN c.numbers = 1..Len(c.numbers) /\ Len(c.numbers) \in Nat
  BY SizesOf
<1>3. /\ I \in SUBSET Nat /\ I \subseteq DOMAIN c.numbers
      /\ \A k \in I : c.numbers[k].uri = u /\ OfUid(c, c.numbers[k], v)
  BY <1>2
<1>. HIDE DEF I, n
<1>4. n # 0 => n \in I
  BY <1>1, <1>3, MinIsMember
<1>. QED
  BY <1>3, <1>4 DEF n

LEMMA FirstNumberIs ==
  ASSUME NEW c, c.numbers \in PhoneNumbers, NEW u, NEW o,
         NEW fits, \A k \in DOMAIN c.numbers :
                     fits[k] <=> /\ c.numbers[k].uri = u
                                 /\ o = 0 \/ c.numbers[k].contact = 0
                                      \/ OfUid(c, c.numbers[k], c.uid[o])
  PROVE  /\ FirstNumber(c, u, o) = 0 => \A k \in DOMAIN c.numbers : ~fits[k]
         /\ FirstNumber(c, u, o) # 0 =>
              /\ FirstNumber(c, u, o) \in DOMAIN c.numbers /\ fits[FirstNumber(c, u, o)]
              /\ o = 0 => \A k \in DOMAIN c.numbers : k < FirstNumber(c, u, o) => ~fits[k]
<1>. DEFINE I == {i \in 1..Len(c.numbers) :
                    /\ c.numbers[i].uri = u
                    /\ o = 0 \/ c.numbers[i].contact = 0 \/ OfUid(c, c.numbers[i], c.uid[o])}
            own == IF o = 0 \/ u \in Complete THEN 0 ELSE NumberOfUid(c, u, c.uid[o])
            n == FirstNumber(c, u, o)
<1>1. n = IF own # 0 THEN own ELSE IF I = {} THEN 0 ELSE Min(I)
  BY DEF FirstNumber, SelectInSeq
<1>2. own # 0 => own \in DOMAIN c.numbers /\ fits[own] /\ o # 0
  BY OwnNumberIs
<1>3. Len(c.numbers) \in Nat /\ DOMAIN c.numbers = 1..Len(c.numbers)
  BY SizesOf
<1>4. I \in SUBSET Nat /\ 0 \notin I /\ \A k \in DOMAIN c.numbers : k \in I <=> fits[k]
  BY <1>3
<1>5. I \subseteq DOMAIN c.numbers
  BY <1>3
<1>. HIDE DEF I, n, own
<1>6. I # {} => Min(I) \in I /\ \A k \in I : Min(I) <= k
  BY <1>4, MinIsMember
<1>7. CASE own # 0
  BY <1>1, <1>2, <1>7 DEF n
<1>8. CASE own = 0 /\ I = {}
  BY <1>1, <1>4, <1>8 DEF n
<1>9. CASE own = 0 /\ I # {}
  <2>1. n \in I /\ \A k \in I : n <= k
    BY <1>1, <1>6, <1>9
  <2>2. \A k \in DOMAIN c.numbers : k < n => k \notin I
    BY <1>3, <1>5, <2>1
  <2>. QED
    BY <1>4, <1>5, <2>1, <2>2 DEF n
<1>. QED
  BY <1>7, <1>8, <1>9

(* getNumber() keeps the numbers of one URI separate: it makes a new one   *)
(* only if all that there are have contacts of other uids.                 *)
LEMMA NumberMet ==
  ASSUME NEW c, Sized(c), NEW u \in Uris, NEW o \in 0..Len(c.part), Separate(c)
  PROVE  Met(c, getNumber(c, u, o)[1], getNumber(c, u, o)[2], u, o)
<1>. DEFINE a == c.numbers
            n == FirstNumber(c, u, o)
            x == [uri |-> u, contact |-> o]
            w1 == [c EXCEPT !.numbers = Append(@, x)]
            w2 == [c EXCEPT !.numbers[n].contact = o]
            own(k) == OfUid(c, c.numbers[k], c.uid[o])
            fits == [k \in DOMAIN a |-> a[k].uri = u /\ (o = 0 \/ a[k].contact = 0 \/ own(k))]
<1>1. a \in PhoneNumbers /\ IsRec(c) /\ Len(c.part) \in Nat /\ o \in Nat
  BY FieldsOf DEF Sized
<1>2. PICK z \in Nat : z = Len(a)
  BY <1>1, SizesOf
<1>3. /\ DOMAIN a = 1..z
      /\ \A k \in DOMAIN a : /\ a[k] \in [uri : Uris, contact : Nat]
                             /\ a[k].uri \in Uris /\ a[k].contact \in Nat
  BY <1>1, <1>2, SizesOf
<1>4. x \in [uri : Uris, contact : Nat] /\ x.uri = u /\ x.contact = o
  BY <1>1
<1>5. \A k \in DOMAIN a : fits[k] <=> a[k].uri = u /\ (o = 0 \/ a[k].contact = 0 \/ own(k))
  OBVIOUS
<1>. HIDE DEF n, x, fits
<1>6. /\ n = 0 => \A k \in DOMAIN a : ~fits[k]
      /\ n # 0 => n \in DOMAIN a /\ fits[n] /\ (o = 0 => \A k \in DOMAIN a : k < n => ~fits[k])
  <2>1. FirstNumber(c, u, o) = n
    BY DEF n
  <2>2. c.numbers \in PhoneNumbers
    BY <1>1
  <2>. QED
    BY <1>5, <2>1, <2>2, FirstNumberIs
<1>7. /\ w1.numbers = Append(a, x) /\ w2.numbers = [a EXCEPT ![n].contact = o]
      /\ w1.uid = c.uid /\ w2.uid = c.uid
  BY <1>1 DEF IsRec, Fields
<1>8. getNumber(c, u, o) = IF n = 0 THEN <<w1, z + 1>>
                           ELSE IF o # 0 /\ (a[n].contact = 0 \/ u \in Complete) THEN <<w2, n>>
                           ELSE <<c, n>>
  BY <1>2 DEF getNumber, n, x
<1>. HIDE DEF w1, w2
<1>9. CASE n = 0
  <2>1. PICK d : d = w1
    OBVIOUS
  <2>2. PICK b : b = d.numbers
    OBVIOUS
  <2>3. /\ b \in PhoneNumbers /\ Len(b) = z + 1 /\ DOMAIN b = 1..(z + 1) /\ b[z + 1] = x
        /\ \A i \in 1..z : b[i] = a[i]
    <3>1. PICK P : P = [uri : Uris, contact : Nat]
      OBVIOUS
    <3>2. a \in Seq(P) /\ x \in P /\ b = Append(a, x)
      BY <1>1, <1>4, <1>7, <2>1, <2>2, <3>1 DEF PhoneNumbers
    <3>3. /\ Append(a, x) \in Seq(P) /\ Len(Append(a, x)) = z + 1
          /\ DOMAIN Append(a, x) = 1..(z + 1) /\ Append(a, x)[z + 1] = x
          /\ \A i \in 1..z : Append(a, x)[i] = a[i]
      BY <1>2, <3>2, AppendedTo
    <3>. QED
      BY <3>1, <3>2, <3>3 DEF PhoneNumbers
  <2>4. \A k \in 1..(z + 1) : k \in 1..z \/ k = z + 1
    OBVIOUS
  <2>5. \A k \in DOMAIN a : a[k].uri = u => o # 0 /\ a[k].contact # 0 /\ ~own(k)
    BY <1>5, <1>6, <1>9
  <2>6. d.uid = c.uid /\ d.numbers = b
    BY <1>7, <2>1, <2>2
  <2>7. Grown(c, d)
    BY <1>2, <1>3, <2>3, <2>6 DEF Grown, OfUid
  <2>8. Separate(d)
    <3>. SUFFICES ASSUME NEW i \in DOMAIN b, NEW k \in DOMAIN b, i # k, b[i].uri = b[k].uri
                  PROVE  b[i].contact # 0 /\ ~OfUid(c, b[k], c.uid[b[i].contact])
      BY <2>6 DEF Separate, OfUid
    <3>1. CASE i \in 1..z /\ k \in 1..z
      BY <1>3, <2>3, <3>1 DEF Separate
    <3>2. CASE i = z + 1 /\ k \in 1..z
      BY <1>3, <1>4, <2>3, <2>5, <3>2 DEF OfUid
    <3>3. CASE i \in 1..z /\ k = z + 1
      BY <1>3, <1>4, <2>3, <2>5, <3>3 DEF OfUid
    <3>. QED
      BY <2>3, <2>4, <3>1, <3>2, <3>3
  <2>9. IF o = 0 THEN IsFirst(b, z + 1, u) ELSE OfUid(d, b[z + 1], c.uid[o])
    BY <1>3, <1>4, <2>3, <2>4, <2>5, <2>6 DEF IsFirst, OfUid
  <2>10. \A k \in DOMAIN b : b[k].contact = o \/ (k \in DOMAIN a /\ b[k] = a[k])
    BY <1>3, <1>4, <2>3, <2>4
  <2>11. z + 1 \in DOMAIN b /\ b[z + 1].uri = u
    BY <1>4, <2>3
  <2>12. Met(c, d, z + 1, u, o)
    BY <2>3, <2>6, <2>7, <2>8, <2>9, <2>10, <2>11 DEF Met
  <2>. QED
    BY <1>8, <1>9, <2>1, <2>12
<1>10. CASE n # 0 /\ o # 0 /\ (a[n].contact = 0 \/ u \in Complete)
  <2>1. PICK d : d = w2
    OBVIOUS
  <2>2. PICK b : b = d.numbers
    OBVIOUS
  <2>3. /\ b \in PhoneNumbers /\ Len(b) = z /\ DOMAIN b = 1..z
        /\ b[n].uri = u /\ b[n].contact = o /\ n \in 1..z
        /\ \A i \in 1..z : i # n => b[i] = a[i]
    <3>1. PICK P : P = [uri : Uris, contact : Nat]
      OBVIOUS
    <3>2. PICK e : e = [a[n] EXCEPT !.contact = o]
      OBVIOUS
    <3>3. a[n] \in P /\ n \in 1..z /\ a[n].uri = u
      BY <1>3, <1>5, <1>6, <1>10, <3>1
    <3>4. e \in P /\ e.uri = u /\ e.contact = o
      BY <1>1, <3>1, <3>2, <3>3
    <3>5. b = [a EXCEPT ![n] = e]
      BY <1>7, <2>1, <2>2, <3>2
    <3>6. a \in Seq(P)
      BY <1>1, <3>1 DEF PhoneNumbers
    <3>7. /\ [a EXCEPT ![n] = e] \in Seq(P) /\ Len([a EXCEPT ![n] = e]) = z
          /\ DOMAIN [a EXCEPT ![n] = e] = 1..z
          /\ \A i \in 1..z : [a EXCEPT ![n] = e][i] = IF i = n THEN e ELSE a[i]
      BY <1>2, <3>4, <3>6, ChangedAt
    <3>. QED
      BY <3>1, <3>3, <3>4, <3>5, <3>7 DEF PhoneNumbers
  <2>4. d.uid = c.uid /\ d.numbers = b
    BY <1>7, <2>1, <2>2
  <2>5. a[n].uri = u /\ (a[n].contact # 0 => c.uid[a[n].contact] = c.uid[o])
    BY <1>5, <1>6, <1>10 DEF OfUid
  <2>6. Grown(c, d)
    BY <1>2, <1>3, <1>10, <2>3, <2>4, <2>5 DEF Grown, OfUid
  <2>7. Separate(d)
    <3>. SUFFICES ASSUME NEW i \in DOMAIN b, NEW k \in DOMAIN b, i # k, b[i].uri = b[k].uri
                  PROVE  b[i].contact # 0 /\ ~OfUid(c, b[k], c.uid[b[i].contact])
      BY <2>4 DEF Separate, OfUid
    <3>1. \A l \in DOMAIN b : l \in DOMAIN a /\ b[l].uri = a[l].uri
      BY <1>3, <2>3, <2>5
    <3>2. /\ a[i].contact # 0 /\ ~OfUid(c, a[k], c.uid[a[i].contact])
          /\ a[k].contact # 0 /\ ~OfUid(c, a[i], c.uid[a[k].contact])
      BY <3>1 DEF Separate
    <3>3. CASE i # n /\ k # n
      BY <2>3, <3>2, <3>3
    <3>4. CASE i = n
      BY <1>10, <2>3, <2>5, <3>2, <3>4
    <3>5. CASE k = n
      BY <1>10, <2>3, <2>5, <3>2, <3>5 DEF OfUid
    <3>. QED
      BY <3>3, <3>4, <3>5
  <2>8. \A k \in DOMAIN b : b[k].contact = o \/ (k \in DOMAIN a /\ b[k] = a[k])
    BY <1>3, <2>3
  <2>9. OfUid(d, b[n], c.uid[o]) /\ n \in DOMAIN b
    BY <1>10, <2>3, <2>4 DEF OfUid
  <2>10. Met(c, d, n, u, o)
    BY <1>10, <2>3, <2>4, <2>6, <2>7, <2>8, <2>9 DEF Met
  <2>. QED
    BY <1>8, <1>10, <2>1, <2>10
<1>11. CASE n # 0 /\ ~(o # 0 /\ (a[n].contact = 0 \/ u \in Complete))
  <2>1. n \in DOMAIN a /\ a[n].uri = u /\ (o # 0 => own(n))
    BY <1>5, <1>6, <1>11
  <2>2. o = 0 => IsFirst(a, n, u)
    BY <1>5, <1>6, <1>11 DEF IsFirst
  <2>3. Grown(c, c)
    BY <1>2 DEF Grown, OfUid
  <2>4. Met(c, c, n, u, o)
    BY <1>1, <2>1, <2>2, <2>3 DEF Met
  <2>. QED
    BY <1>8, <1>11, <2>4
<1>. QED
  BY <1>9, <1>10, <1>11

(* The contacts of numbers are among those that are found by their uid.    *)
Known(c) ==
  \A n \in DOMAIN c.numbers : c.numbers[n].contact # 0 => c.byUid[c.uid[c.numbers[n].contact]] # 0
NumbersOk(c) == Separate(c) /\ Known(c)

(* What every step does to the numbers there are.                          *)
Evolves(c, d) ==
  NumbersOk(c) => /\ NumbersOk(d) /\ Grown(c, d)
                  /\ \A u \in Uids : c.byUid[u] # 0 => d.byUid[u] # 0

(* The contact of a number is one, and has a uid.                          *)
LEMMA ContactsOf ==
  ASSUME NEW c, Sized(c), NEW n \in DOMAIN c.numbers, c.numbers[n].contact # 0
  PROVE  /\ c.numbers[n].contact \in Objects(c)
         /\ c.uid[c.numbers[n].contact] \in Uids
<1>1. /\ c.numbers[n].contact \in 0..Len(c.part) /\ Len(c.part) \in Nat /\ Objects(c) = 1..Len(c.part)
      /\ c.uid \in Seq(Uids) /\ DOMAIN c.uid = 1..Len(c.part)
  BY FieldsOf DEF Sized, Objects
<1>2. c.numbers[n].contact \in Objects(c)
  BY <1>1
<1>. QED
  BY <1>1, <1>2, SeqAt

LEMMA UidsFound ==
  ASSUME NEW c, Sized(c), NEW u \in Uids
  PROVE  c.byUid[u] \in Nat
  BY FieldsOf DEF Sized

LEMMA QuietEvolves ==
  ASSUME NEW c, Sized(c), NEW d, d.numbers = c.numbers, d.byUid = c.byUid,
         \A o \in Objects(c) : d.uid[o] = c.uid[o]
  PROVE  Evolves(c, d)
<1>1. \A n \in DOMAIN c.numbers : c.numbers[n].contact # 0 =>
        d.uid[c.numbers[n].contact] = c.uid[c.numbers[n].contact]
  BY ContactsOf
<1>2. NumbersOk(c) => NumbersOk(d)
  BY <1>1 DEF NumbersOk, Separate, Known, OfUid
<1>3. c.numbers \in PhoneNumbers
  BY FieldsOf DEF Sized
<1>4. Grown(c, d)
  BY <1>1, <1>3, SizesOf DEF Grown, OfUid
<1>. QED
  BY <1>2, <1>4 DEF Evolves

LEMMA SameEvolves ==
  ASSUME NEW c, Sized(c), NEW d, Same(c, d), d.numbers = c.numbers
  PROVE  Evolves(c, d)
  BY QuietEvolves DEF Same

LEMMA EvolvesTwice ==
  ASSUME NEW c, Sized(c), NEW d, Sized(d), NEW e, Sized(e), Evolves(c, d), Evolves(d, e)
  PROVE  Evolves(c, e)
<1>. SUFFICES ASSUME NumbersOk(c)  PROVE Evolves(c, e)
  BY DEF Evolves
<1>1. c.numbers \in PhoneNumbers /\ d.numbers \in PhoneNumbers /\ e.numbers \in PhoneNumbers
  BY FieldsOf DEF Sized
<1>2. /\ NumbersOk(e) /\ Grown(c, d) /\ Grown(d, e)
      /\ \A u \in Uids : c.byUid[u] # 0 => e.byUid[u] # 0
  BY DEF Evolves
<1>3. Grown(c, e)
  BY <1>1, <1>2, GrownTwice
<1>. QED
  BY <1>2, <1>3 DEF Evolves

(* The numbers after one was met for a contact that is found.              *)
LEMMA MetFits ==
  ASSUME NEW c, Sized(c), NEW d, Sized(d), Same(c, d), NumbersOk(c), NEW u, NEW o, NEW n,
         Met(c, d, n, u, o), o # 0 => c.byUid[c.uid[o]] # 0
  PROVE  Evolves(c, d)
<1>1. d.uid = c.uid /\ d.byUid = c.byUid
  BY DEF Same
<1>2. Separate(d) /\ Grown(c, d)
  BY DEF Met
<1>3. Known(d)
  BY <1>1 DEF Met, Known, NumbersOk
<1>. QED
  BY <1>1, <1>2, <1>3 DEF Evolves, NumbersOk

(* getNumber() for no contact, or one whose uid is found.                  *)
LEMMA NumberFits ==
  ASSUME NEW c, Sized(c), NumbersOk(c), NEW u \in Uris, NEW o \in 0..Len(c.part),
         o # 0 => c.byUid[c.uid[o]] # 0
  PROVE  /\ Met(c, getNumber(c, u, o)[1], getNumber(c, u, o)[2], u, o)
         /\ Evolves(c, getNumber(c, u, o)[1])
<1>1. Met(c, getNumber(c, u, o)[1], getNumber(c, u, o)[2], u, o)
  BY NumberMet DEF NumbersOk
<1>2. Alike(c, getNumber(c, u, o)[1])
  BY NumberEffect
<1>. QED
  BY <1>1, <1>2, MetFits DEF Alike

(* fillContact() leaves the numbers alone, or meets one for the contact.   *)
LEMMA FillMeets ==
  ASSUME NEW c, Sized(c), PartsOk(c), Separate(c), NEW o \in Objects(c), NEW p \in Payloads
  PROVE  \/ fillContact(c, o, p).numbers = c.numbers
         \/ \E n \in Nat, u \in Uris : Met(c, fillContact(c, o, p), n, u, o)
<1>. DEFINE d == [c EXCEPT !.payload[c.part[o]] = p]
            e == getNumber(d, UriOf[p], o)[1]
            k == getNumber(d, UriOf[p], o)[2]
<1>1. c \in ContactRecord /\ Len(c.part) \in Nat /\ Objects(c) = 1..Len(c.part)
  BY FieldsOf DEF Sized, Objects
<1>2. IsRec(c)
  BY <1>1, FieldsOf
<1>3. /\ d.payload = [c.payload EXCEPT ![c.part[o]] = p] /\ Same(c, d) /\ d.active = c.active
      /\ d.numbers = c.numbers /\ IsRec(d)
  BY <1>2 DEF IsRec, Fields, Same
<1>4. Sized(d)
  <2>. HIDE DEF d
  <2>1. c.payload \in Seq(Payloads \union {None}) /\ Len(c.payload) = Len(c.part)
        /\ p \in Payloads \union {None}
    BY <1>1, FieldsOf DEF Sized
  <2>2. d.payload \in Seq(Payloads \union {None}) /\ Len(d.payload) = Len(c.part)
    <3>1. PICK T : T = Payloads \union {None}
      OBVIOUS
    <3>2. PICK i : i = c.part[o]
      OBVIOUS
    <3>3. PICK z \in Nat : z = Len(c.part)
      BY <1>1
    <3>4. /\ c.payload \in Seq(T) /\ p \in T /\ Len(c.payload) = z
          /\ d.payload = [c.payload EXCEPT ![i] = p]
      BY <1>3, <2>1, <3>1, <3>2, <3>3
    <3>5. d.payload \in Seq(T) /\ Len(d.payload) = z
      BY <3>4, ChangedAt
    <3>. QED
      BY <3>1, <3>3, <3>5
  <2>3. d \in ContactRecord
    BY <1>1, <1>3, <2>2, FieldsOf, RecordOf DEF Same
  <2>. QED
    BY <1>3, <2>2, <2>3 DEF Sized, Same
<1>5. fillContact(c, o, p) = IF UriOf[p] = None THEN d ELSE e
  BY DEF fillContact
<1>6. UriOf[p] # None => UriOf[p] \in Uris
  BY ContactsAssumption
<1>. HIDE DEF d
<1>7. d.uid = c.uid /\ d.part = c.part /\ d.numbers = c.numbers /\ o \in 0..Len(d.part)
  BY <1>1, <1>3 DEF Same
<1>8. Separate(d)
  BY <1>7 DEF Separate, OfUid
<1>9. UriOf[p] # None => Met(d, e, k, UriOf[p], o) /\ k \in Nat
  BY <1>4, <1>6, <1>7, <1>8, NumberMet, NumberEffect
<1>. HIDE DEF e, k
<1>10. Met(d, e, k, UriOf[p], o) => Met(c, e, k, UriOf[p], o)
  BY <1>7 DEF Met, Grown
<1>. QED
  BY <1>5, <1>6, <1>7, <1>9, <1>10

(* Filling a contact whose uid is found.                                   *)
LEMMA FillEvolves ==
  ASSUME NEW c, Sized(c), PartsOk(c), NEW o \in Objects(c), c.byUid[c.uid[o]] # 0, NEW p \in Payloads
  PROVE  Evolves(c, fillContact(c, o, p))
<1>. SUFFICES ASSUME NumbersOk(c)  PROVE Evolves(c, fillContact(c, o, p))
  BY DEF Evolves
<1>1. Alike(c, fillContact(c, o, p))
  BY FillEffect
<1>2. \/ fillContact(c, o, p).numbers = c.numbers
      \/ \E n \in Nat, u \in Uris : Met(c, fillContact(c, o, p), n, u, o)
  BY FillMeets DEF NumbersOk
<1>3. CASE fillContact(c, o, p).numbers = c.numbers
  BY <1>1, <1>3, SameEvolves DEF Alike
<1>4. ASSUME NEW n \in Nat, NEW u \in Uris, Met(c, fillContact(c, o, p), n, u, o)
      PROVE  Evolves(c, fillContact(c, o, p))
  BY <1>1, <1>4, MetFits DEF Alike
<1>. QED
  BY <1>2, <1>3, <1>4
-----------------------------------------------------------------------------
(* The tree.                                                               *)

(* w is tree with o at the end of branch i, which may be new.              *)
Grows(tree, w, i, cat, o) ==
  LET n == IF i \in DOMAIN tree THEN Len(tree[i].nodes) ELSE 0
  IN /\ w \in Seq(Branches) /\ DOMAIN w = DOMAIN tree \union {i}
     /\ i \in 1..(Len(tree) + 1) /\ n \in Nat
     /\ \A k \in DOMAIN tree : k # i => w[k] = tree[k]
     /\ w[i].name = cat /\ w[i].row = i
     /\ DOMAIN w[i].nodes = 1..(n + 1)
     /\ w[i].nodes[n + 1].contact = o /\ w[i].nodes[n + 1].row = n + 1
     /\ i \in DOMAIN tree => /\ tree[i].name = cat /\ DOMAIN tree[i].nodes = 1..n
                             /\ \A j \in 1..n : w[i].nodes[j] = tree[i].nodes[j]
     /\ i \notin DOMAIN tree => \A k \in DOMAIN tree : tree[k].name # cat

LEMMA BranchFields ==
  ASSUME NEW x \in Branches
  PROVE  /\ x.name \in Categories /\ x.row \in Nat /\ x.nodes \in Seq(Nodes)
         /\ \A ns \in Seq(Nodes) : /\ [x EXCEPT !.nodes = ns] \in Branches
                                   /\ [x EXCEPT !.nodes = ns].name = x.name
                                   /\ [x EXCEPT !.nodes = ns].row = x.row
                                   /\ [x EXCEPT !.nodes = ns].nodes = ns
BY DEF Branches

LEMMA AddedNode ==
  ASSUME NEW ns \in Seq(Nodes), NEW o \in Nat
  PROVE  LET x == [contact |-> o, row |-> Len(ns) + 1]
             w == Append(ns, x)
         IN /\ w \in Seq(Nodes) /\ Len(ns) \in Nat /\ DOMAIN w = 1..(Len(ns) + 1)
            /\ DOMAIN ns = 1..Len(ns)
            /\ w[Len(ns) + 1].contact = o /\ w[Len(ns) + 1].row = Len(ns) + 1
            /\ \A j \in 1..Len(ns) : w[j] = ns[j]
<1>. DEFINE x == [contact |-> o, row |-> Len(ns) + 1]
<1>1. x \in Nodes /\ x.contact = o /\ x.row = Len(ns) + 1 /\ Len(ns) \in Nat
  BY DEF Nodes
<1>. HIDE DEF x
<1>2. /\ Append(ns, x) \in Seq(Nodes) /\ DOMAIN Append(ns, x) = 1..(Len(ns) + 1)
      /\ Append(ns, x)[Len(ns) + 1] = x /\ \A j \in 1..Len(ns) : Append(ns, x)[j] = ns[j]
      /\ DOMAIN ns = 1..Len(ns)
  BY <1>1, AppendElements
<1>. QED
  BY <1>1, <1>2 DEF x

(* slotContactAdded() puts the contact at the end of its category.         *)
LEMMA InsertedGrows ==
  ASSUME NEW tree \in Seq(Branches), Rowed(tree), NEW cat \in Categories, NEW o \in Nat
  PROVE  \E i \in Nat : Grows(tree, Inserted(tree, cat, o), i, cat, o)
<1>. DEFINE t == TopLevelItem(tree, cat)
            i == CHOOSE i \in DOMAIN t : t[i].name = cat
            ns == t[i].nodes
            y == [contact |-> o, row |-> Len(ns) + 1]
            w == [t EXCEPT ![i].nodes = Append(@, y)]
            x == [name |-> cat, row |-> Len(tree) + 1, nodes |-> <<>>]
<1>1. Inserted(tree, cat, o) = [t EXCEPT ![i].nodes = Append(@, [contact |-> o, row |-> Len(@) + 1])]
  BY DEF Inserted
<1>2. Len(tree) \in Nat /\ DOMAIN tree = 1..Len(tree)
  OBVIOUS
<1>3. /\ t \in Seq(Branches) /\ \E k \in DOMAIN t : t[k].name = cat
      /\ \A k \in DOMAIN tree : k \in DOMAIN t /\ t[k] = tree[k]
      /\ \/ DOMAIN t = DOMAIN tree
         \/ /\ DOMAIN t = 1..(Len(tree) + 1) /\ t[Len(tree) + 1] = x
            /\ \A k \in DOMAIN tree : tree[k].name # cat
  <2>1. CASE \E k \in DOMAIN tree : tree[k].name = cat
    BY <2>1 DEF TopLevelItem
  <2>2. CASE ~ \E k \in DOMAIN tree : tree[k].name = cat
    <3>1. t = Append(tree, x)
      BY <2>2 DEF TopLevelItem
    <3>2. x \in Branches /\ x.name = cat
      BY <1>2 DEF Branches
    <3>. HIDE DEF t, x
    <3>3. /\ t \in Seq(Branches) /\ DOMAIN t = 1..(Len(tree) + 1) /\ t[Len(tree) + 1] = x
          /\ \A k \in 1..Len(tree) : t[k] = tree[k]
      BY <3>1, <3>2, AppendElements
    <3>4. Len(tree) + 1 \in DOMAIN t /\ \A k \in 1..Len(tree) : k \in DOMAIN t
      BY <1>2, <3>3
    <3>. QED
      BY <1>2, <2>2, <3>2, <3>3, <3>4, Zenon
  <2>. QED
    BY <2>1, <2>2
<1>. HIDE DEF t
<1>4. i \in DOMAIN t /\ t[i].name = cat
  BY <1>3
<1>. HIDE DEF i
<1>5. t[i] \in Branches /\ ns \in Seq(Nodes) /\ Len(t) \in Nat /\ DOMAIN t = 1..Len(t)
  BY <1>3, <1>4, SeqAt, BranchFields
<1>6. Inserted(tree, cat, o) = [t EXCEPT ![i] = [t[i] EXCEPT !.nodes = Append(ns, y)]]
  BY <1>1, <1>4, <1>5
<1>. HIDE DEF ns, y, w
<1>. DEFINE v == Inserted(tree, cat, o)
            b == [t[i] EXCEPT !.nodes = Append(ns, y)]
<1>7. /\ Append(ns, y) \in Seq(Nodes) /\ Len(ns) \in Nat /\ DOMAIN Append(ns, y) = 1..(Len(ns) + 1)
      /\ DOMAIN ns = 1..Len(ns)
      /\ Append(ns, y)[Len(ns) + 1].contact = o /\ Append(ns, y)[Len(ns) + 1].row = Len(ns) + 1
      /\ \A j \in 1..Len(ns) : Append(ns, y)[j] = ns[j]
  BY <1>5, AddedNode DEF y
<1>8. b \in Branches /\ b.name = cat /\ b.row = t[i].row /\ b.nodes = Append(ns, y)
  BY <1>4, <1>5, <1>7, BranchFields
<1>. HIDE DEF b
<1>9. v \in Seq(Branches) /\ DOMAIN v = DOMAIN t /\ v[i] = b /\ \A k \in DOMAIN t : k # i => v[k] = t[k]
  <2>1. v = [t EXCEPT ![i] = b]
    BY <1>6 DEF b
  <2>. HIDE DEF v
  <2>. QED
    BY <1>3, <1>4, <1>5, <1>8, <2>1, ChangedAt, Zenon
<1>. HIDE DEF v
<1>10. CASE i \in DOMAIN tree
  <2>1. t[i] = tree[i] /\ ns = tree[i].nodes /\ t[i].row = i
    BY <1>3, <1>10 DEF Rowed, ns
  <2>2. DOMAIN t = DOMAIN tree
    BY <1>3, <1>4, <1>10, <2>1
  <2>3. i \in Nat /\ i \in 1..(Len(tree) + 1)
    BY <1>2, <1>10
  <2>4. Grows(tree, v, i, cat, o)
    BY <1>3, <1>4, <1>7, <1>8, <1>9, <1>10, <2>1, <2>2, <2>3 DEF Grows
  <2>. QED
    BY <2>3, <2>4 DEF v
<1>11. CASE i \notin DOMAIN tree
  <2>1. i = Len(tree) + 1 /\ DOMAIN t = 1..(Len(tree) + 1) /\ t[i] = x /\ \A k \in DOMAIN tree : tree[k].name # cat
    BY <1>2, <1>3, <1>4, <1>11
  <2>2. ns = <<>> /\ Len(ns) = 0 /\ t[i].row = i
    BY <2>1 DEF ns
  <2>3. i \in Nat /\ i \in 1..(Len(tree) + 1) /\ DOMAIN t = DOMAIN tree \union {i}
    BY <1>2, <2>1
  <2>. HIDE DEF x
  <2>4. Grows(tree, v, i, cat, o)
    BY <1>3, <1>7, <1>8, <1>9, <1>11, <2>1, <2>2, <2>3 DEF Grows
  <2>. QED
    BY <2>3, <2>4 DEF v
<1>. QED
  BY <1>10, <1>11

LEMMA GrowsRowed ==
  ASSUME NEW tree \in Seq(Branches), Rowed(tree), NEW w, NEW i, NEW cat, NEW o,
         Grows(tree, w, i, cat, o)
  PROVE  w \in Seq(Branches) /\ Rowed(w)
<1>. DEFINE n == IF i \in DOMAIN tree THEN Len(tree[i].nodes) ELSE 0
<1>1. /\ w \in Seq(Branches) /\ DOMAIN w = DOMAIN tree \union {i}
      /\ n \in Nat /\ \A k \in DOMAIN tree : k # i => w[k] = tree[k]
      /\ w[i].row = i /\ DOMAIN w[i].nodes = 1..(n + 1) /\ w[i].nodes[n + 1].row = n + 1
      /\ i \in DOMAIN tree => /\ DOMAIN tree[i].nodes = 1..n
                              /\ \A j \in 1..n : w[i].nodes[j] = tree[i].nodes[j]
      /\ i \notin DOMAIN tree => n = 0
  BY DEF Grows
<1>. HIDE DEF n
<1>2. \A j \in 1..(n + 1) : j = n + 1 \/ j \in 1..n
  BY <1>1
<1>3. ASSUME NEW k \in DOMAIN w
      PROVE  /\ w[k].row = k /\ w[k].nodes # <<>>
             /\ \A j \in DOMAIN w[k].nodes : w[k].nodes[j].row = j
  <2>1. CASE k # i
    BY <1>1, <1>3, <2>1 DEF Rowed
  <2>2. CASE k = i
    <3>1. w[i].nodes # <<>>
      BY <1>1
    <3>2. i \in DOMAIN tree => \A j \in 1..n : tree[i].nodes[j].row = j
      BY <1>1 DEF Rowed
    <3>3. i \notin DOMAIN tree => 1..n = {}
      BY <1>1
    <3>. QED
      BY <1>1, <1>2, <2>2, <3>1, <3>2, <3>3
  <2>. QED
    BY <2>1, <2>2
<1>. QED
  BY <1>1, <1>3 DEF Rowed

(* A contact that was not in the tree is there once afterwards.            *)
LEMMA GrowsOk ==
  ASSUME NEW tree, NEW S \in SUBSET Nat, TreeOk(tree, S), NEW w, NEW i \in Nat, NEW cat, NEW o \in Nat \ S,
         Grows(tree, w, i, cat, o)
  PROVE  TreeOk(w, S \union {o})
<1>. DEFINE n == IF i \in DOMAIN tree THEN Len(tree[i].nodes) ELSE 0
<1>1. /\ w \in Seq(Branches) /\ DOMAIN w = DOMAIN tree \union {i}
      /\ i \in 1..(Len(tree) + 1) /\ n \in Nat
      /\ \A k \in DOMAIN tree : k # i => w[k] = tree[k]
      /\ w[i].name = cat /\ w[i].row = i
      /\ DOMAIN w[i].nodes = 1..(n + 1)
      /\ w[i].nodes[n + 1].contact = o /\ w[i].nodes[n + 1].row = n + 1
      /\ i \in DOMAIN tree => /\ tree[i].name = cat /\ DOMAIN tree[i].nodes = 1..n
                              /\ \A j \in 1..n : w[i].nodes[j] = tree[i].nodes[j]
      /\ i \notin DOMAIN tree => n = 0 /\ \A k \in DOMAIN tree : tree[k].name # cat
  BY DEF Grows
<1>. HIDE DEF n
<1>2. /\ tree \in Seq(Branches) /\ Rowed(tree)
      /\ \A k, l \in DOMAIN tree : tree[k].name = tree[l].name => k = l
      /\ \A k \in DOMAIN tree : \A j \in DOMAIN tree[k].nodes : tree[k].nodes[j].contact \in S
      /\ \A q \in S : \E k, j \in Nat : At(tree, q, k, j)
      /\ \A q \in S, k, j, p, l \in Nat : At(tree, q, k, j) /\ At(tree, q, p, l) => k = p /\ j = l
  BY DEF TreeOk
<1>3. \A j \in 1..(n + 1) : j = n + 1 \/ j \in 1..n
  BY <1>1
(* The places of w are those of tree and the last one of branch i.         *)
<1>4. ASSUME NEW k, NEW j, NEW q
      PROVE  At(w, q, k, j) <=> At(tree, q, k, j) \/ (k = i /\ j = n + 1 /\ q = o)
  <2>1. CASE k # i
    BY <1>1, <2>1 DEF At
  <2>2. CASE k = i /\ i \in DOMAIN tree
    <3>1. 1..n \subseteq 1..(n + 1) /\ n + 1 \notin 1..n /\ n + 1 \in 1..(n + 1)
      BY <1>1
    <3>. QED
      BY <1>1, <1>3, <2>2, <3>1 DEF At
  <2>3. CASE k = i /\ i \notin DOMAIN tree
    <3>1. n = 0 /\ 1..(n + 1) = {1}
      BY <1>1, <2>3
    <3>. QED
      BY <1>1, <2>3, <3>1 DEF At
  <2>. QED
    BY <2>1, <2>2, <2>3
<1>5. Rowed(w)
  BY <1>2, GrowsRowed
<1>6. \A k, l \in DOMAIN w : w[k].name = w[l].name => k = l
  BY <1>1, <1>2
<1>7. \A k \in DOMAIN w : \A j \in DOMAIN w[k].nodes : w[k].nodes[j].contact \in S \union {o}
  <2>1. ASSUME NEW k \in DOMAIN w, NEW j \in DOMAIN w[k].nodes
        PROVE  w[k].nodes[j].contact \in S \union {o}
    <3>1. At(w, w[k].nodes[j].contact, k, j)
      BY <2>1 DEF At
    <3>2. At(tree, w[k].nodes[j].contact, k, j) \/ w[k].nodes[j].contact = o
      BY <1>4, <3>1
    <3>. QED
      BY <1>2, <3>2 DEF At
  <2>. QED
    BY <2>1
<1>8. \A k, j : ~At(tree, o, k, j)
  BY <1>2 DEF At
<1>9. \A q \in S \union {o} : \E k, j \in Nat : At(w, q, k, j)
  BY <1>1, <1>2, <1>4
<1>10. ASSUME NEW q \in S \union {o}, NEW k \in Nat, NEW j \in Nat, NEW p \in Nat, NEW l \in Nat,
              At(w, q, k, j), At(w, q, p, l)
       PROVE  k = p /\ j = l
  <2>1. CASE q = o
    BY <1>4, <1>8, <1>10, <2>1
  <2>2. CASE q # o
    <3>1. q \in S /\ At(tree, q, k, j) /\ At(tree, q, p, l)
      BY <1>4, <1>10, <2>2
    <3>. QED
      BY <1>2, <3>1
  <2>. QED
    BY <2>1, <2>2
<1>. QED
  BY <1>1, <1>5, <1>6, <1>7, <1>9, <1>10 DEF TreeOk

LEMMA InsertedEffect ==
  ASSUME NEW tree, NEW S \in SUBSET Nat, TreeOk(tree, S), NEW cat \in Categories, NEW o \in Nat \ S
  PROVE  TreeOk(Inserted(tree, cat, o), S \union {o})
<1>1. tree \in Seq(Branches) /\ Rowed(tree)
  BY DEF TreeOk
<1>2. PICK i \in Nat : Grows(tree, Inserted(tree, cat, o), i, cat, o)
  BY <1>1, InsertedGrows
<1>. QED
  BY <1>2, GrowsOk

LEMMA CategoryTyped ==
  ASSUME NEW c, Sized(c), PartsOk(c), NEW o \in Objects(c), NEW r \in Roles
  PROVE  Category(c, o, r) \in Categories
<1>1. c.payload \in Seq(Payloads \union {None}) /\ DOMAIN c.payload = DOMAIN c.part
  BY FieldsOf DEF Sized
<1>2. c.part[o] \in DOMAIN c.payload
  BY <1>1 DEF PartsOk, Objects
<1>3. c.payload[c.part[o]] \in Payloads \union {None}
  BY <1>1, <1>2, SeqAt
<1>. QED
  BY <1>3 DEF Category, Categories

-----------------------------------------------------------------------------
(* New objects and new contacts.                                           *)

(* w is c with one more object, that has a part of its own.                *)
Made(c, w, u, b) ==
  LET o == Len(c.part) + 1
  IN /\ Sized(w) /\ PartsOk(w)
     /\ o \in Nat /\ o # 0 /\ o \notin Objects(c) /\ Objects(w) = Objects(c) \union {o}
     /\ Objects(c) \subseteq Nat \ {0}
     /\ \A x \in Objects(c) : /\ w.uid[x] = c.uid[x] /\ w.part[x] = c.part[x]
                              /\ w.owner[x] = c.owner[x] /\ w.active[x] = c.active[x]
     /\ w.uid[o] = u /\ w.part[o] = o /\ w.owner[o] = b /\ w.active[o] = TRUE
     /\ w.contacts = c.contacts /\ w.byUid = c.byUid /\ w.placeholders = c.placeholders
     /\ w.numbers = c.numbers /\ w.tree = c.tree

(* A new object has a part of its own.                                     *)
LEMMA NewObjectEffect ==
  ASSUME NEW c, Sized(c), PartsOk(c), NEW u \in Uids, NEW b \in Backends \union {None}
  PROVE  Made(c, NewObject(c, u, b), u, b)
<1>. DEFINE n == Len(c.part)
            o == n + 1
            w == NewObject(c, u, b)
<1>1. /\ c \in ContactRecord /\ n \in Nat /\ DOMAIN c.part = 1..n /\ o \in Nat /\ o # 0
      /\ Len(c.uid) = n /\ Len(c.parents) = n /\ Len(c.payload) = n /\ Len(c.active) = n
      /\ Len(c.owner) = n /\ Objects(c) = 1..n
  BY FieldsOf DEF Sized, Objects
<1>2. <<o>> \in Seq(Nat) /\ IsInjective(<<o>>) /\ ToSet(<<o>>) = {o}
  BY <1>1 DEF IsInjective, ToSet
<1>0. IsRec(c)
  BY <1>1, FieldsOf
<1>3. /\ w.uid = Append(c.uid, u) /\ w.part = Append(c.part, o)
      /\ w.parents = Append(c.parents, <<o>>) /\ w.payload = Append(c.payload, None)
      /\ w.active = Append(c.active, TRUE) /\ w.owner = Append(c.owner, b)
      /\ w.contacts = c.contacts /\ w.byUid = c.byUid /\ w.placeholders = c.placeholders
      /\ w.numbers = c.numbers /\ w.tree = c.tree
      /\ IsRec(w)
  BY <1>0 DEF IsRec, Fields, NewObject
<1>. HIDE DEF w
<1>4. /\ w.uid \in Seq(Uids) /\ Len(w.uid) = o /\ w.uid[o] = u /\ \A x \in 1..n : w.uid[x] = c.uid[x]
  <2>1. c.uid \in Seq(Uids) /\ Len(c.uid) = n /\ n \in Nat
    BY <1>1, FieldsOf
  <2>. QED
    BY <1>3, <2>1, AppendedTo
<1>5. /\ w.part \in Seq(Nat) /\ Len(w.part) = o /\ w.part[o] = o /\ DOMAIN w.part = 1..o
      /\ \A x \in 1..n : w.part[x] = c.part[x]
  BY <1>1, <1>3, FieldsOf, AppendedTo
<1>6. /\ w.parents \in Seq(Seq(Nat)) /\ Len(w.parents) = o /\ w.parents[o] = <<o>>
      /\ \A x \in 1..n : w.parents[x] = c.parents[x]
  <2>. DEFINE y == <<o>>
  <2>1. y \in Seq(Nat) /\ w.parents = Append(c.parents, y) /\ c.parents \in Seq(Seq(Nat))
    BY <1>1, <1>2, <1>3, FieldsOf
  <2>. HIDE DEF y
  <2>2. /\ w.parents \in Seq(Seq(Nat)) /\ Len(w.parents) = o /\ w.parents[o] = y
        /\ \A x \in 1..n : w.parents[x] = c.parents[x]
    BY <1>1, <2>1, AppendedTo
  <2>. QED
    BY <2>2 DEF y
<1>7. /\ w.payload \in Seq(Payloads \union {None}) /\ Len(w.payload) = o
  BY <1>1, <1>3, FieldsOf, AppendedTo
<1>8. /\ w.active \in Seq(BOOLEAN) /\ Len(w.active) = o /\ w.active[o] = TRUE
      /\ \A x \in 1..n : w.active[x] = c.active[x]
  <2>1. c.active \in Seq(BOOLEAN) /\ TRUE \in BOOLEAN /\ Len(c.active) = n
    BY <1>1, FieldsOf
  <2>2. PICK t \in BOOLEAN : t = TRUE
    OBVIOUS
  <2>3. /\ Append(c.active, t) \in Seq(BOOLEAN) /\ Len(Append(c.active, t)) = o
        /\ Append(c.active, t)[o] = t
        /\ \A x \in 1..n : Append(c.active, t)[x] = c.active[x]
    BY <1>1, <2>1, AppendedTo
  <2>. QED
    BY <1>3, <2>2, <2>3, Zenon
<1>9. /\ w.owner \in Seq(Backends \union {None}) /\ Len(w.owner) = o /\ w.owner[o] = b
      /\ \A x \in 1..n : w.owner[x] = c.owner[x]
  BY <1>1, <1>3, FieldsOf, AppendedTo, SMTT(30)
<1>10. w \in ContactRecord
  BY <1>1, <1>3, <1>4, <1>5, <1>6, <1>7, <1>8, <1>9, FieldsOf, RecordOf
<1>11. 0..n \subseteq 0..o
  BY <1>1
<1>12. Sized(w)
  BY <1>3, <1>4, <1>5, <1>6, <1>7, <1>8, <1>9, <1>10, <1>11 DEF Sized
<1>13. Objects(w) = Objects(c) \union {o} /\ o \notin Objects(c) /\ Objects(c) \subseteq Nat \ {0}
  BY <1>1, <1>5 DEF Objects
<1>14. PartsOk(w)
  <2>1. ASSUME NEW x \in Objects(w)
        PROVE  w.part[x] \in Objects(w) /\ (w.owner[x] # None => w.part[x] = x)
    BY <1>1, <1>5, <1>9, <1>13, <2>1 DEF PartsOk
  <2>2. ASSUME NEW p \in Objects(w)
        PROVE  /\ IsInjective(w.parents[p])
               /\ ToSet(w.parents[p]) = {x \in Objects(w) : w.part[x] = p}
    <3>1. CASE p = o
      <4>1. \A x \in Objects(c) : w.part[x] # o
        BY <1>1, <1>5, <1>13 DEF PartsOk
      <4>2. {x \in Objects(w) : w.part[x] = o} = {o}
        BY <1>5, <1>13, <4>1
      <4>. QED
        BY <1>2, <1>6, <3>1, <4>2
    <3>2. CASE p # o
      <4>1. p \in Objects(c) /\ w.parents[p] = c.parents[p]
        BY <1>1, <1>6, <1>13, <3>2
      <4>2. {x \in Objects(w) : w.part[x] = p} = {x \in Objects(c) : c.part[x] = p}
        BY <1>1, <1>5, <1>13, <3>2
      <4>. QED
        BY <4>1, <4>2 DEF PartsOk
    <3>. QED
      BY <3>1, <3>2
  <2>. QED
    BY <2>1, <2>2 DEF PartsOk
<1>. QED
  BY <1>1, <1>3, <1>4, <1>5, <1>8, <1>9, <1>12, <1>13, <1>14 DEF Made, w

(* A contact that comes from a book is found by its uid.                   *)
LEMMA ItemEvolves ==
  ASSUME NEW c, Sound(c), NEW u \in Uids, NEW b \in Backends, NEW p \in Payloads,
         NEW o, o = Len(c.part) + 1, NEW w, Made(c, w, u, b),
         NEW z, Sized(z), z.numbers = fillContact(w, o, p).numbers, z.uid[o] = u,
         \A x \in Objects(c) : z.uid[x] = c.uid[x],
         \A x \in Uids : z.byUid[x] = IF x = u THEN o ELSE c.byUid[x]
  PROVE  Evolves(c, z)
<1>. SUFFICES ASSUME NumbersOk(c)  PROVE Evolves(c, z)
  BY DEF Evolves
<1>. DEFINE f == fillContact(w, o, p)
<1>1. /\ Sized(c) /\ Sized(w) /\ PartsOk(w) /\ o \in Nat /\ o # 0 /\ o \in Objects(w)
      /\ w.numbers = c.numbers /\ Objects(w) = Objects(c) \union {o}
      /\ w.uid[o] = u /\ \A x \in Objects(c) : w.uid[x] = c.uid[x]
  BY DEF Made, Sound
<1>2. /\ \A k \in DOMAIN c.numbers : c.numbers[k].contact # 0 => c.numbers[k].contact \in Objects(c)
      /\ \A x \in Objects(c) : c.uid[x] \in Uids
  <2>1. \A k \in DOMAIN c.numbers : c.numbers[k].contact # 0 => c.numbers[k].contact \in Objects(c)
    BY <1>1, ContactsOf
  <2>2. c.uid \in Seq(Uids) /\ DOMAIN c.uid = Objects(c)
    BY <1>1, FieldsOf DEF Sized, Objects
  <2>. QED
    BY <2>1, <2>2, SeqAt
<1>3. Separate(w)
  <2>1. Separate(c)
    BY DEF NumbersOk
  <2>. SUFFICES ASSUME NEW n \in DOMAIN c.numbers, NEW k \in DOMAIN c.numbers, n # k,
                       c.numbers[n].uri = c.numbers[k].uri
                PROVE  /\ c.numbers[n].contact # 0
                       /\ ~OfUid(w, c.numbers[k], w.uid[c.numbers[n].contact])
    BY <1>1 DEF Separate
  <2>2. c.numbers[n].contact # 0 /\ ~OfUid(c, c.numbers[k], c.uid[c.numbers[n].contact])
    BY <2>1 DEF Separate
  <2>. QED
    BY <1>1, <1>2, <2>2 DEF OfUid
<1>4. Sized(f) /\ f.uid = w.uid /\ Objects(f) = Objects(w)
  BY <1>1, FillEffect, AlikeIsSound DEF Alike, Same
<1>5. f.numbers = w.numbers \/ \E n \in Nat, v \in Uris : Met(w, f, n, v, o)
  BY <1>1, <1>3, FillMeets
<1>. HIDE DEF f
<1>6. z.numbers = f.numbers
  BY DEF f
<1>7. \A k \in DOMAIN f.numbers : f.numbers[k].contact # 0 =>
        f.numbers[k].contact \in Objects(w) /\ z.uid[f.numbers[k].contact] = f.uid[f.numbers[k].contact]
  BY <1>1, <1>4, ContactsOf
<1>8. Separate(f) /\ Grown(w, f)
  <2>1. CASE f.numbers = w.numbers
    <3>1. w.numbers \in PhoneNumbers
      BY <1>1, FieldsOf DEF Sized
    <3>. QED
      BY <1>3, <1>4, <2>1, <3>1, SizesOf DEF Separate, Grown, OfUid
  <2>. QED
    BY <1>5, <2>1 DEF Met
<1>9. Separate(z)
  BY <1>6, <1>7, <1>8 DEF Separate, OfUid
<1>10. Grown(c, z)
  <2>1. ASSUME NEW k \in DOMAIN c.numbers
        PROVE  /\ z.numbers[k].uri = c.numbers[k].uri
               /\ c.numbers[k].contact # 0 => OfUid(z, z.numbers[k], c.uid[c.numbers[k].contact])
    <3>1. /\ f.numbers[k].uri = c.numbers[k].uri /\ k \in DOMAIN f.numbers
          /\ c.numbers[k].contact # 0 => OfUid(f, f.numbers[k], w.uid[c.numbers[k].contact])
      <4>1. f.numbers \in PhoneNumbers /\ w.numbers \in PhoneNumbers
        BY <1>1, <1>4, FieldsOf DEF Sized
      <4>. QED
        BY <1>1, <1>8, <2>1, <4>1, SizesOf DEF Grown
    <3>2. c.numbers[k].contact # 0 => w.uid[c.numbers[k].contact] = c.uid[c.numbers[k].contact]
      BY <1>1, <1>2
    <3>. QED
      BY <1>6, <1>7, <3>1, <3>2 DEF OfUid
  <2>2. Len(c.numbers) <= Len(z.numbers)
    BY <1>1, <1>6, <1>8 DEF Grown
  <2>. QED
    BY <2>1, <2>2 DEF Grown
<1>11. \A x \in Uids : c.byUid[x] # 0 => z.byUid[x] # 0
  BY <1>1
<1>12. Known(z)
  <2>. SUFFICES ASSUME NEW k \in DOMAIN f.numbers, f.numbers[k].contact # 0
                PROVE  z.byUid[z.uid[f.numbers[k].contact]] # 0
    BY <1>6 DEF Known
  <2>1. CASE f.numbers[k].contact = o
    BY <1>1, <2>1
  <2>2. CASE f.numbers[k].contact # o
    <3>1. k \in DOMAIN c.numbers /\ f.numbers[k] = c.numbers[k]
      BY <1>1, <1>5, <2>2 DEF Met
    <3>. QED
      BY <1>2, <1>11, <3>1 DEF NumbersOk, Known
  <2>. QED
    BY <2>1, <2>2
<1>. QED
  BY <1>9, <1>10, <1>11, <1>12 DEF Evolves, NumbersOk

(* What every step but that of a switch does to the contacts there are.    *)
Keeps(c, d, b) ==
  /\ Sound(d) /\ Belongs(c) \subseteq Belongs(d)
  /\ \A o \in Belongs(c) : d.owner[o] = c.owner[o] /\ d.active[o] = c.active[o]
  /\ \A o \in Belongs(d) \ Belongs(c) : d.owner[o] = b /\ d.active[o]

(* Filling a contact or meeting a number switches nothing.                 *)
LEMMA AlikeKeeps ==
  ASSUME NEW c, Sound(c), NEW d, Alike(c, d), d.active = c.active, NEW b
  PROVE  Keeps(c, d, b)
<1>1. Belongs(d) = Belongs(c) /\ Sound(d) /\ d.owner = c.owner
  BY AlikeIsSound DEF Alike, Same
<1>. QED
  BY <1>1 DEF Keeps

(* A placeholder is one more object that belongs to no book.               *)
LEMMA PlaceHolderEffect ==
  ASSUME NEW c, Sound(c), NEW u \in Uids, NEW b
  PROVE  Keeps(c, getPlaceHolder(c, u)[1], b) /\ Evolves(c, getPlaceHolder(c, u)[1])
<1>1. Keeps(c, c, b) /\ Evolves(c, c)
  BY SameEvolves DEF Keeps, Sound, Same
<1>. DEFINE o == Len(c.part) + 1
            w == NewObject(c, u, None)
            v == [w EXCEPT !.placeholders[u] = o]
<1>2. CASE c.byUid[u] = 0 /\ c.placeholders[u] = 0
  <2>1. Made(c, w, u, None)
    BY NewObjectEffect DEF Sound
  <2>. HIDE DEF w
  <2>2. w \in ContactRecord /\ o \in Nat
    BY <2>1 DEF Made, Sized
  <2>. HIDE DEF o
  <2>0. IsRec(w)
    BY <2>2, FieldsOf
  <2>3. /\ v.placeholders = [w.placeholders EXCEPT ![u] = o]
        /\ v.uid = w.uid /\ v.part = w.part /\ v.parents = w.parents /\ v.payload = w.payload
        /\ v.active = w.active /\ v.owner = w.owner /\ v.contacts = w.contacts
        /\ v.byUid = w.byUid /\ v.numbers = w.numbers /\ v.tree = w.tree
        /\ IsRec(v)
    BY <2>0 DEF IsRec, Fields
  <2>. HIDE DEF v
  <2>4. v.placeholders \in [Uids -> Nat]
    BY <2>2, <2>3, FieldsOf
  <2>5. v \in ContactRecord
    BY <2>2, <2>3, <2>4, FieldsOf, RecordOf
  <2>6. Sized(v) /\ PartsOk(v)
    <3>1. Sized(w) /\ PartsOk(w)
      BY <2>1 DEF Made
    <3>2. Sized(v)
      BY <2>3, <2>5, <3>1 DEF Sized
    <3>3. PartsOk(v)
      BY <2>3, <3>1 DEF PartsOk, Objects
    <3>. QED
      BY <3>2, <3>3
  <2>7. /\ Objects(v) = Objects(c) \union {o} /\ o \notin Objects(c) /\ o # 0
        /\ \A x \in Objects(c) : /\ v.uid[x] = c.uid[x] /\ v.part[x] = c.part[x]
                                 /\ v.owner[x] = c.owner[x] /\ v.active[x] = c.active[x]
        /\ v.uid[o] = u /\ v.part[o] = o /\ v.owner[o] = None
        /\ v.contacts = c.contacts /\ v.byUid = c.byUid /\ v.tree = c.tree /\ v.numbers = c.numbers
        /\ \A x \in Uids : v.placeholders[x] = IF x = u THEN o ELSE c.placeholders[x]
    <3>1. w.placeholders = c.placeholders /\ c.placeholders \in [Uids -> Nat]
      BY <2>1, FieldsOf DEF Made, Sound, Sized
    <3>. QED
      BY <2>1, <2>3, <3>1 DEF Made, Objects, o
  <2>8. Belongs(v) = Belongs(c)
    BY <2>7 DEF Belongs
  <2>9. \A x \in Objects(c) : c.uid[x] \in Uids
    BY FieldsOf, SeqAt DEF Sound, Sized, Objects
  <2>10. ListedOk(v)
    <3>1. Belongs(c) \subseteq Objects(c)
      BY DEF Belongs
    <3>. QED
      BY <2>7, <2>8, <3>1 DEF ListedOk, Sound
  <2>11. HeldOk(v)
    <3>1. \A x \in Uids : v.placeholders[x] # 0 =>
            /\ v.placeholders[x] \in Objects(v) \ Belongs(v)
            /\ v.uid[v.placeholders[x]] = x /\ v.byUid[x] = 0
      BY <1>2, <2>7, <2>8 DEF HeldOk, Sound, Belongs
    <3>2. ASSUME NEW x \in Objects(v) \ Belongs(v)
          PROVE  \/ v.placeholders[v.uid[x]] = x
                 \/ v.part[x] \in Belongs(v) /\ v.uid[v.part[x]] = v.uid[x]
      <4>1. CASE x = o
        BY <2>7, <4>1
      <4>2. CASE x # o
        <5>1. x \in Objects(c) \ Belongs(c) /\ v.uid[x] = c.uid[x] /\ v.part[x] = c.part[x] /\ c.uid[x] \in Uids
          BY <2>7, <2>8, <2>9, <3>2, <4>2
        <5>2. CASE c.placeholders[c.uid[x]] = x
          <6>1. x # 0
            BY <5>1, FieldsOf DEF Sound, Sized, Objects
          <6>2. c.uid[x] # u
            BY <1>2, <5>2, <6>1
          <6>. QED
            BY <2>7, <5>1, <5>2, <6>2
        <5>3. CASE c.part[x] \in Belongs(c) /\ c.uid[c.part[x]] = c.uid[x]
          <6>1. c.part[x] \in Objects(c)
            BY <5>3 DEF Belongs
          <6>. QED
            BY <2>7, <2>8, <5>1, <5>3, <6>1
        <5>. QED
          BY <5>1, <5>2, <5>3 DEF HeldOk, Sound
      <4>. QED
        BY <4>1, <4>2
    <3>. QED
      BY <3>1, <3>2 DEF HeldOk
  <2>12. Sound(v)
    BY <2>6, <2>7, <2>8, <2>10, <2>11 DEF Sound
  <2>13. Keeps(c, v, b)
    <3>1. Belongs(c) \subseteq Objects(c)
      BY DEF Belongs
    <3>. QED
      BY <2>7, <2>8, <2>12, <3>1 DEF Keeps
  <2>14. Evolves(c, v)
    BY <2>7, QuietEvolves DEF Sound
  <2>15. getPlaceHolder(c, u)[1] = v
    BY <1>2 DEF getPlaceHolder, v, w, o
  <2>. QED
    BY <2>13, <2>14, <2>15
<1>3. CASE ~(c.byUid[u] = 0 /\ c.placeholders[u] = 0)
  <2>1. getPlaceHolder(c, u)[1] = c
    BY <1>3 DEF getPlaceHolder
  <2>. QED
    BY <1>1, <2>1
<1>. QED
  BY <1>2, <1>3

(* e is w with object o listed, which takes the place of placeholder q.    *)
Joins(w, e, u, o, q) ==
  /\ Sized(e) /\ PartsOk(e) /\ Objects(e) = Objects(w)
  /\ e.uid = w.uid /\ e.owner = w.owner /\ e.active = w.active /\ e.tree = w.tree
  /\ e.numbers = w.numbers /\ e.contacts = Append(w.contacts, o)
  /\ \A x \in Uids : e.byUid[x] = IF x = u THEN o ELSE w.byUid[x]
  /\ \A x \in Uids : e.placeholders[x] = IF x = u THEN 0 ELSE w.placeholders[x]
  /\ \A x \in Objects(w) : e.part[x] = IF x = q THEN o ELSE w.part[x]

(* The two steps of addContact().                                          *)
WithContact(w, o, u) == [w EXCEPT !.contacts = Append(@, o), !.byUid[u] = o]
Resolved(d, q, o, u) == [Merged(d, q, o) EXCEPT !.placeholders[u] = 0]
Joined(d, o, u) ==
  IF d.placeholders[u] = 0 THEN d ELSE Resolved(d, d.placeholders[u], o, u)

(* A contact that is listed and found by its uid.                          *)
Lists(w, d, o, u) ==
  /\ Sized(d) /\ PartsOk(d) /\ Objects(d) = Objects(w)
  /\ d.uid = w.uid /\ d.part = w.part /\ d.parents = w.parents /\ d.owner = w.owner
  /\ d.active = w.active /\ d.tree = w.tree /\ d.placeholders = w.placeholders
  /\ d.numbers = w.numbers /\ d.contacts = Append(w.contacts, o)
  /\ \A x \in Uids : d.byUid[x] = IF x = u THEN o ELSE w.byUid[x]

LEMMA ListedEffect ==
  ASSUME NEW w, Sized(w), PartsOk(w), NEW o \in Objects(w), NEW u \in Uids
  PROVE  Lists(w, WithContact(w, o, u), o, u)
<1>. DEFINE d == WithContact(w, o, u)
<1>1. w \in ContactRecord /\ o \in Nat
  BY FieldsOf DEF Sized, Objects
<1>0. IsRec(w)
  BY <1>1, FieldsOf
<1>2. /\ d.contacts = Append(w.contacts, o) /\ d.byUid = [w.byUid EXCEPT ![u] = o]
      /\ d.uid = w.uid /\ d.part = w.part /\ d.parents = w.parents /\ d.payload = w.payload
      /\ d.active = w.active /\ d.owner = w.owner
      /\ d.placeholders = w.placeholders /\ d.numbers = w.numbers /\ d.tree = w.tree
      /\ IsRec(d)
  BY <1>0 DEF IsRec, Fields, WithContact
<1>. HIDE DEF d
<1>3. d.contacts \in Seq(Nat) /\ d.byUid \in [Uids -> Nat]
      /\ \A x \in Uids : d.byUid[x] = IF x = u THEN o ELSE w.byUid[x]
  BY <1>1, <1>2, FieldsOf
<1>4. d \in ContactRecord
  BY <1>1, <1>2, <1>3, FieldsOf, RecordOf
<1>5. Sized(d)
  BY <1>2, <1>4 DEF Sized
<1>6. PartsOk(d) /\ Objects(d) = Objects(w)
  BY <1>2 DEF PartsOk, Objects
<1>. QED
  BY <1>2, <1>3, <1>5, <1>6 DEF d, Lists

(* The placeholder leaves its part and shares that of o.                   *)
Resolves(d, e, q, o, u) ==
  /\ Sized(e) /\ PartsOk(e) /\ Objects(e) = Objects(d)
  /\ e.uid = d.uid /\ e.owner = d.owner /\ e.active = d.active /\ e.tree = d.tree
  /\ e.numbers = d.numbers /\ e.contacts = d.contacts /\ e.byUid = d.byUid
  /\ \A x \in Uids : e.placeholders[x] = IF x = u THEN 0 ELSE d.placeholders[x]
  /\ \A x \in Objects(d) : e.part[x] = IF x = q THEN o ELSE d.part[x]

(* replaceDPointer(): the placeholder moves from its part to the           *)
(* contact's, and both parts know their objects.                           *)
LEMMA MergedEffect ==
  ASSUME NEW d, Sized(d), PartsOk(d), NEW o \in Objects(d), NEW q \in Objects(d), NEW u \in Uids,
         d.part[o] = o, d.part[q] # o, d.owner[q] = None
  PROVE  Resolves(d, Resolved(d, q, o, u), q, o, u)
<1>. DEFINE e == Resolved(d, q, o, u)
            g == [d EXCEPT !.part[q] = o,
                           !.parents[o] = Append(@, q), !.parents[d.part[q]] = Without(@, q)]
            p == d.part[q]
            n == Len(d.part)
<1>1. /\ d \in ContactRecord /\ n \in Nat /\ Objects(d) = 1..n /\ DOMAIN d.part = 1..n
      /\ d.parents \in Seq(Seq(Nat)) /\ Len(d.parents) = n /\ DOMAIN d.parents = 1..n
      /\ o \in 1..n /\ q \in 1..n /\ p \in 1..n /\ p # o /\ o # 0 /\ q # 0
  <2>1. /\ d \in ContactRecord /\ n \in Nat /\ DOMAIN d.part = 1..n
        /\ d.parents \in Seq(Seq(Nat)) /\ Len(d.parents) = n
    BY FieldsOf DEF Sized
  <2>2. Objects(d) = 1..n /\ p \in Objects(d)
    BY <2>1 DEF Objects, PartsOk
  <2>. QED
    BY <2>1, <2>2
<1>2. Merged(d, q, o) = g
  BY <1>1 DEF Merged, SamePart
<1>0. IsRec(d) /\ p # o /\ d.part[q] = p
  BY <1>1, FieldsOf
<1>. HIDE DEF p
<1>. DEFINE ps == [d.parents EXCEPT ![o] = Append(@, q), ![p] = Without(@, q)]
<1>20. /\ g.part = [d.part EXCEPT ![q] = o] /\ g.parents = ps /\ g.placeholders = d.placeholders
       /\ g.uid = d.uid /\ g.payload = d.payload /\ g.contacts = d.contacts
       /\ g.active = d.active /\ g.owner = d.owner /\ g.byUid = d.byUid
       /\ g.numbers = d.numbers /\ g.tree = d.tree
       /\ IsRec(g)
  <2>1. g.parents = ps
    BY <1>0 DEF p, IsRec, Fields
  <2>2. g.part = [d.part EXCEPT ![q] = o] /\ IsRec(g)
    BY <1>0 DEF IsRec, Fields
  <2>3. /\ g.placeholders = d.placeholders
        /\ g.uid = d.uid /\ g.payload = d.payload /\ g.contacts = d.contacts
        /\ g.active = d.active /\ g.owner = d.owner /\ g.byUid = d.byUid
        /\ g.numbers = d.numbers /\ g.tree = d.tree
    BY <1>0 DEF IsRec, Fields
  <2>. QED
    BY <2>1, <2>2, <2>3
<1>. HIDE DEF g, ps
<1>3. /\ e.part = [d.part EXCEPT ![q] = o]
      /\ e.parents = ps
      /\ e.placeholders = [d.placeholders EXCEPT ![u] = 0]
      /\ e.uid = d.uid /\ e.payload = d.payload /\ e.contacts = d.contacts
      /\ e.active = d.active /\ e.owner = d.owner /\ e.byUid = d.byUid
      /\ e.numbers = d.numbers /\ e.tree = d.tree
      /\ IsRec(e)
  BY <1>2, <1>20 DEF IsRec, Fields, Resolved
<1>. HIDE DEF e
<1>4. /\ e.part \in Seq(Nat) /\ Len(e.part) = n /\ DOMAIN e.part = 1..n
      /\ \A x \in 1..n : e.part[x] = IF x = q THEN o ELSE d.part[x]
  <2>1. d.part \in Seq(Nat) /\ o \in Nat
    BY <1>1, FieldsOf
  <2>. QED
    BY <1>1, <1>3, <2>1, ChangedAt, SMTT(30)
<1>5. /\ e.placeholders \in [Uids -> Nat]
      /\ \A x \in Uids : e.placeholders[x] = IF x = u THEN 0 ELSE d.placeholders[x]
  <2>1. d.placeholders \in [Uids -> Nat]
    BY <1>1, FieldsOf
  <2>. QED
    BY <1>3, <2>1
<1>6. /\ DOMAIN e.parents = 1..n
      /\ \A x \in 1..n : e.parents[x] = IF x = p THEN Without(d.parents[p], q)
                                        ELSE IF x = o THEN Append(d.parents[o], q) ELSE d.parents[x]
  BY <1>0, <1>1, <1>3 DEF ps
<1>7. \A x \in 1..n : d.parents[x] \in Seq(Nat) /\ IsInjective(d.parents[x])
        /\ ToSet(d.parents[x]) = {y \in 1..n : d.part[y] = x}
  BY <1>1, SeqAt DEF PartsOk
<1>8. /\ Without(d.parents[p], q) \in Seq(Nat) /\ IsInjective(Without(d.parents[p], q))
      /\ ToSet(Without(d.parents[p], q)) = ToSet(d.parents[p]) \ {q}
  <2>1. d.parents[p] \in Seq(Nat) /\ IsInjective(d.parents[p])
    BY <1>1, <1>7
  <2>. HIDE DEF p
  <2>. QED
    BY <2>1, WithoutEffect
<1>9. /\ Append(d.parents[o], q) \in Seq(Nat) /\ IsInjective(Append(d.parents[o], q))
      /\ ToSet(Append(d.parents[o], q)) = ToSet(d.parents[o]) \union {q}
  <2>1. d.parents[o] \in Seq(Nat) /\ IsInjective(d.parents[o]) /\ q \notin ToSet(d.parents[o]) /\ q \in Nat
    BY <1>1, <1>7
  <2>. QED
    BY <2>1, AppendEffect
<1>10. \A x \in 1..n : /\ e.parents[x] \in Seq(Nat) /\ IsInjective(e.parents[x])
                       /\ ToSet(e.parents[x]) = {y \in 1..n : e.part[y] = x}
  <2>. TAKE x \in 1..n
  <2>1. CASE x = p
    BY <1>0, <1>1, <1>4, <1>6, <1>7, <1>8, <2>1, Zenon
  <2>2. CASE x = o
    BY <1>0, <1>1, <1>4, <1>6, <1>7, <1>9, <2>2, Zenon
  <2>3. CASE x # p /\ x # o
    <3>1. \A y \in 1..n : e.part[y] = x <=> d.part[y] = x
      BY <1>0, <1>4, <2>3
    <3>. QED
      BY <1>6, <1>7, <2>3, <3>1
  <2>. QED
    BY <2>1, <2>2, <2>3
<1>11. e.parents \in Seq(Seq(Nat)) /\ Len(e.parents) = n
  <2>1. e.parents = [x \in 1..n |-> e.parents[x]]
    BY <1>1, <1>3, <1>6 DEF ps
  <2>2. e.parents \in [1..n -> Seq(Nat)]
    BY <1>10, <2>1
  <2>. DEFINE T == Seq(Nat)
  <2>. HIDE DEF T
  <2>3. e.parents \in [1..n -> T] /\ n \in Nat
    BY <1>1, <2>2 DEF T
  <2>. HIDE DEF n
  <2>4. e.parents \in Seq(T) /\ Len(e.parents) = n
    BY <2>3, FunIsSeq
  <2>. QED
    BY <2>4 DEF T
<1>12. e \in ContactRecord
  BY <1>1, <1>3, <1>4, <1>5, <1>11, FieldsOf, RecordOf
<1>13. Sized(e)
  BY <1>3, <1>4, <1>11, <1>12 DEF Sized
<1>14. PartsOk(e)
  <2>1. Objects(e) = 1..n
    BY <1>4 DEF Objects
  <2>2. \A x \in 1..n : d.part[x] \in 1..n /\ (d.owner[x] # None => d.part[x] = x)
    BY <1>1 DEF PartsOk
  <2>3. \A x \in 1..n : e.part[x] \in 1..n /\ (e.owner[x] # None => e.part[x] = x)
    BY <1>1, <1>3, <1>4, <2>2, Zenon
  <2>. QED
    BY <1>10, <2>1, <2>3 DEF PartsOk
<1>. QED
  BY <1>1, <1>3, <1>4, <1>5, <1>13, <1>14 DEF e, Objects, Resolves

(* The whole of addContact() but for the tree.                             *)
LEMMA JoinedEffect ==
  ASSUME NEW c, Sound(c), NEW u \in Uids, NEW b \in Backends, NEW w1, Made(c, w1, u, b),
         NEW w, Alike(w1, w), w.active = w1.active, NEW o, o = Len(c.part) + 1
  PROVE  Joins(w, Joined(WithContact(w, o, u), o, u), u, o, c.placeholders[u])
<1>. DEFINE d == WithContact(w, o, u)
            q == c.placeholders[u]
<1>1. /\ Sized(w) /\ PartsOk(w) /\ o \in Objects(w) /\ o \in Nat /\ o # 0 /\ Objects(w) = Objects(c) \union {o}
      /\ w.placeholders = c.placeholders /\ w.part[o] = o /\ o \notin Objects(c)
      /\ \A x \in Objects(c) : w.part[x] = c.part[x] /\ w.owner[x] = c.owner[x]
      /\ 0 \notin Objects(w)
  BY AlikeIsSound DEF Made, Alike, Same
<1>2. /\ Sized(d) /\ PartsOk(d) /\ Objects(d) = Objects(w)
      /\ d.uid = w.uid /\ d.part = w.part /\ d.parents = w.parents /\ d.owner = w.owner
      /\ d.active = w.active /\ d.tree = w.tree /\ d.placeholders = w.placeholders
      /\ d.numbers = w.numbers /\ d.contacts = Append(w.contacts, o)
      /\ \A x \in Uids : d.byUid[x] = IF x = u THEN o ELSE w.byUid[x]
  <2>. HIDE DEF d
  <2>1. Lists(w, d, o, u)
    BY <1>1, ListedEffect DEF d
  <2>. QED
    BY <2>1 DEF Lists
<1>. HIDE DEF d
<1>3. CASE q = 0
  <2>1. Joins(w, d, u, o, q)
    BY <1>1, <1>2, <1>3 DEF Joins
  <2>2. d.placeholders[u] = 0
    BY <1>1, <1>2, <1>3
  <2>3. Joined(d, o, u) = d
    BY <2>2 DEF Joined
  <2>. HIDE DEF q
  <2>. QED
    BY <2>1, <2>3 DEF d, q
<1>4. CASE q # 0
  <2>1. q \in Objects(c) /\ c.owner[q] = None /\ c.part[q] \in Objects(c)
    BY <1>4 DEF Sound, HeldOk, Belongs, PartsOk
  <2>2. q \in Objects(d) /\ o \in Objects(d) /\ d.part[o] = o /\ d.part[q] # o /\ d.owner[q] = None
    <3>1. w.part[q] = c.part[q] /\ w.owner[q] = None /\ q \in Objects(w) /\ c.part[q] # o
      BY <1>1, <2>1
    <3>. QED
      BY <1>1, <1>2, <3>1
  <2>. DEFINE e == Resolved(d, q, o, u)
  <2>. HIDE DEF q, e
  <2>3. /\ Sized(e) /\ PartsOk(e) /\ Objects(e) = Objects(d)
        /\ e.uid = d.uid /\ e.owner = d.owner /\ e.active = d.active /\ e.tree = d.tree
        /\ e.numbers = d.numbers /\ e.contacts = d.contacts /\ e.byUid = d.byUid
        /\ \A x \in Uids : e.placeholders[x] = IF x = u THEN 0 ELSE d.placeholders[x]
        /\ \A x \in Objects(d) : e.part[x] = IF x = q THEN o ELSE d.part[x]
    <3>1. Resolves(d, e, q, o, u)
      BY <1>2, <2>2, MergedEffect DEF e
    <3>. QED
      BY <3>1 DEF Resolves
  <2>4. Joins(w, e, u, o, q)
    BY <1>1, <1>2, <2>3 DEF Joins
  <2>5. d.placeholders[u] = q
    BY <1>1, <1>2 DEF q
  <2>. QED
    BY <1>4, <2>4, <2>5 DEF e, d, q, Joined
<1>. QED
  BY <1>3, <1>4

(* A contact comes from a book: it is listed, found, and in the tree, and  *)
(* the placeholder of its uid, if there is one, is now this contact.       *)
LEMMA ItemAddedEffect ==
  ASSUME NEW c, Sound(c), role \in Roles, NEW b \in Backends, NEW u \in Uids, NEW p \in Payloads
  PROVE  Keeps(c, ItemAdded(c, b, u, p), b) /\ Evolves(c, ItemAdded(c, b, u, p))
<1>. DEFINE o == Len(c.part) + 1
            w1 == NewObject(c, u, b)
            w == fillContact(w1, o, p)
            q == c.placeholders[u]
            e == Joined(WithContact(w, o, u), o, u)
            z == [e EXCEPT !.tree = Inserted(@, Category(e, o, role), o)]
<1>1. Made(c, w1, u, b)
  BY NewObjectEffect DEF Sound
<1>2. Alike(w1, w) /\ w.active = w1.active
  <2>1. Sized(w1) /\ PartsOk(w1) /\ o \in Objects(w1)
    BY <1>1 DEF Made
  <2>. HIDE DEF w1, o
  <2>. QED
    BY <2>1, FillEffect
<1>. HIDE DEF w1, w
<1>3. Joins(w, e, u, o, q)
  BY <1>1, <1>2, JoinedEffect
<1>4. b # None
  BY ContactsAssumption
<1>5. /\ o \in Nat /\ o # 0 /\ o \notin Objects(c) /\ Objects(w) = Objects(c) \union {o}
      /\ Objects(c) \subseteq Nat \ {0}
      /\ \A x \in Objects(c) : /\ w.uid[x] = c.uid[x] /\ w.part[x] = c.part[x]
                               /\ w.owner[x] = c.owner[x] /\ w.active[x] = c.active[x]
      /\ w.uid[o] = u /\ w.part[o] = o /\ w.owner[o] = b /\ w.active[o] = TRUE
      /\ w.contacts = c.contacts /\ w.byUid = c.byUid /\ w.placeholders = c.placeholders
      /\ w.tree = c.tree
  BY <1>1, <1>2, AlikeIsSound DEF Made, Alike, Same
<1>6. ItemAdded(c, b, u, p) = z \/ ItemAdded(c, b, u, p) = c
  <2>1. ItemAdded(c, b, u, p) = addContact(w, o) \/ ItemAdded(c, b, u, p) = c
    BY DEF ItemAdded, w, w1
  <2>. HIDE DEF o
  <2>2. addContact(w, o) = z
    BY <1>5 DEF addContact, Joined, WithContact, Resolved
  <2>. HIDE DEF z
  <2>. QED
    BY <2>1, <2>2
<1>. HIDE DEF o, e
<1>7. e \in ContactRecord /\ Sized(e) /\ PartsOk(e) /\ o \in Objects(e)
  BY <1>3, <1>5 DEF Joins, Sized
<1>0. IsRec(e)
  BY <1>7, FieldsOf
<1>8. /\ z.tree = Inserted(e.tree, Category(e, o, role), o)
      /\ z.uid = e.uid /\ z.part = e.part /\ z.parents = e.parents /\ z.payload = e.payload
      /\ z.active = e.active /\ z.owner = e.owner /\ z.contacts = e.contacts
      /\ z.byUid = e.byUid /\ z.placeholders = e.placeholders /\ z.numbers = e.numbers
      /\ IsRec(z)
  BY <1>0 DEF IsRec, Fields
<1>. HIDE DEF z
<1>9. /\ Objects(z) = Objects(c) \union {o}
      /\ \A x \in Objects(c) : /\ z.uid[x] = c.uid[x] /\ z.owner[x] = c.owner[x]
                               /\ z.active[x] = c.active[x]
                               /\ z.part[x] = IF x = q THEN o ELSE c.part[x]
      /\ z.uid[o] = u /\ z.owner[o] = b /\ z.active[o] = TRUE
      /\ z.contacts = Append(c.contacts, o)
      /\ \A x \in Uids : /\ z.byUid[x] = IF x = u THEN o ELSE c.byUid[x]
                         /\ z.placeholders[x] = IF x = u THEN 0 ELSE c.placeholders[x]
  <2>1. /\ z.contacts = Append(c.contacts, o)
        /\ \A x \in Uids : /\ z.byUid[x] = IF x = u THEN o ELSE c.byUid[x]
                           /\ z.placeholders[x] = IF x = u THEN 0 ELSE c.placeholders[x]
    BY <1>3, <1>5, <1>8 DEF Joins
  <2>2. Objects(z) = Objects(c) \union {o} /\ z.uid[o] = u /\ z.owner[o] = b /\ z.active[o] = TRUE
    BY <1>3, <1>5, <1>8 DEF Joins, Objects
  <2>3. \A x \in Objects(c) : /\ z.uid[x] = c.uid[x] /\ z.owner[x] = c.owner[x]
                              /\ z.active[x] = c.active[x]
                              /\ z.part[x] = IF x = q THEN o ELSE c.part[x]
    BY <1>3, <1>5, <1>8 DEF Joins, Objects
  <2>. QED
    BY <2>1, <2>2, <2>3
<1>10. q # 0 => q \in Objects(c) \ Belongs(c)
  BY DEF Sound, HeldOk
<1>11. z.part[o] = o
  <2>1. q # o
    BY <1>5, <1>10
  <2>. QED
    BY <1>3, <1>5, <1>8, <2>1 DEF Joins
<1>. HIDE DEF q
<1>12. Belongs(z) = Belongs(c) \union {o} /\ Belongs(c) \subseteq Objects(c) /\ o \notin Belongs(c)
  BY <1>4, <1>5, <1>9 DEF Belongs
<1>13. TreeOk(z.tree, Belongs(z))
  <2>1. Category(e, o, role) \in Categories
    BY <1>7, CategoryTyped
  <2>2. Belongs(c) \in SUBSET Nat /\ o \in Nat \ Belongs(c) /\ TreeOk(c.tree, Belongs(c)) /\ e.tree = c.tree
    BY <1>3, <1>5, <1>12 DEF Sound, Joins
  <2>. QED
    BY <1>8, <1>12, <2>1, <2>2, InsertedEffect
<1>14. Sized(z) /\ PartsOk(z)
  <2>1. z.tree \in Seq(Branches)
    BY <1>13 DEF TreeOk
  <2>2. z \in ContactRecord
    BY <1>7, <1>8, <2>1, FieldsOf, RecordOf
  <2>3. Sized(z)
    BY <1>7, <1>8, <2>2 DEF Sized
  <2>4. PartsOk(z)
    BY <1>7, <1>8 DEF PartsOk, Objects
  <2>. QED
    BY <2>3, <2>4
<1>15. \A x \in Objects(c) : c.uid[x] \in Uids
  BY FieldsOf, SeqAt DEF Sound, Sized, Objects
<1>16. ListedOk(z)
  <2>1. IsInjective(z.contacts) /\ ToSet(z.contacts) = Belongs(z)
    <3>1. c.contacts \in Seq(Nat) /\ IsInjective(c.contacts) /\ ToSet(c.contacts) = Belongs(c)
      BY FieldsOf DEF Sound, Sized, ListedOk
    <3>. QED
      BY <1>5, <1>9, <1>12, <3>1, AppendEffect
  <2>2. ASSUME NEW x \in Uids, z.byUid[x] # 0
        PROVE  z.byUid[x] \in Belongs(z) /\ z.uid[z.byUid[x]] = x
    <3>1. CASE x = u
      BY <1>9, <1>12, <3>1
    <3>2. CASE x # u
      <4>1. z.byUid[x] = c.byUid[x] /\ c.byUid[x] \in Belongs(c) /\ c.uid[c.byUid[x]] = x
        BY <1>9, <2>2, <3>2 DEF Sound, ListedOk
      <4>. QED
        BY <1>9, <1>12, <4>1
    <3>. QED
      BY <3>1, <3>2
  <2>3. ASSUME NEW x \in Belongs(z)
        PROVE  z.byUid[z.uid[x]] # 0
    <3>1. CASE x = o
      BY <1>5, <1>9, <3>1
    <3>2. CASE x # o
      <4>1. x \in Belongs(c) /\ z.uid[x] = c.uid[x] /\ c.uid[x] \in Uids /\ c.byUid[c.uid[x]] # 0
        BY <1>9, <1>12, <1>15, <2>3, <3>2 DEF Sound, ListedOk
      <4>. QED
        BY <1>5, <1>9, <4>1
    <3>. QED
      BY <3>1, <3>2
  <2>. QED
    BY <2>1, <2>2, <2>3 DEF ListedOk
<1>17. HeldOk(z)
  <2>1. ASSUME NEW x \in Uids, z.placeholders[x] # 0
        PROVE  /\ z.placeholders[x] \in Objects(z) \ Belongs(z)
               /\ z.uid[z.placeholders[x]] = x /\ z.byUid[x] = 0
    <3>1. x # u /\ z.placeholders[x] = c.placeholders[x] /\ z.byUid[x] = c.byUid[x]
      BY <1>9, <2>1
    <3>2. /\ c.placeholders[x] \in Objects(c) \ Belongs(c) /\ c.uid[c.placeholders[x]] = x
          /\ c.byUid[x] = 0
      BY <2>1, <3>1 DEF Sound, HeldOk
    <3>. QED
      BY <1>5, <1>9, <1>12, <3>1, <3>2
  <2>2. ASSUME NEW x \in Objects(z) \ Belongs(z)
        PROVE  \/ z.placeholders[z.uid[x]] = x
               \/ z.part[x] \in Belongs(z) /\ z.uid[z.part[x]] = z.uid[x]
    <3>1. x \in Objects(c) \ Belongs(c) /\ z.uid[x] = c.uid[x] /\ c.uid[x] \in Uids
      BY <1>9, <1>12, <1>15, <2>2
    <3>2. CASE x = q
      <4>1. z.part[x] = o /\ c.uid[x] = u
        <5>1. q # 0
          BY <1>5, <3>1, <3>2
        <5>2. c.uid[q] = u
          BY <5>1 DEF Sound, HeldOk, q
        <5>. QED
          BY <1>9, <3>1, <3>2, <5>2
      <4>. QED
        BY <1>9, <1>12, <3>1, <4>1
    <3>3. CASE x # q
      <4>1. z.part[x] = c.part[x]
        BY <1>9, <3>1, <3>3
      <4>2. CASE c.placeholders[c.uid[x]] = x
        <5>1. c.uid[x] # u
          BY <3>3, <4>2 DEF q
        <5>. QED
          BY <1>9, <3>1, <4>2, <5>1
      <4>3. CASE c.part[x] \in Belongs(c) /\ c.uid[c.part[x]] = c.uid[x]
        BY <1>9, <1>12, <3>1, <4>1, <4>3
      <4>. QED
        BY <3>1, <4>2, <4>3 DEF Sound, HeldOk
    <3>. QED
      BY <3>2, <3>3
  <2>. QED
    BY <2>1, <2>2 DEF HeldOk
<1>18. Sound(z)
  BY <1>13, <1>14, <1>16, <1>17 DEF Sound
<1>19. Keeps(c, z, b)
  BY <1>9, <1>12, <1>18 DEF Keeps
<1>20. Keeps(c, c, b) /\ Evolves(c, c)
  BY SameEvolves DEF Keeps, Sound, Same
<1>21. Evolves(c, z)
  <2>1. o = Len(c.part) + 1 /\ z.numbers = fillContact(w1, o, p).numbers
    BY <1>3, <1>8 DEF Joins, w, o
  <2>. QED
    BY <1>1, <1>9, <1>12, <1>14, <2>1, ItemEvolves
<1>. QED
  BY <1>6, <1>19, <1>20, <1>21

-----------------------------------------------------------------------------
(* Loops.                                                                  *)

LEMMA KeepsTwice ==
  ASSUME NEW c, NEW d, NEW e, NEW b, Keeps(c, d, b), Keeps(d, e, b)
  PROVE  Keeps(c, e, b)
BY DEF Keeps

(* The items of a fetch, one by one, in whichever order they come.         *)
Received(b) == FoldLeft(LAMBDA c, u : ItemAdded(c, b, u, sent[b][u]), m,
                        SetToSeq({u \in Uids : sent[b][u] # None}))

LEMMA ItemsEffect ==
  ASSUME Sound(m), role \in Roles, NEW b \in Backends, sent[b] \in Held
  PROVE  Keeps(m, Received(b), b) /\ Evolves(m, Received(b))
<1>. DEFINE U == {u \in Uids : sent[b][u] # None}
            s == SetToSeq(U)
            N == Len(s)
            D == {c \in ContactRecord : Keeps(m, c, b) /\ Evolves(m, c)}
            Each(c, u) == ItemAdded(c, b, u, sent[b][u])
            each == [i \in 1..N |-> [c \in D |-> Each(c, s[i])]]
            Folds(g) == g = [r \in SUBSET (DOMAIN s) |->
                               IF r = {} THEN m ELSE Each(g[r \ {Max(r)}], s[Max(r)])]
            f == CHOOSE g : Folds(g)
            result == FoldLeft(LAMBDA c, u : ItemAdded(c, b, u, sent[b][u]), m, s)
<1>1. N \in Nat /\ DOMAIN s = 1..N /\ \A i \in 1..N : s[i] \in Uids /\ sent[b][s[i]] \in Payloads
  <2>1. IsFiniteSet(U)
    BY ContactsAssumption, FS_Subset
  <2>2. s \in [1..Cardinality(U) -> U]
    BY <2>1, FS_CardinalityType DEF SetToSeq, ExistsBijection, Bijection, Injection
  <2>3. Cardinality(U) \in Nat
    BY <2>1, FS_CardinalityType
  <2>4. \A u \in U : u \in Uids /\ sent[b][u] \in Payloads
    BY DEF Held
  <2>. HIDE DEF U, s
  <2>. QED
    BY <2>2, <2>3, <2>4, FunIsSeq
<1>2. result = f[DOMAIN s]
  BY DEF FoldLeft, MapThenFoldSet
<1>. HIDE DEF s
<1>3. m \in D
  BY SameEvolves DEF Keeps, Sound, Sized, Same
<1>4. ASSUME NEW c \in D, NEW i \in 1..N  PROVE Each(c, s[i]) \in D
  <2>1. Keeps(m, c, b) /\ Evolves(m, c) /\ Sound(c)
    BY DEF Keeps
  <2>2. Keeps(c, Each(c, s[i]), b) /\ Evolves(c, Each(c, s[i]))
    BY <1>1, <2>1, ItemAddedEffect
  <2>. HIDE DEF Each
  <2>3. Keeps(m, Each(c, s[i]), b) /\ Each(c, s[i]) \in ContactRecord
    BY <2>1, <2>2, KeepsTwice DEF Keeps, Sound, Sized
  <2>4. Evolves(m, Each(c, s[i]))
    BY <2>1, <2>2, EvolvesTwice DEF Keeps, Sound
  <2>. QED
    BY <2>3, <2>4
<1>5. each \in [1..N -> [D -> D]]
  <2>. HIDE DEF D, Each
  <2>. QED
    BY <1>4
<1>6. Folds(f)
  <2>1. PICK g \in [SUBSET (1..N) -> D] : IsFold(g, N, m, each)
    <3>. HIDE DEF N, each, D
    <3>. QED
      BY <1>1, <1>3, <1>5, FoldExists
  <2>. HIDE DEF D, Each
  <2>2. \A r \in SUBSET (1..N) : r # {} => Max(r) \in 1..N /\ g[r \ {Max(r)}] \in D
    BY <1>1, MaxIsMember
  <2>3. \A r \in SUBSET (1..N) : r # {} =>
          each[Max(r)][g[r \ {Max(r)}]] = Each(g[r \ {Max(r)}], s[Max(r)])
    BY <1>1, <2>2
  <2>4. Folds(g)
    <3>. HIDE DEF each
    <3>. QED
      BY <1>1, <2>1, <2>3, Zenon DEF IsFold
  <2>. HIDE DEF Folds
  <2>. QED
    BY <2>4
<1>7. f[1..0] = m /\ \A k \in 1..N : f[1..k] = Each(f[1..(k - 1)], s[k])
  <2>. HIDE DEF f, Each
  <2>1. \A r \in SUBSET (1..N) :
          f[r] = IF r = {} THEN m ELSE Each(f[r \ {Max(r)}], s[Max(r)])
    BY <1>1, <1>6, Zenon
  <2>2. 1..0 = {} /\ 1..0 \in SUBSET (1..N)
    OBVIOUS
  <2>3. f[1..0] = m
    BY <2>1, <2>2
  <2>4. ASSUME NEW k \in 1..N  PROVE f[1..k] = Each(f[1..(k - 1)], s[k])
    <3>1. /\ 1..k \in SUBSET (1..N) /\ 1..k # {} /\ Max(1..k) = k
          /\ (1..k) \ {k} = 1..(k - 1)
      BY <1>1, UpTo
    <3>2. f[1..k] = Each(f[(1..k) \ {Max(1..k)}], s[Max(1..k)])
      BY <2>1, <3>1
    <3>. QED
      BY <3>1, <3>2
  <2>. QED
    BY <2>3, <2>4
<1>. HIDE DEF f, each, Folds, D, Each, N
<1>8. f[1..N] \in D
  <2>1. f[1..0] \in D
    BY <1>3, <1>7
  <2>2. \A k \in 1..N : f[1..(k - 1)] \in D => f[1..k] \in D
    BY <1>4, <1>7
  <2>. QED
    BY <1>1, <2>1, <2>2, FoldValues
<1>9. result \in D
  BY <1>1, <1>2, <1>8, Zenon
<1>. HIDE DEF result
<1>10. Keeps(m, result, b) /\ Evolves(m, result)
  BY <1>9 DEF D
<1>11. Received(b) = result
  BY Zenon DEF Received, result, s
<1>. QED
  BY <1>10, <1>11, Zenon

(* The tree is built again from the list, under the categories of the      *)
(* other role.                                                             *)
LEMMA ReloadedTree ==
  ASSUME Sound(m), NEW r \in Roles
  PROVE  TreeOk(reloadCategories(m, r).tree, Belongs(m))
<1>. DEFINE s == m.contacts
            N == Len(s)
            D == Seq(Branches)
            Each(t, o) == Inserted(t, Category(m, o, r), o)
            First(k) == {s[i] : i \in 1..k}
            E == {t \in D : Rowed(t)}
            each == [i \in 1..N |-> [t \in E |-> Each(t, s[i])]]
            Folds(g) == g = [q \in SUBSET (DOMAIN s) |->
                               IF q = {} THEN <<>> ELSE Each(g[q \ {Max(q)}], s[Max(q)])]
            f == CHOOSE g : Folds(g)
            Good(k) == TreeOk(f[1..k], First(k))
<1>1. /\ s \in Seq(Nat) /\ N \in Nat /\ DOMAIN s = 1..N /\ IsInjective(s) /\ ToSet(s) = Belongs(m)
      /\ \A i \in 1..N : s[i] \in Nat /\ s[i] \in Objects(m)
  BY FieldsOf DEF Sound, Sized, ListedOk, Belongs, ToSet
<1>2. reloadCategories(m, r).tree = f[DOMAIN s]
  <2>1. reloadCategories(m, r).tree = FoldLeft(LAMBDA t, o : Inserted(t, Category(m, o, r), o), <<>>, s)
    BY FieldsOf DEF reloadCategories, Sound, Sized, IsRec, Fields
  <2>. QED
    BY <2>1 DEF FoldLeft, MapThenFoldSet
<1>. HIDE DEF s
<1>3. <<>> \in E /\ TreeOk(<<>>, {})
  BY DEF Rowed, TreeOk
<1>4. ASSUME NEW i \in 1..N  PROVE s[i] \in Nat /\ Category(m, s[i], r) \in Categories
  BY <1>1, CategoryTyped DEF Sound
<1>5. ASSUME NEW t \in E, NEW i \in 1..N  PROVE Each(t, s[i]) \in E
  <2>1. PICK k \in Nat : Grows(t, Each(t, s[i]), k, Category(m, s[i], r), s[i])
    BY <1>4, InsertedGrows
  <2>. QED
    BY <2>1, GrowsRowed
<1>6. each \in [1..N -> [E -> E]]
  <2>. HIDE DEF E, Each
  <2>. QED
    BY <1>5
<1>7. Folds(f)
  <2>1. PICK g \in [SUBSET (1..N) -> E] : IsFold(g, N, <<>>, each)
    <3>. HIDE DEF N, each, E
    <3>. QED
      BY <1>1, <1>3, <1>6, FoldExists
  <2>. HIDE DEF E, Each
  <2>2. \A q \in SUBSET (1..N) : q # {} => Max(q) \in 1..N /\ g[q \ {Max(q)}] \in E
    BY <1>1, MaxIsMember
  <2>3. \A q \in SUBSET (1..N) : q # {} =>
          each[Max(q)][g[q \ {Max(q)}]] = Each(g[q \ {Max(q)}], s[Max(q)])
    BY <1>1, <2>2
  <2>4. Folds(g)
    <3>. HIDE DEF each
    <3>. QED
      BY <1>1, <2>1, <2>3, Zenon DEF IsFold
  <2>. HIDE DEF Folds
  <2>. QED
    BY <2>4
<1>8. f[1..0] = <<>> /\ \A k \in 1..N : f[1..k] = Each(f[1..(k - 1)], s[k])
  <2>. HIDE DEF f, Each
  <2>1. \A q \in SUBSET (1..N) :
          f[q] = IF q = {} THEN <<>> ELSE Each(f[q \ {Max(q)}], s[Max(q)])
    BY <1>1, <1>7, Zenon
  <2>2. 1..0 = {} /\ 1..0 \in SUBSET (1..N)
    OBVIOUS
  <2>3. f[1..0] = <<>>
    BY <2>1, <2>2
  <2>4. ASSUME NEW k \in 1..N  PROVE f[1..k] = Each(f[1..(k - 1)], s[k])
    <3>1. /\ 1..k \in SUBSET (1..N) /\ 1..k # {} /\ Max(1..k) = k
          /\ (1..k) \ {k} = 1..(k - 1)
      BY <1>1, UpTo
    <3>2. f[1..k] = Each(f[(1..k) \ {Max(1..k)}], s[Max(1..k)])
      BY <2>1, <3>1
    <3>. QED
      BY <3>1, <3>2
  <2>. QED
    BY <2>3, <2>4
<1>. HIDE DEF f, each, Folds, E
<1>9. ASSUME NEW k \in Nat, k + 1 =< N, Good(k)  PROVE Good(k + 1)
  <2>1. k + 1 \in 1..N /\ k + 1 - 1 = k
    BY <1>1, <1>9
  <2>2. f[1..(k + 1)] = Each(f[1..k], s[k + 1])
    BY <1>8, <2>1
  <2>3. First(k + 1) = First(k) \union {s[k + 1]}
    <3>1. 1..(k + 1) = 1..k \union {k + 1}
      BY <1>9
    <3>. QED
      BY <3>1
  <2>4. First(k) \in SUBSET Nat /\ s[k + 1] \in Nat \ First(k)
    <3>1. \A i \in 1..k : i \in 1..N /\ i # k + 1
      BY <1>9, <1>1
    <3>2. \A i \in 1..k : s[i] \in Nat /\ s[i] # s[k + 1]
      BY <1>1, <2>1, <3>1 DEF IsInjective
    <3>. QED
      BY <1>4, <2>1, <3>2
  <2>5. TreeOk(f[1..k], First(k)) /\ Category(m, s[k + 1], r) \in Categories
    BY <1>4, <1>9, <2>1
  <2>. HIDE DEF First
  <2>. QED
    BY <2>2, <2>3, <2>4, <2>5, InsertedEffect
<1>10. Good(N)
  <2>. DEFINE K == {k \in Nat : k =< N => Good(k)}
  <2>1. 0 \in K
    <3>1. First(0) = {}
      OBVIOUS
    <3>. QED
      BY <1>3, <1>8, <3>1
  <2>. HIDE DEF Good
  <2>2. ASSUME NEW k \in Nat, k \in K  PROVE k + 1 \in K
    <3>1. k + 1 =< N => k =< N
      BY <1>1
    <3>. QED
      BY <1>9, <2>2, <3>1
  <2>3. Nat \subseteq K
    <3>. HIDE DEF K
    <3>. QED
      BY <2>1, <2>2, Induction
  <2>. QED
    BY <1>1, <2>3
<1>11. First(N) = Belongs(m)
  BY <1>1 DEF ToSet
<1>. HIDE DEF First
<1>. QED
  BY <1>1, <1>2, <1>10, <1>11

(* Sorting the dock by another role only changes the tree.                 *)
LEMMA ReloadEffect ==
  ASSUME Sound(m), NEW r \in Roles, NEW b
  PROVE  Keeps(m, reloadCategories(m, r), b) /\ Evolves(m, reloadCategories(m, r))
<1>. DEFINE d == reloadCategories(m, r)
<1>1. TreeOk(d.tree, Belongs(m))
  BY ReloadedTree
<1>2. m \in ContactRecord
  BY DEF Sound, Sized
<1>0. IsRec(m)
  BY <1>2, FieldsOf
<1>3. /\ d.uid = m.uid /\ d.part = m.part /\ d.parents = m.parents /\ d.payload = m.payload
      /\ d.active = m.active /\ d.owner = m.owner /\ d.contacts = m.contacts
      /\ d.byUid = m.byUid /\ d.placeholders = m.placeholders /\ d.numbers = m.numbers
      /\ IsRec(d)
  BY <1>0, Zenon DEF reloadCategories, IsRec, Fields
<1>. HIDE DEF d
<1>4. d \in ContactRecord
  <2>1. d.tree \in Seq(Branches)
    BY <1>1 DEF TreeOk
  <2>. QED
    BY <1>2, <1>3, <2>1, FieldsOf, RecordOf
<1>5. Objects(d) = Objects(m) /\ Belongs(d) = Belongs(m)
  BY <1>3 DEF Objects, Belongs
<1>6. Sized(d)
  BY <1>3, <1>4 DEF Sound, Sized
<1>7. PartsOk(d)
  BY <1>3, <1>5 DEF Sound, PartsOk
<1>8. ListedOk(d) /\ HeldOk(d)
  BY <1>3, <1>5 DEF Sound, ListedOk, HeldOk
<1>9. Sound(d)
  BY <1>1, <1>5, <1>6, <1>7, <1>8 DEF Sound
<1>10. Keeps(m, d, b)
  BY <1>3, <1>5, <1>9 DEF Keeps
<1>11. Evolves(m, d)
  BY <1>3, <1>5, QuietEvolves DEF Sound
<1>. QED
  BY <1>10, <1>11 DEF d

(* Switching changes what is active and nothing else.                      *)
LEMMA ActiveIsAlike ==
  ASSUME NEW c, Sized(c), NEW w \in Seq(BOOLEAN), Len(w) = Len(c.part)
  PROVE  /\ Alike(c, [c EXCEPT !.active = w]) /\ [c EXCEPT !.active = w].active = w
         /\ [c EXCEPT !.active = w].numbers = c.numbers
<1>. DEFINE d == [c EXCEPT !.active = w]
<1>1. c \in ContactRecord
  BY DEF Sized
<1>0. IsRec(c)
  BY <1>1, FieldsOf
<1>2. /\ d.active = w /\ Same(c, d) /\ d.payload = c.payload /\ d.numbers = c.numbers
      /\ IsRec(d)
  BY <1>0 DEF IsRec, Fields, Same
<1>. HIDE DEF d
<1>3. d \in ContactRecord
  BY <1>1, <1>2, FieldsOf, RecordOf DEF Same
<1>4. Alike(c, d) /\ d.active = w /\ d.numbers = c.numbers
  BY <1>2, <1>3 DEF Alike, Sized, Same
<1>. QED
  BY <1>4 DEF d

(* A deleted contact becomes inactive; it alone, for its part is its own.  *)
LEMMA SetActiveEffect ==
  ASSUME NEW c, Sound(c), NEW o \in Belongs(c), NEW on \in BOOLEAN
  PROVE  /\ Alike(c, setActive(c, o, on)) /\ setActive(c, o, on).numbers = c.numbers
         /\ \A x \in Objects(c) \ {o} : setActive(c, o, on).active[x] = c.active[x]
<1>. DEFINE w == [c.active EXCEPT ![o] = on]
            n == Len(c.part)
<1>1. /\ n \in Nat /\ c.active \in Seq(BOOLEAN) /\ Len(c.active) = n /\ Objects(c) = 1..n
      /\ c.part[o] = o
  BY FieldsOf DEF Sound, Sized, PartsOk, Belongs, Objects
<1>2. setActive(c, o, on) = [c EXCEPT !.active = w]
  BY <1>1 DEF setActive
<1>3. /\ w \in Seq(BOOLEAN) /\ Len(w) = n
      /\ \A x \in 1..n : w[x] = IF x = o THEN on ELSE c.active[x]
  <2>. HIDE DEF n
  <2>. QED
    BY <1>1, ChangedAt
<1>. HIDE DEF w
<1>4. /\ Alike(c, [c EXCEPT !.active = w]) /\ [c EXCEPT !.active = w].active = w
      /\ [c EXCEPT !.active = w].numbers = c.numbers
  BY <1>3, ActiveIsAlike DEF Sound
<1>5. /\ Alike(c, setActive(c, o, on)) /\ setActive(c, o, on).active = w
      /\ setActive(c, o, on).numbers = c.numbers
  BY <1>2, <1>4
<1>. QED
  BY <1>1, <1>3, <1>5

(* A book switches its own contacts.                                       *)
LEMMA AllActiveEffect ==
  ASSUME NEW c, Sound(c), NEW b \in Backends, NEW on \in BOOLEAN
  PROVE  /\ Alike(c, AllActive(c, b, on)) /\ AllActive(c, b, on).numbers = c.numbers
         /\ \A x \in Belongs(c) : IF c.owner[x] = b THEN AllActive(c, b, on).active[x] = on
                                  ELSE AllActive(c, b, on).active[x] = c.active[x]
<1>. DEFINE w == [p \in DOMAIN c.active |->
                    IF \E o \in OwnedBy(c, b) : c.part[o] = p THEN on ELSE c.active[p]]
            n == Len(c.part)
<1>1. /\ n \in Nat /\ DOMAIN c.active = 1..n /\ Objects(c) = 1..n
      /\ \A p \in 1..n : c.active[p] \in BOOLEAN
  <2>1. c.active \in Seq(BOOLEAN) /\ Len(c.active) = n /\ c.part \in Seq(Nat)
    BY FieldsOf DEF Sound, Sized
  <2>. QED
    BY <2>1, SeqAt DEF Objects
<1>2. AllActive(c, b, on) = [c EXCEPT !.active = w]
  BY DEF AllActive
<1>3. w \in [1..n -> BOOLEAN]
  BY <1>1
<1>4. w \in Seq(BOOLEAN) /\ Len(w) = n
  <2>. HIDE DEF w, n
  <2>. QED
    BY <1>1, <1>3, FunIsSeq
<1>5. b # None
  BY ContactsAssumption
<1>6. ASSUME NEW x \in Belongs(c)
      PROVE  w[x] = IF c.owner[x] = b THEN on ELSE c.active[x]
  <2>1. x \in Objects(c) /\ c.part[x] = x
    BY DEF Sound, PartsOk, Belongs
  <2>2. \A o \in OwnedBy(c, b) : c.part[o] = o /\ c.owner[o] = b
    BY <1>5 DEF OwnedBy, Sound, PartsOk
  <2>3. (\E o \in OwnedBy(c, b) : c.part[o] = x) <=> c.owner[x] = b
    BY <2>1, <2>2 DEF OwnedBy
  <2>. QED
    BY <1>1, <2>1, <2>3
<1>. HIDE DEF w
<1>7. /\ Alike(c, [c EXCEPT !.active = w]) /\ [c EXCEPT !.active = w].active = w
      /\ [c EXCEPT !.active = w].numbers = c.numbers
  BY <1>4, ActiveIsAlike DEF Sound
<1>8. /\ Alike(c, AllActive(c, b, on)) /\ AllActive(c, b, on).active = w
      /\ AllActive(c, b, on).numbers = c.numbers
  BY <1>2, <1>7
<1>. QED
  BY <1>6, <1>8

(* A number is read again with the contact its hash names.                 *)
LEMMA HashEffect ==
  ASSUME NEW c, Sound(c), NEW h \in Hashes
  PROVE  /\ Alike(c, fromHash(c, h)[1]) /\ fromHash(c, h)[1].active = c.active
         /\ fromHash(c, h)[2] \in Nat
<1>1. h.uri \in Uris /\ h.uid \in Uids \union {None}
  BY DEF Hashes
<1>2. PICK o : o = IF h.uid = None THEN 0 ELSE c.byUid[h.uid]
  OBVIOUS
<1>3. fromHash(c, h) = getNumber(c, h.uri, o)
  BY <1>2 DEF fromHash
<1>4. Sized(c) /\ Len(c.part) \in Nat /\ Objects(c) = 1..Len(c.part)
  BY FieldsOf DEF Sound, Sized, Objects
<1>5. h.uid # None => c.byUid[h.uid] = 0 \/ c.byUid[h.uid] \in Objects(c)
  BY <1>1 DEF Sound, ListedOk, Belongs
<1>6. o \in 0..Len(c.part)
  BY <1>2, <1>4, <1>5
<1>. QED
  BY <1>1, <1>3, <1>4, <1>6, NumberEffect

(* What is read of a list of hashes.                                       *)
Reads(c, x) == /\ Alike(c, x[1]) /\ x[1].active = c.active /\ x[2] \in Stored

(* One more hash is read. *)
Added(x, h) ==
  LET r == fromHash(x[1], h)
  IN <<r[1], [n \in DOMAIN x[2] \union {r[2]} |-> IF n = r[2] THEN h ELSE x[2][n]],
       Append(x[3], r[2])>>

(* Reading one hash keeps what reading the list keeps.                     *)
LEMMA AddedReads ==
  ASSUME NEW c, Sound(c), NEW x, Reads(c, x), NEW h \in Hashes
  PROVE  Reads(c, Added(x, h))
<1>. DEFINE r == fromHash(x[1], h)
            w == [n \in DOMAIN x[2] \union {r[2]} |-> IF n = r[2] THEN h ELSE x[2][n]]
<1>1. Sound(x[1])
  BY AlikeIsSound DEF Reads
<1>2. Alike(x[1], r[1]) /\ r[1].active = x[1].active /\ r[2] \in Nat
  BY <1>1, HashEffect
<1>3. Added(x, h)[1] = r[1] /\ Added(x, h)[2] = w
  BY DEF Added
<1>. HIDE DEF r
<1>4. PICK S \in SUBSET Nat : x[2] \in [S -> Hashes]
  BY DEF Reads, Stored
<1>5. w \in [S \union {r[2]} -> Hashes] /\ S \union {r[2]} \in SUBSET Nat
  BY <1>2, <1>4
<1>. HIDE DEF w
<1>6. w \in Stored
  BY <1>5 DEF Stored
<1>7. Alike(c, r[1]) /\ r[1].active = c.active
  BY <1>2 DEF Reads, Alike, Same
<1>. QED
  BY <1>3, <1>6, <1>7 DEF Reads

LEMMA TripleIn ==
  ASSUME NEW A, NEW B, NEW C, NEW x \in A, NEW y \in B, NEW z \in C
  PROVE  <<x, y, z>> \in A \X B \X C
OBVIOUS

(* g is the reading of a list, hash by hash.                               *)
ReadBy(g, c, uids, list) ==
  /\ g[0] = <<c, uids, <<>>>> /\ g[Len(list)] = NumbersOf(c, uids, list)
  /\ \A k \in 1..Len(list) : g[k] = Added(g[k - 1], list[k])

(* serialisedToList() changes nothing but the numbers.                     *)
LEMMA NumbersEffect ==
  ASSUME NEW c, Sound(c), NEW uids \in Stored, NEW list \in Seq(Hashes)
  PROVE  Reads(c, NumbersOf(c, uids, list)) /\ \E g : ReadBy(g, c, uids, list)
<1>. DEFINE N == Len(list)
            D == ContactRecord \X Stored \X Seq(Nat)
            E == {x \in D : Reads(c, x)}
            start == <<c, uids, <<>>>>
            each == [i \in 1..N |-> [x \in E |-> Added(x, list[i])]]
            Folds(g) == g = [r \in SUBSET (DOMAIN list) |->
                               IF r = {} THEN start ELSE Added(g[r \ {Max(r)}], list[Max(r)])]
            f == CHOOSE g : Folds(g)
<1>1. N \in Nat /\ DOMAIN list = 1..N /\ \A i \in 1..N : list[i] \in Hashes
  OBVIOUS
<1>2. NumbersOf(c, uids, list) = f[DOMAIN list]
  BY DEF NumbersOf, FoldLeft, MapThenFoldSet, Added
<1>3. start \in E
  <2>1. c \in ContactRecord /\ Reads(c, start) /\ <<>> \in Seq(Nat)
    BY DEF Sound, Sized, Reads, Alike, Same
  <2>2. start \in D
    BY <2>1, TripleIn
  <2>. QED
    BY <2>1, <2>2
<1>4. ASSUME NEW x \in E, NEW i \in 1..N  PROVE Added(x, list[i]) \in E
  <2>1. Reads(c, x) /\ Reads(c, Added(x, list[i]))
    BY <1>1, AddedReads
  <2>2. x[3] \in Seq(Nat)
    OBVIOUS
  <2>. DEFINE r == fromHash(x[1], list[i])
              w == [n \in DOMAIN x[2] \union {r[2]} |-> IF n = r[2] THEN list[i] ELSE x[2][n]]
  <2>3. r[2] \in Nat
    <3>1. Sound(x[1])
      BY <2>1, AlikeIsSound DEF Reads
    <3>. QED
      BY <1>1, <3>1, HashEffect
  <2>4. Added(x, list[i]) = <<r[1], w, Append(x[3], r[2])>>
    BY <2>2 DEF Added
  <2>. HIDE DEF r, w
  <2>5. r[1] \in ContactRecord /\ w \in Stored
    BY <2>1, <2>4 DEF Reads, Alike, Sized
  <2>6. Append(x[3], r[2]) \in Seq(Nat)
    BY <2>2, <2>3
  <2>. DEFINE y == Append(x[3], r[2])
              a == r[1]
              A == ContactRecord
              C == Seq(Nat)
  <2>7. Added(x, list[i]) \in D
    <3>1. a \in A /\ w \in Stored /\ y \in C
      BY <2>5, <2>6
    <3>2. Added(x, list[i]) = <<a, w, y>>
      BY <2>4
    <3>3. D = A \X Stored \X C
      OBVIOUS
    <3>. HIDE DEF a, A, y, C, D, E
    <3>4. <<a, w, y>> \in A \X Stored \X C
      BY <3>1, TripleIn
    <3>. QED
      BY <3>2, <3>3, <3>4
  <2>. QED
    BY <2>1, <2>7
<1>5. each \in [1..N -> [E -> E]]
  <2>. HIDE DEF E
  <2>. QED
    BY <1>4
<1>. HIDE DEF start
<1>6. Folds(f)
  <2>1. PICK g \in [SUBSET (1..N) -> E] : IsFold(g, N, start, each)
    <3>. HIDE DEF N, each, E
    <3>. QED
      BY <1>1, <1>3, <1>5, FoldExists
  <2>. HIDE DEF E
  <2>2. \A r \in SUBSET (1..N) : r # {} => Max(r) \in 1..N /\ g[r \ {Max(r)}] \in E
    BY <1>1, MaxIsMember
  <2>3. \A r \in SUBSET (1..N) : r # {} =>
          each[Max(r)][g[r \ {Max(r)}]] = Added(g[r \ {Max(r)}], list[Max(r)])
    BY <1>1, <2>2
  <2>4. Folds(g)
    <3>. HIDE DEF each
    <3>. QED
      BY <1>1, <2>1, <2>3, Zenon DEF IsFold
  <2>. HIDE DEF Folds
  <2>. QED
    BY <2>4
<1>7. f[1..0] = start /\ \A k \in 1..N : f[1..k] = Added(f[1..(k - 1)], list[k])
  <2>. HIDE DEF f
  <2>1. \A r \in SUBSET (1..N) :
          f[r] = IF r = {} THEN start ELSE Added(f[r \ {Max(r)}], list[Max(r)])
    BY <1>1, <1>6, Zenon
  <2>2. 1..0 = {} /\ 1..0 \in SUBSET (1..N)
    OBVIOUS
  <2>3. f[1..0] = start
    BY <2>1, <2>2
  <2>4. ASSUME NEW k \in 1..N  PROVE f[1..k] = Added(f[1..(k - 1)], list[k])
    <3>1. /\ 1..k \in SUBSET (1..N) /\ 1..k # {} /\ Max(1..k) = k
          /\ (1..k) \ {k} = 1..(k - 1)
      BY <1>1, UpTo
    <3>2. f[1..k] = Added(f[(1..k) \ {Max(1..k)}], list[Max(1..k)])
      BY <2>1, <3>1
    <3>. QED
      BY <3>1, <3>2
  <2>. QED
    BY <2>3, <2>4
<1>. HIDE DEF f, each, Folds, E, N
<1>8. f[1..N] \in E
  <2>1. f[1..0] \in E
    BY <1>3, <1>7
  <2>2. \A k \in 1..N : f[1..(k - 1)] \in E => f[1..k] \in E
    BY <1>4, <1>7
  <2>. QED
    BY <1>1, <2>1, <2>2, FoldValues
<1>9. NumbersOf(c, uids, list) \in E
  BY <1>1, <1>2, <1>8
<1>10. \E g : ReadBy(g, c, uids, list)
  <2>. DEFINE g == [k \in 0..N |-> f[1..k]]
  <2>1. g[0] = start /\ g[N] = NumbersOf(c, uids, list)
    BY <1>1, <1>2, <1>7
  <2>2. ASSUME NEW k \in 1..N  PROVE g[k] = Added(g[k - 1], list[k])
    <3>1. k \in 0..N /\ k - 1 \in 0..N
      BY <1>1
    <3>2. g[k] = f[1..k] /\ g[k - 1] = f[1..(k - 1)]
      BY <3>1
    <3>. QED
      BY <1>7, <3>2, Zenon
  <2>. HIDE DEF g
  <2>3. ReadBy(g, c, uids, list)
    BY <2>1, <2>2 DEF ReadBy, start, N
  <2>. QED
    BY <2>3
<1>. QED
  BY <1>9, <1>10 DEF E

-----------------------------------------------------------------------------
(* The switches of the books.                                              *)

Switches == {"enabled", "wasEnabled", "fetch", "m"}
IsSwitches(s) == s = [f \in Switches |-> s[f]]

(* The books in s, when those in K are known.                              *)
SwitchesIn(s, K) ==
  /\ IsSwitches(s)
  /\ s.enabled \in [Backends -> BOOLEAN] /\ s.wasEnabled \in [Backends -> BOOLEAN]
  /\ s.fetch \in [Backends -> {"idle", "asked", "sent"}]
  /\ Sound(s.m) /\ Belongs(s.m) = Belongs(m) /\ Same(m, s.m) /\ s.m.numbers = m.numbers
  /\ Live(s.m, s.enabled, gone) /\ Loaded(s.m, s.enabled, s.wasEnabled)
  /\ \A b \in Backends :
       /\ ~(s.enabled[b] /\ s.wasEnabled[b])
       /\ s.fetch[b] # "idle" \/ mail[b] # <<>> => s.enabled[b] \/ s.wasEnabled[b]
       /\ s.enabled[b] \/ s.wasEnabled[b] => b \in K

(* b is switched to on, the others are left alone.                         *)
Sets(s, t, b, on) ==
  \A x \in Backends : IF x = b THEN t.enabled[x] = on ELSE t.enabled[x] = s.enabled[x]

(* What belongs to a book is owned by one.                                 *)
LEMMA OwnersTyped ==
  ASSUME NEW c, Sized(c), NEW x \in Belongs(c)
  PROVE  c.owner[x] \in Backends /\ x \in Objects(c)
<1>1. c.owner \in Seq(Backends \union {None}) /\ DOMAIN c.owner = Objects(c)
  BY FieldsOf DEF Sized, Objects
<1>. QED
  BY <1>1, SeqAt DEF Belongs

(* A book that was never on has no contacts, so none of them is inactive   *)
(* when it is loaded.                                                      *)
LEMMA LoadEffect ==
  ASSUME NEW s, NEW K, SwitchesIn(s, K), NEW b \in Backends, b \in K,
         ~s.enabled[b], ~s.wasEnabled[b]
  PROVE  SwitchesIn(load(s, b), K) /\ Sets(s, load(s, b), b, TRUE)
<1>. DEFINE t == load(s, b)
<1>0. IsSwitches(s)
  BY DEF SwitchesIn
<1>1. /\ IsSwitches(t)
      /\ t.enabled = [s.enabled EXCEPT ![b] = TRUE] /\ t.wasEnabled = s.wasEnabled
      /\ t.fetch = [s.fetch EXCEPT ![b] = "asked"] /\ t.m = s.m
  BY <1>0 DEF load, IsSwitches, Switches
<1>. HIDE DEF t
<1>2. /\ t.enabled \in [Backends -> BOOLEAN] /\ t.fetch \in [Backends -> {"idle", "asked", "sent"}]
      /\ \A x \in Backends : /\ IF x = b THEN t.enabled[x] = TRUE ELSE t.enabled[x] = s.enabled[x]
                             /\ x # b => t.fetch[x] = s.fetch[x]
  BY <1>1 DEF SwitchesIn
<1>3. \A x \in Belongs(s.m) : s.m.owner[x] \in Backends /\ s.m.owner[x] # b
  <2>1. \A x \in Belongs(s.m) : s.m.owner[x] \in Backends
    BY OwnersTyped DEF SwitchesIn, Sound
  <2>2. \A x \in Belongs(s.m) : s.enabled[s.m.owner[x]] \/ s.wasEnabled[s.m.owner[x]]
    BY DEF SwitchesIn, Loaded
  <2>. QED
    BY <2>1, <2>2
<1>4. Live(t.m, t.enabled, gone) /\ Loaded(t.m, t.enabled, t.wasEnabled)
  BY <1>1, <1>2, <1>3 DEF SwitchesIn, Live, Loaded
<1>5. \A x \in Backends :
        /\ ~(t.enabled[x] /\ t.wasEnabled[x])
        /\ t.fetch[x] # "idle" \/ mail[x] # <<>> => t.enabled[x] \/ t.wasEnabled[x]
        /\ t.enabled[x] \/ t.wasEnabled[x] => x \in K
  <2>. TAKE x \in Backends
  <2>1. CASE x = b
    BY <1>1, <1>2, <2>1 DEF SwitchesIn
  <2>2. CASE x # b
    BY <1>1, <1>2, <2>2 DEF SwitchesIn
  <2>. QED
    BY <2>1, <2>2
<1>6. SwitchesIn(t, K)
  BY <1>1, <1>2, <1>4, <1>5 DEF SwitchesIn
<1>7. Sets(s, t, b, TRUE)
  BY <1>2 DEF Sets
<1>. QED
  BY <1>6, <1>7 DEF t

(* Switching between on and was on.                                        *)
Turned(s, b, on) ==
  [s EXCEPT !.m = AllActive(@, b, on), !.wasEnabled[b] = ~on, !.enabled[b] = on]

(* AllActive() reaches the contacts of this book only, for each has its    *)
(* own part.                                                               *)
LEMMA TurnedEffect ==
  ASSUME NEW s, NEW K, SwitchesIn(s, K), NEW b \in Backends, NEW on \in BOOLEAN,
         s.enabled[b] \/ s.wasEnabled[b]
  PROVE  SwitchesIn(Turned(s, b, on), K) /\ Sets(s, Turned(s, b, on), b, on)
<1>. DEFINE t == Turned(s, b, on)
<1>0. IsSwitches(s)
  BY DEF SwitchesIn
<1>1. /\ IsSwitches(t)
      /\ t.enabled = [s.enabled EXCEPT ![b] = on] /\ t.wasEnabled = [s.wasEnabled EXCEPT ![b] = ~on]
      /\ t.fetch = s.fetch /\ t.m = AllActive(s.m, b, on)
  BY <1>0 DEF Turned, IsSwitches, Switches
<1>. HIDE DEF t
<1>2. /\ t.enabled \in [Backends -> BOOLEAN] /\ t.wasEnabled \in [Backends -> BOOLEAN]
      /\ t.enabled[b] = on /\ t.wasEnabled[b] = ~on
      /\ \A x \in Backends : x # b => /\ t.enabled[x] = s.enabled[x]
                                      /\ t.wasEnabled[x] = s.wasEnabled[x]
  BY <1>1 DEF SwitchesIn
<1>3. /\ Sound(s.m) /\ Alike(s.m, t.m) /\ t.m.numbers = s.m.numbers
      /\ \A x \in Belongs(s.m) : IF s.m.owner[x] = b THEN t.m.active[x] = on
                                 ELSE t.m.active[x] = s.m.active[x]
  BY <1>1, AllActiveEffect DEF SwitchesIn
<1>4. Sound(t.m) /\ Belongs(t.m) = Belongs(s.m) /\ t.m.owner = s.m.owner
  BY <1>3, AlikeIsSound DEF Alike, Same
<1>5. \A x \in Belongs(s.m) : s.m.owner[x] \in Backends
  BY OwnersTyped DEF SwitchesIn, Sound
<1>6. Live(t.m, t.enabled, gone)
  <2>1. Live(s.m, s.enabled, gone)
    BY DEF SwitchesIn
  <2>2. ASSUME NEW x \in Belongs(t.m), t.enabled[t.m.owner[x]], x \notin gone
        PROVE  t.m.active[x]
    <3>1. CASE s.m.owner[x] = b
      <4>1. on /\ t.m.active[x] = on
        BY <1>2, <1>3, <1>4, <2>2, <3>1
      <4>. QED
        BY <4>1
    <3>2. CASE s.m.owner[x] # b
      <4>1. s.enabled[s.m.owner[x]] /\ t.m.active[x] = s.m.active[x] /\ x \in Belongs(s.m)
        BY <1>2, <1>3, <1>4, <1>5, <2>2, <3>2
      <4>. QED
        BY <2>1, <2>2, <4>1 DEF Live
    <3>. QED
      BY <3>1, <3>2
  <2>. QED
    BY <2>2 DEF Live
<1>7. Loaded(t.m, t.enabled, t.wasEnabled)
  <2>1. ASSUME NEW x \in Belongs(t.m)
        PROVE  t.enabled[t.m.owner[x]] \/ t.wasEnabled[t.m.owner[x]]
    <3>1. CASE s.m.owner[x] = b
      BY <1>2, <1>4, <3>1
    <3>2. CASE s.m.owner[x] # b
      BY <1>2, <1>4, <1>5, <2>1, <3>2 DEF SwitchesIn, Loaded
    <3>. QED
      BY <3>1, <3>2
  <2>. QED
    BY <2>1 DEF Loaded
<1>8. \A x \in Backends :
        /\ ~(t.enabled[x] /\ t.wasEnabled[x])
        /\ t.fetch[x] # "idle" \/ mail[x] # <<>> => t.enabled[x] \/ t.wasEnabled[x]
        /\ t.enabled[x] \/ t.wasEnabled[x] => x \in K
  <2>. TAKE x \in Backends
  <2>1. CASE x = b
    <3>1. b \in K
      BY DEF SwitchesIn
    <3>. QED
      BY <1>2, <2>1, <3>1
  <2>2. CASE x # b
    BY <1>1, <1>2, <2>2 DEF SwitchesIn
  <2>. QED
    BY <2>1, <2>2
<1>9. SwitchesIn(t, K)
  <2>1. Same(m, t.m) /\ t.m.numbers = m.numbers
    BY <1>3 DEF SwitchesIn, Alike, Same
  <2>. QED
    BY <1>1, <1>2, <1>4, <1>6, <1>7, <1>8, <2>1 DEF SwitchesIn
<1>10. Sets(s, t, b, on)
  BY <1>2 DEF Sets
<1>. QED
  BY <1>9, <1>10 DEF t

(* save() brings a book to its check mark.                                 *)
LEMMA SavedEffect ==
  ASSUME NEW s, NEW K, SwitchesIn(s, K), NEW b \in Backends, b \in K
  PROVE  SwitchesIn(Saved(s, b), K) /\ Sets(s, Saved(s, b), b, b \notin unchecked)
<1>. DEFINE on == b \notin unchecked
<1>1. s.enabled[b] \in BOOLEAN /\ s.wasEnabled[b] \in BOOLEAN /\ ~(s.enabled[b] /\ s.wasEnabled[b])
  BY DEF SwitchesIn
<1>2. CASE on = s.enabled[b]
  <2>1. Saved(s, b) = s
    BY <1>2 DEF Saved
  <2>2. Sets(s, s, b, on)
    BY <1>2 DEF Sets
  <2>. QED
    BY <2>1, <2>2
<1>3. CASE on # s.enabled[b] /\ on /\ ~s.wasEnabled[b]
  <2>1. Saved(s, b) = load(s, b) /\ ~s.enabled[b] /\ on = TRUE
    BY <1>1, <1>3 DEF Saved, enable
  <2>. HIDE DEF on
  <2>. QED
    BY <1>3, <2>1, LoadEffect DEF on
<1>4. CASE on # s.enabled[b] /\ on /\ s.wasEnabled[b]
  <2>1. Saved(s, b) = Turned(s, b, TRUE) /\ on = TRUE
    BY <1>1, <1>4 DEF Saved, enable, Turned
  <2>. QED
    BY <1>4, <2>1, TurnedEffect
<1>5. CASE on # s.enabled[b] /\ ~on
  <2>1. Saved(s, b) = Turned(s, b, FALSE) /\ on = FALSE /\ s.enabled[b]
    BY <1>1, <1>5 DEF Saved, enable, Turned
  <2>. QED
    BY <2>1, TurnedEffect
<1>. QED
  BY <1>2, <1>3, <1>4, <1>5

States == [enabled : [Backends -> BOOLEAN], wasEnabled : [Backends -> BOOLEAN],
           fetch : [Backends -> {"idle", "asked", "sent"}], m : ContactRecord]

LEMMA StateOf ==
  ASSUME NEW s, NEW K, SwitchesIn(s, K)
  PROVE  s \in States
<1>1. /\ IsSwitches(s) /\ s.enabled \in [Backends -> BOOLEAN] /\ s.wasEnabled \in [Backends -> BOOLEAN]
      /\ s.fetch \in [Backends -> {"idle", "asked", "sent"}] /\ s.m \in ContactRecord
  BY DEF SwitchesIn, Sound, Sized
<1>. QED
  BY <1>1 DEF States, IsSwitches, Switches

(* Applying the page brings each book of a row to its check mark, and      *)
(* leaves the others alone.                                                *)
LEMMA AppliedEffect ==
  ASSUME NEW s, NEW K, SwitchesIn(s, K), NEW list \in Seq(Backends), ToSet(list) \subseteq K
  PROVE  /\ SwitchesIn(FoldLeft(Saved, s, list), K)
         /\ \A x \in Backends :
              FoldLeft(Saved, s, list).enabled[x] = IF x \in ToSet(list) THEN x \notin unchecked
                                                    ELSE s.enabled[x]
<1>. DEFINE N == Len(list)
            D == {t \in States : SwitchesIn(t, K)}
            each == [i \in 1..N |-> [t \in D |-> Saved(t, list[i])]]
            Folds(g) == g = [r \in SUBSET (DOMAIN list) |->
                               IF r = {} THEN s ELSE Saved(g[r \ {Max(r)}], list[Max(r)])]
            f == CHOOSE g : Folds(g)
            First(k) == {list[i] : i \in 1..k}
            Marked(k) == \A x \in Backends : f[1..k].enabled[x] = IF x \in First(k) THEN x \notin unchecked
                                                                  ELSE s.enabled[x]
            Good(k) == SwitchesIn(f[1..k], K) /\ Marked(k)
            result == FoldLeft(Saved, s, list)
<1>1. N \in Nat /\ DOMAIN list = 1..N /\ \A i \in 1..N : list[i] \in Backends /\ list[i] \in K
  BY DEF ToSet
<1>2. result = f[DOMAIN list]
  BY DEF FoldLeft, MapThenFoldSet
<1>3. s \in D
  BY StateOf
<1>4. ASSUME NEW t \in D, NEW i \in 1..N  PROVE Saved(t, list[i]) \in D
  <2>1. SwitchesIn(Saved(t, list[i]), K)
    BY <1>1, SavedEffect
  <2>. QED
    BY <2>1, StateOf
<1>5. each \in [1..N -> [D -> D]]
  <2>. HIDE DEF D
  <2>. QED
    BY <1>4
<1>6. Folds(f)
  <2>1. PICK g \in [SUBSET (1..N) -> D] : IsFold(g, N, s, each)
    <3>. HIDE DEF N, each, D
    <3>. QED
      BY <1>1, <1>3, <1>5, FoldExists
  <2>. HIDE DEF D
  <2>2. \A r \in SUBSET (1..N) : r # {} => Max(r) \in 1..N /\ g[r \ {Max(r)}] \in D
    BY <1>1, MaxIsMember
  <2>3. \A r \in SUBSET (1..N) : r # {} =>
          each[Max(r)][g[r \ {Max(r)}]] = Saved(g[r \ {Max(r)}], list[Max(r)])
    BY <1>1, <2>2
  <2>4. Folds(g)
    <3>. HIDE DEF each
    <3>. QED
      BY <1>1, <2>1, <2>3, Zenon DEF IsFold
  <2>. HIDE DEF Folds
  <2>. QED
    BY <2>4
<1>7. f[1..0] = s /\ \A k \in 1..N : f[1..k] = Saved(f[1..(k - 1)], list[k])
  <2>. HIDE DEF f
  <2>1. \A r \in SUBSET (1..N) :
          f[r] = IF r = {} THEN s ELSE Saved(f[r \ {Max(r)}], list[Max(r)])
    BY <1>1, <1>6, Zenon
  <2>2. 1..0 = {} /\ 1..0 \in SUBSET (1..N)
    OBVIOUS
  <2>3. f[1..0] = s
    BY <2>1, <2>2
  <2>4. ASSUME NEW k \in 1..N  PROVE f[1..k] = Saved(f[1..(k - 1)], list[k])
    <3>1. /\ 1..k \in SUBSET (1..N) /\ 1..k # {} /\ Max(1..k) = k
          /\ (1..k) \ {k} = 1..(k - 1)
      BY <1>1, UpTo
    <3>2. f[1..k] = Saved(f[(1..k) \ {Max(1..k)}], list[Max(1..k)])
      BY <2>1, <3>1
    <3>. QED
      BY <3>1, <3>2
  <2>. QED
    BY <2>3, <2>4
<1>. HIDE DEF f, each, Folds, D, result
<1>8. ASSUME NEW k \in Nat, k + 1 =< N, Good(k)  PROVE Good(k + 1)
  <2>1. k + 1 \in 1..N /\ k + 1 - 1 = k
    BY <1>1, <1>8
  <2>2. f[1..(k + 1)] = Saved(f[1..k], list[k + 1])
    BY <1>7, <2>1
  <2>3. First(k + 1) = First(k) \union {list[k + 1]}
    <3>1. 1..(k + 1) = 1..k \union {k + 1}
      BY <1>8
    <3>. QED
      BY <3>1
  <2>4. SwitchesIn(f[1..k], K) /\ list[k + 1] \in Backends /\ list[k + 1] \in K
    BY <1>1, <1>8, <2>1
  <2>5. /\ SwitchesIn(Saved(f[1..k], list[k + 1]), K)
        /\ Sets(f[1..k], Saved(f[1..k], list[k + 1]), list[k + 1], list[k + 1] \notin unchecked)
    BY <2>4, SavedEffect
  <2>. HIDE DEF First
  <2>6. Marked(k + 1)
    BY <1>8, <2>2, <2>3, <2>5 DEF Sets
  <2>. QED
    BY <2>2, <2>5, <2>6
<1>9. Good(N)
  <2>. DEFINE Q == {k \in Nat : k =< N => Good(k)}
  <2>1. 0 \in Q
    <3>1. First(0) = {}
      OBVIOUS
    <3>. QED
      BY <1>7, <3>1
  <2>. HIDE DEF Good
  <2>2. ASSUME NEW k \in Nat, k \in Q  PROVE k + 1 \in Q
    <3>1. k + 1 =< N => k =< N
      BY <1>1
    <3>. QED
      BY <1>8, <2>2, <3>1
  <2>3. Nat \subseteq Q
    <3>. HIDE DEF Q
    <3>. QED
      BY <2>1, <2>2, Induction
  <2>. QED
    BY <1>1, <2>3
<1>10. First(N) = ToSet(list)
  BY <1>1 DEF ToSet
<1>. HIDE DEF First
<1>11. SwitchesIn(result, K)
  BY <1>1, <1>2, <1>9
<1>12. \A x \in Backends : result.enabled[x] = IF x \in ToSet(list) THEN x \notin unchecked
                                               ELSE s.enabled[x]
  BY <1>1, <1>2, <1>9, <1>10
<1>. QED
  BY <1>11, <1>12 DEF result

-----------------------------------------------------------------------------
(* The steps.                                                              *)

(* New contacts come from books that are, or were, on.                     *)
LEMMA KeepsContent ==
  ASSUME ContentOk, NEW b, b = None \/ (b \in Backends /\ Monitored(b)), Keeps(m, m', b),
         UNCHANGED <<enabled, wasEnabled, removing, gone>>
  PROVE  ContentOk'
<1>. DEFINE c == m'
<1>1. /\ Sound(c) /\ Belongs(m) \subseteq Belongs(c)
      /\ \A o \in Belongs(m) : c.owner[o] = m.owner[o] /\ c.active[o] = m.active[o]
      /\ \A o \in Belongs(c) \ Belongs(m) : c.owner[o] = b /\ c.active[o]
  BY DEF Keeps
<1>2. \A o \in Belongs(c) \ Belongs(m) : c.owner[o] = b /\ b \in Backends /\ Monitored(b)
  BY <1>1 DEF Belongs
<1>3. Live(c, enabled, gone) /\ Loaded(c, enabled, wasEnabled)
  BY <1>1, <1>2 DEF ContentOk, Live, Loaded, Monitored
<1>. QED
  BY <1>1, <1>3 DEF ContentOk

LEMMA QuietContent ==
  ASSUME ContentOk, Keeps(m, m', None), UNCHANGED <<enabled, wasEnabled, removing, gone>>
  PROVE  ContentOk'
<1>. DEFINE c == m'
<1>1. Sound(c) /\ Belongs(m) = Belongs(c)
  BY DEF Keeps, Belongs
<1>2. \A o \in Belongs(m) : c.owner[o] = m.owner[o] /\ c.active[o] = m.active[o]
  BY DEF Keeps
<1>3. Live(c, enabled, gone) /\ Loaded(c, enabled, wasEnabled)
  BY <1>1, <1>2 DEF ContentOk, Live, Loaded
<1>. QED
  BY <1>1, <1>3 DEF ContentOk

LEMMA SameContent ==
  ASSUME ContentOk, UNCHANGED <<m, enabled, wasEnabled, removing, gone>>
  PROVE  ContentOk'
BY DEF ContentOk

LEMMA SameBooks ==
  ASSUME BooksOk, UNCHANGED <<items, sent, fetch, mail, known, enabled, wasEnabled>>
  PROVE  BooksOk'
BY DEF BooksOk, Monitored

LEMMA SamePage ==
  ASSUME PageOk, UNCHANGED <<stored, unchecked, rows, known, enabled>>
  PROVE  PageOk'
BY DEF PageOk, BackendsAsStored

(* A notification is kept only for a book that is followed.                *)
LEMMA NotifiedKeepsBooks ==
  ASSUME BooksOk, NEW b \in Backends, NEW note \in Letters, Notified(b, note),
         items' \in [Backends -> Held], UNCHANGED <<sent, fetch, known, enabled, wasEnabled>>
  PROVE  BooksOk'
<1>1. CASE Monitored(b)
  <2>1. mail' = [mail EXCEPT ![b] = Append(@, note)]
    BY <1>1 DEF Notified
  <2>2. /\ mail \in [Backends -> Seq(Letters)] /\ mail' \in [Backends -> Seq(Letters)]
        /\ \A x \in Backends : x # b => mail'[x] = mail[x]
    <3>1. mail[b] \in Seq(Letters)
      BY DEF BooksOk
    <3>2. Append(mail[b], note) \in Seq(Letters)
      BY <3>1
    <3>. QED
      BY <2>1, <3>2 DEF BooksOk
  <2>3. \A x \in Backends : fetch[x] # "idle" \/ mail'[x] # <<>> => Monitored(x)
    BY <1>1, <2>2 DEF BooksOk
  <2>. QED
    BY <2>2, <2>3 DEF BooksOk, Monitored
<1>2. CASE ~Monitored(b)
  BY <1>2 DEF Notified, BooksOk, Monitored
<1>. QED
  BY <1>1, <1>2

(* What Akonadi does to an item reaches the program by mail only.          *)
LEMMA StoreItemStep ==
  ASSUME ContactsOk, NEW b \in Backends, NEW u \in Uids, NEW p \in Payloads \union {None},
         StoreItem(b, u, p)
  PROVE  ContactsOk'
<1>. DEFINE kind == IF p = None THEN "removed" ELSE IF items[b][u] = None THEN "added" ELSE "changed"
<1>1. Note(kind, u, p) \in Letters
  BY DEF Note, Letters
<1>2. items' \in [Backends -> Held]
  BY DEF ContactsOk, BooksOk, Held, StoreItem
<1>3. BooksOk'
  BY <1>1, <1>2, NotifiedKeepsBooks DEF StoreItem, ContactsOk, backendVars
<1>4. ContentOk' /\ PageOk'
  BY SameContent, SamePage DEF StoreItem, ContactsOk, backendVars, pageVars
<1>. QED
  BY <1>3, <1>4 DEF StoreItem, ContactsOk

LEMMA FetchAnsweredStep ==
  ASSUME ContactsOk, NEW b \in Backends, FetchAnswered(b)
  PROVE  ContactsOk'
<1>1. BooksOk'
  BY DEF FetchAnswered, ContactsOk, BooksOk, backendVars, Monitored
<1>2. ContentOk' /\ PageOk'
  BY SameContent, SamePage DEF FetchAnswered, ContactsOk, backendVars, pageVars
<1>. QED
  BY <1>1, <1>2 DEF FetchAnswered, ContactsOk

(* A message that is handled leaves the rest of the books alone.           *)
LEMMA HandledKeepsBooks ==
  ASSUME BooksOk, NEW b \in Backends, mail[b] # <<>>, mail' = [mail EXCEPT ![b] = Tail(@)],
         UNCHANGED <<items, sent, fetch, known, enabled, wasEnabled>>
  PROVE  BooksOk' /\ Head(mail[b]) \in Letters /\ Monitored(b)
<1>1. mail[b] \in Seq(Letters) /\ mail \in [Backends -> Seq(Letters)]
  BY DEF BooksOk
<1>2. Tail(mail[b]) \in Seq(Letters) /\ Head(mail[b]) \in Letters
  BY <1>1
<1>3. /\ mail' \in [Backends -> Seq(Letters)] /\ Monitored(b)
      /\ \A x \in Backends : x # b => mail'[x] = mail[x]
  BY <1>1, <1>2 DEF BooksOk
<1>. QED
  BY <1>2, <1>3 DEF BooksOk, Monitored

LEMMA itemsReceivedStep ==
  ASSUME ContactsOk, NEW b \in Backends, itemsReceived(b)
  PROVE  ContactsOk'
<1>1. Monitored(b) /\ sent[b] \in Held /\ [u \in Uids |-> None] \in Held
  BY Zenon DEF itemsReceived, ContactsOk, BooksOk, Held
<1>2. Sound(m) /\ role \in Roles
  BY DEF ContactsOk, ContentOk
<1>3. Keeps(m, m', b)
  BY <1>1, <1>2, ItemsEffect, Zenon DEF itemsReceived, Received
<1>4. ContentOk'
  BY <1>1, <1>3, KeepsContent, Zenon DEF itemsReceived, ContactsOk, backendVars
<1>5. BooksOk'
  BY <1>1, Zenon DEF itemsReceived, ContactsOk, BooksOk, backendVars, Monitored
<1>6. PageOk'
  BY SamePage, Zenon DEF itemsReceived, ContactsOk, backendVars, pageVars
<1>. QED
  BY <1>4, <1>5, <1>6, Zenon DEF itemsReceived, ContactsOk

LEMMA slotItemAddedStep ==
  ASSUME ContactsOk, NEW b \in Backends, slotItemAdded(b)
  PROVE  ContactsOk'
<1>1. BooksOk' /\ Head(mail[b]) \in Letters /\ Monitored(b)
  BY HandledKeepsBooks DEF slotItemAdded, ContactsOk, backendVars
<1>2. Head(mail[b]).uid \in Uids /\ Head(mail[b]).payload \in Payloads
  BY <1>1 DEF slotItemAdded, Letters
<1>3. Keeps(m, m', b)
  BY <1>2, ItemAddedEffect DEF slotItemAdded, ContactsOk, ContentOk
<1>4. ContentOk'
  BY <1>1, <1>3, KeepsContent DEF slotItemAdded, ContactsOk, backendVars
<1>5. PageOk'
  BY SamePage DEF slotItemAdded, ContactsOk, backendVars, pageVars
<1>. QED
  BY <1>1, <1>4, <1>5 DEF slotItemAdded, ContactsOk

LEMMA slotItemChangedStep ==
  ASSUME ContactsOk, NEW b \in Backends, slotItemChanged(b)
  PROVE  ContactsOk'
<1>. DEFINE u == Head(mail[b]).uid
            p == Head(mail[b]).payload
            o == m.byUid[u]
<1>1. BooksOk' /\ Head(mail[b]) \in Letters
  BY HandledKeepsBooks DEF slotItemChanged, ContactsOk, backendVars
<1>2. u \in Uids /\ p \in Payloads
  BY <1>1 DEF slotItemChanged, Letters
<1>3. m' = IF o = 0 THEN m ELSE fillContact(m, o, p)
  BY DEF slotItemChanged
<1>4. Sound(m) /\ (o # 0 => o \in Objects(m))
  BY <1>2 DEF ContactsOk, ContentOk, Sound, ListedOk, Belongs
<1>. HIDE DEF o, p, u
<1>5. Keeps(m, m', None)
  <2>1. CASE o = 0
    BY <1>3, <1>4, <2>1 DEF Keeps
  <2>2. CASE o # 0
    <3>1. Alike(m, fillContact(m, o, p)) /\ fillContact(m, o, p).active = m.active
      BY <1>2, <1>4, <2>2, FillEffect DEF Sound
    <3>. QED
      BY <1>3, <1>4, <2>2, <3>1, AlikeKeeps
  <2>. QED
    BY <2>1, <2>2
<1>6. ContentOk'
  BY <1>5, QuietContent DEF slotItemChanged, ContactsOk, backendVars
<1>7. PageOk'
  BY SamePage DEF slotItemChanged, ContactsOk, backendVars, pageVars
<1>. QED
  BY <1>1, <1>6, <1>7 DEF slotItemChanged, ContactsOk

(* A deleted contact is inactive, and is not expected to be active.        *)
LEMMA DeletedContent ==
  ASSUME ContentOk, NEW o \in Belongs(m), NEW S, o \in S, m' = setActive(m, o, FALSE),
         gone' = gone \union S, removing' \in {removing, 0}, UNCHANGED <<enabled, wasEnabled>>
  PROVE  ContentOk'
<1>. DEFINE c == setActive(m, o, FALSE)
<1>1. Alike(m, c) /\ \A x \in Objects(m) \ {o} : c.active[x] = m.active[x]
  BY SetActiveEffect DEF ContentOk
<1>2. Sound(c) /\ Belongs(c) = Belongs(m) /\ c.owner = m.owner
  BY <1>1, AlikeIsSound DEF ContentOk, Alike, Same
<1>. HIDE DEF c
<1>3. \A x \in Belongs(m) : x # o => x \in Objects(m) /\ c.active[x] = m.active[x]
  BY <1>1 DEF Belongs
<1>4. Live(c, enabled, gone \union S) /\ Loaded(c, enabled, wasEnabled)
  BY <1>2, <1>3 DEF ContentOk, Live, Loaded
<1>5. m' = c
  BY DEF c
<1>. QED
  BY <1>2, <1>4, <1>5 DEF ContentOk

LEMMA slotItemRemovedStep ==
  ASSUME ContactsOk, NEW b \in Backends, slotItemRemoved(b)
  PROVE  ContactsOk'
<1>. DEFINE u == Head(mail[b]).uid
            o == IF b \in RemoteIdIsUid THEN m.byUid[u] ELSE 0
<1>1. BooksOk' /\ Head(mail[b]) \in Letters
  BY HandledKeepsBooks DEF slotItemRemoved, ContactsOk, backendVars
<1>2. u \in Uids
  BY <1>1 DEF slotItemRemoved, Letters
<1>. DEFINE S == {q \in Objects(m) : m.uid[q] = u}
<1>3. o # 0 => o \in Belongs(m) /\ o \in S
  BY <1>2 DEF ContactsOk, ContentOk, Sound, ListedOk, Belongs
<1>4. IF o = 0 THEN UNCHANGED <<m, gone>>
      ELSE m' = setActive(m, o, FALSE) /\ gone' = gone \union S
  BY DEF slotItemRemoved
<1>. HIDE DEF o, S
<1>5. ContentOk'
  <2>1. CASE o = 0
    BY <1>4, <2>1, SameContent DEF slotItemRemoved, ContactsOk, backendVars
  <2>2. CASE o # 0
    BY <1>3, <1>4, <2>2, DeletedContent DEF slotItemRemoved, ContactsOk, backendVars
  <2>. QED
    BY <2>1, <2>2
<1>6. PageOk'
  BY SamePage DEF slotItemRemoved, ContactsOk, backendVars, pageVars
<1>. QED
  BY <1>1, <1>5, <1>6 DEF slotItemRemoved, ContactsOk

LEMMA RemoveContactStep ==
  ASSUME ContactsOk, NEW o \in Range(m.contacts), RemoveContact(o)
  PROVE  ContactsOk'
<1>. DEFINE b == m.owner[o]
            u == m.uid[o]
<1>1. o \in Belongs(m) /\ Sized(m)
  BY DEF ContactsOk, ContentOk, Sound, ListedOk, ToSet, Range
<1>2. b \in Backends /\ o \in Objects(m)
  BY <1>1, OwnersTyped
<1>3. u \in Uids
  BY <1>1, <1>2, FieldsOf, SeqAt DEF Sized, Objects
<1>4. IF items[b][u] = None THEN UNCHANGED <<items, mail>>
      ELSE /\ items' = [items EXCEPT ![b][u] = None]
           /\ Notified(b, Note("removed", u, None))
  BY DEF RemoveContact
<1>5. UNCHANGED <<sent, fetch, known, enabled, wasEnabled, m, gone, role>> /\ removing' = o
  BY DEF RemoveContact, backendVars
<1>. HIDE DEF b, u
<1>6. BooksOk'
  <2>1. CASE items[b][u] = None
    BY <1>4, <1>5, <2>1, SameBooks DEF ContactsOk
  <2>2. CASE items[b][u] # None
    <3>1. Note("removed", u, None) \in Letters
      BY <1>3 DEF Note, Letters
    <3>2. items' \in [Backends -> Held]
      <4>1. items \in [Backends -> Held] /\ items' = [items EXCEPT ![b][u] = None]
        BY <1>4, <2>2 DEF ContactsOk, BooksOk
      <4>. QED
        BY <1>2, <1>3, <4>1 DEF Held
    <3>. QED
      BY <1>2, <1>4, <1>5, <2>2, <3>1, <3>2, NotifiedKeepsBooks DEF ContactsOk
  <2>. QED
    BY <2>1, <2>2
<1>7. ContentOk'
  BY <1>1, <1>5 DEF ContactsOk, ContentOk
<1>8. PageOk'
  BY SamePage DEF RemoveContact, ContactsOk, backendVars, pageVars
<1>. QED
  BY <1>5, <1>6, <1>7, <1>8 DEF ContactsOk

LEMMA ContactRemovedStep ==
  ASSUME ContactsOk, ContactRemoved
  PROVE  ContactsOk'
<1>1. ContentOk'
  BY DeletedContent DEF ContactRemoved, ContactsOk, ContentOk, backendVars
<1>2. BooksOk' /\ PageOk'
  BY SameBooks, SamePage DEF ContactRemoved, ContactsOk, backendVars, bookVars, pageVars
<1>. QED
  BY <1>1, <1>2 DEF ContactRemoved, ContactsOk

(* The steps that only look at the contacts.                               *)
LEMMA LookingStep ==
  ASSUME ContactsOk, Keeps(m, m', None), role' \in Roles,
         UNCHANGED <<bookVars, backendVars, pageVars, removing, gone>>
  PROVE  ContactsOk'
<1>1. ContentOk'
  BY QuietContent DEF ContactsOk, backendVars
<1>2. BooksOk' /\ PageOk'
  BY SameBooks, SamePage DEF ContactsOk, backendVars, bookVars, pageVars
<1>. QED
  BY <1>1, <1>2 DEF ContactsOk

LEMMA AskForContactStep ==
  ASSUME ContactsOk, NEW u \in Uids, AskForContact(u)
  PROVE  ContactsOk'
<1>1. Keeps(m, m', None)
  BY PlaceHolderEffect DEF AskForContact, ContactsOk, ContentOk
<1>. QED
  BY <1>1, LookingStep DEF AskForContact, ContactsOk

LEMMA setRoleStep ==
  ASSUME ContactsOk, NEW r \in Roles, setRole(r)
  PROVE  ContactsOk'
<1>1. Keeps(m, m', None)
  BY ReloadEffect DEF setRole, ContactsOk, ContentOk
<1>. QED
  BY <1>1, LookingStep DEF setRole

(* The books as the functions that switch them see them.                   *)
LEMMA BackendSwitches ==
  ASSUME ContactsOk, NEW K, Range(known) \subseteq K
  PROVE  SwitchesIn(Backend, K) /\ Backend.enabled = enabled /\ Backend.fetch = fetch
<1>. DEFINE s == Backend
<1>1. /\ IsSwitches(s) /\ s.enabled = enabled /\ s.wasEnabled = wasEnabled /\ s.fetch = fetch
      /\ s.m = m
  BY DEF Backend, IsSwitches, Switches
<1>. HIDE DEF s
<1>2. \A b \in Backends : /\ ~(enabled[b] /\ wasEnabled[b])
                          /\ fetch[b] # "idle" \/ mail[b] # <<>> => enabled[b] \/ wasEnabled[b]
                          /\ enabled[b] \/ wasEnabled[b] => b \in K
  BY DEF ContactsOk, BooksOk, Monitored
<1>3. SwitchesIn(s, K)
  BY <1>1, <1>2 DEF SwitchesIn, ContactsOk, ContentOk, BooksOk, Same
<1>. QED
  BY <1>1, <1>3 DEF s

(* A step that sets the books to s keeps what holds of s.                  *)
LEMMA SwitchedStep ==
  ASSUME ContactsOk, NEW s, SwitchesIn(s, Range(known')), SetBackend(s),
         known' \in Seq(Backends), IsInjective(known'),
         UNCHANGED <<items, sent, mail, removing, gone>>
  PROVE  ContentOk' /\ BooksOk'
<1>1. ContentOk'
  BY DEF ContactsOk, ContentOk, SwitchesIn, SetBackend
<1>2. BooksOk'
  BY DEF ContactsOk, BooksOk, SwitchesIn, SetBackend, Monitored
<1>. QED
  BY <1>1, <1>2

(* A book that appears is not in a row yet, so its check mark is what is   *)
(* stored.                                                                 *)
LEMMA slotInsertCollectionStep ==
  ASSUME ContactsOk, NEW b \in Backends, slotInsertCollection(b)
  PROVE  ContactsOk'
<1>. DEFINE n == Len(known)
<1>1. known \in Seq(Backends) /\ IsInjective(known) /\ b \notin Range(known) /\ n \in Nat
  BY DEF slotInsertCollection, ContactsOk, BooksOk, Contains, Range
<1>2. /\ known' \in Seq(Backends) /\ IsInjective(known') /\ Range(known') = Range(known) \union {b}
      /\ Len(known') = n + 1 /\ DOMAIN known' = 1..(n + 1) /\ known'[n + 1] = b
      /\ \A i \in 1..n : known'[i] = known[i]
  <2>1. known' = Append(known, b)
    BY DEF slotInsertCollection
  <2>2. /\ Append(known, b) \in Seq(Backends) /\ Len(Append(known, b)) = n + 1
        /\ DOMAIN Append(known, b) = 1..(n + 1) /\ Append(known, b)[n + 1] = b
        /\ \A i \in 1..n : Append(known, b)[i] = known[i]
    BY <1>1, AppendedTo
  <2>3. IsInjective(Append(known, b)) /\ ToSet(Append(known, b)) = ToSet(known) \union {b}
    <3>1. b \notin ToSet(known)
      BY <1>1 DEF ToSet, Range
    <3>. QED
      BY <1>1, <3>1, AppendEffect
  <2>. QED
    BY <2>1, <2>2, <2>3 DEF ToSet, Range
<1>3. ~enabled[b] /\ ~wasEnabled[b]
  BY <1>1 DEF ContactsOk, BooksOk, Monitored
<1>4. PICK s : /\ SwitchesIn(s, Range(known')) /\ SetBackend(s)
               /\ Sets(Backend, s, b, b \notin unchecked)
  <2>. DEFINE K == Range(known')
  <2>1. SwitchesIn(Backend, K) /\ Backend.enabled = enabled
    BY <1>2, BackendSwitches
  <2>2. b \in K
    BY <1>2
  <2>3. Backend.wasEnabled = wasEnabled
    BY DEF Backend
  <2>. HIDE DEF K
  <2>4. CASE b \notin unchecked
    <3>1. SwitchesIn(load(Backend, b), K) /\ Sets(Backend, load(Backend, b), b, TRUE)
      BY <1>3, <2>1, <2>2, <2>3, LoadEffect
    <3>2. SetBackend(load(Backend, b)) /\ (b \notin unchecked) = TRUE
      BY <2>4 DEF slotInsertCollection
    <3>. QED
      BY <3>1, <3>2 DEF K
  <2>5. CASE b \in unchecked
    <3>1. SetBackend(Backend)
      BY <2>5 DEF slotInsertCollection, SetBackend, Backend
    <3>2. Sets(Backend, Backend, b, b \notin unchecked)
      <4>1. enabled[b] = FALSE
        BY <1>3 DEF ContactsOk, BooksOk
      <4>. QED
        BY <2>1, <2>5, <4>1 DEF Sets
    <3>. QED
      BY <2>1, <3>1, <3>2 DEF K
  <2>. QED
    BY <2>4, <2>5
<1>5. \A x \in Backends : IF x = b THEN enabled'[x] = (b \notin unchecked) ELSE enabled'[x] = enabled[x]
  <2>1. Backend.enabled = enabled
    BY DEF Backend
  <2>. QED
    BY <1>4, <2>1 DEF Sets, SetBackend
<1>6. ContentOk' /\ BooksOk'
  <2>1. UNCHANGED <<items, sent, mail, removing, gone>>
    BY DEF slotInsertCollection
  <2>. QED
    BY <1>2, <1>4, <2>1, SwitchedStep
<1>7. PageOk'
  <2>1. UNCHANGED <<stored, unchecked, rows>>
    BY DEF slotInsertCollection, pageVars
  <2>2. rows \in Nat \union {-1} /\ rows <= n
    BY DEF ContactsOk, PageOk
  <2>3. rows <= n + 1
    BY <1>1, <2>2
  <2>4. \A i \in 1..rows : known'[i] = known[i]
    BY <1>1, <1>2, <2>2
  <2>5. \A x \in Backends : (x \in stored <=> x \in unchecked) \/ \E i \in 1..rows : known[i] = x
    BY DEF ContactsOk, PageOk
  <2>6. \A x \in Backends : (x \in stored <=> x \in unchecked) \/ \E i \in 1..rows : known'[i] = x
    BY <2>4, <2>5
  <2>7. b \in stored <=> b \in unchecked
    <3>1. \A i \in 1..rows : i \in 1..n /\ known[i] # b
      BY <1>1, <2>2 DEF Range
    <3>. QED
      BY <2>5, <3>1
  <2>8. \A x \in Range(known') : enabled'[x] <=> x \notin stored
    <3>1. \A x \in Range(known) : x \in Backends /\ x # b /\ (enabled[x] <=> x \notin stored)
      BY <1>1 DEF ContactsOk, PageOk, BackendsAsStored, Range
    <3>. QED
      BY <1>2, <1>5, <2>7, <3>1
  <2>. QED
    BY <1>2, <2>1, <2>2, <2>3, <2>6, <2>8 DEF ContactsOk, PageOk, BackendsAsStored
<1>. QED
  BY <1>6, <1>7 DEF slotInsertCollection, ContactsOk

LEMMA OpenPageStep ==
  ASSUME ContactsOk, OpenPage
  PROVE  ContactsOk'
<1>1. ContentOk' /\ BooksOk'
  BY SameContent, SameBooks DEF OpenPage, ContactsOk, backendVars, bookVars
<1>2. /\ unchecked' = stored /\ stored' = stored /\ rows' = (IF rows = -1 THEN Len(known) ELSE rows)
      /\ UNCHANGED <<known, enabled>>
  BY DEF OpenPage, backendVars
<1>3. rows' \in Nat \union {-1} /\ rows' <= Len(known)
  BY <1>2 DEF ContactsOk, PageOk, BooksOk
<1>4. PageOk'
  BY <1>2, <1>3 DEF ContactsOk, PageOk, BackendsAsStored
<1>. QED
  BY <1>1, <1>4 DEF OpenPage, ContactsOk

LEMMA ClosePageStep ==
  ASSUME ContactsOk, ClosePage
  PROVE  ContactsOk'
<1>1. ContentOk' /\ BooksOk'
  BY SameContent, SameBooks DEF ClosePage, ContactsOk, backendVars, bookVars
<1>2. PageOk'
  BY SamePage DEF ClosePage, ContactsOk, backendVars
<1>. QED
  BY <1>1, <1>2 DEF ClosePage, ContactsOk

(* A check mark only changes in a row, and is stored by the next Apply.    *)
LEMMA CheckStep ==
  ASSUME ContactsOk, NEW i \in DOMAIN known, NEW on \in BOOLEAN, Check(i, on)
  PROVE  ContactsOk'
<1>1. ContentOk' /\ BooksOk'
  BY SameContent, SameBooks DEF Check, ContactsOk, backendVars, bookVars
<1>2. /\ unchecked' = IF on THEN unchecked \ {known[i]} ELSE unchecked \union {known[i]}
      /\ UNCHANGED <<stored, rows, known, enabled>> /\ i <= rows
  BY DEF Check, backendVars
<1>3. i \in 1..rows /\ known[i] \in Backends
  BY <1>2, SeqAt DEF ContactsOk, PageOk, BooksOk
<1>4. PageOk'
  <2>1. unchecked' \subseteq Backends
    BY <1>2, <1>3 DEF ContactsOk, PageOk
  <2>2. \A x \in Backends : (x \in stored <=> x \in unchecked') \/ \E k \in 1..rows : known[k] = x
    <3>. TAKE x \in Backends
    <3>1. CASE x = known[i]
      BY <1>3, <3>1
    <3>2. CASE x # known[i]
      <4>1. x \in unchecked' <=> x \in unchecked
        BY <1>2, <3>2
      <4>. QED
        BY <4>1 DEF ContactsOk, PageOk
    <3>. QED
      BY <3>1, <3>2
  <2>. QED
    BY <1>2, <2>1, <2>2 DEF ContactsOk, PageOk, BackendsAsStored
<1>. QED
  BY <1>1, <1>4 DEF Check, ContactsOk

(* A book without a row has the check mark that is stored, so Apply may    *)
(* store them all.                                                         *)
LEMMA ApplyPageStep ==
  ASSUME ContactsOk, ApplyPage
  PROVE  ContactsOk'
<1>. DEFINE list == SubSeq(known, 1, rows)
            s == FoldLeft(Saved, Backend, list)
            K == Range(known)
<1>1. /\ known \in Seq(Backends) /\ IsInjective(known) /\ rows \in Nat \union {-1}
      /\ rows <= Len(known) /\ DOMAIN known = 1..Len(known)
  BY DEF ContactsOk, BooksOk, PageOk
<1>2. list \in Seq(Backends) /\ ToSet(list) = {known[i] : i \in 1..rows}
  <2>1. CASE rows = -1
    <3>1. list = <<>>
      BY <1>1, <2>1
    <3>2. {known[i] : i \in 1..rows} = {}
      BY <2>1
    <3>3. <<>> \in Seq(Backends) /\ ToSet(<<>>) = {}
      BY DEF ToSet
    <3>. HIDE DEF list
    <3>. QED
      BY <3>1, <3>2, <3>3
  <2>2. CASE rows \in Nat
    <3>1. list \in Seq(Backends) /\ DOMAIN list = 1..rows /\ \A i \in 1..rows : list[i] = known[i]
      BY <1>1, <2>2
    <3>. QED
      BY <3>1 DEF ToSet
  <2>. QED
    BY <1>1, <2>1, <2>2
<1>3. ToSet(list) \subseteq K
  BY <1>1, <1>2 DEF Range
<1>. HIDE DEF list
<1>4. /\ SwitchesIn(s, K)
      /\ \A x \in Backends : s.enabled[x] = IF x \in ToSet(list) THEN x \notin unchecked
                                            ELSE enabled[x]
  <2>1. SwitchesIn(Backend, K) /\ Backend.enabled = enabled
    BY BackendSwitches
  <2>. HIDE DEF K
  <2>. QED
    BY <1>2, <1>3, <2>1, AppliedEffect
<1>5. SetBackend(s) /\ known' = known /\ UNCHANGED <<items, sent, mail, removing, gone>>
      /\ UNCHANGED <<unchecked, rows>> /\ stored' = unchecked /\ role' = role
  BY DEF ApplyPage, list
<1>. HIDE DEF s
<1>6. ContentOk' /\ BooksOk'
  <2>1. Range(known') = K /\ known' \in Seq(Backends) /\ IsInjective(known')
    BY <1>1, <1>5
  <2>. HIDE DEF K
  <2>. QED
    BY <1>4, <1>5, <2>1, SwitchedStep
<1>7. PageOk'
  <2>1. \A x \in Range(known) : enabled'[x] <=> x \notin unchecked
    <3>. TAKE x \in Range(known)
    <3>1. x \in Backends /\ (enabled[x] <=> x \notin stored)
      BY <1>1 DEF ContactsOk, PageOk, BackendsAsStored, Range
    <3>2. enabled'[x] = IF x \in ToSet(list) THEN x \notin unchecked ELSE enabled[x]
      BY <1>4, <1>5, <3>1 DEF SetBackend
    <3>3. (x \in stored <=> x \in unchecked) \/ x \in ToSet(list)
      BY <1>2, <3>1 DEF ContactsOk, PageOk
    <3>. QED
      BY <3>1, <3>2, <3>3
  <2>. QED
    BY <1>5, <2>1 DEF ContactsOk, PageOk, BackendsAsStored
<1>. QED
  BY <1>5, <1>6, <1>7 DEF ContactsOk

(* The bookmarks and the numbers that are met change no contact.           *)
LEMMA AlikeStep ==
  ASSUME ContactsOk, NEW d, Alike(m, d), d.active = m.active, m' = d,
         UNCHANGED <<bookVars, role, backendVars, pageVars, removing, gone>>
  PROVE  ContactsOk'
<1>1. Keeps(m, d, None)
  BY AlikeKeeps DEF ContactsOk, ContentOk
<1>. QED
  BY <1>1, LookingStep DEF ContactsOk

(* Reading the bookmarks again creates numbers and no contacts.            *)
LEMMA RegroupStep ==
  ASSUME ContactsInv, NEW list \in Seq(Hashes), NEW popular, NEW top,
         NEW marked, Regroup(m, list, marked, popular, top),
         UNCHANGED <<bookVars, role, backendVars, pageVars, removing, gone>>
  PROVE  ContactsOk' /\ nuid' \in Stored
<1>. DEFINE read == NumbersOf(m, nuid, list)
<1>1. Reads(m, read)
  BY NumbersEffect DEF ContactsInv, ContactsOk, ContentOk
<1>2. m' = read[1] /\ nuid' = read[2]
  BY DEF Regroup
<1>. HIDE DEF read
<1>3. PICK d : d = read[1]
  OBVIOUS
<1>. QED
  BY <1>1, <1>2, <1>3, AlikeStep DEF Reads, ContactsInv

(* The hash of a number names its contact by uid.                          *)
LEMMA HashTyped ==
  ASSUME Sound(m), NEW n \in DOMAIN m.numbers
  PROVE  toHash(m, n) \in Hashes
<1>. DEFINE P == [uri : Uris, contact : Nat]
            k == Len(m.part)
            o == m.numbers[n].contact
<1>1. /\ m \in ContactRecord /\ Len(m.uid) = k /\ o \in 0..k
  BY DEF Sound, Sized
<1>2. m.numbers \in Seq(P) /\ m.uid \in Seq(Uids) /\ m.part \in Seq(Nat)
  BY <1>1, FieldsOf DEF PhoneNumbers
<1>3. m.numbers[n] \in P
  <2>. HIDE DEF P
  <2>. QED
    BY <1>2, SeqAt
<1>4. m.numbers[n].uri \in Uris
  BY <1>3
<1>5. o # 0 => m.uid[o] \in Uids
  <2>1. o # 0 => o \in DOMAIN m.uid
    BY <1>1, <1>2
  <2>. QED
    BY <1>2, <2>1, SeqAt
<1>. QED
  BY <1>4, <1>5 DEF toHash, Hash, Hashes

LEMMA addBookmarkStep ==
  ASSUME ContactsInv, NEW n \in DOMAIN m.numbers, NEW top, addBookmark(n, top)
  PROVE  ContactsInv'
<1>1. toHash(m, n) \in Hashes
  BY HashTyped DEF ContactsInv, ContactsOk, ContentOk
<1>2. saved' \in Seq(Hashes)
  BY <1>1 DEF addBookmark, ContactsInv
<1>3. PICK list \in Seq(Hashes) : list = saved'
  BY <1>2
<1>4. Regroup(m, list, bookmarked \union {n}, showPopular, top)
  BY <1>3 DEF addBookmark, Regroup
<1>5. ContactsOk' /\ nuid' \in Stored
  BY <1>4, RegroupStep DEF addBookmark
<1>. QED
  BY <1>2, <1>5 DEF ContactsInv

LEMMA ShowPopularStep ==
  ASSUME ContactsInv, NEW on \in BOOLEAN, NEW top, ShowPopular(on, top)
  PROVE  ContactsInv'
<1>1. ContactsOk' /\ nuid' \in Stored
  BY RegroupStep DEF ShowPopular, ContactsInv
<1>. QED
  BY <1>1 DEF ShowPopular, ContactsInv

LEMMA MeetNumberStep ==
  ASSUME ContactsInv, NEW u \in Uris, MeetNumber(u)
  PROVE  ContactsInv'
<1>1. Alike(m, getNumber(m, u, 0)[1]) /\ getNumber(m, u, 0)[1].active = m.active
  <2>1. Sized(m) /\ Len(m.part) \in Nat
    BY FieldsOf DEF ContactsInv, ContactsOk, ContentOk, Sound, Sized
  <2>2. 0 \in 0..Len(m.part)
    BY <2>1
  <2>. QED
    BY <2>1, <2>2, NumberEffect
<1>2. ContactsOk'
  BY <1>1, AlikeStep DEF MeetNumber, ContactsInv
<1>. QED
  BY <1>2 DEF MeetNumber, ContactsInv, bookmarkVars

LEMMA RemoveRowStep ==
  ASSUME ContactsInv, NEW i, NEW j, RemoveRow(i, j)
  PROVE  ContactsInv'
<1>1. Keeps(m, m', None)
  BY DEF RemoveRow, Keeps, ContactsInv, ContactsOk, ContentOk
<1>2. ContactsOk'
  BY <1>1, LookingStep DEF RemoveRow, ContactsInv, ContactsOk
<1>3. saved' \in Seq(Hashes)
  BY WithoutEffect DEF RemoveRow, removeBookmark, ContactsInv
<1>. QED
  BY <1>2, <1>3 DEF RemoveRow, ContactsInv

LEMMA StutterStep ==
  ASSUME ContactsInv, UNCHANGED vars
  PROVE  ContactsInv'
<1>1. Keeps(m, m', None)
  BY DEF vars, contactsVars, Keeps, ContactsInv, ContactsOk, ContentOk
<1>2. ContactsOk'
  BY <1>1, LookingStep DEF vars, contactsVars, ContactsInv, ContactsOk
<1>. QED
  BY <1>2 DEF vars, bookmarkVars, ContactsInv

-----------------------------------------------------------------------------
(* The start.                                                              *)

LEMMA EmptyIsSound == Sound(Empty) /\ Belongs(Empty) = {}
<1>. DEFINE e == Empty
<1>1. /\ e.uid = <<>> /\ e.part = <<>> /\ e.parents = <<>> /\ e.payload = <<>> /\ e.active = <<>>
      /\ e.owner = <<>> /\ e.contacts = <<>> /\ e.byUid = [u \in Uids |-> 0]
      /\ e.placeholders = [u \in Uids |-> 0] /\ e.numbers = <<>> /\ e.tree = <<>>
      /\ IsRec(e)
  BY DEF Empty, IsRec, Fields
<1>. HIDE DEF e
<1>2. e \in ContactRecord
  <2>1. e.byUid \in [Uids -> Nat] /\ e.placeholders \in [Uids -> Nat] /\ e.numbers \in PhoneNumbers
    BY <1>1 DEF PhoneNumbers
  <2>2. /\ e.uid \in Seq(Uids) /\ e.part \in Seq(Nat) /\ e.parents \in Seq(Seq(Nat))
        /\ e.payload \in Seq(Payloads \union {None}) /\ e.active \in Seq(BOOLEAN)
        /\ e.owner \in Seq(Backends \union {None}) /\ e.contacts \in Seq(Nat)
        /\ e.tree \in Seq(Branches)
    BY <1>1
  <2>. QED
    BY <1>1, <2>1, <2>2, RecordOf
<1>3. Objects(e) = {} /\ Belongs(e) = {} /\ DOMAIN e.numbers = {}
  BY <1>1 DEF Objects, Belongs
<1>4. Sized(e)
  BY <1>1, <1>2, <1>3 DEF Sized
<1>5. PartsOk(e) /\ HeldOk(e)
  BY <1>1, <1>3 DEF PartsOk, HeldOk
<1>6. ListedOk(e)
  <2>1. IsInjective(e.contacts) /\ ToSet(e.contacts) = {}
    BY <1>1 DEF IsInjective, ToSet
  <2>. QED
    BY <1>1, <1>3, <2>1 DEF ListedOk
<1>7. TreeOk(e.tree, {})
  BY <1>1 DEF TreeOk, Rowed
<1>8. Sound(e)
  BY <1>3, <1>4, <1>5, <1>6, <1>7 DEF Sound
<1>. QED
  BY <1>3, <1>8 DEF e

(* The start is the reading of the bookmarks into nothing.                 *)
LEMMA Start == Init => ContactsInv
<1>. SUFFICES ASSUME Init  PROVE ContactsInv
  OBVIOUS
<1>1. saved \in Seq(Hashes)
  BY BookmarksAssumption DEF Init, Hashes
<1>2. <<>> \in Stored
  <2>1. <<>> \in [{} -> Hashes]
    OBVIOUS
  <2>. QED
    BY <2>1 DEF Stored
<1>3. Reads(Empty, NumbersOf(Empty, <<>>, saved))
  BY <1>1, <1>2, EmptyIsSound, NumbersEffect
<1>4. Alike(Empty, m) /\ nuid \in Stored
  BY <1>3 DEF Init, Reads
<1>5. Sound(m) /\ Belongs(m) = {}
  BY <1>4, EmptyIsSound, AlikeIsSound
<1>6. ContentOk
  BY <1>5 DEF Init, ContactsInit, ContentOk, Live, Loaded
<1>7. BooksOk
  <2>1. items \in [Backends -> Held]
    BY ContactsAssumption DEF Init, ContactsInit, Held
  <2>2. /\ sent \in [Backends -> Held] /\ fetch \in [Backends -> {"idle", "asked", "sent"}]
        /\ mail \in [Backends -> Seq(Letters)] /\ known = <<>> /\ known \in Seq(Backends)
        /\ enabled \in [Backends -> BOOLEAN] /\ wasEnabled \in [Backends -> BOOLEAN]
    BY DEF Init, ContactsInit, Held
  <2>3. IsInjective(known)
    BY <2>2 DEF IsInjective
  <2>4. \A b \in Backends : ~enabled[b] /\ ~wasEnabled[b] /\ fetch[b] = "idle" /\ mail[b] = <<>>
    BY DEF Init, ContactsInit
  <2>. QED
    BY <2>1, <2>2, <2>3, <2>4 DEF BooksOk, Monitored
<1>8. PageOk
  <2>1. known = <<>> /\ Range(known) = {} /\ Len(known) = 0 /\ rows = -1
    BY DEF Init, ContactsInit, Range
  <2>. QED
    BY <2>1 DEF Init, ContactsInit, PageOk, BackendsAsStored
<1>9. role \in Roles
  BY ContactsAssumption DEF Init, ContactsInit
<1>. QED
  BY <1>1, <1>4, <1>6, <1>7, <1>8, <1>9 DEF ContactsInv, ContactsOk

-----------------------------------------------------------------------------
(* The theorems.                                                           *)

(* Every step keeps the invariant.                                         *)
LEMMA NextKeepsContacts == ContactsInv /\ [Next]_vars => ContactsInv'
<1>. SUFFICES ASSUME ContactsInv, [Next]_vars  PROVE ContactsInv'
  OBVIOUS
<1>0. ContactsOk
  BY DEF ContactsInv
<1>1. ASSUME ContactsNext, UNCHANGED bookmarkVars  PROVE ContactsInv'
  <2>1. ASSUME NEW b \in Backends, NEW u \in Uids, NEW p \in Payloads \union {None}, StoreItem(b, u, p)
        PROVE  ContactsOk'
    BY <1>0, <2>1, StoreItemStep
  <2>2. ASSUME NEW b \in Backends,
               \/ FetchAnswered(b) \/ slotInsertCollection(b) \/ itemsReceived(b)
               \/ slotItemAdded(b) \/ slotItemChanged(b) \/ slotItemRemoved(b)
        PROVE  ContactsOk'
    BY <1>0, <2>2, FetchAnsweredStep, slotInsertCollectionStep, itemsReceivedStep,
       slotItemAddedStep, slotItemChangedStep, slotItemRemovedStep
  <2>3. ASSUME NEW o \in Range(m.contacts), RemoveContact(o)  PROVE ContactsOk'
    BY <1>0, <2>3, RemoveContactStep
  <2>4. ASSUME ContactRemoved  PROVE ContactsOk'
    BY <1>0, <2>4, ContactRemovedStep
  <2>5. ASSUME NEW u \in Uids, AskForContact(u)  PROVE ContactsOk'
    BY <1>0, <2>5, AskForContactStep
  <2>6. ASSUME NEW r \in Roles, setRole(r)  PROVE ContactsOk'
    BY <1>0, <2>6, setRoleStep
  <2>7. ASSUME OpenPage \/ ClosePage \/ ApplyPage  PROVE ContactsOk'
    BY <1>0, <2>7, OpenPageStep, ClosePageStep, ApplyPageStep
  <2>8. ASSUME NEW i \in DOMAIN known, NEW on \in BOOLEAN, Check(i, on)  PROVE ContactsOk'
    BY <1>0, <2>8, CheckStep
  <2>9. ContactsOk'
    BY <1>1, <2>1, <2>2, <2>3, <2>4, <2>5, <2>6, <2>7, <2>8 DEF ContactsNext
  <2>. QED
    BY <1>1, <2>9 DEF bookmarkVars, ContactsInv
<1>2. ASSUME NEW u \in Uris, MeetNumber(u)  PROVE ContactsInv'
  BY <1>2, MeetNumberStep
<1>3. ASSUME NEW n \in DOMAIN m.numbers, NEW top \in Tops, addBookmark(n, top)  PROVE ContactsInv'
  BY <1>3, addBookmarkStep
<1>4. ASSUME NEW on \in BOOLEAN, NEW top \in Tops, ShowPopular(on, top)  PROVE ContactsInv'
  BY <1>4, ShowPopularStep
<1>5. ASSUME NEW i \in DOMAIN groups, NEW j \in DOMAIN groups[i].nodes, RemoveRow(i, j)
      PROVE  ContactsInv'
  BY <1>5, RemoveRowStep
<1>6. CASE UNCHANGED vars
  BY <1>6, StutterStep
<1>. QED
  BY <1>1, <1>2, <1>3, <1>4, <1>5, <1>6 DEF Next

(* What holds of the contacts, their tree, the books and the page after    *)
(* any steps of Akonadi, of the slots, of the user and of the bookmarks:   *)
(* the strengthening the next three theorems rest on.                      *)
THEOREM ContactsInvariance == Spec => []ContactsInv
<1>1. Init => ContactsInv
  BY Start
<1>2. ContactsInv /\ [Next]_vars => ContactsInv'
  BY NextKeepsContacts
<1>. QED
  BY <1>1, <1>2, PTL DEF Spec

LEMMA InvGivesTree == ContactsInv => TreeAgrees
<1>. SUFFICES ASSUME ContactsInv  PROVE TreeAgrees
  OBVIOUS
<1>. DEFINE S == Belongs(m)
            tree == m.tree
<1>1. TreeOk(tree, S) /\ Range(m.contacts) = S
  BY DEF ContactsInv, ContactsOk, ContentOk, Sound, ListedOk, ToSet, Range
<1>2. Rowed(tree)
  BY <1>1 DEF TreeOk
<1>3. \A i \in DOMAIN tree : i \in Nat /\ \A j \in DOMAIN tree[i].nodes : j \in Nat
  <2>1. tree \in Seq(Branches)
    BY <1>1 DEF TreeOk
  <2>2. \A i \in DOMAIN tree : i \in Nat /\ tree[i] \in Branches
    BY <2>1, SeqAt
  <2>3. \A i \in DOMAIN tree : tree[i].nodes \in Seq(Nodes)
    BY <2>2, BranchFields
  <2>. QED
    BY <2>2, <2>3
<1>4. \A p \in Places(tree) : \E i, j \in Nat : p = <<i, j>> /\ At(tree, ContactAt(p), i, j)
  <2>. TAKE p \in Places(tree)
  <2>1. PICK i \in DOMAIN tree : p \in {<<i, j>> : j \in DOMAIN tree[i].nodes}
    BY DEF Places
  <2>2. PICK j \in DOMAIN tree[i].nodes : p = <<i, j>>
    BY <2>1
  <2>3. ContactAt(p) = tree[i].nodes[j].contact
    BY <2>2 DEF ContactAt
  <2>4. At(tree, ContactAt(p), i, j)
    BY <2>1, <2>2, <2>3 DEF At
  <2>. QED
    BY <1>3, <2>2, <2>4
<1>5. \A p \in Places(tree) : ContactAt(p) \in S
  <2>1. \A i \in DOMAIN tree : \A j \in DOMAIN tree[i].nodes : tree[i].nodes[j].contact \in S
    BY <1>1 DEF TreeOk
  <2>. QED
    BY <1>4, <2>1 DEF At
<1>6. \A o \in S : \E p \in Places(tree) : ContactAt(p) = o
  <2>. TAKE o \in S
  <2>1. PICK i, j \in Nat : At(tree, o, i, j)
    BY <1>1 DEF TreeOk
  <2>2. <<i, j>> \in Places(tree)
    BY <2>1 DEF At, Places
  <2>3. ContactAt(<<i, j>>) = o
    BY <2>1 DEF At, ContactAt
  <2>. QED
    BY <2>2, <2>3
<1>7. \A p, q \in Places(tree) : ContactAt(p) = ContactAt(q) => p = q
  <2>1. \A o \in S, i, j, k, l \in Nat : At(tree, o, i, j) /\ At(tree, o, k, l) => i = k /\ j = l
    BY <1>1 DEF TreeOk
  <2>2. ASSUME NEW p \in Places(tree), NEW q \in Places(tree), ContactAt(p) = ContactAt(q)
        PROVE  p = q
    <3>1. PICK i, j \in Nat : p = <<i, j>> /\ At(tree, ContactAt(p), i, j)
      BY <1>4
    <3>2. PICK k, l \in Nat : q = <<k, l>> /\ At(tree, ContactAt(q), k, l)
      BY <1>4
    <3>3. i = k /\ j = l
      BY <1>5, <2>1, <2>2, <3>1, <3>2
    <3>. QED
      BY <3>1, <3>2, <3>3
  <2>. QED
    BY <2>2
<1>8. {ContactAt(p) : p \in Places(tree)} = Range(m.contacts)
  <2>. HIDE DEF S, tree
  <2>. QED
    BY <1>1, <1>5, <1>6
<1>. QED
  BY <1>2, <1>7, <1>8 DEF TreeAgrees, Rowed

(* Each listed contact has exactly one node in the dock's tree, and every  *)
(* node and category knows its row (slotContactAdded, reloadCategories):   *)
(* for any books and however the contacts come and the dock is sorted.     *)
THEOREM TreeCorrect == Spec => []TreeAgrees
<1>1. Spec => []ContactsInv
  BY ContactsInvariance
<1>2. ContactsInv => TreeAgrees
  BY InvGivesTree
<1>. QED
  BY <1>1, <1>2, PTL

LEMMA InvGivesPlaceholders == ContactsInv => PlaceholderResolved
<1>. SUFFICES ASSUME ContactsInv  PROVE PlaceholderResolved
  OBVIOUS
<1>1. Sound(m)
  BY DEF ContactsInv, ContactsOk, ContentOk
<1>2. Range(m.contacts) = Belongs(m)
  BY <1>1 DEF Sound, ListedOk, ToSet, Range
<1>3. ASSUME NEW o \in Objects(m)
      PROVE  Contains(m.parents[m.part[o]], o) /\ IsInjective(m.parents[m.part[o]])
  <2>. DEFINE ps == m.parents[m.part[o]]
  <2>1. m.part[o] \in Objects(m) /\ IsInjective(ps) /\ o \in ToSet(ps)
    BY <1>1, <1>3 DEF Sound, PartsOk
  <2>2. ps \in Seq(Nat)
    <3>1. m.parents \in Seq(Seq(Nat)) /\ DOMAIN m.parents = Objects(m)
      BY <1>1, FieldsOf DEF Sound, Sized, Objects
    <3>. QED
      BY <2>1, <3>1, SeqAt
  <2>. HIDE DEF ps
  <2>3. Contains(ps, o)
    BY <2>1, <2>2 DEF ToSet, Contains
  <2>. QED
    BY <2>1, <2>3 DEF ps
<1>4. ASSUME NEW o \in Objects(m), m.owner[o] = None,
             NEW q \in Range(m.contacts), m.uid[q] = m.uid[o]
      PROVE  \E x \in Range(m.contacts) : m.uid[x] = m.uid[o] /\ SamePart(m, o, x)
  <2>1. o \in Objects(m) \ Belongs(m) /\ q \in Belongs(m) /\ m.uid[o] \in Uids
    <3>1. m.uid \in Seq(Uids) /\ DOMAIN m.uid = Objects(m)
      BY <1>1, FieldsOf DEF Sound, Sized, Objects
    <3>2. m.uid[o] \in Uids
      BY <3>1, SeqAt
    <3>. QED
      BY <1>2, <1>4, <3>2 DEF Belongs
  <2>2. m.byUid[m.uid[o]] # 0
    BY <1>1, <1>4, <2>1 DEF Sound, ListedOk
  <2>3. m.placeholders[m.uid[o]] # o
    <3>1. o # 0
      BY <1>1, FieldsOf DEF Sound, Sized, Objects
    <3>. QED
      BY <1>1, <2>1, <2>2, <3>1 DEF Sound, HeldOk
  <2>4. m.part[o] \in Belongs(m) /\ m.uid[m.part[o]] = m.uid[o]
    BY <1>1, <2>1, <2>3 DEF Sound, HeldOk
  <2>5. m.part[m.part[o]] = m.part[o]
    BY <1>1, <2>4 DEF Sound, PartsOk, Belongs
  <2>6. o # 0 /\ m.part[o] # 0
    BY <1>1, <2>4, FieldsOf DEF Sound, Sized, Objects, Belongs
  <2>. QED
    BY <1>2, <2>4, <2>5, <2>6 DEF SamePart
<1>. QED
  BY <1>3, <1>4 DEF PlaceholderResolved

(* Whoever was given a placeholder has the contact of that uid once it is  *)
(* listed, and is told of its changes (getPlaceHolder, addContact, merge): *)
(* for any number of placeholders, contacts and books of the same uid.     *)
THEOREM PlaceholdersCorrect == Spec => []PlaceholderResolved
<1>1. Spec => []ContactsInv
  BY ContactsInvariance
<1>2. ContactsInv => PlaceholderResolved
  BY InvGivesPlaceholders
<1>. QED
  BY <1>1, <1>2, PTL

LEMMA InvGivesSwitches == ContactsInv => SwitchesAgree
<1>. SUFFICES ASSUME ContactsInv  PROVE SwitchesAgree
  OBVIOUS
<1>1. Sound(m) /\ Live(m, enabled, gone) /\ BackendsAsStored
  BY DEF ContactsInv, ContactsOk, ContentOk, PageOk
<1>2. Range(m.contacts) = Belongs(m)
  BY <1>1 DEF Sound, ListedOk, ToSet, Range
<1>3. \A o \in Belongs(m) : m.part[o] = o
  BY <1>1 DEF Sound, PartsOk, Belongs
<1>4. ASSUME NEW o \in Belongs(m), enabled[m.owner[o]], o \notin gone
      PROVE  m.active[m.part[o]]
  BY <1>1, <1>3, <1>4 DEF Live
<1>5. EnabledIsActive
  BY <1>2, <1>4 DEF EnabledIsActive
<1>. QED
  BY <1>1, <1>5 DEF SwitchesAgree

(* What a book's switch says is so: the contacts of an enabled book are    *)
(* active, but for those the user has deleted and those of a uid by which  *)
(* a deletion was notified, and the books that are on are those the next   *)
(* start loads (addBackend, save, enable), for any number of books,        *)
(* checked, applied and appearing in any order.                            *)
THEOREM SwitchesCorrect == Spec => []SwitchesAgree
<1>1. Spec => []ContactsInv
  BY ContactsInvariance
<1>2. ContactsInv => SwitchesAgree
  BY InvGivesSwitches
<1>. QED
  BY <1>1, <1>2, PTL

-----------------------------------------------------------------------------
(* What is bookmarked stays apart while the contacts change.               *)

(* No step of the contacts takes a number, or the contact of one, away.    *)
LEMMA ContactsEvolve ==
  ASSUME ContactsOk, ContactsNext
  PROVE  Evolves(m, m')
<1>. DEFINE c == m'
<1>1. Sound(m) /\ Sized(m) /\ PartsOk(m) /\ ListedOk(m) /\ BooksOk
  BY DEF ContactsOk, ContentOk, Sound
<1>2. ASSUME c = m  PROVE Evolves(m, c)
  BY <1>1, <1>2, SameEvolves DEF Same
<1>3. ASSUME NEW s, NEW K, SwitchesIn(s, K), c = s.m  PROVE Evolves(m, c)
  BY <1>1, <1>3, SameEvolves DEF SwitchesIn
<1>4. ASSUME NEW o \in Belongs(m), c = setActive(m, o, FALSE)  PROVE Evolves(m, c)
  BY <1>1, <1>4, SetActiveEffect, SameEvolves DEF Alike
<1>5. ASSUME NEW b \in Backends, slotInsertCollection(b)  PROVE c = m
  BY <1>5 DEF slotInsertCollection, SetBackend, load, Backend
<1>6. ASSUME NEW b \in Backends, itemsReceived(b)  PROVE Evolves(m, c)
  <2>1. c = Received(b) /\ sent[b] \in Held /\ role \in Roles
    BY <1>1, <1>6, Zenon DEF itemsReceived, Received, BooksOk, ContactsOk
  <2>. QED
    BY <1>1, <2>1, ItemsEffect
<1>7. ASSUME NEW b \in Backends, mail[b] # <<>>  PROVE Head(mail[b]) \in Letters
  <2>1. mail[b] \in Seq(Letters)
    BY <1>1 DEF BooksOk
  <2>. QED
    BY <1>7, <2>1
<1>8. ASSUME NEW b \in Backends, slotItemAdded(b)  PROVE Evolves(m, c)
  <2>1. Head(mail[b]).uid \in Uids /\ Head(mail[b]).payload \in Payloads
    BY <1>7, <1>8 DEF slotItemAdded, Letters
  <2>. QED
    BY <1>1, <1>8, <2>1, ItemAddedEffect DEF slotItemAdded, ContactsOk
<1>9. ASSUME NEW b \in Backends, slotItemChanged(b)  PROVE Evolves(m, c)
  <2>1. PICK u, p, o : u = Head(mail[b]).uid /\ p = Head(mail[b]).payload /\ o = m.byUid[u]
    OBVIOUS
  <2>2. u \in Uids /\ p \in Payloads
    BY <1>7, <1>9, <2>1 DEF slotItemChanged, Letters
  <2>3. c = IF o = 0 THEN m ELSE fillContact(m, o, p)
    BY <1>9, <2>1 DEF slotItemChanged
  <2>4. o # 0 => o \in Belongs(m) /\ m.uid[o] = u
    BY <1>1, <2>1, <2>2 DEF ListedOk
  <2>5. CASE o # 0
    <3>1. o \in Objects(m) /\ m.byUid[m.uid[o]] # 0
      BY <2>1, <2>4, <2>5 DEF Belongs
    <3>. QED
      BY <1>1, <2>2, <2>3, <2>5, <3>1, FillEvolves
  <2>. QED
    BY <1>2, <2>3, <2>5
<1>10. ASSUME NEW b \in Backends, slotItemRemoved(b)  PROVE Evolves(m, c)
  <2>1. PICK o : o = IF b \in RemoteIdIsUid THEN m.byUid[Head(mail[b]).uid] ELSE 0
    OBVIOUS
  <2>2. Head(mail[b]).uid \in Uids
    BY <1>7, <1>10 DEF slotItemRemoved, Letters
  <2>3. IF o = 0 THEN c = m ELSE c = setActive(m, o, FALSE)
    BY <1>10, <2>1 DEF slotItemRemoved
  <2>4. o # 0 => o \in Belongs(m)
    BY <1>1, <2>1, <2>2 DEF ListedOk
  <2>. QED
    BY <1>2, <1>4, <2>3, <2>4
<1>11. ASSUME ContactRemoved  PROVE Evolves(m, c)
  BY <1>4, <1>11 DEF ContactRemoved, ContactsOk, ContentOk
<1>12. ASSUME NEW u \in Uids, AskForContact(u)  PROVE Evolves(m, c)
  BY <1>1, <1>12, PlaceHolderEffect DEF AskForContact
<1>13. ASSUME NEW r \in Roles, setRole(r)  PROVE Evolves(m, c)
  BY <1>1, <1>13, ReloadEffect DEF setRole
<1>14. ASSUME ApplyPage  PROVE Evolves(m, c)
  <2>1. known \in Seq(Backends) /\ rows \in Nat \union {-1} /\ rows <= Len(known)
    BY DEF ContactsOk, BooksOk, PageOk
  <2>2. PICK list : list = SubSeq(known, 1, rows)
    OBVIOUS
  <2>3. list \in Seq(Backends) /\ ToSet(list) \subseteq Range(known)
    <3>1. CASE rows = -1
      <4>1. list = <<>>
        BY <2>1, <2>2, <3>1
      <4>2. <<>> \in Seq(Backends) /\ ToSet(<<>>) = {}
        BY DEF ToSet
      <4>. QED
        BY <4>1, <4>2
    <3>2. CASE rows \in Nat
      <4>1. list \in Seq(Backends) /\ DOMAIN list = 1..rows /\ \A i \in 1..rows : list[i] = known[i]
        BY <2>1, <2>2, <3>2
      <4>. QED
        BY <2>1, <3>2, <4>1 DEF ToSet, Range
    <3>. QED
      BY <2>1, <3>1, <3>2
  <2>4. PICK K : K = Range(known)
    OBVIOUS
  <2>5. SwitchesIn(Backend, K)
    BY <2>4, BackendSwitches
  <2>6. SwitchesIn(FoldLeft(Saved, Backend, list), K)
    BY <2>3, <2>4, <2>5, AppliedEffect
  <2>7. c = FoldLeft(Saved, Backend, list).m
    BY <1>14, <2>2 DEF ApplyPage, SetBackend
  <2>. QED
    BY <1>3, <2>6, <2>7
<1>15. ASSUME NEW b \in Backends, NEW u \in Uids, NEW p \in Payloads \union {None}, StoreItem(b, u, p)
       PROVE  c = m
  BY <1>15 DEF StoreItem
<1>16. ASSUME \/ \E b \in Backends : FetchAnswered(b)
              \/ \E o \in Range(m.contacts) : RemoveContact(o)
              \/ OpenPage \/ ClosePage
              \/ \E i \in DOMAIN known, on \in BOOLEAN : Check(i, on)
       PROVE  c = m
  BY <1>16 DEF FetchAnswered, RemoveContact, OpenPage, ClosePage, Check
<1>. HIDE DEF c
<1>17. Evolves(m, c)
  BY <1>2, <1>5, <1>6, <1>8, <1>9, <1>10, <1>11, <1>12, <1>13, <1>14, <1>15, <1>16 DEF ContactsNext
<1>. QED
  BY <1>17 DEF c

(* Nobody is found by the uid of a hash.                                   *)
Unfound(c, h) == h.uid = None \/ c.byUid[h.uid] = 0

(* The number a hash has led to: the first one, or that of the contact.    *)
Leads(c, n, h) ==
  /\ n \in DOMAIN c.numbers /\ c.numbers[n].uri = h.uri
  /\ IF Unfound(c, h) THEN IsFirst(c.numbers, n, h.uri) ELSE OfUid(c, c.numbers[n], h.uid)

(* The number there is that a hash would lead to; it may still have no     *)
(* contact.                                                                *)
Would(c, n, h) ==
  /\ n \in DOMAIN c.numbers /\ c.numbers[n].uri = h.uri
  /\ IF Unfound(c, h) THEN IsFirst(c.numbers, n, h.uri)
     ELSE c.numbers[n].contact = 0 \/ OfUid(c, c.numbers[n], h.uid)

(* The contact of a number is the one a hash names.                        *)
Own(c, n, h) == h.uid # None /\ OfUid(c, c.numbers[n], h.uid)

LEMMA HashFields ==
  ASSUME NEW h \in Hashes
  PROVE  /\ h.uri \in Uris /\ h.uid \in Uids \union {None} /\ (h.uid # None => h.uid \in Uids)
         /\ \A k \in Hashes : h.uri = k.uri /\ h.uid = k.uid => h = k
  BY DEF Hashes

LEMMA LeadsWould ==
  ASSUME NEW c, NEW n, NEW h, Leads(c, n, h)
  PROVE  Would(c, n, h)
  BY DEF Leads, Would

(* A hash would lead to one number.                                        *)
LEMMA WouldBeOne ==
  ASSUME NEW c, Sized(c), Separate(c), NEW h, NEW n, NEW k, Would(c, n, h), Would(c, k, h)
  PROVE  n = k
<1>. SUFFICES ASSUME n # k  PROVE FALSE
  OBVIOUS
<1>1. /\ n \in DOMAIN c.numbers /\ k \in DOMAIN c.numbers
      /\ c.numbers[n].uri = h.uri /\ c.numbers[k].uri = h.uri
  BY DEF Would
<1>2. n \in Nat /\ k \in Nat
  BY <1>1, FieldsOf, SizesOf DEF Sized
<1>3. /\ c.numbers[n].contact # 0 /\ c.numbers[k].contact # 0
      /\ ~OfUid(c, c.numbers[k], c.uid[c.numbers[n].contact])
  BY <1>1 DEF Separate
<1>4. CASE Unfound(c, h)
  BY <1>1, <1>2, <1>4 DEF Would, IsFirst
<1>5. CASE ~Unfound(c, h)
  BY <1>3, <1>5 DEF Would, OfUid
<1>. QED
  BY <1>4, <1>5

(* A number with a contact keeps the uid.                                  *)
LEMMA OwnStays ==
  ASSUME NEW c, c.numbers \in PhoneNumbers, NEW d, d.numbers \in PhoneNumbers, Grown(c, d),
         NEW n \in DOMAIN c.numbers
  PROVE  /\ n \in DOMAIN d.numbers /\ d.numbers[n].uri = c.numbers[n].uri
         /\ c.numbers[n].contact # 0 =>
              d.numbers[n].contact # 0 /\ d.uid[d.numbers[n].contact] = c.uid[c.numbers[n].contact]
         /\ \A u : OfUid(c, c.numbers[n], u) => OfUid(d, d.numbers[n], u)
  BY SizesOf DEF Grown, OfUid

LEMMA LeadsStays ==
  ASSUME NEW c, Sized(c), NEW d, Alike(c, d), Grown(c, d), NEW h, NEW n, Leads(c, n, h)
  PROVE  Leads(d, n, h)
<1>1. /\ c.numbers \in PhoneNumbers /\ d.numbers \in PhoneNumbers /\ n \in DOMAIN c.numbers
      /\ Unfound(d, h) <=> Unfound(c, h)
  BY FieldsOf DEF Sized, Alike, Same, Leads, Unfound
<1>2. IsFirst(c.numbers, n, h.uri) => IsFirst(d.numbers, n, h.uri)
  BY <1>1, FirstStays
<1>. QED
  BY <1>1, <1>2, OwnStays DEF Leads

(* Where there is a number of its URI already, a hash leads to no number   *)
(* it would not have led to before, but to a new one of its contact.       *)
LEMMA WouldWas ==
  ASSUME NEW c, Sized(c), NEW d, Sized(d), NumbersOk(c), Evolves(c, d), NEW h \in Hashes,
         NEW f \in DOMAIN c.numbers, IsFirst(c.numbers, f, h.uri), NEW n, Would(d, n, h)
  PROVE  \/ n \in DOMAIN c.numbers /\ Would(c, n, h)
         \/ n \notin DOMAIN c.numbers /\ Own(d, n, h)
<1>1. /\ c.numbers \in PhoneNumbers /\ d.numbers \in PhoneNumbers /\ Grown(c, d)
      /\ Separate(c) /\ Separate(d) /\ Known(c)
      /\ \A u \in Uids : c.byUid[u] # 0 => d.byUid[u] # 0
  BY FieldsOf DEF Sized, Evolves, NumbersOk
<1>2. /\ n \in DOMAIN d.numbers /\ d.numbers[n].uri = h.uri /\ c.numbers[f].uri = h.uri
      /\ f \in DOMAIN d.numbers /\ d.numbers[f].uri = h.uri
  BY <1>1, OwnStays DEF Would, IsFirst
<1>3. Unfound(d, h) => Unfound(c, h)
  BY <1>1, HashFields DEF Unfound
<1>4. CASE n \notin DOMAIN c.numbers
  <2>1. f < n
    BY <1>1, <1>2, <1>4, SizesOf
  <2>2. ~IsFirst(d.numbers, n, h.uri)
    BY <1>2, <2>1 DEF IsFirst
  <2>3. f # n
    BY <1>4
  <2>4. d.numbers[n].contact # 0
    BY <1>1, <1>2, <2>3 DEF Separate
  <2>. QED
    BY <1>4, <2>2, <2>4 DEF Would, Own, Unfound
<1>5. CASE n \in DOMAIN c.numbers
  <2>1. c.numbers[n].uri = h.uri
    BY <1>1, <1>2, <1>5, OwnStays
  <2>2. c.numbers[n].contact = 0 => IsFirst(c.numbers, n, h.uri)
    <3>1. c.numbers[n].contact = 0 => n = f
      BY <1>1, <1>2, <1>5, <2>1 DEF Separate
    <3>. QED
      BY <3>1
  <2>3. CASE Unfound(d, h)
    <3>1. IsFirst(c.numbers, n, h.uri)
      BY <1>1, <1>5, <2>3, FirstStays DEF Would
    <3>. QED
      BY <1>3, <1>5, <2>1, <2>3, <3>1 DEF Would
  <2>4. CASE ~Unfound(d, h) /\ c.numbers[n].contact = 0
    BY <1>5, <2>1, <2>2, <2>4 DEF Would
  <2>5. CASE ~Unfound(d, h) /\ c.numbers[n].contact # 0
    <3>1. /\ d.numbers[n].contact # 0
          /\ d.uid[d.numbers[n].contact] = c.uid[c.numbers[n].contact]
      BY <1>1, <1>5, <2>5, OwnStays
    <3>2. OfUid(d, d.numbers[n], h.uid)
      BY <2>5, <3>1 DEF Would
    <3>3. OfUid(c, c.numbers[n], h.uid)
      BY <2>5, <3>1, <3>2 DEF OfUid
    <3>4. ~Unfound(c, h)
      BY <1>1, <1>5, <2>5, <3>3 DEF Known, OfUid, Unfound
    <3>. QED
      BY <1>5, <2>1, <3>3, <3>4 DEF Would
  <2>. QED
    BY <2>3, <2>4, <2>5
<1>. QED
  BY <1>4, <1>5

(* Reading a hash leads to its number.                                     *)
LEMMA HashLeads ==
  ASSUME NEW c, Sound(c), NumbersOk(c), NEW h \in Hashes
  PROVE  /\ Alike(c, fromHash(c, h)[1]) /\ Evolves(c, fromHash(c, h)[1])
         /\ Leads(fromHash(c, h)[1], fromHash(c, h)[2], h)
<1>1. PICK o : o = IF h.uid = None THEN 0 ELSE c.byUid[h.uid]
  OBVIOUS
<1>2. h.uri \in Uris /\ Sized(c) /\ Len(c.part) \in Nat /\ Objects(c) = 1..Len(c.part)
  BY HashFields, FieldsOf DEF Sound, Sized, Objects
<1>3. o # 0 => o \in Objects(c) /\ c.uid[o] = h.uid /\ c.byUid[c.uid[o]] # 0
  BY <1>1, HashFields DEF Sound, ListedOk, Belongs
<1>4. o = 0 <=> Unfound(c, h)
  BY <1>1 DEF Unfound
<1>5. fromHash(c, h) = getNumber(c, h.uri, o)
  BY <1>1 DEF fromHash
<1>6. PICK r : r = getNumber(c, h.uri, o)
  OBVIOUS
<1>7. o \in 0..Len(c.part)
  BY <1>2, <1>3
<1>8. Met(c, r[1], r[2], h.uri, o) /\ Evolves(c, r[1])
  BY <1>2, <1>3, <1>6, <1>7, NumberFits
<1>9. Alike(c, r[1]) /\ r[1].byUid = c.byUid
  BY <1>5, <1>6, HashEffect DEF Alike, Same
<1>10. Leads(r[1], r[2], h)
  BY <1>3, <1>4, <1>8, <1>9 DEF Met, Leads, Unfound
<1>. QED
  BY <1>5, <1>6, <1>8, <1>9, <1>10

(* x is what the first k hashes of a list lead to.                         *)
LeadsTo(c, list, k, x) ==
  /\ Reads(c, x) /\ Evolves(c, x[1]) /\ x[3] \in Seq(Nat) /\ Len(x[3]) = k
  /\ \A i \in 1..k : /\ Leads(x[1], x[3][i], list[i]) /\ x[3][i] \in DOMAIN x[2]
                     /\ \E l \in 1..k : x[3][l] = x[3][i] /\ x[2][x[3][i]] = list[l]

LEMMA AddedLeads ==
  ASSUME NEW c, Sound(c), NumbersOk(c), NEW list \in Seq(Hashes), NEW k \in Nat, k + 1 <= Len(list),
         NEW x, LeadsTo(c, list, k, x)
  PROVE  LeadsTo(c, list, k + 1, Added(x, list[k + 1]))
<1>. DEFINE h == list[k + 1]
            r == fromHash(x[1], h)
            w == [n \in DOMAIN x[2] \union {r[2]} |-> IF n = r[2] THEN h ELSE x[2][n]]
            y == Append(x[3], r[2])
<1>1. h \in Hashes
  <2>1. k + 1 \in DOMAIN list
    OBVIOUS
  <2>. QED
    BY <2>1, SeqAt
<1>2. Sound(x[1]) /\ NumbersOk(x[1]) /\ Reads(c, x) /\ Evolves(c, x[1]) /\ Sized(x[1]) /\ Sized(c)
  BY AlikeIsSound DEF LeadsTo, Reads, Evolves, Sound
<1>3. Added(x, h) = <<r[1], w, y>>
  BY DEF Added
<1>. HIDE DEF h
<1>4. /\ Alike(x[1], r[1]) /\ Evolves(x[1], r[1]) /\ Leads(r[1], r[2], h)
  BY <1>1, <1>2, HashLeads
<1>5. r[2] \in Nat /\ Reads(c, Added(x, h))
  BY <1>1, <1>2, HashEffect, AddedReads
<1>6. Evolves(c, r[1]) /\ Grown(x[1], r[1])
  BY <1>2, <1>4, EvolvesTwice DEF Alike, Evolves
<1>. HIDE DEF r
<1>7. /\ y \in Seq(Nat) /\ Len(y) = k + 1 /\ y[k + 1] = r[2] /\ \A i \in 1..k : y[i] = x[3][i]
  BY <1>5, AppendedTo DEF LeadsTo
<1>. HIDE DEF y
<1>8. ASSUME NEW i \in 1..(k + 1)
      PROVE  /\ Leads(r[1], y[i], list[i]) /\ y[i] \in DOMAIN w
             /\ \E l \in 1..(k + 1) : y[l] = y[i] /\ w[y[i]] = list[l]
  <2>1. CASE y[i] = r[2]
    <3>1. w[y[i]] = h /\ y[i] \in DOMAIN w
      BY <2>1
    <3>2. k + 1 \in 1..(k + 1) /\ y[k + 1] = y[i] /\ h = list[k + 1]
      BY <1>7, <2>1 DEF h
    <3>3. Leads(r[1], y[i], list[i])
      <4>1. CASE i = k + 1
        BY <1>4, <1>7, <4>1 DEF h
      <4>2. CASE i \in 1..k
        <5>1. list[i] \in Hashes
          BY <4>2, SeqAt
        <5>. QED
          BY <1>2, <1>4, <1>6, <1>7, <4>2, <5>1, LeadsStays DEF LeadsTo
      <4>. QED
        BY <4>1, <4>2
    <3>. HIDE DEF w
    <3>. QED
      BY <3>1, <3>2, <3>3
  <2>2. CASE y[i] # r[2]
    <3>1. i \in 1..k /\ y[i] = x[3][i]
      BY <1>7, <2>2
    <3>2. list[i] \in Hashes
      BY <3>1, SeqAt
    <3>3. Leads(r[1], y[i], list[i])
      BY <1>2, <1>4, <1>6, <3>1, <3>2, LeadsStays DEF LeadsTo
    <3>4. PICK l \in 1..k : x[3][l] = x[3][i] /\ x[2][x[3][i]] = list[l]
      BY <3>1 DEF LeadsTo
    <3>5. y[i] \in DOMAIN x[2]
      BY <3>1 DEF LeadsTo
    <3>6. y[i] \in DOMAIN w /\ w[y[i]] = list[l]
      BY <2>2, <3>1, <3>4, <3>5
    <3>7. l \in 1..(k + 1) /\ y[l] = y[i]
      BY <1>7, <3>1, <3>4
    <3>. HIDE DEF w
    <3>. QED
      BY <3>3, <3>6, <3>7
  <2>. QED
    BY <2>1, <2>2
<1>. HIDE DEF w
<1>9. PICK z : z = Added(x, h)
  OBVIOUS
<1>10. z[1] = r[1] /\ z[2] = w /\ z[3] = y
  BY <1>3, <1>9
<1>11. LeadsTo(c, list, k + 1, z)
  BY <1>5, <1>6, <1>7, <1>8, <1>9, <1>10 DEF LeadsTo
<1>. QED
  BY <1>9, <1>11 DEF h

(* Each hash of a list leads to a number, whose hash is then one of the    *)
(* list that leads to it.                                                  *)
LEMMA NumbersLead ==
  ASSUME NEW c, Sound(c), NumbersOk(c), NEW uids \in Stored, NEW list \in Seq(Hashes)
  PROVE  LeadsTo(c, list, Len(list), NumbersOf(c, uids, list))
<1>1. Len(list) \in Nat
  OBVIOUS
<1>2. PICK g : ReadBy(g, c, uids, list)
  BY <1>1, NumbersEffect
<1>. DEFINE Q == {k \in Nat : k <= Len(list) => LeadsTo(c, list, k, g[k])}
<1>3. 0 \in Q
  <2>1. PICK x : x = <<c, uids, <<>>>>
    OBVIOUS
  <2>2. x[1] = c /\ x[2] = uids /\ x[3] = <<>> /\ g[0] = x
    BY <1>2, <2>1 DEF ReadBy
  <2>3. Reads(c, x) /\ Evolves(c, c)
    BY <2>2, SameEvolves DEF Reads, Alike, Same, Sound
  <2>4. <<>> \in Seq(Nat) /\ Len(<<>>) = 0
    OBVIOUS
  <2>5. LeadsTo(c, list, 0, x)
    BY <2>2, <2>3, <2>4 DEF LeadsTo
  <2>. QED
    BY <2>2, <2>5
<1>4. ASSUME NEW k \in Nat, k \in Q  PROVE k + 1 \in Q
  <2>. SUFFICES ASSUME k + 1 <= Len(list)  PROVE LeadsTo(c, list, k + 1, g[k + 1])
    OBVIOUS
  <2>1. k <= Len(list) /\ k + 1 \in 1..Len(list) /\ k + 1 - 1 = k
    BY <1>1
  <2>2. g[k + 1] = Added(g[k], list[k + 1])
    BY <1>2, <2>1 DEF ReadBy
  <2>3. LeadsTo(c, list, k, g[k])
    BY <1>4, <2>1
  <2>. QED
    BY <2>2, <2>3, AddedLeads
<1>5. Nat \subseteq Q
  <2>. HIDE DEF Q
  <2>. QED
    BY <1>3, <1>4, Induction
<1>6. LeadsTo(c, list, Len(list), g[Len(list)])
  BY <1>1, <1>5
<1>. QED
  BY <1>2, <1>6 DEF ReadBy

-----------------------------------------------------------------------------
(* The rows of the bookmarks.                                              *)

LetterNames == {"number", Unloaded} \union {CategoryOf["name"][p] : p \in Payloads}
Names == LetterNames \union {"mp"}
Listings == [number : Nat, row : Nat]
Groups == [name : Names, popular : BOOLEAN, row : Nat, nodes : Seq(Listings)]

(* The categories know their rows, and the popular one has its own name.   *)
GroupsOk(t) ==
  /\ t \in Seq(Groups)
  /\ \A i \in DOMAIN t : t[i].row = i /\ t[i].popular = (t[i].name = "mp")

(* Number n is at place j of category i, which is one of letters.          *)
LetterAt(t, i, j, n) ==
  /\ i \in DOMAIN t /\ j \in DOMAIN t[i].nodes /\ t[i].name # "mp"
  /\ t[i].nodes[j].number = n
Lettered(t) == {n \in Nat : \E i, j \in Nat : LetterAt(t, i, j, n)}

LEMMA LettersAreNot ==
  "mp" \notin LetterNames
<1>1. \A p \in Payloads : CategoryOf["name"][p] # "mp"
  BY BookmarksAssumption
<1>. QED
  BY <1>1 DEF LetterNames, Unloaded

LEMMA GroupFields ==
  ASSUME NEW x \in Groups
  PROVE  /\ x.name \in Names /\ x.row \in Nat /\ x.nodes \in Seq(Listings) /\ x.popular \in BOOLEAN
         /\ \A ns \in Seq(Listings) : /\ [x EXCEPT !.nodes = ns] \in Groups
                                      /\ [x EXCEPT !.nodes = ns].name = x.name
                                      /\ [x EXCEPT !.nodes = ns].row = x.row
                                      /\ [x EXCEPT !.nodes = ns].popular = x.popular
                                      /\ [x EXCEPT !.nodes = ns].nodes = ns
BY DEF Groups

(* v is t with the nodes of category i replaced.                           *)
Renodes(t, v, i, ns) ==
  /\ v \in Seq(Groups) /\ DOMAIN v = DOMAIN t /\ v[i].nodes = ns
  /\ \A k \in DOMAIN t : /\ v[k].name = t[k].name /\ v[k].row = t[k].row /\ v[k].popular = t[k].popular
                         /\ k # i => v[k].nodes = t[k].nodes

LEMMA NodesReplaced ==
  ASSUME NEW t \in Seq(Groups), NEW i \in DOMAIN t, NEW ns \in Seq(Listings)
  PROVE  Renodes(t, [t EXCEPT ![i].nodes = ns], i, ns)
<1>1. PICK b : b = [t[i] EXCEPT !.nodes = ns]
  OBVIOUS
<1>2. t[i] \in Groups
  BY SeqAt
<1>3. /\ b \in Groups /\ b.name = t[i].name /\ b.row = t[i].row /\ b.popular = t[i].popular
      /\ b.nodes = ns
  BY <1>1, <1>2, GroupFields
<1>4. [t EXCEPT ![i].nodes = ns] = [t EXCEPT ![i] = b]
  BY <1>1
<1>5. PICK v : v = [t EXCEPT ![i] = b]
  OBVIOUS
<1>6. Len(t) \in Nat /\ DOMAIN t = 1..Len(t)
  OBVIOUS
<1>7. v \in Seq(Groups) /\ DOMAIN v = DOMAIN t /\ v[i] = b /\ \A k \in DOMAIN t : k # i => v[k] = t[k]
  BY <1>3, <1>5, <1>6, ChangedAt
<1>8. Renodes(t, v, i, ns)
  BY <1>3, <1>7, Zenon DEF Renodes
<1>. QED
  BY <1>4, <1>5, <1>8

LEMMA RenodesOk ==
  ASSUME NEW t, GroupsOk(t), NEW v, NEW i \in DOMAIN t, NEW ns, Renodes(t, v, i, ns)
  PROVE  GroupsOk(v)
<1>1. v \in Seq(Groups) /\ DOMAIN v = DOMAIN t
  BY DEF Renodes
<1>2. ASSUME NEW k \in DOMAIN v  PROVE v[k].row = k /\ v[k].popular = (v[k].name = "mp")
  <2>1. v[k].name = t[k].name /\ v[k].row = t[k].row /\ v[k].popular = t[k].popular
    BY <1>1 DEF Renodes
  <2>2. t[k].row = k /\ t[k].popular = (t[k].name = "mp")
    BY <1>1 DEF GroupsOk
  <2>. QED
    BY <2>1, <2>2, Zenon
<1>. QED
  BY <1>1, <1>2, Zenon DEF GroupsOk

LEMMA ListedNode ==
  ASSUME NEW ns \in Seq(Listings), NEW n \in Nat
  PROVE  LET x == [number |-> n, row |-> Len(ns) + 1]
             w == Append(ns, x)
         IN /\ w \in Seq(Listings) /\ Len(ns) \in Nat /\ DOMAIN w = 1..(Len(ns) + 1)
            /\ DOMAIN ns = 1..Len(ns)
            /\ w[Len(ns) + 1].number = n
            /\ \A j \in 1..Len(ns) : w[j] = ns[j]
<1>. DEFINE x == [number |-> n, row |-> Len(ns) + 1]
<1>1. x \in Listings /\ x.number = n /\ Len(ns) \in Nat
  BY DEF Listings
<1>. HIDE DEF x
<1>2. /\ Append(ns, x) \in Seq(Listings) /\ DOMAIN Append(ns, x) = 1..(Len(ns) + 1)
      /\ Append(ns, x)[Len(ns) + 1] = x /\ \A j \in 1..Len(ns) : Append(ns, x)[j] = ns[j]
      /\ DOMAIN ns = 1..Len(ns)
  BY <1>1, AppendElements
<1>. QED
  BY <1>1, <1>2 DEF x

(* A number is added at the end of a category.                             *)
LEMMA ListedGrows ==
  ASSUME NEW t, GroupsOk(t), NEW i \in DOMAIN t, NEW n \in Nat
  PROVE  /\ GroupsOk(Listed(t, i, n)) /\ DOMAIN Listed(t, i, n) = DOMAIN t
         /\ \A k \in DOMAIN t : Listed(t, i, n)[k].name = t[k].name
         /\ Lettered(Listed(t, i, n)) = IF t[i].name = "mp" THEN Lettered(t) ELSE Lettered(t) \union {n}
<1>1. t \in Seq(Groups) /\ t[i] \in Groups /\ Len(t) \in Nat /\ DOMAIN t = 1..Len(t)
  BY SeqAt DEF GroupsOk
<1>2. PICK ns \in Seq(Listings) : ns = t[i].nodes
  BY <1>1, GroupFields
<1>3. PICK l \in Nat : l = Len(ns)
  OBVIOUS
<1>4. PICK w : w = Append(ns, [number |-> n, row |-> l + 1])
  OBVIOUS
<1>5. /\ w \in Seq(Listings) /\ DOMAIN w = 1..(l + 1) /\ DOMAIN ns = 1..l /\ w[l + 1].number = n
      /\ \A j \in 1..l : w[j] = ns[j]
  BY <1>3, <1>4, ListedNode
<1>6. PICK v : v = [t EXCEPT ![i].nodes = w]
  OBVIOUS
<1>7. Listed(t, i, n) = v
  BY <1>1, <1>2, <1>3, <1>4, <1>6 DEF Listed
<1>8. Renodes(t, v, i, w)
  BY <1>1, <1>5, <1>6, NodesReplaced
<1>9. /\ DOMAIN v = DOMAIN t /\ v[i].nodes = w
      /\ \A k \in DOMAIN t : v[k].name = t[k].name /\ (k # i => v[k].nodes = t[k].nodes)
  BY <1>8 DEF Renodes
<1>10. ASSUME NEW x, NEW k, NEW j
       PROVE  LetterAt(v, k, j, x) <=> \/ LetterAt(t, k, j, x)
                                       \/ k = i /\ j = l + 1 /\ x = n /\ t[i].name # "mp"
  <2>1. CASE k # i
    BY <1>9, <2>1 DEF LetterAt
  <2>2. CASE k = i
    <3>1. LetterAt(v, i, j, x) <=> j \in 1..(l + 1) /\ t[i].name # "mp" /\ w[j].number = x
      BY <1>5, <1>9 DEF LetterAt
    <3>2. LetterAt(t, i, j, x) <=> j \in 1..l /\ t[i].name # "mp" /\ ns[j].number = x
      BY <1>2, <1>5 DEF LetterAt
    <3>3. j \in 1..(l + 1) <=> j \in 1..l \/ j = l + 1
      OBVIOUS
    <3>4. l + 1 \notin 1..l
      OBVIOUS
    <3>. QED
      BY <1>5, <2>2, <3>1, <3>2, <3>3, <3>4
  <2>. QED
    BY <2>1, <2>2
<1>11. Lettered(v) = IF t[i].name = "mp" THEN Lettered(t) ELSE Lettered(t) \union {n}
  <2>1. i \in Nat /\ l + 1 \in Nat
    BY <1>1
  <2>. QED
    BY <1>10, <2>1 DEF Lettered
<1>12. GroupsOk(v)
  BY <1>8, RenodesOk
<1>. QED
  BY <1>7, <1>9, <1>11, <1>12

(* A category is there for each letter.                                    *)
LEMMA WithLetterOk ==
  ASSUME NEW t, GroupsOk(t), NEW letter \in LetterNames
  PROVE  /\ GroupsOk(WithLetter(t, letter)) /\ Lettered(WithLetter(t, letter)) = Lettered(t)
         /\ \E i \in DOMAIN WithLetter(t, letter) : WithLetter(t, letter)[i].name = letter
<1>. DEFINE x == Group(letter, FALSE, Len(t) + 1)
            u == Append(t, x)
            z == Len(t)
<1>1. t \in Seq(Groups) /\ z \in Nat /\ DOMAIN t = 1..z
  BY DEF GroupsOk
<1>2. x \in Groups /\ x.name = letter /\ x.row = z + 1 /\ x.nodes = <<>> /\ x.popular = FALSE
  BY <1>1 DEF Group, Groups, Names
<1>. HIDE DEF x
<1>3. u \in Seq(Groups) /\ DOMAIN u = 1..(z + 1) /\ u[z + 1] = x /\ \A i \in 1..z : u[i] = t[i]
  BY <1>1, <1>2, AppendElements
<1>. HIDE DEF u, z
<1>4. \A i \in 1..(z + 1) : i \in 1..z \/ i = z + 1
  BY <1>1
<1>5. GroupsOk(u)
  <2>1. ASSUME NEW i \in DOMAIN u  PROVE u[i].row = i /\ u[i].popular = (u[i].name = "mp")
    <3>1. CASE i \in 1..z
      BY <1>1, <1>3, <3>1 DEF GroupsOk
    <3>2. CASE i = z + 1
      <4>1. letter # "mp"
        BY LettersAreNot
      <4>2. (letter = "mp") = FALSE
        BY <4>1
      <4>3. u[i].row = i /\ u[i].popular = FALSE /\ u[i].name = letter
        BY <1>2, <1>3, <3>2, Zenon
      <4>. QED
        BY <4>2, <4>3, Zenon
    <3>. QED
      BY <1>3, <1>4, <3>1, <3>2
  <2>. QED
    BY <1>3, <2>1, Zenon DEF GroupsOk
<1>6. \A i, j, n : LetterAt(u, i, j, n) <=> LetterAt(t, i, j, n)
  <2>. TAKE i, j, n
  <2>1. CASE i \in 1..z
    <3>1. u[i] = t[i] /\ i \in DOMAIN u /\ i \in DOMAIN t
      BY <1>1, <1>3, <2>1
    <3>. QED
      BY <3>1, Zenon DEF LetterAt
  <2>2. CASE i = z + 1
    <3>1. u[i].nodes = <<>> /\ i \notin DOMAIN t
      BY <1>1, <1>2, <1>3, <2>2
    <3>. QED
      BY <3>1 DEF LetterAt
  <2>3. CASE i \notin 1..(z + 1)
    <3>1. i \notin DOMAIN u /\ i \notin DOMAIN t
      BY <1>1, <1>3, <2>3
    <3>. QED
      BY <3>1 DEF LetterAt
  <2>. QED
    BY <1>4, <2>1, <2>2, <2>3
<1>7. Lettered(u) = Lettered(t)
  BY <1>6 DEF Lettered
<1>8. z + 1 \in DOMAIN u /\ u[z + 1].name = letter
  BY <1>1, <1>2, <1>3
<1>9. WithLetter(t, letter) = IF \E i \in DOMAIN t : t[i].name = letter THEN t ELSE u
  BY DEF WithLetter, u, x
<1>. QED
  BY <1>5, <1>7, <1>8, <1>9

LEMMA InLetterGrows ==
  ASSUME NEW c, NEW t, GroupsOk(t), NEW n \in Nat, LetterOf(c, n) \in LetterNames
  PROVE  GroupsOk(InLetter(c, t, n)) /\ Lettered(InLetter(c, t, n)) = Lettered(t) \union {n}
<1>1. PICK letter : letter = LetterOf(c, n)
  OBVIOUS
<1>2. PICK u : u = WithLetter(t, letter)
  OBVIOUS
<1>3. GroupsOk(u) /\ Lettered(u) = Lettered(t) /\ \E i \in DOMAIN u : u[i].name = letter
  BY <1>1, <1>2, WithLetterOk
<1>4. PICK i : i = CHOOSE k \in DOMAIN u : u[k].name = letter
  OBVIOUS
<1>5. i \in DOMAIN u /\ u[i].name = letter /\ letter # "mp"
  BY <1>1, <1>3, <1>4, LettersAreNot
<1>6. InLetter(c, t, n) = Listed(u, i, n)
  BY <1>1, <1>2, <1>4 DEF InLetter
<1>. QED
  BY <1>3, <1>5, <1>6, ListedGrows

(* The popular numbers are listed in a category that is none of letters.   *)
PopularOnly == {t \in Seq(Groups) : GroupsOk(t) /\ Lettered(t) = {} /\ DOMAIN t = {1} /\ t[1].name = "mp"}

LEMMA TopListed ==
  ASSUME NEW q \in Seq(Nat)
  PROVE  FoldLeft(LAMBDA t, n : Listed(t, 1, n), <<Group("mp", TRUE, 1)>>, q) \in PopularOnly
<1>. DEFINE N == Len(q)
            D == PopularOnly
            base == <<Group("mp", TRUE, 1)>>
            Each(x, y) == Listed(x, 1, y)
            step == [i \in 1..N |-> [x \in D |-> Each(x, q[i])]]
            Folds(g) == g = [r \in SUBSET (DOMAIN q) |->
                               IF r = {} THEN base ELSE Each(g[r \ {Max(r)}], q[Max(r)])]
            f == CHOOSE g : Folds(g)
<1>1. N \in Nat /\ DOMAIN q = 1..N /\ \A i \in 1..N : q[i] \in Nat
  OBVIOUS
<1>2. FoldLeft(LAMBDA t, n : Listed(t, 1, n), base, q) = f[DOMAIN q]
  BY DEF FoldLeft, MapThenFoldSet
<1>3. base \in D
  <2>1. PICK x : x = Group("mp", TRUE, 1)
    OBVIOUS
  <2>2. x \in Groups /\ x.name = "mp" /\ x.row = 1 /\ x.popular = TRUE /\ x.nodes = <<>>
    BY <2>1 DEF Group, Groups, Names
  <2>3. PICK t : t = <<x>>
    OBVIOUS
  <2>4. t \in Seq(Groups) /\ DOMAIN t = {1} /\ t[1] = x
    BY <2>2, <2>3
  <2>5. GroupsOk(t)
    <3>1. \A i \in DOMAIN t : t[i].row = i /\ t[i].popular = (t[i].name = "mp")
      BY <2>2, <2>4, Zenon
    <3>. QED
      BY <2>4, <3>1, Zenon DEF GroupsOk
  <2>6. \A i, j, n : ~LetterAt(t, i, j, n)
    BY <2>2, <2>4, Zenon DEF LetterAt
  <2>7. Lettered(t) = {}
    BY <2>6 DEF Lettered
  <2>8. t \in PopularOnly
    BY <2>2, <2>4, <2>5, <2>7 DEF PopularOnly
  <2>. QED
    BY <2>1, <2>3, <2>8
<1>4. ASSUME NEW x \in D, NEW y \in Nat  PROVE Each(x, y) \in D
  <2>1. GroupsOk(x) /\ Lettered(x) = {} /\ DOMAIN x = {1} /\ x[1].name = "mp" /\ 1 \in DOMAIN x
    BY DEF PopularOnly
  <2>2. PICK w : w = Listed(x, 1, y)
    OBVIOUS
  <2>3. GroupsOk(w) /\ DOMAIN w = {1} /\ w[1].name = "mp" /\ Lettered(w) = {}
    BY <2>1, <2>2, ListedGrows
  <2>4. w \in PopularOnly
    BY <2>3 DEF PopularOnly, GroupsOk
  <2>. QED
    BY <2>2, <2>4
<1>. HIDE DEF D, base, Each
<1>5. step \in [1..N -> [D -> D]]
  BY <1>1, <1>4
<1>6. Folds(f)
  <2>1. PICK g \in [SUBSET (1..N) -> D] : IsFold(g, N, base, step)
    <3>. HIDE DEF N, step
    <3>. QED
      BY <1>1, <1>3, <1>5, FoldExists
  <2>2. \A r \in SUBSET (1..N) : r # {} => Max(r) \in 1..N /\ g[r \ {Max(r)}] \in D
    BY <1>1, MaxIsMember
  <2>3. \A r \in SUBSET (1..N) : r # {} =>
          step[Max(r)][g[r \ {Max(r)}]] = Each(g[r \ {Max(r)}], q[Max(r)])
    BY <1>1, <2>2
  <2>4. Folds(g)
    <3>. HIDE DEF step
    <3>. QED
      BY <1>1, <2>1, <2>3, Zenon DEF IsFold
  <2>. HIDE DEF Folds
  <2>. QED
    BY <2>4
<1>7. \A r \in SUBSET (1..N) : f[r] = IF r = {} THEN base ELSE Each(f[r \ {Max(r)}], q[Max(r)])
  <2>. HIDE DEF f
  <2>. QED
    BY <1>1, <1>6, Zenon
<1>. HIDE DEF f, step, Folds
<1>8. f[1..0] \in D
  <2>1. 1..0 = {} /\ 1..0 \in SUBSET (1..N)
    OBVIOUS
  <2>. QED
    BY <1>3, <1>7, <2>1
<1>9. ASSUME NEW k \in 1..N, f[1..(k - 1)] \in D  PROVE f[1..k] \in D
  <2>1. /\ 1..k \in SUBSET (1..N) /\ 1..k # {} /\ Max(1..k) = k
        /\ (1..k) \ {k} = 1..(k - 1)
    BY <1>1, UpTo
  <2>2. f[1..k] = Each(f[1..(k - 1)], q[k])
    BY <1>7, <2>1
  <2>. QED
    BY <1>1, <1>4, <1>9, <2>2
<1>10. f[1..N] \in D
  BY <1>1, <1>8, <1>9, FoldValues
<1>. QED
  BY <1>1, <1>2, <1>10, Zenon DEF D, base

(* Each number that is read is then listed under a letter, and no other.   *)
Tables == {t \in Seq(Groups) : GroupsOk(t)}
AllIn(c, base, q) == FoldLeft(LAMBDA t, n : InLetter(c, t, n), base, q)

LEMMA AllListed ==
  ASSUME NEW c, NEW base \in Tables, NEW q \in Seq(Nat), \A i \in DOMAIN q : LetterOf(c, q[i]) \in LetterNames
  PROVE  /\ GroupsOk(AllIn(c, base, q))
         /\ Lettered(AllIn(c, base, q)) = Lettered(base) \union Range(q)
<1>. DEFINE N == Len(q)
            D == Tables
            Each(x, i) == InLetter(c, x, q[i])
            step == [i \in 1..N |-> [x \in D |-> Each(x, i)]]
            Folds(g) == g = [r \in SUBSET (DOMAIN q) |->
                               IF r = {} THEN base ELSE Each(g[r \ {Max(r)}], Max(r))]
            f == CHOOSE g : Folds(g)
<1>1. N \in Nat /\ DOMAIN q = 1..N /\ \A i \in 1..N : q[i] \in Nat
  OBVIOUS
<1>2. AllIn(c, base, q) = f[DOMAIN q]
  BY DEF AllIn, FoldLeft, MapThenFoldSet
<1>3. base \in D
  OBVIOUS
<1>4. ASSUME NEW x \in D, NEW i \in 1..N
      PROVE  Each(x, i) \in D /\ Lettered(Each(x, i)) = Lettered(x) \union {q[i]}
  <2>1. GroupsOk(x) /\ q[i] \in Nat /\ LetterOf(c, q[i]) \in LetterNames
    BY <1>1 DEF Tables
  <2>2. PICK w : w = InLetter(c, x, q[i])
    OBVIOUS
  <2>3. GroupsOk(w) /\ Lettered(w) = Lettered(x) \union {q[i]}
    BY <2>1, <2>2, InLetterGrows
  <2>4. w \in Tables
    BY <2>3 DEF Tables, GroupsOk
  <2>. QED
    BY <2>2, <2>3, <2>4
<1>. HIDE DEF D, Each
<1>5. step \in [1..N -> [D -> D]]
  BY <1>1, <1>4
<1>6. Folds(f)
  <2>1. PICK g \in [SUBSET (1..N) -> D] : IsFold(g, N, base, step)
    <3>. HIDE DEF N, step
    <3>. QED
      BY <1>1, <1>3, <1>5, FoldExists
  <2>2. \A r \in SUBSET (1..N) : r # {} => Max(r) \in 1..N /\ g[r \ {Max(r)}] \in D
    BY <1>1, MaxIsMember
  <2>3. \A r \in SUBSET (1..N) : r # {} =>
          step[Max(r)][g[r \ {Max(r)}]] = Each(g[r \ {Max(r)}], Max(r))
    BY <1>1, <2>2
  <2>4. Folds(g)
    <3>. HIDE DEF step
    <3>. QED
      BY <1>1, <2>1, <2>3, Zenon DEF IsFold
  <2>. HIDE DEF Folds
  <2>. QED
    BY <2>4
<1>7. \A r \in SUBSET (1..N) : f[r] = IF r = {} THEN base ELSE Each(f[r \ {Max(r)}], Max(r))
  <2>. HIDE DEF f
  <2>. QED
    BY <1>1, <1>6, Zenon
<1>. HIDE DEF f, step, Folds
<1>. DEFINE Q == {k \in Nat : k <= N => /\ f[1..k] \in D
                                        /\ Lettered(f[1..k]) = Lettered(base) \union {q[i] : i \in 1..k}}
<1>8. 0 \in Q
  <2>1. 1..0 = {} /\ 1..0 \in SUBSET (1..N)
    OBVIOUS
  <2>2. f[1..0] = base
    BY <1>7, <2>1
  <2>. QED
    BY <1>3, <2>1, <2>2
<1>9. ASSUME NEW k \in Nat, k \in Q  PROVE k + 1 \in Q
  <2>. SUFFICES ASSUME k + 1 <= N
                PROVE  /\ f[1..(k + 1)] \in D
                       /\ Lettered(f[1..(k + 1)]) = Lettered(base) \union {q[i] : i \in 1..(k + 1)}
    OBVIOUS
  <2>1. k + 1 \in 1..N /\ k <= N /\ k + 1 - 1 = k
    BY <1>1
  <2>2. /\ 1..(k + 1) \in SUBSET (1..N) /\ 1..(k + 1) # {} /\ Max(1..(k + 1)) = k + 1
        /\ (1..(k + 1)) \ {k + 1} = 1..k
    BY <1>1, <2>1, UpTo
  <2>3. f[1..(k + 1)] = Each(f[1..k], k + 1)
    BY <1>7, <2>2
  <2>4. f[1..k] \in D /\ Lettered(f[1..k]) = Lettered(base) \union {q[i] : i \in 1..k}
    BY <1>9, <2>1
  <2>5. {q[i] : i \in 1..(k + 1)} = {q[i] : i \in 1..k} \union {q[k + 1]}
    <3>1. 1..(k + 1) = (1..k) \union {k + 1}
      OBVIOUS
    <3>. QED
      BY <3>1
  <2>6. Each(f[1..k], k + 1) \in D /\ Lettered(Each(f[1..k], k + 1)) = Lettered(f[1..k]) \union {q[k + 1]}
    BY <1>4, <2>1, <2>4
  <2>. QED
    BY <2>3, <2>4, <2>5, <2>6
<1>10. Nat \subseteq Q
  <2>. HIDE DEF Q
  <2>. QED
    BY <1>8, <1>9, Induction
<1>11. f[1..N] \in D /\ Lettered(f[1..N]) = Lettered(base) \union {q[i] : i \in 1..N}
  BY <1>1, <1>10
<1>12. {q[i] : i \in 1..N} = Range(q)
  BY <1>1 DEF Range
<1>13. GroupsOk(f[1..N])
  BY <1>11 DEF D, Tables
<1>. QED
  BY <1>1, <1>2, <1>11, <1>12, <1>13

(* A number's letter is its own, or one of its contact's name.             *)
LEMMA LetterTyped ==
  ASSUME NEW c, Sized(c), PartsOk(c), NEW n \in DOMAIN c.numbers
  PROVE  LetterOf(c, n) \in LetterNames
<1>1. PICK o : o = c.numbers[n].contact
  OBVIOUS
<1>2. LetterOf(c, n) = IF o = 0 THEN "number"
                       ELSE IF c.payload[c.part[o]] = None THEN Unloaded
                       ELSE CategoryOf["name"][c.payload[c.part[o]]]
  BY <1>1 DEF LetterOf
<1>3. o # 0 => c.payload[c.part[o]] \in Payloads \union {None}
  <2>. SUFFICES ASSUME o # 0  PROVE c.payload[c.part[o]] \in Payloads \union {None}
    OBVIOUS
  <2>1. /\ c.payload \in Seq(Payloads \union {None}) /\ DOMAIN c.payload = DOMAIN c.part
        /\ Len(c.part) \in Nat /\ DOMAIN c.part = 1..Len(c.part)
    BY FieldsOf DEF Sized
  <2>2. o \in Objects(c)
    BY <1>1, <2>1 DEF Sized, Objects
  <2>3. c.part[o] \in DOMAIN c.payload
    BY <2>1, <2>2 DEF PartsOk, Objects
  <2>. QED
    BY <2>1, <2>3, SeqAt
<1>. QED
  BY <1>2, <1>3 DEF LetterNames

(* The categories after a reading.                                         *)
LEMMA GroupsEffect ==
  ASSUME NEW read, Sized(read[1]), PartsOk(read[1]), read[3] \in Seq(Nat),
         \A i \in DOMAIN read[3] : read[3][i] \in DOMAIN read[1].numbers,
         NEW popular \in BOOLEAN, NEW top \in Seq(Nat)
  PROVE  /\ GroupsOk(GroupsOf(read, popular, top))
         /\ Lettered(GroupsOf(read, popular, top)) = Range(read[3])
<1>1. PICK base : base = IF popular
                         THEN FoldLeft(LAMBDA t, n : Listed(t, 1, n), <<Group("mp", TRUE, 1)>>, top)
                         ELSE <<>>
  BY Zenon
<1>2. base \in Tables /\ Lettered(base) = {}
  <2>1. CASE popular
    BY <1>1, <2>1, TopListed, Zenon DEF PopularOnly, Tables
  <2>2. CASE ~popular
    <3>1. base = <<>>
      BY <1>1, <2>2
    <3>2. GroupsOk(base) /\ Lettered(base) = {}
      BY <3>1 DEF GroupsOk, Lettered, LetterAt
    <3>. QED
      BY <3>2 DEF Tables, GroupsOk
  <2>. QED
    BY <2>1, <2>2
<1>3. \A i \in DOMAIN read[3] : LetterOf(read[1], read[3][i]) \in LetterNames
  BY LetterTyped
<1>4. GroupsOf(read, popular, top) = AllIn(read[1], base, read[3])
  BY <1>1, Zenon DEF GroupsOf, AllIn
<1>5. /\ GroupsOk(AllIn(read[1], base, read[3]))
      /\ Lettered(AllIn(read[1], base, read[3])) = Lettered(base) \union Range(read[3])
  BY <1>2, <1>3, AllListed
<1>. QED
  BY <1>2, <1>4, <1>5

-----------------------------------------------------------------------------
(* The bookmarks and their rows.                                           *)

(* Two hashes of a list that have one URI, but none of X, would not lead   *)
(* to one number.                                                          *)
Apart(c, list, X) ==
  \A h, k \in Range(list) : h.uri = k.uri /\ h # k /\ h.uri \notin X =>
    /\ \E f \in DOMAIN c.numbers : IsFirst(c.numbers, f, h.uri)
    /\ \A n \in DOMAIN c.numbers : ~(Would(c, n, h) /\ Would(c, n, k))

(* The number a hash of a list would lead to is marked, or has the contact *)
(* the hash names.                                                         *)
Claimed(c, list, marks, X) ==
  \A h \in Range(list) : h.uri \notin X =>
    /\ \E f \in DOMAIN c.numbers : IsFirst(c.numbers, f, h.uri)
    /\ \A n \in DOMAIN c.numbers : Would(c, n, h) => n \in marks \/ Own(c, n, h)

(* Number n of a letter has the hash it was read by, and no other that is  *)
(* saved would lead to it.                                                 *)
RowOk(c, list, marks, ids, n, X) ==
  /\ n \in DOMAIN c.numbers /\ n \in marks /\ n \in DOMAIN ids
  /\ ids[n] \in Hashes /\ ids[n].uri = c.numbers[n].uri
  /\ \A h \in Range(list) : h.uri \notin X /\ Would(c, n, h) => ids[n] = h

RowsOk(c, list, marks, ids, t, X) ==
  /\ GroupsOk(t)
  /\ \A n \in Lettered(t) : RowOk(c, list, marks, ids, n, X)
  /\ \A h \in Range(list) : h.uri \notin X => \E n \in Lettered(t) : ids[n] = h

BookmarksInv ==
  /\ NumbersOk(m) /\ saved \in Seq(Hashes) /\ showPopular \in BOOLEAN
  /\ Apart(m, saved, doubled) /\ Claimed(m, saved, bookmarked, doubled)
  /\ RowsOk(m, saved, bookmarked, nuid, groups, doubled)

(* What the contacts and numbers do keeps all of this.                     *)
LEMMA ListsStay ==
  ASSUME NEW c, Sized(c), NEW d, Sized(d), NumbersOk(c), Evolves(c, d),
         NEW list \in Seq(Hashes), NEW X
  PROVE  /\ Apart(c, list, X) => Apart(d, list, X)
         /\ \A marks : Claimed(c, list, marks, X) => Claimed(d, list, marks, X)
<1>1. c.numbers \in PhoneNumbers /\ d.numbers \in PhoneNumbers /\ Grown(c, d)
  BY FieldsOf DEF Sized, Evolves
<1>2. \A h \in Range(list) : h \in Hashes
  BY SeqAt DEF Range
<1>3. ASSUME NEW h \in Range(list), NEW f \in DOMAIN c.numbers, IsFirst(c.numbers, f, h.uri)
      PROVE  \E e \in DOMAIN d.numbers : IsFirst(d.numbers, e, h.uri)
  BY <1>1, <1>3, FirstStays, OwnStays
<1>4. ASSUME Apart(c, list, X), NEW h \in Range(list), NEW k \in Range(list),
             h.uri = k.uri, h # k, h.uri \notin X
      PROVE  /\ \E f \in DOMAIN d.numbers : IsFirst(d.numbers, f, h.uri)
             /\ \A n \in DOMAIN d.numbers : ~(Would(d, n, h) /\ Would(d, n, k))
  <2>1. PICK f \in DOMAIN c.numbers : IsFirst(c.numbers, f, h.uri)
    BY <1>4 DEF Apart
  <2>2. ASSUME NEW n \in DOMAIN d.numbers, Would(d, n, h), Would(d, n, k)  PROVE FALSE
    <3>1. \/ n \in DOMAIN c.numbers /\ Would(c, n, h)
          \/ n \notin DOMAIN c.numbers /\ Own(d, n, h)
      BY <1>2, <2>1, <2>2, WouldWas
    <3>2. \/ n \in DOMAIN c.numbers /\ Would(c, n, k)
          \/ n \notin DOMAIN c.numbers /\ Own(d, n, k)
      BY <1>2, <1>4, <2>1, <2>2, WouldWas
    <3>3. CASE n \in DOMAIN c.numbers
      BY <1>4, <3>1, <3>2, <3>3 DEF Apart
    <3>4. CASE n \notin DOMAIN c.numbers
      <4>1. h.uid = k.uid
        BY <3>1, <3>2, <3>4 DEF Own, OfUid
      <4>. QED
        BY <1>2, <1>4, <4>1, HashFields
    <3>. QED
      BY <3>3, <3>4
  <2>. QED
    BY <1>3, <2>1, <2>2
<1>5. ASSUME NEW marks, Claimed(c, list, marks, X), NEW h \in Range(list), h.uri \notin X
      PROVE  /\ \E f \in DOMAIN d.numbers : IsFirst(d.numbers, f, h.uri)
             /\ \A n \in DOMAIN d.numbers : Would(d, n, h) => n \in marks \/ Own(d, n, h)
  <2>1. PICK f \in DOMAIN c.numbers : IsFirst(c.numbers, f, h.uri)
    BY <1>5 DEF Claimed
  <2>2. ASSUME NEW n \in DOMAIN d.numbers, Would(d, n, h)  PROVE n \in marks \/ Own(d, n, h)
    <3>1. \/ n \in DOMAIN c.numbers /\ Would(c, n, h)
          \/ n \notin DOMAIN c.numbers /\ Own(d, n, h)
      BY <1>2, <2>1, <2>2, WouldWas
    <3>2. n \in DOMAIN c.numbers /\ Own(c, n, h) => Own(d, n, h)
      BY <1>1, OwnStays DEF Own
    <3>. QED
      BY <1>5, <3>1, <3>2 DEF Claimed
  <2>. QED
    BY <1>3, <2>1, <2>2
<1>. QED
  BY <1>4, <1>5 DEF Apart, Claimed

LEMMA RowStays ==
  ASSUME NEW c, Sized(c), NEW d, Sized(d), NumbersOk(c), Evolves(c, d), NEW list \in Seq(Hashes),
         NEW X, NEW marks, NEW ids, NEW n, RowOk(c, list, marks, ids, n, X)
  PROVE  RowOk(d, list, marks, ids, n, X)
<1>1. c.numbers \in PhoneNumbers /\ d.numbers \in PhoneNumbers /\ Grown(c, d)
  BY FieldsOf DEF Sized, Evolves
<1>2. n \in DOMAIN c.numbers
  BY DEF RowOk
<1>3. n \in DOMAIN d.numbers /\ d.numbers[n].uri = c.numbers[n].uri
  BY <1>1, <1>2, OwnStays
<1>4. PICK f \in DOMAIN c.numbers : IsFirst(c.numbers, f, c.numbers[n].uri)
  BY <1>1, <1>2, FirstExists
<1>5. \A h \in Range(list) : Would(d, n, h) => Would(c, n, h)
  <2>. SUFFICES ASSUME NEW h \in Range(list), Would(d, n, h)  PROVE Would(c, n, h)
    OBVIOUS
  <2>1. h \in Hashes /\ h.uri = c.numbers[n].uri
    BY <1>3, SeqAt DEF Range, Would
  <2>. QED
    BY <1>2, <1>4, <2>1, WouldWas
<1>. QED
  BY <1>3, <1>5 DEF RowOk

LEMMA RowsStay ==
  ASSUME NEW c, Sized(c), NEW d, Sized(d), NumbersOk(c), Evolves(c, d), NEW list \in Seq(Hashes),
         NEW X, NEW marks, NEW ids, NEW t, RowsOk(c, list, marks, ids, t, X)
  PROVE  RowsOk(d, list, marks, ids, t, X)
  BY RowStays DEF RowsOk

(* What is read has its rows.                                              *)
LEMMA ReadRows ==
  ASSUME NEW c, Sound(c), NumbersOk(c), NEW uids \in Stored, NEW list \in Seq(Hashes), NEW X,
         Apart(c, list, X), NEW x, x = NumbersOf(c, uids, list),
         NEW popular \in BOOLEAN, NEW top \in Seq(Nat), NEW marks, Range(x[3]) \subseteq marks
  PROVE  /\ Sound(x[1]) /\ NumbersOk(x[1])
         /\ Apart(x[1], list, X) /\ Claimed(x[1], list, marks, X)
         /\ RowsOk(x[1], list, marks, x[2], GroupsOf(x, popular, top), X)
<1>1. LeadsTo(c, list, Len(list), x)
  BY NumbersLead
<1>2. /\ Sized(c) /\ Sound(x[1]) /\ Sized(x[1]) /\ PartsOk(x[1]) /\ NumbersOk(x[1]) /\ Evolves(c, x[1])
      /\ x[3] \in Seq(Nat) /\ Len(x[3]) = Len(list)
  BY <1>1, AlikeIsSound DEF LeadsTo, Reads, Evolves, Sound
<1>3. Apart(x[1], list, X)
  BY <1>2, ListsStay
<1>. DEFINE N == Len(list)
            d == x[1]
            t == GroupsOf(x, popular, top)
<1>4. N \in Nat /\ DOMAIN list = 1..N /\ DOMAIN x[3] = 1..N /\ \A i \in 1..N : list[i] \in Hashes
  BY <1>2
<1>5. \A i \in 1..N : /\ Leads(d, x[3][i], list[i]) /\ x[3][i] \in DOMAIN x[2]
                      /\ \E l \in 1..N : x[3][l] = x[3][i] /\ x[2][x[3][i]] = list[l]
  BY <1>1 DEF LeadsTo
<1>6. GroupsOk(t) /\ Lettered(t) = Range(x[3])
  <2>1. \A i \in DOMAIN x[3] : x[3][i] \in DOMAIN x[1].numbers
    BY <1>4, <1>5 DEF Leads
  <2>. QED
    BY <1>2, <2>1, GroupsEffect
<1>. HIDE DEF t
<1>7. ASSUME NEW n \in Range(x[3])
      PROVE  \E g \in Range(list) : /\ Would(d, n, g) /\ n \in DOMAIN x[2] /\ x[2][n] = g
                                    /\ g \in Hashes
  <2>1. PICK i \in 1..N : n = x[3][i]
    BY <1>4 DEF Range
  <2>2. PICK l \in 1..N : x[3][l] = n /\ x[2][n] = list[l]
    BY <1>5, <2>1
  <2>3. PICK g \in Hashes : g = list[l]
    BY <1>4
  <2>4. Leads(d, n, g) /\ n \in DOMAIN x[2] /\ x[2][n] = g /\ g \in Range(list)
    BY <1>4, <1>5, <2>1, <2>2, <2>3 DEF Range
  <2>. QED
    BY <2>4, LeadsWould
<1>8. ASSUME NEW g \in Range(list), NEW h \in Range(list), h.uri \notin X, NEW n,
             Would(d, n, g), Would(d, n, h)
      PROVE  g = h
  BY <1>3, <1>8 DEF Apart, Would
<1>9. ASSUME NEW n \in Range(x[3])  PROVE RowOk(d, list, marks, x[2], n, X)
  BY <1>7, <1>8 DEF RowOk, Would
<1>10. ASSUME NEW h \in Range(list)  PROVE \E n \in Range(x[3]) : Would(d, n, h)
  <2>1. PICK i \in 1..N : h = list[i]
    BY <1>4 DEF Range
  <2>2. x[3][i] \in Range(x[3]) /\ Would(d, x[3][i], h)
    BY <1>4, <1>5, <2>1, LeadsWould DEF Range
  <2>. QED
    BY <2>2
<1>11. ASSUME NEW h \in Range(list), h.uri \notin X  PROVE \E n \in Range(x[3]) : x[2][n] = h
  BY <1>7, <1>8, <1>10, <1>11
<1>12. RowsOk(d, list, marks, x[2], t, X)
  BY <1>6, <1>9, <1>11 DEF RowsOk
<1>13. ASSUME NEW h \in Range(list)
       PROVE  /\ \E f \in DOMAIN d.numbers : IsFirst(d.numbers, f, h.uri)
              /\ \A n \in DOMAIN d.numbers : Would(d, n, h) => n \in marks
  <2>1. PICK k \in Range(x[3]) : Would(d, k, h)
    BY <1>10
  <2>2. k \in DOMAIN d.numbers /\ d.numbers[k].uri = h.uri /\ d.numbers \in PhoneNumbers
    BY <1>2, <2>1, FieldsOf DEF Would, Sized
  <2>3. \E f \in DOMAIN d.numbers : IsFirst(d.numbers, f, h.uri)
    BY <2>2, FirstExists
  <2>4. \A n \in DOMAIN d.numbers : Would(d, n, h) => n = k
    BY <1>2, <2>1, WouldBeOne DEF NumbersOk
  <2>. QED
    BY <2>1, <2>3, <2>4
<1>14. Claimed(d, list, marks, X)
  BY <1>13 DEF Claimed
<1>. QED
  BY <1>2, <1>3, <1>12, <1>14 DEF t

(* The hash of a number leads to it.                                       *)
LEMMA OwnHash ==
  ASSUME Sound(m), NumbersOk(m), NEW n \in DOMAIN m.numbers
  PROVE  Would(m, n, toHash(m, n)) /\ toHash(m, n).uri = m.numbers[n].uri
<1>1. PICK g : g = toHash(m, n)
  OBVIOUS
<1>2. PICK o : o = m.numbers[n].contact
  OBVIOUS
<1>3. Sized(m) /\ m.numbers \in PhoneNumbers
  BY FieldsOf DEF Sound, Sized
<1>4. g.uri = m.numbers[n].uri /\ g.uid = IF o = 0 THEN None ELSE m.uid[o]
  BY <1>1, <1>2 DEF toHash, Hash
<1>5. CASE o = 0
  <2>1. PICK f \in DOMAIN m.numbers : IsFirst(m.numbers, f, m.numbers[n].uri)
    BY <1>3, FirstExists
  <2>2. f = n
    BY <1>2, <1>5, <2>1 DEF NumbersOk, Separate, IsFirst
  <2>. QED
    BY <1>1, <1>4, <1>5, <2>1, <2>2 DEF Would, Unfound
<1>6. CASE o # 0
  <2>1. m.uid[o] \in Uids /\ m.byUid[m.uid[o]] # 0
    BY <1>2, <1>3, <1>6, ContactsOf DEF NumbersOk, Known
  <2>2. ~Unfound(m, g)
    BY <1>4, <1>6, <2>1, ContactsAssumption DEF Unfound
  <2>. QED
    BY <1>1, <1>2, <1>4, <1>6, <2>2 DEF Would, OfUid
<1>. QED
  BY <1>5, <1>6

(* A number that is no bookmark yet is one of its own.                     *)
LEMMA NewBookmark ==
  ASSUME ContactsInv, BookmarksInv, NEW n \in DOMAIN m.numbers, n \notin bookmarked
  PROVE  /\ Append(saved, toHash(m, n)) \in Seq(Hashes)
         /\ Apart(m, Append(saved, toHash(m, n)), doubled)
<1>1. PICK g : g = toHash(m, n)
  OBVIOUS
<1>2. Sound(m) /\ Sized(m) /\ NumbersOk(m) /\ m.numbers \in PhoneNumbers
  BY FieldsOf DEF ContactsInv, ContactsOk, ContentOk, BookmarksInv, Sound, Sized
<1>3. g \in Hashes /\ g.uri = m.numbers[n].uri /\ Would(m, n, g)
  BY <1>1, <1>2, HashTyped, OwnHash
<1>4. \A u : OfUid(m, m.numbers[n], u) => g.uid = u
  BY <1>1 DEF toHash, Hash, OfUid
<1>5. /\ saved \in Seq(Hashes) /\ Append(saved, g) \in Seq(Hashes)
      /\ Range(Append(saved, g)) = Range(saved) \union {g}
  BY <1>3, AppendRange DEF BookmarksInv
<1>6. PICK f \in DOMAIN m.numbers : IsFirst(m.numbers, f, g.uri)
  BY <1>2, <1>3, FirstExists
<1>7. ASSUME NEW h \in Range(saved), h.uri = g.uri, h # g, h.uri \notin doubled,
             NEW k \in DOMAIN m.numbers, Would(m, k, h), Would(m, k, g)
      PROVE  FALSE
  <2>1. k = n
    BY <1>2, <1>3, <1>7, WouldBeOne DEF NumbersOk
  <2>2. Own(m, n, h)
    BY <1>7, <2>1 DEF BookmarksInv, Claimed
  <2>3. h.uid = g.uid /\ h \in Hashes
    BY <1>4, <1>5, <2>2, SeqAt DEF Own, Range
  <2>. QED
    BY <1>3, <1>7, <2>3, HashFields
<1>8. Apart(m, Append(saved, g), doubled)
  <2>1. ASSUME NEW h \in Range(Append(saved, g)), NEW k \in Range(Append(saved, g)),
               h.uri = k.uri, h # k, h.uri \notin doubled
        PROVE  /\ \E e \in DOMAIN m.numbers : IsFirst(m.numbers, e, h.uri)
               /\ \A l \in DOMAIN m.numbers : ~(Would(m, l, h) /\ Would(m, l, k))
    <3>1. CASE h \in Range(saved) /\ k \in Range(saved)
      BY <2>1, <3>1 DEF BookmarksInv, Apart
    <3>2. CASE h = g
      BY <1>5, <1>6, <1>7, <2>1, <3>2
    <3>3. CASE k = g
      BY <1>5, <1>6, <1>7, <2>1, <3>3
    <3>. QED
      BY <1>5, <2>1, <3>1, <3>2, <3>3
  <2>. QED
    BY <2>1 DEF Apart
<1>. QED
  BY <1>1, <1>5, <1>8

(* A row is taken away, and its category once it is empty.                 *)
LEMMA RowField ==
  ASSUME NEW x \in Groups, NEW r \in Nat
  PROVE  /\ [x EXCEPT !.row = r] \in Groups /\ [x EXCEPT !.row = r].row = r
         /\ [x EXCEPT !.row = r].name = x.name /\ [x EXCEPT !.row = r].nodes = x.nodes
         /\ [x EXCEPT !.row = r].popular = x.popular
BY DEF Groups

LEMMA GroupRemoved ==
  ASSUME NEW t, GroupsOk(t), NEW i \in DOMAIN t, t[i].nodes = <<>>
  PROVE  GroupsOk(WithoutGroup(t, i)) /\ Lettered(WithoutGroup(t, i)) = Lettered(t)
<1>. DEFINE from(k) == IF k < i THEN k ELSE k + 1
<1>1. PICK z \in Nat : z = Len(t) /\ DOMAIN t = 1..z /\ t \in Seq(Groups) /\ i \in 1..z
  BY DEF GroupsOk
<1>2. PICK v : v = RemoveAt(t, i)
  OBVIOUS
<1>3. v \in Seq(Groups) /\ DOMAIN v = 1..(z - 1) /\ \A k \in 1..(z - 1) : v[k] = t[from(k)]
  BY <1>1, <1>2, RemoveAtElements
<1>4. PICK w : w = [k \in DOMAIN v |-> [v[k] EXCEPT !.row = k]]
  OBVIOUS
<1>5. WithoutGroup(t, i) = w
  BY <1>2, <1>4 DEF WithoutGroup
<1>6. ASSUME NEW k \in 1..(z - 1)
      PROVE  /\ from(k) \in 1..z /\ from(k) # i /\ w[k] \in Groups /\ w[k].row = k
             /\ w[k].name = t[from(k)].name /\ w[k].nodes = t[from(k)].nodes
             /\ w[k].popular = t[from(k)].popular
  <2>1. from(k) \in 1..z /\ from(k) # i /\ k \in Nat
    BY <1>1
  <2>2. v[k] = t[from(k)] /\ v[k] \in Groups
    BY <1>3, SeqAt
  <2>3. w[k] = [v[k] EXCEPT !.row = k]
    BY <1>3, <1>4
  <2>. HIDE DEF from
  <2>. QED
    BY <2>1, <2>2, <2>3, RowField
<1>7. ASSUME NEW l \in 1..z, l # i  PROVE \E k \in 1..(z - 1) : from(k) = l
  <2>1. CASE l < i
    BY <1>1, <2>1
  <2>2. CASE i < l
    <3>1. l - 1 \in 1..(z - 1) /\ from(l - 1) = l
      BY <1>1, <2>2
    <3>. QED
      BY <3>1
  <2>. QED
    BY <1>1, <1>7, <2>1, <2>2
<1>. HIDE DEF from
<1>8. w \in Seq(Groups) /\ DOMAIN w = 1..(z - 1)
  <2>1. z - 1 \in Nat /\ DOMAIN w = 1..(z - 1)
    BY <1>1, <1>3, <1>4
  <2>2. w = [k \in 1..(z - 1) |-> w[k]]
    BY <1>4, <2>1
  <2>3. w \in [1..(z - 1) -> Groups]
    BY <1>6, <2>2
  <2>. QED
    BY <2>1, <2>3, FunIsSeq
<1>9. GroupsOk(w)
  <2>1. ASSUME NEW k \in DOMAIN w  PROVE w[k].row = k /\ w[k].popular = (w[k].name = "mp")
    <3>1. PICK l : l = from(k)
      OBVIOUS
    <3>2. l \in DOMAIN t /\ w[k].row = k /\ w[k].name = t[l].name /\ w[k].popular = t[l].popular
      BY <1>1, <1>6, <1>8, <3>1
    <3>3. t[l].popular = (t[l].name = "mp")
      BY <3>2 DEF GroupsOk
    <3>. QED
      BY <3>2, <3>3, Zenon
  <2>. QED
    BY <1>8, <2>1, Zenon DEF GroupsOk
<1>10. ASSUME NEW k \in Nat, NEW j \in Nat, NEW n, LetterAt(w, k, j, n)
       PROVE  \E l \in Nat : LetterAt(t, l, j, n)
  <2>1. PICK l : l = from(k)
    OBVIOUS
  <2>2. l \in DOMAIN t /\ l \in Nat /\ w[k].name = t[l].name /\ w[k].nodes = t[l].nodes
    BY <1>1, <1>6, <1>8, <1>10, <2>1 DEF LetterAt
  <2>3. LetterAt(t, l, j, n)
    BY <1>10, <2>2 DEF LetterAt
  <2>. QED
    BY <2>2, <2>3
<1>11. ASSUME NEW l \in Nat, NEW j \in Nat, NEW n, LetterAt(t, l, j, n)
       PROVE  \E k \in Nat : LetterAt(w, k, j, n)
  <2>1. l # i
    BY <1>11 DEF LetterAt
  <2>2. PICK k \in 1..(z - 1) : from(k) = l
    BY <1>1, <1>7, <1>11, <2>1 DEF LetterAt
  <2>3. k \in DOMAIN w /\ w[k].name = t[l].name /\ w[k].nodes = t[l].nodes
    BY <1>6, <1>8, <2>2
  <2>4. LetterAt(w, k, j, n)
    BY <1>11, <2>3 DEF LetterAt
  <2>. QED
    BY <2>2, <2>4
<1>12. Lettered(w) = Lettered(t)
  BY <1>10, <1>11 DEF Lettered
<1>. QED
  BY <1>5, <1>9, <1>12

LEMMA RowRemoved ==
  ASSUME NEW t, GroupsOk(t), NEW i \in DOMAIN t, NEW j \in DOMAIN t[i].nodes
  PROVE  /\ GroupsOk(removeRows(t, i, j)) /\ Lettered(removeRows(t, i, j)) \subseteq Lettered(t)
         /\ \A n \in Lettered(t) : \/ n \in Lettered(removeRows(t, i, j))
                                   \/ t[i].name # "mp" /\ n = t[i].nodes[j].number
<1>. DEFINE from(k) == IF k < j THEN k ELSE k + 1
<1>1. t \in Seq(Groups) /\ t[i] \in Groups /\ i \in Nat
  BY SeqAt DEF GroupsOk
<1>2. PICK ns \in Seq(Listings) : ns = t[i].nodes
  BY <1>1, GroupFields
<1>3. PICK z \in Nat : z = Len(ns) /\ DOMAIN ns = 1..z /\ j \in 1..z
  BY <1>2
<1>4. PICK w : w = RemoveAt(ns, j)
  OBVIOUS
<1>5. w \in Seq(Listings) /\ DOMAIN w = 1..(z - 1) /\ \A k \in 1..(z - 1) : w[k] = ns[from(k)]
  BY <1>3, <1>4, RemoveAtElements
<1>6. PICK u : u = [t EXCEPT ![i].nodes = w]
  OBVIOUS
<1>7. Renodes(t, u, i, w)
  BY <1>1, <1>5, <1>6, NodesReplaced
<1>8. GroupsOk(u)
  BY <1>7, RenodesOk
<1>9. /\ DOMAIN u = DOMAIN t /\ u[i].nodes = w
      /\ \A k \in DOMAIN t : u[k].name = t[k].name /\ (k # i => u[k].nodes = t[k].nodes)
  BY <1>7 DEF Renodes
<1>10. Lettered(u) \subseteq Lettered(t)
  <2>1. ASSUME NEW k \in Nat, NEW l \in Nat, NEW n, LetterAt(u, k, l, n)
        PROVE  \E e \in Nat : LetterAt(t, k, e, n)
    <3>1. CASE k # i
      BY <1>9, <2>1, <3>1 DEF LetterAt
    <3>2. CASE k = i
      <4>1. l \in 1..(z - 1) /\ t[i].name # "mp" /\ w[l].number = n
        BY <1>5, <1>9, <2>1, <3>2 DEF LetterAt
      <4>2. from(l) \in 1..z /\ from(l) \in Nat /\ ns[from(l)].number = n
        BY <1>3, <1>5, <4>1
      <4>3. LetterAt(t, i, from(l), n)
        BY <1>2, <1>3, <4>1, <4>2 DEF LetterAt
      <4>. QED
        BY <3>2, <4>2, <4>3
    <3>. QED
      BY <3>1, <3>2
  <2>. QED
    BY <2>1 DEF Lettered
<1>11. ASSUME NEW n \in Lettered(t), ~(t[i].name # "mp" /\ n = t[i].nodes[j].number)
       PROVE  n \in Lettered(u)
  <2>1. PICK k \in Nat, l \in Nat : LetterAt(t, k, l, n)
    BY DEF Lettered
  <2>2. CASE k # i
    <3>1. LetterAt(u, k, l, n)
      BY <1>9, <2>1, <2>2 DEF LetterAt
    <3>. QED
      BY <3>1 DEF Lettered
  <2>3. CASE k = i
    <3>1. l \in 1..z /\ l # j /\ ns[l].number = n /\ t[i].name # "mp"
      BY <1>2, <1>3, <1>11, <2>1, <2>3 DEF LetterAt
    <3>2. PICK e : e = IF l < j THEN l ELSE l - 1
      OBVIOUS
    <3>3. e \in 1..(z - 1) /\ from(e) = l /\ e \in Nat
      BY <1>3, <3>1, <3>2
    <3>4. w[e].number = n
      BY <1>5, <3>1, <3>3
    <3>5. LetterAt(u, i, e, n)
      BY <1>5, <1>9, <3>1, <3>3, <3>4 DEF LetterAt
    <3>. QED
      BY <1>1, <3>3, <3>5 DEF Lettered
  <2>. QED
    BY <2>2, <2>3
<1>12. PICK v : v = IF u[i].nodes = <<>> THEN WithoutGroup(u, i) ELSE u
  OBVIOUS
<1>13. removeRows(t, i, j) = v
  BY <1>2, <1>4, <1>6, <1>12, Zenon DEF removeRows
<1>14. GroupsOk(v) /\ Lettered(v) = Lettered(u)
  BY <1>8, <1>9, <1>12, GroupRemoved
<1>. QED
  BY <1>10, <1>11, <1>13, <1>14

(* The steps that leave the bookmarks alone.                               *)
LEMMA EvolvedStep ==
  ASSUME ContactsInv, ContactsInv', BookmarksInv, UNCHANGED bookmarkVars, Evolves(m, m')
  PROVE  BookmarksInv'
<1>1. Sized(m) /\ NumbersOk(m)
  BY DEF ContactsInv, ContactsOk, ContentOk, Sound, BookmarksInv
<1>2. PICK d : d = m'
  OBVIOUS
<1>3. Sized(d)
  BY <1>2 DEF ContactsInv, ContactsOk, ContentOk, Sound
<1>4. /\ saved \in Seq(Hashes) /\ Apart(m, saved, doubled) /\ Claimed(m, saved, bookmarked, doubled)
      /\ RowsOk(m, saved, bookmarked, nuid, groups, doubled)
  BY DEF BookmarksInv
<1>5. /\ NumbersOk(d) /\ Apart(d, saved, doubled) /\ Claimed(d, saved, bookmarked, doubled)
      /\ RowsOk(d, saved, bookmarked, nuid, groups, doubled)
  BY <1>1, <1>2, <1>3, <1>4, ListsStay, RowsStay DEF Evolves
<1>. QED
  BY <1>2, <1>4, <1>5 DEF BookmarksInv, bookmarkVars

LEMMA MetStep ==
  ASSUME ContactsInv, NEW u \in Uris, MeetNumber(u)
  PROVE  Evolves(m, m')
<1>1. Sized(m) /\ PartsOk(m)
  BY DEF ContactsInv, ContactsOk, ContentOk, Sound
<1>2. CASE NumbersOk(m)
  <2>1. 0 \in 0..Len(m.part)
    BY <1>1, FieldsOf DEF Sized
  <2>2. Evolves(m, getNumber(m, u, 0)[1])
    BY <1>1, <1>2, <2>1, NumberFits
  <2>. QED
    BY <2>2 DEF MeetNumber
<1>3. CASE ~NumbersOk(m)
  BY <1>3 DEF Evolves
<1>. QED
  BY <1>2, <1>3

(* The steps that read the bookmarks again.                                *)
LEMMA RegroupedStep ==
  ASSUME ContactsInv, BookmarksInv, NEW list \in Seq(Hashes), Apart(m, list, doubled), NEW marked,
         NEW popular \in BOOLEAN, NEW top \in Tops, Regroup(m, list, marked, popular, top),
         saved' = list, showPopular' = popular, doubled' = doubled
  PROVE  BookmarksInv'
<1>1. Sound(m) /\ NumbersOk(m) /\ nuid \in Stored /\ m.numbers \in PhoneNumbers
  BY FieldsOf DEF ContactsInv, ContactsOk, ContentOk, BookmarksInv, Sound, Sized
<1>2. top \in Seq(Nat)
  <2>1. top = <<>> \/ \E n \in DOMAIN m.numbers : top = <<n>>
    BY DEF Tops
  <2>2. \A n \in DOMAIN m.numbers : n \in Nat
    BY <1>1, SizesOf
  <2>3. \A n \in Nat : <<n>> \in Seq(Nat)
    OBVIOUS
  <2>4. <<>> \in Seq(Nat)
    OBVIOUS
  <2>. QED
    BY <2>1, <2>2, <2>3, <2>4
<1>3. PICK x : x = NumbersOf(m, nuid, list)
  OBVIOUS
<1>4. PICK marks : marks = marked \union Range(x[3])
  OBVIOUS
<1>5. m' = x[1] /\ nuid' = x[2] /\ bookmarked' = marks /\ groups' = GroupsOf(x, popular, top)
  BY <1>3, <1>4 DEF Regroup
<1>6. /\ NumbersOk(x[1]) /\ Apart(x[1], list, doubled) /\ Claimed(x[1], list, marks, doubled)
      /\ RowsOk(x[1], list, marks, x[2], GroupsOf(x, popular, top), doubled)
  BY <1>1, <1>2, <1>3, <1>4, ReadRows
<1>. QED
  BY <1>5, <1>6 DEF BookmarksInv

LEMMA AddedStep ==
  ASSUME ContactsInv, BookmarksInv, NEW n \in DOMAIN m.numbers, NEW top \in Tops, addBookmark(n, top)
  PROVE  BookmarksInv'
<1>1. PICK list : list = Append(saved, toHash(m, n))
  OBVIOUS
<1>2. /\ n \notin bookmarked /\ saved' = list /\ showPopular' = showPopular
      /\ showPopular \in BOOLEAN /\ doubled' = doubled
  BY <1>1 DEF addBookmark, BookmarksInv
<1>3. list \in Seq(Hashes) /\ Apart(m, list, doubled)
  BY <1>1, <1>2, NewBookmark
<1>4. Regroup(m, list, bookmarked \union {n}, showPopular, top)
  BY <1>2 DEF addBookmark, Regroup
<1>. QED
  BY <1>2, <1>3, <1>4, RegroupedStep

LEMMA ShownStep ==
  ASSUME ContactsInv, BookmarksInv, NEW on \in BOOLEAN, NEW top \in Tops, ShowPopular(on, top)
  PROVE  BookmarksInv'
<1>1. saved \in Seq(Hashes) /\ Apart(m, saved, doubled)
  BY DEF BookmarksInv
<1>2. /\ Regroup(m, saved, bookmarked, on, top)
      /\ saved' = saved /\ showPopular' = on /\ doubled' = doubled
  BY DEF ShowPopular
<1>. QED
  BY <1>1, <1>2, RegroupedStep

(* The number of a row of a letter, by its place.                          *)
LEMMA RowIs ==
  ASSUME ContactsInv, BookmarksInv, NEW i \in DOMAIN groups, NEW j \in DOMAIN groups[i].nodes,
         ~groups[i].popular
  PROVE  /\ groups[i].name # "mp" /\ groups[i].nodes[j].number \in Lettered(groups)
         /\ RowOk(m, saved, bookmarked, nuid, groups[i].nodes[j].number, doubled)
         /\ UidOf(m, groups[i].nodes[j].number) = nuid[groups[i].nodes[j].number]
<1>. DEFINE n == groups[i].nodes[j].number
<1>1. GroupsOk(groups)
  BY DEF BookmarksInv, RowsOk
<1>2. groups[i].name # "mp"
  <2>1. groups[i].popular = (groups[i].name = "mp")
    BY <1>1 DEF GroupsOk
  <2>. QED
    BY <2>1, Zenon
<1>3. i \in Nat /\ j \in Nat /\ n \in Nat
  <2>1. groups \in Seq(Groups) /\ groups[i] \in Groups
    BY <1>1, SeqAt DEF GroupsOk
  <2>2. groups[i].nodes \in Seq(Listings)
    BY <2>1, GroupFields
  <2>3. groups[i].nodes[j] \in Listings
    BY <2>2, SeqAt
  <2>. QED
    BY <2>1, <2>2, <2>3 DEF Listings
<1>4. n \in Lettered(groups)
  BY <1>2, <1>3 DEF Lettered, LetterAt
<1>5. RowOk(m, saved, bookmarked, nuid, n, doubled)
  BY <1>4 DEF BookmarksInv, RowsOk
<1>6. nuid[n] # None /\ n \in DOMAIN nuid
  BY <1>5, BookmarksAssumption DEF RowOk, Hashes
<1>. QED
  BY <1>2, <1>4, <1>5, <1>6 DEF UidOf

LEMMA RemovedStep ==
  ASSUME ContactsInv, BookmarksInv, NEW i \in DOMAIN groups, NEW j \in DOMAIN groups[i].nodes,
         RemoveRow(i, j)
  PROVE  BookmarksInv'
<1>1. PICK n : n = groups[i].nodes[j].number
  OBVIOUS
<1>2. PICK t : t = removeRows(groups, i, j)
  OBVIOUS
<1>3. PICK list : list = Without(saved, UidOf(m, n))
  OBVIOUS
<1>4. /\ m' = m /\ nuid' = nuid /\ bookmarked' = bookmarked /\ showPopular' = showPopular
      /\ groups' = t /\ saved' = list /\ doubled' = doubled
  BY <1>1, <1>2, <1>3 DEF RemoveRow, removeBookmark
<1>5. /\ NumbersOk(m) /\ saved \in Seq(Hashes) /\ showPopular \in BOOLEAN
      /\ Apart(m, saved, doubled) /\ Claimed(m, saved, bookmarked, doubled)
      /\ GroupsOk(groups)
      /\ \A k \in Lettered(groups) : RowOk(m, saved, bookmarked, nuid, k, doubled)
      /\ \A h \in Range(saved) : h.uri \notin doubled => \E k \in Lettered(groups) : nuid[k] = h
  BY DEF BookmarksInv, RowsOk
<1>6. list \in Seq(Hashes) /\ Range(list) = Range(saved) \ {UidOf(m, n)}
  <2>1. /\ Without(saved, UidOf(m, n)) \in Seq(Hashes)
        /\ ToSet(Without(saved, UidOf(m, n))) = ToSet(saved) \ {UidOf(m, n)}
    BY <1>5, WithoutEffect
  <2>. QED
    BY <1>3, <2>1 DEF ToSet, Range
<1>7. /\ GroupsOk(t) /\ Lettered(t) \subseteq Lettered(groups)
      /\ \A k \in Lettered(groups) : k \in Lettered(t) \/ (groups[i].name # "mp" /\ k = n)
  BY <1>1, <1>2, <1>5, RowRemoved
<1>8. \A k \in Lettered(t) : RowOk(m, list, bookmarked, nuid, k, doubled)
  BY <1>5, <1>6, <1>7 DEF RowOk
<1>9. ASSUME NEW h \in Range(list), h.uri \notin doubled  PROVE \E k \in Lettered(t) : nuid[k] = h
  <2>1. PICK k \in Lettered(groups) : nuid[k] = h
    BY <1>5, <1>6, <1>9
  <2>2. CASE groups[i].name # "mp" /\ k = n
    <3>1. ~groups[i].popular
      <4>1. groups[i].popular = (groups[i].name = "mp")
        BY <1>5 DEF GroupsOk
      <4>. QED
        BY <2>2, <4>1, Zenon
    <3>2. UidOf(m, n) = nuid[n]
      BY <1>1, <3>1, RowIs
    <3>. QED
      BY <1>6, <1>9, <2>1, <2>2, <3>2
  <2>. QED
    BY <1>7, <2>1, <2>2
<1>10. Apart(m, list, doubled) /\ Claimed(m, list, bookmarked, doubled)
  BY <1>5, <1>6 DEF Apart, Claimed
<1>11. RowsOk(m, list, bookmarked, nuid, t, doubled)
  BY <1>7, <1>8, <1>9 DEF RowsOk
<1>. QED
  BY <1>4, <1>5, <1>6, <1>10, <1>11 DEF BookmarksInv

(* At the start the URIs with two bookmarks are those excepted.            *)
LEMMA StartsApart == Init => BookmarksInv
<1>. SUFFICES ASSUME Init  PROVE BookmarksInv
  OBVIOUS
<1>1. saved \in Seq(Hashes)
  BY BookmarksAssumption DEF Init, Hashes
<1>2. Apart(Empty, saved, doubled)
  <2>1. \A h, k \in Range(saved) : h.uri = k.uri /\ h # k => h.uri \in doubled
    BY DEF Init
  <2>. QED
    BY <2>1 DEF Apart
<1>3. Sound(Empty) /\ NumbersOk(Empty)
  <2>1. Empty.numbers = <<>>
    BY DEF Empty
  <2>. QED
    BY <2>1, EmptyIsSound DEF NumbersOk, Separate, Known
<1>4. <<>> \in Stored
  <2>1. <<>> \in [{} -> Hashes]
    OBVIOUS
  <2>. QED
    BY <2>1 DEF Stored
<1>5. PICK x : x = NumbersOf(Empty, <<>>, saved)
  OBVIOUS
<1>6. /\ m = x[1] /\ nuid = x[2] /\ bookmarked = Range(x[3]) /\ groups = GroupsOf(x, FALSE, <<>>)
      /\ showPopular = FALSE
  BY <1>5 DEF Init
<1>7. /\ NumbersOk(x[1]) /\ Apart(x[1], saved, doubled) /\ Claimed(x[1], saved, bookmarked, doubled)
      /\ RowsOk(x[1], saved, bookmarked, x[2], GroupsOf(x, FALSE, <<>>), doubled)
  <2>1. <<>> \in Seq(Nat) /\ FALSE \in BOOLEAN /\ Range(x[3]) \subseteq bookmarked
    BY <1>6
  <2>. QED
    BY <1>1, <1>2, <1>3, <1>4, <1>5, <2>1, ReadRows
<1>. QED
  BY <1>1, <1>6, <1>7 DEF BookmarksInv

LEMMA NextKeepsBookmarks == ContactsInv /\ ContactsInv' /\ BookmarksInv /\ [Next]_vars => BookmarksInv'
<1>. SUFFICES ASSUME ContactsInv, ContactsInv', BookmarksInv, [Next]_vars  PROVE BookmarksInv'
  OBVIOUS
<1>1. ASSUME ContactsNext, UNCHANGED bookmarkVars  PROVE BookmarksInv'
  BY <1>1, ContactsEvolve, EvolvedStep DEF ContactsInv
<1>2. ASSUME NEW u \in Uris, MeetNumber(u)  PROVE BookmarksInv'
  <2>1. UNCHANGED bookmarkVars
    BY <1>2 DEF MeetNumber
  <2>. QED
    BY <1>2, <2>1, MetStep, EvolvedStep
<1>3. ASSUME NEW n \in DOMAIN m.numbers, NEW top \in Tops, addBookmark(n, top)  PROVE BookmarksInv'
  BY <1>3, AddedStep
<1>4. ASSUME NEW on \in BOOLEAN, NEW top \in Tops, ShowPopular(on, top)  PROVE BookmarksInv'
  BY <1>4, ShownStep
<1>5. ASSUME NEW i \in DOMAIN groups, NEW j \in DOMAIN groups[i].nodes, RemoveRow(i, j)
      PROVE  BookmarksInv'
  BY <1>5, RemovedStep
<1>6. CASE UNCHANGED vars
  <2>1. m' = m /\ UNCHANGED bookmarkVars
    BY <1>6 DEF vars, contactsVars
  <2>2. Evolves(m, m)
    BY SameEvolves DEF ContactsInv, ContactsOk, ContentOk, Sound, Same
  <2>. QED
    BY <2>1, <2>2, EvolvedStep
<1>. QED
  BY <1>1, <1>2, <1>3, <1>4, <1>5, <1>6 DEF Next

LEMMA InvGivesRows == ContactsInv /\ BookmarksInv => SavedHasRow
<1>. SUFFICES ASSUME ContactsInv, BookmarksInv  PROVE SavedHasRow
  OBVIOUS
<1>1. GroupsOk(groups)
  BY DEF BookmarksInv, RowsOk
<1>2. \A i \in DOMAIN groups : groups[i].row = i
  BY <1>1 DEF GroupsOk
<1>3. ASSUME NEW h \in Range(saved), h.uri \notin doubled
      PROVE  \E i \in DOMAIN groups :
               /\ ~groups[i].popular
               /\ \E j \in DOMAIN groups[i].nodes : UidOf(m, groups[i].nodes[j].number) = h
  <2>1. PICK n \in Lettered(groups) : nuid[n] = h
    BY <1>3 DEF BookmarksInv, RowsOk
  <2>2. PICK i \in Nat, j \in Nat : LetterAt(groups, i, j, n)
    BY DEF Lettered
  <2>3. i \in DOMAIN groups /\ j \in DOMAIN groups[i].nodes /\ groups[i].nodes[j].number = n
    BY <2>2 DEF LetterAt
  <2>4. ~groups[i].popular
    <3>1. groups[i].popular = (groups[i].name = "mp")
      BY <1>1, <2>3 DEF GroupsOk
    <3>2. groups[i].name # "mp"
      BY <2>2 DEF LetterAt
    <3>. QED
      BY <3>1, <3>2, Zenon
  <2>5. UidOf(m, n) = h
    BY <2>1, <2>3, <2>4, RowIs
  <2>. QED
    BY <2>3, <2>4, <2>5
<1>. QED
  BY <1>2, <1>3 DEF SavedHasRow

(* What is left of the list after a removal leads elsewhere.               *)
LEMMA ForgottenFor ==
  ASSUME ContactsInv, BookmarksInv, NEW i \in DOMAIN groups, NEW j \in DOMAIN groups[i].nodes,
         ~groups[i].popular, NEW n, n = groups[i].nodes[j].number, m.numbers[n].uri \notin doubled,
         NEW list, list = Without(saved, UidOf(m, n))
  PROVE  ~Contains(NumbersOf(m, nuid, list)[3], n)
<1>1. PICK x : x = NumbersOf(m, nuid, list)
  OBVIOUS
<1>2. PICK g : g = nuid[n]
  OBVIOUS
<1>3. RowOk(m, saved, bookmarked, nuid, n, doubled) /\ UidOf(m, n) = g
  BY <1>2, RowIs
<1>4. /\ Sound(m) /\ Sized(m) /\ NumbersOk(m) /\ nuid \in Stored /\ saved \in Seq(Hashes)
  BY DEF ContactsInv, ContactsOk, ContentOk, BookmarksInv, Sound
<1>5. list \in Seq(Hashes) /\ Range(list) = Range(saved) \ {g}
  <2>1. /\ Without(saved, g) \in Seq(Hashes)
        /\ ToSet(Without(saved, g)) = ToSet(saved) \ {g}
    BY <1>4, WithoutEffect
  <2>. QED
    BY <1>3, <2>1 DEF ToSet, Range
<1>6. LeadsTo(m, list, Len(list), x)
  BY <1>1, <1>4, <1>5, NumbersLead
<1>7. /\ Sized(x[1]) /\ Evolves(m, x[1]) /\ x[3] \in Seq(Nat) /\ Len(x[3]) = Len(list)
      /\ Grown(m, x[1]) /\ m.numbers \in PhoneNumbers /\ x[1].numbers \in PhoneNumbers
  <2>1. Evolves(m, x[1]) /\ x[3] \in Seq(Nat) /\ Len(x[3]) = Len(list) /\ Alike(m, x[1])
    BY <1>6 DEF LeadsTo, Reads
  <2>2. Sized(x[1]) /\ Grown(m, x[1])
    BY <1>4, <2>1 DEF Alike, Evolves
  <2>3. m.numbers \in PhoneNumbers /\ x[1].numbers \in PhoneNumbers
    BY <1>4, <2>2, FieldsOf DEF Sized
  <2>. QED
    BY <2>1, <2>2, <2>3
<1>8. ASSUME NEW k \in 1..Len(list), x[3][k] = n  PROVE FALSE
  <2>1. PICK h \in Hashes : h = list[k]
    BY <1>5, SeqAt
  <2>2. Would(x[1], n, h)
    BY <1>6, <1>8, <2>1, LeadsWould DEF LeadsTo
  <2>3. h \in Range(saved) /\ h # g
    BY <1>5, <2>1 DEF Range
  <2>4. n \in DOMAIN m.numbers
    BY <1>3 DEF RowOk
  <2>5. h.uri = m.numbers[n].uri
    BY <1>7, <2>2, <2>4, OwnStays DEF Would
  <2>6. PICK f \in DOMAIN m.numbers : IsFirst(m.numbers, f, h.uri)
    BY <1>7, <2>4, <2>5, FirstExists
  <2>7. Would(m, n, h)
    BY <1>4, <1>7, <2>2, <2>4, <2>6, WouldWas
  <2>. QED
    BY <1>2, <1>3, <2>3, <2>5, <2>7 DEF RowOk
<1>9. ~Contains(x[3], n)
  <2>1. DOMAIN x[3] = 1..Len(list)
    BY <1>7
  <2>. QED
    BY <1>7, <1>8, <2>1 DEF Contains
<1>. QED
  BY <1>1, <1>9

LEMMA InvForgets == ContactsInv /\ BookmarksInv => RemovalForgets
<1>. SUFFICES ASSUME ContactsInv, BookmarksInv,
                     NEW i \in DOMAIN groups, NEW j \in DOMAIN groups[i].nodes,
                     ~groups[i].popular, m.numbers[groups[i].nodes[j].number].uri \notin doubled,
                     RemoveRow(i, j)
              PROVE  ~Contains(NumbersOf(m, nuid, saved')[3], groups[i].nodes[j].number)
  BY DEF RemovalForgets
<1>1. PICK n : n = groups[i].nodes[j].number
  OBVIOUS
<1>2. PICK list : list = saved'
  OBVIOUS
<1>3. list = Without(saved, UidOf(m, n))
  BY <1>1, <1>2 DEF RemoveRow, removeBookmark
<1>4. ~Contains(NumbersOf(m, nuid, list)[3], n)
  BY <1>1, <1>3, ForgottenFor
<1>. QED
  BY <1>1, <1>2, <1>4

(* What is bookmarked keeps its row until it is removed, and does not come *)
(* back, whatever is loaded and met meanwhile and however many contacts    *)
(* share its URI: hashes of one URI lead to different numbers, each that   *)
(* of the contact it names (addBookmark, reloadCategories, removeRows).    *)
(* The URIs are excepted for which the session begins with two bookmarks.  *)
THEOREM BookmarksCorrect == Spec => BookmarksPersist
<1>1. Init => BookmarksInv
  BY StartsApart
<1>2. ContactsInv /\ ContactsInv' /\ BookmarksInv /\ [Next]_vars => BookmarksInv'
  BY NextKeepsBookmarks
<1>3. ContactsInv /\ BookmarksInv => SavedHasRow
  BY InvGivesRows
<1>4. ContactsInv /\ BookmarksInv => RemovalForgets
  BY InvForgets
<1>. QED
  BY <1>1, <1>2, <1>3, <1>4, ContactsInvariance, PTL DEF Spec, BookmarksPersist
===============================================================================
