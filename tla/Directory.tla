------------------------------ MODULE Directory ------------------------------
(***************************************************************************)
(* The directory of phone numbers (src/src/lib/phonedirectorymodel.cpp,    *)
(* src/src/lib/phonenumber.cpp): one object per number the program was     *)
(* asked for, found again by its URI, an account and a contact that were   *)
(* known at that time or are only found out now.                           *)
(*                                                                         *)
(* Two objects that turn out to be the same number are merged: they keep   *)
(* their identity and share one private part from then on.  What belongs   *)
(* to that part (URI, account, contact, calls, rank) is indexed by parts,  *)
(* what refers to objects (the directory, the ten most called) is not told *)
(* of the merge.                                                           *)
(*                                                                         *)
(* A URI is a user and a host, and has no host when it is short.  Contacts *)
(* are their uid: a placeholder and the contact that replaces it are equal *)
(* here.  Accounts are not deleted while the program runs (AccountModel). The *)
(* category of a number and its names are left out.                        *)
(***************************************************************************)
EXTENDS FiniteSets, QtLists

CONSTANTS
  Users,       (* user parts of URIs                                       *)
  Accounts,    (* accounts, each its own host                              *)
  Ip2ip,       (* the one among them that has no host, if there is one     *)
  Contacts,    (* uids of contacts                                         *)
  None,        (* no host, account or contact                              *)
  TopSize,     (* size of the list of popular numbers, 10 in the code      *)
  MaxNumbers,  (* bound: objects created                                   *)
  MaxCalls     (* bound: calls counted                                     *)

ASSUME NoneAssumption == None \notin Accounts \union Contacts
ASSUME SizesAssumption ==
  TopSize \in Nat \ {0} /\ MaxNumbers \in Nat /\ MaxCalls \in Nat

VARIABLE dir  (* the directory, see DirectoryTypeOK; object o is the o-th created *)

-----------------------------------------------------------------------------
(* URIs *)
Uri(u, h) == <<u, h>>
User(uri) == uri[1]
Host(uri) == uri[2]
HasHost(uri) == Host(uri) # None

(* uri + '@' + account->hostname(); of a hostless account it is "user@",   *)
(* which nothing is ever registered under.                                 *)
Extended(uri, a) == Uri(User(uri), a)

Uris == {Uri(u, h) : u \in Users, h \in (Accounts \ {Ip2ip}) \union {None}}

-----------------------------------------------------------------------------
(* PhoneNumber: what an object shows is what its part holds. *)
UriOf(d, o)     == d.uri[d.part[o]]
AccountOf(d, o) == d.account[d.part[o]]
ContactOf(d, o) == d.contact[d.part[o]]
CallsOf(d, o)   == d.calls[d.part[o]]
RankOf(d, o)    == d.rank[d.part[o]]

SetAccount(d, o, a) == [d EXCEPT !.account[d.part[o]] = a]
SetContact(d, o, c) == [d EXCEPT !.contact[d.part[o]] = c]

(* merge(): object o gives up its part for that of another object.  The    *)
(* longer URI wins, everything else is the other's.                        *)
Mergeable(d, o, other) ==
  /\ d.part[o] # d.part[other]
  /\ \/ None \in {AccountOf(d, o), AccountOf(d, other)}
     \/ AccountOf(d, o) = AccountOf(d, other)

Adopted(parents, o, old, new) ==
  [parents EXCEPT ![new] = Append(@, o), ![old] = Without(@, o)]

Merge(d, o, other) ==
  LET old == d.part[o]  new == d.part[other]
  IN IF ~Mergeable(d, o, other) THEN d
     ELSE [d EXCEPT !.part[o] = new,
                    !.parents = Adopted(@, o, old, new),
                    !.uri[new] = IF HasHost(d.uri[old]) /\ ~HasHost(@) THEN d.uri[old] ELSE @]

-----------------------------------------------------------------------------
(* PhoneDirectoryModel *)

(* m_hDirectory and m_hSortedNumbers. *)
Registered(d, o, uri) == [d EXCEPT !.directory[uri] = Append(@, o)]

(* A new object at the end of m_lNumbers. *)
Created(d, uri, a, c) ==
  LET o == Len(d.part) + 1
  IN [d EXCEPT !.part    = Append(@, o),
               !.parents = Append(@, <<o>>),
               !.uri     = Append(@, uri),
               !.account = Append(@, a),
               !.contact = Append(@, c),
               !.calls   = Append(@, 0),
               !.rank    = Append(@, 0)]

(* setAccount(): the account of a number is known now.  Other numbers of   *)
(* the same short URI and account are the same number.                     *)
AttachAccount(d0, o, a) ==
  LET uri  == UriOf(d0, o)
      d    == SetAccount(d0, o, a)
      Same(e, n) == IF n # o /\ AccountOf(e, n) = AccountOf(e, o) THEN Merge(e, o, n) ELSE e
  IN IF HasHost(uri) THEN d
     ELSE IF d.directory[uri] = <<>> THEN Registered(d, o, Extended(uri, a))
     ELSE Registered(FoldLeft(Same, d, d.directory[uri]), o, uri)

CompatibleUri(d, o, uri, a) ==
  IF HasHost(UriOf(d, o))
  THEN uri = UriOf(d, o) \/ a = Ip2ip
  ELSE AccountOf(d, o) # None /\ Extended(UriOf(d, o), AccountOf(d, o)) = uri

CompatibleAccount(d, o, uri, a) ==
  \/ None \in {a, AccountOf(d, o)}
  \/ a = AccountOf(d, o)
  \/ a = Ip2ip /\ HasHost(uri)

(* fillDetails(), for one number: complete it with what is known, and      *)
(* confirm it if the contact is the same.                                  *)
Fill(d, o, uri, a, c) ==
  LET d1 == IF /\ c # None /\ ContactOf(d, o) = None
               /\ CompatibleUri(d, o, uri, a) /\ CompatibleAccount(d, o, uri, a)
            THEN SetContact(d, o, c) ELSE d
  IN IF a # None /\ c = None /\ AccountOf(d, o) = None
     THEN AttachAccount(d1, o, a) ELSE d1

Confirmed(d, o, a, c) ==
  /\ a = None \/ a # AccountOf(d, o)
  /\ c # None /\ ContactOf(d, o) = c

(* fillDetails(): over the numbers of one URI, up to the first confirmed.  *)
(* <<directory, the confirmed number or 0>>                                *)
FillDetails(d, wrap, uri, a, c) ==
  LET Check(x, o) ==
        IF x[2] # 0 THEN x
        ELSE LET e == Fill(x[1], o, uri, a, c)
             IN <<e, IF Confirmed(e, o, a, c) THEN o ELSE 0>>
  IN FoldLeft(Check, <<d, 0>>, wrap)

First(wrap, Test(_)) ==
  LET i == SelectInSeq(wrap, Test) IN IF i = 0 THEN 0 ELSE wrap[i]

(* getNumber(uri, type): anything known under that URI. *)
GetAny(d, uri) ==
  LET o == Len(d.part) + 1
  IN IF d.directory[uri] # <<>> THEN <<d, d.directory[uri][1]>>
     ELSE <<Registered(Created(d, uri, None, None), o, uri), o>>

(* getNumber(uri, contact, account, type).  The candidates are a confirmed *)
(* number of the URI, one of its longer form, and the number of the        *)
(* account under the shorter form; found together they are the same.       *)
Longer(one, uri, a, c) ==
  IF one[2] # 0 /\ ~HasHost(uri) /\ a \notin {None, Ip2ip}
  THEN FillDetails(one[1], one[1].directory[Extended(uri, a)], uri, a, c)
  ELSE <<one[1], 0>>

Shorter(d, uri, a) ==
  IF HasHost(uri) /\ Host(uri) = a
  THEN First(d.directory[Uri(User(uri), None)], LAMBDA o : AccountOf(d, o) = a)
  ELSE 0

JoinShorter(d, three, other, c) ==
  LET e == IF c # None /\ ContactOf(d, three) = None THEN SetContact(d, three, c) ELSE d
  IN IF other # 0 THEN Merge(e, three, other) ELSE e

Joined(one, two, three, c) ==
  [d   |-> IF three = 0 THEN two[1]
           ELSE JoinShorter(two[1], three, IF one # 0 THEN one ELSE two[2], c),
   all |-> <<two[2], one, three>>]

Together(one, two, uri, a, c) == Joined(one, two, Shorter(two[1], uri, a), c)
FoundFirst(one, uri, a, c)    == Together(one[2], Longer(one, uri, a, c), uri, a, c)
Candidates(d, uri, a, c) ==
  FoundFirst(FillDetails(d, d.directory[uri], uri, a, c), uri, a, c)

(* No candidate: a number of the URI that nothing speaks against. *)
Acceptable(d, o, a, c) ==
  /\ a = None \/ AccountOf(d, o) = a
  /\ c = None \/ ContactOf(d, o) \in {None, c}

(* Faulty form: registered under the longer form only. *)
CreateUnderLonger(d, uri, a, c) ==
  LET o == Len(d.part) + 1
  IN <<Registered(Created(d, uri, a, c), o,
                  IF d.directory[uri] = <<>> /\ ~HasHost(uri) /\ a \notin {None, Ip2ip}
                  THEN Extended(uri, a) ELSE uri), o>>

Create(d, uri, a, c) ==
  LET o == Len(d.part) + 1
      e == Registered(Created(d, uri, a, c), o, uri)
  IN <<IF d.directory[uri] = <<>> /\ ~HasHost(uri) /\ a \notin {None, Ip2ip}
       THEN Registered(e, o, Extended(uri, a)) ELSE e, o>>

Known(d, uri, a, c, known) ==
  IF known = 0 THEN Create(d, uri, a, c)
  ELSE <<IF c = None THEN d ELSE SetContact(d, known, c), known>>

Chosen(found, uri, a, c, chosen) ==
  IF chosen # 0 THEN <<found.d, chosen>>
  ELSE Known(found.d, uri, a, c,
             First(found.d.directory[uri], LAMBDA o : Acceptable(found.d, o, a, c)))

FromFound(found, uri, a, c) == Chosen(found, uri, a, c, First(found.all, LAMBDA o : o # 0))
GetNumber(d, uri, a, c)     == FromFound(Candidates(d, uri, a, c), uri, a, c)

-----------------------------------------------------------------------------
(* slotCallAdded(): the most called numbers, best first.                   *)

(* The number in slot r passes everyone who was called less, and pushes    *)
(* them down by one: both the list and their ranks.                        *)
TargetSlot(d, o, r) ==
  CHOOSE i \in 1..r :
    /\ \A j \in i..(r - 1) : CallsOf(d, d.top[j]) < CallsOf(d, o)
    /\ i = 1 \/ CallsOf(d, d.top[i - 1]) >= CallsOf(d, o)

(* Faulty form: those pushed down keep their rank. *)
PassedAlone(d, o, r) ==
  LET t == TargetSlot(d, o, r)
  IN [d EXCEPT !.top  = [j \in DOMAIN @ |->
                           IF j = t THEN o ELSE IF j \in (t + 1)..r THEN @[j - 1] ELSE @[j]],
               !.rank[d.part[o]] = t]

Passed(d, o, r) ==
  LET t == TargetSlot(d, o, r)
  IN [d EXCEPT !.top  = [j \in DOMAIN @ |->
                           IF j = t THEN o ELSE IF j \in (t + 1)..r THEN @[j - 1] ELSE @[j]],
               !.rank = [p \in DOMAIN @ |->
                           IF p = d.part[o] THEN t
                           ELSE @[p] + Cardinality({j \in t..(r - 1) : d.part[d.top[j]] = p})]]

ListOpen(d) == Len(d.top) < TopSize

(* Slot r - 1 is read, and slot r written if it passes, without a look at  *)
(* the size of the list: only a rank that has drifted is so far out.       *)
OutOfRange(d, o, r) ==
  LET n == Len(d.top)
  IN \/ r > n + 1
     \/ n > 0 /\ r = n + 1 /\ CallsOf(d, d.top[n]) < CallsOf(d, o)

Ranked(d, o) ==
  LET r == RankOf(d, o)  n == Len(d.top)
  IN IF d.broken \/ OutOfRange(d, o, r) THEN [d EXCEPT !.broken = TRUE]
     ELSE IF r > 1 /\ CallsOf(d, d.top[r - 1]) < CallsOf(d, o) THEN Passed(d, o, r)
     ELSE IF ListOpen(d) /\ r = 0
       THEN [d EXCEPT !.top = Append(@, o), !.rank[d.part[o]] = n + 1]
     ELSE IF r = 0 /\ ~ListOpen(d) /\ CallsOf(d, d.top[TopSize]) < CallsOf(d, o)
       THEN [d EXCEPT !.top[TopSize] = o,
                      !.rank = [@ EXCEPT ![d.part[d.top[TopSize]]] = 0, ![d.part[o]] = TopSize]]
     ELSE d

(* addCall(): every object that shares the part signals the call. *)
CallAdded(d, o) ==
  LET e == [d EXCEPT !.calls[d.part[o]] = @ + 1]
  IN FoldLeft(Ranked, e, e.parents[e.part[o]])

-----------------------------------------------------------------------------
Asked == Uris \X (Accounts \union {None}) \X (Contacts \union {None})

(* A merge can take the account from a number again, and then the number   *)
(* is appended to its wrapper once more when the account is found.         *)
Bounded(d) ==
  /\ Len(d.part) <= MaxNumbers
  /\ \A uri \in Uris : Len(d.directory[uri]) <= MaxNumbers

Get(uri, a, c) == dir' = GetNumber(dir, uri, a, c)[1] /\ Bounded(dir')

GetPlain(uri) == dir' = GetAny(dir, uri)[1] /\ Bounded(dir')

AddCall(o) ==
  /\ FoldLeft(LAMBDA x, y : x + y, 0, dir.calls) < MaxCalls
  /\ dir' = CallAdded(dir, o)

DirectoryInit ==
  dir = [part |-> <<>>, parents |-> <<>>, uri |-> <<>>, account |-> <<>>, contact |-> <<>>,
       calls |-> <<>>, rank |-> <<>>, directory |-> [x \in Uris |-> <<>>], top |-> <<>>,
       broken |-> FALSE]

DirectoryNext ==
  \/ \E q \in Asked : Get(q[1], q[2], q[3])
  \/ \E uri \in Uris : GetPlain(uri)
  \/ \E o \in DOMAIN dir.part : AddCall(o)

DirectorySpec == DirectoryInit /\ [][DirectoryNext]_dir

-----------------------------------------------------------------------------
(* Properties *)
Objects == DOMAIN dir.part

(* Every object and every part has its fields, the directory lists objects *)
(* and the list of popular numbers keeps to its size; a rank may not.      *)
DirectoryTypeOK ==
  /\ dir.part \in Seq(Objects) /\ dir.parents \in Seq(Seq(Objects))
  /\ dir.uri \in Seq(Uris)
  /\ dir.account \in Seq(Accounts \union {None}) /\ dir.contact \in Seq(Contacts \union {None})
  /\ dir.calls \in Seq(0..MaxCalls) /\ dir.rank \in Seq(Nat)
  /\ \A f \in {"parents", "uri", "account", "contact", "calls", "rank"} : Len(dir[f]) = Len(dir.part)
  /\ dir.directory \in [Uris -> Seq(Objects)]
  /\ dir.top \in Seq(Objects) /\ Len(dir.top) <= TopSize
  /\ dir.broken \in BOOLEAN

SameAs(r1, r2)   == r2[1].part[r1[2]] = r2[1].part[r2[2]]
FoundAgain(r, q) == SameAs(r, GetNumber(r[1], q[1], q[2], q[3]))

(* Whoever asks for a number twice, with the same words, gets the same     *)
(* number, whatever the first time has filled in, attached, merged or      *)
(* created on the way: no history entry or bookmark makes a number that    *)
(* is not found again (getNumber, fillDetails, merge).                     *)
AsksAgain == \A q \in Asked : FoundAgain(GetNumber(dir, q[1], q[2], q[3]), q)

Merged == \E o \in Objects : dir.part[o] # o

(* As long as nothing was merged, the list of popular numbers and the rank *)
(* each number remembers say the same, a number is listed once and no slot *)
(* outside the list is used (slotCallAdded).  A merged pair that is listed *)
(* twice shares a rank that every swap raises twice, so that it leaves the *)
(* list, with three slots or more: nothing is claimed then.                *)
RanksAgree ==
  Merged \/
    /\ ~dir.broken
    /\ \A i \in DOMAIN dir.top : RankOf(dir, dir.top[i]) = i
    /\ \A o \in Objects : RankOf(dir, o) # 0 => dir.top[RankOf(dir, o)] = o
==============================================================================
