------------------------------ MODULE Bookmarks ------------------------------
(***************************************************************************)
(* The bookmarks (src/src/lib/abstractbookmarkmodel.cpp,                   *)
(* src/src/klib/bookmarkmodel.cpp, src/src/widgets/bookmarkdock.cpp)       *)
(* beside the contacts they are about.                                     *)
(*                                                                         *)
(* The configuration keeps a list of hashes; a hash is the URI of a number *)
(* and the uid of the contact it had when it was bookmarked.  Numbers get  *)
(* their contact when it is loaded, or another one of the same uid, so the *)
(* number a hash leads to, its category and its own hash change while the  *)
(* bookmark stays.  The rows are only grouped again as a whole.            *)
(*                                                                         *)
(* Two contacts may share a URI: each has a number of its own then, and    *)
(* each of these can be bookmarked.  In the next session both hashes lead  *)
(* to one number until the contacts are loaded, and it has the uid of the  *)
(* second: `doubled' has the URIs the session begins with this way.        *)
(***************************************************************************)
EXTENDS Contacts

CONSTANT InitialBookmarks   (* lists of hashes an earlier session may leave *)

(* Letters are no name of the popular numbers, and None is no hash.        *)
ASSUME BookmarksAssumption ==
  /\ InitialBookmarks \subseteq Seq([uri : Uris, uid : Uids \union {None}])
  /\ None \notin [uri : Uris, uid : Uids \union {None}]
  /\ \A p \in Payloads : CategoryOf["name"][p] # "mp"

VARIABLES
  saved,       (* bookmarkList of the configuration                        *)
  bookmarked,  (* numbers with m_IsBookmark                                *)
  nuid,        (* [number -> m_Uid], None if it is empty                   *)
  showPopular, (* the option to list the popular numbers too               *)
  groups,      (* m_lCategoryCounter: the categories with their rows       *)
  doubled      (* history: URIs with two bookmarks at the start            *)

bookmarkVars == <<saved, bookmarked, nuid, showPopular, groups, doubled>>
vars == <<contactsVars, bookmarkVars>>

Hash(uri, uid) == [uri |-> uri, uid |-> uid]

(* PhoneNumber::toHash() and uid() *)
toHash(c, n) ==
  Hash(c.numbers[n].uri, IF c.numbers[n].contact = 0 THEN None ELSE c.uid[c.numbers[n].contact])
UidOf(c, n) == IF n \notin DOMAIN nuid \/ nuid[n] = None THEN toHash(c, n) ELSE nuid[n]

(* PhoneDirectoryModel::fromHash(): <<contacts, number>> *)
fromHash(c, h) == getNumber(c, h.uri, IF h.uid = None THEN 0 ELSE c.byUid[h.uid])

-----------------------------------------------------------------------------
(* serialisedToList(): <<contacts, uids, numbers>> *)
NumbersOf(c0, uids, list) ==
  LET Add(x, h) == LET r == fromHash(x[1], h)
                   IN <<r[1], [n \in DOMAIN x[2] \union {r[2]} |-> IF n = r[2] THEN h ELSE x[2][n]],
                        Append(x[3], r[2])>>
  IN FoldLeft(Add, <<c0, uids, <<>>>>, list)

(* category(): the name of the contact, or the number's own. *)
LetterOf(c, n) ==
  LET o == c.numbers[n].contact
  IN IF o = 0 THEN "number"
     ELSE LET p == c.payload[c.part[o]] IN IF p = None THEN Unloaded ELSE CategoryOf["name"][p]

Group(name, popular, row) == [name |-> name, popular |-> popular, row |-> row, nodes |-> <<>>]

Listed(t, i, n) == [t EXCEPT ![i].nodes = Append(@, [number |-> n, row |-> Len(@) + 1])]

WithLetter(t, letter) ==
  IF \E i \in DOMAIN t : t[i].name = letter THEN t
  ELSE Append(t, Group(letter, FALSE, Len(t) + 1))

InLetter(c, t, n) ==
  LET u == WithLetter(t, LetterOf(c, n))
  IN Listed(u, CHOOSE i \in DOMAIN u : u[i].name = LetterOf(c, n), n)

(* The categories of read numbers, the popular ones first. *)
GroupsOf(read, popular, top) ==
  LET first == IF popular THEN FoldLeft(LAMBDA t, n : Listed(t, 1, n), <<Group("mp", TRUE, 1)>>, top)
               ELSE <<>>
  IN FoldLeft(LAMBDA t, n : InLetter(read[1], t, n), first, read[3])

(* reloadCategories() of the bookmarks, which marks the numbers read. *)
Regroup(c, list, marked, popular, top) ==
  LET read == NumbersOf(c, nuid, list)
  IN /\ m' = read[1] /\ nuid' = read[2]
     /\ bookmarked' = marked \union Range(read[3])
     /\ groups' = GroupsOf(read, popular, top)

(* What may be most popular now: PhoneDirectoryModel is free to say. *)
Tops == {<<>>} \union {<<n>> : n \in DOMAIN m.numbers}

-----------------------------------------------------------------------------
(* BookmarkModel::addBookmark(), from the contact and history docks, marks *)
(* the number before the list is read.                                     *)
addBookmark(n, top) ==
  /\ Step /\ n \notin bookmarked
  /\ saved' = Append(saved, toHash(m, n))
  /\ Regroup(m, saved', bookmarked \union {n}, showPopular, top)
  /\ UNCHANGED <<bookVars, role, backendVars, pageVars, removing, gone, showPopular, doubled>>

(* BookmarkDock::reload() *)
ShowPopular(on, top) ==
  /\ Step /\ showPopular' = on
  /\ Regroup(m, saved, bookmarked, on, top)
  /\ UNCHANGED <<bookVars, role, backendVars, pageVars, removing, gone, saved, doubled>>

(* A number of the history is looked up without a contact. *)
MeetNumber(uri) ==
  /\ Step /\ m' = getNumber(m, uri, 0)[1] /\ m' # m
  /\ UNCHANGED <<bookVars, role, backendVars, pageVars, removing, gone, bookmarkVars>>

(* removeRows() of a category that has become empty. *)
WithoutGroup(t, i) ==
  LET u == RemoveAt(t, i) IN [k \in DOMAIN u |-> [u[k] EXCEPT !.row = k]]

(* removeRows(): the rows that follow in the category keep theirs. *)
removeRows(t, i, j) ==
  LET u == [t EXCEPT ![i].nodes = RemoveAt(@, j)]
  IN IF u[i].nodes = <<>> THEN WithoutGroup(u, i) ELSE u

(* Faulty form: what the hash of the number is now. *)
RemoveByHash(n) == saved' = Without(saved, toHash(m, n))
removeBookmark(n) == saved' = Without(saved, UidOf(m, n))

(* AbstractBookmarkModel::remove(), from the dock's menu *)
RemoveRow(i, j) ==
  /\ Step
  /\ groups' = removeRows(groups, i, j)
  /\ removeBookmark(groups[i].nodes[j].number)
  /\ UNCHANGED <<bookVars, m, role, backendVars, pageVars, removing, gone>>
  /\ UNCHANGED <<bookmarked, nuid, showPopular, doubled>>

RowsOf(i) == IF i \in DOMAIN groups THEN DOMAIN groups[i].nodes ELSE {}

-----------------------------------------------------------------------------
(* The dock reads the bookmarks before any contact is loaded. *)
Init ==
  /\ ContactsInit
  /\ saved \in InitialBookmarks /\ showPopular = FALSE
  /\ doubled = {h.uri : h \in {h \in Range(saved) : \E g \in Range(saved) : g.uri = h.uri /\ g # h}}
  /\ LET read == NumbersOf(Empty, <<>>, saved)
     IN /\ m = read[1] /\ nuid = read[2] /\ bookmarked = Range(read[3])
        /\ groups = GroupsOf(read, FALSE, <<>>)

Next ==
  \/ ContactsNext /\ UNCHANGED bookmarkVars
  \/ \E uri \in Uris : MeetNumber(uri)
  \/ \E n \in DOMAIN m.numbers, top \in Tops : addBookmark(n, top)
  \/ \E on \in BOOLEAN, top \in Tops : ShowPopular(on, top)
  \/ \E i \in DOMAIN groups : \E j \in DOMAIN groups[i].nodes : RemoveRow(i, j)

Spec == Init /\ [][Next]_vars

-----------------------------------------------------------------------------
(* Properties *)

(* Every saved bookmark has a row in a letter category, and the categories *)
(* know their rows, which is how the parent of a row is found: no removal  *)
(* and no contact that is loaded meanwhile makes a bookmark disappear      *)
(* before it is removed, also when another contact has the same number and *)
(* is bookmarked too (reloadCategories, removeRows).  Nothing is claimed   *)
(* of the bookmarks of a URI of which the session has begun with two:      *)
(* there the code loses a row, see `doubled'.                              *)
SavedHasRow ==
  /\ \A i \in DOMAIN groups : groups[i].row = i
  /\ \A h \in Range(saved) : h.uri \notin doubled =>
       \E i \in DOMAIN groups :
         /\ ~groups[i].popular
         /\ \E j \in DOMAIN groups[i].nodes : UidOf(m, groups[i].nodes[j].number) = h

(* A bookmark removed from a letter category does not come back: reading   *)
(* the saved list again does not lead to its number, although the number   *)
(* may have got a contact, and with it another hash, since, and other      *)
(* contacts of its URI have bookmarks (remove, removeBookmark,             *)
(* serialisedToList).  URIs with two bookmarks at the start are excepted.  *)
RemovalForgets ==
  \A i \in DOMAIN groups : \A j \in DOMAIN groups[i].nodes :
    LET n == groups[i].nodes[j].number
    IN ~groups[i].popular /\ m.numbers[n].uri \notin doubled /\ RemoveRow(i, j)
         => ~Contains(NumbersOf(m, nuid, saved')[3], n)

(* A bookmark is shown until it is removed and never again: both of the    *)
(* above, after and in every step.                                         *)
BookmarksPersist == [][SavedHasRow' /\ RemovalForgets]_vars
==============================================================================
