------------------------------- MODULE Contacts -------------------------------
(***************************************************************************)
(* The contacts (src/src/lib/contactmodel.cpp, src/src/lib/contact.cpp),   *)
(* the tree the contact dock shows (src/src/lib/contactproxymodel.cpp) and *)
(* the address books they come from (src/src/klib/akonadibackend.cpp),     *)
(* which the user enables in the settings                                  *)
(* (src/src/lib/itembackendmodel.cpp, src/src/conf/dlgaddressbook.cpp).    *)
(*                                                                         *)
(* The books belong to Akonadi, another process: a book is loaded by one   *)
(* fetch and followed by notifications, and the two are not ordered with   *)
(* each other.  A contact asked for by its uid before it is there is given *)
(* out as a placeholder, which takes the place of the contact's private    *)
(* part once it is listed; contacts are never taken from the list again,   *)
(* they become inactive.                                                   *)
(*                                                                         *)
(* What a contact holds is a member of Payloads, of which the model knows  *)
(* the first phone number and the category under each sorting role.        *)
(* All books are at the top level of Akonadi's tree.                       *)
(***************************************************************************)
EXTENDS FiniteSets, QtLists

CONSTANTS
  Backends,      (* address books                                          *)
  Uids,          (* uids of contacts                                       *)
  Uris,          (* URIs of phone numbers                                  *)
  Complete,      (* those of them with a hostname                          *)
  Payloads,      (* what an item of a book may hold                        *)
  UriOf,         (* [Payloads -> Uris, or None for one without a number]   *)
  Roles,         (* sorting roles of the dock, "name" is the first one     *)
  CategoryOf,    (* [Roles -> [Payloads -> category]]                      *)
  HideEmpty,     (* the option to hide contacts without a number           *)
  RemoteIdIsUid, (* books whose items have their uid as remote id          *)
  InitialItems,  (* what the books may hold at the start                   *)
  None,          (* nothing: no item, no book                              *)
  MaxObjects,    (* bound: contact objects created                         *)
  MaxSteps       (* bound: changes to the books and steps of the user      *)

ASSUME ContactsAssumption ==
  /\ UriOf \in [Payloads -> Uris \union {None}] /\ Complete \subseteq Uris
  /\ "name" \in Roles /\ DOMAIN CategoryOf = Roles /\ \A r \in Roles : DOMAIN CategoryOf[r] = Payloads
  /\ HideEmpty \in BOOLEAN /\ RemoteIdIsUid \subseteq Backends
  /\ None \notin Backends \union Payloads \union Uids \union Uris /\ IsFiniteSet(Uids)
  /\ InitialItems \subseteq [Backends -> [Uids -> Payloads \union {None}]]
  /\ MaxObjects \in Nat /\ MaxSteps \in Nat

VARIABLES
  items,    (* external: [Backends -> [Uids -> Payloads or None]]          *)
  steps,    (* bounded: changes to the books and steps of the user          *)
  fetch,    (* external: the fetch of a book, "idle", "asked" or "sent"    *)
  sent,     (* external: what the fetch has found                          *)
  mail,     (* external: [Backends -> Seq(notification)]                   *)
  m,        (* contacts, their numbers and their tree, see Empty           *)
  role,     (* m_Role of ContactProxyModel                                 *)
  known,    (* m_lBackends of ContactModel                                 *)
  enabled, wasEnabled,  (* of each backend                                 *)
  unchecked,(* m_hChecked: true for the books that are not checked         *)
  stored,   (* disabledCollectionList of the configuration                 *)
  page,     (* the address book page is open                               *)
  changed,  (* m_HasChanged of the page                                    *)
  rows,     (* books with a row on the page, -1 before the first look      *)
  removing, (* the contact whose deletion is waited for, 0 if there is none *)
  gone      (* history: contacts of which a deletion was handled, and all  *)
            (* of the uid a notified deletion was found by                 *)

bookVars == <<items, fetch, sent, mail>>
backendVars == <<known, enabled, wasEnabled>>
pageVars == <<unchecked, stored, page, changed, rows>>
contactsVars == <<steps, bookVars, m, role, backendVars, pageVars, removing, gone>>

Unloaded == "unloaded"   (* category of a contact that holds nothing yet    *)

-----------------------------------------------------------------------------
(* Contact: object o shows what its private part holds. *)
Empty ==
  [uid |-> <<>>, part |-> <<>>, parents |-> <<>>, payload |-> <<>>, active |-> <<>>,
   owner |-> <<>>, contacts |-> <<>>, byUid |-> [u \in Uids |-> 0],
   placeholders |-> [u \in Uids |-> 0], numbers |-> <<>>, tree |-> <<>>]

Objects(c) == DOMAIN c.part
SamePart(c, o, q) == o # 0 /\ q # 0 /\ c.part[o] = c.part[q]
Category(c, o, r) ==
  LET p == c.payload[c.part[o]] IN IF p = None THEN Unloaded ELSE CategoryOf[r][p]

NewObject(c, u, b) ==
  LET o == Len(c.part) + 1
  IN [c EXCEPT !.uid = Append(@, u), !.part = Append(@, o), !.parents = Append(@, <<o>>),
               !.payload = Append(@, None), !.active = Append(@, TRUE), !.owner = Append(@, b)]

setActive(c, o, on) == [c EXCEPT !.active[c.part[o]] = on]

(* ContactPlaceHolder::merge() and replaceDPointer(). *)
Merged(c, o, q) ==
  IF SamePart(c, o, q) THEN c
  ELSE [c EXCEPT !.part[o] = c.part[q],
                 !.parents[c.part[q]] = Append(@, o), !.parents[c.part[o]] = Without(@, o)]

-----------------------------------------------------------------------------
(* Phone numbers: getNumber() and fillDetails() without an account.        *)
(* Numbers are found by their URI and then by the uid of their contact;    *)
(* Directory has what accounts change.                                     *)
OfUid(c, n, u) == n.contact # 0 /\ c.uid[n.contact] = u

NumberOfUid(c, uri, u) == SelectInSeq(c.numbers, LAMBDA n : n.uri = uri /\ OfUid(c, n, u))

FirstNumber(c, uri, o) ==
  LET own == IF o = 0 \/ uri \in Complete THEN 0 ELSE NumberOfUid(c, uri, c.uid[o])
  IN IF own # 0 THEN own
     ELSE SelectInSeq(c.numbers, LAMBDA n : /\ n.uri = uri
                                            /\ o = 0 \/ n.contact = 0 \/ OfUid(c, n, c.uid[o]))

(* <<contacts, position of the number>>.  A number with a hostname is      *)
(* given to the contact that asks, a short one keeps the contact it has.   *)
getNumber(c, uri, o) ==
  LET n == FirstNumber(c, uri, o)
  IN IF n = 0
     THEN <<[c EXCEPT !.numbers = Append(@, [uri |-> uri, contact |-> o])], Len(c.numbers) + 1>>
     ELSE IF o # 0 /\ (c.numbers[n].contact = 0 \/ uri \in Complete)
     THEN <<[c EXCEPT !.numbers[n].contact = o], n>>
     ELSE <<c, n>>

fillContact(c, o, p) ==
  LET d == [c EXCEPT !.payload[c.part[o]] = p]
  IN IF UriOf[p] = None THEN d ELSE getNumber(d, UriOf[p], o)[1]

-----------------------------------------------------------------------------
(* ContactProxyModel *)
TopLevelItem(tree, cat) ==
  IF \E i \in DOMAIN tree : tree[i].name = cat THEN tree
  ELSE Append(tree, [name |-> cat, row |-> Len(tree) + 1, nodes |-> <<>>])

Inserted(tree, cat, o) ==
  LET t == TopLevelItem(tree, cat)
      i == CHOOSE i \in DOMAIN t : t[i].name = cat
  IN [t EXCEPT ![i].nodes = Append(@, [contact |-> o, row |-> Len(@) + 1])]

(* Faulty form: the categories are filled again without being emptied. *)
RegroupedOnTop(c, r) ==
  [c EXCEPT !.tree = FoldLeft(LAMBDA t, o : Inserted(t, Category(c, o, r), o), @, c.contacts)]

reloadCategories(c, r) ==
  [c EXCEPT !.tree = FoldLeft(LAMBDA t, o : Inserted(t, Category(c, o, r), o), <<>>, c.contacts)]

-----------------------------------------------------------------------------
(* ContactModel *)
addContact(c, o) ==
  LET u == c.uid[o]
      d == [c EXCEPT !.contacts = Append(@, o), !.byUid[u] = o]
      e == IF d.placeholders[u] = 0 THEN d
           ELSE [Merged(d, d.placeholders[u], o) EXCEPT !.placeholders[u] = 0]
  IN [e EXCEPT !.tree = Inserted(@, Category(e, o, role), o)]

(* Faulty form: a placeholder even for a contact that is listed. *)
PlaceHolderAnyway(c, u) ==
  IF c.placeholders[u] # 0 THEN <<c, c.placeholders[u]>>
  ELSE LET o == Len(c.part) + 1
       IN <<[NewObject(c, u, None) EXCEPT !.placeholders[u] = o], o>>

(* <<contacts, the object to use>> *)
getPlaceHolder(c, u) ==
  IF c.byUid[u] # 0 THEN <<c, c.byUid[u]>>
  ELSE IF c.placeholders[u] # 0 THEN <<c, c.placeholders[u]>>
  ELSE LET o == Len(c.part) + 1
       IN <<[NewObject(c, u, None) EXCEPT !.placeholders[u] = o], o>>

-----------------------------------------------------------------------------
(* AkonadiBackend: addItem() and slotItemAdded(). *)
ItemAdded(c, b, u, p) ==
  IF UriOf[p] = None /\ HideEmpty THEN c
  ELSE LET o == Len(c.part) + 1
       IN addContact(fillContact(NewObject(c, u, b), o, p), o)

OwnedBy(c, b) == {o \in Objects(c) : c.owner[o] = b}
AllActive(c, b, on) ==
  [c EXCEPT !.active = [p \in DOMAIN @ |-> IF \E o \in OwnedBy(c, b) : c.part[o] = p THEN on ELSE @[p]]]

(* The backends as one record: what enable() and load() read and write. *)
Backend == [enabled |-> enabled, wasEnabled |-> wasEnabled, fetch |-> fetch, m |-> m]

load(s, b) == [s EXCEPT !.enabled[b] = TRUE, !.fetch[b] = "asked"]

(* Faulty form: enabling again does not say that the book is enabled.      *)
EnableUnsaid(s, b, on) ==
  IF on /\ ~s.wasEnabled[b] THEN load(s, b)
  ELSE IF on THEN [s EXCEPT !.m = AllActive(@, b, TRUE), !.wasEnabled[b] = FALSE]
  ELSE IF s.enabled[b]
  THEN [s EXCEPT !.m = AllActive(@, b, FALSE), !.enabled[b] = FALSE, !.wasEnabled[b] = TRUE]
  ELSE s

enable(s, b, on) ==
  IF on /\ ~s.wasEnabled[b] THEN load(s, b)
  ELSE IF on
  THEN [s EXCEPT !.m = AllActive(@, b, TRUE), !.wasEnabled[b] = FALSE, !.enabled[b] = TRUE]
  ELSE IF s.enabled[b]
  THEN [s EXCEPT !.m = AllActive(@, b, FALSE), !.enabled[b] = FALSE, !.wasEnabled[b] = TRUE]
  ELSE s

SetBackend(s) ==
  /\ enabled' = s.enabled /\ wasEnabled' = s.wasEnabled /\ fetch' = s.fetch /\ m' = s.m

Monitored(b) == enabled[b] \/ wasEnabled[b]

Note(kind, u, p) == [kind |-> kind, uid |-> u, payload |-> p]
Notified(b, note) == mail' = IF Monitored(b) THEN [mail EXCEPT ![b] = Append(@, note)] ELSE mail

Step == steps < MaxSteps /\ steps' = steps + 1

-----------------------------------------------------------------------------
(* Akonadi, with the editors the client opens on its items. *)
StoreItem(b, u, p) ==
  /\ Step /\ items[b][u] # p
  /\ items' = [items EXCEPT ![b][u] = p]
  /\ Notified(b, Note(IF p = None THEN "removed"
                      ELSE IF items[b][u] = None THEN "added" ELSE "changed", u, p))
  /\ UNCHANGED <<fetch, sent, m, role, backendVars, pageVars, removing, gone>>

FetchAnswered(b) ==
  /\ fetch[b] = "asked"
  /\ fetch' = [fetch EXCEPT ![b] = "sent"] /\ sent' = [sent EXCEPT ![b] = items[b]]
  /\ UNCHANGED <<steps, items, mail, m, role, backendVars, pageVars, removing, gone>>

(* Slots of AkonadiBackend and AkonadiContactCollectionModel *)
slotInsertCollection(b) ==
  /\ ~Contains(known, b) /\ known' = Append(known, b)
  /\ IF b \notin unchecked THEN SetBackend(load(Backend, b))
     ELSE UNCHANGED <<enabled, wasEnabled, fetch, m>>
  /\ UNCHANGED <<steps, items, sent, mail, role, pageVars, removing, gone>>

itemsReceived(b) ==
  /\ fetch[b] = "sent"
  /\ fetch' = [fetch EXCEPT ![b] = "idle"]
  /\ LET found == SetToSeq({u \in Uids : sent[b][u] # None})
     IN /\ Len(m.part) + Len(found) <= MaxObjects
        /\ m' = FoldLeft(LAMBDA c, u : ItemAdded(c, b, u, sent[b][u]), m, found)
  /\ sent' = [sent EXCEPT ![b] = [u \in Uids |-> None]]
  /\ UNCHANGED <<steps, items, mail, role, backendVars, pageVars, removing, gone>>

slotItemAdded(b) ==
  /\ mail[b] # <<>> /\ Head(mail[b]).kind = "added"
  /\ Len(m.part) < MaxObjects
  /\ m' = ItemAdded(m, b, Head(mail[b]).uid, Head(mail[b]).payload)
  /\ mail' = [mail EXCEPT ![b] = Tail(@)]
  /\ UNCHANGED <<steps, items, fetch, sent, role, backendVars, pageVars, removing, gone>>

slotItemChanged(b) ==
  /\ mail[b] # <<>> /\ Head(mail[b]).kind = "changed"
  /\ LET o == m.byUid[Head(mail[b]).uid]
     IN m' = IF o = 0 THEN m ELSE fillContact(m, o, Head(mail[b]).payload)
  /\ mail' = [mail EXCEPT ![b] = Tail(@)]
  /\ UNCHANGED <<steps, items, fetch, sent, role, backendVars, pageVars, removing, gone>>

(* The uid is looked up among the contacts of all books. *)
slotItemRemoved(b) ==
  /\ mail[b] # <<>> /\ Head(mail[b]).kind = "removed"
  /\ LET u == Head(mail[b]).uid
         o == IF b \in RemoteIdIsUid THEN m.byUid[u] ELSE 0
     IN IF o = 0 THEN UNCHANGED <<m, gone>>
        ELSE m' = setActive(m, o, FALSE) /\ gone' = gone \union {q \in Objects(m) : m.uid[q] = u}
  /\ mail' = [mail EXCEPT ![b] = Tail(@)]
  /\ UNCHANGED <<steps, items, fetch, sent, role, backendVars, pageVars, removing>>

(* AkonadiBackend::remove(): the job runs an event loop of its own, so     *)
(* anything may be handled before the contact is made inactive.            *)
RemoveContact(o) ==
  /\ Step /\ removing = 0
  /\ removing' = o
  /\ LET b == m.owner[o]  u == m.uid[o]
     IN IF items[b][u] = None THEN UNCHANGED <<items, mail>>
        ELSE /\ items' = [items EXCEPT ![b][u] = None]
             /\ Notified(b, Note("removed", u, None))
  /\ UNCHANGED <<fetch, sent, m, role, backendVars, pageVars, gone>>

ContactRemoved ==
  /\ removing # 0
  /\ m' = setActive(m, removing, FALSE) /\ gone' = gone \union {removing} /\ removing' = 0
  /\ UNCHANGED <<steps, bookVars, role, backendVars, pageVars>>

(* Call::buildHistoryCall() asks for the contact of a past call. *)
AskForContact(u) ==
  /\ Step /\ Len(m.part) < MaxObjects
  /\ m' = getPlaceHolder(m, u)[1] /\ m' # m
  /\ UNCHANGED <<bookVars, role, backendVars, pageVars, removing, gone>>

(* ContactDock::setCategory() *)
setRole(r) ==
  /\ Step /\ r # role /\ role' = r /\ m' = reloadCategories(m, r)
  /\ UNCHANGED <<bookVars, backendVars, pageVars, removing, gone>>

-----------------------------------------------------------------------------
(* The address book page and CommonItemBackendModel, whose number of rows  *)
(* is the one at the first look.                                           *)
OpenPage ==
  /\ Step /\ ~page /\ page' = TRUE /\ changed' = FALSE
  /\ rows' = IF rows = -1 THEN Len(known) ELSE rows
  /\ unchecked' = stored
  /\ UNCHANGED <<bookVars, m, role, backendVars, stored, removing, gone>>

ClosePage ==
  /\ page /\ page' = FALSE
  /\ UNCHANGED <<steps, bookVars, m, role, backendVars, unchecked, stored, changed, rows, removing, gone>>

Check(i, on) ==
  /\ Step /\ page /\ i <= rows
  /\ unchecked' = IF on THEN unchecked \ {known[i]} ELSE unchecked \union {known[i]}
  /\ changed' = (changed \/ enabled[known[i]] # on)
  /\ UNCHANGED <<bookVars, m, role, backendVars, stored, page, rows, removing, gone>>

(* CommonItemBackendModel::save() *)
Saved(s, b) ==
  IF (b \notin unchecked) # s.enabled[b] THEN enable(s, b, b \notin unchecked) ELSE s

ApplyPage ==
  /\ page /\ changed
  /\ changed' = FALSE /\ stored' = unchecked
  /\ SetBackend(FoldLeft(Saved, Backend, SubSeq(known, 1, rows)))
  /\ UNCHANGED <<steps, items, sent, mail, role, known, unchecked, page, rows, removing, gone>>

-----------------------------------------------------------------------------
(* What the contacts start with, but for m, which is up to who is there   *)
(* before the first contact.                                               *)
ContactsInit ==
  /\ items \in InitialItems /\ steps = 0
  /\ fetch = [b \in Backends |-> "idle"]
  /\ sent = [b \in Backends |-> [u \in Uids |-> None]]
  /\ mail = [b \in Backends |-> <<>>]
  /\ role = "name"
  /\ known = <<>>
  /\ enabled = [b \in Backends |-> FALSE] /\ wasEnabled = [b \in Backends |-> FALSE]
  /\ stored \in SUBSET Backends /\ unchecked = stored
  /\ page = FALSE /\ changed = FALSE /\ rows = -1
  /\ removing = 0 /\ gone = {}

ContactsNext ==
  \/ \E b \in Backends, u \in Uids, p \in Payloads \union {None} : StoreItem(b, u, p)
  \/ \E b \in Backends :
       \/ FetchAnswered(b) \/ slotInsertCollection(b) \/ itemsReceived(b)
       \/ slotItemAdded(b) \/ slotItemChanged(b) \/ slotItemRemoved(b)
  \/ \E o \in Range(m.contacts) : RemoveContact(o)
  \/ ContactRemoved
  \/ \E u \in Uids : AskForContact(u)
  \/ \E r \in Roles : setRole(r)
  \/ OpenPage \/ ClosePage \/ ApplyPage
  \/ \E i \in DOMAIN known, on \in BOOLEAN : Check(i, on)

-----------------------------------------------------------------------------
(* Properties *)

Places(tree) == UNION {{<<i, j>> : j \in DOMAIN tree[i].nodes} : i \in DOMAIN tree}
ContactAt(p) == m.tree[p[1]].nodes[p[2]].contact

(* Whatever was added in whichever order and however the dock was sorted   *)
(* since, each listed contact has exactly one node, and what the nodes and *)
(* the categories remember of their rows is where they are: a contact that *)
(* changes repaints its own row (slotContactAdded, reloadCategories).      *)
TreeAgrees ==
  /\ \A i \in DOMAIN m.tree :
       /\ m.tree[i].row = i /\ m.tree[i].nodes # <<>>
       /\ \A j \in DOMAIN m.tree[i].nodes : m.tree[i].nodes[j].row = j
  /\ {ContactAt(p) : p \in Places(m.tree)} = Range(m.contacts)
  /\ \A p, q \in Places(m.tree) : ContactAt(p) = ContactAt(q) => p = q

(* Whoever was given a placeholder has the contact once it is listed, and  *)
(* is told of its changes: no call of the history keeps an empty contact   *)
(* because it was asked for too early or too late (getPlaceHolder,         *)
(* addContact, merge).                                                     *)
PlaceholderResolved ==
  \A o \in Objects(m) :
    LET p == m.part[o]
    IN /\ Contains(m.parents[p], o) /\ IsInjective(m.parents[p])
       /\ (m.owner[o] = None /\ \E q \in Range(m.contacts) : m.uid[q] = m.uid[o])
            => \E q \in Range(m.contacts) : m.uid[q] = m.uid[o] /\ SamePart(m, o, q)

(* Every contact of an enabled book is active, after any sequence of       *)
(* disabling, enabling and notifications, but for two kinds of contacts:   *)
(* those the user has deleted, and those that were listed under the uid of *)
(* an item whose deletion was notified, in whichever book.  The handler    *)
(* looks that uid up in all books and so turns off the contact of another  *)
(* book that still has it: nothing is claimed of such a contact (enable,   *)
(* slotItemRemoved).                                                       *)
EnabledIsActive ==
  \A o \in Range(m.contacts) : enabled[m.owner[o]] /\ o \notin gone => m.active[m.part[o]]

(* The books that are loaded are those the configuration names, whenever   *)
(* they appeared, and whatever was checked and not applied: what the next  *)
(* start loads is what is shown now (addBackend, save, enable).            *)
BackendsAsStored == \A b \in Range(known) : enabled[b] <=> b \notin stored

(* What a book's switch says is so, for its contacts and for the next      *)
(* start: both of the above.                                               *)
SwitchesAgree == EnabledIsActive /\ BackendsAsStored
===============================================================================
