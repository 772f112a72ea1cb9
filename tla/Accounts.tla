------------------------------ MODULE Accounts ------------------------------
(***************************************************************************)
(* The client's copy of the daemon's accounts and the dialog that edits    *)
(* it: class Account (src/src/lib/account.cpp), AccountModel               *)
(* (src/src/lib/accountmodel.cpp) and DlgAccounts                          *)
(* (src/src/conf/dlgaccounts.cpp).                                         *)
(*                                                                         *)
(* The daemon is another process that other clients configure too.  It     *)
(* announces every change of its accounts with accountsChanged and every   *)
(* registration with sipRegistrationStateChanged; D-Bus queues both while  *)
(* the user edits.  The handlers read the daemon's accounts when they run. *)
(*                                                                         *)
(* An account's details are one value; the form of the dialog shows one    *)
(* such value.  The order in which the daemon lists its accounts, which    *)
(* the client sets and others may change, is any.  The account IP2IP, always row 0, which can neither move    *)
(* nor go, is left out: rows count from 1 here as they do after it there.  *)
(***************************************************************************)
EXTENDS EditStates, Naturals, SequencesExt

CONSTANTS
  Ids,         (* the ids the daemon gives to accounts                     *)
  Details,     (* the contents an account may have                         *)
  Template,    (* the contents of a new one                                *)
  Start,       (* the daemon's accounts when the client starts             *)
  MaxForeign,  (* bound: changes of the daemon that are not the client's   *)
  MaxNew       (* bound: accounts created in the dialog                    *)

ASSUME IdsAssumption     == IsFiniteSet(Ids)
ASSUME DetailsAssumption == Template \in Details
ASSUME StartAssumption   == Start \in Seq(Ids) /\ IsInjective(Start)
ASSUME BoundsAssumption  == MaxForeign \in Nat /\ MaxNew \in Nat

VARIABLES
  known,    (* the daemon's getAccountList, in any order                   *)
  remote,   (* its details of each of them                                 *)
  changed,  (* an accountsChanged is on its way                            *)
  reg,      (* accounts with a sipRegistrationStateChanged on its way      *)
  list,     (* m_lAccounts                                                 *)
  state,    (* m_CurrentState of each account's object                     *)
  copy,     (* its m_hAccountDetails                                       *)
  isNew,    (* it has no id yet                                            *)
  deleted,  (* m_lDeletedAccounts                                          *)
  open,     (* the dialog is shown                                         *)
  cur,      (* row of the selected account, 0 when it is IP2IP             *)
  form,     (* what the widgets show                                       *)
  dirty,    (* accountListHasChanged                                       *)
  undefined,(* a handler has left what C++ defines                         *)
  foreign,  (* changes made by others: a counter                           *)
  created   (* accounts made here: a counter                               *)

daemonVars == <<known, remote, changed, reg>>
objectVars == <<state, copy, isNew>>
dialogVars == <<open, cur, form, dirty>>
countVars  == <<undefined, foreign, created>>
vars == <<daemonVars, list, objectVars, deleted, dialogVars, countVars>>

Listed == Range(list)

Rows        == list \in Seq(Ids) /\ cur \in 0..Len(list)
DaemonTypes == known \subseteq Ids /\ remote \in [Ids -> Details] /\ changed \in BOOLEAN
ObjectTypes == /\ state \in [Ids -> EditState] /\ copy \in [Ids -> Details]
               /\ isNew \in [Ids -> BOOLEAN]
FormType    == form \in Details
FlagTypes   == /\ reg \subseteq Ids /\ deleted \subseteq Ids
               /\ open \in BOOLEAN /\ dirty \in BOOLEAN /\ undefined \in BOOLEAN
               /\ foreign \in 0..MaxForeign /\ created \in 0..MaxNew

(* The types; and no account is listed twice, whichever of the signal       *)
(* handlers, the dialog and the saving puts it into the list.               *)
TypeOK == /\ Rows /\ DaemonTypes /\ ObjectTypes /\ FormType /\ FlagTypes
          /\ ~undefined => IsInjective(list)

-----------------------------------------------------------------------------
(* One account: the handler of an action, and what it does to the object.  *)

(* The state a handler leaves; reload does nothing to a new account.       *)
StateAfter(a, handler, s) ==
  LET to == [nothing |-> s, edit |-> "EDITING", modify |-> "MODIFIED",
             reloadMod |-> "MODIFIED", outdate |-> "OUTDATED", cancel |-> "READY",
             reload |-> IF isNew[a] THEN s ELSE "READY", save |-> "READY"]
  IN to[handler]

(* An account the daemon does not have any more keeps its details.         *)
CopyAfter(a, handler) ==
  IF handler \in {"reload", "reloadMod"} /\ ~isNew[a] /\ a \in known
  THEN remote[a]
  ELSE copy[a]

HandlerForgets(a, action) ==
  IF state[a] = "EDITING" /\ action = "RELOAD" THEN "nothing"
  ELSE stateMachineActionsOnState[state[a]][action]
HandlerDiscards(a, action) ==
  IF state[a] = "MODIFIED" /\ action = "RELOAD" THEN "reload"
  ELSE stateMachineActionsOnState[state[a]][action]
Handler(a, action) == stateMachineActionsOnState[state[a]][action]
State(a, action)   == StateAfter(a, Handler(a, action), state[a])
Copy(a, action)    == CopyAfter(a, Handler(a, action))

-----------------------------------------------------------------------------
(* The dialog leaves the account of one row and loads another.             *)

(* What the fields show is kept in the account of the row if that one is   *)
(* MODIFIED; an account that was only looked at is given back.             *)
saveAccount(a) == IF state[a] = "MODIFIED" THEN form ELSE copy[a]
GivenBack(a)   == state[a] \in {"EDITING", "OUTDATED"}
LeaveState(a)  == IF GivenBack(a) THEN State(a, "CANCEL") ELSE state[a]
LeaveCopy(a)   == IF GivenBack(a) THEN Copy(a, "CANCEL") ELSE saveAccount(a)

(* The fields take the details of the account, which is then EDITING.      *)
loadAccount(rows, current, left, details) ==
  /\ cur' = current
  /\ IF current = 0 THEN form' = form /\ state' = left
     ELSE /\ form' = details[rows[current]]
          /\ state' = [left EXCEPT ![rows[current]] =
                          StateAfter(rows[current], stateMachineActionsOnState[@].EDIT, @)]

(* Rows are those of the list as it is by now: the row that is left may    *)
(* hold another account than the one the fields were filled from.  Nobody  *)
(* can reach the object of an account that is not in the rows any more.    *)
accountListChanged(rows, previous, current) ==
  LET leaves(a) == previous \in DOMAIN rows /\ a = rows[previous]
      gone(a)   == a \notin Range(rows)
      left == [a \in Ids |-> IF gone(a) THEN "READY"
                             ELSE IF leaves(a) THEN LeaveState(a) ELSE state[a]]
  IN /\ copy'  = [a \in Ids |-> IF gone(a) THEN Template
                               ELSE IF leaves(a) THEN LeaveCopy(a) ELSE copy[a]]
     /\ isNew' = [a \in Ids |-> isNew[a] /\ ~gone(a)]
     /\ loadAccount(rows, current, left, copy')

(* The dialog is built for each use and shows the first account.           *)
Open ==
  /\ ~open /\ open' = TRUE /\ dirty' = FALSE
  /\ accountListChanged(list, 0, IF list = <<>> THEN 0 ELSE 1)
  /\ UNCHANGED <<daemonVars, list, deleted, countVars>>

Select(row) ==
  /\ open /\ row \in 0..Len(list) \ {cur}
  /\ accountListChanged(list, cur, row)
  /\ UNCHANGED <<daemonVars, list, deleted, open, dirty, countVars>>

(* A field of the form: changedAccountList.                                *)
Type(v) ==
  /\ open /\ cur # 0 /\ v # form
  /\ state' = [state EXCEPT ![list[cur]] = State(list[cur], "MODIFY")]
  /\ copy'  = [copy EXCEPT ![list[cur]] = Copy(list[cur], "MODIFY")]
  /\ form' = v /\ dirty' = TRUE
  /\ UNCHANGED <<daemonVars, list, isNew, deleted, open, cur, countVars>>

(* The check box of any row, or the alias: setAccountDetail at once.       *)
setData(row, v) ==
  LET a == list[row] IN
  /\ open /\ row \in DOMAIN list /\ v # copy[a]
  /\ state' = [state EXCEPT ![a] = State(a, "MODIFY")]
  /\ copy'  = [copy EXCEPT ![a] = IF state'[a] = "MODIFIED" THEN v ELSE @]
  /\ form' = IF row = cur THEN v ELSE form
  /\ dirty' = TRUE
  /\ UNCHANGED <<daemonVars, list, isNew, deleted, open, cur, countVars>>

(* The rows move first, then the selection moves after the account: the    *)
(* row that is left holds the other one.  The button also counts as a      *)
(* change of the account that is now selected.                             *)
Move(to) ==
  LET moved == list[cur]
      other == list[to]
  IN /\ open /\ cur # 0 /\ to \in DOMAIN list
     /\ list' = [list EXCEPT ![cur] = other, ![to] = moved]
     /\ state' = [state EXCEPT ![other] = LeaveState(other), ![moved] = State(moved, "MODIFY")]
     /\ copy'  = [copy EXCEPT ![other] = LeaveCopy(other), ![moved] = Copy(moved, "MODIFY")]
     /\ form' = copy[moved] /\ cur' = to /\ dirty' = TRUE
     /\ UNCHANGED <<daemonVars, isNew, deleted, open, countVars>>

moveUp   == Move(cur - 1)
moveDown == Move(cur + 1)

(* A new object, filled from the daemon's template; naming it makes it     *)
(* MODIFIED.  Its id, which it gets when it is saved, names it from here.  *)
Add(a) ==
  /\ open /\ created < MaxNew
  /\ a \notin known \cup Listed \cup deleted
  /\ list' = Append(list, a)
  /\ LET left(b) == cur # 0 /\ b = list[cur]
     IN /\ state' = [b \in Ids |-> IF b = a THEN "MODIFIED"
                                  ELSE IF left(b) THEN LeaveState(b) ELSE state[b]]
        /\ copy'  = [b \in Ids |-> IF b = a THEN Template
                                  ELSE IF left(b) THEN LeaveCopy(b) ELSE copy[b]]
  /\ isNew' = [isNew EXCEPT ![a] = TRUE]
  /\ form' = Template /\ cur' = Len(list') /\ dirty' = TRUE
  /\ created' = created + 1
  /\ UNCHANGED <<daemonVars, deleted, open, undefined, foreign>>

(* The first account is selected afterwards: when the one removed was the  *)
(* first, the selection stays on its row and nothing is left.              *)
remove ==
  /\ open /\ cur # 0
  /\ list' = RemoveAt(list, cur)
  /\ deleted' = IF isNew[list[cur]] THEN deleted ELSE deleted \cup {list[cur]}
  /\ accountListChanged(list', IF cur = 1 THEN 0 ELSE cur,
                        IF list' = <<>> THEN 0 ELSE 1)
  /\ dirty' = TRUE
  /\ UNCHANGED <<daemonVars, open, countVars>>

(* updateSettings, with the whole of AccountModel::save: what the fields   *)
(* show goes to the selected account, MODIFIED accounts to the daemon; the *)
(* daemon loses the accounts the client does not list.  An account the     *)
(* daemon has lost is sent to it for nothing and keeps its details.        *)
save ==
  LET here(a)  == cur # 0 /\ a = list[cur]
      st(a)    == IF here(a) THEN LeaveState(a) ELSE state[a]
      cp(a)    == IF here(a) THEN LeaveCopy(a) ELSE copy[a]
      saved(a) == a \in Listed /\ stateMachineActionsOnState[st(a)].SAVE = "save"
  IN /\ state' = [a \in Ids |-> IF saved(a) THEN "READY" ELSE st(a)]
     /\ copy'  = [a \in Ids |-> cp(a)]
     /\ known' = {a \in Listed : a \in known \/ isNew[a]}
     /\ remote' = [a \in Ids |-> IF a \notin known' THEN Template
                                ELSE IF saved(a) THEN cp(a) ELSE remote[a]]
     /\ isNew' = [a \in Ids |-> isNew[a] /\ a \notin Listed]
     /\ reg' = reg \cup (known \ Listed) \cup {a \in Listed : isNew[a]}
     /\ changed' = (changed \/ known # known' \/ \E a \in Ids : saved(a))

Apply ==
  /\ open /\ dirty
  /\ save /\ dirty' = FALSE /\ deleted' = {}
  /\ UNCHANGED <<list, open, cur, form, countVars>>

(* The dialog is deleted when it closes.                                   *)
Close == /\ open /\ open' = FALSE /\ dirty' = FALSE
         /\ cur' = 0 /\ form' = Template
         /\ UNCHANGED <<list, countVars>>

Ok ==
  /\ Close
  /\ IF dirty THEN save /\ deleted' = {}
              ELSE UNCHANGED <<daemonVars, objectVars, deleted>>

(* Only MODIFIED and OUTDATED accounts are reloaded, a new one not at all. *)
DroppedIfOutdated(a) == a \in Listed /\ state[a] = "OUTDATED"
Dropped(a) == a \in Listed /\ state[a] \in {"MODIFIED", "OUTDATED"}
Cancel ==
  /\ Close
  /\ state' = [a \in Ids |-> IF Dropped(a) THEN State(a, "CANCEL") ELSE state[a]]
  /\ copy'  = [a \in Ids |-> IF Dropped(a) THEN Copy(a, "CANCEL") ELSE copy[a]]
  /\ deleted' = {}
  /\ UNCHANGED <<daemonVars, isNew>>

-----------------------------------------------------------------------------
(* The daemon's signals.                                                   *)

(* The id of a new account is still empty: it is not found by it.          *)
HasId(a) == a \in Listed /\ ~isNew[a]

Orders(S) == {s \in [1..Cardinality(S) -> S] : IsInjective(s)}

(* updateAccounts: appends what it does not know, reloads what it knows,   *)
(* and keeps what the daemon has dropped.                                  *)
updateAccounts ==
  /\ ~undefined /\ changed /\ changed' = FALSE
  /\ \E order \in Orders({a \in known : ~HasId(a)}) : list' = list \o order
  /\ state' = [a \in Ids |-> IF a \notin known THEN state[a]
                             ELSE IF HasId(a) THEN State(a, "RELOAD") ELSE "READY"]
  /\ copy'  = [a \in Ids |-> IF a \notin known THEN copy[a]
                             ELSE IF HasId(a) THEN Copy(a, "RELOAD") ELSE remote[a]]
  /\ isNew' = [a \in Ids |-> isNew[a] /\ a \notin known]
  /\ UNCHANGED <<known, remote, reg, deleted, dialogVars, countVars>>

(* slotAccountChanged.  An unknown id makes it insert every account it     *)
(* does not know at the daemon's place for it, which may be behind the end *)
(* of the list, and remove row -1 for every listed READY account that the  *)
(* daemon does not have: both are outside what QVector defines.            *)
Unlisted == {a \in known \ deleted : ~HasId(a)}
Inserted(order) ==
  FoldLeftDomain(LAMBDA l, i : IF order[i] \in Unlisted /\ i <= Len(l) + 1
                               THEN InsertAt(l, i, order[i]) ELSE l,
                 list, order)
slotAccountChanged(a) ==
  /\ ~undefined /\ a \in reg /\ reg' = reg \ {a}
  /\ IF HasId(a)
     THEN UNCHANGED <<list, state, copy, isNew, undefined>>
     ELSE /\ \E order \in Orders(known) : list' = Inserted(order)
          /\ state' = [b \in Ids |-> IF b \in Unlisted THEN "READY" ELSE state[b]]
          /\ copy'  = [b \in Ids |-> IF b \in Unlisted THEN remote[b] ELSE copy[b]]
          /\ isNew' = [b \in Ids |-> isNew[b] /\ b \notin Unlisted]
          /\ undefined' = (\/ Range(list') # Listed \cup Unlisted
                           \/ \E b \in Listed : b \notin known /\ state[b] = "READY")
  /\ UNCHANGED <<known, remote, changed, deleted, dialogVars, foreign, created>>

-----------------------------------------------------------------------------
(* Other clients of the daemon.                                            *)

Foreign == /\ foreign < MaxForeign /\ foreign' = foreign + 1
           /\ changed' = TRUE
           /\ UNCHANGED <<list, objectVars, deleted, dialogVars, undefined, created>>

ForeignAdd(a, v) ==
  /\ a \notin known \cup Listed \cup deleted
  /\ known' = known \cup {a} /\ remote' = [remote EXCEPT ![a] = v]
  /\ reg' = reg \cup {a}
  /\ Foreign

ForeignRemove(a) ==
  /\ a \in known
  /\ known' = known \ {a} /\ reg' = reg \cup {a}
  /\ remote' = [remote EXCEPT ![a] = Template]
  /\ Foreign

ForeignEdit(a, v) ==
  /\ a \in known /\ v # remote[a]
  /\ remote' = [remote EXCEPT ![a] = v]
  /\ UNCHANGED <<known, reg>>
  /\ Foreign

-----------------------------------------------------------------------------
(* The client has started and read the daemon's accounts.                  *)
Init ==
  /\ known = Range(Start)
  /\ remote = [a \in Ids |-> Template]
  /\ changed = FALSE /\ reg = {}
  /\ list = Start
  /\ state = [a \in Ids |-> "READY"] /\ copy = remote
  /\ isNew = [a \in Ids |-> FALSE]
  /\ deleted = {} /\ open = FALSE /\ dirty = FALSE /\ cur = 0 /\ form = Template
  /\ undefined = FALSE /\ foreign = 0 /\ created = 0

Next ==
  \/ /\ ~undefined
     /\ \/ Open \/ Apply \/ Ok \/ Cancel \/ moveUp \/ moveDown \/ remove
        \/ \E row \in DOMAIN list \cup {0} : Select(row)
        \/ \E v \in Details : Type(v)
        \/ \E row \in DOMAIN list, v \in Details : setData(row, v)
        \/ \E a \in Ids : Add(a)
  \/ updateAccounts
  \/ \E a \in Ids : slotAccountChanged(a) \/ ForeignRemove(a)
  \/ \E a \in Ids, v \in Details : ForeignAdd(a, v) \/ ForeignEdit(a, v)

Spec == Init /\ [][Next]_vars

-----------------------------------------------------------------------------
(* What the list and the copies are relied on for.                         *)

InStep(a) == HasId(a) /\ a \in known /\ state[a] \in {"READY", "EDITING"}

(* When no accountsChanged is on its way, what the client holds of an      *)
(* account nobody has touched here is what the daemon holds: each RELOAD   *)
(* that was missed leaves the account OUTDATED, each edit MODIFIED, and    *)
(* what saving it leaves READY the daemon has.                             *)
CopyAgrees == ~changed /\ ~undefined => \A a \in Ids : InStep(a) => copy[a] = remote[a]

(* No signal of the daemon takes away what the user has entered and not    *)
(* yet saved: the reload a signal asks for spares MODIFIED accounts.       *)
SignalsKeepEdits ==
  [][updateAccounts \/ (\E a \in Ids : slotAccountChanged(a)) =>
       \A a \in Listed : state[a] = "MODIFIED" =>
         state'[a] = "MODIFIED" /\ copy'[a] = copy[a]]_vars

(* An account that holds unsaved changes is held by an open dialog that    *)
(* knows that it has something to save: OK and Cancel leave none behind,   *)
(* the accounts that never reached the daemon excepted.                    *)
UnsavedIsOffered ==
  \A a \in Listed : state[a] = "MODIFIED" /\ ~isNew[a] => open /\ dirty
=============================================================================
