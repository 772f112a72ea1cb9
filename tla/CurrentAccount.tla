---------------------------- MODULE CurrentAccount ----------------------------
(***************************************************************************)
(* The account calls go out by: the prior account of AccountModel          *)
(* (src/src/lib/accountmodel.cpp), the box of the status bar that shows    *)
(* and changes it (src/src/sflphone.cpp) and the call being dialled.       *)
(*                                                                         *)
(* The prior account is only looked at again when somebody asks for the    *)
(* current one; if it is not registered and enabled any more, the first    *)
(* account that is replaces it, IP2IP when none is.  The slots of the box  *)
(* and the model call each other until both agree; the operators below are *)
(* what that comes to.  The box is told of no change of the rows.          *)
(*                                                                         *)
(* What the daemon knows reaches the client by signals whose slots read    *)
(* the daemon when they run.  Which accounts a signal reloads is up to     *)
(* their edit states (module Accounts): any.  Accounts that another client *)
(* removes, and those not yet saved, are in that module too.  D-Bus is     *)
(* connected.                                                              *)
(***************************************************************************)
EXTENDS Integers, SequencesExt

CONSTANTS
  Servers,     (* ids of the accounts other than IP2IP                     *)
  IP2IP        (* ProtocolName::IP2IP: in row 1, never REGISTERED          *)

ASSUME ServersAssumption == IP2IP \notin Servers /\ IsFiniteSet(Servers)

VARIABLES
  daemon,      (* its accounts, those registered, the signals on their way *)
  accounts,    (* AccountModel and the box                                 *)
  dialled,     (* account of the call being dialled                        *)
  placed       (* account of the call placed in the last step              *)

accountVars == <<daemon, accounts, dialled, placed>>

NoCall == "no call"

Account(b) == ToSet(b.rows) \ {IP2IP}

(* Faulty form: the account is kept as long as it is enabled. *)
EnabledOnly(b, a) == a \in b.enabled

Usable(b, a) == a \in b.registered \intersect b.enabled

firstRegisteredAccount(b) ==
  LET row == SelectInSeq(b.rows, LAMBDA a : Usable(b, a))
  IN  IF row = 0 THEN IP2IP ELSE b.rows[row]

Chosen(b, a) == IF Usable(b, a) THEN a ELSE firstRegisteredAccount(b)

(* currentPriorAccountChanged; 0 for an account without a row. *)
index(b, a)  == SelectInSeq(b.rows, LAMBDA r : r = a)
Shown(b, a)  == [b EXCEPT !.prior = a, !.box = index(b, a)]

currentAccount(b) ==
  IF Chosen(b, b.prior) = b.prior THEN b ELSE Shown(b, Chosen(b, b.prior))

setPriorAccount(b, a) == IF a = b.prior THEN b ELSE Shown(b, Chosen(b, a))

(* Faulty form: the row goes after the account was replaced. *)
RowGoesLast(b, a) ==
  LET w == currentAccount(b)
      s == IF w.prior = a THEN setPriorAccount(w, IP2IP) ELSE w
  IN  [s EXCEPT !.rows = RemoveAt(b.rows, index(b, a))]

Removed(b, a) ==
  LET w == currentAccount([b EXCEPT !.rows = RemoveAt(b.rows, index(b, a))])
      s == IF w.prior = a THEN setPriorAccount(w, IP2IP) ELSE w
  IN  [s EXCEPT !.registered = @ \ {a}, !.enabled = @ \ {a}]

(* The status is read again; what is enabled is read by a reload only. *)
Reread(b, S) == [b EXCEPT !.registered = (@ \ S) \union (S \intersect daemon.registered)]

-----------------------------------------------------------------------------
(* The user.                                                               *)

Keeps == UNCHANGED <<daemon, dialled>> /\ placed' = NoCall

(* A row of the box: it is not shown already, and its account is enabled.  *)
currentAccountIndexChanged(row) ==
  /\ row \in 2..Len(accounts.rows) \ {accounts.box} /\ accounts.rows[row] \in accounts.enabled
  /\ accounts' = setPriorAccount([accounts EXCEPT !.box = row], accounts.rows[row])
  /\ Keeps

removeAccount(a) ==
  /\ a \in Account(accounts)
  /\ accounts' = Removed(accounts, a)
  /\ Keeps

moveAccount(row) ==
  /\ row \in 2..Len(accounts.rows) - 1
  /\ accounts' = [accounts EXCEPT
       !.rows = [@ EXCEPT ![row] = accounts.rows[row + 1], ![row + 1] = accounts.rows[row]]]
  /\ Keeps

(* The check box of an account. *)
setEnabled(a) ==
  /\ a \in Account(accounts)
  /\ accounts' = [accounts EXCEPT !.enabled = SymDiff(@, {a})]
  /\ Keeps

(* AccountModel::save: the daemon loses what the client does not list.     *)
saveAccounts ==
  LET gone == daemon.known \ Account(accounts) IN
  /\ gone # {}
  /\ daemon' = [daemon EXCEPT !.known = @ \ gone, !.registered = @ \ gone,
                              !.signals = @ \union gone, !.changed = TRUE]
  /\ placed' = NoCall /\ UNCHANGED <<accounts, dialled>>

(* Everything that asks for the current account, as                        *)
(* updateWindowCallState does, may change it.                              *)
Ask == accounts' = currentAccount(accounts) /\ Keeps

(* CallModel::dialingCall *)
dial ==
  /\ dialled = NoCall
  /\ accounts' = currentAccount(accounts) /\ dialled' = accounts'.prior
  /\ placed' = NoCall /\ UNCHANGED daemon

(* A call that is dialled may be given up. *)
cancelDialing ==
  /\ dialled # NoCall /\ dialled' = NoCall
  /\ placed' = NoCall /\ UNCHANGED <<daemon, accounts>>

Place(a) == placed' = a /\ dialled' = NoCall /\ UNCHANGED daemon

(* EventManager::enter: the account of the call follows the current one.   *)
EnterDialled ==
  /\ dialled # NoCall
  /\ accounts' = currentAccount(accounts)
  /\ Place(accounts'.prior)

(* ActionCollection::accept: the call keeps its account.                   *)
AcceptDialled == dialled # NoCall /\ Place(dialled) /\ UNCHANGED accounts

(* ActionCollection::mailBox: the number is that of the current account,   *)
(* the account that of the call being dialled, when there is one.          *)
MailBox ==
  /\ accounts' = currentAccount(accounts)
  /\ Place(IF dialled = NoCall THEN accounts'.prior ELSE dialled)

-----------------------------------------------------------------------------
(* The daemon and its signals.                                             *)

Registration(a) ==
  /\ a \in daemon.known
  /\ daemon' = [daemon EXCEPT !.registered = SymDiff(@, {a}), !.signals = @ \union {a}]
  /\ placed' = NoCall /\ UNCHANGED <<accounts, dialled>>

(* Another client, or the assistant, adds an account. *)
AddedToDaemon(a) ==
  /\ a \notin daemon.known
  /\ daemon' = [daemon EXCEPT !.known = @ \union {a}, !.signals = @ \union {a}, !.changed = TRUE]
  /\ placed' = NoCall /\ UNCHANGED <<accounts, dialled>>

(* The accounts S as the daemon has them, enabled or not. *)
Loaded(b, rows, S, enabled) ==
  Reread([b EXCEPT !.rows = rows,
                   !.enabled = (@ \ S) \union (enabled \intersect S)], S)

Inserted(rows, S) ==
  {r \in SetToSeqs(ToSet(rows) \union S) :
     Head(r) = IP2IP /\ SelectSeq(r, LAMBDA a : a \notin S) = rows}

(* slotAccountChanged: the status is read, whatever the edit state; for an *)
(* unknown id, what the client does not list is inserted where the daemon  *)
(* lists it, what was deleted and not yet saved excepted.  Nobody asks for *)
(* the current account.                                                    *)
registrationRead(a) ==
  /\ a \in daemon.signals
  /\ daemon' = [daemon EXCEPT !.signals = @ \ {a}]
  /\ IF a \in Account(accounts) THEN accounts' = Reread(accounts, {a})
     ELSE \E new \in SUBSET (daemon.known \ Account(accounts)), enabled \in SUBSET Servers :
            \E rows \in Inserted(accounts.rows, new) :
              accounts' = Loaded(accounts, rows, new, enabled)
  /\ placed' = NoCall /\ UNCHANGED dialled

(* updateAccounts: appends what it does not list and reloads the accounts  *)
(* whose edit state lets it; accountListUpdated has the window ask for the *)
(* current account.                                                        *)
accountsRead ==
  LET fresh == daemon.known \ Account(accounts) IN
  /\ daemon.changed /\ daemon' = [daemon EXCEPT !.changed = FALSE]
  /\ \E order \in SetToSeqs(fresh), enabled \in SUBSET Servers,
        reloaded \in SUBSET (Account(accounts) \intersect daemon.known) :
       accounts' = currentAccount(
         Loaded(accounts, accounts.rows \o order, fresh \union reloaded, enabled))
  /\ placed' = NoCall /\ UNCHANGED dialled

(* The client has started: the window shows the current account. *)
AccountInit ==
  /\ \E listed \in SUBSET Servers : \E registered \in SUBSET listed, enabled \in SUBSET listed :
       /\ daemon = [known |-> listed, registered |-> registered, signals |-> {}, changed |-> FALSE]
       /\ \E order \in SetToSeqs(listed) :
            accounts = currentAccount([rows |-> <<IP2IP>> \o order, registered |-> registered,
                                       enabled |-> enabled, prior |-> IP2IP, box |-> 1])
  /\ dialled = NoCall /\ placed = NoCall

AccountNext ==
  \/ \E row \in 2..Len(accounts.rows) : currentAccountIndexChanged(row) \/ moveAccount(row)
  \/ \E a \in Servers : removeAccount(a) \/ setEnabled(a)
  \/ saveAccounts \/ Ask \/ dial \/ cancelDialing
  \/ EnterDialled \/ AcceptDialled \/ MailBox
  \/ \E a \in Servers : Registration(a) \/ AddedToDaemon(a) \/ registrationRead(a)
  \/ accountsRead

AccountSpec == AccountInit /\ [][AccountNext]_accountVars

Ids == Servers \union {IP2IP}

Daemon ==
  [known : SUBSET Servers, registered : SUBSET Servers, signals : SUBSET Servers,
   changed : BOOLEAN]

AccountModel ==
  [rows : Seq(Ids), registered : SUBSET Servers, enabled : SUBSET Servers,
   prior : Ids, box : Nat]

AccountTypeOK == daemon \in Daemon /\ accounts \in AccountModel

-----------------------------------------------------------------------------
(* The current account is always one of the list, and whenever it or the   *)
(* box changes, the box is at its row: also when the account that is       *)
(* removed is the current one, or the one picked is not registered and     *)
(* another takes its place at once (setPriorAccount, currentAccount and    *)
(* the slots of the box, which call each other).                           *)
AccountShown ==
  [][ /\ index(accounts', accounts'.prior) # 0
      /\ accounts'.prior # accounts.prior \/ accounts'.box # accounts.box
           => accounts'.box = index(accounts', accounts'.prior) ]_accountVars

(* A call placed with Enter while no registration is on its way goes out   *)
(* by an account the daemon has registered, if an enabled one of the list  *)
(* is, although the account may have been lost after the call was opened   *)
(* and nobody is told when the current account is lost (currentAccount,    *)
(* EventManager::enter).                                                   *)
CallsGoOut ==
  [][ EnterDialled /\ daemon.signals = {}
        /\ Account(accounts) \intersect accounts.enabled \intersect daemon.registered # {}
      => placed' \in daemon.registered ]_accountVars
===============================================================================
