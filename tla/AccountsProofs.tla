--------------------------- MODULE AccountsProofs ---------------------------
(***************************************************************************)
(* The agreement of the client's accounts with the daemon's, for every set *)
(* of accounts and every number of changes; the directory of numbers, and  *)
(* that the list of popular numbers agrees with the ranks, for every set   *)
(* of URIs, accounts and contacts and every length of the list.            *)
(***************************************************************************)
EXTENDS Accounts, Directory, ListLemmas

USE DetailsAssumption, BoundsAssumption

(* A new account is listed and unknown to the daemon.                      *)
NewIsLocal == ~undefined => \A a \in Ids : isNew[a] => a \in Listed /\ a \notin known

Types == DaemonTypes /\ ObjectTypes /\ FormType
Agreement == Types /\ NewIsLocal /\ CopyAgrees

-----------------------------------------------------------------------------
(* Actions keep the types of one account.                                  *)
LEMMA ActionTypes ==
  ASSUME DaemonTypes, ObjectTypes, NEW a \in Ids, NEW action \in EditAction
  PROVE  State(a, action) \in EditState /\ Copy(a, action) \in Details
<1>1. state[a] \in EditState /\ copy[a] \in Details /\ remote[a] \in Details
  BY DEF DaemonTypes, ObjectTypes
<1>2. Copy(a, action) \in Details
  BY <1>1 DEF Copy, CopyAfter
<1>3. State(a, action) \in EditState
  BY <1>1 DEF State, StateAfter, Handler, stateMachineActionsOnState, EditState, EditAction
<1>. QED
  BY <1>2, <1>3

(* MODIFY always ends in MODIFIED.                                         *)
LEMMA ModifyModifies ==
  ASSUME ObjectTypes, NEW a \in Ids
  PROVE  State(a, "MODIFY") = "MODIFIED"
<1>1. state[a] \in EditState
  BY DEF ObjectTypes
<1>. QED
  BY <1>1 DEF State, StateAfter, Handler, stateMachineActionsOnState, EditState

(* RELOAD brings a READY account up to date, puts off one that is being    *)
(* edited and leaves the others alone.                                     *)
LEMMA ReloadEffect ==
  ASSUME ObjectTypes, NEW a \in Ids
  PROVE  /\ state[a] = "READY" => /\ State(a, "RELOAD") = "READY"
                                  /\ ~isNew[a] /\ a \in known => Copy(a, "RELOAD") = remote[a]
         /\ state[a] # "READY" => /\ State(a, "RELOAD") \in {"OUTDATED", "MODIFIED"}
                                  /\ Copy(a, "RELOAD") = copy[a]
         /\ state[a] = "MODIFIED" => State(a, "RELOAD") = "MODIFIED"
<1>1. state[a] \in EditState
  BY DEF ObjectTypes
<1>. QED
  BY <1>1 DEF State, StateAfter, Copy, CopyAfter, Handler, stateMachineActionsOnState, EditState

(* CANCEL keeps the copy of an account that is in step with the daemon and *)
(* fetches the others.                                                     *)
LEMMA CancelEffect ==
  ASSUME ObjectTypes, NEW a \in Ids
  PROVE  /\ state[a] \in {"READY", "EDITING"} => Copy(a, "CANCEL") = copy[a]
         /\ state[a] \in {"OUTDATED", "MODIFIED"} /\ ~isNew[a] /\ a \in known =>
              Copy(a, "CANCEL") = remote[a]
<1>1. state[a] \in EditState
  BY DEF ObjectTypes
<1>. QED
  BY <1>1 DEF Copy, CopyAfter, Handler, stateMachineActionsOnState, EditState

(* Leaving an account keeps its types, and its agreement with the daemon   *)
(* unless it holds unsaved changes.                                        *)
LEMMA LeaveEffect ==
  ASSUME DaemonTypes, ObjectTypes, FormType, NEW a \in Ids
  PROVE  /\ LeaveState(a) \in EditState /\ LeaveCopy(a) \in Details
         /\ (state[a] = "MODIFIED") = (LeaveState(a) = "MODIFIED")
<1>1. state[a] \in EditState /\ copy[a] \in Details
  BY DEF ObjectTypes
<1>2. State(a, "CANCEL") \in EditState /\ Copy(a, "CANCEL") \in Details
  BY ActionTypes DEF EditAction
<1>3. LeaveState(a) \in EditState /\ LeaveCopy(a) \in Details
  BY <1>1, <1>2 DEF LeaveState, LeaveCopy, saveAccount, FormType
<1>4. GivenBack(a) => State(a, "CANCEL") \in {"READY", state[a]} /\ state[a] # "MODIFIED"
  BY <1>1 DEF GivenBack, State, StateAfter, Handler, stateMachineActionsOnState, EditState
<1>5. state[a] = "MODIFIED" => LeaveState(a) = "MODIFIED"
  BY DEF LeaveState, GivenBack
<1>6. state[a] # "MODIFIED" => LeaveState(a) # "MODIFIED"
  BY <1>1, <1>4 DEF LeaveState, GivenBack
<1>. QED
  BY <1>3, <1>5, <1>6

(* An account that is left without unsaved changes is in step with the     *)
(* daemon.                                                                 *)
LEMMA LeaveAgrees ==
  ASSUME Types, CopyAgrees, ~changed, ~undefined, NEW a \in Ids, HasId(a), a \in known,
         LeaveState(a) # "MODIFIED"
  PROVE  LeaveCopy(a) = remote[a]
<1>1. state[a] \in {"READY", "EDITING", "OUTDATED"}
  BY LeaveEffect DEF Types, ObjectTypes, EditState
<1>2. state[a] \in {"READY", "EDITING"} => copy[a] = remote[a]
  BY DEF CopyAgrees, InStep
<1>3. state[a] = "READY" => LeaveCopy(a) = copy[a]
  BY DEF LeaveCopy, saveAccount, GivenBack
<1>4. state[a] = "EDITING" => LeaveCopy(a) = copy[a]
  BY CancelEffect DEF LeaveCopy, GivenBack, Types
<1>5. state[a] = "OUTDATED" => LeaveCopy(a) = remote[a]
  BY CancelEffect DEF LeaveCopy, GivenBack, Types, HasId
<1>. QED
  BY <1>1, <1>2, <1>3, <1>4, <1>5

-----------------------------------------------------------------------------
(* The dialog.  accountListChanged gives the account it leaves back or     *)
(* keeps what the fields show in it, and edits the one it loads.           *)
LEMMA ListChangedStep ==
  ASSUME Types, Rows, CopyAgrees, NEW rows \in Seq(Ids), NEW previous \in Nat,
         NEW current \in Nat, current = 0 \/ current \in DOMAIN rows,
         Range(rows) \subseteq Listed,
         accountListChanged(rows, previous, current), list' = rows,
         UNCHANGED <<known, remote, changed, undefined>>
  PROVE  Types' /\ CopyAgrees'
<1>. DEFINE leaves(a) == previous \in DOMAIN rows /\ a = rows[previous]
            left == [a \in Ids |-> IF a \notin Range(rows) THEN "READY"
                                   ELSE IF leaves(a) THEN LeaveState(a) ELSE state[a]]
<1>1. /\ copy' = [a \in Ids |-> IF a \notin Range(rows) THEN Template
                               ELSE IF leaves(a) THEN LeaveCopy(a) ELSE copy[a]]
      /\ isNew' = [a \in Ids |-> isNew[a] /\ a \in Range(rows)]
      /\ loadAccount(rows, current, left, copy')
  BY DEF accountListChanged
<1>2. \A a \in Ids : /\ state[a] \in EditState /\ copy[a] \in Details
                     /\ LeaveState(a) \in EditState /\ LeaveCopy(a) \in Details
  BY LeaveEffect DEF Types, ObjectTypes
<1>3. left \in [Ids -> EditState] /\ copy' \in [Ids -> Details] /\ isNew' \in [Ids -> BOOLEAN]
  BY <1>1, <1>2 DEF EditState
<1>4. current # 0 => rows[current] \in Ids
  OBVIOUS
<1>5. /\ state' \in [Ids -> EditState] /\ form' \in Details
      /\ \A a \in Ids : state'[a] \in {"READY", "EDITING"} => left[a] \in {"READY", "EDITING"}
  <2>1. CASE current = 0
    BY <2>1, <1>1, <1>3 DEF loadAccount, Types, FormType
  <2>2. CASE current # 0
    <3>. DEFINE b == rows[current]
                to == StateAfter(b, stateMachineActionsOnState[left[b]].EDIT, left[b])
    <3>1. state' = [left EXCEPT ![b] = to] /\ form' = copy'[b]
      BY <2>2, <1>1 DEF loadAccount
    <3>2. left[b] \in EditState
      BY <2>2, <1>3, <1>4
    <3>3. to \in EditState /\ (to \in {"READY", "EDITING"} => left[b] \in {"READY", "EDITING"})
      <4>1. \A e \in EditState :
              LET t == StateAfter(b, stateMachineActionsOnState[e].EDIT, e)
              IN t \in EditState /\ (t \in {"READY", "EDITING"} => e \in {"READY", "EDITING"})
        BY DEF StateAfter, stateMachineActionsOnState, EditState
      <4>. QED
        BY <3>2, <4>1
    <3>. QED
      BY <2>2, <3>1, <3>2, <3>3, <1>3, <1>4
  <2>. QED
    BY <2>1, <2>2
<1>6. Types'
  BY <1>3, <1>5 DEF Types, DaemonTypes, ObjectTypes, FormType
<1>7. CopyAgrees'
  <2>. SUFFICES ASSUME ~changed, ~undefined, NEW a \in Ids, InStep(a)'
                PROVE  copy'[a] = remote[a]
    BY DEF CopyAgrees
  <2>1. /\ a \in Range(rows) /\ a \in Listed /\ ~isNew[a] /\ a \in known
        /\ state'[a] \in {"READY", "EDITING"}
    BY <1>1 DEF InStep, HasId, Listed
  <2>2. left[a] \in {"READY", "EDITING"}
    BY <2>1, <1>5
  <2>3. CASE leaves(a)
    <3>1. copy'[a] = LeaveCopy(a) /\ left[a] = LeaveState(a)
      BY <2>1, <2>3, <1>1
    <3>. QED
      BY <3>1, <2>1, <2>2, LeaveAgrees DEF HasId
  <2>4. CASE ~leaves(a)
    BY <2>1, <2>2, <2>4, <1>1 DEF CopyAgrees, InStep, HasId
  <2>. QED
    BY <2>3, <2>4
<1>. QED
  BY <1>6, <1>7
LEMMA OpenStep == Agreement /\ Rows /\ Open => Agreement'
<1>. SUFFICES ASSUME Agreement, Rows, Open  PROVE Agreement'
  OBVIOUS
<1>. DEFINE current == IF list = <<>> THEN 0 ELSE 1
<1>1. current \in Nat /\ (current = 0 \/ current \in DOMAIN list)
  BY DEF Rows
<1>2. accountListChanged(list, 0, current) /\ list' = list /\ UNCHANGED <<known, remote, changed, undefined>>
  BY DEF Open, daemonVars, countVars
<1>3. Types' /\ CopyAgrees'
  BY <1>1, <1>2, ListChangedStep DEF Agreement, Rows, Listed
<1>4. NewIsLocal'
  BY <1>2 DEF Agreement, NewIsLocal, accountListChanged, Listed
<1>. QED
  BY <1>3, <1>4 DEF Agreement

LEMMA SelectStep == ASSUME Agreement, Rows, NEW row \in DOMAIN list \cup {0}, Select(row)  PROVE Agreement'
<1>1. row \in Nat /\ (row = 0 \/ row \in DOMAIN list) /\ cur \in Nat
  BY DEF Rows
<1>2. accountListChanged(list, cur, row) /\ list' = list /\ UNCHANGED <<known, remote, changed, undefined>>
  BY DEF Select, daemonVars, countVars
<1>3. Types' /\ CopyAgrees'
  BY <1>1, <1>2, ListChangedStep DEF Agreement, Rows, Listed
<1>4. NewIsLocal'
  BY <1>2 DEF Agreement, NewIsLocal, accountListChanged, Listed
<1>. QED
  BY <1>3, <1>4 DEF Agreement

LEMMA RemoveStep == Agreement /\ Rows /\ remove => Agreement'
<1>. SUFFICES ASSUME Agreement, Rows, remove  PROVE Agreement'
  OBVIOUS
<1>. DEFINE rows     == RemoveAt(list, cur)
            previous == IF cur = 1 THEN 0 ELSE cur
            current  == IF rows = <<>> THEN 0 ELSE 1
<1>1. /\ rows \in Seq(Ids) /\ previous \in Nat /\ current \in Nat
      /\ current = 0 \/ current \in DOMAIN rows
  BY DEF Rows, remove, RemoveAt
<1>2. /\ list' = rows /\ accountListChanged(rows, previous, current)
      /\ UNCHANGED <<known, remote, changed, undefined>>
  BY DEF remove, daemonVars, countVars
<1>3. Range(rows) \subseteq Listed
  BY RemoveRange DEF Rows, remove, Listed
<1>4. Types' /\ CopyAgrees'
  BY <1>1, <1>2, <1>3, ListChangedStep DEF Agreement
<1>5. NewIsLocal'
  BY <1>2 DEF Agreement, NewIsLocal, accountListChanged, Listed
<1>. QED
  BY <1>4, <1>5 DEF Agreement

(* An edit leaves the account MODIFIED, which CopyAgrees does not cover.   *)
LEMMA TypeStep == ASSUME Agreement, Rows, NEW v \in Details, Type(v)  PROVE Agreement'
<1>. DEFINE a == list[cur]
<1>1. a \in Ids
  BY DEF Rows, Type
<1>2. /\ state' = [state EXCEPT ![a] = "MODIFIED"] /\ copy' = [copy EXCEPT ![a] = Copy(a, "MODIFY")]
      /\ form' = v /\ UNCHANGED <<known, remote, changed, list, isNew, undefined>>
  BY <1>1, ModifyModifies DEF Type, daemonVars, countVars, Agreement, Types
<1>3. Copy(a, "MODIFY") \in Details
  BY <1>1, ActionTypes DEF EditAction, Agreement, Types
<1>4. Types'
  BY <1>1, <1>2, <1>3 DEF Agreement, Types, DaemonTypes, ObjectTypes, FormType, EditState
<1>5. CopyAgrees' /\ NewIsLocal'
  BY <1>1, <1>2 DEF Agreement, Types, ObjectTypes, CopyAgrees, NewIsLocal, InStep, HasId, Listed
<1>. QED
  BY <1>4, <1>5 DEF Agreement

LEMMA SetDataStep ==
  ASSUME Agreement, Rows, NEW row \in DOMAIN list, NEW v \in Details, setData(row, v)  PROVE Agreement'
<1>. DEFINE a == list[row]
<1>1. a \in Ids
  BY DEF Rows
<1>2. /\ state' = [state EXCEPT ![a] = "MODIFIED"]
      /\ copy' = [copy EXCEPT ![a] = IF state'[a] = "MODIFIED" THEN v ELSE copy[a]]
      /\ form' \in {v, form} /\ UNCHANGED <<known, remote, changed, list, isNew, undefined>>
  BY <1>1, ModifyModifies DEF setData, daemonVars, countVars, Agreement, Types
<1>3. copy' = [copy EXCEPT ![a] = v]
  BY <1>1, <1>2 DEF Agreement, Types, ObjectTypes
<1>4. Types'
  BY <1>1, <1>2, <1>3 DEF Agreement, Types, DaemonTypes, ObjectTypes, FormType, EditState
<1>5. CopyAgrees' /\ NewIsLocal'
  BY <1>1, <1>2, <1>3 DEF Agreement, Types, ObjectTypes, CopyAgrees, NewIsLocal, InStep, HasId, Listed
<1>. QED
  BY <1>4, <1>5 DEF Agreement

(* Moving leaves the account of the other row.                             *)
LEMMA MoveStep == ASSUME Agreement, Rows, NEW to \in Int, Move(to)  PROVE Agreement'
<1>. DEFINE moved == list[cur]
            other == list[to]
<1>1. moved \in Ids /\ other \in Ids
  BY DEF Rows, Move
<1>2. /\ state' = [state EXCEPT ![other] = LeaveState(other), ![moved] = "MODIFIED"]
      /\ copy'  = [copy EXCEPT ![other] = LeaveCopy(other), ![moved] = Copy(moved, "MODIFY")]
      /\ form' = copy[moved] /\ UNCHANGED <<known, remote, changed, isNew, undefined>>
  BY <1>1, ModifyModifies DEF Move, daemonVars, countVars, Agreement, Types
<1>3. /\ Copy(moved, "MODIFY") \in Details /\ LeaveState(other) \in EditState
      /\ LeaveCopy(other) \in Details
  BY <1>1, ActionTypes, LeaveEffect DEF EditAction, Agreement, Types
<1>4. Types'
  BY <1>1, <1>2, <1>3 DEF Agreement, Types, DaemonTypes, ObjectTypes, FormType, EditState
<1>5. Listed' = Listed
  <2>1. cur \in 1..Len(list) /\ to \in 1..Len(list)
    BY DEF Rows, Move
  <2>2. list' = [list EXCEPT ![cur] = list[to], ![to] = list[cur]]
    BY DEF Move
  <2>. QED
    BY <2>1, <2>2, SwapRange DEF Rows, Listed
<1>6. CopyAgrees'
  <2>. SUFFICES ASSUME ~changed, ~undefined, NEW a \in Ids, InStep(a)'
                PROVE  copy'[a] = remote[a]
    BY <1>2 DEF CopyAgrees
  <2>1. /\ a \in Listed /\ ~isNew[a] /\ a \in known /\ state'[a] \in {"READY", "EDITING"} /\ a # moved
    BY <1>1, <1>2, <1>5 DEF InStep, HasId, Agreement, Types, ObjectTypes
  <2>2. CASE a = other
    <3>1. LeaveState(a) \in {"READY", "EDITING"} /\ copy'[a] = LeaveCopy(a)
      BY <1>1, <1>2, <2>1, <2>2 DEF Agreement, Types, ObjectTypes
    <3>. QED
      BY <3>1, <2>1, LeaveAgrees DEF HasId, Agreement
  <2>3. CASE a # other
    BY <1>1, <1>2, <2>1, <2>3 DEF Agreement, Types, ObjectTypes, CopyAgrees, InStep, HasId
  <2>. QED
    BY <2>2, <2>3
<1>7. NewIsLocal'
  BY <1>2, <1>5 DEF Agreement, NewIsLocal
<1>. QED
  BY <1>4, <1>6, <1>7 DEF Agreement
(* What is made new is MODIFIED, listed and nothing of the daemon's.       *)
LEMMA AddStep == ASSUME Agreement, Rows, NEW a \in Ids, Add(a)  PROVE Agreement'
<1>. DEFINE left(b) == cur # 0 /\ b = list[cur]
<1>1. /\ state' = [b \in Ids |-> IF b = a THEN "MODIFIED"
                                 ELSE IF left(b) THEN LeaveState(b) ELSE state[b]]
      /\ copy' = [b \in Ids |-> IF b = a THEN Template
                                ELSE IF left(b) THEN LeaveCopy(b) ELSE copy[b]]
      /\ isNew' = [isNew EXCEPT ![a] = TRUE] /\ form' = Template /\ list' = Append(list, a)
      /\ a \notin known /\ a \notin Listed /\ UNCHANGED <<known, remote, changed, undefined>>
  BY DEF Add, daemonVars
<1>2. /\ state'[a] = "MODIFIED" /\ copy'[a] = Template
      /\ \A b \in Ids \ {a} : /\ state'[b] = IF left(b) THEN LeaveState(b) ELSE state[b]
                              /\ copy'[b] = IF left(b) THEN LeaveCopy(b) ELSE copy[b]
                              /\ isNew'[b] = isNew[b]
  BY <1>1 DEF Agreement, Types, ObjectTypes
<1>3. \A b \in Ids : /\ state[b] \in EditState /\ copy[b] \in Details
                     /\ LeaveState(b) \in EditState /\ LeaveCopy(b) \in Details
  BY LeaveEffect DEF Agreement, Types, ObjectTypes
<1>4. \A b \in Ids : state'[b] \in EditState /\ copy'[b] \in Details
  BY <1>2, <1>3 DEF EditState
<1>5. Types'
  <2>1. state' \in [Ids -> EditState]
    <3>1. state' = [b \in Ids |-> state'[b]]
      BY <1>1
    <3>. QED
      BY <3>1, <1>4
  <2>2. copy' \in [Ids -> Details]
    <3>1. copy' = [b \in Ids |-> copy'[b]]
      BY <1>1
    <3>. QED
      BY <3>1, <1>4
  <2>. QED
    BY <1>1, <2>1, <2>2 DEF Agreement, Types, DaemonTypes, ObjectTypes, FormType
<1>6. Listed' = Listed \cup {a}
  BY <1>1, AppendRange DEF Rows, Listed
<1>7. CopyAgrees'
  <2>. SUFFICES ASSUME ~changed, ~undefined, NEW b \in Ids, InStep(b)'
                PROVE  copy'[b] = remote[b]
    BY <1>1 DEF CopyAgrees
  <2>1. b # a /\ HasId(b) /\ b \in known /\ state'[b] \in {"READY", "EDITING"}
    BY <1>1, <1>2, <1>6 DEF InStep, HasId
  <2>2. CASE left(b)
    BY <1>2, <2>1, <2>2, LeaveAgrees DEF Agreement
  <2>3. CASE ~left(b)
    BY <1>2, <2>1, <2>3 DEF Agreement, CopyAgrees, InStep
  <2>. QED
    BY <2>2, <2>3
<1>8. NewIsLocal'
  BY <1>1, <1>2, <1>6 DEF Agreement, NewIsLocal
<1>. QED
  BY <1>5, <1>7, <1>8 DEF Agreement
-----------------------------------------------------------------------------
(* Saving, cancelling and closing.                                         *)

(* What save makes READY the daemon has; when it changes nothing of the    *)
(* daemon's, no signal follows and the rest is as it was left.             *)
LEMMA SaveStep ==
  ASSUME Agreement, Rows, save, list' = list, UNCHANGED undefined
  PROVE  DaemonTypes' /\ ObjectTypes' /\ NewIsLocal' /\ CopyAgrees'
<1>. DEFINE here(a)  == cur # 0 /\ a = list[cur]
            st(a)    == IF here(a) THEN LeaveState(a) ELSE state[a]
            cp(a)    == IF here(a) THEN LeaveCopy(a) ELSE copy[a]
            saved(a) == a \in Listed /\ stateMachineActionsOnState[st(a)].SAVE = "save"
<1>1. /\ state' = [a \in Ids |-> IF saved(a) THEN "READY" ELSE st(a)]
      /\ copy'  = [a \in Ids |-> cp(a)]
      /\ known' = {a \in Listed : a \in known \/ isNew[a]}
      /\ remote' = [a \in Ids |-> IF a \notin known' THEN Template
                                 ELSE IF saved(a) THEN cp(a) ELSE remote[a]]
      /\ isNew' = [a \in Ids |-> isNew[a] /\ a \notin Listed]
      /\ changed' = (changed \/ known # known' \/ \E a \in Ids : saved(a))
  BY DEF save
<1>2. \A a \in Ids : st(a) \in EditState /\ cp(a) \in Details
  BY LeaveEffect DEF Agreement, Types, ObjectTypes
<1>3. Listed \subseteq Ids /\ Listed' = Listed
  BY DEF Rows, Listed, Range
<1>4. state' \in [Ids -> EditState] /\ copy' \in [Ids -> Details] /\ isNew' \in [Ids -> BOOLEAN]
  BY <1>1, <1>2 DEF EditState
<1>5. known' \subseteq Ids /\ remote' \in [Ids -> Details] /\ changed' \in BOOLEAN
  BY <1>1, <1>2, <1>3 DEF Agreement, Types, DaemonTypes
<1>6. NewIsLocal'
  BY <1>1, <1>3 DEF Agreement, NewIsLocal
<1>7. CopyAgrees'
  <2>. SUFFICES ASSUME ~changed', ~undefined, NEW a \in Ids, InStep(a)'
                PROVE  copy'[a] = remote'[a]
    BY DEF CopyAgrees
  <2>1. ~changed /\ known' = known /\ ~saved(a)
    BY <1>1 DEF Agreement, Types, DaemonTypes
  <2>2. a \in known /\ a \in Listed /\ state'[a] \in {"READY", "EDITING"}
    BY <2>1, <1>3 DEF InStep, HasId
  <2>3. HasId(a)
    BY <2>2 DEF Agreement, NewIsLocal, HasId
  <2>4. state'[a] = st(a) /\ copy'[a] = cp(a) /\ remote'[a] = remote[a]
    BY <1>1, <2>1, <2>2
  <2>5. CASE here(a)
    BY <2>1, <2>2, <2>3, <2>4, <2>5, LeaveAgrees DEF Agreement
  <2>6. CASE ~here(a)
    BY <2>1, <2>2, <2>3, <2>4, <2>6 DEF Agreement, CopyAgrees, InStep
  <2>. QED
    BY <2>5, <2>6
<1>. QED
  BY <1>4, <1>5, <1>6, <1>7 DEF DaemonTypes, ObjectTypes

LEMMA CloseStep == Agreement /\ Rows /\ (Apply \/ Ok \/ Cancel) => Agreement'
<1>. SUFFICES ASSUME Agreement, Rows, Apply \/ Ok \/ Cancel  PROVE Agreement'
  OBVIOUS
<1>1. /\ list' = list /\ UNCHANGED undefined /\ form' \in {form, Template}
  BY DEF Apply, Ok, Cancel, Close, countVars
<1>2. FormType'
  BY <1>1 DEF Agreement, Types, FormType
<1>3. CASE save
  BY <1>1, <1>2, <1>3, SaveStep DEF Agreement, Types
<1>4. CASE Ok /\ ~save
  <2>1. UNCHANGED <<daemonVars, objectVars>>
    BY <1>4 DEF Ok
  <2>. QED
    BY <2>1, <1>1, <1>2 DEF daemonVars, objectVars, Agreement, Types, DaemonTypes, ObjectTypes,
                            NewIsLocal, CopyAgrees, InStep, HasId, Listed
<1>5. CASE Cancel
  <2>1. /\ state' = [a \in Ids |-> IF Dropped(a) THEN State(a, "CANCEL") ELSE state[a]]
        /\ copy'  = [a \in Ids |-> IF Dropped(a) THEN Copy(a, "CANCEL") ELSE copy[a]]
        /\ UNCHANGED <<known, remote, changed, isNew>>
    BY <1>5 DEF Cancel, daemonVars
  <2>2. \A a \in Ids : /\ state[a] \in EditState /\ copy[a] \in Details
                       /\ State(a, "CANCEL") \in EditState /\ Copy(a, "CANCEL") \in Details
    BY ActionTypes DEF EditAction, Agreement, Types, ObjectTypes
  <2>3. Types'
    BY <2>1, <2>2, <1>2 DEF Agreement, Types, DaemonTypes, ObjectTypes
  <2>4. NewIsLocal'
    BY <2>1, <1>1 DEF Agreement, NewIsLocal, Listed
  <2>5. CopyAgrees'
    <3>. SUFFICES ASSUME ~changed, ~undefined, NEW a \in Ids, InStep(a)'
                  PROVE  copy'[a] = remote[a]
      BY <2>1, <1>1 DEF CopyAgrees
    <3>1. HasId(a) /\ a \in known /\ state'[a] \in {"READY", "EDITING"}
      BY <2>1, <1>1 DEF InStep, HasId, Listed
    <3>2. CASE Dropped(a)
      BY <2>1, <3>1, <3>2, CancelEffect DEF Dropped, HasId, Agreement, Types
    <3>3. CASE ~Dropped(a)
      BY <2>1, <3>1, <3>3 DEF Agreement, CopyAgrees, InStep
    <3>. QED
      BY <3>2, <3>3
  <2>. QED
    BY <2>3, <2>4, <2>5 DEF Agreement
<1>. QED
  BY <1>3, <1>4, <1>5 DEF Apply

-----------------------------------------------------------------------------
(* The daemon's signals.                                                   *)

LEMMA UpdateStep == Agreement /\ Rows /\ updateAccounts => Agreement'
<1>. SUFFICES ASSUME Agreement, Rows, updateAccounts  PROVE Agreement'
  OBVIOUS
<1>1. /\ changed' = FALSE
      /\ state' = [a \in Ids |-> IF a \notin known THEN state[a]
                                ELSE IF HasId(a) THEN State(a, "RELOAD") ELSE "READY"]
      /\ copy'  = [a \in Ids |-> IF a \notin known THEN copy[a]
                                ELSE IF HasId(a) THEN Copy(a, "RELOAD") ELSE remote[a]]
      /\ isNew' = [a \in Ids |-> isNew[a] /\ a \notin known]
      /\ UNCHANGED <<known, remote, form, undefined>>
  BY DEF updateAccounts, dialogVars, countVars
<1>2. \A a \in Ids : /\ state[a] \in EditState /\ copy[a] \in Details /\ remote[a] \in Details
                     /\ State(a, "RELOAD") \in EditState /\ Copy(a, "RELOAD") \in Details
  BY ActionTypes DEF EditAction, Agreement, Types, ObjectTypes, DaemonTypes
<1>3. Types'
  BY <1>1, <1>2 DEF Agreement, Types, DaemonTypes, ObjectTypes, FormType, EditState
<1>4. Listed \subseteq Listed'
  <2>. DEFINE missing == {a \in known : ~HasId(a)}
              n == Cardinality(missing)
  <2>1. PICK order \in Orders(missing) : list' = list \o order
    BY DEF updateAccounts
  <2>2. order \in [1..n -> missing] /\ missing \subseteq Ids
    BY <2>1 DEF Orders, Agreement, Types, DaemonTypes
  <2>3. n \in Nat
    BY <2>2, FS_Subset, IdsAssumption, FS_CardinalityType
  <2>. HIDE DEF missing, n
  <2>4. order \in Seq(Ids)
    BY <2>2, <2>3
  <2>. QED
    BY <2>1, <2>4, ConcatRange DEF Rows, Listed
<1>5. NewIsLocal'
  BY <1>1, <1>4 DEF Agreement, NewIsLocal
<1>6. CopyAgrees'
  <2>. SUFFICES ASSUME NEW a \in Ids, a \in known, state'[a] \in {"READY", "EDITING"}
                PROVE  copy'[a] = remote[a]
    BY <1>1 DEF CopyAgrees, InStep
  <2>1. CASE HasId(a)
    BY <1>1, <2>1, ReloadEffect DEF HasId, Agreement, Types
  <2>2. CASE ~HasId(a)
    BY <1>1, <2>2
  <2>. QED
    BY <2>1, <2>2
<1>. QED
  BY <1>3, <1>5, <1>6 DEF Agreement

LEMMA StatusStep == ASSUME Agreement, NEW a \in Ids, slotAccountChanged(a)  PROVE Agreement'
<1>1. UNCHANGED <<known, remote, changed, form>> /\ ~undefined
  BY DEF slotAccountChanged, dialogVars
<1>2. CASE HasId(a)
  BY <1>1, <1>2 DEF slotAccountChanged, Agreement, Types, DaemonTypes, ObjectTypes, FormType,
                    NewIsLocal, CopyAgrees, InStep, HasId, Listed
<1>3. CASE ~HasId(a)
  <2>1. /\ state' = [b \in Ids |-> IF b \in Unlisted THEN "READY" ELSE state[b]]
        /\ copy'  = [b \in Ids |-> IF b \in Unlisted THEN remote[b] ELSE copy[b]]
        /\ isNew' = [b \in Ids |-> isNew[b] /\ b \notin Unlisted]
        /\ ~undefined' => Listed' = Listed \cup Unlisted
    BY <1>3 DEF slotAccountChanged, Listed
  <2>2. Types'
    BY <1>1, <2>1 DEF Agreement, Types, DaemonTypes, ObjectTypes, FormType, EditState
  <2>3. NewIsLocal'
    BY <1>1, <2>1 DEF Agreement, NewIsLocal
  <2>4. CopyAgrees'
    BY <1>1, <2>1 DEF Agreement, Types, ObjectTypes, CopyAgrees, InStep, HasId
  <2>. QED
    BY <2>2, <2>3, <2>4 DEF Agreement
<1>. QED
  BY <1>2, <1>3

(* A change by others announces itself, which suspends CopyAgrees.         *)
LEMMA ForeignStep ==
  ASSUME Agreement, NEW a \in Ids, NEW v \in Details,
         ForeignAdd(a, v) \/ ForeignRemove(a) \/ ForeignEdit(a, v)
  PROVE  Agreement'
<1>1. /\ changed' = TRUE /\ UNCHANGED <<list, state, copy, isNew, form, undefined>>
      /\ known' \subseteq known \cup {a} /\ (a \in known' => a \in known \/ a \notin Listed)
      /\ remote' \in [Ids -> Details]
  BY DEF ForeignAdd, ForeignRemove, ForeignEdit, Foreign, objectVars, dialogVars, Agreement, Types, DaemonTypes
<1>2. Types'
  BY <1>1 DEF Agreement, Types, DaemonTypes, ObjectTypes, FormType
<1>3. NewIsLocal'
  BY <1>1 DEF Agreement, NewIsLocal, Listed
<1>4. CopyAgrees'
  BY <1>1 DEF CopyAgrees
<1>. QED
  BY <1>2, <1>3, <1>4 DEF Agreement
LEMMA AgreementStep == Agreement /\ Rows /\ [Next]_vars => Agreement'
<1>. SUFFICES ASSUME Agreement, Rows, [Next]_vars  PROVE Agreement'
  OBVIOUS
<1>1. CASE Open \/ Apply \/ Ok \/ Cancel \/ remove \/ updateAccounts
  BY <1>1, OpenStep, CloseStep, RemoveStep, UpdateStep
<1>2. CASE moveUp \/ moveDown
  <2>1. cur - 1 \in Int /\ cur + 1 \in Int
    BY DEF Rows
  <2>. QED
    BY <1>2, <2>1, MoveStep DEF moveUp, moveDown
<1>3. CASE \E row \in DOMAIN list \cup {0} : Select(row)
  BY <1>3, SelectStep
<1>4. CASE \/ \E v \in Details : Type(v)
           \/ \E row \in DOMAIN list, v \in Details : setData(row, v)
           \/ \E a \in Ids : Add(a)
  BY <1>4, TypeStep, SetDataStep, AddStep
<1>5. CASE \E a \in Ids : slotAccountChanged(a) \/ ForeignRemove(a)
  BY <1>5, StatusStep, ForeignStep, DetailsAssumption
<1>6. CASE \E a \in Ids, v \in Details : ForeignAdd(a, v) \/ ForeignEdit(a, v)
  BY <1>6, ForeignStep
<1>7. CASE UNCHANGED vars
  BY <1>7 DEF vars, daemonVars, objectVars, dialogVars, countVars, Agreement, Types, DaemonTypes,
              ObjectTypes, FormType, NewIsLocal, CopyAgrees, InStep, HasId, Listed
<1>. QED
  BY <1>1, <1>2, <1>3, <1>4, <1>5, <1>6, <1>7 DEF Next

LEMMA AgreementStarts == Init => Agreement
<1>. SUFFICES ASSUME Init  PROVE Agreement
  OBVIOUS
<1>1. known \subseteq Ids
  BY StartAssumption DEF Init, Range
<1>2. Types
  BY <1>1 DEF Init, Types, DaemonTypes, ObjectTypes, FormType, EditState
<1>. QED
  BY <1>2 DEF Agreement, Init, NewIsLocal, CopyAgrees, InStep

-----------------------------------------------------------------------------
(* The list.                                                               *)

(* slotAccountChanged inserts accounts that are not listed, each once,     *)
(* wherever the daemon has them: by induction over the daemon's list.      *)
LEMMA InsertedRows ==
  ASSUME Agreement, Rows, IsInjective(list), ~undefined, NEW order \in Orders(known)
  PROVE  /\ Inserted(order) \in Seq(Ids) /\ Len(Inserted(order)) >= Len(list)
         /\ Range(Inserted(order)) \subseteq Listed \cup Unlisted
         /\ IsInjective(Inserted(order))
<1>. DEFINE N == Cardinality(known)
            Add1(l, i) == IF order[i] \in Unlisted /\ i <= Len(l) + 1
                          THEN InsertAt(l, i, order[i]) ELSE l
            D == Seq(Ids)
            step == [i \in 1..N |-> [l \in D |-> Add1(l, i)]]
            indices == [i \in DOMAIN order |-> i]
            Folds(g) == g = [s \in SUBSET (DOMAIN indices) |->
                               IF s = {} THEN list
                               ELSE Add1(g[s \ {Max(s)}], indices[Max(s)])]
            f == CHOOSE g : Folds(g)
            Placed(k) == {order[i] : i \in 1..k}
            Good(k) == /\ f[1..k] \in Seq(Ids) /\ Len(f[1..k]) >= Len(list)
                       /\ Range(f[1..k]) \subseteq Listed \cup (Unlisted \cap Placed(k))
                       /\ IsInjective(f[1..k])
<1>1. /\ N \in Nat /\ order \in [1..N -> known] /\ known \subseteq Ids
      /\ \A i, j \in 1..N : order[i] = order[j] => i = j
  <2>1. known \subseteq Ids
    BY DEF Agreement, Types, DaemonTypes
  <2>2. N \in Nat
    BY <2>1, IdsAssumption, FS_Subset, FS_CardinalityType
  <2>. QED
    BY <2>1, <2>2 DEF Orders, IsInjective
<1>2. Inserted(order) = f[DOMAIN indices]
  BY DEF Inserted, FoldLeftDomain, FoldLeft, MapThenFoldSet
<1>3. DOMAIN indices = 1..N
  BY <1>1
<1>4. list \in D /\ step \in [1..N -> [D -> D]]
  <2>1. ASSUME NEW i \in 1..N, NEW l \in D  PROVE Add1(l, i) \in D
    <3>1. order[i] \in Ids
      BY <1>1
    <3>2. Len(l) \in Nat /\ (i <= Len(l) + 1 => i \in 1..(Len(l) + 1))
      OBVIOUS
    <3>. QED
      BY <3>1, <3>2, InsertEffect
  <2>. QED
    BY <2>1 DEF Rows
<1>5. Folds(f)
  <2>1. PICK g \in [SUBSET (1..N) -> D] : IsFold(g, N, list, step)
    <3>1. N \in Nat /\ list \in D /\ step \in [1..N -> [D -> D]]
      BY <1>1, <1>4
    <3>. HIDE DEF N, step, D
    <3>. QED
      BY <3>1, FoldExists
  <2>2. \A s \in SUBSET (1..N) : s # {} => Max(s) \in 1..N /\ g[s \ {Max(s)}] \in D
    BY <1>1, MaxIsMember
  <2>3. \A s \in SUBSET (1..N) : s # {} =>
          step[Max(s)][g[s \ {Max(s)}]] = Add1(g[s \ {Max(s)}], indices[Max(s)])
    BY <1>1, <2>2
  <2>4. Folds(g)
    <3>. HIDE DEF step, Add1
    <3>. QED
      BY <1>3, <2>1, <2>3, Zenon DEF IsFold
  <2>. HIDE DEF Folds
  <2>. QED
    BY <2>4
<1>6. /\ f[1..0] = list
      /\ \A k \in 1..N : f[1..k] = Add1(f[1..(k - 1)], k)
  <2>. HIDE DEF f, Add1
  <2>1. \A s \in SUBSET (1..N) :
          f[s] = IF s = {} THEN list ELSE Add1(f[s \ {Max(s)}], indices[Max(s)])
    BY <1>3, <1>5, Zenon
  <2>2. 1..0 = {} /\ 1..0 \in SUBSET (1..N)
    OBVIOUS
  <2>3. \A k \in 1..N : /\ 1..k \in SUBSET (1..N) /\ 1..k # {} /\ Max(1..k) = k
                        /\ (1..k) \ {k} = 1..(k - 1) /\ indices[k] = k
    BY <1>1, UpTo
  <2>. HIDE DEF indices
  <2>4. f[1..0] = list
    BY <2>1, <2>2
  <2>5. ASSUME NEW k \in 1..N  PROVE f[1..k] = Add1(f[1..(k - 1)], k)
    <3>1. f[1..k] = Add1(f[(1..k) \ {Max(1..k)}], indices[Max(1..k)])
      BY <2>1, <2>3
    <3>. QED
      BY <2>3, <3>1
  <2>. QED
    BY <2>4, <2>5
<1>. HIDE DEF f, step, indices, Folds
<1>7. Good(0)
  BY <1>6 DEF Rows, Listed
<1>8. ASSUME NEW k \in Nat, k + 1 =< N, Good(k)  PROVE Good(k + 1)
  <2>. DEFINE l == f[1..k]
              a == order[k + 1]
  <2>1. k + 1 \in 1..N /\ k + 1 - 1 = k
    BY <1>1, <1>8
  <2>2. f[1..(k + 1)] = Add1(l, k + 1)
    BY <1>6, <2>1
  <2>3. l \in Seq(Ids) /\ Len(l) >= Len(list) /\ IsInjective(l)
        /\ Range(l) \subseteq Listed \cup (Unlisted \cap Placed(k))
    BY <1>8
  <2>4. a \in Ids /\ a \notin Placed(k) /\ a \in Placed(k + 1) /\ Placed(k) \subseteq Placed(k + 1)
    <3>1. \A i \in 1..k : i \in 1..N /\ i # k + 1 /\ i \in 1..(k + 1)
      BY <1>1, <2>1
    <3>. QED
      BY <1>1, <2>1, <3>1
  <2>. HIDE DEF l, a, Placed
  <2>5. CASE a \in Unlisted /\ k + 1 <= Len(l) + 1
    <3>1. f[1..(k + 1)] = InsertAt(l, k + 1, a)
      BY <2>2, <2>5 DEF a
    <3>2. a \notin Listed
      BY <2>5 DEF Unlisted, HasId, Agreement, NewIsLocal, Types, ObjectTypes, DaemonTypes
    <3>3. a \notin Range(l) /\ k + 1 \in 1..(Len(l) + 1)
      BY <2>3, <2>4, <2>5, <3>2
    <3>4. /\ InsertAt(l, k + 1, a) \in Seq(Ids) /\ Len(InsertAt(l, k + 1, a)) = Len(l) + 1
          /\ Range(InsertAt(l, k + 1, a)) \subseteq Range(l) \cup {a}
          /\ IsInjective(InsertAt(l, k + 1, a))
      BY <2>3, <2>4, <3>3, InsertEffect
    <3>5. Len(l) + 1 >= Len(list)
      BY <2>3 DEF Rows
    <3>. QED
      BY <2>3, <2>4, <2>5, <3>1, <3>4, <3>5
  <2>6. CASE ~(a \in Unlisted /\ k + 1 <= Len(l) + 1)
    <3>1. f[1..(k + 1)] = l
      BY <2>2, <2>6 DEF a
    <3>. QED
      BY <2>3, <2>4, <3>1
  <2>. QED
    BY <2>5, <2>6
<1>9. Good(N)
  <2>. DEFINE S == {k \in Nat : k =< N => Good(k)}
  <2>. HIDE DEF Good
  <2>1. 0 \in S
    BY <1>7
  <2>2. \A k \in Nat : k \in S => k + 1 \in S
    BY <1>1, <1>8
  <2>3. N \in S
    <3>. HIDE DEF S
    <3>. QED
      BY <1>1, <2>1, <2>2, Induction
  <2>. QED
    BY <1>1, <2>3
<1>. QED
  BY <1>2, <1>3, <1>9

(* Rows, and no account twice; a signal lists nothing but what the daemon  *)
(* has and the client has not.                                             *)
Once == Rows /\ (~undefined => IsInjective(list))

LEMMA UpdateRows ==
  ASSUME Agreement, Once, updateAccounts
  PROVE  Once' /\ Listed' \subseteq Listed \cup known
<1>. DEFINE missing == {a \in known : ~HasId(a)}
            n == Cardinality(missing)
<1>1. PICK order \in Orders(missing) : list' = list \o order
  BY DEF updateAccounts
<1>2. /\ order \in [1..n -> missing] /\ IsInjective(order)
      /\ missing \subseteq Ids /\ missing \subseteq known /\ missing \cap Listed = {}
  <2>1. ~undefined
    BY DEF updateAccounts
  <2>. QED
    BY <1>1, <2>1 DEF Orders, HasId, Agreement, Types, DaemonTypes, ObjectTypes, NewIsLocal
<1>3. n \in Nat
  BY <1>2, FS_Subset, IdsAssumption, FS_CardinalityType
<1>. HIDE DEF missing, n
<1>4. order \in Seq(Ids) /\ Range(order) \subseteq missing
  BY <1>2, <1>3 DEF Range
<1>5. list \in Seq(Ids) /\ IsInjective(list) /\ cur \in 0..Len(list) /\ cur' = cur
  BY DEF updateAccounts, Once, Rows, dialogVars
<1>6. Range(list) \cap Range(order) = {}
  BY <1>2, <1>4 DEF Listed
<1>7. IsInjective(list \o order)
  BY <1>2, <1>4, <1>5, <1>6, ConcatInjective
<1>8. list \o order \in Seq(Ids) /\ Len(list \o order) >= Len(list)
  BY <1>4, <1>5
<1>9. Range(list \o order) \subseteq Listed \cup known
  BY <1>2, <1>4, <1>5, ConcatRange DEF Listed
<1>. QED
  BY <1>1, <1>5, <1>7, <1>8, <1>9 DEF Once, Rows, Listed

LEMMA StatusRows ==
  ASSUME Agreement, Once, NEW a \in Ids, slotAccountChanged(a)
  PROVE  Once' /\ (~HasId(a) => Listed' \subseteq Listed \cup Unlisted)
<1>1. CASE HasId(a)
  BY <1>1 DEF slotAccountChanged, Once, Rows, dialogVars
<1>2. CASE ~HasId(a)
  <2>1. PICK order \in Orders(known) : list' = Inserted(order)
    BY <1>2 DEF slotAccountChanged
  <2>2. Rows /\ IsInjective(list) /\ ~undefined /\ cur' = cur
    BY DEF slotAccountChanged, Once, dialogVars
  <2>3. /\ list' \in Seq(Ids) /\ Len(list') >= Len(list)
        /\ Range(list') \subseteq Listed \cup Unlisted /\ IsInjective(list')
    BY <2>1, <2>2, InsertedRows
  <2>. QED
    BY <2>2, <2>3, <1>2 DEF Once, Rows, Listed
<1>. QED
  BY <1>1, <1>2

(* The buttons of the dialog.                                              *)
LEMMA DialogRows ==
  ASSUME Agreement, Once, ~undefined,
         moveUp \/ moveDown \/ remove \/ \E a \in Ids : Add(a)
  PROVE  Once'
<1>1. list \in Seq(Ids) /\ Len(list) \in Nat /\ cur \in 0..Len(list) /\ IsInjective(list)
  BY DEF Once, Rows
<1>2. ASSUME NEW to \in Int, Move(to)  PROVE Once'
  <2>1. /\ cur \in DOMAIN list /\ to \in DOMAIN list /\ cur' = to
        /\ list' = [list EXCEPT ![cur] = list[to], ![to] = list[cur]]
    BY <1>1, <1>2 DEF Move
  <2>2. list' \in Seq(Ids) /\ Len(list') = Len(list) /\ DOMAIN list' = DOMAIN list
    BY <1>1, <2>1
  <2>3. \A i \in DOMAIN list : list'[i] = IF i = to THEN list[cur] ELSE IF i = cur THEN list[to] ELSE list[i]
    BY <1>1, <2>1
  <2>4. IsInjective(list')
    BY <1>1, <2>1, <2>2, <2>3 DEF IsInjective
  <2>. QED
    BY <1>1, <2>1, <2>2, <2>4 DEF Once, Rows
<1>3. CASE moveUp \/ moveDown
  BY <1>1, <1>2, <1>3 DEF moveUp, moveDown
<1>4. CASE remove
  <2>1. /\ cur \in 1..Len(list) /\ list' = RemoveAt(list, cur)
        /\ cur' = IF list' = <<>> THEN 0 ELSE 1
    BY <1>1, <1>4 DEF remove, accountListChanged, loadAccount
  <2>2. list' \in Seq(Ids) /\ IsInjective(list')
    BY <1>1, <2>1, RemoveInjective DEF RemoveAt
  <2>. QED
    BY <2>1, <2>2 DEF Once, Rows
<1>5. ASSUME NEW a \in Ids, Add(a)  PROVE Once'
  <2>1. list' = Append(list, a) /\ a \notin Range(list) /\ cur' = Len(list')
    BY <1>5 DEF Add, Listed
  <2>2. /\ list' \in Seq(Ids) /\ Len(list') = Len(list) + 1 /\ list'[Len(list) + 1] = a
        /\ \A i \in 1..Len(list) : list'[i] = list[i] /\ list[i] # a
    BY <1>1, <2>1 DEF Range
  <2>3. IsInjective(list')
    <3>1. DOMAIN list = 1..Len(list) /\ DOMAIN list' = 1..(Len(list) + 1)
      BY <1>1, <2>2
    <3>2. \A i \in 1..(Len(list) + 1) : i \in 1..Len(list) \/ i = Len(list) + 1
      BY <1>1
    <3>3. \A i, j \in DOMAIN list' : list'[i] = list'[j] => i = j
      BY <1>1, <2>2, <3>1, <3>2 DEF IsInjective
    <3>. QED
      BY <3>3 DEF IsInjective
  <2>. QED
    BY <1>1, <2>1, <2>2, <2>3 DEF Once, Rows
<1>. QED
  BY <1>3, <1>4, <1>5

(* The other actions leave the list alone.                                 *)
LEMMA OtherRows ==
  ASSUME Once, ~undefined,
         \/ Open \/ Apply \/ Ok \/ Cancel
         \/ \E row \in DOMAIN list \cup {0} : Select(row)
         \/ \E v \in Details : Type(v)
         \/ \E row \in DOMAIN list, v \in Details : setData(row, v)
  PROVE  Once'
<1>1. list' = list /\ undefined' = undefined
  BY DEF Open, Apply, Ok, Cancel, Close, Select, Type, setData, countVars
<1>2. list \in Seq(Ids) /\ Len(list) \in Nat /\ cur \in 0..Len(list)
  BY DEF Once, Rows
<1>3. cur' \in 0..Len(list)
  <2>1. CASE Open
    BY <1>2, <2>1 DEF Open, accountListChanged, loadAccount
  <2>2. CASE Apply \/ Ok \/ Cancel
    BY <1>2, <2>2 DEF Apply, Ok, Cancel, Close
  <2>3. CASE \/ \E row \in DOMAIN list \cup {0} : Select(row)
             \/ \E v \in Details : Type(v)
             \/ \E row \in DOMAIN list, v \in Details : setData(row, v)
    BY <1>2, <2>3 DEF Select, Type, setData, accountListChanged, loadAccount
  <2>. QED
    BY <2>1, <2>2, <2>3
<1>. QED
  BY <1>1, <1>2, <1>3 DEF Once, Rows

LEMMA RowsStep == Agreement /\ Once /\ [Next]_vars => Once'
<1>. SUFFICES ASSUME Agreement, Once, [Next]_vars  PROVE Once'
  OBVIOUS
<1>1. CASE ~undefined /\ \/ moveUp \/ moveDown \/ remove
                         \/ \E a \in Ids : Add(a)
  BY <1>1, DialogRows
<1>2. CASE ~undefined /\ \/ Open \/ Apply \/ Ok \/ Cancel
                         \/ \E row \in DOMAIN list \cup {0} : Select(row)
                         \/ \E v \in Details : Type(v)
                         \/ \E row \in DOMAIN list, v \in Details : setData(row, v)
  BY <1>2, OtherRows
<1>3. CASE updateAccounts \/ \E a \in Ids : slotAccountChanged(a)
  BY <1>3, UpdateRows, StatusRows
<1>4. CASE \/ \E a \in Ids : ForeignRemove(a)
           \/ \E a \in Ids, v \in Details : ForeignAdd(a, v) \/ ForeignEdit(a, v)
  BY <1>4 DEF ForeignAdd, ForeignRemove, ForeignEdit, Foreign, dialogVars, Once, Rows
<1>5. CASE UNCHANGED vars
  BY <1>5 DEF vars, dialogVars, countVars, Once, Rows
<1>. QED
  BY <1>1, <1>2, <1>3, <1>4, <1>5 DEF Next

-----------------------------------------------------------------------------
(* Unsaved changes are held by a dialog that offers to save them.          *)

(* Loading an account into the fields makes none MODIFIED, nor does        *)
(* leaving one.                                                            *)
LEMMA ListChangedModifies ==
  ASSUME Types, NEW rows \in Seq(Ids), NEW previous \in Nat,
         NEW current \in Nat, current = 0 \/ current \in DOMAIN rows,
         accountListChanged(rows, previous, current), NEW a \in Range(rows),
         state'[a] = "MODIFIED", ~isNew'[a]
  PROVE  state[a] = "MODIFIED" /\ ~isNew[a]
<1>. DEFINE leaves(b) == previous \in DOMAIN rows /\ b = rows[previous]
            left == [b \in Ids |-> IF b \notin Range(rows) THEN "READY"
                                   ELSE IF leaves(b) THEN LeaveState(b) ELSE state[b]]
<1>1. /\ isNew' = [b \in Ids |-> isNew[b] /\ b \in Range(rows)]
      /\ loadAccount(rows, current, left, copy')
  BY DEF accountListChanged
<1>2. a \in Ids
  BY DEF Range
<1>3. ~isNew[a]
  BY <1>1, <1>2
<1>4. left \in [Ids -> EditState]
  BY LeaveEffect DEF Types, ObjectTypes, EditState
<1>5. left[a] = "MODIFIED"
  <2>1. CASE current = 0
    BY <2>1, <1>1, <1>2 DEF loadAccount
  <2>2. CASE current # 0
    <3>. DEFINE b == rows[current]
    <3>1. b \in Ids
      BY <2>2
    <3>2. state' = [left EXCEPT ![b] = StateAfter(b, stateMachineActionsOnState[left[b]].EDIT, left[b])]
      BY <2>2, <1>1 DEF loadAccount
    <3>. HIDE DEF left, b
    <3>3. \A e \in EditState : StateAfter(b, stateMachineActionsOnState[e].EDIT, e) = "MODIFIED" => e = "MODIFIED"
      BY DEF StateAfter, stateMachineActionsOnState, EditState
    <3>4. left[b] \in EditState
      BY <3>1, <1>4
    <3>. QED
      BY <3>1, <3>2, <3>3, <3>4, <1>2, <1>4
  <2>. QED
    BY <2>1, <2>2
<1>6. left[a] \in {LeaveState(a), state[a]}
  BY <1>2
<1>. QED
  BY <1>2, <1>3, <1>5, <1>6, LeaveEffect DEF Types

(* The actions of the open dialog; the edits say so in dirty.              *)
LEMMA EditOffered ==
  ASSUME Agreement, Once, UnsavedIsOffered, ~undefined,
         \/ Open \/ moveUp \/ moveDown \/ remove
         \/ \E row \in DOMAIN list \cup {0} : Select(row)
         \/ \E v \in Details : Type(v)
         \/ \E row \in DOMAIN list, v \in Details : setData(row, v)
         \/ \E a \in Ids : Add(a)
  PROVE  UnsavedIsOffered'
<1>1. CASE \/ moveUp \/ moveDown \/ remove
           \/ \E v \in Details : Type(v)
           \/ \E row \in DOMAIN list, v \in Details : setData(row, v)
           \/ \E a \in Ids : Add(a)
  BY <1>1 DEF moveUp, moveDown, Move, remove, Type, setData, Add, UnsavedIsOffered
<1>2. CASE Open \/ \E row \in DOMAIN list \cup {0} : Select(row)
  <2>. SUFFICES ASSUME NEW a \in Listed', state'[a] = "MODIFIED", ~isNew'[a]
                PROVE  open' /\ dirty'
    BY DEF UnsavedIsOffered
  <2>1. list \in Seq(Ids) /\ cur \in Nat /\ list' = list /\ a \in Range(list) /\ a \in Listed
    BY <1>2 DEF Once, Rows, Open, Select, Listed
  <2>2. PICK previous \in Nat, current \in Nat :
          /\ accountListChanged(list, previous, current)
          /\ current = 0 \/ current \in DOMAIN list
    <3>1. CASE Open
      <4>. DEFINE current == IF list = <<>> THEN 0 ELSE 1
      <4>1. current \in Nat /\ (current = 0 \/ current \in DOMAIN list)
        BY <2>1
      <4>2. accountListChanged(list, 0, current)
        BY <3>1 DEF Open
      <4>. QED
        BY <4>1, <4>2
    <3>2. CASE \E row \in DOMAIN list \cup {0} : Select(row)
      BY <3>2, <2>1 DEF Select
    <3>. QED
      BY <1>2, <3>1, <3>2
  <2>3. state[a] = "MODIFIED" /\ ~isNew[a]
    BY <2>1, <2>2, ListChangedModifies DEF Agreement
  <2>4. open /\ dirty
    BY <2>1, <2>3 DEF UnsavedIsOffered
  <2>. QED
    BY <1>2, <2>4 DEF Open, Select
<1>. QED
  BY <1>1, <1>2

(* What save leaves behind is not MODIFIED.                                *)
LEMMA SaveClears ==
  ASSUME Agreement, Once, save, NEW a \in Listed
  PROVE  state'[a] # "MODIFIED"
<1>1. a \in Ids
  BY DEF Once, Rows, Listed, Range
<1>. DEFINE st == IF cur # 0 /\ a = list[cur] THEN LeaveState(a) ELSE state[a]
<1>2. st \in EditState
  BY <1>1, LeaveEffect DEF Agreement, Types, ObjectTypes
<1>3. state'[a] = IF stateMachineActionsOnState[st].SAVE = "save" THEN "READY" ELSE st
  BY <1>1 DEF save
<1>. QED
  BY <1>2, <1>3 DEF EditState, stateMachineActionsOnState

LEMMA CloseOffered ==
  ASSUME Agreement, Once, UnsavedIsOffered, Apply \/ Ok \/ Cancel
  PROVE  UnsavedIsOffered'
<1>. SUFFICES ASSUME NEW a \in Listed', state'[a] = "MODIFIED", ~isNew'[a]
              PROVE  open' /\ dirty'
  BY DEF UnsavedIsOffered
<1>1. list' = list /\ a \in Listed /\ a \in Ids
  BY DEF Apply, Ok, Cancel, Close, Listed, Once, Rows, Range
<1>2. ~save
  BY <1>1, SaveClears
<1>3. CASE Ok
  <2>1. ~dirty /\ state' = state /\ isNew' = isNew
    BY <1>2, <1>3 DEF Ok, objectVars
  <2>. QED
    BY <2>1, <1>1 DEF UnsavedIsOffered
<1>4. CASE Cancel
  <2>1. state'[a] = IF Dropped(a) THEN State(a, "CANCEL") ELSE state[a]
    BY <1>1, <1>4 DEF Cancel
  <2>2. state[a] \in EditState /\ ~isNew[a]
    BY <1>1, <1>4 DEF Cancel, Agreement, Types, ObjectTypes
  <2>3. State(a, "CANCEL") # "MODIFIED" \/ state[a] # "MODIFIED"
    BY <2>2 DEF State, StateAfter, Handler, stateMachineActionsOnState, EditState
  <2>4. State(a, "CANCEL") = "MODIFIED" => state[a] = "MODIFIED"
    BY <2>2 DEF State, StateAfter, Handler, stateMachineActionsOnState, EditState
  <2>. QED
    BY <1>1, <2>1, <2>3, <2>4 DEF Dropped
<1>. QED
  BY <1>2, <1>3, <1>4 DEF Apply

(* RELOAD makes no account MODIFIED, and what a signal lists is READY.     *)
LEMMA SignalOffered ==
  ASSUME Agreement, Once, UnsavedIsOffered,
         updateAccounts \/ \E a \in Ids : slotAccountChanged(a)
  PROVE  UnsavedIsOffered'
<1>. SUFFICES ASSUME NEW a \in Listed', state'[a] = "MODIFIED", ~isNew'[a]
              PROVE  open' /\ dirty'
  BY DEF UnsavedIsOffered
<1>1. open' = open /\ dirty' = dirty /\ ~undefined
  BY DEF updateAccounts, slotAccountChanged, dialogVars
<1>2. SUFFICES a \in Listed /\ state[a] = "MODIFIED" /\ ~isNew[a]
  BY <1>1 DEF UnsavedIsOffered
<1>3. CASE updateAccounts
  <2>1. a \in Listed \cup known /\ a \in Ids
    BY <1>3, UpdateRows DEF Once, Rows, Listed, Range
  <2>2. /\ state'[a] = IF a \notin known THEN state[a]
                       ELSE IF HasId(a) THEN State(a, "RELOAD") ELSE "READY"
        /\ isNew'[a] = (isNew[a] /\ a \notin known)
    BY <1>3, <2>1 DEF updateAccounts
  <2>3. state[a] \in EditState /\ isNew[a] \in BOOLEAN
    BY <2>1 DEF Agreement, Types, ObjectTypes
  <2>4. State(a, "RELOAD") = "MODIFIED" => state[a] = "MODIFIED"
    BY <2>3 DEF State, StateAfter, Handler, stateMachineActionsOnState, EditState
  <2>. QED
    BY <2>1, <2>2, <2>3, <2>4 DEF HasId
<1>4. CASE \E b \in Ids : slotAccountChanged(b)
  <2>1. PICK b \in Ids : slotAccountChanged(b)
    BY <1>4
  <2>2. CASE HasId(b)
    BY <2>1, <2>2 DEF slotAccountChanged, Listed
  <2>3. CASE ~HasId(b)
    <3>1. a \in Listed \cup Unlisted /\ a \in Ids
      BY <2>1, <2>3, StatusRows DEF Once, Rows, Listed, Range
    <3>2. /\ state'[a] = IF a \in Unlisted THEN "READY" ELSE state[a]
          /\ isNew'[a] = (isNew[a] /\ a \notin Unlisted)
      BY <2>1, <2>3, <3>1 DEF slotAccountChanged
    <3>. QED
      BY <3>1, <3>2
  <2>. QED
    BY <2>2, <2>3
<1>. QED
  BY <1>3, <1>4

LEMMA OfferedStep ==
  Agreement /\ Once /\ UnsavedIsOffered /\ [Next]_vars => UnsavedIsOffered'
<1>. SUFFICES ASSUME Agreement, Once, UnsavedIsOffered, [Next]_vars  PROVE UnsavedIsOffered'
  OBVIOUS
<1>1. CASE ~undefined /\ \/ Open \/ moveUp \/ moveDown \/ remove
                         \/ \E row \in DOMAIN list \cup {0} : Select(row)
                         \/ \E v \in Details : Type(v)
                         \/ \E row \in DOMAIN list, v \in Details : setData(row, v)
                         \/ \E a \in Ids : Add(a)
  BY <1>1, EditOffered
<1>2. CASE Apply \/ Ok \/ Cancel
  BY <1>2, CloseOffered
<1>3. CASE updateAccounts \/ \E a \in Ids : slotAccountChanged(a)
  BY <1>3, SignalOffered
<1>4. CASE \/ \E a \in Ids : ForeignRemove(a)
           \/ \E a \in Ids, v \in Details : ForeignAdd(a, v) \/ ForeignEdit(a, v)
  BY <1>4 DEF ForeignAdd, ForeignRemove, ForeignEdit, Foreign, objectVars, dialogVars,
              UnsavedIsOffered, Listed
<1>5. CASE UNCHANGED vars
  BY <1>5 DEF vars, objectVars, dialogVars, UnsavedIsOffered, Listed
<1>. QED
  BY <1>1, <1>2, <1>3, <1>4, <1>5 DEF Next

-----------------------------------------------------------------------------
(* The flags and counters.                                                 *)
LEMMA FlagsStep == Agreement /\ Once /\ FlagTypes /\ [Next]_vars => FlagTypes'
<1>. SUFFICES ASSUME Agreement, Once, FlagTypes, [Next]_vars  PROVE FlagTypes'
  OBVIOUS
<1>1. Listed \subseteq Ids /\ known \subseteq Ids
  BY DEF Once, Rows, Listed, Range, Agreement, Types, DaemonTypes
<1>2. reg' \subseteq Ids
  BY <1>1 DEF Next, Open, Apply, Ok, Cancel, Close, Move, moveUp, moveDown, remove, Select, Type,
              setData, Add, save, updateAccounts, slotAccountChanged, ForeignAdd, ForeignRemove,
              ForeignEdit, Foreign, FlagTypes, vars, daemonVars
<1>3. deleted' \subseteq Ids
  <2>1. CASE remove
    <3>1. list[cur] \in Ids
      BY <2>1 DEF remove, Once, Rows
    <3>. QED
      BY <2>1, <3>1 DEF remove, FlagTypes
  <2>2. CASE ~remove
    BY <2>2 DEF Next, Open, Apply, Ok, Cancel, Move, moveUp, moveDown, Select, Type, setData, Add,
                updateAccounts, slotAccountChanged, ForeignAdd, ForeignRemove, ForeignEdit, Foreign,
                FlagTypes, vars
  <2>. QED
    BY <2>1, <2>2
<1>4. open' \in BOOLEAN /\ dirty' \in BOOLEAN
  BY DEF Next, Open, Apply, Ok, Cancel, Close, Move, moveUp, moveDown, remove, Select, Type,
         setData, Add, updateAccounts, slotAccountChanged, ForeignAdd, ForeignRemove,
         ForeignEdit, Foreign, FlagTypes, vars, dialogVars
<1>5. undefined' \in BOOLEAN
  BY DEF Next, Open, Apply, Ok, Cancel, Close, Move, moveUp, moveDown, remove, Select, Type,
         setData, Add, updateAccounts, slotAccountChanged, ForeignAdd, ForeignRemove,
         ForeignEdit, Foreign, FlagTypes, vars, countVars
<1>6. foreign' \in 0..MaxForeign
  <2>1. foreign' = foreign \/ (foreign < MaxForeign /\ foreign' = foreign + 1)
    BY DEF Next, Open, Apply, Ok, Cancel, Close, Move, moveUp, moveDown, remove, Select, Type,
           setData, Add, updateAccounts, slotAccountChanged, ForeignAdd, ForeignRemove,
           ForeignEdit, Foreign, vars, countVars
  <2>. QED
    BY <2>1 DEF FlagTypes
<1>7. created' \in 0..MaxNew
  <2>1. created' = created \/ (created < MaxNew /\ created' = created + 1)
    BY DEF Next, Open, Apply, Ok, Cancel, Close, Move, moveUp, moveDown, remove, Select, Type,
           setData, Add, updateAccounts, slotAccountChanged, ForeignAdd, ForeignRemove,
           ForeignEdit, Foreign, vars, countVars
  <2>. QED
    BY <2>1 DEF FlagTypes
<1>. QED
  BY <1>2, <1>3, <1>4, <1>5, <1>6, <1>7 DEF FlagTypes
-----------------------------------------------------------------------------
(* The inductive invariant: the types, which an account is new, and what   *)
(* the dialog offers.                                                      *)
IInv == TypeOK /\ NewIsLocal /\ CopyAgrees /\ UnsavedIsOffered

THEOREM Invariance == Spec => []IInv
<1>1. IInv <=> Agreement /\ Once /\ FlagTypes /\ UnsavedIsOffered
  BY DEF IInv, TypeOK, Agreement, Types, Once
<1>2. Init => IInv
  <2>. SUFFICES ASSUME Init  PROVE IInv
    OBVIOUS
  <2>1. Once
    BY StartAssumption DEF Init, Once, Rows
  <2>2. FlagTypes /\ UnsavedIsOffered
    <3>1. \A a \in Listed : a \in Ids
      BY <2>1 DEF Once, Rows, Listed, Range
    <3>2. FlagTypes
      <4>1. 0 \in 0..MaxForeign /\ 0 \in 0..MaxNew
        OBVIOUS
      <4>2. /\ reg = {} /\ deleted = {} /\ foreign = 0 /\ created = 0
            /\ open = FALSE /\ dirty = FALSE /\ undefined = FALSE
        BY DEF Init
      <4>. QED
        BY <4>1, <4>2 DEF FlagTypes
    <3>3. UnsavedIsOffered
      BY <3>1 DEF Init, UnsavedIsOffered
    <3>. QED
      BY <3>2, <3>3
  <2>. QED
    BY <2>1, <2>2, <1>1, AgreementStarts
<1>3. IInv /\ [Next]_vars => IInv'
  <2>1. Agreement /\ Once /\ FlagTypes /\ UnsavedIsOffered /\ [Next]_vars
          => Agreement' /\ Once' /\ FlagTypes' /\ UnsavedIsOffered'
    BY AgreementStep, RowsStep, FlagsStep, OfferedStep DEF Once
  <2>2. IInv' <=> Agreement' /\ Once' /\ FlagTypes' /\ UnsavedIsOffered'
    BY DEF IInv, TypeOK, Agreement, Types, Once
  <2>. QED
    BY <1>1, <2>1, <2>2
<1>. QED
  BY <1>2, <1>3, PTL DEF Spec

(* The list is one of accounts, none of them twice, with the selection in  *)
(* it, whichever handler, dialog or saving changed it.                     *)
THEOREM TypeCorrect == Spec => []TypeOK
<1>1. IInv => TypeOK
  BY DEF IInv
<1>. QED
  BY <1>1, Invariance, PTL

(* The client's copy of an account nobody edits is the daemon's, whenever  *)
(* no accountsChanged is on its way: through every edit, save, cancel and  *)
(* change by others.                                                       *)
THEOREM CopyCorrect == Spec => []CopyAgrees
<1>1. IInv => CopyAgrees
  BY DEF IInv
<1>. QED
  BY <1>1, Invariance, PTL

(* What the user has changed and not saved is held by an open dialog that  *)
(* offers to save it.                                                      *)
THEOREM OfferCorrect == Spec => []UnsavedIsOffered
<1>1. IInv => UnsavedIsOffered
  BY DEF IInv
<1>. QED
  BY <1>1, Invariance, PTL

(* The handlers of the daemon's signals change nothing of an account that  *)
(* holds unsaved changes.                                                  *)
THEOREM EditsCorrect == Spec => SignalsKeepEdits
<1>. DEFINE Signal == updateAccounts \/ (\E a \in Ids : slotAccountChanged(a))
            Kept   == \A a \in Listed : state[a] = "MODIFIED" =>
                        state'[a] = "MODIFIED" /\ copy'[a] = copy[a]
<1>1. IInv /\ [Next]_vars => [Signal => Kept]_vars
  <2>. SUFFICES ASSUME IInv, Signal, NEW a \in Listed, state[a] = "MODIFIED"
                PROVE  state'[a] = "MODIFIED" /\ copy'[a] = copy[a]
    OBVIOUS
  <2>1. a \in Ids /\ ~undefined /\ (isNew[a] => a \notin known)
    <3>1. a \in Ids
      BY DEF IInv, TypeOK, Rows, Listed, Range
    <3>2. ~undefined
      BY DEF updateAccounts, slotAccountChanged
    <3>. QED
      BY <3>1, <3>2 DEF IInv, NewIsLocal
  <2>2. CASE updateAccounts
    BY <2>1, <2>2, ReloadEffect DEF updateAccounts, HasId, IInv, TypeOK
  <2>3. CASE \E b \in Ids : slotAccountChanged(b)
    BY <2>1, <2>3 DEF slotAccountChanged, Unlisted, HasId
  <2>. QED
    BY <2>2, <2>3
<1>. QED
  BY <1>1, Invariance, PTL DEF Spec, SignalsKeepEdits

-----------------------------------------------------------------------------
(* The directory of numbers.                                               *)
USE SizesAssumption

MaybeAccount == Accounts \union {None}
MaybeContact == Contacts \union {None}

(* A directory of n numbers.                                               *)
DirType(n) ==
  [part : [1..n -> 1..n], parents : [1..n -> Seq(1..n)], uri : [1..n -> Uris],
   account : [1..n -> MaybeAccount], contact : [1..n -> MaybeContact],
   calls : [1..n -> Nat], rank : [1..n -> Nat],
   directory : [Uris -> Seq(1..n)], top : Seq(1..n), broken : BOOLEAN]

(* The list of popular numbers and the ranks are each other's inverse.     *)
Ranks(n, rank, top) ==
  /\ \A i \in 1..Len(top) : rank[top[i]] = i
  /\ \A o \in 1..n : rank[o] # 0 => rank[o] <= Len(top) /\ top[rank[o]] = o

(* Before anything is merged, every object has the part it was created     *)
(* with.                                                                   *)
Apart(n, part) == \A o \in 1..n : part[o] = o

Dir(n) ==
  {d \in DirType(n) :
     /\ Len(d.top) <= TopSize
     /\ Apart(n, d.part) => d.broken = FALSE /\ Ranks(n, d.rank, d.top)}

LEMMA DirIs ==
  ASSUME NEW n \in Nat, NEW d \in Dir(n)
  PROVE  /\ d \in DirType(n) /\ Len(d.top) <= TopSize
         /\ Apart(n, d.part) => d.broken = FALSE /\ Ranks(n, d.rank, d.top)
         /\ d.part \in [1..n -> 1..n] /\ d.parents \in [1..n -> Seq(1..n)]
         /\ d.uri \in [1..n -> Uris]
         /\ d.account \in [1..n -> MaybeAccount] /\ d.contact \in [1..n -> MaybeContact]
         /\ d.calls \in [1..n -> Nat] /\ d.rank \in [1..n -> Nat]
         /\ d.directory \in [Uris -> Seq(1..n)] /\ d.top \in Seq(1..n) /\ d.broken \in BOOLEAN
  BY DEF Dir, DirType

(* One field of a directory is changed, the ranks are not.                 *)
LEMMA FieldChanged ==
  ASSUME NEW n \in Nat, NEW d \in DirType(n)
  PROVE  /\ \A x \in [1..n -> Seq(1..n)] : [d EXCEPT !.parents = x] \in DirType(n)
         /\ \A x \in [1..n -> 1..n] : [d EXCEPT !.part = x] \in DirType(n)
         /\ \A x \in [1..n -> Uris] : [d EXCEPT !.uri = x] \in DirType(n)
         /\ \A x \in [1..n -> MaybeAccount] : [d EXCEPT !.account = x] \in DirType(n)
         /\ \A x \in [1..n -> MaybeContact] : [d EXCEPT !.contact = x] \in DirType(n)
         /\ \A x \in [1..n -> Nat] : [d EXCEPT !.calls = x] \in DirType(n)
         /\ \A x \in [1..n -> Nat] : [d EXCEPT !.rank = x] \in DirType(n)
         /\ \A x \in [Uris -> Seq(1..n)] : [d EXCEPT !.directory = x] \in DirType(n)
         /\ \A x \in Seq(1..n) : [d EXCEPT !.top = x] \in DirType(n)
         /\ [d EXCEPT !.broken = TRUE] \in DirType(n)
  BY DEF DirType

LEMMA WrapIs ==
  ASSUME NEW n \in Nat, NEW d \in Dir(n), NEW uri \in Uris
  PROVE  d.directory[uri] \in Seq(1..n)
<1>1. d.directory \in [Uris -> Seq(1..n)]
  BY DirIs
<1>. QED
  BY <1>1

LEMMA SetAccountStays ==
  ASSUME NEW n \in Nat, NEW d \in Dir(n), NEW o, NEW a \in Accounts
  PROVE  SetAccount(d, o, a) \in Dir(n)
<1>. DEFINE x == [d.account EXCEPT ![d.part[o]] = a]
            e == [d EXCEPT !.account = x]
<1>1. SetAccount(d, o, a) = e
  BY DEF SetAccount
<1>2. x \in [1..n -> MaybeAccount]
  BY DirIs DEF MaybeAccount
<1>3. e.part = d.part /\ e.rank = d.rank /\ e.top = d.top /\ e.broken = d.broken
  BY DirIs DEF DirType
<1>. HIDE DEF x
<1>4. e \in DirType(n)
  BY <1>2, DirIs, FieldChanged
<1>. HIDE DEF e
<1>. QED
  BY <1>1, <1>3, <1>4, DirIs DEF Dir

LEMMA SetContactStays ==
  ASSUME NEW n \in Nat, NEW d \in Dir(n), NEW o, NEW c \in Contacts
  PROVE  SetContact(d, o, c) \in Dir(n)
<1>. DEFINE x == [d.contact EXCEPT ![d.part[o]] = c]
            e == [d EXCEPT !.contact = x]
<1>1. SetContact(d, o, c) = e
  BY DEF SetContact
<1>2. x \in [1..n -> MaybeContact]
  BY DirIs DEF MaybeContact
<1>3. e.part = d.part /\ e.rank = d.rank /\ e.top = d.top /\ e.broken = d.broken
  BY DirIs DEF DirType
<1>. HIDE DEF x
<1>4. e \in DirType(n)
  BY <1>2, DirIs, FieldChanged
<1>. HIDE DEF e
<1>. QED
  BY <1>1, <1>3, <1>4, DirIs DEF Dir

LEMMA RegisteredStays ==
  ASSUME NEW n \in Nat, NEW d \in Dir(n), NEW o \in 1..n, NEW uri
  PROVE  Registered(d, o, uri) \in Dir(n)
<1>. DEFINE x == [d.directory EXCEPT ![uri] = Append(d.directory[uri], o)]
            e == [d EXCEPT !.directory = x]
<1>1. Registered(d, o, uri) = e
  BY DEF Registered
<1>2. x \in [Uris -> Seq(1..n)]
  <2>1. d.directory \in [Uris -> Seq(1..n)]
    BY DirIs
  <2>2. uri \in Uris => Append(d.directory[uri], o) \in Seq(1..n)
    BY <2>1
  <2>. QED
    BY <2>1, <2>2
<1>3. e.part = d.part /\ e.rank = d.rank /\ e.top = d.top /\ e.broken = d.broken
  BY DirIs DEF DirType
<1>. HIDE DEF x
<1>4. e \in DirType(n)
  BY <1>2, DirIs, FieldChanged
<1>. HIDE DEF e
<1>. QED
  BY <1>1, <1>3, <1>4, DirIs DEF Dir

(* A merge leaves two objects with one part: if o has its first part back, *)
(* the other does not have its own.                                        *)
LEMMA MergeStays ==
  ASSUME NEW n \in Nat, NEW d \in Dir(n), NEW o \in 1..n, NEW other \in 1..n
  PROVE  Merge(d, o, other) \in Dir(n)
<1>. DEFINE old == d.part[o]
            new == d.part[other]
            host == HasHost(d.uri[old]) /\ ~HasHost(d.uri[new])
            P  == [d.part EXCEPT ![o] = new]
            Q  == Adopted(d.parents, o, old, new)
            R  == [d.uri EXCEPT ![new] = IF host THEN d.uri[old] ELSE d.uri[new]]
            d1 == [d EXCEPT !.part = P]
            d2 == [d1 EXCEPT !.parents = Q]
            d3 == [d2 EXCEPT !.uri = R]
<1>0. /\ d \in DirType(n) /\ d.part \in [1..n -> 1..n] /\ d.parents \in [1..n -> Seq(1..n)]
      /\ d.uri \in [1..n -> Uris] /\ Len(d.top) <= TopSize
  BY DirIs
<1>1. old \in 1..n /\ new \in 1..n
  BY <1>0
<1>2. CASE ~Mergeable(d, o, other)
  BY <1>2 DEF Merge
<1>3. CASE Mergeable(d, o, other)
  <2>1. Merge(d, o, other) = d3
    <3>1. Merge(d, o, other)
            = [d EXCEPT !.part[o] = new, !.parents = Adopted(@, o, old, new),
                        !.uri[new] = IF HasHost(d.uri[old]) /\ ~HasHost(@) THEN d.uri[old] ELSE @]
      BY <1>3 DEF Merge
    <3>2. @ = d3
      BY <1>0 DEF DirType
    <3>. QED
      BY <3>1, <3>2
  <2>2. P \in [1..n -> 1..n]
    BY <1>0, <1>1
  <2>3. Q \in [1..n -> Seq(1..n)]
    <3>1. \A q \in Seq(1..n) : Append(q, o) \in Seq(1..n)
      OBVIOUS
    <3>2. \A q \in Seq(1..n) : Without(q, o) \in Seq(1..n)
      BY WithoutEffect
    <3>. QED
      BY <1>0, <1>1, <3>1, <3>2 DEF Adopted
  <2>4. R \in [1..n -> Uris]
    BY <1>0, <1>1
  <2>5. P = d3.part /\ d3.top = d.top
    BY <1>0 DEF DirType
  <2>6. ~Apart(n, P)
    <3>1. old # new
      BY <1>3 DEF Mergeable
    <3>2. CASE new = o
      <4>1. other # o
        BY <3>1
      <4>2. P[other] = o
        BY <1>0, <3>2, <4>1
      <4>. QED
        BY <4>1, <4>2 DEF Apart
    <3>3. CASE new # o
      <4>1. P[o] = new
        BY <1>0
      <4>. QED
        BY <3>3, <4>1 DEF Apart
    <3>. QED
      BY <3>2, <3>3
  <2>. HIDE DEF P, Q, R, old, new
  <2>7. d3 \in DirType(n)
    <3>1. d1 \in DirType(n)
      BY <1>0, <2>2, FieldChanged
    <3>. HIDE DEF d1
    <3>2. d2 \in DirType(n)
      BY <2>3, <3>1, FieldChanged
    <3>. HIDE DEF d2
    <3>. QED
      BY <2>4, <3>2, FieldChanged
  <2>. HIDE DEF d3
  <2>. QED
    BY <1>0, <2>1, <2>5, <2>6, <2>7 DEF Dir
<1>. QED
  BY <1>2, <1>3

(* setAccount() merges with the numbers of the same URI and account.       *)
Same(e, m, o) == IF m # o /\ AccountOf(e, m) = AccountOf(e, o) THEN Merge(e, o, m) ELSE e

(* What a merge changes.                                                   *)
LEMMA MergeIs ==
  ASSUME NEW n \in Nat, NEW d \in Dir(n), NEW o \in 1..n, NEW other \in 1..n
  PROVE  LET e   == Merge(d, o, other)
             new == d.part[other]
         IN  /\ ~Mergeable(d, o, other) => e = d
             /\ Mergeable(d, o, other) =>
                  /\ e.part = [d.part EXCEPT ![o] = new]
                  /\ \A p \in 1..n : p # new => e.uri[p] = d.uri[p]
             /\ e.account = d.account /\ e.contact = d.contact /\ e.directory = d.directory
<1>. DEFINE e == Merge(d, o, other)
            old == d.part[o]
            new == d.part[other]
            r == [d EXCEPT !.part[o] = new, !.parents = Adopted(@, o, old, new),
                           !.uri[new] = IF HasHost(d.uri[old]) /\ ~HasHost(@) THEN d.uri[old] ELSE @]
<1>1. ~Mergeable(d, o, other) => e = d
  BY DEF Merge
<1>2. CASE Mergeable(d, o, other)
  <2>1. e = r
    BY <1>2 DEF Merge
  <2>2. /\ d \in DirType(n) /\ d.part \in [1..n -> 1..n] /\ d.uri \in [1..n -> Uris]
    BY DirIs
  <2>3. /\ r.part = [d.part EXCEPT ![o] = new]
        /\ \A p \in 1..n : p # new => r.uri[p] = d.uri[p]
        /\ r.account = d.account /\ r.contact = d.contact /\ r.directory = d.directory
    BY <2>2 DEF DirType
  <2>. HIDE DEF r
  <2>. QED
    BY <1>2, <2>1, <2>3
<1>. QED
  BY <1>1, <1>2

(* The directories that differ from d in who is merged with whom, within   *)
(* an account.                                                             *)
SameAccounts(n, d) ==
  {e \in Dir(n) : e.directory = d.directory /\ \A x \in 1..n : AccountOf(e, x) = AccountOf(d, x)}

LEMMA MergeWithin ==
  ASSUME NEW n \in Nat, NEW d, NEW e \in SameAccounts(n, d), NEW o \in 1..n, NEW m \in 1..n
  PROVE  Same(e, m, o) \in SameAccounts(n, d)
<1>1. e \in Dir(n) /\ e.directory = d.directory /\ \A x \in 1..n : AccountOf(e, x) = AccountOf(d, x)
  BY DEF SameAccounts
<1>2. CASE ~(m # o /\ AccountOf(e, m) = AccountOf(e, o))
  BY <1>2 DEF Same
<1>3. CASE m # o /\ AccountOf(e, m) = AccountOf(e, o)
  <2>. DEFINE r == Merge(e, o, m)
  <2>1. Same(e, m, o) = r
    BY <1>3 DEF Same
  <2>2. r \in Dir(n)
    BY <1>1, MergeStays
  <2>3. /\ ~Mergeable(e, o, m) => r = e
        /\ Mergeable(e, o, m) => r.part = [e.part EXCEPT ![o] = e.part[m]]
        /\ r.account = e.account /\ r.directory = e.directory
    BY <1>1, MergeIs
  <2>4. e.part \in [1..n -> 1..n]
    BY <1>1, DirIs
  <2>. HIDE DEF r
  <2>5. \A x \in 1..n : AccountOf(r, x) = AccountOf(e, x)
    BY <1>3, <2>3, <2>4 DEF AccountOf
  <2>. QED
    BY <1>1, <2>1, <2>2, <2>3, <2>5 DEF SameAccounts
<1>. QED
  BY <1>2, <1>3

LEMMA MergedWithin ==
  ASSUME NEW n \in Nat, NEW d \in Dir(n), NEW o \in 1..n, NEW q \in Seq(1..n)
  PROVE  FoldLeft(LAMBDA e, m : Same(e, m, o), d, q) \in SameAccounts(n, d)
<1>. DEFINE N == Len(q)
            D == SameAccounts(n, d)
            base == d
            Step(x, y) == Same(x, y, o)
            step == [i \in 1..N |-> [x \in D |-> Step(x, q[i])]]
            Folds(g) == g = [r \in SUBSET (DOMAIN q) |->
                               IF r = {} THEN base ELSE Step(g[r \ {Max(r)}], q[Max(r)])]
            f == CHOOSE g : Folds(g)
<1>1. N \in Nat /\ DOMAIN q = 1..N /\ \A i \in 1..N : q[i] \in 1..n
  OBVIOUS
<1>2. FoldLeft(LAMBDA e, m : Same(e, m, o), d, q) = f[DOMAIN q]
  BY DEF FoldLeft, MapThenFoldSet
<1>3. base \in D
  BY DEF SameAccounts
<1>4. ASSUME NEW x \in D, NEW y \in 1..n  PROVE Step(x, y) \in D
  BY MergeWithin
<1>. HIDE DEF D, base, Step
<1>5. step \in [1..N -> [D -> D]]
  BY <1>1, <1>4
<1>6. Folds(f)
  <2>1. PICK g \in [SUBSET (1..N) -> D] : IsFold(g, N, base, step)
    <3>. HIDE DEF N, step
    <3>. QED
      BY <1>1, <1>3, <1>5, FoldExists
  <2>2. \A r \in SUBSET (1..N) : r # {} => Max(r) \in 1..N /\ g[r \ {Max(r)}] \in D
    BY <1>1, MaxIsMember
  <2>3. \A r \in SUBSET (1..N) : r # {} =>
          step[Max(r)][g[r \ {Max(r)}]] = Step(g[r \ {Max(r)}], q[Max(r)])
    BY <1>1, <2>2
  <2>4. Folds(g)
    <3>. HIDE DEF step
    <3>. QED
      BY <1>1, <2>1, <2>3, Zenon DEF IsFold
  <2>. HIDE DEF Folds
  <2>. QED
    BY <2>4
<1>7. \A r \in SUBSET (1..N) : f[r] = IF r = {} THEN base ELSE Step(f[r \ {Max(r)}], q[Max(r)])
  <2>. HIDE DEF f
  <2>. QED
    BY <1>1, <1>6, Zenon
<1>. HIDE DEF f, step, Folds
<1>8. f[1..0] \in D
  <2>1. 1..0 = {} /\ 1..0 \in SUBSET (1..N)
    OBVIOUS
  <2>. QED
    BY <1>3, <1>7, <2>1
<1>9. ASSUME NEW k \in 1..N, f[1..(k - 1)] \in D  PROVE f[1..k] \in D
  <2>1. /\ 1..k \in SUBSET (1..N) /\ 1..k # {} /\ Max(1..k) = k
        /\ (1..k) \ {k} = 1..(k - 1)
    BY <1>1, UpTo
  <2>2. f[1..k] = Step(f[1..(k - 1)], q[k])
    BY <1>7, <2>1
  <2>. QED
    BY <1>1, <1>4, <1>9, <2>2
<1>10. f[1..N] \in D
  BY <1>1, <1>8, <1>9, FoldValues
<1>. QED
  BY <1>1, <1>2, <1>10, Zenon DEF D

(* setAccount(): who has an account keeps it, and only o is listed once    *)
(* more.                                                                   *)
LEMMA AttachIs ==
  ASSUME NEW n \in Nat, NEW d0 \in Dir(n), NEW o \in 1..n, NEW a \in Accounts
  PROVE  LET e == AttachAccount(d0, o, a)
         IN  /\ e \in Dir(n) /\ AccountOf(e, o) # None
             /\ \A x \in 1..n : AccountOf(d0, x) # None => AccountOf(e, x) # None
             /\ \A u \in Uris : e.directory[u] \in {d0.directory[u], Append(d0.directory[u], o)}
<1>. DEFINE uri == UriOf(d0, o)
            d == SetAccount(d0, o, a)
            all == FoldLeft(LAMBDA e, m : Same(e, m, o), d, d.directory[uri])
            A(e) == /\ e \in Dir(n)
                    /\ AccountOf(e, o) # None
                    /\ \A x \in 1..n : AccountOf(d0, x) # None => AccountOf(e, x) # None
<1>1. d \in Dir(n)
  BY SetAccountStays
<1>2. uri \in Uris
  <2>1. d0.part \in [1..n -> 1..n] /\ d0.uri \in [1..n -> Uris]
    BY DirIs
  <2>. QED
    BY <2>1 DEF UriOf
<1>3. AttachAccount(d0, o, a) = IF HasHost(uri) THEN d
                               ELSE IF d.directory[uri] = <<>> THEN Registered(d, o, Extended(uri, a))
                               ELSE Registered(all, o, uri)
  BY DEF AttachAccount, Same
<1>4. A(d) /\ d.directory = d0.directory
  <2>1. /\ d0 \in DirType(n) /\ d0.part \in [1..n -> 1..n]
        /\ d0.account \in [1..n -> MaybeAccount]
    BY DirIs
  <2>2. d.part = d0.part /\ d.account = [d0.account EXCEPT ![d0.part[o]] = a] /\ d.directory = d0.directory
    BY <2>1 DEF SetAccount, DirType
  <2>3. a # None
    BY NoneAssumption
  <2>. HIDE DEF d
  <2>4. \A x \in 1..n : AccountOf(d, x) = IF d0.part[x] = d0.part[o] THEN a ELSE AccountOf(d0, x)
    BY <2>1, <2>2 DEF AccountOf
  <2>. QED
    BY <1>1, <2>2, <2>3, <2>4
<1>. HIDE DEF d, uri
<1>5. d.directory[uri] \in Seq(1..n)
  BY <1>1, <1>2, WrapIs
<1>6. all \in SameAccounts(n, d)
  BY <1>1, <1>5, MergedWithin, Zenon
<1>. HIDE DEF all
<1>7. A(all) /\ all.directory = d.directory
  BY <1>4, <1>6 DEF SameAccounts
<1>8. ASSUME NEW g, A(g), g.directory = d0.directory, NEW v
      PROVE  /\ A(Registered(g, o, v))
             /\ \A u \in Uris : Registered(g, o, v).directory[u]
                                 \in {d0.directory[u], Append(d0.directory[u], o)}
  <2>. DEFINE h == Registered(g, o, v)
  <2>1. h \in Dir(n)
    BY <1>8, RegisteredStays
  <2>2. g \in DirType(n) /\ g.directory \in [Uris -> Seq(1..n)]
    BY <1>8, DirIs
  <2>3. h.part = g.part /\ h.account = g.account
        /\ h.directory = [g.directory EXCEPT ![v] = Append(@, o)]
    BY <2>2 DEF Registered, DirType
  <2>. HIDE DEF h
  <2>4. \A x \in 1..n : AccountOf(h, x) = AccountOf(g, x)
    BY <2>3 DEF AccountOf
  <2>5. A(h)
    BY <1>8, <2>1, <2>4
  <2>6. \A u \in Uris : h.directory[u] \in {d0.directory[u], Append(d0.directory[u], o)}
    BY <1>8, <2>2, <2>3
  <2>. QED
    BY <2>5, <2>6 DEF h
<1>. HIDE DEF A
<1>9. LET e == AttachAccount(d0, o, a)
      IN  A(e) /\ \A u \in Uris : e.directory[u] \in {d0.directory[u], Append(d0.directory[u], o)}
  <2>1. CASE HasHost(uri)
    BY <1>3, <1>4, <2>1
  <2>2. CASE ~HasHost(uri) /\ d.directory[uri] = <<>>
    BY <1>3, <1>4, <1>8, <2>2
  <2>3. CASE ~HasHost(uri) /\ d.directory[uri] # <<>>
    BY <1>3, <1>4, <1>7, <1>8, <2>3
  <2>. QED
    BY <2>1, <2>2, <2>3
<1>. QED
  BY <1>9 DEF A

LEMMA FillStays ==
  ASSUME NEW n \in Nat, NEW d \in Dir(n), NEW o \in 1..n, NEW uri, NEW a \in MaybeAccount,
         NEW c \in MaybeContact
  PROVE  Fill(d, o, uri, a, c) \in Dir(n)
<1>. DEFINE fits == /\ c # None /\ ContactOf(d, o) = None
                    /\ CompatibleUri(d, o, uri, a) /\ CompatibleAccount(d, o, uri, a)
            d1 == IF fits THEN SetContact(d, o, c) ELSE d
            attach == a # None /\ c = None /\ AccountOf(d, o) = None
<1>1. d1 \in Dir(n)
  <2>1. c # None => SetContact(d, o, c) \in Dir(n)
    BY SetContactStays DEF MaybeContact
  <2>. QED
    BY <2>1
<1>2. Fill(d, o, uri, a, c) = IF attach THEN AttachAccount(d1, o, a) ELSE d1
  BY DEF Fill
<1>. HIDE DEF d1
<1>3. a # None => AttachAccount(d1, o, a) \in Dir(n)
  BY <1>1, AttachIs DEF MaybeAccount
<1>. QED
  BY <1>1, <1>2, <1>3

(* fillDetails() goes over the numbers of a URI up to the first confirmed. *)
Check(x, o, uri, a, c) ==
  IF x[2] # 0 THEN x
  ELSE LET e == Fill(x[1], o, uri, a, c)
       IN <<e, IF Confirmed(e, o, a, c) THEN o ELSE 0>>

LEMMA CheckStays ==
  ASSUME NEW n \in Nat, NEW x \in Dir(n) \X (0..n), NEW o \in 1..n, NEW uri,
         NEW a \in MaybeAccount, NEW c \in MaybeContact
  PROVE  Check(x, o, uri, a, c) \in Dir(n) \X (0..n)
<1>. DEFINE e == Fill(x[1], o, uri, a, c)
            m == IF Confirmed(e, o, a, c) THEN o ELSE 0
<1>1. e \in Dir(n)
  BY FillStays
<1>2. Check(x, o, uri, a, c) = IF x[2] # 0 THEN x ELSE <<e, m>>
  BY DEF Check
<1>3. m \in 0..n
  OBVIOUS
<1>. HIDE DEF e, m
<1>. QED
  BY <1>1, <1>2, <1>3

(* The rounds of fillDetails().                                            *)
Rounds(f, d, q, uri, a, c) ==
  /\ f[0] = <<d, 0>> /\ f[Len(q)] = FillDetails(d, q, uri, a, c)
  /\ \A k \in 1..Len(q) : f[k] = Check(f[k - 1], q[k], uri, a, c)

LEMMA FillRounds ==
  ASSUME NEW n \in Nat, NEW d \in Dir(n), NEW uri, NEW a \in MaybeAccount,
         NEW c \in MaybeContact, NEW q \in Seq(1..n)
  PROVE  \E f \in [0..Len(q) -> Dir(n) \X (0..n)] : Rounds(f, d, q, uri, a, c)
<1>. DEFINE N == Len(q)
            D == Dir(n) \X (0..n)
            base == <<d, 0>>
            Step(x, y) == Check(x, y, uri, a, c)
            step == [i \in 1..N |-> [x \in D |-> Step(x, q[i])]]
            Folds(g) == g = [r \in SUBSET (DOMAIN q) |->
                               IF r = {} THEN base ELSE Step(g[r \ {Max(r)}], q[Max(r)])]
            f == CHOOSE g : Folds(g)
            h == [k \in 0..N |-> f[1..k]]
<1>1. N \in Nat /\ DOMAIN q = 1..N /\ \A i \in 1..N : q[i] \in 1..n
  OBVIOUS
<1>2. FillDetails(d, q, uri, a, c) = f[DOMAIN q]
  BY DEF FillDetails, Check, FoldLeft, MapThenFoldSet
<1>3. base \in D
  OBVIOUS
<1>4. ASSUME NEW x \in D, NEW y \in 1..n  PROVE Step(x, y) \in D
  BY CheckStays
<1>. HIDE DEF D, base, Step
<1>5. step \in [1..N -> [D -> D]]
  BY <1>1, <1>4
<1>6. Folds(f)
  <2>1. PICK g \in [SUBSET (1..N) -> D] : IsFold(g, N, base, step)
    <3>. HIDE DEF N, step
    <3>. QED
      BY <1>1, <1>3, <1>5, FoldExists
  <2>2. \A r \in SUBSET (1..N) : r # {} => Max(r) \in 1..N /\ g[r \ {Max(r)}] \in D
    BY <1>1, MaxIsMember
  <2>3. \A r \in SUBSET (1..N) : r # {} =>
          step[Max(r)][g[r \ {Max(r)}]] = Step(g[r \ {Max(r)}], q[Max(r)])
    BY <1>1, <2>2
  <2>4. Folds(g)
    <3>. HIDE DEF step
    <3>. QED
      BY <1>1, <2>1, <2>3, Zenon DEF IsFold
  <2>. HIDE DEF Folds
  <2>. QED
    BY <2>4
<1>7. \A r \in SUBSET (1..N) : f[r] = IF r = {} THEN base ELSE Step(f[r \ {Max(r)}], q[Max(r)])
  <2>. HIDE DEF f
  <2>. QED
    BY <1>1, <1>6, Zenon
<1>. HIDE DEF f, step, Folds
<1>8. f[1..0] = base
  <2>1. 1..0 = {} /\ 1..0 \in SUBSET (1..N)
    OBVIOUS
  <2>. QED
    BY <1>7, <2>1
<1>9. ASSUME NEW k \in 1..N  PROVE f[1..k] = Step(f[1..(k - 1)], q[k])
  <2>1. /\ 1..k \in SUBSET (1..N) /\ 1..k # {} /\ Max(1..k) = k
        /\ (1..k) \ {k} = 1..(k - 1)
    BY <1>1, UpTo
  <2>. QED
    BY <1>7, <2>1
<1>10. ASSUME NEW k \in 0..N  PROVE f[1..k] \in D
  <2>. DEFINE S == {m \in Nat : m <= N => f[1..m] \in D}
  <2>1. 0 \in S
    BY <1>3, <1>8
  <2>2. \A m \in Nat : m \in S => m + 1 \in S
    <3>. SUFFICES ASSUME NEW m \in Nat, m \in S, m + 1 <= N  PROVE f[1..(m + 1)] \in D
      OBVIOUS
    <3>1. m + 1 \in 1..N /\ m + 1 - 1 = m /\ f[1..m] \in D
      BY <1>1
    <3>. QED
      BY <1>1, <1>4, <1>9, <3>1
  <2>. HIDE DEF S
  <2>3. Nat \subseteq S
    BY <2>1, <2>2, Induction
  <2>. QED
    BY <1>1, <2>3 DEF S
<1>11. h \in [0..N -> D]
  BY <1>10
<1>12. h[0] = base /\ h[N] = FillDetails(d, q, uri, a, c)
  BY <1>1, <1>2, <1>8
<1>13. \A k \in 1..N : h[k] = Step(h[k - 1], q[k])
  BY <1>1, <1>9
<1>. HIDE DEF h, N
<1>14. \A k \in 1..N : h[k] = Check(h[k - 1], q[k], uri, a, c)
  BY <1>13 DEF Step
<1>. QED
  BY <1>11, <1>12, <1>14 DEF N, D, base, Rounds

LEMMA FillDetailsStays ==
  ASSUME NEW n \in Nat, NEW d \in Dir(n), NEW uri, NEW a \in MaybeAccount,
         NEW c \in MaybeContact, NEW q \in Seq(1..n)
  PROVE  FillDetails(d, q, uri, a, c) \in Dir(n) \X (0..n)
<1>1. PICK f \in [0..Len(q) -> Dir(n) \X (0..n)] : Rounds(f, d, q, uri, a, c)
  BY FillRounds
<1>2. f[Len(q)] = FillDetails(d, q, uri, a, c) /\ Len(q) \in 0..Len(q)
  BY <1>1 DEF Rounds
<1>. QED
  BY <1>2

(* The other numbers of a URI that are candidates.                         *)
LEMMA LongerStays ==
  ASSUME NEW n \in Nat, NEW one \in Dir(n) \X (0..n), NEW uri \in Uris,
         NEW a \in MaybeAccount, NEW c \in MaybeContact
  PROVE  Longer(one, uri, a, c) \in Dir(n) \X (0..n)
<1>. DEFINE d == one[1]
            far == Extended(uri, a)
<1>1. d \in Dir(n) /\ <<d, 0>> \in Dir(n) \X (0..n)
  OBVIOUS
<1>2. CASE one[2] # 0 /\ ~HasHost(uri) /\ a \notin {None, Ip2ip}
  <2>1. far \in Uris
    BY <1>2 DEF Extended, Uris, Uri, User, MaybeAccount
  <2>2. d.directory[far] \in Seq(1..n)
    BY <1>1, <2>1, WrapIs
  <2>3. Longer(one, uri, a, c) = FillDetails(d, d.directory[far], uri, a, c)
    BY <1>2 DEF Longer
  <2>. HIDE DEF d
  <2>. QED
    BY <1>1, <2>2, <2>3, FillDetailsStays
<1>3. CASE ~(one[2] # 0 /\ ~HasHost(uri) /\ a \notin {None, Ip2ip})
  BY <1>1, <1>3 DEF Longer
<1>. QED
  BY <1>2, <1>3

(* A search for the first element whose index is in I.                     *)
At(q, I) == IF I = {} THEN 0 ELSE q[Min(I)]

LEMMA AtIs ==
  ASSUME NEW n \in Nat, NEW q \in Seq(1..n), NEW I \in SUBSET (1..Len(q))
  PROVE  /\ I = {} => At(q, I) = 0
         /\ I # {} => /\ At(q, I) \in 1..n
                      /\ \E i \in I : At(q, I) = q[i] /\ \A j \in I : i <= j
<1>1. I \in SUBSET Nat
  OBVIOUS
<1>2. I # {} => Min(I) \in I /\ \A j \in I : Min(I) <= j
  BY <1>1, MinIsMember
<1>. DEFINE m == Min(I)
<1>. HIDE DEF m
<1>3. I # {} => m \in I /\ \A j \in I : m <= j
  BY <1>2 DEF m
<1>4. I # {} => m \in 1..Len(q)
  BY <1>3
<1>5. I # {} => q[m] \in 1..n
  BY <1>4
<1>. QED
  BY <1>3, <1>5 DEF At, m

OfAccount(d, q, a) == {i \in 1..Len(q) : AccountOf(d, q[i]) = a}

LEMMA ShorterAt ==
  ASSUME NEW n \in Nat, NEW d \in Dir(n), NEW uri \in Uris, NEW a
  PROVE  LET q == d.directory[Uri(User(uri), None)]
         IN  /\ q \in Seq(1..n)
             /\ Shorter(d, uri, a) = IF HasHost(uri) /\ Host(uri) = a
                                     THEN At(q, OfAccount(d, q, a)) ELSE 0
<1>. DEFINE short == Uri(User(uri), None)
            q == d.directory[short]
            I == OfAccount(d, q, a)
            at == IF I # {} THEN Min(I) ELSE 0
<1>1. short \in Uris
  BY DEF Uris, Uri, User
<1>2. q \in Seq(1..n)
  BY <1>1, WrapIs
<1>3. Shorter(d, uri, a)
        = IF HasHost(uri) /\ Host(uri) = a
          THEN First(q, LAMBDA o : AccountOf(d, o) = a) ELSE 0
  BY DEF Shorter
<1>4. First(q, LAMBDA o : AccountOf(d, o) = a) = IF at = 0 THEN 0 ELSE q[at]
  BY DEF First, SelectInSeq, OfAccount
<1>5. I \in SUBSET (1..Len(q)) /\ I \in SUBSET Nat
  BY DEF OfAccount
<1>6. I # {} => Min(I) \in 1..Len(q)
  <2>. HIDE DEF I, q
  <2>. QED
    BY <1>5, MinIsMember
<1>. HIDE DEF I, q
<1>7. (IF at = 0 THEN 0 ELSE q[at]) = At(q, I)
  BY <1>2, <1>6 DEF At
<1>. QED
  BY <1>2, <1>3, <1>4, <1>7 DEF I, q

LEMMA ShorterIs ==
  ASSUME NEW n \in Nat, NEW d \in Dir(n), NEW uri \in Uris, NEW a
  PROVE  Shorter(d, uri, a) \in 0..n
<1>. DEFINE q == d.directory[Uri(User(uri), None)]
            I == OfAccount(d, q, a)
<1>1. q \in Seq(1..n) /\ Shorter(d, uri, a) \in {0, At(q, I)}
  BY ShorterAt
<1>2. I \in SUBSET (1..Len(q))
  BY DEF OfAccount
<1>. HIDE DEF I, q
<1>3. At(q, I) \in 0..n
  BY <1>1, <1>2, AtIs
<1>. QED
  BY <1>1, <1>3

LEMMA JoinShorterStays ==
  ASSUME NEW n \in Nat, NEW d \in Dir(n), NEW three \in 1..n, NEW other \in 0..n,
         NEW c \in MaybeContact
  PROVE  JoinShorter(d, three, other, c) \in Dir(n)
<1>. DEFINE e == IF c # None /\ ContactOf(d, three) = None THEN SetContact(d, three, c) ELSE d
<1>1. e \in Dir(n)
  <2>1. c # None => SetContact(d, three, c) \in Dir(n)
    BY SetContactStays DEF MaybeContact
  <2>. QED
    BY <2>1
<1>2. JoinShorter(d, three, other, c) = IF other # 0 THEN Merge(e, three, other) ELSE e
  BY DEF JoinShorter
<1>. HIDE DEF e
<1>3. other # 0 => Merge(e, three, other) \in Dir(n)
  BY <1>1, MergeStays
<1>. QED
  BY <1>1, <1>2, <1>3

LEMMA JoinedStays ==
  ASSUME NEW n \in Nat, NEW one \in 0..n, NEW two \in Dir(n) \X (0..n), NEW three \in 0..n,
         NEW c \in MaybeContact
  PROVE  Joined(one, two, three, c).d \in Dir(n)
<1>. DEFINE d == two[1]
            other == IF one # 0 THEN one ELSE two[2]
<1>1. d \in Dir(n) /\ other \in 0..n
  OBVIOUS
<1>2. Joined(one, two, three, c).d = IF three = 0 THEN d ELSE JoinShorter(d, three, other, c)
  BY DEF Joined
<1>. HIDE DEF d, other
<1>3. three # 0 => JoinShorter(d, three, other, c) \in Dir(n)
  BY <1>1, JoinShorterStays
<1>. QED
  BY <1>1, <1>2, <1>3

LEMMA CandidatesStay ==
  ASSUME NEW n \in Nat, NEW d \in Dir(n), NEW uri \in Uris, NEW a \in MaybeAccount,
         NEW c \in MaybeContact
  PROVE  Candidates(d, uri, a, c).d \in Dir(n)
<1>. DEFINE one == FillDetails(d, d.directory[uri], uri, a, c)
            two == Longer(one, uri, a, c)
            three == Shorter(two[1], uri, a)
            last == one[2]
<1>0. d.directory[uri] \in Seq(1..n)
  BY WrapIs
<1>1. one \in Dir(n) \X (0..n)
  BY <1>0, FillDetailsStays
<1>. HIDE DEF one
<1>2. two \in Dir(n) \X (0..n)
  BY <1>1, LongerStays
<1>. HIDE DEF two
<1>3. three \in 0..n
  BY <1>2, ShorterIs
<1>4. last \in 0..n
  BY <1>1
<1>. HIDE DEF three, last
<1>5. Joined(last, two, three, c).d \in Dir(n)
  BY <1>2, <1>3, <1>4, JoinedStays
<1>6. Candidates(d, uri, a, c) = Joined(last, two, three, c)
  BY DEF Candidates, FoundFirst, Together, one, two, three, last
<1>. QED
  BY <1>5, <1>6

(* A directory by its fields.                                              *)
Fields(part, parents, uri, account, contact, calls, rank, directory, top, broken) ==
  [part |-> part, parents |-> parents, uri |-> uri, account |-> account, contact |-> contact,
   calls |-> calls, rank |-> rank, directory |-> directory, top |-> top, broken |-> broken]

(* A new number, field by field.                                           *)
LEMMA CreatedIs ==
  ASSUME NEW n \in Nat, NEW d \in Dir(n), NEW uri \in Uris, NEW a \in MaybeAccount,
         NEW c \in MaybeContact
  PROVE  /\ Len(d.part) = n
         /\ Created(d, uri, a, c)
              = [part |-> Append(d.part, n + 1), parents |-> Append(d.parents, <<n + 1>>),
                 uri |-> Append(d.uri, uri), account |-> Append(d.account, a),
                 contact |-> Append(d.contact, c), calls |-> Append(d.calls, 0),
                 rank |-> Append(d.rank, 0), directory |-> d.directory, top |-> d.top,
                 broken |-> d.broken]
<1>. DEFINE o == n + 1
            P == Append(d.part, o)
            R == Append(d.rank, 0)
            e == [part |-> P, parents |-> Append(d.parents, <<o>>), uri |-> Append(d.uri, uri),
                  account |-> Append(d.account, a), contact |-> Append(d.contact, c),
                  calls |-> Append(d.calls, 0), rank |-> R,
                  directory |-> d.directory, top |-> d.top, broken |-> d.broken]
<1>1. d \in DirType(n) /\ d.part \in [1..n -> 1..n]
  BY DirIs
<1>2. Len(d.part) = n
  BY <1>1, FunIsSeq
<1>4. Created(d, uri, a, c) = e
  <2>. DEFINE x2 == Append(d.parents, <<o>>)
              x3 == Append(d.uri, uri)
              x4 == Append(d.account, a)
              x5 == Append(d.contact, c)
              x6 == Append(d.calls, 0)
              d0 == Fields(d.part, d.parents, d.uri, d.account, d.contact, d.calls, d.rank, d.directory, d.top, d.broken)
              d1 == [d0 EXCEPT !.part = P]
              d2 == [d1 EXCEPT !.parents = x2]
              d3 == [d2 EXCEPT !.uri = x3]
              d4 == [d3 EXCEPT !.account = x4]
              d5 == [d4 EXCEPT !.contact = x5]
              d6 == [d5 EXCEPT !.calls = x6]
              d7 == [d6 EXCEPT !.rank = R]
  <2>1. Len(d.part) + 1 = o
    BY <1>2
  <2>2. d = d0
    BY <1>1 DEF DirType, Fields
  <2>. HIDE DEF d0
  <2>3. Created(d, uri, a, c) = d7
    BY <2>1, <2>2 DEF Created
  <2>. HIDE DEF P, R, x2, x3, x4, x5, x6
  <2>4. d1 = Fields(P, d.parents, d.uri, d.account, d.contact, d.calls, d.rank, d.directory, d.top, d.broken)
    BY DEF Fields, d0
  <2>. HIDE DEF d1
  <2>5. d2 = Fields(P, x2, d.uri, d.account, d.contact, d.calls, d.rank, d.directory, d.top, d.broken)
    BY <2>4 DEF Fields
  <2>. HIDE DEF d2
  <2>6. d3 = Fields(P, x2, x3, d.account, d.contact, d.calls, d.rank, d.directory, d.top, d.broken)
    BY <2>5 DEF Fields
  <2>. HIDE DEF d3
  <2>7. d4 = Fields(P, x2, x3, x4, d.contact, d.calls, d.rank, d.directory, d.top, d.broken)
    BY <2>6 DEF Fields
  <2>. HIDE DEF d4
  <2>8. d5 = Fields(P, x2, x3, x4, x5, d.calls, d.rank, d.directory, d.top, d.broken)
    BY <2>7 DEF Fields
  <2>. HIDE DEF d5
  <2>9. d6 = Fields(P, x2, x3, x4, x5, x6, d.rank, d.directory, d.top, d.broken)
    BY <2>8 DEF Fields
  <2>. HIDE DEF d6
  <2>10. d7 = Fields(P, x2, x3, x4, x5, x6, R, d.directory, d.top, d.broken)
    BY <2>9 DEF Fields
  <2>. HIDE DEF d7
  <2>. QED
    BY <2>3, <2>10 DEF Fields, P, R, x2, x3, x4, x5, x6
<1>. QED
  BY <1>2, <1>4

(* A new number has its own part and no rank.                              *)
LEMMA CreatedStays ==
  ASSUME NEW n \in Nat, NEW d \in Dir(n), NEW uri \in Uris, NEW a \in MaybeAccount,
         NEW c \in MaybeContact
  PROVE  Created(d, uri, a, c) \in Dir(n + 1) /\ Len(d.part) = n
<1>. DEFINE o == n + 1
            P == Append(d.part, o)
            R == Append(d.rank, 0)
            e == [part |-> P, parents |-> Append(d.parents, <<o>>), uri |-> Append(d.uri, uri),
                  account |-> Append(d.account, a), contact |-> Append(d.contact, c),
                  calls |-> Append(d.calls, 0), rank |-> R,
                  directory |-> d.directory, top |-> d.top, broken |-> d.broken]
<1>1. /\ d \in DirType(n) /\ Len(d.top) <= TopSize
      /\ Apart(n, d.part) => d.broken = FALSE /\ Ranks(n, d.rank, d.top)
      /\ d.part \in [1..n -> 1..n] /\ d.parents \in [1..n -> Seq(1..n)]
      /\ d.uri \in [1..n -> Uris]
      /\ d.account \in [1..n -> MaybeAccount] /\ d.contact \in [1..n -> MaybeContact]
      /\ d.calls \in [1..n -> Nat] /\ d.rank \in [1..n -> Nat]
      /\ d.directory \in [Uris -> Seq(1..n)] /\ d.top \in Seq(1..n) /\ d.broken \in BOOLEAN
  BY DirIs
<1>2. Len(d.part) = n /\ o \in 1..o /\ o \in Nat
  BY <1>1, FunIsSeq
<1>4. Created(d, uri, a, c) = e
  BY CreatedIs
<1>5. P \in [1..o -> 1..o] /\ R \in [1..o -> Nat] /\ P[o] = o /\ R[o] = 0
      /\ \A i \in 1..n : P[i] = d.part[i] /\ R[i] = d.rank[i]
  <2>1. d.part \in [1..n -> 1..o]
    BY <1>1
  <2>. DEFINE zero == 0
              p == d.part
              r == d.rank
              own == 1..o
  <2>2. P = Append(p, o) /\ R = Append(r, zero) /\ o = n + 1
    OBVIOUS
  <2>3. o \in own /\ zero \in Nat /\ p \in [1..n -> own] /\ r \in [1..n -> Nat]
    BY <1>1, <1>2, <2>1
  <2>. HIDE DEF P, R, o, zero, p, r, own
  <2>4. Append(p, o) \in [1..(n + 1) -> own] /\ Append(r, zero) \in [1..(n + 1) -> Nat]
    BY <2>3, AppendedFun
  <2>5. p \in Seq(own) /\ Len(p) = n /\ r \in Seq(Nat) /\ Len(r) = n
    BY <2>3, FunIsSeq
  <2>6. Append(p, o)[n + 1] = o /\ \A i \in 1..n : Append(p, o)[i] = p[i]
    BY <2>3, <2>5, AppendedTo
  <2>7. Append(r, zero)[n + 1] = zero /\ \A i \in 1..n : Append(r, zero)[i] = r[i]
    BY <2>3, <2>5, AppendedTo
  <2>. QED
    BY <2>2, <2>4, <2>6, <2>7 DEF zero, p, r, own
<1>6. Append(d.parents, <<o>>) \in [1..o -> Seq(1..o)]
  <2>1. d.parents \in [1..n -> Seq(1..o)]
    BY <1>1, LongerSeqs
  <2>2. <<o>> \in Seq(1..o)
    BY <1>2
  <2>. DEFINE one == <<o>>
  <2>. HIDE DEF one
  <2>3. Append(d.parents, one) \in [1..o -> Seq(1..o)]
    BY <2>1, <2>2, AppendedFun DEF one
  <2>. QED
    BY <2>3 DEF one
<1>7. /\ Append(d.uri, uri) \in [1..o -> Uris]
      /\ Append(d.account, a) \in [1..o -> MaybeAccount]
      /\ Append(d.contact, c) \in [1..o -> MaybeContact]
      /\ Append(d.calls, 0) \in [1..o -> Nat]
  BY <1>1, AppendedFun
<1>8. d.directory \in [Uris -> Seq(1..o)] /\ d.top \in Seq(1..o)
  BY <1>1, LongerSeqs
<1>. HIDE DEF P, R
<1>9. e \in DirType(o)
  <2>. HIDE DEF o
  <2>. QED
    BY <1>1, <1>5, <1>6, <1>7, <1>8 DEF DirType
<1>10. Apart(o, P) => d.broken = FALSE /\ Ranks(o, R, d.top)
  <2>1. SUFFICES ASSUME Apart(o, P)  PROVE d.broken = FALSE /\ Ranks(o, R, d.top)
    OBVIOUS
  <2>2. Apart(n, d.part)
    BY <1>5, <2>1 DEF Apart
  <2>3. \A i \in 1..Len(d.top) : d.top[i] \in 1..n
    BY <1>1
  <2>4. \A i \in 1..Len(d.top) : R[d.top[i]] = i
    BY <1>1, <1>5, <2>2, <2>3 DEF Ranks
  <2>5. ASSUME NEW i \in 1..o, R[i] # 0  PROVE R[i] <= Len(d.top) /\ d.top[R[i]] = i
    <3>1. i \in 1..n /\ R[i] = d.rank[i]
      BY <1>5, <2>5
    <3>. QED
      BY <1>1, <2>2, <2>5, <3>1 DEF Ranks
  <2>. QED
    BY <1>1, <2>2, <2>4, <2>5 DEF Ranks
<1>11. e.part = P /\ e.rank = R /\ e.top = d.top /\ e.broken = d.broken
  OBVIOUS
<1>. HIDE DEF e
<1>. QED
  BY <1>1, <1>2, <1>4, <1>9, <1>10, <1>11 DEF Dir

LEMMA CreateStays ==
  ASSUME NEW n \in Nat, NEW d \in Dir(n), NEW uri \in Uris, NEW a \in MaybeAccount,
         NEW c \in MaybeContact
  PROVE  Create(d, uri, a, c)[1] \in Dir(n + 1)
<1>. DEFINE o == Len(d.part) + 1
            new == Created(d, uri, a, c)
            e == Registered(new, o, uri)
            f == Registered(e, o, Extended(uri, a))
<1>1. n + 1 \in Nat /\ o = n + 1 /\ o \in 1..(n + 1) /\ new \in Dir(n + 1)
  BY CreatedStays
<1>2. Create(d, uri, a, c)[1]
        = IF d.directory[uri] = <<>> /\ ~HasHost(uri) /\ a \notin {None, Ip2ip} THEN f ELSE e
  BY DEF Create
<1>. HIDE DEF o, new
<1>3. e \in Dir(n + 1)
  BY <1>1, RegisteredStays
<1>. HIDE DEF e
<1>4. f \in Dir(n + 1)
  BY <1>1, <1>3, RegisteredStays
<1>. HIDE DEF f
<1>. QED
  BY <1>2, <1>3, <1>4

(* Asking for a number leads to a directory.                               *)
Directories == UNION {Dir(n) : n \in Nat}

LEMMA ChosenStays ==
  ASSUME NEW n \in Nat, NEW found, found.d \in Dir(n), NEW uri \in Uris,
         NEW a \in MaybeAccount, NEW c \in MaybeContact, NEW chosen
  PROVE  Chosen(found, uri, a, c, chosen)[1] \in Directories
<1>. DEFINE d == found.d
            acceptable == First(d.directory[uri], LAMBDA o : Acceptable(d, o, a, c))
            x == Known(d, uri, a, c, acceptable)
<1>1. Chosen(found, uri, a, c, chosen) = IF chosen # 0 THEN <<d, chosen>> ELSE x
  BY DEF Chosen
<1>2. d \in Directories
  BY DEF Directories
<1>. HIDE DEF acceptable, d
<1>3. x = IF acceptable = 0 THEN Create(d, uri, a, c)
          ELSE <<IF c = None THEN d ELSE SetContact(d, acceptable, c), acceptable>>
  BY DEF Known
<1>4. d \in Dir(n) /\ n + 1 \in Nat
  BY DEF d
<1>5. Create(d, uri, a, c)[1] \in Directories
  BY <1>4, CreateStays DEF Directories
<1>6. c # None => SetContact(d, acceptable, c) \in Dir(n)
  BY <1>4, SetContactStays DEF MaybeContact
<1>7. x[1] \in Directories
  BY <1>2, <1>3, <1>5, <1>6 DEF Directories
<1>. HIDE DEF x
<1>. QED
  BY <1>1, <1>2, <1>7

LEMMA GetNumberStays ==
  ASSUME NEW n \in Nat, NEW d \in Dir(n), NEW uri \in Uris, NEW a \in MaybeAccount,
         NEW c \in MaybeContact
  PROVE  GetNumber(d, uri, a, c)[1] \in Directories
<1>. DEFINE found == Candidates(d, uri, a, c)
            chosen == First(found.all, LAMBDA o : o # 0)
<1>1. found.d \in Dir(n)
  BY CandidatesStay
<1>2. GetNumber(d, uri, a, c) = Chosen(found, uri, a, c, chosen)
  BY DEF GetNumber, FromFound
<1>. HIDE DEF found, chosen
<1>. QED
  BY <1>1, <1>2, ChosenStays

LEMMA GetAnyStays ==
  ASSUME NEW n \in Nat, NEW d \in Dir(n), NEW uri \in Uris
  PROVE  GetAny(d, uri)[1] \in Directories
<1>. DEFINE o == Len(d.part) + 1
            new == Created(d, uri, None, None)
            e == Registered(new, o, uri)
<1>1. n + 1 \in Nat /\ o = n + 1 /\ o \in 1..(n + 1) /\ new \in Dir(n + 1)
  BY CreatedStays DEF MaybeAccount, MaybeContact
<1>2. GetAny(d, uri)[1] = IF d.directory[uri] # <<>> THEN d ELSE e
  BY DEF GetAny
<1>. HIDE DEF o, new
<1>3. e \in Dir(n + 1)
  BY <1>1, RegisteredStays
<1>. HIDE DEF e
<1>. QED
  BY <1>1, <1>2, <1>3 DEF Directories

-----------------------------------------------------------------------------
(* The list of popular numbers.                                            *)

LEMMA CallsAre ==
  ASSUME NEW n \in Nat, NEW d \in Dir(n), NEW o \in 1..n
  PROVE  /\ CallsOf(d, o) \in Nat /\ RankOf(d, o) = d.rank[d.part[o]]
         /\ d.part[o] \in 1..n /\ RankOf(d, o) \in Nat
<1>1. d.part \in [1..n -> 1..n] /\ d.calls \in [1..n -> Nat] /\ d.rank \in [1..n -> Nat]
  BY DirIs
<1>2. d.part[o] \in 1..n
  BY <1>1
<1>. QED
  BY <1>1, <1>2 DEF CallsOf, RankOf

(* The slots one number passes end below the first that was called as      *)
(* often.                                                                  *)
LEMMA TargetIs ==
  ASSUME NEW n \in Nat, NEW d \in Dir(n), NEW o \in 1..n, NEW r \in Nat, r > 1, r <= Len(d.top)
  PROVE  TargetSlot(d, o, r) \in 1..r
<1>. DEFINE less(j) == CallsOf(d, d.top[j]) < CallsOf(d, o)
            I == {i \in 1..r : \A j \in i..(r - 1) : less(j)}
            m == Min(I)
<1>1. r \in I
  OBVIOUS
<1>2. I \in SUBSET Nat
  OBVIOUS
<1>3. m \in I /\ \A i \in I : m =< i
  <2>. HIDE DEF I
  <2>. QED
    BY <1>1, <1>2, MinIsMember
<1>. HIDE DEF m
<1>4. m = 1 \/ ~less(m - 1)
  <2>. SUFFICES ASSUME m # 1, less(m - 1)  PROVE FALSE
    OBVIOUS
  <2>. HIDE DEF less
  <2>1. m - 1 \in 1..r /\ \A j \in (m - 1)..(r - 1) : j = m - 1 \/ j \in m..(r - 1)
    BY <1>3
  <2>2. m - 1 \in I
    BY <1>3, <2>1
  <2>. QED
    BY <1>3, <2>2
<1>5. m # 1 => CallsOf(d, d.top[m - 1]) >= CallsOf(d, o)
  <2>. SUFFICES ASSUME m # 1  PROVE CallsOf(d, d.top[m - 1]) >= CallsOf(d, o)
    OBVIOUS
  <2>1. d.top \in Seq(1..n)
    BY DirIs
  <2>0. m - 1 \in 1..Len(d.top)
    <3>1. Len(d.top) \in Nat
      BY <2>1
    <3>. HIDE DEF I
    <3>2. m \in 1..r
      BY <1>3 DEF I
    <3>. QED
      BY <3>1, <3>2
  <2>2. d.top[m - 1] \in 1..n
    BY <2>0, <2>1
  <2>3. CallsOf(d, d.top[m - 1]) \in Nat /\ CallsOf(d, o) \in Nat
    BY <2>2, CallsAre
  <2>. QED
    BY <1>4, <2>3
<1>. QED
  BY <1>3, <1>5 DEF TargetSlot

(* The list and the ranks, over k slots; and what the three changes of the *)
(* list do to both.                                                        *)
AgreeUpTo(n, k, rank, top) ==
  /\ \A i \in 1..k : rank[top[i]] = i
  /\ \A o \in 1..n : rank[o] # 0 => rank[o] <= k /\ top[rank[o]] = o

(* o goes from slot r to slot t.                                           *)
Shifted(n, k, rank, top, o, r, t, T, R) ==
  /\ \A j \in 1..k :
       T[j] = IF j = t THEN o ELSE IF j \in (t + 1)..r THEN top[j - 1] ELSE top[j]
  /\ \A x \in 1..n : R[x] = IF x = o THEN t
                            ELSE IF rank[x] \in t..(r - 1) THEN rank[x] + 1 ELSE rank[x]

LEMMA PassRanks ==
  ASSUME NEW n \in Nat, NEW k \in Nat, NEW rank \in [1..n -> Nat], NEW top \in [1..k -> 1..n],
         AgreeUpTo(n, k, rank, top),
         NEW o \in 1..n, NEW r \in Nat, r = rank[o], r > 1, NEW t \in 1..r,
         NEW T, NEW R, Shifted(n, k, rank, top, o, r, t, T, R)
  PROVE  AgreeUpTo(n, k, R, T)
<1>4. ASSUME NEW j \in 1..k
      PROVE  T[j] = IF j = t THEN o ELSE IF j \in (t + 1)..r THEN top[j - 1] ELSE top[j]
  BY DEF Shifted
<1>5. ASSUME NEW x \in 1..n
      PROVE  R[x] = IF x = o THEN t
                    ELSE IF rank[x] \in t..(r - 1) THEN rank[x] + 1 ELSE rank[x]
  BY DEF Shifted
<1>1. r <= k /\ top[r] = o /\ t \in 1..k
  BY DEF AgreeUpTo
<1>0. (\A i \in 1..k : top[i] \in 1..n) /\ (\A x \in 1..n : rank[x] \in Nat)
  OBVIOUS
<1>2. ASSUME NEW i \in 1..k  PROVE R[T[i]] = i
  <2>1. CASE i = t
    <3>1. T[i] = o
      BY <1>1, <1>4, <2>1
    <3>. QED
      BY <1>5, <2>1, <3>1
  <2>2. CASE i # t /\ i \in (t + 1)..r
    <3>1. i - 1 \in 1..k /\ i - 1 \in t..(r - 1) /\ i - 1 # r /\ (i - 1) + 1 = i
      BY <1>1, <2>2, SMTT(30)
    <3>2. rank[top[i - 1]] = i - 1 /\ top[i - 1] \in 1..n
      BY <1>0, <3>1 DEF AgreeUpTo
    <3>3. T[i] = top[i - 1]
      BY <1>4, <2>2
    <3>4. top[i - 1] # o
      BY <3>1, <3>2
    <3>. QED
      BY <1>5, <3>1, <3>2, <3>3, <3>4
  <2>3. CASE i # t /\ i \notin (t + 1)..r
    <3>1. rank[top[i]] = i /\ top[i] \in 1..n
      BY <1>0 DEF AgreeUpTo
    <3>2. T[i] = top[i]
      BY <1>4, <2>3
    <3>3. i # r /\ i \notin t..(r - 1)
      BY <2>3
    <3>4. top[i] # o
      BY <3>1, <3>3
    <3>. QED
      BY <1>5, <3>1, <3>2, <3>3, <3>4
  <2>. QED
    BY <2>1, <2>2, <2>3
<1>3. ASSUME NEW x \in 1..n, R[x] # 0  PROVE R[x] <= k /\ T[R[x]] = x
  <2>1. CASE x = o
    <3>1. R[x] = t
      BY <1>5, <2>1
    <3>. QED
      BY <1>1, <1>4, <2>1, <3>1
  <2>2. CASE x # o /\ rank[x] \in t..(r - 1)
    <3>1. PICK y \in Nat : y = rank[x]
      BY <1>0
    <3>2. y \in t..(r - 1) /\ R[x] = y + 1 /\ y # 0
      BY <1>5, <2>2, <3>1
    <3>3. y <= k /\ top[y] = x
      BY <3>1, <3>2 DEF AgreeUpTo
    <3>4. PICK z \in 1..k : z = y + 1
      BY <1>1, <3>2
    <3>5. z \in (t + 1)..r /\ z # t /\ z - 1 = y
      BY <3>2, <3>4
    <3>6. T[z] = top[z - 1]
      BY <1>4, <3>5
    <3>. QED
      BY <3>2, <3>3, <3>4, <3>5, <3>6
  <2>3. CASE x # o /\ rank[x] \notin t..(r - 1)
    <3>1. PICK y \in Nat : y = rank[x]
      BY <1>0
    <3>2. R[x] = y /\ y # 0 /\ y \notin t..(r - 1)
      BY <1>3, <1>5, <2>3, <3>1
    <3>3. y <= k /\ top[y] = x
      BY <3>1, <3>2 DEF AgreeUpTo
    <3>4. y # r
      BY <1>1, <2>3, <3>3
    <3>5. y \in 1..k /\ y # t /\ y \notin (t + 1)..r
      <4>1. r - 1 \in Nat /\ t <= r
        OBVIOUS
      <4>. QED
        BY <3>2, <3>3, <3>4, <4>1
    <3>6. T[y] = top[y]
      BY <1>4, <3>5
    <3>. QED
      BY <3>2, <3>3, <3>5, <3>6
  <2>. QED
    BY <2>1, <2>2, <2>3
<1>. QED
  BY <1>2, <1>3 DEF AgreeUpTo

(* o is added after the last slot.                                         *)
AddedAt(n, k, rank, top, o, T, R) ==
  /\ T[k + 1] = o /\ \A j \in 1..k : T[j] = top[j]
  /\ \A x \in 1..n : R[x] = IF x = o THEN k + 1 ELSE rank[x]

LEMMA AppendRanks ==
  ASSUME NEW n \in Nat, NEW k \in Nat, NEW rank \in [1..n -> Nat], NEW top \in [1..k -> 1..n],
         AgreeUpTo(n, k, rank, top), NEW o \in 1..n, rank[o] = 0, NEW T, NEW R,
         AddedAt(n, k, rank, top, o, T, R)
  PROVE  AgreeUpTo(n, k + 1, R, T)
<1>4. /\ T[k + 1] = o /\ \A j \in 1..k : T[j] = top[j]
      /\ \A x \in 1..n : R[x] = IF x = o THEN k + 1 ELSE rank[x]
  BY DEF AddedAt
<1>1. ASSUME NEW i \in 1..k  PROVE top[i] \in 1..n /\ rank[top[i]] = i
  BY DEF AgreeUpTo
<1>2. ASSUME NEW i \in 1..(k + 1)  PROVE R[T[i]] = i
  <2>1. CASE i = k + 1
    BY <1>4, <2>1
  <2>2. CASE i \in 1..k
    <3>1. T[i] = top[i] /\ top[i] \in 1..n /\ rank[top[i]] = i /\ i # 0
      BY <1>4, <1>1, <2>2
    <3>. QED
      BY <1>4, <3>1
  <2>. QED
    BY <1>4, <2>1, <2>2
<1>3. ASSUME NEW x \in 1..n, R[x] # 0  PROVE R[x] <= k + 1 /\ T[R[x]] = x
  <2>1. CASE x = o
    <3>1. R[x] = k + 1
      BY <1>4, <2>1
    <3>. QED
      BY <1>4, <2>1, <3>1
  <2>2. CASE x # o
    <3>1. R[x] = rank[x] /\ rank[x] \in Nat
      BY <1>4, <2>2
    <3>2. rank[x] <= k /\ top[rank[x]] = x
      BY <1>3, <3>1 DEF AgreeUpTo
    <3>3. rank[x] \in 1..k
      BY <1>4, <1>3, <3>1, <3>2
    <3>. QED
      BY <1>4, <3>1, <3>2, <3>3
  <2>. QED
    BY <1>4, <2>1, <2>2
<1>. QED
  BY <1>2, <1>3 DEF AgreeUpTo

(* o takes the place of the last.                                          *)
TakesPlace(n, k, rank, top, o, T, R) ==
  /\ \A j \in 1..k : T[j] = IF j = k THEN o ELSE top[j]
  /\ \A x \in 1..n : R[x] = IF x = o THEN k ELSE IF x = top[k] THEN 0 ELSE rank[x]

LEMMA ReplaceRanks ==
  ASSUME NEW n \in Nat, NEW k \in Nat, NEW rank \in [1..n -> Nat], NEW top \in [1..k -> 1..n],
         AgreeUpTo(n, k, rank, top), NEW o \in 1..n, rank[o] = 0, k > 0, NEW T, NEW R,
         TakesPlace(n, k, rank, top, o, T, R)
  PROVE  AgreeUpTo(n, k, R, T)
<1>4. /\ \A j \in 1..k : T[j] = IF j = k THEN o ELSE top[j]
      /\ \A x \in 1..n : R[x] = IF x = o THEN k ELSE IF x = top[k] THEN 0 ELSE rank[x]
  BY DEF TakesPlace
<1>1. ASSUME NEW i \in 1..k  PROVE top[i] \in 1..n /\ rank[top[i]] = i
  BY DEF AgreeUpTo
<1>0. k \in 1..k
  OBVIOUS
<1>2. ASSUME NEW i \in 1..k  PROVE R[T[i]] = i
  <2>1. CASE i = k
    <3>1. T[i] = o
      BY <1>4, <2>1
    <3>. QED
      BY <1>4, <2>1, <3>1
  <2>2. CASE i # k
    <3>1. T[i] = top[i] /\ top[i] \in 1..n /\ rank[top[i]] = i /\ i # 0
      BY <1>4, <1>1, <2>2
    <3>2. rank[top[k]] = k
      BY <1>4, <1>0, <1>1
    <3>3. top[i] # o /\ top[i] # top[k]
      BY <1>4, <2>2, <3>1, <3>2
    <3>. QED
      BY <1>4, <3>1, <3>3
  <2>. QED
    BY <1>4, <2>1, <2>2
<1>3. ASSUME NEW x \in 1..n, R[x] # 0  PROVE R[x] <= k /\ T[R[x]] = x
  <2>1. CASE x = o
    <3>1. R[x] = k
      BY <1>4, <2>1
    <3>. QED
      BY <1>4, <1>0, <2>1, <3>1
  <2>2. CASE x # o
    <3>1. R[x] = rank[x] /\ x # top[k] /\ rank[x] \in Nat
      BY <1>4, <1>3, <2>2
    <3>2. rank[x] <= k /\ top[rank[x]] = x
      BY <1>3, <3>1 DEF AgreeUpTo
    <3>3. rank[x] \in 1..k /\ rank[x] # k
      BY <1>4, <1>3, <3>1, <3>2
    <3>. QED
      BY <1>4, <3>1, <3>2, <3>3
  <2>. QED
    BY <1>4, <2>1, <2>2
<1>. QED
  BY <1>2, <1>3 DEF AgreeUpTo

LEMMA ListChanged ==
  ASSUME NEW n \in Nat, NEW d \in Dir(n), NEW T \in Seq(1..n), Len(T) <= TopSize,
         NEW R \in [1..n -> Nat], Apart(n, d.part) => Ranks(n, R, T)
  PROVE  [[d EXCEPT !.top = T] EXCEPT !.rank = R] \in Dir(n)
<1>. DEFINE e == [d EXCEPT !.top = T]
            f == [e EXCEPT !.rank = R]
<1>1. e \in DirType(n)
  BY DirIs, FieldChanged
<1>2. f.part = d.part /\ f.top = T /\ f.rank = R /\ f.broken = d.broken
  BY DirIs DEF DirType
<1>. HIDE DEF e
<1>3. f \in DirType(n)
  BY <1>1, FieldChanged
<1>. HIDE DEF f
<1>4. f \in Dir(n)
  BY <1>2, <1>3, DirIs DEF Dir
<1>. QED
  BY <1>4 DEF f, e

LEMMA PassedStays ==
  ASSUME NEW n \in Nat, NEW d \in Dir(n), NEW o \in 1..n, NEW r \in Nat, r = RankOf(d, o),
         r > 1, r <= Len(d.top)
  PROVE  Passed(d, o, r) \in Dir(n)
<1>. DEFINE t == TargetSlot(d, o, r)
            k == Len(d.top)
            T == [j \in DOMAIN d.top |->
                    IF j = t THEN o ELSE IF j \in (t + 1)..r THEN d.top[j - 1] ELSE d.top[j]]
            count(p) == Cardinality({j \in t..(r - 1) : d.part[d.top[j]] = p})
            R == [p \in DOMAIN d.rank |-> IF p = d.part[o] THEN t ELSE d.rank[p] + count(p)]
            e == [[d EXCEPT !.top = T] EXCEPT !.rank = R]
<1>1. /\ d \in DirType(n) /\ d.part \in [1..n -> 1..n] /\ d.rank \in [1..n -> Nat]
      /\ d.top \in Seq(1..n) /\ k <= TopSize
      /\ Apart(n, d.part) => Ranks(n, d.rank, d.top)
  BY DirIs
<1>4. d.top \in [1..k -> 1..n] /\ DOMAIN d.top = 1..k /\ k \in Nat
  <2>. DEFINE top == d.top
  <2>1. top \in Seq(1..n)
    BY <1>1
  <2>. HIDE DEF top
  <2>2. top \in [1..Len(top) -> 1..n] /\ DOMAIN top = 1..Len(top) /\ Len(top) \in Nat
    BY <2>1
  <2>. QED
    BY <2>2 DEF top
<1>2. t \in 1..r /\ t \in Nat /\ r - 1 \in Nat
  BY TargetIs
<1>3. Passed(d, o, r) = e
  <2>1. Passed(d, o, r) = [d EXCEPT
                  !.top  = [j \in DOMAIN @ |->
                              IF j = t THEN o ELSE IF j \in (t + 1)..r THEN @[j - 1] ELSE @[j]],
                  !.rank = [p \in DOMAIN @ |->
                              IF p = d.part[o] THEN t
                              ELSE @[p] + Cardinality({j \in t..(r - 1) : d.part[d.top[j]] = p})]]
    BY DEF Passed
  <2>. QED
    BY <1>1, <2>1 DEF DirType
<1>. HIDE DEF t
<1>5. ASSUME NEW j \in 1..k
      PROVE  (IF j = t THEN o ELSE IF j \in (t + 1)..r THEN d.top[j - 1] ELSE d.top[j]) \in 1..n
  <2>1. j \in (t + 1)..r => j - 1 \in 1..k
    BY <1>2, <1>4
  <2>. QED
    BY <1>4, <2>1
<1>6. T \in [1..k -> 1..n]
  BY <1>4, <1>5
<1>7. T \in Seq(1..n) /\ Len(T) = k
  <2>. HIDE DEF T, k
  <2>. QED
    BY <1>4, <1>6, FunIsSeq
<1>8. ASSUME NEW p  PROVE count(p) \in Nat
  <2>1. IsFiniteSet(t..(r - 1))
    BY <1>2, FS_Interval
  <2>2. IsFiniteSet({j \in t..(r - 1) : d.part[d.top[j]] = p})
    BY <2>1, FS_Subset
  <2>. QED
    BY <2>2, FS_CardinalityType
<1>9. R \in [1..n -> Nat]
  <2>. HIDE DEF count
  <2>1. DOMAIN d.rank = 1..n
    BY <1>1
  <2>2. ASSUME NEW p \in 1..n
        PROVE  (IF p = d.part[o] THEN t ELSE d.rank[p] + count(p)) \in Nat
    <3>1. d.rank[p] \in Nat /\ count(p) \in Nat
      BY <1>1, <1>8
    <3>. QED
      BY <1>2, <3>1
  <2>. QED
    BY <2>1, <2>2
<1>10. ASSUME Apart(n, d.part)  PROVE Ranks(n, R, T)
  <2>1. AgreeUpTo(n, k, d.rank, d.top) /\ d.rank[o] = r
    BY <1>1, <1>10 DEF Ranks, AgreeUpTo, Apart, RankOf
  <2>2. \A j \in 1..k :
          T[j] = IF j = t THEN o ELSE IF j \in (t + 1)..r THEN d.top[j - 1] ELSE d.top[j]
    BY <1>4
  <2>3. ASSUME NEW x \in 1..n, x # o
        PROVE  R[x] = IF d.rank[x] \in t..(r - 1) THEN d.rank[x] + 1 ELSE d.rank[x]
    <3>. DEFINE i == d.rank[x]
                S == {j \in t..(r - 1) : d.part[d.top[j]] = x}
    <3>0. d.part[o] = o
      BY <1>10 DEF Apart
    <3>1. R[x] = i + count(x) /\ count(x) = Cardinality(S)
      <4>. HIDE DEF count
      <4>1. R[x] = i + count(x)
        BY <1>1, <2>3, <3>0
      <4>. QED
        BY <4>1 DEF count
    <3>2. ASSUME NEW j \in t..(r - 1)  PROVE j \in S <=> j = i
      <4>1. j \in 1..k /\ j # 0
        BY <1>2, <1>4
      <4>2. d.top[j] \in 1..n
        BY <1>4, <4>1
      <4>3. d.part[d.top[j]] = d.top[j]
        BY <1>10, <4>2 DEF Apart
      <4>4. d.rank[d.top[j]] = j
        BY <2>1, <4>1 DEF AgreeUpTo
      <4>5. j = d.rank[x] => d.top[j] = x
        BY <2>1, <4>1 DEF AgreeUpTo
      <4>. QED
        BY <4>3, <4>4, <4>5
    <3>3. S \in SUBSET {i} /\ (i \in S <=> i \in t..(r - 1))
      BY <3>2
    <3>4. i \in Nat
      BY <1>1
    <3>. HIDE DEF count, i, S
    <3>5. Cardinality(S) = IF i \in S THEN 1 ELSE 0
      BY <3>3, AtMostOne
    <3>6. R[x] = IF i \in t..(r - 1) THEN i + 1 ELSE i
      BY <3>1, <3>3, <3>4, <3>5
    <3>. QED
      BY <3>6 DEF i
  <2>4. \A x \in 1..n : R[x] = IF x = o THEN t
                               ELSE IF d.rank[x] \in t..(r - 1) THEN d.rank[x] + 1 ELSE d.rank[x]
    <3>1. R[o] = t
      <4>1. d.part[o] = o
        BY <1>10 DEF Apart
      <4>. HIDE DEF count
      <4>. QED
        BY <1>1, <4>1
    <3>. HIDE DEF R
    <3>. QED
      BY <2>3, <3>1
  <2>. HIDE DEF T, R, k
  <2>5. AgreeUpTo(n, k, R, T)
    <3>. DEFINE rank == d.rank
                top == d.top
    <3>1. /\ rank \in [1..n -> Nat] /\ top \in [1..k -> 1..n] /\ AgreeUpTo(n, k, rank, top)
          /\ r = rank[o] /\ k \in Nat /\ t \in 1..r
      BY <1>1, <1>2, <1>4, <2>1
    <3>2. Shifted(n, k, rank, top, o, r, t, T, R)
      BY <2>2, <2>4 DEF Shifted
    <3>. HIDE DEF rank, top
    <3>. QED
      BY <3>1, <3>2, PassRanks
  <2>. QED
    BY <1>7, <2>5 DEF Ranks, AgreeUpTo
<1>. HIDE DEF T, R
<1>11. e \in Dir(n)
  BY <1>1, <1>7, <1>9, <1>10, ListChanged, Zenon
<1>. QED
  BY <1>3, <1>11

(* The other two changes of the list, as Ranked writes them.               *)
AddedLast(d, o) == [d EXCEPT !.top = Append(@, o), !.rank[d.part[o]] = Len(d.top) + 1]

ReplacesLast(d, o) ==
  [d EXCEPT !.top[TopSize] = o,
            !.rank = [@ EXCEPT ![d.part[d.top[TopSize]]] = 0, ![d.part[o]] = TopSize]]

LEMMA AppendedStays ==
  ASSUME NEW n \in Nat, NEW d \in Dir(n), NEW o \in 1..n, RankOf(d, o) = 0, ListOpen(d)
  PROVE  AddedLast(d, o) \in Dir(n)
<1>. DEFINE top == d.top
            k == Len(top)
            T == Append(top, o)
            R == [d.rank EXCEPT ![d.part[o]] = k + 1]
            e == [[d EXCEPT !.top = T] EXCEPT !.rank = R]
<1>1. /\ d \in DirType(n) /\ d.part \in [1..n -> 1..n] /\ d.rank \in [1..n -> Nat]
      /\ top \in Seq(1..n)
      /\ Apart(n, d.part) => Ranks(n, d.rank, top)
  BY DirIs
<1>2. AddedLast(d, o) = e
  BY <1>1 DEF DirType, AddedLast
<1>3. k < TopSize
  BY DEF ListOpen
<1>. HIDE DEF top
<1>4. top \in [1..k -> 1..n] /\ k \in Nat /\ top \in Seq(1..n) /\ Len(top) = k
  BY <1>1, SeqIs
<1>. HIDE DEF k
<1>5. T \in Seq(1..n) /\ Len(T) = k + 1 /\ T[k + 1] = o /\ \A i \in 1..k : T[i] = top[i]
  BY <1>4, AppendedTo
<1>9. d.part[o] \in 1..n /\ k + 1 \in Nat
  <2>1. d.part[o] \in 1..n
    BY <1>1
  <2>. QED
    BY <1>4, <2>1
<1>. HIDE DEF T
<1>6. R \in [1..n -> Nat]
  BY <1>1, <1>9
<1>10. Len(T) <= TopSize
  BY <1>3, <1>4, <1>5
<1>7. ASSUME Apart(n, d.part)  PROVE Ranks(n, R, T)
  <2>. DEFINE rank == d.rank
  <2>0. d.part[o] = o /\ Ranks(n, rank, top)
    BY <1>1, <1>7 DEF Apart
  <2>1. d.part[o] = o /\ AgreeUpTo(n, k, rank, top) /\ rank[o] = 0
    BY <2>0 DEF Ranks, AgreeUpTo, k, RankOf
  <2>2. rank \in [1..n -> Nat] /\ \A x \in 1..n : R[x] = IF x = o THEN k + 1 ELSE rank[x]
    BY <1>1, <2>1
  <2>. HIDE DEF rank, R
  <2>4. AddedAt(n, k, rank, top, o, T, R)
    BY <1>5, <2>2 DEF AddedAt
  <2>3. AgreeUpTo(n, k + 1, R, T)
    BY <1>4, <2>1, <2>2, <2>4, AppendRanks
  <2>. QED
    BY <1>5, <2>3 DEF Ranks, AgreeUpTo
<1>. HIDE DEF R
<1>8. e \in Dir(n)
  BY <1>5, <1>6, <1>7, <1>10, ListChanged, Zenon DEF top
<1>. QED
  BY <1>2, <1>8

LEMMA ReplacedStays ==
  ASSUME NEW n \in Nat, NEW d \in Dir(n), NEW o \in 1..n, RankOf(d, o) = 0, ~ListOpen(d)
  PROVE  ReplacesLast(d, o) \in Dir(n)
<1>. DEFINE top == d.top
            k == Len(top)
            last == top[TopSize]
            T == [top EXCEPT ![TopSize] = o]
            R == [[d.rank EXCEPT ![d.part[last]] = 0] EXCEPT ![d.part[o]] = TopSize]
            e == [[d EXCEPT !.top = T] EXCEPT !.rank = R]
<1>1. /\ d \in DirType(n) /\ d.part \in [1..n -> 1..n] /\ d.rank \in [1..n -> Nat]
      /\ top \in Seq(1..n) /\ k <= TopSize
      /\ Apart(n, d.part) => Ranks(n, d.rank, top)
  BY DirIs
<1>2. ReplacesLast(d, o) = e
  BY <1>1 DEF DirType, ReplacesLast
<1>3. ~ k < TopSize
  BY DEF ListOpen
<1>. HIDE DEF top
<1>4. top \in [1..k -> 1..n] /\ k \in Nat /\ top \in Seq(1..n) /\ Len(top) = k
  BY <1>1, SeqIs
<1>. HIDE DEF k
<1>5. k = TopSize /\ k > 0 /\ k \in 1..k /\ last \in 1..n
  <2>1. k = TopSize /\ k > 0
    BY <1>1, <1>3, <1>4
  <2>. QED
    BY <1>4, <2>1
<1>6. T \in Seq(1..n) /\ Len(T) = k /\ \A i \in 1..k : T[i] = IF i = k THEN o ELSE top[i]
  <2>. DEFINE U == [top EXCEPT ![k] = o]
  <2>1. T = U
    BY <1>5
  <2>. DEFINE own == 1..n
  <2>2. o \in own /\ top \in Seq(own) /\ Len(top) = k /\ k \in Nat
    BY <1>4
  <2>. HIDE DEF T, U, own
  <2>3. /\ [top EXCEPT ![k] = o] \in Seq(own) /\ Len([top EXCEPT ![k] = o]) = k
        /\ \A i \in 1..k : [top EXCEPT ![k] = o][i] = IF i = k THEN o ELSE top[i]
    BY <2>2, ChangedAt
  <2>4. U \in Seq(1..n) /\ Len(U) = k /\ \A i \in 1..k : U[i] = IF i = k THEN o ELSE top[i]
    BY <2>3 DEF U, own
  <2>. QED
    BY <2>1, <2>4
<1>. HIDE DEF T, last
<1>7. R \in [1..n -> Nat] /\ Len(T) <= TopSize
  <2>1. TopSize \in Nat /\ Len(T) <= TopSize
    BY <1>5, <1>6
  <2>. QED
    BY <1>1, <2>1
<1>8. ASSUME Apart(n, d.part)  PROVE Ranks(n, R, T)
  <2>. DEFINE rank == d.rank
  <2>0. d.part[o] = o /\ d.part[last] = last /\ Ranks(n, rank, top)
    BY <1>1, <1>5, <1>8 DEF Apart
  <2>1. d.part[o] = o /\ d.part[last] = last /\ AgreeUpTo(n, k, rank, top) /\ rank[o] = 0
    BY <2>0 DEF Ranks, AgreeUpTo, k, RankOf
  <2>2. /\ rank \in [1..n -> Nat] /\ last = top[k]
        /\ \A x \in 1..n : R[x] = IF x = o THEN k ELSE IF x = last THEN 0 ELSE rank[x]
    BY <1>1, <1>5, <2>1 DEF last
  <2>. HIDE DEF rank, R
  <2>4. TakesPlace(n, k, rank, top, o, T, R)
    BY <1>6, <2>2 DEF TakesPlace
  <2>3. AgreeUpTo(n, k, R, T)
    BY <1>4, <1>5, <2>1, <2>2, <2>4, ReplaceRanks
  <2>. QED
    BY <1>6, <2>3 DEF Ranks, AgreeUpTo
<1>. HIDE DEF R
<1>9. e \in Dir(n)
  BY <1>6, <1>7, <1>8, ListChanged, Zenon DEF top
<1>. QED
  BY <1>2, <1>9

LEMMA RankedStays ==
  ASSUME NEW n \in Nat, NEW d \in Dir(n), NEW o \in 1..n
  PROVE  Ranked(d, o) \in Dir(n)
<1>. DEFINE r == RankOf(d, o)
            k == Len(d.top)
            broken == [d EXCEPT !.broken = TRUE]
<1>1. /\ d \in DirType(n) /\ d.top \in Seq(1..n) /\ k <= TopSize
      /\ Apart(n, d.part) => d.broken = FALSE /\ Ranks(n, d.rank, d.top)
  BY DirIs
<1>2. k \in Nat /\ r \in Nat
  <2>. DEFINE top == d.top
  <2>. HIDE DEF top
  <2>1. Len(top) \in Nat
    BY <1>1 DEF top
  <2>. QED
    BY <2>1, CallsAre DEF top
<1>3. CASE d.broken \/ OutOfRange(d, o, r)
  <2>1. Ranked(d, o) = broken
    BY <1>3 DEF Ranked
  <2>2. ~Apart(n, d.part)
    <3>. SUFFICES ASSUME Apart(n, d.part)  PROVE FALSE
      OBVIOUS
    <3>1. OutOfRange(d, o, r) /\ r = d.rank[o]
      BY <1>1, <1>3 DEF Apart, RankOf
    <3>2. r # 0 => r <= k
      BY <1>1, <3>1 DEF Ranks
    <3>3. r <= k
      BY <1>2, <3>2
    <3>. HIDE DEF r, k
    <3>4. r > k + 1 \/ r = k + 1
      BY <3>1 DEF OutOfRange, k
    <3>. QED
      BY <1>2, <3>3, <3>4
  <2>3. broken \in DirType(n) /\ broken.part = d.part /\ broken.top = d.top
    BY <1>1, FieldChanged DEF DirType
  <2>. HIDE DEF broken
  <2>. QED
    BY <1>1, <2>1, <2>2, <2>3 DEF Dir
<1>4. CASE ~(d.broken \/ OutOfRange(d, o, r))
  <2>1. CASE r > 1 /\ CallsOf(d, d.top[r - 1]) < CallsOf(d, o)
    <3>1. Ranked(d, o) = Passed(d, o, r)
      BY <1>4, <2>1 DEF Ranked
    <3>2. r <= k
      <4>. SUFFICES ASSUME r > k  PROVE FALSE
        BY <1>2
      <4>1. ~(r > k + 1) /\ ~(k > 0 /\ r = k + 1 /\ CallsOf(d, d.top[k]) < CallsOf(d, o))
        BY <1>4 DEF OutOfRange
      <4>. HIDE DEF r, k
      <4>2. r = k + 1 /\ r - 1 = k /\ k > 0
        BY <1>2, <2>1, <4>1
      <4>. QED
        BY <2>1, <4>1, <4>2
    <3>3. Passed(d, o, r) \in Dir(n)
      BY <1>2, <2>1, <3>2, PassedStays
    <3>. QED
      BY <3>1, <3>3
  <2>2. CASE ~(r > 1 /\ CallsOf(d, d.top[r - 1]) < CallsOf(d, o)) /\ r = 0 /\ ListOpen(d)
    <3>1. Ranked(d, o) = AddedLast(d, o)
      BY <1>4, <2>2 DEF Ranked, AddedLast
    <3>. QED
      BY <2>2, <3>1, AppendedStays
  <2>3. CASE /\ ~(r > 1 /\ CallsOf(d, d.top[r - 1]) < CallsOf(d, o)) /\ r = 0 /\ ~ListOpen(d)
             /\ CallsOf(d, d.top[TopSize]) < CallsOf(d, o)
    <3>1. Ranked(d, o) = ReplacesLast(d, o)
      BY <1>4, <2>3 DEF Ranked, ReplacesLast
    <3>. QED
      BY <2>3, <3>1, ReplacedStays
  <2>4. CASE /\ ~(r > 1 /\ CallsOf(d, d.top[r - 1]) < CallsOf(d, o))
             /\ ~(r = 0 /\ ListOpen(d))
             /\ ~(r = 0 /\ ~ListOpen(d) /\ CallsOf(d, d.top[TopSize]) < CallsOf(d, o))
    <3>1. Ranked(d, o) = d
      BY <1>4, <2>4 DEF Ranked
    <3>. QED
      BY <3>1
  <2>. QED
    BY <2>1, <2>2, <2>3, <2>4
<1>. QED
  BY <1>3, <1>4

LEMMA RankedInTurn ==
  ASSUME NEW n \in Nat, NEW d \in Dir(n), NEW q \in Seq(1..n)
  PROVE  FoldLeft(Ranked, d, q) \in Dir(n)
<1>. DEFINE N == Len(q)
            D == Dir(n)
            base == d
            Step(x, y) == Ranked(x, y)
            step == [i \in 1..N |-> [x \in D |-> Step(x, q[i])]]
            Folds(g) == g = [r \in SUBSET (DOMAIN q) |->
                               IF r = {} THEN base ELSE Step(g[r \ {Max(r)}], q[Max(r)])]
            f == CHOOSE g : Folds(g)
<1>1. N \in Nat /\ DOMAIN q = 1..N /\ \A i \in 1..N : q[i] \in 1..n
  OBVIOUS
<1>2. FoldLeft(Ranked, d, q) = f[DOMAIN q]
  BY DEF FoldLeft, MapThenFoldSet
<1>3. base \in D
  OBVIOUS
<1>4. ASSUME NEW x \in D, NEW y \in 1..n  PROVE Step(x, y) \in D
  BY RankedStays
<1>. HIDE DEF D, base, Step
<1>5. step \in [1..N -> [D -> D]]
  BY <1>1, <1>4
<1>6. Folds(f)
  <2>1. PICK g \in [SUBSET (1..N) -> D] : IsFold(g, N, base, step)
    <3>. HIDE DEF N, step
    <3>. QED
      BY <1>1, <1>3, <1>5, FoldExists
  <2>2. \A r \in SUBSET (1..N) : r # {} => Max(r) \in 1..N /\ g[r \ {Max(r)}] \in D
    BY <1>1, MaxIsMember
  <2>3. \A r \in SUBSET (1..N) : r # {} =>
          step[Max(r)][g[r \ {Max(r)}]] = Step(g[r \ {Max(r)}], q[Max(r)])
    BY <1>1, <2>2
  <2>4. Folds(g)
    <3>. HIDE DEF step
    <3>. QED
      BY <1>1, <2>1, <2>3, Zenon DEF IsFold
  <2>. HIDE DEF Folds
  <2>. QED
    BY <2>4
<1>7. \A r \in SUBSET (1..N) : f[r] = IF r = {} THEN base ELSE Step(f[r \ {Max(r)}], q[Max(r)])
  <2>. HIDE DEF f
  <2>. QED
    BY <1>1, <1>6, Zenon
<1>. HIDE DEF f, step, Folds
<1>8. f[1..0] \in D
  <2>1. 1..0 = {} /\ 1..0 \in SUBSET (1..N)
    OBVIOUS
  <2>. QED
    BY <1>3, <1>7, <2>1
<1>9. ASSUME NEW k \in 1..N, f[1..(k - 1)] \in D  PROVE f[1..k] \in D
  <2>1. /\ 1..k \in SUBSET (1..N) /\ 1..k # {} /\ Max(1..k) = k
        /\ (1..k) \ {k} = 1..(k - 1)
    BY <1>1, UpTo
  <2>2. f[1..k] = Step(f[1..(k - 1)], q[k])
    BY <1>7, <2>1
  <2>. QED
    BY <1>1, <1>4, <1>9, <2>2
<1>10. f[1..N] \in D
  BY <1>1, <1>8, <1>9, FoldValues
<1>. QED
  BY <1>1, <1>2, <1>10 DEF D

LEMMA CallAddedStays ==
  ASSUME NEW n \in Nat, NEW d \in Dir(n), NEW o \in 1..n
  PROVE  CallAdded(d, o) \in Dir(n)
<1>. DEFINE x == [d.calls EXCEPT ![d.part[o]] = d.calls[d.part[o]] + 1]
            e == [d EXCEPT !.calls = x]
            q == e.parents[e.part[o]]
<1>1. /\ d \in DirType(n) /\ d.calls \in [1..n -> Nat]
      /\ d.part \in [1..n -> 1..n] /\ d.parents \in [1..n -> Seq(1..n)]
  BY DirIs
<1>2. CallAdded(d, o) = FoldLeft(Ranked, e, q)
  <2>1. [d EXCEPT !.calls[d.part[o]] = @ + 1] = e
    BY <1>1 DEF DirType
  <2>. QED
    BY <2>1 DEF CallAdded
<1>3. x \in [1..n -> Nat]
  <2>. DEFINE calls == d.calls
              p == d.part[o]
  <2>1. calls \in [1..n -> Nat] /\ p \in 1..n
    BY <1>1
  <2>. HIDE DEF calls, p
  <2>2. [calls EXCEPT ![p] = calls[p] + 1] \in [1..n -> Nat]
    BY <2>1
  <2>. QED
    BY <2>2 DEF calls, p
<1>4. e.part = d.part /\ e.rank = d.rank /\ e.top = d.top /\ e.broken = d.broken
      /\ e.parents = d.parents
  BY <1>1 DEF DirType
<1>5. q \in Seq(1..n)
  <2>. HIDE DEF e
  <2>. QED
    BY <1>1, <1>4
<1>. HIDE DEF x
<1>6. e \in DirType(n)
  BY <1>1, <1>3, FieldChanged
<1>. HIDE DEF e
<1>7. e \in Dir(n)
  BY <1>4, <1>6, DirIs DEF Dir
<1>. HIDE DEF q
<1>. QED
  BY <1>2, <1>5, <1>7, RankedInTurn

-----------------------------------------------------------------------------
LEMMA InitDirectory == DirectoryInit => dir \in Directories
<1>. DEFINE none == [x \in Uris |-> <<>>]
            d == Fields(<<>>, <<>>, <<>>, <<>>, <<>>, <<>>, <<>>, none, <<>>, FALSE)
<1>1. SUFFICES d \in Dir(0)
  BY DEF DirectoryInit, Directories, Fields
<1>2. \A S : <<>> \in [1..0 -> S]
  OBVIOUS
<1>3. none \in [Uris -> Seq(1..0)] /\ <<>> \in Seq(1..0)
  OBVIOUS
<1>. HIDE DEF none
<1>4. d \in DirType(0)
  BY <1>2, <1>3 DEF DirType, Fields
<1>5. d.top = <<>> /\ d.broken = FALSE /\ d.rank = <<>> /\ d.part = <<>>
  BY DEF Fields
<1>6. Ranks(0, <<>>, <<>>) /\ Len(<<>>) <= TopSize
  BY DEF Ranks
<1>. HIDE DEF d
<1>. QED
  BY <1>4, <1>5, <1>6 DEF Dir

LEMMA NextDirectory == dir \in Directories /\ [DirectoryNext]_dir => dir' \in Directories
<1>. SUFFICES ASSUME dir \in Directories, [DirectoryNext]_dir  PROVE dir' \in Directories
  OBVIOUS
<1>1. PICK n \in Nat : dir \in Dir(n)
  BY DEF Directories
<1>2. ASSUME NEW q \in Asked, Get(q[1], q[2], q[3])  PROVE dir' \in Directories
  <2>1. q[1] \in Uris /\ q[2] \in MaybeAccount /\ q[3] \in MaybeContact
    BY DEF Asked, MaybeAccount, MaybeContact
  <2>2. dir' = GetNumber(dir, q[1], q[2], q[3])[1]
    BY <1>2 DEF Get
  <2>. QED
    BY <1>1, <2>1, <2>2, GetNumberStays
<1>3. ASSUME NEW uri \in Uris, GetPlain(uri)  PROVE dir' \in Directories
  <2>1. dir' = GetAny(dir, uri)[1]
    BY <1>3 DEF GetPlain
  <2>. QED
    BY <1>1, <2>1, GetAnyStays
<1>4. ASSUME NEW o \in DOMAIN dir.part, AddCall(o)  PROVE dir' \in Directories
  <2>1. dir.part \in [1..n -> 1..n]
    BY <1>1, DirIs
  <2>2. o \in 1..n
    BY <2>1
  <2>3. dir' = CallAdded(dir, o)
    BY <1>4, Zenon DEF AddCall
  <2>. QED
    BY <1>1, <2>2, <2>3, CallAddedStays DEF Directories
<1>. QED
  BY <1>2, <1>3, <1>4 DEF DirectoryNext

LEMMA DirectoryAgrees == dir \in Directories => RanksAgree
<1>. SUFFICES ASSUME dir \in Directories  PROVE RanksAgree
  OBVIOUS
<1>1. PICK n \in Nat : dir \in Dir(n)
  BY DEF Directories
<1>2. /\ dir.part \in [1..n -> 1..n] /\ dir.top \in Seq(1..n)
      /\ Apart(n, dir.part) => dir.broken = FALSE /\ Ranks(n, dir.rank, dir.top)
  BY <1>1, DirIs
<1>3. Objects = 1..n
  BY <1>2 DEF Objects
<1>4. CASE ~Apart(n, dir.part)
  BY <1>3, <1>4 DEF RanksAgree, Merged, Apart
<1>5. CASE Apart(n, dir.part)
  <2>1. ASSUME NEW o \in 1..n  PROVE RankOf(dir, o) = dir.rank[o]
    BY <1>5 DEF RankOf, Apart
  <2>2. DOMAIN dir.top = 1..Len(dir.top) /\ \A i \in 1..Len(dir.top) : dir.top[i] \in 1..n
    <3>. DEFINE top == dir.top
    <3>1. top \in Seq(1..n)
      BY <1>2
    <3>. HIDE DEF top
    <3>2. DOMAIN top = 1..Len(top) /\ \A i \in 1..Len(top) : top[i] \in 1..n
      BY <3>1, SeqIs
    <3>. QED
      BY <3>2 DEF top
  <2>3. \A i \in DOMAIN dir.top : RankOf(dir, dir.top[i]) = i
    BY <1>2, <1>5, <2>1, <2>2 DEF Ranks
  <2>4. \A o \in Objects : RankOf(dir, o) # 0 => dir.top[RankOf(dir, o)] = o
    BY <1>2, <1>3, <1>5, <2>1 DEF Ranks
  <2>. QED
    BY <1>2, <1>5, <2>3, <2>4 DEF RanksAgree
<1>. QED
  BY <1>4, <1>5

(* As long as nothing was merged, the list of popular numbers and the rank *)
(* each number remembers say the same (slotCallAdded).                     *)
THEOREM RanksCorrect == DirectorySpec => []RanksAgree
<1>1. DirectoryInit => dir \in Directories
  BY InitDirectory
<1>2. dir \in Directories /\ [DirectoryNext]_dir => (dir \in Directories)'
  BY NextDirectory
<1>3. dir \in Directories => RanksAgree
  BY DirectoryAgrees
<1>. QED
  BY <1>1, <1>2, <1>3, PTL DEF DirectorySpec

(* The first candidate that was found.                                     *)
LEMMA FirstOfThree ==
  ASSUME NEW x \in Nat, NEW y \in Nat, NEW z \in Nat
  PROVE  First(<<x, y, z>>, LAMBDA o : o # 0)
           = IF x # 0 THEN x ELSE IF y # 0 THEN y ELSE z
<1>. DEFINE q == <<x, y, z>>
            I == {i \in 1..Len(q) : q[i] # 0}
            at == IF I # {} THEN Min(I) ELSE 0
<1>1. First(q, LAMBDA o : o # 0) = IF at = 0 THEN 0 ELSE q[at]
  BY DEF First, SelectInSeq
<1>2. Len(q) = 3 /\ q[1] = x /\ q[2] = y /\ q[3] = z
  OBVIOUS
<1>3. \A i : i \in I <=> \/ i = 1 /\ x # 0
                         \/ i = 2 /\ y # 0
                         \/ i = 3 /\ z # 0
  BY <1>2
<1>4. I \in SUBSET Nat
  OBVIOUS
<1>. HIDE DEF I, q
<1>5. I # {} => Min(I) \in I /\ \A j \in I : Min(I) <= j
  BY <1>4, MinIsMember
<1>. DEFINE m == Min(I)
<1>. HIDE DEF m
<1>6. I # {} => m \in I /\ \A j \in I : m <= j
  BY <1>5 DEF m
<1>7. at = IF I # {} THEN m ELSE 0
  BY DEF m
<1>. HIDE DEF at
<1>8. at = IF x # 0 THEN 1 ELSE IF y # 0 THEN 2 ELSE IF z # 0 THEN 3 ELSE 0
  BY <1>3, <1>6, <1>7, SMTT(30)
<1>. QED
  BY <1>1, <1>2, <1>8 DEF q

Accepted(d, q, a, c) == {i \in 1..Len(q) : Acceptable(d, q[i], a, c)}

LEMMA GetNumberIs ==
  ASSUME NEW n \in Nat, NEW d \in Dir(n), NEW uri \in Uris, NEW a \in MaybeAccount,
         NEW c \in MaybeContact,
         NEW one, one = FillDetails(d, d.directory[uri], uri, a, c),
         NEW two, two = Longer(one, uri, a, c),
         NEW three, three = Shorter(two[1], uri, a),
         NEW e, e = IF three = 0 THEN two[1]
                    ELSE JoinShorter(two[1], three, IF one[2] # 0 THEN one[2] ELSE two[2], c)
  PROVE  /\ one \in Dir(n) \X (0..n) /\ two \in Dir(n) \X (0..n) /\ three \in 0..n /\ e \in Dir(n)
         /\ GetNumber(d, uri, a, c)
              = IF two[2] # 0 THEN <<e, two[2]>> ELSE IF one[2] # 0 THEN <<e, one[2]>>
                ELSE IF three # 0 THEN <<e, three>>
                ELSE Known(e, uri, a, c, At(e.directory[uri], Accepted(e, e.directory[uri], a, c)))
<1>0. d.directory[uri] \in Seq(1..n)
  BY WrapIs
<1>1. one \in Dir(n) \X (0..n)
  BY <1>0, FillDetailsStays
<1>2. two \in Dir(n) \X (0..n)
  BY <1>1, LongerStays
<1>3. three \in 0..n
  BY <1>2, ShorterIs
<1>4. e \in Dir(n)
  <2>1. three # 0 => JoinShorter(two[1], three, IF one[2] # 0 THEN one[2] ELSE two[2], c) \in Dir(n)
    <3>1. (IF one[2] # 0 THEN one[2] ELSE two[2]) \in 0..n /\ two[1] \in Dir(n)
      BY <1>1, <1>2
    <3>. QED
      BY <1>3, <3>1, JoinShorterStays
  <2>. QED
    BY <1>2, <2>1
<1>. DEFINE found == [d |-> e, all |-> <<two[2], one[2], three>>]
<1>5. Candidates(d, uri, a, c) = found
  <2>1. Candidates(d, uri, a, c) = Joined(one[2], two, three, c)
    BY DEF Candidates, FoundFirst, Together
  <2>. QED
    BY <2>1 DEF Joined
<1>. DEFINE chosen == First(<<two[2], one[2], three>>, LAMBDA o : o # 0)
<1>6. chosen = IF two[2] # 0 THEN two[2] ELSE IF one[2] # 0 THEN one[2] ELSE three
  <2>1. two[2] \in Nat /\ one[2] \in Nat /\ three \in Nat
    BY <1>1, <1>2, <1>3
  <2>. QED
    BY <2>1, FirstOfThree
<1>7. GetNumber(d, uri, a, c) = Chosen(found, uri, a, c, chosen)
  BY <1>5 DEF GetNumber, FromFound
<1>8. Chosen(found, uri, a, c, chosen)
        = IF chosen # 0 THEN <<e, chosen>>
          ELSE Known(e, uri, a, c, First(e.directory[uri], LAMBDA o : Acceptable(e, o, a, c)))
  BY DEF Chosen
<1>9. First(e.directory[uri], LAMBDA o : Acceptable(e, o, a, c))
        = At(e.directory[uri], Accepted(e, e.directory[uri], a, c))
  <2>. DEFINE q == e.directory[uri]
              I == Accepted(e, q, a, c)
              at == IF I # {} THEN Min(I) ELSE 0
  <2>1. First(q, LAMBDA o : Acceptable(e, o, a, c)) = IF at = 0 THEN 0 ELSE q[at]
    BY DEF First, SelectInSeq, Accepted
  <2>2. I \in SUBSET (1..Len(q)) /\ I \in SUBSET Nat
    BY DEF Accepted
  <2>3. I # {} => Min(I) \in 1..Len(q)
    <3>. HIDE DEF I, q
    <3>. QED
      BY <2>2, MinIsMember
  <2>4. (IF at = 0 THEN 0 ELSE q[at]) = At(q, I)
    <3>. HIDE DEF I, q
    <3>. QED
      BY <2>3 DEF At
  <2>. QED
    BY <2>1, <2>4, ZenonT(30)
<1>. HIDE DEF chosen, found
<1>. QED
  BY <1>1, <1>2, <1>3, <1>4, <1>6, <1>7, <1>8, <1>9

(* Going over numbers that need nothing changes nothing and stops at the   *)
(* first that is confirmed.                                                *)
Settled(d, q, l, uri, a, c) ==
  /\ \A j \in 1..l : Fill(d, q[j], uri, a, c) = d
  /\ l < Len(q) => l # 0 /\ Confirmed(d, q[l], a, c)

LEMMA Refilled ==
  ASSUME NEW n \in Nat, NEW d \in Dir(n), NEW uri, NEW a \in MaybeAccount,
         NEW c \in MaybeContact, NEW q \in Seq(1..n), NEW l \in 0..Len(q),
         Settled(d, q, l, uri, a, c)
  PROVE  \/ FillDetails(d, q, uri, a, c) = <<d, 0>> /\ l = Len(q)
            /\ \A j \in 1..l : ~Confirmed(d, q[j], a, c)
         \/ \E j \in 1..l : Confirmed(d, q[j], a, c) /\ FillDetails(d, q, uri, a, c) = <<d, q[j]>>
<1>0. PICK f \in [0..Len(q) -> Dir(n) \X (0..n)] : Rounds(f, d, q, uri, a, c)
  BY FillRounds
<1>1. /\ f[0] = <<d, 0>> /\ f[Len(q)] = FillDetails(d, q, uri, a, c)
      /\ \A k \in 1..Len(q) : f[k] = Check(f[k - 1], q[k], uri, a, c)
  BY <1>0 DEF Rounds
<1>. DEFINE N == Len(q)
            None0(k) == f[k] = <<d, 0>> /\ k <= l /\ \A j \in 1..k : ~Confirmed(d, q[j], a, c)
            Some(k) == \E j \in 1..l : Confirmed(d, q[j], a, c) /\ f[k] = <<d, q[j]>>
            S == {k \in Nat : k <= N => None0(k) \/ Some(k)}
<1>2. N \in Nat /\ \A j \in 1..N : q[j] \in 1..n
  OBVIOUS
<1>3. 0 \in S
  BY <1>1
<1>4. \A k \in Nat : k \in S => k + 1 \in S
  <2>. SUFFICES ASSUME NEW k \in Nat, k \in S, k + 1 <= N
                PROVE  None0(k + 1) \/ Some(k + 1)
    <3>. HIDE DEF None0, Some
    <3>. QED
      OBVIOUS
  <2>0. k + 1 \in 1..N /\ k + 1 - 1 = k /\ (None0(k) \/ Some(k)) /\ q[k + 1] \in 1..n
    BY <1>2
  <2>1. f[k + 1] = Check(f[k], q[k + 1], uri, a, c)
    BY <1>1, <2>0
  <2>2. CASE Some(k)
    <3>1. PICK j \in 1..l : Confirmed(d, q[j], a, c) /\ f[k] = <<d, q[j]>>
      BY <2>2
    <3>2. q[j] \in 1..n
      BY <1>2
    <3>3. f[k + 1] = f[k]
      BY <2>1, <3>1, <3>2 DEF Check
    <3>. QED
      BY <3>1, <3>3
  <2>3. CASE None0(k)
    <3>1. k + 1 \in 1..l
      <4>1. k # l
        <5>. SUFFICES ASSUME k = l  PROVE FALSE
          OBVIOUS
        <5>1. l # 0 /\ Confirmed(d, q[l], a, c) /\ l \in 1..k
          BY <2>0 DEF Settled
        <5>. QED
          BY <2>3, <5>1
      <4>. QED
        BY <2>0, <2>3, <4>1
    <3>2. Fill(d, q[k + 1], uri, a, c) = d
      BY <3>1 DEF Settled
    <3>3. f[k + 1] = <<d, IF Confirmed(d, q[k + 1], a, c) THEN q[k + 1] ELSE 0>>
      BY <2>1, <2>3, <3>2 DEF Check
    <3>4. CASE Confirmed(d, q[k + 1], a, c)
      BY <3>1, <3>3, <3>4
    <3>5. CASE ~Confirmed(d, q[k + 1], a, c)
      BY <2>3, <3>1, <3>3, <3>5
    <3>. QED
      BY <3>4, <3>5
  <2>. QED
    BY <2>0, <2>2, <2>3
<1>5. None0(N) \/ Some(N)
  <2>. HIDE DEF None0, Some
  <2>1. Nat \subseteq S
    <3>. HIDE DEF S
    <3>. QED
      BY <1>3, <1>4, Induction
  <2>. QED
    BY <1>2, <2>1
<1>. QED
  BY <1>1, <1>2, <1>5

(* A number is asked for without a contact: once every number of the URI   *)
(* has an account, there is nothing left to attach.                        *)
HaveAccounts(d, uri, a) ==
  \A i \in 1..Len(d.directory[uri]) : a = None \/ AccountOf(d, d.directory[uri][i]) # None

LEMMA FillWithout ==
  ASSUME NEW d, NEW o, NEW uri, NEW a
  PROVE  /\ Fill(d, o, uri, a, None)
               = IF a # None /\ AccountOf(d, o) = None THEN AttachAccount(d, o, a) ELSE d
         /\ ~Confirmed(d, o, a, None)
  BY DEF Fill, Confirmed

LEMMA NothingToAttach ==
  ASSUME NEW n \in Nat, NEW d \in Dir(n), NEW uri \in Uris, NEW a \in MaybeAccount,
         HaveAccounts(d, uri, a)
  PROVE  FillDetails(d, d.directory[uri], uri, a, None) = <<d, 0>>
<1>. DEFINE q == d.directory[uri]
            l == Len(q)
<1>1. q \in Seq(1..n) /\ l \in 0..Len(q) /\ ~(l < Len(q))
  BY WrapIs
<1>2. \A j \in 1..l : Fill(d, q[j], uri, a, None) = d
  BY FillWithout DEF HaveAccounts
<1>3. None \in MaybeContact
  BY DEF MaybeContact
<1>4. \A j \in 1..l : ~Confirmed(d, q[j], a, None)
  BY FillWithout
<1>. HIDE DEF q, l
<1>5. \/ FillDetails(d, q, uri, a, None) = <<d, 0>>
      \/ \E j \in 1..l : Confirmed(d, q[j], a, None)
  <2>1. Settled(d, q, l, uri, a, None)
    BY <1>1, <1>2 DEF Settled
  <2>. QED
    BY <1>1, <1>3, <2>1, Refilled
<1>. QED
  BY <1>4, <1>5 DEF q

LEMMA AllAttached ==
  ASSUME NEW n \in Nat, NEW d \in Dir(n), NEW uri \in Uris, NEW a \in MaybeAccount
  PROVE  LET r == FillDetails(d, d.directory[uri], uri, a, None)
         IN  r[1] \in Dir(n) /\ r[2] = 0 /\ HaveAccounts(r[1], uri, a)
<1>0. CASE a = None
  <2>1. HaveAccounts(d, uri, a)
    BY <1>0 DEF HaveAccounts
  <2>. QED
    BY <2>1, NothingToAttach
<1>. DEFINE q == d.directory[uri]
            N == Len(q)
<1>1. q \in Seq(1..n) /\ None \in MaybeContact /\ N \in Nat /\ \A j \in 1..N : q[j] \in 1..n
  BY WrapIs DEF MaybeContact
<1>2. CASE a # None
  <2>0. a \in Accounts
    BY <1>2 DEF MaybeAccount
  <2>. HIDE DEF q
  <2>1. PICK f \in [0..Len(q) -> Dir(n) \X (0..n)] : Rounds(f, d, q, uri, a, None)
    BY <1>1, FillRounds
  <2>2. /\ f[0] = <<d, 0>> /\ f[N] = FillDetails(d, q, uri, a, None)
        /\ \A k \in 1..N : f[k] = Check(f[k - 1], q[k], uri, a, None)
    BY <2>1 DEF Rounds
  <2>. DEFINE e(k) == f[k][1]
              w(k) == e(k).directory[uri]
              Attached(k) == \A j \in 1..k : AccountOf(e(k), q[j]) # None
              Known0(k) == \A i \in 1..Len(w(k)) : \/ \E j \in 1..N : w(k)[i] = q[j]
                                                   \/ AccountOf(e(k), w(k)[i]) # None
              P(k) == f[k][2] = 0 /\ Attached(k) /\ Known0(k)
              S == {k \in Nat : k <= N => P(k)}
  <2>3. 0 \in S
    <3>1. e(0) = d /\ f[0][2] = 0
      BY <2>2
    <3>. QED
      BY <3>1 DEF q
  <2>4. ASSUME NEW k \in Nat, k + 1 <= N, P(k)  PROVE P(k + 1)
    <3>. DEFINE g == e(k)
                o == q[k + 1]
                h == Fill(g, o, uri, a, None)
    <3>1. k + 1 \in 1..N /\ k + 1 - 1 = k /\ k \in 0..N /\ k + 1 \in 0..N
      BY <1>1, <2>4
    <3>2. g \in Dir(n) /\ o \in 1..n
      BY <1>1, <2>1, <3>1
    <3>3. f[k + 1] = <<h, 0>>
      <4>1. f[k + 1] = Check(f[k], o, uri, a, None) /\ f[k][2] = 0
        BY <2>2, <2>4, <3>1
      <4>2. ~Confirmed(h, o, a, None)
        BY FillWithout
      <4>. QED
        BY <4>1, <4>2 DEF Check
    <3>4. e(k + 1) = h /\ f[k + 1][2] = 0
      BY <3>3
    <3>5. h = IF AccountOf(g, o) = None THEN AttachAccount(g, o, a) ELSE g
      BY <1>2, FillWithout
    <3>. HIDE DEF h
    <3>6. /\ h \in Dir(n) /\ AccountOf(h, o) # None
          /\ \A x \in 1..n : AccountOf(g, x) # None => AccountOf(h, x) # None
          /\ h.directory[uri] \in {g.directory[uri], Append(g.directory[uri], o)}
      <4>. HIDE DEF g, o
      <4>. QED
        BY <2>0, <3>2, <3>5, AttachIs
    <3>7. Attached(k + 1)
      <4>. SUFFICES ASSUME NEW j \in 1..(k + 1)  PROVE AccountOf(h, q[j]) # None
        BY <3>4
      <4>1. CASE j = k + 1
        BY <3>6, <4>1
      <4>2. CASE j # k + 1
        <5>1. j \in 1..k /\ q[j] \in 1..n
          BY <1>1, <3>1, <4>2
        <5>2. AccountOf(g, q[j]) # None
          BY <2>4, <5>1
        <5>. QED
          BY <3>6, <5>1, <5>2
      <4>. QED
        BY <4>1, <4>2
    <3>8. Known0(k + 1)
      <4>. DEFINE v == h.directory[uri]
                  u == g.directory[uri]
      <4>1. u \in Seq(1..n)
        BY <3>2, WrapIs
      <4>. SUFFICES ASSUME NEW i \in 1..Len(v)
                    PROVE  (\E j \in 1..N : v[i] = q[j]) \/ AccountOf(h, v[i]) # None
        BY <3>4
      <4>2. (i \in 1..Len(u) /\ v[i] = u[i]) \/ v[i] = o
        <5>. HIDE DEF g, o
        <5>. HIDE DEF u
        <5>1. v \in {u, Append(u, o)}
          BY <3>6 DEF u
        <5>. HIDE DEF v
        <5>. QED
          BY <4>1, <5>1
      <4>3. CASE v[i] = o
        BY <3>6, <4>3
      <4>4. CASE i \in 1..Len(u) /\ v[i] = u[i]
        <5>1. u[i] \in 1..n
          <6>. HIDE DEF u
          <6>. QED
            BY <4>1, <4>4
        <5>2. (\E j \in 1..N : u[i] = q[j]) \/ AccountOf(g, u[i]) # None
          BY <2>4, <4>4
        <5>. QED
          BY <3>6, <4>4, <5>1, <5>2
      <4>. QED
        BY <4>2, <4>3, <4>4
    <3>. QED
      BY <3>4, <3>7, <3>8
  <2>5. P(N)
    <3>. HIDE DEF P
    <3>1. \A k \in Nat : k \in S => k + 1 \in S
      <4>1. \A k \in Nat : k + 1 <= N => k <= N
        BY <1>1
      <4>. QED
        BY <2>4, <4>1
    <3>. HIDE DEF S
    <3>2. Nat \subseteq S
      BY <2>3, <3>1, Induction
    <3>. QED
      BY <1>1, <3>2 DEF S
  <2>6. HaveAccounts(e(N), uri, a)
    <3>1. \A j \in 1..N : AccountOf(e(N), q[j]) # None
      BY <2>5
    <3>2. \A i \in 1..Len(w(N)) : (\E j \in 1..N : w(N)[i] = q[j]) \/ AccountOf(e(N), w(N)[i]) # None
      BY <2>5
    <3>. QED
      BY <3>1, <3>2 DEF HaveAccounts
  <2>7. e(N) \in Dir(n) /\ f[N][2] = 0
    BY <1>1, <2>1, <2>5
  <2>. QED
    BY <2>2, <2>6, <2>7 DEF q
<1>. QED
  BY <1>0, <1>2

(* A new number and its place in the directory.                            *)
LEMMA CreateIs ==
  ASSUME NEW n \in Nat, NEW d \in Dir(n), NEW uri \in Uris, NEW a \in MaybeAccount,
         NEW c \in MaybeContact
  PROVE  LET e == Create(d, uri, a, c)[1]
             o == n + 1
         IN  /\ e \in Dir(o) /\ Create(d, uri, a, c) = <<e, o>>
             /\ AccountOf(e, o) = a /\ ContactOf(e, o) = c
             /\ \A x \in 1..n : /\ e.part[x] = d.part[x] /\ AccountOf(e, x) = AccountOf(d, x)
                                /\ ContactOf(e, x) = ContactOf(d, x) /\ UriOf(e, x) = UriOf(d, x)
             /\ e.directory[uri] = Append(d.directory[uri], o)
             /\ HasHost(uri) => \A u \in Uris : u # uri => e.directory[u] = d.directory[u]
<1>. DEFINE o == n + 1
            new == Created(d, uri, a, c)
            e1 == Registered(new, o, uri)
            far == d.directory[uri] = <<>> /\ ~HasHost(uri) /\ a \notin {None, Ip2ip}
            e2 == IF far THEN Registered(e1, o, Extended(uri, a)) ELSE e1
<1>1. /\ d \in DirType(n) /\ d.part \in [1..n -> 1..n] /\ d.uri \in [1..n -> Uris]
      /\ d.account \in [1..n -> MaybeAccount] /\ d.contact \in [1..n -> MaybeContact]
      /\ d.directory \in [Uris -> Seq(1..n)]
  BY DirIs
<1>2. new \in Dir(o) /\ Len(d.part) = n /\ o \in Nat /\ o \in 1..o
  BY CreatedStays
<1>3. /\ new.part = Append(d.part, o) /\ new.uri = Append(d.uri, uri)
      /\ new.account = Append(d.account, a) /\ new.contact = Append(d.contact, c)
      /\ new.directory = d.directory
  BY CreatedIs
<1>4. Create(d, uri, a, c) = <<e2, o>>
  BY <1>2 DEF Create
<1>5. e2 \in Dir(o)
  BY <1>4, CreateStays
<1>6. /\ new \in DirType(o) /\ new.directory \in [Uris -> Seq(1..o)]
  BY <1>2, DirIs
<1>. HIDE DEF new, o
<1>7. /\ e2.part = new.part /\ e2.uri = new.uri /\ e2.account = new.account
      /\ e2.contact = new.contact
      /\ e2.directory[uri] = Append(d.directory[uri], o)
      /\ HasHost(uri) => \A u \in Uris : u # uri => e2.directory[u] = d.directory[u]
  <2>1. /\ e1.part = new.part /\ e1.uri = new.uri /\ e1.account = new.account
        /\ e1.contact = new.contact
        /\ e1.directory = [new.directory EXCEPT ![uri] = Append(@, o)]
    BY <1>6 DEF Registered, DirType
  <2>2. e1 \in Dir(o)
    BY <1>2, RegisteredStays
  <2>3. e1 \in DirType(o) /\ e1.directory \in [Uris -> Seq(1..o)]
    BY <1>2, <2>2, DirIs
  <2>. HIDE DEF e1
  <2>4. CASE ~far
    BY <1>3, <1>6, <2>1, <2>4
  <2>5. CASE far
    <3>1. Extended(uri, a) # uri
      BY <2>5 DEF Extended, Uri, HasHost, Host
    <3>. DEFINE r == Registered(e1, o, Extended(uri, a))
    <3>2. /\ r.part = e1.part /\ r.uri = e1.uri /\ r.account = e1.account
          /\ r.contact = e1.contact
          /\ r.directory = [e1.directory EXCEPT ![Extended(uri, a)] = Append(@, o)]
      BY <2>3 DEF Registered, DirType
    <3>3. r.directory[uri] = e1.directory[uri]
      BY <2>3, <3>1, <3>2
    <3>. HIDE DEF r
    <3>4. e2 = r /\ ~HasHost(uri)
      BY <2>5 DEF r
    <3>. QED
      BY <1>3, <1>6, <2>1, <3>2, <3>3, <3>4
  <2>. QED
    BY <2>4, <2>5
<1>8. /\ new.part[o] = o /\ new.account[o] = a /\ new.contact[o] = c
      /\ \A x \in 1..n : /\ new.part[x] = d.part[x] /\ new.account[x] = d.account[x]
                         /\ new.contact[x] = d.contact[x] /\ new.uri[x] = d.uri[x]
  <2>1. Len(d.part) = n /\ Len(d.account) = n /\ Len(d.contact) = n /\ Len(d.uri) = n
    BY <1>1, FunIsSeq
  <2>2. /\ d.part \in Seq(1..o) /\ d.account \in Seq(MaybeAccount)
        /\ d.contact \in Seq(MaybeContact) /\ d.uri \in Seq(Uris)
    <3>1. d.part \in [1..n -> 1..o]
      BY <1>1 DEF o
    <3>. QED
      BY <1>1, <3>1, FunIsSeq
  <2>3. /\ Append(d.part, o)[n + 1] = o /\ \A x \in 1..n : Append(d.part, o)[x] = d.part[x]
    BY <1>2, <2>1, <2>2, AppendedTo
  <2>4. /\ Append(d.account, a)[n + 1] = a /\ \A x \in 1..n : Append(d.account, a)[x] = d.account[x]
    BY <2>1, <2>2, AppendedTo
  <2>5. /\ Append(d.contact, c)[n + 1] = c /\ \A x \in 1..n : Append(d.contact, c)[x] = d.contact[x]
    BY <2>1, <2>2, AppendedTo
  <2>6. \A x \in 1..n : Append(d.uri, uri)[x] = d.uri[x]
    BY <2>1, <2>2, AppendedTo
  <2>. QED
    BY <1>3, <2>3, <2>4, <2>5, <2>6 DEF o
<1>. HIDE DEF e2
<1>9. AccountOf(e2, o) = a /\ ContactOf(e2, o) = c
  BY <1>7, <1>8 DEF AccountOf, ContactOf
<1>10. ASSUME NEW x \in 1..n
       PROVE  /\ e2.part[x] = d.part[x] /\ AccountOf(e2, x) = AccountOf(d, x)
              /\ ContactOf(e2, x) = ContactOf(d, x) /\ UriOf(e2, x) = UriOf(d, x)
  <2>1. d.part[x] \in 1..n
    BY <1>1
  <2>. QED
    BY <1>7, <1>8, <2>1 DEF AccountOf, ContactOf, UriOf
<1>. QED
  BY <1>4, <1>5, <1>7, <1>9, <1>10 DEF o

LEMMA AskAttached ==
  ASSUME NEW n \in Nat, NEW d \in Dir(n), NEW uri \in Uris, NEW a \in MaybeAccount,
         HaveAccounts(d, uri, a)
  PROVE  LET three == Shorter(d, uri, a)
             q == d.directory[uri]
         IN  /\ three \in 0..n
             /\ GetNumber(d, uri, a, None)
                  = IF three # 0 THEN <<d, three>>
                    ELSE Known(d, uri, a, None, At(q, Accepted(d, q, a, None)))
<1>. DEFINE one == FillDetails(d, d.directory[uri], uri, a, None)
            two == Longer(one, uri, a, None)
            three == Shorter(two[1], uri, a)
            e == IF three = 0 THEN two[1]
                 ELSE JoinShorter(two[1], three, IF one[2] # 0 THEN one[2] ELSE two[2], None)
            q == e.directory[uri]
<1>0. None \in MaybeContact
  BY DEF MaybeContact
<1>1. one = <<d, 0>>
  BY NothingToAttach
<1>. HIDE DEF one
<1>2. two = <<d, 0>>
  BY <1>1 DEF Longer
<1>. HIDE DEF two
<1>3. three = Shorter(d, uri, a)
  BY <1>2
<1>. HIDE DEF three
<1>4. e = d
  BY <1>1, <1>2 DEF JoinShorter
<1>5. /\ three \in 0..n
      /\ GetNumber(d, uri, a, None)
           = IF two[2] # 0 THEN <<e, two[2]>> ELSE IF one[2] # 0 THEN <<e, one[2]>>
             ELSE IF three # 0 THEN <<e, three>>
             ELSE Known(e, uri, a, None, At(e.directory[uri], Accepted(e, e.directory[uri], a, None)))
  <2>. HIDE DEF e
  <2>. QED
    BY <1>0, GetNumberIs DEF one, two, three, e
<1>. HIDE DEF e
<1>. QED
  BY <1>1, <1>2, <1>3, <1>4, <1>5

LEMMA AttachedFirst ==
  ASSUME NEW n \in Nat, NEW d \in Dir(n), NEW uri \in Uris, NEW a \in MaybeAccount
  PROVE  \E e \in Dir(n) : /\ HaveAccounts(e, uri, a)
                           /\ GetNumber(d, uri, a, None) = GetNumber(e, uri, a, None)
<1>. DEFINE r == FillDetails(d, d.directory[uri], uri, a, None)
            e == r[1]
<1>1. r \in Dir(n) \X (0..n)
  <2>1. d.directory[uri] \in Seq(1..n) /\ None \in MaybeContact
    BY WrapIs DEF MaybeContact
  <2>. QED
    BY <2>1, FillDetailsStays
<1>2. r[1] \in Dir(n) /\ r[2] = 0 /\ HaveAccounts(r[1], uri, a)
  BY AllAttached
<1>. HIDE DEF r
<1>3. r = <<e, 0>>
  BY <1>1, <1>2
<1>4. FillDetails(e, e.directory[uri], uri, a, None) = <<e, 0>>
  BY <1>2, NothingToAttach
<1>5. FillDetails(d, d.directory[uri], uri, a, None) = FillDetails(e, e.directory[uri], uri, a, None)
  BY <1>3, <1>4 DEF r
<1>. HIDE DEF e
<1>6. GetNumber(d, uri, a, None) = GetNumber(e, uri, a, None)
  BY <1>5 DEF GetNumber, FromFound, Candidates
<1>. QED
  BY <1>2, <1>6 DEF e

(* A short URI is searched like before when the numbers listed under it    *)
(* have the accounts they had.                                             *)
LEMMA ShorterAgain ==
  ASSUME NEW n \in Nat, NEW d \in Dir(n), NEW m \in Nat, NEW e \in Dir(m), NEW uri \in Uris, NEW a,
         LET q == d.directory[Uri(User(uri), None)]
         IN  HasHost(uri) => /\ e.directory[Uri(User(uri), None)] = q
                             /\ \A i \in 1..Len(q) : AccountOf(e, q[i]) = AccountOf(d, q[i])
  PROVE  Shorter(e, uri, a) = Shorter(d, uri, a)
<1>. DEFINE q == d.directory[Uri(User(uri), None)]
            p == e.directory[Uri(User(uri), None)]
<1>1. Shorter(d, uri, a) = IF HasHost(uri) /\ Host(uri) = a THEN At(q, OfAccount(d, q, a)) ELSE 0
  BY ShorterAt
<1>2. Shorter(e, uri, a) = IF HasHost(uri) /\ Host(uri) = a THEN At(p, OfAccount(e, p, a)) ELSE 0
  BY ShorterAt
<1>3. HasHost(uri) => p = q /\ OfAccount(e, p, a) = OfAccount(d, q, a)
  BY DEF OfAccount
<1>. QED
  BY <1>1, <1>2, <1>3

LEMMA FoundWithout ==
  ASSUME NEW n \in Nat, NEW d \in Dir(n), NEW uri \in Uris, NEW a \in MaybeAccount
  PROVE  FoundAgain(GetNumber(d, uri, a, None), <<uri, a, None>>)
<1>0. PICK e \in Dir(n) : /\ HaveAccounts(e, uri, a)
                          /\ GetNumber(d, uri, a, None) = GetNumber(e, uri, a, None)
  BY AttachedFirst
<1>. DEFINE G(x) == GetNumber(x, uri, a, None)
            three == Shorter(e, uri, a)
            q == e.directory[uri]
            fit == At(q, Accepted(e, q, a, None))
<1>. SUFFICES LET r == G(e) IN r[1] = e \/ SameAs(r, G(r[1]))
  <2>1. ASSUME G(e)[1] = e  PROVE SameAs(G(e), G(G(e)[1]))
    BY <2>1 DEF SameAs
  <2>2. FoundAgain(G(e), <<uri, a, None>>) <=> SameAs(G(e), G(G(e)[1]))
    BY DEF FoundAgain
  <2>. QED
    BY <1>0, <2>1, <2>2
<1>1. three \in 0..n /\ G(e) = IF three # 0 THEN <<e, three>> ELSE Known(e, uri, a, None, fit)
  BY <1>0, AskAttached
<1>2. CASE three # 0
  BY <1>1, <1>2
<1>3. CASE three = 0 /\ fit # 0
  BY <1>1, <1>3 DEF Known
<1>4. CASE three = 0 /\ fit = 0
  <2>. DEFINE o == n + 1
              f == Create(e, uri, a, None)[1]
              w == f.directory[uri]
  <2>0. q \in Seq(1..n) /\ Len(q) \in Nat /\ o \in Nat /\ o # 0
    BY WrapIs
  <2>1. G(e) = Create(e, uri, a, None)
    BY <1>1, <1>4 DEF Known
  <2>2. /\ f \in Dir(o) /\ Create(e, uri, a, None) = <<f, o>>
        /\ AccountOf(f, o) = a /\ ContactOf(f, o) = None
        /\ \A x \in 1..n : /\ f.part[x] = e.part[x] /\ AccountOf(f, x) = AccountOf(e, x)
                           /\ ContactOf(f, x) = ContactOf(e, x) /\ UriOf(f, x) = UriOf(e, x)
        /\ w = Append(q, o)
        /\ HasHost(uri) => \A u \in Uris : u # uri => f.directory[u] = e.directory[u]
    <3>1. None \in MaybeContact
      BY DEF MaybeContact
    <3>. QED
      BY <3>1, CreateIs
  <2>. HIDE DEF f
  <2>3. /\ Len(w) = Len(q) + 1 /\ w[Len(q) + 1] = o /\ \A i \in 1..Len(q) : w[i] = q[i] /\ q[i] \in 1..n
    BY <2>0, <2>2
  <2>4. HaveAccounts(f, uri, a)
    <3>. SUFFICES ASSUME NEW i \in 1..Len(w), a # None  PROVE AccountOf(f, w[i]) # None
      BY DEF HaveAccounts
    <3>1. CASE i = Len(q) + 1
      BY <2>2, <2>3, <3>1
    <3>2. CASE i # Len(q) + 1
      <4>1. i \in 1..Len(q)
        BY <2>0, <2>3, <3>2
      <4>. QED
        BY <1>0, <2>2, <2>3, <4>1 DEF HaveAccounts
    <3>. QED
      BY <3>1, <3>2
  <2>5. Shorter(f, uri, a) = 0
    <3>. DEFINE short == Uri(User(uri), None)
                s == e.directory[short]
    <3>1. short \in Uris /\ s \in Seq(1..n)
      BY ShorterAt DEF Uris, Uri, User
    <3>2. HasHost(uri) => short # uri
      BY DEF HasHost, Host, Uri
    <3>3. HasHost(uri) => f.directory[short] = s /\ \A i \in 1..Len(s) : AccountOf(f, s[i]) = AccountOf(e, s[i])
      <4>1. \A i \in 1..Len(s) : s[i] \in 1..n
        BY <3>1
      <4>. QED
        BY <2>2, <3>1, <3>2, <4>1
    <3>4. Shorter(f, uri, a) = Shorter(e, uri, a)
      BY <2>0, <2>2, <3>3, ShorterAgain
    <3>. QED
      BY <1>4, <3>4
  <2>. DEFINE A == Accepted(f, w, a, None)
  <2>6. A = {Len(q) + 1}
    <3>1. Accepted(e, q, a, None) = {}
      <4>. DEFINE I == Accepted(e, q, a, None)
      <4>1. I \in SUBSET (1..Len(q))
        BY DEF Accepted
      <4>. HIDE DEF I
      <4>2. I # {} => At(q, I) \in 1..n
        BY <2>0, <4>1, AtIs
      <4>. QED
        BY <1>4, <4>2 DEF I
    <3>2. \A i \in 1..Len(q) : ~Acceptable(e, q[i], a, None)
      BY <3>1 DEF Accepted
    <3>3. \A i \in 1..Len(q) : ~Acceptable(f, w[i], a, None)
      BY <2>2, <2>3, <3>2 DEF Acceptable
    <3>4. Acceptable(f, o, a, None)
      BY <2>2 DEF Acceptable
    <3>. QED
      BY <2>0, <2>3, <3>3, <3>4 DEF Accepted
  <2>7. At(w, A) = o
    <3>0. w \in Seq(1..o)
      BY <2>0, <2>2, WrapIs
    <3>1. w \in Seq(1..o) /\ A \in SUBSET (1..Len(w)) /\ A # {}
      <4>. HIDE DEF A, w
      <4>. QED
        BY <2>0, <2>3, <2>6, <3>0
    <3>. HIDE DEF A, w
    <3>2. \E i \in A : At(w, A) = w[i]
      BY <2>0, <3>1, AtIs
    <3>. QED
      BY <2>3, <2>6, <3>2
  <2>8. G(f) = <<f, o>>
    <3>0. f \in Dir(o) /\ o \in Nat
      BY <2>0, <2>2
    <3>1. G(f) = Known(f, uri, a, None, At(w, A))
      BY <2>4, <2>5, <3>0, AskAttached
    <3>. QED
      BY <2>0, <2>7, <3>1 DEF Known
  <2>. QED
    BY <2>1, <2>2, <2>8 DEF SameAs
<1>. QED
  BY <1>1, <1>2, <1>3, <1>4

(* A number is asked for with a contact: that a number has one or cannot   *)
(* get it, and that its account does not speak against it.                 *)
Idle(d, o, uri, a) ==
  \/ ContactOf(d, o) # None
  \/ ~CompatibleUri(d, o, uri, a) \/ ~CompatibleAccount(d, o, uri, a)

Distinct(d, o, a) == a = None \/ a # AccountOf(d, o)

LEMMA FillWith ==
  ASSUME NEW d, NEW o, NEW uri, NEW a, NEW c \in Contacts
  PROVE  /\ Fill(d, o, uri, a, c) = IF Idle(d, o, uri, a) THEN d ELSE SetContact(d, o, c)
         /\ Confirmed(d, o, a, c) <=> Distinct(d, o, a) /\ ContactOf(d, o) = c
<1>1. c # None
  BY NoneAssumption
<1>. QED
  BY <1>1 DEF Fill, Idle, Confirmed, Distinct

(* The directories that differ from d in who has got the contact c.        *)
Gained(n, d, e, c) ==
  /\ e \in Dir(n)
  /\ e.part = d.part /\ e.uri = d.uri /\ e.account = d.account /\ e.directory = d.directory
  /\ \A p \in 1..n : e.contact[p] # d.contact[p] => d.contact[p] = None /\ e.contact[p] = c

LEMMA SetContactIs ==
  ASSUME NEW n \in Nat, NEW d \in Dir(n), NEW o \in 1..n, NEW c \in Contacts,
         ContactOf(d, o) \in {None, c}
  PROVE  LET e == SetContact(d, o, c)
         IN  /\ Gained(n, d, e, c) /\ e.contact[d.part[o]] = c
             /\ \A p \in 1..n : p # d.part[o] => e.contact[p] = d.contact[p]
<1>. DEFINE e == SetContact(d, o, c)
<1>1. d \in DirType(n) /\ d.part \in [1..n -> 1..n] /\ d.contact \in [1..n -> MaybeContact]
  BY DirIs
<1>2. /\ e.part = d.part /\ e.uri = d.uri /\ e.account = d.account /\ e.directory = d.directory
      /\ e.contact = [d.contact EXCEPT ![d.part[o]] = c]
  BY <1>1 DEF SetContact, DirType
<1>3. e \in Dir(n)
  BY SetContactStays
<1>. HIDE DEF e
<1>4. d.part[o] \in 1..n /\ d.contact[d.part[o]] \in {None, c}
  BY <1>1 DEF ContactOf
<1>. QED
  BY <1>1, <1>2, <1>3, <1>4 DEF Gained, e

LEMMA GainedKeeps ==
  ASSUME NEW n \in Nat, NEW d \in Dir(n), NEW e, NEW c \in Contacts, Gained(n, d, e, c),
         NEW o \in 1..n, NEW uri, NEW a
  PROVE  /\ AccountOf(e, o) = AccountOf(d, o) /\ UriOf(e, o) = UriOf(d, o)
         /\ Distinct(e, o, a) <=> Distinct(d, o, a)
         /\ Idle(d, o, uri, a) => Idle(e, o, uri, a)
         /\ ContactOf(d, o) # None => ContactOf(e, o) = ContactOf(d, o)
         /\ ContactOf(e, o) # ContactOf(d, o) => ContactOf(d, o) = None /\ ContactOf(e, o) = c
<1>1. d.part[o] \in 1..n
  <2>1. d.part \in [1..n -> 1..n]
    BY DirIs
  <2>. QED
    BY <2>1
<1>2. /\ AccountOf(e, o) = AccountOf(d, o) /\ UriOf(e, o) = UriOf(d, o)
      /\ ContactOf(e, o) # ContactOf(d, o) => ContactOf(d, o) = None /\ ContactOf(e, o) = c
  BY <1>1 DEF Gained, AccountOf, UriOf, ContactOf
<1>3. c # None
  BY NoneAssumption
<1>. QED
  BY <1>2, <1>3 DEF Distinct, Idle, CompatibleUri, CompatibleAccount

LEMMA GainedTwice ==
  ASSUME NEW n \in Nat, NEW d \in Dir(n), NEW e, NEW f, NEW c \in Contacts,
         Gained(n, d, e, c), Gained(n, e, f, c)
  PROVE  Gained(n, d, f, c)
<1>1. c # None
  BY NoneAssumption
<1>. QED
  BY <1>1 DEF Gained

(* What fillDetails() has done after k numbers: those before the one that  *)
(* is confirmed are idle, and confirmed only if they are the same; and     *)
(* whoever got the contact and is distinct is the confirmed one.           *)
NoneYet(e, q, k, uri, a, c) ==
  \A i \in 1..k : Idle(e, q[i], uri, a) /\ ~Confirmed(e, q[i], a, c)

FoundAt(e, q, i, m, uri, a, c) ==
  /\ q[i] = m /\ Confirmed(e, m, a, c)
  /\ \A j \in 1..i : /\ Idle(e, q[j], uri, a)
                     /\ Confirmed(e, q[j], a, c) => e.part[q[j]] = e.part[m]

Pass(n, d, q, k, uri, a, c, x) ==
  /\ Gained(n, d, x[1], c)
  /\ x[2] = 0 => NoneYet(x[1], q, k, uri, a, c)
  /\ x[2] # 0 => \E i \in 1..k : FoundAt(x[1], q, i, x[2], uri, a, c)
  /\ \A p \in 1..n : x[1].contact[p] # d.contact[p] /\ (a = None \/ a # d.account[p])
                    => x[2] # 0 /\ d.part[x[2]] = p

LEMMA PassStep ==
  ASSUME NEW n \in Nat, NEW d \in Dir(n), NEW q \in Seq(1..n), NEW k \in Nat, k + 1 <= Len(q),
         NEW uri, NEW a \in MaybeAccount, NEW c \in Contacts, NEW x \in Dir(n) \X (0..n),
         Pass(n, d, q, k, uri, a, c, x)
  PROVE  Pass(n, d, q, k + 1, uri, a, c, Check(x, q[k + 1], uri, a, c))
<1>. DEFINE e == x[1]
            o == q[k + 1]
            h == Fill(e, o, uri, a, c)
            y == Check(x, o, uri, a, c)
<1>0. /\ k + 1 \in 1..Len(q) /\ o \in 1..n /\ o # 0 /\ e \in Dir(n)
      /\ \A j \in 1..k : j \in 1..(k + 1) /\ q[j] \in 1..n
      /\ \A j \in 1..(k + 1) : j = k + 1 \/ j \in 1..k
  OBVIOUS
<1>1. CASE x[2] # 0
  <2>1. y = x
    BY <1>1 DEF Check
  <2>2. PICK i \in 1..k : FoundAt(x[1], q, i, x[2], uri, a, c)
    BY <1>1 DEF Pass
  <2>3. i \in 1..(k + 1)
    BY <1>0
  <2>. HIDE DEF y
  <2>. QED
    BY <1>1, <2>1, <2>2, <2>3 DEF Pass, y
<1>2. CASE x[2] = 0
  <2>1. y = <<h, IF Confirmed(h, o, a, c) THEN o ELSE 0>>
    BY <1>2 DEF Check
  <2>2. Gained(n, d, e, c) /\ NoneYet(e, q, k, uri, a, c)
    BY <1>2 DEF Pass
  <2>3. \A p \in 1..n : ~(e.contact[p] # d.contact[p] /\ (a = None \/ a # d.account[p]))
    BY <1>2 DEF Pass
  <2>4. h = IF Idle(e, o, uri, a) THEN e ELSE SetContact(e, o, c)
    BY FillWith
  <2>5. d.part \in [1..n -> 1..n] /\ d.part[o] \in 1..n /\ e.part = d.part
    <3>1. d.part \in [1..n -> 1..n]
      BY DirIs
    <3>2. e.part = d.part
      BY <2>2 DEF Gained
    <3>. QED
      BY <1>0, <3>1, <3>2
  <2>. HIDE DEF e, o, h, y
  <2>6. CASE Idle(e, o, uri, a)
    <3>1. h = e
      BY <2>4, <2>6
    <3>2. CASE Confirmed(e, o, a, c)
      <4>1. y[1] = e /\ y[2] = o
        BY <2>1, <3>1, <3>2
      <4>2. FoundAt(e, q, k + 1, o, uri, a, c)
        BY <1>0, <2>2, <2>6, <3>2 DEF FoundAt, NoneYet, o
      <4>. QED
        BY <1>0, <2>2, <2>3, <4>1, <4>2 DEF Pass, y, o
    <3>3. CASE ~Confirmed(e, o, a, c)
      <4>1. y[1] = e /\ y[2] = 0
        BY <2>1, <3>1, <3>3
      <4>2. NoneYet(e, q, k + 1, uri, a, c)
        BY <1>0, <2>2, <2>6, <3>3 DEF NoneYet, o
      <4>. QED
        BY <2>2, <2>3, <4>1, <4>2 DEF Pass, y, o
    <3>. QED
      BY <3>2, <3>3
  <2>7. CASE ~Idle(e, o, uri, a)
    <3>1. h = SetContact(e, o, c) /\ ContactOf(e, o) = None
      BY <2>4, <2>7 DEF Idle
    <3>2. /\ Gained(n, e, h, c) /\ h.contact[e.part[o]] = c
          /\ \A p \in 1..n : p # e.part[o] => h.contact[p] = e.contact[p]
      BY <1>0, <3>1, SetContactIs
    <3>3. Gained(n, d, h, c) /\ h.part = d.part
      BY <2>2, <3>2, GainedTwice, SMTT(30) DEF Gained
    <3>4. ContactOf(h, o) = c
      BY <2>5, <3>2, <3>3 DEF ContactOf
    <3>5. Idle(h, o, uri, a) /\ (Confirmed(h, o, a, c) <=> Distinct(e, o, a))
      <4>1. c # None
        BY NoneAssumption
      <4>0. e \in Dir(n) /\ o \in 1..n /\ Gained(n, e, h, c)
        BY <1>0, <3>2
      <4>2. Distinct(h, o, a) <=> Distinct(e, o, a)
        BY <4>0, GainedKeeps
      <4>3. Confirmed(h, o, a, c) <=> Distinct(h, o, a) /\ ContactOf(h, o) = c
        BY FillWith
      <4>. QED
        BY <3>4, <4>1, <4>2, <4>3 DEF Idle
    <3>6. ASSUME NEW j \in 1..k
          PROVE  /\ Idle(h, q[j], uri, a)
                 /\ Confirmed(h, q[j], a, c) => /\ h.part[q[j]] = h.part[o]
                                                /\ Distinct(e, o, a)
      <4>1. q[j] \in 1..n /\ Idle(e, q[j], uri, a) /\ ~Confirmed(e, q[j], a, c)
        BY <1>0, <2>2 DEF NoneYet
      <4>2. Idle(h, q[j], uri, a) /\ (Distinct(h, q[j], a) <=> Distinct(e, q[j], a))
        <5>1. e \in Dir(n) /\ Gained(n, e, h, c)
          BY <1>0, <3>2
        <5>. QED
          BY <4>1, <5>1, GainedKeeps
      <4>3. ASSUME Confirmed(h, q[j], a, c)
            PROVE  h.part[q[j]] = h.part[o] /\ Distinct(e, o, a)
        <5>1. Distinct(e, q[j], a) /\ ContactOf(h, q[j]) # ContactOf(e, q[j])
          BY <4>1, <4>2, <4>3, FillWith
        <5>2. d.part[q[j]] \in 1..n
          BY <2>5, <4>1
        <5>3. d.part[q[j]] = d.part[o]
          BY <2>5, <3>2, <3>3, <5>1, <5>2 DEF ContactOf
        <5>. QED
          BY <2>5, <3>3, <5>1, <5>3 DEF Distinct, AccountOf
      <4>. QED
        BY <4>2, <4>3
    <3>7. ASSUME NEW p \in 1..n, h.contact[p] # d.contact[p], a = None \/ a # d.account[p]
          PROVE  p = d.part[o] /\ Distinct(e, o, a)
      <4>1. h.contact[p] # e.contact[p]
        BY <2>3, <3>7
      <4>2. p = d.part[o]
        BY <2>5, <3>2, <4>1
      <4>3. AccountOf(e, o) = d.account[p]
        BY <2>2, <2>5, <4>2 DEF AccountOf, Gained
      <4>. QED
        BY <3>7, <4>2, <4>3 DEF Distinct
    <3>8. CASE Distinct(e, o, a)
      <4>1. y[1] = h /\ y[2] = o
        BY <2>1, <3>5, <3>8
      <4>2. FoundAt(h, q, k + 1, o, uri, a, c)
        BY <1>0, <3>5, <3>6, <3>8 DEF FoundAt, o
      <4>3. k + 1 \in 1..(k + 1)
        OBVIOUS
      <4>. QED
        BY <1>0, <3>3, <3>7, <4>1, <4>2, <4>3 DEF Pass, y, o
    <3>9. CASE ~Distinct(e, o, a)
      <4>1. y[1] = h /\ y[2] = 0
        BY <2>1, <3>5, <3>9
      <4>2. NoneYet(h, q, k + 1, uri, a, c)
        BY <1>0, <3>5, <3>6, <3>9 DEF NoneYet, o
      <4>. QED
        BY <3>3, <3>7, <3>9, <4>1, <4>2 DEF Pass, y, o
    <3>. QED
      BY <3>8, <3>9
  <2>. QED
    BY <2>6, <2>7
<1>. QED
  BY <1>0, <1>1, <1>2

LEMMA PassIs ==
  ASSUME NEW n \in Nat, NEW d \in Dir(n), NEW q \in Seq(1..n), NEW uri, NEW a \in MaybeAccount,
         NEW c \in Contacts
  PROVE  Pass(n, d, q, Len(q), uri, a, c, FillDetails(d, q, uri, a, c))
<1>0. c \in MaybeContact
  BY DEF MaybeContact
<1>1. PICK f \in [0..Len(q) -> Dir(n) \X (0..n)] : Rounds(f, d, q, uri, a, c)
  BY <1>0, FillRounds
<1>2. /\ f[0] = <<d, 0>> /\ f[Len(q)] = FillDetails(d, q, uri, a, c)
      /\ \A k \in 1..Len(q) : f[k] = Check(f[k - 1], q[k], uri, a, c)
  BY <1>1 DEF Rounds
<1>. DEFINE P(k) == Pass(n, d, q, k, uri, a, c, f[k])
            S == {k \in Nat : k <= Len(q) => P(k)}
<1>3. 0 \in S
  BY <1>2 DEF Pass, NoneYet, Gained
<1>4. \A k \in Nat : k \in S => k + 1 \in S
  <2>. SUFFICES ASSUME NEW k \in Nat, k \in S, k + 1 <= Len(q)  PROVE P(k + 1)
    <3>. HIDE DEF P
    <3>. QED
      OBVIOUS
  <2>1. k + 1 \in 1..Len(q) /\ k \in 0..Len(q) /\ k + 1 - 1 = k /\ P(k)
    <3>. HIDE DEF P
    <3>. QED
      OBVIOUS
  <2>2. f[k + 1] = Check(f[k], q[k + 1], uri, a, c) /\ f[k] \in Dir(n) \X (0..n)
    <3>1. f[k + 1] = Check(f[k + 1 - 1], q[k + 1], uri, a, c)
      <4>. HIDE DEF P
      <4>. QED
        BY <1>2, <2>1
    <3>2. k + 1 - 1 = k /\ k \in 0..Len(q)
      BY <2>1
    <3>3. f[k] \in Dir(n) \X (0..n)
      BY <3>2
    <3>. QED
      BY <3>1, <3>2, <3>3
  <2>. QED
    BY <2>1, <2>2, PassStep
<1>5. Nat \subseteq S
  <2>. HIDE DEF S
  <2>. QED
    BY <1>3, <1>4, Induction
<1>6. P(Len(q))
  <2>1. Len(q) \in Nat
    OBVIOUS
  <2>. HIDE DEF P
  <2>. QED
    BY <1>5, <2>1
<1>. QED
  BY <1>2, <1>6

(* What was found once is found again, if everyone before it is idle.      *)
LEMMA FoundOnce ==
  ASSUME NEW n \in Nat, NEW e \in Dir(n), NEW q \in Seq(1..n), NEW uri, NEW a \in MaybeAccount,
         NEW c \in Contacts, NEW i \in 1..Len(q), NEW m, FoundAt(e, q, i, m, uri, a, c)
  PROVE  \E x \in 1..n : /\ FillDetails(e, q, uri, a, c) = <<e, x>>
                         /\ Confirmed(e, x, a, c) /\ e.part[x] = e.part[m]
<1>0. c \in MaybeContact /\ i \in 0..Len(q) /\ i # 0 /\ \A j \in 1..i : j \in 1..Len(q) /\ q[j] \in 1..n
  BY DEF MaybeContact
<1>1. /\ q[i] = m /\ Confirmed(e, m, a, c)
      /\ \A j \in 1..i : /\ Idle(e, q[j], uri, a)
                         /\ Confirmed(e, q[j], a, c) => e.part[q[j]] = e.part[m]
  BY DEF FoundAt
<1>2. ASSUME NEW j \in 1..i  PROVE Fill(e, q[j], uri, a, c) = e
  <2>1. Idle(e, q[j], uri, a)
    BY <1>1, Zenon
  <2>2. Fill(e, q[j], uri, a, c) = IF Idle(e, q[j], uri, a) THEN e ELSE SetContact(e, q[j], c)
    BY FillWith
  <2>. QED
    BY <2>1, <2>2
<1>3. Confirmed(e, q[i], a, c) /\ i \in 1..i
  BY <1>1
<1>4. \/ \A j \in 1..i : ~Confirmed(e, q[j], a, c)
      \/ \E j \in 1..i : Confirmed(e, q[j], a, c) /\ FillDetails(e, q, uri, a, c) = <<e, q[j]>>
  <2>1. Settled(e, q, i, uri, a, c)
    BY <1>0, <1>2, <1>3 DEF Settled
  <2>. QED
    BY <1>0, <2>1, Refilled
<1>5. PICK j \in 1..i : Confirmed(e, q[j], a, c) /\ FillDetails(e, q, uri, a, c) = <<e, q[j]>>
  BY <1>3, <1>4
<1>6. q[j] \in 1..n /\ e.part[q[j]] = e.part[m]
  BY <1>0, <1>1, <1>5, Zenon
<1>. QED
  BY <1>5, <1>6

LEMMA NoneAgain ==
  ASSUME NEW n \in Nat, NEW e \in Dir(n), NEW q \in Seq(1..n), NEW uri, NEW a \in MaybeAccount,
         NEW c \in Contacts, NoneYet(e, q, Len(q), uri, a, c)
  PROVE  FillDetails(e, q, uri, a, c) = <<e, 0>>
<1>. DEFINE l == Len(q)
<1>0. c \in MaybeContact /\ l \in 0..Len(q) /\ ~(l < Len(q))
  BY DEF MaybeContact
<1>1. \A j \in 1..l : Fill(e, q[j], uri, a, c) = e
  BY FillWith DEF NoneYet
<1>2. \A j \in 1..l : ~Confirmed(e, q[j], a, c)
  BY DEF NoneYet
<1>. HIDE DEF l
<1>3. \/ FillDetails(e, q, uri, a, c) = <<e, 0>>
      \/ \E j \in 1..l : Confirmed(e, q[j], a, c)
  <2>1. Settled(e, q, l, uri, a, c)
    BY <1>0, <1>1 DEF Settled
  <2>. QED
    BY <1>0, <2>1, Refilled
<1>. QED
  BY <1>2, <1>3

(* JoinShorter: the number with a short URI gives up its part, of an       *)
(* account that no confirmed number has.                                   *)
GainedIn(n, d, e, a, c) ==
  \A p \in 1..n : e.contact[p] # d.contact[p] => /\ d.contact[p] = None /\ e.contact[p] = c
                                                 /\ a # None /\ d.account[p] = a

JoinedWith(n, d, e, m) ==
  /\ e.part[m] = d.part[m] /\ \A x \in 1..n : e.part[x] \in {d.part[x], d.part[m]}
  /\ \A p \in 1..n : p # d.part[m] => e.uri[p] = d.uri[p]

LEMMA JoinIs ==
  ASSUME NEW n \in Nat, NEW d \in Dir(n), NEW three \in 1..n, NEW other \in 0..n,
         NEW c \in Contacts, NEW a \in Accounts, AccountOf(d, three) = a,
         other # 0 => a # AccountOf(d, other)
  PROVE  LET e == JoinShorter(d, three, other, c)
         IN  /\ e \in Dir(n) /\ e.account = d.account /\ e.directory = d.directory
             /\ GainedIn(n, d, e, a, c) /\ \A x \in 1..n : x # three => e.part[x] = d.part[x]
             /\ other = 0 => Gained(n, d, e, c) /\ ContactOf(e, three) # None
             /\ other # 0 => JoinedWith(n, d, e, other)
<1>. DEFINE g == IF c # None /\ ContactOf(d, three) = None THEN SetContact(d, three, c) ELSE d
            e == JoinShorter(d, three, other, c)
<1>0. c # None /\ a # None
  BY NoneAssumption
<1>1. /\ d.part \in [1..n -> 1..n] /\ d.part[three] \in 1..n
      /\ other # 0 => d.part[other] \in 1..n /\ other # three /\ other \in 1..n
  <2>1. d.part \in [1..n -> 1..n]
    BY DirIs
  <2>. QED
    BY <2>1, SMTT(30)
<1>2. Gained(n, d, g, c) /\ ContactOf(g, three) # None /\ GainedIn(n, d, g, a, c)
  <2>1. CASE ContactOf(d, three) # None
    BY <2>1 DEF Gained, GainedIn
  <2>2. CASE ContactOf(d, three) = None
    <3>1. g = SetContact(d, three, c)
      BY <1>0, <2>2
    <3>. HIDE DEF g
    <3>2. /\ Gained(n, d, g, c) /\ g.contact[d.part[three]] = c
          /\ \A p \in 1..n : p # d.part[three] => g.contact[p] = d.contact[p]
      BY <2>2, <3>1, SetContactIs
    <3>3. ContactOf(g, three) = c
      BY <3>2 DEF ContactOf, Gained
    <3>4. GainedIn(n, d, g, a, c)
      BY <1>0, <2>2, <3>2 DEF GainedIn, Gained, AccountOf, ContactOf
    <3>. QED
      BY <1>0, <3>2, <3>3, <3>4
  <2>. QED
    BY <2>1, <2>2
<1>3. e = IF other # 0 THEN Merge(g, three, other) ELSE g
  BY DEF JoinShorter
<1>. HIDE DEF g, e
<1>4. /\ g \in Dir(n) /\ g.part = d.part /\ g.account = d.account /\ g.directory = d.directory
      /\ g.uri = d.uri
  BY <1>2 DEF Gained
<1>5. CASE other = 0
  BY <1>2, <1>3, <1>4, <1>5 DEF e
<1>6. CASE other # 0
  <2>1. /\ ~Mergeable(g, three, other) => e = g
        /\ Mergeable(g, three, other) =>
             /\ e.part = [g.part EXCEPT ![three] = g.part[other]]
             /\ \A p \in 1..n : p # g.part[other] => e.uri[p] = g.uri[p]
        /\ e.account = g.account /\ e.contact = g.contact /\ e.directory = g.directory
        /\ e \in Dir(n)
    <3>1. g \in Dir(n) /\ other \in 1..n /\ e = Merge(g, three, other)
      BY <1>1, <1>3, <1>4, <1>6
    <3>2. Merge(g, three, other) \in Dir(n)
      BY <3>1, MergeStays
    <3>3. /\ ~Mergeable(g, three, other) => Merge(g, three, other) = g
          /\ Mergeable(g, three, other) =>
               /\ Merge(g, three, other).part = [g.part EXCEPT ![three] = g.part[other]]
               /\ \A p \in 1..n : p # g.part[other] => Merge(g, three, other).uri[p] = g.uri[p]
          /\ Merge(g, three, other).account = g.account
          /\ Merge(g, three, other).contact = g.contact
          /\ Merge(g, three, other).directory = g.directory
      BY <3>1, MergeIs
    <3>. QED
      BY <3>1, <3>2, <3>3
  <2>2. JoinedWith(n, d, e, other) /\ \A x \in 1..n : x # three => e.part[x] = d.part[x]
    BY <1>1, <1>4, <1>6, <2>1 DEF JoinedWith
  <2>3. GainedIn(n, d, e, a, c)
    BY <1>2, <2>1 DEF GainedIn
  <2>. QED
    BY <1>4, <1>6, <2>1, <2>2, <2>3 DEF e
<1>. QED
  BY <1>5, <1>6

LEMMA FoundStays ==
  ASSUME NEW n \in Nat, NEW d \in Dir(n), NEW e \in Dir(n), NEW q \in Seq(1..n), NEW uri,
         NEW a \in MaybeAccount, NEW c \in Contacts, NEW i \in 1..Len(q), NEW m \in 1..n,
         FoundAt(d, q, i, m, uri, a, c),
         e.account = d.account, JoinedWith(n, d, e, m), GainedIn(n, d, e, a, c)
  PROVE  FoundAt(e, q, i, m, uri, a, c)
<1>0. c # None
  BY NoneAssumption
<1>1. d.part \in [1..n -> 1..n] /\ e.part \in [1..n -> 1..n] /\ d.part[m] \in 1..n
  <2>1. d.part \in [1..n -> 1..n] /\ e.part \in [1..n -> 1..n]
    BY DirIs
  <2>. QED
    BY <2>1
<1>2. Distinct(d, m, a) /\ ContactOf(d, m) = c
  BY FillWith DEF FoundAt
<1>3. e.contact[d.part[m]] = c
  BY <1>1, <1>2 DEF GainedIn, Distinct, ContactOf, AccountOf
<1>4. e.part[m] = d.part[m] /\ ContactOf(e, m) = c /\ Distinct(e, m, a)
  BY <1>2, <1>3 DEF JoinedWith, ContactOf, AccountOf, Distinct
<1>5. ASSUME NEW j \in 1..i
      PROVE  /\ Idle(e, q[j], uri, a)
             /\ Confirmed(e, q[j], a, c) => e.part[q[j]] = e.part[m]
  <2>. DEFINE x == q[j]
  <2>1. x \in 1..n /\ Idle(d, x, uri, a) /\ (Confirmed(d, x, a, c) => d.part[x] = d.part[m])
    <3>1. q[j] \in 1..n
      OBVIOUS
    <3>2. Idle(d, q[j], uri, a) /\ (Confirmed(d, q[j], a, c) => d.part[q[j]] = d.part[m])
      BY Zenon DEF FoundAt
    <3>. QED
      BY <3>1, <3>2
  <2>. HIDE DEF x
  <2>2. CASE e.part[x] = d.part[m]
    <3>1. Idle(e, x, uri, a)
      BY <1>0, <1>3, <2>2 DEF Idle, ContactOf
    <3>. QED
      BY <1>4, <2>2, <3>1 DEF x
  <2>3. CASE e.part[x] # d.part[m]
    <3>1. e.part[x] = d.part[x] /\ d.part[x] \in 1..n /\ e.uri[d.part[x]] = d.uri[d.part[x]]
      BY <1>1, <2>1, <2>3 DEF JoinedWith
    <3>2. AccountOf(e, x) = AccountOf(d, x) /\ UriOf(e, x) = UriOf(d, x)
      BY <3>1 DEF AccountOf, UriOf
    <3>3. ContactOf(e, x) # ContactOf(d, x) =>
            /\ ContactOf(d, x) = None /\ ContactOf(e, x) = c /\ a # None /\ AccountOf(d, x) = a
      BY <3>1 DEF GainedIn, ContactOf, AccountOf
    <3>4. Idle(e, x, uri, a)
      BY <1>0, <2>1, <3>2, <3>3 DEF Idle, CompatibleUri, CompatibleAccount
    <3>5. ~Confirmed(e, x, a, c)
      <4>1. SUFFICES ASSUME Distinct(e, x, a), ContactOf(e, x) = c  PROVE FALSE
        BY FillWith
      <4>2. ContactOf(d, x) = c /\ Distinct(d, x, a)
        BY <3>2, <3>3, <4>1 DEF Distinct
      <4>. QED
        BY <2>1, <2>3, <3>1, <4>2, FillWith
    <3>. QED
      BY <3>4, <3>5 DEF x
  <2>. QED
    BY <2>2, <2>3
<1>6. Confirmed(e, m, a, c) /\ q[i] = m
  BY <1>4, FillWith DEF FoundAt
<1>. QED
  BY <1>5, <1>6 DEF FoundAt

(* The number under the shorter form is one of the account.                *)
LEMMA ShorterOf ==
  ASSUME NEW n \in Nat, NEW d \in Dir(n), NEW uri \in Uris, NEW a,
         NEW three, three = Shorter(d, uri, a), three # 0
  PROVE  /\ three \in 1..n /\ AccountOf(d, three) = a
         /\ HasHost(uri) /\ a \in Accounts
<1>. DEFINE q == d.directory[Uri(User(uri), None)]
            I == OfAccount(d, q, a)
<1>1. /\ q \in Seq(1..n) /\ HasHost(uri) /\ Host(uri) = a /\ three = At(q, I)
  BY ShorterAt
<1>2. a \in Accounts
  <2>1. Host(uri) \in Accounts \union {None}
    BY DEF Uris, Uri, Host
  <2>. QED
    BY <1>1, <2>1 DEF HasHost
<1>3. I \in SUBSET (1..Len(q)) /\ \A i \in I : AccountOf(d, q[i]) = a
  BY DEF OfAccount
<1>. HIDE DEF I, q
<1>4. I # {} /\ At(q, I) \in 1..n /\ \E i \in I : At(q, I) = q[i]
  BY <1>1, <1>3, AtIs
<1>. QED
  BY <1>1, <1>2, <1>3, <1>4

(* What is asked of a directory, by what the rounds find.                  *)
LEMMA AskFound ==
  ASSUME NEW n \in Nat, NEW d \in Dir(n), NEW uri \in Uris, NEW a \in MaybeAccount,
         NEW c \in MaybeContact, NEW e \in Dir(n), NEW x \in 1..n,
         FillDetails(d, d.directory[uri], uri, a, c) = <<e, x>>,
         HasHost(uri) \/ a \in {None, Ip2ip}
  PROVE  LET three == Shorter(e, uri, a)
         IN  GetNumber(d, uri, a, c) = <<IF three = 0 THEN e ELSE JoinShorter(e, three, x, c), x>>
<1>. DEFINE one == FillDetails(d, d.directory[uri], uri, a, c)
            two == Longer(one, uri, a, c)
            three == Shorter(two[1], uri, a)
            f == IF three = 0 THEN two[1]
                 ELSE JoinShorter(two[1], three, IF one[2] # 0 THEN one[2] ELSE two[2], c)
<1>1. GetNumber(d, uri, a, c)
        = IF two[2] # 0 THEN <<f, two[2]>> ELSE IF one[2] # 0 THEN <<f, one[2]>>
          ELSE IF three # 0 THEN <<f, three>>
          ELSE Known(f, uri, a, c, At(f.directory[uri], Accepted(f, f.directory[uri], a, c)))
  <2>. HIDE DEF one, two, three, f
  <2>. QED
    BY GetNumberIs DEF one, two, three, f
<1>2. one = <<e, x>> /\ x # 0
  OBVIOUS
<1>. HIDE DEF one
<1>3. two = <<e, 0>>
  BY <1>2 DEF Longer
<1>. HIDE DEF two
<1>4. three = Shorter(e, uri, a)
  BY <1>3
<1>. HIDE DEF three
<1>5. f = IF three = 0 THEN e ELSE JoinShorter(e, three, x, c)
  BY <1>2, <1>3
<1>. HIDE DEF f
<1>6. GetNumber(d, uri, a, c) = <<f, x>>
  BY <1>1, <1>2, <1>3
<1>. QED
  BY <1>4, <1>5, <1>6

LEMMA AskLonger ==
  ASSUME NEW n \in Nat, NEW d \in Dir(n), NEW uri \in Uris, NEW a \in MaybeAccount,
         NEW c \in MaybeContact, NEW e \in Dir(n), NEW x \in 1..n,
         FillDetails(d, d.directory[uri], uri, a, c) = <<e, x>>,
         ~HasHost(uri), a \notin {None, Ip2ip}, NEW f \in Dir(n), NEW y \in 0..n,
         FillDetails(e, e.directory[Extended(uri, a)], uri, a, c) = <<f, y>>
  PROVE  GetNumber(d, uri, a, c) = <<f, IF y # 0 THEN y ELSE x>>
<1>. DEFINE one == FillDetails(d, d.directory[uri], uri, a, c)
            two == Longer(one, uri, a, c)
            three == Shorter(two[1], uri, a)
            g == IF three = 0 THEN two[1]
                 ELSE JoinShorter(two[1], three, IF one[2] # 0 THEN one[2] ELSE two[2], c)
<1>1. GetNumber(d, uri, a, c)
        = IF two[2] # 0 THEN <<g, two[2]>> ELSE IF one[2] # 0 THEN <<g, one[2]>>
          ELSE IF three # 0 THEN <<g, three>>
          ELSE Known(g, uri, a, c, At(g.directory[uri], Accepted(g, g.directory[uri], a, c)))
  <2>. HIDE DEF one, two, three, g
  <2>. QED
    BY GetNumberIs, SMTT(30) DEF one, two, three, g
<1>2. one = <<e, x>> /\ x # 0
  OBVIOUS
<1>. HIDE DEF one
<1>3. two = <<f, y>>
  BY <1>2 DEF Longer
<1>. HIDE DEF two
<1>4. three = 0
  BY DEF Shorter
<1>. HIDE DEF three
<1>5. g = f
  BY <1>3, <1>4
<1>. HIDE DEF g
<1>. QED
  BY <1>1, <1>2, <1>3, <1>5

LEMMA AskNone ==
  ASSUME NEW n \in Nat, NEW d \in Dir(n), NEW uri \in Uris, NEW a \in MaybeAccount,
         NEW c \in Contacts, NoneYet(d, d.directory[uri], Len(d.directory[uri]), uri, a, c)
  PROVE  LET three == Shorter(d, uri, a)
             q == d.directory[uri]
         IN  GetNumber(d, uri, a, c)
               = IF three # 0 THEN <<JoinShorter(d, three, 0, c), three>>
                 ELSE Known(d, uri, a, c, At(q, Accepted(d, q, a, c)))
<1>. DEFINE one == FillDetails(d, d.directory[uri], uri, a, c)
            two == Longer(one, uri, a, c)
            three == Shorter(two[1], uri, a)
            f == IF three = 0 THEN two[1]
                 ELSE JoinShorter(two[1], three, IF one[2] # 0 THEN one[2] ELSE two[2], c)
<1>0. c \in MaybeContact /\ d.directory[uri] \in Seq(1..n)
  BY WrapIs DEF MaybeContact
<1>1. GetNumber(d, uri, a, c)
        = IF two[2] # 0 THEN <<f, two[2]>> ELSE IF one[2] # 0 THEN <<f, one[2]>>
          ELSE IF three # 0 THEN <<f, three>>
          ELSE Known(f, uri, a, c, At(f.directory[uri], Accepted(f, f.directory[uri], a, c)))
  <2>. HIDE DEF one, two, three, f
  <2>. QED
    BY <1>0, GetNumberIs DEF one, two, three, f
<1>2. one = <<d, 0>>
  BY <1>0, NoneAgain
<1>. HIDE DEF one
<1>3. two = <<d, 0>>
  BY <1>2 DEF Longer
<1>. HIDE DEF two
<1>4. three = Shorter(d, uri, a)
  BY <1>3
<1>. HIDE DEF three
<1>5. f = IF three = 0 THEN d ELSE JoinShorter(d, three, 0, c)
  BY <1>2, <1>3
<1>. HIDE DEF f
<1>. QED
  BY <1>1, <1>2, <1>3, <1>4, <1>5

(* A confirmed number is found again.                                      *)
LEMMA FoundConfirmed ==
  ASSUME NEW n \in Nat, NEW e \in Dir(n), NEW uri \in Uris, NEW a \in MaybeAccount,
         NEW c \in Contacts, NEW i \in 1..Len(e.directory[uri]), NEW m \in 1..n,
         FoundAt(e, e.directory[uri], i, m, uri, a, c), HasHost(uri) \/ a \in {None, Ip2ip}
  PROVE  SameAs(<<e, m>>, GetNumber(e, uri, a, c))
<1>. DEFINE q == e.directory[uri]
            three == Shorter(e, uri, a)
<1>0. q \in Seq(1..n) /\ c \in MaybeContact
  BY WrapIs DEF MaybeContact
<1>1. PICK x \in 1..n : /\ FillDetails(e, q, uri, a, c) = <<e, x>>
                        /\ Confirmed(e, x, a, c) /\ e.part[x] = e.part[m]
  BY <1>0, FoundOnce
<1>. DEFINE f == IF three = 0 THEN e ELSE JoinShorter(e, three, x, c)
<1>2. GetNumber(e, uri, a, c) = <<f, x>>
  BY <1>0, <1>1, AskFound
<1>3. f.part[x] = f.part[m]
  <2>1. CASE three = 0
    BY <1>1, <2>1
  <2>2. CASE three # 0
    <3>1. three \in 1..n /\ AccountOf(e, three) = a /\ a \in Accounts
      BY <2>2, ShorterOf
    <3>2. a # None
      BY <3>1, NoneAssumption
    <3>3. a # AccountOf(e, x)
      BY <1>1, <3>2 DEF Confirmed
    <3>4. a # AccountOf(e, m)
      BY <3>2 DEF FoundAt, Confirmed
    <3>5. x \in 0..n
      OBVIOUS
    <3>. HIDE DEF three
    <3>6. f = JoinShorter(e, three, x, c)
      BY <2>2
    <3>. HIDE DEF f
    <3>7. \A y \in 1..n : y # three => f.part[y] = e.part[y]
      BY <3>1, <3>3, <3>5, <3>6, JoinIs
    <3>8. x # three /\ m # three
      BY <3>1, <3>3, <3>4
    <3>. QED
      BY <1>1, <3>7, <3>8
  <2>. QED
    BY <2>1, <2>2
<1>. QED
  BY <1>2, <1>3 DEF SameAs

(* Found by the first round, and there is no longer form to look under.    *)
LEMMA FoundByFirst ==
  ASSUME NEW n \in Nat, NEW d \in Dir(n), NEW uri \in Uris, NEW a \in MaybeAccount,
         NEW c \in Contacts, NEW e \in Dir(n), NEW x \in 1..n,
         FillDetails(d, d.directory[uri], uri, a, c) = <<e, x>>,
         HasHost(uri) \/ a \in {None, Ip2ip}
  PROVE  FoundAgain(GetNumber(d, uri, a, c), <<uri, a, c>>)
<1>. DEFINE q == d.directory[uri]
            three == Shorter(e, uri, a)
            f == IF three = 0 THEN e ELSE JoinShorter(e, three, x, c)
<1>0. q \in Seq(1..n) /\ c \in MaybeContact /\ x \in 0..n
  BY WrapIs DEF MaybeContact
<1>1. Pass(n, d, q, Len(q), uri, a, c, <<e, x>>)
  BY <1>0, PassIs
<1>2. Gained(n, d, e, c) /\ \E i \in 1..Len(q) : FoundAt(e, q, i, x, uri, a, c)
  BY <1>1 DEF Pass
<1>3. PICK i \in 1..Len(q) : FoundAt(e, q, i, x, uri, a, c)
  BY <1>2
<1>4. e.directory[uri] = q
  BY <1>2 DEF Gained
<1>5. GetNumber(d, uri, a, c) = <<f, x>>
  BY <1>0, AskFound
<1>6. f \in Dir(n) /\ f.directory[uri] = q /\ FoundAt(f, q, i, x, uri, a, c)
  <2>1. CASE three = 0
    BY <1>3, <1>4, <2>1
  <2>2. CASE three # 0
    <3>1. three \in 1..n /\ AccountOf(e, three) = a /\ a \in Accounts
      BY <2>2, ShorterOf
    <3>2. a # AccountOf(e, x) /\ x # 0
      <4>1. a # None
        BY <3>1, NoneAssumption
      <4>. QED
        BY <1>3, <4>1 DEF FoundAt, Confirmed
    <3>. HIDE DEF three
    <3>3. f = JoinShorter(e, three, x, c)
      BY <2>2
    <3>. HIDE DEF f
    <3>4. /\ f \in Dir(n) /\ f.account = e.account /\ f.directory = e.directory
          /\ GainedIn(n, e, f, a, c) /\ JoinedWith(n, e, f, x)
      BY <1>0, <3>1, <3>2, <3>3, JoinIs
    <3>5. FoundAt(f, q, i, x, uri, a, c)
      BY <1>0, <1>3, <3>4, FoundStays
    <3>. QED
      BY <1>4, <3>4, <3>5
  <2>. QED
    BY <2>1, <2>2
<1>. HIDE DEF f
<1>7. SameAs(<<f, x>>, GetNumber(f, uri, a, c))
  BY <1>6, FoundConfirmed
<1>. QED
  BY <1>5, <1>7 DEF FoundAgain

(* Who is found stays found while others get the contact, unless another   *)
(* part that is distinct gets it.                                          *)
LEMMA FoundGained ==
  ASSUME NEW n \in Nat, NEW d \in Dir(n), NEW e, NEW q \in Seq(1..n), NEW uri,
         NEW a \in MaybeAccount, NEW c \in Contacts, NEW i \in 1..Len(q), NEW m \in 1..n,
         FoundAt(d, q, i, m, uri, a, c), Gained(n, d, e, c)
  PROVE  /\ \A j \in 1..i : Idle(e, q[j], uri, a)
         /\ q[i] = m /\ Confirmed(e, m, a, c)
         /\ (\A p \in 1..n : ~(e.contact[p] # d.contact[p] /\ (a = None \/ a # d.account[p])))
              => FoundAt(e, q, i, m, uri, a, c)
<1>0. c # None /\ e.part = d.part /\ d.part \in [1..n -> 1..n]
  BY NoneAssumption, DirIs DEF Gained
<1>1. q[i] = m /\ Distinct(d, m, a) /\ ContactOf(d, m) = c
  BY FillWith DEF FoundAt
<1>2. Confirmed(e, m, a, c)
  <2>1. /\ Distinct(e, m, a) <=> Distinct(d, m, a)
        /\ ContactOf(d, m) # None => ContactOf(e, m) = ContactOf(d, m)
    BY GainedKeeps
  <2>2. ContactOf(e, m) = c /\ Distinct(e, m, a)
    BY <1>0, <1>1, <2>1
  <2>. QED
    BY <2>2, FillWith
<1>3. ASSUME NEW j \in 1..i
      PROVE  /\ Idle(e, q[j], uri, a)
             /\ (\A p \in 1..n : ~(e.contact[p] # d.contact[p] /\ (a = None \/ a # d.account[p])))
                  => (Confirmed(e, q[j], a, c) => e.part[q[j]] = e.part[m])
  <2>. DEFINE x == q[j]
  <2>1. x \in 1..n /\ Idle(d, x, uri, a) /\ (Confirmed(d, x, a, c) => d.part[x] = d.part[m])
    <3>1. q[j] \in 1..n
      OBVIOUS
    <3>2. Idle(d, q[j], uri, a) /\ (Confirmed(d, q[j], a, c) => d.part[q[j]] = d.part[m])
      BY DEF FoundAt
    <3>. QED
      BY <3>1, <3>2
  <2>. HIDE DEF x
  <2>2. Idle(e, x, uri, a) /\ (Distinct(e, x, a) <=> Distinct(d, x, a)) /\ d.part[x] \in 1..n
    BY <1>0, <2>1, GainedKeeps
  <2>3. ASSUME \A p \in 1..n : ~(e.contact[p] # d.contact[p] /\ (a = None \/ a # d.account[p])),
               Confirmed(e, x, a, c)
        PROVE  e.part[x] = e.part[m]
    <3>1. Distinct(d, x, a) /\ ContactOf(e, x) = c
      BY <2>2, <2>3, FillWith
    <3>2. ContactOf(e, x) = ContactOf(d, x)
      BY <1>0, <2>2, <2>3, <3>1 DEF ContactOf, Distinct, AccountOf
    <3>3. Confirmed(d, x, a, c)
      BY <3>1, <3>2, FillWith
    <3>. QED
      BY <1>0, <2>1, <3>3
  <2>. QED
    BY <2>2, <2>3 DEF x
<1>. QED
  BY <1>1, <1>2, <1>3 DEF FoundAt

(* A round stops somewhere as long as one number is confirmed and those    *)
(* before it are idle.                                                     *)
Stops(e, q, i, uri, a, c) ==
  Confirmed(e, q[i], a, c) /\ \A j \in 1..i : Idle(e, q[j], uri, a)

LEMMA FoundSome ==
  ASSUME NEW n \in Nat, NEW e \in Dir(n), NEW q \in Seq(1..n), NEW uri, NEW a \in MaybeAccount,
         NEW c \in Contacts, NEW i \in 1..Len(q), Stops(e, q, i, uri, a, c)
  PROVE  \E x \in 1..n : FillDetails(e, q, uri, a, c) = <<e, x>>
<1>0. c \in MaybeContact /\ i \in 0..Len(q) /\ i # 0 /\ \A j \in 1..i : j \in 1..Len(q) /\ q[j] \in 1..n
  BY DEF MaybeContact
<1>1. \A j \in 1..i : Fill(e, q[j], uri, a, c) = e
  BY FillWith DEF Stops
<1>2. Confirmed(e, q[i], a, c) /\ i \in 1..i
  BY DEF Stops
<1>3. \/ \A j \in 1..i : ~Confirmed(e, q[j], a, c)
      \/ \E j \in 1..i : FillDetails(e, q, uri, a, c) = <<e, q[j]>>
  <2>1. Settled(e, q, i, uri, a, c)
    BY <1>0, <1>1, <1>2 DEF Settled
  <2>. QED
    BY <1>0, <2>1, Refilled
<1>. QED
  BY <1>0, <1>2, <1>3

(* Found by the first round, and then under the longer form.               *)
LEMMA FoundByLonger ==
  ASSUME NEW n \in Nat, NEW d \in Dir(n), NEW uri \in Uris, NEW a \in MaybeAccount,
         NEW c \in Contacts, NEW e \in Dir(n), NEW x \in 1..n,
         FillDetails(d, d.directory[uri], uri, a, c) = <<e, x>>,
         ~HasHost(uri), a \notin {None, Ip2ip}
  PROVE  FoundAgain(GetNumber(d, uri, a, c), <<uri, a, c>>)
<1>. DEFINE q == d.directory[uri]
            far == Extended(uri, a)
            p == d.directory[far]
            r == FillDetails(e, p, uri, a, c)
            f == r[1]
            y == r[2]
<1>0. /\ q \in Seq(1..n) /\ c \in MaybeContact /\ far \in Uris /\ p \in Seq(1..n)
      /\ Len(q) \in Nat /\ Len(p) \in Nat
  <2>1. far \in Uris
    BY DEF MaybeAccount, Extended, Uris, Uri, User
  <2>2. q \in Seq(1..n) /\ p \in Seq(1..n)
    BY <2>1, WrapIs
  <2>. QED
    BY <2>1, <2>2 DEF MaybeContact
<1>. HIDE DEF far
<1>1. Pass(n, d, q, Len(q), uri, a, c, <<e, x>>)
  BY <1>0, PassIs
<1>2. Gained(n, d, e, c) /\ \E i \in 1..Len(q) : FoundAt(e, q, i, x, uri, a, c)
  BY <1>1 DEF Pass
<1>3. PICK i \in 1..Len(q) : FoundAt(e, q, i, x, uri, a, c)
  BY <1>2
<1>4. e.directory = d.directory
  BY <1>2 DEF Gained
<1>5. r \in Dir(n) \X (0..n)
  BY <1>0, FillDetailsStays
<1>6. Pass(n, e, p, Len(p), uri, a, c, r)
  BY <1>0, PassIs
<1>. HIDE DEF r
<1>7. f \in Dir(n) /\ y \in 0..n /\ r = <<f, y>>
  BY <1>5
<1>8. Gained(n, e, f, c)
  BY <1>6 DEF Pass
<1>9. f.directory = d.directory
  BY <1>4, <1>8 DEF Gained
<1>10. GetNumber(d, uri, a, c) = <<f, IF y # 0 THEN y ELSE x>>
  <2>1. FillDetails(e, e.directory[far], uri, a, c) = <<f, y>>
    BY <1>4, <1>7 DEF r
  <2>. HIDE DEF f, y
  <2>. QED
    BY <1>0, <1>7, <2>1, AskLonger DEF far
<1>11. /\ \A j \in 1..i : Idle(f, q[j], uri, a)
       /\ q[i] = x /\ Confirmed(f, x, a, c)
       /\ (\A s \in 1..n : ~(f.contact[s] # e.contact[s] /\ (a = None \/ a # e.account[s])))
            => FoundAt(f, q, i, x, uri, a, c)
  <2>. HIDE DEF f, q
  <2>. QED
    BY <1>0, <1>3, <1>8, FoundGained
<1>12. CASE y # 0
  <2>1. PICK z \in 1..n : FillDetails(f, q, uri, a, c) = <<f, z>>
    <3>1. Stops(f, q, i, uri, a, c)
      BY <1>11 DEF Stops
    <3>. HIDE DEF f, q
    <3>. QED
      BY <1>0, <1>7, <3>1, FoundSome
  <2>2. PICK k \in 1..Len(p) : FoundAt(f, p, k, y, uri, a, c)
    BY <1>6, <1>12 DEF Pass
  <2>3. PICK t \in 1..n : FillDetails(f, p, uri, a, c) = <<f, t>> /\ f.part[t] = f.part[y]
    <3>. HIDE DEF f, y, p
    <3>. QED
      BY <1>0, <1>7, <2>2, FoundOnce
  <2>4. GetNumber(f, uri, a, c) = <<f, t>>
    <3>. HIDE DEF f, y
    <3>1. /\ FillDetails(f, f.directory[uri], uri, a, c) = <<f, z>>
          /\ FillDetails(f, f.directory[Extended(uri, a)], uri, a, c) = <<f, t>>
          /\ t \in 0..n /\ t # 0
      BY <1>9, <2>1, <2>3 DEF far
    <3>. QED
      BY <1>0, <1>7, <3>1, AskLonger
  <2>. HIDE DEF f, y
  <2>. QED
    BY <1>10, <1>12, <2>3, <2>4 DEF FoundAgain, SameAs
<1>13. CASE y = 0
  <2>1. FoundAt(f, q, i, x, uri, a, c)
    BY <1>6, <1>11, <1>13 DEF Pass
  <2>2. PICK t \in 1..n : FillDetails(f, q, uri, a, c) = <<f, t>> /\ f.part[t] = f.part[x]
    <3>. HIDE DEF f, q
    <3>. QED
      BY <1>0, <1>7, <2>1, FoundOnce
  <2>3. NoneYet(f, p, Len(p), uri, a, c)
    BY <1>6, <1>13 DEF Pass
  <2>4. FillDetails(f, p, uri, a, c) = <<f, 0>>
    <3>. HIDE DEF f, p
    <3>. QED
      BY <1>0, <1>7, <2>3, NoneAgain
  <2>5. GetNumber(f, uri, a, c) = <<f, t>>
    <3>. HIDE DEF f, y
    <3>1. /\ FillDetails(f, f.directory[uri], uri, a, c) = <<f, t>>
          /\ FillDetails(f, f.directory[Extended(uri, a)], uri, a, c) = <<f, 0>>
          /\ 0 \in 0..n
      BY <1>9, <2>2, <2>4 DEF far
    <3>. QED
      BY <1>0, <1>7, <3>1, AskLonger
  <2>. HIDE DEF f, y
  <2>. QED
    BY <1>10, <1>13, <2>2, <2>5 DEF FoundAgain, SameAs
<1>. QED
  BY <1>12, <1>13

(* Nobody is confirmed: the number under the shorter form, a number that   *)
(* nothing speaks against, or a new one.                                   *)
LEMMA FoundByAccount ==
  ASSUME NEW n \in Nat, NEW d \in Dir(n), NEW uri \in Uris, NEW a \in MaybeAccount,
         NEW c \in Contacts, NoneYet(d, d.directory[uri], Len(d.directory[uri]), uri, a, c),
         Shorter(d, uri, a) # 0
  PROVE  FoundAgain(GetNumber(d, uri, a, c), <<uri, a, c>>)
<1>. DEFINE q == d.directory[uri]
            three == Shorter(d, uri, a)
            e == JoinShorter(d, three, 0, c)
<1>0. c # None /\ q \in Seq(1..n) /\ 0 \in 0..n
  BY NoneAssumption, WrapIs
<1>1. three \in 1..n /\ AccountOf(d, three) = a /\ a \in Accounts
  BY ShorterOf
<1>. HIDE DEF three
<1>2. /\ e \in Dir(n) /\ e.directory = d.directory /\ e.account = d.account
      /\ GainedIn(n, d, e, a, c) /\ Gained(n, d, e, c) /\ ContactOf(e, three) # None
  BY <1>0, <1>1, JoinIs
<1>3. GetNumber(d, uri, a, c) = <<e, three>>
  BY AskNone DEF three
<1>. HIDE DEF e
<1>4. NoneYet(e, q, Len(q), uri, a, c)
  <2>. SUFFICES ASSUME NEW j \in 1..Len(q)
                PROVE  Idle(e, q[j], uri, a) /\ ~Confirmed(e, q[j], a, c)
    BY DEF NoneYet
  <2>. DEFINE x == q[j]
  <2>1. x \in 1..n /\ Idle(d, x, uri, a) /\ ~Confirmed(d, x, a, c)
    BY <1>0 DEF NoneYet
  <2>. HIDE DEF x
  <2>2. Idle(e, x, uri, a) /\ (Distinct(e, x, a) <=> Distinct(d, x, a))
    BY <1>2, <2>1, GainedKeeps
  <2>3. ~Confirmed(e, x, a, c)
    <3>. SUFFICES ASSUME Confirmed(e, x, a, c)  PROVE FALSE
      OBVIOUS
    <3>1. Distinct(d, x, a) /\ ContactOf(e, x) = c
      BY <2>2, FillWith
    <3>2. ContactOf(d, x) # c
      BY <2>1, <3>1, FillWith
    <3>3. d.part[x] \in 1..n /\ e.part = d.part
      <4>1. d.part \in [1..n -> 1..n]
        BY DirIs
      <4>. QED
        BY <1>2, <2>1, <4>1 DEF Gained
    <3>4. a # None /\ AccountOf(d, x) = a
      BY <1>2, <3>1, <3>2, <3>3 DEF GainedIn, ContactOf, AccountOf
    <3>. QED
      BY <3>1, <3>4 DEF Distinct
  <2>. QED
    BY <2>2, <2>3 DEF x
<1>5. Shorter(e, uri, a) = three
  <2>1. \A x : AccountOf(e, x) = AccountOf(d, x)
    BY <1>2 DEF AccountOf, Gained
  <2>. QED
    BY <1>2, <2>1, ShorterAgain DEF three
<1>6. GetNumber(e, uri, a, c) = <<JoinShorter(e, three, 0, c), three>>
  <2>1. three # 0
    BY DEF three
  <2>. QED
    BY <1>2, <1>4, <1>5, <2>1, AskNone
<1>. QED
  BY <1>3, <1>6 DEF FoundAgain, SameAs

LEMMA FoundByChance ==
  ASSUME NEW n \in Nat, NEW d \in Dir(n), NEW uri \in Uris, NEW a \in MaybeAccount,
         NEW c \in Contacts, NoneYet(d, d.directory[uri], Len(d.directory[uri]), uri, a, c),
         Shorter(d, uri, a) = 0,
         NEW fit, fit = At(d.directory[uri], Accepted(d, d.directory[uri], a, c)), fit # 0
  PROVE  FoundAgain(GetNumber(d, uri, a, c), <<uri, a, c>>)
<1>. DEFINE q == d.directory[uri]
            A == Accepted(d, q, a, c)
            f == SetContact(d, fit, c)
<1>0. /\ c # None /\ q \in Seq(1..n) /\ d.part \in [1..n -> 1..n]
      /\ \A j \in 1..Len(q) : q[j] \in 1..n
  <2>1. q \in Seq(1..n)
    BY WrapIs
  <2>2. \A j \in 1..Len(q) : q[j] \in 1..n
    BY <2>1
  <2>. QED
    BY <2>1, <2>2, NoneAssumption, DirIs
<1>1. fit \in 1..n /\ \E i \in A : fit = q[i] /\ \A j \in A : i <= j
  <2>1. A \in SUBSET (1..Len(q)) /\ fit = At(q, A)
    BY DEF Accepted
  <2>2. q \in Seq(1..n)
    BY <1>0
  <2>. HIDE DEF A, q
  <2>3. /\ A = {} => At(q, A) = 0
        /\ A # {} => /\ At(q, A) \in 1..n
                     /\ \E i \in A : At(q, A) = q[i] /\ \A j \in A : i <= j
    BY <2>1, <2>2, AtIs
  <2>. QED
    BY <2>1, <2>3
<1>2. PICK i \in 1..Len(q) : fit = q[i] /\ Acceptable(d, fit, a, c)
  BY <1>1 DEF Accepted
<1>3. (a = None \/ AccountOf(d, fit) = a) /\ ContactOf(d, fit) \in {None, c}
  BY <1>0, <1>2 DEF Acceptable
<1>4. /\ Gained(n, d, f, c) /\ f.contact[d.part[fit]] = c
      /\ \A p \in 1..n : p # d.part[fit] => f.contact[p] = d.contact[p]
  BY <1>1, <1>3, SetContactIs
<1>5. GetNumber(d, uri, a, c) = <<f, fit>>
  <2>1. GetNumber(d, uri, a, c) = Known(d, uri, a, c, fit)
    BY AskNone
  <2>. QED
    BY <1>0, <2>1 DEF Known
<1>. HIDE DEF f, A
<1>6. f \in Dir(n) /\ f.directory = d.directory /\ f.part = d.part /\ f.account = d.account
  BY <1>4 DEF Gained
<1>7. ASSUME NEW x \in 1..n, Idle(d, x, uri, a), ~Confirmed(d, x, a, c)
      PROVE  /\ Idle(f, x, uri, a)
             /\ Confirmed(f, x, a, c) => f.part[x] = f.part[fit] /\ Distinct(d, x, a)
  <2>1. Idle(f, x, uri, a) /\ (Distinct(f, x, a) <=> Distinct(d, x, a))
    BY <1>4, <1>7, GainedKeeps
  <2>2. ASSUME Confirmed(f, x, a, c)  PROVE f.part[x] = f.part[fit] /\ Distinct(d, x, a)
    <3>1. Distinct(d, x, a) /\ ContactOf(f, x) = c
      BY <2>1, <2>2, FillWith
    <3>2. ContactOf(d, x) # c
      BY <1>7, <3>1, FillWith
    <3>. QED
      BY <1>0, <1>4, <1>6, <3>1, <3>2 DEF ContactOf
  <2>. QED
    BY <2>1, <2>2
<1>8. ASSUME NEW j \in 1..Len(q)
      PROVE  /\ Idle(f, q[j], uri, a)
             /\ Confirmed(f, q[j], a, c) => f.part[q[j]] = f.part[fit] /\ Distinct(d, q[j], a)
  <2>1. q[j] \in 1..n
    BY <1>0
  <2>2. Idle(d, q[j], uri, a) /\ ~Confirmed(d, q[j], a, c)
    BY DEF NoneYet
  <2>. QED
    BY <1>7, <2>1, <2>2
<1>9. CASE a = None
  <2>1. Confirmed(f, fit, a, c)
    <3>1. ContactOf(f, fit) = c
      BY <1>4, <1>6 DEF ContactOf
    <3>. QED
      BY <1>9, <3>1, FillWith DEF Distinct
  <2>2. FoundAt(f, q, i, fit, uri, a, c)
    <3>1. \A j \in 1..i : j \in 1..Len(q)
      BY <1>0
    <3>. HIDE DEF q
    <3>. QED
      BY <1>2, <1>8, <2>1, <3>1 DEF FoundAt
  <2>3. SameAs(<<f, fit>>, GetNumber(f, uri, a, c))
    BY <1>1, <1>2, <1>6, <1>9, <2>2, FoundConfirmed
  <2>. QED
    BY <1>5, <2>3 DEF FoundAgain
<1>10. CASE a # None
  <2>1. NoneYet(f, q, Len(q), uri, a, c)
    <3>. SUFFICES ASSUME NEW j \in 1..Len(q)
                  PROVE  Idle(f, q[j], uri, a) /\ ~Confirmed(f, q[j], a, c)
      BY DEF NoneYet
    <3>1. ASSUME Confirmed(f, q[j], a, c)  PROVE FALSE
      <4>1. f.part[q[j]] = f.part[fit] /\ Distinct(d, q[j], a)
        BY <1>8, <3>1
      <4>2. AccountOf(d, q[j]) = AccountOf(d, fit)
        BY <1>6, <4>1 DEF AccountOf
      <4>. QED
        BY <1>3, <1>10, <4>1, <4>2 DEF Distinct
    <3>. QED
      BY <1>8, <3>1
  <2>2. \A x : AccountOf(f, x) = AccountOf(d, x)
    BY <1>6 DEF AccountOf
  <2>3. Shorter(f, uri, a) = 0
    BY <1>6, <2>2, ShorterAgain
  <2>4. Accepted(f, q, a, c) = A
    <3>1. \A j \in 1..Len(q) : ContactOf(f, q[j]) \in {None, c} <=> ContactOf(d, q[j]) \in {None, c}
      <4>. SUFFICES ASSUME NEW j \in 1..Len(q)
                    PROVE  ContactOf(f, q[j]) \in {None, c} <=> ContactOf(d, q[j]) \in {None, c}
        OBVIOUS
      <4>1. q[j] \in 1..n
        BY <1>0
      <4>2. d.part[q[j]] \in 1..n
        BY <1>0, <4>1
      <4>. QED
        BY <1>3, <1>4, <1>6, <4>2 DEF ContactOf
    <3>2. \A j \in 1..Len(q) : Acceptable(f, q[j], a, c) <=> Acceptable(d, q[j], a, c)
      BY <2>2, <3>1 DEF Acceptable
    <3>. QED
      BY <3>2 DEF Accepted, A
  <2>5. GetNumber(f, uri, a, c) = Known(f, uri, a, c, fit)
    BY <1>6, <2>1, <2>3, <2>4, AskNone DEF A
  <2>6. GetNumber(f, uri, a, c)[2] = fit
    BY <2>5 DEF Known
  <2>. QED
    BY <1>5, <2>6 DEF FoundAgain, SameAs
<1>. QED
  BY <1>9, <1>10

LEMMA FoundNew ==
  ASSUME NEW n \in Nat, NEW d \in Dir(n), NEW uri \in Uris, NEW a \in MaybeAccount,
         NEW c \in Contacts, NoneYet(d, d.directory[uri], Len(d.directory[uri]), uri, a, c),
         Shorter(d, uri, a) = 0,
         At(d.directory[uri], Accepted(d, d.directory[uri], a, c)) = 0
  PROVE  FoundAgain(GetNumber(d, uri, a, c), <<uri, a, c>>)
<1>. DEFINE q == d.directory[uri]
            o == n + 1
            f == Create(d, uri, a, c)[1]
            w == f.directory[uri]
<1>0. /\ c # None /\ c \in MaybeContact /\ q \in Seq(1..n) /\ Len(q) \in Nat
      /\ o \in Nat /\ o # 0 /\ o \in 1..o
  BY NoneAssumption, WrapIs DEF MaybeContact
<1>1. GetNumber(d, uri, a, c) = Create(d, uri, a, c)
  BY AskNone DEF Known
<1>2. /\ f \in Dir(o) /\ Create(d, uri, a, c) = <<f, o>>
      /\ AccountOf(f, o) = a /\ ContactOf(f, o) = c
      /\ \A x \in 1..n : /\ f.part[x] = d.part[x] /\ AccountOf(f, x) = AccountOf(d, x)
                         /\ ContactOf(f, x) = ContactOf(d, x) /\ UriOf(f, x) = UriOf(d, x)
      /\ w = Append(q, o)
      /\ HasHost(uri) => \A u \in Uris : u # uri => f.directory[u] = d.directory[u]
  BY <1>0, CreateIs
<1>. HIDE DEF f
<1>3. /\ Len(w) = Len(q) + 1 /\ w[Len(q) + 1] = o /\ w \in Seq(1..o)
      /\ \A i \in 1..Len(q) : w[i] = q[i] /\ q[i] \in 1..n
  <2>1. w \in Seq(1..o)
    BY <1>0, <1>2, WrapIs
  <2>. QED
    BY <1>0, <1>2, <2>1
<1>. HIDE DEF w
<1>4. ASSUME NEW j \in 1..Len(q)
      PROVE  Idle(f, w[j], uri, a) /\ ~Confirmed(f, w[j], a, c)
  <2>1. q[j] \in 1..n /\ Idle(d, q[j], uri, a) /\ ~Confirmed(d, q[j], a, c)
    BY <1>3 DEF NoneYet
  <2>2. /\ AccountOf(f, q[j]) = AccountOf(d, q[j]) /\ ContactOf(f, q[j]) = ContactOf(d, q[j])
        /\ UriOf(f, q[j]) = UriOf(d, q[j])
    BY <1>2, <2>1
  <2>3. Idle(f, q[j], uri, a) /\ ~Confirmed(f, q[j], a, c)
    BY <2>1, <2>2 DEF Idle, CompatibleUri, CompatibleAccount, Confirmed
  <2>. QED
    BY <1>3, <2>3
<1>5. Idle(f, o, uri, a) /\ (Confirmed(f, o, a, c) <=> a = None)
  BY <1>0, <1>2 DEF Idle, Confirmed
<1>6. CASE a = None
  <2>. DEFINE i == Len(q) + 1
  <2>1. FoundAt(f, w, i, o, uri, a, c)
    <3>1. \A j \in 1..i : j = i \/ j \in 1..Len(q)
      BY <1>0
    <3>. QED
      BY <1>3, <1>4, <1>5, <1>6, <3>1 DEF FoundAt
  <2>2. i \in 1..Len(w)
    BY <1>0, <1>3
  <2>. HIDE DEF i, o
  <2>3. SameAs(<<f, o>>, GetNumber(f, uri, a, c))
    BY <1>0, <1>2, <1>6, <2>1, <2>2, FoundConfirmed DEF w
  <2>. QED
    BY <1>1, <1>2, <2>3 DEF FoundAgain
<1>7. CASE a # None
  <2>1. NoneYet(f, w, Len(w), uri, a, c)
    <3>1. \A j \in 1..Len(w) : j = Len(q) + 1 \/ j \in 1..Len(q)
      BY <1>0, <1>3
    <3>. QED
      BY <1>3, <1>4, <1>5, <1>7, <3>1 DEF NoneYet
  <2>2. Shorter(f, uri, a) = 0
    <3>. DEFINE short == Uri(User(uri), None)
                s == d.directory[short]
    <3>1. short \in Uris /\ s \in Seq(1..n)
      BY ShorterAt DEF Uris, Uri, User
    <3>2. HasHost(uri) => short # uri
      BY DEF HasHost, Host, Uri
    <3>3. HasHost(uri) => f.directory[short] = s /\ \A i \in 1..Len(s) : AccountOf(f, s[i]) = AccountOf(d, s[i])
      <4>1. \A i \in 1..Len(s) : s[i] \in 1..n
        BY <3>1
      <4>. QED
        BY <1>2, <3>1, <3>2, <4>1
    <3>. QED
      BY <1>0, <1>2, <3>3, ShorterAgain
  <2>. DEFINE A == Accepted(f, w, a, c)
  <2>3. A = {Len(q) + 1}
    <3>1. Accepted(d, q, a, c) = {}
      <4>. DEFINE I == Accepted(d, q, a, c)
      <4>1. I \in SUBSET (1..Len(q))
        BY DEF Accepted
      <4>. HIDE DEF I
      <4>2. I # {} => At(q, I) \in 1..n
        BY <1>0, <4>1, AtIs
      <4>. QED
        BY <4>2 DEF I
    <3>2. \A i \in 1..Len(q) : ~Acceptable(d, q[i], a, c)
      BY <3>1 DEF Accepted
    <3>3. \A i \in 1..Len(q) : ~Acceptable(f, w[i], a, c)
      BY <1>2, <1>3, <3>2 DEF Acceptable
    <3>4. Acceptable(f, w[Len(q) + 1], a, c)
      BY <1>2, <1>3 DEF Acceptable
    <3>5. \A i : i \in 1..Len(w) <=> i \in 1..Len(q) \/ i = Len(q) + 1
      BY <1>0, <1>3
    <3>. QED
      BY <1>0, <3>3, <3>4, <3>5 DEF Accepted
  <2>4. At(w, A) = o
    <3>1. A \in SUBSET (1..Len(w)) /\ A # {}
      <4>. HIDE DEF A
      <4>. QED
        BY <1>0, <1>3, <2>3
    <3>. HIDE DEF A
    <3>2. \E i \in A : At(w, A) = w[i]
      BY <1>0, <1>3, <3>1, AtIs, Zenon
    <3>. QED
      BY <1>3, <2>3, <3>2
  <2>5. GetNumber(f, uri, a, c) = Known(f, uri, a, c, o)
    <3>1. f \in Dir(o) /\ NoneYet(f, f.directory[uri], Len(f.directory[uri]), uri, a, c)
      BY <1>2, <2>1 DEF w
    <3>2. At(f.directory[uri], Accepted(f, f.directory[uri], a, c)) = o
      BY <2>4 DEF w
    <3>. HIDE DEF o
    <3>. QED
      BY <1>0, <2>2, <3>1, <3>2, AskNone
  <2>6. GetNumber(f, uri, a, c)[2] = o
    BY <1>0, <2>5 DEF Known
  <2>. HIDE DEF o
  <2>. QED
    BY <1>1, <1>2, <2>6 DEF FoundAgain, SameAs
<1>. QED
  BY <1>6, <1>7

LEMMA FoundWith ==
  ASSUME NEW n \in Nat, NEW d \in Dir(n), NEW uri \in Uris, NEW a \in MaybeAccount,
         NEW c \in Contacts
  PROVE  FoundAgain(GetNumber(d, uri, a, c), <<uri, a, c>>)
<1>. DEFINE q == d.directory[uri]
            r == FillDetails(d, q, uri, a, c)
            e == r[1]
<1>0. c \in MaybeContact /\ q \in Seq(1..n)
  BY WrapIs DEF MaybeContact
<1>1. r \in Dir(n) \X (0..n)
  BY <1>0, FillDetailsStays
<1>2. Pass(n, d, q, Len(q), uri, a, c, r)
  BY <1>0, PassIs
<1>3. CASE r[2] # 0
  <2>1. r = <<e, r[2]>> /\ e \in Dir(n) /\ r[2] \in 1..n
    <3>. HIDE DEF r
    <3>. QED
      BY <1>1, <1>3
  <2>2. PICK x \in 1..n : r = <<e, x>>
    BY <2>1
  <2>. HIDE DEF e
  <2>. QED
    BY <2>1, <2>2, FoundByFirst, FoundByLonger
<1>4. CASE r[2] = 0
  <2>. HIDE DEF r
  <2>1. r = <<e, 0>> /\ e \in Dir(n)
    BY <1>1, <1>4
  <2>2. NoneYet(e, q, Len(q), uri, a, c) /\ e.directory = d.directory
    BY <1>2, <1>4 DEF Pass, Gained
  <2>3. FillDetails(e, e.directory[uri], uri, a, c) = <<e, 0>>
    BY <1>0, <2>1, <2>2, NoneAgain
  <2>4. GetNumber(d, uri, a, c) = GetNumber(e, uri, a, c)
    <3>1. FillDetails(d, d.directory[uri], uri, a, c) = FillDetails(e, e.directory[uri], uri, a, c)
      BY <2>1, <2>3 DEF r
    <3>. QED
      BY <3>1 DEF GetNumber, FromFound, Candidates
  <2>5. FoundAgain(GetNumber(e, uri, a, c), <<uri, a, c>>)
    <3>. HIDE DEF e
    <3>1. NoneYet(e, e.directory[uri], Len(e.directory[uri]), uri, a, c)
      BY <2>2
    <3>. QED
      BY <2>1, <3>1, FoundByAccount, FoundByChance, FoundNew
  <2>. QED
    BY <2>4, <2>5 DEF FoundAgain
<1>. QED
  BY <1>3, <1>4

(* Whoever asks for a number twice gets the same number.                   *)
LEMMA DirectoryAsks == dir \in Directories => AsksAgain
<1>. SUFFICES ASSUME dir \in Directories, NEW t \in Asked
              PROVE  FoundAgain(GetNumber(dir, t[1], t[2], t[3]), t)
  BY DEF AsksAgain
<1>1. PICK n \in Nat : dir \in Dir(n)
  BY DEF Directories
<1>2. /\ t[1] \in Uris /\ t[2] \in MaybeAccount /\ t[3] \in Contacts \union {None}
      /\ t = <<t[1], t[2], t[3]>>
  BY DEF Asked, MaybeAccount
<1>3. CASE t[3] = None
  BY <1>1, <1>2, <1>3, FoundWithout
<1>4. CASE t[3] \in Contacts
  BY <1>1, <1>2, <1>4, FoundWith
<1>. QED
  BY <1>2, <1>3, <1>4

(* Whoever asks for a number twice, with the same words, gets the same     *)
(* number (getNumber, fillDetails, setAccount, merge).                     *)
THEOREM AsksCorrect == DirectorySpec => []AsksAgain
<1>1. DirectoryInit => dir \in Directories
  BY InitDirectory
<1>2. dir \in Directories /\ [DirectoryNext]_dir => (dir \in Directories)'
  BY NextDirectory
<1>3. dir \in Directories => AsksAgain
  BY DirectoryAsks
<1>. QED
  BY <1>1, <1>2, <1>3, PTL DEF DirectorySpec
=============================================================================
