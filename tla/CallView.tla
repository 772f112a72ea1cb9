------------------------------ MODULE CallView ------------------------------
(***************************************************************************)
(* The call view and what the user does in it: keys and macros             *)
(* (src/src/eventmanager.cpp), menu and shortcuts                          *)
(* (src/src/actioncollection.cpp), the toolbar over the calls              *)
(* (src/src/widgets/callviewtoolbar.cpp, src/src/lib/useractionmodel.cpp), *)
(* the transfer overlay (src/src/widgets/callviewoverlay.cpp) and the      *)
(* selection (src/src/sflphoneview.cpp), over several calls.               *)
(*                                                                         *)
(* A call is here its state; module Call has the rest.  Conferences are    *)
(* in CallTree.  A handler runs to its end, with every signal it emits;    *)
(* its operators take the view as a record and give the view after them.   *)
(***************************************************************************)
EXTENDS Integers, CallTables, Macro, SequencesExt

CONSTANT MaxCalls   (* bound: calls that ever exist *)

ASSUME MaxCallsAssumption == MaxCalls \in Nat \ {0}

VARIABLE view

vars == <<view, macroVars>>

None  == 0
Calls == 1..MaxCalls

UserAction == {"PICKUP", "HOLD", "UNHOLD", "MUTE", "TRANSFER", "RECORD",
               "REFUSE", "ACCEPT", "HANGUP"}
MenuAction == {"Accept", "Refuse", "Hold", "Transfer", "Record", "Mailbox"}

View == [state   : [Calls -> CallState \union {"NONE"}],
         rows    : Seq(Calls),                  (* m_lInternalModel         *)
         tracked : SUBSET Calls,                (* found by id              *)
         known   : SUBSET Calls,                (* known to the daemon      *)
         typed   : SUBSET Calls,                (* number not empty         *)
         dialled : SUBSET Calls,                (* has a transfer number    *)
         current : Calls \union {None},         (* current row of m_pView   *)
         offered : SUBSET UserAction,           (* buttons of the toolbar   *)
         visible : SUBSET MenuAction,           (* actions of the menu      *)
         overlay : BOOLEAN,                     (* transfer overlay shown   *)
         overlayCall : Calls \union {None}]     (* its m_pCurrentCall       *)

-----------------------------------------------------------------------------
(* What the view offers.                                                   *)

(* Columns of the table; INITIALIZATION has none and offers nothing. *)
availableActions(s) ==
  {u \in UserAction :
     \/ u = "PICKUP"   /\ s \in {"INCOMING", "RINGING"}
     \/ u = "HOLD"     /\ s \in {"CURRENT", "TRANSFERRED", "CONFERENCE"}
     \/ u = "UNHOLD"   /\ s = "HOLD"
     \/ u = "MUTE"     /\ s \in {"RINGING", "CURRENT"}
     \/ u = "TRANSFER" /\ s \in {"CURRENT", "HOLD"}
     \/ u = "RECORD"   /\ s \in {"RINGING", "CURRENT", "HOLD", "TRANSFERRED",
                                 "TRANSF_HOLD", "CONFERENCE", "CONFERENCE_HOLD"}
     \/ u = "REFUSE"   /\ s = "INCOMING"
     \/ u = "ACCEPT"   /\ s = "DIALING"
     \/ u = "HANGUP"   /\ s \notin {"INCOMING", "OVER", "INITIALIZATION"}}

(* The menu in a state; elsewhere everything is shown. *)
menuActions(s) ==
  IF s \in {"RINGING", "INITIALIZATION"}
    THEN MenuAction \ {"Hold", "Transfer"}
  ELSE IF s \in {"DIALING", "FAILURE", "BUSY"}
    THEN MenuAction \ {"Hold", "Transfer", "Record"}
  ELSE IF s \in {"CONFERENCE", "CONFERENCE_HOLD"}
    THEN MenuAction \ {"Transfer"}
  ELSE MenuAction

(* CallViewToolbar::updateState; it also selects the first call when there *)
(* is no selection.                                                        *)
updateState(v) ==
  LET c == IF v.current = None /\ v.rows # <<>> THEN Head(v.rows) ELSE v.current
  IN  [v EXCEPT !.current = c,
                !.offered = IF c = None THEN {} ELSE availableActions(v.state[c])]

(* updateWindowCallState: the menu, and the overlay of a call being        *)
(* transferred.                                                            *)
updateWindowCallState(v) ==
  LET c == v.current IN
  IF c = None THEN [v EXCEPT !.visible = {"Accept", "Mailbox"}]
  ELSE IF v.state[c] = "TRANSFERRED"
    THEN [v EXCEPT !.visible = MenuAction, !.overlay = TRUE, !.overlayCall = c]
  ELSE [v EXCEPT !.visible = menuActions(v.state[c])]

(* Faulty form: the toolbar is not told. *)
menuIsTold(v) == updateWindowCallState(v)

(* The slots of callStateChanged. *)
callStateChanged(v) == updateState(updateWindowCallState(v))

setCurrentIndex(v, c) ==
  IF v.current = c THEN v ELSE updateState([v EXCEPT !.current = c])

-----------------------------------------------------------------------------
(* The calls.                                                              *)

(* Faulty form: the layout does not change. *)
removeQuietly(v, c) == [v EXCEPT !.rows = RemoveFirst(v.rows, c), !.tracked = v.tracked \ {c}]

(* removeCall.  The row of the current call takes the selection with it,   *)
(* and layoutChanged makes the toolbar select another.                     *)
removeCall(v, c) ==
  updateState([v EXCEPT !.rows = RemoveFirst(v.rows, c),
                        !.tracked = v.tracked \ {c},
                        !.current = IF v.current = c THEN None ELSE v.current])

(* changeCurrentState with slotCallChanged: only TRANSFERRED is announced  *)
(* to the views.                                                           *)
changeCurrentState(v, c, s) ==
  LET w == [v EXCEPT !.state[c] = s] IN
  IF s = "TRANSFERRED" THEN callStateChanged(w)
  ELSE IF s \in {"OVER", "ERROR"} THEN removeCall(w, c)
  ELSE w

(* call: without a number the call fails; the number is gone once placed.  *)
call(v, c) ==
  IF c \in v.typed
    THEN [v EXCEPT !.typed = v.typed \ {c}, !.known = v.known \union {c}]
    ELSE changeCurrentState(v, c, "FAILURE")

(* Call::performAction; ok is the daemon's answer to hangUp and refuse.    *)
performAction(v, c, a, ok) ==
  LET s == v.state[c]
      f == actionPerformedFunctionMap[s][a]
      w == changeCurrentState(v, c, actionPerformedStateMap[s][a])
  IN  IF f = "refuse" /\ ~ok THEN changeCurrentState(w, c, "ERROR")
      ELSE IF f \in {"hangUp", "cancel"} /\ ~ok THEN changeCurrentState(w, c, "OVER")
      ELSE IF f = "call" THEN call(w, c)
      ELSE w

Dialing(v)  == {c \in ToSet(v.rows) : v.state[c] = "DIALING"}
Unused(v)   == {c \in Calls : v.state[c] = "NONE"}
New(v)      == CHOOSE c \in Unused(v) : \A d \in Unused(v) : c <= d
HasRoom(v)  == Unused(v) # {} \/ Dialing(v) # {}

(* addCall *)
addCall(v, c, s) ==
  updateState([v EXCEPT !.state[c] = s, !.rows = Append(v.rows, c),
                        !.tracked = v.tracked \union {c}])

(* CallModel::dialingCall: the dialing call there is, or a new one; an     *)
(* account to dial from exists.                                            *)
dialingCall(v) ==
  IF Dialing(v) # {} THEN v
  ELSE [addCall(v, New(v), "DIALING") EXCEPT !.dialled = v.dialled \union {New(v)}]

DialingOf(v) == CHOOSE c \in Dialing(v) : TRUE

selectDialingCall(v) ==
  IF Dialing(v) = {} THEN v ELSE setCurrentIndex(v, DialingOf(v))

appendText(v, c) ==
  IF v.state[c] = "DIALING" THEN [v EXCEPT !.typed = v.typed \union {c}] ELSE v

-----------------------------------------------------------------------------
(* The transfer overlay.                                                   *)

(* setVisible(false) leaves the transfer mode of its call. *)
hideOverlay(v) ==
  LET c == v.overlayCall
      w == IF c # None /\ v.state[c] = "TRANSFERRED"
             THEN performAction(v, c, "TRANSFER", TRUE) ELSE v
  IN  [w EXCEPT !.overlay = FALSE, !.overlayCall = None]

(* CallModel::transfer, all before the daemon answers. *)
transfer(v, c) ==
  LET entered  == performAction(v, c, "TRANSFER", TRUE)
      forced   == changeCurrentState(entered, c, "TRANSFERRED")
      accepted == performAction(forced, c, "ACCEPT", TRUE)
  IN  changeCurrentState(accepted, c, "OVER")

slotTransferClicked(v) == hideOverlay(transfer(v, v.overlayCall))

(* CallModel::attendedTransfer ends both calls; the overlay offers every   *)
(* call there is.                                                          *)
slotAttendedTransfer(v, other) ==
  hideOverlay(changeCurrentState(changeCurrentState(v, v.overlayCall, "OVER"), other, "OVER"))

-----------------------------------------------------------------------------
(* Keys.                                                                   *)

(* typeString: DTMF into the current call if it is the selected one;       *)
(* otherwise the calls in progress are asked to hold, which changes no     *)
(* state before the daemon answers, and the text goes to a dialing call.   *)
typeString(v) ==
  IF v.current # None /\ v.state[v.current] = "CURRENT" THEN v
  ELSE IF Dialing(v) # {}
    THEN appendText(selectDialingCall(v), DialingOf(v))
  ELSE LET w == selectDialingCall(dialingCall(v))
       IN  appendText(updateWindowCallState(w), DialingOf(w))

backspace(v, more) ==
  LET c == v.current
      s == v.state[c]
  IN  IF c = None THEN v
      ELSE IF s = "DIALING" /\ c \in v.typed
        THEN IF more THEN v ELSE [v EXCEPT !.typed = v.typed \ {c}]
      ELSE IF s = "DIALING" \/ (s \in {"TRANSFERRED", "TRANSF_HOLD"} /\ c \in v.dialled)
        THEN changeCurrentState(v, c, "OVER")
      ELSE v

(* The action of Escape. *)
escapeAction(s) == IF s \in {"TRANSFERRED", "TRANSF_HOLD"} THEN "TRANSFER" ELSE "REFUSE"

escape(v, ok) ==
  IF v.overlay THEN updateWindowCallState(hideOverlay(v))
  ELSE IF v.current = None THEN v
  ELSE performAction(v, v.current, escapeAction(v.state[v.current]), ok)

enter(v, ok) ==
  LET c == v.current IN
  IF c = None THEN v
  ELSE IF v.state[c] \in {"DIALING", "INCOMING", "TRANSFERRED", "TRANSF_HOLD"}
    THEN performAction(v, c, "ACCEPT", ok)
  ELSE IF v.state[c] = "HOLD" THEN performAction(v, c, "HOLD", ok)
  ELSE v

(* Enter, or a double click, on a number of the completion list. *)
enterCompletion(v) ==
  LET c == v.current IN
  IF c # None /\ v.state[c] = "DIALING"
    THEN performAction([v EXCEPT !.typed = v.typed \union {c}], c, "ACCEPT", TRUE)
    ELSE v

addDTMF(v, key, ok) ==
  IF key = "enter" THEN enter(v, ok) ELSE IF key = "digit" THEN typeString(v) ELSE v

-----------------------------------------------------------------------------
(* Menu and toolbar.                                                       *)

openDialingCall(v) == updateWindowCallState(selectDialingCall(dialingCall(v)))

accept(v, ok) ==
  LET c == v.current IN
  IF c = None THEN openDialingCall(v)
  ELSE IF v.state[c] \in {"RINGING", "CURRENT", "HOLD", "BUSY", "FAILURE", "ERROR"}
    THEN openDialingCall(v)
  ELSE performAction(v, c, "ACCEPT", ok)

(* The number of the mail box replaces what was typed, and is dialled;     *)
(* dropping a number on the empty canvas does the same with that number.   *)
mailBox(v) ==
  LET w == dialingCall(v)
      c == DialingOf(w)
  IN  performAction([w EXCEPT !.typed = w.typed \union {c}], c, "ACCEPT", TRUE)

OnSelected(v, a, ok) == IF v.current = None THEN v ELSE performAction(v, v.current, a, ok)

(* The slots of ActionCollection. *)
triggered(v, a, ok) ==
  IF a = "Accept" THEN accept(v, ok)
  ELSE IF a = "Mailbox" THEN mailBox(v)
  ELSE OnSelected(v, [Refuse |-> "REFUSE", Hold |-> "HOLD", Transfer |-> "TRANSFER",
                      Record |-> "RECORD"][a], ok)

(* The menu action a button of the toolbar triggers. *)
MenuActionOf(u) ==
  IF u \in {"PICKUP", "ACCEPT"} THEN "Accept"
  ELSE IF u \in {"HANGUP", "REFUSE"} THEN "Refuse"
  ELSE IF u \in {"HOLD", "UNHOLD"} THEN "Hold"
  ELSE IF u = "TRANSFER" THEN "Transfer"
  ELSE "Record"

-----------------------------------------------------------------------------
(* Actions.                                                                *)

KeepsMacro == UNCHANGED macroVars

TypeKey  == HasRoom(view) /\ view' = typeString(view) /\ KeepsMacro
Enter    == (\E ok \in BOOLEAN : view' = enter(view, ok)) /\ KeepsMacro
Complete == view' = enterCompletion(view) /\ KeepsMacro
Erase    == (\E more \in BOOLEAN : view' = backspace(view, more)) /\ KeepsMacro
Escape   == (\E ok \in BOOLEAN : view' = escape(view, ok)) /\ KeepsMacro

(* The macro types one character, in an execution or at a timeout. *)
MacroExecute ==
  /\ HasRoom(view)
  /\ \E ok \in BOOLEAN : view' = addDTMF(view, Typed(sequence), ok)
  /\ execute

MacroTimeout ==
  /\ HasRoom(view)
  /\ \E ok \in BOOLEAN : view' = addDTMF(view, Typed(escaped), ok)
  /\ Timeout

MacroEdit == setSequence /\ UNCHANGED view

(* A menu entry or its shortcut. *)
Menu(a, ok) ==
  /\ a \in view.visible
  /\ HasRoom(view)
  /\ view' = triggered(view, a, ok)
  /\ KeepsMacro

(* A button of the toolbar; muting changes no call. *)
Button(u, ok) ==
  /\ u \in view.offered \ {"MUTE"}
  /\ HasRoom(view)
  /\ view' = triggered(view, MenuActionOf(u), ok)
  /\ KeepsMacro

DropNumber == HasRoom(view) /\ view' = mailBox(view) /\ KeepsMacro

OverlayTransfer ==
  /\ view.overlay /\ view.overlayCall # None
  /\ view' = slotTransferClicked(view)
  /\ KeepsMacro

OverlayAttended(other) ==
  /\ view.overlay /\ view.overlayCall # None
  /\ other \in ToSet(view.rows) \ {view.overlayCall}
  /\ view' = slotAttendedTransfer(view, other)
  /\ KeepsMacro

Select(c) ==
  /\ c \in ToSet(view.rows)
  /\ view' = setCurrentIndex(view, c)
  /\ KeepsMacro

(* The timer of a call in progress: a call in TRANSFERRED is announced     *)
(* again each second.                                                      *)
Refresh ==
  /\ \E c \in Calls : view.state[c] = "TRANSFERRED"
  /\ view' = callStateChanged(view)
  /\ KeepsMacro

(* slotCallStateChanged of a call the client knows. *)
StateChanged(c, d) ==
  /\ c \in view.tracked \intersect view.known
  /\ LET old  == view.state[c]
         s    == stateChangedStateMap[old][d]
         w    == changeCurrentState([view EXCEPT !.typed = view.typed \ {c}], c, s)
         over == d = "HUNG_UP" \/ (old \notin Finished /\ s = "OVER")
     IN  view' = callStateChanged(IF over THEN removeCall(w, c) ELSE w)
  /\ KeepsMacro

(* A call of another client of the daemon begins to ring. *)
RingingCall ==
  /\ Unused(view) # {}
  /\ LET c == New(view)
         w == addCall(view, c, "RINGING")
     IN  view' = callStateChanged([w EXCEPT !.known = w.known \union {c}])
  /\ KeepsMacro

(* slotIncomingCall and on1_incomingCall, which selects the call. *)
IncomingCall ==
  /\ Unused(view) # {}
  /\ LET c == New(view)
         w == updateWindowCallState(addCall(view, c, "INCOMING"))
     IN  view' = setCurrentIndex([w EXCEPT !.known = w.known \union {c}], c)
  /\ KeepsMacro

Init ==
  /\ view = [state |-> [c \in Calls |-> "NONE"], rows |-> <<>>, tracked |-> {}, known |-> {},
             typed |-> {}, dialled |-> {}, current |-> None, offered |-> {},
             visible |-> {"Accept", "Mailbox"}, overlay |-> FALSE, overlayCall |-> None]
  /\ MacroInit

Next ==
  \/ TypeKey \/ Enter \/ Complete \/ Erase \/ Escape
  \/ MacroExecute \/ MacroTimeout \/ MacroEdit
  \/ \E a \in MenuAction, ok \in BOOLEAN : Menu(a, ok)
  \/ \E u \in UserAction, ok \in BOOLEAN : Button(u, ok)
  \/ DropNumber \/ OverlayTransfer
  \/ \E c \in Calls : OverlayAttended(c)
  \/ \E c \in Calls : Select(c)
  \/ Refresh
  \/ \E c \in Calls, d \in DaemonState : StateChanged(c, d)
  \/ RingingCall \/ IncomingCall

Spec == Init /\ [][Next]_vars

-----------------------------------------------------------------------------
(* Types of the variables; the rows are the calls not over yet, once each. *)
TypeOK ==
  /\ view.state \in [Calls -> CallState \union {"NONE"}]
  /\ ToSet(view.rows) \subseteq Calls /\ IsInjective(view.rows)
  /\ view.tracked \subseteq Calls /\ view.known \subseteq Calls
  /\ view.typed \subseteq Calls /\ view.dialled \subseteq Calls
  /\ view.offered \subseteq UserAction /\ view.visible \subseteq MenuAction
  /\ view.overlay \in BOOLEAN
  /\ view.overlayCall \in Calls \union {None}
  /\ position \in Nat /\ timers \in 0..MaxTimers

(* While there are calls, one of them is selected, whatever removed the    *)
(* one that was: keys and menu never act on a call without a row           *)
(* (updateState selects when removeCall took the selection along).         *)
SelectionInRows ==
  IF view.rows = <<>> THEN view.current = None ELSE view.current \in ToSet(view.rows)

(* No button of the toolbar leads the selected call into ERROR although    *)
(* the daemon did as it was told, not even when the call moved on without  *)
(* the toolbar being told (useractionmodel.cpp, availableActionMap).       *)
ButtonsApply ==
  [][\A u \in UserAction, c \in Calls :
       Button(u, TRUE) /\ view.state[c] # "ERROR" => view'.state[c] # "ERROR"]_vars
=============================================================================
