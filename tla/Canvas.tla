------------------------------- MODULE Canvas -------------------------------
(***************************************************************************)
(* What is drawn over the list of calls: the CanvasObjectManager, a state  *)
(* machine over hints (tips) and one widget, the TipManager that animates  *)
(* the tips and calls the state machine back, the EventManager that turns  *)
(* what happens to calls, accounts and the mouse into its events, and the  *)
(* list of completions, which appears and goes by those events while a     *)
(* number is typed.                                                        *)
(*                                                                         *)
(* The manager and the tips call each other inside one handler: hiding a   *)
(* tip may emit transitionStarted, whose slot starts the next object       *)
(* before the first call has returned.  `canvas' is therefore a record     *)
(* that every operator takes and returns, in the order of the calls.       *)
(***************************************************************************)
EXTENDS Completion

VARIABLES
    canvas,    \* The manager, the tips and whether the widget is visible.
    call,      \* The number being typed: no call, "dialing", or "started".
    typed,     \* That call has digits.
    watched,   \* NumberCompletionModel::m_pCall is that call.
    enabled,   \* NumberCompletionModel::m_Enabled.
    book,      \* The directory as the prefix sees it, NoBook without a list.
    offered    \* The entries the completion offers.

canvasVars == <<canvas, call, typed, watched, enabled, book, offered>>
callVars == <<call, typed, watched, enabled, book, offered>>

-----------------------------------------------------------------------------
(* The table of canvas objects.                                            *)

Objects == {"NoObject", "DialInfo", "EndCall", "Ringing", "Network", "AutoComplete",
            "DropInfo", "ConfInfo", "AccountDown"}

Events == {"NO_CALLS", "NETWORK_ERROR", "UNREGISTERED_ACCOUNT", "REGISTERED_ACCOUNT",
           "DRAG_MOVE", "DRAG_LEAVE", "DROP", "CALL_RINGING", "CALL_STATE_CHANGED",
           "CALL_DIALING_CHANGED", "CALL_COUNT_CHANGED", "CALL_BUSY", "CALL_ENDED",
           "USER_CANCEL"}

IsWidget(o) == o = "AutoComplete"
\* Faulty form: EndCall waits for an event.
NeverTimed(o) == FALSE

IsTimed(o) == o = "EndCall"
SkipAnimation(o) == o = "AutoComplete"

Priority ==
    [o \in Objects |-> IF o = "NoObject" THEN 0
                       ELSE IF o \in {"DialInfo", "EndCall", "ConfInfo"} THEN 1
                       ELSE IF o \in {"Ringing", "Network", "DropInfo"} THEN 2
                       ELSE 3]

InEvents ==
    [o \in Objects |->
       CASE o = "NoObject"     -> {}
         [] o = "DialInfo"     -> {"NO_CALLS"}
         [] o = "EndCall"      -> {"CALL_ENDED"}
         [] o = "Ringing"      -> {"CALL_RINGING"}
         [] o = "Network"      -> {"NETWORK_ERROR"}
         [] o = "AutoComplete" -> {"CALL_DIALING_CHANGED"}
         [] o = "DropInfo"     -> {"DRAG_MOVE"}
         [] o = "ConfInfo"     -> {"CALL_COUNT_CHANGED"}
         [] o = "AccountDown"  -> {"UNREGISTERED_ACCOUNT"}]

OutEvents ==
    [o \in Objects |->
       CASE o = "Ringing"      -> {"CALL_STATE_CHANGED", "CALL_ENDED", "CALL_BUSY"}
         [] o = "Network"      -> {"REGISTERED_ACCOUNT", "CALL_RINGING"}
         [] o = "AutoComplete" -> {"CALL_STATE_CHANGED", "CALL_ENDED", "CALL_RINGING",
                                   "CALL_BUSY", "USER_CANCEL"}
         [] o = "DropInfo"     -> {"DRAG_LEAVE", "DROP"}
         [] OTHER              -> Events]

\* m_slEvents: an event that introduces nothing leads to the blank canvas.
ObjectOf(e) ==
    IF \E o \in Objects : e \in InEvents[o] THEN CHOOSE o \in Objects : e \in InEvents[o]
    ELSE "NoObject"

\* canvasObjectToTip: "none" is the null pointer.
TipOf(o) == IF o \in {"NoObject", "AutoComplete"} THEN "none" ELSE o

-----------------------------------------------------------------------------
(* The operations of the manager.  d.anim is the animation whose timer     *)
(* runs for the tip d.tip.                                                 *)

\* Faulty form: the timer is left running.
TimerLeft(d) == d

StopTimer(d) == [d EXCEPT !.timer = FALSE]
NoNext(d) == [d EXCEPT !.next = "NoObject"]
TakeNext(d) == NoNext([d EXCEPT !.cur = d.next])

\* setCurrentTip: the in animation starts, if there is a tip.
ShowTip(d, tip) ==
    IF tip = "none" THEN [d EXCEPT !.tip = "none", !.anim = "none"]
    ELSE [d EXCEPT !.tip = tip, !.anim = "in", !.state = "TRANSITION_IN"]

\* initiateInTransition where nothing has to go first, the state is NO_OBJECT.
Introduced(d, o) ==
    IF o = d.cur THEN d
    ELSE IF IsWidget(o) THEN [StopTimer(d) EXCEPT !.cur = o, !.widget = TRUE]
    ELSE ShowTip([d EXCEPT !.cur = o, !.timer = IsTimed(o)], TipOf(o))

\* slotTransitionEvents with state Stopped.
Stopped(d, forward) ==
    IF d.cur = "NoObject"
    THEN IF d.next = "NoObject" THEN [d EXCEPT !.state = "NO_OBJECT"]
         ELSE NoNext(Introduced([d EXCEPT !.state = "NO_OBJECT"], d.next))
    ELSE IF forward THEN [d EXCEPT !.state = "VISIBLE"]
    ELSE NoNext(Introduced([d EXCEPT !.state = "NO_OBJECT"], d.next))

\* hideCurrentTip: at once, which stops the transition before it returns ...
HideNow(d) == Stopped([d EXCEPT !.tip = "none", !.anim = "none"], FALSE)
\* ... or by the out animation of the tip there is.
HideSlowly(d) == [d EXCEPT !.anim = "out", !.state = "TRANSITION_OUT"]

OutTransition(d, skip) ==
    IF d.next = d.cur THEN d
    ELSE IF skip THEN NoNext(HideNow([StopTimer(d) EXCEPT !.cur = d.next]))
    ELSE IF d.cur = "NoObject" THEN d
    ELSE IF IsWidget(d.cur) THEN TakeNext([d EXCEPT !.widget = FALSE])
    ELSE IF SkipAnimation(d.next) THEN TakeNext(HideNow(d))
    ELSE IF d.tip = "none" THEN TakeNext(d)
    ELSE HideSlowly(d)

InTransition(d, o) ==
    IF o # d.cur /\ d.state # "NO_OBJECT" THEN OutTransition([d EXCEPT !.next = o], FALSE)
    ELSE Introduced(d, o)

\* The current object hears of the event first and may be discarded by it.
Discard(d, e) ==
    IF d.cur # "NoObject" /\ e \in OutEvents[d.cur]
    THEN OutTransition(d, SkipAnimation(ObjectOf(e))) ELSE d

Admits(d, o) == Priority[o] >= Priority[d.cur] \/ d.state = "TRANSITION_OUT"

NewEvent(d, e) ==
    LET left == Discard(d, e)
    IN  IF Admits(left, ObjectOf(e)) THEN InTransition(left, ObjectOf(e)) ELSE left

Blank == [cur |-> "NoObject", next |-> "NoObject", state |-> "NO_OBJECT", tip |-> "none",
          anim |-> "none", timer |-> FALSE, widget |-> FALSE]

-----------------------------------------------------------------------------
(* The list of completions.                                                *)

NoBook == [less |-> 0, equal |-> 0, greater |-> 0]

\* At start the hint how to call is shown if there is no call yet.
CanvasInit ==
    /\ canvas \in {Blank, NewEvent(Blank, "NO_CALLS")}
    /\ call = "none" /\ typed = FALSE
    /\ watched = FALSE /\ enabled = FALSE
    /\ book = NoBook /\ offered = {}

\* setPrefix, slotVisibilityChange and slotAutoCompletionVisibility: d is the
\* canvas, w whether the model looks at the call, c its state, t whether the
\* number it is told has digits.  A list that goes because the call left
\* DIALING forgets the call; only without a call is that a USER_CANCEL.
Watch(d, w, c, t) ==
    LET e      == w /\ c = "dialing" /\ t
        forget == enabled /\ c # "dialing"
    IN  /\ enabled' = e
        /\ watched' = (w /\ ~forget)
        /\ book' \in IF e THEN Shapes ELSE {NoBook}
        /\ offered' = IF e THEN GetRange(book') ELSE {}
        /\ canvas' = IF e = enabled THEN d
                     ELSE IF e THEN NewEvent(d, "CALL_DIALING_CHANGED")
                     ELSE IF watched' THEN d
                     ELSE NewEvent(d, "USER_CANCEL")

\* dialingCall and selectDialingCall: a new call without a number is selected.
Dial ==
    /\ call # "dialing"
    /\ call' = "dialing" /\ typed' = FALSE
    /\ Watch(canvas, TRUE, "dialing", FALSE)

\* appendText, setDialNumber: dialNumberChanged reaches the model only if it
\* looks at this call.
Type ==
    /\ call = "dialing"
    /\ typed' = TRUE
    /\ IF watched THEN Watch(canvas, TRUE, call, TRUE)
       ELSE UNCHANGED <<book, canvas, watched, enabled, offered>>
    /\ UNCHANGED call

\* backspaceItemText changes the number and tells nobody.
Erase ==
    /\ call = "dialing" /\ typed
    /\ typed' = FALSE
    /\ UNCHANGED <<canvas, call, watched, enabled, book, offered>>

\* AutoCompletion::selectionChanged: another row is selected, or this one again.
SelectOther ==
    /\ watched
    /\ UNCHANGED <<call, typed>>
    /\ Watch(canvas, FALSE, "none", FALSE)

SelectAgain ==
    /\ call = "dialing" /\ ~watched
    /\ Watch(canvas, TRUE, call, typed)
    /\ UNCHANGED <<call, typed>>

\* ACCEPT, with or without an entry of the list: CallPrivate::call empties the
\* number and says so, unless it was empty and the call fails.  (Choosing an
\* entry also resets the list, before or after: the same in the end.)
Place ==
    /\ call = "dialing"
    /\ call' = "started"
    /\ UNCHANGED typed
    /\ IF typed THEN Watch(canvas, watched, "started", FALSE)
       ELSE UNCHANGED <<canvas, watched, enabled, book, offered>>

\* REFUSE, or backspace on an empty number: the row goes, and the selection.
Cancel ==
    /\ call = "dialing"
    /\ call' = "none"
    /\ UNCHANGED typed
    /\ Watch(canvas, FALSE, "none", FALSE)

-----------------------------------------------------------------------------
(* What happens to other calls, accounts and the mouse: the slots of       *)
(* EventManager.                                                           *)

\* updateWindowCallState: two calls in progress, none dialing, no conference.
Counted(d, two) == IF two THEN NewEvent(d, "CALL_COUNT_CHANGED") ELSE d

Happens(es) == canvas' \in {NewEvent(canvas, e) : e \in es} /\ UNCHANGED callVars

\* slotCallStateChanged, followed by updateWindowCallState: the daemon reports
\* a state, of the call that was placed or of another one.
CallStateChanged ==
    /\ \E e \in {"CALL_RINGING", "CALL_ENDED", "CALL_BUSY", "CALL_STATE_CHANGED"},
          two \in BOOLEAN : canvas' = Counted(NewEvent(canvas, e), two)
    /\ UNCHANGED callVars

\* slotIncomingCall and on1_incomingCall, which selects the new row.
IncomingCall ==
    /\ UNCHANGED <<call, typed>>
    /\ \E two \in BOOLEAN :
         Watch(Counted(NewEvent(canvas, "CALL_RINGING"), two), FALSE, "none", FALSE)

RegistrationChanged == Happens({"UNREGISTERED_ACCOUNT", "REGISTERED_ACCOUNT"})
NetworkDown == Happens({"NETWORK_ERROR"})
AccountListUpdated == Happens({"CALL_COUNT_CHANGED"})
DragMove == Happens({"DRAG_MOVE"})
DragLeave == Happens({"DRAG_LEAVE"})
\* Dropped on empty space: two events.
Drop == /\ canvas' = NewEvent(NewEvent(canvas, "DRAG_LEAVE"), "DROP")
        /\ UNCHANGED callVars

-----------------------------------------------------------------------------
(* The timers.                                                             *)

\* TipAnimationWrapper::step, the last of the 15 steps of an animation.
AnimationEnds ==
    /\ canvas.anim # "none"
    /\ canvas' = Stopped([canvas EXCEPT !.anim = "none"], canvas.anim = "in")
    /\ UNCHANGED callVars

\* slotTimeout of the single-shot timer.
slotTimeout ==
    /\ canvas.timer
    /\ canvas' = OutTransition(StopTimer(canvas), FALSE)
    /\ UNCHANGED callVars

CanvasNext ==
    \/ Dial \/ Type \/ Erase \/ SelectOther \/ SelectAgain \/ Place \/ Cancel
    \/ CallStateChanged \/ IncomingCall \/ RegistrationChanged \/ NetworkDown
    \/ AccountListUpdated \/ DragMove \/ DragLeave \/ Drop
    \/ AnimationEnds \/ slotTimeout

CanvasSpec == CanvasInit /\ [][CanvasNext]_canvasVars

\* The event loop serves its timers; nobody has to call, type or drag.
CanvasFairSpec == CanvasSpec /\ WF_canvasVars(AnimationEnds) /\ WF_canvasVars(slotTimeout)

-----------------------------------------------------------------------------
(* Properties.                                                             *)

\* Types.
CanvasTypeOK ==
    /\ canvas.cur \in Objects /\ canvas.next \in Objects
    /\ canvas.state \in {"NO_OBJECT", "TRANSITION_IN", "TRANSITION_OUT", "VISIBLE"}
    /\ canvas.tip \in {TipOf(o) : o \in Objects}
    /\ canvas.anim \in {"none", "in", "out"}
    /\ canvas.timer \in BOOLEAN /\ canvas.widget \in BOOLEAN
    /\ call \in {"none", "dialing", "started"}
    /\ typed \in BOOLEAN /\ watched \in BOOLEAN /\ enabled \in BOOLEAN
    /\ book \in Shapes \cup {NoBook} /\ offered \subseteq 1 .. Size(book)

\* The state machine and the tips, which tell each other what they do by
\* signals that arrive in the middle of the other's handlers, agree: a
\* transition lasts exactly as long as its animation, and what moves or is
\* visible is the tip of the current object.  The one timer is EndCall's:
\* whatever replaced it while the timer ran is not taken away when it fires.
StateAgrees ==
    /\ (canvas.state = "TRANSITION_IN") = (canvas.anim = "in")
    /\ (canvas.state = "TRANSITION_OUT") = (canvas.anim = "out")
    /\ canvas.state # "NO_OBJECT" => canvas.tip = TipOf(canvas.cur) /\ canvas.tip # "none"
    /\ canvas.state = "NO_OBJECT" => canvas.next = "NoObject"
    /\ canvas.timer => canvas.cur = "EndCall"

\* The search never misses a match unless nothing in the directory is greater
\* than the prefix.
MatchesOffered ==
    enabled /\ book.greater > 0 => Matching(book) \subseteq offered

\* The hint that a call ended goes away by itself.
EndCallGoes == canvas.cur = "EndCall" ~> canvas.cur # "EndCall"
=============================================================================
