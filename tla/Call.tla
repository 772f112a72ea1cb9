-------------------------------- MODULE Call --------------------------------
(***************************************************************************)
(* One call of the client, followed from the daemon signal or the user     *)
(* action that creates it to the end: class Call / CallPrivate             *)
(* (src/src/lib/call.cpp), with what CallModel (src/src/lib/callmodel.cpp) *)
(* does around it in the same handler, because every state change is       *)
(* signalled synchronously to CallModel::slotCallChanged.                  *)
(*                                                                         *)
(* The user and the daemon act on the call in any order.  The daemon       *)
(* (sflphoned, another process) is not modelled: once it knows the call it *)
(* may send any state, at any time, because its signals are queued on      *)
(* D-Bus behind whatever the user did meanwhile.                           *)
(***************************************************************************)
EXTENDS Integers, CallTables

CONSTANTS
  MaxTime,     (* bound: the last second of the clock                      *)
  MaxDigits,   (* bound: the longest number the user types                 *)
  MaxEntries   (* bound: history entries after which the daemon is quiet   *)

ASSUME MaxTimeAssumption    == MaxTime    \in Nat \ {0}
ASSUME MaxDigitsAssumption  == MaxDigits  \in Nat
ASSUME MaxEntriesAssumption == MaxEntries \in Nat \ {0}

VARIABLES
  state,          (* m_CurrentState, "NONE" before the object exists       *)
  type,           (* m_Type: a call, or a conference seen as a call        *)
  timer,          (* m_pTimer: none (null), running, stopped               *)
  listed,         (* the call is shown in the tree (slotCallChanged is     *)
                  (* connected to it exactly then)                         *)
  tracked,        (* m_sPrivateCallList_callId still finds it              *)
  dialNumber,     (* m_pDialNumber: NoNumber or the length of its uri      *)
  transferNumber, (* m_pTransferNumber, likewise                           *)
  peer,           (* m_pPeerPhoneNumber is set                             *)
  account,        (* m_Account is set                                      *)
  startTime,      (* m_pStartTimeStamp, 0 when never set                   *)
  stopTime,       (* m_pStopTimeStamp, 0 when never set                    *)
  now,            (* time()                                                *)
  missed,         (* m_Missed                                              *)
  historyState,   (* m_HistoryState                                        *)
  direction,      (* m_Direction                                           *)
  recording,      (* m_Recording                                           *)
  known,          (* the daemon was told of, or announced, this call       *)
  request,        (* the D-Bus requests of the latest handler              *)
  entries,        (* entries HistoryModel holds for the call               *)
  saved           (* what the backend wrote, all 0 before the first entry  *)

numberVars == <<dialNumber, transferNumber, peer>>
stampVars  == <<startTime, stopTime>>
logVars    == <<missed, historyState, direction>>
treeVars   == <<listed, tracked>>
saveVars   == <<entries, saved>>
vars == <<state, type, timer, treeVars, numberVars, account, stampVars, now,
          logVars, recording, known, request, saveVars>>

NoNumber      == -1
NumberLength  == 0..MaxDigits
HistoryState  == {"INCOMING", "OUTGOING", "MISSED", "NONE"}
Request       == {"placeCall", "accept", "refuse", "hold", "unhold", "hangUp",
                  "transfer", "attendedTransfer", "toggleRecording"}
NotSaved      == [start |-> 0, stop |-> 0, missed |-> FALSE]

isMissed(m, h) == m \/ h = "MISSED"

-----------------------------------------------------------------------------
(* Changing state.                                                         *)

(* initTimer: the timer runs exactly while the call is in progress. *)
TimerAfter(s) == IF s \in InProgress THEN "running" ELSE "none"

(* Faulty form: slotCallChanged without its ERROR case. *)
SignalledForgetsError(seen) ==
  LET gone == listed /\ "OVER" \in seen
  IN  listed' = (listed /\ ~gone) /\ tracked' = (tracked /\ ~gone)

(* What each changeCurrentState signals synchronously: slotCallChanged     *)
(* takes a call that is over or in error out of the tree and out of the    *)
(* id map.  `seen` are the states the handler went through.                *)
Signalled(seen) ==
  LET gone == listed /\ \E s \in seen : s \in {"OVER", "ERROR"}
  IN  /\ listed'  = (listed /\ ~gone)
      /\ tracked' = (tracked /\ ~gone)

(* changeCurrentState, once per member of `seen`, last with s. *)
changeCurrentState(seen, s) ==
  /\ state' = s
  /\ timer' = TimerAfter(s)
  /\ Signalled(seen)

-----------------------------------------------------------------------------
(* The functions performAction runs, after the table set the state to s.   *)

Nothing(s) ==
  /\ changeCurrentState({s}, s)
  /\ request' = {}
  /\ UNCHANGED <<numberVars, account, stampVars, logVars, known>>

Accept(s) ==
  /\ changeCurrentState({s}, s)
  /\ request' = {"accept"}
  /\ startTime' = now
  /\ historyState' = "INCOMING"
  /\ direction' = "INCOMING"
  /\ UNCHANGED <<numberVars, account, stopTime, missed, known>>

(* The daemon answers FALSE when it no longer knows the call. *)
Refuse(s) ==
  /\ \E ret \in BOOLEAN :
        IF ret THEN changeCurrentState({s}, s)
               ELSE changeCurrentState({s, "ERROR"}, "ERROR")
  /\ request' = {"refuse"}
  /\ startTime' = now
  /\ historyState' = "MISSED"
  /\ missed' = TRUE
  /\ UNCHANGED <<numberVars, account, stopTime, direction, known>>

AcceptTransf(s) ==
  /\ changeCurrentState({s}, s)
  /\ request' = IF transferNumber = NoNumber THEN {} ELSE {"accept", "transfer"}
  /\ UNCHANGED <<numberVars, account, stampVars, logVars, known>>

AcceptHold(s) ==
  /\ changeCurrentState({s}, s)
  /\ request' = {"accept", "hold"}
  /\ historyState' = "INCOMING"
  /\ direction' = "INCOMING"
  /\ UNCHANGED <<numberVars, account, stampVars, missed, known>>

(* The stop time is taken before the daemon confirms; the timer stops but  *)
(* stays allocated.                                                        *)
HangUp(s) ==
  /\ \E ret \in BOOLEAN :
        IF ret THEN /\ state' = s
                    /\ timer' = IF s \in InProgress THEN "stopped" ELSE "none"
                    /\ Signalled({s})
               ELSE changeCurrentState({s, "OVER"}, "OVER")
  /\ request' = {"hangUp"}
  /\ stopTime' = now
  /\ UNCHANGED <<numberVars, account, startTime, logVars, known>>

(* remove and cancel end in the state the table chose: remove runs on      *)
(* finished states only, and cancel only with OVER, whatever hangUp says.  *)
RemoveCall(s) ==
  /\ changeCurrentState({s}, s)
  /\ request' = {"hangUp"}
  /\ UNCHANGED <<numberVars, account, stampVars, logVars, known>>

Cancel(s) == RemoveCall(s)

Ask(what, s) ==
  /\ changeCurrentState({s}, s)
  /\ request' = {what}
  /\ UNCHANGED <<numberVars, account, stampVars, logVars, known>>

(* m_pDialNumber is deleted and reset once it served; the faulty form      *)
(* leaves it to the call.                                                  *)
DialNumberKept == UNCHANGED dialNumber
DropDialNumber == dialNumber' = NoNumber

(* call(): an empty number fails the call; a missing account, after the    *)
(* current account was tried, throws, and performAction turns the          *)
(* exception into ERROR.  The result of placeCall is not looked at.        *)
PlaceCall(s) ==
  /\ \E current \in BOOLEAN : account' = (account \/ current)
  /\ IF dialNumber \in {NoNumber, 0}
       THEN /\ changeCurrentState({s, "FAILURE"}, "FAILURE")
            /\ DropDialNumber
            /\ request' = {}
            /\ UNCHANGED <<transferNumber, peer, startTime, historyState, direction, known>>
     ELSE IF account'
       THEN /\ changeCurrentState({s}, s)
            /\ peer' = TRUE
            /\ DropDialNumber
            /\ request' = {"placeCall"}
            /\ known' = TRUE
            /\ startTime' = now
            /\ historyState' = "OUTGOING"
            /\ direction' = "OUTGOING"
            /\ UNCHANGED transferNumber
       ELSE /\ changeCurrentState({s, "ERROR"}, "ERROR")
            /\ historyState' = "NONE"
            /\ request' = {}
            /\ UNCHANGED <<numberVars, startTime, direction, known>>
  /\ UNCHANGED <<stopTime, missed>>

Transfer(s) ==
  /\ changeCurrentState({s}, s)
  /\ IF transferNumber = NoNumber
       THEN request' = {} /\ UNCHANGED stopTime
       ELSE request' = {"transfer"} /\ stopTime' = now
  /\ UNCHANGED <<numberVars, account, startTime, logVars, known>>

performActionCallback(f, s) ==
  \/ f = "nothing" /\ Nothing(s)
  \/ f = "accept" /\ Accept(s)
  \/ f = "refuse" /\ Refuse(s)
  \/ f = "acceptTransf" /\ AcceptTransf(s)
  \/ f = "acceptHold" /\ AcceptHold(s)
  \/ f = "hangUp" /\ HangUp(s)
  \/ f = "remove" /\ RemoveCall(s)
  \/ f = "cancel" /\ Cancel(s)
  \/ f = "hold" /\ Ask("hold", s)
  \/ f = "unhold" /\ Ask("unhold", s)
  \/ f = "toggleRecord" /\ Ask("toggleRecording", s)
  \/ f = "call" /\ PlaceCall(s)
  \/ f = "transfer" /\ Transfer(s)

(* Call::performAction on a call of the tree: the table moves the state,   *)
(* then the function of the state it came from runs.                       *)
performAction(a) ==
  /\ listed
  /\ performActionCallback(actionPerformedFunctionMap[state][a],
                           actionPerformedStateMap[state][a])
  /\ UNCHANGED <<type, now, recording, saveVars>>

-----------------------------------------------------------------------------
(* Typing in the call: which number the keyboard edits.                    *)

EditsTransfer == state \in {"TRANSFERRED", "TRANSF_HOLD"}
EditsDial     == state = "DIALING"
EditNumber    == IF EditsDial THEN dialNumber ELSE transferNumber

SetEditNumber(n) ==
  /\ dialNumber'     = IF EditsDial THEN n ELSE dialNumber
  /\ transferNumber' = IF EditsDial THEN transferNumber ELSE n
  /\ UNCHANGED peer

Editing ==
  /\ listed
  /\ EditsDial \/ EditsTransfer
  /\ EditNumber # NoNumber

KeepsState == UNCHANGED <<state, timer, treeVars>>
KeepsRest  == UNCHANGED <<type, account, stampVars, now, logVars, recording,
                          known, saveVars>>

(* appendText *)
AppendText ==
  /\ Editing
  /\ EditNumber < MaxDigits
  /\ SetEditNumber(EditNumber + 1)
  /\ request' = {}
  /\ KeepsState /\ KeepsRest

(* backspaceItemText: deleting in an empty number ends the call, without a *)
(* word to the daemon.                                                     *)
BackspaceItemText ==
  /\ Editing
  /\ IF EditNumber > 0
       THEN SetEditNumber(EditNumber - 1) /\ KeepsState
       ELSE changeCurrentState({"OVER"}, "OVER") /\ UNCHANGED numberVars
  /\ request' = {}
  /\ KeepsRest

(* reset *)
Reset ==
  /\ Editing
  /\ SetEditNumber(0)
  /\ request' = {}
  /\ KeepsState /\ KeepsRest

(* setDialNumber *)
SetDialNumber(n) ==
  /\ listed /\ EditsDial
  /\ SetEditNumber(n)
  /\ request' = {}
  /\ KeepsState /\ KeepsRest

(* peerPhoneNumber and dialNumber, which every view calls, create the      *)
(* temporary numbers of a dialing call the first time.                     *)
ReadPeerPhoneNumber ==
  /\ listed /\ EditsDial
  /\ NoNumber \in {dialNumber, transferNumber}
  /\ dialNumber'     = IF dialNumber = NoNumber THEN 0 ELSE dialNumber
  /\ transferNumber' = IF transferNumber = NoNumber THEN 0 ELSE transferNumber
  /\ request' = {}
  /\ UNCHANGED peer
  /\ KeepsState /\ KeepsRest

(* setAccount *)
SetAccount(a) ==
  /\ listed /\ EditsDial
  /\ account' = a
  /\ request' = {}
  /\ UNCHANGED <<type, numberVars, stampVars, now, logVars, recording, known, saveVars>>
  /\ KeepsState

-----------------------------------------------------------------------------
(* What CallModel does to a call on the user's behalf.                     *)

(* CallModel::transfer: TRANSFER, then the state is forced to TRANSFERRED, *)
(* then ACCEPT, then OVER, all before the daemon answers.                  *)
TransferTo(n) ==
  /\ listed
  /\ transferNumber' = n
  /\ changeCurrentState({actionPerformedStateMap[state]["TRANSFER"], "OVER"}, "OVER")
  /\ request' = {"transfer"} \union (IF state = "INCOMING" THEN {"accept"} ELSE {})
  /\ stopTime' = now
  /\ UNCHANGED <<type, dialNumber, peer, account, startTime, now, logVars,
                 recording, known, saveVars>>

(* CallModel::attendedTransfer, for either of the two calls. *)
AttendedTransfer ==
  /\ listed
  /\ changeCurrentState({"OVER"}, "OVER")
  /\ request' = {"attendedTransfer"}
  /\ UNCHANGED numberVars
  /\ KeepsRest

-----------------------------------------------------------------------------
(* The builders.  A new object takes the place of one no longer tracked.   *)

(* Call::Call and addCall: a call created finished is tracked, not listed. *)
Build(s, acc, start, history, dir) ==
  /\ ~tracked
  /\ state' = s
  /\ type' = "CALL"
  /\ timer' = TimerAfter(s)
  /\ listed' = (s \notin Finished)
  /\ tracked' = TRUE
  /\ dialNumber' = NoNumber
  /\ transferNumber' = NoNumber
  /\ peer' = (s # "DIALING")
  /\ account' = acc
  /\ startTime' = start
  /\ stopTime' = 0
  /\ missed' = FALSE
  /\ historyState' = history
  /\ direction' = dir
  /\ recording' = FALSE
  /\ entries' = 0
  /\ saved' = NotSaved
  /\ UNCHANGED now

(* dialingCall: only with an account to dial from. *)
DialingCall ==
  /\ Build("DIALING", TRUE, 0, "NONE", "OUTGOING")
  /\ known' = FALSE
  /\ request' = {}

(* slotIncomingCall; an account may answer by itself, in the same handler. *)
(* A call for an account the client does not have throws out of the slot   *)
(* and is not modelled.                                                    *)
IncomingCall(autoAnswer) ==
  /\ IF autoAnswer
       THEN Build("INCOMING", TRUE, now, "INCOMING", "INCOMING") /\ request' = {"accept"}
       ELSE Build("INCOMING", TRUE, 0, "MISSED", "INCOMING") /\ request' = {}
  /\ known' = TRUE

(* slotCallStateChanged for an id it does not know: only RINGING makes a   *)
(* call, one another client of the daemon placed (or one that this client  *)
(* has dropped).                                                           *)
RingingCall(acc) ==
  /\ Build("RINGING", acc, 0, "OUTGOING", "OUTGOING")
  /\ known' = TRUE
  /\ request' = {}

ConferenceState == {"CONFERENCE", "CONFERENCE_HOLD", "ERROR"}

(* slotIncomingConference: the timer and the start time are set up before  *)
(* the daemon is asked for the state, which no handler then looks at; the  *)
(* constructor leaves m_HistoryState uninitialised.                        *)
IncomingConference(s, h, acc) ==
  /\ ~tracked
  /\ state' = s
  /\ type' = "CONFERENCE"
  /\ timer' = "running"
  /\ listed' = TRUE
  /\ tracked' = TRUE
  /\ dialNumber' = NoNumber
  /\ transferNumber' = NoNumber
  /\ peer' = FALSE
  /\ account' = acc
  /\ startTime' = now
  /\ stopTime' = 0
  /\ missed' = FALSE
  /\ historyState' = h
  /\ direction' = "OUTGOING"
  /\ recording' = FALSE
  /\ known' = TRUE
  /\ request' = {}
  /\ entries' = 0
  /\ saved' = NotSaved
  /\ UNCHANGED now

-----------------------------------------------------------------------------
(* The daemon.                                                             *)

(* Faulty forms: a call that rings again, an answered call without its     *)
(* start, an entry for calls still tracked only.                           *)
RingsAgain(old, d) ==
  IF old = "CURRENT" /\ d = "RINGING" THEN "RINGING" ELSE stateChangedStateMap[old][d]
StartForgotten(f) == IF f \in {"start", "failure", "startStop"} THEN now ELSE startTime
RecordTrackedOnly(s) ==
  IF s \in Finished /\ tracked' THEN entries' = entries + 1 /\ UNCHANGED saved
                                 ELSE UNCHANGED saveVars

(* The state the daemon's event leads to. *)
NextState(old, d) == stateChangedStateMap[old][d]

(* The functions stateChanged runs, on the two stamps. *)
StartAfter(f) ==
  IF f \in {"start", "failure", "startStop", "startWeird"} THEN now ELSE startTime

StopAfter(f, s) ==
  IF \/ f \in {"stop", "startStop"}
     \/ f = "warning" /\ s \in {"FAILURE", "ERROR"}
  THEN now ELSE stopTime

(* HistoryModel::add, called by slotCallStateChanged every time a finished *)
(* call is told a state; the backend writes the first entry only.          *)
AddToHistory(s) ==
  IF s \in Finished /\ startTime' # 0
    THEN /\ entries' = entries + 1
         /\ saved' = IF entries = 0
                       THEN [start |-> startTime', stop |-> stopTime',
                             missed |-> isMissed(missed', historyState')]
                       ELSE saved
    ELSE UNCHANGED saveVars

(* slotCallStateChanged removes the call it hung up itself, too; the       *)
(* others slotCallChanged already removed.                                 *)
Remaining(d, old, s) ==
  LET over == \/ d = "HUNG_UP"
              \/ old = "OVER" /\ s = "OVER"
              \/ old \notin Finished /\ s = "OVER"
      gone == over \/ (listed /\ s \in {"OVER", "ERROR"})
  IN  /\ listed'  = (listed /\ ~gone)
      /\ tracked' = (tracked /\ ~gone)

(* slotCallStateChanged with CallPrivate::stateChanged; an unknown state   *)
(* string is a FAILURE (toDaemonCallState).  The function that runs is the *)
(* one of the state the call was in.  Only the function `error`, of calls  *)
(* in ERROR, throws.                                                       *)
stateChanged(d) ==
  /\ tracked /\ known /\ type = "CALL"
  /\ entries < MaxEntries
  /\ LET s == NextState(state, d)
         f == stateChangedFunctionMap[state][d]
     IN  /\ state' = s
         /\ timer' = TimerAfter(s)
         /\ Remaining(d, state, s)
         /\ startTime' = StartAfter(f)
         /\ stopTime' = StopAfter(f, s)
         /\ missed' = (missed \/ f = "failure")
         /\ UNCHANGED <<historyState, direction>>
         /\ IF dialNumber # NoNumber /\ s # "DIALING" /\ f # "error"
              THEN DropDialNumber /\ peer' = TRUE
              ELSE UNCHANGED <<dialNumber, peer>>
         /\ AddToHistory(s)
  /\ request' = {}
  /\ UNCHANGED <<type, transferNumber, account, now, recording, known>>

(* slotChangingConference on the conference itself: neither the timer nor  *)
(* the life cycle is looked at.                                            *)
ConferenceChanged(s) ==
  /\ listed /\ type = "CONFERENCE"
  /\ state' = s
  /\ Signalled({s})
  /\ request' = {}
  /\ UNCHANGED <<timer, numberVars>> /\ KeepsRest

(* slotConferenceRemoved *)
ConferenceRemoved ==
  /\ tracked /\ type = "CONFERENCE"
  /\ listed' = FALSE
  /\ tracked' = FALSE
  /\ request' = {}
  /\ UNCHANGED <<state, timer, numberVars>> /\ KeepsRest

(* slotRecordStateChanged *)
RecordStateChanged(on) ==
  /\ tracked /\ known
  /\ recording' = on
  /\ request' = {}
  /\ UNCHANGED <<type, account, numberVars, stampVars, now, logVars, known, saveVars>>
  /\ KeepsState

Tick ==
  /\ now < MaxTime
  /\ now' = now + 1
  /\ request' = {}
  /\ UNCHANGED <<type, account, numberVars, stampVars, logVars, recording, known, saveVars>>
  /\ KeepsState

-----------------------------------------------------------------------------
(* startStateFromDaemonCallState of the calls the daemon already had. *)
ExistingState == {"CURRENT", "HOLD", "BUSY", "INCOMING", "RINGING", "FAILURE"}

(* Either the client starts with no call, or CallModelPrivate::init builds *)
(* one the daemon already holds (buildExistingCall).                       *)
Init ==
  /\ now = 1
  /\ type = "CALL"
  /\ dialNumber = NoNumber
  /\ transferNumber = NoNumber
  /\ stopTime = 0
  /\ missed = FALSE
  /\ historyState = "NONE"
  /\ direction = "OUTGOING"
  /\ request = {}
  /\ entries = 0
  /\ saved = NotSaved
  /\ \/ /\ state = "NONE"
        /\ timer = "none"
        /\ listed = FALSE
        /\ tracked = FALSE
        /\ peer = FALSE
        /\ account = FALSE
        /\ startTime = 0
        /\ recording = FALSE
        /\ known = FALSE
     \/ /\ state \in ExistingState
        /\ timer = TimerAfter(state)
        /\ listed = (state \notin Finished)
        /\ tracked = TRUE
        /\ peer = TRUE
        /\ account \in BOOLEAN
        /\ startTime = now
        /\ recording \in BOOLEAN
        /\ known = TRUE

UserStep ==
  \/ \E a \in Action : performAction(a)
  \/ AppendText
  \/ BackspaceItemText
  \/ Reset
  \/ \E n \in NumberLength : SetDialNumber(n)
  \/ ReadPeerPhoneNumber
  \/ \E a \in BOOLEAN : SetAccount(a)
  \/ \E n \in NumberLength : TransferTo(n)
  \/ AttendedTransfer
  \/ DialingCall

DaemonStep ==
  \/ \E auto \in BOOLEAN : IncomingCall(auto)
  \/ \E acc \in BOOLEAN : RingingCall(acc)
  \/ \E s \in ConferenceState, h \in HistoryState, acc \in BOOLEAN : IncomingConference(s, h, acc)
  \/ \E d \in DaemonState : stateChanged(d)
  \/ \E s \in ConferenceState : ConferenceChanged(s)
  \/ ConferenceRemoved
  \/ \E on \in BOOLEAN : RecordStateChanged(on)

Next == UserStep \/ DaemonStep \/ Tick

Spec == Init /\ [][Next]_vars

-----------------------------------------------------------------------------
(* Types of the variables. *)
TypeOK ==
  /\ state \in CallState \union {"NONE"}
  /\ type \in {"CALL", "CONFERENCE"}
  /\ timer \in {"none", "running", "stopped"}
  /\ listed \in BOOLEAN /\ tracked \in BOOLEAN
  /\ dialNumber \in NumberLength \union {NoNumber}
  /\ transferNumber \in NumberLength \union {NoNumber}
  /\ peer \in BOOLEAN /\ account \in BOOLEAN
  /\ startTime \in 0..MaxTime /\ stopTime \in 0..MaxTime
  /\ now \in 1..MaxTime
  /\ missed \in BOOLEAN
  /\ historyState \in HistoryState
  /\ direction \in {"INCOMING", "OUTGOING"}
  /\ recording \in BOOLEAN /\ known \in BOOLEAN
  /\ request \in SUBSET Request
  /\ entries \in 0..MaxEntries
  /\ saved \in [start : 0..MaxTime, stop : 0..MaxTime, missed : BOOLEAN]

(* The timer that refreshes the elapsed time lives exactly while the call  *)
(* is in progress, whatever path brought it there, and it is only frozen   *)
(* once the user hung up (initTimer, hangUp).                              *)
TimerFollowsCall ==
  type = "CALL" =>
    /\ timer # "none" <=> state \in InProgress
    /\ timer = "stopped" => stopTime # 0

(* A call that is shown is still reachable by the daemon's signals, and    *)
(* a call still reachable is never over or in error: whoever ended it, the *)
(* same handler took it out of the tree and of the id map (slotCallChanged, *)
(* removeCall).  So the OVER and ERROR rows of the tables never serve.     *)
ListedCallsAreLive ==
  /\ listed => tracked
  /\ tracked /\ type = "CALL" => state \notin {"OVER", "ERROR"}

(* Once the daemon knows the call, the number being typed is gone and the  *)
(* peer is fixed: nothing edits the number of a placed call.               *)
PlacedCallHasPeer ==
  known /\ type = "CALL" => dialNumber = NoNumber /\ peer

(* A call in communication has a start time, through every way of getting  *)
(* there (accept, start, startWeird, call, buildExistingCall).             *)
TalkingHasStart ==
  state \in InProgress => startTime # 0

(* Both of the above: the state of a call agrees with its start, its stop  *)
(* and its timer, which other functions write than the one that writes it. *)
StampsFollowState == TimerFollowsCall /\ TalkingHasStart

(* A call is placed at most once, however often the user accepts it.       *)
PlacedOnce == [][ "placeCall" \in request' => ~known ]_vars

(* A call that failed stays finished as long as the client tracks it,      *)
(* whatever the daemon still says of it (stateChangedStateMap, row         *)
(* FAILURE).  A busy one may come back.                                    *)
FailedStaysFinished ==
  [][ tracked /\ type = "CALL" /\ state = "FAILURE" => state' \in Finished ]_vars

(* A call the daemon hangs up leaves the client with a history entry:      *)
(* slotCallStateChanged removes it first and records it afterwards.        *)
HungUpIsRecorded ==
  [][ \A d \in DaemonState :
        stateChanged(d) /\ tracked /\ ~tracked' => entries' > 0 ]_vars
=============================================================================
