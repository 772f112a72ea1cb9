----------------------------- MODULE CallProofs -----------------------------
(***************************************************************************)
(* Proofs about Call.  The first part states what the tables of the        *)
(* automaton give, row by row; the second the invariant; the third the     *)
(* properties that follow from it; the fourth that Call implements         *)
(* CallLifeCycle.                                                          *)
(*                                                                         *)
(* The last part is about another thing a call needs, and shares no state  *)
(* with the first: AccountForm, the form in which an account is edited.    *)
(***************************************************************************)
EXTENDS CallRefines, AccountForm, ListLemmas

CallFunction == {"nothing", "accept", "refuse", "acceptTransf", "acceptHold", "hangUp",
                 "remove", "cancel", "hold", "unhold", "toggleRecord", "call", "transfer"}

(* What an action of the user asks for, and of which calls: only `call`    *)
(* and `cancel` concern a call that is being dialed, no action starts a    *)
(* communication, and none revives a finished call.                        *)
LEMMA ActionRows ==
  ASSUME NEW s \in CallState, NEW a \in Action
  PROVE  LET t == actionPerformedStateMap[s][a]
             f == actionPerformedFunctionMap[s][a]
         IN  /\ t \in CallState \ {"DIALING"}
             /\ f \in CallFunction
             /\ t \in InProgress => s \in InProgress
             /\ s = "DIALING" => t \in {"INITIALIZATION", "OVER", "ERROR"}
             /\ t \in {"INCOMING", "RINGING", "BUSY", "FAILURE"} => t = s
             /\ t = "INITIALIZATION" => f = "call"
             /\ f = "call" => s \in {"DIALING", "INITIALIZATION"} /\ t = "INITIALIZATION"
             /\ s \in {"FAILURE", "ERROR"} => t \in {"OVER", "ERROR"}
             /\ s \in Finished => t \in Finished
             /\ f \in {"accept", "refuse", "acceptHold"} => s = "INCOMING" /\ t = "INCOMING"
BY DEF CallState, Initializing, InProgress, Finished, Action, CallFunction,
       actionPerformedStateMap, actionPerformedFunctionMap, OnAction

(* What the daemon's events do to a call that is not over or in error.     *)
LEMMA EventRows ==
  ASSUME NEW s \in CallState \ {"OVER", "ERROR", "DIALING"}, NEW d \in DaemonState
  PROVE  LET t == stateChangedStateMap[s][d]
             f == stateChangedFunctionMap[s][d]
         IN  /\ t \in CallState \ {"DIALING", "ERROR", "INITIALIZATION"}
             /\ f # "error"
             /\ t = "OVER" <=> d = "HUNG_UP"
             /\ s = "FAILURE" => t \in Finished
             /\ t \in Initializing => s \in Initializing
             /\ s \in {"INCOMING", "RINGING"} =>
                  t = s \/ f \in {"start", "failure", "startStop", "startWeird"}
BY DEF CallState, Initializing, InProgress, Finished, DaemonState,
       stateChangedStateMap, stateChangedFunctionMap, OnEvent

-----------------------------------------------------------------------------
(* The inductive invariant.                                                *)

(* Where a call comes from: the daemon knows every call that left the      *)
(* dialing states, and a call it knows was started before it can be        *)
(* answered, fail or be busy; a conference is started by its constructor.   *)
Origin ==
  /\ state = "NONE" => ~tracked /\ ~known
  /\ ~known => state \in {"NONE", "DIALING", "FAILURE", "OVER", "ERROR"} /\ type = "CALL"
  /\ type = "CONFERENCE" => startTime # 0
  /\ known => state # "DIALING" /\ dialNumber = NoNumber
  /\ known /\ state \in {"BUSY", "FAILURE", "INITIALIZATION"} => startTime # 0

Inv ==
  /\ TypeOK
  /\ TimerFollowsCall
  /\ ListedCallsAreLive
  /\ PlacedCallHasPeer
  /\ TalkingHasStart
  /\ Origin

USE MaxTimeAssumption, MaxDigitsAssumption, MaxEntriesAssumption

LEMMA InitInv == Init => Inv
<1>1. SUFFICES ASSUME Init PROVE Inv
  OBVIOUS
<1>2. \/ /\ state = "NONE" /\ timer = "none" /\ startTime = 0
         /\ listed = FALSE /\ tracked = FALSE /\ peer = FALSE
         /\ account = FALSE /\ recording = FALSE /\ known = FALSE
      \/ /\ state \in ExistingState /\ timer = TimerAfter(state) /\ startTime = now
         /\ listed = (state \notin Finished) /\ tracked = TRUE /\ peer = TRUE
         /\ account \in BOOLEAN /\ recording \in BOOLEAN /\ known = TRUE
  BY <1>1 DEF Init
<1>3. /\ now = 1 /\ type = "CALL" /\ dialNumber = NoNumber /\ transferNumber = NoNumber
      /\ stopTime = 0 /\ missed = FALSE /\ historyState = "NONE" /\ direction = "OUTGOING"
      /\ request = {} /\ entries = 0 /\ saved = NotSaved
  BY <1>1 DEF Init
<1> USE DEF ExistingState, CallState, Initializing, InProgress, Finished
<1>4. TypeOK
  <2>1. /\ state \in CallState \union {"NONE"}
        /\ timer \in {"none", "running", "stopped"}
        /\ startTime \in 0..MaxTime
    BY <1>2, <1>3 DEF TimerAfter
  <2>2. /\ dialNumber \in NumberLength \union {NoNumber}
        /\ transferNumber \in NumberLength \union {NoNumber}
        /\ stopTime \in 0..MaxTime /\ now \in 1..MaxTime
        /\ request \in SUBSET Request /\ entries \in 0..MaxEntries
        /\ saved \in [start : 0..MaxTime, stop : 0..MaxTime, missed : BOOLEAN]
    BY <1>3 DEF NotSaved
  <2>3. /\ listed \in BOOLEAN /\ tracked \in BOOLEAN
        /\ peer \in BOOLEAN /\ account \in BOOLEAN
        /\ recording \in BOOLEAN /\ known \in BOOLEAN
    BY <1>2, Zenon
  <2> QED
    BY <1>3, <2>1, <2>2, <2>3 DEF TypeOK, HistoryState
<1>5. TimerFollowsCall /\ ListedCallsAreLive
  BY <1>2, <1>3 DEF TimerFollowsCall, ListedCallsAreLive, TimerAfter
<1>6. PlacedCallHasPeer /\ TalkingHasStart /\ Origin
  BY <1>2, <1>3 DEF PlacedCallHasPeer, TalkingHasStart, Origin
<1> QED
  BY <1>4, <1>5, <1>6 DEF Inv

(* What the tables say of the user's actions: the row of state old gives s *)
(* and f.                                                                  *)
ActionRow(old, f, s) ==
  /\ s \in CallState \ {"DIALING"}
  /\ s \in InProgress => old \in InProgress
  /\ old = "DIALING" => s \in {"INITIALIZATION", "OVER", "ERROR"}
  /\ s \in {"INCOMING", "RINGING", "BUSY", "FAILURE"} => s = old
  /\ s = "INITIALIZATION" => f = "call"
  /\ f = "call" => old \in {"DIALING", "INITIALIZATION"} /\ s = "INITIALIZATION"
  /\ old \in {"FAILURE", "ERROR"} => s \in {"OVER", "ERROR"}
  /\ old \in Finished => s \in Finished

(* Moving a call to s keeps its place in the client consistent. *)
LEMMA ChangeState ==
  ASSUME Inv, listed, UNCHANGED type,
         NEW s \in CallState, NEW seen, s \in seen, changeCurrentState(seen, s)
  PROVE  /\ state' = s
         /\ timer' \in {"none", "running"}
         /\ listed' \in BOOLEAN /\ tracked' \in BOOLEAN
         /\ TimerFollowsCall'
         /\ ListedCallsAreLive'
<1>1. state' = s /\ timer' = TimerAfter(s)
  BY DEF changeCurrentState
<1>2. timer' # "none" <=> s \in InProgress
  BY <1>1 DEF TimerAfter
<1>3. TimerFollowsCall'
  BY <1>1, <1>2 DEF TimerAfter, TimerFollowsCall
<1>4. /\ listed' \in BOOLEAN /\ tracked' \in BOOLEAN
      /\ listed' => tracked'
      /\ tracked' => s \notin {"OVER", "ERROR"}
  BY <1>1 DEF changeCurrentState, Signalled, Inv, TypeOK, ListedCallsAreLive
<1> QED
  BY <1>1, <1>3, <1>4 DEF TimerAfter, ListedCallsAreLive

(* Every function an action of the user runs keeps the invariant. *)
LEMMA ActionInv ==
  ASSUME Inv, listed, UNCHANGED <<type, now, recording, saveVars>>,
         NEW f, NEW s, ActionRow(state, f, s), performActionCallback(f, s)
  PROVE  Inv'
<1> DEFINE Changed(t) == \E seen : {s, t} \subseteq seen /\ changeCurrentState(seen, t)
<1> USE DEF ActionRow, Inv, TypeOK, PlacedCallHasPeer, TalkingHasStart, Origin,
            CallState, Initializing, InProgress, Finished, HistoryState, Request,
            numberVars, stampVars, logVars, saveVars
<1>1. ASSUME NEW t \in CallState, Changed(t)
      PROVE  /\ state' = t
             /\ timer' \in {"none", "running"}
             /\ listed' \in BOOLEAN /\ tracked' \in BOOLEAN
             /\ TimerFollowsCall'
             /\ ListedCallsAreLive'
  BY <1>1, ChangeState
<1>2. CASE f = "nothing" /\ Nothing(s)
  <2>1. Changed(s)
    BY <1>2 DEF Nothing
  <2> QED
    BY <1>1, <1>2, <2>1 DEF Nothing
<1>3. CASE f = "accept" /\ Accept(s)
  <2>1. Changed(s)
    BY <1>3 DEF Accept
  <2> QED
    BY <1>1, <1>3, <2>1 DEF Accept
<1>4. CASE f = "refuse" /\ Refuse(s)
  <2>1. Changed(s) \/ Changed("ERROR")
    BY <1>4 DEF Refuse
  <2> QED
    BY <1>1, <1>4, <2>1 DEF Refuse
<1>5. CASE f = "acceptTransf" /\ AcceptTransf(s)
  <2>1. Changed(s)
    BY <1>5 DEF AcceptTransf
  <2> QED
    BY <1>1, <1>5, <2>1 DEF AcceptTransf
<1>6. CASE f = "acceptHold" /\ AcceptHold(s)
  <2>1. Changed(s)
    BY <1>6 DEF AcceptHold
  <2> QED
    BY <1>1, <1>6, <2>1 DEF AcceptHold
<1>7. CASE f \in {"remove", "cancel"} /\ RemoveCall(s)
  <2>1. Changed(s)
    BY <1>7 DEF RemoveCall
  <2> QED
    BY <1>1, <1>7, <2>1 DEF RemoveCall
<1>8. CASE f # "call" /\ \E what \in Request : Ask(what, s)
  <2>1. Changed(s)
    BY <1>8 DEF Ask
  <2> QED
    BY <1>1, <1>8, <2>1 DEF Ask
<1>9. CASE f = "call" /\ PlaceCall(s)
  <2>1. CASE /\ Changed(s)
             /\ peer' = TRUE /\ known' = TRUE /\ dialNumber' = NoNumber
             /\ startTime' = now /\ historyState' = "OUTGOING" /\ direction' = "OUTGOING"
             /\ request' = {"placeCall"}
             /\ UNCHANGED transferNumber
    <3>1. account' \in BOOLEAN /\ UNCHANGED <<stopTime, missed>>
      BY <1>9 DEF PlaceCall
    <3> QED
      BY <1>1, <1>9, <2>1, <3>1 DEF NoNumber
  <2>2. CASE Changed("FAILURE") /\ DropDialNumber
    BY <1>1, <1>9, <2>2 DEF PlaceCall, DropDialNumber, NoNumber
  <2>3. CASE Changed("ERROR") /\ UNCHANGED dialNumber
    BY <1>1, <1>9, <2>3 DEF PlaceCall
  <2> QED
    BY <1>9, <2>1, <2>2, <2>3 DEF PlaceCall, DropDialNumber
<1>10. CASE f = "transfer" /\ Transfer(s)
  <2>1. Changed(s)
    BY <1>10 DEF Transfer
  <2> QED
    BY <1>1, <1>10, <2>1 DEF Transfer
(* A call hung up is not over until the daemon says so: its timer stops. *)
<1>11. CASE f = "hangUp" /\ HangUp(s)
  <2>1. CASE Changed("OVER")
    BY <1>1, <1>11, <2>1 DEF HangUp
  <2>2. CASE /\ state' = s
             /\ timer' = (IF s \in InProgress THEN "stopped" ELSE "none")
             /\ Signalled({s})
    <3>1. TimerFollowsCall'
      BY <1>11, <2>2 DEF HangUp, TimerFollowsCall
    <3>2. ListedCallsAreLive' /\ listed' \in BOOLEAN /\ tracked' \in BOOLEAN
      BY <1>11, <2>2 DEF HangUp, Signalled, ListedCallsAreLive
    <3> QED
      BY <1>11, <2>2, <3>1, <3>2 DEF HangUp
  <2> QED
    BY <1>11, <2>1, <2>2 DEF HangUp
<1> QED
  BY <1>2, <1>3, <1>4, <1>5, <1>6, <1>7, <1>8, <1>9, <1>10, <1>11 DEF performActionCallback, Cancel

(* A new call keeps the invariant; the daemon knows it unless it is being  *)
(* dialed.                                                                 *)
LEMMA BuildInv ==
  ASSUME Inv, NEW s \in {"DIALING", "INCOMING", "RINGING"}, NEW acc \in BOOLEAN,
         NEW start \in {0, now}, NEW history \in HistoryState,
         NEW dir \in {"INCOMING", "OUTGOING"},
         Build(s, acc, start, history, dir),
         (known' = TRUE /\ s # "DIALING") \/ (known' = FALSE /\ s = "DIALING"),
         request' \in SUBSET Request
  PROVE  Inv'
<1>1. /\ state' = s /\ timer' = "none" /\ listed' = TRUE /\ tracked' = TRUE
      /\ s # "DIALING" => peer' = TRUE
      /\ peer' \in BOOLEAN
  <2>1. peer' = (s # "DIALING") /\ listed' = (s \notin Finished)
        /\ state' = s /\ timer' = TimerAfter(s) /\ tracked' = TRUE
    BY DEF Build
  <2>2. s \notin Finished /\ s \notin InProgress
    BY DEF Finished, InProgress
  <2> QED
    BY <2>1, <2>2, Zenon DEF TimerAfter
<1>2. /\ type' = "CALL" /\ dialNumber' = NoNumber /\ transferNumber' = NoNumber
      /\ account' = acc /\ startTime' = start /\ stopTime' = 0 /\ missed' = FALSE
      /\ historyState' = history /\ direction' = dir /\ recording' = FALSE
      /\ entries' = 0 /\ saved' = NotSaved /\ UNCHANGED now
  BY DEF Build
<1>3. TypeOK'
  <2>1. known' \in BOOLEAN
    OBVIOUS
  <2>2. now' \in 1..MaxTime
    BY <1>2 DEF Inv, TypeOK
  <2>3. startTime' \in 0..MaxTime
    BY <1>2, <2>2
  <2>4. /\ stopTime' \in 0..MaxTime /\ entries' \in 0..MaxEntries
        /\ saved' \in [start : 0..MaxTime, stop : 0..MaxTime, missed : BOOLEAN]
    BY <1>2 DEF NotSaved
  <2> QED
    BY <1>1, <1>2, <2>1, <2>2, <2>3, <2>4 DEF TypeOK, CallState, Initializing
<1> QED
  BY <1>1, <1>2, <1>3 DEF Inv, TimerFollowsCall, ListedCallsAreLive, PlacedCallHasPeer,
       TalkingHasStart, Origin, InProgress

(* The user's other steps. *)
LEMMA UserInv ==
  ASSUME Inv, UserStep
  PROVE  Inv'
<1> USE DEF Inv, TypeOK, PlacedCallHasPeer, TalkingHasStart, Origin,
            CallState, Initializing, InProgress, Finished, Request, NumberLength, NoNumber,
            numberVars, stampVars, logVars, saveVars, treeVars
<1>1. ASSUME NEW a \in Action, performAction(a)
      PROVE  Inv'
  <2>1. state \in CallState
    BY <1>1 DEF performAction, ListedCallsAreLive
  <2>2. ActionRow(state, actionPerformedFunctionMap[state][a], actionPerformedStateMap[state][a])
    BY <2>1, ActionRows DEF ActionRow
  <2> QED
    BY <1>1, <2>2, ActionInv DEF performAction
<1>2. ASSUME KeepsState, KeepsRest, request' = {}, UNCHANGED peer,
             state \in {"DIALING", "TRANSFERRED", "TRANSF_HOLD"},
             dialNumber' \in NumberLength \union {NoNumber},
             transferNumber' \in NumberLength \union {NoNumber},
             state # "DIALING" => dialNumber' = dialNumber
      PROVE  Inv'
  BY <1>2 DEF KeepsState, KeepsRest, TimerFollowsCall, ListedCallsAreLive
<1>3. CASE AppendText
  BY <1>2, <1>3 DEF AppendText, Editing, EditNumber, SetEditNumber, EditsDial, EditsTransfer
<1>4. CASE BackspaceItemText
  <2>1. CASE EditNumber > 0
    BY <1>2, <1>4, <2>1
       DEF BackspaceItemText, Editing, EditNumber, SetEditNumber, EditsDial, EditsTransfer
  <2>2. CASE changeCurrentState({"OVER"}, "OVER") /\ UNCHANGED numberVars
    BY <1>4, <2>2, ChangeState DEF BackspaceItemText, Editing, KeepsRest
  <2> QED
    BY <1>4, <2>1, <2>2 DEF BackspaceItemText
<1>5. CASE Reset
  BY <1>2, <1>5 DEF Reset, Editing, SetEditNumber, EditsDial, EditsTransfer
<1>6. ASSUME NEW n \in NumberLength, SetDialNumber(n)
      PROVE  Inv'
  BY <1>2, <1>6 DEF SetDialNumber, SetEditNumber, EditsDial
<1>7. CASE ReadPeerPhoneNumber
  BY <1>2, <1>7 DEF ReadPeerPhoneNumber, EditsDial
<1>8. ASSUME NEW a \in BOOLEAN, SetAccount(a)
      PROVE  Inv'
  BY <1>8 DEF SetAccount, KeepsState, TimerFollowsCall, ListedCallsAreLive
<1>9. ASSUME NEW n \in NumberLength, TransferTo(n)
      PROVE  Inv'
  BY <1>9, ChangeState DEF TransferTo
<1>10. CASE AttendedTransfer
  BY <1>10, ChangeState DEF AttendedTransfer, KeepsRest
<1>11. CASE DialingCall
  BY <1>11, BuildInv DEF DialingCall, HistoryState
<1> QED
  BY <1>1, <1>3, <1>4, <1>5, <1>6, <1>7, <1>8, <1>9, <1>10, <1>11 DEF UserStep

(* A state the daemon sends for a call. *)
LEMMA EventInv ==
  ASSUME Inv, NEW d \in DaemonState, stateChanged(d)
  PROVE  Inv'
<1> DEFINE s == NextState(state, d)
           f == stateChangedFunctionMap[state][d]
<1>1. state \in CallState \ {"OVER", "ERROR", "DIALING"}
  BY DEF Inv, TypeOK, ListedCallsAreLive, Origin, stateChanged
<1>2. /\ s \in CallState \ {"DIALING", "ERROR", "INITIALIZATION"}
      /\ f # "error"
      /\ s = "OVER" <=> d = "HUNG_UP"
      /\ state \in {"INCOMING", "RINGING"} =>
           s = state \/ f \in {"start", "failure", "startStop", "startWeird"}
  BY <1>1, EventRows DEF NextState
<1>3. /\ tracked /\ known /\ type = "CALL" /\ entries < MaxEntries
      /\ state' = s /\ timer' = TimerAfter(s)
      /\ Remaining(d, state, s)
      /\ startTime' = StartAfter(f) /\ stopTime' = StopAfter(f, s)
      /\ missed' = (missed \/ f = "failure")
      /\ request' = {}
      /\ AddToHistory(s)
      /\ UNCHANGED <<type, transferNumber, account, now, recording, known, historyState, direction>>
  BY DEF stateChanged
<1>4. dialNumber' = NoNumber /\ peer' = TRUE
  BY <1>3 DEF stateChanged, DropDialNumber, Inv, TypeOK, PlacedCallHasPeer
<1> HIDE DEF s, f
<1>5. TimerFollowsCall'
  BY <1>3 DEF TimerAfter, TimerFollowsCall
<1>6. ListedCallsAreLive' /\ listed' \in BOOLEAN /\ tracked' \in BOOLEAN
  BY <1>1, <1>2, <1>3 DEF Remaining, Inv, TypeOK, ListedCallsAreLive
<1>7. startTime' \in 0..MaxTime /\ stopTime' \in 0..MaxTime
  BY <1>3 DEF StartAfter, StopAfter, Inv, TypeOK
<1>8. missed' \in BOOLEAN
  BY <1>3, Zenon
<1>9. /\ entries' \in 0..MaxEntries
      /\ saved' \in [start : 0..MaxTime, stop : 0..MaxTime, missed : BOOLEAN]
  <2> DEFINE m == isMissed(missed', historyState')
  <2>1. m \in BOOLEAN
    BY <1>8, Zenon DEF isMissed
  <2>2. \/ UNCHANGED <<entries, saved>>
        \/ /\ entries' = entries + 1
           /\ saved' = saved \/ saved' = [start |-> startTime', stop |-> stopTime', missed |-> m]
    BY <1>3 DEF AddToHistory, saveVars
  <2> HIDE DEF m
  <2> QED
    BY <1>3, <1>7, <2>1, <2>2 DEF Inv, TypeOK
<1>10. TypeOK'
  BY <1>2, <1>3, <1>4, <1>5, <1>6, <1>7, <1>8, <1>9 DEF TimerAfter, Inv, TypeOK, NoNumber, Request
<1>11. TalkingHasStart' /\ Origin' /\ PlacedCallHasPeer'
  BY <1>1, <1>2, <1>3, <1>4
     DEF StartAfter, Inv, TypeOK, TalkingHasStart, Origin, PlacedCallHasPeer, CallState,
         Initializing, InProgress, Finished
<1> QED
  BY <1>5, <1>6, <1>10, <1>11 DEF Inv

(* The daemon's other steps: calls and conferences it announces, changes   *)
(* and removes.                                                            *)
LEMMA DaemonInv ==
  ASSUME Inv, DaemonStep
  PROVE  Inv'
<1>1. ASSUME NEW auto \in BOOLEAN, IncomingCall(auto)
      PROVE  Inv'
  <2>1. known' = TRUE /\ request' \in SUBSET Request
    BY <1>1 DEF IncomingCall, Request
  <2>2. CASE Build("INCOMING", TRUE, now, "INCOMING", "INCOMING")
    BY <2>1, <2>2, BuildInv DEF HistoryState
  <2>3. CASE Build("INCOMING", TRUE, 0, "MISSED", "INCOMING")
    BY <2>1, <2>3, BuildInv DEF HistoryState
  <2> QED
    BY <1>1, <2>2, <2>3 DEF IncomingCall
<1>2. ASSUME NEW acc \in BOOLEAN, RingingCall(acc)
      PROVE  Inv'
  <2>1. known' = TRUE /\ request' \in SUBSET Request
    BY <1>2 DEF RingingCall
  <2>2. Build("RINGING", acc, 0, "OUTGOING", "OUTGOING")
    BY <1>2 DEF RingingCall
  <2> QED
    BY <2>1, <2>2, BuildInv DEF HistoryState
<1>3. ASSUME NEW d \in DaemonState, stateChanged(d)
      PROVE  Inv'
  BY <1>3, EventInv
<1> USE DEF CallState, Initializing, InProgress, Finished,
            numberVars, stampVars, logVars, saveVars, treeVars
<1>4. ASSUME NEW s \in ConferenceState, NEW h \in HistoryState, NEW acc \in BOOLEAN,
             IncomingConference(s, h, acc)
      PROVE  Inv'
  <2>1. /\ state' = s /\ type' = "CONFERENCE" /\ timer' = "running" /\ peer' = FALSE
        /\ listed' = TRUE /\ tracked' = TRUE /\ known' = TRUE /\ account' = acc
        /\ dialNumber' = NoNumber /\ transferNumber' = NoNumber /\ startTime' = now
        /\ historyState' = h /\ direction' = "OUTGOING" /\ request' = {}
        /\ recording' = FALSE /\ missed' = FALSE /\ UNCHANGED now
    BY <1>4 DEF IncomingConference
  <2>2. stopTime' = 0 /\ entries' = 0 /\ saved' = NotSaved
    BY <1>4 DEF IncomingConference
  <2>3. /\ stopTime' \in 0..MaxTime /\ entries' \in 0..MaxEntries
        /\ saved' \in [start : 0..MaxTime, stop : 0..MaxTime, missed : BOOLEAN]
        /\ startTime' \in 0..MaxTime /\ now' \in 1..MaxTime
        /\ request' \in SUBSET Request
    BY <2>1, <2>2 DEF NotSaved, Inv, TypeOK
  <2>4. TypeOK'
    BY <2>1, <2>3 DEF ConferenceState, TypeOK
  <2> QED
    BY <2>1, <2>4 DEF ConferenceState, Inv, TypeOK, TimerFollowsCall, ListedCallsAreLive,
                      PlacedCallHasPeer, TalkingHasStart, Origin
<1>5. ASSUME NEW s \in ConferenceState, ConferenceChanged(s)
      PROVE  Inv'
  <2>1. listed' \in BOOLEAN /\ tracked' \in BOOLEAN /\ (listed' => tracked')
    BY <1>5 DEF ConferenceChanged, Signalled, Inv, TypeOK, ListedCallsAreLive
  <2>2. TypeOK'
    BY <1>5, <2>1 DEF ConferenceChanged, ConferenceState, KeepsRest, Inv, TypeOK
  <2> QED
    BY <1>5, <2>1, <2>2 DEF ConferenceChanged, ConferenceState, KeepsRest, Inv, TypeOK,
       TimerFollowsCall, ListedCallsAreLive, PlacedCallHasPeer, TalkingHasStart, Origin
<1>6. CASE ConferenceRemoved
  <2>1. /\ ~listed' /\ listed' \in BOOLEAN /\ ~tracked' /\ tracked' \in BOOLEAN
        /\ type = "CONFERENCE" /\ request' \in SUBSET Request
        /\ UNCHANGED <<state, timer, numberVars>> /\ KeepsRest
    BY <1>6 DEF ConferenceRemoved
  <2>2. TypeOK'
    BY <2>1 DEF KeepsRest, Inv, TypeOK
  <2> QED
    BY <2>1, <2>2 DEF KeepsRest, Inv, TimerFollowsCall, ListedCallsAreLive, PlacedCallHasPeer,
                      TalkingHasStart, Origin
<1>7. ASSUME NEW on \in BOOLEAN, RecordStateChanged(on)
      PROVE  Inv'
  BY <1>7 DEF RecordStateChanged, KeepsState, Inv, TypeOK, TimerFollowsCall, ListedCallsAreLive,
              PlacedCallHasPeer, TalkingHasStart, Origin
<1> QED
  BY <1>1, <1>2, <1>3, <1>4, <1>5, <1>6, <1>7 DEF DaemonStep

LEMMA TickInv ==
  ASSUME Inv, Tick \/ UNCHANGED vars
  PROVE  Inv'
BY DEF Tick, KeepsState, vars, Inv, TypeOK, TimerFollowsCall, ListedCallsAreLive, PlacedCallHasPeer,
       TalkingHasStart, Origin, numberVars, stampVars, logVars, saveVars, treeVars

(* The invariant holds of every behaviour. *)
THEOREM Invariance == Spec => []Inv
<1>1. Inv /\ [Next]_vars => Inv'
  BY UserInv, DaemonInv, TickInv DEF Next
<1> QED
  BY InitInv, <1>1, PTL DEF Spec

-----------------------------------------------------------------------------
(* What follows from it. *)

(* The variables keep their types. *)
THEOREM TypeCorrect == Spec => []TypeOK
BY Invariance, PTL DEF Inv

(* The elapsed-time timer lives exactly while the call is in progress. *)
THEOREM TimerCorrect == Spec => []TimerFollowsCall
BY Invariance, PTL DEF Inv

(* What is shown is reachable, and nothing reachable is over or in error. *)
THEOREM ListedCorrect == Spec => []ListedCallsAreLive
BY Invariance, PTL DEF Inv

(* A call the daemon knows has a peer and no number being typed. *)
THEOREM PeerCorrect == Spec => []PlacedCallHasPeer
BY Invariance, PTL DEF Inv

(* A call in communication has a start time. *)
THEOREM TalkingCorrect == Spec => []TalkingHasStart
BY Invariance, PTL DEF Inv

(* The state, the stamps and the timer of a call agree. *)
THEOREM StampsCorrect == Spec => []StampsFollowState
<1>1. Inv => StampsFollowState
  BY DEF Inv, StampsFollowState
<1>. QED
  BY Invariance, <1>1, PTL

(* The user's actions place a call only if the daemon does not know it: a  *)
(* number is there only before the call is placed.                         *)
THEOREM PlacedOnceCorrect == Spec => PlacedOnce
<1>1. ASSUME Inv, Next, "placeCall" \in request'
      PROVE  ~known
  <2>1. PICK a \in Action : performAction(a)
    <3>1. AppendText \/ BackspaceItemText \/ Reset \/ ReadPeerPhoneNumber \/ Tick => request' = {}
      BY DEF AppendText, BackspaceItemText, Reset, ReadPeerPhoneNumber, Tick
    <3>2. /\ \A n \in NumberLength : SetDialNumber(n) => request' = {}
          /\ \A acc \in BOOLEAN : SetAccount(acc) => request' = {}
      BY DEF SetDialNumber, SetAccount
    <3>3. ASSUME \E n \in NumberLength : TransferTo(n)
          PROVE  "placeCall" \notin request'
      <4>1. request' = {"transfer"} \/ request' = {"transfer"} \union {"accept"}
        BY <3>3 DEF TransferTo
      <4> QED
        BY <4>1
    <3>4. ASSUME \E auto \in BOOLEAN : IncomingCall(auto)
          PROVE  "placeCall" \notin request'
      <4>1. request' = {"accept"} \/ request' = {}
        BY <3>4, Zenon DEF IncomingCall
      <4> QED
        BY <4>1
    <3>5. /\ AttendedTransfer => request' = {"attendedTransfer"}
          /\ DialingCall => request' = {}
          /\ \A acc \in BOOLEAN : RingingCall(acc) => request' = {}
          /\ \A s \in ConferenceState, h \in HistoryState, acc \in BOOLEAN :
               IncomingConference(s, h, acc) => request' = {}
      BY DEF AttendedTransfer, DialingCall, RingingCall, IncomingConference
    <3>6. /\ \A d \in DaemonState : stateChanged(d) => request' = {}
          /\ \A s \in ConferenceState : ConferenceChanged(s) => request' = {}
          /\ ConferenceRemoved => request' = {}
          /\ \A on \in BOOLEAN : RecordStateChanged(on) => request' = {}
      BY DEF stateChanged, ConferenceChanged, ConferenceRemoved, RecordStateChanged
    <3> QED
      BY <1>1, <3>1, <3>2, <3>3, <3>4, <3>5, <3>6 DEF Next, UserStep, DaemonStep
  <2> DEFINE f == actionPerformedFunctionMap[state][a]
             s == actionPerformedStateMap[state][a]
  <2>2. performActionCallback(f, s)
    BY <2>1 DEF performAction
  <2> HIDE DEF f, s
  <2>3. PlaceCall(s)
    BY <1>1, <2>2 DEF performActionCallback, Nothing, Accept, Refuse, AcceptTransf, AcceptHold,
         HangUp, RemoveCall, Cancel, Ask, Transfer
  <2>4. dialNumber # NoNumber
    BY <1>1, <2>3 DEF PlaceCall
  <2> QED
    BY <1>1, <2>4 DEF Inv, TypeOK, Origin
<1>2. Inv /\ [Next]_vars => [ "placeCall" \in request' => ~known ]_vars
  BY <1>1
<1> QED
  BY Invariance, <1>2, PTL DEF Spec, PlacedOnce

(* A failed call is finished whatever happens to it next. *)
THEOREM FailedCorrect == Spec => FailedStaysFinished
<1>1. ASSUME Inv, Next, tracked, type = "CALL", state = "FAILURE"
      PROVE  state' \in Finished
  <2> USE <1>1 DEF Finished
  <2>1. ASSUME NEW a \in Action, performAction(a)
        PROVE  state' \in Finished
    <3> DEFINE f == actionPerformedFunctionMap[state][a]
               s == actionPerformedStateMap[state][a]
    <3>1. s \in {"OVER", "ERROR"} /\ f # "call"
      BY ActionRows DEF CallState, Initializing
    <3>2. performActionCallback(f, s)
      BY <2>1 DEF performAction
    <3> HIDE DEF f, s
    <3> QED
      BY <3>1, <3>2 DEF performActionCallback, changeCurrentState, Nothing, Accept, Refuse,
           AcceptTransf, AcceptHold, HangUp, RemoveCall, Cancel, Ask, Transfer
  <2>2. ASSUME NEW d \in DaemonState, stateChanged(d)
        PROVE  state' \in Finished
    BY <2>2, EventRows DEF stateChanged, NextState, CallState, Initializing
  <2>3. CASE UserStep /\ ~ \E a \in Action : performAction(a)
    BY <2>3 DEF UserStep, AppendText, BackspaceItemText, Reset, SetDialNumber,
         ReadPeerPhoneNumber, SetAccount, TransferTo, AttendedTransfer, DialingCall, Build,
         Editing, EditsDial, EditsTransfer, KeepsState, changeCurrentState
  <2>4. CASE DaemonStep /\ ~ \E d \in DaemonState : stateChanged(d)
    BY <2>4 DEF DaemonStep, IncomingCall, RingingCall, Build, IncomingConference,
         ConferenceChanged, ConferenceRemoved, RecordStateChanged, KeepsState
  <2>5. CASE Tick
    BY <2>5 DEF Tick, KeepsState
  <2> QED
    BY <2>1, <2>2, <2>3, <2>4, <2>5 DEF Next
<1>2. Inv /\ [Next]_vars
      => [ tracked /\ type = "CALL" /\ state = "FAILURE" => state' \in Finished ]_vars
  BY <1>1
<1> QED
  BY Invariance, <1>2, PTL DEF Spec, FailedStaysFinished

(* A call the daemon's signal removes is in the history. *)
THEOREM HungUpCorrect == Spec => HungUpIsRecorded
<1>1. ASSUME Inv, NEW d \in DaemonState, stateChanged(d), tracked, ~tracked'
      PROVE  entries' > 0
  <2>1. state \in CallState \ {"OVER", "ERROR", "DIALING"} /\ known
    BY <1>1 DEF Inv, TypeOK, ListedCallsAreLive, Origin, stateChanged
  <2>2. NextState(state, d) = "OVER"
    BY <1>1, <2>1, EventRows DEF stateChanged, Remaining, NextState
  <2>3. \/ state \in {"INCOMING", "RINGING"}
           /\ stateChangedFunctionMap[state][d] \in {"start", "failure", "startStop", "startWeird"}
        \/ startTime # 0
    BY <1>1, <2>1, <2>2, EventRows
       DEF NextState, Inv, TalkingHasStart, Origin, CallState, Initializing, InProgress, Finished
  <2>4. startTime' # 0
    BY <1>1, <2>3 DEF stateChanged, StartAfter, Inv, TypeOK
  <2> QED
    BY <1>1, <2>2, <2>4 DEF stateChanged, AddToHistory, Finished, Inv, TypeOK
<1>2. Inv /\ [Next]_vars
      => [ \A d \in DaemonState : stateChanged(d) /\ tracked /\ ~tracked' => entries' > 0 ]_vars
  BY <1>1
<1> QED
  BY Invariance, <1>2, PTL DEF Spec, HungUpIsRecorded
-----------------------------------------------------------------------------
(* What a step does to the part of the state the abstract life cycle sees: *)
(* a new call; a call that goes on, is let go, or is reopened; or nothing. *)
NewCall ==
  /\ ~tracked /\ tracked'
  /\ state' \in CallState
  /\ entries' = 0

CallGoesOn ==
  /\ tracked
  /\ type' = type
  /\ state \in CallState /\ state' \in CallState
  /\ state \in InProgress => state' \notin Initializing
  /\ state \in Finished => state' \notin Initializing
  /\ startTime # 0 => startTime' # 0
  /\ \/ entries' = entries
     \/ entries' > 0 /\ state' \in Finished /\ startTime' # 0
  /\ ~tracked' => type = "CONFERENCE" \/ state' \in Finished
  /\ entries' # entries => state' \in Finished

NothingSeen == UNCHANGED <<state, type, tracked, startTime, entries>>

LEMMA PromiseStep ==
  ASSUME Inv, Inv', NewCall \/ CallGoesOn \/ NothingSeen
  PROVE  [Promise!Next]_(Promise!vars)
<1> DEFINE life == IF state = "NONE" THEN "NONE" ELSE LifeCycle(state)
<1>1. CASE NewCall
  <2>1. life' \in {"INITIALIZATION", "PROGRESS", "FINISHED"}
        /\ (life' = "PROGRESS" => state' \in InProgress)
    BY <1>1 DEF NewCall, LifeCycle, CallState, Initializing, InProgress, Finished
  <2>2. life' = "PROGRESS" => startTime' # 0
    BY <2>1 DEF Inv, TalkingHasStart
  <2>3. Promise!Appear
    BY <1>1, <2>1, <2>2 DEF NewCall, Promise!Appear, Promise!Phase
  <2> QED
    BY <2>3 DEF Promise!Next
<1>2. CASE CallGoesOn
  <2>1. /\ life = LifeCycle(state) /\ life' = LifeCycle(state')
        /\ life \in Promise!Phase /\ life' \in Promise!Phase
        /\ state \in Initializing <=> life = "INITIALIZATION"
        /\ state \in InProgress <=> life = "PROGRESS"
        /\ state \in Finished <=> life = "FINISHED"
        /\ state' \in Initializing <=> life' = "INITIALIZATION"
        /\ state' \in InProgress <=> life' = "PROGRESS"
        /\ state' \in Finished <=> life' = "FINISHED"
    BY <1>2 DEF CallGoesOn, LifeCycle, CallState, Initializing, InProgress, Finished, Promise!Phase
  <2>2. Promise!Started
    BY <1>2, <2>1 DEF CallGoesOn, Promise!Started, Inv, TalkingHasStart
  <2>3. Promise!Recorded
    BY <1>2, <2>1 DEF CallGoesOn, Promise!Recorded
  <2>4. \/ life' \in Promise!After[life]
        \/ life = "FINISHED" /\ life' = "PROGRESS"
    BY <1>2, <2>1 DEF CallGoesOn, Promise!After, Promise!Phase
  <2>5. CASE tracked' /\ life' \in Promise!After[life]
    BY <1>2, <2>2, <2>3, <2>5 DEF CallGoesOn, Promise!Proceed, Promise!Next
  <2>6. CASE tracked' /\ life = "FINISHED" /\ life' = "PROGRESS"
    BY <1>2, <2>1, <2>2, <2>6 DEF CallGoesOn, Promise!Reopen, Promise!Next
  <2>7. CASE ~tracked'
    BY <1>2, <2>1, <2>2, <2>3, <2>4, <2>7 DEF CallGoesOn, Promise!Leave, Promise!Next
  <2> QED
    BY <2>4, <2>5, <2>6, <2>7
<1>3. CASE NothingSeen
  BY <1>3 DEF NothingSeen, Promise!vars
<1> QED
  BY <1>1, <1>2, <1>3

(* The functions of the user's actions. *)
LEMMA ActionShape ==
  ASSUME Inv, Inv', NEW a \in Action, performAction(a)
  PROVE  CallGoesOn
<1> DEFINE f == actionPerformedFunctionMap[state][a]
           s == actionPerformedStateMap[state][a]
<1>1. /\ listed /\ tracked /\ state \in CallState
      /\ UNCHANGED <<type, saveVars>>
  BY DEF Inv, TypeOK, ListedCallsAreLive, Origin, performAction, saveVars
<1>2. ActionRow(state, f, s) /\ performActionCallback(f, s)
  BY <1>1, ActionRows DEF ActionRow, performAction
<1> HIDE DEF f, s
<1>3. /\ state' \in {s, "OVER", "ERROR", "FAILURE"}
      /\ startTime' \in {startTime, now}
      /\ ~tracked' => state' \in Finished
  <2> USE <1>1, <1>2 DEF changeCurrentState, Signalled, Finished
  <2>1. CASE Nothing(s) \/ Accept(s) \/ AcceptTransf(s) \/ AcceptHold(s) \/ RemoveCall(s) \/ Transfer(s)
    BY <2>1 DEF Nothing, Accept, AcceptTransf, AcceptHold, RemoveCall, Transfer, stampVars
  <2>2. CASE Refuse(s) \/ HangUp(s)
    BY <2>2 DEF Refuse, HangUp
  <2>3. CASE \E what \in Request : Ask(what, s)
    BY <2>3 DEF Ask, stampVars
  <2>4. CASE PlaceCall(s) /\ f = "call"
    BY <2>4 DEF PlaceCall, ActionRow
  <2> QED
    BY <2>1, <2>2, <2>3, <2>4 DEF performActionCallback, Cancel, Request
<1> QED
  BY <1>1, <1>2, <1>3
     DEF CallGoesOn, ActionRow, Inv, TypeOK, saveVars, CallState, Initializing, InProgress, Finished

(* The user's steps. *)
LEMMA UserShape ==
  ASSUME Inv, Inv', UserStep
  PROVE  NewCall \/ CallGoesOn \/ NothingSeen
<1>1. CASE \E a \in Action : performAction(a)
  BY <1>1, ActionShape
<1>2. CASE AppendText \/ Reset \/ ReadPeerPhoneNumber
  BY <1>2 DEF AppendText, Reset, ReadPeerPhoneNumber, KeepsState, KeepsRest, stampVars, saveVars,
              treeVars, NothingSeen
<1>3. CASE \/ \E n \in NumberLength : SetDialNumber(n)
           \/ \E acc \in BOOLEAN : SetAccount(acc)
  BY <1>3 DEF SetDialNumber, SetAccount, KeepsState, KeepsRest, stampVars, saveVars, treeVars,
              NothingSeen
<1>4. CASE BackspaceItemText \/ AttendedTransfer
  <2>1. CASE KeepsState /\ KeepsRest
    BY <2>1 DEF KeepsState, KeepsRest, stampVars, saveVars, treeVars, NothingSeen
  <2>2. CASE listed /\ state' = "OVER" /\ KeepsRest
    BY <2>2 DEF KeepsRest, stampVars, saveVars, CallGoesOn, Inv, TypeOK, ListedCallsAreLive, Origin,
                CallState, Initializing, Finished
  <2> QED
    BY <1>4, <2>1, <2>2 DEF BackspaceItemText, AttendedTransfer, Editing, changeCurrentState
<1>5. CASE \E n \in NumberLength : TransferTo(n)
  BY <1>5 DEF TransferTo, changeCurrentState, saveVars, CallGoesOn, Inv, TypeOK, ListedCallsAreLive,
              Origin, CallState, Initializing, Finished
<1>6. CASE DialingCall
  BY <1>6 DEF DialingCall, Build, NewCall, CallState, Initializing
<1> QED
  BY <1>1, <1>2, <1>3, <1>4, <1>5, <1>6 DEF UserStep

(* The daemon's steps. *)
LEMMA DaemonShape ==
  ASSUME Inv, Inv', DaemonStep
  PROVE  NewCall \/ CallGoesOn \/ NothingSeen
<1>1. CASE \/ \E auto \in BOOLEAN : IncomingCall(auto)
           \/ \E acc \in BOOLEAN : RingingCall(acc)
  BY <1>1 DEF IncomingCall, RingingCall, Build, NewCall, CallState, Initializing
<1>2. CASE \E s \in ConferenceState, h \in HistoryState, acc \in BOOLEAN : IncomingConference(s, h, acc)
  BY <1>2 DEF IncomingConference, ConferenceState, NewCall, CallState, InProgress, Finished
<1>3. ASSUME NEW d \in DaemonState, stateChanged(d)
      PROVE  CallGoesOn
  <2> DEFINE s == NextState(state, d)
  <2>1. /\ tracked /\ type' = type /\ state' = s
        /\ state \in CallState \ {"OVER", "ERROR", "DIALING"} /\ state' \in CallState
    BY <1>3 DEF Inv, TypeOK, ListedCallsAreLive, Origin, stateChanged
  <2>2. /\ s \in Initializing => state \in Initializing
        /\ s # "ERROR"
        /\ s = "OVER" <=> d = "HUNG_UP"
    BY <2>1, EventRows DEF NextState
  <2>3. startTime # 0 => startTime' # 0
    BY <1>3 DEF stateChanged, StartAfter, Inv, TypeOK
  <2>4. entries' = entries \/ (entries' > 0 /\ state' \in Finished /\ startTime' # 0)
    BY <1>3 DEF stateChanged, AddToHistory, saveVars, Inv, TypeOK
  <2>5. ~tracked' => state' = "OVER"
    BY <1>3, <2>1, <2>2 DEF stateChanged, Remaining
  <2> QED
    BY <2>1, <2>2, <2>3, <2>4, <2>5 DEF CallGoesOn, CallState, Initializing, InProgress, Finished
<1>4. CASE \E s \in ConferenceState : ConferenceChanged(s)
  BY <1>4 DEF ConferenceChanged, ConferenceState, KeepsRest, stampVars, saveVars, CallGoesOn,
              Inv, TypeOK, ListedCallsAreLive, Origin, CallState, Initializing, InProgress, Finished
<1>5. CASE ConferenceRemoved
  BY <1>5 DEF ConferenceRemoved, KeepsRest, stampVars, saveVars, CallGoesOn, Inv, TypeOK, Origin,
              CallState, Initializing, InProgress, Finished
<1>6. CASE \E on \in BOOLEAN : RecordStateChanged(on)
  BY <1>6 DEF RecordStateChanged, KeepsState, treeVars, stampVars, saveVars, NothingSeen
<1> QED
  BY <1>1, <1>2, <1>3, <1>4, <1>5, <1>6 DEF DaemonStep

(* The two state machines, the tree and the history implement the life     *)
(* cycle.                                                                  *)
THEOREM Refinement == Spec => KeepsPromise
<1>1. Init => Promise!Init
  <2> SUFFICES ASSUME Init PROVE Promise!Init
    OBVIOUS
  <2> DEFINE life == IF state = "NONE" THEN "NONE" ELSE LifeCycle(state)
  <2>1. /\ life \in Promise!Phase \union {"NONE"}
        /\ life = "NONE" => state = "NONE"
        /\ life = "PROGRESS" => state \in InProgress
    BY DEF Init, ExistingState, Promise!Phase, LifeCycle, Initializing, InProgress, Finished
  <2>2. TypeOK /\ TalkingHasStart /\ (state = "NONE" => ~tracked)
    BY InitInv DEF Inv, Origin
  <2>3. type # "CONFERENCE" /\ ~(entries > 0)
    BY DEF Init
  <2>4. tracked \in BOOLEAN
    BY <2>2 DEF TypeOK
  <2> HIDE DEF life
  <2>5. (startTime # 0) \in BOOLEAN
    OBVIOUS
  <2> QED
    BY <2>1, <2>2, <2>3, <2>4, <2>5, Zenon DEF Promise!Init, TalkingHasStart, life
<1>2. Inv /\ Inv' /\ [Next]_vars => [Promise!Next]_(Promise!vars)
  <2> SUFFICES ASSUME Inv, Inv', [Next]_vars PROVE NewCall \/ CallGoesOn \/ NothingSeen
    BY PromiseStep
  <2>1. CASE UserStep
    BY <2>1, UserShape
  <2>2. CASE DaemonStep
    BY <2>2, DaemonShape
  <2>3. CASE Tick \/ UNCHANGED vars
    BY <2>3 DEF Tick, vars, KeepsState, treeVars, stampVars, saveVars, NothingSeen
  <2> QED
    BY <2>1, <2>2, <2>3 DEF Next
<1> QED
  BY <1>1, <1>2, Invariance, PTL DEF Spec, KeepsPromise, Promise!Spec

-----------------------------------------------------------------------------
(* The form of an account.  Of each detail the proofs need its kind, and   *)
(* of each kind what the form shows, what it writes back and what that     *)
(* means; the invariant says what the object and the form hold of a detail *)
(* while neither the user nor another client has touched it, and what of   *)
(* it after they have.                                                     *)

LoadedKinds == {"text", "flag", "stun", "route", "number", "method", "key", "ring", "interface",
                "protocol", "dtmf"}

(* What the proofs need of the kind a detail has.                          *)
KindFits(d, k) ==
  /\ k \in LoadedKinds => d \in Loaded /\ d \in Saved
  /\ k \notin LoadedKinds => /\ k \in {"row", "credentials", "audio", "video"}
                             /\ k = "row" <=> d = "enabled"
                             /\ k = "row" => d \notin Loaded
                             /\ k \in {"audio", "video"} => d \notin Saved
                             /\ k = "credentials" <=> d = "credentials"
                             /\ k = "credentials" => d \in Saved /\ d \in Loaded
                             /\ d \in Connected \ {"ringtonePath"}
  /\ d \in {"hostname", "alias"} => k = "text"
  /\ d \in {"enabled", "credentials"} => k \notin LoadedKinds

LEMMA UserKinds == \A d \in DOMAIN UserDetails : KindFits(d, UserDetails[d])
  BY DEF UserDetails, KindFits, LoadedKinds, Loaded, Saved, Connected
LEMMA ZrtpKinds == \A d \in DOMAIN ZrtpDetails : KindFits(d, ZrtpDetails[d])
  BY DEF ZrtpDetails, KindFits, LoadedKinds, Loaded, Saved, Connected
LEMMA NetworkKinds == \A d \in DOMAIN NetworkDetails : KindFits(d, NetworkDetails[d])
  BY DEF NetworkDetails, KindFits, LoadedKinds, Loaded, Saved, Connected
LEMMA TlsKinds == \A d \in DOMAIN TlsDetails : KindFits(d, TlsDetails[d])
  BY DEF TlsDetails, KindFits, LoadedKinds, Loaded, Saved, Connected
LEMMA ChoiceKinds == \A d \in DOMAIN ChoiceDetails : KindFits(d, ChoiceDetails[d])
  BY DEF ChoiceDetails, KindFits, LoadedKinds, Loaded, Saved, Connected
LEMMA MediaKinds == \A d \in DOMAIN MediaDetails : KindFits(d, MediaDetails[d])
  BY DEF MediaDetails, KindFits, LoadedKinds, Loaded, Saved, Connected
LEMMA ListKinds == \A d \in DOMAIN ListDetails : KindFits(d, ListDetails[d])
  BY DEF ListDetails, KindFits, LoadedKinds, Loaded, Saved, Connected

LEMMA DetailKinds == \A d \in Detail : KindFits(d, Kind[d])
<1>1. \A g \in Groups : \A d \in DOMAIN g : KindFits(d, g[d])
  BY UserKinds, ZrtpKinds, NetworkKinds, TlsKinds, ChoiceKinds, MediaKinds, ListKinds DEF Groups
<1>2. SUFFICES ASSUME NEW d \in Detail
               PROVE  KindFits(d, Kind[d])
  OBVIOUS
<1>. DEFINE g == CHOOSE group \in Groups : d \in DOMAIN group
<1>3. g \in Groups /\ d \in DOMAIN g
  BY DEF Detail
<1>. HIDE DEF g
<1>4. KindFits(d, g[d])
  BY <1>1, <1>3
<1>5. Kind[d] = g[d]
  BY DEF Kind, g
<1>. QED
  BY <1>4, <1>5

-----------------------------------------------------------------------------
(* What each action of the edit state machine does, by the state it meets. *)
LEMMA Steps ==
  ASSUME NEW a, current[a] \in EditState
  PROVE  /\ StateAfter(a, "EDIT") = IF current[a] = "READY" THEN "EDITING" ELSE current[a]
         /\ StateAfter(a, "MODIFY") = "MODIFIED"
         /\ StateAfter(a, "CANCEL") = "READY"
         /\ StateAfter(a, "RELOAD") = IF current[a] = "EDITING" THEN "OUTDATED" ELSE current[a]
         /\ Reloads(a, "MODIFY") <=> current[a] = "OUTDATED"
         /\ Reloads(a, "CANCEL") <=> current[a] \in {"OUTDATED", "MODIFIED"}
         /\ Reloads(a, "RELOAD") <=> current[a] = "READY"
<1>1. CASE current[a] = "READY"
  BY <1>1 DEF StateAfter, Reloads, Handler, stateMachineActionsOnState
<1>2. CASE current[a] = "EDITING"
  BY <1>2 DEF StateAfter, Reloads, Handler, stateMachineActionsOnState
<1>3. CASE current[a] = "OUTDATED"
  BY <1>3 DEF StateAfter, Reloads, Handler, stateMachineActionsOnState
<1>4. CASE current[a] = "MODIFIED"
  BY <1>4 DEF StateAfter, Reloads, Handler, stateMachineActionsOnState
<1>. QED
  BY <1>1, <1>2, <1>3, <1>4 DEF EditState

(* The codecs that are not active are codecs.                              *)
LEMMA InactiveIsSeq == \A w : Inactive(w) \in Seq(Nat)
<1>. TAKE w
<1>. DEFINE q == Codecs
            n == 2
            N == Len(q)
            D == Seq(1..n)
            base == <<>>
            Step(x, y) == IF Contains(w, y) THEN x ELSE Append(x, y)
            step == [i \in 1..N |-> [x \in D |-> Step(x, q[i])]]
            Folds(g) == g = [r \in SUBSET (DOMAIN q) |->
                               IF r = {} THEN base ELSE Step(g[r \ {Max(r)}], q[Max(r)])]
            f == CHOOSE g : Folds(g)
<1>1. N \in Nat /\ DOMAIN q = 1..N /\ \A i \in 1..N : q[i] \in 1..n
  BY DEF Codecs
<1>. HIDE DEF q, n
<1>2. Inactive(w) = f[DOMAIN q]
  BY DEF q, Inactive, FoldLeft, MapThenFoldSet
<1>3. base \in D
  OBVIOUS
<1>4. ASSUME NEW x \in D, NEW y \in 1..n  PROVE Step(x, y) \in D
  <2>1. Append(x, y) \in Seq(1..n)
    BY <1>4
  <2>. QED
    BY <1>4, <2>1
<1>. HIDE DEF D, base, Step
<1>5. step \in [1..N -> [D -> D]]
  BY <1>1, <1>4
<1>6. Folds(f)
  <2>1. PICK g \in [SUBSET (1..N) -> D] : IsFold(g, N, base, step)
    <3>. HIDE DEF N, step
    <3>. QED
      BY <1>1, <1>3, <1>5, FoldExists
  <2>2. \A r \in SUBSET (1..N) : r # {} => Max(r) \in 1..N /\ g[r \ {Max(r)}] \in D
    BY <1>1, MaxIsMember
  <2>3. \A r \in SUBSET (1..N) : r # {} =>
          step[Max(r)][g[r \ {Max(r)}]] = Step(g[r \ {Max(r)}], q[Max(r)])
    BY <1>1, <2>2
  <2>4. Folds(g)
    <3>. HIDE DEF step
    <3>. QED
      BY <1>1, <2>1, <2>3, Zenon DEF IsFold
  <2>. HIDE DEF Folds
  <2>. QED
    BY <2>4
<1>7. \A r \in SUBSET (1..N) : f[r] = IF r = {} THEN base ELSE Step(f[r \ {Max(r)}], q[Max(r)])
  <2>. HIDE DEF f
  <2>. QED
    BY <1>1, <1>6, Zenon
<1>. HIDE DEF f, step, Folds
<1>8. f[1..0] \in D
  <2>1. 1..0 = {} /\ 1..0 \in SUBSET (1..N)
    OBVIOUS
  <2>. QED
    BY <1>3, <1>7, <2>1
<1>9. ASSUME NEW k \in 1..N, f[1..(k - 1)] \in D  PROVE f[1..k] \in D
  <2>1. /\ 1..k \in SUBSET (1..N) /\ 1..k # {} /\ Max(1..k) = k
        /\ (1..k) \ {k} = 1..(k - 1)
    BY <1>1, UpTo
  <2>2. f[1..k] = Step(f[1..(k - 1)], q[k])
    BY <1>7, <2>1
  <2>. QED
    BY <1>1, <1>4, <1>9, <2>2
<1>10. f[1..N] \in D
  BY <1>1, <1>8, <1>9, FoldValues
<1>. QED
  BY <1>1, <1>2, <1>10 DEF D, n

(* What Active has read after each codec.                                  *)
LEMMA ActiveSteps ==
  ASSUME NEW S, NEW c \in Seq(S \X BOOLEAN)
  PROVE  \E g \in [0..Len(c) -> Seq(S)] :
           /\ g[0] = <<>> /\ Active(c) = g[Len(c)]
           /\ \A k \in 1..Len(c) : g[k] = IF c[k][2] THEN Append(g[k - 1], c[k][1]) ELSE g[k - 1]
<1>. DEFINE N == Len(c)
            Step(l, y) == IF y[2] THEN Append(l, y[1]) ELSE l
            D == Seq(S)
            step == [i \in 1..N |-> [l \in D |-> Step(l, c[i])]]
            Folds(g) == g = [r \in SUBSET (DOMAIN c) |->
                               IF r = {} THEN <<>> ELSE Step(g[r \ {Max(r)}], c[Max(r)])]
            f == CHOOSE g : Folds(g)
<1>1. N \in Nat /\ DOMAIN c = 1..N /\ \A i \in 1..N : c[i] \in S \X BOOLEAN
  OBVIOUS
<1>2. Active(c) = f[DOMAIN c]
  BY DEF Active, FoldLeft, MapThenFoldSet
<1>3. <<>> \in D /\ \A i \in 1..N, l \in D : Step(l, c[i]) \in D
  <2>1. ASSUME NEW i \in 1..N, NEW l \in D  PROVE Step(l, c[i]) \in D
    <3>1. c[i][1] \in S
      BY <1>1
    <3>2. Append(l, c[i][1]) \in D
      BY <3>1
    <3>. QED
      BY <3>2
  <2>. QED
    BY <2>1
<1>. HIDE DEF Step
<1>4. step \in [1..N -> [D -> D]]
  BY <1>3
<1>5. Folds(f)
  <2>1. PICK g \in [SUBSET (1..N) -> D] : IsFold(g, N, <<>>, step)
    <3>. HIDE DEF N, step, D
    <3>. QED
      BY <1>1, <1>3, <1>4, FoldExists
  <2>2. \A r \in SUBSET (1..N) : r # {} => Max(r) \in 1..N /\ g[r \ {Max(r)}] \in D
    BY <1>1, MaxIsMember
  <2>3. \A r \in SUBSET (1..N) : r # {} =>
          step[Max(r)][g[r \ {Max(r)}]] = Step(g[r \ {Max(r)}], c[Max(r)])
    BY <1>1, <2>2
  <2>4. Folds(g)
    <3>. HIDE DEF step
    <3>. QED
      BY <1>1, <2>1, <2>3, Zenon DEF IsFold
  <2>. HIDE DEF Folds
  <2>. QED
    BY <2>4
<1>6. \A r \in SUBSET (1..N) : f[r] = IF r = {} THEN <<>> ELSE Step(f[r \ {Max(r)}], c[Max(r)])
  <2>. HIDE DEF f
  <2>. QED
    BY <1>1, <1>5, Zenon
<1>. HIDE DEF f, step, Folds
<1>7. f[1..0] = <<>>
  <2>1. 1..0 = {} /\ 1..0 \in SUBSET (1..N)
    OBVIOUS
  <2>. QED
    BY <1>6, <2>1
<1>8. ASSUME NEW k \in 1..N  PROVE f[1..k] = Step(f[1..(k - 1)], c[k])
  <2>1. /\ 1..k \in SUBSET (1..N) /\ 1..k # {} /\ Max(1..k) = k
        /\ (1..k) \ {k} = 1..(k - 1)
    BY <1>1, UpTo
  <2>. QED
    BY <1>6, <2>1
<1>9. \A k \in 0..N : f[1..k] \in D
  <2>. DEFINE K == {k \in Nat : k =< N => f[1..k] \in D}
  <2>. HIDE DEF D
  <2>1. 0 \in K
    BY <1>3, <1>7
  <2>2. ASSUME NEW k \in Nat, k \in K  PROVE k + 1 \in K
    <3>1. k + 1 =< N => k + 1 \in 1..N /\ k + 1 - 1 = k /\ k =< N
      BY <1>1
    <3>2. k + 1 =< N => f[1..(k + 1)] = Step(f[1..k], c[k + 1])
      BY <1>8, <3>1
    <3>. QED
      BY <1>3, <2>2, <3>1, <3>2
  <2>3. Nat \subseteq K
    <3>. HIDE DEF K
    <3>. QED
      BY <2>1, <2>2, Induction
  <2>. QED
    BY <1>1, <2>3
<1>. DEFINE g == [k \in 0..N |-> f[1..k]]
<1>10. g \in [0..N -> D]
  BY <1>9
<1>11. g[0] = <<>> /\ Active(c) = g[N]
  BY <1>1, <1>2, <1>7
<1>12. \A k \in 1..N : g[k] = Step(g[k - 1], c[k])
  <2>1. \A k \in 1..N : k \in 0..N /\ k - 1 \in 0..N
    BY <1>1
  <2>. QED
    BY <1>8, <2>1
<1>. QED
  BY <1>10, <1>11, <1>12 DEF Step

LEMMA ActiveIsSeq ==
  ASSUME NEW S, NEW c \in Seq(S \X BOOLEAN)
  PROVE  Active(c) \in Seq(S)
<1>1. Len(c) \in Nat /\ Len(c) \in 0..Len(c)
  OBVIOUS
<1>. QED
  BY <1>1, ActiveSteps

LEMMA MarkedIs ==
  ASSUME NEW S, NEW w \in Seq(S), NEW on \in BOOLEAN
  PROVE  /\ Marked(w, on) \in Seq(S \X BOOLEAN) /\ Len(Marked(w, on)) = Len(w)
         /\ \A i \in 1..Len(w) : Marked(w, on)[i] = <<w[i], on>>
<1>1. Len(w) \in Nat /\ DOMAIN w = 1..Len(w) /\ \A i \in 1..Len(w) : w[i] \in S
  OBVIOUS
<1>2. Marked(w, on) \in [1..Len(w) -> S \X BOOLEAN]
  BY <1>1 DEF Marked
<1>. QED
  BY <1>1, <1>2, FunIsSeq DEF Marked

(* The codecs the daemon names are the ones that are sent back.            *)
LEMMA ActiveBack ==
  ASSUME NEW S, NEW w \in Seq(S), NEW rest \in Seq(S)
  PROVE  Active(Marked(w, TRUE) \o Marked(rest, FALSE)) = w
<1>. DEFINE c == Marked(w, TRUE) \o Marked(rest, FALSE)
            M == Len(w)
            N == Len(c)
<1>0. M \in Nat /\ M = Len(w) /\ N = Len(c)
  OBVIOUS
<1>. HIDE DEF M, N
<1>1. /\ M \in Nat /\ N \in Nat /\ M =< N /\ c \in Seq(S \X BOOLEAN)
      /\ \A i \in 1..M : c[i] = <<w[i], TRUE>>
      /\ \A i \in 1..N : i > M => c[i][2] = FALSE
  <2>. DEFINE T == S \X BOOLEAN
              x == Marked(w, TRUE)
              y == Marked(rest, FALSE)
  <2>. HIDE DEF x, y, T
  <2>1. x \in Seq(T) /\ Len(x) = M /\ \A i \in 1..M : x[i] = <<w[i], TRUE>>
    BY <1>0, MarkedIs DEF x, T
  <2>2. /\ y \in Seq(T) /\ Len(y) = Len(rest)
        /\ \A i \in 1..Len(rest) : y[i] = <<rest[i], FALSE>>
    BY MarkedIs DEF y, T
  <2>3. ASSUME NEW i \in 1..Len(y)  PROVE y[i][2] = FALSE
    <3>1. y[i] = <<rest[i], FALSE>>
      BY <2>2
    <3>. QED
      BY <3>1
  <2>4. /\ x \o y \in Seq(T) /\ Len(x \o y) = Len(x) + Len(y)
        /\ \A i \in 1..Len(x) : (x \o y)[i] = x[i]
        /\ \A i \in (Len(x) + 1)..(Len(x) + Len(y)) : (x \o y)[i] = y[i - Len(x)]
    BY <2>1, <2>2, ConcatElements
  <2>5. M \in Nat /\ Len(y) \in Nat
    BY <1>0, <2>2
  <2>7. c = x \o y
    BY DEF x, y
  <2>. HIDE DEF c
  <2>8. N = M + Len(y) /\ N \in Nat /\ M =< N
    BY <1>0, <2>1, <2>4, <2>5, <2>7
  <2>9. ASSUME NEW i \in 1..M  PROVE c[i] = <<w[i], TRUE>>
    <3>. QED
      BY <2>1, <2>4, <2>7, <2>9
  <2>10. ASSUME NEW i \in 1..N, i > M  PROVE c[i][2] = FALSE
    <3>1. i \in (M + 1)..(M + Len(y)) /\ i - M \in 1..Len(y)
      BY <2>5, <2>8, <2>10
    <3>2. (x \o y)[i] = y[i - M]
      BY <2>1, <2>4, <3>1
    <3>. QED
      BY <2>3, <2>7, <3>1, <3>2
  <2>11. c \in Seq(T)
    BY <2>4, <2>7
  <2>. QED
    BY <2>5, <2>8, <2>9, <2>10, <2>11 DEF T
<1>. HIDE DEF c
<1>2a. \E g \in [0..Len(c) -> Seq(S)] :
           /\ g[0] = <<>> /\ Active(c) = g[Len(c)]
           /\ \A k \in 1..Len(c) : g[k] = IF c[k][2] THEN Append(g[k - 1], c[k][1]) ELSE g[k - 1]
  <2>1. c \in Seq(S \X BOOLEAN)
    BY <1>1
  <2>. QED
    BY <2>1, ActiveSteps, SMTT(30)
<1>2. PICK g \in [0..N -> Seq(S)] :
           /\ g[0] = <<>> /\ Active(c) = g[N]
           /\ \A k \in 1..N : g[k] = IF c[k][2] THEN Append(g[k - 1], c[k][1]) ELSE g[k - 1]
  BY <1>0, <1>2a
<1>. DEFINE Good(k) == /\ k =< M => Len(g[k]) = k /\ \A i \in 1..k : g[k][i] = w[i]
                       /\ k > M => g[k] = w
            K == {k \in Nat : k =< N => Good(k)}
<1>3. M \in 0..N /\ (Good(M) => g[M] = w)
  <2>1. M \in 0..N
    BY <1>1
  <2>2. ASSUME Good(M)  PROVE g[M] = w
    <3>. DEFINE x == g[M]
    <3>1. x \in Seq(S) /\ Len(x) = M /\ \A i \in 1..M : x[i] = w[i]
      BY <1>1, <1>2, <2>1, <2>2
    <3>. HIDE DEF x
    <3>2. x = w
      BY <1>0, <3>1
    <3>. QED
      BY <3>2 DEF x
  <2>. QED
    BY <2>1, <2>2
<1>4. 0 \in K
  BY <1>1, <1>2
<1>5. ASSUME NEW k \in Nat, k \in K, k + 1 =< N  PROVE Good(k + 1)
  <2>0. k + 1 \in 1..N /\ k + 1 - 1 = k /\ k \in 0..N /\ k =< N
    BY <1>1, <1>5
  <2>1. /\ k + 1 \in 1..N /\ k + 1 - 1 = k /\ k \in 0..N /\ k =< N
        /\ g[k] \in Seq(S) /\ Good(k)
    BY <1>2, <1>5, <2>0
  <2>2. CASE k + 1 =< M
    <3>0. k + 1 \in 1..M /\ k =< M
      BY <1>1, <2>2
    <3>1. c[k + 1] = <<w[k + 1], TRUE>> /\ w[k + 1] \in S
      <4>1. c[k + 1] = <<w[k + 1], TRUE>>
        BY <1>1, <3>0
      <4>2. w[k + 1] \in S
        BY <1>0, <3>0
      <4>. QED
        BY <4>1, <4>2
    <3>2. g[k + 1] = Append(g[k], w[k + 1])
      <4>1. c[k + 1][2] = TRUE /\ c[k + 1][1] = w[k + 1]
        BY <3>1
      <4>2. g[k + 1] = IF c[k + 1][2] THEN Append(g[k], c[k + 1][1]) ELSE g[k]
        BY <1>2, <2>1
      <4>. QED
        BY <4>1, <4>2, Zenon
    <3>3. Len(g[k]) = k /\ \A i \in 1..k : g[k][i] = w[i]
      BY <2>1, <3>0
    <3>4. /\ Len(g[k + 1]) = k + 1 /\ g[k + 1][k + 1] = w[k + 1]
          /\ \A i \in 1..k : g[k + 1][i] = g[k][i]
      <4>. HIDE DEF Good, K, M
      <4>. QED
        BY <2>1, <3>1, <3>2, <3>3, AppendedTo
    <3>5. \A i \in 1..(k + 1) : i = k + 1 \/ i \in 1..k
      OBVIOUS
    <3>6. \A i \in 1..(k + 1) : g[k + 1][i] = w[i]
      BY <3>3, <3>4, <3>5
    <3>7. ~(k + 1 > M)
      BY <1>1, <2>2
    <3>. QED
      BY <3>4, <3>6, <3>7
  <2>3. CASE k + 1 > M
    <3>1. c[k + 1][2] = FALSE
      BY <1>1, <2>1, <2>3
    <3>2. g[k + 1] = g[k]
      BY <1>2, <2>1, <3>1
    <3>3. k = M \/ k > M
      BY <1>1, <2>3
    <3>4. g[k] = w
      BY <1>3, <2>1, <3>3
    <3>. QED
      BY <1>1, <2>3, <3>2, <3>4
  <2>. QED
    BY <1>1, <2>1, <2>2, <2>3
<1>6. Nat \subseteq K
  <2>. HIDE DEF Good
  <2>1. \A k \in Nat : k \in K => k + 1 \in K
    BY <1>5
  <2>. HIDE DEF K
  <2>. QED
    BY <1>4, <2>1, Induction
<1>7. Good(N)
  <2>. HIDE DEF Good
  <2>. QED
    BY <1>1, <1>6
<1>8. g[N] = w
  <2>1. CASE N = M
    BY <1>3, <1>7, <2>1
  <2>2. CASE N > M
    BY <1>7, <2>2
  <2>. QED
    BY <1>1, <2>1, <2>2
<1>. QED
  BY <1>2, <1>8 DEF c

LEMMA SentBack ==
  ASSUME NEW k, NEW w, k = "audio" => w \in Seq(Nat)
  PROVE  Sent(k, Received(k, w)) = w
  BY InactiveIsSeq, ActiveBack DEF Sent, Received
-----------------------------------------------------------------------------
(* The invariant of the form begins with its types.                        *)

FormTypes ==
  /\ detail \in Details /\ iax \in BOOLEAN /\ changed \in BOOLEAN /\ dirty \in BOOLEAN
  /\ cur \in Ids /\ astray \in SUBSET Ids /\ current \in [Ids -> EditState]
  /\ DOMAIN remote = Ids /\ DOMAIN copy = Ids /\ DOMAIN host = Ids /\ DOMAIN typed = Ids

(* The codecs are lists of numbers, marked with what is active in the copy.*)
CodecLists ==
  kind = "audio" => \A a \in Ids : remote[a] \in Seq(Nat) /\ copy[a] \in Seq(Nat \X BOOLEAN)

HostAgrees == detail = "hostname" => \A a \in Ids : host[a] = copy[a]

FormBasics == FormTypes /\ CodecLists /\ HostAgrees

LEMMA KindKnown == FormTypes => KindFits(detail, kind)
  BY DetailKinds, FormAssumption DEF FormTypes, kind

LEMMA NextEditState ==
  ASSUME NEW a, current[a] \in EditState, NEW act \in {"EDIT", "MODIFY", "CANCEL", "RELOAD"}
  PROVE  StateAfter(a, act) \in EditState
<1>. QED
  BY Steps DEF EditState

LEMMA FormTypesInit == FormInit => FormTypes
  BY FormAssumption, Zenon DEF FormInit, FormTypes, EditState

LEMMA FormTypesKept == FormTypes /\ [FormNext]_formVars => FormTypes'
<1>. SUFFICES ASSUME FormTypes, [FormNext]_formVars
              PROVE  FormTypes'
  OBVIOUS
<1>. USE DEF FormTypes
<1>0. \A a \in Ids : /\ current[a] \in EditState
                     /\ StateAfter(a, "EDIT") \in EditState /\ StateAfter(a, "MODIFY") \in EditState
                     /\ StateAfter(a, "CANCEL") \in EditState /\ StateAfter(a, "RELOAD") \in EditState
  BY NextEditState
<1>0a. "READY" \in EditState
  BY DEF EditState
<1>1. CASE TypeOther
  BY <1>0, <1>1 DEF TypeOther, Perform, ghostVars
<1>2. CASE AddCredential
  BY <1>2, Zenon DEF AddCredential, CredentialStep, SelectRow
<1>3. CASE RemoveCredential
  BY <1>3 DEF RemoveCredential, CredentialStep, SelectRow
<1>4. CASE Apply
  BY <1>0, <1>0a, <1>4 DEF Apply
<1>5. CASE updateAccounts
  BY <1>0, <1>5 DEF updateAccounts
<1>6. CASE ForeignOther
  BY <1>6 DEF ForeignOther, Foreign, objectVars
<1>7. ASSUME NEW a \in Ids, Select(a)  PROVE FormTypes'
  BY <1>0, <1>7 DEF Select
<1>8. ASSUME NEW a \in Ids, Check(a)  PROVE FormTypes'
  BY <1>0, <1>8 DEF Check
<1>9. ASSUME NEW v, Type(v)  PROVE FormTypes'
  BY <1>0, <1>9 DEF Type, objectVars
<1>10. ASSUME NEW v, TypePassword(v)  PROVE FormTypes'
  BY <1>0, <1>10 DEF TypePassword
<1>11. ASSUME NEW v, TypeCredential(v)  PROVE FormTypes'
  BY <1>0, <1>11 DEF TypeCredential, Perform
<1>12. ASSUME NEW c, EditCodecs(c)  PROVE FormTypes'
  BY <1>0, <1>12 DEF EditCodecs
<1>13. ASSUME NEW row, SelectCredential(row)  PROVE FormTypes'
  BY <1>13 DEF SelectCredential, CredentialStep, SelectRow
<1>14. ASSUME NEW a \in Ids, NEW w, ForeignEdit(a, w)  PROVE FormTypes'
  BY <1>14 DEF ForeignEdit, Foreign, objectVars
<1>15. CASE UNCHANGED formVars
  BY <1>15 DEF formVars, objectVars, ghostVars
<1>. QED
  BY <1>1, <1>2, <1>3, <1>4, <1>5, <1>6, <1>7, <1>8, <1>9, <1>10, <1>11, <1>12, <1>13, <1>14,
     <1>15 DEF FormNext

(* Which detail it is does not change.                                     *)
LEMMA DetailStays == [FormNext]_formVars => detail' = detail /\ iax' = iax
  BY Zenon DEF FormNext, TypeOther, AddCredential, RemoveCredential, Apply, updateAccounts, ForeignOther,
         Foreign, Select, Check, Type, TypePassword, TypeCredential, EditCodecs, SelectCredential,
         ForeignEdit, CredentialStep, Perform, ghostVars, formVars

-----------------------------------------------------------------------------
(* The lists of codecs.                                                    *)

LEMMA EditsAreLists ==
  ASSUME kind = "audio", NEW c \in Seq(Nat \X BOOLEAN), NEW d \in CodecEdits(c)
  PROVE  d \in Seq(Nat \X BOOLEAN)
<1>. DEFINE T == Nat \X BOOLEAN
<1>1. Len(c) \in Nat /\ DOMAIN c = 1..Len(c) /\ \A i \in DOMAIN c : c[i] \in T
  OBVIOUS
<1>2. CASE d \in Checked(c)
  <2>1. PICK i \in DOMAIN c : d = [c EXCEPT ![i][2] = ~@]
    BY <1>2 DEF Checked
  <2>2. [c[i] EXCEPT ![2] = ~@] \in T
    <3>1. PICK n \in Nat, on \in BOOLEAN : c[i] = <<n, on>>
      BY <1>1
    <3>2. [c[i] EXCEPT ![2] = ~@] = <<n, ~on>>
      BY <3>1
    <3>. QED
      BY <3>2, Zenon
  <2>3. d = [c EXCEPT ![i] = [c[i] EXCEPT ![2] = ~@]]
    BY <2>1
  <2>. QED
    BY <1>1, <2>2, <2>3, ChangedAt
<1>3. CASE d \in Moved(c)
  <2>1. PICK i \in 1..(Len(c) - 1) : d = [c EXCEPT ![i] = c[i + 1], ![i + 1] = c[i]]
    BY <1>3 DEF Moved
  <2>2. i \in DOMAIN c /\ i + 1 \in DOMAIN c
    BY <1>1
  <2>3. c[i] \in T /\ c[i + 1] \in T
    BY <1>1, <2>2
  <2>. DEFINE b == [c EXCEPT ![i] = c[i + 1]]
  <2>4. b \in Seq(T) /\ Len(b) = Len(c)
    BY <1>1, <2>3, ChangedAt
  <2>5. d = [b EXCEPT ![i + 1] = c[i]]
    BY <2>1
  <2>. HIDE DEF b
  <2>6. d \in Seq(T)
    BY <1>1, <2>3, <2>4, <2>5, ChangedAt
  <2>. QED
    BY <2>6
<1>. QED
  BY <1>2, <1>3 DEF CodecEdits

(* What the other actions make of a detail that is a list of codecs.       *)
LEMMA CodecsAreKept ==
  ASSUME FormTypes, kind \in {"audio", "video"}
  PROVE  /\ \A a, act : CopyAfter(a, act) = copy[a]
         /\ \A a : SavedCopy(a) = copy[a] /\ ~Takes(a)
         /\ \A c : Edited(c) = c
         /\ Entered(kind) = {} /\ IsCodec
         /\ detail \notin {"enabled", "hostname", "alias", "ringtonePath"}
<1>1. detail \notin Saved /\ detail \notin {"enabled", "hostname", "alias", "ringtonePath"}
  BY KindKnown DEF KindFits, LoadedKinds, Saved
<1>2. IsCodec
  BY DEF IsCodec
<1>3. Entered(kind) = {}
  BY DEF Entered
<1>4. \A a : ~Takes(a)
  BY <1>1 DEF Takes
<1>. QED
  BY <1>1, <1>2, <1>3, <1>4 DEF CopyAfter, SavedCopy, Edited

LEMMA RawCodecs == Raw["audio"] \subseteq Seq(Nat)
  BY DEF Raw

LEMMA CodecListsInit == FormInit => CodecLists
<1>. SUFFICES ASSUME FormInit, kind = "audio", NEW a \in Ids
              PROVE  remote[a] \in Seq(Nat) /\ copy[a] \in Seq(Nat \X BOOLEAN)
  BY DEF CodecLists
<1>2. remote[a] \in Seq(Nat)
  BY RawCodecs, Zenon DEF FormInit
<1>. DEFINE w == remote[a]
<1>. HIDE DEF w
<1>3. w \in Seq(Nat) /\ Inactive(w) \in Seq(Nat)
  BY <1>2, InactiveIsSeq DEF w
<1>4. /\ Marked(w, TRUE) \in Seq(Nat \X BOOLEAN)
      /\ Marked(Inactive(w), FALSE) \in Seq(Nat \X BOOLEAN)
  BY <1>3, MarkedIs
<1>5. Received("audio", w) \in Seq(Nat \X BOOLEAN)
  BY <1>4, ConcatElements DEF Received
<1>6. copy[a] = Received(kind, remote[a])
  BY Zenon DEF FormInit
<1>. QED
  BY <1>2, <1>5, <1>6 DEF w

LEMMA CodecListsKept == FormTypes /\ CodecLists /\ [FormNext]_formVars => CodecLists'
<1>. SUFFICES ASSUME FormTypes, CodecLists, [FormNext]_formVars, kind' = "audio"
              PROVE  (\A a \in Ids : remote[a] \in Seq(Nat) /\ copy[a] \in Seq(Nat \X BOOLEAN))'
  BY DEF CodecLists
<1>0. kind = "audio"
  BY DetailStays DEF kind
<1>. DEFINE P(r, c) == \A a \in Ids : r[a] \in Seq(Nat) /\ c[a] \in Seq(Nat \X BOOLEAN)
<1>a. P(remote, copy)
  BY <1>0 DEF CodecLists
<1>b. DOMAIN copy = Ids /\ DOMAIN remote = Ids /\ cur \in Ids
  BY DEF FormTypes
<1>c. /\ \A a, act : CopyAfter(a, act) = copy[a]
      /\ \A a : SavedCopy(a) = copy[a]
      /\ \A c : Edited(c) = c
      /\ Entered(kind) = {} /\ detail # "enabled"
  BY <1>0, CodecsAreKept
<1>1. CASE TypeOther
  BY <1>a, <1>b, <1>c, <1>1 DEF TypeOther, Perform
<1>2. CASE AddCredential
  BY <1>0, <1>2, Zenon DEF AddCredential, CredentialStep
<1>3. CASE RemoveCredential
  BY <1>0, <1>3 DEF RemoveCredential, CredentialStep
<1>4. CASE Apply
  <2>1. copy' = [a \in Ids |-> copy[a]]
    BY <1>b, <1>c, <1>4 DEF Apply
  <2>2. remote' = [a \in Ids |-> IF current[a] = "MODIFIED" THEN Active(copy[a]) ELSE remote[a]]
    BY <1>0, <1>4, <2>1 DEF Apply, Sent
  <2>3. \A a \in Ids : Active(copy[a]) \in Seq(Nat)
    BY <1>a, ActiveIsSeq
  <2>. QED
    BY <1>a, <2>1, <2>2, <2>3
<1>5. CASE updateAccounts
  BY <1>a, <1>b, <1>c, <1>5 DEF updateAccounts
<1>6. CASE ForeignOther
  BY <1>a, <1>6 DEF ForeignOther, Foreign, objectVars
<1>7. ASSUME NEW a \in Ids, Select(a)  PROVE P(remote', copy')
  <2>1. remote' = [remote EXCEPT ![a] = remote[a]]
    BY <1>0, <1>7 DEF Select
  <2>2. copy' = [b \in Ids |-> copy[b]]
    BY <1>0, <1>7, <1>c DEF Select
  <2>. QED
    BY <1>a, <1>b, <2>1, <2>2
<1>8. ASSUME NEW a \in Ids, Check(a)  PROVE P(remote', copy')
  BY <1>8, <1>c DEF Check
<1>9. ASSUME NEW v \in Entered(kind)  PROVE P(remote', copy')
  BY <1>9, <1>c
<1>12. ASSUME NEW d \in CodecEdits(copy[cur]), EditCodecs(d)  PROVE P(remote', copy')
  <2>1. d \in Seq(Nat \X BOOLEAN)
    BY <1>0, <1>a, <1>b, EditsAreLists
  <2>. QED
    BY <1>12, <1>a, <1>b, <2>1 DEF EditCodecs
<1>13. ASSUME NEW row, SelectCredential(row)  PROVE P(remote', copy')
  BY <1>0, <1>13 DEF SelectCredential, CredentialStep
<1>14. ASSUME NEW a \in Ids, NEW w \in Raw[kind], ForeignEdit(a, w)  PROVE P(remote', copy')
  <2>1. w \in Seq(Nat)
    BY <1>0, RawCodecs
  <2>. QED
    BY <1>14, <1>a, <1>b, <2>1 DEF ForeignEdit, Foreign, objectVars
<1>15. CASE UNCHANGED formVars
  BY <1>a, <1>15 DEF formVars, objectVars
<1>. QED
  BY <1>1, <1>2, <1>3, <1>4, <1>5, <1>6, <1>7, <1>8, <1>9, <1>12, <1>13, <1>14,
     <1>15 DEF FormNext

-----------------------------------------------------------------------------
(* The hostname.                                                           *)

LEMMA HostAgreesKept == FormTypes /\ HostAgrees /\ [FormNext]_formVars => HostAgrees'
<1>. SUFFICES ASSUME FormTypes, HostAgrees, [FormNext]_formVars, detail' = "hostname"
              PROVE  (\A a \in Ids : host[a] = copy[a])'
  BY DEF HostAgrees
<1>0. detail = "hostname" /\ kind = "text"
  BY DetailStays, KindKnown DEF KindFits
<1>. DEFINE P(h, c) == \A a \in Ids : h[a] = c[a]
<1>a. P(host, copy)
  BY <1>0 DEF HostAgrees
<1>b. DOMAIN copy = Ids /\ DOMAIN host = Ids /\ cur \in Ids
  BY DEF FormTypes
<1>c. /\ \A a \in Ids : \A act : HostAfter(a, act) = CopyAfter(a, act)
      /\ \A c : Edited(c) = c /\ ~IsCodec
  BY <1>0, <1>a DEF HostAfter, CopyAfter, Edited, IsCodec
<1>d. ASSUME NEW a \in Ids  PROVE SavedHost(a) = SavedCopy(a)
  <2>1. CASE Takes(a)
    <3>1. SavedCopy(a) = IF host[a] # form THEN form ELSE copy[a]
      BY <1>0, <2>1 DEF SavedCopy
    <3>. QED
      BY <1>0, <1>a, <2>1, <3>1 DEF SavedHost
  <2>2. CASE ~Takes(a)
    <3>1. SavedCopy(a) = copy[a]
      BY <1>0, <2>2 DEF SavedCopy
    <3>2. SavedHost(a) = host[a]
      BY <2>2 DEF SavedHost
    <3>. QED
      BY <1>a, <3>1, <3>2
  <2>. QED
    BY <2>1, <2>2
<1>1. CASE TypeOther
  BY <1>a, <1>b, <1>c, <1>1 DEF TypeOther, Perform
<1>2. CASE AddCredential
  BY <1>0, <1>2, Zenon DEF AddCredential, CredentialStep
<1>3. CASE RemoveCredential
  BY <1>0, <1>3 DEF RemoveCredential, CredentialStep
<1>4. CASE Apply
  <2>1. ASSUME NEW a \in Ids  PROVE host'[a] = copy'[a]
    <3>1. CASE a # cur
      BY <1>4, <1>a, <2>1, <3>1 DEF Apply
    <3>2. CASE a = cur
      <4>1. copy'[a] = IF current[a] = "MODIFIED" THEN SavedCopy(a) ELSE CopyAfter(a, "CANCEL")
        BY <1>4, <1>c, <2>1, <3>2 DEF Apply
      <4>2. host'[a] = IF GivenBack(a) THEN HostAfter(a, "CANCEL") ELSE SavedHost(a)
        BY <1>4, <2>1, <3>2 DEF Apply
      <4>3. /\ current[a] \in EditState
            /\ Reloads(a, "CANCEL") <=> current[a] \in {"OUTDATED", "MODIFIED"}
        BY Steps DEF FormTypes
      <4>4. CASE current[a] = "MODIFIED"
        BY <1>d, <4>1, <4>2, <4>4 DEF GivenBack
      <4>5. CASE GivenBack(a)
        BY <1>c, <4>1, <4>2, <4>5 DEF GivenBack
      <4>6. CASE current[a] = "READY"
        <5>1. CopyAfter(a, "CANCEL") = copy[a]
          BY <4>3, <4>6 DEF CopyAfter
        <5>2. SavedHost(a) = host[a]
          BY <4>6 DEF SavedHost, Takes
        <5>. QED
          BY <1>a, <4>1, <4>2, <4>6, <5>1, <5>2 DEF GivenBack
      <4>. QED
        BY <4>3, <4>4, <4>5, <4>6 DEF EditState, GivenBack
    <3>. QED
      BY <3>1, <3>2
  <2>. QED
    BY <2>1
<1>5. CASE updateAccounts
  BY <1>c, <1>5 DEF updateAccounts
<1>6. CASE ForeignOther
  BY <1>a, <1>6 DEF ForeignOther, Foreign, objectVars
<1>7. ASSUME NEW a \in Ids, Select(a)  PROVE P(host', copy')
  <2>1. ASSUME NEW b \in Ids  PROVE host'[b] = copy'[b]
    <3>1. CASE b # cur
      <4>1. host'[b] = host[b] /\ copy'[b] = copy[b]
        BY <1>0, <1>7, <1>b, <2>1, <3>1 DEF Select
      <4>. QED
        BY <1>a, <4>1
    <3>2. CASE b = cur
      <4>1. copy'[b] = IF GivenBack(b) THEN CopyAfter(b, "CANCEL") ELSE SavedCopy(b)
        BY <1>0, <1>7, <2>1, <3>2 DEF Select
      <4>2. host'[b] = IF GivenBack(b) THEN HostAfter(b, "CANCEL") ELSE SavedHost(b)
        BY <1>0, <1>7, <1>b, <2>1, <3>2 DEF Select
      <4>. QED
        BY <1>c, <1>d, <4>1, <4>2
    <3>. QED
      BY <3>1, <3>2
  <2>. QED
    BY <2>1
<1>8. ASSUME NEW a \in Ids, Check(a)  PROVE P(host', copy')
  BY <1>0, <1>8 DEF Check
<1>9. ASSUME NEW v, Type(v)  PROVE P(host', copy')
  <2>1. CASE Watched(detail, form, v)
    BY <1>0, <1>9, <1>a, <1>b, <1>c, <2>1 DEF Type
  <2>2. CASE ~Watched(detail, form, v)
    BY <1>9, <1>a, <2>2 DEF Type, objectVars
  <2>. QED
    BY <2>1, <2>2
<1>10. ASSUME NEW v, TypePassword(v) \/ TypeCredential(v)  PROVE P(host', copy')
  BY <1>0, <1>10 DEF TypePassword, TypeCredential
<1>12. ASSUME NEW d, EditCodecs(d)  PROVE P(host', copy')
  BY <1>c, <1>12 DEF EditCodecs
<1>13. ASSUME NEW row, SelectCredential(row)  PROVE P(host', copy')
  BY <1>0, <1>13 DEF SelectCredential, CredentialStep
<1>14. ASSUME NEW a \in Ids, NEW w, ForeignEdit(a, w)  PROVE P(host', copy')
  BY <1>14, <1>a DEF ForeignEdit, Foreign, objectVars
<1>15. CASE UNCHANGED formVars
  BY <1>a, <1>15 DEF formVars, objectVars
<1>. QED
  BY <1>1, <1>2, <1>3, <1>4, <1>5, <1>6, <1>7, <1>8, <1>9, <1>10, <1>12, <1>13, <1>14,
     <1>15 DEF FormNext

LEMMA FormBasicsInit == FormInit => FormBasics
<1>1. FormInit => HostAgrees
  BY KindKnown, FormTypesInit DEF FormInit, HostAgrees, KindFits, Received
<1>. QED
  BY <1>1, FormTypesInit, CodecListsInit DEF FormBasics

LEMMA FormBasicsKept == FormBasics /\ [FormNext]_formVars => FormBasics'
  BY FormTypesKept, CodecListsKept, HostAgreesKept DEF FormBasics

-----------------------------------------------------------------------------
(* What the form shows of a detail and writes back.                        *)

LEMMA KeyWritten ==
  ASSUME NEW on \in BOOLEAN, NEW ex
  PROVE  /\ on => Written("key", <<on, ex>>) = <<"true", ex>>
         /\ ~on => Written("key", <<on, ex>>) = <<"false", "">>
<1>1. Written("key", <<on, ex>>) = <<writtenFlag(on), writtenExchange(on, ex)>>
  BY DEF Written
<1>2. on => writtenFlag(on) = "true" /\ writtenExchange(on, ex) = ex
  BY DEF writtenFlag, writtenExchange
<1>3. ~on => writtenFlag(on) = "false" /\ writtenExchange(on, ex) = ""
  BY DEF writtenFlag, writtenExchange
<1>. QED
  BY <1>1, <1>2, <1>3, Zenon

LEMMA ShownIsWritten ==
  ASSUME NEW k \in LoadedKinds, NEW i \in BOOLEAN, NEW w, ~CannotShow(k, i, w)
  PROVE  Means(k, Written(k, Shown(k, i, w))) = Means(k, w)
<1>1. CASE k = "text"
  BY <1>1 DEF Means, Written, Shown, writtenText
<1>2. CASE k = "flag"
  <2>1. Shown(k, i, w) = isTrue(w)
    BY <1>2 DEF Shown, Means
  <2>2. isTrue(writtenFlag(isTrue(w))) = isTrue(w)
    BY DEF isTrue, writtenFlag
  <2>. QED
    BY <1>2, <2>1, <2>2 DEF Means, Written
<1>3. CASE k = "stun"
  <2>1. Shown(k, i, w) = (isTrue(w) /\ ~i)
    BY <1>3 DEF Shown
  <2>2. (isTrue(w) /\ ~i) = isTrue(w)
    BY <1>3 DEF CannotShow, isTrue
  <2>3. isTrue(writtenFlag(isTrue(w))) = isTrue(w)
    BY DEF isTrue, writtenFlag
  <2>. QED
    BY <1>3, <2>1, <2>2, <2>3 DEF Means, Written
<1>4. CASE k = "route"
  BY <1>4, Zenon DEF Means, Written, Shown, writtenRoute
<1>5. CASE k = "number"
  BY <1>5, Zenon DEF Means, Written, Shown, writtenNumber, boxed, toInt, CannotShow
<1>6. CASE k = "method"
  BY <1>6 DEF Means, Written, Shown, writtenMethod, methodNamed
<1>7. CASE k = "key"
  <2>. DEFINE on == isTrue(w[1])
              ex == exchangeNamed(w[2])
  <2>1. on \in BOOLEAN /\ (on <=> ex # "") /\ ex \in {"", "zrtp", "sdes"}
    BY <1>7, Zenon DEF CannotShow, isTrue, exchangeNamed
  <2>2. Shown(k, i, w) = <<on, IF ex = "" THEN "zrtp" ELSE ex>>
    BY <1>7, Zenon DEF Shown, keyShown
  <2>3. Means(k, w) = <<on, ex>>
    BY <1>7 DEF Means
  <2>. HIDE DEF on, ex
  <2>4. CASE ex = ""
    <3>1. on = FALSE
      BY <2>1, <2>4, Zenon
    <3>2. Written(k, Shown(k, i, w)) = <<"false", "">>
      BY <1>7, <2>1, <2>2, <2>4, <3>1, KeyWritten, Zenon
    <3>3. Means(k, <<"false", "">>) = <<FALSE, "">>
      BY <1>7, Zenon DEF Means, isTrue, exchangeNamed
    <3>. QED
      BY <2>3, <2>4, <3>1, <3>2, <3>3, Zenon
  <2>5. CASE ex # ""
    <3>1. on = TRUE
      BY <2>1, <2>5, Zenon
    <3>2. Written(k, Shown(k, i, w)) = <<"true", ex>>
      BY <1>7, <2>1, <2>2, <2>5, <3>1, KeyWritten, Zenon
    <3>3. Means(k, <<"true", ex>>) = <<TRUE, ex>>
      BY <1>7, <2>1, <2>5, Zenon DEF Means, isTrue, exchangeNamed
    <3>. QED
      BY <2>3, <3>1, <3>2, <3>3
  <2>. QED
    BY <2>4, <2>5, Zenon
<1>8. CASE k = "ring"
  BY <1>8 DEF Means, Written, Shown, toneShown, realPath, CannotShow
<1>9. CASE k = "interface"
  <2>1. \E j \in DOMAIN Interfaces : Interfaces[j] = w
    BY <1>9 DEF CannotShow, ToSet
  <2>. QED
    BY <1>9, <2>1 DEF Means, Written, Shown, writtenText
<1>10. CASE k = "protocol"
  BY <1>10 DEF Means, Written, Shown, writtenProtocol, protocolNamed
<1>11. CASE k = "dtmf"
  BY <1>11, Zenon DEF Means, Written, Shown, writtenDtmf, dtmfNamed
<1>. QED
  BY <1>1, <1>2, <1>3, <1>4, <1>5, <1>6, <1>7, <1>8, <1>9, <1>10, <1>11 DEF LoadedKinds

(* Whether the form can show it depends on what it means only.             *)
LEMMA ShownAsMeant ==
  ASSUME NEW k \in LoadedKinds, NEW i \in BOOLEAN, NEW w, NEW x, Means(k, w) = Means(k, x)
  PROVE  CannotShow(k, i, w) = CannotShow(k, i, x)
<1>1. CASE k = "number"
  BY <1>1, Zenon DEF Means, CannotShow, toInt
<1>2. CASE k = "interface"
  BY <1>2 DEF Means, CannotShow
<1>3. CASE k = "ring"
  BY <1>3 DEF Means, CannotShow
<1>4. CASE k = "key"
  <2>1. <<isTrue(w[1]), exchangeNamed(w[2])>> = <<isTrue(x[1]), exchangeNamed(x[2])>>
    BY <1>4 DEF Means
  <2>2. isTrue(w[1]) = isTrue(x[1]) /\ exchangeNamed(w[2]) = exchangeNamed(x[2])
    BY <2>1
  <2>. QED
    BY <1>4, <2>2 DEF CannotShow
<1>5. CASE k = "stun"
  BY <1>5 DEF Means, CannotShow
<1>6. CASE k \notin {"number", "interface", "ring", "key", "stun"}
  BY <1>6, Zenon DEF CannotShow
<1>. QED
  BY <1>1, <1>2, <1>3, <1>4, <1>5, <1>6

(* What the user enters can be shown.                                      *)
LEMMA EnteredIsShown ==
  ASSUME NEW k \in LoadedKinds, NEW i \in BOOLEAN, NEW v \in Entered(k), k = "stun" => ~i
  PROVE  ~CannotShow(k, i, Written(k, v))
<1>1. CASE k = "number"
  BY <1>1 DEF Entered, CannotShow, Written, writtenNumber
<1>2. CASE k = "interface"
  <2>1. v \in {"eth0", "eth1"} /\ Written(k, v) = v
    BY <1>2 DEF Entered, Written, writtenText
  <2>2. ToSet(Interfaces) = {"eth0", "eth1"}
    BY DEF ToSet, Interfaces
  <2>. QED
    BY <1>2, <2>1, <2>2 DEF CannotShow
<1>3. CASE k = "ring"
  BY <1>3 DEF Entered, CannotShow, Written
<1>4. CASE k = "key"
  <2>1. v \in {<<FALSE, "zrtp">>, <<TRUE, "zrtp">>, <<TRUE, "sdes">>}
    BY <1>4 DEF Entered
  <2>2. Written(k, v) \in {<<"false", "">>, <<"true", "zrtp">>, <<"true", "sdes">>}
    BY <1>4, <2>1, KeyWritten, Zenon
  <2>3. PICK x : x = Written(k, v)
    OBVIOUS
  <2>4. isTrue(x[1]) <=> exchangeNamed(x[2]) # ""
    <3>1. CASE x = <<"false", "">>
      BY <3>1, Zenon DEF isTrue, exchangeNamed
    <3>2. CASE x = <<"true", "zrtp">>
      BY <3>2 DEF isTrue, exchangeNamed
    <3>3. CASE x = <<"true", "sdes">>
      BY <3>3 DEF isTrue, exchangeNamed
    <3>. QED
      BY <2>2, <2>3, <3>1, <3>2, <3>3, Zenon
  <2>. QED
    BY <1>4, <2>3, <2>4, Zenon DEF CannotShow
<1>5. CASE k = "stun"
  BY <1>5 DEF CannotShow
<1>6. CASE k \notin {"number", "interface", "ring", "key", "stun"}
  BY <1>6, Zenon DEF CannotShow
<1>. QED
  BY <1>1, <1>2, <1>3, <1>4, <1>5, <1>6

-----------------------------------------------------------------------------
(* The details that are not the credentials: while an account is neither   *)
(* modified nor changed elsewhere, its object has what the daemon has;     *)
(* what nobody has touched still means the same in the object and in the   *)
(* form; what the user entered is in the form while its account is         *)
(* selected and in the object afterwards; and but for the widgets that are *)
(* not connected, its account is modified.                                 *)

CopyAsRead(a) ==
  a \notin astray /\ current[a] # "MODIFIED" => Sent(kind, copy[a]) = remote[a]

Untouched(a) == typed[a] = {} /\ a \notin astray /\ ~CannotShow(kind, iax, remote[a])

CopyUntouched(a) == Untouched(a) => Means(kind, Sent(kind, copy[a])) = Means(kind, remote[a])

FormUntouched ==
  kind \in LoadedKinds /\ Untouched(cur)
    => Means(kind, Written(kind, form)) = Means(kind, remote[cur])

HeldAs(a, v) ==
  IF kind \in LoadedKinds
  THEN /\ v \in Entered(kind) /\ (kind = "stun" => ~iax)
       /\ Means(kind, Written(kind, v))
            = Means(kind, IF a = cur THEN Written(kind, form) ELSE copy[a])
  ELSE copy[a] = v

HoldsTyped(a) == \A v \in typed[a] : HeldAs(a, v)

Noticed == detail \in Connected \ {"ringtonePath"}

NoticesTyped(a) == typed[a] # {} /\ (a # cur \/ Noticed) => current[a] = "MODIFIED"

DetailInv ==
  kind # "credentials" =>
    /\ FormUntouched
    /\ \A a \in Ids : CopyAsRead(a) /\ CopyUntouched(a) /\ HoldsTyped(a) /\ NoticesTyped(a)

(* What the functions of the dialog and the object come down to.           *)
LEMMA DetailFacts ==
  ASSUME FormBasics, kind # "credentials"
  PROVE  /\ \A a \in Ids : SavedCopy(a) = IF current[a] = "MODIFIED" /\ kind \in LoadedKinds
                                          THEN Written(kind, form) ELSE copy[a]
         /\ \A c : Edited(c) = c
         /\ kind \in LoadedKinds => /\ ~IsCodec /\ detail \in Loaded
                                    /\ \A w : Sent(kind, w) = w /\ Received(kind, w) = w
         /\ kind \notin LoadedKinds => /\ kind \in {"row", "audio", "video"}
                                       /\ Noticed /\ Entered(kind) = {}
         /\ IsCodec <=> kind \in {"audio", "video"}
<1>1. KindFits(detail, kind) /\ HostAgrees
  BY KindKnown DEF FormBasics
<1>2. ASSUME NEW a \in Ids
      PROVE  SavedCopy(a) = IF current[a] = "MODIFIED" /\ kind \in LoadedKinds
                            THEN Written(kind, form) ELSE copy[a]
  <2>1. CASE ~Takes(a)
    <3>1. ~(current[a] = "MODIFIED" /\ kind \in LoadedKinds)
      BY <1>1, <2>1 DEF Takes, KindFits
    <3>2. SavedCopy(a) = copy[a]
      BY <2>1 DEF SavedCopy
    <3>. QED
      BY <3>1, <3>2
  <2>2. CASE Takes(a) /\ kind \notin LoadedKinds
    <3>1. kind = "row"
      BY <1>1, <2>2 DEF Takes, KindFits
    <3>. QED
      BY <2>2, <3>1 DEF SavedCopy
  <2>3. CASE Takes(a) /\ kind \in LoadedKinds /\ detail = "hostname"
    <3>1. kind = "text" /\ host[a] = copy[a]
      BY <1>1, <2>3 DEF KindFits, HostAgrees
    <3>2. SavedCopy(a) = IF host[a] # form THEN form ELSE copy[a]
      BY <2>3, <3>1 DEF SavedCopy
    <3>3. Written(kind, form) = form
      BY <3>1 DEF Written, writtenText
    <3>. QED
      BY <2>3, <3>1, <3>2, <3>3 DEF Takes
  <2>4. CASE Takes(a) /\ kind \in LoadedKinds /\ detail # "hostname"
    <3>1. kind # "row"
      BY <2>4 DEF LoadedKinds
    <3>2. SavedCopy(a) = Written(kind, form)
      BY <2>4, <3>1 DEF SavedCopy
    <3>. QED
      BY <2>4, <3>2 DEF Takes
  <2>. QED
    BY <2>1, <2>2, <2>3, <2>4
<1>3. \A c : Edited(c) = c
  BY DEF Edited
<1>4. ASSUME kind \in LoadedKinds
      PROVE  ~IsCodec /\ detail \in Loaded /\ \A w : Sent(kind, w) = w /\ Received(kind, w) = w
  <2>1. kind \notin {"audio", "video"}
    BY <1>4 DEF LoadedKinds
  <2>. QED
    BY <1>1, <1>4, <2>1 DEF KindFits, IsCodec, Sent, Received
<1>5. ASSUME kind \notin LoadedKinds
      PROVE  kind \in {"row", "audio", "video"} /\ Noticed /\ Entered(kind) = {}
  <2>1. kind \in {"row", "audio", "video"} /\ Noticed
    BY <1>1, <1>5 DEF KindFits, Noticed
  <2>. QED
    BY <2>1 DEF Entered
<1>. QED
  BY <1>2, <1>3, <1>4, <1>5 DEF IsCodec

(* What an account holds that has just been read.                          *)
LEMMA JustRead ==
  ASSUME FormBasics', kind' = kind, NEW a \in Ids, copy'[a] = Received(kind, remote'[a])
  PROVE  Sent(kind, copy'[a]) = remote'[a]
<1>1. kind = "audio" => remote'[a] \in Seq(Nat)
  BY DEF FormBasics, CodecLists
<1>. QED
  BY <1>1, SentBack

(* A form that has just been loaded.                                       *)
LEMMA ShowsUntouched ==
  ASSUME NEW k \in LoadedKinds, NEW i \in BOOLEAN, NEW w, NEW x,
         ~CannotShow(k, i, x), Means(k, w) = Means(k, x)
  PROVE  Means(k, Written(k, Shown(k, i, w))) = Means(k, x)
<1>1. ~CannotShow(k, i, w)
  BY ShownAsMeant
<1>. QED
  BY <1>1, ShownIsWritten

LEMMA DetailInit == FormInit => DetailInv
<1>. SUFFICES ASSUME FormInit, kind # "credentials"
              PROVE  DetailInv
  BY DEF DetailInv
<1>1. FormTypes /\ CodecLists
  BY FormTypesInit, CodecListsInit
<1>2. ASSUME NEW a \in Ids  PROVE Sent(kind, copy[a]) = remote[a]
  <2>1. copy[a] = Received(kind, remote[a])
    BY Zenon DEF FormInit
  <2>2. kind = "audio" => remote[a] \in Seq(Nat)
    BY <1>1 DEF CodecLists
  <2>. QED
    BY <2>1, <2>2, SentBack
<1>3. FormUntouched
  <2>. SUFFICES ASSUME kind \in LoadedKinds, ~CannotShow(kind, iax, remote[cur])
                PROVE  Means(kind, Written(kind, form)) = Means(kind, remote[cur])
    BY DEF FormUntouched, Untouched
  <2>1. form = Shown(kind, iax, remote[cur]) /\ iax \in BOOLEAN
    BY Zenon DEF FormInit
  <2>. QED
    BY <2>1, ShownIsWritten
<1>4. \A a \in Ids : typed[a] = {}
  BY Zenon DEF FormInit
<1>. QED
  BY <1>2, <1>3, <1>4 DEF DetailInv, CopyAsRead, CopyUntouched, HoldsTyped, NoticesTyped

(* Another account is selected.                                            *)
LEMMA DetailSelect ==
  ASSUME FormBasics, FormBasics', DetailInv, kind # "credentials",
         kind' = kind, iax' = iax, detail' = detail, NEW a \in Ids, Select(a)
  PROVE  DetailInv'
<1>a. PICK left \in Ids : left = cur
  BY DEF FormBasics, FormTypes
<1>0. /\ iax \in BOOLEAN /\ left = cur /\ a # left /\ cur' = a
      /\ \A b \in Ids : current[b] \in EditState
      /\ DOMAIN remote = Ids /\ DOMAIN copy = Ids /\ DOMAIN typed = Ids /\ DOMAIN current = Ids
  BY <1>a DEF FormBasics, FormTypes, Select
<1>1. /\ FormUntouched
      /\ \A b \in Ids : CopyAsRead(b) /\ CopyUntouched(b) /\ HoldsTyped(b) /\ NoticesTyped(b)
  BY DEF DetailInv
<1>2. \A b \in Ids : remote'[b] = remote[b]
  BY <1>0 DEF Select
<1>3. /\ copy'[a] = IF kind = "video" THEN remote[a] ELSE copy[a]
      /\ \A b \in Ids \ {a, left} : copy'[b] = copy[b]
  BY <1>0 DEF Select
<1>4. copy'[left] = IF GivenBack(left) THEN CopyAfter(left, "CANCEL") ELSE SavedCopy(left)
  BY <1>0 DEF Select
<1>5. /\ current'[a] = IF current[a] = "READY" THEN "EDITING" ELSE current[a]
      /\ current'[left] = IF GivenBack(left) THEN "READY" ELSE current[left]
      /\ \A b \in Ids \ {a, left} : current'[b] = current[b]
  BY <1>0, Steps DEF Select
<1>6. /\ typed'[a] = IF kind = "video" THEN {} ELSE typed[a]
      /\ typed'[left] = IF current[left] = "MODIFIED" THEN typed[left] ELSE {}
      /\ \A b \in Ids \ {a, left} : typed'[b] = typed[b]
  BY <1>0 DEF Select
<1>7. ASSUME NEW b \in Ids, b \notin astray'
      PROVE  b \notin astray \/ Sent(kind, copy'[b]) = remote'[b]
  BY <1>7, JustRead DEF Select
<1>8. CopyAsRead(left)'
  <2>. SUFFICES ASSUME left \notin astray, current'[left] # "MODIFIED"
                PROVE  Sent(kind, copy'[left]) = remote'[left]
    BY <1>0, <1>7 DEF CopyAsRead
  <2>1. current[left] # "MODIFIED"
    BY <1>5 DEF GivenBack
  <2>2. Sent(kind, copy[left]) = remote[left]
    BY <1>0, <1>1, <2>1 DEF CopyAsRead
  <2>3. SavedCopy(left) = copy[left]
    BY <1>0, <2>1, DetailFacts
  <2>4. CASE copy'[left] = copy[left]
    BY <1>0, <1>2, <2>2, <2>4
  <2>5. CASE copy'[left] # copy[left]
    <3>1. copy'[left] = remote[left] /\ ~IsCodec
      BY <1>4, <2>3, <2>5 DEF CopyAfter
    <3>. QED
      BY <1>0, <1>2, <3>1 DEF IsCodec, Sent
  <2>. QED
    BY <2>4, <2>5
<1>9. CopyUntouched(left)'
  <2>. SUFFICES ASSUME left \notin astray, typed'[left] = {}, ~CannotShow(kind, iax, remote[left]),
                       current[left] = "MODIFIED"
                PROVE  Means(kind, Sent(kind, copy'[left])) = Means(kind, remote[left])
    <3>1. current[left] # "MODIFIED" => current'[left] # "MODIFIED"
      BY <1>5
    <3>. QED
      BY <1>0, <1>2, <1>7, <1>8, <3>1 DEF CopyUntouched, Untouched, CopyAsRead
  <2>1. Untouched(left)
    BY <1>6 DEF Untouched
  <2>2. copy'[left] = IF kind \in LoadedKinds THEN Written(kind, form) ELSE copy[left]
    BY <1>0, <1>4, DetailFacts DEF GivenBack
  <2>3. CASE kind \in LoadedKinds
    BY <1>0, <1>1, <2>1, <2>2, <2>3, DetailFacts DEF FormUntouched
  <2>4. CASE kind \notin LoadedKinds
    BY <1>0, <1>1, <2>1, <2>2, <2>4 DEF CopyUntouched
  <2>. QED
    BY <2>3, <2>4
<1>10. HoldsTyped(left)' /\ NoticesTyped(left)'
  <2>1. ASSUME NEW v \in typed'[left]  PROVE HeldAs(left, v)' /\ current'[left] = "MODIFIED"
    <3>1. current[left] = "MODIFIED" /\ v \in typed[left]
      BY <1>6, <2>1
    <3>2. HeldAs(left, v) /\ ~GivenBack(left)
      BY <1>0, <1>1, <3>1 DEF HoldsTyped, GivenBack
    <3>3. copy'[left] = IF kind \in LoadedKinds THEN Written(kind, form) ELSE copy[left]
      BY <1>0, <1>4, <3>1, <3>2, DetailFacts
    <3>. QED
      BY <1>0, <1>5, <3>1, <3>2, <3>3 DEF HeldAs
  <2>. QED
    BY <2>1 DEF HoldsTyped, NoticesTyped
<1>11. CopyAsRead(a)' /\ CopyUntouched(a)'
  <2>. SUFFICES ASSUME a \notin astray
                PROVE  CopyAsRead(a)' /\ CopyUntouched(a)'
    BY <1>7 DEF CopyAsRead, CopyUntouched, Untouched
  <2>1. CASE kind = "video"
    <3>1. Sent(kind, copy'[a]) = remote'[a]
      BY <1>2, <1>3, <2>1 DEF Sent
    <3>. QED
      BY <3>1 DEF CopyAsRead, CopyUntouched
  <2>2. CASE kind # "video"
    <3>1. copy'[a] = copy[a] /\ typed'[a] = typed[a] /\ remote'[a] = remote[a]
      BY <1>2, <1>3, <1>6, <2>2
    <3>2. current'[a] # "MODIFIED" => current[a] # "MODIFIED"
      BY <1>5
    <3>. QED
      BY <1>1, <3>1, <3>2 DEF CopyAsRead, CopyUntouched, Untouched
  <2>. QED
    BY <2>1, <2>2
<1>12. kind \in LoadedKinds => form' = Shown(kind, iax, copy'[a])
  <2>1. detail = "hostname" => host'[a] = copy'[a]
    BY DEF FormBasics, HostAgrees
  <2>2. kind \in LoadedKinds => form' = Shown(kind, iax, IF detail = "hostname" THEN host'[a] ELSE copy'[a])
    BY DetailFacts DEF Select, FormOf
  <2>. QED
    BY <2>1, <2>2
<1>13. FormUntouched'
  <2>. SUFFICES ASSUME kind \in LoadedKinds, Untouched(a)'
                PROVE  Means(kind, Written(kind, form')) = Means(kind, remote'[a])
    BY <1>0 DEF FormUntouched
  <2>1. Means(kind, copy'[a]) = Means(kind, remote'[a])
    BY <1>11, DetailFacts DEF CopyUntouched
  <2>2. ~CannotShow(kind, iax, remote'[a])
    BY DEF Untouched
  <2>. QED
    BY <1>0, <1>12, <2>1, <2>2, ShowsUntouched
<1>14. HoldsTyped(a)' /\ NoticesTyped(a)'
  <2>1. ASSUME NEW v \in typed'[a]  PROVE HeldAs(a, v)' /\ current'[a] = "MODIFIED"
    <3>1. v \in typed[a] /\ copy'[a] = copy[a]
      BY <1>3, <1>6, <2>1
    <3>2. HeldAs(a, v) /\ current[a] = "MODIFIED"
      BY <1>0, <1>1, <3>1 DEF HoldsTyped, NoticesTyped
    <3>3. CASE kind \in LoadedKinds
      <4>1. /\ v \in Entered(kind) /\ (kind = "stun" => ~iax)
            /\ Means(kind, Written(kind, v)) = Means(kind, copy[a])
        BY <1>0, <3>2, <3>3 DEF HeldAs
      <4>2. ~CannotShow(kind, iax, Written(kind, v))
        BY <1>0, <3>3, <4>1, EnteredIsShown
      <4>3. Means(kind, Written(kind, form')) = Means(kind, Written(kind, v))
        BY <1>0, <1>12, <3>1, <3>3, <4>1, <4>2, ShowsUntouched
      <4>. QED
        BY <1>0, <1>5, <3>2, <3>3, <4>1, <4>3 DEF HeldAs
    <3>4. CASE kind \notin LoadedKinds
      BY <1>0, <1>5, <3>1, <3>2, <3>4 DEF HeldAs
    <3>. QED
      BY <3>3, <3>4
  <2>. QED
    BY <2>1 DEF HoldsTyped, NoticesTyped
<1>15. ASSUME NEW b \in Ids \ {a, left}
       PROVE  CopyAsRead(b)' /\ CopyUntouched(b)' /\ HoldsTyped(b)' /\ NoticesTyped(b)'
  <2>1. /\ copy'[b] = copy[b] /\ current'[b] = current[b] /\ typed'[b] = typed[b]
        /\ remote'[b] = remote[b] /\ b # cur /\ b # cur'
    BY <1>0, <1>2, <1>3, <1>5, <1>6
  <2>2. CopyAsRead(b)' /\ CopyUntouched(b)'
    BY <1>1, <1>7, <2>1 DEF CopyAsRead, CopyUntouched, Untouched
  <2>3. HoldsTyped(b)' /\ NoticesTyped(b)'
    BY <1>1, <2>1 DEF HoldsTyped, HeldAs, NoticesTyped
  <2>. QED
    BY <2>2, <2>3
<1>. QED
  BY <1>8, <1>9, <1>10, <1>11, <1>13, <1>14, <1>15 DEF DetailInv

(* An edit concerns one account.                                           *)
LEMMA OthersStay ==
  ASSUME FormBasics, DetailInv, kind # "credentials", kind' = kind, iax' = iax, detail' = detail,
         NEW e \in Ids, cur' = cur, form' = form \/ e = cur, remote' = remote, astray' = astray,
         \A b \in Ids \ {e} :
           copy'[b] = copy[b] /\ current'[b] = current[b] /\ typed'[b] = typed[b],
         CopyAsRead(e)', CopyUntouched(e)', HoldsTyped(e)', NoticesTyped(e)',
         e = cur => FormUntouched'
  PROVE  DetailInv'
<1>1. /\ FormUntouched
      /\ \A b \in Ids : CopyAsRead(b) /\ CopyUntouched(b) /\ HoldsTyped(b) /\ NoticesTyped(b)
  BY DEF DetailInv
<1>2. FormUntouched'
  <2>. SUFFICES ASSUME e # cur
                PROVE  FormUntouched'
    OBVIOUS
  <2>1. typed'[cur] = typed[cur] /\ form' = form
    BY DEF FormBasics, FormTypes
  <2>. QED
    BY <1>1, <2>1 DEF FormUntouched, Untouched
<1>3. ASSUME NEW b \in Ids \ {e}
      PROVE  CopyAsRead(b)' /\ CopyUntouched(b)' /\ HoldsTyped(b)' /\ NoticesTyped(b)'
  <2>1. /\ copy'[b] = copy[b] /\ current'[b] = current[b] /\ typed'[b] = typed[b]
        /\ b = cur => form' = form
    BY <1>3
  <2>2. CopyAsRead(b)' /\ CopyUntouched(b)'
    BY <1>1, <2>1 DEF CopyAsRead, CopyUntouched, Untouched
  <2>3. HoldsTyped(b)'
    BY <1>1, <2>1 DEF HoldsTyped, HeldAs
  <2>4. NoticesTyped(b)'
    BY <1>1, <2>1 DEF NoticesTyped, Noticed
  <2>. QED
    BY <2>2, <2>3, <2>4
<1>. QED
  BY <1>2, <1>3 DEF DetailInv

LEMMA DetailTypeOther ==
  ASSUME FormBasics, DetailInv, kind # "credentials",
         kind' = kind, iax' = iax, detail' = detail, TypeOther
  PROVE  DetailInv'
<1>0. PICK e \in Ids : e = cur
  BY DEF FormBasics, FormTypes
<1>1. /\ current[e] \in EditState /\ cur' = cur /\ form' = form
      /\ remote' = remote /\ astray' = astray /\ typed' = typed
      /\ DOMAIN copy = Ids /\ DOMAIN current = Ids
  BY DEF FormBasics, FormTypes, TypeOther, ghostVars
<1>2. /\ FormUntouched
      /\ \A b \in Ids : CopyAsRead(b) /\ CopyUntouched(b) /\ HoldsTyped(b) /\ NoticesTyped(b)
  BY DEF DetailInv
<1>3. /\ current'[e] = "MODIFIED" /\ copy'[e] = CopyAfter(e, "MODIFY")
      /\ \A b \in Ids \ {e} : copy'[b] = copy[b] /\ current'[b] = current[b]
  BY <1>0, <1>1, Steps DEF TypeOther, Perform
<1>4. copy'[e] = IF current[e] = "OUTDATED" /\ ~IsCodec THEN remote[e] ELSE copy[e]
  BY <1>1, <1>3, Steps DEF CopyAfter
<1>5. CopyAsRead(e)' /\ NoticesTyped(e)'
  BY <1>3 DEF CopyAsRead, NoticesTyped
<1>6. CopyUntouched(e)'
  <2>1. CASE copy'[e] = copy[e]
    BY <1>1, <1>2, <2>1 DEF CopyUntouched, Untouched
  <2>2. CASE copy'[e] = remote[e] /\ ~IsCodec
    BY <1>1, <2>2 DEF CopyUntouched, IsCodec, Sent
  <2>. QED
    BY <1>4, <2>1, <2>2
<1>7. FormUntouched'
  BY <1>1, <1>2 DEF FormUntouched, Untouched
<1>8. HoldsTyped(e)'
  <2>. SUFFICES ASSUME NEW v \in typed[e]
                PROVE  HeldAs(e, v)'
    BY <1>1 DEF HoldsTyped
  <2>1. HeldAs(e, v)
    BY <1>2 DEF HoldsTyped
  <2>2. CASE kind \in LoadedKinds
    BY <1>0, <1>1, <2>1, <2>2 DEF HeldAs
  <2>3. CASE kind \notin LoadedKinds
    <3>1. current[e] = "MODIFIED"
      BY <1>0, <1>2, <2>3, DetailFacts DEF NoticesTyped
    <3>2. copy'[e] = copy[e]
      BY <1>4, <3>1
    <3>. QED
      BY <2>1, <2>3, <3>2 DEF HeldAs
  <2>. QED
    BY <2>2, <2>3
<1>. QED
  BY <1>0, <1>1, <1>3, <1>5, <1>6, <1>7, <1>8, OthersStay

(* What has just been entered.                                             *)
LEMMA DetailEntered ==
  ASSUME FormBasics, DetailInv, kind # "credentials",
         kind' = kind, iax' = iax, detail' = detail, NEW e \in Ids, NEW v,
         cur' = cur, form' = form \/ e = cur, remote' = remote, astray' = astray,
         \A b \in Ids \ {e} :
           copy'[b] = copy[b] /\ current'[b] = current[b] /\ typed'[b] = typed[b],
         typed'[e] = {v}, HeldAs(e, v)', (Noticed \/ e # cur) => current'[e] = "MODIFIED",
         current'[e] = "MODIFIED" \/ (current'[e] = current[e] /\ copy'[e] = copy[e])
  PROVE  DetailInv'
<1>1. CopyUntouched(e)' /\ (e = cur => FormUntouched')
  BY DEF CopyUntouched, FormUntouched, Untouched
<1>2. CopyAsRead(e)'
  BY DEF DetailInv, CopyAsRead
<1>3. HoldsTyped(e)'
  BY DEF HoldsTyped
<1>4. NoticesTyped(e)'
  BY DEF NoticesTyped, Noticed
<1>. QED
  BY <1>1, <1>2, <1>3, <1>4, OthersStay

LEMMA DetailType ==
  ASSUME FormBasics, DetailInv, kind # "credentials",
         kind' = kind, iax' = iax, detail' = detail, NEW v \in Entered(kind), Type(v)
  PROVE  DetailInv'
<1>0. PICK e \in Ids : e = cur
  BY DEF FormBasics, FormTypes
<1>1. /\ current[e] \in EditState /\ cur' = cur /\ form' = v
      /\ remote' = remote /\ astray' = astray /\ typed' = [typed EXCEPT ![e] = {v}]
      /\ DOMAIN copy = Ids /\ DOMAIN current = Ids /\ DOMAIN typed = Ids
  BY <1>0 DEF FormBasics, FormTypes, Type
<1>2. kind \in LoadedKinds /\ (kind = "stun" => ~iax)
  BY DetailFacts DEF Type
<1>3. HeldAs(e, v)'
  BY <1>0, <1>1, <1>2 DEF HeldAs
<1>4. /\ \A b \in Ids \ {e} : copy'[b] = copy[b] /\ current'[b] = current[b]
      /\ Noticed => current'[e] = "MODIFIED"
      /\ current'[e] = "MODIFIED" \/ (current'[e] = current[e] /\ copy'[e] = copy[e])
  <2>1. CASE Watched(detail, form, v)
    BY <1>0, <1>1, <2>1, Steps DEF Type
  <2>2. CASE ~Watched(detail, form, v)
    BY <2>2 DEF Type, objectVars, Watched, Noticed
  <2>. QED
    BY <2>1, <2>2
<1>5. typed'[e] = {v} /\ \A b \in Ids \ {e} : typed'[b] = typed[b]
  BY <1>1
<1>. QED
  BY <1>0, <1>1, <1>3, <1>4, <1>5, DetailEntered

LEMMA DetailCheck ==
  ASSUME FormBasics, DetailInv, kind # "credentials",
         kind' = kind, iax' = iax, detail' = detail, NEW e \in Ids, Check(e)
  PROVE  DetailInv'
<1>0. PICK v : v = writtenFlag(~isTrue(copy[e]))
  OBVIOUS
<1>1. /\ current[e] \in EditState /\ cur' = cur /\ form' = form
      /\ remote' = remote /\ astray' = astray /\ detail = "enabled"
      /\ DOMAIN copy = Ids /\ DOMAIN current = Ids /\ DOMAIN typed = Ids
  BY DEF FormBasics, FormTypes, Check
<1>2. /\ copy' = [copy EXCEPT ![e] = v] /\ typed' = [typed EXCEPT ![e] = {v}]
      /\ current' = [current EXCEPT ![e] = "MODIFIED"]
  BY <1>0, <1>1, Steps DEF Check
<1>3. kind \notin LoadedKinds
  BY <1>1, KindKnown DEF FormBasics, KindFits
<1>4. HeldAs(e, v)'
  BY <1>1, <1>2, <1>3 DEF HeldAs
<1>5. /\ typed'[e] = {v} /\ current'[e] = "MODIFIED"
      /\ \A b \in Ids \ {e} :
           copy'[b] = copy[b] /\ current'[b] = current[b] /\ typed'[b] = typed[b]
  BY <1>1, <1>2
<1>. QED
  BY <1>1, <1>4, <1>5, DetailEntered

LEMMA DetailEditCodecs ==
  ASSUME FormBasics, DetailInv, kind # "credentials",
         kind' = kind, iax' = iax, detail' = detail, NEW c, EditCodecs(c)
  PROVE  DetailInv'
<1>0. PICK e \in Ids : e = cur
  BY DEF FormBasics, FormTypes
<1>1. /\ current[e] \in EditState /\ cur' = cur /\ form' = form
      /\ remote' = remote /\ astray' = astray /\ IsCodec
      /\ DOMAIN copy = Ids /\ DOMAIN current = Ids /\ DOMAIN typed = Ids
  BY DEF FormBasics, FormTypes, EditCodecs
<1>2. /\ copy' = [copy EXCEPT ![e] = c] /\ typed' = [typed EXCEPT ![e] = {c}]
      /\ current' = [current EXCEPT ![e] = "MODIFIED"]
  BY <1>0, <1>1, Steps DEF EditCodecs
<1>3. kind \notin LoadedKinds
  BY <1>1, DetailFacts
<1>4. HeldAs(e, c)'
  <2>1. copy'[e] = c
    BY <1>1, <1>2
  <2>. QED
    BY <1>3, <2>1 DEF HeldAs
<1>5. /\ typed'[e] = {c} /\ current'[e] = "MODIFIED"
      /\ \A b \in Ids \ {e} :
           copy'[b] = copy[b] /\ current'[b] = current[b] /\ typed'[b] = typed[b]
  BY <1>1, <1>2
<1>. QED
  BY <1>0, <1>1, <1>4, <1>5, DetailEntered

(* Apply.  The account that is selected takes what the form shows.         *)
LEMMA DetailApplied ==
  ASSUME FormBasics, kind # "credentials", Apply
  PROVE  /\ cur' = cur /\ form' = form
         /\ \A b \in Ids :
              /\ copy'[b] = IF b # cur THEN copy[b]
                            ELSE IF current[b] = "MODIFIED"
                                 THEN IF kind \in LoadedKinds THEN Written(kind, form) ELSE copy[b]
                                 ELSE CopyAfter(b, "CANCEL")
              /\ current'[b] # "MODIFIED"
              /\ remote'[b] = IF current[b] = "MODIFIED" THEN Sent(kind, copy'[b]) ELSE remote[b]
              /\ typed'[b] = IF current[b] = "MODIFIED" THEN {} ELSE typed[b]
              /\ b \notin astray' => \/ b \notin astray
                                     \/ b # cur /\ copy'[b] = Received(kind, remote'[b])
<1>1. cur' = cur /\ form' = form
  BY DEF Apply
<1>2. ASSUME NEW b \in Ids
      PROVE  copy'[b] = IF b # cur THEN copy[b]
                        ELSE IF current[b] = "MODIFIED"
                             THEN IF kind \in LoadedKinds THEN Written(kind, form) ELSE copy[b]
                             ELSE CopyAfter(b, "CANCEL")
  BY DetailFacts DEF Apply
<1>3. ASSUME NEW b \in Ids
      PROVE  /\ remote'[b] = IF current[b] = "MODIFIED" THEN Sent(kind, copy'[b]) ELSE remote[b]
             /\ typed'[b] = IF current[b] = "MODIFIED" THEN {} ELSE typed[b]
             /\ current'[b] # "MODIFIED"
  BY DEF Apply
<1>4. ASSUME NEW b \in Ids, b \notin astray'
      PROVE  b \notin astray \/ (b # cur /\ copy'[b] = Received(kind, remote'[b]))
  BY <1>4 DEF Apply
<1>. QED
  BY <1>1, <1>2, <1>3, <1>4

LEMMA DetailApply ==
  ASSUME FormBasics, FormBasics', DetailInv, kind # "credentials",
         kind' = kind, iax' = iax, detail' = detail, Apply
  PROVE  DetailInv'
<1>0. PICK s \in Ids : s = cur /\ s = cur'
  BY DEF FormBasics, FormTypes, Apply
<1>1. /\ FormUntouched
      /\ \A b \in Ids : /\ CopyAsRead(b) /\ CopyUntouched(b) /\ HoldsTyped(b) /\ NoticesTyped(b)
                        /\ current[b] \in EditState
  BY DEF DetailInv, FormBasics, FormTypes
<1>2. ASSUME NEW b \in Ids  PROVE CopyAsRead(b)'
  <2>. SUFFICES ASSUME b \notin astray'
                PROVE  Sent(kind, copy'[b]) = remote'[b]
    BY DEF CopyAsRead
  <2>1. CASE current[b] = "MODIFIED"
    BY <2>1, DetailApplied
  <2>2. CASE current[b] # "MODIFIED" /\ b \in astray
    BY <2>2, DetailApplied, JustRead
  <2>3. CASE current[b] # "MODIFIED" /\ b \notin astray
    <3>1. remote'[b] = remote[b] /\ Sent(kind, copy[b]) = remote[b]
      BY <1>1, <2>3, DetailApplied DEF CopyAsRead
    <3>2. copy'[b] = copy[b] \/ copy'[b] = CopyAfter(b, "CANCEL")
      BY <2>3, DetailApplied
    <3>3. CASE copy'[b] = copy[b]
      BY <3>1, <3>3
    <3>4. CASE copy'[b] # copy[b]
      <4>1. copy'[b] = remote[b] /\ ~IsCodec
        BY <3>2, <3>4 DEF CopyAfter
      <4>. QED
        BY <3>1, <4>1 DEF IsCodec, Sent
    <3>. QED
      BY <3>3, <3>4
  <2>. QED
    BY <2>1, <2>2, <2>3
<1>3. ASSUME NEW b \in Ids  PROVE CopyUntouched(b)'
  BY <1>2, DetailApplied DEF CopyAsRead, CopyUntouched, Untouched
<1>4. ASSUME NEW b \in Ids, typed'[b] # {}  PROVE b = cur /\ ~Noticed /\ current[b] # "MODIFIED"
  BY <1>1, <1>4, DetailApplied DEF NoticesTyped
<1>5. ASSUME NEW b \in Ids  PROVE HoldsTyped(b)' /\ NoticesTyped(b)'
  <2>1. ASSUME NEW v \in typed'[b]  PROVE HeldAs(b, v)'
    <3>1. b = cur /\ ~Noticed /\ v \in typed[b]
      BY <1>4, <2>1, DetailApplied
    <3>2. HeldAs(b, v) /\ kind \in LoadedKinds
      BY <1>1, <3>1, DetailFacts DEF HoldsTyped
    <3>. QED
      BY <3>1, <3>2, DetailApplied DEF HeldAs
  <2>2. NoticesTyped(b)'
    BY <1>4, DetailApplied DEF NoticesTyped, Noticed
  <2>. QED
    BY <2>1, <2>2 DEF HoldsTyped
<1>6. FormUntouched'
  <2>. SUFFICES ASSUME kind \in LoadedKinds, Untouched(s)'
                PROVE  Means(kind, Written(kind, form')) = Means(kind, remote'[s])
    BY <1>0 DEF FormUntouched
  <2>1. s \notin astray
    BY <1>0, DetailApplied DEF Untouched
  <2>2. CASE current[s] = "MODIFIED"
    BY <1>0, <2>2, DetailApplied, DetailFacts
  <2>3. CASE current[s] # "MODIFIED"
    <3>1. remote'[s] = remote[s] /\ typed'[s] = typed[s] /\ form' = form
      BY <2>3, DetailApplied
    <3>2. Untouched(s)
      BY <2>1, <3>1 DEF Untouched
    <3>. QED
      BY <1>0, <1>1, <3>1, <3>2 DEF FormUntouched
  <2>. QED
    BY <2>2, <2>3
<1>. QED
  BY <1>2, <1>3, <1>5, <1>6 DEF DetailInv

(* The accounts are reloaded, but for those that are edited.               *)
LEMMA DetailUpdate ==
  ASSUME FormBasics, FormBasics', DetailInv, kind # "credentials",
         kind' = kind, iax' = iax, detail' = detail, updateAccounts
  PROVE  DetailInv'
<1>0. PICK s \in Ids : s = cur /\ s = cur'
  BY DEF FormBasics, FormTypes, updateAccounts
<1>1. /\ FormUntouched
      /\ \A b \in Ids : CopyAsRead(b) /\ CopyUntouched(b) /\ HoldsTyped(b) /\ NoticesTyped(b)
  BY DEF DetailInv
<1>2. ASSUME NEW b \in Ids
      PROVE  /\ copy'[b] = IF current[b] = "READY" /\ ~IsCodec THEN remote[b] ELSE copy[b]
             /\ current'[b] = "MODIFIED" <=> current[b] = "MODIFIED"
             /\ typed'[b] = IF b # cur /\ current[b] = "READY" /\ ~IsCodec THEN {} ELSE typed[b]
  <2>1. current[b] \in EditState
    BY DEF FormBasics, FormTypes
  <2>2. /\ StateAfter(b, "RELOAD") = IF current[b] = "EDITING" THEN "OUTDATED" ELSE current[b]
        /\ Reloads(b, "RELOAD") <=> current[b] = "READY"
    BY <2>1, Steps
  <2>. QED
    BY <2>2 DEF updateAccounts, CopyAfter
<1>3. remote' = remote /\ form' = form
  BY DEF updateAccounts
<1>4. ASSUME NEW b \in Ids, b \notin astray'
      PROVE  b \notin astray \/ (b # cur /\ Sent(kind, copy'[b]) = remote'[b])
  <2>1. b \notin astray \/ (b # cur /\ copy'[b] = Received(kind, remote'[b]))
    BY <1>3, <1>4 DEF updateAccounts
  <2>. QED
    BY <2>1, JustRead
<1>5. ASSUME NEW b \in Ids  PROVE CopyAsRead(b)' /\ CopyUntouched(b)'
  <2>. SUFFICES ASSUME b \notin astray
                PROVE  CopyAsRead(b)' /\ CopyUntouched(b)'
    BY <1>4 DEF CopyAsRead, CopyUntouched, Untouched
  <2>1. CASE current[b] = "READY" /\ ~IsCodec
    <3>1. Sent(kind, copy'[b]) = remote'[b]
      BY <1>2, <1>3, <2>1 DEF IsCodec, Sent
    <3>. QED
      BY <3>1 DEF CopyAsRead, CopyUntouched
  <2>2. CASE ~(current[b] = "READY" /\ ~IsCodec)
    <3>1. copy'[b] = copy[b] /\ typed'[b] = typed[b]
      BY <1>2, <2>2
    <3>. QED
      BY <1>1, <1>2, <1>3, <3>1 DEF CopyAsRead, CopyUntouched, Untouched
  <2>. QED
    BY <2>1, <2>2
<1>6. ASSUME NEW b \in Ids  PROVE HoldsTyped(b)' /\ NoticesTyped(b)'
  <2>1. typed'[b] # {} => typed'[b] = typed[b]
    BY <1>2
  <2>2. NoticesTyped(b)'
    BY <1>0, <1>1, <1>2, <2>1 DEF NoticesTyped, Noticed
  <2>3. ASSUME NEW v \in typed'[b]  PROVE HeldAs(b, v)'
    <3>1. HeldAs(b, v)
      BY <1>1, <2>1, <2>3 DEF HoldsTyped
    <3>2. (b = cur /\ kind \in LoadedKinds) \/ copy'[b] = copy[b]
      <4>1. CASE b # cur \/ Noticed
        BY <1>1, <1>2, <2>1, <2>3, <4>1 DEF NoticesTyped
      <4>2. CASE ~(b # cur \/ Noticed)
        BY <4>2, DetailFacts
      <4>. QED
        BY <4>1, <4>2
    <3>. QED
      BY <1>0, <1>3, <3>1, <3>2 DEF HeldAs
  <2>. QED
    BY <2>2, <2>3 DEF HoldsTyped
<1>7. FormUntouched'
  <2>1. s \notin astray' => s \notin astray
    BY <1>0, <1>4
  <2>2. typed'[s] = typed[s]
    BY <1>0, <1>2
  <2>. QED
    BY <1>0, <1>1, <1>3, <2>1, <2>2 DEF FormUntouched, Untouched
<1>. QED
  BY <1>5, <1>6, <1>7 DEF DetailInv

(* Another client edits an account.                                        *)
LEMMA DetailForeign ==
  ASSUME FormBasics, DetailInv, kind # "credentials",
         kind' = kind, iax' = iax, detail' = detail,
         NEW a \in Ids, NEW w, ForeignEdit(a, w)
  PROVE  DetailInv'
<1>1. /\ copy' = copy /\ current' = current /\ typed' = typed /\ cur' = cur /\ form' = form
      /\ astray' = astray \cup {a} /\ \A b \in Ids \ {a} : remote'[b] = remote[b]
      /\ cur \in Ids
  BY DEF ForeignEdit, Foreign, objectVars, FormBasics, FormTypes
<1>2. /\ FormUntouched
      /\ \A b \in Ids : CopyAsRead(b) /\ CopyUntouched(b) /\ HoldsTyped(b) /\ NoticesTyped(b)
  BY DEF DetailInv
<1>3. ASSUME NEW b \in Ids  PROVE CopyAsRead(b)' /\ CopyUntouched(b)'
  <2>1. CASE b = a
    BY <1>1, <2>1 DEF CopyAsRead, CopyUntouched, Untouched
  <2>2. CASE b # a
    <3>1. remote'[b] = remote[b] /\ (b \notin astray' => b \notin astray)
      BY <1>1, <2>2
    <3>. QED
      BY <1>1, <1>2, <3>1 DEF CopyAsRead, CopyUntouched, Untouched
  <2>. QED
    BY <2>1, <2>2
<1>4. FormUntouched'
  <2>1. CASE cur = a
    BY <1>1, <2>1 DEF FormUntouched, Untouched
  <2>2. CASE cur # a
    <3>1. remote'[cur] = remote[cur] /\ (cur \notin astray' => cur \notin astray)
      BY <1>1, <2>2
    <3>. QED
      BY <1>1, <1>2, <3>1 DEF FormUntouched, Untouched
  <2>. QED
    BY <2>1, <2>2
<1>5. ASSUME NEW b \in Ids  PROVE HoldsTyped(b)' /\ NoticesTyped(b)'
  BY <1>1, <1>2 DEF HoldsTyped, HeldAs, NoticesTyped, Noticed
<1>. QED
  BY <1>3, <1>4, <1>5 DEF DetailInv

LEMMA DetailIdle ==
  ASSUME DetailInv, kind # "credentials", kind' = kind, iax' = iax, detail' = detail,
         UNCHANGED <<remote, copy, current, cur, form, typed, astray>>
  PROVE  DetailInv'
  BY DEF DetailInv, FormUntouched, CopyAsRead, CopyUntouched, Untouched, HoldsTyped, HeldAs,
         NoticesTyped, Noticed

LEMMA DetailKept ==
  ASSUME FormBasics, FormBasics', DetailInv, kind # "credentials", [FormNext]_formVars
  PROVE  DetailInv'
<1>0. detail' = detail /\ iax' = iax /\ kind' = kind
  BY DetailStays DEF kind
<1>1. CASE TypeOther
  BY <1>0, <1>1, DetailTypeOther
<1>2. ASSUME AddCredential \/ RemoveCredential \/ \E row : SelectCredential(row)
      PROVE  DetailInv'
  BY <1>2, Zenon DEF AddCredential, RemoveCredential, SelectCredential, CredentialStep
<1>3. CASE Apply
  BY <1>0, <1>3, DetailApply
<1>4. CASE updateAccounts
  BY <1>0, <1>4, DetailUpdate
<1>5. CASE ForeignOther \/ UNCHANGED formVars
  BY <1>0, <1>5, DetailIdle DEF ForeignOther, Foreign, formVars, objectVars, ghostVars
<1>6. ASSUME NEW a \in Ids, Select(a)  PROVE DetailInv'
  BY <1>0, <1>6, DetailSelect
<1>7. ASSUME NEW a \in Ids, Check(a)  PROVE DetailInv'
  BY <1>0, <1>7, DetailCheck
<1>8. ASSUME NEW v \in Entered(kind), Type(v)  PROVE DetailInv'
  BY <1>0, <1>8, DetailType
<1>9. ASSUME NEW v, TypePassword(v) \/ TypeCredential(v)  PROVE DetailInv'
  BY <1>9 DEF TypePassword, TypeCredential
<1>10. ASSUME NEW c, EditCodecs(c)  PROVE DetailInv'
  BY <1>0, <1>10, DetailEditCodecs
<1>11. ASSUME NEW a \in Ids, NEW w, ForeignEdit(a, w)  PROVE DetailInv'
  BY <1>0, <1>11, DetailForeign
<1>. QED
  BY <1>1, <1>2, <1>3, <1>4, <1>5, <1>6, <1>7, <1>8, <1>9, <1>10, <1>11 DEF FormNext

(* What an Apply sends, of what was touched and of what was not.           *)
LEMMA DetailSent ==
  ASSUME FormBasics, DetailInv, kind # "credentials", Apply, NEW a \in Ids
  PROVE  /\ Untouched(a) => Means(kind, remote'[a]) = Means(kind, remote[a])
         /\ \A v \in typed[a] : Expected(a) =>
              Means(kind, remote'[a]) = Means(kind, Sent(kind, Meant(v)))
<1>1. /\ FormUntouched /\ CopyUntouched(a) /\ HoldsTyped(a) /\ NoticesTyped(a)
  BY DEF DetailInv
<1>2. CASE current[a] # "MODIFIED"
  <2>1. remote'[a] = remote[a]
    BY <1>2, DetailApplied
  <2>2. typed[a] # {} => ~Expected(a)
    BY <1>1, <1>2 DEF Expected, NoticesTyped, Noticed
  <2>. QED
    BY <2>1, <2>2
<1>3. CASE current[a] = "MODIFIED" /\ kind \in LoadedKinds
  <2>1. /\ remote'[a] = copy'[a] /\ Sent(kind, copy[a]) = copy[a]
        /\ copy'[a] = IF a = cur THEN Written(kind, form) ELSE copy[a]
    BY <1>3, DetailApplied, DetailFacts
  <2>2. Untouched(a) => Means(kind, remote'[a]) = Means(kind, remote[a])
    BY <1>1, <1>3, <2>1 DEF FormUntouched, CopyUntouched
  <2>3. ASSUME NEW v \in typed[a]
        PROVE  Means(kind, remote'[a]) = Means(kind, Sent(kind, Meant(v)))
    <3>1. Meant(v) = Written(kind, v)
      BY <1>3, DetailFacts DEF Meant, LoadedKinds
    <3>2. Means(kind, remote'[a]) = Means(kind, Written(kind, v))
      BY <1>1, <1>3, <2>1, <2>3 DEF HoldsTyped, HeldAs
    <3>. QED
      BY <1>3, <3>1, <3>2, DetailFacts
  <2>. QED
    BY <2>2, <2>3
<1>4. CASE current[a] = "MODIFIED" /\ kind \notin LoadedKinds
  <2>1. remote'[a] = Sent(kind, copy[a])
    BY <1>4, DetailApplied
  <2>2. Untouched(a) => Means(kind, remote'[a]) = Means(kind, remote[a])
    BY <1>1, <2>1 DEF CopyUntouched
  <2>3. ASSUME NEW v \in typed[a]
        PROVE  remote'[a] = Sent(kind, Meant(v))
    <3>1. Meant(v) = v
      BY <1>4, DetailFacts DEF Meant, IsCodec
    <3>. QED
      BY <1>1, <1>4, <2>1, <2>3, <3>1 DEF HoldsTyped, HeldAs
  <2>. QED
    BY <2>2, <2>3
<1>. QED
  BY <1>2, <1>3, <1>4

-----------------------------------------------------------------------------
(* The credentials.  What matters of them is the password of the account,  *)
(* which is that of the first.  It is in two fields: in the one of the     *)
(* account, which is written to the first credential when the account is   *)
(* saved, and in the one of the first credential while that is selected.   *)

LEMMA EmptySeq ==
  ASSUME NEW S, NEW c \in Seq(S)
  PROVE  /\ Len(c) \in Nat /\ DOMAIN c = 1..Len(c) /\ (c = <<>> <=> Len(c) = 0)
         /\ c # <<>> => 1 \in 1..Len(c) /\ c[1] \in S
  OBVIOUS

LEMMA PutPassword ==
  ASSUME NEW S, NEW c \in Seq(S), NEW row \in Nat, NEW p \in S
  PROVE  /\ Put(c, row, p) \in Seq(S) /\ Len(Put(c, row, p)) = Len(c)
         /\ passwordOf(Put(c, row, p)) = IF row = 1 /\ c # <<>> THEN p ELSE passwordOf(c)
<1>1. Len(c) \in Nat /\ DOMAIN c = 1..Len(c) /\ (c = <<>> <=> Len(c) = 0)
  BY EmptySeq
<1>2. CASE row \notin DOMAIN c
  <2>1. Put(c, row, p) = c
    BY <1>2 DEF Put
  <2>2. row = 1 => c = <<>>
    BY <1>1, <1>2
  <2>. QED
    BY <2>1, <2>2
<1>3. CASE row \in DOMAIN c
  <2>. DEFINE d == [c EXCEPT ![row] = p]
  <2>1. /\ d \in Seq(S) /\ Len(d) = Len(c)
        /\ \A i \in 1..Len(c) : d[i] = IF i = row THEN p ELSE c[i]
    <3>. HIDE DEF d
    <3>1. PICK n \in Nat : n = Len(c)
      BY <1>1, Zenon
    <3>. QED
      BY <3>1, ChangedAt DEF d
  <2>2. Put(c, row, p) = d
    BY <1>3 DEF Put
  <2>. HIDE DEF d
  <2>3. c # <<>> /\ d # <<>> /\ 1 \in 1..Len(c)
    <3>1. Len(c) # 0 /\ 1 \in 1..Len(c)
      BY <1>1, <1>3
    <3>2. d = <<>> <=> Len(d) = 0
      BY <2>1, EmptySeq
    <3>. QED
      BY <1>1, <2>1, <3>1, <3>2
  <2>4. d[1] = IF row = 1 THEN p ELSE c[1]
    BY <2>1, <2>3
  <2>. QED
    BY <2>1, <2>2, <2>3, <2>4 DEF passwordOf
<1>. QED
  BY <1>2, <1>3

LEMMA PutFirstPassword ==
  ASSUME NEW S, NEW c \in Seq(S), NEW p \in S
  PROVE  /\ PutFirst(c, p) \in Seq(S) /\ PutFirst(c, p) # <<>>
         /\ passwordOf(PutFirst(c, p)) = p
<1>1. CASE c = <<>>
  <2>1. PutFirst(c, p) = <<p>>
    BY <1>1 DEF PutFirst
  <2>. QED
    BY <2>1 DEF passwordOf
<1>2. CASE c # <<>>
  <2>1. PutFirst(c, p) = Put(c, 1, p)
    BY <1>2 DEF PutFirst
  <2>2. Len(c) # 0
    BY <1>2, EmptySeq
  <2>3. PICK d : d = Put(c, 1, p)
    OBVIOUS
  <2>4. d \in Seq(S) /\ Len(d) = Len(c) /\ passwordOf(d) = p
    BY <1>2, <2>3, PutPassword
  <2>5. d # <<>>
    BY <2>2, <2>4, EmptySeq
  <2>. QED
    BY <2>1, <2>3, <2>4, <2>5
<1>. QED
  BY <1>1, <1>2

LEMMA AppendPassword ==
  ASSUME NEW S, NEW c \in Seq(S), NEW e \in S
  PROVE  /\ Append(c, e) \in Seq(S) /\ Append(c, e) # <<>> /\ Len(Append(c, e)) = Len(c) + 1
         /\ e = "" => passwordOf(Append(c, e)) = passwordOf(c)
<1>1. Len(c) \in Nat /\ (c = <<>> <=> Len(c) = 0) /\ (c # <<>> => 1 \in 1..Len(c))
  BY EmptySeq
<1>3. PICK d : d = Append(c, e)
  OBVIOUS
<1>4. PICK n \in Nat : n = Len(c)
  BY <1>1
<1>5. /\ d \in Seq(S) /\ Len(d) = n + 1 /\ d[n + 1] = e
      /\ \A i \in 1..n : d[i] = c[i]
  BY <1>3, <1>4, AppendedTo
<1>6. d # <<>>
  <2>1. Len(d) # 0
    BY <1>5
  <2>. QED
    BY <1>5, <2>1, EmptySeq
<1>7. d[1] = IF c = <<>> THEN e ELSE c[1]
  <2>1. CASE c = <<>>
    <3>1. n + 1 = 1
      BY <1>1, <1>4, <2>1
    <3>. QED
      BY <1>5, <2>1, <3>1
  <2>2. CASE c # <<>>
    BY <1>1, <1>4, <1>5, <2>2
  <2>. QED
    BY <2>1, <2>2
<1>8. e = "" => passwordOf(d) = passwordOf(c)
  BY <1>6, <1>7, Zenon DEF passwordOf
<1>. QED
  BY <1>3, <1>4, <1>5, <1>6, <1>8, Zenon

Texts == {"", "a", "b"}

LEMMA EmptyText == "" \in Texts
  BY DEF Texts

LEMMA TextPut ==
  ASSUME NEW c \in Seq(Texts), NEW r \in Nat, NEW e \in Texts
  PROVE  /\ Put(c, r, e) \in Seq(Texts) /\ Len(Put(c, r, e)) = Len(c)
         /\ passwordOf(Put(c, r, e)) = IF r = 1 /\ c # <<>> THEN e ELSE passwordOf(c)
<1>1. PICK S : S = Texts
  OBVIOUS
<1>2. c \in Seq(S) /\ e \in S
  BY <1>1
<1>3. /\ Put(c, r, e) \in Seq(S) /\ Len(Put(c, r, e)) = Len(c)
      /\ passwordOf(Put(c, r, e)) = IF r = 1 /\ c # <<>> THEN e ELSE passwordOf(c)
  BY <1>2, PutPassword
<1>4. passwordOf(Put(c, r, e)) = IF r = 1 /\ c # <<>> THEN e ELSE passwordOf(c)
  BY <1>3
<1>5. Put(c, r, e) \in Seq(Texts) /\ Len(Put(c, r, e)) = Len(c)
  BY <1>1, <1>3
<1>. QED
  BY <1>4, <1>5

LEMMA PasswordIsText == ASSUME NEW c \in Seq(Texts) PROVE passwordOf(c) \in Texts
<1>1. c # <<>> => c[1] \in Texts
  BY EmptySeq
<1>. QED
  BY <1>1, EmptyText, Zenon DEF passwordOf

CredentialTypes ==
  /\ \A a \in Ids : remote[a] \in Seq(Texts) /\ copy[a] \in Seq(Texts)
  /\ form \in [main : Texts, row : Nat, editor : Texts]

(* While the account is not modified, its credentials and their fields     *)
(* hold the password the daemon has or the one that was entered.           *)
KnownPassword(v) == v = passwordOf(remote[cur]) \/ typed[cur] = {v}

PasswordUntouched(a) ==
  typed[a] = {} /\ a \notin astray => passwordOf(copy[a]) = passwordOf(remote[a])

HoldsPassword(a) == a # cur => \A v \in typed[a] : passwordOf(copy[a]) = v

FieldsUntouched ==
  typed[cur] = {} /\ cur \notin astray =>
    /\ form.main = passwordOf(remote[cur])
    /\ form.row = 1 => form.editor = passwordOf(remote[cur])

FieldsKnown ==
  cur \notin astray /\ current[cur] # "MODIFIED" =>
    /\ KnownPassword(passwordOf(copy[cur]))
    /\ form.row = 1 => KnownPassword(form.editor)

CredentialInv ==
  kind = "credentials" =>
    /\ CredentialTypes
    /\ \A v \in typed[cur] : form.main = v
    /\ FieldsUntouched /\ FieldsKnown
    /\ \A a \in Ids : PasswordUntouched(a) /\ HoldsPassword(a)
    /\ \A a \in Ids : \A v, w \in typed[a] : v = w

LEMMA CredentialFacts ==
  ASSUME FormBasics, kind = "credentials"
  PROVE  /\ \A a : SavedCopy(a) = IF current[a] = "MODIFIED" THEN PutFirst(copy[a], form.main)
                                  ELSE copy[a]
         /\ \A c : Edited(c) = Put(c, form.row, form.editor)
         /\ \A a, act : CopyAfter(a, act) = IF Reloads(a, act) THEN remote[a] ELSE copy[a]
         /\ \A c, h : FormOf(c, h) = [main |-> passwordOf(c), row |-> 0, editor |-> ""]
         /\ \A w : Sent(kind, w) = w /\ Received(kind, w) = w
         /\ ~IsCodec /\ detail # "enabled" /\ Entered(kind) \in SUBSET Texts
<1>1. detail \in Saved /\ detail \in Loaded /\ detail \notin {"hostname", "enabled"}
  BY KindKnown DEF FormBasics, KindFits, LoadedKinds
<1>2. \A a : SavedCopy(a) = IF current[a] = "MODIFIED" THEN PutFirst(copy[a], form.main)
                            ELSE copy[a]
  BY <1>1 DEF SavedCopy, Takes
<1>3. \A c, h : FormOf(c, h) = [main |-> passwordOf(c), row |-> 0, editor |-> ""]
  BY <1>1, Zenon DEF FormOf, Shown
<1>4. ~IsCodec
  BY DEF IsCodec
<1>5. Entered(kind) \in SUBSET Texts
  BY DEF Entered, Texts
<1>6. \A w : Sent(kind, w) = w /\ Received(kind, w) = w
  BY DEF Sent, Received
<1>7. \A c : Edited(c) = Put(c, form.row, form.editor)
  BY DEF Edited
<1>8. \A a, act : CopyAfter(a, act) = IF Reloads(a, act) THEN remote[a] ELSE copy[a]
  BY <1>4 DEF CopyAfter
<1>. QED
  BY <1>1, <1>2, <1>3, <1>4, <1>5, <1>6, <1>7, <1>8, Zenon

LEMMA RawCredentials == Raw["credentials"] \subseteq Seq(Texts)
<1>1. Raw["credentials"] = {<<>>, <<"a", "a">>}
  BY DEF Raw
<1>2. "a" \in Texts
  BY DEF Texts
<1>. QED
  BY <1>1, <1>2

LEMMA CredentialInit == FormInit => CredentialInv
<1>. SUFFICES ASSUME FormInit, kind = "credentials"
              PROVE  CredentialInv
  BY DEF CredentialInv
<1>1. remote \in [Ids -> Seq(Texts)] /\ copy = remote
  BY RawCredentials, Zenon DEF FormInit, Received
<1>2. form = [main |-> passwordOf(remote[cur]), row |-> 0, editor |-> ""] /\ cur \in Ids
  BY FormAssumption, Zenon DEF FormInit, Shown
<1>3. passwordOf(remote[cur]) \in Texts
  BY <1>1, <1>2, PasswordIsText, Zenon
<1>4. CredentialTypes
  <2>1. form \in [main : Texts, row : Nat, editor : Texts]
    BY <1>2, <1>3, EmptyText, Zenon
  <2>. QED
    BY <1>1, <2>1 DEF CredentialTypes
<1>4a. form.main = passwordOf(remote[cur]) /\ form.row = 0
  BY <1>2, Zenon
<1>5. \A a \in Ids : typed[a] = {}
  BY Zenon DEF FormInit
<1>6. FieldsUntouched /\ FieldsKnown
  BY <1>1, <1>4a DEF FieldsUntouched, FieldsKnown, KnownPassword
<1>7. \A a \in Ids : PasswordUntouched(a) /\ HoldsPassword(a)
  BY <1>1, <1>5 DEF PasswordUntouched, HoldsPassword
<1>. QED
  BY <1>2, <1>4, <1>5, <1>6, <1>7, Zenon DEF CredentialInv

LEMMA CredentialSelect ==
  ASSUME FormBasics, CredentialInv, kind = "credentials", kind' = kind, NEW a \in Ids, Select(a)
  PROVE  CredentialInv'
<1>0. PICK left \in Ids : left = cur
  BY DEF FormBasics, FormTypes
<1>1. /\ a # left /\ cur' = a /\ \A b \in Ids : current[b] \in EditState
      /\ DOMAIN remote = Ids /\ DOMAIN copy = Ids /\ DOMAIN typed = Ids /\ DOMAIN current = Ids
  BY <1>0 DEF FormBasics, FormTypes, Select
<1>2. /\ CredentialTypes /\ \A v \in typed[left] : form.main = v
      /\ FieldsUntouched /\ FieldsKnown
      /\ \A b \in Ids : /\ PasswordUntouched(b) /\ HoldsPassword(b)
                        /\ \A v, w \in typed[b] : v = w
  BY <1>0 DEF CredentialInv
<1>3. PICK loads \in BOOLEAN : loads <=> current[left] = "MODIFIED"
  OBVIOUS
<1>4. PICK stored : stored = Put(copy[a], form.row, form.editor)
  OBVIOUS
<1>5. /\ remote'[a] = IF loads THEN stored ELSE remote[a]
      /\ \A b \in Ids \ {a} : remote'[b] = remote[b]
  BY <1>0, <1>1, <1>3, <1>4, CredentialFacts, Zenon DEF Select
<1>6. /\ copy'[a] = IF loads THEN stored ELSE copy[a]
      /\ \A b \in Ids \ {a, left} : copy'[b] = copy[b]
  BY <1>0, <1>1, <1>3, <1>4, CredentialFacts, Zenon DEF Select
<1>7. copy'[left] = IF loads THEN PutFirst(copy[left], form.main)
                    ELSE IF current[left] = "OUTDATED" THEN remote[left] ELSE copy[left]
  <2>1. copy'[left] = IF GivenBack(left) THEN CopyAfter(left, "CANCEL") ELSE SavedCopy(left)
    BY <1>0, <1>1 DEF Select
  <2>2. CopyAfter(left, "CANCEL") = IF current[left] \in {"OUTDATED", "MODIFIED"} THEN remote[left]
                                    ELSE copy[left]
    BY <1>1, CredentialFacts, Steps, Zenon
  <2>3. SavedCopy(left) = IF loads THEN PutFirst(copy[left], form.main) ELSE copy[left]
    BY <1>3, CredentialFacts, Zenon
  <2>. QED
    BY <1>3, <2>1, <2>2, <2>3 DEF GivenBack
<1>8. current'[a] = IF current[a] = "READY" THEN "EDITING" ELSE current[a]
  BY <1>0, <1>1, Steps DEF Select
<1>9. /\ typed'[a] = IF loads THEN {} ELSE typed[a]
      /\ typed'[left] = IF typed[left] = {passwordOf(copy'[left])} THEN typed[left] ELSE {}
      /\ \A b \in Ids \ {a, left} : typed'[b] = typed[b]
  BY <1>0, <1>1, <1>3 DEF Select
<1>10. ASSUME NEW b \in Ids, b \notin astray'
       PROVE  b \notin astray \/ copy'[b] = remote'[b]
  BY <1>10, CredentialFacts, Zenon DEF Select
<1>11. form' = [main |-> passwordOf(copy'[a]), row |-> 0, editor |-> ""]
  BY CredentialFacts, Zenon DEF Select
<1>11a. form'.main = passwordOf(copy'[a]) /\ form'.row = 0
  BY <1>11, Zenon
<1>12. CredentialTypes'
  <2>1. /\ stored \in Seq(Texts) /\ PutFirst(copy[left], form.main) \in Seq(Texts)
        /\ \A b \in Ids : copy[b] \in Seq(Texts) /\ remote[b] \in Seq(Texts)
    BY <1>2, <1>4, TextPut, PutFirstPassword DEF CredentialTypes
  <2>2. ASSUME NEW b \in Ids  PROVE remote'[b] \in Seq(Texts) /\ copy'[b] \in Seq(Texts)
    BY <1>5, <1>6, <1>7, <2>1
  <2>3. passwordOf(copy'[a]) \in Texts
    BY <2>2, PasswordIsText
  <2>4. form' \in [main : Texts, row : Nat, editor : Texts]
    BY <1>11, <2>3, EmptyText, Zenon
  <2>. QED
    BY <2>2, <2>4 DEF CredentialTypes
<1>13. PasswordUntouched(left)' /\ HoldsPassword(left)'
  <2>1. HoldsPassword(left)'
    BY <1>9 DEF HoldsPassword
  <2>2. ASSUME left \notin astray, typed[left] # {passwordOf(copy'[left])}
        PROVE  passwordOf(copy'[left]) = passwordOf(remote'[left])
    <3>1. remote'[left] = remote[left]
      BY <1>1, <1>5
    <3>2. CASE loads
      <4>1. passwordOf(copy'[left]) = form.main
        BY <1>2, <1>7, <3>2, PutFirstPassword DEF CredentialTypes
      <4>2. typed[left] = {}
        BY <1>2, <2>2, <4>1
      <4>. QED
        BY <1>0, <1>2, <2>2, <3>1, <4>1, <4>2 DEF FieldsUntouched
    <3>3. CASE ~loads
      BY <1>0, <1>2, <1>3, <1>7, <2>2, <3>1, <3>3 DEF FieldsKnown, KnownPassword
    <3>. QED
      BY <3>2, <3>3
  <2>. QED
    BY <1>9, <1>10, <2>1, <2>2 DEF PasswordUntouched
<1>14. PasswordUntouched(a)'
  <2>1. loads => copy'[a] = remote'[a]
    BY <1>5, <1>6
  <2>2. ~loads => copy'[a] = copy[a] /\ remote'[a] = remote[a] /\ typed'[a] = typed[a]
    BY <1>5, <1>6, <1>9
  <2>. QED
    BY <1>2, <1>10, <2>1, <2>2 DEF PasswordUntouched
<1>15. ASSUME NEW v \in typed'[a]  PROVE ~loads /\ v \in typed[a] /\ passwordOf(copy'[a]) = v
  BY <1>0, <1>1, <1>2, <1>6, <1>9, <1>15 DEF HoldsPassword
<1>16. HoldsPassword(a)' /\ \A v \in typed'[a] : form'.main = v
  BY <1>1, <1>11, <1>15, Zenon DEF HoldsPassword
<1>17. FieldsUntouched'
  BY <1>1, <1>11a, <1>14 DEF FieldsUntouched, PasswordUntouched
<1>18. FieldsKnown'
  <2>. SUFFICES ASSUME a \notin astray'
                PROVE  KnownPassword(passwordOf(copy[cur]))'
    BY <1>1, <1>11a DEF FieldsKnown
  <2>1. CASE typed'[a] = {}
    BY <1>1, <1>14, <2>1 DEF PasswordUntouched, KnownPassword
  <2>2. CASE typed'[a] # {}
    <3>1. PICK v \in typed'[a] : TRUE
      BY <2>2
    <3>2. \A w \in typed'[a] : w = passwordOf(copy'[a])
      BY <1>15
    <3>3. typed'[a] = {passwordOf(copy'[a])}
      BY <3>1, <3>2
    <3>. QED
      BY <1>1, <3>3 DEF KnownPassword
  <2>. QED
    BY <2>1, <2>2
<1>19. ASSUME NEW b \in Ids \ {a, left}  PROVE PasswordUntouched(b)' /\ HoldsPassword(b)'
  <2>1. copy'[b] = copy[b] /\ remote'[b] = remote[b] /\ typed'[b] = typed[b] /\ b # cur
    BY <1>0, <1>5, <1>6, <1>9
  <2>. QED
    BY <1>2, <1>10, <2>1 DEF PasswordUntouched, HoldsPassword
<1>20. ASSUME NEW b \in Ids  PROVE \A v, w \in typed'[b] : v = w
  BY <1>2, <1>9
<1>. QED
  BY <1>1, <1>12, <1>13, <1>14, <1>16, <1>17, <1>18, <1>19, <1>20 DEF CredentialInv

(* What is done to the selected account alone.                             *)
LEMMA CredentialEdited ==
  ASSUME FormBasics, CredentialInv, kind = "credentials", kind' = kind,
         NEW s \in Ids, s = cur, cur' = cur, remote' = remote,
         \A b \in Ids \ {s} : /\ copy'[b] = copy[b] /\ typed'[b] = typed[b]
                              /\ b \notin astray' => b \notin astray,
         copy'[s] \in Seq(Texts), form' \in [main : Texts, row : Nat, editor : Texts],
         \A v \in typed'[s] : form'.main = v, \A v, w \in typed'[s] : v = w,
         FieldsUntouched', FieldsKnown', PasswordUntouched(s)'
  PROVE  CredentialInv'
<1>1. /\ CredentialTypes
      /\ \A b \in Ids : /\ PasswordUntouched(b) /\ HoldsPassword(b)
                        /\ \A v, w \in typed[b] : v = w
  BY DEF CredentialInv
<1>2. CredentialTypes'
  BY <1>1 DEF CredentialTypes
<1>3. HoldsPassword(s)'
  BY DEF HoldsPassword
<1>4. ASSUME NEW b \in Ids \ {s}
      PROVE  /\ PasswordUntouched(b)' /\ HoldsPassword(b)'
             /\ \A v, w \in typed'[b] : v = w
  BY <1>1 DEF PasswordUntouched, HoldsPassword
<1>. QED
  BY <1>2, <1>3, <1>4 DEF CredentialInv

LEMMA CredentialTypePassword ==
  ASSUME FormBasics, CredentialInv, kind = "credentials", kind' = kind,
         NEW v \in Texts, TypePassword(v)
  PROVE  CredentialInv'
<1>0. PICK s \in Ids : s = cur
  BY DEF FormBasics, FormTypes
<1>1. /\ current[s] \in EditState /\ cur' = cur /\ remote' = remote /\ astray' = astray
      /\ DOMAIN copy = Ids /\ DOMAIN current = Ids /\ DOMAIN typed = Ids /\ CredentialTypes
  BY DEF FormBasics, FormTypes, TypePassword, CredentialInv
<1>2. /\ typed'[s] = {v} /\ current'[s] = "MODIFIED"
      /\ copy'[s] = Put(CopyAfter(s, "MODIFY"), 1, v)
      /\ \A b \in Ids \ {s} : copy'[b] = copy[b] /\ typed'[b] = typed[b]
  BY <1>0, <1>1, Steps DEF TypePassword
<1>3. CopyAfter(s, "MODIFY") \in Seq(Texts)
  BY <1>1, CredentialFacts, Zenon DEF CredentialTypes
<1>4. copy'[s] \in Seq(Texts)
  <2>1. PICK k : k = CopyAfter(s, "MODIFY")
    OBVIOUS
  <2>2. k \in Seq(Texts) /\ copy'[s] = Put(k, 1, v)
    BY <1>2, <1>3, <2>1
  <2>. QED
    BY <2>2, TextPut
<1>5. form' \in [main : Texts, row : Nat, editor : Texts] /\ form'.main = v
  BY <1>1 DEF TypePassword, CredentialTypes
<1>6. FieldsUntouched' /\ FieldsKnown' /\ PasswordUntouched(s)'
  BY <1>0, <1>1, <1>2 DEF FieldsUntouched, FieldsKnown, PasswordUntouched
<1>. QED
  BY <1>0, <1>1, <1>2, <1>4, <1>5, <1>6, CredentialEdited

LEMMA CredentialTypeCredential ==
  ASSUME FormBasics, CredentialInv, kind = "credentials", kind' = kind,
         NEW v \in Texts, TypeCredential(v)
  PROVE  CredentialInv'
<1>0. PICK s \in Ids : s = cur
  BY DEF FormBasics, FormTypes
<1>1. /\ current[s] \in EditState /\ cur' = cur /\ remote' = remote /\ astray' = astray
      /\ DOMAIN copy = Ids /\ DOMAIN current = Ids /\ DOMAIN typed = Ids /\ CredentialTypes
      /\ FieldsUntouched /\ PasswordUntouched(s) /\ \A u \in typed[s] : form.main = u
      /\ \A u, w \in typed[s] : u = w
  BY <1>0 DEF FormBasics, FormTypes, TypeCredential, CredentialInv
<1>2. /\ typed'[s] = IF form.row = 1 THEN {v} ELSE typed[s]
      /\ current'[s] = "MODIFIED" /\ copy'[s] = CopyAfter(s, "MODIFY")
      /\ \A b \in Ids \ {s} : copy'[b] = copy[b] /\ typed'[b] = typed[b]
  BY <1>0, <1>1, Steps DEF TypeCredential, Perform
<1>3. copy'[s] \in Seq(Texts) /\ (copy'[s] = copy[s] \/ copy'[s] = remote[s])
  BY <1>1, <1>2, CredentialFacts, Zenon DEF CredentialTypes
<1>4. PICK m \in Texts : m = IF form.row = 1 THEN v ELSE form.main
  BY <1>1 DEF CredentialTypes
<1>5. /\ form' \in [main : Texts, row : Nat, editor : Texts]
      /\ form'.main = m /\ form'.row = form.row
  <2>1. form' = [[form EXCEPT !.editor = v] EXCEPT !.main = m]
    BY <1>4 DEF TypeCredential
  <2>. DEFINE f == [form EXCEPT !.editor = v]
  <2>2. f \in [main : Texts, row : Nat, editor : Texts] /\ f.row = form.row
    BY <1>1 DEF CredentialTypes
  <2>. HIDE DEF f
  <2>3. form' = [f EXCEPT !.main = m]
    BY <2>1 DEF f
  <2>. QED
    BY <2>2, <2>3
<1>6. FieldsKnown'
  BY <1>0, <1>1, <1>2 DEF FieldsKnown
<1>7. FieldsUntouched'
  BY <1>0, <1>1, <1>2, <1>4, <1>5 DEF FieldsUntouched
<1>8. PasswordUntouched(s)'
  BY <1>1, <1>2, <1>3 DEF PasswordUntouched
<1>9. /\ \A u \in typed'[s] : form'.main = u
      /\ \A u, w \in typed'[s] : u = w
  BY <1>1, <1>2, <1>4, <1>5
<1>. QED
  BY <1>0, <1>1, <1>2, <1>3, <1>5, <1>6, <1>7, <1>8, <1>9, CredentialEdited

LEMMA CredentialTypeOther ==
  ASSUME FormBasics, CredentialInv, kind = "credentials", kind' = kind, TypeOther
  PROVE  CredentialInv'
<1>0. PICK s \in Ids : s = cur
  BY DEF FormBasics, FormTypes
<1>1. /\ current[s] \in EditState /\ cur' = cur /\ remote' = remote /\ astray' = astray
      /\ typed' = typed /\ form' = form
      /\ DOMAIN copy = Ids /\ DOMAIN current = Ids /\ CredentialTypes
      /\ FieldsUntouched /\ PasswordUntouched(s) /\ \A u \in typed[s] : form.main = u
      /\ \A u, w \in typed[s] : u = w
  BY <1>0 DEF FormBasics, FormTypes, TypeOther, CredentialInv, ghostVars
<1>2. /\ current'[s] = "MODIFIED" /\ copy'[s] = CopyAfter(s, "MODIFY")
      /\ \A b \in Ids \ {s} : copy'[b] = copy[b]
  BY <1>0, <1>1, Steps DEF TypeOther, Perform
<1>3. copy'[s] \in Seq(Texts) /\ (copy'[s] = copy[s] \/ copy'[s] = remote[s])
  BY <1>1, <1>2, CredentialFacts, Zenon DEF CredentialTypes
<1>4. FieldsKnown' /\ FieldsUntouched' /\ PasswordUntouched(s)'
  BY <1>0, <1>1, <1>2, <1>3 DEF FieldsKnown, FieldsUntouched, PasswordUntouched
<1>5. form' \in [main : Texts, row : Nat, editor : Texts]
  BY <1>1 DEF CredentialTypes
<1>. QED
  BY <1>0, <1>1, <1>2, <1>3, <1>4, <1>5, CredentialEdited

(* A row is selected in the credentials c, which have the same password.   *)
LEMMA CredentialRow ==
  ASSUME FormBasics, CredentialInv, kind = "credentials", kind' = kind, CredentialStep,
         UNCHANGED astray,
         NEW c \in Seq(Texts), passwordOf(c) = passwordOf(copy[cur]),
         c = <<>> => copy[cur] = <<>>, NEW row \in Nat, row \in DOMAIN c, SelectRow(c, row)
  PROVE  CredentialInv'
<1>0. PICK s \in Ids : s = cur
  BY DEF FormBasics, FormTypes
<1>1. /\ cur' = cur /\ remote' = remote /\ astray' = astray /\ typed' = typed /\ current' = current
      /\ DOMAIN copy = Ids /\ CredentialTypes
      /\ FieldsUntouched /\ FieldsKnown /\ PasswordUntouched(s) /\ \A u \in typed[s] : form.main = u
      /\ \A u, w \in typed[s] : u = w
  BY <1>0 DEF FormBasics, FormTypes, CredentialStep, CredentialInv
<1>2. PICK stored : stored = Put(c, form.row, form.editor)
  OBVIOUS
<1>3. /\ stored \in Seq(Texts) /\ Len(stored) = Len(c) /\ DOMAIN stored = DOMAIN c
      /\ passwordOf(stored) = IF form.row = 1 THEN form.editor ELSE passwordOf(copy[cur])
  <2>1. form.row \in Nat /\ form.editor \in Texts
    BY <1>1 DEF CredentialTypes
  <2>2. /\ stored \in Seq(Texts) /\ Len(stored) = Len(c)
        /\ passwordOf(stored) = IF form.row = 1 /\ c # <<>> THEN form.editor ELSE passwordOf(c)
    <3>1. PICK r \in Nat, e \in Texts : r = form.row /\ e = form.editor
      BY <2>1
    <3>2. /\ Put(c, r, e) \in Seq(Texts) /\ Len(Put(c, r, e)) = Len(c)
          /\ passwordOf(Put(c, r, e)) = IF r = 1 /\ c # <<>> THEN e ELSE passwordOf(c)
      BY TextPut
    <3>. QED
      BY <1>2, <3>1, <3>2
  <2>3. c # <<>>
    OBVIOUS
  <2>4. DOMAIN stored = 1..Len(stored) /\ DOMAIN c = 1..Len(c)
    BY <2>2, EmptySeq
  <2>. QED
    BY <2>2, <2>3, <2>4
<1>4. stored[row] \in Texts /\ (row = 1 => stored[row] = passwordOf(stored))
  <2>1. stored[row] \in Texts
    BY <1>3, SeqAt
  <2>2. stored # <<>>
    BY <1>3
  <2>. QED
    BY <2>1, <2>2, Zenon DEF passwordOf
<1>5. copy'[s] = stored /\ \A b \in Ids \ {s} : copy'[b] = copy[b]
  BY <1>0, <1>1, <1>2 DEF SelectRow
<1>6. /\ form' \in [main : Texts, row : Nat, editor : Texts]
      /\ form'.main = form.main /\ form'.row = row /\ form'.editor = stored[row]
  <2>. DEFINE f == [form EXCEPT !.row = row]
  <2>1. form' = [[form EXCEPT !.row = row] EXCEPT !.editor = stored[row]]
    BY <1>2, <1>3 DEF SelectRow
  <2>2. f \in [main : Texts, row : Nat, editor : Texts] /\ f.main = form.main /\ f.row = row
    BY <1>1 DEF CredentialTypes
  <2>. HIDE DEF f
  <2>3. form' = [f EXCEPT !.editor = stored[row]]
    BY <2>1 DEF f
  <2>. QED
    BY <1>4, <2>2, <2>3
<1>7. PasswordUntouched(s)'
  BY <1>0, <1>1, <1>3, <1>5 DEF PasswordUntouched, FieldsUntouched
<1>8. FieldsUntouched'
  <2>. SUFFICES ASSUME typed[s] = {}, s \notin astray
                PROVE  /\ form'.main = passwordOf(remote[s])
                       /\ form'.row = 1 => form'.editor = passwordOf(remote[s])
    BY <1>0, <1>1 DEF FieldsUntouched
  <2>1. form.main = passwordOf(remote[s])
    BY <1>0, <1>1 DEF FieldsUntouched
  <2>2. passwordOf(stored) = passwordOf(remote[s])
    BY <1>1, <1>5, <1>7 DEF PasswordUntouched
  <2>. QED
    BY <1>4, <1>6, <2>1, <2>2
<1>9. FieldsKnown'
  <2>. SUFFICES ASSUME s \notin astray, current[s] # "MODIFIED"
                PROVE  KnownPassword(passwordOf(stored))
    <3>1. \A x : KnownPassword(x)' = (x = passwordOf(remote[s]) \/ typed[s] = {x})
      BY <1>0, <1>1 DEF KnownPassword
    <3>2. \A x : KnownPassword(x) = (x = passwordOf(remote[s]) \/ typed[s] = {x})
      BY <1>0 DEF KnownPassword
    <3>. QED
      BY <1>0, <1>1, <1>4, <1>5, <1>6, <3>1, <3>2 DEF FieldsKnown, KnownPassword
  <2>. QED
    BY <1>0, <1>1, <1>3 DEF FieldsKnown
<1>. QED
  BY <1>0, <1>1, <1>3, <1>5, <1>6, <1>7, <1>8, <1>9, CredentialEdited

LEMMA CredentialSelectRow ==
  ASSUME FormBasics, CredentialInv, kind = "credentials", kind' = kind,
         NEW row \in Nat, SelectCredential(row)
  PROVE  CredentialInv'
<1>1. cur \in Ids /\ CredentialTypes
  BY DEF FormBasics, FormTypes, CredentialInv
<1>2. PICK c \in Seq(Texts) : c = copy[cur]
  BY <1>1 DEF CredentialTypes
<1>3. CredentialStep /\ UNCHANGED astray /\ row \in DOMAIN c /\ SelectRow(c, row)
  BY <1>2 DEF SelectCredential
<1>. QED
  BY <1>2, <1>3, CredentialRow

LEMMA CredentialAdd ==
  ASSUME FormBasics, CredentialInv, kind = "credentials", kind' = kind, AddCredential
  PROVE  CredentialInv'
<1>1. cur \in Ids /\ CredentialTypes
  BY DEF FormBasics, FormTypes, CredentialInv
<1>2. PICK d \in Seq(Texts) : d = copy[cur]
  BY <1>1 DEF CredentialTypes
<1>3. PICK e \in Texts : e = ""
  BY EmptyText, Zenon
<1>4. PICK c : c = Append(d, e)
  OBVIOUS
<1>5. PICK row : row = Len(d) + 1
  OBVIOUS
<1>6. /\ c \in Seq(Texts) /\ c # <<>> /\ Len(c) = row
      /\ passwordOf(c) = passwordOf(d)
  BY <1>3, <1>4, <1>5, AppendPassword, Zenon
<1>7. row \in Nat /\ row \in DOMAIN c
  <2>1. Len(d) \in Nat
    BY EmptySeq
  <2>2. row \in Nat /\ row >= 1
    BY <1>5, <2>1
  <2>3. DOMAIN c = 1..row
    BY <1>6, EmptySeq
  <2>. QED
    BY <2>2, <2>3
<1>8. CredentialStep /\ UNCHANGED astray /\ SelectRow(c, row)
  BY <1>2, <1>3, <1>4, <1>5, Zenon DEF AddCredential
<1>. QED
  BY <1>2, <1>6, <1>7, <1>8, CredentialRow

LEMMA CredentialRemove ==
  ASSUME FormBasics, CredentialInv, kind = "credentials", kind' = kind, RemoveCredential
  PROVE  CredentialInv'
<1>0. PICK s \in Ids : s = cur
  BY DEF FormBasics, FormTypes
<1>1. /\ cur' = cur /\ remote' = remote /\ astray' = astray \cup {s} /\ typed' = typed
      /\ DOMAIN copy = Ids /\ CredentialTypes
      /\ \A u \in typed[s] : form.main = u
      /\ \A u, w \in typed[s] : u = w
  BY <1>0 DEF FormBasics, FormTypes, RemoveCredential, CredentialStep, CredentialInv
<1>2. PICK c \in Seq(Texts), r \in Nat, e \in Texts : c = copy[s] /\ r = form.row /\ e = form.editor
  BY <1>1 DEF CredentialTypes
<1>3. PICK rest : rest = IF r = 0 THEN c ELSE RemoveAt(c, r)
  OBVIOUS
<1>4. rest \in Seq(Texts)
  <2>1. r \in DOMAIN c \cup {0}
    BY <1>0, <1>2 DEF RemoveCredential
  <2>2. r # 0 => RemoveAt(c, r) \in Seq(Texts)
    BY <2>1, RemoveAtElements
  <2>. QED
    BY <1>3, <2>2
<1>5. /\ \A b \in Ids \ {s} : copy'[b] = copy[b]
      /\ copy'[s] \in Seq(Texts)
      /\ form' \in [main : Texts, row : Nat, editor : Texts] /\ form'.main = form.main
  <2>1. CASE r = 1 /\ rest # <<>>
    <3>1. copy' = [copy EXCEPT ![s] = rest] /\ form' = form
      BY <1>0, <1>2, <1>3, <2>1 DEF RemoveCredential
    <3>. QED
      BY <1>1, <1>4, <3>1 DEF CredentialTypes
  <2>2. CASE ~(r = 1 /\ rest # <<>>)
    <3>1. PICK row \in Nat : row = IF rest = <<>> THEN 0 ELSE 1
      OBVIOUS
    <3>2. SelectRow(rest, row)
      BY <1>0, <1>2, <1>3, <2>2, <3>1 DEF RemoveCredential
    <3>3. PICK stored \in Seq(Texts) : stored = Put(rest, r, e)
      BY <1>4, TextPut
    <3>4. PICK shown \in Texts : shown = IF row \in DOMAIN stored THEN stored[row] ELSE ""
      <4>1. row \in DOMAIN stored => stored[row] \in Texts
        BY SeqAt
      <4>. QED
        BY <4>1, EmptyText, Zenon
    <3>5. /\ copy' = [copy EXCEPT ![s] = stored]
          /\ form' = [[form EXCEPT !.row = row] EXCEPT !.editor = shown]
      BY <1>0, <1>2, <3>2, <3>3, <3>4, Zenon DEF SelectRow
    <3>. DEFINE f == [form EXCEPT !.row = row]
    <3>6. f \in [main : Texts, row : Nat, editor : Texts] /\ f.main = form.main
      BY <1>1 DEF CredentialTypes
    <3>7. form' = [f EXCEPT !.editor = shown]
      BY <3>5
    <3>. HIDE DEF f
    <3>8. form' \in [main : Texts, row : Nat, editor : Texts] /\ form'.main = form.main
      BY <3>6, <3>7
    <3>. QED
      BY <1>1, <3>5, <3>8
  <2>. QED
    BY <2>1, <2>2
<1>6. FieldsUntouched' /\ FieldsKnown' /\ PasswordUntouched(s)'
  BY <1>0, <1>1 DEF FieldsUntouched, FieldsKnown, PasswordUntouched
<1>. QED
  BY <1>0, <1>1, <1>5, <1>6, CredentialEdited

LEMMA CredentialApplied ==
  ASSUME FormBasics, CredentialInv, kind = "credentials", Apply, NEW s \in Ids, s = cur
  PROVE  /\ cur' = cur /\ form' = form
         /\ \A b \in Ids : /\ copy'[b] \in Seq(Texts)
                           /\ b # s => copy'[b] = copy[b] /\ remote'[b] = remote[b]
                                        /\ typed'[b] = typed[b]
                           /\ b \notin astray' => b \notin astray \/ copy'[b] = remote'[b]
         /\ s \notin astray' => s \notin astray
         /\ current[s] = "MODIFIED" =>
              /\ remote'[s] = copy'[s]
              /\ passwordOf(copy'[s]) = IF form.row = 1 THEN form.editor ELSE form.main
              /\ typed'[s] = IF typed[s] = {passwordOf(copy'[s])} THEN {} ELSE typed[s]
         /\ current[s] # "MODIFIED" =>
              /\ copy'[s] = copy[s] \/ copy'[s] = remote[s]
              /\ remote'[s] = remote[s] /\ typed'[s] = typed[s]
<1>1. CredentialTypes
  BY DEF CredentialInv
<1>2. PICK c \in Seq(Texts), r \in Nat, e \in Texts, m \in Texts :
           c = copy[s] /\ r = form.row /\ e = form.editor /\ m = form.main
  BY <1>1 DEF CredentialTypes
<1>3. cur' = cur /\ form' = form
  BY DEF Apply
<1>4. ASSUME NEW b \in Ids
      PROVE  /\ copy'[b] = IF b # cur THEN copy[b]
                           ELSE IF current[b] = "MODIFIED" THEN Put(PutFirst(c, m), r, e)
                                ELSE CopyAfter(b, "CANCEL")
             /\ remote'[b] = IF current[b] = "MODIFIED" /\ b = cur THEN copy'[b] ELSE remote[b]
             /\ typed'[b] = IF current[b] = "MODIFIED" /\ b = cur
                               /\ typed[b] = {passwordOf(remote'[b])}
                            THEN {} ELSE typed[b]
             /\ b \notin astray' => b \notin astray \/ (b # cur /\ copy'[b] = remote'[b])
  <2>1. copy'[b] = IF b # cur THEN copy[b]
                   ELSE IF current[b] = "MODIFIED" THEN Edited(SavedCopy(b))
                        ELSE CopyAfter(b, "CANCEL")
    BY DEF Apply
  <2>2. b = cur /\ current[b] = "MODIFIED" => Edited(SavedCopy(b)) = Put(PutFirst(c, m), r, e)
    BY <1>2, CredentialFacts, Zenon
  <2>3. remote'[b] = IF current[b] = "MODIFIED" /\ b = cur THEN Sent(kind, copy'[b]) ELSE remote[b]
    BY DEF Apply
  <2>4. typed'[b] = IF current[b] = "MODIFIED" /\ b = cur /\ typed[b] = {passwordOf(remote'[b])}
                    THEN {} ELSE typed[b]
    BY DEF Apply
  <2>5. b \notin astray' => b \notin astray \/ (b # cur /\ copy'[b] = Received(kind, remote'[b]))
    BY DEF Apply
  <2>. QED
    BY <2>1, <2>2, <2>3, <2>4, <2>5, CredentialFacts, Zenon
<1>5. /\ Put(PutFirst(c, m), r, e) \in Seq(Texts)
      /\ passwordOf(Put(PutFirst(c, m), r, e)) = IF r = 1 THEN e ELSE m
  <2>1. PICK d : d = PutFirst(c, m)
    OBVIOUS
  <2>2. d \in Seq(Texts) /\ d # <<>> /\ passwordOf(d) = m
    BY <2>1, PutFirstPassword
  <2>3. /\ Put(d, r, e) \in Seq(Texts)
        /\ passwordOf(Put(d, r, e)) = IF r = 1 /\ d # <<>> THEN e ELSE passwordOf(d)
    BY <2>2, TextPut
  <2>. QED
    BY <2>1, <2>2, <2>3
<1>6. \A b \in Ids : CopyAfter(b, "CANCEL") \in {copy[b], remote[b]}
  BY CredentialFacts, Zenon
<1>7. \A b \in Ids : copy'[b] \in Seq(Texts)
  BY <1>1, <1>4, <1>5, <1>6 DEF CredentialTypes
<1>. QED
  BY <1>2, <1>3, <1>4, <1>5, <1>6, <1>7

LEMMA CredentialApply ==
  ASSUME FormBasics, CredentialInv, kind = "credentials", kind' = kind, Apply
  PROVE  CredentialInv'
<1>0. PICK s \in Ids : s = cur
  BY DEF FormBasics, FormTypes
<1>1. /\ CredentialTypes /\ \A v \in typed[s] : form.main = v
      /\ FieldsUntouched /\ FieldsKnown
      /\ \A b \in Ids : /\ PasswordUntouched(b) /\ HoldsPassword(b)
                        /\ \A v, w \in typed[b] : v = w
  BY <1>0 DEF CredentialInv
<1>2. CredentialTypes'
  BY <1>0, <1>1, CredentialApplied DEF CredentialTypes
<1>3. ASSUME NEW b \in Ids
      PROVE  /\ typed'[b] = {} \/ typed'[b] = typed[b]
             /\ HoldsPassword(b)'
  BY <1>0, <1>1, CredentialApplied DEF HoldsPassword
<1>4. ASSUME NEW b \in Ids  PROVE PasswordUntouched(b)'
  <2>1. CASE b # s
    BY <1>0, <1>1, <2>1, CredentialApplied DEF PasswordUntouched
  <2>2. CASE b = s /\ current[s] = "MODIFIED"
    BY <1>0, <2>2, CredentialApplied DEF PasswordUntouched
  <2>3. CASE b = s /\ current[s] # "MODIFIED"
    BY <1>0, <1>1, <2>3, CredentialApplied DEF PasswordUntouched
  <2>. QED
    BY <2>1, <2>2, <2>3
<1>5. CASE current[s] = "MODIFIED"
  <2>1. /\ remote'[s] = copy'[s] /\ form' = form /\ cur' = cur
        /\ passwordOf(copy'[s]) = IF form.row = 1 THEN form.editor ELSE form.main
        /\ typed'[s] = IF typed[s] = {passwordOf(copy'[s])} THEN {} ELSE typed[s]
        /\ s \notin astray' => s \notin astray
    BY <1>0, <1>5, CredentialApplied
  <2>2. FieldsKnown'
    BY <1>0, <2>1 DEF FieldsKnown, KnownPassword
  <2>3. FieldsUntouched'
    <3>. SUFFICES ASSUME typed'[s] = {}, s \notin astray
                  PROVE  /\ form.main = passwordOf(copy'[s])
                         /\ form.row = 1 => form.editor = passwordOf(copy'[s])
      BY <1>0, <2>1 DEF FieldsUntouched
    <3>1. CASE typed[s] = {}
      BY <1>0, <1>1, <2>1, <3>1 DEF FieldsUntouched
    <3>2. CASE typed[s] = {passwordOf(copy'[s])}
      BY <1>1, <2>1, <3>2
    <3>. QED
      BY <2>1, <3>1, <3>2
  <2>. QED
    BY <1>0, <1>1, <1>2, <1>3, <1>4, <2>1, <2>2, <2>3 DEF CredentialInv
<1>6. CASE current[s] # "MODIFIED"
  <2>1. /\ copy'[s] = copy[s] \/ copy'[s] = remote[s]
        /\ remote'[s] = remote[s] /\ typed'[s] = typed[s] /\ form' = form /\ cur' = cur
        /\ s \notin astray' => s \notin astray
    BY <1>0, <1>6, CredentialApplied
  <2>2. FieldsUntouched'
    BY <1>0, <1>1, <2>1 DEF FieldsUntouched
  <2>3. FieldsKnown'
    BY <1>0, <1>1, <1>6, <2>1 DEF FieldsKnown, KnownPassword
  <2>. QED
    BY <1>0, <1>1, <1>2, <1>3, <1>4, <2>1, <2>2, <2>3 DEF CredentialInv
<1>. QED
  BY <1>5, <1>6

LEMMA CredentialUpdate ==
  ASSUME FormBasics, CredentialInv, kind = "credentials", kind' = kind, updateAccounts
  PROVE  CredentialInv'
<1>0. PICK s \in Ids : s = cur
  BY DEF FormBasics, FormTypes
<1>1. /\ CredentialTypes /\ \A v \in typed[s] : form.main = v
      /\ FieldsUntouched /\ FieldsKnown
      /\ \A b \in Ids : /\ PasswordUntouched(b) /\ HoldsPassword(b)
                        /\ \A v, w \in typed[b] : v = w
  BY <1>0 DEF CredentialInv
<1>2. ASSUME NEW b \in Ids
      PROVE  /\ copy'[b] = IF current[b] = "READY" THEN remote[b] ELSE copy[b]
             /\ current'[b] = "MODIFIED" <=> current[b] = "MODIFIED"
             /\ typed'[b] = IF b # cur /\ current[b] = "READY" THEN {} ELSE typed[b]
             /\ b \notin astray' => b \notin astray \/ (b # cur /\ copy'[b] = remote[b])
  <2>1. current[b] \in EditState
    BY DEF FormBasics, FormTypes
  <2>2. /\ StateAfter(b, "RELOAD") = IF current[b] = "EDITING" THEN "OUTDATED" ELSE current[b]
        /\ Reloads(b, "RELOAD") <=> current[b] = "READY"
    BY <2>1, Steps
  <2>3. copy'[b] = IF current[b] = "READY" THEN remote[b] ELSE copy[b]
    BY <2>2, CredentialFacts, Zenon DEF updateAccounts
  <2>4. current'[b] = "MODIFIED" <=> current[b] = "MODIFIED"
    BY <2>2 DEF updateAccounts
  <2>5. typed'[b] = IF b # cur /\ current[b] = "READY" THEN {} ELSE typed[b]
    BY <2>2, CredentialFacts, Zenon DEF updateAccounts
  <2>6. b \notin astray' => b \notin astray \/ (b # cur /\ copy'[b] = Received(kind, remote[b]))
    BY DEF updateAccounts
  <2>. QED
    BY <2>3, <2>4, <2>5, <2>6, CredentialFacts, Zenon
<1>3. remote' = remote /\ form' = form /\ cur' = cur
  BY DEF updateAccounts
<1>4. CredentialTypes'
  BY <1>1, <1>2, <1>3 DEF CredentialTypes
<1>5. ASSUME NEW b \in Ids
      PROVE  /\ PasswordUntouched(b)' /\ HoldsPassword(b)'
             /\ \A v, w \in typed'[b] : v = w
  <2>1. CASE current[b] = "READY"
    BY <1>1, <1>2, <1>3, <2>1 DEF PasswordUntouched, HoldsPassword
  <2>2. CASE current[b] # "READY"
    BY <1>1, <1>2, <1>3, <2>2 DEF PasswordUntouched, HoldsPassword
  <2>. QED
    BY <2>1, <2>2
<1>6. FieldsUntouched'
  BY <1>0, <1>1, <1>2, <1>3 DEF FieldsUntouched
<1>7. FieldsKnown'
  BY <1>0, <1>1, <1>2, <1>3 DEF FieldsKnown, KnownPassword
<1>8. \A v \in typed'[s] : form'.main = v
  BY <1>0, <1>1, <1>2, <1>3
<1>. QED
  BY <1>0, <1>3, <1>4, <1>5, <1>6, <1>7, <1>8 DEF CredentialInv

LEMMA CredentialForeign ==
  ASSUME FormBasics, CredentialInv, kind = "credentials", kind' = kind,
         NEW a \in Ids, NEW w \in Seq(Texts), ForeignEdit(a, w)
  PROVE  CredentialInv'
<1>0. PICK s \in Ids : s = cur
  BY DEF FormBasics, FormTypes
<1>1. /\ CredentialTypes /\ \A v \in typed[s] : form.main = v
      /\ FieldsUntouched /\ FieldsKnown
      /\ \A b \in Ids : /\ PasswordUntouched(b) /\ HoldsPassword(b)
                        /\ \A u, v \in typed[b] : u = v
  BY <1>0 DEF CredentialInv
<1>2. /\ copy' = copy /\ current' = current /\ typed' = typed /\ cur' = cur /\ form' = form
      /\ remote'[a] = w /\ \A b \in Ids \ {a} : remote'[b] = remote[b]
      /\ \A b \in Ids : b \notin astray' => b # a /\ b \notin astray
  BY DEF ForeignEdit, Foreign, objectVars, FormBasics, FormTypes
<1>3. CredentialTypes'
  BY <1>1, <1>2 DEF CredentialTypes
<1>4. ASSUME NEW b \in Ids
      PROVE  /\ PasswordUntouched(b)' /\ HoldsPassword(b)'
             /\ \A u, v \in typed'[b] : u = v
  BY <1>1, <1>2 DEF PasswordUntouched, HoldsPassword
<1>5. FieldsUntouched'
  BY <1>0, <1>1, <1>2 DEF FieldsUntouched
<1>6. FieldsKnown'
  BY <1>0, <1>1, <1>2 DEF FieldsKnown, KnownPassword
<1>. QED
  BY <1>0, <1>1, <1>2, <1>3, <1>4, <1>5, <1>6 DEF CredentialInv

LEMMA CredentialIdle ==
  ASSUME CredentialInv, kind = "credentials", kind' = kind,
         UNCHANGED <<remote, copy, current, cur, form, typed, astray>>
  PROVE  CredentialInv'
  BY DEF CredentialInv, CredentialTypes, FieldsUntouched, FieldsKnown, KnownPassword,
         PasswordUntouched, HoldsPassword

LEMMA CredentialKept ==
  ASSUME FormBasics, CredentialInv, kind = "credentials", [FormNext]_formVars
  PROVE  CredentialInv'
<1>0. kind' = kind
  BY DetailStays DEF kind
<1>1. CASE TypeOther
  BY <1>0, <1>1, CredentialTypeOther
<1>2. CASE AddCredential
  BY <1>0, <1>2, CredentialAdd
<1>3. CASE RemoveCredential
  BY <1>0, <1>3, CredentialRemove
<1>4. CASE Apply
  BY <1>0, <1>4, CredentialApply
<1>5. CASE updateAccounts
  BY <1>0, <1>5, CredentialUpdate
<1>6. CASE ForeignOther \/ UNCHANGED formVars
  BY <1>0, <1>6, CredentialIdle DEF ForeignOther, Foreign, formVars, objectVars, ghostVars
<1>7. ASSUME NEW a \in Ids, Select(a)  PROVE CredentialInv'
  BY <1>0, <1>7, CredentialSelect
<1>8. ASSUME NEW a, Check(a)  PROVE CredentialInv'
  BY <1>8, CredentialFacts DEF Check
<1>9. ASSUME NEW v \in Entered(kind), Type(v) \/ TypePassword(v) \/ TypeCredential(v)
      PROVE  CredentialInv'
  <2>1. v \in Texts
    BY CredentialFacts, Zenon
  <2>. QED
    BY <1>0, <1>9, <2>1, CredentialTypePassword, CredentialTypeCredential DEF Type
<1>10. ASSUME NEW c, EditCodecs(c)  PROVE CredentialInv'
  BY <1>10, CredentialFacts, Zenon DEF EditCodecs
<1>11. ASSUME NEW row \in 1..MaxCredentials, SelectCredential(row)  PROVE CredentialInv'
  <2>1. row \in Nat
    OBVIOUS
  <2>. QED
    BY <1>0, <1>11, <2>1, CredentialSelectRow
<1>12. ASSUME NEW a \in Ids, NEW w \in Raw[kind], ForeignEdit(a, w)  PROVE CredentialInv'
  <2>1. w \in Seq(Texts)
    BY RawCredentials
  <2>. QED
    BY <1>0, <1>12, <2>1, CredentialForeign
<1>. QED
  BY <1>1, <1>2, <1>3, <1>4, <1>5, <1>6, <1>7, <1>8, <1>9, <1>10, <1>11, <1>12 DEF FormNext

(* What an Apply sends of the password.                                    *)
LEMMA CredentialSent ==
  ASSUME FormBasics, CredentialInv, kind = "credentials", Apply, NEW a \in Ids
  PROVE  /\ Untouched(a) => passwordOf(remote'[a]) = passwordOf(remote[a])
         /\ \A v \in typed[a] : Expected(a) => passwordOf(remote'[a]) = v
<1>0. PICK s \in Ids : s = cur
  BY DEF FormBasics, FormTypes
<1>1. FieldsUntouched /\ \A v \in typed[s] : form.main = v
  BY <1>0 DEF CredentialInv
<1>2. CASE current[a] = "MODIFIED" /\ a = s
  <2>1. passwordOf(remote'[a]) = IF form.row = 1 THEN form.editor ELSE form.main
    BY <1>0, <1>2, CredentialApplied
  <2>. QED
    BY <1>0, <1>1, <1>2, <2>1 DEF Untouched, FieldsUntouched, Expected
<1>3. CASE ~(current[a] = "MODIFIED" /\ a = s)
  <2>1. remote'[a] = remote[a]
    BY <1>0, <1>3, CredentialApplied
  <2>2. ~Expected(a)
    <3>1. detail = "credentials"
      BY KindKnown DEF FormBasics, KindFits, LoadedKinds
    <3>. QED
      BY <1>0, <1>3, <3>1 DEF Expected
  <2>. QED
    BY <2>1, <2>2
<1>. QED
  BY <1>2, <1>3

-----------------------------------------------------------------------------
(* The invariant of the form.                                              *)

FormInv == FormBasics /\ DetailInv /\ CredentialInv

THEOREM FormInvariance == FormSpec => []FormInv
<1>1. FormInit => FormInv
  BY FormBasicsInit, DetailInit, CredentialInit DEF FormInv
<1>2. FormInv /\ [FormNext]_formVars => FormInv'
  <2>. SUFFICES ASSUME FormInv, [FormNext]_formVars
                PROVE  FormInv'
    OBVIOUS
  <2>1. FormBasics'
    BY FormBasicsKept DEF FormInv
  <2>2. kind' = kind
    BY DetailStays DEF kind
  <2>3. CASE kind = "credentials"
    BY <2>1, <2>2, <2>3, CredentialKept DEF FormInv, DetailInv
  <2>4. CASE kind # "credentials"
    BY <2>1, <2>2, <2>4, DetailKept DEF FormInv, CredentialInv
  <2>. QED
    BY <2>3, <2>4
<1>. QED
  BY <1>1, <1>2, PTL DEF FormSpec

(* Saving an account leaves as it was what neither the user nor another    *)
(* client has touched.                                                     *)
THEOREM ApplyKeepsRestCorrect == FormSpec => ApplyKeepsRest
<1>. DEFINE Rest == Apply => \A a \in Ids :
                      typed[a] = {} /\ a \notin astray /\ ~CannotShow(kind, iax, remote[a])
                        => Means(kind, remote'[a]) = Means(kind, remote[a])
<1>1. FormInv /\ [FormNext]_formVars => [Rest]_formVars
  <2>. SUFFICES ASSUME FormInv, Apply, NEW a \in Ids, Untouched(a)
                PROVE  Means(kind, remote'[a]) = Means(kind, remote[a])
    BY DEF Untouched
  <2>1. CASE kind = "credentials"
    BY <2>1, CredentialSent DEF FormInv, Means
  <2>2. CASE kind # "credentials"
    BY <2>2, DetailSent DEF FormInv
  <2>. QED
    BY <2>1, <2>2
<1>. QED
  BY <1>1, FormInvariance, PTL DEF FormSpec, ApplyKeepsRest

(* What the user has entered reaches the daemon with the next Apply.       *)
THEOREM TypedIsSavedCorrect == FormSpec => TypedIsSaved
<1>. DEFINE Typed == Apply => \A a \in Ids : Expected(a) =>
                       \A v \in typed[a] :
                         IF kind = "credentials" THEN passwordOf(remote'[a]) = v
                         ELSE Means(kind, remote'[a]) = Means(kind, Sent(kind, Meant(v)))
<1>1. FormInv /\ [FormNext]_formVars => [Typed]_formVars
  <2>. SUFFICES ASSUME FormInv, Apply, NEW a \in Ids, Expected(a), NEW v \in typed[a]
                PROVE  IF kind = "credentials" THEN passwordOf(remote'[a]) = v
                       ELSE Means(kind, remote'[a]) = Means(kind, Sent(kind, Meant(v)))
    OBVIOUS
  <2>1. CASE kind = "credentials"
    BY <2>1, CredentialSent DEF FormInv
  <2>2. CASE kind # "credentials"
    BY <2>2, DetailSent DEF FormInv
  <2>. QED
    BY <2>1, <2>2
<1>. QED
  BY <1>1, FormInvariance, PTL DEF FormSpec, TypedIsSaved

(* The hostname is kept twice, and the two always agree; so does what the  *)
(* list of codecs sends with what it was read from.                        *)
THEOREM HostnameAgreesCorrect == FormSpec => []HostnameAgrees
<1>1. FormBasics => HostnameAgrees
  <2>. SUFFICES ASSUME FormBasics
                PROVE  HostnameAgrees
    OBVIOUS
  <2>1. kind = "audio" => \A a \in Ids : Sent(kind, Received(kind, remote[a])) = remote[a]
    BY SentBack DEF FormBasics, CodecLists
  <2>. QED
    BY <2>1 DEF FormBasics, FormTypes, FormTypeOK, HostAgrees, HostnameAgrees
<1>. QED
  BY <1>1, FormInvariance, PTL DEF FormInv
=============================================================================
