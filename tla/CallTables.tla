----------------------------- MODULE CallTables -----------------------------
(***************************************************************************)
(* The tables of the call automaton (src/src/lib/call.cpp): which state a  *)
(* user action or a daemon event asks for, which function runs with it,    *)
(* and the life cycle each state belongs to.                               *)
(***************************************************************************)

(* Life cycle of a state: metaStateMap. *)
Initializing == {"INCOMING", "RINGING", "DIALING", "INITIALIZATION"}
InProgress   == {"CURRENT", "HOLD", "TRANSFERRED", "TRANSF_HOLD",
                 "CONFERENCE", "CONFERENCE_HOLD"}
Finished     == {"FAILURE", "BUSY", "OVER", "ERROR"}

CallState   == Initializing \union InProgress \union Finished
Action      == {"ACCEPT", "REFUSE", "TRANSFER", "HOLD", "RECORD"}
DaemonState == {"RINGING", "CURRENT", "BUSY", "HOLD", "HUNG_UP", "FAILURE"}

LifeCycle(s) == IF s \in Initializing THEN "INITIALIZATION"
                ELSE IF s \in InProgress THEN "PROGRESS"
                ELSE "FINISHED"

OnAction(accept, refuse, transfer, hold, record) ==
  [ACCEPT |-> accept, REFUSE |-> refuse, TRANSFER |-> transfer,
   HOLD |-> hold, RECORD |-> record]

OnEvent(ringing, current, busy, hold, hungUp, failure) ==
  [RINGING |-> ringing, CURRENT |-> current, BUSY |-> busy,
   HOLD |-> hold, HUNG_UP |-> hungUp, FAILURE |-> failure]

actionPerformedStateMap ==
  [INCOMING        |-> OnAction("INCOMING", "INCOMING", "ERROR", "INCOMING", "INCOMING"),
   RINGING         |-> OnAction("ERROR", "RINGING", "ERROR", "ERROR", "RINGING"),
   CURRENT         |-> OnAction("ERROR", "CURRENT", "TRANSFERRED", "CURRENT", "CURRENT"),
   DIALING         |-> OnAction("INITIALIZATION", "OVER", "ERROR", "ERROR", "ERROR"),
   HOLD            |-> OnAction("ERROR", "HOLD", "TRANSF_HOLD", "HOLD", "HOLD"),
   FAILURE         |-> OnAction("ERROR", "OVER", "ERROR", "ERROR", "ERROR"),
   BUSY            |-> OnAction("ERROR", "BUSY", "ERROR", "ERROR", "ERROR"),
   TRANSFERRED     |-> OnAction("TRANSFERRED", "TRANSFERRED", "CURRENT", "TRANSFERRED", "TRANSFERRED"),
   TRANSF_HOLD     |-> OnAction("TRANSF_HOLD", "TRANSF_HOLD", "HOLD", "TRANSF_HOLD", "TRANSF_HOLD"),
   OVER            |-> OnAction("ERROR", "ERROR", "ERROR", "ERROR", "ERROR"),
   ERROR           |-> OnAction("ERROR", "ERROR", "ERROR", "ERROR", "ERROR"),
   CONFERENCE      |-> OnAction("ERROR", "CURRENT", "TRANSFERRED", "CURRENT", "CURRENT"),
   CONFERENCE_HOLD |-> OnAction("ERROR", "HOLD", "TRANSF_HOLD", "HOLD", "HOLD"),
   INITIALIZATION  |-> OnAction("INITIALIZATION", "OVER", "ERROR", "ERROR", "ERROR")]

actionPerformedFunctionMap ==
  [INCOMING        |-> OnAction("accept", "refuse", "acceptTransf", "acceptHold", "toggleRecord"),
   RINGING         |-> OnAction("nothing", "hangUp", "nothing", "nothing", "toggleRecord"),
   CURRENT         |-> OnAction("nothing", "hangUp", "nothing", "hold", "toggleRecord"),
   DIALING         |-> OnAction("call", "cancel", "nothing", "nothing", "nothing"),
   HOLD            |-> OnAction("nothing", "hangUp", "nothing", "unhold", "toggleRecord"),
   FAILURE         |-> OnAction("nothing", "remove", "nothing", "nothing", "nothing"),
   BUSY            |-> OnAction("nothing", "hangUp", "nothing", "nothing", "nothing"),
   TRANSFERRED     |-> OnAction("transfer", "hangUp", "transfer", "hold", "toggleRecord"),
   TRANSF_HOLD     |-> OnAction("transfer", "hangUp", "transfer", "unhold", "toggleRecord"),
   OVER            |-> OnAction("nothing", "nothing", "nothing", "nothing", "nothing"),
   ERROR           |-> OnAction("nothing", "remove", "nothing", "nothing", "nothing"),
   CONFERENCE      |-> OnAction("nothing", "hangUp", "nothing", "hold", "toggleRecord"),
   CONFERENCE_HOLD |-> OnAction("nothing", "hangUp", "nothing", "unhold", "toggleRecord"),
   INITIALIZATION  |-> OnAction("call", "cancel", "nothing", "nothing", "nothing")]

stateChangedStateMap ==
  [INCOMING        |-> OnEvent("INCOMING", "CURRENT", "BUSY", "HOLD", "OVER", "FAILURE"),
   RINGING         |-> OnEvent("RINGING", "CURRENT", "BUSY", "HOLD", "OVER", "FAILURE"),
   CURRENT         |-> OnEvent("CURRENT", "CURRENT", "BUSY", "HOLD", "OVER", "FAILURE"),
   DIALING         |-> OnEvent("RINGING", "CURRENT", "BUSY", "HOLD", "OVER", "FAILURE"),
   HOLD            |-> OnEvent("HOLD", "CURRENT", "BUSY", "HOLD", "OVER", "FAILURE"),
   FAILURE         |-> OnEvent("FAILURE", "FAILURE", "BUSY", "FAILURE", "OVER", "FAILURE"),
   BUSY            |-> OnEvent("BUSY", "CURRENT", "BUSY", "BUSY", "OVER", "FAILURE"),
   TRANSFERRED     |-> OnEvent("TRANSFERRED", "TRANSFERRED", "BUSY", "TRANSF_HOLD", "OVER", "FAILURE"),
   TRANSF_HOLD     |-> OnEvent("TRANSF_HOLD", "TRANSFERRED", "BUSY", "TRANSF_HOLD", "OVER", "FAILURE"),
   OVER            |-> OnEvent("OVER", "OVER", "OVER", "OVER", "OVER", "OVER"),
   ERROR           |-> OnEvent("ERROR", "ERROR", "ERROR", "ERROR", "ERROR", "ERROR"),
   CONFERENCE      |-> OnEvent("CURRENT", "CURRENT", "BUSY", "HOLD", "OVER", "FAILURE"),
   CONFERENCE_HOLD |-> OnEvent("HOLD", "CURRENT", "BUSY", "HOLD", "OVER", "FAILURE"),
   INITIALIZATION  |-> OnEvent("RINGING", "CURRENT", "BUSY", "HOLD", "OVER", "FAILURE")]

stateChangedFunctionMap ==
  [INCOMING        |-> OnEvent("nothing", "start", "startWeird", "startWeird", "startStop", "failure"),
   RINGING         |-> OnEvent("nothing", "start", "start", "start", "startStop", "failure"),
   CURRENT         |-> OnEvent("nothing", "nothing", "warning", "nothing", "stop", "nothing"),
   DIALING         |-> OnEvent("nothing", "warning", "warning", "warning", "stop", "warning"),
   HOLD            |-> OnEvent("nothing", "nothing", "warning", "nothing", "stop", "nothing"),
   FAILURE         |-> OnEvent("nothing", "warning", "warning", "warning", "stop", "nothing"),
   BUSY            |-> OnEvent("nothing", "nothing", "nothing", "warning", "stop", "nothing"),
   TRANSFERRED     |-> OnEvent("nothing", "nothing", "warning", "nothing", "stop", "nothing"),
   TRANSF_HOLD     |-> OnEvent("nothing", "nothing", "warning", "nothing", "stop", "nothing"),
   OVER            |-> OnEvent("nothing", "warning", "warning", "warning", "stop", "warning"),
   ERROR           |-> OnEvent("error", "error", "error", "error", "stop", "error"),
   CONFERENCE      |-> OnEvent("nothing", "nothing", "warning", "nothing", "stop", "nothing"),
   CONFERENCE_HOLD |-> OnEvent("nothing", "nothing", "warning", "nothing", "stop", "nothing"),
   INITIALIZATION  |-> OnEvent("nothing", "warning", "warning", "warning", "stop", "warning")]

(* metaStateTransitionValidationMap: may a call whose life cycle is `from` *)
(* enter state s?  The code checks it with Q_ASSERT, for daemon events     *)
(* only.                                                                   *)
ValidTransition(from, s) ==
  CASE from = "INITIALIZATION" -> s \notin {"TRANSFERRED", "TRANSF_HOLD"}
    [] from = "PROGRESS"       -> s \in {"CURRENT", "HOLD", "FAILURE", "TRANSFERRED",
                                         "TRANSF_HOLD", "OVER", "ERROR"}
    [] from = "FINISHED"       -> s = "OVER"
=============================================================================
