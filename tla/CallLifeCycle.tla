--------------------------- MODULE CallLifeCycle ---------------------------
(***************************************************************************)
(* What the rest of the client may rely on about one call: a phase that    *)
(* moves forward only (with one exception, Reopen), a call that is let go  *)
(* only once finished, and a history entry for finished, started calls     *)
(* only.  Conferences are exempt from the rule on letting go: the daemon   *)
(* dissolves them while they are in progress.                              *)
(***************************************************************************)
VARIABLES
  life,        (* LifeCycleState, "NONE" before the first call             *)
  held,        (* the client follows the call                              *)
  conference,  (* the call is a conference                                 *)
  started,     (* it has a start time                                      *)
  recorded     (* it is in the history                                     *)

vars == <<life, held, conference, started, recorded>>

Phase == {"INITIALIZATION", "PROGRESS", "FINISHED"}

(* The phases a held call may be in next. *)
After == [INITIALIZATION |-> Phase,
          PROGRESS       |-> {"PROGRESS", "FINISHED"},
          FINISHED       |-> {"FINISHED"}]

Started  == (started => started') /\ (life' = "PROGRESS" => started')
Recorded == (recorded' <=> recorded) \/ (recorded' /\ life' = "FINISHED" /\ started')

Init ==
  /\ life \in Phase \union {"NONE"}
  /\ held \in BOOLEAN /\ started \in BOOLEAN
  /\ life = "NONE" => ~held
  /\ life = "PROGRESS" => started
  /\ ~conference
  /\ ~recorded

(* A call is created by the user, or announced by the daemon. *)
Appear ==
  /\ ~held /\ held'
  /\ life' \in Phase
  /\ conference' \in BOOLEAN /\ started' \in BOOLEAN
  /\ life' = "PROGRESS" => started'
  /\ ~recorded'

(* It goes on. *)
Proceed ==
  /\ held /\ held'
  /\ life' \in After[life]
  /\ Started /\ Recorded
  /\ (conference' <=> conference)

(* A busy call the daemon resumes, a conference whose state it finds again. *)
Reopen ==
  /\ held /\ held'
  /\ life = "FINISHED" /\ life' = "PROGRESS"
  /\ Started
  /\ (conference' <=> conference) /\ (recorded' <=> recorded)

(* The client lets the call go, and may record it in the same step. *)
Leave ==
  /\ held /\ ~held'
  /\ IF conference THEN life' \in After[life] \union {"PROGRESS"}
                   ELSE life' = "FINISHED"
  /\ Started /\ Recorded
  /\ (conference' <=> conference)

Next == Appear \/ Proceed \/ Reopen \/ Leave

Spec == Init /\ [][Next]_vars
=============================================================================
