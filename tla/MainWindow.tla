------------------------------ MODULE MainWindow ------------------------------
(***************************************************************************)
(* The main window: the call view with its keys, menus and macros, the box *)
(* of the status bar with the account calls go out by, and the presence of *)
(* the user (src/src/sflphone.cpp, which makes all three).                 *)
(*                                                                         *)
(* They have no state in common: CallView leaves out the account of a      *)
(* call, CurrentAccount all of the call but its account.  To run them side *)
(* by side would multiply their states and show nothing more, so that each *)
(* behaviour exercises one of them while the others rest.                  *)
(***************************************************************************)
EXTENDS CallView, CurrentAccount, PresenceStatus

VARIABLE scene   (* the part that is exercised *)

windowVars == <<scene, vars, accountVars, presenceVars>>

(* The parts at rest start in one state. *)
WindowInit ==
  /\ scene \in {"calls", "account", "presence"}
  /\ Init /\ AccountInit /\ PresenceInit
  /\ scene # "calls" => sequence = CHOOSE text \in Texts : TRUE
  /\ scene # "account" => daemon.known = {}
  /\ scene # "presence" => stored = CHOOSE list \in StoredLists : TRUE

WindowNext ==
  /\ UNCHANGED scene
  /\ \/ scene = "calls" /\ Next /\ UNCHANGED <<accountVars, presenceVars>>
     \/ scene = "account" /\ AccountNext /\ UNCHANGED <<vars, presenceVars>>
     \/ scene = "presence" /\ PresenceNext /\ UNCHANGED <<vars, accountVars>>

WindowSpec == WindowInit /\ [][WindowNext]_windowVars
===============================================================================
