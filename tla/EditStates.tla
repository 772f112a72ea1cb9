----------------------------- MODULE EditStates -----------------------------
(***************************************************************************)
(* The edit state machine of class Account (src/src/lib/account.cpp,       *)
(* account.h): the function each action calls in each state.               *)
(*                                                                         *)
(* No code path leads to the states NEW and REMOVED: they are left out.    *)
(***************************************************************************)

EditState  == {"READY", "EDITING", "OUTDATED", "MODIFIED"}
EditAction == {"EDIT", "RELOAD", "SAVE", "MODIFY", "CANCEL"}

stateMachineActionsOnState ==
  [READY    |-> [EDIT |-> "edit",    RELOAD |-> "reload",  SAVE |-> "nothing",
                 MODIFY |-> "modify",    CANCEL |-> "nothing"],
   EDITING  |-> [EDIT |-> "nothing", RELOAD |-> "outdate", SAVE |-> "nothing",
                 MODIFY |-> "modify",    CANCEL |-> "cancel"],
   OUTDATED |-> [EDIT |-> "nothing", RELOAD |-> "nothing", SAVE |-> "nothing",
                 MODIFY |-> "reloadMod", CANCEL |-> "reload"],
   MODIFIED |-> [EDIT |-> "nothing", RELOAD |-> "nothing", SAVE |-> "save",
                 MODIFY |-> "nothing",   CANCEL |-> "reload"]]
=============================================================================
