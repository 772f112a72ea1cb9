---------------------------- MODULE AccountClaims ----------------------------
(***************************************************************************)
(* What a comment of the account code promises and the code does not keep. *)
(* Its run ends in a counterexample.                                       *)
(***************************************************************************)
EXTENDS Accounts

(* AccountModel::cancel is to "Cancel all modifications": with no signal   *)
(* pending, saving takes from the daemon only what the user has removed    *)
(* since the dialog was opened, applied or cancelled.  A removal that was  *)
(* cancelled is carried out by the next save.                              *)
CancelUndoes == [][~changed /\ (Apply \/ Ok) => known \ known' \subseteq deleted]_vars
=============================================================================
