---------------------------- MODULE CallRefines ----------------------------
(***************************************************************************)
(* Call keeps the promise of CallLifeCycle.                                *)
(***************************************************************************)
EXTENDS Call

Promise == INSTANCE CallLifeCycle WITH
  life       <- IF state = "NONE" THEN "NONE" ELSE LifeCycle(state),
  held       <- tracked,
  conference <- (type = "CONFERENCE"),
  started    <- (startTime # 0),
  recorded   <- (entries > 0)

(* Every step of the two state machines of call.cpp, with the removals of  *)
(* callmodel.cpp and the entries of historymodel.cpp, is a step of the     *)
(* abstract life cycle: no table row leads back to an earlier phase, and   *)
(* no handler lets go of a call that is not finished.                      *)
KeepsPromise == Promise!Spec
=============================================================================
