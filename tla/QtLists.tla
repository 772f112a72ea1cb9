-------------------------------- MODULE QtLists --------------------------------
(***************************************************************************)
(* What the client uses of Qt's lists and the community modules do not     *)
(* have.  Qt is not part of the source.                                    *)
(***************************************************************************)
EXTENDS SequencesExt

(* QList::removeAll() *)
Without(list, x) == FoldLeft(LAMBDA rest, y : IF y = x THEN rest ELSE Append(rest, y), <<>>, list)
===============================================================================
