------------------------------ MODULE MCContacts ------------------------------
(* Two books, two uids and two URIs, one of them with a hostname; a        *)
(* payload without a number and two with numbers, which change places      *)
(* between the sorting roles.  Two contacts share a number when the items  *)
(* of two uids hold the same payload.  An earlier session may have left    *)
(* two bookmarks of one URI and a third of the other.                      *)
EXTENDS Bookmarks, TLC

CONSTANTS b1

MCUriOf == [empty |-> None, ann |-> "short", bob |-> "full"]
Book(p1, p2) == [u \in Uids |-> IF u = "u1" THEN p1 ELSE p2]
MCInitialItems ==
  {[b \in Backends |-> IF b = b1 THEN Book("ann", "bob") ELSE Book("bob", None)]}
MCInitialBookmarks ==
  {<<Hash("full", "u2")>>,
   <<Hash("full", None), Hash("full", "u2"), Hash("short", "u1")>>}
MCCategoryOf ==
  [name  |-> [empty |-> "e", ann |-> "a", bob |-> "b"],
   group |-> [empty |-> "g", ann |-> "g", bob |-> "h"]]
===============================================================================
