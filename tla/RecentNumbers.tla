---------------------------- MODULE RecentNumbers ----------------------------
(***************************************************************************)
(* The numbers used last (src/src/lib/lastusednumbermodel.cpp): one node   *)
(* per number in a doubly linked list, which a call moves to the front,    *)
(* and an array of the first MaxItem nodes for the views, filled when it   *)
(* is read.                                                                *)
(***************************************************************************)
EXTENDS Integers, FiniteSets

CONSTANTS
  Numbers,   (* phone numbers                                              *)
  None,      (* the null pointer                                           *)
  MaxItem    (* rows shown, 15 in the code                                 *)

ASSUME RecentAssumption == None \notin Numbers /\ MaxItem \in Nat \ {0}

VARIABLES
  known,   (* m_hNumbers: the numbers that have a node                     *)
  first,   (* m_pFirstNode                                                 *)
  prev,    (* m_pPrevious of each node                                     *)
  next,    (* m_pNext of each node                                         *)
  valid,   (* m_IsValid                                                    *)
  rows,    (* m_lLastNumbers                                               *)
  lastUse, (* when each number was last used: history, read by no action   *)
  clock    (* of lastUse                                                   *)

links == <<known, first, prev, next>>
recentVars == <<links, valid, rows, lastUse, clock>>

-----------------------------------------------------------------------------
RecentInit ==
  /\ known = {} /\ first = None
  /\ prev = [n \in Numbers |-> None] /\ next = [n \in Numbers |-> None]
  /\ valid = FALSE /\ rows = [i \in 1..MaxItem |-> None]
  /\ lastUse = [n \in Numbers |-> 0] /\ clock = 0

(* The program starts again. *)
RecentReset ==
  /\ known' = {} /\ first' = None
  /\ prev' = [n \in Numbers |-> None] /\ next' = [n \in Numbers |-> None]
  /\ valid' = FALSE /\ rows' = [i \in 1..MaxItem |-> None]
  /\ lastUse' = [n \in Numbers |-> 0] /\ clock' = 0

(* f with the value at p, unless p is null. *)
At(f, p, v) == IF p = None THEN f ELSE [f EXCEPT ![p] = v]

(* Faulty form: the neighbour behind is not told. *)
UnlinkedForward(n) == [prev |-> prev, next |-> At(next, prev[n], next[n])]

(* A node that is known already leaves its place in the middle or at the   *)
(* end.  It keeps its own pointers for now.                                *)
Unlinked(n) ==
  IF n \in known
  THEN [prev |-> At(prev, next[n], prev[n]), next |-> At(next, prev[n], next[n])]
  ELSE [prev |-> prev, next |-> next]

(* addCall() *)
Push(n) ==
  LET rest == Unlinked(n)
  IN /\ n # first
     /\ prev' = At(rest.prev, first, n)
     /\ next' = IF first = None THEN rest.next ELSE [rest.next EXCEPT ![n] = first]
     /\ known' = known \union {n} /\ first' = n
     /\ valid' = FALSE
     /\ UNCHANGED rows

Used(n) ==
  /\ clock' = clock + 1 /\ lastUse' = [lastUse EXCEPT ![n] = clock + 1]
  /\ \/ Push(n)
     \/ n = first /\ UNCHANGED <<links, valid, rows>>

(* data(), which a view calls for a row that exists. *)
Following[i \in 1..MaxItem] ==
  IF i = 1 THEN first
  ELSE IF Following[i - 1] = None THEN None ELSE next[Following[i - 1]]

(* Faulty form: an array that was filled once stays as it is. *)
FilledOnce == [i \in 1..MaxItem |-> IF rows[i] = None THEN Following[i] ELSE rows[i]]
Filled == [i \in 1..MaxItem |-> IF Following[i] = None THEN rows[i] ELSE Following[i]]

ReadRows ==
  /\ known # {} /\ ~valid
  /\ valid' = TRUE /\ rows' = Filled
  /\ UNCHANGED <<links, lastUse, clock>>

RecentNext == RecentReset \/ ReadRows \/ \E n \in Numbers : Used(n)
RecentSpec == RecentInit /\ [][RecentNext]_recentVars

-----------------------------------------------------------------------------
(* Properties *)
LinksTypeOK ==
  /\ known \in SUBSET Numbers /\ first \in Numbers \union {None}
  /\ prev \in [Numbers -> Numbers \union {None}]
  /\ next \in [Numbers -> Numbers \union {None}]
  /\ lastUse \in [Numbers -> Nat] /\ clock \in Nat

RecentTypeOK ==
  /\ LinksTypeOK
  /\ valid \in BOOLEAN /\ rows \in [1..MaxItem -> Numbers \union {None}]

LaterThan(m, n) == lastUse[m] > lastUse[n]

(* The list holds every number that was ever used, in the order of its     *)
(* last use: each node is followed by the next older one, and knows the    *)
(* one before it.  Moving the first, the last or a middle node to the      *)
(* front takes different branches (addCall).                               *)
LinkedByUse ==
  /\ first = None <=> known = {}
  /\ first # None => first \in known /\ \A m \in known \ {first} : LaterThan(first, m)
  /\ \A n \in known :
       IF next[n] = None
       THEN \A m \in known \ {n} : LaterThan(m, n)
       ELSE /\ next[n] \in known /\ LaterThan(n, next[n]) /\ prev[next[n]] = n
            /\ \A m \in known : LaterThan(n, m) => m = next[n] \/ LaterThan(next[n], m)

RowCount == IF Cardinality(known) < MaxItem THEN Cardinality(known) ELSE MaxItem

(* What a view reads in row i is the number with i - 1 numbers used after  *)
(* it, however the list has changed since it was read before (data).       *)
RowsRecent ==
  valid => \A i \in 1..RowCount :
             /\ rows[i] \in known
             /\ Cardinality({m \in known : LaterThan(m, rows[i])}) = i - 1
==============================================================================
