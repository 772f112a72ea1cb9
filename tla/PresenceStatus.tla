---------------------------- MODULE PresenceStatus ----------------------------
(***************************************************************************)
(* The presence states of the user: PresenceStatusModel                    *)
(* (src/src/lib/presencestatusmodel.cpp), the page that edits the table    *)
(* (src/src/conf/dlgpresence.cpp), the dock that picks one                 *)
(* (src/src/widgets/presence.cpp) and what the client keeps of them        *)
(* (src/src/implementation.cpp).                                           *)
(*                                                                         *)
(* Two pointers lead into the table, to the status in use and to the       *)
(* default one.  Removing a row frees its status and leaves the pointers.  *)
(* The page writes into the table at once, Apply only stores it.           *)
(*                                                                         *)
(* Of a status the flag that marks the default is kept, and a pointer is   *)
(* the row of its status, which it follows.  An account other than IP2IP   *)
(* exists: publishing reads the second row of the accounts unasked.        *)
(***************************************************************************)
EXTENDS Integers, SequencesExt

CONSTANTS
  MaxStatuses,   (* bound: rows of the table                               *)
  StoredLists    (* what may be stored when the client starts first        *)

ASSUME StatusesAssumption == MaxStatuses \in Nat \ 0..3

(* Only the client writes them, and it stores one default at most          *)
(* (DefaultAgrees).                                                        *)
ASSUME StoredAssumption ==
  \A list \in StoredLists :
    list \in Seq(BOOLEAN) /\ \A i, j \in DOMAIN list : list[i] /\ list[j] => i = j

VARIABLES
  table,     (* flags, default, current, custom                            *)
  page,      (* selected row, or 0, and m_Changed                          *)
  stored,    (* presenceStatusList: the flags, row by row                  *)
  dangling   (* a handler has left what C++ defines                        *)

presenceVars == <<table, page, stored, dangling>>

NoStatus == 0
Freed    == -1

Rows(t) == DOMAIN t.flags

-----------------------------------------------------------------------------
(* The table. *)

(* Online, Away, Busy and DND, of which a new user is the first. *)
DefaultList == <<TRUE, FALSE, FALSE, FALSE>>

(* load and addStatus: the last default is marked, the first one is used.  *)
load(list) ==
  LET flags == IF list = <<>> THEN DefaultList ELSE list
  IN  [flags |-> flags, custom |-> FALSE,
       default |-> SelectLastInSeq(flags, LAMBDA f : f),
       current |-> SelectInSeq(flags, LAMBDA f : f)]

addRow(t) == [t EXCEPT !.flags = Append(@, FALSE)]

AfterRemoval(pointer, row) ==
  IF pointer = row THEN Freed ELSE IF pointer > row THEN pointer - 1 ELSE pointer

removeRow(t, row) ==
  [t EXCEPT !.flags = RemoveAt(@, row),
            !.default = AfterRemoval(@, row), !.current = AfterRemoval(@, row)]

AfterSwap(pointer, i, j) ==
  IF pointer = i THEN j ELSE IF pointer = j THEN i ELSE pointer

Swapped(t, i, j) ==
  [t EXCEPT !.flags[i] = t.flags[j], !.flags[j] = t.flags[i],
            !.default = AfterSwap(@, i, j), !.current = AfterSwap(@, i, j)]

(* Faulty form: the flag of the old default stays. *)
FlagStays(t, row) == [t EXCEPT !.flags[row] = TRUE, !.default = row]

setDefaultStatus(t, row) ==
  [t EXCEPT !.flags = [i \in Rows(t) |-> IF i = row THEN TRUE
                                         ELSE t.flags[i] /\ i # t.default],
            !.default = row]

-----------------------------------------------------------------------------
(* The page. *)

(* dataChanged marks the page; adding and removing a row do not. *)
Edited == page' = [page EXCEPT !.changed = TRUE]

Breaks == dangling' = TRUE /\ UNCHANGED <<table, page, stored>>
Fine   == UNCHANGED <<stored, dangling>>

OpenPresence == page' = [selected |-> 0, changed |-> FALSE] /\ UNCHANGED <<table, stored, dangling>>

SelectStatus(row) ==
  /\ row \in Rows(table) /\ page' = [page EXCEPT !.selected = row]
  /\ UNCHANGED <<table, stored, dangling>>

AddStatus == Len(table.flags) < MaxStatuses /\ table' = addRow(table) /\ Fine /\ UNCHANGED page

(* The selection keeps its row, which may be none any more. *)
slotRemoveRow ==
  IF page.selected \in Rows(table)
    THEN table' = removeRow(table, page.selected) /\ Fine /\ UNCHANGED page
    ELSE Breaks

slotMoveUp ==
  /\ page.selected > 1
  /\ IF page.selected \in Rows(table)
       THEN table' = Swapped(table, page.selected - 1, page.selected) /\ Edited /\ Fine
       ELSE Breaks

(* The guard lets the last row pass, and the selection of none. *)
slotMoveDown ==
  /\ page.selected < Len(table.flags) + 2
  /\ IF page.selected \in 1..Len(table.flags) - 1
       THEN table' = Swapped(table, page.selected, page.selected + 1) /\ Edited /\ Fine
       ELSE Breaks

EditStatus == table.flags # <<>> /\ Edited /\ Fine /\ UNCHANGED table

(* The check box of the default, whether it is set or cleared. *)
CheckDefault(row) ==
  /\ row \in Rows(table)
  /\ IF table.default = Freed THEN Breaks
     ELSE table' = setDefaultStatus(table, row) /\ Edited /\ Fine

(* Apply and Ok of the dialog. *)
SavePresence ==
  /\ stored' = table.flags /\ page' = [page EXCEPT !.changed = FALSE]
  /\ UNCHANGED <<table, dangling>>

-----------------------------------------------------------------------------
(* The dock, and the client. *)

PickStatus(row) ==
  /\ row \in Rows(table)
  /\ table' = [table EXCEPT !.current = row]
  /\ Fine /\ UNCHANGED page

(* Leaving the custom status reads the one in use. *)
setUseCustomStatus ==
  IF table.custom /\ table.current = Freed THEN Breaks
  ELSE table' = [table EXCEPT !.custom = ~@] /\ Fine /\ UNCHANGED page

RestartPresence ==
  /\ table' = load(stored) /\ page' = [selected |-> 0, changed |-> FALSE] /\ Fine

PresenceInit ==
  /\ stored \in StoredLists
  /\ table = load(stored) /\ page = [selected |-> 0, changed |-> FALSE] /\ dangling = FALSE

PresenceNext ==
  /\ ~dangling
  /\ \/ OpenPresence \/ AddStatus \/ slotRemoveRow \/ slotMoveUp \/ slotMoveDown
     \/ EditStatus \/ SavePresence \/ setUseCustomStatus \/ RestartPresence
     \/ \E row \in 1..MaxStatuses : SelectStatus(row) \/ CheckDefault(row) \/ PickStatus(row)

-----------------------------------------------------------------------------
(* The row with the mark is the default status, also after rows were       *)
(* moved, removed and added; and what was stored has one default at most,  *)
(* so that the client starts with the very status the mark was on when it  *)
(* was saved (setDefaultStatus, addStatus, load).                          *)
DefaultAgrees ==
  [][ /\ ~dangling' => \A row \in Rows(table') : table'.flags[row] <=> row = table'.default
      /\ RestartPresence => table'.current = table'.default ]_presenceVars
===============================================================================
