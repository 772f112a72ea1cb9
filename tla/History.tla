------------------------------- MODULE History -------------------------------
(***************************************************************************)
(* The history: the calls kept in memory and grouped for the view          *)
(* (src/src/lib/historymodel.cpp), the file they are appended to           *)
(* (src/src/klib/minimalhistorybackend.cpp) and the numbers used last.     *)
(*                                                                         *)
(* A category is found by its key: how many days ago the call was when its *)
(* start was set or it was read, or the name of the peer.  A number gets   *)
(* another name with a contact while the categories stay.  In memory calls *)
(* are kept by their start time and a random number, so two of the same    *)
(* second may collide.                                                     *)
(*                                                                         *)
(* A finished call the daemon still tells states, because it was busy or   *)
(* failed, is added once more for each of them: what is listed and kept is *)
(* not the call but the time it was added.                                 *)
(*                                                                         *)
(* The program may end at any time, also in the middle of an append: the   *)
(* torn record has no end, so the next one written becomes part of it and  *)
(* overwrites its fields; the call that was torn is not read again.        *)
(***************************************************************************)
EXTENDS RecentNumbers, SequencesExt

CONSTANTS
  Contacts,  (* names that contacts give to numbers                        *)
  Seconds,   (* start times within a day                                   *)
  MaxCalls,  (* bound: calls made                                          *)
  MaxAgain,  (* bound: additions of a call that was added before           *)
  MaxUnsaved,(* bound: calls of a session that are without a backend       *)
  MaxNamed,  (* bound: numbers that have the name of a contact             *)
  MaxDay     (* bound: days the program is used                            *)

ASSUME HistoryAssumption ==
  /\ MaxCalls \in Nat /\ MaxAgain \in Nat /\ MaxUnsaved \in Nat /\ MaxNamed \in Nat
  /\ MaxDay \in Nat /\ Seconds \subseteq Nat

VARIABLES
  added,   (* every time a call was ever added: the day and second it      *)
           (* started, its number, and the first time this call was added  *)
  before,  (* how many of them were before this session                    *)
  unsaved, (* the calls of this session, by that first time, which have no *)
           (* backend: no append worked                                    *)
  today,
  started, (* the day the program was started                              *)
  name,    (* of each number: its contact's, or else its own               *)
  renamed, (* history: the numbers renamed since the calls were grouped by *)
           (* name                                                         *)
  role,    (* m_Role: what the view is grouped by                          *)
  entries, (* m_sHistoryCalls                                              *)
  cats,    (* m_lCategoryCounter: key and rows of each                     *)
  file,    (* the complete records of history.ini                          *)
  loading  (* the record load() reads next, 0 when it is done              *)

modelVars == <<role, entries, cats>>
callVars  == <<added, before, unsaved>>
dayVars   == <<today, started>>
nameVars  == <<name, renamed>>
vars == <<recentVars, modelVars, callVars, dayVars, nameVars, file, loading>>

-----------------------------------------------------------------------------
(* HistoryModel *)
Start(c) == <<added'[c].day, added'[c].second>>

(* m_HistoryConst: 0 for a call of this session, which was set when it     *)
(* started; for an older one the days that had passed when it was read.    *)
Age(call) == IF call.day < started THEN started - call.day ELSE 0

Key(c, r) == IF r = "date" THEN Age(added'[c]) ELSE name[added'[c].number]

(* getCategory() *)
Found(cs, key) == \E i \in DOMAIN cs : cs[i].key = key
WithCategory(cs, key) ==
  IF Found(cs, key) THEN cs ELSE Append(cs, [key |-> key, rows |-> <<>>])

Listed(cs, key, c) ==
  LET all == WithCategory(cs, key)
  IN [i \in DOMAIN all |-> IF all[i].key = key
                           THEN [all[i] EXCEPT !.rows = Append(@, c)] ELSE all[i]]

(* add() of call c, up to the choice of a backend. *)
Add(c) ==
  /\ \/ entries' = entries \union {c}
     \/ \E d \in entries : Start(d) = Start(c) /\ entries' = (entries \ {d}) \union {c}
  /\ cats' = Listed(cats, Key(c, role), c)
  /\ Used(added'[c].number)

(* reloadCategories(), in the order of the map. *)
Earlier(c, d) ==
  \/ added[c].day < added[d].day
  \/ added[c].day = added[d].day /\ added[c].second <= added[d].second

ByTime == CHOOSE cs \in SetToSeqs(entries) : IsSorted(cs, Earlier)

(* Faulty form: the old categories are kept. *)
RegroupedOnTop(r) == FoldLeft(LAMBDA cs, c : Listed(cs, Key(c, r), c), cats, ByTime)
Regrouped(r) == FoldLeft(LAMBDA cs, c : Listed(cs, Key(c, r), c), <<>>, ByTime)

SetCategoryRole(r) ==
  /\ loading = 0 /\ r # role
  /\ role' = r /\ UNCHANGED <<callVars, entries>>
  /\ cats' = Regrouped(r)
  /\ renamed' = {}
  /\ UNCHANGED <<recentVars, dayVars, name, file, loading>>

(* parent(), which makes the category of a call that has none any more. *)
Parent(c) ==
  /\ loading = 0 /\ UNCHANGED callVars
  /\ ~Found(cats, Key(c, role))
  /\ cats' = WithCategory(cats, Key(c, role))
  /\ UNCHANGED <<recentVars, role, entries, dayVars, nameVars, file, loading>>

(* A number of the history gets a contact: the history is not told         *)
(* (external).                                                             *)
Named(n, x) ==
  /\ loading = 0 /\ n \in known /\ name[n] = n
  /\ name' = [name EXCEPT ![n] = x]
  /\ Cardinality({m \in Numbers : name'[m] # m}) <= MaxNamed
  /\ renamed' = IF role = "name" THEN renamed \union {n} ELSE renamed
  /\ UNCHANGED <<recentVars, modelVars, callVars, dayVars, file, loading>>

-----------------------------------------------------------------------------
(* MinimalHistoryBackend *)
Latest == Len(added) + 1
Repeats == Cardinality({c \in DOMAIN added : added[c].call # c})

(* A call is over: it is added, and appended unless the file cannot be     *)
(* opened.                                                                 *)
Finish(n, second) ==
  /\ loading = 0 /\ Latest - Repeats <= MaxCalls
  /\ added' = Append(added, [day |-> today, second |-> second, number |-> n, call |-> Latest])
  /\ Add(Latest)
  /\ \/ file' = Append(file, Latest) /\ UNCHANGED unsaved
     \/ /\ UNCHANGED file /\ unsaved' = unsaved \union {Latest}
        /\ Cardinality(unsaved') <= MaxUnsaved
  /\ UNCHANGED <<role, before, dayVars, nameVars, loading>>

(* A busy or failed call stays in the list of calls.  It is told another   *)
(* state and is still, or again, finished: it is added again, and appended *)
(* if it has no backend yet.                                               *)
FinishAgain(c) ==
  /\ loading = 0 /\ Repeats < MaxAgain
  /\ added' = Append(added, added[c])
  /\ Add(Latest)
  /\ \/ c \in unsaved /\ file' = Append(file, Latest) /\ unsaved' = unsaved \ {c}
     \/ UNCHANGED <<file, unsaved>>
  /\ UNCHANGED <<role, before, dayVars, nameVars, loading>>

(* load(): one complete record.  The call has its backend already, so it   *)
(* is not appended.                                                        *)

(* Faulty form: a call that was read is appended like a new one. *)
ReadAndAppended == IF Len(file) < Len(added) THEN Append(file, file[loading]) ELSE file
AfterRead == file

LoadOne ==
  /\ loading # 0 /\ loading <= Len(file) /\ UNCHANGED callVars
  /\ Add(file[loading])
  /\ file' = AfterRead
  /\ loading' = loading + 1
  /\ UNCHANGED <<role, dayVars, nameVars>>

Loaded ==
  /\ loading > Len(file)
  /\ loading' = 0
  /\ UNCHANGED <<recentVars, modelVars, callVars, dayVars, nameVars, file>>

(* clearAllBackends(): what is in memory stays. *)
Clear ==
  /\ loading = 0 /\ file # <<>>
  /\ file' = <<>>
  /\ UNCHANGED <<recentVars, modelVars, callVars, dayVars, nameVars, loading>>

-----------------------------------------------------------------------------
(* The program ends, or is killed, and starts again.  The contacts are     *)
(* loaded later; a call the daemon still has is a new one to the program.  *)
StartAgain ==
  /\ RecentReset
  /\ role' = "date" /\ entries' = {} /\ cats' = <<>> /\ loading' = 1
  /\ before' = Len(added') /\ unsaved' = {} /\ started' = today
  /\ name' = [n \in Numbers |-> n] /\ renamed' = {}

Restart == UNCHANGED <<added, today, file>> /\ StartAgain

(* It is killed while it appends a record. *)
Torn(n, second) ==
  /\ loading = 0 /\ Latest - Repeats <= MaxCalls
  /\ added' = Append(added, [day |-> today, second |-> second, number |-> n, call |-> Latest])
  /\ StartAgain
  /\ UNCHANGED <<today, file>>

Midnight ==
  /\ today < MaxDay /\ loading = 0
  /\ today' = today + 1
  /\ UNCHANGED <<recentVars, modelVars, callVars, started, nameVars, file, loading>>

Init ==
  /\ RecentInit
  /\ role = "date" /\ entries = {} /\ cats = <<>> /\ loading = 1
  /\ added = <<>> /\ before = 0 /\ unsaved = {} /\ file = <<>>
  /\ today = 0 /\ started = 0
  /\ name = [n \in Numbers |-> n] /\ renamed = {}

Next ==
  \/ \E n \in Numbers, second \in Seconds : Finish(n, second) \/ Torn(n, second)
  \/ \E c \in (before + 1)..Len(added) : added[c].call = c /\ FinishAgain(c)
  \/ LoadOne \/ Loaded \/ Clear \/ Restart \/ Midnight
  \/ \E r \in {"date", "name"} : SetCategoryRole(r)
  \/ \E c \in DOMAIN added : (\E i \in DOMAIN cats : Contains(cats[i].rows, c)) /\ Parent(c)
  \/ \E n \in Numbers : \E x \in Contacts : Named(n, x)
  \/ /\ loading = 0 /\ ReadRows
     /\ UNCHANGED <<modelVars, callVars, dayVars, nameVars, file, loading>>

Spec == Init /\ [][Next]_vars

-----------------------------------------------------------------------------
(* Properties *)
Shown == UNION {ToSet(cats[i].rows) : i \in DOMAIN cats}
Twins(c, d) == added[c].day = added[d].day /\ added[c].second = added[d].second

(* Every variable holds what it is declared for.                           *)
TypeOK ==
  /\ RecentTypeOK
  /\ added \in Seq([day : 0..MaxDay, second : Seconds, number : Numbers, call : Nat])
  /\ \A c \in DOMAIN added : added[c].call \in 1..c
  /\ before \in 0..Len(added) /\ unsaved \subseteq (before + 1)..Len(added)
  /\ today \in 0..MaxDay /\ started \in 0..today /\ role \in {"date", "name"}
  /\ name \in [Numbers -> Numbers \union Contacts] /\ renamed \subseteq Numbers
  /\ entries \subseteq DOMAIN added
  /\ \A i \in DOMAIN cats :
       cats[i].rows \in Seq(DOMAIN added) /\ cats[i].key \in Numbers \union Contacts \union 0..MaxDay
  /\ file \in Seq(DOMAIN added) /\ loading \in 0..(Len(file) + 1)

(* Each time a call was added is one row of one category: a call has as    *)
(* many rows as it was told finished states, and no other one, whatever    *)
(* regroupings, names and questions of the view came in between.  There is *)
(* one category per key, and every row is under its own, except by name    *)
(* one whose number was renamed since (getCategory, reloadCategories,      *)
(* parent).                                                                *)
OwnKey(c) == IF role = "date" THEN Age(added[c]) ELSE name[added[c].number]

CategoriesAgree ==
  /\ entries \subseteq Shown
  /\ \A i \in DOMAIN cats : IsInjective(cats[i].rows)
  /\ \A i, j \in DOMAIN cats : i # j =>
       /\ cats[i].key # cats[j].key
       /\ ToSet(cats[i].rows) \cap ToSet(cats[j].rows) = {}
  /\ \A i \in DOMAIN cats : \A c \in ToSet(cats[i].rows) :
       added[c].number \notin renamed => cats[i].key = OwnKey(c)

(* A call is recorded once, also one that was added several times or that  *)
(* could not be recorded at first, and a recorded one is in the view,      *)
(* unless one of the same second took its place in memory: through         *)
(* restarts and torn records (add, load).                                  *)
RecordsAgree ==
  /\ \A i, j \in DOMAIN file : i # j => added[file[i]].call # added[file[j]].call
  /\ loading = 0 =>
       \A c \in ToSet(file) : \E d \in entries \cap Shown : Twins(c, d)
==============================================================================
