------------------------------ MODULE MacroTree ------------------------------
(***************************************************************************)
(* The macros by category (src/src/klib/macromodel.cpp), the page of the   *)
(* settings they are edited on (src/src/conf/dlgaccessibility.cpp) and the *)
(* file they are kept in.                                                  *)
(*                                                                         *)
(* A macro holds the name of its category and a pointer to the category    *)
(* that lists it.  Every edit calls changed(), which moves the macro, or   *)
(* renames its category when it is alone in it.  Removing a macro only     *)
(* takes it from its category: it stays the current one and is edited on.  *)
(* What the program then does with a category that was deleted, or with    *)
(* the row -1 of an empty list, is undefined, and nothing is said of it.   *)
(***************************************************************************)
EXTENDS FiniteSets, QtLists

CONSTANTS
  Macros,      (* macros, one for each id                                  *)
  Categories,  (* MacroCategory objects                                    *)
  Texts,       (* names of categories                                      *)
  Other,       (* "Other", the category of a new macro                     *)
  Nothing      (* the null pointer                                         *)

ASSUME MacroAssumption ==
  /\ Other \in Texts /\ Nothing \notin Macros \union Categories
  /\ IsFiniteSet(Macros) /\ Cardinality(Categories) > Cardinality(Macros)

VARIABLES
  tree,     (* the model, see NoMacros                                     *)
  current,  (* m_pCurrentMacro                                             *)
  picked,   (* the page has shown a macro: its form is enabled             *)
  file,     (* macros.txt: sequence of an id and the name of a category    *)
  undefined (* a deleted category, or row -1, was used                     *)

macroVars == <<tree, current, picked, file, undefined>>

NoMacros == [cats     |-> <<>>,                             (* m_lCategories *)
             name     |-> [c \in Categories |-> Other],
             content  |-> [c \in Categories |-> <<>>],      (* m_lContent    *)
             category |-> [a \in Macros |-> Other],         (* m_Category    *)
             pCat     |-> [a \in Macros |-> Nothing],       (* m_pCat        *)
             made     |-> {}]                               (* m_hMacros     *)

Named(t, text)  == {c \in ToSet(t.cats) : t.name[c] = text}
ListedIn(t, c)  == ToSet(t.content[c])
FreeCategory(t) == CHOOSE c \in Categories : c \notin ToSet(t.cats) /\ \A a \in Macros : t.pCat[a] # c

Listing(t, a, c) == [t EXCEPT !.content[c] = Append(@, a), !.pCat[a] = c, !.category[a] = t.name[c]]

createCategory(t, text) ==
  [t EXCEPT !.cats = Append(@, FreeCategory(t)), !.name[FreeCategory(t)] = text,
            !.content[FreeCategory(t)] = <<>>]

(* A macro joins the category of a name, which is created when missing.    *)
Joined(t, a, text) ==
  IF Named(t, text) # {} THEN Listing(t, a, CHOOSE c \in Named(t, text) : TRUE)
                         ELSE Listing(createCategory(t, text), a, FreeCategory(t))

(* A category that loses its last macro this way is deleted. *)
Left(t, a) ==
  LET rest == Without(t.content[t.pCat[a]], a)
  IN [t EXCEPT !.content[t.pCat[a]] = rest, !.pCat[a] = Nothing,
               !.cats = IF rest = <<>> THEN Without(t.cats, t.pCat[a]) ELSE @]

newMacro(t, a) == Joined([t EXCEPT !.made = @ \union {a}, !.category[a] = Other], a, Other)

Settled(t, a) == t.name[t.pCat[a]] = t.category[a]

(* Faulty form: the category is renamed though one of that name is there. *)
AloneAnyway(t, a) == Len(t.content[t.pCat[a]]) = 1

Alone(t, a) == Len(t.content[t.pCat[a]]) = 1 /\ Named(t, t.category[a]) = {}

Changed(t, a) ==
  IF Settled(t, a) THEN t
  ELSE IF Alone(t, a) THEN [t EXCEPT !.name[t.pCat[a]] = t.category[a]]
  ELSE Joined(Left(t, a), a, t.category[a])

(* The category was deleted, or the last one is. *)
IsUndefined(t, a) ==
  \/ t.pCat[a] \notin ToSet(t.cats)
  \/ ~Settled(t, a) /\ ~Alone(t, a) /\ Left(t, a).cats = <<>>

(* Faulty form: the name the macro holds is written. *)
EntryByMacro(t, c, a) == [id |-> a, cat |-> t.category[a]]

Entry(t, c, a) == [id |-> a, cat |-> t.name[c]]

Written(t) ==
  FlattenSeq([i \in DOMAIN t.cats |->
    [j \in DOMAIN t.content[t.cats[i]] |-> Entry(t, t.cats[i], t.content[t.cats[i]][j])]])

Read(entries) ==
  FoldLeft(LAMBDA t, e : Changed([newMacro(t, e.id) EXCEPT !.category[e.id] = e.cat], e.id),
           NoMacros, entries)

initMacros(entries) ==
  /\ tree' = Read(entries)
  /\ current' = IF entries = <<>> THEN Nothing ELSE Last(entries).id

MacroInit ==
  /\ file = <<>> /\ tree = NoMacros /\ current = Nothing
  /\ picked = FALSE /\ undefined = FALSE

(* addMacro: the new macro is shown in the form. *)
addMacro ==
  \E a \in Macros \ tree.made :
    /\ tree' = newMacro(tree, a) /\ current' = a /\ picked' = TRUE
    /\ UNCHANGED <<file, undefined>>

(* setCurrent and selectMacro: the form writes back what it is filled with *)
(* when that differs from what it showed.                                  *)
setCurrent ==
  \E c \in ToSet(tree.cats) : \E a \in ListedIn(tree, c) :
    /\ current' = a /\ picked' = TRUE
    /\ tree' \in {tree, Changed(tree, a)}
    /\ UNCHANGED <<file, undefined>>

(* A field of the form is edited: slotCategoryCBB, or another one. *)
EditMacro ==
  \E text \in Texts \union {tree.category[current]} :
    LET t == [tree EXCEPT !.category[current] = text]
    IN /\ undefined' = IsUndefined(t, current)
       /\ tree' = IF undefined' THEN tree ELSE Changed(t, current)
       /\ UNCHANGED <<current, picked, file>>

(* removeMacro: the form keeps showing the macro. *)
removeMacro ==
  /\ tree' = [tree EXCEPT !.content[tree.pCat[current]] = Without(@, current)]
  /\ UNCHANGED <<current, picked, file, undefined>>

saveMacros == file' = Written(tree) /\ UNCHANGED <<tree, current, picked, undefined>>

(* The macros under each name. *)
Groups(t) ==
  [text \in {t.name[c] : c \in {d \in ToSet(t.cats) : t.content[d] # <<>>}} |->
     UNION {ListedIn(t, c) : c \in Named(t, text)}]

(* A macro is listed by one category, once, which is the one it points to, *)
(* and no two categories have the same name, whatever was edited after it  *)
(* was removed.                                                            *)
MacrosAgree ==
  undefined \/
    /\ \A i, j \in DOMAIN tree.cats : i # j =>
         tree.cats[i] # tree.cats[j] /\ tree.name[tree.cats[i]] # tree.name[tree.cats[j]]
    /\ \A c \in ToSet(tree.cats) :
         /\ \A a \in ListedIn(tree, c) : tree.pCat[a] = c
         /\ Cardinality(ListedIn(tree, c)) = Len(tree.content[c])

(* What the next start reads is grouped as it was when it was written: the *)
(* file holds the names, and the categories are found and renamed again.   *)
FileReadsBack == [][file' # file => Groups(Read(file')) = Groups(tree)]_<<tree, file>>
=============================================================================
