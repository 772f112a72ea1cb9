---------------------------- MODULE SettingsProofs ----------------------------
(***************************************************************************)
(* Proofs about Settings: what the operations on the macros do to the      *)
(* categories, for any number of macros and names, then the pages, the     *)
(* video page and the macros of the program.                               *)
(***************************************************************************)
EXTENDS Settings, ListLemmas

Trees == [cats : Seq(Categories), name : [Categories -> Texts],
          content : [Categories -> Seq(Macros)], category : [Macros -> Texts],
          pCat : [Macros -> Categories \union {Nothing}], made : SUBSET Macros]

(* Categories and their names are distinct; a listed macro is listed once, *)
(* by the category it points to; one that is not made points nowhere.      *)
Apart(t) ==
  /\ t \in Trees
  /\ IsInjective(t.cats)
  /\ \A c, d \in ToSet(t.cats) : t.name[c] = t.name[d] => c = d
  /\ \A c \in ToSet(t.cats) : IsInjective(t.content[c])
  /\ \A c \in ToSet(t.cats) : \A a \in ListedIn(t, c) : t.pCat[a] = c
  /\ \A a \in Macros \ t.made : t.pCat[a] = Nothing

(* No category is kept that no macro, listed or removed, points to: there  *)
(* are never more categories than macros.                                  *)
Neat(t) ==
  /\ Apart(t)
  /\ \A c \in ToSet(t.cats) : \E a \in Macros : t.pCat[a] = c

(* What a reader of the tree sees: the listed macros and their headings.   *)
Listed(t)    == UNION {ListedIn(t, c) : c \in ToSet(t.cats)}
NameOf(t, a) == t.name[t.pCat[a]]

(* From t to w, a is listed under a name and nothing else is moved.        *)
Placed(t, w, a, text) ==
  /\ Listed(w) = Listed(t) \union {a}
  /\ NameOf(w, a) = text
  /\ \A b \in Listed(t) \ {a} : NameOf(w, b) = NameOf(t, b)
  /\ w.pCat[a] \in ToSet(w.cats) /\ w.made = t.made \union {a}

-----------------------------------------------------------------------------
(* Categories.                                                             *)

LEMMA InCategories ==
  ASSUME NEW t \in Trees
  PROVE  /\ ToSet(t.cats) \subseteq Categories
         /\ \A c \in ToSet(t.cats) : t.content[c] \in Seq(Macros) /\ ListedIn(t, c) \subseteq Macros
         /\ Listed(t) \subseteq Macros
<1>1. ToSet(t.cats) \subseteq Categories
  BY DEF Trees, ToSet
<1>2. ASSUME NEW c \in Categories  PROVE t.content[c] \in Seq(Macros) /\ ListedIn(t, c) \subseteq Macros
  <2>1. t.content[c] \in Seq(Macros)
    BY DEF Trees
  <2>. QED
    BY <2>1 DEF ListedIn, ToSet
<1>. QED
  BY <1>1, <1>2 DEF Listed

(* There is a category that is free: the others are pointed to, and there  *)
(* are more categories than macros.                                        *)
LEMMA FreeExists ==
  ASSUME NEW t, Neat(t)
  PROVE  /\ FreeCategory(t) \in Categories /\ FreeCategory(t) \notin ToSet(t.cats)
         /\ \A a \in Macros : t.pCat[a] # FreeCategory(t)
<1>. DEFINE used == {t.pCat[a] : a \in Macros}
<1>1. IsFiniteSet(used) /\ Cardinality(used) <= Cardinality(Macros)
  <2>1. t.pCat \in Surjection(Macros, used)
    BY DEF Neat, Apart, Trees, Surjection
  <2>. QED
    BY <2>1, MacroAssumption, FS_Surjection
<1>2. ~ (Categories \subseteq used)
  <2>. SUFFICES ASSUME Categories \subseteq used  PROVE FALSE
    OBVIOUS
  <2>1. IsFiniteSet(Categories) /\ Cardinality(Categories) <= Cardinality(used)
    BY <1>1, FS_Subset
  <2>2. Cardinality(Categories) \in Nat /\ Cardinality(used) \in Nat /\ Cardinality(Macros) \in Nat
    BY <1>1, <2>1, MacroAssumption, FS_CardinalityType
  <2>. QED
    BY <1>1, <2>1, <2>2, MacroAssumption
<1>3. PICK c \in Categories : c \notin used
  BY <1>2
<1>4. c \notin ToSet(t.cats) /\ \A a \in Macros : t.pCat[a] # c
  BY <1>3 DEF Neat
<1>. QED
  BY <1>4, Zenon DEF FreeCategory

(* A category is added: the pointers, and what is listed, stay.            *)
Added(t, w, c, text) ==
  /\ Apart(w) /\ w.made = t.made /\ w.pCat = t.pCat
  /\ ToSet(w.cats) = ToSet(t.cats) \union {c} /\ w.name[c] = text /\ w.content[c] = <<>>
  /\ \A d \in Categories \ {c} : w.name[d] = t.name[d] /\ w.content[d] = t.content[d]

LEMMA CreateEffect ==
  ASSUME NEW t, Neat(t), NEW text \in Texts, Named(t, text) = {}
  PROVE  Added(t, createCategory(t, text), FreeCategory(t), text)
<1>. DEFINE c == FreeCategory(t)
            w == createCategory(t, text)
<1>1. /\ c \in Categories /\ c \notin ToSet(t.cats)
      /\ \A a \in Macros : t.pCat[a] # c
  BY FreeExists
<1>2. w = [t EXCEPT !.cats = Append(@, c), !.name[c] = text, !.content[c] = <<>>]
  BY DEF createCategory
<1>3. t \in Trees
  BY DEF Neat, Apart
<1>. HIDE DEF c, w
<1>4. /\ Append(t.cats, c) \in Seq(Categories)
      /\ ToSet(Append(t.cats, c)) = ToSet(t.cats) \cup {c}
      /\ IsInjective(t.cats) => IsInjective(Append(t.cats, c))
  BY <1>1, <1>3, AppendEffect DEF Trees
<1>5. /\ w.cats = Append(t.cats, c) /\ w.name = [t.name EXCEPT ![c] = text]
      /\ w.content = [t.content EXCEPT ![c] = <<>>]
      /\ w.category = t.category /\ w.pCat = t.pCat /\ w.made = t.made
  BY <1>2, <1>3 DEF Trees
<1>6. w \in Trees
  <2>1. w = [cats |-> w.cats, name |-> w.name, content |-> w.content,
             category |-> w.category, pCat |-> w.pCat, made |-> w.made]
    BY <1>2, <1>3 DEF Trees
  <2>2. /\ w.cats \in Seq(Categories) /\ w.name \in [Categories -> Texts]
        /\ w.content \in [Categories -> Seq(Macros)] /\ w.category \in [Macros -> Texts]
        /\ w.pCat \in [Macros -> Categories \union {Nothing}] /\ w.made \in SUBSET Macros
    BY <1>3, <1>4, <1>5 DEF Trees
  <2>. QED
    BY <2>1, <2>2 DEF Trees
<1>7. /\ w.name[c] = text /\ w.content[c] = <<>>
      /\ \A d \in Categories \ {c} : w.name[d] = t.name[d] /\ w.content[d] = t.content[d]
  BY <1>1, <1>3, <1>5 DEF Trees
<1>8. ToSet(t.cats) \subseteq Categories
  BY <1>3, InCategories
<1>9. \A d \in ToSet(t.cats) : t.name[d] # text
  BY DEF Named
<1>10. IsInjective(<<>>) /\ ToSet(<<>>) = {}
  BY DEF IsInjective, ToSet
<1>11. Apart(w)
  BY <1>1, <1>4, <1>5, <1>6, <1>7, <1>8, <1>9, <1>10 DEF Apart, Neat, ListedIn
<1>. QED
  BY <1>4, <1>5, <1>7, <1>11 DEF Added, c, w

(* A macro that is in no list joins a category.                            *)
Pointed(t, w, a, c) == w.cats = t.cats /\ w.pCat = [t.pCat EXCEPT ![a] = c]

LEMMA ListingEffect ==
  ASSUME NEW t, Apart(t), NEW a \in t.made, t.pCat[a] = Nothing, NEW c \in ToSet(t.cats)
  PROVE  /\ Apart(Listing(t, a, c)) /\ Placed(t, Listing(t, a, c), a, t.name[c])
         /\ Pointed(t, Listing(t, a, c), a, c)
<1>. DEFINE w == Listing(t, a, c)
<1>1. t \in Trees /\ c \in Categories /\ a \in Macros /\ Nothing \notin Categories
  BY MacroAssumption DEF Apart, Trees, ToSet
<1>2. w = [t EXCEPT !.content[c] = Append(@, a), !.pCat[a] = c, !.category[a] = t.name[c]]
  BY DEF Listing
<1>. HIDE DEF w
<1>3. /\ w.cats = t.cats /\ w.name = t.name /\ w.made = t.made
      /\ w.content = [t.content EXCEPT ![c] = Append(@, a)]
      /\ w.pCat = [t.pCat EXCEPT ![a] = c]
      /\ w.category = [t.category EXCEPT ![a] = t.name[c]]
  BY <1>1, <1>2 DEF Trees
<1>4. a \notin ListedIn(t, c) /\ \A d \in ToSet(t.cats) : a \notin ListedIn(t, d)
  BY <1>1, InCategories DEF Apart
<1>5. /\ Append(t.content[c], a) \in Seq(Macros)
      /\ ToSet(Append(t.content[c], a)) = ListedIn(t, c) \cup {a}
      /\ IsInjective(Append(t.content[c], a))
  BY <1>1, <1>4, AppendEffect DEF Apart, Trees, ListedIn
<1>6. w \in Trees
  <2>1. w = [cats |-> w.cats, name |-> w.name, content |-> w.content,
             category |-> w.category, pCat |-> w.pCat, made |-> w.made]
    BY <1>2, <1>1 DEF Trees
  <2>2. /\ w.cats \in Seq(Categories) /\ w.name \in [Categories -> Texts] /\ w.made \in SUBSET Macros
        /\ w.content \in [Categories -> Seq(Macros)]
    BY <1>1, <1>3, <1>5 DEF Trees
  <2>3. w.pCat \in [Macros -> Categories \union {Nothing}] /\ w.category \in [Macros -> Texts]
    BY <1>1, <1>3 DEF Trees
  <2>. QED
    BY <2>1, <2>2, <2>3 DEF Trees
<1>7. ToSet(t.cats) \subseteq Categories
  BY <1>1, InCategories
<1>8. /\ ListedIn(w, c) = ListedIn(t, c) \cup {a}
      /\ \A d \in ToSet(t.cats) \ {c} : w.content[d] = t.content[d] /\ ListedIn(w, d) = ListedIn(t, d)
      /\ IsInjective(w.content[c])
  BY <1>1, <1>3, <1>5, <1>7 DEF Trees, ListedIn
<1>9. w.pCat[a] = c /\ \A b \in Macros \ {a} : w.pCat[b] = t.pCat[b]
  BY <1>1, <1>3 DEF Trees
<1>10. \A d \in ToSet(t.cats) : ListedIn(w, d) \subseteq Macros
  BY <1>3, <1>6, InCategories
<1>11. Apart(w)
  BY <1>3, <1>4, <1>6, <1>8, <1>9, <1>10 DEF Apart
<1>12. Listed(w) = Listed(t) \cup {a}
  BY <1>3, <1>8 DEF Listed
<1>13. Listed(t) \subseteq Macros
  BY <1>1, InCategories
<1>14. Placed(t, w, a, t.name[c])
  BY <1>3, <1>9, <1>12, <1>13 DEF Placed, NameOf
<1>. QED
  BY <1>3, <1>11, <1>14 DEF w, Pointed

LEMMA JoinedEffect ==
  ASSUME NEW t, Neat(t), NEW a \in t.made, t.pCat[a] = Nothing, NEW text \in Texts
  PROVE  Neat(Joined(t, a, text)) /\ Placed(t, Joined(t, a, text), a, text)
<1>1. t \in Trees /\ a \in Macros /\ Nothing \notin Categories /\ ToSet(t.cats) \subseteq Categories
  BY MacroAssumption, InCategories DEF Neat, Apart, Trees
<1>2. CASE Named(t, text) # {}
  <2>. DEFINE c == CHOOSE c \in Named(t, text) : TRUE
              w == Joined(t, a, text)
  <2>1. c \in ToSet(t.cats) /\ t.name[c] = text
    BY <1>2 DEF Named
  <2>2. w = Listing(t, a, c)
    BY <1>2 DEF Joined
  <2>. HIDE DEF c, w
  <2>3. Apart(w) /\ Placed(t, w, a, text) /\ Pointed(t, w, a, c)
    BY <2>1, <2>2, ListingEffect DEF Neat
  <2>4. \A d \in ToSet(w.cats) : \E b \in Macros : w.pCat[b] = d
    <3>1. SUFFICES ASSUME NEW d \in ToSet(t.cats), d # c  PROVE \E b \in Macros : w.pCat[b] = d
      BY <1>1, <2>3 DEF Pointed, Trees
    <3>2. PICK b \in Macros : t.pCat[b] = d
      BY <3>1 DEF Neat
    <3>3. w.pCat[b] = d
      BY <1>1, <2>3, <3>2 DEF Pointed, Trees
    <3>. QED
      BY <3>3
  <2>. QED
    BY <2>3, <2>4 DEF Neat, w
<1>3. CASE Named(t, text) = {}
  <2>. DEFINE c == FreeCategory(t)
              u == createCategory(t, text)
              w == Joined(t, a, text)
  <2>1. c \in Categories /\ c \notin ToSet(t.cats)
    BY FreeExists
  <2>2. Added(t, u, c, text)
    BY <1>3, CreateEffect
  <2>3. w = Listing(u, a, c)
    BY <1>3 DEF Joined
  <2>. HIDE DEF c, u, w
  <2>4. Apart(u) /\ a \in u.made /\ u.pCat[a] = Nothing /\ c \in ToSet(u.cats) /\ u.name[c] = text
    BY <2>2 DEF Added
  <2>5. Apart(w) /\ Placed(u, w, a, text) /\ Pointed(u, w, a, c)
    BY <2>3, <2>4, ListingEffect
  <2>6. \A d \in ToSet(w.cats) : \E b \in Macros : w.pCat[b] = d
    <3>1. SUFFICES ASSUME NEW d \in ToSet(t.cats)  PROVE \E b \in Macros : w.pCat[b] = d
      BY <1>1, <2>2, <2>5 DEF Pointed, Trees, Added
    <3>2. PICK b \in Macros : t.pCat[b] = d
      BY <3>1 DEF Neat
    <3>3. w.pCat[b] = d
      BY <1>1, <2>2, <2>5, <3>2 DEF Pointed, Trees, Added
    <3>. QED
      BY <3>3
  <2>7. Listed(u) = Listed(t)
    <3>1. ListedIn(u, c) = {} /\ \A d \in ToSet(t.cats) : ListedIn(u, d) = ListedIn(t, d)
      BY <1>1, <2>1, <2>2 DEF Added, ListedIn, ToSet
    <3>. QED
      BY <2>2, <3>1 DEF Added, Listed
  <2>8. ASSUME NEW b \in Listed(t)  PROVE NameOf(u, b) = NameOf(t, b)
    <3>1. t.pCat[b] \in ToSet(t.cats)
      BY <2>8 DEF Listed, Neat, Apart
    <3>. QED
      BY <1>1, <2>1, <2>2, <3>1 DEF Added, NameOf
  <2>9. Placed(t, w, a, text)
    BY <2>2, <2>5, <2>7, <2>8 DEF Placed, Added
  <2>. QED
    BY <2>5, <2>6, <2>9 DEF Neat, w
<1>. QED
  BY <1>2, <1>3

(* A macro leaves its category, which goes when it is empty.               *)
Parted(t, w, a) ==
  /\ Neat(w) /\ w.made = t.made /\ w.pCat[a] = Nothing
  /\ Listed(w) = Listed(t) \ {a}
  /\ \A b \in Listed(w) : NameOf(w, b) = NameOf(t, b)

LEMMA LeftEffect ==
  ASSUME NEW t, Neat(t), NEW a \in t.made, t.pCat[a] \in ToSet(t.cats)
  PROVE  Parted(t, Left(t, a), a)
<1>. DEFINE c    == t.pCat[a]
            rest == Without(t.content[c], a)
            cats == IF rest = <<>> THEN Without(t.cats, c) ELSE t.cats
            w    == Left(t, a)
<1>1. /\ t \in Trees /\ a \in Macros /\ c \in ToSet(t.cats)
      /\ Nothing \notin Categories /\ ToSet(t.cats) \subseteq Categories
  BY MacroAssumption, InCategories DEF Neat, Apart, Trees
<1>2. w = [t EXCEPT !.content[c] = rest, !.pCat[a] = Nothing, !.cats = cats]
  BY DEF Left
<1>3. t.content[c] \in Seq(Macros) /\ t.cats \in Seq(Categories)
  BY <1>1 DEF Trees
<1>4. rest \in Seq(Macros) /\ ToSet(rest) = ListedIn(t, c) \ {a} /\ IsInjective(rest)
  BY <1>1, <1>3, WithoutEffect DEF Neat, Apart, ListedIn
<1>5. /\ Without(t.cats, c) \in Seq(Categories) /\ ToSet(Without(t.cats, c)) = ToSet(t.cats) \ {c}
      /\ IsInjective(Without(t.cats, c))
  BY <1>1, <1>3, WithoutEffect DEF Neat, Apart
<1>6. rest # <<>> => \E b \in Macros : b \in ToSet(rest)
  <2>1. rest # <<>> => 1 \in DOMAIN rest /\ rest[1] \in Macros
    BY <1>4
  <2>. QED
    BY <2>1 DEF ToSet
<1>7. rest = <<>> => ToSet(rest) = {}
  BY DEF ToSet
<1>8. /\ cats \in Seq(Categories) /\ IsInjective(cats)
      /\ ToSet(t.cats) \ {c} \subseteq ToSet(cats) /\ ToSet(cats) \subseteq ToSet(t.cats)
      /\ c \in ToSet(cats) => rest # <<>>
      /\ c \notin ToSet(cats) => ToSet(rest) = {}
  BY <1>1, <1>3, <1>5, <1>7 DEF Neat, Apart
<1>. HIDE DEF rest, cats, w
<1>9. /\ w.cats = cats /\ w.name = t.name /\ w.made = t.made
      /\ w.content = [t.content EXCEPT ![c] = rest]
      /\ w.pCat = [t.pCat EXCEPT ![a] = Nothing] /\ w.category = t.category
  BY <1>1, <1>2 DEF Trees
<1>10. w \in Trees
  <2>1. w = [cats |-> w.cats, name |-> w.name, content |-> w.content,
             category |-> w.category, pCat |-> w.pCat, made |-> w.made]
    BY <1>2, <1>1 DEF Trees
  <2>2. /\ w.cats \in Seq(Categories) /\ w.name \in [Categories -> Texts] /\ w.made \in SUBSET Macros
        /\ w.content \in [Categories -> Seq(Macros)]
    BY <1>1, <1>4, <1>8, <1>9 DEF Trees
  <2>3. w.pCat \in [Macros -> Categories \union {Nothing}] /\ w.category \in [Macros -> Texts]
    BY <1>1, <1>9 DEF Trees
  <2>. QED
    BY <2>1, <2>2, <2>3 DEF Trees
<1>11. /\ w.content[c] = rest /\ ListedIn(w, c) = ListedIn(t, c) \ {a}
       /\ \A d \in ToSet(t.cats) \ {c} : w.content[d] = t.content[d] /\ ListedIn(w, d) = ListedIn(t, d)
  BY <1>1, <1>4, <1>9 DEF Trees, ListedIn
<1>12. /\ w.pCat[a] = Nothing
       /\ \A b \in Macros \ {a} : w.pCat[b] = t.pCat[b]
  BY <1>1, <1>9 DEF Trees
<1>13. \A d \in ToSet(t.cats) : \A b \in ListedIn(t, d) : b \in Macros /\ t.pCat[b] = d
  BY <1>1, InCategories DEF Neat, Apart
<1>14. \A d \in ToSet(w.cats) : \A b \in ListedIn(w, d) : w.pCat[b] = d
  BY <1>8, <1>9, <1>11, <1>12, <1>13
<1>15. \A d \in ToSet(w.cats) : IsInjective(w.content[d])
  BY <1>4, <1>8, <1>9, <1>11 DEF Neat, Apart
<1>16. Apart(w)
  BY <1>8, <1>9, <1>10, <1>12, <1>14, <1>15 DEF Neat, Apart
<1>17. \A d \in ToSet(w.cats) : \E b \in Macros : w.pCat[b] = d
  <2>1. ASSUME NEW d \in ToSet(t.cats), d # c  PROVE \E b \in Macros : w.pCat[b] = d
    <3>1. PICK b \in Macros : t.pCat[b] = d
      BY <2>1 DEF Neat
    <3>2. w.pCat[b] = d
      BY <1>12, <2>1, <3>1
    <3>. QED
      BY <3>2
  <2>2. ASSUME c \in ToSet(w.cats)  PROVE \E b \in Macros : w.pCat[b] = c
    <3>1. PICK b \in Macros : b \in ToSet(rest)
      BY <1>6, <1>8, <1>9, <2>2
    <3>2. w.pCat[b] = c
      BY <1>4, <1>11, <1>14, <2>2, <3>1
    <3>. QED
      BY <3>2
  <2>. QED
    BY <1>8, <1>9, <2>1, <2>2
<1>18. Listed(w) = Listed(t) \ {a}
  <2>1. \A d \in ToSet(t.cats) \ {c} : a \notin ListedIn(t, d)
    BY <1>13
  <2>2. \A b : b \in Listed(w) <=> b \in Listed(t) /\ b # a
    BY <1>4, <1>8, <1>9, <1>11, <2>1 DEF Listed
  <2>. QED
    BY <2>2
<1>19. \A b \in Listed(w) : NameOf(w, b) = NameOf(t, b)
  BY <1>1, <1>9, <1>12, <1>18, InCategories DEF NameOf
<1>. QED
  BY <1>9, <1>12, <1>16, <1>17, <1>18, <1>19 DEF Parted, Neat, w

-----------------------------------------------------------------------------
(* The operations.                                                         *)

(* The category of a macro is edited, or the macro is made, before the     *)
(* tree follows.                                                           *)
Retitled(t, w, made) ==
  /\ Neat(w) /\ w.made = made /\ w.cats = t.cats /\ w.pCat = t.pCat
  /\ Listed(w) = Listed(t) /\ \A b : NameOf(w, b) = NameOf(t, b)

LEMMA RetitledEffect ==
  ASSUME NEW t, Neat(t), NEW a \in Macros, NEW text \in Texts
  PROVE  /\ Retitled(t, [t EXCEPT !.category[a] = text], t.made)
         /\ Retitled(t, [t EXCEPT !.made = @ \union {a}, !.category[a] = text], t.made \union {a})
<1>1. t \in Trees
  BY DEF Neat, Apart
<1>2. ASSUME NEW M \in SUBSET Macros, t.made \subseteq M, NEW w,
             w = [t EXCEPT !.made = M, !.category[a] = text]
      PROVE  Retitled(t, w, M)
  <2>1. /\ w.cats = t.cats /\ w.name = t.name /\ w.content = t.content /\ w.pCat = t.pCat
        /\ w.made = M /\ w.category = [t.category EXCEPT ![a] = text]
    BY <1>1, <1>2 DEF Trees
  <2>2. w = [cats |-> w.cats, name |-> w.name, content |-> w.content,
             category |-> w.category, pCat |-> w.pCat, made |-> w.made]
    BY <1>1, <1>2 DEF Trees
  <2>3. w \in Trees
    BY <1>1, <2>1, <2>2 DEF Trees
  <2>4. Listed(w) = Listed(t) /\ \A b : NameOf(w, b) = NameOf(t, b)
    BY <2>1 DEF Listed, ListedIn, NameOf
  <2>5. \A d : ListedIn(w, d) = ListedIn(t, d)
    BY <2>1 DEF ListedIn
  <2>6. Neat(w)
    BY <1>2, <2>1, <2>3, <2>5 DEF Neat, Apart
  <2>. QED
    BY <2>1, <2>4, <2>6 DEF Retitled
<1>3. [t EXCEPT !.category[a] = text] = [t EXCEPT !.made = t.made, !.category[a] = text]
  BY <1>1 DEF Trees
<1>4. [t EXCEPT !.made = @ \union {a}, !.category[a] = text]
        = [t EXCEPT !.made = t.made \union {a}, !.category[a] = text]
  BY <1>1 DEF Trees
<1>5. t.made \in SUBSET Macros
  BY <1>1 DEF Trees
<1>. QED
  BY <1>2, <1>3, <1>4, <1>5, Zenon

LEMMA NewEffect ==
  ASSUME NEW t, Neat(t), NEW a \in Macros \ t.made
  PROVE  Neat(newMacro(t, a)) /\ Placed(t, newMacro(t, a), a, Other)
<1>. DEFINE u == [t EXCEPT !.made = @ \union {a}, !.category[a] = Other]
            w == newMacro(t, a)
<1>1. Retitled(t, u, t.made \union {a}) /\ t.pCat[a] = Nothing
  BY RetitledEffect, MacroAssumption, Zenon DEF Neat, Apart
<1>2. w = Joined(u, a, Other)
  BY DEF newMacro
<1>. HIDE DEF u, w
<1>3. Neat(u) /\ a \in u.made /\ u.pCat[a] = Nothing
  BY <1>1 DEF Retitled
<1>4. Neat(w) /\ Placed(u, w, a, Other)
  BY <1>2, <1>3, JoinedEffect, MacroAssumption
<1>5. Placed(t, w, a, Other)
  BY <1>1, <1>4 DEF Retitled, Placed
<1>. QED
  BY <1>4, <1>5 DEF w

(* changed: the macro is where it was, its category has its name, or it is *)
(* in the one of that name; the other macros keep the names they are under *)
(* when the macro is still listed.                                         *)
Moved(t, w, a) ==
  /\ Neat(w) /\ w.made = t.made /\ w.pCat[a] \in ToSet(w.cats)
  /\ a \in Listed(t) => Placed(t, w, a, t.category[a])

LEMMA ChangedEffect ==
  ASSUME NEW t, Neat(t), NEW a \in t.made, t.pCat[a] \in ToSet(t.cats)
  PROVE  Moved(t, Changed(t, a), a)
<1>. DEFINE c == t.pCat[a]
            w == Changed(t, a)
<1>1. /\ t \in Trees /\ a \in Macros /\ c \in ToSet(t.cats)
      /\ ToSet(t.cats) \subseteq Categories /\ t.category[a] \in Texts
  BY InCategories DEF Neat, Apart, Trees
<1>2. CASE Settled(t, a)
  <2>1. w = t
    BY <1>2 DEF Changed
  <2>. HIDE DEF w
  <2>2. a \in Listed(t) => Placed(t, t, a, t.category[a])
    BY <1>1, <1>2 DEF Placed, NameOf, Settled
  <2>. QED
    BY <1>1, <2>1, <2>2 DEF Moved, w
<1>3. CASE ~Settled(t, a) /\ Alone(t, a)
  <2>1. w = [t EXCEPT !.name[c] = t.category[a]]
    BY <1>3 DEF Changed
  <2>. HIDE DEF w
  <2>2. /\ w.cats = t.cats /\ w.content = t.content /\ w.pCat = t.pCat /\ w.made = t.made
        /\ w.category = t.category /\ w.name = [t.name EXCEPT ![c] = t.category[a]]
    BY <1>1, <2>1 DEF Trees
  <2>3. w = [cats |-> w.cats, name |-> w.name, content |-> w.content,
             category |-> w.category, pCat |-> w.pCat, made |-> w.made]
    BY <1>1, <2>1 DEF Trees
  <2>4. w \in Trees
    BY <1>1, <2>2, <2>3 DEF Trees
  <2>5. /\ w.name[c] = t.category[a] /\ \A d \in ToSet(t.cats) \ {c} : w.name[d] = t.name[d]
        /\ \A d \in ToSet(t.cats) : t.name[d] # t.category[a]
    BY <1>1, <1>3, <2>2 DEF Trees, Alone, Named
  <2>6. (\A d : ListedIn(w, d) = ListedIn(t, d)) /\ Listed(w) = Listed(t)
    BY <2>2 DEF ListedIn, Listed
  <2>7. Neat(w)
    BY <1>1, <2>2, <2>4, <2>5, <2>6 DEF Neat, Apart
  <2>8. ASSUME a \in Listed(t)  PROVE Placed(t, w, a, t.category[a])
    <3>1. \A d \in ToSet(t.cats) : \A b \in ListedIn(t, d) : t.pCat[b] = d
      BY DEF Neat, Apart
    <3>2. a \in ListedIn(t, c)
      BY <2>8, <3>1 DEF Listed
    <3>3. Len(t.content[c]) = 1 /\ t.content[c] \in Seq(Macros)
      BY <1>1, <1>3, InCategories DEF Alone
    <3>4. ListedIn(t, c) = {a}
      <4>1. DOMAIN t.content[c] = {1}
        BY <3>3
      <4>. QED
        BY <3>2, <4>1 DEF ListedIn, ToSet
    <3>5. \A b \in Listed(t) \ {a} : t.pCat[b] \in ToSet(t.cats) \ {c}
      BY <3>1, <3>4 DEF Listed
    <3>6. \A b \in Listed(t) \ {a} : NameOf(w, b) = NameOf(t, b)
      BY <2>2, <2>5, <3>5 DEF NameOf
    <3>. QED
      BY <1>1, <2>2, <2>5, <2>6, <2>8, <3>6 DEF Placed, NameOf
  <2>. QED
    BY <1>1, <2>2, <2>7, <2>8 DEF Moved, w
<1>4. CASE ~Settled(t, a) /\ ~Alone(t, a)
  <2>. DEFINE u == Left(t, a)
  <2>1. w = Joined(u, a, t.category[a])
    BY <1>4 DEF Changed
  <2>2. Parted(t, u, a)
    BY LeftEffect
  <2>. HIDE DEF u, w
  <2>3. Neat(u) /\ a \in u.made /\ u.pCat[a] = Nothing
    BY <2>2 DEF Parted
  <2>4. Neat(w) /\ Placed(u, w, a, t.category[a])
    BY <1>1, <2>1, <2>3, JoinedEffect
  <2>5. Placed(t, w, a, t.category[a])
    BY <2>2, <2>4 DEF Parted, Placed
  <2>. QED
    BY <2>4, <2>5 DEF Moved, Placed, w
<1>. QED
  BY <1>2, <1>3, <1>4

(* removeMacro: no category goes, and the macro keeps pointing to its own. *)
Dropped(t, w) == Neat(w) /\ w.made = t.made /\ w.cats = t.cats /\ w.pCat = t.pCat

LEMMA DroppedEffect ==
  ASSUME NEW t, Neat(t), NEW a \in t.made, t.pCat[a] \in ToSet(t.cats)
  PROVE  Dropped(t, [t EXCEPT !.content[t.pCat[a]] = Without(@, a)])
<1>. DEFINE c == t.pCat[a]
            rest == Without(t.content[c], a)
            w == [t EXCEPT !.content[t.pCat[a]] = Without(@, a)]
<1>1. t \in Trees /\ c \in ToSet(t.cats) /\ ToSet(t.cats) \subseteq Categories /\ t.content[c] \in Seq(Macros)
  BY InCategories DEF Neat, Apart
<1>2. rest \in Seq(Macros) /\ ToSet(rest) = ListedIn(t, c) \ {a} /\ IsInjective(rest)
  BY <1>1, WithoutEffect DEF Neat, Apart, ListedIn
<1>3. w = [t EXCEPT !.content[c] = rest]
  BY <1>1 DEF Trees
<1>. HIDE DEF rest, w
<1>4. /\ w.cats = t.cats /\ w.name = t.name /\ w.pCat = t.pCat /\ w.made = t.made
      /\ w.category = t.category /\ w.content = [t.content EXCEPT ![c] = rest]
  BY <1>1, <1>3 DEF Trees
<1>5. w = [cats |-> w.cats, name |-> w.name, content |-> w.content,
           category |-> w.category, pCat |-> w.pCat, made |-> w.made]
  BY <1>1, <1>3 DEF Trees
<1>6. w.content \in [Categories -> Seq(Macros)]
  BY <1>1, <1>2, <1>4 DEF Trees
<1>7. w \in Trees
  BY <1>1, <1>4, <1>5, <1>6 DEF Trees
<1>8. /\ w.content[c] = rest /\ ListedIn(w, c) = ListedIn(t, c) \ {a}
      /\ \A d \in ToSet(t.cats) \ {c} : w.content[d] = t.content[d] /\ ListedIn(w, d) = ListedIn(t, d)
  BY <1>1, <1>2, <1>4 DEF Trees, ListedIn
<1>9. Neat(w)
  BY <1>1, <1>2, <1>4, <1>7, <1>8 DEF Neat, Apart
<1>. QED
  BY <1>4, <1>9 DEF Dropped, w

-----------------------------------------------------------------------------
(* The file.                                                               *)

Lines == [id : Macros, cat : Texts]

(* A file names no macro twice.                                            *)
Readable(f) ==
  f \in Seq(Lines) /\ \A i, j \in 1..Len(f) : f[i].id = f[j].id => i = j

(* The tree lists what the file names, under the names it gives.           *)
ShowsOf(t, f, s) ==
  LET ids == {f[i].id : i \in s}
  IN  /\ Neat(t) /\ t.made = ids /\ Listed(t) = ids
      /\ \A i \in s : NameOf(t, f[i].id) = f[i].cat

ReadOne(t, e) == Changed([newMacro(t, e.id) EXCEPT !.category[e.id] = e.cat], e.id)

LEMMA ReadOneEffect ==
  ASSUME NEW t, Neat(t), NEW e \in Lines, e.id \notin t.made
  PROVE  Neat(ReadOne(t, e)) /\ Placed(t, ReadOne(t, e), e.id, e.cat)
<1>. DEFINE a == e.id
            v == newMacro(t, a)
            u == [v EXCEPT !.category[a] = e.cat]
            w == ReadOne(t, e)
<1>1. a \in Macros \ t.made /\ e.cat \in Texts
  BY DEF Lines
<1>2. Neat(v) /\ Placed(t, v, a, Other)
  BY <1>1, NewEffect
<1>3. w = Changed(u, a)
  BY DEF ReadOne
<1>. HIDE DEF v
<1>4. Retitled(v, u, v.made)
  BY <1>1, <1>2, RetitledEffect, Zenon
<1>5. u.category[a] = e.cat
  BY <1>1, <1>2 DEF Neat, Apart, Trees
<1>. HIDE DEF u, w
<1>6. Neat(u) /\ a \in u.made /\ u.pCat[a] \in ToSet(u.cats) /\ a \in Listed(u)
  BY <1>2, <1>4 DEF Retitled, Placed
<1>7. Moved(u, w, a)
  BY <1>3, <1>6, ChangedEffect
<1>8. Placed(u, w, a, e.cat)
  BY <1>5, <1>6, <1>7 DEF Moved
<1>9. Placed(t, w, a, e.cat)
  BY <1>2, <1>4, <1>8 DEF Placed, Retitled
<1>. QED
  BY <1>7, <1>9 DEF Moved, w, a

LEMMA NothingRead == ASSUME NEW f PROVE ShowsOf(NoMacros, f, {})
<1>1. /\ NoMacros.cats = <<>> /\ NoMacros.made = {} /\ NoMacros \in Trees
      /\ NoMacros.pCat = [a \in Macros |-> Nothing]
  BY MacroAssumption DEF NoMacros, Trees
<1>2. ToSet(NoMacros.cats) = {} /\ IsInjective(NoMacros.cats)
  BY <1>1 DEF ToSet, IsInjective
<1>. QED
  BY <1>1, <1>2 DEF ShowsOf, Listed, Neat, Apart

(* By induction over the entries, whatever is read first.                  *)
LEMMA ReadSome ==
  ASSUME NEW f, Readable(f), NEW g, g[{}] = NoMacros,
         \A s \in SUBSET (1..Len(f)) : s # {} /\ ShowsOf(g[s \ {Max(s)}], f, s \ {Max(s)}) =>
            g[s] = ReadOne(g[s \ {Max(s)}], f[Max(s)])
  PROVE  \A s \in SUBSET (1..Len(f)) : ShowsOf(g[s], f, s)
<1>. DEFINE N == Len(f)
            Good(k) == \A s \in SUBSET (1..k) : ShowsOf(g[s], f, s)
            K == {k \in Nat : k =< N => Good(k)}
<1>1. N \in Nat /\ \A i \in 1..N : f[i] \in Lines
  BY DEF Readable
<1>2. Good(0)
  <2>1. SUBSET (1..0) = {{}}
    OBVIOUS
  <2>. QED
    BY <2>1, NothingRead
<1>3. ASSUME NEW k \in Nat, k + 1 =< N, Good(k), NEW s \in SUBSET (1..(k + 1))
      PROVE  ShowsOf(g[s], f, s)
  <2>1. CASE k + 1 \notin s
    BY <1>3, <2>1, MaxOfIndices
  <2>2. CASE k + 1 \in s
    <3>. DEFINE r == s \ {k + 1}
                e == f[k + 1]
    <3>1. Max(s) = k + 1 /\ r \in SUBSET (1..k)
      BY <1>3, <2>2, MaxOfIndices
    <3>2. ShowsOf(g[r], f, r)
      BY <1>3, <3>1
    <3>3. s \in SUBSET (1..N) /\ s # {} /\ k + 1 \in 1..N
      BY <1>1, <1>3, <2>2
    <3>4. g[s] = ReadOne(g[r], e)
      BY <3>1, <3>2, <3>3
    <3>5. e \in Lines /\ \A i \in r : i \in 1..N /\ i # k + 1
      BY <1>1, <3>3
    <3>6. e.id \notin {f[i].id : i \in r}
      BY <3>3, <3>5 DEF Readable
    <3>. HIDE DEF e
    <3>7. Neat(g[s]) /\ Placed(g[r], g[s], e.id, e.cat)
      <4>1. Neat(g[r]) /\ e.id \notin g[r].made
        BY <3>2, <3>6 DEF ShowsOf
      <4>. HIDE DEF r
      <4>. QED
        BY <3>4, <3>5, <4>1, ReadOneEffect
    <3>8. {f[i].id : i \in s} = {f[i].id : i \in r} \cup {e.id}
      BY <2>2 DEF e
    <3>9. \A i \in s : NameOf(g[s], f[i].id) = f[i].cat
      <4>1. NameOf(g[s], e.id) = e.cat
        BY <3>7 DEF Placed
      <4>2. ASSUME NEW i \in r  PROVE NameOf(g[s], f[i].id) = f[i].cat
        <5>1. f[i].id # e.id /\ f[i].id \in Listed(g[r]) /\ NameOf(g[r], f[i].id) = f[i].cat
          BY <3>2, <3>6 DEF ShowsOf
        <5>. QED
          BY <3>7, <5>1 DEF Placed
      <4>. QED
        BY <4>1, <4>2 DEF e
    <3>. QED
      BY <3>2, <3>7, <3>8, <3>9 DEF ShowsOf, Placed
  <2>. QED
    BY <2>1, <2>2
<1>. HIDE DEF Good
<1>4. ASSUME NEW k \in Nat, k \in K  PROVE k + 1 \in K
  <2>1. k + 1 =< N => k =< N
    BY <1>1
  <2>2. k + 1 =< N => Good(k + 1)
    BY <1>3, <1>4, <2>1 DEF Good
  <2>. QED
    BY <2>2
<1>5. Nat \subseteq K
  <2>1. 0 \in K
    BY <1>2
  <2>. HIDE DEF K
  <2>. QED
    BY <1>4, <2>1, Induction
<1>6. Good(N)
  BY <1>1, <1>5
<1>. QED
  BY <1>6 DEF Good

LEMMA ReadEffect ==
  ASSUME NEW f, Readable(f)
  PROVE  ShowsOf(Read(f), f, 1..Len(f))
<1>. DEFINE N == Len(f)
            D == {t \in Trees : Neat(t)}
            OneOf(t, e) == IF e.id \notin t.made THEN ReadOne(t, e) ELSE t
            step == [i \in 1..N |-> [t \in D |-> OneOf(t, f[i])]]
            Folds(g) == g = [s \in SUBSET (DOMAIN f) |->
                               IF s = {} THEN NoMacros ELSE ReadOne(g[s \ {Max(s)}], f[Max(s)])]
            h == CHOOSE g : Folds(g)
<1>1. N \in Nat /\ DOMAIN f = 1..N /\ \A i \in 1..N : f[i] \in Lines
  BY DEF Readable
<1>2. Read(f) = h[DOMAIN f]
  BY DEF Read, FoldLeft, MapThenFoldSet, ReadOne
<1>3. NoMacros \in D /\ step \in [1..N -> [D -> D]]
  <2>1. NoMacros \in D
    BY NothingRead DEF ShowsOf, Neat, Apart
  <2>2. ASSUME NEW i \in 1..N, NEW t \in D  PROVE OneOf(t, f[i]) \in D
    <3>1. f[i].id \notin t.made => Neat(ReadOne(t, f[i]))
      BY <1>1, ReadOneEffect
    <3>. QED
      BY <3>1 DEF Neat, Apart
  <2>. HIDE DEF OneOf, D
  <2>. QED
    BY <2>1, <2>2
<1>4. Folds(h)
  <2>1. PICK g \in [SUBSET (1..N) -> D] : IsFold(g, N, NoMacros, step)
    <3>. HIDE DEF N, step, D
    <3>. QED
      BY <1>1, <1>3, FoldExists
  <2>2. \A s \in SUBSET (1..N) : s # {} =>
          /\ Max(s) \in 1..N /\ g[s \ {Max(s)}] \in D
          /\ g[s] = OneOf(g[s \ {Max(s)}], f[Max(s)])
    <3>1. \A s \in SUBSET (1..N) : s # {} => Max(s) \in 1..N /\ g[s \ {Max(s)}] \in D
      BY <1>1, <2>1, MaxIsMember
    <3>2. \A s \in SUBSET (1..N) : s # {} => g[s] = step[Max(s)][g[s \ {Max(s)}]]
      BY <2>1 DEF IsFold
    <3>. HIDE DEF OneOf, D
    <3>. QED
      BY <3>1, <3>2
  <2>3. \A s \in SUBSET (1..N) : s # {} =>
          f[Max(s)].id \notin {f[i].id : i \in s \ {Max(s)}}
    <3>. SUFFICES ASSUME NEW s \in SUBSET (1..N), s # {}
                  PROVE  f[Max(s)].id \notin {f[i].id : i \in s \ {Max(s)}}
      OBVIOUS
    <3>1. Max(s) \in 1..N
      BY <1>1, MaxIsMember
    <3>. QED
      BY <3>1 DEF Readable
  <2>4. g[{}] = NoMacros
    BY <2>1 DEF IsFold
  <2>5. \A s \in SUBSET (1..N) : s # {} /\ ShowsOf(g[s \ {Max(s)}], f, s \ {Max(s)}) =>
            g[s] = ReadOne(g[s \ {Max(s)}], f[Max(s)])
    BY <2>2, <2>3 DEF ShowsOf
  <2>6. \A s \in SUBSET (1..N) : ShowsOf(g[s], f, s)
    BY <2>4, <2>5, ReadSome
  <2>7. \A s \in SUBSET (1..N) : s # {} => s \ {Max(s)} \in SUBSET (1..N)
    OBVIOUS
  <2>8. \A s \in SUBSET (1..N) :
           g[s] = IF s = {} THEN NoMacros ELSE ReadOne(g[s \ {Max(s)}], f[Max(s)])
    BY <2>4, <2>5, <2>6, <2>7
  <2>9. g = [s \in SUBSET (1..N) |-> g[s]]
    OBVIOUS
  <2>10. Folds(g)
    BY <1>1, <2>8, <2>9, Zenon
  <2>. HIDE DEF Folds
  <2>. QED
    BY <2>10
<1>5. \A s \in SUBSET (1..N) :
         h[s] = IF s = {} THEN NoMacros ELSE ReadOne(h[s \ {Max(s)}], f[Max(s)])
  <2>. HIDE DEF h
  <2>. QED
    BY <1>1, <1>4, Zenon
<1>. HIDE DEF h, Folds
<1>6. h[{}] = NoMacros
  BY <1>5
<1>7. \A s \in SUBSET (1..N) : ShowsOf(h[s], f, s)
  BY <1>5, <1>6, ReadSome
<1>. QED
  BY <1>1, <1>2, <1>7

(* The file names what is listed, each macro once.                         *)
LEMMA WrittenEffect ==
  ASSUME NEW t, Neat(t)
  PROVE  /\ Readable(Written(t))
         /\ ToSet(Written(t)) = {[id |-> a, cat |-> NameOf(t, a)] : a \in Listed(t)}
<1>. DEFINE M == Len(t.cats)
            C(i) == t.content[t.cats[i]]
            ss == [i \in DOMAIN t.cats |->
                     [j \in DOMAIN t.content[t.cats[i]] |-> Entry(t, t.cats[i], t.content[t.cats[i]][j])]]
            E(a) == [id |-> a, cat |-> NameOf(t, a)]
<1>1. t \in Trees /\ M \in Nat /\ DOMAIN t.cats = 1..M /\ t.cats \in Seq(Categories)
  BY DEF Neat, Apart, Trees
<1>2. \A i \in 1..M : /\ t.cats[i] \in ToSet(t.cats) /\ t.cats[i] \in Categories
                      /\ C(i) \in Seq(Macros) /\ IsInjective(C(i)) /\ t.name[t.cats[i]] \in Texts
                      /\ \A a \in ToSet(C(i)) : a \in Macros /\ t.pCat[a] = t.cats[i]
  <2>1. \A i \in 1..M : t.cats[i] \in ToSet(t.cats)
    BY <1>1 DEF ToSet
  <2>. QED
    BY <1>1, <2>1, InCategories DEF Neat, Apart, ListedIn, Trees
<1>3. ASSUME NEW i \in 1..M
      PROVE  /\ ss[i] \in Seq(Lines) /\ ToSet(ss[i]) = {E(a) : a \in ToSet(C(i))}
             /\ IsInjective(ss[i])
  <2>1. /\ Len(C(i)) \in Nat /\ DOMAIN C(i) = 1..Len(C(i))
        /\ \A j \in 1..Len(C(i)) : C(i)[j] \in ToSet(C(i))
    BY <1>2 DEF ToSet
  <2>2. ss[i] = [j \in 1..Len(C(i)) |-> Entry(t, t.cats[i], C(i)[j])]
    BY <1>1, <2>1
  <2>3. \A j \in 1..Len(C(i)) : Entry(t, t.cats[i], C(i)[j]) = E(C(i)[j]) /\ E(C(i)[j]) \in Lines
    BY <1>2, <2>1, Zenon DEF Entry, NameOf, Lines
  <2>. HIDE DEF ss, C
  <2>5. DOMAIN ss[i] = 1..Len(C(i)) /\ \A j \in 1..Len(C(i)) : ss[i][j] = E(C(i)[j])
    BY <2>2, <2>3
  <2>4. ss[i] \in Seq(Lines)
    <3>1. \A j \in 1..Len(C(i)) : Entry(t, t.cats[i], C(i)[j]) \in Lines
      BY <2>3
    <3>. DEFINE n == Len(C(i))
    <3>2. ss[i] \in [1..n -> Lines] /\ n \in Nat
      BY <2>1, <2>2, <3>1
    <3>. HIDE DEF n
    <3>. QED
      BY <3>2
  <2>6. ToSet(ss[i]) = {E(a) : a \in ToSet(C(i))}
    BY <2>1, <2>5 DEF ToSet
  <2>7. IsInjective(C(i))
    BY <1>2
  <2>8. IsInjective(ss[i])
    <3>1. \A a, b : E(a) = E(b) => a = b
      OBVIOUS
    <3>2. \A j, k \in 1..Len(C(i)) : C(i)[j] = C(i)[k] => j = k
      BY <2>1, <2>7 DEF IsInjective
    <3>. HIDE DEF E
    <3>3. \A j, k \in 1..Len(C(i)) : ss[i][j] = ss[i][k] => j = k
      BY <2>5, <3>1, <3>2
    <3>. QED
      BY <2>5, <3>3 DEF IsInjective
  <2>. QED
    BY <2>4, <2>6, <2>8
<1>4. Written(t) = FlattenSeq(ss)
  BY DEF Written
<1>5. ss \in Seq(Seq(Lines)) /\ Len(ss) = M
  <2>1. DOMAIN ss = 1..M /\ \A i \in 1..M : ss[i] \in Seq(Lines)
    BY <1>1, <1>3
  <2>2. ss = [i \in 1..M |-> ss[i]]
    BY <1>1
  <2>. HIDE DEF ss
  <2>. QED
    BY <1>1, <2>1, <2>2
<1>6. \A i, j \in 1..M : i # j => ToSet(ss[i]) \cap ToSet(ss[j]) = {}
  <2>1. \A i, j \in 1..M : i # j => t.cats[i] # t.cats[j]
    BY <1>1 DEF Neat, Apart, IsInjective
  <2>2. \A i, j \in 1..M : i # j => ToSet(C(i)) \cap ToSet(C(j)) = {}
    <3>. SUFFICES ASSUME NEW i \in 1..M, NEW j \in 1..M, i # j,
                         NEW a, a \in ToSet(C(i)), a \in ToSet(C(j))
                  PROVE  FALSE
      OBVIOUS
    <3>1. t.pCat[a] = t.cats[i] /\ t.pCat[a] = t.cats[j]
      BY <1>2
    <3>. QED
      BY <2>1, <3>1
  <2>. SUFFICES ASSUME NEW i \in 1..M, NEW j \in 1..M, i # j,
                       NEW e, e \in ToSet(ss[i]), e \in ToSet(ss[j])
                PROVE  FALSE
    OBVIOUS
  <2>. HIDE DEF ss, C
  <2>3. PICK a \in ToSet(C(i)) : e = E(a)
    BY <1>3
  <2>4. PICK b \in ToSet(C(j)) : e = E(b)
    BY <1>3
  <2>5. a = b
    BY <2>3, <2>4
  <2>. QED
    BY <2>2, <2>5
<1>7. \A i \in 1..M : IsInjective(ss[i])
  BY <1>3
<1>. HIDE DEF ss, M, C
<1>8. /\ Written(t) \in Seq(Lines) /\ IsInjective(Written(t))
      /\ ToSet(Written(t)) = UNION {ToSet(ss[i]) : i \in 1..M}
  BY <1>4, <1>5, <1>6, <1>7, FlattenEffect
<1>9. Listed(t) = UNION {ToSet(C(i)) : i \in 1..M}
  <2>1. ToSet(t.cats) = {t.cats[i] : i \in 1..M}
    BY <1>1 DEF ToSet
  <2>2. \A a : a \in Listed(t) <=> \E i \in 1..M : a \in ToSet(t.content[t.cats[i]])
    BY <2>1 DEF Listed, ListedIn
  <2>. QED
    BY <2>2 DEF C
<1>10. ToSet(Written(t)) = {E(a) : a \in Listed(t)}
  BY <1>3, <1>8, <1>9
<1>11. ASSUME NEW i \in 1..Len(Written(t)), NEW j \in 1..Len(Written(t)),
              Written(t)[i].id = Written(t)[j].id
       PROVE  i = j
  <2>1. DOMAIN Written(t) = 1..Len(Written(t))
    BY <1>8
  <2>2. Written(t)[i] \in ToSet(Written(t)) /\ Written(t)[j] \in ToSet(Written(t))
    BY <2>1 DEF ToSet
  <2>3. Written(t)[i] = Written(t)[j]
    BY <1>10, <1>11, <2>2
  <2>. QED
    BY <1>8, <2>1, <2>3 DEF IsInjective
<1>. QED
  BY <1>8, <1>10, <1>11 DEF Readable

(* What is grouped depends on the listed macros and their names only.      *)
LEMMA GroupsOfNames ==
  ASSUME NEW t, Neat(t)
  PROVE  Groups(t) = [text \in {NameOf(t, a) : a \in Listed(t)} |->
                        {a \in Listed(t) : NameOf(t, a) = text}]
<1>. DEFINE N1 == {t.name[c] : c \in {d \in ToSet(t.cats) : t.content[d] # <<>>}}
            N2 == {NameOf(t, a) : a \in Listed(t)}
<1>1. \A c \in ToSet(t.cats) : t.content[c] \in Seq(Macros) /\ \A a \in ListedIn(t, c) : t.pCat[a] = c
  BY InCategories DEF Neat, Apart
<1>2. \A c \in ToSet(t.cats) : t.content[c] # <<>> <=> \E a : a \in ListedIn(t, c)
  <2>. SUFFICES ASSUME NEW c \in ToSet(t.cats)
                PROVE  t.content[c] # <<>> <=> \E a : a \in ListedIn(t, c)
    OBVIOUS
  <2>1. t.content[c] # <<>> => 1 \in DOMAIN t.content[c]
    BY <1>1
  <2>2. t.content[c] = <<>> => ListedIn(t, c) = {}
    BY DEF ListedIn, ToSet
  <2>. QED
    BY <2>1, <2>2 DEF ListedIn, ToSet
<1>3. N1 = N2
  <2>1. ASSUME NEW c \in ToSet(t.cats), t.content[c] # <<>>  PROVE t.name[c] \in N2
    <3>1. PICK a \in ListedIn(t, c) : TRUE
      BY <1>2, <2>1
    <3>. QED
      BY <1>1, <2>1, <3>1 DEF Listed, NameOf
  <2>2. ASSUME NEW a \in Listed(t)  PROVE NameOf(t, a) \in N1
    <3>1. PICK c \in ToSet(t.cats) : a \in ListedIn(t, c)
      BY DEF Listed
    <3>. QED
      BY <1>1, <1>2, <3>1 DEF NameOf
  <2>. QED
    BY <2>1, <2>2
<1>4. ASSUME NEW text
      PROVE  UNION {ListedIn(t, c) : c \in Named(t, text)} = {a \in Listed(t) : NameOf(t, a) = text}
  BY <1>1 DEF Named, Listed, NameOf
<1>5. Groups(t) = [text \in N1 |-> UNION {ListedIn(t, c) : c \in Named(t, text)}]
  BY DEF Groups
<1>. HIDE DEF N1, N2
<1>6. Groups(t) = [text \in N2 |-> {a \in Listed(t) : NameOf(t, a) = text}]
  BY <1>3, <1>4, <1>5, Zenon
<1>. QED
  BY <1>6 DEF N2

(* What is written is read again in the same groups.                       *)
LEMMA ReadsBack ==
  ASSUME NEW t, Neat(t)
  PROVE  Groups(Read(Written(t))) = Groups(t)
<1>. DEFINE f == Written(t)
            w == Read(f)
<1>1. Readable(f) /\ ToSet(f) = {[id |-> a, cat |-> NameOf(t, a)] : a \in Listed(t)}
  BY WrittenEffect
<1>2. ShowsOf(w, f, 1..Len(f))
  BY <1>1, ReadEffect
<1>3. DOMAIN f = 1..Len(f)
  BY <1>1 DEF Readable
<1>. HIDE DEF f, w
<1>4. Neat(w) /\ Listed(w) = Listed(t) /\ \A a \in Listed(t) : NameOf(w, a) = NameOf(t, a)
  <2>1. \A i \in 1..Len(f) : f[i].id \in Listed(t) /\ f[i].cat = NameOf(t, f[i].id)
    BY <1>1, <1>3 DEF ToSet
  <2>2. ASSUME NEW a \in Listed(t)  PROVE \E i \in 1..Len(f) : f[i].id = a
    <3>1. [id |-> a, cat |-> NameOf(t, a)] \in ToSet(f)
      BY <1>1
    <3>2. PICK i \in DOMAIN f : f[i] = [id |-> a, cat |-> NameOf(t, a)]
      BY <3>1 DEF ToSet
    <3>. QED
      BY <1>3, <3>2
  <2>3. Listed(w) = {f[i].id : i \in 1..Len(f)}
    BY <1>2 DEF ShowsOf
  <2>4. Listed(w) = Listed(t)
    BY <2>1, <2>2, <2>3
  <2>5. ASSUME NEW a \in Listed(t)  PROVE NameOf(w, a) = NameOf(t, a)
    <3>1. PICK i \in 1..Len(f) : f[i].id = a
      BY <2>2
    <3>. QED
      BY <1>2, <2>1, <3>1 DEF ShowsOf
  <2>. QED
    BY <1>2, <2>4, <2>5 DEF ShowsOf
<1>5. /\ {NameOf(w, a) : a \in Listed(w)} = {NameOf(t, a) : a \in Listed(t)}
      /\ \A text : {a \in Listed(w) : NameOf(w, a) = text} = {a \in Listed(t) : NameOf(t, a) = text}
  BY <1>4
<1>6. Groups(w) = Groups(t)
  BY <1>4, <1>5, GroupsOfNames, Zenon
<1>. QED
  BY <1>6 DEF w, f

-----------------------------------------------------------------------------
(* The invariant: the tree is neat, the file can be read, and the macro in *)
(* the form, removed or not, points to a category that is there: the form  *)
(* never reaches a deleted one.                                            *)
MacroInv ==
  /\ Neat(tree) /\ Readable(file)
  /\ picked => current \in tree.made /\ tree.pCat[current] \in ToSet(tree.cats)

LEMMA MacroStart == MacroInit => MacroInv
  BY NothingRead DEF MacroInit, MacroInv, ShowsOf, Readable

LEMMA InTheForm ==
  ASSUME NEW t, Neat(t), NEW a, t.pCat[a] \in ToSet(t.cats), a \in Macros
  PROVE  a \in t.made
<1>1. t.pCat[a] \in Categories
  BY InCategories DEF Neat, Apart
<1>. QED
  BY <1>1, MacroAssumption DEF Neat, Apart

LEMMA Edited ==
  ASSUME MacroInv, addMacro \/ setCurrent \/ (picked /\ (EditMacro \/ removeMacro))
  PROVE  MacroInv'
<1>1. CASE addMacro
  <2>1. PICK a \in Macros \ tree.made : tree' = newMacro(tree, a) /\ current' = a /\ file' = file
    BY <1>1 DEF addMacro
  <2>2. Neat(tree') /\ Placed(tree, tree', a, Other)
    BY <2>1, NewEffect DEF MacroInv
  <2>. QED
    BY <2>1, <2>2 DEF MacroInv, Placed
<1>2. CASE setCurrent
  <2>1. PICK c \in ToSet(tree.cats) : \E a \in ListedIn(tree, c) :
          current' = a /\ tree' \in {tree, Changed(tree, a)} /\ file' = file
    BY <1>2 DEF setCurrent
  <2>. DEFINE a == current'
  <2>2. a \in Macros /\ tree.pCat[a] \in ToSet(tree.cats)
    BY <2>1, InCategories DEF MacroInv, Neat, Apart
  <2>3. a \in tree.made
    BY <2>2, InTheForm DEF MacroInv
  <2>4. Moved(tree, Changed(tree, a), a)
    BY <2>2, <2>3, ChangedEffect DEF MacroInv
  <2>5. CASE tree' = tree
    BY <2>1, <2>2, <2>3, <2>5 DEF MacroInv
  <2>6. CASE tree' = Changed(tree, a)
    <3>1. Moved(tree, tree', a)
      BY <2>4, <2>6
    <3>. QED
      BY <2>1, <2>3, <3>1 DEF MacroInv, Moved
  <2>. QED
    BY <2>1, <2>5, <2>6
<1>3. CASE picked /\ EditMacro
  <2>1. PICK text \in Texts \union {tree.category[current]} :
          /\ tree' \in {tree, Changed([tree EXCEPT !.category[current] = text], current)}
          /\ UNCHANGED <<current, picked, file>>
    BY <1>3 DEF EditMacro
  <2>. DEFINE t == [tree EXCEPT !.category[current] = text]
  <2>2. current \in Macros /\ tree.category[current] \in Texts
    BY <1>3 DEF MacroInv, Neat, Apart, Trees
  <2>3. Retitled(tree, t, tree.made)
    BY <2>1, <2>2, RetitledEffect, Zenon DEF MacroInv
  <2>. HIDE DEF t
  <2>4. Neat(t) /\ current \in t.made /\ t.pCat[current] \in ToSet(t.cats)
    BY <1>3, <2>3 DEF MacroInv, Retitled
  <2>5. Moved(t, Changed(t, current), current)
    BY <2>4, ChangedEffect
  <2>6. CASE tree' = tree
    BY <1>3, <2>1, <2>6 DEF MacroInv
  <2>7. CASE tree' = Changed(t, current)
    <3>1. Moved(t, tree', current)
      BY <2>5, <2>7
    <3>. QED
      BY <2>1, <2>4, <3>1 DEF MacroInv, Moved
  <2>. QED
    BY <2>1, <2>6, <2>7 DEF t
<1>4. CASE picked /\ removeMacro
  <2>1. /\ tree' = [tree EXCEPT !.content[tree.pCat[current]] = Without(@, current)]
        /\ UNCHANGED <<current, picked, file>>
    BY <1>4 DEF removeMacro
  <2>2. Dropped(tree, tree')
    BY <1>4, <2>1, DroppedEffect DEF MacroInv
  <2>. QED
    BY <1>4, <2>1, <2>2 DEF MacroInv, Dropped
<1>. QED
  BY <1>1, <1>2, <1>3, <1>4

LEMMA WrittenToFile ==
  ASSUME MacroInv, saveMacros
  PROVE  MacroInv' /\ Groups(Read(file')) = Groups(tree)
<1>1. file' = Written(tree) /\ UNCHANGED <<tree, current, picked>>
  BY DEF saveMacros
<1>2. Readable(Written(tree)) /\ Groups(Read(Written(tree))) = Groups(tree)
  BY WrittenEffect, ReadsBack DEF MacroInv
<1>. QED
  BY <1>1, <1>2 DEF MacroInv

LEMMA ReadAgain ==
  ASSUME MacroInv, initMacros(file), picked' = FALSE, UNCHANGED file
  PROVE  MacroInv'
<1>1. tree' = Read(file)
  BY DEF initMacros
<1>2. ShowsOf(tree', file, 1..Len(file))
  BY <1>1, ReadEffect DEF MacroInv
<1>. QED
  BY <1>2 DEF MacroInv, ShowsOf

LEMMA NeatAgrees == MacroInv => MacrosAgree
<1>. SUFFICES ASSUME MacroInv PROVE MacrosAgree
  OBVIOUS
<1>1. Neat(tree) /\ DOMAIN tree.cats = 1..Len(tree.cats)
  BY DEF MacroInv, Neat, Apart, Trees
<1>2. \A i, j \in DOMAIN tree.cats : i # j =>
         tree.cats[i] # tree.cats[j] /\ tree.name[tree.cats[i]] # tree.name[tree.cats[j]]
  BY <1>1 DEF Neat, Apart, IsInjective, ToSet
<1>3. ASSUME NEW c \in ToSet(tree.cats)
      PROVE  /\ \A a \in ListedIn(tree, c) : tree.pCat[a] = c
             /\ Cardinality(ListedIn(tree, c)) = Len(tree.content[c])
  <2>1. tree.content[c] \in Seq(Macros) /\ IsInjective(tree.content[c])
    BY <1>1, InCategories DEF Neat, Apart
  <2>2. Cardinality(ToSet(tree.content[c])) = Len(tree.content[c])
    BY <2>1, LengthOfInjective
  <2>. QED
    BY <1>1, <2>2 DEF Neat, Apart, ListedIn
<1>. QED
  BY <1>2, <1>3 DEF MacrosAgree


-----------------------------------------------------------------------------
(* What EditsAreOffered rests on: the boxes are never being loaded while   *)
(* the user edits, so that every edit of the audio page is noticed; the    *)
(* hooks the program holds are the daemon's; and the box of the sound      *)
(* systems always shows the one in use.                                    *)
DialogTypes ==
  /\ manager \in 1..Managers
  /\ device \in [1..Managers -> 1..AudioDevices]
  /\ rowBox \in 1..AudioDevices

DialogInv ==
  /\ DialogTypes
  /\ loading = FALSE
  /\ hook = daemonHook
  /\ "audio" \in loaded => managerBox = manager
  /\ EditsAreOffered

LEMMA DialogStart == Init => DialogInv
  BY SettingsAssumption DEF Init, DialogInv, DialogTypes, EditsAreOffered

(* A page whose edit offers Apply owes nothing, and neither does any other *)
(* page meanwhile.                                                         *)
LEMMA Marked ==
  ASSUME DialogInv, NEW page, Mark(page), UNCHANGED <<limit, detail, hook, daemonHook, audioVars>>
  PROVE  DialogInv'
  BY DEF DialogInv, DialogTypes, EditsAreOffered, Mark, audioVars

LEMMA AudioMarked ==
  ASSUME DialogInv, MarkAudio
  PROVE  offered' = TRUE /\ UNCHANGED <<open, loaded>>
  BY DEF DialogInv, MarkAudio

LEMMA Displayed ==
  ASSUME DialogInv, display
  PROVE  DialogInv'
<1>1. PICK page \in Pages \ loaded :
        /\ open /\ loaded' = loaded \union {page} /\ UNCHANGED <<open, changed, offered>>
        /\ FillGeneral(page) /\ FillDisplay(page) /\ FillHooks(page) /\ FillAudio(page)
        /\ UNCHANGED <<limit, detail, hook, daemonHook, manager, device>>
  BY DEF display
<1>2. DialogTypes' /\ loading' = FALSE
  BY <1>1 DEF DialogInv, DialogTypes, FillAudio, Loading, AfterLoading
<1>3. "audio" \in loaded' => managerBox' = manager'
  BY <1>1 DEF DialogInv, FillAudio
<1>4. EditsAreOffered'
  <2> SUFFICES ASSUME ~offered PROVE EditsAreOffered'
    BY <1>1 DEF EditsAreOffered, DialogInv
  <2>1. "general" \in loaded' /\ limit' # 0 => maxBox' = limit'
    BY <1>1 DEF DialogInv, EditsAreOffered, FillGeneral
  <2>2. "display" \in loaded' => detailBox' = detail'
    BY <1>1 DEF DialogInv, EditsAreOffered, FillDisplay
  <2>3. "hooks" \in loaded' => hookBox' = hook' /\ hook' = daemonHook'
    BY <1>1 DEF DialogInv, EditsAreOffered, FillHooks
  <2>4. "audio" \in loaded' => managerBox' = manager' /\ rowBox' = device'[manager']
    BY <1>1 DEF DialogInv, EditsAreOffered, FillAudio
  <2> QED
    BY <2>1, <2>2, <2>3, <2>4 DEF EditsAreOffered
<1> QED
  BY <1>1, <1>2, <1>3, <1>4 DEF DialogInv

(* Every page that was made is saved; only the box of the devices is       *)
(* written by what the user changed, and it is filled again.               *)
LEMMA Applied ==
  ASSUME DialogInv, applyCustomSettings
  PROVE  DialogInv'
<1>1. /\ device' = IF "audio" \in changed THEN [device EXCEPT ![manager] = rowBox] ELSE device
      /\ rowBox' = IF "audio" \in loaded THEN device'[manager] ELSE rowBox
      /\ loading' = IF "audio" \in loaded THEN FALSE ELSE loading
      /\ UNCHANGED <<loaded, maxBox, detailBox, hookBox, manager, managerBox>>
  BY DEF applyCustomSettings, updateSettings, SaveAudio, Loading, AfterLoading
<1>2. DialogTypes'
  BY <1>1 DEF DialogInv, DialogTypes
<1>3. /\ limit' = IF "general" \in loaded /\ limit # 0 THEN maxBox ELSE limit
      /\ detail' = IF "display" \in loaded THEN detailBox ELSE detail
      /\ hook' = IF "hooks" \in loaded THEN hookBox ELSE hook
      /\ daemonHook' = IF "hooks" \in loaded THEN hookBox ELSE daemonHook
  BY DEF applyCustomSettings, updateSettings, SaveGeneral, SaveDisplay, SaveHooks
<1> QED
  BY <1>1, <1>2, <1>3 DEF DialogInv, EditsAreOffered

LEMMA DialogStep ==
  ASSUME DialogInv, [Next]_vars
  PROVE  DialogInv'
<1>1. CASE configureSflPhone
  BY <1>1 DEF configureSflPhone, DialogInv, DialogTypes, EditsAreOffered,
              historyVars, displayVars, hookVars, audioVars
<1>2. CASE display
  BY <1>2, Displayed
<1>3. CASE EditDays
  BY <1>3, Marked DEF EditDays, displayVars, hookVars
<1>4. CASE EditDetail
  BY <1>4, Marked DEF EditDetail, historyVars, hookVars
<1>5. CASE EditHook
  BY <1>5, Marked DEF EditHook, historyVars, displayVars
<1>6. CASE EditDevice
  BY <1>6, AudioMarked DEF EditDevice, DialogInv, DialogTypes, EditsAreOffered,
                           historyVars, displayVars, hookVars
<1>7. CASE setCurrentManager
  <2>1. PICK taken \in 1..Managers :
          /\ MarkAudio
          /\ manager' \in {manager, taken}
          /\ managerBox' = manager' /\ rowBox' = device[manager'] /\ loading' = FALSE
          /\ UNCHANGED <<device, hookVars>>
    BY <1>7 DEF setCurrentManager, BoxAfter, Loading, AfterLoading
  <2> QED
    BY <2>1, AudioMarked DEF DialogInv, DialogTypes, EditsAreOffered, hookVars
<1>8. CASE EditMacros
  <2>1. /\ Mark("macros") \/ UNCHANGED dialogVars
        /\ UNCHANGED <<historyVars, displayVars, hookVars, audioVars>>
    BY <1>8 DEF EditMacros
  <2>2. CASE Mark("macros")
    BY <2>1, <2>2, Marked DEF historyVars, displayVars, hookVars
  <2>3. CASE UNCHANGED dialogVars
    BY <2>1, <2>3 DEF DialogInv, DialogTypes, EditsAreOffered, dialogVars,
                      historyVars, displayVars, hookVars, audioVars
  <2> QED
    BY <2>1, <2>2, <2>3
<1>9. CASE EditVideo
  BY <1>9, Marked DEF EditVideo, historyVars, displayVars, hookVars
<1>10. CASE Apply \/ Ok
  BY <1>10, Applied DEF Apply, Ok
<1>11. CASE Cancel
  BY <1>11 DEF Cancel, DialogInv, DialogTypes, EditsAreOffered,
               historyVars, displayVars, hookVars, audioVars
<1>12. CASE Restart
  BY <1>12 DEF Restart, DialogInv, DialogTypes, EditsAreOffered,
               dialogVars, historyVars, displayVars, audioVars
<1>13. CASE UNCHANGED vars
  BY <1>13 DEF vars, DialogInv, DialogTypes, EditsAreOffered, dialogVars,
               historyVars, displayVars, hookVars, audioVars
<1> QED
  BY <1>1, <1>2, <1>3, <1>4, <1>5, <1>6, <1>7, <1>8, <1>9, <1>10, <1>11, <1>12, <1>13 DEF Next

(* A box that does not show what is in effect comes with the offer to      *)
(* apply it (updateButtons, currentManagerChanged, the slots of DlgAudio). *)
THEOREM OfferedCorrect == Spec => []EditsAreOffered
<1>1. DialogInv => EditsAreOffered
  BY DEF DialogInv
<1> QED
  BY <1>1, DialogStart, DialogStep, PTL DEF Spec
-----------------------------------------------------------------------------
(* Video: what the slots keep, one inside another.                         *)

Devs == DOMAIN Channels

Has(list, x) == \E i \in DOMAIN list : list[i] = x

(* Settings that name entries of the device. *)
Names(d, c, s, r) == Has(Channels[d], c) /\ Has(Sizes[d][c], s) /\ Has(Rates[d][c][s], r)

Maps(v) ==
  /\ DOMAIN v.channel = Devs /\ DOMAIN v.size = Devs /\ DOMAIN v.rate = Devs
  /\ \A d \in Devs :
       /\ DOMAIN v.size[d] = DOMAIN Sizes[d] /\ DOMAIN v.rate[d] = DOMAIN Sizes[d]
       /\ \A c \in DOMAIN Sizes[d] : DOMAIN v.rate[d][c] = DOMAIN Rates[d][c]

Forms(v) ==
  /\ v = [default |-> v.default, active |-> v.active, stored |-> v.stored,
          channel |-> v.channel, size |-> v.size, rate |-> v.rate,
          deviceBox |-> v.deviceBox, channelBox |-> v.channelBox,
          sizeBox |-> v.sizeBox, rateBox |-> v.rateBox]
  /\ v.stored = [d \in Devs |-> [channel |-> v.stored[d].channel, size |-> v.stored[d].size,
                                 rate |-> v.stored[d].rate]]
  /\ Maps(v)

(* What is remembered of a device are entries, or nothing. *)
Remembers(v, d) ==
  /\ v.channel[d] = Unknown \/ Has(Channels[d], v.channel[d])
  /\ \A c \in DOMAIN Sizes[d] :
       /\ v.size[d][c] = Unknown \/ Has(Sizes[d][c], v.size[d][c])
       /\ \A s \in DOMAIN Rates[d][c] : v.rate[d][c][s] = Unknown \/ Has(Rates[d][c][s], v.rate[d][c][s])

(* What is remembered on the way to the stored rate is what is stored. *)
Follows(v, d) ==
  LET t == v.stored[d]
  IN /\ v.channel[d] \in {Unknown, t.channel}
     /\ v.size[d][t.channel] \in {Unknown, t.size}
     /\ v.rate[d][t.channel][t.size] \in {Unknown, t.rate}

(* One level was just set on the active device and is not saved yet. *)
Unsaved(v) ==
  /\ Forms(v) /\ v.active \in Devs /\ v.default = v.active
  /\ \A d \in Devs : Remembers(v, d)
                     /\ Names(d, v.stored[d].channel, v.stored[d].size, v.stored[d].rate)
  /\ \A d \in Devs \ {v.active} : Follows(v, d)

Good(v) == Unsaved(v) /\ Follows(v, v.active)

(* All three levels of the active device are remembered. *)
Known(v) ==
  LET t == v.stored[v.active]
  IN /\ v.channel[v.active] = t.channel
     /\ v.size[v.active][t.channel] = t.size
     /\ v.rate[v.active][t.channel][t.size] = t.rate

SizeShown(v) == v.sizeBox \in DOMAIN SizeRows(v) /\ SizeRows(v)[v.sizeBox] = v.stored[v.active].size
RateShown(v) == v.rateBox \in DOMAIN RateRows(v) /\ RateRows(v)[v.rateBox] = v.stored[v.active].rate

(* The boxes, once the page has shown a device. *)
AllShown(v) ==
  /\ v.deviceBox \in DOMAIN Devices /\ Devices[v.deviceBox] = v.active
  /\ Known(v) /\ SizeShown(v) /\ RateShown(v)

Consistent(v) ==
  /\ Good(v) /\ \E i \in DOMAIN Devices : Devices[i] = v.active
  /\ v.deviceBox # 0 => AllShown(v)

VideoInv ==
  /\ Consistent(video)
  /\ open /\ "video" \in loaded => video.deviceBox # 0

IsList(list) == 1 \in DOMAIN list /\ DOMAIN list \subseteq Nat \ {0}

LEMMA Lists ==
  ASSUME NEW d \in Devs
  PROVE  /\ IsList(Channels[d]) /\ DOMAIN Rates[d] = DOMAIN Sizes[d]
         /\ \A c : Has(Channels[d], c) => c \in DOMAIN Sizes[d] /\ c # Unknown
         /\ \A c \in DOMAIN Sizes[d] :
              /\ IsList(Sizes[d][c])
              /\ \A s : Has(Sizes[d][c], s) => s \in DOMAIN Rates[d][c] /\ s # Unknown
              /\ \A s \in DOMAIN Rates[d][c] :
                   IsList(Rates[d][c][s]) /\ \A r : Has(Rates[d][c][s], r) => r # Unknown
<1>1. ASSUME NEW list, NEW from, Offers(list, from)
      PROVE  IsList(list) /\ \A x : Has(list, x) => x \in from /\ x # Unknown
  BY <1>1 DEF Offers, IsList, Has
<1>2. /\ Offers(Channels[d], DOMAIN Sizes[d]) /\ DOMAIN Rates[d] = DOMAIN Sizes[d]
      /\ \A c \in DOMAIN Sizes[d] : Offers(Sizes[d][c], DOMAIN Rates[d][c])
      /\ \A c \in DOMAIN Rates[d] : \A s \in DOMAIN Rates[d][c] :
           Offers(Rates[d][c][s], Entries(Rates[d][c][s]))
  BY VideoAssumption DEF Devs
<1> QED
  BY <1>1, <1>2

LEMMA RowOf ==
  ASSUME NEW list, IsList(list), NEW x
  PROVE  /\ Row(list, x) # 0 <=> Has(list, x)
         /\ Has(list, x) => Row(list, x) \in DOMAIN list /\ list[Row(list, x)] = x
  BY DEF IsList, Has, Row

LEMMA LookUpEntry ==
  ASSUME NEW list, IsList(list), NEW x, NEW stored, x = Unknown \/ Has(list, x)
  PROVE  /\ Has(list, LookUp(list, x, stored))
         /\ x # Unknown => LookUp(list, x, stored) = x
         /\ x \in {Unknown, stored} /\ Has(list, stored) => LookUp(list, x, stored) = stored
<1>1. 1 \in DOMAIN list
  BY DEF IsList
<1>2. Has(list, list[1])
  BY <1>1 DEF Has
<1> QED
  BY <1>2, RowOf DEF LookUp

(* What stays the same when the models look something up: all the daemon   *)
(* has and every box.                                                      *)
SameBoxes(v, w) ==
  /\ w.active = v.active /\ w.default = v.default /\ w.deviceBox = v.deviceBox
  /\ w.channelBox = v.channelBox /\ w.sizeBox = v.sizeBox /\ w.rateBox = v.rateBox

(* Remembering one choice of each level of the active device. *)
Took(v, w, c, s, r) ==
  /\ Forms(w) /\ w.active \in Devs /\ w.default = w.active
  /\ \A d \in Devs : Remembers(w, d)
  /\ SameBoxes(v, w) /\ w.stored = v.stored
  /\ w.channel[w.active] = c /\ w.size[w.active][c] = s /\ w.rate[w.active][c][s] = r
  /\ \A d \in Devs \ {v.active} :
       w.channel[d] = v.channel[d] /\ w.size[d] = v.size[d] /\ w.rate[d] = v.rate[d]

LEMMA WithEffect ==
  ASSUME NEW v, Unsaved(v), NEW c, NEW s, NEW r, Names(v.active, c, s, r),
         NEW w, w = With(v, v.active, c, s, r)
  PROVE  Took(v, w, c, s, r)
<1> DEFINE d == v.active
<1>1. /\ Forms(v) /\ d \in Devs /\ c \in DOMAIN Sizes[d] /\ s \in DOMAIN Rates[d][c]
      /\ v.default = v.active /\ \A e \in Devs : Remembers(v, e)
      /\ Has(Channels[d], c) /\ Has(Sizes[d][c], s) /\ Has(Rates[d][c][s], r)
  BY Lists DEF Unsaved, Names
<1>2. w = [v EXCEPT !.channel[d] = c, !.size[d][c] = s, !.rate[d][c][s] = r]
  BY DEF With
<1> HIDE DEF d
<1>3. /\ Forms(w) /\ SameBoxes(v, w) /\ w.stored = v.stored
      /\ w.channel[d] = c /\ w.size[d][c] = s /\ w.rate[d][c][s] = r
      /\ \A x : x # c => w.size[d][x] = v.size[d][x] /\ w.rate[d][x] = v.rate[d][x]
      /\ \A y : y # s => w.rate[d][c][y] = v.rate[d][c][y]
      /\ \A e \in Devs \ {d} : /\ w.channel[e] = v.channel[e]
                               /\ w.size[e] = v.size[e] /\ w.rate[e] = v.rate[e]
  <2>1. /\ SameBoxes(v, w) /\ w.stored = v.stored
        /\ w.channel = [v.channel EXCEPT ![d] = c]
        /\ w.size = [v.size EXCEPT ![d][c] = s]
        /\ w.rate = [v.rate EXCEPT ![d][c][s] = r]
    BY <1>1, <1>2 DEF Forms, SameBoxes
  <2>2. w = [default |-> w.default, active |-> w.active, stored |-> w.stored,
             channel |-> w.channel, size |-> w.size, rate |-> w.rate,
             deviceBox |-> w.deviceBox, channelBox |-> w.channelBox,
             sizeBox |-> w.sizeBox, rateBox |-> w.rateBox]
    BY <1>1, <1>2 DEF Forms
  <2>3. DOMAIN v.channel = Devs /\ DOMAIN v.size = Devs /\ DOMAIN v.rate = Devs
    BY <1>1 DEF Forms, Maps
  <2>4. \A e \in Devs :
          /\ DOMAIN v.size[e] = DOMAIN Sizes[e] /\ DOMAIN v.rate[e] = DOMAIN Sizes[e]
          /\ \A x \in DOMAIN Sizes[e] : DOMAIN v.rate[e][x] = DOMAIN Rates[e][x]
    BY <1>1 DEF Forms, Maps
  <2>5. /\ w.channel[d] = c /\ w.size[d][c] = s /\ w.rate[d][c][s] = r
        /\ \A x : x # c => w.size[d][x] = v.size[d][x] /\ w.rate[d][x] = v.rate[d][x]
        /\ \A y : y # s => w.rate[d][c][y] = v.rate[d][c][y]
        /\ \A e \in Devs \ {d} : /\ w.channel[e] = v.channel[e]
                                 /\ w.size[e] = v.size[e] /\ w.rate[e] = v.rate[e]
    BY <1>1, <2>1, <2>3, <2>4
  <2>6. Forms(w)
    BY <1>1, <2>1, <2>2, <2>3, <2>4 DEF Forms, Maps
  <2> QED
    BY <2>1, <2>5, <2>6
<1>4. \A e \in Devs \ {d} : Remembers(w, e)
  BY <1>1, <1>3 DEF Remembers
<1>5. Remembers(w, d)
  BY <1>1, <1>3 DEF Remembers
<1> QED
  BY <1>1, <1>3, <1>4, <1>5 DEF Took, SameBoxes, d

LEMMA RememberedEffect ==
  ASSUME NEW v, Unsaved(v)
  PROVE  LET w == Remembered(v)
             d == v.active
             c == w.channel[d]
             s == w.size[d][c]
             r == w.rate[d][c][s]
         IN /\ Unsaved(w) /\ SameBoxes(v, w) /\ w.stored = v.stored
            /\ Names(d, c, s, r)
            /\ v.channel[d] # Unknown => c = v.channel[d]
            /\ v.size[d][c] # Unknown => s = v.size[d][c]
            /\ v.rate[d][c][s] # Unknown => r = v.rate[d][c][s]
            /\ Good(v) => Good(w) /\ Known(w)
<1> DEFINE d == v.active
           t == v.stored[d]
           c == LookUp(Channels[d], v.channel[d], t.channel)
           s == LookUp(Sizes[d][c], v.size[d][c], t.size)
           r == LookUp(Rates[d][c][s], v.rate[d][c][s], t.rate)
           w == With(v, d, c, s, r)
<1>1. /\ d \in Devs /\ Remembers(v, d) /\ Names(d, t.channel, t.size, t.rate)
      /\ w = Remembered(v)
      /\ Good(v) => Follows(v, d)
  BY DEF Unsaved, Remembered, Good
<1>2. /\ Has(Channels[d], c)
      /\ v.channel[d] # Unknown => c = v.channel[d]
      /\ Good(v) => c = t.channel
  <2>1. IsList(Channels[d]) /\ (v.channel[d] = Unknown \/ Has(Channels[d], v.channel[d]))
    BY <1>1, Lists, Zenon DEF Remembers
  <2>2. Good(v) => v.channel[d] \in {Unknown, t.channel} /\ Has(Channels[d], t.channel)
    BY <1>1, Zenon DEF Follows, Names
  <2> QED
    BY <2>1, <2>2, LookUpEntry
<1>3. /\ Has(Sizes[d][c], s)
      /\ v.size[d][c] # Unknown => s = v.size[d][c]
      /\ Good(v) => s = t.size
  <2> HIDE DEF c
  <2>1. c \in DOMAIN Sizes[d]
    BY <1>1, <1>2, Lists, SMTT(30)
  <2>2. IsList(Sizes[d][c]) /\ (v.size[d][c] = Unknown \/ Has(Sizes[d][c], v.size[d][c]))
    BY <1>1, <2>1, Lists DEF Remembers
  <2>3. Good(v) => v.size[d][c] \in {Unknown, t.size} /\ Has(Sizes[d][c], t.size)
    BY <1>1, <1>2, Zenon DEF Follows, Names
  <2> QED
    BY <2>2, <2>3, LookUpEntry, SMTT(30)
<1>4. /\ Has(Rates[d][c][s], r)
      /\ v.rate[d][c][s] # Unknown => r = v.rate[d][c][s]
      /\ Good(v) => r = t.rate
  <2> HIDE DEF c, s
  <2>1. c \in DOMAIN Sizes[d] /\ s \in DOMAIN Rates[d][c]
    BY <1>1, <1>2, <1>3, Lists
  <2>2. IsList(Rates[d][c][s]) /\ (v.rate[d][c][s] = Unknown \/ Has(Rates[d][c][s], v.rate[d][c][s]))
    BY <1>1, <2>1, Lists DEF Remembers
  <2>3. Good(v) => v.rate[d][c][s] \in {Unknown, t.rate} /\ Has(Rates[d][c][s], t.rate)
    BY <1>1, <1>2, <1>3, Zenon DEF Follows, Names
  <2> QED
    BY <2>2, <2>3, LookUpEntry
<1> HIDE DEF c, s, r
<1>5. Names(d, c, s, r)
  BY <1>2, <1>3, <1>4 DEF Names
<1>6. Took(v, w, c, s, r)
  BY <1>5, WithEffect
<1> HIDE DEF w
<1>7. w.active = d
  BY <1>6 DEF Took, SameBoxes
<1>8. Unsaved(w)
  BY <1>6, <1>7, SMTT(30) DEF Took, Unsaved, Follows
<1>9. Good(v) => Good(w) /\ Known(w)
  <2> SUFFICES ASSUME Good(v) PROVE Good(w) /\ Known(w)
    OBVIOUS
  <2>1. c = w.stored[d].channel /\ s = w.stored[d].size /\ r = w.stored[d].rate
    BY <1>2, <1>3, <1>4, <1>6 DEF Took
  <2>2. Known(w)
    BY <1>6, <1>7, <2>1 DEF Took, Known
  <2> QED
    BY <1>8, <2>2 DEF Good, Known, Follows
<1> QED
  BY <1>1, <1>2, <1>3, <1>4, <1>5, <1>6, <1>7, <1>8, <1>9, Zenon DEF Took

LEMMA SameModels ==
  ASSUME NEW v, NEW w, w.channel = v.channel, w.size = v.size, w.rate = v.rate, NEW d
  PROVE  /\ Remembers(v, d) => Remembers(w, d)
         /\ w.stored[d] = v.stored[d] /\ Follows(v, d) => Follows(w, d)
         /\ Maps(v) => Maps(w)
  <1>1. Remembers(v, d) => Remembers(w, d)
    BY DEF Remembers
  <1>2. w.stored[d] = v.stored[d] /\ Follows(v, d) => Follows(w, d)
    BY DEF Follows
  <1>3. Maps(v) => Maps(w)
    BY DEF Maps
  <1> QED BY <1>1, <1>2, <1>3

(* Saving: what is remembered of the active device is what is stored, and  *)
(* nothing is written when it was stored before.                           *)
Kept(v, w) ==
  LET d == v.active
      c == w.channel[d]
      s == w.size[d][c]
  IN /\ Good(w) /\ Known(w) /\ SameBoxes(v, w)
     /\ v.channel[d] # Unknown => c = v.channel[d]
     /\ v.size[d][c] # Unknown => s = v.size[d][c]
     /\ v.rate[d][c][s] # Unknown => w.rate[d][c][s] = v.rate[d][c][s]
     /\ Good(v) => w.stored = v.stored

LEMMA SavedEffect ==
  ASSUME NEW v, Unsaved(v), NEW w, w = Saved(v)
  PROVE  Kept(v, w)
<1> DEFINE u == Remembered(v)
           d == v.active
           c == u.channel[d]
           s == u.size[d][c]
           r == u.rate[d][c][s]
           t == [channel |-> c, size |-> s, rate |-> r]
<1>1. /\ Unsaved(u) /\ SameBoxes(v, u) /\ u.stored = v.stored
      /\ Names(d, c, s, r)
      /\ v.channel[d] # Unknown => c = v.channel[d]
      /\ v.size[d][c] # Unknown => s = v.size[d][c]
      /\ v.rate[d][c][s] # Unknown => r = v.rate[d][c][s]
      /\ Good(v) => Good(u) /\ Known(u)
  BY RememberedEffect, Zenon
<1>2. u.active = d /\ d \in Devs
  BY <1>1, ZenonT(30) DEF SameBoxes, Unsaved
<1>3. w = [u EXCEPT !.stored[d] = t]
  BY <1>2 DEF Saved, ChannelOf, SizeOf, RateOf
<1> HIDE DEF u
<1>4. Forms(u) /\ (\A e \in Devs : Remembers(u, e)) /\ u.default = u.active
  BY <1>1, ZenonT(30) DEF Unsaved
<1>5. /\ w.stored = [u.stored EXCEPT ![d] = t] /\ SameBoxes(u, w)
      /\ w.channel = u.channel /\ w.size = u.size /\ w.rate = u.rate
  BY <1>3, <1>4 DEF Forms, SameBoxes
<1>6. w = [default |-> w.default, active |-> w.active, stored |-> w.stored,
           channel |-> w.channel, size |-> w.size, rate |-> w.rate,
           deviceBox |-> w.deviceBox, channelBox |-> w.channelBox,
           sizeBox |-> w.sizeBox, rateBox |-> w.rateBox]
  BY <1>3, <1>4, Zenon DEF Forms
<1>7. /\ w.stored[d] = t
      /\ \A e \in Devs \ {d} : w.stored[e] = u.stored[e]
      /\ w.stored = [e \in Devs |-> [channel |-> w.stored[e].channel, size |-> w.stored[e].size,
                                     rate |-> w.stored[e].rate]]
  <2>1. u.stored = [e \in Devs |-> [channel |-> u.stored[e].channel, size |-> u.stored[e].size,
                                    rate |-> u.stored[e].rate]]
    BY <1>4 DEF Forms
  <2> HIDE DEF c, s, r
  <2> QED
    BY <1>2, <1>5, <2>1
<1>8. Forms(w)
  BY <1>4, <1>5, <1>6, <1>7, SameModels, Zenon DEF Forms
<1>9. \A e \in Devs : Remembers(w, e)
                      /\ Names(e, w.stored[e].channel, w.stored[e].size, w.stored[e].rate)
  <2>1. \A e \in Devs : Remembers(w, e)
    BY <1>4, <1>5, SameModels, Zenon
  <2>2. \A e \in Devs \ {d} : Names(e, w.stored[e].channel, w.stored[e].size, w.stored[e].rate)
    BY <1>1, <1>7, Zenon DEF Unsaved
  <2>3. t.channel = c /\ t.size = s /\ t.rate = r
    OBVIOUS
  <2> HIDE DEF c, s, r, t
  <2>4. Names(d, w.stored[d].channel, w.stored[d].size, w.stored[d].rate)
    BY <1>1, <1>7, <2>3
  <2> QED
    BY <2>1, <2>2, <2>4
<1>10. Known(w) /\ Follows(w, d) /\ w.active = d /\ w.default = d
  <2>1. w.stored[d].channel = c /\ w.stored[d].size = s /\ w.stored[d].rate = r
    <3>1. t.channel = c /\ t.size = s /\ t.rate = r
      OBVIOUS
    <3> HIDE DEF t
    <3> QED
      BY <1>7, <3>1, ZenonT(30)
  <2>2. w.active = d /\ w.default = d
    BY <1>2, <1>4, <1>5 DEF SameBoxes
  <2> QED
    BY <1>5, <2>1, <2>2, Zenon DEF Known, Follows
<1>11. \A e \in Devs \ {d} : Follows(w, e)
  BY <1>1, <1>2, <1>5, <1>7, Zenon DEF Unsaved, Follows
<1>12. Good(w)
  BY <1>2, <1>8, <1>9, <1>10, <1>11 DEF Good, Unsaved
<1>13. ASSUME Good(v) PROVE w.stored = v.stored
  <2>1. c = u.stored[d].channel /\ s = u.stored[d].size /\ r = u.stored[d].rate
    BY <1>1, <1>2, <1>13, Zenon DEF Known
  <2>2. u.stored = [e \in Devs |-> [channel |-> u.stored[e].channel, size |-> u.stored[e].size,
                                    rate |-> u.stored[e].rate]]
    BY <1>4 DEF Forms
  <2> HIDE DEF c, s, r
  <2>3. u.stored[d] = t
    BY <1>2, <2>1, <2>2
  <2> QED
    BY <1>1, <1>2, <1>5, <2>2, <2>3
<1> QED
  BY <1>1, <1>2, <1>5, <1>10, <1>12, <1>13, Zenon DEF Kept, SameBoxes

(* Setting a box, which the models do not see. *)
SameModel(v, w) ==
  /\ Forms(w) /\ w.active = v.active /\ w.default = v.default /\ w.stored = v.stored
  /\ w.channel = v.channel /\ w.size = v.size /\ w.rate = v.rate

LEMMA Boxed ==
  ASSUME NEW v, NEW w, SameModel(v, w)
  PROVE  /\ Unsaved(v) => Unsaved(w)
         /\ Good(v) => Good(w)
         /\ Known(v) => Known(w)
         /\ SizeRows(w) = SizeRows(v) /\ RateRows(w) = RateRows(v)
<1>1. Unsaved(v) => Unsaved(w)
  BY SameModels DEF Unsaved, SameModel
<1>2. Good(v) => Good(w)
  BY <1>1, SameModels DEF Good, SameModel
<1>3. Known(v) => Known(w)
  BY DEF Known, SameModel
<1>4. SizeRows(w) = SizeRows(v) /\ RateRows(w) = RateRows(v)
  BY DEF SameModel, SizeRows, RateRows, ChannelOf, SizeOf
<1> QED
  BY <1>1, <1>2, <1>3, <1>4

LEMMA RateBox ==
  ASSUME NEW v, Forms(v), NEW x, NEW w, w = [v EXCEPT !.rateBox = x]
  PROVE  /\ SameModel(v, w) /\ w.rateBox = x
         /\ w.deviceBox = v.deviceBox /\ w.channelBox = v.channelBox /\ w.sizeBox = v.sizeBox
  BY DEF Forms, Maps, SameModel

LEMMA SizeBox ==
  ASSUME NEW v, Forms(v), NEW x, NEW w, w = [v EXCEPT !.sizeBox = x]
  PROVE  /\ SameModel(v, w) /\ w.sizeBox = x
         /\ w.deviceBox = v.deviceBox /\ w.channelBox = v.channelBox /\ w.rateBox = v.rateBox
  BY DEF Forms, Maps, SameModel

LEMMA ChannelBox ==
  ASSUME NEW v, Forms(v), NEW x, NEW w, w = [v EXCEPT !.channelBox = x]
  PROVE  /\ SameModel(v, w) /\ w.channelBox = x
         /\ w.deviceBox = v.deviceBox /\ w.sizeBox = v.sizeBox /\ w.rateBox = v.rateBox
  BY DEF Forms, Maps, SameModel

LEMMA DeviceBox ==
  ASSUME NEW v, Forms(v), NEW x, NEW w, w = [v EXCEPT !.deviceBox = x]
  PROVE  /\ SameModel(v, w) /\ w.deviceBox = x
         /\ w.channelBox = v.channelBox /\ w.sizeBox = v.sizeBox /\ w.rateBox = v.rateBox
  BY DEF Forms, Maps, SameModel

(* What the lists of the active device are. *)
LEMMA Levels ==
  ASSUME NEW v, Good(v), Known(v)
  PROVE  LET d == v.active
             t == v.stored[d]
         IN /\ d \in Devs /\ Names(d, t.channel, t.size, t.rate)
            /\ t.channel \in DOMAIN Sizes[d] /\ t.size \in DOMAIN Rates[d][t.channel]
            /\ ChannelOf(v) = t.channel /\ SizeOf(v) = t.size /\ RateOf(v) = t.rate
            /\ ChannelRows(v) = Channels[d] /\ SizeRows(v) = Sizes[d][t.channel]
            /\ RateRows(v) = Rates[d][t.channel][t.size]
            /\ IsList(ChannelRows(v)) /\ IsList(SizeRows(v)) /\ IsList(RateRows(v))
<1>1. v.active \in Devs
      /\ Names(v.active, v.stored[v.active].channel, v.stored[v.active].size, v.stored[v.active].rate)
  BY DEF Good, Unsaved
<1>2. /\ ChannelOf(v) = v.stored[v.active].channel
      /\ SizeOf(v) = v.stored[v.active].size /\ RateOf(v) = v.stored[v.active].rate
  BY DEF Known, ChannelOf, SizeOf, RateOf
<1> QED
  BY <1>1, <1>2, Lists, Zenon DEF Names, ChannelRows, SizeRows, RateRows

(* A level set to entry x: what is unsaved then. *)
SetTo(v, y, c, s, r) ==
  /\ Unsaved(y) /\ SameBoxes(v, y) /\ y.stored = v.stored
  /\ y.channel[y.active] = c
  /\ s # Unknown => y.size[y.active][c] = s
  /\ r # Unknown => y.rate[y.active][c][s] = r

LEMMA RateSet ==
  ASSUME NEW v, Good(v), Known(v), NEW x, Has(RateRows(v), x),
         NEW y, y = [v EXCEPT !.rate[v.active][ChannelOf(v)][SizeOf(v)] = x]
  PROVE  /\ SetTo(v, y, v.stored[v.active].channel, v.stored[v.active].size, x)
         /\ x = v.stored[v.active].rate => Good(y)
<1> DEFINE d == v.active
           c == v.stored[d].channel
           s == v.stored[d].size
<1>1. /\ d \in Devs /\ c \in DOMAIN Sizes[d] /\ s \in DOMAIN Rates[d][c]
      /\ Has(Rates[d][c][s], x)
  BY Levels, SMTT(30)
<1>2. y = [v EXCEPT !.rate[d][c][s] = x]
  BY Levels, ZenonT(30)
<1>3. /\ Forms(v) /\ \A e \in Devs : Remembers(v, e)
      /\ v.channel[d] = c /\ v.size[d][c] = s /\ v.rate[d][c][s] = v.stored[d].rate
      /\ v.default = v.active
  BY DEF Good, Unsaved, Known
<1> HIDE DEF d, c, s
<1>4. /\ SameBoxes(v, y) /\ y.stored = v.stored /\ y.channel = v.channel /\ y.size = v.size
      /\ y.rate = [v.rate EXCEPT ![d][c][s] = x]
      /\ y = [default |-> y.default, active |-> y.active, stored |-> y.stored,
              channel |-> y.channel, size |-> y.size, rate |-> y.rate,
              deviceBox |-> y.deviceBox, channelBox |-> y.channelBox,
              sizeBox |-> y.sizeBox, rateBox |-> y.rateBox]
  BY <1>2, <1>3 DEF Forms, SameBoxes
<1>5. Maps(v)
  BY <1>3 DEF Forms
<1>6. /\ y.rate[d][c][s] = x
      /\ \A z : z # s => y.rate[d][c][z] = v.rate[d][c][z]
      /\ \A z : z # c => y.rate[d][z] = v.rate[d][z]
      /\ \A e \in Devs \ {d} : y.rate[e] = v.rate[e]
      /\ Maps(y)
  BY <1>1, <1>4, <1>5 DEF Maps
<1>7. Forms(y)
  <2>1. y.stored = [e \in Devs |-> [channel |-> y.stored[e].channel, size |-> y.stored[e].size,
                                    rate |-> y.stored[e].rate]]
    BY <1>3, <1>4 DEF Forms
  <2>2. Maps(y)
    BY <1>6, SMTT(30)
  <2> QED
    BY <1>4, <2>1, <2>2, Zenon DEF Forms
<1>8. \A e \in Devs : Remembers(y, e)
  BY <1>1, <1>3, <1>4, <1>6, SMTT(30) DEF Remembers
<1>9. \A e \in Devs \ {d} : Follows(v, e) => Follows(y, e)
  BY <1>4, <1>6 DEF Follows
<1>10. y.active = d /\ y.default = d
  BY <1>3, <1>4 DEF SameBoxes, d
<1>11. Unsaved(y)
  BY <1>1, <1>4, <1>7, <1>8, <1>9, <1>10 DEF Unsaved, Good, d
<1>12. SetTo(v, y, c, s, x)
  BY <1>3, <1>4, <1>6, <1>10, <1>11 DEF SetTo
<1>13. ASSUME x = v.stored[d].rate PROVE Good(y)
  BY <1>3, <1>4, <1>6, <1>10, <1>11, <1>13, Zenon DEF Good, Follows, c, s
<1> QED
  BY <1>12, <1>13 DEF c, s, d

LEMMA SizeSet ==
  ASSUME NEW v, Good(v), Known(v), NEW x, Has(SizeRows(v), x),
         NEW y, y = [v EXCEPT !.size[v.active][ChannelOf(v)] = x]
  PROVE  /\ SetTo(v, y, v.stored[v.active].channel, x, Unknown)
         /\ x = v.stored[v.active].size => Good(y)
<1> DEFINE d == v.active
           c == v.stored[d].channel
<1>1. d \in Devs /\ c \in DOMAIN Sizes[d] /\ Has(Sizes[d][c], x)
  BY Levels
<1>2. y = [v EXCEPT !.size[d][c] = x]
  BY Levels
<1>3. /\ Forms(v) /\ \A e \in Devs : Remembers(v, e)
      /\ v.channel[d] = c /\ v.size[d][c] = v.stored[d].size
      /\ v.rate[d][c][v.stored[d].size] = v.stored[d].rate
      /\ v.default = v.active
  BY DEF Good, Unsaved, Known
<1> HIDE DEF d, c
<1>4. /\ SameBoxes(v, y) /\ y.stored = v.stored /\ y.channel = v.channel /\ y.rate = v.rate
      /\ y.size = [v.size EXCEPT ![d][c] = x]
      /\ y = [default |-> y.default, active |-> y.active, stored |-> y.stored,
              channel |-> y.channel, size |-> y.size, rate |-> y.rate,
              deviceBox |-> y.deviceBox, channelBox |-> y.channelBox,
              sizeBox |-> y.sizeBox, rateBox |-> y.rateBox]
  BY <1>2, <1>3, Zenon DEF Forms, SameBoxes
<1>5. Maps(v)
  BY <1>3, Zenon DEF Forms
<1>6. /\ y.size[d][c] = x
      /\ \A z : z # c => y.size[d][z] = v.size[d][z]
      /\ \A e \in Devs \ {d} : y.size[e] = v.size[e]
      /\ Maps(y)
  BY <1>1, <1>4, <1>5 DEF Maps
<1>7. Forms(y)
  <2>1. y.stored = [e \in Devs |-> [channel |-> y.stored[e].channel, size |-> y.stored[e].size,
                                    rate |-> y.stored[e].rate]]
    BY <1>3, <1>4, Zenon DEF Forms
  <2>2. Maps(y)
    BY <1>6
  <2> QED
    BY <1>4, <2>1, <2>2, Zenon DEF Forms
<1>8. \A e \in Devs : Remembers(y, e)
  BY <1>1, <1>3, <1>4, <1>6, SMTT(30) DEF Remembers
<1>9. \A e \in Devs \ {d} : Follows(v, e) => Follows(y, e)
  BY <1>4, <1>6, SMTT(30) DEF Follows
<1>10. y.active = d /\ y.default = d
  BY <1>3, <1>4 DEF SameBoxes, d
<1>11. Unsaved(y)
  BY <1>1, <1>4, <1>7, <1>8, <1>9, <1>10 DEF Unsaved, Good, d
<1>12. SetTo(v, y, c, x, Unknown)
  BY <1>3, <1>4, <1>6, <1>10, <1>11 DEF SetTo
<1>13. ASSUME x = v.stored[d].size PROVE Good(y)
  BY <1>3, <1>4, <1>6, <1>10, <1>11, <1>13, Zenon DEF Good, Follows, c
<1> QED
  BY <1>12, <1>13 DEF c, d

LEMMA ChannelSet ==
  ASSUME NEW v, Good(v), Known(v), NEW x, Has(ChannelRows(v), x),
         NEW y, y = [v EXCEPT !.channel[v.active] = x]
  PROVE  /\ SetTo(v, y, x, Unknown, Unknown)
         /\ x = v.stored[v.active].channel => Good(y)
<1> DEFINE d == v.active
<1>1. d \in Devs /\ Has(Channels[d], x)
  BY Levels
<1>2. y = [v EXCEPT !.channel[d] = x]
  OBVIOUS
<1>3. /\ Forms(v) /\ \A e \in Devs : Remembers(v, e)
      /\ Follows(v, d) /\ v.default = v.active
  BY DEF Good, Unsaved
<1> HIDE DEF d
<1>4. /\ SameBoxes(v, y) /\ y.stored = v.stored /\ y.size = v.size /\ y.rate = v.rate
      /\ y.channel = [v.channel EXCEPT ![d] = x]
      /\ y = [default |-> y.default, active |-> y.active, stored |-> y.stored,
              channel |-> y.channel, size |-> y.size, rate |-> y.rate,
              deviceBox |-> y.deviceBox, channelBox |-> y.channelBox,
              sizeBox |-> y.sizeBox, rateBox |-> y.rateBox]
  BY <1>2, <1>3 DEF Forms, SameBoxes
<1>5. Maps(v)
  BY <1>3 DEF Forms
<1>6. /\ y.channel[d] = x
      /\ \A e \in Devs \ {d} : y.channel[e] = v.channel[e]
      /\ Maps(y)
  BY <1>1, <1>4, <1>5 DEF Maps
<1>7. Forms(y)
  <2>1. y.stored = [e \in Devs |-> [channel |-> y.stored[e].channel, size |-> y.stored[e].size,
                                    rate |-> y.stored[e].rate]]
    BY <1>3, <1>4 DEF Forms
  <2>2. Maps(y)
    BY <1>6
  <2> QED
    BY <1>4, <2>1, <2>2, Zenon DEF Forms
<1>8. \A e \in Devs : Remembers(y, e)
  BY <1>1, <1>3, <1>4, <1>6, SMTT(30) DEF Remembers
<1>9. \A e \in Devs \ {d} : Follows(v, e) => Follows(y, e)
  BY <1>4, <1>6 DEF Follows
<1>10. y.active = d /\ y.default = d
  BY <1>3, <1>4 DEF SameBoxes, d
<1>11. Unsaved(y)
  BY <1>1, <1>4, <1>7, <1>8, <1>9, <1>10 DEF Unsaved, Good, d
<1>12. SetTo(v, y, x, Unknown, Unknown)
  BY <1>4, <1>6, <1>10, <1>11 DEF SetTo
<1>13. ASSUME x = v.stored[d].channel PROVE Good(y)
  BY <1>3, <1>4, <1>6, <1>10, <1>11, <1>13, Zenon DEF Good, Follows
<1> QED
  BY <1>12, <1>13 DEF d

(* setActiveChannel, setActiveResolution and setActiveRate: the choice is  *)
(* stored, and nothing is when it was stored before.                       *)
Stores(v, w) ==
  /\ Good(w) /\ Known(w) /\ SameBoxes(v, w)

LEMMA RateStored ==
  ASSUME NEW v, Good(v), Known(v), NEW row \in DOMAIN RateRows(v),
         NEW w, w = setActiveRate(v, row)
  PROVE  /\ Stores(v, w)
         /\ w.stored[w.active].channel = v.stored[v.active].channel
         /\ w.stored[w.active].size = v.stored[v.active].size
         /\ w.stored[w.active].rate = RateRows(v)[row]
         /\ RateRows(v)[row] = v.stored[v.active].rate => w.stored = v.stored
<1> DEFINE x == RateRows(v)[row]
           y == [v EXCEPT !.rate[v.active][ChannelOf(v)][SizeOf(v)] = x]
<1>1. Has(RateRows(v), x)
  BY DEF Has
<1>2. /\ SetTo(v, y, v.stored[v.active].channel, v.stored[v.active].size, x)
      /\ x = v.stored[v.active].rate => Good(y)
  <2> HIDE DEF x
  <2> QED
    BY <1>1, RateSet
<1>3. w = Saved(y)
  BY DEF setActiveRate
<1>4. x # Unknown /\ v.stored[v.active].size # Unknown /\ v.stored[v.active].channel # Unknown
  BY <1>1, Levels, Lists DEF Names
<1> HIDE DEF x, y
<1>5. Unsaved(y)
  BY <1>2 DEF SetTo
<1>6. Kept(y, w)
  BY <1>3, <1>5, SavedEffect
<1>7. Stores(v, w) /\ w.active = y.active /\ y.active = v.active
  BY <1>2, <1>6, Zenon DEF Kept, SetTo, SameBoxes, Stores
<1>8. /\ w.channel[w.active] = v.stored[v.active].channel
      /\ w.size[w.active][v.stored[v.active].channel] = v.stored[v.active].size
      /\ w.rate[w.active][v.stored[v.active].channel][v.stored[v.active].size] = x
  BY <1>2, <1>4, <1>6, <1>7, ZenonT(30) DEF Kept, SetTo
<1>9. /\ w.stored[w.active].channel = v.stored[v.active].channel
      /\ w.stored[w.active].size = v.stored[v.active].size
      /\ w.stored[w.active].rate = x
  BY <1>7, <1>8, ZenonT(30) DEF Known, Stores
<1>10. x = v.stored[v.active].rate => w.stored = v.stored
  BY <1>2, <1>6, Zenon DEF Kept, SetTo
<1> QED
  BY <1>7, <1>9, <1>10 DEF x

LEMMA SizeStored ==
  ASSUME NEW v, Good(v), Known(v), NEW row \in DOMAIN SizeRows(v),
         NEW w, w = setActiveResolution(v, row)
  PROVE  /\ Stores(v, w)
         /\ w.stored[w.active].channel = v.stored[v.active].channel
         /\ w.stored[w.active].size = SizeRows(v)[row]
         /\ SizeRows(v)[row] = v.stored[v.active].size => w.stored = v.stored
<1> DEFINE x == SizeRows(v)[row]
           y == [v EXCEPT !.size[v.active][ChannelOf(v)] = x]
<1>1. Has(SizeRows(v), x)
  BY DEF Has
<1>2. /\ SetTo(v, y, v.stored[v.active].channel, x, Unknown)
      /\ x = v.stored[v.active].size => Good(y)
  <2> HIDE DEF x
  <2> QED
    BY <1>1, SizeSet
<1>3. w = Saved(y)
  BY DEF setActiveResolution
<1>4. x # Unknown /\ v.stored[v.active].channel # Unknown
  BY <1>1, Levels, Lists DEF Names
<1> HIDE DEF x, y
<1>5. Kept(y, w)
  BY <1>2, <1>3, SavedEffect DEF SetTo
<1>6. Stores(v, w) /\ w.active = y.active /\ y.active = v.active
  BY <1>2, <1>5, Zenon DEF Kept, SetTo, SameBoxes, Stores
<1>7. /\ w.channel[w.active] = v.stored[v.active].channel
      /\ w.size[w.active][v.stored[v.active].channel] = x
  BY <1>2, <1>4, <1>5, <1>6, Zenon DEF Kept, SetTo
<1>8. /\ w.stored[w.active].channel = v.stored[v.active].channel
      /\ w.stored[w.active].size = x
  BY <1>6, <1>7 DEF Known, Stores
<1>9. x = v.stored[v.active].size => w.stored = v.stored
  BY <1>2, <1>5, Zenon DEF Kept, SetTo
<1> QED
  BY <1>6, <1>8, <1>9 DEF x

LEMMA ChannelStored ==
  ASSUME NEW v, Good(v), Known(v), NEW row \in DOMAIN ChannelRows(v),
         NEW w, w = setActiveChannel(v, row)
  PROVE  /\ Stores(v, w)
         /\ ChannelRows(v)[row] = v.stored[v.active].channel => w.stored = v.stored
<1>1. CASE row = 1
  BY <1>1 DEF setActiveChannel, Stores, SameBoxes
<1>2. CASE row # 1
  <2> DEFINE x == ChannelRows(v)[row]
             y == [v EXCEPT !.channel[v.active] = x]
  <2>1. Has(ChannelRows(v), x)
    BY DEF Has
  <2>2. /\ SetTo(v, y, x, Unknown, Unknown)
        /\ x = v.stored[v.active].channel => Good(y)
    <3> HIDE DEF x
    <3> QED
      BY <2>1, ChannelSet
  <2>3. w = Saved(y)
    BY <1>2 DEF setActiveChannel
  <2> HIDE DEF x, y
  <2>4. Kept(y, w)
    BY <2>2, <2>3, SavedEffect DEF SetTo
  <2> QED
    BY <2>2, <2>4, Zenon DEF Kept, SetTo, SameBoxes, Stores, x
<1> QED
  BY <1>1, <1>2

(* The slots that only show: nothing is stored, and the boxes below follow.*)
Shows(v, w) ==
  /\ Good(w) /\ Known(w) /\ w.stored = v.stored
  /\ w.active = v.active /\ w.default = v.default /\ w.deviceBox = v.deviceBox

LEMMA RatesShown ==
  ASSUME NEW v, Good(v), NEW w, w = ShowRate(v)
  PROVE  Shows(v, w) /\ RateShown(w) /\ w.sizeBox = v.sizeBox
<1> DEFINE u == Remembered(v)
           row == Row(RateRows(u), RateOf(u))
           x == [u EXCEPT !.rateBox = row]
<1>1. Good(u) /\ Known(u) /\ SameBoxes(v, u) /\ u.stored = v.stored
  BY RememberedEffect, Zenon DEF Good
<1>2. w = IF u.rateBox = row THEN u ELSE setActiveRate(x, row)
  BY DEF ShowRate
<1> HIDE DEF u
<1>3. /\ row \in DOMAIN RateRows(u) /\ RateRows(u)[row] = u.stored[u.active].rate
  BY <1>1, Levels, RowOf DEF Names
<1> HIDE DEF row
<1>4. CASE u.rateBox = row
  BY <1>1, <1>2, <1>3, <1>4 DEF Shows, SameBoxes, RateShown
<1>5. CASE u.rateBox # row
  <2>1. /\ SameModel(u, x) /\ x.rateBox = row
        /\ x.deviceBox = u.deviceBox /\ x.sizeBox = u.sizeBox
    BY <1>1, RateBox DEF Good, Unsaved
  <2>2. w = setActiveRate(x, row)
    BY <1>2, <1>5
  <2> HIDE DEF x
  <2>3. Good(x) /\ Known(x) /\ RateRows(x) = RateRows(u)
    BY <1>1, <2>1, Boxed
  <2>4. x.stored = u.stored /\ x.active = u.active /\ x.default = u.default
    BY <2>1 DEF SameModel
  <2>5. Stores(x, w) /\ w.stored = x.stored
    BY <1>3, <2>2, <2>3, <2>4, RateStored
  <2>6. Good(w) /\ Known(w) /\ SameBoxes(x, w)
    BY <2>5 DEF Stores
  <2>7. RateRows(w) = RateRows(u)
    BY <1>1, <2>4, <2>5, <2>6, Levels DEF SameBoxes
  <2> QED
    BY <1>1, <1>3, <2>1, <2>4, <2>5, <2>6, <2>7 DEF Shows, SameBoxes, RateShown
<1> QED
  BY <1>4, <1>5

LEMMA NewRatesShown ==
  ASSUME NEW v, Good(v), NEW w, w = NewRates(v)
  PROVE  Shows(v, w) /\ RateShown(w) /\ w.sizeBox = v.sizeBox
<1> DEFINE u == [v EXCEPT !.rateBox = 1]
<1>1. SameModel(v, u) /\ u.deviceBox = v.deviceBox /\ u.sizeBox = v.sizeBox
  BY RateBox DEF Good, Unsaved
<1>2. w = ShowRate(u)
  BY DEF NewRates
<1> HIDE DEF u
<1>3. Good(u)
  BY <1>1, Boxed
<1>4. Shows(u, w) /\ RateShown(w) /\ w.sizeBox = u.sizeBox
  BY <1>2, <1>3, RatesShown
<1> QED
  BY <1>1, <1>4 DEF Shows, SameModel

(* A size is taken: the rates of the new one are shown. *)
LEMMA SizeTaken ==
  ASSUME NEW v, Good(v), Known(v), NEW row \in DOMAIN SizeRows(v),
         NEW w, w = slotResolutionChanged(v, row)
  PROVE  /\ Good(w) /\ Known(w) /\ RateShown(w)
         /\ w.active = v.active /\ w.default = v.default
         /\ w.deviceBox = v.deviceBox /\ w.sizeBox = v.sizeBox
         /\ SizeRows(w) = SizeRows(v) /\ w.stored[w.active].size = SizeRows(v)[row]
         /\ SizeRows(v)[row] = v.stored[v.active].size => w.stored = v.stored
<1> DEFINE u == setActiveResolution(v, row)
<1>1. /\ Stores(v, u)
      /\ u.stored[u.active].channel = v.stored[v.active].channel
      /\ u.stored[u.active].size = SizeRows(v)[row]
      /\ SizeRows(v)[row] = v.stored[v.active].size => u.stored = v.stored
  BY SizeStored
<1>2. w = NewRates(u)
  BY DEF slotResolutionChanged
<1> HIDE DEF u
<1>3. Shows(u, w) /\ RateShown(w) /\ w.sizeBox = u.sizeBox
  BY <1>1, <1>2, NewRatesShown DEF Stores
<1>4. /\ Good(w) /\ Known(w) /\ w.active = v.active /\ w.default = v.default
      /\ w.deviceBox = v.deviceBox /\ w.sizeBox = v.sizeBox /\ w.stored = u.stored
      /\ u.active = v.active
  BY <1>1, <1>3 DEF Shows, Stores, SameBoxes
<1>5. SizeRows(w) = SizeRows(v)
  BY <1>1, <1>4, Levels
<1> QED
  BY <1>1, <1>3, <1>4, <1>5

LEMMA SizesShown ==
  ASSUME NEW v, Good(v), NEW w, w = ShowSize(v)
  PROVE  Shows(v, w) /\ RateShown(w) /\ SizeShown(w)
<1> DEFINE u == Remembered(v)
           row == Row(SizeRows(u), SizeOf(u))
           x == [u EXCEPT !.sizeBox = row]
           y == IF u.sizeBox = row THEN u ELSE slotResolutionChanged(x, row)
<1>1. Good(u) /\ Known(u) /\ SameBoxes(v, u) /\ u.stored = v.stored
  BY RememberedEffect DEF Good
<1>2. w = NewRates(y)
  BY DEF ShowSize
<1> HIDE DEF u
<1>3. /\ row \in DOMAIN SizeRows(u) /\ SizeRows(u)[row] = u.stored[u.active].size
  BY <1>1, Levels, RowOf DEF Names
<1>4. Shows(u, y) /\ y.sizeBox = row /\ SizeRows(y) = SizeRows(u)
  <2> HIDE DEF row
  <2>1. CASE u.sizeBox = row
    BY <1>1, <2>1 DEF Shows
  <2>2. CASE u.sizeBox # row
    <3>1. SameModel(u, x) /\ x.sizeBox = row /\ x.deviceBox = u.deviceBox
      BY <1>1, SizeBox DEF Good, Unsaved
    <3>2. y = slotResolutionChanged(x, row)
      BY <2>2
    <3> HIDE DEF x, y
    <3>3. Good(x) /\ Known(x) /\ SizeRows(x) = SizeRows(u)
      BY <1>1, <3>1, Boxed
    <3>4. x.stored = u.stored /\ x.active = u.active /\ x.default = u.default
      BY <3>1 DEF SameModel
    <3>5. /\ Good(y) /\ Known(y)
          /\ y.active = x.active /\ y.default = x.default
          /\ y.deviceBox = x.deviceBox /\ y.sizeBox = x.sizeBox
          /\ SizeRows(y) = SizeRows(x) /\ y.stored = x.stored
      BY <1>3, <3>2, <3>3, <3>4, SizeTaken
    <3> QED
      BY <3>1, <3>3, <3>4, <3>5 DEF Shows
  <2> QED
    BY <2>1, <2>2
<1> HIDE DEF y, row
<1>5. Shows(y, w) /\ RateShown(w) /\ w.sizeBox = y.sizeBox
  BY <1>2, <1>4, NewRatesShown DEF Shows
<1>6. Shows(v, w) /\ w.active = u.active /\ w.stored = u.stored
  BY <1>1, <1>4, <1>5 DEF Shows, SameBoxes
<1>7. SizeRows(w) = SizeRows(u)
  BY <1>1, <1>6, Levels DEF Shows
<1> QED
  BY <1>3, <1>4, <1>5, <1>6, <1>7 DEF SizeShown

LEMMA NewSizesShown ==
  ASSUME NEW v, Good(v), NEW w, w = NewSizes(v)
  PROVE  Shows(v, w) /\ RateShown(w) /\ SizeShown(w)
<1> DEFINE u == [v EXCEPT !.sizeBox = 1]
<1>1. SameModel(v, u) /\ u.deviceBox = v.deviceBox
  BY SizeBox DEF Good, Unsaved
<1>2. w = ShowSize(u)
  BY DEF NewSizes
<1> HIDE DEF u
<1>3. Good(u)
  BY <1>1, Boxed
<1>4. Shows(u, w) /\ RateShown(w) /\ SizeShown(w)
  BY <1>2, <1>3, SizesShown
<1> QED
  BY <1>1, <1>4 DEF Shows, SameModel

(* A channel is taken, or refused: its size and rate are shown. *)
LEMMA ChannelTaken ==
  ASSUME NEW v, Good(v), Known(v), NEW row \in DOMAIN ChannelRows(v),
         NEW w, w = slotChannelChanged(v, row)
  PROVE  /\ Good(w) /\ Known(w) /\ RateShown(w) /\ SizeShown(w)
         /\ w.active = v.active /\ w.default = v.default /\ w.deviceBox = v.deviceBox
         /\ ChannelRows(v)[row] = v.stored[v.active].channel => w.stored = v.stored
<1> DEFINE u == setActiveChannel(v, row)
<1>1. /\ Stores(v, u)
      /\ ChannelRows(v)[row] = v.stored[v.active].channel => u.stored = v.stored
  BY ChannelStored
<1>2. w = NewSizes(u)
  BY DEF slotChannelChanged
<1> HIDE DEF u
<1>3. Shows(u, w) /\ RateShown(w) /\ SizeShown(w)
  BY <1>1, <1>2, NewSizesShown DEF Stores
<1> QED
  BY <1>1, <1>3 DEF Shows, Stores, SameBoxes

LEMMA ChannelsShown ==
  ASSUME NEW v, Good(v), NEW w, w = ShowChannel(v)
  PROVE  Shows(v, w) /\ RateShown(w) /\ SizeShown(w)
<1> DEFINE u == Remembered(v)
           row == Row(ChannelRows(u), ChannelOf(u))
           x == [u EXCEPT !.channelBox = row]
           y == IF u.channelBox = row THEN u ELSE slotChannelChanged(x, row)
<1>1. Good(u) /\ Known(u) /\ SameBoxes(v, u) /\ u.stored = v.stored
  BY RememberedEffect DEF Good
<1>2. w = NewSizes(y)
  BY DEF ShowChannel
<1> HIDE DEF u
<1>3. /\ row \in DOMAIN ChannelRows(u) /\ ChannelRows(u)[row] = u.stored[u.active].channel
  BY <1>1, Levels, RowOf DEF Names
<1>4. Shows(u, y)
  <2> HIDE DEF row
  <2>1. CASE u.channelBox = row
    BY <1>1, <2>1 DEF Shows
  <2>2. CASE u.channelBox # row
    <3>1. SameModel(u, x) /\ x.deviceBox = u.deviceBox
      BY <1>1, ChannelBox DEF Good, Unsaved
    <3>2. y = slotChannelChanged(x, row)
      BY <2>2
    <3> HIDE DEF x, y
    <3>3. Good(x) /\ Known(x)
      BY <1>1, <3>1, Boxed
    <3>4. x.stored = u.stored /\ x.active = u.active /\ x.default = u.default
          /\ ChannelRows(x) = ChannelRows(u)
      BY <3>1 DEF SameModel, ChannelRows
    <3>5. /\ Good(y) /\ Known(y)
          /\ y.active = x.active /\ y.default = x.default
          /\ y.deviceBox = x.deviceBox /\ y.stored = x.stored
      BY <1>3, <3>2, <3>3, <3>4, ChannelTaken
    <3> QED
      BY <3>1, <3>3, <3>4, <3>5 DEF Shows
  <2> QED
    BY <2>1, <2>2
<1> HIDE DEF y, row
<1>5. Shows(y, w) /\ RateShown(w) /\ SizeShown(w)
  BY <1>2, <1>4, NewSizesShown DEF Shows
<1> QED
  BY <1>1, <1>4, <1>5 DEF Shows, SameBoxes

LEMMA ActiveSet ==
  ASSUME NEW v, Good(v), NEW row \in DOMAIN Devices, NEW w, w = setActive(v, row)
  PROVE  /\ Good(w) /\ w.stored = v.stored /\ w.active = Devices[row]
         /\ w.deviceBox = v.deviceBox
         /\ Devices[row] = v.active =>
              SameModel(v, w) /\ w.sizeBox = v.sizeBox /\ w.rateBox = v.rateBox
<1> DEFINE d == Devices[row]
<1>1. d \in Devs
  BY VideoAssumption DEF Devs
<1>2. w = [v EXCEPT !.active = d, !.default = d]
  BY DEF setActive
<1> HIDE DEF d
<1>3. Forms(v) /\ (\A e \in Devs : Remembers(v, e) /\ Follows(v, e))
      /\ \A e \in Devs : Names(e, v.stored[e].channel, v.stored[e].size, v.stored[e].rate)
  BY DEF Good, Unsaved
<1>4. /\ w.active = d /\ w.default = d /\ w.stored = v.stored
      /\ w.channel = v.channel /\ w.size = v.size /\ w.rate = v.rate
      /\ w.deviceBox = v.deviceBox /\ w.sizeBox = v.sizeBox /\ w.rateBox = v.rateBox
  BY <1>2, <1>3 DEF Forms
<1>5. Forms(w)
  BY <1>2, <1>3, <1>4, SameModels DEF Forms
<1>6. \A e \in Devs : Remembers(w, e) /\ Follows(w, e)
  BY <1>3, <1>4, SameModels
<1>7. Good(w)
  BY <1>1, <1>3, <1>4, <1>5, <1>6 DEF Good, Unsaved
<1>8. v.default = v.active
  BY DEF Good, Unsaved
<1> QED
  BY <1>4, <1>5, <1>7, <1>8 DEF SameModel, d

(* A device is taken, by the user or by the page: all of it is shown, and  *)
(* nothing is stored.                                                      *)
LEMMA DeviceTaken ==
  ASSUME NEW v, Good(v), NEW row \in DOMAIN Devices, NEW w, w = slotDeviceChanged(v, row)
  PROVE  /\ Good(w) /\ Known(w) /\ RateShown(w) /\ SizeShown(w)
         /\ w.stored = v.stored /\ w.active = Devices[row] /\ w.deviceBox = v.deviceBox
<1> DEFINE u == setActive(v, row)
           x == [u EXCEPT !.channelBox = 1]
<1>1. /\ Good(u) /\ u.stored = v.stored /\ u.active = Devices[row]
      /\ u.deviceBox = v.deviceBox
  BY ActiveSet
<1>2. w = ShowChannel(x)
  BY DEF slotDeviceChanged
<1> HIDE DEF u
<1>3. SameModel(u, x) /\ x.deviceBox = u.deviceBox
  BY <1>1, ChannelBox DEF Good, Unsaved
<1> HIDE DEF x
<1>4. Good(x)
  BY <1>1, <1>3, Boxed
<1>5. Shows(x, w) /\ RateShown(w) /\ SizeShown(w)
  BY <1>2, <1>4, ChannelsShown
<1> QED
  BY <1>1, <1>3, <1>5 DEF Shows, SameModel

LEMMA Reloaded ==
  ASSUME NEW v, Consistent(v), NEW w, w = slotReloadDevices(v)
  PROVE  Consistent(w) /\ w.deviceBox # 0 /\ w.stored = v.stored
<1> DEFINE row == Row(Devices, v.active)
           x == [v EXCEPT !.deviceBox = row]
           y == IF row = 1 THEN NewSizes([v EXCEPT !.deviceBox = 1])
                           ELSE slotDeviceChanged(x, row)
<1>1. IsList(Devices) /\ Has(Devices, v.active)
  BY VideoAssumption DEF Consistent, IsList, Has
<1>2. row \in DOMAIN Devices /\ Devices[row] = v.active /\ row # 0
  BY <1>1, RowOf
<1>3. w = [y EXCEPT !.channelBox = 1]
  BY DEF slotReloadDevices
<1>4. y = IF row = 1 THEN NewSizes(x) ELSE slotDeviceChanged(x, row)
  OBVIOUS
<1>5. SameModel(v, x) /\ x.deviceBox = row
  BY DeviceBox DEF Consistent, Good, Unsaved
<1> HIDE DEF row, x, y
<1>6. Good(x) /\ x.stored = v.stored /\ x.active = v.active
  BY <1>5, Boxed DEF Consistent, SameModel
<1>7. /\ Good(y) /\ Known(y) /\ RateShown(y) /\ SizeShown(y)
      /\ y.stored = v.stored /\ y.active = v.active /\ y.deviceBox = row
  <2>1. CASE row = 1
    BY <1>4, <1>5, <1>6, <2>1, NewSizesShown DEF Shows
  <2>2. CASE row # 1
    BY <1>2, <1>4, <1>5, <1>6, <2>2, DeviceTaken
  <2> QED
    BY <2>1, <2>2
<1>8. /\ SameModel(y, w) /\ w.deviceBox = y.deviceBox
      /\ w.sizeBox = y.sizeBox /\ w.rateBox = y.rateBox
  BY <1>3, <1>7, ChannelBox DEF Good, Unsaved
<1>9. Good(w) /\ Known(w) /\ SizeRows(w) = SizeRows(y) /\ RateRows(w) = RateRows(y)
  BY <1>7, <1>8, Boxed
<1> QED
  BY <1>2, <1>7, <1>8, <1>9 DEF Consistent, AllShown, SameModel, SizeShown, RateShown

(* The page has no row for the device, or the one of the camera in use.    *)
LEMMA Chosen ==
  ASSUME Consistent(video), video.deviceBox # 0, Choose
  PROVE  /\ Consistent(video') /\ video'.deviceBox # 0
         /\ video'.stored # video.stored => video'.deviceBox = video.deviceBox
<1>1. Good(video) /\ AllShown(video)
  BY DEF Consistent
<1>2. Known(video) /\ SizeShown(video) /\ RateShown(video)
      /\ video.deviceBox \in DOMAIN Devices /\ Devices[video.deviceBox] = video.active
  BY <1>1 DEF AllShown
<1>3. CASE ChooseDevice
  <2>1. PICK row \in DOMAIN Devices :
          video' = slotDeviceChanged([video EXCEPT !.deviceBox = row], row)
    BY <1>3 DEF ChooseDevice
  <2> DEFINE x == [video EXCEPT !.deviceBox = row]
  <2>2. SameModel(video, x) /\ x.deviceBox = row
    BY <1>1, DeviceBox DEF Good, Unsaved
  <2>3. video' = slotDeviceChanged(x, row)
    BY <2>1
  <2> HIDE DEF x
  <2>4. Good(x) /\ x.stored = video.stored
    BY <1>1, <2>2, Boxed DEF SameModel
  <2>5. /\ Good(video') /\ Known(video') /\ RateShown(video') /\ SizeShown(video')
        /\ video'.stored = x.stored /\ video'.active = Devices[row] /\ video'.deviceBox = x.deviceBox
    BY <2>3, <2>4, DeviceTaken
  <2>6. row # 0
    BY VideoAssumption
  <2> QED
    BY <2>2, <2>4, <2>5, <2>6 DEF Consistent, AllShown
<1>4. CASE ChooseChannel
  <2>1. PICK row \in DOMAIN ChannelRows(video) :
          video' = slotChannelChanged([video EXCEPT !.channelBox = row], row)
    BY <1>4 DEF ChooseChannel
  <2> DEFINE x == [video EXCEPT !.channelBox = row]
  <2>2. SameModel(video, x) /\ x.deviceBox = video.deviceBox
    BY <1>1, ChannelBox DEF Good, Unsaved
  <2>3. video' = slotChannelChanged(x, row)
    BY <2>1
  <2> HIDE DEF x
  <2>4. Good(x) /\ Known(x) /\ ChannelRows(x) = ChannelRows(video) /\ x.active = video.active
    BY <1>1, <1>2, <2>2, Boxed DEF SameModel, ChannelRows
  <2>5. /\ Good(video') /\ Known(video') /\ RateShown(video') /\ SizeShown(video')
        /\ video'.active = x.active /\ video'.deviceBox = x.deviceBox
    BY <2>3, <2>4, ChannelTaken
  <2> QED
    BY <1>2, <2>2, <2>4, <2>5 DEF Consistent, AllShown
<1>5. CASE ChooseSize
  <2>1. PICK row \in DOMAIN SizeRows(video) :
          video' = slotResolutionChanged([video EXCEPT !.sizeBox = row], row)
    BY <1>5 DEF ChooseSize
  <2> DEFINE x == [video EXCEPT !.sizeBox = row]
  <2>2. SameModel(video, x) /\ x.deviceBox = video.deviceBox /\ x.sizeBox = row
    BY <1>1, SizeBox DEF Good, Unsaved
  <2>3. video' = slotResolutionChanged(x, row)
    BY <2>1
  <2> HIDE DEF x
  <2>4. Good(x) /\ Known(x) /\ SizeRows(x) = SizeRows(video) /\ x.active = video.active
    BY <1>1, <1>2, <2>2, Boxed DEF SameModel
  <2>5. /\ Good(video') /\ Known(video') /\ RateShown(video')
        /\ video'.active = x.active /\ video'.deviceBox = x.deviceBox /\ video'.sizeBox = x.sizeBox
        /\ SizeRows(video') = SizeRows(x) /\ video'.stored[video'.active].size = SizeRows(x)[row]
    BY <2>1, <2>3, <2>4, SizeTaken
  <2>6. SizeShown(video')
    BY <2>1, <2>2, <2>4, <2>5 DEF SizeShown
  <2> QED
    BY <1>2, <2>2, <2>4, <2>5, <2>6 DEF Consistent, AllShown
<1>6. CASE ChooseRate
  <2>1. PICK row \in DOMAIN RateRows(video) :
          video' = setActiveRate([video EXCEPT !.rateBox = row], row)
    BY <1>6 DEF ChooseRate
  <2> DEFINE x == [video EXCEPT !.rateBox = row]
  <2>2. /\ SameModel(video, x) /\ x.deviceBox = video.deviceBox
        /\ x.sizeBox = video.sizeBox /\ x.rateBox = row
    BY <1>1, RateBox DEF Good, Unsaved
  <2>3. video' = setActiveRate(x, row)
    BY <2>1
  <2> HIDE DEF x
  <2>4. /\ Good(x) /\ Known(x) /\ RateRows(x) = RateRows(video) /\ SizeRows(x) = SizeRows(video)
        /\ x.active = video.active /\ x.stored = video.stored
    BY <1>1, <1>2, <2>2, Boxed DEF SameModel
  <2>5. /\ Stores(x, video')
        /\ video'.stored[video'.active].channel = x.stored[x.active].channel
        /\ video'.stored[video'.active].size = x.stored[x.active].size
        /\ video'.stored[video'.active].rate = RateRows(x)[row]
    BY <2>1, <2>3, <2>4, RateStored
  <2>6. Good(video') /\ Known(video') /\ SameBoxes(x, video')
    BY <2>5 DEF Stores
  <2>7. SizeRows(video') = SizeRows(x) /\ RateRows(video') = RateRows(x)
    BY <2>4, <2>5, <2>6, Levels DEF SameBoxes
  <2>8. SizeShown(video') /\ RateShown(video')
    BY <1>2, <2>1, <2>2, <2>4, <2>5, <2>6, <2>7 DEF SizeShown, RateShown, SameBoxes
  <2> QED
    BY <1>2, <2>2, <2>4, <2>6, <2>8 DEF Consistent, AllShown, SameBoxes
<1> QED
  BY <1>3, <1>4, <1>5, <1>6 DEF Choose

(* The program starts: nothing is remembered, so all of it follows.        *)
LEMMA Started ==
  ASSUME NEW stored,
         stored = [d \in Devs |-> [channel |-> stored[d].channel, size |-> stored[d].size,
                                   rate |-> stored[d].rate]],
         \A d \in Devs : Names(d, stored[d].channel, stored[d].size, stored[d].rate),
         NEW row \in DOMAIN Devices, NEW w, w = setActive(Forgotten(stored), row)
  PROVE  Consistent(w) /\ w.deviceBox = 0 /\ w.stored = stored
<1> DEFINE v == Forgotten(stored)
<1>1. Devices[1] \in Devs /\ 1 \in DOMAIN Devices
  BY VideoAssumption DEF Devs
<1>2. /\ v.stored = stored /\ v.active = Devices[1] /\ v.default = Devices[1] /\ v.deviceBox = 0
      /\ v = [default |-> v.default, active |-> v.active, stored |-> v.stored,
              channel |-> v.channel, size |-> v.size, rate |-> v.rate,
              deviceBox |-> v.deviceBox, channelBox |-> v.channelBox,
              sizeBox |-> v.sizeBox, rateBox |-> v.rateBox]
      /\ v.channel = [d \in Devs |-> Unknown]
      /\ v.size = [d \in Devs |-> [c \in DOMAIN Sizes[d] |-> Unknown]]
      /\ v.rate = [d \in Devs |-> [c \in DOMAIN Rates[d] |-> [x \in DOMAIN Rates[d][c] |-> Unknown]]]
  BY DEF Forgotten, Devs
<1> HIDE DEF v
<1>3. Forms(v)
  BY <1>2, Lists DEF Forms, Maps
<1>4. \A d \in Devs : Remembers(v, d) /\ Follows(v, d)
  <2> SUFFICES ASSUME NEW d \in Devs PROVE Remembers(v, d) /\ Follows(v, d)
    OBVIOUS
  <2>1. /\ DOMAIN Rates[d] = DOMAIN Sizes[d] /\ stored[d].channel \in DOMAIN Sizes[d]
        /\ stored[d].size \in DOMAIN Rates[d][stored[d].channel]
    BY Lists DEF Names
  <2>2. Remembers(v, d)
    BY <1>2, <2>1 DEF Remembers
  <2>3. Follows(v, d)
    BY <1>2, <2>1 DEF Follows
  <2> QED
    BY <2>2, <2>3
<1>5. Good(v)
  BY <1>1, <1>2, <1>3, <1>4 DEF Good, Unsaved
<1>6. w = setActive(v, row)
  BY DEF v
<1>7. Good(w) /\ w.stored = v.stored /\ w.active = Devices[row] /\ w.deviceBox = v.deviceBox
  BY <1>5, <1>6, ActiveSet
<1> QED
  BY <1>2, <1>7 DEF Consistent

LEMMA VideoStart == Init => VideoInv
<1> SUFFICES ASSUME Init PROVE VideoInv
  OBVIOUS
<1>1. PICK row \in DOMAIN Devices, stored \in InitialSettings :
        video = setActive(Forgotten(stored), row)
  BY DEF Init, VideoInit
<1>2. /\ stored = [d \in Devs |-> [channel |-> stored[d].channel, size |-> stored[d].size,
                                   rate |-> stored[d].rate]]
      /\ \A d \in Devs : IsStored(d, stored[d])
  BY VideoAssumption DEF Devs
<1>3. ASSUME NEW d \in Devs
      PROVE  Names(d, stored[d].channel, stored[d].size, stored[d].rate)
  <2> DEFINE t == stored[d]
  <2>1. /\ Row(Channels[d], t.channel) # 0 /\ Row(Sizes[d][t.channel], t.size) # 0
        /\ Row(Rates[d][t.channel][t.size], t.rate) # 0
    BY <1>2 DEF IsStored
  <2> HIDE DEF t
  <2>2. Has(Channels[d], t.channel) /\ t.channel \in DOMAIN Sizes[d]
    BY <2>1, Lists, RowOf
  <2>3. Has(Sizes[d][t.channel], t.size) /\ t.size \in DOMAIN Rates[d][t.channel]
    BY <2>1, <2>2, Lists, RowOf
  <2>4. Has(Rates[d][t.channel][t.size], t.rate)
    BY <2>1, <2>2, <2>3, Lists, RowOf
  <2> QED
    BY <2>2, <2>3, <2>4 DEF Names, t
<1>4. Consistent(video)
  BY <1>1, <1>2, <1>3, Started
<1> QED
  BY <1>4 DEF VideoInv, Init

LEMMA VideoKept ==
  ASSUME VideoInv, [Next]_vars
  PROVE  VideoInv' /\ (video'.stored # video.stored =>
                         video.deviceBox # 0 /\ video'.deviceBox = video.deviceBox)
<1>0. Consistent(video)
  BY DEF VideoInv
<1>1. ASSUME video' = video, UNCHANGED <<open, loaded>>
      PROVE  VideoInv' /\ video'.stored = video.stored
  <2>1. Consistent(video')
    BY <1>0, <1>1
  <2> QED
    BY <1>1, <2>1 DEF VideoInv
<1>2. CASE configureSflPhone
  <2>1. video' = [video EXCEPT !.deviceBox = 0] /\ "video" \notin loaded'
    BY <1>2 DEF configureSflPhone
  <2>2. SameModel(video, video') /\ video'.deviceBox = 0
    BY <1>0, <2>1, DeviceBox DEF Consistent, Good, Unsaved
  <2>3. Consistent(video') /\ video'.stored = video.stored
    BY <1>0, <2>2, Boxed DEF Consistent, SameModel
  <2> QED
    BY <2>1, <2>3 DEF VideoInv
<1>3. CASE display
  <2>1. PICK page \in Pages \ loaded :
          loaded' = loaded \union {page} /\ open' = open /\ FillVideo(page)
    BY <1>3 DEF display
  <2>2. CASE page = "video"
    <3>1. video' = slotReloadDevices(video)
      BY <2>1, <2>2 DEF FillVideo
    <3>2. Consistent(video') /\ video'.deviceBox # 0 /\ video'.stored = video.stored
      BY <1>0, <3>1, Reloaded
    <3> QED
      BY <3>2 DEF VideoInv
  <2>3. CASE page # "video"
    <3>1. video' = video
      BY <2>1, <2>3 DEF FillVideo
    <3>2. Consistent(video')
      BY <1>0, <3>1
    <3> QED
      BY <2>1, <2>3, <3>1, <3>2 DEF VideoInv
  <2> QED
    BY <2>2, <2>3
<1>4. CASE EditDays \/ EditDetail \/ EditHook \/ EditDevice \/ setCurrentManager \/ EditMacros
  BY <1>1, <1>4 DEF EditDays, EditDetail, EditHook, EditDevice, setCurrentManager, EditMacros,
                    Mark, MarkAudio, dialogVars
<1>5. CASE EditVideo
  <2>1. open /\ "video" \in loaded /\ Choose /\ UNCHANGED <<open, loaded>>
    BY <1>5 DEF EditVideo, On, Mark
  <2>2. video.deviceBox # 0
    BY <2>1 DEF VideoInv
  <2>3. /\ Consistent(video') /\ video'.deviceBox # 0
        /\ video'.stored # video.stored => video'.deviceBox = video.deviceBox
    BY <1>0, <2>1, <2>2, Chosen
  <2> QED
    BY <2>1, <2>2, <2>3 DEF VideoInv
<1>6. CASE Apply \/ Ok
  <2>1. /\ open /\ open' \in {open, FALSE} /\ loaded' = loaded
        /\ video' = IF "video" \in loaded THEN setActive(video, video.deviceBox) ELSE video
    BY <1>6 DEF Apply, Ok, applyCustomSettings, updateSettings, SaveVideo
  <2>2. CASE "video" \notin loaded
    <3>1. Consistent(video')
      BY <1>0, <2>1, <2>2
    <3> QED
      BY <2>1, <2>2, <3>1 DEF VideoInv
  <2>3. CASE "video" \in loaded
    <3>1. Good(video) /\ AllShown(video) /\ video.deviceBox # 0
      BY <1>0, <2>1, <2>3 DEF VideoInv, Consistent
    <3>2. video.deviceBox \in DOMAIN Devices /\ Devices[video.deviceBox] = video.active
      BY <3>1 DEF AllShown
    <3>3. /\ SameModel(video, video') /\ video'.deviceBox = video.deviceBox
          /\ video'.sizeBox = video.sizeBox /\ video'.rateBox = video.rateBox
      BY <2>1, <2>3, <3>1, <3>2, ActiveSet
    <3>4. Good(video') /\ Known(video') /\ SizeRows(video') = SizeRows(video)
          /\ RateRows(video') = RateRows(video)
      BY <3>1, <3>3, Boxed DEF AllShown
    <3>5. Consistent(video') /\ video'.stored = video.stored
      BY <3>1, <3>2, <3>3, <3>4 DEF Consistent, AllShown, SameModel, SizeShown, RateShown
    <3> QED
      BY <3>1, <3>3, <3>5 DEF VideoInv
  <2> QED
    BY <2>2, <2>3
<1>7. CASE Cancel
  <2>1. video' = video /\ ~open'
    BY <1>7 DEF Cancel
  <2>2. Consistent(video')
    BY <1>0, <2>1
  <2> QED
    BY <2>1, <2>2 DEF VideoInv
<1>8. CASE Restart
  <2> DEFINE row == Row(Devices, video.default)
             stored == video.stored
  <2>1. ~open' /\ video' = setActive(Forgotten(stored), row)
    BY <1>8 DEF Restart, dialogVars
  <2>2. IsList(Devices) /\ Has(Devices, video.default)
    BY <1>0, VideoAssumption DEF Consistent, Good, Unsaved, IsList, Has
  <2>3. row \in DOMAIN Devices
    BY <2>2, RowOf
  <2>4. stored = [d \in Devs |-> [channel |-> stored[d].channel, size |-> stored[d].size,
                                  rate |-> stored[d].rate]]
    BY <1>0 DEF Consistent, Good, Unsaved, Forms
  <2>5. \A d \in Devs : Names(d, stored[d].channel, stored[d].size, stored[d].rate)
    BY <1>0 DEF Consistent, Good, Unsaved
  <2> HIDE DEF row, stored
  <2>6. Consistent(video') /\ video'.stored = stored
    BY <2>1, <2>3, <2>4, <2>5, Started
  <2> QED
    BY <2>1, <2>6 DEF VideoInv, stored
<1>9. CASE UNCHANGED vars
  BY <1>1, <1>9 DEF vars, dialogVars
<1> QED
  BY <1>2, <1>3, <1>4, <1>5, <1>6, <1>7, <1>8, <1>9 DEF Next

LEMMA VideoInvariance == Spec => []VideoInv
  BY VideoStart, VideoKept, PTL DEF Spec

(* The boxes show the camera, the size and the rate the daemon has stored, *)
(* however the slots of videosettings.cpp ran inside one another.          *)
THEOREM BoxesCorrect == Spec => []SizeAndRateShown
<1>1. VideoInv => SizeAndRateShown
  <2> SUFFICES ASSUME VideoInv, video.deviceBox # 0 PROVE SizeAndRateShown
    BY DEF SizeAndRateShown
  <2>1. AllShown(video) /\ video.default = video.active
    BY DEF VideoInv, Consistent, Good, Unsaved
  <2> QED
    BY <2>1 DEF SizeAndRateShown, AllShown, SizeShown, RateShown
<1> QED
  BY <1>1, VideoInvariance, PTL

(* Showing a camera calls the slots that save its settings (slotDevice-    *)
(* Changed, Device::save) and still changes nothing the daemon has stored. *)
THEOREM LookingCorrect == Spec => LookingKeepsSettings
<1>1. VideoInv /\ [Next]_vars =>
        [video'.stored # video.stored =>
           video.deviceBox # 0 /\ video'.deviceBox = video.deviceBox]_video
  BY VideoKept
<1> QED
  BY <1>1, VideoInvariance, PTL DEF Spec, LookingKeepsSettings
-----------------------------------------------------------------------------
(* The macros.                                                             *)

LEMMA MacrosKept == MacroInv /\ [Next]_vars => MacroInv'
<1>. SUFFICES ASSUME MacroInv, [Next]_vars PROVE MacroInv'
  OBVIOUS
<1>1. CASE EditMacros
  BY <1>1, Edited DEF EditMacros
<1>2. CASE Apply \/ Ok
  <2>1. saveMacros \/ UNCHANGED macroVars
    BY <1>2 DEF Apply, Ok, applyCustomSettings, updateSettings, SaveMacros
  <2>. QED
    BY <2>1, WrittenToFile DEF MacroInv, macroVars
<1>3. CASE Restart
  BY <1>3, ReadAgain DEF Restart
<1>4. CASE configureSflPhone
  BY <1>4 DEF configureSflPhone, MacroInv
<1>5. CASE \/ display \/ EditDays \/ EditDetail \/ EditHook \/ EditDevice
           \/ setCurrentManager \/ EditVideo \/ Cancel \/ UNCHANGED vars
  <2>1. UNCHANGED macroVars
    BY <1>5, Zenon DEF display, EditDays, EditDetail, EditHook, EditDevice, setCurrentManager,
                EditVideo, Cancel, vars
  <2>. QED
    BY <2>1 DEF MacroInv, macroVars
<1>. QED
  BY <1>1, <1>2, <1>3, <1>4, <1>5 DEF Next

LEMMA MacroInvariance == Spec => []MacroInv
<1>1. Init => MacroInv
  BY MacroStart DEF Init
<1>. QED
  BY <1>1, MacrosKept, PTL DEF Spec

(* Every macro is listed once, by the category it points to, and no two    *)
(* categories have one name, for any number of macros and names, after any *)
(* edits, removals, edits of what was removed, and restarts (changed,      *)
(* updateTreeModel, removeMacro, initMacros of macromodel.cpp).            *)
THEOREM MacrosCorrect == Spec => []MacrosAgree
  BY MacroInvariance, NeatAgrees, PTL

(* What is saved is read by the next start in the same groups, whatever    *)
(* the order in which macros and categories came to be (save, initMacros). *)
THEOREM FileCorrect == Spec => FileReadsBack
<1>1. MacroInv /\ [Next]_vars =>
        [file' # file => Groups(Read(file')) = Groups(tree)]_<<tree, file>>
  <2>. SUFFICES ASSUME MacroInv, [Next]_vars, file' # file
                PROVE  Groups(Read(file')) = Groups(tree)
    OBVIOUS
  <2>1. saveMacros
    <3>1. CASE EditMacros
      BY <3>1 DEF EditMacros, addMacro, setCurrent, EditMacro, removeMacro
    <3>2. CASE Apply \/ Ok
      BY <3>2 DEF Apply, Ok, applyCustomSettings, updateSettings, SaveMacros, macroVars
    <3>3. CASE Restart \/ configureSflPhone
      BY <3>3 DEF Restart, configureSflPhone
    <3>4. CASE \/ display \/ EditDays \/ EditDetail \/ EditHook \/ EditDevice
               \/ setCurrentManager \/ EditVideo \/ Cancel \/ UNCHANGED vars
      BY <3>4, Zenon DEF display, EditDays, EditDetail, EditHook, EditDevice, setCurrentManager,
                  EditVideo, Cancel, vars, macroVars
    <3>. QED
      BY <3>1, <3>2, <3>3, <3>4 DEF Next
  <2>. QED
    BY <2>1, WrittenToFile
<1>. QED
  BY <1>1, MacroInvariance, PTL DEF Spec, FileReadsBack
=============================================================================
