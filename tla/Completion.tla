----------------------------- MODULE Completion -----------------------------
(***************************************************************************)
(* The search of NumberCompletionModel: which entries of the sorted map of *)
(* names (or numbers) match a prefix.  The map is described by what the    *)
(* search sees of it, its shape: how many keys are smaller than the        *)
(* prefix, begin with it, and are greater.  Entries are the positions      *)
(* 1 .. Size(m); Size(m) + 1 is map.end().                                 *)
(***************************************************************************)
EXTENDS Integers

CONSTANT Counts   \* Bound: how many keys there may be of each of the three kinds.

ASSUME CountsAssumption == Counts \subseteq Nat

Size(m) == m.less + m.equal + m.greater

\* The directory holds at least one number once something can be completed:
\* the code takes end() - 1 without asking.  In a map of FarKeys keys or more
\* iBeg + size may step over the end, which QMap does not define: such maps
\* are left out.
FarKeys == 7170
Shapes == {m \in [less : Counts, equal : Counts, greater : Counts] :
             0 < Size(m) /\ Size(m) < FarKeys}

Below(m, p) == p <= m.less
Matches(m, p) == m.less < p /\ p <= m.less + m.equal

\* The entries a prefix should offer.
Matching(m) == {p \in 1 .. Size(m) : Matches(m, p)}

\* The middle the code probes: beyond 7 it adds the size, below it walks one
\* entry less and stops at the end.
Middle(m, beg, size) ==
    IF size > 7 THEN beg + size
    ELSE IF beg + size - 1 > Size(m) THEN Size(m) + 1 ELSE beg + size - 1

\* Faulty form: the right bound stays on the first match.
OnMatch(m, end) == end

\* while ((iEnd).key() matches && iEnd+1 != map.end()) ++iEnd
PastMatches(m, end) ==
    IF ~Matches(m, end) THEN end
    ELSE IF m.greater > 0 THEN m.less + m.equal + 1 ELSE Size(m)

\* One halving of the interval.
Halve(m, r) ==
    LET mid   == Middle(m, r.beg, r.size)
        found == mid <= Size(m) /\ Matches(m, mid) /\ Below(m, r.beg)
        right == ~found /\ ~r.startOk /\ mid <= Size(m) /\ Below(m, mid)
        left  == ~found /\ ~right /\ ~r.endOk
        end   == PastMatches(m, IF left THEN mid ELSE r.end)
    IN  [beg     |-> IF found THEN m.less + 1 ELSE IF right THEN mid ELSE r.beg,
         end     |-> end,
         size    |-> (r.size + 1) \div 2,
         startOk |-> r.startOk \/ found,
         endOk   |-> Matches(m, end)]

\* The search goes on with r.
Goes(r) == r.size > 1 /\ ~(r.startOk /\ r.endOk)

\* The loop: more rounds than the interval is long it cannot go.
Search(m) ==
    LET round[k \in 0 .. Size(m)] ==
          IF k = 0 THEN [beg |-> 1, end |-> Size(m), size |-> Size(m) \div 2,
                         startOk |-> FALSE, endOk |-> FALSE]
          ELSE LET r == round[k - 1] IN IF Goes(r) THEN Halve(m, r) ELSE r
    IN  round[Size(m)]

\* getRange: the entries from the first match after the left bound, the right
\* bound excluded.
GetRange(m) ==
    LET r     == Search(m)
        start == IF r.beg <= m.less THEN m.less + 1 ELSE r.beg
        beg   == IF start > r.end \/ ~Matches(m, start) THEN r.end ELSE start
    IN  beg .. r.end - 1
=============================================================================
