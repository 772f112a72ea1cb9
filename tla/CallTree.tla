------------------------------ MODULE CallTree ------------------------------
(***************************************************************************)
(* The tree of calls and conferences of the client                         *)
(* (src/src/lib/callmodel.cpp): how the daemon's signals, the user's drags *)
(* and drops and the errors of single calls change it.                     *)
(*                                                                         *)
(* The daemon is another process.  Its signals wait in the order it sent   *)
(* them, and while the client handles one it asks the daemon who is in the *)
(* conference NOW, which may be later than the signal.                     *)
(*                                                                         *)
(* What CallModel needs of a call's state is modelled here; Call.tla has   *)
(* the rest.  removeCall and its clean-up of conferences call each other,  *)
(* as the operators do here.                                               *)
(***************************************************************************)
EXTENDS FiniteSets, SequencesExt

CONSTANTS
  Calls,       (* the daemon's calls                                       *)
  Confs,       (* the daemon's conferences                                 *)
  None,        (* no conference                                            *)
  ConfStates,  (* the states conferenceChanged may announce                *)
  MaxSignals,  (* bound: signals on their way                              *)
  MaxDetached, (* bound: conferences said to be detached                   *)
  MaxLocal     (* bound: changes of state that do not come from the daemon *)

ASSUME CallsAssumption == Calls \intersect Confs = {} /\ None \notin Calls \union Confs
ASSUME StatesAssumption ==
  ConfStates \subseteq {"ACTIVE_ATTACHED", "ACTIVE_DETACHED", "HOLD"}
ASSUME BoundsAssumption == MaxSignals \in Nat /\ MaxDetached \in Nat /\ MaxLocal \in Nat

VARIABLES
  tree,      (* the InternalStructs, see TypeOK                            *)
  state,     (* of each call and conference, as the client knows it        *)
  members,   (* the daemon's: the calls in each conference                 *)
  line,      (* the daemon's: "free", "up" or "gone", of each call         *)
  signals,   (* sent by the daemon, not yet handled by the client          *)
  local,     (* how often a state changed without the daemon: a counter    *)
  detached,  (* history: the conferences the client was told are detached  *)
  lost       (* history: the participants that cost their row, see Recall  *)

daemonVars == <<members, line, signals>>
treeVars == <<tree, state, daemonVars, local>>
vars == <<treeVars, detached, lost>>

Nodes == Calls \union Confs

(* Live calls and conferences; FAILURE and BUSY; ERROR; OVER; and a call   *)
(* or conference the client was not told of.                               *)
State    == {"new", "live", "failed", "error", "over"}
Finished == {"failed", "error", "over"}

-----------------------------------------------------------------------------
(* The structure: t.top is m_lInternalModel, t.children[k] m_lChildren,    *)
(* t.parent[c] m_pParent, t.ids the keys of m_sPrivateCallList_callId.     *)

(* index(): x is a row at the top, or below a conference at the top. *)
Row(t, x) ==
  \/ Contains(t.top, x)
  \/ \E k \in Confs \intersect ToSet(t.top) : Contains(t.children[k], x)

(* parent(): the conference only while it is in the tree. *)
ParentRow(t, x) ==
  IF x \in Calls /\ Contains(t.top, t.parent[x]) THEN t.parent[x] ELSE None

(* removeInternal *)
RemoveInternal(t, x) == [t EXCEPT !.top = RemoveFirst(@, x)]

(* addCall *)
AddCall(t, c) == [t EXCEPT !.top = Append(@, c), !.ids = @ \union {c}]

(* "Restore calls to the main list if they are not really over". *)
RestoreChildren(t, st, k) ==
  [t EXCEPT !.top = @ \o SelectSeq(t.children[k], LAMBDA c : st[c] \notin {"over", "error"})]

Childless(t, k) == t.children[k] = <<>>

Broken(t, st, k) ==
  \/ Childless(t, k)
  \/ "error" \in {st[t.children[k][1]], st[Last(t.children[k])]}

RECURSIVE RemoveCall(_, _, _), RemoveBroken(_, _, _)

(* removeCall: the row, the id, and the children back to the top; then the *)
(* clean-up over a copy of the top, taken here.                            *)
RemoveCall(t, st, x) ==
  LET gone     == [RemoveInternal(RemoveInternal(t, x), x) EXCEPT !.ids = @ \ {x}]
      restored == IF x \in Confs THEN RestoreChildren(gone, st, x) ELSE gone
  IN  RemoveBroken(restored, st, restored.top)

(* "The daemon often fail to emit the right signal, cleanup manually". *)
RemoveBroken(t, st, copy) ==
  IF copy = <<>> THEN t
  ELSE LET k == Head(copy)
       IN  RemoveBroken(IF k \in Confs /\ Broken(t, st, k) THEN RemoveCall(t, st, k) ELSE t,
                        st, Tail(copy))

(* The same in slotChangingConference, of the conferences without a child. *)
RemoveChildless(t, st) ==
  FoldLeft(LAMBDA u, k : IF k \in Confs /\ Childless(u, k) THEN RemoveCall(u, st, k) ELSE u,
           t, t.top)

(* slotCallChanged *)
CallChanged(t, st, x) == IF st[x] \in {"error", "over"} THEN RemoveCall(t, st, x) ELSE t

-----------------------------------------------------------------------------
(* Conferences.                                                            *)

(* Faulty forms: the call keeps its row at the top; it does not learn of   *)
(* its conference, as an orphan that Reconcile adopts.                     *)
AdoptInPlace(t, k, c) ==
  [t EXCEPT !.parent[c] = k, !.children[k] = IF Contains(@, c) THEN @ ELSE Append(@, c)]

AdoptUntold(t, k, c) ==
  [RemoveInternal(t, c) EXCEPT !.children[k] = IF Contains(@, c) THEN @ ELSE Append(@, c)]

(* A call becomes a participant of k. *)
Adopt(t, k, c) ==
  LET p    == t.parent[c]
      left == IF p \in Confs \ {k}
              THEN [t EXCEPT !.children[p] = Remove(@, c)] ELSE t
  IN  [RemoveInternal(left, c) EXCEPT
         !.parent[c] = k,
         !.children[k] = IF Contains(@, c) THEN @ ELSE Append(@, c)]

AdoptAll(t, k, participants) ==
  FoldLeft(LAMBDA u, c : IF c \in t.ids THEN Adopt(u, k, c) ELSE u, t, participants)

(* addConference; its first participant must be known (and have an         *)
(* account, as every call of the daemon has).  A conference that           *)
(* was removed before is a new object: what still pointed to the old one   *)
(* keeps pointing to it, which is Stale.                                   *)
Stale == "stale"

Addable(t, participants) == participants # <<>> /\ participants[1] \in t.ids

AddConference(t, k, participants) ==
  IF ~Addable(t, participants) THEN t
  ELSE AdoptAll([t EXCEPT !.top = Append(@, k),
                          !.ids = @ \union {k},
                          !.children[k] = <<>>,
                          !.parent = [c \in Calls |-> IF @[c] = k THEN Stale ELSE @[c]]],
                k, participants)

(* confStatetoCallState *)
ConfState(s) == IF s \in {"HOLD", "ACTIVE_ATTACHED"} THEN "live" ELSE "error"

(* "First remove old participants, add them back to the top level list". *)
ReleaseOld(t, st, k, participants) ==
  LET old == SelectSeq(t.children[k],
                       LAMBDA c : ~Contains(participants, c) /\ st[c] \notin Finished)
  IN  [t EXCEPT !.top = @ \o old,
                !.parent = [c \in Calls |-> IF Contains(old, c) THEN None ELSE @[c]],
                !.children[k] = <<>>]

(* "Test if there is no inconsistencies between the daemon and the client":*)
(* one call the daemon says is in the conference k, or in none.            *)
Reconcile(t, c, k) ==
  IF c \notin t.ids THEN t
  ELSE IF t.parent[c] # None
       THEN IF k = None THEN [t EXCEPT !.parent[c] = None] ELSE t
       ELSE IF k \in t.ids
            THEN [RemoveInternal(t, c) EXCEPT
                    !.children[k] = IF Contains(@, c) THEN @ ELSE Append(@, c)]
            ELSE t

-----------------------------------------------------------------------------
(* The daemon (external): its calls, its conferences, its signals.         *)

ConfOf(ms, c) ==
  IF \E k \in Confs : Contains(ms[k], c)
  THEN CHOOSE k \in Confs : Contains(ms[k], c) ELSE None

Up(l) == {c \in Calls : l[c] = "up"}

CallSignal(c, s) == [about |-> c, says |-> s]
ConfSignal(k, s) == [about |-> k, says |-> s]

(* A call leaves its conference: one that only one call is left in ends.   *)
Without(ms, c) ==
  [k \in Confs |-> IF ~Contains(ms[k], c) THEN ms[k]
                   ELSE IF Len(ms[k]) > 2 THEN Remove(ms[k], c) ELSE <<>>]

LeaveSignals(ms, c, s) ==
  LET k == ConfOf(ms, c)
  IN  IF k = None THEN <<>>
      ELSE IF Len(ms[k]) > 2 THEN <<ConfSignal(k, s)>>
      ELSE <<ConfSignal(k, "REMOVED")>>

(* Nothing says in which order the daemon sends the signals of one order.  *)
Send(first, second) ==
  /\ \/ signals' = signals \o first \o second
     \/ signals' = signals \o second \o first
  /\ Len(signals') <= MaxSignals
  /\ Cardinality(detached \union {x.about : x \in {x \in ToSet(signals') : x.says = "ACTIVE_DETACHED"}})
       <= MaxDetached

(* A call of the daemon begins: the user dialled it here, it is incoming,  *)
(* or another client placed it.                                            *)
NewCall(c) ==
  /\ line[c] = "free"
  /\ line' = [line EXCEPT ![c] = "up"]
  /\ UNCHANGED <<members, local>>
  /\ \/ tree' = AddCall(tree, c) /\ state' = [state EXCEPT ![c] = "live"] /\ UNCHANGED signals
     \/ Send(<<CallSignal(c, "INCOMING")>>, <<>>) /\ UNCHANGED <<tree, state>>

(* It hangs up, or fails; a call that failed may stay where it was.        *)
EndCall(c) ==
  /\ line[c] = "up"
  /\ line' = [line EXCEPT ![c] = "gone"]
  /\ members' = Without(members, c)
  /\ \E s \in ConfStates : Send(<<CallSignal(c, "HUNGUP")>>, LeaveSignals(members, c, s))
  /\ UNCHANGED <<tree, state, local>>

FailCall(c) ==
  /\ line[c] = "up"
  /\ UNCHANGED <<tree, state, line, local>>
  /\ \/ Send(<<CallSignal(c, "FAILURE")>>, <<>>) /\ UNCHANGED members
     \/ /\ members' = Without(members, c)
        /\ \E s \in ConfStates : Send(<<CallSignal(c, "FAILURE")>>, LeaveSignals(members, c, s))

(* The user leaves the conference or comes back, holds it or unholds it.   *)
NewConfState(k) ==
  /\ members[k] # <<>>
  /\ \E s \in ConfStates : Send(<<ConfSignal(k, s)>>, <<>>)
  /\ UNCHANGED <<tree, state, members, line, local>>

(* The orders; the daemon ignores one about a call that is gone.           *)
JoinParticipant(x, y) ==
  /\ {x, y} \subseteq Up(line)
  /\ \E k \in Confs, s \in ConfStates :
       /\ state[k] = "new" /\ members[k] = <<>>
       /\ \A i \in 1..Len(signals) : signals[i].about # k
       /\ members' = [Without(Without(members, x), y) EXCEPT ![k] = <<x, y>>]
       /\ Send(LeaveSignals(members, x, s) \o LeaveSignals(Without(members, x), y, s),
               <<ConfSignal(k, "CREATED")>>)

DetachParticipant(x) ==
  /\ ConfOf(members, x) # None
  /\ members' = Without(members, x)
  /\ \E s \in ConfStates : Send(LeaveSignals(members, x, s), <<>>)

AddParticipant(x, k) ==
  /\ x \in Up(line) /\ members[k] # <<>> /\ ConfOf(members, x) # k
  /\ members' = [Without(members, x) EXCEPT ![k] = Append(@, x)]
  /\ \E s \in ConfStates : Send(LeaveSignals(members, x, s), <<ConfSignal(k, s)>>)

JoinConference(k1, k2) ==
  /\ members[k1] # <<>> /\ members[k2] # <<>>
  /\ members' = [members EXCEPT ![k1] = <<>>, ![k2] = @ \o members[k1]]
  /\ \E s \in ConfStates : Send(<<ConfSignal(k1, "REMOVED")>>, <<ConfSignal(k2, s)>>)

-----------------------------------------------------------------------------
(* The user.                                                               *)

(* dropMimeData: the call or conference x is dropped on the row y, to make *)
(* a conference.  Which order that is depends on what the two are.         *)
PartOfItself(x, y) ==
  LET under == {y, ParentRow(tree, y)} \intersect Confs
  IN  x \in under \/ \E k \in under : Contains(tree.children[k], x)

Drop(x, y) ==
  /\ x # y /\ x \in tree.ids /\ Row(tree, y)
  /\ ~PartOfItself(x, y)
  /\ LET over == IF y \in Confs THEN y ELSE ParentRow(tree, y)
     IN  IF over # None
         THEN IF x \in Confs THEN JoinConference(x, over) ELSE AddParticipant(x, over)
         ELSE IF x \in Confs
              THEN tree.children[x] # <<>> /\ AddParticipant(y, x)
              ELSE Row(tree, x) /\ JoinParticipant(x, y)
  /\ UNCHANGED <<tree, state, line, local>>

Detach(x) == x \in tree.ids /\ DetachParticipant(x) /\ UNCHANGED <<tree, state, line, local>>

(* A state that does not come from the daemon.                             *)
Locally(x, s) ==
  /\ local < MaxLocal /\ local' = local + 1
  /\ state' = [state EXCEPT ![x] = s]
  /\ tree' = CallChanged(tree, state', x)
  /\ UNCHANGED daemonVars

(* An action the tables of call.cpp answer with ERROR. *)
ActionRefused(x) == Row(tree, x) /\ state[x] \in {"live", "failed"} /\ Locally(x, "error")

(* A call cancelled, transferred, or removed from the list by the user.    *)
CallOver(c) == Row(tree, c) /\ state[c] \in {"live", "failed", "error"} /\ Locally(c, "over")

(* attendedTransfer; the daemon ends both calls later.                     *)
AttendedTransfer(x, y) ==
  /\ x # y /\ x \in tree.ids /\ Row(tree, y)
  /\ local < MaxLocal /\ local' = local + 1
  /\ LET first == [state EXCEPT ![x] = "over"]
     IN  /\ state' = [first EXCEPT ![y] = "over"]
         /\ tree' = CallChanged(CallChanged(tree, first, x), state', y)
  /\ UNCHANGED daemonVars

(* updateWindowCallState asks for the conferences; getActiveConferences    *)
(* adds those it does not know.                                            *)
Refresh ==
  LET missing == {k \in Confs : k \notin tree.ids /\ Addable(tree, members[k])}
  IN  /\ missing # {}
      /\ Cardinality({c \in Calls : Row(tree, c) /\ state[c] = "live"}) > 1
      /\ \E list \in SetToSeqs(missing) :
           tree' = FoldLeft(LAMBDA t, k : AddConference(t, k, members[k]), tree, list)
      /\ state' = [x \in Nodes |-> IF x \in missing THEN "live" ELSE state[x]]
      /\ UNCHANGED <<daemonVars, local>>

-----------------------------------------------------------------------------
(* The slots: the client handles the oldest signal.                        *)

Receive(x, s) ==
  /\ signals # <<>>
  /\ Head(signals) = [about |-> x, says |-> s]
  /\ signals' = Tail(signals)
  /\ UNCHANGED <<members, line, local>>

Ignored == UNCHANGED <<tree, state>>

(* slotIncomingCall, and slotCallStateChanged of an unknown call. *)
CallAppears(c) ==
  /\ Receive(c, "INCOMING")
  /\ tree' = AddCall(tree, c)
  /\ state' = [state EXCEPT ![c] = "live"]

(* slotCallStateChanged, FAILURE: "keep errors and failure one". *)
CallFails(c) ==
  /\ Receive(c, "FAILURE")
  /\ IF c \in tree.ids
     THEN state' = [state EXCEPT ![c] = "failed"] /\ UNCHANGED tree
     ELSE Ignored

(* slotCallStateChanged, HUNGUP: two slotCallChanged and its own removal.  *)
CallEnds(c) ==
  /\ Receive(c, "HUNGUP")
  /\ IF c \in tree.ids
     THEN /\ state' = [state EXCEPT ![c] = "over"]
          /\ tree' = RemoveCall(CallChanged(CallChanged(tree, state', c), state', c), state', c)
     ELSE Ignored

(* slotIncomingConference *)
ConferenceCreated(k) ==
  /\ Receive(k, "CREATED")
  /\ IF k \notin tree.ids /\ Addable(tree, members[k])
     THEN tree' = AddConference(tree, k, members[k]) /\ state' = [state EXCEPT ![k] = "live"]
     ELSE Ignored

(* slotChangingConference *)
ConferenceChanged(k) == \E s \in ConfStates :
  /\ Receive(k, s)
  /\ IF k \in tree.ids /\ k \in ToSet(tree.top)
     THEN LET st     == [state EXCEPT ![k] = ConfState(s)]
              told   == CallChanged(tree, st, k)
              freed  == ReleaseOld(told, st, k, members[k])
              filled == AdoptAll(freed, k, members[k])
              clean  == RemoveChildless(filled, st)
          IN  /\ state' = st
              /\ \E list \in SetToSeqs(Up(line)) :
                   tree' = FoldLeft(LAMBDA t, c : Reconcile(t, c, ConfOf(members, c)), clean, list)
     ELSE Ignored

(* slotConferenceRemoved *)
ConferenceRemoved(k) ==
  /\ Receive(k, "REMOVED")
  /\ tree' = IF k \in tree.ids THEN RemoveCall(tree, state, k) ELSE tree
  /\ UNCHANGED state

-----------------------------------------------------------------------------
(* The client starts while the daemon has calls: the constructor and init  *)
(* add the calls, then the conferences.                                    *)

Members(up) ==
  {ms \in [Confs -> {<<>>} \union UNION {SetToSeqs(S) : S \in {T \in SUBSET up : Cardinality(T) > 1}}] :
     \A j, k \in Confs : j # k => ToSet(ms[j]) \intersect ToSet(ms[k]) = {}}

Init ==
  \E up \in SUBSET Calls :
    /\ line = [c \in Calls |-> IF c \in up THEN "up" ELSE "free"]
    /\ members \in Members(up)
    /\ LET running == {k \in Confs : members[k] # <<>>}
           empty   == [top |-> <<>>, children |-> [k \in Confs |-> <<>>],
                       parent |-> [c \in Calls |-> None], ids |-> {}]
       IN  /\ \E calls \in SetToSeqs(up), confs \in SetToSeqs(running) :
                tree = FoldLeft(LAMBDA t, k : AddConference(t, k, members[k]),
                                FoldLeft(AddCall, empty, calls), confs)
           /\ state = [x \in Nodes |-> IF x \in up \union running THEN "live" ELSE "new"]
    /\ signals = <<>> /\ local = 0
    /\ detached = {} /\ lost = {}

Daemon == \/ \E c \in Calls : NewCall(c) \/ EndCall(c) \/ FailCall(c)
          \/ \E k \in Confs : NewConfState(k)

User == \/ \E x, y \in Nodes : Drop(x, y) \/ AttendedTransfer(x, y)
        \/ \E x \in Nodes : Detach(x) \/ ActionRefused(x)
        \/ \E c \in Calls : CallOver(c)
        \/ Refresh

Client == \/ \E c \in Calls : CallAppears(c) \/ CallFails(c) \/ CallEnds(c)
          \/ \E k \in Confs : ConferenceCreated(k) \/ ConferenceChanged(k) \/ ConferenceRemoved(k)

(* What is remembered for the properties.  "Detached", the user is no      *)
(* longer in the conference, is an error to confStatetoCallState, and      *)
(* slotChangingConference takes the conference it removed for one that is  *)
(* still there: its participants become rows of nothing, until something   *)
(* gives them one again.                                                   *)
Detaching ==
  /\ Len(signals') < Len(signals)
  /\ Head(signals).says = "ACTIVE_DETACHED" /\ Head(signals).about \in tree.ids

Recall ==
  LET k == Head(signals).about
  IN  /\ detached' = IF Detaching THEN detached \union {k} ELSE detached
      /\ lost' = {c \in lost \union (IF Detaching THEN ToSet(members[k]) ELSE {}) : ~Row(tree', c)}

Next == (Daemon \/ User \/ Client) /\ Recall

Spec == Init /\ [][Next]_vars

-----------------------------------------------------------------------------
(* Every variable has its type; only a removed conference leaves Stale.    *)
TypeOK ==
  /\ tree \in [top: Seq(Nodes), children: [Confs -> Seq(Calls)],
               parent: [Calls -> Confs \union {None, Stale}], ids: SUBSET Nodes]
  /\ state \in [Nodes -> State]
  /\ members \in [Confs -> Seq(Calls)]
  /\ line \in [Calls -> {"free", "up", "gone"}]
  /\ signals \in Seq([about: Nodes, says: STRING])
  /\ local \in 0..MaxLocal
  /\ detached \subseteq Confs /\ lost \subseteq Calls

Live(c) == c \in tree.ids /\ state[c] = "live"

(* Whatever signals are late and whatever ended locally, no clean-up of a  *)
(* conference loses a live call or leaves an ended one among the top rows, *)
(* although it moves children there and may run again for a conference it  *)
(* has already removed.  One thing does lose live calls: that the daemon   *)
(* says their conference is detached.  No other call is ever lost, and an  *)
(* ended one stays only after that, when calls may be there twice.         *)
LiveIsShown == \A c \in Calls :
  /\ Live(c) => Row(tree, c) \/ c \in lost
  /\ detached = {} /\ state[c] \in {"over", "error"} => c \notin ToSet(tree.top)

(* index() and parent() of the Qt model describe the same tree: a live     *)
(* call is among the children of the conference it points to, and of no    *)
(* other one unless a signal about that one is still to be handled.  (With *)
(* four calls, one that moved may be a child of both until then, or point  *)
(* to none: slotChangingConference clears its parent.)                     *)
ParentsAgree == \A c \in Calls, k \in Confs :
  Live(c) /\ k \in ToSet(tree.top) =>
    /\ tree.parent[c] = k => Contains(tree.children[k], c)
    /\ Contains(tree.children[k], c) =>
         tree.parent[c] = k \/ \E i \in 1..Len(signals) : signals[i].about = k

(* Both of the above: a live call is somewhere in the tree, and both ways  *)
(* through the tree lead to it, except a participant that cost its row     *)
(* when the daemon said that its conference is detached.                   *)
RowsAgree == LiveIsShown /\ ParentsAgree

(* When all signals are handled, a conference the client tracks is one of  *)
(* the daemon's and has exactly its live calls, whatever ended locally.    *)
TrackedConferencesAgree ==
  signals = <<>> => \A k \in Confs \intersect tree.ids :
    /\ members[k] # <<>>
    /\ \A c \in Calls : Live(c) => (Contains(tree.children[k], c) <=> Contains(members[k], c))

(* As long as only the daemon changed states, a tree with no signal left   *)
(* to handle is the daemon's: its conferences, its participants, every     *)
(* live call once.  Except that a detached conference is missing, with its *)
(* participants, unless the user's next action has it asked for; those it  *)
(* still had when it ended are lost for good; and after it any call may be *)
(* at the top twice, or also there.                                        *)
Dropped(k) == k \in detached /\ state[k] = "error"

SettledTreeAgrees ==
  local = 0 /\ signals = <<>> =>
    /\ Confs \intersect ToSet(tree.top) = {k \in Confs : members[k] # <<>> /\ ~Dropped(k)}
    /\ \A k \in Confs \intersect ToSet(tree.top) : ToSet(tree.children[k]) = ToSet(members[k])
    /\ \A c \in Calls :
         /\ Live(c) /\ c \notin lost
         /\ \A k \in Confs : Dropped(k) => ~Contains(members[k], c)
         =>
         /\ ParentRow(tree, c) = ConfOf(members, c)
         /\ detached = {} => Cardinality({i \in 1..Len(tree.top) : tree.top[i] = c})
                              = IF ConfOf(members, c) = None THEN 1 ELSE 0

(* Both of the above: with no signal left to handle, the conferences shown *)
(* are the daemon's, as far as the calls that ended locally and what the   *)
(* client makes of a detached conference let them.                         *)
ConferencesAgree == TrackedConferencesAgree /\ SettledTreeAgrees

=============================================================================
