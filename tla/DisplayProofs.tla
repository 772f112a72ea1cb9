----------------------------- MODULE DisplayProofs -----------------------------
(***************************************************************************)
(* What is shown to the user: the hints and the list of completions over   *)
(* the list of calls (Canvas, with the search of Completion), and the      *)
(* frames of a video (VideoRenderer).  The two do not touch each other;    *)
(* the proofs use the same lemmas.                                         *)
(***************************************************************************)
EXTENDS VideoRenderer, Canvas, ListLemmas

-----------------------------------------------------------------------------
(* The manager of the canvas and its tips.                                 *)

CanvasState == {"NO_OBJECT", "TRANSITION_IN", "TRANSITION_OUT", "VISIBLE"}

(* The two values of a flag, by a name.                                    *)
On == TRUE
Off == FALSE

(* A canvas by its fields: what an operation does is an equation on them.  *)
Drawn(c, n, s, t, a, ti, w) ==
  [cur |-> c, next |-> n, state |-> s, tip |-> t, anim |-> a, timer |-> ti, widget |-> w]

(* The fields agree, between handlers: an object waits only for the tip    *)
(* that is going out, and it is another one and not the widget, which      *)
(* waits for nobody; a canvas with nothing in transition has no tip.       *)
Agree(c, n, s, t, a, ti, w) ==
  /\ c \in Objects /\ n \in Objects \ {"AutoComplete"} /\ s \in CanvasState
  /\ ti \in BOOLEAN /\ w \in BOOLEAN
  /\ a = CASE s = "TRANSITION_IN" -> "in" [] s = "TRANSITION_OUT" -> "out" [] OTHER -> "none"
  /\ t = TipOf(c)
  /\ s = "NO_OBJECT" <=> TipOf(c) = "none"
  /\ IF s = "TRANSITION_OUT" THEN n # c ELSE n = "NoObject"
  /\ ti => c = "EndCall"

Agreed(d) == \E c, n, s, t, a, ti, w : d = Drawn(c, n, s, t, a, ti, w) /\ Agree(c, n, s, t, a, ti, w)

LEMMA TipCases ==
  ASSUME NEW o \in Objects
  PROVE  /\ TipOf(o) = "none" <=> o \in {"NoObject", "AutoComplete"}
         /\ TipOf(o) # "none" => TipOf(o) = o
         /\ IsWidget(o) <=> o = "AutoComplete"
         /\ SkipAnimation(o) <=> o = "AutoComplete"
         /\ IsTimed(o) \in BOOLEAN /\ (IsTimed(o) <=> o = "EndCall")
  BY DEF Objects, TipOf, IsWidget, SkipAnimation, IsTimed

LEMMA FieldsAre ==
  ASSUME NEW c, NEW n, NEW s, NEW t, NEW a, NEW ti, NEW w
  PROVE  LET d == Drawn(c, n, s, t, a, ti, w)
         IN  /\ d.cur = c /\ d.next = n /\ d.state = s /\ d.tip = t /\ d.anim = a
             /\ d.timer = ti /\ d.widget = w
  BY DEF Drawn

(* Fields are changed, one after the other.                                *)
PutCurWidget(d, x, y) == [d EXCEPT !.cur = x, !.widget = y]
LEMMA CurWidgetChanged ==
  ASSUME NEW c, NEW n, NEW s, NEW t, NEW a, NEW ti, NEW w, NEW x, NEW y
  PROVE  PutCurWidget(Drawn(c, n, s, t, a, ti, w), x, y)
           = Drawn(x, n, s, t, a, ti, y)
<1>. DEFINE d0 == Drawn(c, n, s, t, a, ti, w)
            d1 == [d0 EXCEPT !.cur = x]
            d2 == [d1 EXCEPT !.widget = y]
<1>1. PutCurWidget(d0, x, y) = d2
  BY DEF PutCurWidget
<1>2. d1 = Drawn(x, n, s, t, a, ti, w)
  BY DEF Drawn
<1>. HIDE DEF d1
<1>3. d2 = Drawn(x, n, s, t, a, ti, y)
  BY <1>2 DEF Drawn
<1>. HIDE DEF d2
<1>. QED
  BY <1>1, <1>3

PutCurTimer(d, x, y) == [d EXCEPT !.cur = x, !.timer = y]
LEMMA CurTimerChanged ==
  ASSUME NEW c, NEW n, NEW s, NEW t, NEW a, NEW ti, NEW w, NEW x, NEW y
  PROVE  PutCurTimer(Drawn(c, n, s, t, a, ti, w), x, y)
           = Drawn(x, n, s, t, a, y, w)
<1>. DEFINE d0 == Drawn(c, n, s, t, a, ti, w)
            d1 == [d0 EXCEPT !.cur = x]
            d2 == [d1 EXCEPT !.timer = y]
<1>1. PutCurTimer(d0, x, y) = d2
  BY DEF PutCurTimer
<1>2. d1 = Drawn(x, n, s, t, a, ti, w)
  BY DEF Drawn
<1>. HIDE DEF d1
<1>3. d2 = Drawn(x, n, s, t, a, y, w)
  BY <1>2 DEF Drawn
<1>. HIDE DEF d2
<1>. QED
  BY <1>1, <1>3

PutTipAnim(d, x, y) == [d EXCEPT !.tip = x, !.anim = y]
LEMMA TipAnimChanged ==
  ASSUME NEW c, NEW n, NEW s, NEW t, NEW a, NEW ti, NEW w, NEW x, NEW y
  PROVE  PutTipAnim(Drawn(c, n, s, t, a, ti, w), x, y)
           = Drawn(c, n, s, x, y, ti, w)
<1>. DEFINE d0 == Drawn(c, n, s, t, a, ti, w)
            d1 == [d0 EXCEPT !.tip = x]
            d2 == [d1 EXCEPT !.anim = y]
<1>1. PutTipAnim(d0, x, y) = d2
  BY DEF PutTipAnim
<1>2. d1 = Drawn(c, n, s, x, a, ti, w)
  BY DEF Drawn
<1>. HIDE DEF d1
<1>3. d2 = Drawn(c, n, s, x, y, ti, w)
  BY <1>2 DEF Drawn
<1>. HIDE DEF d2
<1>. QED
  BY <1>1, <1>3

PutTipAnimState(d, x, y, z) == [d EXCEPT !.tip = x, !.anim = y, !.state = z]
LEMMA TipAnimStateChanged ==
  ASSUME NEW c, NEW n, NEW s, NEW t, NEW a, NEW ti, NEW w, NEW x, NEW y, NEW z
  PROVE  PutTipAnimState(Drawn(c, n, s, t, a, ti, w), x, y, z)
           = Drawn(c, n, z, x, y, ti, w)
<1>. DEFINE d0 == Drawn(c, n, s, t, a, ti, w)
            d1 == [d0 EXCEPT !.tip = x]
            d2 == [d1 EXCEPT !.anim = y]
            d3 == [d2 EXCEPT !.state = z]
<1>1. PutTipAnimState(d0, x, y, z) = d3
  BY DEF PutTipAnimState
<1>2. d1 = Drawn(c, n, s, x, a, ti, w)
  BY DEF Drawn
<1>. HIDE DEF d1
<1>3. d2 = Drawn(c, n, s, x, y, ti, w)
  BY <1>2 DEF Drawn
<1>. HIDE DEF d2
<1>4. d3 = Drawn(c, n, z, x, y, ti, w)
  BY <1>3 DEF Drawn
<1>. HIDE DEF d3
<1>. QED
  BY <1>1, <1>4

PutAnimState(d, x, y) == [d EXCEPT !.anim = x, !.state = y]
LEMMA AnimStateChanged ==
  ASSUME NEW c, NEW n, NEW s, NEW t, NEW a, NEW ti, NEW w, NEW x, NEW y
  PROVE  PutAnimState(Drawn(c, n, s, t, a, ti, w), x, y)
           = Drawn(c, n, y, t, x, ti, w)
<1>. DEFINE d0 == Drawn(c, n, s, t, a, ti, w)
            d1 == [d0 EXCEPT !.anim = x]
            d2 == [d1 EXCEPT !.state = y]
<1>1. PutAnimState(d0, x, y) = d2
  BY DEF PutAnimState
<1>2. d1 = Drawn(c, n, s, t, x, ti, w)
  BY DEF Drawn
<1>. HIDE DEF d1
<1>3. d2 = Drawn(c, n, y, t, x, ti, w)
  BY <1>2 DEF Drawn
<1>. HIDE DEF d2
<1>. QED
  BY <1>1, <1>3

LEMMA StopTimerIs ==
  ASSUME NEW c, NEW n, NEW s, NEW t, NEW a, NEW ti, NEW w
  PROVE  StopTimer(Drawn(c, n, s, t, a, ti, w)) = Drawn(c, n, s, t, a, Off, w)
<1>. DEFINE d == Drawn(c, n, s, t, a, ti, w)
<1>1. StopTimer(d) = [d EXCEPT !.timer = Off]
  BY DEF StopTimer, Off
<1>2. [d EXCEPT !.timer = Off] = Drawn(c, n, s, t, a, Off, w)
  BY DEF Drawn
<1>. QED
  BY <1>1, <1>2

LEMMA NoNextIs ==
  ASSUME NEW c, NEW n, NEW s, NEW t, NEW a, NEW ti, NEW w
  PROVE  NoNext(Drawn(c, n, s, t, a, ti, w)) = Drawn(c, "NoObject", s, t, a, ti, w)
  BY DEF NoNext, Drawn

LEMMA TakeNextIs ==
  ASSUME NEW c, NEW n, NEW s, NEW t, NEW a, NEW ti, NEW w
  PROVE  TakeNext(Drawn(c, n, s, t, a, ti, w)) = Drawn(n, "NoObject", s, t, a, ti, w)
<1>. DEFINE d == Drawn(c, n, s, t, a, ti, w)
            e == [d EXCEPT !.cur = d.next]
<1>1. d.next = n
  BY DEF Drawn
<1>2. e = Drawn(n, n, s, t, a, ti, w)
  BY <1>1 DEF Drawn
<1>3. TakeNext(d) = NoNext(e)
  BY DEF TakeNext
<1>. HIDE DEF d, e
<1>. QED
  BY <1>2, <1>3, NoNextIs DEF d

LEMMA HideSlowlyIs ==
  ASSUME NEW c, NEW n, NEW s, NEW t, NEW a, NEW ti, NEW w
  PROVE  HideSlowly(Drawn(c, n, s, t, a, ti, w)) = Drawn(c, n, "TRANSITION_OUT", t, "out", ti, w)
<1>. DEFINE d == Drawn(c, n, s, t, a, ti, w)
<1>1. HideSlowly(d) = PutAnimState(d, "out", "TRANSITION_OUT")
  BY DEF HideSlowly, PutAnimState
<1>. QED
  BY <1>1, AnimStateChanged

(* The object o has the canvas.                                            *)
Entered(o, n, w) ==
  IF o = "AutoComplete" THEN Drawn(o, n, "NO_OBJECT", "none", "none", Off, On)
  ELSE IF o = "NoObject" THEN Drawn(o, n, "NO_OBJECT", "none", "none", Off, w)
  ELSE Drawn(o, n, "TRANSITION_IN", o, "in", IsTimed(o), w)

LEMMA EnteredAgrees ==
  ASSUME NEW o \in Objects, NEW w \in BOOLEAN
  PROVE  Agreed(Entered(o, "NoObject", w))
<1>1. TipOf(o) = "none" <=> o \in {"NoObject", "AutoComplete"}
  BY TipCases
<1>2. CASE o = "AutoComplete"
  <2>1. Agree(o, "NoObject", "NO_OBJECT", "none", "none", Off, On)
    BY <1>1, <1>2 DEF Agree, Objects, CanvasState, On, Off
  <2>. QED
    BY <1>2, <2>1 DEF Agreed, Entered
<1>3. CASE o = "NoObject"
  <2>1. Agree(o, "NoObject", "NO_OBJECT", "none", "none", Off, w)
    BY <1>1, <1>3 DEF Agree, Objects, CanvasState, On, Off
  <2>. QED
    BY <1>3, <2>1 DEF Agreed, Entered
<1>4. CASE o \notin {"NoObject", "AutoComplete"}
  <2>1. TipOf(o) = o /\ o # "none" /\ IsTimed(o) \in BOOLEAN /\ (IsTimed(o) <=> o = "EndCall")
    BY <1>1, <1>4, TipCases DEF Objects
  <2>2. Agree(o, "NoObject", "TRANSITION_IN", o, "in", IsTimed(o), w)
    BY <2>1, <1>4 DEF Agree, Objects, CanvasState, On, Off
  <2>. QED
    BY <1>4, <2>2 DEF Agreed, Entered
<1>. QED
  BY <1>2, <1>3, <1>4

LEMMA EnteredSettles ==
  ASSUME NEW o, NEW n, NEW w
  PROVE  NoNext(Entered(o, n, w)) = Entered(o, "NoObject", w)
<1>1. CASE o = "AutoComplete"
  BY <1>1, NoNextIs DEF Entered
<1>2. CASE o # "AutoComplete" /\ o = "NoObject"
  BY <1>2, NoNextIs DEF Entered
<1>3. CASE o # "AutoComplete" /\ o # "NoObject"
  BY <1>3, NoNextIs DEF Entered
<1>. QED
  BY <1>1, <1>2, <1>3

(* An object enters: the widget, no object, a tip.                         *)
LEMMA WidgetEnters ==
  ASSUME NEW c, NEW n, NEW s, NEW t, NEW a, NEW ti, NEW w, NEW o
  PROVE  PutCurWidget(StopTimer(Drawn(c, n, s, t, a, ti, w)), o, On)
           = Drawn(o, n, s, t, a, Off, On)
  BY StopTimerIs, CurWidgetChanged

LEMMA NothingEnters ==
  ASSUME NEW c, NEW n, NEW s, NEW t, NEW a, NEW ti, NEW w, NEW o, NEW x
  PROVE  PutTipAnim(PutCurTimer(Drawn(c, n, s, t, a, ti, w), o, x), "none", "none")
           = Drawn(o, n, s, "none", "none", x, w)
  BY CurTimerChanged, TipAnimChanged

LEMMA TipEnters ==
  ASSUME NEW c, NEW n, NEW s, NEW t, NEW a, NEW ti, NEW w, NEW o, NEW x, NEW y
  PROVE  PutTipAnimState(PutCurTimer(Drawn(c, n, s, t, a, ti, w), o, x), y, "in",
                         "TRANSITION_IN")
           = Drawn(o, n, "TRANSITION_IN", y, "in", x, w)
  BY CurTimerChanged, TipAnimStateChanged

(* An object enters a canvas where nothing is in transition.               *)
LEMMA Enters ==
  ASSUME NEW c, NEW n, NEW t, NEW a, NEW ti, NEW w, NEW o \in Objects, o # c,
         o = "AutoComplete" => t = "none" /\ a = "none"
  PROVE  Introduced(Drawn(c, n, "NO_OBJECT", t, a, ti, w), o) = Entered(o, n, w)
<1>. DEFINE d == Drawn(c, n, "NO_OBJECT", t, a, ti, w)
<1>1. d.cur = c
  BY DEF Drawn
<1>2. PutCurWidget(StopTimer(d), o, On) = Drawn(o, n, "NO_OBJECT", t, a, Off, On)
  BY WidgetEnters
<1>3. PutTipAnim(PutCurTimer(d, o, IsTimed(o)), "none", "none")
        = Drawn(o, n, "NO_OBJECT", "none", "none", IsTimed(o), w)
  BY NothingEnters
<1>4. PutTipAnimState(PutCurTimer(d, o, IsTimed(o)), TipOf(o), "in", "TRANSITION_IN")
        = Drawn(o, n, "TRANSITION_IN", TipOf(o), "in", IsTimed(o), w)
  BY TipEnters
<1>. HIDE DEF d
<1>5. CASE o = "AutoComplete"
  <2>1. Introduced(d, o) = PutCurWidget(StopTimer(d), o, On)
    BY <1>1, <1>5 DEF Introduced, IsWidget, On, PutCurWidget
  <2>. QED
    BY <1>2, <1>5, <2>1 DEF Entered, d
<1>6. CASE o # "AutoComplete"
  <2>1. Introduced(d, o) = ShowTip(PutCurTimer(d, o, IsTimed(o)), TipOf(o))
    BY <1>1, <1>6 DEF Introduced, IsWidget, PutCurTimer
  <2>2. CASE o = "NoObject"
    <3>1. TipOf(o) = "none" /\ IsTimed(o) = Off
      BY <2>2 DEF TipOf, IsTimed, Off
    <3>2. Introduced(d, o) = PutTipAnim(PutCurTimer(d, o, IsTimed(o)), "none", "none")
      BY <2>1, <3>1 DEF ShowTip, PutTipAnim
    <3>. QED
      BY <1>3, <2>2, <3>1, <3>2 DEF Entered, d
  <2>3. CASE o # "NoObject"
    <3>1. TipOf(o) = o /\ o # "none"
      BY <1>6, <2>3, TipCases DEF Objects
    <3>2. Introduced(d, o)
            = PutTipAnimState(PutCurTimer(d, o, IsTimed(o)), TipOf(o), "in", "TRANSITION_IN")
      BY <2>1, <3>1 DEF ShowTip, PutTipAnimState
    <3>. QED
      BY <1>4, <1>6, <2>3, <3>1, <3>2 DEF Entered, d
  <2>. QED
    BY <2>2, <2>3
<1>. QED
  BY <1>5, <1>6 DEF d

(* A tip has gone: what waits for that enters.                             *)
StoppedOut(d) == Stopped(d, FALSE)

LEMMA LeftAtOnce ==
  ASSUME NEW c \in Objects, NEW n \in Objects, NEW s, NEW t, NEW a, NEW ti, NEW w,
         n = "AutoComplete" => t = "none" /\ a = "none"
  PROVE  StoppedOut(Drawn(c, n, s, t, a, ti, w))
           = IF n = c THEN Drawn(c, "NoObject", "NO_OBJECT", t, a, ti, w)
             ELSE Entered(n, "NoObject", w)
<1>. DEFINE d == Drawn(c, n, s, t, a, ti, w)
            e == Drawn(c, n, "NO_OBJECT", t, a, ti, w)
<1>1. d.cur = c /\ d.next = n /\ e.cur = c /\ [d EXCEPT !.state = "NO_OBJECT"] = e
  BY DEF Drawn
<1>2. NoNext(e) = Drawn(c, "NoObject", "NO_OBJECT", t, a, ti, w)
  BY NoNextIs
<1>3. n = c => Introduced(e, n) = e
  BY <1>1 DEF Introduced
<1>4. n # c => NoNext(Introduced(e, n)) = Entered(n, "NoObject", w)
  BY Enters, EnteredSettles
<1>5. n = "NoObject" => e = Drawn(c, "NoObject", "NO_OBJECT", t, a, ti, w)
  OBVIOUS
<1>. HIDE DEF d, e
<1>6. StoppedOut(d) = IF c = "NoObject" /\ n = "NoObject" THEN e ELSE NoNext(Introduced(e, n))
  BY <1>1 DEF Stopped, StoppedOut
<1>. QED
  BY <1>2, <1>3, <1>4, <1>5, <1>6 DEF d

LEMMA HideNowIs ==
  ASSUME NEW c \in Objects, NEW n \in Objects, NEW s, NEW t, NEW a, NEW ti, NEW w
  PROVE  HideNow(Drawn(c, n, s, t, a, ti, w))
           = IF n = c THEN Drawn(c, "NoObject", "NO_OBJECT", "none", "none", ti, w)
             ELSE Entered(n, "NoObject", w)
<1>. DEFINE d == Drawn(c, n, s, t, a, ti, w)
<1>1. HideNow(d) = StoppedOut(PutTipAnim(d, "none", "none"))
  BY DEF HideNow, PutTipAnim, StoppedOut
<1>2. PutTipAnim(d, "none", "none") = Drawn(c, n, s, "none", "none", ti, w)
  BY TipAnimChanged
<1>3. StoppedOut(Drawn(c, n, s, "none", "none", ti, w))
        = IF n = c THEN Drawn(c, "NoObject", "NO_OBJECT", "none", "none", ti, w)
          ELSE Entered(n, "NoObject", w)
  BY LeftAtOnce
<1>. QED
  BY <1>1, <1>2, <1>3

(* What the canvas shows is hidden at once, for the widget.                *)
OutAtOnce(d) == OutTransition(d, TRUE)
Skipped(c, w) == Drawn(c, "NoObject", "NO_OBJECT", "none", "none", Off, w)

LEMMA SkipIs ==
  ASSUME NEW c \in Objects, NEW n \in Objects, n # c, NEW s, NEW t, NEW a, NEW ti, NEW w
  PROVE  OutAtOnce(Drawn(c, n, s, t, a, ti, w)) = Skipped(n, w)
<1>. DEFINE d == Drawn(c, n, s, t, a, ti, w)
            e == Drawn(c, n, s, t, a, Off, w)
            f == Drawn(n, n, s, t, a, Off, w)
<1>1. d.cur = c /\ d.next = n /\ [e EXCEPT !.cur = n] = f
  BY DEF Drawn
<1>2. StopTimer(d) = e
  BY StopTimerIs
<1>3. HideNow(f) = Skipped(n, w)
  BY HideNowIs DEF Skipped
<1>4. NoNext(Skipped(n, w)) = Skipped(n, w)
  BY NoNextIs DEF Skipped
<1>. HIDE DEF d, e, f
<1>5. OutAtOnce(d) = NoNext(HideNow([StopTimer(d) EXCEPT !.cur = n]))
  BY <1>1 DEF OutTransition, OutAtOnce
<1>. QED
  BY <1>1, <1>2, <1>3, <1>4, <1>5 DEF d

OutSlowly(d) == OutTransition(d, FALSE)

AnimationOf(s) ==
  CASE s = "TRANSITION_IN" -> "in" [] s = "TRANSITION_OUT" -> "out" [] OTHER -> "none"

(* The widget goes at once, and so does a tip for the widget; otherwise    *)
(* the tip goes by its animation, with the next object waiting.            *)
LEMMA OutSlowlyAgrees ==
  ASSUME NEW c, NEW n0, NEW n \in Objects, NEW s, NEW t, NEW a, NEW ti, NEW w,
         Agree(c, n0, s, t, a, ti, w), c # "NoObject", n # c,
         s = "NO_OBJECT" => n = "NoObject"
  PROVE  Agreed(OutSlowly(Drawn(c, n, s, t, a, ti, w)))
<1>. DEFINE d == Drawn(c, n, s, t, a, ti, w)
<1>0. c \in Objects /\ ti \in BOOLEAN /\ w \in BOOLEAN /\ t = TipOf(c)
  BY DEF Agree
<1>1. d.cur = c /\ d.next = n /\ d.tip = t
  BY DEF Drawn
<1>2. IsWidget(c) = (c = "AutoComplete") /\ SkipAnimation(n) = (n = "AutoComplete")
  BY DEF IsWidget, SkipAnimation
<1>3. CASE c = "AutoComplete"
  <2>. DEFINE e == Drawn(c, n, s, t, a, ti, Off)
  <2>1. s = "NO_OBJECT" /\ n = "NoObject" /\ t = "none" /\ a = "none" /\ ti = Off
    BY <1>0, <1>3, TipCases DEF Agree, Off
  <2>2. [d EXCEPT !.widget = Off] = e
    BY DEF Drawn
  <2>3. TakeNext(e) = Drawn(n, "NoObject", s, t, a, ti, Off)
    BY TakeNextIs
  <2>4. Entered("NoObject", "NoObject", Off) = Drawn(n, "NoObject", s, t, a, ti, Off)
    BY <2>1 DEF Entered
  <2>5. Agreed(Entered("NoObject", "NoObject", Off))
    BY EnteredAgrees DEF Objects, Off
  <2>. HIDE DEF d, e
  <2>6. OutSlowly(d) = TakeNext([d EXCEPT !.widget = Off])
    BY <1>1, <1>3 DEF OutSlowly, OutTransition, IsWidget, Off
  <2>. QED
    BY <2>2, <2>3, <2>4, <2>5, <2>6 DEF d
<1>4. CASE c # "AutoComplete" /\ n = "AutoComplete"
  <2>. DEFINE e == Drawn(n, "NoObject", "NO_OBJECT", "none", "none", Off, On)
              f == Drawn("NoObject", "NoObject", "NO_OBJECT", "none", "none", Off, On)
  <2>1. HideNow(d) = Entered(n, "NoObject", w)
    BY <1>0, HideNowIs
  <2>2. Entered(n, "NoObject", w) = e
    BY <1>4 DEF Entered
  <2>3. TakeNext(e) = f
    BY TakeNextIs
  <2>4. Entered("NoObject", "NoObject", On) = f
    BY DEF Entered
  <2>5. Agreed(Entered("NoObject", "NoObject", On))
    BY EnteredAgrees DEF Objects, On
  <2>. HIDE DEF d, e, f
  <2>6. OutSlowly(d) = TakeNext(HideNow(d))
    BY <1>1, <1>4 DEF OutSlowly, OutTransition, IsWidget, SkipAnimation
  <2>. QED
    BY <2>1, <2>2, <2>3, <2>4, <2>5, <2>6 DEF d
<1>5. CASE c # "AutoComplete" /\ n # "AutoComplete"
  <2>. DEFINE S == "TRANSITION_OUT"
  <2>1. HideSlowly(d) = Drawn(c, n, S, t, "out", ti, w)
    BY HideSlowlyIs
  <2>2. t # "none"
    BY <1>0, <1>5, TipCases
  <2>3. Agree(c, n, S, t, "out", ti, w)
    BY <1>0, <1>5, <2>2 DEF Agree, CanvasState
  <2>4. Agreed(Drawn(c, n, S, t, "out", ti, w))
    BY <2>3 DEF Agreed
  <2>. HIDE DEF d
  <2>5. OutSlowly(d) = HideSlowly(d)
    BY <1>1, <1>5, <2>2 DEF OutSlowly, OutTransition, IsWidget, SkipAnimation
  <2>. QED
    BY <2>1, <2>4, <2>5 DEF d
<1>. QED
  BY <1>3, <1>4, <1>5

LEMMA InTransitionAgrees ==
  ASSUME NEW d, Agreed(d), NEW o \in Objects
  PROVE  Agreed(InTransition(d, o))
<1>1. PICK c, n, s, t, a, ti, w : d = Drawn(c, n, s, t, a, ti, w) /\ Agree(c, n, s, t, a, ti, w)
  BY DEF Agreed
<1>2. d.cur = c /\ d.state = s
  BY <1>1 DEF Drawn
<1>3. CASE o = c
  BY <1>2, <1>3 DEF InTransition, Introduced
<1>4. CASE o # c /\ s = "NO_OBJECT"
  <2>1. n = "NoObject" /\ t = "none" /\ a = "none" /\ w \in BOOLEAN
    BY <1>1, <1>4 DEF Agree
  <2>2. InTransition(d, o) = Introduced(d, o)
    BY <1>2, <1>4 DEF InTransition
  <2>3. Introduced(Drawn(c, n, "NO_OBJECT", t, a, ti, w), o) = Entered(o, n, w)
    BY <1>4, <2>1, Enters
  <2>4. InTransition(d, o) = Entered(o, "NoObject", w)
    BY <1>1, <1>4, <2>1, <2>2, <2>3
  <2>. QED
    BY <2>1, <2>4, EnteredAgrees
<1>5. CASE o # c /\ s # "NO_OBJECT"
  <2>1. InTransition(d, o) = OutSlowly([d EXCEPT !.next = o])
    BY <1>2, <1>5 DEF InTransition, OutSlowly
  <2>2. [d EXCEPT !.next = o] = Drawn(c, o, s, t, a, ti, w)
    BY <1>1 DEF Drawn
  <2>3. c # "NoObject"
    BY <1>1, <1>5, TipCases DEF Agree
  <2>4. Agreed(OutSlowly(Drawn(c, o, s, t, a, ti, w)))
    BY <1>1, <1>5, <2>3, OutSlowlyAgrees
  <2>. QED
    BY <2>1, <2>2, <2>4
<1>. QED
  BY <1>3, <1>4, <1>5

(* Every event leads from an agreeing canvas to one.                       *)
LEMMA NewEventAgrees ==
  ASSUME NEW d, Agreed(d), NEW e
  PROVE  Agreed(NewEvent(d, e))
<1>. DEFINE o == ObjectOf(e)
            left == Discard(d, e)
<1>1. PICK c, n, s, t, a, ti, w : d = Drawn(c, n, s, t, a, ti, w) /\ Agree(c, n, s, t, a, ti, w)
  BY DEF Agreed
<1>2. d.cur = c /\ d.state = s
  BY <1>1 DEF Drawn
<1>3. o \in Objects
  BY DEF ObjectOf, Objects
<1>4. c \in Objects /\ n \in Objects /\ w \in BOOLEAN
  BY <1>1 DEF Agree
<1>5. NewEvent(d, e) = IF Admits(left, o) THEN InTransition(left, o) ELSE left
  BY DEF NewEvent
<1>. HIDE DEF o
<1>6. CASE left = d
  BY <1>3, <1>5, <1>6, InTransitionAgrees
<1>7. CASE left # d /\ o = "AutoComplete"
  <2>1. c # "NoObject" /\ left = OutAtOnce(d)
    BY <1>2, <1>7 DEF Discard, OutTransition, OutAtOnce, SkipAnimation, o
  <2>2. n # c /\ n # "AutoComplete"
    BY <1>1, <2>1, TipCases DEF Agree
  <2>3. OutAtOnce(Drawn(c, n, s, t, a, ti, w)) = Skipped(n, w)
    BY <1>4, <2>2, SkipIs
  <2>. HIDE DEF left
  <2>4. left = Skipped(n, w)
    BY <1>1, <2>1, <2>3
  <2>5. left.cur = n /\ left.state = "NO_OBJECT"
    BY <2>4 DEF Skipped, Drawn
  <2>6. Priority[o] = 3 /\ Priority[n] \in 0..3
    BY <1>3, <1>4, <1>7 DEF Priority
  <2>7. Admits(left, o)
    BY <2>5, <2>6 DEF Admits
  <2>8. InTransition(left, o) = Introduced(left, o)
    BY <2>5 DEF InTransition
  <2>9. Introduced(Drawn(n, "NoObject", "NO_OBJECT", "none", "none", Off, w), o)
          = Entered(o, "NoObject", w)
    BY <1>3, <1>7, <2>2, Enters
  <2>10. NewEvent(d, e) = Entered(o, "NoObject", w)
    BY <1>5, <2>4, <2>7, <2>8, <2>9 DEF Skipped
  <2>. QED
    BY <1>3, <1>4, <2>10, EnteredAgrees
<1>8. CASE left # d /\ o # "AutoComplete"
  <2>1. c # "NoObject" /\ left = OutSlowly(d)
    BY <1>2, <1>8 DEF Discard, OutTransition, OutSlowly, SkipAnimation, o
  <2>2. n # c /\ (s = "NO_OBJECT" => n = "NoObject")
    BY <1>1, <2>1, TipCases DEF Agree
  <2>3. Agreed(OutSlowly(Drawn(c, n, s, t, a, ti, w)))
    BY <1>1, <1>4, <2>1, <2>2, OutSlowlyAgrees
  <2>. HIDE DEF left
  <2>4. Agreed(left)
    BY <1>1, <2>1, <2>3
  <2>. QED
    BY <1>3, <1>5, <2>4, InTransitionAgrees
<1>. QED
  BY <1>6, <1>7, <1>8

-----------------------------------------------------------------------------
(* The search of the completion.                                           *)

ShapeType == [less : Nat, equal : Nat, greater : Nat]
RoundType == [beg : Int, end : Int, size : Int, startOk : BOOLEAN, endOk : BOOLEAN]

LEMMA ShapeIsTyped ==
  ASSUME NEW m \in Shapes
  PROVE  /\ m \in ShapeType /\ Size(m) = m.less + m.equal + m.greater
         /\ Size(m) \in Nat /\ 0 < Size(m) /\ Size(m) < 7170
<1>1. m \in [less : Counts, equal : Counts, greater : Counts] /\ 0 < Size(m) /\ Size(m) < FarKeys
  BY DEF Shapes
<1>2. m.less \in Counts /\ m.equal \in Counts /\ m.greater \in Counts
      /\ m = [less |-> m.less, equal |-> m.equal, greater |-> m.greater]
  BY <1>1
<1>3. m.less \in Nat /\ m.equal \in Nat /\ m.greater \in Nat
  BY <1>2, CountsAssumption
<1>4. m \in ShapeType
  BY <1>2, <1>3 DEF ShapeType
<1>. QED
  BY <1>1, <1>3, <1>4 DEF Size, FarKeys

FirstRound(m) == [beg |-> 1, end |-> Size(m), size |-> Size(m) \div 2,
                  startOk |-> FALSE, endOk |-> FALSE]
NextRound(m, r) == IF Goes(r) THEN Halve(m, r) ELSE r

LEMMA HalveTyped ==
  ASSUME NEW m \in Shapes, NEW r \in RoundType
  PROVE  Halve(m, r) \in RoundType
<1>. DEFINE mid   == Middle(m, r.beg, r.size)
            found == mid <= Size(m) /\ Matches(m, mid) /\ Below(m, r.beg)
            right == ~found /\ ~r.startOk /\ mid <= Size(m) /\ Below(m, mid)
            left  == ~found /\ ~right /\ ~r.endOk
            from  == IF left THEN mid ELSE r.end
            end   == PastMatches(m, from)
            beg   == IF found THEN m.less + 1 ELSE IF right THEN mid ELSE r.beg
            ok    == r.startOk \/ found
            long  == (r.size + 1) \div 2
            endOk == Matches(m, end)
<1>1. m.less \in Nat /\ m.equal \in Nat /\ m.greater \in Nat /\ Size(m) \in Nat
  BY ShapeIsTyped DEF ShapeType
<1>2. r.beg \in Int /\ r.end \in Int /\ r.size \in Int /\ r.startOk \in BOOLEAN
  BY DEF RoundType
<1>3. mid \in Int
  BY <1>1, <1>2 DEF Middle
<1>4. Halve(m, r) = [beg |-> beg, end |-> end, size |-> long, startOk |-> ok, endOk |-> endOk]
  BY DEF Halve
<1>. HIDE DEF mid
<1>5. end \in Int
  <2>1. from \in Int
    BY <1>2, <1>3
  <2>. HIDE DEF from
  <2>. QED
    BY <1>1, <2>1 DEF PastMatches
<1>6. beg \in Int /\ long \in Int
  BY <1>1, <1>2, <1>3
<1>7. ok \in BOOLEAN
  BY <1>2 DEF Matches, Below
<1>8. endOk \in BOOLEAN
  BY DEF Matches
<1>. HIDE DEF end, beg, ok, long, endOk
<1>. QED
  BY <1>4, <1>5, <1>6, <1>7, <1>8 DEF RoundType

(* The rounds, as the function they are defined as.                        *)
IsRounds(m, h) ==
  h = [k \in 0..Size(m) |-> IF k = 0 THEN FirstRound(m) ELSE NextRound(m, h[k - 1])]

LEMMA RoundsExist ==
  ASSUME NEW m \in Shapes
  PROVE  \E h : IsRounds(m, h)
<1>. DEFINE N    == Size(m)
            base == FirstRound(m)
            step == [i \in 1..N |-> [r \in RoundType |-> NextRound(m, r)]]
<1>1. N \in Nat
  BY ShapeIsTyped
<1>2. base \in RoundType
  BY <1>1 DEF FirstRound, RoundType
<1>3. \A r \in RoundType : NextRound(m, r) \in RoundType
  BY HalveTyped DEF NextRound
<1>4. step \in [1..N -> [RoundType -> RoundType]]
  BY <1>3
<1>. HIDE DEF N, base, step
<1>5. PICK g \in [SUBSET (1..N) -> RoundType] : IsFold(g, N, base, step)
  BY <1>1, <1>2, <1>4, FoldExists
<1>. DEFINE h == [k \in 0..N |-> g[1..k]]
<1>6. \A k \in 0..N : h[k] \in RoundType
  BY <1>1, <1>5
<1>7. h[0] = base
  <2>1. 1..0 = {} /\ 1..0 \in SUBSET (1..N) /\ 0 \in 0..N
    BY <1>1
  <2>. QED
    BY <1>5, <2>1 DEF IsFold
<1>8. ASSUME NEW k \in 0..N, k # 0  PROVE h[k] = NextRound(m, h[k - 1])
  <2>1. k - 1 \in Nat /\ k - 1 + 1 = k /\ k \in 1..N /\ k - 1 \in 0..N
    BY <1>1, <1>8
  <2>2. Max(1..k) = k /\ (1..k) \ {k} = 1..(k - 1) /\ 1..k # {} /\ 1..k \in SUBSET (1..N)
    BY <1>1, <2>1, UpTo
  <2>3. g[1..k] = step[k][g[1..(k - 1)]]
    BY <1>5, <2>2 DEF IsFold
  <2>4. h[k] = step[k][h[k - 1]] /\ h[k - 1] \in RoundType
    BY <1>6, <2>1, <2>3
  <2>. HIDE DEF h
  <2>. QED
    BY <2>1, <2>4 DEF step
<1>. HIDE DEF h
<1>9. h = [k \in 0..N |-> IF k = 0 THEN base ELSE NextRound(m, h[k - 1])]
  <2>1. h = [k \in 0..N |-> h[k]]
    BY DEF h
  <2>. QED
    BY <1>7, <1>8, <2>1
<1>. QED
  BY <1>9 DEF IsRounds, N, base

LEMMA SearchRounds ==
  ASSUME NEW m \in Shapes
  PROVE  \E h : IsRounds(m, h) /\ Search(m) = h[Size(m)]
<1>. DEFINE round == CHOOSE round : round = [k \in 0 .. Size(m) |->
                       IF k = 0 THEN [beg |-> 1, end |-> Size(m), size |-> Size(m) \div 2,
                                      startOk |-> FALSE, endOk |-> FALSE]
                       ELSE LET r == round[k - 1] IN IF Goes(r) THEN Halve(m, r) ELSE r]
<1>1. Search(m) = round[Size(m)]
  BY DEF Search
<1>2. IsRounds(m, round)
  BY RoundsExist DEF IsRounds, FirstRound, NextRound
<1>. HIDE DEF round
<1>. QED
  BY <1>1, <1>2

(* After k rounds the interval has at most this length.                    *)
Shrunk(k, long) ==
  CASE k = 0 -> long <= 3584 [] k = 1 -> long <= 1792 [] k = 2 -> long <= 896
    [] k = 3 -> long <= 448  [] k = 4 -> long <= 224  [] k = 5 -> long <= 112
    [] k = 6 -> long <= 56   [] k = 7 -> long <= 28   [] k = 8 -> long <= 14
    [] OTHER -> long <= 7

LEMMA ShrinksOn ==
  ASSUME NEW k \in Nat, NEW long \in Nat, Shrunk(k, long)
  PROVE  Shrunk(k + 1, (long + 1) \div 2)
<1>. DEFINE half == (long + 1) \div 2
<1>1. half \in Nat /\ 2 * half <= long + 1
  OBVIOUS
<1>. HIDE DEF half
<1>2. CASE k \in 0..4
  BY <1>1, <1>2 DEF Shrunk
<1>3. CASE k \in 5..8
  BY <1>1, <1>3 DEF Shrunk
<1>4. CASE k > 8
  BY <1>1, <1>4 DEF Shrunk
<1>. QED
  BY <1>2, <1>3, <1>4 DEF half

(* What makes the next round find its middle in the map: while the code    *)
(* adds the size without looking, the size is more than the halves before  *)
(* have been rounded up.                                                   *)
Reaches(m, k, r) ==
  /\ r.size + k <= Size(m)
  /\ Shrunk(k, r.size)
  /\ r.size > 7 => r.beg + 2 * r.size <= Size(m) + 1 + k

(* The bounds hold the matches, or what is greater, between them.          *)
Round(m, k, r) ==
  /\ r.beg \in 1..Size(m) /\ r.beg <= m.less + 1
  /\ r.end \in 1..(Size(m) + 1) /\ r.size \in Nat
  /\ r.startOk => r.beg = m.less + 1
  /\ m.greater > 0 => r.end >= m.less + m.equal + 1
  /\ Goes(r) => Reaches(m, k, r)

LEMMA MiddleInMap ==
  ASSUME NEW m \in Shapes, NEW k \in Nat, NEW r, Round(m, k, r), Goes(r)
  PROVE  /\ Middle(m, r.beg, r.size) \in (r.beg + 1)..(Size(m) + 1)
         /\ r.size > 7 => Middle(m, r.beg, r.size) = r.beg + r.size
         /\ Middle(m, r.beg, r.size) <= r.beg + r.size
<1>1. Size(m) \in Nat
  BY ShapeIsTyped
<1>2. /\ r.beg \in 1..Size(m) /\ r.size \in Nat /\ r.size > 1 /\ Shrunk(k, r.size)
      /\ r.size > 7 => r.beg + 2 * r.size <= Size(m) + 1 + k
  BY DEF Round, Reaches, Goes
<1>3. CASE r.size > 7
  <2>1. k <= 8
    BY <1>2, <1>3 DEF Shrunk
  <2>. QED
    BY <1>1, <1>2, <1>3, <2>1 DEF Middle
<1>4. CASE ~(r.size > 7)
  BY <1>1, <1>2, <1>4 DEF Middle
<1>. QED
  BY <1>3, <1>4

LEMMA FirstRoundHolds ==
  ASSUME NEW m \in Shapes
  PROVE  Round(m, 0, FirstRound(m))
<1>. DEFINE half == Size(m) \div 2
            r == FirstRound(m)
<1>1. /\ m.less \in Nat /\ m.equal \in Nat /\ m.greater \in Nat
      /\ Size(m) = m.less + m.equal + m.greater /\ 0 < Size(m) /\ Size(m) < 7170
  BY ShapeIsTyped DEF ShapeType
<1>2. half \in Nat /\ 2 * half <= Size(m) /\ half <= 3584
  BY <1>1
<1>3. r.beg = 1 /\ r.end = Size(m) /\ r.size = half /\ r.startOk = FALSE
  BY DEF FirstRound
<1>. HIDE DEF r, half
<1>4. Reaches(m, 0, r)
  BY <1>1, <1>2, <1>3 DEF Reaches, Shrunk
<1>. QED
  BY <1>1, <1>2, <1>3, <1>4 DEF Round, r

LEMMA PastIs ==
  ASSUME NEW m \in Shapes, NEW e \in 1..(Size(m) + 1)
  PROVE  /\ PastMatches(m, e) \in 1..(Size(m) + 1)
         /\ m.greater > 0 /\ e > m.less => PastMatches(m, e) >= m.less + m.equal + 1
         /\ m.greater > 0 /\ e >= m.less + m.equal + 1
              => PastMatches(m, e) >= m.less + m.equal + 1
<1>1. /\ m.less \in Nat /\ m.equal \in Nat /\ m.greater \in Nat
      /\ Size(m) = m.less + m.equal + m.greater /\ 0 < Size(m)
  BY ShapeIsTyped DEF ShapeType
<1>. QED
  BY <1>1 DEF PastMatches, Matches

LEMMA HalveHolds ==
  ASSUME NEW m \in Shapes, NEW k \in Nat, NEW r \in RoundType, Round(m, k, r), Goes(r)
  PROVE  Round(m, k + 1, Halve(m, r))
<1>. DEFINE mid   == Middle(m, r.beg, r.size)
            found == mid <= Size(m) /\ Matches(m, mid) /\ Below(m, r.beg)
            right == ~found /\ ~r.startOk /\ mid <= Size(m) /\ Below(m, mid)
            left  == ~found /\ ~right /\ ~r.endOk
            from  == IF left THEN mid ELSE r.end
            end   == PastMatches(m, from)
            beg   == IF found THEN m.less + 1 ELSE IF right THEN mid ELSE r.beg
            ok    == r.startOk \/ found
            long  == (r.size + 1) \div 2
            h     == Halve(m, r)
<1>1. /\ m.less \in Nat /\ m.equal \in Nat /\ m.greater \in Nat /\ Size(m) \in Nat
      /\ Size(m) = m.less + m.equal + m.greater
  BY ShapeIsTyped DEF ShapeType
<1>2. /\ r.beg \in 1..Size(m) /\ r.beg <= m.less + 1
      /\ r.end \in 1..(Size(m) + 1) /\ r.size \in Nat /\ r.size > 1
      /\ r.startOk \in BOOLEAN
      /\ r.startOk => r.beg = m.less + 1
      /\ m.greater > 0 => r.end >= m.less + m.equal + 1
      /\ Reaches(m, k, r)
  BY DEF Round, Goes, RoundType
<1>3. /\ mid \in (r.beg + 1)..(Size(m) + 1) /\ mid <= r.beg + r.size
      /\ r.size > 7 => mid = r.beg + r.size
  BY MiddleInMap
<1>4. h.beg = beg /\ h.end = end /\ h.size = long /\ h.startOk = ok
  BY DEF Halve
<1>. HIDE DEF mid, h
<1>5. long \in Nat /\ 2 * long <= r.size + 1 /\ long < r.size
  BY <1>2
<1>6. Shrunk(k + 1, long)
  BY <1>2, ShrinksOn DEF Reaches
<1>. HIDE DEF long
<1>7. beg \in 1..Size(m) /\ beg <= m.less + 1 /\ beg <= mid /\ (ok => beg = m.less + 1)
  BY <1>1, <1>2, <1>3 DEF Matches, Below
<1>8. Goes(h) => Reaches(m, k + 1, h)
  <2>1. long + (k + 1) <= Size(m)
    BY <1>1, <1>2, <1>5 DEF Reaches
  <2>. HIDE DEF beg
  <2>2. long > 7 => beg + 2 * long <= Size(m) + 1 + (k + 1)
    BY <1>1, <1>2, <1>3, <1>5, <1>7 DEF Reaches
  <2>. QED
    BY <1>4, <1>6, <2>1, <2>2 DEF Reaches
<1>9. from \in 1..(Size(m) + 1) /\ (m.greater > 0 => from > m.less)
  <2>1. CASE left
    BY <1>1, <1>2, <1>3, <2>1 DEF Matches, Below
  <2>2. CASE ~left
    <3>1. from = r.end
      BY <2>2
    <3>. QED
      BY <1>1, <1>2, <3>1
  <2>. QED
    BY <2>1, <2>2
<1>. HIDE DEF from, beg, ok
<1>10. end \in 1..(Size(m) + 1) /\ (m.greater > 0 => end >= m.less + m.equal + 1)
  BY <1>1, <1>9, PastIs
<1>. QED
  BY <1>4, <1>5, <1>7, <1>8, <1>10 DEF Round, h

LEMMA RoundsHold ==
  ASSUME NEW m \in Shapes, NEW h, IsRounds(m, h)
  PROVE  \A k \in 0..Size(m) : h[k] \in RoundType /\ Round(m, k, h[k])
<1>. DEFINE N == Size(m)
            S == {k \in Nat : k <= N => h[k] \in RoundType /\ Round(m, k, h[k])}
<1>1. N \in Nat
  BY ShapeIsTyped
<1>2. \A k \in 0..N : h[k] = IF k = 0 THEN FirstRound(m) ELSE NextRound(m, h[k - 1])
  BY DEF IsRounds
<1>. HIDE DEF N
<1>3. 0 \in S
  <2>1. h[0] = FirstRound(m)
    BY <1>1, <1>2
  <2>2. FirstRound(m) \in RoundType
    BY <1>1 DEF FirstRound, RoundType, N
  <2>. QED
    BY <2>1, <2>2, FirstRoundHolds
<1>4. ASSUME NEW k \in Nat, k \in S  PROVE k + 1 \in S
  <2>. SUFFICES ASSUME k + 1 <= N
                PROVE  h[k + 1] \in RoundType /\ Round(m, k + 1, h[k + 1])
    BY <1>4
  <2>1. h[k] \in RoundType /\ Round(m, k, h[k])
    BY <1>1, <1>4
  <2>2. h[k + 1] = NextRound(m, h[k])
    <3>1. k + 1 \in 0..N /\ k + 1 # 0 /\ k + 1 - 1 = k
      BY <1>1
    <3>. QED
      BY <1>2, <3>1
  <2>3. CASE Goes(h[k])
    BY <2>1, <2>2, <2>3, HalveTyped, HalveHolds DEF NextRound
  <2>4. CASE ~Goes(h[k])
    <3>1. h[k + 1] = h[k]
      BY <2>2, <2>4 DEF NextRound
    <3>2. Round(m, k + 1, h[k])
      BY <2>1, <2>4 DEF Round
    <3>. QED
      BY <2>1, <3>1, <3>2
  <2>. QED
    BY <2>3, <2>4
<1>. HIDE DEF S
<1>5. Nat \subseteq S
  BY <1>3, <1>4, Induction
<1>. QED
  BY <1>1, <1>5 DEF S, N

(* The search has ended after so many rounds, within the map.              *)
LEMMA SearchHolds ==
  ASSUME NEW m \in Shapes
  PROVE  ~Goes(Search(m)) /\ Round(m, Size(m), Search(m))
<1>1. PICK h : IsRounds(m, h) /\ Search(m) = h[Size(m)]
  BY SearchRounds
<1>2. Size(m) \in Nat /\ Size(m) \in 0..Size(m)
  BY ShapeIsTyped
<1>3. Round(m, Size(m), Search(m))
  BY <1>1, <1>2, RoundsHold
<1>4. ~Goes(Search(m))
  <2>. DEFINE r == Search(m)
  <2>1. Goes(r) => r.size \in Nat /\ r.size + Size(m) <= Size(m) /\ r.size > 1
    BY <1>3 DEF Round, Reaches, Goes
  <2>. HIDE DEF r
  <2>2. ~Goes(r)
    BY <1>2, <2>1
  <2>. QED
    BY <2>2 DEF r
<1>. QED
  BY <1>3, <1>4

LEMMA RangeHolds ==
  ASSUME NEW m \in Shapes
  PROVE  /\ GetRange(m) \subseteq 1..Size(m)
         /\ m.greater > 0 => Matching(m) \subseteq GetRange(m)
<1>. DEFINE r     == Search(m)
            start == IF r.beg <= m.less THEN m.less + 1 ELSE r.beg
            beg   == IF start > r.end \/ ~Matches(m, start) THEN r.end ELSE start
<1>1. /\ m.less \in Nat /\ m.equal \in Nat /\ m.greater \in Nat /\ Size(m) \in Nat
      /\ Size(m) = m.less + m.equal + m.greater
  BY ShapeIsTyped DEF ShapeType
<1>2. /\ r.beg \in 1..Size(m) /\ r.beg <= m.less + 1 /\ r.end \in 1..(Size(m) + 1)
      /\ m.greater > 0 => r.end >= m.less + m.equal + 1
  BY SearchHolds DEF Round
<1>3. GetRange(m) = beg .. (r.end - 1)
  BY DEF GetRange
<1>. HIDE DEF r
<1>4. start = m.less + 1
  BY <1>1, <1>2
<1>. HIDE DEF start
<1>5. beg \in 1..(Size(m) + 1)
  BY <1>1, <1>2, <1>4
<1>6. m.greater > 0 /\ m.equal > 0 => beg = m.less + 1
  BY <1>1, <1>2, <1>4 DEF Matches
<1>. HIDE DEF beg
<1>7. GetRange(m) \subseteq 1..Size(m)
  BY <1>1, <1>2, <1>3, <1>5
<1>8. ASSUME m.greater > 0, NEW p \in Matching(m)  PROVE p \in GetRange(m)
  <2>1. p \in 1..Size(m) /\ m.less < p /\ p <= m.less + m.equal
    BY <1>8 DEF Matching, Matches
  <2>2. m.equal > 0
    BY <1>1, <2>1
  <2>3. beg = m.less + 1 /\ r.end >= m.less + m.equal + 1
    BY <1>2, <1>6, <1>8, <2>2
  <2>. QED
    BY <1>1, <1>2, <1>3, <2>1, <2>3
<1>. QED
  BY <1>7, <1>8

-----------------------------------------------------------------------------
(* The canvas and the completion together.                                 *)

CanvasMembers ==
  /\ call \in {"none", "dialing", "started"}
  /\ typed \in BOOLEAN /\ watched \in BOOLEAN /\ enabled \in BOOLEAN

(* While the list is shown, what it offers is what the search finds in the *)
(* directory there is.                                                     *)
OfferedIsFound ==
  IF enabled THEN book \in Shapes /\ offered = GetRange(book) ELSE book = NoBook /\ offered = {}

CanvasInv == Agreed(canvas) /\ CanvasMembers /\ OfferedIsFound

LEMMA BlankAgrees == Agreed(Blank)
<1>1. Blank = Entered("NoObject", "NoObject", Off)
  BY DEF Blank, Entered, Drawn, Off
<1>2. Agreed(Entered("NoObject", "NoObject", Off))
  BY EnteredAgrees DEF Objects, Off
<1>. QED
  BY <1>1, <1>2

LEMMA CountedAgrees ==
  ASSUME NEW d, Agreed(d), NEW two \in BOOLEAN
  PROVE  Agreed(Counted(d, two))
  BY NewEventAgrees DEF Counted

LEMMA InitCanvasInv == CanvasInit => CanvasInv
<1>. SUFFICES ASSUME CanvasInit  PROVE CanvasInv
  OBVIOUS
<1>1. Agreed(canvas)
  BY BlankAgrees, NewEventAgrees DEF CanvasInit
<1>2. CanvasMembers /\ OfferedIsFound
  BY DEF CanvasInit, CanvasMembers, OfferedIsFound
<1>. QED
  BY <1>1, <1>2 DEF CanvasInv

(* The list follows the call: shown or not, what it shows is found.        *)
LEMMA WatchStep ==
  ASSUME CanvasInv, NEW d, Agreed(d), NEW w \in BOOLEAN, NEW c, NEW t \in BOOLEAN,
         Watch(d, w, c, t)
  PROVE  /\ Agreed(canvas') /\ OfferedIsFound'
         /\ watched' \in BOOLEAN /\ enabled' \in BOOLEAN
<1>. DEFINE e      == w /\ c = "dialing" /\ t
            forget == enabled /\ c # "dialing"
<1>1. /\ enabled' = e /\ watched' = (w /\ ~forget)
      /\ book' \in IF e THEN Shapes ELSE {NoBook}
      /\ offered' = IF e THEN GetRange(book') ELSE {}
      /\ canvas' = IF e = enabled THEN d
                   ELSE IF e THEN NewEvent(d, "CALL_DIALING_CHANGED")
                   ELSE IF watched' THEN d
                   ELSE NewEvent(d, "USER_CANCEL")
  BY DEF Watch
<1>2. e \in BOOLEAN /\ (w /\ ~forget) \in BOOLEAN
  OBVIOUS
<1>. HIDE DEF e, forget
<1>3. Agreed(canvas')
  <2>1. Agreed(NewEvent(d, "CALL_DIALING_CHANGED")) /\ Agreed(NewEvent(d, "USER_CANCEL"))
    BY NewEventAgrees
  <2>2. canvas' \in {d, NewEvent(d, "CALL_DIALING_CHANGED"), NewEvent(d, "USER_CANCEL")}
    BY <1>1
  <2>. QED
    BY <2>1, <2>2
<1>4. OfferedIsFound'
  <2>1. CASE e
    BY <1>1, <2>1 DEF OfferedIsFound
  <2>2. CASE ~e
    BY <1>1, <2>2 DEF OfferedIsFound
  <2>. QED
    BY <2>1, <2>2
<1>. QED
  BY <1>1, <1>2, <1>3, <1>4

(* The canvas alone moves on.                                              *)
LEMMA CanvasAlone ==
  ASSUME CanvasInv, Agreed(canvas'), UNCHANGED callVars
  PROVE  CanvasInv'
  BY DEF CanvasInv, CanvasMembers, OfferedIsFound, callVars

(* An animation ends: the tip is there, or the next object has its place.  *)
LEMMA AnimationAgrees == CanvasInv /\ AnimationEnds => Agreed(canvas')
<1>. SUFFICES ASSUME CanvasInv, AnimationEnds  PROVE Agreed(canvas')
  OBVIOUS
<1>. DEFINE d == canvas
            e == [d EXCEPT !.anim = "none"]
<1>1. PICK c, n, s, t, a, ti, w : d = Drawn(c, n, s, t, a, ti, w) /\ Agree(c, n, s, t, a, ti, w)
  BY DEF CanvasInv, Agreed
<1>2. d.anim = a /\ e = Drawn(c, n, s, t, "none", ti, w)
  BY <1>1 DEF Drawn
<1>3. canvas' = Stopped(e, a = "in") /\ a # "none"
  BY <1>2 DEF AnimationEnds
<1>4. c \in Objects /\ n \in Objects /\ n # "AutoComplete" /\ w \in BOOLEAN
      /\ t = TipOf(c)
  BY <1>1 DEF Agree
<1>5. a \in {"in", "out"}
  BY <1>1, <1>3 DEF Agree
<1>. HIDE DEF d, e
<1>6. CASE a = "in"
  <2>1. s = "TRANSITION_IN" /\ n = "NoObject"
    BY <1>1, <1>6 DEF Agree, CanvasState
  <2>2. c # "NoObject"
    BY <1>1, <2>1, TipCases DEF Agree
  <2>3. e.cur = c /\ [e EXCEPT !.state = "VISIBLE"] = Drawn(c, n, "VISIBLE", t, "none", ti, w)
    BY <1>2 DEF Drawn
  <2>4. canvas' = [e EXCEPT !.state = "VISIBLE"]
    BY <1>3, <1>6, <2>2, <2>3 DEF Stopped
  <2>5. Agree(c, n, "VISIBLE", t, "none", ti, w)
    BY <1>1, <2>1 DEF Agree, CanvasState
  <2>. QED
    BY <2>3, <2>4, <2>5 DEF Agreed
<1>7. CASE a = "out"
  <2>1. s = "TRANSITION_OUT"
    BY <1>1, <1>7 DEF Agree, CanvasState
  <2>2. n # c
    BY <1>1, <2>1 DEF Agree
  <2>3. canvas' = StoppedOut(e)
    BY <1>3, <1>7 DEF Stopped, StoppedOut
  <2>4. StoppedOut(Drawn(c, n, s, t, "none", ti, w)) = Entered(n, "NoObject", w)
    BY <1>4, <2>2, LeftAtOnce
  <2>. QED
    BY <1>2, <1>4, <2>3, <2>4, EnteredAgrees
<1>. QED
  BY <1>5, <1>6, <1>7

(* EndCall's time is up: its tip goes, or is going already.                *)
LEMMA TimeoutAgrees == CanvasInv /\ slotTimeout => Agreed(canvas')
<1>. SUFFICES ASSUME CanvasInv, slotTimeout  PROVE Agreed(canvas')
  OBVIOUS
<1>. DEFINE d == canvas
            e == StopTimer(d)
<1>1. PICK c, n, s, t, a, ti, w : d = Drawn(c, n, s, t, a, ti, w) /\ Agree(c, n, s, t, a, ti, w)
  BY DEF CanvasInv, Agreed
<1>2. StopTimer(Drawn(c, n, s, t, a, ti, w)) = Drawn(c, n, s, t, a, Off, w)
  BY StopTimerIs
<1>3. d.timer = ti /\ ti
  BY <1>1 DEF Drawn, slotTimeout
<1>4. c = "EndCall" /\ n \in Objects
  BY <1>1, <1>3 DEF Agree
<1>5. Agree(c, n, s, t, a, Off, w)
  BY <1>1 DEF Agree, Off
<1>6. n # c /\ (s = "NO_OBJECT" => n = "NoObject")
  BY <1>1, <1>4 DEF Agree
<1>7. Agreed(OutSlowly(Drawn(c, n, s, t, a, Off, w)))
  BY <1>4, <1>5, <1>6, OutSlowlyAgrees
<1>8. canvas' = OutSlowly(e)
  BY DEF slotTimeout, OutSlowly
<1>. QED
  BY <1>1, <1>2, <1>7, <1>8

LEMMA StepCanvasInv == CanvasInv /\ [CanvasNext]_canvasVars => CanvasInv'
<1>. SUFFICES ASSUME CanvasInv, [CanvasNext]_canvasVars  PROVE CanvasInv'
  OBVIOUS
<1>0. Agreed(canvas) /\ CanvasMembers /\ OfferedIsFound
  BY DEF CanvasInv
<1>1. CASE Dial
  BY <1>0, <1>1, WatchStep DEF Dial, CanvasInv, CanvasMembers
<1>2. CASE Type
  <2>1. CASE watched
    <3>1. Watch(canvas, TRUE, call, TRUE)
      BY <1>2, <2>1 DEF Type
    <3>2. Agreed(canvas') /\ OfferedIsFound' /\ watched' \in BOOLEAN /\ enabled' \in BOOLEAN
      BY <1>0, <3>1, WatchStep
    <3>. QED
      BY <1>0, <1>2, <3>2 DEF Type, CanvasInv, CanvasMembers
  <2>2. CASE ~watched
    BY <1>0, <1>2, <2>2 DEF Type, CanvasInv, CanvasMembers, OfferedIsFound
  <2>. QED
    BY <2>1, <2>2
<1>3. CASE Erase
  BY <1>0, <1>3 DEF Erase, CanvasInv, CanvasMembers, OfferedIsFound
<1>4. CASE SelectOther
  BY <1>0, <1>4, WatchStep DEF SelectOther, CanvasInv, CanvasMembers
<1>5. CASE SelectAgain
  <2>1. Watch(canvas, TRUE, call, typed) /\ typed \in BOOLEAN
    BY <1>0, <1>5 DEF SelectAgain, CanvasMembers
  <2>2. Agreed(canvas') /\ OfferedIsFound' /\ watched' \in BOOLEAN /\ enabled' \in BOOLEAN
    BY <1>0, <2>1, WatchStep
  <2>. QED
    BY <1>0, <1>5, <2>2 DEF SelectAgain, CanvasInv, CanvasMembers
<1>6. CASE Place
  <2>1. CASE typed
    <3>1. Watch(canvas, watched, "started", FALSE) /\ watched \in BOOLEAN
      BY <1>0, <1>6, <2>1 DEF Place, CanvasMembers
    <3>2. Agreed(canvas') /\ OfferedIsFound' /\ watched' \in BOOLEAN /\ enabled' \in BOOLEAN
      BY <1>0, <3>1, WatchStep
    <3>. QED
      BY <1>0, <1>6, <3>2 DEF Place, CanvasInv, CanvasMembers
  <2>2. CASE ~typed
    BY <1>0, <1>6, <2>2 DEF Place, CanvasInv, CanvasMembers, OfferedIsFound
  <2>. QED
    BY <2>1, <2>2
<1>7. CASE Cancel
  BY <1>0, <1>7, WatchStep DEF Cancel, CanvasInv, CanvasMembers
<1>8. CASE CallStateChanged
  <2>. DEFINE es == {"CALL_RINGING", "CALL_ENDED", "CALL_BUSY", "CALL_STATE_CHANGED"}
  <2>1. PICK e \in es, two \in BOOLEAN : canvas' = Counted(NewEvent(canvas, e), two)
    BY <1>8 DEF CallStateChanged
  <2>2. Agreed(canvas')
    BY <1>0, <2>1, NewEventAgrees, CountedAgrees
  <2>. QED
    BY <1>8, <2>2, CanvasAlone DEF CallStateChanged
<1>9. CASE IncomingCall
  <2>. DEFINE d(two) == Counted(NewEvent(canvas, "CALL_RINGING"), two)
  <2>1. PICK two \in BOOLEAN : Watch(d(two), FALSE, "none", FALSE)
    BY <1>9 DEF IncomingCall
  <2>2. Agreed(d(two))
    BY <1>0, NewEventAgrees, CountedAgrees
  <2>. HIDE DEF d
  <2>3. Agreed(canvas') /\ OfferedIsFound' /\ watched' \in BOOLEAN /\ enabled' \in BOOLEAN
    BY <2>1, <2>2, WatchStep
  <2>. QED
    BY <1>0, <1>9, <2>3 DEF IncomingCall, CanvasInv, CanvasMembers
<1>10. ASSUME NEW es, Happens(es)  PROVE CanvasInv'
  <2>1. PICK e : canvas' = NewEvent(canvas, e)
    BY <1>10 DEF Happens
  <2>2. Agreed(canvas') /\ UNCHANGED callVars
    BY <1>0, <1>10, <2>1, NewEventAgrees DEF Happens
  <2>. QED
    BY <2>2, CanvasAlone
<1>11. CASE RegistrationChanged \/ NetworkDown \/ AccountListUpdated \/ DragMove \/ DragLeave
  BY <1>10, <1>11
  DEF RegistrationChanged, NetworkDown, AccountListUpdated, DragMove, DragLeave
<1>12. CASE Drop
  <2>1. Agreed(canvas') /\ UNCHANGED callVars
    BY <1>0, <1>12, NewEventAgrees DEF Drop
  <2>. QED
    BY <2>1, CanvasAlone
<1>13. CASE AnimationEnds
  BY <1>13, AnimationAgrees, CanvasAlone DEF AnimationEnds
<1>14. CASE slotTimeout
  BY <1>14, TimeoutAgrees, CanvasAlone DEF slotTimeout
<1>15. CASE UNCHANGED canvasVars
  BY <1>0, <1>15 DEF canvasVars, CanvasInv, CanvasMembers, OfferedIsFound
<1>. QED
  BY <1>1, <1>2, <1>3, <1>4, <1>5, <1>6, <1>7, <1>8, <1>9, <1>11, <1>12, <1>13, <1>14, <1>15
  DEF CanvasNext

THEOREM CanvasInvariance == CanvasSpec => []CanvasInv
<1>. QED
  BY InitCanvasInv, StepCanvasInv, PTL DEF CanvasSpec

(* The canvas, its tips, the call that is typed and the list keep their    *)
(* types: the entries offered are entries of the directory, in particular, *)
(* which the halving never leaves.                                         *)
THEOREM CanvasTypeCorrect == CanvasSpec => []CanvasTypeOK
<1>1. CanvasInv => CanvasTypeOK
  <2>. SUFFICES ASSUME CanvasInv  PROVE CanvasTypeOK
    OBVIOUS
  <2>1. PICK c, n, s, t, a, ti, w :
          canvas = Drawn(c, n, s, t, a, ti, w) /\ Agree(c, n, s, t, a, ti, w)
    BY DEF CanvasInv, Agreed
  <2>2. /\ canvas.cur = c /\ canvas.next = n /\ canvas.state = s /\ canvas.tip = t
        /\ canvas.anim = a /\ canvas.timer = ti /\ canvas.widget = w
    BY <2>1 DEF Drawn
  <2>3. /\ c \in Objects /\ n \in Objects /\ s \in CanvasState
        /\ t \in {TipOf(o) : o \in Objects} /\ ti \in BOOLEAN /\ w \in BOOLEAN
    BY <2>1 DEF Agree
  <2>4. a \in {"none", "in", "out"}
    BY <2>1 DEF Agree
  <2>5. book \in Shapes \cup {NoBook} /\ offered \subseteq 1..Size(book)
    BY RangeHolds DEF CanvasInv, OfferedIsFound
  <2>. QED
    BY <2>2, <2>3, <2>4, <2>5 DEF CanvasTypeOK, CanvasInv, CanvasMembers, CanvasState
<1>. QED
  BY <1>1, CanvasInvariance, PTL

(* The state machine and the tips agree between any two handlers: no       *)
(* object waits for an animation that is not running, and the timer of     *)
(* EndCall takes nothing else away.                                        *)
THEOREM StateAgreesCorrect == CanvasSpec => []StateAgrees
<1>1. CanvasInv => StateAgrees
  <2>. SUFFICES ASSUME CanvasInv  PROVE StateAgrees
    OBVIOUS
  <2>1. PICK c, n, s, t, a, ti, w :
          canvas = Drawn(c, n, s, t, a, ti, w) /\ Agree(c, n, s, t, a, ti, w)
    BY DEF CanvasInv, Agreed
  <2>2. /\ canvas.cur = c /\ canvas.next = n /\ canvas.state = s /\ canvas.tip = t
        /\ canvas.anim = a /\ canvas.timer = ti
    BY <2>1 DEF Drawn
  <2>3. (s = "TRANSITION_IN") = (a = "in") /\ (s = "TRANSITION_OUT") = (a = "out")
    BY <2>1 DEF Agree
  <2>4. /\ s # "NO_OBJECT" => t = TipOf(c) /\ t # "none"
        /\ s = "NO_OBJECT" => n = "NoObject"
        /\ ti => c = "EndCall"
    BY <2>1 DEF Agree
  <2>. QED
    BY <2>2, <2>3, <2>4 DEF StateAgrees
<1>. QED
  BY <1>1, CanvasInvariance, PTL

(* For a directory of any shape, smaller than what the code can search     *)
(* without stepping over its end: the list misses no match unless nothing  *)
(* is greater than the prefix.                                             *)
THEOREM MatchesOfferedCorrect == CanvasSpec => []MatchesOffered
<1>1. CanvasInv => MatchesOffered
  BY RangeHolds DEF CanvasInv, OfferedIsFound, MatchesOffered
<1>. QED
  BY <1>1, CanvasInvariance, PTL

(* The loop of the search ends within as many rounds as the directory has  *)
(* entries, and its middle is never beyond the end of the map.             *)
THEOREM SearchStaysInMap ==
  ASSUME NEW m \in Shapes, NEW h, IsRounds(m, h), NEW k \in 0..Size(m)
  PROVE  /\ ~Goes(Search(m))
         /\ Goes(h[k]) => Middle(m, h[k].beg, h[k].size) \in 1..(Size(m) + 1)
<1>1. ~Goes(Search(m))
  BY SearchHolds
<1>2. Round(m, k, h[k]) /\ k \in Nat
  BY RoundsHold, ShapeIsTyped
<1>. DEFINE r == h[k]
<1>3. Goes(r) => Middle(m, r.beg, r.size) \in (r.beg + 1)..(Size(m) + 1)
  BY <1>2, MiddleInMap
<1>4. r.beg \in 1..Size(m)
  BY <1>2 DEF Round
<1>. HIDE DEF r
<1>5. Goes(r) => Middle(m, r.beg, r.size) \in 1..(Size(m) + 1)
  <2>1. Size(m) \in Nat
    BY ShapeIsTyped
  <2>. QED
    BY <1>3, <1>4, <2>1
<1>. QED
  BY <1>1, <1>5 DEF r

-----------------------------------------------------------------------------
(* The frames of a video.                                                  *)

(* startStopMutex is the render thread's exactly between tryLock and the   *)
(* unlock.                                                                 *)
MutexHeld == ssMutex = "render" <=> pc \in Critical

(* The daemon counts no further than the bound.                            *)
FramesBounded ==
  /\ writing => shmPath \in Shm /\ gen[shmPath] < MaxGen
  /\ \A p \in Shm : notification[p] <= gen[p]

(* A renderer about to be deleted has been stopped.                        *)
DeletingIsStopped == op = "deleting" => ~isRendering

(* resizeShm remaps without the semaphore.                                 *)
RemapsUnlocked == pc \in {"remap", "resizeLock"} /\ area # Unmapped => held # area

IInv ==
  /\ TypeOK
  /\ MutexHeld
  /\ FramesBounded
  /\ DeletingIsStopped
  /\ StoppedIsUnmapped
  /\ RemapsUnlocked
  /\ LockedCopyFits

USE MaxShmAssumption, MaxGenAssumption, MaxSizeAssumption

(* The initial state satisfies the invariant.                              *)
LEMMA InitIInv == Init => IInv
<1>. SUFFICES ASSUME Init  PROVE IInv
  OBVIOUS
<1>1. MainTypes
  BY DEF Init, MainTypes, Nothing, Op, PC
<1>2. MapTypes
  BY DEF Init, MapTypes
<1>3. ShmTypes
  <2>1. sem \in [Shm -> Nat] /\ shmPath \in Shm \union {0} /\ writing \in BOOLEAN
    BY DEF Init
  <2>2. notification \in [Shm -> 0..MaxGen] /\ gen \in [Shm -> 0..MaxGen]
    BY DEF Init
  <2>3. size \in [Shm -> 0..MaxSize]
    BY DEF Init
  <2>. QED
    BY <2>1, <2>2, <2>3 DEF ShmTypes
<1>4. MutexHeld
  BY DEF Init, MutexHeld, Critical
<1>5. FramesBounded
  BY DEF Init, FramesBounded
<1>6. DeletingIsStopped /\ StoppedIsUnmapped /\ RemapsUnlocked /\ LockedCopyFits
  BY DEF Init, DeletingIsStopped, StoppedIsUnmapped, RemapsUnlocked, LockedCopyFits
<1>. QED
  BY <1>1, <1>2, <1>3, <1>4, <1>5, <1>6 DEF IInv, TypeOK

(* Every step keeps the types of what the threads do.                      *)
LEMMA MainTypesStep == TypeOK /\ [Next]_vars => MainTypes'
<1>. SUFFICES ASSUME MainTypes, MapTypes, [Next]_vars  PROVE MainTypes'
  BY DEF TypeOK
<1>1. CASE StartedDecoding
  BY <1>1 DEF StartedDecoding, MainTypes, MapTypes, Nothing, Op, PC, Critical
<1>2. ASSUME NEW what \in {"stop", "delete", "other"}, Begin(what)
      PROVE  MainTypes'
  BY <1>2 DEF Begin, MainTypes, MapTypes, Nothing, Op, PC, Critical
<1>3. CASE MainLock
  BY <1>3 DEF MainLock, mainVars, MainTypes, MapTypes, Nothing, Op, PC, Critical
<1>4. CASE StartRendering
  BY <1>4 DEF StartRendering, StartShm, MainTypes, MapTypes, Nothing, Op, PC, Critical
<1>5. CASE StopRendering
  BY <1>5 DEF StopRendering, StopShm, MainTypes, MapTypes, Nothing, Op, PC, Critical
<1>6. CASE DeleteRenderer
  BY <1>6 DEF DeleteRenderer, StopShm, MainTypes, MapTypes, Nothing, Op, PC, Critical
<1>7. CASE OtherRenderer
  BY <1>7 DEF OtherRenderer, MainTypes, MapTypes, Nothing, Op, PC, Critical
<1>8. CASE BeginDraw
  BY <1>8 DEF BeginDraw, MainTypes, MapTypes, Nothing, Op, PC, Critical
<1>9. CASE EndDraw
  BY <1>9 DEF EndDraw, MainTypes, MapTypes, Nothing, Op, PC, Critical
<1>10. CASE Timeout
  BY <1>10 DEF Timeout, mainVars, MainTypes, MapTypes, Nothing, Op, PC, Critical
<1>11. CASE TimedEvents
  BY <1>11 DEF TimedEvents, KeepsMain, mainVars, MainTypes, MapTypes, Nothing, Op, PC, Critical
<1>12. CASE RenderCrash
  BY <1>12 DEF RenderCrash, KeepsMain, mainVars, MainTypes, MapTypes, Nothing, Op, PC, Critical
<1>13. CASE ShmLock
  BY <1>13 DEF ShmLock, Take, KeepsMain, mainVars, MainTypes, MapTypes, Nothing, Op, PC, Critical
<1>14. CASE TryLock
  BY <1>14 DEF TryLock, KeepsMain, mainVars, MainTypes, MapTypes, Nothing, Op, PC, Critical
<1>15. CASE Compare
  BY <1>15 DEF Compare, Post, KeepsMain, mainVars, MainTypes, MapTypes, Nothing, Op, PC, Critical
<1>16. CASE Wait
  BY <1>16 DEF Wait, Leave, KeepsMain, mainVars, MainTypes, MapTypes, Nothing, Op, PC, Critical
<1>17. CASE Relock
  BY <1>17 DEF Relock, Take, Leave, KeepsMain, mainVars, MainTypes, MapTypes, Nothing, Op, PC, Critical
<1>18. CASE Resize
  BY <1>18 DEF Resize, Post, KeepsMain, mainVars, MainTypes, MapTypes, Nothing, Op, PC, Critical
<1>19. CASE Remap
  BY <1>19 DEF Remap, KeepsMain, mainVars, MainTypes, MapTypes, Nothing, Op, PC, Critical
<1>20. CASE ResizeLock
  BY <1>20 DEF ResizeLock, Take, AfterRemap, KeepsMain, mainVars, MainTypes, MapTypes, Nothing, Op, PC, Critical
<1>21. CASE Copy
  BY <1>21 DEF Copy, Post, KeepsMain, mainVars, MainTypes, MapTypes, Nothing, Op, PC, Critical
<1>22. CASE Flip
  BY <1>22 DEF Flip, Leave, KeepsMain, mainVars, MainTypes, MapTypes, Nothing, Op, PC, Critical
<1>23. CASE DaemonLock
  BY <1>23 DEF DaemonLock, Take, mainVars, MainTypes, MapTypes, Nothing, Op, PC, Critical
<1>24. ASSUME NEW bytes \in 1..MaxSize, DaemonWrite(bytes)
      PROVE  MainTypes'
  BY <1>24 DEF DaemonWrite, Post, mainVars, MainTypes, MapTypes, Nothing, Op, PC, Critical
<1>25. CASE UNCHANGED vars
  BY <1>25 DEF vars, mainVars, mapVars, frameVars, shmVars, daemonVars, MainTypes, MapTypes, Nothing, Op, PC, Critical
<1>. QED
  BY <1>1, <1>2, <1>3, <1>4, <1>5, <1>6, <1>7, <1>8, <1>9, <1>10, <1>11, <1>12, <1>13, <1>14, <1>15, <1>16, <1>17, <1>18, <1>19, <1>20, <1>21, <1>22, <1>23, <1>24, <1>25 DEF Next, Main, Render, Daemon

(* Every step keeps the types of the mapping and of the frames.            *)
LEMMA MapTypesStep == TypeOK /\ [Next]_vars => MapTypes'
<1>. SUFFICES ASSUME MapTypes, ShmTypes, [Next]_vars  PROVE MapTypes'
  BY DEF TypeOK
<1>1. CASE StartedDecoding
  BY <1>1 DEF StartedDecoding, MainIdle, mapVars, frameVars, MapTypes, ShmTypes
<1>2. ASSUME NEW what \in {"stop", "delete", "other"}, Begin(what)
      PROVE  MapTypes'
  BY <1>2 DEF Begin, MainIdle, mapVars, frameVars, MapTypes, ShmTypes
<1>3. CASE MainLock
  BY <1>3 DEF MainLock, mapVars, frameVars, MapTypes, ShmTypes
<1>4. CASE StartRendering
  BY <1>4 DEF StartRendering, StartShm, mapVars, frameVars, MapTypes, ShmTypes, Unmapped
<1>5. CASE StopRendering
  BY <1>5 DEF StopRendering, StopShm, frameVars, MapTypes, ShmTypes
<1>6. CASE DeleteRenderer
  BY <1>6 DEF DeleteRenderer, StopShm, frameVars, MapTypes, ShmTypes
<1>7. CASE OtherRenderer
  BY <1>7 DEF OtherRenderer, mapVars, frameVars, MapTypes, ShmTypes
<1>8. CASE BeginDraw
  BY <1>8 DEF BeginDraw, MainIdle, mapVars, frameVars, MapTypes, ShmTypes
<1>9. CASE EndDraw
  BY <1>9 DEF EndDraw, mapVars, frameVars, MapTypes, ShmTypes
<1>10. CASE Timeout
  BY <1>10 DEF Timeout, MainIdle, mapVars, frameVars, MapTypes, ShmTypes
<1>11. CASE TimedEvents
  BY <1>11 DEF TimedEvents, mapVars, frameVars, MapTypes, ShmTypes
<1>12. CASE RenderCrash
  BY <1>12 DEF RenderCrash, Accessible, mapVars, frameVars, MapTypes, ShmTypes
<1>13. CASE ShmLock
  BY <1>13 DEF ShmLock, Accessible, Take, mapVars, frameVars, MapTypes, ShmTypes
<1>14. CASE TryLock
  BY <1>14 DEF TryLock, mapVars, frameVars, MapTypes, ShmTypes
<1>15. CASE Compare
  BY <1>15 DEF Compare, Accessible, Post, Unlocked, mapVars, frameVars, MapTypes, ShmTypes
<1>16. CASE Wait
  BY <1>16 DEF Wait, Accessible, mapVars, frameVars, MapTypes, ShmTypes
<1>17. CASE Relock
  BY <1>17 DEF Relock, Accessible, Take, mapVars, frameVars, MapTypes, ShmTypes
<1>18. CASE Resize
  BY <1>18 DEF Resize, Accessible, Post, Unlocked, frameVars, MapTypes, ShmTypes
<1>19. CASE Remap
  BY <1>19 DEF Remap, frameVars, MapTypes, ShmTypes
<1>20. CASE ResizeLock
  BY <1>20 DEF ResizeLock, Accessible, Take, AfterRemap, mapVars, frameVars, MapTypes, ShmTypes
<1>21. CASE Copy
  BY <1>21 DEF Copy, Accessible, Post, Unlocked, mapVars, MapTypes, ShmTypes
<1>22. CASE Flip
  BY <1>22 DEF Flip, OtherFrame, mapVars, MapTypes, ShmTypes
<1>23. CASE DaemonLock
  BY <1>23 DEF DaemonLock, Take, mapVars, frameVars, MapTypes, ShmTypes
<1>24. ASSUME NEW bytes \in 1..MaxSize, DaemonWrite(bytes)
      PROVE  MapTypes'
  BY <1>24 DEF DaemonWrite, Post, mapVars, frameVars, MapTypes, ShmTypes
<1>25. CASE UNCHANGED vars
  BY <1>25 DEF vars, mainVars, mapVars, frameVars, shmVars, daemonVars, MapTypes, ShmTypes
<1>. QED
  BY <1>1, <1>2, <1>3, <1>4, <1>5, <1>6, <1>7, <1>8, <1>9, <1>10, <1>11, <1>12, <1>13, <1>14, <1>15, <1>16, <1>17, <1>18, <1>19, <1>20, <1>21, <1>22, <1>23, <1>24, <1>25 DEF Next, Main, Render, Daemon

(* Every step keeps the types of the shared memories.                      *)
LEMMA ShmTypesStep == TypeOK /\ FramesBounded /\ [Next]_vars => ShmTypes'
<1>. SUFFICES ASSUME MapTypes, ShmTypes, FramesBounded, [Next]_vars  PROVE ShmTypes'
  BY DEF TypeOK
<1>1. CASE StartedDecoding
  <2>1. shmPath' \in Shm
    BY <1>1 DEF StartedDecoding, ShmTypes, Shm
  <2>. QED
    BY <1>1, <2>1 DEF StartedDecoding, shmVars, ShmTypes
<1>2. ASSUME NEW what \in {"stop", "delete", "other"}, Begin(what)
      PROVE  ShmTypes'
  BY <1>2 DEF Begin, MainIdle, shmVars, daemonVars, MapTypes, ShmTypes, FramesBounded
<1>3. CASE MainLock
  BY <1>3 DEF MainLock, shmVars, daemonVars, MapTypes, ShmTypes, FramesBounded
<1>4. CASE StartRendering
  BY <1>4 DEF StartRendering, shmVars, daemonVars, MapTypes, ShmTypes, FramesBounded
<1>5. CASE StopRendering
  BY <1>5 DEF StopRendering, shmVars, daemonVars, MapTypes, ShmTypes, FramesBounded
<1>6. CASE DeleteRenderer
  BY <1>6 DEF DeleteRenderer, shmVars, daemonVars, MapTypes, ShmTypes, FramesBounded
<1>7. CASE OtherRenderer
  BY <1>7 DEF OtherRenderer, shmVars, daemonVars, MapTypes, ShmTypes, FramesBounded
<1>8. CASE BeginDraw
  BY <1>8 DEF BeginDraw, MainIdle, shmVars, daemonVars, MapTypes, ShmTypes, FramesBounded
<1>9. CASE EndDraw
  BY <1>9 DEF EndDraw, shmVars, daemonVars, MapTypes, ShmTypes, FramesBounded
<1>10. CASE Timeout
  BY <1>10 DEF Timeout, MainIdle, shmVars, daemonVars, MapTypes, ShmTypes, FramesBounded
<1>11. CASE TimedEvents
  BY <1>11 DEF TimedEvents, KeepsMain, shmVars, daemonVars, MapTypes, ShmTypes, FramesBounded
<1>12. CASE RenderCrash
  BY <1>12 DEF RenderCrash, Accessible, KeepsMain, shmVars, daemonVars, MapTypes, ShmTypes, FramesBounded
<1>13. CASE ShmLock
  BY <1>13 DEF ShmLock, Accessible, Free, Take, KeepsMain, daemonVars, MapTypes, ShmTypes, FramesBounded
<1>14. CASE TryLock
  BY <1>14 DEF TryLock, KeepsMain, shmVars, daemonVars, MapTypes, ShmTypes, FramesBounded
<1>15. CASE Compare
  BY <1>15 DEF Compare, Accessible, Post, Unlocked, KeepsMain, daemonVars, MapTypes, ShmTypes, FramesBounded
<1>16. CASE Wait
  BY <1>16 DEF Wait, Accessible, KeepsMain, daemonVars, MapTypes, ShmTypes, FramesBounded
<1>17. CASE Relock
  BY <1>17 DEF Relock, Accessible, Free, Take, KeepsMain, daemonVars, MapTypes, ShmTypes, FramesBounded
<1>18. CASE Resize
  BY <1>18 DEF Resize, Accessible, Post, Unlocked, KeepsMain, daemonVars, MapTypes, ShmTypes, FramesBounded
<1>19. CASE Remap
  BY <1>19 DEF Remap, KeepsMain, shmVars, daemonVars, MapTypes, ShmTypes, FramesBounded
<1>20. CASE ResizeLock
  BY <1>20 DEF ResizeLock, Accessible, Free, Take, AfterRemap, KeepsMain, daemonVars, MapTypes, ShmTypes, FramesBounded
<1>21. CASE Copy
  BY <1>21 DEF Copy, Accessible, Post, Unlocked, KeepsMain, daemonVars, MapTypes, ShmTypes, FramesBounded
<1>22. CASE Flip
  BY <1>22 DEF Flip, OtherFrame, KeepsMain, shmVars, daemonVars, MapTypes, ShmTypes, FramesBounded
<1>23. CASE DaemonLock
  BY <1>23 DEF DaemonLock, Free, Take, MapTypes, ShmTypes, FramesBounded, Unmapped
<1>24. ASSUME NEW bytes \in 1..MaxSize, DaemonWrite(bytes)
      PROVE  ShmTypes'
  <2>1. shmPath \in Shm /\ gen[shmPath] < MaxGen
    BY <1>24 DEF DaemonWrite, FramesBounded
  <2>2. notification[shmPath] <= gen[shmPath]
    BY <2>1 DEF FramesBounded
  <2>3. gen[shmPath] + 1 \in 0..MaxGen /\ notification[shmPath] + 1 \in 0..MaxGen
    BY <2>1, <2>2 DEF ShmTypes
  <2>4. bytes \in 0..MaxSize
    OBVIOUS
  <2>5. gen' \in [Shm -> 0..MaxGen] /\ notification' \in [Shm -> 0..MaxGen]
    BY <1>24, <2>1, <2>3 DEF DaemonWrite, ShmTypes
  <2>6. sem' \in [Shm -> Nat]
    BY <1>24, <2>1 DEF DaemonWrite, Post, ShmTypes
  <2>7. size' \in [Shm -> 0..MaxSize]
    BY <1>24, <2>1, <2>4 DEF DaemonWrite, ShmTypes
  <2>. QED
    BY <1>24, <2>1, <2>5, <2>6, <2>7 DEF DaemonWrite, ShmTypes
<1>25. CASE UNCHANGED vars
  BY <1>25 DEF vars, mainVars, mapVars, frameVars, shmVars, daemonVars, MapTypes, ShmTypes, FramesBounded
<1>. QED
  BY <1>1, <1>2, <1>3, <1>4, <1>5, <1>6, <1>7, <1>8, <1>9, <1>10, <1>11, <1>12, <1>13, <1>14, <1>15, <1>16, <1>17, <1>18, <1>19, <1>20, <1>21, <1>22, <1>23, <1>24, <1>25 DEF Next, Main, Render, Daemon

(* Every step keeps the mutual exclusion of startStopMutex.                *)
LEMMA MutexStep == TypeOK /\ MutexHeld /\ [Next]_vars => MutexHeld'
<1>. SUFFICES ASSUME MainTypes, MutexHeld, [Next]_vars  PROVE MutexHeld'
  BY DEF TypeOK
<1>1. CASE StartedDecoding
  BY <1>1 DEF StartedDecoding, MainTypes, MutexHeld, PC, Critical
<1>2. ASSUME NEW what \in {"stop", "delete", "other"}, Begin(what)
      PROVE  MutexHeld'
  BY <1>2 DEF Begin, MainTypes, MutexHeld, PC, Critical
<1>3. CASE MainLock
  BY <1>3 DEF MainLock, MainTypes, MutexHeld, PC, Critical
<1>4. CASE StartRendering
  BY <1>4 DEF StartRendering, MainTypes, MutexHeld, PC, Critical
<1>5. CASE StopRendering
  BY <1>5 DEF StopRendering, MainTypes, MutexHeld, PC, Critical
<1>6. CASE DeleteRenderer
  BY <1>6 DEF DeleteRenderer, MainTypes, MutexHeld, PC, Critical
<1>7. CASE OtherRenderer
  BY <1>7 DEF OtherRenderer, MainTypes, MutexHeld, PC, Critical
<1>8. CASE BeginDraw
  BY <1>8 DEF BeginDraw, MainTypes, MutexHeld, PC, Critical
<1>9. CASE EndDraw
  BY <1>9 DEF EndDraw, MainTypes, MutexHeld, PC, Critical
<1>10. CASE Timeout
  BY <1>10 DEF Timeout, MainTypes, MutexHeld, PC, Critical
<1>11. CASE TimedEvents
  BY <1>11 DEF TimedEvents, MainTypes, MutexHeld, PC, Critical
<1>12. CASE RenderCrash
  BY <1>12 DEF RenderCrash, MainTypes, MutexHeld, PC, Critical
<1>13. CASE ShmLock
  BY <1>13 DEF ShmLock, Take, MainTypes, MutexHeld, PC, Critical
<1>14. CASE TryLock
  BY <1>14 DEF TryLock, MainTypes, MutexHeld, PC, Critical
<1>15. CASE Compare
  BY <1>15 DEF Compare, Post, MainTypes, MutexHeld, PC, Critical
<1>16. CASE Wait
  BY <1>16 DEF Wait, Leave, MainTypes, MutexHeld, PC, Critical
<1>17. CASE Relock
  BY <1>17 DEF Relock, Take, Leave, MainTypes, MutexHeld, PC, Critical
<1>18. CASE Resize
  BY <1>18 DEF Resize, Post, MainTypes, MutexHeld, PC, Critical
<1>19. CASE Remap
  BY <1>19 DEF Remap, MainTypes, MutexHeld, PC, Critical
<1>20. CASE ResizeLock
  BY <1>20 DEF ResizeLock, Take, AfterRemap, MainTypes, MutexHeld, PC, Critical
<1>21. CASE Copy
  BY <1>21 DEF Copy, Post, MainTypes, MutexHeld, PC, Critical
<1>22. CASE Flip
  BY <1>22 DEF Flip, Leave, MainTypes, MutexHeld, PC, Critical
<1>23. CASE DaemonLock
  BY <1>23 DEF DaemonLock, Take, MainTypes, MutexHeld, PC, Critical
<1>24. ASSUME NEW bytes \in 1..MaxSize, DaemonWrite(bytes)
      PROVE  MutexHeld'
  BY <1>24 DEF DaemonWrite, Post, MainTypes, MutexHeld, PC, Critical
<1>25. CASE UNCHANGED vars
  BY <1>25 DEF vars, mainVars, mapVars, frameVars, shmVars, daemonVars, MainTypes, MutexHeld, PC, Critical
<1>. QED
  BY <1>1, <1>2, <1>3, <1>4, <1>5, <1>6, <1>7, <1>8, <1>9, <1>10, <1>11, <1>12, <1>13, <1>14, <1>15, <1>16, <1>17, <1>18, <1>19, <1>20, <1>21, <1>22, <1>23, <1>24, <1>25 DEF Next, Main, Render, Daemon

(* Every step keeps the daemon within its bound.                           *)
LEMMA FramesStep == TypeOK /\ FramesBounded /\ [Next]_vars => FramesBounded'
<1>. SUFFICES ASSUME TypeOK, FramesBounded, [Next]_vars  PROVE FramesBounded'
  OBVIOUS
<1>1. CASE StartedDecoding
  BY <1>1 DEF StartedDecoding, shmVars, MapTypes, ShmTypes, TypeOK, FramesBounded
<1>2. ASSUME NEW what \in {"stop", "delete", "other"}, Begin(what)
      PROVE  FramesBounded'
  BY <1>2 DEF Begin, shmVars, daemonVars, MapTypes, ShmTypes, TypeOK, FramesBounded
<1>3. CASE MainLock
  BY <1>3 DEF MainLock, shmVars, daemonVars, MapTypes, ShmTypes, TypeOK, FramesBounded
<1>4. CASE StartRendering
  BY <1>4 DEF StartRendering, shmVars, daemonVars, MapTypes, ShmTypes, TypeOK, FramesBounded
<1>5. CASE StopRendering
  BY <1>5 DEF StopRendering, shmVars, daemonVars, MapTypes, ShmTypes, TypeOK, FramesBounded
<1>6. CASE DeleteRenderer
  BY <1>6 DEF DeleteRenderer, shmVars, daemonVars, MapTypes, ShmTypes, TypeOK, FramesBounded
<1>7. CASE OtherRenderer
  BY <1>7 DEF OtherRenderer, shmVars, daemonVars, MapTypes, ShmTypes, TypeOK, FramesBounded
<1>8. CASE BeginDraw
  BY <1>8 DEF BeginDraw, shmVars, daemonVars, MapTypes, ShmTypes, TypeOK, FramesBounded
<1>9. CASE EndDraw
  BY <1>9 DEF EndDraw, shmVars, daemonVars, MapTypes, ShmTypes, TypeOK, FramesBounded
<1>10. CASE Timeout
  BY <1>10 DEF Timeout, shmVars, daemonVars, MapTypes, ShmTypes, TypeOK, FramesBounded
<1>11. CASE TimedEvents
  BY <1>11 DEF TimedEvents, KeepsMain, shmVars, daemonVars, MapTypes, ShmTypes, TypeOK, FramesBounded
<1>12. CASE RenderCrash
  BY <1>12 DEF RenderCrash, KeepsMain, shmVars, daemonVars, MapTypes, ShmTypes, TypeOK, FramesBounded
<1>13. CASE ShmLock
  BY <1>13 DEF ShmLock, Take, KeepsMain, daemonVars, MapTypes, ShmTypes, TypeOK, FramesBounded
<1>14. CASE TryLock
  BY <1>14 DEF TryLock, KeepsMain, shmVars, daemonVars, MapTypes, ShmTypes, TypeOK, FramesBounded
<1>15. CASE Compare
  BY <1>15 DEF Compare, Post, KeepsMain, daemonVars, MapTypes, ShmTypes, TypeOK, FramesBounded
<1>16. CASE Wait
  BY <1>16 DEF Wait, KeepsMain, daemonVars, MapTypes, ShmTypes, TypeOK, FramesBounded
<1>17. CASE Relock
  BY <1>17 DEF Relock, Take, KeepsMain, daemonVars, MapTypes, ShmTypes, TypeOK, FramesBounded
<1>18. CASE Resize
  BY <1>18 DEF Resize, Post, KeepsMain, daemonVars, MapTypes, ShmTypes, TypeOK, FramesBounded
<1>19. CASE Remap
  BY <1>19 DEF Remap, KeepsMain, shmVars, daemonVars, MapTypes, ShmTypes, TypeOK, FramesBounded
<1>20. CASE ResizeLock
  BY <1>20 DEF ResizeLock, Take, KeepsMain, daemonVars, MapTypes, ShmTypes, TypeOK, FramesBounded
<1>21. CASE Copy
  BY <1>21 DEF Copy, Post, KeepsMain, daemonVars, MapTypes, ShmTypes, TypeOK, FramesBounded
<1>22. CASE Flip
  BY <1>22 DEF Flip, KeepsMain, shmVars, daemonVars, MapTypes, ShmTypes, TypeOK, FramesBounded
<1>23. CASE DaemonLock
  BY <1>23 DEF DaemonLock, Take, MapTypes, ShmTypes, TypeOK, FramesBounded, Unmapped
<1>24. ASSUME NEW bytes \in 1..MaxSize, DaemonWrite(bytes)
      PROVE  FramesBounded'
  BY <1>24 DEF DaemonWrite, Post, MapTypes, ShmTypes, TypeOK, FramesBounded
<1>25. CASE UNCHANGED vars
  BY <1>25 DEF vars, mainVars, mapVars, frameVars, shmVars, daemonVars, MapTypes, ShmTypes, TypeOK, FramesBounded
<1>. QED
  BY <1>1, <1>2, <1>3, <1>4, <1>5, <1>6, <1>7, <1>8, <1>9, <1>10, <1>11, <1>12, <1>13, <1>14, <1>15, <1>16, <1>17, <1>18, <1>19, <1>20, <1>21, <1>22, <1>23, <1>24, <1>25 DEF Next, Main, Render, Daemon

(* Every step keeps a renderer that is not rendering unmapped.             *)
LEMMA StoppedStep ==
  TypeOK /\ DeletingIsStopped /\ StoppedIsUnmapped /\ [Next]_vars
    => DeletingIsStopped' /\ StoppedIsUnmapped'
<1>. SUFFICES ASSUME TypeOK, DeletingIsStopped, StoppedIsUnmapped, [Next]_vars
              PROVE  DeletingIsStopped' /\ StoppedIsUnmapped'
  OBVIOUS
<1>1. CASE StartedDecoding
  BY <1>1 DEF StartedDecoding, MainIdle, mapVars, TypeOK, MainTypes, MapTypes, DeletingIsStopped, StoppedIsUnmapped, Unmapped
<1>2. ASSUME NEW what \in {"stop", "delete", "other"}, Begin(what)
      PROVE  DeletingIsStopped' /\ StoppedIsUnmapped'
  BY <1>2 DEF Begin, MainIdle, mapVars, TypeOK, MainTypes, MapTypes, DeletingIsStopped, StoppedIsUnmapped, Unmapped
<1>3. CASE MainLock
  BY <1>3 DEF MainLock, mainVars, mapVars, TypeOK, MainTypes, MapTypes, DeletingIsStopped, StoppedIsUnmapped, Unmapped
<1>4. CASE StartRendering
  BY <1>4 DEF StartRendering, StartShm, mapVars, TypeOK, MainTypes, MapTypes, DeletingIsStopped, StoppedIsUnmapped, Unmapped
<1>5. CASE StopRendering
  BY <1>5 DEF StopRendering, StopShm, TypeOK, MainTypes, MapTypes, DeletingIsStopped, StoppedIsUnmapped, Unmapped
<1>6. CASE DeleteRenderer
  BY <1>6 DEF DeleteRenderer, StopShm, TypeOK, MainTypes, MapTypes, DeletingIsStopped, StoppedIsUnmapped, Unmapped
<1>7. CASE OtherRenderer
  BY <1>7 DEF OtherRenderer, mapVars, TypeOK, MainTypes, MapTypes, DeletingIsStopped, StoppedIsUnmapped, Unmapped
<1>8. CASE BeginDraw
  BY <1>8 DEF BeginDraw, MainIdle, mapVars, TypeOK, MainTypes, MapTypes, DeletingIsStopped, StoppedIsUnmapped, Unmapped
<1>9. CASE EndDraw
  BY <1>9 DEF EndDraw, mapVars, TypeOK, MainTypes, MapTypes, DeletingIsStopped, StoppedIsUnmapped, Unmapped
<1>10. CASE Timeout
  BY <1>10 DEF Timeout, MainIdle, mainVars, mapVars, TypeOK, MainTypes, MapTypes, DeletingIsStopped, StoppedIsUnmapped, Unmapped
<1>11. CASE TimedEvents
  BY <1>11 DEF TimedEvents, KeepsMain, mainVars, mapVars, TypeOK, MainTypes, MapTypes, DeletingIsStopped, StoppedIsUnmapped, Unmapped
<1>12. CASE RenderCrash
  BY <1>12 DEF RenderCrash, Accessible, KeepsMain, mainVars, mapVars, TypeOK, MainTypes, MapTypes, DeletingIsStopped, StoppedIsUnmapped, Unmapped
<1>13. CASE ShmLock
  BY <1>13 DEF ShmLock, Accessible, Take, KeepsMain, mainVars, mapVars, TypeOK, MainTypes, MapTypes, DeletingIsStopped, StoppedIsUnmapped, Unmapped
<1>14. CASE TryLock
  BY <1>14 DEF TryLock, KeepsMain, mainVars, mapVars, TypeOK, MainTypes, MapTypes, DeletingIsStopped, StoppedIsUnmapped, Unmapped
<1>15. CASE Compare
  BY <1>15 DEF Compare, Accessible, Post, KeepsMain, mainVars, mapVars, TypeOK, MainTypes, MapTypes, DeletingIsStopped, StoppedIsUnmapped, Unmapped
<1>16. CASE Wait
  BY <1>16 DEF Wait, Accessible, KeepsMain, mainVars, mapVars, TypeOK, MainTypes, MapTypes, DeletingIsStopped, StoppedIsUnmapped, Unmapped
<1>17. CASE Relock
  BY <1>17 DEF Relock, Accessible, Take, KeepsMain, mainVars, mapVars, TypeOK, MainTypes, MapTypes, DeletingIsStopped, StoppedIsUnmapped, Unmapped
<1>18. CASE Resize
  BY <1>18 DEF Resize, Accessible, Post, KeepsMain, mainVars, TypeOK, MainTypes, MapTypes, DeletingIsStopped, StoppedIsUnmapped, Unmapped
<1>19. CASE Remap
  BY <1>19 DEF Remap, KeepsMain, mainVars, TypeOK, MainTypes, MapTypes, DeletingIsStopped, StoppedIsUnmapped, Unmapped
<1>20. CASE ResizeLock
  BY <1>20 DEF ResizeLock, Accessible, Take, KeepsMain, mainVars, mapVars, TypeOK, MainTypes, MapTypes, DeletingIsStopped, StoppedIsUnmapped, Unmapped
<1>21. CASE Copy
  BY <1>21 DEF Copy, Accessible, Post, KeepsMain, mainVars, mapVars, TypeOK, MainTypes, MapTypes, DeletingIsStopped, StoppedIsUnmapped, Unmapped
<1>22. CASE Flip
  BY <1>22 DEF Flip, KeepsMain, mainVars, mapVars, TypeOK, MainTypes, MapTypes, DeletingIsStopped, StoppedIsUnmapped, Unmapped
<1>23. CASE DaemonLock
  BY <1>23 DEF DaemonLock, Take, mainVars, mapVars, TypeOK, MainTypes, MapTypes, DeletingIsStopped, StoppedIsUnmapped, Unmapped
<1>24. ASSUME NEW bytes \in 1..MaxSize, DaemonWrite(bytes)
      PROVE  DeletingIsStopped' /\ StoppedIsUnmapped'
  BY <1>24 DEF DaemonWrite, Post, mainVars, mapVars, TypeOK, MainTypes, MapTypes, DeletingIsStopped, StoppedIsUnmapped, Unmapped
<1>25. CASE UNCHANGED vars
  BY <1>25 DEF vars, mainVars, mapVars, frameVars, shmVars, daemonVars, TypeOK, MainTypes, MapTypes, DeletingIsStopped, StoppedIsUnmapped, Unmapped
<1>. QED
  BY <1>1, <1>2, <1>3, <1>4, <1>5, <1>6, <1>7, <1>8, <1>9, <1>10, <1>11, <1>12, <1>13, <1>14, <1>15, <1>16, <1>17, <1>18, <1>19, <1>20, <1>21, <1>22, <1>23, <1>24, <1>25 DEF Next, Main, Render, Daemon
(* resizeShm gives the semaphore back before it remaps, and takes it again *)
(* only to look at the size once more.                                     *)
LEMMA RemapStep ==
  TypeOK /\ MutexHeld /\ RemapsUnlocked /\ [Next]_vars => RemapsUnlocked'
<1>. SUFFICES ASSUME MainTypes, MapTypes, MutexHeld, RemapsUnlocked, [Next]_vars
              PROVE  RemapsUnlocked'
  BY DEF TypeOK
<1>1. CASE StartedDecoding
  BY <1>1 DEF StartedDecoding, MainIdle, mapVars, MutexHeld, Critical, RemapsUnlocked
<1>2. ASSUME NEW what \in {"stop", "delete", "other"}, Begin(what)
      PROVE  RemapsUnlocked'
  BY <1>2 DEF Begin, MainIdle, mapVars, MutexHeld, Critical, RemapsUnlocked
<1>3. CASE MainLock
  BY <1>3 DEF MainLock, mapVars, MutexHeld, Critical, RemapsUnlocked
<1>4. CASE StartRendering
  BY <1>4 DEF StartRendering, StartShm, mapVars, MutexHeld, Critical, RemapsUnlocked
<1>5. CASE StopRendering
  BY <1>5 DEF StopRendering, StopShm, MutexHeld, Critical, RemapsUnlocked
<1>6. CASE DeleteRenderer
  BY <1>6 DEF DeleteRenderer, StopShm, MutexHeld, Critical, RemapsUnlocked
<1>7. CASE OtherRenderer
  BY <1>7 DEF OtherRenderer, mapVars, MutexHeld, Critical, RemapsUnlocked
<1>8. CASE BeginDraw
  BY <1>8 DEF BeginDraw, MainIdle, mapVars, MutexHeld, Critical, RemapsUnlocked
<1>9. CASE EndDraw
  BY <1>9 DEF EndDraw, mapVars, MutexHeld, Critical, RemapsUnlocked
<1>10. CASE Timeout
  BY <1>10 DEF Timeout, MainIdle, mapVars, MutexHeld, Critical, RemapsUnlocked
<1>11. CASE TimedEvents
  BY <1>11 DEF TimedEvents, mapVars, MutexHeld, Critical, RemapsUnlocked
<1>12. CASE RenderCrash
  BY <1>12 DEF RenderCrash, Accessible, mapVars, MutexHeld, Critical, RemapsUnlocked
<1>13. CASE ShmLock
  BY <1>13 DEF ShmLock, Accessible, Take, mapVars, MutexHeld, Critical, RemapsUnlocked
<1>14. CASE TryLock
  BY <1>14 DEF TryLock, mapVars, MutexHeld, Critical, RemapsUnlocked
<1>15. CASE Compare
  BY <1>15 DEF Compare, Accessible, Post, Unlocked, mapVars, MutexHeld, Critical, RemapsUnlocked
<1>16. CASE Wait
  BY <1>16 DEF Wait, Accessible, Leave, mapVars, MutexHeld, Critical, RemapsUnlocked
<1>17. CASE Relock
  BY <1>17 DEF Relock, Accessible, Take, Leave, mapVars, MutexHeld, Critical, RemapsUnlocked
<1>18. CASE Resize
  BY <1>18 DEF Resize, Accessible, Post, Unlocked, MutexHeld, Critical, RemapsUnlocked
<1>19. CASE Remap
  BY <1>19 DEF Remap, MutexHeld, Critical, RemapsUnlocked
<1>20. CASE ResizeLock
  BY <1>20 DEF ResizeLock, Accessible, Take, AfterRemap, mapVars, MutexHeld, Critical, RemapsUnlocked
<1>21. CASE Copy
  BY <1>21 DEF Copy, Accessible, Post, Unlocked, mapVars, MutexHeld, Critical, RemapsUnlocked
<1>22. CASE Flip
  BY <1>22 DEF Flip, OtherFrame, Leave, mapVars, MutexHeld, Critical, RemapsUnlocked
<1>23. CASE DaemonLock
  BY <1>23 DEF DaemonLock, Take, mapVars, MutexHeld, Critical, RemapsUnlocked
<1>24. ASSUME NEW bytes \in 1..MaxSize, DaemonWrite(bytes)
      PROVE  RemapsUnlocked'
  BY <1>24 DEF DaemonWrite, Post, mapVars, MutexHeld, Critical, RemapsUnlocked
<1>25. CASE UNCHANGED vars
  BY <1>25 DEF vars, mainVars, mapVars, frameVars, shmVars, daemonVars, MutexHeld, Critical, RemapsUnlocked
<1>. QED
  BY <1>1, <1>2, <1>3, <1>4, <1>5, <1>6, <1>7, <1>8, <1>9, <1>10, <1>11, <1>12, <1>13, <1>14, <1>15, <1>16, <1>17, <1>18, <1>19, <1>20, <1>21, <1>22, <1>23, <1>24, <1>25 DEF Next, Main, Render, Daemon

(* Under the lock the frame does not outgrow the mapping.                  *)
LEMMA CopyStep ==
  TypeOK /\ MutexHeld /\ RemapsUnlocked /\ StoppedIsUnmapped /\ DeletingIsStopped
    /\ LockedCopyFits /\ [Next]_vars => LockedCopyFits'
<1>. SUFFICES ASSUME MainTypes, MapTypes, ShmTypes, MutexHeld, RemapsUnlocked,
                     StoppedIsUnmapped, DeletingIsStopped, LockedCopyFits, [Next]_vars
              PROVE  LockedCopyFits'
  BY DEF TypeOK
<1>1. CASE StartedDecoding
  BY <1>1 DEF StartedDecoding, MainIdle, mapVars, shmVars, MutexHeld, Critical, RemapsUnlocked, StoppedIsUnmapped, DeletingIsStopped, LockedCopyFits, Balanced
<1>2. ASSUME NEW what \in {"stop", "delete", "other"}, Begin(what)
      PROVE  LockedCopyFits'
  BY <1>2 DEF Begin, MainIdle, mapVars, shmVars, daemonVars, MutexHeld, Critical, RemapsUnlocked, StoppedIsUnmapped, DeletingIsStopped, LockedCopyFits, Balanced
<1>3. CASE MainLock
  BY <1>3 DEF MainLock, mapVars, shmVars, daemonVars, MutexHeld, Critical, RemapsUnlocked, StoppedIsUnmapped, DeletingIsStopped, LockedCopyFits, Balanced
<1>4. CASE StartRendering
  BY <1>4 DEF StartRendering, StartShm, mapVars, shmVars, daemonVars, MutexHeld, Critical, RemapsUnlocked, StoppedIsUnmapped, DeletingIsStopped, LockedCopyFits, Balanced
<1>5. CASE StopRendering
  BY <1>5 DEF StopRendering, StopShm, shmVars, daemonVars, MutexHeld, Critical, RemapsUnlocked, StoppedIsUnmapped, DeletingIsStopped, LockedCopyFits, Balanced
<1>6. CASE DeleteRenderer
  BY <1>6 DEF DeleteRenderer, StopShm, shmVars, daemonVars, MutexHeld, Critical, RemapsUnlocked, StoppedIsUnmapped, DeletingIsStopped, LockedCopyFits, Balanced
<1>7. CASE OtherRenderer
  BY <1>7 DEF OtherRenderer, mapVars, shmVars, daemonVars, MutexHeld, Critical, RemapsUnlocked, StoppedIsUnmapped, DeletingIsStopped, LockedCopyFits, Balanced
<1>8. CASE BeginDraw
  BY <1>8 DEF BeginDraw, MainIdle, mapVars, shmVars, daemonVars, MutexHeld, Critical, RemapsUnlocked, StoppedIsUnmapped, DeletingIsStopped, LockedCopyFits, Balanced
<1>9. CASE EndDraw
  BY <1>9 DEF EndDraw, mapVars, shmVars, daemonVars, MutexHeld, Critical, RemapsUnlocked, StoppedIsUnmapped, DeletingIsStopped, LockedCopyFits, Balanced
<1>10. CASE Timeout
  BY <1>10 DEF Timeout, MainIdle, mapVars, shmVars, daemonVars, MutexHeld, Critical, RemapsUnlocked, StoppedIsUnmapped, DeletingIsStopped, LockedCopyFits, Balanced
<1>11. CASE TimedEvents
  BY <1>11 DEF TimedEvents, KeepsMain, mapVars, shmVars, daemonVars, MutexHeld, Critical, RemapsUnlocked, StoppedIsUnmapped, DeletingIsStopped, LockedCopyFits, Balanced
<1>12. CASE RenderCrash
  BY <1>12 DEF RenderCrash, Accessible, KeepsMain, mapVars, shmVars, daemonVars, MutexHeld, Critical, RemapsUnlocked, StoppedIsUnmapped, DeletingIsStopped, LockedCopyFits, Balanced
<1>13. CASE ShmLock
  BY <1>13 DEF ShmLock, Accessible, Free, Take, KeepsMain, mapVars, daemonVars, MutexHeld, Critical, RemapsUnlocked, StoppedIsUnmapped, DeletingIsStopped, LockedCopyFits, Balanced
<1>14. CASE TryLock
  BY <1>14 DEF TryLock, KeepsMain, mapVars, shmVars, daemonVars, MutexHeld, Critical, RemapsUnlocked, StoppedIsUnmapped, DeletingIsStopped, LockedCopyFits, Balanced
<1>15. CASE Compare
  BY <1>15 DEF Compare, Accessible, Post, Unlocked, KeepsMain, mapVars, daemonVars, MutexHeld, Critical, RemapsUnlocked, StoppedIsUnmapped, DeletingIsStopped, LockedCopyFits, Balanced
<1>16. CASE Wait
  BY <1>16 DEF Wait, Accessible, Leave, KeepsMain, mapVars, daemonVars, MutexHeld, Critical, RemapsUnlocked, StoppedIsUnmapped, DeletingIsStopped, LockedCopyFits, Balanced
<1>17. CASE Relock
  BY <1>17 DEF Relock, Accessible, Free, Take, Leave, KeepsMain, mapVars, daemonVars, MutexHeld, Critical, RemapsUnlocked, StoppedIsUnmapped, DeletingIsStopped, LockedCopyFits, Balanced
<1>18. CASE Resize
  <2>1. CASE size[area] > len
    BY <1>18, <2>1 DEF Resize, LockedCopyFits
  <2>2. CASE ~(size[area] > len)
    <3>1. area' = area /\ len' = len /\ size' = size
      BY <1>18, <2>2 DEF Resize
    <3>2. area \in Shm /\ size[area] \in Nat /\ len \in Nat
      BY <1>18 DEF Resize, Accessible, MapTypes, ShmTypes
    <3>. QED
      BY <2>2, <3>1, <3>2 DEF LockedCopyFits
  <2>. QED
    BY <2>1, <2>2
<1>19. CASE Remap
  BY <1>19 DEF Remap, KeepsMain, shmVars, daemonVars, MutexHeld, Critical, RemapsUnlocked, StoppedIsUnmapped, DeletingIsStopped, LockedCopyFits, Balanced
<1>20. CASE ResizeLock
  BY <1>20 DEF ResizeLock, Accessible, Free, Take, AfterRemap, KeepsMain, mapVars, daemonVars, MutexHeld, Critical, RemapsUnlocked, StoppedIsUnmapped, DeletingIsStopped, LockedCopyFits, Balanced
<1>21. CASE Copy
  BY <1>21 DEF Copy, Accessible, Post, Unlocked, KeepsMain, mapVars, daemonVars, MutexHeld, Critical, RemapsUnlocked, StoppedIsUnmapped, DeletingIsStopped, LockedCopyFits, Balanced
<1>22. CASE Flip
  BY <1>22 DEF Flip, OtherFrame, Leave, KeepsMain, mapVars, shmVars, daemonVars, MutexHeld, Critical, RemapsUnlocked, StoppedIsUnmapped, DeletingIsStopped, LockedCopyFits, Balanced
<1>23. CASE DaemonLock
  <2>1. SUFFICES ASSUME pc = "copy", held = area, area # Unmapped, Balanced(area)'
                 PROVE  size[area] <= len
    BY <1>23 DEF DaemonLock, mapVars, LockedCopyFits
  <2>2. area \in Shm /\ shmPath \in Shm
    BY <1>23, <2>1 DEF DaemonLock, MapTypes, ShmTypes, Unmapped
  <2>3. held' = held /\ shmPath' = shmPath /\ writing' /\ ~writing /\ area' = area
    BY <1>23 DEF DaemonLock, mapVars
  <2>4. sem' = [sem EXCEPT ![shmPath] = @ - 1] /\ sem \in [Shm -> Nat]
    BY <1>23 DEF DaemonLock, Take, ShmTypes
  <2>5. Balanced(area)
    BY <2>1, <2>2, <2>3, <2>4 DEF Balanced
  <2>. QED
    BY <2>1, <2>5 DEF LockedCopyFits
<1>24. ASSUME NEW bytes \in 1..MaxSize, DaemonWrite(bytes)
      PROVE  LockedCopyFits'
  <2>1. SUFFICES ASSUME pc = "copy", held = area, area # Unmapped, Balanced(area)'
                 PROVE  size'[area] <= len
    BY <1>24 DEF DaemonWrite, mapVars, LockedCopyFits
  <2>2. area \in Shm
    BY <2>1 DEF MapTypes
  <2>3. held' = held /\ shmPath' = shmPath /\ ~writing' /\ writing /\ area' = area
    BY <1>24 DEF DaemonWrite, mapVars
  <2>4. sem' = [sem EXCEPT ![shmPath] = @ + 1] /\ sem \in [Shm -> Nat]
    BY <1>24 DEF DaemonWrite, Post, ShmTypes
  <2>5. shmPath # area
    BY <2>1, <2>2, <2>3, <2>4 DEF Balanced
  <2>6. Balanced(area)
    BY <2>1, <2>2, <2>3, <2>4, <2>5 DEF Balanced
  <2>7. size'[area] = size[area]
    BY <1>24, <2>2, <2>5 DEF DaemonWrite, ShmTypes
  <2>. QED
    BY <2>1, <2>6, <2>7 DEF LockedCopyFits
<1>25. CASE UNCHANGED vars
  BY <1>25 DEF vars, mainVars, mapVars, frameVars, shmVars, daemonVars, MutexHeld, Critical, RemapsUnlocked, StoppedIsUnmapped, DeletingIsStopped, LockedCopyFits, Balanced
<1>. QED
  BY <1>1, <1>2, <1>3, <1>4, <1>5, <1>6, <1>7, <1>8, <1>9, <1>10, <1>11, <1>12, <1>13, <1>14, <1>15, <1>16, <1>17, <1>18, <1>19, <1>20, <1>21, <1>22, <1>23, <1>24, <1>25 DEF Next, Main, Render, Daemon

(* Every step keeps the invariant.                                         *)
LEMMA StepIInv == IInv /\ [Next]_vars => IInv'
BY MainTypesStep, MapTypesStep, ShmTypesStep, MutexStep, FramesStep, StoppedStep, RemapStep,
   CopyStep DEF IInv, TypeOK

(* The inductive invariant holds in every reachable state.                 *)
THEOREM Invariance == Spec => []IInv
BY InitIInv, StepIInv, PTL DEF Spec

(* Type correctness, for every bound.                                      *)
THEOREM TypeCorrect == Spec => []TypeOK
<1>1. IInv => TypeOK
  BY DEF IInv
<1>. QED
  BY Invariance, <1>1, PTL

(* A renderer that does not render holds no mapping (stopRendering, the    *)
(* destructor, and the render thread that may still be in resizeShm).      *)
THEOREM StoppedCorrect == Spec => []StoppedIsUnmapped
<1>1. IInv => StoppedIsUnmapped
  BY DEF IInv
<1>. QED
  BY Invariance, <1>1, PTL

(* A copy made under a balanced semaphore stays inside the mapping, for    *)
(* every number and size of the frames written meanwhile (resizeShm).      *)
THEOREM CopyCorrect == Spec => []LockedCopyFits
<1>1. IInv => LockedCopyFits
  BY DEF IInv
<1>. QED
  BY Invariance, <1>1, PTL

(* The mapping is there for the copies made under the semaphore and for no *)
(* other, for every number of restarts, frames and sizes.                  *)
THEOREM MappingCorrect == Spec => []MappingAgrees
<1>1. IInv => MappingAgrees
  BY DEF IInv, MappingAgrees
<1>. QED
  BY Invariance, <1>1, PTL

(* No handler of the main thread changes the mapping between the tryLock   *)
(* and the unlock of the render thread (startStopMutex).                   *)
THEOREM MapStableCorrect == Spec => MapStable
<1>1. ASSUME IInv, [Next]_vars
      PROVE  [Main /\ pc \in Critical => UNCHANGED mapVars]_vars
  <2>. SUFFICES ASSUME Main, pc \in Critical  PROVE UNCHANGED mapVars
    BY <1>1
  <2>. USE <1>1 DEF IInv
  <2>1. CASE StartedDecoding
    BY <2>1 DEF StartedDecoding, StoppedIsUnmapped, mapVars, Critical
  <2>2. ASSUME NEW what \in {"stop", "delete", "other"}, Begin(what)
        PROVE  UNCHANGED mapVars
    BY <2>2 DEF Begin
  <2>3. CASE MainLock
    BY <2>3 DEF MainLock
  <2>4. CASE StartRendering
    BY <2>4 DEF StartRendering, MutexHeld
  <2>5. CASE StopRendering
    BY <2>5 DEF StopRendering, MutexHeld
  <2>6. CASE DeleteRenderer
    BY <2>6 DEF DeleteRenderer, StopShm, DeletingIsStopped, StoppedIsUnmapped, mapVars
  <2>7. CASE OtherRenderer
    BY <2>7 DEF OtherRenderer
  <2>8. CASE BeginDraw
    BY <2>8 DEF BeginDraw
  <2>9. CASE EndDraw
    BY <2>9 DEF EndDraw
  <2>10. CASE Timeout
    BY <2>10 DEF Timeout
  <2>. QED
    BY <2>1, <2>2, <2>3, <2>4, <2>5, <2>6, <2>7, <2>8, <2>9, <2>10 DEF Main
<1>. QED
  BY Invariance, <1>1, PTL DEF Spec, MapStable
=============================================================================
