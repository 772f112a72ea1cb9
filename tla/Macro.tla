------------------------------- MODULE Macro -------------------------------
(***************************************************************************)
(* A macro of the user: a text the program types by itself, one character  *)
(* per timeout (class Macro, src/src/klib/macro.cpp).                      *)
(***************************************************************************)
EXTENDS Naturals, Sequences

CONSTANTS
  Texts,      (* the texts the user gives the macro                        *)
  MaxTimers   (* bound: single-shot timers of the macro pending at once    *)

ASSUME TextsAssumption     == Texts # {} /\ Texts \subseteq Seq({"digit", "enter"})
ASSUME MaxTimersAssumption == MaxTimers \in Nat \ {0}

VARIABLES
  sequence,   (* m_Sequence, as edited                                     *)
  escaped,    (* m_Escaped, the text of the latest execution               *)
  position,   (* m_Position                                                *)
  timers      (* nextStep timeouts pending                                 *)

macroVars == <<sequence, escaped, position, timers>>

MacroInit ==
  /\ sequence \in Texts
  /\ escaped = <<>>
  /\ position = 0
  /\ timers = 0

(* The character nextStep types. *)
Typed(text) == IF position < Len(text) THEN text[position + 1] ELSE "nothing"

(* Faulty form: the last step leaves the position where it is. *)
StepStaysAtEnd(text, waiting) ==
  IF position < Len(text)
    THEN position' = position + 1 /\ timers' = waiting + 1
    ELSE UNCHANGED position /\ timers' = waiting

(* nextStep: the next character and a new timer, or the end.  The position *)
(* belongs to the macro, not to the execution.                             *)
nextStep(text, waiting) ==
  IF position < Len(text)
    THEN position' = position + 1 /\ timers' = waiting + 1
    ELSE position' = 0 /\ timers' = waiting

execute ==
  /\ timers < MaxTimers
  /\ escaped' = sequence
  /\ nextStep(sequence, timers)
  /\ UNCHANGED sequence

Timeout ==
  /\ timers > 0
  /\ nextStep(escaped, timers - 1)
  /\ UNCHANGED <<sequence, escaped>>

setSequence ==
  /\ sequence' \in Texts
  /\ UNCHANGED <<escaped, position, timers>>

(* However many executions overlapped, and whatever was edited in between, *)
(* once no timer is pending the next execution begins with the first       *)
(* character (execute does not reset m_Position itself).                   *)
MacroStartsOver == timers = 0 => position = 0
=============================================================================
