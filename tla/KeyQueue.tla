------------------------------- MODULE KeyQueue -------------------------------
(***************************************************************************)
(* What the keyboard promises: every key event that the user causes        *)
(* reaches the Mac, once and in order, some time later.                    *)
(***************************************************************************)
EXTENDS Sequences

CONSTANTS
  Events      \* key codes with their up/down flag

VARIABLES
  queue,      \* typed, but not seen by the Mac
  seen        \* the event the Mac's keyboard handler was called with last, and
              \* how many calls there were, modulo 2

vars == <<queue, seen>>

Init == queue = <<>> /\ seen.flip = FALSE

Type(e) ==
  /\ queue' = Append(queue, e)
  /\ UNCHANGED seen

Deliver ==
  /\ queue # <<>>
  /\ queue' = Tail(queue)
  /\ seen' = [event |-> Head(queue), flip |-> ~seen.flip]

Next == Deliver \/ \E e \in Events : Type(e)

Spec == Init /\ [][Next]_vars /\ WF_vars(Deliver)
=============================================================================
