------------------------------ MODULE SoundQueue ------------------------------
(***************************************************************************)
(* What the audio output promises: the blocks the Mac's mixer delivers are *)
(* played once each and in order, with silence in between when there is    *)
(* none, until the output is reopened, which forgets the rest.              *)
(***************************************************************************)
EXTENDS Naturals, Sequences

CONSTANTS Blocks, Capacity

VARIABLES
  queue,      \* delivered, but not played
  played      \* the block played last, and how many there were, modulo 2

vars == <<queue, played>>

Init == queue = <<>> /\ played.flip = FALSE

Deliver(b) ==
  /\ Len(queue) < Capacity
  /\ queue' = Append(queue, b)
  /\ UNCHANGED played

Play ==
  /\ queue # <<>>
  /\ queue' = Tail(queue)
  /\ played' = [block |-> Head(queue), flip |-> ~played.flip]

Reopen == queue' = <<>> /\ UNCHANGED played

Next == Play \/ Reopen \/ \E b \in Blocks : Deliver(b)

Spec == Init /\ [][Next]_vars /\ WF_vars(Play)
=============================================================================
