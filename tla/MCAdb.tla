-------------------------------- MODULE MCAdb --------------------------------
(***************************************************************************)
(* Adb with a ring of four slots: the keyboard alone, relative motion on a *)
(* host that reorders stores, and absolute motion with a key.              *)
(***************************************************************************)
EXTENDS Adb

CONSTANTS A, B

MCKeys == {A, B}
MCSteps == {-2, -1, 1, 2}
MCPositions == -2 .. 2

Keyboard ==
  [keys |-> {A, B}, pending |-> 3, modes |-> {}, clicks |-> FALSE, ordered |-> TRUE,
   touch |-> "none"]
Relative ==
  [keys |-> {}, pending |-> 3, modes |-> {TRUE}, clicks |-> TRUE, ordered |-> FALSE,
   touch |-> "none"]
Absolute ==
  [keys |-> {A}, pending |-> 2, modes |-> {FALSE}, clicks |-> TRUE, ordered |-> TRUE,
   touch |-> "none"]

MCSetups == {Keyboard, Relative, Absolute}
MCOverflow == {[Keyboard EXCEPT !.pending = 4]}
=============================================================================
