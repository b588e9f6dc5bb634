------------------------- MODULE MCEmulatorLifecycle -------------------------
(***************************************************************************)
(* EmulatorLifecycle with three attempts to start at the same time.        *)
(***************************************************************************)
EXTENDS EmulatorLifecycle

CONSTANTS a1, a2, a3

MCAttempts == {a1, a2, a3}

Terminates ==
  [landscape |-> FALSE, settings |-> TRUE, fails |-> FALSE, terminates |-> TRUE,
   restarts |-> FALSE]

Rotates == [Terminates EXCEPT !.landscape = TRUE, !.restarts = TRUE]

MCSetups ==
  {Terminates,
   [Terminates EXCEPT !.restarts = TRUE],
   [Terminates EXCEPT !.restarts = TRUE, !.fails = TRUE],
   [Terminates EXCEPT !.landscape = TRUE, !.settings = FALSE, !.terminates = FALSE,
                      !.restarts = TRUE],
   Rotates}

MCRotates == {Rotates}
MCFails == {[Terminates EXCEPT !.fails = TRUE]}
=============================================================================
