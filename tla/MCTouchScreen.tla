---------------------------- MODULE MCTouchScreen ----------------------------
(***************************************************************************)
(* TouchScreen, TrackPad and Adb: the setups of MCAdb, and two fingers on  *)
(* the trackpad and on the touch screen in each of its modes.              *)
(***************************************************************************)
EXTENDS TouchScreen, MCAdb

OnTrackPad ==
  [keys |-> {}, pending |-> 1, modes |-> {}, clicks |-> FALSE, ordered |-> TRUE,
   touch |-> "trackpad"]

MCInputSetups ==
  MCSetups \cup {OnTrackPad, [OnTrackPad EXCEPT !.touch = "screen"],
                 [OnTrackPad EXCEPT !.touch = "mouse"]}
=============================================================================
