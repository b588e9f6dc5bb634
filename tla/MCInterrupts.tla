---------------------------- MODULE MCInterrupts ----------------------------
(***************************************************************************)
(* Interrupts with the tick thread and one device thread.                  *)
(***************************************************************************)
EXTENDS InterruptsHistory

CONSTANTS VBL, ETHER

MCSources == {VBL, ETHER}
MCOrder == <<VBL, ETHER>>
MCSetups ==
  {[exclusive |-> FALSE, masks |-> {0},    calls |-> 0, sources |-> {VBL, ETHER}],
   [exclusive |-> FALSE, masks |-> {0, 1}, calls |-> 0, sources |-> {VBL}],
   [exclusive |-> FALSE, masks |-> {0},    calls |-> 2, sources |-> {VBL}],
   [exclusive |-> TRUE,  masks |-> {0, 1}, calls |-> 1, sources |-> {VBL}]}
MCDefaultBuild ==
  {[exclusive |-> FALSE, masks |-> {0}, calls |-> 1, sources |-> {VBL, ETHER}]}
=============================================================================
