------------------------------ MODULE MCDevices ------------------------------
(***************************************************************************)
(* Devices with two kinds of blocks, two instances of the sound component, *)
(* one protocol and one drive for each driver.  Each machine has one of    *)
(* the devices.                                                            *)
(***************************************************************************)
EXTENDS Devices

CONSTANTS A, B, AARP

MCBlocks == {A, B}
MCTypes == {AARP}

Silent == [nosound |-> TRUE, prompt |-> TRUE, restarts |-> FALSE]
Prompts == [Silent EXCEPT !.nosound = FALSE]
Slow == [Prompts EXCEPT !.prompt = FALSE, !.restarts = TRUE]

Offline == [net |-> "none", nests |-> FALSE, stops |-> FALSE]
Tunnel == [net |-> "udp", nests |-> TRUE, stops |-> FALSE]
TunnelStops == [Tunnel EXCEPT !.stops = TRUE]
SlirpNet == [Tunnel EXCEPT !.net = "slirp", !.nests = FALSE]

MCSetups == {Silent, Prompts, Slow}
MCEtherSetups == {Offline, Tunnel, TunnelStops, SlirpNet}
MCDriveSetups == {{}, AllKinds}

MCMachines ==
  {<<s, Offline, {}>> : s \in {Prompts, Slow}}
    \cup {<<Silent, n, {}>> : n \in {Tunnel, TunnelStops, SlirpNet}}
    \cup {<<Silent, Offline, AllKinds>>}
=============================================================================
