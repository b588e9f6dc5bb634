------------------------------ MODULE MCLaunch ------------------------------
(***************************************************************************)
(* Launch with the uses of MCDiskImageSnapshots, for which both files are  *)
(* there, and with what may happen to the downloads.  An entry has two     *)
(* units, and sizes end at two.                                            *)
(***************************************************************************)
EXTENDS Launch, MCDiskImageSnapshots

There == [there |-> TRUE, url |-> "none", known |-> TRUE, readable |-> TRUE,
          stored |-> TRUE, name |-> 1, size |-> 1, damaged |-> FALSE, breaks |-> FALSE]
Stored == [There EXCEPT !.there = FALSE, !.url = "valid", !.size = 2]
Deflated == [Stored EXCEPT !.stored = FALSE]
Unstable(s) == [s EXCEPT !.breaks = TRUE]

AllThere == [rom |-> There, disk |-> There, imports |-> FALSE, early |-> TRUE]
Reliable == [rom |-> Deflated, disk |-> Stored, imports |-> FALSE, early |-> FALSE]
UnstableBoth == [rom |-> [Unstable(Stored) EXCEPT !.known = FALSE],
                 disk |-> Unstable(Deflated), imports |-> FALSE, early |-> FALSE]

MCOffers ==
  {AllThere, Reliable, UnstableBoth, [Reliable EXCEPT !.early = TRUE],
   [Reliable EXCEPT !.imports = TRUE],
   [Reliable EXCEPT !.disk.size = 3],
   [Reliable EXCEPT !.disk = [Deflated EXCEPT !.damaged = TRUE]],
   [Reliable EXCEPT !.disk.readable = FALSE],
   [Reliable EXCEPT !.rom.url = "none", !.disk.url = "none"],
   [Reliable EXCEPT !.rom.url = "invalid"],
   [Reliable EXCEPT !.rom = There, !.disk.url = "invalid"]}

Lean == [Terminates EXCEPT !.terminates = FALSE]
KillableLean == [NoVolumes EXCEPT !.killed = TRUE]
MCLeanSetups == MCSetups \cup {Lean}
MCLeanHabits == MCHabits \cup {KillableLean}
MCLaunchUses == MCUses \cup {<<Lean, NoVolumes>>, <<Lean, KillableLean>>}

MCLaunches ==
  {<<u[1], u[2], AllThere>> : u \in MCUses}
    \cup {<<Lean, NoVolumes, o>> : o \in MCOffers}
    \cup {<<Lean, KillableLean, UnstableBoth>>}
=============================================================================
