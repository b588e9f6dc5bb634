------------------------ MODULE MCDiskImageSnapshots ------------------------
(***************************************************************************)
(* DiskImageSnapshots with three attempts to start, one volume and two     *)
(* restores at the same time.                                              *)
(***************************************************************************)
EXTENDS DiskImageSnapshots, MCEmulatorLifecycle

CONSTANTS Disk, j1, j2

MCVolumes == {Disk}
MCJobs == {j1, j2}

Restarts == [Terminates EXCEPT !.restarts = TRUE]

NoVolumes == [configures |-> "never", deletes |-> FALSE, resets |-> FALSE, killed |-> FALSE]
Careful == [NoVolumes EXCEPT !.configures = "before a start", !.resets = TRUE]
Deletes == [Careful EXCEPT !.deletes = TRUE]
Killable == [Careful EXCEPT !.killed = TRUE]
AnyTime == [Careful EXCEPT !.configures = "any time"]

MCHabits == {NoVolumes, Careful, Deletes, Killable, AnyTime}

MCUses ==
  {<<s, NoVolumes>> : s \in MCSetups}
    \cup {<<Restarts, Careful>>, <<Terminates, Deletes>>, <<Terminates, Killable>>}

MCUsesAnyTime == {<<Restarts, AnyTime>>}
=============================================================================
