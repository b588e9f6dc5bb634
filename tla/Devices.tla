------------------------------- MODULE Devices -------------------------------
(***************************************************************************)
(* Three devices of one Mac: sound, network and drives.  They share the    *)
(* emulator thread, which serves their interrupts one after the other, and *)
(* no variables: a step of one leaves the others as they are.              *)
(***************************************************************************)
EXTENDS AudioStream, Ethernet, Drives

CONSTANT Machines  \* which devices the preferences enable, together

ASSUME MachinesAssumption == Machines \subseteq Setups \X EtherSetups \X DriveSetups

devices == <<setup, vars, etherVars, driveVars>>

DevicesInit ==
  /\ Init /\ EtherInit /\ DrivesInit
  /\ <<setup, network, drives>> \in Machines

DevicesNext ==
  \/ Next /\ UNCHANGED <<etherVars, driveVars>>
  \/ EtherNext /\ UNCHANGED <<setup, vars, driveVars>>
  \/ DrivesNext /\ UNCHANGED <<setup, vars, etherVars>>

DevicesSpec ==
  /\ DevicesInit /\ [][DevicesNext]_devices
  /\ Fairness /\ EtherFairness /\ DrivesFairness

DevicesTypeOK == TypeOK /\ EtherTypeOK /\ DrivesTypeOK
=============================================================================
