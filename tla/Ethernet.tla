------------------------------- MODULE Ethernet -------------------------------
(***************************************************************************)
(* The Ethernet driver (ether.cpp, ether_ios.cpp).  A reception thread     *)
(* polls a socket (UDP tunnel) or a pipe (slirp).  When there is something *)
(* to read it raises INTFLAG_ETHER and waits on the semaphore int_ack for  *)
(* the emulator thread, whose EtherInterrupt reads all there is, calls the *)
(* Mac's protocol handler for each packet and signals the semaphore.  With *)
(* slirp a third thread takes what the Mac writes from one pipe and writes *)
(* what the network answers to another.                                    *)
(*                                                                         *)
(* What is received is a sequence of units, the first one of a packet      *)
(* marked as its head.  A datagram is read whole; from a pipe, read takes  *)
(* as many units as there are, up to the size of its buffer.  Addresses,   *)
(* multicast and the contents of packets are left out, the network's calls *)
(* succeed, a pipe that the Mac writes to has room, the Mac's memory       *)
(* manager has a buffer, and the Mac opens the driver before it attaches a *)
(* handler and before the first packet arrives.                            *)
(***************************************************************************)
EXTENDS Naturals, Sequences

CONSTANTS
  Types,      \* protocol types
  Foreign,    \* the type of a packet that is to be dropped, as it was sent by us
  Short,      \* ... or has no whole header
  BufferSize, \* units that one read can take
  PipeSize,   \* bound: units, or packets, that a pipe or a socket holds
  MaxNesting, \* bound: activations of EtherInterrupt
  EtherSetups \* what is considered: the network and what the Mac does

ASSUME EthernetAssumption ==
  /\ Foreign \notin Types /\ Short \notin Types /\ Foreign # Short
  /\ BufferSize \in Nat \ {0} /\ PipeSize \in Nat \ {0} /\ MaxNesting \in Nat \ {0}
  /\ EtherSetups \subseteq [net : {"none", "udp", "slirp"}, nests : BOOLEAN,
                            stops : BOOLEAN]

VARIABLES
  network,         \* one of EtherSetups, for good
  net_protocols,   \* types with a handler
  fd,              \* what can be read
  input,           \* packets in slirp's input pipe
  InterruptFlag,   \* INTFLAG_ETHER
  int_ack,         \* the semaphore: whether it exists, and its count
  ether_thread,    \* where the reception thread is
  slirp_thread,    \* where slirp's thread is, and what it has yet to write
  activations,     \* of EtherInterrupt, the innermost one last
  n_ether_packets,
  emulator         \* running, or where its tear-down is

host    == <<fd, input, int_ack, ether_thread, slirp_thread>>
mac     == <<net_protocols, activations, n_ether_packets>>
etherVars == <<network, host, mac, InterruptFlag, emulator>>

Online == network.net # "none"
Slirp  == network.net = "slirp"

NoThread == [pc |-> "none", out |-> <<>>]

\* What start_thread leaves, with slirp's thread where there is one.
Threads ==
  /\ int_ack = [live |-> Online, count |-> 0]
  /\ ether_thread = IF Online THEN "poll" ELSE "none"
  /\ slirp_thread = IF Slirp THEN [NoThread EXCEPT !.pc = "select"] ELSE NoThread

EtherInit ==
  /\ network \in EtherSetups
  /\ Threads
  /\ net_protocols = {} /\ fd = <<>> /\ input = 0 /\ InterruptFlag = FALSE
  /\ activations = <<>> /\ n_ether_packets = 0
  /\ emulator = "running"

-----------------------------------------------------------------------------
\* The network and slirp.

Packet(t, n) == [i \in 1 .. n |-> [type |-> t, head |-> i = 1]]

Packets == {Packet(t, n) : t \in Types, n \in 1 .. BufferSize}

Datagrams == Packets \cup {Packet(Foreign, BufferSize), Packet(Short, 1)}

\* A datagram arrives.
Receive ==
  /\ network.net = "udp" /\ ether_thread # "none"
  /\ network.stops => emulator = "running"
  /\ \E p \in Datagrams : /\ Len(fd) + Len(p) <= PipeSize
                          /\ fd' = fd \o p
  /\ UNCHANGED <<network, mac, input, int_ack, ether_thread, slirp_thread, InterruptFlag,
                 emulator>>

\* slirp reads what the Mac wrote, or hears from the network, and may have an answer.
slirp_receive_func ==
  /\ slirp_thread.pc = "select"
  /\ \/ input > 0 /\ input' = input - 1
     \/ UNCHANGED input
  /\ \E p \in Packets \cup {<<>>} :
       slirp_thread' = IF p = <<>> THEN slirp_thread ELSE [pc |-> "output", out |-> p]
  /\ UNCHANGED <<network, mac, fd, int_ack, ether_thread, InterruptFlag, emulator>>

\* A write to a pipe that is full blocks.
slirp_output ==
  /\ slirp_thread.pc = "output"
  /\ Len(fd) + Len(slirp_thread.out) <= PipeSize
  /\ fd' = fd \o slirp_thread.out
  /\ slirp_thread' = [pc |-> "select", out |-> <<>>]
  /\ UNCHANGED <<network, mac, input, int_ack, ether_thread, InterruptFlag, emulator>>

-----------------------------------------------------------------------------
\* The reception thread, receive_func.

Poll ==
  /\ ether_thread = "poll" /\ fd # <<>>
  /\ ether_thread' = "raise"
  /\ UNCHANGED <<network, mac, fd, input, int_ack, slirp_thread, InterruptFlag, emulator>>

\* SetInterruptFlag, TriggerInterrupt.
Raise ==
  /\ ether_thread = "raise"
  /\ InterruptFlag' = TRUE
  /\ ether_thread' = "wait"
  /\ UNCHANGED <<network, mac, fd, input, int_ack, slirp_thread, emulator>>

Wait ==
  /\ ether_thread = "wait" /\ int_ack.count > 0
  /\ int_ack' = [int_ack EXCEPT !.count = @ - 1]
  /\ ether_thread' = "poll"
  /\ UNCHANGED <<network, mac, fd, input, slirp_thread, InterruptFlag, emulator>>

receive_func == Poll \/ Raise \/ Wait

-----------------------------------------------------------------------------
\* The emulator thread.

Depth == Len(activations)
Top == activations[Depth]
SetTop(a) == [activations EXCEPT ![Depth] = a]

\* 68k code runs: the Mac's own, or a protocol handler.
MacRuns ==
  /\ emulator = "running"
  /\ IF activations = <<>> THEN TRUE ELSE Top.pc = "handler"

\* EtherControl: kENetAttachPH, kENetDetachPH.
ether_attach_ph(t) ==
  /\ MacRuns /\ Online
  /\ t \notin net_protocols
  /\ net_protocols' = net_protocols \cup {t}
  /\ UNCHANGED <<network, host, activations, n_ether_packets, InterruptFlag, emulator>>

ether_detach_ph(t) ==
  /\ MacRuns /\ Online
  /\ t \in net_protocols
  /\ net_protocols' = net_protocols \ {t}
  /\ UNCHANGED <<network, host, activations, n_ether_packets, InterruptFlag, emulator>>

\* kENetWrite with slirp; with a UDP tunnel the datagram is gone at once.
ether_do_write ==
  /\ MacRuns /\ Slirp
  /\ input < PipeSize
  /\ input' = input + 1
  /\ UNCHANGED <<network, mac, fd, int_ack, ether_thread, slirp_thread, InterruptFlag, emulator>>

Activation == [pc |-> "read", data |-> <<>>]

\* Mutated form: the interrupt is acknowledged before the packets are read.
EtherInterruptAcksFirst ==
  /\ MacRuns /\ InterruptFlag
  /\ activations # <<>> => network.nests /\ Depth < MaxNesting
  /\ InterruptFlag' = FALSE
  /\ n_ether_packets' = n_ether_packets + 1
  /\ activations' = Append(activations, Activation)
  /\ int_ack' = [int_ack EXCEPT !.count = @ + 1]
  /\ UNCHANGED <<network, fd, input, ether_thread, slirp_thread, net_protocols,
                 emulator>>

\* The flag is cleared and ether_do_interrupt called, whose EthernetPacket is the
\* one in use unless a handler lets interrupts come.
EtherInterrupt ==
  /\ MacRuns /\ InterruptFlag
  /\ activations # <<>> => network.nests /\ Depth < MaxNesting
  /\ InterruptFlag' = FALSE
  /\ n_ether_packets' = n_ether_packets + 1
  /\ activations' = Append(activations, Activation)
  /\ UNCHANGED <<network, host, net_protocols, emulator>>

\* read takes what there is, up to the size of the buffer.
PipeRead ==
  LET n == IF Len(fd) < BufferSize THEN Len(fd) ELSE BufferSize IN SubSeq(fd, 1, n)

\* recvfrom takes one datagram.
Datagram ==
  IF fd = <<>> THEN <<>>
  ELSE SubSeq(fd, 1, CHOOSE n \in 1 .. Len(fd) :
                       /\ \A i \in 2 .. n : ~fd[i].head
                       /\ n = Len(fd) \/ fd[n + 1].head)

\* Mutated form: datagrams are read as if from a pipe.
ReceivedAsBytes == PipeRead

Received == IF Slirp THEN PipeRead ELSE Datagram

\* ether_udp_read, ether_dispatch_packet: a packet of which no one wants the type
\* is dropped.  What follows a packet that was cut off has no header to go by.
HasHandler(data) ==
  IF data[1].head THEN data[1].type \in net_protocols ELSE FALSE

\* There is nothing to read, or something that is too short.
NothingToServe(data) == IF data = <<>> THEN TRUE ELSE data[1].type = Short

\* One round of ether_do_interrupt.
ReadPacket ==
  /\ activations # <<>> /\ emulator = "running"
  /\ Top.pc = "read"
  /\ LET data == Received IN
     /\ fd' = SubSeq(fd, Len(data) + 1, Len(fd))
     /\ activations' = SetTop(IF NothingToServe(data) THEN [Activation EXCEPT !.pc = "ack"]
                              ELSE IF HasHandler(data) THEN [pc |-> "handler", data |-> data]
                              ELSE Top)
     /\ n_ether_packets' = IF NothingToServe(data) THEN n_ether_packets - 1 ELSE n_ether_packets
  /\ UNCHANGED <<network, net_protocols, input, int_ack, ether_thread, slirp_thread,
                 InterruptFlag, emulator>>

HandlerReturns ==
  /\ activations # <<>> /\ emulator = "running"
  /\ Top.pc = "handler"
  /\ activations' = SetTop(Activation)
  /\ UNCHANGED <<network, host, net_protocols, n_ether_packets, InterruptFlag, emulator>>

\* Mutated form: the semaphore is signalled only while there is nothing more to read.
AcknowledgeLast ==
  /\ activations # <<>> /\ emulator = "running"
  /\ Top.pc = "ack"
  /\ activations' = SubSeq(activations, 1, Depth - 1)
  /\ int_ack' = [int_ack EXCEPT !.count = IF fd = <<>> THEN @ + 1 ELSE @]
  /\ UNCHANGED <<network, net_protocols, fd, input, ether_thread, slirp_thread,
                 n_ether_packets, InterruptFlag, emulator>>

\* The end of EtherInterrupt.
Acknowledge ==
  /\ activations # <<>> /\ emulator = "running"
  /\ Top.pc = "ack"
  /\ activations' = SubSeq(activations, 1, Depth - 1)
  /\ int_ack' = [int_ack EXCEPT !.count = @ + 1]
  /\ UNCHANGED <<network, net_protocols, fd, input, ether_thread, slirp_thread,
                 n_ether_packets, InterruptFlag, emulator>>

-----------------------------------------------------------------------------
\* Tear-down and another start.

\* The user terminates the emulator, or the Mac restarts, at a moment when nothing is
\* received.  (stop_thread would wait for ever for a reception thread that waits for
\* its acknowledgement: dispatch_semaphore_wait is no cancellation point.)
EtherExit ==
  /\ emulator = "running"
  /\ network.stops
  /\ activations = <<>> /\ fd = <<>> /\ ether_thread = "poll" /\ ~Slirp
  /\ emulator' = "cancel"
  /\ activations' = <<>>
  /\ UNCHANGED <<network, host, net_protocols, n_ether_packets, InterruptFlag>>

\* The reception thread is cancelled in poll.
stop_thread ==
  /\ emulator = "cancel"
  /\ ether_thread = "poll"
  /\ ether_thread' = "none" /\ slirp_thread' = NoThread
  /\ int_ack' = [live |-> FALSE, count |-> 0]
  /\ fd' = <<>> /\ input' = 0
  /\ emulator' = "off"
  /\ UNCHANGED <<network, mac, InterruptFlag>>

\* EtherInit and, before the Mac lets interrupts come, EtherReset.
StartAgain ==
  /\ emulator = "off"
  /\ int_ack' = [live |-> Online, count |-> 0]
  /\ ether_thread' = IF Online THEN "poll" ELSE "none"
  /\ slirp_thread' = IF Slirp THEN [NoThread EXCEPT !.pc = "select"] ELSE NoThread
  /\ net_protocols' = {}
  /\ emulator' = "running"
  /\ UNCHANGED <<network, fd, input, InterruptFlag, activations, n_ether_packets>>

-----------------------------------------------------------------------------
Serve == ReadPacket \/ HandlerReturns \/ Acknowledge

EtherNext ==
  \/ Receive \/ slirp_receive_func \/ slirp_output \/ receive_func
  \/ \E t \in Types : ether_attach_ph(t) \/ ether_detach_ph(t)
  \/ ether_do_write \/ EtherInterrupt \/ Serve
  \/ EtherExit \/ stop_thread \/ StartAgain

\* Threads go on, interrupts are taken, handlers return and the tear-down proceeds.
EtherFairness ==
  /\ WF_etherVars(receive_func) /\ WF_etherVars(slirp_output)
  /\ WF_etherVars(EtherInterrupt) /\ WF_etherVars(Serve)
  /\ WF_etherVars(stop_thread)

-----------------------------------------------------------------------------
Units == [type : Types \cup {Foreign, Short}, head : BOOLEAN]

EtherTypeOK ==
  /\ network \in EtherSetups
  /\ net_protocols \subseteq Types
  /\ fd \in Seq(Units) /\ Len(fd) <= PipeSize /\ input \in 0 .. PipeSize
  /\ InterruptFlag \in BOOLEAN
  /\ int_ack \in [live : BOOLEAN, count : Nat]
  /\ ether_thread \in {"none", "poll", "raise", "wait"}
  /\ slirp_thread.pc \in {"none", "select", "output"} /\ slirp_thread.out \in Seq(Units)
  /\ \A i \in DOMAIN activations :
       activations[i].pc \in {"read", "handler", "ack"} /\ activations[i].data \in Seq(Units)
  /\ Depth <= MaxNesting /\ n_ether_packets \in Nat
  /\ emulator \in {"running", "cancel", "off"}

\* There is at most one packet buffer ("should be at most 1", ether.cpp:459), even if
\* a protocol handler lets interrupts come, since the reception thread raises no
\* second interrupt before the first one is acknowledged.
AtMostOnePacket == n_ether_packets <= 1

\* With a UDP tunnel a handler gets one packet, whole, and of a type that was asked
\* for, never one that is to be dropped.  With slirp it may get two packets as one, as
\* a pipe does not keep them apart (ether_ios.cpp:663, 796).
WholePackets ==
  \A i \in DOMAIN activations :
    activations[i].pc = "handler" /\ ~Slirp =>
      \E t \in Types, n \in 1 .. BufferSize : activations[i].data = Packet(t, n)

\* What is received is read: the thread never waits for an acknowledgement that
\* does not come, however packets, interrupts and acknowledgements are interleaved.
PacketsAreServed ==
  ~network.stops => (fd # <<>> ~> activations # <<>>)
=============================================================================
