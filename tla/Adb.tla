--------------------------------- MODULE Adb ---------------------------------
(***************************************************************************)
(* The ADB Manager (adb.cpp): how mouse and keyboard input gets from the   *)
(* UI thread to the Mac.  The UI thread changes the mouse state and        *)
(* appends key events to a ring buffer, then raises INTFLAG_ADB; the       *)
(* emulator thread runs ADBInterrupt, which compares the mouse state with  *)
(* the one it reported last, empties the ring, and calls the handlers of   *)
(* the Mac.  Only the mouse position is protected by a mutex; all the rest *)
(* is plain memory that both threads use.                                  *)
(*                                                                         *)
(* One axis and one button of the mouse are modelled.  The Mac has         *)
(* started and the debugger (DebugUtil) does not poll from within an ADB   *)
(* handler.  The user presses keys and buttons that are up.  TrackPad and  *)
(* TouchScreen have the views that turn touches into these calls.          *)
(***************************************************************************)
EXTENDS Integers, Sequences

CONSTANTS
  Keys,             \* key codes in use
  KEY_BUFFER_SIZE,
  Steps,            \* distances of one relative motion
  Positions,        \* bound: where the cursor may be moved to
  Half,             \* a relative motion is cut down to -Half .. Half-1
  Setups            \* what is considered: the input devices and the host

ASSUME AdbAssumption ==
  /\ KEY_BUFFER_SIZE \in Nat \ {0}
  /\ Steps \subseteq Int /\ Positions \subseteq Int /\ 0 \in Positions
  /\ Half \in Nat \ {0}
  /\ Setups \subseteq [keys : SUBSET Keys, pending : 1 .. KEY_BUFFER_SIZE,
                      modes : SUBSET BOOLEAN, clicks : BOOLEAN, ordered : BOOLEAN,
                      touch : {"none", "trackpad", "screen", "mouse"}]

VARIABLES
  setup,            \* one of Setups, for good
  relative_mouse, mouse_x, mouse_button,      \* written by the UI thread
  key_buffer, key_write_ptr, key_states,
  key_read_ptr, old_mouse_x, old_mouse_button, \* written by the emulator thread
  irq,              \* INTFLAG_ADB
  ui,               \* what the UI thread has yet to do of the call it is in
  em,               \* the activation of ADBInterrupt, with its locals
  mac,              \* what the Mac was told: the cursor, the button, the keys that
                    \* are down and the last key event
  target            \* where the user has moved the cursor

mouse  == <<relative_mouse, mouse_x, mouse_button>>
keys   == <<key_buffer, key_write_ptr, key_states>>
olds   == <<old_mouse_x, old_mouse_button>>
vars   == <<mouse, keys, key_read_ptr, olds, irq, ui, em, mac, target>>

MaxPending == setup.pending  \* bound: key events in the buffer
Modes      == setup.modes    \* values of relative_mouse the UI uses
Clicks     == setup.clicks   \* TRUE if the button is used
Ordered    == setup.ordered  \* TRUE if stores become visible in program order

Index  == 0 .. KEY_BUFFER_SIZE - 1
Events == [code : Keys, up : BOOLEAN]
NoEvent == [code |-> "none", up |-> FALSE]

Done   == [todo |-> {}, event |-> NoEvent, at |-> 0, down |-> FALSE, mode |-> FALSE, x |-> 0]
NoCall == [pc |-> "idle", mx |-> 0, mb |-> FALSE]

Init ==
  /\ setup \in Setups
  /\ relative_mouse = FALSE /\ mouse_x = 0 /\ mouse_button = FALSE
  /\ key_buffer = [i \in Index |-> NoEvent]
  /\ key_write_ptr = 0 /\ key_read_ptr = 0 /\ key_states = {}
  /\ old_mouse_x = 0 /\ old_mouse_button = FALSE
  /\ irq = FALSE
  /\ ui = Done /\ em = NoCall
  /\ mac = [pos |-> 0, button |-> FALSE, keys |-> {}, last |-> NoEvent, flip |-> FALSE]
  /\ target = 0

-----------------------------------------------------------------------------
\* The UI thread.  A call's stores are made one at a time, in program order or,
\* as far as another thread can tell, in any order; the position is changed with
\* mouse_lock held, and SetInterruptFlag comes last.

Pending == (key_write_ptr - key_read_ptr) % KEY_BUFFER_SIZE

Rank == [buffer |-> 1, ptr |-> 2, matrix |-> 3, mode |-> 4, zero |-> 5, button |-> 6,
         move |-> 7, raise |-> 8]

UiDoes(x) ==
  /\ x \in ui.todo
  /\ \A y \in ui.todo : Rank[y] < Rank[x] => ~Ordered /\ x \notin {"move", "raise"}
  /\ ui' = IF ui.todo = {x} THEN Done ELSE [ui EXCEPT !.todo = @ \ {x}]
  /\ UNCHANGED <<key_read_ptr, olds, em, mac>>

UiBegins == ui.todo = {} /\ UNCHANGED <<mouse, keys, key_read_ptr, olds, irq, em, mac>>

KeyEvent(e) ==
  /\ UiBegins
  /\ e.up <=> e.code \in key_states
  /\ Pending < MaxPending
  /\ ui' = [Done EXCEPT !.todo = {"buffer", "ptr", "matrix", "raise"},
                        !.event = e, !.at = key_write_ptr]
  /\ UNCHANGED target

ADBKeyDown(k) == KeyEvent([code |-> k, up |-> FALSE])
ADBKeyUp(k)   == KeyEvent([code |-> k, up |-> TRUE])

MouseButton(down) ==
  /\ UiBegins
  /\ ui' = [Done EXCEPT !.todo = {"button", "raise"}, !.down = down]
  /\ UNCHANGED target

ADBMouseDown == MouseButton(TRUE)
ADBMouseUp   == MouseButton(FALSE)

\* ADBSetRelMouseMode, as every motion of the trackpad or pointer begins, and
\* then ADBMouseMoved.
MouseMoved(rel, x) ==
  /\ UiBegins
  /\ target' = IF rel THEN target + x ELSE x
  /\ target' \in Positions
  /\ ui' = [Done EXCEPT !.todo = {"move", "raise"} \cup
                                 (IF rel # relative_mouse THEN {"mode", "zero"} ELSE {}),
                        !.mode = rel, !.x = x]

StoreBuffer ==
  /\ UiDoes("buffer")
  /\ key_buffer' = [key_buffer EXCEPT ![ui.at] = ui.event]
  /\ UNCHANGED <<key_write_ptr, key_states>>

\* Mutated form: the pointer does not wrap around.
StorePtrNoWrap ==
  /\ UiDoes("ptr")
  /\ key_write_ptr' = ui.at + 1
  /\ UNCHANGED <<key_buffer, key_states>>

StorePtr ==
  /\ UiDoes("ptr")
  /\ key_write_ptr' = (ui.at + 1) % KEY_BUFFER_SIZE
  /\ UNCHANGED <<key_buffer, key_states>>

StoreMatrix ==
  /\ UiDoes("matrix")
  /\ key_states' = IF ui.event.up THEN key_states \ {ui.event.code}
                                  ELSE key_states \cup {ui.event.code}
  /\ UNCHANGED <<key_buffer, key_write_ptr>>

StoreMouse ==
  \/ /\ UiDoes("mode")
     /\ relative_mouse' = ui.mode
     /\ UNCHANGED <<mouse_x, mouse_button>>
  \/ /\ UiDoes("zero")
     /\ mouse_x' = 0
     /\ UNCHANGED <<relative_mouse, mouse_button>>
  \/ /\ UiDoes("button")
     /\ mouse_button' = ui.down
     /\ UNCHANGED <<relative_mouse, mouse_x>>
  \/ /\ UiDoes("move")
     /\ mouse_x' = IF relative_mouse THEN mouse_x + ui.x ELSE ui.x
     /\ UNCHANGED <<relative_mouse, mouse_button>>

Raise == UiDoes("raise") /\ irq' = TRUE

UiProceeds ==
  \/ (StoreBuffer \/ StorePtr \/ StoreMatrix) /\ UNCHANGED <<mouse, irq, target>>
  \/ StoreMouse /\ UNCHANGED <<keys, irq, target>>
  \/ Raise /\ UNCHANGED <<mouse, keys, target>>

User ==
  \/ \E k \in setup.keys : ADBKeyDown(k) \/ ADBKeyUp(k)
  \/ Clicks /\ (IF mouse_button THEN ADBMouseUp ELSE ADBMouseDown)
  \/ \E rel \in Modes, x \in Steps \cup Positions :
       MouseMoved(rel, x) /\ (rel => x \in Steps)

-----------------------------------------------------------------------------
\* The emulator thread: ADBInterrupt, called by M68K_EMUL_OP_IRQ, which clears
\* the flag first, or by the debugger's poll.

EmStep == UNCHANGED <<keys, ui, target>>

Irq ==
  /\ EmStep
  /\ em.pc = "idle" /\ irq
  /\ irq' = FALSE
  /\ em' = [em EXCEPT !.pc = "snapshot"]
  /\ UNCHANGED <<mouse, key_read_ptr, olds, mac>>

DebuggerPoll ==
  /\ EmStep
  /\ em.pc = "idle"
  /\ em' = [em EXCEPT !.pc = "snapshot"]
  /\ UNCHANGED <<mouse, key_read_ptr, olds, irq, mac>>

\* Mutated form: relative motion is not taken back.
SnapshotKeepsMotion ==
  /\ EmStep
  /\ em.pc = "snapshot"
  /\ em' = [pc |-> "mouse", mx |-> mouse_x, mb |-> mouse_button]
  /\ UNCHANGED <<mouse, key_read_ptr, olds, irq, mac>>

\* The mouse state is read with mouse_lock held.
Snapshot ==
  /\ EmStep
  /\ em.pc = "snapshot"
  /\ em' = [pc |-> "mouse", mx |-> mouse_x, mb |-> mouse_button]
  /\ mouse_x' = IF relative_mouse THEN 0 ELSE mouse_x
  /\ UNCHANGED <<relative_mouse, mouse_button, key_read_ptr, olds, irq, mac>>

\* The motion that the Mac decodes from the ADB packet.
Signed(x) == ((x + Half) % (2 * Half)) - Half

\* relative_mouse is read again, after the lock was released.
ReportMouse ==
  /\ EmStep
  /\ em.pc = "mouse"
  /\ LET moved   == IF relative_mouse THEN em.mx # 0 ELSE em.mx # old_mouse_x
         clicked == em.mb # old_mouse_button
         calls   == clicked \/ (relative_mouse /\ moved)
     IN
     /\ mac' = [mac EXCEPT
                  !.pos = IF ~moved THEN @
                          ELSE IF relative_mouse THEN @ + Signed(em.mx) ELSE em.mx,
                  !.button = IF calls THEN em.mb ELSE @]
     /\ old_mouse_x' = IF relative_mouse THEN old_mouse_x ELSE em.mx
     /\ em' = [em EXCEPT !.pc = IF calls THEN "mouse_handler" ELSE "keys"]
  /\ UNCHANGED <<mouse, old_mouse_button, key_read_ptr, irq>>

\* Mutated form: the button is compared with its state at this moment later on.
MouseHandlerReturnsLate ==
  /\ EmStep
  /\ em.pc = "mouse_handler"
  /\ old_mouse_button' = mouse_button
  /\ em' = [em EXCEPT !.pc = "keys"]
  /\ UNCHANGED <<mouse, old_mouse_x, key_read_ptr, irq, mac>>

MouseHandlerReturns ==
  /\ EmStep
  /\ em.pc = "mouse_handler"
  /\ old_mouse_button' = em.mb
  /\ em' = [em EXCEPT !.pc = "keys"]
  /\ UNCHANGED <<mouse, old_mouse_x, key_read_ptr, irq, mac>>

\* Mutated form: one event is reported, not all there are.
ReportOneKey ==
  /\ EmStep
  /\ em.pc = "keys" /\ key_read_ptr # key_write_ptr
  /\ LET e == key_buffer[key_read_ptr] IN
     mac' = [mac EXCEPT !.last = e, !.flip = ~@,
                        !.keys = IF e.up THEN @ \ {e.code} ELSE @ \cup {e.code}]
  /\ key_read_ptr' = (key_read_ptr + 1) % KEY_BUFFER_SIZE
  /\ em' = NoCall
  /\ UNCHANGED <<mouse, olds, irq>>

ReportKey ==
  /\ EmStep
  /\ em.pc = "keys" /\ key_read_ptr # key_write_ptr
  /\ LET e == key_buffer[key_read_ptr] IN
     mac' = [mac EXCEPT !.last = e, !.flip = ~@,
                        !.keys = IF e.up THEN @ \ {e.code} ELSE @ \cup {e.code}]
  /\ key_read_ptr' = (key_read_ptr + 1) % KEY_BUFFER_SIZE
  /\ em' = [em EXCEPT !.pc = "key_handler"]
  /\ UNCHANGED <<mouse, olds, irq>>

KeyHandlerReturns ==
  /\ EmStep
  /\ em.pc = "key_handler"
  /\ em' = [em EXCEPT !.pc = "keys"]
  /\ UNCHANGED <<mouse, key_read_ptr, olds, irq, mac>>

ADBInterruptReturns ==
  /\ EmStep
  /\ em.pc = "keys" /\ key_read_ptr = key_write_ptr
  /\ em' = NoCall
  /\ UNCHANGED <<mouse, key_read_ptr, olds, irq, mac>>

ADBInterrupt ==
  \/ Snapshot \/ ReportMouse \/ MouseHandlerReturns
  \/ ReportKey \/ KeyHandlerReturns \/ ADBInterruptReturns

-----------------------------------------------------------------------------
Next ==
  /\ User \/ UiProceeds \/ Irq \/ DebuggerPoll \/ ADBInterrupt
  /\ UNCHANGED setup

\* A call of the UI thread that has begun is finished, the interrupt is taken
\* (see Interrupts) and the Mac's handlers return.
Fairness == WF_vars(UiProceeds) /\ WF_vars(Irq) /\ WF_vars(ADBInterrupt)

Spec == Init /\ [][Next]_<<setup, vars>> /\ Fairness

-----------------------------------------------------------------------------
TypeOK ==
  /\ setup \in Setups
  /\ relative_mouse \in BOOLEAN /\ mouse_x \in Int /\ mouse_button \in BOOLEAN
  /\ key_buffer \in [Index -> Events \cup {NoEvent}]
  /\ key_write_ptr \in Index /\ key_read_ptr \in Index
  /\ key_states \subseteq Keys
  /\ old_mouse_x \in Int /\ old_mouse_button \in BOOLEAN
  /\ irq \in BOOLEAN
  /\ ui \in [todo : SUBSET DOMAIN Rank, event : Events \cup {NoEvent}, at : Index,
             down : BOOLEAN, mode : BOOLEAN, x : Int]
  /\ em \in [pc : {"idle", "snapshot", "mouse", "mouse_handler", "keys", "key_handler"},
             mx : Int, mb : BOOLEAN]
  /\ mac.keys \subseteq Keys /\ mac.button \in BOOLEAN
  /\ target \in Positions

\* All input was reported, or so the program believes: no call of the UI thread
\* and no interrupt is in progress or due.
Quiet == ui.todo = {} /\ ~irq /\ em.pc = "idle"

\* No key and no button is stuck: once all is quiet the Mac thinks that what the
\* user holds down is down, and nothing else, although the flag is cleared, the
\* state read and the state compared at different moments and without a lock.
KeysAgree   == Quiet => mac.keys = key_states
ButtonAgrees == Quiet => mac.button = mouse_button

\* Once all is quiet the cursor is where the user has moved it: no motion is lost
\* or reported twice ("Mouse was moved", adb.cpp:232).
CursorFollows == Quiet => mac.pos = target

\* The ring buffer is a queue: key events reach the Mac once, in order, and each
\* of them in the end.
Queue == [n \in 1 .. Pending |-> key_buffer[(key_read_ptr + n - 1) % KEY_BUFFER_SIZE]]

Abs == INSTANCE KeyQueue WITH
  Events <- Events,
  queue  <- Queue,
  seen   <- [event |-> mac.last, flip |-> mac.flip]

ImplementsKeyQueue == Abs!Spec
=============================================================================
