------------------------------ MODULE Adb_proofs ------------------------------
(***************************************************************************)
(* Proofs about the ADB Manager, for any keys, any size of the ring, any   *)
(* positions and any sequence of calls from the UI thread: the user's own, *)
(* or those that a view makes for him (TouchScreen).  The stores of a call *)
(* and the emulator thread's reads interleave as the host orders them.     *)
(***************************************************************************)
EXTENDS Adb, TLAPS

\* The ways to move the mouse that are used, by the user or by the view (see TouchScreen).
UsedModes == Modes \cup (IF setup.touch = "trackpad" THEN {TRUE}
                         ELSE IF setup.touch = "none" THEN {} ELSE {FALSE})

\* Any call of the UI thread: the user makes those that the setup names, a view (see
\* TouchScreen) makes mouse calls as it likes.
AnyCall ==
  \/ \E k \in setup.keys : ADBKeyDown(k) \/ ADBKeyUp(k)
  \/ \E down \in BOOLEAN : MouseButton(down)
  \/ \E rel \in UsedModes, x \in Int : MouseMoved(rel, x)

AnyStep == (AnyCall \/ UiProceeds \/ Irq \/ DebuggerPoll \/ ADBInterrupt) /\ UNCHANGED setup

KeyStores == {"buffer", "ptr", "matrix"}
MotionStores == {"mode", "zero", "move"}

UiRecords ==
  [todo : SUBSET (KeyStores \cup MotionStores \cup {"button", "raise"}),
   event : Events \cup {NoEvent}, at : Index, down : BOOLEAN, mode : BOOLEAN, x : Int]
EmRecords ==
  [pc : {"idle", "snapshot", "mouse", "mouse_handler", "keys", "key_handler"},
   mx : Int, mb : BOOLEAN]
MacRecords ==
  [pos : Int, button : BOOLEAN, keys : SUBSET (Keys \cup {NoEvent.code}),
   last : Events \cup {NoEvent}, flip : BOOLEAN]

\* A call of the UI thread stores for a key, a motion or the button, and then raises.
OneCall ==
  /\ ui.todo # {} => "raise" \in ui.todo
  /\ "matrix" \in ui.todo => ui.event \in Events
  /\ \/ ui.todo \subseteq KeyStores \cup {"raise"}
     \/ ui.todo \subseteq MotionStores \cup {"raise"}
     \/ ui.todo \subseteq {"button", "raise"}

AdbTypes ==
  /\ setup \in Setups
  /\ relative_mouse \in BOOLEAN /\ mouse_x \in Int /\ mouse_button \in BOOLEAN
  /\ key_buffer \in [Index -> Events \cup {NoEvent}]
  /\ key_write_ptr \in Index /\ key_read_ptr \in Index
  /\ key_states \subseteq Keys
  /\ old_mouse_x \in Int /\ old_mouse_button \in BOOLEAN
  /\ irq \in BOOLEAN
  /\ ui \in UiRecords /\ em \in EmRecords /\ mac \in MacRecords
  /\ target \in Positions
  /\ OneCall

\* The hosts on which the keyboard works: stores of a key event are seen in their order,
\* and the ring is never full.
KeysInOrder == setup.keys # {} => Ordered /\ MaxPending < KEY_BUFFER_SIZE

\* The keys that are down after e, when before it ks are.
After(e, ks) == IF e.up THEN ks \ {e.code} ELSE ks \cup {e.code}

\* The keys that are down when all events in the ring are reported.
InRing ==
  IF "matrix" \in ui.todo /\ "ptr" \notin ui.todo THEN After(ui.event, key_states) ELSE key_states

\* The event of k that waits behind the others of k.
LastOf(q, k, n) ==
  /\ n \in DOMAIN q /\ q[n].code = k
  /\ \A m \in DOMAIN q : m > n => q[m].code # k

\* When the events q are reported to one who thinks that told are down, he thinks that
\* down are.
Leads(told, q, down) ==
  \A k \in Keys :
    /\ (\A n \in DOMAIN q : q[n].code # k) => (k \in told <=> k \in down)
    /\ \A n \in DOMAIN q : LastOf(q, k, n) => (k \in down <=> ~q[n].up)

RingInv ==
  /\ setup.keys = {} => ui.todo \cap KeyStores = {}
  /\ "buffer" \in ui.todo => "ptr" \in ui.todo
  /\ "ptr" \in ui.todo => "matrix" \in ui.todo /\ ui.at = key_write_ptr /\ Pending < MaxPending
  /\ "ptr" \in ui.todo /\ "buffer" \notin ui.todo => key_buffer[ui.at] = ui.event
  /\ Queue \in Seq(Events)
  /\ mac.keys \subseteq Keys
  /\ Leads(mac.keys, Queue, InRing)
  /\ key_read_ptr # key_write_ptr => irq \/ em.pc # "idle" \/ "raise" \in ui.todo

\* What ADBInterrupt has read, or read last, of the button, and of the absolute position.
ReadButton == IF em.pc \in {"mouse", "mouse_handler"} THEN em.mb ELSE old_mouse_button
ReadPos    == IF em.pc = "mouse" THEN em.mx ELSE old_mouse_x

LooksAgain == irq \/ em.pc = "snapshot" \/ "raise" \in ui.todo

ButtonInv ==
  /\ mouse_button # ReadButton => LooksAgain
  /\ mac.button = IF em.pc = "mouse_handler" THEN em.mb ELSE old_mouse_button

MotionTodo == IF "move" \in ui.todo THEN ui.x ELSE 0

AbsoluteInv ==
  /\ ~relative_mouse /\ ui.todo \cap {"mode", "zero"} = {}
  /\ "move" \in ui.todo => target = ui.x
  /\ "move" \notin ui.todo => target = mouse_x
  /\ mouse_x # ReadPos => LooksAgain
  /\ mac.pos = old_mouse_x

\* No motion is further than a packet can say.
MotionFits == \A p, q \in Positions : p - q \in -Half .. Half - 1

RelativeInv ==
  /\ ui.todo # {} => ("mode" \in ui.todo => ui.mode)
  /\ "move" \in ui.todo => relative_mouse \/ "mode" \in ui.todo
  /\ "zero" \in ui.todo \/ ~relative_mouse => mouse_x = 0
  /\ ~relative_mouse => em.mx = 0
  /\ old_mouse_x = 0
  /\ target - MotionTodo \in Positions /\ mac.pos \in Positions
  /\ em.pc = "mouse" => mac.pos + em.mx \in Positions
  /\ mac.pos + (IF em.pc = "mouse" THEN em.mx ELSE 0) + mouse_x + MotionTodo = target
  /\ mouse_x # 0 => LooksAgain

\* The mouse moves in one way, and no further at once than a packet can say.
OneMode == UsedModes \subseteq {FALSE} \/ (UsedModes \subseteq {TRUE} /\ MotionFits)

AdbInv ==
  /\ AdbTypes
  /\ KeysInOrder => RingInv
  /\ ButtonInv
  /\ UsedModes \subseteq {FALSE} => AbsoluteInv
  /\ UsedModes \subseteq {TRUE} /\ MotionFits => RelativeInv

-----------------------------------------------------------------------------
\* What a remainder is, near the range.
LEMMA ModNear ==
  ASSUME NEW N \in Nat \ {0}, NEW a \in Int, -N <= a, a < 2 * N
  PROVE  a % N = IF a < 0 THEN a + N ELSE IF a < N THEN a ELSE a - N
<1>1. CASE 0 <= a /\ a < N
  BY <1>1, SMTT(30)
<1>2. CASE a < 0
  BY <1>2, SMTT(30)
<1>3. CASE a >= N
  BY <1>3, SMTT(30)
<1> QED BY <1>1, <1>2, <1>3

\* What is assumed of a setup.
LEMMA SetupFacts ==
  ASSUME setup \in Setups
  PROVE  /\ setup.keys \subseteq Keys /\ MaxPending \in 1 .. KEY_BUFFER_SIZE
         /\ Modes \subseteq BOOLEAN /\ Ordered \in BOOLEAN /\ Clicks \in BOOLEAN
         /\ UsedModes \subseteq BOOLEAN
  BY AdbAssumption DEF MaxPending, Modes, Ordered, Clicks, UsedModes

\* The steps of Adb are steps of a user who calls what he likes.
LEMMA NextIsAnyStep ==
  ASSUME setup \in Setups, [Next]_<<setup, vars>>
  PROVE  [AnyStep]_<<setup, vars>>
<1>1. CASE User /\ UNCHANGED setup
  <2>1. ASSUME NEW k \in setup.keys, ADBKeyDown(k) \/ ADBKeyUp(k)
        PROVE  AnyCall
    BY <2>1 DEF AnyCall
  <2>2. ASSUME ADBMouseUp \/ ADBMouseDown
        PROVE  AnyCall
    BY <2>2 DEF ADBMouseUp, ADBMouseDown, AnyCall
  <2>3. ASSUME NEW rel \in Modes, NEW x \in Steps \cup Positions, MouseMoved(rel, x)
        PROVE  AnyCall
    <3>1. rel \in UsedModes /\ x \in Int
      BY AdbAssumption DEF UsedModes
    <3> QED BY <3>1, <2>3 DEF AnyCall
  <2> QED BY <1>1, <2>1, <2>2, <2>3 DEF User, AnyStep
<1> QED BY <1>1 DEF Next, AnyStep

\* A store takes itself off what is to be done; raising the interrupt ends the call.
LEMMA UiStep ==
  ASSUME AdbTypes, NEW x \in DOMAIN Rank, UiDoes(x)
  PROVE  /\ x \in ui.todo /\ ui' \in UiRecords /\ OneCall' /\ ui'.todo = ui.todo \ {x}
         /\ x = "raise" => ui.todo = {"raise"} /\ ui' = Done
         /\ x # "raise" => /\ "raise" \in ui'.todo
                          /\ ui'.event = ui.event /\ ui'.at = ui.at /\ ui'.x = ui.x
                          /\ ui'.mode = ui.mode /\ ui'.down = ui.down
         /\ x = "move" => ui.todo \subseteq {"move", "raise"}
         /\ Ordered /\ x = "ptr" => "buffer" \notin ui.todo
         /\ Ordered /\ x = "matrix" => ui.todo \cap {"buffer", "ptr"} = {}
         /\ UNCHANGED <<key_read_ptr, olds, em, mac>>
<1>1. x \in ui.todo /\ ui' = IF ui.todo = {x} THEN Done ELSE [ui EXCEPT !.todo = @ \ {x}]
  BY DEF UiDoes
<1>2. ui.todo \subseteq DOMAIN Rank /\ "raise" \in ui.todo
  BY <1>1 DEF AdbTypes, OneCall, UiRecords, KeyStores, MotionStores, Rank
<1>3. \A y \in ui.todo : Rank[y] < Rank[x] => ~Ordered /\ x \notin {"move", "raise"}
  BY DEF UiDoes
<1>4. x = "raise" => ui.todo = {"raise"} /\ ui' = Done
  BY <1>1, <1>2, <1>3 DEF Rank
<1>5. x # "raise" => ui' = [ui EXCEPT !.todo = @ \ {x}]
  BY <1>1, <1>2
<1>6. x = "move" => ui.todo \subseteq {"move", "raise"}
  BY <1>1, <1>2, <1>3 DEF Rank
<1>7. Ordered /\ x = "ptr" => "buffer" \notin ui.todo
  BY <1>1, <1>2, <1>3 DEF Rank
<1>8. Ordered /\ x = "matrix" => ui.todo \cap {"buffer", "ptr"} = {}
  BY <1>1, <1>2, <1>3 DEF Rank
<1>9. Done \in UiRecords
  BY AdbAssumption DEF Done, UiRecords, Index
<1>10. CASE x = "raise"
  BY <1>1, <1>4, <1>9, <1>10 DEF Done, OneCall, UiDoes
<1>11. CASE x # "raise"
  <2>1. ui \in UiRecords /\ OneCall
    BY DEF AdbTypes
  <2>2. ui' \in UiRecords /\ ui'.todo = ui.todo \ {x}
        /\ ui'.event = ui.event /\ ui'.at = ui.at /\ ui'.x = ui.x
        /\ ui'.mode = ui.mode /\ ui'.down = ui.down
    BY <1>5, <1>11, <2>1 DEF UiRecords
  <2>3. "raise" \in ui'.todo /\ OneCall'
    BY <1>2, <1>11, <2>1, <2>2 DEF OneCall
  <2> QED BY <1>1, <1>6, <1>7, <1>8, <1>11, <2>2, <2>3 DEF UiDoes
<1> QED BY <1>10, <1>11

-----------------------------------------------------------------------------
\* Types.
LEMMA AdbInitTypes == Init => AdbTypes
<1> SUFFICES ASSUME Init PROVE AdbTypes
  OBVIOUS
<1>1. 0 \in Index /\ setup \in Setups /\ target \in Positions
  BY AdbAssumption DEF Init, Index
<1>2. key_buffer \in [Index -> Events \cup {NoEvent}]
  BY DEF Init
<1>3. ui \in UiRecords /\ OneCall
  BY <1>1 DEF Init, Done, UiRecords, OneCall
<1>4. em \in EmRecords /\ mac \in MacRecords
  BY DEF Init, NoCall, EmRecords, MacRecords
<1>5. mouse_x \in Int /\ old_mouse_x \in Int /\ key_states \subseteq Keys
  BY DEF Init
<1>6. /\ key_write_ptr \in Index /\ key_read_ptr \in Index
      /\ relative_mouse \in BOOLEAN /\ mouse_button \in BOOLEAN
      /\ old_mouse_button \in BOOLEAN /\ irq \in BOOLEAN
  BY <1>1, Zenon DEF Init
<1> QED BY <1>1, <1>2, <1>3, <1>4, <1>5, <1>6 DEF AdbTypes

\* What a call of the UI thread begins with.
LEMMA CallStep ==
  ASSUME AdbTypes, AnyCall, UNCHANGED setup
  PROVE  /\ ui.todo = {} /\ UNCHANGED <<mouse, keys, key_read_ptr, olds, irq, em, mac>>
         /\ ui' \in UiRecords /\ OneCall' /\ target' \in Positions /\ "raise" \in ui'.todo
         /\ \/ /\ setup.keys # {} /\ ui'.todo = {"buffer", "ptr", "matrix", "raise"}
               /\ ui'.event \in Events /\ ui'.at = key_write_ptr /\ Pending < MaxPending
               /\ ui'.event.up <=> ui'.event.code \in key_states
               /\ target' = target
            \/ ui'.todo = {"button", "raise"} /\ target' = target
            \/ \E rel \in UsedModes :
                 /\ ui'.todo = {"move", "raise"} \cup
                               (IF rel # relative_mouse THEN {"mode", "zero"} ELSE {})
                 /\ ui'.mode = rel /\ target' = IF rel THEN target + ui'.x ELSE ui'.x
<1> USE DEF AdbTypes
<1>d. Done \in UiRecords /\ Done.todo = {}
  BY AdbAssumption DEF Done, UiRecords, Index
<1>1. ASSUME NEW e \in Events, KeyEvent(e)
      PROVE  /\ ui' \in UiRecords /\ ui'.todo = {"buffer", "ptr", "matrix", "raise"}
             /\ ui'.event = e /\ ui'.at = key_write_ptr /\ OneCall'
  <2>1. ui' = [Done EXCEPT !.todo = {"buffer", "ptr", "matrix", "raise"},
                           !.event = e, !.at = key_write_ptr]
    BY <1>1 DEF KeyEvent
  <2>2. /\ ui' \in UiRecords /\ ui'.todo = {"buffer", "ptr", "matrix", "raise"}
        /\ ui'.event = e /\ ui'.at = key_write_ptr
    BY <1>d, <2>1 DEF UiRecords, KeyStores
  <2> QED BY <2>2 DEF OneCall, KeyStores
<1>2. ASSUME NEW k \in setup.keys, ADBKeyDown(k) \/ ADBKeyUp(k)
      PROVE  \E e \in Events : KeyEvent(e)
  BY <1>2, SetupFacts DEF Events, ADBKeyDown, ADBKeyUp
<1>3. CASE \E k \in setup.keys : ADBKeyDown(k) \/ ADBKeyUp(k)
  BY <1>1, <1>2, <1>3 DEF KeyEvent, UiBegins
<1>4. CASE \E down \in BOOLEAN : MouseButton(down)
  <2>1. PICK down \in BOOLEAN : MouseButton(down)
    BY <1>4
  <2>2. ui' \in UiRecords /\ ui'.todo = {"button", "raise"}
    BY <1>d, <2>1 DEF MouseButton, UiRecords
  <2> QED BY <2>1, <2>2 DEF MouseButton, UiBegins, OneCall
<1>5. CASE \E rel \in UsedModes, x \in Int : MouseMoved(rel, x)
  <2>1. PICK rel \in UsedModes, x \in Int : MouseMoved(rel, x)
    BY <1>5
  <2>2. ui' \in UiRecords /\ ui'.mode = rel /\ ui'.x = x
        /\ ui'.todo = {"move", "raise"} \cup
                      (IF rel # relative_mouse THEN {"mode", "zero"} ELSE {})
    BY <1>d, <2>1, SetupFacts DEF MouseMoved, UiRecords, MotionStores
  <2>3. OneCall'
    BY <2>2 DEF OneCall, MotionStores
  <2> QED BY <2>1, <2>2, <2>3 DEF MouseMoved, UiBegins
<1> QED BY <1>3, <1>4, <1>5 DEF AnyCall

\* A call keeps the types.
LEMMA CallTypes ==
  ASSUME AdbTypes, AnyCall, UNCHANGED setup
  PROVE  AdbTypes'
BY CallStep DEF AdbTypes, mouse, keys, olds

\* One store of the call in progress, or its request for an interrupt.
LEMMA UiTypes ==
  ASSUME AdbTypes, UiProceeds, UNCHANGED setup
  PROVE  AdbTypes'
<1> USE DEF AdbTypes
<1>1. ASSUME NEW x \in DOMAIN Rank, UiDoes(x)
      PROVE  ui' \in UiRecords /\ OneCall' /\ UNCHANGED <<key_read_ptr, olds, em, mac>>
  BY <1>1, UiStep
<1>a. DOMAIN Rank = {"buffer", "ptr", "matrix", "mode", "zero", "button", "move", "raise"}
  BY DEF Rank
<1>f. ui.event \in Events \cup {NoEvent} /\ ui.at \in Index /\ ui.down \in BOOLEAN
      /\ ui.mode \in BOOLEAN /\ ui.x \in Int
  BY DEF UiRecords
<1>2. CASE StoreBuffer /\ UNCHANGED <<mouse, irq, target>>
  BY <1>1, <1>a, <1>f, <1>2 DEF StoreBuffer, mouse, olds
<1>3. CASE StorePtr /\ UNCHANGED <<mouse, irq, target>>
  <2>1. (ui.at + 1) % KEY_BUFFER_SIZE \in Index
    BY <1>f, AdbAssumption DEF Index
  <2> QED BY <1>1, <1>a, <1>3, <2>1 DEF StorePtr, mouse, olds
<1>4. CASE StoreMatrix /\ UNCHANGED <<mouse, irq, target>>
  <2>1. key_states' \subseteq Keys
    BY <1>4 DEF StoreMatrix, UiDoes, OneCall, Events
  <2> QED BY <1>1, <1>a, <1>4, <2>1 DEF StoreMatrix, mouse, olds
<1>5. CASE StoreMouse /\ UNCHANGED <<keys, irq, target>>
  BY <1>1, <1>a, <1>f, <1>5 DEF StoreMouse, keys, olds
<1>6. CASE Raise /\ UNCHANGED <<mouse, keys, target>>
  BY <1>1, <1>a, <1>6 DEF Raise, mouse, keys, olds
<1> QED BY <1>2, <1>3, <1>4, <1>5, <1>6 DEF UiProceeds

\* The key event that is reported.
LEMMA KeyReported ==
  ASSUME AdbTypes, ReportKey
  PROVE  LET e == key_buffer[key_read_ptr] IN
         /\ mac' \in MacRecords
         /\ mac'.pos = mac.pos /\ mac'.button = mac.button
         /\ mac'.last = e /\ mac'.flip = ~mac.flip
         /\ mac'.keys = IF e.up THEN mac.keys \ {e.code} ELSE mac.keys \cup {e.code}
<1> DEFINE e == key_buffer[key_read_ptr]
           b == ~mac.flip
           K == IF e.up THEN mac.keys \ {e.code} ELSE mac.keys \cup {e.code}
<1>1. e \in Events \cup {NoEvent} /\ mac \in MacRecords
  BY DEF AdbTypes
<1>2. e.code \in Keys \cup {NoEvent.code}
  BY <1>1 DEF Events
<1>3. K \subseteq Keys \cup {NoEvent.code}
  BY <1>1, <1>2 DEF MacRecords
<1>4. b \in BOOLEAN
  OBVIOUS
<1>5. mac' = [mac EXCEPT !.last = e, !.flip = b, !.keys = K]
  BY DEF ReportKey
<1> HIDE DEF b, e, K
<1>6. /\ mac' \in MacRecords /\ mac'.pos = mac.pos /\ mac'.button = mac.button
      /\ mac'.last = e /\ mac'.flip = b /\ mac'.keys = K
  BY <1>1, <1>3, <1>4, <1>5 DEF MacRecords
<1> QED BY <1>6 DEF b, e, K

\* The mouse state that is reported.
Moved == IF relative_mouse THEN em.mx # 0 ELSE em.mx # old_mouse_x
CallsHandler == em.mb # old_mouse_button \/ (relative_mouse /\ Moved)

\* What a report of the mouse changes, in the Mac and in the emulator thread.
LEMMA MouseReported ==
  ASSUME AdbTypes, ReportMouse
  PROVE  /\ mac' \in MacRecords /\ mac'.keys = mac.keys /\ mac'.last = mac.last
         /\ mac'.flip = mac.flip
         /\ mac'.pos = IF ~Moved THEN mac.pos
                       ELSE IF relative_mouse THEN mac.pos + Signed(em.mx) ELSE em.mx
         /\ mac'.button = IF CallsHandler THEN em.mb ELSE mac.button
         /\ old_mouse_x' \in Int /\ old_mouse_x' = IF relative_mouse THEN old_mouse_x ELSE em.mx
         /\ em' \in EmRecords /\ em'.pc = IF CallsHandler THEN "mouse_handler" ELSE "keys"
         /\ em'.mx = em.mx /\ em'.mb = em.mb
<1> DEFINE P == IF ~Moved THEN mac.pos
                ELSE IF relative_mouse THEN mac.pos + Signed(em.mx) ELSE em.mx
           B == IF CallsHandler THEN em.mb ELSE mac.button
           C == IF CallsHandler THEN "mouse_handler" ELSE "keys"
<1>1. mac \in MacRecords /\ em \in EmRecords /\ old_mouse_x \in Int
  BY DEF AdbTypes
<1>2. em.mx \in Int /\ em.mb \in BOOLEAN
  BY <1>1 DEF EmRecords
<1>3. Signed(em.mx) \in Int
  BY <1>2, AdbAssumption DEF Signed
<1>4. P \in Int /\ B \in BOOLEAN
  BY <1>1, <1>2, <1>3 DEF MacRecords
<1>5. mac' = [mac EXCEPT !.pos = P, !.button = B]
  BY DEF ReportMouse, Moved, CallsHandler
<1>6. em' = [em EXCEPT !.pc = C] /\ old_mouse_x' = IF relative_mouse THEN old_mouse_x ELSE em.mx
  BY DEF ReportMouse, Moved, CallsHandler
<1>7. C \in {"mouse_handler", "keys"}
  OBVIOUS
<1> HIDE DEF P, B, C
<1>8. /\ mac' \in MacRecords /\ mac'.keys = mac.keys /\ mac'.last = mac.last
      /\ mac'.flip = mac.flip /\ mac'.pos = P /\ mac'.button = B
  BY <1>1, <1>4, <1>5 DEF MacRecords
<1>9. em' \in EmRecords /\ em'.pc = C /\ em'.mx = em.mx /\ em'.mb = em.mb
  BY <1>1, <1>6, <1>7 DEF EmRecords
<1>10. old_mouse_x' \in Int
  BY <1>1, <1>2, <1>6
<1> QED BY <1>6, <1>8, <1>9, <1>10 DEF P, B, C

\* The steps of the emulator thread.
LEMMA EmTypes ==
  ASSUME AdbTypes, Irq \/ DebuggerPoll \/ ADBInterrupt, UNCHANGED setup
  PROVE  AdbTypes'
<1> USE DEF AdbTypes
<1>1. UNCHANGED <<key_buffer, key_write_ptr, key_states, ui, target, relative_mouse, mouse_button>>
  BY DEF EmStep, keys, mouse, Irq, DebuggerPoll, ADBInterrupt, Snapshot, ReportMouse,
     MouseHandlerReturns, ReportKey, KeyHandlerReturns, ADBInterruptReturns
<1>2. UNCHANGED <<setup, OneCall>>
  BY <1>1 DEF OneCall
<1>3. /\ em.pc \in {"idle", "snapshot", "mouse", "mouse_handler", "keys", "key_handler"}
      /\ em.mx \in Int /\ em.mb \in BOOLEAN /\ NoCall \in EmRecords
      /\ \A pc \in {"idle", "snapshot", "mouse", "mouse_handler", "keys", "key_handler"} :
           [em EXCEPT !.pc = pc] \in EmRecords
  BY DEF EmRecords, NoCall
<1>4. CASE Irq \/ DebuggerPoll \/ KeyHandlerReturns \/ ADBInterruptReturns
  BY <1>1, <1>2, <1>3, <1>4
  DEF Irq, DebuggerPoll, KeyHandlerReturns, ADBInterruptReturns, mouse, olds
<1>5. CASE Snapshot
  <2>1. em' \in EmRecords
    BY <1>5 DEF Snapshot, EmRecords
  <2> QED BY <1>1, <1>2, <1>5, <2>1 DEF Snapshot, olds
<1>6. CASE ReportMouse
  BY <1>1, <1>2, <1>6, MouseReported DEF ReportMouse, mouse
<1>7. CASE MouseHandlerReturns
  BY <1>1, <1>2, <1>3, <1>7 DEF MouseHandlerReturns, mouse
<1>8. CASE ReportKey
  <2>1. (key_read_ptr + 1) % KEY_BUFFER_SIZE \in Index
    BY AdbAssumption DEF Index
  <2>2. mac' \in MacRecords
    BY <1>8, KeyReported
  <2> QED BY <1>1, <1>2, <1>3, <1>8, <2>1, <2>2 DEF ReportKey, mouse, olds
<1> QED BY <1>4, <1>5, <1>6, <1>7, <1>8 DEF ADBInterrupt

\* Every step keeps the types.
LEMMA TypesStep ==
  ASSUME AdbTypes, [AnyStep]_<<setup, vars>>
  PROVE  AdbTypes'
<1>1. CASE AnyStep
  BY <1>1, CallTypes, UiTypes, EmTypes DEF AnyStep
<1>2. CASE UNCHANGED <<setup, vars>>
  BY <1>2 DEF AdbTypes, OneCall, vars, mouse, keys, olds
<1> QED BY <1>1, <1>2

-----------------------------------------------------------------------------
\* The UI thread ends every call with the interrupt, and touches nothing of the emulator
\* thread's.
LEMMA UiLooks ==
  ASSUME AdbTypes, AnyCall \/ UiProceeds, UNCHANGED setup
  PROVE  LooksAgain' /\ UNCHANGED <<key_read_ptr, olds, em, mac>>
<1>1. CASE AnyCall
  BY <1>1, CallStep DEF LooksAgain
<1>2. CASE UiProceeds
  <2>1. DOMAIN Rank = {"buffer", "ptr", "matrix", "mode", "zero", "button", "move", "raise"}
    BY DEF Rank
  <2>2. CASE Raise
    BY <2>1, <2>2, UiStep DEF Raise, LooksAgain
  <2>3. ASSUME NEW x \in DOMAIN Rank, UiDoes(x), x # "raise"
        PROVE  LooksAgain' /\ UNCHANGED <<key_read_ptr, olds, em, mac>>
    BY <2>3, UiStep DEF LooksAgain
  <2> QED
    BY <1>2, <2>1, <2>2, <2>3
    DEF UiProceeds, StoreBuffer, StorePtr, StoreMatrix, StoreMouse
<1> QED BY <1>1, <1>2

\* What the UI thread stores is not changed by the other one, but for the relative motion.
LEMMA EmLooks ==
  ASSUME Irq \/ DebuggerPoll \/ ADBInterrupt
  PROVE  UNCHANGED <<relative_mouse, mouse_button, keys, ui, target>>
  BY DEF Irq, DebuggerPoll, ADBInterrupt, Snapshot, ReportMouse, MouseHandlerReturns,
     ReportKey, KeyHandlerReturns, ADBInterruptReturns, EmStep, mouse

\* The steps of the emulator thread that do not touch the mouse.
LEMMA PcStep ==
  ASSUME AdbTypes, Irq \/ DebuggerPoll \/ KeyHandlerReturns \/ ADBInterruptReturns
  PROVE  /\ UNCHANGED <<mouse, key_read_ptr, olds, mac>>
         /\ em'.pc \notin {"mouse", "mouse_handler"}
         /\ em.pc \notin {"snapshot", "mouse", "mouse_handler"}
         /\ Irq \/ DebuggerPoll => em'.pc = "snapshot" /\ em' = [em EXCEPT !.pc = "snapshot"]
         /\ ~(Irq \/ DebuggerPoll) => irq' = irq /\ em'.pc \in {"keys", "idle"} /\ em.pc # "idle"
         /\ em'.mx \in {em.mx, 0}
<1>1. em \in EmRecords
  BY DEF AdbTypes
<1> QED
  BY <1>1 DEF Irq, DebuggerPoll, KeyHandlerReturns, ADBInterruptReturns, NoCall, EmRecords

\* Every step keeps what is said of the button,
LEMMA ButtonStep ==
  ASSUME AdbTypes, ButtonInv, [AnyStep]_<<setup, vars>>
  PROVE  ButtonInv'
<1>1. CASE (AnyCall \/ UiProceeds) /\ UNCHANGED setup
  BY <1>1, UiLooks DEF ButtonInv, ReadButton, olds
<1>2. CASE Irq \/ DebuggerPoll \/ KeyHandlerReturns \/ ADBInterruptReturns
  BY <1>2, PcStep, EmLooks DEF ButtonInv, ReadButton, LooksAgain, olds, mouse, ADBInterrupt
<1>3. CASE Snapshot
  <2>1. em'.pc = "mouse" /\ em'.mb = mouse_button
    BY <1>3 DEF Snapshot
  <2> QED BY <1>3, <2>1 DEF Snapshot, ButtonInv, ReadButton, olds
<1>4. CASE ReportMouse
  BY <1>4, MouseReported, EmLooks
  DEF ReportMouse, ButtonInv, ReadButton, LooksAgain, CallsHandler, ADBInterrupt
<1>5. CASE MouseHandlerReturns
  <2>1. em'.pc = "keys"
    BY <1>5 DEF MouseHandlerReturns, AdbTypes, EmRecords
  <2> QED BY <1>5, <2>1, EmLooks
      DEF MouseHandlerReturns, ButtonInv, ReadButton, LooksAgain, ADBInterrupt
<1>6. CASE ReportKey
  <2>1. em'.pc = "key_handler" /\ em'.mb = em.mb
    BY <1>6 DEF ReportKey, AdbTypes, EmRecords
  <2> QED
    BY <1>6, <2>1, KeyReported, EmLooks
    DEF ReportKey, ButtonInv, ReadButton, LooksAgain, olds, ADBInterrupt
<1>7. CASE UNCHANGED <<setup, vars>>
  BY <1>7 DEF ButtonInv, ReadButton, LooksAgain, vars, mouse, olds
<1> QED BY <1>1, <1>2, <1>3, <1>4, <1>5, <1>6, <1>7 DEF AnyStep, ADBInterrupt

\* ... of the position, if it is absolute,
LEMMA AbsoluteStep ==
  ASSUME AdbTypes, UsedModes \subseteq {FALSE}, AbsoluteInv, [AnyStep]_<<setup, vars>>
  PROVE  AbsoluteInv'
<1> USE DEF AbsoluteInv, ReadPos
<1>1. CASE AnyCall /\ UNCHANGED setup
  <2>1. UNCHANGED <<relative_mouse, mouse_x, olds, em, mac>> /\ LooksAgain'
    BY <1>1, UiLooks, CallStep DEF mouse
  <2>2. CASE ui'.todo \subseteq KeyStores \cup {"button", "raise"} /\ target' = target
    BY <1>1, <2>1, <2>2, CallStep DEF olds, KeyStores
  <2>3. ASSUME NEW rel \in UsedModes,
               ui'.todo = {"move", "raise"} \cup
                          (IF rel # relative_mouse THEN {"mode", "zero"} ELSE {}),
               ui'.mode = rel, target' = IF rel THEN target + ui'.x ELSE ui'.x
        PROVE  AbsoluteInv'
    <3>1. rel = FALSE /\ relative_mouse = FALSE
      BY DEF AdbTypes
    <3> QED BY <2>1, <2>3, <3>1 DEF olds
  <2> QED BY <1>1, <2>2, <2>3, CallStep DEF KeyStores
<1>2. CASE UiProceeds /\ UNCHANGED setup
  <2>1. UNCHANGED <<olds, em, mac>> /\ LooksAgain'
    BY <1>2, UiLooks
  <2>2. DOMAIN Rank = {"buffer", "ptr", "matrix", "mode", "zero", "button", "move", "raise"}
    BY DEF Rank
  <2>3. CASE UiDoes("move") /\ StoreMouse /\ UNCHANGED <<keys, irq, target>>
    BY <2>1, <2>2, <2>3, UiStep DEF StoreMouse, olds
  <2>4. ASSUME NEW x \in DOMAIN Rank, UiDoes(x), x # "move",
               UNCHANGED <<relative_mouse, mouse_x, target>>
        PROVE  AbsoluteInv'
    BY <2>1, <2>4, UiStep DEF Done, olds
  <2>5. CASE (StoreBuffer \/ StorePtr \/ StoreMatrix) /\ UNCHANGED <<mouse, irq, target>>
    BY <2>2, <2>4, <2>5 DEF StoreBuffer, StorePtr, StoreMatrix, mouse
  <2>6. CASE StoreMouse /\ UNCHANGED <<keys, irq, target>>
    BY <2>2, <2>3, <2>4, <2>6, UiStep DEF StoreMouse
  <2>7. CASE Raise /\ UNCHANGED <<mouse, keys, target>>
    BY <2>2, <2>4, <2>7 DEF Raise, mouse
  <2> QED BY <1>2, <2>5, <2>6, <2>7 DEF UiProceeds
<1>3. CASE Irq \/ DebuggerPoll \/ KeyHandlerReturns \/ ADBInterruptReturns
  BY <1>3, PcStep, EmLooks DEF LooksAgain, olds, mouse, ADBInterrupt
<1>4. CASE Snapshot
  <2>1. em'.pc = "mouse" /\ em'.mx = mouse_x
    BY <1>4 DEF Snapshot
  <2> QED BY <1>4, <2>1, EmLooks DEF Snapshot, olds, ADBInterrupt
<1>5. CASE ReportMouse
  BY <1>5, MouseReported, EmLooks DEF ReportMouse, Moved, LooksAgain, ADBInterrupt, mouse
<1>6. CASE MouseHandlerReturns
  <2>1. em'.pc = "keys" /\ em.pc = "mouse_handler"
    BY <1>6 DEF MouseHandlerReturns, AdbTypes, EmRecords
  <2> QED BY <1>6, <2>1, EmLooks DEF MouseHandlerReturns, LooksAgain, ADBInterrupt, mouse
<1>7. CASE ReportKey
  <2>1. em'.pc = "key_handler" /\ em.pc = "keys"
    BY <1>7 DEF ReportKey, AdbTypes, EmRecords
  <2> QED BY <1>7, <2>1, KeyReported, EmLooks DEF ReportKey, LooksAgain, olds, mouse, ADBInterrupt
<1>8. CASE UNCHANGED <<setup, vars>>
  BY <1>8 DEF LooksAgain, vars, mouse, olds
<1> QED BY <1>1, <1>2, <1>3, <1>4, <1>5, <1>6, <1>7, <1>8 DEF AnyStep, ADBInterrupt

\* A motion that a packet can say is decoded as it was.
LEMMA SignedFits ==
  ASSUME NEW x \in -Half .. Half - 1
  PROVE  Signed(x) = x
<1>1. 2 * Half \in Nat \ {0} /\ x + Half \in Int /\ 0 <= x + Half /\ x + Half < 2 * Half
  BY AdbAssumption
<1>2. (x + Half) % (2 * Half) = x + Half
  <2> DEFINE N == 2 * Half
             a == x + Half
  <2>1. N \in Nat \ {0} /\ a \in Int /\ -N <= a /\ a < 2 * N /\ 0 <= a /\ a < N
    BY <1>1
  <2> HIDE DEF N, a
  <2>2. a % N = a
    BY <2>1, ModNear
  <2> QED BY <2>2 DEF N, a
<1> QED BY <1>1, <1>2, AdbAssumption DEF Signed

\* The positions are whole numbers.
LEMMA MotionInts ==
  ASSUME AdbTypes
  PROVE  /\ Positions \subseteq Int /\ target \in Int /\ mouse_x \in Int /\ ui.x \in Int
         /\ em.mx \in Int /\ mac.pos \in Int /\ MotionTodo \in Int
  BY AdbAssumption DEF AdbTypes, UiRecords, EmRecords, MacRecords, MotionTodo

\* ... of the motion, if it is relative: the UI thread adds to it,
LEMMA RelativeUiStep ==
  ASSUME AdbTypes, UsedModes \subseteq {TRUE}, RelativeInv,
         AnyCall \/ UiProceeds, UNCHANGED setup
  PROVE  RelativeInv'
<1> USE DEF RelativeInv, MotionTodo
<1>1. UNCHANGED <<olds, em, mac>> /\ LooksAgain'
  BY UiLooks
<1>2. CASE AnyCall
  <2>1. UNCHANGED <<relative_mouse, mouse_x>> /\ ui.todo = {}
        /\ target \in Positions /\ target' \in Positions
    BY <1>2, CallStep DEF mouse, AdbTypes
  <2>2. CASE ui'.todo \subseteq KeyStores \cup {"button", "raise"} /\ target' = target
    BY <1>1, <2>1, <2>2 DEF olds, KeyStores
  <2>3. ASSUME NEW rel \in UsedModes,
               ui'.todo = {"move", "raise"} \cup
                          (IF rel # relative_mouse THEN {"mode", "zero"} ELSE {}),
               ui'.mode = rel, target' = IF rel THEN target + ui'.x ELSE ui'.x
        PROVE  RelativeInv'
    <3>1. rel = TRUE /\ target' = target + ui'.x /\ ui'.mode = TRUE /\ relative_mouse \in BOOLEAN
      BY <2>3 DEF AdbTypes
    <3>2. ui'.x \in Int
      BY <1>2, CallStep DEF UiRecords
    <3>3. /\ "mode" \in ui'.todo <=> ~relative_mouse
          /\ "zero" \in ui'.todo <=> ~relative_mouse
          /\ "move" \in ui'.todo
      BY <2>3, <3>1
    <3>4. mouse_x = 0 \/ (relative_mouse /\ "zero" \notin ui'.todo)
      BY <3>3
    <3>5. MotionTodo = 0 /\ MotionTodo' = ui'.x
      BY <2>1, <3>3
    <3>6. target' - MotionTodo' = target
      BY <3>1, <3>2, <3>5, MotionInts
    <3>7. mac.pos + (IF em.pc = "mouse" THEN em.mx ELSE 0) + mouse_x + MotionTodo' = target'
      BY <3>1, <3>2, <3>5, MotionInts
    <3> HIDE DEF MotionTodo
    <3> QED BY <1>1, <2>1, <3>1, <3>3, <3>4, <3>6, <3>7 DEF olds
  <2> QED BY <1>2, <2>2, <2>3, CallStep DEF KeyStores
<1>3. CASE UiProceeds
  <2>1. DOMAIN Rank = {"buffer", "ptr", "matrix", "mode", "zero", "button", "move", "raise"}
    BY DEF Rank
  <2>2. CASE UiDoes("move") /\ StoreMouse /\ UNCHANGED target
    <3>1. /\ "move" \in ui.todo /\ ui.todo \subseteq {"move", "raise"}
          /\ ui'.todo = ui.todo \ {"move"}
      BY <2>1, <2>2, UiStep
    <3>2. mouse_x' = mouse_x + ui.x /\ relative_mouse' = relative_mouse /\ relative_mouse
      BY <2>1, <2>2, <3>1, UiStep DEF StoreMouse
    <3>3. MotionTodo = ui.x /\ MotionTodo' = 0
      BY <3>1
    <3>4. target' - MotionTodo' \in Positions /\ target \in Positions
      BY <2>2, <3>3, MotionInts DEF AdbTypes
    <3>5. mac.pos + (IF em.pc = "mouse" THEN em.mx ELSE 0) + mouse_x' + MotionTodo' = target
      BY <3>2, <3>3, MotionInts
    <3> HIDE DEF MotionTodo
    <3> QED BY <1>1, <2>2, <3>1, <3>2, <3>4, <3>5 DEF olds
  <2>3. CASE UiDoes("mode") /\ relative_mouse' = ui.mode /\ UNCHANGED <<mouse_x, target>>
    <3>1. /\ "mode" \in ui.todo /\ ui'.todo = ui.todo \ {"mode"}
          /\ ui'.x = ui.x /\ relative_mouse' = TRUE
      BY <2>1, <2>3, UiStep DEF AdbTypes, UiRecords
    <3> QED BY <1>1, <2>3, <3>1, MotionInts DEF olds
  <2>4. CASE UiDoes("zero") /\ mouse_x' = 0 /\ UNCHANGED <<relative_mouse, target>>
    <3>1. /\ "zero" \in ui.todo /\ ui'.todo = ui.todo \ {"zero"} /\ ui'.x = ui.x
          /\ ui'.mode = ui.mode /\ mouse_x = 0
      BY <2>1, <2>4, UiStep
    <3> QED BY <1>1, <2>4, <3>1, MotionInts DEF olds
  <2>5. ASSUME NEW x \in DOMAIN Rank, UiDoes(x), x \notin {"mode", "zero", "move"},
               UNCHANGED <<relative_mouse, mouse_x, target>>
        PROVE  RelativeInv'
    <3>1. CASE x = "raise"
      BY <1>1, <2>5, <3>1, UiStep, MotionInts DEF Done, olds
    <3>2. CASE x # "raise"
      BY <1>1, <2>5, <3>2, UiStep DEF olds
    <3> QED BY <3>1, <3>2
  <2>6. CASE (StoreBuffer \/ StorePtr \/ StoreMatrix) /\ UNCHANGED <<mouse, irq, target>>
    BY <2>1, <2>5, <2>6 DEF StoreBuffer, StorePtr, StoreMatrix, mouse
  <2>7. CASE StoreMouse /\ UNCHANGED <<keys, irq, target>>
    BY <2>1, <2>2, <2>3, <2>4, <2>5, <2>7 DEF StoreMouse
  <2>8. CASE Raise /\ UNCHANGED <<mouse, keys, target>>
    BY <2>1, <2>5, <2>8 DEF Raise, mouse
  <2> QED BY <1>3, <2>6, <2>7, <2>8 DEF UiProceeds
<1> QED BY <1>2, <1>3

\* ... and the emulator thread takes it out, report by report.
LEMMA RelativeStep ==
  ASSUME AdbTypes, UsedModes \subseteq {TRUE}, MotionFits, RelativeInv, [AnyStep]_<<setup, vars>>
  PROVE  RelativeInv'
<1> USE DEF RelativeInv, MotionTodo
<1>1. CASE (AnyCall \/ UiProceeds) /\ UNCHANGED setup
  BY <1>1, RelativeUiStep
<1>2. CASE Irq \/ DebuggerPoll \/ KeyHandlerReturns \/ ADBInterruptReturns
  <2>1. UNCHANGED <<relative_mouse, mouse_x, old_mouse_x, mac, ui, target>>
    BY <1>2, PcStep, EmLooks DEF olds, mouse, ADBInterrupt
  <2>2. LooksAgain => LooksAgain'
    BY <1>2, <2>1, PcStep DEF LooksAgain
  <2>3. (em.mx = 0 => em'.mx = 0) /\ em.pc # "mouse" /\ em'.pc # "mouse"
    BY <1>2, PcStep
  <2> QED BY <2>1, <2>2, <2>3
<1>3. CASE Snapshot
  <2>1. em'.pc = "mouse" /\ em'.mx = mouse_x /\ em.pc = "snapshot"
        /\ mouse_x' = IF relative_mouse THEN 0 ELSE mouse_x
    BY <1>3 DEF Snapshot
  <2>2. mouse_x' = 0 /\ UNCHANGED <<relative_mouse, old_mouse_x, mac, ui, target>>
    BY <1>3, <2>1, EmLooks DEF Snapshot, olds, ADBInterrupt
  <2> QED BY <2>1, <2>2, MotionInts
<1>4. CASE ReportMouse
  <2>1. em.pc = "mouse" /\ em'.pc # "mouse" /\ em'.mx = em.mx
        /\ UNCHANGED <<relative_mouse, mouse_x, ui, target, irq>>
    BY <1>4, MouseReported, EmLooks DEF ReportMouse, ADBInterrupt, mouse
  <2>2. mac'.pos = mac.pos + em.mx /\ old_mouse_x' = 0
    <3>1. em.mx \in -Half .. Half - 1 /\ mac.pos \in Int
      <4>1. (mac.pos + em.mx) - mac.pos \in -Half .. Half - 1
        BY <2>1 DEF MotionFits
      <4> QED BY <4>1, MotionInts
    <3>2. Signed(em.mx) = em.mx
      BY <3>1, SignedFits
    <3> QED BY <1>4, <3>1, <3>2, MouseReported DEF Moved
  <2> QED BY <2>1, <2>2, MotionInts DEF LooksAgain
<1>5. CASE MouseHandlerReturns
  <2>1. em'.pc = "keys" /\ em.pc = "mouse_handler" /\ em'.mx = em.mx
    BY <1>5 DEF MouseHandlerReturns, AdbTypes, EmRecords
  <2> QED BY <1>5, <2>1, EmLooks DEF MouseHandlerReturns, LooksAgain, ADBInterrupt, mouse
<1>6. CASE ReportKey
  <2>1. em'.pc = "key_handler" /\ em.pc = "keys" /\ em'.mx = em.mx
    BY <1>6 DEF ReportKey, AdbTypes, EmRecords
  <2> QED BY <1>6, <2>1, KeyReported, EmLooks DEF ReportKey, LooksAgain, olds, mouse, ADBInterrupt
<1>7. CASE UNCHANGED <<setup, vars>>
  BY <1>7 DEF LooksAgain, vars, mouse, olds
<1> QED BY <1>1, <1>2, <1>3, <1>4, <1>5, <1>6, <1>7 DEF AnyStep, ADBInterrupt

-----------------------------------------------------------------------------
\* The ring as a queue.

\* A key event is typed.
LEMMA TypedLeads ==
  ASSUME NEW told, NEW q \in Seq(Events), NEW down, NEW e \in Events, Leads(told, q, down)
  PROVE  Leads(told, Append(q, e), After(e, down))
<1> DEFINE a == Append(q, e)
<1>1. /\ DOMAIN a = 1 .. Len(q) + 1 /\ DOMAIN q = 1 .. Len(q) /\ Len(q) \in Nat
      /\ \A n \in 1 .. Len(q) : a[n] = q[n]
      /\ a[Len(q) + 1] = e
  OBVIOUS
<1> HIDE DEF a
<1>2. ASSUME NEW k \in Keys, k # e.code
      PROVE  k \in After(e, down) <=> k \in down
  BY <1>2 DEF After
<1>3. e.code \in After(e, down) <=> ~e.up
  BY DEF After, Events
<1>4. ASSUME NEW k \in Keys, \A n \in DOMAIN a : a[n].code # k
      PROVE  k \in told <=> k \in After(e, down)
  BY <1>1, <1>2, <1>4 DEF Leads
<1>5. ASSUME NEW k \in Keys, NEW n \in DOMAIN a, LastOf(a, k, n)
      PROVE  k \in After(e, down) <=> ~a[n].up
  <2>1. CASE n = Len(q) + 1
    BY <1>1, <1>3, <1>5, <2>1 DEF LastOf
  <2>2. CASE n # Len(q) + 1
    <3>1. n \in 1 .. Len(q) /\ Len(q) + 1 > n
      BY <1>1, <2>2
    <3>2. k # e.code
      BY <1>1, <1>5, <3>1 DEF LastOf
    <3>3. LastOf(q, k, n)
      BY <1>1, <1>5, <3>1 DEF LastOf
    <3> QED BY <1>1, <1>2, <3>1, <3>2, <3>3 DEF Leads
  <2> QED BY <2>1, <2>2
<1> QED BY <1>4, <1>5 DEF Leads, a

\* A key event is reported.
LEMMA ToldLeads ==
  ASSUME NEW told, NEW q \in Seq(Events), NEW down, q # <<>>, Leads(told, q, down)
  PROVE  Leads(After(Head(q), told), Tail(q), down)
<1> DEFINE t == Tail(q)
           e == Head(q)
<1>1. /\ DOMAIN t = 1 .. Len(q) - 1 /\ DOMAIN q = 1 .. Len(q) /\ Len(q) \in Nat /\ Len(q) > 0
      /\ \A n \in 1 .. Len(q) - 1 : t[n] = q[n + 1]
      /\ q[1] = e /\ e \in Events
  OBVIOUS
<1> HIDE DEF t, e
<1>2. ASSUME NEW k \in Keys, \A n \in DOMAIN t : t[n].code # k
      PROVE  k \in After(e, told) <=> k \in down
  <2>1. \A n \in 2 .. Len(q) : q[n].code # k
    <3>1. ASSUME NEW n \in 2 .. Len(q)
          PROVE  q[n].code # k
      <4>1. n - 1 \in 1 .. Len(q) - 1 /\ (n - 1) + 1 = n
        BY <1>1
      <4> QED BY <1>1, <1>2, <4>1
    <3> QED BY <3>1
  <2>2. CASE e.code = k
    <3>1. LastOf(q, k, 1)
      BY <1>1, <2>1, <2>2 DEF LastOf
    <3>2. k \in down <=> ~e.up
      BY <1>1, <3>1 DEF Leads
    <3> QED BY <2>2, <3>2 DEF After
  <2>3. CASE e.code # k
    <3>1. \A n \in DOMAIN q : q[n].code # k
      BY <1>1, <2>1, <2>3
    <3> QED BY <2>3, <3>1 DEF Leads, After
  <2> QED BY <2>2, <2>3
<1>3. ASSUME NEW k \in Keys, NEW n \in DOMAIN t, LastOf(t, k, n)
      PROVE  k \in down <=> ~t[n].up
  <2>1. n + 1 \in DOMAIN q /\ t[n] = q[n + 1]
    BY <1>1
  <2>2. ASSUME NEW m \in DOMAIN q, m > n + 1
        PROVE  q[m].code # k
    <3>1. m - 1 \in DOMAIN t /\ m - 1 > n /\ (m - 1) + 1 = m
      BY <1>1, <2>2
    <3> QED BY <1>1, <1>3, <3>1 DEF LastOf
  <2>3. LastOf(q, k, n + 1)
    BY <1>3, <2>1, <2>2 DEF LastOf
  <2> QED BY <2>1, <2>3 DEF Leads
<1> QED BY <1>2, <1>3 DEF Leads, t, e

Used(r, w) == (w - r) % KEY_BUFFER_SIZE
Slot(r, n) == (r + n - 1) % KEY_BUFFER_SIZE
NextOf(i) == (i + 1) % KEY_BUFFER_SIZE

\* The ring has a size.
LEMMA SizeInt == KEY_BUFFER_SIZE \in Nat \ {0}
BY AdbAssumption

\* A ring that is read at r and written at w: how many slots are used, which ones, and
\* how the pointers move.
LEMMA KeyRing ==
  ASSUME NEW r \in Index, NEW w \in Index
  PROVE  /\ Used(r, w) \in Nat /\ Used(r, w) < KEY_BUFFER_SIZE /\ (Used(r, w) = 0 <=> w = r)
         /\ NextOf(r) \in Index
         /\ Slot(r, Used(r, w) + 1) = w /\ Slot(r, 1) = r
         /\ \A n \in 1 .. Used(r, w) : Slot(r, n) \in Index /\ Slot(r, n) # w
         /\ Used(r, w) < KEY_BUFFER_SIZE - 1 => Used(r, NextOf(w)) = Used(r, w) + 1
         /\ w # r => /\ Used(NextOf(r), w) = Used(r, w) - 1
                     /\ \A n \in 1 .. Used(r, w) - 1 : Slot(NextOf(r), n) = Slot(r, n + 1)
<1> DEFINE N == KEY_BUFFER_SIZE
           p == Used(r, w)
<1>1. /\ N \in Nat \ {0} /\ r \in 0 .. N - 1 /\ w \in 0 .. N - 1
      /\ Index = 0 .. N - 1
  BY AdbAssumption DEF Index
<1>2. ASSUME NEW a \in -N .. 2 * N - 1
      PROVE  a % N = IF a < 0 THEN a + N ELSE IF a < N THEN a ELSE a - N
  <2>1. a \in Int /\ -N <= a /\ a < 2 * N
    BY <1>1
  <2> QED BY <1>1, <2>1, ModNear
<1>3. ASSUME NEW i \in 0 .. N - 1, NEW j \in 0 .. N - 1
      PROVE  Used(i, j) = IF j < i THEN j - i + N ELSE j - i
  <2>1. j - i \in -N .. 2 * N - 1
    BY <1>1
  <2>2. (j - i) % N = IF j - i < 0 THEN j - i + N ELSE IF j - i < N THEN j - i ELSE j - i - N
    BY <1>2, <2>1, Zenon
  <2>3. (j - i) % N = IF j < i THEN j - i + N ELSE j - i
    BY <1>1, <2>2
  <2> QED BY <2>3, Zenon DEF Used
<1>4. ASSUME NEW i \in 0 .. N - 1, NEW n \in 1 .. N
      PROVE  Slot(i, n) = IF i + n - 1 < N THEN i + n - 1 ELSE i + n - 1 - N
  <2> DEFINE a == i + n - 1
  <2>2. a \in -N .. 2 * N - 1 /\ 0 <= a /\ a \in Int
    BY <1>1
  <2> HIDE DEF a
  <2>3. a % N = IF a < 0 THEN a + N ELSE IF a < N THEN a ELSE a - N
    BY <1>2, <2>2
  <2>4. a % N = IF a < N THEN a ELSE a - N
    BY <1>1, <2>2, <2>3
  <2>5. Slot(i, n) = a % N
    BY DEF Slot, a
  <2>6. Slot(i, n) = IF a < N THEN a ELSE a - N
    BY <2>4, <2>5
  <2> QED BY <1>1, <2>6 DEF a
<1>5. ASSUME NEW i \in 0 .. N - 1
      PROVE  NextOf(i) = IF i = N - 1 THEN 0 ELSE i + 1
  <2> DEFINE a == i + 1
  <2>1. a \in -N .. 2 * N - 1 /\ 0 <= a /\ a <= N /\ (a = N <=> i = N - 1) /\ a \in Int
    BY <1>1
  <2> HIDE DEF a
  <2>2. a % N = IF i = N - 1 THEN 0 ELSE a
    BY <1>1, <1>2, <2>1
  <2> QED BY <2>2, Zenon DEF NextOf, a
<1> HIDE DEF N, p
<1>6. NextOf(r) \in 0 .. N - 1 /\ NextOf(w) \in 0 .. N - 1
  BY <1>1, <1>5
<1>13. p = IF w < r THEN w - r + N ELSE w - r
  BY <1>1, <1>3 DEF p
<1>7. p \in Nat /\ p < N /\ (p = 0 <=> w = r)
  BY <1>1, <1>13
<1>8. Slot(r, p + 1) = w /\ Slot(r, 1) = r
  BY <1>1, <1>4, <1>7, <1>13
<1>9. ASSUME NEW n \in 1 .. p
      PROVE  Slot(r, n) \in 0 .. N - 1 /\ Slot(r, n) # w
  <2>1. n \in 1 .. N
    BY <1>1, <1>7
  <2>2. Slot(r, n) = IF r + n - 1 < N THEN r + n - 1 ELSE r + n - 1 - N
    BY <1>1, <1>4, <2>1
  <2> QED BY <1>1, <1>7, <1>13, <2>1, <2>2
<1>10. ASSUME p < N - 1
       PROVE  Used(r, NextOf(w)) = p + 1
  <2>1. NextOf(w) = IF w = N - 1 THEN 0 ELSE w + 1
    BY <1>1, <1>5
  <2>2. Used(r, NextOf(w)) = IF NextOf(w) < r THEN NextOf(w) - r + N ELSE NextOf(w) - r
    BY <1>1, <1>3, <1>6
  <2> QED BY <1>1, <1>13, <1>10, <2>1, <2>2
<1>11. ASSUME w # r
       PROVE  Used(NextOf(r), w) = p - 1
  <2>1. NextOf(r) = IF r = N - 1 THEN 0 ELSE r + 1
    BY <1>1, <1>5
  <2>2. Used(NextOf(r), w) = IF w < NextOf(r) THEN w - NextOf(r) + N ELSE w - NextOf(r)
    BY <1>1, <1>3, <1>6
  <2> QED BY <1>1, <1>13, <1>11, <2>1, <2>2
<1>12. ASSUME w # r, NEW n \in 1 .. p - 1
       PROVE  Slot(NextOf(r), n) = Slot(r, n + 1)
  <2>1. n \in 1 .. N /\ n + 1 \in 1 .. N
    BY <1>1, <1>7
  <2>2. Slot(NextOf(r), n) = IF NextOf(r) + n - 1 < N THEN NextOf(r) + n - 1
                                                     ELSE NextOf(r) + n - 1 - N
    BY <1>4, <1>6, <2>1
  <2>3. Slot(r, n + 1) = IF r + (n + 1) - 1 < N THEN r + (n + 1) - 1 ELSE r + (n + 1) - 1 - N
    BY <1>1, <1>4, <2>1
  <2>4. NextOf(r) = IF r = N - 1 THEN 0 ELSE r + 1
    BY <1>1, <1>5
  <2> QED BY <1>1, <2>1, <2>2, <2>3, <2>4
<1> QED BY <1>1, <1>6, <1>7, <1>8, <1>9, <1>10, <1>11, <1>12 DEF N, p

Cells == Events \cup {NoEvent}
KeyBuffers == [Index -> Cells]

QueueOf(b, r, w) == [n \in 1 .. Used(r, w) |-> b[Slot(r, n)]]

\* The ring from r up to w, read as a sequence: its length and its elements.
LEMMA QueueIsSeq ==
  ASSUME NEW b \in KeyBuffers, NEW r \in Index, NEW w \in Index
  PROVE  /\ QueueOf(b, r, w) \in Seq(Cells) /\ Len(QueueOf(b, r, w)) = Used(r, w)
         /\ \A n \in 1 .. Used(r, w) : QueueOf(b, r, w)[n] = b[Slot(r, n)]
         /\ QueueOf(b, r, w) = <<>> <=> r = w
<1> DEFINE q == QueueOf(b, r, w)
<1>1. Used(r, w) \in Nat
  BY KeyRing, SizeInt
<1>2. \A n \in 1 .. Used(r, w) : b[Slot(r, n)] \in Cells
  BY KeyRing DEF KeyBuffers
<1>3. q = [n \in 1 .. Used(r, w) |-> b[Slot(r, n)]]
  BY DEF QueueOf
<1> HIDE DEF q
<1>4. q \in Seq(Cells) /\ Len(q) = Used(r, w) /\ \A n \in 1 .. Used(r, w) : q[n] = b[Slot(r, n)]
  BY <1>1, <1>2, <1>3
<1>5. q = <<>> <=> Used(r, w) = 0
  BY <1>4
<1>6. Used(r, w) = 0 <=> w = r
  BY KeyRing
<1> QED BY <1>4, <1>5, <1>6 DEF q

\* Moving the write pointer appends the event that was stored there.
LEMMA QueueAppends ==
  ASSUME NEW b \in KeyBuffers, NEW r \in Index, NEW w \in Index,
         Used(r, w) < KEY_BUFFER_SIZE - 1
  PROVE  QueueOf(b, r, NextOf(w)) = Append(QueueOf(b, r, w), b[w])
<1> DEFINE p == Used(r, w)
           q == QueueOf(b, r, w)
           a == QueueOf(b, r, NextOf(w))
<1>6. NextOf(w) \in Index
  BY KeyRing
<1>1. /\ Used(r, NextOf(w)) = p + 1 /\ p \in Nat /\ NextOf(w) \in Index
      /\ Slot(r, p + 1) = w /\ b[w] \in Cells
  BY <1>6, KeyRing, SizeInt DEF KeyBuffers
<1>2. q \in Seq(Cells) /\ Len(q) = p /\ \A n \in 1 .. p : q[n] = b[Slot(r, n)]
  BY QueueIsSeq
<1>3. a \in Seq(Cells) /\ Len(a) = p + 1 /\ \A n \in 1 .. p + 1 : a[n] = b[Slot(r, n)]
  BY <1>1, QueueIsSeq
<1> HIDE DEF p, q, a
<1>4. a[p + 1] = b[w] /\ \A n \in 1 .. p : a[n] = q[n]
  BY <1>1, <1>2, <1>3
<1>5. a = Append(q, b[w])
  BY <1>1, <1>2, <1>3, <1>4
<1> QED BY <1>5 DEF a, q

\* Moving the read pointer takes the oldest event.
LEMMA QueueShrinks ==
  ASSUME NEW b \in KeyBuffers, NEW r \in Index, NEW w \in Index, r # w
  PROVE  /\ QueueOf(b, r, w) # <<>> /\ Head(QueueOf(b, r, w)) = b[r]
         /\ QueueOf(b, NextOf(r), w) = Tail(QueueOf(b, r, w))
<1> DEFINE p == Used(r, w)
           q == QueueOf(b, r, w)
           t == QueueOf(b, NextOf(r), w)
<1>1. /\ Used(NextOf(r), w) = p - 1 /\ p \in Nat /\ p # 0 /\ NextOf(r) \in Index
      /\ Slot(r, 1) = r /\ \A n \in 1 .. p - 1 : Slot(NextOf(r), n) = Slot(r, n + 1)
  BY KeyRing, SizeInt DEF KeyBuffers
<1>2. q \in Seq(Cells) /\ Len(q) = p /\ \A n \in 1 .. p : q[n] = b[Slot(r, n)]
  BY QueueIsSeq
<1>3. t \in Seq(Cells) /\ Len(t) = p - 1 /\ \A n \in 1 .. p - 1 : t[n] = b[Slot(NextOf(r), n)]
  BY <1>1, QueueIsSeq
<1> HIDE DEF p, q, t
<1>4. \A n \in 1 .. p - 1 : n + 1 \in 1 .. p /\ t[n] = q[n + 1]
  BY <1>1, <1>2, <1>3
<1>5. q # <<>> /\ Head(q) = b[r]
  BY <1>1, <1>2
<1>6. t = Tail(q)
  BY <1>1, <1>2, <1>3, <1>4
<1> QED BY <1>5, <1>6 DEF q, t

\* A store at the write pointer changes nothing that is in the ring.
LEMMA QueueKeeps ==
  ASSUME NEW b \in KeyBuffers, NEW r \in Index, NEW w \in Index, NEW e \in Cells
  PROVE  QueueOf([b EXCEPT ![w] = e], r, w) = QueueOf(b, r, w)
<1>1. \A n \in 1 .. Used(r, w) : Slot(r, n) \in Index /\ Slot(r, n) # w
  BY KeyRing
<1>2. \A n \in 1 .. Used(r, w) : [b EXCEPT ![w] = e][Slot(r, n)] = b[Slot(r, n)]
  BY <1>1 DEF KeyBuffers
<1> QED BY <1>2 DEF QueueOf

-----------------------------------------------------------------------------
\* What the steps do to the queue.

\* The queue of a state and of the next one.
LEMMA QueueIs ==
  ASSUME AdbTypes
  PROVE  /\ Queue = QueueOf(key_buffer, key_read_ptr, key_write_ptr)
         /\ Queue' = QueueOf(key_buffer', key_read_ptr', key_write_ptr')
         /\ Pending = Used(key_read_ptr, key_write_ptr)
         /\ Pending' = Used(key_read_ptr', key_write_ptr')
         /\ key_buffer \in KeyBuffers /\ key_read_ptr \in Index /\ key_write_ptr \in Index
         /\ Pending \in Nat
<1>1. key_buffer \in KeyBuffers /\ key_read_ptr \in Index /\ key_write_ptr \in Index
  BY DEF AdbTypes, KeyBuffers, Cells
<1>2. Pending = Used(key_read_ptr, key_write_ptr) /\ Pending' = Used(key_read_ptr', key_write_ptr')
  BY DEF Pending, Used
<1>3. /\ Queue = QueueOf(key_buffer, key_read_ptr, key_write_ptr)
      /\ Queue' = QueueOf(key_buffer', key_read_ptr', key_write_ptr')
  BY DEF Queue, QueueOf, Pending, Used, Slot
<1> QED BY <1>1, <1>2, <1>3, KeyRing

\* An event gets into the queue when the write pointer moves.
LEMMA PtrAppends ==
  ASSUME AdbTypes, RingInv, KeysInOrder, StorePtr
  PROVE  /\ ui.event \in Events /\ Queue' = Append(Queue, ui.event) /\ Pending' = Pending + 1
         /\ InRing = key_states /\ ui.todo \cap KeyStores = {"ptr", "matrix"}
         /\ ui'.todo = ui.todo \ {"ptr"} /\ ui'.event = ui.event /\ "raise" \in ui'.todo
<1>1. "ptr" \in DOMAIN Rank /\ UiDoes("ptr")
  BY DEF Rank, StorePtr
<1>2. /\ "ptr" \in ui.todo /\ "matrix" \in ui.todo /\ ui.at = key_write_ptr /\ Pending < MaxPending
      /\ ui'.todo = ui.todo \ {"ptr"} /\ ui'.event = ui.event /\ "raise" \in ui'.todo
  BY <1>1, UiStep DEF RingInv
<1>3. Ordered /\ MaxPending < KEY_BUFFER_SIZE /\ MaxPending \in Nat
  BY <1>2, SetupFacts DEF RingInv, KeysInOrder, KeyStores, AdbTypes
<1>4. "buffer" \notin ui.todo
  BY <1>1, <1>3, UiStep
<1>5. key_buffer[key_write_ptr] = ui.event /\ ui.event \in Events
  BY <1>2, <1>4 DEF RingInv, AdbTypes, OneCall
<1>6. Pending < KEY_BUFFER_SIZE - 1
  BY <1>2, <1>3, QueueIs, SizeInt
<1>7. /\ key_write_ptr' = NextOf(key_write_ptr)
      /\ UNCHANGED <<key_buffer, key_read_ptr>>
  BY <1>2 DEF StorePtr, UiDoes, NextOf
<1>8. Queue' = Append(Queue, ui.event)
  BY <1>5, <1>6, <1>7, QueueIs, QueueAppends
<1>9. Pending' = Pending + 1
  BY <1>6, <1>7, QueueIs, KeyRing, SizeInt
<1> QED BY <1>2, <1>4, <1>5, <1>8, <1>9 DEF InRing, KeyStores

\* An event leaves it when it is reported to the Mac.
LEMMA ReportShrinks ==
  ASSUME AdbTypes, ReportKey
  PROVE  /\ Queue # <<>> /\ Queue' = Tail(Queue) /\ Pending' = Pending - 1
         /\ mac'.keys = After(Head(Queue), mac.keys)
         /\ mac'.last = Head(Queue) /\ mac'.flip = ~mac.flip
         /\ em'.pc = "key_handler" /\ em.pc = "keys"
<1>1. key_read_ptr # key_write_ptr /\ key_read_ptr' = NextOf(key_read_ptr)
      /\ UNCHANGED <<key_buffer, key_write_ptr>>
  BY DEF ReportKey, NextOf, EmStep, keys
<1>2. Queue # <<>> /\ Head(Queue) = key_buffer[key_read_ptr] /\ Queue' = Tail(Queue)
  BY <1>1, QueueIs, QueueShrinks
<1>3. Pending' = Pending - 1
  BY <1>1, QueueIs, KeyRing
<1>4. em'.pc = "key_handler" /\ em.pc = "keys"
  BY DEF ReportKey, AdbTypes, EmRecords
<1> QED BY <1>2, <1>3, <1>4, KeyReported DEF After

\* The other steps.
OtherStep ==
  \/ AnyCall
  \/ UiProceeds /\ ~StorePtr
  \/ Irq \/ DebuggerPoll \/ (ADBInterrupt /\ ~ReportKey)

\* No other step changes the queue or the keys that the Mac holds.
LEMMA OthersKeep ==
  ASSUME AdbTypes, RingInv, OtherStep, UNCHANGED setup
  PROVE  Queue' = Queue /\ Pending' = Pending /\ UNCHANGED <<mac.keys, mac.last, mac.flip>>
<1>1. ASSUME UNCHANGED <<key_buffer, key_read_ptr, key_write_ptr>>
      PROVE  Queue' = Queue /\ Pending' = Pending
  BY <1>1, QueueIs
<1>2. CASE AnyCall
  BY <1>1, <1>2, CallStep DEF keys
<1>3. CASE UiProceeds /\ ~StorePtr
  <2>1. UNCHANGED <<key_read_ptr, mac>>
    BY <1>3, UiLooks
  <2>2. CASE StoreBuffer
    <3>1. "buffer" \in DOMAIN Rank /\ UiDoes("buffer")
      BY <2>2 DEF Rank, StoreBuffer
    <3>2. ui.at = key_write_ptr /\ ui.event \in Events
      BY <3>1, UiStep DEF RingInv, AdbTypes, OneCall
    <3>3. key_buffer' = [key_buffer EXCEPT ![key_write_ptr] = ui.event] /\ UNCHANGED key_write_ptr
      BY <2>2, <3>2 DEF StoreBuffer
    <3>4. ui.event \in Cells
      BY <3>2 DEF Cells
    <3> QED BY <2>1, <3>3, <3>4, QueueIs, QueueKeeps
  <2>3. CASE ~StoreBuffer
    BY <1>1, <1>3, <2>1, <2>3 DEF UiProceeds, StoreMatrix, keys
  <2> QED BY <2>1, <2>2, <2>3
<1>4. CASE Irq \/ DebuggerPoll \/ KeyHandlerReturns \/ ADBInterruptReturns
  BY <1>1, <1>4, PcStep, EmLooks DEF keys, ADBInterrupt
<1>5. CASE Snapshot \/ MouseHandlerReturns
  BY <1>1, <1>5, EmLooks DEF Snapshot, MouseHandlerReturns, keys, ADBInterrupt
<1>6. CASE ReportMouse
  BY <1>1, <1>6, EmLooks, MouseReported DEF ReportMouse, keys, ADBInterrupt
<1> QED BY <1>2, <1>3, <1>4, <1>5, <1>6 DEF OtherStep, ADBInterrupt

\* A call of the UI thread keeps the ring and the matrix of keys in step.
LEMMA RingUiStep ==
  ASSUME AdbTypes, RingInv, KeysInOrder, AnyCall \/ UiProceeds, UNCHANGED setup
  PROVE  RingInv'
<1>1. UNCHANGED <<key_read_ptr, mac>>
  BY UiLooks
<1>2. UNCHANGED MaxPending
  BY DEF MaxPending
<1>3. irq' \/ em'.pc # "idle" \/ "raise" \in ui'.todo
  BY UiLooks DEF LooksAgain
<1>4. CASE ~StorePtr
  <2>1. Queue' = Queue /\ Pending' = Pending
    BY <1>4, OthersKeep DEF OtherStep
  <2>2. CASE AnyCall
    <3>1. ui.todo = {} /\ UNCHANGED <<key_write_ptr, key_states>>
      BY <2>2, CallStep DEF keys
    <3>2. InRing' = InRing
      BY <2>2, <3>1, CallStep DEF InRing
    <3>3. CASE ui'.todo = {"buffer", "ptr", "matrix", "raise"}
      <4>1. setup.keys # {} /\ ui'.at = key_write_ptr /\ Pending < MaxPending
        BY <2>2, <3>3, CallStep
      <4> QED BY <3>3, <4>1, <3>2, <3>1, <2>1, <1>1, <1>2, <1>3 DEF RingInv
    <3>4. CASE ui'.todo \cap KeyStores = {}
      BY <3>4, <3>2, <3>1, <2>1, <1>1, <1>2, <1>3 DEF RingInv, KeyStores
    <3> QED BY <2>2, <3>3, <3>4, CallStep DEF KeyStores
  <2>3. CASE StoreBuffer
    <3>1. "buffer" \in DOMAIN Rank /\ UiDoes("buffer")
      BY <2>3 DEF Rank, StoreBuffer
    <3>2. /\ "ptr" \in ui.todo /\ ui.at = key_write_ptr /\ ui.at \in Index
          /\ ui'.todo = ui.todo \ {"buffer"} /\ ui'.event = ui.event /\ ui'.at = ui.at
      BY <3>1, UiStep DEF RingInv, AdbTypes, UiRecords
    <3>3. key_buffer'[ui.at] = ui.event /\ UNCHANGED <<key_write_ptr, key_states>>
      BY <2>3, <3>2 DEF StoreBuffer, AdbTypes
    <3>4. InRing' = InRing
      BY <3>2, <3>3 DEF InRing
    <3> QED BY <3>2, <3>3, <3>4, <2>1, <1>1, <1>2, <1>3 DEF RingInv
  <2>4. CASE StoreMatrix
    <3>1. "matrix" \in DOMAIN Rank /\ UiDoes("matrix")
      BY <2>4 DEF Rank, StoreMatrix
    <3>2. /\ "matrix" \in ui.todo
          /\ ui'.todo = ui.todo \ {"matrix"} /\ ui'.event = ui.event /\ ui'.at = ui.at
      BY <3>1, UiStep
    <3>3. Ordered
      BY <3>2, SetupFacts DEF RingInv, KeysInOrder, KeyStores, AdbTypes
    <3>4. ui.todo \cap {"buffer", "ptr"} = {}
      BY <3>1, <3>3, UiStep
    <3>5. key_states' = After(ui.event, key_states) /\ UNCHANGED <<key_buffer, key_write_ptr>>
      BY <2>4 DEF StoreMatrix, After
    <3>6. InRing' = InRing
      BY <3>2, <3>4, <3>5 DEF InRing
    <3> QED BY <3>2, <3>4, <3>5, <3>6, <2>1, <1>1, <1>2, <1>3 DEF RingInv
  <2>5. CASE UNCHANGED keys /\ \E x \in DOMAIN Rank : UiDoes(x) /\ x \notin KeyStores
    <3>1. PICK x \in DOMAIN Rank : UiDoes(x) /\ x \notin KeyStores
      BY <2>5
    <3>2. CASE x = "raise"
      <4>1. ui.todo = {"raise"} /\ ui'.todo = {}
        BY <3>1, <3>2, UiStep DEF Done
      <4>2. InRing' = InRing
        BY <2>5, <4>1 DEF InRing, keys
      <4> QED BY <2>5, <4>1, <4>2, <2>1, <1>1, <1>2, <1>3 DEF RingInv, keys
    <3>3. CASE x # "raise"
      <4>1. /\ x \notin {"buffer", "ptr", "matrix"} /\ ui'.todo = ui.todo \ {x}
            /\ ui'.event = ui.event /\ ui'.at = ui.at
        BY <3>1, <3>3, UiStep DEF KeyStores
      <4>2. InRing' = InRing
        BY <2>5, <4>1 DEF InRing, keys
      <4> QED BY <2>5, <4>1, <4>2, <2>1, <1>1, <1>2, <1>3 DEF RingInv, keys
    <3> QED BY <3>2, <3>3
  <2>6. DOMAIN Rank = {"buffer", "ptr", "matrix", "mode", "zero", "button", "move", "raise"}
    BY DEF Rank
  <2>7. CASE StoreMouse /\ UNCHANGED <<keys, irq, target>>
    BY <2>5, <2>6, <2>7 DEF StoreMouse, KeyStores
  <2>8. CASE Raise /\ UNCHANGED <<mouse, keys, target>>
    BY <2>5, <2>6, <2>8 DEF Raise, KeyStores
  <2> QED BY <1>4, <2>2, <2>3, <2>4, <2>7, <2>8 DEF UiProceeds
<1>5. CASE StorePtr
  <2>1. UNCHANGED <<key_buffer, key_states>>
    BY <1>5 DEF StorePtr
  <2>2. InRing' = After(ui.event, key_states)
    BY <1>5, <2>1, PtrAppends DEF InRing, KeyStores, After
  <2>3. Leads(mac.keys, Queue', InRing')
    <3>1. InRing = key_states /\ ui.event \in Events /\ Queue' = Append(Queue, ui.event)
      BY <1>5, PtrAppends
    <3>2. Leads(mac.keys, Queue, key_states) /\ Queue \in Seq(Events)
      BY <3>1 DEF RingInv
    <3>3. Leads(mac.keys, Append(Queue, ui.event), After(ui.event, key_states))
      BY <3>1, <3>2, TypedLeads
    <3> QED BY <3>1, <3>3, <2>2
  <2>4. Queue' \in Seq(Events)
    BY <1>5, PtrAppends DEF RingInv
  <2>5. ui'.todo \cap KeyStores = {"matrix"} /\ setup.keys # {}
    BY <1>5, PtrAppends DEF KeyStores, RingInv
  <2> QED BY <2>3, <2>4, <2>5, <1>1, <1>3 DEF RingInv, KeyStores
<1> QED BY <1>4, <1>5

\* Every step keeps them in step.
LEMMA RingStep ==
  ASSUME AdbTypes, RingInv, KeysInOrder, [AnyStep]_<<setup, vars>>
  PROVE  RingInv'
<1>1. CASE (AnyCall \/ UiProceeds) /\ UNCHANGED setup
  BY <1>1, RingUiStep
<1>2. CASE (Irq \/ DebuggerPoll \/ ADBInterrupt) /\ UNCHANGED setup
  <2>1. UNCHANGED <<ui, key_write_ptr, key_states, key_buffer, MaxPending, InRing>>
    BY <1>2, EmLooks DEF keys, MaxPending, InRing
  <2>2. CASE ReportKey
    <3>1. Leads(mac'.keys, Queue', InRing)
      BY <2>2, ReportShrinks, ToldLeads DEF RingInv
    <3>2. Queue' \in Seq(Events) /\ Head(Queue) \in Events
      BY <2>2, ReportShrinks DEF RingInv
    <3>3. mac'.keys \subseteq Keys
      BY <2>2, <3>2, ReportShrinks DEF RingInv, After, Events
    <3>4. Pending' = Pending - 1 /\ em'.pc # "idle" /\ MaxPending \in Int /\ Pending \in Int
      BY <2>2, ReportShrinks, QueueIs, SetupFacts DEF AdbTypes
    <3>5. Pending < MaxPending => Pending' < MaxPending
      BY <3>4
    <3> QED BY <1>2, <2>1, <3>1, <3>2, <3>3, <3>4, <3>5 DEF RingInv
  <2>3. CASE ~ReportKey
    <3>1. Queue' = Queue /\ Pending' = Pending /\ mac'.keys = mac.keys
      BY <1>2, <2>3, OthersKeep DEF OtherStep
    <3>2. UNCHANGED key_read_ptr
      BY <1>2, <2>3 DEF Irq, DebuggerPoll, ADBInterrupt, Snapshot, ReportMouse,
        MouseHandlerReturns, KeyHandlerReturns, ADBInterruptReturns
    <3>3. key_read_ptr # key_write_ptr /\ ~irq' /\ "raise" \notin ui.todo => em'.pc # "idle"
      <4>1. CASE Irq \/ DebuggerPoll
        BY <4>1, PcStep
      <4>2. CASE ADBInterruptReturns
        BY <4>2 DEF ADBInterruptReturns
      <4>3. CASE Snapshot \/ MouseHandlerReturns \/ KeyHandlerReturns
        BY <4>3 DEF Snapshot, MouseHandlerReturns, KeyHandlerReturns, AdbTypes, EmRecords
      <4>4. CASE ReportMouse
        BY <4>4, MouseReported
      <4> QED BY <1>2, <2>3, <4>1, <4>2, <4>3, <4>4 DEF ADBInterrupt
    <3> QED BY <1>2, <2>1, <3>1, <3>2, <3>3 DEF RingInv
  <2> QED BY <2>2, <2>3
<1>3. CASE UNCHANGED <<setup, vars>>
  <2>1. Queue' = Queue /\ Pending' = Pending
    BY <1>3 DEF Queue, Pending, vars, keys
  <2> QED BY <1>3, <2>1 DEF RingInv, InRing, MaxPending, vars, keys
<1> QED BY <1>1, <1>2, <1>3 DEF AnyStep

-----------------------------------------------------------------------------
\* The invariant.

\* The invariant holds at first, and every step keeps it.
LEMMA AdbInitInv == Init => AdbInv
<1> SUFFICES ASSUME Init PROVE AdbInv
  OBVIOUS
<1>1. AdbTypes
  BY AdbInitTypes
<1>2. /\ ui.todo = {} /\ em.pc = "idle" /\ em.mx = 0
      /\ mac.pos = 0 /\ mac.button = FALSE /\ mac.keys = {}
  BY DEF Init, Done, NoCall
<1>3. RingInv
  <2>1. Queue = <<>> /\ key_read_ptr = key_write_ptr
    BY <1>1, QueueIs, QueueIsSeq DEF Init
  <2>2. Queue \in Seq(Events) /\ DOMAIN Queue = {}
    BY <2>1
  <2>3. InRing = {}
    BY <1>2 DEF InRing, Init
  <2>4. Leads(mac.keys, Queue, InRing)
    BY <1>2, <2>2, <2>3 DEF Leads, LastOf
  <2> QED BY <1>2, <2>1, <2>2, <2>4 DEF RingInv
<1>4. ButtonInv
  BY <1>2 DEF Init, ButtonInv, ReadButton
<1>5. AbsoluteInv
  BY <1>2 DEF Init, AbsoluteInv, ReadPos
<1>6. RelativeInv
  BY <1>2, AdbAssumption DEF Init, RelativeInv, MotionTodo
<1> QED BY <1>1, <1>3, <1>4, <1>5, <1>6 DEF AdbInv

\* Whatever the UI thread calls, the emulator thread reads what was meant.
LEMMA AdbStep ==
  ASSUME AdbInv, [AnyStep]_<<setup, vars>>
  PROVE  AdbInv'
<1>1. AdbTypes'
  BY TypesStep DEF AdbInv
<1>2. UNCHANGED setup
  BY DEF AnyStep
<1>3. UNCHANGED <<KeysInOrder, UsedModes>>
  BY <1>2 DEF KeysInOrder, UsedModes, Ordered, MaxPending, Modes
<1>4. (KeysInOrder => RingInv)'
  BY <1>3, RingStep DEF AdbInv
<1>5. ButtonInv'
  BY ButtonStep DEF AdbInv
<1>6. (UsedModes \subseteq {FALSE} => AbsoluteInv)'
  BY <1>3, AbsoluteStep DEF AdbInv
<1>7. (UsedModes \subseteq {TRUE} /\ MotionFits => RelativeInv)'
  BY <1>3, RelativeStep DEF AdbInv, MotionFits
<1> QED BY <1>1, <1>4, <1>5, <1>6, <1>7 DEF AdbInv

\* What it is for.
LEMMA AdbInvFacts ==
  ASSUME AdbInv
  PROVE  /\ KeysInOrder => TypeOK /\ KeysAgree
         /\ ButtonAgrees
         /\ OneMode => CursorFollows
<1> USE DEF AdbInv
<1>1. ASSUME KeysInOrder
      PROVE  TypeOK
  <2>1. ui \in [todo : SUBSET DOMAIN Rank, event : Events \cup {NoEvent}, at : Index,
                down : BOOLEAN, mode : BOOLEAN, x : Int]
    BY DEF AdbTypes, UiRecords, KeyStores, MotionStores, Rank
  <2>2. mac.keys \subseteq Keys /\ mac.button \in BOOLEAN
    BY <1>1 DEF RingInv, AdbTypes, MacRecords
  <2> QED BY <2>1, <2>2 DEF TypeOK, AdbTypes, EmRecords
<1>2. ASSUME KeysInOrder, Quiet
      PROVE  mac.keys = key_states
  <2>1. ui.todo = {} /\ key_read_ptr = key_write_ptr
    BY <1>2 DEF Quiet, RingInv
  <2>2. DOMAIN Queue = {}
    BY <2>1, QueueIs, QueueIsSeq
  <2>3. InRing = key_states
    BY <2>1 DEF InRing
  <2>4. \A k \in Keys : k \in mac.keys <=> k \in key_states
    BY <1>2, <2>2, <2>3 DEF RingInv, Leads
  <2>5. mac.keys \subseteq Keys /\ key_states \subseteq Keys
    BY <1>2 DEF RingInv, AdbTypes
  <2> QED BY <2>4, <2>5
<1>3. ButtonAgrees
  BY DEF ButtonAgrees, Quiet, ButtonInv, ReadButton, LooksAgain
<1>4. ASSUME OneMode, Quiet
      PROVE  mac.pos = target
  <2>1. CASE UsedModes \subseteq {FALSE}
    BY <1>4, <2>1 DEF Quiet, AbsoluteInv, ReadPos, LooksAgain
  <2>2. CASE UsedModes \subseteq {TRUE} /\ MotionFits
    <3>1. mouse_x = 0 /\ MotionTodo = 0 /\ em.pc # "mouse"
      BY <1>4, <2>2 DEF Quiet, RelativeInv, MotionTodo, LooksAgain
    <3>2. mac.pos + 0 + mouse_x + MotionTodo = target
      BY <2>2, <3>1 DEF RelativeInv
    <3> QED BY <3>1, <3>2, MotionInts
  <2> QED BY <1>4, <2>1, <2>2 DEF OneMode
<1> QED BY <1>1, <1>2, <1>3, <1>4 DEF KeysAgree, CursorFollows

\* Input from a user, or a view, who calls what he likes.
AnySpec == Init /\ [][AnyStep]_<<setup, vars>>

\* So it always holds.
LEMMA AnyInv == AnySpec => []AdbInv
BY AdbInitInv, AdbStep, PTL DEF AnySpec

\* What the user does is one way to make calls.
LEMMA SpecIsAny == Spec => AnySpec
<1>1. Init => setup \in Setups
  BY DEF Init
<1>2. setup \in Setups /\ [Next]_<<setup, vars>> => (setup \in Setups)'
  BY DEF Next
<1> QED BY <1>1, <1>2, NextIsAnyStep, PTL DEF Spec, AnySpec

-----------------------------------------------------------------------------
\* Every variable of the ADB Manager keeps its type, on a host where the keyboard works.
THEOREM AdbTypeCorrect == Spec => [](KeysInOrder => TypeOK)
<1>1. AdbInv => (KeysInOrder => TypeOK)
  BY AdbInvFacts
<1> QED BY <1>1, SpecIsAny, AnyInv, PTL

\* No key is stuck: once all is quiet the Mac has been told of exactly the keys that are
\* down (ADBKeyDown, ADBKeyUp and ADBInterrupt in adb.cpp), however the two threads
\* interleave, if the stores of a key event are seen in their order and the ring is never
\* full.
THEOREM NoKeyIsStuck == Spec => [](KeysInOrder => KeysAgree)
<1>1. AdbInv => (KeysInOrder => KeysAgree)
  BY AdbInvFacts
<1> QED BY <1>1, SpecIsAny, AnyInv, PTL

\* No button is stuck (ADBMouseDown, ADBMouseUp and ADBInterrupt in adb.cpp), in whatever
\* order stores are seen.
THEOREM NoButtonIsStuck == Spec => []ButtonAgrees
<1>1. AdbInv => ButtonAgrees
  BY AdbInvFacts
<1> QED BY <1>1, SpecIsAny, AnyInv, PTL

\* The cursor follows (ADBMouseMoved, ADBSetRelMouseMode and ADBInterrupt in adb.cpp) when
\* one kind of motion is used, in whatever order stores are seen.
THEOREM CursorArrives == Spec => [](OneMode => CursorFollows)
<1>1. AdbInv => (OneMode => CursorFollows)
  BY AdbInvFacts
<1> QED BY <1>1, SpecIsAny, AnyInv, PTL

-----------------------------------------------------------------------------
\* What Adb maps to KeyQueue, without its liveness.
KeyQueueSafety == Abs!Init /\ [][Abs!Next]_(Abs!vars)

\* A step of the ADB Manager is one of the queue of key events, or leaves it alone.
LEMMA KeyQueueStep ==
  ASSUME AdbInv, KeysInOrder, [AnyStep]_<<setup, vars>>
  PROVE  [Abs!Next]_(Abs!vars)
<1> USE DEF AdbInv
<1>1. CASE StorePtr /\ UNCHANGED setup
  <2>1. \E e \in Events : Queue' = Append(Queue, e)
    BY <1>1, PtrAppends
  <2>2. UNCHANGED mac
    BY <1>1 DEF StorePtr, UiDoes
  <2> QED BY <2>1, <2>2 DEF Abs!Next, Abs!Type
<1>2. CASE ReportKey /\ UNCHANGED setup
  BY <1>2, ReportShrinks DEF Abs!Next, Abs!Deliver
<1>3. CASE OtherStep /\ UNCHANGED setup
  BY <1>3, OthersKeep DEF Abs!vars
<1>4. CASE UNCHANGED <<setup, vars>>
  BY <1>4 DEF Abs!vars, Queue, Pending, vars, keys
<1> QED BY <1>1, <1>2, <1>3, <1>4 DEF AnyStep, OtherStep

\* The ring is a queue, whoever calls.
LEMMA AnyQueued == AnySpec /\ KeysInOrder => KeyQueueSafety
<1>1. Init => Abs!Init
  <2>1. Init => Queue = <<>>
    BY AdbInitTypes, QueueIs, QueueIsSeq DEF Init
  <2> QED BY <2>1 DEF Abs!Init, Init
<1>2. KeysInOrder /\ [AnyStep]_<<setup, vars>> => KeysInOrder'
  BY DEF AnyStep, KeysInOrder, Ordered, MaxPending
<1>3. Init /\ KeysInOrder /\ [][AnyStep]_<<setup, vars>> => []KeysInOrder
  BY <1>2, PTL
<1> QED BY <1>1, <1>3, KeyQueueStep, AnyInv, PTL DEF AnySpec, KeyQueueSafety

\* The ring buffer and its two pointers implement a queue (ADBKeyDown, ADBKeyUp and
\* ADBInterrupt in adb.cpp): every key event reaches the Mac once and in order.
THEOREM KeysAreQueued == Spec /\ KeysInOrder => KeyQueueSafety
BY SpecIsAny, AnyQueued, PTL
=============================================================================
