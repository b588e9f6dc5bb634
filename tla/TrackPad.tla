------------------------------- MODULE TrackPad -------------------------------
(***************************************************************************)
(* The trackpad (B2TrackPad.mm), a view that turns touches into calls of   *)
(* the ADB Manager.  A tap is a click, which is queued and sent later by a *)
(* delayed message; a second tap that is held or moved, or a forceful      *)
(* touch, is a drag.  A drag that begins while a click is being sent waits *)
(* for it to end.  Further touches end everything.                         *)
(*                                                                         *)
(* A handler changes the view's fields, which only the UI thread uses, at  *)
(* once, and then makes its calls one after the other (see Adb) before the *)
(* thread takes another touch or message.  Time is left out: a message     *)
(* comes at any time after it was scheduled, in any order, and a message   *)
(* that is scheduled twice comes once.  The emulator runs; motion is less  *)
(* than a point.                                                           *)
(***************************************************************************)
EXTENDS Adb

CONSTANTS
  MaxTouches, \* bound: fingers
  MaxClicks   \* bound: clicks in the queue

ASSUME TrackPadAssumption == MaxTouches \in Nat /\ MaxClicks \in Nat

VARIABLE pad  \* the fields of the view, the messages scheduled and the calls to be made

Messages == {"beginDraggingFromSecondTap", "sendNextQueuedClick", "finishQueuedClick",
             "beginPendingDrag"}

\* The fields that tell what a touch is going to be.
NoGesture ==
  [shouldClick |-> FALSE, isSecondTap |-> FALSE, pendingDragStart |-> FALSE,
   didForceClick |-> FALSE, clicked |-> FALSE]   \* clicked: previousClickTime is not 0

NewPad ==
  [gesture |-> NoGesture, touches |-> 0, ignoresMultiTouchSequence |-> FALSE,
   isDragging |-> FALSE, clickInProgress |-> FALSE, queuedClickCount |-> 0,
   scheduled |-> {}, calls |-> <<>>]

Schedule(p, m) == [p EXCEPT !.scheduled = @ \cup {m}]
Cancel(p, ms)  == [p EXCEPT !.scheduled = @ \ ms]
Calls(p, c)    == [p EXCEPT !.calls = Append(@, c)]

-----------------------------------------------------------------------------
\* The methods: what they make of the view.

cancelSecondTapDragHold(p) == Cancel(p, {"beginDraggingFromSecondTap"})
cancelQueuedClicks(p) == Cancel([p EXCEPT !.queuedClickCount = 0], {"sendNextQueuedClick"})

stopDragging(p) ==
  Calls([p EXCEPT !.isDragging = FALSE, !.gesture.shouldClick = FALSE], "up")

StopIfDragging(p) == IF p.isDragging THEN stopDragging(p) ELSE p

\* Mutated form: the drag does not wait for the click that is being sent.
startDraggingAtOnce(p) ==
  LET q == [cancelQueuedClicks(p) EXCEPT !.gesture.shouldClick = FALSE,
                                         !.gesture.clicked = FALSE] IN
  Calls([q EXCEPT !.gesture.pendingDragStart = FALSE, !.isDragging = TRUE], "down")

\* Mutated form: the clicks stay in the queue.
startDraggingKeepsClicks(p) ==
  LET q == [p EXCEPT !.gesture.shouldClick = FALSE, !.gesture.clicked = FALSE] IN
  IF p.clickInProgress
    THEN [q EXCEPT !.gesture.pendingDragStart = TRUE]
    ELSE Calls([q EXCEPT !.gesture.pendingDragStart = FALSE, !.isDragging = TRUE], "down")

startDragging(p) ==
  LET q == [cancelQueuedClicks(p) EXCEPT !.gesture.shouldClick = FALSE,
                                         !.gesture.clicked = FALSE] IN
  IF p.clickInProgress
    THEN [q EXCEPT !.gesture.pendingDragStart = TRUE]
    ELSE Calls([q EXCEPT !.gesture.pendingDragStart = FALSE, !.isDragging = TRUE], "down")

queueClickWithDelay(p) ==
  LET q == [p EXCEPT !.queuedClickCount = @ + 1] IN
  IF p.queuedClickCount = 0 /\ ~p.clickInProgress THEN Schedule(q, "sendNextQueuedClick") ELSE q

\* What cancelActiveTouchSequence and touchesCancelled have in common.
CancelSequence(p) ==
  [StopIfDragging(cancelQueuedClicks(
     Cancel(p, {"beginDraggingFromSecondTap", "beginPendingDrag"})))
   EXCEPT !.gesture = NoGesture]

-----------------------------------------------------------------------------
\* Touches.  The UI thread handles one when it has made the calls of the one before.

UiIsFree == pad.calls = <<>> /\ ui.todo = {} /\ setup.touch = "trackpad"

\* The first of them is a second tap if it is soon after a click, and near.
touchesBegan(n, near) ==
  LET p == [pad EXCEPT !.touches = @ + n] IN
  /\ UiIsFree
  /\ p.touches <= MaxTouches
  /\ near => pad.gesture.clicked /\ p.touches = 1
  /\ pad' = IF p.touches > 1
              THEN [CancelSequence(p) EXCEPT !.ignoresMultiTouchSequence = TRUE]
            ELSE IF p.ignoresMultiTouchSequence THEN p
            ELSE LET q == [p EXCEPT !.gesture.shouldClick = TRUE, !.gesture.isSecondTap = near]
                 IN IF near THEN Schedule(q, "beginDraggingFromSecondTap") ELSE q

\* far: from where the touch began; moved: since the last time; forced: see handleForceClick.
touchesMoved(far, moved, forced) ==
  LET holds == pad.gesture.isSecondTap /\ ~pad.isDragging /\ ~pad.gesture.pendingDragStart
      p == IF holds
             THEN startDragging([cancelSecondTapDragHold(pad) EXCEPT !.gesture.isSecondTap = FALSE])
             ELSE pad
      q == IF moved THEN Calls([p EXCEPT !.gesture.shouldClick = FALSE], "move") ELSE p
  IN
  /\ UiIsFree
  /\ pad.touches > 0 /\ ~pad.ignoresMultiTouchSequence
  /\ holds => far
  /\ pad' = IF forced /\ ~q.gesture.didForceClick
              THEN startDragging([q EXCEPT !.gesture.didForceClick = TRUE]) ELSE q

\* quick: the touch was short.
touchesEnded(n, quick) ==
  LET p == cancelSecondTapDragHold([pad EXCEPT !.touches = @ - n])
      clicks == p.gesture.shouldClick /\ quick
  IN
  /\ UiIsFree
  /\ n <= pad.touches
  /\ quick => p.queuedClickCount < MaxClicks
  /\ pad' = IF p.ignoresMultiTouchSequence
              THEN [p EXCEPT !.ignoresMultiTouchSequence = p.touches # 0,
                             !.gesture.shouldClick = FALSE]
            ELSE IF p.touches > 0 THEN p
            ELSE IF p.gesture.didForceClick
              THEN StopIfDragging([cancelQueuedClicks(p) EXCEPT
                     !.gesture.didForceClick = FALSE, !.gesture.pendingDragStart = FALSE,
                     !.gesture.clicked = FALSE])
            ELSE [StopIfDragging(IF clicks THEN queueClickWithDelay(p) ELSE p) EXCEPT
                    !.gesture = [NoGesture EXCEPT !.clicked = clicks]]

touchesCancelled(n) ==
  LET p == CancelSequence([pad EXCEPT !.touches = @ - n]) IN
  /\ UiIsFree
  /\ n <= pad.touches
  /\ pad' = [p EXCEPT !.ignoresMultiTouchSequence = @ /\ p.touches # 0]

-----------------------------------------------------------------------------
\* Messages.

sendNextQueuedClick(p) ==
  IF p.queuedClickCount = 0 \/ p.isDragging \/ p.gesture.pendingDragStart THEN p
  ELSE Calls(Schedule([p EXCEPT !.queuedClickCount = @ - 1, !.clickInProgress = TRUE],
                      "finishQueuedClick"), "down")

finishQueuedClick(p) ==
  LET q == Calls([p EXCEPT !.clickInProgress = FALSE], "up") IN
  IF p.gesture.pendingDragStart THEN Schedule(q, "beginPendingDrag")
  ELSE IF p.queuedClickCount > 0 THEN Schedule(q, "sendNextQueuedClick") ELSE q

beginDraggingFromSecondTap(p) ==
  IF /\ p.gesture.isSecondTap /\ p.gesture.shouldClick
     /\ p.touches > 0 /\ ~p.ignoresMultiTouchSequence
    THEN startDragging(p) ELSE p

beginPendingDrag(p) ==
  [(IF p.gesture.pendingDragStart /\ p.touches > 0 /\ ~p.ignoresMultiTouchSequence
      THEN startDragging(p) ELSE p) EXCEPT !.gesture.pendingDragStart = FALSE]

Perform(m) ==
  /\ UiIsFree
  /\ m \in pad.scheduled
  /\ LET p == Cancel(pad, {m}) IN
     pad' = CASE m = "sendNextQueuedClick" -> sendNextQueuedClick(p)
              [] m = "finishQueuedClick" -> finishQueuedClick(p)
              [] m = "beginDraggingFromSecondTap" -> beginDraggingFromSecondTap(p)
              [] m = "beginPendingDrag" -> beginPendingDrag(p)

\* The view is removed, and with the setting for the kind of device another one is made.
willMoveToSuperview ==
  /\ UiIsFree
  /\ pad' = [NewPad EXCEPT
       !.calls = IF pad.isDragging \/ pad.clickInProgress THEN <<"up">> ELSE <<>>]

-----------------------------------------------------------------------------
\* The next call of a handler.
MakeCall(c, rel) ==
  \/ c = "down" /\ ADBMouseDown
  \/ c = "up" /\ ADBMouseUp
  \/ c = "move" /\ MouseMoved(rel, 0)

PadCalls ==
  /\ pad.calls # <<>>
  /\ MakeCall(Head(pad.calls), TRUE)
  /\ pad' = [pad EXCEPT !.calls = Tail(@)]
  /\ UNCHANGED setup

Touches ==
  \/ \E n \in 1 .. MaxTouches, b \in BOOLEAN :
       touchesBegan(n, b) \/ touchesEnded(n, b) \/ (b /\ touchesCancelled(n))
  \/ \E far, moved, forced \in BOOLEAN : touchesMoved(far, moved, forced)

PadNext ==
  \/ (Touches \/ (\E m \in Messages : Perform(m)) \/ willMoveToSuperview) /\ UNCHANGED <<setup, vars>>
  \/ PadCalls

-----------------------------------------------------------------------------
PadTypeOK ==
  /\ pad.gesture \in [DOMAIN NoGesture -> BOOLEAN]
  /\ pad.touches \in 0 .. MaxTouches /\ pad.queuedClickCount \in 0 .. MaxClicks
  /\ pad.ignoresMultiTouchSequence \in BOOLEAN
  /\ pad.isDragging \in BOOLEAN /\ pad.clickInProgress \in BOOLEAN
  /\ pad.scheduled \subseteq Messages
  /\ pad.calls \in Seq({"down", "up", "move"})

\* The queue of clicks is never stuck: while there are clicks in it, the message that
\* sends one, or the one that ends the click being sent and looks for more, is going to
\* come ("Keep both taps even when the second one arrives before the first click is
\* sent", B2TrackPad.mm:258), whatever drags and cancellations come in between.
QueuedClicksAreSent ==
  pad.queuedClickCount > 0 =>
    \/ "sendNextQueuedClick" \in pad.scheduled
    \/ pad.clickInProgress /\ "finishQueuedClick" \in pad.scheduled

\* The button is down during a drag and during a click, and at no other time: no click
\* ends a drag, and nothing leaves the button down.
ButtonIsHeld ==
  setup.touch = "trackpad" /\ pad.calls = <<>> /\ ui.todo = {} =>
    mouse_button = (pad.isDragging \/ pad.clickInProgress)
=============================================================================
