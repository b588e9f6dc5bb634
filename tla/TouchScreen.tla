------------------------------ MODULE TouchScreen ------------------------------
(***************************************************************************)
(* The touch screen (B2TouchScreen.mm), the other view that turns touches  *)
(* into calls of the ADB Manager, with the trackpad and the ADB Manager.   *)
(* In the touch mode a tap is a click and a touch that is held or moved is *)
(* a drag; in the mouse mode the button follows the finger with a delay.   *)
(* The mode stays, the emulator runs, and the cursor is at one place.      *)
(*                                                                         *)
(* The messages that press and release the button are delayed by the same  *)
(* time and come in the order in which they were scheduled.                *)
(***************************************************************************)
EXTENDS TrackPad

CONSTANT MaxScheduled  \* bound: mouseDown and mouseUp messages at the same time

ASSUME TouchScreenAssumption == MaxScheduled \in Nat

VARIABLE screen  \* the fields of the view, the messages scheduled and the calls to be made

NewScreen ==
  [touches |-> 0, ignoresMultiTouchSequence |-> FALSE, shouldClick |-> FALSE,
   isDragging |-> FALSE, mouseButtonIsDown |-> FALSE,
   holdDrag |-> FALSE,    \* beginDraggingFromInitialTouch is scheduled
   scheduled |-> <<>>,    \* "down" for mouseDown and "up" for mouseUp
   calls |-> <<>>]

usesMouseInputMode == setup.touch = "mouse"

-----------------------------------------------------------------------------
\* The methods: what they make of the view.

mouseDown(s) == Calls([s EXCEPT !.mouseButtonIsDown = TRUE], "down")
mouseUp(s) == Calls([s EXCEPT !.mouseButtonIsDown = FALSE], "up")
Later(s, c) == [s EXCEPT !.scheduled = Append(@, c)]

startDraggingAtTouchPoint(s) ==
  Calls(mouseDown([s EXCEPT !.holdDrag = FALSE, !.isDragging = TRUE, !.shouldClick = FALSE]),
        "move")

screenStopDragging(s) == mouseUp([s EXCEPT !.isDragging = FALSE, !.shouldClick = FALSE])

\* Mutated form: only a drag is ended.
ScreenCancelDrag(s) ==
  LET q == [s EXCEPT !.holdDrag = FALSE, !.scheduled = <<>>] IN
  [(IF q.isDragging THEN screenStopDragging(q) ELSE q) EXCEPT !.shouldClick = FALSE]

\* What cancelActiveTouchSequence and touchesCancelled have in common.
ScreenCancelSequence(s) ==
  LET q == [s EXCEPT !.holdDrag = FALSE, !.scheduled = <<>>] IN
  [(IF q.isDragging THEN screenStopDragging(q)
    ELSE IF q.mouseButtonIsDown THEN mouseUp(q) ELSE q) EXCEPT !.shouldClick = FALSE]

-----------------------------------------------------------------------------
\* Touches and messages.

ScreenIsFree ==
  screen.calls = <<>> /\ ui.todo = {} /\ setup.touch \in {"screen", "mouse"}

screenTouchesBegan(n) ==
  LET s == [screen EXCEPT !.touches = @ + n] IN
  /\ ScreenIsFree
  /\ s.touches <= MaxTouches
  /\ Len(s.scheduled) < MaxScheduled
  /\ screen' = IF s.touches > 1
                 THEN [ScreenCancelSequence(s) EXCEPT !.ignoresMultiTouchSequence = TRUE]
               ELSE IF s.ignoresMultiTouchSequence THEN s
               ELSE IF usesMouseInputMode THEN Later(Calls(s, "move"), "down")
               ELSE Calls([s EXCEPT !.shouldClick = TRUE, !.isDragging = FALSE,
                                    !.holdDrag = TRUE], "move")

\* far: from where the touch began.
screenTouchesMoved(far) ==
  /\ ScreenIsFree
  /\ screen.touches > 0 /\ ~screen.ignoresMultiTouchSequence
  /\ \/ /\ usesMouseInputMode \/ screen.isDragging
        /\ screen' = Calls(screen, "move")
     \/ /\ ~usesMouseInputMode /\ ~screen.isDragging
        /\ screen.shouldClick /\ far
        /\ screen' = startDraggingAtTouchPoint(screen)

screenTouchesEnded(n) ==
  LET s == [screen EXCEPT !.touches = @ - n]
      q == [s EXCEPT !.holdDrag = FALSE, !.shouldClick = FALSE]
  IN
  /\ ScreenIsFree
  /\ n <= screen.touches
  /\ Len(s.scheduled) < MaxScheduled
  /\ screen' = IF s.ignoresMultiTouchSequence
                 THEN [s EXCEPT !.ignoresMultiTouchSequence = s.touches # 0,
                                !.shouldClick = FALSE]
               ELSE IF s.touches > 0 THEN s
               ELSE IF usesMouseInputMode THEN Later(Calls(s, "move"), "up")
               ELSE IF s.isDragging THEN screenStopDragging(Calls(q, "move"))
               ELSE IF s.shouldClick THEN Later(mouseDown(Calls(q, "move")), "up")
               ELSE q

screenTouchesCancelled(n) ==
  LET s == ScreenCancelSequence([screen EXCEPT !.touches = @ - n]) IN
  /\ ScreenIsFree
  /\ n <= screen.touches
  /\ screen' = [s EXCEPT !.ignoresMultiTouchSequence = @ /\ s.touches # 0]

beginDraggingFromInitialTouch ==
  /\ ScreenIsFree
  /\ screen.holdDrag
  /\ LET s == [screen EXCEPT !.holdDrag = FALSE] IN
     screen' = IF s.shouldClick /\ s.touches > 0 /\ ~s.isDragging
                 THEN startDraggingAtTouchPoint(s) ELSE s

PerformClick ==
  /\ ScreenIsFree
  /\ screen.scheduled # <<>>
  /\ LET s == [screen EXCEPT !.scheduled = Tail(@)] IN
     screen' = IF Head(screen.scheduled) = "down" THEN mouseDown(s) ELSE mouseUp(s)

\* The view is removed, and another one is made.
screenWillMoveToSuperview ==
  /\ ScreenIsFree
  /\ screen' = [NewScreen EXCEPT !.calls = IF screen.mouseButtonIsDown THEN <<"up">> ELSE <<>>]

ScreenCalls ==
  /\ screen.calls # <<>>
  /\ MakeCall(Head(screen.calls), FALSE)
  /\ screen' = [screen EXCEPT !.calls = Tail(@)]
  /\ UNCHANGED setup

ScreenTouches ==
  \/ \E n \in 1 .. MaxTouches :
       screenTouchesBegan(n) \/ screenTouchesEnded(n) \/ screenTouchesCancelled(n)
  \/ \E far \in BOOLEAN : screenTouchesMoved(far)

ScreenNext ==
  \/ /\ ScreenTouches \/ beginDraggingFromInitialTouch \/ PerformClick
          \/ screenWillMoveToSuperview
     /\ UNCHANGED <<setup, vars>>
  \/ ScreenCalls

-----------------------------------------------------------------------------
\* The ADB Manager with the two views, of which there is one at most.

inputVars == <<setup, vars, pad, screen>>

InputInit == Init /\ pad = NewPad /\ screen = NewScreen

InputNext ==
  \/ Next /\ UNCHANGED <<pad, screen>>
  \/ PadNext /\ UNCHANGED screen
  \/ ScreenNext /\ UNCHANGED pad

InputSpec == InputInit /\ [][InputNext]_inputVars /\ Fairness

-----------------------------------------------------------------------------
InputTypeOK ==
  /\ TypeOK
  /\ PadTypeOK
  /\ screen.touches \in 0 .. MaxTouches
  /\ {screen.ignoresMultiTouchSequence, screen.shouldClick, screen.isDragging,
      screen.mouseButtonIsDown, screen.holdDrag} \subseteq BOOLEAN
  /\ screen.scheduled \in Seq({"down", "up"}) /\ Len(screen.scheduled) <= MaxScheduled
  /\ screen.calls \in Seq({"down", "up", "move"})

\* Whatever has been tapped, dragged and cancelled: once no finger touches the view, no
\* message and no call is to come and the ADB Manager is quiet, the Mac's button is up.
ButtonReleased ==
  /\ setup.touch # "none" /\ Quiet
  /\ pad.touches = 0 /\ pad.scheduled = {} /\ pad.calls = <<>>
  /\ screen.touches = 0 /\ screen.scheduled = <<>> /\ screen.calls = <<>>
  => ~mac.button
=============================================================================
