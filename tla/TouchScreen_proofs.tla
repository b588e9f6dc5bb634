------------------------- MODULE TouchScreen_proofs --------------------------
(***************************************************************************)
(* Proofs about the trackpad and the touch screen, for any number of       *)
(* touches and clicks: what the methods of the views, delayed messages     *)
(* among them, leave of the button and of the queue of clicks, whatever    *)
(* order the user and the run loop call them in; and what of it arrives in *)
(* the Mac, through the ADB Manager.                                       *)
(***************************************************************************)
EXTENDS TouchScreen, Adb_proofs

\* What the button will be when the calls cs have been made, if it is now.
Held(cs, now, held) ==
  /\ (\A i \in DOMAIN cs : cs[i] = "move") => now = held
  /\ \A i \in DOMAIN cs :
       cs[i] # "move" /\ (\A j \in DOMAIN cs : j > i => cs[j] = "move") => held = (cs[i] = "down")

ButtonNow == IF "button" \in ui.todo THEN ui.down ELSE mouse_button

ViewCalls == {"down", "up", "move"}

-----------------------------------------------------------------------------
Gestures ==
  [shouldClick : BOOLEAN, isSecondTap : BOOLEAN, pendingDragStart : BOOLEAN,
   didForceClick : BOOLEAN, clicked : BOOLEAN]
PadRecords ==
  [gesture : Gestures, touches : Int, ignoresMultiTouchSequence : BOOLEAN,
   isDragging : BOOLEAN, clickInProgress : BOOLEAN, queuedClickCount : 0 .. MaxClicks,
   scheduled : SUBSET Messages, calls : Seq(ViewCalls)]

\* A click is being sent if and only if the message that ends it is to come; no drag
\* begins meanwhile.
ClicksEnd(p) ==
  /\ p.clickInProgress <=> "finishQueuedClick" \in p.scheduled
  /\ "sendNextQueuedClick" \in p.scheduled => ~p.clickInProgress
  /\ p.isDragging => ~p.clickInProgress

ClicksSent(p) ==
  p.queuedClickCount > 0 => "sendNextQueuedClick" \in p.scheduled \/ p.clickInProgress

PadHolds(p, now) == Held(p.calls, now, p.isDragging \/ p.clickInProgress)

PadGood(p) == p \in PadRecords /\ ClicksEnd(p) /\ ClicksSent(p)

\* A drag does not begin while there are clicks in the queue, and none is queued then.
NoClicksInDrag(p) == p.isDragging \/ p.gesture.pendingDragStart => p.queuedClickCount = 0

\* A method makes of p the view r.
Keeps(p, r) ==
  /\ r.touches = p.touches /\ r.ignoresMultiTouchSequence = p.ignoresMultiTouchSequence
  /\ PadGood(r) /\ (NoClicksInDrag(p) => NoClicksInDrag(r))
  /\ \A now : PadHolds(p, now) => PadHolds(r, now)

\* Only the gesture differs, and it waits for no other click.
SameButGesture(p, r) ==
  /\ r \in PadRecords
  /\ r.touches = p.touches /\ r.ignoresMultiTouchSequence = p.ignoresMultiTouchSequence
  /\ r.isDragging = p.isDragging /\ r.clickInProgress = p.clickInProgress
  /\ r.queuedClickCount = p.queuedClickCount /\ r.scheduled = p.scheduled
  /\ r.calls = p.calls
  /\ r.gesture.pendingDragStart => p.gesture.pendingDragStart

-----------------------------------------------------------------------------
\* One more call of a view.
LEMMA HeldAppends ==
  ASSUME NEW cs \in Seq(ViewCalls), NEW c \in ViewCalls, NEW now, NEW held,
         IF c = "move" THEN Held(cs, now, held) ELSE held = (c = "down")
  PROVE  Held(Append(cs, c), now, held)
<1> DEFINE a == Append(cs, c)
<1>1. /\ DOMAIN a = 1 .. Len(cs) + 1 /\ DOMAIN cs = 1 .. Len(cs) /\ Len(cs) \in Nat
      /\ \A i \in 1 .. Len(cs) : a[i] = cs[i]
      /\ a[Len(cs) + 1] = c
  BY DEF ViewCalls
<1> HIDE DEF a
<1>2. CASE c = "move"
  <2>1. ASSUME \A i \in DOMAIN a : a[i] = "move"
        PROVE  now = held
    BY <1>1, <1>2, <2>1 DEF Held
  <2>2. ASSUME NEW i \in DOMAIN a, a[i] # "move", \A j \in DOMAIN a : j > i => a[j] = "move"
        PROVE  held = (a[i] = "down")
    <3>1. i \in DOMAIN cs /\ cs[i] # "move" /\ a[i] = cs[i]
      BY <1>1, <1>2, <2>2
    <3>2. \A j \in DOMAIN cs : j > i => cs[j] = "move"
      BY <1>1, <2>2
    <3> QED BY <1>2, <3>1, <3>2 DEF Held
  <2> QED BY <2>1, <2>2 DEF Held, a
<1>3. CASE c # "move"
  <2>1. Len(cs) + 1 \in DOMAIN a /\ a[Len(cs) + 1] # "move"
    BY <1>1, <1>3
  <2>2. ASSUME NEW i \in DOMAIN a, a[i] # "move", \A j \in DOMAIN a : j > i => a[j] = "move"
        PROVE  held = (a[i] = "down")
    <3>1. i = Len(cs) + 1
      BY <1>1, <2>1, <2>2
    <3> QED BY <1>1, <1>3, <3>1
  <2> QED BY <2>1, <2>2 DEF Held, a
<1> QED BY <1>2, <1>3

\* The next call is made.
LEMMA HeldTail ==
  ASSUME NEW cs \in Seq(ViewCalls), cs # <<>>, NEW now, NEW held, Held(cs, now, held)
  PROVE  Held(Tail(cs), IF Head(cs) = "move" THEN now ELSE Head(cs) = "down", held)
<1> DEFINE t == Tail(cs)
<1>1. /\ DOMAIN t = 1 .. Len(cs) - 1 /\ DOMAIN cs = 1 .. Len(cs) /\ Len(cs) \in Nat /\ Len(cs) > 0
      /\ \A i \in 1 .. Len(cs) - 1 : t[i] = cs[i + 1]
      /\ Head(cs) = cs[1]
  OBVIOUS
<1> HIDE DEF t
<1>2. ASSUME NEW i \in DOMAIN t, t[i] # "move", \A j \in DOMAIN t : j > i => t[j] = "move"
      PROVE  held = (t[i] = "down")
  <2>1. i + 1 \in DOMAIN cs /\ cs[i + 1] = t[i]
    BY <1>1
  <2>2. ASSUME NEW j \in DOMAIN cs, j > i + 1
        PROVE  cs[j] = "move"
    <3>1. j - 1 \in DOMAIN t /\ j - 1 > i /\ (j - 1) + 1 = j
      BY <1>1, <2>2
    <3> QED BY <1>1, <1>2, <3>1
  <2> QED BY <1>2, <2>1, <2>2 DEF Held
<1>3. ASSUME \A i \in DOMAIN t : t[i] = "move"
      PROVE  (IF Head(cs) = "move" THEN now ELSE Head(cs) = "down") = held
  <2>1. ASSUME NEW j \in DOMAIN cs, j > 1
        PROVE  cs[j] = "move"
    <3>1. j - 1 \in DOMAIN t /\ (j - 1) + 1 = j
      BY <1>1, <2>1
    <3> QED BY <1>1, <1>3, <3>1
  <2>2. 1 \in DOMAIN cs
    BY <1>1
  <2>3. CASE cs[1] = "move"
    <3>1. \A j \in DOMAIN cs : cs[j] = "move"
      BY <1>1, <2>1, <2>3
    <3> QED BY <1>1, <2>3, <3>1 DEF Held
  <2>4. CASE cs[1] # "move"
    BY <1>1, <2>1, <2>2, <2>4 DEF Held
  <2> QED BY <2>3, <2>4
<1> QED BY <1>2, <1>3 DEF Held, t

-----------------------------------------------------------------------------
\* The methods of the trackpad.

\* A change of the gesture alone is no change of the button.
LEMMA GestureKeeps ==
  ASSUME NEW p, NEW r, PadGood(p), SameButGesture(p, r)
  PROVE  Keeps(p, r)
BY DEF Keeps, SameButGesture, PadGood, ClicksEnd, ClicksSent, NoClicksInDrag, PadHolds

\* Two methods after each other.
LEMMA KeepsAll ==
  ASSUME NEW p, NEW q, NEW r, Keeps(p, q), Keeps(q, r)
  PROVE  Keeps(p, r)
BY DEF Keeps

\* What a call of the view to the ADB Manager leaves alone.
LEMMA CallsFields ==
  ASSUME NEW p \in PadRecords, NEW c \in ViewCalls
  PROVE  LET r == Calls(p, c) IN
         /\ r \in PadRecords /\ r.calls = Append(p.calls, c)
         /\ r.gesture = p.gesture /\ r.touches = p.touches
         /\ r.ignoresMultiTouchSequence = p.ignoresMultiTouchSequence
         /\ r.isDragging = p.isDragging /\ r.clickInProgress = p.clickInProgress
         /\ r.queuedClickCount = p.queuedClickCount /\ r.scheduled = p.scheduled
<1> DEFINE v == Append(p.calls, c)
<1>1. v \in Seq(ViewCalls)
  BY DEF PadRecords
<1>2. Calls(p, c) = [p EXCEPT !.calls = v]
  BY DEF Calls
<1> HIDE DEF v
<1> QED BY <1>1, <1>2 DEF PadRecords, v

\* A motion does not change the button,
LEMMA MoveKeeps ==
  ASSUME NEW p, PadGood(p)
  PROVE  Keeps(p, Calls(p, "move"))
<1>1. p \in PadRecords /\ p.calls \in Seq(ViewCalls) /\ "move" \in ViewCalls
  BY DEF PadGood, PadRecords, ViewCalls
<1> DEFINE r == Calls(p, "move")
<1>2. /\ r \in PadRecords /\ r.calls = Append(p.calls, "move")
      /\ r.gesture = p.gesture /\ r.touches = p.touches
      /\ r.ignoresMultiTouchSequence = p.ignoresMultiTouchSequence
      /\ r.isDragging = p.isDragging /\ r.clickInProgress = p.clickInProgress
      /\ r.queuedClickCount = p.queuedClickCount /\ r.scheduled = p.scheduled
  BY <1>1, CallsFields
<1> HIDE DEF r
<1>3. ASSUME NEW now, PadHolds(p, now)
      PROVE  PadHolds(r, now)
  BY <1>1, <1>2, <1>3, HeldAppends DEF PadHolds
<1>4. PadGood(r) /\ (NoClicksInDrag(p) => NoClicksInDrag(r))
  BY <1>2 DEF PadGood, ClicksEnd, ClicksSent, NoClicksInDrag
<1> QED BY <1>2, <1>3, <1>4 DEF Keeps, r

\* ... the end of a drag releases it,
LEMMA StopKeeps ==
  ASSUME NEW p, PadGood(p)
  PROVE  LET r == StopIfDragging(p) IN
         /\ Keeps(p, r) /\ r.isDragging = FALSE /\ r.queuedClickCount = p.queuedClickCount
         /\ r.gesture.pendingDragStart = p.gesture.pendingDragStart
<1>1. p \in PadRecords /\ p.calls \in Seq(ViewCalls) /\ "up" \in ViewCalls
  BY DEF PadGood, PadRecords, ViewCalls
<1>2. CASE ~p.isDragging
  <2>1. StopIfDragging(p) = p /\ p.isDragging = FALSE
    BY <1>1, <1>2 DEF StopIfDragging, PadRecords
  <2> QED BY <2>1 DEF Keeps
<1>3. CASE p.isDragging
  <2> DEFINE q == [p EXCEPT !.isDragging = FALSE, !.gesture.shouldClick = FALSE]
             r == Calls(q, "up")
  <2>1. /\ q \in PadRecords /\ q.isDragging = FALSE /\ q.calls = p.calls
        /\ q.touches = p.touches /\ q.ignoresMultiTouchSequence = p.ignoresMultiTouchSequence
        /\ q.clickInProgress = p.clickInProgress
        /\ q.queuedClickCount = p.queuedClickCount /\ q.scheduled = p.scheduled
        /\ q.gesture.pendingDragStart = p.gesture.pendingDragStart
    BY <1>1 DEF PadRecords, Gestures
  <2>2. StopIfDragging(p) = r
    BY <1>3 DEF StopIfDragging, stopDragging
  <2> HIDE DEF q
  <2>3. /\ r \in PadRecords /\ r.calls = Append(q.calls, "up")
        /\ r.gesture = q.gesture /\ r.touches = q.touches
        /\ r.ignoresMultiTouchSequence = q.ignoresMultiTouchSequence
        /\ r.isDragging = q.isDragging /\ r.clickInProgress = q.clickInProgress
        /\ r.queuedClickCount = q.queuedClickCount /\ r.scheduled = q.scheduled
    BY <1>1, <2>1, CallsFields
  <2> HIDE DEF r
  <2>4. r.clickInProgress = FALSE
    BY <1>1, <1>3, <2>1, <2>3 DEF PadGood, ClicksEnd, PadRecords
  <2>5. \A now : PadHolds(r, now)
    BY <1>1, <2>1, <2>3, <2>4, HeldAppends DEF PadHolds
  <2>6. PadGood(r) /\ (NoClicksInDrag(p) => NoClicksInDrag(r))
    BY <2>1, <2>3 DEF PadGood, ClicksEnd, ClicksSent, NoClicksInDrag
  <2> QED BY <2>1, <2>2, <2>3, <2>5, <2>6 DEF Keeps
<1> QED BY <1>2, <1>3

\* Messages that send no click are cancelled.
LEMMA CancelKeeps ==
  ASSUME NEW p, PadGood(p), NEW ms \in SUBSET {"beginDraggingFromSecondTap", "beginPendingDrag"}
  PROVE  Keeps(p, Cancel(p, ms)) /\ Cancel(p, ms).gesture = p.gesture
         /\ Cancel(p, ms).isDragging = p.isDragging
         /\ Cancel(p, ms).queuedClickCount = p.queuedClickCount
         /\ Cancel(p, ms).clickInProgress = p.clickInProgress
<1> DEFINE r == Cancel(p, ms)
<1>1. p \in PadRecords
  BY DEF PadGood
<1>2. /\ r \in PadRecords /\ r.calls = p.calls
      /\ r.gesture = p.gesture /\ r.touches = p.touches
      /\ r.ignoresMultiTouchSequence = p.ignoresMultiTouchSequence
      /\ r.isDragging = p.isDragging /\ r.clickInProgress = p.clickInProgress
      /\ r.queuedClickCount = p.queuedClickCount /\ r.scheduled = p.scheduled \ ms
  BY <1>1 DEF Cancel, PadRecords
<1> HIDE DEF r
<1>3. PadGood(r)
  BY <1>2 DEF PadGood, ClicksEnd, ClicksSent
<1> QED BY <1>2, <1>3 DEF Keeps, PadHolds, NoClicksInDrag, r

\* ... clicks that are dropped release it,
LEMMA CancelQueueKeeps ==
  ASSUME NEW p, PadGood(p)
  PROVE  LET r == cancelQueuedClicks(p) IN
         /\ Keeps(p, r) /\ r.queuedClickCount = 0 /\ r.gesture = p.gesture
         /\ r.isDragging = p.isDragging /\ r.clickInProgress = p.clickInProgress
<1> DEFINE q == [p EXCEPT !.queuedClickCount = 0]
           r == Cancel(q, {"sendNextQueuedClick"})
<1>1. p \in PadRecords /\ 0 \in 0 .. MaxClicks
  BY TrackPadAssumption DEF PadGood
<1>2. /\ q \in PadRecords /\ q.calls = p.calls
      /\ q.gesture = p.gesture /\ q.touches = p.touches
      /\ q.ignoresMultiTouchSequence = p.ignoresMultiTouchSequence
      /\ q.isDragging = p.isDragging /\ q.clickInProgress = p.clickInProgress
      /\ q.queuedClickCount = 0 /\ q.scheduled = p.scheduled
  BY <1>1 DEF PadRecords
<1> HIDE DEF q
<1>3. /\ r \in PadRecords /\ r.calls = p.calls
      /\ r.gesture = p.gesture /\ r.touches = p.touches
      /\ r.ignoresMultiTouchSequence = p.ignoresMultiTouchSequence
      /\ r.isDragging = p.isDragging /\ r.clickInProgress = p.clickInProgress
      /\ r.queuedClickCount = 0 /\ r.scheduled = p.scheduled \ {"sendNextQueuedClick"}
  BY <1>2 DEF Cancel, PadRecords
<1> HIDE DEF r
<1>4. PadGood(r) /\ NoClicksInDrag(r)
  BY <1>3 DEF PadGood, ClicksEnd, ClicksSent, NoClicksInDrag
<1>5. cancelQueuedClicks(p) = r
  BY DEF cancelQueuedClicks, r, q
<1> QED BY <1>3, <1>4, <1>5 DEF Keeps, PadHolds

\* ... and a drag holds it.
LEMMA StartKeeps ==
  ASSUME NEW p, PadGood(p)
  PROVE  LET r == startDragging(p) IN
         Keeps(p, r) /\ r.queuedClickCount = 0
<1> DEFINE a == cancelQueuedClicks(p)
           q == [a EXCEPT !.gesture.shouldClick = FALSE, !.gesture.clicked = FALSE]
           w == [q EXCEPT !.gesture.pendingDragStart = TRUE]
           d == [q EXCEPT !.gesture.pendingDragStart = FALSE, !.isDragging = TRUE]
           r == Calls(d, "down")
<1>1. Keeps(p, a) /\ PadGood(a) /\ a \in PadRecords /\ a.queuedClickCount = 0
      /\ a.clickInProgress = p.clickInProgress
  BY CancelQueueKeeps DEF Keeps, PadGood
<1>2. startDragging(p) = IF p.clickInProgress THEN w ELSE r
  BY DEF startDragging
<1> HIDE DEF a
<1>3. SameButGesture(a, q) /\ q \in PadRecords
  BY <1>1 DEF SameButGesture, PadRecords, Gestures
<1> HIDE DEF q
<1>4. PadGood(q) /\ Keeps(p, q) /\ q.queuedClickCount = 0
      /\ q.clickInProgress = p.clickInProgress
  <2>1. Keeps(a, q)
    BY <1>1, <1>3, GestureKeeps
  <2> QED BY <1>1, <1>3, <2>1 DEF Keeps, SameButGesture
<1>5. CASE p.clickInProgress
  <2>1. /\ w \in PadRecords /\ w.calls = q.calls /\ w.touches = q.touches
        /\ w.ignoresMultiTouchSequence = q.ignoresMultiTouchSequence
        /\ w.isDragging = q.isDragging /\ w.clickInProgress = q.clickInProgress
        /\ w.queuedClickCount = q.queuedClickCount /\ w.scheduled = q.scheduled
    BY <1>3 DEF PadRecords, Gestures
  <2> HIDE DEF w
  <2>2. PadGood(w) /\ NoClicksInDrag(w)
    BY <1>4, <2>1 DEF PadGood, ClicksEnd, ClicksSent, NoClicksInDrag
  <2>3. Keeps(p, w)
    BY <1>4, <2>1, <2>2 DEF Keeps, PadHolds
  <2> QED BY <1>2, <1>4, <1>5, <2>1, <2>3
<1>6. CASE ~p.clickInProgress
  <2>1. /\ d \in PadRecords /\ d.calls = q.calls /\ d.touches = q.touches
        /\ d.ignoresMultiTouchSequence = q.ignoresMultiTouchSequence
        /\ d.isDragging = TRUE /\ d.clickInProgress = q.clickInProgress
        /\ d.queuedClickCount = q.queuedClickCount /\ d.scheduled = q.scheduled
    BY <1>3 DEF PadRecords, Gestures
  <2> HIDE DEF d
  <2>2. /\ r \in PadRecords /\ r.calls = Append(d.calls, "down") /\ r.touches = d.touches
        /\ r.ignoresMultiTouchSequence = d.ignoresMultiTouchSequence
        /\ r.isDragging = d.isDragging /\ r.clickInProgress = d.clickInProgress
        /\ r.queuedClickCount = d.queuedClickCount /\ r.scheduled = d.scheduled
    BY <2>1, CallsFields DEF ViewCalls
  <2> HIDE DEF r
  <2>3. PadGood(r) /\ NoClicksInDrag(r)
    BY <1>4, <1>6, <2>1, <2>2 DEF PadGood, ClicksEnd, ClicksSent, NoClicksInDrag
  <2>4. \A now : PadHolds(r, now)
    <3>1. d.calls \in Seq(ViewCalls) /\ "down" \in ViewCalls
      BY <2>1 DEF PadRecords, ViewCalls
    <3> QED BY <2>1, <2>2, <3>1, HeldAppends DEF PadHolds
  <2>5. Keeps(p, r)
    BY <1>4, <2>1, <2>2, <2>3, <2>4 DEF Keeps
  <2> QED BY <1>2, <1>4, <1>6, <2>1, <2>2, <2>5
<1> QED BY <1>5, <1>6

\* What ends a sequence of touches ends a drag, and empties the queue.
LEMMA CancelSequenceKeeps ==
  ASSUME NEW p, PadGood(p)
  PROVE  LET r == CancelSequence(p) IN
         Keeps(p, r) /\ r.isDragging = FALSE /\ r.queuedClickCount = 0
<1> DEFINE a == Cancel(p, {"beginDraggingFromSecondTap", "beginPendingDrag"})
           b == cancelQueuedClicks(a)
           c == StopIfDragging(b)
           r == [c EXCEPT !.gesture = NoGesture]
<1>1. Keeps(p, a) /\ PadGood(a)
  BY CancelKeeps DEF Keeps
<1>2. Keeps(a, b) /\ PadGood(b) /\ b.queuedClickCount = 0
  BY <1>1, CancelQueueKeeps DEF Keeps
<1>3. Keeps(b, c) /\ PadGood(c) /\ c.queuedClickCount = 0 /\ c.isDragging = FALSE
  BY <1>2, StopKeeps DEF Keeps
<1>4. CancelSequence(p) = r
  BY DEF CancelSequence
<1> HIDE DEF a, b, c
<1>5. SameButGesture(c, r)
  BY <1>3 DEF SameButGesture, PadGood, PadRecords, Gestures, NoGesture
<1>6. Keeps(c, r)
  BY <1>3, <1>5, GestureKeeps
<1>7. Keeps(p, r)
  BY <1>1, <1>2, <1>3, <1>6, KeepsAll
<1> QED BY <1>3, <1>4, <1>5, <1>7 DEF SameButGesture

\* A tap is queued.
LEMMA QueueKeepsClicks ==
  ASSUME NEW p, PadGood(p), p.queuedClickCount < MaxClicks
  PROVE  LET r == queueClickWithDelay(p) IN
         /\ r.touches = p.touches /\ r.ignoresMultiTouchSequence = p.ignoresMultiTouchSequence
         /\ PadGood(r) /\ \A now : PadHolds(p, now) => PadHolds(r, now)
<1> DEFINE q == [p EXCEPT !.queuedClickCount = @ + 1]
           s == Schedule(q, "sendNextQueuedClick")
           r == queueClickWithDelay(p)
<1>1. p \in PadRecords /\ p.queuedClickCount \in 0 .. MaxClicks
  BY DEF PadGood, PadRecords
<1>2. p.queuedClickCount + 1 \in 0 .. MaxClicks
  BY <1>1, TrackPadAssumption
<1>3. /\ q \in PadRecords /\ q.calls = p.calls /\ q.touches = p.touches
      /\ q.ignoresMultiTouchSequence = p.ignoresMultiTouchSequence
      /\ q.isDragging = p.isDragging /\ q.clickInProgress = p.clickInProgress
      /\ q.queuedClickCount = p.queuedClickCount + 1 /\ q.scheduled = p.scheduled
  BY <1>1, <1>2 DEF PadRecords
<1> HIDE DEF q
<1>4. /\ s \in PadRecords /\ s.calls = q.calls /\ s.touches = q.touches
      /\ s.ignoresMultiTouchSequence = q.ignoresMultiTouchSequence
      /\ s.isDragging = q.isDragging /\ s.clickInProgress = q.clickInProgress
      /\ s.queuedClickCount = q.queuedClickCount
      /\ s.scheduled = q.scheduled \cup {"sendNextQueuedClick"}
  BY <1>3 DEF Schedule, PadRecords, Messages
<1> HIDE DEF s
<1>5. r = IF p.queuedClickCount = 0 /\ ~p.clickInProgress THEN s ELSE q
  BY DEF queueClickWithDelay, s, q
<1> HIDE DEF r
<1>6. CASE p.queuedClickCount = 0 /\ ~p.clickInProgress
  BY <1>3, <1>4, <1>5, <1>6 DEF PadGood, ClicksEnd, ClicksSent, PadHolds, r
<1>7. CASE ~(p.queuedClickCount = 0 /\ ~p.clickInProgress)
  <2>1. ClicksSent(q)
    BY <1>1, <1>3, <1>7 DEF PadGood, ClicksSent
  <2> QED BY <1>3, <1>5, <1>7, <2>1 DEF PadGood, ClicksEnd, PadHolds, r
<1> QED BY <1>6, <1>7

\* A message comes and is not scheduled any more.
LEMMA CancelFields ==
  ASSUME NEW p \in PadRecords, NEW ms
  PROVE  LET r == Cancel(p, ms) IN
         /\ r \in PadRecords /\ r.calls = p.calls
         /\ r.gesture = p.gesture /\ r.touches = p.touches
         /\ r.ignoresMultiTouchSequence = p.ignoresMultiTouchSequence
         /\ r.isDragging = p.isDragging /\ r.clickInProgress = p.clickInProgress
         /\ r.queuedClickCount = p.queuedClickCount /\ r.scheduled = p.scheduled \ ms
BY DEF Cancel, PadRecords

\* What a message to be sent later leaves alone.
LEMMA ScheduleFields ==
  ASSUME NEW p \in PadRecords, NEW m \in Messages
  PROVE  LET r == Schedule(p, m) IN
         /\ r \in PadRecords /\ r.calls = p.calls
         /\ r.gesture = p.gesture /\ r.touches = p.touches
         /\ r.ignoresMultiTouchSequence = p.ignoresMultiTouchSequence
         /\ r.isDragging = p.isDragging /\ r.clickInProgress = p.clickInProgress
         /\ r.queuedClickCount = p.queuedClickCount /\ r.scheduled = p.scheduled \cup {m}
BY DEF Schedule, PadRecords

\* A click is sent, if there is one and no drag.
LEMMA SendKeeps ==
  ASSUME NEW a, PadGood(a), NoClicksInDrag(a), "sendNextQueuedClick" \in a.scheduled
  PROVE  LET r == sendNextQueuedClick(Cancel(a, {"sendNextQueuedClick"})) IN
         Keeps(a, r) /\ r.isDragging = a.isDragging
<1> DEFINE p == Cancel(a, {"sendNextQueuedClick"})
           q == [p EXCEPT !.queuedClickCount = @ - 1, !.clickInProgress = TRUE]
           s == Schedule(q, "finishQueuedClick")
           d == Calls(s, "down")
           r == sendNextQueuedClick(p)
<1>1. a \in PadRecords /\ a.calls \in Seq(ViewCalls) /\ "down" \in ViewCalls
  BY DEF PadGood, PadRecords, ViewCalls
<1>2. /\ p \in PadRecords /\ p.calls = a.calls
      /\ p.gesture = a.gesture /\ p.touches = a.touches
      /\ p.ignoresMultiTouchSequence = a.ignoresMultiTouchSequence
      /\ p.isDragging = a.isDragging /\ p.clickInProgress = a.clickInProgress
      /\ p.queuedClickCount = a.queuedClickCount
      /\ p.scheduled = a.scheduled \ {"sendNextQueuedClick"}
  BY <1>1, CancelFields
<1>3. r = IF p.queuedClickCount = 0 \/ p.isDragging \/ p.gesture.pendingDragStart THEN p ELSE d
  BY DEF sendNextQueuedClick
<1> HIDE DEF p
<1>4. CASE p.queuedClickCount = 0 \/ p.isDragging \/ p.gesture.pendingDragStart
  <2>1. p.queuedClickCount = 0
    BY <1>2, <1>4 DEF NoClicksInDrag
  <2>2. PadGood(p) /\ NoClicksInDrag(p)
    BY <1>2, <2>1 DEF PadGood, ClicksEnd, ClicksSent, NoClicksInDrag
  <2> QED BY <1>2, <1>3, <1>4, <2>2 DEF Keeps, PadHolds, p
<1>5. CASE ~(p.queuedClickCount = 0 \/ p.isDragging \/ p.gesture.pendingDragStart)
  <2>1. p.queuedClickCount - 1 \in 0 .. MaxClicks
    BY <1>2, <1>5, TrackPadAssumption DEF PadRecords
  <2>2. /\ q \in PadRecords /\ q.calls = p.calls
        /\ q.gesture = p.gesture /\ q.touches = p.touches
        /\ q.ignoresMultiTouchSequence = p.ignoresMultiTouchSequence
        /\ q.isDragging = p.isDragging /\ q.clickInProgress = TRUE
        /\ q.queuedClickCount = p.queuedClickCount - 1 /\ q.scheduled = p.scheduled
    BY <1>2, <2>1 DEF PadRecords
  <2> HIDE DEF q
  <2>3. /\ s \in PadRecords /\ s.calls = q.calls
        /\ s.gesture = q.gesture /\ s.touches = q.touches
        /\ s.ignoresMultiTouchSequence = q.ignoresMultiTouchSequence
        /\ s.isDragging = q.isDragging /\ s.clickInProgress = q.clickInProgress
        /\ s.scheduled = q.scheduled \cup {"finishQueuedClick"}
    BY <2>2, ScheduleFields DEF Messages
  <2> HIDE DEF s
  <2>4. /\ d \in PadRecords /\ d.calls = Append(s.calls, "down")
        /\ d.gesture = s.gesture /\ d.touches = s.touches
        /\ d.ignoresMultiTouchSequence = s.ignoresMultiTouchSequence
        /\ d.isDragging = s.isDragging /\ d.clickInProgress = s.clickInProgress
        /\ d.scheduled = s.scheduled
    BY <1>1, <2>3, CallsFields
  <2> HIDE DEF d
  <2>5. d.isDragging = FALSE /\ d.clickInProgress = TRUE
    BY <1>2, <1>5, <2>2, <2>3, <2>4 DEF PadRecords
  <2>6. PadGood(d) /\ NoClicksInDrag(d)
    BY <1>2, <1>5, <2>2, <2>3, <2>4, <2>5 DEF PadGood, ClicksEnd, ClicksSent, NoClicksInDrag
  <2>7. \A now : PadHolds(d, now)
    BY <1>1, <1>2, <2>2, <2>3, <2>4, <2>5, HeldAppends DEF PadHolds
  <2>8. Keeps(a, d) /\ d.isDragging = a.isDragging
    BY <1>2, <2>2, <2>3, <2>4, <2>6, <2>7 DEF Keeps
  <2> QED BY <1>3, <1>5, <2>8 DEF p
<1> QED BY <1>4, <1>5

\* A click ends; a drag that waited for it or the next click is scheduled.
LEMMA FinishKeeps ==
  ASSUME NEW a, PadGood(a), NoClicksInDrag(a), "finishQueuedClick" \in a.scheduled
  PROVE  LET r == finishQueuedClick(Cancel(a, {"finishQueuedClick"})) IN
         Keeps(a, r) /\ r.isDragging = a.isDragging
<1> DEFINE p == Cancel(a, {"finishQueuedClick"})
           e == [p EXCEPT !.clickInProgress = FALSE]
           q == Calls(e, "up")
           r == finishQueuedClick(p)
<1>1. a \in PadRecords /\ a.calls \in Seq(ViewCalls) /\ "up" \in ViewCalls
  BY DEF PadGood, PadRecords, ViewCalls
<1>2. /\ p \in PadRecords /\ p.calls = a.calls
      /\ p.gesture = a.gesture /\ p.touches = a.touches
      /\ p.ignoresMultiTouchSequence = a.ignoresMultiTouchSequence
      /\ p.isDragging = a.isDragging
      /\ p.queuedClickCount = a.queuedClickCount
      /\ p.scheduled = a.scheduled \ {"finishQueuedClick"}
  BY <1>1, CancelFields
<1>3. r = IF p.gesture.pendingDragStart THEN Schedule(q, "beginPendingDrag")
          ELSE IF p.queuedClickCount > 0 THEN Schedule(q, "sendNextQueuedClick") ELSE q
  BY DEF finishQueuedClick
<1> HIDE DEF p
<1>4. /\ e \in PadRecords /\ e.calls = p.calls
      /\ e.gesture = p.gesture /\ e.touches = p.touches
      /\ e.ignoresMultiTouchSequence = p.ignoresMultiTouchSequence
      /\ e.isDragging = p.isDragging /\ e.clickInProgress = FALSE
      /\ e.queuedClickCount = p.queuedClickCount /\ e.scheduled = p.scheduled
  BY <1>2 DEF PadRecords
<1> HIDE DEF e
<1>5. /\ q \in PadRecords /\ q.calls = Append(e.calls, "up")
      /\ q.gesture = e.gesture /\ q.touches = e.touches
      /\ q.ignoresMultiTouchSequence = e.ignoresMultiTouchSequence
      /\ q.isDragging = e.isDragging /\ q.clickInProgress = e.clickInProgress
      /\ q.queuedClickCount = e.queuedClickCount /\ q.scheduled = e.scheduled
  BY <1>1, <1>4, CallsFields
<1> HIDE DEF q
<1>6. q.isDragging = FALSE /\ q.clickInProgress = FALSE
  BY <1>1, <1>2, <1>4, <1>5 DEF PadGood, ClicksEnd, PadRecords
<1>7. \A now : PadHolds(q, now)
  BY <1>1, <1>2, <1>4, <1>5, <1>6, HeldAppends DEF PadHolds
<1>8. ASSUME NEW m \in {"beginPendingDrag", "sendNextQueuedClick"}, NEW s, s = Schedule(q, m),
             (m = "beginPendingDrag" /\ p.gesture.pendingDragStart) \/
             (m = "sendNextQueuedClick" /\ ~p.gesture.pendingDragStart)
      PROVE  Keeps(a, s) /\ s.isDragging = a.isDragging
  <2>1. /\ s \in PadRecords /\ s.calls = q.calls
        /\ s.gesture = q.gesture /\ s.touches = q.touches
        /\ s.ignoresMultiTouchSequence = q.ignoresMultiTouchSequence
        /\ s.isDragging = q.isDragging /\ s.clickInProgress = q.clickInProgress
        /\ s.queuedClickCount = q.queuedClickCount /\ s.scheduled = q.scheduled \cup {m}
    BY <1>5, <1>8, ScheduleFields DEF Messages
  <2>2. PadGood(s) /\ NoClicksInDrag(s)
    BY <1>2, <1>4, <1>5, <1>6, <1>8, <2>1
    DEF PadGood, ClicksEnd, ClicksSent, NoClicksInDrag, PadRecords
  <2>3. \A now : PadHolds(s, now)
    BY <1>7, <2>1 DEF PadHolds
  <2> QED BY <1>2, <1>4, <1>5, <2>1, <2>2, <2>3 DEF Keeps
<1>9. ASSUME ~p.gesture.pendingDragStart, ~(p.queuedClickCount > 0)
      PROVE  Keeps(a, q) /\ q.isDragging = a.isDragging
  <2>1. PadGood(q) /\ NoClicksInDrag(q)
    BY <1>2, <1>4, <1>5, <1>6, <1>9 DEF PadGood, ClicksEnd, ClicksSent, NoClicksInDrag, PadRecords
  <2> QED BY <1>2, <1>4, <1>5, <1>7, <2>1 DEF Keeps
<1> QED BY <1>3, <1>8, <1>9 DEF p

-----------------------------------------------------------------------------
\* The handlers of the trackpad.

\* A view as every handler leaves it.
Legal(p) ==
  /\ PadGood(p) /\ NoClicksInDrag(p)
  /\ p.touches \in 0 .. MaxTouches
  /\ p.isDragging => p.touches > 0 /\ ~p.ignoresMultiTouchSequence

\* A handler makes of the view p the view r, and adds calls that leave the button as r says.
Goes(p, r) == Legal(r) /\ \A now : PadHolds(p, now) => PadHolds(r, now)

\* Only the touches and what is made of them differ.
SameButTouches(p, r) ==
  /\ r \in PadRecords
  /\ r.gesture = p.gesture /\ r.isDragging = p.isDragging
  /\ r.clickInProgress = p.clickInProgress /\ r.queuedClickCount = p.queuedClickCount
  /\ r.scheduled = p.scheduled /\ r.calls = p.calls

\* Touches begin or end.
LEMMA TouchesFields ==
  ASSUME NEW p \in PadRecords, NEW t \in Int
  PROVE  LET r == [p EXCEPT !.touches = t] IN
         /\ SameButTouches(p, r) /\ r.touches = t
         /\ r.ignoresMultiTouchSequence = p.ignoresMultiTouchSequence
BY DEF SameButTouches, PadRecords

\* A sequence of touches is ignored, or the next one is not.
LEMMA IgnoresFields ==
  ASSUME NEW p \in PadRecords, NEW b \in BOOLEAN
  PROVE  LET r == [p EXCEPT !.ignoresMultiTouchSequence = b] IN
         /\ SameButTouches(p, r) /\ r.touches = p.touches /\ r.ignoresMultiTouchSequence = b
BY DEF SameButTouches, PadRecords

\* The number of touches matters to no click and to no call.
LEMMA SameKeeps ==
  ASSUME NEW p, NEW r, PadGood(p), SameButTouches(p, r)
  PROVE  /\ PadGood(r) /\ (NoClicksInDrag(p) <=> NoClicksInDrag(r))
         /\ \A now : PadHolds(p, now) <=> PadHolds(r, now)
BY DEF SameButTouches, PadGood, ClicksEnd, ClicksSent, NoClicksInDrag, PadHolds

\* A first touch may be a tap; another one ends what the others were about to be.
LEMMA TouchesBeganGoes ==
  ASSUME Legal(pad), NEW n \in 1 .. MaxTouches, NEW near \in BOOLEAN, touchesBegan(n, near)
  PROVE  Goes(pad, pad')
<1> DEFINE p == [pad EXCEPT !.touches = @ + n]
           c == CancelSequence(p)
           d == [c EXCEPT !.ignoresMultiTouchSequence = TRUE]
           g == [p EXCEPT !.gesture.shouldClick = TRUE, !.gesture.isSecondTap = near]
           s == Schedule(g, "beginDraggingFromSecondTap")
<1>1. pad \in PadRecords /\ pad.touches \in 0 .. MaxTouches /\ pad.touches + n \in Int
      /\ MaxTouches \in Nat
  BY TrackPadAssumption DEF Legal, PadGood
<1>2. SameButTouches(pad, p) /\ p.touches = pad.touches + n
      /\ p.ignoresMultiTouchSequence = pad.ignoresMultiTouchSequence
  BY <1>1, TouchesFields
<1>3. /\ p.touches <= MaxTouches
      /\ pad' = IF p.touches > 1 THEN d
                ELSE IF p.ignoresMultiTouchSequence THEN p
                ELSE IF near THEN s ELSE g
  BY DEF touchesBegan
<1> HIDE DEF p
<1>4. PadGood(p) /\ NoClicksInDrag(p) /\ p \in PadRecords
      /\ p.touches \in 0 .. MaxTouches /\ p.touches > 0
      /\ \A now : PadHolds(pad, now) => PadHolds(p, now)
  BY <1>1, <1>2, <1>3, SameKeeps DEF Legal, PadGood
<1>5. CASE p.touches > 1
  <2>1. Keeps(p, c) /\ c.isDragging = FALSE /\ c \in PadRecords
    BY <1>4, CancelSequenceKeeps DEF Keeps, PadGood
  <2> HIDE DEF c
  <2>2. SameButTouches(c, d) /\ d.touches = c.touches /\ d.ignoresMultiTouchSequence = TRUE
    BY <2>1, IgnoresFields
  <2> HIDE DEF d
  <2>3. PadGood(d) /\ (NoClicksInDrag(c) <=> NoClicksInDrag(d))
        /\ \A now : PadHolds(c, now) <=> PadHolds(d, now)
    BY <2>1, <2>2, SameKeeps DEF Keeps
  <2>4. d.isDragging = FALSE /\ d.touches \in 0 .. MaxTouches
    BY <1>4, <2>1, <2>2 DEF Keeps, SameButTouches
  <2> QED BY <1>3, <1>4, <1>5, <2>1, <2>3, <2>4 DEF Keeps, Goes, Legal
<1>6. CASE ~(p.touches > 1) /\ p.ignoresMultiTouchSequence
  <2>1. ~p.isDragging
    BY <1>2, <1>6 DEF Legal, SameButTouches
  <2> QED BY <1>3, <1>4, <1>6, <2>1 DEF Goes, Legal
<1>7. CASE ~(p.touches > 1) /\ ~p.ignoresMultiTouchSequence
  <2>1. SameButGesture(p, g) /\ g \in PadRecords
    BY <1>4 DEF SameButGesture, PadRecords, Gestures
  <2> HIDE DEF g
  <2>2. Keeps(p, g) /\ PadGood(g) /\ NoClicksInDrag(g)
    BY <1>4, <2>1, GestureKeeps DEF Keeps
  <2>3. /\ s \in PadRecords /\ s.calls = g.calls
        /\ s.gesture = g.gesture /\ s.touches = g.touches
        /\ s.ignoresMultiTouchSequence = g.ignoresMultiTouchSequence
        /\ s.isDragging = g.isDragging /\ s.clickInProgress = g.clickInProgress
        /\ s.queuedClickCount = g.queuedClickCount
        /\ s.scheduled = g.scheduled \cup {"beginDraggingFromSecondTap"}
    BY <2>1, ScheduleFields DEF Messages
  <2> HIDE DEF s
  <2>4. PadGood(s) /\ NoClicksInDrag(s) /\ \A now : PadHolds(g, now) => PadHolds(s, now)
    BY <2>2, <2>3 DEF PadGood, ClicksEnd, ClicksSent, NoClicksInDrag, PadHolds
  <2>5. g.touches = p.touches /\ g.ignoresMultiTouchSequence = FALSE
    BY <1>4, <1>7, <2>1 DEF SameButGesture, PadRecords
  <2>6. Goes(pad, g)
    BY <1>4, <2>2, <2>5 DEF Goes, Legal, Keeps
  <2>7. Goes(pad, s)
    BY <1>4, <2>2, <2>3, <2>4, <2>5 DEF Goes, Legal, Keeps
  <2> QED BY <1>3, <1>7, <2>6, <2>7
<1> QED BY <1>5, <1>6, <1>7

\* A touch that moves may begin a drag; the cursor moves.
LEMMA TouchesMovedGoes ==
  ASSUME Legal(pad), NEW far \in BOOLEAN, NEW moved \in BOOLEAN, NEW forced \in BOOLEAN,
         touchesMoved(far, moved, forced)
  PROVE  Goes(pad, pad')
<1> DEFINE holds == pad.gesture.isSecondTap /\ ~pad.isDragging /\ ~pad.gesture.pendingDragStart
           a == Cancel(pad, {"beginDraggingFromSecondTap"})
           b == [a EXCEPT !.gesture.isSecondTap = FALSE]
           c == startDragging(b)
           p == IF holds THEN c ELSE pad
           d == [p EXCEPT !.gesture.shouldClick = FALSE]
           e == Calls(d, "move")
           q == IF moved THEN e ELSE p
           f == [q EXCEPT !.gesture.didForceClick = TRUE]
           g == startDragging(f)
<1>1. /\ pad.touches > 0 /\ ~pad.ignoresMultiTouchSequence
      /\ pad' = IF forced /\ ~q.gesture.didForceClick THEN g ELSE q
  BY DEF touchesMoved, cancelSecondTapDragHold
<1>2. PadGood(pad) /\ NoClicksInDrag(pad) /\ pad \in PadRecords
      /\ pad.touches \in 0 .. MaxTouches
  BY DEF Legal, PadGood
<1>3. Keeps(pad, p)
  <2>1. Keeps(pad, a) /\ PadGood(a) /\ a \in PadRecords
    BY <1>2, CancelKeeps DEF Keeps, PadGood
  <2> HIDE DEF a
  <2>2. SameButGesture(a, b)
    BY <2>1 DEF SameButGesture, PadRecords, Gestures
  <2> HIDE DEF b
  <2>3. Keeps(a, b) /\ PadGood(b)
    BY <2>1, <2>2, GestureKeeps DEF Keeps
  <2>4. Keeps(b, c)
    BY <2>3, StartKeeps
  <2> HIDE DEF c
  <2>5. Keeps(pad, c)
    BY <2>1, <2>3, <2>4, KeepsAll
  <2>6. Keeps(pad, pad)
    BY <1>2 DEF Keeps
  <2> QED BY <2>5, <2>6
<1> HIDE DEF p
<1>4. PadGood(p) /\ p \in PadRecords
  BY <1>3 DEF Keeps, PadGood
<1>5. Keeps(p, q)
  <2>1. SameButGesture(p, d)
    BY <1>4 DEF SameButGesture, PadRecords, Gestures
  <2> HIDE DEF d
  <2>2. Keeps(p, d) /\ PadGood(d)
    BY <1>4, <2>1, GestureKeeps DEF Keeps
  <2>3. Keeps(d, e)
    BY <2>2, MoveKeeps
  <2> HIDE DEF e
  <2>4. Keeps(p, e)
    BY <2>2, <2>3, KeepsAll
  <2>5. Keeps(p, p)
    BY <1>4 DEF Keeps
  <2> QED BY <2>4, <2>5
<1> HIDE DEF q
<1>6. PadGood(q) /\ q \in PadRecords /\ Keeps(pad, q)
  BY <1>3, <1>5, KeepsAll DEF Keeps, PadGood
<1>7. Keeps(pad, g)
  <2>1. SameButGesture(q, f)
    BY <1>6 DEF SameButGesture, PadRecords, Gestures
  <2> HIDE DEF f
  <2>2. Keeps(q, f) /\ PadGood(f)
    BY <1>6, <2>1, GestureKeeps DEF Keeps
  <2>3. Keeps(f, g)
    BY <2>2, StartKeeps
  <2> HIDE DEF g
  <2>4. Keeps(q, g)
    BY <2>2, <2>3, KeepsAll
  <2> QED BY <1>6, <2>4, KeepsAll
<1> HIDE DEF g
<1>8. Keeps(pad, pad')
  BY <1>1, <1>6, <1>7
<1> QED BY <1>1, <1>2, <1>8 DEF Keeps, Goes, Legal

\* A touch ends: a tap is queued, a drag stops.
LEMMA TouchesEndedGoes ==
  ASSUME Legal(pad), NEW n \in 1 .. MaxTouches, NEW quick \in BOOLEAN, touchesEnded(n, quick)
  PROVE  Goes(pad, pad')
<1> DEFINE e == [pad EXCEPT !.touches = @ - n]
           p == Cancel(e, {"beginDraggingFromSecondTap"})
           clicks == p.gesture.shouldClick /\ quick
           i == [p EXCEPT !.ignoresMultiTouchSequence = p.touches # 0]
           j == [p EXCEPT !.ignoresMultiTouchSequence = p.touches # 0,
                          !.gesture.shouldClick = FALSE]
           a == cancelQueuedClicks(p)
           b == [a EXCEPT !.gesture.didForceClick = FALSE, !.gesture.pendingDragStart = FALSE,
                          !.gesture.clicked = FALSE]
           c == StopIfDragging(b)
           f == IF clicks THEN queueClickWithDelay(p) ELSE p
           g == StopIfDragging(f)
           h == [g EXCEPT !.gesture = [NoGesture EXCEPT !.clicked = clicks]]
<1>1. pad \in PadRecords /\ pad.touches \in 0 .. MaxTouches /\ pad.touches - n \in Int
      /\ MaxTouches \in Nat
  BY TrackPadAssumption DEF Legal, PadGood
<1>2. SameButTouches(pad, e) /\ e.touches = pad.touches - n
      /\ e.ignoresMultiTouchSequence = pad.ignoresMultiTouchSequence
  BY <1>1, TouchesFields
<1>3. /\ n <= pad.touches /\ (quick => p.queuedClickCount < MaxClicks)
      /\ pad' = IF p.ignoresMultiTouchSequence THEN j
                ELSE IF p.touches > 0 THEN p
                ELSE IF p.gesture.didForceClick THEN c ELSE h
  BY DEF touchesEnded, cancelSecondTapDragHold
<1> HIDE DEF e
<1>4. PadGood(e) /\ NoClicksInDrag(e) /\ e \in PadRecords
      /\ e.touches \in 0 .. MaxTouches
      /\ \A now : PadHolds(pad, now) => PadHolds(e, now)
  BY <1>1, <1>2, <1>3, SameKeeps DEF Legal, PadGood
<1>5. Keeps(e, p) /\ p.gesture = e.gesture /\ p.isDragging = e.isDragging
  BY <1>4, CancelKeeps
<1> HIDE DEF p
<1>6. /\ PadGood(p) /\ NoClicksInDrag(p) /\ p \in PadRecords
      /\ p.touches \in 0 .. MaxTouches
      /\ \A now : PadHolds(pad, now) => PadHolds(p, now)
      /\ p.isDragging => ~p.ignoresMultiTouchSequence
  BY <1>2, <1>4, <1>5 DEF Keeps, PadGood, Legal, SameButTouches
<1>7. ASSUME p.ignoresMultiTouchSequence
      PROVE  Goes(pad, j)
  <2>1. SameButTouches(p, i) /\ i.touches = p.touches
    BY <1>6, IgnoresFields
  <2>2. j = [i EXCEPT !.gesture.shouldClick = FALSE]
    BY <1>6 DEF PadRecords
  <2> HIDE DEF i, j
  <2>3. PadGood(i) /\ NoClicksInDrag(i) /\ i \in PadRecords
        /\ \A now : PadHolds(p, now) => PadHolds(i, now)
    BY <1>6, <2>1, SameKeeps DEF PadGood
  <2>4. SameButGesture(i, j)
    BY <2>2, <2>3 DEF SameButGesture, PadRecords, Gestures
  <2>5. Keeps(i, j)
    BY <2>3, <2>4, GestureKeeps
  <2>6. ~j.isDragging /\ j.touches \in 0 .. MaxTouches
    BY <1>6, <1>7, <2>1, <2>4 DEF SameButTouches, SameButGesture
  <2> QED BY <1>6, <2>3, <2>5, <2>6 DEF Keeps, Goes, Legal
<1>8. ASSUME ~p.ignoresMultiTouchSequence, p.touches > 0
      PROVE  Goes(pad, p)
  BY <1>6, <1>8 DEF Goes, Legal
<1>9. Goes(pad, c)
  <2>1. Keeps(p, a) /\ PadGood(a) /\ a \in PadRecords
    BY <1>6, CancelQueueKeeps DEF Keeps, PadGood
  <2> HIDE DEF a
  <2>2. SameButGesture(a, b)
    BY <2>1 DEF SameButGesture, PadRecords, Gestures
  <2> HIDE DEF b
  <2>3. Keeps(a, b) /\ PadGood(b)
    BY <2>1, <2>2, GestureKeeps DEF Keeps
  <2>4. Keeps(b, c) /\ c.isDragging = FALSE
    BY <2>3, StopKeeps
  <2> HIDE DEF c
  <2>5. Keeps(p, c)
    BY <2>1, <2>3, <2>4, KeepsAll
  <2> QED BY <1>6, <2>4, <2>5 DEF Keeps, Goes, Legal
<1>10. Goes(pad, h)
  <2>1. /\ f.touches = p.touches /\ PadGood(f)
        /\ \A now : PadHolds(p, now) => PadHolds(f, now)
    <3>1. CASE clicks
      BY <1>3, <1>6, <3>1, QueueKeepsClicks
    <3>2. CASE ~clicks
      BY <1>6, <3>2
    <3> QED BY <3>1, <3>2
  <2> HIDE DEF f
  <2>2. Keeps(f, g) /\ PadGood(g) /\ g.isDragging = FALSE /\ g \in PadRecords
    BY <2>1, StopKeeps DEF Keeps, PadGood
  <2>3. clicks \in BOOLEAN
    BY <1>6 DEF PadRecords, Gestures
  <2> HIDE DEF g, clicks
  <2>4. SameButGesture(g, h) /\ h.gesture.pendingDragStart = FALSE
    BY <2>2, <2>3 DEF SameButGesture, PadRecords, Gestures, NoGesture
  <2> HIDE DEF h
  <2>5. Keeps(g, h)
    BY <2>2, <2>4, GestureKeeps
  <2>6. NoClicksInDrag(h) /\ h.isDragging = FALSE /\ h.touches = p.touches
    BY <2>1, <2>2, <2>4 DEF NoClicksInDrag, SameButGesture, Keeps
  <2> QED BY <1>6, <2>1, <2>2, <2>5, <2>6 DEF Keeps, Goes, Legal
<1> QED BY <1>3, <1>7, <1>8, <1>9, <1>10

\* Touches are cancelled by the system.
LEMMA TouchesCancelledGoes ==
  ASSUME Legal(pad), NEW n \in 1 .. MaxTouches, touchesCancelled(n)
  PROVE  Goes(pad, pad')
<1> DEFINE e == [pad EXCEPT !.touches = @ - n]
           p == CancelSequence(e)
           r == [p EXCEPT !.ignoresMultiTouchSequence = @ /\ p.touches # 0]
<1>1. pad \in PadRecords /\ pad.touches \in 0 .. MaxTouches /\ pad.touches - n \in Int
      /\ MaxTouches \in Nat
  BY TrackPadAssumption DEF Legal, PadGood
<1>2. SameButTouches(pad, e) /\ e.touches = pad.touches - n
  BY <1>1, TouchesFields
<1>3. n <= pad.touches /\ pad' = r
  BY DEF touchesCancelled
<1> HIDE DEF e
<1>4. PadGood(e) /\ NoClicksInDrag(e) /\ e.touches \in 0 .. MaxTouches
      /\ \A now : PadHolds(pad, now) => PadHolds(e, now)
  BY <1>1, <1>2, <1>3, SameKeeps DEF Legal
<1>5. Keeps(e, p) /\ p \in PadRecords /\ p.isDragging = FALSE
  BY <1>4, CancelSequenceKeeps DEF Keeps, PadGood
<1> HIDE DEF p
<1>6. SameButTouches(p, r) /\ r.touches = p.touches
  BY <1>5, IgnoresFields DEF PadRecords
<1> HIDE DEF r
<1>7. PadGood(r) /\ NoClicksInDrag(r) /\ \A now : PadHolds(p, now) => PadHolds(r, now)
  BY <1>4, <1>5, <1>6, SameKeeps DEF Keeps
<1>8. r.isDragging = FALSE /\ r.touches \in 0 .. MaxTouches
  BY <1>4, <1>5, <1>6 DEF Keeps, SameButTouches
<1> QED BY <1>3, <1>4, <1>5, <1>7, <1>8 DEF Keeps, Goes, Legal

\* A message comes.
LEMMA PerformGoes ==
  ASSUME Legal(pad), NEW m \in Messages, Perform(m)
  PROVE  Goes(pad, pad')
<1>1. PadGood(pad) /\ NoClicksInDrag(pad) /\ pad.touches \in 0 .. MaxTouches
      /\ pad \in PadRecords
  BY DEF Legal, PadGood
<1>2. CASE m = "sendNextQueuedClick"
  <2>1. "sendNextQueuedClick" \in pad.scheduled
        /\ pad' = sendNextQueuedClick(Cancel(pad, {"sendNextQueuedClick"}))
    BY <1>2 DEF Perform
  <2>2. Keeps(pad, pad') /\ pad'.isDragging = pad.isDragging
    BY <1>1, <2>1, SendKeeps
  <2> QED BY <1>1, <2>2 DEF Keeps, Goes, Legal
<1>3. CASE m = "finishQueuedClick"
  <2>1. "finishQueuedClick" \in pad.scheduled
        /\ pad' = finishQueuedClick(Cancel(pad, {"finishQueuedClick"}))
    BY <1>3 DEF Perform
  <2>2. Keeps(pad, pad') /\ pad'.isDragging = pad.isDragging
    BY <1>1, <2>1, FinishKeeps
  <2> QED BY <1>1, <2>2 DEF Keeps, Goes, Legal
<1>4. CASE m \in {"beginDraggingFromSecondTap", "beginPendingDrag"}
  <2> DEFINE p == Cancel(pad, {m})
             s == startDragging(p)
             starts == p.touches > 0 /\ ~p.ignoresMultiTouchSequence
             waits == p.gesture.pendingDragStart /\ starts
             taps == p.gesture.isSecondTap /\ p.gesture.shouldClick /\ starts
             b == IF waits THEN s ELSE p
             c == [b EXCEPT !.gesture.pendingDragStart = FALSE]
  <2>1. pad' = IF m = "beginPendingDrag" THEN c ELSE IF taps THEN s ELSE p
    BY <1>4 DEF Perform, beginDraggingFromSecondTap, beginPendingDrag
  <2>2. Keeps(pad, p) /\ PadGood(p) /\ p.isDragging = pad.isDragging
    <3>1. {m} \in SUBSET {"beginDraggingFromSecondTap", "beginPendingDrag"}
      BY <1>4
    <3> QED BY <1>1, <3>1, CancelKeeps DEF Keeps
  <2> HIDE DEF p
  <2>3. Keeps(p, s)
    BY <2>2, StartKeeps
  <2> HIDE DEF s
  <2>4. Goes(pad, p)
    BY <1>1, <2>2 DEF Keeps, Goes, Legal
  <2>5. ASSUME starts PROVE Goes(pad, s)
    <3>1. Keeps(pad, s)
      BY <2>2, <2>3, KeepsAll
    <3> QED BY <1>1, <2>3, <2>5, <3>1 DEF Keeps, Goes, Legal
  <2>6. Goes(pad, b)
    BY <2>4, <2>5
  <2> HIDE DEF b
  <2>7. Goes(pad, c)
    <3>1. SameButGesture(b, c)
      BY <2>6 DEF SameButGesture, Goes, Legal, PadGood, PadRecords, Gestures
    <3> HIDE DEF c
    <3>2. Keeps(b, c)
      BY <2>6, <3>1, GestureKeeps DEF Goes, Legal
    <3> QED BY <2>6, <3>1, <3>2 DEF Goes, Legal, Keeps, SameButGesture
  <2> QED BY <2>1, <2>4, <2>5, <2>7
<1> QED BY <1>2, <1>3, <1>4 DEF Messages

\* Nothing has been done on a new view.
LEMMA NewPadIsLegal == Legal(NewPad)
BY TrackPadAssumption
DEF Legal, PadGood, PadRecords, Gestures, ClicksEnd, ClicksSent, NoClicksInDrag, NewPad, NoGesture,
    ViewCalls

\* The view is removed: it releases the button if it holds it.
LEMMA PadRemovedGoes ==
  ASSUME Legal(pad), willMoveToSuperview
  PROVE  Goes(pad, pad')
<1> DEFINE held == pad.isDragging \/ pad.clickInProgress
           cs == IF held THEN <<"up">> ELSE <<>>
           r == [NewPad EXCEPT !.calls = cs]
<1>1. pad.calls = <<>> /\ pad' = r
  BY DEF willMoveToSuperview, UiIsFree
<1> HIDE DEF held
<1>2. /\ cs \in Seq(ViewCalls)
      /\ held => DOMAIN cs = {1} /\ cs[1] = "up"
      /\ ~held => DOMAIN cs = {}
  <2>1. <<"up">> \in Seq(ViewCalls) /\ <<>> \in Seq(ViewCalls)
    BY DEF ViewCalls
  <2>2. Len(<<"up">>) = 1 /\ <<"up">>[1] = "up" /\ Len(<<>>) = 0
    OBVIOUS
  <2>3. DOMAIN <<"up">> = {1} /\ DOMAIN <<>> = {}
    BY <2>2
  <2> QED BY <2>1, <2>2, <2>3
<1> HIDE DEF cs
<1>3. SameButGesture([NewPad EXCEPT !.calls = cs], r) /\ NewPad \in PadRecords
      /\ r \in PadRecords /\ r.calls = cs /\ r.isDragging = FALSE /\ r.clickInProgress = FALSE
      /\ r.queuedClickCount = 0 /\ r.scheduled = {} /\ r.touches = 0
      /\ r.gesture.pendingDragStart = FALSE
  BY <1>2, NewPadIsLegal
  DEF Legal, PadGood, PadRecords, Gestures, NewPad, NoGesture, SameButGesture
<1> HIDE DEF r
<1>4. Legal(r)
  BY <1>3, TrackPadAssumption DEF Legal, PadGood, ClicksEnd, ClicksSent, NoClicksInDrag
<1>5. ASSUME NEW now, PadHolds(pad, now)
      PROVE  PadHolds(r, now)
  <2>1. now = held
    BY <1>1, <1>5 DEF PadHolds, Held, held
  <2>2. CASE held
    BY <1>2, <1>3, <2>2 DEF PadHolds, Held
  <2>3. CASE ~held
    <3>1. now = FALSE
      BY <2>1, <2>3 DEF held
    <3> QED BY <1>2, <1>3, <2>3, <3>1 DEF PadHolds, Held
  <2> QED BY <2>2, <2>3
<1> QED BY <1>1, <1>4, <1>5 DEF Goes

-----------------------------------------------------------------------------
\* The methods of the touch screen.

ScreenRecords ==
  [touches : Int, ignoresMultiTouchSequence : BOOLEAN, shouldClick : BOOLEAN,
   isDragging : BOOLEAN, mouseButtonIsDown : BOOLEAN, holdDrag : BOOLEAN,
   scheduled : Seq({"down", "up"}), calls : Seq(ViewCalls)]

\* The calls that are to be made leave the button as the view believes it to be.
ScreenHolds(s, now) == Held(s.calls, now, s.mouseButtonIsDown)

\* What touches have begun differs in nothing.
SameScreenTouches(s, r) ==
  /\ r.touches = s.touches /\ r.ignoresMultiTouchSequence = s.ignoresMultiTouchSequence
  /\ r.shouldClick = s.shouldClick /\ r.isDragging = s.isDragging /\ r.holdDrag = s.holdDrag

\* The cursor moves.
LEMMA ScreenMoveFields ==
  ASSUME NEW s \in ScreenRecords
  PROVE  LET r == Calls(s, "move") IN
         /\ r \in ScreenRecords /\ SameScreenTouches(s, r)
         /\ r.mouseButtonIsDown = s.mouseButtonIsDown /\ r.scheduled = s.scheduled
         /\ \A now : ScreenHolds(s, now) => ScreenHolds(r, now)
<1> DEFINE v == Append(s.calls, "move")
           r == Calls(s, "move")
<1>1. s.calls \in Seq(ViewCalls) /\ "move" \in ViewCalls
  BY DEF ScreenRecords, ViewCalls
<1>2. v \in Seq(ViewCalls)
  BY <1>1
<1>3. r = [s EXCEPT !.calls = v]
  BY DEF Calls
<1> HIDE DEF v
<1>4. /\ r \in ScreenRecords /\ SameScreenTouches(s, r) /\ r.calls = v
      /\ r.mouseButtonIsDown = s.mouseButtonIsDown /\ r.scheduled = s.scheduled
  BY <1>2, <1>3 DEF ScreenRecords, SameScreenTouches
<1> HIDE DEF r
<1>5. \A now : ScreenHolds(s, now) => ScreenHolds(r, now)
  BY <1>1, <1>4, HeldAppends DEF ScreenHolds, v
<1> QED BY <1>4, <1>5 DEF r

\* The button is pressed.
LEMMA MouseDownFields ==
  ASSUME NEW s \in ScreenRecords
  PROVE  LET r == mouseDown(s) IN
         /\ r \in ScreenRecords /\ SameScreenTouches(s, r)
         /\ r.mouseButtonIsDown = TRUE /\ r.scheduled = s.scheduled
         /\ \A now : ScreenHolds(r, now)
<1> DEFINE v == Append(s.calls, "down")
           r == mouseDown(s)
<1>1. s.calls \in Seq(ViewCalls) /\ "down" \in ViewCalls
  BY DEF ScreenRecords, ViewCalls
<1>2. v \in Seq(ViewCalls)
  BY <1>1
<1>3. r = [s EXCEPT !.mouseButtonIsDown = TRUE, !.calls = v]
  BY DEF Calls, mouseDown, ScreenRecords
<1> HIDE DEF v
<1>4. /\ r \in ScreenRecords /\ SameScreenTouches(s, r) /\ r.calls = v
      /\ r.mouseButtonIsDown = TRUE /\ r.scheduled = s.scheduled
  BY <1>2, <1>3 DEF ScreenRecords, SameScreenTouches
<1> HIDE DEF r
<1>5. \A now : ScreenHolds(r, now)
  BY <1>1, <1>4, HeldAppends DEF ScreenHolds, v
<1> QED BY <1>4, <1>5 DEF r

\* The button is released.
LEMMA MouseUpFields ==
  ASSUME NEW s \in ScreenRecords
  PROVE  LET r == mouseUp(s) IN
         /\ r \in ScreenRecords /\ SameScreenTouches(s, r)
         /\ r.mouseButtonIsDown = FALSE /\ r.scheduled = s.scheduled
         /\ \A now : ScreenHolds(r, now)
<1> DEFINE v == Append(s.calls, "up")
           r == mouseUp(s)
<1>1. s.calls \in Seq(ViewCalls) /\ "up" \in ViewCalls
  BY DEF ScreenRecords, ViewCalls
<1>2. v \in Seq(ViewCalls)
  BY <1>1
<1>3. r = [s EXCEPT !.mouseButtonIsDown = FALSE, !.calls = v]
  BY DEF Calls, mouseUp, ScreenRecords
<1> HIDE DEF v
<1>4. /\ r \in ScreenRecords /\ SameScreenTouches(s, r) /\ r.calls = v
      /\ r.mouseButtonIsDown = FALSE /\ r.scheduled = s.scheduled
  BY <1>2, <1>3 DEF ScreenRecords, SameScreenTouches
<1> HIDE DEF r
<1>5. \A now : ScreenHolds(r, now)
  BY <1>1, <1>4, HeldAppends DEF ScreenHolds, v
<1> QED BY <1>4, <1>5 DEF r

\* A press or release of the button is scheduled behind the others.
LEMMA LaterFields ==
  ASSUME NEW s \in ScreenRecords, NEW c \in {"down", "up"}
  PROVE  LET r == Later(s, c) IN
         /\ r \in ScreenRecords /\ SameScreenTouches(s, r)
         /\ r.mouseButtonIsDown = s.mouseButtonIsDown
         /\ r.scheduled # <<>> /\ Len(r.scheduled) = Len(s.scheduled) + 1
         /\ r.scheduled[Len(r.scheduled)] = c
         /\ (c = "up" /\ (\A i \in DOMAIN s.scheduled : s.scheduled[i] = "up") =>
               \A i \in DOMAIN r.scheduled : r.scheduled[i] = "up")
         /\ \A now : ScreenHolds(s, now) => ScreenHolds(r, now)
<1> DEFINE q == s.scheduled
           v == Append(q, c)
           r == Later(s, c)
<1>1. q \in Seq({"down", "up"})
  BY DEF ScreenRecords
<1>2. r = [s EXCEPT !.scheduled = v]
  BY DEF Later
<1> HIDE DEF q
<1>3. /\ v \in Seq({"down", "up"}) /\ Len(v) = Len(q) + 1 /\ v[Len(v)] = c /\ v # <<>>
      /\ DOMAIN q = 1 .. Len(q) /\ DOMAIN v = 1 .. Len(q) + 1 /\ Len(q) \in Nat
      /\ \A i \in 1 .. Len(q) : v[i] = q[i]
  BY <1>1
<1> HIDE DEF v
<1>4. /\ r \in ScreenRecords /\ SameScreenTouches(s, r) /\ r.calls = s.calls
      /\ r.mouseButtonIsDown = s.mouseButtonIsDown /\ r.scheduled = v
  BY <1>2, <1>3 DEF ScreenRecords, SameScreenTouches
<1> HIDE DEF r
<1>5. c = "up" /\ (\A i \in DOMAIN q : q[i] = "up") => \A i \in DOMAIN v : v[i] = "up"
  BY <1>3
<1>6. \A now : ScreenHolds(s, now) => ScreenHolds(r, now)
  BY <1>4 DEF ScreenHolds
<1> QED BY <1>3, <1>4, <1>5, <1>6 DEF r, q

\* A drag ends.
LEMMA ScreenStopFields ==
  ASSUME NEW s \in ScreenRecords
  PROVE  LET r == screenStopDragging(s) IN
         /\ r \in ScreenRecords /\ r.touches = s.touches
         /\ r.ignoresMultiTouchSequence = s.ignoresMultiTouchSequence
         /\ r.shouldClick = FALSE /\ r.isDragging = FALSE
         /\ r.mouseButtonIsDown = FALSE /\ r.scheduled = s.scheduled
         /\ \A now : ScreenHolds(r, now)
<1> DEFINE q == [s EXCEPT !.isDragging = FALSE, !.shouldClick = FALSE]
<1>1. /\ q \in ScreenRecords /\ q.touches = s.touches /\ q.isDragging = FALSE
      /\ q.ignoresMultiTouchSequence = s.ignoresMultiTouchSequence
      /\ q.shouldClick = FALSE /\ q.scheduled = s.scheduled
  BY DEF ScreenRecords
<1>2. screenStopDragging(s) = mouseUp(q)
  BY DEF screenStopDragging
<1> HIDE DEF q
<1> QED BY <1>1, <1>2, MouseUpFields DEF SameScreenTouches

\* A drag begins.
LEMMA ScreenStartFields ==
  ASSUME NEW s \in ScreenRecords
  PROVE  LET r == startDraggingAtTouchPoint(s) IN
         /\ r \in ScreenRecords /\ r.touches = s.touches
         /\ r.ignoresMultiTouchSequence = s.ignoresMultiTouchSequence
         /\ r.shouldClick = FALSE /\ r.isDragging = TRUE
         /\ r.scheduled = s.scheduled
         /\ \A now : ScreenHolds(r, now)
<1> DEFINE q == [s EXCEPT !.holdDrag = FALSE, !.isDragging = TRUE, !.shouldClick = FALSE]
           d == mouseDown(q)
           r == Calls(d, "move")
<1>1. /\ q \in ScreenRecords /\ q.touches = s.touches /\ q.isDragging = TRUE
      /\ q.ignoresMultiTouchSequence = s.ignoresMultiTouchSequence
      /\ q.shouldClick = FALSE /\ q.scheduled = s.scheduled
  BY DEF ScreenRecords
<1>2. startDraggingAtTouchPoint(s) = r
  BY DEF startDraggingAtTouchPoint
<1> HIDE DEF q
<1>3. /\ d \in ScreenRecords /\ SameScreenTouches(q, d) /\ d.scheduled = q.scheduled
      /\ \A now : ScreenHolds(d, now)
  BY <1>1, MouseDownFields
<1> HIDE DEF d
<1>4. /\ r \in ScreenRecords /\ SameScreenTouches(d, r) /\ r.scheduled = d.scheduled
      /\ \A now : ScreenHolds(r, now)
  BY <1>3, ScreenMoveFields
<1> QED BY <1>1, <1>2, <1>3, <1>4 DEF SameScreenTouches

\* What ends a sequence of touches releases the button, and nothing is left to do.
LEMMA ScreenCancelFields ==
  ASSUME NEW s \in ScreenRecords
  PROVE  LET r == ScreenCancelSequence(s) IN
         /\ r \in ScreenRecords /\ r.touches = s.touches
         /\ r.ignoresMultiTouchSequence = s.ignoresMultiTouchSequence
         /\ r.shouldClick = FALSE /\ r.isDragging = FALSE
         /\ r.mouseButtonIsDown = FALSE /\ r.scheduled = <<>>
         /\ \A now : ScreenHolds(s, now) => ScreenHolds(r, now)
<1> DEFINE q == [s EXCEPT !.holdDrag = FALSE, !.scheduled = <<>>]
           a == screenStopDragging(q)
           b == mouseUp(q)
           c == IF q.isDragging THEN a ELSE IF q.mouseButtonIsDown THEN b ELSE q
           r == [c EXCEPT !.shouldClick = FALSE]
<1>1. /\ q \in ScreenRecords /\ q.touches = s.touches /\ q.scheduled = <<>>
      /\ q.ignoresMultiTouchSequence = s.ignoresMultiTouchSequence
      /\ q.calls = s.calls /\ q.mouseButtonIsDown = s.mouseButtonIsDown
  <2>1. <<>> \in Seq({"down", "up"})
    OBVIOUS
  <2> QED BY <2>1 DEF ScreenRecords
<1>2. ScreenCancelSequence(s) = r
  BY DEF ScreenCancelSequence
<1> HIDE DEF q
<1>3. /\ a \in ScreenRecords /\ a.touches = q.touches /\ a.isDragging = FALSE
      /\ a.ignoresMultiTouchSequence = q.ignoresMultiTouchSequence
      /\ a.mouseButtonIsDown = FALSE /\ a.scheduled = q.scheduled
      /\ \A now : ScreenHolds(a, now)
  BY <1>1, ScreenStopFields
<1>4. /\ b \in ScreenRecords /\ b.touches = q.touches /\ b.isDragging = q.isDragging
      /\ b.ignoresMultiTouchSequence = q.ignoresMultiTouchSequence
      /\ b.mouseButtonIsDown = FALSE /\ b.scheduled = q.scheduled
      /\ \A now : ScreenHolds(b, now)
  BY <1>1, MouseUpFields DEF SameScreenTouches
<1>5. q.isDragging \in BOOLEAN /\ q.mouseButtonIsDown \in BOOLEAN
      /\ \A now : ScreenHolds(s, now) => ScreenHolds(q, now)
  BY <1>1 DEF ScreenRecords, ScreenHolds
<1> HIDE DEF a, b
<1>6. /\ c \in ScreenRecords /\ c.touches = s.touches /\ c.isDragging = FALSE
      /\ c.ignoresMultiTouchSequence = s.ignoresMultiTouchSequence
      /\ c.mouseButtonIsDown = FALSE /\ c.scheduled = <<>>
      /\ \A now : ScreenHolds(s, now) => ScreenHolds(c, now)
  BY <1>1, <1>3, <1>4, <1>5
<1> HIDE DEF c
<1>7. /\ r \in ScreenRecords /\ r.touches = c.touches /\ r.isDragging = c.isDragging
      /\ r.ignoresMultiTouchSequence = c.ignoresMultiTouchSequence
      /\ r.mouseButtonIsDown = c.mouseButtonIsDown /\ r.scheduled = c.scheduled
      /\ r.calls = c.calls /\ r.shouldClick = FALSE
  BY <1>6 DEF ScreenRecords
<1> HIDE DEF r
<1> QED BY <1>2, <1>6, <1>7 DEF ScreenHolds

-----------------------------------------------------------------------------
\* The handlers of the touch screen.

\* Once no touch counts any more the last message to come, if there is one, releases the
\* button.
EndsReleased(s) ==
  /\ s.scheduled = <<>> => ~s.mouseButtonIsDown
  /\ s.scheduled # <<>> => s.scheduled[Len(s.scheduled)] = "up"

\* A view as every handler leaves it, in the mouse mode or in the touch mode.
ScreenLegal(s, mousy) ==
  /\ s \in ScreenRecords
  /\ s.touches \in 0 .. MaxTouches /\ Len(s.scheduled) <= MaxScheduled
  /\ s.isDragging => s.touches > 0
  /\ s.ignoresMultiTouchSequence => ~s.shouldClick /\ ~s.isDragging
  /\ ~s.ignoresMultiTouchSequence => s.touches <= 1
  /\ mousy => ~s.shouldClick /\ ~s.isDragging
  /\ ~mousy => /\ \A i \in DOMAIN s.scheduled : s.scheduled[i] = "up"
               /\ s.mouseButtonIsDown => s.isDragging \/ s.scheduled # <<>>
  /\ s.touches = 0 \/ s.ignoresMultiTouchSequence => EndsReleased(s)

\* A handler makes of the view s the view r, and adds calls that leave the button as r says.
ScreenGoes(s, r, mousy) ==
  ScreenLegal(r, mousy) /\ \A now : ScreenHolds(s, now) => ScreenHolds(r, now)

\* In the touch mode all messages release the button.
LEMMA AllUpIsReleased ==
  ASSUME NEW s \in ScreenRecords, \A i \in DOMAIN s.scheduled : s.scheduled[i] = "up",
         s.scheduled = <<>> => ~s.mouseButtonIsDown
  PROVE  EndsReleased(s)
<1>1. s.scheduled \in Seq({"down", "up"})
  BY DEF ScreenRecords
<1>2. s.scheduled # <<>> => Len(s.scheduled) \in DOMAIN s.scheduled
  BY <1>1
<1> QED BY <1>2 DEF EndsReleased

\* A first touch is a press or may be a tap; another one ends it.
LEMMA ScreenBeganGoes ==
  ASSUME ScreenLegal(screen, usesMouseInputMode), NEW n \in 1 .. MaxTouches, screenTouchesBegan(n)
  PROVE  ScreenGoes(screen, screen', usesMouseInputMode)
<1> DEFINE s == [screen EXCEPT !.touches = @ + n]
           c == ScreenCancelSequence(s)
           d == [c EXCEPT !.ignoresMultiTouchSequence = TRUE]
           m == Calls(s, "move")
           l == Later(m, "down")
           t == [s EXCEPT !.shouldClick = TRUE, !.isDragging = FALSE, !.holdDrag = TRUE]
           u == Calls(t, "move")
<1>1. screen \in ScreenRecords /\ screen.touches \in 0 .. MaxTouches /\ MaxTouches \in Nat
      /\ Len(screen.scheduled) <= MaxScheduled /\ MaxScheduled \in Nat
      /\ Len(screen.scheduled) \in Nat
  BY TrackPadAssumption, TouchScreenAssumption DEF ScreenLegal, ScreenRecords
<1>2. /\ s \in ScreenRecords /\ s.touches = screen.touches + n
      /\ s.ignoresMultiTouchSequence = screen.ignoresMultiTouchSequence
      /\ s.shouldClick = screen.shouldClick /\ s.isDragging = screen.isDragging
      /\ s.mouseButtonIsDown = screen.mouseButtonIsDown
      /\ s.scheduled = screen.scheduled /\ s.calls = screen.calls
  BY <1>1 DEF ScreenRecords
<1>3. /\ s.touches <= MaxTouches /\ Len(s.scheduled) < MaxScheduled
      /\ screen' = IF s.touches > 1 THEN d
                   ELSE IF s.ignoresMultiTouchSequence THEN s
                   ELSE IF usesMouseInputMode THEN l ELSE u
  BY DEF screenTouchesBegan
<1> HIDE DEF s
<1>4. \A now : ScreenHolds(screen, now) => ScreenHolds(s, now)
  BY <1>2 DEF ScreenHolds
<1>5. s.touches \in 0 .. MaxTouches /\ s.touches > 0
  BY <1>1, <1>2, <1>3
<1>6. ASSUME s.touches > 1
      PROVE  ScreenGoes(screen, d, usesMouseInputMode)
  <2>1. /\ c \in ScreenRecords /\ c.touches = s.touches
        /\ c.shouldClick = FALSE /\ c.isDragging = FALSE
        /\ c.mouseButtonIsDown = FALSE /\ c.scheduled = <<>>
        /\ \A now : ScreenHolds(s, now) => ScreenHolds(c, now)
    BY <1>2, ScreenCancelFields
  <2> HIDE DEF c
  <2>2. /\ d \in ScreenRecords /\ d.touches = c.touches /\ d.ignoresMultiTouchSequence = TRUE
        /\ d.shouldClick = FALSE /\ d.isDragging = FALSE
        /\ d.mouseButtonIsDown = FALSE /\ d.scheduled = <<>> /\ d.calls = c.calls
    BY <2>1 DEF ScreenRecords
  <2> HIDE DEF d
  <2>3. Len(<<>>) = 0 /\ DOMAIN <<>> = {}
    OBVIOUS
  <2>4. ScreenLegal(d, usesMouseInputMode)
    BY <1>1, <1>5, <2>1, <2>2, <2>3 DEF ScreenLegal, EndsReleased
  <2> QED BY <1>4, <2>1, <2>2, <2>4 DEF ScreenGoes, ScreenHolds
<1>7. ASSUME ~(s.touches > 1), s.ignoresMultiTouchSequence
      PROVE  ScreenGoes(screen, s, usesMouseInputMode)
  <2>1. ScreenLegal(s, usesMouseInputMode)
    BY <1>2, <1>5, <1>7 DEF ScreenLegal, EndsReleased
  <2> QED BY <1>4, <2>1 DEF ScreenGoes
<1>8. ASSUME ~(s.touches > 1), ~s.ignoresMultiTouchSequence, usesMouseInputMode
      PROVE  ScreenGoes(screen, l, usesMouseInputMode)
  <2>1. /\ m \in ScreenRecords /\ SameScreenTouches(s, m)
        /\ m.mouseButtonIsDown = s.mouseButtonIsDown /\ m.scheduled = s.scheduled
        /\ \A now : ScreenHolds(s, now) => ScreenHolds(m, now)
    BY <1>2, ScreenMoveFields
  <2> HIDE DEF m
  <2>2. /\ l \in ScreenRecords /\ SameScreenTouches(m, l)
        /\ Len(l.scheduled) = Len(m.scheduled) + 1
        /\ \A now : ScreenHolds(m, now) => ScreenHolds(l, now)
    BY <2>1, LaterFields
  <2> HIDE DEF l
  <2>3. ScreenLegal(l, usesMouseInputMode)
    BY <1>1, <1>2, <1>3, <1>5, <1>8, <2>1, <2>2 DEF ScreenLegal, SameScreenTouches
  <2> QED BY <1>4, <2>1, <2>2, <2>3 DEF ScreenGoes
<1>9. ASSUME ~(s.touches > 1), ~s.ignoresMultiTouchSequence, ~usesMouseInputMode
      PROVE  ScreenGoes(screen, u, usesMouseInputMode)
  <2>1. /\ t \in ScreenRecords /\ t.touches = s.touches /\ t.isDragging = FALSE
        /\ t.ignoresMultiTouchSequence = s.ignoresMultiTouchSequence
        /\ t.mouseButtonIsDown = s.mouseButtonIsDown
        /\ t.scheduled = s.scheduled /\ t.calls = s.calls
    BY <1>2 DEF ScreenRecords
  <2> HIDE DEF t
  <2>2. /\ u \in ScreenRecords /\ SameScreenTouches(t, u)
        /\ u.mouseButtonIsDown = t.mouseButtonIsDown /\ u.scheduled = t.scheduled
        /\ \A now : ScreenHolds(t, now) => ScreenHolds(u, now)
    BY <2>1, ScreenMoveFields
  <2> HIDE DEF u
  <2>3. screen.touches = 0 /\ ~screen.isDragging
    BY <1>1, <1>2, <1>9 DEF ScreenLegal
  <2>4. ScreenLegal(u, usesMouseInputMode)
    BY <1>1, <1>2, <1>3, <1>5, <1>9, <2>1, <2>2, <2>3 DEF ScreenLegal, SameScreenTouches
  <2> QED BY <1>4, <2>1, <2>2, <2>4 DEF ScreenGoes, ScreenHolds
<1> QED BY <1>3, <1>6, <1>7, <1>8, <1>9

\* A drag begins, of a touch that has been a tap until now.
LEMMA ScreenDragGoes ==
  ASSUME NEW s, NEW mousy \in BOOLEAN, ScreenLegal(s, mousy), s.shouldClick, s.touches > 0
  PROVE  ScreenGoes(s, startDraggingAtTouchPoint(s), mousy)
<1> DEFINE r == startDraggingAtTouchPoint(s)
<1>1. /\ r \in ScreenRecords /\ r.touches = s.touches
      /\ r.ignoresMultiTouchSequence = s.ignoresMultiTouchSequence
      /\ r.shouldClick = FALSE /\ r.isDragging = TRUE
      /\ r.scheduled = s.scheduled
      /\ \A now : ScreenHolds(r, now)
  BY ScreenStartFields DEF ScreenLegal
<1> HIDE DEF r
<1>2. ScreenLegal(r, mousy)
  BY <1>1 DEF ScreenLegal
<1> QED BY <1>1, <1>2 DEF ScreenGoes, r

\* The cursor moves; a tap becomes a drag.
LEMMA ScreenMovedGoes ==
  ASSUME ScreenLegal(screen, usesMouseInputMode), NEW far \in BOOLEAN, screenTouchesMoved(far)
  PROVE  ScreenGoes(screen, screen', usesMouseInputMode)
<1>1. CASE screen' = Calls(screen, "move")
  <2> DEFINE r == Calls(screen, "move")
  <2>1. /\ r \in ScreenRecords /\ SameScreenTouches(screen, r)
        /\ r.mouseButtonIsDown = screen.mouseButtonIsDown /\ r.scheduled = screen.scheduled
        /\ \A now : ScreenHolds(screen, now) => ScreenHolds(r, now)
    BY ScreenMoveFields DEF ScreenLegal
  <2> HIDE DEF r
  <2>2. ScreenLegal(r, usesMouseInputMode)
    BY <2>1 DEF ScreenLegal, SameScreenTouches, EndsReleased
  <2> QED BY <1>1, <2>1, <2>2 DEF ScreenGoes, r
<1>2. CASE /\ ~usesMouseInputMode /\ screen.shouldClick /\ screen.touches > 0
           /\ screen' = startDraggingAtTouchPoint(screen)
  <2>1. usesMouseInputMode \in BOOLEAN
    BY DEF usesMouseInputMode
  <2> QED BY <1>2, <2>1, ScreenDragGoes
<1> QED BY <1>1, <1>2 DEF screenTouchesMoved

\* A touch that has been held becomes a drag.
LEMMA ScreenHeldGoes ==
  ASSUME ScreenLegal(screen, usesMouseInputMode), beginDraggingFromInitialTouch
  PROVE  ScreenGoes(screen, screen', usesMouseInputMode)
<1> DEFINE s == [screen EXCEPT !.holdDrag = FALSE]
<1>1. screen' = IF s.shouldClick /\ s.touches > 0 /\ ~s.isDragging
                  THEN startDraggingAtTouchPoint(s) ELSE s
  BY DEF beginDraggingFromInitialTouch
<1>2. /\ s \in ScreenRecords /\ s.touches = screen.touches
      /\ s.ignoresMultiTouchSequence = screen.ignoresMultiTouchSequence
      /\ s.shouldClick = screen.shouldClick /\ s.isDragging = screen.isDragging
      /\ s.mouseButtonIsDown = screen.mouseButtonIsDown
      /\ s.scheduled = screen.scheduled /\ s.calls = screen.calls
  BY DEF ScreenLegal, ScreenRecords
<1> HIDE DEF s
<1>3. ScreenLegal(s, usesMouseInputMode) /\ \A now : ScreenHolds(screen, now) => ScreenHolds(s, now)
  BY <1>2 DEF ScreenLegal, ScreenHolds, EndsReleased
<1>4. usesMouseInputMode \in BOOLEAN
  BY DEF usesMouseInputMode
<1>5. ASSUME s.shouldClick, s.touches > 0
      PROVE  ScreenGoes(screen, startDraggingAtTouchPoint(s), usesMouseInputMode)
  <2>1. ScreenGoes(s, startDraggingAtTouchPoint(s), usesMouseInputMode)
    BY <1>3, <1>4, <1>5, ScreenDragGoes
  <2> QED BY <1>3, <2>1 DEF ScreenGoes
<1>6. ScreenGoes(screen, s, usesMouseInputMode)
  BY <1>3 DEF ScreenGoes
<1> QED BY <1>1, <1>5, <1>6

\* A touch ends: a press is to be released, a drag stops, a tap is a click.
LEMMA ScreenEndedGoes ==
  ASSUME ScreenLegal(screen, usesMouseInputMode), NEW n \in 1 .. MaxTouches, screenTouchesEnded(n)
  PROVE  ScreenGoes(screen, screen', usesMouseInputMode)
<1> DEFINE s == [screen EXCEPT !.touches = @ - n]
           q == [s EXCEPT !.holdDrag = FALSE, !.shouldClick = FALSE]
           i == [s EXCEPT !.ignoresMultiTouchSequence = s.touches # 0, !.shouldClick = FALSE]
           m == Calls(s, "move")
           l == Later(m, "up")
           v == Calls(q, "move")
           w == screenStopDragging(v)
           d == mouseDown(v)
           x == Later(d, "up")
<1>1. screen \in ScreenRecords /\ screen.touches \in 0 .. MaxTouches /\ MaxTouches \in Nat
      /\ Len(screen.scheduled) <= MaxScheduled /\ MaxScheduled \in Nat
      /\ Len(screen.scheduled) \in Nat
  BY TrackPadAssumption, TouchScreenAssumption DEF ScreenLegal, ScreenRecords
<1>2. /\ s \in ScreenRecords /\ s.touches = screen.touches - n
      /\ s.ignoresMultiTouchSequence = screen.ignoresMultiTouchSequence
      /\ s.shouldClick = screen.shouldClick /\ s.isDragging = screen.isDragging
      /\ s.mouseButtonIsDown = screen.mouseButtonIsDown
      /\ s.scheduled = screen.scheduled /\ s.calls = screen.calls
  BY <1>1 DEF ScreenRecords
<1>3. /\ n <= screen.touches /\ Len(s.scheduled) < MaxScheduled
      /\ screen' = IF s.ignoresMultiTouchSequence THEN i
                   ELSE IF s.touches > 0 THEN s
                   ELSE IF usesMouseInputMode THEN l
                   ELSE IF s.isDragging THEN w
                   ELSE IF s.shouldClick THEN x ELSE q
  BY DEF screenTouchesEnded
<1> HIDE DEF s
<1>4. \A now : ScreenHolds(screen, now) => ScreenHolds(s, now)
  BY <1>2 DEF ScreenHolds
<1>5. s.touches \in 0 .. MaxTouches
  BY <1>1, <1>2, <1>3
<1>6. ASSUME s.ignoresMultiTouchSequence
      PROVE  ScreenGoes(screen, i, usesMouseInputMode)
  <2>1. /\ i \in ScreenRecords /\ i.touches = s.touches
        /\ (i.ignoresMultiTouchSequence <=> s.touches # 0)
        /\ i.shouldClick = FALSE /\ i.isDragging = s.isDragging
        /\ i.mouseButtonIsDown = s.mouseButtonIsDown
        /\ i.scheduled = s.scheduled /\ i.calls = s.calls
    BY <1>2 DEF ScreenRecords
  <2> HIDE DEF i
  <2>2. EndsReleased(i) /\ ~s.isDragging
    BY <1>2, <1>6, <2>1 DEF ScreenLegal, EndsReleased
  <2>3. ScreenLegal(i, usesMouseInputMode)
    BY <1>2, <1>5, <1>6, <2>1, <2>2 DEF ScreenLegal
  <2> QED BY <1>4, <2>1, <2>3 DEF ScreenGoes, ScreenHolds
<1>7. ASSUME ~s.ignoresMultiTouchSequence
      PROVE  s.touches = 0
  BY <1>1, <1>2, <1>3, <1>5, <1>7 DEF ScreenLegal
<1>8. /\ q \in ScreenRecords /\ q.touches = s.touches
      /\ q.ignoresMultiTouchSequence = s.ignoresMultiTouchSequence
      /\ q.shouldClick = FALSE /\ q.isDragging = s.isDragging
      /\ q.mouseButtonIsDown = s.mouseButtonIsDown
      /\ q.scheduled = s.scheduled /\ q.calls = s.calls
      /\ \A now : ScreenHolds(s, now) => ScreenHolds(q, now)
  BY <1>2 DEF ScreenRecords, ScreenHolds
<1>9. ASSUME ~s.ignoresMultiTouchSequence, usesMouseInputMode
      PROVE  ScreenGoes(screen, l, usesMouseInputMode)
  <2>1. /\ m \in ScreenRecords /\ SameScreenTouches(s, m) /\ m.scheduled = s.scheduled
        /\ \A now : ScreenHolds(s, now) => ScreenHolds(m, now)
    BY <1>2, ScreenMoveFields
  <2> HIDE DEF m
  <2>2. /\ l \in ScreenRecords /\ SameScreenTouches(m, l)
        /\ Len(l.scheduled) = Len(m.scheduled) + 1
        /\ l.scheduled # <<>> /\ l.scheduled[Len(l.scheduled)] = "up"
        /\ \A now : ScreenHolds(m, now) => ScreenHolds(l, now)
    BY <2>1, LaterFields
  <2> HIDE DEF l
  <2>3. ScreenLegal(l, usesMouseInputMode)
    BY <1>1, <1>2, <1>3, <1>5, <1>7, <1>9, <2>1, <2>2
    DEF ScreenLegal, SameScreenTouches, EndsReleased
  <2> QED BY <1>4, <2>1, <2>2, <2>3 DEF ScreenGoes
<1> HIDE DEF q
<1>10. /\ v \in ScreenRecords /\ SameScreenTouches(q, v)
       /\ v.mouseButtonIsDown = q.mouseButtonIsDown /\ v.scheduled = q.scheduled
       /\ \A now : ScreenHolds(q, now) => ScreenHolds(v, now)
  BY <1>8, ScreenMoveFields
<1> HIDE DEF v
<1>11. ASSUME ~s.ignoresMultiTouchSequence, ~usesMouseInputMode
       PROVE  ScreenGoes(screen, w, usesMouseInputMode)
  <2>1. /\ w \in ScreenRecords /\ w.touches = v.touches
        /\ w.ignoresMultiTouchSequence = v.ignoresMultiTouchSequence
        /\ w.shouldClick = FALSE /\ w.isDragging = FALSE
        /\ w.mouseButtonIsDown = FALSE /\ w.scheduled = v.scheduled
        /\ \A now : ScreenHolds(w, now)
    BY <1>10, ScreenStopFields
  <2> HIDE DEF w
  <2>2. (\A j \in DOMAIN w.scheduled : w.scheduled[j] = "up") /\ Len(w.scheduled) <= MaxScheduled
    BY <1>2, <1>8, <1>10, <1>11, <2>1 DEF ScreenLegal
  <2>3. EndsReleased(w)
    BY <2>1, <2>2, AllUpIsReleased
  <2>4. ScreenLegal(w, usesMouseInputMode)
    BY <1>5, <1>7, <1>8, <1>10, <1>11, <2>1, <2>2, <2>3 DEF ScreenLegal, SameScreenTouches
  <2> QED BY <2>1, <2>4 DEF ScreenGoes
<1>12. ASSUME ~s.ignoresMultiTouchSequence, ~usesMouseInputMode, ~s.isDragging
       PROVE  ScreenGoes(screen, x, usesMouseInputMode)
  <2>1. /\ d \in ScreenRecords /\ SameScreenTouches(v, d) /\ d.scheduled = v.scheduled
        /\ \A now : ScreenHolds(d, now)
    BY <1>10, MouseDownFields
  <2> HIDE DEF d
  <2>2. \A j \in DOMAIN d.scheduled : d.scheduled[j] = "up"
    BY <1>2, <1>8, <1>10, <1>12, <2>1 DEF ScreenLegal
  <2>3. /\ x \in ScreenRecords /\ SameScreenTouches(d, x)
        /\ Len(x.scheduled) = Len(d.scheduled) + 1
        /\ x.scheduled # <<>> /\ x.scheduled[Len(x.scheduled)] = "up"
        /\ \A j \in DOMAIN x.scheduled : x.scheduled[j] = "up"
        /\ \A now : ScreenHolds(d, now) => ScreenHolds(x, now)
    BY <2>1, <2>2, LaterFields
  <2> HIDE DEF x
  <2>4. ScreenLegal(x, usesMouseInputMode)
    BY <1>1, <1>2, <1>3, <1>5, <1>7, <1>8, <1>10, <1>12, <2>1, <2>3
    DEF ScreenLegal, SameScreenTouches, EndsReleased
  <2> QED BY <2>1, <2>3, <2>4 DEF ScreenGoes
<1>13. ASSUME ~s.ignoresMultiTouchSequence, ~usesMouseInputMode, ~s.isDragging
       PROVE  ScreenGoes(screen, q, usesMouseInputMode)
  <2>1. (\A j \in DOMAIN q.scheduled : q.scheduled[j] = "up")
        /\ (q.mouseButtonIsDown => q.scheduled # <<>>)
    BY <1>2, <1>8, <1>13 DEF ScreenLegal
  <2>2. EndsReleased(q)
    BY <1>8, <2>1, AllUpIsReleased
  <2>3. ScreenLegal(q, usesMouseInputMode)
    BY <1>1, <1>2, <1>5, <1>7, <1>8, <1>13, <2>1, <2>2 DEF ScreenLegal
  <2> QED BY <1>4, <1>8, <2>3 DEF ScreenGoes
<1> QED BY <1>3, <1>5, <1>6, <1>7, <1>9, <1>11, <1>12, <1>13

\* Touches are cancelled by the system.
LEMMA ScreenCancelledGoes ==
  ASSUME ScreenLegal(screen, usesMouseInputMode), NEW n \in 1 .. MaxTouches,
         screenTouchesCancelled(n)
  PROVE  ScreenGoes(screen, screen', usesMouseInputMode)
<1> DEFINE s == [screen EXCEPT !.touches = @ - n]
           c == ScreenCancelSequence(s)
           r == [c EXCEPT !.ignoresMultiTouchSequence = @ /\ c.touches # 0]
<1>1. screen \in ScreenRecords /\ screen.touches \in 0 .. MaxTouches /\ MaxTouches \in Nat
      /\ MaxScheduled \in Nat
  BY TrackPadAssumption, TouchScreenAssumption DEF ScreenLegal
<1>2. /\ s \in ScreenRecords /\ s.touches = screen.touches - n
      /\ s.ignoresMultiTouchSequence = screen.ignoresMultiTouchSequence
      /\ s.mouseButtonIsDown = screen.mouseButtonIsDown /\ s.calls = screen.calls
  BY <1>1 DEF ScreenRecords
<1>3. n <= screen.touches /\ screen' = r
  BY DEF screenTouchesCancelled
<1> HIDE DEF s
<1>4. s.touches \in 0 .. MaxTouches /\ (~s.ignoresMultiTouchSequence => s.touches <= 1)
      /\ \A now : ScreenHolds(screen, now) => ScreenHolds(s, now)
  BY <1>1, <1>2, <1>3 DEF ScreenHolds, ScreenLegal
<1>5. /\ c \in ScreenRecords /\ c.touches = s.touches
      /\ c.ignoresMultiTouchSequence = s.ignoresMultiTouchSequence
      /\ c.shouldClick = FALSE /\ c.isDragging = FALSE
      /\ c.mouseButtonIsDown = FALSE /\ c.scheduled = <<>>
      /\ \A now : ScreenHolds(s, now) => ScreenHolds(c, now)
  BY <1>2, ScreenCancelFields
<1> HIDE DEF c
<1>6. /\ r \in ScreenRecords /\ r.touches = c.touches
      /\ (r.ignoresMultiTouchSequence <=> c.ignoresMultiTouchSequence /\ c.touches # 0)
      /\ r.shouldClick = FALSE /\ r.isDragging = FALSE
      /\ r.mouseButtonIsDown = FALSE /\ r.scheduled = <<>> /\ r.calls = c.calls
  BY <1>5 DEF ScreenRecords
<1> HIDE DEF r
<1>7. Len(<<>>) = 0 /\ DOMAIN <<>> = {}
  OBVIOUS
<1>8. /\ EndsReleased(r) /\ Len(r.scheduled) <= MaxScheduled
      /\ \A j \in DOMAIN r.scheduled : r.scheduled[j] = "up"
  BY <1>1, <1>6, <1>7 DEF EndsReleased
<1>9. r.touches \in 0 .. MaxTouches /\ (~r.ignoresMultiTouchSequence => r.touches <= 1)
  BY <1>4, <1>5, <1>6
<1>10. ScreenLegal(r, usesMouseInputMode)
  BY <1>6, <1>8, <1>9 DEF ScreenLegal
<1> QED BY <1>3, <1>4, <1>5, <1>6, <1>10 DEF ScreenGoes, ScreenHolds

\* A delayed press or release of the button comes.
LEMMA PerformClickGoes ==
  ASSUME ScreenLegal(screen, usesMouseInputMode), PerformClick
  PROVE  ScreenGoes(screen, screen', usesMouseInputMode)
<1> DEFINE q == screen.scheduled
           t == Tail(q)
           s == [screen EXCEPT !.scheduled = t]
           d == mouseDown(s)
           u == mouseUp(s)
<1>1. /\ q # <<>> /\ q \in Seq({"down", "up"}) /\ screen \in ScreenRecords
      /\ Len(q) <= MaxScheduled /\ MaxScheduled \in Nat
  BY TouchScreenAssumption DEF PerformClick, ScreenLegal, ScreenRecords
<1>2. screen' = IF Head(q) = "down" THEN d ELSE u
  BY DEF PerformClick
<1>3. /\ t \in Seq({"down", "up"}) /\ Len(t) <= MaxScheduled
      /\ (\A i \in DOMAIN q : q[i] = "up") => (Head(q) = "up" /\ \A i \in DOMAIN t : t[i] = "up")
      /\ t # <<>> => t[Len(t)] = q[Len(q)]
      /\ t = <<>> => q[Len(q)] = Head(q)
  <2> HIDE DEF q
  <2>1. /\ Len(q) \in Nat /\ Len(q) > 0 /\ Len(t) = Len(q) - 1 /\ Head(q) = q[1]
        /\ t \in Seq({"down", "up"})
        /\ DOMAIN q = 1 .. Len(q) /\ DOMAIN t = 1 .. Len(q) - 1
        /\ \A i \in 1 .. Len(q) - 1 : t[i] = q[i + 1]
    BY <1>1
  <2> HIDE DEF t
  <2>2. t # <<>> <=> Len(t) > 0
    BY <2>1
  <2> QED BY <1>1, <2>1, <2>2
<1> HIDE DEF t
<1>4. /\ s \in ScreenRecords /\ s.touches = screen.touches
      /\ s.ignoresMultiTouchSequence = screen.ignoresMultiTouchSequence
      /\ s.shouldClick = screen.shouldClick /\ s.isDragging = screen.isDragging
      /\ s.scheduled = t
  BY <1>1, <1>3 DEF ScreenRecords
<1> HIDE DEF s
<1>5. /\ d \in ScreenRecords /\ SameScreenTouches(s, d)
      /\ d.scheduled = s.scheduled /\ \A now : ScreenHolds(d, now)
  BY <1>4, MouseDownFields
<1>6. /\ u \in ScreenRecords /\ SameScreenTouches(s, u) /\ u.mouseButtonIsDown = FALSE
      /\ u.scheduled = s.scheduled /\ \A now : ScreenHolds(u, now)
  BY <1>4, MouseUpFields
<1> HIDE DEF d, u, q
<1>7. ASSUME Head(q) = "down" PROVE ScreenLegal(d, usesMouseInputMode)
  <2>1. usesMouseInputMode
    BY <1>3, <1>7 DEF ScreenLegal, q
  <2> QED BY <1>1, <1>3, <1>4, <1>5, <1>7, <2>1
          DEF ScreenLegal, SameScreenTouches, EndsReleased, q
<1>8. ScreenLegal(u, usesMouseInputMode)
  BY <1>1, <1>3, <1>4, <1>6 DEF ScreenLegal, SameScreenTouches, EndsReleased, q
<1> QED BY <1>2, <1>5, <1>6, <1>7, <1>8 DEF ScreenGoes

\* Nothing has been done on a new view.
LEMMA NewScreenIsLegal == \A mousy \in BOOLEAN : ScreenLegal(NewScreen, mousy)
<1>1. /\ <<>> \in Seq({"down", "up"}) /\ <<>> \in Seq(ViewCalls)
      /\ Len(<<>>) = 0 /\ DOMAIN <<>> = {}
  OBVIOUS
<1> QED BY <1>1, TrackPadAssumption, TouchScreenAssumption
        DEF ScreenLegal, ScreenRecords, EndsReleased, NewScreen

\* The view is removed: it releases the button if it holds it.
LEMMA ScreenRemovedGoes ==
  ASSUME ScreenLegal(screen, usesMouseInputMode), screenWillMoveToSuperview
  PROVE  ScreenGoes(screen, screen', usesMouseInputMode)
<1> DEFINE cs == IF screen.mouseButtonIsDown THEN <<"up">> ELSE <<>>
           r == [NewScreen EXCEPT !.calls = cs]
<1>1. screen.calls = <<>> /\ screen' = r /\ screen.mouseButtonIsDown \in BOOLEAN
  BY DEF screenWillMoveToSuperview, ScreenIsFree, ScreenLegal, ScreenRecords
<1>2. /\ cs \in Seq(ViewCalls)
      /\ screen.mouseButtonIsDown => DOMAIN cs = {1} /\ cs[1] = "up"
      /\ ~screen.mouseButtonIsDown => DOMAIN cs = {}
  <2>1. <<"up">> \in Seq(ViewCalls) /\ <<>> \in Seq(ViewCalls)
    BY DEF ViewCalls
  <2>2. Len(<<"up">>) = 1 /\ <<"up">>[1] = "up" /\ Len(<<>>) = 0
    OBVIOUS
  <2>3. DOMAIN <<"up">> = {1} /\ DOMAIN <<>> = {}
    BY <2>2
  <2> QED BY <2>1, <2>2, <2>3
<1> HIDE DEF cs
<1>3. usesMouseInputMode \in BOOLEAN
  BY DEF usesMouseInputMode
<1>4. /\ r \in ScreenRecords /\ r.calls = cs /\ r.touches = NewScreen.touches
      /\ r.ignoresMultiTouchSequence = NewScreen.ignoresMultiTouchSequence
      /\ r.shouldClick = NewScreen.shouldClick /\ r.isDragging = NewScreen.isDragging
      /\ r.mouseButtonIsDown = NewScreen.mouseButtonIsDown /\ r.mouseButtonIsDown = FALSE
      /\ r.scheduled = NewScreen.scheduled
  BY <1>2, <1>3, NewScreenIsLegal DEF ScreenLegal, ScreenRecords, NewScreen
<1> HIDE DEF r
<1>5. ScreenLegal(r, usesMouseInputMode)
  BY <1>3, <1>4, NewScreenIsLegal DEF ScreenLegal, EndsReleased
<1>6. ASSUME NEW now, ScreenHolds(screen, now)
      PROVE  ScreenHolds(r, now)
  <2>1. now = screen.mouseButtonIsDown
    BY <1>1, <1>6 DEF ScreenHolds, Held
  <2> QED BY <1>1, <1>2, <1>4, <2>1 DEF ScreenHolds, Held
<1> QED BY <1>1, <1>5, <1>6 DEF ScreenGoes

-----------------------------------------------------------------------------
\* The views and the ADB Manager.

\* The user has no other mouse than the view.
ViewsAlone == setup.touch # "none" => ~Clicks

PadInv ==
  /\ Legal(pad)
  /\ setup.touch # "trackpad" => pad = NewPad
  /\ ViewsAlone /\ setup.touch = "trackpad" => PadHolds(pad, ButtonNow)

ScreenInv ==
  /\ ScreenLegal(screen, usesMouseInputMode)
  /\ setup.touch \notin {"screen", "mouse"} => screen = NewScreen
  /\ ViewsAlone /\ setup.touch \in {"screen", "mouse"} => ScreenHolds(screen, ButtonNow)

InputInv == AdbInv /\ PadInv /\ ScreenInv

\* The call of a view says what the button will be; a motion leaves it alone.
LEMMA MakeCallButton ==
  ASSUME AdbTypes, NEW c \in ViewCalls, NEW rel, MakeCall(c, rel)
  PROVE  ButtonNow' = IF c = "move" THEN ButtonNow ELSE c = "down"
<1>1. CASE c = "move" /\ MouseMoved(rel, 0)
  <2>1. ui.todo = {} /\ UNCHANGED mouse_button
    BY <1>1 DEF MouseMoved, UiBegins, mouse
  <2>2. "button" \notin ui'.todo
    <3>1. ui' = [Done EXCEPT !.todo = {"move", "raise"} \cup
                                      (IF rel # relative_mouse THEN {"mode", "zero"} ELSE {}),
                             !.mode = rel, !.x = 0]
      BY <1>1 DEF MouseMoved
    <3> QED BY <3>1 DEF Done
  <2> QED BY <1>1, <2>1, <2>2 DEF ButtonNow
<1>2. ASSUME NEW down \in BOOLEAN, MouseButton(down)
      PROVE  ButtonNow' = down
  <2>1. "button" \in ui'.todo /\ ui'.down = down
    BY <1>2 DEF MouseButton, Done
  <2> QED BY <2>1 DEF ButtonNow
<1> QED BY <1>1, <1>2 DEF MakeCall, ADBMouseDown, ADBMouseUp, ViewCalls

\* Nobody else presses or releases the button, if the user has no other mouse.
LEMMA ButtonKept ==
  ASSUME AdbTypes, [Next]_<<setup, vars>>, ~Clicks
  PROVE  ButtonNow' = ButtonNow
<1>1. CASE User
  <2>1. ASSUME NEW e, KeyEvent(e)
        PROVE  ui.todo = {} /\ UNCHANGED mouse_button /\ "button" \notin ui'.todo
    BY <2>1 DEF KeyEvent, UiBegins, mouse, Done
  <2>2. ASSUME NEW rel, NEW x, MouseMoved(rel, x)
        PROVE  ui.todo = {} /\ UNCHANGED mouse_button /\ "button" \notin ui'.todo
    <3>1. ui' = [Done EXCEPT !.todo = {"move", "raise"} \cup
                                      (IF rel # relative_mouse THEN {"mode", "zero"} ELSE {}),
                             !.mode = rel, !.x = x]
      BY <2>2 DEF MouseMoved
    <3>2. "button" \notin ui'.todo
      BY <3>1 DEF Done
    <3> QED BY <2>2, <3>2 DEF MouseMoved, UiBegins, mouse
  <2> QED BY <1>1, <2>1, <2>2 DEF User, ADBKeyDown, ADBKeyUp, ButtonNow
<1>2. CASE UiProceeds
  <2>1. ASSUME NEW x \in DOMAIN Rank, UiDoes(x), x # "button"
        PROVE  /\ "button" \in ui'.todo <=> "button" \in ui.todo
               /\ "button" \in ui.todo => ui'.down = ui.down
    BY <2>1, UiStep DEF Done
  <2>2. DOMAIN Rank = {"buffer", "ptr", "matrix", "mode", "zero", "button", "move", "raise"}
    BY DEF Rank
  <2>3. CASE \E x \in DOMAIN Rank : UiDoes(x) /\ x # "button" /\ UNCHANGED mouse_button
    BY <2>1, <2>3 DEF ButtonNow
  <2>4. CASE UiDoes("button") /\ mouse_button' = ui.down
    <3>1. "button" \in ui.todo /\ "button" \notin ui'.todo
      BY <2>2, <2>4, UiStep
    <3> QED BY <2>4, <3>1 DEF ButtonNow
  <2> QED BY <1>2, <2>2, <2>3, <2>4
          DEF UiProceeds, StoreBuffer, StorePtr, StoreMatrix, StoreMouse, Raise, mouse
<1>3. CASE Irq \/ DebuggerPoll \/ ADBInterrupt
  BY <1>3 DEF ButtonNow, Irq, DebuggerPoll, EmStep, mouse, ADBInterrupt, Snapshot, ReportMouse,
     MouseHandlerReturns, ReportKey, KeyHandlerReturns, ADBInterruptReturns
<1>4. CASE UNCHANGED <<setup, vars>>
  BY <1>4 DEF ButtonNow, vars, mouse
<1> QED BY <1>1, <1>2, <1>3, <1>4 DEF Next

\* The calls of a view are calls that a user may make.
LEMMA MakeCallIsCall ==
  ASSUME NEW c, NEW rel \in UsedModes, MakeCall(c, rel)
  PROVE  AnyCall
<1>1. 0 \in Int
  OBVIOUS
<1> QED BY <1>1, Zenon DEF MakeCall, ADBMouseDown, ADBMouseUp, AnyCall

\* Every handler of the trackpad leaves the calls and the view in agreement.
LEMMA PadHandlers ==
  ASSUME Legal(pad), Touches \/ (\E m \in Messages : Perform(m)) \/ willMoveToSuperview
  PROVE  setup.touch = "trackpad" /\ Goes(pad, pad')
<1>1. CASE Touches
  <2>1. ASSUME NEW n \in 1 .. MaxTouches, NEW b \in BOOLEAN, touchesBegan(n, b)
        PROVE  setup.touch = "trackpad" /\ Goes(pad, pad')
    BY <2>1, TouchesBeganGoes DEF touchesBegan, UiIsFree
  <2>2. ASSUME NEW n \in 1 .. MaxTouches, NEW b \in BOOLEAN, touchesEnded(n, b)
        PROVE  setup.touch = "trackpad" /\ Goes(pad, pad')
    BY <2>2, TouchesEndedGoes DEF touchesEnded, UiIsFree
  <2>3. ASSUME NEW n \in 1 .. MaxTouches, touchesCancelled(n)
        PROVE  setup.touch = "trackpad" /\ Goes(pad, pad')
    BY <2>3, TouchesCancelledGoes DEF touchesCancelled, UiIsFree
  <2>4. ASSUME NEW far \in BOOLEAN, NEW moved \in BOOLEAN, NEW forced \in BOOLEAN,
               touchesMoved(far, moved, forced)
        PROVE  setup.touch = "trackpad" /\ Goes(pad, pad')
    BY <2>4, TouchesMovedGoes DEF touchesMoved, UiIsFree
  <2> QED BY <1>1, <2>1, <2>2, <2>3, <2>4 DEF Touches
<1>2. CASE \E m \in Messages : Perform(m)
  BY <1>2, PerformGoes DEF Perform, UiIsFree
<1>3. CASE willMoveToSuperview
  BY <1>3, PadRemovedGoes DEF willMoveToSuperview, UiIsFree
<1> QED BY <1>1, <1>2, <1>3

\* So does every handler of the touch screen.
LEMMA ScreenHandlers ==
  ASSUME ScreenLegal(screen, usesMouseInputMode),
         \/ ScreenTouches \/ beginDraggingFromInitialTouch
         \/ PerformClick \/ screenWillMoveToSuperview
  PROVE  /\ setup.touch \in {"screen", "mouse"}
         /\ ScreenGoes(screen, screen', usesMouseInputMode)
<1>1. CASE ScreenTouches
  <2>1. ASSUME NEW n \in 1 .. MaxTouches,
               screenTouchesBegan(n) \/ screenTouchesEnded(n) \/ screenTouchesCancelled(n)
        PROVE  ScreenIsFree /\ ScreenGoes(screen, screen', usesMouseInputMode)
    BY <2>1, ScreenBeganGoes, ScreenEndedGoes, ScreenCancelledGoes
    DEF screenTouchesBegan, screenTouchesEnded, screenTouchesCancelled
  <2>2. ASSUME NEW far \in BOOLEAN, screenTouchesMoved(far)
        PROVE  ScreenIsFree /\ ScreenGoes(screen, screen', usesMouseInputMode)
    BY <2>2, ScreenMovedGoes DEF screenTouchesMoved
  <2> QED BY <1>1, <2>1, <2>2 DEF ScreenTouches, ScreenIsFree
<1>2. CASE beginDraggingFromInitialTouch
  BY <1>2, ScreenHeldGoes DEF beginDraggingFromInitialTouch, ScreenIsFree
<1>3. CASE PerformClick
  BY <1>3, PerformClickGoes DEF PerformClick, ScreenIsFree
<1>4. CASE screenWillMoveToSuperview
  BY <1>4, ScreenRemovedGoes DEF screenWillMoveToSuperview, ScreenIsFree
<1> QED BY <1>1, <1>2, <1>3, <1>4

\* The next call of the trackpad is made.
LEMMA PadCallsStep ==
  ASSUME InputInv, PadCalls
  PROVE  /\ setup.touch = "trackpad" /\ AnyCall /\ UNCHANGED setup
         /\ Legal(pad') /\ (PadHolds(pad, ButtonNow) => PadHolds(pad', ButtonNow'))
<1> DEFINE cs == pad.calls
           t == Tail(cs)
           r == [pad EXCEPT !.calls = t]
<1>1. Legal(pad) /\ PadGood(pad) /\ pad \in PadRecords /\ cs # <<>> /\ cs \in Seq(ViewCalls)
      /\ AdbTypes
  BY DEF InputInv, PadInv, AdbInv, Legal, PadGood, PadRecords, PadCalls
<1>2. setup.touch = "trackpad"
  BY <1>1 DEF InputInv, PadInv, NewPad
<1>3. AnyCall
  <2>1. TRUE \in UsedModes
    BY <1>2 DEF UsedModes
  <2> QED BY <2>1, MakeCallIsCall DEF PadCalls
<1>4. t \in Seq(ViewCalls) /\ Head(cs) \in ViewCalls
  BY <1>1
<1>5. ButtonNow' = IF Head(cs) = "move" THEN ButtonNow ELSE Head(cs) = "down"
  BY <1>1, <1>4, MakeCallButton DEF PadCalls
<1>6. \A now, held : Held(cs, now, held) =>
                       Held(t, IF Head(cs) = "move" THEN now ELSE Head(cs) = "down", held)
  BY <1>1, HeldTail
<1>7. pad' = r /\ UNCHANGED setup
  BY DEF PadCalls
<1> HIDE DEF cs, t
<1>8. /\ r \in PadRecords /\ r.calls = t
      /\ r.gesture = pad.gesture /\ r.touches = pad.touches
      /\ r.ignoresMultiTouchSequence = pad.ignoresMultiTouchSequence
      /\ r.isDragging = pad.isDragging /\ r.clickInProgress = pad.clickInProgress
      /\ r.queuedClickCount = pad.queuedClickCount /\ r.scheduled = pad.scheduled
  BY <1>1, <1>4 DEF PadRecords
<1> HIDE DEF r
<1>9. Legal(r)
  BY <1>1, <1>8 DEF Legal, PadGood, ClicksEnd, ClicksSent, NoClicksInDrag
<1>10. PadHolds(pad, ButtonNow) => PadHolds(r, ButtonNow')
  BY <1>5, <1>6, <1>8 DEF PadHolds, cs
<1> QED BY <1>2, <1>3, <1>7, <1>9, <1>10

\* The next call of the touch screen is made.
LEMMA ScreenCallsStep ==
  ASSUME InputInv, ScreenCalls
  PROVE  /\ setup.touch \in {"screen", "mouse"} /\ AnyCall /\ UNCHANGED setup
         /\ ScreenLegal(screen', usesMouseInputMode)
         /\ ScreenHolds(screen, ButtonNow) => ScreenHolds(screen', ButtonNow')
<1> DEFINE cs == screen.calls
           t == Tail(cs)
           r == [screen EXCEPT !.calls = t]
<1>1. ScreenLegal(screen, usesMouseInputMode) /\ screen \in ScreenRecords
      /\ cs # <<>> /\ cs \in Seq(ViewCalls) /\ AdbTypes
  BY DEF InputInv, ScreenInv, AdbInv, ScreenLegal, ScreenRecords, ScreenCalls
<1>2. setup.touch \in {"screen", "mouse"}
  BY <1>1 DEF InputInv, ScreenInv, NewScreen
<1>3. AnyCall
  <2>1. FALSE \in UsedModes
    BY <1>2 DEF UsedModes
  <2> QED BY <2>1, MakeCallIsCall DEF ScreenCalls
<1>4. t \in Seq(ViewCalls) /\ Head(cs) \in ViewCalls
  BY <1>1
<1>5. ButtonNow' = IF Head(cs) = "move" THEN ButtonNow ELSE Head(cs) = "down"
  BY <1>1, <1>4, MakeCallButton DEF ScreenCalls
<1>6. \A now, held : Held(cs, now, held) =>
                       Held(t, IF Head(cs) = "move" THEN now ELSE Head(cs) = "down", held)
  BY <1>1, HeldTail
<1>7. screen' = r /\ UNCHANGED setup
  BY DEF ScreenCalls
<1> HIDE DEF cs, t
<1>8. /\ r \in ScreenRecords /\ r.calls = t /\ SameScreenTouches(screen, r)
      /\ r.mouseButtonIsDown = screen.mouseButtonIsDown /\ r.scheduled = screen.scheduled
  BY <1>1, <1>4 DEF ScreenRecords, SameScreenTouches
<1> HIDE DEF r
<1>9. ScreenLegal(r, usesMouseInputMode)
  BY <1>1, <1>8 DEF ScreenLegal, SameScreenTouches, EndsReleased
<1>10. ScreenHolds(screen, ButtonNow) => ScreenHolds(r, ButtonNow')
  BY <1>5, <1>6, <1>8 DEF ScreenHolds, cs
<1> QED BY <1>2, <1>3, <1>7, <1>9, <1>10

\* The invariant of the views holds at first.
LEMMA InputInitInv == InputInit => InputInv
<1> SUFFICES ASSUME InputInit PROVE InputInv
  OBVIOUS
<1>1. AdbInv /\ pad = NewPad /\ screen = NewScreen /\ ui.todo = {} /\ mouse_button = FALSE
  BY AdbInitInv DEF InputInit, Init, Done
<1>2. Legal(pad) /\ ScreenLegal(screen, usesMouseInputMode)
  BY <1>1, NewPadIsLegal, NewScreenIsLegal DEF usesMouseInputMode
<1>3. PadHolds(pad, ButtonNow) /\ ScreenHolds(screen, ButtonNow)
  <2>1. /\ pad.calls = <<>> /\ pad.isDragging = FALSE /\ pad.clickInProgress = FALSE
        /\ screen.calls = <<>> /\ screen.mouseButtonIsDown = FALSE
        /\ ButtonNow = FALSE
    BY <1>1 DEF ButtonNow, NewPad, NewScreen
  <2>2. DOMAIN <<>> = {}
    OBVIOUS
  <2> QED BY <2>1, <2>2 DEF PadHolds, ScreenHolds, Held
<1> QED BY <1>1, <1>2, <1>3 DEF InputInv, PadInv, ScreenInv

\* Whatever the views do, the ADB Manager sees the calls of some user.
LEMMA InputIsAnyStep ==
  ASSUME InputInv, [InputNext]_inputVars
  PROVE  [AnyStep]_<<setup, vars>>
<1>1. CASE Next
  BY <1>1, NextIsAnyStep DEF InputInv, AdbInv, AdbTypes
<1>2. CASE PadNext
  BY <1>2, PadCallsStep DEF PadNext, AnyStep
<1>3. CASE ScreenNext
  BY <1>3, ScreenCallsStep DEF ScreenNext, AnyStep
<1> QED BY <1>1, <1>2, <1>3 DEF InputNext, inputVars

\* Every step of a view, of the run loop and of the ADB Manager keeps the invariant,
LEMMA InputStep ==
  ASSUME InputInv, [InputNext]_inputVars
  PROVE  InputInv'
<1>1. AdbInv' /\ UNCHANGED setup
  BY InputIsAnyStep, AdbStep DEF InputInv, AnyStep
<1>2. UNCHANGED <<usesMouseInputMode, ViewsAlone>>
  BY <1>1 DEF usesMouseInputMode, ViewsAlone, Clicks
<1>3. AdbTypes /\ PadInv /\ ScreenInv
  BY DEF InputInv, AdbInv
<1>4. CASE Next /\ UNCHANGED <<pad, screen>>
  <2>1. ~Clicks => ButtonNow' = ButtonNow
    BY <1>3, <1>4, ButtonKept
  <2>2. PadInv'
    BY <1>1, <1>2, <1>3, <1>4, <2>1 DEF PadInv, ViewsAlone
  <2>3. ScreenInv'
    BY <1>1, <1>2, <1>3, <1>4, <2>1 DEF ScreenInv, ViewsAlone
  <2> QED BY <1>1, <2>2, <2>3 DEF InputInv
<1>5. CASE PadNext /\ UNCHANGED screen
  <2>1. CASE PadCalls
    <3>1. PadInv' /\ setup.touch = "trackpad"
      BY <1>1, <1>2, <1>3, <2>1, PadCallsStep DEF PadInv
    <3>2. ScreenInv'
      BY <1>1, <1>2, <1>3, <1>5, <3>1 DEF ScreenInv
    <3> QED BY <1>1, <3>1, <3>2 DEF InputInv
  <2>2. CASE /\ Touches \/ (\E m \in Messages : Perform(m)) \/ willMoveToSuperview
             /\ UNCHANGED <<setup, vars>>
    <3>1. setup.touch = "trackpad" /\ Goes(pad, pad')
      BY <1>3, <2>2, PadHandlers DEF PadInv
    <3>2. UNCHANGED ButtonNow
      BY <2>2 DEF ButtonNow, vars, mouse
    <3>3. PadInv' /\ ScreenInv'
      BY <1>1, <1>2, <1>3, <1>5, <3>1, <3>2 DEF PadInv, ScreenInv, Goes
    <3> QED BY <1>1, <3>3 DEF InputInv
  <2> QED BY <1>5, <2>1, <2>2 DEF PadNext
<1>6. CASE ScreenNext /\ UNCHANGED pad
  <2>1. CASE ScreenCalls
    <3>1. ScreenInv' /\ setup.touch \in {"screen", "mouse"}
      BY <1>1, <1>2, <1>3, <2>1, ScreenCallsStep DEF ScreenInv
    <3>2. PadInv'
      BY <1>1, <1>2, <1>3, <1>6, <3>1 DEF PadInv
    <3> QED BY <1>1, <3>1, <3>2 DEF InputInv
  <2>2. CASE /\ \/ ScreenTouches \/ beginDraggingFromInitialTouch
                \/ PerformClick \/ screenWillMoveToSuperview
             /\ UNCHANGED <<setup, vars>>
    <3>1. /\ setup.touch \in {"screen", "mouse"}
          /\ ScreenGoes(screen, screen', usesMouseInputMode)
      BY <1>3, <2>2, ScreenHandlers DEF ScreenInv
    <3>2. UNCHANGED ButtonNow
      BY <2>2 DEF ButtonNow, vars, mouse
    <3>3. PadInv' /\ ScreenInv'
      BY <1>1, <1>2, <1>3, <1>6, <3>1, <3>2 DEF PadInv, ScreenInv, ScreenGoes
    <3> QED BY <1>1, <3>3 DEF InputInv
  <2> QED BY <1>6, <2>1, <2>2 DEF ScreenNext
<1>7. CASE UNCHANGED inputVars
  <2>1. UNCHANGED ButtonNow
    BY <1>7 DEF ButtonNow, inputVars, vars, mouse
  <2> QED BY <1>1, <1>2, <1>3, <1>7, <2>1 DEF InputInv, PadInv, ScreenInv, inputVars
<1> QED BY <1>4, <1>5, <1>6, <1>7 DEF InputNext

\* ... and so it always holds.
LEMMA InputAlways == InputSpec => []InputInv
BY InputInitInv, InputStep, PTL DEF InputSpec

-----------------------------------------------------------------------------
\* Every variable of the views and of the ADB Manager keeps its type, on a host where the
\* keyboard works.
THEOREM InputTypeCorrect == InputSpec => [](KeysInOrder => InputTypeOK)
<1>1. ASSUME InputInv, KeysInOrder
      PROVE  InputTypeOK
  <2>1. TypeOK
    BY <1>1, AdbInvFacts DEF InputInv
  <2>2. pad \in PadRecords /\ pad.touches \in 0 .. MaxTouches
    BY <1>1 DEF InputInv, PadInv, Legal, PadGood
  <2>3. pad.gesture \in [DOMAIN NoGesture -> BOOLEAN]
    BY <2>2 DEF PadRecords, Gestures, NoGesture
  <2>4. PadTypeOK
    BY <2>2, <2>3 DEF PadTypeOK, PadRecords, ViewCalls
  <2>5. screen \in ScreenRecords /\ screen.touches \in 0 .. MaxTouches
        /\ Len(screen.scheduled) <= MaxScheduled
    BY <1>1 DEF InputInv, ScreenInv, ScreenLegal
  <2> QED BY <2>1, <2>4, <2>5 DEF InputTypeOK, ScreenRecords, ViewCalls
<1> QED BY <1>1, InputAlways, PTL

\* With a view as the mouse, too: no key and no button is stuck (ADBKeyDown, ADBKeyUp,
\* ADBMouseDown, ADBMouseUp and ADBInterrupt in adb.cpp), and the cursor follows.
THEOREM ViewsInputArrives ==
  InputSpec => []((KeysInOrder => KeysAgree) /\ ButtonAgrees /\ (OneMode => CursorFollows))
<1>1. InputInv => (KeysInOrder => KeysAgree) /\ ButtonAgrees /\ (OneMode => CursorFollows)
  BY AdbInvFacts DEF InputInv
<1> QED BY <1>1, InputAlways, PTL

\* With a view as the mouse, too, the keyboard is a queue (ADBKeyDown, ADBKeyUp and
\* ADBInterrupt in adb.cpp).
THEOREM ViewsKeysAreQueued == InputSpec /\ KeysInOrder => KeyQueueSafety
<1>1. InputInit => Init
  BY DEF InputInit
<1>2. InputSpec => AnySpec
  BY <1>1, InputAlways, InputIsAnyStep, PTL DEF InputSpec, AnySpec
<1> QED BY <1>2, AnyQueued, PTL

\* The queue of clicks is never stuck (queueClickWithDelay, sendNextQueuedClick and
\* finishQueuedClick in B2TrackPad.mm): something is to come that sends the next one.
THEOREM QueuedClicksCome == InputSpec => []QueuedClicksAreSent
<1>1. InputInv => QueuedClicksAreSent
  BY DEF InputInv, PadInv, Legal, PadGood, ClicksEnd, ClicksSent, QueuedClicksAreSent
<1> QED BY <1>1, InputAlways, PTL

\* The button is down while the trackpad drags or sends a click, and at no other time
\* (startDragging, stopDragging, sendNextQueuedClick and finishQueuedClick in
\* B2TrackPad.mm), if no other mouse is used.
THEOREM PadHoldsButton == InputSpec => [](ViewsAlone => ButtonIsHeld)
<1>1. InputInv => (ViewsAlone => ButtonIsHeld)
  BY DEF InputInv, PadInv, PadHolds, Held, ButtonNow, ButtonIsHeld
<1> QED BY <1>1, InputAlways, PTL

\* Once no finger touches the view and nothing is to come, the Mac's button is up
\* (touchesEnded, touchesCancelled and willMoveToSuperview in B2TrackPad.mm and
\* B2TouchScreen.mm), if no other mouse is used.
THEOREM ViewsReleaseButton == InputSpec => [](ViewsAlone => ButtonReleased)
<1>1. ASSUME InputInv, ViewsAlone, setup.touch # "none", Quiet,
             pad.touches = 0, pad.scheduled = {}, pad.calls = <<>>,
             screen.touches = 0, screen.scheduled = <<>>, screen.calls = <<>>
      PROVE  ~mac.button
  <2>1. mac.button = mouse_button /\ ButtonNow = mouse_button
    BY <1>1, AdbInvFacts DEF InputInv, ButtonAgrees, Quiet, ButtonNow
  <2>2. CASE setup.touch = "trackpad"
    <3>1. ~pad.isDragging /\ ~pad.clickInProgress
      BY <1>1 DEF InputInv, PadInv, Legal, PadGood, ClicksEnd
    <3>2. PadHolds(pad, mouse_button) /\ pad.calls = <<>>
      BY <1>1, <2>1, <2>2 DEF InputInv, PadInv
    <3>3. mouse_button = (pad.isDragging \/ pad.clickInProgress)
      BY <3>2 DEF PadHolds, Held
    <3> QED BY <2>1, <3>1, <3>3
  <2>3. CASE setup.touch \in {"screen", "mouse"}
    <3>1. ~screen.mouseButtonIsDown
      BY <1>1 DEF InputInv, ScreenInv, ScreenLegal, EndsReleased
    <3> QED BY <1>1, <2>1, <2>3, <3>1 DEF InputInv, ScreenInv, ScreenHolds, Held
  <2>4. setup.touch \in {"none", "trackpad", "screen", "mouse"}
    BY <1>1, AdbAssumption DEF InputInv, AdbInv, AdbTypes
  <2> QED BY <1>1, <2>2, <2>3, <2>4
<1>2. InputInv => (ViewsAlone => ButtonReleased)
  BY <1>1 DEF ButtonReleased
<1> QED BY <1>2, InputAlways, PTL
=============================================================================
