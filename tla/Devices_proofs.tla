---------------------------- MODULE Devices_proofs ----------------------------
(***************************************************************************)
(* Proofs about the sound, the network and the drives, each on its own:    *)
(* for every set of blocks and every number of instances of the sound      *)
(* component and of sources; for every network, every size of the buffers  *)
(* and every depth to which interrupts may nest; for every set of drivers. *)
(* Then: what is proved of each holds in a machine that has them all, as   *)
(* their steps leave each other alone.                                     *)
(***************************************************************************)
EXTENDS Devices, SequenceTheorems, TLAPS

-----------------------------------------------------------------------------
\* The sound.
-----------------------------------------------------------------------------
AudioSpec == Init /\ [][Next]_<<setup, vars>>

-----------------------------------------------------------------------------
\* The flag means that there is room, an interrupt in progress that there still is, and
\* both, that the callback has taken what was left: no more than two blocks can be on
\* their way to the ring.
RingOK ==
  Prompt =>
    /\ callback = "idle"
    /\ irq => numFullBuffers < NUM_BUFFERS
    /\ int.pc # "none" => numFullBuffers < NUM_BUFFERS
    /\ irq /\ int.pc # "none" => numFullBuffers = 0

\* What the component knows of the mixer, at each place where it calls 68k code.
ComponentOK ==
  /\ openers <= open_count
  /\ ~setup.restarts => open_count = openers
  /\ openers > 0 => audio_data
  /\ int.pc = "source" => mixer
  /\ mixer => audio_data
  /\ comp = "idle" => (mixer <=> mixerOpen)
  /\ comp = "open_mixer" => ~mixer /\ ~mixerOpen /\ openers > 0
  /\ comp = "close_mixer" => mixer /\ mixerOpen
  /\ comp = "mixer_closed" => mixer /\ ~mixerOpen
  /\ ~setup.restarts /\ comp = "idle" /\ mixer => openers > 0

AudioInv == TypeOK /\ RingOK /\ ComponentOK

-----------------------------------------------------------------------------
LEMMA OtherIndex ==
  \A i \in Index, n \in 0 .. NUM_BUFFERS :
    /\ Other(i) \in Index
    /\ Other((i + n) % NUM_BUFFERS) = (i + n + 1) % NUM_BUFFERS
    /\ n > 0 => (Other(i) + (n - 1)) % NUM_BUFFERS = (i + n) % NUM_BUFFERS
BY DEF Index, NUM_BUFFERS, Other

LEMMA AudioInitInv == Init => AudioInv
<1> SUFFICES ASSUME Init PROVE AudioInv
  OBVIOUS
<1>1. setup.nosound \in BOOLEAN /\ irq \in BOOLEAN
  BY AudioAssumption DEF Init, audio_open
<1>2. /\ sndBuffer \in [Index -> Blocks \cup {Silence}]
      /\ played \in [block : Blocks \cup {Silence}, flip : BOOLEAN]
      /\ int \in [pc : {"none", "source", "output"}, p : Blocks \cup {Silence}]
      /\ int.pc = "none"
  BY DEF Init, Index, NoInterrupt
<1>3. curFillBuffer = (curReadBuffer + numFullBuffers) % NUM_BUFFERS
  BY DEF Init, NUM_BUFFERS
<1>4. /\ setup \in Setups /\ callback = "idle" /\ comp = "idle" /\ open_count = 0
      /\ num_sources = 0 /\ openers = 0 /\ numFullBuffers = 0
      /\ curFillBuffer = 0 /\ curReadBuffer = 0
      /\ audio_data = FALSE /\ mixer = FALSE /\ mixerOpen = FALSE
  BY DEF Init
<1>5. curFillBuffer \in Index /\ curReadBuffer \in Index /\ numFullBuffers \in 0 .. NUM_BUFFERS
  BY <1>4 DEF Index, NUM_BUFFERS
<1>6. TypeOK
  BY <1>1, <1>2, <1>3, <1>4, <1>5 DEF TypeOK
<1>7. RingOK /\ ComponentOK
  BY <1>2, <1>4 DEF RingOK, ComponentOK, NUM_BUFFERS
<1> QED BY <1>6, <1>7 DEF AudioInv

\* The audio queue's thread.
LEMMA CallbackStep == ASSUME AudioInv, AudioQueue, UNCHANGED setup PROVE AudioInv'
<1>1. CASE audio_callback
  <2>1. UNCHANGED component /\ UNCHANGED int /\ irq' \in BOOLEAN /\ callback' \in {"idle", "raise"}
    BY <1>1 DEF audio_callback, AudioInv, TypeOK
  <2>2. ComponentOK'
    BY <2>1 DEF AudioInv, ComponentOK, component
  <2>3. TypeOK'
    <3>1. CASE numFullBuffers = 0
      BY <1>1, <2>1, <3>1 DEF audio_callback, AudioInv, TypeOK, ring, component
    <3>2. CASE numFullBuffers # 0
      <4>1. /\ played' = [block |-> sndBuffer[curReadBuffer], flip |-> ~played.flip]
            /\ numFullBuffers' = numFullBuffers - 1
            /\ curReadBuffer' = Other(curReadBuffer)
            /\ UNCHANGED <<curFillBuffer, sndBuffer>>
        BY <1>1, <3>2 DEF audio_callback
      <4>2. /\ numFullBuffers \in 1 .. NUM_BUFFERS
            /\ numFullBuffers' \in 0 .. NUM_BUFFERS
        BY <3>2, <4>1 DEF AudioInv, TypeOK, NUM_BUFFERS
      <4>3. curReadBuffer' \in Index /\ curFillBuffer' = (curReadBuffer' + numFullBuffers') % NUM_BUFFERS
        BY <4>1, <4>2, OtherIndex DEF AudioInv, TypeOK, NUM_BUFFERS
      <4>4. played' \in [block : Blocks \cup {Silence}, flip : BOOLEAN]
        BY <4>1 DEF AudioInv, TypeOK
      <4> QED BY <2>1, <4>1, <4>2, <4>3, <4>4 DEF AudioInv, TypeOK, component
    <3> QED BY <3>1, <3>2
  <2>4. RingOK'
    BY <1>1 DEF audio_callback, AudioInv, TypeOK, RingOK, ring, NUM_BUFFERS, Prompt
  <2> QED BY <2>2, <2>3, <2>4 DEF AudioInv
<1>2. CASE audioInt
  BY <1>2 DEF audioInt, AudioInv, TypeOK, RingOK, ComponentOK, ring, component, Prompt
<1> QED BY <1>1, <1>2 DEF AudioQueue

\* AudioInterrupt, with the calls it makes.
LEMMA AudioInterruptStep == ASSUME AudioInv, Interrupt, UNCHANGED setup PROVE AudioInv'
<1>1. CASE AudioInterrupt
  <2>1. /\ irq /\ int.pc = "none" /\ irq' = FALSE
        /\ int' \in [pc : {"none", "source", "output"}, p : Blocks \cup {Silence}]
        /\ int'.pc = IF mixer THEN "source" ELSE "none"
        /\ UNCHANGED <<ring, callback, component, played>>
    BY <1>1 DEF AudioInterrupt, NoInterrupt
  <2> QED BY <2>1 DEF AudioInv, TypeOK, RingOK, ComponentOK, ring, component, Prompt
<1>2. CASE GetSourceData
  <2>1. /\ int.pc = "source"
        /\ int' \in [pc : {"none", "source", "output"}, p : Blocks \cup {Silence}]
        /\ int'.pc # "source"
        /\ UNCHANGED <<ring, callback, irq, component, played>>
    BY <1>2 DEF GetSourceData, NoInterrupt
  <2> QED BY <2>1 DEF AudioInv, TypeOK, RingOK, ComponentOK, ring, component, Prompt
<1>3. CASE audio_output
  <2>1. /\ int.pc = "output" /\ int.p \in Blocks \cup {Silence}
        /\ int' \in [pc : {"none", "source", "output"}, p : Blocks \cup {Silence}]
        /\ int'.pc = "none"
        /\ UNCHANGED <<callback, irq, component, played>>
    BY <1>3 DEF audio_output, NoInterrupt, AudioInv, TypeOK
  <2>2. ComponentOK'
    BY <2>1 DEF AudioInv, ComponentOK, component
  <2>3. TypeOK'
    <3>1. CASE numFullBuffers = NUM_BUFFERS
      BY <1>3, <2>1, <3>1 DEF audio_output, AudioInv, TypeOK, ring, component
    <3>2. CASE numFullBuffers # NUM_BUFFERS
      <4>1. /\ sndBuffer' = [sndBuffer EXCEPT ![curFillBuffer] = int.p]
            /\ curFillBuffer' = Other(curFillBuffer)
            /\ numFullBuffers' = numFullBuffers + 1
            /\ UNCHANGED curReadBuffer
        BY <1>3, <3>2 DEF audio_output
      <4>2. numFullBuffers' \in 0 .. NUM_BUFFERS
        BY <3>2, <4>1 DEF AudioInv, TypeOK, NUM_BUFFERS
      <4>3. curFillBuffer' \in Index /\ curFillBuffer' = (curReadBuffer' + numFullBuffers') % NUM_BUFFERS
        BY <4>1, OtherIndex DEF AudioInv, TypeOK, NUM_BUFFERS
      <4>4. sndBuffer' \in [Index -> Blocks \cup {Silence}]
        BY <2>1, <4>1 DEF AudioInv, TypeOK
      <4> QED BY <2>1, <4>1, <4>2, <4>3, <4>4 DEF AudioInv, TypeOK, component
    <3> QED BY <3>1, <3>2
  <2>4. RingOK'
    BY <1>3, <2>1 DEF audio_output, AudioInv, TypeOK, RingOK, NUM_BUFFERS, Prompt
  <2> QED BY <2>2, <2>3, <2>4 DEF AudioInv
<1> QED BY <1>1, <1>2, <1>3 DEF Interrupt

\* The sound component.
LEMMA ComponentStep == ASSUME AudioInv, AudioDispatch, UNCHANGED setup PROVE AudioInv'
<1>1. int.pc = "none" /\ UNCHANGED <<callback, int, played>>
  BY DEF AudioDispatch, Dispatch, OpenComponent, InitOutputDevice, OpenMixerReturns, AddSource,
         RemoveSource, CloseComponent, CloseMixer, CloseMixerReturns, ReopenAudio
<1>2. CASE ReopenAudio
  <2>1. /\ curFillBuffer' = 0 /\ curReadBuffer' = 0 /\ numFullBuffers' = 0 /\ irq' = TRUE
        /\ UNCHANGED <<sndBuffer, component>>
    BY <1>2 DEF ReopenAudio
  <2>2. curFillBuffer' = (curReadBuffer' + numFullBuffers') % NUM_BUFFERS
    BY <2>1 DEF NUM_BUFFERS
  <2>3. TypeOK'
    BY <1>1, <2>1, <2>2 DEF AudioInv, TypeOK, component, Index, NUM_BUFFERS
  <2>4. RingOK' /\ ComponentOK'
    BY <1>1, <2>1 DEF AudioInv, RingOK, ComponentOK, component, Prompt, NUM_BUFFERS
  <2> QED BY <2>3, <2>4 DEF AudioInv
<1>3. ASSUME /\ UNCHANGED <<ring, irq>>
             /\ comp' \in {"idle", "open_mixer", "close_mixer", "mixer_closed"}
             /\ open_count' \in Nat /\ num_sources' \in Nat /\ openers' \in Nat
             /\ audio_data' \in BOOLEAN /\ mixer' \in BOOLEAN /\ mixerOpen' \in BOOLEAN
             /\ ComponentOK'
      PROVE  AudioInv'
  BY <1>1, <1>3 DEF AudioInv, TypeOK, RingOK, ring, Prompt
<1>4. CASE OpenComponent
  BY <1>1, <1>3, <1>4 DEF OpenComponent, ring, AudioInv, TypeOK, ComponentOK
<1>5. CASE InitOutputDevice
  BY <1>1, <1>3, <1>5 DEF InitOutputDevice, ring, AudioInv, TypeOK, ComponentOK
<1>6. CASE OpenMixerReturns
  BY <1>1, <1>3, <1>6 DEF OpenMixerReturns, ring, AudioInv, TypeOK, ComponentOK
<1>7. CASE AddSource \/ RemoveSource
  BY <1>1, <1>3, <1>7 DEF AddSource, RemoveSource, ring, AudioInv, TypeOK, ComponentOK
<1>8. CASE CloseComponent
  <2>1. /\ comp = "idle" /\ openers > 0 /\ open_count \in Nat /\ openers \in Nat
        /\ open_count' = open_count - 1 /\ openers' = openers - 1
        /\ UNCHANGED <<ring, irq, mixer, mixerOpen>>
    BY <1>8 DEF CloseComponent, AudioInv, TypeOK
  <2>2. open_count' \in Nat /\ openers' \in Nat
    BY <2>1 DEF AudioInv, ComponentOK
  <2>3. CASE open_count = 1 /\ mixer
    <3>1. comp' = "close_mixer" /\ UNCHANGED <<audio_data, num_sources>>
      BY <1>8, <2>3 DEF CloseComponent
    <3>2. ComponentOK'
      BY <1>1, <2>1, <2>3, <3>1 DEF AudioInv, ComponentOK
    <3> QED BY <1>3, <2>1, <2>2, <3>1, <3>2 DEF AudioInv, TypeOK
  <2>4. CASE open_count = 1 /\ ~mixer
    <3>1. audio_data' = FALSE /\ num_sources' = 0 /\ UNCHANGED comp
      BY <1>8, <2>4 DEF CloseComponent
    <3>2. ComponentOK'
      BY <1>1, <2>1, <2>4, <3>1 DEF AudioInv, ComponentOK
    <3> QED BY <1>3, <2>1, <2>2, <3>1, <3>2 DEF AudioInv, TypeOK
  <2>5. CASE open_count # 1
    <3>1. UNCHANGED <<comp, audio_data, num_sources>>
      BY <1>8, <2>5 DEF CloseComponent
    <3>2. ComponentOK'
      BY <1>1, <2>1, <2>5, <3>1 DEF AudioInv, ComponentOK
    <3> QED BY <1>3, <2>1, <2>2, <3>1, <3>2 DEF AudioInv, TypeOK
  <2> QED BY <2>3, <2>4, <2>5
<1>9. CASE CloseMixer
  BY <1>1, <1>3, <1>9 DEF CloseMixer, ring, AudioInv, TypeOK, ComponentOK
<1>10. CASE CloseMixerReturns
  BY <1>1, <1>3, <1>10 DEF CloseMixerReturns, ring, AudioInv, TypeOK, ComponentOK
<1> QED
  BY <1>2, <1>4, <1>5, <1>6, <1>7, <1>8, <1>9, <1>10 DEF AudioDispatch

LEMMA AudioStep == AudioInv /\ [Next]_<<setup, vars>> => AudioInv'
<1> SUFFICES ASSUME AudioInv, [Next]_<<setup, vars>> PROVE AudioInv'
  OBVIOUS
<1>1. CASE Restart /\ UNCHANGED setup
  <2>1. /\ curFillBuffer' = 0 /\ curReadBuffer' = 0 /\ numFullBuffers' = 0
        /\ int' = NoInterrupt
        /\ comp' = "idle" /\ audio_data' = FALSE
        /\ mixer' = FALSE /\ num_sources' = 0 /\ openers' = 0 /\ mixerOpen' = FALSE
        /\ setup.restarts
        /\ UNCHANGED <<sndBuffer, callback, open_count, played, setup>>
    BY <1>1 DEF Restart
  <2>2. curFillBuffer' = (curReadBuffer' + numFullBuffers') % NUM_BUFFERS
    BY <2>1 DEF NUM_BUFFERS
  <2>3. /\ int' \in [pc : {"none", "source", "output"}, p : Blocks \cup {Silence}]
        /\ int'.pc = "none"
    BY <2>1 DEF NoInterrupt
  <2>4. irq' \in BOOLEAN
    BY <1>1 DEF Restart, audio_open
  <2>5. /\ curFillBuffer' \in Index /\ curReadBuffer' \in Index
        /\ numFullBuffers' \in 0 .. NUM_BUFFERS
    BY <2>1 DEF Index, NUM_BUFFERS
  <2>6. TypeOK'
    BY <2>1, <2>2, <2>3, <2>4, <2>5 DEF AudioInv, TypeOK
  <2>7. RingOK' /\ ComponentOK'
    BY <2>1, <2>3 DEF AudioInv, TypeOK, RingOK, ComponentOK, Prompt, NUM_BUFFERS
  <2> QED BY <2>6, <2>7 DEF AudioInv
<1>2. CASE UNCHANGED <<setup, vars>>
  BY <1>2 DEF vars, ring, component, AudioInv, TypeOK, RingOK, ComponentOK, Prompt
<1> QED BY <1>1, <1>2, CallbackStep, AudioInterruptStep, ComponentStep DEF Next

\* The ring's indices and its number of full buffers belong together (TypeOK); while
\* callbacks raise their flag promptly no block is dropped (audio_ios_impl.cpp:145); the
\* mixer is called while it is open, and closed by the last close (audio.cpp:409, 51).
THEOREM SoundSafe ==
  AudioSpec => [](TypeOK /\ NoBlockDropped /\ MixerIsOpen /\ LastCloseClosesMixer)
<1>1. AudioInv => TypeOK /\ NoBlockDropped /\ MixerIsOpen /\ LastCloseClosesMixer
  BY DEF AudioInv, TypeOK, RingOK, ComponentOK, NoBlockDropped, MixerIsOpen, LastCloseClosesMixer
<1> QED BY <1>1, AudioInitInv, AudioStep, PTL DEF AudioSpec
-----------------------------------------------------------------------------
\* The ring as a queue: what AudioStream maps to SoundQueue, without its liveness.
Sounds == Blocks \cup {Silence}

SoundSafety == Sound!Init /\ [][Sound!Next]_(Sound!vars)

\* Besides AudioInv: what the mixer has delivered is a block.
QueueInv ==
  /\ AudioInv
  /\ int.pc = "output" => int.p \in Blocks

\* n buffers of the ring b that are full, beginning at r, are a sequence.
LEMMA RingIsSequence ==
  ASSUME NEW r \in Index, NEW n \in 0 .. NUM_BUFFERS, NEW b \in [Index -> Sounds],
         NEW q, q = [i \in 1 .. n |-> b[(r + i - 1) % NUM_BUFFERS]]
  PROVE  /\ q \in Seq(Sounds) /\ Len(q) = n
         /\ n > 0 => q[1] = b[r]
         /\ n = 2 => q[2] = b[Other(r)]
<1>1. \A i \in 1 .. n : (r + i - 1) % NUM_BUFFERS \in Index
  BY DEF Index, NUM_BUFFERS
<1>2. \A i \in 1 .. n : b[(r + i - 1) % NUM_BUFFERS] \in Sounds
  BY <1>1
<1>3. n \in Nat
  BY DEF NUM_BUFFERS
<1>4. /\ (r + 1 - 1) % NUM_BUFFERS = r
      /\ (r + 2 - 1) % NUM_BUFFERS = Other(r)
  BY DEF Index, NUM_BUFFERS, Other
<1>5. n > 0 => q[1] = b[r]
  BY <1>3, <1>4
<1>6. n = 2 => q[2] = b[Other(r)]
  BY <1>3, <1>4
<1> QED BY <1>2, <1>3, <1>5, <1>6

\* What the queue is, before a step and after it.
LEMMA Ring ==
  /\ TypeOK => /\ Queue \in Seq(Sounds) /\ Len(Queue) = numFullBuffers
               /\ numFullBuffers > 0 => Queue[1] = sndBuffer[curReadBuffer]
               /\ numFullBuffers = 2 => Queue[2] = sndBuffer[Other(curReadBuffer)]
  /\ TypeOK' => /\ Queue' \in Seq(Sounds) /\ Len(Queue') = numFullBuffers'
                /\ numFullBuffers' > 0 => Queue'[1] = sndBuffer'[curReadBuffer']
                /\ numFullBuffers' = 2 => Queue'[2] = sndBuffer'[Other(curReadBuffer')]
<1>1. ASSUME TypeOK
      PROVE  /\ Queue \in Seq(Sounds) /\ Len(Queue) = numFullBuffers
             /\ numFullBuffers > 0 => Queue[1] = sndBuffer[curReadBuffer]
             /\ numFullBuffers = 2 => Queue[2] = sndBuffer[Other(curReadBuffer)]
  <2>1. /\ curReadBuffer \in Index /\ numFullBuffers \in 0 .. NUM_BUFFERS
        /\ sndBuffer \in [Index -> Sounds]
    BY <1>1 DEF TypeOK, Sounds
  <2>2. Queue = [i \in 1 .. numFullBuffers |-> sndBuffer[(curReadBuffer + i - 1) % NUM_BUFFERS]]
    BY DEF Queue
  <2>3. \A q : q = [i \in 1 .. numFullBuffers |-> sndBuffer[(curReadBuffer + i - 1) % NUM_BUFFERS]]
          => /\ q \in Seq(Sounds) /\ Len(q) = numFullBuffers
             /\ numFullBuffers > 0 => q[1] = sndBuffer[curReadBuffer]
             /\ numFullBuffers = 2 => q[2] = sndBuffer[Other(curReadBuffer)]
    BY <2>1, RingIsSequence
  <2> QED BY <2>2, <2>3
<1>2. ASSUME TypeOK'
      PROVE  /\ Queue' \in Seq(Sounds) /\ Len(Queue') = numFullBuffers'
             /\ numFullBuffers' > 0 => Queue'[1] = sndBuffer'[curReadBuffer']
             /\ numFullBuffers' = 2 => Queue'[2] = sndBuffer'[Other(curReadBuffer')]
  <2>1. /\ curReadBuffer' \in Index /\ numFullBuffers' \in 0 .. NUM_BUFFERS
        /\ sndBuffer' \in [Index -> Sounds]
    BY <1>2 DEF TypeOK, Sounds
  <2>2. Queue' = [i \in 1 .. numFullBuffers' |->
                   sndBuffer'[(curReadBuffer' + i - 1) % NUM_BUFFERS]]
    BY DEF Queue
  <2>3. \A q : q = [i \in 1 .. numFullBuffers' |->
                     sndBuffer'[(curReadBuffer' + i - 1) % NUM_BUFFERS]]
          => /\ q \in Seq(Sounds) /\ Len(q) = numFullBuffers'
             /\ numFullBuffers' > 0 => q[1] = sndBuffer'[curReadBuffer']
             /\ numFullBuffers' = 2 => q[2] = sndBuffer'[Other(curReadBuffer')]
    BY <2>1, RingIsSequence
  <2> QED BY <2>2, <2>3
<1> QED BY <1>1, <1>2

\* Two sequences of up to two elements are equal if they have the same elements.
LEMMA SameQueue ==
  ASSUME NEW s \in Seq(Sounds), NEW t \in Seq(Sounds), Len(s) = Len(t), Len(s) <= 2,
         Len(s) > 0 => s[1] = t[1], Len(s) = 2 => s[2] = t[2]
  PROVE  s = t
<1>1. \A i \in 1 .. Len(s) : s[i] = t[i]
  BY LenProperties
<1> QED BY <1>1, SeqEqual

\* The callback plays what was delivered first.
LEMMA PlayIsPlay ==
  ASSUME TypeOK, TypeOK', numFullBuffers > 0, audio_callback
  PROVE  Sound!Play
<1>1. /\ played' = [block |-> sndBuffer[curReadBuffer], flip |-> ~played.flip]
      /\ numFullBuffers' = numFullBuffers - 1 /\ numFullBuffers \in 1 .. 2
      /\ curReadBuffer' = Other(curReadBuffer)
      /\ sndBuffer' = sndBuffer
  BY DEF audio_callback, TypeOK, NUM_BUFFERS
<1>2. Queue # <<>>
  BY <1>1, Ring
<1>3. /\ Tail(Queue) \in Seq(Sounds) /\ Len(Tail(Queue)) = numFullBuffers - 1
      /\ \A n \in 1 .. numFullBuffers - 1 : Tail(Queue)[n] = Queue[n + 1]
  BY <1>2, Ring, HeadTailProperties
<1>4. ASSUME numFullBuffers = 2 PROVE Tail(Queue)[1] = Queue[2]
  <2>1. 1 \in 1 .. numFullBuffers - 1 /\ 1 + 1 = 2
    BY <1>4
  <2>2. Tail(Queue)[1] = Queue[1 + 1]
    BY <1>3, <2>1
  <2> QED BY <2>1, <2>2
<1>5. Queue' = Tail(Queue)
  BY <1>1, <1>3, <1>4, Ring, SameQueue
<1>6. Head(Queue) = sndBuffer[curReadBuffer]
  BY <1>1, Ring
<1> QED BY <1>1, <1>2, <1>5, <1>6 DEF Sound!Play

\* audio_output delivers a block, if there is room.
LEMMA OutputIsDeliver ==
  ASSUME QueueInv, TypeOK', audio_output
  PROVE  \/ \E b \in Blocks : Sound!Deliver(b)
         \/ UNCHANGED <<Queue, played>>
<1>1. TypeOK /\ int.p \in Blocks /\ UNCHANGED played
  BY DEF audio_output, QueueInv, AudioInv
<1>2. CASE numFullBuffers = NUM_BUFFERS
  BY <1>1, <1>2 DEF audio_output, ring, Queue
<1>3. CASE numFullBuffers # NUM_BUFFERS
  <2>1. /\ sndBuffer' = [sndBuffer EXCEPT ![curFillBuffer] = int.p]
        /\ numFullBuffers' = numFullBuffers + 1 /\ UNCHANGED curReadBuffer
        /\ numFullBuffers \in 0 .. 1
    BY <1>1, <1>3 DEF audio_output, TypeOK, NUM_BUFFERS
  <2>2. curFillBuffer = IF numFullBuffers = 0 THEN curReadBuffer ELSE Other(curReadBuffer)
    BY <1>1, <2>1 DEF TypeOK, Index, NUM_BUFFERS, Other
  <2>3. sndBuffer'[curFillBuffer] = int.p
    BY <1>1, <2>1 DEF TypeOK
  <2>4. numFullBuffers = 1 => sndBuffer'[curReadBuffer] = sndBuffer[curReadBuffer]
    BY <1>1, <2>1, <2>2 DEF TypeOK, Index, NUM_BUFFERS, Other
  <2>5. /\ Append(Queue, int.p) \in Seq(Sounds)
        /\ Len(Append(Queue, int.p)) = numFullBuffers + 1
        /\ Append(Queue, int.p)[numFullBuffers + 1] = int.p
        /\ numFullBuffers = 1 => Append(Queue, int.p)[1] = Queue[1]
    BY <1>1, <2>1, Ring DEF Sounds
  <2>6. Queue' = Append(Queue, int.p)
    <3>1. /\ Queue' \in Seq(Sounds) /\ Len(Queue') = numFullBuffers + 1
          /\ Queue'[1] = sndBuffer'[curReadBuffer]
          /\ numFullBuffers = 1 => Queue'[2] = sndBuffer'[Other(curReadBuffer)]
      BY <2>1, Ring
    <3>2. CASE numFullBuffers = 0
      <4>1. Queue'[1] = Append(Queue, int.p)[1] /\ Len(Queue') = 1
        BY <2>2, <2>3, <2>5, <3>1, <3>2
      <4> QED BY <2>5, <3>1, <3>2, <4>1, SameQueue
    <3>3. CASE numFullBuffers = 1
      <4>1. Queue'[1] = Append(Queue, int.p)[1]
        BY <1>1, <2>4, <2>5, <3>1, <3>3, Ring
      <4>2. Queue'[2] = Append(Queue, int.p)[2] /\ Len(Queue') = 2
        BY <2>2, <2>3, <2>5, <3>1, <3>3
      <4> QED BY <2>5, <3>1, <3>3, <4>1, <4>2, SameQueue
    <3> QED BY <2>1, <3>2, <3>3
  <2>7. Len(Queue) < NUM_BUFFERS
    BY <1>1, <2>1, Ring DEF NUM_BUFFERS
  <2> QED BY <1>1, <2>6, <2>7 DEF Sound!Deliver
<1> QED BY <1>2, <1>3

LEMMA QueueStep == QueueInv /\ [Next]_<<setup, vars>> => QueueInv' /\ [Sound!Next]_(Sound!vars)
<1> SUFFICES ASSUME QueueInv, [Next]_<<setup, vars>> PROVE QueueInv' /\ [Sound!Next]_(Sound!vars)
  OBVIOUS
<1> USE DEF Sound!vars
<1>0. TypeOK /\ TypeOK' /\ AudioInv'
  BY AudioStep DEF QueueInv, AudioInv
<1>1. CASE audio_callback /\ UNCHANGED setup
  <2>1. QueueInv'
    BY <1>0, <1>1 DEF audio_callback, QueueInv
  <2>2. CASE numFullBuffers = 0
    BY <1>1, <2>1, <2>2 DEF audio_callback, ring, Queue
  <2>3. CASE numFullBuffers # 0
    BY <1>0, <1>1, <2>1, <2>3, PlayIsPlay DEF TypeOK, NUM_BUFFERS, Sound!Next
  <2> QED BY <2>2, <2>3
<1>2. CASE audio_output /\ UNCHANGED setup
  <2>1. QueueInv'
    BY <1>0, <1>2 DEF audio_output, NoInterrupt, QueueInv
  <2> QED BY <1>0, <1>2, <2>1, OutputIsDeliver DEF Sound!Next
<1>3. CASE GetSourceData /\ UNCHANGED setup
  <2>1. int'.pc = "output" => int'.p \in Blocks
    BY <1>3 DEF GetSourceData, NoInterrupt
  <2> QED BY <1>0, <1>3, <2>1 DEF GetSourceData, ring, Queue, QueueInv
<1>4. CASE ReopenAudio \/ Restart
  <2>1. UNCHANGED played /\ numFullBuffers' = 0 /\ int'.pc # "output"
    BY <1>4 DEF ReopenAudio, Restart, Dispatch, NoInterrupt
  <2>2. Queue' = <<>>
    BY <2>1 DEF Queue
  <2> QED BY <1>0, <2>1, <2>2 DEF QueueInv, Sound!Next, Sound!Reopen
<1>5. CASE UNCHANGED <<ring, played>> /\ (int'.pc = "output" => int' = int)
  BY <1>0, <1>5 DEF ring, Queue, QueueInv
<1>6. CASE audioInt \/ AudioInterrupt \/ UNCHANGED <<setup, vars>>
  BY <1>5, <1>6 DEF audioInt, AudioInterrupt, NoInterrupt, vars
<1>7. CASE AudioDispatch /\ ~ReopenAudio
  BY <1>5, <1>7 DEF AudioDispatch, Dispatch, OpenComponent, InitOutputDevice, OpenMixerReturns,
                    AddSource, RemoveSource, CloseComponent, CloseMixer, CloseMixerReturns, ring
<1> QED
  BY <1>1, <1>2, <1>3, <1>4, <1>6, <1>7 DEF Next, AudioQueue, Interrupt

\* The ring of two buffers implements a queue: every block is played once and in order
\* (audio_callback and audio_output in audio_ios_impl.cpp), whenever callbacks,
\* interrupts, reopening and restarts come.
THEOREM RingIsQueue == AudioSpec => SoundSafety
<1>1. Init => QueueInv
  BY AudioInitInv DEF Init, NoInterrupt, QueueInv
<1>2. Init => Sound!Init
  BY DEF Init, Sound!Init, Queue
<1> QED BY <1>1, <1>2, QueueStep, PTL DEF AudioSpec, SoundSafety
-----------------------------------------------------------------------------
\* The network.
-----------------------------------------------------------------------------
EtherSpec == EtherInit /\ [][EtherNext]_etherVars

-----------------------------------------------------------------------------
\* Why there is one activation at most: what the reception thread waits for is in one
\* of three places.  It is the interrupt it raised, then the activation that serves it,
\* then the count of the semaphore.  A thread that does not wait has left nothing.
Acknowledged ==
  /\ activations = <<>> \/ \E a : activations = <<a>>
  /\ ether_thread # "wait" => ~InterruptFlag /\ activations = <<>> /\ int_ack.count = 0
  /\ ether_thread = "wait" =>
       \/ InterruptFlag /\ activations = <<>> /\ int_ack.count = 0
       \/ ~InterruptFlag /\ activations # <<>> /\ int_ack.count = 0
       \/ ~InterruptFlag /\ activations = <<>> /\ int_ack.count = 1
  /\ emulator = "off" => ether_thread = "none"

\* An activation has a packet buffer until there is nothing more to read.
BufferInUse ==
  n_ether_packets =
    IF activations = <<>> THEN 0 ELSE IF activations[1].pc = "ack" THEN 0 ELSE 1

EtherInv ==
  /\ int_ack \in [live : BOOLEAN, count : Nat] /\ InterruptFlag \in BOOLEAN
  /\ Acknowledged /\ BufferInUse

-----------------------------------------------------------------------------
LEMMA EtherInitInv == EtherInit => EtherInv
<1> SUFFICES ASSUME EtherInit PROVE EtherInv
  OBVIOUS
<1>1. /\ int_ack \in [live : BOOLEAN, count : Nat] /\ int_ack.count = 0
      /\ ether_thread # "wait"
  BY DEF EtherInit, Threads, Online
<1>2. /\ activations = <<>> /\ InterruptFlag = FALSE /\ n_ether_packets = 0
      /\ emulator = "running"
  BY DEF EtherInit
<1> QED BY <1>1, <1>2 DEF EtherInv, Acknowledged, BufferInUse

\* The steps of the interrupt.
LEMMA InterruptStep == ASSUME EtherInv, EtherInterrupt PROVE EtherInv'
<1>1. /\ InterruptFlag /\ emulator = "running"
      /\ InterruptFlag' = FALSE /\ n_ether_packets' = n_ether_packets + 1
      /\ activations' = Append(activations, Activation)
      /\ UNCHANGED <<ether_thread, int_ack, emulator>>
  BY DEF EtherInterrupt, MacRuns, host
<1>2. activations = <<>> /\ ether_thread = "wait" /\ int_ack.count = 0 /\ n_ether_packets = 0
  BY <1>1 DEF EtherInv, Acknowledged, BufferInUse
<1>3. activations' = <<Activation>> /\ Activation.pc = "read"
  BY <1>1, <1>2 DEF Activation
<1>4. activations' # <<>> /\ activations'[1].pc = "read"
  BY <1>3
<1>5. BufferInUse'
  BY <1>1, <1>2, <1>4 DEF BufferInUse
<1>6. Acknowledged'
  BY <1>1, <1>2, <1>3, <1>4 DEF Acknowledged
<1> QED BY <1>1, <1>5, <1>6 DEF EtherInv

LEMMA ServeStep == ASSUME EtherInv, Serve PROVE EtherInv'
<1>1. /\ activations # <<>> /\ ether_thread = "wait" /\ int_ack.count = 0 /\ ~InterruptFlag
      /\ emulator = "running" /\ UNCHANGED <<InterruptFlag, ether_thread, emulator>>
  BY DEF Serve, ReadPacket, HandlerReturns, Acknowledge, EtherInv, Acknowledged, host
<1>2. PICK a : activations = <<a>>
  BY <1>1 DEF EtherInv, Acknowledged
<1>3. Depth = 1 /\ Top = a /\ \A b : SetTop(b) = <<b>>
  BY <1>2 DEF Depth, Top, SetTop
<1>4. CASE ReadPacket
  <2>1. PICK data :
          /\ activations' = SetTop(IF NothingToServe(data) THEN [Activation EXCEPT !.pc = "ack"]
                                   ELSE IF HasHandler(data)
                                     THEN [pc |-> "handler", data |-> data]
                                   ELSE Top)
          /\ n_ether_packets' = IF NothingToServe(data) THEN n_ether_packets - 1
                                ELSE n_ether_packets
    BY <1>4 DEF ReadPacket
  <2>2. a.pc = "read" /\ n_ether_packets = 1 /\ UNCHANGED int_ack
    BY <1>2, <1>3, <1>4 DEF ReadPacket, EtherInv, BufferInUse
  <2>3. PICK b : /\ activations' = <<b>>
                 /\ IF NothingToServe(data) THEN b.pc = "ack" ELSE b.pc # "ack"
    BY <1>3, <2>1, <2>2 DEF Activation
  <2> QED BY <1>1, <2>1, <2>2, <2>3 DEF EtherInv, Acknowledged, BufferInUse
<1>5. CASE HandlerReturns
  <2>1. activations' = <<Activation>> /\ Activation.pc = "read"
    BY <1>3, <1>5 DEF HandlerReturns, Activation
  <2>2. n_ether_packets = 1 /\ UNCHANGED <<n_ether_packets, int_ack>>
    BY <1>2, <1>3, <1>5 DEF HandlerReturns, EtherInv, BufferInUse, host
  <2> QED BY <1>1, <2>1, <2>2 DEF EtherInv, Acknowledged, BufferInUse
<1>6. CASE Acknowledge
  <2>1. activations' = <<>>
    BY <1>2, <1>3, <1>6 DEF Acknowledge
  <2>2. /\ n_ether_packets = 0 /\ UNCHANGED n_ether_packets
        /\ int_ack' = [int_ack EXCEPT !.count = @ + 1]
    BY <1>2, <1>3, <1>6 DEF Acknowledge, EtherInv, BufferInUse
  <2>3. int_ack' \in [live : BOOLEAN, count : Nat] /\ int_ack'.count = 1
    BY <1>1, <2>2 DEF EtherInv
  <2> QED BY <1>1, <2>1, <2>2, <2>3 DEF EtherInv, Acknowledged, BufferInUse
<1> QED BY <1>4, <1>5, <1>6 DEF Serve

\* The steps of the reception thread.
LEMMA ReceptionStep == ASSUME EtherInv, receive_func PROVE EtherInv'
<1>1. CASE Poll
  BY <1>1 DEF Poll, mac, EtherInv, Acknowledged, BufferInUse
<1>2. CASE Raise
  BY <1>2 DEF Raise, mac, EtherInv, Acknowledged, BufferInUse
<1>3. CASE Wait
  <2>1. int_ack' \in [live : BOOLEAN, count : Nat] /\ int_ack'.count = int_ack.count - 1
    BY <1>3 DEF Wait, EtherInv
  <2> QED BY <1>3, <2>1 DEF Wait, mac, EtherInv, Acknowledged, BufferInUse
<1> QED BY <1>1, <1>2, <1>3 DEF receive_func

LEMMA EtherStep == EtherInv /\ [EtherNext]_etherVars => EtherInv'
<1> SUFFICES ASSUME EtherInv, [EtherNext]_etherVars PROVE EtherInv'
  OBVIOUS
<1>1. CASE UNCHANGED <<mac, int_ack, ether_thread, InterruptFlag, emulator>>
  BY <1>1 DEF mac, EtherInv, Acknowledged, BufferInUse
<1>2. CASE Receive \/ slirp_receive_func \/ slirp_output \/ ether_do_write
  BY <1>1, <1>2 DEF Receive, slirp_receive_func, slirp_output, ether_do_write
<1>3. ASSUME NEW t \in Types, ether_attach_ph(t) \/ ether_detach_ph(t) PROVE EtherInv'
  BY <1>3 DEF ether_attach_ph, ether_detach_ph, host, EtherInv, Acknowledged, BufferInUse
<1>4. CASE EtherExit
  BY <1>4 DEF EtherExit, host, EtherInv, Acknowledged, BufferInUse
<1>5. CASE stop_thread
  BY <1>5 DEF stop_thread, mac, EtherInv, Acknowledged, BufferInUse
<1>6. CASE StartAgain
  BY <1>6 DEF StartAgain, Online, EtherInv, Acknowledged, BufferInUse
<1>7. CASE UNCHANGED etherVars
  BY <1>1, <1>7 DEF etherVars, host
<1> QED
  BY <1>2, <1>3, <1>4, <1>5, <1>6, <1>7, InterruptStep, ServeStep, ReceptionStep DEF EtherNext

\* One packet buffer suffices, however deep the protocol handlers let interrupts nest:
\* "should be at most 1" (ether.cpp:459).
THEOREM OnePacketSuffices == EtherSpec => []AtMostOnePacket
<1>1. EtherInv => AtMostOnePacket
  BY DEF EtherInv, BufferInUse, AtMostOnePacket
<1> QED BY <1>1, EtherInitInv, EtherStep, PTL DEF EtherSpec
-----------------------------------------------------------------------------
\* What is received from a UDP tunnel, unit for unit: it begins with a head, and at
\* each head a datagram begins that ends at the next head, or where everything ends.
At(s, i, p) ==
  /\ i + Len(p) <= Len(s) + 1
  /\ \A j \in 1 .. Len(p) : s[i + j - 1] = p[j]
  /\ i + Len(p) = Len(s) + 1 \/ s[i + Len(p)].head

Framed(s) ==
  /\ s \in Seq(Units)
  /\ s # <<>> => s[1].head
  /\ \A i \in 1 .. Len(s) : s[i].head => \E p \in Datagrams : At(s, i, p)

FramedInv ==
  /\ net_protocols \subseteq Types
  /\ ~Slirp => slirp_thread.pc = "none" /\ Framed(fd)
  /\ WholePackets

\* The units of a packet: the first one is its head.
LEMMA HeadFacts ==
  /\ \A t, i : [type |-> t, head |-> i = 1].head <=> i = 1
  /\ \A t, i : [type |-> t, head |-> i = 1].type = t
BY Zenon

LEMMA PacketFacts ==
  ASSUME NEW t \in Types \cup {Foreign, Short}, NEW n \in Nat \ {0}
  PROVE  /\ Packet(t, n) \in Seq(Units) /\ Len(Packet(t, n)) = n
         /\ Packet(t, n)[1].head /\ Packet(t, n)[1].type = t
         /\ \A j \in 2 .. n : ~Packet(t, n)[j].head
<1>1. \A i \in 1 .. n : [type |-> t, head |-> i = 1] \in Units
  BY DEF Units
<1>2. Packet(t, n) \in [1 .. n -> Units]
  BY <1>1 DEF Packet
<1>3. \A i \in 1 .. n : Packet(t, n)[i] = [type |-> t, head |-> i = 1]
  BY DEF Packet
<1>4. 1 \in 1 .. n
  OBVIOUS
<1>5. Packet(t, n)[1].head /\ Packet(t, n)[1].type = t
  <2>1. Packet(t, n)[1] = [type |-> t, head |-> 1 = 1]
    BY <1>3, <1>4, Zenon
  <2>2. [type |-> t, head |-> 1 = 1].head /\ [type |-> t, head |-> 1 = 1].type = t
    BY HeadFacts, Zenon
  <2> QED BY <2>1, <2>2, Zenon
<1>6. \A j \in 2 .. n : j \in 1 .. n /\ ~(j = 1)
  OBVIOUS
<1>7. ASSUME NEW j \in 2 .. n PROVE ~Packet(t, n)[j].head
  <2>1. Packet(t, n)[j] = [type |-> t, head |-> j = 1] /\ ~(j = 1)
    BY <1>3, <1>6
  <2>2. [type |-> t, head |-> j = 1].head <=> j = 1
    BY HeadFacts
  <2> QED BY <2>1, <2>2, Zenon
<1> QED BY <1>2, <1>5, <1>7, SeqDef

LEMMA DatagramFacts ==
  ASSUME NEW p \in Datagrams
  PROVE  /\ p \in Seq(Units) /\ Len(p) \in Nat \ {0}
         /\ p[1].head /\ \A j \in 2 .. Len(p) : ~p[j].head
         /\ p[1].type \in Types => p \in Packets
<1>1. BufferSize \in Nat \ {0} /\ Foreign \notin Types /\ Short \notin Types
  BY EthernetAssumption
<1>2. CASE p \in Packets
  <2>1. PICK t \in Types, n \in 1 .. BufferSize : p = Packet(t, n)
    BY <1>2 DEF Packets
  <2>2. n \in Nat \ {0}
    BY <1>1
  <2> QED BY <1>2, <2>1, <2>2, PacketFacts
<1>3. CASE p = Packet(Foreign, BufferSize)
  BY <1>1, <1>3, PacketFacts
<1>4. CASE p = Packet(Short, 1)
  BY <1>1, <1>4, PacketFacts
<1> QED BY <1>2, <1>3, <1>4 DEF Datagrams

\* A datagram that arrives is behind what is there.
LEMMA ArrivalKeepsFrames ==
  ASSUME NEW s, Framed(s), NEW p \in Datagrams
  PROVE  Framed(s \o p)
<1>1. s \in Seq(Units) /\ p \in Seq(Units) /\ Len(p) \in Nat \ {0} /\ p[1].head
  BY DatagramFacts DEF Framed
<1>2. /\ s \o p \in Seq(Units) /\ Len(s \o p) = Len(s) + Len(p)
      /\ \A i \in 1 .. Len(s) : (s \o p)[i] = s[i]
      /\ \A j \in 1 .. Len(p) : (s \o p)[Len(s) + j] = p[j]
  BY <1>1
<1>3. (s \o p)[1].head
  BY <1>1, <1>2 DEF Framed
<1>4. ASSUME NEW i \in 1 .. Len(s \o p), (s \o p)[i].head
      PROVE  \E q \in Datagrams : At(s \o p, i, q)
  <2>1. CASE i <= Len(s)
    <3>1. PICK q \in Datagrams : At(s, i, q)
      BY <1>1, <1>2, <1>4, <2>1 DEF Framed
    <3>2. Len(q) \in Nat \ {0}
      BY DatagramFacts
    <3>3. /\ i + Len(q) <= Len(s \o p) + 1
          /\ \A j \in 1 .. Len(q) : (s \o p)[i + j - 1] = q[j]
      BY <1>1, <1>2, <3>1, <3>2 DEF At
    <3>4. (s \o p)[i + Len(q)].head
      <4>1. CASE i + Len(q) = Len(s) + 1
        BY <1>1, <1>2, <4>1
      <4>2. CASE i + Len(q) <= Len(s)
        BY <1>1, <1>2, <3>1, <3>2, <4>2 DEF At
      <4> QED BY <1>1, <3>1, <3>2, <4>1, <4>2 DEF At
    <3> QED BY <3>3, <3>4 DEF At
  <2>2. CASE i = Len(s) + 1
    BY <1>1, <1>2, <2>2 DEF At
  <2>3. CASE i > Len(s) + 1
    <3>1. i - Len(s) \in 2 .. Len(p) /\ i = Len(s) + (i - Len(s))
      BY <1>1, <1>2, <2>3
    <3>2. (s \o p)[i] = p[i - Len(s)]
      BY <1>1, <1>2, <3>1
    <3> QED BY <1>4, <3>1, <3>2, DatagramFacts
  <2> QED BY <1>1, <1>2, <2>1, <2>2, <2>3
<1> QED BY <1>2, <1>3, <1>4 DEF Framed

\* recvfrom takes the first datagram and leaves the others as they were.
LEMMA ReadKeepsFrames ==
  ASSUME Framed(fd), fd # <<>>
  PROVE  Datagram \in Datagrams /\ Framed(SubSeq(fd, Len(Datagram) + 1, Len(fd)))
<1> DEFINE First(n) == (\A i \in 2 .. n : ~fd[i].head) /\ (n = Len(fd) \/ fd[n + 1].head)
<1>1. fd \in Seq(Units) /\ Len(fd) \in Nat \ {0} /\ fd[1].head /\ 1 \in 1 .. Len(fd)
  BY DEF Framed
<1>2. PICK p \in Datagrams : At(fd, 1, p)
  BY <1>1 DEF Framed
<1>3. /\ p \in Seq(Units) /\ Len(p) \in 1 .. Len(fd)
      /\ \A j \in 1 .. Len(p) : fd[j] = p[j]
      /\ \A j \in 2 .. Len(p) : ~p[j].head
      /\ Len(p) = Len(fd) \/ fd[Len(p) + 1].head
  BY <1>1, <1>2, DatagramFacts DEF At
<1>4. First(Len(p))
  BY <1>1, <1>3
<1>5. ASSUME NEW n \in 1 .. Len(fd), First(n) PROVE n = Len(p)
  <2>1. CASE n < Len(p)
    BY <1>1, <1>3, <1>5, <2>1
  <2>2. CASE n > Len(p)
    <3>1. Len(p) + 1 \in 2 .. n /\ Len(p) # Len(fd)
      BY <1>1, <1>3, <2>2
    <3> QED BY <1>3, <1>5, <3>1
  <2> QED BY <1>1, <1>3, <2>1, <2>2
<1>6. (CHOOSE n \in 1 .. Len(fd) : First(n)) = Len(p)
  BY <1>3, <1>4, <1>5
<1>7. Datagram = SubSeq(fd, 1, Len(p))
  BY <1>6 DEF Datagram
<1>8. SubSeq(fd, 1, Len(p)) = p
  BY <1>1, <1>3
<1> DEFINE r == SubSeq(fd, Len(p) + 1, Len(fd))
<1>9. /\ r \in Seq(Units) /\ Len(r) = Len(fd) - Len(p)
      /\ \A i \in 1 .. Len(r) : r[i] = fd[Len(p) + i]
  BY <1>1, <1>3
<1> HIDE DEF r, First
<1>10. r # <<>> => r[1].head
  BY <1>1, <1>3, <1>9
<1>11. ASSUME NEW i \in 1 .. Len(r), r[i].head
       PROVE  \E q \in Datagrams : At(r, i, q)
  <2>1. Len(p) + i \in 1 .. Len(fd) /\ fd[Len(p) + i].head
    BY <1>1, <1>3, <1>9, <1>11
  <2>2. PICK q \in Datagrams : At(fd, Len(p) + i, q)
    BY <2>1 DEF Framed
  <2>3. Len(q) \in Nat \ {0}
    BY DatagramFacts
  <2> HIDE DEF Units
  <2>4. Len(r) \in Nat /\ Len(fd) = Len(p) + Len(r) /\ Len(p) \in Nat /\ i \in Nat
    BY <1>1, <1>3, <1>9
  <2>5. i + Len(q) <= Len(r) + 1
    BY <2>2, <2>3, <2>4 DEF At
  <2>6. ASSUME NEW j \in 1 .. Len(q) PROVE r[i + j - 1] = q[j]
    <3>1. i + j - 1 \in 1 .. Len(r) /\ Len(p) + (i + j - 1) = Len(p) + i + j - 1
      BY <2>3, <2>4, <2>5
    <3>2. fd[Len(p) + i + j - 1] = q[j]
      BY <2>2 DEF At
    <3> QED BY <1>9, <3>1, <3>2
  <2>7. CASE i + Len(q) = Len(r) + 1
    BY <2>5, <2>6, <2>7 DEF At
  <2>8. CASE i + Len(q) # Len(r) + 1
    <3>1. i + Len(q) \in 1 .. Len(r) /\ Len(p) + (i + Len(q)) = Len(p) + i + Len(q)
      BY <2>3, <2>4, <2>5, <2>8
    <3>2. fd[Len(p) + i + Len(q)].head
      BY <2>2, <2>3, <2>4, <2>8 DEF At
    <3>3. r[i + Len(q)].head
      BY <1>9, <3>1, <3>2
    <3> QED BY <2>5, <2>6, <3>3 DEF At
  <2> QED BY <2>7, <2>8
<1>12. Framed(r)
  BY <1>9, <1>10, <1>11 DEF Framed
<1> QED BY <1>2, <1>7, <1>8, <1>12 DEF r

LEMMA FramedStep == EtherInv /\ FramedInv /\ [EtherNext]_etherVars => FramedInv'
<1> SUFFICES ASSUME EtherInv, FramedInv, [EtherNext]_etherVars PROVE FramedInv'
  OBVIOUS
<1> USE DEF FramedInv, WholePackets, Slirp, mac, host
<1>1. CASE Receive
  <2>1. ~Slirp
    BY <1>1 DEF Receive
  <2>2. PICK p \in Datagrams : fd' = fd \o p
    BY <1>1 DEF Receive
  <2>3. Framed(fd')
    BY <2>1, <2>2, ArrivalKeepsFrames
  <2> QED BY <1>1, <2>3 DEF Receive
<1>2. CASE slirp_receive_func \/ slirp_output \/ ether_do_write
  BY <1>2 DEF slirp_receive_func, slirp_output, ether_do_write
<1>3. CASE receive_func
  BY <1>3 DEF receive_func, Poll, Raise, Wait
<1>4. ASSUME NEW t \in Types, ether_attach_ph(t) \/ ether_detach_ph(t) PROVE FramedInv'
  BY <1>4 DEF ether_attach_ph, ether_detach_ph
<1>5. CASE EtherInterrupt
  <2>1. activations = <<>>
    BY <1>5 DEF EtherInterrupt, EtherInv, Acknowledged
  <2>2. activations' = <<Activation>> /\ Activation.pc = "read"
    BY <1>5, <2>1 DEF EtherInterrupt, Activation
  <2> QED BY <1>5, <2>2 DEF EtherInterrupt
<1>6. CASE Serve
  <2>1. PICK a : activations = <<a>>
    BY <1>6 DEF Serve, ReadPacket, HandlerReturns, Acknowledge, EtherInv, Acknowledged
  <2>2. Depth = 1 /\ Top = a /\ \A b : SetTop(b) = <<b>>
    BY <2>1 DEF Depth, Top, SetTop
  <2>3. UNCHANGED <<network, net_protocols, slirp_thread>>
    BY <1>6 DEF Serve, ReadPacket, HandlerReturns, Acknowledge
  <2>4. CASE ReadPacket
    <3> DEFINE data == Received
    <3>1. /\ fd' = SubSeq(fd, Len(data) + 1, Len(fd))
          /\ activations' =
               SetTop(IF NothingToServe(data) THEN [Activation EXCEPT !.pc = "ack"]
                      ELSE IF HasHandler(data) THEN [pc |-> "handler", data |-> data]
                      ELSE Top)
          /\ a.pc = "read"
      BY <2>2, <2>4 DEF ReadPacket
    <3>2. PICK b : /\ activations' = <<b>>
                   /\ b.pc = "handler" =>
                        ~NothingToServe(data) /\ HasHandler(data) /\ b.data = data
      BY <2>2, <3>1 DEF Activation
    <3>3. CASE Slirp
      BY <2>3, <3>3
    <3>4. CASE ~Slirp
      <4>1. Framed(fd) /\ slirp_thread.pc = "none"
        BY <3>4
      <4>2. CASE fd = <<>>
        <5>1. data = <<>> /\ fd' = <<>>
          BY <3>1, <3>4, <4>2 DEF Received, Datagram
        <5>2. b.pc # "handler"
          BY <3>2, <5>1 DEF NothingToServe
        <5> QED BY <2>3, <3>2, <4>1, <4>2, <5>1, <5>2
      <4>3. CASE fd # <<>>
        <5>1. data \in Datagrams /\ Framed(fd')
          BY <3>1, <3>4, <4>1, <4>3, ReadKeepsFrames DEF Received
        <5>2. b.pc = "handler" => b.data \in Packets
          BY <3>2, <5>1, DatagramFacts DEF HasHandler
        <5> QED BY <2>3, <3>2, <3>4, <4>1, <5>1, <5>2 DEF Packets
      <4> QED BY <4>2, <4>3
    <3> QED BY <3>3, <3>4
  <2>5. CASE HandlerReturns
    <3>1. activations' = <<Activation>> /\ Activation.pc = "read" /\ UNCHANGED fd
      BY <2>2, <2>5 DEF HandlerReturns, Activation
    <3> QED BY <2>3, <3>1
  <2>6. CASE Acknowledge
    <3>1. activations' = <<>> /\ UNCHANGED fd
      BY <2>1, <2>2, <2>6 DEF Acknowledge
    <3> QED BY <2>3, <3>1
  <2> QED BY <1>6, <2>4, <2>5, <2>6 DEF Serve
<1>7. CASE EtherExit
  BY <1>7 DEF EtherExit
<1>8. CASE stop_thread
  <2>1. Framed(<<>>)
    BY DEF Framed
  <2> QED BY <1>8, <2>1 DEF stop_thread, NoThread
<1>9. CASE StartAgain
  BY <1>9 DEF StartAgain, NoThread
<1>10. CASE UNCHANGED etherVars
  BY <1>10 DEF etherVars
<1> QED
  BY <1>1, <1>2, <1>3, <1>4, <1>5, <1>6, <1>7, <1>8, <1>9, <1>10 DEF EtherNext

\* From a UDP tunnel a protocol handler gets one packet, whole and of a type that was
\* asked for, though datagrams wait behind each other and the handlers come and go
\* (ether_ios.cpp:796).
THEOREM PacketsAreWhole == EtherSpec => []WholePackets
<1>1. EtherInit => FramedInv
  <2>1. Framed(<<>>)
    BY DEF Framed
  <2> QED BY <2>1 DEF EtherInit, FramedInv, WholePackets, Threads, NoThread, Slirp
<1>2. FramedInv => WholePackets
  BY DEF FramedInv
<1> QED BY <1>1, <1>2, EtherInitInv, EtherStep, FramedStep, PTL DEF EtherSpec
-----------------------------------------------------------------------------
\* What the threads leave in the pipes and hand to each other is made of units; no
\* buffer takes more than it holds.
EtherTypes ==
  /\ network \in EtherSetups
  /\ net_protocols \subseteq Types
  /\ fd \in Seq(Units) /\ Len(fd) <= PipeSize /\ input \in 0 .. PipeSize
  /\ ether_thread \in {"none", "poll", "raise", "wait"}
  /\ slirp_thread.pc \in {"none", "select", "output"} /\ slirp_thread.out \in Seq(Units)
  /\ \A i \in DOMAIN activations :
       activations[i].pc \in {"read", "handler", "ack"} /\ activations[i].data \in Seq(Units)
  /\ emulator \in {"running", "cancel", "off"}

\* What is received is there, and what is left of it is there too.
LEMMA ReceivedFacts ==
  ASSUME EtherTypes, Slirp \/ Framed(fd)
  PROVE  /\ Received \in Seq(Units)
         /\ SubSeq(fd, Len(Received) + 1, Len(fd)) \in Seq(Units)
         /\ Len(SubSeq(fd, Len(Received) + 1, Len(fd))) <= PipeSize
<1>1. fd \in Seq(Units) /\ Len(fd) \in Nat /\ Len(fd) <= PipeSize /\ PipeSize \in Nat
  BY EthernetAssumption DEF EtherTypes
<1>2. PICK n \in 0 .. Len(fd) : Received = SubSeq(fd, 1, n)
  <2>1. CASE Slirp
    BY <1>1, <2>1, EthernetAssumption DEF Received, PipeRead
  <2>2. CASE ~Slirp /\ fd = <<>>
    <3>1. SubSeq(fd, 1, 0) = <<>>
      BY <1>1
    <3> QED BY <1>1, <2>2, <3>1 DEF Received, Datagram
  <2>3. CASE ~Slirp /\ fd # <<>>
    <3> DEFINE First(n) == (\A i \in 2 .. n : ~fd[i].head) /\ (n = Len(fd) \/ fd[n + 1].head)
    <3>1. Datagram = SubSeq(fd, 1, CHOOSE n \in 1 .. Len(fd) : First(n))
      BY <2>3 DEF Datagram
    <3>2. \E n \in 1 .. Len(fd) : First(n)
      <4>1. PICK p \in Datagrams : At(fd, 1, p)
        BY <1>1, <2>3 DEF Framed
      <4>2. /\ Len(p) \in 1 .. Len(fd)
            /\ \A j \in 2 .. Len(p) : fd[j] = p[j] /\ ~p[j].head
            /\ Len(p) = Len(fd) \/ fd[Len(p) + 1].head
        BY <1>1, <4>1, DatagramFacts DEF At
      <4> QED BY <4>2
    <3>3. (CHOOSE n \in 1 .. Len(fd) : First(n)) \in 1 .. Len(fd)
      <4> HIDE DEF First
      <4>1. \A n : n \in 1 .. Len(fd) /\ First(n) =>
              (CHOOSE m : m \in 1 .. Len(fd) /\ First(m)) \in 1 .. Len(fd)
        OBVIOUS
      <4>2. (CHOOSE m \in 1 .. Len(fd) : First(m)) = CHOOSE m : m \in 1 .. Len(fd) /\ First(m)
        OBVIOUS
      <4> QED BY <3>2, <4>1, <4>2
    <3>4. Received = Datagram
      BY <2>3 DEF Received
    <3> DEFINE k == CHOOSE n \in 1 .. Len(fd) : First(n)
    <3>5. k \in 1 .. Len(fd) /\ Received = SubSeq(fd, 1, k)
      BY <3>1, <3>3, <3>4
    <3> HIDE DEF k, First
    <3> QED BY <1>1, <3>5
  <2> QED BY <2>1, <2>2, <2>3
<1>3. Received \in Seq(Units) /\ Len(Received) = n
  BY <1>1, <1>2
<1> QED BY <1>1, <1>3

\* Every step of the driver and of the network keeps them.
LEMMA EtherTypesStep ==
  EtherInv /\ FramedInv /\ EtherTypes /\ [EtherNext]_etherVars => EtherTypes'
<1> SUFFICES ASSUME EtherInv, FramedInv, EtherTypes, [EtherNext]_etherVars PROVE EtherTypes'
  OBVIOUS
<1>0. PipeSize \in Nat \ {0} /\ <<>> \in Seq(Units) /\ Len(fd) \in Nat /\ NoThread.out = <<>>
      /\ NoThread.pc = "none"
  BY EthernetAssumption DEF EtherTypes, NoThread
<1>1. CASE Receive
  <2>1. PICK p \in Datagrams : Len(fd) + Len(p) <= PipeSize /\ fd' = fd \o p
    BY <1>1 DEF Receive
  <2>2. p \in Seq(Units)
    BY DatagramFacts
  <2>3. fd' \in Seq(Units) /\ Len(fd') <= PipeSize
    BY <2>1, <2>2 DEF EtherTypes
  <2> QED BY <1>1, <2>3 DEF Receive, mac, EtherTypes
<1>2. CASE slirp_receive_func
  <2>1. input' \in 0 .. PipeSize
    BY <1>0, <1>2 DEF slirp_receive_func, EtherTypes
  <2>2. slirp_thread'.pc \in {"none", "select", "output"} /\ slirp_thread'.out \in Seq(Units)
    <3>1. PICK p \in Packets \cup {<<>>} :
            slirp_thread' = IF p = <<>> THEN slirp_thread ELSE [pc |-> "output", out |-> p]
      BY <1>2 DEF slirp_receive_func
    <3>2. p \in Seq(Units)
      BY <1>0, DatagramFacts DEF Datagrams
    <3> QED BY <3>1, <3>2 DEF EtherTypes
  <2> QED BY <1>2, <2>1, <2>2 DEF slirp_receive_func, mac, EtherTypes
<1>3. CASE slirp_output
  <2>1. fd' \in Seq(Units) /\ Len(fd') <= PipeSize
    BY <1>3 DEF slirp_output, EtherTypes
  <2>2. slirp_thread'.pc = "select" /\ slirp_thread'.out = <<>>
    BY <1>3 DEF slirp_output
  <2> QED BY <1>0, <1>3, <2>1, <2>2 DEF slirp_output, mac, EtherTypes
<1>4. CASE receive_func
  BY <1>4 DEF receive_func, Poll, Raise, Wait, mac, EtherTypes
<1>5. ASSUME NEW t \in Types, ether_attach_ph(t) \/ ether_detach_ph(t) PROVE EtherTypes'
  BY <1>5 DEF ether_attach_ph, ether_detach_ph, host, EtherTypes
<1>6. CASE ether_do_write
  <2>1. input' \in 0 .. PipeSize
    BY <1>0, <1>6 DEF ether_do_write, EtherTypes
  <2> QED BY <1>6, <2>1 DEF ether_do_write, mac, EtherTypes
<1>7. Activation.pc = "read" /\ Activation.data = <<>>
  BY DEF Activation
<1>8. CASE EtherInterrupt
  <2>1. activations = <<>>
    BY <1>8 DEF EtherInterrupt, EtherInv, Acknowledged
  <2>2. activations' = <<Activation>>
    BY <1>8, <2>1 DEF EtherInterrupt
  <2>3. \A i \in DOMAIN activations' : activations'[i] = Activation
    BY <2>2
  <2> QED BY <1>0, <1>7, <1>8, <2>3 DEF EtherInterrupt, host, EtherTypes
<1>9. CASE Serve
  <2>1. PICK a : activations = <<a>>
    BY <1>9 DEF Serve, ReadPacket, HandlerReturns, Acknowledge, EtherInv, Acknowledged
  <2>2. Depth = 1 /\ Top = a /\ \A b : SetTop(b) = <<b>>
    BY <2>1 DEF Depth, Top, SetTop
  <2>3. UNCHANGED <<network, net_protocols, input, ether_thread, slirp_thread, emulator>>
    BY <1>9 DEF Serve, ReadPacket, HandlerReturns, Acknowledge, host
  <2>4. CASE ReadPacket
    <3> DEFINE data == Received
    <3>1. /\ fd' = SubSeq(fd, Len(data) + 1, Len(fd))
          /\ activations' =
               SetTop(IF NothingToServe(data) THEN [Activation EXCEPT !.pc = "ack"]
                      ELSE IF HasHandler(data) THEN [pc |-> "handler", data |-> data]
                      ELSE Top)
          /\ a.pc = "read"
      BY <2>2, <2>4 DEF ReadPacket
    <3>2. Slirp \/ Framed(fd)
      BY DEF FramedInv
    <3>3. data \in Seq(Units) /\ fd' \in Seq(Units) /\ Len(fd') <= PipeSize
      BY <3>1, <3>2, ReceivedFacts
    <3>4. a.pc \in {"read", "handler", "ack"} /\ a.data \in Seq(Units)
      BY <2>1 DEF EtherTypes
    <3>5. PICK b : /\ activations' = <<b>>
                   /\ b.pc \in {"read", "handler", "ack"} /\ b.data \in Seq(Units)
      <4> HIDE DEF data
      <4>1. CASE NothingToServe(data)
        <5>1. activations' = <<[Activation EXCEPT !.pc = "ack"]>>
          BY <2>2, <3>1, <4>1
        <5>2. [Activation EXCEPT !.pc = "ack"] = [pc |-> "ack", data |-> <<>>]
          BY DEF Activation
        <5> QED BY <1>0, <5>1, <5>2
      <4>2. CASE ~NothingToServe(data) /\ HasHandler(data)
        <5>1. activations' = <<[pc |-> "handler", data |-> data]>>
          BY <2>2, <3>1, <4>2
        <5> QED BY <3>3, <5>1
      <4>3. CASE ~NothingToServe(data) /\ ~HasHandler(data)
        BY <2>2, <3>1, <3>4, <4>3
      <4> QED BY <4>1, <4>2, <4>3
    <3>6. \A i \in DOMAIN activations' : activations'[i] = b
      BY <3>5
    <3> QED BY <2>3, <3>3, <3>5, <3>6 DEF EtherTypes
  <2>5. CASE HandlerReturns
    <3>1. activations' = <<Activation>> /\ UNCHANGED fd
      BY <2>2, <2>5 DEF HandlerReturns, host
    <3>2. \A i \in DOMAIN activations' : activations'[i] = Activation
      BY <3>1
    <3> QED BY <1>0, <1>7, <2>3, <3>1, <3>2 DEF EtherTypes
  <2>6. CASE Acknowledge
    <3>1. activations' = <<>> /\ UNCHANGED fd
      BY <2>1, <2>2, <2>6 DEF Acknowledge
    <3> QED BY <2>3, <3>1 DEF EtherTypes
  <2> QED BY <1>9, <2>4, <2>5, <2>6 DEF Serve
<1>10. CASE EtherExit
  <2>1. UNCHANGED <<network, host, mac>> /\ emulator' = "cancel"
    BY <1>10 DEF EtherExit, mac
  <2> QED BY <2>1 DEF host, mac, EtherTypes
<1>11. CASE stop_thread
  <2>1. fd' = <<>> /\ Len(fd') = 0 /\ input' = 0 /\ slirp_thread' = NoThread
    BY <1>11 DEF stop_thread
  <2>2. /\ fd' \in Seq(Units) /\ Len(fd') <= PipeSize /\ input' \in 0 .. PipeSize
    BY <1>0, <2>1
  <2>3. slirp_thread'.pc = "none" /\ slirp_thread'.out = <<>>
    BY <2>1 DEF NoThread
  <2>4. UNCHANGED <<network, net_protocols, activations>> /\ ether_thread' = "none"
        /\ emulator' = "off"
    BY <1>11 DEF stop_thread, mac
  <2> QED BY <1>0, <2>2, <2>3, <2>4 DEF EtherTypes
<1>12. CASE StartAgain
  <2>1. slirp_thread'.pc \in {"none", "select", "output"} /\ slirp_thread'.out = <<>>
    BY <1>12 DEF StartAgain, NoThread
  <2> QED BY <1>0, <1>12, <2>1 DEF StartAgain, EtherTypes
<1>13. CASE UNCHANGED etherVars
  BY <1>13 DEF etherVars, host, mac, EtherTypes
<1> QED
  BY <1>1, <1>2, <1>3, <1>4, <1>5, <1>6, <1>8, <1>9, <1>10, <1>11, <1>12, <1>13 DEF EtherNext

\* The types of the driver's state, with the sizes of its pipes and the depth to which
\* EtherInterrupt may be entered (ether.cpp, ether_ios.cpp).
THEOREM EtherTypeCorrect == EtherSpec => []EtherTypeOK
<1>1. EtherInit => EtherTypes
  <2> SUFFICES ASSUME EtherInit PROVE EtherTypes
    OBVIOUS
  <2>1. PipeSize \in Nat \ {0} /\ <<>> \in Seq(Units) /\ Len(<<>>) = 0
    BY EthernetAssumption
  <2>2. slirp_thread.pc \in {"none", "select", "output"} /\ slirp_thread.out = <<>>
    BY DEF EtherInit, Threads, NoThread
  <2>3. ether_thread \in {"none", "poll", "raise", "wait"}
    BY DEF EtherInit, Threads
  <2> QED BY <2>1, <2>2, <2>3 DEF EtherInit, EtherTypes
<1>2. EtherInit => FramedInv
  <2>1. Framed(<<>>)
    BY DEF Framed
  <2> QED BY <2>1 DEF EtherInit, FramedInv, WholePackets, Threads, NoThread, Slirp
<1>3. EtherInv /\ EtherTypes => EtherTypeOK
  <2> SUFFICES ASSUME EtherInv, EtherTypes PROVE EtherTypeOK
    OBVIOUS
  <2>1. Depth <= MaxNesting
    <3>1. Depth \in {0, 1}
      BY DEF EtherInv, Acknowledged, Depth
    <3> QED BY <3>1, EthernetAssumption
  <2>2. n_ether_packets \in Nat
    BY DEF EtherInv, BufferInUse
  <2> QED BY <2>1, <2>2 DEF EtherInv, EtherTypes, EtherTypeOK
<1> QED
  BY <1>1, <1>2, <1>3, EtherInitInv, EtherStep, FramedStep, EtherTypesStep, PTL DEF EtherSpec
-----------------------------------------------------------------------------
\* The drives.
-----------------------------------------------------------------------------
DrivesSpec == DrivesInit /\ [][DrivesNext]_driveVars

-----------------------------------------------------------------------------
\* The driver whose PostEvent is called by the interrupt.
Interrupting(k) == oneHz.posts /\ k = Head(oneHz.left)

Posting(k) == main = k \/ Interrupting(k)

\* Nothing is posted before the Mac has started, and the interrupt only serves drivers
\* that the periodic action has made active: not the one that is in it.
PostingOK ==
  /\ ~started => main = "none" /\ ~oneHz.posts /\ oneHz.left = <<>>
  /\ main \notin acc_run_called
  /\ oneHz.posts => oneHz.left # <<>> /\ Head(oneHz.left) \in acc_run_called

\* A disk that is flagged, and is not being posted, has an event to come.  The CD-ROM
\* driver finds an ejected disk again before it posts.
Owed(k) ==
  /\ drive[k].to_be_mounted /\ ~Posting(k)
  /\ ~(k = "cdrom" /\ drive[k].dsDiskInPlace = 0)

Balanced(k) ==
  \/ k = "floppy" /\ drive[k].dsDiskInPlace = 0
  \/ /\ drive[k].posted <= drive[k].inserted
     /\ Owed(k) => drive[k].posted < drive[k].inserted

FixedDisk == drive["disk"].dsDiskInPlace # 1

DrivesInv ==
  /\ DrivesTypeOK /\ PostingOK /\ FixedDisk
  /\ \A k \in AllKinds : Balanced(k)

-----------------------------------------------------------------------------
\* What mount_mountable_volumes does to a drive up to the call of PostEvent: if it
\* posts, the event was owed.
LEMMA MountEffect ==
  ASSUME DrivesInv, NEW k \in AllKinds, NEW post \in BOOLEAN, Mount(k, post), ~Posting(k)
  PROVE  /\ drive' \in [AllKinds -> [dsDiskInPlace : {0, 1, 8}, to_be_mounted : BOOLEAN,
                                     inserted : Nat, posted : Nat]]
         /\ \A j \in AllKinds \ {k} : drive'[j] = drive[j]
         /\ FixedDisk'
         /\ \/ k = "floppy" /\ drive'[k].dsDiskInPlace = 0
            \/ drive'[k].posted <= drive'[k].inserted
         /\ drive'[k].to_be_mounted => post
<1> DEFINE d == Inserted(k, drive[k])
<1>1. drive[k] \in [dsDiskInPlace : {0, 1, 8}, to_be_mounted : BOOLEAN,
                    inserted : Nat, posted : Nat]
  BY DEF DrivesInv, DrivesTypeOK
<1>2. /\ d \in [dsDiskInPlace : {0, 1, 8}, to_be_mounted : BOOLEAN, inserted : Nat, posted : Nat]
      /\ k # "cdrom" => d = drive[k]
      /\ d.posted = drive[k].posted
      /\ \/ k = "floppy" /\ d.dsDiskInPlace = 0
         \/ /\ d.posted <= d.inserted
            /\ d.to_be_mounted => d.posted < d.inserted
  <2>1. CASE k = "cdrom" /\ drive[k].dsDiskInPlace = 0
    <3>1. drive[k].posted <= drive[k].inserted
      BY <2>1 DEF DrivesInv, Balanced
    <3>2. CASE mount_non_hfs \/ drive[k].to_be_mounted
      <4>1. d = [dsDiskInPlace |-> 1, to_be_mounted |-> TRUE,
                 inserted |-> drive[k].inserted + 1, posted |-> drive[k].posted]
        BY <1>1, <2>1, <3>2 DEF Inserted
      <4>2. drive[k].inserted \in Nat /\ drive[k].posted \in Nat
        BY <1>1
      <4>3. d \in [dsDiskInPlace : {0, 1, 8}, to_be_mounted : BOOLEAN,
                   inserted : Nat, posted : Nat]
        BY <4>1, <4>2
      <4>4. d.posted = drive[k].posted /\ d.inserted = drive[k].inserted + 1
        BY <4>1
      <4> QED BY <2>1, <3>1, <4>2, <4>3, <4>4
    <3>3. CASE ~(mount_non_hfs \/ drive[k].to_be_mounted)
      <4>1. d = [drive[k] EXCEPT !.dsDiskInPlace = 1, !.inserted = drive[k].inserted,
                                 !.to_be_mounted = FALSE]
        BY <2>1, <3>3 DEF Inserted
      <4> QED BY <1>1, <2>1, <3>1, <3>3, <4>1
    <3> QED BY <3>2, <3>3
  <2>2. CASE ~(k = "cdrom" /\ drive[k].dsDiskInPlace = 0)
    BY <1>1, <2>2 DEF Inserted, DrivesInv, Balanced, Owed
  <2> QED BY <2>1, <2>2
<1>3. /\ post = d.to_be_mounted
      /\ drive' = [drive EXCEPT ![k] = [d EXCEPT !.posted = IF post THEN @ + 1 ELSE @]]
  BY DEF Mount
<1>4. drive'[k] = [d EXCEPT !.posted = IF post THEN @ + 1 ELSE @]
  BY <1>3 DEF DrivesInv, DrivesTypeOK
<1>5. /\ drive'[k] \in [dsDiskInPlace : {0, 1, 8}, to_be_mounted : BOOLEAN,
                        inserted : Nat, posted : Nat]
      /\ drive'[k].to_be_mounted = post
      /\ drive'[k].dsDiskInPlace = d.dsDiskInPlace
      /\ \/ k = "floppy" /\ drive'[k].dsDiskInPlace = 0
         \/ drive'[k].posted <= drive'[k].inserted
  BY <1>2, <1>3, <1>4
<1>6. \A j \in AllKinds \ {k} : drive'[j] = drive[j]
  BY <1>3 DEF DrivesInv, DrivesTypeOK
<1>7. FixedDisk'
  BY <1>2, <1>5, <1>6 DEF FixedDisk, DrivesInv, AllKinds
<1>8. drive' \in [AllKinds -> [dsDiskInPlace : {0, 1, 8}, to_be_mounted : BOOLEAN,
                               inserted : Nat, posted : Nat]]
  BY <1>3, <1>4, <1>5 DEF DrivesInv, DrivesTypeOK
<1> QED BY <1>5, <1>6, <1>7, <1>8

LEMMA NoIntOK == NoInt \in [left : Seq(AllKinds), posts : BOOLEAN]
<1>1. <<>> \in Seq(AllKinds)
  OBVIOUS
<1> QED BY <1>1 DEF NoInt

LEMMA DrivesInitInv == DrivesInit => DrivesInv
<1> SUFFICES ASSUME DrivesInit PROVE DrivesInv
  OBVIOUS
<1>1. DrivesTypeOK
  <2>1. drive \in [AllKinds -> [dsDiskInPlace : {0, 1, 8}, to_be_mounted : BOOLEAN,
                                inserted : Nat, posted : Nat]]
    BY DEF DrivesInit, Closed
  <2> QED BY <2>1, NoIntOK DEF DrivesInit, DrivesTypeOK
<1>2. PostingOK /\ FixedDisk
  BY DEF DrivesInit, PostingOK, FixedDisk, Closed, NoInt, AllKinds
<1>3. \A k \in AllKinds : Balanced(k)
  BY DEF DrivesInit, Balanced, Owed, Closed
<1> QED BY <1>1, <1>2, <1>3 DEF DrivesInv

\* Opening a driver flags the disk of its drive, which is inserted and not posted.
LEMMA OpenStep == ASSUME DrivesInv, NEW k \in AllKinds, Open(k) PROVE DrivesInv'
<1> USE DrivesAssumption
<1>1. /\ drive'[k] = [dsDiskInPlace |-> InPlace(k), to_be_mounted |-> TRUE,
                      inserted |-> 1, posted |-> 0]
      /\ \A j \in AllKinds \ {k} : drive'[j] = drive[j]
      /\ drive' \in [AllKinds -> [dsDiskInPlace : {0, 1, 8}, to_be_mounted : BOOLEAN,
                                  inserted : Nat, posted : Nat]]
  BY DEF DrivesInv, DrivesTypeOK, Open, InPlace
<1>2. DrivesTypeOK'
  BY <1>1 DEF DrivesInv, DrivesTypeOK, Open
<1>3. PostingOK' /\ FixedDisk'
  BY <1>1 DEF DrivesInv, PostingOK, FixedDisk, Open, InPlace, AllKinds
<1>4. ASSUME NEW j \in AllKinds PROVE Balanced(j)'
  BY <1>1, <1>2 DEF DrivesInv, DrivesTypeOK, PostingOK, Balanced, Owed, Posting, Interrupting,
                    Open
<1> QED BY <1>2, <1>3, <1>4 DEF DrivesInv

\* The periodic action.
LEMMA accRunStep == ASSUME DrivesInv, NEW k \in AllKinds, accRun(k) PROVE DrivesInv'
<1> USE DrivesAssumption
<1>1. PICK post \in BOOLEAN : /\ Mount(k, post)
                              /\ main' = IF post THEN k ELSE "none"
                              /\ acc_run_called' = IF post THEN acc_run_called
                                                   ELSE acc_run_called \cup {k}
  BY DEF accRun
<1>2. /\ main = "none" /\ oneHz = NoInt /\ started
      /\ k \in drives /\ k \notin acc_run_called /\ k # "none"
      /\ UNCHANGED <<drives, opened, mount_non_hfs, started, oneHz>>
  BY DEF accRun, Main, DrivesInv, DrivesTypeOK, AllKinds
<1>3. ~Posting(k)
  BY <1>2 DEF Posting, Interrupting, NoInt
<1>4. DrivesTypeOK'
  BY <1>1, <1>2, <1>3, MountEffect DEF DrivesInv, DrivesTypeOK
<1>5. PostingOK'
  BY <1>1, <1>2 DEF DrivesInv, DrivesTypeOK, PostingOK, NoInt
<1>6. FixedDisk'
  BY <1>1, <1>3, MountEffect
<1>7. ASSUME NEW j \in AllKinds PROVE Balanced(j)'
  <2>1. CASE j = k
    BY <1>1, <1>2, <1>3, <2>1, MountEffect DEF Balanced, Owed, Posting
  <2>2. CASE j # k
    <3>1. drive'[j] = drive[j] /\ ~Posting(j)
      BY <1>1, <1>2, <1>3, <2>2, MountEffect DEF Posting, Interrupting, NoInt, AllKinds
    <3> QED BY <3>1 DEF DrivesInv, Balanced, Owed
  <2> QED BY <2>1, <2>2
<1> QED BY <1>4, <1>5, <1>6, <1>7 DEF DrivesInv

\* PostEvent has returned: the flag of the drive is cleared.
LEMMA MountedEffect ==
  ASSUME DrivesInv, NEW k \in AllKinds, Mounted(k)
  PROVE  /\ drive' \in [AllKinds -> [dsDiskInPlace : {0, 1, 8}, to_be_mounted : BOOLEAN,
                                     inserted : Nat, posted : Nat]]
         /\ \A j \in AllKinds \ {k} : drive'[j] = drive[j]
         /\ FixedDisk'
         /\ ~drive'[k].to_be_mounted
         /\ \/ k = "floppy" /\ drive'[k].dsDiskInPlace = 0
            \/ drive'[k].posted <= drive'[k].inserted
<1>1. drive' = [drive EXCEPT ![k].to_be_mounted = FALSE]
  BY DEF Mounted
<1>2. drive[k] \in [dsDiskInPlace : {0, 1, 8}, to_be_mounted : BOOLEAN,
                    inserted : Nat, posted : Nat]
  BY DEF DrivesInv, DrivesTypeOK
<1>3. drive'[k] = [dsDiskInPlace |-> drive[k].dsDiskInPlace, to_be_mounted |-> FALSE,
                   inserted |-> drive[k].inserted, posted |-> drive[k].posted]
  BY <1>1, <1>2 DEF DrivesInv, DrivesTypeOK
<1>4. \A j \in AllKinds \ {k} : drive'[j] = drive[j]
  BY <1>1 DEF DrivesInv, DrivesTypeOK
<1>5. drive' \in [AllKinds -> [dsDiskInPlace : {0, 1, 8}, to_be_mounted : BOOLEAN,
                               inserted : Nat, posted : Nat]]
  BY <1>1, <1>2, <1>3 DEF DrivesInv, DrivesTypeOK
<1>6. FixedDisk'
  BY <1>3, <1>4 DEF DrivesInv, FixedDisk, AllKinds
<1>7. \/ k = "floppy" /\ drive'[k].dsDiskInPlace = 0
      \/ drive'[k].posted <= drive'[k].inserted
  BY <1>3 DEF DrivesInv, Balanced
<1> QED BY <1>3, <1>4, <1>5, <1>6, <1>7

LEMMA accRunReturnsStep == ASSUME DrivesInv, accRunReturns PROVE DrivesInv'
<1>1. /\ main \in drives /\ main \in AllKinds /\ oneHz = NoInt /\ started
      /\ Mounted(main)
      /\ acc_run_called' = acc_run_called \cup {main} /\ main' = "none"
      /\ UNCHANGED <<drives, opened, mount_non_hfs, started, oneHz>>
  BY DrivesAssumption DEF accRunReturns, DrivesInv, DrivesTypeOK, PostingOK
<1>2. DrivesTypeOK'
  BY <1>1, MountedEffect DEF DrivesInv, DrivesTypeOK
<1>3. PostingOK'
  BY <1>1, DrivesAssumption DEF DrivesInv, DrivesTypeOK, PostingOK, NoInt, AllKinds
<1>4. ASSUME NEW j \in AllKinds PROVE Balanced(j)'
  <2>1. CASE j = main
    BY <1>1, <2>1, MountedEffect DEF Balanced, Owed
  <2>2. CASE j # main
    <3>1. drive'[j] = drive[j] /\ ~Posting(j)
      BY <1>1, <2>2, MountedEffect DEF Posting, Interrupting, NoInt
    <3> QED BY <3>1 DEF DrivesInv, Balanced, Owed
  <2> QED BY <2>1, <2>2
<1> QED BY <1>1, <1>2, <1>3, <1>4, MountedEffect DEF DrivesInv

\* Ejecting a disk: a fixed one is inserted and posted again, and of another one no
\* event is expected any more.
LEMMA EjectStep == ASSUME DrivesInv, NEW k \in AllKinds, Eject(k) PROVE DrivesInv'
<1>1. drive[k] \in [dsDiskInPlace : {0, 1, 8}, to_be_mounted : BOOLEAN,
                    inserted : Nat, posted : Nat]
  BY DEF DrivesInv, DrivesTypeOK
<1>2. /\ main = "none" /\ oneHz = NoInt
      /\ UNCHANGED <<drives, opened, acc_run_called, mount_non_hfs, started, main, oneHz>>
  BY DEF Eject, Main
<1>3. /\ drive' \in [AllKinds -> [dsDiskInPlace : {0, 1, 8}, to_be_mounted : BOOLEAN,
                                  inserted : Nat, posted : Nat]]
      /\ \A j \in AllKinds \ {k} : drive'[j] = drive[j]
      /\ \/ /\ drive[k].dsDiskInPlace = 8
            /\ drive'[k] = [dsDiskInPlace |-> 8, to_be_mounted |-> drive[k].to_be_mounted,
                            inserted |-> drive[k].inserted + 1, posted |-> drive[k].posted + 1]
         \/ /\ drive[k].dsDiskInPlace = 1
            /\ drive'[k] = [dsDiskInPlace |-> 0, to_be_mounted |-> drive[k].to_be_mounted,
                            inserted |-> drive[k].posted, posted |-> drive[k].posted]
  <2>1. CASE drive[k].dsDiskInPlace = 8
    <3>1. drive' = [drive EXCEPT ![k] = [drive[k] EXCEPT !.inserted = @ + 1, !.posted = @ + 1]]
      BY <1>1, <2>1 DEF Eject, DrivesInv, DrivesTypeOK
    <3>2. drive'[k] = [dsDiskInPlace |-> 8, to_be_mounted |-> drive[k].to_be_mounted,
                       inserted |-> drive[k].inserted + 1, posted |-> drive[k].posted + 1]
      BY <1>1, <2>1, <3>1 DEF DrivesInv, DrivesTypeOK
    <3> QED BY <1>1, <2>1, <3>1, <3>2 DEF DrivesInv, DrivesTypeOK
  <2>2. CASE drive[k].dsDiskInPlace # 8
    <3>1. /\ drive[k].dsDiskInPlace = 1
          /\ drive' = [drive EXCEPT ![k] = [drive[k] EXCEPT !.dsDiskInPlace = 0,
                                                            !.inserted = drive[k].posted]]
      BY <1>1, <2>2 DEF Eject, DrivesInv, DrivesTypeOK
    <3>2. drive'[k] = [dsDiskInPlace |-> 0, to_be_mounted |-> drive[k].to_be_mounted,
                       inserted |-> drive[k].posted, posted |-> drive[k].posted]
      BY <1>1, <3>1 DEF DrivesInv, DrivesTypeOK
    <3> QED BY <1>1, <3>1, <3>2 DEF DrivesInv, DrivesTypeOK
  <2> QED BY <2>1, <2>2
<1>4. DrivesTypeOK' /\ PostingOK'
  BY <1>2, <1>3 DEF DrivesInv, DrivesTypeOK, PostingOK
<1>5. FixedDisk'
  BY <1>3 DEF DrivesInv, FixedDisk, AllKinds
<1>6. ASSUME NEW j \in AllKinds PROVE Balanced(j)'
  <2>1. Posting(j)' = Posting(j)
    BY <1>2 DEF Posting, Interrupting
  <2>2. CASE j = k
    <3>1. CASE drive[k].dsDiskInPlace = 8
      BY <1>1, <1>3, <2>1, <2>2, <3>1 DEF DrivesInv, Balanced, Owed
    <3>2. CASE drive[k].dsDiskInPlace = 1
      BY <1>1, <1>3, <2>1, <2>2, <3>2 DEF DrivesInv, FixedDisk, AllKinds, Balanced, Owed
    <3> QED BY <1>3, <3>1, <3>2
  <2>3. CASE j # k
    BY <1>3, <2>1, <2>3 DEF DrivesInv, Balanced, Owed
  <2> QED BY <2>2, <2>3
<1> QED BY <1>4, <1>5, <1>6 DEF DrivesInv

\* The interrupt calls one driver, which is not in its periodic action.
LEMMA DriverInterruptStep ==
  ASSUME DrivesInv, NEW k \in AllKinds, DriverInterrupt(k) PROVE DrivesInv'
<1>1. /\ oneHz.left # <<>> /\ ~oneHz.posts /\ k = Head(oneHz.left) /\ started
      /\ UNCHANGED <<drives, opened, acc_run_called, mount_non_hfs, started, main>>
      /\ oneHz \in [left : Seq(AllKinds), posts : BOOLEAN]
  BY DEF DriverInterrupt, DrivesInv, DrivesTypeOK, PostingOK
<1>2. Tail(oneHz.left) \in Seq(AllKinds)
  BY <1>1
<1>3. CASE /\ oneHz' = [oneHz EXCEPT !.left = Tail(@)]
           /\ UNCHANGED drive
  <2>1. oneHz' \in [left : Seq(AllKinds), posts : BOOLEAN] /\ ~oneHz'.posts
    BY <1>1, <1>2, <1>3
  <2>2. \A j \in AllKinds : Posting(j)' = Posting(j)
    BY <1>1, <2>1 DEF Posting, Interrupting
  <2> QED
    BY <1>1, <1>3, <2>1, <2>2
    DEF DrivesInv, DrivesTypeOK, PostingOK, FixedDisk, Balanced, Owed
<1>4. CASE k \in acc_run_called /\ k \in opened
  <2>1. PICK post \in BOOLEAN :
          /\ Mount(k, post)
          /\ oneHz' = IF post THEN [oneHz EXCEPT !.posts = TRUE]
                      ELSE [oneHz EXCEPT !.left = Tail(@)]
    BY <1>4 DEF DriverInterrupt
  <2>2. k # main /\ ~Posting(k)
    BY <1>1, <1>4 DEF DrivesInv, PostingOK, Posting, Interrupting
  <2>3. /\ oneHz' \in [left : Seq(AllKinds), posts : BOOLEAN]
        /\ oneHz'.posts = post
        /\ post => oneHz'.left = oneHz.left
    BY <1>1, <1>2, <2>1
  <2>4. DrivesTypeOK'
    BY <1>1, <2>1, <2>2, <2>3, MountEffect DEF DrivesInv, DrivesTypeOK
  <2>5. PostingOK'
    BY <1>1, <1>4, <2>3 DEF DrivesInv, PostingOK
  <2>6. ASSUME NEW j \in AllKinds PROVE Balanced(j)'
    <3>1. CASE j = k
      <4>1. post => Posting(k)'
        BY <1>1, <2>3 DEF Posting, Interrupting
      <4> QED BY <2>1, <2>2, <3>1, <4>1, MountEffect DEF Balanced, Owed
    <3>2. CASE j # k
      <4>1. drive'[j] = drive[j] /\ Posting(j)' = Posting(j)
        BY <1>1, <2>1, <2>2, <2>3, <3>2, MountEffect DEF Posting, Interrupting
      <4> QED BY <4>1 DEF DrivesInv, Balanced, Owed
    <3> QED BY <3>1, <3>2
  <2> QED BY <2>1, <2>2, <2>4, <2>5, <2>6, MountEffect DEF DrivesInv
<1> QED BY <1>3, <1>4 DEF DriverInterrupt

LEMMA PostEventReturnsStep == ASSUME DrivesInv, PostEventReturns PROVE DrivesInv'
<1> DEFINE k == Head(oneHz.left)
<1>1. /\ oneHz.posts /\ started /\ oneHz.left # <<>> /\ k \in acc_run_called
      /\ oneHz \in [left : Seq(AllKinds), posts : BOOLEAN]
      /\ Mounted(k)
      /\ oneHz' = [left |-> Tail(oneHz.left), posts |-> FALSE]
      /\ UNCHANGED <<drives, opened, acc_run_called, mount_non_hfs, started, main>>
  BY DEF PostEventReturns, DrivesInv, DrivesTypeOK, PostingOK
<1>2. k \in AllKinds /\ k # main
  BY <1>1 DEF DrivesInv, PostingOK
<1>3. /\ oneHz' \in [left : Seq(AllKinds), posts : BOOLEAN]
      /\ ~oneHz'.posts
  BY <1>1
<1>4. DrivesTypeOK' /\ PostingOK'
  BY <1>1, <1>2, <1>3, MountedEffect DEF DrivesInv, DrivesTypeOK, PostingOK
<1>5. ASSUME NEW j \in AllKinds PROVE Balanced(j)'
  <2>1. CASE j = k
    BY <1>1, <1>2, <2>1, MountedEffect DEF Balanced, Owed
  <2>2. CASE j # k
    <3>1. drive'[j] = drive[j] /\ Posting(j)' = Posting(j)
      BY <1>1, <1>2, <1>3, <2>2, MountedEffect DEF Posting, Interrupting
    <3> QED BY <3>1 DEF DrivesInv, Balanced, Owed
  <2> QED BY <2>1, <2>2
<1> QED BY <1>1, <1>2, <1>4, <1>5, MountedEffect DEF DrivesInv

LEMMA DrivesStep == DrivesInv /\ [DrivesNext]_driveVars => DrivesInv'
<1> SUFFICES ASSUME DrivesInv, [DrivesNext]_driveVars PROVE DrivesInv'
  OBVIOUS
<1> USE DrivesAssumption
<1>1. ASSUME NEW k \in AllKinds, Open(k) \/ accRun(k) \/ Eject(k) PROVE DrivesInv'
  BY <1>1, OpenStep, accRunStep, EjectStep
<1>2. CASE MacStarts
  BY <1>2 DEF MacStarts, DrivesInv, DrivesTypeOK, PostingOK, FixedDisk, Balanced, Owed,
              Posting, Interrupting
<1>3. CASE accRunReturns
  BY <1>3, accRunReturnsStep
<1>4. CASE MountNonHFS
  BY <1>4 DEF MountNonHFS, DrivesInv, DrivesTypeOK, PostingOK, FixedDisk, Balanced, Owed,
              Posting, Interrupting
<1>5. CASE OneHz
  <2>1. /\ oneHz = NoInt /\ started /\ oneHz' = [left |-> Kinds, posts |-> FALSE]
        /\ UNCHANGED <<drives, drive, opened, acc_run_called, mount_non_hfs, started, main>>
    BY <1>5 DEF OneHz
  <2>2. Kinds \in Seq(AllKinds)
    BY DEF Kinds, AllKinds
  <2>3. oneHz' \in [left : Seq(AllKinds), posts : BOOLEAN] /\ ~oneHz'.posts
    BY <2>1, <2>2
  <2>4. \A j \in AllKinds : Posting(j)' = Posting(j)
    BY <2>1, <2>3 DEF Posting, Interrupting, NoInt
  <2> QED
    BY <2>1, <2>3, <2>4 DEF DrivesInv, DrivesTypeOK, PostingOK, FixedDisk, Balanced, Owed
<1>6. CASE DriveInterrupt
  BY <1>6, DriverInterruptStep, PostEventReturnsStep DEF DriveInterrupt
<1>7. CASE MacRestarts
  <2>1. /\ drive' = [j \in AllKinds |-> Closed] /\ opened' = {} /\ started' = FALSE
        /\ main' = "none" /\ oneHz' = NoInt
        /\ UNCHANGED <<drives, acc_run_called, mount_non_hfs>>
    BY <1>7 DEF MacRestarts
  <2>2. drive' \in [AllKinds -> [dsDiskInPlace : {0, 1, 8}, to_be_mounted : BOOLEAN,
                                 inserted : Nat, posted : Nat]]
    BY <2>1 DEF Closed
  <2>3. DrivesTypeOK'
    BY <2>1, <2>2, NoIntOK DEF DrivesInv, DrivesTypeOK
  <2>4. PostingOK' /\ FixedDisk'
    BY <2>1 DEF DrivesInv, DrivesTypeOK, PostingOK, FixedDisk, NoInt, Closed, AllKinds
  <2>5. \A j \in AllKinds : Balanced(j)'
    BY <2>1 DEF Balanced, Owed, Closed
  <2> QED BY <2>3, <2>4, <2>5 DEF DrivesInv
<1>8. CASE UNCHANGED driveVars
  BY <1>8 DEF driveVars, driveState, DrivesInv, DrivesTypeOK, PostingOK, FixedDisk, Balanced,
              Owed, Posting, Interrupting
<1> QED BY <1>1, <1>2, <1>3, <1>4, <1>5, <1>6, <1>7, <1>8 DEF DrivesNext

\* No disk is announced twice, whatever drives there are: the interrupt that comes while
\* the periodic action waits for PostEvent does not serve that driver.
THEOREM DisksPostedOnce == DrivesSpec => []PostedOnce
<1>1. DrivesInv => PostedOnce
  BY DEF DrivesInv, DrivesTypeOK, Balanced, PostedOnce
<1> QED BY <1>1, DrivesInitInv, DrivesStep, PTL DEF DrivesSpec
-----------------------------------------------------------------------------
\* The machine.
-----------------------------------------------------------------------------
LEMMA DevicesAreApart ==
  DevicesNext =>
    [Next]_<<setup, vars>> /\ [EtherNext]_etherVars /\ [DrivesNext]_driveVars
BY DEF DevicesNext

\* A machine with all devices is one with each of them.
LEMMA EachDevice == DevicesSpec => AudioSpec /\ EtherSpec /\ DrivesSpec
<1>1. DevicesInit => Init /\ EtherInit /\ DrivesInit
  BY DEF DevicesInit
<1>2. [DevicesNext]_devices =>
        [Next]_<<setup, vars>> /\ [EtherNext]_etherVars /\ [DrivesNext]_driveVars
  BY DevicesAreApart DEF devices
<1> QED BY <1>1, <1>2, PTL DEF DevicesSpec, AudioSpec, EtherSpec, DrivesSpec

\* Of a machine with sound, network and drives: no block of sound is dropped
\* (audio_ios_impl.cpp's playBuffer).
THEOREM BlocksAreKept == DevicesSpec => []NoBlockDropped
BY EachDevice, SoundSafe, PTL

\* The mixer is there whenever it is called (audio.cpp's AudioInterrupt).
THEOREM MixerIsThere == DevicesSpec => []MixerIsOpen
BY EachDevice, SoundSafe, PTL

\* When the last component has closed, so has the mixer (audio.cpp's AudioDispatch).
THEOREM MixerIsClosed == DevicesSpec => []LastCloseClosesMixer
BY EachDevice, SoundSafe, PTL

\* One packet buffer suffices (ether_ios.cpp's ether_do_interrupt).
THEOREM OnePacketAtATime == DevicesSpec => []AtMostOnePacket
BY EachDevice, OnePacketSuffices, PTL

\* From a UDP tunnel, handlers get whole packets (ether_ios.cpp's ether_udp_read).
THEOREM HandlersGetPackets == DevicesSpec => []WholePackets
BY EachDevice, PacketsAreWhole, PTL

\* No disk is announced twice (mount_mountable_volumes of sony.cpp, disk.cpp and
\* cdrom.cpp).
THEOREM DisksAnnouncedOnce == DevicesSpec => []PostedOnce
BY EachDevice, DisksPostedOnce, PTL

\* The types of a machine's state, with the bounds that its tables and queues keep.
THEOREM DevicesTypes == DevicesSpec => []DevicesTypeOK
<1>1. DrivesInv => DrivesTypeOK
  BY DEF DrivesInv
<1>2. DrivesSpec => []DrivesTypeOK
  BY <1>1, DrivesInitInv, DrivesStep, PTL DEF DrivesSpec
<1> QED BY <1>2, SoundSafe, EachDevice, EtherTypeCorrect, PTL DEF DevicesTypeOK
=============================================================================
