----------------------------- MODULE AudioStream -----------------------------
(***************************************************************************)
(* Sound output (audio.cpp, audio_ios.cpp, audio_ios_impl.cpp).  The audio *)
(* queue's thread calls audio_callback for every block it wants to play:   *)
(* the callback takes a full buffer or plays silence, hands the block back *)
(* to the queue and raises INTFLAG_AUDIO.  The emulator thread answers     *)
(* with AudioInterrupt, which calls the Mac's mixer for the next block and *)
(* fills a buffer with it.  The mixer is opened and closed by the sound    *)
(* component, which the Mac calls on the same thread; interrupts are taken *)
(* while the 68k code that opens or closes the mixer runs.  The buffers    *)
(* and their indices are protected by a lock, the test whether a buffer is *)
(* left is not.                                                            *)
(*                                                                         *)
(* With the preference nosound there is no queue, and the component cannot *)
(* be used.  The calls of AudioToolbox and the allocation of Mac memory    *)
(* succeed, AudioQueueStop returns when no callback is in progress, and    *)
(* the startup sound, volume and format are left out.                      *)
(***************************************************************************)
EXTENDS Naturals, Sequences

CONSTANTS
  Blocks,       \* what a block may contain
  Silence,
  MaxCount,     \* bound: how often the component is opened, and sources added
  Setups        \* what is considered: the host and what may happen

NUM_BUFFERS == 2

ASSUME AudioAssumption ==
  /\ Silence \notin Blocks
  /\ MaxCount \in Nat \ {0}
  /\ Setups \subseteq [nosound : BOOLEAN, prompt : BOOLEAN, restarts : BOOLEAN]

VARIABLES
  setup,                                      \* one of Setups, for good
  curFillBuffer, curReadBuffer, numFullBuffers, sndBuffer,
  callback,   \* where the queue's thread is in audio_callback
  irq,        \* INTFLAG_AUDIO
  int,        \* where AudioInterrupt is, and the block it was given
  comp,       \* the 68k code the sound component is calling
  open_count, audio_data, mixer, num_sources,
  openers,    \* how many instances of the component the Mac has open
  mixerOpen,  \* the Mac has opened its mixer and not closed it
  played      \* the block that was played last, and the number of them modulo 2

ring      == <<curFillBuffer, curReadBuffer, numFullBuffers, sndBuffer>>
component == <<comp, open_count, audio_data, mixer, num_sources, openers, mixerOpen>>
vars      == <<ring, callback, irq, int, component, played>>

Prompt == setup.prompt  \* audio_callback is not held up before it raises the flag
audio_open == ~setup.nosound

NoInterrupt == [pc |-> "none", p |-> Silence]

Init ==
  /\ setup \in Setups
  /\ curFillBuffer = 0 /\ curReadBuffer = 0 /\ numFullBuffers = 0
  /\ sndBuffer = [i \in 0 .. NUM_BUFFERS - 1 |-> Silence]
  /\ callback = "idle" /\ irq = audio_open /\ int = NoInterrupt
  /\ comp = "idle" /\ open_count = 0 /\ audio_data = FALSE
  /\ mixer = FALSE /\ num_sources = 0 /\ openers = 0 /\ mixerOpen = FALSE
  /\ played = [block |-> Silence, flip |-> FALSE]

Other(i) == IF i # 0 THEN 0 ELSE 1

-----------------------------------------------------------------------------
\* The audio queue's thread.

\* audio_callback with the lock held.
audio_callback ==
  /\ audio_open
  /\ callback = "idle"
  /\ IF numFullBuffers = 0
       THEN UNCHANGED <<ring, played>>
       ELSE /\ played' = [block |-> sndBuffer[curReadBuffer], flip |-> ~played.flip]
            /\ numFullBuffers' = numFullBuffers - 1
            /\ curReadBuffer' = Other(curReadBuffer)
            /\ UNCHANGED <<curFillBuffer, sndBuffer>>
  /\ IF Prompt THEN irq' = TRUE /\ UNCHANGED callback
               ELSE callback' = "raise" /\ UNCHANGED irq
  /\ UNCHANGED <<int, component>>

\* AudioQueueEnqueueBuffer and audioInt.
audioInt ==
  /\ callback = "raise"
  /\ callback' = "idle"
  /\ irq' = TRUE
  /\ UNCHANGED <<ring, int, component, played>>

-----------------------------------------------------------------------------
\* The emulator thread: AudioInterrupt.

\* Mutated form: the flag is cleared when the interrupt has been handled.
AudioInterruptKeepsFlag ==
  /\ irq /\ int.pc = "none"
  /\ int' = IF mixer THEN [NoInterrupt EXCEPT !.pc = "source"] ELSE NoInterrupt
  /\ UNCHANGED <<ring, callback, component, played, irq>>

\* Without a mixer audio_output is called with NULL, which does nothing.
AudioInterrupt ==
  /\ irq /\ int.pc = "none"
  /\ irq' = FALSE
  /\ int' = IF mixer THEN [NoInterrupt EXCEPT !.pc = "source"] ELSE NoInterrupt
  /\ UNCHANGED <<ring, callback, component, played>>

\* GetSourceData returns with a block or, if nothing plays, with none.
GetSourceData ==
  /\ int.pc = "source"
  /\ \E b \in Blocks \cup {Silence} :
       int' = IF b = Silence THEN NoInterrupt ELSE [pc |-> "output", p |-> b]
  /\ UNCHANGED <<ring, callback, irq, component, played>>

\* Mutated form: the index to be filled next stays where it is.
audio_output_same_buffer ==
  /\ int.pc = "output"
  /\ int' = NoInterrupt
  /\ IF numFullBuffers = NUM_BUFFERS
       THEN UNCHANGED ring
       ELSE /\ sndBuffer' = [sndBuffer EXCEPT ![curFillBuffer] = int.p]
            /\ numFullBuffers' = numFullBuffers + 1
            /\ UNCHANGED <<curReadBuffer, curFillBuffer>>
  /\ UNCHANGED <<callback, irq, component, played>>

\* Mutated form: whether a buffer is left is not looked at.
audio_output_unchecked ==
  /\ int.pc = "output"
  /\ int' = NoInterrupt
  /\ sndBuffer' = [sndBuffer EXCEPT ![curFillBuffer] = int.p]
  /\ curFillBuffer' = Other(curFillBuffer)
  /\ numFullBuffers' = numFullBuffers + 1
  /\ UNCHANGED <<curReadBuffer, callback, irq, component, played>>

\* If both buffers are full the block is dropped.
audio_output ==
  /\ int.pc = "output"
  /\ int' = NoInterrupt
  /\ IF numFullBuffers = NUM_BUFFERS
       THEN UNCHANGED ring
       ELSE /\ sndBuffer' = [sndBuffer EXCEPT ![curFillBuffer] = int.p]
            /\ curFillBuffer' = Other(curFillBuffer)
            /\ numFullBuffers' = numFullBuffers + 1
            /\ UNCHANGED curReadBuffer
  /\ UNCHANGED <<callback, irq, component, played>>

-----------------------------------------------------------------------------
\* The emulator thread: the sound component, below the interrupt.

Dispatch == int.pc = "none" /\ UNCHANGED <<callback, int, played>>

OpenComponent ==
  /\ Dispatch
  /\ comp = "idle" /\ openers < MaxCount /\ open_count <= MaxCount
  /\ audio_data' = TRUE
  /\ open_count' = open_count + 1 /\ openers' = openers + 1
  /\ UNCHANGED <<ring, irq, comp, mixer, num_sources, mixerOpen>>

\* Mutated form: the mixer is put down before its 68k code has opened it.
InitOutputDeviceEarly ==
  /\ Dispatch
  /\ comp = "idle" /\ openers > 0 /\ audio_open /\ ~mixer
  /\ mixer' = TRUE
  /\ comp' = "open_mixer"
  /\ UNCHANGED <<ring, irq, open_count, audio_data, num_sources, openers, mixerOpen>>

InitOutputDevice ==
  /\ Dispatch
  /\ comp = "idle" /\ openers > 0 /\ audio_open /\ ~mixer
  /\ comp' = "open_mixer"
  /\ UNCHANGED <<ring, irq, open_count, audio_data, mixer, num_sources, openers,
                 mixerOpen>>

OpenMixerReturns ==
  /\ Dispatch
  /\ comp = "open_mixer"
  /\ mixerOpen' = TRUE /\ mixer' = TRUE
  /\ comp' = "idle"
  /\ UNCHANGED <<ring, irq, open_count, audio_data, num_sources, openers>>

AddSource ==
  /\ Dispatch
  /\ comp = "idle" /\ mixer /\ num_sources < MaxCount
  /\ num_sources' = num_sources + 1
  /\ UNCHANGED <<ring, irq, comp, open_count, audio_data, mixer, openers, mixerOpen>>

RemoveSource ==
  /\ Dispatch
  /\ comp = "idle" /\ mixer /\ num_sources > 0
  /\ num_sources' = num_sources - 1
  /\ UNCHANGED <<ring, irq, comp, open_count, audio_data, mixer, openers, mixerOpen>>

\* Mutated form: the data area goes although the mixer is open.
CloseComponentDisposes ==
  /\ Dispatch
  /\ comp = "idle" /\ openers > 0
  /\ open_count' = open_count - 1 /\ openers' = openers - 1
  /\ IF open_count = 1 THEN audio_data' = FALSE ELSE UNCHANGED audio_data
  /\ UNCHANGED <<ring, irq, comp, mixer, num_sources, mixerOpen>>

\* The last close calls the mixer or, if there is none, disposes of the data area.
CloseComponent ==
  /\ Dispatch
  /\ comp = "idle" /\ openers > 0
  /\ open_count' = open_count - 1 /\ openers' = openers - 1
  /\ IF open_count = 1 /\ mixer
       THEN comp' = "close_mixer" /\ UNCHANGED <<audio_data, num_sources>>
       ELSE IF open_count = 1
       THEN audio_data' = FALSE /\ num_sources' = 0 /\ UNCHANGED comp
       ELSE UNCHANGED <<comp, audio_data, num_sources>>
  /\ UNCHANGED <<ring, irq, mixer, mixerOpen>>

CloseMixer ==
  /\ Dispatch
  /\ comp = "close_mixer"
  /\ mixerOpen' = FALSE
  /\ comp' = "mixer_closed"
  /\ UNCHANGED <<ring, irq, open_count, audio_data, mixer, num_sources, openers>>

\* ... which returns without disposing of the data area.
CloseMixerReturns ==
  /\ Dispatch
  /\ comp = "mixer_closed"
  /\ mixer' = FALSE
  /\ comp' = "idle"
  /\ UNCHANGED <<ring, irq, open_count, audio_data, num_sources, openers, mixerOpen>>

\* A new sample rate or number of channels: close_audio, which stops the queue's
\* thread and forgets what was not played, and open_audio, which calls
\* audio_callback for every buffer it allocates.
ReopenAudio ==
  /\ Dispatch
  /\ comp = "idle" /\ openers > 0 /\ audio_open /\ num_sources = 0
  /\ callback = "idle"
  /\ curFillBuffer' = 0 /\ curReadBuffer' = 0 /\ numFullBuffers' = 0
  /\ irq' = TRUE
  /\ UNCHANGED <<sndBuffer, component>>

\* The emulator is terminated, or restarts, and is started again: AudioExit,
\* AudioInit and AudioReset.
Restart ==
  /\ setup.restarts
  /\ callback = "idle"
  /\ curFillBuffer' = 0 /\ curReadBuffer' = 0 /\ numFullBuffers' = 0
  /\ irq' = audio_open
  /\ int' = NoInterrupt
  /\ comp' = "idle" /\ audio_data' = FALSE
  /\ mixer' = FALSE /\ num_sources' = 0 /\ openers' = 0 /\ mixerOpen' = FALSE
  /\ UNCHANGED <<sndBuffer, callback, open_count, played>>

-----------------------------------------------------------------------------
AudioQueue == audio_callback \/ audioInt

Interrupt == AudioInterrupt \/ GetSourceData \/ audio_output

AudioDispatch ==
  \/ OpenComponent \/ InitOutputDevice \/ OpenMixerReturns \/ AddSource \/ RemoveSource
  \/ CloseComponent \/ CloseMixer \/ CloseMixerReturns \/ ReopenAudio

Next == (AudioQueue \/ Interrupt \/ AudioDispatch \/ Restart) /\ UNCHANGED setup

\* The audio queue asks for one block after the other, interrupts are
\* taken and the Mac's mixer returns.
Fairness == WF_vars(AudioQueue) /\ WF_vars(Interrupt)

Spec == Init /\ [][Next]_<<setup, vars>> /\ Fairness

-----------------------------------------------------------------------------
Index == 0 .. NUM_BUFFERS - 1

\* Besides the types: the two indices and the number of full buffers belong together.
TypeOK ==
  /\ setup \in Setups
  /\ curFillBuffer \in Index /\ curReadBuffer \in Index
  /\ numFullBuffers \in 0 .. NUM_BUFFERS
  /\ curFillBuffer = (curReadBuffer + numFullBuffers) % NUM_BUFFERS
  /\ sndBuffer \in [Index -> Blocks \cup {Silence}]
  /\ irq \in BOOLEAN
  /\ callback \in {"idle", "raise"}
  /\ int \in [pc : {"none", "source", "output"}, p : Blocks \cup {Silence}]
  /\ comp \in {"idle", "open_mixer", "close_mixer", "mixer_closed"}
  /\ open_count \in Nat /\ num_sources \in Nat /\ openers \in Nat
  /\ audio_data \in BOOLEAN /\ mixer \in BOOLEAN /\ mixerOpen \in BOOLEAN
  /\ played \in [block : Blocks \cup {Silence}, flip : BOOLEAN]

\* No sound is skipped: when the mixer has delivered a block a buffer is left for it,
\* although callbacks and interrupts are not in step and AudioInterrupt tests the
\* number of buffers without the lock (audio_ios_impl.cpp:145).  It takes two blocks
\* of silence and one callback held up before it raises the flag to break that.
NoBlockDropped == Prompt /\ int.pc = "output" => numFullBuffers < NUM_BUFFERS

\* The interrupt calls the mixer while the Mac has it open and the data area holds
\* the 68k routine, but for the moments between CloseMixer and the store that
\* forgets the mixer (audio.cpp:409), in which it calls one that was closed.
MixerIsOpen ==
  int.pc = "source" => audio_data /\ (mixerOpen \/ comp = "mixer_closed")

\* The last one who closes the component closes the mixer, unless the count is left
\* over from before a restart (audio.cpp:51).
LastCloseClosesMixer ==
  ~setup.restarts /\ openers = 0 /\ comp = "idle" => ~mixer /\ ~mixerOpen

\* The ring of two buffers is a queue: blocks are played once each and in order, and
\* in the end.
Queue == [n \in 1 .. numFullBuffers |-> sndBuffer[(curReadBuffer + n - 1) % NUM_BUFFERS]]

Sound == INSTANCE SoundQueue WITH
  Capacity <- NUM_BUFFERS,
  queue    <- Queue

ImplementsSoundQueue == Sound!Spec
=============================================================================
