# MacQuadra in TLA+

MacQuadra is a fork of Basilisk II for iPhone and iPad: a 68k CPU emulator, a
set of replacements for parts of the Mac's ROM, and an iOS application around
them. This directory holds TLA+ models of the parts of it that are concurrent,
re-entrant or arithmetically delicate, the TLC configurations that check them,
and TLAPS proofs about most of them.

Paths below are relative to `src/BasiliskII/src`. The build that is modelled is
the iOS application's: the UAE CPU without JIT, `timer_unix.cpp` in its
`__MACH__` branches, and no `ENABLE_EXCLUSIVE_SPCFLAGS`, which is not defined
anywhere in the tree.

## 1. The system

Four kinds of threads share the emulated Mac's memory and some plain variables.

| thread | runs | talks to the others through |
|---|---|---|
| main (UI) thread | `B2AppDelegate`, view controllers, touch input | `ADBKeyDown`, `ADBMouse*`; `startEmulator`, `terminateEmulator` |
| emulator thread | `InitEmulator`, the CPU loop, every EMUL_OP and driver | reads `InterruptFlags`, clears `spcflags`, takes blocks from and gives blocks to the devices |
| tick thread | `tickThread`, 60 times a second | `SetInterruptFlag`, `TriggerInterrupt`, stores to Mac memory |
| audio, network and background queues | callbacks of the host | `SetInterruptFlag`, `TriggerInterrupt`; snapshots of disk images |

Components, with their state, operations and what is hard about them:

| component | state | operations | what is hard | what makes it correct |
|---|---|---|---|---|
| Interrupt delivery: `ios_main.mm`, `uae_cpu/basilisk_glue.cpp`, `newcpu.cpp`, `spcflags.h`, `emul_op.cpp` | `InterruptFlags`, `spcflags`, interrupt mask, `quit_program`, nesting of `Execute68k` | set a flag, trigger, take the interrupt, serve the flags, nested calls, idle | unsynchronised read-modify-write, lost wakeups, interrupts at the seams of nested calls | no interrupt is forgotten, calls return where they end, masks are put back |
| Time Manager: `timer.cpp` | descriptor table, wakeup times, flags in Mac memory | `InsTime`, `RmvTime`, `PrimeTime`, `TimerReset`, `TimerInterrupt` | tasks called by the scan of the table change the table | one descriptor for a task, one call for an expiry, no expiry lost, no foreign schedule |
| Host time arithmetic: `Unix/timer_unix.cpp` | none | add, subtract, compare, convert | carries, widths, signs | exact |
| ADB Manager: `adb.cpp` | key ring, key matrix, mouse state, what was reported last | key, button and motion events; `ADBInterrupt`; `ADBOp` | two threads, one mutex for a part of it, no test for full | nothing stuck, nothing lost, in order |
| Sound: `audio.cpp`, `audio_ios*.cpp` | ring of two buffers, mixer, open count | callback, audio interrupt, component dispatch | callback and interrupt out of step, 68k calls in the middle of opening and closing | a queue; the mixer is called only while it is open |
| Application life cycle: `B2AppDelegate.mm`, `B2ViewController.mm`, `ios_main.mm` | thread objects, flags, pending completion | start, terminate, cold restart, settings, rotation | four threads on plain instance variables, delayed blocks, a semaphore | one emulator, one tick thread, never stuck |
| Disk image snapshots: `B2DiskImageSnapshots.mm`, `B2VolumesSettingsViewController.m` | image files, snapshots, configured volumes, restores in progress | prepare before a start; create, delete, reset in the settings | end of the application between two file operations, restores racing each other, a start and a restart of the Mac | no image is lost; a snapshot holds what the image was at its first use |
| Trackpad, touch screen: `B2TrackPad.mm`, `B2TouchScreen.mm` | fingers, gesture, queue of clicks, drag, messages scheduled | touches begin, move, end, are cancelled; delayed messages; removal of the view | order of messages and touches, a drag that begins during a click | clicks queued are sent, the button is down exactly during clicks and drags, and up in the end |
| Private resources: `B2PrivateResources.mm`, `activateMainScreen` of `B2AppDelegate.mm` | stages, dialogs on the screen, flags; ZIP reader, files | activate, prepare, buttons; response, chunks, end of the session; remove and move | a header, a name and an entry cut anywhere by the chunks; dialogs presented on each other; the application killed between two file operations | a file that is there is whole; the preparation ends and the emulator can be started |
| Disk, floppy, CD-ROM: `disk.cpp`, `sony.cpp`, `cdrom.cpp`, `sys_ios.cpp` | drives and their status records, `acc_run_called`, `mount_non_hfs` | open, prime, control, status, mount | disks are announced by the periodic action and by an interrupt that comes within it; the flags survive a restart | each disk is posted, and once |
| External file system: `extfs.cpp`, `extfs_ios.cpp` | table of file ids | HFS calls | ids against renames | data paths |
| Ethernet: `ether.cpp`, `ether_ios.cpp`, `slirp` | protocol handlers, socket or pipes, semaphore, packet buffers | open, attach, detach, write, receive, start and stop | two host threads and an interrupt that waits for 68k handlers, which may let interrupts come | what is received is served; packets are whole; one buffer at a time |
| SCSI: `scsi.cpp`; serial: `serial.cpp` | phase; requests | | iOS back ends are stubs | |
| Video: `video.cpp`, `video_ios.mm`, `B2ScreenView.mm` | mode, palette | switch, draw | mode switch against redraw | |
| PRAM, preferences, clipboard, desktop database, settings UI, on-screen keyboard, patches of ROM and resources | | | little control, or user interface | |
| SheepShaver, cxmon, the other ports, `slirp`, the generated CPU, JIT and FPU | | | vendored, generated or not built for iOS | |

`PROJECT.json` lists every component with its sources and, under `hazards`, the
lines where the code is exposed to what a test would hardly reach. A hazard
without a property says why.

How they interact: every device raises an interrupt through the first component
and is served by `EmulOp` on the emulator thread, which calls `TimerInterrupt`,
`ADBInterrupt` and `AudioInterrupt`; these call 68k code through `Execute68k`,
which can take interrupts and call the same components again. The life cycle
creates and destroys all of the others.

## 2. The modules

| module | models | role |
|---|---|---|
| `Timers` | | what a program relies on: one deadline or none for each task |
| `TimeManager` | `timer.cpp` | the descriptor table, shown to implement `Timers` |
| `TimeManagerHistory` | | `TimeManager` with two histories, for the properties that compare with the past |
| `TimeManager_proofs` | | theorems about `TimeManager` and `TimeManagerHistory`, with proofs |
| `TimerTime` | `Unix/timer_unix.cpp` | the arithmetic, with the widths of the types |
| `Interrupts` | `basilisk_glue.cpp`, `newcpu.cpp`, `spcflags.h`, `emul_op.cpp`, `timer_unix.cpp` | producers, CPU loop, nested calls |
| `InterruptsHistory` | | `Interrupts` with a history: whether a producer's stale store has taken away the request to leave a call |
| `KeyQueue` | | what the keyboard promises: a queue |
| `Adb` | `adb.cpp` | UI thread and `ADBInterrupt`, shown to implement `KeyQueue` |
| `TrackPad` | `B2TrackPad.mm` | extends `Adb`: touches and delayed messages that make its mouse calls |
| `TouchScreen` | `B2TouchScreen.mm` | extends `TrackPad` by the other view, and composes the two with `Adb` |
| `SoundQueue` | | what sound output promises: a queue of blocks |
| `AudioStream` | `audio.cpp`, `audio_ios.cpp`, `audio_ios_impl.cpp` | callback, interrupt and component, shown to implement `SoundQueue` |
| `Ethernet` | `ether.cpp`, `ether_ios.cpp` | reception thread, slirp's thread, interrupt and protocol handlers |
| `Drives` | `sony.cpp`, `disk.cpp`, `cdrom.cpp`, `sys_ios.cpp` | how the drivers announce disks |
| `Devices` | | `AudioStream`, `Ethernet` and `Drives` in one machine |
| `EmulatorLifecycle` | `B2AppDelegate.mm`, `B2ViewController.mm`, `ios_main.mm` | start, failure, termination, cold restart |
| `DiskImageSnapshots` | `B2DiskImageSnapshots.mm`, `B2VolumesSettingsViewController.m` | extends `EmulatorLifecycle` by the images, their snapshots and the end of the application |
| `PrivateResources` | `B2PrivateResources.mm`, `activateMainScreen` | preparation of ROM and disk image: dialogs, download, ZIP reader |
| `Launch` | `bootOrShowSettingsIfNeeded` | composes `PrivateResources` with `DiskImageSnapshots`, and so with `EmulatorLifecycle`: the application as a whole |
| `TimerTime_proofs` | | theorems about `TimerTime` |
| `Interrupts_proofs` | | theorems about `Interrupts` and `InterruptsHistory` |
| `Adb_proofs` | | theorems about `Adb`, whoever calls it |
| `TouchScreen_proofs` | | extends `Adb_proofs`: theorems about the two views, and about them and `Adb` together |
| `Devices_proofs` | | theorems about `AudioStream`, `Ethernet` and `Drives`, and then about the machine that has all of them |
| `DiskImageSnapshots_proofs` | | theorems about the life cycle, alone and with the disk images |
| `Launch_proofs` | | theorems about the downloads, and what is proved of the life cycle and the images for the whole application |
| `MC...` | | the instances that TLC checks |

Names are the source's wherever TLA+ allows; `map` in `PROJECT.json` gives the
lines of every definition. Definitions whose comment begins with *Mutated form*
are plausible mistakes in the code; they are not part of any next-state relation
and serve to show that each property can fail.

**Setups.** `Interrupts`, `Adb`, `AudioStream` and `EmulatorLifecycle` have a
constant `Setups` and a variable `setup` that is chosen in `Init` and never
changes: a record that says which host, which devices and which kinds of
behaviour are considered. One run then explores several instances, each small,
where their product would be too large. A property that needs a condition
(atomic updates, no restarts, ...) names it as a field of the setup. Other
modules have the same under names of their own: `Ethernet` its `network`, `Drives`
the set `drives`, `DiskImageSnapshots` its `habit`, `PrivateResources` its `offer` (what
is there, and what the servers do). `Machines`, `Uses` and `Launches` say which of them
are considered together.

### Time Manager

A slot is a record of a task and its wakeup time; `FreeSlots`, `SlotsOf`,
`alloc_desc` and `find_desc` are the loops at the top of `timer.cpp`. The two
flags the code keeps in Mac memory (active, extended) and whether `tmWakeUp` is
zero are sets of tasks. `InsTime`, `RmvTime`, `PrimeTime` and `TimerReset` are
single steps, because they are called on the emulator thread and call nothing.
`TimerInterrupt` is not: it starts a `pass` with the clock it read, `ScanSlot`
looks at one slot, and where the code calls the task's 68k routine the pass stays
in `"call"` while every operation of the program is enabled; `HandlerReturns`
continues with the next slot. `Tick` is the host clock and can advance at any
moment, also within a pass.

`Timers` knows neither slots nor passes. The mapping takes the wakeup time of an
installed and active task for its deadline, so the property says that an
operation on one task leaves the deadlines of the others alone, whichever slot it
allocates, and that a task becomes inactive only when its deadline has passed.

### Host times

`TimerTime` models values with the widths of the build: `tv_sec` modulo `Word`,
`int32` by `ToInt32`. With 3 for 1000 and a word of 6 bits all carries, the switch
from microseconds to milliseconds and the wrap-around of a Mac time come within
the bounds; the properties quantify over every Mac time but the smallest, whose
negation overflows. In this build the test for negative times in
`timer_host2mac_time` (`timer_unix.cpp:211`) is dead because `tv_sec` is unsigned:
the time that remains to an overdue task is not 0 as the comment there (205)
says. `RemainingIsExact` is stated for tasks that are not overdue.

### Interrupts

Each source has a producer: `Post`, `SetInterruptFlag` (atomic, a mutex),
`idle_resume`, then the update of `spcflags`. Where updates are not atomic that
is `TriggerLoad` and `TriggerStore`; `ENABLE_EXCLUSIVE_SPCFLAGS` is a field of the
setup, and three of the run's four setups are the build that does not define it. The CPU thread's updates are treated the same
way (`Update`, `Store`). The CPU loop is modelled at the granularity of its looks
at `spcflags`: `Test` after an instruction, then `DoInt`, `IntLev`, `TakeInt`,
`SetDoInt`, `Brk` in the order of `m68k_do_specialties`. An EMUL_OP saves the SR,
may call 68k code (`NativeCalls`), and puts the SR back (`EmulOpEnd`).
`M68K_EXEC_RETURN` sets `quit_program` and `SPCFLAG_BRK`. `IrqOp` serves the flags
in the order of `emul_op.cpp`. `idle_wait` can be woken by `idle_resume`, whose
signal is lost if nobody waits, and spuriously.

### ADB

The UI thread's calls are split into their stores. With `ordered = FALSE` the
stores that nothing orders are made in any order, as an ARM host may show them to
another thread; the position is changed under the mutex. `ADBInterrupt` is split
where it calls the Mac or releases the mutex. One axis and one button stand for
all. `mac` is what the Mac was told, `target` what the user meant. The field
`touch` of the setup says whether the mouse calls come from anywhere (`"none"`) or
from one of the views below.

### Touch input

`TrackPad` and `TouchScreen` are event handlers of the UI thread. What a handler
does to the fields of its view, which no other thread sees, is one step; the calls
it makes (`ADBMouseDown`, `ADBMouseUp`, `ADBMouseMoved`) are put in `calls` and
made one after the other, each with the several stores of `Adb`, before the thread
takes another touch or message. A method is an operator from the view to the view,
so that methods that call others compose as they do in the code.
`performSelector:afterDelay:` puts a message in `scheduled`, and
`cancelPreviousPerformRequests` takes it out. The trackpad's messages have
different delays and come in any order; those of the touch screen that press and
release the button have the same delay and come in the order in which they were
scheduled. Where the code compares times or distances (a second tap that is soon
and near, a touch that was short, a motion that is far enough, a force) the outcome
is a parameter of the action.

### Sound

`audio_callback` with the lock held is one step; what it does after the lock is
released (raising the flag) is another, unless the setup has it `prompt`.
`GetSourceData` returns with a block or none. The component's calls of 68k code
are split in two, and interrupts are taken in between. `mixerOpen` is the Mac's
side of `AudioStatus.mixer`. The restart of the emulator (`Restart`) keeps what
the code does not reset: `open_count`.

### Network

The reception thread is `Poll`, `Raise` and `Wait`; `EtherInterrupt` is split at
the calls of 68k protocol handlers, in which interrupts can come if the setup
`nests`. What can be read is a sequence of units, marked where a packet begins.
`recvfrom` takes a datagram, `read` takes as many bytes from a pipe as fit into the
buffer: `Received` models both, and with slirp, whose pipe does not keep packets
apart, a read may take two packets or a part of one. slirp itself is a thread that
may answer at any time. `EtherExit`, `stop_thread` and `StartAgain` are a
termination or restart.

### Drives

The three drivers tell the Mac that there is a disk in the same way, and `Drives`
models them with one parameter for what differs. `Mount` is
`mount_mountable_volumes` up to the call of `PostEvent`, which is 68k code;
`accRunReturns` and `PostEventReturns` are what follows it. While the periodic
action waits for `PostEvent` the 1 Hz interrupt may come and call the drivers that
are active. `inserted` and `posted` are histories: how many disks called for an
event, and how many events there were. `MacRestarts` keeps `acc_run_called`, which
the code never resets but in `Open`.

`Devices` composes sound, network and drives. They share the thread that serves
them and no state, so each machine of the run has one of them.

### Application life cycle

An *attempt* is what goes from a request to start through the snapshot
preparation on a background queue, the creation of the thread objects and the
block delayed by a second, to the emulator thread; `attempt[a]` is its place.
`emulThread`, `emulMachThread`, `emulatorRunning`, `tickThread`,
`snapshotPreparationInProgress` and `pendingLandscapeStartCompletion` are the
fields of that name. Between two steps of one thread any other thread may step.
`terminateEmulator` is split where it suspends the thread, tears down and forgets
it; the user interface does nothing else meanwhile. A thread that is terminated in
`prepareForEmulatorRestartSynchronously` leaves its block on the main queue (the place
`"terminated"`). It runs after the tear-down, before the block of any thread that comes
later, and signals a semaphore that is nobody's; with a landscape mode it waits for a
rotation first (`Terminated`) and replaces what was waiting.

### Disk images and snapshots

`DiskImageSnapshots` extends the life cycle. A file is the generation of the image
(how many had been created with the name before) and whether the Mac has written to it.
An attempt to start that is at its snapshots looks at the volumes one after the
other (`ensureSnapshot`); `Lifecycle` is a step of `EmulatorLifecycle` with what it
does to the images: a start goes on only when all volumes were looked at, and
whoever initialises the devices opens the images that are configured, which is also
the cold restart. A reset is the user's request, the termination of the emulator,
and three steps on a concurrent queue (`RestoreClones`, `RestoreRemoves`,
`RestoreMoves`) that may run twice at the same time. `Killed` is the end of the
application at any moment, with what is in memory lost and the files as they are.

### Private resources and the whole application

`PrivateResources` has two stages, one for the ROM and one for the disk image. Each calls
the next as its completion, so that `prepareROM` and `prepareDisk` are operators that say
what a call does from there to the next thing the main thread waits for: a button, the end
of a download, the end of everything. `presented` is the chain of what the root view
controller presents and what that presents in turn. UIKit refuses to present on a
controller that presents already, in which case no completion comes (`"refused"`), and a
dialog that presents an alert dismisses the alert when it is told to dismiss itself.

A download is `B2ZipDownload`: a background queue (`StartSession`, `EndSession`,
`RemoveOld`, `Install`) waits for the session's queue (`didReceiveResponse`,
`didReceiveData`, `didCompleteWithError`), whose chunks have any length. `processBytes` is
modelled by the rounds of its loop: `CollectHeader`, `SkipName`, `CopyStored`,
`InflateBytes`. zlib is an external part that takes some units and gives some, keeping in
`pending` what its output has no room for. What the file should be is `Entry`, counted
from the first unit of the entry to the last; `writeData` appends the units that the
reader holds to be next, so that a header read too short or a chunk looked at twice shows
in the file.

`Launch` puts this before the life cycle. `Activate` is `activateMainScreen`; `Prepares`
is a step of the preparation with the boot if it was the last; `Elsewhere` is a step of
`DiskImageSnapshots`, which must not start the emulator from the main screen by itself, and
opens the settings only when nothing is presented; `KilledAtAll` is the end of the
application, after which only the files and the user defaults are what they were.

## 3. The runs

| run | question | result |
|---|---|---|
| `timer` | Is the table consistent, does it implement `Timers`, is an expired task served and served once? | yes, for programs that clear `tmWakeUp` before they install a task |
| `timer_stale` | ... for programs that do not? | no: a task inherits what the slot last held (`timer.cpp:262`) |
| `timertime` | Is the arithmetic exact? | yes |
| `interrupts` | Is an interrupt ever forgotten, a call ended in the wrong loop, a mask left behind, work never served? | no, within the conditions below; the default build is among the setups |
| `interrupts_runaway` | Is a routine called by `Execute68k` always left where it ends in the default build? | no: a store of another thread can undo `SPCFLAG_BRK` (`spcflags.h:66`) |
| `adb` | Is the keyboard a queue, is a key or button ever stuck, is the cursor where it was moved to; does a queue of taps get stuck, is the button held when nothing holds it? | queue, nothing stuck, cursor right |
| `adb_overflow` | ... with one event more than the ring can tell from none? | all of them vanish (`adb.cpp:294`) |
| `devices` | Is the ring a queue, is a block dropped, is a closed mixer called? Is what is received served, whole and with one buffer? Is each disk announced, and once? | yes, within the conditions below |
| `lifecycle` | The whole application (`Launch`): two emulators, two tick threads, no preferences, a double tear-down, stuck? Is an image lost, or a snapshot not of its first use? Is a downloaded file ever a part of the entry, or wrong? | none of these, each within the conditions below |
| `lifecycle_stuck` | ... if the settings can be opened while a restart waits for a rotation? | stuck for ever (`B2ViewController.mm:224`) |
| `lifecycle_prefs` | Are the preferences loaded at a start that follows a failed one? | no (`B2AppDelegate.mm:863`) |
| `volumes_restart` | Does a reset undo all changes if volumes are configured while the emulator runs? | no: the Mac's restart opens the image without a snapshot (`B2AppDelegate.mm:897`) |

Every property of a passing run has a mutant, listed in `PROJECT.json`, that
violates it.

Some properties hold under a condition, and the condition is the interesting part:

- `OwnSchedule`: the program clears `tmWakeUp`; `timer_stale` shows the other case.
- `NoForgottenInterrupt`: outside of calls of `Execute68k`, or `spcflags` is updated
  atomically. Outside of calls the plain word will do: each place that clears the
  request is followed by a look at `InterruptFlags`. Within a call the word may ask for
  nothing until the call has returned.
- `CallsReturn`: no other thread has loaded `spcflags` before the call's end and stored it
  after, which takes `SPCFLAG_BRK` away (`undone`). That is the one thing that makes the CPU
  of the default build run past the end, and `interrupts_runaway` shows that it does.
- `WorkIsServed`: until two threads are between load and store of `spcflags` at the same
  time again (`Overlap`), or the CPU runs past the end of a call. So posted work waits for
  ever only if each of the CPU's looks at the flags is undone by one more overlap, which
  takes threads that trigger again and again within a few instructions; the tick thread
  sleeps for a 60th of a second in between. Whatever an overlap leaves of the word does not
  matter: the next request serves what an earlier one has lost. With atomic updates
  neither happens and the property is the plain one. In a call that is interrupted it
  relies on the call's return.
- `CursorFollows`: the device stays in one mode. A change of mode throws away
  motion that is pending (`adb.cpp:281`), and `ADBInterrupt` reads the mode again
  after it took the motion (350).
- `KeysAgree`: at most one event less than the ring has slots. The setup also has
  the keyboard's stores in program order.
- `NoBlockDropped`: the callback raises its flag without being held up. Otherwise
  two blocks of silence and one late callback make the interrupt fetch a block for
  which no buffer is left (`audio_ios_impl.cpp:145`).
- `LastCloseClosesMixer`: no restart of the emulator; `open_count` (`audio.cpp:51`)
  is not reset by one.
- `OneTicker`, `PrefsReloaded`: no start has failed. A failed one forgets the tick
  thread and drops the preferences.
- `QuitsWhatRuns`: the Mac does not restart while the user terminates it; the two
  tear-downs are not exclusive (`B2AppDelegate.mm:748`).
- `SnapshotIsOriginal`: volumes are configured only while no start is on its way and
  no emulator runs, and no name is used twice. `volumes_restart` shows what a restart
  of the Mac does to the first condition; deleting an image leaves its snapshot, so
  an image that is created with its name gets that for its own.
- `ImageKept`: an image may be missing for as long as a restore is between its
  second and its third step. A killed application leaves it so, with the snapshot
  still there.
- `NeverStuckUnlessDropped`: two things leave the user with nothing to do. The settings,
  opened while a start waits for a rotation, drop the completion (`lifecycle_stuck`). And
  the preparation presents a dialog on another one: the alert that the ROM cannot be had is
  there when the stage of the disk wants to show its dialog (`B2PrivateResources.mm:478`),
  or an alert about an import is on the progress dialog and is dismissed in its place
  (474). `MayHang` names the offers in which that can happen.
- `InstalledIsWhole`: a stored entry is shorter than 2^32 bytes. Of a longer one only as
  many bytes are copied as the field of its header says.
- `WholePackets`: the UDP tunnel. slirp's pipe does not keep packets apart.
- `AtMostOnePacket`, `PacketsAreServed`: the emulator is torn down only at a moment
  when nothing is received, and for the second not at all. `stop_thread` waits for a
  thread that may be waiting for an acknowledgement which nobody is going to give.
- `PostedOnce`: a floppy that is ejected before the driver's first periodic action
  is posted nevertheless (`sony.cpp:430` leaves `to_be_mounted` set).
- `InsertedIsPosted`: until the Mac ejects the disk or restarts.

### Bounds

- `timer`: two tasks, two slots, delays 0 and 1, three values of the clock. Two
  slots are what it takes for a scan to have a slot behind and a slot before it;
  two tasks change places in them. One of the tasks has a handler that does
  anything a program may do.
- `timertime`: eight seconds, every representable Mac time; three is the smallest
  base in which a carry, a borrow and a remainder differ.
- `interrupts`: the default build with the tick thread and one device and no nested calls;
  with the tick thread and a program that masks interrupts; with the tick thread and two
  nested calls, so that the handler of an interrupt taken within a call can make one too;
  and the build with atomic updates, a masking program and a call. A third source adds a
  third producer that behaves like the second. `interrupts_runaway` has both sources and a
  call.
- `adb`: a ring of four slots (that it is empty, full or wraps around is what
  counts), two keys, positions -2 to 2; `Half` is beyond any motion here. Two
  fingers, because the code tells one from more; two clicks in the queue, because it
  tells the first from the others; three messages of the touch screen at a time.
- `devices`: two kinds of blocks, two instances of the component, two sources; the
  ring of buffers has its real size. A read takes up to two units and a pipe holds
  four: packets that fit, that are cut and that come together. One protocol, and two
  nested activations of the interrupt, of which the property says there is one. One
  drive for each driver, three insertions.
- `lifecycle`: three attempts at the same time, of which the code lets one through;
  failed starts until there are two tick threads. One volume, whose files do not
  touch those of others; two restores at the same time; a name is used once. An attempt
  or restore takes the least place that is free (`NextAttempt`, `NextJob`), since places
  do not differ. A header has two units, a name one, an entry one to three where the
  size field can say two; a chunk has one to three units, so that it can end within each
  part of the archive and can hold several parts. `MCOffers` are the eleven combinations of
  servers and files: both there, both reliable, transfers that break, a damaged or
  unreadable entry, no address or an invalid one, a failing import.

Deadlock is checked in every run but `timertime`, whose clock stops at its bound.

### Fairness

- `timer`: the tick thread raises an interrupt every 60th of a second, and the scan
  and the handlers it calls come to their end.
- `interrupts`: producers finish what they began, the tick thread goes on for ever,
  the CPU executes instruction after instruction; the Mac's routines, the EMUL_OPs that call such (at each
  level of nesting) and the interrupt handler return and it does not mask interrupts for ever (strong fairness, since
  another interrupt can come in between).
- `adb`, `devices`: threads go on, interrupts are taken (what `interrupts` shows),
  handlers return, the audio queue asks for blocks for ever. The Mac starts in the
  end and calls each driver for its periodic action; strong fairness where an
  interrupt can come in between. Nothing is assumed of what arrives from the
  network, of the Mac's requests, or of the user.
- `lifecycle`: threads and queues go on, the settings are closed in the end, and a
  user who is asked to rotate the device does; the session and its queue go on; buttons of
  dialogs are tapped in the end. Nothing is assumed of restores, of the user's other acts, of
  failures or of the Mac's restarts.

## 4. What is proved

Eight modules hold theorems. Each is about every value of the constants that meets the
named assumption of its module (`TimeManagerAssumption`, `InterruptsAssumption` and so
on): any number of tasks, producers, volumes, attempts, nested calls, keys, touches, any size
of tables and buffers. The exception is the sound ring, whose two buffers are a definition, as
they are in the code. What more a theorem needs is in its statement, by a name that is
explained below. Bounds on clocks and queues are in the guards and part of what is proved
about; no proof but that of host times depends on their values. The specifications in the
proof modules (`InterruptSpec`, `EtherSpec` and so on) have no fairness; safety does not
need it.

Every argument is an inductive invariant, which was checked by TLC first. An invariant
that a run checks is seldom inductive; what is added to it is the reason why it holds.

### Time Manager

- `TypeCorrect`: `Spec => []TypeOK`. `TypeOK` is inductive: its conjunct that a pass
  in progress is at a slot of the table is what keeps `ScanSlot` within it.
- `UniqueDescriptors`: `Spec => []UniqueDesc`, no task has two descriptors.
  Inductive together with `TypeOK`: `InsTime` allocates only for a task that has
  none, and the other operations never change whose slot it is while it is used.
- `Refinement`: `Spec => ImplementsTimers`. Each operation maps to the abstract one
  on the same task or to a stutter (`InstallRefines`, `RemoveRefines`,
  `PrimeRefines`, `ScanRefines`, `ResetRefines`). It needs `UniqueDesc`: with two
  descriptors for a task, freeing one would not remove it. `Frame` says that what an
  operation does to the slot of one task leaves the deadlines of others alone,
  `FullTable` that a table without a free slot has as many tasks as slots, which is
  the abstract capacity, and `FirstIsLeast` that the loops find the first match.
- `SchedulesAreOwn`: `OwnSchedule`, assuming `Disciplined`, the program that clears
  `tmWakeUp`. `ScheduleKept` says where a schedule is kept that nobody looks at: in the
  slot of a task that is active, and of one that is not but whose next `PrimeTime` would
  count from it. Between the two, calls free slots and other tasks get them.
- `CalledOnce`: `OncePerPass`. `CalledIsLater`: a plain task that was called in this pass,
  and is active again, is due after the pass's own reading of the clock, since its handler
  could only prime it from the clock as it was then or later. So the scan may meet it
  again in a slot further on, and does not call it.

### Host times

`TimesInv` is what `Next` keeps: both times are normalised and neither is out of the other's
reach. The theorems assume `TimesFit`: the clock moves by less than a second at a time, and
its largest value is so far below the range of an `int32` that the sum of it and of the longest
delay is within. With the real values (1000 for `K`, 2^31 - 1 for `MaxMac`) that is a clock
of up to 68 years since 1970, less 25 days; the run's values meet it too. They hold
for a signed and an unsigned `tv_sec`.

- `TasksAreDue`: `DueAfterDelay`. `timer_add_time` carries once at most (`AddIs`), and a
  comparison of normalised times is a comparison of the values.
- `TimeLeftIsExact`: `RemainingIsExact`. The difference of seconds is taken modulo the word
  and is the difference itself where that is small (`DivMod`, `DivIs`, `SmallMultiple`
  say of `%` and `\div` what that takes, since the provers know little of division by what
  is not a literal).

### Interrupt delivery

`InterruptInv` is `Types`, `WordOK`, `AtomicOK` and `MaskOK`; each has a lemma with one
step for every action.

- `NoneForgotten`: `NoForgottenInterrupt`. Without atomic updates the invariant speaks of
  the word *to be stored* (`WordOK`): wherever the CPU thread loaded it, it asks for a look
  at the flags, or the next thing the thread does is to look. A producer's store can undo
  the clearing of a request, and then it brings back a request to look too.
- `CallsAreLeft`: `CallsReturn`, for both builds, by `CallOK`: from `EXEC_RETURN` to the loop
  that is left, `quit_program` goes with `SPCFLAG_BRK` in the word or in the word that the
  CPU is about to store, unless it was `undone`. The CPU's own updates never drop it
  (`CallCpu`); a producer's store drops it only if it was loaded before (`CallProducer`).
- `MainHearsInterrupts`: `MainIsInterruptible`, by `MaskOK`: a mask is in a frame that is not
  the lowest one, so that whatever frame a call that ends drops, the program's own mask
  is what it set.
- `StackIsBounded`: `TypeOK`, by `WidthOK` and `NestOK`. `TypeOK` bounds the stack by the
  calls, the CPU loops, and one more. `NestOK` says why: the exception frame of an interrupt
  comes with a mask, and what is called above it has saved a masked SR, so that none of its
  ways out (`RTE`, the end of an EMUL_OP, a call that is left, even in the wrong loop) lets
  another interrupt in while the frame is there.

### ADB and touch input

The views make mouse calls as they like, and so does the user in `Adb` alone. So the proofs
are about `AnySpec`, in which the UI thread makes any call; both specifications are
instances of it (`SpecIsAny`, `InputIsAnyStep`). `AdbInv` has four parts:

- `RingInv`: what the Mac was told, plus the events between the two pointers, plus the event
  of which the UI thread has stored the pointer and not yet the matrix, gives the matrix
  (`Leads`). `LastOf` is why: of several events of one key the last counts.
- `ButtonInv`: if the button is not what `ADBInterrupt` has read last, it will look again
  (`LooksAgain`: the flag is set, or is going to be, or the interrupt is before its look).
- `AbsoluteInv`, `RelativeInv`: the same for the position; with relative motion the
  cursor, the motion that the interrupt has taken, the motion that has added up, and the one
  that a call is about to add are the target.

From these:

- `AdbTypeCorrect`, `NoKeyIsStuck`, `NoButtonIsStuck`, `CursorArrives`: `TypeOK`,
  `KeysAgree`, `ButtonAgrees`, `CursorFollows`.
- `KeysAreQueued`: the ring and its two pointers implement the safety part of `KeyQueue`:
  each key event reaches the Mac, once, and in order (`PtrAppends`, `ReportShrinks`).
- `InputTypeCorrect`, `ViewsInputArrives`, `ViewsKeysAreQueued`: the same with the views.
- `QueuedClicksCome`: `QueuedClicksAreSent`. `ClicksEnd` says that a click under way and the
  message that ends it come and go together, so that at its end there is a step that
  schedules the next one.
- `PadHoldsButton`: `ButtonIsHeld`; `ViewsReleaseButton`: `ButtonReleased`. `Held` says what
  the button will be when the calls that a method has made, and the thread has yet to make,
  are made. Each method of the views keeps it so; there is a lemma for each, and methods
  that call others cite theirs.

The conditions are those of section 3: `KeysInOrder` (key stores are seen in their order, and
the ring takes fewer events than it has slots; `adb_overflow` shows what happens
otherwise; the button and the position need no order), `OneMode` with `MotionFits` (one kind of motion, and
none that is further than a packet can say), `ViewsAlone` (with a view, no other mouse).
They speak of the setup and the constants only. The setups of `MCAdb` and `MCTouchScreen`
meet them, but for that of `adb_overflow`.

### Sound, network, drives

- `SoundSafe`: `TypeOK`, `NoBlockDropped`, `MixerIsOpen` and `LastCloseClosesMixer` of
  `AudioStream`. `RingOK` counts what is on its way to the ring: the flag and an interrupt
  in progress each mean a free buffer, both mean two. `ComponentOK` says, for each place
  where `AudioDispatch` calls 68k code and can be interrupted, what the mixer is.
- `RingIsQueue`: the ring implements the safety part of `SoundQueue`. The queue is what the
  ring holds from the buffer to be read on (`RingIsSequence`).
- `OnePacketSuffices`: `AtMostOnePacket`. What the reception thread waits for is in exactly
  one of three places: the interrupt flag, an activation, the count of the semaphore.
- `PacketsAreWhole`: `WholePackets`. What waits in a UDP socket is `Framed`: at each head a
  datagram begins that ends where the next one begins. Arrival and reading keep it so
  (`ArrivalKeepsFrames`, `ReadKeepsFrames`).
- `DisksPostedOnce`: `PostedOnce`. A disk that is flagged and not being posted is owed one
  event (`Balanced`); the interrupt that comes while the periodic action posts serves other
  drivers than the one that is in it (`PostingOK`).
- `EtherTypeCorrect`: `EtherTypeOK`, with the sizes of the pipes and the depth to which the
  interrupt is entered within itself. That depth is 1, whatever `MaxNesting` would allow: an
  activation is one of the three places, so the flag is not set while there is one.
- All of these hold of the machine that has the three
  (`BlocksAreKept`, `MixerIsThere`, `MixerIsClosed`, `OnePacketAtATime`,
  `HandlersGetPackets`, `DisksAnnouncedOnce`, `DevicesTypes`): a step of the machine is a
  step or a stutter of each (`DevicesAreApart`).

### Life cycle and disk images

- `LifecycleSafe`: types, `OneEmulator`, `OneTicker`, `PrefsReloaded`, `QuitsWhatRuns` of
  `EmulatorLifecycle`. `ThreadsOK` is the core: an attempt that lives is the one
  `emulThread` and `emulMachThread` name, and while the main thread tears down none lives.
- `VolumesTypes`, `NoTwoEmulators`, `NoTwoTickers`, `PrefsAreThere`, `TearsDownOnce`: the same with
  the disk images, and their types. A step of `DiskImageSnapshots` is one of the life cycle, nothing, or the end of
  the application (`VolumesAndLife`), and the end keeps `LifeInv` (`KilledKeepsLife`).
- `ImagesAreKept`: `ImageKept`. A restore that has removed an image has a volume whose
  snapshot is there, and holds a copy of it (`RestoreOK`).
- `SnapshotsAreOriginal`: `SnapshotIsOriginal`, assuming `MaxGeneration = 1`: no name is used
  twice. `SnapshotFirst` says that an image has its snapshot when the attempt to start is
  past its snapshots, and `Unmodified` that only an image with a snapshot was written to.

### The whole application

- `LaunchImplementsVolumes`: a behaviour of `Launch` is one of `DiskImageSnapshots`, so that
  everything above holds of it too.
- `FilesAreWhole`: `InstalledIsWhole`. `WholeInv` says that what the reader has written is
  what it has read (`ReaderOK`): as long as the header is collected it is nothing, from then
  on it is the entry up to the unit the reader is at, but for what zlib holds back; a reader
  that has finished has written all of it, and only such a one lets the file be moved. The
  length of the chunks is not in it.
- `LaunchTypes`: `LaunchTypeOK`, with `FlagsOK`: each way out of the preparation opens the
  gate of `activateMainScreen` again.

### What is only model-checked

Liveness and everything under fairness (`ExpiredIsServed`, `WorkIsServed`,
`NeverStuckUnlessDropped`, `PacketsAreServed`, `InsertedIsPosted`, the liveness in `KeyQueue`
and `SoundQueue`), which is out of the prover's reach as is ENABLED. Every invariant of a
passing run is stated by a theorem. Facts about recursively defined data
cannot be proved by induction with the installed provers; no module here needs any.

## 5. What is not modelled

Listed with reasons in `PROJECT.json` under `components`. Within the modelled parts:

- the CPU's tracing and STOP and exceptions other than interrupt 1;
- `ADBOp`, which sets addresses and handlers of the two devices; polls of the
  debugger from within an ADB handler; motion of more than 63 points between two
  interrupts; touches while the emulator does not run;
- failures of AudioToolbox; the mixing of the startup sound;
- the network's addresses, multicast and port forwarding, and the end of the emulator
  while something is received, when `stop_thread` can wait for ever;
- reading and writing of drives, which is host I/O; more than one drive for each
  driver, audio CDs, drives for which the Mac has no memory;
- errors of the file system other than a file that is or is not there, or cannot be
  moved; imports that succeed during a preparation; the settings asked for while a dialog
  is presented; the checksum of a ZIP entry, which the code does not look at; snapshots of
  the image that was downloaded; an existing image that is taken out of the configuration
  and put back (`moveRowAtIndexPath` of the volume settings);
- the memory that the tick thread touches while the emulator is torn down; locks
  held by a thread that is terminated.

## 6. Plan

The order follows what the properties are worth:

1. `ADBOp` in `Adb`; the cold restart from within a nested call, composing
   `Interrupts` with `EmulatorLifecycle`.
2. The phases of `scsi.cpp`, the mode switch of `video.cpp`, the file ids of
   `extfs.cpp`.

Theorems: with each of these, its invariants.

## 7. Running

    tlc -workers 2 -config TouchScreen.cfg MCTouchScreen.tla
    tlapm TimeManager_proofs.tla
