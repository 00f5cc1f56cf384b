# AudioBridge in TLA+

AudioBridge captures what Windows plays on the default output device (WASAPI
loopback) and plays it on further devices at the same time.  It is two
processes: the C++ engine (`AudioBridgeEngine`), which moves the audio, and the
C# user interface (`AudioBridgeUI`), which commands the engine over a named pipe
with one JSON line per command and one per answer.  This directory holds
TLA+ models of both, the TLC configurations that check them, and TLAPS proofs
about them.

## 1. The system

### Components, their state and operations

| component | state | operations |
|---|---|---|
| `RingBuffer<T>` (`ring_buffer.h`) | `buffer_`, `head_`, `tail_` | `push` (capture thread), `pop` (one render thread), no lock |
| `AudioEngine` (`audio_engine.*`) | `capture_running_`, `restart_capture_`, `capture_thread_`, `capture_device_id_` and format, `pending_reinit_ids_`, `targets_`, `pending_ids_` | `Start`, `Stop`, `AddRenderDevice`, `RemoveRenderDevice`, `CheckAndRemoveDefaultDevice`, `RequestCaptureRestart`; threads `CaptureThreadProc`, `RenderThreadProc` |
| `DeviceManager` (`device_manager.*`) | `wanted_devices_`, the callbacks, the enumerator | enumeration, default id, volume, wanted list, `OnDefaultDeviceChanged` |
| `IpcServer` (`ipc_server.*`) | `running_`, `shutdown_requested_`, `current_pipe_`, the line buffer | `Start`, `Stop`, `PipeThreadProc`, `ProcessCommand` |
| `main.cpp` | `g_shutdown_requested` | default-device callback, main loop, shutdown sequence |
| `EngineIpcClient` (C#) | pipe, reader, writer, `_sendLock` | `ConnectAsync`, `SendCommandAsync`, `Disconnect` |
| `MainViewModel` (C#) | device list, `_isBridgeRunning`, `_isToggling` | 2 s poll, toggle, merge, save settings |
| `DeviceReconnectService` (C#) | `_retryAttempts`, poll task | re-adds wanted devices with a retry budget |
| `EngineProcessManager` (C#) | `_engineProcess`, `_restartCount`, `_intentionalShutdown` | start, stop, restart after a crash |
| `App`, `SettingsService` (C#) | the settings file | start-up, exit, save and load |

### How they interact

* The **pipe thread** runs `ProcessCommand`, which calls the engine and then the
  wanted list; **main** calls `Stop` after it has joined the pipe thread.
* Windows calls `OnDefaultDeviceChanged` on a thread of its own, once for each
  role; the callback of `main.cpp` calls `CheckAndRemoveDefaultDevice` and then,
  if the bridge runs, `RequestCaptureRestart`.
* The **capture thread** pushes each packet into the ring of each target and, on
  a restart, removes all targets and adds them again for the new format.
* One **render thread** per target pops from its ring.
* The C# side polls `get_devices` and `get_status` every two seconds, from two
  independent loops that share one connection.

### What is hard here, and what makes each part correct

* *Ring buffer*: two threads without a lock and counters that wrap.  Correct when
  the two sides never touch the same element and the whole is a bounded FIFO.
* *Engine*: three threads add and remove targets, each acting on what it read
  under a lock it no longer holds.  Correct when no device has two targets, no
  reservation leaks, every render thread is joined exactly once before its
  object dies, the capture session follows the default device, the bridge never
  renders to the device it captures from, and every command returns.
* *IPC server*: shutdown races with a blocking `ConnectNamedPipe`.  Correct when
  no handle is closed twice or leaked and `Stop` returns.
* *Client and engine process*: tasks that share one pipe and one lock, an engine that
  may die at any moment, and an exit that blocks the thread everything else runs on.
  Correct when each answer reaches the command it belongs to, every call returns, no
  engine process is lost or comes back after a stop, and the exit ends.
* *User interface*: asynchronous methods that interleave at each await.  Correct when
  the view comes to show what the engine does, the saved devices come to be bridged, a
  toggle shows its own result, and what is saved on exit is what the user chose.

`PROJECT.json` lists every hazard at its line, with the property that covers it.

## 2. Plan

1. `SampleQueue`, `RingBuffer`, its proofs (done)
2. `DeviceManager`, `AudioEngine`, its proofs (done)
3. `PowerOfTwo` and its proof; `ChannelStream`: fan-out, remapping and the render loop
   as whole frames over a ring whose capacity comes from `next_power_of_two`; a stream
   stays aligned to frames; its proofs (done)
4. `IpcServer` and its proofs: the life cycle of the pipe and main's shutdown; no
   double close, no leaked handle, shutdown completes (done)
5. `EngineProcess`, `EngineClient` and their proofs: one engine at a time, a stop that is
   final, answers matched with commands, an exit that ends (done)
6. `UserInterface`: polls, toggles, the reconnect service, start-up and exit over a
   connection that loses nothing silently; the proof of its types and of what a toggle
   shows (done)

Each is one module with constants for its bounds, an `MC` module when it needs
definitions for them, and one passing run, the engine two; recursion, where needed, is written
as functions so that the modules can be proved about.  Each invariant, step property and
refinement that a passing run checks is now a theorem too, under the assumptions
section 5 names; the liveness properties stay with TLC.  What is argued and not proved, and
worth trying next: that `ChannelStream` may use the queue that the ring implements in
place of the ring itself, and safety facts that the liveness properties lean on, as that a
row's answer is of that row's own command.

## 3. Modules

| module | models | role |
|---|---|---|
| `SampleQueue` | what the ring promises: an atomic bounded FIFO | abstract specification |
| `RingBuffer` | `ring_buffer.h`, `push` and `pop` | extends nothing of ours; refines `SampleQueue` |
| `ModularArithmetic` | facts about `\div` and `%` | lemmas only |
| `RingBuffer_proofs` | | theorems about `RingBuffer` |
| `DeviceManager` | the endpoints, the default, the notices, the wanted list | extended by `AudioEngine` |
| `AudioEngine` | `audio_engine.*` and its callers in `ipc_server.cpp`, `main.cpp` | composes with `DeviceManager` |
| `AudioEngine_proofs` | | theorems about `AudioEngine` |
| `PowerOfTwo` | `next_power_of_two` in `ring_buffer.h` | extended by `ChannelStream` |
| `ChannelStream` | the audio path to one device: the fan-out and the render loop of `audio_engine.cpp` | over the queue of `SampleQueue`, in the two steps of each call |
| `ChannelStream_proofs` | | theorems about `PowerOfTwo` and `ChannelStream`: the rounding is right for each 64-bit request; types, order and frames of the stream |
| `IpcServer` | `ipc_server.*` and the main loop and shutdown of `main.cpp` | stands alone: what a command does is `AudioEngine` |
| `IpcServer_proofs` | | theorems about `IpcServer` |
| `EngineProcess` | `EngineProcessManager.cs` and the processes of Windows | a specification of its own, and extended by `EngineClient` |
| `EngineProcess_proofs` | | theorems about `EngineProcess` |
| `EngineClient` | `EngineIpcClient.cs` and the exit of `App.xaml.cs` | composes with `EngineProcess` |
| `EngineClient_proofs` | | theorems about the composition |
| `UserInterface` | `MainViewModel.cs`, `AudioDeviceViewModel.cs`, `DeviceReconnectService.cs`, `App.xaml.cs` | above what `EngineClient` promises |
| `UserInterface_proofs` | | theorems about `UserInterface` |
| `MCRingBuffer`, `MCAudioEngine`, `MCChannelStream`, `MCIpcServer` | | constants, symmetry and view for TLC |

### RingBuffer

`head` and `tail` are the two atomics, `% Modulus` standing for the width of
`size_t`; `buffer` is the array.  A call is three kinds of steps: it loads the other
side's counter and computes how much it may transfer (`PushBegin`, `PopBegin`), moves
one element at a time (`PushCopy`, `PopCopy`: the one or two `memcpy` calls, which take
time while the other thread works), and publishes its own counter (`PushEnd`,
`PopEnd`).  The loads and stores are acquire and release, so a thread that sees a
counter sees the copies before it; that is why steps may be interleaved as if memory
were sequentially consistent.  `AvailableRead` and `AvailableWrite` are the differences
of the wrapped counters.

### DeviceManager

`present` and `default` are Windows', `notes` counts the `OnDefaultDeviceChanged` calls
not yet made.  Windows calls the handler once for each role, one call at a time, and
the handler forwards every call, whatever its role: `RoleNotice` is such a call with no
change of the console default that `GetDefaultOutputDeviceId` reads.  These actions are
external; `Deliver`, `AddWantedDevice`, `RemoveWantedDevice` and
`GetDefaultOutputDeviceId` are the code's.

### AudioEngine

Three threads, named by who runs them, and one render thread for each target:

* `"ctl"`: the pipe thread.  It takes one command at a time (`AddCommand`,
  `RemoveCommand`, `StartCommand`, `StopCommand`), runs the engine's function, changes
  the wanted list if it succeeded, and answers (`Reply`).
* `"ntf"`: the thread Windows notifies on.  `NoticeBegin` takes a notice, then comes
  `CheckAndRemoveDefaultDevice`, then `IsRunning` and `RequestCaptureRestart`.
* `"cap"`: the capture thread.  `capInit`, the outer loop (`capTop` to `capStart`), the
  inner loop (`capLoop`), and after it a restart (`capCollect`, `capTeardown`,
  `capPark`) or the end.

The functions all three share are actions with the calling thread as parameter
(`AddCall(t)`, `RemoveCall(t)`, `CheckCall(t)`), and `AfterAdd`, `AfterRemove` and
`AfterCheck` say where the caller goes on.  `pc[t]` names the next access to shared
state, so everything a thread has read and not yet acted on is in a local variable
(`arg`, `cur`, `chosen`, `newDefault`, `oldCapture`, `ids`, `todo`, `toJoin`), and the
others may run in between.  The critical sections of `targets_mutex_` and
`capture_id_mutex_` are one step each.  Only `Stop` blocks inside one, so only there the
mutex is visible: `Unlocked` is false while it joins.

A `RenderTarget` is a number in `Obj`; `device[o] = NoDevice` says that `o` is free.
`AddSpawn` takes the lowest free one, which loses nothing because objects differ in
nothing but their number.  A render thread is `running[o]` (the flag) and `alive[o]` (not
yet returned): `RenderStop` is its return after the flag is cleared, `RenderFail` its
return by itself when the device is invalidated.  `RemoveErase` clears the flag in the
same step as it erases the object from `targets_`, although the code does it one
statement later: nothing but that render thread reads the flag.

A COM call that may fail has two outcomes; with `Failures` it may fail at any time,
without it only because the device is gone.  The calls of `GetDefaultOutputDeviceId` are
among them: it then returns the empty id, `NoDevice`, which its callers take for no default.

### PowerOfTwo and ChannelStream

A `size_t` is the set of its one bits: `Decrement` and `Increment` carry as the machine
does, `Smear(v, k)` is `v |= v >> k`, and `Less` compares as numbers.  All 64 bits are
there, which TLC's own integers could not hold.

`ChannelStream` follows one target.  A sample is the number of its frame and its channel,
or `Silence`; `captured` numbers the frames.  `CapturePacket` is the body of the packet
loop: the packet is remapped and `push` reads how much of it fits; `PublishPush` is the
end of `push`.  `RenderRequest` and `Render` are the same for the render thread and
`pop`.  The copying in between needs no step, since `RingBuffer` is shown to implement the
queue.  Frames have the counts the formats give; that `cap_channels` and `channel_count`
stay the same for the life of a target is what a restart, which removes all targets, is
for (`AudioEngine`).

### IpcServer

`pcPipe` follows `PipeThreadProc` and `pcMain` the main loop and `IpcServer::Stop`; `pipe`
and `stopping` are the handles each holds in a local variable, `currentPipe` the atomic
between them.  `PipeRelease` is the compare-exchange and `StopExchange` the exchange.
Input is a sequence of chunks, each what one `ReadFile` returns: the lines that end in it
and how many bytes it begins of the next.  `PipeRead` is the append with the limit check,
`PipeNext` takes the next line, `PipeRun` is `ProcessCommand` as far as the server's own
state goes, and an answer is over when the client reads it (`ClientReads`) or is gone
(`PipeAnswerFails`), because `FlushFileBuffers` waits for that.

The pipe and its client are external.  Closing or disconnecting it makes the calls that
wait on it return, as the comments of `Stop` have it; a handle value is used again after
it is closed.

### EngineProcess

Processes are numbered as they are started; `alive` has those that run and `unstarted` the
objects whose `Start` threw, which the field keeps.  Windows raises `Exited` once for each
process (`raised`), on a pool thread (`RaiseExited`, then `HandleExited` once `_lock` is
free) or inside the call that notices the end first, `WaitForExit` or `HasExited`, where
the handler re-enters the lock its caller holds (`StopLock`, `StopWaited`).  `stop` is where
`StopEngineAsync` is; between `"waiting"` and `"done"` it holds `_lock`, which is what
`Unlocked` says.  `restarts` counts the delays of `OnEngineExited` that have not run out.
`notFinal` is a history variable: it marks the stops that began with such a delay under
way, or that `Dispose` overtook.

### EngineClient

Each task has the call it is in, `pc[c]`, and the pipe it reads from, `reads[c]`.  A pipe
object is `"new"`, `"open"` or `"dead"`; `pipe` is `_pipe`, and `streams` the pipe that
`_reader` and `_writer` were made on.  A command and its answer are the number of the call,
which the protocol does not have: `Read` takes the first answer there is.  `Write` is the
lock, the write and the start of the read, which the UI thread does with nothing in
between.  Every exception ends in the `catch` and the `finally`: `WriteFails`, `ReadFails`.
`ConnectBegin`, `ConnectEnd` and `ConnectFails` take no lock, and what they close or make
readers on is what `_pipe` is by then.  `UIRuns` is false while `StopEngineAsync` holds the
lock of the manager on the UI thread and, from `"ending"` on, while `OnExit` blocks that
thread: then only the call named `"stop"`, which is on a pool thread, goes on.

The exit begins once, with one exception, which `MayExit` has: when the session ends while
`TrayExit_Click` awaits the answer to its shutdown command, `_processManager` is still set,
and `OnExit` begins a second `StopEngineAsync` on the pool while the UI thread waits.  The
first one's continuation needs that thread and does not come any more.

### UserInterface

One task for each asynchronous method that may be under way: the polls of `Poll`, `init`,
`rec`, `box`, `toggle`, `refresh`, `tray` and `app` (start-up and exit).  `doing[t]` is what
the task awaits: a delay, a connection, or the command whose answer it needs; the engine carries
it out in an `Ask...` action, at which moment the answer `ans[t]` is fixed, and the task goes on with it later.  `line` is the queue of `_sendLock`.
At most two answers wait to be taken, because an answer passes through `SendCommandAsync`
and the typed command before its task goes on, and so does the next command before it
is written; without this bound the model would let a task sleep on an answer while the
others go around many times, which the UI thread's queue does not.

The engine is what its commands show: `bridge` (`capture_running_`), `targets`, and
`playing`, the targets with a live render thread.  `present` has the active endpoints.  The
view is `listed`, `flags` (rows with `IsBridged`) and `shown` (`_isBridgeRunning`); a row is
taken out and made anew by `MergeDeviceList`, and `left["box"]` is the row whose check box is
being toggled, empty once that row is gone.  `AskInVain` is a call that fails before the
engine has the command, the second disjunct of `Answers` one whose answer is lost; the null
it returns is `Null`, which `get_devices` turns into an empty list.  `set_volume` is left out:
it follows an add and changes none of these.  `chosen` and `unchecked` are history
variables: what the view had when the exit began, and what the user has unchecked.

`ConnectAsync` is shared.  `ConnectBegin` closes the pipe there is, so a task that was
connecting is `"lost"`: it fails (`ConnectFails`, which closes the pipe there is by then,
maybe that of another task), or it had just been connected and goes on with whatever pipe
there is (`Connected`).  `Tick` is the timer, which does not look whether the poll before is
over.  What takes longer than its two seconds is the `ConnectAsync` of a poll while there is no
engine to connect to, which takes three: then the next poll begins beside it, as far as there
are elements of `Poll`, closes its pipe, and both go on as they may.  That the commands of a
poll, and a connection to an engine that runs, take less than two seconds is assumed;
nothing in the code makes sure of it.  If each took longer, each tick would close the pipe of
the poll before, and nobody would ever be connected.

## 4. Runs

| run | question | states |
|---|---|---|
| `ring_buffer` | is every interleaving of a push and a pop race free and a FIFO | 4 elements, counters modulo 8 |
| `engine_calls` | all four commands, failures, one environment event | 1.6 million |
| `engine_live` | start and stop, two environment events, no failing call: does the session follow the default with no feedback and nothing lost, does every command return, does capture converge | 0.2 million |
| `channel_stream` | is what is played whole frames in order, and the ring as large as it should be | 0.2 million |
| `ipc_server` | is each handle closed once, does a shutdown end the process | 24 thousand |
| `engine_client` | does each answer reach its caller, does every call return, is a stop final, does the exit end | 0.5 million |
| `user_interface` | do the view and the bridged devices come to be what they should, does a toggle show its own result | 1.4 million |

and one run for each of the first five disagreements of section 7.

**Bounds.**  Two devices are enough for every property here: each relates one device with
the default or with one other.  `MaxTargets` is 5, the devices and the three threads: an
object is a target, or held by a thread, so a free one always exists and the bound
disables nothing.  `MaxEvents` bounds the changes of the environment: with two the
default can move away and back while the first notice is still being handled, so that what
was read and what was stored can disagree in both directions; every mutant of the
switching code is found there.  The run passes with three as well (1.1 million states), in
more time than a regular check should take.  The ring
has 4 elements and counters modulo 8, so that the counters wrap every second round while
calls of every size are under way; `PushCopy` and `PopCopy` take the elements in any
order, as `memcpy` may.

`ChannelStream` has one frame for `BUFFER_SIZE_FRAMES`, so that a ring holds four to five
frames and runs full after two packets of three, and seven frames in all: enough to fill
the ring, cut a packet, drain part of it and be cut again.  One to three channels on each side
give every case of the remapping, and with three a ring that is not a whole number of
frames.  `Requests` has the zero, each power of two, the number after it and the one before
the next, over all 64 bits.  `IpcServer` has two connections and up to three chunks in each,
a limit of two bytes where the code has `MAX_MESSAGE_SIZE`, and one handle value more than
can be open.

`EngineClient` has two tasks and two connectors on two pipes and three calls: a call can be
under way on one pipe while the other is connected, with a third call, the shutdown of the
exit or another task's, waiting for the lock.  One restart is enough for a crash, a
restart, and a second crash that must not be repaired.  The theorems hold for any number.

`UserInterface` has one device: no command or row depends on another device, and the loops
over several devices are one command after another for each.  `Moves` are the kinds of
things that the user, the devices, the engine and the connection do by themselves, and
`MaxMoves` is how many of them happen: two, of every kind.  An unplug and a plug, a click and a
lost connection, two clicks, or a crash, which counts for two because `InitializeAsync` comes
with it as one more task.  Before, between and after the moves every task goes around as often
as it likes.  An add may fail at any time and the session may end at any time, and neither
costs a move; `MaxRetries` is 3, as in the code, so a device is tried again after a failed add,
after its wait, and succeeds or uses the budget up.  `Poll` has one element: `ConnectAsync`
calls overlap in the run as those of the poll and of `InitializeAsync`, which goes on with
the same two commands.

**More configurations.**  A few `.cfg` files are beside the runs, each for one question that a
regular check need not ask again:

| file | module | shows |
|---|---|---|
| `MCPolls.cfg` | `UserInterface` | two polls that overlap, and `InitializeAsync`, through two crashes or lost connections: `ViewConverges` holds (0.8 million states).  The reconnect service is off (`AutoReconnect`, which `OnStartup` reads from the settings before it starts the service); with it on, one crash and no other move take 2.7 million states, and both liveness properties hold |
| `MCGivesUp.cfg` | `UserInterface` | `ReaddedWhenBack` is violated (section 7) |
| `MCUncheckIgnored.cfg` | `UserInterface` | `UncheckDrops` is violated (section 7) |
| `MCFeedsBack.cfg` | `MCAudioEngine` | `NoFeedback` is violated when commands add devices (section 7) |
| `MCShifted.cfg` | `MCChannelStream` | `ZeroFilled` is violated (section 7) |

**Symmetry and view.**  With one format for all devices (`OneFormat`) the two devices
are interchangeable.  `ControlView` leaves out `wanted`, `format`, `chosen` and
`captureFormat`: no guard depends on them and no other variable is computed from them, and
the properties of `engine_live`, the one run that uses the view, do not mention them.  `format_mismatch` uses two formats and
no symmetry; runs whose property mentions `wanted` use no view.

**Deadlock** is checked in every run except those of `IpcServer`, `EngineClient` and
`UserInterface`, where the process or the application ends.
Of the engine: with the environment's budget spent a command can still arrive, so a state
with no step would be a real one.

**Fairness** (`engine_live`).  `CtlStep`, `NtfStep`, `CapStep` and `RenderStop` are weakly
fair: the operating system goes on running every thread that can run, and a blocked
thread is one whose step is disabled (a join, a mutex held by `Stop`).  Strong fairness is
not needed: the only mutex held for long is released for good.  No command, failure or
change of devices is ever owed.  `EveryCommandReturns` then says that the joins inside
`Stop` and `RemoveRenderDevice` end, and `CaptureConverges` that a bridge that keeps
running, while the default stays where it is, ends up capturing from it.

In `ipc_server` the two threads, `MainStep` and `PipeStep`, are weakly fair and the client is
not: `ShutdownCompletes` must hold for a client that neither reads its answer nor leaves, and
it does because `Stop` disconnects it.

In `engine_client` each caller (`CallStep`), the engine's answers, the pool (`PoolStep`) and the
exit (`ExitStep`) are weakly fair: an awaited operation of Windows completes or fails, and a
continuation that can run is run.  `ConnectAsync` needs no fairness: a caller never waits for
it.  `ExitCompletes` holds because `OnExit` waits three seconds and no longer; under that
limit lies a real standstill: a command in flight holds `_sendLock`, its continuation needs
the UI thread, and that thread is in `OnExit`, so the shutdown command is not sent before the
limit.  `EveryCallReturns` is about the time before the exit.

In `user_interface` each task is weakly fair, the timers included, and so is the restart of
the engine, which `CrashRepaired` justifies.  `_sendLock` is first come, first served
(`SemaphoreSlim` with asynchronous waiters, all on one thread), so weak fairness of a task
is enough for its commands to be carried out.  The properties allow for the end of the
application.  They are stated as `<>[]`, which the bound on the moves makes sense of: once
nothing happens by itself any more, what should be is reached and stays.  `ReconnectConverges`
leaves out what the code does not do: a device that the user has unchecked since the settings
were saved, and one whose retries are used up.  What the documents promise of these is
`UncheckDrops` and `ReaddedWhenBack`, and neither holds (section 7).

**What failures change.**  `engine_calls` has them for the safety properties, which must
hold whatever fails, and the proofs cover `CaptureFollowsDefault` and
`NothingParkedLost` with failures too.  `NoFeedback` is a promise only about calls that
succeed: if the wait of the capture loop fails while an auto-bridge is being set up, the
session reopens on the new default before the callback has run, and nothing looks at the
targets again.  Convergence, too, is owed only while the calls succeed.  And in `engine_live` `NoFeedback`
is checked for a bridge that the user only starts and stops, since a command that adds a
device breaks it (`MCFeedsBack.cfg`, section 7).

## 5. Proofs

Each theorem holds for every value of the constants that meets the named assumption of its
module (`CapacityAssumption`, `CallerAssumption`, `DeviceAssumption`, `EngineAssumption`,
`IpcAssumption`, `WordAssumption`, `StreamAssumption`, `RestartAssumption`,
`ClientAssumption`, `UIAssumption`): a ring smaller than the range of its counters and
dividing it, an empty id that is no device's, a mix format for each device, bounds that are
natural numbers, no task named like the exit and no poll like another task.  What a theorem assumes beyond that is in its
own `ASSUME`, and is said below.

**Ring buffer.**  `RingInv` is the type invariant together with three facts: the samples
a push has claimed fit beside the unread ones and a pop claims only unread ones
(`NoOverrun`, which stays true however old the loaded index is, because the other side
only ever makes more room), the copies done so far are still in place (`CopiedOk`), and
what is pushed is a prefix of the caller's data (`PushOk`).  None is inductive without the
others: that copies stay in place needs disjoint slots, disjoint slots need the bound.
`TypeCorrect`, `Bounded` and `CopiesStay` are parts of it, `RaceFree` follows from the bound, and in
`ImplementsQueue` the queue is read off the elements from `tail` to `head`: `PushEnd` and
`PopEnd` are the steps of the queue, all others stutter.  `ModularArithmetic` has the
facts about `%` that reasoning about wrapped counters needs.

**Engine.**  `IInv` is inductive; none of the checked invariants is by itself.  Its parts:

* `Ownership`: an object that exists is a target, or in the hands of exactly one call.
  Without it `JoinedBeforeDestroyed` says nothing of the objects that are not alive, and
  a destroyed object could be a target.
* `StopJoins`: under the lock, the targets `Stop` is done with have no running thread.
* `ReservedIsFree`: from the duplicate check to its push, a call's device has no target;
  with `ReservationsMatch` this makes `NoDuplicateTargets` inductive.
* `IdsGiven`: where ids go into a container they are ids of devices.
* `Protocol`: which command the pipe thread is in, and that a start knows of no capture
  thread; it makes `NoTerminate` inductive.
* `Parked`: ids are parked only between a teardown and the next session.
* `Follows`: while a session is open, each change of the default since is a notice to
  be delivered, a callback under way, or a restart request.

There is one lemma for each part and each shows that every group of steps keeps it; for
most groups the argument is a frame, what a step outside the part's concern leaves alone.
`TypeCorrect`, `ReservationsKept`, `OneTargetPerDevice`, `ThreadsJoined`,
`NeverTerminates`, `ParkedIdsKept` and `SessionFollowsDefault` follow.

`NeverFeedsBack` has an invariant of its own on top of `IInv`, `FeedbackInv`, and is stated
for `~Failures` and no `"add"` among the commands: both are ways in which `NoFeedback` does
break (sections 4 and 7), so no proof can do without them.  `"remove"` is allowed, which
the run leaves out.  A default device that is bridged is harmless while a callback has still
to look for it (`Covered`: a notice, or the callback up to its removal).  `NoticeKnows` says
that the callback does look for the default of now or that another will, `StartLooks` that a
start removes such a target itself before the bridge runs, and `SessionLooks` follows the
capture thread: it reopens with no uncovered target on the default, because what a teardown
collects is added again with the check of `AddRenderDevice`, and what it adds on
a device that becomes the default in between has an `Alert`, a callback or a restart still to
come.  `Uncovered` is the step that counts: only the capture thread's own push can
make an uncovered target out of none.

**IPC server.**  `OneCloser` says that an open handle has exactly one of three closers: the
pipe thread, `Stop`, or whoever takes it out of `current_pipe_`.  It becomes inductive with
`Current` (the thread never publishes a handle over another) and `HasHandle` (who works on a
handle has one).  `CleanExit` follows from it: when the thread has returned and main is past
its own close, no closer is left, so nothing is open.  `Finishing`, that after a shutdown the
thread is on its way out, gives `NoCommandAfterShutdown`.

**Capacity.**  `SmearFills`: if the n highest bits up to the highest one are set, a shift by
n makes it 2n; six shifts make it 64.  The rest is the carry, and the case of a request that
is a power of two, for which the decrement is there.  The theorems of `ChannelStream` assume
the width to be 64, as the six shifts do.  From there the capacity is a number again
(`ValueOfPower`): a positive power of two for any request below 2^31
(`CapacityHolds`), which is each request that `BUFFER_SIZE_FRAMES` and a 16-bit channel count
make (`SourceFormats`, a hypothesis of `RingGivesHeadroom` only).

**Stream.**  `TypesHold` has the bound of the ring in it: `push` takes what fits beside what
is there, and the render thread only makes room meanwhile.  `StreamInOrder` needs more than
the order of what was played: `OrderInv` orders the device, the ring and the packet being
pushed, each by itself and each pair of them, and says that none has a frame later than the
last captured one; then a packet of later frames may be pushed and what is popped may
be played.  `FramesStayWhole` is about a ring whose capacity is a multiple of the channel
count.  `FrameInv` says that the lengths of all three, and what a push or a pop has found room
or samples for, are multiples too, so that what moves moves by whole frames
(`FrameShift`), and every sample stays in the slot of its channel beside the others of its
frame.  `CutOnlyWhenFull` gives `Headroom`: a push that falls short has filled the ring, which
is as large as was asked for.

**Engine process.**  `EngineIsHeld` and `StopIsFinal` rest on one fact: of a live process, an
unhandled exit and a delayed restart there is at most one at a time.  A process that is held
can exit (`ExitAlone`: while its exit is unhandled nothing runs), its exit is handled once
and gives up the hold, that may leave one delayed restart (`RestartAlone`: no process is held
and no exit unhandled), and that starts the next.  `OnlyHeldSubscribed` is why the exit of an
older process cannot clear the field of a newer one, `FinalStop` why nothing starts after a
stop, and `WaitsForIt` and `KilledIt` follow the stop through its lock.  There is one lemma
for each step and one proof step for each part.

**Client.**  Each step of the composition is a step of the manager or leaves it alone: it is
written so, and `ClientImplementsProcess` is only the lemma by which both theorems above
carry over.  `AnswersMatch` is not inductive: it
says nothing of an answer that no one reads yet.  `OneInFlight` does: a pipe with a live
engine at its other end holds nothing, or one line, and then of the task that reads from this
very pipe.  A task gives up its read only when the pipe is of no more use
(`ReadFails`); `LockHeld` makes the reader unique; `NewEmpty` and `Fresh` start a pipe with
nothing in it.  It needs `NoRevival`, that the engine of a dead pipe is never alive again,
from the manager.

**User interface.**  `TypeOK` of this module says more than types: attempts stay within
`MaxRetries`, the queue holds only tasks that wait for a command, and no row is checked that
is not shown.  `UIInv` adds what makes it inductive: a task is in the queue once (`Once`), so
that it is out of the queue when it goes on (`TakenOut`, `ProceedOK`); the row of a
check box is a row that is shown, so that its answer checks no other; and the device
that the reconnect service adds, now or after its wait, is not one it has still to try, and
none of them is given up (`RetriesOK`), so that a failure counts below the limit.  `ToggleIsShown` proves the
step property `ToggleShowsResult` from `ToggleInv`: the command of the button is
the one its label asked for, and the label is still that of the click, because
`RefreshStatus` leaves it alone while `_isToggling`.

**Only model-checked**: the liveness properties (`EveryCommandReturns`, `CaptureConverges`,
`ShutdownCompletes`, `EveryCallReturns`, `ExitCompletes`, `CrashRepaired`, `ViewConverges`,
`ReconnectConverges`), since the prover has no rule for fairness.  The five runs that expect
a violation state what is false.

## 6. Where the hazards are covered

`PROJECT.json` names for each hazard the property that would catch it.  Some of what the
checks rest on, as an example of how much depends on a single line: clearing the restart
flag after the device is opened instead of before loses a switch
(`CaptureFollowsDefault`); releasing a reservation on the way out of only the successful
call blocks a device for good (`ReservationsMatch`); starting the bridge without joining
a capture thread that ended by itself ends the process (`NoTerminate`); a failed read that
keeps `_sendLock` freezes the user interface (`EveryCallReturns`); a status that is applied
while the button's own command is under way makes the label flip the wrong way
(`ToggleShowsResult`).

## 7. Where the code and its comments disagree

Each is something TLC finishes with a counterexample; the first five are runs.

1. `format_mismatch`: a stream opened while no capture format is published gets the
   device's own format, and stays so when the bridge starts on a device of another rate;
   only targets parked by a restart are opened again.  This is the usual order of things,
   since the user interface restores its devices before it starts the bridge.
2. `removed_device_returns`: `RemoveRenderDevice` looks in `targets_`; while a restart has
   the ids in its own list or in `pending_reinit_ids_` it finds nothing and succeeds, and
   the restart adds the device again.
3. `stop_hangs`: a `Stop` that comes between the creation of a pipe and the store of its
   handle closes nothing, and joins a thread that goes on to wait for a client.
4. `exit_loses_devices`: the exit from the tray saves the devices, stops the bridge, and saves
   them again in `OnExit`.  A poll whose `get_status` is carried out between the stop and the
   shutdown finds no active device and clears every row, and the second save writes an empty
   list over the first.  The comments at both places say that exactly this is prevented; what
   is prevented is a tick after `OnExit` has begun, not one before.
5. `device_stays_silent`: when a bridged device is unplugged its render thread ends, but its
   target stays in `targets_` and in the answer to `get_status`.  When the device is plugged in
   again the reconnect service finds it active and does not add it; it is silent until the
   bridge is stopped, or captures in a new session.
6. `MCGivesUp.cfg`: only an add that succeeds gives a device its retries back.  One whose
   three adds failed is not tried any more, also when it was unplugged and is plugged in again,
   which is what the service says it is there for.
7. `MCUncheckIgnored.cfg`: unchecking a device removes it from the engine and not from the settings.
   The reconnect service finds a saved device that is there and not active, and adds it again
   within two seconds.
8. `MCFeedsBack.cfg`: `AddRenderDevice` compares the device with the default before it opens it,
   which takes long.  If the default moves to the device in between, the target is pushed after
   the callback has found nothing to remove, and the bridge renders to the device it captures
   from.  That is why `engine_live` and `NeverFeedsBack` leave the command `"add"` out.
9. `MCShifted.cfg`: a ring's capacity is a power of two, which three or six channels do not
   divide, and `push` takes what fits.  Once the ring has run full, part of a frame is pushed and
   the rest of the stream comes out on other channels, those that `audio_engine.cpp:619-620`
   zero-fills included.  With one, two, four or eight channels `WholeFrames` holds, which is
   about rings that hold whole frames.

Seen while modelling, without a run of its own:

* `StoppedHasNoTargets` fails under `MCEngineLive.cfg`: the callback checks that the bridge
  runs, `Stop` runs to its end, and the auto-bridge then adds a target to the stopped engine.
* `AddRenderDevice` answers true for an id in `pending_ids_`, also in the moment between
  the push of a target and the return of the call that pushed it.  If a restart removes
  that target and comes to add it again in that moment, nothing is added.
* `capture_device_id_` is stored from `new_default`, read at the start of
  `CheckAndRemoveDefaultDevice`, by `Start` on one thread and the callback on another.  The
  older value may be stored last; the next change of the default then bridges the wrong
  device.
* The shutdown is recorded before its answer is written, so main may disconnect the client
  before it has read the answer; the user interface takes a broken pipe there for an answer.
* The render loop writes `float` samples whatever the format of the stream.  Shared-mode
  mix formats are `float`, so this does not matter in practice.
* If `WaitForExit` is the call that raises `Exited`, the handler sets `_engineProcess` to null
  under its caller, which dereferences it next; from the tray nothing catches that
  (`ExitCrashes`).  An object whose `Start` threw stays in the field, and `HasExited` then
  throws in the next `StartEngine`: a failed restart is the last one.
* A restart that is delayed when the stop begins runs after it and resets
  `_intentionalShutdown`: the exception `notFinal` of `StopIsFinal`.
* Devices chosen since the settings were last saved are not bridged again after a crash of
  the engine, and a settings check box saves the devices as the view shows them at that
  moment, which right after a crash, or before the devices are restored, is none.
* A `get_devices` that fails empties the list of devices until the next poll.
* `SaveCurrentSettings` writes `AutoReconnect = true` whatever the file had, so a service that
  the file turns off is on again at the start after the next save.
* `BackoffMs[0]`, 100 ms, is never used: the delay is looked up after the first failure.

## 8. What is not modelled

* The value of a sample: 16-bit conversion, resampling by Windows.
* The commands that change nothing of the program (`get_devices`, `get_status`,
  `set_volume`) and the parsing of JSON; in `IpcServer` they are the command `"other"`.
  What the first two answer is in `UserInterface`.
* The engine behind `UserInterface` is what its commands show of it: `AudioEngine` and
  `UserInterface` are not composed, because each has as many states as TLC can take.
* Of the user interface: XAML, property plumbing, the status text, the registry entry for the
  start with Windows, the single instance and the kill of older instances, failures of the
  settings file, and two check boxes toggled at once (each row has its own flag, and the
  commands queue for the one lock).  After two crashes within a second two calls of
  `InitializeAsync` may be under way; the model has one, besides the polls.
* The vendored `json.hpp` (nlohmann::json, a copy of a published library): 24,765 of
  the 26,711 lines of C++ in `src/`.  It is called to parse one line and to write one, keeps no
  state, and is abstracted by what a command or an answer says.  A share of the lines of the
  whole tree therefore says little here: of the engine's own files with logic most lines
  are modelled, and of the user interface the files named in section 3.
* Volume, logging, text encoding, the pipe's security descriptor: system calls or pure functions with no state of the program.
* Memory reclamation of COM objects, thread priorities, latency.
