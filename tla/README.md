# racecam in TLA+

A specification of racecam, the multi-camera race recorder: a daemon that,
driven by a switch, takes frames from one or more libcamera cameras, encodes
them, and writes them to files, displays and YouTube. The modules model the
parts of the program where threads, callbacks, failures and files that outlive a
process meet: the packet queue and its network writer, the requests of the
cameras, the encoders and muxers, the daemon, a session of the command line tool
with its logs and its YouTube broadcasts, and the configuration editor. TLC checks
them on small instances, and TLAPS proves their safety properties, and that they
implement what four abstract specifications promise, for every instance.

## 1. The system

### Components, their state and their operations

| Component | Source | State | Operations |
|---|---|---|---|
| Packet queue | `core/rcam.hpp` `PacketQueue` | `queue_`, `currentState_`, `shutdown_`, the waiters of `cv_` | `push`, `pop`, `flush`, `shutdown`, the congestion callback |
| Network writer | `core/rcam.hpp` `NetworkWriter` | a queue, `running_`, `targetrate_`, a worker thread, a pointer to the muxer context | `start`, `stop`, `enqueuePacket`, `networkLoop`, the lambda of `setRate` |
| Camera requests and message queue | `core/rcam.cpp`, `MessageQueue` in `core/rcam.hpp` | `rcams_[i].stat`, `rcams_[i].req`, `msg_queue_`, `stop_threads_`, `camera_stop_mutex_` | `startCams`, `makeRequests`, `requestComplete`, `videoThread`, `queueRequest`, `stopCams` |
| Camera configuration | `core/rcam.cpp` `initCams`, `freeCams` | `rcams_[i].stat`, the cameras acquired, allocated buffers | acquire, configure, allocate, map, release |
| Outputs, encoders and muxers | `core/rcam.cpp` | `outputs_`, `output_ready_`, `format_opened_`, encoder and filter contexts, the audio thread | `initOutputs`, `initVideoStream`, `initAudio*`, `openFormat`, `encodeFrame`, `audioThread`, `freeOutputs` |
| Capture daemon | `apps/racecamd.cpp` | `RunProgram`, `Capture`, the blink thread, the input device | `main`, `wait_read`, `sig_handler`, `blink` |
| Command line capture | `apps/racecam.cpp` | a log, one `RCam`, a deadline | one capture, until the time is up or a signal comes |
| YouTube client | `core/youtube.cpp` | the token file, broadcast, stream and binding | authorise, refresh, start and stop a broadcast |
| Configuration editor | `core/rcamcfg.cpp`, `core/rcamcfg.hpp` | the JSON tree of cameras, outputs and layers, `StrmMap` | the menus, `free`, `used`, loading and saving |
| JSON files | `core/jsonio.cpp` | the files under the command line's directory, HOME and /etc | `jsonRead`, `jsonWrite` |
| Logger | `core/logger.hpp` | the open stream, the generations on disk | `Log`, the rotation at start |
| LED, DMA heaps, message tables | `core/led.hpp`, `core/dma_heaps.*`, `core/*_map.hpp`, `util/` | none of their own | thin I/O and generated tables |

### How they interact

The **main thread** runs the daemon's loop. A release of the switch toggles
`Capture`; `InitCapture` configures the cameras (`initCams`), makes the outputs
and starts their threads (`initOutputs`), then starts the cameras
(`startCams`). `FreeCapture` undoes it: `stopCams`, `stop_threads_`,
`freeOutputs`, `freeCams`.

**libcamera's thread** calls `requestComplete` for each finished request. It
posts a message on `msg_queue_` whose payload is a `CompletedRequest`, a shared
pointer with `queueRequest` as its deleter. The **video thread** takes the
message, runs the frame through the filters and the encoders and lets the
message go; the deleter then queues the request in its camera again. `stopCams`
takes `camera_stop_mutex_` around `Camera::stop`, inside which libcamera's thread
cancels what is queued, then clears the shared message queue and destroys the
requests.

The **video and audio threads** hand encoded packets to the muxer of each
output under `output_mutex_`. An output that is streamed to YouTube puts a
**network writer** between: `push` never blocks, a **worker thread** pops and
writes. Crossing a watermark of the queue runs a callback, in the thread that
crossed it and after the queue's mutex is released, which switches the target
bit rate. A **blink thread** toggles the LED while `Capture` is set, and **signal
handlers** clear `RunProgram` and `Capture`.

`initOutputs` and `freeOutputs` call the **YouTube client**, in the main thread and
while the cameras are acquired: each call is a series of requests, every one of
which may throw. The client keeps its token in a file that is read and written
through `jsonRead` and `jsonWrite`; so does the **editor** with the configuration
that the next capture loads. Both choose among several directories, by different
rules. The **logger** renames the logs of earlier processes when a process starts.

### Where it is hard

* Interleaving: producers, worker and closer share one condition variable; the
  callbacks of two threads share `targetrate_`; the video thread and the main
  thread both run `queueRequest`, one of them under the message queue's mutex.
* Order at the end of a capture: cameras, requests, messages, encoders, muxer
  contexts and the writer's worker are torn down by one thread while the
  others are still at work.
* Failure: a camera that does not start or stop, a device timeout, an encoder
  that throws, a muxer that fails, a signal at any point, between any two accesses
  to a shared variable.
* What outlives a process: a token's file truncated before it is written, logs
  renamed one at a time, a broadcast at the server whose number was lost.
* Positions used as names: a layer names its camera by its position among the
  configured ones, which other menus change.
* Blocking: `cv_.wait`, `MessageQueue::Get`, `Camera::stop`, four joins, and
  `read()` on the switch.

### What makes each component correct

* Queue: never over capacity; state and fill level agree up to the hysteresis;
  nothing accepted is lost, repeated or reordered; no lost wakeup.
* Writer: the packets reach the muxer in order and once; `stop` drains and ends;
  the target rate is the one of the queue's state.
* Requests: a request is queued only in a camera that runs; no message names a
  destroyed request; no request silently leaves circulation; the end of a
  capture ends.
* Libraries: libcamera and FFmpeg each have an order of calls the program must keep
  to, through every teardown.
* Nothing hangs: no circle of mutexes, `Get()` and joins.
* Daemon: the switch and the capture agree, whatever failed before; a signal
  ends an idle daemon and none ends it in mid capture; a failed capture is not
  retried by itself.
* Outputs: a packet enters a muxer between its header and its trailer and never
  with another thread inside it (which an output with a worker does not keep to once
  the trailers begin); no audio is lost between two frames; at the end
  nothing is left in an encoder; both threads and the workers end, with and
  without video.
* YouTube: a token outlives the requests it is used for; polling lasts as long as
  the device code; an open broadcast is known to the program, or a failure it
  could not see past cut it off; a broadcast is opened and completed once, while
  no camera runs.
* Session: whatever failed, the end of a capture holds no camera. Logger: the
  generations stay in order of age, even after a rotation that was cut short, and
  none but the oldest is forgotten.
* Editor: sources follow their cameras; the counts of `StrmMap` agree with its
  labels; every list of layers gives a graph that connects; what is saved is what
  loads.

## 2. The modules

| Module | Models | Kind |
|---|---|---|
| `PacketChannel` | what the output queue promises: a bounded FIFO channel that can be closed | abstract specification |
| `CameraContract` | in what order libcamera wants its cameras and requests used | abstract specification |
| `MediaContract` | in what order FFmpeg wants its encoders and muxers used | abstract specification |
| `Switch` | what the daemon promises who uses the button | abstract specification |
| `PacketQueue` | `class PacketQueue` | component, refines `PacketChannel` |
| `NetworkWriter` | `class NetworkWriter` with the encoders and the main thread that use it; extends `PacketQueue` | composition |
| `Capture` | requests, messages, video thread, `startCams`, `stopCams` | composition of three threads, refines `CameraContract` |
| `Daemon` | `apps/racecamd.cpp` | component, refines `Switch` |
| `Outputs` | `initOutputs`, video and audio thread, `encodeFrame`, `openFormat`, the workers of the network writers, `freeOutputs` | composition of the three threads and a worker per YouTube output, refines `MediaContract` |
| `JsonFiles` | where `jsonRead`, `jsonWrite` and `getPath` look and write | operators |
| `Logger` | the constructor of `class Logger` | component |
| `YouTube` | `class YouTube`, with the server, the clock and the token's file; uses `JsonFiles` | component |
| `Session` | `apps/racecam.cpp`, one process after the other; extends `Logger` and `YouTube` | composition |
| `Editor` | the menus of `rcamcfg`, `StrmMap`, and the graph `initVideoStream` builds; uses `JsonFiles` | component |
| `PacketQueue_proofs`, `NetworkWriter_proofs`, `Capture_proofs`, `Daemon_proofs`, `Outputs_proofs`, `Session_proofs`, `Editor_proofs` | theorems about the module they are named after | proofs |
| `MC*` | small instances | model checking |

Operators named `X_Y` next to an operator `X` (`HasRoom_OffByOne`) are plausible
mistakes in the code behind `X`. No specification uses them; they are kept to
confirm that each property fails when the code has the mistake.

### PacketQueue

One action per critical section of `mutex_`. The state is that of the class.
`waiting` is the set of threads blocked in `cv_.wait`: `notify_one` removes a
member of its choice, `notify_all` all of them, `SpuriousWakeup` is the wakeup
C++ allows, and a thread outside the set tests its predicate again. The callback
runs after the unlock, so it is a step of its own: `callback[t]` is the local
`callbackToExecute` of thread `t`, and its return is the return of `push` or
`pop`. Packets are the numbers 1, 2, ... in the order of the calls of `push`.
`PushRefuses` is enabled even when there is room, for `av_packet_ref` may fail.
The variables `accepted`, `popped`, `dropped` and `overlapped` are history.

### NetworkWriter

Adds the worker (`networkLoop`), the encoders (`encodeFrame` holds
`output_mutex_` through `enqueuePacket` and its callback), and the main thread from
`initOutputs` to the destructor, in the code's order: join the encoders, write
the trailer and free the contexts, then `stop()`, then the destruction. The
callback of `setRate` is two steps, the load of `targetrate_` and the compare and
store. `kind` says whether the writer belongs to a composite output (started) or
a raw one (made, never started). A write to the context after it has been freed is
undefined behaviour: it may return or end the process.

### Capture

Three threads and two mutexes. `place[r]` is where request `r` is, from `fresh`
through `camera`, `completing` (in `requestComplete`), `queue`, `video` and
`requeueing` (in `queueRequest`, mutex held) back to `camera`, or to `idle` when
nothing but `rcams_` owns it. `Camera::stop` is a stage of main
(`draining`) with `camera_stop_mutex_` held, during which requests complete
or are cancelled. `Clear` runs the deleters one at a time under the queue's mutex
(`clearing`). Reading the cookie of a destroyed `Request` is undefined behaviour: the
old value or the end of the process. Frame contents, controls and buffers
are left out. `Throws` is an exception in a stretch of code from which it
cannot be caught.

`ObeysContract` maps the state to `CameraContract`: a camera is `stopping` while main is
in `Camera::stop`, listens while `requestComplete` is connected, and has the requests at
`camera` and at `completing`, for `requestComplete` is called inside libcamera. The
contract forbids what libcamera answers with an error or
with a use after free: to queue in a camera that is stopped or being
stopped, to queue twice, to destroy a request the camera has.
`NeverStuck` says for each stage of `FreeCapture` that main can go on, or that the
thread it waits for can. What a thread waits for is written out in `MainCanStep`,
`VideoCanStep` and `CamerasCanStep`, the guards of its actions, since `ENABLED` is out of the
prover's reach.

### Daemon

The steps of `main` and `wait_read`, the blink thread, the input device and the
signal handler, which may run between any two steps and makes `read()` fail only
if it finds the thread blocked in it. The test of `RunProgram` after `read()`
(`Woken`), the load of `Capture` (`Load`) and its store (`Toggle`) are three steps, so
a signal may come between any two. `InitCapture` and `FreeCapture` succeed or throw;
the throw that ends the process is in `Outputs` (`Throws`).

`Mode` reads the stage of the loop as a mode of `Switch`: idle, asked (a release was
taken, `InitCapture` not yet done), capturing, stopping, ended. Every step in which the
daemon does something a user can see is a step of the switch; it takes an event only
while it is idle or captures. `Switch` has a safety half, `SwitchSafety`, and a
progress half, `Answered`: what was asked for happens or fails and what is being stopped
stops, until the daemon is told to end. Nothing is promised of the progress
of a daemon that was told: if the signal comes between `Woken` and `Load` of the
release that ends a capture, `Capture` is turned on again, the blink thread never leaves its
loop and main waits for it for ever (`TurnedOnAgain`, the one exception of `ReleaseStopsCapture`).

### Outputs

`main` makes the outputs one at a time, starts the threads and, at the end of the
capture, follows the code's order: join audio, post `Quit`, join video, write the
trailers and free the contexts one after the other, then `stop()` each started writer.
`at[t]` is where thread `t` is, in its own loop or in `encodeFrame` (`feed`, `receive`,
`opening`, `lock`, `writing`). An encoder is an output and a stream in it;
`VideosOf` stands for the calls of `initVideoStream`, each of which makes exactly
one encoder. Frames and packets are counted: `held[e]` is how many frames encoder
`e` keeps, `fifo` how many samples wait.

A write into a muxer is two steps, so that TLC sees a thread inside: an encoder's with
`output_mutex_` held, a trailer's in main, a worker's with no lock. The header
is written by `OpenFormat` without the mutex, as in the code. Where the output has a
`NetworkWriter` an encoder only calls `enqueuePacket` (`Enqueue`), which may be refused at
capacity or after the shutdown; the worker pops (`WorkerPops`) and is then inside the
muxer until it `WorkerWrites`. `waiting[o]` is the length of the queue, `worker[o]` the
stage of the thread, `shut` the queues whose `flush()` has begun. `StopQueue` finds the queue empty
or falls asleep; from there only `FlushWakes`, a spurious wakeup, leads on. The inside of a
writer (watermarks, rate, wakeups, callbacks) is the module `NetworkWriter`'s.

The 250 ms in which the audio thread discards what it reads after the cameras start
are a choice (`recent`): real time is not in the model. `InitFails` stands for every
throw of the set-up, `Throws` for an exception in a thread or in `startCams`, which is
`std::terminate`, and for the crash a late write of a worker may be. `cut` and `lost`
are history: samples dropped between two frames, and the outputs that lost a packet.

`ObeysFFmpeg` maps it to `MediaContract`: `Inside` is the set of the threads in
a muxer (an encoder thread from `opening` or `writing`, a worker while it writes),
`drained` the encoders that have had the null frame. The contract forbids a frame for
an encoder that still has packets to give, a frame or a second null after the null
frame, a packet before the header or after the trailer, two threads in a muxer, and
trailers while an encoder holds a frame or somebody is inside. It makes one exception,
because the code does: what the worker of a `streamed` output does from
that output's trailer on. Until then the worker is held to the contract like the rest.

### Session, Logger, YouTube, JsonFiles

`main` follows `apps/racecam.cpp` from the log to `FreeCapture`; a process may die at
every step (`Dies`), and what survives it is what is on disk and at the server: the
logs, the token's file, the broadcasts. `stat` and `acquired` are the cameras; every
step of `initCams`, `startCams` and `stopCams` may throw, and the destructor of
`RCam` frees what was acquired. One rename is one step of `Logger`.

`YouTube` is a call, a stage in it and an answer. A request fails, or succeeds
and its answer is lost; `Tick` is time passing, which it does in any stage. A token
is the time at which the server refuses it, and the age of its file is what the code
decides a refresh by; `AuthFile` has a modification time and a state, because the
file is truncated before it is written. `JsonFiles` is where files are looked for:
`jsonRead`, `jsonWrite` and `getPath` have three different rules. `orphans` is
history: the broadcasts whose number a failure or a death cut off.

### Editor

One action is one choice in a menu with everything it asks for. `cameras` is the
order of the members of `/Cameras`, in which `erase` moves the last member into the
place of the erased one (`EraseMember`). A source is a number, twice the position
of the camera plus the stream (`CamStrm`). Of a layer the model keeps its source and
whether it has an overlay, and, as history, the camera it was chosen for.
`Filters` and `Links` are the graph that `initVideoStream` builds of the list. Of a
file the model keeps whether it is absent, older, or what was last saved. Leaving
without saving ends the behaviour (`dead`), since nothing that follows depends on it.

## 3. What the runs check

Runs that pass:

| Run | Instance | States | Shows |
|---|---|---|---|
| `packet_queue` | 2 producers, capacity 5, watermarks 3 and 1, 7 packets | 20505 | `Hysteresis`, `NothingLost`, `WorkerSleepsOnlyWhenIdle`; `PacketQueue` implements `PacketChannel` |
| `network_writer` | 2 encoders, capacity 3, watermarks 2 and 0, 4 packets | 10572 | `WriterKeepsOrder`, `StopDrains`, `RateFollowsUnlessOverlapped`, `OnlyFlushHangs`; every accepted packet of a composite output is handled; an idle writer stops |
| `capture` | 2 cameras, with 2 requests and 1 | 9861 | `OnlyTimeoutsIdle`, `OnlyVideoHoldsDestroyed`, `NeverStuck`; `Capture` implements `CameraContract`; no deadlock; `FreeCapture` ends; a completed request comes back |
| `daemon` | 5 button events | 4476 | `Daemon` implements `Switch`, its safety and its progress; a release ends a capture, a signal ends an idle daemon |
| `outputs` | 4 configurations, with and without audio, an encoder delay of 1, a FIFO of 5 samples, reads of 3, frames of 2, writers' queues of 1 packet | 430583 | `AudioIsGapless`, `EncodedIsWritten`; `Outputs` implements `MediaContract`; `FreeCapture` ends, whether or not there was ever a frame, unless it hangs in `flush()` or the process is terminated |
| `session` | 2 cameras, 4 processes, 2 generations, 2 broadcasts, a clock of 6 poll intervals | 1133005 | `TokenIsFresh`, `PollingOutlastsCode`, `LogsInOrder`, `CamerasReleased`, `OpenBroadcastIsKnown`, and of every step `OnlyOldestForgotten` and `BroadcastLifecycle`, with a death at every step |
| `editor` | a CSI and a USB camera, 2 layers, 1 raw stream, 3 installations | 780006 | `StrmMapAgrees`, `SourcesFollowCameras`, `GraphConnects`, `SavedIsWhatLoads` |

Runs that end in a counterexample, each to a property a comment or document of
the repository states:

| Run | The code |
|---|---|
| `late_write` | `freeOutputs` frees the muxer contexts before it stops the worker that writes to them (`rcam.cpp:384-403`) |
| `stop_ends` | `flush` waits for an empty queue, but `pop`, which empties it, notifies no one; only a spurious wakeup ends the wait (`rcam.hpp:204-236`) |
| `late_delete` | `stopCams` destroys requests one of which the video thread may hold; its cookie is read afterwards (`rcam.cpp:598,706,1093`) |
| `signal` | a signal outside a blocked idle `read()` does not end the daemon until another event comes (`racecamd.cpp:84-86,205`) |
| `timeout` | a request that times out in a running camera is not queued again and no restart is attempted, though the log says so (`rcam.cpp:657-663,691-694`) |

Three more departures from what the repository says have no run of their own. The property that
holds names each as its exception, and fails without it:

* `RateFollowsUnlessOverlapped`: the Slow callback of a `push` and the Normal callback of
  the `pop` after it run unordered outside the queue's mutex; the older one may store last, and
  the rate stays slow while the queue is normal (`rcam.hpp:284-296`; `rcam.hpp:162` wants the
  callback "to handle changes in network congestion status").
* `ReleaseStopsCapture`: a signal after the test of `RunProgram` and before the load of
  `Capture`, for the release that ends a capture, turns `Capture` on again: the blink thread
  never ends and main waits for it (`racecamd.cpp:86,105,198`; the README says that the daemon
  "Starts and stop capture thru GPIO switch").
* `FreeCaptureEnds`, of `Capture` and of `Outputs`: an exception of `startCams` or `stopCams`
  destroys joinable threads, and one in a thread has no handler; both are `std::terminate`,
  which the daemon's `catch` does not see (`rcam.cpp:252`, `rcam.hpp:354`; the README speaks of a
  daemon "that catches all exception").

Other behaviours of the code are in the models as they are, and no text of the repository
denies them. `youtube` keeps its value
from one output to the next, so a raw output that comes after a YouTube one gets a
writer that is never started and whose packets nobody reads. `push` refuses at capacity
and `encodeFrame` does not look at the result. `EncodedIsWritten` says that these two, and
the worker that is behind when the trailers come, are the only losses, and that an output
before any YouTube one has none. A throw of `StopStrm` leaves the cameras
acquired until the process ends. A source names another camera after a camera is disabled.

### Bounds, and why they are enough

* Two producers: all the program has (video and audio), and the fewest for which a
  callback of one can overlap a callback of the other. One worker, one main.
* Queue: capacity 5 gives the watermarks the constructor computes (70 % and
  20 %, rounded down), with room between and above them. Seven packets fill
  the queue, cross both watermarks, refuse at the limit and go round again.
  The writer's instance is the smallest with distinct watermarks and a place
  above the high one; four packets cross the high watermark a second time after a
  drain.
* Two cameras are the fewest in which stopping one disturbs another; two
  requests of one camera let one be in the camera while another is in the
  queue or the video thread. The violations need one camera.
* Five button events are two captures, each started and stopped, and one to
  spare; signals and failures are not bounded.
* Outputs: a raw output of two streams, a composite one without destination (which
  throws), a raw before a composite file, and a YouTube composite before a raw, so that
  there are a started writer and one that never is. A queue of one packet is refused
  while the worker writes, popped before and after the trailer, and found empty or not by `flush()`. A
  delay of one frame is the least for which an encoder keeps something
  to flush. A FIFO of 5 with reads of 3 and frames of 2 is the tightest that satisfies
  `FifoAssumption`; one read fills it beyond a frame and two overflow it.
* Session: two generations have a rename and a rename that overwrites; four
  processes rotate one log out and die amid two rotations. A life of 4 and a
  margin of 3 with delays of 1 are the smallest times for which a token
  is used, refreshed and nearly expires; six intervals are one life and a half. Two
  broadcasts: one may be an orphan while the other is in hand. Two
  cameras: one may fail when the other has been acquired, configured or started.
* Editor: two cameras are the fewest of which one moves when the other is disabled;
  the CSI camera may lose its second stream; two layers are a main one and an
  overlay, and removing the first one drops both. The installations are one with no
  directory, one with /etc, and one with the command line's directory.
* `CHECK_DEADLOCK FALSE` stands where the system may come to rest: a queue whose
  worker waits and which is offered nothing more, a writer that has been
  destroyed, a daemon that has exited, a capture that has ended or died, a session at the
  bound of its processes, an editor that was left unsaved. `capture` checks deadlock; its only
  final states are those of a capture that has ended.

### Fairness, and why the code justifies it

* Every thread is scheduled: weak fairness of the worker, of the main thread's
  calls, of callbacks and of an encoder's end (the encoder threads
  test `stop_threads_` in every turn). Nothing forces a button, a signal,
  a packet or the end of a capture.
* A spurious wakeup is never due: the standard allows it and does not promise
  it. This is what `stop_ends` turns on.
* In `Capture`, steps that compete for a mutex have strong fairness: a
  mutex is handed to a waiting thread in time. `Camera::stop` cancels
  what is queued in the camera: the one fairness assumed of libcamera, and only
  while `stop` is running.
* In `Outputs`, weak fairness of the video and the audio thread (the sound
  device delivers, an encoder and a write return) and of `FreeCapture`, once it has
  begun; weak fairness of the workers (a write ends); strong fairness of each
  thread's `output_mutex_`, for the reason above. The end of the cameras, the next frame
  and `Quit` before `FreeCapture` are not forced, nor is the wakeup `flush()` would need.
* `Session` and `Editor` have no fairness: nothing obliges a user, a server
  or the power supply, and their properties are safety.
* Fairness ends when the process does (`crashed`, `outcome`, `dead`).

## 4. What is proved

`PacketQueue_proofs` proves, for any set of producers, any capacity and any two
watermarks with `LowWatermark < HighWatermark <= MaxCapacity`
(`WatermarkAssumption`), and distinct worker and main thread
(`ThreadsAssumption`):

| Theorem | Statement | Argument |
|---|---|---|
| `TypeCorrect` | `QueueSpec => []QueueTypeOK` | inductive as it stands |
| `CapacityHolds` | `[]WithinCapacity` | inductive with the types; only `push` lengthens, behind its guard |
| `HysteresisHolds` | `[]Hysteresis` | inductive with the types; the threshold crossed by one packet sets the state in the same critical section |
| `NothingLostHolds` | `[]NothingLost` | not inductive: `pop` moves a packet past `dropped`. Strengthened with `DroppedAtShutdown`: packets are discarded only by a shutdown, which leaves the queue empty for good |
| `NoLostWakeup` | `[]WorkerSleepsOnlyWhenIdle` | not inductive: the single `notify_one` of `push` might go to the main thread. Strengthened with `MainWaitsAfterShutdown`: when main waits the queue is shut down and `push` notifies no more |
| `QueueImplementsChannel` | `QueueSpec => ImplementsChannel` | step simulation from the types and the accounting |

The lemmas on sequences (`FrontAndRest`, `CatFront`, ...) say what concatenation
does to a head and a tail. `Cat` names concatenation so that the steps use the
lemmas instead of its definition.

`NetworkWriter_proofs` proves, under the same assumptions, about the writer with the
threads that use it:

| Theorem | Statement | Argument |
|---|---|---|
| `WriterImplementsQueue` | `Spec => QueueSpec` | every action contains an action of the queue or leaves the queue alone; with it all theorems above hold of the composition (`WriterLosesNothing`) |
| `StopDrainsHolds` | `[]StopDrains` | strengthened to `Draining`: a composite output's writer runs until it has been flushed (otherwise `stop` would return at once), and nothing enters the queue after the join of the encoders |
| `RateFollows` | `[]RateFollowsUnlessOverlapped` | strengthened to `RateInvariant`: without an overlap either no callback is due and the rate is right, or exactly one is, for the current state, and the rate it may have loaded is still the rate. So the overlap, and nothing else, breaks the rate |
| `WriterKeepsOrderHolds` | `[]WriterKeepsOrder` | strengthened to `OrderInvariant`: nothing is late while the context is open, and the packet in hand is the last one popped |
| `OnlyFlushHangsHolds` | `[]OnlyFlushHangs` | strengthened to `StopInv`: a worker that has ended leaves a queue that is empty and shut down, and while main is in `stop()` the queue is shut down and a worker was started. With the run `stop_ends`: the hang that run shows is the only one |
| `WriterTypeCorrect` | `[]TypeOK` | with the above: the packet in hand is a packet only because one was popped |

`Daemon_proofs` proves, for any number of button events (`BoundAssumption`):

| Theorem | Statement | Argument |
|---|---|---|
| `DaemonTypeCorrect` | `[]TypeOK` | inductive as it stands |
| `ExitsIdleHolds` | `[]ExitsIdle` | strengthened to `Located`: where in the loop there can be a capture and a blink thread, whichever two steps a signal comes between |
| `DaemonIsSwitch` | `Spec => Promise!SwitchSafety`, the safety half of `IsSwitch` | step simulation from the invariants above and `InterruptedIsTold` (a read that fails was interrupted by a signal that has cleared `RunProgram`): each step of the loop, and a signal at any point of it, is a step of `Switch` or no step |
| `SwitchAgreesHolds` | `[]SwitchAgrees` | strengthened to `SwitchInStep`, which says for each point of the loop what `Capture` is while no signal has come |

`Capture_proofs` proves, for any number of cameras and of requests
(`SizeAssumption`):

| Theorem | Statement | Argument |
|---|---|---|
| `CaptureTypeCorrect` | `[]TypeOK` | inductive with `CamerasInv`: what the state of each camera is where main is in its loops |
| `QueuedOnlyWhileRunningHolds` | `[]QueuedOnlyWhileRunning` | strengthened to `CamerasInv`: a request is in a camera or in `requestComplete` only while that camera runs or is being stopped with the mutex held, and those behind main's index have none left |
| `MessagesAreLiveHolds` | `[]MessagesAreLive` | strengthened to `MessagesInv`: a request that has been released has no message, because the queue is cleared first and no camera completes one after |
| `OnlyTimeoutsIdleHolds` | `[]OnlyTimeoutsIdle` | from `CamerasInv`: the only other way to `idle` is a camera that has stopped |
| `OnlyVideoHoldsDestroyedHolds` | `[]OnlyVideoHoldsDestroyed` | from `CamerasInv` and `MessagesInv`: when `stopCams` releases the requests of a camera none is in it and `Clear` has taken the messages; what remains is the frame at work. With the run `late_delete`: the video thread's late delete is the only use of a destroyed request |
| `NeverStuckHolds` | `[]NeverStuck` | strengthened to `PlacesInv`: the holder of `camera_stop_mutex_` is about to give it back (`VideoHasRequest`), every queued request has a message (`QueuedHaveMessage`), a cancelled or completed request has the status its callback tests, and after `stop_threads_` a message waits for a video thread in `Get()` (`QuitComes`) |
| `RCamObeysContract` | `Spec => ObeysContract` | step simulation from the same: `queueRequest` tests the state under the mutex that `stopCams` changes it under, so a request enters only a camera that runs |

`Outputs_proofs` proves, for any configurations, encoder delay, sizes and capacity of the
writers' queues that satisfy `ConfigAssumption`, `FifoAssumption` (a read and a frame fit
the FIFO) and `QueueAssumption`:

| Theorem | Statement | Argument |
|---|---|---|
| `OutputsTypeCorrect` | `[]TypeOK` | not inductive: that an encoder holds at most one frame beyond its delay needs `HeldInv`, and that two threads never feed the same encoder needs `Placed` |
| `MuxerProtocolHolds` | `[]MuxerProtocol` | strengthened to `FormatsInv`: only the video thread opens a muxer, and only a new one; until all are open audio encoders are empty, so even their flush has nothing to write; and to `OneWrites` and `WriterInv`: where a worker may be inside no encoder ever is, and it has something to write only after the header |
| `AudioIsGaplessHolds` | `[]AudioIsGapless` | strengthened to `FifoInv` and `encoded => ready`: the loop over the FIFO leaves less than a frame before each read |
| `EncodedIsWrittenHolds` | `[]EncodedIsWritten` | strengthened to `FlushInv` (a thread that has left its loop has yet to send, or has sent, the null frame to each of its encoders), `HeldInv`, `StopInv` (a queue that was shut down is empty and its worker joined, but for the one main is at) and `LostInv` |
| `OutputsObeyFFmpeg` | `Spec => ObeysFFmpeg` | step simulation from all of these and `NullOnce` (a thread that flushes has yet to visit only encoders not drained); the trailers come after both joins, when `FlushInv` leaves every encoder drained and empty and only workers can be inside |

`Session_proofs` proves, about `Session` with the logger and the client in it, for
any numbers of cameras, processes, generations and broadcasts
(`CameraAssumption`, `GenerationsAssumption`) and any times for which the requests of a
call take less than half the margin of the refresh (`TimeAssumption`):

| Theorem | Statement | Argument |
|---|---|---|
| `SessionTypeCorrect` | `[]TypeOK` | inductive with `TimesMatch` and the ranges of the loops; `StepMovesYouTube` says once what any step of the session is to the client |
| `TokenIsFreshHolds` | `[]TokenIsFresh` | strengthened to `FileKnowsAge` (the file is not older than its token by more than a call takes) and `TokenLasts` |
| `PollingOutlastsCodeHolds` | `[]PollingOutlastsCode` | strengthened to `PollsInTime`: the age of the code and the polls left add up |
| `LogsInOrderHolds` | `[]LogsInOrder` | strengthened to `RotationInv`: during a rotation the number renamed to has been freed |
| `CamerasReleasedHolds` | `[]CamerasReleased` | strengthened to `CamerasInv`: what the loops over the cameras have done up to main's index |
| `OnlyOldestForgottenHolds` | `Spec => OnlyOldestForgotten` (of every step) | from `RotationInv`: the only rename that overwrites is the one into the last place, and by `LogsInOrder` that place has the oldest log |
| `BroadcastLifecycleHolds` | `Spec => BroadcastLifecycle` (of every step) | strengthened to `StreamIsOpen`: the number the process holds is that of an open broadcast until `StopStrm` has completed it, and no camera runs in the stages before `startCams` and after `stopCams` |
| `OpenBroadcastIsKnownHolds` | `[]OpenBroadcastIsKnown` | strengthened to `BroadcastInv`: who holds the number in each stage of a call and after it |

`Editor_proofs` proves, for any cameras, bounds on layers and directories
(`EditorAssumption`):

| Theorem | Statement | Argument |
|---|---|---|
| `EditorTypeCorrect` | `[]TypeOK` | that there are at most as many cameras as locations needs `DistinctCameras` and the cardinality of an injection |
| `SavedIsWhatLoadsHolds` | `[]SavedIsWhatLoads` | strengthened to `FilesInv`: a file lies in a directory that exists |
| `SourcesFollowCamerasHolds` | `[]SourcesFollowCameras` | the conjunct `Sourced` of the invariant of cameras and layers: enabling appends, configuring keeps the position |
| `GraphConnectsHolds` | `[]GraphConnects` | `Overlaid` (exactly the layers after the first have an overlay) is inductive; `OverlaysConnect` shows that any such list connects, for every length |
| `StrmMapAgreesHolds` | `[]StrmMapAgrees` | strengthened to `DistinctSources`: no source is twice in a container; then by the cardinality of a bijection |

Seven of the invariants proved are steps on the way to a refinement or to another
property that says more, and the runs check the latter: `QueueTypeOK` (part of the
`TypeOK` of the writer), `WithinCapacity` (behind `ImplementsChannel`),
`SwitchAgrees` and `ExitsIdle` (`IsSwitch`), `QueuedOnlyWhileRunning`
(`ObeysContract`), `MuxerProtocol` (`ObeysFFmpeg`); `MessagesAreLive` is a conjunct of
`OnlyVideoHoldsDestroyed`.

Model-checked only: the liveness properties (`AcceptedIsHandled`, `IdleWriterStops`,
`FreeCaptureEnds`, `CompletedComesBack`, `ReleaseStopsCapture`, `SignalEndsIdle`, and
`Answered`, the progress half of `IsSwitch`), which the prover cannot reach, as it cannot reach `ENABLED`:
`NeverStuck` and `OnlyFlushHangs` state the guards instead, and are the safety half of
`FreeCaptureEnds` and `IdleWriterStops`. Every invariant, every action property and every
refinement of a passing run is proved, the refinement of `Switch` but for `Answered`. The runs with a counterexample are not subjects of
a proof, but three of the theorems say that what they show is the only case of its kind.

## 5. What is not modelled, and why

* Frame contents, encoding, the resampler, parameters of codecs, controls, crops,
  scales and sizes: data that none of the properties tells apart. The sizes that
  decide where an overlay may lie in `cfgLayer` are, in the model, the presence
  of the two sources.
* What `displayLayer` shows of a layer. It takes the camera of a source by libcamera's
  order (`getCameras().at(...)`, `rcamcfg.cpp:1836`), where `StrmMap` and the capture take it
  by the order of `/Cameras`: where the two differ it shows the size of another camera, or
  throws, and the editor ends with what was not saved. `Exit` stands for the throw. The
  comment above it asks which order it should be and promises neither.
* The reading of answers from the terminal, the texts of menus, `toJSON`,
  `toCntlVal` and the parsing and printing of JSON: conversions of data
  without state.
* Of `initCams` the buffers, their mapping and the formats; an error in any of them is
  the failure of a step of `Session`.
* The logger's writes: one `std::ofstream` that several threads write to without a
  lock. What happens to the text is undefined, and nothing else depends on it.
* Real time: the 250 ms of the audio thread, the LED's period, the duration of a
  capture are choices.
* LED and DMA heaps: single system calls. Message tables: generated data.
* libcamera, ffmpeg, YouTube's server and the kernel's input device appear through what
  the code relies on only: a request completes or is cancelled, a write may fail, a call
  fails or its answer is lost, an event is read once.
* Weak memory: the variables shared without a lock are `std::atomic` or are
  modelled as single accesses.
* The daemon with everything under it in one state space: `Daemon` has the two
  outcomes of `InitCapture` and `FreeCapture`, and `Session`, `Capture`, `Outputs` and
  `NetworkWriter` each show what they do.

## 6. Plan

Done, in this order: queue, writer, requests and daemon; outputs; session with
`initCams`, YouTube and the logger's rotation; the configuration editor and `StrmMap`; the
proofs of all their invariants.

The proofs then went on to the abstract specifications of what the libraries and the
user are promised (`CameraContract`, `MediaContract`, `Switch`), to freedom from
deadlock (`NeverStuck`, `OnlyFlushHangs`) and to what a step may do to logs and broadcasts.

Left:

1. `Capture` and `Outputs` composed: the message a frame is held by while it is
   encoded, with a slow encoder and every request in it.
2. Sizes in `StrmMap` and the overlays' places, as operators checked against a
   reference definition.
3. Of the editor, what a step may do to the sources (an action property: a menu
   changes the layers of one container only, but for the disabled camera's).
