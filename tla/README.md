# A verification project for the espresso device tree

The repository holds what the Galaxy Tab 2 tablets (P31xx, P51xx) need of their own under LineageOS: the audio,
sensors, lights and infrared hardware abstraction layers (HALs), two sensor daemons, and configuration. This
directory holds TLA+ modules that model the parts with state and concurrency, TLC configurations that check them
on small instances, and TLAPS proofs that lift the most important results to every value of the constants.

`PROJECT.json` lists components, runs, mutants (one seeded bug for each checked property, which TLC must find),
the source lines every definition models, the disagreements found, the hazards and the theorems.

## 1. Inventory

| component | state it keeps | operations | what is hard |
|---|---|---|---|
| **Audio routing** (`audio/audio_hw.c`, `select_devices`) | wanted and active output and input words, mixer sections that are on | assign a word and select | sections shared by devices; order of on and off; words compared with masks of the other direction |
| **Voice call** (`start_call`, `end_call`, `select_mode`, `select_output_device`, TTY, wideband callback) | mode, `in_call`, four call PCMs, rate, call routing, audio path of the modem | set_mode, set routing, callback of the modem client, parameters | every PCM may fail to open; the callback comes on another thread; each change must reselect routing |
| **Audio streams** (`out_write*`, `in_read`, standby, close, effects) | one output and one capture stream, `active_input`, three kinds of lock | write, read, standby, set_parameters, effects, open, close, set_mode | lock order, a transfer under way when the stream is stopped or freed, starvation of set_mode |
| **Capture pipeline and effects** (`in_read`, `read_frames`, `process_frames`, `in_*_effect`) | period read, input buffer of the effects, list of effects, auxiliary channels | read on three paths, add and remove effects, new routing | partial reads, buffers that grow, effects that take and give any number of frames, channels negotiated between table, microphone and all effects, commands refused |
| **Mixer file parser** (`adev_config_*`) | current device, role and path; sections built so far | start and end of an element, error | two callbacks share the state; "off" routes are applied while parsing |
| **Modem client** (`audio/ril_interface.c`) | connection, callback; what the modem was told | connect on demand, set volume, path, mute, clock; bandwidth messages | requests dropped without a connection and never repeated, connections that break, messages missed |
| **Event reader** (`libsensors/InputEventReader.cpp`) | ring of 2N slots, two positions, free count | fill, readEvent, next | a read that crosses the end is copied to the front |
| **Sensors HAL** (`libsensors/sensors.cpp`, drivers) | use flags, `mEnabled`, pending event, POLLIN flags, wake pipe | activate, pollEvents | two threads; dependent sensors; leftover events; blocking reads |
| **Orientation daemon** (`libsensors/orientationd`) | activity flag, gate, last samples, delay | poll input, sampling thread | a mutex used as a gate between two threads, a flag without a lock, its own events among the commands |
| **Geomagnetic daemon** (`libsensors/geomagneticd`) | offsets in memory, driver and file; extrema | start, sample, computation, two writes | killed at any step; writes fail; extrema rebuilt at restart |
| **Lights, infrared, dock keyboard, GPS shim, USB scripts, static data** | none or one value | one conversion and one write | little: left for last, or out |

How they interact. The framework calls the audio HAL from several threads; the HAL calls the modem client and is
called back by it on the client's thread; both reach the mixer and the PCMs under `adev->lock`. The framework
activates sensors on one thread and polls on another; the sensor drivers read input devices through the event
reader; the orientation daemon feeds one of those input devices; the geomagnetic daemon feeds offsets to the
magnetometer's driver. Audio and sensors share nothing.

What makes each component correct is written as its properties (section 3). The hazards, each at its line, are in
`PROJECT.json`.

## 2. Modules

| module | models | uses |
|---|---|---|
| `DeviceRoutes` | words, masks, sections, `select_devices` | |
| `VoiceCall` | the call, its PCMs and routing, capture stream as far as routing sees it | `DeviceRoutes` |
| `StreamLife` | abstract: a stream is stopped or freed only between transfers | |
| `AudioStreams` | threads, locks, two streams | implements `StreamLife` twice |
| `EventFifo` | abstract: a bounded queue | |
| `EventRing` | the circular reader | implements `EventFifo` |
| `CaptureEffects` | the list of effects and the channels negotiated with them | |
| `CapturePipeline` | the way of the frames through `in_read` | extends `CaptureEffects`, implements it |
| `RouteConfig` | the parser of the route file and the default route | `DeviceRoutes` |
| `ModemClient` | requests to the modem, its messages, the connection | |
| `AudioDevice` | `adev_open`, `adev_close` around the two | composes `RouteConfig` and `ModemClient` |
| `OrientationDaemon` | poller, sampling thread, gate | |
| `SensorsHal` | activate and pollEvents over drivers whose reader is a queue | `EventRing`'s result |
| `Geomagneticd` | the daemon, its two files, the driver, stops and restarts | |
| `*Proofs` | theorems of the module they name | |
| `MC*` | constants for TLC | |

**DeviceRoutes and VoiceCall.** A device word is a set of bit numbers, so that an input word without
`AUDIO_DEVICE_BIT_IN` really shares bits with output masks, as it does in the code. `route.on` is the set of
sections whose controls are on: `SelectDevices` adds the sections of newly wanted devices, then removes those no
longer wanted, in the code's two loops. A call PCM is the rate it was opened at, 0 for NULL. `StartCall` returns the set of outcomes, one
for each PCM whose open may fail, following the two error labels. One action is one handler under `adev->lock`:
`EnterCall`, `LeaveCall`, `ChangeMode` (adev_set_mode), `OutSetRouting`, `WbAmrCallback`, `SetTtyMode`, `SetBtNrec`,
`StartInput`, `InStandby`, `InSetRouting`. `leaked` is a history variable: PCMs whose pointer was cleared while open.
`voice_routes` holds which call mixer arrays the last selection put into their "on" form; the code never resets
these arrays when a call ends, and the model does not either.

**AudioStreams.** A step is what a thread does between two lock operations. The steps of a call: wait for the
device (`want_adev`), for the stream (`want_stream`), hold both (`both`), transfer under the stream's lock (`io`), or sleep after a failed start
(`fail`), then release. `set_mode` locks the device, stores the mode, and forces the capture into standby through
`active_input`; it sets `in_call` when it is done. A close puts the stream into standby under its locks and frees it
under none. External: which thread makes which call, and that the framework neither closes a stream that is in use nor uses it afterwards.

**CaptureEffects and CapturePipeline.** Every call on the list of effects holds the device's and the stream's lock, so it is one action; the calls on an effect inside it are
its negotiation: `GetAuxChannels` (what table, microphone and all effects allow), `ToConfigure` (who has to be told), and the fallback of all effects when one refuses. A refusing effect keeps what it
had (`fx`); `unsettled` is the history variable that remembers it. The pipeline numbers the captured frames and follows each of them: `read_buf` is the last period read, of which the last
`read_buf_frames` are unread, `proc_buf` what waits for the effects, `held` what they hold, `out` the caller's buffer. One action is one round of a loop, since `in->lock` is held from beginning to end and only the driver
and the effects decide how many frames move. `lost` are frames given up (standby, failed read), `bypassed` marks frames that stayed behind when the last effect left a running stream: they are returned later, when
effects are added again. With `main_channels` always stereo the auxiliary channel is always one of the main ones, so `has_aux_channels` in `process_frames` is never true and the stripping of channels is dead code.
The resampler is modelled one to one: the same calls of `get_next_buffer` and `release_buffer` are made on its behalf. An error that recreating it gives is not looked at in `start_input_stream` (line 1223), after which
the stream goes on without one.

**RouteConfig.** A file is a sequence of elements; a cursor walks it and each step is one callback of expat on the shared state (`dev`, `on`, `path`). An unknown device name leaves `dev` at NULL, so its paths become default routes;
"dock" stands in two rows of the table and allocates two sections, of which only the last gets the routes; a path of unknown name keeps the role of the one before. A path without a name inside a known device is left out: it is passed to
`strcmp` as it is. `DocumentsAssumption` says what expat guarantees and what the format is: a file is a finite sequence of elements, each a device with paths or one path of its own; names, controls and values are free. `SelectDefault` is `select_devices` as `adev_open` uses it, with `DeviceRoutes`' sections.

**ModemClient and AudioDevice.** A link is what one request sees: the connection, the messages under way, what the modem was told, and `dropped`, the kinds of requests whose last one did not get through. `Sent` gives all outcomes of a request:
no connection, a new one (with the bandwidth query of `ril_connect_if_required`, whose result the code ignores: `Queried` lets it be answered or be in vain, and then "rate" is among the dropped), and a failure of the request itself. `CallRequests` composes the three requests of `select_mode` in their order. The modem changes the bandwidth at any time and the
connection may break at any time. `AudioDevice` puts both around `adev_open`: calls happen only between a `ril_open` that found the library and `ril_close`, which may give up. Without the library the device opens all the same and the first request
calls a NULL function: the model stops short of it.

**OrientationDaemon.** The poller's steps are `poll`, each device of the round, each event read, and the two statements of a command (set the flag, unlock). The thread's steps are the lock, the test of the flag, each write, the sleep. The gate is one bit:
the mutex is locked by one thread and unlocked by the other, which a normal mutex of bionic allows and which no owner could describe. The queue of the orientation device holds commands and the daemon's own events alike. `unread` counts the samples waiting in each sensor's device; a round reads one
of them from each device that poll found ready, as the code does up to the first EV_SYN.

**EventRing.** Array, positions and free count as in the class; pointers are slot numbers. A read(2) hands over
any batch up to the free space; `filled`, a history variable of both modules, is that batch, so that the queue is held to what was really read.

**SensorsHal.** The activating thread goes through the drivers of one `activate` (`todo`) with the steps enable, initial state (proximity only),
wake byte. The polling thread has the program counter of `pollEvents`: scan, read, fill, poll. `readEvents` is two steps, because
the flag of a pending event is tested before `fill`, which may block: `EnterFill` leaves the test behind, and from then on only a sample ends the read, not the flag (`ReadPending` is the call that found the flag set). `Asleep` is poll without anything ready or a `fill` that
blocks. `filled` is a history variable: a read has left no room in the caller's buffer and poll has not been called since. An event is a complete sample (EV_SYN). `stray` is the unwritten
poll entry of a device without proximity sensor: either outcome is an initial state.

**Geomagneticd.** One step per system call on a file, one per event, so the daemon can be killed (`Crash`) or the device
rebooted (`Reboot`) between any two of them. The three hard offsets are one bit, known or not. History variables: `seen` (samples since the extrema
began), `writeFailed`, `updated`, `unread`, `approximated`. A failed read of the driver in an EV_SYN changes nothing, so it has no action.

## 3. Runs

| run | bound | states | checks |
|---|---|---|---|
| `voice_call` | four output words (speaker, with headphone, headset, SCO), two inputs, three modes, three TTY modes | 54 thousand | mode, `in_call` and PCMs follow the call and its rate; no half-open call; wanted words are active and no section is stale; call routing current; `active_input` exact and a recording routed; a call's microphone is stable |
| `voice_call_leak` | same | | violated: open Bluetooth PCMs are forgotten |
| `voice_call_route` | same | | violated: a section of a selected output is switched off |
| `event_ring` | three slots, two event values | 2 thousand | write position and array bounds, implements the queue |
| `audio_streams` | two framework threads besides playback, record and modem | 39 thousand | no circular wait, no use after free, calls start with a quiet capture, the device's lock is given back, both streams implement `StreamLife` |
| `capture` | two effects, one of which may refuse commands, period of 2, requests of 1 and 3, four frames | 0.6 million | slots cleared, channels negotiated, effects agree with the stream, frames conserved, buffers fit |
| `audio_device` | files of up to two elements over two controls, three control lists; calls with the empty file, two paths, two volumes, two messages under way | 1.1 million | sections are the file's, default route on after open, the modem has what was not dropped, bandwidth known unless its query was in vain |
| `orientation` | both sensors; two commands, two unread samples of each sensor and one sample ahead | 320 thousand | no activation missed, samples while active, quiet when inactive, last command obeyed and sensors read |
| `sensors_hal` | orientation, accelerometer and proximity activated, proximity reports; buffer, ring and device of 2; one byte in the pipe | 2.4 million | shared sensors on exactly when used, fusion not interrupted, no sleep on a pending event but until its wake byte or in a read entered after a full buffer, caller's buffer respected |
| `sensors_hal_held` | proximity reports | | violated: asleep in a read with a sample in the ring |
| `geomagneticd` | two axes, samples -12000, 0 and 30000 on one, 30000 on the other, computation at every second sample | 0.9 million | file never torn, a good file stays good, offsets in the sensor's field, memory, driver and file in step, computed offset is the field's centre |
| `geomagneticd_restart` | same | | violated: approximated extrema are centred on 0 |

Why the bounds are enough. In `voice_call` the words are chosen so that each test of the code has both outcomes: a word of one
device and of two, SCO or not, the earpiece substituted for the speaker, an input whose number equals an output's bit. Nothing counts, so no sequence is cut
short. Three slots let a fill cross the end at every position; the proof covers every size. Two framework threads are
enough for each pair of conflicting calls to overlap with a transfer; the proofs cover any number. In `sensors_hal` a ring of two and a buffer of two are the smallest with a partly drained
ring and an exactly filled buffer; the magnetometer is treated like the accelerometer in the code and is switched by the orientation sensor only.
At most one failing read per `pollEvents` (`readFailed`) and at most `QueueBound` samples in a device are bounds. In `geomagneticd` one axis has every
relation of a sample to both extrema and to zero, the other shows an axis that stays without samples; ten samples between computations or two
changes nothing but how often the computation runs. `count` is kept modulo `Period`.

In `capture` a request of 3 with a period of 2 needs two reads and leaves a rest, a request of 1 leaves one in the middle of a period, and growing from 1 to 3 reallocates the effects' buffer; `MaxFrame` (four frames) is two periods, which is what one
longest request needs, and the calls go on with what is in the buffers when the driver has no more. Two effects are enough for one that agrees and one that does not, and for a removal that moves a slot;
`Failing` names the effects that may refuse a command (the echo canceller here; any set in the proofs). In `audio_device` two elements are enough for the state of one callback to leak into the next; calls are made
with the empty file only (`CallDocuments`), because the file and the client share no variable. `MaxMessages` bounds messages under way. In `orientation` two unread commands contain every pair of consecutive ones and `MaxSamples` is how far the thread may be ahead of
the poller; `MaxUnread` (two) leaves a sample behind when a round has read one; while the poller is dead its events are not kept.

**Fairness.** `DeviceLockReleased` in `audio_streams` and the three liveness properties of `orientation` need it. `FairSpec` of `AudioStreams` gives each thread weak fairness on its steps: a thread inside a call is scheduled, a transfer on a PCM
ends (the kernel's, and on errors a bounded sleep), and a free mutex nobody else keeps taking is taken. It is weak, not strong: a pthread
mutex promises no order among waiters. Beginning a call is not fair. The property holds because `in_read` takes the device's lock before
the stream's, as its comment (audio_hw.c:1787) intends: a reader cannot come back for the stream's lock while set_mode waits for it. The mutant that skips it starves set_mode.
`OrientationDaemon` gives each of its two threads weak fairness: both are scheduled, a sleep ends, and the gate has one waiter only, so once unlocked it stays unlocked for it. `poll` may fail but need not, and the environment is not fair.

Each run allows every system call that the code checks to fail, at any time. All runs but `audio_device`, where a closed or failed device stops, check for deadlock.

**What the violated runs show.**
1. `end_call` (audio_hw.c:447) closes the Bluetooth PCMs only while the route is still Bluetooth and clears their pointers always.
2. `select_devices` (audio_hw.c:344) compares an input word with masks of outputs: bit 0x4 is the built-in microphone and the wired headset.
3. `geomagneticd_magnetic_extrema_init` (geomagneticd.c:277) makes extrema whose sum is always 0 and mixes nT and uT, so the stored offset is replaced at the next computation; with an offset of more than a
   few hundred nT the made-up extrema are farther out than any sample and the offset stays 0.
4. `pollEvents` (sensors.cpp:400) reaches samples left over by a full buffer only through a read that blocks.
   The same read can keep the initial state of the proximity sensor waiting, which setInitialState means to have reported "immediately" (ProximitySensor.cpp:64): the wake byte of `activate` ends a poll, not a read. A driver
   whose samples fill the buffer exactly keeps its POLLIN (sensors.cpp:402), and the next `pollEvents` blocks in its read without a call of poll, with the event pending and the byte unread in the pipe. `PendingWakes` therefore makes
   an exception of a read entered after a full buffer, and says that this is the only one: as long as no buffer was filled since the last poll, no read blocks on a pending event, and no poll sleeps on it but until its wake byte comes.

## 4. Proofs

All for every value of the constants under the assumptions the modules name (sets of words, a non-empty ring, framework threads distinct from the streams' own, a field that fits an int when scaled, sizes of at least one, files that are finite sequences of elements).

* `VoiceCallProofs`: six invariants and one action property. The inductive invariant `IInv` is type correctness, mode and call
  agree, `Settled(route)` (wanted words are the active ones, and every section that is on is touched by one of them), `GoodPcms` (no half-open call, all at the current rate), all closed outside a call,
  call routing current, `active_input` exact, recording routed. `Settled` is needed because `select_devices` computes from the old words which sections to switch off: it removes all stale
  sections only if the active words account for all sections that are on. Two lemmas carry the argument: what `SelectDevices` does to a settled or a powered route, and what `StartCall` does to good PCMs in each outcome.
* `EventRingProofs`: `IInv` adds to the types that the write position follows the unread events and that their slots hold events. The refinement to
  `EventFifo` maps the queue to the unread slots from the read position on, wrapped at N; a fill maps to appending the batch, a read to taking the head.
* `AudioStreamsProofs`: `IInv` says for each point of a call which locks it owns, that an owner is at such a point, that a call on a stream excludes a close of it, that `active_input` means a running capture, and that
  `set_mode` past its standby leaves a capture that is not running. From the lock order follow deadlock freedom (a holder of a stream's lock never waits for a lock), safe use of streams, quiet calls, and the two refinements to
  `StreamLife`.

* `GeomagneticdProofs`: `IInv` adds that the extrema of an axis are opposite (made up by `extrema_init`) or both in the field (`SaneExtrema`), so their
  centre is in the field, zero or not; that, unless approximated, they are the minimum and maximum of the samples seen (`ExtremaTrack`); that what is usable in the file is
  usable in memory (`GoodInMemory`), so a rename never brings unknown offsets; and how far driver and file follow at each step of a write (`Following`). `ExtremeSane` is the lemma the field bound
  rests on: a sample either replaces both of two opposite extrema or proves the other one to be in the field.
* `SensorsHalProofs`: an `activate` call has one of a few chains of drivers before it (`Chains`; the lemmas `ChainStep` and `SwitchedShape` say what the
  code's tests put into them). `PowerFollows` splits `SharedPower` by whether a shared driver is still in the chain: then what the call does is what is wanted, otherwise it has been done. `FusionCalls`
  says that while the orientation sensor is active only switching on is left to do. `PastProximity` says that past the test of the proximity sensor's flag (in its `fill`, at the end of the
  scan, in `poll`) a pending initial state has its wake byte. `ReadyIsThere` and `FillsReady` say that a driver goes on to `fill` only if poll found it ready, and that what poll found ready still has a sample, until a buffer is filled: so no `fill` blocks before that.
  `PendingWakes` follows from the three.

* `CaptureProofs`: `EInv` says of the list that it is packed and without repetition, that the stream's auxiliary channels are common to its effects, and which effects may disagree with the stream. It is proved for `CaptureEffects`
  alone; `PipelineKeepsList` shows that the pipeline implements that specification, so all of it carries over. `BuffersFit` has its own invariant: lengths of the buffers only, at each point of the loop.
  `FramesConserved` needs two more: `CInv` says which buffers may hold frames on which path of `in_read` (without effects and resampler, and no effect taken from the running stream, none does, so the direct read overtakes nothing),
  and `BInv` that every frame held or given up is older than the driver's next one. A step then only splits and joins the sequence of frames in flight: `ReadMore` (frames are read), `DeliverFirst` (the first ones are handed over),
  `GiveUpMiddle` (some are given up). Concatenation goes by a name of its own, `Cat`, in the steps that only rearrange it.
* `AudioDeviceProofs`, the parser: `SectionsMatchFile` speaks of `dev_cfgs` between elements only, `MixerAfterOpen` of the mixer at the very end, so neither is inductive. `ParserInv` says what the callbacks' state is in the
  middle of an element, for every cursor: `CursorOK` where the cursor may stand; `StateTyped` the types; `PathOK` that `path` holds the usable ones of the first `n` controls of the path under way; `DevOK` that `dev` is the last
  section exactly inside a known device, and `on` the role of the path begun; `SectionsOK` that the last section has the routes of the paths ended so far and all earlier ones are final; `MixerOK` that the mixer has the values after
  the routes applied so far. For this the file's meaning is defined part by part (`UsableUpTo`, `AppliedUpTo`, `SectionsUpTo`, and what the elements before the cursor give), and lemmas show that each part is the one before with one item more, and
  that the last is `Usable`, `AppliedRoutes` or `SectionsOf`, of which the properties are made. There is one lemma per action and part of the invariant. The value of a control after a list of routes is that of the last route
  that sets it (`ValuesAfter`), and `select_devices` over the sections of the default route is a fold of the same steps (`FoldRoutes`).
  The lists are flattenings and folds of the community modules, defined by recursion. The library's induction theorems take an operator and cannot be used; instead each lemma takes the set of numbers where it
  fails, which has a least element (`LeastNat`, `SetInduction`), and the recursive functions are shown to exist by the same argument (`FlattenExists`).
* `AudioDeviceProofs`, the client: the invariant is that of `ModemClient`; the argument is in `SentKeeps` (a request changes one setting or marks it as dropped, and keeps the bandwidth known) and `ConnectInforms` (the answer
  to the query of a new connection is the last message). The life of the device adds only `AdevClose`. That it is a behaviour of `ModemClient` at all (`ClientIsModemClient`) needs one more fact, `Quiet`: without a connection
  no message is under way, so closing the device is a loss of the connection or changes nothing. `DeviceReads` is the same for the parser: the device's steps are steps of `RouteConfig` or leave it alone.
* `OrientationDaemonProofs`: `NoLostActivation` needs only the types: the flag is tested before the gate is taken, and set before it is given. The types need `ReadySensors`: a device that poll found ready keeps its sample
  until the round comes to it, so the count of unread samples does not fall below zero.

Only model-checked: liveness (`DeviceLockReleased`, `SamplesWhileActive`, `QuietWhenInactive`, `PollerKeepsUp`), which is out of the prover's reach, and the four violations.

## 5. Not modelled, and why

* Floating-point angles of the orientation daemon and lux values (arithmetic without state); the search for input devices in directories, beyond that it may fail.
* Time: the length of a sleep, of a delay and of an output period. So two things known of the code have no property: `orientationd_thread` computes the rest of its delay unsigned (orientationd.c:141), which turns an overrun into a
  sleep of seconds, and `screen_off=on` clears the flag that selects long periods (audio_hw.c:2363).
* The values in audio buffers and the events of a sensor; `memcpy` on overlapping halves in `process_frames` (audio_hw.c:1729) is taken to move the frames: bionic copies upwards on this processor, and the frames move down; `in_read` returns the full count also after an error, and the caller's
  buffer then holds what it held: `Return` gives the frames really delivered.
* `setDelay` of the drivers; the low-latency output and the echo reference, which nothing in the code creates.
* The library of the modem client beyond its connection: two threads may both find it unconnected (ril_interface.c:73), since set_voice_volume does not hold the device's lock; what a second connect does is not in the repository. The value of the two-microphone control.
* Lights, dock keyboard, GPS shim and infrared (one conversion or write each, no state); USB scripts, build files, overlays, SELinux policy.

## 6. What could follow

All modules of the plan with state and concurrency are written and checked. Left are a model with time (the sleep of the orientation daemon, the output's periods), and a composition of `VoiceCall` with `ModemClient` in which the path is that of the device.
