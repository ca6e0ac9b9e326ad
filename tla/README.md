# A formal model of AudioPlugins.jl

AudioPlugins.jl hosts audio plugins from Julia: *offline*, one block at a time,
by scalar calls into a C library; and *live*, from a native engine whose audio
threads never enter Julia. It also exports plugins. This directory holds TLA+
modules of the parts with a protocol, the TLC configurations that check them on
small instances, and theorems checked by TLAPS.

Sources are named relative to the repository: `csrc/clap_live.c` and so on.

## 1. The system

| Part | State it keeps | Operations | Talks to |
|---|---|---|---|
| Live session engine, `csrc/clap_live.c` | `struct ap_live`: activated, state, error, stop, ready, restart, callback, device guard and owner, worker | open, start, stop, close, poll; timer worker; `device_begin/process/end`; host callbacks of the plugin | the plugin (CLAP calls), an adapter, the device transport |
| Live queues, same file | two single-producer single-consumer rings, tick, overruns | `try_write`, `try_read`, `process_block`, reset by stop | control and audio thread share the rings |
| Device transport, `csrc/live_device.c` | `struct ap_audio_device`: lost, closing, wake flag and semaphore, capture and playback rings, clock and offset | data callback, notification, prepare, start, stop, wait, submit | miniaudio's threads, the hardware worker, control |
| Offline CLAP host, `csrc/clap_host.c` | per instance: plugin, buffers, block tokens, events and what was last sent; global: modules, handle and token counters | scan, open, close, their handle variants, fill, tone, copy, set_param, process, output readers | the plugin; Julia or a generated solver calls it |
| Latency compensation, `src/clap_io.jl` | `_LatencyComp`: pre-roll to skip, pending samples, totals per channel | `clap_out`, `clap_flush!`, open, close | the default instance of the CLAP host |
| Offline LV2 host, `csrc/lv2_host.c` | one open plugin: ports and their buffers, atom arena, control values, an armed block, whether it is poisoned | scan, open, close, fill, tone, `lv2_in_midi`, process, readers | lilv, the plugin |
| Offline VST3 host, `csrc/vst3_host.cpp` | processor, controller, flags open and processing, latency, the slots' ids and values | scan, open, close, fill, process, `on_restart` | VST3 SDK, the plugin |
| Live adapters, `csrc/lv2_live.c`, `csrc/vst3_live.cpp` | URID map, control ports and atom buffers; parameter queues and event lists | the CLAP interface the engine drives | the engine; plugin threads call the URID map |
| Plugin templates, `csrc/*_plugin_template.*` | parameters and the step function's memory | activate, reset, process, state save and load | foreign hosts |
| Airwindows adapter, `csrc/airwindows/airwindows_clap.cpp` | reference count and table of descriptors; per instance values, effect, scratch buffers; a sample rate shared by the process | entry init and deinit, create, destroy, activate, reset, process, flush, state | CLAP hosts, the effects |
| Bundle registry, `src/bundles.jl` | ordered list of scanned bundles under a lock | register, unregister, list, find | the CLAP host's scan |
| Export, `src/plugin_export.jl`, `src/lv2_export.jl` | none | generate sources and metadata, compile | files |
| Julia API, `lib/`, `src/clap_live.jl`, shim | none of its own beyond handles | argument checks and forwarding | the above |

### What is hard, and what makes it correct

* **Live session.** Three kinds of thread meet in a struct of independent
  atomics. `start`, `stop` and `poll` must call the plugin in CLAP's order
  whatever the audio thread and the plugin's own threads do, must return, and
  must not lose a failure, a restart or a callback.
* **Queues.** Copying and publishing are separate; indices wrap; a stop resets
  them. Each queue must be a FIFO of whole blocks, and losses must be visible.
* **Device wake.** One semaphore, one flag, four writers. No wake-up may be
  lost, none may pile up, and joining the worker must terminate.
* **Device data path.** Output must be played at a fixed delay or not at all,
  without a worker that is scheduled between two callbacks, and recover after a
  stall.
* **Offline host.** Modules are shared by reference count; blocks travel by
  tokens that outlive them; parameters are sent only when they change. A stale
  token must be refused and a change accepted must arrive.
* **Latency compensation.** The aligned stream must be the input, gapless, on
  every channel, in spite of failures, skipped reads and repeated calls.
* **LV2 host.** Events queued for a block must be played with it, once, or the
  block must not run; the atom buffer is filled under unsigned arithmetic; every
  plugin's ports must be connected without dropping a channel.
* **VST3 host.** Opening is a chain of calls each of which may fail, closing goes
  by flags; latency may be announced from within any of them; a parameter lives
  in two halves of the plugin and is sent only when its slot changes.
* **Live adapters.** What `ap_live_try_write` accepts an adapter must be able to
  carry, since an adapter that fails ends the session. The URID map is read by
  the audio thread and must never make it wait.
* **Exported plugins.** Automation must take effect at its frame wherever the
  host cuts the stream, and a VST3 controller must be told what took effect.
* **Airwindows.** Effects are thrown away and rebuilt; the host's values must
  survive. Descriptors point into a table several loaders share.

`PROJECT.json` lists these as hazards, line by line, with the properties that
cover each.

## 2. Modules

| Module | Models | Abstracts |
|---|---|---|
| `LiveSession` | lifecycle in `clap_live.c`; one action per access to a contended field or call into the plugin | audio, queues, statistics, event conversion |
| `LiveRings` | the two rings of a session; index loads, copies and publications are separate steps, indices are modulo `2^Width`, a slot being copied holds a torn block | samples (a payload), the session's lifecycle beyond running or failed |
| `LiveEngine` | the rings of `LiveRings` in the hands of the threads of `LiveSession`, from open to close; the reset is where `ap_live_stop` has it | what the two abstract; the hardware driver, as in `LiveSession` |
| `BlockFifo` | the promise of a ring; `LiveRings` implements it twice | everything but the sequence of blocks |
| `DeviceWake` | `signal_worker`, notification, callback, prepare/start/stop and the worker's wait loop; a device that fails to start or stops by itself; with or without a store buffer for `wake_pending` | queue contents (a length), audio |
| `DeviceTransport` | re-blocking of hardware bursts, both device queues, the fixed delay, sizes as `configure_transport` computes them | audio (a tick), waking, loss |
| `ClapHost` | instances, handles, tokens, modules, input and output blocks of `clap_host.c` | audio (the number of the call that wrote it), parameters |
| `ClapParams` | the parameter chain, the slots of `clap_process`, the event queue and change detection | tokens, audio |
| `LatencyComp` | `_drain!`, `_comp_out`, `clap_flush!` on top of a host reduced to token, frame count and latency | samples (their position in the input) |
| `Lv2Host` | fill, `lv2_in_midi`, process, open and close of `lv2_host.c`; the sequence's bytes are counted as the code counts them | audio; one atom input port stands for all |
| `Lv2Ports` | the two loops of `lv2_host_open` over a plugin's ports: classes and arena, then connections | what lilv says of a port (its class, whether it is optional, its declared size) |
| `Vst3Host` | `vst3_host_open` call by call with its failures, close, `on_restart`, `vst3_process` | audio, tokens (as in `ClapHost`) |
| `UridMap` | `map_uri` and `unmap_uri`, one step per access to shared data | a URI's characters |
| `UriTable` | the promise of the map; `UridMap` implements it | everything but the rows and each lookup's answer |
| `LiveEvents` | what `ap_live_try_write` accepts, and `process` of the three kinds of plugin up to the plugin's call | the queues (`LiveRings`); a value is in its range or not |
| `PluginTemplate` | the three plugin templates around their step function; clamping, rounding, and VST3's conversion between normalised and plain values, with `stepCount`, in both directions | audio (the parameters and the memory a frame was computed with); the error of floating-point arithmetic |
| `Airwindows` | entry, one instance, and that others exist | audio; texts |
| `M_proofs` | the theorems about module `M`: `LiveSession`; `LiveRings` with `LiveEngine`; `DeviceWake`; `DeviceTransport`; `LatencyComp`; `ClapHost` with `ClapParams`; the LV2 and VST3 hosts (`FormatHosts`); the live adapters, exported plugins and Airwindows (`Plugins`) | |

`MCLiveDevice`, `MCClapHost`, `MCFormatHosts` and `MCPlugins` put components that
share no state side by side for TLC: a behaviour chooses one of them, and each
constant, assumption and property is that component's. They extend `DeviceWake`,
`ClapHost`, `Vst3Host` and `UridMap`, so that these keep the names of their
theorems, and instance the others: an `Assumptions` of an instance is what the
module assumes of its constants, and the composing module assumes it. The
fairness in `MCLiveDevice` is `DeviceWake`'s, which asks nothing of a driver at
rest. `MCLiveEngine` does the same with the rings on their own and the rings
under a session: the first with larger bounds and no word on who may call what,
the second with all that a session's threads may do.

`DeviceWake` and `DeviceTransport` split one file by question: the first has all
of the synchronisation and only the length of the capture queue, the second all
of the data and no sleeping.

`LiveRings` lets a block begin, and stop reset the queues, only while no block is
being processed. In the code neither waits for that: `process_block` runs
wherever a thread calls it, and `ap_live_stop` resets the indices right after
the deactivation. `LiveEngine` takes both guards away and puts the session's
threads in their place. Entered by the timer worker or a device thread, a block
is processed access by access while control, the other device thread and the
plugin's thread go on; the plugin's process call is the one step that the two
modules have in common, and fails in both or in neither. That every step of
`LiveEngine` is one that `LiveRings` allows is a theorem, not an assumption.

Every module keeps the source's names where it can. Where a module carries a
variable marked *history*, no action's guard reads it.

Each component module also has operators commented "Wrong version". They are
plausible mistakes in the operation that follows, are used by no specification,
and serve to confirm that each property can fail: `PROJECT.json` pairs each
property with one.

## 3. Runs

| Run | Checks | Instance, and why it is enough |
|---|---|---|
| `session` | plugin call order, one audio thread, quiet when inactive; liveness: failures collected, callbacks serviced, calls return | both drivers, two device threads: the second is what the guard is for; a third adds no new pair |
| `session_restart_race` | a restart stops the worker unaided (violated) | timer driver, nobody polls |
| `live_device` | waking: balance of flag and token, one callback re-blocking; unless a clear was delayed, no lost wake-up, the sleeper wakes and stop returns. Data path: fixed delay, no silence and no drop without a stall | two callback threads, queue of two: full, partly full and empty all occur; the store to `wake_pending` may be delayed, or not, so both memory models are in one run. Blocks of two frames, device buffer of one block, hence burst 2, delay 3, queues of 8; bursts of every size up to the limit; the clock runs to 12, past a stall in which both queues drop blocks and the recovery from it: both limits on `calm` are met exactly there |
| `wake_store_buffer` | a loss wakes the worker (violated) | one callback thread, delayed store |
| `stop_store_buffer` | stop returns, delayed clears or not (violated) | the same |
| `rings` | both refinements; every tick is accounted for, and a gap that a reader sees is bounded by the overruns; no stop and no second thread meets a block that is being processed | queue of two, two-bit indices: they wrap every four blocks. The rings alone: up to five ticks, two payloads. Under a session: both drivers, two device threads, up to two blocks processed (`SessionTicks`), all alike; one block can then be in the output queue and one in processing when a stop begins, and a new run begins with what the last one left |
| `clap_host` | shared modules, tokens; bounded queue, no leak, delivery; aligned stream, exact lag, complete tail | two bundles, two configurations, default and up to two managed instances; tokens are exhausted after three, handles after two. Two parameters, two values, two slots: a chain that repeats, one that collides with a slot, one that overflows. Latency compensation: blocks of two, latencies 0 to 3 (none, part of a block, a block, more), two channels, four blocks |
| `params_lost` | accepted means delivered (violated) | one parameter, no slot |
| `host_stale_output` | an output token names the block (violated) | the default instance alone |
| `formats` | LV2: blocks run once with their events, the atom buffer holds, ports served. VST3: left in order, latency current, parameters held | messages of one to three bytes, and incomplete ones, at frames inside and outside the block; a capacity that is a multiple of 8 only after rounding, with room for three events; two blocks. Every plugin of up to three ports of nine classes, two atom ports that fit the arena together or not. Two slots, two parameters, all pairs of arguments |
| `plugins` | events arrive; the map is a table; automation is sample-accurate; views agree; effects mirror values; descriptors live | three threads and three URIs for two rows, so that lookups race for the last row and fail; every block of up to two events; three frames cut into blocks of nought to two with up to two changes; a parameter of two whole values, one of four and one that is not rounded, sent values that are rounded and that are out of range; two loaders, two parameters, two rates |
| `fractional_range` | the controller is told what took effect (violated) | one VST3 parameter, rounded, from -1/2 to 3/2 |

Bounds are constants: `MaxTicks`, `MaxTick`, `MaxAudio`, `MaxBlocks`, `Played`,
`Users`, `SessionTicks` end a behaviour, `MaxChanges`, `MaxPorts` and `Frames`
bound an input; `MaxTokens`, `MaxHandles` stand for the code's `2^53 - 1`, whose
exhaustion the code handles and the model reaches; `QueueBlocks`, `Width`,
`Slots`, `MaxEvents`, `AtomBytes`, `AtomBuf`, `ArenaMax` and `Capacity` for
sizes that are larger in the code. `rings`, `formats`, the runs of `DeviceWake` and
those of `MCPlugins` are checked without deadlock checking: `MaxTick` ends the
session's processing in a state where control may be out of calls, the ports of a
plugin are connected once, an adapter that fails has ended its session, and a
stop that waits for ever (section 4) is the end of a driver with a lost or
stopped device. All other runs check for deadlock.

### Fairness

* `LiveSession.CallFairness`: a thread that is inside a call goes on, and the
  plugin's calls return. `docs/src/live.md` names the exception: "A plugin or
  device driver that never returns can prevent shutdown". Starting a call is
  never forced.
* `LiveSession.IntegratorFairness`: control polls regularly, in particular at
  times other than the instants when a device call has just finished the
  session; and the owner calls `device_end` once its `device_process` says
  STOPPED, as `clap_live.h` requires. `FailureIsCollected` and
  `CallbackServiced` further assume `GuardGetsFree`: `device_guard` is a
  try-lock, so a stop that always collided with a device call would return
  AGAIN for ever.
* `DeviceWake.Fairness`: threads run, callbacks finish (`SF` on leaving the
  frame loop: a callback has finitely many frames), a store buffer drains.
  Whether the device calls back, notifies or stops by itself is left open, so
  `SleeperWakes` relies on no later callback.
* The other modules have safety properties only.

## 4. What disagrees with its documentation

Each is a run that TLC finds violated; `PROJECT.json` has the quotes.

1. **A restart requested during start does not stop the worker**
   (`session_restart_race`). `ap_live_start` tests `restart`, then stores
   `stop = 0`; a request in between loses its stop. The worker runs on until a
   poll, which still finds `restart` set.
2. **A device loss may leave the worker asleep** (`wake_store_buffer`).
   `wake_pending` is cleared by a release store that may become visible after
   the loads that follow it. `live_device` and the theorem `NothingMissed` show that
   nothing is lost as long as it has not (the variable `delayed`).
3. **Stop may wait for ever** (`stop_store_buffer`). The same delay swallows the
   signal of `ap_audio_stop`, when a stop before it has left a token and
   `ma_device_stop` has nothing to wait for because the native device is stopped:
   its start failed, or it was unplugged. `StopReturns` shows that stop
   returns as long as no clear was delayed.
4. **A parameter change can be lost** (`params_lost`). A change queued on a
   block that is abandoned stays marked as sent.
5. **A stale output token is accepted after a failed process call**
   (`host_stale_output`). `clap_process` keeps the old token, and
   `clap_out_valid`, the RMS and peak readers and `clap_in_copy_for` accept it;
   only reading a frame is refused, which `TokensNameBlocks` states. Of the other
   readers it says only that they accept no token of another instance.
6. **A VST3 controller may show a value that did not take effect**
   (`fractional_range`). A stepped parameter may be declared with a range or a
   default that is no whole number. `apply_plain` clamps and then rounds, which
   can end outside the range; the controller clips to it. A fractional default is
   rounded by the processor and kept by the controller, from `initialize` on
   (`vst3_plugin_template.cpp:100-105`). `ViewsAgree` is about parameters that are
   not rounded, or declared with whole numbers.

One race is excluded by an assumption on the integrator. `ap_live_device_begin`
reads state and stop separately (`clap_live.c:642`) after `ap_live_stop` has
given the guard back, so a begin that overlaps a stop can start a plugin that
stop has deactivated. `clap_live.h:91-93` asks integrators to quiesce their
callbacks first, and adds that a concurrent call "is rejected", which is true
of all interleavings but this one. `session` sets `ConcurrentBegin` to FALSE: begin
keeps away from stop, and that suffices. With TRUE, `PluginCallsLegal` fails.

Behaviour that is milder, or that no text rules out, was modelled as it is:

* `vst3_process` detects changes per slot, where `vst3_host.h` speaks of the last
  value sent for an id. A parameter driven through two slots in turn keeps the
  older value when the slot it returns to has not changed; `AskedIsHeld` is
  therefore stated for parameters driven through one slot.
* A VST3 process call that fails has recorded its changes as sent, and its old
  output token stays valid, as in item 5. `AskedIsHeld` excludes what follows a
  failure.
* `state_load` of the templates applies each pair as it is read, so a truncated
  state changes a part of the parameters; the Airwindows adapter reads the whole
  state first.
* In the Airwindows adapter a NaN passes the clamp of `set_param`, and an
  `entry_init` that fails keeps its reference.

Three further behaviours of the code are excluded by name in `LatencyComp`
(`slips`), because the aligned stream is not defined after them: a process
failure while a block is unread (a consequence of 5: `clap_out` with the old
token drains no samples and counts a block); a flush that failed half-way and is
repeated (it returns a short tail without an error); and a last block never read
before a flush.

## 5. Proofs

Each theorem holds for every value of the constants; the runs show the same
properties on small instances. The assumptions on constants are evaluated by the
run in the last column. `-` means that there are none.

| Module | Theorem | States | Assumptions | Run |
|---|---|---|---|---|
| `LiveSession_proofs` | `OneAtATime` | `OneAudioThread` | `ThreadAssumption`, `DriverAssumption` | `session` |
| | `CalledInOrder` | `PluginCallsLegal` | and `~ConcurrentBegin` | |
| | `QuietWhenInactive` | `InactiveIsQuiet` | and `~ConcurrentBegin` | |
| `LiveRings_proofs` | `InputImplements` | `InputIsFifo` | `QueueAssumption` | `rings` |
| | `OutputImplements` | `OutputIsFifo` | | |
| | `TicksAreCounted` | `TicksAccountedFor` | | |
| | `NoBlockDisturbed` | `BlocksUndisturbed` | and `SessionAssumption`, `~ConcurrentBegin` | |
| | `SessionImplementsRings` | `LiveEngine` implements `LiveRings` | | |
| | `SessionQueuesAreFifo` | `InputIsFifo`, `OutputIsFifo`, `TicksAccountedFor` of `LiveEngine` | | |
| `DeviceWake_proofs` | `TypeCorrect` | `TypeOK`, with the semaphore's bound of one token | `CallbackAssumption`, `QueueAssumption` | `live_device` |
| | `WakeBalanced` | `WakeBalance` | | |
| | `NothingMissed` | `NoLostWakeup` | | |
| | `Reblocking` | `OneCallbackReblocks` | | |
| | `DelayIsFixed` | `FixedDelay` | `TransportAssumption` | |
| | `InTime` | `InTimeIsPlayed` | | |
| | `BurstsAreCovered` | `BurstNeedsNoWorker` | | |
| | `DropsFollowStalls` | `DropNeedsStall` | | |
| `ClapHost_proofs` | `SharedWhileUsed` | `ModulesShared` | `BoundAssumption`, `BundleAssumption` | `clap_host` |
| | `TokensAreNames` | `TokensNameBlocks` | | |
| | `EventsFit` | `Types`, of both modules | and `ParameterAssumption` | |
| | `ChainsAreFresh` | `NothingLeaks` | `ParameterAssumption` | |
| | `OnceFits` | `OncePerBlockFits` | | |
| | `Delivered` | `DeliveredUnlessBroken` | | |
| | `StreamIsAligned` | `Aligned` | `LatencyAssumption` | |
| | `StreamLags` | `LagIsCeiling` | | |
| | `FlushIsComplete` | `TailCompletes` | | |
| `FormatHosts_proofs` | `LeavesInOrder` | `LeftInOrder` | - | `formats` |
| | `KnowsLatency` | `LatencyIsCurrent` | - | |
| | `HoldsWhatIsAsked` | `AskedIsHeld` | `SlotAssumption`, `NameAssumption` | |
| | `BlocksRunAsAsked` | `RunsAsAsked` | `BlockAssumption` | |
| | `AtomBufferFits` | `AtomBufferHolds` | `BlockAssumption` | |
| | `PortsAreServed` | `PortsServed` | `PortAssumption` | |
| `Plugins_proofs` | `Implements` | `ImplementsTable` | `CapacityAssumption` | `plugins` |
| | `AcceptedIsHeard` | `AcceptedArrives` | `EventAssumption` | |
| | `FramesArePromised` | `SampleAccurate` | `TemplateAssumption` | |
| | `ControllerAgrees` | `ViewsAgree` | `TemplateAssumption` | |
| | `EffectMirrors` | `EffectMirrorsValues` | - | |
| | `DescriptorsLive` | `DescriptorLives` | - | |

The proofs about `DeviceTransport` and `LatencyComp` are in modules of their own,
`DeviceTransport_proofs` and `LatencyComp_proofs`, under these modules'
`Assumptions`; `DeviceWake_proofs` and `ClapHost_proofs` instance them as `Proved`
and carry the results over to the runs of `MCLiveDevice` and `MCClapHost`, step by
step (`StepsAreProved`, `RunsAreProved`).

Where an assumption is more than a type, the code guarantees it:

* a ring's index range is a multiple of the queue's length, since both are powers
  of two and the queue is shorter (`clap_live.c:170-171`);
* the device queue is a doubling of the session's, and `configure_transport`
  refuses bursts of 512 blocks and more (`live_device.c:189`), so that
  one of the ten doublings is long enough for twice the pipeline;
* `ATOM_BYTES` has room for a block's events at 24 bytes each;
* an LV2 plugin is opened for at least one channel;
* the ids of parameters and modules differ from the names that stand for none;
* a template's parameter has its default in its range (`plugin_export.jl:214-219`).
  That the range is not a single value is more than the code asks: there the VST3
  conversion divides by zero.

### Live rings

What a ring holds is `Filled` blocks from the slot of the read index on, with
both indices modulo `2^Width`. `FilledIs` and the lemmas on `Publish`,
`ReleaseOldest` and `BeginCopy` turn this into a sequence: publishing appends,
releasing drops the first, and writing the slot of the write index changes
nothing, which is where it counts that the ring is not full and that the length
divides the index range, so that neighbours in the sequence are neighbours in the
slots across the wrap. The inductive invariant `InputHolds`, `OutputHolds` keeps
what each thread has found out until it acts on it: a writer in mid-copy has
room, a reader in mid-copy has a block, and its copy is still the oldest block.
Each step then maps to a step of `BlockFifo` or to a stutter. `TicksAccountedFor`
counts: a tick is a block that was returned, one that waits, an overrun or a block
that a stop discarded (the history variable `discarded`). The gap between the
last block returned and the first that waits is bounded through the tick and what
has waited since, also when the queue was empty in between.

*Under a session.* A `LiveEngine` behaviour is one of `LiveSession` if one looks
at the session's variables only (`SessionSteps`), so what is proved of
`LiveSession`, its whole inductive invariant, holds in it: that module's proofs
are instanced as `Life`. Two invariants connect it with the rings. `Inside`: the
thread inside `process_block` is where the session calls it, or just after once
the plugin has returned, and the rings' `audio` is idle exactly if there is none. `Linked`: the
rings are running, failed or prepared as the session's fields say, so a thread
that is about to process finds the rings running. With `OneAudioThread`
nobody else is inside then, and with `Timed` and `Owned`, which say where a
worker or an owner can be when stop has come past the join or the guard, nobody
is inside at the reset. These are the guards of `LiveRings`' `Process` and
`Stop`; the rest of each step agrees word for word, which gives
`SessionImplementsRings`, and the FIFO theorems carry over.
`NoBlockDisturbed` needs `~ConcurrentBegin` as `CalledInOrder` does.

### Device wake

*The invariant.* `TypeOK` is not inductive: `tokens' = tokens + 1` stays in
`0..1` only because no two signallers are about to release, which
`WakeBalance` says: the flag `wake_pending` is set exactly while one wake-up is
under way, and that wake-up is in one place (a signaller past its exchange, the
token, a worker that took it, a clear still buffered). Nothing more is needed: a
fresh device is made when no callback or notification is in flight, which is what
the uninitialization of the old one waits for. `ma_device_stop` waits for data
callbacks of a running device only, not for notifications nor for the worker's
store, and returns at once if the device is stopped. `IInv` is the conjunction of
the two;
`InitHolds` and `StepHolds` (one lemma per group of actions: exchange, release,
callbacks and notifications, control, worker) make it inductive.

*No lost wake-up.* `NoLostWakeup` speaks of a worker already asleep. The
strengthening `Watched` follows the worker's reads one by one: each of lost,
closing and the queue that the worker has already read and found clear is either
still clear, or whoever set it is on the way to signal, or the flag is set and
so, by `WakeBalance`, a wake-up is under way. `MakerSignals` shows that whoever
sets a condition owes a signal, `OwedKept` that the debt is kept until paid, and
`WatchedStep` combines them. The step that needs `~delayed` is the worker's
clear: the flag must be down before the worker reads again.

*One callback re-blocks.* `OneCallbackReblocks` says both that a callback in the
loop holds the guard and that a held guard's holder is in the loop; it is
inductive given the types, and the second half is what makes a restart safe.

### Live session

`OneAudioThread` needs only the guard: `Held` says that a device thread is inside
a call exactly while it holds `device_guard`, and that control holds it exactly
in `stop_busy`. It holds whatever the integrator does.

The order of calls needs to know what control's place in start or stop says of
the session (`Placed`), and then one invariant per driver. `Timed`: a worker
exists from its spawn to its join, inside that interval the session is active
and stop is nowhere past the join, and the plugin is processing exactly where
the worker's place says so. `Owned`: the owner is who processes; a stop that has
reached the deactivation has seen no owner. The last conjunct of `Owned`, that no
begin is under way while stop is past its first store, is where
`~ConcurrentBegin` enters: it is the obligation `clap_live.h` puts on the
integrator, and section 4 shows that it is needed. The steps are taken one group
at a time, control, worker and device threads, first for the guard and then for
the rest.

### Device transport

A frame plays what was chosen when its block began (`Played`); it was chosen
because it was due (the pop loop, whose choice `FirstDueIs` states, from the
well-foundedness of the naturals); and it was due `PipelineBlocks` after its
capture (`Due`). That the pop loop may skip everything before the first block
that is due follows from the order: blocks pass the capture queue, the worker and
the playback queue in the order of their capture (`Ordered`), so `Due` is
increasing along the playback queue, whatever bursts and stalls there are.

*Bursts without a worker.* `Rested` is the number of frames that had been served
when the worker last had nothing to do. `Near`: while the worker is not stalled,
what waits was captured since then, hence within one device buffer, and is
due later. `Stalled` ties the counter `behind` to the blocks counted as calm,
and `NoneLate` says that the second pop after a stall leaves no late output.
From then on `Kept`: a captured block waits, or its output is queued, until it is
due; so the pop finds it (`Popped`). For drops, ticks in a queue are distinct
and lie between two bounds (`Spread`), so a full queue, of at least twice
`PipelineBlocks`, would hold a late block or one from before the last rest.

### Offline hosts

*Modules.* `Counted` says that a module's count is the number of instances that
use it. Opening an instance that is there already lets go of one module and
acquires another, in that order, and either may be the same; `Replaced` treats
all opens by the two lemmas `UnloadedCounts` and `AcquiredCounts` on the sets of
users.

*Tokens.* `Bounded`: no managed instance holds a token the counter has not
reached, so the next one is new; once the counter stops every new block gets a
token that no reader accepts. The default instance has its own tokens, which
`TokensNameBlocks` treats apart.

*Parameters of the CLAP host.* `Follows`: what is queued last for a parameter is
what the host remembers as sent, and a parameter with nothing queued and no
abandoned change has reached the plugin. That is inductive because a change is
left out only when it equals what was sent. `Room`: while no parameter was
driven twice, the queue is no longer than the set of parameters asked for, so
it is shorter than `EvMax` when one more comes. The queue after the slots of a
call is a recursive function; that each of its steps is as its definition says
(`QueuedIs`) comes from the least place where it is not.

*Blocks of the LV2 host.* `Pending` ties the events in the buffer to the log of the
block that is armed, a refusal to the mark `bad`, and says that later blocks have
nothing yet; `Ran` is what the property says of each block. A control port holds
what the last run asked that asked anything (`Held`), and a run
adds to that (`Asked`).

*The atom buffer.* The size in the header is a sum over the events, and sizes
are multiples of 8. So is the capacity, after rounding: what has room before
padding has room after it (`RoomIsPadded`), and the unsigned difference never
runs below zero. The sum is a function whose steps `AtomInv` states.

*The ports of an LV2 plugin.* What port `i` is connected to depends on how many
ports of its class come before it (`Wired`, `Tally`). That inputs and outputs
cover all channels is a counting argument: for each number below their count
there is a port with exactly so many before it. `Laid` says that slots of the
arena follow each other and are large enough, and that each atom port has one.

*Opening a VST3 plugin.* `Staged` lists, for each place in the open, the host's
flags and the plugin's own state; closing is then right from each of them. From
the moment the latency is read (`Current`) a `restartComponent` updates it.

*Parameters of a VST3 plugin.* A slot that alone has driven a parameter since
the open remembers what the processor has (`Remembered`); so if it decides not to
send, the processor has the value asked for (`Answered`). `SentAlone` and
`AskedAlone` are where "alone" is used: the last queue for a parameter in a block
is that slot's. `Answered` is lost with the first failed call.

### Latency compensation

Samples are their positions in the input. `Skips`: the pre-roll left to skip is
the latency less what was drained. `Stream`: what a channel has been given,
followed by what is pending for it, is the input from its first sample, and as
long as what the drained blocks have made available; `Aligned` is a part of it.
`BlockThere` supplies the step that drains: a block still to be read is there.
`Lags` compares with the ceiling (`CeilBounds`, `OneMore` and `Due` do the
arithmetic of whole blocks), and is stated for a channel read of every block.
`Flushed` counts the silence of a flush against the ceiling of the latency, so
that at its end nothing of the input is left to come.

### The URID map

A step of `map_uri` that publishes or answers is right only because
of what the thread found out steps earlier: that its URI was not in the table
when it took the flag, that it was when it was found. `IInv` carries these facts
to where they are used: `Exclusive`, one thread at a time is in the guarded part,
so nothing is published under it; `Located`, what each thread knows of its URI at
each place; `Waiting`, a call is pending exactly while its thread is in
`map_uri`. Rows below the count never change (`RowsStay`), so a row once found
stays found. `StepRefines` then takes every step to a step of the table:
`Publish` is `Register`, the three answering steps are `Answer`, a call is
`Begin`, and the rest stutter.

### The Airwindows adapter

`DescriptorLives` and `EffectMirrorsValues` are inductive given the types of the
counters and the shape of the effect. The second rests on `TakeInv`: values and
effect take the same changes in the same order.

### Live events

`Converted` states for each format what an adapter has made of the events before
`pos`: the `i`-th of a kind is at the place that counts those of its kind up to
it (`Carried`, `Rank`), in VST3 within the one queue of its parameter. No
queue is longer than the events converted, and those are at most
`AP_LIVE_MAX_EVENTS`, so that none is full and none of the adapters' failures is
reached; that their other failures are not is what `Accepted` says of each event.
`CarriedNext` adds an event to a queue; `TypedNext` to the sets of places.

### Exported plugins

`Heard` relates the frames still to compute to the parameters as they are and
the changes not yet applied: frame `f` has to see for each parameter the last
change due by `f` at or after its queue's cursor, and else the value in force
(`Rest`). Applying the changes due by a frame leaves that promise as it is,
because a queue is in the order of time (`UptoIs`) and the last change of two
consecutive stretches is that of the second, or else of the first
(`RestComposes`). `Viewed` adds for VST3 that a parameter
without a queue is what the controller was told. What it was told it shows again:
`ReadBack` takes a value that took effect through the conversion to a normalised
value and back, which for more than one step goes through the cells of
`stepCount` and for whole numbers loses nothing.

### Only model-checked

The liveness properties (`FailureIsCollected`, `CallbackServiced`,
`ControlReturns`, `SleeperWakes`, `StopReturns`), which are out of the prover's
reach. Every invariant, action property and refinement of the runs is proved.
The runs that expect a violation show instances, and need no proof.

Recursion is proved about only through its steps: a function that a model
defines by recursion has at each place the value its definition says, by a least
counterexample. No closed form of one is claimed.

## 6. Not modelled

* `src/bundles.jl`: a list under one lock. `register_bundle!` scans before it
  takes the lock, so two racing registrations of a path may be recorded in either
  order; both outcomes are legal registrations and nothing states more.
* The check of the atom sequence a live LV2 plugin writes (`lv2_live.c:123-136`),
  and the output lists of the VST3 adapter: their contents are only counted as
  dropped, in a statistic.
* Thread priorities except for their failures; statistics and deadline counters.
* CLAP, LV2 and VST3 metadata, dynamic loading, CLAP port validation: pure lookups.
* Output readers of the hosts beyond the tokens they accept: sums and maxima.
* Export: text generation and compiler runs.
* miniaudio: `ma_device_stop` is "no new callback, and those in flight return" for
  a running device, and nothing for a stopped one; the semaphore is a counter.
* VST3: the SDK's `RangeParameter` is modelled from its documented behaviour, in
  exact arithmetic. What a host makes of the controller on its own, and NaN on the
  wire, are left out.
* The value of a failure's error code: `FailureIsCollected` says that a failure is
  collected, not which.
* Weak memory other than the one store of item 2 in section 4: the other shared fields
  are sequentially consistent or ordered by acquire and release pairs that the
  modules' step granularity reflects. In `UridMap` the release store of the count
  is a step after the store of the row, and a reader's acquire load is its scan.

## 7. Plan

Done: all components of section 1 that have a protocol are modelled, and all
safety properties of the runs are proved.

Next, in this order:

1. *Compose.* `LiveEngine` has the queues under the timer and device drivers. Left
   is the hardware worker of `DeviceWake` under `LiveSession`'s start and stop.
2. *Prove more.* That `LiveSession` implements a specification of CLAP's calls in
   their order; that the queues of `DeviceTransport`, which are sequences, are
   implemented by rings as those of `LiveRings` are.
