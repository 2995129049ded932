# Suckboxx in TLA+

Suckboxx is an ESP32 instrument for synchronising the throttle bodies of an engine: three vacuum
sensors sampled at 1 kHz, signal processing, a state machine that turns the signals into a verdict
and a screw to turn, and a web page in the mechanic's phone. This directory holds TLA+ models of
its firmware (`src/firmware/src`) and of the part of the reference firmware `plantmeister` that
moves water, the TLC runs that check them, and theorems proved with TLAPS.

## 1. The system

Five tasks on two cores, and one object in the middle:

| task | core, priority | does |
|---|---|---|
| `sbx_sample` | 1, 20 | `samplerLoop` (hal/sampler.cpp): a numbered sample every millisecond into a queue of 128 |
| `sbx_proc` | 1, 5 | `procLoop` (hal/proc_task.cpp): every 4 ms empties the queue into `Processor::push` and the serial stream, every 50 ms `Processor::tick`; all under `g_proc_mutex` |
| `async_tcp` | 0, 10 | the web handlers (hal/web.cpp), each under `g_proc_mutex` for the whole call; CSV downloads in chunks; the simulator's parameters under `g_sim_mutex`, twice per request |
| `sbx_push` | 0, 11 | a snapshot to every listener, 15 times a second |
| `loopTask` | 1, 1 | `setup`, then `loop` (main.cpp): the serial stream every 10 ms, `saveDirty` every 10 s |

| component | state | operations | hard because |
|---|---|---|---|
| StatusMachine (core/status.h) | timers, latches, the last results | update, configure, reset, resetSettle | eleven rules with holds, hysteresis and priorities over histories of inputs |
| Processor, calibration (core/processor.h, calibration.h) | configuration, zero and gains, what the DSP holds, a measurement in progress, dirty flags | push, tick, zeroNow, startGainCapture, resetGain, setMaster, applyConfig | handlers fall between any two ticks; a calibration change makes held data stale |
| Cycle tracker (core/dsp.h) | a trigger, a chain of boundaries, a cycle that waits, a suspect cycle, a reference | a sample: boundary, arming, timeout, waking, a stale segment | what was seen now decides two boundaries later; the reference judges what may change it |
| Persistence (hal/nvs_store.cpp, main.cpp) | the flash, key by key | load, save, restart | saves without the mutex that may fail unnoticed, power cuts, restarts of its own making |
| Raw ring and CSV (core/raw_ring.h, hal/web.cpp) | 8192 samples with 16 bits of their number, a count of freezes | push, freeze, at, chunked download, disconnect | two downloads at once, gaps, restarted sources, reconstruction of numbers |
| Serial stream (hal/serial_stream.cpp) | a ring without lock, counters | push, poll, start, stop | preemption at every instruction, wrap-around, a slow cable |
| Sampler and processing task (hal/sampler.cpp, hal/proc_task.cpp) | the pace, the queue, gap and late counters | sample, skip, receive, boot line | stalls, overflow of the queue, a clock that wraps |
| Simulator mailbox (hal/sampler.cpp, hal/web.cpp, core/sim_api.h, core/engine_sim.h) | a request that waits, the parameters last applied, a speed that drifts | get, fill, set, apply | read, change and write back in two holds, against a sampler that only tries the mutex |
| Floods, pump and loop of plantmeister (lib/ebbflow_fsm, pump_hal.h, scheduler.h, loop_dispatch.h) | state of the floods, the pump with latch and lock, circulation, debounced floats | the steps of `loop()`, the handlers of its portal | a web task without locks, a raw and a debounced float, three that want the pump |
| Configuration registry and forms, JSON, SSE, diagnostics, Wi-Fi, page, tools, the other reference firmwares | | | not modelled, or only their effect: section 7 |

What makes them correct, in one line each: a verdict is earned, a fault always wins and never
flashes; a zero and a gain belong to the transform in use; a cycle is a whole interval and counted
once; nothing changed is forgotten by a save that meets no failure; a recording that is being read does not move; a sample
is written once and in order; a sample lost is a sample accounted for; a posted parameter is kept and
a speed does not jump; service stops the pump, no run of it is too long, and a bed left alone goes on
being flooded.

## 2. The modules

| module | models | how |
|---|---|---|
| `StatusMachine` | `StatusMachine` of core/status.h and `LevelSettle` | `Update(i, zv, dt)` is one call of `update`, computed by `Updated` in the order of the code; `Configure`, `ResetSettle` are the other calls. `tm` holds every timer, as the time it has run, capped where its comparisons are decided |
| `StatusMonitor` | nothing of the code | adds `hist`, what an observer of the inputs remembers, and states the promises over it |
| `Processor` | core/processor.h with the parts of calibration.h | extends `StatusMachine`; a call under the mutex is a step. A sample is the pressure in the hose plus the error of its sensor; calibration is exact integer arithmetic |
| `CycleTracker` | `pushChannel`, `onBoundary`, `confirmPending`, `recordCycle` of core/dsp.h, for one channel | a step is a sample; lengths are exact in samples, a comparison of two amplitudes is a choice. `engine` lets the signal become that of an even engine |
| `Persistence` | nvs_store.cpp, `saveDirty`, `setup`, the dirty flags | the copies and flags are one step, then one step per key, then the end or the restart; handlers and cuts fall anywhere, and each part may fail to open (`OpenFails`, `Setup`) and each key to be put (`PutFails`) |
| `RawRing` | raw_ring.h and `CsvState`, `handleRawCsv` | push in one step (it holds the mutex), a download row by row; `Jumps` are the losses and restarts of the source |
| `RawTape` | the abstract recording | full numbers, no cells: what the ring promises. `RawRing!Implements` is the refinement (`tape <- Tape, held <- Holders`) |
| `SerialStream` | serial_stream.cpp | the reader in steps (load both counters, read a line, publish the tail, write, check the time), pushes in between; `credit` counts the time of the cable in lines |
| `Sampler` | samplerLoop, procLoop, onSample, procBootDone | time is the tick; samples and skips of `sbx_sample`, the batch of `sbx_proc` sample by sample, the boot line in its two writes |
| `SimMailbox` | samplerGetSim, samplerSetSim, applyPendingSim, `handleSimSet`, simApplyForm, configure of engine_sim.h | the handler in six steps, taking and giving the mutex; a period of the sampler is a step, and applies what waits unless the mutex is taken. `now` is the speed of the next sample |
| `EbbFlow` | ebbflow_fsm.cpp, pump_hal.h | no state: the transitions of both as functions of records; a time stamp is kept as its age in iterations |
| `Grower` | the water of scheduler.h, loop(), loop_dispatch.h, sensor_manager.h, the handlers | extends `EbbFlow`; `loop()` in four steps, a handler that starts the pump in two (`Begin` looks, `Finish` writes), between any of them |
| `MC…` | | the instances TLC checks |
| `ProcessorProofs` | | the theorems about `StatusMonitor` and about `Processor`, which share `StatusMachine`; section 5 |
| `CycleTrackerProofs`, `SamplerProofs`, `PersistenceProofs`, `RawRingProofs`, `SerialStreamProofs`, `SimMailboxProofs`, `GrowerProofs` | | the theorems about the module of that name |

A definition whose comment says *Variant* is a plausible mistake in the definition that follows it,
kept for showing that the properties notice it: an off-by-one, a forgotten reset, a flag for a count.
No specification uses one. Variables that a comment gives to the properties (`hist`, `truth`, `asked`,
`alone`, `meddled`, the fields `ran`, `served`, `whole`, `strikes`, `before`, `used`, `lost`, and `pending` of
the stream) only record: no guard looks at them.

Voltages, kilopascals, texts and JSON are abstracted: pressures are small integers, a level within a
limit or not; a measured gain is a member of a set or, in `Persistence`, the measurement it came from.
The DSP's report is an input of `StatusMachine` that may be anything in `Inputs`, so that nothing is
assumed about the signal. A non-finite mean counts as a channel without a pulse, as in `update`.

## 3. The runs

| run | instance | shows |
|---|---|---|
| `status` | two channels, 25 inputs, every hold 1 to 3 ticks, steps of −1, 1, 2 | `VerdictEarned`, `NoFaultFlash`, `FaultsWin`, `AdviceFits`, `HoseStays`, `RequestEarned`, `AutoZeroComes`, `VerdictComes`, `FaultComes` |
| `processor` | two sensors, one with an error of one unit, three engines, two transforms, two masters | `ZeroHolds`, `GreenIsTrue`, `GainEarned`, `AutoZeroAgrees`, `PTypeOK` |
| `cycle_tracker` | accepted periods of 2 to 4 samples, a timeout of 6 | `CountedOnce`, `MeanOfWholeCycles`, `ThreePulses`, `JumpsAreReal`, `EvenEngineFound` |
| `persistence` | three limits, two sources, two measurements, three changes, one cut, one failure of Preferences | `FlashFollows`, `GainsWholeUncut`, `Settles` |
| `raw_ring` | ring of three, two bits of a number modulo 12, two downloads | `DownloadWhole`, `Implements`, `GapsAreReal`, `Thaws` |
| `serial_stream` | ring of three, counters modulo 6, two lines a sample period | `FirstInFirstOut`, `EndAccounts`, `StreamEnds` |
| `sampler` | queue of two, catch-up below two periods, eleven ticks on a clock that wraps at ten | `PaceKept`, `Accounted`, `LateIsOfTheRun` |
| `sim_mailbox` | five requests of eleven kinds, speeds 1 to 4 | `KeysKept`, `ShownIsTrue`, `SpeedKept`, `PostApplied` |
| `grower` | floods, soaks and drains of one iteration, due every second or fourth, circulation every second, two overflows, two calls, the auto-clear on | `ServiceStops`, `OnTimeBounded`, `HardFaultReal`, `Recovers` |
| `stream_never_ends`, `chronic_overflow`, `pump_over_limit` | | a sentence of the sources that the code does not keep, section 4 |

Why the bounds are enough. The holds are 3 ticks and the windows 1 or 2, so that every timer is met
below, at and above its limit, in every order, and a step of 2 jumps over a limit. The ring of three
holds a full, a part-full and a wrapped recording, and with two bits in a cell and the jumps 1, 2, 5,
0 and −2 it meets a loss, a jump out of the window, a repeated number and a restart; modulo 12 the
numbers wrap several times. Two downloads are what a freeze count is for. The counters of the stream
wrap after two rings. Three changes let one fall before, one into and one after a save. Two engines'
transforms and masters are what a change is; in `processor` the two channels have the same gain and
the engines move both together or the second one alone, and `GreenIsTrue` is claimed for tolerance
and gains in these units. The numbers of the samples do not wrap in `Sampler` (they would after 49
days), its clock does. Periods of 2, 3 and 4 samples give the tracker every ratio it tells apart:
equal, suspect (4 to 3, 3 to 2), too short (2 to 4) and too long (4 to 2); the tracker is checked
against every signal, as its amplitudes are choices. Five requests are two that race, one that finds
a drift under way, and two that stop it. In `grower` every duration is one or two iterations, so that
it is met at and past its limit. Two calls let the first one start what the second interrupts, or a
handler that has looked be overtaken by one that changes the device; the captures of a calibration
are not counted among them, so that a calibration can end. In this instance the pump is on for at most
twice its limit; with a flood as long as the limit (`FloodFor = 2`), every flood after two seconds and
three calls (5.1 million states, too many for `Recovers`) it is on for three times the limit, which is
the bound of `OnTimeBounded`, and never for longer. `Recovers` is checked with the automatic clearing of
the latch switched on (`AutoClear`), which the code leaves off unless somebody opts in; without it an
overflow waits for a person, as it is meant to.

Deadlock is checked wherever the system must always go on. In `persistence` the handlers' calls and
the cuts are bounded, and a device that has settled has nothing to do; in `sampler` time is bounded.
Those two say `CHECK_DEADLOCK FALSE`.
`Processor` extends `StatusMachine` but brings its own inputs, so its instance sets `Inputs` to the
empty set.

Fairness. `status`: `sbx_proc` ticks every 50 ms as long as the device runs, on a clock that goes on, so
an input that is still there is seen again (`WF(SameInput)`); the clock may go back in between, and the
premise of the three liveness properties (`hist.steady`) is that in the end it does not and that the
input stays. `persistence`: `loop()` never stops and
waits for no other task (`WF(LoopTask)`). `raw_ring`: AsyncWebServer asks for chunks until it gets none
or the connection is closed, which it always is in the end (`WF(Chunk \/ Finish)` for every download).
`serial_stream`: samples keep coming, `loop()` keeps polling, time passes. `sim_mailbox`: the sampler
is woken every period and `async_tcp` carries a handler it has begun to its end (`WF(Period)`,
`WF(HandlerStep)`). `cycle_tracker`: samples keep coming (`WF(Anything \/ Evenly)`); that an engine
settles down is never assumed, `EvenEngineFound` speaks of one that does. `grower`: the Arduino core
calls `loop()` again and again (`WF(Loop)`). Nothing is assumed of the users' handlers, of
disconnections, of water, or of the power; that the water stays low and nobody comes is a premise of
`Recovers` (`<>[]Calm`), not fairness.

## 4. What the runs found

1. `stream 60 115200` never ends (`stream_never_ends`). `streamPoll` drains the ring until it is empty,
   and `start` accepts a speed on which, as its own header says, the lines do not fit. The loop then
   never comes back to `loop()`: no end line, no `stop` command, no saving of settings.
2. A bed that overflows at every flood is never locked (`chronic_overflow`). `pump_update` cuts the pump
   off on the raw float, `FLOOD` sees a pump that is off and, on the float debounced over 300 ms, no
   overflow: it takes the flood for a clean one and forgets the overflows before it. The count never
   reaches its maximum, so that with the auto-clear the bed is flooded for ever, which pump_hal.h:231
   and scheduler.h:184 exclude.
3. The pump can be on for longer than its absolute limit (`pump_over_limit`), which pump_hal.h:277 calls
   "absolute max on-time regardless of mode" and config.h:822-824 "absolute ceiling", "5 min hard limit".
   `pump_update` measures it from a stamp that is written anew by a continuous run that takes over a dose
   (`pump_setContinuous`), and by a dose whose handler looked before a flood had begun
   (`pump_startForMs`). `OnTimeBounded` is what does hold: three times the limit, not one.

Noticed while modelling, described here and among the hazards, and not a run.

Of the instrument:

* A configuration torn by a power cut (nvs_store.cpp:45) is rejected, but not its source, although
  proc_task.cpp:234-235 says that the defaults stay: `setup` starts the sampler with it (main.cpp:83)
  before `procStart` rejects the rest, `saveDirty` sees two different sources and restarts the device
  every ten seconds without writing anything. `Settles` names this end as its second one (`Torn`); it
  does not exclude it.
* A save can fail unnoticed. `nvsSaveConfig` and `nvsSaveCal` return without writing when
  `Preferences.begin` fails (nvs_store.cpp:47, 61), and what the puts return is not looked at, after
  `saveDirty` has cleared both flags (main.cpp:49-50); it then logs that it has saved (main.cpp:56). The
  change is in use, in no flash and marked by nothing, and goes with the next restart. `lost` remembers
  the parts this happened to, and `FlashFollows` and `Settles` except them, and only them, until they
  are saved again.
* A power cut between two gains leaves gains of two measurements marked valid (nvs_store.cpp:62): `_gv`
  is written last but not taken back first. The same comes of a gain that is not put. `GainsWholeUncut`
  is what does hold.
* The restart after a change of the source takes away what a handler changed while the save was writing
  or in the 200 ms that follow (main.cpp:60).
* Between `setMaster` or `applyConfig` and the next tick (50 ms) the snapshot shows the differences and
  the verdict of the former settings (processor.h:228, against types.h:159-161 and docs/firmware.md:371).
  `StatusMonitor` and `Processor` claim nothing of a result that is not fresh.
* A change of the settings arms the automatic zero again, which "once per NoSignal period" in
  docs/firmware.md:373-375 does not mention; `RequestOnce` says what does hold.
* Two requests to the simulator: one that comes while another waits copies that one's parameters. A
  drift started by the first and a key in the second then make the speed jump back to the last one
  posted, and a posted speed equal to the one before is forgotten, as the second replaces its flag
  (web.cpp:247, 257, sampler.cpp:353). `SpeedKept` therefore speaks of requests that find none waiting.
* The pulse timeout is checked against the longest nominal period (config.h:459-463), the tracker
  accepts a tenth more (dsp.h:278): an engine in that tenth can lose its pulse between two cycles.

Of plantmeister:

* Service or a calibration that begins in the middle of FLOOD stops the pump but not the clock of the
  floods; afterwards the flood is older than allowed and latched as FLOOD_TIMEOUT (loop_dispatch.h:93).
  `HardFaultReal` therefore speaks of a device nobody has touched. A stall of `loop()` of more than a
  second past a dose has the same end; iterations are uniform here, so that the model does not show it.
* A device that goes from GROWING to IDLE with the circulation on keeps it on; a flood asked for then is
  refused the pump, which is taken for a broken sensor and latched.
* A start that a handler has looked into before the overflow was latched, and written after it, is not
  stopped again by `pump_latchOverflow`, which does nothing once latched; the limits of `pump_update` end
  the run. So a run is bounded (`OnTimeBounded`) though not by the latch.
* A soak calibration that is left open keeps the floods from starting. `pump_setContinuous(0)` leaves the
  mode, and with it the old stamp, behind. Starts blocked by the latch are counted but never latch
  (scheduler.h:175-193); the counter is a byte and wraps.

## 5. What is proved

TLC checks small instances; the following hold for every number of channels, every hold, limit, period
and timeout, every length of queue, ring, clock and schedule, every set of settings and requests, and
behaviours of any length.

Every safety property the runs check is a theorem; each is listed in PROJECT.json.

`ProcessorProofs`, first part: the state machine alone (`MSpec` of `StatusMonitor`), from the
assumptions `ChannelAssumption`, `InputAssumption`, `HoldAssumption` and `LimitAssumption` of
`StatusMachine`. The promises speak of histories, the code of timers, so that the
inductive invariant ties them together:

* `HoldBehind`: the machine's stable hold is never longer than the history of clean inputs. With the
  fact that a verdict needs the hold it gives `VerdictsAreEarned`.
* `LostIsSilent`: the lost timer of a channel and the history of its silence agree. It gives
  `FaultsAreHeld` and, with the priority order, `FaultsAlwaysWin`.
* `ShownIsLatched`: a hose fault that is shown and the memory of its hysteresis agree, which with
  `LostIsSilent` gives `HosesStay`.
* `ArmedUnasked`: while the automatic zero is armed it has not been asked for since the last pulse,
  which gives `AskedOnce`.
* `OffBehind` and `FlatBehind`: the off timer is no longer than the history of the engine being off, and
  a settled window means that the levels the observer saw were flat and near the atmosphere. They give
  `RequestsAreEarned`, an action property.
* the result is the one `Result` computes for the input that is remembered, which gives
  `AdviceAlwaysFits`; `Types` is the type invariant.

`ProcessorProofs`, second part: the processor (`PSpec`), from the same assumptions and
`EngineAssumption`. `ReportIsOfCal`:
what the DSP reports came through the calibration in use, because every change of it resets the DSP.
Lemma `Undone` then lets `zeroFromLevels` take the offset and gain off again and find the pressure,
which makes `ZeroHolds` inductive. `CaptureOfConv`: a measurement under way has only seen the transform
in use. It gives `GainsAreEarned`. For `AutoZeroAlwaysAgrees`, a request means a settled window that ends
in the levels the same tick zeroes on (`RequestSettled`). `ProcessorTypes` is the type invariant of the
whole record; what it says of the machine's timers and results is proved of `Updated` for every input,
as the reports the processor feeds to the machine are not in the set the machine alone is given.

`GreenIsAlwaysTrue` puts the two parts together: a verdict needs comparable channels (`GreenParts`), what
is compared came through the calibration in use, and a zero taken at rest took off what the errors of
two sensors differ by. It has two hypotheses about the world and not about the code, stated in
`Processor`: `EvenGains`, that sensors differ by an offset alone, so that measured gains are equal, and
`EvenAtRest`, that an engine whose levels are near enough to the atmosphere for a zero has the same
pressure in all its hoses. Without the second one a zero is taken at unequal pressures, and green then
means equal to that: the firmware cannot know. The instance of the run `processor` satisfies both, which
TLC evaluates there (`EvenHypotheses` of `MCProcessor`); given them the invariant is `EvenInv`: the gains
of all channels are equal and a valid zero was taken at equal pressures. The errors of the sensors, the
gain and the transforms are arbitrary.

`CycleTrackerProofs`, from `TrackerAssumption`, for every signal. `Sound` says that the marks of a
channel fit each other (`Chained`: a chain has as many strikes as make it trusted) and that a cycle that
waits, or is suspect, is the last interval and has not been counted (`Fits`). `Step` relates two channels
and is shown of every operation; the four theorems read off it.

`SamplerProofs`, from `SamplerAssumption`. The queue is in the order of its numbers and each sample is
stamped less than `CatchUp` after the period of its number; that alone makes `PaceKept` inductive
(`Pace`). The books, drops and skips against gaps found and gaps to be found, are inductive only
together with that order, because a gap is the difference of two neighbours (`NoLossUnseen`). For
`RunLatesAreOfTheRun` the invariant bounds the age of every stamp by `MaxStall`, below half the
clock's range, so that comparing wrapped stamps is comparing times; without the latch `g_booting` this
would be lost after half an hour.

`PersistenceProofs`, from `PersistenceAssumption`. `Will` is the flash as it will be when the save under
way is done, if nothing fails from here on. Writing a key does not change it (`WillStands`), a failure
changes it only in the keys of its own part (`WillFails`), and in a part that has met none it holds what
was copied (`SaveFollows`); taking the flags, `Complete` shows that every key of a marked part is on the
list. This gives `NothingForgotten` for any number of changes, cuts and failures, and, carrying along
that the gains in use, the gains copied and those in `Will` are each of one measurement while no cut and
no failed put has happened, `GainsOfOneMeasurement`. `Types` needs that the configuration keys of the
flash always are values of the configuration, though a cut may leave a pair of them that does not
validate.

`RawRingProofs`, from `RingAssumption`. `FreezesAreCounted`: the count is the number of open downloads.
While it is not zero the ring does not move, so that what each download has written so far stays the
recording (`Written`), which is `DownloadsAreWhole`; `NewestIsLast` says that the ring's number is the
sampler's unless a gap is to be skipped, which gives `GapsAreTheSamplers`. That the ring implements
`RawTape` (`RingImplementsTape`) rests on two lemmas. `ReadAgain` is the arithmetic of the sixteen bits: a cell
`D` behind one number is `D + d` behind a number `d` ahead of that, and stands for the same full number,
as long as `D + d` is in the window; `Rows` follows the cells through a push. With `Ordered` (each row is
further behind the newest than the next) they show that the rows that go are the oldest, that each goes
for a reason, and that the others keep their numbers.

`SerialStreamProofs`, from `StreamAssumption`, for every length of ring and batch, speed and width of the
counters (a multiple of the length of the ring, as 2^32 is of 1024, and more than it). Every statement is
about differences modulo the width, so that it begins with a few lemmas on them (`RestFirst`, `AheadInc`,
`CellAfter`). The order of the samples (`StreamInOrder`) is not inductive: while the reader is in a batch
the tail is old and the head may have moved since it was copied. `Between` says that the two copies lie
between tail and head, in that order, so that a push that finds room at the tail does not overwrite what
the reader has yet to read, and a reader that stops at its copy does not pass the head; `Held` says that
the ring never holds more than fits, and that without a stream there is no reader. With them pushes at
any point of the reader keep the order; `OldestFirst` reads off that the line written is the oldest
sample pending, and `StreamAccounts` is the books over the same steps. As `Start` sets the tail to the
head and the books to zero, what an earlier stream left does not matter.

`SimMailboxProofs`, from `MailboxAssumption`. `KeptByAll` follows a key through the request that waits,
the handler's copy and the parameters in use, wherever the mutex is (`NoKeyLost`); `Shown` ties the
shown speed to the one reached (`ShownAlwaysTrue`); `SpeedOfAlone` says what a request that found none
waiting has copied of the speed (`NoJump`).

`GrowerProofs`, from `EbbFlowAssumption` and `GrowerAssumption`, for any number of calls. `IInv` is the
type invariant with `Watched` and `Alone`. `Watched` bounds the time the pump has really been on, which
no stamp sets back, by the age of its present stamp: in a dose by that age and one limit more, in a
continuous run by two more (`InTime`); while a handler is about to write its dose, a pump that is on has
been stamped only once (`OneStart`), as one handler is under way at a time. Between `pump_update` and the
end of an iteration the age is below the limit, which closes the bound of three (`RunsAreBounded`). A run
that has met one end of an iteration in maintenance is about to meet the step that stops it
(`ServiceAlwaysStops`). `Alone` is what holds of a device nobody has touched: a dose ends before the
flood is over time, and no flood falls due while the circulation has the pump (`FaultsAreReal`).

Only model-checked: all liveness (`AutoZeroComes`, `VerdictComes`, `FaultComes`, `Settles`, `Thaws`,
`StreamEnds`, `PostApplied`, `EvenEngineFound`, `Recovers`), which is out of TLAPS' reach with the
provers there are, as are ENABLED and induction over data.

## 6. Plan

Done: the state machine, the processor, persistence, the raw ring, the stream, the sampler, the mailbox
of the simulator, the cycle tracker, the floods and the pump of plantmeister; proofs of every safety
property of theirs, in eight modules.

What would be next:

1. the configuration registry and `applyConfigForm` (all or nothing, relations of `configValidate`);
2. the drift flag and the convergence hint of the advice, and the snapshot between a handler and a tick;
3. the composition of `Sampler`, `Processor` and `RawRing` under the one mutex, and of `CycleTracker`
   with `StatusMachine`.

## 7. What is not modelled, and why

* The amplitudes of the DSP (filters, interpolation, thresholds, fault and saturation monitors) and the
  wave of the simulator: real numbers, tested against recorded data. Their comparisons are choices.
* The statistics of a gain measurement (median, range) are a choice among the outcomes they can have.
* Formatting and parsing: JSON, forms, CSV text, log lines.
* The one-second windows of the diagnostics, the SSE push (its queues are the library's), Wi-Fi.
* The page and the host tools.
* A single read of a namespace that did open does not fail, and the flash does not wear out or lie.
* Memory exhaustion: a failed allocation answers 503, or leaves the stream as it was.
* Of plantmeister: light, motor, grow phases, sensors but the floats, power, LoRa, the pages of the
  portal, the state ERROR and the boot. The dimensions a calibration changes are constants. The two
  requests of people (acknowledge, flood now) are read and cleared in one step.
* The other devices under `Referenssi/`, which the build does not include. Most of the lines of that
  tree, and of the repository, are artwork, fonts and pages, generated or typed in as data.
