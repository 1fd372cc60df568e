# ME7 firmware: a verification project in TLA+

The repository is the firmware of an engine control unit (a rusEFI fork for
Bosch ME7 boards: STM32F4/F7, ChibiOS). Its core turns edges of the crank
sensor into injector and coil pulses: the trigger is decoded into teeth, each
tooth schedules timed actions, and one hardware timer runs them. This directory
holds TLA+ models of that core, the TLC runs that check them on small instances
and the proofs that extend the most important results to instances of any size.

Paths below are relative to `src/firmware/`.

## The system

| Part | State it keeps | Operations | Hard because |
| --- | --- | --- | --- |
| Event queue and executor (`controllers/system/timer/event_queue.cpp`, `single_timer_executor.cpp`, `hw_layer/microsecond_timer.cpp`) | sorted linked list of `scheduling_s`, `reentrantFlag`, the one-shot timer | `scheduleByTimestampNt` (any context, also from callbacks), `onTimerCallback` | callbacks re-enter, the timer is set from two places, a latched interrupt races a new alarm, truncated 32-bit times |
| Injection schedule (`controllers/engine_cycle/main_trigger_callback.cpp`, `fuel_schedule.cpp`) | one `InjectionEvent` per cylinder with two timers and `isScheduled`; `isReady`; `overlappingCounter` per injector | tooth, start, end, rebuild, prime pulse | timers run inside the loop over the events, modes change while injections are under way |
| Ignition schedule (`controllers/engine_cycle/spark_logic.cpp`, `controllers/math/engine_math.cpp`) | one `IgnitionEvent` per cylinder with dwell and spark timer and list entry, `outOfOrder` and `signalFallSparkId` per coil | tooth, dwell, spark, multispark, rebuild | a spark may come before its dwell, events share coils, positions are recomputed while timers are pending |
| Trigger decoding (`controllers/trigger/trigger_decoder.cpp`, `trigger_central.cpp`) | durations of the last teeth, synchronization, index, revolution counter | edge, cam signal | lost, extra and noisy edges |
| RPM and spinning state (`controllers/engine_cycle/rpm_calculator.cpp`) | `state`, `rpmValue`, `oneDegreeUs`, `isSpinning` | first tooth of a cycle, spin-up, stop | two interrupts both write, one over the other; `NaN`, infinity and -1 as special values |
| Configuration storage (`controllers/flash_main.cpp`, `controllers/algo/engine_configuration.cpp`, `hw_layer/ports/stm32/`) | two checksummed copies, pending flag, version, active configuration | write, read at boot, change notification | power loss between any two writes; the write interrupts the burn |
| TunerStudio (`console/binary/tunerstudio.cpp`) | working copy of the configuration | write, burn | changes the configuration under running interrupts |
| PWM, tooth logger, periodic tasks | phase index; circular buffer | timer callback, edge | self-rescheduling; interrupt against thread |
| Engine math, sensors, actuators, CAN, serial | floating point values | - | numeric, little control state |

Interaction: an edge goes through the decoder, which may start the spin-up or
stop the rpm, and then to the listeners in order, first
`rpmShaftPositionCallback`, then `mainTriggerCallback`; the latter schedules
start and end of injections and of coil charge with the executor; the executor's
callbacks drive the pins and compute the next positions of their own cylinder.
The tuner's thread changes the configuration, and a change of the trigger's
settings has both schedules rebuilt. On ME7 boards the trigger interrupt has
priority 3, the executor's timer priority 4 and the system timer, in which the
slow callback runs, priority 8 (`config/boards/ME7_Ecu_V2/mcuconf.h:30,34,44`);
the kernel lock masks all of them.

What makes each part correct:

* executor: list sorted and consistent with the flags; each record runs once,
  never early, in order; no pending work without a wake-up; everything
  scheduled is executed;
* injection: the timers of two injections of a cylinder never mix; no end is
  lost; the overlap counters and the pins agree with the injections under way;
  the schedule fits the mode of the engine; a cylinder is never blocked for ever;
* ignition: a charged coil has a spark to come, and fires;
* trigger and rpm: after any finite disturbance the index follows the shaft, the
  revolution counter tells the two halves of the cycle apart, and the rpm is the
  shaft's, in all variables that hold it;
* storage: a whole configuration survives a power loss at any point; a burn
  reaches the storage; a change of the trigger's settings is not forgotten.

`controllers/algo/engine.cpp:404` (`doScheduleStopEngine`) has no caller, so
`needToStopEngine` is always false and `enginePins.stopPins` is unreachable;
`Engine::watchdog()` has no caller either: no model has a step for them. Vendored
and generated code (ChibiOS, `ext`, `java_console`, `java_tools`, `misc`,
`controllers/generated`) is out of scope; it is most of the repository's lines.

## Modules

* `EventQueue`: the linked list, as a sequence with `momentX` and `isScheduled`
  as functions on the records. `InsertTask`, `NextEventTime`, `NothingDue` and
  `UnlinkHead` are `insertTask`, `getNextEventTime` and the two halves of the
  loop of `executeAll`.
* `SingleTimerExecutor`: EXTENDS it with lock, flag, timer and clock. `pc` says
  where the holder of the lock is; a thread enters by `Schedule`, the hardware
  by `TimerInterrupt`, a callback schedules by `ScheduleFromCallback`. The clock
  advances and the timer expires between any two steps. `irq` is the latched
  interrupt: when the timer is stopped and started again, it may survive or not.
* `TimedActions`: the abstract specification, what `scheduler.h` promises: run
  once, not early, in the order of the moments. `ExecutesAsPromised` is the
  refinement; `due` is the moment of a record while it is scheduled.
* `InjectionSchedule`: from the tooth to the pin, built on that promise instead
  of on the executor's details: all that remains of time is that the end of an
  injection does not run before its start (an injection lasts at least 50us,
  `main_trigger_callback.cpp:159`). Which tooth belongs to which event is a
  choice (`ToothSkipped` or `ScheduleStart`), since angles change with every
  rebuild. Timers run between the steps of the loop over the events, because
  every scheduling call executes what is due. A stop by the slow callback is two
  steps (`ClearRpm`, `ClearState`) with interrupts in between; one by the trigger
  interrupt, which has lost synchronization, is one (`SetStopSpinning`). Threads
  run outside of all interrupts (`ThreadsRun`). The rpm and the time of a degree
  are one variable here; `TriggerCentral` has them apart. `PrimeLoad` and `PrimeStore` split the increment of a counter on the
  start-up thread, which takes no lock.
* `PairedInjections`: the abstract specification of the injection, what the events
  promise the injectors: an injection is planned, starts and ends once, its end
  closes what its start opened, and the overlap counters count nothing else. A
  change of mode, on an engine with two, resets the counters and may replace what
  the open injections will close. `InjectsInPairs` is the refinement: an event is
  `free`, `planned` or `open` by its flag and its start timer, and holds what
  `ClosedBy` says its end will close.
* `IgnitionSchedule`: from the tooth to the coil, on the same promise. `Tooth`
  is an edge up to the loop over the angle-based list. It finds an rpm of zero,
  a noisy one, a valid one with the ignition switched off, or one that counts
  (`Rpms`); only the first begins a spin-up. Teeth follow each other except
  across a loss of synchronization (`Resynchronize`). `ScheduleListed`,
  `HandleDwell` and `HandleSpark` are the calls that schedule, with
  `TurnSparkPinHigh` and `FireSpark` free to run between them. Positions are
  teeth (`Positions`: a share of the cycle, moved by the timing and the dwell).
  A timer may be `Late` teeth behind the tooth that set it, which is how an
  accelerating engine has a low come before its high. `disturbed` remembers
  coils for which the code gives no promise (see Bounds).
* `TriggerCentral`: a wheel with one missing tooth on a shaft that turns by half
  a pitch at a time. `HandleShaftSignal` is a whole edge: `decodeTriggerEvent`,
  the listeners' index, `setSpinningUp` and `rpmShaftPositionCallback` as
  functions on a record of the rpm's variables. `Cam` is the signal of
  `VVT_FIRST_HALF`. The slow callback is one action per assignment
  (`CheckIfSpinning` to `ClearState`), the edges come in between.
  `LoseEdge`, `NoiseEdge`, `LoseCam`, `NoiseCam` and `Pause` disturb; `clean`
  counts the revolutions since.
* `ConfigStorage`: working copy, configuration in use, the two stored copies,
  the pending flag, the version and the change flag. A configuration is a pair
  of numbers (the engine's part at the beginning, on which the trigger depends,
  and the tables), so that a copy that is half new is a value of its own. A
  write is two steps per copy in flash (erase, program) or in FRAM (half-way,
  done). `PowerLoss` is possible between any two steps and includes the boot.
* `AtomicStorage`: the abstract specification of the two copies: a write replaces
  what a boot will find in one step (`Store`), a power failure loses only what was
  not stored. It also says where the promise ends (`Lose`): a write begins by
  giving up the first copy, and when no second one is left what was stored may be
  lost. `StoresAtomically` is the refinement: `stored` is what
  `readConfiguration` would find.
* `...Proofs`: theorems and proofs of `EventQueue`, `SingleTimerExecutor`,
  `InjectionSchedule`, `IgnitionSchedule`, `TriggerCentral` and `ConfigStorage`.
  `InjectionPinsProofs` (counters and pins) and `TriggerRecoveryProofs` (phase and
  rpm) build on the proofs of their component.
  `MCSingleTimerExecutor`, `MCInjectionSchedule`: instances; the other modules
  take numbers as constants and need none.

Operators whose comment begins with "Mutant" are not part of the model: each is
one definition of it changed as a plausible mistake would, and makes a property
fail when it takes that definition's place.

## Runs

| Run | Instance | Shows |
| --- | --- | --- |
| `Executor` | 2 records, clock 0..5 | `WakeupNotLost`, `QueueConsistent`, refinement of `TimedActions`, `ScheduledIsExecuted` |
| `InjectionCalm` | 3 cylinders, four pairs of modes | no end ignored, openings have ends, schedule fits the mode, events are released; refinement of `PairedInjections` |
| `InjectionDisturbed` | 2 cylinders; noise, prime pulse, mode tuning | types and counters at or above zero; `PairsDoNotMix` |
| `InjectionOverlap` | 4 cylinders, every mode, two wires; noise, trigger tuning | counter and pin stay in sync when injections overlap; refinement of `PairedInjections`, without its `ChangeMode` |
| `InjectionPrimeEnd` | 2 cylinders, prime pulse | `NoDownIgnored` fails |
| `InjectionModeChange` | 2 cylinders, different modes | `CounterInSync` fails |
| `InjectionNoise` | 2 cylinders, different modes, noise | `EveryOpeningHasItsEnd` fails |
| `IgnitionShared` | 2 cylinders on 2 wasted-spark coils, 8 teeth, a second spark, stalls | `ChargedHasSpark`, `ChargedCoilFires` |
| `IgnitionRebuilt` | 2 cylinders, individual coils, 6 teeth, trigger tuning, nothing late | `ChargedHasSpark` fails |
| `TriggerCentral` | a wheel of two teeth and a gap at 120 rpm, fast spin-up | `SyncRecovers`, `PhaseRecovers`, `RpmRecovers` |
| `ConfigStorage` | 3 edits, 2 power losses, flash and FRAM | `StoredSurvives`, `SettledIsStored`, `BurntIsStored`, refinement of `AtomicStorage` |
| `ConfigChangeLost` | 1 edit, no power loss | `TriggerChangeIsSeen` fails |

Five runs are disagreements of the code with its own comments:

* **Prime pulse.** It uses the end timer of event 0 but not its flag. If the
  engine is cranked while the pulse lasts, `insertTask` drops the end of the
  first injection of event 0; `isScheduled` stays up and the event is blocked,
  its injector counted open (`event_registry.h:45-46` wants no end ignored).
* **Mode change.** `resetOverlapping` clears counters, not timers. An old end
  closes an injection that started after the reset (`rpm_calculator.cpp:166-169`
  says the reset keeps the counter in sync with reality).
* **Noise at the start.** With an unrealistic rpm the engine goes to CRANKING
  (documented as `0 < RPM`), the injectors are reset, and the rebuild fails for
  want of an rpm. The later rebuild comes without a reset, and a pending
  injection opens one injector and closes another.
* **Ignition rebuilt.** A change of the trigger's settings rebuilds the positions
  of all ignition events at the first tooth of a cycle, while their timers and
  list entries are those of the old positions. An event whose spark waits for
  this tooth can be charged again at it; the old spark comes first, the new one
  is dropped, and the coil stays charged for a cycle (`spark_logic.cpp:352-356`
  holds that "everything works"). Without the change the same instance passes.
* **Change lost.** `incrementGlobalConfigurationVersion` counts the version
  before the flag is set. A first tooth in between uses the version up; the flag
  is cleared at the next one without a rebuild (`trigger_central.cpp:558`: "we do
  not want to miss two updates in a row").

A trigger setting tuned while a spinning-up engine has different modes causes
the third effect as well, without noise; the counters then grow without bound in
the model, which is why no run turns on mode tuning and trigger tuning together.

Met while modelling, without a run of their own:

* A stop that is interrupted by an edge leaves an engine STOPPED with a positive
  rpm, with `isSpinning` up, or with `oneDegreeUs` infinite, which
  `rpm_calculator.h:25` ("not spinning, RPM=0") does not foresee; a pending flash
  write then starts although the engine turns. `RpmRecovers` shows that it heals.
* Fast spin-up is undone by every slow callback (each 50ms) until the first
  tooth of a cycle has been seen, since `lastRpmEventTimeNt` is still old.
* The dwell of a stopped engine is not NAN: `cisnan` of the integer rpm
  (`engine2.cpp:133`) is always false, and the dwell angle becomes zero, the
  quotient by an infinite time. `spark_logic.cpp:147-150` ("we are here if engine
  has just stopped") is not reached that way and the next positions are computed;
  the model does that.
* Tables written on-line go to the configuration in use at once, although
  `tunerstudio.cpp:98-99` says of the working copy that changes "have no effect
  until this copy is explicitly propagated".
* A flash write that interrupts a burn half-way stores a mixture of two
  configurations with a valid checksum; the pending write that follows repairs
  it, unless the power fails in between. `SettledIsStored` is about this order.

### Bounds

* Two records and six moments give every relation of a new record to the head,
  and a head that is left over when the timer interrupt sets the alarm again (two
  ticks of delay, one of `LateDelay`, so no clock below four shows it). A record
  inserted between two others needs three; that the list and the order of the
  runs are right for any number is proved (`QueueStaysConsistent`,
  `ExecutorKeepsPromise`).
* Clock: `MaxTime` is the last moment and stands for all later ones: an alarm
  beyond it may expire at it. Moments asked for range over all of `0..MaxTime`,
  past and future. `TooFarUs`, `LateDelay` and `HalfRange` are scaled so that
  each branch is reached: moments that are refused, that are spun for, and
  differences that wrap. Of `TooFarUs`, only `> 2` and more than `LateDelay`
  ticks matter (`TimeAssumption`); the firmware has 10s against 10us. A tick is
  a microsecond in the run; the theorems are for any clock rate.
* Records: three give a new record before, between and behind two others. The
  theorems are for any number.
* Cylinders of the injection: two for the interplay of two events; three so that
  the half used by the batch mode is rounded; four so that two events share a
  wire in batch mode.
* `overlappingCounter` is an 8-bit integer in the code and a number in the
  model: `EveryOpeningHasItsEnd` bounds it by the number of events in the runs
  where it holds. The counter of an injector whose ends get lost (the findings)
  would need 127 losses to wrap, beyond the bounds of any run.
* Differences of times: the truncation to 32 bits when the timer is set is in the
  model (`Int32`); the one in the check of `scheduleByTimestampNt`
  (`single_timer_executor.cpp:80`) needs a moment more than 35 minutes ahead,
  which no caller asks for, and is not. A moment more than 10s ahead is refused
  in `SingleTimerExecutor`; an injection cannot ask for one, since an rpm that
  counts as valid is at least 25 (`RPM_LOW_THRESHOLD`), 4.8s for a whole cycle.
* Ignition: two cylinders whose coils are shared both ways. A cycle of eight
  teeth keeps the charges of the two events apart: spark one tooth late, dwell
  two teeth before it, timers one tooth late, one extra spark. **This is a
  condition, not a convenience**: when two events overlap on a shared coil
  (`Late = 2`, `TimingTeeth = 2` or `MaxSparks = 2` with the same eight teeth),
  `ChargedHasSpark` fails, because `outOfOrder` is kept per pin and the low of
  the one event is taken for that of the other. The code only warns of a dwell
  that is too long. `disturbed` excludes two more cases, until a spark comes
  after its dwell again: coils in use when a tooth is ignored for want of an rpm
  (nothing fires them until their tooth comes round again, "coils might be still
  open here!", `main_trigger_callback.cpp:283`) or synchronization is lost, and
  coils given to an event whose dwell was pending when the mode changed.
  `ChargedCoilFires` excludes nothing: also those coils fire once the engine keeps running.
* Trigger: `Pitches = 3` is the smallest wheel whose gap has the ratio 2 to both
  neighbours. At 12 half pitches a second, a silence of a second (lost
  synchronization) and of two (no rpm) are both near the length of a cycle, so
  that measured times, timeouts and the slow callback interleave in every way. A
  cycle of eight half pitches or less is an unrealistic rpm, so noise gives all
  kinds of rpm. The speed of the shaft while it turns is fixed: the ratio of
  durations is that of angles. The slow callback lasts one half pitch at most.
* Storage: three edits give a value before, in and after a burn; one power loss
  cuts a write short and one more the repair of it.

### Fairness

Executor (`FairSpec`): the clock advances, the timer expires, the holder of the
lock goes on (it runs with interrupts masked). Strong fairness for
`TimerInterrupt`: threads that keep scheduling take the lock again and again, and
a pending unmasked interrupt is served when the lock is released. No fairness for
callers. `ScheduledIsExecuted` supposes that callbacks do not for ever schedule
work that is overdue already: the loop of `executeAllPendingActions` has no limit
("TODO: add a counter & figure out a limit of iterations?").

Injection: an interrupt that has begun completes its loop, and the executor runs
what it was given until a fatal error stops the timer, which is what
`ScheduledIsExecuted` shows. No tooth has to come.

Ignition: the same, and the engine turns (`WF_vars(Tooth)`; a tooth may still be
ignored for want of an rpm). The promise itself is conditional on an engine that
from some time on keeps its rpm.

Storage: a burn that has begun goes on (it is one thread, never blocked), and the
slow callback comes every 50ms; `BurntIsStored` asks for an engine that stays
stopped. The trigger's run has no liveness: its properties bound the recovery in
revolutions instead.

## Proofs

All theorems are for every value of the constants that satisfies the named
assumptions (`TimeAssumption`, `LateDelayAssumption`, `InjectionAssumption`,
`TriggerAssumption`, `StorageAssumption`).

**Executor.** The inductive invariant `IInv` adds to the checked properties:

* `ReentrantFlagGuardsCallbacks`: the flag is up exactly while callbacks may run;
* `QueuedNotTooFar`: what is queued is less than `TooFarUs` ahead, so the timer
  never refuses the delay (it would warn and keep the old alarm);
* `OldAlarmStillGood`: the reason why an entry that does not set the timer is
  harmless. While such an entry has executed nothing, the old alarm is early
  enough for the head. Once it executes the head, the head's moment has come, so
  that alarm is latched or at most `Slack` ahead, and thus good for any head
  callbacks may leave behind.

`NextKeepsIInv` has a lemma per group of steps; insertion and unlinking rest on
`InsertTaskKeepsConsistent` and `UnlinkHeadKeepsConsistent`, and the conversion
to microseconds on `AlarmDelayIsGood`. From `IInv` follow `TypesAreKept`,
`QueueStaysConsistent`, `NoWakeupIsLost`; `ExecutorKeepsPromise` maps each step
to a step of `TimedActions` or to a stutter.

**Injection.** `IInv` adds `HalfwayIsScheduled`: between the scheduling of start
and end, the event's flag is up and its end timer is free, or held by the prime
pulse. An end clears the flag only when the start has run, so both timers are
free then (`PairsNeverMix`). Without the prime pulse (`~Primes`) the end timer
really is free, so no end is ignored (`NoEndIsIgnored`); with it the theorem is
false, as `InjectionPrimeEnd` shows.

`ScheduleAlwaysFits` is for an engine whose modes are not tuned while it turns
(`~TunesModes`) and whose rpm is never unrealistic (`~NoisyTrigger`): the noisy
rpm makes a rebuild return early, and tuned modes are looked at only at the next
change of the state. Its invariant `FitInv` says that the rpm is never noisy
(`NeverNoisy`), so that every rebuild `setRpmValue` asks for goes through, and
that the ready schedule fits also the engine that does not turn when its two
modes are the same (`ReadyFits`): for such an engine `setRpmValue` does not
rebuild when it starts to crank. A cranking or running engine need not have an
rpm, since the slow callback clears it first; its mode does not depend on it.

`InjectionPinsProofs` counts. Its lemma `StepKinds` sorts the steps: each opens
the injectors of one event, closes those of one event, resets everything, or
leaves the injectors alone. For each injector the invariant compares the counter
with the set of events whose injection has started and whose end is to come:
`NoneTooMany` says that it is at most their number, `NoneLost` that it is at least
the number of those no reset has cut off, and `WireFollows` that a positive
counter keeps the pin high. What can break this is a rebuild that gives an event
other injectors between its start and its end. It is harmless when every schedule
gives the same ones (`OneModeFits`: one mode for cranking and running), or when the
schedule is built once only (`BuiltOnce`, from `Calm`). `OpeningsAlwaysEnd` allows
either, `CounterAlwaysInSync` asks for one mode; both exclude the prime pulse and
tuned modes. None of these conditions can be dropped: `InjectionPrimeEnd`,
`InjectionModeChange` and `InjectionNoise` are what happens without them.
`InjectionTypesAreKept` needs none of them; no counter ever goes below zero.

`InjectionsArePaired` is the refinement of `PairedInjections`, for the engines of
`OpeningsAlwaysEnd`. It needs no counting, only the invariant of the pairs: the two
halves of an injection are of one kind (`KindsOfPairs`), so that a start opens what
`ClosedBy` names, and only `setRpmValue` between two modes changes that afterwards.
One lemma per group of steps says what the step does to flags, held injectors and
counters (`LoopHolds`, `StartHolds`, `EndHolds`, `MainTriggerHolds`); the counting
above rests on the same lemmas.

**Ignition.** `IgnitionTypesAreKept` says more than its name: every output of an
event is a coil of the engine. `prepareCylinderIgnitionSchedule` adds a twin coil,
half of the coils away, when the mode of this moment is wasted spark, to a coil
numbered by the mode as it was at the last edge of the trigger. Were the first
"wasted spark" and the second "individual coils", the sum would pass the last
coil. `ModesAgree` excludes that: only a faster spin-up changes the mode, the edge
that begins it changes both, and the end of the spin-up changes the first only.

`ChargedAlwaysHasSpark` is for any number of cylinders and teeth, any mode and
sharing of coils, any multispark series, lost rpm and sparks limited or not. It
needs room on the cycle. `Reach` is how far behind its event's share of the cycle a spark can
come: the timing, and `Late` teeth for every spark of a series. `SparksApart`: two
events that may drive the same coil, in any mode that a faster spin-up goes through
(`CoilsOf`), have shares more than `Reach` apart; the charge of the one may begin
before the sparks of the other are over. `DwellFits`: dwell and `Reach`
together are shorter than a cycle. Both are sharp: TLC finds the property violated
with `Reach` equal to the distance of the shares (see Bounds), and, for individual
coils, with dwell and `Reach` equal to a cycle. The code only warns when they do
not hold. One more condition: the trigger is not tuned (`IgnitionRebuilt` shows
why). The mode may change while coils are charged: an event takes the coils of the
new mode when its series is over, and a dwell that is pending then is excluded as
`disturbed`.

The invariant has a part per event (`EventInv`) in teeth from the event's share: a
series of sparks is over before the next dwell, and a dwell that is still pending
belongs to a spark ahead, unless it is within reach of the share and thus late.
The part about coils is `ChargedIsCovered`: a charged coil has an event whose spark
is to come *and whose dwell is not pending*. That is stronger than the property
and necessary: a spark that runs before its own dwell lowers a coil some other
event has charged without leaving `outOfOrder` behind. `LateDwellHarmless` says
that the dwell which then follows either meets `outOfOrder` and its own `sparkId`,
or charges a coil that another event will fire.

**Trigger.** `SyncAlwaysRecovers` is for a wheel of any size at any speed above
one gap a second. The invariant `DecoderInv` adds what an undisturbed shaft has
taught the decoder since `clean` was zero: `TimesOfWheel`, after one gap the time
since the last edge and the last duration are those of the wheel, so that the
ratio of the durations is 2 at the gap and 1 or 1/2 elsewhere, and only the gap
can be taken for one; `IndexOfWheel`, after two gaps the decoder is synchronized
and its index is the tooth that passed last. The arithmetic of slots and teeth is
in lemmas about one step of the shaft. `TriggerTypesAreKept` comes with it.

`TriggerRecoveryProofs` proves `PhaseAlwaysRecovers` and `RpmAlwaysRecovers` for an
engine that is `FastEnough`: a cycle is shorter than `RpmTimeout` (two seconds in
the code: 60 rpm), longer than one at `UNREALISTIC_RPM`, and the slow callback takes
less than a revolution to stop the engine. Outside these speeds the code gives no
rpm, so that there is nothing to recover. The argument follows the repair. A
counter out of phase has its first tooth in the middle of the cycle (`OutOfPhase`);
its second one gives an rpm, which lets the next cam tooth through, and that
corrects the counter. The correction spoils the measurement in progress, the first
tooth in phase may therefore give any rpm (`FirstToothInPhase`), and the next one,
a cycle later, the right one (`RpmIsMeasured`). A stop that was under way when the
shaft began to turn cannot last from one first tooth to the next (`StopIsRecent`),
so that what it clears is measured again.

**Storage.** The invariant says for every step of a write and of a burn which
copy is whole and which equals the configuration in use: while the first copy is
erased the second is the last complete write, and once the first is programmed it
is the configuration being written. `StoredAlwaysSurvives` follows from its part
about the copies, `SettledAlwaysStored` from the part that says that between a
burn's copy and its request something is still under way, and that afterwards the
pending flag or a running write vouches for it. `StorageTypesAreKept` comes with
it. `StorageIsAtomic` is the refinement of `AtomicStorage` on both kinds of board: a
write takes effect when the first copy is whole (`FirstIsLoaded`), and giving that
copy up before changes nothing as long as the second one is what a boot would find
(`GivingFirstUpIsAtomic`). Unlike `StoredSurvives` it has no history of the writes
that were cut short: it tells the case in which the configuration can be lost by the
copies themselves, and it says that a write which does not begin in that case changes
what a boot would find once, not to the new configuration and back.

Every invariant and action property of the passing runs is the conclusion of one
of these theorems, some under the conditions named above; each run satisfies the
conditions of the theorem about its property.

Only model-checked: liveness (`ScheduledIsExecuted`, `EventIsReleased`,
`ChargedCoilFires`, `BurntIsStored`; liveness under fairness and ENABLED are out
of the prover's reach). No module declares RECURSIVE operators.

## Not modelled

* Counters, durations, messages and traces; the watchdog of the timer (it only
  warns or raises the fatal error, which is a step of its own); the computation of
  angles and durations, except for its early returns; the early return of a rebuild
  before the injection offset is known (`fuel_schedule.cpp:59`), which has the
  effect of the modelled one; `stolen lock` (`single_timer_executor.cpp:144`): no
  callback of the repository unlocks.
* Ignition: settings that make the dwell zero (`handleSparkEvent` then returns and
  nothing is charged), the fatal error, the tooth of a symmetrical crank, and the
  jump of the index when the cam corrects the phase of an engine that has its rpm.
  The early return of `initializeIgnitionActions` for angles that are NAN
  (`spark_logic.cpp:330-335`) is never taken: `timingAdvance` and `dwellAngle` are
  zero at first (`engine_state.h:55`), `getAdvance` (`advance_map.cpp:189-226`) and
  `getSparkDwell` (`engine_math.cpp:120-124`) replace NAN by zero, and the dwell
  divided by the time of a degree is a number or zero.
* Trigger: wheels without a gap or with several, both edges, symmetrical cranks
  and the cam modes for them, the noise filter, the flag of decoding errors (it is
  only shown), the VVT position, an accelerating shaft.
* Storage: errors of the flash driver and of FRAM, which nothing reacts to
  (`flash_main.cpp:64,83`; FRAM verifies the first 32 bytes), and the console's
  command that writes without asking whether the engine is stopped
  (`bench_test.cpp:226`).
* PWM generation: one record that reschedules itself with floating point periods;
  its control is a case of `ScheduleFromCallback`. Tooth logger: diagnostic.
  TunerStudio packets, CAN and serial: encoding and I/O. Engine math, sensors,
  actuators: numeric.

## Plan

1. Executor and event queue. *Done, proved.*
2. Injection schedule. *Done, proved: timers, schedule's mode, counters and pins,
   the pairs of starts and ends.*
3. Ignition schedule. *Done, proved.* Next: a refinement of a coil's charge and
   spark.
4. Trigger, cam and rpm. *Done, proved: synchronization, phase and rpm.* Next:
   two gaps.
5. Configuration. *Done, proved, with the atomic storage it implements.* Next: errors of the flash driver.
6. Composition of `TriggerCentral` with the two schedules, which now take the
   tooth and the rpm as given.
