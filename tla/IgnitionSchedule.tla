--------------------------- MODULE IgnitionSchedule ---------------------------
(***************************************************************************)
(* From the trigger tooth to the coil (controllers/engine_cycle/           *)
(* spark_logic.cpp, mainTriggerCallback).                                  *)
(*                                                                         *)
(* An IgnitionEvent charges its coils when its dwell timer runs and fires  *)
(* them when its spark timer runs; the spark waits in the angle-based list *)
(* until its own tooth comes.  Every spark computes the positions of the   *)
(* next one, which are choices here.  Of time, two facts remain: timers    *)
(* run in the order of their moments, and a timer is at most Late teeth    *)
(* behind the tooth that set it (the engine accelerates).  Timers also run *)
(* inside the trigger handler, since every scheduling call executes what   *)
(* is due.                                                                 *)
(***************************************************************************)
EXTENDS Integers, FiniteSets

CONSTANTS
  NumCylinders,  \* engineConfiguration->specs.cylindersCount
  NumTeeth,      \* trigger events of an engine cycle
  TimingTeeth,   \* bound of the teeth by which the timing moves the spark
  DwellTeeth,    \* bound of the teeth from dwell to spark
  Late,          \* bound of the teeth a timer may run late
  IgnitionMode,  \* engineConfiguration->ignitionMode
  TwoWireBatch,  \* engineConfiguration->twoWireBatchIgnition
  FasterSpinUp,  \* engineConfiguration->isFasterEngineSpinUpEnabled
  MaxSparks,     \* bound of multispark.count
  TunesTrigger,  \* may trigger settings change while the engine turns
  Stalls         \* may the rpm be lost, and teeth be ignored

(* What a tooth finds: no rpm, NOISY_RPM, a valid rpm with enableIgnition  *)
(* off, and one with it on.  Only the last has it count for the ignition.  *)
Rpms == {"zero", "noisy", "off", "valid"}
IgnitionModes == {"ONE_COIL", "TWO_COILS", "WASTED_SPARK", "INDIVIDUAL_COILS"}

ASSUME IgnitionAssumption ==
  /\ NumCylinders \in Nat \ {0, 1}
  /\ NumTeeth \in Nat /\ NumTeeth >= NumCylinders
  /\ TimingTeeth \in Nat /\ DwellTeeth \in Nat
  /\ Late \in Nat
  /\ IgnitionMode \in IgnitionModes
  /\ TwoWireBatch \in BOOLEAN /\ FasterSpinUp \in BOOLEAN /\ TunesTrigger \in BOOLEAN
  /\ MaxSparks \in Nat
  /\ Stalls \in BOOLEAN

Events == 0 .. NumCylinders - 1
Coils == Events
Teeth == 0 .. NumTeeth - 1

Idle == -1       \* a timer that is not scheduled
NoEvent == -1

VARIABLES
  tooth,           \* trgEventIndex of the last tooth
  pc,              \* where the trigger handler is
  current,         \* the event its loop has reached
  limited,         \* limitedSpark of this tooth
  localTooth,      \* local sparkAngle of handleSparkEvent
  rpm,             \* GET_RPM_VALUE, with enableIgnition
  spinningUp,      \* rpmCalculator.isSpinningUp()
  pinMode,         \* engine->ignitionModeForPinIndices
  isReady,         \* ignitionEvents.isReady
  outputs,         \* [Events -> SUBSET Coils]: IgnitionEvent::outputs
  dwellTooth,      \* dwellPosition.triggerEventIndex
  sparkTooth,      \* sparkAngle, as the tooth before it
  queuedTooth,     \* sparkEvent.position.triggerEventIndex
  angleList,       \* the events in angleBasedEventsHead
  dwellTimer,      \* teeth since dwellStartTimer was scheduled, or Idle
  sparkTimer,      \* the same of sparkEvent.scheduling
  sparkLater,      \* its moment is known to be after that of the dwell timer
  sparksRemaining, \* IgnitionEvent::sparksRemaining
  high,            \* the coils that are being charged
  outOfOrder,      \* IgnitionOutputPin::outOfOrder
  fallOf,          \* the event whose sparkId is the coil's signalFallSparkId
  disturbed        \* history: the coils in use when a tooth was ignored, or
                   \* given to an event whose dwell was still to come; until
                   \* a spark of theirs comes after its dwell

handlerVars == <<tooth, pc, current, limited, localTooth>>
engineVars == <<rpm, spinningUp, pinMode>>
scheduleVars == <<isReady, outputs, dwellTooth, sparkTooth>>
listVars == <<queuedTooth, angleList>>
timerVars == <<dwellTimer, sparkTimer, sparkLater, sparksRemaining>>
coilVars == <<high, outOfOrder, fallOf, disturbed>>
vars == <<handlerVars, engineVars, scheduleVars, listVars, timerVars, coilVars>>

Init ==
  /\ tooth = 0 /\ pc = "idle" /\ current = 0
  /\ limited = FALSE /\ localTooth = 0
  /\ rpm = "zero" /\ spinningUp = FALSE
  /\ pinMode = IgnitionMode
  /\ isReady = FALSE
  /\ outputs = [e \in Events |-> {}]
  /\ dwellTooth = [e \in Events |-> 0]
  /\ sparkTooth = [e \in Events |-> 0]
  /\ queuedTooth = [e \in Events |-> 0]
  /\ angleList = {}
  /\ dwellTimer = [e \in Events |-> Idle]
  /\ sparkTimer = [e \in Events |-> Idle]
  /\ sparkLater = [e \in Events |-> FALSE]
  /\ sparksRemaining = [e \in Events |-> 0]
  /\ high = {}
  /\ outOfOrder = {}
  /\ fallOf = [c \in Coils |-> NoEvent]
  /\ disturbed = {}

-----------------------------------------------------------------------------
(* Which coils an event drives.                                            *)

(* getCurrentIgnitionMode: without the phase, a spinning-up engine uses    *)
(* wasted spark.                                                           *)
ModeWhen(up) ==
  IF IgnitionMode = "INDIVIDUAL_COILS" /\ up THEN "WASTED_SPARK" ELSE IgnitionMode

(* getIgnitionPinForIndex                                                  *)
IgnitionPin(mode, e) ==
  CASE mode = "WASTED_SPARK" -> e % (NumCylinders \div 2)
    [] mode = "INDIVIDUAL_COILS" -> e
    [] mode = "TWO_COILS" -> e % 2
    [] OTHER -> 0

(* The outputs that prepareCylinderIgnitionSchedule gives an event, the    *)
(* coils numbered in the firing order.                                     *)
OutputsFor(e, up, mode) ==
  LET index == IgnitionPin(mode, e) IN
  {index} \cup
    (IF ModeWhen(up) = "WASTED_SPARK" /\ TwoWireBatch
     THEN {index + NumCylinders \div 2} ELSE {})

(* The teeth at which an event may be charged and fired: the spark at the  *)
(* event's share of the cycle or up to TimingTeeth later, the dwell up to  *)
(* DwellTeeth before it.                                                   *)
SparkTeeth(e) ==
  {(e * (NumTeeth \div NumCylinders) + a) % NumTeeth : a \in 0 .. TimingTeeth}

DwellTeethFor(s) == {(s + NumTeeth - d) % NumTeeth : d \in 0 .. DwellTeeth}

Positions(e) == UNION {DwellTeethFor(s) \X {s} : s \in SparkTeeth(e)}

(* prepareCylinderIgnitionSchedule after a spark.                          *)
Prepare(e) ==
  \E p \in Positions(e) :
    /\ dwellTooth' = [dwellTooth EXCEPT ![e] = p[1]]
    /\ sparkTooth' = [sparkTooth EXCEPT ![e] = p[2]]
    /\ outputs' = [outputs EXCEPT ![e] = OutputsFor(e, spinningUp, pinMode)]
    /\ UNCHANGED isReady

(* initializeIgnitionActions: the same for all events.  Its early return   *)
(* for a timingAdvance or dwellAngle that is NAN is never taken: both are  *)
(* 0 at first, getAdvance and getSparkDwell return 0 for what is NAN, and  *)
(* a quotient by the time of a degree is not NAN either (see FireSpark).   *)
InitializeIgnitionActions(up, mode) ==
  /\ \E p \in {f \in [Events -> Teeth \X Teeth] :
                  \A e \in Events : f[e] \in Positions(e)} :
       /\ dwellTooth' = [e \in Events |-> p[e][1]]
       /\ sparkTooth' = [e \in Events |-> p[e][2]]
  /\ outputs' = [e \in Events |-> OutputsFor(e, up, mode)]
  /\ isReady' = TRUE

(* mainTriggerCallback and onTriggerEventSparkLogic before the loops.  A   *)
(* changed trigger makes the first tooth of the cycle invalidate the       *)
(* schedule, even with the ignition off; a schedule that is not ready is   *)
(* built by a tooth that counts.                                           *)
PrepareIgnitionSchedule ==
  \E changed \in (IF TunesTrigger /\ tooth' = 0 THEN BOOLEAN ELSE {FALSE}) :
    IF rpm' = "valid" /\ (changed \/ ~isReady)
    THEN InitializeIgnitionActions(spinningUp', pinMode')
    ELSE isReady' = (isReady /\ ~changed) /\ UNCHANGED <<outputs, dwellTooth, sparkTooth>>

-----------------------------------------------------------------------------
(* The engine.                                                             *)

(* A spark of the event is still to come.                                  *)
SparkToCome(e) ==
  \/ sparkTimer[e] # Idle
  \/ e \in angleList
  \/ pc = "spark" /\ current = e

(* The coils whose charge or spark is under way.                           *)
CoilsInUse ==
  high \cup UNION {outputs[e] : e \in {f \in Events :
                                 SparkToCome(f) \/ dwellTimer[f] # Idle}}

(* setStopSpinning: the engine has stalled.                                *)
Stall ==
  /\ pc = "idle"
  /\ Stalls
  /\ rpm' = "zero"
  /\ spinningUp' = FALSE
  /\ UNCHANGED <<handlerVars, pinMode,
                 scheduleVars, listVars, timerVars, coilVars>>

(* Synchronization is lost, the rpm with it, and found again after the     *)
(* timers have run, at any tooth (OnTriggerSynchronizationLost).           *)
Resynchronize ==
  /\ pc = "idle"
  /\ Stalls
  /\ \A e \in Events : dwellTimer[e] = Idle /\ sparkTimer[e] = Idle
  /\ tooth' \in Teeth
  /\ rpm' = "zero"
  /\ spinningUp' = FALSE
  /\ disturbed' = disturbed \cup CoilsInUse
  /\ UNCHANGED <<pc, current, limited, localTooth, pinMode, scheduleVars,
                 listVars, timerVars, high, outOfOrder, fallOf>>

-----------------------------------------------------------------------------
(* The tooth.                                                              *)

Aged(timer) == [e \in Events |-> IF timer[e] = Idle THEN Idle ELSE timer[e] + 1]

(* One edge of the trigger: setSpinningUp and the pin indices, then the    *)
(* rpm callback, then mainTriggerCallback up to the loop over the list.    *)
(* The next tooth does not come before a timer that is Late teeth behind.  *)
Tooth ==
  /\ pc = "idle"
  /\ \A e \in Events : dwellTimer[e] < Late /\ sparkTimer[e] < Late
  /\ tooth' = (tooth + 1) % NumTeeth
  /\ dwellTimer' = Aged(dwellTimer)
  /\ sparkTimer' = Aged(sparkTimer)
  /\ LET up == spinningUp \/ (FasterSpinUp /\ rpm = "zero") IN
       /\ pinMode' = IF FasterSpinUp THEN ModeWhen(up) ELSE pinMode
       /\ spinningUp' \in {up, FALSE}
       /\ rpm' \in (IF Stalls THEN Rpms ELSE {"valid"})
  /\ disturbed' = IF rpm' = "valid" THEN disturbed ELSE disturbed \cup CoilsInUse
  /\ IF rpm' \in {"zero", "noisy"} THEN UNCHANGED scheduleVars
     ELSE PrepareIgnitionSchedule
  /\ IF rpm' = "valid" THEN pc' = "list" /\ limited' \in BOOLEAN
     ELSE UNCHANGED <<pc, limited>>
  /\ UNCHANGED <<current, localTooth, listVars,
                 sparkLater, sparksRemaining, high, outOfOrder, fallOf>>

(* scheduleByTimestampNt drops the request for a record that is scheduled. *)
Scheduled(timer, e) == IF timer[e] = Idle THEN [timer EXCEPT ![e] = 0] ELSE timer

(* Mutant: the spark leaves the list and is not scheduled.                 *)
DropListed(e) ==
  /\ pc = "list"
  /\ e \in angleList /\ queuedTooth[e] = tooth
  /\ angleList' = angleList \ {e}
  /\ UNCHANGED <<handlerVars, engineVars, scheduleVars, queuedTooth, timerVars,
                 coilVars>>

(* scheduleAllSparkEventsUntilNextTriggerTooth: the sparks that waited for *)
(* this tooth leave the list.                                              *)
ScheduleListed(e) ==
  /\ pc = "list"
  /\ e \in angleList /\ queuedTooth[e] = tooth
  /\ angleList' = angleList \ {e}
  /\ sparkTimer' = Scheduled(sparkTimer, e)
  /\ sparkLater' = [sparkLater EXCEPT ![e] = @ /\ sparkTimer[e] # Idle]
  /\ UNCHANGED <<handlerVars, engineVars, scheduleVars, queuedTooth, dwellTimer,
                 sparksRemaining, coilVars>>

ListDone ==
  /\ pc = "list"
  /\ \A e \in angleList : queuedTooth[e] # tooth
  /\ pc' = IF isReady THEN "events" ELSE "idle"
  /\ limited' = (limited /\ isReady)
  /\ UNCHANGED <<tooth, current, localTooth, engineVars, scheduleVars, listVars,
                 timerVars, coilVars>>

(* The loop over the events goes on, or the handler returns and its        *)
(* variables are gone.                                                     *)
GoOn ==
  /\ localTooth' = 0
  /\ IF current = NumCylinders - 1
     THEN pc' = "idle" /\ current' = 0 /\ limited' = FALSE
     ELSE pc' = "events" /\ current' = current + 1 /\ UNCHANGED limited

(* The event is not charged at this tooth.                                 *)
SkipEvent ==
  /\ pc = "events"
  /\ dwellTooth[current] # tooth
  /\ GoOn
  /\ UNCHANGED <<tooth, engineVars, scheduleVars, listVars,
                 timerVars, coilVars>>

(* handleSparkEvent up to the scheduling of the dwell.  None of its early  *)
(* returns is taken: the rpm that made this tooth count has run the fast   *)
(* callback (assignRpmValue), the settings give a positive dwell, and the  *)
(* delay from the tooth is not negative.  The new sparkId is not that of   *)
(* any earlier fall.                                                       *)
HandleDwell ==
  /\ pc = "events"
  /\ dwellTooth[current] = tooth
  /\ fallOf' = [c \in Coils |-> IF fallOf[c] = current THEN NoEvent ELSE fallOf[c]]
  /\ localTooth' = sparkTooth[current]
  /\ IF limited THEN UNCHANGED <<dwellTimer, sparkLater>>
     ELSE /\ dwellTimer' = Scheduled(dwellTimer, current)
          /\ sparkLater' = [sparkLater EXCEPT ![current] = FALSE]
  /\ pc' = "spark"
  /\ UNCHANGED <<tooth, current, limited, engineVars, scheduleVars, listVars,
                 sparkTimer, sparksRemaining, high, outOfOrder, disturbed>>

(* The rest of it, with scheduleOrQueue: a spark before the next tooth is  *)
(* scheduled by time, another one waits in the list for its tooth.  The    *)
(* dwell scheduled at this very tooth comes before the spark.              *)
HandleSpark ==
  /\ pc = "spark"
  /\ \E n \in (IF limited THEN {0} ELSE 0 .. MaxSparks) :
       sparksRemaining' = [sparksRemaining EXCEPT ![current] = n]
  /\ queuedTooth' = [queuedTooth EXCEPT ![current] = localTooth]
  /\ IF localTooth = tooth
     THEN /\ sparkTimer' = Scheduled(sparkTimer, current)
          /\ sparkLater' = [sparkLater EXCEPT
                              ![current] = /\ sparkTimer[current] = Idle
                                           /\ dwellTimer[current] = 0]
          /\ UNCHANGED angleList
     ELSE /\ angleList' = angleList \cup {current}
          /\ UNCHANGED <<sparkTimer, sparkLater>>
  /\ GoOn
  /\ UNCHANGED <<tooth, engineVars, scheduleVars,
                 dwellTimer, coilVars>>

-----------------------------------------------------------------------------
(* The timers.                                                             *)

(* Mutant: a low that came before its high is forgotten.                   *)
TurnSparkPinHighAlways(e) ==
  /\ dwellTimer[e] # Idle
  /\ dwellTimer' = [dwellTimer EXCEPT ![e] = Idle]
  /\ outOfOrder' = outOfOrder \ outputs[e]
  /\ high' = high \cup outputs[e]
  /\ UNCHANGED <<handlerVars, engineVars, scheduleVars, listVars, sparkTimer,
                 sparkLater, sparksRemaining, fallOf, disturbed>>

(* turnSparkPinHigh: a coil whose low of this very spark came first is     *)
(* left alone.                                                             *)
TurnSparkPinHigh(e) ==
  /\ dwellTimer[e] # Idle
  /\ dwellTimer' = [dwellTimer EXCEPT ![e] = Idle]
  /\ outOfOrder' = outOfOrder \ outputs[e]
  /\ high' = high \cup {c \in outputs[e] : ~(c \in outOfOrder /\ fallOf[c] = e)}
  /\ UNCHANGED <<handlerVars, engineVars, scheduleVars, listVars, sparkTimer,
                 sparkLater, sparksRemaining, fallOf, disturbed>>

(* The coils of the event go low.                                          *)
FireCoils(e) ==
  /\ outOfOrder' = outOfOrder \cup (outputs[e] \ high)
  /\ fallOf' = [c \in Coils |-> IF c \in outputs[e] THEN e ELSE fallOf[c]]
  /\ high' = high \ outputs[e]

(* History: a dwell that is still to come will charge the new outputs.     *)
RememberDisturbance(e) ==
  disturbed' = IF dwellTimer[e] = Idle THEN disturbed \ outputs[e]
               ELSE IF outputs'[e] # outputs[e] THEN disturbed \cup outputs'[e]
               ELSE disturbed

(* Another spark of the series, as soon as possible.                       *)
FireAgain(e) ==
  /\ sparksRemaining' = [sparksRemaining EXCEPT ![e] = @ - 1]
  /\ sparkLater' = [sparkLater EXCEPT ![e] = dwellTimer[e] = Idle]
  /\ dwellTimer' = Scheduled(dwellTimer, e)
  /\ sparkTimer' = [sparkTimer EXCEPT ![e] = 0]
  /\ UNCHANGED scheduleVars

(* Mutant: the sparks of a series are not limited.                         *)
FireSparkForEver(e) ==
  /\ sparkTimer[e] # Idle
  /\ ~(sparkLater[e] /\ dwellTimer[e] # Idle)
  /\ FireCoils(e)
  /\ FireAgain(e)
  /\ RememberDisturbance(e)
  /\ UNCHANGED <<handlerVars, engineVars, listVars>>

(* fireSparkAndPrepareNextSchedule: the coils go low; then comes another   *)
(* spark of a multispark series, or the positions of the next cycle.  They *)
(* come for a stopped engine too: the dwell is not NAN without rpm, its    *)
(* angle is then 0, as a quotient by the infinite time of a degree.        *)
FireSpark(e) ==
  /\ sparkTimer[e] # Idle
  /\ ~(sparkLater[e] /\ dwellTimer[e] # Idle)
  /\ FireCoils(e)
  /\ IF sparksRemaining[e] > 0
     THEN FireAgain(e)
     ELSE /\ sparkTimer' = [sparkTimer EXCEPT ![e] = Idle]
          /\ sparkLater' = [sparkLater EXCEPT ![e] = FALSE]
          /\ UNCHANGED <<dwellTimer, sparksRemaining>>
          /\ Prepare(e)
  /\ RememberDisturbance(e)
  /\ UNCHANGED <<handlerVars, engineVars, listVars>>

-----------------------------------------------------------------------------
Handler ==
  \/ \E e \in Events : ScheduleListed(e)
  \/ ListDone \/ SkipEvent \/ HandleDwell \/ HandleSpark

Timer(e) == TurnSparkPinHigh(e) \/ FireSpark(e)

Next ==
  \/ Stall \/ Resynchronize \/ Tooth \/ Handler
  \/ \E e \in Events : Timer(e)

(* A handler that has begun completes, the executor runs what it was given *)
(* (ScheduledIsExecuted of SingleTimerExecutor), and the engine turns.     *)
Fairness ==
  /\ WF_vars(Handler)
  /\ \A e \in Events : WF_vars(Timer(e))
  /\ WF_vars(Tooth)

Spec == Init /\ [][Next]_vars
FairSpec == Spec /\ Fairness

-----------------------------------------------------------------------------
(* Types of the variables.                                                 *)
TypeOK ==
  /\ tooth \in Teeth /\ current \in Events /\ localTooth \in Teeth
  /\ pc \in {"idle", "list", "events", "spark"}
  /\ rpm \in Rpms /\ pinMode \in IgnitionModes
  /\ {limited, spinningUp, isReady} \subseteq BOOLEAN
  /\ outputs \in [Events -> SUBSET Coils]
  /\ {dwellTooth, sparkTooth, queuedTooth} \subseteq [Events -> Teeth]
  /\ angleList \subseteq Events
  /\ {dwellTimer, sparkTimer} \subseteq [Events -> {Idle} \cup 0 .. Late]
  /\ sparkLater \in [Events -> BOOLEAN]
  /\ sparksRemaining \in [Events -> 0 .. MaxSparks]
  /\ high \subseteq Coils /\ outOfOrder \subseteq Coils
  /\ fallOf \in [Coils -> Events \cup {NoEvent}]
  /\ disturbed \subseteq Coils

(* A coil that is being charged has a spark still to come: the low of a    *)
(* spark never runs before its high and leaves the coil charged behind.    *)
(* This is what outOfOrder and signalFallSparkId are for.                  *)
ChargedHasSpark ==
  \A c \in high \ disturbed :
    \E e \in Events : c \in outputs[e] /\ SparkToCome(e)

(* The coils of an engine that keeps running do not stay charged, whatever *)
(* happened before.                                                        *)
ChargedCoilFires ==
  <>[](rpm = "valid") => \A c \in Coils : c \in high ~> c \notin high
=============================================================================
