--------------------------- MODULE InjectionSchedule ---------------------------
(***************************************************************************)
(* Fuel injection from the trigger tooth to the injector pin               *)
(* (controllers/engine_cycle/main_trigger_callback.cpp, fuel_schedule.cpp, *)
(* the spinning state of rpm_calculator.cpp and the injector pins of       *)
(* efi_gpio.cpp).                                                          *)
(*                                                                         *)
(* Every cylinder has one InjectionEvent with two timers.  The executor    *)
(* runs a timer once and in the order of the moments (TimedActions), and   *)
(* an injection ends at least 50us after it starts, so all that is left of *)
(* time is: the end of an injection does not run before its start.         *)
(*                                                                         *)
(* The trigger interrupt has the higher priority, but every call that      *)
(* schedules a timer also executes what is due: timers run between the     *)
(* steps of the loop over the events, and nowhere else inside it.          *)
(***************************************************************************)
EXTENDS Integers, FiniteSets

CONSTANTS
  NumCylinders,    \* specs.cylindersCount
  FiringOrder,     \* [Cylinders -> Cylinders]: getCylinderId(i) - 1
  TwoWireBatch,    \* twoWireBatchInjection
  Configurations,  \* the pairs of injection modes the tuner may choose from
  TunesModes,      \* does the tuner change the modes while the engine turns
  TunesTrigger,    \* does he change the trigger settings while it turns
  NoisyTrigger,    \* may the trigger be noisy enough for an unrealistic rpm
  Primes           \* startOfCrankingPrimingPulse > 0

Cylinders == 0 .. NumCylinders - 1
Modes == {"SIMULTANEOUS", "SEQUENTIAL", "BATCH", "SINGLE_POINT"}

ASSUME InjectionAssumption ==
  /\ NumCylinders \in Nat /\ NumCylinders >= 2
  /\ FiringOrder \in [Cylinders -> Cylinders]
  /\ Configurations \subseteq [cranking : Modes, running : Modes]
  /\ {TwoWireBatch, TunesModes, TunesTrigger, NoisyTrigger, Primes} \subseteq BOOLEAN

NotInLoop == NumCylinders
NotLoaded == -1

VARIABLES
  modes,         \* crankingInjectionMode and injectionMode
  state,         \* RpmCalculator::state
  rpm,           \* rpmValue: "zero", "noisy" (NOISY_RPM) or "valid"
  stopping,      \* the slow callback is in setStopped, the rpm is cleared
  isReady,       \* FuelSchedule::isReady
  isSimultanious, outputs,  \* fields of the InjectionEvents
  isScheduled,   \* InjectionEvent::isScheduled
  signalTimerUp,       \* the action queued on the timer, or "none"
  endOfInjectionEvent, \* the action queued on the timer, or "none"
  overlappingCounter, pin,  \* of the injectors; pin is the level of the wire
  nextEvent,     \* the trigger interrupt is at this event of the loop
  endAction,     \* it has scheduled the start and will schedule this end
  interrupted,   \* history: events under way at the last resetOverlapping
  prime, primeInjector, primeLoaded,  \* where startPrimeInjectionPulse is
  firmwareError  \* hasFirmwareError()

rpmVars == <<state, rpm, stopping>>
fuelVars == <<isReady, isSimultanious, outputs>>
timers == <<signalTimerUp, endOfInjectionEvent>>
pinVars == <<overlappingCounter, pin>>
loopVars == <<nextEvent, endAction>>
primeVars == <<prime, primeInjector, primeLoaded>>
vars == <<modes, rpmVars, fuelVars, isScheduled, timers, pinVars, loopVars,
          interrupted, primeVars, firmwareError>>

Init ==
  /\ modes \in Configurations
  /\ state = "STOPPED"
  /\ rpm = "zero"
  /\ stopping = FALSE
  /\ isReady = FALSE
  /\ isSimultanious = [e \in Cylinders |-> FALSE]
  /\ outputs = [e \in Cylinders |-> {}]
  /\ isScheduled = [e \in Cylinders |-> FALSE]
  /\ signalTimerUp = [e \in Cylinders |-> "none"]
  /\ endOfInjectionEvent = [e \in Cylinders |-> "none"]
  /\ overlappingCounter = [j \in Cylinders |-> 0]
  /\ pin = [j \in Cylinders |-> FALSE]
  /\ nextEvent = NotInLoop
  /\ endAction = "none"
  /\ interrupted = {}
  /\ prime = IF Primes THEN "check" ELSE "done"
  /\ primeInjector = 0
  /\ primeLoaded = NotLoaded
  /\ firmwareError = FALSE

-----------------------------------------------------------------------------
(* The injector pins. *)

(* Mutant: an injector that is open already is not counted again.          *)
OpenOnce(S) ==
  /\ overlappingCounter' = [j \in Cylinders |->
       IF j \in S THEN 1 ELSE overlappingCounter[j]]
  /\ pin' = [j \in Cylinders |-> pin[j] \/ j \in S]

(* InjectorOutputPin::open on the injectors in S.                          *)
Open(S) ==
  /\ overlappingCounter' = [j \in Cylinders |->
       overlappingCounter[j] + (IF j \in S THEN 1 ELSE 0)]
  /\ pin' = [j \in Cylinders |->
       pin[j] \/ (j \in S /\ overlappingCounter[j] = 0)]

(* Mutant: every end closes the injector, whatever overlaps.               *)
CloseAtOnce(S) ==
  /\ overlappingCounter' = [j \in Cylinders |->
       IF j \in S /\ overlappingCounter[j] > 0 THEN overlappingCounter[j] - 1
                                               ELSE overlappingCounter[j]]
  /\ pin' = [j \in Cylinders |-> pin[j] /\ j \notin S]

(* Mutant: negative overlap counts are allowed.                            *)
CloseBelowZero(S) ==
  /\ overlappingCounter' = [j \in Cylinders |->
       overlappingCounter[j] - (IF j \in S THEN 1 ELSE 0)]
  /\ pin' = [j \in Cylinders |->
       pin[j] /\ ~(j \in S /\ overlappingCounter[j] <= 1)]

(* InjectorOutputPin::close: the wire goes low with the last of the        *)
(* overlapping injections, the counter does not go below zero.             *)
Close(S) ==
  /\ overlappingCounter' = [j \in Cylinders |->
       IF j \in S /\ overlappingCounter[j] > 0 THEN overlappingCounter[j] - 1
                                               ELSE overlappingCounter[j]]
  /\ pin' = [j \in Cylinders |->
       pin[j] /\ ~(j \in S /\ overlappingCounter[j] <= 1)]

UnderWay(e) ==
  /\ isScheduled[e]
  /\ signalTimerUp[e] = "none"
  /\ endOfInjectionEvent[e] \in {"event", "all"}

(* FuelSchedule::resetOverlapping, InjectorOutputPin::reset.               *)
ResetOverlapping ==
  /\ overlappingCounter' = [j \in Cylinders |-> 0]
  /\ pin' = [j \in Cylinders |-> pin[j] /\ overlappingCounter[j] = 0]
  /\ interrupted' = {e \in Cylinders : UnderWay(e)}

-----------------------------------------------------------------------------
(* The schedule of the events. *)

IsCranking(s, r) == s = "CRANKING" \/ (s = "SPINNING_UP" /\ r = "valid")

(* Engine::getCurrentInjectionMode.                                        *)
CurrentInjectionMode(s, r) ==
  IF IsCranking(s, r) THEN modes.cranking ELSE modes.running

(* The wires of event e in addFuelEventsForCylinder: half of the injectors *)
(* are fired twice in batch mode, with two wires also the twin half of the *)
(* firing order away.                                                      *)
OutputsFor(mode, e) ==
  LET half == NumCylinders \div 2
      twin == (e + half) % NumCylinders
  IN
  IF mode \in {"SIMULTANEOUS", "SINGLE_POINT"} THEN {0}
  ELSE IF mode = "SEQUENTIAL" THEN {FiringOrder[e]}
  ELSE IF TwoWireBatch THEN {FiringOrder[e], FiringOrder[twin]}
  ELSE {e % half}

(* addFuelEventsForCylinder(e) for every e in S.  Without an rpm, that is  *)
(* with oneDegreeUs = NAN, it returns before it has changed anything.      *)
AddFuelEventsFor(S, s, r) ==
  LET mode == CurrentInjectionMode(s, r) IN
  IF r = "valid"
  THEN /\ isSimultanious' = [e \in Cylinders |->
            IF e \in S THEN mode = "SIMULTANEOUS" ELSE isSimultanious[e]]
       /\ outputs' = [e \in Cylinders |->
            IF e \in S THEN OutputsFor(mode, e) ELSE outputs[e]]
  ELSE UNCHANGED <<isSimultanious, outputs>>

(* FuelSchedule::addFuelEvents.                                            *)
AddFuelEvents(s, r) ==
  /\ AddFuelEventsFor(Cylinders, s, r)
  /\ isReady' = (r = "valid")

(* Mutant: rebuilt without a reset of the injectors.                       *)
RebuildWithoutReset(s, r) ==
  AddFuelEvents(s, r) /\ UNCHANGED <<pinVars, interrupted>>

(* Mutant: rebuilt before the new state is assigned.                       *)
RebuildForOldState(s, r) ==
  ResetOverlapping /\ AddFuelEvents(state, r)

(* What setRpmValue does when the fueling mode may have changed.           *)
Rebuild(s, r) ==
  ResetOverlapping /\ AddFuelEvents(s, r)

-----------------------------------------------------------------------------
(* The spinning state. *)

(* RpmCalculator::setRpmValue with r = "noisy", or with an rpm below or    *)
(* above cranking.rpm.  The first callback of the trigger interrupt.       *)
SetRpmValue(r, aboveCranking) ==
  LET newState == IF r = "valid" /\ aboveCranking THEN "RUNNING"
                  ELSE IF state \in {"STOPPED", "SPINNING_UP"} THEN "CRANKING"
                  ELSE state
  IN
  /\ nextEvent = NotInLoop
  /\ rpm' = r
  /\ state' = newState
  /\ IF newState # state /\ modes.cranking # modes.running
     THEN Rebuild(newState, r)
     ELSE UNCHANGED <<pinVars, interrupted, fuelVars>>
  /\ UNCHANGED <<modes, stopping, isScheduled, timers, loopVars, primeVars,
                 firmwareError>>

(* setSpinningUp, on the first trigger events of a stopped engine.         *)
SetSpinningUp ==
  /\ nextEvent = NotInLoop
  /\ state = "STOPPED"
  /\ state' = "SPINNING_UP"
  /\ UNCHANGED <<modes, rpm, stopping, fuelVars, isScheduled, timers, pinVars, loopVars,
                 interrupted, primeVars, firmwareError>>

(* rpmShaftPositionCallback replaces the rpm by the instant rpm, which is  *)
(* zero as long as there is no tooth 90 degrees ago.                       *)
AssignInstantRpm(r) ==
  /\ nextEvent = NotInLoop
  /\ state = "SPINNING_UP"
  /\ rpm' = r
  /\ UNCHANGED <<modes, state, stopping, fuelVars, isScheduled, timers, pinVars, loopVars,
                 interrupted, primeVars, firmwareError>>

(* setStopSpinning from the trigger interrupt: synchronization was lost.   *)
SetStopSpinning ==
  /\ nextEvent = NotInLoop
  /\ state' = "STOPPED"
  /\ rpm' = "zero"
  /\ UNCHANGED <<modes, stopping, fuelVars, isScheduled, timers, pinVars, loopVars,
                 interrupted, primeVars, firmwareError>>

(* setStopSpinning from the slow callback: no teeth for too long.  It      *)
(* clears the rpm, and a trigger that comes back or a timer may interrupt  *)
(* it before it clears the state.                                          *)
ClearRpm ==
  /\ nextEvent = NotInLoop
  /\ ~stopping
  /\ stopping' = TRUE
  /\ rpm' = "zero"
  /\ UNCHANGED <<modes, state, fuelVars, isScheduled, timers, pinVars, loopVars,
                 interrupted, primeVars, firmwareError>>

ClearState ==
  /\ nextEvent = NotInLoop
  /\ stopping
  /\ stopping' = FALSE
  /\ state' = "STOPPED"
  /\ UNCHANGED <<modes, rpm, fuelVars, isScheduled, timers, pinVars, loopVars,
                 interrupted, primeVars, firmwareError>>

(* The main thread and the tuner's run while no interrupt is under way.    *)
(* The slow callback runs in one, too, of a lower priority.                *)
ThreadsRun == nextEvent = NotInLoop /\ ~stopping

-----------------------------------------------------------------------------
(* The trigger interrupt. *)

(* mainTriggerCallback and handleFuel up to the loop over the events.      *)
MainTriggerCallback(triggerChanged) ==
  /\ nextEvent = NotInLoop
  /\ ~firmwareError
  /\ rpm = "valid"
  /\ nextEvent' = 0
  /\ IF isReady /\ ~triggerChanged THEN UNCHANGED fuelVars
     ELSE AddFuelEvents(state, rpm)
  /\ UNCHANGED <<modes, rpmVars, isScheduled, timers, pinVars, endAction,
                 interrupted, primeVars, firmwareError>>

(* handleFuel returns before it looks at the schedule: injection is off or *)
(* the fuel is cut.                                                        *)
FuelIsCut(triggerChanged) ==
  /\ nextEvent = NotInLoop
  /\ ~firmwareError
  /\ rpm = "valid"
  /\ isReady' = (isReady /\ ~triggerChanged)
  /\ UNCHANGED <<modes, rpmVars, isSimultanious, outputs, isScheduled, timers,
                 pinVars, loopVars, interrupted, primeVars, firmwareError>>

(* InjectionEvent::onTriggerTooth returns early: not the tooth of this     *)
(* event, nothing to inject, or the last injection is still going on.      *)
ToothSkipped ==
  /\ nextEvent # NotInLoop
  /\ endAction = "none"
  /\ nextEvent' = nextEvent + 1
  /\ UNCHANGED <<modes, rpmVars, fuelVars, isScheduled, timers, pinVars,
                 endAction, interrupted, primeVars, firmwareError>>

(* insertTask leaves a timer that is queued already as it is.              *)
Insert(timer, e, action) ==
  IF timer[e] = "none" THEN [timer EXCEPT ![e] = action] ELSE timer

(* Mutant: without the isScheduled check of onTriggerTooth.                *)
ScheduleStartAlways(e) ==
  LET kind == IF isSimultanious[e] THEN "all" ELSE "event" IN
  /\ nextEvent = e
  /\ endAction = "none"
  /\ isScheduled' = [isScheduled EXCEPT ![e] = TRUE]
  /\ signalTimerUp' = Insert(signalTimerUp, e, kind)
  /\ endAction' = kind
  /\ UNCHANGED <<modes, rpmVars, fuelVars, endOfInjectionEvent, pinVars,
                 nextEvent, interrupted, primeVars, firmwareError>>

(* Mutant: a simultaneous start gets the end of an ordinary one.           *)
ScheduleStartMixed(e) ==
  LET kind == IF isSimultanious[e] THEN "all" ELSE "event" IN
  /\ nextEvent = e
  /\ endAction = "none"
  /\ ~isScheduled[e]
  /\ isScheduled' = [isScheduled EXCEPT ![e] = TRUE]
  /\ signalTimerUp' = Insert(signalTimerUp, e, kind)
  /\ endAction' = "event"
  /\ UNCHANGED <<modes, rpmVars, fuelVars, endOfInjectionEvent, pinVars,
                 nextEvent, interrupted, primeVars, firmwareError>>

(* onTriggerTooth up to and including scheduleByAngle.                     *)
ScheduleStart(e) ==
  LET kind == IF isSimultanious[e] THEN "all" ELSE "event" IN
  /\ nextEvent = e
  /\ endAction = "none"
  /\ ~isScheduled[e]
  /\ isScheduled' = [isScheduled EXCEPT ![e] = TRUE]
  /\ signalTimerUp' = Insert(signalTimerUp, e, kind)
  /\ endAction' = kind
  /\ UNCHANGED <<modes, rpmVars, fuelVars, endOfInjectionEvent, pinVars,
                 nextEvent, interrupted, primeVars, firmwareError>>

(* The rest of onTriggerTooth.                                             *)
ScheduleEnd(e) ==
  /\ nextEvent = e
  /\ endAction # "none"
  /\ endOfInjectionEvent' = Insert(endOfInjectionEvent, e, endAction)
  /\ endAction' = "none"
  /\ nextEvent' = e + 1
  /\ UNCHANGED <<modes, rpmVars, fuelVars, isScheduled, signalTimerUp, pinVars,
                 interrupted, primeVars, firmwareError>>

-----------------------------------------------------------------------------
(* The timers. *)

(* turnInjectionPinHigh or startSimultaniousInjection.                     *)
StartInjection(e) ==
  /\ signalTimerUp[e] # "none"
  /\ signalTimerUp' = [signalTimerUp EXCEPT ![e] = "none"]
  /\ Open(IF signalTimerUp[e] = "all" THEN Cylinders ELSE outputs[e])
  /\ UNCHANGED <<modes, rpmVars, fuelVars, isScheduled, endOfInjectionEvent,
                 loopVars, interrupted, primeVars, firmwareError>>

(* Mutant: the flag is not cleared.                                        *)
EndInjectionKeepingFlag(e) ==
  /\ endOfInjectionEvent[e] \in {"event", "all"}
  /\ signalTimerUp[e] = "none"
  /\ endOfInjectionEvent' = [endOfInjectionEvent EXCEPT ![e] = "none"]
  /\ interrupted' = interrupted \ {e}
  /\ Close(IF endOfInjectionEvent[e] = "all" THEN Cylinders ELSE outputs[e])
  /\ AddFuelEventsFor({e}, state, rpm)
  /\ UNCHANGED <<modes, rpmVars, isReady, isScheduled, signalTimerUp, loopVars,
                 primeVars, firmwareError>>

(* turnInjectionPinLow or endSimultaniousInjection.                        *)
EndInjection(e) ==
  /\ endOfInjectionEvent[e] \in {"event", "all"}
  /\ signalTimerUp[e] = "none"
  /\ endOfInjectionEvent' = [endOfInjectionEvent EXCEPT ![e] = "none"]
  /\ isScheduled' = [isScheduled EXCEPT ![e] = FALSE]
  /\ interrupted' = interrupted \ {e}
  /\ Close(IF endOfInjectionEvent[e] = "all" THEN Cylinders ELSE outputs[e])
  /\ AddFuelEventsFor({e}, state, rpm)
  /\ UNCHANGED <<modes, rpmVars, isReady, signalTimerUp, loopVars, primeVars,
                 firmwareError>>

(* endSimultaniousInjectionOnlyTogglePins, the end of the prime pulse.     *)
EndPrime ==
  /\ endOfInjectionEvent[0] = "prime"
  /\ endOfInjectionEvent' = [endOfInjectionEvent EXCEPT ![0] = "none"]
  /\ Close(Cylinders)
  /\ UNCHANGED <<modes, rpmVars, fuelVars, isScheduled, signalTimerUp, loopVars,
                 interrupted, primeVars, firmwareError>>

-----------------------------------------------------------------------------
(* startPrimeInjectionPulse: the main thread at the end of the start-up.   *)
(* The trigger interrupt is on already, and no lock is taken.              *)

IsStopped == state = "STOPPED" \/ (state = "SPINNING_UP" /\ rpm = "zero")

PrimeCheck ==
  /\ prime = "check"
  /\ ThreadsRun
  /\ \/ IsStopped /\ prime' = "open"
     \/ prime' = "done"
  /\ UNCHANGED <<modes, rpmVars, fuelVars, isScheduled, timers, pinVars, loopVars,
                 interrupted, primeInjector, primeLoaded, firmwareError>>

(* overlappingCounter++ of one injector reads the counter ...              *)
PrimeLoad ==
  /\ prime = "open"
  /\ ThreadsRun
  /\ primeLoaded = NotLoaded
  /\ primeLoaded' = overlappingCounter[primeInjector]
  /\ UNCHANGED <<modes, rpmVars, fuelVars, isScheduled, timers, pinVars, loopVars,
                 interrupted, prime, primeInjector, firmwareError>>

(* ... and writes it; an interrupt may have changed it in between.         *)
PrimeStore ==
  /\ prime = "open"
  /\ ThreadsRun
  /\ primeLoaded # NotLoaded
  /\ overlappingCounter' = [overlappingCounter EXCEPT ![primeInjector] = primeLoaded + 1]
  /\ pin' = [pin EXCEPT ![primeInjector] = @ \/ primeLoaded = 0]
  /\ primeLoaded' = NotLoaded
  /\ primeInjector' = (primeInjector + 1) % NumCylinders
  /\ prime' = IF primeInjector = NumCylinders - 1 THEN "schedule" ELSE "open"
  /\ UNCHANGED <<modes, rpmVars, fuelVars, isScheduled, timers, loopVars,
                 interrupted, firmwareError>>

(* scheduleForLater on the end timer of event 0.                           *)
PrimeScheduleEnd ==
  /\ prime = "schedule"
  /\ ThreadsRun
  /\ endOfInjectionEvent' = Insert(endOfInjectionEvent, 0, "prime")
  /\ prime' = "done"
  /\ UNCHANGED <<modes, rpmVars, fuelVars, isScheduled, signalTimerUp, pinVars,
                 loopVars, interrupted, primeInjector, primeLoaded, firmwareError>>

-----------------------------------------------------------------------------
(* A critical error: turnAllPinsOff.                                       *)
FirmwareError ==
  /\ ~firmwareError
  /\ firmwareError' = TRUE
  /\ pin' = [j \in Cylinders |-> FALSE]
  /\ UNCHANGED <<modes, rpmVars, fuelVars, isScheduled, timers,
                 overlappingCounter, loopVars, interrupted, primeVars>>

(* The tuner writes another mode into the configuration in use.            *)
TuneModes ==
  /\ TunesModes
  /\ ThreadsRun
  /\ modes' \in Configurations
  /\ UNCHANGED <<rpmVars, fuelVars, isScheduled, timers, pinVars, loopVars,
                 interrupted, primeVars, firmwareError>>

RpmCallback ==
  \/ \E above \in BOOLEAN : SetRpmValue("valid", above)
  \/ \E r \in {"zero", "valid"} : AssignInstantRpm(r)
  \/ NoisyTrigger /\ (SetRpmValue("noisy", FALSE) \/ AssignInstantRpm("noisy"))
  \/ SetSpinningUp
  \/ SetStopSpinning \/ ClearRpm \/ ClearState

Loop == ToothSkipped \/ \E e \in Cylinders : ScheduleStart(e) \/ ScheduleEnd(e)

Prime == PrimeCheck \/ PrimeLoad \/ PrimeStore \/ PrimeScheduleEnd

Next ==
  \/ RpmCallback
  \/ \E changed \in {FALSE, TunesTrigger} :
       MainTriggerCallback(changed) \/ FuelIsCut(changed)
  \/ Loop
  \/ \E e \in Cylinders : StartInjection(e) \/ EndInjection(e)
  \/ EndPrime
  \/ Prime
  \/ FirmwareError
  \/ TuneModes

(* An interrupt that has begun goes on, and the executor runs what it has  *)
(* been given unless a fatal error has stopped its timer; no tooth has to  *)
(* come.                                                                   *)
Fairness ==
  /\ WF_vars(Loop)
  /\ WF_vars(~firmwareError /\ EndPrime)
  /\ \A e \in Cylinders :
       /\ WF_vars(~firmwareError /\ StartInjection(e))
       /\ WF_vars(~firmwareError /\ EndInjection(e))

Spec == Init /\ [][Next]_vars
FairSpec == Spec /\ Fairness

-----------------------------------------------------------------------------
(* Types of the variables; no negative overlap count (close).              *)
TypeOK ==
  /\ modes \in Configurations
  /\ state \in {"STOPPED", "SPINNING_UP", "CRANKING", "RUNNING"}
  /\ rpm \in {"zero", "noisy", "valid"}
  /\ stopping \in BOOLEAN
  /\ isReady \in BOOLEAN
  /\ isSimultanious \in [Cylinders -> BOOLEAN]
  /\ outputs \in [Cylinders -> SUBSET Cylinders]
  /\ isScheduled \in [Cylinders -> BOOLEAN]
  /\ signalTimerUp \in [Cylinders -> {"none", "event", "all"}]
  /\ endOfInjectionEvent \in [Cylinders -> {"none", "event", "all", "prime"}]
  /\ overlappingCounter \in [Cylinders -> Nat]
  /\ pin \in [Cylinders -> BOOLEAN]
  /\ nextEvent \in 0 .. NumCylinders
  /\ endAction \in {"none", "event", "all"}
  /\ interrupted \subseteq Cylinders
  /\ prime \in {"check", "open", "schedule", "done"}
  /\ primeInjector \in Cylinders
  /\ primeLoaded \in Nat \cup {NotLoaded}
  /\ firmwareError \in BOOLEAN

(* While the flag of an event is down its timers are free, so the pair it  *)
(* schedules next is a pair: neither half can meet one left over from the  *)
(* injection before, which insertTask would keep instead.                  *)
PairsDoNotMix ==
  \A e \in Cylinders :
    ~isScheduled[e] => /\ signalTimerUp[e] = "none"
                       /\ endOfInjectionEvent[e] \in {"none", "prime"}

(* No 'down' side callback is ignored (event_registry.h): an event that    *)
(* counts as scheduled has its own end still to come.                      *)
NoDownIgnored ==
  \A e \in Cylinders :
    isScheduled[e] => \/ endOfInjectionEvent[e] \in {"event", "all"}
                      \/ nextEvent = e /\ endAction # "none"

ClosedBy(e) ==
  IF endOfInjectionEvent[e] = "event" THEN outputs[e]
  ELSE IF endOfInjectionEvent[e] \in {"all", "prime"} THEN Cylinders
  ELSE IF nextEvent = e /\ endAction = "event" THEN outputs[e]
  ELSE IF nextEvent = e /\ endAction = "all" THEN Cylinders
  ELSE {}

(* The end counter comes back to zero (event_registry.h): an injector is   *)
(* not counted open more often than there are ends to close it.            *)
EveryOpeningHasItsEnd ==
  \A j \in Cylinders :
    overlappingCounter[j] <= Cardinality({e \in Cylinders : j \in ClosedBy(e)})

(* An event's injection is a pair of a start and an end of the same        *)
(* injectors, whatever the loop, the timers and the rebuilds do in between *)
(* (onTriggerTooth, turnInjectionPinHigh, turnInjectionPinLow).            *)
injectionPhase == [e \in Cylinders |->
  IF ~isScheduled[e] THEN "free"
  ELSE IF signalTimerUp[e] = "none" THEN "open"
  ELSE "planned"]

injectorsHeld == [e \in Cylinders |->
  IF signalTimerUp[e] = "none" THEN ClosedBy(e) ELSE {}]

Pairs ==
  INSTANCE PairedInjections
    WITH Events <- Cylinders, Injectors <- Cylinders,
         ModesDiffer <- \E c \in Configurations : c.cranking # c.running,
         phase <- injectionPhase, holds <- injectorsHeld,
         count <- overlappingCounter

InjectsInPairs == Pairs!Spec

(* The counter does not get out of sync with reality (rpm_calculator.cpp): *)
(* an injection that has started, and that no change of the fueling mode   *)
(* has cut off, keeps its injectors open until its own end.                *)
CounterInSync ==
  \A e \in Cylinders :
    UnderWay(e) /\ e \notin interrupted /\ ~firmwareError
      => \A j \in ClosedBy(e) : pin[j]

(* A schedule that is ready is one for the fueling mode the engine is in   *)
(* (rpm_calculator.cpp: the events are updated when the modes differ).     *)
ScheduleFitsMode ==
  isReady /\ state \in {"CRANKING", "RUNNING"} =>
    LET mode == CurrentInjectionMode(state, rpm) IN
    \A e \in Cylinders :
      /\ isSimultanious[e] = (mode = "SIMULTANEOUS")
      /\ outputs[e] = OutputsFor(mode, e)

(* Every event that has been scheduled is released for the next injection, *)
(* unless a fatal error stops the timer.                                   *)
EventIsReleased ==
  \A e \in Cylinders : isScheduled[e] ~> ~isScheduled[e] \/ firmwareError
=============================================================================
