-------------------------- MODULE InjectionPinsProofs --------------------------
(***************************************************************************)
(* Theorems about the injector pins of InjectionSchedule: the overlap      *)
(* counter of an injector against the injections that are open on it, for  *)
(* every number of cylinders and every firing order, without a priming     *)
(* pulse.                                                                  *)
(***************************************************************************)
EXTENDS InjectionScheduleProofs, FiniteSetTheorems

(* The injections that have started on injector j, and will end.           *)
OpenedOn(j) == {e \in Cylinders : signalTimerUp[e] = "none" /\ j \in ClosedBy(e)}

(* The two halves of an injection are of one kind.                         *)
KindsOfPairs ==
  \A e \in Cylinders :
    signalTimerUp[e] # "none" =>
      \/ endOfInjectionEvent[e] = signalTimerUp[e]
      \/ /\ nextEvent = e /\ endAction = signalTimerUp[e]
         /\ endOfInjectionEvent[e] = "none"

NothingScheduled == nextEvent = NotInLoop /\ \A e \in Cylinders : ~isScheduled[e]

(* A rebuild in the middle of an injection would change the injectors that *)
(* its end closes.  With a single mode it writes what is there already.    *)
OneModeFits ==
  OneMode /\ (isReady \/ ~NothingScheduled) => Fits(modes.cranking)

(* Where neither noise nor the tuner takes a schedule back that was ready, *)
(* it is only built once.                                                  *)
Calm == ~NoisyTrigger /\ ~TunesTrigger
BuiltOnce == Calm => isReady \/ NothingScheduled

PairInv ==
  /\ IInv /\ NoPrime /\ NoDownIgnored
  /\ KindsOfPairs /\ OneModeFits /\ BuiltOnce

(* What the counter of injector j may do in a step, if e is the event that *)
(* the step is about.                                                      *)
Quiet(j) ==
  /\ UNCHANGED overlappingCounter[j]
  /\ OpenedOn(j)' = OpenedOn(j)

Opens(j, e) ==
  /\ overlappingCounter'[j] = overlappingCounter[j] + 1
  /\ e \notin OpenedOn(j)
  /\ OpenedOn(j)' = OpenedOn(j) \cup {e}

Closes(j, e) ==
  /\ overlappingCounter'[j] =
       IF overlappingCounter[j] > 0 THEN overlappingCounter[j] - 1 ELSE overlappingCounter[j]
  /\ e \in OpenedOn(j)
  /\ OpenedOn(j)' = OpenedOn(j) \ {e}

-----------------------------------------------------------------------------
(* The ends of the events. *)

(* An event that is not scheduled closes nothing.                          *)
LEMMA IdleClosesNothing ==
  ASSUME IInv, NoPrime, NEW e \in Cylinders, ~isScheduled[e]
  PROVE  ClosedBy(e) = {}
<1>1. endOfInjectionEvent[e] = "none"
  BY DEF IInv, PairsDoNotMix, NoPrime
<1>2. nextEvent # e \/ endAction = "none"
  BY DEF IInv, HalfwayIsScheduled
<1> QED
  BY <1>1, <1>2, Zenon DEF ClosedBy

(* What an event closes depends on nothing but its end and its outputs.    *)
LEMMA SameEnds ==
  ASSUME NEW j \in Cylinders,
         UNCHANGED <<signalTimerUp, endOfInjectionEvent, nextEvent, endAction, outputs>>
  PROVE  OpenedOn(j)' = OpenedOn(j)
BY Zenon DEF OpenedOn, ClosedBy

(* The injections open on an injector are those that hold it.              *)
LEMMA HeldIsQuiet ==
  ASSUME UNCHANGED <<overlappingCounter, injectorsHeld>>, NEW j \in Cylinders
  PROVE  Quiet(j)
<1>1. \A e \in Cylinders : injectorsHeld'[e] = injectorsHeld[e]
  OBVIOUS
<1>2. OpenedOn(j)' = OpenedOn(j)
  BY <1>1 DEF OpenedOn, injectorsHeld
<1> QED
  BY <1>2 DEF Quiet

(* In between two passes of the loop no end is half-way.                   *)
LEMMA NotHalfway ==
  ASSUME IInv, nextEvent = NotInLoop
  PROVE  endAction = "none"
BY InjectionAssumption DEF IInv, HalfwayIsScheduled, NotInLoop, Cylinders

(* A rebuild of the schedule by the trigger interrupt changes no injector  *)
(* of an injection that is to come or under way.                           *)
LEMMA RebuildIsHarmless ==
  ASSUME PairInv, NEW changed, changed => TunesTrigger,
         OneMode \/ Calm,
         MainTriggerCallback(changed)
  PROVE  NothingScheduled \/ UNCHANGED outputs
<1>1. nextEvent = NotInLoop
  BY DEF MainTriggerCallback
<1>2. CASE isReady /\ ~changed
  BY <1>2 DEF MainTriggerCallback, fuelVars
<1>3. CASE ~(isReady /\ ~changed) /\ ~NothingScheduled
  <2>1. OneMode
    BY <1>3 DEF Calm, PairInv, BuiltOnce
  <2>2. Fits(modes.cranking)
    BY <1>3, <2>1 DEF PairInv, OneModeFits
  <2>3. rpm = "valid" /\ AddFuelEventsFor(Cylinders, state, rpm)
    BY <1>3 DEF MainTriggerCallback, AddFuelEvents
  <2>4. CurrentInjectionMode(state, rpm) = modes.cranking
    BY <2>1 DEF CurrentInjectionMode, OneMode
  <2>5. outputs' = [e \in Cylinders |-> OutputsFor(modes.cranking, e)]
    BY <2>3, <2>4 DEF AddFuelEventsFor
  <2>6. outputs = [e \in Cylinders |-> outputs[e]]
    BY DEF PairInv, IInv, TypeOK
  <2>7. \A e \in Cylinders : outputs[e] = OutputsFor(modes.cranking, e)
    BY <2>2, Zenon DEF Fits
  <2>8. outputs' = outputs
    BY <2>5, <2>6, <2>7
  <2> QED
    BY <2>8
<1> QED
  BY <1>2, <1>3

-----------------------------------------------------------------------------
(* The kinds of steps. *)

LEMMA RpmCallbackKinds ==
  ASSUME PairInv, RpmCallback, NEW j \in Cylinders
  PROVE  Quiet(j) \/ (~OneMode /\ overlappingCounter'[j] = 0)
<1>1. ASSUME NEW r, NEW above, SetRpmValue(r, above), ~UNCHANGED <<pinVars, fuelVars>>
      PROVE  ~OneMode /\ overlappingCounter'[j] = 0
  BY <1>1 DEF SetRpmValue, Rebuild, ResetOverlapping, OneMode
<1>2. \/ ~OneMode /\ overlappingCounter'[j] = 0
      \/ UNCHANGED <<pinVars, fuelVars, timers, loopVars>>
  BY <1>1 DEF RpmCallback, SetRpmValue, SetSpinningUp, AssignInstantRpm, SetStopSpinning,
              ClearRpm, ClearState
<1> QED
  BY <1>2, SameEnds DEF Quiet, pinVars, fuelVars, timers, loopVars

(* The loop over the events plans injections and their ends; an injection  *)
(* under way keeps what it closes.                                         *)
LEMMA LoopHolds ==
  ASSUME PairInv, Loop
  PROVE  UNCHANGED <<overlappingCounter, injectorsHeld>>
<1> USE DEF PairInv
<1>0. UNCHANGED <<outputs, overlappingCounter>>
  BY DEF Loop, ToothSkipped, ScheduleStart, ScheduleEnd, fuelVars, pinVars
<1>1. CASE ToothSkipped
  <2>1. \A f \in Cylinders : ClosedBy(f)' = ClosedBy(f)
    BY <1>0, <1>1, Zenon DEF ToothSkipped, timers, ClosedBy
  <2> QED
    BY <1>0, <1>1, <2>1 DEF ToothSkipped, timers, injectorsHeld
<1>2. ASSUME NEW e \in Cylinders, ScheduleStart(e)
      PROVE  UNCHANGED injectorsHeld
  <2>1. \A f \in Cylinders \ {e} : ClosedBy(f)' = ClosedBy(f)
    BY <1>0, <1>2, Zenon DEF ScheduleStart, ClosedBy
  <2>2. ClosedBy(e) = {}
    BY <1>2, IdleClosesNothing DEF ScheduleStart
  <2>3. /\ signalTimerUp'[e] # "none"
        /\ \A f \in Cylinders \ {e} : signalTimerUp'[f] = signalTimerUp[f]
    BY <1>2 DEF ScheduleStart, Insert, IInv, TypeOK, PairsDoNotMix
  <2> QED
    BY <2>1, <2>2, <2>3 DEF injectorsHeld
<1>3. ASSUME NEW e \in Cylinders, ScheduleEnd(e)
      PROVE  UNCHANGED injectorsHeld
  <2>1. endOfInjectionEvent[e] = "none"
    BY <1>3 DEF ScheduleEnd, IInv, HalfwayIsScheduled, NoPrime
  <2>2. endOfInjectionEvent' = [endOfInjectionEvent EXCEPT ![e] = endAction]
    BY <1>3, <2>1 DEF ScheduleEnd, Insert
  <2>3. /\ nextEvent = e /\ endAction' = "none" /\ endAction \in {"event", "all"}
    BY <1>3 DEF ScheduleEnd, IInv, TypeOK
  <2>4. /\ endOfInjectionEvent'[e] = endAction
        /\ \A f \in Cylinders \ {e} : endOfInjectionEvent'[f] = endOfInjectionEvent[f]
    BY <2>2 DEF IInv, TypeOK
  <2>5. ClosedBy(e)' = ClosedBy(e)
    BY <1>0, <2>1, <2>3, <2>4 DEF ClosedBy
  <2>6. \A f \in Cylinders \ {e} : ClosedBy(f)' = ClosedBy(f)
    BY <1>0, <2>3, <2>4, Zenon DEF ClosedBy
  <2> QED
    BY <1>3, <2>5, <2>6 DEF ScheduleEnd, injectorsHeld
<1> QED
  BY <1>0, <1>1, <1>2, <1>3 DEF Loop

LEMMA LoopKinds ==
  ASSUME PairInv, Loop, NEW j \in Cylinders
  PROVE  Quiet(j)
<1>1. UNCHANGED <<overlappingCounter, injectorsHeld>>
  BY LoopHolds
<1> QED
  BY <1>1, HeldIsQuiet

(* A start opens what its end will close.                                  *)
LEMMA StartHolds ==
  ASSUME PairInv, NEW e \in Cylinders, StartInjection(e)
  PROVE  /\ signalTimerUp[e] # "none" /\ signalTimerUp'[e] = "none"
         /\ \A f \in Cylinders \ {e} : signalTimerUp'[f] = signalTimerUp[f]
         /\ \A f \in Cylinders : ClosedBy(f)' = ClosedBy(f)
         /\ overlappingCounter' = [i \in Cylinders |->
              overlappingCounter[i] + (IF i \in ClosedBy(e) THEN 1 ELSE 0)]
<1> USE DEF PairInv
<1> DEFINE S == IF signalTimerUp[e] = "all" THEN Cylinders ELSE outputs[e]
<1>1. /\ signalTimerUp[e] \in {"event", "all"}
      /\ signalTimerUp' = [signalTimerUp EXCEPT ![e] = "none"]
      /\ overlappingCounter' = [i \in Cylinders |->
           overlappingCounter[i] + (IF i \in S THEN 1 ELSE 0)]
      /\ UNCHANGED <<endOfInjectionEvent, nextEvent, endAction, outputs>>
  BY DEF StartInjection, Open, loopVars, fuelVars, IInv, TypeOK
<1>2. \A f \in Cylinders : ClosedBy(f)' = ClosedBy(f)
  BY <1>1, Zenon DEF ClosedBy
<1>3. ClosedBy(e) = S
  BY <1>1 DEF ClosedBy, KindsOfPairs
<1>4. /\ signalTimerUp[e] # "none" /\ signalTimerUp'[e] = "none"
      /\ \A f \in Cylinders \ {e} : signalTimerUp'[f] = signalTimerUp[f]
  BY <1>1 DEF IInv, TypeOK
<1> HIDE DEF S, PairInv
<1> QED
  BY <1>1, <1>2, <1>3, <1>4

LEMMA StartKinds ==
  ASSUME PairInv, NEW e \in Cylinders, StartInjection(e), NEW j \in Cylinders
  PROVE  Quiet(j) \/ Opens(j, e)
<1> DEFINE S == ClosedBy(e)
<1>1. /\ signalTimerUp[e] # "none" /\ signalTimerUp'[e] = "none"
      /\ \A f \in Cylinders \ {e} : signalTimerUp'[f] = signalTimerUp[f]
      /\ \A f \in Cylinders : ClosedBy(f)' = ClosedBy(f)
  BY StartHolds
<1>2. overlappingCounter'[j] = overlappingCounter[j] + (IF j \in S THEN 1 ELSE 0)
  BY StartHolds
<1>3. overlappingCounter[j] \in Nat
  BY DEF PairInv, IInv, TypeOK
<1>4. CASE j \in S
  <2>1. e \notin OpenedOn(j)
    BY <1>1 DEF OpenedOn
  <2>2. OpenedOn(j)' = OpenedOn(j) \cup {e}
    BY <1>1, <1>4 DEF OpenedOn
  <2> QED
    BY <1>2, <1>4, <2>1, <2>2 DEF Opens
<1>5. CASE j \notin S
  <2>1. OpenedOn(j)' = OpenedOn(j)
    BY <1>1, <1>5 DEF OpenedOn
  <2> QED
    BY <1>2, <1>3, <1>5, <2>1 DEF Quiet
<1> QED
  BY <1>4, <1>5

(* An end closes what its start has opened.                                *)
LEMMA EndHolds ==
  ASSUME PairInv, NEW e \in Cylinders, EndInjection(e)
  PROVE  /\ endOfInjectionEvent[e] \in {"event", "all"}
         /\ signalTimerUp[e] = "none" /\ UNCHANGED signalTimerUp
         /\ \A f \in Cylinders \ {e} : ClosedBy(f)' = ClosedBy(f)
         /\ ClosedBy(e)' = {}
         /\ overlappingCounter' = [i \in Cylinders |->
              IF i \in ClosedBy(e) /\ overlappingCounter[i] > 0
              THEN overlappingCounter[i] - 1 ELSE overlappingCounter[i]]
<1> USE DEF PairInv
<1> DEFINE S == IF endOfInjectionEvent[e] = "all" THEN Cylinders ELSE outputs[e]
<1>1. /\ endOfInjectionEvent[e] \in {"event", "all"}
      /\ signalTimerUp[e] = "none"
      /\ endOfInjectionEvent' = [endOfInjectionEvent EXCEPT ![e] = "none"]
      /\ overlappingCounter' = [i \in Cylinders |->
           IF i \in S /\ overlappingCounter[i] > 0 THEN overlappingCounter[i] - 1
                                                   ELSE overlappingCounter[i]]
      /\ AddFuelEventsFor({e}, state, rpm)
      /\ UNCHANGED <<signalTimerUp, nextEvent, endAction>>
  BY DEF EndInjection, Close, loopVars
<1>2. \A f \in Cylinders \ {e} : outputs'[f] = outputs[f]
  BY <1>1 DEF AddFuelEventsFor
<1>3. \A f \in Cylinders \ {e} : endOfInjectionEvent'[f] = endOfInjectionEvent[f]
  BY <1>1 DEF IInv, TypeOK
<1>4. \A f \in Cylinders \ {e} : ClosedBy(f)' = ClosedBy(f)
  BY <1>1, <1>2, <1>3, Zenon DEF ClosedBy
<1>5. ClosedBy(e) = S
  BY <1>1 DEF ClosedBy
<1>6. ClosedBy(e)' = {}
  <2>1. endOfInjectionEvent'[e] = "none"
    BY <1>1 DEF IInv, TypeOK
  <2>2. nextEvent # e \/ endAction = "none"
    BY <1>1 DEF IInv, HalfwayIsScheduled
  <2> QED
    BY <1>1, <2>1, <2>2 DEF ClosedBy
<1> HIDE DEF S, PairInv
<1> QED
  BY <1>1, <1>4, <1>5, <1>6

LEMMA EndKinds ==
  ASSUME PairInv, NEW e \in Cylinders, EndInjection(e), NEW j \in Cylinders
  PROVE  Quiet(j) \/ Closes(j, e)
<1> DEFINE S == ClosedBy(e)
<1>1. /\ signalTimerUp[e] = "none" /\ UNCHANGED signalTimerUp
      /\ \A f \in Cylinders \ {e} : ClosedBy(f)' = ClosedBy(f)
      /\ ClosedBy(e)' = {}
  BY EndHolds
<1>2. overlappingCounter'[j] =
        IF j \in S /\ overlappingCounter[j] > 0 THEN overlappingCounter[j] - 1
                                                ELSE overlappingCounter[j]
  BY EndHolds
<1>3. OpenedOn(j)' = OpenedOn(j) \ {e}
  BY <1>1 DEF OpenedOn
<1>4. e \in OpenedOn(j) <=> j \in S
  BY <1>1 DEF OpenedOn
<1> HIDE DEF S
<1> QED
  BY <1>2, <1>3, <1>4 DEF Quiet, Closes

(* The trigger interrupt rebuilds no injection under way.                  *)
LEMMA MainTriggerHolds ==
  ASSUME PairInv, OneMode \/ Calm, NEW changed \in {FALSE, TunesTrigger},
         MainTriggerCallback(changed)
  PROVE  UNCHANGED <<overlappingCounter, injectorsHeld>>
<1>1. NothingScheduled \/ UNCHANGED outputs
  BY RebuildIsHarmless
<1>2. /\ UNCHANGED <<timers, pinVars, endAction, isScheduled>>
      /\ nextEvent = NotInLoop
  BY DEF MainTriggerCallback
<1>3. endAction = "none"
  BY <1>2, NotHalfway DEF PairInv
<1>4. \A f \in Cylinders : ClosedBy(f)' = ClosedBy(f)
  <2>1. CASE UNCHANGED outputs
    BY <1>2, <1>3, <2>1, Zenon DEF ClosedBy, timers
  <2>2. CASE NothingScheduled
    <3>1. \A f \in Cylinders : endOfInjectionEvent[f] = "none"
      BY <2>2 DEF NothingScheduled, PairInv, IInv, PairsDoNotMix, NoPrime
    <3> QED
      BY <1>2, <1>3, <3>1, Zenon DEF ClosedBy, timers
  <2> QED
    BY <1>1, <2>1, <2>2
<1> QED
  BY <1>2, <1>4 DEF injectorsHeld, timers, pinVars

(* Every step leaves an injector and its injections alone, resets it,      *)
(* opens it for one more of them or closes it for one of them.             *)
LEMMA StepKinds ==
  ASSUME PairInv, OneMode \/ Calm, [Next]_vars, NEW j \in Cylinders
  PROVE  \/ Quiet(j)
         \/ ~OneMode /\ overlappingCounter'[j] = 0
         \/ \E e \in Cylinders : Opens(j, e) \/ Closes(j, e)
<1>1. ASSUME NEW changed \in {FALSE, TunesTrigger}, MainTriggerCallback(changed)
      PROVE  Quiet(j)
  <2>1. UNCHANGED <<overlappingCounter, injectorsHeld>>
    BY <1>1, MainTriggerHolds
  <2> QED
    BY <2>1, HeldIsQuiet
<1>2. ASSUME NEW changed, FuelIsCut(changed) \/ FirmwareError \/ TuneModes \/ UNCHANGED vars
      PROVE  Quiet(j)
  <2>1. UNCHANGED <<outputs, timers, loopVars, overlappingCounter>>
    BY <1>2 DEF FuelIsCut, FirmwareError, TuneModes, vars, fuelVars, pinVars
  <2> QED
    BY <2>1, SameEnds DEF Quiet, timers, loopVars
<1>3. ~EndPrime /\ ~Prime
  BY InjectionAssumption DEF PairInv, NoPrime, EndPrime, Prime, PrimeCheck, PrimeLoad,
                             PrimeStore, PrimeScheduleEnd, Cylinders
<1> QED
  BY <1>1, <1>2, <1>3, RpmCallbackKinds, LoopKinds, StartKinds, EndKinds DEF Next

-----------------------------------------------------------------------------
(* The invariant of the pairs. *)

LEMMA PairInit ==
  ASSUME ~Primes, Init
  PROVE  PairInv
<1>1. IInv /\ NoPrime /\ NoDownIgnored
  BY InitIInv, NoPrimeInit
<1>2. NothingScheduled /\ ~isReady /\ KindsOfPairs
  BY DEF Init, NothingScheduled, KindsOfPairs
<1> QED
  BY <1>1, <1>2 DEF PairInv, OneModeFits, BuiltOnce

(* Both halves are scheduled with one kind, and neither is replaced.       *)
LEMMA KindsKept ==
  ASSUME PairInv, [Next]_vars
  PROVE  KindsOfPairs'
<1> USE DEF PairInv, KindsOfPairs
<1>1. ASSUME UNCHANGED <<timers, loopVars>>
      PROVE  KindsOfPairs'
  BY <1>1 DEF timers, loopVars
<1>2. ASSUME NEW changed, MainTriggerCallback(changed)
      PROVE  KindsOfPairs'
  <2>1. endAction = "none"
    BY <1>2, NotHalfway DEF MainTriggerCallback
  <2> QED
    BY <1>2, <2>1 DEF MainTriggerCallback, timers
<1>3. CASE ToothSkipped
  BY <1>3 DEF ToothSkipped, timers
<1>4. ASSUME NEW e \in Cylinders, ScheduleStart(e)
      PROVE  KindsOfPairs'
  <2>1. endOfInjectionEvent[e] = "none" /\ signalTimerUp[e] = "none"
    BY <1>4 DEF ScheduleStart, IInv, PairsDoNotMix, NoPrime
  <2>2. signalTimerUp' = [signalTimerUp EXCEPT ![e] = endAction']
    BY <1>4, <2>1 DEF ScheduleStart, Insert
  <2>3. /\ nextEvent = e /\ endAction = "none" /\ nextEvent' = nextEvent
        /\ endOfInjectionEvent' = endOfInjectionEvent
        /\ signalTimerUp \in [Cylinders -> {"none", "event", "all"}]
    BY <1>4 DEF ScheduleStart, IInv, TypeOK
  <2> HIDE DEF PairInv
  <2>4. ASSUME NEW f \in Cylinders, f # e
        PROVE  signalTimerUp'[f] = signalTimerUp[f] /\ (signalTimerUp[f] # "none" => endOfInjectionEvent[f] = signalTimerUp[f])
    BY <2>2, <2>3, <2>4 DEF PairInv
  <2>5. signalTimerUp'[e] = endAction'
    BY <2>2, <2>3
  <2> QED
    BY <2>1, <2>3, <2>4, <2>5
<1>5. ASSUME NEW e \in Cylinders, ScheduleEnd(e)
      PROVE  KindsOfPairs'
  <2>1. endOfInjectionEvent[e] = "none"
    BY <1>5 DEF ScheduleEnd, IInv, HalfwayIsScheduled, NoPrime
  <2>2. endOfInjectionEvent' = [endOfInjectionEvent EXCEPT ![e] = endAction]
    BY <1>5, <2>1 DEF ScheduleEnd, Insert
  <2>3. UNCHANGED signalTimerUp /\ nextEvent = e /\ endAction # "none"
    BY <1>5 DEF ScheduleEnd
  <2> QED
    BY <2>1, <2>2, <2>3 DEF IInv, TypeOK
<1>6. ASSUME NEW e \in Cylinders, StartInjection(e) \/ EndInjection(e)
      PROVE  KindsOfPairs'
  BY <1>6 DEF StartInjection, EndInjection, loopVars, IInv, TypeOK
<1>7. ASSUME NEW changed,
             \/ RpmCallback \/ FuelIsCut(changed) \/ FirmwareError \/ TuneModes
             \/ UNCHANGED vars
      PROVE  KindsOfPairs'
  BY <1>1, <1>7 DEF RpmCallback, SetRpmValue, SetSpinningUp, AssignInstantRpm,
                    SetStopSpinning, ClearRpm, ClearState, FuelIsCut, FirmwareError, TuneModes, vars
<1>8. ~EndPrime /\ ~Prime
  BY InjectionAssumption DEF NoPrime, EndPrime, Prime, PrimeCheck, PrimeLoad,
                             PrimeStore, PrimeScheduleEnd, Cylinders
<1> HIDE DEF PairInv, KindsOfPairs
<1> QED
  BY <1>2, <1>3, <1>4, <1>5, <1>6, <1>7, <1>8 DEF Next, Loop

(* Schedules are rebuilt without effect or not at all.                     *)
LEMMA RebuildsKept ==
  ASSUME PairInv, ~TunesModes, [Next]_vars
  PROVE  OneModeFits' /\ BuiltOnce'
<1>1. ASSUME UNCHANGED <<modes, isSimultanious, outputs, isReady>>,
             NothingScheduled => NothingScheduled'
      PROVE  OneModeFits' /\ BuiltOnce'
  BY <1>1 DEF PairInv, OneModeFits, BuiltOnce, OneMode, Fits, Calm
<1>2. ASSUME NEW r, NEW above, SetRpmValue(r, above), r = "noisy" => NoisyTrigger,
             r \in {"noisy", "valid"}
      PROVE  OneModeFits' /\ BuiltOnce'
  <2>1. /\ UNCHANGED <<modes, isScheduled, nextEvent>>
        /\ OneMode => UNCHANGED fuelVars
        /\ UNCHANGED fuelVars \/ isReady' = (r = "valid")
    BY <1>2 DEF SetRpmValue, Rebuild, AddFuelEvents, loopVars, OneMode
  <2>2. NothingScheduled' <=> NothingScheduled
    BY <2>1 DEF NothingScheduled
  <2>3. CASE UNCHANGED fuelVars
    BY <1>1, <2>1, <2>2, <2>3 DEF fuelVars
  <2>4. CASE isReady' = (r = "valid") /\ ~OneMode
    BY <1>2, <2>1, <2>4 DEF OneModeFits, BuiltOnce, OneMode, Calm
  <2> QED
    BY <2>1, <2>3, <2>4
<1>3. ASSUME NEW changed \in {FALSE, TunesTrigger}, MainTriggerCallback(changed)
      PROVE  OneModeFits' /\ BuiltOnce'
  <2>1. CASE isReady /\ ~changed
    BY <1>3, <2>1 DEF MainTriggerCallback, PairInv, OneModeFits, BuiltOnce, OneMode, Fits,
                      fuelVars
  <2>2. CASE ~(isReady /\ ~changed)
    <3>1. /\ isReady' /\ UNCHANGED modes
          /\ AddFuelEventsFor(Cylinders, state, "valid")
          /\ state' = state /\ rpm' = "valid"
      BY <1>3, <2>2 DEF MainTriggerCallback, AddFuelEvents, rpmVars
    <3>2. Fits(CurrentInjectionMode(state, rpm))'
      BY <3>1, RebuiltFits
    <3>3. OneMode' => CurrentInjectionMode(state, rpm)' = modes'.cranking
      BY DEF CurrentInjectionMode, OneMode
    <3> QED
      BY <3>1, <3>2, <3>3 DEF OneModeFits, BuiltOnce, Fits
  <2> QED
    BY <2>1, <2>2
<1>4. ASSUME NEW changed \in {FALSE, TunesTrigger}, FuelIsCut(changed)
      PROVE  OneModeFits' /\ BuiltOnce'
  <2>1. /\ UNCHANGED <<modes, isSimultanious, outputs, isScheduled, nextEvent>>
    BY <1>4 DEF FuelIsCut, loopVars
  <2>2. NothingScheduled' <=> NothingScheduled
    BY <2>1 DEF NothingScheduled
  <2>3. isReady' = (isReady /\ ~changed)
    BY <1>4, Zenon DEF FuelIsCut
  <2>4. Calm => ~changed
    BY Zenon DEF Calm
  <2>5. (isReady' => isReady) /\ (Calm => (isReady => isReady'))
    BY <2>3, <2>4
  <2> QED
    BY <2>1, <2>2, <2>5 DEF PairInv, OneModeFits, BuiltOnce, OneMode, Fits, Calm
<1>5. CASE Loop
  <2>1. UNCHANGED <<modes, isSimultanious, outputs, isReady>> /\ ~NothingScheduled
    BY <1>5, InjectionAssumption
       DEF Loop, ToothSkipped, ScheduleStart, ScheduleEnd, fuelVars, NothingScheduled,
           NotInLoop, Cylinders
  <2> QED
    BY <1>1, <2>1
<1>6. ASSUME NEW e \in Cylinders, EndInjection(e)
      PROVE  OneModeFits' /\ BuiltOnce'
  <2>1. ~NothingScheduled
    BY <1>6 DEF EndInjection, NothingScheduled, PairInv, IInv, PairsDoNotMix
  <2>2. UNCHANGED <<modes, isReady>> /\ AddFuelEventsFor({e}, state, rpm)
    BY <1>6 DEF EndInjection
  <2>3. BuiltOnce'
    BY <2>1, <2>2 DEF PairInv, BuiltOnce, Calm
  <2>4. OneModeFits'
    <3> SUFFICES ASSUME OneMode PROVE Fits(modes.cranking)'
      BY <2>2 DEF OneModeFits, OneMode
    <3>1. Fits(modes.cranking)
      BY <2>1 DEF PairInv, OneModeFits
    <3>2. CurrentInjectionMode(state, rpm) = modes.cranking
      BY DEF CurrentInjectionMode, OneMode
    <3>3. CASE rpm = "valid"
      <4>1. /\ isSimultanious' = [f \in Cylinders |->
                 IF f \in {e} THEN modes.cranking = "SIMULTANEOUS" ELSE isSimultanious[f]]
            /\ outputs' = [f \in Cylinders |->
                 IF f \in {e} THEN OutputsFor(modes.cranking, f) ELSE outputs[f]]
        BY <2>2, <3>2, <3>3 DEF AddFuelEventsFor
      <4>2. \A f \in Cylinders :
              /\ isSimultanious'[f] = (modes.cranking = "SIMULTANEOUS")
              /\ outputs'[f] = OutputsFor(modes.cranking, f)
        BY <3>1, <4>1 DEF Fits
      <4> QED
        BY <2>2, <4>2 DEF Fits
    <3>4. CASE rpm # "valid"
      BY <2>2, <3>1, <3>4 DEF AddFuelEventsFor, Fits
    <3> QED
      BY <3>3, <3>4
  <2> QED
    BY <2>3, <2>4
<1>7. ASSUME NEW e \in Cylinders, NEW r,
             \/ StartInjection(e) \/ FirmwareError \/ UNCHANGED vars
             \/ SetSpinningUp \/ AssignInstantRpm(r)
             \/ SetStopSpinning \/ ClearRpm \/ ClearState
      PROVE  OneModeFits' /\ BuiltOnce'
  <2>1. UNCHANGED <<modes, fuelVars, isScheduled, loopVars>>
    BY <1>7 DEF StartInjection, FirmwareError, SetSpinningUp, SetStopSpinning,
                AssignInstantRpm, ClearRpm, ClearState, vars
  <2> QED
    BY <1>1, <2>1 DEF fuelVars, loopVars, NothingScheduled
<1>8. ~EndPrime /\ ~Prime /\ ~TuneModes
  BY InjectionAssumption DEF PairInv, NoPrime, EndPrime, Prime, PrimeCheck, PrimeLoad,
                             PrimeStore, PrimeScheduleEnd, TuneModes, Cylinders
<1>9. 0 \in Cylinders
  BY InjectionAssumption DEF Cylinders
<1>10. ASSUME RpmCallback
       PROVE  OneModeFits' /\ BuiltOnce'
  <2>1. CASE \E above \in BOOLEAN : SetRpmValue("valid", above)
    BY <1>2, <2>1
  <2>2. CASE NoisyTrigger /\ SetRpmValue("noisy", FALSE)
    BY <1>2, <2>2
  <2>3. CASE \/ SetSpinningUp \/ \E r : AssignInstantRpm(r)
             \/ SetStopSpinning \/ ClearRpm \/ ClearState
    BY <1>7, <1>9, <2>3, Zenon
  <2> QED
    BY <1>10, <2>1, <2>2, <2>3, Zenon DEF RpmCallback
<1> QED
  BY <1>3, <1>4, <1>5, <1>6, <1>7, <1>8, <1>9, <1>10 DEF Next

LEMMA PairKept ==
  ASSUME PairInv, ~TunesModes, [Next]_vars
  PROVE  PairInv'
<1>1. IInv' /\ NoPrime' /\ NoDownIgnored'
  BY NextKeepsIInv, NoPrimeKept DEF PairInv
<1> QED
  BY <1>1, KindsKept, RebuildsKept DEF PairInv

(* The fueling modes are those of the configuration.                       *)
LEMMA ModesKept ==
  ASSUME ~TunesModes, [Next]_vars
  PROVE  UNCHANGED modes
BY DEF Next, RpmCallback, SetRpmValue, SetSpinningUp, AssignInstantRpm, SetStopSpinning,
       ClearRpm, ClearState, MainTriggerCallback, FuelIsCut, Loop, ToothSkipped,
       ScheduleStart, ScheduleEnd, StartInjection, EndInjection, EndPrime, Prime,
       PrimeCheck, PrimeLoad, PrimeStore, PrimeScheduleEnd, FirmwareError, TuneModes, vars

-----------------------------------------------------------------------------
(* The steps are steps of PairedInjections, or none. *)
pairVars == <<injectionPhase, injectorsHeld, overlappingCounter>>

(* Nothing is seen of a step that leaves flags and start timers alone.     *)
LEMMA SamePairs ==
  ASSUME UNCHANGED <<isScheduled, signalTimerUp, overlappingCounter, injectorsHeld>>
  PROVE  [Pairs!Next]_pairVars
BY DEF injectionPhase, pairVars

(* The first half of onTriggerTooth plans an injection, the second one its *)
(* end.                                                                    *)
LEMMA LoopIsPaired ==
  ASSUME PairInv, Loop
  PROVE  [Pairs!Next]_pairVars
<1> USE DEF PairInv
<1>1. UNCHANGED <<overlappingCounter, injectorsHeld>>
  BY LoopHolds
<1>2. ASSUME NEW e \in Cylinders, ScheduleStart(e)
      PROVE  [Pairs!Next]_pairVars
  <2>1. /\ ~isScheduled[e]
        /\ isScheduled' = [isScheduled EXCEPT ![e] = TRUE]
        /\ signalTimerUp'[e] # "none"
        /\ \A f \in Cylinders \ {e} : signalTimerUp'[f] = signalTimerUp[f]
    BY <1>2 DEF ScheduleStart, Insert, IInv, TypeOK, PairsDoNotMix
  <2>2. isScheduled'[e] /\ \A f \in Cylinders \ {e} : isScheduled'[f] = isScheduled[f]
    BY <2>1 DEF IInv, TypeOK
  <2>3. /\ injectionPhase[e] = "free"
        /\ injectionPhase' = [injectionPhase EXCEPT ![e] = "planned"]
    BY <2>1, <2>2 DEF injectionPhase
  <2>4. Pairs!Plan(e)
    BY <1>1, <2>3 DEF Pairs!Plan
  <2> QED
    BY <2>4 DEF Pairs!Next
<1>3. CASE ToothSkipped \/ \E e \in Cylinders : ScheduleEnd(e)
  BY <1>1, <1>3, SamePairs DEF ToothSkipped, ScheduleEnd, timers
<1> QED
  BY <1>2, <1>3 DEF Loop

(* A start opens the injectors its end will close, and no other.           *)
LEMMA StartIsPaired ==
  ASSUME PairInv, NEW e \in Cylinders, StartInjection(e)
  PROVE  [Pairs!Next]_pairVars
<1>1. /\ signalTimerUp[e] # "none" /\ signalTimerUp'[e] = "none"
      /\ \A f \in Cylinders \ {e} : signalTimerUp'[f] = signalTimerUp[f]
      /\ \A f \in Cylinders : ClosedBy(f)' = ClosedBy(f)
      /\ overlappingCounter' = [i \in Cylinders |->
           overlappingCounter[i] + (IF i \in ClosedBy(e) THEN 1 ELSE 0)]
  BY StartHolds
<1>2. isScheduled[e] /\ UNCHANGED isScheduled
  BY <1>1 DEF StartInjection, PairInv, IInv, PairsDoNotMix
<1>3. /\ injectionPhase[e] = "planned"
      /\ injectionPhase' = [injectionPhase EXCEPT ![e] = "open"]
  BY <1>1, <1>2 DEF injectionPhase
<1>4. injectorsHeld' = [injectorsHeld EXCEPT ![e] = ClosedBy(e)]
  BY <1>1 DEF injectorsHeld
<1>5. ClosedBy(e) \in SUBSET Cylinders
  BY DEF ClosedBy, PairInv, IInv, TypeOK
<1>6. Pairs!Start(e, ClosedBy(e))
  BY <1>1, <1>3, <1>4 DEF Pairs!Start
<1> QED
  BY <1>5, <1>6 DEF Pairs!Next

(* An end closes them, and frees the event.                                *)
LEMMA EndIsPaired ==
  ASSUME PairInv, NEW e \in Cylinders, EndInjection(e)
  PROVE  [Pairs!Next]_pairVars
<1>1. /\ endOfInjectionEvent[e] \in {"event", "all"}
      /\ signalTimerUp[e] = "none" /\ UNCHANGED signalTimerUp
      /\ \A f \in Cylinders \ {e} : ClosedBy(f)' = ClosedBy(f)
      /\ ClosedBy(e)' = {}
      /\ overlappingCounter' = [i \in Cylinders |->
           IF i \in ClosedBy(e) /\ overlappingCounter[i] > 0
           THEN overlappingCounter[i] - 1 ELSE overlappingCounter[i]]
  BY EndHolds
<1>2. isScheduled[e] /\ isScheduled' = [isScheduled EXCEPT ![e] = FALSE]
  BY <1>1 DEF EndInjection, PairInv, IInv, PairsDoNotMix
<1>3. ~isScheduled'[e] /\ \A f \in Cylinders \ {e} : isScheduled'[f] = isScheduled[f]
  BY <1>2 DEF PairInv, IInv, TypeOK
<1>4. /\ injectionPhase[e] = "open"
      /\ injectionPhase' = [injectionPhase EXCEPT ![e] = "free"]
  BY <1>1, <1>2, <1>3 DEF injectionPhase
<1>5. /\ injectorsHeld[e] = ClosedBy(e)
      /\ injectorsHeld' = [injectorsHeld EXCEPT ![e] = {}]
  BY <1>1 DEF injectorsHeld
<1>6. Pairs!End(e)
  BY <1>1, <1>4, <1>5 DEF Pairs!End
<1> QED
  BY <1>6 DEF Pairs!Next

(* The spinning state rebuilds the schedule only between two modes.        *)
LEMMA RpmCallbackIsPaired ==
  ASSUME PairInv, TypeOK', RpmCallback
  PROVE  [Pairs!Next]_pairVars
<1>1. UNCHANGED <<isScheduled, timers, loopVars>>
  BY DEF RpmCallback, SetRpmValue, SetSpinningUp, AssignInstantRpm, SetStopSpinning,
         ClearRpm, ClearState
<1>2. CASE UNCHANGED <<pinVars, fuelVars>>
  <2>1. \A f \in Cylinders : ClosedBy(f)' = ClosedBy(f)
    BY <1>1, <1>2, Zenon DEF ClosedBy, timers, loopVars, fuelVars
  <2>2. UNCHANGED injectorsHeld
    BY <1>1, <2>1 DEF injectorsHeld, timers
  <2> QED
    BY <1>1, <1>2, <2>2, SamePairs DEF timers, pinVars
<1>3. ASSUME NEW r, NEW above, SetRpmValue(r, above), ~UNCHANGED <<pinVars, fuelVars>>
      PROVE  [Pairs!Next]_pairVars
  <2>1. ~OneMode /\ overlappingCounter' = [j \in Cylinders |-> 0]
    BY <1>3 DEF SetRpmValue, Rebuild, ResetOverlapping, OneMode
  <2>2. \E c \in Configurations : c.cranking # c.running
    BY <2>1 DEF OneMode, PairInv, IInv, TypeOK
  <2>3. UNCHANGED injectionPhase
    BY <1>1 DEF injectionPhase, timers
  <2>4. injectorsHeld' \in [Cylinders -> SUBSET Cylinders]
    BY DEF TypeOK, injectorsHeld, ClosedBy
  <2>5. ASSUME NEW e \in Cylinders, injectionPhase[e] # "open"
        PROVE  injectorsHeld'[e] = {}
    <3>1. CASE signalTimerUp[e] # "none"
      BY <1>1, <3>1 DEF injectorsHeld, timers
    <3>2. CASE ~isScheduled[e]
      <4>1. endOfInjectionEvent[e] = "none" /\ (nextEvent # e \/ endAction = "none")
        BY <3>2 DEF PairInv, IInv, PairsDoNotMix, HalfwayIsScheduled, NoPrime
      <4>2. ClosedBy(e)' = {}
        BY <1>1, <4>1 DEF ClosedBy, timers, loopVars
      <4> QED
        BY <4>2 DEF injectorsHeld
    <3> QED
      BY <2>5, <3>1, <3>2 DEF injectionPhase
  <2>6. Pairs!ChangeMode
    BY <2>1, <2>2, <2>3, <2>4, <2>5 DEF Pairs!ChangeMode
  <2> QED
    BY <2>6 DEF Pairs!Next
<1> QED
  BY <1>2, <1>3 DEF RpmCallback, SetSpinningUp, AssignInstantRpm, SetStopSpinning,
                    ClearRpm, ClearState

LEMMA StepIsPaired ==
  ASSUME PairInv, TypeOK', OneMode \/ Calm, [Next]_vars
  PROVE  [Pairs!Next]_pairVars
<1>1. ASSUME NEW changed \in {FALSE, TunesTrigger}, MainTriggerCallback(changed)
      PROVE  [Pairs!Next]_pairVars
  <2>1. UNCHANGED <<overlappingCounter, injectorsHeld>>
    BY <1>1, MainTriggerHolds
  <2> QED
    BY <1>1, <2>1, SamePairs DEF MainTriggerCallback, timers
<1>2. ASSUME NEW changed, FuelIsCut(changed) \/ FirmwareError \/ TuneModes \/ UNCHANGED vars
      PROVE  [Pairs!Next]_pairVars
  <2>1. UNCHANGED <<outputs, isScheduled, timers, loopVars, overlappingCounter>>
    BY <1>2 DEF FuelIsCut, FirmwareError, TuneModes, vars, fuelVars, pinVars
  <2>2. \A f \in Cylinders : ClosedBy(f)' = ClosedBy(f)
    BY <2>1, Zenon DEF ClosedBy, timers, loopVars
  <2>3. UNCHANGED injectorsHeld
    BY <2>1, <2>2 DEF injectorsHeld, timers
  <2> QED
    BY <2>1, <2>3, SamePairs DEF timers
<1>3. ~EndPrime /\ ~Prime
  BY InjectionAssumption DEF PairInv, NoPrime, EndPrime, Prime, PrimeCheck, PrimeLoad,
                             PrimeStore, PrimeScheduleEnd, Cylinders
<1> QED
  BY <1>1, <1>2, <1>3, RpmCallbackIsPaired, LoopIsPaired, StartIsPaired, EndIsPaired DEF Next

-----------------------------------------------------------------------------
(* Counting. *)

LEMMA CylindersAreFinite == IsFiniteSet(Cylinders)
BY FS_Interval, InjectionAssumption DEF Cylinders

(* One more injection is counted once.                                     *)
LEMMA OneMore ==
  ASSUME NEW S \in SUBSET Cylinders, NEW e \in Cylinders, e \notin S
  PROVE  /\ Cardinality(S) \in Nat
         /\ Cardinality(S \cup {e}) = Cardinality(S) + 1
BY CylindersAreFinite, FS_Subset, FS_AddElement, FS_CardinalityType

LEMMA OneLess ==
  ASSUME NEW S \in SUBSET Cylinders, NEW e \in S
  PROVE  /\ Cardinality(S) \in Nat /\ Cardinality(S) > 0
         /\ Cardinality(S \ {e}) = Cardinality(S) - 1
<1>1. /\ Cardinality(S) \in Nat /\ Cardinality(S \ {e}) \in Nat
      /\ Cardinality(S \ {e}) = Cardinality(S) - 1
  BY CylindersAreFinite, FS_Subset, FS_RemoveElement, FS_CardinalityType
<1> QED
  BY <1>1

(* No injector is counted open more often than it has been opened, and     *)
(* with a single mode not less often either.                               *)
NoneTooMany ==
  \A j \in Cylinders : overlappingCounter[j] <= Cardinality(OpenedOn(j))

NoneLost ==
  \A j \in Cylinders : overlappingCounter[j] = Cardinality(OpenedOn(j))

(* The wire of an injector is high while it is counted open.               *)
WireFollows ==
  ~firmwareError => \A j \in Cylinders : pin[j] <=> overlappingCounter[j] > 0

LEMMA NothingOpenedInit ==
  ASSUME ~Primes, Init
  PROVE  NoneTooMany /\ NoneLost /\ WireFollows
<1>1. \A j \in Cylinders : OpenedOn(j) = {}
  <2>1. \A e \in Cylinders : ClosedBy(e) = {}
    BY DEF Init, ClosedBy
  <2> QED
    BY <2>1 DEF OpenedOn
<1>2. \A j \in Cylinders : overlappingCounter[j] = 0 /\ ~pin[j]
  BY DEF Init
<1> QED
  BY <1>1, <1>2, FS_EmptySet DEF NoneTooMany, NoneLost, WireFollows

LEMMA NoneTooManyKept ==
  ASSUME PairInv, NoneTooMany, OneMode \/ Calm, [Next]_vars
  PROVE  NoneTooMany'
<1> SUFFICES ASSUME NEW j \in Cylinders
             PROVE  overlappingCounter'[j] <= Cardinality(OpenedOn(j)')
  BY DEF NoneTooMany
<1>1. overlappingCounter[j] \in Nat /\ overlappingCounter[j] <= Cardinality(OpenedOn(j))
  BY DEF NoneTooMany, PairInv, IInv, TypeOK
<1>2. OpenedOn(j) \in SUBSET Cylinders /\ OpenedOn(j)' \in SUBSET Cylinders
  BY DEF OpenedOn
<1>3. CASE Quiet(j)
  BY <1>1, <1>3 DEF Quiet
<1>4. CASE overlappingCounter'[j] = 0
  <2>1. Cardinality(OpenedOn(j)') \in Nat
    BY <1>2, CylindersAreFinite, FS_Subset, FS_CardinalityType
  <2> QED
    BY <1>4, <2>1
<1>5. ASSUME NEW e \in Cylinders, Opens(j, e)
      PROVE  overlappingCounter'[j] <= Cardinality(OpenedOn(j)')
  <2>1. /\ Cardinality(OpenedOn(j)) \in Nat
        /\ Cardinality(OpenedOn(j)') = Cardinality(OpenedOn(j)) + 1
    BY <1>2, <1>5, OneMore DEF Opens
  <2> QED
    BY <1>1, <1>5, <2>1 DEF Opens
<1>6. ASSUME NEW e \in Cylinders, Closes(j, e)
      PROVE  overlappingCounter'[j] <= Cardinality(OpenedOn(j)')
  <2>1. /\ Cardinality(OpenedOn(j)) \in Nat /\ Cardinality(OpenedOn(j)) > 0
        /\ Cardinality(OpenedOn(j)') = Cardinality(OpenedOn(j)) - 1
    BY <1>2, <1>6, OneLess DEF Closes
  <2> QED
    BY <1>1, <1>6, <2>1 DEF Closes
<1> QED
  BY <1>3, <1>4, <1>5, <1>6, StepKinds

LEMMA NoneLostKept ==
  ASSUME PairInv, NoneLost, OneMode, [Next]_vars
  PROVE  NoneLost'
<1> SUFFICES ASSUME NEW j \in Cylinders
             PROVE  overlappingCounter'[j] = Cardinality(OpenedOn(j)')
  BY DEF NoneLost
<1>1. overlappingCounter[j] \in Nat /\ overlappingCounter[j] = Cardinality(OpenedOn(j))
  BY DEF NoneLost, PairInv, IInv, TypeOK
<1>2. OpenedOn(j) \in SUBSET Cylinders
  BY DEF OpenedOn
<1>3. CASE Quiet(j)
  BY <1>1, <1>3 DEF Quiet
<1>4. ASSUME NEW e \in Cylinders, Opens(j, e)
      PROVE  overlappingCounter'[j] = Cardinality(OpenedOn(j)')
  BY <1>1, <1>2, <1>4, OneMore DEF Opens
<1>5. ASSUME NEW e \in Cylinders, Closes(j, e)
      PROVE  overlappingCounter'[j] = Cardinality(OpenedOn(j)')
  <2>1. /\ Cardinality(OpenedOn(j)) > 0
        /\ Cardinality(OpenedOn(j)') = Cardinality(OpenedOn(j)) - 1
    BY <1>2, <1>5, OneLess DEF Closes
  <2> QED
    BY <1>1, <1>5, <2>1 DEF Closes
<1> QED
  BY <1>3, <1>4, <1>5, StepKinds

(* The wire changes with the counter: up with the first of the overlapping *)
(* injections, down with the last.                                         *)
LEMMA WireKept ==
  ASSUME PairInv, WireFollows, OneMode, [Next]_vars
  PROVE  WireFollows'
<1> SUFFICES ASSUME ~firmwareError', NEW j \in Cylinders
             PROVE  pin'[j] <=> overlappingCounter'[j] > 0
  BY DEF WireFollows
<1>1. CASE UNCHANGED <<pinVars, firmwareError>>
  BY <1>1 DEF WireFollows, pinVars
<1>2. ASSUME NEW S, Open(S), UNCHANGED firmwareError
      PROVE  pin'[j] <=> overlappingCounter'[j] > 0
  <2>1. /\ overlappingCounter'[j] = overlappingCounter[j] + (IF j \in S THEN 1 ELSE 0)
        /\ pin'[j] = (pin[j] \/ (j \in S /\ overlappingCounter[j] = 0))
    BY <1>2 DEF Open
  <2>2. overlappingCounter[j] \in Nat /\ (pin[j] <=> overlappingCounter[j] > 0)
    BY <1>2 DEF WireFollows, PairInv, IInv, TypeOK
  <2>3. pin'[j] <=> overlappingCounter[j] > 0 \/ (j \in S /\ overlappingCounter[j] = 0)
    BY <2>1, <2>2, Zenon
  <2>4. overlappingCounter'[j] > 0
          <=> overlappingCounter[j] > 0 \/ (j \in S /\ overlappingCounter[j] = 0)
    BY <2>1, <2>2
  <2> QED
    BY <2>3, <2>4, Zenon
<1>3. ASSUME NEW S, Close(S), UNCHANGED firmwareError
      PROVE  pin'[j] <=> overlappingCounter'[j] > 0
  <2>1. /\ overlappingCounter'[j] =
             IF j \in S /\ overlappingCounter[j] > 0 THEN overlappingCounter[j] - 1
                                                     ELSE overlappingCounter[j]
        /\ pin'[j] = (pin[j] /\ ~(j \in S /\ overlappingCounter[j] <= 1))
    BY <1>3 DEF Close
  <2>2. overlappingCounter[j] \in Nat /\ (pin[j] <=> overlappingCounter[j] > 0)
    BY <1>3 DEF WireFollows, PairInv, IInv, TypeOK
  <2>3. pin'[j] <=> /\ overlappingCounter[j] > 0
                    /\ ~(j \in S /\ overlappingCounter[j] <= 1)
    BY <2>1, <2>2, Zenon
  <2>4. overlappingCounter'[j] > 0 <=> /\ overlappingCounter[j] > 0
                                      /\ ~(j \in S /\ overlappingCounter[j] <= 1)
    BY <2>1, <2>2
  <2> QED
    BY <2>3, <2>4, Zenon
<1>4. ASSUME RpmCallback
      PROVE  UNCHANGED <<pinVars, firmwareError>>
  BY <1>4 DEF RpmCallback, SetRpmValue, SetSpinningUp, AssignInstantRpm, SetStopSpinning,
              ClearRpm, ClearState, OneMode
<1>5. ASSUME NEW changed,
             \/ MainTriggerCallback(changed) \/ FuelIsCut(changed) \/ Loop \/ TuneModes
             \/ UNCHANGED vars
      PROVE  UNCHANGED <<pinVars, firmwareError>>
  BY <1>5 DEF MainTriggerCallback, FuelIsCut, Loop, ToothSkipped, ScheduleStart,
              ScheduleEnd, TuneModes, vars
<1>6. ASSUME NEW e \in Cylinders, StartInjection(e) \/ EndInjection(e)
      PROVE  UNCHANGED firmwareError /\ \E S : Open(S) \/ Close(S)
  BY <1>6, Zenon DEF StartInjection, EndInjection
<1>7. ~EndPrime /\ ~Prime /\ ~FirmwareError
  BY InjectionAssumption DEF PairInv, NoPrime, EndPrime, Prime, PrimeCheck, PrimeLoad,
                             PrimeStore, PrimeScheduleEnd, FirmwareError, Cylinders
<1> QED
  BY <1>1, <1>2, <1>3, <1>4, <1>5, <1>6, <1>7 DEF Next

-----------------------------------------------------------------------------
(* The end counter comes back to zero (event_registry.h): without a        *)
(* priming pulse, and unless the modes are tuned while the engine turns,   *)
(* an injector is never counted open more often than there are ends still  *)
(* to close it.  The engine either has one mode for cranking and running,  *)
(* whatever the noise, or it has two and a schedule that is never taken    *)
(* back; a schedule taken back between the modes would be rebuilt under    *)
(* the injections that are on their way.                                   *)
THEOREM OpeningsAlwaysEnd ==
  ASSUME ~Primes, ~TunesModes,
         Calm \/ \A c \in Configurations : c.cranking = c.running
  PROVE  Spec => []EveryOpeningHasItsEnd
<1> DEFINE Inv == PairInv /\ NoneTooMany /\ (OneMode \/ Calm)
<1>1. Init => Inv
  BY PairInit, NothingOpenedInit DEF Init, OneMode
<1>2. Inv /\ [Next]_vars => Inv'
  <2> SUFFICES ASSUME Inv, [Next]_vars PROVE Inv'
    OBVIOUS
  <2>1. (OneMode \/ Calm)'
    BY ModesKept DEF OneMode, Calm
  <2> QED
    BY <2>1, PairKept, NoneTooManyKept
<1>3. Inv => EveryOpeningHasItsEnd
  <2> SUFFICES ASSUME NoneTooMany, PairInv, NEW j \in Cylinders
               PROVE  overlappingCounter[j]
                        <= Cardinality({e \in Cylinders : j \in ClosedBy(e)})
    BY DEF EveryOpeningHasItsEnd
  <2> DEFINE Ends == {e \in Cylinders : j \in ClosedBy(e)}
  <2>1. IsFiniteSet(Ends)
    BY CylindersAreFinite, FS_Subset
  <2>2. OpenedOn(j) \in SUBSET Ends
    BY DEF OpenedOn
  <2>3. Cardinality(OpenedOn(j)) <= Cardinality(Ends)
    BY <2>1, <2>2, FS_Subset
  <2>4. Cardinality(OpenedOn(j)) \in Nat /\ Cardinality(Ends) \in Nat
    BY <2>1, <2>2, FS_Subset, FS_CardinalityType
  <2>5. overlappingCounter[j] \in Nat /\ overlappingCounter[j] <= Cardinality(OpenedOn(j))
    BY DEF NoneTooMany, PairInv, IInv, TypeOK
  <2> QED
    BY <2>3, <2>4, <2>5
<1> HIDE DEF Inv
<1> QED
  BY <1>1, <1>2, <1>3, PTL DEF Spec

(* The counter does not get out of sync with reality (rpm_calculator.cpp): *)
(* on an engine with one mode for cranking and running an injection that   *)
(* has started keeps its injectors open until its own end, whatever other  *)
(* injections overlap with it on the same injector, for every firing       *)
(* order, noise and change of the trigger settings.                        *)
THEOREM CounterAlwaysInSync ==
  ASSUME ~Primes, ~TunesModes, \A c \in Configurations : c.cranking = c.running
  PROVE  Spec => []CounterInSync
<1> DEFINE Inv == PairInv /\ NoneLost /\ WireFollows /\ OneMode
<1>1. Init => Inv
  BY PairInit, NothingOpenedInit DEF Init, OneMode
<1>2. Inv /\ [Next]_vars => Inv'
  <2> SUFFICES ASSUME Inv, [Next]_vars PROVE Inv'
    OBVIOUS
  <2>1. OneMode'
    BY ModesKept DEF OneMode
  <2> QED
    BY <2>1, PairKept, NoneLostKept, WireKept
<1>3. Inv => CounterInSync
  <2> SUFFICES ASSUME NoneLost, WireFollows, ~firmwareError,
                      NEW e \in Cylinders, UnderWay(e), NEW j \in ClosedBy(e),
                      PairInv
               PROVE  pin[j]
    BY DEF CounterInSync
  <2>1. j \in Cylinders
    BY DEF ClosedBy, PairInv, IInv, TypeOK
  <2>2. e \in OpenedOn(j)
    BY DEF OpenedOn, UnderWay
  <2>3. Cardinality(OpenedOn(j)) > 0
    BY <2>2, OneLess DEF OpenedOn
  <2> QED
    BY <2>1, <2>3 DEF NoneLost, WireFollows
<1> HIDE DEF Inv
<1> QED
  BY <1>1, <1>2, <1>3, PTL DEF Spec

(* The events keep what they promise the injectors (event_registry.h),     *)
(* for every number of cylinders, every firing order, any overlap and any  *)
(* order of timers and teeth, on the engines of OpeningsAlwaysEnd: an      *)
(* injection is planned, starts and ends once, and its end closes exactly  *)
(* what its start has opened, unless a change of mode has come between.    *)
THEOREM InjectionsArePaired ==
  ASSUME ~Primes, ~TunesModes,
         Calm \/ \A c \in Configurations : c.cranking = c.running
  PROVE  Spec => InjectsInPairs
<1> DEFINE Inv == PairInv /\ (OneMode \/ Calm)
<1>1. Init => Inv /\ Pairs!Init
  <2> SUFFICES ASSUME Init PROVE Inv /\ Pairs!Init
    OBVIOUS
  <2>1. PairInv /\ (OneMode \/ Calm)
    BY PairInit DEF Init, OneMode
  <2>2. injectionPhase = [e \in Cylinders |-> "free"]
    BY DEF Init, injectionPhase
  <2>3. \A e \in Cylinders : ClosedBy(e) = {}
    BY <2>1, IdleClosesNothing DEF Init, PairInv
  <2>4. injectorsHeld = [e \in Cylinders |-> {}]
    BY <2>3 DEF injectorsHeld
  <2> QED
    BY <2>1, <2>2, <2>4 DEF Init, Pairs!Init
<1>2. Inv /\ [Next]_vars => Inv' /\ [Pairs!Next]_pairVars
  <2> SUFFICES ASSUME Inv, [Next]_vars PROVE Inv' /\ [Pairs!Next]_pairVars
    OBVIOUS
  <2>1. (OneMode \/ Calm)'
    BY ModesKept DEF OneMode, Calm
  <2>2. PairInv'
    BY PairKept
  <2>3. TypeOK'
    BY <2>2 DEF PairInv, IInv
  <2> QED
    BY <2>1, <2>2, <2>3, StepIsPaired
<1> HIDE DEF Inv
<1> QED
  BY <1>1, <1>2, PTL DEF Spec, InjectsInPairs, Pairs!Spec, Pairs!vars, pairVars
=============================================================================
