------------------------ MODULE InjectionScheduleProofs ------------------------
(***************************************************************************)
(* Theorems about InjectionSchedule, for every number of cylinders, every  *)
(* firing order, every fueling mode and every disturbance.                 *)
(***************************************************************************)
EXTENDS InjectionSchedule, TLAPS

(* Half-way through onTriggerTooth the event is marked as scheduled, and   *)
(* its end timer is free unless the prime pulse holds it.                  *)
HalfwayIsScheduled ==
  endAction # "none" =>
    /\ nextEvent \in Cylinders
    /\ isScheduled[nextEvent]
    /\ endOfInjectionEvent[nextEvent] \in {"none", "prime"}

IInv == TypeOK /\ PairsDoNotMix /\ HalfwayIsScheduled

(* addFuelEventsForCylinder gives an event injectors of the engine.        *)
LEMMA OutputsAreInjectors ==
  ASSUME NEW mode \in Modes, NEW e \in Cylinders
  PROVE  OutputsFor(mode, e) \subseteq Cylinders
<1>1. 0 \in Cylinders /\ FiringOrder[e] \in Cylinders
  BY InjectionAssumption DEF Cylinders
<1>2. NumCylinders \div 2 \in Nat /\ NumCylinders \div 2 > 0 /\ NumCylinders \div 2 <= NumCylinders
  BY InjectionAssumption
<1>3. e % (NumCylinders \div 2) \in Cylinders
  <2>1. e \in Nat
    BY DEF Cylinders
  <2>2. e % (NumCylinders \div 2) \in 0 .. (NumCylinders \div 2) - 1
    BY <1>2, <2>1
  <2> QED
    BY <1>2, <2>2, InjectionAssumption DEF Cylinders
<1>4. (e + NumCylinders \div 2) % NumCylinders \in Cylinders
  <2>1. e + NumCylinders \div 2 \in Nat
    BY <1>2 DEF Cylinders
  <2> QED
    BY <2>1, InjectionAssumption DEF Cylinders
<1>5. FiringOrder[(e + NumCylinders \div 2) % NumCylinders] \in Cylinders
  BY <1>4, InjectionAssumption
<1> QED
  BY <1>1, <1>3, <1>5 DEF OutputsFor

(* What the steps write into the pins and into the schedule has its type.  *)
LEMMA PinTypes ==
  ASSUME TypeOK, NEW S, Open(S) \/ Close(S) \/ ResetOverlapping \/ UNCHANGED pinVars
  PROVE  overlappingCounter' \in [Cylinders -> Nat] /\ pin' \in [Cylinders -> BOOLEAN]
<1>1. CASE Open(S)
  BY <1>1 DEF Open, TypeOK
<1>2. CASE Close(S)
  BY <1>2 DEF Close, TypeOK
<1>3. CASE ResetOverlapping
  BY <1>3 DEF ResetOverlapping, TypeOK
<1>4. CASE UNCHANGED pinVars
  BY <1>4 DEF pinVars, TypeOK
<1> QED
  BY <1>1, <1>2, <1>3, <1>4

(* What a rebuild of the schedule writes has its type.                     *)
LEMMA ScheduleTypes ==
  ASSUME TypeOK, NEW S, NEW s, NEW r,
         AddFuelEventsFor(S, s, r) \/ UNCHANGED <<isSimultanious, outputs>>
  PROVE  /\ isSimultanious' \in [Cylinders -> BOOLEAN]
         /\ outputs' \in [Cylinders -> SUBSET Cylinders]
<1> DEFINE mode == CurrentInjectionMode(s, r)
<1>1. mode \in Modes
  BY InjectionAssumption DEF CurrentInjectionMode, TypeOK
<1>2. CASE AddFuelEventsFor(S, s, r) /\ r = "valid"
  <2>1. \A e \in Cylinders : OutputsFor(mode, e) \subseteq Cylinders
    BY <1>1, OutputsAreInjectors
  <2>2. /\ isSimultanious' = [e \in Cylinders |->
              IF e \in S THEN mode = "SIMULTANEOUS" ELSE isSimultanious[e]]
        /\ outputs' = [e \in Cylinders |->
              IF e \in S THEN OutputsFor(mode, e) ELSE outputs[e]]
    BY <1>2 DEF AddFuelEventsFor
  <2> HIDE DEF mode
  <2> QED
    BY <2>1, <2>2 DEF TypeOK
<1>3. CASE ~(AddFuelEventsFor(S, s, r) /\ r = "valid")
  BY <1>3 DEF AddFuelEventsFor, TypeOK
<1> QED
  BY <1>2, <1>3

(* The initial state satisfies the inductive invariant.                    *)
LEMMA InitIInv == Init => IInv
<1> SUFFICES ASSUME Init PROVE IInv
  OBVIOUS
<1>1. 0 \in Cylinders /\ NotInLoop \in 0 .. NumCylinders
  BY InjectionAssumption DEF Cylinders, NotInLoop
<1>2. TypeOK
  BY <1>1 DEF Init, TypeOK, NotLoaded
<1>3. PairsDoNotMix /\ HalfwayIsScheduled
  BY DEF Init, PairsDoNotMix, HalfwayIsScheduled
<1> QED
  BY <1>2, <1>3 DEF IInv

(* The steps that leave the flags, the timers and the loop alone.          *)
LEMMA QuietStepsKeepIInv ==
  ASSUME IInv, TypeOK', UNCHANGED <<isScheduled, timers, loopVars>>
  PROVE  IInv'
BY DEF IInv, PairsDoNotMix, HalfwayIsScheduled, timers, loopVars

(* No change of the spinning state touches a flag or a timer.              *)
LEMMA RpmCallbackKeepsIInv ==
  ASSUME IInv, RpmCallback
  PROVE  IInv'
<1>1. ASSUME NEW r \in {"valid", "noisy"}, NEW above \in BOOLEAN, SetRpmValue(r, above)
      PROVE  IInv'
  <2>1. /\ overlappingCounter' \in [Cylinders -> Nat]
        /\ pin' \in [Cylinders -> BOOLEAN]
    BY <1>1, PinTypes DEF IInv, SetRpmValue, Rebuild
  <2>2. /\ isSimultanious' \in [Cylinders -> BOOLEAN]
        /\ outputs' \in [Cylinders -> SUBSET Cylinders]
    BY <1>1, ScheduleTypes DEF IInv, SetRpmValue, Rebuild, AddFuelEvents, fuelVars
  <2>3. /\ isReady' \in BOOLEAN
        /\ interrupted' \subseteq Cylinders
        /\ state' \in {"STOPPED", "SPINNING_UP", "CRANKING", "RUNNING"}
        /\ rpm' \in {"zero", "noisy", "valid"}
    BY <1>1 DEF IInv, TypeOK, SetRpmValue, Rebuild, AddFuelEvents, ResetOverlapping, fuelVars
  <2>4. UNCHANGED <<modes, stopping, isScheduled, timers, loopVars, primeVars, firmwareError>>
    BY <1>1 DEF SetRpmValue
  <2>5. TypeOK'
    BY <2>1, <2>2, <2>3, <2>4 DEF IInv, TypeOK, timers, loopVars, primeVars
  <2> QED
    BY <2>4, <2>5, QuietStepsKeepIInv
<1>2. ASSUME NEW r \in {"zero", "valid", "noisy"},
             \/ SetSpinningUp \/ AssignInstantRpm(r)
             \/ SetStopSpinning \/ ClearRpm \/ ClearState
      PROVE  IInv'
  <2>1. /\ UNCHANGED <<modes, fuelVars, isScheduled, timers, pinVars, loopVars>>
        /\ UNCHANGED <<interrupted, primeVars, firmwareError>>
    BY <1>2, Zenon DEF SetSpinningUp, AssignInstantRpm, SetStopSpinning, ClearRpm, ClearState
  <2>2. /\ state' \in {"STOPPED", "SPINNING_UP", "CRANKING", "RUNNING"}
        /\ rpm' \in {"zero", "noisy", "valid"}
        /\ stopping' \in BOOLEAN
    <3>1. /\ state' \in {state, "STOPPED", "SPINNING_UP"}
          /\ rpm' \in {rpm, r, "zero"}
          /\ stopping' = stopping \/ stopping' = TRUE \/ stopping' = FALSE
      BY <1>2, Zenon DEF SetSpinningUp, AssignInstantRpm, SetStopSpinning, ClearRpm, ClearState
    <3>2. /\ state \in {"STOPPED", "SPINNING_UP", "CRANKING", "RUNNING"}
          /\ rpm \in {"zero", "noisy", "valid"}
          /\ stopping \in BOOLEAN
      BY Zenon DEF IInv, TypeOK
    <3>3. stopping' \in BOOLEAN
      BY <3>1, <3>2, Zenon
    <3> QED
      BY <3>1, <3>2, <3>3
  <2>3. TypeOK
    BY DEF IInv
  <2>4. TypeOK'
    BY <2>1, <2>2, <2>3, ZenonT(60)
       DEF TypeOK, fuelVars, timers, pinVars, loopVars, primeVars
  <2> QED
    BY <2>1, <2>4, QuietStepsKeepIInv
<1> QED
  BY <1>1, <1>2 DEF RpmCallback

(* The loop over the events sets the flag before it queues either timer.   *)
LEMMA LoopKeepsIInv ==
  ASSUME IInv,
         Loop \/ \E changed \in {FALSE, TunesTrigger} : MainTriggerCallback(changed)
  PROVE  IInv'
<1> USE DEF IInv
<1>1. ASSUME NEW changed, MainTriggerCallback(changed)
      PROVE  IInv'
  <2>1. /\ isSimultanious' \in [Cylinders -> BOOLEAN]
        /\ outputs' \in [Cylinders -> SUBSET Cylinders]
    BY <1>1, ScheduleTypes DEF MainTriggerCallback, AddFuelEvents, fuelVars
  <2>2. isReady' \in BOOLEAN
    BY <1>1 DEF TypeOK, MainTriggerCallback, AddFuelEvents, fuelVars
  <2>3. nextEvent' \in 0 .. NumCylinders
    BY <1>1, InjectionAssumption DEF MainTriggerCallback
  <2>4. UNCHANGED <<modes, rpmVars, isScheduled, timers, pinVars, endAction,
                    interrupted, primeVars, firmwareError>>
    BY <1>1 DEF MainTriggerCallback
  <2>5. TypeOK'
    BY <2>1, <2>2, <2>3, <2>4 DEF TypeOK, rpmVars, timers, pinVars, primeVars
  <2>6. endAction = "none"
    BY <1>1, InjectionAssumption
       DEF MainTriggerCallback, HalfwayIsScheduled, NotInLoop, Cylinders
  <2> QED
    BY <2>4, <2>5, <2>6 DEF PairsDoNotMix, HalfwayIsScheduled, timers
<1>2. ASSUME ToothSkipped
      PROVE  IInv'
  <2>1. nextEvent' \in 0 .. NumCylinders
    BY <1>2, InjectionAssumption DEF ToothSkipped, TypeOK, NotInLoop
  <2>2. TypeOK'
    BY <1>2, <2>1 DEF TypeOK, ToothSkipped, rpmVars, fuelVars, timers, pinVars, primeVars
  <2> QED
    BY <1>2, <2>2 DEF ToothSkipped, PairsDoNotMix, HalfwayIsScheduled, timers
<1>3. ASSUME NEW e \in Cylinders, ScheduleStart(e)
      PROVE  IInv'
  <2> DEFINE kind == IF isSimultanious[e] THEN "all" ELSE "event"
  <2>1. /\ nextEvent = e /\ nextEvent' = e
        /\ ~isScheduled[e]
        /\ isScheduled' = [isScheduled EXCEPT ![e] = TRUE]
        /\ signalTimerUp' = Insert(signalTimerUp, e, kind)
        /\ endAction' = kind
        /\ UNCHANGED <<modes, rpmVars, fuelVars, endOfInjectionEvent, pinVars,
                       interrupted, primeVars, firmwareError>>
    BY <1>3 DEF ScheduleStart
  <2>2. kind \in {"event", "all"}
    OBVIOUS
  <2> HIDE DEF kind
  <2>3. signalTimerUp' = [signalTimerUp EXCEPT ![e] = kind]
    BY <2>1 DEF Insert, PairsDoNotMix
  <2>4. TypeOK'
    BY <2>1, <2>2, <2>3 DEF TypeOK, rpmVars, fuelVars, pinVars, primeVars
  <2>5. PairsDoNotMix'
    BY <2>1, <2>3 DEF PairsDoNotMix, TypeOK
  <2>6. HalfwayIsScheduled'
    BY <2>1 DEF HalfwayIsScheduled, PairsDoNotMix, TypeOK
  <2> QED
    BY <2>4, <2>5, <2>6
<1>4. ASSUME NEW e \in Cylinders, ScheduleEnd(e)
      PROVE  IInv'
  <2>1. nextEvent' \in 0 .. NumCylinders
    BY <1>4, InjectionAssumption DEF ScheduleEnd, Cylinders
  <2>2. endOfInjectionEvent' \in [Cylinders -> {"none", "event", "all", "prime"}]
    BY <1>4 DEF ScheduleEnd, Insert, TypeOK
  <2>3. TypeOK'
    BY <1>4, <2>1, <2>2 DEF ScheduleEnd, TypeOK, rpmVars, fuelVars, pinVars, primeVars
  <2>4. \A f \in Cylinders : f # e => endOfInjectionEvent'[f] = endOfInjectionEvent[f]
    BY <1>4 DEF ScheduleEnd, Insert, TypeOK
  <2>5. isScheduled[e]
    BY <1>4 DEF ScheduleEnd, HalfwayIsScheduled
  <2> QED
    BY <1>4, <2>3, <2>4, <2>5 DEF ScheduleEnd, PairsDoNotMix, HalfwayIsScheduled
<1> QED
  BY <1>1, <1>2, <1>3, <1>4 DEF Loop

(* An end clears the flag only when the start has run, so both timers of   *)
(* the event are free then.                                                *)
LEMMA TimersKeepIInv ==
  ASSUME IInv,
         EndPrime \/ \E e \in Cylinders : StartInjection(e) \/ EndInjection(e)
  PROVE  IInv'
<1> USE DEF IInv
<1>1. ASSUME NEW e \in Cylinders, StartInjection(e)
      PROVE  IInv'
  <2>1. overlappingCounter' \in [Cylinders -> Nat] /\ pin' \in [Cylinders -> BOOLEAN]
    BY <1>1, PinTypes DEF StartInjection
  <2>2. /\ signalTimerUp' = [signalTimerUp EXCEPT ![e] = "none"]
        /\ UNCHANGED <<modes, rpmVars, fuelVars, isScheduled, endOfInjectionEvent,
                       loopVars, interrupted, primeVars, firmwareError>>
    BY <1>1, Zenon DEF StartInjection
  <2>3. signalTimerUp' \in [Cylinders -> {"none", "event", "all"}]
    <3>1. signalTimerUp \in [Cylinders -> {"none", "event", "all"}]
      BY Zenon DEF TypeOK
    <3> QED
      BY <2>2, <3>1
  <2>4. TypeOK'
    BY <2>1, <2>2, <2>3, ZenonT(60) DEF TypeOK, rpmVars, fuelVars, loopVars, primeVars
  <2>5. PairsDoNotMix'
    BY <2>2 DEF PairsDoNotMix, TypeOK
  <2>6. HalfwayIsScheduled'
    BY <2>2, Zenon DEF HalfwayIsScheduled, loopVars
  <2> QED
    BY <2>4, <2>5, <2>6
<1>2. ASSUME NEW e \in Cylinders, EndInjection(e)
      PROVE  IInv'
  <2>1. overlappingCounter' \in [Cylinders -> Nat] /\ pin' \in [Cylinders -> BOOLEAN]
    BY <1>2, PinTypes DEF EndInjection
  <2>2. /\ isSimultanious' \in [Cylinders -> BOOLEAN]
        /\ outputs' \in [Cylinders -> SUBSET Cylinders]
    BY <1>2, ScheduleTypes DEF EndInjection
  <2>3. TypeOK'
    <3>1. /\ endOfInjectionEvent' = [endOfInjectionEvent EXCEPT ![e] = "none"]
          /\ isScheduled' = [isScheduled EXCEPT ![e] = FALSE]
          /\ interrupted' = interrupted \ {e}
          /\ UNCHANGED <<modes, rpmVars, isReady, signalTimerUp, loopVars, primeVars, firmwareError>>
      BY <1>2, Zenon DEF EndInjection
    <3>2. /\ endOfInjectionEvent' \in [Cylinders -> {"none", "event", "all", "prime"}]
          /\ isScheduled' \in [Cylinders -> BOOLEAN]
          /\ interrupted' \subseteq Cylinders
      BY <3>1 DEF TypeOK
    <3> QED
      BY <2>1, <2>2, <3>1, <3>2, ZenonT(60) DEF TypeOK, rpmVars, loopVars, primeVars
  <2>4. PairsDoNotMix'
    BY <1>2 DEF EndInjection, PairsDoNotMix, TypeOK
  <2>5. endAction = "none" \/ nextEvent # e
    BY <1>2 DEF EndInjection, HalfwayIsScheduled
  <2>6. HalfwayIsScheduled'
    BY <1>2, <2>5 DEF EndInjection, HalfwayIsScheduled, TypeOK, loopVars
  <2> QED
    BY <2>3, <2>4, <2>6
<1>3. ASSUME EndPrime
      PROVE  IInv'
  <2>1. overlappingCounter' \in [Cylinders -> Nat] /\ pin' \in [Cylinders -> BOOLEAN]
    BY <1>3, PinTypes DEF EndPrime
  <2>2. 0 \in Cylinders
    BY InjectionAssumption DEF Cylinders
  <2>3. /\ endOfInjectionEvent' = [endOfInjectionEvent EXCEPT ![0] = "none"]
        /\ UNCHANGED <<modes, rpmVars, fuelVars, isScheduled, signalTimerUp, loopVars,
                       interrupted, primeVars, firmwareError>>
    BY <1>3, Zenon DEF EndPrime
  <2>4. endOfInjectionEvent' \in [Cylinders -> {"none", "event", "all", "prime"}]
    BY <2>2, <2>3 DEF TypeOK
  <2>5. TypeOK'
    BY <2>1, <2>3, <2>4, ZenonT(60) DEF TypeOK, rpmVars, fuelVars, loopVars, primeVars
  <2>6. PairsDoNotMix'
    BY <2>2, <2>3 DEF PairsDoNotMix, TypeOK
  <2>7. HalfwayIsScheduled'
    BY <2>2, <2>3 DEF HalfwayIsScheduled, TypeOK, loopVars
  <2> QED
    BY <2>5, <2>6, <2>7
<1> QED
  BY <1>1, <1>2, <1>3

(* The prime pulse leaves the flags alone and queues its own end only.     *)
LEMMA PrimeKeepsIInv ==
  ASSUME IInv, Prime
  PROVE  IInv'
<1> USE DEF IInv
<1>1. CASE PrimeCheck \/ PrimeLoad
  <2>1. TypeOK'
    BY <1>1 DEF PrimeCheck, PrimeLoad, TypeOK, rpmVars, fuelVars, timers, pinVars, loopVars
  <2> QED
    BY <1>1, <2>1, QuietStepsKeepIInv DEF PrimeCheck, PrimeLoad
<1>2. CASE PrimeStore
  <2>1. primeInjector' \in Cylinders
    BY <1>2, InjectionAssumption DEF PrimeStore, TypeOK, Cylinders
  <2>2. /\ overlappingCounter' \in [Cylinders -> Nat]
        /\ pin' \in [Cylinders -> BOOLEAN]
        /\ prime' \in {"check", "open", "schedule", "done"}
    BY <1>2 DEF PrimeStore, TypeOK
  <2>3. TypeOK'
    BY <1>2, <2>1, <2>2 DEF PrimeStore, TypeOK, rpmVars, fuelVars, timers, loopVars
  <2> QED
    BY <1>2, <2>3, QuietStepsKeepIInv DEF PrimeStore
<1>3. CASE PrimeScheduleEnd
  <2>1. /\ endOfInjectionEvent' \in [Cylinders -> {"none", "event", "all", "prime"}]
        /\ \A e \in Cylinders : \/ endOfInjectionEvent'[e] = endOfInjectionEvent[e]
                                \/ endOfInjectionEvent'[e] = "prime"
    BY <1>3 DEF PrimeScheduleEnd, Insert, TypeOK
  <2>2. /\ prime' = "done"
        /\ UNCHANGED <<modes, rpmVars, fuelVars, isScheduled, signalTimerUp, pinVars,
                       loopVars, interrupted, primeInjector, primeLoaded, firmwareError>>
    BY <1>3, Zenon DEF PrimeScheduleEnd
  <2>3. TypeOK'
    BY <2>1, <2>2, ZenonT(60) DEF TypeOK, rpmVars, fuelVars, pinVars, loopVars
  <2>4. PairsDoNotMix' /\ HalfwayIsScheduled'
    BY <2>1, <2>2 DEF PairsDoNotMix, HalfwayIsScheduled, loopVars
  <2> QED
    BY <2>3, <2>4
<1> QED
  BY <1>1, <1>2, <1>3 DEF Prime

(* Every step keeps the inductive invariant.                               *)
LEMMA NextKeepsIInv == IInv /\ [Next]_vars => IInv'
<1> SUFFICES ASSUME IInv, [Next]_vars PROVE IInv'
  OBVIOUS
<1>1. ASSUME NEW changed \in BOOLEAN,
             FirmwareError \/ TuneModes \/ FuelIsCut(changed)
      PROVE  IInv'
  <2>1. TypeOK'
    <3>1. TypeOK
      BY DEF IInv
    <3>2. CASE FirmwareError
      <4>1. pin' \in [Cylinders -> BOOLEAN] /\ firmwareError' \in BOOLEAN
        BY <3>2 DEF FirmwareError
      <4>2. UNCHANGED <<modes, rpmVars, fuelVars, isScheduled, timers, overlappingCounter, loopVars,
                        interrupted, primeVars>>
        BY <3>2, Zenon DEF FirmwareError
      <4> QED
        BY <3>1, <4>1, <4>2, ZenonT(60) DEF TypeOK, rpmVars, fuelVars, timers, loopVars, primeVars
    <3>3. CASE TuneModes
      BY <3>1, <3>3, ZenonT(60) DEF TuneModes, TypeOK, rpmVars, fuelVars, timers, pinVars, loopVars, primeVars
    <3>4. CASE FuelIsCut(changed)
      <4>1. isReady' \in BOOLEAN
        BY <3>1, <3>4, Zenon DEF FuelIsCut, TypeOK
      <4> QED
        BY <3>1, <3>4, <4>1, ZenonT(60) DEF FuelIsCut, TypeOK, rpmVars, timers, pinVars, loopVars, primeVars
    <3> QED
      BY <1>1, <3>2, <3>3, <3>4
  <2> QED
    BY <1>1, <2>1, QuietStepsKeepIInv DEF FirmwareError, TuneModes, FuelIsCut
<1>2. CASE UNCHANGED vars
  <2>1. TypeOK'
    BY <1>2 DEF vars, IInv, TypeOK, rpmVars, fuelVars, timers, pinVars, loopVars, primeVars
  <2> QED
    BY <1>2, <2>1, QuietStepsKeepIInv DEF vars
<1> QED
  BY <1>1, <1>2, RpmCallbackKeepsIInv, LoopKeepsIInv, TimersKeepIInv, PrimeKeepsIInv,
     InjectionAssumption
     DEF Next

(* Types are kept, and an event whose flag is down has no half of an old   *)
(* injection left in the executor, whatever the trigger, the tuner and the *)
(* prime pulse do in between.                                              *)
THEOREM PairsNeverMix == Spec => [](TypeOK /\ PairsDoNotMix)
<1>1. IInv => TypeOK /\ PairsDoNotMix
  BY DEF IInv
<1> QED
  BY <1>1, InitIInv, NextKeepsIInv, PTL DEF Spec

(* All variables of the injection keep their types, and no overlap count   *)
(* is ever negative (InjectorOutputPin::close), whatever disturbs it.      *)
THEOREM InjectionTypesAreKept == Spec => []TypeOK
<1>1. IInv => TypeOK
  BY DEF IInv
<1> QED
  BY <1>1, InitIInv, NextKeepsIInv, PTL DEF Spec

-----------------------------------------------------------------------------
(* An engine that does not use the prime pulse. *)

NoPrime ==
  /\ prime = "done"
  /\ \A e \in Cylinders : endOfInjectionEvent[e] # "prime"

(* Without a priming pulse nothing of it is there initially.               *)
LEMMA NoPrimeInit ==
  ASSUME ~Primes, Init
  PROVE  NoPrime /\ NoDownIgnored
BY DEF Init, NoPrime, NoDownIgnored

(* Each end that is scheduled finds its timer free.                        *)
LEMMA NoPrimeKept ==
  ASSUME IInv, NoPrime, NoDownIgnored, [Next]_vars
  PROVE  NoPrime' /\ NoDownIgnored'
<1> USE DEF IInv, TypeOK, NoPrime, NoDownIgnored
<1>1. CASE RpmCallback \/ FirmwareError \/ TuneModes \/ UNCHANGED vars
  BY <1>1 DEF RpmCallback, SetRpmValue, SetSpinningUp, AssignInstantRpm, SetStopSpinning,
              ClearRpm, ClearState, FirmwareError, TuneModes, vars, timers, loopVars, primeVars
<1>2. ASSUME NEW changed, MainTriggerCallback(changed)
      PROVE  NoPrime' /\ NoDownIgnored'
  <2>1. endAction = "none"
    BY <1>2, InjectionAssumption
       DEF MainTriggerCallback, HalfwayIsScheduled, NotInLoop, Cylinders
  <2> QED
    BY <1>2, <2>1 DEF MainTriggerCallback, timers, primeVars
<1>3. CASE ToothSkipped
  BY <1>3 DEF ToothSkipped, timers, primeVars
<1>4. ASSUME NEW e \in Cylinders, ScheduleStart(e)
      PROVE  NoPrime' /\ NoDownIgnored'
  BY <1>4 DEF ScheduleStart, primeVars
<1>5. ASSUME NEW e \in Cylinders, ScheduleEnd(e)
      PROVE  NoPrime' /\ NoDownIgnored'
  <2>1. endOfInjectionEvent[e] = "none"
    BY <1>5 DEF ScheduleEnd, HalfwayIsScheduled
  <2>2. endOfInjectionEvent' = [endOfInjectionEvent EXCEPT ![e] = endAction]
    BY <1>5, <2>1 DEF ScheduleEnd, Insert
  <2> QED
    BY <1>5, <2>2 DEF ScheduleEnd, primeVars
<1>6. ASSUME NEW e \in Cylinders, StartInjection(e) \/ EndInjection(e)
      PROVE  NoPrime' /\ NoDownIgnored'
  BY <1>6 DEF StartInjection, EndInjection, loopVars, primeVars
<1>7. ASSUME NEW changed, FuelIsCut(changed)
      PROVE  NoPrime' /\ NoDownIgnored'
  BY <1>7 DEF FuelIsCut, timers, loopVars, primeVars
<1>8. ~EndPrime /\ ~Prime
  BY InjectionAssumption DEF EndPrime, Prime, PrimeCheck, PrimeLoad, PrimeStore,
                             PrimeScheduleEnd, Cylinders
<1> QED
  BY <1>1, <1>2, <1>3, <1>4, <1>5, <1>6, <1>7, <1>8 DEF Next, Loop

(* Without the prime pulse no end of an injection is ever ignored: an      *)
(* event that counts as scheduled has its own end in the executor, or the  *)
(* trigger interrupt is about to put it there.                             *)
THEOREM NoEndIsIgnored ==
  ASSUME ~Primes
  PROVE  Spec => []NoDownIgnored
<1>1. Init => IInv /\ NoPrime /\ NoDownIgnored
  BY InitIInv, NoPrimeInit
<1>2. IInv /\ NoPrime /\ NoDownIgnored /\ [Next]_vars
        => (IInv /\ NoPrime /\ NoDownIgnored)'
  BY NextKeepsIInv, NoPrimeKept
<1> QED
  BY <1>1, <1>2, PTL DEF Spec
-----------------------------------------------------------------------------
(* An engine without a noisy trigger, whose modes are not tuned.           *)

(* The schedule is the one of a mode.                                      *)
Fits(mode) ==
  \A e \in Cylinders :
    /\ isSimultanious[e] = (mode = "SIMULTANEOUS")
    /\ outputs[e] = OutputsFor(mode, e)

Turns(s) == s \in {"CRANKING", "RUNNING"}

OneMode == modes.cranking = modes.running

(* The trigger is not noisy; a schedule that is ready fits the mode of a   *)
(* cranking or running engine, though a slow callback may have cleared its *)
(* rpm already, and of any engine that has but one mode.                   *)
NeverNoisy == rpm # "noisy"

ReadyFits ==
  isReady /\ (Turns(state) \/ OneMode) => Fits(CurrentInjectionMode(state, rpm))

FitInv == TypeOK /\ NeverNoisy /\ ReadyFits

(* Where the modes do not differ, neither state nor rpm matters, and a     *)
(* turning engine has its mode from its state alone.                       *)
LEMMA SameMode ==
  ASSUME NEW s, NEW r, NEW t, NEW q, OneMode \/ (Turns(s) /\ t = s)
  PROVE  CurrentInjectionMode(s, r) = CurrentInjectionMode(t, q)
BY DEF CurrentInjectionMode, OneMode, Turns, IsCranking

(* A rebuild of all the events with an rpm makes the schedule fit.         *)
LEMMA RebuiltFits ==
  ASSUME NEW s, AddFuelEventsFor(Cylinders, s, "valid"), UNCHANGED modes,
         state' = s, rpm' = "valid"
  PROVE  Fits(CurrentInjectionMode(state, rpm))'
<1> DEFINE mode == CurrentInjectionMode(s, "valid")
<1>1. CurrentInjectionMode(state, rpm)' = mode
  BY DEF CurrentInjectionMode, IsCranking
<1>2. /\ isSimultanious' = [e \in Cylinders |-> mode = "SIMULTANEOUS"]
      /\ outputs' = [e \in Cylinders |-> OutputsFor(mode, e)]
  BY DEF AddFuelEventsFor
<1> HIDE DEF mode
<1>3. \A e \in Cylinders : /\ isSimultanious'[e] = (mode = "SIMULTANEOUS")
                          /\ outputs'[e] = OutputsFor(mode, e)
  BY <1>2
<1> QED
  BY <1>1, <1>3 DEF Fits

(* A schedule that stays as it is, or is no longer ready, keeps fitting as *)
(* long as the engine neither starts to turn nor changes its one mode.     *)
LEMMA KeptFits ==
  ASSUME FitInv, UNCHANGED <<modes, isSimultanious, outputs>>,
         isReady' => isReady,
         OneMode \/ (Turns(state') => state' = state)
  PROVE  ReadyFits'
<1> SUFFICES ASSUME isReady', Turns(state') \/ OneMode'
             PROVE  Fits(CurrentInjectionMode(state, rpm))'
  BY DEF ReadyFits
<1>1. OneMode' <=> OneMode
  BY DEF OneMode
<1>2. OneMode \/ (Turns(state) /\ state' = state)
  BY <1>1
<1>3. CurrentInjectionMode(state, rpm)' = CurrentInjectionMode(state', rpm')
  BY DEF CurrentInjectionMode, IsCranking
<1>4. CurrentInjectionMode(state', rpm') = CurrentInjectionMode(state, rpm)
  BY <1>2, SameMode
<1>5. Fits(CurrentInjectionMode(state, rpm))
  BY <1>2 DEF FitInv, ReadyFits
<1> QED
  BY <1>3, <1>4, <1>5 DEF Fits

(* The rebuild of an event when its injection ends fits the mode too.      *)
LEMMA EndFits ==
  ASSUME FitInv, NEW e \in Cylinders, AddFuelEventsFor({e}, state, rpm),
         UNCHANGED <<modes, state, rpm, isReady>>
  PROVE  ReadyFits'
<1>1. CASE rpm # "valid"
  BY <1>1, KeptFits DEF AddFuelEventsFor
<1>2. CASE rpm = "valid"
  <2> DEFINE mode == CurrentInjectionMode(state, rpm)
  <2>1. CurrentInjectionMode(state, rpm)' = mode
    BY DEF CurrentInjectionMode, IsCranking
  <2>2. isReady' /\ (Turns(state') \/ OneMode') => Fits(mode)
    BY DEF FitInv, ReadyFits, OneMode
  <2>3. /\ isSimultanious' = [f \in Cylinders |->
              IF f \in {e} THEN mode = "SIMULTANEOUS" ELSE isSimultanious[f]]
        /\ outputs' = [f \in Cylinders |->
              IF f \in {e} THEN OutputsFor(mode, f) ELSE outputs[f]]
    BY <1>2 DEF AddFuelEventsFor
  <2> HIDE DEF mode
  <2>4. Fits(mode) =>
          \A f \in Cylinders : /\ isSimultanious'[f] = (mode = "SIMULTANEOUS")
                              /\ outputs'[f] = OutputsFor(mode, f)
    BY <2>3 DEF Fits
  <2> QED
    BY <2>1, <2>2, <2>4 DEF ReadyFits, Fits
<1> QED
  BY <1>1, <1>2

(* The initial schedule is not ready.                                      *)
LEMMA FitInit == Init => FitInv
<1> SUFFICES ASSUME Init PROVE FitInv
  OBVIOUS
<1>1. TypeOK
  BY InitIInv DEF IInv
<1> QED
  BY <1>1 DEF Init, FitInv, NeverNoisy, ReadyFits, Turns

(* A change of the spinning state rebuilds the events when the modes       *)
(* differ, and only then has to.                                           *)
LEMMA RpmCallbackKeepsFit ==
  ASSUME FitInv, ~NoisyTrigger, RpmCallback
  PROVE  NeverNoisy' /\ ReadyFits'
<1>1. ASSUME NEW above \in BOOLEAN, SetRpmValue("valid", above)
      PROVE  NeverNoisy' /\ ReadyFits'
  <2>1. /\ rpm' = "valid"
        /\ UNCHANGED modes
    BY <1>1 DEF SetRpmValue
  <2>2. NeverNoisy'
    BY <2>1 DEF NeverNoisy
  <2>3. CASE state' # state /\ modes.cranking # modes.running
    <3>1. AddFuelEventsFor(Cylinders, state', "valid")
      BY <1>1, <2>3 DEF SetRpmValue, Rebuild, AddFuelEvents
    <3>2. Fits(CurrentInjectionMode(state, rpm))'
      BY <2>1, <3>1, RebuiltFits
    <3> QED
      BY <2>2, <3>2 DEF ReadyFits
  <2>4. CASE ~(state' # state /\ modes.cranking # modes.running)
    <3>1. UNCHANGED <<isSimultanious, outputs, isReady>>
      BY <1>1, <2>4 DEF SetRpmValue, fuelVars
    <3> QED
      BY <2>1, <2>2, <2>4, <3>1, KeptFits DEF OneMode
  <2> QED
    BY <2>3, <2>4
<1>2. ASSUME NEW r \in {"zero", "valid"},
             \/ AssignInstantRpm(r) \/ SetSpinningUp
             \/ SetStopSpinning \/ ClearState
      PROVE  NeverNoisy' /\ ReadyFits'
  <2>1. /\ ~Turns(state')
        /\ rpm' # "noisy"
        /\ UNCHANGED <<modes, isSimultanious, outputs, isReady>>
    BY <1>2 DEF AssignInstantRpm, SetSpinningUp, SetStopSpinning, ClearState, Turns,
                fuelVars, FitInv, NeverNoisy
  <2> QED
    BY <2>1, KeptFits DEF NeverNoisy
<1>3. ASSUME ClearRpm
      PROVE  NeverNoisy' /\ ReadyFits'
  <2>1. /\ rpm' = "zero"
        /\ UNCHANGED <<modes, state, isSimultanious, outputs, isReady>>
    BY <1>3 DEF ClearRpm, fuelVars
  <2> QED
    BY <2>1, KeptFits DEF NeverNoisy
<1> QED
  BY <1>1, <1>2, <1>3 DEF RpmCallback

(* Every step keeps the schedule fitting.                                  *)
LEMMA NextKeepsFit ==
  ASSUME ~NoisyTrigger, ~TunesModes, FitInv, TypeOK', [Next]_vars
  PROVE  FitInv'
<1>1. ASSUME NEW changed, MainTriggerCallback(changed)
      PROVE  NeverNoisy' /\ ReadyFits'
  <2>1. UNCHANGED <<modes, state, rpm>> /\ rpm = "valid"
    BY <1>1 DEF MainTriggerCallback, rpmVars
  <2>2. CASE isReady /\ ~changed
    BY <1>1, <2>1, <2>2, KeptFits DEF MainTriggerCallback, fuelVars, FitInv, NeverNoisy
  <2>3. CASE ~(isReady /\ ~changed)
    <3>1. AddFuelEventsFor(Cylinders, state, "valid")
      BY <1>1, <2>1, <2>3 DEF MainTriggerCallback, AddFuelEvents
    <3>2. Fits(CurrentInjectionMode(state, rpm))'
      BY <2>1, <3>1, RebuiltFits
    <3> QED
      BY <2>1, <3>2 DEF ReadyFits, FitInv, NeverNoisy
  <2> QED
    BY <2>2, <2>3
<1>2. ASSUME NEW changed, FuelIsCut(changed)
      PROVE  NeverNoisy' /\ ReadyFits'
  <2>1. /\ UNCHANGED <<modes, state, rpm, isSimultanious, outputs>>
        /\ isReady' => isReady
    BY <1>2 DEF FuelIsCut, rpmVars
  <2> QED
    BY <2>1, KeptFits DEF FitInv, NeverNoisy
<1>3. ASSUME NEW e \in Cylinders, EndInjection(e)
      PROVE  NeverNoisy' /\ ReadyFits'
  <2>1. /\ UNCHANGED <<modes, state, rpm, isReady>>
        /\ AddFuelEventsFor({e}, state, rpm)
    BY <1>3 DEF EndInjection, rpmVars
  <2> QED
    BY <2>1, EndFits DEF FitInv, NeverNoisy
<1>4. ASSUME NEW e \in Cylinders,
             \/ Loop \/ StartInjection(e) \/ EndPrime \/ Prime \/ FirmwareError
             \/ UNCHANGED vars
      PROVE  NeverNoisy' /\ ReadyFits'
  <2>1. UNCHANGED <<modes, rpmVars, fuelVars>>
    BY <1>4 DEF Loop, ToothSkipped, ScheduleStart, ScheduleEnd, StartInjection, EndPrime,
                Prime, PrimeCheck, PrimeLoad, PrimeStore, PrimeScheduleEnd, FirmwareError,
                vars
  <2>2. UNCHANGED <<modes, state, rpm, isSimultanious, outputs, isReady>>
    BY <2>1 DEF rpmVars, fuelVars
  <2> QED
    BY <2>2, KeptFits DEF FitInv, NeverNoisy
<1>5. ~TuneModes
  BY DEF TuneModes
<1>6. 0 \in Cylinders
  BY InjectionAssumption DEF Cylinders
<1>7. NeverNoisy' /\ ReadyFits'
  BY <1>1, <1>2, <1>3, <1>4, <1>5, <1>6, RpmCallbackKeepsFit DEF Next
<1> QED
  BY <1>7 DEF FitInv

(* Unless the modes are tuned while the engine turns, or the trigger is so *)
(* noisy that the rpm is not one, a schedule that is ready is the one of   *)
(* the mode a cranking or running engine is in: setRpmValue rebuilds it at *)
(* every change of the state that needs it, and no rebuild of a single     *)
(* event, of the trigger interrupt or after a fuel cut undoes that.        *)
THEOREM ScheduleAlwaysFits ==
  ASSUME ~NoisyTrigger, ~TunesModes
  PROVE  Spec => []ScheduleFitsMode
<1>1. IInv /\ FitInv /\ [Next]_vars => IInv' /\ FitInv'
  <2>1. IInv /\ [Next]_vars => IInv' /\ TypeOK'
    BY NextKeepsIInv DEF IInv
  <2> QED
    BY <2>1, NextKeepsFit
<1>2. FitInv => ScheduleFitsMode
  BY DEF FitInv, ReadyFits, Fits, Turns, ScheduleFitsMode
<1> QED
  BY <1>1, <1>2, InitIInv, FitInit, PTL DEF Spec
=============================================================================
