------------------------ MODULE IgnitionScheduleProofs ------------------------
(***************************************************************************)
(* Theorems about IgnitionSchedule, for every number of cylinders and      *)
(* teeth, every ignition mode and every bound of the timing.               *)
(***************************************************************************)
EXTENDS IgnitionSchedule, TLAPS

(* The two modes that prepareCylinderIgnitionSchedule consults agree where *)
(* it matters: getCurrentIgnitionMode says whether an event has a twin     *)
(* coil, half of the coils away, and ignitionModeForPinIndices which coil  *)
(* it is the twin of.                                                      *)
ModesAgree ==
  /\ spinningUp => FasterSpinUp
  /\ ModeWhen(spinningUp) = "WASTED_SPARK" => pinMode = "WASTED_SPARK"

(* TypeOK, one variable at a time.                                         *)
HandlerTypes ==
  /\ tooth \in Teeth /\ current \in Events /\ localTooth \in Teeth
  /\ pc \in {"idle", "list", "events", "spark"}
  /\ limited \in BOOLEAN

EngineTypes == rpm \in Rpms /\ pinMode \in IgnitionModes /\ spinningUp \in BOOLEAN

ScheduleTypes ==
  /\ isReady \in BOOLEAN
  /\ outputs \in [Events -> SUBSET Coils]
  /\ dwellTooth \in [Events -> Teeth]
  /\ sparkTooth \in [Events -> Teeth]

ListTypes == queuedTooth \in [Events -> Teeth] /\ angleList \subseteq Events

TimerTypes ==
  /\ dwellTimer \in [Events -> {Idle} \cup 0 .. Late]
  /\ sparkTimer \in [Events -> {Idle} \cup 0 .. Late]
  /\ sparkLater \in [Events -> BOOLEAN]
  /\ sparksRemaining \in [Events -> 0 .. MaxSparks]

CoilTypes ==
  /\ high \subseteq Coils /\ outOfOrder \subseteq Coils
  /\ fallOf \in [Coils -> Events \cup {NoEvent}]
  /\ disturbed \subseteq Coils

Types ==
  /\ HandlerTypes /\ EngineTypes /\ ScheduleTypes
  /\ ListTypes /\ TimerTypes /\ CoilTypes

IInv == Types /\ ModesAgree

(* These are the types of TypeOK.                                          *)
LEMMA TypesAreTypeOK == Types => TypeOK
<1> SUFFICES ASSUME Types PROVE TypeOK
  OBVIOUS
<1>1. {limited, spinningUp, isReady} \subseteq BOOLEAN
  BY DEF Types, HandlerTypes, EngineTypes, ScheduleTypes
<1>2. {dwellTooth, sparkTooth, queuedTooth} \subseteq [Events -> Teeth]
  BY DEF Types, ScheduleTypes, ListTypes
<1>3. {dwellTimer, sparkTimer} \subseteq [Events -> {Idle} \cup 0 .. Late]
  BY DEF Types, TimerTypes
<1> QED
  BY <1>1, <1>2, <1>3
     DEF TypeOK, Types, HandlerTypes, EngineTypes, ScheduleTypes, ListTypes, TimerTypes, CoilTypes

-----------------------------------------------------------------------------
(* The operators. *)

(* What the assumption says of the numbers of cylinders and teeth.         *)
LEMMA Numbers ==
  /\ NumCylinders \in Nat /\ NumCylinders >= 2
  /\ NumTeeth \in Nat /\ NumTeeth >= 2
  /\ 0 \in Events /\ 0 \in Teeth
  /\ \A t \in Nat : t % NumTeeth \in Teeth
<1>1. /\ NumCylinders \in Nat /\ NumCylinders >= 2
      /\ NumTeeth \in Nat /\ NumTeeth >= 2
  BY IgnitionAssumption DEF IgnitionAssumption
<1>2. 0 \in Events /\ 0 \in Teeth
  BY <1>1 DEF Events, Teeth
<1>3. \A t \in Nat : t % NumTeeth \in Teeth
  BY <1>1 DEF Teeth
<1> QED
  BY <1>1, <1>2, <1>3

(* getIgnitionPinForIndex names a coil of the engine, one of the first     *)
(* half of them for a wasted spark.                                        *)
LEMMA PinIsCoil ==
  ASSUME NEW mode \in IgnitionModes, NEW e \in Events
  PROVE  /\ IgnitionPin(mode, e) \in Coils
         /\ mode = "WASTED_SPARK" => IgnitionPin(mode, e) \in 0 .. (NumCylinders \div 2) - 1
<1>1. e \in Nat /\ e < NumCylinders
  BY Numbers DEF Events
<1>2. /\ NumCylinders \div 2 \in Nat
      /\ NumCylinders \div 2 >= 1
      /\ NumCylinders \div 2 <= NumCylinders
  BY Numbers
<1>3. e % (NumCylinders \div 2) \in 0 .. (NumCylinders \div 2) - 1
  BY <1>1, <1>2
<1>4. e % 2 \in Coils /\ e % (NumCylinders \div 2) \in Coils /\ 0 \in Coils
  BY <1>1, <1>2, <1>3, Numbers DEF Coils, Events
<1> QED
  BY <1>3, <1>4 DEF IgnitionPin, IgnitionModes, Coils

(* An event drives coils of the engine, its twin included.                 *)
LEMMA OutputsAreCoils ==
  ASSUME NEW e \in Events, NEW up, NEW mode \in IgnitionModes,
         ModeWhen(up) = "WASTED_SPARK" => mode = "WASTED_SPARK"
  PROVE  OutputsFor(e, up, mode) \subseteq Coils
<1> DEFINE index == IgnitionPin(mode, e)
<1>1. index \in Coils
  BY PinIsCoil
<1>2. CASE mode = "WASTED_SPARK"
  <2>1. index \in 0 .. (NumCylinders \div 2) - 1
    BY <1>2, PinIsCoil
  <2> HIDE DEF index
  <2>2. index + NumCylinders \div 2 \in Coils
    BY <2>1, Numbers DEF Coils, Events
  <2> QED
    BY <1>1, <2>2 DEF OutputsFor, index
<1>3. CASE mode # "WASTED_SPARK"
  BY <1>1, <1>3 DEF OutputsFor
<1> QED
  BY <1>2, <1>3

(* Every position an event may be given is a pair of teeth.                *)
LEMMA PositionsAreTeeth ==
  ASSUME NEW e \in Events, NEW p \in Positions(e)
  PROVE  p[1] \in Teeth /\ p[2] \in Teeth
<1>1. PICK s \in SparkTeeth(e) : p \in DwellTeethFor(s) \X {s}
  BY DEF Positions
<1>2. s \in Teeth
  <2>1. PICK a \in 0 .. TimingTeeth : s = (e * (NumTeeth \div NumCylinders) + a) % NumTeeth
    BY DEF SparkTeeth
  <2>2. TimingTeeth \in Nat
    BY IgnitionAssumption DEF IgnitionAssumption
  <2>3. a \in Nat /\ e \in Nat /\ NumTeeth \div NumCylinders \in Nat
    BY <2>2, Numbers DEF Events
  <2>4. e * (NumTeeth \div NumCylinders) + a \in Nat
    BY <2>3
  <2> QED
    BY <2>1, <2>4, Numbers
<1>3. p[1] \in Teeth
  <2>1. PICK d \in 0 .. DwellTeeth : p[1] = (s + NumTeeth - d) % NumTeeth
    BY <1>1 DEF DwellTeethFor
  <2>2. s + NumTeeth - d \in Int
    BY <1>2, Numbers, IgnitionAssumption DEF IgnitionAssumption, Teeth
  <2>3. (s + NumTeeth - d) % NumTeeth \in 0 .. NumTeeth - 1
    BY <2>2, Numbers
  <2> QED
    BY <2>1, <2>3 DEF Teeth
<1> QED
  BY <1>1, <1>2, <1>3

(* The initial state satisfies the inductive invariant.                    *)
LEMMA InitIInv == Init => IInv
<1> SUFFICES ASSUME Init PROVE IInv
  OBVIOUS
<1>1. MaxSparks \in Nat /\ Late \in Nat /\ IgnitionMode \in IgnitionModes
  BY IgnitionAssumption DEF IgnitionAssumption
<1>2. HandlerTypes /\ EngineTypes
  BY <1>1, Numbers DEF Init, HandlerTypes, EngineTypes, Rpms
<1>3. ScheduleTypes /\ ListTypes
  BY Numbers DEF Init, ScheduleTypes, ListTypes
<1>4. TimerTypes
  BY <1>1 DEF Init, TimerTypes
<1>5. CoilTypes
  BY DEF Init, CoilTypes
<1>6. ModesAgree
  BY DEF Init, ModesAgree, ModeWhen
<1> QED
  BY <1>2, <1>3, <1>4, <1>5, <1>6 DEF IInv, Types

-----------------------------------------------------------------------------
(* The steps. *)

(* Both modes are those of the engine's variables, so the new schedule     *)
(* drives coils of the engine.                                             *)
LEMMA InitializedTypes ==
  ASSUME NEW up, NEW mode \in IgnitionModes,
         ModeWhen(up) = "WASTED_SPARK" => mode = "WASTED_SPARK",
         InitializeIgnitionActions(up, mode)
  PROVE  ScheduleTypes'
<1>1. PICK p \in {f \in [Events -> Teeth \X Teeth] :
                   \A e \in Events : f[e] \in Positions(e)} :
        /\ dwellTooth' = [e \in Events |-> p[e][1]]
        /\ sparkTooth' = [e \in Events |-> p[e][2]]
  BY DEF InitializeIgnitionActions
<1>2. /\ dwellTooth' \in [Events -> Teeth]
      /\ sparkTooth' \in [Events -> Teeth]
  BY <1>1
<1>3. outputs' \in [Events -> SUBSET Coils]
  BY OutputsAreCoils DEF InitializeIgnitionActions
<1>4. isReady' \in BOOLEAN
  BY DEF InitializeIgnitionActions
<1> QED
  BY <1>2, <1>3, <1>4 DEF ScheduleTypes

(* So does the schedule that a spark prepares for its own event.           *)
LEMMA PreparedTypes ==
  ASSUME IInv, NEW e \in Events, Prepare(e)
  PROVE  ScheduleTypes'
<1>1. PICK p \in Positions(e) :
        /\ dwellTooth' = [dwellTooth EXCEPT ![e] = p[1]]
        /\ sparkTooth' = [sparkTooth EXCEPT ![e] = p[2]]
        /\ outputs' = [outputs EXCEPT ![e] = OutputsFor(e, spinningUp, pinMode)]
        /\ UNCHANGED isReady
  BY DEF Prepare
<1>2. p[1] \in Teeth /\ p[2] \in Teeth
  BY PositionsAreTeeth
<1>3. OutputsFor(e, spinningUp, pinMode) \subseteq Coils
  BY OutputsAreCoils DEF IInv, ModesAgree, Types, EngineTypes
<1> QED
  BY <1>1, <1>2, <1>3 DEF IInv, Types, ScheduleTypes

(* A stall ends the spin-up, and with it the mode that goes with it.       *)
LEMMA StallKeepsIInv ==
  ASSUME IInv, Stall
  PROVE  IInv'
<1>1. /\ EngineTypes'
      /\ ModesAgree'
  BY DEF IInv, Types, EngineTypes, ModesAgree, Stall, Rpms, ModeWhen
<1>2. UNCHANGED <<handlerVars, scheduleVars, listVars, timerVars, coilVars>>
  BY DEF Stall
<1> QED
  BY <1>1, <1>2
     DEF IInv, Types, HandlerTypes, ScheduleTypes, ListTypes, TimerTypes, CoilTypes,
         handlerVars, scheduleVars, listVars, timerVars, coilVars

(* So does a loss of synchronization, which leaves the timers as they are. *)
LEMMA ResynchronizeKeepsIInv ==
  ASSUME IInv, Resynchronize
  PROVE  IInv'
<1>1. EngineTypes' /\ ModesAgree'
  BY DEF IInv, Types, EngineTypes, ModesAgree, Resynchronize, Rpms, ModeWhen
<1>2. /\ tooth' \in Teeth /\ disturbed' = disturbed \cup CoilsInUse
      /\ UNCHANGED <<pc, current, limited, localTooth, high, outOfOrder, fallOf>>
      /\ UNCHANGED <<scheduleVars, listVars, timerVars>>
  BY DEF Resynchronize
<1>3. CoilsInUse \subseteq Coils
  BY DEF CoilsInUse, IInv, Types, CoilTypes, ScheduleTypes
<1>4. HandlerTypes' /\ CoilTypes'
  BY <1>2, <1>3 DEF IInv, Types, HandlerTypes, CoilTypes
<1>5. ScheduleTypes' /\ ListTypes' /\ TimerTypes'
  BY <1>2 DEF IInv, Types, ScheduleTypes, ListTypes, TimerTypes, scheduleVars, listVars, timerVars
<1> QED
  BY <1>1, <1>4, <1>5 DEF IInv, Types

(* A tooth ages the timers, and gives the pins the mode of the spin-up.    *)
LEMMA ToothKeepsIInv ==
  ASSUME IInv, Tooth
  PROVE  IInv'
<1> DEFINE up == spinningUp \/ (FasterSpinUp /\ rpm = "zero")
<1>1. /\ pinMode' = IF FasterSpinUp THEN ModeWhen(up) ELSE pinMode
      /\ spinningUp' \in {up, FALSE}
      /\ rpm' \in Rpms
  BY DEF Tooth, Rpms
<1>2. EngineTypes' /\ ModesAgree'
  <2>1. IgnitionMode \in IgnitionModes
    BY IgnitionAssumption DEF IgnitionAssumption
  <2>2. spinningUp' = up \/ spinningUp' = FALSE
    BY <1>1
  <2>3. EngineTypes'
    BY <1>1, <2>1 DEF IInv, Types, EngineTypes, ModeWhen, IgnitionModes
  <2>4. spinningUp' => FasterSpinUp
    BY <2>2 DEF IInv, ModesAgree
  <2>5. ModeWhen(spinningUp') = "WASTED_SPARK" => pinMode' = "WASTED_SPARK"
    <3>1. CASE FasterSpinUp /\ spinningUp' = up
      BY <1>1, <3>1
    <3>2. CASE FasterSpinUp /\ spinningUp' = FALSE
      <4>1. ModeWhen(FALSE) = "WASTED_SPARK" => ModeWhen(up) = "WASTED_SPARK"
        BY DEF ModeWhen
      <4> QED
        BY <1>1, <3>2, <4>1
    <3>3. CASE ~FasterSpinUp
      <4>1. ModeWhen(spinningUp') = ModeWhen(spinningUp)
        BY <2>4, <3>3 DEF IInv, ModesAgree, ModeWhen
      <4> QED
        BY <1>1, <3>3, <4>1 DEF IInv, ModesAgree
    <3> QED
      BY <2>2, <3>1, <3>2, <3>3
  <2> QED
    BY <2>3, <2>4, <2>5 DEF ModesAgree, ModeWhen
<1>3. HandlerTypes'
  <2>1. tooth' \in Teeth
    <3>1. tooth + 1 \in Nat
      BY Numbers DEF IInv, Types, HandlerTypes, Teeth
    <3> QED
      BY <3>1, Numbers DEF Tooth
  <2>2. /\ pc' \in {"idle", "list", "events", "spark"}
        /\ limited' \in BOOLEAN
        /\ UNCHANGED <<current, localTooth>>
    BY DEF Tooth, IInv, Types, HandlerTypes
  <2> QED
    BY <2>1, <2>2 DEF IInv, Types, HandlerTypes
<1>4. ScheduleTypes'
  <2>1. CASE UNCHANGED scheduleVars
    BY <2>1 DEF IInv, Types, ScheduleTypes, scheduleVars
  <2>2. CASE InitializeIgnitionActions(spinningUp', pinMode')
    BY <1>2, <2>2, InitializedTypes DEF EngineTypes, ModesAgree, ModeWhen
  <2>3. CASE /\ isReady' \in BOOLEAN
             /\ UNCHANGED <<outputs, dwellTooth, sparkTooth>>
    BY <2>3 DEF IInv, Types, ScheduleTypes
  <2>4. PrepareIgnitionSchedule =>
          \/ InitializeIgnitionActions(spinningUp', pinMode')
          \/ isReady' \in BOOLEAN /\ UNCHANGED <<outputs, dwellTooth, sparkTooth>>
    BY DEF PrepareIgnitionSchedule, IInv, Types, ScheduleTypes
  <2> QED
    BY <2>1, <2>2, <2>3, <2>4 DEF Tooth
<1>5. TimerTypes'
  <2>1. Late \in Nat
    BY IgnitionAssumption DEF IgnitionAssumption
  <2>2. ASSUME NEW timer \in [Events -> {Idle} \cup 0 .. Late],
               \A e \in Events : timer[e] < Late
        PROVE  Aged(timer) \in [Events -> {Idle} \cup 0 .. Late]
    BY <2>1, <2>2 DEF Aged, Idle
  <2>3. /\ dwellTimer' = Aged(dwellTimer)
        /\ sparkTimer' = Aged(sparkTimer)
        /\ \A e \in Events : dwellTimer[e] < Late /\ sparkTimer[e] < Late
        /\ UNCHANGED <<sparkLater, sparksRemaining>>
    BY DEF Tooth
  <2> QED
    BY <2>2, <2>3 DEF IInv, Types, TimerTypes
<1>6. ListTypes'
  BY DEF Tooth, IInv, Types, ListTypes, listVars
<1>7. CoilTypes'
  <2>1. CoilsInUse \subseteq Coils
    BY DEF CoilsInUse, IInv, Types, CoilTypes, ScheduleTypes
  <2> QED
    BY <2>1 DEF Tooth, IInv, Types, CoilTypes
<1> QED
  BY <1>2, <1>3, <1>4, <1>5, <1>6, <1>7 DEF IInv, Types

(* What the executor is given is due from now on.                          *)
LEMMA ScheduledType ==
  ASSUME NEW timer \in [Events -> {Idle} \cup 0 .. Late], NEW e \in Events
  PROVE  /\ Scheduled(timer, e) \in [Events -> {Idle} \cup 0 .. Late]
         /\ [timer EXCEPT ![e] = 0] \in [Events -> {Idle} \cup 0 .. Late]
<1>1. 0 \in 0 .. Late
  BY IgnitionAssumption DEF IgnitionAssumption
<1> QED
  BY <1>1 DEF Scheduled

(* The loop over the events ends at the last of them.                      *)
LEMMA GoOnTypes ==
  ASSUME IInv, GoOn, UNCHANGED tooth
  PROVE  HandlerTypes'
<1>1. current' \in Events
  BY Numbers DEF GoOn, IInv, Types, HandlerTypes, Events
<1>2. /\ localTooth' \in Teeth
      /\ pc' \in {"idle", "list", "events", "spark"}
      /\ limited' \in BOOLEAN
  BY Numbers DEF GoOn, IInv, Types, HandlerTypes
<1> QED
  BY <1>1, <1>2 DEF IInv, Types, HandlerTypes

(* The loops of the trigger handler write teeth and moments of the engine. *)
LEMMA HandlerKeepsIInv ==
  ASSUME IInv, Handler
  PROVE  IInv'
<1>1. ASSUME NEW e \in Events, ScheduleListed(e)
      PROVE  IInv'
  <2>1. TimerTypes'
    BY <1>1, ScheduledType DEF ScheduleListed, IInv, Types, TimerTypes
  <2>2. ListTypes'
    BY <1>1 DEF ScheduleListed, IInv, Types, ListTypes
  <2> QED
    BY <1>1, <2>1, <2>2
       DEF ScheduleListed, IInv, Types, ModesAgree, HandlerTypes, EngineTypes, ScheduleTypes, CoilTypes,
           handlerVars, engineVars, scheduleVars, coilVars
<1>2. CASE ListDone
  <2>1. HandlerTypes'
    BY <1>2 DEF ListDone, IInv, Types, HandlerTypes
  <2> QED
    BY <1>2, <2>1
       DEF ListDone, IInv, Types, ModesAgree, EngineTypes, ScheduleTypes, ListTypes, TimerTypes, CoilTypes,
           engineVars, scheduleVars, listVars, timerVars, coilVars
<1>3. CASE SkipEvent
  <2>1. HandlerTypes'
    BY <1>3, GoOnTypes DEF SkipEvent
  <2> QED
    BY <1>3, <2>1
       DEF SkipEvent, IInv, Types, ModesAgree, EngineTypes, ScheduleTypes, ListTypes, TimerTypes, CoilTypes,
           engineVars, scheduleVars, listVars, timerVars, coilVars
<1>4. CASE HandleDwell
  <2>1. HandlerTypes'
    BY <1>4 DEF HandleDwell, IInv, Types, HandlerTypes, ScheduleTypes
  <2>2. TimerTypes'
    <3>1. current \in Events
      BY DEF IInv, Types, HandlerTypes
    <3>2. dwellTimer' \in {dwellTimer, Scheduled(dwellTimer, current)}
      BY <1>4 DEF HandleDwell
    <3>3. dwellTimer' \in [Events -> {Idle} \cup 0 .. Late]
      BY <3>1, <3>2, ScheduledType DEF IInv, Types, TimerTypes
    <3>4. /\ sparkLater' \in {sparkLater, [sparkLater EXCEPT ![current] = FALSE]}
          /\ UNCHANGED <<sparkTimer, sparksRemaining>>
      BY <1>4 DEF HandleDwell
    <3> QED
      BY <3>3, <3>4 DEF IInv, Types, TimerTypes
  <2>3. CoilTypes'
    BY <1>4 DEF HandleDwell, IInv, Types, CoilTypes
  <2> QED
    BY <1>4, <2>1, <2>2, <2>3
       DEF HandleDwell, IInv, Types, ModesAgree, EngineTypes, ScheduleTypes, ListTypes,
           engineVars, scheduleVars, listVars
<1>5. CASE HandleSpark
  <2>1. HandlerTypes'
    BY <1>5, GoOnTypes DEF HandleSpark
  <2>2. current \in Events /\ localTooth \in Teeth
    BY DEF IInv, Types, HandlerTypes
  <2>3. ListTypes'
    BY <1>5, <2>2 DEF HandleSpark, IInv, Types, ListTypes
  <2>4. sparksRemaining' \in [Events -> 0 .. MaxSparks]
    <3>1. MaxSparks \in Nat
      BY IgnitionAssumption DEF IgnitionAssumption
    <3>2. PICK n \in 0 .. MaxSparks :
            sparksRemaining' = [sparksRemaining EXCEPT ![current] = n]
      <4>1. PICK n \in (IF limited THEN {0} ELSE 0 .. MaxSparks) :
              sparksRemaining' = [sparksRemaining EXCEPT ![current] = n]
        BY <1>5 DEF HandleSpark
      <4>2. n \in 0 .. MaxSparks
        <5>1. CASE limited
          BY <3>1, <5>1
        <5>2. CASE ~limited
          BY <5>2
        <5> QED
          BY <5>1, <5>2
      <4> QED
        BY <4>1, <4>2
    <3> QED
      BY <3>2 DEF IInv, Types, TimerTypes
  <2>5. TimerTypes'
    <3>1. /\ dwellTimer' = dwellTimer
          /\ sparkTimer' \in {sparkTimer, Scheduled(sparkTimer, current)}
      BY <1>5 DEF HandleSpark
    <3>2. sparkTimer' \in [Events -> {Idle} \cup 0 .. Late]
      BY <2>2, <3>1, ScheduledType DEF IInv, Types, TimerTypes
    <3>3. \E b \in BOOLEAN : sparkLater' \in {sparkLater, [sparkLater EXCEPT ![current] = b]}
      BY <1>5, Zenon DEF HandleSpark
    <3>4. sparkLater' \in [Events -> BOOLEAN]
      BY <3>3 DEF IInv, Types, TimerTypes
    <3> QED
      BY <2>4, <3>1, <3>2, <3>4 DEF IInv, Types, TimerTypes
  <2> QED
    BY <1>5, <2>1, <2>3, <2>5
       DEF HandleSpark, IInv, Types, ModesAgree, EngineTypes, ScheduleTypes, CoilTypes,
           engineVars, scheduleVars, coilVars
<1> QED
  BY <1>1, <1>2, <1>3, <1>4, <1>5 DEF Handler

(* The timers drive coils of the engine and count a series down.           *)
LEMMA TimerKeepsIInv ==
  ASSUME IInv, NEW e \in Events, Timer(e)
  PROVE  IInv'
<1>1. CASE TurnSparkPinHigh(e)
  <2>1. TimerTypes'
    BY <1>1 DEF TurnSparkPinHigh, IInv, Types, TimerTypes
  <2>2. CoilTypes'
    BY <1>1 DEF TurnSparkPinHigh, IInv, Types, CoilTypes, ScheduleTypes
  <2> QED
    BY <1>1, <2>1, <2>2
       DEF TurnSparkPinHigh, IInv, Types, ModesAgree, HandlerTypes, EngineTypes, ScheduleTypes, ListTypes,
           handlerVars, engineVars, scheduleVars, listVars
<1>2. CASE FireSpark(e)
  <2>1. ScheduleTypes'
    <3>1. CASE sparksRemaining[e] > 0
      BY <1>2, <3>1 DEF FireSpark, FireAgain, IInv, Types, ScheduleTypes, scheduleVars
    <3>2. CASE ~(sparksRemaining[e] > 0)
      BY <1>2, <3>2, PreparedTypes DEF FireSpark
    <3> QED
      BY <3>1, <3>2
  <2>2. TimerTypes'
    <3>1. CASE sparksRemaining[e] > 0
      <4>1. sparksRemaining[e] - 1 \in 0 .. MaxSparks
        BY <3>1, IgnitionAssumption DEF IgnitionAssumption, IInv, Types, TimerTypes
      <4>2. /\ sparksRemaining' = [sparksRemaining EXCEPT ![e] = @ - 1]
            /\ sparkLater' = [sparkLater EXCEPT ![e] = dwellTimer[e] = Idle]
            /\ dwellTimer' = Scheduled(dwellTimer, e)
            /\ sparkTimer' = [sparkTimer EXCEPT ![e] = 0]
        BY <1>2, <3>1 DEF FireSpark, FireAgain
      <4>3. /\ dwellTimer' \in [Events -> {Idle} \cup 0 .. Late]
            /\ sparkTimer' \in [Events -> {Idle} \cup 0 .. Late]
        BY <4>2, ScheduledType DEF IInv, Types, TimerTypes
      <4>4. sparksRemaining' \in [Events -> 0 .. MaxSparks]
        BY <4>1, <4>2 DEF IInv, Types, TimerTypes
      <4>5. sparkLater' \in [Events -> BOOLEAN]
        BY <4>2 DEF IInv, Types, TimerTypes
      <4> QED
        BY <4>3, <4>4, <4>5 DEF TimerTypes
    <3>2. CASE ~(sparksRemaining[e] > 0)
      BY <1>2, <3>2 DEF FireSpark, IInv, Types, TimerTypes
    <3> QED
      BY <3>1, <3>2
  <2>3. CoilTypes'
    <3>1. outputs[e] \subseteq Coils /\ outputs'[e] \subseteq Coils
      BY <2>1 DEF ScheduleTypes, IInv, Types
    <3>2. disturbed' \subseteq Coils
      BY <1>2, <3>1 DEF FireSpark, RememberDisturbance, IInv, Types, CoilTypes
    <3>3. /\ high' \subseteq Coils /\ outOfOrder' \subseteq Coils
          /\ fallOf' \in [Coils -> Events \cup {NoEvent}]
      BY <1>2, <3>1 DEF FireSpark, FireCoils, IInv, Types, CoilTypes
    <3> QED
      BY <3>2, <3>3 DEF CoilTypes
  <2> QED
    BY <1>2, <2>1, <2>2, <2>3
       DEF FireSpark, IInv, Types, ModesAgree, HandlerTypes, EngineTypes, ListTypes,
           handlerVars, engineVars, listVars
<1> QED
  BY <1>1, <1>2 DEF Timer

(* Every step keeps the inductive invariant.                               *)
LEMMA NextKeepsIInv == IInv /\ [Next]_vars => IInv'
<1> SUFFICES ASSUME IInv, [Next]_vars PROVE IInv'
  OBVIOUS
<1>1. CASE UNCHANGED vars
  BY <1>1
     DEF vars, IInv, Types, ModesAgree, HandlerTypes, EngineTypes, ScheduleTypes, ListTypes, TimerTypes,
         CoilTypes, handlerVars, engineVars, scheduleVars, listVars, timerVars, coilVars
<1> QED
  BY <1>1, StallKeepsIInv, ResynchronizeKeepsIInv, ToothKeepsIInv, HandlerKeepsIInv, TimerKeepsIInv
     DEF Next

(* The variables of the ignition keep their types; in particular no event  *)
(* ever drives a coil the engine does not have, although the number of the *)
(* coil and the decision for a twin are made from two modes, one of them   *)
(* as it was at the last edge of the trigger; and a series of sparks ends  *)
(* (sparksRemaining does not go below zero).                               *)
THEOREM IgnitionTypesAreKept == Spec => []TypeOK
<1>1. IInv => TypeOK
  BY TypesAreTypeOK DEF IInv
<1> QED
  BY <1>1, InitIInv, NextKeepsIInv, PTL DEF Spec
-----------------------------------------------------------------------------
(* A charged coil has a spark to come: distances on the cycle.             *)

(* The teeth from tooth t on to tooth u.                                   *)
Ahead(t, u) == IF t <= u THEN u - t ELSE NumTeeth - t + u

(* The tooth of the event's share of the cycle.                            *)
Share(e) == e * (NumTeeth \div NumCylinders)

(* How far the n timers of a series can be late together.                  *)
Delays(n) == Late * n

(* How far behind its event's share the last spark of a series can come.   *)
Reach == TimingTeeth + Delays(MaxSparks + 1)

(* The modes that the pins are numbered by, with whether the engine is     *)
(* spinning up.                                                            *)
PinModes == {ModeWhen(up) : up \in {FALSE, FasterSpinUp}}

ModePairs ==
  {m \in {FALSE, FasterSpinUp} \X PinModes :
     ModeWhen(m[1]) = "WASTED_SPARK" => m[2] = "WASTED_SPARK"}

(* The coils an event may ever drive.                                      *)
CoilsOf(e) == UNION {OutputsFor(e, m[1], m[2]) : m \in ModePairs}

(* The cycle leaves room for the sparks of an event and its next dwell.    *)
DwellFits == DwellTeeth + Reach < NumTeeth

(* Of two events that may share a coil, each is done before the other may  *)
(* fire.                                                                   *)
SparksApart ==
  \A e, f \in Events :
    e < f /\ CoilsOf(e) \cap CoilsOf(f) # {} =>
      /\ Reach < Share(f) - Share(e)
      /\ Reach < NumTeeth - (Share(f) - Share(e))

(* Distances are shorter than a cycle.                                     *)
LEMMA AheadIsTooth ==
  ASSUME NEW t \in Teeth, NEW u \in Teeth
  PROVE  Ahead(t, u) \in Teeth /\ (Ahead(t, u) = 0 <=> t = u)
BY Numbers DEF Teeth, Ahead

(* Different teeth are at different distances.                             *)
LEMMA AheadDiffers ==
  ASSUME NEW t \in Teeth, NEW u \in Teeth, NEW v \in Teeth
  PROVE  Ahead(t, v) = Ahead(u, v) <=> t = u
BY Numbers DEF Teeth, Ahead

(* A tooth further.                                                        *)
LEMMA AheadOfNext ==
  ASSUME NEW s \in Teeth, NEW t \in Teeth
  PROVE  LET u == (t + 1) % NumTeeth IN
         /\ u \in Teeth
         /\ Ahead(s, u) = IF Ahead(s, t) = NumTeeth - 1 THEN 0 ELSE Ahead(s, t) + 1
         /\ Ahead(u, s) = IF Ahead(t, s) = 0 THEN NumTeeth - 1 ELSE Ahead(t, s) - 1
<1> DEFINE u == (t + 1) % NumTeeth
<1>1. u = IF t = NumTeeth - 1 THEN 0 ELSE t + 1
  BY Numbers, SMTT(30) DEF Teeth
<1> HIDE DEF u
<1> QED
  BY <1>1, Numbers, SMTT(30) DEF Teeth, Ahead, u

(* The distance between two teeth is that of their distances to a third.   *)
LEMMA AheadOfThird ==
  ASSUME NEW s \in Teeth, NEW t \in Teeth, NEW u \in Teeth
  PROVE  Ahead(s, t) = IF Ahead(t, u) <= Ahead(s, u)
                       THEN Ahead(s, u) - Ahead(t, u)
                       ELSE NumTeeth + Ahead(s, u) - Ahead(t, u)
BY Numbers DEF Teeth, Ahead

(* Delays add up.                                                          *)
LEMMA DelaysGrow ==
  /\ Late \in Nat /\ MaxSparks \in Nat /\ TimingTeeth \in Nat /\ DwellTeeth \in Nat
  /\ \A n \in Nat : Delays(n) \in Nat /\ Delays(n + 1) = Delays(n) + Late
  /\ \A m, n \in Nat : m <= n => Delays(m) <= Delays(n)
<1>1. /\ Late \in Nat /\ MaxSparks \in Nat /\ TimingTeeth \in Nat /\ DwellTeeth \in Nat
  BY IgnitionAssumption DEF IgnitionAssumption
<1>2. ASSUME NEW l \in Nat, NEW n \in Nat
      PROVE  l * n \in Nat /\ l * (n + 1) = l * n + l
  OBVIOUS
<1>3. ASSUME NEW l \in Nat, NEW m \in Nat, NEW n \in Nat, m <= n
      PROVE  l * m <= l * n
  <2>1. PICK d \in Nat : n = m + d
    <3>1. n - m \in Nat /\ n = m + (n - m)
      BY <1>3
    <3> QED
      BY <3>1
  <2>2. l * (m + d) = l * m + l * d /\ l * d \in Nat /\ l * m \in Nat
    OBVIOUS
  <2> QED
    BY <2>1, <2>2
<1> QED
  BY <1>1, <1>2, <1>3 DEF Delays

(* Every event has a share of the cycle.                                   *)
LEMMA ShareIsTooth == \A e \in Events : Share(e) \in Teeth
<1> TAKE e \in Events
<1>1. ASSUME NEW c \in Nat, NEW n \in Nat, NEW i \in Nat, i < c, c <= n
      PROVE  i * (n \div c) \in 0 .. n - 1
  <2> DEFINE p == n \div c
  <2>1. p \in Nat /\ c * p <= n
    BY <1>1
  <2>2. p >= 1
    BY <1>1
  <2> HIDE DEF p
  <2>3. PICK d \in Nat : c = i + 1 + d
    <3>1. c - i - 1 \in Nat /\ c = i + 1 + (c - i - 1)
      BY <1>1
    <3> QED
      BY <3>1
  <2>4. c * p = i * p + p + d * p /\ i * p \in Nat /\ d * p \in Nat
    BY <2>1, <2>3
  <2>5. i * p <= n - 1
    BY <2>1, <2>2, <2>4
  <2> QED
    BY <2>4, <2>5 DEF p
<1>2. e \in Nat /\ e < NumCylinders /\ NumCylinders <= NumTeeth
  BY Numbers, IgnitionAssumption DEF IgnitionAssumption, Events
<1> QED
  BY <1>1, <1>2, Numbers DEF Share, Teeth

(* What the condition on the cycle says in numbers.                        *)
LEMMA ReachFits ==
  ASSUME DwellFits
  PROVE  /\ Reach \in Nat /\ Reach = TimingTeeth + Delays(MaxSparks) + Late
         /\ TimingTeeth <= Reach
         /\ DwellTeeth + Reach < NumTeeth
<1>1. Delays(MaxSparks) \in Nat /\ Delays(MaxSparks + 1) = Delays(MaxSparks) + Late
  BY DelaysGrow
<1>2. TimingTeeth \in Nat /\ DwellTeeth \in Nat /\ Late \in Nat
  BY DelaysGrow
<1> QED
  BY <1>1, <1>2 DEF DwellFits, Reach

(* Within two turns.                                                       *)
LEMMA RemainderOfSum ==
  ASSUME NEW n \in Nat, NEW m \in Nat, m < n + n
  PROVE  m % n = IF m < n THEN m ELSE m - n
<1>1. CASE m < n
  BY <1>1
<1>2. CASE n <= m
  <2>1. m - n \in 0 .. n - 1 /\ m = n * 1 + (m - n)
    BY <1>2
  <2> QED
    BY <1>2, <2>1
<1> QED
  BY <1>1, <1>2

(* A position: the spark behind the event's share, the dwell before it.    *)
LEMMA PositionsInReach ==
  ASSUME DwellFits, NEW e \in Events, NEW p \in Positions(e)
  PROVE  /\ p[1] \in Teeth /\ p[2] \in Teeth
         /\ Ahead(Share(e), p[2]) <= TimingTeeth
         /\ Ahead(p[1], p[2]) <= DwellTeeth
<1>1. PICK s \in SparkTeeth(e) : p \in DwellTeethFor(s) \X {s}
  BY DEF Positions
<1>2. PICK a \in 0 .. TimingTeeth : s = (Share(e) + a) % NumTeeth
  BY DEF SparkTeeth, Share
<1>3. PICK d \in 0 .. DwellTeeth : p[1] = (s + NumTeeth - d) % NumTeeth
  BY <1>1 DEF DwellTeethFor
<1>4. /\ a \in Nat /\ a <= TimingTeeth /\ a < NumTeeth
      /\ d \in Nat /\ d <= DwellTeeth /\ d < NumTeeth
      /\ Share(e) \in Nat /\ Share(e) < NumTeeth
  <2>1. /\ TimingTeeth \in Nat /\ DwellTeeth \in Nat /\ Reach \in Nat
        /\ TimingTeeth <= Reach /\ DwellTeeth + Reach < NumTeeth
    BY ReachFits, DelaysGrow
  <2>2. Share(e) \in Nat /\ Share(e) < NumTeeth
    BY ShareIsTooth, Numbers DEF Teeth
  <2> QED
    BY <2>1, <2>2, Numbers
<1>5. s = IF Share(e) + a < NumTeeth THEN Share(e) + a ELSE Share(e) + a - NumTeeth
  <2> DEFINE m == Share(e) + a
  <2>1. m \in Nat /\ m < NumTeeth + NumTeeth /\ NumTeeth \in Nat
    BY <1>4, Numbers
  <2> HIDE DEF m
  <2>2. m % NumTeeth = IF m < NumTeeth THEN m ELSE m - NumTeeth
    BY <2>1, RemainderOfSum
  <2> QED
    BY <1>2, <1>4, <2>2, Numbers, SMTT(30) DEF m
<1>6. p[1] = IF s < d THEN s + NumTeeth - d ELSE s - d
  <2>1. s \in Nat /\ s < NumTeeth
    BY <1>4, <1>5, Numbers
  <2> DEFINE m == s + NumTeeth - d
  <2>2. m \in Nat /\ m < NumTeeth + NumTeeth /\ NumTeeth \in Nat
    BY <1>4, <2>1, Numbers
  <2> HIDE DEF m
  <2>3. m % NumTeeth = IF m < NumTeeth THEN m ELSE m - NumTeeth
    BY <2>2, RemainderOfSum
  <2> QED
    BY <1>3, <1>4, <2>1, <2>3, Numbers DEF m
<1>7. p[2] = s
  BY <1>1
<1>8. Ahead(Share(e), s) = a
  <2> DEFINE b == Share(e)
  <2>1. /\ b \in Nat /\ a \in Nat /\ NumTeeth \in Nat /\ a < NumTeeth /\ b < NumTeeth
        /\ s = IF b + a < NumTeeth THEN b + a ELSE b + a - NumTeeth
    BY <1>4, <1>5, Numbers
  <2> HIDE DEF b
  <2>2. (IF b <= s THEN s - b ELSE NumTeeth - b + s) = a
    BY <2>1
  <2> QED
    BY <2>2 DEF Ahead, b
<1>9. Ahead(p[1], s) = d
  <2>1. s \in Nat /\ s < NumTeeth
    BY <1>4, <1>5, Numbers
  <2> QED
    BY <1>4, <1>6, <2>1, Numbers DEF Ahead
<1> QED
  BY <1>4, <1>7, <1>8, <1>9, PositionsAreTeeth

(* Two events on the same coil are not both within reach of their shares.  *)
LEMMA NotBothInReach ==
  ASSUME DwellFits, SparksApart, NEW e \in Events, NEW f \in Events, e # f,
         CoilsOf(e) \cap CoilsOf(f) # {},
         NEW t \in Teeth, Ahead(Share(e), t) <= Reach
  PROVE  Reach < Ahead(Share(f), t)
<1>1. e \in Nat /\ f \in Nat
  BY Numbers DEF Events
<1>2. Share(e) \in Teeth /\ Share(f) \in Teeth
  BY ShareIsTooth
<1>3. CASE e < f
  <2>1. Reach < Share(f) - Share(e) /\ Reach < NumTeeth - (Share(f) - Share(e))
    BY <1>3 DEF SparksApart
  <2> QED
    BY <1>2, <2>1, ReachFits, Numbers DEF Ahead, Teeth
<1>4. CASE f < e
  <2>1. Reach < Share(e) - Share(f) /\ Reach < NumTeeth - (Share(e) - Share(f))
    BY <1>4 DEF SparksApart
  <2> QED
    BY <1>2, <2>1, ReachFits, Numbers DEF Ahead, Teeth
<1> QED
  BY <1>1, <1>3, <1>4

-----------------------------------------------------------------------------
(* A charged coil has a spark to come: the invariant.                      *)

(* The timers of an event are set; the loop is between its dwell and spark.*)
Dwelling(e) == dwellTimer[e] # Idle
Firing(e) == sparkTimer[e] # Idle
InLoop(e) == pc = "spark" /\ current = e

(* The loop over the events has not come to event e at this tooth.         *)
NotReached(e) ==
  \/ pc = "list"
  \/ pc = "events" /\ current <= e
  \/ pc = "spark" /\ current < e

(* The teeth since the event's share of the cycle; from its dwell to its   *)
(* spark; and still left to its spark.                                     *)
Since(e) == Ahead(Share(e), tooth)
Span(e) == Ahead(dwellTooth[e], sparkTooth[e])
Left(e) == Ahead(tooth, sparkTooth[e])

(* The event waits in the list, on its way from its dwell to its spark: no *)
(* tooth was ignored that should have taken it from the list.              *)
Waits(e) ==
  /\ e \in angleList
  /\ Left(e) <= Span(e)
  /\ tooth = dwellTooth[e] => ~NotReached(e)
  /\ Left(e) = 0 => pc = "list"

(* A spark of the event is to come before its next dwell.                  *)
Fresh(e) == Firing(e) \/ InLoop(e) \/ Waits(e)

(* The coils and the positions that a schedule gives the event.            *)
Positioned(e) ==
  /\ outputs[e] \subseteq CoilsOf(e)
  /\ Ahead(Share(e), sparkTooth[e]) <= TimingTeeth
  /\ Span(e) <= DwellTeeth

(* The list holds the spark of the present positions, and only one that is *)
(* not in the timer too.                                                   *)
ListedOnce(e) ==
  e \in angleList =>
    ~Firing(e) /\ queuedTooth[e] = sparkTooth[e] /\ sparkTooth[e] # dwellTooth[e]

(* handleSparkEvent works at the tooth of the dwell, with the spark idle.  *)
LoopAtDwell(e) ==
  InLoop(e) => ~Firing(e) /\ localTooth = sparkTooth[e] /\ tooth = dwellTooth[e]

(* A series of sparks, however late, ends within reach of the event's      *)
(* share, and thus before the event's next dwell.                          *)
FiresInReach(e) ==
  Firing(e) =>
    /\ Ahead(Share(e), sparkTooth[e]) + sparkTimer[e] <= Since(e)
    /\ Since(e) <= TimingTeeth + sparkTimer[e] + Delays(MaxSparks - sparksRemaining[e])

(* When the loop comes to a dwell, the spark before it has fired.          *)
FiredBeforeDwell(e) == NotReached(e) /\ tooth = dwellTooth[e] => ~Firing(e)

(* So does its dwell; or the event has yet to come to its share.           *)
DwellsInReach(e) ==
  Dwelling(e) =>
    \/ Since(e) <= TimingTeeth + dwellTimer[e] + Delays(MaxSparks)
    \/ NumTeeth - DwellTeeth <= Since(e) /\ Fresh(e)

(* A spark that waits since before the present dwell was disturbed.        *)
ListedAfterDwell(e) ==
  Dwelling(e) /\ e \in angleList => Fresh(e) \/ outputs[e] \subseteq disturbed

(* All of it.                                                              *)
EventInv(e) ==
  /\ Positioned(e) /\ ListedOnce(e) /\ LoopAtDwell(e) /\ FiresInReach(e)
  /\ FiredBeforeDwell(e) /\ DwellsInReach(e) /\ ListedAfterDwell(e)

(* An event that drives the coil has charged it, and fires it.             *)
Covered(c) == \E e \in Events : c \in outputs[e] /\ ~Dwelling(e) /\ Fresh(e)

(* Every charged coil has such an event.                                   *)
ChargedIsCovered == \A c \in high \ disturbed : Covered(c)

(* A dwell whose spark came first does not charge its coils, unless        *)
(* another event will fire them.                                           *)
LateDwellHarmless ==
  \A e \in Events : Dwelling(e) /\ ~SparkToCome(e) =>
    \A c \in outputs[e] \ disturbed : (c \in outOfOrder /\ fallOf[c] = e) \/ Covered(c)

(* Before the first schedule nothing is under way.                         *)
Unused ==
  /\ pc = "idle" /\ angleList = {} /\ high = {}
  /\ \A e \in Events : ~Dwelling(e) /\ ~Firing(e)

(* The pins are numbered by the mode of an engine that spins up or not.    *)
PinModeInv == pinMode \in PinModes

(* What holds once there is a schedule.                                    *)
RunningInv == (\A e \in Events : EventInv(e)) /\ ChargedIsCovered /\ LateDwellHarmless

(* The inductive invariant.                                                *)
SparkInv == IInv /\ PinModeInv /\ IF isReady THEN RunningInv ELSE Unused

(* A step that leaves the event itself alone.                              *)
Alone(e) ==
  /\ tooth' = tooth
  /\ outputs'[e] = outputs[e]
  /\ dwellTooth'[e] = dwellTooth[e] /\ sparkTooth'[e] = sparkTooth[e]
  /\ queuedTooth'[e] = queuedTooth[e] /\ (e \in angleList' <=> e \in angleList)
  /\ dwellTimer'[e] = dwellTimer[e] /\ sparkTimer'[e] = sparkTimer[e]
  /\ sparksRemaining'[e] = sparksRemaining[e]

(* The handler does not turn back, and leaves the list without the event.  *)
LoopPasses(e) ==
  /\ InLoop(e)' <=> InLoop(e)
  /\ InLoop(e) => localTooth' = localTooth
  /\ NotReached(e)' => NotReached(e)
  /\ pc = "list" => pc' = "list" \/ e \notin angleList \/ queuedTooth[e] # tooth

(* What the invariant says of an event outlives the steps of the others.   *)
LEMMA AloneKeepsFresh ==
  ASSUME Types, NEW e \in Events, EventInv(e), Alone(e), LoopPasses(e)
  PROVE  (Fresh(e) => Fresh(e)') /\ (Dwelling(e)' <=> Dwelling(e))
<1>1. sparkTooth[e] \in Teeth /\ tooth \in Teeth
  BY DEF Types, ScheduleTypes, HandlerTypes
<1>2. (Firing(e)' <=> Firing(e)) /\ (Dwelling(e)' <=> Dwelling(e))
  BY DEF Alone, Firing, Dwelling
<1>3. InLoop(e) => InLoop(e)'
  BY DEF LoopPasses
<1>4. Waits(e) => Waits(e)'
  <2> SUFFICES ASSUME Waits(e) PROVE Waits(e)'
    OBVIOUS
  <2>1. Left(e)' = Left(e) /\ Span(e)' = Span(e)
    BY DEF Alone, Left, Span
  <2>2. e \in angleList' /\ (tooth' = dwellTooth'[e] => ~NotReached(e)')
    BY DEF Waits, Alone, LoopPasses
  <2>3. Left(e)' = 0 => pc' = "list"
    <3>1. CASE Left(e) = 0
      <4>1. sparkTooth[e] = tooth
        BY <1>1, <3>1, AheadIsTooth DEF Left
      <4>2. queuedTooth[e] = tooth
        BY <4>1 DEF EventInv, ListedOnce, Waits
      <4> QED
        BY <3>1, <4>2 DEF Waits, LoopPasses
    <3> QED
      BY <2>1, <3>1
  <2> QED
    BY <2>1, <2>2, <2>3 DEF Waits
<1> QED
  BY <1>2, <1>3, <1>4 DEF Fresh

(* Of the coils only the disturbed ones matter to it.                      *)
LEMMA AloneKeepsEvent ==
  ASSUME Types, NEW e \in Events, EventInv(e), Alone(e), LoopPasses(e),
         Dwelling(e) => Fresh(e) \/ outputs[e] \subseteq disturbed' \/ ~(outputs[e] \subseteq disturbed)
  PROVE  EventInv(e)'
<1>1. (Fresh(e) => Fresh(e)') /\ (Dwelling(e)' <=> Dwelling(e))
  BY AloneKeepsFresh
<1>2. (Firing(e)' <=> Firing(e)) /\ Since(e)' = Since(e)
  BY DEF Alone, Firing, Since
<1>3. Positioned(e)' /\ ListedOnce(e)'
  BY <1>2 DEF EventInv, Positioned, ListedOnce, Alone, Span
<1>4. LoopAtDwell(e)'
  BY <1>2 DEF EventInv, LoopAtDwell, Alone, LoopPasses
<1>5. FiresInReach(e)' /\ DwellsInReach(e)'
  BY <1>1, <1>2 DEF EventInv, FiresInReach, DwellsInReach, Alone
<1>6. FiredBeforeDwell(e)'
  BY <1>2 DEF EventInv, FiredBeforeDwell, Alone, LoopPasses
<1>7. ListedAfterDwell(e)'
  BY <1>1 DEF EventInv, ListedAfterDwell, Alone
<1> QED
  BY <1>3, <1>4, <1>5, <1>6, <1>7 DEF EventInv

(* Where an event is on the cycle.                                         *)
LEMMA Whereabouts ==
  ASSUME Types, DwellFits, NEW e \in Events, EventInv(e)
  PROVE  LET shift == Ahead(Share(e), sparkTooth[e]) IN
         /\ Since(e) \in Nat /\ Since(e) < NumTeeth
         /\ Left(e) \in Nat /\ Left(e) < NumTeeth
         /\ Span(e) \in Nat /\ Span(e) <= DwellTeeth
         /\ shift \in Nat /\ shift <= TimingTeeth
         /\ Since(e) = IF Left(e) <= shift THEN shift - Left(e) ELSE NumTeeth + shift - Left(e)
         /\ Left(e) = 0 <=> tooth = sparkTooth[e]
         /\ Left(e) = Span(e) <=> tooth = dwellTooth[e]
         /\ Firing(e) => Since(e) <= Reach
<1>1. /\ tooth \in Teeth /\ sparkTooth[e] \in Teeth /\ dwellTooth[e] \in Teeth
      /\ Share(e) \in Teeth
  BY ShareIsTooth DEF Types, ScheduleTypes, HandlerTypes
<1>2. /\ Since(e) \in Nat /\ Since(e) < NumTeeth
      /\ Left(e) \in Nat /\ Left(e) < NumTeeth
      /\ Left(e) = 0 <=> tooth = sparkTooth[e]
      /\ Span(e) \in Nat /\ Ahead(Share(e), sparkTooth[e]) \in Nat
  <2>1. /\ Since(e) \in Teeth /\ Left(e) \in Teeth /\ Span(e) \in Teeth
        /\ Ahead(Share(e), sparkTooth[e]) \in Teeth
        /\ Left(e) = 0 <=> tooth = sparkTooth[e]
    BY <1>1, AheadIsTooth DEF Since, Left, Span
  <2> QED
    BY <2>1, Numbers DEF Teeth
<1>3. Left(e) = Span(e) <=> tooth = dwellTooth[e]
  BY <1>1, AheadDiffers DEF Left, Span
<1>4. Firing(e) => Since(e) <= Reach
  <2> SUFFICES ASSUME Firing(e) PROVE Since(e) <= Reach
    OBVIOUS
  <2> DEFINE spent == MaxSparks - sparksRemaining[e]
  <2>1. sparkTimer[e] \in Nat /\ sparkTimer[e] <= Late
    <3>1. sparkTimer[e] \in {Idle} \cup 0 .. Late /\ sparkTimer[e] # Idle
      BY DEF Firing, Types, TimerTypes
    <3>2. Late \in Nat
      BY DelaysGrow
    <3> QED
      BY <3>1, <3>2
  <2>2. spent \in Nat /\ spent <= MaxSparks /\ MaxSparks \in Nat
    <3>1. sparksRemaining[e] \in 0 .. MaxSparks
      BY DEF Types, TimerTypes
    <3>2. MaxSparks \in Nat
      BY DelaysGrow
    <3> QED
      BY <3>1, <3>2
  <2>3. Since(e) <= TimingTeeth + sparkTimer[e] + Delays(spent)
    BY DEF EventInv, FiresInReach
  <2> HIDE DEF spent
  <2>4. Delays(spent) \in Nat /\ Delays(MaxSparks) \in Nat /\ Delays(spent) <= Delays(MaxSparks)
    BY <2>2, DelaysGrow
  <2>5. Reach = TimingTeeth + Delays(MaxSparks) + Late
    BY ReachFits
  <2>6. TimingTeeth \in Nat /\ Late \in Nat
    BY DelaysGrow
  <2> QED
    BY <1>2, <2>1, <2>3, <2>4, <2>5, <2>6
<1>5. /\ Span(e) <= DwellTeeth
      /\ Ahead(Share(e), sparkTooth[e]) <= TimingTeeth
  BY DEF EventInv, Positioned
<1>6. Since(e) = IF Left(e) <= Ahead(Share(e), sparkTooth[e])
                 THEN Ahead(Share(e), sparkTooth[e]) - Left(e)
                 ELSE NumTeeth + Ahead(Share(e), sparkTooth[e]) - Left(e)
  BY <1>1, AheadOfThird DEF Since, Left
<1> QED
  BY <1>2, <1>3, <1>4, <1>5, <1>6

(* The loop comes to an event at its dwell.                                *)
LEMMA HandleDwellKeepsEvent ==
  ASSUME Types, DwellFits, NEW e \in Events, EventInv(e), HandleDwell, current = e
  PROVE  EventInv(e)' /\ ~Fresh(e) /\ Fresh(e)'
<1>1. /\ pc = "events" /\ dwellTooth[e] = tooth
      /\ pc' = "spark" /\ current' = e /\ localTooth' = sparkTooth[e]
      /\ UNCHANGED <<tooth, scheduleVars, listVars, sparkTimer, sparksRemaining, disturbed>>
  BY DEF HandleDwell
<1>2. /\ UNCHANGED <<outputs, dwellTooth, sparkTooth, queuedTooth, angleList>>
      /\ Firing(e)' = Firing(e)
  BY <1>1 DEF scheduleVars, listVars, Firing
<1>3. NotReached(e) /\ ~InLoop(e)
  BY <1>1, Numbers DEF NotReached, InLoop, Types, HandlerTypes, Events
<1>4. ~Firing(e)
  BY <1>1, <1>3 DEF EventInv, FiredBeforeDwell
<1>5. ~Fresh(e)
  BY <1>1, <1>3, <1>4 DEF Fresh, Waits
<1>6. Fresh(e)'
  BY <1>1 DEF Fresh, InLoop
<1>7. Positioned(e)' /\ ListedOnce(e)' /\ FiresInReach(e)' /\ FiredBeforeDwell(e)'
  BY <1>2, <1>4
     DEF EventInv, Positioned, Span, ListedOnce, FiresInReach, FiredBeforeDwell
<1>8. LoopAtDwell(e)' /\ ListedAfterDwell(e)'
  BY <1>1, <1>2, <1>4, <1>6 DEF LoopAtDwell, ListedAfterDwell
<1>9. DwellsInReach(e)'
  <2>1. Since(e)' = Since(e)
    BY <1>1 DEF Since
  <2>2. CASE dwellTimer'[e] = dwellTimer[e]
    BY <1>5, <2>1, <2>2 DEF EventInv, DwellsInReach, Dwelling
  <2>3. CASE dwellTimer'[e] = 0
    <3>1. \/ Since(e) <= TimingTeeth
          \/ NumTeeth - DwellTeeth <= Since(e)
      <4> DEFINE shift == Ahead(Share(e), sparkTooth[e])
      <4>1. Left(e) = Span(e) /\ Span(e) \in Nat /\ Span(e) <= DwellTeeth
        BY <1>1, Whereabouts
      <4>2. /\ shift \in Nat /\ shift <= TimingTeeth
            /\ Since(e) = IF Left(e) <= shift THEN shift - Left(e)
                                               ELSE NumTeeth + shift - Left(e)
        BY Whereabouts
      <4>3. NumTeeth \in Nat /\ DwellTeeth \in Nat /\ TimingTeeth \in Nat
        BY Numbers, DelaysGrow
      <4> HIDE DEF shift
      <4> QED
        BY <4>1, <4>2, <4>3
    <3>2. Delays(MaxSparks) \in Nat /\ TimingTeeth \in Nat
      BY DelaysGrow
    <3>3. Since(e) \in Nat
      BY Whereabouts
    <3> QED
      BY <1>6, <2>1, <2>3, <3>1, <3>2, <3>3 DEF DwellsInReach
  <2> QED
    <3>1. dwellTimer \in [Events -> {Idle} \cup 0 .. Late]
      BY DEF Types, TimerTypes
    <3>2. dwellTimer' \in {dwellTimer, Scheduled(dwellTimer, e)}
      BY DEF HandleDwell
    <3> QED
      BY <2>2, <2>3, <3>1, <3>2 DEF Scheduled
<1> QED
  BY <1>5, <1>6, <1>7, <1>8, <1>9 DEF EventInv

(* Where the loop is when it goes on.                                      *)
LEMMA GoOnPasses ==
  ASSUME Types, GoOn, pc \in {"events", "spark"}
  PROVE  /\ \A e \in Events : ~InLoop(e)'
         /\ \A e \in Events : NotReached(e)' => NotReached(e)
         /\ \A e \in Events : e = current => ~NotReached(e)'
         /\ pc' # "list"
<1>1. /\ current \in Nat
      /\ pc' = "idle" \/ (pc' = "events" /\ current' = current + 1)
  BY Numbers DEF GoOn, Types, HandlerTypes, Events
<1>2. \A e \in Events : e \in Nat
  BY Numbers DEF Events
<1>3. \A e \in Events : ~InLoop(e)'
  BY <1>1 DEF InLoop
<1>4. ASSUME NEW e \in Events, NotReached(e)' PROVE NotReached(e)
  BY <1>1, <1>2, <1>4 DEF NotReached
<1>5. ASSUME NEW e \in Events, e = current PROVE ~NotReached(e)'
  BY <1>1, <1>2, <1>5 DEF NotReached
<1>6. pc' # "list"
  BY <1>1
<1> QED
  BY <1>3, <1>4, <1>5, <1>6

(* The spark is given to the timer, or to the list until its tooth.        *)
LEMMA HandleSparkKeepsEvent ==
  ASSUME Types, DwellFits, NEW e \in Events, EventInv(e), HandleSpark, current = e
  PROVE  EventInv(e)' /\ Fresh(e) /\ Fresh(e)'
<1>1. /\ pc = "spark" /\ GoOn
      /\ UNCHANGED <<tooth, scheduleVars, dwellTimer, disturbed>>
      /\ queuedTooth' = [queuedTooth EXCEPT ![e] = localTooth]
  BY DEF HandleSpark, coilVars
<1>2. /\ UNCHANGED <<outputs, dwellTooth, sparkTooth>>
      /\ Dwelling(e)' = Dwelling(e) /\ Since(e)' = Since(e) /\ Span(e)' = Span(e) /\ Left(e)' = Left(e)
  BY <1>1 DEF scheduleVars, Dwelling, Since, Span, Left
<1>3. /\ ~InLoop(e)' /\ ~NotReached(e)'
  BY <1>1, GoOnPasses
<1>4. /\ ~Firing(e) /\ localTooth = sparkTooth[e] /\ tooth = dwellTooth[e]
  BY <1>1 DEF EventInv, LoopAtDwell, InLoop
<1>5. queuedTooth'[e] = sparkTooth[e]
  BY <1>1, <1>4 DEF Types, ListTypes
<1>6. Fresh(e)
  BY <1>1 DEF Fresh, InLoop
<1>7. Positioned(e)' /\ LoopAtDwell(e)' /\ FiredBeforeDwell(e)'
  BY <1>2, <1>3 DEF EventInv, Positioned, LoopAtDwell, FiredBeforeDwell
<1>8. CASE localTooth = tooth
  <2>1. sparkTimer' = Scheduled(sparkTimer, e) /\ angleList' = angleList
    BY <1>8 DEF HandleSpark
  <2>2. sparkTimer'[e] = 0 /\ Firing(e)'
    BY <1>4, <2>1 DEF Scheduled, Firing, Idle, Types, TimerTypes
  <2>3. Fresh(e)'
    BY <2>2 DEF Fresh
  <2>4. e \notin angleList'
    BY <1>4, <1>8, <2>1 DEF EventInv, ListedOnce
  <2>5. FiresInReach(e)'
    <3> DEFINE shift == Ahead(Share(e), sparkTooth[e])
               spent == MaxSparks - sparksRemaining'[e]
    <3>1. Since(e) = shift /\ shift \in Nat /\ shift <= TimingTeeth
      <4>1. Since(e) = shift
        BY <1>4, <1>8 DEF Since
      <4> QED
        BY <4>1, Whereabouts
    <3>2. Delays(spent) \in Nat
      <4>1. sparksRemaining'[e] \in 0 .. MaxSparks
        <5>1. PICK n \in (IF limited THEN {0} ELSE 0 .. MaxSparks) :
                sparksRemaining' = [sparksRemaining EXCEPT ![current] = n]
          BY DEF HandleSpark
        <5>2. sparksRemaining'[e] = n
          BY <5>1 DEF Types, TimerTypes
        <5>3. 0 \in 0 .. MaxSparks
          BY DelaysGrow
        <5> QED
          BY <5>1, <5>2, <5>3
      <4>2. MaxSparks \in Nat
        BY DelaysGrow
      <4>3. spent \in Nat
        BY <4>1, <4>2
      <4> QED
        BY <4>3, DelaysGrow
    <3>3. TimingTeeth \in Nat
      BY DelaysGrow
    <3>4. /\ shift + sparkTimer'[e] <= Since(e)
          /\ Since(e) <= TimingTeeth + sparkTimer'[e] + Delays(spent)
      <4> HIDE DEF shift, spent
      <4> QED
        BY <2>2, <3>1, <3>2, <3>3
    <3> QED
      BY <1>2, <3>4 DEF FiresInReach
  <2>6. DwellsInReach(e)' /\ ListedOnce(e)' /\ ListedAfterDwell(e)'
    BY <1>1, <1>2, <2>3, <2>4
       DEF EventInv, DwellsInReach, ListedOnce, ListedAfterDwell
  <2> QED
    BY <1>6, <1>7, <2>3, <2>5, <2>6 DEF EventInv
<1>9. CASE localTooth # tooth
  <2>1. sparkTimer' = sparkTimer /\ angleList' = angleList \cup {e}
    BY <1>9 DEF HandleSpark
  <2>2. ~Firing(e)'
    BY <1>4, <2>1 DEF Firing
  <2>3. Waits(e)'
    <3>1. Left(e) = Span(e) /\ Span(e) \in Nat /\ Left(e) # 0
      BY <1>4, <1>9, Whereabouts
    <3> QED
      BY <1>2, <1>3, <2>1, <3>1 DEF Waits
  <2>4. Fresh(e)'
    BY <2>3 DEF Fresh
  <2>5. FiresInReach(e)' /\ ListedOnce(e)'
    BY <1>2, <1>4, <1>5, <1>9, <2>2 DEF FiresInReach, ListedOnce
  <2>6. DwellsInReach(e)' /\ ListedAfterDwell(e)'
    BY <1>1, <1>2, <2>4 DEF EventInv, DwellsInReach, ListedAfterDwell
  <2> QED
    BY <1>6, <1>7, <2>4, <2>5, <2>6 DEF EventInv
<1> QED
  BY <1>8, <1>9

(* The spark leaves the list at its tooth.                                 *)
LEMMA ScheduleListedKeepsEvent ==
  ASSUME Types, DwellFits, NEW e \in Events, EventInv(e), ScheduleListed(e)
  PROVE  EventInv(e)' /\ Fresh(e)'
<1>1. /\ pc = "list" /\ e \in angleList /\ queuedTooth[e] = tooth
      /\ angleList' = angleList \ {e}
      /\ sparkTimer' = Scheduled(sparkTimer, e)
      /\ UNCHANGED <<handlerVars, scheduleVars, dwellTimer, sparksRemaining, disturbed>>
  BY DEF ScheduleListed, coilVars
<1>2. /\ UNCHANGED <<tooth, pc, current, localTooth, outputs, dwellTooth, sparkTooth>>
      /\ Dwelling(e)' = Dwelling(e) /\ Since(e)' = Since(e) /\ Span(e)' = Span(e)
      /\ NotReached(e)' = NotReached(e)
  BY <1>1 DEF handlerVars, scheduleVars, Dwelling, Since, Span, NotReached
<1>3. ~Firing(e) /\ tooth = sparkTooth[e] /\ tooth # dwellTooth[e]
  BY <1>1 DEF EventInv, ListedOnce
<1>4. sparkTimer'[e] = 0 /\ Firing(e)'
  BY <1>1, <1>3 DEF Scheduled, Firing, Idle, Types, TimerTypes
<1>5. Fresh(e)'
  BY <1>4 DEF Fresh
<1>6. e \notin angleList' /\ ~InLoop(e)'
  BY <1>1, <1>2 DEF InLoop
<1>7. /\ Positioned(e)' /\ ListedOnce(e)' /\ LoopAtDwell(e)'
      /\ FiredBeforeDwell(e)' /\ DwellsInReach(e)' /\ ListedAfterDwell(e)'
  BY <1>1, <1>2, <1>3, <1>5, <1>6
     DEF EventInv, Positioned, ListedOnce, LoopAtDwell, FiredBeforeDwell, DwellsInReach, ListedAfterDwell
<1>8. FiresInReach(e)'
  <2> DEFINE shift == Ahead(Share(e), sparkTooth[e])
             spent == MaxSparks - sparksRemaining[e]
  <2>1. Since(e) = shift /\ shift \in Nat /\ shift <= TimingTeeth
    <3>1. Since(e) = shift
      BY <1>3 DEF Since
    <3> QED
      BY <3>1, Whereabouts
  <2>2. Delays(spent) \in Nat
    <3>1. sparksRemaining[e] \in 0 .. MaxSparks
      BY DEF Types, TimerTypes
    <3>2. MaxSparks \in Nat
      BY DelaysGrow
    <3>3. spent \in Nat
      BY <3>1, <3>2
    <3> QED
      BY <3>3, DelaysGrow
  <2>3. TimingTeeth \in Nat
    BY DelaysGrow
  <2>4. /\ shift + sparkTimer'[e] <= Since(e)
        /\ Since(e) <= TimingTeeth + sparkTimer'[e] + Delays(spent)
    <3> HIDE DEF shift, spent
    <3> QED
      BY <1>4, <2>1, <2>2, <2>3
  <2> QED
    BY <1>1, <1>2, <2>4 DEF FiresInReach
<1> QED
  BY <1>5, <1>7, <1>8 DEF EventInv

(* A schedule gives an event coils it may drive.                           *)
LEMMA OutputsPossible ==
  ASSUME NEW e \in Events, NEW up \in BOOLEAN, up => FasterSpinUp, NEW mode \in PinModes,
         ModeWhen(up) = "WASTED_SPARK" => mode = "WASTED_SPARK"
  PROVE  OutputsFor(e, up, mode) \subseteq CoilsOf(e)
<1>1. up \in {FALSE, FasterSpinUp}
  BY IgnitionAssumption DEF IgnitionAssumption
<1>2. <<up, mode>> \in ModePairs
  BY <1>1 DEF ModePairs
<1> QED
  BY <1>2 DEF CoilsOf

(* The dwell has run.                                                      *)
LEMMA TurnKeepsEvent ==
  ASSUME Types, NEW e \in Events, EventInv(e), TurnSparkPinHigh(e)
  PROVE  EventInv(e)' /\ ~Dwelling(e)' /\ (Fresh(e) => Fresh(e)')
<1>1. /\ dwellTimer' = [dwellTimer EXCEPT ![e] = Idle]
      /\ UNCHANGED <<handlerVars, scheduleVars, listVars, sparkTimer, sparksRemaining>>
  BY DEF TurnSparkPinHigh
<1>2. UNCHANGED <<tooth, pc, current, localTooth, outputs, dwellTooth, sparkTooth, queuedTooth, angleList>>
  BY <1>1 DEF handlerVars, scheduleVars, listVars
<1>3. ~Dwelling(e)'
  BY <1>1 DEF Dwelling, Types, TimerTypes
<1>4. /\ Firing(e)' = Firing(e) /\ InLoop(e)' = InLoop(e) /\ NotReached(e)' = NotReached(e)
      /\ Since(e)' = Since(e) /\ Span(e)' = Span(e) /\ Left(e)' = Left(e)
  BY <1>1, <1>2 DEF Firing, InLoop, NotReached, Since, Span, Left
<1>5. /\ Positioned(e)' /\ ListedOnce(e)' /\ LoopAtDwell(e)' /\ FiresInReach(e)'
      /\ FiredBeforeDwell(e)'
  BY <1>1, <1>2, <1>4
     DEF EventInv, Positioned, ListedOnce, LoopAtDwell, FiresInReach, FiredBeforeDwell
<1>6. DwellsInReach(e)' /\ ListedAfterDwell(e)'
  BY <1>3 DEF DwellsInReach, ListedAfterDwell
<1>7. Fresh(e) => Fresh(e)'
  BY <1>2, <1>4 DEF Fresh, Waits
<1> QED
  BY <1>3, <1>5, <1>6, <1>7 DEF EventInv

(* What an event that fires is not.                                        *)
LEMMA FiringIsElsewhere ==
  ASSUME NEW e \in Events, EventInv(e), Firing(e)
  PROVE  e \notin angleList /\ ~InLoop(e) /\ ~(NotReached(e) /\ tooth = dwellTooth[e])
BY DEF EventInv, ListedOnce, LoopAtDwell, FiredBeforeDwell

(* The dwell of an event that fires is within reach of the event's share.  *)
LEMMA FiringDwellInReach ==
  ASSUME Types, DwellFits, NEW e \in Events, EventInv(e), Firing(e), Dwelling(e)
  PROVE  Since(e) <= TimingTeeth + dwellTimer[e] + Delays(MaxSparks)
<1>1. Since(e) \in Nat /\ Since(e) <= Reach
  BY Whereabouts
<1>2. Reach \in Nat /\ DwellTeeth \in Nat /\ NumTeeth \in Nat /\ DwellTeeth + Reach < NumTeeth
  BY ReachFits, DelaysGrow, Numbers
<1>3. ~(NumTeeth - DwellTeeth <= Since(e))
  BY <1>1, <1>2
<1> QED
  BY <1>3 DEF EventInv, DwellsInReach

(* One more spark of a series.                                             *)
LEMMA FireAgainKeepsEvent ==
  ASSUME Types, DwellFits, NEW e \in Events, EventInv(e), FireSpark(e), sparksRemaining[e] > 0
  PROVE  EventInv(e)' /\ Fresh(e)'
<1>1. /\ Firing(e)
      /\ sparksRemaining' = [sparksRemaining EXCEPT ![e] = @ - 1]
      /\ dwellTimer' = Scheduled(dwellTimer, e)
      /\ sparkTimer' = [sparkTimer EXCEPT ![e] = 0]
      /\ UNCHANGED <<handlerVars, scheduleVars, listVars>>
  BY DEF FireSpark, FireAgain, Firing
<1>2. UNCHANGED <<tooth, pc, current, localTooth, outputs, dwellTooth, sparkTooth, queuedTooth, angleList>>
  BY <1>1 DEF handlerVars, scheduleVars, listVars
<1>3. sparkTimer'[e] = 0 /\ Firing(e)'
  BY <1>1 DEF Firing, Idle, Types, TimerTypes
<1>4. Fresh(e)'
  BY <1>3 DEF Fresh
<1>5. /\ InLoop(e)' = InLoop(e) /\ NotReached(e)' = NotReached(e)
      /\ Since(e)' = Since(e) /\ Span(e)' = Span(e)
  BY <1>2 DEF InLoop, NotReached, Since, Span
<1>6. e \notin angleList /\ ~InLoop(e) /\ ~(NotReached(e) /\ tooth = dwellTooth[e])
  BY <1>1, FiringIsElsewhere
<1>7. /\ Positioned(e)' /\ ListedOnce(e)' /\ LoopAtDwell(e)' /\ FiredBeforeDwell(e)'
      /\ ListedAfterDwell(e)'
  BY <1>2, <1>5, <1>6
     DEF EventInv, Positioned, ListedOnce, LoopAtDwell, FiredBeforeDwell, ListedAfterDwell
<1> DEFINE rest == sparksRemaining[e]
           spent == MaxSparks - rest
           shift == Ahead(Share(e), sparkTooth[e])
           age == sparkTimer[e]
<1>8. /\ age \in Nat /\ age <= Late
      /\ spent \in Nat /\ spent + 1 <= MaxSparks
      /\ MaxSparks - sparksRemaining'[e] = spent + 1
  <2>1. sparkTimer[e] \in {Idle} \cup 0 .. Late /\ sparkTimer[e] # Idle
    BY <1>1 DEF Firing, Types, TimerTypes
  <2>2. rest \in 0 .. MaxSparks /\ rest > 0
    BY DEF Types, TimerTypes
  <2>3. sparksRemaining'[e] = rest - 1
    BY <1>1 DEF Types, TimerTypes
  <2>4. Late \in Nat /\ MaxSparks \in Nat
    BY DelaysGrow
  <2> QED
    BY <2>1, <2>2, <2>3, <2>4
<1>9. /\ Delays(spent) \in Nat /\ Delays(spent + 1) = Delays(spent) + Late
      /\ Delays(spent + 1) <= Delays(MaxSparks) /\ Delays(MaxSparks) \in Nat
      /\ TimingTeeth \in Nat /\ Late \in Nat
  <2> HIDE DEF spent
  <2>1. MaxSparks \in Nat
    BY DelaysGrow
  <2>2. spent + 1 \in Nat
    BY <1>8
  <2> QED
    BY <1>8, <2>1, <2>2, DelaysGrow
<1>10. /\ shift + age <= Since(e)
       /\ Since(e) <= TimingTeeth + age + Delays(spent)
  BY <1>1 DEF EventInv, FiresInReach
<1>11. Since(e) \in Nat /\ shift \in Nat
  BY Whereabouts
<1>12. shift <= Since(e) /\ Since(e) <= TimingTeeth + Delays(spent + 1)
  <2> HIDE DEF shift, spent, age
  <2> QED
    BY <1>8, <1>9, <1>10, <1>11
<1>13. FiresInReach(e)'
  <2>1. /\ shift + sparkTimer'[e] <= Since(e)
        /\ Since(e) <= TimingTeeth + sparkTimer'[e] + Delays(spent + 1)
    <3> HIDE DEF shift, spent
    <3> QED
      BY <1>3, <1>9, <1>11, <1>12
  <2> QED
    BY <1>2, <1>5, <1>8, <2>1 DEF FiresInReach
<1>14. DwellsInReach(e)'
  <2>1. dwellTimer'[e] = IF dwellTimer[e] = Idle THEN 0 ELSE dwellTimer[e]
    BY <1>1 DEF Scheduled, Types, TimerTypes
  <2>2. CASE Dwelling(e)
    <3>1. Since(e) <= TimingTeeth + dwellTimer[e] + Delays(MaxSparks)
      BY <1>1, <2>2, FiringDwellInReach
    <3> QED
      BY <1>5, <2>1, <2>2, <3>1 DEF DwellsInReach, Dwelling
  <2>3. CASE ~Dwelling(e)
    <3>1. Since(e) <= TimingTeeth + dwellTimer'[e] + Delays(MaxSparks)
      <4>1. dwellTimer'[e] = 0
        BY <2>1, <2>3 DEF Dwelling
      <4> HIDE DEF spent
      <4> QED
        BY <1>8, <1>9, <1>11, <1>12, <4>1
    <3> QED
      BY <1>5, <3>1 DEF DwellsInReach
  <2> QED
    BY <2>2, <2>3
<1> QED
  BY <1>4, <1>7, <1>13, <1>14 DEF EventInv

(* The last spark gives the event the positions of its next cycle.         *)
LEMMA FireLastKeepsEvent ==
  ASSUME IInv, PinModeInv, DwellFits, NEW e \in Events, EventInv(e), FireSpark(e),
         ~(sparksRemaining[e] > 0)
  PROVE  /\ EventInv(e)'
         /\ Dwelling(e)' = Dwelling(e) /\ ~SparkToCome(e)'
<1> USE DEF IInv
<1>1. /\ Firing(e) /\ Prepare(e)
      /\ sparkTimer' = [sparkTimer EXCEPT ![e] = Idle]
      /\ UNCHANGED <<handlerVars, listVars, dwellTimer, sparksRemaining>>
  BY DEF FireSpark, Firing
<1>2. UNCHANGED <<tooth, pc, current, localTooth, queuedTooth, angleList>>
  BY <1>1 DEF handlerVars, listVars
<1>3. /\ sparkTimer'[e] = Idle /\ ~Firing(e)'
      /\ Dwelling(e)' = Dwelling(e)
  BY <1>1 DEF Firing, Dwelling, Types, TimerTypes
<1>4. /\ InLoop(e)' = InLoop(e) /\ Since(e)' = Since(e)
  BY <1>2 DEF InLoop, Since
<1>5. e \notin angleList /\ ~InLoop(e)
  BY <1>1, FiringIsElsewhere
<1>6. PICK p \in Positions(e) :
        /\ dwellTooth' = [dwellTooth EXCEPT ![e] = p[1]]
        /\ sparkTooth' = [sparkTooth EXCEPT ![e] = p[2]]
        /\ outputs' = [outputs EXCEPT ![e] = OutputsFor(e, spinningUp, pinMode)]
  BY <1>1 DEF Prepare
<1>7. dwellTooth'[e] = p[1] /\ sparkTooth'[e] = p[2]
  BY <1>6 DEF Types, ScheduleTypes
<1>8. outputs'[e] \subseteq CoilsOf(e)
  <2>1. outputs'[e] = OutputsFor(e, spinningUp, pinMode)
    BY <1>6 DEF Types, ScheduleTypes
  <2> QED
    BY <2>1, OutputsPossible DEF Types, EngineTypes, ModesAgree, PinModeInv
<1>9. Positioned(e)'
  <2>1. /\ Ahead(Share(e), sparkTooth'[e]) <= TimingTeeth
        /\ Ahead(dwellTooth'[e], sparkTooth'[e]) <= DwellTeeth
    BY <1>7, PositionsInReach
  <2> QED
    BY <1>8, <2>1 DEF Positioned, Span
<1>10. ListedOnce(e)' /\ LoopAtDwell(e)' /\ FiresInReach(e)' /\ FiredBeforeDwell(e)' /\ ListedAfterDwell(e)'
  BY <1>2, <1>3, <1>4, <1>5
     DEF ListedOnce, LoopAtDwell, FiresInReach, FiredBeforeDwell, ListedAfterDwell
<1>11. DwellsInReach(e)'
  <2>1. Dwelling(e) => Since(e) <= TimingTeeth + dwellTimer[e] + Delays(MaxSparks)
    BY <1>1, FiringDwellInReach
  <2> QED
    BY <1>1, <1>3, <1>4, <2>1 DEF DwellsInReach
<1>12. ~SparkToCome(e)'
  BY <1>2, <1>3, <1>5 DEF SparkToCome, InLoop, Firing
<1> QED
  BY <1>3, <1>9, <1>10, <1>11, <1>12 DEF EventInv

(* A tooth takes every event a tooth further.                              *)
LEMMA ToothKeepsEvent ==
  ASSUME Types, DwellFits, NEW e \in Events, EventInv(e), Tooth, UNCHANGED scheduleVars
  PROVE  /\ EventInv(e)'
         /\ rpm' = "valid" /\ Fresh(e) => Fresh(e)'
         /\ Dwelling(e)' <=> Dwelling(e)
         /\ SparkToCome(e)' <=> SparkToCome(e)
         /\ outputs' = outputs
<1>1. /\ pc = "idle" /\ tooth' = (tooth + 1) % NumTeeth
      /\ dwellTimer' = Aged(dwellTimer) /\ sparkTimer' = Aged(sparkTimer)
      /\ dwellTimer[e] < Late /\ sparkTimer[e] < Late
      /\ rpm' = "valid" => pc' = "list"
      /\ rpm' # "valid" => pc' = "idle" /\ disturbed' = disturbed \cup CoilsInUse
      /\ rpm' = "valid" => disturbed' = disturbed
      /\ UNCHANGED <<listVars, sparksRemaining>>
  BY DEF Tooth
<1>2. UNCHANGED <<outputs, dwellTooth, sparkTooth, queuedTooth, angleList>>
  BY <1>1 DEF scheduleVars, listVars
<1>3. /\ ~InLoop(e) /\ ~InLoop(e)'
      /\ NotReached(e)' <=> pc' = "list"
  BY <1>1 DEF InLoop, NotReached
<1>4. /\ dwellTimer'[e] = IF dwellTimer[e] = Idle THEN Idle ELSE dwellTimer[e] + 1
      /\ sparkTimer'[e] = IF sparkTimer[e] = Idle THEN Idle ELSE sparkTimer[e] + 1
      /\ dwellTimer[e] \in {Idle} \cup 0 .. Late /\ sparkTimer[e] \in {Idle} \cup 0 .. Late
      /\ Late \in Nat
  BY <1>1, DelaysGrow DEF Aged, Types, TimerTypes
<1>5. /\ Dwelling(e) => dwellTimer[e] \in Nat /\ dwellTimer[e] + 1 <= Late /\ dwellTimer'[e] = dwellTimer[e] + 1
      /\ Firing(e) => sparkTimer[e] \in Nat /\ sparkTimer[e] + 1 <= Late /\ sparkTimer'[e] = sparkTimer[e] + 1
      /\ Dwelling(e)' <=> Dwelling(e)
      /\ Firing(e)' <=> Firing(e)
  BY <1>1, <1>4 DEF Dwelling, Firing, Idle
<1> DEFINE shift == Ahead(Share(e), sparkTooth[e])
<1>6. /\ tooth \in Teeth /\ sparkTooth[e] \in Teeth /\ dwellTooth[e] \in Teeth /\ Share(e) \in Teeth
  BY ShareIsTooth DEF Types, ScheduleTypes, HandlerTypes
<1>7. /\ tooth' \in Teeth
      /\ Since(e)' = IF Since(e) = NumTeeth - 1 THEN 0 ELSE Since(e) + 1
      /\ Left(e)' = IF Left(e) = 0 THEN NumTeeth - 1 ELSE Left(e) - 1
      /\ Span(e)' = Span(e)
  BY <1>1, <1>2, <1>6, AheadOfNext DEF Since, Left, Span
<1>8. /\ Since(e) \in Nat /\ Since(e) < NumTeeth
      /\ Left(e) \in Nat /\ Left(e) < NumTeeth
      /\ Span(e) \in Nat /\ Span(e) <= DwellTeeth
      /\ shift \in Nat /\ shift <= TimingTeeth
      /\ Left(e) = 0 <=> tooth = sparkTooth[e]
      /\ Firing(e) => Since(e) <= Reach
  BY Whereabouts
<1>9. /\ Left(e)' = Span(e) <=> tooth' = dwellTooth[e]
      /\ Since(e)' = IF Left(e)' <= shift THEN shift - Left(e)' ELSE NumTeeth + shift - Left(e)'
  <2>1. Since(e)' = Ahead(Share(e), tooth') /\ Left(e)' = Ahead(tooth', sparkTooth[e])
    BY <1>2 DEF Since, Left
  <2>2. Left(e)' = Span(e) <=> tooth' = dwellTooth[e]
    BY <1>6, <1>7, <2>1, AheadDiffers DEF Span
  <2>3. Ahead(Share(e), tooth') = IF Ahead(tooth', sparkTooth[e]) <= shift
                                  THEN shift - Ahead(tooth', sparkTooth[e])
                                  ELSE NumTeeth + shift - Ahead(tooth', sparkTooth[e])
    BY <1>6, <1>7, AheadOfThird
  <2> QED
    BY <2>1, <2>2, <2>3
<1>10. /\ Reach \in Nat /\ Reach = TimingTeeth + Delays(MaxSparks) + Late
       /\ DwellTeeth + Reach < NumTeeth /\ TimingTeeth <= Reach
       /\ TimingTeeth \in Nat /\ DwellTeeth \in Nat /\ NumTeeth \in Nat /\ MaxSparks \in Nat
       /\ Delays(MaxSparks) \in Nat
  <2>1. TimingTeeth \in Nat /\ DwellTeeth \in Nat /\ MaxSparks \in Nat /\ Delays(MaxSparks) \in Nat
    BY DelaysGrow
  <2> QED
    BY <2>1, ReachFits, Numbers
<1> DEFINE spent == MaxSparks - sparksRemaining[e]
<1>11. Delays(spent) \in Nat /\ Delays(spent) <= Delays(MaxSparks)
  <2>1. sparksRemaining[e] \in 0 .. MaxSparks
    BY DEF Types, TimerTypes
  <2>2. spent \in Nat /\ spent <= MaxSparks
    BY <1>10, <2>1
  <2> HIDE DEF spent
  <2> QED
    BY <1>10, <2>2, DelaysGrow
<1>12. FiresInReach(e)' /\ (Firing(e) => Since(e)' <= Reach /\ shift < Since(e)')
  <2>1. CASE ~Firing(e)
    BY <1>5, <2>1 DEF FiresInReach
  <2>2. CASE Firing(e)
    <3>1. /\ shift + sparkTimer[e] <= Since(e)
          /\ Since(e) <= TimingTeeth + sparkTimer[e] + Delays(spent)
      BY <2>2 DEF EventInv, FiresInReach
    <3>2. /\ Since(e)' = Since(e) + 1
          /\ shift + sparkTimer'[e] <= Since(e)'
          /\ Since(e)' <= TimingTeeth + sparkTimer'[e] + Delays(spent)
          /\ Since(e)' <= Reach /\ shift < Since(e)'
      <4> HIDE DEF shift, spent
      <4>1. Since(e)' = Since(e) + 1
        <5>1. sparkTimer[e] \in Nat /\ sparkTimer[e] + 1 <= Late /\ Late \in Nat
          BY <1>4, <1>5, <2>2
        <5>2. Since(e) \in Nat /\ Since(e) < Reach
          BY <1>8, <1>10, <1>11, <3>1, <5>1
        <5>3. Since(e) # NumTeeth - 1
          BY <1>10, <5>2
        <5> QED
          BY <1>7, <5>3
      <4> QED
        BY <1>4, <1>5, <1>8, <1>10, <1>11, <2>2, <3>1, <4>1
    <3> QED
      BY <1>1, <1>2, <3>2 DEF FiresInReach
  <2> QED
    BY <2>1, <2>2
<1>13. FiredBeforeDwell(e)'
  <2> SUFFICES ASSUME tooth' = dwellTooth[e], Firing(e) PROVE FALSE
    BY <1>2, <1>5 DEF FiredBeforeDwell
  <2>1. Left(e)' = Span(e)
    BY <1>9
  <2> HIDE DEF shift
  <2> QED
    BY <1>8, <1>9, <1>10, <1>12, <2>1
<1>14. ASSUME Waits(e), Left(e)' # 0 \/ pc' = "list"
       PROVE  Waits(e)'
  <2>1. Left(e) # 0 /\ Left(e) <= Span(e)
    BY <1>1, <1>14 DEF Waits
  <2>2. Left(e)' = Left(e) - 1 /\ Left(e)' < Span(e)
    BY <1>7, <1>8, <2>1
  <2>3. tooth' # dwellTooth[e]
    BY <1>8, <1>9, <2>2
  <2> QED
    BY <1>2, <1>7, <1>8, <1>14, <2>2, <2>3 DEF Waits
<1>15. rpm' = "valid" /\ Fresh(e) => Fresh(e)'
  BY <1>1, <1>3, <1>5, <1>14 DEF Fresh
<1>16. DwellsInReach(e)'
  <2> SUFFICES ASSUME Dwelling(e)
               PROVE  \/ Since(e)' <= TimingTeeth + dwellTimer'[e] + Delays(MaxSparks)
                      \/ NumTeeth - DwellTeeth <= Since(e)' /\ Fresh(e)'
    BY <1>5 DEF DwellsInReach
  <2>1. CASE Since(e) <= TimingTeeth + dwellTimer[e] + Delays(MaxSparks)
    <3>1. Since(e)' = Since(e) + 1
      <4>1. dwellTimer[e] \in Nat /\ dwellTimer[e] + 1 <= Late /\ Late \in Nat
        BY <1>4, <1>5
      <4>2. Since(e) \in Nat /\ Since(e) < Reach
        BY <1>8, <1>10, <2>1, <4>1
      <4>3. Since(e) # NumTeeth - 1
        BY <1>10, <4>2
      <4> QED
        BY <1>7, <4>3
    <3> QED
      BY <1>5, <1>8, <1>10, <2>1, <3>1
  <2>2. CASE NumTeeth - DwellTeeth <= Since(e) /\ Fresh(e)
    <3>1. CASE Since(e) = NumTeeth - 1
      <4>1. Since(e)' = 0
        BY <1>7, <3>1
      <4> QED
        BY <1>5, <1>10, <4>1
    <3>2. CASE Since(e) # NumTeeth - 1
      <4>1. Since(e)' = Since(e) + 1
        BY <1>7, <3>2
      <4>2. NumTeeth - DwellTeeth <= Since(e)'
        BY <1>8, <1>10, <2>2, <4>1
      <4>3. Left(e)' # 0
        <5> HIDE DEF shift
        <5> QED
          BY <1>8, <1>9, <1>10, <4>2
      <4>4. Fresh(e)'
        BY <1>3, <1>5, <1>14, <2>2, <4>3 DEF Fresh
      <4> QED
        BY <4>2, <4>4
    <3> QED
      BY <3>1, <3>2
  <2> QED
    BY <2>1, <2>2 DEF EventInv, DwellsInReach
<1>17. ListedAfterDwell(e)'
  <2>1. CASE rpm' = "valid"
    BY <1>1, <1>2, <1>5, <1>15, <2>1 DEF EventInv, ListedAfterDwell
  <2>2. CASE rpm' # "valid"
    <3>1. e \in angleList => outputs[e] \subseteq CoilsInUse
      BY DEF CoilsInUse, SparkToCome
    <3> QED
      BY <1>1, <1>2, <2>2, <3>1 DEF ListedAfterDwell
  <2> QED
    BY <2>1, <2>2
<1>18. Positioned(e)' /\ ListedOnce(e)' /\ LoopAtDwell(e)'
  BY <1>2, <1>3, <1>5, <1>7 DEF EventInv, Positioned, ListedOnce, LoopAtDwell
<1>19. SparkToCome(e)' <=> SparkToCome(e)
  BY <1>2, <1>3, <1>5 DEF SparkToCome, InLoop, Firing
<1> QED
  BY <1>2, <1>5, <1>12, <1>13, <1>15, <1>16, <1>17, <1>18, <1>19 DEF EventInv

-----------------------------------------------------------------------------
(* A charged coil has a spark to come: the steps.                          *)

(* A spark that comes before the next dwell is a spark to come.            *)
LEMMA FreshIsToCome ==
  /\ \A e \in Events : SparkToCome(e) <=> (Firing(e) \/ e \in angleList \/ InLoop(e))
  /\ \A e \in Events : Fresh(e) => SparkToCome(e)
BY DEF SparkToCome, Firing, InLoop, Fresh, Waits

(* An event past its share whose dwell is late is within reach of it.      *)
LEMMA LateDwellInReach ==
  ASSUME Types, DwellFits, NEW e \in Events, EventInv(e), Dwelling(e), ~Fresh(e)
  PROVE  Since(e) <= Reach
<1>1. Since(e) <= TimingTeeth + dwellTimer[e] + Delays(MaxSparks)
  BY DEF EventInv, DwellsInReach
<1>2. dwellTimer[e] \in {Idle} \cup 0 .. Late /\ dwellTimer[e] # Idle
  BY DEF Dwelling, Types, TimerTypes
<1>3. Late \in Nat /\ MaxSparks \in Nat /\ TimingTeeth \in Nat
  BY DelaysGrow
<1>4. Delays(MaxSparks) \in Nat
  BY <1>3, DelaysGrow
<1>5. Reach = TimingTeeth + Delays(MaxSparks) + Late
  BY ReachFits
<1>6. Since(e) \in Nat
  BY Whereabouts
<1>7. dwellTimer[e] \in Nat /\ dwellTimer[e] <= Late
  BY <1>2, <1>3
<1> QED
  BY <1>1, <1>3, <1>4, <1>5, <1>6, <1>7

(* While an event is within reach of its share, a dwell of another event   *)
(* on the same coil is that of a spark ahead.                              *)
LEMMA OtherDwellIsFresh ==
  ASSUME Types, DwellFits, SparksApart, NEW e \in Events, NEW f \in Events, e # f,
         EventInv(e), EventInv(f), NEW c \in outputs[e], c \in outputs[f],
         Since(f) <= Reach, Dwelling(e)
  PROVE  Fresh(e)
<1> SUFFICES ASSUME ~Fresh(e) PROVE FALSE
  OBVIOUS
<1>1. Since(e) <= Reach
  BY LateDwellInReach
<1>2. CoilsOf(e) \cap CoilsOf(f) # {}
  BY DEF EventInv, Positioned
<1>3. tooth \in Teeth
  BY DEF Types, HandlerTypes
<1>4. Reach < Since(f)
  BY <1>1, <1>2, <1>3, NotBothInReach DEF Since
<1>5. Since(f) \in Nat /\ Reach \in Nat
  BY Whereabouts, ReachFits
<1> QED
  BY <1>4, <1>5

(* A coil stays covered as long as the events that cover it do.            *)
LEMMA CoveredStays ==
  ASSUME NEW c, Covered(c),
         \A e \in Events : c \in outputs[e] /\ ~Dwelling(e) /\ Fresh(e) =>
                             c \in outputs'[e] /\ ~Dwelling(e)' /\ Fresh(e)'
  PROVE  Covered(c)'
BY DEF Covered

(* A step that neither charges nor fires.                                  *)
LEMMA QuietStepKeepsCoils ==
  ASSUME ChargedIsCovered, LateDwellHarmless,
         outputs' = outputs, high' = high, outOfOrder' = outOfOrder, disturbed \subseteq disturbed',
         \A e \in Events : Dwelling(e)' /\ ~SparkToCome(e)' =>
            /\ Dwelling(e) /\ ~SparkToCome(e)
            /\ \A c \in outputs[e] : fallOf[c] = e => fallOf'[c] = e,
         \A e \in Events : ~Dwelling(e) /\ Fresh(e) =>
            (~Dwelling(e)' /\ Fresh(e)') \/ outputs[e] \subseteq disturbed'
  PROVE  ChargedIsCovered' /\ LateDwellHarmless'
<1>1. ASSUME NEW c, c \notin disturbed', Covered(c) PROVE Covered(c)'
  BY <1>1, CoveredStays
<1>2. ChargedIsCovered'
  BY <1>1 DEF ChargedIsCovered
<1>3. LateDwellHarmless'
  <2> SUFFICES ASSUME NEW e \in Events, Dwelling(e)', ~SparkToCome(e)',
                      NEW c \in outputs'[e], c \notin disturbed'
               PROVE  (c \in outOfOrder' /\ fallOf'[c] = e) \/ Covered(c)'
    BY DEF LateDwellHarmless
  <2>1. (c \in outOfOrder /\ fallOf[c] = e) \/ Covered(c)
    BY DEF LateDwellHarmless
  <2> QED
    BY <1>1, <2>1
<1> QED
  BY <1>2, <1>3

(* A faster spin-up numbers the pins by its own mode.                      *)
LEMMA PinModeKept ==
  ASSUME PinModeInv, Next
  PROVE  PinModeInv'
<1>1. CASE Tooth
  <2> DEFINE up == spinningUp \/ (FasterSpinUp /\ rpm = "zero")
  <2>1. pinMode' = IF FasterSpinUp THEN ModeWhen(up) ELSE pinMode
    BY <1>1 DEF Tooth
  <2>2. ModeWhen(up) = ModeWhen(TRUE) \/ ModeWhen(up) = ModeWhen(FALSE)
    BY DEF ModeWhen
  <2>3. FasterSpinUp \in BOOLEAN
    BY IgnitionAssumption DEF IgnitionAssumption
  <2>4. FasterSpinUp => ModeWhen(TRUE) \in PinModes /\ ModeWhen(FALSE) \in PinModes
    BY <2>3 DEF PinModes
  <2> QED
    BY <2>1, <2>2, <2>4 DEF PinModeInv
<1>2. CASE Stall \/ Resynchronize
  BY <1>2 DEF Stall, Resynchronize, PinModeInv
<1>3. CASE Handler
  BY <1>3 DEF Handler, ScheduleListed, ListDone, SkipEvent, HandleDwell, HandleSpark, engineVars, PinModeInv
<1>4. ASSUME NEW e \in Events, Timer(e) PROVE PinModeInv'
  BY <1>4 DEF Timer, TurnSparkPinHigh, FireSpark, engineVars, PinModeInv
<1> QED
  BY <1>1, <1>2, <1>3, <1>4 DEF Next

(* A stall touches no timer and no coil.                                   *)
LEMMA StallKeepsRunning ==
  ASSUME Types, RunningInv, Stall
  PROVE  RunningInv'
<1>1. UNCHANGED <<handlerVars, scheduleVars, listVars, timerVars, coilVars>>
  BY DEF Stall
<1> QED
  BY <1>1 DEF handlerVars, scheduleVars, listVars, timerVars, coilVars, RunningInv, EventInv, Positioned,
         ListedOnce, LoopAtDwell, FiresInReach, FiredBeforeDwell, DwellsInReach, ListedAfterDwell,
         ChargedIsCovered, LateDwellHarmless, Covered, Fresh, Waits, Firing, Dwelling, InLoop, NotReached,
         Since, Span, Left, SparkToCome

(* A loss of synchronization finds no timer set, and disturbs the coils    *)
(* that are charged or whose spark waits in the list.                      *)
LEMMA ResynchronizeKeepsRunning ==
  ASSUME RunningInv, Resynchronize
  PROVE  RunningInv'
<1>1. /\ pc = "idle" /\ pc' = "idle"
      /\ \A e \in Events : dwellTimer[e] = Idle /\ sparkTimer[e] = Idle
      /\ disturbed' = disturbed \cup CoilsInUse
      /\ UNCHANGED <<high, scheduleVars, listVars, timerVars>>
  BY DEF Resynchronize
<1>2. /\ UNCHANGED <<outputs, dwellTooth, sparkTooth, queuedTooth, angleList>>
      /\ UNCHANGED <<dwellTimer, sparkTimer>>
  BY <1>1 DEF scheduleVars, listVars, timerVars
<1>3. ASSUME NEW e \in Events
      PROVE  ~Dwelling(e)' /\ ~Firing(e)' /\ ~InLoop(e)' /\ ~Firing(e)
  BY <1>1, <1>2 DEF Dwelling, Firing, InLoop
<1>4. ASSUME NEW e \in Events
      PROVE  EventInv(e)'
  <2>1. Positioned(e)'
    BY <1>2 DEF RunningInv, EventInv, Positioned, Span
  <2>2. ListedOnce(e)'
    BY <1>2, <1>3 DEF RunningInv, EventInv, ListedOnce
  <2>3. /\ LoopAtDwell(e)' /\ FiresInReach(e)' /\ FiredBeforeDwell(e)'
        /\ DwellsInReach(e)' /\ ListedAfterDwell(e)'
    BY <1>3 DEF LoopAtDwell, FiresInReach, FiredBeforeDwell, DwellsInReach, ListedAfterDwell
  <2> QED
    BY <2>1, <2>2, <2>3 DEF EventInv
<1>5. ChargedIsCovered'
  BY <1>1 DEF ChargedIsCovered, CoilsInUse
<1>6. LateDwellHarmless'
  BY <1>3 DEF LateDwellHarmless
<1> QED
  BY <1>4, <1>5, <1>6 DEF RunningInv

(* A tooth that counts passes the events on; an ignored one disturbs them. *)
LEMMA ToothKeepsRunning ==
  ASSUME Types, DwellFits, ~TunesTrigger, isReady, RunningInv, Tooth
  PROVE  RunningInv' /\ isReady'
<1>1. UNCHANGED scheduleVars
  <2>1. isReady = TRUE
    BY DEF Types, ScheduleTypes
  <2>2. PrepareIgnitionSchedule =>
          isReady' = (isReady /\ ~FALSE) /\ UNCHANGED <<outputs, dwellTooth, sparkTooth>>
    BY <2>1 DEF PrepareIgnitionSchedule
  <2>3. PrepareIgnitionSchedule => isReady' = TRUE /\ UNCHANGED <<outputs, dwellTooth, sparkTooth>>
    BY <2>1, <2>2
  <2> QED
    BY <2>1, <2>3 DEF Tooth, scheduleVars
<1>2. ASSUME NEW e \in Events
      PROVE  /\ EventInv(e)'
             /\ rpm' = "valid" /\ Fresh(e) => Fresh(e)'
             /\ Dwelling(e)' <=> Dwelling(e)
             /\ SparkToCome(e)' <=> SparkToCome(e)
             /\ outputs' = outputs
  BY <1>1, ToothKeepsEvent DEF RunningInv
<1>3. /\ high' = high /\ outOfOrder' = outOfOrder /\ fallOf' = fallOf
      /\ disturbed' = IF rpm' = "valid" THEN disturbed ELSE disturbed \cup CoilsInUse
  BY DEF Tooth
<1>4. ASSUME NEW e \in Events, ~Dwelling(e), Fresh(e)
      PROVE  (~Dwelling(e)' /\ Fresh(e)') \/ outputs[e] \subseteq disturbed'
  <2>1. CASE rpm' = "valid"
    BY <1>2, <1>4, <2>1
  <2>2. CASE rpm' # "valid"
    <3>1. outputs[e] \subseteq CoilsInUse
      BY <1>4, FreshIsToCome DEF CoilsInUse
    <3> QED
      BY <1>3, <2>2, <3>1
  <2> QED
    BY <2>1, <2>2
<1>5. outputs' = outputs
  BY <1>1 DEF scheduleVars
<1>6. ChargedIsCovered' /\ LateDwellHarmless'
  BY <1>2, <1>3, <1>4, <1>5, QuietStepKeepsCoils DEF RunningInv
<1> QED
  BY <1>1, <1>2, <1>6 DEF RunningInv, scheduleVars

(* A spark moves from the list to its timer.                               *)
LEMMA ScheduleListedKeepsRunning ==
  ASSUME Types, DwellFits, RunningInv, NEW f \in Events, ScheduleListed(f)
  PROVE  RunningInv'
<1>1. /\ UNCHANGED <<handlerVars, scheduleVars, queuedTooth, dwellTimer, sparksRemaining, coilVars>>
      /\ angleList' = angleList \ {f}
      /\ sparkTimer' = Scheduled(sparkTimer, f)
  BY DEF ScheduleListed
<1>2. UNCHANGED <<tooth, pc, current, localTooth, outputs, dwellTooth, sparkTooth, high, outOfOrder, fallOf, disturbed>>
  BY <1>1 DEF handlerVars, scheduleVars, coilVars
<1>3. EventInv(f)' /\ Fresh(f)'
  BY ScheduleListedKeepsEvent DEF RunningInv
<1>4. ASSUME NEW e \in Events, e # f
      PROVE  EventInv(e)' /\ (Fresh(e) => Fresh(e)') /\ (SparkToCome(e) => SparkToCome(e)')
  <2>1. Alone(e)
    BY <1>1, <1>2, <1>4 DEF Alone, Scheduled, Types, TimerTypes
  <2>2. LoopPasses(e)
    BY <1>2 DEF LoopPasses, InLoop, NotReached
  <2>3. EventInv(e)' /\ (Fresh(e) => Fresh(e)')
    BY <1>2, <2>1, <2>2, AloneKeepsEvent, AloneKeepsFresh DEF RunningInv
  <2> QED
    BY <1>2, <2>1, <2>3 DEF SparkToCome, Alone
<1>5. \A e \in Events : EventInv(e)' /\ (Fresh(e) => Fresh(e)') /\ (SparkToCome(e) => SparkToCome(e)')
  <2>1. SparkToCome(f)'
    BY <1>3, FreshIsToCome DEF SparkToCome, Fresh, Firing, InLoop, Waits
  <2> QED
    BY <1>3, <1>4, <2>1
<1>6. \A e \in Events : Dwelling(e)' <=> Dwelling(e)
  BY <1>1 DEF Dwelling
<1>7. ChargedIsCovered' /\ LateDwellHarmless'
  BY <1>2, <1>5, <1>6, QuietStepKeepsCoils DEF RunningInv
<1> QED
  BY <1>5, <1>7 DEF RunningInv

(* The loops pass the events by.                                           *)
LEMMA PassingKeepsRunning ==
  ASSUME Types, DwellFits, RunningInv, ListDone \/ SkipEvent
  PROVE  RunningInv'
<1>1. UNCHANGED <<tooth, engineVars, scheduleVars, listVars, timerVars, coilVars>>
  BY DEF ListDone, SkipEvent
<1>2. UNCHANGED <<tooth, outputs, dwellTooth, sparkTooth, queuedTooth, angleList, dwellTimer, sparkTimer,
                  sparksRemaining, high, outOfOrder, fallOf, disturbed>>
  BY <1>1 DEF scheduleVars, listVars, timerVars, coilVars
<1>3. ASSUME NEW e \in Events
      PROVE  EventInv(e)' /\ (Fresh(e) => Fresh(e)') /\ (SparkToCome(e) => SparkToCome(e)')
  <2>1. Alone(e)
    BY <1>2 DEF Alone
  <2>2. LoopPasses(e) /\ ~InLoop(e)
    <3>1. CASE ListDone
      <4>1. pc = "list" /\ pc' \in {"events", "idle"} /\ (e \in angleList => queuedTooth[e] # tooth)
        BY <3>1 DEF ListDone
      <4> QED
        BY <4>1 DEF LoopPasses, InLoop, NotReached
    <3>2. CASE SkipEvent
      <4>1. pc = "events" /\ GoOn
        BY <3>2 DEF SkipEvent
      <4>2. ~InLoop(e)' /\ (NotReached(e)' => NotReached(e))
        BY <4>1, GoOnPasses
      <4> QED
        BY <4>1, <4>2 DEF LoopPasses, InLoop
    <3> QED
      BY <3>1, <3>2
  <2>3. EventInv(e)' /\ (Fresh(e) => Fresh(e)')
    BY <1>2, <2>1, <2>2, AloneKeepsEvent, AloneKeepsFresh DEF RunningInv
  <2> QED
    BY <1>2, <2>2, <2>3 DEF SparkToCome, InLoop
<1>4. \A e \in Events : Dwelling(e)' <=> Dwelling(e)
  BY <1>2 DEF Dwelling
<1>5. ChargedIsCovered' /\ LateDwellHarmless'
  BY <1>2, <1>3, <1>4, QuietStepKeepsCoils DEF RunningInv
<1> QED
  BY <1>3, <1>5 DEF RunningInv

(* A dwell begins when nothing of the event is to come.                    *)
LEMMA HandleDwellKeepsRunning ==
  ASSUME Types, DwellFits, RunningInv, HandleDwell
  PROVE  RunningInv'
<1>1. /\ pc = "events" /\ pc' = "spark" /\ current' = current /\ current \in Events
      /\ UNCHANGED <<tooth, engineVars, scheduleVars, listVars, sparkTimer, sparksRemaining,
                     high, outOfOrder, disturbed>>
      /\ dwellTimer' \in {dwellTimer, Scheduled(dwellTimer, current)}
      /\ fallOf' = [c \in Coils |-> IF fallOf[c] = current THEN NoEvent ELSE fallOf[c]]
  BY DEF HandleDwell, Types, HandlerTypes
<1>2. UNCHANGED <<outputs, dwellTooth, sparkTooth, queuedTooth, angleList>>
  BY <1>1 DEF scheduleVars, listVars
<1>3. ASSUME NEW e \in Events, e = current
      PROVE  EventInv(e)' /\ ~Fresh(e) /\ Fresh(e)'
  BY <1>3, HandleDwellKeepsEvent DEF RunningInv
<1>4. ASSUME NEW e \in Events, e # current
      PROVE  /\ EventInv(e)' /\ (Fresh(e) => Fresh(e)')
             /\ SparkToCome(e) => SparkToCome(e)'
             /\ Dwelling(e)' <=> Dwelling(e)
  <2>1. Alone(e)
    <3>1. dwellTimer'[e] = dwellTimer[e]
      BY <1>1, <1>4 DEF Scheduled, Types, TimerTypes
    <3> QED
      BY <1>1, <1>2, <3>1 DEF Alone
  <2>2. LoopPasses(e) /\ ~InLoop(e)
    <3>1. e \in Nat /\ current \in Nat
      BY <1>1, Numbers DEF Events
    <3> QED
      BY <1>1, <1>4, <3>1 DEF LoopPasses, InLoop, NotReached
  <2>3. EventInv(e)' /\ (Fresh(e) => Fresh(e)') /\ (Dwelling(e)' <=> Dwelling(e))
    BY <1>1, <2>1, <2>2, AloneKeepsEvent, AloneKeepsFresh DEF RunningInv
  <2> QED
    BY <1>1, <1>2, <2>2, <2>3 DEF SparkToCome, InLoop
<1>5. ASSUME NEW e \in Events, Dwelling(e)', ~SparkToCome(e)'
      PROVE  /\ Dwelling(e) /\ ~SparkToCome(e)
             /\ \A c \in outputs[e] : fallOf[c] = e => fallOf'[c] = e
  <2>1. e # current
    BY <1>1, <1>5 DEF SparkToCome
  <2>2. \A c \in outputs[e] : c \in Coils
    BY DEF Types, ScheduleTypes
  <2> QED
    BY <1>1, <1>4, <1>5, <2>1, <2>2
<1>6. ASSUME NEW e \in Events, ~Dwelling(e), Fresh(e) PROVE ~Dwelling(e)' /\ Fresh(e)'
  BY <1>3, <1>4, <1>6
<1>7. ChargedIsCovered' /\ LateDwellHarmless'
  BY <1>1, <1>2, <1>5, <1>6, QuietStepKeepsCoils DEF RunningInv
<1> QED
  BY <1>3, <1>4, <1>7 DEF RunningInv

(* Its spark is on the way when the loop goes on.                          *)
LEMMA HandleSparkKeepsRunning ==
  ASSUME Types, DwellFits, RunningInv, HandleSpark
  PROVE  RunningInv'
<1>1. /\ pc = "spark" /\ GoOn /\ current \in Events
      /\ UNCHANGED <<tooth, engineVars, scheduleVars, dwellTimer, coilVars>>
      /\ queuedTooth' = [queuedTooth EXCEPT ![current] = localTooth]
      /\ sparkTimer' \in {sparkTimer, Scheduled(sparkTimer, current)}
      /\ angleList' \in {angleList, angleList \cup {current}}
      /\ \E n : sparksRemaining' = [sparksRemaining EXCEPT ![current] = n]
  BY DEF HandleSpark, Types, HandlerTypes
<1>2. UNCHANGED <<outputs, dwellTooth, sparkTooth, high, outOfOrder, fallOf, disturbed>>
  BY <1>1 DEF scheduleVars, coilVars
<1>3. ASSUME NEW e \in Events, e = current
      PROVE  EventInv(e)' /\ Fresh(e)' /\ SparkToCome(e)'
  <2>1. EventInv(e)' /\ Fresh(e)'
    BY <1>3, HandleSparkKeepsEvent DEF RunningInv
  <2> QED
    BY <2>1 DEF SparkToCome, Fresh, Firing, InLoop, Waits
<1>4. ASSUME NEW e \in Events, e # current
      PROVE  /\ EventInv(e)' /\ (Fresh(e) => Fresh(e)')
             /\ SparkToCome(e) => SparkToCome(e)'
  <2>1. Alone(e)
    <3>1. /\ queuedTooth'[e] = queuedTooth[e] /\ sparkTimer'[e] = sparkTimer[e]
          /\ sparksRemaining'[e] = sparksRemaining[e] /\ (e \in angleList' <=> e \in angleList)
      BY <1>1, <1>4 DEF Scheduled, Types, TimerTypes, ListTypes
    <3> QED
      BY <1>1, <1>2, <3>1 DEF Alone
  <2>2. LoopPasses(e) /\ ~InLoop(e)
    <3>1. ~InLoop(e)' /\ (NotReached(e)' => NotReached(e))
      BY <1>1, GoOnPasses
    <3> QED
      BY <1>1, <1>4, <3>1 DEF LoopPasses, InLoop
  <2>3. EventInv(e)' /\ (Fresh(e) => Fresh(e)')
    BY <1>2, <2>1, <2>2, AloneKeepsEvent, AloneKeepsFresh DEF RunningInv
  <2> QED
    BY <2>1, <2>2, <2>3 DEF SparkToCome, InLoop, Alone
<1>5. \A e \in Events : Dwelling(e)' <=> Dwelling(e)
  BY <1>1 DEF Dwelling
<1>6. \A e \in Events : EventInv(e)' /\ (Fresh(e) => Fresh(e)') /\ (SparkToCome(e) => SparkToCome(e)')
  BY <1>3, <1>4
<1>7. ChargedIsCovered' /\ LateDwellHarmless'
  BY <1>2, <1>5, <1>6, QuietStepKeepsCoils DEF RunningInv
<1> QED
  BY <1>6, <1>7 DEF RunningInv

(* The charge: by a spark to come, or by a dwell that came too late for    *)
(* its own spark while another event is about to fire the coil.            *)
LEMMA TurnKeepsRunning ==
  ASSUME Types, DwellFits, SparksApart, RunningInv, NEW g \in Events, TurnSparkPinHigh(g)
  PROVE  RunningInv'
<1>1. /\ Dwelling(g)
      /\ dwellTimer' = [dwellTimer EXCEPT ![g] = Idle]
      /\ outOfOrder' = outOfOrder \ outputs[g]
      /\ high' = high \cup {c \in outputs[g] : ~(c \in outOfOrder /\ fallOf[c] = g)}
      /\ UNCHANGED <<handlerVars, scheduleVars, listVars, sparkTimer, sparksRemaining, fallOf, disturbed>>
  BY DEF TurnSparkPinHigh, Dwelling
<1>2. UNCHANGED <<tooth, pc, current, localTooth, outputs, dwellTooth, sparkTooth, queuedTooth, angleList>>
  BY <1>1 DEF handlerVars, scheduleVars, listVars
<1>3. EventInv(g)' /\ ~Dwelling(g)' /\ (Fresh(g) => Fresh(g)')
  BY TurnKeepsEvent DEF RunningInv
<1>4. ASSUME NEW e \in Events, e # g
      PROVE  EventInv(e)' /\ (Fresh(e) => Fresh(e)') /\ (Dwelling(e)' <=> Dwelling(e))
  <2>1. Alone(e)
    BY <1>1, <1>2, <1>4 DEF Alone, Types, TimerTypes
  <2>2. LoopPasses(e)
    BY <1>2 DEF LoopPasses, InLoop, NotReached
  <2> QED
    BY <1>1, <2>1, <2>2, AloneKeepsEvent, AloneKeepsFresh DEF RunningInv
<1>5. \A e \in Events : SparkToCome(e)' <=> SparkToCome(e)
  BY <1>1, <1>2 DEF SparkToCome
<1>6. ASSUME NEW c, Covered(c) PROVE Covered(c)'
  BY <1>1, <1>2, <1>4, <1>6, CoveredStays
<1>7. ASSUME NEW c \in outputs[g], Fresh(g) PROVE Covered(c)'
  BY <1>2, <1>3, <1>7 DEF Covered
<1>8. ASSUME NEW c \in high', c \notin disturbed PROVE Covered(c)'
  <2>1. CASE c \in high
    BY <1>6, <1>8, <2>1 DEF RunningInv, ChargedIsCovered
  <2>2. CASE c \in outputs[g] /\ ~(c \in outOfOrder /\ fallOf[c] = g)
    <3>1. CASE SparkToCome(g)
      <4>1. Fresh(g)
        <5>1. ListedAfterDwell(g)
          BY DEF RunningInv, EventInv
        <5>2. Firing(g) \/ g \in angleList \/ InLoop(g)
          BY <3>1, FreshIsToCome
        <5>3. g \in angleList => Fresh(g)
          BY <1>1, <1>8, <2>2, <5>1 DEF ListedAfterDwell
        <5> QED
          BY <5>2, <5>3 DEF Fresh
      <4> QED
        BY <1>7, <2>2, <4>1
    <3>2. CASE ~SparkToCome(g)
      <4>1. Covered(c)
        BY <1>1, <1>8, <2>2, <3>2 DEF RunningInv, LateDwellHarmless
      <4> QED
        BY <1>6, <4>1
    <3> QED
      BY <3>1, <3>2
  <2> QED
    BY <1>1, <1>8, <2>1, <2>2
<1>9. ChargedIsCovered'
  BY <1>1, <1>8 DEF ChargedIsCovered
<1>10. LateDwellHarmless'
  <2> SUFFICES ASSUME NEW e \in Events, Dwelling(e)', ~SparkToCome(e)',
                      NEW c \in outputs'[e], c \notin disturbed'
               PROVE  (c \in outOfOrder' /\ fallOf'[c] = e) \/ Covered(c)'
    BY DEF LateDwellHarmless
  <2>1. e # g /\ Dwelling(e) /\ ~SparkToCome(e) /\ c \in outputs[e] /\ c \notin disturbed
    BY <1>1, <1>2, <1>3, <1>4, <1>5
  <2>2. CASE Covered(c)
    BY <1>6, <2>2
  <2>3. CASE c \in outOfOrder /\ fallOf[c] = e /\ c \notin outputs[g]
    BY <1>1, <2>3
  <2>4. CASE c \in outputs[g]
    <3>1. ~Fresh(e)
      BY <2>1, FreshIsToCome
    <3>2. Since(e) <= Reach
      BY <2>1, <3>1, LateDwellInReach DEF RunningInv
    <3>3. Fresh(g)
      BY <1>1, <2>1, <2>4, <3>2, OtherDwellIsFresh DEF RunningInv
    <3> QED
      BY <1>7, <2>4, <3>3
  <2>5. (c \in outOfOrder /\ fallOf[c] = e) \/ Covered(c)
    BY <2>1 DEF RunningInv, LateDwellHarmless
  <2> QED
    BY <2>2, <2>3, <2>4, <2>5
<1> QED
  BY <1>3, <1>4, <1>9, <1>10 DEF RunningInv

(* The spark: the coils go low, and no other event counts on this one.     *)
LEMMA FireKeepsRunning ==
  ASSUME IInv, PinModeInv, DwellFits, SparksApart, RunningInv, NEW g \in Events, FireSpark(g)
  PROVE  RunningInv' /\ isReady' = isReady
<1> USE DEF IInv
<1>1. /\ Firing(g)
      /\ outOfOrder' = outOfOrder \cup (outputs[g] \ high)
      /\ fallOf' = [c \in Coils |-> IF c \in outputs[g] THEN g ELSE fallOf[c]]
      /\ high' = high \ outputs[g]
      /\ UNCHANGED <<handlerVars, engineVars, listVars>>
  BY DEF FireSpark, FireCoils, Firing
<1>2. UNCHANGED <<tooth, pc, current, localTooth, queuedTooth, angleList>>
  BY <1>1 DEF handlerVars, listVars
<1>3. /\ EventInv(g)'
      /\ \A e \in Events : e # g => outputs'[e] = outputs[e]
      /\ Dwelling(g)' /\ ~SparkToCome(g)' => Dwelling(g)
      /\ isReady' = isReady
  <2>1. CASE sparksRemaining[g] > 0
    <3>1. EventInv(g)' /\ Fresh(g)' /\ UNCHANGED scheduleVars
      BY <2>1, FireAgainKeepsEvent DEF RunningInv, FireSpark, FireAgain
    <3>2. SparkToCome(g)'
      BY <3>1 DEF SparkToCome, Fresh, Firing, InLoop, Waits
    <3> QED
      BY <3>1, <3>2 DEF scheduleVars
  <2>2. CASE ~(sparksRemaining[g] > 0)
    <3>1. EventInv(g)' /\ Dwelling(g)' = Dwelling(g)
      BY <2>2, FireLastKeepsEvent DEF RunningInv
    <3> QED
      BY <2>2, <3>1 DEF FireSpark, Prepare, Types, ScheduleTypes
  <2> QED
    BY <2>1, <2>2
<1>4. disturbed' = IF ~Dwelling(g) THEN disturbed \ outputs[g]
                   ELSE IF outputs'[g] # outputs[g] THEN disturbed \cup outputs'[g]
                   ELSE disturbed
  BY DEF FireSpark, RememberDisturbance, Dwelling
<1>5. Since(g) <= Reach
  BY <1>1, Whereabouts DEF RunningInv
<1>6. ASSUME NEW e \in Events, e # g, NEW c \in outputs[e], c \in outputs[g], Dwelling(e)
      PROVE  Fresh(e)
  BY <1>5, <1>6, OtherDwellIsFresh DEF RunningInv
<1>7. ASSUME NEW e \in Events, e # g
      PROVE  /\ EventInv(e)' /\ (Fresh(e) => Fresh(e)') /\ (Dwelling(e)' <=> Dwelling(e))
             /\ SparkToCome(e)' <=> SparkToCome(e)
  <2>1. /\ dwellTooth'[e] = dwellTooth[e] /\ sparkTooth'[e] = sparkTooth[e]
        /\ dwellTimer'[e] = dwellTimer[e] /\ sparkTimer'[e] = sparkTimer[e]
        /\ sparksRemaining'[e] = sparksRemaining[e]
    <3>1. CASE sparksRemaining[g] > 0
      BY <1>7, <3>1 DEF FireSpark, FireAgain, Scheduled, scheduleVars, Types, TimerTypes
    <3>2. CASE ~(sparksRemaining[g] > 0)
      BY <1>7, <3>2 DEF FireSpark, Prepare, Types, TimerTypes, ScheduleTypes
    <3> QED
      BY <3>1, <3>2
  <2>2. Alone(e)
    BY <1>2, <1>3, <1>7, <2>1 DEF Alone
  <2>3. LoopPasses(e)
    BY <1>2 DEF LoopPasses, InLoop, NotReached
  <2>4. Dwelling(e) => Fresh(e) \/ outputs[e] \subseteq disturbed' \/ ~(outputs[e] \subseteq disturbed)
    BY <1>4, <1>6, <1>7
  <2>5. SparkToCome(e)' <=> SparkToCome(e)
    BY <1>2, <2>1 DEF SparkToCome
  <2> QED
    BY <2>2, <2>3, <2>4, <2>5, AloneKeepsEvent, AloneKeepsFresh DEF RunningInv
<1>8. ASSUME NEW c, Covered(c), c \notin outputs[g] \/ Dwelling(g) PROVE Covered(c)'
  <2>1. PICK e \in Events : c \in outputs[e] /\ ~Dwelling(e) /\ Fresh(e)
    BY <1>8 DEF Covered
  <2>2. e # g
    BY <1>8, <2>1
  <2> QED
    BY <1>3, <1>7, <2>1, <2>2 DEF Covered
<1>9. ChargedIsCovered'
  <2> SUFFICES ASSUME NEW c \in high', c \notin disturbed' PROVE Covered(c)'
    BY DEF ChargedIsCovered
  <2>1. c \in high /\ c \notin outputs[g] /\ c \notin disturbed
    BY <1>1, <1>4
  <2> QED
    BY <1>8, <2>1 DEF RunningInv, ChargedIsCovered
<1>10. LateDwellHarmless'
  <2> SUFFICES ASSUME NEW e \in Events, Dwelling(e)', ~SparkToCome(e)',
                      NEW c \in outputs'[e], c \notin disturbed'
               PROVE  (c \in outOfOrder' /\ fallOf'[c] = e) \/ Covered(c)'
    BY DEF LateDwellHarmless
  <2>2. CASE e # g
    <3>1. Dwelling(e) /\ ~SparkToCome(e) /\ c \in outputs[e] /\ c \in Coils
      BY <1>3, <1>7, <2>2 DEF Types, ScheduleTypes
    <3>2. c \notin outputs[g]
      BY <1>6, <2>2, <3>1, FreshIsToCome
    <3>3. c \notin disturbed
      BY <1>4, <3>2
    <3>4. (c \in outOfOrder /\ fallOf[c] = e) \/ Covered(c)
      BY <3>1, <3>3 DEF RunningInv, LateDwellHarmless
    <3>5. c \in outOfOrder => c \in outOfOrder' /\ fallOf'[c] = fallOf[c]
      BY <1>1, <3>1, <3>2
    <3> QED
      BY <1>8, <3>2, <3>4, <3>5
  <2>3. CASE e = g
    <3>1. /\ Dwelling(g) /\ c \notin disturbed
          /\ outputs'[g] = outputs[g] /\ c \in outputs[g] /\ c \in Coils
      BY <1>3, <1>4, <2>3 DEF Types, ScheduleTypes
    <3>2. CASE c \in high
      BY <1>8, <3>1, <3>2 DEF RunningInv, ChargedIsCovered
    <3>3. CASE c \notin high
      BY <1>1, <2>3, <3>1, <3>3
    <3> QED
      BY <3>2, <3>3
  <2> QED
    BY <2>2, <2>3
<1> QED
  BY <1>3, <1>7, <1>9, <1>10 DEF RunningInv

(* The first schedule.                                                     *)
LEMMA UnusedBecomesRunning ==
  ASSUME IInv', PinModeInv', DwellFits, ~isReady, Unused, Tooth, rpm' = "valid"
  PROVE  isReady' /\ RunningInv'
<1>1. /\ InitializeIgnitionActions(spinningUp', pinMode')
      /\ dwellTimer' = Aged(dwellTimer) /\ sparkTimer' = Aged(sparkTimer)
      /\ pc' = "list" /\ UNCHANGED <<listVars, high>>
  BY DEF Tooth, PrepareIgnitionSchedule
<1>2. /\ angleList' = {} /\ high' = {}
      /\ \A e \in Events : ~Dwelling(e)' /\ ~Firing(e)'
  BY <1>1 DEF Unused, listVars, Dwelling, Firing, Aged
<1>3. PICK p \in {f \in [Events -> Teeth \X Teeth] : \A e \in Events : f[e] \in Positions(e)} :
        /\ dwellTooth' = [e \in Events |-> p[e][1]]
        /\ sparkTooth' = [e \in Events |-> p[e][2]]
  BY <1>1 DEF InitializeIgnitionActions
<1>4. isReady' /\ outputs' = [e \in Events |-> OutputsFor(e, spinningUp', pinMode')]
  BY <1>1 DEF InitializeIgnitionActions
<1>5. ASSUME NEW e \in Events PROVE EventInv(e)'
  <2>1. p[e] \in Positions(e) /\ dwellTooth'[e] = p[e][1] /\ sparkTooth'[e] = p[e][2]
    BY <1>3
  <2>2. /\ Ahead(Share(e), sparkTooth'[e]) <= TimingTeeth
        /\ Ahead(dwellTooth'[e], sparkTooth'[e]) <= DwellTeeth
    BY <2>1, PositionsInReach
  <2>3. outputs'[e] \subseteq CoilsOf(e)
    <3>1. OutputsFor(e, spinningUp', pinMode') \subseteq CoilsOf(e)
      BY OutputsPossible DEF IInv, Types, EngineTypes, ModesAgree, PinModeInv
    <3> QED
      BY <1>4, <3>1
  <2>4. Positioned(e)'
    BY <2>2, <2>3 DEF Positioned, Span
  <2>5. /\ ListedOnce(e)' /\ LoopAtDwell(e)' /\ FiresInReach(e)' /\ FiredBeforeDwell(e)'
        /\ DwellsInReach(e)' /\ ListedAfterDwell(e)'
    BY <1>1, <1>2 DEF ListedOnce, LoopAtDwell, InLoop, FiresInReach, FiredBeforeDwell, DwellsInReach,
                      ListedAfterDwell
  <2> QED
    BY <2>4, <2>5 DEF EventInv
<1>6. ChargedIsCovered' /\ LateDwellHarmless'
  BY <1>2 DEF ChargedIsCovered, LateDwellHarmless
<1> QED
  BY <1>4, <1>5, <1>6 DEF RunningInv

(* Until then only teeth that do not count, and stalls.                    *)
LEMMA UnusedStays ==
  ASSUME Types, Unused, ~isReady, Next, ~(Tooth /\ rpm' = "valid")
  PROVE  Unused' /\ isReady' = isReady
<1>1. CASE Stall
  BY <1>1 DEF Stall, Unused, handlerVars, listVars, timerVars, coilVars, scheduleVars, Dwelling, Firing
<1>2. CASE Tooth /\ rpm' # "valid"
  <2>1. /\ pc' = "idle" /\ UNCHANGED <<listVars, high>>
        /\ dwellTimer' = Aged(dwellTimer) /\ sparkTimer' = Aged(sparkTimer)
    BY <1>2 DEF Tooth, Unused
  <2>2. isReady' = isReady
    <3>1. isReady = FALSE
      BY DEF Types, ScheduleTypes
    <3>2. PrepareIgnitionSchedule => \E changed : isReady' = (isReady /\ ~changed)
      BY <1>2 DEF PrepareIgnitionSchedule
    <3>3. PrepareIgnitionSchedule => isReady' = FALSE
      BY <3>1, <3>2
    <3> QED
      BY <1>2, <3>1, <3>3 DEF Tooth, scheduleVars
  <2> QED
    BY <2>1, <2>2 DEF Unused, listVars, Dwelling, Firing, Aged
<1>3. CASE Handler
  BY <1>3 DEF Handler, ScheduleListed, ListDone, SkipEvent, HandleDwell, HandleSpark, Unused
<1>4. ASSUME NEW e \in Events, Timer(e) PROVE FALSE
  BY <1>4 DEF Timer, TurnSparkPinHigh, FireSpark, Unused, Dwelling, Firing
<1>5. CASE Resynchronize
  BY <1>5 DEF Resynchronize, Unused, listVars, timerVars, scheduleVars, Dwelling, Firing
<1> QED
  BY <1>1, <1>2, <1>3, <1>4, <1>5 DEF Next

(* At first there is no schedule.                                          *)
LEMMA InitSparkInv == Init => SparkInv
<1> SUFFICES ASSUME Init PROVE SparkInv
  OBVIOUS
<1>1. IInv
  BY InitIInv
<1>2. PinModeInv
  BY DEF Init, PinModeInv, PinModes, ModeWhen
<1>3. ~isReady /\ Unused
  BY DEF Init, Unused, Dwelling, Firing
<1> QED
  BY <1>1, <1>2, <1>3 DEF SparkInv

(* Every step keeps the invariant.                                         *)
LEMMA NextKeepsSparkInv ==
  ASSUME ~TunesTrigger, DwellFits, SparksApart, SparkInv, [Next]_vars
  PROVE  SparkInv'
<1> USE DEF SparkInv
<1>1. CASE UNCHANGED vars
  <2>1. IInv'
    BY <1>1, NextKeepsIInv
  <2>2. /\ UNCHANGED <<handlerVars, engineVars, scheduleVars, listVars, timerVars, coilVars>>
    BY <1>1 DEF vars
  <2>3. PinModeInv' /\ isReady' = isReady
    BY <2>2 DEF engineVars, scheduleVars, PinModeInv
  <2>4. RunningInv => RunningInv'
    <3>1. /\ UNCHANGED <<tooth, pc, current, localTooth, outputs, dwellTooth, sparkTooth, queuedTooth, angleList>>
          /\ UNCHANGED <<dwellTimer, sparkTimer, sparksRemaining, high, outOfOrder, fallOf, disturbed>>
      BY <2>2 DEF handlerVars, scheduleVars, listVars, timerVars, coilVars
    <3>2. ASSUME NEW e \in Events
          PROVE  /\ Dwelling(e)' = Dwelling(e) /\ Firing(e)' = Firing(e) /\ InLoop(e)' = InLoop(e)
                 /\ NotReached(e)' = NotReached(e) /\ SparkToCome(e)' = SparkToCome(e)
                 /\ Since(e)' = Since(e) /\ Span(e)' = Span(e) /\ Left(e)' = Left(e)
      BY <3>1 DEF Dwelling, Firing, InLoop, NotReached, SparkToCome, Since, Span, Left
    <3>3. ASSUME NEW e \in Events
          PROVE  Fresh(e)' = Fresh(e)
      BY <3>1, <3>2 DEF Fresh, Waits
    <3>4. ASSUME NEW e \in Events
          PROVE  EventInv(e)' = EventInv(e)
      BY <3>1, <3>2, <3>3 DEF EventInv, Positioned, ListedOnce, LoopAtDwell, FiresInReach,
         FiredBeforeDwell, DwellsInReach, ListedAfterDwell
    <3>5. \A c : Covered(c)' = Covered(c)
      BY <3>1, <3>2, <3>3 DEF Covered
    <3> QED
      BY <3>1, <3>2, <3>4, <3>5 DEF RunningInv, ChargedIsCovered, LateDwellHarmless
  <2>5. Unused => Unused'
    BY <2>2 DEF handlerVars, listVars, timerVars, coilVars, Unused, Dwelling, Firing
  <2> QED
    BY <2>1, <2>3, <2>4, <2>5
<1>2. CASE Next
  <2>1. IInv' /\ PinModeInv' /\ Types
    BY <1>2, NextKeepsIInv, PinModeKept DEF IInv
  <2>2. CASE ~isReady /\ Tooth /\ rpm' = "valid"
    BY <2>1, <2>2, UnusedBecomesRunning
  <2>3. CASE ~isReady /\ ~(Tooth /\ rpm' = "valid")
    BY <1>2, <2>1, <2>3, UnusedStays
  <2>4. CASE isReady
    <3>1. CASE Stall
      BY <2>1, <2>4, <3>1, StallKeepsRunning DEF Stall, scheduleVars
    <3>2. CASE Tooth
      BY <2>1, <2>4, <3>2, ToothKeepsRunning
    <3>3. CASE Handler
      <4>1. isReady' = isReady
        BY <3>3 DEF Handler, ScheduleListed, ListDone, SkipEvent, HandleDwell, HandleSpark, scheduleVars
      <4>2. RunningInv'
        BY <2>1, <2>4, <3>3, ScheduleListedKeepsRunning, PassingKeepsRunning,
           HandleDwellKeepsRunning, HandleSparkKeepsRunning DEF Handler
      <4> QED
        BY <2>1, <2>4, <4>1, <4>2
    <3>4. ASSUME NEW e \in Events, Timer(e) PROVE SparkInv'
      <4>1. CASE TurnSparkPinHigh(e)
        BY <2>1, <2>4, <4>1, TurnKeepsRunning DEF TurnSparkPinHigh, scheduleVars
      <4>2. CASE FireSpark(e)
        BY <2>1, <2>4, <4>2, FireKeepsRunning
      <4> QED
        BY <3>4, <4>1, <4>2 DEF Timer
    <3>5. CASE Resynchronize
      BY <2>1, <2>4, <3>5, ResynchronizeKeepsRunning DEF Resynchronize, scheduleVars
    <3> QED
      BY <1>2, <3>1, <3>2, <3>3, <3>4, <3>5 DEF Next
  <2> QED
    BY <2>2, <2>3, <2>4
<1> QED
  BY <1>1, <1>2

(* The low of a spark never leaves its coil charged behind: for any number *)
(* of cylinders, any sharing of coils and any length of a multispark       *)
(* series, a charged coil has a spark to come, unless a tooth was ignored  *)
(* while it was in use.  The dwell may come after its spark, the list may  *)
(* be late, the rpm may be lost, a faster spin-up may change the mode.     *)
(* What it takes is that the sparks of an event, however late, end before  *)
(* those of another event on the same coil may begin and before its own    *)
(* next dwell, and that no change of the trigger's settings rebuilds the   *)
(* positions of events under way.                                          *)
THEOREM ChargedAlwaysHasSpark ==
  ASSUME ~TunesTrigger, DwellFits, SparksApart
  PROVE  Spec => []ChargedHasSpark
<1>1. Init => SparkInv
  BY InitSparkInv
<1>2. SparkInv /\ [Next]_vars => SparkInv'
  BY NextKeepsSparkInv
<1>3. SparkInv => ChargedHasSpark
  <2> SUFFICES ASSUME SparkInv, NEW c \in high \ disturbed
               PROVE  \E e \in Events : c \in outputs[e] /\ SparkToCome(e)
    BY DEF ChargedHasSpark
  <2>1. CASE isReady
    <3>1. Covered(c)
      BY <2>1 DEF SparkInv, RunningInv, ChargedIsCovered
    <3> QED
      BY <3>1, FreshIsToCome DEF Covered
  <2>2. CASE ~isReady
    BY <2>2 DEF SparkInv, Unused
  <2> QED
    BY <2>1, <2>2
<1> QED
  BY <1>1, <1>2, <1>3, PTL DEF Spec
=============================================================================
