------------------------- MODULE TriggerRecoveryProofs -------------------------
(***************************************************************************)
(* The phase and the rpm recover from every disturbance, on every wheel    *)
(* with one missing tooth, at every speed that the rpm calculator does not *)
(* take for a standstill or for noise.                                     *)
(***************************************************************************)
EXTENDS TriggerCentralProofs

(* A cycle is shorter than NO_RPM_EVENTS_TIMEOUT_SECS and longer than one  *)
(* at UNREALISTIC_RPM, and the slow callback stops the engine in less than *)
(* a revolution.                                                           *)
FastEnough ==
  Cycle < RpmTimeout /\ Unrealistic < Cycle /\ Preemptions < Revolution - 1

(* The counter and the shaft are in the same revolution of the cycle.      *)
InPhase == revolution = IF slot < Revolution THEN 1 ELSE 0

(* The time since the middle of the cycle, where a counter that is in      *)
(* phase has its first tooth.                                              *)
SinceMiddle == IF slot < Revolution THEN slot + Revolution ELSE slot - Revolution

(* Between two callbacks an engine that spins up fast counts as spinning   *)
(* unless it is stopped.                                                   *)
SpinsUnlessStopped ==
  FasterSpinUp /\ slowPc = "idle" => isSpinning \/ state = "STOPPED"

(* A slow callback that is stopping the engine found no first tooth for    *)
(* too long, or has begun before the first one or before the wheel was     *)
(* undisturbed.                                                            *)
StopIsRecent ==
  clean >= 1 /\ slowPc # "idle" =>
    \/ sinceRpm = RpmTimeout
    \/ sinceRpm <= preempted
    \/ clean = 1 /\ Position(slot) <= preempted

(* A counter that is out of phase has its first tooth where the cycle      *)
(* starts, so the rpm is known after the second of them, and the next cam  *)
(* signal brings the counter into phase.                                   *)
OutOfPhase ==
  clean >= 2 /\ ~InPhase =>
    /\ clean <= 5 /\ (clean = 5 => slot < Revolution)
    /\ (clean = 2 /\ slot >= Revolution) \/ sinceRpm = slot
    /\ clean >= 4 /\ slot < Revolution => slot = 0 /\ degree # "NAN" /\ slowPc = "idle"

(* From the next middle of the cycle on all first teeth are in phase ...   *)
FirstToothInPhase ==
  clean >= 6 \/ (clean = 5 /\ slot >= Revolution) => InPhase /\ sinceRpm = SinceMiddle

(* ... and with the second of them the rpm is measured over a cycle.       *)
RpmIsMeasured ==
  clean >= 8 \/ (clean = 7 /\ slot >= Revolution) =>
    rpm = "right" /\ degree = "known" /\ state = "RUNNING" /\ slowPc = "idle"

RecoveryInv ==
  /\ TypesByPart /\ DecoderInv
  /\ SpinsUnlessStopped /\ StopIsRecent
  /\ OutOfPhase /\ FirstToothInPhase /\ RpmIsMeasured

LEMMA ConstantsOfCycle ==
  /\ Revolution \in Nat /\ Revolution >= 6 /\ Cycle = 2 * Revolution
  /\ RpmTimeout \in Nat /\ Preemptions \in Nat /\ MaxClean \in Nat
  /\ Second \in Nat /\ Second > 4 /\ Unrealistic \in Nat
  /\ CamSlot = 1
  BY TriggerAssumption DEF TriggerAssumption, Revolution, Cycle, RpmTimeout, CamSlot

-----------------------------------------------------------------------------
(* What an edge does to the rpm. *)

(* setSpinningUp leaves the rpm alone, and the state of a running engine.  *)
LEMMA SpinningUpKeepsRpm ==
  ASSUME NEW r \in RpmRecords
  PROVE  /\ SetSpinningUp(r).rpm = r.rpm /\ SetSpinningUp(r).degree = r.degree
         /\ r.state = "RUNNING" => SetSpinningUp(r) = r
         /\ FasterSpinUp /\ (r.isSpinning \/ r.state = "STOPPED")
              => SetSpinningUp(r).isSpinning
  BY DEF SetSpinningUp, RpmRecords

(* assignRpmValue and setRpmValue leave isSpinning alone.                  *)
LEMMA AssignmentsKeepSpinning ==
  ASSUME NEW r \in RpmRecords, NEW value, NEW running
  PROVE  /\ Assign(r, value).isSpinning = r.isSpinning
         /\ SetRpmValue(r, value, running).isSpinning = r.isSpinning
  BY DEF SetRpmValue, Assign, RpmRecords

(* A cycle at the speed of the shaft gives its rpm, to an engine that runs.*)
LEMMA CycleIsMeasured ==
  ASSUME FastEnough, NEW r \in RpmRecords
  PROVE  /\ AtFirstTooth(r, Cycle).rpm = "right"
         /\ AtFirstTooth(r, Cycle).degree = "known"
         /\ AtFirstTooth(r, Cycle).state = "RUNNING"
  <1>1. Measured(Cycle) = "right"
    BY ConstantsOfCycle DEF FastEnough, Measured
  <1>2. Cycle <= Cycle /\ Cycle < RpmTimeout
    BY ConstantsOfCycle DEF FastEnough
  <1>3. AtFirstTooth(r, Cycle) = SetRpmValue(r, "right", Cycle <= Cycle)
    BY <1>1, <1>2, Zenon DEF AtFirstTooth
  <1>4. SetRpmValue(r, "right", Cycle <= Cycle)
          = [Assign(r, "right") EXCEPT !.state = "RUNNING"]
    BY <1>2 DEF SetRpmValue
  <1>5. Assign(r, "right") = [r EXCEPT !.rpm = "right", !.degree = "known"]
    BY DEF Assign
  <1> QED BY <1>3, <1>4, <1>5 DEF RpmRecords

LEMMA RpmIsRecord == RpmTypes => Rpm \in RpmRecords
  BY DEF RpmTypes, RpmRecords, Rpm

(* The first tooth of a cycle.                                             *)
LEMMA FirstTooth ==
  ASSUME RpmTypes, NotifyListeners, ~Silence, synced', ValidIndex, ListenersIndex = 0
  PROVE  /\ sinceRpm' = 0
         /\ FastEnough /\ sinceRpm = Cycle - 1
              => rpm' = "right" /\ degree' = "known" /\ state' = "RUNNING"
  <1> DEFINE time == Lesser(sinceRpm + 1, RpmTimeout)
             decoded == SetSpinningUp(Rpm)
  <1>1. PICK r \in AfterRpmCallback(decoded, time) :
          /\ rpm' = r.rpm /\ degree' = r.degree /\ state' = r.state
          /\ sinceRpm' = 0
    BY Zenon DEF NotifyListeners
  <1>2. decoded \in RpmRecords
    BY RpmIsRecord, SetSpinningUpKeepsRecord
  <1>3. ASSUME FastEnough, sinceRpm = Cycle - 1
        PROVE  rpm' = "right" /\ degree' = "known" /\ state' = "RUNNING"
    <2>1. time = Cycle
      BY <1>3, ConstantsOfCycle DEF Lesser, FastEnough
    <2> DEFINE first == AtFirstTooth(decoded, Cycle)
    <2>2. first.rpm = "right" /\ first.degree = "known" /\ first.state = "RUNNING"
      BY <1>2, <1>3, CycleIsMeasured
    <2>3. AfterRpmCallback(decoded, time)
            = IF first.state = "SPINNING_UP"
              THEN {Assign(first, value) : value \in {"zero", "noisy", "instant"}}
              ELSE {first}
      BY <2>1, Zenon DEF AfterRpmCallback
    <2> HIDE DEF time, first, decoded
    <2>4. AfterRpmCallback(decoded, time) = {first}
      BY <2>2, <2>3
    <2> QED BY <1>1, <2>2, <2>4
  <1> QED BY <1>1, <1>3

(* Any other tooth.                                                        *)
LEMMA OtherTooth ==
  ASSUME RpmTypes, NotifyListeners, ~Silence, ListenersIndex # 0
  PROVE  /\ sinceRpm' = Lesser(sinceRpm + 1, RpmTimeout)
         /\ state = "RUNNING" => UNCHANGED <<rpm, degree, state>>
  <1> DEFINE time == Lesser(sinceRpm + 1, RpmTimeout)
             decoded == IF ValidIndex THEN SetSpinningUp(Rpm) ELSE Rpm
             listen == synced' /\ ValidIndex
  <1>1. PICK r \in (IF listen THEN AfterRpmCallback(decoded, time) ELSE {decoded}) :
          /\ rpm' = r.rpm /\ degree' = r.degree /\ state' = r.state
          /\ sinceRpm' = time
    BY Zenon DEF NotifyListeners
  <1>2. ASSUME state = "RUNNING"
        PROVE  UNCHANGED <<rpm, degree, state>>
    <2>1. Rpm \in RpmRecords /\ Rpm.state = "RUNNING"
      BY <1>2, RpmIsRecord DEF Rpm
    <2>2. decoded = Rpm
      BY <2>1, SpinningUpKeepsRpm
    <2>3. AfterRpmCallback(decoded, time)
            = IF decoded.state = "SPINNING_UP"
              THEN {Assign(decoded, value) : value \in {"zero", "noisy", "instant"}}
              ELSE {decoded}
      BY Zenon DEF AfterRpmCallback
    <2> HIDE DEF time, decoded, listen
    <2>4. r = Rpm
      BY <1>1, <2>1, <2>2, <2>3
    <2> QED BY <1>1, <2>4 DEF Rpm
  <1> QED BY <1>1, <1>2

(* Every edge keeps an engine that spins up fast spinning or stopped.      *)
LEMMA EdgeKeepsSpinning ==
  ASSUME RpmTypes, NotifyListeners, FasterSpinUp, isSpinning \/ state = "STOPPED"
  PROVE  isSpinning' \/ state' = "STOPPED"
  <1> DEFINE time == Lesser(sinceRpm + 1, RpmTimeout)
             before == IF Silence THEN SetStopSpinning(Rpm) ELSE Rpm
             decoded == IF ValidIndex THEN SetSpinningUp(before) ELSE before
             listen == synced' /\ ValidIndex
             first == IF ListenersIndex = 0 THEN AtFirstTooth(decoded, time) ELSE decoded
  <1>1. PICK r \in (IF listen THEN AfterRpmCallback(decoded, time) ELSE {decoded}) :
          state' = r.state /\ isSpinning' = r.isSpinning
    BY Zenon DEF NotifyListeners
  <1>2. before \in RpmRecords /\ decoded \in RpmRecords
    BY RpmIsRecord, SetStopSpinningKeepsRecord, SetSpinningUpKeepsRecord, Zenon
  <1>3. before.isSpinning \/ before.state = "STOPPED"
    <2>1. CASE Silence
      <3>1. (IF Rpm.rpm = "zero" THEN Rpm ELSE Assign(Rpm, "zero")) \in RpmRecords
        BY RpmIsRecord, AssignKeepsRecord, NamesOfRpm
      <3>2. SetStopSpinning(Rpm).state = "STOPPED"
        BY <3>1 DEF SetStopSpinning, RpmRecords
      <3> QED BY <2>1, <3>2
    <2>2. CASE ~Silence
      BY <2>2 DEF Rpm
    <2> QED BY <2>1, <2>2
  <1>4. ValidIndex => decoded.isSpinning
    BY <1>2, <1>3, SpinningUpKeepsRpm
  <1>5. ~ValidIndex => decoded = before
    OBVIOUS
  <1>6. first \in RpmRecords \/ ~listen
    <2>1. time \in Int /\ Measured(time) \in RpmValues /\ (time <= Cycle) \in BOOLEAN
      BY ConstantsOfCycle, NamesOfRpm DEF Lesser, RpmTypes, Measured
    <2>2. SetRpmValue(decoded, Measured(time), time <= Cycle) \in RpmRecords
      BY <1>2, <2>1, SetRpmValueKeepsRecord, Zenon
    <2> QED BY <1>2, <2>2, Zenon DEF AtFirstTooth
  <1>7. first.isSpinning = decoded.isSpinning
    BY <1>2, AssignmentsKeepSpinning, Zenon DEF AtFirstTooth
  <1>8. listen => r = first \/ \E value : r = Assign(first, value)
    BY <1>1, Zenon DEF AfterRpmCallback
  <1> HIDE DEF first, decoded, before, time
  <1>9. listen => r.isSpinning = decoded.isSpinning
    <2>1. listen => \A value : Assign(first, value).isSpinning = first.isSpinning
      BY <1>6, AssignmentsKeepSpinning
    <2> QED BY <1>7, <1>8, <2>1, Zenon
  <1>10. CASE listen
    BY <1>1, <1>4, <1>9, <1>10, Zenon
  <1>11. CASE ~listen
    BY <1>1, <1>3, <1>4, <1>5, <1>11, Zenon
  <1> QED BY <1>10, <1>11

LEMMA NextKeepsSpinning ==
  ASSUME TypesByPart, SpinsUnlessStopped, [Next]_vars
  PROVE  SpinsUnlessStopped'
  <1> USE DEF SpinsUnlessStopped
  <1>1. ASSUME HandleShaftSignal, UNCHANGED slowPc
        PROVE  SpinsUnlessStopped'
    BY <1>1, EdgeKeepsSpinning, Zenon DEF HandleShaftSignal, TypesByPart
  <1>2. ASSUME UNCHANGED <<state, isSpinning, slowPc>>
        PROVE  SpinsUnlessStopped'
    BY <1>2, Zenon
  <1>3. CASE Coast \/ NoiseEdge
    BY <1>1, <1>2, <1>3, Zenon DEF Coast, NoiseEdge, Turn, NoEdge
  <1>4. CASE Cam \/ LoseEdge \/ LoseCam \/ NoiseCam \/ Pause
    BY <1>2, <1>4, Zenon DEF Cam, LoseEdge, LoseCam, NoiseCam, Turn, NoEdge, Pause, slowVars
  <1>5. CASE SlowCallback
    <2>1. CASE ClearState
      BY <2>1, Zenon DEF ClearState
    <2>2. CASE ~ClearState
      <3>1. slowPc' \in {"spinning", "state", "rpm", "test", "nan", "inf"}
        BY <1>5, <2>2, Zenon DEF SlowCallback, CheckIfSpinning, ClearSpinning, ClearRpm,
             TestRpm, ClearDegree, SlowVarsTo
      <3> QED BY <3>1
    <2> QED BY <2>1, <2>2
  <1>6. CASE UNCHANGED vars
    BY <1>2, <1>6, Zenon DEF vars, rpmVars, slowVars
  <1> QED BY <1>3, <1>4, <1>5, <1>6, Zenon DEF Next

-----------------------------------------------------------------------------
(* The undisturbed steps of the shaft. *)

(* Where the shaft is after half a pitch, revolution by revolution.        *)
LEMMA NextSlot ==
  ASSUME TypesByPart, Turn(TRUE)
  PROVE  /\ slot \in Nat /\ slot < Cycle /\ clean \in Nat
         /\ \/ /\ Position(slot') = 0
               /\ \/ slot = Revolution - 1 /\ slot' = Revolution
                  \/ slot = Cycle - 1 /\ slot' = 0
               /\ clean' = clean \/ clean' = clean + 1
            \/ /\ Position(slot') # 0 /\ clean' = clean
               /\ slot' = slot + 1 /\ slot # Revolution - 1 /\ slot < Cycle - 1
  <1>1. /\ slot \in 0 .. Cycle - 1 /\ clean \in 0 .. MaxClean
        /\ slot' = IF slot = Cycle - 1 THEN 0 ELSE slot + 1
    BY DEF TypesByPart, ShaftTypes, Turn
  <1>2. Position(slot') = 0 <=> slot' = 0 \/ slot' = Revolution
    BY <1>1, ConstantsOfCycle DEF Position
  <1>3. Position(slot') # 0 => clean' = clean
    BY Zenon DEF Turn
  <1>4. Lesser(clean + 1, MaxClean) \in {clean, clean + 1}
    BY <1>1, ConstantsOfCycle DEF Lesser
  <1>5. clean' = clean \/ clean' = Lesser(clean + 1, MaxClean)
    BY Zenon DEF Turn
  <1> QED BY <1>1, <1>2, <1>3, <1>4, <1>5, ConstantsOfCycle

(* Once the gap has passed, edges come often.                              *)
LEMMA NoSilence ==
  ASSUME TypesByPart, DecoderInv, clean >= 1
  PROVE  elapsed < Second /\ ~Silence
  <1>1. Position(slot) \in 0 .. Revolution - 1
    BY NextPosition DEF TypesByPart, ShaftTypes
  <1>2. /\ Position(slot) <= LastPosition => elapsed = Position(slot) % 2
        /\ Position(slot) > LastPosition => elapsed = Position(slot) - LastPosition
    BY Zenon DEF DecoderInv, TimesOfWheel
  <1>3. elapsed < Second
    BY <1>1, <1>2, ConstantsOfCycle, ConstantsOfWheel
  <1> QED BY <1>3, DurationIsTime DEF DecoderInv

(* An index in the cycle is zero at the first tooth of the even revolution *)
(* only.                                                                   *)
LEMMA IndexInCycle ==
  ASSUME NEW i \in Nat, NEW r \in {0, 1}, NEW teeth \in Nat, teeth > 0
  PROVE  i + r * teeth = 0 <=> i = 0 /\ r = 0
  <1>1. CASE r = 0
    BY <1>1
  <1>2. CASE r = 1
    BY <1>2
  <1> QED BY <1>1, <1>2

(* A tooth of a wheel whose gap has been recognised: the revolution counts *)
(* at the gap, and the first tooth of the cycle is the one where it is     *)
(* even.                                                                   *)
LEMMA CleanTooth ==
  ASSUME TypesByPart, DecoderInv, DecoderInv', Turn(TRUE), HasTooth(slot'),
         DecodeTriggerEvent, clean' >= 2
  PROVE  /\ ~Silence /\ synced' /\ ValidIndex
         /\ revolution' = IF Position(slot') = 0 THEN 1 - revolution ELSE revolution
         /\ ListenersIndex = 0 <=> Position(slot') = 0 /\ revolution' = 0
  <1>1. clean >= 1 /\ slot' \in 0 .. Cycle - 1
    BY NextSlot, ConstantsOfCycle DEF DecoderInv, DecoderTypes
  <1>2. ~Silence
    BY <1>1, NoSilence
  <1>3. synced' /\ index' = LastTooth(slot')
    BY DEF DecoderInv, IndexOfWheel
  <1>4. /\ Position(slot') \in 0 .. Revolution - 1
        /\ Position(slot') % 2 = 0 /\ Position(slot') <= LastPosition
        /\ LastTooth(slot') = Position(slot') \div 2
    BY <1>1, TeethOfWheel, NextPosition
  <1>5. index' \in Nat /\ index' < NumTeeth /\ (index' = 0 <=> Position(slot') = 0)
    BY <1>3, <1>4, ConstantsOfWheel DEF LastPosition
  <1>6. PICK sync \in SynchronizationOutcomes :
          /\ index' = IF sync THEN 0 ELSE Lesser(index + 1, NumTeeth)
          /\ revolution' = IF sync THEN 1 - revolution ELSE revolution
    BY Zenon DEF DecodeTriggerEvent
  <1>7. Lesser(index + 1, NumTeeth) # 0
    BY ConstantsOfWheel DEF Lesser, TypesByPart, DecoderTypesBounded
  <1>8. revolution' = IF Position(slot') = 0 THEN 1 - revolution ELSE revolution
    BY <1>5, <1>6, <1>7, Zenon
  <1>9. revolution' \in {0, 1}
    BY <1>8 DEF TypesByPart
  <1>10. ListenersIndex = 0 <=> index' = 0 /\ revolution' = 0
    <2>1. NumTeeth \in Nat /\ NumTeeth > 0
      BY ConstantsOfWheel
    <2> QED BY <1>5, <1>9, <2>1, IndexInCycle, Zenon DEF ListenersIndex
  <1> QED BY <1>2, <1>3, <1>5, <1>8, <1>10, Zenon DEF ValidIndex

(* What an undisturbed turn does to the phase and to the rpm, once the gap *)
(* has been recognised.                                                    *)
OneLater == sinceRpm' = Lesser(sinceRpm + 1, RpmTimeout)
RunningStays == state = "RUNNING" => UNCHANGED <<rpm, degree, state>>

AtGap ==
  /\ Position(slot') = 0
  /\ revolution' = 1 - revolution
  /\ revolution' = 0 =>
       /\ sinceRpm' = 0
       /\ sinceRpm = Cycle - 1 => rpm' = "right" /\ degree' = "known" /\ state' = "RUNNING"
  /\ revolution' # 0 => OneLater /\ RunningStays

InBetween ==
  /\ Position(slot') # 0 /\ slot' # CamSlot
  /\ UNCHANGED revolution /\ OneLater /\ RunningStays

AtCam ==
  /\ slot' = CamSlot
  /\ HandleVvtCamSignal /\ OneLater /\ RunningStays

LEMMA CleanTurns ==
  ASSUME TypesByPart, DecoderInv, DecoderInv', FastEnough, clean' >= 2,
         Coast \/ Cam
  PROVE  Turn(TRUE) /\ (AtGap \/ InBetween \/ AtCam)
  <1>1. CASE Cam
    BY <1>1, Zenon DEF Cam, NoEdge, AtCam, OneLater, RunningStays
  <1>2. CASE Coast /\ ~HasTooth(slot')
    <2>1. slot' \in 0 .. Cycle - 1
      BY DEF DecoderInv, DecoderTypes
    <2>2. Position(slot') # 0
      BY <1>2, <2>1, TeethOfWheel, ConstantsOfWheel
    <2> QED BY <1>2, <2>2, Zenon DEF Coast, NoEdge, InBetween, OneLater, RunningStays
  <1>3. CASE Coast /\ HasTooth(slot')
    <2>1. Turn(TRUE) /\ DecodeTriggerEvent /\ NotifyListeners
      BY <1>3, Zenon DEF Coast, HandleShaftSignal
    <2>2. /\ ~Silence /\ synced' /\ ValidIndex
          /\ revolution' = IF Position(slot') = 0 THEN 1 - revolution ELSE revolution
          /\ ListenersIndex = 0 <=> Position(slot') = 0 /\ revolution' = 0
      BY <1>3, <2>1, CleanTooth
    <2>3. RpmTypes
      BY DEF TypesByPart
    <2>4. ListenersIndex = 0 =>
            /\ sinceRpm' = 0
            /\ sinceRpm = Cycle - 1
                 => rpm' = "right" /\ degree' = "known" /\ state' = "RUNNING"
      BY <2>1, <2>2, <2>3, FirstTooth, Zenon
    <2>5. ListenersIndex # 0 => OneLater /\ RunningStays
      BY <2>1, <2>2, <2>3, OtherTooth, Zenon DEF OneLater, RunningStays
    <2>6. CASE Position(slot') = 0
      BY <2>1, <2>2, <2>4, <2>5, <2>6, Zenon DEF AtGap
    <2>7. CASE Position(slot') # 0
      <3>1. slot' # CamSlot
        BY <1>3, ConstantsOfWheel DEF HasTooth, CamSlot, Position, ToothAt
      <3> QED BY <2>1, <2>2, <2>5, <2>7, <3>1, Zenon DEF InBetween
    <2> QED BY <2>6, <2>7
  <1> QED BY <1>1, <1>2, <1>3

(* A step of the slow callback leaves the shaft, the phase and the first   *)
(* teeth alone, and the callback stops the engine for a reason.            *)
LEMMA SlowStep ==
  ASSUME SlowCallback
  PROVE  /\ UNCHANGED <<slot, revolution, sinceRpm, clean>>
         /\ slowPc = "idle" => elapsed >= Second \/ sinceRpm >= RpmTimeout
         /\ slowPc # "idle" => UNCHANGED preempted
  BY Zenon DEF SlowCallback, CheckIfSpinning, ClearSpinning, ClearRpm, TestRpm, ClearDegree,
     ClearState, SlowVarsTo, rpmVars

LEMMA TimesAreNatural ==
  ASSUME TypesByPart
  PROVE  /\ sinceRpm \in 0 .. RpmTimeout /\ preempted \in 0 .. Preemptions
         /\ clean \in Nat /\ slot \in 0 .. Cycle - 1
         /\ revolution \in {0, 1}
         /\ Lesser(sinceRpm + 1, RpmTimeout)
              = IF sinceRpm < RpmTimeout THEN sinceRpm + 1 ELSE RpmTimeout
  <1>1. /\ sinceRpm \in 0 .. RpmTimeout /\ preempted \in 0 .. Preemptions
        /\ clean \in Nat /\ slot \in 0 .. Cycle - 1
        /\ revolution \in {0, 1}
    BY BoundsAreNatural DEF TypesByPart, RpmTypes, ShaftTypes
  <1>2. Lesser(sinceRpm + 1, RpmTimeout)
          = IF sinceRpm < RpmTimeout THEN sinceRpm + 1 ELSE RpmTimeout
    BY <1>1, ConstantsOfCycle DEF Lesser
  <1> QED BY <1>1, <1>2

(* No engine is stopped whose first tooth has been seen in time.           *)
LEMMA NotStopped ==
  ASSUME RecoveryInv, FastEnough, clean >= 1, sinceRpm < RpmTimeout, slowPc = "idle"
  PROVE  ~SlowCallback
  <1>1. elapsed < Second /\ elapsed \in Nat /\ sinceRpm \in Nat
    BY NoSilence, TimesAreNatural DEF RecoveryInv, DecoderInv, DecoderTypes
  <1>2. ~(elapsed >= Second \/ sinceRpm >= RpmTimeout)
    BY <1>1, ConstantsOfCycle
  <1> QED BY <1>2, SlowStep

(* No slow callback lasts from one first tooth to the next.                *)
LEMMA IdleAtFirstTooth ==
  ASSUME RecoveryInv, FastEnough, clean >= 2, sinceRpm = Cycle - 1
  PROVE  slowPc = "idle"
  BY TimesAreNatural, ConstantsOfCycle DEF RecoveryInv, StopIsRecent, FastEnough

(* What keeps the history of undisturbed revolutions going.                *)
LEMMA Undisturbed ==
  ASSUME [Next]_vars, clean' # 0
  PROVE  Coast \/ Cam \/ SlowCallback \/ UNCHANGED vars
  BY Zenon DEF Next, LoseEdge, NoiseEdge, LoseCam, NoiseCam, Turn, Pause

(* The time to the next first tooth goes on, or starts again.              *)
LEMMA RpmTimeGoesOn ==
  ASSUME NotifyListeners \/ NoEdge
  PROVE  sinceRpm' = 0 \/ sinceRpm' = Lesser(sinceRpm + 1, RpmTimeout)
  BY Zenon DEF NotifyListeners, NoEdge

LEMMA StopIsRecentKept ==
  ASSUME RecoveryInv, FastEnough, TypesByPart', [Next]_vars
  PROVE  StopIsRecent'
  <1> SUFFICES ASSUME clean' >= 1, slowPc' # "idle"
               PROVE  \/ sinceRpm' = RpmTimeout
                      \/ sinceRpm' <= preempted'
                      \/ clean' = 1 /\ Position(slot') <= preempted'
    BY DEF StopIsRecent
  <1> USE DEF RecoveryInv
  <1>1. /\ sinceRpm \in 0 .. RpmTimeout /\ preempted \in 0 .. Preemptions
        /\ clean \in Nat /\ slot \in 0 .. Cycle - 1
        /\ Lesser(sinceRpm + 1, RpmTimeout)
              = IF sinceRpm < RpmTimeout THEN sinceRpm + 1 ELSE RpmTimeout
    BY TimesAreNatural
  <1>2. CASE Coast \/ Cam
    <2>1. Turn(TRUE) /\ slowPc # "idle" /\ preempted < Preemptions /\ preempted' = preempted + 1
      BY <1>2, Zenon DEF Coast, Cam, Turn
    <2>2. sinceRpm' = 0 \/ sinceRpm' = Lesser(sinceRpm + 1, RpmTimeout)
      BY <1>2, RpmTimeGoesOn, Zenon DEF Coast, Cam, HandleShaftSignal
    <2>3. CASE clean = 0
      <3>1. clean' = 1 /\ Position(slot') = 0
        BY <2>1, <2>3, NextSlot
      <3> QED BY <3>1, <2>1, <1>1
    <2>4. CASE clean >= 1
      <3>1. CASE sinceRpm = RpmTimeout \/ sinceRpm <= preempted
        BY <3>1, <2>1, <2>2, <1>1, ConstantsOfCycle
      <3>2. CASE clean = 1 /\ Position(slot) <= preempted
        <4>1. /\ Position(slot) \in 0 .. Revolution - 1
              /\ \/ Position(slot') = 0 /\ Position(slot) = Revolution - 1
                 \/ Position(slot') = Position(slot) + 1 /\ clean' = clean
          BY <2>1, CleanTurn DEF DecoderInv
        <4> QED BY <4>1, <3>2, <2>1, <1>1, ConstantsOfCycle DEF FastEnough
      <3> QED BY <2>1, <2>4, <3>1, <3>2, Zenon DEF StopIsRecent
    <2> QED BY <1>1, <2>3, <2>4
  <1>3. CASE SlowCallback
    <2>1. UNCHANGED <<slot, revolution, sinceRpm, clean>>
      BY <1>3, SlowStep
    <2>2. CASE slowPc = "idle"
      <3>1. ~(sinceRpm < RpmTimeout)
        BY <1>3, <2>1, <2>2, NotStopped
      <3> QED BY <2>1, <3>1, <1>1, ConstantsOfCycle
    <2>3. CASE slowPc # "idle"
      BY <1>3, <2>1, <2>3, SlowStep, Zenon DEF StopIsRecent
    <2> QED BY <2>2, <2>3
  <1>4. CASE UNCHANGED vars
    BY <1>4, Zenon DEF vars, rpmVars, slowVars, StopIsRecent
  <1> QED
    BY <1>1, <1>2, <1>3, <1>4, Undisturbed

-----------------------------------------------------------------------------
(* The phase. *)

(* At the gap the counter and the shaft go on together; in between neither *)
(* does.                                                                   *)
LEMMA PhaseKept ==
  ASSUME TypesByPart, Turn(TRUE), AtGap \/ InBetween
  PROVE  InPhase' <=> InPhase
  <1>1. revolution \in {0, 1}
    BY TimesAreNatural
  <1>2. CASE AtGap
    <2>1. \/ slot = Revolution - 1 /\ slot' = Revolution
          \/ slot = Cycle - 1 /\ slot' = 0
      BY <1>2, NextSlot DEF AtGap
    <2>2. revolution' = 1 - revolution
      BY <1>2 DEF AtGap
    <2> QED BY <1>1, <2>1, <2>2, ConstantsOfCycle DEF InPhase
  <1>3. CASE InBetween
    <2>1. slot' = slot + 1 /\ slot # Revolution - 1 /\ slot \in Nat
      BY <1>3, NextSlot DEF InBetween
    <2>2. revolution' = revolution
      BY <1>3 DEF InBetween
    <2> QED BY <2>1, <2>2, ConstantsOfCycle DEF InPhase
  <1> QED BY <1>2, <1>3

(* The step past the cam: a counter that can tell the time of a degree is  *)
(* in phase after it.                                                      *)
LEMMA PhaseAtCam ==
  ASSUME TypesByPart, Turn(TRUE), AtCam
  PROVE  /\ slot = 0 /\ slot' = 1 /\ clean' = clean
         /\ InPhase' <=> InPhase \/ degree # "NAN"
  <1>1. slot' = 1
    BY DEF AtCam, CamSlot
  <1>2. slot = 0 /\ clean' = clean
    BY <1>1, NextSlot, ConstantsOfCycle
  <1>3. /\ degree # "NAN" => revolution' = 1
        /\ degree = "NAN" => revolution' = revolution
    BY Zenon DEF AtCam, HandleVvtCamSignal
  <1>4. (InPhase <=> revolution = 1) /\ (InPhase' <=> revolution' = 1)
    BY <1>1, <1>2, ConstantsOfCycle DEF InPhase
  <1> QED BY <1>1, <1>2, <1>3, <1>4

LEMMA OutOfPhaseAtGap ==
  ASSUME RecoveryInv, FastEnough, Turn(TRUE), AtGap, clean' >= 2, ~InPhase'
  PROVE  /\ clean' <= 5 /\ (clean' = 5 => slot' < Revolution)
         /\ (clean' = 2 /\ slot' >= Revolution) \/ sinceRpm' = slot'
         /\ clean' >= 4 /\ slot' < Revolution
              => slot' = 0 /\ degree' # "NAN" /\ slowPc' = "idle"
  <1> USE DEF RecoveryInv
  <1>1. /\ clean \in Nat /\ slot \in Nat
        /\ \/ slot = Revolution - 1 /\ slot' = Revolution
           \/ slot = Cycle - 1 /\ slot' = 0
        /\ clean' = clean \/ clean' = clean + 1
    BY NextSlot DEF AtGap
  <1>2. revolution \in {0, 1} /\ revolution' \in {0, 1}
    <2>1. revolution \in {0, 1}
      BY TimesAreNatural
    <2> QED BY <2>1 DEF AtGap
  <1>3. slot' = 0 => sinceRpm' = 0
    <2>1. slot' = 0 => revolution' = 0
      BY <1>2, ConstantsOfCycle DEF InPhase
    <2> QED BY <2>1 DEF AtGap
  <1>4. CASE clean < 2
    BY <1>1, <1>3, <1>4, ConstantsOfCycle
  <1>5. CASE clean >= 2
    <2>1. ~InPhase
      BY PhaseKept
    <2>2. /\ clean <= 5 /\ (clean = 5 => slot < Revolution)
          /\ (clean = 2 /\ slot >= Revolution) \/ sinceRpm = slot
          /\ clean >= 4 /\ slot < Revolution => slot = 0
      BY <1>5, <2>1, Zenon DEF OutOfPhase
    <2>3. CASE slot' = Revolution
      <3>1. slot = Revolution - 1 /\ slot < Revolution
        BY <1>1, <2>3, ConstantsOfCycle
      <3>2. clean < 4 /\ sinceRpm = slot
        BY <1>1, <2>2, <3>1, ConstantsOfCycle
      <3>3. OneLater
        <4>1. revolution' # 0
          BY <2>3, <1>2, ConstantsOfCycle DEF InPhase
        <4> QED BY <4>1 DEF AtGap
      <3>4. sinceRpm' = slot'
        BY <3>1, <3>2, <3>3, <2>3, TimesAreNatural, ConstantsOfCycle DEF OneLater, FastEnough
      <3> QED BY <1>1, <2>3, <3>2, <3>4, ConstantsOfCycle
    <2>4. CASE slot' = 0
      <3>1. slot = Cycle - 1 /\ slot >= Revolution /\ clean < 5
        BY <1>1, <2>2, <2>4, ConstantsOfCycle
      <3>2. clean' >= 4 => degree' # "NAN" /\ slowPc' = "idle"
        <4> SUFFICES ASSUME clean' >= 4 PROVE degree' # "NAN" /\ slowPc' = "idle"
          OBVIOUS
        <4>1. clean # 2
          BY <1>1
        <4>2. sinceRpm = Cycle - 1
          BY <2>2, <3>1, <4>1
        <4>3. slowPc = "idle"
          BY <1>5, <4>2, IdleAtFirstTooth
        <4>4. revolution' = 0
          BY <2>4, <1>2, ConstantsOfCycle DEF InPhase
        <4>5. degree' = "known"
          BY <4>2, <4>4 DEF AtGap
        <4>6. slowPc' = slowPc
          BY Zenon DEF Turn
        <4> QED BY <4>3, <4>5, <4>6
      <3> QED BY <1>1, <1>3, <2>4, <3>1, <3>2, ConstantsOfCycle
    <2> QED BY <1>1, <2>3, <2>4
  <1> QED BY <1>1, <1>4, <1>5

LEMMA OutOfPhaseKept ==
  ASSUME RecoveryInv, FastEnough, DecoderInv', [Next]_vars
  PROVE  OutOfPhase'
  <1> SUFFICES ASSUME clean' >= 2, ~InPhase'
               PROVE  /\ clean' <= 5 /\ (clean' = 5 => slot' < Revolution)
                      /\ (clean' = 2 /\ slot' >= Revolution) \/ sinceRpm' = slot'
                      /\ clean' >= 4 /\ slot' < Revolution
                           => slot' = 0 /\ degree' # "NAN" /\ slowPc' = "idle"
    BY DEF OutOfPhase
  <1> USE DEF RecoveryInv
  <1>1. CASE Turn(TRUE) /\ AtGap
    BY <1>1, OutOfPhaseAtGap
  <1>2. CASE Turn(TRUE) /\ InBetween
    <2>1. /\ clean' = clean /\ slot' = slot + 1 /\ slot \in Nat
          /\ slot # Revolution - 1 /\ slot < Cycle - 1 /\ slot # 0
      BY <1>2, NextSlot DEF InBetween, CamSlot
    <2>2. ~InPhase
      BY <1>2, PhaseKept
    <2>3. /\ clean <= 5 /\ (clean = 5 => slot < Revolution)
          /\ (clean = 2 /\ slot >= Revolution) \/ sinceRpm = slot
          /\ clean >= 4 /\ slot < Revolution => slot = 0
      BY <2>1, <2>2, Zenon DEF OutOfPhase
    <2>4. sinceRpm = slot => sinceRpm' = slot'
      BY <1>2, <2>1, TimesAreNatural, ConstantsOfCycle DEF InBetween, OneLater, FastEnough
    <2> QED BY <2>1, <2>3, <2>4, ConstantsOfCycle
  <1>3. CASE Turn(TRUE) /\ AtCam
    <2>1. /\ slot = 0 /\ slot' = 1 /\ clean' = clean
          /\ ~InPhase /\ degree = "NAN"
      BY <1>3, PhaseAtCam
    <2>2. /\ (clean = 2 /\ slot >= Revolution) \/ sinceRpm = slot
          /\ clean >= 4 /\ slot < Revolution => degree # "NAN"
      BY <2>1, Zenon DEF OutOfPhase
    <2>3. clean < 4 /\ sinceRpm = 0 /\ clean \in Nat
      BY <2>1, <2>2, TimesAreNatural, ConstantsOfCycle
    <2>4. sinceRpm' = 1
      BY <1>3, <2>3, TimesAreNatural, ConstantsOfCycle DEF AtCam, OneLater, FastEnough
    <2> QED BY <2>1, <2>3, <2>4
  <1>4. CASE SlowCallback
    <2>1. UNCHANGED <<slot, revolution, sinceRpm, clean>>
      BY <1>4, SlowStep
    <2>2. ~InPhase
      BY <2>1 DEF InPhase
    <2>3. /\ clean <= 5 /\ (clean = 5 => slot < Revolution)
          /\ (clean = 2 /\ slot >= Revolution) \/ sinceRpm = slot
          /\ clean >= 4 /\ slot < Revolution => slot = 0 /\ slowPc = "idle"
      BY <2>1, <2>2, Zenon DEF OutOfPhase
    <2>4. ~(clean >= 4 /\ slot < Revolution)
      <3> SUFFICES ASSUME clean >= 4, slot < Revolution PROVE FALSE
        OBVIOUS
      <3>1. clean >= 1 /\ sinceRpm < RpmTimeout
        BY <2>3, TimesAreNatural, ConstantsOfCycle DEF FastEnough
      <3> QED BY <1>4, <2>3, <3>1, NotStopped
    <2> QED BY <2>1, <2>3, <2>4
  <1>5. CASE UNCHANGED vars
    <2>1. UNCHANGED <<slot, revolution, sinceRpm, clean, degree, slowPc>>
      BY <1>5 DEF vars, rpmVars, slowVars
    <2>2. ~InPhase
      BY <2>1 DEF InPhase
    <2> QED BY <2>1, <2>2, Zenon DEF OutOfPhase
  <1>6. clean' # 0
    OBVIOUS
  <1> QED BY <1>1, <1>2, <1>3, <1>4, <1>5, <1>6, Undisturbed, CleanTurns

-----------------------------------------------------------------------------
(* The rpm. *)

(* From the middle of a cycle on, once the counter must be in phase.       *)
LEMMA FirstToothInPhaseKept ==
  ASSUME RecoveryInv, FastEnough, DecoderInv', [Next]_vars
  PROVE  FirstToothInPhase'
  <1> SUFFICES ASSUME clean' >= 6 \/ (clean' = 5 /\ slot' >= Revolution)
               PROVE  InPhase' /\ sinceRpm' = SinceMiddle'
    BY DEF FirstToothInPhase
  <1> USE DEF RecoveryInv
  <1>1. clean' >= 2 /\ clean' # 0 /\ clean' \in Nat /\ clean \in Nat
    BY DEF DecoderInv, DecoderTypes
  <1>2. CASE Turn(TRUE) /\ AtGap
    <2>1. /\ clean \in Nat /\ slot \in Nat
          /\ \/ slot = Revolution - 1 /\ slot' = Revolution
             \/ slot = Cycle - 1 /\ slot' = 0
          /\ clean' = clean \/ clean' = clean + 1
      BY <1>2, NextSlot DEF AtGap
    <2>2. revolution' \in {0, 1}
      <3>1. revolution \in {0, 1}
        BY TimesAreNatural
      <3> QED BY <1>2, <3>1 DEF AtGap
    <2>3. CASE slot' = Revolution
      <3>1. slot < Revolution /\ slot # 0 /\ clean >= 4 /\ clean >= 2
        BY <2>1, <2>3, ConstantsOfCycle
      <3>2. InPhase
        BY <3>1, Zenon DEF OutOfPhase
      <3>3. InPhase'
        BY <1>2, <3>2, PhaseKept
      <3>4. revolution' = 0
        BY <2>3, <3>3, ConstantsOfCycle DEF InPhase
      <3>5. sinceRpm' = 0
        BY <1>2, <3>4 DEF AtGap
      <3>6. SinceMiddle' = 0
        BY <2>3, ConstantsOfCycle DEF SinceMiddle
      <3> QED BY <3>3, <3>5, <3>6
    <2>4. CASE slot' = 0
      <3>1. slot = Cycle - 1 /\ slot >= Revolution /\ clean >= 5
        BY <2>1, <2>4, ConstantsOfCycle
      <3>2. InPhase /\ sinceRpm = SinceMiddle
        BY <3>1, <2>1 DEF FirstToothInPhase
      <3>3. InPhase'
        BY <1>2, <3>2, PhaseKept
      <3>4. revolution' # 0
        BY <2>4, <3>3, ConstantsOfCycle DEF InPhase
      <3>5. OneLater
        BY <1>2, <3>4 DEF AtGap
      <3>6. SinceMiddle' = Revolution /\ SinceMiddle = Revolution - 1
        BY <2>4, <3>1, ConstantsOfCycle DEF SinceMiddle
      <3>7. sinceRpm' = Revolution
        BY <3>2, <3>5, <3>6, TimesAreNatural, ConstantsOfCycle DEF OneLater, FastEnough
      <3> QED BY <3>3, <3>6, <3>7
    <2> QED BY <2>1, <2>3, <2>4
  <1>3. CASE Turn(TRUE) /\ (InBetween \/ AtCam)
    <2>1. /\ clean' = clean /\ slot' = slot + 1 /\ slot \in Nat
          /\ slot # Revolution - 1 /\ slot < Cycle - 1
      <3>1. CASE InBetween
        BY <1>3, <3>1, NextSlot DEF InBetween
      <3>2. CASE AtCam
        BY <1>3, <3>2, PhaseAtCam, ConstantsOfCycle
      <3> QED BY <1>3, <3>1, <3>2
    <2>2. InPhase /\ sinceRpm = SinceMiddle
      <3>1. clean >= 6 \/ (clean = 5 /\ slot >= Revolution)
        BY <2>1, ConstantsOfCycle
      <3> QED BY <3>1, Zenon DEF FirstToothInPhase
    <2>3. InPhase'
      BY <1>3, <2>2, PhaseKept, PhaseAtCam
    <2>4. OneLater
      BY <1>3 DEF InBetween, AtCam
    <2>5. SinceMiddle' = SinceMiddle + 1 /\ SinceMiddle \in Nat /\ SinceMiddle < Cycle
      BY <2>1, ConstantsOfCycle DEF SinceMiddle
    <2>6. sinceRpm' = SinceMiddle'
      BY <2>2, <2>4, <2>5, TimesAreNatural, ConstantsOfCycle DEF OneLater, FastEnough
    <2> QED BY <2>3, <2>6
  <1>4. CASE SlowCallback \/ UNCHANGED vars
    <2>1. UNCHANGED <<slot, revolution, sinceRpm, clean>>
      BY <1>4, SlowStep DEF vars, rpmVars
    <2> QED BY <2>1 DEF FirstToothInPhase, InPhase, SinceMiddle
  <1> QED BY <1>1, <1>2, <1>3, <1>4, Undisturbed, CleanTurns

(* An engine whose first teeth are in phase is not stopped.                *)
LEMMA NotStoppedInPhase ==
  ASSUME RecoveryInv, FastEnough, slowPc = "idle",
         clean >= 6 \/ (clean = 5 /\ slot >= Revolution)
  PROVE  ~SlowCallback
  <1>1. sinceRpm = SinceMiddle
    BY DEF RecoveryInv, FirstToothInPhase
  <1>2. SinceMiddle < Cycle
    BY TimesAreNatural, ConstantsOfCycle DEF RecoveryInv, SinceMiddle
  <1>3. sinceRpm < RpmTimeout
    BY <1>1, <1>2, TimesAreNatural, ConstantsOfCycle DEF RecoveryInv, FastEnough
  <1>4. clean >= 1
    BY TimesAreNatural DEF RecoveryInv
  <1> QED BY <1>3, <1>4, NotStopped

LEMMA RpmIsMeasuredKept ==
  ASSUME RecoveryInv, FastEnough, DecoderInv', [Next]_vars
  PROVE  RpmIsMeasured'
  <1> DEFINE Right == rpm = "right" /\ degree = "known" /\ state = "RUNNING"
  <1> SUFFICES ASSUME clean' >= 8 \/ (clean' = 7 /\ slot' >= Revolution)
               PROVE  Right' /\ slowPc' = "idle"
    BY DEF RpmIsMeasured
  <1> USE DEF RecoveryInv
  <1>1. clean' >= 2 /\ clean' # 0 /\ clean' \in Nat /\ clean \in Nat
    BY DEF DecoderInv, DecoderTypes
  <1>2. RunningStays /\ Right => Right'
    BY DEF RunningStays
  <1>3. clean >= 8 \/ (clean = 7 /\ slot >= Revolution) => Right /\ slowPc = "idle"
    BY Zenon DEF RpmIsMeasured
  <1>4. CASE Turn(TRUE) /\ AtGap
    <2>1. /\ clean \in Nat /\ slot \in Nat
          /\ \/ slot = Revolution - 1 /\ slot' = Revolution
             \/ slot = Cycle - 1 /\ slot' = 0
          /\ clean' = clean \/ clean' = clean + 1
      BY <1>4, NextSlot DEF AtGap
    <2>2. slowPc' = slowPc
      BY <1>4, Zenon DEF Turn
    <2>3. clean >= 6 /\ clean >= 2
      BY <2>1, ConstantsOfCycle
    <2>4. InPhase /\ sinceRpm = SinceMiddle /\ InPhase'
      BY <1>4, <2>3, PhaseKept DEF FirstToothInPhase
    <2>5. CASE slot' = Revolution
      <3>1. revolution' = 0
        BY <2>4, <2>5, ConstantsOfCycle DEF InPhase
      <3>2. sinceRpm = Cycle - 1
        BY <2>1, <2>4, <2>5, ConstantsOfCycle DEF SinceMiddle
      <3>3. Right'
        BY <1>4, <3>1, <3>2 DEF AtGap
      <3>4. slowPc = "idle"
        BY <2>3, <3>2, IdleAtFirstTooth
      <3> QED BY <2>2, <3>3, <3>4
    <2>6. CASE slot' = 0
      <3>1. clean >= 7 /\ slot >= Revolution
        BY <2>1, <2>6, ConstantsOfCycle
      <3>2. Right /\ slowPc = "idle"
        BY <1>3, <2>1, <3>1
      <3>3. revolution' # 0
        BY <2>4, <2>6, ConstantsOfCycle DEF InPhase
      <3>4. RunningStays
        BY <1>4, <3>3 DEF AtGap
      <3> QED BY <1>2, <2>2, <3>2, <3>4
    <2> QED BY <2>1, <2>5, <2>6
  <1>5. CASE Turn(TRUE) /\ (InBetween \/ AtCam)
    <2>1. clean' = clean /\ slot' = slot + 1 /\ slot # Revolution - 1 /\ slot \in Nat
      <3>1. CASE InBetween
        BY <1>5, <3>1, NextSlot DEF InBetween
      <3>2. CASE AtCam
        BY <1>5, <3>2, PhaseAtCam, ConstantsOfCycle
      <3> QED BY <1>5, <3>1, <3>2
    <2>2. Right /\ slowPc = "idle"
      <3>1. clean >= 8 \/ (clean = 7 /\ slot >= Revolution)
        BY <2>1, ConstantsOfCycle
      <3> QED BY <1>3, <3>1, Zenon
    <2>3. RunningStays
      BY <1>5 DEF InBetween, AtCam
    <2>4. slowPc' = slowPc
      BY <1>5, Zenon DEF Turn
    <2> QED BY <1>2, <2>2, <2>3, <2>4
  <1>6. CASE SlowCallback
    <2>1. UNCHANGED <<slot, clean>>
      BY <1>6, SlowStep
    <2>2. slowPc = "idle"
      BY <1>3, <2>1
    <2>3. clean >= 6
      BY <1>1, <2>1
    <2> QED BY <1>6, <2>2, <2>3, NotStoppedInPhase
  <1>7. CASE UNCHANGED vars
    BY <1>3, <1>7 DEF vars, rpmVars, slowVars
  <1> HIDE DEF Right
  <1> QED BY <1>1, <1>4, <1>5, <1>6, <1>7, Undisturbed, CleanTurns

-----------------------------------------------------------------------------
LEMMA InitHasRecoveryInv == Init => RecoveryInv
  <1> SUFFICES ASSUME Init PROVE RecoveryInv
    OBVIOUS
  <1>1. TypesByPart
    BY InitHasTypes
  <1>2. DecoderInv
    BY InitHasInv
  <1>3. clean = 0 /\ state = "STOPPED"
    BY DEF Init
  <1> QED
    BY <1>1, <1>2, <1>3
    DEF RecoveryInv, SpinsUnlessStopped, StopIsRecent, OutOfPhase, FirstToothInPhase,
        RpmIsMeasured

LEMMA StepKeepsRecoveryInv ==
  ASSUME FastEnough, RecoveryInv, [Next]_vars
  PROVE  RecoveryInv'
  <1>1. TypesByPart' /\ DecoderInv'
    BY NextKeepsTypes, StepKeepsInv DEF RecoveryInv
  <1>2. SpinsUnlessStopped'
    BY NextKeepsSpinning DEF RecoveryInv
  <1>3. StopIsRecent'
    BY <1>1, StopIsRecentKept
  <1>4. OutOfPhase' /\ FirstToothInPhase' /\ RpmIsMeasured'
    BY <1>1, OutOfPhaseKept, FirstToothInPhaseKept, RpmIsMeasuredKept
  <1> QED BY <1>1, <1>2, <1>3, <1>4 DEF RecoveryInv

(* After six undisturbed revolutions the counter tells the two revolutions *)
(* of the cycle apart, whatever edges and cam signals were lost or added   *)
(* before and wherever the slow callback was interrupted: the rpm that the *)
(* correction needs is measured on the wrong phase already                 *)
(* (hwHandleVvtCamSignal), on every wheel and at every speed in between a  *)
(* standstill and noise.                                                   *)
THEOREM PhaseAlwaysRecovers ==
  ASSUME FastEnough
  PROVE  Spec => []PhaseRecovers
  <1>1. RecoveryInv => PhaseRecovers
    <2> SUFFICES ASSUME RecoveryInv, clean >= 6
                 PROVE  (revolution = 1) = (slot < Revolution)
      BY DEF PhaseRecovers
    <2>1. InPhase
      BY DEF RecoveryInv, FirstToothInPhase
    <2>2. revolution = 1 <=> slot < Revolution
      BY <2>1 DEF InPhase
    <2> QED BY <2>2
  <1>2. RecoveryInv /\ [Next]_vars => RecoveryInv'
    BY StepKeepsRecoveryInv
  <1> QED BY <1>1, <1>2, InitHasRecoveryInv, PTL DEF Spec

(* After eight undisturbed revolutions the rpm is the one of the shaft, in *)
(* all four variables, whatever values the slow callback that was stopping *)
(* the engine and the trigger interrupts had left behind one another       *)
(* (setStopSpinning against rpmShaftPositionCallback).                     *)
THEOREM RpmAlwaysRecovers ==
  ASSUME FastEnough
  PROVE  Spec => []RpmRecovers
  <1>1. RecoveryInv => RpmRecovers
    <2> SUFFICES ASSUME RecoveryInv, clean >= 8
                 PROVE  /\ rpm = "right" /\ degree = "known" /\ state = "RUNNING"
                        /\ FasterSpinUp => isSpinning
      BY DEF RpmRecovers
    <2>1. rpm = "right" /\ degree = "known" /\ state = "RUNNING" /\ slowPc = "idle"
      BY DEF RecoveryInv, RpmIsMeasured
    <2> QED BY <2>1 DEF RecoveryInv, SpinsUnlessStopped
  <1>2. RecoveryInv /\ [Next]_vars => RecoveryInv'
    BY StepKeepsRecoveryInv
  <1> QED BY <1>1, <1>2, InitHasRecoveryInv, PTL DEF Spec
=============================================================================
