------------------------ MODULE TriggerCentralProofs -------------------------
(***************************************************************************)
(* The decoder recovers its synchronization, for every wheel with one      *)
(* missing tooth and every speed at which the gap takes less than a        *)
(* second.                                                                 *)
(***************************************************************************)
EXTENDS TriggerCentral, TLAPS

LastPosition == 2 * (NumTeeth - 1)   \* where the tooth before the gap is

DecoderTypes ==
  /\ slot \in 0 .. Cycle - 1
  /\ elapsed \in Nat /\ lastDuration \in Nat /\ index \in Nat /\ clean \in Nat
  /\ synced \in BOOLEAN

(* Once the gap has passed undisturbed, the times are those of the wheel.  *)
TimesOfWheel ==
  clean >= 1 =>
    LET p == Position(slot) IN
    /\ p <= LastPosition => elapsed = p % 2
    /\ p > LastPosition => elapsed = p - LastPosition
    /\ p >= 2 => lastDuration = 2

(* Once it has passed twice, it has been recognised, and nothing else is.  *)
IndexOfWheel ==
  clean >= 2 =>
    /\ synced /\ index = LastTooth(slot)
    /\ Position(slot) < 2 => lastDuration = 4

DecoderInv == DecoderTypes /\ TimesOfWheel /\ IndexOfWheel

-----------------------------------------------------------------------------
(* Where the shaft gets to when it turns by half a pitch.                  *)
LEMMA NextPosition ==
  ASSUME NEW s \in 0 .. Cycle - 1, NEW t, t = IF s = Cycle - 1 THEN 0 ELSE s + 1
  PROVE  /\ t \in 0 .. Cycle - 1
         /\ Position(s) \in 0 .. Revolution - 1
         /\ Position(t) = IF Position(s) = Revolution - 1 THEN 0 ELSE Position(s) + 1
  BY TriggerAssumption DEF TriggerAssumption, Position, Cycle, Revolution

LEMMA ConstantsOfWheel ==
  /\ NumTeeth \in Nat /\ NumTeeth >= 2
  /\ LastPosition \in Nat /\ LastPosition = Revolution - 4 /\ LastPosition >= 2
  /\ Revolution \in Nat /\ LastPosition % 2 = 0
  /\ Silent \in Nat /\ Silent > 5
  BY TriggerAssumption DEF TriggerAssumption, NumTeeth, LastPosition, Revolution, Silent

(* A step turns the shaft undisturbed past a tooth or past none, disturbs  *)
(* it, or leaves the decoder alone.                                        *)
LEMMA KindsOfSteps ==
  ASSUME [Next]_vars
  PROVE  \/ Turn(TRUE) /\ HasTooth(slot') /\ DecodeTriggerEvent
         \/ Turn(TRUE) /\ ~HasTooth(slot') /\ NoEdge
         \/ Turn(FALSE) /\ (DecodeTriggerEvent \/ NoEdge)
         \/ Pause
         \/ UNCHANGED <<slot, decoderVars, clean>>
  <1>1. ~HasTooth(CamSlot)
    BY ConstantsOfWheel DEF HasTooth, CamSlot, Position, ToothAt
  <1>2. CASE Coast
    BY <1>2, Zenon DEF Coast, HandleShaftSignal
  <1>3. CASE Cam
    BY <1>1, <1>3, Zenon DEF Cam
  <1>4. CASE LoseEdge \/ NoiseEdge \/ LoseCam \/ NoiseCam
    BY <1>4, Zenon DEF LoseEdge, NoiseEdge, LoseCam, NoiseCam, HandleShaftSignal
  <1>5. CASE SlowCallback
    BY <1>5, Zenon DEF SlowCallback, CheckIfSpinning, ClearSpinning, ClearRpm, TestRpm,
         ClearDegree, ClearState, SlowVarsTo
  <1>6. CASE UNCHANGED vars
    BY <1>6, Zenon DEF vars
  <1> QED
    BY <1>2, <1>3, <1>4, <1>5, <1>6, Zenon DEF Next

(* The times at an edge.                                                   *)
LEMMA DurationIsTime ==
  ASSUME DecoderTypes
  PROVE  Duration \in Nat /\ (elapsed < Second => Duration = elapsed + 1 /\ ~Silence)
  <1>1. elapsed \in Nat /\ Second \in Nat /\ Silent = Second + 1
    BY TriggerAssumption DEF TriggerAssumption, DecoderTypes, Silent
  <1> QED BY <1>1 DEF Duration, Silence, Lesser

LEMMA DecodeKeepsTypes ==
  ASSUME DecoderTypes, DecodeTriggerEvent
  PROVE  /\ elapsed' \in Nat /\ lastDuration' \in Nat /\ index' \in Nat
         /\ synced' \in BOOLEAN
  <1>1. PICK sync \in SynchronizationOutcomes :
          /\ synced' = (sync \/ (synced /\ ~Silence))
          /\ index' = IF sync THEN 0 ELSE Lesser(index + 1, NumTeeth)
          /\ lastDuration' = Duration
          /\ elapsed' = 0
    BY Zenon DEF DecodeTriggerEvent
  <1>2. Lesser(index + 1, NumTeeth) \in Nat
    BY ConstantsOfWheel DEF DecoderTypes, Lesser
  <1>3. index' \in Nat
    BY <1>1, <1>2
  <1>4. synced' \in BOOLEAN
    BY <1>1, Zenon
  <1> QED BY <1>1, <1>3, <1>4, DurationIsTime

LEMMA NoEdgeKeepsTypes ==
  ASSUME DecoderTypes, NoEdge
  PROVE  /\ elapsed' \in Nat /\ lastDuration' \in Nat /\ index' \in Nat
         /\ synced' \in BOOLEAN
  BY ConstantsOfWheel DEF DecoderTypes, NoEdge, Lesser

LEMMA TurnKeepsTypes ==
  ASSUME DecoderTypes, NEW wellBehaved \in BOOLEAN, Turn(wellBehaved)
  PROVE  slot' \in 0 .. Cycle - 1 /\ clean' \in Nat
  <1>1. slot' \in 0 .. Cycle - 1
    BY NextPosition DEF Turn, DecoderTypes
  <1>2. Lesser(clean + 1, MaxClean) \in Nat
    BY TriggerAssumption DEF TriggerAssumption, DecoderTypes, Lesser
  <1>3. clean' \in {0, clean, Lesser(clean + 1, MaxClean)}
    BY Zenon DEF Turn
  <1> QED BY <1>1, <1>2, <1>3 DEF DecoderTypes

LEMMA StepKeepsTypes == DecoderTypes /\ [Next]_vars => DecoderTypes'
  <1> SUFFICES ASSUME DecoderTypes, [Next]_vars PROVE DecoderTypes'
    OBVIOUS
  <1>1. CASE \E w \in BOOLEAN : Turn(w) /\ (DecodeTriggerEvent \/ NoEdge)
    BY <1>1, TurnKeepsTypes, DecodeKeepsTypes, NoEdgeKeepsTypes, Zenon DEF DecoderTypes
  <1>2. CASE Pause
    BY <1>2, ConstantsOfWheel DEF Pause, DecoderTypes
  <1>3. CASE UNCHANGED <<slot, decoderVars, clean>>
    BY <1>3, Zenon DEF decoderVars, DecoderTypes
  <1> QED BY <1>1, <1>2, <1>3, KindsOfSteps, Zenon

-----------------------------------------------------------------------------
(* An undisturbed turn counts the passages of the gap.                     *)
LEMMA CleanTurn ==
  ASSUME DecoderTypes, Turn(TRUE)
  PROVE  /\ Position(slot) \in 0 .. Revolution - 1
         /\ \/ Position(slot') = 0 /\ Position(slot) = Revolution - 1
               /\ clean' <= clean + 1
            \/ Position(slot') = Position(slot) + 1 /\ clean' = clean
               /\ Position(slot) < Revolution - 1
  <1>1. /\ Position(slot) \in 0 .. Revolution - 1
        /\ Position(slot') = IF Position(slot) = Revolution - 1 THEN 0 ELSE Position(slot) + 1
    BY NextPosition DEF Turn, DecoderTypes
  <1>2. Position(slot') # 0 => clean' = clean
    BY Zenon DEF Turn
  <1>3. Lesser(clean + 1, MaxClean) <= clean + 1 /\ clean <= clean + 1
    BY TriggerAssumption DEF TriggerAssumption, Lesser, DecoderTypes
  <1>4. clean' \in {clean, Lesser(clean + 1, MaxClean)}
    BY Zenon DEF Turn
  <1>5. clean' <= clean + 1
    BY <1>3, <1>4
  <1> QED BY <1>1, <1>2, <1>5, ConstantsOfWheel

(* An edge of the wheel comes at an even place before the gap.             *)
LEMMA TeethOfWheel ==
  ASSUME NEW s \in 0 .. Cycle - 1
  PROVE  /\ HasTooth(s) <=> Position(s) % 2 = 0 /\ Position(s) <= LastPosition
         /\ LastTooth(s) = IF Position(s) <= LastPosition
                           THEN Position(s) \div 2 ELSE NumTeeth - 1
  <1>1. Position(s) \in 0 .. Revolution - 1
    BY NextPosition
  <1>2. ToothAt(s) < NumTeeth <=> Position(s) <= LastPosition + 1
    BY <1>1, ConstantsOfWheel DEF ToothAt, LastPosition
  <1>3. Position(s) = LastPosition + 1 => Position(s) \div 2 = NumTeeth - 1 /\ Position(s) % 2 = 1
    BY <1>1, ConstantsOfWheel DEF LastPosition
  <1>4. Position(s) \div 2 = ToothAt(s)
    BY DEF ToothAt
  <1> QED
    BY <1>1, <1>2, <1>3, <1>4, ConstantsOfWheel DEF HasTooth, LastTooth

(* What the decoder makes of an edge that the last second saw another one  *)
(* before.                                                                 *)
LEMMA DecodedEdge ==
  ASSUME DecoderTypes, DecodeTriggerEvent, elapsed < Second
  PROVE  LET gap == 2 * (elapsed + 1) > 3 * lastDuration /\ 2 * (elapsed + 1) < 5 * lastDuration IN
         /\ elapsed' = 0 /\ lastDuration' = elapsed + 1
         /\ gap => synced' /\ index' = 0
         /\ ~gap => synced' = synced /\ index' = Lesser(index + 1, NumTeeth)
  <1>1. PICK sync \in SynchronizationOutcomes :
          /\ synced' = (sync \/ (synced /\ ~Silence))
          /\ index' = IF sync THEN 0 ELSE Lesser(index + 1, NumTeeth)
          /\ lastDuration' = Duration
          /\ elapsed' = 0
    BY Zenon DEF DecodeTriggerEvent
  <1>2. Duration = elapsed + 1 /\ ~Silence
    BY DurationIsTime
  <1>3. sync = (2 * Duration > 3 * lastDuration /\ 2 * Duration < 5 * lastDuration)
    BY <1>1, <1>2, Zenon DEF SynchronizationOutcomes
  <1>4. synced \in BOOLEAN
    BY DEF DecoderTypes
  <1> QED BY <1>1, <1>2, <1>3, <1>4, Zenon

-----------------------------------------------------------------------------
(* An undisturbed tooth keeps the invariant: the gap, and only the gap, is *)
(* recognised.                                                             *)
LEMMA ToothKeepsInv ==
  ASSUME DecoderInv, DecoderTypes', Turn(TRUE), HasTooth(slot'), DecodeTriggerEvent
  PROVE  DecoderInv'
  <1> DEFINE p == Position(slot)
             q == Position(slot')
  <1>1. /\ p \in 0 .. Revolution - 1 /\ q \in 0 .. Revolution - 1
        /\ \/ q = 0 /\ p = Revolution - 1 /\ clean' <= clean + 1
           \/ q = p + 1 /\ clean' = clean /\ p < Revolution - 1
    BY CleanTurn, ConstantsOfWheel DEF DecoderInv
  <1>2. q % 2 = 0 /\ q <= LastPosition
    BY TeethOfWheel DEF DecoderTypes
  <1>3. elapsed \in Nat /\ lastDuration \in Nat /\ clean \in Nat /\ clean' \in Nat
    BY DEF DecoderInv, DecoderTypes
  <1>4. clean >= 1 => /\ p <= LastPosition => elapsed = p % 2
                      /\ p > LastPosition => elapsed = p - LastPosition
                      /\ p >= 2 => lastDuration = 2
    BY Zenon DEF DecoderInv, TimesOfWheel
  <1>5. clean >= 2 => /\ synced /\ index = LastTooth(slot)
                      /\ p < 2 => lastDuration = 4
    BY Zenon DEF DecoderInv, IndexOfWheel
  <1>6. Second \in Nat /\ Second > 4
    BY TriggerAssumption DEF TriggerAssumption
  <1>7. elapsed' = 0
    BY Zenon DEF DecodeTriggerEvent
  <1>8. CASE q = 0
    <2>1. p = LastPosition + 3
      BY <1>1, <1>8, ConstantsOfWheel
    <2>2. LastTooth(slot') = 0
      BY <1>8, TeethOfWheel, ConstantsOfWheel DEF DecoderTypes
    <2>3. clean >= 1 => elapsed = 3 /\ lastDuration = 2
      BY <1>4, <2>1, ConstantsOfWheel
    <2>4. clean >= 1 => synced' /\ index' = 0 /\ lastDuration' = 4
      <3> SUFFICES ASSUME clean >= 1 PROVE synced' /\ index' = 0 /\ lastDuration' = 4
        OBVIOUS
      <3>1. 2 * (elapsed + 1) > 3 * lastDuration /\ 2 * (elapsed + 1) < 5 * lastDuration
        BY <2>3
      <3>2. elapsed < Second
        BY <2>3, <1>6
      <3>3. synced' /\ index' = 0 /\ lastDuration' = elapsed + 1
        BY <3>1, <3>2, DecodedEdge, Zenon DEF DecoderInv
      <3> QED BY <3>3, <2>3
    <2>5. clean' >= 2 => clean >= 1
      BY <1>1, <1>3
    <2>6. TimesOfWheel'
      <3>1. q <= LastPosition /\ ~(q > LastPosition) /\ ~(q >= 2) /\ q % 2 = 0
        BY <1>8, ConstantsOfWheel
      <3> QED BY <1>7, <3>1, Zenon DEF TimesOfWheel
    <2>7. IndexOfWheel'
      BY <2>2, <2>4, <2>5, Zenon DEF IndexOfWheel
    <2> QED BY <2>6, <2>7 DEF DecoderInv
  <1>9. CASE q # 0
    <2>1. q = p + 1 /\ clean' = clean /\ p < LastPosition /\ q >= 2 /\ p % 2 = 1
      BY <1>1, <1>2, <1>9, ConstantsOfWheel
    <2>2. clean >= 1 => elapsed = 1
      <3>1. p <= LastPosition
        BY <1>1, <2>1, ConstantsOfWheel
      <3> QED BY <1>4, <2>1, <3>1, Zenon
    <2>3. clean >= 1 => lastDuration' = 2
      BY <1>6, <2>2, DecodedEdge DEF DecoderInv
    <2>4. clean >= 2 => synced' /\ index' = LastTooth(slot')
      <3> SUFFICES ASSUME clean >= 2 PROVE synced' /\ index' = LastTooth(slot')
        OBVIOUS
      <3>1. elapsed = 1 /\ lastDuration \in {2, 4}
        BY <1>1, <1>4, <1>5, <1>3, <2>2
      <3>2. elapsed < Second
        BY <3>1, <1>6
      <3>3. ~(2 * (elapsed + 1) > 3 * lastDuration /\ 2 * (elapsed + 1) < 5 * lastDuration)
        BY <3>1
      <3>4. synced' = synced /\ index' = Lesser(index + 1, NumTeeth)
        BY <3>2, <3>3, DecodedEdge, Zenon DEF DecoderInv
      <3>5. index = p \div 2 /\ LastTooth(slot') = q \div 2
        <4>1. LastTooth(slot) = p \div 2
          BY <2>1, <1>1, TeethOfWheel, ConstantsOfWheel DEF DecoderInv, DecoderTypes
        <4>2. LastTooth(slot') = q \div 2
          BY <1>2, TeethOfWheel DEF DecoderTypes
        <4> QED BY <4>1, <4>2, <1>5
      <3>6. index + 1 = q \div 2 /\ index + 1 < NumTeeth
        <4>1. q \div 2 = p \div 2 + 1
          BY <1>1, <2>1, ConstantsOfWheel
        <4>2. q \div 2 < NumTeeth
          BY <1>1, <1>2, ConstantsOfWheel DEF LastPosition
        <4> QED BY <3>5, <4>1, <4>2
      <3>7. Lesser(index + 1, NumTeeth) = index + 1
        BY <3>6, Zenon DEF Lesser
      <3> QED BY <3>4, <3>5, <3>6, <3>7, <1>5
    <2>5. TimesOfWheel'
      <3>1. q <= LastPosition /\ ~(q > LastPosition) /\ q % 2 = 0
        BY <1>1, <1>2, ConstantsOfWheel
      <3> QED BY <1>7, <2>1, <2>3, <3>1, Zenon DEF TimesOfWheel
    <2>6. IndexOfWheel'
      BY <1>1, <2>1, <2>4, ConstantsOfWheel DEF IndexOfWheel
    <2> QED BY <2>5, <2>6 DEF DecoderInv
  <1> QED BY <1>8, <1>9

(* So does a turn past no tooth: the time goes on.                         *)
LEMMA NoToothKeepsInv ==
  ASSUME DecoderInv, DecoderTypes', Turn(TRUE), ~HasTooth(slot'), NoEdge
  PROVE  DecoderInv'
  <1> DEFINE p == Position(slot)
             q == Position(slot')
  <1>1. p \in 0 .. Revolution - 1 /\ q \in 0 .. Revolution - 1
    BY CleanTurn, ConstantsOfWheel DEF DecoderInv
  <1>2. q % 2 # 0 \/ q > LastPosition
    BY <1>1, TeethOfWheel, ConstantsOfWheel DEF DecoderTypes
  <1>3. q = p + 1 /\ clean' = clean /\ p < Revolution - 1
    BY <1>1, <1>2, CleanTurn, ConstantsOfWheel DEF DecoderInv
  <1>4. elapsed \in Nat /\ lastDuration' = lastDuration /\ index' = index /\ synced' = synced
    BY DEF DecoderInv, DecoderTypes, NoEdge
  <1>5. clean >= 1 => /\ p <= LastPosition => elapsed = p % 2
                      /\ p > LastPosition => elapsed = p - LastPosition
                      /\ p >= 2 => lastDuration = 2
    BY Zenon DEF DecoderInv, TimesOfWheel
  <1>6. clean >= 2 => /\ synced /\ index = LastTooth(slot)
                      /\ p < 2 => lastDuration = 4
    BY Zenon DEF DecoderInv, IndexOfWheel
  <1>7. clean >= 1 => elapsed <= 2
    BY <1>1, <1>3, <1>5, ConstantsOfWheel
  <1>8. clean >= 1 => elapsed' = elapsed + 1
    <2>1. elapsed' = Lesser(elapsed + 1, Silent)
      BY Zenon DEF NoEdge
    <2> QED BY <2>1, <1>4, <1>7, ConstantsOfWheel DEF Lesser
  <1>9. p >= 2 \/ q < 2
    <2>1. q # 2
      BY <1>2, ConstantsOfWheel
    <2> QED BY <1>1, <1>3, <2>1
  <1>10. TimesOfWheel'
    <2>1. clean >= 1 => /\ q <= LastPosition => elapsed' = q % 2
                        /\ q > LastPosition => elapsed' = q - LastPosition
      BY <1>1, <1>2, <1>3, <1>5, <1>8, ConstantsOfWheel
    <2>2. clean >= 1 => (q >= 2 => lastDuration' = 2)
      BY <1>1, <1>4, <1>5, <1>9
    <2> QED BY <1>3, <2>1, <2>2, Zenon DEF TimesOfWheel
  <1>11. IndexOfWheel'
    <2>1. LastTooth(slot') = LastTooth(slot)
      <3>1. /\ LastTooth(slot) = IF p <= LastPosition THEN p \div 2 ELSE NumTeeth - 1
            /\ LastTooth(slot') = IF q <= LastPosition THEN q \div 2 ELSE NumTeeth - 1
        BY TeethOfWheel DEF DecoderInv, DecoderTypes
      <3>2. CASE q <= LastPosition
        BY <3>1, <3>2, <1>1, <1>2, <1>3, ConstantsOfWheel
      <3>3. CASE q > LastPosition
        BY <3>1, <3>3, <1>1, <1>3, ConstantsOfWheel DEF LastPosition
      <3> QED BY <3>2, <3>3, <1>1, ConstantsOfWheel
    <2>2. q < 2 => p < 2
      BY <1>1, <1>3
    <2> QED BY <1>3, <1>4, <1>6, <2>1, <2>2, Zenon DEF IndexOfWheel
  <1> QED BY <1>10, <1>11 DEF DecoderInv

-----------------------------------------------------------------------------
LEMMA InitHasInv == Init => DecoderInv
  <1> SUFFICES ASSUME Init PROVE DecoderInv
    OBVIOUS
  <1>1. DecoderTypes
    BY ConstantsOfWheel DEF Init, DecoderTypes
  <1>2. clean = 0
    BY DEF Init
  <1> QED BY <1>1, <1>2 DEF DecoderInv, TimesOfWheel, IndexOfWheel

LEMMA StepKeepsInv == DecoderInv /\ [Next]_vars => DecoderInv'
  <1> SUFFICES ASSUME DecoderInv, [Next]_vars PROVE DecoderInv'
    OBVIOUS
  <1>1. DecoderTypes'
    BY StepKeepsTypes DEF DecoderInv
  <1>2. CASE Turn(TRUE) /\ HasTooth(slot') /\ DecodeTriggerEvent
    BY <1>1, <1>2, ToothKeepsInv
  <1>3. CASE Turn(TRUE) /\ ~HasTooth(slot') /\ NoEdge
    BY <1>1, <1>3, NoToothKeepsInv
  <1>4. CASE clean' = 0
    BY <1>1, <1>4 DEF DecoderInv, TimesOfWheel, IndexOfWheel
  <1>5. CASE UNCHANGED <<slot, decoderVars, clean>>
    BY <1>1, <1>5, Zenon
    DEF DecoderInv, TimesOfWheel, IndexOfWheel, decoderVars, Position, LastTooth, ToothAt
  <1>6. Turn(FALSE) \/ Pause => clean' = 0
    BY Zenon DEF Turn, Pause
  <1> QED BY <1>2, <1>3, <1>4, <1>5, <1>6, KindsOfSteps, Zenon

(* Whatever edges were lost or added before, once the gap has passed twice *)
(* undisturbed the decoder is synchronized and its index is the tooth that *)
(* passed last, on a wheel of any number of teeth (decodeTriggerEvent).    *)
THEOREM SyncAlwaysRecovers == Spec => []SyncRecovers
  <1>1. DecoderInv => SyncRecovers
    BY Zenon DEF DecoderInv, IndexOfWheel, SyncRecovers
  <1> QED BY <1>1, InitHasInv, StepKeepsInv, PTL DEF Spec

-----------------------------------------------------------------------------
(* Types.  The rpm variables, as the record that goes through an edge.     *)
Degrees == {"NAN", "inf", "known"}
RpmRecords == [rpm : RpmValues, degree : Degrees, state : States, isSpinning : BOOLEAN]

SlowSteps == {"idle", "spinning", "rpm", "test", "nan", "inf", "state"}

LEMMA AssignKeepsRecord ==
  ASSUME NEW r \in RpmRecords, NEW value \in RpmValues
  PROVE  Assign(r, value) \in RpmRecords
  <1>1. (IF value \in {"zero", "noisy"} THEN "NAN" ELSE "known") \in Degrees
    BY DEF Degrees
  <1> QED BY <1>1 DEF RpmRecords, Assign

LEMMA SetStateKeepsRecord ==
  ASSUME NEW r \in RpmRecords, NEW st \in States, NEW spins \in BOOLEAN
  PROVE  /\ [r EXCEPT !.state = st] \in RpmRecords
         /\ [r EXCEPT !.isSpinning = spins, !.state = st] \in RpmRecords
         /\ [r EXCEPT !.state = st, !.isSpinning = spins] \in RpmRecords
  BY DEF RpmRecords

LEMMA NamesOfStates ==
  /\ "STOPPED" \in States /\ "SPINNING_UP" \in States
  /\ "CRANKING" \in States /\ "RUNNING" \in States
  BY DEF States

LEMMA NamesOfRpm ==
  /\ "zero" \in RpmValues /\ "noisy" \in RpmValues /\ "instant" \in RpmValues
  /\ "right" \in RpmValues /\ "wrong" \in RpmValues
  BY DEF RpmValues

LEMMA SetRpmValueKeepsRecord ==
  ASSUME NEW r \in RpmRecords, NEW value \in RpmValues, NEW running \in BOOLEAN
  PROVE  SetRpmValue(r, value, running) \in RpmRecords
  <1> DEFINE a == Assign(r, value)
             st == IF running /\ value # "noisy" THEN "RUNNING"
                   ELSE IF a.state \in {"STOPPED", "SPINNING_UP"} THEN "CRANKING"
                   ELSE a.state
  <1>1. a \in RpmRecords
    BY AssignKeepsRecord
  <1>2. a.state \in States
    BY <1>1 DEF RpmRecords
  <1>3. st \in States
    BY <1>2, NamesOfStates
  <1>4. SetRpmValue(r, value, running) = [a EXCEPT !.state = st]
    BY DEF SetRpmValue
  <1> HIDE DEF a, st
  <1> QED BY <1>1, <1>3, <1>4, SetStateKeepsRecord

LEMMA SetStopSpinningKeepsRecord ==
  ASSUME NEW r \in RpmRecords
  PROVE  SetStopSpinning(r) \in RpmRecords
  <1>1. (IF r.rpm = "zero" THEN r ELSE Assign(r, "zero")) \in RpmRecords
    BY AssignKeepsRecord, NamesOfRpm
  <1> QED BY <1>1, SetStateKeepsRecord, NamesOfStates, Zenon DEF SetStopSpinning

LEMMA SetSpinningUpKeepsRecord ==
  ASSUME NEW r \in RpmRecords
  PROVE  SetSpinningUp(r) \in RpmRecords
  BY SetStateKeepsRecord, NamesOfStates, Zenon DEF SetSpinningUp

LEMMA AfterRpmCallbackKeepsRecord ==
  ASSUME NEW r \in RpmRecords, NEW time \in Int, NEW s \in AfterRpmCallback(r, time)
  PROVE  s \in RpmRecords
  <1> DEFINE first == IF ListenersIndex = 0 THEN AtFirstTooth(r, time) ELSE r
  <1>1. Measured(time) \in RpmValues
    BY NamesOfRpm, Zenon DEF Measured
  <1>2. AtFirstTooth(r, time) \in RpmRecords
    <2>1. (time <= Cycle) \in BOOLEAN
      OBVIOUS
    <2>2. SetRpmValue(r, Measured(time), time <= Cycle) \in RpmRecords
      BY <1>1, <2>1, SetRpmValueKeepsRecord, Zenon
    <2> QED BY <2>2, Zenon DEF AtFirstTooth
  <1>3. first \in RpmRecords
    BY <1>2, Zenon
  <1>4. s \in (IF first.state = "SPINNING_UP"
               THEN {Assign(first, value) : value \in {"zero", "noisy", "instant"}}
               ELSE {first})
    BY Zenon DEF AfterRpmCallback
  <1> HIDE DEF first
  <1>5. s = first \/ \E value \in {"zero", "noisy", "instant"} : s = Assign(first, value)
    BY <1>4, Zenon
  <1> QED BY <1>3, <1>5, AssignKeepsRecord, NamesOfRpm

-----------------------------------------------------------------------------
(* What an edge does keeps the types.                                      *)
DecoderTypesBounded ==
  /\ elapsed \in 0 .. Silent /\ lastDuration \in 0 .. Silent
  /\ synced \in BOOLEAN
  /\ index \in 0 .. NumTeeth

RpmTypes ==
  /\ rpm \in RpmValues /\ degree \in Degrees /\ state \in States /\ isSpinning \in BOOLEAN
  /\ sinceRpm \in 0 .. RpmTimeout

ShaftTypes ==
  /\ slot \in 0 .. Cycle - 1
  /\ slowPc \in SlowSteps
  /\ preempted \in 0 .. Preemptions
  /\ clean \in 0 .. MaxClean

TypesByPart == ShaftTypes /\ DecoderTypesBounded /\ RpmTypes /\ revolution \in {0, 1}

LEMMA TypesByPartIsTypeOK == TypesByPart <=> TypeOK
  BY Zenon DEF TypesByPart, ShaftTypes, DecoderTypesBounded, RpmTypes, TypeOK, Degrees, SlowSteps

LEMMA BoundsAreNatural ==
  /\ Silent \in Nat /\ RpmTimeout \in Nat /\ NumTeeth \in Nat
  /\ Preemptions \in Nat /\ MaxClean \in Nat
  BY TriggerAssumption DEF TriggerAssumption, Silent, RpmTimeout, NumTeeth

LEMMA LesserIsBounded ==
  ASSUME NEW bound \in Nat, NEW n \in 0 .. bound
  PROVE  Lesser(n + 1, bound) \in 0 .. bound
  BY DEF Lesser

LEMMA DecodeKeepsBounds ==
  ASSUME DecoderTypesBounded, DecodeTriggerEvent
  PROVE  DecoderTypesBounded'
  <1>1. PICK sync \in SynchronizationOutcomes :
          /\ synced' = (sync \/ (synced /\ ~Silence))
          /\ index' = IF sync THEN 0 ELSE Lesser(index + 1, NumTeeth)
          /\ lastDuration' = Duration
          /\ elapsed' = 0
    BY Zenon DEF DecodeTriggerEvent
  <1>2. Lesser(index + 1, NumTeeth) \in 0 .. NumTeeth /\ Duration \in 0 .. Silent
    BY LesserIsBounded, BoundsAreNatural DEF DecoderTypesBounded, Duration
  <1>3. 0 \in 0 .. NumTeeth /\ 0 \in 0 .. Silent
    BY BoundsAreNatural
  <1>4. index' \in 0 .. NumTeeth
    BY <1>1, <1>2, <1>3, Zenon
  <1>5. synced' \in BOOLEAN
    BY <1>1, Zenon
  <1> QED BY <1>1, <1>2, <1>3, <1>4, <1>5, Zenon DEF DecoderTypesBounded

LEMMA DecodeKeepsRevolution ==
  ASSUME revolution \in {0, 1}, DecodeTriggerEvent
  PROVE  revolution' \in {0, 1}
  BY DEF DecodeTriggerEvent

LEMMA ListenersKeepTypes ==
  ASSUME RpmTypes, NotifyListeners
  PROVE  RpmTypes'
  <1> DEFINE time == Lesser(sinceRpm + 1, RpmTimeout)
             before == IF Silence THEN SetStopSpinning(Rpm) ELSE Rpm
             decoded == IF ValidIndex THEN SetSpinningUp(before) ELSE before
             listen == synced' /\ ValidIndex
  <1>1. time \in 0 .. RpmTimeout /\ time \in Int /\ 0 \in 0 .. RpmTimeout
    BY LesserIsBounded, BoundsAreNatural DEF RpmTypes
  <1>2. Rpm \in RpmRecords
    BY DEF Rpm, RpmRecords, RpmTypes
  <1>3. decoded \in RpmRecords
    BY <1>2, SetStopSpinningKeepsRecord, SetSpinningUpKeepsRecord, Zenon
  <1>4. PICK r \in (IF listen THEN AfterRpmCallback(decoded, time) ELSE {decoded}) :
          /\ rpm' = r.rpm /\ degree' = r.degree
          /\ state' = r.state /\ isSpinning' = r.isSpinning
          /\ sinceRpm' = IF listen /\ ListenersIndex = 0 THEN 0 ELSE time
    BY Zenon DEF NotifyListeners
  <1> HIDE DEF time, decoded, listen
  <1>5. r \in RpmRecords
    BY <1>1, <1>3, <1>4, AfterRpmCallbackKeepsRecord, Zenon
  <1>6. /\ r.rpm \in RpmValues /\ r.degree \in Degrees
        /\ r.state \in States /\ r.isSpinning \in BOOLEAN
    BY <1>5 DEF RpmRecords
  <1>7. sinceRpm' \in 0 .. RpmTimeout
    BY <1>1, <1>4, Zenon
  <1> QED BY <1>4, <1>6, <1>7, Zenon DEF RpmTypes

LEMMA NoEdgeKeepsBounds ==
  ASSUME DecoderTypesBounded, RpmTypes, NoEdge
  PROVE  DecoderTypesBounded' /\ RpmTypes'
  <1>1. Lesser(elapsed + 1, Silent) \in 0 .. Silent
    BY LesserIsBounded, BoundsAreNatural DEF DecoderTypesBounded
  <1>2. Lesser(sinceRpm + 1, RpmTimeout) \in 0 .. RpmTimeout
    BY LesserIsBounded, BoundsAreNatural DEF RpmTypes
  <1> QED BY <1>1, <1>2, Zenon DEF NoEdge, DecoderTypesBounded, RpmTypes

LEMMA TurnKeepsBounds ==
  ASSUME ShaftTypes, NEW wellBehaved \in BOOLEAN, Turn(wellBehaved)
  PROVE  ShaftTypes'
  <1>1. slot' \in 0 .. Cycle - 1
    BY NextPosition DEF Turn, ShaftTypes
  <1>2. clean' \in {0, clean, Lesser(clean + 1, MaxClean)}
    BY Zenon DEF Turn
  <1>3. clean' \in 0 .. MaxClean
    BY <1>2, LesserIsBounded, BoundsAreNatural DEF ShaftTypes
  <1>4. preempted' = 0 \/ (preempted < Preemptions /\ preempted' = preempted + 1)
    BY Zenon DEF Turn
  <1>5. preempted' \in 0 .. Preemptions
    BY <1>4, BoundsAreNatural DEF ShaftTypes
  <1>6. slowPc' \in SlowSteps
    BY Zenon DEF Turn, ShaftTypes
  <1> QED BY <1>1, <1>3, <1>5, <1>6, Zenon DEF ShaftTypes

LEMMA NextKeepsTypes == TypesByPart /\ [Next]_vars => TypesByPart'
  <1> SUFFICES ASSUME TypesByPart, [Next]_vars PROVE TypesByPart'
    OBVIOUS
  <1>1. CASE \E w \in BOOLEAN : Turn(w) /\ HandleShaftSignal
    BY <1>1, TurnKeepsBounds, DecodeKeepsBounds, DecodeKeepsRevolution, ListenersKeepTypes, Zenon
    DEF TypesByPart, HandleShaftSignal
  <1>2. CASE \E w \in BOOLEAN : Turn(w) /\ NoEdge /\ (UNCHANGED revolution \/ HandleVvtCamSignal)
    <2>1. revolution' \in {0, 1}
      BY <1>2 DEF TypesByPart, HandleVvtCamSignal
    <2> QED BY <1>2, <2>1, TurnKeepsBounds, NoEdgeKeepsBounds, Zenon DEF TypesByPart
  <1>3. CASE Pause
    <2>1. Silent \in 0 .. Silent /\ RpmTimeout \in 0 .. RpmTimeout /\ 0 \in 0 .. MaxClean
      BY BoundsAreNatural
    <2>2. sinceRpm \in 0 .. RpmTimeout
      BY DEF TypesByPart, RpmTypes
    <2>3. Lesser(sinceRpm + RpmTimeout \div 2, RpmTimeout) \in 0 .. RpmTimeout
      BY <2>2, BoundsAreNatural DEF Lesser
    <2>4. sinceRpm' \in {Lesser(sinceRpm + RpmTimeout \div 2, RpmTimeout), RpmTimeout}
      BY <1>3, Zenon DEF Pause
    <2>5. sinceRpm' \in 0 .. RpmTimeout
      BY <2>1, <2>3, <2>4, Zenon
    <2> QED
      BY <1>3, <2>1, <2>5, Zenon
      DEF Pause, TypesByPart, ShaftTypes, DecoderTypesBounded, RpmTypes, slowVars
  <1>4. CASE SlowCallback
    <2>1. /\ 0 \in 0 .. Preemptions /\ "zero" \in RpmValues /\ "STOPPED" \in States
          /\ "NAN" \in Degrees /\ "inf" \in Degrees
      BY BoundsAreNatural, NamesOfRpm, NamesOfStates DEF Degrees
    <2>2. \A next \in SlowSteps : SlowVarsTo(next) /\ TypesByPart =>
            ShaftTypes' /\ DecoderTypesBounded' /\ revolution' \in {0, 1}
                /\ sinceRpm' = sinceRpm
      BY Zenon DEF SlowVarsTo, TypesByPart, ShaftTypes, DecoderTypesBounded, decoderVars
    <2>3. /\ "spinning" \in SlowSteps /\ "rpm" \in SlowSteps /\ "test" \in SlowSteps
          /\ "nan" \in SlowSteps /\ "inf" \in SlowSteps /\ "state" \in SlowSteps
          /\ "idle" \in SlowSteps
      BY DEF SlowSteps
    <2>4. CASE CheckIfSpinning
      BY <2>1, <2>3, <2>4, Zenon
      DEF CheckIfSpinning, TypesByPart, ShaftTypes, DecoderTypesBounded, RpmTypes, decoderVars, rpmVars
    <2>5. CASE ClearSpinning
      <3>1. (IF rpm = "zero" THEN "state" ELSE "rpm") \in SlowSteps
        BY <2>3, Zenon
      <3> QED BY <2>2, <2>5, <3>1, Zenon DEF ClearSpinning, TypesByPart, RpmTypes
    <2>6. CASE ClearRpm
      BY <2>1, <2>2, <2>3, <2>6, Zenon DEF ClearRpm, TypesByPart, RpmTypes
    <2>7. CASE TestRpm
      <3>1. (IF rpm \in {"zero", "noisy"} THEN "nan" ELSE "inf") \in SlowSteps
        BY <2>3, Zenon
      <3> QED BY <2>2, <2>7, <3>1, Zenon DEF TestRpm, TypesByPart, RpmTypes
    <2>8. CASE ClearDegree
      <3>1. degree' \in Degrees
        BY <2>1, <2>8, Zenon DEF ClearDegree
      <3> QED BY <2>2, <2>3, <2>8, <3>1, Zenon DEF ClearDegree, TypesByPart, RpmTypes
    <2>9. CASE ClearState
      BY <2>1, <2>2, <2>3, <2>9, Zenon DEF ClearState, TypesByPart, RpmTypes
    <2> QED BY <1>4, <2>4, <2>5, <2>6, <2>7, <2>8, <2>9, Zenon DEF SlowCallback
  <1>5. CASE UNCHANGED vars
    BY <1>5, Zenon
    DEF vars, decoderVars, rpmVars, slowVars, TypesByPart, ShaftTypes, DecoderTypesBounded, RpmTypes
  <1>6. Coast \/ Cam => \/ \E w \in BOOLEAN : Turn(w) /\ HandleShaftSignal
                        \/ \E w \in BOOLEAN :
                             Turn(w) /\ NoEdge /\ (UNCHANGED revolution \/ HandleVvtCamSignal)
    BY Zenon DEF Coast, Cam
  <1>7. LoseEdge \/ NoiseEdge \/ LoseCam \/ NoiseCam =>
          \/ \E w \in BOOLEAN : Turn(w) /\ HandleShaftSignal
          \/ \E w \in BOOLEAN :
               Turn(w) /\ NoEdge /\ (UNCHANGED revolution \/ HandleVvtCamSignal)
    BY Zenon DEF LoseEdge, NoiseEdge, LoseCam, NoiseCam
  <1> QED BY <1>1, <1>2, <1>3, <1>4, <1>5, <1>6, <1>7, Zenon DEF Next

LEMMA InitHasTypes == Init => TypesByPart
  <1> SUFFICES ASSUME Init PROVE TypesByPart
    OBVIOUS
  <1>1. ShaftTypes
    BY BoundsAreNatural DEF Init, ShaftTypes, SlowSteps
  <1>2. DecoderTypesBounded
    <2>1. Silent \in 0 .. Silent /\ 0 \in 0 .. Silent /\ 0 \in 0 .. NumTeeth
      BY BoundsAreNatural
    <2> QED BY <2>1, Zenon DEF Init, DecoderTypesBounded
  <1>3. RpmTypes
    <2>1. RpmTimeout \in 0 .. RpmTimeout /\ "NAN" \in Degrees
      BY BoundsAreNatural DEF Degrees
    <2> QED BY <2>1, NamesOfRpm, NamesOfStates, Zenon DEF Init, RpmTypes
  <1> QED BY <1>1, <1>2, <1>3 DEF Init, TypesByPart

(* All variables of the trigger keep their types, the rpm and its state    *)
(* among them wherever the slow callback is interrupted                    *)
(* (rpm_calculator.cpp), for every wheel and speed.                        *)
THEOREM TriggerTypesAreKept == Spec => []TypeOK
  BY InitHasTypes, NextKeepsTypes, TypesByPartIsTypeOK, PTL DEF Spec
=============================================================================
