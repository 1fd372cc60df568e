---------------------------- MODULE TriggerCentral ----------------------------
(***************************************************************************)
(* From the crank sensor to the rpm (controllers/trigger/                  *)
(* trigger_decoder.cpp, trigger_central.cpp and                            *)
(* engine_cycle/rpm_calculator.cpp).                                       *)
(*                                                                         *)
(* A wheel with one missing tooth on the crankshaft of a four-stroke       *)
(* engine: Pitches pitches in a revolution, Pitches - 1 teeth, rising      *)
(* edges only.  The unit of time and of angle is half a pitch: the shaft   *)
(* turns evenly or stands still.  Edges are lost, noise adds some, and the *)
(* cam signal that tells the two revolutions of a cycle apart may be lost  *)
(* or come in the wrong one.  The handler of an edge interrupts the slow   *)
(* callback, which stops the engine's rpm in several steps.                *)
(***************************************************************************)
EXTENDS Integers

CONSTANTS
  Pitches,       \* pitches of the wheel, the missing tooth included
  FasterSpinUp,  \* engineConfiguration->isFasterEngineSpinUpEnabled
  Second,        \* a second, in half pitches: the speed of the shaft
  Unrealistic,   \* a cycle of at most this is above UNREALISTIC_RPM
  Preemptions,   \* bound of the half pitches a slow callback may take
  MaxClean       \* bound of clean

ASSUME TriggerAssumption ==
  /\ Pitches \in Nat /\ Pitches > 2
  /\ FasterSpinUp \in BOOLEAN
  /\ Second \in Nat /\ Second > 4   \* the gap takes less than a second
  /\ Unrealistic \in Nat
  /\ Preemptions \in Nat /\ MaxClean \in Nat

Revolution == 2 * Pitches    \* in half pitches
Cycle == 2 * Revolution
NumTeeth == Pitches - 1      \* getTriggerSize(), in teeth
CamSlot == 1                 \* where the cam signal comes in the cycle
Silent == Second + 1         \* more than a second since the last edge
RpmTimeout == 2 * Second     \* NO_RPM_EVENTS_TIMEOUT_SECS

RpmValues == {"zero", "noisy", "instant", "right", "wrong"}
States == {"STOPPED", "SPINNING_UP", "CRANKING", "RUNNING"}

VARIABLES
  slot,         \* where the shaft is in the cycle
  elapsed,      \* since the last edge, toothed_previous_time
  lastDuration, \* toothDurations[1]
  synced,       \* shaft_is_synchronized
  index,        \* currentCycle.current_index, in teeth
  revolution,   \* totalRevolutionCounter % 2
  rpm,          \* rpmValue: none, noise, instant rpm, or a measured cycle
  degree,       \* oneDegreeUs: "NAN", "inf" or "known"
  state,        \* spinning_state_e
  isSpinning,   \* RpmCalculator::isSpinning
  sinceRpm,     \* time since lastRpmEventTimeNt
  slowPc,       \* where the slow callback is
  preempted,    \* half pitches since it began
  clean         \* history: how often the gap has passed since a disturbance

decoderVars == <<elapsed, lastDuration, synced, index>>
rpmVars == <<rpm, degree, state, isSpinning, sinceRpm>>
slowVars == <<slowPc, preempted>>
vars == <<slot, decoderVars, revolution, rpmVars, slowVars, clean>>

(* The shaft stands still anywhere; no edge has been seen.                 *)
Init ==
  /\ slot \in 0 .. Cycle - 1
  /\ elapsed = Silent /\ lastDuration = 0
  /\ synced = FALSE /\ index = 0 /\ revolution = 0
  /\ rpm = "zero" /\ degree = "NAN" /\ state = "STOPPED" /\ isSpinning = FALSE
  /\ sinceRpm = RpmTimeout
  /\ slowPc = "idle" /\ preempted = 0
  /\ clean = 0

Lesser(a, b) == IF a < b THEN a ELSE b

(* Where slot s is in its revolution, and the tooth there, if there is     *)
(* one; the last of a revolution is missing, so tooth 0 follows the gap.   *)
Position(s) == IF s < Revolution THEN s ELSE s - Revolution
ToothAt(s) == Position(s) \div 2
HasTooth(s) == Position(s) % 2 = 0 /\ ToothAt(s) < NumTeeth

-----------------------------------------------------------------------------
(* The decoder.                                                            *)

(* The time since the edge before the one that comes now.                  *)
Duration == Lesser(elapsed + 1, Silent)
Silence == Duration = Silent

(* The gap condition of decodeTriggerEvent: the ratio of the durations is  *)
(* within a quarter of 2, the ratio of a wheel with one missing tooth.     *)
(* More than a second may be any time: only its lower bound is known.      *)
SynchronizationOutcomes ==
  IF Silence
  THEN {FALSE, 5 * lastDuration > 2 * Silent}
  ELSE {2 * Duration > 3 * lastDuration /\ 2 * Duration < 5 * lastDuration}

(* Mutant: the gap is only looked for until it has been found once.        *)
DecodeTriggerEventOnce ==
  \E sync \in SynchronizationOutcomes :
    /\ synced' = (sync \/ (synced /\ ~Silence))
    /\ index' = IF sync /\ ~synced THEN 0 ELSE Lesser(index + 1, NumTeeth)
    /\ revolution' = IF sync /\ ~synced THEN 1 - revolution ELSE revolution
    /\ lastDuration' = Duration
    /\ elapsed' = 0

(* decodeTriggerEvent: after a second of silence the synchronization is    *)
(* lost; at the synchronization point the index starts again and the       *)
(* revolution counts.                                                      *)
DecodeTriggerEvent ==
  \E sync \in SynchronizationOutcomes :
    /\ synced' = (sync \/ (synced /\ ~Silence))
    /\ index' = IF sync THEN 0 ELSE Lesser(index + 1, NumTeeth)
    /\ revolution' = IF sync THEN 1 - revolution ELSE revolution
    /\ lastDuration' = Duration
    /\ elapsed' = 0

(* isValidIndex, and the index that the listeners get.                     *)
ValidIndex == index' < NumTeeth
ListenersIndex == index' + revolution' * NumTeeth

-----------------------------------------------------------------------------
(* The rpm.  A record of the variables goes through the calls of one edge. *)

Rpm == [rpm |-> rpm, degree |-> degree, state |-> state, isSpinning |-> isSpinning]

(* assignRpmValue                                                          *)
Assign(r, value) ==
  [r EXCEPT !.rpm = value,
            !.degree = IF value \in {"zero", "noisy"} THEN "NAN" ELSE "known"]

(* setRpmValue: a first rpm is cranking, and running stays running.        *)
SetRpmValue(r, value, running) ==
  [Assign(r, value) EXCEPT
     !.state = IF running /\ value # "noisy" THEN "RUNNING"
               ELSE IF @ \in {"STOPPED", "SPINNING_UP"} THEN "CRANKING"
               ELSE @]

(* setStopSpinning, called without interruption.                           *)
SetStopSpinning(r) ==
  [(IF r.rpm = "zero" THEN r ELSE Assign(r, "zero")) EXCEPT
     !.isSpinning = FALSE, !.state = "STOPPED"]

(* setSpinningUp of an engine that isStopped                               *)
SetSpinningUp(r) ==
  IF /\ FasterSpinUp /\ ~r.isSpinning
     /\ r.state = "STOPPED" \/ (r.state = "SPINNING_UP" /\ r.rpm = "zero")
  THEN [r EXCEPT !.state = "SPINNING_UP", !.isSpinning = TRUE]
  ELSE r

(* The value of a cycle that took the given time.                          *)
Measured(time) ==
  IF time <= Unrealistic THEN "noisy"
  ELSE IF time = Cycle THEN "right"
  ELSE "wrong"

(* rpmShaftPositionCallback at the first tooth of the cycle: the rpm is    *)
(* measured unless the last first tooth is too long ago.  The shaft's own  *)
(* speed is above cranking.rpm.                                            *)
AtFirstTooth(r, time) ==
  IF time < RpmTimeout
  THEN SetRpmValue(r, Measured(time), time <= Cycle)
  ELSE r

(* Mutant: the instant rpm is used for as long as the engine spins.        *)
AfterRpmCallbackSpinning(r, time) ==
  LET first == IF ListenersIndex = 0 THEN AtFirstTooth(r, time) ELSE r IN
  IF first.isSpinning
  THEN {Assign(first, value) : value \in {"zero", "noisy", "instant"}}
  ELSE {first}

(* The results of rpmShaftPositionCallback: while spinning up, the instant *)
(* rpm replaces the measured one.                                          *)
AfterRpmCallback(r, time) ==
  LET first == IF ListenersIndex = 0 THEN AtFirstTooth(r, time) ELSE r IN
  IF first.state = "SPINNING_UP"
  THEN {Assign(first, value) : value \in {"zero", "noisy", "instant"}}
  ELSE {first}

(* handleShaftSignal after the decoding: setSpinningUp if the index is     *)
(* valid, the listeners if the shaft is synchronized as well.              *)
NotifyListeners ==
  LET time == Lesser(sinceRpm + 1, RpmTimeout)
      before == IF Silence THEN SetStopSpinning(Rpm) ELSE Rpm
      decoded == IF ValidIndex THEN SetSpinningUp(before) ELSE before
      listen == synced' /\ ValidIndex
  IN
  \E r \in (IF listen THEN AfterRpmCallback(decoded, time) ELSE {decoded}) :
    /\ rpm' = r.rpm /\ degree' = r.degree
    /\ state' = r.state /\ isSpinning' = r.isSpinning
    /\ sinceRpm' = IF listen /\ ListenersIndex = 0 THEN 0 ELSE time

HandleShaftSignal == DecodeTriggerEvent /\ NotifyListeners

-----------------------------------------------------------------------------
(* The shaft.                                                              *)

(* The shaft turns by half a pitch.  A slow callback does not take long.   *)
Turn(wellBehaved) ==
  /\ slowPc = "idle" \/ preempted < Preemptions
  /\ preempted' = IF slowPc = "idle" THEN 0 ELSE preempted + 1
  /\ slot' = IF slot = Cycle - 1 THEN 0 ELSE slot + 1
  /\ clean' = CASE ~wellBehaved -> 0
              [] wellBehaved /\ Position(slot') = 0 -> Lesser(clean + 1, MaxClean)
              [] OTHER -> clean
  /\ UNCHANGED slowPc

(* No edge comes.                                                          *)
NoEdge ==
  /\ elapsed' = Lesser(elapsed + 1, Silent)
  /\ sinceRpm' = Lesser(sinceRpm + 1, RpmTimeout)
  /\ UNCHANGED <<lastDuration, synced, index, rpm, degree, state, isSpinning>>

Coast ==
  /\ Turn(TRUE)
  /\ IF HasTooth(slot') THEN HandleShaftSignal
     ELSE NoEdge /\ slot' # CamSlot /\ UNCHANGED revolution

(* Mutant: the revolution counts on at every cam signal.                   *)
HandleVvtCamSignalAlways ==
  revolution' = IF degree # "NAN" THEN 1 - revolution ELSE revolution

(* Mutant: the counter counts on beyond the two revolutions of a cycle.    *)
HandleVvtCamSignalBeyond ==
  revolution' = IF degree # "NAN" /\ revolution = 0 THEN 2 ELSE revolution

(* hwHandleVvtCamSignal with VVT_FIRST_HALF: without the time of a degree  *)
(* the signal is ignored; in the wrong revolution it advances the counter. *)
HandleVvtCamSignal ==
  revolution' = IF degree # "NAN" THEN 1 ELSE revolution

Cam ==
  /\ Turn(TRUE) /\ slot' = CamSlot
  /\ NoEdge /\ HandleVvtCamSignal

(* The disturbances.                                                       *)
LoseEdge ==
  /\ Turn(FALSE) /\ HasTooth(slot')
  /\ NoEdge /\ UNCHANGED revolution

NoiseEdge ==
  /\ Turn(FALSE) /\ ~HasTooth(slot') /\ slot' # CamSlot
  /\ HandleShaftSignal

LoseCam ==
  /\ Turn(FALSE) /\ slot' = CamSlot
  /\ NoEdge /\ UNCHANGED revolution

NoiseCam ==
  /\ Turn(FALSE) /\ ~HasTooth(slot') /\ slot' # CamSlot
  /\ NoEdge /\ HandleVvtCamSignal

(* The shaft stands still for more than a second.                          *)
Pause ==
  /\ slowPc = "idle"
  /\ elapsed' = Silent
  /\ sinceRpm' \in {Lesser(sinceRpm + RpmTimeout \div 2, RpmTimeout), RpmTimeout}
  /\ clean' = 0
  /\ UNCHANGED <<slot, lastDuration, synced, index, revolution, rpm, degree,
                 state, isSpinning, slowVars>>

-----------------------------------------------------------------------------
(* doPeriodicSlowCallback: checkIfSpinning, then setStopSpinning one       *)
(* assignment after the other.                                             *)
SlowVarsTo(next) ==
  /\ slowPc' = next
  /\ UNCHANGED <<slot, preempted, decoderVars, revolution, sinceRpm, clean>>

CheckIfSpinning ==
  /\ slowPc = "idle"
  /\ elapsed >= Second \/ sinceRpm >= RpmTimeout
  /\ slowPc' = "spinning" /\ preempted' = 0
  /\ UNCHANGED <<slot, decoderVars, revolution, rpmVars, clean>>

ClearSpinning ==
  /\ slowPc = "spinning"
  /\ isSpinning' = FALSE
  /\ SlowVarsTo(IF rpm = "zero" THEN "state" ELSE "rpm")
  /\ UNCHANGED <<rpm, degree, state>>

ClearRpm ==
  /\ slowPc = "rpm"
  /\ rpm' = "zero"
  /\ SlowVarsTo("test")
  /\ UNCHANGED <<degree, state, isSpinning>>

(* assignRpmValue(0) reads the volatile rpmValue again, and divides by its *)
(* parameter.                                                              *)
TestRpm ==
  /\ slowPc = "test"
  /\ SlowVarsTo(IF rpm \in {"zero", "noisy"} THEN "nan" ELSE "inf")
  /\ UNCHANGED <<rpm, degree, state, isSpinning>>

ClearDegree ==
  /\ slowPc \in {"nan", "inf"}
  /\ degree' = IF slowPc = "nan" THEN "NAN" ELSE "inf"
  /\ SlowVarsTo("state")
  /\ UNCHANGED <<rpm, state, isSpinning>>

ClearState ==
  /\ slowPc = "state"
  /\ state' = "STOPPED"
  /\ SlowVarsTo("idle")
  /\ UNCHANGED <<rpm, degree, isSpinning>>

SlowCallback ==
  \/ CheckIfSpinning \/ ClearSpinning \/ ClearRpm \/ TestRpm \/ ClearDegree
  \/ ClearState

Next ==
  \/ Coast \/ Cam \/ LoseEdge \/ NoiseEdge \/ LoseCam \/ NoiseCam \/ Pause
  \/ SlowCallback

Spec == Init /\ [][Next]_vars

-----------------------------------------------------------------------------
TypeOK ==
  /\ slot \in 0 .. Cycle - 1
  /\ elapsed \in 0 .. Silent /\ lastDuration \in 0 .. Silent
  /\ synced \in BOOLEAN /\ isSpinning \in BOOLEAN
  /\ index \in 0 .. NumTeeth /\ revolution \in {0, 1}
  /\ rpm \in RpmValues /\ degree \in {"NAN", "inf", "known"} /\ state \in States
  /\ sinceRpm \in 0 .. RpmTimeout
  /\ slowPc \in {"idle", "spinning", "rpm", "test", "nan", "inf", "state"}
  /\ preempted \in 0 .. Preemptions
  /\ clean \in 0 .. MaxClean

(* The tooth of the last edge when the shaft is at slot s.                 *)
LastTooth(s) == IF ToothAt(s) < NumTeeth THEN ToothAt(s) ELSE NumTeeth - 1

(* Whatever edges were lost or added before, once the gap has passed twice *)
(* undisturbed the decoder is synchronized and its index is the tooth that *)
(* passed last: no false gap survives a revolution (decodeTriggerEvent).   *)
SyncRecovers == clean >= 2 => synced /\ index = LastTooth(slot)

(* After six undisturbed revolutions the counter tells the two revolutions *)
(* of the cycle apart, although the cam signal that corrects it is ignored *)
(* until an rpm is known and the correction itself spoils the next         *)
(* measurement (hwHandleVvtCamSignal).                                     *)
PhaseRecovers == clean >= 6 => (revolution = 1) = (slot < Revolution)

(* After eight undisturbed revolutions the rpm is the one of the shaft, in *)
(* all four variables, whatever the interrupted slow callback had left in  *)
(* them (setStopSpinning against rpmShaftPositionCallback).                *)
RpmRecovers ==
  clean >= 8 => rpm = "right" /\ degree = "known" /\ state = "RUNNING"
                  /\ (FasterSpinUp => isSpinning)
=============================================================================
