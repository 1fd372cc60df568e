----------------------- MODULE SingleTimerExecutorProofs -----------------------
(***************************************************************************)
(* The executor never sleeps over pending work and runs records as         *)
(* promised, for every set of records, every timer resolution, lateDelay   *)
(* and clock bound.                                                        *)
(***************************************************************************)
EXTENDS SingleTimerExecutor, EventQueueProofs

(* Integer division, as the conversion from ticks to microseconds uses it. *)
LEMMA DivisionBounds ==
  ASSUME NEW a \in Int, NEW n \in Nat \ {0}
  PROVE  /\ a \div n \in Int
         /\ (a \div n) * n <= a
         /\ a < (a \div n) * n + n
BY SMT

(* Comparing multiples compares the factors.                               *)
LEMMA CancelMultiple ==
  ASSUME NEW a \in Int, NEW b \in Int, NEW n \in Nat \ {0}, a * n < b * n
  PROVE  a < b
BY SMT

(* A count of microseconds is a count of ticks.                            *)
LEMMA ProductNat ==
  ASSUME NEW a \in Nat, NEW n \in Nat
  PROVE  a * n \in Nat
BY SMT

(* Fewer whole microseconds are fewer ticks.                               *)
LEMMA LessThanMultiple ==
  ASSUME NEW a \in Int, NEW b \in Int, NEW n \in Nat \ {0}, a < b
  PROVE  a * n + n <= b * n
BY SMT

(* The delay handed to the hardware is never refused as too far, and the   *)
(* alarm it gives is not later than asked for, but for the minimum of 2us. *)
LEMMA AlarmDelayIsGood ==
  ASSUME NEW d \in Nat, d < TooFarUs * NtPerUs
  PROVE  LET us == AlarmDelayUs(d)
         IN  /\ us \in Nat
             /\ us < TooFarUs
             /\ us * NtPerUs <= d \/ us * NtPerUs <= Slack
<1> USE TimeAssumption, LateDelayAssumption
<1> DEFINE i == Int32(d)
           q == i \div NtPerUs
<1>1. i \in Int /\ i <= d
  BY DEF Int32
<1> HIDE DEF i
<1>2. q \in Int /\ q * NtPerUs <= i
  BY <1>1, DivisionBounds
<1>3. AlarmDelayUs(d) = IF q < 2 THEN 2 ELSE q
  BY DEF AlarmDelayUs, i
<1> HIDE DEF q
<1>4. q < TooFarUs
  <2>1. q * NtPerUs \in Int /\ TooFarUs * NtPerUs \in Int
    BY <1>2
  <2>2. q * NtPerUs < TooFarUs * NtPerUs
    BY <1>1, <1>2, <2>1
  <2> QED BY <1>2, <2>2, CancelMultiple
<1>5. CASE q < 2
  <2>1. AlarmDelayUs(d) = 2
    BY <1>3, <1>5
  <2>2. 2 * NtPerUs <= Slack
    BY DEF Slack
  <2> QED BY <2>1, <2>2
<1>6. CASE ~(q < 2)
  <2>1. AlarmDelayUs(d) = q
    BY <1>3, <1>6
  <2>2. q * NtPerUs \in Int
    BY <1>2
  <2> QED BY <2>1, <2>2, <1>1, <1>2, <1>4, <1>6
<1> QED BY <1>2, <1>5, <1>6

(* What passes the check of scheduleByTimestampNt is less than             *)
(* TOO_FAR_INTO_FUTURE_US ahead, in ticks.                                 *)
LEMMA NotTooFarInTicks ==
  ASSUME NEW nt \in Nat, clock \in Nat, NotTooFar(nt)
  PROVE  nt < clock + TooFarUs * NtPerUs
<1> USE TimeAssumption
<1>0. TooFarUs * NtPerUs \in Nat /\ TooFarUs * NtPerUs > 0
  <2>1. 0 * NtPerUs + NtPerUs <= TooFarUs * NtPerUs
    BY LessThanMultiple
  <2> QED BY <2>1
<1>1. CASE nt <= clock
  BY <1>0, <1>1
<1>2. CASE ~(nt <= clock)
  <2> DEFINE q == (nt - clock) \div NtPerUs
  <2>1. q \in Int /\ nt - clock < q * NtPerUs + NtPerUs
    BY DivisionBounds
  <2>2. q < TooFarUs
    BY <1>2 DEF NotTooFar
  <2> HIDE DEF q
  <2>3. q * NtPerUs + NtPerUs <= TooFarUs * NtPerUs
    BY <2>1, <2>2, LessThanMultiple
  <2>4. q * NtPerUs \in Int
    BY <2>1
  <2> QED BY <2>1, <2>3, <2>4, <1>0
<1> QED BY <1>1, <1>2

-----------------------------------------------------------------------------
(* The initial state satisfies the inductive invariant.                    *)
LEMMA InitIInv == Init => IInv
<1> SUFFICES ASSUME Init PROVE IInv
  OBVIOUS
<1> USE DEF Init, QueueInit
<1>1. Len(queue) = 0 /\ queue \in Seq(Events)
  BY EmptySeq
<1>2. TypeOK
  <2>1. QueueTypeOK
    BY <1>1 DEF QueueTypeOK
  <2>2. 0 \in 0 .. MaxTime
    BY TimeAssumption
  <2> QED BY <2>1, <2>2 DEF TypeOK
<1>3. QueueConsistent
  BY <1>1 DEF QueueConsistent, Sorted, NoDuplicates, FlagIffQueued
<1>4. ReentrantFlagGuardsCallbacks
  BY DEF ReentrantFlagGuardsCallbacks
<1>5. QueuedNotTooFar
  BY DEF QueuedNotTooFar
<1>6. OldAlarmStillGood
  BY DEF OldAlarmStillGood
<1> QED BY <1>2, <1>3, <1>4, <1>5, <1>6 DEF IInv

(* Types the steps below need at hand.                                     *)
LEMMA Types ==
  ASSUME TypeOK
  PROVE  /\ QueueTypeOK
         /\ clock \in Nat
         /\ momentX \in [Events -> Nat]
         /\ isScheduled \in [Events -> BOOLEAN]
         /\ Slack \in Nat
         /\ TooFarUs * NtPerUs \in Nat
         /\ alarm \in Int
         /\ queue # << >> => Head(queue) \in Events /\ momentX[Head(queue)] \in Nat
<1> USE TimeAssumption, LateDelayAssumption DEF TypeOK
<1>1. queue # << >> => Head(queue) \in Events
  BY HeadTailProperties DEF QueueTypeOK
<1>2. Slack \in Nat
  BY DEF Slack
<1>3. TooFarUs * NtPerUs \in Nat
  OBVIOUS
<1>4. alarm \in Int
  BY DEF NoAlarm
<1> QED BY <1>1, <1>2, <1>3, <1>4 DEF QueueTypeOK

(* A step that leaves the queue alone and does not turn the clock back     *)
(* keeps everything the invariant says of the queue.                       *)
LEMMA QueuePartKept ==
  ASSUME IInv, UNCHANGED queueVars, clock' \in Nat, clock <= clock'
  PROVE  QueueTypeOK' /\ QueueConsistent' /\ QueuedNotTooFar'
<1>1. UNCHANGED queue /\ UNCHANGED momentX /\ UNCHANGED isScheduled
  BY DEF queueVars
<1>2. QueueTypeOK' /\ QueueConsistent'
  BY <1>1 DEF IInv, TypeOK, QueueTypeOK, QueueConsistent, Sorted, NoDuplicates,
              FlagIffQueued
<1>3. QueuedNotTooFar'
  BY <1>1, Types DEF IInv, QueuedNotTooFar
<1> QED BY <1>2, <1>3

(* Insertion, from a callback or not, keeps what the invariant says of the *)
(* queue, and says when the head stayed.                                   *)
LEMMA InsertionKeepsQueuePart ==
  ASSUME IInv, NEW e \in Events, NEW nt \in Nat, NotTooFar(nt),
         NEW atHead, InsertTask(e, nt, atHead), clock' = clock
  PROVE  /\ QueueTypeOK' /\ QueueConsistent' /\ QueuedNotTooFar'
         /\ ~atHead => /\ queue' = << >> <=> queue = << >>
                       /\ queue # << >> => momentX'[Head(queue')] = momentX[Head(queue)]
<1>1. QueueTypeOK /\ QueueConsistent
  BY DEF IInv, TypeOK
<1>2. /\ QueueTypeOK' /\ QueueConsistent'
      /\ ~atHead => /\ queue' = << >> <=> queue = << >>
                    /\ queue # << >> => momentX'[Head(queue')] = momentX[Head(queue)]
  BY <1>1, InsertTaskKeepsConsistent
<1>3. QueuedNotTooFar'
  <2>1. nt < clock + TooFarUs * NtPerUs
    BY Types, NotTooFarInTicks DEF IInv
  <2>2. CASE isScheduled[e]
    BY <2>2 DEF InsertTask, queueVars, QueuedNotTooFar, IInv
  <2>3. CASE ~isScheduled[e]
    <3>1. /\ momentX' = [momentX EXCEPT ![e] = nt]
          /\ isScheduled' = [isScheduled EXCEPT ![e] = TRUE]
      BY <2>3 DEF InsertTask
    <3> QED BY <2>1, <3>1, Types DEF QueuedNotTooFar, IInv
  <2> QED BY <2>2, <2>3
<1> QED BY <1>2, <1>3

-----------------------------------------------------------------------------
(* The steps of the environment and of the lock holder that do not touch   *)
(* the queue.                                                              *)
LEMMA QuietStepsKeepIInv ==
  ASSUME IInv,
         \/ Tick \/ TimerExpires \/ FirmwareError \/ TimerInterrupt
         \/ CallbackReturns \/ ExecuteAgain \/ ExecuteDone
         \/ UNCHANGED vars
  PROVE  IInv'
<1> USE TimeAssumption
<1>0. clock \in 0 .. MaxTime /\ clock \in Nat /\ clock + 1 \in Nat
  BY DEF IInv, TypeOK
<1>1. UNCHANGED queueVars /\ clock' \in 0 .. MaxTime /\ clock <= clock'
  BY <1>0 DEF Tick, TimerExpires, FirmwareError, TimerInterrupt, StartExecuting,
       CallbackReturns, ExecuteAgain, ExecuteDone, vars
<1>2. QueueTypeOK' /\ QueueConsistent' /\ QueuedNotTooFar'
  BY <1>0, <1>1, QueuePartKept
<1>3. TypeOK' /\ ReentrantFlagGuardsCallbacks'
  <2>1. CASE Tick \/ UNCHANGED vars
    BY <2>1, <1>1, <1>2 DEF IInv, TypeOK, ReentrantFlagGuardsCallbacks, Tick, vars,
         lockVars, timerVars
  <2>2. CASE TimerExpires
    BY <2>2, <1>1, <1>2 DEF IInv, TypeOK, ReentrantFlagGuardsCallbacks, TimerExpires,
         lockVars
  <2>6. CASE FirmwareError
    BY <2>6, <1>1, <1>2 DEF IInv, TypeOK, ReentrantFlagGuardsCallbacks,
         FirmwareError, lockVars, timerVars
  <2>3. CASE TimerInterrupt
    BY <2>3, <1>0, <1>1, <1>2 DEF IInv, TypeOK, ReentrantFlagGuardsCallbacks,
         TimerInterrupt, StartExecuting
  <2>4. CASE CallbackReturns \/ ExecuteDone
    BY <2>4, <1>1, <1>2 DEF IInv, TypeOK, ReentrantFlagGuardsCallbacks,
         CallbackReturns, ExecuteDone, timerVars
  <2>5. CASE ExecuteAgain
    BY <2>5, <1>0, <1>1, <1>2 DEF IInv, TypeOK, ReentrantFlagGuardsCallbacks,
         ExecuteAgain, timerVars
  <2> QED BY <2>1, <2>2, <2>3, <2>4, <2>5, <2>6
<1>4. /\ queue' = queue /\ momentX' = momentX /\ clock \in Nat /\ clock' \in Nat
      /\ clock <= clock' /\ Slack \in Nat /\ alarm \in Int
      /\ queue # << >> => momentX[Head(queue)] \in Nat
  BY <1>0, <1>1, Types DEF queueVars, IInv
<1>5. OldAlarmStillGood'
  <2>1. CASE Tick
    BY <2>1, <1>4 DEF Tick, lockVars, timerVars, IInv, OldAlarmStillGood, WakeupFor, Slack
  <2>2. CASE TimerExpires
    BY <2>2, <1>4 DEF TimerExpires, lockVars, IInv, OldAlarmStillGood, WakeupFor
  <2>3. CASE FirmwareError
    BY <2>3 DEF FirmwareError, OldAlarmStillGood
  <2>4. CASE TimerInterrupt
    BY <2>4 DEF TimerInterrupt, StartExecuting, OldAlarmStillGood
  <2>5. CASE CallbackReturns
    BY <2>5, <1>4 DEF CallbackReturns, timerVars, IInv, OldAlarmStillGood, WakeupFor
  <2>6. CASE ExecuteAgain
    BY <2>6, <1>4 DEF ExecuteAgain, timerVars, IInv, OldAlarmStillGood, WakeupFor
  <2>7. CASE ExecuteDone
    BY <2>7, <1>4 DEF ExecuteDone, timerVars, IInv, OldAlarmStillGood, WakeupFor
  <2>8. CASE UNCHANGED vars
    BY <2>8, <1>4 DEF vars, lockVars, timerVars, IInv, OldAlarmStillGood, WakeupFor
  <2> QED BY <2>1, <2>2, <2>3, <2>4, <2>5, <2>6, <2>7, <2>8
<1> QED BY <1>2, <1>3, <1>5 DEF IInv

(* Entering from a thread: an insertion that did not become the head       *)
(* leaves the head, and with it the alarm set for it, as they were.        *)
LEMMA ScheduleKeepsIInv ==
  ASSUME IInv, NEW e \in Events, NEW nt \in 0 .. MaxTime, Schedule(e, nt)
  PROVE  IInv'
<1> USE TimeAssumption
<1>1. PICK atHead \in BOOLEAN : InsertTask(e, nt, atHead) /\ needToResetTimer' = atHead
  BY DEF Schedule
<1>2. /\ pc = "unlocked" /\ pc' = "executeAll" /\ reentrantFlag' = TRUE
      /\ nowNt' = clock /\ anyExecuted' = FALSE /\ clock' = clock
      /\ alarm' = alarm /\ irq' = irq /\ firmwareError' = firmwareError
      /\ NotTooFar(nt)
  BY DEF Schedule, StartExecuting, timerVars
<1>3. /\ QueueTypeOK' /\ QueueConsistent' /\ QueuedNotTooFar'
      /\ ~atHead => /\ queue' = << >> <=> queue = << >>
                    /\ queue # << >> => momentX'[Head(queue')] = momentX[Head(queue)]
  BY <1>1, <1>2, InsertionKeepsQueuePart
<1>4. TypeOK' /\ ReentrantFlagGuardsCallbacks'
  BY <1>1, <1>2, <1>3 DEF IInv, TypeOK, ReentrantFlagGuardsCallbacks
<1>5. OldAlarmStillGood'
  <2> SUFFICES ASSUME ~firmwareError', ~needToResetTimer', queue' # << >>
               PROVE  WakeupFor(momentX[Head(queue)])'
    BY <1>2 DEF OldAlarmStillGood
  <2>1. queue # << >> /\ momentX'[Head(queue')] = momentX[Head(queue)]
    BY <1>1, <1>3
  <2>2. WakeupFor(momentX[Head(queue)])
    BY <1>2, <2>1 DEF IInv, OldAlarmStillGood
  <2> QED BY <1>2, <2>1, <2>2 DEF WakeupFor, Slack
<1> QED BY <1>3, <1>4, <1>5 DEF IInv

(* Insertion from a callback: the old alarm is good for any head.          *)
LEMMA ScheduleFromCallbackKeepsIInv ==
  ASSUME IInv, NEW e \in Events, NEW nt \in 0 .. MaxTime, ScheduleFromCallback(e, nt)
  PROVE  IInv'
<1> USE TimeAssumption
<1>1. PICK atHead \in BOOLEAN : InsertTask(e, nt, atHead)
  BY DEF ScheduleFromCallback
<1>2. /\ pc = "callback" /\ UNCHANGED <<clock, pc, reentrantFlag, needToResetTimer,
                                        nowNt, anyExecuted, alarm, irq, firmwareError>>
      /\ NotTooFar(nt)
  BY DEF ScheduleFromCallback, lockVars, timerVars
<1>3. QueueTypeOK' /\ QueueConsistent' /\ QueuedNotTooFar'
  BY <1>1, <1>2, InsertionKeepsQueuePart
<1>4. TypeOK' /\ ReentrantFlagGuardsCallbacks'
  BY <1>2, <1>3 DEF IInv, TypeOK, ReentrantFlagGuardsCallbacks
<1>5. OldAlarmStillGood'
  BY <1>2 DEF IInv, OldAlarmStillGood, Slack
<1> QED BY <1>3, <1>4, <1>5 DEF IInv

(* Taking the head: its moment has come, so an alarm that was good for it  *)
(* is due or overdue.                                                      *)
LEMMA ExecuteHeadKeepsIInv ==
  ASSUME IInv, ExecuteHead
  PROVE  IInv'
<1>1. /\ pc = "executeAll" /\ pc' = "callback" /\ anyExecuted' = TRUE
      /\ UnlinkHead(nowNt, clock)
      /\ UNCHANGED <<clock, reentrantFlag, needToResetTimer, nowNt, alarm, irq,
                     firmwareError>>
  BY DEF ExecuteHead, timerVars
<1>2. queue # << >>
  BY <1>1 DEF UnlinkHead, NothingDue
<1>3. nowNt \in Nat /\ clock \in Nat /\ QueueTypeOK /\ QueueConsistent
  BY TimeAssumption DEF IInv, TypeOK
<1>4. QueueTypeOK' /\ QueueConsistent'
  BY <1>1, <1>2, <1>3, UnlinkHeadKeepsConsistent
<1>5. QueuedNotTooFar'
  <2>1. momentX' = momentX /\ isScheduled' = [isScheduled EXCEPT ![Head(queue)] = FALSE]
    BY <1>1 DEF UnlinkHead
  <2> QED BY <1>1, <2>1, Types DEF IInv, QueuedNotTooFar
<1>6. TypeOK' /\ ReentrantFlagGuardsCallbacks'
  BY <1>1, <1>4 DEF IInv, TypeOK, ReentrantFlagGuardsCallbacks
<1>7. OldAlarmStillGood'
  <2>1. momentX[Head(queue)] <= clock
    BY <1>1 DEF UnlinkHead
  <2>2. /\ Slack \in Nat /\ alarm \in Int /\ momentX[Head(queue)] \in Nat
    BY <1>2, Types DEF IInv
  <2>3. ~firmwareError /\ ~needToResetTimer => WakeupFor(momentX[Head(queue)])
    BY <1>1, <1>2 DEF IInv, OldAlarmStillGood
  <2>4. ~firmwareError /\ ~needToResetTimer
          => irq \/ (alarm # NoAlarm /\ alarm <= clock + Slack)
    BY <1>3, <2>1, <2>2, <2>3 DEF WakeupFor
  <2> QED BY <1>1, <2>4 DEF OldAlarmStillGood, Slack
<1> QED BY <1>4, <1>5, <1>6, <1>7 DEF IInv

(* Setting the timer: it is never refused, and good for the head.          *)
LEMMA ScheduleTimerCallbackKeepsIInv ==
  ASSUME IInv, ScheduleTimerCallback
  PROVE  IInv'
<1> USE TimeAssumption, LateDelayAssumption
<1>1. /\ pc = "rearm" /\ pc' = "unlocked" /\ UNCHANGED queueVars
      /\ UNCHANGED <<clock, reentrantFlag, needToResetTimer, nowNt, anyExecuted,
                     firmwareError>>
  BY DEF ScheduleTimerCallback
<1>2. clock \in Nat /\ clock \in 0 .. MaxTime /\ irq \in BOOLEAN /\ Slack \in Nat
  BY Types DEF IInv, TypeOK
<1>3. QueueTypeOK' /\ QueueConsistent' /\ QueuedNotTooFar'
  BY <1>1, <1>2, QueuePartKept
<1>4. CASE queue = << >>
  <2>1. UNCHANGED timerVars /\ queue' = << >>
    BY <1>1, <1>4 DEF ScheduleTimerCallback, queueVars
  <2>2. TypeOK' /\ ReentrantFlagGuardsCallbacks'
    BY <1>1, <1>3, <2>1 DEF IInv, TypeOK, ReentrantFlagGuardsCallbacks, timerVars
  <2>3. OldAlarmStillGood'
    BY <1>1, <2>1 DEF OldAlarmStillGood
  <2> QED BY <1>3, <2>2, <2>3 DEF IInv
<1>5. CASE queue # << >>
  <2> DEFINE m == momentX[Head(queue)]
             d == NextEventTime(clock) - clock
             us == AlarmDelayUs(d)
  <2>1. Head(queue) \in Events /\ m \in Nat /\ TooFarUs * NtPerUs \in Nat
    BY <1>5, Types DEF IInv
  <2>2. isScheduled[Head(queue)]
    <3>1. Head(queue) = queue[1] /\ 1 \in 1 .. Len(queue)
      BY <1>5, LenProperties, EmptySeq DEF IInv, TypeOK, QueueTypeOK
    <3> QED BY <2>1, <3>1 DEF IInv, QueueConsistent, FlagIffQueued
  <2>3. m < clock + TooFarUs * NtPerUs
    BY <2>1, <2>2 DEF IInv, QueuedNotTooFar
  <2>4. /\ d \in Nat /\ d < TooFarUs * NtPerUs
        /\ clock + d <= m \/ d <= Slack
    BY <1>2, <2>1, <2>3 DEF NextEventTime, Slack
  <2> HIDE DEF d
  <2>5. us \in Nat /\ us < TooFarUs /\ (us * NtPerUs <= d \/ us * NtPerUs <= Slack)
    BY <2>4, AlarmDelayIsGood
  <2>6. SetHardwareUsTimer(us)
    BY <1>5 DEF ScheduleTimerCallback, d
  <2> HIDE DEF us
  <2>7. /\ alarm' = IF firmwareError THEN NoAlarm ELSE clock + us * NtPerUs
        /\ irq' \in {irq, FALSE}
    <3>1. ~(us >= TooFarUs)
      BY <2>5
    <3> QED BY <2>6, <3>1 DEF SetHardwareUsTimer, timerVars
  <2>8. us * NtPerUs \in Nat
    BY <2>5, ProductNat
  <2>9. clock + us * NtPerUs \in Nat /\ clock + us * NtPerUs # NoAlarm
    BY <1>2, <2>8 DEF NoAlarm
  <2>10. TypeOK' /\ ReentrantFlagGuardsCallbacks'
    BY <1>1, <1>2, <1>3, <2>7, <2>9 DEF IInv, TypeOK, ReentrantFlagGuardsCallbacks
  <2>11. clock + us * NtPerUs <= m \/ clock + us * NtPerUs <= clock + Slack
    BY <1>2, <2>1, <2>4, <2>5, <2>8
  <2>12. OldAlarmStillGood'
    <3> SUFFICES ASSUME ~firmwareError'
                 PROVE  WakeupFor(momentX[Head(queue)])'
      BY <1>1 DEF OldAlarmStillGood
    <3>1. alarm' = clock + us * NtPerUs
      BY <1>1, <2>7
    <3>2. momentX'[Head(queue')] = m
      BY <1>1 DEF queueVars
    <3> QED BY <1>1, <2>9, <2>11, <3>1, <3>2 DEF WakeupFor, Slack
  <2> QED BY <1>3, <2>10, <2>12 DEF IInv
<1> QED BY <1>4, <1>5
-----------------------------------------------------------------------------
(* Every step keeps the inductive invariant.                               *)
LEMMA NextKeepsIInv == IInv /\ [Next]_vars => IInv'
<1> SUFFICES ASSUME IInv, [Next]_vars PROVE IInv'
  OBVIOUS
<1>1. ASSUME NEW e \in Events, NEW nt \in 0 .. MaxTime,
             Schedule(e, nt) \/ ScheduleFromCallback(e, nt)
      PROVE  IInv'
  BY <1>1, ScheduleKeepsIInv, ScheduleFromCallbackKeepsIInv
<1>2. CASE ExecuteHead
  BY <1>2, ExecuteHeadKeepsIInv
<1>3. CASE ScheduleTimerCallback
  BY <1>3, ScheduleTimerCallbackKeepsIInv
<1>4. CASE \/ Tick \/ TimerExpires \/ FirmwareError \/ TimerInterrupt
           \/ CallbackReturns \/ ExecuteAgain \/ ExecuteDone
           \/ UNCHANGED vars
  BY <1>4, QuietStepsKeepIInv
<1> QED BY <1>1, <1>2, <1>3, <1>4 DEF Next, Caller, LockHolder

(* The inductive invariant holds in every reachable state.                 *)
LEMMA AlwaysIInv == Spec => []IInv
BY InitIInv, NextKeepsIInv, PTL DEF Spec

(* The variables of the executor keep their types.                         *)
THEOREM TypesAreKept == Spec => []TypeOK
<1>1. IInv => TypeOK
  BY DEF IInv
<1> QED BY <1>1, AlwaysIInv, PTL

(* The linked list is always sorted by time, holds no record twice, and    *)
(* the isScheduled flags say exactly which records it holds.               *)
THEOREM QueueStaysConsistent == Spec => []QueueConsistent
<1>1. IInv => QueueConsistent
  BY DEF IInv
<1> QED BY <1>1, AlwaysIInv, PTL

(* Whenever the lock is free and work is pending, a wake-up is on its way  *)
(* that comes no later than the earliest work needs it, or Slack from now. *)
THEOREM NoWakeupIsLost == Spec => []WakeupNotLost
<1>1. IInv => WakeupNotLost
  BY DEF IInv, OldAlarmStillGood, WakeupNotLost
<1> QED BY <1>1, AlwaysIInv, PTL

-----------------------------------------------------------------------------
(* The steps of the executor are steps of TimedActions: records run once,  *)
(* never early, and in the order of their moments.                         *)
dueOf == [e \in Events |-> IF isScheduled[e] THEN momentX[e] ELSE -1]

(* An insertion is a Schedule of the abstract specification, or nothing    *)
(* when the record is queued already.                                      *)
LEMMA InsertionIsPromised ==
  ASSUME IInv, NEW e \in Events, NEW nt \in 0 .. MaxTime,
         NEW atHead, InsertTask(e, nt, atHead), clock' = clock
  PROVE  [Promise!Next]_<<clock, dueOf>>
<1>0. momentX \in [Events -> Nat] /\ isScheduled \in [Events -> BOOLEAN]
  BY Types DEF IInv
<1>1. CASE isScheduled[e]
  BY <1>1 DEF InsertTask, queueVars, dueOf
<1>2. CASE ~isScheduled[e]
  <2>1. /\ momentX' = [momentX EXCEPT ![e] = nt]
        /\ isScheduled' = [isScheduled EXCEPT ![e] = TRUE]
    BY <1>2 DEF InsertTask
  <2>2. dueOf[e] = -1 /\ dueOf' = [dueOf EXCEPT ![e] = nt]
    BY <1>0, <1>2, <2>1 DEF dueOf
  <2>3. Promise!Schedule(e, nt)
    BY <2>2 DEF Promise!Schedule, Promise!NotPending, dueOf
  <2> QED BY <2>3 DEF Promise!Next
<1> QED BY <1>1, <1>2

(* Taking the head is a Run of the abstract specification: the list is     *)
(* sorted and the executor has waited for the moment.                      *)
LEMMA ExecutionIsPromised ==
  ASSUME IInv, ExecuteHead
  PROVE  [Promise!Next]_<<clock, dueOf>>
<1>1. UnlinkHead(nowNt, clock) /\ clock' = clock
  BY DEF ExecuteHead
<1>2. queue # << >>
  BY <1>1 DEF UnlinkHead, NothingDue
<1>3. nowNt \in Nat /\ clock \in Nat /\ QueueTypeOK /\ QueueConsistent
      /\ momentX \in [Events -> Nat] /\ isScheduled \in [Events -> BOOLEAN]
  BY TimeAssumption DEF IInv, TypeOK, QueueTypeOK
<1>4. /\ Head(queue) \in Events /\ isScheduled[Head(queue)]
      /\ \A f \in Events : isScheduled[f] => momentX[Head(queue)] <= momentX[f]
  BY <1>1, <1>2, <1>3, UnlinkHeadKeepsConsistent
<1>5. PICK h \in Events : h = Head(queue)
  BY <1>4
<1>6. /\ momentX[h] <= clock
      /\ momentX' = momentX
      /\ isScheduled' = [isScheduled EXCEPT ![h] = FALSE]
  BY <1>1, <1>5 DEF UnlinkHead
<1>7. dueOf[h] = momentX[h] /\ dueOf' = [dueOf EXCEPT ![h] = -1]
  BY <1>3, <1>4, <1>5, <1>6 DEF dueOf
<1>8. \A f \in Events : dueOf[f] # -1 => dueOf[h] <= dueOf[f]
  BY <1>3, <1>4, <1>5, <1>7 DEF dueOf
<1>9. dueOf[h] # -1 /\ dueOf[h] <= clock
  BY <1>3, <1>6, <1>7
<1>10. Promise!Run(h)
  BY <1>1, <1>7, <1>8, <1>9 DEF Promise!Run, Promise!NotPending, dueOf
<1> QED BY <1>10 DEF Promise!Next

(* Every behaviour of the executor is one of TimedActions.                 *)
THEOREM ExecutorKeepsPromise == Spec => ExecutesAsPromised
<1>1. Init => Promise!Init
  BY DEF Init, QueueInit, Promise!Init, Promise!NotPending
<1>2. IInv /\ [Next]_vars => [Promise!Next]_<<clock, dueOf>>
  <2> SUFFICES ASSUME IInv, [Next]_vars
               PROVE  [Promise!Next]_<<clock, dueOf>>
    OBVIOUS
  <2>1. CASE Tick
    <3>1. clock' \in clock .. MaxTime /\ dueOf' = dueOf
      BY <2>1, TimeAssumption DEF Tick, IInv, TypeOK, queueVars, dueOf
    <3> QED BY <3>1 DEF Promise!Next, Promise!Elapse, dueOf
  <2>2. ASSUME NEW e \in Events, NEW nt \in 0 .. MaxTime,
               Schedule(e, nt) \/ ScheduleFromCallback(e, nt)
        PROVE  [Promise!Next]_<<clock, dueOf>>
    <3>1. clock' = clock /\ \E atHead \in BOOLEAN : InsertTask(e, nt, atHead)
      BY <2>2 DEF Schedule, ScheduleFromCallback
    <3> QED BY <3>1, InsertionIsPromised
  <2>3. CASE ExecuteHead
    BY <2>3, ExecutionIsPromised
  <2>4. CASE \/ TimerExpires \/ FirmwareError \/ TimerInterrupt \/ CallbackReturns
             \/ ExecuteAgain \/ ExecuteDone \/ ScheduleTimerCallback \/ UNCHANGED vars
    BY <2>4 DEF TimerExpires, FirmwareError, TimerInterrupt, CallbackReturns,
         ExecuteAgain, ExecuteDone, ScheduleTimerCallback, vars, queueVars, dueOf
  <2> QED BY <2>1, <2>2, <2>3, <2>4 DEF Next, Caller, LockHolder
<1> QED BY <1>1, <1>2, AlwaysIInv, PTL DEF Spec, ExecutesAsPromised, Promise!Spec, dueOf
=============================================================================
