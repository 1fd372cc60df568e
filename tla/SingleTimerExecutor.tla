-------------------------- MODULE SingleTimerExecutor --------------------------
(***************************************************************************)
(* The executor that runs every timed action of the engine from one        *)
(* hardware one-shot timer                                                 *)
(* (controllers/system/timer/single_timer_executor.cpp,                    *)
(* hw_layer/microsecond_timer.cpp).                                        *)
(*                                                                         *)
(* Threads and interrupt handlers enter through Schedule, the hardware     *)
(* timer through TimerInterrupt.  Both take the system lock, which masks   *)
(* the interrupts, so only one of them is inside; pc says how far it got.  *)
(* The clock advances and the timer expires between any two of its steps.  *)
(***************************************************************************)
EXTENDS EventQueue

CONSTANTS
  NtPerUs,     \* US_TO_NT_MULTIPLIER: clock ticks in a microsecond
  TooFarUs,    \* TOO_FAR_INTO_FUTURE_US
  HalfRange,   \* 2^31: the ticks a signed 32-bit difference can hold
  MaxTime      \* bound of the clock; stands for any later time

(* The firmware has 168 or 216 ticks, 10s, 2^31 and US2NT(10).              *)
ASSUME TimeAssumption ==
  /\ NtPerUs \in Nat \ {0}
  /\ TooFarUs \in Nat /\ TooFarUs > 2
  /\ HalfRange \in Nat \ {0}
  /\ MaxTime \in Nat
  /\ LateDelay < TooFarUs * NtPerUs

NoAlarm == -1

VARIABLES
  clock,             \* getTimeNowNt()
  pc,                \* where the holder of the lock is
  reentrantFlag,     \* SingleTimerExecutor::reentrantFlag
  needToResetTimer,  \* does the holder of the lock end with scheduleTimerCallback
  nowNt,             \* the now argument of the running executeAll
  anyExecuted,       \* executionCounter > 0 in the running executeAll
  alarm,             \* when the one-shot timer expires, or NoAlarm
  irq,               \* its interrupt is latched
  firmwareError      \* hasFirmwareError()

timerVars == <<alarm, irq>>
lockVars == <<pc, reentrantFlag, needToResetTimer, nowNt, anyExecuted>>
vars == <<queueVars, clock, lockVars, timerVars, firmwareError>>

Init ==
  /\ QueueInit
  /\ clock = 0
  /\ pc = "unlocked"
  /\ reentrantFlag = FALSE
  /\ needToResetTimer = FALSE
  /\ nowNt = 0
  /\ anyExecuted = FALSE
  /\ alarm = NoAlarm
  /\ irq = FALSE
  /\ firmwareError = FALSE

-----------------------------------------------------------------------------
(* The environment: time, the timer hardware, and the fatal error handler. *)

Tick ==
  /\ clock < MaxTime
  /\ clock' = clock + 1
  /\ UNCHANGED <<queueVars, lockVars, timerVars, firmwareError>>

TimerExpires ==
  /\ alarm # NoAlarm
  /\ alarm <= clock \/ clock = MaxTime
  /\ alarm' = NoAlarm
  /\ irq' = TRUE
  /\ UNCHANGED <<queueVars, clock, lockVars, firmwareError>>

FirmwareError ==
  /\ ~firmwareError
  /\ firmwareError' = TRUE
  /\ UNCHANGED <<queueVars, clock, lockVars, timerVars>>

-----------------------------------------------------------------------------
(* scheduleByTimestampNt refuses what is too far in the future.            *)
NotTooFar(nt) == nt <= clock \/ (nt - clock) \div NtPerUs < TooFarUs

(* executeAllPendingActions up to the first executeAll.                    *)
StartExecuting ==
  /\ pc' = "executeAll"
  /\ reentrantFlag' = TRUE
  /\ nowNt' = clock
  /\ anyExecuted' = FALSE

(* scheduleByTimestampNt outside of a callback, from a thread or from      *)
(* another interrupt.                                                      *)
Schedule(e, nt) ==
  /\ pc = "unlocked"
  /\ ~reentrantFlag
  /\ NotTooFar(nt)
  /\ \E atHead \in BOOLEAN :
       /\ InsertTask(e, nt, atHead)
       /\ needToResetTimer' = atHead
  /\ StartExecuting
  /\ UNCHANGED <<clock, timerVars, firmwareError>>

(* Mutant: onTimerCallback that executes but does not set the timer again. *)
TimerInterruptWithoutRearm ==
  /\ pc = "unlocked"
  /\ irq
  /\ irq' = FALSE
  /\ alarm' = NoAlarm
  /\ needToResetTimer' = FALSE
  /\ StartExecuting
  /\ UNCHANGED <<queueVars, clock, firmwareError>>

(* hwTimerCallback and onTimerCallback; the driver stops a timer that was  *)
(* started again after the interrupt was latched.                          *)
TimerInterrupt ==
  /\ pc = "unlocked"
  /\ irq
  /\ irq' = FALSE
  /\ alarm' = NoAlarm
  /\ needToResetTimer' = TRUE
  /\ StartExecuting
  /\ UNCHANGED <<queueVars, clock, firmwareError>>

(* executeAll takes the head and enters its callback.                      *)
ExecuteHead ==
  /\ pc = "executeAll"
  /\ UnlinkHead(nowNt, clock)
  /\ anyExecuted' = TRUE
  /\ pc' = "callback"
  /\ UNCHANGED <<clock, reentrantFlag, needToResetTimer, nowNt, timerVars,
                 firmwareError>>

(* scheduleByTimestampNt inside a callback: the flag skips the lock, the   *)
(* execution and the timer, and the returned value of insertTask is lost.  *)
ScheduleFromCallback(e, nt) ==
  /\ pc = "callback"
  /\ reentrantFlag
  /\ NotTooFar(nt)
  /\ \E atHead \in BOOLEAN : InsertTask(e, nt, atHead)
  /\ UNCHANGED <<clock, lockVars, timerVars, firmwareError>>

CallbackReturns ==
  /\ pc = "callback"
  /\ pc' = "executeAll"
  /\ UNCHANGED <<queueVars, clock, reentrantFlag, needToResetTimer, nowNt,
                 anyExecuted, timerVars, firmwareError>>

(* executeAll returned a count above zero: look at the clock and the queue *)
(* again.                                                                  *)
ExecuteAgain ==
  /\ pc = "executeAll"
  /\ NothingDue(nowNt)
  /\ anyExecuted
  /\ nowNt' = clock
  /\ anyExecuted' = FALSE
  /\ UNCHANGED <<queueVars, clock, pc, reentrantFlag, needToResetTimer,
                 timerVars, firmwareError>>

(* executeAll returned zero; the callbacks keep the lock, so the flag is   *)
(* cleared.                                                                *)
ExecuteDone ==
  /\ pc = "executeAll"
  /\ NothingDue(nowNt)
  /\ ~anyExecuted
  /\ reentrantFlag' = FALSE
  /\ pc' = IF needToResetTimer THEN "rearm" ELSE "unlocked"
  /\ UNCHANGED <<queueVars, clock, needToResetTimer, nowNt, anyExecuted,
                 timerVars, firmwareError>>

(* (int32_t)next - (int32_t)now: wraps for a difference of HalfRange ticks *)
(* and more.                                                               *)
Int32(d) == IF d < HalfRange THEN d ELSE d - 2 * HalfRange

(* Mutant: a delay that wrapped to a negative number reaches the timer.    *)
UnclampedDelayUs(d) == Int32(d) \div NtPerUs

(* setHardwareUsTimer raises everything below 2us to 2us.                  *)
AlarmDelayUs(d) ==
  LET us == Int32(d) \div NtPerUs IN IF us < 2 THEN 2 ELSE us

(* setHardwareUsTimer: a refused delay leaves the running timer alone, but *)
(* after a fatal error the timer is stopped and not started again.  A      *)
(* latched interrupt may or may not survive the stop.                      *)
SetHardwareUsTimer(us) ==
  IF us >= TooFarUs THEN UNCHANGED timerVars
  ELSE /\ alarm' = IF firmwareError THEN NoAlarm ELSE clock + us * NtPerUs
       /\ irq' \in {irq, FALSE}

(* Mutant: no alarm for a head whose moment has passed already.            *)
ScheduleTimerCallbackForFuture ==
  /\ pc = "rearm"
  /\ IF queue # << >> /\ momentX[Head(queue)] > clock
     THEN SetHardwareUsTimer(AlarmDelayUs(NextEventTime(clock) - clock))
     ELSE UNCHANGED timerVars
  /\ pc' = "unlocked"
  /\ UNCHANGED <<queueVars, clock, reentrantFlag, needToResetTimer, nowNt,
                 anyExecuted, firmwareError>>

(* scheduleTimerCallback; with an empty queue an old alarm stays set.      *)
ScheduleTimerCallback ==
  /\ pc = "rearm"
  /\ IF queue = << >>
     THEN UNCHANGED timerVars
     ELSE SetHardwareUsTimer(AlarmDelayUs(NextEventTime(clock) - clock))
  /\ pc' = "unlocked"
  /\ UNCHANGED <<queueVars, clock, reentrantFlag, needToResetTimer, nowNt,
                 anyExecuted, firmwareError>>

-----------------------------------------------------------------------------
Caller ==
  \E e \in Events, nt \in 0 .. MaxTime :
    Schedule(e, nt) \/ ScheduleFromCallback(e, nt)

LockHolder ==
  ExecuteHead \/ CallbackReturns \/ ExecuteAgain \/ ExecuteDone
    \/ ScheduleTimerCallback

Next ==
  Tick \/ TimerExpires \/ FirmwareError \/ TimerInterrupt \/ Caller \/ LockHolder

(* Time passes, the timer hardware works, a pending unmasked interrupt is  *)
(* served, and the code that holds the lock is not preempted.  Nobody has  *)
(* to schedule anything.                                                   *)
Fairness ==
  /\ WF_vars(Tick)
  /\ WF_vars(TimerExpires)
  /\ SF_vars(TimerInterrupt)
  /\ WF_vars(LockHolder)

Spec == Init /\ [][Next]_vars
FairSpec == Spec /\ Fairness

-----------------------------------------------------------------------------
(* Types of the variables, and the places the lock holder can be in.       *)
TypeOK ==
  /\ QueueTypeOK
  /\ clock \in 0 .. MaxTime
  /\ pc \in {"unlocked", "executeAll", "callback", "rearm"}
  /\ reentrantFlag \in BOOLEAN
  /\ needToResetTimer \in BOOLEAN
  /\ nowNt \in 0 .. MaxTime
  /\ anyExecuted \in BOOLEAN
  /\ alarm \in Nat \cup {NoAlarm}
  /\ irq \in BOOLEAN
  /\ firmwareError \in BOOLEAN

(* The flag that switches off the lock, the execution and the timer is up  *)
(* exactly while callbacks may run: left up by mistake it would leave every*)
(* later caller without lock and timer.                                    *)
ReentrantFlagGuardsCallbacks ==
  reentrantFlag <=> pc \in {"executeAll", "callback"}

(* The longest time for which overdue work may be left to the timer.       *)
Slack == IF LateDelay >= 2 * NtPerUs THEN LateDelay ELSE 2 * NtPerUs

(* A wake-up is on its way: latched, or set no later than the head of the  *)
(* queue needs it (or, for overdue work, Slack ticks from now).            *)
WakeupFor(moment) ==
  \/ irq
  \/ /\ alarm # NoAlarm
     /\ alarm <= moment \/ alarm <= clock + Slack

(* The executor never goes to sleep over pending work.  Insertions from    *)
(* callbacks do not set the timer, and neither does an insertion behind    *)
(* the head whose execution pass then replaced the head: in each case an   *)
(* alarm set earlier must still be good for the new head.                  *)
WakeupNotLost ==
  pc = "unlocked" /\ queue # << >> /\ ~firmwareError
    => WakeupFor(momentX[Head(queue)])

(* Nothing in the queue is so far away that setHardwareUsTimer would refuse*)
(* the delay: it warns and leaves the timer as it was.                     *)
QueuedNotTooFar ==
  \A e \in Events : isScheduled[e] => momentX[e] < clock + TooFarUs * NtPerUs

(* The strengthening of WakeupNotLost that every step keeps.  While the    *)
(* lock is held by an entry that will not set the timer, the old alarm is  *)
(* good for the head; once such an entry has executed the head, the old    *)
(* alarm is at most Slack away and thus good for whatever callbacks insert.*)
OldAlarmStillGood ==
  ~firmwareError =>
    /\ pc = "callback" /\ ~needToResetTimer
         => irq \/ (alarm # NoAlarm /\ alarm <= clock + Slack)
    /\ pc = "executeAll" /\ ~needToResetTimer /\ queue # << >>
         => WakeupFor(momentX[Head(queue)])
    /\ pc = "unlocked" /\ queue # << >> => WakeupFor(momentX[Head(queue)])

IInv ==
  /\ TypeOK
  /\ QueueConsistent
  /\ ReentrantFlagGuardsCallbacks
  /\ QueuedNotTooFar
  /\ OldAlarmStillGood

(* A record that is scheduled is executed, unless a fatal error stopped    *)
(* the timer or callbacks keep scheduling work that is due already (the    *)
(* loop of executeAllPendingActions has no limit of iterations).           *)
OverdueFromCallback ==
  /\ pc = "callback"
  /\ \E e \in Events :
       ~isScheduled[e] /\ isScheduled'[e] /\ momentX'[e] <= clock

ScheduledIsExecuted ==
  <>[][~OverdueFromCallback]_vars
    => \A e \in Events : isScheduled[e] ~> ~isScheduled[e] \/ firmwareError

(* Each step of the executor is a step of what it promises its callers:    *)
(* runs happen once, in the order of the moments and never early.          *)
Promise ==
  INSTANCE TimedActions
    WITH due <- [e \in Events |-> IF isScheduled[e] THEN momentX[e] ELSE -1]

ExecutesAsPromised == Promise!Spec
=============================================================================
