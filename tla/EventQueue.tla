------------------------------ MODULE EventQueue ------------------------------
(***************************************************************************)
(* The time-ordered list of pending events behind the whole firmware       *)
(* (controllers/system/timer/event_queue.cpp).                             *)
(*                                                                         *)
(* A scheduling_s record is named by a member of Events.  The linked list  *)
(* that starts at EventQueue::head is the sequence queue; the two fields   *)
(* of the records that the list logic reads are functions on Events.       *)
(* Which callback a record carries is left to the modules that use the     *)
(* queue.                                                                  *)
(***************************************************************************)
EXTENDS Integers, Sequences

CONSTANTS
  Events,      \* the scheduling_s records of the firmware
  LateDelay    \* EventQueue::lateDelay, in clock ticks

ASSUME LateDelayAssumption == LateDelay \in Nat \ {0}

VARIABLES
  queue,        \* the linked list, from head to tail
  momentX,      \* [Events -> time]: scheduling_s::momentX
  isScheduled   \* [Events -> BOOLEAN]: scheduling_s::isScheduled

queueVars == <<queue, momentX, isScheduled>>

QueueInit ==
  /\ queue = << >>
  /\ momentX = [e \in Events |-> 0]
  /\ isScheduled = [e \in Events |-> FALSE]

-----------------------------------------------------------------------------
(* The linear search of insertTask: the new record goes behind its first   *)
(* p predecessors.  p = 0 is the prepend branch, otherwise the walk starts *)
(* at head and stops at the first successor that is not earlier.           *)
IsInsertPosition(p, timeX) ==
  IF queue = << >> THEN p = 0
  ELSE IF timeX < momentX[Head(queue)] THEN p = 0
  ELSE /\ p \in 1 .. Len(queue)
       /\ \A k \in 2 .. p : momentX[queue[k]] < timeX
       /\ p < Len(queue) => momentX[queue[p + 1]] >= timeX

Inserted(q, p, e) ==
  [i \in 1 .. Len(q) + 1 |->
     IF i <= p THEN q[i] ELSE IF i = p + 1 THEN e ELSE q[i - 1]]

(* Mutant: without the isScheduled check a queued record is linked twice.  *)
InsertTaskWithoutCheck(e, timeX, atHead) ==
  /\ \E p \in 0 .. Len(queue) :
       /\ IsInsertPosition(p, timeX)
       /\ queue' = Inserted(queue, p, e)
       /\ atHead = (p = 0)
  /\ momentX' = [momentX EXCEPT ![e] = timeX]
  /\ isScheduled' = [isScheduled EXCEPT ![e] = TRUE]

(* insertTask: a record that is still queued is left as it is, the new     *)
(* time and action are dropped without a trace.  The returned value (TRUE  *)
(* when the record became the new head) is the argument atHead.            *)
InsertTask(e, timeX, atHead) ==
  \/ /\ isScheduled[e]
     /\ atHead = FALSE
     /\ UNCHANGED queueVars
  \/ /\ ~isScheduled[e]
     /\ \E p \in 0 .. Len(queue) :
          /\ IsInsertPosition(p, timeX)
          /\ queue' = Inserted(queue, p, e)
          /\ atHead = (p = 0)
     /\ momentX' = [momentX EXCEPT ![e] = timeX]
     /\ isScheduled' = [isScheduled EXCEPT ![e] = TRUE]

(* getNextEventTime for a queue that is not empty: overdue work is asked   *)
(* for lateDelay from now.                                                 *)
NextEventTime(nowX) ==
  IF momentX[Head(queue)] <= nowX THEN nowX + LateDelay
                                  ELSE momentX[Head(queue)]

(* The two exits of the loop of executeAll(now).                           *)
NothingDue(now) ==
  queue # << >> => momentX[Head(queue)] > now + LateDelay

(* Mutant: without the spin a record runs up to lateDelay early.           *)
UnlinkHeadWithoutSpin(now, clock) ==
  /\ ~NothingDue(now)
  /\ queue' = Tail(queue)
  /\ isScheduled' = [isScheduled EXCEPT ![Head(queue)] = FALSE]
  /\ UNCHANGED momentX

(* One round of that loop up to the callback: spin until the moment of the *)
(* head has come, then unlink the head and clear its flag.                 *)
UnlinkHead(now, clock) ==
  /\ ~NothingDue(now)
  /\ momentX[Head(queue)] <= clock
  /\ queue' = Tail(queue)
  /\ isScheduled' = [isScheduled EXCEPT ![Head(queue)] = FALSE]
  /\ UNCHANGED momentX

-----------------------------------------------------------------------------
QueueTypeOK ==
  /\ queue \in Seq(Events)
  /\ momentX \in [Events -> Nat]
  /\ isScheduled \in [Events -> BOOLEAN]

Sorted ==
  \A i, j \in 1 .. Len(queue) : i < j => momentX[queue[i]] <= momentX[queue[j]]

NoDuplicates ==
  \A i, j \in 1 .. Len(queue) : i # j => queue[i] # queue[j]

(* A record claims to be scheduled exactly when the list reaches it: with  *)
(* the flag set and the record unlinked it could never be scheduled again, *)
(* with the flag clear and the record linked a second insertion would make *)
(* the list loop.                                                          *)
FlagIffQueued ==
  \A e \in Events : isScheduled[e] <=> \E i \in 1 .. Len(queue) : queue[i] = e

(* The list that insertTask and executeAll maintain is sorted by time, has *)
(* no record twice and agrees with the isScheduled flags.                  *)
QueueConsistent == Sorted /\ NoDuplicates /\ FlagIffQueued
=============================================================================
