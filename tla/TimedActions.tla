----------------------------- MODULE TimedActions -----------------------------
(***************************************************************************)
(* What the executor promises its callers (scheduler.h): a record that is  *)
(* scheduled for a moment runs once, never before that moment, and never   *)
(* before another pending record with an earlier moment.                   *)
(***************************************************************************)
EXTENDS Integers

CONSTANTS Events, MaxTime

NotPending == -1

VARIABLES
  clock,   \* the time
  due      \* [Events -> the moment asked for, or NotPending]

Init ==
  /\ clock = 0
  /\ due = [e \in Events |-> NotPending]

Elapse ==
  /\ clock' \in clock .. MaxTime
  /\ UNCHANGED due

Schedule(e, t) ==
  /\ due[e] = NotPending
  /\ due' = [due EXCEPT ![e] = t]
  /\ UNCHANGED clock

Run(e) ==
  /\ due[e] # NotPending
  /\ due[e] <= clock
  /\ \A f \in Events : due[f] # NotPending => due[e] <= due[f]
  /\ due' = [due EXCEPT ![e] = NotPending]
  /\ UNCHANGED clock

Next ==
  \/ Elapse
  \/ \E e \in Events : Run(e) \/ \E t \in 0 .. MaxTime : Schedule(e, t)

Spec == Init /\ [][Next]_<<clock, due>>
=============================================================================
