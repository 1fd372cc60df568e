---------------------------- MODULE PairedInjections ----------------------------
(***************************************************************************)
(* What the injection events promise the injectors (event_registry.h,      *)
(* fuel_schedule.cpp): an injection is planned, starts and ends, once      *)
(* each; its end closes the injectors its start has opened, and nothing    *)
(* else is counted in the injectors' overlap counters.  Only a change of   *)
(* the fueling mode breaks in: it closes what is open, and the injections  *)
(* it interrupts end with the injectors of the new mode.                   *)
(***************************************************************************)
EXTENDS Naturals

CONSTANTS
  Events, Injectors,
  ModesDiffer   \* is there a mode for cranking and another for running

VARIABLES
  phase,   \* of the injection of an event: "free", "planned" or "open"
  holds,   \* [Events -> the injectors its end will close]
  count    \* [Injectors -> the injections it is open for]

vars == <<phase, holds, count>>

Init ==
  /\ phase = [e \in Events |-> "free"]
  /\ holds = [e \in Events |-> {}]
  /\ count = [j \in Injectors |-> 0]

Plan(e) ==
  /\ phase[e] = "free"
  /\ phase' = [phase EXCEPT ![e] = "planned"]
  /\ UNCHANGED <<holds, count>>

Start(e, S) ==
  /\ phase[e] = "planned"
  /\ phase' = [phase EXCEPT ![e] = "open"]
  /\ holds' = [holds EXCEPT ![e] = S]
  /\ count' = [j \in Injectors |-> count[j] + (IF j \in S THEN 1 ELSE 0)]

(* After a change of mode there may be less to close than was opened.      *)
End(e) ==
  /\ phase[e] = "open"
  /\ phase' = [phase EXCEPT ![e] = "free"]
  /\ holds' = [holds EXCEPT ![e] = {}]
  /\ count' = [j \in Injectors |->
       IF j \in holds[e] /\ count[j] > 0 THEN count[j] - 1 ELSE count[j]]

ChangeMode ==
  /\ ModesDiffer
  /\ count' = [j \in Injectors |-> 0]
  /\ holds' \in [Events -> SUBSET Injectors]
  /\ \A e \in Events : phase[e] # "open" => holds'[e] = {}
  /\ UNCHANGED phase

Next ==
  \/ \E e \in Events :
       Plan(e) \/ End(e) \/ \E S \in SUBSET Injectors : Start(e, S)
  \/ ChangeMode

Spec == Init /\ [][Next]_vars
=============================================================================
