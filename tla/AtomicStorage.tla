---------------------------- MODULE AtomicStorage -----------------------------
(***************************************************************************)
(* What two copies of a configuration are for (flash_main.cpp): a write    *)
(* replaces what a boot will find in one step, and a power failure loses   *)
(* what has been changed since the last write, but never what a write has  *)
(* stored.  The promise has a limit.  A write begins by giving up the      *)
(* first copy, and what it falls back on is the second one; when a power   *)
(* failure has left none, the next write may lose what was stored.         *)
(***************************************************************************)
CONSTANTS Configurations, Initial

VARIABLES
  stored,  \* what a boot would find
  inUse,   \* the configuration in use
  phase,   \* of a write: "idle", "writing", and "stored" when it has taken effect
  spare    \* there is a second copy of what is stored

vars == <<stored, inUse, phase, spare>>

Init ==
  /\ stored = Initial /\ inUse = Initial
  /\ phase = "idle"
  /\ spare \in BOOLEAN

(* The configuration in use changes, but not under a write.                *)
Change ==
  /\ phase = "idle"
  /\ inUse' \in Configurations
  /\ UNCHANGED <<stored, phase, spare>>

BeginWrite ==
  /\ phase = "idle"
  /\ phase' = "writing"
  /\ UNCHANGED <<stored, inUse, spare>>

(* The write takes effect, at once.                                        *)
Store ==
  /\ phase = "writing"
  /\ stored' = inUse
  /\ phase' = "stored"
  /\ spare' \in BOOLEAN
  /\ UNCHANGED inUse

(* From then on it is at work on the second copy only.                     *)
Copy ==
  /\ phase = "stored"
  /\ spare' \in BOOLEAN
  /\ UNCHANGED <<stored, inUse, phase>>

EndWrite ==
  /\ phase = "stored"
  /\ phase' = "idle"
  /\ spare' = TRUE
  /\ UNCHANGED <<stored, inUse>>

(* Without a second copy.                                                  *)
Lose ==
  /\ phase = "writing" /\ ~spare
  /\ stored' \in Configurations
  /\ spare' \in BOOLEAN
  /\ UNCHANGED <<inUse, phase>>

PowerFails ==
  /\ inUse' = stored
  /\ phase' = "idle"
  /\ UNCHANGED <<stored, spare>>

Next == Change \/ BeginWrite \/ Store \/ Copy \/ EndWrite \/ Lose \/ PowerFails

Spec == Init /\ [][Next]_vars
=============================================================================
