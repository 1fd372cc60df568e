---------------------------- MODULE ConfigStorage -----------------------------
(***************************************************************************)
(* The configuration from the tuner to the storage and to the trigger      *)
(* (console/binary/tunerstudio.cpp, controllers/flash_main.cpp,            *)
(* controllers/algo/engine_configuration.cpp and                           *)
(* controllers/trigger/trigger_central.cpp).                               *)
(*                                                                         *)
(* The tuner edits a working copy; a burn copies it to the configuration   *)
(* in use, asks for it to be stored and tells the rest of the firmware.    *)
(* Two copies are stored, each with a checksum.  The tuner's thread is     *)
(* interrupted by the slow callback, which writes the flash of an engine   *)
(* that is stopped, and by the trigger; the power may fail at any moment.  *)
(*                                                                         *)
(* A configuration is two numbers: of the engine_configuration_s at its    *)
(* beginning, on which the trigger depends, and of the tables behind it.   *)
(***************************************************************************)
EXTENDS Integers

CONSTANTS
  MaxEdits,   \* bound of the edits, which number the configurations
  MaxLosses   \* bound of the power losses

ASSUME StorageAssumption == MaxEdits \in Nat /\ MaxLosses \in Nat

Configurations == [engine : 0 .. MaxEdits, tables : 0 .. MaxEdits]
Defaults == [engine |-> 0, tables |-> 0]

(* A copy that is erased or half written: its checksum does not match.     *)
Invalid == [engine |-> -1, tables |-> -1]

VARIABLES
  fram,           \* EFI_SPI_FRAM: the board stores in FRAM, not in flash
  working,        \* configWorkingCopy
  main,           \* persistentState.persistentConfiguration
  first, second,  \* the two stored copies
  pending,        \* needToWriteConfiguration
  tsPc,           \* where the tuner's thread is in a burn
  writePc,        \* where writeToFlashNow is
  running,        \* the engine turns
  versionNew,     \* globalConfigurationVersion is ahead of triggerVersion
  triggerChanged, \* isTriggerConfigChanged
  active,         \* activeConfiguration, its engine part
  edits, losses,  \* how many so far
  tuned,          \* history: tables edited since the last burn
  kept,           \* history: the configuration of the last complete write
  cut,            \* history: a write was cut short, none complete since
  toRebuild       \* history: a trigger change no schedule was rebuilt for

storedVars == <<first, second, kept, cut>>
tunerVars == <<working, main, tuned, edits>>
triggerVars == <<versionNew, triggerChanged, active, toRebuild>>
vars == <<fram, tunerVars, storedVars, pending, tsPc, writePc, running,
          triggerVars, losses>>

Init ==
  /\ fram \in BOOLEAN
  /\ working = Defaults /\ main = Defaults
  /\ first = Invalid /\ second = Invalid
  /\ pending = FALSE /\ tsPc = "idle" /\ writePc = "idle"
  /\ running = FALSE
  /\ versionNew = FALSE /\ triggerChanged = FALSE /\ active = 0
  /\ edits = 0 /\ losses = 0
  /\ tuned = FALSE /\ kept = Defaults /\ cut = FALSE /\ toRebuild = FALSE

(* Mutant: the checksum of the second copy is not looked at.               *)
LoadedUnchecked == IF first # Invalid THEN first ELSE second

(* readConfiguration: what a boot finds.                                   *)
Loaded ==
  IF first # Invalid THEN first
  ELSE IF second # Invalid THEN second
  ELSE Defaults

(* The tuner's thread stands still while the slow callback, an interrupt,  *)
(* writes.                                                                 *)
ThreadRuns == writePc = "idle"

-----------------------------------------------------------------------------
(* handleWriteChunkCommand and handleWriteValueCommand: tables go on-line, *)
(* to the configuration in use, at once (onlineApplyWorkingCopyBytes).     *)
WriteEngine ==
  /\ tsPc = "idle" /\ ThreadRuns /\ edits < MaxEdits
  /\ edits' = edits + 1
  /\ working' = [working EXCEPT !.engine = edits']
  /\ UNCHANGED <<fram, main, tuned, storedVars, pending, tsPc, writePc, running,
                 triggerVars, losses>>

WriteTables ==
  /\ tsPc = "idle" /\ ThreadRuns /\ edits < MaxEdits
  /\ edits' = edits + 1
  /\ working' = [working EXCEPT !.tables = edits']
  /\ main' = [main EXCEPT !.tables = edits']
  /\ tuned' = TRUE
  /\ UNCHANGED <<fram, storedVars, pending, tsPc, writePc, running, triggerVars,
                 losses>>

(* handleBurnCommand: the copy, which may be interrupted half-way ...      *)
BurnEngine ==
  /\ tsPc = "idle" /\ ThreadRuns
  /\ main' = [main EXCEPT !.engine = working.engine]
  /\ tsPc' = "tables"
  /\ UNCHANGED <<fram, working, tuned, edits, storedVars, pending, writePc,
                 running, triggerVars, losses>>

BurnTables ==
  /\ tsPc = "tables" /\ ThreadRuns
  /\ main' = working
  /\ tsPc' = "request"
  /\ UNCHANGED <<fram, working, tuned, edits, storedVars, pending, writePc,
                 running, triggerVars, losses>>

(* Mutant: only a change of the engine's part is worth a write.            *)
RequestBurnIfChanged ==
  /\ tsPc = "request" /\ ThreadRuns
  /\ tuned' = FALSE
  /\ IF fram THEN writePc' = "first" /\ tsPc' = "write" /\ UNCHANGED pending
     ELSE /\ pending' = (pending \/ main.engine # active)
          /\ tsPc' = "version" /\ UNCHANGED writePc
  /\ UNCHANGED <<fram, working, main, edits, storedVars, running, triggerVars,
                 losses>>

(* ... and requestBurn: FRAM is written at once, flash when it may be.     *)
RequestBurn ==
  /\ tsPc = "request" /\ ThreadRuns
  /\ tuned' = FALSE
  /\ IF fram THEN writePc' = "first" /\ tsPc' = "write" /\ UNCHANGED pending
     ELSE pending' = TRUE /\ tsPc' = "version" /\ UNCHANGED writePc
  /\ UNCHANGED <<fram, working, main, edits, storedVars, running, triggerVars,
                 losses>>

-----------------------------------------------------------------------------
(* incrementGlobalConfigurationVersion: the version first, ...             *)
IncrementVersion ==
  /\ tsPc = "version" /\ ThreadRuns
  /\ versionNew' = TRUE
  /\ tsPc' = "trigger"
  /\ UNCHANGED <<fram, tunerVars, storedVars, pending, writePc, running,
                 triggerChanged, active, toRebuild, losses>>

(* ... then the listeners, onConfigurationChangeTriggerCallback among      *)
(* them, ...                                                               *)
NotifyTrigger ==
  /\ tsPc = "trigger" /\ ThreadRuns
  /\ triggerChanged' = (triggerChanged \/ main.engine # active)
  /\ toRebuild' = (toRebuild \/ main.engine # active)
  /\ tsPc' = "remember"
  /\ UNCHANGED <<fram, tunerVars, storedVars, pending, writePc, running,
                 versionNew, active, losses>>

(* ... and rememberCurrentConfiguration at the end.                        *)
RememberCurrentConfiguration ==
  /\ tsPc = "remember" /\ ThreadRuns
  /\ active' = main.engine
  /\ tsPc' = "idle"
  /\ UNCHANGED <<fram, tunerVars, storedVars, pending, writePc, running,
                 versionNew, triggerChanged, toRebuild, losses>>

(* mainTriggerCallback at the first tooth of a cycle, in the trigger's     *)
(* interrupt: checkIfTriggerConfigChanged, which clears the flag whether   *)
(* or not the version is new.                                              *)
FirstTooth ==
  /\ running
  /\ toRebuild' = (toRebuild /\ ~(versionNew /\ triggerChanged))
  /\ versionNew' = FALSE /\ triggerChanged' = FALSE
  /\ UNCHANGED <<fram, tunerVars, storedVars, pending, tsPc, writePc, running,
                 active, losses>>

StartOrStop ==
  /\ running' = ~running
  /\ UNCHANGED <<fram, tunerVars, storedVars, pending, tsPc, writePc,
                 triggerVars, losses>>

-----------------------------------------------------------------------------
(* Mutant: the write is put off until the engine runs.                     *)
WriteToFlashIfPendingRunning ==
  /\ running /\ pending /\ writePc = "idle"
  /\ pending' = FALSE
  /\ writePc' = "erase first"
  /\ UNCHANGED <<fram, tunerVars, storedVars, tsPc, running, triggerVars, losses>>

(* doPeriodicSlowCallback of a stopped engine: writeToFlashIfPending, in   *)
(* an interrupt, so that the tuner's thread stands still from here on.     *)
WriteToFlashIfPending ==
  /\ ~running /\ pending /\ writePc = "idle"
  /\ pending' = FALSE
  /\ writePc' = "erase first"
  /\ UNCHANGED <<fram, tunerVars, storedVars, tsPc, running, triggerVars, losses>>

UnchangedByWrite ==
  UNCHANGED <<fram, tunerVars, pending, running, triggerVars, losses>>

(* Mutant: both copies are erased before one is written.                   *)
EraseFirstBoth ==
  /\ writePc = "erase first"
  /\ first' = Invalid /\ second' = Invalid
  /\ writePc' = "program first"
  /\ UNCHANGED <<kept, cut, tsPc>> /\ UnchangedByWrite

(* writeToFlashNow of a flash board: eraseAndFlashCopy of the first ...    *)
EraseFirst ==
  /\ writePc = "erase first"
  /\ first' = Invalid
  /\ writePc' = "program first"
  /\ UNCHANGED <<second, kept, cut, tsPc>> /\ UnchangedByWrite

(* Mutant: what the tuner is still working on is written.                  *)
ProgramFirstWorking ==
  /\ writePc = "program first"
  /\ first' = working
  /\ writePc' = "erase second"
  /\ UNCHANGED <<second, kept, cut, tsPc>> /\ UnchangedByWrite

ProgramFirst ==
  /\ writePc = "program first"
  /\ first' = main
  /\ writePc' = "erase second"
  /\ UNCHANGED <<second, kept, cut, tsPc>> /\ UnchangedByWrite

(* ... and of the second copy.                                             *)
EraseSecond ==
  /\ writePc = "erase second"
  /\ second' = Invalid
  /\ writePc' = "program second"
  /\ UNCHANGED <<first, kept, cut, tsPc>> /\ UnchangedByWrite

WriteEnds == writePc' = "idle" /\ kept' = main /\ cut' = FALSE

ProgramSecond ==
  /\ writePc = "program second"
  /\ second' = main
  /\ WriteEnds
  /\ UNCHANGED <<first, tsPc>> /\ UnchangedByWrite

(* writeToFlashNow of a FRAM board, in the tuner's thread: each copy is    *)
(* overwritten byte by byte, and is not whole in between.                  *)
Overwritten(copy) == IF copy \in {Invalid, main} THEN main ELSE Invalid

OverwriteFirst ==
  /\ writePc = "first"
  /\ first' = Overwritten(first)
  /\ writePc' = IF first' = main THEN "second" ELSE "first"
  /\ UNCHANGED <<second, kept, cut, tsPc>> /\ UnchangedByWrite

OverwriteSecond ==
  /\ writePc = "second"
  /\ second' = Overwritten(second)
  /\ IF second' = main THEN WriteEnds /\ tsPc' = "version"
     ELSE UNCHANGED <<writePc, kept, cut, tsPc>>
  /\ UNCHANGED first /\ UnchangedByWrite

WriteToFlashNow ==
  \/ EraseFirst \/ ProgramFirst \/ EraseSecond \/ ProgramSecond
  \/ OverwriteFirst \/ OverwriteSecond

-----------------------------------------------------------------------------
(* The power fails, and the firmware boots: readConfiguration, then        *)
(* startTunerStudioConnectivity, which makes the working copy.             *)
PowerLoss ==
  /\ losses < MaxLosses
  /\ losses' = losses + 1
  /\ main' = Loaded /\ working' = Loaded /\ active' = Loaded.engine
  /\ kept' = Loaded
  /\ cut' = (cut \/ writePc # "idle")
  /\ tsPc' = "idle" /\ writePc' = "idle" /\ pending' = FALSE
  /\ versionNew' = FALSE /\ triggerChanged' = FALSE /\ toRebuild' = FALSE
  /\ tuned' = FALSE
  /\ UNCHANGED <<fram, first, second, running, edits>>

Burn ==
  \/ BurnTables \/ RequestBurn \/ IncrementVersion \/ NotifyTrigger
  \/ RememberCurrentConfiguration

Next ==
  \/ WriteEngine \/ WriteTables \/ BurnEngine \/ Burn
  \/ FirstTooth \/ StartOrStop
  \/ WriteToFlashIfPending \/ WriteToFlashNow
  \/ PowerLoss

(* A burn that has begun goes on, and the slow callback comes again and    *)
(* again.                                                                  *)
Fairness ==
  /\ WF_vars(Burn) /\ WF_vars(WriteToFlashIfPending) /\ WF_vars(WriteToFlashNow)

Spec == Init /\ [][Next]_vars
FairSpec == Spec /\ Fairness

-----------------------------------------------------------------------------
Copies == Configurations \cup {Invalid}
TsSteps ==
  {"idle", "tables", "request", "write", "version", "trigger", "remember"}
WriteSteps ==
  {"idle", "erase first", "program first", "erase second", "program second",
   "first", "second"}

TypeOK ==
  /\ fram \in BOOLEAN /\ pending \in BOOLEAN /\ running \in BOOLEAN
  /\ working \in Configurations /\ main \in Configurations
  /\ kept \in Configurations
  /\ first \in Copies /\ second \in Copies
  /\ tsPc \in TsSteps /\ writePc \in WriteSteps
  /\ versionNew \in BOOLEAN /\ triggerChanged \in BOOLEAN
  /\ active \in 0 .. MaxEdits
  /\ edits \in 0 .. MaxEdits /\ losses \in 0 .. MaxLosses
  /\ tuned \in BOOLEAN /\ cut \in BOOLEAN /\ toRebuild \in BOOLEAN

(* The storage always holds a whole configuration: the one of the last     *)
(* complete write or, during a write, the one being written.  Only a write *)
(* after one that was cut short may lose both (writeToFlashNow).           *)
StoredSurvives ==
  (~cut \/ writePc = "idle") =>
    Loaded \in {kept} \cup (IF writePc = "idle" THEN {} ELSE {main})

(* When nothing is under way, the storage holds what the firmware uses,    *)
(* but for tables edited since the burn: a write that interrupts a burn    *)
(* half-way is followed by another, and no burn is forgotten               *)
(* (handleBurnCommand against writeToFlashIfPending).                      *)
SettledIsStored ==
  tsPc = "idle" /\ writePc = "idle" /\ ~pending =>
    /\ Loaded.engine = main.engine
    /\ ~tuned => Loaded = main

(* The two copies and the order in which they are written make an atomic   *)
(* storage (writeToFlashNow, readConfiguration): what a boot would find    *)
(* goes from the old to the new configuration in one step of a write, and  *)
(* is put at risk only by a write that begins without a second copy.       *)
Storage ==
  INSTANCE AtomicStorage
    WITH stored <- Loaded, inUse <- main, spare <- (second = Loaded),
         phase <- IF writePc = "idle" THEN "idle"
                  ELSE IF writePc \in {"erase first", "program first", "first"}
                       THEN "writing"
                  ELSE "stored",
         Initial <- Defaults

StoresAtomically == Storage!Spec

(* A burnt configuration gets stored if the engine stays stopped, unless   *)
(* another takes its place or the power fails.                             *)
BurntIsStored ==
  \A e \in 0 .. MaxEdits :
    (main.engine = e /\ tsPc = "version") ~>
      (Loaded.engine = e \/ main.engine # e \/ running)

(* trigger_central.cpp:558: "we do not want to miss two updates in a row". *)
(* A change of the trigger's settings that no schedule has been rebuilt    *)
(* for is still marked as one.                                             *)
TriggerChangeIsSeen ==
  toRebuild /\ tsPc = "idle" => versionNew /\ triggerChanged
=============================================================================
