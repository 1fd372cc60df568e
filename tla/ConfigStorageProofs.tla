------------------------- MODULE ConfigStorageProofs --------------------------
(***************************************************************************)
(* Theorems about the storage of the configuration, for any number of      *)
(* edits and power losses, on both kinds of board.                         *)
(***************************************************************************)
EXTENDS ConfigStorage, TLAPS

(* The copy that is not being written, before the first one is whole.      *)
KeptBy(copy) == copy = kept \/ (copy = Invalid /\ kept = Defaults)

(* Where the last complete write is to be found while no write has been    *)
(* cut short.                                                              *)
KeptInCopies ==
  ~cut =>
    /\ writePc \in {"idle", "erase first"} => first = second /\ KeptBy(second)
    /\ writePc = "program first" => first = Invalid /\ KeptBy(second)
    /\ writePc = "first" => first \in {kept, Invalid} /\ KeptBy(second)

(* Once the first copy is written it holds the configuration in use.       *)
FirstIsWritten ==
  writePc \in {"erase second", "program second", "second"} => first = main

IdleFindsKept == writePc = "idle" => Loaded = kept

(* From the request on, a burn that is not pending any more is stored.     *)
RequestedIsStored ==
  writePc = "idle" /\ ~pending /\ tsPc \in {"idle", "version", "trigger", "remember"} =>
    /\ Loaded.engine = main.engine
    /\ ~tuned => Loaded = main

IInv ==
  /\ TypeOK
  /\ KeptInCopies
  /\ FirstIsWritten
  /\ IdleFindsKept
  /\ RequestedIsStored

-----------------------------------------------------------------------------
(* A configuration is never taken for a copy that is not whole.            *)
LEMMA InvalidIsNoConfiguration == Invalid \notin Configurations /\ Defaults \in Configurations
  <1>1. Invalid \notin Configurations
    BY DEF Invalid, Configurations
  <1>2. Defaults \in Configurations
    BY StorageAssumption DEF StorageAssumption, Defaults, Configurations
  <1> QED BY <1>1, <1>2

(* A boot finds a whole configuration, whatever the copies hold.           *)
LEMMA LoadedIsConfiguration == TypeOK => Loaded \in Configurations
  BY InvalidIsNoConfiguration DEF TypeOK, Copies, Loaded

(* An edit of one part of a configuration leaves a configuration.          *)
LEMMA EditIsConfiguration ==
  ASSUME NEW c \in Configurations, NEW n \in 0 .. MaxEdits
  PROVE  /\ [c EXCEPT !.engine = n] \in Configurations
         /\ [c EXCEPT !.tables = n] \in Configurations
  BY DEF Configurations

LEMMA EngineIsNumber ==
  ASSUME NEW c \in Configurations
  PROVE  c.engine \in 0 .. MaxEdits
  BY DEF Configurations

(* The bounded counters stay in their ranges.                              *)
LEMMA CountIsBounded ==
  ASSUME NEW bound \in Nat, NEW n \in 0 .. bound, n < bound
  PROVE  n + 1 \in 0 .. bound
  OBVIOUS

(* The type invariant is preserved by every step.                          *)
LEMMA NextKeepsTypeOK == TypeOK /\ [Next]_vars => TypeOK'
  <1> SUFFICES ASSUME TypeOK, [Next]_vars PROVE TypeOK'
    OBVIOUS
  <1> USE StorageAssumption DEF StorageAssumption
  <1>1. CASE WriteEngine
    <2>1. edits' \in 0 .. MaxEdits
      <3>1. edits \in 0 .. MaxEdits /\ edits < MaxEdits /\ edits' = edits + 1
        BY <1>1, Zenon DEF WriteEngine, TypeOK
      <3> QED BY <3>1, CountIsBounded
    <2>2. working' \in Configurations
      BY <1>1, <2>1, EditIsConfiguration DEF WriteEngine, TypeOK
    <2> QED BY <1>1, <2>1, <2>2 DEF WriteEngine, TypeOK, storedVars, triggerVars
  <1>2. CASE WriteTables
    <2>1. edits' \in 0 .. MaxEdits
      <3>1. edits \in 0 .. MaxEdits /\ edits < MaxEdits /\ edits' = edits + 1
        BY <1>2, Zenon DEF WriteTables, TypeOK
      <3> QED BY <3>1, CountIsBounded
    <2>2. working' \in Configurations /\ main' \in Configurations
      BY <1>2, <2>1, EditIsConfiguration DEF WriteTables, TypeOK
    <2> QED BY <1>2, <2>1, <2>2 DEF WriteTables, TypeOK, storedVars, triggerVars
  <1>3. CASE BurnEngine
    <2>1. main' \in Configurations
      BY <1>3, EditIsConfiguration, EngineIsNumber DEF BurnEngine, TypeOK
    <2>2. tsPc' \in TsSteps
      BY <1>3 DEF BurnEngine, TsSteps
    <2> QED BY <1>3, <2>1, <2>2, Zenon DEF BurnEngine, TypeOK, storedVars, triggerVars
  <1>4. CASE BurnTables
    <2>1. tsPc' \in TsSteps /\ main' \in Configurations
      BY <1>4 DEF BurnTables, TypeOK, TsSteps
    <2> QED BY <1>4, <2>1, Zenon DEF BurnTables, TypeOK, storedVars, triggerVars
  <1>5. CASE RequestBurn
    <2>1. tsPc' \in TsSteps /\ writePc' \in WriteSteps /\ pending' \in BOOLEAN
      BY <1>5 DEF RequestBurn, TypeOK, TsSteps, WriteSteps
    <2> QED BY <1>5, <2>1, ZenonT(60) DEF RequestBurn, TypeOK, storedVars, triggerVars
  <1>6. CASE IncrementVersion
    <2>1. tsPc' \in TsSteps
      BY <1>6 DEF IncrementVersion, TsSteps
    <2> QED BY <1>6, <2>1, ZenonT(60) DEF IncrementVersion, TypeOK, storedVars, tunerVars
  <1>7. CASE NotifyTrigger
    <2>1. tsPc' \in TsSteps /\ triggerChanged' \in BOOLEAN /\ toRebuild' \in BOOLEAN
      BY <1>7 DEF NotifyTrigger, TypeOK, TsSteps
    <2> QED BY <1>7, <2>1, ZenonT(60) DEF NotifyTrigger, TypeOK, storedVars, tunerVars
  <1>8. CASE RememberCurrentConfiguration
    <2>1. tsPc' \in TsSteps
      BY <1>8 DEF RememberCurrentConfiguration, TsSteps
    <2> QED BY <1>8, <2>1, EngineIsNumber DEF RememberCurrentConfiguration, TypeOK, storedVars, tunerVars
  <1>9. CASE FirstTooth
    BY <1>9 DEF FirstTooth, TypeOK, storedVars, tunerVars
  <1>10. CASE StartOrStop
    <2>1. tsPc' \in TsSteps /\ writePc' \in WriteSteps
      BY <1>10, Zenon DEF StartOrStop, TypeOK
    <2> QED BY <1>10, <2>1 DEF StartOrStop, TypeOK, storedVars, tunerVars, triggerVars
  <1>11. CASE WriteToFlashIfPending
    <2>1. writePc' \in WriteSteps
      BY <1>11 DEF WriteToFlashIfPending, WriteSteps
    <2> QED BY <1>11, <2>1, ZenonT(60) DEF WriteToFlashIfPending, TypeOK, storedVars, tunerVars, triggerVars
  <1>12. CASE WriteToFlashNow
    <2>1. first' \in Copies /\ second' \in Copies /\ kept' \in Configurations
      BY <1>12 DEF WriteToFlashNow, EraseFirst, ProgramFirst, EraseSecond,
         ProgramSecond, OverwriteFirst, OverwriteSecond, Overwritten, WriteEnds,
         UnchangedByWrite, TypeOK, Copies
    <2>2. /\ writePc' \in WriteSteps /\ tsPc' \in TsSteps
          /\ cut' \in BOOLEAN
      BY <1>12 DEF WriteToFlashNow, EraseFirst, ProgramFirst, EraseSecond,
         ProgramSecond, OverwriteFirst, OverwriteSecond, WriteEnds, TypeOK,
         TsSteps, WriteSteps
    <2>3. UnchangedByWrite
      BY <1>12 DEF WriteToFlashNow, EraseFirst, ProgramFirst, EraseSecond,
         ProgramSecond, OverwriteFirst, OverwriteSecond
    <2> QED BY <2>1, <2>2, <2>3 DEF UnchangedByWrite, TypeOK, tunerVars, triggerVars
  <1>13. CASE PowerLoss
    <2>1. Loaded \in Configurations /\ Loaded.engine \in 0 .. MaxEdits
      BY LoadedIsConfiguration, EngineIsNumber
    <2>2. losses' \in 0 .. MaxLosses
      <3>1. losses \in 0 .. MaxLosses /\ losses < MaxLosses /\ losses' = losses + 1
        BY <1>13, Zenon DEF PowerLoss, TypeOK
      <3> QED BY <3>1, CountIsBounded
    <2> QED BY <1>13, <2>1, <2>2 DEF PowerLoss, TypeOK, TsSteps, WriteSteps
  <1>14. CASE UNCHANGED vars
    <2>1. UNCHANGED <<fram, tunerVars, storedVars, pending, tsPc, writePc,
                      running, triggerVars, losses>>
      BY <1>14, Zenon DEF vars
    <2>2. tsPc' \in TsSteps /\ writePc' \in WriteSteps
      BY <2>1, Zenon DEF TypeOK
    <2> QED BY <2>1, <2>2 DEF TypeOK, storedVars, tunerVars, triggerVars
  <1> QED
    BY <1>1, <1>2, <1>3, <1>4, <1>5, <1>6, <1>7, <1>8, <1>9, <1>10, <1>11, <1>12, <1>13,
       <1>14 DEF Next, Burn

-----------------------------------------------------------------------------
LEMMA InitIsGood == Init => IInv
  <1> SUFFICES ASSUME Init PROVE IInv
    OBVIOUS
  <1>1. TypeOK
    <2>1. 0 \in 0 .. MaxEdits /\ 0 \in 0 .. MaxLosses
      BY StorageAssumption DEF StorageAssumption
    <2> QED BY <2>1, InvalidIsNoConfiguration, Zenon
       DEF Init, TypeOK, Copies, TsSteps, WriteSteps
  <1>2. KeptInCopies /\ FirstIsWritten /\ IdleFindsKept /\ RequestedIsStored
    BY DEF Init, KeptInCopies, KeptBy, FirstIsWritten, IdleFindsKept, RequestedIsStored, Loaded
  <1> QED BY <1>1, <1>2 DEF IInv

(* The tuner's thread changes no copy, and it stands still during a write. *)
LEMMA TunerKeepsIInv ==
  ASSUME IInv, TypeOK', WriteEngine \/ WriteTables \/ BurnEngine \/ Burn
  PROVE  IInv'
  <1>1. /\ UNCHANGED storedVars /\ writePc = "idle"
        /\ writePc' = "idle" \/ (writePc' = "first" /\ tsPc' = "write")
    BY DEF WriteEngine, WriteTables, BurnEngine, Burn, BurnTables, RequestBurn,
           IncrementVersion, NotifyTrigger, RememberCurrentConfiguration, ThreadRuns
  <1>2. Loaded' = Loaded
    BY <1>1 DEF storedVars, Loaded
  <1>3. KeptInCopies'
    BY <1>1 DEF IInv, KeptInCopies, KeptBy, storedVars
  <1>4. FirstIsWritten' /\ IdleFindsKept'
    BY <1>1, <1>2 DEF IInv, FirstIsWritten, IdleFindsKept, storedVars
  <1>5. RequestedIsStored'
    <2>1. CASE WriteEngine
      BY <2>1, <1>1, <1>2 DEF WriteEngine, IInv, RequestedIsStored
    <2>2. CASE WriteTables
      <3>1. main'.engine = main.engine
        BY <2>2 DEF WriteTables, IInv, TypeOK, Configurations
      <3> QED BY <2>2, <3>1, <1>1, <1>2 DEF WriteTables, IInv, RequestedIsStored
    <2>3. CASE BurnEngine \/ BurnTables \/ RequestBurn
      BY <2>3, <1>1 DEF BurnEngine, BurnTables, RequestBurn, RequestedIsStored
    <2>4. CASE IncrementVersion \/ NotifyTrigger \/ RememberCurrentConfiguration
      BY <2>4, <1>1, <1>2 DEF IncrementVersion, NotifyTrigger, IInv,
         RememberCurrentConfiguration, RequestedIsStored, tunerVars
    <2> QED BY <2>1, <2>2, <2>3, <2>4 DEF Burn
  <1> QED BY <1>3, <1>4, <1>5 DEF IInv

(* A write goes from one whole copy to the other: before the first copy is *)
(* written, the second still holds the last complete write.                *)
LEMMA WriteKeepsIInv ==
  ASSUME IInv, TypeOK', WriteToFlashNow
  PROVE  IInv'
  <1>1. main # Invalid /\ UNCHANGED <<main, pending, tuned>>
    BY InvalidIsNoConfiguration
       DEF IInv, TypeOK, WriteToFlashNow, EraseFirst, ProgramFirst, EraseSecond,
           ProgramSecond, OverwriteFirst, OverwriteSecond, UnchangedByWrite, tunerVars
  <1>2. CASE EraseFirst
    BY <1>2, <1>1 DEF EraseFirst, IInv, KeptInCopies, KeptBy, FirstIsWritten,
                      IdleFindsKept, RequestedIsStored
  <1>3. CASE ProgramFirst \/ EraseSecond
    BY <1>3, <1>1 DEF ProgramFirst, EraseSecond, IInv, KeptInCopies, FirstIsWritten,
                      IdleFindsKept, RequestedIsStored
  <1>4. CASE OverwriteFirst
    BY <1>4, <1>1 DEF OverwriteFirst, Overwritten, IInv, KeptInCopies, KeptBy,
                      FirstIsWritten, IdleFindsKept, RequestedIsStored
  <1>5. CASE OverwriteSecond /\ second' # main
    BY <1>5, <1>1 DEF OverwriteSecond, IInv, KeptInCopies, FirstIsWritten,
                      IdleFindsKept, RequestedIsStored
  <1>6. CASE ProgramSecond \/ (OverwriteSecond /\ second' = main)
    <2>1. /\ first' = main /\ second' = main /\ kept' = main
          /\ writePc' = "idle"
      BY <1>6 DEF ProgramSecond, OverwriteSecond, WriteEnds, IInv, FirstIsWritten
    <2>2. Loaded' = main
      BY <2>1, <1>1 DEF Loaded
    <2> QED
      BY <2>1, <2>2, <1>1 DEF IInv, KeptInCopies, KeptBy, FirstIsWritten,
         IdleFindsKept, RequestedIsStored
  <1> QED
    BY <1>2, <1>3, <1>4, <1>5, <1>6 DEF WriteToFlashNow

(* A power loss leaves the copies as they are, and a boot uses them.       *)
LEMMA PowerLossKeepsIInv ==
  ASSUME IInv, TypeOK', PowerLoss
  PROVE  IInv'
  <1>1. /\ UNCHANGED <<first, second>> /\ main' = Loaded /\ kept' = Loaded
        /\ writePc' = "idle" /\ cut' = (cut \/ writePc # "idle")
    BY DEF PowerLoss
  <1>2. Loaded' = Loaded
    BY <1>1 DEF Loaded
  <1>3. KeptInCopies'
    BY <1>1 DEF IInv, TypeOK, KeptInCopies, KeptBy, IdleFindsKept
  <1>4. FirstIsWritten' /\ IdleFindsKept' /\ RequestedIsStored'
    BY <1>1, <1>2 DEF FirstIsWritten, IdleFindsKept, RequestedIsStored
  <1> QED BY <1>3, <1>4 DEF IInv

LEMMA NextKeepsIInv == IInv /\ [Next]_vars => IInv'
  <1> SUFFICES ASSUME IInv, [Next]_vars PROVE IInv'
    OBVIOUS
  <1>1. TypeOK'
    BY NextKeepsTypeOK DEF IInv
  <1>2. CASE WriteEngine \/ WriteTables \/ BurnEngine \/ Burn
    BY <1>1, <1>2, TunerKeepsIInv
  <1>3. CASE FirstTooth \/ StartOrStop \/ UNCHANGED vars
    BY <1>1, <1>3 DEF FirstTooth, StartOrStop, vars, storedVars, tunerVars, IInv,
       KeptInCopies, KeptBy, FirstIsWritten, IdleFindsKept, RequestedIsStored, Loaded
  <1>4. CASE WriteToFlashIfPending
    BY <1>1, <1>4 DEF WriteToFlashIfPending, storedVars, tunerVars, IInv,
       KeptInCopies, KeptBy, FirstIsWritten, IdleFindsKept, RequestedIsStored
  <1>5. CASE WriteToFlashNow
    BY <1>1, <1>5, WriteKeepsIInv
  <1>6. CASE PowerLoss
    BY <1>1, <1>6, PowerLossKeepsIInv
  <1> QED BY <1>2, <1>3, <1>4, <1>5, <1>6 DEF Next

-----------------------------------------------------------------------------
LEMMA IInvAlways == Spec => []IInv
  <1> QED BY InitIsGood, NextKeepsIInv, PTL DEF Spec

(* Every variable keeps its type; in particular no boot and no burn makes  *)
(* a half-written copy the configuration in use (readConfiguration).       *)
THEOREM StorageTypesAreKept == Spec => []TypeOK
  <1>1. IInv => TypeOK
    BY DEF IInv
  <1> QED BY <1>1, IInvAlways, PTL

(* A power loss at any moment of a write leaves the configuration of the   *)
(* last complete write or the one being written (writeToFlashNow).         *)
THEOREM StoredAlwaysSurvives == Spec => []StoredSurvives
  <1>1. IInv => StoredSurvives
    <2> SUFFICES ASSUME IInv, ~cut \/ writePc = "idle" PROVE StoredSurvives
      BY DEF StoredSurvives
    <2>1. CASE writePc = "idle"
      BY <2>1 DEF IInv, IdleFindsKept, StoredSurvives
    <2>2. CASE ~cut /\ writePc \in {"erase first", "program first", "first"}
      BY <2>2, InvalidIsNoConfiguration
         DEF IInv, TypeOK, KeptInCopies, KeptBy, Loaded, StoredSurvives
    <2>3. CASE writePc \in {"erase second", "program second", "second"}
      BY <2>3, InvalidIsNoConfiguration
         DEF IInv, TypeOK, FirstIsWritten, Loaded, StoredSurvives
    <2> QED BY <2>1, <2>2, <2>3 DEF IInv, TypeOK, WriteSteps
  <1> QED BY <1>1, IInvAlways, PTL

(* When no burn and no write is under way or pending, the storage holds    *)
(* the configuration in use, but for tables edited since                   *)
(* (handleBurnCommand, writeToFlashIfPending).                             *)
THEOREM SettledAlwaysStored == Spec => []SettledIsStored
  <1>1. IInv => SettledIsStored
    BY DEF IInv, RequestedIsStored, SettledIsStored
  <1> QED BY <1>1, IInvAlways, PTL

-----------------------------------------------------------------------------
(* The storage implements AtomicStorage: what a boot finds, and what is in *)
(* use, change as it says.                                                 *)
phaseOf ==
  IF writePc = "idle" THEN "idle"
  ELSE IF writePc \in {"erase first", "program first", "first"} THEN "writing"
  ELSE "stored"

storageVars == <<Loaded, main, phaseOf, second = Loaded>>

(* What a boot finds is a matter of the copies alone.                      *)
LEMMA CopiesDetermineLoaded ==
  ASSUME UNCHANGED <<first, second>>
  PROVE  Loaded' = Loaded /\ (second = Loaded)' = (second = Loaded)
  BY DEF Loaded

(* Once the first copy is whole it is what a boot finds.                   *)
LEMMA FirstIsLoaded ==
  ASSUME IInv, writePc \in {"erase second", "program second", "second"}
  PROVE  first = main /\ Loaded = main /\ phaseOf = "stored" /\ main # Invalid
  BY InvalidIsNoConfiguration DEF IInv, TypeOK, FirstIsWritten, Loaded, phaseOf

(* The tuner, in its own thread or by the slow callback it is interrupted  *)
(* by, changes the configuration in use or begins a write.                 *)
LEMMA TunerIsAtomic ==
  ASSUME IInv, TypeOK',
         WriteEngine \/ WriteTables \/ BurnEngine \/ Burn \/ WriteToFlashIfPending
  PROVE  [Storage!Next]_storageVars
  <1>1. UNCHANGED <<first, second>> /\ writePc = "idle"
    BY DEF WriteEngine, WriteTables, BurnEngine, Burn, BurnTables, RequestBurn, storedVars,
           IncrementVersion, NotifyTrigger, RememberCurrentConfiguration, ThreadRuns,
           WriteToFlashIfPending
  <1>2. Loaded' = Loaded /\ (second = Loaded)' = (second = Loaded)
    BY <1>1, CopiesDetermineLoaded
  <1>3. CASE writePc' = "idle"
    <2>1. main' \in Configurations
      BY DEF TypeOK
    <2>2. Storage!Change
      BY <1>1, <1>2, <1>3, <2>1 DEF Storage!Change
    <2> QED BY <2>2 DEF Storage!Next
  <1>4. CASE writePc' # "idle"
    <2>1. main' = main /\ writePc' \in {"erase first", "first"}
      BY <1>1, <1>4 DEF WriteEngine, WriteTables, BurnEngine, Burn, BurnTables,
         RequestBurn, IncrementVersion, NotifyTrigger, RememberCurrentConfiguration,
         WriteToFlashIfPending, tunerVars
    <2>2. Storage!BeginWrite
      BY <1>1, <1>2, <2>1 DEF Storage!BeginWrite
    <2> QED BY <2>2 DEF Storage!Next
  <1> QED BY <1>3, <1>4

(* The first copy is given up for the second one: nothing changes, or what *)
(* was stored is lost because there is no second copy of it.               *)
LEMMA GivingFirstUpIsAtomic ==
  ASSUME IInv, first' = Invalid, UNCHANGED <<second, main>>,
         writePc \in {"erase first", "first"}, writePc' \in {"program first", "first"}
  PROVE  [Storage!Next]_storageVars
  <1>1. Loaded' = IF second # Invalid THEN second ELSE Defaults
    BY DEF Loaded
  <1>2. CASE second = Loaded
    <2>1. Loaded # Invalid
      BY LoadedIsConfiguration, InvalidIsNoConfiguration DEF IInv
    <2>2. Loaded' = Loaded
      BY <1>1, <1>2, <2>1
    <2> QED BY <1>2, <2>2 DEF storageVars, phaseOf
  <1>3. CASE second # Loaded
    <2>1. Loaded' \in Configurations
      BY <1>1, InvalidIsNoConfiguration DEF IInv, TypeOK, Copies
    <2>2. Storage!Lose
      BY <1>3, <2>1 DEF Storage!Lose
    <2> QED BY <2>2 DEF Storage!Next
  <1> QED BY <1>2, <1>3

(* A write to flash gives the first copy up for the second one, takes      *)
(* effect when the first is whole, and ends with the second.               *)
LEMMA FlashIsAtomic ==
  ASSUME IInv, EraseFirst \/ ProgramFirst \/ EraseSecond \/ ProgramSecond
  PROVE  [Storage!Next]_storageVars
  <1>1. main' = main /\ main \in Configurations /\ main # Invalid
    BY InvalidIsNoConfiguration DEF EraseFirst, ProgramFirst, EraseSecond, ProgramSecond,
       UnchangedByWrite, tunerVars, IInv, TypeOK
  <1>2. CASE EraseFirst
    <2>1. /\ writePc = "erase first" /\ writePc' = "program first"
          /\ first' = Invalid /\ second' = second
      BY <1>2 DEF EraseFirst
    <2> QED BY <1>1, <2>1, GivingFirstUpIsAtomic
  <1>3. CASE ProgramFirst
    <2>1. /\ writePc = "program first" /\ writePc' = "erase second" /\ first' = main
      BY <1>3 DEF ProgramFirst
    <2>2. Loaded' = main
      BY <1>1, <2>1 DEF Loaded
    <2>3. Storage!Store
      BY <1>1, <2>1, <2>2 DEF Storage!Store
    <2> QED BY <2>3 DEF Storage!Next
  <1>4. CASE EraseSecond
    <2>1. /\ writePc = "erase second" /\ writePc' = "program second" /\ first' = first
      BY <1>4 DEF EraseSecond
    <2>2. first = main /\ Loaded = main
      BY <2>1, FirstIsLoaded
    <2>3. Loaded' = main
      BY <1>1, <2>1, <2>2 DEF Loaded
    <2>4. Storage!Copy
      BY <1>1, <2>1, <2>2, <2>3 DEF Storage!Copy
    <2> QED BY <2>4 DEF Storage!Next
  <1>5. CASE ProgramSecond
    <2>1. /\ writePc = "program second" /\ writePc' = "idle"
          /\ first' = first /\ second' = main
      BY <1>5 DEF ProgramSecond, WriteEnds
    <2>2. first = main /\ Loaded = main
      BY <2>1, FirstIsLoaded
    <2>3. Loaded' = main
      BY <1>1, <2>1, <2>2 DEF Loaded
    <2>4. Storage!EndWrite
      BY <1>1, <2>1, <2>2, <2>3 DEF Storage!EndWrite
    <2> QED BY <2>4 DEF Storage!Next
  <1> QED BY <1>2, <1>3, <1>4, <1>5

(* A write to FRAM does the same, with a copy that is not whole where the  *)
(* flash has an erased one.                                                *)
LEMMA FramIsAtomic ==
  ASSUME IInv, OverwriteFirst \/ OverwriteSecond
  PROVE  [Storage!Next]_storageVars
  <1>1. main' = main /\ main \in Configurations /\ main # Invalid
    BY InvalidIsNoConfiguration DEF OverwriteFirst, OverwriteSecond,
       UnchangedByWrite, tunerVars, IInv, TypeOK
  <1>2. CASE OverwriteFirst /\ first' = main
    <2>1. writePc = "first" /\ writePc' = "second"
      BY <1>2 DEF OverwriteFirst
    <2>2. Loaded' = main
      BY <1>1, <1>2 DEF Loaded
    <2>3. Storage!Store
      BY <1>1, <2>1, <2>2 DEF Storage!Store
    <2> QED BY <2>3 DEF Storage!Next
  <1>3. CASE OverwriteFirst /\ first' # main
    <2>1. /\ writePc = "first" /\ writePc' = "first"
          /\ first' = Invalid /\ second' = second
      BY <1>3 DEF OverwriteFirst, Overwritten
    <2> QED BY <1>1, <2>1, GivingFirstUpIsAtomic
  <1>4. CASE OverwriteSecond
    <2>1. writePc = "second" /\ first' = first
      BY <1>4 DEF OverwriteSecond
    <2>2. first = main /\ Loaded = main
      BY <2>1, FirstIsLoaded
    <2>3. Loaded' = main
      BY <1>1, <2>1, <2>2 DEF Loaded
    <2>4. CASE second' = main
      <3>1. writePc' = "idle"
        BY <1>4, <2>4 DEF OverwriteSecond, WriteEnds
      <3>2. Storage!EndWrite
        BY <1>1, <2>1, <2>2, <2>3, <2>4, <3>1 DEF Storage!EndWrite
      <3> QED BY <3>2 DEF Storage!Next
    <2>5. CASE second' # main
      <3>1. writePc' = "second"
        BY <1>4, <2>1, <2>5 DEF OverwriteSecond
      <3>2. Storage!Copy
        BY <1>1, <2>1, <2>2, <2>3, <3>1 DEF Storage!Copy
      <3> QED BY <3>2 DEF Storage!Next
    <2> QED BY <2>4, <2>5
  <1> QED BY <1>2, <1>3, <1>4

(* Two stored copies and the order of their writing make an atomic storage *)
(* on both kinds of board (writeToFlashNow, readConfiguration).            *)
THEOREM StorageIsAtomic == Spec => StoresAtomically
  <1>1. Init => Storage!Init
    <2> SUFFICES ASSUME Init PROVE Storage!Init
      OBVIOUS
    <2>1. Loaded = Defaults /\ main = Defaults /\ writePc = "idle"
      BY DEF Init, Loaded
    <2> QED BY <2>1 DEF Storage!Init
  <1>2. IInv /\ [Next]_vars => [Storage!Next]_storageVars
    <2> SUFFICES ASSUME IInv, [Next]_vars PROVE [Storage!Next]_storageVars
      OBVIOUS
    <2>1. TypeOK'
      BY NextKeepsTypeOK DEF IInv
    <2>2. CASE WriteEngine \/ WriteTables \/ BurnEngine \/ Burn \/ WriteToFlashIfPending
      BY <2>1, <2>2, TunerIsAtomic
    <2>3. CASE WriteToFlashNow
      BY <2>3, FlashIsAtomic, FramIsAtomic DEF WriteToFlashNow
    <2>4. CASE PowerLoss
      <3>1. UNCHANGED <<first, second>> /\ main' = Loaded /\ writePc' = "idle"
        BY <2>4 DEF PowerLoss
      <3>2. Storage!PowerFails
        BY <3>1, CopiesDetermineLoaded DEF Storage!PowerFails
      <3> QED BY <3>2 DEF Storage!Next
    <2>5. CASE FirstTooth \/ StartOrStop \/ UNCHANGED vars
      <3>1. UNCHANGED <<first, second, main, writePc>>
        BY <2>5 DEF FirstTooth, StartOrStop, vars, tunerVars, storedVars
      <3> QED BY <3>1, CopiesDetermineLoaded DEF storageVars, phaseOf
    <2> QED BY <2>2, <2>3, <2>4, <2>5 DEF Next
  <1> QED
    BY <1>1, <1>2, IInvAlways, PTL
    DEF Spec, StoresAtomically, Storage!Spec, Storage!vars, storageVars, phaseOf
=============================================================================
