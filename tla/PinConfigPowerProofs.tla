------------------------ MODULE PinConfigPowerProofs ------------------------
(***************************************************************************)
(* Proofs about PinConfigPower, for any number of codecs, any lists and any *)
(* routing.                                                                 *)
(***************************************************************************)
EXTENDS PinConfigPower, TLAPS

USE EarlyDriversAssumption, LayoutAssumption, ConfigListsAssumption DEF booted, NothingSeen

\* Reprogramming a codec from a typed list leaves its verbs typed.
LEMMA ProgrammedTyped ==
  ASSUME TypeOK, NEW c \in Codecs, NEW list \in Seq(Entry), NEW v \in Programmed(list, c)
  PROVE  v \in {"none", "boot", "wake", "lost"}
<1> DEFINE fit == {n \in DOMAIN list : Fits(list[n], c)}
<1>1. CASE fit = {}
  BY <1>1 DEF TypeOK, Programmed
<1>2. CASE fit # {}
  <2>1. PICK n \in fit : v = list[n].data
    BY <1>2 DEF Programmed, First
  <2>2. list[n] \in Entry
    OBVIOUS
  <2> QED
    BY <2>1, <2>2 DEF Entry
<1> QED
  BY <1>1, <1>2

\* The type invariant (kern_alc.cpp 353-504).
THEOREM TypeCorrect == Spec => []TypeOK
<1>1. Init => TypeOK
  BY DEF Init, TypeOK, NoConfig, Entry, InitPcs, PowerPcs, Status, PowerStates, Unset, False, True,
         DeviceIdle, DeviceSleep, DeviceActive
<1>2. TypeOK /\ [Next]_vars => TypeOK'
  <2> SUFFICES ASSUME TypeOK, [Next]_vars PROVE TypeOK'
    OBVIOUS
  <2>1. CASE UNCHANGED vars
    BY <2>1 DEF TypeOK, vars, initVars, powerVars
  <2>2. ASSUME NEW c \in Codecs, InitializePinConfig(c) PROVE TypeOK'
    <3>1. CASE EnterHook(c)
      BY <3>1 DEF TypeOK, EnterHook, InitStep, InitPcs, powerVars
    <3>2. CASE ClearPinStatus(c)
      BY <3>2 DEF TypeOK, ClearPinStatus, InitStep, InitPcs, powerVars, Status
    <3>3. CASE ClearSleepStatus(c)
      BY <3>3 DEF TypeOK, ClearSleepStatus, InitStep, InitPcs, powerVars, Status
    <3>4. CASE NoEntry(c)
      BY <3>4 DEF TypeOK, NoEntry, InitStep, InitPcs, powerVars
    <3>5. CASE FindEntry(c)
      <4>1. PICK n \in First(AnalogEntries), allocated \in BOOLEAN :
              /\ config' = [config EXCEPT ![c] = IF allocated THEN WithLayout(configList[n], c)
                                                             ELSE configList[n]]
              /\ noMemory' = [noMemory EXCEPT ![c] = @ \/ ~allocated]
        BY <3>5 DEF FindEntry
      <4>2. configList[n] \in Entry
        BY DEF First, AnalogEntries, TypeOK
      <4>3. WithLayout(configList[n], c) \in Entry
        BY <4>2 DEF WithLayout, Entry, TypeOK
      <4>4. config' \in [Codecs -> Entry] /\ noMemory' \in [Codecs -> BOOLEAN]
        BY <4>1, <4>2, <4>3 DEF TypeOK
      <4> QED
        BY <4>4, <3>5 DEF TypeOK, FindEntry, InitStep, InitPcs, powerVars
    <3>6. CASE ReplaceList(c)
      BY <3>6 DEF TypeOK, ReplaceList, InitStep, InitPcs, powerVars
    <3>7. CASE CopyFails(c)
      BY <3>7 DEF TypeOK, CopyFails, InitStep, InitPcs, powerVars
    <3>8. CASE SetOwnList(c)
      <4>1. WakeEntry(config[c]) \in Entry
        <5>1. config[c] \in Entry
          BY DEF TypeOK
        <5>2. CASE config[c].wakeData = "none"
          BY <5>1, <5>2 DEF WakeEntry
        <5>3. CASE config[c].wakeData = "wake"
          BY <5>1, <5>3 DEF WakeEntry, Entry
        <5> QED
          BY <5>1, <5>2, <5>3 DEF Entry
      <4>2. <<WakeEntry(config[c])>> \in Seq(Entry)
        BY <4>1
      <4>3. ownList' \in [Codecs -> Seq(Entry)]
        BY <4>2, <3>8 DEF TypeOK, SetOwnList
      <4> QED
        BY <4>3, <3>8 DEF TypeOK, SetOwnList, InitStep, InitPcs, powerVars
    <3>9. CASE Arm(c)
      BY <3>9 DEF TypeOK, Arm, InitStep, InitPcs, powerVars, Status
    <3>10. CASE CallOriginal(c)
      BY <3>10, ProgrammedTyped DEF TypeOK, CallOriginal, InitStep, InitPcs, powerVars
    <3> QED
      BY <2>2, <3>1, <3>2, <3>3, <3>4, <3>5, <3>6, <3>7, <3>8, <3>9, <3>10 DEF InitializePinConfig
  <2>3. ASSUME NEW c \in Codecs, NEW to \in PowerStates, PowerChange(c, to) PROVE TypeOK'
    BY <2>3 DEF TypeOK, PowerChange, PowerStep, PowerPcs, initVars
  <2>4. ASSUME NEW c \in Codecs, PerformPowerChange(c) PROVE TypeOK'
    <3>1. CASE ReadStatus(c)
      <4>1. seen' = seen \/ seen' = [seen EXCEPT ![c] = <<pinStatus[c], sleepStatus[c]>>]
        BY <3>1 DEF ReadStatus
      <4>2. seen' \in [Codecs -> Status \X Status]
        <5>1. <<pinStatus[c], sleepStatus[c]>> \in Status \X Status
          BY DEF TypeOK
        <5>2. seen \in [Codecs -> Status \X Status]
          BY DEF TypeOK
        <5> QED
          BY ONLY <4>1, <5>1, <5>2
      <4>3. powerPc' \in [Codecs -> PowerPcs]
        BY <3>1 DEF TypeOK, ReadStatus, PowerStep, PowerPcs
      <4> QED
        BY <3>1, <4>2, <4>3 DEF TypeOK, ReadStatus, initVars
    <3>2. CASE MarkSleep(c)
      BY <3>2 DEF TypeOK, MarkSleep, PowerStep, PowerPcs, initVars, Status, Unset, True
    <3>3. CASE NothingToDo(c)
      BY <3>3 DEF TypeOK, NothingToDo, PowerStep, PowerPcs, initVars, Status, Unset
    <3>4. CASE ForceWake(c)
      <4>1. ownList[c] \in Seq(Entry)
        BY DEF TypeOK
      <4> QED
        BY <4>1, <3>4, ProgrammedTyped DEF TypeOK, ForceWake, PowerStep, PowerPcs, initVars
    <3>5. CASE ClearAfterWake(c)
      BY <3>5 DEF TypeOK, ClearAfterWake, PowerStep, PowerPcs, initVars, Status, Unset, False
    <3> QED
      BY <2>4, <3>1, <3>2, <3>3, <3>4, <3>5 DEF PerformPowerChange
  <2> QED
    BY <2>1, <2>2, <2>3, <2>4 DEF Next
<1> QED
  BY <1>1, <1>2, PTL DEF Spec

-----------------------------------------------------------------------------
(* What a hook prepares, and what the other one relies on.                    *)

LEMMA PinInvInit == Init => PinInv
<1> SUFFICES ASSUME Init, NEW c \in Codecs
             PROVE  HookedOnly(c) /\ EntryCopied(c) /\ OwnListMade(c)
  BY DEF PinInv
<1>1. initPc[c] = "new" /\ pinStatus[c] = Unset /\ seen[c] = NothingSeen
  BY DEF Init
<1> QED
  BY <1>1 DEF HookedOnly, EntryCopied, OwnListMade, True, False, Unset

LEMMA PinInvStep == TypeOK /\ TypeOK' /\ PinInv /\ [Next]_vars => PinInv'
<1> SUFFICES ASSUME TypeOK, TypeOK', PinInv, [Next]_vars PROVE PinInv'
  OBVIOUS
<1> USE DEF PinInv, HookedOnly, EntryCopied, OwnListMade, TypeOK
<1>1. CASE UNCHANGED vars
  BY <1>1 DEF vars, initVars, powerVars
<1>2. ASSUME NEW c \in Codecs, InitializePinConfig(c) PROVE PinInv'
  <2>1. CASE EnterHook(c)
    BY <2>1 DEF EnterHook, InitStep, InitPcs, powerVars, True, False, Unset
  <2>2. CASE ClearPinStatus(c)
    BY <2>2 DEF ClearPinStatus, InitStep, InitPcs, powerVars, True, False, Unset
  <2>3. CASE ClearSleepStatus(c)
    BY <2>3 DEF ClearSleepStatus, InitStep, InitPcs, powerVars, True, False, Unset
  <2>4. CASE NoEntry(c)
    BY <2>4 DEF NoEntry, InitStep, InitPcs, powerVars, True, False, Unset
  <2>5. CASE FindEntry(c)
    <3>1. PICK n \in First(AnalogEntries), allocated \in BOOLEAN :
            /\ config' = [config EXCEPT ![c] = IF allocated THEN WithLayout(configList[n], c)
                                                           ELSE configList[n]]
            /\ noMemory' = [noMemory EXCEPT ![c] = @ \/ ~allocated]
      BY <2>5 DEF FindEntry
    <3>2. configList[n] \in Entry /\ configList[n].codec = AnalogCodec
      BY DEF First, AnalogEntries
    <3>3. config'[c].codec = AnalogCodec
      BY <3>1, <3>2 DEF WithLayout, Entry
    <3>4. ~noMemory'[c] => config'[c].layout = appleLayout[c]
      BY <3>1, <3>2 DEF WithLayout, Entry
    <3>5. \A d \in Codecs \ {c} : config'[d] = config[d] /\ noMemory'[d] = noMemory[d]
      BY <3>1
    <3> QED
      BY <2>5, <3>3, <3>4, <3>5 DEF FindEntry, InitStep, powerVars, True, False, Unset
  <2>6. CASE ReplaceList(c)
    BY <2>6 DEF ReplaceList, InitStep, InitPcs, powerVars, True, False, Unset
  <2>7. CASE CopyFails(c)
    BY <2>7 DEF CopyFails, InitStep, InitPcs, powerVars, True, False, Unset
  <2>8. CASE SetOwnList(c)
    BY <2>8 DEF SetOwnList, InitStep, InitPcs, powerVars, True, False, Unset
  <2>9. CASE Arm(c)
    BY <2>9 DEF Arm, InitStep, InitPcs, powerVars, True, False, Unset
  <2>10. CASE CallOriginal(c)
    BY <2>10 DEF CallOriginal, InitStep, InitPcs, powerVars, True, False, Unset
  <2> QED
    BY <1>2, <2>1, <2>2, <2>3, <2>4, <2>5, <2>6, <2>7, <2>8, <2>9, <2>10 DEF InitializePinConfig
<1>3. ASSUME NEW c \in Codecs, NEW to \in PowerStates, PowerChange(c, to) PROVE PinInv'
  BY <1>3 DEF PowerChange, PowerStep, initVars
<1>4. ASSUME NEW c \in Codecs, PerformPowerChange(c) PROVE PinInv'
  <2>1. CASE ReadStatus(c)
    <3>1. seen' = seen \/ seen' = [seen EXCEPT ![c] = <<pinStatus[c], sleepStatus[c]>>]
      BY <2>1 DEF ReadStatus
    <3>2. \A d \in Codecs : seen'[d][1] = True => seen[d][1] = True \/ pinStatus[d] = True
      <4>1. seen \in [Codecs -> Status \X Status]
        OBVIOUS
      <4> QED
        BY ONLY <3>1, <4>1, c \in Codecs
    <3>3. UNCHANGED <<booted, initVars>>
      BY <2>1 DEF ReadStatus
    <3> QED
      BY <3>2, <3>3 DEF initVars, True
  <2>2. CASE MarkSleep(c)
    BY <2>2 DEF MarkSleep, PowerStep, initVars, True, Unset
  <2>3. CASE NothingToDo(c)
    BY <2>3 DEF NothingToDo, PowerStep, initVars, True, Unset
  <2>4. CASE ForceWake(c)
    BY <2>4 DEF ForceWake, PowerStep, initVars
  <2>5. CASE ClearAfterWake(c)
    BY <2>5 DEF ClearAfterWake, PowerStep, initVars, True, Unset
  <2> QED
    BY <1>4, <2>1, <2>2, <2>3, <2>4, <2>5 DEF PerformPowerChange
<1> QED
  BY <1>1, <1>2, <1>3, <1>4 DEF Next

LEMMA PinInvariant == Spec => [](TypeOK /\ PinInv)
<1>1. Spec => []TypeOK
  BY TypeCorrect
<1> QED
  BY <1>1, PinInvInit, PinInvStep, PTL DEF Spec

\* What an armed codec is re-initialised from, even if drivers run before their
\* codecs are initialised (kern_alc.cpp 446-494).
THEOREM ArmedCorrect == Spec => []ArmedWithOwnList
<1>1. TypeOK /\ PinInv => ArmedWithOwnList
  <2> SUFFICES ASSUME TypeOK, PinInv, NEW c \in Codecs, pinStatus[c] = True
               PROVE  /\ Len(ownList[c]) = 1
                      /\ ownList[c][1].codec = AnalogCodec
                      /\ ownList[c][1].wakeData = "none"
                      /\ config[c].wakeData # "none" => ownList[c][1].data = config[c].wakeData
                      /\ ~noMemory[c] => ownList[c][1].layout = appleLayout[c]
    BY DEF ArmedWithOwnList
  <2>1. config[c] \in Entry
    BY DEF TypeOK
  <2>2. ownList[c] = <<WakeEntry(config[c])>>
    BY DEF PinInv, OwnListMade
  <2>3. config[c].codec = AnalogCodec /\ (~noMemory[c] => config[c].layout = appleLayout[c])
    BY DEF PinInv, EntryCopied
  <2>4. CASE config[c].wakeData = "none"
    BY <2>2, <2>3, <2>4 DEF WakeEntry
  <2>5. CASE config[c].wakeData # "none"
    <3>1. WakeEntry(config[c]) = [config[c] EXCEPT !.data = config[c].wakeData, !.wakeData = "none"]
      BY <2>5 DEF WakeEntry
    <3>2. /\ WakeEntry(config[c]).data = config[c].wakeData
          /\ WakeEntry(config[c]).wakeData = "none"
          /\ WakeEntry(config[c]).codec = config[c].codec
          /\ WakeEntry(config[c]).layout = config[c].layout
      BY <2>1, <3>1 DEF Entry
    <3> QED
      BY <2>2, <2>3, <3>2
  <2> QED
    BY <2>4, <2>5
<1> QED
  BY <1>1, PinInvariant, PTL

\* The forced call never goes through a null trampoline (kern_alc.cpp 372,
\* 624-627).
THEOREM TrampolineThere == Spec => []NoNullTrampoline
<1>1. PinInv => NoNullTrampoline
  BY DEF PinInv, HookedOnly, NoNullTrampoline, Managed
<1> QED
  BY <1>1, PinInvariant, PTL

-----------------------------------------------------------------------------
(* Sleep and wake of the codecs whose drivers wait for them.                  *)

LEMMA WakeInvInit == Init => WakeInv
<1> SUFFICES ASSUME Init, NEW c \in Codecs \ EarlyDrivers
             PROVE  /\ QuietBefore(c) /\ StatusSet(c) /\ SeenIsCurrent(c)
                    /\ SleepRemembered(c) /\ LostWhileMarked(c)
                    /\ pinStatus[c] = True => initPc[c] \in {"original", "done"}
                    /\ powerPc[c] # "idle" => "performPowerChange" \in routed
  BY DEF WakeInv
<1>1. /\ initPc[c] = "new" /\ pinStatus[c] = Unset /\ sleepStatus[c] = Unset
      /\ power[c] = DeviceIdle /\ powerPc[c] = "idle" /\ verbs[c] = "none"
  BY DEF Init
<1> QED
  BY <1>1 DEF QuietBefore, StatusSet, SeenIsCurrent, SleepRemembered, LostWhileMarked, True, False,
              Unset, DeviceIdle, DeviceSleep

LEMMA WakeInvStep ==
  TypeOK /\ TypeOK' /\ WakeInv /\ [Next]_vars => WakeInv'
<1> SUFFICES ASSUME TypeOK, TypeOK', WakeInv, [Next]_vars PROVE WakeInv'
  OBVIOUS
<1> USE DEF WakeInv, QuietBefore, StatusSet, SeenIsCurrent, SleepRemembered, LostWhileMarked, TypeOK,
            True, False, Unset, DeviceIdle, DeviceSleep
<1>1. CASE UNCHANGED vars
  BY <1>1 DEF vars, initVars, powerVars
<1>2. ASSUME NEW c \in Codecs, InitializePinConfig(c) PROVE WakeInv'
  <2>1. CASE EnterHook(c)
    BY <2>1 DEF EnterHook, InitStep, powerVars
  <2>2. CASE ClearPinStatus(c)
    BY <2>2 DEF ClearPinStatus, InitStep, powerVars
  <2>3. CASE ClearSleepStatus(c)
    BY <2>3 DEF ClearSleepStatus, InitStep, powerVars
  <2>4. CASE NoEntry(c)
    BY <2>4 DEF NoEntry, InitStep, powerVars
  <2>5. CASE FindEntry(c)
    BY <2>5 DEF FindEntry, InitStep, powerVars
  <2>6. CASE ReplaceList(c)
    BY <2>6 DEF ReplaceList, InitStep, powerVars
  <2>7. CASE CopyFails(c)
    BY <2>7 DEF CopyFails, InitStep, powerVars
  <2>8. CASE SetOwnList(c)
    BY <2>8 DEF SetOwnList, InitStep, powerVars
  <2>9. CASE Arm(c)
    BY <2>9 DEF Arm, InitStep, powerVars
  <2>10. CASE CallOriginal(c)
    BY <2>10 DEF CallOriginal, InitStep, powerVars
  <2> QED
    BY <1>2, <2>1, <2>2, <2>3, <2>4, <2>5, <2>6, <2>7, <2>8, <2>9, <2>10 DEF InitializePinConfig
<1>3. ASSUME NEW c \in Codecs, NEW to \in PowerStates, PowerChange(c, to) PROVE WakeInv'
  BY <1>3 DEF PowerChange, PowerStep, initVars
<1>4. ASSUME NEW c \in Codecs, PerformPowerChange(c) PROVE WakeInv'
  <2>1. CASE ReadStatus(c)
    BY <2>1 DEF ReadStatus, PowerStep, initVars
  <2>2. CASE MarkSleep(c)
    BY <2>2 DEF MarkSleep, PowerStep, initVars, Managed
  <2>3. CASE NothingToDo(c)
    BY <2>3 DEF NothingToDo, PowerStep, initVars, Managed, WakingUp
  <2>4. CASE ForceWake(c)
    BY <2>4 DEF ForceWake, PowerStep, initVars, Managed, WakingUp, DeviceActive
  <2>5. CASE ClearAfterWake(c)
    BY <2>5 DEF ClearAfterWake, PowerStep, initVars
  <2> QED
    BY <1>4, <2>1, <2>2, <2>3, <2>4, <2>5 DEF PerformPowerChange
<1> QED
  BY <1>1, <1>2, <1>3, <1>4 DEF Next

LEMMA WakeInvariant == Spec => [](TypeOK /\ WakeInv)
<1>1. Spec => []TypeOK
  BY TypeCorrect
<1> QED
  BY <1>1, WakeInvInit, WakeInvStep, PTL DEF Spec

\* A forced initialisation is due to a sleep, never to a change between idle and
\* active (kern_alc.cpp 368-375).
THEOREM ForcedCorrect == Spec => ForcedOnlyWhenLost
<1>1. TypeOK /\ WakeInv /\ [Next]_vars =>
        [\A c \in Codecs \ EarlyDrivers : powerPc[c] = "act" /\ powerPc'[c] = "clear" =>
           verbs[c] = "lost" \/ verbs[c] = "none"]_vars
  <2> SUFFICES ASSUME TypeOK, WakeInv, Next,
                      NEW c \in Codecs \ EarlyDrivers, powerPc[c] = "act", powerPc'[c] = "clear"
               PROVE  verbs[c] = "lost" \/ verbs[c] = "none"
    OBVIOUS
  <2>1. ForceWake(c)
    <3>1. ~ \E d \in Codecs : InitializePinConfig(d)
      <4> SUFFICES ASSUME NEW d \in Codecs, InitializePinConfig(d) PROVE powerPc' = powerPc
        BY Zenon
      <4> QED
        BY ONLY InitializePinConfig(d)
        DEF InitializePinConfig, EnterHook, ClearPinStatus, ClearSleepStatus, NoEntry, FindEntry,
            ReplaceList, CopyFails, SetOwnList, Arm, CallOriginal, powerVars
    <3>2. ~ \E d \in Codecs, to \in PowerStates : PowerChange(d, to)
      <4> SUFFICES ASSUME NEW d \in Codecs, NEW to \in PowerStates, PowerChange(d, to) PROVE FALSE
        OBVIOUS
      <4>1. powerPc \in [Codecs -> PowerPcs]
        BY DEF TypeOK
      <4>2. PICK at : powerPc[d] = "idle" /\ powerPc' = [powerPc EXCEPT ![d] = at] /\ (at = "read" \/ at = "idle")
        BY DEF PowerChange, PowerStep
      <4> QED
        BY ONLY <4>1, <4>2, c \in Codecs, powerPc[c] = "act", powerPc'[c] = "clear"
    <3>3. PICK d \in Codecs : PerformPowerChange(d)
      BY <3>1, <3>2 DEF Next
    <3> QED
      BY <3>3 DEF PerformPowerChange, ReadStatus, MarkSleep, NothingToDo, ForceWake, ClearAfterWake,
                  PowerStep, TypeOK
  <2>2. sleepStatus[c] = True
    BY <2>1 DEF ForceWake, WakingUp, WakeInv, SeenIsCurrent
  <2> QED
    BY <2>2 DEF WakeInv, LostWhileMarked
<1> QED
  BY <1>1, WakeInvariant, PTL DEF Spec, ForcedOnlyWhenLost

-----------------------------------------------------------------------------
(* The two hooks implement the wake protocol.                                 *)

Asleep == {c \in ManagedCodecs : power[c] = DeviceSleep}
Due == {c \in ManagedCodecs : power[c] = DeviceSleep \/ sleepStatus[c] = True}

\* Every step is one step of the protocol for one codec, or none.
LEMMA WakeStep ==
  ASSUME TypeOK, WakeInv, [Next]_vars
  PROVE  [Wake!WakeNext]_(Wake!wakeVars)
<1> USE DEF ManagedCodecs, Asleep, Due, TypeOK, True, False, Unset, DeviceIdle, DeviceSleep
<1> DEFINE Same == ManagedCodecs' = ManagedCodecs /\ Asleep' = Asleep /\ Due' = Due
<1>1. SUFFICES Same \/ Wake!WakeNext
  BY DEF Wake!wakeVars
<1>2. CASE UNCHANGED vars
  BY <1>2 DEF vars, initVars, powerVars
<1>3. ASSUME NEW c \in Codecs, InitializePinConfig(c) PROVE Same \/ Wake!WakeNext
  <2> USE DEF InitStep, powerVars
  <2>1. c \notin EarlyDrivers /\ pinStatus[c] = True => initPc[c] \in {"original", "done"}
    BY DEF WakeInv
  <2>2. CASE EnterHook(c)
    BY <2>1, <2>2 DEF EnterHook
  <2>3. CASE ClearPinStatus(c)
    BY <2>1, <2>3 DEF ClearPinStatus
  <2>4. CASE ClearSleepStatus(c)
    BY <2>1, <2>4 DEF ClearSleepStatus
  <2>5. CASE NoEntry(c)
    BY <2>1, <2>5 DEF NoEntry
  <2>6. CASE FindEntry(c)
    BY <2>1, <2>6 DEF FindEntry
  <2>7. CASE ReplaceList(c)
    BY <2>1, <2>7 DEF ReplaceList
  <2>8. CASE CopyFails(c)
    BY <2>1, <2>8 DEF CopyFails
  <2>9. CASE SetOwnList(c)
    BY <2>1, <2>9 DEF SetOwnList
  <2>10. CASE CallOriginal(c)
    BY <2>1, <2>10 DEF CallOriginal
  <2>11. CASE Arm(c)
    <3>1. c \notin EarlyDrivers =>
            c \notin ManagedCodecs /\ power[c] = DeviceIdle /\ sleepStatus[c] # True
      BY <2>1, <2>11 DEF Arm, WakeInv, QuietBefore
    <3>2. CASE "performPowerChange" \in routed /\ c \notin EarlyDrivers
      <4>1. ManagedCodecs' = ManagedCodecs \cup {c} /\ Asleep' = Asleep /\ Due' = Due
        BY <2>11, <3>1, <3>2 DEF Arm
      <4> QED
        BY <3>1, <4>1 DEF Wake!WakeNext, Wake!Manage
    <3>3. CASE "performPowerChange" \notin routed \/ c \in EarlyDrivers
      BY <2>11, <3>3 DEF Arm
    <3> QED
      BY <3>2, <3>3
  <2> QED
    BY <1>3, <2>2, <2>3, <2>4, <2>5, <2>6, <2>7, <2>8, <2>9, <2>10, <2>11 DEF InitializePinConfig
<1>4. ASSUME NEW c \in Codecs, NEW to \in PowerStates, PowerChange(c, to)
      PROVE  Same \/ Wake!WakeNext
  <2> USE DEF PowerChange, PowerStep, initVars
  <2>1. /\ ManagedCodecs' = ManagedCodecs /\ power[c] # to /\ power'[c] = to
        /\ \A d \in Codecs \ {c} : power'[d] = power[d]
        /\ sleepStatus' = sleepStatus /\ powerPc[c] = "idle"
    BY <1>4
  <2>2. CASE c \notin ManagedCodecs
    BY <2>1, <2>2
  <2>3. CASE c \in ManagedCodecs /\ to = DeviceSleep
    <3>1. c \notin Asleep /\ Asleep' = Asleep \cup {c} /\ Due' = Due \cup {c}
      BY <2>1, <2>3
    <3> QED
      BY <2>1, <2>3, <3>1 DEF Wake!WakeNext, Wake!Sleep
  <2>4. CASE c \in ManagedCodecs /\ to # DeviceSleep /\ power[c] = DeviceSleep
    <3>1. sleepStatus[c] = True
      <4>1. SleepRemembered(c)
        BY <2>4 DEF WakeInv
      <4> QED
        BY <2>1, <2>4, <4>1 DEF SleepRemembered
    <3>2. c \in Asleep /\ Asleep' = Asleep \ {c} /\ Due' = Due
      BY <2>1, <2>4, <3>1
    <3> QED
      BY <2>1, <3>2 DEF Wake!WakeNext, Wake!Wake
  <2>5. CASE c \in ManagedCodecs /\ to # DeviceSleep /\ power[c] # DeviceSleep
    BY <2>1, <2>5
  <2> QED
    BY <2>2, <2>3, <2>4, <2>5
<1>5. ASSUME NEW c \in Codecs, PerformPowerChange(c) PROVE Same \/ Wake!WakeNext
  <2> USE DEF PowerStep, initVars
  <2>1. CASE ReadStatus(c)
    BY <2>1 DEF ReadStatus
  <2>2. CASE MarkSleep(c)
    BY <2>2 DEF MarkSleep
  <2>3. CASE NothingToDo(c)
    BY <2>3 DEF NothingToDo
  <2>4. CASE ForceWake(c)
    BY <2>4 DEF ForceWake
  <2>5. CASE ClearAfterWake(c) /\ c \in EarlyDrivers
    BY <2>5 DEF ClearAfterWake
  <2>6. CASE ClearAfterWake(c) /\ c \notin EarlyDrivers
    <3>1. pinStatus[c] = True /\ sleepStatus[c] = True /\ power[c] # DeviceSleep
          /\ "performPowerChange" \in routed
      BY <2>6 DEF ClearAfterWake, WakeInv, SeenIsCurrent
    <3>2. /\ c \in Due \ Asleep
          /\ ManagedCodecs' = ManagedCodecs /\ Asleep' = Asleep /\ Due' = Due \ {c}
      BY <2>6, <3>1 DEF ClearAfterWake
    <3> QED
      BY <3>2 DEF Wake!WakeNext, Wake!Reinit
  <2> QED
    BY <1>5, <2>1, <2>2, <2>3, <2>4, <2>5, <2>6 DEF PerformPowerChange
<1> QED
  BY <1>2, <1>3, <1>4, <1>5 DEF Next

\* One re-initialisation per sleep, none lost and none repeated (kern_alc.cpp
\* 353-388), for any number of codecs.
THEOREM WakeRefinement == Spec => ImplementsWakeVerbs
<1>1. Init => Wake!WakeInit
  BY DEF Init, Wake!WakeInit, ManagedCodecs, True, Unset
<1>2. TypeOK /\ WakeInv /\ [Next]_vars => [Wake!WakeNext]_(Wake!wakeVars)
  BY WakeStep
<1> QED
  BY <1>1, <1>2, WakeInvariant, PTL DEF Spec, ImplementsWakeVerbs, Wake!WakeSpec

-----------------------------------------------------------------------------
(* The boot verbs, and what of them is left after sleep.  The analog codec    *)
(* has been detected and has an entry for its layout, with boot verbs, in      *)
(* every list configDevice may start with.  The layouts above the codecs are   *)
(* any.                                                                        *)

AnalogDetected == AnalogCodec # 0 /\ AnalogLayout # 0

IsAnalog(e) == e.codec = AnalogCodec /\ e.layout = AnalogLayout
AnalogListed ==
  \A list \in ConfigLists :
    /\ \E n \in DOMAIN list : IsAnalog(list[n])
    /\ \A n \in DOMAIN list : IsAnalog(list[n]) => list[n].data = "boot"

Hooked == "initializePinConfig" \in routed
AllAllocated == \A d \in Codecs : ~noMemory[d]

\* The list is the entry that the hook of some codec has made.
ListReplaced ==
  /\ Len(configList) = 1
  /\ configList[1].codec = AnalogCodec /\ configList[1].data = "boot"
  /\ \E d \in Codecs : HasReplaced(d) /\ configList[1].layout = appleLayout[d]

BootListed(c) ==
  /\ initPc[c] = "new" => pinStatus[c] = Unset
  /\ initPc[c] \in {"find", "replace", "own", "arm"} \/ pinStatus[c] = True => appleLayout[c] # 0
  /\ initPc[c] \in {"replace", "own", "arm"} \/ pinStatus[c] = True => config[c].data = "boot"
  /\ initPc[c] \in {"own", "arm", "original", "done"} /\ appleLayout[c] # 0 => ListReplaced

\* What the pins of an analog codec are programmed with.
BootProgrammed(c) ==
  /\ initPc[c] \notin {"original", "done"} => verbs[c] = "none"
  /\ seen[c][1] = True => pinStatus[c] = True
  /\ CodecId[c] = AnalogCodec /\ appleLayout[c] # 0 =>
       /\ initPc[c] = "done" => verbs[c] # "none" \/ Overruled(c)
       /\ verbs[c] = "wake" => pinStatus[c] = True /\ ownList[c][1].data = "wake"

BootInv ==
  Hooked /\ AllAllocated =>
    /\ configList \in ConfigLists \/ ListReplaced
    /\ \A c \in Codecs : BootListed(c) /\ BootProgrammed(c)

\* The mark that a power hook has in hand, and what it makes of it.
MarkSeen(c) ==
  /\ pinStatus[c] = True \/ initPc[c] \in {"find", "replace", "own", "arm"} => sleepStatus[c] # Unset
  /\ powerPc[c] = "act" /\ seen[c][1] = True => seen[c][2] = sleepStatus[c]
  /\ powerPc[c] = "clear" => pinStatus[c] = True /\ power[c] # DeviceSleep

\* Verbs that are lost: the codec sleeps, or its sleep is remembered, or the last
\* forced call failed; and the power hook will find out.
LostKnown(c) ==
  verbs[c] = "lost" /\ pinStatus[c] = True =>
    /\ power[c] = DeviceSleep \/ sleepStatus[c] = True \/ forceFailed[c]
    /\ powerPc[c] = "idle" => IF power[c] = DeviceSleep THEN sleepStatus[c] = True ELSE forceFailed[c]
    /\ powerPc[c] = "act" => seen[c][1] = True
    /\ powerPc[c] = "clear" => forceFailed[c]

LossInv ==
  Hooked /\ "performPowerChange" \in routed /\ AllAllocated =>
    \A c \in Codecs : MarkSeen(c) /\ (CodecId[c] = AnalogCodec => LostKnown(c))

-----------------------------------------------------------------------------

\* The original programs the analog codec with the boot verbs of a replaced list,
\* unless it was replaced for a codec with another layout above it.
LEMMA BootFromList ==
  ASSUME TypeOK, ListReplaced, NEW c \in Codecs, CodecId[c] = AnalogCodec,
         NEW v \in Programmed(configList, c)
  PROVE  v = "boot" \/ (v = verbs[c] /\ Overruled(c))
<1>1. PICK d \in Codecs : HasReplaced(d) /\ configList[1].layout = appleLayout[d]
  BY DEF ListReplaced
<1>2. DOMAIN configList = {1}
  BY DEF TypeOK, ListReplaced
<1>3. CASE appleLayout[d] = appleLayout[c]
  <2>1. Fits(configList[1], c)
    BY <1>1, <1>3 DEF ListReplaced, Fits
  <2>2. {n \in DOMAIN configList : Fits(configList[n], c)} = {1}
    BY <1>2, <2>1
  <2>3. PICK n \in First({1}) : v = configList[n].data
    BY <2>2 DEF Programmed
  <2> QED
    BY <2>3 DEF First, ListReplaced
<1>4. CASE appleLayout[d] # appleLayout[c]
  <2>1. ~Fits(configList[1], c)
    BY <1>1, <1>4 DEF Fits
  <2>2. {n \in DOMAIN configList : Fits(configList[n], c)} = {}
    BY <1>2, <2>1
  <2>3. v = verbs[c]
    BY <2>2 DEF Programmed
  <2> QED
    BY <1>1, <1>4, <2>3 DEF Overruled
<1> QED
  BY <1>3, <1>4

\* The forced call programs it with the verbs of its own list.
LEMMA WakeFromOwnList ==
  ASSUME TypeOK, PinInv, NEW c \in Codecs, pinStatus[c] = True, ~noMemory[c],
         CodecId[c] = AnalogCodec, config[c].data = "boot", NEW v \in Programmed(ownList[c], c)
  PROVE  v = ownList[c][1].data /\ v \in {"boot", "wake"}
<1>1. ownList[c] = <<WakeEntry(config[c])>> /\ config[c] \in Entry
  BY DEF PinInv, OwnListMade, TypeOK
<1>2. config[c].codec = AnalogCodec /\ config[c].layout = appleLayout[c]
  BY DEF PinInv, EntryCopied
<1>3. /\ WakeEntry(config[c]).codec = AnalogCodec /\ WakeEntry(config[c]).layout = appleLayout[c]
      /\ WakeEntry(config[c]).data \in {"boot", "wake"}
  BY <1>1, <1>2 DEF WakeEntry, Entry
<1>4. DOMAIN ownList[c] = {1} /\ ownList[c][1] = WakeEntry(config[c])
  BY <1>1
<1>5. Fits(ownList[c][1], c)
  BY <1>3, <1>4 DEF Fits
<1>6. {n \in DOMAIN ownList[c] : Fits(ownList[c][n], c)} = {1}
  BY <1>4, <1>5
<1>7. PICK n \in First({1}) : v = ownList[c][n].data
  BY <1>6 DEF Programmed
<1> QED
  BY <1>3, <1>4, <1>7 DEF First

LEMMA BootInvInit == Init => BootInv
<1> SUFFICES ASSUME Init PROVE BootInv
  OBVIOUS
<1>1. ASSUME NEW c \in Codecs PROVE BootListed(c) /\ BootProgrammed(c)
  BY DEF Init, BootListed, BootProgrammed, True, False, Unset
<1>2. configList \in ConfigLists
  BY DEF Init
<1> QED
  BY <1>1, <1>2 DEF BootInv

\* No hook forgets that an allocation failed; the routing is done once, and the
\* layouts stay.
LEMMA FailuresStay ==
  ASSUME TypeOK, [Next]_vars
  PROVE  (AllAllocated' => AllAllocated) /\ routed' = routed /\ appleLayout' = appleLayout
<1>1. routed' = routed /\ appleLayout' = appleLayout
  BY DEF Next, vars, initVars, powerVars, InitializePinConfig, PerformPowerChange, EnterHook, ClearPinStatus,
         ClearSleepStatus, NoEntry, FindEntry, ReplaceList, CopyFails, SetOwnList, Arm, CallOriginal,
         PowerChange, ReadStatus, MarkSleep, NothingToDo, ForceWake, ClearAfterWake
<1>2. ASSUME NEW d \in Codecs, noMemory[d] PROVE noMemory'[d]
  <2>1. CASE noMemory' = noMemory
    BY <1>2, <2>1
  <2>2. ASSUME NEW c \in Codecs, NEW b \in BOOLEAN, noMemory' = [noMemory EXCEPT ![c] = @ \/ b]
        PROVE  noMemory'[d]
    BY <1>2, <2>2 DEF TypeOK
  <2>3. ASSUME NEW c \in Codecs, noMemory' = [noMemory EXCEPT ![c] = TRUE] PROVE noMemory'[d]
    BY <1>2, <2>3 DEF TypeOK
  <2>4. ASSUME NEW c \in Codecs, FindEntry(c) \/ ReplaceList(c) PROVE noMemory'[d]
    <3>1. PICK b \in BOOLEAN : noMemory' = [noMemory EXCEPT ![c] = @ \/ ~b]
      BY <2>4 DEF FindEntry, ReplaceList
    <3>2. (~b) \in BOOLEAN
      OBVIOUS
    <3> QED
      BY <2>2, <3>1, <3>2
  <2>5. ASSUME NEW c \in Codecs, CopyFails(c) PROVE noMemory'[d]
    BY <2>3, <2>5 DEF CopyFails
  <2> QED
    BY <2>1, <2>4, <2>5 DEF Next, vars, initVars, powerVars, InitializePinConfig, PerformPowerChange,
       EnterHook, ClearPinStatus, ClearSleepStatus, NoEntry, SetOwnList, Arm, CallOriginal,
       PowerChange, ReadStatus, MarkSleep, NothingToDo, ForceWake, ClearAfterWake
<1> QED
  BY <1>1, <1>2 DEF AllAllocated

\* A codec that has replaced the list has replaced it for good.
LEMMA ReplacedStay ==
  ASSUME TypeOK, NEW c \in Codecs, InitializePinConfig(c)
  PROVE  /\ \A d \in Codecs : HasReplaced(d) => HasReplaced(d)'
         /\ \A d \in Codecs : Overruled(d) => Overruled(d)'
<1>1. appleLayout' = appleLayout
  BY DEF InitializePinConfig, EnterHook, ClearPinStatus, ClearSleepStatus, NoEntry, FindEntry,
         ReplaceList, CopyFails, SetOwnList, Arm, CallOriginal
<1>2. ASSUME NEW d \in Codecs, HasReplaced(d) PROVE HasReplaced(d)'
  <2>1. initPc[d] \in {"own", "arm", "original", "done"} /\ config[d] # NoConfig
    BY <1>2 DEF HasReplaced
  <2>2. initPc'[d] \in {"own", "arm", "original", "done"}
    BY <2>1 DEF TypeOK, InitializePinConfig, InitStep, EnterHook, ClearPinStatus, ClearSleepStatus,
       NoEntry, FindEntry, ReplaceList, CopyFails, SetOwnList, Arm, CallOriginal
  <2>3. config'[d] = config[d]
    BY <2>1 DEF TypeOK, InitializePinConfig, InitStep, EnterHook, ClearPinStatus, ClearSleepStatus,
       NoEntry, FindEntry, ReplaceList, CopyFails, SetOwnList, Arm, CallOriginal
  <2> QED
    BY <2>1, <2>2, <2>3 DEF HasReplaced, NoConfig
<1> QED
  BY <1>1, <1>2 DEF Overruled

\* What a step of one codec leaves to the others, once it has left the list good.
LEMMA BootOthers ==
  ASSUME NEW d \in Codecs, BootListed(d), BootProgrammed(d), ListReplaced => ListReplaced',
         Overruled(d) => Overruled(d)', appleLayout' = appleLayout,
         UNCHANGED <<initPc[d], pinStatus[d], config[d], verbs[d], seen[d], ownList[d]>>
  PROVE  BootListed(d)' /\ BootProgrammed(d)'
BY DEF BootListed, BootProgrammed

LEMMA BootInvInitialize ==
  ASSUME TypeOK, TypeOK', PinInv, BootInv, AnalogDetected, AnalogListed,
         Hooked, AllAllocated, AllAllocated', NEW c \in Codecs, InitializePinConfig(c)
  PROVE  /\ configList' \in ConfigLists \/ ListReplaced'
         /\ \A d \in Codecs : BootListed(d)' /\ BootProgrammed(d)'
<1>0. /\ configList \in ConfigLists \/ ListReplaced
      /\ \A d \in Codecs : BootListed(d) /\ BootProgrammed(d)
  BY DEF BootInv
<1>c. BootListed(c) /\ BootProgrammed(c)
  BY <1>0
<1>d. ASSUME NEW d \in Codecs \ {c}
      PROVE  UNCHANGED <<initPc[d], pinStatus[d], config[d], verbs[d], seen[d], ownList[d]>>
  <2>1. UNCHANGED <<initPc[d], seen[d]>>
    BY <1>d DEF TypeOK, InitializePinConfig, InitStep, EnterHook, ClearPinStatus, ClearSleepStatus, NoEntry,
       FindEntry, ReplaceList, CopyFails, SetOwnList, Arm, CallOriginal, powerVars
  <2>2. UNCHANGED <<pinStatus[d], ownList[d]>>
    BY <1>d DEF TypeOK, InitializePinConfig, EnterHook, ClearPinStatus, ClearSleepStatus, NoEntry,
       FindEntry, ReplaceList, CopyFails, SetOwnList, Arm, CallOriginal
  <2>3. UNCHANGED <<config[d], verbs[d]>>
    BY <1>d DEF TypeOK, InitializePinConfig, EnterHook, ClearPinStatus, ClearSleepStatus, NoEntry,
       FindEntry, ReplaceList, CopyFails, SetOwnList, Arm, CallOriginal
  <2> QED
    BY <2>1, <2>2, <2>3
<1>t. initPc[c] \in InitPcs /\ initPc \in [Codecs -> InitPcs] /\ pinStatus \in [Codecs -> Status]
  BY DEF TypeOK
<1>a. appleLayout' = appleLayout /\ (Overruled(c) => Overruled(c)')
  BY FailuresStay, ReplacedStay DEF Next
<1>same. configList' = configList => /\ configList' \in ConfigLists \/ ListReplaced'
                                     /\ ListReplaced => ListReplaced'
  BY <1>0, <1>a, ReplacedStay DEF ListReplaced
<1>others. ASSUME ListReplaced => ListReplaced' PROVE \A d \in Codecs \ {c} : BootListed(d)' /\ BootProgrammed(d)'
  BY <1>0, <1>a, <1>d, <1>others, ReplacedStay, BootOthers
<1>1. CASE EnterHook(c)
  <2>1. /\ configList' = configList /\ initPc'[c] \in {"pin", "original"}
        /\ UNCHANGED <<pinStatus, config, verbs, seen, ownList>> /\ initPc[c] = "new"
        /\ pinStatus[c] = Unset => initPc'[c] = "pin"
    BY <1>1, <1>t DEF EnterHook, InitStep, powerVars, Hooked
  <2>2. pinStatus[c] = Unset /\ initPc'[c] = "pin"
    BY <2>1, <1>a, <1>c DEF BootListed
  <2>3. BootListed(c)' /\ BootProgrammed(c)'
    BY <2>1, <2>2, <1>a, <1>c DEF BootListed, BootProgrammed, Unset, True
  <2> QED
    BY <2>1, <2>3, <1>same, <1>others
<1>2. CASE ClearPinStatus(c)
  <2>1. /\ configList' = configList /\ initPc'[c] = "sleep" /\ pinStatus'[c] = False
        /\ UNCHANGED <<config, verbs, seen, ownList>> /\ initPc[c] = "pin"
    BY <1>2, <1>t DEF ClearPinStatus, InitStep, powerVars
  <2>2. pinStatus[c] # True
    BY <2>1 DEF PinInv, OwnListMade
  <2>3. BootListed(c)' /\ BootProgrammed(c)'
    BY <2>1, <2>2, <1>a, <1>c DEF BootListed, BootProgrammed, False, True
  <2> QED
    BY <2>1, <2>3, <1>same, <1>others
<1>3. CASE ClearSleepStatus(c)
  <2>1. /\ configList' = configList /\ initPc[c] = "sleep"
        /\ initPc'[c] = IF appleLayout[c] # 0 THEN "find" ELSE "original"
        /\ UNCHANGED <<pinStatus, config, verbs, seen, ownList>>
    BY <1>3, <1>t DEF ClearSleepStatus, InitStep, powerVars, AnalogDetected
  <2>2. BootListed(c)' /\ BootProgrammed(c)'
    BY <2>1, <1>a, <1>c DEF BootListed, BootProgrammed
  <2> QED
    BY <2>1, <2>2, <1>same, <1>others
<1>4. CASE NoEntry(c)
  <2>1. /\ configList' = configList /\ initPc'[c] = "original" /\ initPc[c] = "find" /\ AnalogEntries = {}
        /\ UNCHANGED <<pinStatus, config, verbs, seen, ownList>>
    BY <1>4, <1>t DEF NoEntry, InitStep, powerVars
  <2>2. configList \notin ConfigLists
    BY <2>1 DEF AnalogListed, IsAnalog, AnalogEntries
  <2>3. ListReplaced /\ ListReplaced'
    BY <2>1, <2>2, <1>0, <1>same
  <2>4. BootListed(c)' /\ BootProgrammed(c)'
    BY <2>1, <2>3, <1>a, <1>c DEF BootListed, BootProgrammed
  <2> QED
    BY <2>1, <2>4, <1>same, <1>others
<1>5. CASE FindEntry(c)
  <2>1. /\ configList' = configList /\ initPc'[c] = "replace" /\ initPc[c] = "find"
        /\ UNCHANGED <<pinStatus, verbs, seen, ownList>>
    BY <1>5, <1>t DEF FindEntry, InitStep, powerVars
  <2>2. PICK n \in AnalogEntries : \E e \in {configList[n], WithLayout(configList[n], c)} :
          config' = [config EXCEPT ![c] = e]
    BY <1>5 DEF FindEntry, First
  <2>3. configList[n] \in Entry /\ configList[n].data = "boot"
    <3>1. n \in DOMAIN configList /\ IsAnalog(configList[n])
      BY DEF AnalogEntries, IsAnalog
    <3>2. configList \in Seq(Entry)
      BY DEF TypeOK
    <3>3. configList[n] \in Entry
      BY <3>1, <3>2
    <3>4. CASE configList \in ConfigLists
      BY <3>1, <3>3, <3>4 DEF AnalogListed
    <3>5. CASE ListReplaced
      <4>1. n = 1
        BY <3>1, <3>2, <3>5 DEF ListReplaced
      <4> QED
        BY <4>1, <3>3, <3>5 DEF ListReplaced
    <3> QED
      BY <1>0, <3>4, <3>5
  <2>4. config'[c].data = "boot"
    <3>1. PICK e \in {configList[n], WithLayout(configList[n], c)} : config' = [config EXCEPT ![c] = e]
      BY <2>2
    <3>2. e.data = "boot"
      BY <2>3 DEF WithLayout, Entry
    <3> QED
      BY <3>1, <3>2 DEF TypeOK
  <2>5. BootListed(c)' /\ BootProgrammed(c)'
    BY <2>1, <2>4, <1>a, <1>c DEF BootListed, BootProgrammed
  <2> QED
    BY <2>1, <2>5, <1>same, <1>others
<1>6. CASE ReplaceList(c)
  <2>1. /\ initPc'[c] \in {"own", "original"} /\ initPc[c] = "replace"
        /\ UNCHANGED <<pinStatus, config, verbs, seen, ownList>>
    BY <1>6, <1>t DEF ReplaceList, InitStep, powerVars
  <2>2. PICK allocated \in BOOLEAN : /\ configList' = IF allocated THEN <<config[c]>> ELSE configList
                                     /\ noMemory' = [noMemory EXCEPT ![c] = @ \/ ~allocated]
    BY <1>6 DEF ReplaceList
  <2>3. allocated
    BY <2>2 DEF AllAllocated, TypeOK
  <2>4. /\ config[c].codec = AnalogCodec /\ config[c].layout = appleLayout[c] /\ config[c].data = "boot"
    BY <2>1, <1>a, <1>c DEF PinInv, EntryCopied, AllAllocated, BootListed
  <2>5. configList' = <<config[c]>>
    BY <2>2, <2>3
  <2>6. ListReplaced'
    <3>1. HasReplaced(c)'
      BY <2>1, <2>4 DEF HasReplaced, NoConfig, AnalogDetected
    <3> QED
      BY <1>a, <2>4, <2>5, <3>1 DEF ListReplaced
  <2>7. BootListed(c)' /\ BootProgrammed(c)'
    BY <2>1, <2>6, <1>a, <1>c DEF BootListed, BootProgrammed
  <2> QED
    BY <2>6, <2>7, <1>others
<1>7. CASE CopyFails(c)
  BY <1>7 DEF CopyFails, AllAllocated, TypeOK
<1>8. CASE SetOwnList(c)
  <2>1. /\ configList' = configList /\ initPc'[c] = "arm" /\ initPc[c] = "own"
        /\ UNCHANGED <<pinStatus, config, verbs, seen>>
    BY <1>8, <1>t DEF SetOwnList, InitStep, powerVars
  <2>2. verbs[c] = "none"
    BY <2>1, <1>a, <1>c DEF BootProgrammed
  <2>3. BootListed(c)' /\ BootProgrammed(c)'
    BY <2>1, <2>2, <1>a, <1>c, <1>same DEF BootListed, BootProgrammed
  <2> QED
    BY <2>1, <2>3, <1>same, <1>others
<1>9. CASE Arm(c)
  <2>1. /\ configList' = configList /\ initPc'[c] = "original" /\ initPc[c] = "arm" /\ pinStatus'[c] = True
        /\ UNCHANGED <<config, verbs, seen, ownList>>
    BY <1>9, <1>t DEF Arm, InitStep, powerVars
  <2>2. verbs[c] = "none"
    BY <2>1, <1>a, <1>c DEF BootProgrammed
  <2>3. BootListed(c)' /\ BootProgrammed(c)'
    BY <2>1, <2>2, <1>a, <1>c, <1>same DEF BootListed, BootProgrammed
  <2> QED
    BY <2>1, <2>3, <1>same, <1>others
<1>10. CASE CallOriginal(c)
  <2>1. /\ configList' = configList /\ initPc'[c] = "done" /\ initPc[c] = "original"
        /\ UNCHANGED <<pinStatus, config, seen, ownList>>
    BY <1>10, <1>t DEF CallOriginal, InitStep, powerVars
  <2>2. PICK v \in Programmed(configList, c) : verbs' = [verbs EXCEPT ![c] = v]
    BY <1>10 DEF CallOriginal
  <2>3. appleLayout[c] # 0 => ListReplaced
    BY <2>1, <1>a, <1>c DEF BootListed
  <2>4. CodecId[c] = AnalogCodec /\ appleLayout[c] # 0 =>
          verbs'[c] = "boot" \/ (verbs'[c] = verbs[c] /\ Overruled(c))
    BY <2>2, <2>3, BootFromList DEF TypeOK
  <2>5. BootListed(c)' /\ BootProgrammed(c)'
    BY <2>1, <2>4, <1>a, <1>c, <1>same DEF BootListed, BootProgrammed
  <2> QED
    BY <2>1, <2>5, <1>same, <1>others
<1> QED
  BY <1>1, <1>2, <1>3, <1>4, <1>5, <1>6, <1>7, <1>8, <1>9, <1>10 DEF InitializePinConfig

LEMMA BootInvPower ==
  ASSUME TypeOK, TypeOK', PinInv, BootInv, Hooked, AllAllocated, NEW c \in Codecs,
         (\E to \in PowerStates : PowerChange(c, to)) \/ PerformPowerChange(c)
  PROVE  /\ configList' \in ConfigLists \/ ListReplaced'
         /\ \A d \in Codecs : BootListed(d)' /\ BootProgrammed(d)'
<1>0. /\ configList \in ConfigLists \/ ListReplaced
      /\ \A d \in Codecs : BootListed(d) /\ BootProgrammed(d)
  BY DEF BootInv
<1>1. UNCHANGED <<appleLayout, configList, ownList, pinStatus, initPc, config, noMemory>>
  BY DEF PowerChange, PerformPowerChange, ReadStatus, MarkSleep, NothingToDo, ForceWake, ClearAfterWake, initVars
<1>2. /\ configList' \in ConfigLists \/ ListReplaced'
      /\ ListReplaced => ListReplaced'
      /\ \A d \in Codecs : Overruled(d) => Overruled(d)'
  BY <1>0, <1>1 DEF ListReplaced, Overruled, HasReplaced
<1>3. ASSUME NEW d \in Codecs \ {c} PROVE BootListed(d)' /\ BootProgrammed(d)'
  <2>1. UNCHANGED verbs[d]
    <3>1. verbs' = verbs \/ \E v : verbs' = [verbs EXCEPT ![c] = v]
      BY DEF PowerChange, PerformPowerChange, ReadStatus, MarkSleep, NothingToDo, ForceWake, ClearAfterWake
    <3> QED
      BY <1>3, <3>1 DEF TypeOK
  <2>2. UNCHANGED seen[d]
    <3>1. seen' = seen \/ \E v : seen' = [seen EXCEPT ![c] = v]
      BY DEF PowerChange, PerformPowerChange, ReadStatus, MarkSleep, NothingToDo, ForceWake, ClearAfterWake
    <3> QED
      BY <1>3, <3>1 DEF TypeOK
  <2> QED
    BY <1>0, <1>1, <1>2, <2>1, <2>2, BootOthers
<1>4. BootListed(c)'
  BY <1>0, <1>1, <1>2 DEF BootListed
<1>5. BootListed(c) /\ BootProgrammed(c) /\ c \in Codecs
  BY <1>0
<1>6. seen'[c][1] = True => pinStatus[c] = True
  <2>1. CASE seen' = seen
    BY <2>1, <1>5 DEF BootProgrammed
  <2>2. CASE ReadStatus(c)
    BY <2>1, <2>2 DEF ReadStatus, TypeOK
  <2>3. CASE \E to \in PowerStates : PowerChange(c, to)
    BY ONLY <2>1, <2>3 DEF PowerChange
  <2>4. CASE ForceWake(c)
    BY ONLY <2>1, <2>4 DEF ForceWake
  <2>5. CASE MarkSleep(c) \/ NothingToDo(c) \/ ClearAfterWake(c)
    <3>1. seen' = [seen EXCEPT ![c] = NothingSeen]
      BY <2>5 DEF MarkSleep, NothingToDo, ClearAfterWake
    <3> QED
      BY <3>1 DEF TypeOK, Unset, True
  <2> QED
    BY <2>2, <2>3, <2>4, <2>5 DEF PerformPowerChange
<1>7. CASE verbs' = verbs
  <2>1. BootProgrammed(c)'
    BY <1>1, <1>2, <1>5, <1>6, <1>7 DEF BootProgrammed
  <2> QED
    BY <1>2, <1>3, <1>4, <2>1
<1>8. CASE \E to \in PowerStates : PowerChange(c, to)
  <2>1. verbs'[c] = verbs[c] \/ (verbs[c] # "none" /\ verbs'[c] = "lost")
    BY <1>8 DEF PowerChange, TypeOK
  <2>2. BootProgrammed(c)'
    BY <1>1, <1>2, <1>5, <1>6, <2>1 DEF BootProgrammed
  <2> QED
    BY <1>2, <1>3, <1>4, <2>2
<1>9. CASE ForceWake(c)
  <2>1. seen[c][1] = True
    BY <1>9 DEF ForceWake, Managed
  <2>2. pinStatus[c] = True /\ config[c].data = "boot" /\ initPc[c] \in {"original", "done"}
    BY <2>1, <1>5 DEF BootProgrammed, BootListed, PinInv, OwnListMade
  <2>3. PICK v \in Programmed(ownList[c], c), ok \in BOOLEAN : verbs' = [verbs EXCEPT ![c] = IF ok THEN v ELSE @]
    BY <1>9 DEF ForceWake
  <2>4. CodecId[c] = AnalogCodec =>
          verbs'[c] = verbs[c] \/ (verbs'[c] = ownList[c][1].data /\ verbs'[c] \in {"boot", "wake"})
    BY <2>2, <2>3, WakeFromOwnList DEF TypeOK, AllAllocated
  <2>5. BootProgrammed(c)'
    BY <1>1, <1>2, <1>5, <1>6, <2>2, <2>4 DEF BootProgrammed
  <2> QED
    BY <1>2, <1>3, <1>4, <2>5
<1> QED
  <2>1. CASE verbs' = verbs
    BY <1>2, <1>3, <1>4, <1>7, <2>1
  <2> QED
    BY <1>8, <1>9, <2>1 DEF PerformPowerChange, ReadStatus, MarkSleep, NothingToDo, ClearAfterWake

LEMMA BootInvStep ==
  ASSUME AnalogDetected, AnalogListed
  PROVE  TypeOK /\ TypeOK' /\ PinInv /\ BootInv /\ [Next]_vars => BootInv'
<1> SUFFICES ASSUME TypeOK, TypeOK', PinInv, BootInv, [Next]_vars, Hooked', AllAllocated'
             PROVE  /\ configList' \in ConfigLists \/ ListReplaced'
                    /\ \A d \in Codecs : BootListed(d)' /\ BootProgrammed(d)'
  BY DEF BootInv
<1>1. AllAllocated /\ Hooked
  BY FailuresStay DEF Hooked
<1>2. CASE UNCHANGED vars
  BY <1>1, <1>2 DEF BootInv, vars, initVars, powerVars, ListReplaced, BootListed, BootProgrammed,
                     Overruled, HasReplaced
<1>3. CASE Next
  BY <1>1, <1>3, BootInvInitialize, BootInvPower DEF Next
<1> QED
  BY <1>2, <1>3

LEMMA BootInvariant ==
  ASSUME AnalogDetected, AnalogListed
  PROVE  Spec => [](TypeOK /\ PinInv /\ BootInv)
<1>1. TypeOK /\ TypeOK' /\ PinInv /\ BootInv /\ [Next]_vars => BootInv'
  BY BootInvStep
<1>2. Spec => [](TypeOK /\ PinInv)
  BY PinInvariant
<1> QED
  BY <1>1, <1>2, BootInvInit, PTL DEF Spec

\* The analog codec gets its boot verbs although its layout number in the list is
\* not the one Apple's code looks for, in whatever order and interleaving any
\* number of codecs are initialised, and whatever their drivers do meanwhile
\* (kern_alc.cpp 422-460).  The layouts above the codecs are any: only a codec that
\* replaced the list under another number can take the verbs away.
THEOREM BootCorrect ==
  ASSUME AnalogDetected, AnalogListed
  PROVE  Spec => []BootVerbsSent
<1>1. BootInv => BootVerbsSent
  BY DEF BootInv, BootVerbsSent, BootProgrammed, Hooked, AllAllocated
<1>2. Spec => [](TypeOK /\ PinInv /\ BootInv)
  BY BootInvariant
<1> QED
  BY <1>1, <1>2, PTL

-----------------------------------------------------------------------------

LEMMA LossInvInit == Init => LossInv
<1> SUFFICES ASSUME Init, NEW c \in Codecs PROVE MarkSeen(c) /\ LostKnown(c)
  BY DEF LossInv
<1> QED
  BY DEF Init, MarkSeen, LostKnown, True, False, Unset

LEMMA LossOthers ==
  ASSUME NEW d \in Codecs,
         MarkSeen(d) /\ (CodecId[d] = AnalogCodec => LostKnown(d)),
         UNCHANGED <<initPc[d], pinStatus[d], sleepStatus[d], power[d], powerPc[d], seen[d], verbs[d], forceFailed[d]>>
  PROVE  (MarkSeen(d) /\ (CodecId[d] = AnalogCodec => LostKnown(d)))'
BY DEF MarkSeen, LostKnown

\* Verbs that may be lost are those of a codec whose initialisation is through
\* with its list.
LEMMA NoneBefore ==
  ASSUME BootInv, Hooked, AllAllocated, NEW c \in Codecs, initPc[c] \notin {"original", "done"}
  PROVE  verbs[c] = "none"
BY DEF BootInv, BootProgrammed

LEMMA LossInvInitialize ==
  ASSUME TypeOK, PinInv, BootInv, Hooked, AllAllocated, NEW c \in Codecs, InitializePinConfig(c),
         \A d \in Codecs : MarkSeen(d) /\ (CodecId[d] = AnalogCodec => LostKnown(d))
  PROVE  \A d \in Codecs : (MarkSeen(d) /\ (CodecId[d] = AnalogCodec => LostKnown(d)))'
<1>1. UNCHANGED <<power, powerPc, seen, forceFailed>>
  BY DEF InitializePinConfig, EnterHook, ClearPinStatus, ClearSleepStatus, NoEntry,
     FindEntry, ReplaceList, CopyFails, SetOwnList, Arm, CallOriginal, powerVars
<1>2. ASSUME NEW d \in Codecs \ {c} PROVE UNCHANGED <<initPc[d], pinStatus[d], sleepStatus[d], verbs[d]>>
  BY <1>2 DEF TypeOK, InitializePinConfig, InitStep, EnterHook, ClearPinStatus, ClearSleepStatus, NoEntry,
     FindEntry, ReplaceList, CopyFails, SetOwnList, Arm, CallOriginal
<1>3. ASSUME NEW d \in Codecs \ {c} PROVE (MarkSeen(d) /\ (CodecId[d] = AnalogCodec => LostKnown(d)))'
  BY <1>1, <1>2, LossOthers
<1>4. seen[c][1] = True => pinStatus[c] = True
  BY DEF BootInv, BootProgrammed
<1>5. pinStatus[c] = True => initPc[c] \in {"original", "done"}
  BY DEF PinInv, OwnListMade
<1>t. initPc \in [Codecs -> InitPcs] /\ pinStatus \in [Codecs -> Status] /\ sleepStatus \in [Codecs -> Status]
  BY DEF TypeOK
<1>6. MarkSeen(c)'
  <2>1. CASE ClearPinStatus(c)
    BY <2>1, <1>1, <1>4, <1>5, <1>t DEF MarkSeen, ClearPinStatus, InitStep, True, False, powerVars
  <2>2. CASE ClearSleepStatus(c)
    BY <2>2, <1>1, <1>4, <1>5, <1>t DEF MarkSeen, ClearSleepStatus, InitStep, True, False, Unset, powerVars
  <2>3. CASE Arm(c)
    BY <2>3, <1>1, <1>4, <1>5, <1>t DEF MarkSeen, Arm, InitStep, powerVars
  <2>4. CASE EnterHook(c) \/ NoEntry(c) \/ FindEntry(c) \/ ReplaceList(c) \/ CopyFails(c) \/ SetOwnList(c)
             \/ CallOriginal(c)
    <3>1. UNCHANGED <<pinStatus, sleepStatus>>
      BY <2>4 DEF EnterHook, NoEntry, FindEntry, ReplaceList, CopyFails, SetOwnList, CallOriginal
    <3>2. initPc'[c] \in {"find", "replace", "own", "arm"} => initPc[c] \in {"find", "replace", "own", "arm"}
      BY <2>4, <1>t DEF EnterHook, NoEntry, FindEntry, ReplaceList, CopyFails, SetOwnList, CallOriginal, InitStep
    <3> QED
      BY <3>1, <3>2, <1>1 DEF MarkSeen
  <2> QED
    BY <2>1, <2>2, <2>3, <2>4 DEF InitializePinConfig
<1>7. ASSUME CodecId[c] = AnalogCodec PROVE LostKnown(c)'
  <2>1. CASE CallOriginal(c)
    <3>1. PICK v \in Programmed(configList, c) : verbs' = [verbs EXCEPT ![c] = v]
      BY <2>1 DEF CallOriginal
    <3>2. pinStatus[c] = True => ListReplaced
      BY <2>1 DEF BootInv, BootListed, CallOriginal, InitStep
    <3>3. pinStatus[c] = True => verbs'[c] = "boot" \/ verbs'[c] = verbs[c]
      BY <1>7, <3>1, <3>2, BootFromList DEF TypeOK
    <3> QED
      BY <2>1, <3>3, <1>1, <1>7 DEF LostKnown, CallOriginal
  <2>2. CASE initPc[c] \notin {"original", "done"} /\ verbs' = verbs
    BY <2>2, NoneBefore DEF LostKnown
  <2> QED
    BY <2>1, <2>2 DEF InitializePinConfig, InitStep, EnterHook, ClearPinStatus, ClearSleepStatus, NoEntry,
       FindEntry, ReplaceList, CopyFails, SetOwnList, Arm
<1> QED
  BY <1>3, <1>6, <1>7

LEMMA LossInvPower ==
  ASSUME TypeOK, PinInv, BootInv, Hooked, "performPowerChange" \in routed, AllAllocated, NEW c \in Codecs,
         (\E to \in PowerStates : PowerChange(c, to)) \/ PerformPowerChange(c),
         \A d \in Codecs : MarkSeen(d) /\ (CodecId[d] = AnalogCodec => LostKnown(d))
  PROVE  \A d \in Codecs : (MarkSeen(d) /\ (CodecId[d] = AnalogCodec => LostKnown(d)))'
<1>1. UNCHANGED <<initPc, pinStatus, ownList, config, noMemory>>
  BY DEF PowerChange, PerformPowerChange, ReadStatus, MarkSleep, NothingToDo, ForceWake, ClearAfterWake, initVars
<1>2. ASSUME NEW d \in Codecs \ {c}
      PROVE  UNCHANGED <<sleepStatus[d], power[d], powerPc[d], seen[d], verbs[d], forceFailed[d]>>
  BY <1>2 DEF TypeOK, PowerChange, PerformPowerChange, PowerStep, ReadStatus, MarkSleep, NothingToDo,
     ForceWake, ClearAfterWake
<1>3. ASSUME NEW d \in Codecs \ {c} PROVE (MarkSeen(d) /\ (CodecId[d] = AnalogCodec => LostKnown(d)))'
  BY <1>1, <1>2, LossOthers
<1>4. seen[c][1] = True => pinStatus[c] = True
  BY DEF BootInv, BootProgrammed
<1>5. pinStatus[c] = True => initPc[c] \in {"original", "done"} /\ config[c].data = "boot"
  BY DEF PinInv, OwnListMade, BootInv, BootListed
<1>6. /\ powerPc \in [Codecs -> PowerPcs] /\ pinStatus \in [Codecs -> Status] /\ sleepStatus \in [Codecs -> Status]
      /\ power \in [Codecs -> PowerStates] /\ verbs \in [Codecs -> {"none", "boot", "wake", "lost"}]
      /\ seen \in [Codecs -> Status \X Status] /\ forceFailed \in [Codecs -> BOOLEAN]
  BY DEF TypeOK
<1>7. CASE \E to \in PowerStates : PowerChange(c, to)
  <2>1. PICK to \in PowerStates : PowerChange(c, to)
    BY <1>7
  <2>2. /\ powerPc[c] = "idle" /\ powerPc'[c] = "read" /\ power'[c] = to /\ power[c] # to
        /\ UNCHANGED <<sleepStatus, seen, forceFailed>>
        /\ verbs'[c] = IF to = DeviceSleep /\ verbs[c] # "none" THEN "lost" ELSE verbs[c]
    BY <2>1, <1>6 DEF PowerChange, PowerStep
  <2>3. MarkSeen(c)'
    BY <1>1, <2>2 DEF MarkSeen
  <2>4. CodecId[c] = AnalogCodec => LostKnown(c)'
    BY <1>1, <2>2 DEF LostKnown, DeviceSleep
  <2> QED
    BY <1>3, <2>3, <2>4
<1>8. CASE ReadStatus(c)
  <2>1. /\ powerPc[c] = "read" /\ (powerPc'[c] = "act" => seen'[c] = <<pinStatus[c], sleepStatus[c]>>)
        /\ powerPc'[c] = IF pinStatus[c] # Unset /\ sleepStatus[c] # Unset THEN "act" ELSE "idle"
        /\ UNCHANGED <<sleepStatus, power, forceFailed, verbs>>
    BY <1>8, <1>6 DEF ReadStatus, PowerStep
  <2>2. MarkSeen(c)'
    BY <1>1, <2>1 DEF MarkSeen
  <2>3. CodecId[c] = AnalogCodec => LostKnown(c)'
    BY <1>1, <2>1 DEF LostKnown, MarkSeen, True, Unset
  <2> QED
    BY <1>3, <2>2, <2>3
<1>9. CASE MarkSleep(c)
  <2>1. /\ powerPc[c] = "act" /\ powerPc'[c] = "idle" /\ power[c] = DeviceSleep /\ sleepStatus'[c] = True
        /\ UNCHANGED <<power, forceFailed, verbs>>
    BY <1>9, <1>6 DEF MarkSleep, PowerStep
  <2>2. MarkSeen(c)'
    BY <1>1, <2>1 DEF MarkSeen, True, Unset
  <2>3. CodecId[c] = AnalogCodec => LostKnown(c)'
    BY <1>1, <2>1 DEF LostKnown
  <2> QED
    BY <1>3, <2>2, <2>3
<1>10. CASE NothingToDo(c)
  <2>1. /\ powerPc[c] = "act" /\ powerPc'[c] = "idle"
        /\ seen[c][1] # True \/ (power[c] # DeviceSleep /\ ~WakingUp(c))
        /\ UNCHANGED <<sleepStatus, power, forceFailed, verbs>>
    BY <1>10, <1>6 DEF NothingToDo, PowerStep, Managed
  <2>2. MarkSeen(c)'
    BY <1>1, <2>1 DEF MarkSeen
  <2>3. power[c] # DeviceSleep /\ ~WakingUp(c) => seen[c][2] # True
    BY <1>6 DEF WakingUp, PowerStates
  <2>4. CodecId[c] = AnalogCodec => LostKnown(c)'
    BY <1>1, <2>1, <2>3 DEF LostKnown, MarkSeen
  <2> QED
    BY <1>3, <2>2, <2>4
<1>11. CASE ForceWake(c)
  <2>1. /\ powerPc[c] = "act" /\ powerPc'[c] = "clear" /\ seen[c][1] = True /\ WakingUp(c)
        /\ UNCHANGED <<sleepStatus, power, seen>>
    BY <1>11, <1>6 DEF ForceWake, PowerStep, Managed
  <2>2. power[c] # DeviceSleep
    BY <2>1 DEF WakingUp, DeviceSleep, DeviceIdle, DeviceActive
  <2>3. MarkSeen(c)'
    BY <1>1, <1>4, <2>1, <2>2 DEF MarkSeen
  <2>4. PICK ok \in BOOLEAN, v \in Programmed(ownList[c], c) :
          /\ verbs' = [verbs EXCEPT ![c] = IF ok THEN v ELSE @]
          /\ forceFailed' = [forceFailed EXCEPT ![c] = ~ok]
    BY <1>11 DEF ForceWake
  <2>5. ASSUME CodecId[c] = AnalogCodec PROVE LostKnown(c)'
    <3>1. v \in {"boot", "wake"}
      BY <1>4, <1>5, <2>1, <2>5, WakeFromOwnList DEF AllAllocated
    <3>2. CASE ok
      BY <1>6, <2>4, <3>1, <3>2 DEF LostKnown
    <3>3. CASE ~ok
      BY <1>6, <2>1, <2>4, <3>3 DEF LostKnown
    <3> QED
      BY <3>2, <3>3
  <2> QED
    BY <1>3, <2>3, <2>5
<1>12. CASE ClearAfterWake(c)
  <2>1. /\ powerPc[c] = "clear" /\ powerPc'[c] = "idle" /\ sleepStatus'[c] = False
        /\ UNCHANGED <<power, forceFailed, verbs>>
    BY <1>12, <1>6 DEF ClearAfterWake, PowerStep
  <2>2. MarkSeen(c)'
    BY <1>1, <2>1 DEF MarkSeen, False, Unset
  <2>3. CodecId[c] = AnalogCodec => LostKnown(c)'
    BY <1>1, <2>1 DEF LostKnown, MarkSeen
  <2> QED
    BY <1>3, <2>2, <2>3
<1> QED
  BY <1>7, <1>8, <1>9, <1>10, <1>11, <1>12 DEF PerformPowerChange

LEMMA LossInvStep == TypeOK /\ PinInv /\ BootInv /\ LossInv /\ [Next]_vars => LossInv'
<1> SUFFICES ASSUME TypeOK, PinInv, BootInv, LossInv, [Next]_vars,
                    Hooked', "performPowerChange" \in routed', AllAllocated'
             PROVE  \A d \in Codecs : (MarkSeen(d) /\ (CodecId[d] = AnalogCodec => LostKnown(d)))'
  BY DEF LossInv
<1>1. Hooked /\ "performPowerChange" \in routed /\ AllAllocated
  BY FailuresStay DEF Hooked
<1>2. \A d \in Codecs : MarkSeen(d) /\ (CodecId[d] = AnalogCodec => LostKnown(d))
  BY <1>1 DEF LossInv
<1>3. CASE UNCHANGED vars
  BY <1>2, <1>3 DEF vars, initVars, powerVars, MarkSeen, LostKnown
<1>4. CASE Next
  BY <1>1, <1>2, <1>4, LossInvInitialize, LossInvPower DEF Next
<1> QED
  BY <1>3, <1>4

\* A managed codec whose driver is awake and idle is programmed, with the boot
\* verbs or with those of its own list, unless the last forced call or an
\* allocation failed, or a codec with another layout overruled it and it has not
\* slept since; also when its driver runs before it is initialised (367-375).
THEOREM ConfiguredCorrect ==
  ASSUME AnalogDetected, AnalogListed
  PROVE  Spec => []ConfiguredWhenAwake
<1>1. TypeOK /\ BootInv /\ LossInv => ConfiguredWhenAwake
  <2> SUFFICES ASSUME TypeOK, BootInv, LossInv, NEW c \in Codecs,
                      routed = {"initializePinConfig", "performPowerChange"}, CodecId[c] = AnalogCodec,
                      initPc[c] = "done", pinStatus[c] = True, AllAllocated, ~forceFailed[c],
                      powerPc[c] = "idle", power[c] # DeviceSleep
               PROVE  \/ verbs[c] \in {"boot", ownList[c][1].data}
                      \/ verbs[c] = "none" /\ Overruled(c)
    BY DEF ConfiguredWhenAwake, AllAllocated
  <2>1. Hooked /\ "performPowerChange" \in routed
    BY DEF Hooked
  <2>2. /\ verbs[c] # "none" \/ Overruled(c)
        /\ verbs[c] = "wake" => ownList[c][1].data = "wake"
    BY <2>1 DEF BootInv, BootListed, BootProgrammed
  <2>3. verbs[c] # "lost"
    BY <2>1 DEF LossInv, LostKnown
  <2>4. verbs[c] \in {"none", "boot", "wake", "lost"}
    BY DEF TypeOK
  <2> QED
    BY <2>2, <2>3, <2>4
<1>2. Spec => [](TypeOK /\ PinInv /\ BootInv)
  BY BootInvariant
<1> QED
  BY <1>1, <1>2, LossInvInit, LossInvStep, PTL DEF Spec
=============================================================================
