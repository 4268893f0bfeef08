--------------------------- MODULE PinConfigPower ---------------------------
(***************************************************************************)
(* Pin configurations and wake verbs.  AppleHDA starts one                  *)
(* AppleHDACodecGeneric per codec, each on a thread of its own, and calls   *)
(* initializePinConfig, which AppleALC hooks, on each; the driver above a   *)
(* codec is told of power changes through performPowerChange, hooked too.   *)
(* The codecs share configDevice and its HDAConfigDefault list; everything  *)
(* the two hooks tell each other is in registry properties of the codec.    *)
(*                                                                          *)
(* Every registry access of initializePinConfig is a step of its own, but   *)
(* for the search of one list.  performPowerChange reads its two statuses   *)
(* in one step: it acts only on a pin status that is true, and from then on *)
(* nobody but itself writes the other.  What the original functions do to   *)
(* the hardware is modelled as far as AppleALC relies on it.                *)
(***************************************************************************)
EXTENDS Integers, Sequences

CONSTANTS
  Codecs,          \* the codec services
  CodecId,         \* the id each codec reports
  AppleLayouts,    \* what getAudioLayout may find for them: layout-id of HDEF or HDAU,
                   \*   which need not be the same, 0 when there is none
  AnalogCodec,     \* id and layout of the first detected codec whose controller
  AnalogLayout,    \*   has a layout, 0 when there is none
  ConfigLists,     \* the HDAConfigDefault lists configDevice may start with
  Routings,        \* the sets of hooks that may have been routed
  EarlyDrivers     \* the codecs whose driver may run before they are initialised

\* An entry of HDAConfigDefault, with the data of its verbs abstracted to what
\* they are for.
Entry ==
  [codec : Nat, layout : Nat, reinit : BOOLEAN, data : {"none", "boot", "wake"},
   wakeData : {"none", "wake"}]

ASSUME ConfigListsAssumption == ConfigLists \subseteq Seq(Entry)
ASSUME EarlyDriversAssumption == EarlyDrivers \subseteq Codecs
ASSUME LayoutAssumption == AppleLayouts \subseteq [Codecs -> Nat]

\* IOAudioDevicePowerState
DeviceSleep == 0
DeviceIdle == 1
DeviceActive == 2
PowerStates == {DeviceSleep, DeviceIdle, DeviceActive}

\* A property of a codec that holds a boolean, and what may be there.
Unset == "unset"
True == "true"
False == "false"

VARIABLES
  routed,       \* the hooks that are in place
  appleLayout,  \* the layout each codec finds above it
  configList,   \* HDAConfigDefault of configDevice
  ownList,      \* HDAConfigDefault of each codec
  pinStatus,    \* alc-pinconfig-status of each codec
  sleepStatus,  \* alc-sleep-status of each codec
  initPc,       \* where the initialisation of each codec is
  config,       \* the copied entry it works on
  noMemory,     \* whether one of its allocations failed
  power,        \* the power state of each driver
  powerPc,      \* where its performPowerChange is
  seen,         \* the pair of statuses it read
  verbs,        \* what the pins of each codec are programmed with
  forceFailed   \* whether the last forced initialisation failed

initVars == <<configList, ownList, pinStatus, initPc, config, noMemory>>
powerVars == <<power, powerPc, seen, forceFailed>>
booted == <<routed, appleLayout>>
vars == <<booted, initVars, powerVars, sleepStatus, verbs>>

NoConfig == [codec |-> 0, layout |-> 0, reinit |-> FALSE, data |-> "none", wakeData |-> "none"]

\* The statuses are local variables of performPowerChange.
NothingSeen == <<Unset, Unset>>

Init ==
  /\ routed \in Routings
  /\ appleLayout \in AppleLayouts
  /\ configList \in ConfigLists
  /\ ownList = [c \in Codecs |-> <<>>]
  /\ pinStatus = [c \in Codecs |-> Unset]
  /\ sleepStatus = [c \in Codecs |-> Unset]
  /\ initPc = [c \in Codecs |-> "new"]
  /\ config = [c \in Codecs |-> NoConfig]
  /\ noMemory = [c \in Codecs |-> FALSE]
  /\ power = [c \in Codecs |-> DeviceIdle]
  /\ powerPc = [c \in Codecs |-> "idle"]
  /\ seen = [c \in Codecs |-> NothingSeen]
  /\ verbs = [c \in Codecs |-> "none"]
  /\ forceFailed = [c \in Codecs |-> FALSE]

-----------------------------------------------------------------------------
(* The original initializePinConfig: programs a codec with the ConfigData of  *)
(* the first entry of a list that has the codec's id and Apple's layout.      *)

Fits(e, c) == e.codec = CodecId[c] /\ e.layout = appleLayout[c]

First(S) == {n \in S : \A k \in S : n <= k}

\* What verbs[c] becomes, as a set of one member.
Programmed(list, c) ==
  LET fit == {n \in DOMAIN list : Fits(list[n], c)}
  IN  IF fit = {} THEN {verbs[c]} ELSE {list[n].data : n \in First(fit)}

-----------------------------------------------------------------------------
(* The hook of initializePinConfig.                                           *)

InitStep(c, from, to) == initPc[c] = from /\ initPc' = [initPc EXCEPT ![c] = to]

\* A codec that already has its status, or an unhooked function, goes straight
\* to the original.
EnterHook(c) ==
  /\ InitStep(c, "new", IF "initializePinConfig" \in routed /\ pinStatus[c] = Unset
                        THEN "pin" ELSE "original")
  /\ UNCHANGED <<booted, configList, ownList, pinStatus, config, noMemory, powerVars, sleepStatus, verbs>>

ClearPinStatus(c) ==
  /\ InitStep(c, "pin", "sleep")
  /\ pinStatus' = [pinStatus EXCEPT ![c] = False]
  /\ UNCHANGED <<booted, configList, ownList, config, noMemory, powerVars, sleepStatus, verbs>>

ClearSleepStatus(c) ==
  /\ InitStep(c, "sleep", IF appleLayout[c] # 0 /\ AnalogCodec # 0 /\ AnalogLayout # 0
                          THEN "find" ELSE "original")
  /\ sleepStatus' = [sleepStatus EXCEPT ![c] = False]
  /\ UNCHANGED <<booted, configList, ownList, pinStatus, config, noMemory, powerVars, verbs>>

\* The entry of the analog codec and of AppleALC's layout for it, whichever
\* codec is being initialised.
AnalogEntries ==
  {n \in DOMAIN configList : configList[n].codec = AnalogCodec /\ configList[n].layout = AnalogLayout}

NoEntry(c) ==
  /\ InitStep(c, "find", "original")
  /\ AnalogEntries = {}
  /\ UNCHANGED <<booted, configList, ownList, pinStatus, config, noMemory, powerVars, sleepStatus, verbs>>

\* The copy gets Apple's layout number, if that number can be allocated.
Mut_KeepsLayout(e, c) == e
WithLayout(e, c) == [e EXCEPT !.layout = appleLayout[c]]

FindEntry(c) ==
  /\ InitStep(c, "find", "replace")
  /\ \E n \in First(AnalogEntries), allocated \in BOOLEAN :
       /\ config' = [config EXCEPT ![c] = IF allocated THEN WithLayout(configList[n], c)
                                                      ELSE configList[n]]
       /\ noMemory' = [noMemory EXCEPT ![c] = @ \/ ~allocated]
  /\ UNCHANGED <<booted, configList, ownList, pinStatus, powerVars, sleepStatus, verbs>>

\* The shared list is replaced by the copied entry alone.
ReplaceList(c) ==
  /\ InitStep(c, "replace", IF config[c].reinit THEN "own" ELSE "original")
  /\ \E allocated \in BOOLEAN :
       /\ configList' = IF allocated THEN <<config[c]>> ELSE configList
       /\ noMemory' = [noMemory EXCEPT ![c] = @ \/ ~allocated]
  /\ UNCHANGED <<booted, ownList, pinStatus, config, powerVars, sleepStatus, verbs>>

\* One of the copies cannot be made: the rest of the hook is skipped.
CopyFails(c) ==
  /\ \/ InitStep(c, "find", "original") /\ AnalogEntries # {}
     \/ InitStep(c, "own", "original")
  /\ noMemory' = [noMemory EXCEPT ![c] = TRUE]
  /\ UNCHANGED <<booted, configList, ownList, pinStatus, config, powerVars, sleepStatus, verbs>>

\* The wake data, when there is any, takes the place of the boot data.
Mut_WakeKeepsBootData(e) == [e EXCEPT !.wakeData = "none"]
Mut_SwapsData(e) == [e EXCEPT !.data = e.wakeData, !.wakeData = e.data]

WakeEntry(e) ==
  IF e.wakeData = "none" THEN e ELSE [e EXCEPT !.data = e.wakeData, !.wakeData = "none"]

SetOwnList(c) ==
  /\ InitStep(c, "own", "arm")
  /\ ownList' = [ownList EXCEPT ![c] = <<WakeEntry(config[c])>>]
  /\ UNCHANGED <<booted, configList, pinStatus, config, noMemory, powerVars, sleepStatus, verbs>>

Arm(c) ==
  /\ InitStep(c, "arm", "original")
  /\ pinStatus' = [pinStatus EXCEPT ![c] = True]
  /\ UNCHANGED <<booted, configList, ownList, config, noMemory, powerVars, sleepStatus, verbs>>

CallOriginal(c) ==
  /\ InitStep(c, "original", "done")
  /\ \E v \in Programmed(configList, c) : verbs' = [verbs EXCEPT ![c] = v]
  /\ UNCHANGED <<booted, configList, ownList, pinStatus, config, noMemory, powerVars, sleepStatus>>

InitializePinConfig(c) ==
  \/ EnterHook(c) \/ ClearPinStatus(c) \/ ClearSleepStatus(c)
  \/ NoEntry(c) \/ FindEntry(c) \/ ReplaceList(c) \/ CopyFails(c)
  \/ SetOwnList(c) \/ Arm(c) \/ CallOriginal(c)

-----------------------------------------------------------------------------
(* The hook of performPowerChange.  The driver of a codec handles one power   *)
(* change at a time.                                                          *)

PowerStep(c, from, to) == powerPc[c] = from /\ powerPc' = [powerPc EXCEPT ![c] = to]

\* The power state changes and the original function runs; a codec that goes
\* to sleep forgets its pin configuration.
PowerChange(c, to) ==
  /\ c \in EarlyDrivers \/ initPc[c] = "done"
  /\ power[c] # to
  /\ PowerStep(c, "idle", IF "performPowerChange" \in routed THEN "read" ELSE "idle")
  /\ power' = [power EXCEPT ![c] = to]
  /\ verbs' = [verbs EXCEPT ![c] = IF to = DeviceSleep /\ @ # "none" THEN "lost" ELSE @]
  /\ UNCHANGED <<booted, initVars, seen, forceFailed, sleepStatus>>

Mut_MissingMeansArmed(c) ==
  /\ PowerStep(c, "read", "act")
  /\ seen' = [seen EXCEPT ![c] = <<IF pinStatus[c] = Unset THEN True ELSE pinStatus[c],
                                  IF sleepStatus[c] = Unset THEN True ELSE sleepStatus[c]>>]
  /\ UNCHANGED <<booted, initVars, power, forceFailed, sleepStatus, verbs>>

\* Both statuses are read, and nothing happens unless both are there.
ReadStatus(c) ==
  /\ IF pinStatus[c] # Unset /\ sleepStatus[c] # Unset
       THEN PowerStep(c, "read", "act") /\ seen' = [seen EXCEPT ![c] = <<pinStatus[c], sleepStatus[c]>>]
       ELSE PowerStep(c, "read", "idle") /\ UNCHANGED seen
  /\ UNCHANGED <<booted, initVars, power, forceFailed, sleepStatus, verbs>>

Managed(c) == seen[c][1] = True

Mut_ForgetsSleep(c) ==
  /\ PowerStep(c, "act", "idle")
  /\ Managed(c) /\ power[c] = DeviceSleep
  /\ seen' = [seen EXCEPT ![c] = NothingSeen]
  /\ UNCHANGED <<booted, initVars, power, forceFailed, verbs, sleepStatus>>

MarkSleep(c) ==
  /\ PowerStep(c, "act", "idle")
  /\ Managed(c) /\ power[c] = DeviceSleep
  /\ sleepStatus' = [sleepStatus EXCEPT ![c] = True]
  /\ seen' = [seen EXCEPT ![c] = NothingSeen]
  /\ UNCHANGED <<booted, initVars, power, forceFailed, verbs>>

\* Waking up to either state with the sleep mark set.
Mut_OnlyToIdle(c) == power[c] = DeviceIdle /\ seen[c][2] = True

WakingUp(c) == power[c] \in {DeviceIdle, DeviceActive} /\ seen[c][2] = True

NothingToDo(c) ==
  /\ PowerStep(c, "act", "idle")
  /\ ~Managed(c) \/ (power[c] # DeviceSleep /\ ~WakingUp(c))
  /\ seen' = [seen EXCEPT ![c] = NothingSeen]
  /\ UNCHANGED <<booted, initVars, power, forceFailed, sleepStatus, verbs>>

\* The original initializePinConfig with the codec as its own config device.
ForceWake(c) ==
  /\ PowerStep(c, "act", "clear")
  /\ Managed(c) /\ WakingUp(c)
  /\ \E ok \in BOOLEAN, v \in Programmed(ownList[c], c) :
       /\ verbs' = [verbs EXCEPT ![c] = IF ok THEN v ELSE @]
       /\ forceFailed' = [forceFailed EXCEPT ![c] = ~ok]
  /\ UNCHANGED <<booted, initVars, power, seen, sleepStatus>>

\* The sleep mark goes whatever the forced call returned.
Mut_KeepsSleepStatus(c) ==
  /\ PowerStep(c, "clear", "idle")
  /\ seen' = [seen EXCEPT ![c] = NothingSeen]
  /\ UNCHANGED <<booted, initVars, power, forceFailed, verbs, sleepStatus>>

ClearAfterWake(c) ==
  /\ PowerStep(c, "clear", "idle")
  /\ sleepStatus' = [sleepStatus EXCEPT ![c] = False]
  /\ seen' = [seen EXCEPT ![c] = NothingSeen]
  /\ UNCHANGED <<booted, initVars, power, forceFailed, verbs>>

PerformPowerChange(c) ==
  ReadStatus(c) \/ MarkSleep(c) \/ NothingToDo(c) \/ ForceWake(c) \/ ClearAfterWake(c)

Next ==
  \E c \in Codecs :
    \/ InitializePinConfig(c)
    \/ \E to \in PowerStates : PowerChange(c, to)
    \/ PerformPowerChange(c)

Spec == Init /\ [][Next]_vars

\* A thread inside one of the hooks keeps running.  Power changes themselves
\* need not happen.
FairSpec ==
  Spec /\ \A c \in Codecs : WF_vars(InitializePinConfig(c)) /\ WF_vars(PerformPowerChange(c))

-----------------------------------------------------------------------------
(* Properties. *)

InitPcs == {"new", "pin", "sleep", "find", "replace", "own", "arm", "original", "done"}
PowerPcs == {"idle", "read", "act", "clear"}
Status == {Unset, True, False}

\* Every variable of the two hooks keeps its type (kern_alc.cpp 353-504).
TypeOK ==
  /\ routed \in Routings
  /\ appleLayout \in AppleLayouts
  /\ configList \in Seq(Entry)
  /\ ownList \in [Codecs -> Seq(Entry)]
  /\ pinStatus \in [Codecs -> Status]
  /\ sleepStatus \in [Codecs -> Status]
  /\ initPc \in [Codecs -> InitPcs]
  /\ config \in [Codecs -> Entry]
  /\ noMemory \in [Codecs -> BOOLEAN]
  /\ power \in [Codecs -> PowerStates]
  /\ powerPc \in [Codecs -> PowerPcs]
  /\ seen \in [Codecs -> Status \X Status]
  /\ verbs \in [Codecs -> {"none", "boot", "wake", "lost"}]
  /\ forceFailed \in [Codecs -> BOOLEAN]

\* A codec is marked for re-initialisation only when its own list is there for
\* the forced call to read, with the analog codec's entry under Apple's layout
\* and the wake data in the place of the boot data, whatever the other codec
\* does to the shared list in between (446-494).
ArmedWithOwnList ==
  \A c \in Codecs : pinStatus[c] = True =>
    /\ Len(ownList[c]) = 1
    /\ ownList[c][1].codec = AnalogCodec
    /\ ownList[c][1].wakeData = "none"
    /\ config[c].wakeData # "none" => ownList[c][1].data = config[c].wakeData
    /\ ~noMemory[c] => ownList[c][1].layout = appleLayout[c]

\* The forced call goes through a trampoline that is there: routing may have
\* failed for initializePinConfig alone, and then no codec is ever armed
\* (372, 624-627).
NoNullTrampoline ==
  \A c \in Codecs : powerPc[c] = "act" /\ Managed(c) /\ WakingUp(c) =>
    "initializePinConfig" \in routed

\* The shared list was replaced on behalf of a codec with another layout above
\* it.  HDEF and HDAU need not have the same layout-id: 260-261 write one to both
\* only off Apple's firmware or where use-apple-layout-id is set, and never to a
\* device with no-controller-inject.
HasReplaced(d) == initPc[d] \in {"own", "arm", "original", "done"} /\ config[d] # NoConfig
Overruled(c) == \E d \in Codecs : HasReplaced(d) /\ appleLayout[d] # appleLayout[c]

\* The analog codec gets its boot verbs although its layout number in the list
\* is not the one Apple's code looks for, and in whatever order and interleaving
\* codecs with the same layout above them are initialised; a codec with none
\* does not get in the way (422-460).  A codec with another layout does: its hook
\* may replace the list between another's 457 and 503.
BootVerbsSent ==
  \A c \in Codecs :
    /\ "initializePinConfig" \in routed /\ CodecId[c] = AnalogCodec /\ initPc[c] = "done"
    /\ appleLayout[c] # 0 /\ \A d \in Codecs : ~noMemory[d]
    => verbs[c] # "none" \/ Overruled(c)

\* Managed codecs whose driver is awake and not in the middle of a change are
\* programmed: with the boot verbs or, after a sleep, with the verbs of their
\* own list (367-375).  Except when an allocation or the last forced call failed,
\* which the code only logs, or, until the first sleep, when overruled.
ConfiguredWhenAwake ==
  \A c \in Codecs :
    /\ routed = {"initializePinConfig", "performPowerChange"} /\ CodecId[c] = AnalogCodec
    /\ initPc[c] = "done" /\ pinStatus[c] = True
    /\ (\A d \in Codecs : ~noMemory[d]) /\ ~forceFailed[c]
    /\ powerPc[c] = "idle" /\ power[c] # DeviceSleep
    => \/ verbs[c] \in {"boot", ownList[c][1].data}
       \/ verbs[c] = "none" /\ Overruled(c)

\* A forced initialisation never rewrites pins that are already programmed: it
\* is due to a sleep since the last one, so going from idle to active and back
\* leaves a playing codec alone (368-375).
ForcedOnlyWhenLost ==
  [][ \A c \in Codecs \ EarlyDrivers : powerPc[c] = "act" /\ powerPc'[c] = "clear" =>
        verbs[c] = "lost" \/ verbs[c] = "none" ]_vars

\* After a wake the verbs are sent, or the call fails, or the codec is sent to
\* sleep again (367-375).
VerbsReturn ==
  \A c \in Codecs :
    /\ routed = {"initializePinConfig", "performPowerChange"} /\ CodecId[c] = AnalogCodec
    /\ initPc[c] = "done" /\ pinStatus[c] = True /\ ~noMemory[c]
    /\ power[c] # DeviceSleep /\ verbs[c] = "lost"
    ~> verbs[c] # "lost" \/ forceFailed[c] \/ power[c] = DeviceSleep

\* Changelog.md 436: verbs are executed after wake for an entry with
\* WakeVerbReinit.  So an analog codec whose entry says so ends up armed.
WakeReinitArmed ==
  \A c \in Codecs :
    /\ "initializePinConfig" \in routed /\ CodecId[c] = AnalogCodec /\ initPc[c] = "done"
    /\ \E n \in DOMAIN configList :
         /\ configList[n].codec = AnalogCodec /\ configList[n].reinit
         /\ configList[n].layout \in {AnalogLayout, appleLayout[c]}
    /\ \A d \in Codecs : ~noMemory[d]
    => pinStatus[c] = True

-----------------------------------------------------------------------------
(* What makes the properties above inductive.                                 *)

\* Without the route, no codec is armed and no driver takes one for armed.
HookedOnly(c) ==
  \/ initPc[c] \notin {"new", "original", "done"}
  \/ pinStatus[c] = True
  \/ seen[c][1] = True
  => "initializePinConfig" \in routed

\* From the search on, the copied entry is the analog codec's; from the arming
\* on, the codec's own list is made of it and stays.
EntryCopied(c) ==
  initPc[c] \in {"replace", "own", "arm"} \/ pinStatus[c] = True =>
    config[c].codec = AnalogCodec /\ (~noMemory[c] => config[c].layout = appleLayout[c])

OwnListMade(c) ==
  /\ initPc[c] = "arm" \/ pinStatus[c] = True => ownList[c] = <<WakeEntry(config[c])>>
  /\ pinStatus[c] = True => initPc[c] \in {"original", "done"}

PinInv == \A c \in Codecs : HookedOnly(c) /\ EntryCopied(c) /\ OwnListMade(c)

\* Of a driver that waits for its codec: what it has read is what is there, a
\* sleep is remembered until the verbs are back, and a codec whose sleep is
\* remembered has lost its verbs.
QuietBefore(c) ==
  initPc[c] # "done" => power[c] = DeviceIdle /\ powerPc[c] = "idle" /\ sleepStatus[c] # True

StatusSet(c) ==
  pinStatus[c] = True \/ initPc[c] \in {"find", "replace", "own", "arm"} => sleepStatus[c] # Unset

SeenIsCurrent(c) ==
  /\ powerPc[c] = "act" => seen[c] = <<pinStatus[c], sleepStatus[c]>>
  /\ powerPc[c] = "clear" => /\ pinStatus[c] = True /\ sleepStatus[c] = True
                             /\ power[c] # DeviceSleep

SleepRemembered(c) ==
  pinStatus[c] = True /\ power[c] = DeviceSleep /\ powerPc[c] = "idle" /\ "performPowerChange" \in routed
    => sleepStatus[c] = True

LostWhileMarked(c) ==
  power[c] = DeviceSleep \/ (sleepStatus[c] = True /\ powerPc[c] # "clear") => verbs[c] \in {"lost", "none"}

WakeInv ==
  \A c \in Codecs \ EarlyDrivers :
    /\ QuietBefore(c) /\ StatusSet(c) /\ SeenIsCurrent(c)
    /\ SleepRemembered(c) /\ LostWhileMarked(c)
    /\ pinStatus[c] = True => initPc[c] \in {"original", "done"}
    /\ powerPc[c] # "idle" => "performPowerChange" \in routed

-----------------------------------------------------------------------------
(* The wake protocol as WakeVerbs states it.  A codec is managed once it is     *)
(* armed and both hooks are in place.  Its verbs are due while it is asleep,    *)
(* and after that for as long as the code remembers the sleep.                  *)

ManagedCodecs ==
  {c \in Codecs \ EarlyDrivers : pinStatus[c] = True /\ "performPowerChange" \in routed}

Wake == INSTANCE WakeVerbs WITH
  managed <- ManagedCodecs,
  asleep  <- {c \in ManagedCodecs : power[c] = DeviceSleep},
  due     <- {c \in ManagedCodecs : power[c] = DeviceSleep \/ sleepStatus[c] = True}

\* Every behaviour of the two hooks is one of the wake protocol: one call to
\* re-initialise per sleep, none lost and none repeated.  A call that fails counts,
\* as the sleep mark goes all the same (375).
ImplementsWakeVerbs == Wake!WakeSpec
=============================================================================
