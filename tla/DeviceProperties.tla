-------------------------- MODULE DeviceProperties --------------------------
(***************************************************************************)
(* The first half of AppleALC's boot: AlcEnabler::updateProperties, which   *)
(* Lilu calls once, before any kext is processed.  It rewrites the          *)
(* properties of the audio and video devices in the I/O registry, registers *)
(* the digital audio controllers and reserves the ids of the NVIDIA ones.   *)
(*                                                                          *)
(* One action per part of the function ("firstly" ... "fourthly"), one step *)
(* per external GPU.  A device is a record of the properties the code reads *)
(* or writes; a property that is not set is None (a number) or FALSE (a     *)
(* flag whose presence is all the code looks at).                           *)
(***************************************************************************)
EXTENDS Integers, Sequences, FiniteSets

CONSTANTS
  Machines,    \* the machines to boot: firmware, boot-args and devices
  NvidiaIds    \* nvidiaDeviceIdList, the HDAU ids AppleHDAController knows

None == -1
PlatformAny == 0
MaxConnectorCount == 6
Intel == "Intel"
NVIDIA == "NVIDIA"

(* What is in the registry, as far as the code reads or writes it.            *)

AudioDevice ==
  [present : BOOLEAN, alive : BOOLEAN, name : {"HDEF", "HDAU", "other"},
   ven : {Intel, NVIDIA, "other"}, dev : Int, rev : Int,
   noInject : BOOLEAN, noPatch : BOOLEAN, noHdaGfx : BOOLEAN,
   useLayoutId : BOOLEAN, useAppleLayoutId : BOOLEAN, tcselUpdated : BOOLEAN,
   layout : Int, alcLayout : Int, hdaGfx : Nat]

VideoDevice ==
  [present : BOOLEAN, dev : Int, rev : Int, noInject : BOOLEAN, noPatch : BOOLEAN,
   noFixConnectors : BOOLEAN, hdaGfx : Nat,
   connectors : SUBSET (0 .. MaxConnectorCount - 1), fixed : SUBSET (0 .. MaxConnectorCount - 1)]

ExternalGpu == [vendor : {NVIDIA, "other"}, audio : AudioDevice, video : VideoDevice]

\* WIOKit's DeviceInfo and the boot arguments.
IsMachine(m) ==
  /\ m.apple \in BOOLEAN /\ m.alctcsel \in BOOLEAN /\ m.connectorLess \in BOOLEAN
  /\ m.alcid \in Int /\ m.reportedLayout \in Int /\ m.framebuffer \in Int
  /\ m.hdef \in AudioDevice /\ m.hdau \in AudioDevice /\ m.igpu \in VideoDevice
  /\ m.external \in Seq(ExternalGpu)

\* A controller as AlcEnabler keeps it; info is its entry in the table, or 0.
ControllerInfo ==
  [vendor : {Intel, NVIDIA, "other"}, device : Int, revision : Int, nopatch : BOOLEAN,
   platform : Int, layout : Int, detect : BOOLEAN, info : Nat]

ASSUME MachinesAssumption == \A m \in Machines : IsMachine(m)
ASSUME NvidiaIdsAssumption == NvidiaIds \in Seq(Int)

VARIABLES
  machine,               \* the machine booted: what no step ever changes
  hdef,                  \* devInfo->audioBuiltinAnalog
  hdau,                  \* devInfo->audioBuiltinDigital
  igpu,                  \* devInfo->videoBuiltin
  external,              \* devInfo->videoExternal: pairs of audio and video
  controllers,           \* AlcEnabler::controllers
  nvidiaDeviceIdUsage,   \* which of NvidiaIds are taken
  phase,                 \* the part of updateProperties to run next
  hdaGfxCounter,         \* the next onboard number
  gpu                    \* the index of the external GPU to update next

devices == <<hdef, hdau, igpu, external>>
propVars == <<machine, devices, controllers, nvidiaDeviceIdUsage, phase, hdaGfxCounter,
              gpu>>

-----------------------------------------------------------------------------
(* insertController and the constructor it calls, argument for argument.    *)

Controller(ven, dev, rev, np, p, lid, detect) ==
  [vendor |-> ven, device |-> dev, revision |-> rev, nopatch |-> np,
   platform |-> p, layout |-> lid, detect |-> detect, info |-> 0]

\* validateInjection
Injectable(d) == ~d.noInject

\* Both ids of a device can be read (getOSDataValue succeeds on each).
Readable(d) == d.dev # None /\ d.rev # None

\* An IGPU that drives connectors means built-in digital audio, unless the
\* HDEF device says No-hda-gfx.
HasBuiltinDigitalAudio ==
  /\ igpu.present /\ ~machine.connectorLess
  /\ ~(hdef.present /\ hdef.noHdaGfx)

\* The alc-layout-id an HDEF device ends up with.
Mut_LayoutIgnoresBootArg(d) ==
  IF /\ ~machine.apple \/ d.useLayoutId
     /\ ~(machine.apple /\ d.alcLayout # None)
     /\ d.layout # None
  THEN d.layout ELSE d.alcLayout

AlcLayoutId(d) ==
  IF machine.alcid # None THEN machine.alcid
  ELSE IF /\ ~machine.apple \/ d.useLayoutId
          /\ ~(machine.apple /\ d.alcLayout # None)
          /\ d.layout # None
  THEN d.layout ELSE d.alcLayout

\* updateDeviceProperties: the name AppleHDAController recognises, the layout
\* ids and hda-gfx (0 stands for a null hdaGfx).  The defaults it gives the
\* boot-beep volumes, PinConfigurations and built-in are left out: nothing in
\* AppleALC reads them back.
UpdateDevice(d, hdaGfx, isAnalog) ==
  [d EXCEPT !.name = IF isAnalog THEN "HDEF" ELSE "HDAU",
            !.alcLayout = IF isAnalog THEN AlcLayoutId(d) ELSE @,
            !.layout = IF ~machine.apple \/ d.useAppleLayoutId
                       THEN machine.reportedLayout ELSE @,
            !.hdaGfx = IF hdaGfx = 0 THEN @ ELSE hdaGfx]

\* The hda-gfx number of HDEF, and the first one of the external GPUs: 1 is
\* the IGPU's when it has digital audio.
Mut_HdefGfxAlways == IF HasBuiltinDigitalAudio THEN 1 ELSE 0
HdefGfx == IF HasBuiltinDigitalAudio /\ ~hdau.present THEN 1 ELSE 0

Mut_FirstExternalGfx == 1
Mut_NoFirstExternalGfx == None
FirstExternalGfx == IF HasBuiltinDigitalAudio THEN 2 ELSE 1

\* The ids of the table that equal a registered NVIDIA device are taken.
Mut_ReserveFirstId(dev) == [nvidiaDeviceIdUsage EXCEPT ![1] = @ \/ NvidiaIds[1] = dev]

ReserveId(dev) ==
  [n \in DOMAIN NvidiaIds |-> nvidiaDeviceIdUsage[n] \/ NvidiaIds[n] = dev]

\* Connector types 0, 1, ... are added up to the first that exists.
FixConnectors(v) ==
  [v EXCEPT !.fixed = {n \in 0 .. MaxConnectorCount - 1 : \A k \in 0 .. n : k \notin v.connectors}]

-----------------------------------------------------------------------------
Init ==
  /\ machine \in Machines
  /\ hdef = machine.hdef
  /\ hdau = machine.hdau
  /\ igpu = machine.igpu
  /\ external = machine.external
  /\ controllers = <<>>
  /\ nvidiaDeviceIdUsage = [n \in DOMAIN NvidiaIds |-> FALSE]
  /\ phase = "digital"
  /\ hdaGfxCounter = 0
  /\ gpu = 1

\* Firstly: the HDAU device of a Haswell or Broadwell machine is registered
\* when the IGPU has connectors, and terminated (which may fail) when not.
UpdateBuiltinDigital ==
  /\ phase = "digital"
  /\ phase' = "analog"
  /\ IF hdau.present /\ Injectable(hdau)
     THEN IF HasBuiltinDigitalAudio
          THEN /\ hdau' = UpdateDevice(hdau, 1, FALSE)
               /\ controllers' = IF Readable(hdau)
                                 THEN Append(controllers,
                                        Controller(Intel, hdau.dev, hdau.rev, hdau.noPatch,
                                                   machine.framebuffer, 0, FALSE))
                                 ELSE controllers
          ELSE /\ \E terminated \in BOOLEAN : hdau' = [hdau EXCEPT !.alive = ~terminated]
               /\ UNCHANGED controllers
     ELSE UNCHANGED <<hdau, controllers>>
  /\ UNCHANGED <<machine, hdef, igpu, external, nvidiaDeviceIdUsage, hdaGfxCounter, gpu>>

\* Secondly: the HDEF device, which carries the digital audio of the IGPU when
\* there is no HDAU device.  The TCSEL register of an Intel device is written
\* when alctcsel asks for it.
UpdateBuiltinAnalog ==
  /\ phase = "analog"
  /\ phase' = "igpu"
  /\ IF hdef.present /\ Injectable(hdef)
     THEN hdef' = [UpdateDevice(hdef, HdefGfx, TRUE)
                     EXCEPT !.tcselUpdated = hdef.ven = Intel /\ machine.alctcsel]
     ELSE UNCHANGED hdef
  /\ UNCHANGED <<machine, hdau, igpu, external, controllers, nvidiaDeviceIdUsage, hdaGfxCounter, gpu>>

\* Thirdly: the IGPU, whose own ids name the digital controller when there is
\* no HDAU device; then the counter of the external GPUs is set up.
UpdateIgpu ==
  /\ phase = "igpu"
  /\ phase' = "external"
  /\ hdaGfxCounter' = FirstExternalGfx
  /\ IF HasBuiltinDigitalAudio /\ Injectable(igpu)
     THEN /\ igpu' = [igpu EXCEPT !.hdaGfx = 1]
          /\ controllers' = IF ~hdau.present /\ Readable(igpu)
                            THEN Append(controllers,
                                   Controller(Intel, igpu.dev, igpu.rev, igpu.noPatch,
                                              machine.framebuffer, 0, FALSE))
                            ELSE controllers
     ELSE UNCHANGED <<igpu, controllers>>
  /\ UNCHANGED <<machine, hdef, hdau, external, nvidiaDeviceIdUsage, gpu>>

\* Fourthly: an external GPU.  Without an HDMI audio device, or with one that
\* must not be injected, nothing happens, and no onboard number is used up.
SkipExternal ==
  /\ phase = "external" /\ gpu <= Len(external)
  /\ LET audio == external[gpu].audio
     IN  ~audio.present \/ ~Injectable(audio)
  /\ gpu' = gpu + 1
  /\ UNCHANGED <<machine, devices, controllers, nvidiaDeviceIdUsage, phase, hdaGfxCounter>>

UpdateExternal ==
  /\ phase = "external" /\ gpu <= Len(external)
  /\ LET audio == external[gpu].audio
         video == external[gpu].video
         ven   == external[gpu].vendor
     IN  /\ audio.present /\ Injectable(audio)
         /\ IF Readable(audio)
            THEN /\ controllers' = Append(controllers,
                      Controller(ven, audio.dev, audio.rev, audio.noPatch, PlatformAny, 0, FALSE))
                 /\ nvidiaDeviceIdUsage' = IF ven = NVIDIA THEN ReserveId(audio.dev)
                                                           ELSE nvidiaDeviceIdUsage
            ELSE UNCHANGED <<controllers, nvidiaDeviceIdUsage>>
         /\ external' = [external EXCEPT
              ![gpu].audio = UpdateDevice(audio, hdaGfxCounter, FALSE),
              ![gpu].video = LET v == [video EXCEPT !.hdaGfx = hdaGfxCounter]
                             IN  IF ven = NVIDIA /\ ~video.noFixConnectors
                                 THEN FixConnectors(v) ELSE v]
  /\ hdaGfxCounter' = hdaGfxCounter + 1
  /\ gpu' = gpu + 1
  /\ UNCHANGED <<machine, hdef, hdau, igpu, phase>>

UpdatesDone ==
  /\ phase = "external" /\ gpu > Len(external)
  /\ phase' = "done"
  /\ UNCHANGED <<machine, devices, controllers, nvidiaDeviceIdUsage, hdaGfxCounter, gpu>>

UpdateProperties ==
  \/ UpdateBuiltinDigital
  \/ UpdateBuiltinAnalog
  \/ UpdateIgpu
  \/ SkipExternal
  \/ UpdateExternal
  \/ UpdatesDone

Next == UpdateProperties

Spec == Init /\ [][Next]_propVars

-----------------------------------------------------------------------------
(* Properties. *)

Phases == {"digital", "analog", "igpu", "external", "done"}

\* Every variable of updateProperties keeps its type (kern_alc.cpp 66-199).
PropTypeOK ==
  /\ machine \in Machines
  /\ hdef \in AudioDevice /\ hdau \in AudioDevice
  /\ igpu \in VideoDevice
  /\ external \in Seq(ExternalGpu) /\ Len(external) = Len(machine.external)
  /\ controllers \in Seq(ControllerInfo)
  /\ nvidiaDeviceIdUsage \in [DOMAIN NvidiaIds -> BOOLEAN]
  /\ phase \in Phases
  /\ hdaGfxCounter \in Nat
  /\ gpu \in 1 .. Len(external) + 1

IgpuUpdated == phase \in {"external", "done"} /\ HasBuiltinDigitalAudio /\ Injectable(igpu)

ExternalUpdated(i) == i < gpu /\ external[i].audio.present /\ Injectable(external[i].audio)

\* No two graphics devices that were given an onboard number share it, however
\* GPUs without audio or without injection are interleaved with the others,
\* and whether or not the IGPU took the first number (148-177).
OnboardDistinct ==
  \A i \in DOMAIN external : ExternalUpdated(i) =>
    /\ IgpuUpdated => external[i].video.hdaGfx # igpu.hdaGfx
    /\ hdef.hdaGfx # external[i].video.hdaGfx
    /\ hdau.hdaGfx # external[i].video.hdaGfx
    /\ \A j \in DOMAIN external :
         ExternalUpdated(j) /\ i # j => external[i].video.hdaGfx # external[j].video.hdaGfx

\* What makes that inductive: the numbers given to external GPUs lie between the
\* first one and the counter, and the built-in devices keep below.
OnboardInv ==
  /\ phase \in {"digital", "analog", "igpu"} => gpu = 1
  /\ phase \in {"external", "done"} => FirstExternalGfx <= hdaGfxCounter
  /\ \A i \in DOMAIN external : ExternalUpdated(i) =>
       /\ external[i].video.hdaGfx >= FirstExternalGfx
       /\ external[i].video.hdaGfx < hdaGfxCounter
       /\ \A j \in DOMAIN external :
            ExternalUpdated(j) /\ i # j => external[i].video.hdaGfx # external[j].video.hdaGfx
  /\ hdef.hdaGfx < FirstExternalGfx /\ hdau.hdaGfx < FirstExternalGfx
  /\ IgpuUpdated => igpu.hdaGfx = 1

\* The IGPU's digital audio has one carrier: HDAU when the machine has it, HDEF
\* otherwise, never both, and none at all when digital audio is disabled
\* (77-82, 131-134).
OneBuiltinCarrier ==
  phase = "done" =>
    /\ hdau.hdaGfx = 1 => HasBuiltinDigitalAudio /\ hdau.alive
    /\ hdef.hdaGfx = 1 => HasBuiltinDigitalAudio /\ ~hdau.present
    /\ IgpuUpdated /\ hdau.present /\ Injectable(hdau) => hdau.hdaGfx = 1
    /\ IgpuUpdated /\ ~hdau.present /\ hdef.present /\ Injectable(hdef) => hdef.hdaGfx = 1

\* The id of every registered digital NVIDIA controller is reserved, so that the
\* pool will not give it to another one (164-170).
IdsReserved ==
  \A c \in {controllers[n] : n \in DOMAIN controllers} : ~c.detect /\ c.vendor = NVIDIA =>
    \A n \in DOMAIN NvidiaIds : NvidiaIds[n] = c.device => nvidiaDeviceIdUsage[n]

\* HDEF's alc-layout-id comes from the boot argument, or else from one of the
\* two properties as they were set before AppleALC wrote layout-id itself, and
\* a Mac's own alc-layout-id is never replaced (214-236, 259-261).
AlcLayoutProvenance ==
  hdef.present /\ Injectable(hdef) /\ phase \notin {"digital", "analog"} =>
    /\ machine.alcid # None => hdef.alcLayout = machine.alcid
    /\ machine.alcid = None =>
         /\ hdef.alcLayout \in {machine.hdef.alcLayout, machine.hdef.layout}
         /\ machine.apple /\ machine.hdef.alcLayout # None =>
              hdef.alcLayout = machine.hdef.alcLayout

\* The order the comment at 214-217 promises: alcid, then alc-layout-id, and
\* layout-id only when both are unset.
AlcLayoutPrecedence ==
  hdef.present /\ Injectable(hdef) /\ phase \notin {"digital", "analog"} =>
    hdef.alcLayout =
      IF machine.alcid # None THEN machine.alcid
      ELSE IF machine.hdef.alcLayout # None THEN machine.hdef.alcLayout
      ELSE IF ~machine.apple \/ hdef.useLayoutId THEN machine.hdef.layout
      ELSE None
=============================================================================
