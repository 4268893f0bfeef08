----------------------- MODULE DevicePropertiesProofs -----------------------
(***************************************************************************)
(* Proofs about DeviceProperties, for any set of machines with any number   *)
(* of external GPUs and any table of NVIDIA ids.                            *)
(***************************************************************************)
EXTENDS DeviceProperties, TLAPS

USE MachinesAssumption, NvidiaIdsAssumption

\* What a sequence holds after an element is appended.
LEMMA AppendMembers ==
  ASSUME NEW S, NEW s \in Seq(S), NEW e
  PROVE  \A n \in DOMAIN Append(s, e) : Append(s, e)[n] = e \/ \E k \in DOMAIN s : Append(s, e)[n] = s[k]
<1>1. s \in Seq(S \cup {e})
  OBVIOUS
<1>2. /\ DOMAIN Append(s, e) = 1 .. Len(s) + 1
      /\ \A n \in 1 .. Len(s) + 1 : Append(s, e)[n] = IF n = Len(s) + 1 THEN e ELSE s[n]
  BY <1>1
<1> QED
  BY <1>1, <1>2

LEMMA UpdateDeviceTyped ==
  ASSUME IsMachine(machine), NEW d \in AudioDevice, NEW hdaGfx \in Nat, NEW isAnalog \in BOOLEAN
  PROVE  UpdateDevice(d, hdaGfx, isAnalog) \in AudioDevice
<1> DEFINE name == IF isAnalog THEN "HDEF" ELSE "HDAU"
           alcLayout == IF isAnalog THEN AlcLayoutId(d) ELSE d.alcLayout
           layout == IF ~machine.apple \/ d.useAppleLayoutId THEN machine.reportedLayout ELSE d.layout
           gfx == IF hdaGfx = 0 THEN d.hdaGfx ELSE hdaGfx
<1>1. d.layout \in Int /\ d.alcLayout \in Int /\ d.hdaGfx \in Nat
  BY DEF AudioDevice
<1>2. AlcLayoutId(d) \in Int
  BY <1>1 DEF AlcLayoutId, IsMachine
<1>3. name \in {"HDEF", "HDAU", "other"} /\ alcLayout \in Int /\ layout \in Int /\ gfx \in Nat
  BY <1>1, <1>2 DEF IsMachine
<1>4. UpdateDevice(d, hdaGfx, isAnalog) =
        [d EXCEPT !.name = name, !.alcLayout = alcLayout, !.layout = layout, !.hdaGfx = gfx]
  BY DEF UpdateDevice
<1> HIDE DEF name, alcLayout, layout, gfx
<1> DEFINE named == [d EXCEPT !.name = name]
           moved == [named EXCEPT !.alcLayout = alcLayout, !.layout = layout]
<1>5. named \in AudioDevice
  BY ONLY <1>3, d \in AudioDevice DEF AudioDevice
<1>6. UpdateDevice(d, hdaGfx, isAnalog) = [moved EXCEPT !.hdaGfx = gfx]
  BY <1>4
<1> HIDE DEF named
<1>7. moved \in AudioDevice
  BY ONLY <1>3, <1>5 DEF AudioDevice
<1> HIDE DEF moved
<1>8. [moved EXCEPT !.hdaGfx = gfx] \in AudioDevice
  BY ONLY <1>3, <1>7 DEF AudioDevice
<1> QED
  BY <1>6, <1>8

LEMMA FixConnectorsTyped ==
  ASSUME NEW v \in VideoDevice PROVE FixConnectors(v) \in VideoDevice
BY DEF FixConnectors, VideoDevice

\* The type invariant (kern_alc.cpp 66-199).
LEMMA PropTypeInit == Init => PropTypeOK
<1> SUFFICES ASSUME Init PROVE PropTypeOK
  OBVIOUS
<1>1. IsMachine(machine)
  BY DEF Init
<1> QED
  BY <1>1 DEF Init, PropTypeOK, IsMachine, Phases

LEMMA PropTypeStep == PropTypeOK /\ [Next]_propVars => PropTypeOK'
<1> SUFFICES ASSUME PropTypeOK, [Next]_propVars PROVE PropTypeOK'
  OBVIOUS
<1>1. IsMachine(machine)
  BY DEF PropTypeOK
<1>2. CASE UNCHANGED propVars
  BY <1>2 DEF PropTypeOK, propVars, devices
<1>3. CASE UpdateBuiltinDigital
  <2>1. hdau' \in AudioDevice
    <3>1. UpdateDevice(hdau, 1, FALSE) \in AudioDevice
      BY <1>1, UpdateDeviceTyped DEF PropTypeOK
    <3>2. \A terminated \in BOOLEAN : [hdau EXCEPT !.alive = ~terminated] \in AudioDevice
      BY DEF PropTypeOK, AudioDevice
    <3> QED
      BY <1>3, <3>1, <3>2 DEF UpdateBuiltinDigital, PropTypeOK
  <2>2. controllers' \in Seq(ControllerInfo)
    <3> DEFINE c == Controller(Intel, hdau.dev, hdau.rev, hdau.noPatch, machine.framebuffer, 0, FALSE)
    <3>1. /\ hdau \in AudioDevice /\ machine.framebuffer \in Int
          /\ controllers \in Seq(ControllerInfo)
      BY <1>1 DEF PropTypeOK, IsMachine
    <3>2. c \in ControllerInfo
      BY <3>1 DEF AudioDevice, Controller, ControllerInfo
    <3>3. controllers' = controllers \/ controllers' = Append(controllers, c)
      BY <1>3 DEF UpdateBuiltinDigital
    <3> HIDE DEF c
    <3> QED
      BY ONLY <3>1, <3>2, <3>3
  <2> QED
    BY <1>3, <2>1, <2>2 DEF UpdateBuiltinDigital, PropTypeOK, Phases
<1>4. CASE UpdateBuiltinAnalog
  <2>1. UpdateDevice(hdef, HdefGfx, TRUE) \in AudioDevice
    <3>1. HdefGfx \in Nat /\ hdef \in AudioDevice
      BY DEF HdefGfx, PropTypeOK
    <3> QED
      BY <1>1, <3>1, UpdateDeviceTyped
  <2>2. hdef' \in AudioDevice
    <3> DEFINE t == hdef.ven = Intel /\ machine.alctcsel
    <3>1. t \in BOOLEAN
      OBVIOUS
    <3> HIDE DEF t
    <3>2. \A d \in AudioDevice : [d EXCEPT !.tcselUpdated = t] \in AudioDevice
      BY ONLY <3>1 DEF AudioDevice
    <3>3. hdef' = [UpdateDevice(hdef, HdefGfx, TRUE) EXCEPT !.tcselUpdated = t] \/ hdef' = hdef
      BY <1>4 DEF UpdateBuiltinAnalog, t
    <3> QED
      BY <2>1, <3>2, <3>3 DEF PropTypeOK
  <2> QED
    BY <1>4, <2>2 DEF UpdateBuiltinAnalog, PropTypeOK, Phases
<1>5. CASE UpdateIgpu
  <2>1. igpu' \in VideoDevice
    <3>1. [igpu EXCEPT !.hdaGfx = 1] \in VideoDevice
      BY DEF PropTypeOK, VideoDevice
    <3> QED
      BY <1>5, <3>1 DEF UpdateIgpu, PropTypeOK
  <2>2. controllers' \in Seq(ControllerInfo)
    <3> DEFINE c == Controller(Intel, igpu.dev, igpu.rev, igpu.noPatch, machine.framebuffer, 0, FALSE)
    <3>1. /\ igpu \in VideoDevice /\ machine.framebuffer \in Int
          /\ controllers \in Seq(ControllerInfo)
      BY <1>1 DEF PropTypeOK, IsMachine
    <3>2. c \in ControllerInfo
      BY <3>1 DEF VideoDevice, Controller, ControllerInfo
    <3>3. controllers' = controllers \/ controllers' = Append(controllers, c)
      BY <1>5 DEF UpdateIgpu
    <3> HIDE DEF c
    <3> QED
      BY ONLY <3>1, <3>2, <3>3
  <2>3. hdaGfxCounter' \in Nat
    BY <1>5 DEF UpdateIgpu, FirstExternalGfx
  <2> QED
    BY <1>5, <2>1, <2>2, <2>3 DEF UpdateIgpu, PropTypeOK, Phases
<1>6. CASE SkipExternal
  BY <1>6 DEF SkipExternal, PropTypeOK, devices
<1>7. CASE UpdateExternal
  <2> DEFINE audio == external[gpu].audio
             video == external[gpu].video
             ven == external[gpu].vendor
             numbered == [video EXCEPT !.hdaGfx = hdaGfxCounter]
             newVideo == IF ven = NVIDIA /\ ~video.noFixConnectors
                         THEN FixConnectors(numbered) ELSE numbered
  <2>1. gpu \in DOMAIN external /\ external[gpu] \in ExternalGpu
    BY <1>7 DEF UpdateExternal, PropTypeOK
  <2>2. audio \in AudioDevice /\ video \in VideoDevice /\ ven \in {NVIDIA, "other"}
    BY <2>1 DEF ExternalGpu
  <2>3. UpdateDevice(audio, hdaGfxCounter, FALSE) \in AudioDevice
    BY <1>1, <2>2, UpdateDeviceTyped DEF PropTypeOK
  <2>4. newVideo \in VideoDevice
    <3>1. numbered \in VideoDevice
      BY <2>2 DEF PropTypeOK, VideoDevice
    <3> QED
      BY <3>1, FixConnectorsTyped
  <2>5. external' = [external EXCEPT ![gpu].audio = UpdateDevice(audio, hdaGfxCounter, FALSE),
                                     ![gpu].video = newVideo]
    BY <1>7 DEF UpdateExternal
  <2>6. external' \in Seq(ExternalGpu) /\ Len(external') = Len(external)
    <3>1. [external[gpu] EXCEPT !.audio = UpdateDevice(audio, hdaGfxCounter, FALSE),
                                !.video = newVideo] \in ExternalGpu
      BY <2>1, <2>3, <2>4 DEF ExternalGpu
    <3>2. external' = [external EXCEPT ![gpu] =
                         [external[gpu] EXCEPT !.audio = UpdateDevice(audio, hdaGfxCounter, FALSE),
                                               !.video = newVideo]]
      BY <2>1, <2>5 DEF ExternalGpu
    <3> QED
      BY <2>1, <3>1, <3>2 DEF PropTypeOK
  <2>7. controllers' \in Seq(ControllerInfo)
    <3> DEFINE c == Controller(ven, audio.dev, audio.rev, audio.noPatch, PlatformAny, 0, FALSE)
    <3>1. controllers \in Seq(ControllerInfo)
      BY DEF PropTypeOK
    <3>2. c \in ControllerInfo
      BY <2>2 DEF AudioDevice, Controller, ControllerInfo, PlatformAny
    <3>3. controllers' = controllers \/ controllers' = Append(controllers, c)
      BY <1>7 DEF UpdateExternal
    <3> HIDE DEF c
    <3> QED
      BY <3>1, <3>2, <3>3
  <2>8. nvidiaDeviceIdUsage' \in [DOMAIN NvidiaIds -> BOOLEAN]
    BY <1>7 DEF UpdateExternal, PropTypeOK, ReserveId
  <2>9. gpu' \in 1 .. Len(external') + 1 /\ hdaGfxCounter' \in Nat
    BY <1>7, <2>6 DEF UpdateExternal, PropTypeOK
  <2> QED
    BY <1>7, <2>6, <2>7, <2>8, <2>9 DEF UpdateExternal, PropTypeOK
<1>8. CASE UpdatesDone
  BY <1>8 DEF UpdatesDone, PropTypeOK, devices, Phases
<1> QED
  BY <1>2, <1>3, <1>4, <1>5, <1>6, <1>7, <1>8 DEF Next, UpdateProperties

THEOREM PropTypeCorrect == Spec => []PropTypeOK
BY PropTypeInit, PropTypeStep, PTL DEF Spec

-----------------------------------------------------------------------------
(* The ids of registered NVIDIA controllers are reserved.                     *)

LEMMA IdsReservedStep == PropTypeOK /\ IdsReserved /\ [Next]_propVars => IdsReserved'
<1> SUFFICES ASSUME PropTypeOK, IdsReserved, [Next]_propVars PROVE IdsReserved'
  OBVIOUS
<1>1. controllers \in Seq(ControllerInfo)
  BY DEF PropTypeOK
<1>2. ASSUME nvidiaDeviceIdUsage' = nvidiaDeviceIdUsage,
             NEW c, c.vendor = Intel,
             controllers' = controllers \/ controllers' = Append(controllers, c)
      PROVE  IdsReserved'
  <2>1. \A n \in DOMAIN controllers' :
          controllers'[n] = c \/ \E k \in DOMAIN controllers : controllers'[n] = controllers[k]
    <3>1. CASE controllers' = controllers
      BY <3>1
    <3>2. CASE controllers' = Append(controllers, c)
      BY <1>1, <3>2, AppendMembers
    <3> QED
      BY <1>2, <3>1, <3>2
  <2>2. c.vendor # NVIDIA
    BY <1>2 DEF Intel, NVIDIA
  <2> QED
    BY <1>2, <2>1, <2>2 DEF IdsReserved
<1>3. CASE UNCHANGED propVars
  BY <1>3 DEF IdsReserved, propVars
<1>4. CASE UpdateBuiltinDigital
  <2> DEFINE c == Controller(Intel, hdau.dev, hdau.rev, hdau.noPatch, machine.framebuffer, 0, FALSE)
  <2>1. c.vendor = Intel
    BY DEF Controller
  <2>2. controllers' = controllers \/ controllers' = Append(controllers, c)
    BY <1>4 DEF UpdateBuiltinDigital
  <2>3. nvidiaDeviceIdUsage' = nvidiaDeviceIdUsage
    BY <1>4 DEF UpdateBuiltinDigital
  <2> HIDE DEF c
  <2> QED
    BY <1>2, <2>1, <2>2, <2>3
<1>5. CASE UpdateBuiltinAnalog
  BY <1>5 DEF UpdateBuiltinAnalog, IdsReserved
<1>6. CASE UpdateIgpu
  <2> DEFINE c == Controller(Intel, igpu.dev, igpu.rev, igpu.noPatch, machine.framebuffer, 0, FALSE)
  <2>1. c.vendor = Intel
    BY DEF Controller
  <2>2. controllers' = controllers \/ controllers' = Append(controllers, c)
    BY <1>6 DEF UpdateIgpu
  <2>3. nvidiaDeviceIdUsage' = nvidiaDeviceIdUsage
    BY <1>6 DEF UpdateIgpu
  <2> HIDE DEF c
  <2> QED
    BY <1>2, <2>1, <2>2, <2>3
<1>7. CASE SkipExternal
  BY <1>7 DEF SkipExternal, IdsReserved
<1>8. CASE UpdateExternal
  <2> DEFINE audio == external[gpu].audio
             ven == external[gpu].vendor
             c == Controller(ven, audio.dev, audio.rev, audio.noPatch, PlatformAny, 0, FALSE)
  <2>1. CASE Readable(audio)
    <3>1. /\ controllers' = Append(controllers, c)
          /\ nvidiaDeviceIdUsage' = IF ven = NVIDIA THEN ReserveId(audio.dev) ELSE nvidiaDeviceIdUsage
      BY <1>8, <2>1 DEF UpdateExternal
    <3>2. c.vendor = ven /\ c.device = audio.dev
      BY DEF Controller
    <3> HIDE DEF c
    <3>3. \A n \in DOMAIN NvidiaIds :
            /\ nvidiaDeviceIdUsage[n] => nvidiaDeviceIdUsage'[n]
            /\ c.vendor = NVIDIA /\ NvidiaIds[n] = c.device => nvidiaDeviceIdUsage'[n]
      BY <3>1, <3>2 DEF ReserveId
    <3>4. \A n \in DOMAIN controllers' :
            controllers'[n] = c \/ \E k \in DOMAIN controllers : controllers'[n] = controllers[k]
      BY <1>1, <3>1, AppendMembers
    <3> QED
      BY <3>3, <3>4 DEF IdsReserved
  <2>2. CASE ~Readable(audio)
    BY <1>8, <2>2 DEF UpdateExternal, IdsReserved
  <2> QED
    BY <2>1, <2>2
<1>9. CASE UpdatesDone
  BY <1>9 DEF UpdatesDone, IdsReserved
<1> QED
  BY <1>3, <1>4, <1>5, <1>6, <1>7, <1>8, <1>9 DEF Next, UpdateProperties

\* The pool never holds the id of a registered NVIDIA controller as free
\* (kern_alc.cpp 164-170).
THEOREM IdsReservedCorrect == Spec => []IdsReserved
<1>1. Init => IdsReserved
  BY DEF Init, IdsReserved
<1> QED
  BY <1>1, IdsReservedStep, PropTypeCorrect, PTL DEF Spec

-----------------------------------------------------------------------------
(* No two graphics devices share an onboard number, on machines that come      *)
(* without one.                                                                *)

NoPresetGfx == \A m \in Machines : m.hdef.hdaGfx = 0 /\ m.hdau.hdaGfx = 0

\* The fields that say who has digital audio are never written.
BuiltinFlags ==
  /\ igpu' = igpu \/ igpu' = [igpu EXCEPT !.hdaGfx = 1]
  /\ machine' = machine
  /\ hdef'.present = hdef.present /\ hdef'.noHdaGfx = hdef.noHdaGfx

LEMMA UpdateDeviceFields ==
  ASSUME NEW d \in AudioDevice, NEW hdaGfx \in Nat, NEW isAnalog \in BOOLEAN
  PROVE  /\ hdaGfx = 0 => UpdateDevice(d, hdaGfx, isAnalog).hdaGfx = d.hdaGfx
         /\ hdaGfx # 0 => UpdateDevice(d, hdaGfx, isAnalog).hdaGfx = hdaGfx
         /\ UpdateDevice(d, hdaGfx, isAnalog).present = d.present
         /\ UpdateDevice(d, hdaGfx, isAnalog).noHdaGfx = d.noHdaGfx
BY DEF UpdateDevice, AudioDevice

LEMMA SameBuiltinAudio ==
  ASSUME PropTypeOK, BuiltinFlags
  PROVE  HasBuiltinDigitalAudio' = HasBuiltinDigitalAudio /\ FirstExternalGfx' = FirstExternalGfx
BY DEF BuiltinFlags, PropTypeOK, VideoDevice, HasBuiltinDigitalAudio, FirstExternalGfx

LEMMA OnboardInit == ASSUME NoPresetGfx PROVE Init => OnboardInv
<1> SUFFICES ASSUME Init PROVE OnboardInv
  OBVIOUS
<1>1. machine \in Machines /\ hdef.hdaGfx = 0 /\ hdau.hdaGfx = 0 /\ gpu = 1 /\ phase = "digital"
  BY DEF Init, NoPresetGfx
<1>2. IsMachine(machine) /\ external \in Seq(ExternalGpu)
  BY <1>1 DEF Init, IsMachine
<1> QED
  BY <1>1, <1>2 DEF OnboardInv, ExternalUpdated, IgpuUpdated, FirstExternalGfx

LEMMA OnboardStep == PropTypeOK /\ PropTypeOK' /\ OnboardInv /\ [Next]_propVars => OnboardInv'
<1> SUFFICES ASSUME PropTypeOK, PropTypeOK', OnboardInv, [Next]_propVars PROVE OnboardInv'
  OBVIOUS
<1>1. FirstExternalGfx \in {1, 2} /\ (HasBuiltinDigitalAudio => FirstExternalGfx = 2)
  BY DEF FirstExternalGfx
<1>2. /\ hdef \in AudioDevice /\ hdau \in AudioDevice /\ igpu \in VideoDevice
      /\ external \in Seq(ExternalGpu) /\ gpu \in 1 .. Len(external) + 1 /\ hdaGfxCounter \in Nat
  BY DEF PropTypeOK
<1>3. CASE UNCHANGED propVars
  BY <1>3 DEF OnboardInv, propVars, devices, ExternalUpdated, IgpuUpdated, FirstExternalGfx,
              HasBuiltinDigitalAudio, Injectable
<1>4. CASE UpdateBuiltinDigital
  <2>1. BuiltinFlags
    BY <1>4 DEF UpdateBuiltinDigital, BuiltinFlags
  <2>2. hdau'.hdaGfx < FirstExternalGfx
    <3>1. CASE hdau' = UpdateDevice(hdau, 1, FALSE) /\ HasBuiltinDigitalAudio
      <4>1. UpdateDevice(hdau, 1, FALSE).hdaGfx = 1
        <5>1. 1 # 0
          OBVIOUS
        <5> QED
          BY <1>2, <5>1, UpdateDeviceFields
      <4>2. FirstExternalGfx = 2
        BY <1>1, <3>1
      <4>3. hdau'.hdaGfx = 1
        BY ONLY <3>1, <4>1
      <4> QED
        BY <4>2, <4>3
    <3>2. ASSUME NEW t \in BOOLEAN, hdau' = [hdau EXCEPT !.alive = ~t]
          PROVE  hdau'.hdaGfx < FirstExternalGfx
      <4>1. hdau'.hdaGfx = hdau.hdaGfx
        BY <1>2, <3>2 DEF AudioDevice
      <4> QED
        BY <4>1 DEF OnboardInv
    <3>3. CASE hdau' = hdau
      BY <3>3 DEF OnboardInv
    <3> QED
      BY <1>4, <3>1, <3>2, <3>3 DEF UpdateBuiltinDigital
  <2>3. UNCHANGED <<hdef, igpu, external, gpu, hdaGfxCounter>> /\ phase = "digital" /\ phase' = "analog"
    BY <1>4 DEF UpdateBuiltinDigital
  <2> QED
    BY <1>1, <1>2, <2>1, <2>2, <2>3, SameBuiltinAudio DEF OnboardInv, ExternalUpdated, IgpuUpdated
<1>5. CASE UpdateBuiltinAnalog
  <2>1. BuiltinFlags
    <3>1. hdef'.present = hdef.present /\ hdef'.noHdaGfx = hdef.noHdaGfx
      <4>1. CASE hdef' = hdef
        BY <4>1
      <4>2. ASSUME NEW t, hdef' = [UpdateDevice(hdef, HdefGfx, TRUE) EXCEPT !.tcselUpdated = t]
            PROVE  hdef'.present = hdef.present /\ hdef'.noHdaGfx = hdef.noHdaGfx
        BY <1>2, <4>2 DEF UpdateDevice, AudioDevice
      <4> QED
        BY <1>5, <4>1, <4>2 DEF UpdateBuiltinAnalog
    <3> QED
      BY <1>5, <3>1 DEF UpdateBuiltinAnalog, BuiltinFlags
  <2>2. hdef'.hdaGfx < FirstExternalGfx
    <3>1. CASE hdef' = [UpdateDevice(hdef, HdefGfx, TRUE)
                          EXCEPT !.tcselUpdated = hdef.ven = Intel /\ machine.alctcsel]
      <4>1. IsMachine(machine)
        BY DEF PropTypeOK
      <4>2. UpdateDevice(hdef, HdefGfx, TRUE) \in AudioDevice
        <5>1. HdefGfx \in Nat
          BY DEF HdefGfx
        <5> QED
          BY <1>2, <4>1, <5>1, UpdateDeviceTyped
      <4>3. hdef'.hdaGfx = UpdateDevice(hdef, HdefGfx, TRUE).hdaGfx
        <5>1. \A d \in AudioDevice : \A t : [d EXCEPT !.tcselUpdated = t].hdaGfx = d.hdaGfx
          BY DEF AudioDevice
        <5> QED
          BY <3>1, <4>2, <5>1
      <4>4. /\ HdefGfx = 0 => UpdateDevice(hdef, HdefGfx, TRUE).hdaGfx = hdef.hdaGfx
            /\ HdefGfx # 0 => UpdateDevice(hdef, HdefGfx, TRUE).hdaGfx = HdefGfx
        <5>1. HdefGfx \in Nat
          BY DEF HdefGfx
        <5> HIDE DEF HdefGfx
        <5> QED
          BY <1>2, <5>1, UpdateDeviceFields
      <4>5. HdefGfx = 0 \/ (HdefGfx = 1 /\ FirstExternalGfx = 2)
        BY <1>1 DEF HdefGfx
      <4>6. hdef.hdaGfx < FirstExternalGfx
        BY DEF OnboardInv
      <4>7. CASE HdefGfx = 0
        BY ONLY <4>3, <4>4, <4>6, <4>7
      <4>8. CASE HdefGfx = 1 /\ FirstExternalGfx = 2
        <5>1. HdefGfx # 0
          BY <4>8
        <5>2. hdef'.hdaGfx = HdefGfx
          BY ONLY <4>3, <4>4, <5>1, Zenon
        <5> HIDE DEF HdefGfx
        <5> QED
          BY <4>8, <5>2
      <4> QED
        BY <4>5, <4>7, <4>8
    <3>2. CASE hdef' = hdef
      BY <3>2 DEF OnboardInv
    <3> QED
      BY <1>5, <3>1, <3>2 DEF UpdateBuiltinAnalog
  <2>3. UNCHANGED <<hdau, igpu, external, gpu, hdaGfxCounter>> /\ phase = "analog" /\ phase' = "igpu"
    BY <1>5 DEF UpdateBuiltinAnalog
  <2> QED
    BY <1>1, <1>2, <2>1, <2>2, <2>3, SameBuiltinAudio DEF OnboardInv, ExternalUpdated, IgpuUpdated
<1>6. CASE UpdateIgpu
  <2>1. BuiltinFlags
    BY <1>6 DEF UpdateIgpu, BuiltinFlags
  <2>2. UNCHANGED <<hdef, hdau, external, gpu>> /\ gpu = 1 /\ hdaGfxCounter' = FirstExternalGfx
    BY <1>6 DEF UpdateIgpu, OnboardInv
  <2>3. IgpuUpdated' => igpu'.hdaGfx = 1
    BY <1>2, <1>6, <2>1, SameBuiltinAudio DEF UpdateIgpu, IgpuUpdated, VideoDevice, Injectable
  <2>4. phase' = "external"
    BY <1>6 DEF UpdateIgpu
  <2> QED
    BY <1>1, <1>2, <2>1, <2>2, <2>3, <2>4, SameBuiltinAudio DEF OnboardInv, ExternalUpdated
<1>7. CASE SkipExternal
  <2>1. BuiltinFlags
    BY <1>7 DEF SkipExternal, devices, BuiltinFlags
  <2>2. UNCHANGED <<hdef, hdau, igpu, external, hdaGfxCounter, phase>> /\ gpu' = gpu + 1
        /\ phase = "external"
    BY <1>7 DEF SkipExternal, devices
  <2>3. \A i \in DOMAIN external : ExternalUpdated(i)' => ExternalUpdated(i)
    BY <1>2, <1>7, <2>2 DEF SkipExternal, ExternalUpdated, Injectable
  <2> QED
    BY <1>1, <1>2, <2>1, <2>2, <2>3, SameBuiltinAudio DEF OnboardInv, IgpuUpdated
<1>8. CASE UpdateExternal
  <2>1. BuiltinFlags
    BY <1>8 DEF UpdateExternal, BuiltinFlags
  <2>2. /\ UNCHANGED <<hdef, hdau, igpu, phase>> /\ phase = "external"
        /\ gpu \in DOMAIN external /\ gpu' = gpu + 1 /\ hdaGfxCounter' = hdaGfxCounter + 1
    BY <1>2, <1>8 DEF UpdateExternal
  <2>3. /\ DOMAIN external' = DOMAIN external
        /\ external'[gpu].video.hdaGfx = hdaGfxCounter
        /\ \A i \in DOMAIN external \ {gpu} : external'[i] = external[i]
    <3>1. external[gpu] \in ExternalGpu
      BY <1>2, <2>2
    <3>2. [external[gpu].video EXCEPT !.hdaGfx = hdaGfxCounter].hdaGfx = hdaGfxCounter
      BY <3>1 DEF ExternalGpu, VideoDevice
    <3>3. \A v \in VideoDevice : FixConnectors(v).hdaGfx = v.hdaGfx
      BY DEF FixConnectors, VideoDevice
    <3>4. [external[gpu].video EXCEPT !.hdaGfx = hdaGfxCounter] \in VideoDevice
      BY <1>2, <3>1 DEF ExternalGpu, VideoDevice
    <3> QED
      BY <1>2, <1>8, <2>2, <3>1, <3>2, <3>3, <3>4 DEF UpdateExternal, ExternalGpu
  <2>4. \A i \in DOMAIN external \ {gpu} : ExternalUpdated(i)' => ExternalUpdated(i)
    BY <1>2, <2>2, <2>3 DEF ExternalUpdated, Injectable
  <2>5. \A i \in DOMAIN external : external[i] \in ExternalGpu /\ external[i].video.hdaGfx \in Nat
    <3> SUFFICES ASSUME NEW i \in DOMAIN external
                 PROVE  external[i] \in ExternalGpu /\ external[i].video.hdaGfx \in Nat
      OBVIOUS
    <3>1. external[i] \in ExternalGpu
      BY <1>2
    <3>2. external[i].video \in VideoDevice
      BY <3>1 DEF ExternalGpu
    <3> QED
      BY <3>1, <3>2 DEF VideoDevice
  <2>6. \A i \in DOMAIN external' : ExternalUpdated(i)' =>
          /\ external'[i].video.hdaGfx >= FirstExternalGfx
          /\ external'[i].video.hdaGfx < hdaGfxCounter'
          /\ i # gpu => external'[i].video.hdaGfx < hdaGfxCounter
    BY <1>1, <1>2, <2>2, <2>3, <2>4, <2>5 DEF OnboardInv
  <2>7. \A i, j \in DOMAIN external' : ExternalUpdated(i)' /\ ExternalUpdated(j)' /\ i # j =>
          external'[i].video.hdaGfx # external'[j].video.hdaGfx
    <3> SUFFICES ASSUME NEW i \in DOMAIN external, NEW j \in DOMAIN external, i # j,
                        ExternalUpdated(i)', ExternalUpdated(j)'
                 PROVE  external'[i].video.hdaGfx # external'[j].video.hdaGfx
      BY <2>3
    <3>1. CASE i = gpu
      BY <1>2, <2>3, <2>5, <2>6, <3>1
    <3>2. CASE j = gpu
      BY <1>2, <2>3, <2>5, <2>6, <3>2
    <3>3. CASE i # gpu /\ j # gpu
      BY <2>3, <2>4, <3>3 DEF OnboardInv
    <3> QED
      BY <3>1, <3>2, <3>3
  <2> QED
    BY <1>1, <1>2, <2>1, <2>2, <2>6, <2>7, SameBuiltinAudio DEF OnboardInv, IgpuUpdated
<1>9. CASE UpdatesDone
  <2>1. BuiltinFlags
    BY <1>9 DEF UpdatesDone, devices, BuiltinFlags
  <2> QED
    BY <1>9, <2>1, SameBuiltinAudio DEF UpdatesDone, devices, OnboardInv, ExternalUpdated, IgpuUpdated
<1> QED
  BY <1>3, <1>4, <1>5, <1>6, <1>7, <1>8, <1>9 DEF Next, UpdateProperties

\* However many GPUs there are and whichever of them are skipped, the onboard
\* numbers do not clash (kern_alc.cpp 148-177).
THEOREM OnboardCorrect == ASSUME NoPresetGfx PROVE Spec => []OnboardDistinct
<1>1. PropTypeOK /\ OnboardInv => OnboardDistinct
  <2> SUFFICES ASSUME PropTypeOK, OnboardInv, NEW i \in DOMAIN external, ExternalUpdated(i)
               PROVE  /\ IgpuUpdated => external[i].video.hdaGfx # igpu.hdaGfx
                      /\ hdef.hdaGfx # external[i].video.hdaGfx
                      /\ hdau.hdaGfx # external[i].video.hdaGfx
                      /\ \A j \in DOMAIN external :
                           ExternalUpdated(j) /\ i # j =>
                             external[i].video.hdaGfx # external[j].video.hdaGfx
    BY DEF OnboardDistinct
  <2>1. /\ external[i] \in ExternalGpu /\ external[i].video.hdaGfx \in Nat
        /\ hdef.hdaGfx \in Nat /\ hdau.hdaGfx \in Nat
    <3>1. external[i] \in ExternalGpu /\ hdef \in AudioDevice /\ hdau \in AudioDevice
      BY DEF PropTypeOK
    <3>2. external[i].video \in VideoDevice
      BY <3>1 DEF ExternalGpu
    <3> QED
      BY <3>1, <3>2 DEF VideoDevice, AudioDevice
  <2>2. FirstExternalGfx \in {1, 2} /\ (IgpuUpdated => FirstExternalGfx = 2)
    BY DEF FirstExternalGfx, IgpuUpdated
  <2> QED
    BY <2>1, <2>2 DEF OnboardInv
<1> QED
  BY <1>1, OnboardInit, OnboardStep, PropTypeCorrect, PTL DEF Spec

-----------------------------------------------------------------------------
(* The carrier of the built-in digital audio and the layout of HDEF: both      *)
(* devices are written once, each in its own part of the function.             *)

\* A device the registry shows has not been terminated.
DevicesAlive == \A m \in Machines : m.hdau.present => m.hdau.alive

\* Who keeps the identity of the built-in devices.
BuiltinInv ==
  /\ igpu.present = machine.igpu.present
  /\ hdau.present = machine.hdau.present /\ hdau.noInject = machine.hdau.noInject
  /\ hdef.present = machine.hdef.present /\ hdef.noInject = machine.hdef.noInject
  /\ hdef.noHdaGfx = machine.hdef.noHdaGfx
  /\ phase = "digital" => hdau = machine.hdau
  /\ phase \in {"digital", "analog"} => hdef = machine.hdef

CarrierInv ==
  /\ phase # "digital" =>
       /\ hdau.hdaGfx = 1 => HasBuiltinDigitalAudio /\ hdau.alive
       /\ HasBuiltinDigitalAudio /\ hdau.present /\ Injectable(hdau) => hdau.hdaGfx = 1
  /\ phase \notin {"digital", "analog"} =>
       /\ hdef.hdaGfx = 1 => HasBuiltinDigitalAudio /\ ~hdau.present
       /\ HasBuiltinDigitalAudio /\ ~hdau.present /\ hdef.present /\ Injectable(hdef) => hdef.hdaGfx = 1

LEMMA UpdateDeviceKeeps ==
  ASSUME NEW d \in AudioDevice, NEW hdaGfx \in Nat, NEW isAnalog \in BOOLEAN
  PROVE  /\ UpdateDevice(d, hdaGfx, isAnalog).present = d.present
         /\ UpdateDevice(d, hdaGfx, isAnalog).noInject = d.noInject
         /\ UpdateDevice(d, hdaGfx, isAnalog).alive = d.alive
         /\ UpdateDevice(d, hdaGfx, isAnalog).alcLayout = IF isAnalog THEN AlcLayoutId(d) ELSE d.alcLayout
BY DEF UpdateDevice, AudioDevice

\* HDEF after its part of the function.
LEMMA AnalogUpdated ==
  ASSUME PropTypeOK, UpdateBuiltinAnalog
  PROVE  /\ hdef'.present = hdef.present /\ hdef'.noInject = hdef.noInject /\ hdef'.noHdaGfx = hdef.noHdaGfx
         /\ hdef.present /\ Injectable(hdef) =>
              /\ hdef'.alcLayout = AlcLayoutId(hdef)
              /\ hdef'.hdaGfx = IF HdefGfx = 0 THEN hdef.hdaGfx ELSE HdefGfx
         /\ ~(hdef.present /\ Injectable(hdef)) => hdef' = hdef
<1>1. hdef \in AudioDevice /\ HdefGfx \in Nat /\ IsMachine(machine)
  BY DEF PropTypeOK, HdefGfx
<1>2. CASE hdef.present /\ Injectable(hdef)
  <2> DEFINE d == UpdateDevice(hdef, HdefGfx, TRUE)
  <2>1. d \in AudioDevice
    BY <1>1, UpdateDeviceTyped
  <2>2. /\ d.present = hdef.present /\ d.noInject = hdef.noInject /\ d.noHdaGfx = hdef.noHdaGfx
        /\ d.alcLayout = AlcLayoutId(hdef)
        /\ d.hdaGfx = IF HdefGfx = 0 THEN hdef.hdaGfx ELSE HdefGfx
    BY <1>1, UpdateDeviceKeeps, UpdateDeviceFields
  <2>3. PICK t : hdef' = [d EXCEPT !.tcselUpdated = t]
    BY <1>2 DEF UpdateBuiltinAnalog
  <2> HIDE DEF d
  <2>4. /\ hdef'.present = d.present /\ hdef'.noInject = d.noInject /\ hdef'.noHdaGfx = d.noHdaGfx
        /\ hdef'.alcLayout = d.alcLayout /\ hdef'.hdaGfx = d.hdaGfx
    BY <2>1, <2>3 DEF AudioDevice
  <2> QED
    BY ONLY <1>2, <2>2, <2>4
<1>3. CASE ~(hdef.present /\ Injectable(hdef))
  BY <1>3 DEF UpdateBuiltinAnalog
<1> QED
  BY <1>2, <1>3

\* HDAU after its part.
LEMMA DigitalUpdated ==
  ASSUME PropTypeOK, UpdateBuiltinDigital
  PROVE  /\ hdau'.present = hdau.present /\ hdau'.noInject = hdau.noInject
         /\ hdau.present /\ Injectable(hdau) /\ HasBuiltinDigitalAudio =>
              hdau'.hdaGfx = 1 /\ hdau'.alive = hdau.alive
         /\ ~(hdau.present /\ Injectable(hdau) /\ HasBuiltinDigitalAudio) => hdau'.hdaGfx = hdau.hdaGfx
<1>1. hdau \in AudioDevice
  BY DEF PropTypeOK
<1>2. CASE hdau' = UpdateDevice(hdau, 1, FALSE) /\ hdau.present /\ Injectable(hdau) /\ HasBuiltinDigitalAudio
  <2>1. 1 \in Nat /\ 1 # 0
    OBVIOUS
  <2> QED
    BY <1>1, <1>2, <2>1, UpdateDeviceKeeps, UpdateDeviceFields
<1>3. CASE /\ \E terminated \in BOOLEAN : hdau' = [hdau EXCEPT !.alive = ~terminated]
           /\ ~HasBuiltinDigitalAudio
  BY <1>1, <1>3 DEF AudioDevice
<1>4. CASE hdau' = hdau /\ ~(hdau.present /\ Injectable(hdau))
  BY <1>4
<1> QED
  BY <1>2, <1>3, <1>4 DEF UpdateBuiltinDigital

\* The other parts leave both devices, and everything HasBuiltinDigitalAudio
\* looks at, alone.
LEMMA OtherParts ==
  ASSUME PropTypeOK, UNCHANGED propVars \/ UpdateIgpu \/ SkipExternal \/ UpdateExternal \/ UpdatesDone
  PROVE  /\ UNCHANGED <<machine, hdef, hdau>> /\ igpu'.present = igpu.present
         /\ phase' = phase \/ (phase \notin {"digital", "analog"} /\ phase' \notin {"digital", "analog"})
<1>1. UNCHANGED propVars \/ SkipExternal \/ UpdateExternal \/ UpdatesDone =>
        /\ UNCHANGED <<machine, hdef, hdau>> /\ igpu'.present = igpu.present
        /\ phase' = phase \/ (phase \notin {"digital", "analog"} /\ phase' \notin {"digital", "analog"})
  BY DEF SkipExternal, UpdateExternal, UpdatesDone, propVars, devices
<1>2. UpdateIgpu => UNCHANGED <<machine, hdef, hdau>> /\ phase = "igpu" /\ phase' = "external"
  BY DEF UpdateIgpu
<1>3. UpdateIgpu => igpu'.present = igpu.present
  BY DEF UpdateIgpu, PropTypeOK, VideoDevice
<1> QED
  BY <1>1, <1>2, <1>3

LEMMA BuiltinStep == PropTypeOK /\ BuiltinInv /\ [Next]_propVars => BuiltinInv'
<1> SUFFICES ASSUME PropTypeOK, BuiltinInv, [Next]_propVars PROVE BuiltinInv'
  OBVIOUS
<1>1. CASE UpdateBuiltinDigital
  <2>1. UNCHANGED <<machine, hdef, igpu>> /\ phase = "digital" /\ phase' = "analog"
    BY <1>1 DEF UpdateBuiltinDigital
  <2> QED
    BY <1>1, <2>1, DigitalUpdated DEF BuiltinInv
<1>2. CASE UpdateBuiltinAnalog
  <2>1. UNCHANGED <<machine, hdau, igpu>> /\ phase = "analog" /\ phase' = "igpu"
    BY <1>2 DEF UpdateBuiltinAnalog
  <2> QED
    BY <1>2, <2>1, AnalogUpdated DEF BuiltinInv
<1>3. CASE UNCHANGED propVars \/ UpdateIgpu \/ SkipExternal \/ UpdateExternal \/ UpdatesDone
  BY <1>3, OtherParts DEF BuiltinInv
<1> QED
  BY <1>1, <1>2, <1>3 DEF Next, UpdateProperties

LEMMA BuiltinHolds == Spec => []BuiltinInv
<1>1. Init => BuiltinInv
  BY DEF Init, BuiltinInv
<1> QED
  BY <1>1, BuiltinStep, PropTypeCorrect, PTL DEF Spec

LEMMA CarrierStep ==
  ASSUME NoPresetGfx, DevicesAlive
  PROVE  PropTypeOK /\ BuiltinInv /\ CarrierInv /\ [Next]_propVars => CarrierInv'
<1> SUFFICES ASSUME PropTypeOK, BuiltinInv, CarrierInv, [Next]_propVars PROVE CarrierInv'
  OBVIOUS
<1>1. CASE UpdateBuiltinDigital
  <2>1. UNCHANGED <<machine, hdef, igpu>> /\ phase = "digital" /\ phase' = "analog"
    BY <1>1 DEF UpdateBuiltinDigital
  <2>2. HasBuiltinDigitalAudio' = HasBuiltinDigitalAudio
    BY <2>1 DEF HasBuiltinDigitalAudio
  <2>3. hdau = machine.hdau /\ machine \in Machines
    BY <2>1 DEF BuiltinInv, PropTypeOK
  <2>4. hdau.hdaGfx # 1 /\ (hdau.present => hdau.alive)
    BY <2>3 DEF NoPresetGfx, DevicesAlive
  <2>5. Injectable(hdau)' <=> Injectable(hdau)
    BY <1>1, DigitalUpdated DEF Injectable
  <2> QED
    BY <1>1, <2>1, <2>2, <2>4, <2>5, DigitalUpdated DEF CarrierInv
<1>2. CASE UpdateBuiltinAnalog
  <2>1. UNCHANGED <<machine, hdau, igpu>> /\ phase = "analog" /\ phase' = "igpu"
    BY <1>2 DEF UpdateBuiltinAnalog
  <2>2. HasBuiltinDigitalAudio' = HasBuiltinDigitalAudio
    BY <1>2, <2>1, AnalogUpdated DEF HasBuiltinDigitalAudio
  <2>3. hdef = machine.hdef /\ machine \in Machines
    BY <2>1 DEF BuiltinInv, PropTypeOK
  <2>4. hdef.hdaGfx = 0
    BY <2>3 DEF NoPresetGfx
  <2>5. HdefGfx = 1 <=> HasBuiltinDigitalAudio /\ ~hdau.present
    BY DEF HdefGfx
  <2>6. HdefGfx = 0 \/ HdefGfx = 1
    BY DEF HdefGfx
  <2>7. Injectable(hdef)' <=> Injectable(hdef)
    BY <1>2, AnalogUpdated DEF Injectable
  <2>8. /\ hdef'.hdaGfx = 1 => HdefGfx = 1
        /\ HdefGfx = 1 /\ hdef'.present /\ Injectable(hdef)' => hdef'.hdaGfx = 1
    BY <1>2, <2>4, <2>6, <2>7, AnalogUpdated
  <2>9. Injectable(hdau)' <=> Injectable(hdau)
    BY <2>1 DEF Injectable
  <2> QED
    BY <2>1, <2>2, <2>5, <2>8, <2>9 DEF CarrierInv
<1>3. CASE UNCHANGED propVars \/ UpdateIgpu \/ SkipExternal \/ UpdateExternal \/ UpdatesDone
  <2>1. UNCHANGED <<machine, hdef, hdau>> /\ igpu'.present = igpu.present
    BY <1>3, OtherParts
  <2>2. HasBuiltinDigitalAudio' = HasBuiltinDigitalAudio
    BY <2>1 DEF HasBuiltinDigitalAudio
  <2>3. (Injectable(hdau)' <=> Injectable(hdau)) /\ (Injectable(hdef)' <=> Injectable(hdef))
    BY <2>1 DEF Injectable
  <2> QED
    BY <1>3, <2>1, <2>2, <2>3, OtherParts DEF CarrierInv
<1> QED
  BY <1>1, <1>2, <1>3 DEF Next, UpdateProperties

\* HDAU carries the digital audio of the IGPU when the machine has it, HDEF when
\* not, and neither when digital audio is disabled (kern_alc.cpp 77-96, 129-136).
THEOREM CarrierCorrect == ASSUME NoPresetGfx, DevicesAlive PROVE Spec => []OneBuiltinCarrier
<1>1. CarrierInv => OneBuiltinCarrier
  BY DEF CarrierInv, OneBuiltinCarrier, IgpuUpdated
<1>2. Init => CarrierInv
  BY DEF Init, CarrierInv
<1> QED
  BY <1>1, <1>2, CarrierStep, BuiltinHolds, PropTypeCorrect, PTL DEF Spec

LEMMA ProvenanceStep ==
  PropTypeOK /\ BuiltinInv /\ AlcLayoutProvenance /\ [Next]_propVars => AlcLayoutProvenance'
<1> SUFFICES ASSUME PropTypeOK, BuiltinInv, AlcLayoutProvenance, [Next]_propVars PROVE AlcLayoutProvenance'
  OBVIOUS
<1>1. CASE UpdateBuiltinDigital
  BY <1>1 DEF UpdateBuiltinDigital, AlcLayoutProvenance
<1>2. CASE UpdateBuiltinAnalog
  <2>1. machine' = machine /\ hdef = machine.hdef
    BY <1>2 DEF UpdateBuiltinAnalog, BuiltinInv
  <2>2. hdef.present /\ Injectable(hdef) => hdef'.alcLayout = AlcLayoutId(hdef)
    BY <1>2, AnalogUpdated
  <2>3. Injectable(hdef)' <=> Injectable(hdef)
    BY <1>2, AnalogUpdated DEF Injectable
  <2>4. hdef'.present = hdef.present
    BY <1>2, AnalogUpdated
  <2>5. /\ machine.alcid # None => AlcLayoutId(hdef) = machine.alcid
        /\ machine.alcid = None =>
             /\ AlcLayoutId(hdef) \in {hdef.alcLayout, hdef.layout}
             /\ machine.apple /\ hdef.alcLayout # None => AlcLayoutId(hdef) = hdef.alcLayout
    BY DEF AlcLayoutId
  <2> QED
    BY <2>1, <2>2, <2>3, <2>4, <2>5 DEF AlcLayoutProvenance
<1>3. CASE UNCHANGED propVars \/ UpdateIgpu \/ SkipExternal \/ UpdateExternal \/ UpdatesDone
  BY <1>3, OtherParts DEF AlcLayoutProvenance, Injectable
<1> QED
  BY <1>1, <1>2, <1>3 DEF Next, UpdateProperties

\* HDEF's alc-layout-id comes from the boot argument or from one of its own two
\* properties, never from the layout-id that AppleALC itself writes
\* (kern_alc.cpp 214-236, 259-261).
THEOREM ProvenanceCorrect == Spec => []AlcLayoutProvenance
<1>1. Init => AlcLayoutProvenance
  BY DEF Init, AlcLayoutProvenance
<1> QED
  BY <1>1, ProvenanceStep, BuiltinHolds, PropTypeCorrect, PTL DEF Spec
=============================================================================
