--------------------------- MODULE AlcEnablerProofs ---------------------------
(***************************************************************************)
(* Proofs about AlcEnabler, for any machines, any tables of controllers and *)
(* codecs, any pool of NVIDIA ids and any number of retries.  The device    *)
(* pass is taken over from DevicePropertiesProofs.                           *)
(***************************************************************************)
EXTENDS AlcEnabler, DevicePropertiesProofs

USE MachinesAssumption, NvidiaIdsAssumption, BruteMaxAssumption, TablesAssumption, CodecNodesAssumption

(* What the operators of the pipeline return.                                 *)

\* LeastOrZero picks a member of the set or nothing.
LEMMA LeastOrZeroIn ==
  ASSUME NEW S PROVE LeastOrZero(S) = 0 \/ LeastOrZero(S) \in S
BY DEF LeastOrZero

LEMMA CodecEntryIs ==
  ASSUME NEW c, CodecEntry(c) # 0
  PROVE  LET m == CodecEntry(c)
         IN  /\ m \in DOMAIN CodecMod
             /\ CodecMod[m].vendor = c.vendor /\ CodecMod[m].codec = c.codec
             /\ CodecMod[m].revisions = {} \/ c.revision \in CodecMod[m].revisions
<1> DEFINE S == {x \in DOMAIN CodecMod : CodecMod[x].vendor = c.vendor /\ CodecMod[x].codec = c.codec}
           m == LeastOrZero(S)
<1>1. CodecEntry(c) = m /\ m # 0 /\ (CodecMod[m].revisions = {} \/ c.revision \in CodecMod[m].revisions)
  BY DEF CodecEntry
<1>2. m \in S
  BY <1>1, LeastOrZeroIn
<1> QED
  BY <1>1, <1>2

LEMMA CodecEntryTyped == ASSUME NEW c PROVE CodecEntry(c) \in 0 .. Len(CodecMod)
<1>1. CASE CodecEntry(c) = 0
  BY <1>1
<1>2. CASE CodecEntry(c) # 0
  BY <1>2, CodecEntryIs
<1> QED
  BY <1>1, <1>2

\* validateControllers only writes the entry.
LEMMA ValidatedIs ==
  ASSUME NEW cs \in Seq(ControllerInfo)
  PROVE  /\ Validated(cs) \in Seq(ControllerInfo) /\ Len(Validated(cs)) = Len(cs)
         /\ \A n \in DOMAIN cs :
              /\ Validated(cs)[n].vendor = cs[n].vendor /\ Validated(cs)[n].device = cs[n].device
              /\ Validated(cs)[n].detect = cs[n].detect /\ Validated(cs)[n].layout = cs[n].layout
<1> DEFINE Entry(c) == LeastOrZero({m \in DOMAIN ControllerMod : ModMatches(m, c)})
<1>1. \A c : Entry(c) \in Nat
  BY LeastOrZeroIn
<1>2. Validated(cs) = [n \in DOMAIN cs |-> [cs[n] EXCEPT !.info = Entry(cs[n])]]
  BY DEF Validated
<1> HIDE DEF Entry
<1>3. \A c \in ControllerInfo : \A m \in Nat :
        /\ [c EXCEPT !.info = m] \in ControllerInfo
        /\ [c EXCEPT !.info = m].vendor = c.vendor /\ [c EXCEPT !.info = m].device = c.device
        /\ [c EXCEPT !.info = m].detect = c.detect /\ [c EXCEPT !.info = m].layout = c.layout
  BY DEF ControllerInfo
<1>4. /\ Len(cs) \in Nat /\ DOMAIN cs = 1 .. Len(cs)
      /\ \A n \in 1 .. Len(cs) : cs[n] \in ControllerInfo
  OBVIOUS
<1>5. \A n \in 1 .. Len(cs) : Validated(cs)[n] = [cs[n] EXCEPT !.info = Entry(cs[n])]
  BY <1>2, <1>4
<1>6. \A n \in 1 .. Len(cs) : [cs[n] EXCEPT !.info = Entry(cs[n])] \in ControllerInfo
  BY <1>1, <1>3, <1>4, Zenon
<1>7. Validated(cs) = [n \in 1 .. Len(cs) |-> Validated(cs)[n]]
  BY <1>2, <1>4
<1>8. \A n \in 1 .. Len(cs) : Validated(cs)[n] \in ControllerInfo
  BY <1>5, <1>6
<1> HIDE DEF Validated
<1>9. Validated(cs) \in Seq(ControllerInfo) /\ Len(Validated(cs)) = Len(cs)
  BY <1>4, <1>7, <1>8
<1>10. \A n \in 1 .. Len(cs) : /\ Validated(cs)[n].vendor = cs[n].vendor
                               /\ Validated(cs)[n].device = cs[n].device
                               /\ Validated(cs)[n].detect = cs[n].detect
                               /\ Validated(cs)[n].layout = cs[n].layout
  <2> SUFFICES ASSUME NEW n \in 1 .. Len(cs)
               PROVE  /\ Validated(cs)[n].vendor = cs[n].vendor /\ Validated(cs)[n].device = cs[n].device
                      /\ Validated(cs)[n].detect = cs[n].detect /\ Validated(cs)[n].layout = cs[n].layout
    OBVIOUS
  <2>1. cs[n] \in ControllerInfo /\ Entry(cs[n]) \in Nat
    BY <1>1, <1>4
  <2>2. Validated(cs)[n] = [cs[n] EXCEPT !.info = Entry(cs[n])]
    BY <1>5
  <2> QED
    BY ONLY <1>3, <2>1, <2>2
<1> QED
  BY <1>4, <1>9, <1>10

\* What grabControllers makes of the list: its members with their table entries,
\* and after them at most the analog controller.
LEMMA GrabbedControllers ==
  ASSUME PropTypeOK
  PROVE  /\ GrabControllers \in Seq(ControllerInfo)
         /\ Len(GrabControllers) \in {Len(controllers), Len(controllers) + 1}
         /\ \A n \in DOMAIN controllers :
              /\ GrabControllers[n].vendor = controllers[n].vendor
              /\ GrabControllers[n].device = controllers[n].device
              /\ GrabControllers[n].detect = controllers[n].detect
         /\ \A n \in DOMAIN GrabControllers \ DOMAIN controllers :
              GrabControllers[n].detect /\ GrabControllers[n].layout = hdef.alcLayout
<1> DEFINE list == IF hdef.present /\ Readable(hdef) /\ hdef.alcLayout # None
                   THEN Append(controllers, AnalogController) ELSE controllers
<1>1. AnalogController \in ControllerInfo /\ AnalogController.detect /\ AnalogController.layout = hdef.alcLayout
  BY DEF AnalogController, Controller, ControllerInfo, PropTypeOK, AudioDevice, PlatformAny
<1>2. controllers \in Seq(ControllerInfo)
  BY DEF PropTypeOK
<1>3. /\ list \in Seq(ControllerInfo)
      /\ Len(list) \in {Len(controllers), Len(controllers) + 1}
      /\ \A n \in DOMAIN controllers : list[n] = controllers[n]
      /\ \A n \in DOMAIN list \ DOMAIN controllers : list[n] = AnalogController
  <2> HIDE DEF AnalogController
  <2>1. CASE list = controllers
    BY <1>2, <2>1
  <2>2. CASE list = Append(controllers, AnalogController)
    BY <1>1, <1>2, <2>2
  <2> QED
    BY <2>1, <2>2
<1> HIDE DEF list
<1>4. GrabControllers = Validated(list)
  BY DEF GrabControllers, list
<1>5. /\ DOMAIN list = 1 .. Len(list) /\ DOMAIN Validated(list) = 1 .. Len(list)
      /\ DOMAIN controllers = 1 .. Len(controllers)
      /\ Len(list) \in Nat /\ Len(controllers) \in Nat
  BY <1>2, <1>3, ValidatedIs
<1>6. DOMAIN controllers \subseteq DOMAIN list
  <2>1. \A a, b \in Nat : b \in {a, a + 1} => 1 .. a \subseteq 1 .. b
    OBVIOUS
  <2> QED
    BY <1>3, <1>5, <2>1, Zenon
<1>7. /\ Validated(list) \in Seq(ControllerInfo) /\ Len(Validated(list)) = Len(list)
      /\ \A n \in DOMAIN list :
           /\ Validated(list)[n].vendor = list[n].vendor /\ Validated(list)[n].device = list[n].device
           /\ Validated(list)[n].detect = list[n].detect /\ Validated(list)[n].layout = list[n].layout
  BY <1>3, ValidatedIs
<1>8. \A n \in DOMAIN list \ DOMAIN controllers : list[n].detect /\ list[n].layout = hdef.alcLayout
  BY <1>1, <1>3
<1> HIDE DEF AnalogController
<1>9. /\ Len(Validated(list)) \in {Len(controllers), Len(controllers) + 1}
      /\ \A n \in DOMAIN Validated(list) \ DOMAIN controllers :
           Validated(list)[n].detect /\ Validated(list)[n].layout = hdef.alcLayout
  <2>1. DOMAIN Validated(list) = DOMAIN list
    BY <1>5
  <2>2. Len(Validated(list)) \in {Len(controllers), Len(controllers) + 1}
    BY <1>3, <1>7, Zenon
  <2>3. ASSUME NEW n \in DOMAIN Validated(list) \ DOMAIN controllers
        PROVE  Validated(list)[n].detect /\ Validated(list)[n].layout = hdef.alcLayout
    <3>1. n \in DOMAIN list \ DOMAIN controllers
      BY <2>1, <2>3, Zenon
    <3>2. list[n].detect /\ list[n].layout = hdef.alcLayout
      BY <1>8, <3>1
    <3>3. Validated(list)[n].detect = list[n].detect /\ Validated(list)[n].layout = list[n].layout
      BY <1>7, <3>1, Zenon
    <3> QED
      BY <3>2, <3>3
  <2> QED
    BY <2>2, <2>3
<1>10. \A n \in DOMAIN controllers :
         /\ Validated(list)[n].vendor = controllers[n].vendor
         /\ Validated(list)[n].device = controllers[n].device
         /\ Validated(list)[n].detect = controllers[n].detect
  BY <1>3, <1>6, <1>7
<1> QED
  BY <1>4, <1>7, <1>9, <1>10

LEMMA GrabbedEntries ==
  ASSUME PropTypeOK
  PROVE  \A n \in DOMAIN GrabControllers : GrabControllers[n].info \in 0 .. Len(ControllerMod)
<1>1. ASSUME NEW cs \in Seq(ControllerInfo), NEW n \in DOMAIN Validated(cs)
      PROVE  Validated(cs)[n].info \in 0 .. Len(ControllerMod)
  <2> DEFINE m == LeastOrZero({x \in DOMAIN ControllerMod : ModMatches(x, cs[n])})
  <2>1. m = 0 \/ m \in DOMAIN ControllerMod
    BY LeastOrZeroIn
  <2>2. n \in DOMAIN cs /\ Validated(cs)[n] = [cs[n] EXCEPT !.info = m]
    BY DEF Validated
  <2>3. cs[n] \in ControllerInfo
    BY <2>2
  <2> HIDE DEF m
  <2>4. Validated(cs)[n].info = m
    BY <2>2, <2>3 DEF ControllerInfo
  <2> QED
    BY <2>1, <2>4
<1> DEFINE list == IF hdef.present /\ Readable(hdef) /\ hdef.alcLayout # None
                   THEN Append(controllers, AnalogController) ELSE controllers
<1>2. AnalogController \in ControllerInfo
  BY DEF AnalogController, Controller, ControllerInfo, PropTypeOK, AudioDevice, PlatformAny
<1>3. list \in Seq(ControllerInfo)
  <2> HIDE DEF AnalogController
  <2> QED
    BY <1>2 DEF PropTypeOK
<1>4. GrabControllers = Validated(list)
  BY DEF GrabControllers
<1> HIDE DEF list
<1> QED
  BY <1>1, <1>3, <1>4

-----------------------------------------------------------------------------
(* The inductive invariant, in parts.                                         *)

\* Where processKext is, and what must have happened before it can be there.
Control ==
  /\ phase # "done" => progressState = {} /\ \A k \in Kexts : ~image[k].loaded
  /\ pc = "idle" <=> kext = "none"
  /\ pc # "idle" => /\ kext # "AppleGFXHDA" /\ image[kext].loaded
                    /\ "ControllersLoaded" \in progressState
  /\ pc \in {"codecs", "validate"} => kext = "AppleHDA" /\ "CodecsLoaded" \notin progressState
  /\ pc \in {"codecs", "controllers"} => i >= 1
  /\ pc \in {"validate", "controllers"} => j >= 1
  /\ \A k \in Kexts \ {"AppleGFXHDA"} : image[k].loaded => "ControllersLoaded" \in progressState

TypeInv == AlcTypeOK /\ Control

\* The list of controllers: entries of the table, and at most one analog
\* controller, the last, with HDEF's layout.
Detected ==
  /\ \A n \in DOMAIN controllers : controllers[n].info \in 0 .. Len(ControllerMod)
  /\ \A n \in DOMAIN controllers : controllers[n].detect =>
       n = Len(controllers) /\ controllers[n].layout = hdef.alcLayout /\ "ControllersLoaded" \in progressState

\* A codec comes from a node that had published everything.
FromNode(c) ==
  \E m \in DOMAIN machine.codecNodes :
    /\ nodes[m] = "complete" /\ machine.codecNodes[m].valid
    /\ c.vendor = machine.codecNodes[m].vendor /\ c.codec = machine.codecNodes[m].codec
    /\ c.revision = machine.codecNodes[m].revision

Entered(c) == c.info # 0 /\ c.info = CodecEntry(c)

\* The codecs: at most one, below the analog controller, entered in the table
\* once its validation is over.
CodecsFound ==
  /\ "ControllersLoaded" \notin progressState => codecs = <<>>
  /\ Len(codecs) <= 1
  /\ \A n \in DOMAIN codecs : controllers[codecs[n].controller].detect /\ FromNode(codecs[n])
  /\ pc = "codecs" =>
       \A n \in DOMAIN codecs : codecs[n].controller < i \/ (codecs[n].controller = i /\ found)
  /\ pc = "validate" => \A n \in DOMAIN codecs : n < j => Entered(codecs[n])
  /\ pc \notin {"codecs", "validate"} =>
       /\ ("CodecsLoaded" \in progressState) <=> (codecs # <<>>)
       /\ \A n \in DOMAIN codecs : Entered(codecs[n])

\* The ids handed out are taken, and none was before the controllers are known.
IdsTaken ==
  /\ IdsReserved
  /\ "ControllersLoaded" \notin progressState => \A s \in Slots : nvidiaFind[s] = 0
  /\ \A s \in Slots : nvidiaFind[s] # 0 => nvidiaDeviceIdUsage[nvidiaFind[s]]
  /\ NvidiaIdsExclusive

\* The patches of one table a kext carries, and those the controllers before
\* the b-th call for.
Carried(k, table) == {p \in image[k].patches : p.table = table}

CalledBefore(b, k) == UNION {CallFor(controllers[n], k) : n \in {x \in DOMAIN controllers : x < b}}

\* How far the patching has come: what kexts that are done with carry, and what
\* the one being processed carries.
PatchesApplied ==
  /\ \A k \in Kexts \ {"AppleGFXHDA"} : image[k].loaded /\ kext # k =>
       AllSettled /\ Carried(k, "controller") = CalledBefore(Len(controllers) + 1, k)
  /\ pc \in {"codecs", "validate"} => Carried(kext, "controller") = {}
  /\ pc = "controllers" =>
       /\ i <= Len(controllers) + 1
       /\ Carried(kext, "controller") = CalledBefore(i, kext)
       /\ \A n \in DOMAIN controllers : controllers[n].info # 0 =>
            \A p \in DOMAIN ControllerMod[controllers[n].info].patches :
              n < i \/ (n = i /\ p < j) => Settled(controllers[n].info, p)
  /\ pc = "finish" =>
       AllSettled /\ Carried(kext, "controller") = CalledBefore(Len(controllers) + 1, kext)

\* A kext being processed carries no codec patch and has nothing routed yet.
CodecPatched == CodecPatchesInAppleHDA /\ (pc # "idle" => Carried(kext, "codec") = {})

ResourceServed ==
  /\ pc # "idle" => image[kext].routed = {}
  /\ \A type \in ResourceTypes : resource[type] # 0 => "CodecsLoaded" \in progressState
  /\ ResourceFits

AlcInv == TypeInv /\ Detected /\ CodecsFound /\ IdsTaken /\ PatchesApplied /\ CodecPatched /\ ResourceServed

-----------------------------------------------------------------------------
(* What the steps of the device pass and of processKext can touch.            *)

\* The device pass runs before any kext, and appends digital controllers
\* without an entry.
LEMMA UpdateControllers ==
  ASSUME PropTypeOK, UpdateProperties
  PROVE  /\ phase # "done" /\ machine' = machine
         /\ controllers' = controllers \/
              \E c \in ControllerInfo : c.info = 0 /\ ~c.detect /\ controllers' = Append(controllers, c)
<1>1. ASSUME NEW ven \in {Intel, NVIDIA, "other"}, NEW dev \in Int, NEW rev \in Int, NEW p \in Int,
             NEW np \in BOOLEAN,
             controllers' = controllers \/
               controllers' = Append(controllers, Controller(ven, dev, rev, np, p, 0, FALSE))
      PROVE  controllers' = controllers \/
               \E c \in ControllerInfo : c.info = 0 /\ ~c.detect /\ controllers' = Append(controllers, c)
  <2> DEFINE c == Controller(ven, dev, rev, np, p, 0, FALSE)
  <2>1. c \in ControllerInfo /\ c.info = 0 /\ ~c.detect
    BY DEF Controller, ControllerInfo
  <2> HIDE DEF c
  <2>2. controllers' = controllers \/ controllers' = Append(controllers, c)
    BY <1>1 DEF c
  <2> QED
    BY <2>1, <2>2
<1>2. IsMachine(machine) /\ hdau \in AudioDevice /\ igpu \in VideoDevice /\ external \in Seq(ExternalGpu)
  BY DEF PropTypeOK
<1>3. /\ machine.framebuffer \in Int
      /\ hdau.dev \in Int /\ hdau.rev \in Int /\ hdau.noPatch \in BOOLEAN
      /\ igpu.dev \in Int /\ igpu.rev \in Int /\ igpu.noPatch \in BOOLEAN
  BY <1>2 DEF IsMachine, AudioDevice, VideoDevice
<1>4. CASE UpdateBuiltinDigital
  <2>1. controllers' = controllers \/ controllers' =
          Append(controllers, Controller(Intel, hdau.dev, hdau.rev, hdau.noPatch, machine.framebuffer, 0, FALSE))
    BY <1>4 DEF UpdateBuiltinDigital
  <2>2. phase # "done" /\ machine' = machine
    BY <1>4 DEF UpdateBuiltinDigital
  <2> QED
    BY <1>1, <1>3, <2>1, <2>2
<1>5. CASE UpdateBuiltinAnalog
  BY <1>5 DEF UpdateBuiltinAnalog
<1>6. CASE UpdateIgpu
  <2>1. controllers' = controllers \/ controllers' =
          Append(controllers, Controller(Intel, igpu.dev, igpu.rev, igpu.noPatch, machine.framebuffer, 0, FALSE))
    BY <1>6 DEF UpdateIgpu
  <2>2. phase # "done" /\ machine' = machine
    BY <1>6 DEF UpdateIgpu
  <2> QED
    BY <1>1, <1>3, <2>1, <2>2
<1>7. CASE SkipExternal
  BY <1>7 DEF SkipExternal
<1>8. CASE UpdateExternal
  <2>1. gpu \in DOMAIN external
    BY <1>2, <1>8 DEF UpdateExternal, PropTypeOK
  <2>2. /\ external[gpu].vendor \in {Intel, NVIDIA, "other"}
        /\ external[gpu].audio.dev \in Int /\ external[gpu].audio.rev \in Int
        /\ external[gpu].audio.noPatch \in BOOLEAN /\ PlatformAny \in Int
    <3>1. external[gpu] \in ExternalGpu
      BY <1>2, <2>1
    <3> QED
      BY <3>1 DEF ExternalGpu, AudioDevice, PlatformAny
  <2>3. controllers' = controllers \/ controllers' =
          Append(controllers, Controller(external[gpu].vendor, external[gpu].audio.dev,
                                         external[gpu].audio.rev, external[gpu].audio.noPatch,
                                         PlatformAny, 0, FALSE))
    BY <1>8 DEF UpdateExternal
  <2>4. phase # "done" /\ machine' = machine
    BY <1>8 DEF UpdateExternal
  <2>5. controllers' = controllers \/
          \E c \in ControllerInfo : c.info = 0 /\ ~c.detect /\ controllers' = Append(controllers, c)
    BY ONLY <1>1, <2>2, <2>3, Zenon
  <2> QED
    BY ONLY <2>4, <2>5
<1>9. CASE UpdatesDone
  BY <1>9 DEF UpdatesDone
<1> QED
  BY <1>4, <1>5, <1>6, <1>7, <1>8, <1>9 DEF UpdateProperties

LEMMA PropKept == PropTypeOK /\ UNCHANGED propVars => PropTypeOK'
BY PropTypeStep

LEMMA MachineTyped ==
  ASSUME PropTypeOK
  PROVE  machine.kernel \in Int /\ machine.codecNodes \in Seq(CodecNode)
BY DEF PropTypeOK

\* The patches the pipeline applies are records of the type it keeps.
LEMMA PatchesTyped ==
  ASSUME AlcTypeOK, NEW k \in Kexts
  PROVE  /\ \A m \in DOMAIN ControllerMod : ControllerPatches(m, k) \in SUBSET AppliedPatch
         /\ \A m \in DOMAIN CodecMod : CodecPatches(m, k) \in SUBSET AppliedPatch
         /\ LogPatch(k) \in SUBSET AppliedPatch
<1>1. \A m \in DOMAIN ControllerMod : Applicable(ControllerMod[m].patches, k) \subseteq Nat /\ m \in Nat
  <2> SUFFICES ASSUME NEW m \in DOMAIN ControllerMod
               PROVE  Applicable(ControllerMod[m].patches, k) \subseteq Nat /\ m \in Nat
    OBVIOUS
  <2>1. m \in Nat /\ ControllerMod[m].patches \in Seq(KextPatch)
    <3>1. m \in Nat /\ ControllerMod[m] \in ControllerModInfo
      OBVIOUS
    <3> QED
      BY <3>1 DEF ControllerModInfo
  <2> QED
    BY <2>1 DEF Applicable
<1>2. \A m \in DOMAIN CodecMod : Applicable(CodecMod[m].patches, k) \subseteq Nat /\ m \in Nat
  <2> SUFFICES ASSUME NEW m \in DOMAIN CodecMod
               PROVE  Applicable(CodecMod[m].patches, k) \subseteq Nat /\ m \in Nat
    OBVIOUS
  <2>1. m \in Nat /\ CodecMod[m].patches \in Seq(KextPatch)
    <3>1. m \in Nat /\ CodecMod[m] \in CodecModInfo
      OBVIOUS
    <3> QED
      BY <3>1 DEF CodecModInfo
  <2> QED
    BY <2>1 DEF Applicable
<1>3. \A s \in Slots : nvidiaFind[s] \in Nat
  BY DEF AlcTypeOK
<1>4. \A m \in DOMAIN ControllerMod : ControllerPatches(m, k) \in SUBSET AppliedPatch
  <2> SUFFICES ASSUME NEW m \in DOMAIN ControllerMod, NEW p \in Applicable(ControllerMod[m].patches, k)
               PROVE  [table |-> "controller", mod |-> m, patch |-> p,
                       find |-> IF <<m, p>> \in Slots THEN nvidiaFind[<<m, p>>] ELSE 0] \in AppliedPatch
    BY Zenon DEF ControllerPatches
  <2> DEFINE find == IF <<m, p>> \in Slots THEN nvidiaFind[<<m, p>>] ELSE 0
  <2>1. find \in Nat /\ m \in Nat /\ p \in Nat
    BY <1>1, <1>3
  <2> HIDE DEF find
  <2>2. [table |-> "controller", mod |-> m, patch |-> p, find |-> find] \in AppliedPatch
    BY <2>1 DEF AppliedPatch
  <2> QED
    BY <2>2 DEF find
<1>5. \A m \in DOMAIN CodecMod : CodecPatches(m, k) \in SUBSET AppliedPatch
  BY <1>2 DEF CodecPatches, AppliedPatch
<1>6. LogPatch(k) \in SUBSET AppliedPatch
  BY DEF LogPatch, AppliedPatch
<1> QED
  BY <1>4, <1>5, <1>6

LEMMA LoadTyped ==
  ASSUME AlcTypeOK, NEW k \in Kexts, NEW loaded \in BOOLEAN,
         image' = [image EXCEPT ![k] = [loaded |-> loaded, patches |-> {}, routed |-> {}]]
  PROVE  /\ image' \in [Kexts -> LoadedKext]
         /\ \A x \in Kexts : image'[x].patches # {} \/ image'[x].routed # {} => image'[x].loaded
         /\ image'[k].loaded = loaded /\ image'[k].patches = {} /\ image'[k].routed = {}
         /\ \A x \in Kexts \ {k} : image'[x] = image[x]
BY DEF AlcTypeOK, LoadedKext

LEMMA PatchTyped ==
  ASSUME AlcTypeOK, kext \in Kexts, image[kext].loaded, NEW new \in SUBSET AppliedPatch,
         image' = [image EXCEPT ![kext].patches = @ \cup new]
  PROVE  /\ image' \in [Kexts -> LoadedKext]
         /\ \A x \in Kexts : image'[x].patches # {} \/ image'[x].routed # {} => image'[x].loaded
         /\ image'[kext].loaded /\ image'[kext].patches = image[kext].patches \cup new
         /\ image'[kext].routed = image[kext].routed
         /\ \A x \in Kexts \ {kext} : image'[x] = image[x]
<1>1. image[kext] \in LoadedKext /\ \A x \in Kexts : image[x] \in LoadedKext
  BY DEF AlcTypeOK
<1> DEFINE e == [image[kext] EXCEPT !.patches = @ \cup new]
<1>2. e \in LoadedKext /\ e.loaded /\ e.patches = image[kext].patches \cup new /\ e.routed = image[kext].routed
  BY <1>1 DEF LoadedKext
<1>3. /\ image \in [Kexts -> LoadedKext] /\ image' = [image EXCEPT ![kext] = e]
      /\ \A x \in Kexts : image[x].patches # {} \/ image[x].routed # {} => image[x].loaded
  BY DEF AlcTypeOK
<1>4. kext \in Kexts
  OBVIOUS
<1> HIDE DEF e
<1>5. image' \in [Kexts -> LoadedKext] /\ image'[kext] = e /\ \A x \in Kexts \ {kext} : image'[x] = image[x]
  BY ONLY <1>2, <1>3, <1>4
<1>6. \A x \in Kexts : image'[x].patches # {} \/ image'[x].routed # {} => image'[x].loaded
  BY ONLY <1>2, <1>3, <1>5
<1> QED
  BY ONLY <1>2, <1>5, <1>6

\* Every variable keeps its type through the whole pipeline.
LEMMA AlcTypeStep == TypeInv /\ Detected /\ CodecsFound /\ [AlcNext]_vars => AlcTypeOK'
<1> SUFFICES ASSUME TypeInv, Detected, CodecsFound, [AlcNext]_vars PROVE AlcTypeOK'
  OBVIOUS
<1> USE DEF TypeInv
<1>1. PropTypeOK /\ controllers \in Seq(ControllerInfo)
  BY DEF AlcTypeOK, PropTypeOK
<1>2. CASE UNCHANGED vars
  <2>1. PropTypeOK'
    BY <1>1, <1>2, PropKept DEF vars
  <2> QED
    BY <1>2, <2>1 DEF AlcTypeOK, vars, alcVars, loopVars, propVars
<1>3. CASE UpdateProperties /\ UNCHANGED alcVars
  <2>1. PropTypeOK' /\ machine' = machine /\ phase # "done"
    BY <1>1, <1>3, PropTypeStep, UpdateControllers DEF Next
  <2>2. codecs' = <<>> /\ DOMAIN codecs' = {}
    BY <1>3, <2>1 DEF Control, CodecsFound, alcVars
  <2>3. DOMAIN machine.codecNodes = DOMAIN machine'.codecNodes
    BY <2>1
  <2>4. /\ progressState' = progressState /\ nvidiaFind' = nvidiaFind /\ currentFree' = currentFree
        /\ image' = image /\ nodes' = nodes /\ pc' = pc /\ kext' = kext /\ i' = i /\ j' = j
        /\ brute' = brute /\ found' = found /\ resource' = resource /\ codecs' = codecs
    BY <1>3 DEF alcVars, loopVars
  <2>5. nodes' \in [DOMAIN machine'.codecNodes -> {"absent", "vendor", "complete"}]
    BY <2>1, <2>4 DEF AlcTypeOK
  <2>6. \A n \in DOMAIN codecs' : codecs'[n].controller \in DOMAIN controllers'
    BY <2>2
  <2>7. /\ \A k \in Kexts : image'[k].patches # {} \/ image'[k].routed # {} => image'[k].loaded
        /\ codecs' \in Seq(CodecInfo)
    BY <2>4 DEF AlcTypeOK
  <2>8. /\ i' \in Nat /\ j' \in Nat /\ brute' \in 0 .. BruteMax /\ found' \in BOOLEAN
        /\ pc' \in {"idle", "codecs", "validate", "controllers", "finish"}
        /\ kext' \in Kexts \cup {"none"} /\ resource' \in [ResourceTypes -> Nat]
        /\ image' \in [Kexts -> LoadedKext]
    BY <2>4 DEF AlcTypeOK
  <2>9. /\ nvidiaFind' \in [Slots -> 0 .. Len(NvidiaIds)] /\ currentFree' \in 1 .. Len(NvidiaIds) + 1
        /\ progressState' \subseteq ProgressBits
    BY <2>4 DEF AlcTypeOK
  <2> QED
    BY <2>1, <2>5, <2>6, <2>7, <2>8, <2>9 DEF AlcTypeOK
<1>4. CASE LoadGfx
  <2>1. PropTypeOK'
    BY <1>1, <1>4, PropKept DEF LoadGfx
  <2>2. /\ image' \in [Kexts -> LoadedKext]
        /\ \A k \in Kexts : image'[k].patches # {} \/ image'[k].routed # {} => image'[k].loaded
    BY <1>4 DEF LoadGfx, AlcTypeOK, LoadedKext, Kexts
  <2> QED
    BY <1>4, <2>1, <2>2 DEF LoadGfx, AlcTypeOK, loopVars, propVars
<1>5. ASSUME NEW k \in Kexts, LoadFirst(k) PROVE AlcTypeOK'
  <2>1. GrabControllers \in Seq(ControllerInfo) /\ codecs = <<>>
    BY <1>1, <1>5, GrabbedControllers DEF LoadFirst, CodecsFound
  <2>2. PropTypeOK'
    BY <1>1, <1>5, <2>1 DEF LoadFirst, PropTypeOK, devices
  <2>3. /\ image' \in [Kexts -> LoadedKext]
        /\ \A x \in Kexts : image'[x].patches # {} \/ image'[x].routed # {} => image'[x].loaded
    BY <1>5, LoadTyped DEF LoadFirst, LoadImage
  <2> QED
    BY <1>5, <2>1, <2>2, <2>3 DEF LoadFirst, AlcTypeOK, ProgressBits
<1>6. ASSUME NEW k \in Kexts, LoadDetect(k) \/ LoadOther(k) PROVE AlcTypeOK'
  <2>1. PropTypeOK' /\ 0 \in 0 .. BruteMax
    BY <1>1, <1>6, PropKept DEF LoadDetect, LoadOther
  <2>2. /\ image' \in [Kexts -> LoadedKext]
        /\ \A x \in Kexts : image'[x].patches # {} \/ image'[x].routed # {} => image'[x].loaded
    BY <1>6, LoadTyped DEF LoadDetect, LoadOther, LoadImage
  <2>3. found' \in BOOLEAN
    <3>1. found' = FALSE \/ found' = found
      BY <1>6 DEF LoadDetect, LoadOther
    <3> QED
      BY <3>1, Zenon DEF AlcTypeOK
  <2>4. i' \in Nat /\ j' \in Nat /\ brute' \in 0 .. BruteMax
    <3>1. i' = 1 /\ (j' = j \/ j' = 1) /\ (brute' = 0 \/ brute' = brute)
      BY <1>6 DEF LoadDetect, LoadOther
    <3>2. j \in Nat /\ brute \in 0 .. BruteMax
      BY DEF AlcTypeOK
    <3> QED
      BY ONLY <2>1, <3>1, <3>2
  <2>5. /\ UNCHANGED <<progressState, codecs, nvidiaFind, currentFree, nodes, resource>>
        /\ controllers' = controllers /\ machine' = machine /\ kext' = k
        /\ pc' = "codecs" \/ pc' = "controllers"
    BY <1>6 DEF LoadDetect, LoadOther, propVars
  <2> QED
    BY <2>1, <2>2, <2>3, <2>4, <2>5 DEF AlcTypeOK
<1>7. ASSUME NEW k \in Kexts, Unload(k) PROVE AlcTypeOK'
  <2>1. PropTypeOK'
    BY <1>1, <1>7, PropKept DEF Unload
  <2>2. /\ image' \in [Kexts -> LoadedKext]
        /\ \A x \in Kexts : image'[x].patches # {} \/ image'[x].routed # {} => image'[x].loaded
    BY <1>7, LoadTyped DEF Unload
  <2> QED
    BY <1>7, <2>1, <2>2 DEF Unload, AlcTypeOK, propVars, loopVars
<1>8. CASE LookForCodec
  <2>1. PropTypeOK'
    BY <1>1, <1>8, PropKept DEF LookForCodec
  <2>2. codecs' \in Seq(CodecInfo) /\ \A n \in DOMAIN codecs' : codecs'[n].controller \in DOMAIN controllers
    <3>1. codecs \in Seq(CodecInfo) /\ \A n \in DOMAIN codecs : codecs[n].controller \in DOMAIN controllers
      BY DEF AlcTypeOK
    <3>2. CASE codecs' = codecs
      BY <3>1, <3>2
    <3>3. CASE codecs' # codecs
      <4> DEFINE m == LeastOrZero(Seen)
      <4>1. m # 0 /\ codecs' = Append(codecs, NewCodec(m))
        BY <1>8, <3>3 DEF LookForCodec
      <4>2. m \in DOMAIN machine.codecNodes
        BY <4>1, LeastOrZeroIn DEF Seen, AlcTypeOK
      <4>3. machine.codecNodes[m] \in CodecNode
        BY <1>1, <4>2, MachineTyped
      <4>4. i \in DOMAIN controllers /\ i \in Nat
        BY <1>1, <1>8 DEF LookForCodec, Searching, Control, AlcTypeOK
      <4> HIDE DEF m
      <4>5. NewCodec(m) \in CodecInfo /\ NewCodec(m).controller = i
        BY <4>3, <4>4 DEF NewCodec, CodecInfo, CodecNode
      <4> HIDE DEF NewCodec
      <4> QED
        BY <3>1, <4>1, <4>4, <4>5, AppendMembers
    <3> QED
      BY <3>2, <3>3
  <2>3. brute' \in 0 .. BruteMax /\ found' \in BOOLEAN
    BY <1>8 DEF LookForCodec, AlcTypeOK, Complete
  <2> QED
    BY <1>8, <2>1, <2>2, <2>3 DEF LookForCodec, AlcTypeOK, propVars
<1>9. CASE NextController \/ StartValidation
  <2>1. PropTypeOK' /\ 0 \in 0 .. BruteMax
    BY <1>1, <1>9, PropKept DEF NextController, StartValidation
  <2>2. i' \in Nat /\ j' \in Nat /\ brute' \in 0 .. BruteMax /\ found' \in BOOLEAN
    <3>1. i \in Nat /\ j \in Nat /\ brute \in 0 .. BruteMax /\ found \in BOOLEAN
      BY DEF AlcTypeOK
    <3>2. /\ i' = i + 1 \/ i' = i
          /\ j' = 1 \/ j' = j
          /\ brute' = 0 \/ brute' = brute
          /\ found' = FALSE \/ found' = found
      BY <1>9 DEF NextController, StartValidation
    <3>3. i' \in Nat
      BY <3>1, <3>2
    <3>4. j' \in Nat
      BY <3>1, <3>2
    <3>5. brute' \in 0 .. BruteMax
      BY <2>1, <3>1, <3>2
    <3>6. found' \in BOOLEAN
      BY <3>1, <3>2, Zenon
    <3> QED
      BY <3>3, <3>4, <3>5, <3>6
  <2>3. /\ UNCHANGED <<progressState, codecs, nvidiaFind, currentFree, image, nodes, kext, resource>>
        /\ controllers' = controllers /\ machine' = machine
        /\ pc' = pc \/ pc' = "validate"
    BY <1>9 DEF NextController, StartValidation, propVars
  <2> QED
    BY <2>1, <2>2, <2>3 DEF AlcTypeOK
<1>10. CASE KeepCodec
  <2>1. PropTypeOK'
    BY <1>1, <1>10, PropKept DEF KeepCodec
  <2>2. codecs' \in Seq(CodecInfo) /\ \A n \in DOMAIN codecs' : codecs'[n].controller \in DOMAIN controllers
    <3>1. codecs \in Seq(CodecInfo) /\ \A n \in DOMAIN codecs : codecs[n].controller \in DOMAIN controllers
      BY DEF AlcTypeOK
    <3>2. j \in DOMAIN codecs /\ codecs[j] \in CodecInfo
      BY <1>10, <3>1 DEF KeepCodec, Control, AlcTypeOK
    <3> DEFINE e == [codecs[j] EXCEPT !.info = CodecEntry(codecs[j])]
    <3>3. e \in CodecInfo /\ e.controller = codecs[j].controller
      <4>1. CodecEntry(codecs[j]) \in 0 .. Len(CodecMod)
        BY CodecEntryTyped
      <4> QED
        BY <3>2, <4>1 DEF CodecInfo
    <3>4. codecs' = [codecs EXCEPT ![j] = e]
      BY <1>10 DEF KeepCodec
    <3> HIDE DEF e
    <3> QED
      BY <3>1, <3>2, <3>3, <3>4
  <2>3. /\ UNCHANGED <<progressState, nvidiaFind, currentFree, image, nodes, pc, kext, i, brute, found, resource>>
        /\ controllers' = controllers /\ machine' = machine /\ j' = j + 1
    BY <1>10 DEF KeepCodec, propVars
  <2>4. j' \in Nat
    BY <2>3 DEF AlcTypeOK
  <2> QED
    BY ONLY AlcTypeOK, <2>1, <2>2, <2>3, <2>4 DEF AlcTypeOK
<1>11. CASE EraseCodec
  <2>1. PropTypeOK'
    BY <1>1, <1>11, PropKept DEF EraseCodec
  <2>2. codecs \in Seq(CodecInfo) /\ Len(codecs) <= 1 /\ Len(codecs) \in Nat /\ j >= 1 /\ j \in Nat
    BY <1>11 DEF EraseCodec, Control, CodecsFound, AlcTypeOK
  <2>3. Len(codecs) = 1
    <3>1. j <= Len(codecs)
      BY <1>11 DEF EraseCodec
    <3>2. \A a, b \in Nat : b >= 1 /\ b <= a /\ a <= 1 => a = 1
      OBVIOUS
    <3> QED
      BY <2>2, <3>1, <3>2, Zenon
  <2>4. codecs' = <<>>
    BY <1>11, <2>2, <2>3 DEF EraseCodec, Erase
  <2> QED
    BY <1>11, <2>1, <2>4 DEF EraseCodec, AlcTypeOK, propVars, loopVars
<1>12. CASE CodecsValidated
  <2>1. PropTypeOK'
    BY <1>1, <1>12, PropKept DEF CodecsValidated
  <2> QED
    BY <1>12, <2>1 DEF CodecsValidated, AlcTypeOK, propVars, ProgressBits
<1>13. CASE ChooseId
  <2>0. PICK n \in DOMAIN NvidiaIds :
          /\ nvidiaFind' = [nvidiaFind EXCEPT ![<<controllers[i].info, j>>] = n]
          /\ nvidiaDeviceIdUsage' = [nvidiaDeviceIdUsage EXCEPT ![n] = TRUE]
          /\ currentFree' = n + 1
    BY <1>13 DEF ChooseId
  <2>1. PropTypeOK'
    <3>1. nvidiaDeviceIdUsage' \in [DOMAIN NvidiaIds -> BOOLEAN]
      BY <1>1, <2>0 DEF PropTypeOK
    <3> QED
      BY <1>1, <1>13, <3>1 DEF ChooseId, PropTypeOK, devices
  <2>2. nvidiaFind' \in [Slots -> 0 .. Len(NvidiaIds)] /\ currentFree' \in 1 .. Len(NvidiaIds) + 1
    <3>1. n \in Nat /\ 1 <= n /\ n <= Len(NvidiaIds) /\ Len(NvidiaIds) \in Nat
      OBVIOUS
    <3>2. n \in 0 .. Len(NvidiaIds) /\ n + 1 \in 1 .. Len(NvidiaIds) + 1
      BY <3>1
    <3>3. nvidiaFind \in [Slots -> 0 .. Len(NvidiaIds)]
      BY DEF AlcTypeOK
    <3> QED
      BY <2>0, <3>2, <3>3
  <2>3. j' \in Nat
    BY <1>13 DEF ChooseId, AlcTypeOK
  <2> QED
    BY <1>13, <2>1, <2>2, <2>3 DEF ChooseId, AlcTypeOK
<1>14. CASE NoIdLeft \/ NotPlaceholder
  <2>1. PropTypeOK'
    BY <1>1, <1>14, PropKept DEF NoIdLeft, NotPlaceholder
  <2>2. /\ UNCHANGED <<progressState, codecs, nvidiaFind, image, nodes, pc, kext, i, brute, found, resource>>
        /\ controllers' = controllers /\ machine' = machine /\ j' = j + 1
        /\ currentFree' = currentFree \/ currentFree' = Len(NvidiaIds) + 1
    BY <1>14 DEF NoIdLeft, NotPlaceholder, propVars
  <2>3. j' \in Nat /\ currentFree' \in 1 .. Len(NvidiaIds) + 1
    <3>1. Len(NvidiaIds) \in Nat
      OBVIOUS
    <3> QED
      BY <2>2, <3>1 DEF AlcTypeOK
  <2> QED
    BY ONLY AlcTypeOK, <2>1, <2>2, <2>3 DEF AlcTypeOK
<1>15. CASE PatchController
  <2>1. PropTypeOK'
    BY <1>1, <1>15, PropKept DEF PatchController
  <2>2. i \in DOMAIN controllers /\ kext \in Kexts /\ image[kext].loaded
    BY <1>1, <1>15 DEF PatchController, Patching, Control, AlcTypeOK
  <2>3. PatchesFor(controllers[i]) \in SUBSET AppliedPatch
    <3>1. controllers[i].info \in 0 .. Len(ControllerMod)
      BY <2>2 DEF Detected
    <3>2. controllers[i].info # 0 => controllers[i].info \in DOMAIN ControllerMod
      BY <3>1
    <3> QED
      BY <2>2, <3>2, PatchesTyped DEF PatchesFor
  <2>4. /\ image' \in [Kexts -> LoadedKext]
        /\ \A x \in Kexts : image'[x].patches # {} \/ image'[x].routed # {} => image'[x].loaded
    BY <1>15, <2>2, <2>3, PatchTyped DEF PatchController
  <2> QED
    BY <1>15, <2>1, <2>4 DEF PatchController, AlcTypeOK, propVars
<1>16. CASE ControllersPatched
  <2>1. PropTypeOK'
    BY <1>1, <1>16, PropKept DEF ControllersPatched
  <2>2. kext \in Kexts /\ image[kext].loaded
    BY <1>16 DEF ControllersPatched, Control, AlcTypeOK
  <2>3. /\ image' \in [Kexts -> LoadedKext]
        /\ \A x \in Kexts : image'[x].patches # {} \/ image'[x].routed # {} => image'[x].loaded
    BY <1>16, <2>2, PatchesTyped, PatchTyped DEF ControllersPatched
  <2> QED
    BY <1>16, <2>1, <2>3 DEF ControllersPatched, AlcTypeOK, propVars
<1>17. CASE FinishKext
  <2>1. PropTypeOK'
    BY <1>1, <1>17, PropKept DEF FinishKext
  <2>2. kext \in Kexts /\ image[kext].loaded
    BY <1>17 DEF FinishKext, Control, AlcTypeOK
  <2>3. AllCodecPatches \in SUBSET AppliedPatch
    <3>1. ASSUME NEW n \in DOMAIN codecs PROVE CodecPatches(codecs[n].info, kext) \in SUBSET AppliedPatch
      <4>1. codecs[n] \in CodecInfo /\ codecs[n].info # 0
        BY <1>17 DEF FinishKext, CodecsFound, Entered, AlcTypeOK
      <4>2. codecs[n].info \in DOMAIN CodecMod
        BY <4>1 DEF CodecInfo
      <4> QED
        BY <2>2, <4>2, PatchesTyped
    <3> QED
      BY <3>1 DEF AllCodecPatches
  <2>4. Requests \in SUBSET (Callbacks \cup {"executeVerb", "start", "probe"})
    BY DEF Requests
  <2>5. PICK routed \in SUBSET Requests :
          image' = [image EXCEPT ![kext].patches = @ \cup AllCodecPatches, ![kext].routed = routed]
    BY <1>17 DEF FinishKext
  <2>6. /\ image' \in [Kexts -> LoadedKext]
        /\ \A x \in Kexts : image'[x].patches # {} \/ image'[x].routed # {} => image'[x].loaded
    <3> DEFINE e == [image[kext] EXCEPT !.patches = @ \cup AllCodecPatches, !.routed = routed]
    <3>1. image[kext] \in LoadedKext /\ image \in [Kexts -> LoadedKext]
      BY <2>2 DEF AlcTypeOK
    <3>2. e \in LoadedKext /\ e.loaded
      BY <2>2, <2>3, <2>4, <3>1 DEF LoadedKext
    <3>3. image' = [image EXCEPT ![kext] = e]
      BY <2>2, <2>5, <3>1 DEF LoadedKext
    <3> HIDE DEF e
    <3> QED
      BY <2>2, <3>1, <3>2, <3>3 DEF AlcTypeOK
  <2>7. progressState' \subseteq ProgressBits
    BY <1>17 DEF FinishKext, NewBits, ProgressBits, AlcTypeOK
  <2> QED
    BY <1>17, <2>1, <2>6, <2>7 DEF FinishKext, AlcTypeOK, propVars
<1>18. ASSUME NEW n \in DOMAIN nodes, PublishVendor(n) \/ PublishRevision(n) PROVE AlcTypeOK'
  <2>1. PropTypeOK'
    BY <1>1, <1>18, PropKept DEF PublishVendor, PublishRevision
  <2> QED
    BY <1>18, <2>1 DEF PublishVendor, PublishRevision, AlcTypeOK, propVars, loopVars
<1>19. ASSUME NEW type \in ResourceTypes, RequestResource(type) PROVE AlcTypeOK'
  <2>1. PropTypeOK'
    BY <1>1, <1>19, PropKept DEF RequestResource
  <2>2. UpdateResource(type) \in Nat
    <3> DEFINE hits == {n \in DOMAIN codecs : codecs[n].info # 0 /\ FileFor(codecs[n], type) # 0}
               last == CHOOSE n \in hits : \A k \in hits : k <= n
    <3>1. CASE hits = {}
      BY <3>1 DEF UpdateResource
    <3>2. CASE hits # {}
      <4>1. \A n \in hits : n = 1
        BY DEF CodecsFound, AlcTypeOK
      <4>2. 1 \in hits /\ \A k \in hits : k <= 1
        BY <3>2, <4>1
      <4>3. last \in hits
        BY <4>2
      <4>4. codecs[last].info \in DOMAIN CodecMod
        <5>1. codecs[last] \in CodecInfo /\ codecs[last].info # 0
          BY <4>3 DEF AlcTypeOK
        <5> QED
          BY <5>1 DEF CodecInfo
      <4>5. DOMAIN Files(codecs[last].info, type) \subseteq Nat
        <5>1. CodecMod[codecs[last].info] \in CodecModInfo
          BY <4>4
        <5> HIDE DEF last
        <5>2. Files(codecs[last].info, type) \in Seq(ResourceFile)
          BY <5>1 DEF Files, CodecModInfo
        <5> QED
          BY <5>2
      <4>6. FileFor(codecs[last], type) \in Nat
        <5> HIDE DEF last
        <5>1. FileFor(codecs[last], type) = 0
                \/ FileFor(codecs[last], type) \in DOMAIN Files(codecs[last].info, type)
          BY LeastOrZeroIn DEF FileFor
        <5> QED
          BY <4>5, <5>1
      <4> QED
        BY <3>2, <4>6 DEF UpdateResource
    <3> QED
      BY <3>1, <3>2
  <2> QED
    BY <1>19, <2>1, <2>2 DEF RequestResource, AlcTypeOK, propVars, loopVars
<1> QED
  BY <1>2, <1>3, <1>4, <1>5, <1>6, <1>7, <1>8, <1>9, <1>10, <1>11, <1>12, <1>13, <1>14, <1>15, <1>16, <1>17,
     <1>18, <1>19 DEF AlcNext, ProcessKext

\* Loading, patching and reloading keep to the order of processKext.
LEMMA ControlStep == TypeInv /\ [AlcNext]_vars => Control'
<1> SUFFICES ASSUME TypeInv, [AlcNext]_vars PROVE Control'
  OBVIOUS
<1> USE DEF TypeInv
<1>1. PropTypeOK /\ controllers \in Seq(ControllerInfo) /\ image \in [Kexts -> LoadedKext]
  BY DEF AlcTypeOK, PropTypeOK
<1>2. CASE UNCHANGED vars
  BY <1>2 DEF Control, vars, alcVars, loopVars, propVars
<1>3. CASE UpdateProperties /\ UNCHANGED alcVars
  <2>1. phase # "done"
    BY <1>1, <1>3, UpdateControllers
  <2> QED
    BY <1>3, <2>1 DEF Control, alcVars, loopVars
<1>4. CASE LoadGfx
  <2>1. phase' = "done" /\ pc = "idle" /\ \A k \in Kexts \ {"AppleGFXHDA"} : image'[k] = image[k]
    BY <1>1, <1>4 DEF LoadGfx, KextArrives, propVars, Kexts
  <2> QED
    BY <1>4, <2>1 DEF LoadGfx, Control, loopVars
<1>5. ASSUME NEW k \in Kexts, LoadFirst(k) PROVE Control'
  <2>1. phase' = "done" /\ phase = "done"
    BY <1>5 DEF LoadFirst, KextArrives
  <2>2. image'[k].loaded
    BY <1>5, LoadTyped DEF LoadFirst, LoadImage
  <2> QED
    BY <1>5, <2>1, <2>2 DEF LoadFirst, Control, Kexts
<1>6. ASSUME NEW k \in Kexts, LoadDetect(k) \/ LoadOther(k) PROVE Control'
  <2>1. phase' = "done" /\ phase = "done"
    BY <1>6 DEF LoadDetect, LoadOther, KextArrives, propVars
  <2>2. image'[k].loaded
    BY <1>6, LoadTyped DEF LoadDetect, LoadOther, LoadImage
  <2> QED
    BY <1>6, <2>1, <2>2 DEF LoadDetect, LoadOther, Control, WantsCodecs, Detect, Kexts
<1>7. ASSUME NEW k \in Kexts, Unload(k) PROVE Control'
  <2>1. /\ ~image'[k].loaded /\ \A x \in Kexts \ {k} : image'[x] = image[x]
    BY <1>7, LoadTyped DEF Unload
  <2>2. pc = "idle" /\ UNCHANGED <<phase, progressState, pc, kext>>
    BY <1>7 DEF Unload, propVars, loopVars
  <2>3. \A x \in Kexts : image'[x].loaded => image[x].loaded
    BY <2>1
  <2> QED
    BY <2>2, <2>3 DEF Control
<1>8. CASE LookForCodec \/ NextController \/ StartValidation \/ KeepCodec
  <2>1. /\ UNCHANGED <<phase, progressState, image, kext>> /\ pc # "idle"
        /\ i' = i \/ i' = i + 1
        /\ \/ pc = "codecs" /\ pc' = pc
           \/ pc = "codecs" /\ pc' = "validate" /\ j' = 1
           \/ pc = "validate" /\ pc' = pc /\ j' = j + 1
    BY <1>8 DEF LookForCodec, NextController, StartValidation, KeepCodec, Searching, propVars
  <2> QED
    BY <2>1 DEF Control, AlcTypeOK
<1>9. CASE EraseCodec
  BY <1>9 DEF EraseCodec, Control, loopVars, propVars
<1>10. CASE CodecsValidated
  BY <1>10 DEF CodecsValidated, Control, propVars
<1>11. CASE ChooseId \/ NoIdLeft \/ NotPlaceholder
  <2>1. /\ UNCHANGED <<phase, progressState, image, kext, pc, i>> /\ pc = "controllers" /\ j' = j + 1
    BY <1>11 DEF ChooseId, NoIdLeft, NotPlaceholder, IdsPending, Patching, propVars
  <2> QED
    BY <2>1 DEF Control, AlcTypeOK
<1>12. CASE PatchController \/ ControllersPatched
  <2>1. \E new : image' = [image EXCEPT ![kext].patches = @ \cup new]
    BY <1>12 DEF PatchController, ControllersPatched
  <2>2. /\ UNCHANGED <<phase, progressState, kext>> /\ pc = "controllers"
        /\ (pc' = pc /\ i' = i + 1 /\ j' = 1) \/ pc' = "finish"
    BY <1>12 DEF PatchController, ControllersPatched, Patching, propVars
  <2>3. \A x \in Kexts : image'[x].loaded = image[x].loaded
    BY <1>1, <2>1 DEF LoadedKext
  <2>4. kext \in Kexts /\ i \in Nat /\ phase = "done"
    BY <2>2 DEF Control, AlcTypeOK
  <2> QED
    BY <2>2, <2>3, <2>4 DEF Control, AlcTypeOK
<1>13. CASE FinishKext
  <2>1. \A x \in Kexts : image'[x].loaded = image[x].loaded
    <3>1. \E new, routed : image' = [image EXCEPT ![kext].patches = @ \cup new, ![kext].routed = routed]
      BY <1>13 DEF FinishKext
    <3> QED
      BY <1>1, <3>1 DEF LoadedKext
  <2>2. pc = "finish" /\ pc' = "idle" /\ kext' = "none" /\ phase' = phase /\ progressState \subseteq progressState'
    BY <1>13 DEF FinishKext, propVars
  <2>3. phase = "done"
    BY <2>2 DEF Control
  <2> QED
    BY <2>1, <2>2, <2>3 DEF Control
<1>14. ASSUME NEW n \in DOMAIN nodes, PublishVendor(n) \/ PublishRevision(n) PROVE Control'
  BY <1>14 DEF PublishVendor, PublishRevision, Control, propVars, loopVars
<1>15. ASSUME NEW type \in ResourceTypes, RequestResource(type) PROVE Control'
  BY <1>15 DEF RequestResource, Control, propVars, loopVars
<1> QED
  BY <1>2, <1>3, <1>4, <1>5, <1>6, <1>7, <1>8, <1>9, <1>10, <1>11, <1>12, <1>13, <1>14, <1>15
  DEF AlcNext, ProcessKext

-----------------------------------------------------------------------------
(* Detection.                                                                 *)

\* Only the device pass and the first kext touch the list of controllers.
LEMMA ControllersStep ==
  ASSUME TypeInv, [AlcNext]_vars
  PROVE  \/ UpdateProperties /\ UNCHANGED alcVars
         \/ \E k \in Kexts : LoadFirst(k)
         \/ UNCHANGED <<controllers, hdef, machine, phase>> /\ progressState \subseteq progressState'
<1> DEFINE Same == UNCHANGED <<controllers, hdef, machine, phase>> /\ progressState \subseteq progressState'
<1>1. UNCHANGED vars => Same
  BY DEF vars, propVars, alcVars, devices
<1>2. LoadGfx => Same
  BY DEF LoadGfx, propVars, devices
<1>3. \A k \in Kexts : LoadDetect(k) \/ LoadOther(k) \/ Unload(k) => Same
  BY DEF LoadDetect, LoadOther, Unload, propVars, devices
<1>4. LookForCodec \/ NextController \/ StartValidation \/ KeepCodec \/ EraseCodec \/ CodecsValidated => Same
  BY DEF LookForCodec, NextController, StartValidation, KeepCodec, EraseCodec, CodecsValidated, propVars, devices
<1>5. ChooseId => Same
  BY DEF ChooseId, devices
<1>6. NoIdLeft \/ NotPlaceholder \/ PatchController \/ ControllersPatched \/ FinishKext => Same
  BY DEF NoIdLeft, NotPlaceholder, PatchController, ControllersPatched, FinishKext, propVars, devices
<1>7. \A n \in DOMAIN nodes : PublishVendor(n) \/ PublishRevision(n) => Same
  BY DEF PublishVendor, PublishRevision, propVars, devices
<1>8. \A type \in ResourceTypes : RequestResource(type) => Same
  BY DEF RequestResource, propVars, devices
<1> HIDE DEF Same
<1>9. \/ UpdateProperties /\ UNCHANGED alcVars
      \/ \E k \in Kexts : LoadFirst(k)
      \/ Same
  BY <1>1, <1>2, <1>3, <1>4, <1>5, <1>6, <1>7, <1>8 DEF AlcNext, ProcessKext
<1> QED
  BY <1>9 DEF Same

LEMMA DetectedStep == TypeInv /\ Detected /\ [AlcNext]_vars => Detected'
<1> SUFFICES ASSUME TypeInv, Detected, [AlcNext]_vars PROVE Detected'
  OBVIOUS
<1>1. PropTypeOK /\ controllers \in Seq(ControllerInfo)
  BY DEF TypeInv, AlcTypeOK, PropTypeOK
<1>2. CASE UpdateProperties /\ UNCHANGED alcVars
  <2>1. /\ phase # "done"
        /\ controllers' = controllers \/
             \E c \in ControllerInfo : c.info = 0 /\ ~c.detect /\ controllers' = Append(controllers, c)
    BY <1>1, <1>2, UpdateControllers
  <2>2. \A n \in DOMAIN controllers : ~controllers[n].detect
    BY <2>1 DEF Detected, TypeInv, Control
  <2>3. \A n \in DOMAIN controllers' :
          controllers'[n].info \in 0 .. Len(ControllerMod) /\ ~controllers'[n].detect
    <3>1. CASE controllers' = controllers
      BY <2>2, <3>1 DEF Detected
    <3>2. ASSUME NEW c \in ControllerInfo, c.info = 0, ~c.detect, controllers' = Append(controllers, c)
          PROVE  \A n \in DOMAIN controllers' :
                   controllers'[n].info \in 0 .. Len(ControllerMod) /\ ~controllers'[n].detect
      <4>1. c.info \in 0 .. Len(ControllerMod)
        BY <3>2
      <4> QED
        BY <1>1, <2>2, <3>2, <4>1, AppendMembers DEF Detected
    <3> QED
      BY <2>1, <3>1, <3>2
  <2> QED
    BY <2>3 DEF Detected
<1>3. ASSUME NEW k \in Kexts, LoadFirst(k) PROVE Detected'
  <2>1. controllers' = GrabControllers /\ "ControllersLoaded" \in progressState' /\ hdef' = hdef
        /\ "ControllersLoaded" \notin progressState
    BY <1>3 DEF LoadFirst, devices
  <2>2. \A n \in DOMAIN GrabControllers : GrabControllers[n].info \in 0 .. Len(ControllerMod)
    BY <1>1, GrabbedEntries
  <2>3. \A n \in DOMAIN controllers : ~GrabControllers[n].detect
    BY <1>1, <2>1, GrabbedControllers DEF Detected
  <2>4. \A n \in DOMAIN GrabControllers \ DOMAIN controllers :
          n = Len(GrabControllers) /\ GrabControllers[n].layout = hdef.alcLayout
    <3>1. \A a \in Nat : \A b \in {a, a + 1} : \A n \in (1 .. b) \ (1 .. a) : n = b
      OBVIOUS
    <3>2. Len(controllers) \in Nat /\ DOMAIN controllers = 1 .. Len(controllers)
          /\ DOMAIN GrabControllers = 1 .. Len(GrabControllers)
      BY <1>1, GrabbedControllers
    <3> QED
      BY <1>1, <3>1, <3>2, GrabbedControllers, Zenon
  <2> QED
    BY <2>1, <2>2, <2>3, <2>4 DEF Detected
<1>4. CASE UNCHANGED <<controllers, hdef, machine, phase>> /\ progressState \subseteq progressState'
  BY <1>4 DEF Detected
<1> QED
  BY <1>2, <1>3, <1>4, ControllersStep

\* An entry does not depend on what the entry was before.
LEMMA EntryOfKept ==
  ASSUME NEW c \in CodecInfo, NEW e \in 0 .. Len(CodecMod)
  PROVE  /\ [c EXCEPT !.info = e].info = e
         /\ [c EXCEPT !.info = e].controller = c.controller
         /\ [c EXCEPT !.info = e].vendor = c.vendor /\ [c EXCEPT !.info = e].codec = c.codec
         /\ [c EXCEPT !.info = e].revision = c.revision
         /\ CodecEntry([c EXCEPT !.info = e]) = CodecEntry(c)
<1>1. /\ [c EXCEPT !.info = e].info = e /\ [c EXCEPT !.info = e].controller = c.controller
      /\ [c EXCEPT !.info = e].vendor = c.vendor /\ [c EXCEPT !.info = e].codec = c.codec
      /\ [c EXCEPT !.info = e].revision = c.revision
  BY DEF CodecInfo
<1>2. CodecEntry([c EXCEPT !.info = e]) = CodecEntry(c)
  <2> DEFINE d == [c EXCEPT !.info = e]
  <2> SUFFICES CodecEntry(d) = CodecEntry(c)
    OBVIOUS
  <2>1. d.vendor = c.vendor /\ d.codec = c.codec /\ d.revision = c.revision
    BY <1>1
  <2> HIDE DEF d
  <2> QED
    BY <2>1, Zenon DEF CodecEntry
<1> QED
  BY <1>1, <1>2

\* A step that leaves the codecs and the search alone.
LEMMA CodecsKept ==
  ASSUME TypeInv, CodecsFound,
         codecs' = codecs, controllers' = controllers, machine' = machine,
         \A m \in DOMAIN nodes : nodes[m] = "complete" => nodes'[m] = "complete",
         "ControllersLoaded" \in progressState <=> "ControllersLoaded" \in progressState',
         "CodecsLoaded" \in progressState <=> "CodecsLoaded" \in progressState',
         \/ UNCHANGED <<pc, i, found, j>>
         \/ pc \notin {"codecs", "validate"} /\ pc' \notin {"codecs", "validate"}
  PROVE  CodecsFound'
<1>1. DOMAIN nodes = DOMAIN machine.codecNodes
  BY DEF TypeInv, AlcTypeOK
<1>2. \A n \in DOMAIN codecs : FromNode(codecs[n]) => FromNode(codecs[n])'
  BY <1>1 DEF FromNode
<1>3. \A n \in DOMAIN codecs : Entered(codecs[n]) => Entered(codecs[n])'
  BY DEF Entered
<1> QED
  BY <1>2, <1>3 DEF CodecsFound

LEMMA CodecsFoundStep == TypeInv /\ Detected /\ CodecsFound /\ [AlcNext]_vars => CodecsFound'
<1> SUFFICES ASSUME TypeInv, Detected, CodecsFound, [AlcNext]_vars PROVE CodecsFound'
  OBVIOUS
<1>1. /\ codecs \in Seq(CodecInfo) /\ controllers \in Seq(ControllerInfo)
      /\ \A n \in DOMAIN codecs : codecs[n].controller \in DOMAIN controllers
      /\ DOMAIN nodes = DOMAIN machine.codecNodes /\ i \in Nat /\ j \in Nat
  BY DEF TypeInv, AlcTypeOK, PropTypeOK
<1>2. ASSUME codecs' = <<>>, pc' \in {"idle", "codecs", "validate", "controllers", "finish"},
             pc' \in {"codecs", "validate"} \/ "CodecsLoaded" \notin progressState'
      PROVE  CodecsFound'
  <2>1. DOMAIN codecs' = {} /\ Len(codecs') = 0
    BY <1>2
  <2> QED
    BY <1>2, <2>1 DEF CodecsFound
<1>3. CASE UNCHANGED vars
  BY <1>3, CodecsKept DEF vars, alcVars, propVars, loopVars
<1>4. CASE UpdateProperties /\ UNCHANGED alcVars
  <2>1. phase # "done"
    BY <1>4, UpdateControllers DEF TypeInv, AlcTypeOK
  <2>2. progressState' = {} /\ codecs' = <<>> /\ pc' = pc /\ pc = "idle"
    BY <1>4, <2>1 DEF TypeInv, Control, CodecsFound, alcVars, loopVars
  <2> QED
    BY <1>2, <2>2
<1>5. CASE LoadGfx
  BY <1>5, CodecsKept DEF LoadGfx, propVars, loopVars
<1>6. ASSUME NEW k \in Kexts, LoadFirst(k) PROVE CodecsFound'
  <2>1. codecs' = <<>> /\ "CodecsLoaded" \notin progressState' /\ pc' = "controllers"
    BY <1>6 DEF LoadFirst, KextArrives, CodecsFound
  <2> QED
    BY <1>2, <2>1
<1>7. ASSUME NEW k \in Kexts, LoadDetect(k) PROVE CodecsFound'
  <2>1. codecs' = <<>> /\ pc' = "codecs"
    BY <1>7 DEF LoadDetect, KextArrives, WantsCodecs, CodecsFound
  <2> QED
    BY <1>2, <2>1
<1>8. ASSUME NEW k \in Kexts, LoadOther(k) \/ Unload(k) PROVE CodecsFound'
  BY <1>8, CodecsKept DEF LoadOther, Unload, KextArrives, propVars, loopVars
<1>9. CASE LookForCodec
  <2>1. /\ pc = "codecs" /\ pc' = pc /\ i' = i /\ i <= Len(controllers) /\ controllers[i].detect /\ ~found
        /\ UNCHANGED <<controllers, machine, nodes, progressState>>
    BY <1>9 DEF LookForCodec, Searching, propVars
  <2>2. i \in DOMAIN controllers /\ i = Len(controllers) /\ "ControllersLoaded" \in progressState
    BY <1>1, <2>1 DEF Detected, TypeInv, Control
  <2>3. codecs = <<>>
    <3> SUFFICES ASSUME codecs # <<>> PROVE FALSE
      OBVIOUS
    <3>1. 1 \in DOMAIN codecs
      BY <1>1
    <3>2. controllers[codecs[1].controller].detect /\ codecs[1].controller \in DOMAIN controllers
      BY <1>1, <3>1 DEF CodecsFound
    <3>3. codecs[1].controller = Len(controllers)
      BY <3>2 DEF Detected
    <3>4. codecs[1].controller < i
      BY <2>1, <3>1 DEF CodecsFound
    <3>5. ~(i < i)
      BY <1>1
    <3> QED
      BY <2>2, <3>3, <3>4, <3>5, Zenon
  <2> DEFINE m == LeastOrZero(Seen)
  <2>4. CASE codecs' = codecs
    BY <1>2, <2>1, <2>3, <2>4
  <2>5. CASE codecs' # codecs
    <3>1. /\ found' /\ m # 0 /\ Complete(m) /\ machine.codecNodes[m].valid
          /\ codecs' = Append(codecs, NewCodec(m))
      BY <1>9, <2>5 DEF LookForCodec
    <3>2. m \in DOMAIN machine.codecNodes
      BY <1>1, <3>1, LeastOrZeroIn DEF Seen
    <3> HIDE DEF m
    <3>3. codecs' = <<NewCodec(m)>>
      BY <2>3, <3>1
    <3>4. DOMAIN codecs' = {1} /\ Len(codecs') = 1 /\ codecs'[1] = NewCodec(m)
      BY <3>3
    <3>5. codecs'[1].controller = i
      BY <3>4 DEF NewCodec
    <3>6. FromNode(codecs[1])'
      BY <2>1, <3>1, <3>2, <3>4 DEF FromNode, NewCodec, Complete
    <3> QED
      BY <2>1, <2>2, <3>1, <3>4, <3>5, <3>6 DEF CodecsFound
  <2> QED
    BY <2>4, <2>5
<1>10. CASE NextController
  <2>1. /\ pc = "codecs" /\ pc' = pc /\ i' = i + 1
        /\ UNCHANGED <<codecs, controllers, machine, nodes, progressState>>
    BY <1>10 DEF NextController, Searching, propVars
  <2>2. \A n \in DOMAIN codecs : codecs[n].controller < i'
    <3>1. \A n \in DOMAIN codecs : codecs[n].controller \in Nat
      BY <1>1
    <3> QED
      BY <1>1, <2>1, <3>1 DEF CodecsFound
  <2>3. \A n \in DOMAIN codecs : FromNode(codecs[n]) => FromNode(codecs[n])'
    BY <2>1 DEF FromNode
  <2> QED
    BY <2>1, <2>2, <2>3 DEF CodecsFound
<1>11. CASE StartValidation
  <2>1. /\ pc = "codecs" /\ pc' = "validate" /\ j' = 1
        /\ UNCHANGED <<codecs, controllers, machine, nodes, progressState>>
    BY <1>11 DEF StartValidation, propVars
  <2>2. \A n \in DOMAIN codecs : ~(n < j')
    BY <1>1, <2>1
  <2>3. \A n \in DOMAIN codecs : FromNode(codecs[n]) => FromNode(codecs[n])'
    BY <2>1 DEF FromNode
  <2> QED
    BY <2>1, <2>2, <2>3 DEF CodecsFound
<1>12. CASE KeepCodec
  <2>1. /\ pc = "validate" /\ pc' = pc /\ j' = j + 1 /\ j \in DOMAIN codecs /\ CodecEntry(codecs[j]) # 0
        /\ codecs' = [codecs EXCEPT ![j].info = CodecEntry(codecs[j])]
        /\ UNCHANGED <<controllers, machine, nodes, progressState>>
    BY <1>1, <1>12 DEF KeepCodec, Suitable, propVars, TypeInv, Control
  <2> DEFINE e == [codecs[j] EXCEPT !.info = CodecEntry(codecs[j])]
  <2>2. codecs[j] \in CodecInfo /\ CodecEntry(codecs[j]) \in 0 .. Len(CodecMod)
    BY <1>1, <2>1, CodecEntryTyped
  <2>3. /\ e.info = CodecEntry(codecs[j]) /\ e.controller = codecs[j].controller /\ e.vendor = codecs[j].vendor
        /\ e.codec = codecs[j].codec /\ e.revision = codecs[j].revision /\ CodecEntry(e) = CodecEntry(codecs[j])
    BY <2>2, EntryOfKept
  <2>4. codecs' = [codecs EXCEPT ![j] = e]
    BY <2>1
  <2> HIDE DEF e
  <2>5. /\ DOMAIN codecs' = DOMAIN codecs /\ Len(codecs') = Len(codecs) /\ codecs'[j] = e
        /\ \A n \in DOMAIN codecs \ {j} : codecs'[n] = codecs[n]
    BY <1>1, <2>1, <2>4
  <2>6. \A n \in DOMAIN codecs : n = j => Entered(codecs[n])'
    BY <2>1, <2>3, <2>5 DEF Entered
  <2>7. \A n \in DOMAIN codecs : n < j' => Entered(codecs[n])'
    <3> SUFFICES ASSUME NEW n \in DOMAIN codecs, n < j' PROVE Entered(codecs[n])'
      OBVIOUS
    <3>1. n = j \/ n < j
      BY <1>1, <2>1
    <3>2. CASE n # j
      <4>1. Entered(codecs[n])
        BY <2>1, <3>1, <3>2 DEF CodecsFound
      <4> QED
        BY <2>5, <3>2, <4>1 DEF Entered
    <3> QED
      BY <2>6, <3>2
  <2>8. \A n \in DOMAIN codecs : FromNode(codecs[n])' /\ controllers[codecs'[n].controller].detect
    <3>1. \A n \in DOMAIN codecs : FromNode(codecs[n]) /\ controllers[codecs[n].controller].detect
      BY DEF CodecsFound
    <3>2. \A n \in DOMAIN codecs :
            /\ codecs'[n].controller = codecs[n].controller /\ codecs'[n].vendor = codecs[n].vendor
            /\ codecs'[n].codec = codecs[n].codec /\ codecs'[n].revision = codecs[n].revision
      BY <2>3, <2>5
    <3>3. \A n \in DOMAIN codecs : FromNode(codecs[n])'
      BY <2>1, <3>1, <3>2 DEF FromNode
    <3> QED
      BY <3>1, <3>2, <3>3
  <2>9. codecs # <<>>
    BY <2>1
  <2> QED
    BY <2>1, <2>5, <2>7, <2>8, <2>9 DEF CodecsFound
<1>13. CASE EraseCodec
  <2>1. /\ pc = "validate" /\ pc' = pc /\ j >= 1 /\ j <= Len(codecs) /\ codecs' = Erase(codecs, j)
    BY <1>13 DEF EraseCodec, loopVars, TypeInv, Control
  <2>2. Len(codecs) = 1
    <3>1. \A a, b \in Nat : b >= 1 /\ b <= a /\ a <= 1 => a = 1
      OBVIOUS
    <3>2. Len(codecs) <= 1 /\ Len(codecs) \in Nat
      BY <1>1 DEF CodecsFound
    <3> QED
      BY <1>1, <2>1, <3>1, <3>2, Zenon
  <2>3. codecs' = <<>>
    BY <2>1, <2>2 DEF Erase
  <2> QED
    BY <1>2, <2>1, <2>3
<1>14. CASE CodecsValidated
  <2>1. /\ pc = "validate" /\ pc' = "controllers" /\ j > Len(codecs)
        /\ progressState' = IF codecs = <<>> THEN progressState ELSE progressState \cup {"CodecsLoaded"}
        /\ UNCHANGED <<codecs, controllers, machine, nodes>>
    BY <1>14 DEF CodecsValidated, propVars
  <2>2. \A n \in DOMAIN codecs : Entered(codecs[n]) /\ Entered(codecs[n])'
    <3>1. \A n \in DOMAIN codecs : n < j
      BY <1>1, <2>1
    <3> QED
      BY <2>1, <3>1 DEF CodecsFound, Entered
  <2>3. \A n \in DOMAIN codecs : FromNode(codecs[n]) => FromNode(codecs[n])'
    BY <2>1 DEF FromNode
  <2>4. "CodecsLoaded" \notin progressState
    BY <2>1 DEF TypeInv, Control
  <2> QED
    BY <2>1, <2>2, <2>3, <2>4 DEF CodecsFound
<1>15. CASE ChooseId \/ NoIdLeft \/ NotPlaceholder
  <2>1. pc = "controllers" /\ UNCHANGED <<pc, codecs, controllers, machine, nodes, progressState>>
    BY <1>15 DEF ChooseId, NoIdLeft, NotPlaceholder, IdsPending, Patching, propVars
  <2> QED
    BY <2>1, CodecsKept
<1>16. CASE PatchController \/ ControllersPatched
  <2>1. /\ pc = "controllers" /\ pc' \in {"controllers", "finish"}
        /\ UNCHANGED <<codecs, controllers, machine, nodes, progressState>>
    BY <1>16 DEF PatchController, ControllersPatched, Patching, propVars
  <2> QED
    BY <2>1, CodecsKept
<1>17. CASE FinishKext
  <2>1. /\ pc = "finish" /\ pc' = "idle" /\ UNCHANGED <<codecs, controllers, machine, nodes>>
        /\ progressState' = progressState \cup NewBits
    BY <1>17 DEF FinishKext, propVars
  <2>2. "CodecsLoaded" \notin NewBits /\ "ControllersLoaded" \notin NewBits
    BY DEF NewBits
  <2> QED
    BY <2>1, <2>2, CodecsKept
<1>18. ASSUME NEW n \in DOMAIN nodes, PublishVendor(n) \/ PublishRevision(n) PROVE CodecsFound'
  <2>1. /\ UNCHANGED <<pc, i, found, j, codecs, controllers, machine, progressState>>
        /\ \A m \in DOMAIN nodes : nodes[m] = "complete" => nodes'[m] = "complete"
    BY <1>18 DEF PublishVendor, PublishRevision, propVars, loopVars
  <2> QED
    BY <2>1, CodecsKept
<1>19. ASSUME NEW type \in ResourceTypes, RequestResource(type) PROVE CodecsFound'
  BY <1>19, CodecsKept DEF RequestResource, propVars, loopVars
<1> QED
  BY <1>3, <1>4, <1>5, <1>6, <1>7, <1>8, <1>9, <1>10, <1>11, <1>12, <1>13, <1>14, <1>15, <1>16, <1>17, <1>18,
     <1>19 DEF AlcNext, ProcessKext

-----------------------------------------------------------------------------
(* The pool of NVIDIA ids.                                                    *)

LEMMA IdsStep ==
  ASSUME [AlcNext]_vars
  PROVE  \/ UpdateProperties /\ UNCHANGED alcVars
         \/ \E k \in Kexts : LoadFirst(k)
         \/ ChooseId
         \/ UNCHANGED <<controllers, nvidiaFind, nvidiaDeviceIdUsage>> /\ progressState \subseteq progressState'
<1> DEFINE Same == UNCHANGED <<controllers, nvidiaFind, nvidiaDeviceIdUsage>> /\ progressState \subseteq progressState'
<1>1. UNCHANGED vars => Same
  BY DEF vars, propVars, alcVars
<1>2. LoadGfx => Same
  BY DEF LoadGfx, propVars
<1>3. \A k \in Kexts : LoadDetect(k) \/ LoadOther(k) \/ Unload(k) => Same
  BY DEF LoadDetect, LoadOther, Unload, propVars
<1>4. LookForCodec \/ NextController \/ StartValidation \/ KeepCodec \/ EraseCodec \/ CodecsValidated => Same
  BY DEF LookForCodec, NextController, StartValidation, KeepCodec, EraseCodec, CodecsValidated, propVars
<1>5. NoIdLeft \/ NotPlaceholder \/ PatchController \/ ControllersPatched \/ FinishKext => Same
  BY DEF NoIdLeft, NotPlaceholder, PatchController, ControllersPatched, FinishKext, propVars
<1>6. \A n \in DOMAIN nodes : PublishVendor(n) \/ PublishRevision(n) => Same
  BY DEF PublishVendor, PublishRevision, propVars
<1>7. \A type \in ResourceTypes : RequestResource(type) => Same
  BY DEF RequestResource, propVars
<1> HIDE DEF Same
<1>8. \/ UpdateProperties /\ UNCHANGED alcVars
      \/ \E k \in Kexts : LoadFirst(k)
      \/ ChooseId
      \/ Same
  BY <1>1, <1>2, <1>3, <1>4, <1>5, <1>6, <1>7 DEF AlcNext, ProcessKext
<1> QED
  BY <1>8 DEF Same

\* With nothing handed out no two placeholders can clash.
LEMMA NoIdYet == (\A s \in Slots : nvidiaFind[s] = 0) => NvidiaIdsExclusive
BY DEF NvidiaIdsExclusive

LEMMA IdsTakenStep == TypeInv /\ IdsTaken /\ [AlcNext]_vars => IdsTaken'
<1> SUFFICES ASSUME TypeInv, IdsTaken, [AlcNext]_vars PROVE IdsTaken'
  OBVIOUS
<1>1. /\ PropTypeOK /\ controllers \in Seq(ControllerInfo)
      /\ nvidiaFind \in [Slots -> 0 .. Len(NvidiaIds)]
      /\ nvidiaDeviceIdUsage \in [DOMAIN NvidiaIds -> BOOLEAN]
  BY DEF TypeInv, AlcTypeOK, PropTypeOK
<1>2. CASE UpdateProperties /\ UNCHANGED alcVars
  <2>1. IdsReserved'
    BY <1>1, <1>2, IdsReservedStep DEF IdsTaken, Next
  <2>2. phase # "done"
    BY <1>1, <1>2, UpdateControllers
  <2>3. \A s \in Slots : nvidiaFind'[s] = 0
    BY <1>2, <2>2 DEF IdsTaken, TypeInv, Control, alcVars
  <2>4. NvidiaIdsExclusive'
    BY <2>3 DEF NvidiaIdsExclusive
  <2> QED
    BY <2>1, <2>3, <2>4 DEF IdsTaken
<1>3. ASSUME NEW k \in Kexts, LoadFirst(k) PROVE IdsTaken'
  <2>1. /\ controllers' = GrabControllers /\ UNCHANGED <<nvidiaFind, nvidiaDeviceIdUsage>>
        /\ "ControllersLoaded" \notin progressState
    BY <1>3 DEF LoadFirst
  <2>2. \A s \in Slots : nvidiaFind'[s] = 0
    BY <2>1 DEF IdsTaken
  <2>3. NvidiaIdsExclusive'
    BY <2>2 DEF NvidiaIdsExclusive
  <2>4. \A n \in DOMAIN controllers' : ~controllers'[n].detect =>
          /\ n \in DOMAIN controllers
          /\ controllers'[n].vendor = controllers[n].vendor /\ controllers'[n].device = controllers[n].device
          /\ ~controllers[n].detect
    BY <1>1, <2>1, GrabbedControllers
  <2>5. IdsReserved'
    <3> SUFFICES ASSUME NEW n \in DOMAIN controllers', ~controllers'[n].detect,
                        controllers'[n].vendor = NVIDIA,
                        NEW m \in DOMAIN NvidiaIds, NvidiaIds[m] = controllers'[n].device
                 PROVE  nvidiaDeviceIdUsage'[m]
      BY DEF IdsReserved
    <3>1. /\ n \in DOMAIN controllers /\ ~controllers[n].detect
          /\ controllers[n].vendor = NVIDIA /\ NvidiaIds[m] = controllers[n].device
      BY <2>4
    <3>2. nvidiaDeviceIdUsage[m]
      BY <3>1 DEF IdsReserved, IdsTaken
    <3>3. nvidiaDeviceIdUsage' = nvidiaDeviceIdUsage
      BY <2>1
    <3> QED
      BY <3>2, <3>3
  <2> QED
    BY <2>1, <2>2, <2>3, <2>5 DEF IdsTaken
<1>4. CASE ChooseId
  <2> DEFINE slot == <<controllers[i].info, j>>
  <2>1. PICK n \in DOMAIN NvidiaIds :
          /\ FreeId(n)
          /\ nvidiaFind' = [nvidiaFind EXCEPT ![slot] = n]
          /\ nvidiaDeviceIdUsage' = [nvidiaDeviceIdUsage EXCEPT ![n] = TRUE]
    BY <1>4 DEF ChooseId
  <2>2. /\ controllers' = controllers /\ progressState' = progressState
        /\ slot \in Slots /\ "ControllersLoaded" \in progressState
    BY <1>4 DEF ChooseId, Placeholder, IdsPending, Patching, TypeInv, Control
  <2> HIDE DEF slot
  <2>3. /\ ~nvidiaDeviceIdUsage[n] /\ n # 0
        /\ nvidiaFind'[slot] = n /\ \A s \in Slots \ {slot} : nvidiaFind'[s] = nvidiaFind[s]
        /\ nvidiaDeviceIdUsage'[n] /\ \A k \in DOMAIN NvidiaIds : nvidiaDeviceIdUsage[k] => nvidiaDeviceIdUsage'[k]
    <3>1. ~nvidiaDeviceIdUsage[n] /\ n # 0
      BY <2>1 DEF FreeId
    <3>2. nvidiaFind'[slot] = n /\ \A s \in Slots \ {slot} : nvidiaFind'[s] = nvidiaFind[s]
      BY <1>1, <2>1, <2>2
    <3>3. nvidiaDeviceIdUsage'[n] /\ \A k \in DOMAIN NvidiaIds : nvidiaDeviceIdUsage[k] => nvidiaDeviceIdUsage'[k]
      BY <1>1, <2>1, Zenon
    <3> QED
      BY <3>1, <3>2, <3>3
  <2>4. IdsReserved'
    <3>1. IdsReserved
      BY DEF IdsTaken
    <3> QED
      BY <2>2, <2>3, <3>1, Zenon DEF IdsReserved
  <2>5. \A s \in Slots : nvidiaFind[s] # 0 => nvidiaDeviceIdUsage[nvidiaFind[s]] /\ nvidiaFind[s] \in DOMAIN NvidiaIds
    BY <1>1 DEF IdsTaken
  <2>6. \A s \in Slots : nvidiaFind'[s] # 0 => nvidiaDeviceIdUsage'[nvidiaFind'[s]]
    BY <2>3, <2>5
  <2>7. \A s \in Slots : nvidiaFind[s] # n
    BY <2>3, <2>5
  <2>8. \A s, t \in Slots : s # t /\ nvidiaFind'[s] # 0 => nvidiaFind'[s] # nvidiaFind'[t]
    <3>1. \A s, t \in Slots : s # t /\ nvidiaFind[s] # 0 => nvidiaFind[s] # nvidiaFind[t]
      BY DEF IdsTaken, NvidiaIdsExclusive
    <3> QED
      BY ONLY <2>3, <2>7, <3>1
  <2>9. \A c \in Registered : ~c.detect /\ c.vendor = NVIDIA => NvidiaIds[n] # c.device
    BY <2>3 DEF IdsTaken, IdsReserved, Registered
  <2>10. \A s \in Slots, c \in Registered :
           nvidiaFind'[s] # 0 /\ ~c.detect /\ c.vendor = NVIDIA => NvidiaIds[nvidiaFind'[s]] # c.device
    <3>1. \A s \in Slots, c \in Registered :
            nvidiaFind[s] # 0 /\ ~c.detect /\ c.vendor = NVIDIA => NvidiaIds[nvidiaFind[s]] # c.device
      BY DEF IdsTaken, NvidiaIdsExclusive
    <3> QED
      BY <2>3, <2>9, <3>1
  <2>11. Registered' = Registered
    BY <2>2 DEF Registered
  <2>12. NvidiaIdsExclusive'
    BY <2>8, <2>10, <2>11 DEF NvidiaIdsExclusive
  <2> QED
    BY <2>2, <2>4, <2>6, <2>12 DEF IdsTaken
<1>5. CASE UNCHANGED <<controllers, nvidiaFind, nvidiaDeviceIdUsage>> /\ progressState \subseteq progressState'
  BY <1>5 DEF IdsTaken, IdsReserved, NvidiaIdsExclusive, Registered
<1> QED
  BY <1>2, <1>3, <1>4, <1>5, IdsStep

-----------------------------------------------------------------------------
(* The patches of the controllers.                                            *)

\* The patches called for stay the same while the ids of their placeholders do.
LEMMA PatchesSame ==
  ASSUME NEW m, NEW k, machine' = machine,
         \A p \in DOMAIN ControllerMod[m].patches :
           <<m, p>> \in Slots => nvidiaFind'[<<m, p>>] = nvidiaFind[<<m, p>>]
  PROVE  ControllerPatches(m, k)' = ControllerPatches(m, k)
<1>1. Applicable(ControllerMod[m].patches, k)' = Applicable(ControllerMod[m].patches, k)
  BY DEF Applicable, CompatibleKernel
<1>2. Applicable(ControllerMod[m].patches, k) \subseteq DOMAIN ControllerMod[m].patches
  BY DEF Applicable
<1> DEFINE A == Applicable(ControllerMod[m].patches, k)
           Old(p) == IF <<m, p>> \in Slots THEN nvidiaFind[<<m, p>>] ELSE 0
           New(p) == IF <<m, p>> \in Slots THEN nvidiaFind'[<<m, p>>] ELSE 0
<1>3. \A p \in A : New(p) = Old(p)
  BY <1>2
<1>4. /\ ControllerPatches(m, k) = {[table |-> "controller", mod |-> m, patch |-> p, find |-> Old(p)] : p \in A}
      /\ ControllerPatches(m, k)' = {[table |-> "controller", mod |-> m, patch |-> p, find |-> New(p)] : p \in A}
  BY <1>1 DEF ControllerPatches
<1> HIDE DEF A, Old, New
<1> QED
  BY <1>3, <1>4

LEMMA PatchesTable ==
  /\ \A m, k : \A p \in ControllerPatches(m, k) : p.table = "controller"
  /\ \A m, k : \A p \in CodecPatches(m, k) : p.table = "codec"
  /\ \A k : \A p \in LogPatch(k) : p.table = "log"
<1>1. ASSUME NEW m, NEW k, NEW p \in ControllerPatches(m, k) PROVE p.table = "controller"
  <2>1. \E x, f : p = [table |-> "controller", mod |-> m, patch |-> x, find |-> f]
    BY <1>1, Zenon DEF ControllerPatches
  <2> QED
    BY <2>1
<1>2. ASSUME NEW m, NEW k, NEW p \in CodecPatches(m, k) PROVE p.table = "codec"
  BY <1>2 DEF CodecPatches
<1>3. ASSUME NEW k, NEW p \in LogPatch(k) PROVE p.table = "log"
  BY <1>3 DEF LogPatch
<1> QED
  BY <1>1, <1>2, <1>3

LEMMA CalledSame ==
  ASSUME NEW b, NEW k, machine' = machine, controllers' = controllers,
         \A n \in DOMAIN controllers : n < b /\ controllers[n].info # 0 =>
           \A p \in DOMAIN ControllerMod[controllers[n].info].patches :
             <<controllers[n].info, p>> \in Slots =>
               nvidiaFind'[<<controllers[n].info, p>>] = nvidiaFind[<<controllers[n].info, p>>]
  PROVE  CalledBefore(b, k)' = CalledBefore(b, k)
<1>1. \A n \in DOMAIN controllers : n < b => CallFor(controllers[n], k)' = CallFor(controllers[n], k)
  BY PatchesSame DEF CallFor
<1>2. \A x : x \in CalledBefore(b, k) <=> \E n \in DOMAIN controllers : n < b /\ x \in CallFor(controllers[n], k)
  BY DEF CalledBefore
<1>3. \A x : x \in CalledBefore(b, k)' <=> \E n \in DOMAIN controllers : n < b /\ x \in CallFor(controllers[n], k)'
  BY DEF CalledBefore
<1>4. \A x : x \in CalledBefore(b, k)' <=> x \in CalledBefore(b, k)
  <2> SUFFICES ASSUME NEW x PROVE x \in CalledBefore(b, k)' <=> x \in CalledBefore(b, k)
    OBVIOUS
  <2>1. ASSUME x \in CalledBefore(b, k)' PROVE x \in CalledBefore(b, k)
    <3>1. PICK n \in DOMAIN controllers : n < b /\ x \in CallFor(controllers[n], k)'
      BY <1>3, <2>1
    <3>2. x \in CallFor(controllers[n], k)
      BY <1>1, <3>1
    <3> QED
      BY <1>2, <3>1, <3>2
  <2>2. ASSUME x \in CalledBefore(b, k) PROVE x \in CalledBefore(b, k)'
    <3>1. PICK n \in DOMAIN controllers : n < b /\ x \in CallFor(controllers[n], k)
      BY <1>2, <2>2
    <3>2. x \in CallFor(controllers[n], k)'
      BY <1>1, <3>1
    <3> QED
      BY <1>3, <3>1, <3>2
  <2> QED
    BY <2>1, <2>2
<1> QED
  BY <1>4

\* A settled placeholder stays settled.
LEMMA SettledKept ==
  ASSUME nvidiaFind' = nvidiaFind, currentFree \in Nat, currentFree' \in Nat, currentFree' >= currentFree
  PROVE  /\ \A m, p : Settled(m, p) => Settled(m, p)'
         /\ controllers' = controllers /\ AllSettled => AllSettled'
<1>1. currentFree > Len(NvidiaIds) => currentFree' > Len(NvidiaIds)
  BY Len(NvidiaIds) \in Nat
<1>2. \A m, p : Settled(m, p) => Settled(m, p)'
  BY <1>1 DEF Settled
<1> QED
  BY <1>2 DEF AllSettled

LEMMA CalledNext ==
  ASSUME controllers \in Seq(ControllerInfo), NEW b \in DOMAIN controllers, NEW k
  PROVE  CalledBefore(b + 1, k) = CalledBefore(b, k) \cup CallFor(controllers[b], k)
<1>1. \A a : \A x : x \in CalledBefore(a, k) <=> \E n \in DOMAIN controllers : n < a /\ x \in CallFor(controllers[n], k)
  BY DEF CalledBefore
<1>2. \A n \in DOMAIN controllers : n < b + 1 <=> n < b \/ n = b
  OBVIOUS
<1> QED
  BY <1>1, <1>2

\* The last part of processKext adds the patches of the codecs.
LEMMA FinishTyped ==
  ASSUME AlcTypeOK, kext \in Kexts, FinishKext
  PROVE  /\ image'[kext].patches = image[kext].patches \cup AllCodecPatches
         /\ image'[kext].routed \subseteq Requests
         /\ \A x \in Kexts : image'[x].loaded = image[x].loaded
         /\ \A x \in Kexts \ {kext} : image'[x] = image[x]
<1>1. PICK routed \in SUBSET Requests :
        image' = [image EXCEPT ![kext].patches = @ \cup AllCodecPatches, ![kext].routed = routed]
  BY DEF FinishKext
<1> DEFINE e == [image[kext] EXCEPT !.patches = @ \cup AllCodecPatches, !.routed = routed]
<1>2. image[kext] \in LoadedKext /\ image \in [Kexts -> LoadedKext]
  BY DEF AlcTypeOK
<1>3. e.patches = image[kext].patches \cup AllCodecPatches /\ e.routed = routed /\ e.loaded = image[kext].loaded
  BY <1>2 DEF LoadedKext
<1>4. image' = [image EXCEPT ![kext] = e]
  BY <1>1, <1>2 DEF LoadedKext
<1> HIDE DEF e
<1> QED
  BY <1>2, <1>3, <1>4

\* A step outside the loop over the controllers, that adds no controller patch.
LEMMA PatchesKept ==
  ASSUME TypeInv, PatchesApplied,
         machine' = machine, controllers' = controllers, nvidiaFind' = nvidiaFind, currentFree' = currentFree,
         pc \notin {"controllers"}, pc' = pc \/ pc' = "idle" \/ (pc = "codecs" /\ pc' = "validate"),
         kext' = kext \/ kext' = "none",
         pc' = pc => kext' = kext,
         \A k \in Kexts \ {"AppleGFXHDA"} :
           image'[k].loaded => image[k].loaded /\ Carried(k, "controller")' = Carried(k, "controller"),
         pc \in {"codecs", "validate"} => image' = image /\ kext' = kext,
         pc = "finish" => \A k \in Kexts : image'[k].loaded = image[k].loaded
  PROVE  PatchesApplied'
<1>1. /\ controllers \in Seq(ControllerInfo) /\ currentFree \in Nat
      /\ kext \in Kexts \cup {"none"} /\ "none" \notin Kexts
  BY DEF TypeInv, AlcTypeOK, PropTypeOK, Kexts
<1>2. \A b, k : CalledBefore(b, k)' = CalledBefore(b, k)
  BY CalledSame
<1>3. AllSettled => AllSettled'
  BY <1>1, SettledKept
<1>4. ASSUME NEW k \in Kexts \ {"AppleGFXHDA"}, image'[k].loaded, kext' # k
      PROVE  AllSettled' /\ Carried(k, "controller")' = CalledBefore(Len(controllers) + 1, k)
  <2>1. image[k].loaded /\ Carried(k, "controller")' = Carried(k, "controller")
    BY <1>4
  <2>2. CASE kext # k
    BY <1>3, <2>1, <2>2 DEF PatchesApplied
  <2>3. CASE kext = k
    <3>1. kext' = "none" /\ pc # "idle" /\ pc' # pc
      BY <1>1, <1>4, <2>3 DEF TypeInv, Control
    <3>2. pc = "finish"
      BY <2>3, <3>1, <1>4 DEF TypeInv, AlcTypeOK
    <3> QED
      BY <1>3, <2>1, <2>3, <3>2 DEF PatchesApplied
  <2> QED
    BY <2>2, <2>3
<1>5. pc' \in {"codecs", "validate"} => Carried(kext, "controller")' = {}
  <2>1. pc' \in {"codecs", "validate"} => pc \in {"codecs", "validate"} /\ image' = image /\ kext' = kext
    OBVIOUS
  <2> QED
    BY <2>1 DEF PatchesApplied, Carried
<1>6. pc' = "finish" =>
        AllSettled' /\ Carried(kext, "controller")' = CalledBefore(Len(controllers) + 1, kext)'
  <2>1. pc' = "finish" => pc = "finish" /\ kext' = kext
    OBVIOUS
  <2>2. pc = "finish" => kext \in Kexts \ {"AppleGFXHDA"} /\ image[kext].loaded
    BY <1>1 DEF TypeInv, Control
  <2>3. pc' = "finish" => Carried(kext, "controller")' = Carried(kext, "controller")
    BY <2>1, <2>2 DEF Carried
  <2>4. kext' = kext => CalledBefore(Len(controllers) + 1, kext)' = CalledBefore(Len(controllers) + 1, kext)
    BY <1>2 DEF CalledBefore
  <2> QED
    BY <1>3, <2>1, <2>3, <2>4 DEF PatchesApplied
<1>7. \A k \in Kexts : CalledBefore(Len(controllers) + 1, k)' = CalledBefore(Len(controllers) + 1, k)
  BY <1>2 DEF CalledBefore
<1>8. pc' # "controllers"
  OBVIOUS
<1> QED
  BY <1>4, <1>5, <1>6, <1>7, <1>8 DEF PatchesApplied

LEMMA SlotsTyped == \A m, p : <<m, p>> \in Slots => m \in DOMAIN ControllerMod /\ p \in Nat \ {0}
<1> SUFFICES ASSUME NEW m, NEW p, <<m, p>> \in Slots PROVE m \in DOMAIN ControllerMod /\ p \in Nat \ {0}
  OBVIOUS
<1>1. m \in DOMAIN ControllerMod /\ p \in DOMAIN ControllerMod[m].patches
  BY DEF Slots
<1>2. ControllerMod[m] \in ControllerModInfo
  BY <1>1
<1>3. ControllerMod[m].patches \in Seq(KextPatch)
  BY <1>2 DEF ControllerModInfo
<1> QED
  BY <1>1, <1>3

LEMMA PatchesFrame ==
  ASSUME PatchesApplied, UNCHANGED <<propVars, nvidiaFind, currentFree, image, loopVars>>
  PROVE  PatchesApplied'
<1>1. /\ machine' = machine /\ controllers' = controllers /\ nvidiaFind' = nvidiaFind
      /\ currentFree' = currentFree /\ image' = image /\ pc' = pc /\ kext' = kext /\ i' = i /\ j' = j
  BY DEF propVars, loopVars
<1>2. \A b, k : CalledBefore(b, k)' = CalledBefore(b, k)
  BY <1>1, CalledSame
<1>3. /\ CalledBefore(i, kext)' = CalledBefore(i, kext)
      /\ CalledBefore(Len(controllers) + 1, kext)' = CalledBefore(Len(controllers) + 1, kext)
      /\ \A k \in Kexts : CalledBefore(Len(controllers) + 1, k)' = CalledBefore(Len(controllers) + 1, k)
  BY <1>1, <1>2 DEF CalledBefore
<1>4. (\A m, p : Settled(m, p)' = Settled(m, p)) /\ AllSettled' = AllSettled
  BY <1>1 DEF Settled, AllSettled
<1>5. /\ Carried(kext, "controller")' = Carried(kext, "controller")
      /\ \A k \in Kexts : Carried(k, "controller")' = Carried(k, "controller")
  BY <1>1 DEF Carried
<1> QED
  BY <1>1, <1>3, <1>4, <1>5 DEF PatchesApplied

\* The loop over a controller's patches settles one placeholder after another;
\* a kext that is done with had all of them settled, so its patches keep their
\* ids.
LEMMA IdSettled ==
  ASSUME TypeInv, AlcTypeOK', PatchesApplied, ChooseId \/ NoIdLeft \/ NotPlaceholder
  PROVE  PatchesApplied'
<1>1. /\ controllers \in Seq(ControllerInfo) /\ currentFree \in Nat /\ currentFree' \in Nat
      /\ i \in Nat /\ j \in Nat /\ nvidiaFind \in [Slots -> 0 .. Len(NvidiaIds)]
      /\ nvidiaFind' \in [Slots -> 0 .. Len(NvidiaIds)] /\ Len(NvidiaIds) \in Nat
  <2>1. Len(NvidiaIds) \in Nat
    OBVIOUS
  <2>2. currentFree \in 1 .. Len(NvidiaIds) + 1 /\ currentFree' \in 1 .. Len(NvidiaIds) + 1
    BY DEF TypeInv, AlcTypeOK
  <2>3. controllers \in Seq(ControllerInfo) /\ i \in Nat /\ j \in Nat
    BY DEF TypeInv, AlcTypeOK, PropTypeOK
  <2>4. /\ nvidiaFind \in [Slots -> 0 .. Len(NvidiaIds)]
        /\ nvidiaFind' \in [Slots -> 0 .. Len(NvidiaIds)]
    BY DEF TypeInv, AlcTypeOK
  <2> QED
    BY <2>1, <2>2, <2>3, <2>4
<1>2. PICK m, q, b, k : m = controllers[i].info /\ q = j /\ b = i /\ k = kext
  OBVIOUS
<1>3. /\ pc = "controllers" /\ b <= Len(controllers) /\ m # 0 /\ IsNvidiaMod(m)
      /\ q <= Len(ControllerMod[m].patches)
      /\ UNCHANGED <<machine, controllers, image, pc, kext, i>> /\ j' = q + 1
  BY <1>2 DEF ChooseId, NoIdLeft, NotPlaceholder, IdsPending, Patching, propVars
<1> DEFINE s == <<m, q>>
<1>4. b \in DOMAIN controllers /\ controllers[b].info = m /\ b \in Nat /\ q \in Nat
  BY <1>1, <1>2, <1>3 DEF TypeInv, Control
<1>5. /\ s \in Slots => nvidiaFind'[s] # 0 \/ currentFree' > Len(NvidiaIds)
      /\ currentFree' >= currentFree
      /\ \A t \in Slots : nvidiaFind'[t] # nvidiaFind[t] =>
           t = s /\ nvidiaFind[s] = 0 /\ ~(currentFree > Len(NvidiaIds)) /\ nvidiaFind'[s] # 0
  <2>1. CASE ChooseId
    <3>1. PICK n \in DOMAIN NvidiaIds :
            n >= currentFree /\ nvidiaFind' = [nvidiaFind EXCEPT ![s] = n] /\ currentFree' = n + 1
      BY <1>2, <2>1 DEF ChooseId, FreeId
    <3>2. s \in Slots /\ nvidiaFind[s] = 0
      BY <1>2, <2>1 DEF ChooseId, Placeholder
    <3>3. n \in Nat /\ n # 0 /\ n <= Len(NvidiaIds)
      BY <1>1
    <3>4. nvidiaFind'[s] = n /\ \A t \in Slots \ {s} : nvidiaFind'[t] = nvidiaFind[t]
      BY <1>1, <3>1, <3>2
    <3> QED
      BY <1>1, <3>1, <3>2, <3>3, <3>4
  <2>2. CASE NoIdLeft
    <3>1. nvidiaFind' = nvidiaFind /\ currentFree' = Len(NvidiaIds) + 1
      BY <2>2 DEF NoIdLeft
    <3>2. currentFree <= Len(NvidiaIds) + 1
      BY DEF TypeInv, AlcTypeOK
    <3> QED
      BY <1>1, <3>1, <3>2
  <2>3. CASE NotPlaceholder
    <3>1. nvidiaFind' = nvidiaFind /\ currentFree' = currentFree /\ (s \in Slots => nvidiaFind[s] # 0)
      BY <1>2, <2>3 DEF NotPlaceholder, Placeholder
    <3> QED
      BY <1>1, <3>1
  <2> QED
    BY <2>1, <2>2, <2>3
<1>6. ASSUME NEW a, NEW p, Settled(a, p) PROVE Settled(a, p)'
  <2>1. CASE <<a, p>> \in Slots /\ nvidiaFind[<<a, p>>] # 0
    BY <1>5, <2>1 DEF Settled
  <2>2. CASE currentFree > Len(NvidiaIds)
    <3>1. currentFree' > Len(NvidiaIds)
      BY <1>1, <1>5, <2>2
    <3> QED
      BY <3>1 DEF Settled
  <2>3. CASE ~(<<a, p>> \in Slots /\ IsNvidiaMod(a))
    BY <2>3 DEF Settled
  <2> QED
    BY <1>6, <2>1, <2>2, <2>3 DEF Settled
<1>7. Settled(m, q) => nvidiaFind' = nvidiaFind
  <2> SUFFICES ASSUME Settled(m, q), NEW t \in Slots PROVE nvidiaFind'[t] = nvidiaFind[t]
    BY <1>1
  <2> QED
    BY <1>3, <1>5 DEF Settled
<1>8. Settled(m, q)'
  BY <1>3, <1>5 DEF Settled
<1>9. s \in Slots => q \in DOMAIN ControllerMod[m].patches
  BY DEF Slots
<1>10. AllSettled => nvidiaFind' = nvidiaFind
  <2>1. s \notin Slots => nvidiaFind' = nvidiaFind
    <3> SUFFICES ASSUME s \notin Slots, NEW t \in Slots PROVE nvidiaFind'[t] = nvidiaFind[t]
      BY <1>1
    <3> QED
      BY <1>5
  <2> QED
    BY <1>3, <1>4, <1>7, <1>9, <2>1 DEF AllSettled
<1>11. AllSettled => AllSettled'
  BY <1>3, <1>6 DEF AllSettled
<1>12. ASSUME NEW x \in Kexts \ {"AppleGFXHDA"}, image'[x].loaded, kext' # x
       PROVE  AllSettled' /\ Carried(x, "controller")' = CalledBefore(Len(controllers) + 1, x)'
  <2>1. AllSettled /\ Carried(x, "controller") = CalledBefore(Len(controllers) + 1, x)
    BY <1>3, <1>12 DEF PatchesApplied
  <2>2. \A e : CalledBefore(e, x)' = CalledBefore(e, x)
    BY <1>3, <1>10, <2>1, CalledSame
  <2>3. CalledBefore(Len(controllers) + 1, x)' = CalledBefore(Len(controllers) + 1, x)
    BY <1>3, <2>2 DEF CalledBefore
  <2>4. Carried(x, "controller")' = Carried(x, "controller")
    BY <1>3 DEF Carried
  <2> QED
    BY <1>11, <2>1, <2>3, <2>4
<1>13. Carried(kext, "controller")' = CalledBefore(i, kext)'
  <2>1. \A n \in DOMAIN controllers : n < b /\ controllers[n].info # 0 =>
          \A p \in DOMAIN ControllerMod[controllers[n].info].patches :
            <<controllers[n].info, p>> \in Slots =>
              nvidiaFind'[<<controllers[n].info, p>>] = nvidiaFind[<<controllers[n].info, p>>]
    <3> SUFFICES ASSUME NEW n \in DOMAIN controllers, n < b, controllers[n].info # 0,
                        NEW p \in DOMAIN ControllerMod[controllers[n].info].patches,
                        <<controllers[n].info, p>> \in Slots
                 PROVE  nvidiaFind'[<<controllers[n].info, p>>] = nvidiaFind[<<controllers[n].info, p>>]
      OBVIOUS
    <3>1. Settled(controllers[n].info, p)
      BY <1>2, <1>3 DEF PatchesApplied
    <3>2. CASE <<controllers[n].info, p>> = s
      BY <1>7, <3>1, <3>2
    <3>3. CASE <<controllers[n].info, p>> # s
      BY <1>5, <3>3
    <3> QED
      BY <3>2, <3>3
  <2>2. CalledBefore(b, k)' = CalledBefore(b, k)
    BY <1>3, <2>1, CalledSame
  <2>3. CalledBefore(i, kext)' = CalledBefore(b, k)' /\ CalledBefore(i, kext) = CalledBefore(b, k)
    BY <1>2, <1>3 DEF CalledBefore
  <2>4. Carried(kext, "controller")' = Carried(kext, "controller")
    BY <1>3 DEF Carried
  <2> QED
    BY <1>3, <2>2, <2>3, <2>4 DEF PatchesApplied
<1>14. \A n \in DOMAIN controllers' : controllers'[n].info # 0 =>
         \A p \in DOMAIN ControllerMod[controllers'[n].info].patches :
           n < i' \/ (n = i' /\ p < j') => Settled(controllers[n].info, p)'
  <2> SUFFICES ASSUME NEW n \in DOMAIN controllers, controllers[n].info # 0,
                      NEW p \in DOMAIN ControllerMod[controllers[n].info].patches,
                      n < b \/ (n = b /\ p < q + 1)
               PROVE  Settled(controllers[n].info, p)'
    BY <1>2, <1>3
  <2>1. PICK a : a = controllers[n].info
    OBVIOUS
  <2>2. CASE n < b \/ (n = b /\ p < q)
    <3>1. Settled(a, p)
      BY <1>2, <1>3, <2>1, <2>2 DEF PatchesApplied
    <3>2. Settled(a, p)'
      BY <1>6, <3>1
    <3> QED
      BY <1>3, <2>1, <3>2
  <2>3. CASE n = b /\ p = q
    BY <1>3, <1>4, <1>8, <2>3
  <2>4. CASE p \notin Nat
    <3>1. <<controllers[n].info, p>> \notin Slots
      BY <2>4, SlotsTyped
    <3> QED
      BY <1>3, <3>1 DEF Settled
  <2>5. p \in Nat /\ p < q + 1 => p < q \/ p = q
    BY <1>4
  <2> QED
    BY <2>2, <2>3, <2>4, <2>5
<1> QED
  BY <1>1, <1>2, <1>3, <1>4, <1>12, <1>13, <1>14 DEF PatchesApplied

\* At the end of its patches a controller is settled, and what it calls for is
\* applied.
LEMMA ControllerPatched ==
  ASSUME TypeInv, Detected, PatchesApplied, PatchController PROVE PatchesApplied'
<1>1. /\ controllers \in Seq(ControllerInfo) /\ currentFree \in Nat /\ i \in Nat /\ j \in Nat /\ AlcTypeOK
      /\ Len(controllers) \in Nat
  BY DEF TypeInv, AlcTypeOK, PropTypeOK
<1>2. PICK b, k : b = i /\ k = kext
  OBVIOUS
<1>3. /\ pc = "controllers" /\ pc' = pc /\ b <= Len(controllers) /\ ~IdsPending
      /\ UNCHANGED <<machine, controllers, nvidiaFind, currentFree, kext>> /\ i' = b + 1 /\ j' = 1
      /\ image' = [image EXCEPT ![kext].patches = @ \cup PatchesFor(controllers[i])]
  BY <1>2 DEF PatchController, Patching, propVars
<1>4. b \in DOMAIN controllers /\ b \in Nat /\ kext \in Kexts /\ image[kext].loaded
  BY <1>1, <1>2, <1>3 DEF TypeInv, Control, AlcTypeOK
<1>5. PatchesFor(controllers[i]) = CallFor(controllers[b], k)
  BY <1>2 DEF PatchesFor, CallFor
<1>6. CallFor(controllers[b], k) \in SUBSET AppliedPatch /\ \A p \in CallFor(controllers[b], k) : p.table = "controller"
  <2>1. controllers[b].info # 0 => controllers[b].info \in DOMAIN ControllerMod
    BY <1>4 DEF Detected
  <2> QED
    BY <1>1, <1>2, <1>4, <2>1, PatchesTyped, PatchesTable DEF CallFor
<1>7. /\ image'[kext].patches = image[kext].patches \cup CallFor(controllers[b], k)
      /\ \A x \in Kexts \ {kext} : image'[x] = image[x]
  BY <1>1, <1>3, <1>4, <1>5, <1>6, PatchTyped
<1>8. \A e, x : CalledBefore(e, x)' = CalledBefore(e, x)
  BY <1>3, CalledSame
<1>9. (\A m, p : Settled(m, p) => Settled(m, p)') /\ (AllSettled => AllSettled')
  BY <1>1, <1>3, SettledKept
<1>10. ASSUME NEW x \in Kexts \ {"AppleGFXHDA"}, image'[x].loaded, kext' # x
       PROVE  AllSettled' /\ Carried(x, "controller")' = CalledBefore(Len(controllers) + 1, x)'
  <2>1. image'[x] = image[x] /\ kext # x
    BY <1>3, <1>7, <1>10
  <2>2. Carried(x, "controller")' = Carried(x, "controller")
    BY <2>1 DEF Carried
  <2>3. CalledBefore(Len(controllers) + 1, x)' = CalledBefore(Len(controllers) + 1, x)
    BY <1>3, <1>8 DEF CalledBefore
  <2> QED
    BY <1>9, <1>10, <2>1, <2>2, <2>3 DEF PatchesApplied
<1>11. Carried(kext, "controller")' = CalledBefore(i, kext)'
  <2>1. Carried(kext, "controller")' = Carried(kext, "controller") \cup CallFor(controllers[b], k)
    BY <1>3, <1>6, <1>7 DEF Carried
  <2>2. Carried(kext, "controller") = CalledBefore(b, k)
    BY <1>2, <1>3 DEF PatchesApplied
  <2>3. CalledBefore(b + 1, k) = CalledBefore(b, k) \cup CallFor(controllers[b], k)
    BY <1>1, <1>4, CalledNext
  <2>4. CalledBefore(i, kext)' = CalledBefore(b + 1, k)'
    BY <1>2, <1>3 DEF CalledBefore
  <2> QED
    BY <1>8, <2>1, <2>2, <2>3, <2>4
<1>12. \A n \in DOMAIN controllers' : controllers'[n].info # 0 =>
         \A p \in DOMAIN ControllerMod[controllers'[n].info].patches :
           n < i' \/ (n = i' /\ p < j') => Settled(controllers[n].info, p)'
  <2> SUFFICES ASSUME NEW n \in DOMAIN controllers, controllers[n].info # 0,
                      NEW p \in DOMAIN ControllerMod[controllers[n].info].patches,
                      n < b + 1 \/ (n = b + 1 /\ p < 1)
               PROVE  Settled(controllers[n].info, p)'
    BY <1>2, <1>3
  <2>1. PICK a : a = controllers[n].info
    OBVIOUS
  <2>2. CASE n < b
    <3>1. Settled(a, p)
      BY <1>2, <1>3, <2>1, <2>2 DEF PatchesApplied
    <3>2. Settled(a, p)'
      BY <1>9, <3>1
    <3> QED
      BY <1>3, <2>1, <3>2
  <2>3. CASE n = b
    <3>1. ~IsNvidiaMod(a) \/ ~(j <= Len(ControllerMod[a].patches))
      BY <1>2, <1>3, <1>4, <2>1, <2>3 DEF IdsPending, Patching
    <3>2. IsNvidiaMod(a) /\ <<a, p>> \in Slots => p < j /\ p \in DOMAIN ControllerMod[a].patches
      <4> SUFFICES ASSUME IsNvidiaMod(a), <<a, p>> \in Slots
                   PROVE  p < j /\ p \in DOMAIN ControllerMod[a].patches
        OBVIOUS
      <4>1. a \in DOMAIN ControllerMod /\ p \in Nat /\ p \in DOMAIN ControllerMod[a].patches
        BY SlotsTyped DEF Slots
      <4>2. ControllerMod[a] \in ControllerModInfo
        BY <4>1
      <4>3. ControllerMod[a].patches \in Seq(KextPatch)
        BY <4>2 DEF ControllerModInfo
      <4>4. p <= Len(ControllerMod[a].patches) /\ Len(ControllerMod[a].patches) \in Nat
        BY <4>1, <4>3
      <4>5. \A l, x, y \in Nat : ~(y <= l) /\ x <= l => x < y
        OBVIOUS
      <4> QED
        BY <1>1, <3>1, <4>1, <4>4, <4>5, Zenon
    <3>3. IsNvidiaMod(a) /\ <<a, p>> \in Slots => Settled(a, p)
      BY <1>2, <1>3, <1>4, <2>1, <2>3, <3>2 DEF PatchesApplied
    <3>4. Settled(a, p)
      BY <3>3 DEF Settled
    <3>5. Settled(a, p)'
      BY <1>9, <3>4
    <3> QED
      BY <1>3, <2>1, <3>5
  <2>4. CASE n = b + 1 /\ p < 1
    <3>1. <<a, p>> \notin Slots
      BY <2>4, SlotsTyped
    <3> QED
      BY <1>3, <2>1, <3>1 DEF Settled
  <2>5. n < b + 1 => n < b \/ n = b
    BY <1>1, <1>4
  <2> QED
    BY <2>2, <2>3, <2>4, <2>5
<1>13. i' <= Len(controllers') + 1
  BY <1>1, <1>3, <1>4
<1> QED
  BY <1>3, <1>10, <1>11, <1>12, <1>13 DEF PatchesApplied

LEMMA LogsPatched ==
  ASSUME TypeInv, PatchesApplied, ControllersPatched PROVE PatchesApplied'
<1>1. /\ controllers \in Seq(ControllerInfo) /\ currentFree \in Nat /\ i \in Nat /\ AlcTypeOK
      /\ Len(controllers) \in Nat
  <2>1. AlcTypeOK
    BY DEF TypeInv
  <2>2. controllers \in Seq(ControllerInfo)
    BY <2>1 DEF AlcTypeOK, PropTypeOK
  <2>3. currentFree \in 1 .. Len(NvidiaIds) + 1 /\ i \in Nat
    BY <2>1 DEF AlcTypeOK
  <2> QED
    BY <2>1, <2>2, <2>3
<1>2. PICK b, k : b = i /\ k = kext
  OBVIOUS
<1>3. /\ pc = "controllers" /\ pc' = "finish" /\ b > Len(controllers)
      /\ UNCHANGED <<machine, controllers, nvidiaFind, currentFree, kext>>
      /\ image' = [image EXCEPT ![kext].patches = @ \cup LogPatch(kext)]
  BY <1>2 DEF ControllersPatched, propVars
<1>4. kext \in Kexts /\ image[kext].loaded
  BY <1>3 DEF TypeInv, Control, AlcTypeOK
<1>5. /\ image'[kext].patches = image[kext].patches \cup LogPatch(kext)
      /\ \A x \in Kexts \ {kext} : image'[x] = image[x]
      /\ image'[kext].loaded
  BY <1>1, <1>3, <1>4, PatchesTyped, PatchTyped
<1>6. \A x \in Kexts : Carried(x, "controller")' = Carried(x, "controller")
  <2>1. \A p \in LogPatch(kext) : p.table # "controller"
    BY PatchesTable
  <2> QED
    BY <1>5, <2>1 DEF Carried
<1>7. b = Len(controllers) + 1
  <2>1. b <= Len(controllers) + 1
    BY <1>2, <1>3 DEF PatchesApplied
  <2> QED
    BY <1>1, <1>2, <1>3, <2>1
<1>8. AllSettled
  <2>1. \A n \in DOMAIN controllers : n < b
    BY <1>1, <1>2, <1>3
  <2> QED
    BY <1>2, <1>3, <2>1 DEF PatchesApplied, AllSettled
<1>9. AllSettled'
  BY <1>1, <1>3, <1>8, SettledKept
<1>10. \A e, x : CalledBefore(e, x)' = CalledBefore(e, x)
  BY <1>3, CalledSame
<1>11. /\ CalledBefore(Len(controllers) + 1, kext)' = CalledBefore(Len(controllers) + 1, kext)
       /\ \A x \in Kexts : CalledBefore(Len(controllers) + 1, x)' = CalledBefore(Len(controllers) + 1, x)
  BY <1>3, <1>10 DEF CalledBefore
<1>12. Carried(kext, "controller")' = CalledBefore(Len(controllers) + 1, kext)'
  <2>1. Carried(kext, "controller") = CalledBefore(b, kext)
    BY <1>2, <1>3 DEF PatchesApplied
  <2>2. Carried(kext, "controller")' = Carried(kext, "controller")
    BY <1>3, <1>4, <1>6 DEF Carried
  <2> QED
    BY <1>7, <1>11, <2>1, <2>2
<1>13. \A x \in Kexts : image'[x].loaded => image[x].loaded
  BY <1>4, <1>5
<1> QED
  BY <1>3, <1>6, <1>9, <1>11, <1>12, <1>13 DEF PatchesApplied

LEMMA PatchesAppliedStep ==
  TypeInv /\ AlcTypeOK' /\ Detected /\ CodecsFound /\ PatchesApplied /\ [AlcNext]_vars => PatchesApplied'
<1> SUFFICES ASSUME TypeInv, AlcTypeOK', Detected, CodecsFound, PatchesApplied, [AlcNext]_vars
             PROVE  PatchesApplied'
  OBVIOUS
<1>1. /\ controllers \in Seq(ControllerInfo) /\ currentFree \in Nat /\ i \in Nat /\ j \in Nat
      /\ kext \in Kexts \cup {"none"} /\ "none" \notin Kexts /\ AlcTypeOK
      /\ nvidiaFind \in [Slots -> 0 .. Len(NvidiaIds)]
      /\ Len(controllers) \in Nat
  <2>1. AlcTypeOK
    BY DEF TypeInv
  <2>2. "none" \notin Kexts
    BY DEF Kexts
  <2>3. controllers \in Seq(ControllerInfo)
    BY <2>1 DEF AlcTypeOK, PropTypeOK
  <2>4. /\ currentFree \in 1 .. Len(NvidiaIds) + 1 /\ Len(NvidiaIds) \in Nat
        /\ i \in Nat /\ j \in Nat /\ kext \in Kexts \cup {"none"}
        /\ nvidiaFind \in [Slots -> 0 .. Len(NvidiaIds)]
    BY <2>1 DEF AlcTypeOK
  <2> QED
    BY <2>1, <2>2, <2>3, <2>4
<1>2. CASE UNCHANGED vars
  BY <1>2, PatchesFrame DEF vars, alcVars
<1>3. CASE UpdateProperties /\ UNCHANGED alcVars
  <2>1. phase # "done"
    BY <1>1, <1>3, UpdateControllers DEF AlcTypeOK
  <2>2. pc' = "idle" /\ \A k \in Kexts : ~image'[k].loaded
    BY <1>3, <2>1 DEF TypeInv, Control, alcVars, loopVars
  <2> QED
    BY <2>2 DEF PatchesApplied
<1>4. CASE LoadGfx
  <2>1. \A k \in Kexts \ {"AppleGFXHDA"} : image'[k] = image[k]
    BY <1>1, <1>4 DEF LoadGfx, AlcTypeOK
  <2>2. /\ pc = "idle"
        /\ UNCHANGED <<machine, controllers, nvidiaFind, currentFree, pc, kext>>
    BY <1>4 DEF LoadGfx, KextArrives, propVars, loopVars
  <2> QED
    BY <2>1, <2>2, PatchesKept DEF Carried
<1>5. ASSUME NEW k \in Kexts, LoadFirst(k) PROVE PatchesApplied'
  <2>1. /\ "ControllersLoaded" \notin progressState /\ LoadImage(k) /\ kext' = k
        /\ pc' = "controllers" /\ i' = 1 /\ j' = 1
    BY <1>5 DEF LoadFirst
  <2>2. image'[k].patches = {} /\ \A x \in Kexts \ {k} : image'[x] = image[x]
    BY <1>1, <2>1, LoadTyped DEF LoadImage
  <2>3. \A x \in Kexts \ {"AppleGFXHDA"} : image'[x].loaded => x = k
    BY <2>1, <2>2 DEF TypeInv, Control
  <2>4. Carried(kext, "controller")' = {}
    BY <2>1, <2>2 DEF Carried
  <2>5. controllers' \in Seq(ControllerInfo)
    BY DEF AlcTypeOK, PropTypeOK
  <2>6. CalledBefore(i, kext)' = {}
    <3>1. \A n \in DOMAIN controllers' : ~(n < i')
      BY <2>1, <2>5
    <3> QED
      BY <3>1 DEF CalledBefore
  <2>7. /\ i' <= Len(controllers') + 1
        /\ \A n \in DOMAIN controllers' :
             /\ ~(n < i')
             /\ \A p \in DOMAIN ControllerMod[controllers'[n].info].patches :
                  <<controllers'[n].info, p>> \in Slots => ~(p < j')
    <3>1. \A m, p : <<m, p>> \in Slots => p \in Nat \ {0}
      BY SlotsTyped
    <3> QED
      BY <2>1, <2>5, <3>1
  <2> QED
    BY <2>1, <2>3, <2>4, <2>6, <2>7 DEF PatchesApplied, Settled
<1>6. ASSUME NEW k \in Kexts, LoadDetect(k) \/ LoadOther(k) PROVE PatchesApplied'
  <2>1. /\ LoadImage(k) /\ kext' = k /\ pc = "idle" /\ k # "AppleGFXHDA"
        /\ pc' = "codecs" \/ (pc' = "controllers" /\ i' = 1 /\ j' = 1)
        /\ UNCHANGED <<machine, controllers, nvidiaFind, currentFree>>
    BY <1>6 DEF LoadDetect, LoadOther, KextArrives, propVars
  <2>2. image'[k].patches = {} /\ \A x \in Kexts \ {k} : image'[x] = image[x]
    BY <1>1, <2>1, LoadTyped DEF LoadImage
  <2>3. kext = "none"
    BY <2>1 DEF TypeInv, Control
  <2>4. \A b, x : CalledBefore(b, x)' = CalledBefore(b, x)
    BY <2>1, CalledSame
  <2>5. AllSettled => AllSettled'
    BY <1>1, <2>1, SettledKept
  <2>6. \A x \in Kexts \ {"AppleGFXHDA"} : image'[x].loaded /\ kext' # x =>
          AllSettled' /\ Carried(x, "controller")' = CalledBefore(Len(controllers) + 1, x)'
    <3> SUFFICES ASSUME NEW x \in Kexts \ {"AppleGFXHDA"}, image'[x].loaded, kext' # x
                 PROVE  AllSettled' /\ Carried(x, "controller")' = CalledBefore(Len(controllers) + 1, x)'
      OBVIOUS
    <3>1. image'[x] = image[x] /\ kext # x
      BY <1>1, <2>1, <2>2, <2>3
    <3>2. Carried(x, "controller")' = Carried(x, "controller")
      BY <3>1 DEF Carried
    <3>3. CalledBefore(Len(controllers) + 1, x)' = CalledBefore(Len(controllers) + 1, x)
      BY <2>1, <2>4 DEF CalledBefore
    <3> QED
      BY <2>5, <3>1, <3>2, <3>3 DEF PatchesApplied
  <2>7. Carried(kext, "controller")' = {}
    BY <2>1, <2>2 DEF Carried
  <2>8. pc' = "controllers" => CalledBefore(i, kext)' = {}
    <3>1. i' = 1 => \A n \in DOMAIN controllers' : ~(n < i')
      BY <1>1, <2>1
    <3> QED
      BY <2>1, <3>1 DEF CalledBefore
  <2>9. pc' = "controllers" =>
          /\ i' <= Len(controllers') + 1
          /\ \A n \in DOMAIN controllers' :
               /\ ~(n < i')
               /\ \A p \in DOMAIN ControllerMod[controllers'[n].info].patches :
                    <<controllers'[n].info, p>> \in Slots => ~(p < j')
    <3>1. \A m, p : <<m, p>> \in Slots => p \in Nat \ {0}
      BY SlotsTyped
    <3> QED
      BY <1>1, <2>1, <3>1
  <2> QED
    BY <2>1, <2>6, <2>7, <2>8, <2>9 DEF PatchesApplied, Settled
<1>7. ASSUME NEW k \in Kexts, Unload(k) PROVE PatchesApplied'
  <2>1. ~image'[k].loaded /\ \A x \in Kexts \ {k} : image'[x] = image[x]
    BY <1>1, <1>7, LoadTyped DEF Unload
  <2>2. pc = "idle" /\ UNCHANGED <<machine, controllers, nvidiaFind, currentFree, pc, kext>>
    BY <1>7 DEF Unload, propVars, loopVars
  <2> QED
    BY <2>1, <2>2, PatchesKept DEF Carried
<1>8. CASE LookForCodec \/ NextController \/ StartValidation \/ KeepCodec \/ EraseCodec
  <2>1. /\ pc \in {"codecs", "validate"}
        /\ pc' = pc \/ (pc = "codecs" /\ pc' = "validate")
        /\ UNCHANGED <<machine, controllers, nvidiaFind, currentFree, image, kext>>
    BY <1>8 DEF LookForCodec, NextController, StartValidation, KeepCodec, EraseCodec, Searching, propVars, loopVars
  <2> QED
    BY <2>1, PatchesKept DEF Carried
<1>9. CASE CodecsValidated
  <2>1. /\ pc = "validate" /\ pc' = "controllers" /\ i' = 1 /\ j' = 1
        /\ UNCHANGED <<machine, controllers, nvidiaFind, currentFree, image, kext>>
    BY <1>9 DEF CodecsValidated, propVars
  <2>2. \A b, x : CalledBefore(b, x)' = CalledBefore(b, x)
    BY <2>1, CalledSame
  <2>3. AllSettled => AllSettled'
    BY <1>1, <2>1, SettledKept
  <2>4. \A x \in Kexts \ {"AppleGFXHDA"} : image'[x].loaded /\ kext' # x =>
          AllSettled' /\ Carried(x, "controller")' = CalledBefore(Len(controllers) + 1, x)'
    <3> SUFFICES ASSUME NEW x \in Kexts \ {"AppleGFXHDA"}, image[x].loaded, kext # x
                 PROVE  AllSettled' /\ Carried(x, "controller")' = CalledBefore(Len(controllers) + 1, x)'
      BY <2>1
    <3>1. Carried(x, "controller")' = Carried(x, "controller")
      BY <2>1 DEF Carried
    <3>2. CalledBefore(Len(controllers) + 1, x)' = CalledBefore(Len(controllers) + 1, x)
      BY <2>1, <2>2 DEF CalledBefore
    <3> QED
      BY <2>3, <3>1, <3>2 DEF PatchesApplied
  <2>5. Carried(kext, "controller")' = {}
    BY <2>1 DEF Carried, PatchesApplied
  <2>6. CalledBefore(i, kext)' = {}
    <3>1. \A n \in DOMAIN controllers' : ~(n < i')
      BY <1>1, <2>1
    <3> QED
      BY <3>1 DEF CalledBefore
  <2>7. /\ i' <= Len(controllers') + 1
        /\ \A n \in DOMAIN controllers' :
             /\ ~(n < i')
             /\ \A p \in DOMAIN ControllerMod[controllers'[n].info].patches :
                  <<controllers'[n].info, p>> \in Slots => ~(p < j')
    <3>1. \A m, p : <<m, p>> \in Slots => p \in Nat \ {0}
      BY SlotsTyped
    <3> QED
      BY <1>1, <2>1, <3>1
  <2> QED
    BY <2>1, <2>4, <2>5, <2>6, <2>7 DEF PatchesApplied, Settled
<1>10. CASE ChooseId \/ NoIdLeft \/ NotPlaceholder
  BY <1>10, IdSettled
<1>11. CASE PatchController
  BY <1>11, ControllerPatched
<1>12. CASE ControllersPatched
  BY <1>12, LogsPatched
<1>13. CASE FinishKext
  <2>1. /\ pc = "finish" /\ pc' = "idle" /\ kext' = "none"
        /\ UNCHANGED <<machine, controllers, nvidiaFind, currentFree>>
    BY <1>13 DEF FinishKext, propVars
  <2>2. kext \in Kexts
    BY <1>1, <2>1 DEF TypeInv, Control
  <2>3. /\ image'[kext].patches = image[kext].patches \cup AllCodecPatches
        /\ \A x \in Kexts : image'[x].loaded = image[x].loaded
        /\ \A x \in Kexts \ {kext} : image'[x] = image[x]
    BY <1>1, <1>13, <2>2, FinishTyped
  <2>4. \A p \in AllCodecPatches : p.table # "controller"
    BY PatchesTable DEF AllCodecPatches
  <2>5. \A x \in Kexts : Carried(x, "controller")' = Carried(x, "controller")
    BY <2>3, <2>4 DEF Carried
  <2> QED
    BY <2>1, <2>3, <2>5, PatchesKept
<1>14. ASSUME NEW n \in DOMAIN nodes, PublishVendor(n) \/ PublishRevision(n) PROVE PatchesApplied'
  <2>1. UNCHANGED <<propVars, nvidiaFind, currentFree, image, loopVars>>
    BY <1>14 DEF PublishVendor, PublishRevision
  <2> QED
    BY <2>1, PatchesFrame
<1>15. ASSUME NEW type \in ResourceTypes, RequestResource(type) PROVE PatchesApplied'
  <2>1. UNCHANGED <<propVars, nvidiaFind, currentFree, image, loopVars>>
    BY <1>15 DEF RequestResource
  <2> QED
    BY <2>1, PatchesFrame
<1> QED
  BY <1>2, <1>3, <1>4, <1>5, <1>6, <1>7, <1>8, <1>9, <1>10, <1>11, <1>12, <1>13, <1>14, <1>15
  DEF AlcNext, ProcessKext

-----------------------------------------------------------------------------
(* The patches of the codecs.                                                 *)

\* What AppleHDA should carry once it is done with.
WantedInAppleHDA == UNION {CodecPatches(codecs[n].info, "AppleHDA") : n \in DOMAIN codecs}

LEMMA WantedSame ==
  ASSUME machine' = machine, codecs' = codecs PROVE WantedInAppleHDA' = WantedInAppleHDA
<1>1. \A m : Applicable(CodecMod[m].patches, "AppleHDA")' = Applicable(CodecMod[m].patches, "AppleHDA")
  BY DEF Applicable, CompatibleKernel
<1>2. \A m : CodecPatches(m, "AppleHDA")' = CodecPatches(m, "AppleHDA")
  BY <1>1 DEF CodecPatches
<1> QED
  BY <1>2 DEF WantedInAppleHDA

LEMMA CodecPatchedIs ==
  CodecPatched <=>
    /\ image["AppleHDA"].loaded /\ kext # "AppleHDA" => Carried("AppleHDA", "codec") = WantedInAppleHDA
    /\ pc # "idle" => Carried(kext, "codec") = {}
BY DEF CodecPatched, CodecPatchesInAppleHDA, Carried, WantedInAppleHDA

LEMMA CodecPatchedKept ==
  ASSUME TypeInv, CodecPatched, machine' = machine, kext' = kext, pc' # "idle" => pc # "idle",
         codecs' = codecs \/ kext = "AppleHDA",
         \A k \in Kexts \ {"AppleGFXHDA"} :
           image'[k].loaded => image[k].loaded /\ Carried(k, "codec")' = Carried(k, "codec"),
         \A k \in Kexts \ {"AppleGFXHDA"} : kext = k => image'[k].loaded
  PROVE  CodecPatched'
<1>1. "AppleHDA" \in Kexts \ {"AppleGFXHDA"}
  BY DEF Kexts
<1>2. image'["AppleHDA"].loaded /\ kext' # "AppleHDA" => Carried("AppleHDA", "codec")' = WantedInAppleHDA'
  <2> SUFFICES ASSUME image'["AppleHDA"].loaded, kext' # "AppleHDA"
               PROVE  Carried("AppleHDA", "codec")' = WantedInAppleHDA'
    OBVIOUS
  <2>1. Carried("AppleHDA", "codec")' = Carried("AppleHDA", "codec") /\ image["AppleHDA"].loaded
    BY <1>1
  <2>2. WantedInAppleHDA' = WantedInAppleHDA
    BY WantedSame
  <2>3. Carried("AppleHDA", "codec") = WantedInAppleHDA
    BY <2>1, CodecPatchedIs
  <2> QED
    BY <2>1, <2>2, <2>3
<1>3. pc' # "idle" => Carried(kext, "codec")' = {}
  <2> SUFFICES ASSUME pc' # "idle" PROVE Carried(kext, "codec")' = {}
    OBVIOUS
  <2>1. kext \in Kexts \ {"AppleGFXHDA"} /\ Carried(kext, "codec") = {}
    BY CodecPatchedIs DEF TypeInv, AlcTypeOK, Control
  <2>2. PICK k \in Kexts \ {"AppleGFXHDA"} : k = kext
    BY <2>1
  <2>3. Carried(k, "codec")' = Carried(k, "codec")
    BY <2>2
  <2> QED
    BY <2>1, <2>2, <2>3 DEF Carried
<1> QED
  BY <1>2, <1>3 DEF CodecPatched, CodecPatchesInAppleHDA, Carried, WantedInAppleHDA

LEMMA CodecPatchedStep == TypeInv /\ CodecsFound /\ Detected /\ CodecPatched /\ [AlcNext]_vars => CodecPatched'
<1> SUFFICES ASSUME TypeInv, CodecsFound, Detected, CodecPatched, [AlcNext]_vars PROVE CodecPatched'
  OBVIOUS
<1>1. AlcTypeOK /\ kext \in Kexts \cup {"none"} /\ "none" \notin Kexts /\ "AppleHDA" \in Kexts
  BY DEF TypeInv, AlcTypeOK, Kexts
<1>0. \A k \in Kexts \ {"AppleGFXHDA"} : kext = k => image[k].loaded
  BY <1>1 DEF TypeInv, Control
<1>2. ASSUME UNCHANGED <<machine, kext, pc, codecs, image>> PROVE CodecPatched'
  BY <1>0, <1>2, CodecPatchedKept DEF Carried
<1>3. CASE UNCHANGED vars
  BY <1>2, <1>3 DEF vars, propVars, alcVars, loopVars
<1>4. CASE UpdateProperties /\ UNCHANGED alcVars
  <2>1. phase # "done" /\ machine' = machine
    BY <1>1, <1>4, UpdateControllers DEF AlcTypeOK
  <2> QED
    BY <1>2, <1>4, <2>1 DEF alcVars, loopVars
<1>5. CASE LoadGfx
  <2>1. \A k \in Kexts \ {"AppleGFXHDA"} : image'[k] = image[k]
    BY <1>1, <1>5 DEF LoadGfx, AlcTypeOK
  <2>2. UNCHANGED <<machine, kext, pc, codecs>>
    BY <1>5 DEF LoadGfx, propVars, loopVars
  <2> QED
    BY <1>0, <2>1, <2>2, CodecPatchedKept DEF Carried
<1>6. ASSUME NEW k \in Kexts, LoadFirst(k) \/ LoadDetect(k) \/ LoadOther(k) PROVE CodecPatched'
  <2>1. pc = "idle" /\ kext' = k /\ LoadImage(k) /\ UNCHANGED <<machine, codecs>>
    BY <1>6 DEF LoadFirst, LoadDetect, LoadOther, KextArrives, propVars
  <2>2. image'[k].patches = {} /\ \A x \in Kexts \ {k} : image'[x] = image[x]
    BY <1>1, <2>1, LoadTyped DEF LoadImage
  <2>3. kext = "none"
    BY <2>1 DEF TypeInv, Control
  <2>4. Carried(kext, "codec")' = {}
    BY <2>1, <2>2 DEF Carried
  <2>5. image'["AppleHDA"].loaded /\ kext' # "AppleHDA" => Carried("AppleHDA", "codec")' = WantedInAppleHDA'
    <3> SUFFICES ASSUME image'["AppleHDA"].loaded, k # "AppleHDA"
                 PROVE  Carried("AppleHDA", "codec")' = WantedInAppleHDA'
      BY <2>1
    <3>1. image'["AppleHDA"] = image["AppleHDA"]
      BY <1>1, <2>2
    <3>2. Carried("AppleHDA", "codec")' = Carried("AppleHDA", "codec")
      BY <3>1 DEF Carried
    <3>3. Carried("AppleHDA", "codec") = WantedInAppleHDA
      BY <1>1, <2>3, <3>1, CodecPatchedIs
    <3> QED
      BY <2>1, <3>2, <3>3, WantedSame
  <2> QED
    BY <2>4, <2>5 DEF CodecPatched, CodecPatchesInAppleHDA, Carried, WantedInAppleHDA
<1>7. ASSUME NEW k \in Kexts, Unload(k) PROVE CodecPatched'
  <2>1. ~image'[k].loaded /\ \A x \in Kexts \ {k} : image'[x] = image[x]
    BY <1>1, <1>7, LoadTyped DEF Unload
  <2>2. pc = "idle" /\ UNCHANGED <<machine, kext, pc, codecs>>
    BY <1>7 DEF Unload, propVars, loopVars
  <2>3. kext \notin Kexts
    BY <1>1, <2>2 DEF TypeInv, Control
  <2> QED
    BY <2>1, <2>2, <2>3, CodecPatchedKept DEF Carried
<1>8. CASE LookForCodec \/ NextController \/ StartValidation \/ KeepCodec \/ EraseCodec \/ CodecsValidated
  <2>1. pc \in {"codecs", "validate"} /\ UNCHANGED <<machine, kext, image>>
    BY <1>8 DEF LookForCodec, NextController, StartValidation, KeepCodec, EraseCodec, CodecsValidated,
                Searching, propVars, loopVars
  <2>2. kext = "AppleHDA" /\ pc # "idle"
    BY <2>1 DEF TypeInv, Control
  <2> QED
    BY <1>0, <2>1, <2>2, CodecPatchedKept DEF Carried
<1>9. CASE ChooseId \/ NoIdLeft \/ NotPlaceholder
  BY <1>2, <1>9 DEF ChooseId, NoIdLeft, NotPlaceholder, propVars
<1>10. CASE PatchController \/ ControllersPatched
  <2>1. /\ pc = "controllers" /\ UNCHANGED <<machine, kext, codecs>>
        /\ PatchController => image' = [image EXCEPT ![kext].patches = @ \cup PatchesFor(controllers[i])]
        /\ ControllersPatched => image' = [image EXCEPT ![kext].patches = @ \cup LogPatch(kext)]
    BY <1>10 DEF PatchController, ControllersPatched, Patching, propVars
  <2>2. kext \in Kexts /\ image[kext].loaded
    BY <1>1, <2>1 DEF TypeInv, Control
  <2>3. PICK new \in SUBSET AppliedPatch :
          /\ image' = [image EXCEPT ![kext].patches = @ \cup new]
          /\ \A p \in new : p.table # "codec"
    <3>1. CASE ControllersPatched
      BY <1>1, <2>1, <2>2, <3>1, PatchesTyped, PatchesTable
    <3>2. CASE PatchController
      <4>1. controllers \in Seq(ControllerInfo) /\ i \in Nat /\ i >= 1 /\ i <= Len(controllers)
        BY <1>1, <2>1, <3>2 DEF PatchController, Patching, TypeInv, Control, AlcTypeOK, PropTypeOK
      <4>2. i \in DOMAIN controllers
        BY <4>1
      <4>3. controllers[i].info # 0 => controllers[i].info \in DOMAIN ControllerMod
        BY <4>2 DEF Detected
      <4>4. PatchesFor(controllers[i]) \in SUBSET AppliedPatch
            /\ \A p \in PatchesFor(controllers[i]) : p.table # "codec"
        BY <1>1, <2>2, <4>3, PatchesTyped, PatchesTable DEF PatchesFor
      <4> QED
        BY <2>1, <3>2, <4>4
    <3> QED
      BY <1>10, <3>1, <3>2
  <2>4. /\ image'[kext].patches = image[kext].patches \cup new /\ image'[kext].loaded
        /\ \A x \in Kexts \ {kext} : image'[x] = image[x]
    BY <1>1, <2>2, <2>3, PatchTyped
  <2>5. \A x \in Kexts : Carried(x, "codec")' = Carried(x, "codec")
    BY <2>3, <2>4 DEF Carried
  <2>6. \A x \in Kexts : image'[x].loaded = image[x].loaded \/ (image'[x].loaded /\ image[x].loaded)
    BY <2>2, <2>4
  <2> QED
    BY <1>0, <2>1, <2>5, <2>6, CodecPatchedKept
<1>11. CASE FinishKext
  <2>1. /\ pc = "finish" /\ pc' = "idle" /\ kext' = "none" /\ UNCHANGED <<machine, codecs>>
    BY <1>11 DEF FinishKext, propVars
  <2>2. kext \in Kexts
    BY <1>1, <2>1 DEF TypeInv, Control
  <2>3. /\ image'[kext].patches = image[kext].patches \cup AllCodecPatches
        /\ \A x \in Kexts : image'[x].loaded = image[x].loaded
        /\ \A x \in Kexts \ {kext} : image'[x] = image[x]
    BY <1>1, <1>11, <2>2, FinishTyped
  <2>4. image'["AppleHDA"].loaded => Carried("AppleHDA", "codec")' = WantedInAppleHDA
    <3>1. CASE kext = "AppleHDA"
      <4>1. Carried("AppleHDA", "codec") = {}
        BY <2>1, <3>1, CodecPatchedIs
      <4>2. AllCodecPatches = WantedInAppleHDA
        <5>1. CASE "CodecsLoaded" \in progressState
          BY <3>1, <5>1 DEF AllCodecPatches, WantedInAppleHDA
        <5>2. CASE "CodecsLoaded" \notin progressState
          <6>1. codecs = <<>>
            BY <2>1, <5>2 DEF CodecsFound
          <6>2. DOMAIN codecs = {}
            BY <6>1
          <6> QED
            BY <5>2, <6>2 DEF AllCodecPatches, WantedInAppleHDA
        <5> QED
          BY <5>1, <5>2
      <4>3. \A p \in AllCodecPatches : p.table = "codec"
        BY PatchesTable DEF AllCodecPatches
      <4>4. Carried("AppleHDA", "codec")' = Carried("AppleHDA", "codec") \cup AllCodecPatches
        BY <2>3, <3>1, <4>3 DEF Carried
      <4> QED
        BY <4>1, <4>2, <4>4
    <3>2. CASE kext # "AppleHDA"
      <4>1. image'["AppleHDA"] = image["AppleHDA"]
        BY <1>1, <2>3, <3>2
      <4>2. Carried("AppleHDA", "codec")' = Carried("AppleHDA", "codec")
        BY <4>1 DEF Carried
      <4> QED
        BY <3>2, <4>1, <4>2, CodecPatchedIs
    <3> QED
      BY <3>1, <3>2
  <2>5. WantedInAppleHDA' = WantedInAppleHDA
    BY <2>1, WantedSame
  <2> QED
    BY <2>1, <2>4, <2>5 DEF CodecPatched, CodecPatchesInAppleHDA, Carried, WantedInAppleHDA
<1>12. ASSUME NEW n \in DOMAIN nodes, PublishVendor(n) \/ PublishRevision(n) PROVE CodecPatched'
  BY <1>2, <1>12 DEF PublishVendor, PublishRevision, propVars, loopVars
<1>13. ASSUME NEW type \in ResourceTypes, RequestResource(type) PROVE CodecPatched'
  BY <1>2, <1>13 DEF RequestResource, propVars, loopVars
<1> QED
  BY <1>3, <1>4, <1>5, <1>6, <1>7, <1>8, <1>9, <1>10, <1>11, <1>12, <1>13 DEF AlcNext, ProcessKext

-----------------------------------------------------------------------------
(* The resources the callbacks serve.                                         *)

\* A resource that was served stays right: the codecs it was taken from do not
\* change any more.
LEMMA ServedKept ==
  ASSUME ResourceServed, resource' = resource, progressState \subseteq progressState',
         "CodecsLoaded" \in progressState => UNCHANGED <<codecs, hdef, machine>>,
         pc' # "idle" => image'[kext'].routed = {}
  PROVE  ResourceServed'
<1>1. \A type \in ResourceTypes : resource'[type] # 0 => "CodecsLoaded" \in progressState'
  BY DEF ResourceServed
<1>2. ResourceFits'
  <2>1. CASE "CodecsLoaded" \in progressState
    <3>1. codecs' = codecs /\ hdef' = hdef /\ machine' = machine
      BY <2>1
    <3> QED
      BY <3>1 DEF ResourceServed, ResourceFits, CompatibleKernel
  <2>2. CASE "CodecsLoaded" \notin progressState
    BY <2>2 DEF ResourceServed, ResourceFits
  <2> QED
    BY <2>1, <2>2
<1> QED
  BY <1>1, <1>2 DEF ResourceServed

LEMMA ResourceServedStep ==
  TypeInv /\ Detected /\ CodecsFound /\ ResourceServed /\ [AlcNext]_vars => ResourceServed'
<1> SUFFICES ASSUME TypeInv, Detected, CodecsFound, ResourceServed, [AlcNext]_vars PROVE ResourceServed'
  OBVIOUS
<1>1. AlcTypeOK /\ kext \in Kexts \cup {"none"} /\ "none" \notin Kexts
  BY DEF TypeInv, AlcTypeOK, Kexts
<1>2. pc # "idle" => kext \in Kexts /\ image[kext].routed = {} /\ image[kext].loaded
  BY <1>1 DEF TypeInv, Control, ResourceServed
<1>3. CASE UNCHANGED vars
  BY <1>2, <1>3, ServedKept DEF vars, propVars, alcVars, loopVars, devices
<1>4. CASE UpdateProperties /\ UNCHANGED alcVars
  <2>1. phase # "done"
    BY <1>1, <1>4, UpdateControllers DEF AlcTypeOK
  <2>2. progressState = {}
    BY <2>1 DEF TypeInv, Control
  <2> QED
    BY <1>2, <1>4, <2>2, ServedKept DEF alcVars, loopVars
<1>5. CASE LoadGfx
  <2>1. pc' = "idle" /\ UNCHANGED <<codecs, hdef, machine, resource, progressState>>
    BY <1>5 DEF LoadGfx, KextArrives, propVars, loopVars, devices
  <2> QED
    BY <2>1, ServedKept
<1>6. ASSUME NEW k \in Kexts, LoadFirst(k) \/ LoadDetect(k) \/ LoadOther(k) PROVE ResourceServed'
  <2>1. /\ kext' = k /\ LoadImage(k) /\ UNCHANGED <<codecs, hdef, machine, resource>>
        /\ progressState \subseteq progressState'
    BY <1>6 DEF LoadFirst, LoadDetect, LoadOther, KextArrives, propVars, devices
  <2>2. image'[k].routed = {}
    BY <1>1, <2>1, LoadTyped DEF LoadImage
  <2> QED
    BY <2>1, <2>2, ServedKept
<1>7. ASSUME NEW k \in Kexts, Unload(k) PROVE ResourceServed'
  <2>1. pc' = "idle" /\ UNCHANGED <<codecs, hdef, machine, resource, progressState>>
    BY <1>7 DEF Unload, propVars, loopVars, devices
  <2> QED
    BY <2>1, ServedKept
<1>8. CASE LookForCodec \/ NextController \/ StartValidation \/ KeepCodec \/ EraseCodec \/ CodecsValidated
  <2>1. /\ pc \in {"codecs", "validate"} /\ UNCHANGED <<kext, image, resource>>
        /\ progressState \subseteq progressState'
    BY <1>8 DEF LookForCodec, NextController, StartValidation, KeepCodec, EraseCodec, CodecsValidated,
                Searching, propVars, loopVars
  <2>2. "CodecsLoaded" \notin progressState /\ pc # "idle"
    BY <2>1 DEF TypeInv, Control
  <2> QED
    BY <1>2, <2>1, <2>2, ServedKept
<1>9. CASE ChooseId \/ NoIdLeft \/ NotPlaceholder
  <2>1. /\ pc = "controllers" /\ UNCHANGED <<kext, image, resource, progressState, codecs, hdef, machine>>
    BY <1>9 DEF ChooseId, NoIdLeft, NotPlaceholder, IdsPending, Patching, propVars, devices
  <2> QED
    BY <1>2, <2>1, ServedKept
<1>10. CASE PatchController \/ ControllersPatched
  <2>1. /\ pc = "controllers" /\ UNCHANGED <<kext, resource, progressState, codecs, hdef, machine>>
    BY <1>10 DEF PatchController, ControllersPatched, Patching, propVars, devices
  <2>2. image'[kext].routed = image[kext].routed
    <3>1. \E new : image' = [image EXCEPT ![kext].patches = @ \cup new]
      BY <1>10 DEF PatchController, ControllersPatched
    <3>2. image \in [Kexts -> LoadedKext]
      BY <1>1 DEF AlcTypeOK
    <3> QED
      BY <1>2, <2>1, <3>1, <3>2 DEF LoadedKext
  <2> QED
    BY <1>2, <2>1, <2>2, ServedKept
<1>11. CASE FinishKext
  <2>1. /\ pc' = "idle" /\ UNCHANGED <<resource, codecs, hdef, machine>> /\ progressState \subseteq progressState'
    BY <1>11 DEF FinishKext, propVars, devices
  <2> QED
    BY <2>1, ServedKept
<1>12. ASSUME NEW n \in DOMAIN nodes, PublishVendor(n) \/ PublishRevision(n) PROVE ResourceServed'
  <2>1. UNCHANGED <<pc, kext, image, resource, progressState, codecs, hdef, machine>>
    BY <1>12 DEF PublishVendor, PublishRevision, propVars, loopVars, devices
  <2> QED
    BY <1>2, <2>1, ServedKept
<1>13. ASSUME NEW type \in ResourceTypes, RequestResource(type) PROVE ResourceServed'
  <2>1. /\ UNCHANGED <<pc, kext, image, progressState, codecs, hdef, machine>>
        /\ CallbackOf[type] \in image["AppleHDA"].routed
        /\ resource' = [resource EXCEPT ![type] = UpdateResource(type)]
        /\ resource \in [ResourceTypes -> Nat]
    BY <1>1, <1>13 DEF RequestResource, propVars, loopVars, devices, AlcTypeOK
  <2>2. resource'[type] = UpdateResource(type) /\ \A t \in ResourceTypes \ {type} : resource'[t] = resource[t]
    BY <2>1
  <2>3. pc \notin {"codecs", "validate"}
    <3>1. pc \in {"codecs", "validate"} => image["AppleHDA"].routed = {}
      BY <1>2 DEF TypeInv, Control
    <3> QED
      BY <2>1, <3>1
  <2> DEFINE hits == {n \in DOMAIN codecs : codecs[n].info # 0 /\ FileFor(codecs[n], type) # 0}
  <2>4. ASSUME UpdateResource(type) # 0
        PROVE  /\ "CodecsLoaded" \in progressState
               /\ \E n \in DOMAIN codecs :
                    /\ UpdateResource(type) \in DOMAIN Files(codecs[n].info, type)
                    /\ Files(codecs[n].info, type)[UpdateResource(type)].layout = hdef.alcLayout
                    /\ CompatibleKernel(Files(codecs[n].info, type)[UpdateResource(type)])
    <3>1. hits # {} /\ UpdateResource(type) = FileFor(codecs[CHOOSE n \in hits : \A k \in hits : k <= n], type)
      BY <2>4 DEF UpdateResource
    <3>2. \A n \in hits : n = 1
      BY <1>1 DEF CodecsFound, AlcTypeOK
    <3>3. 1 \in hits /\ \A k \in hits : k <= 1
      BY <3>1, <3>2
    <3>4. (CHOOSE n \in hits : \A k \in hits : k <= n) = 1
      BY <3>2, <3>3
    <3>5. 1 \in DOMAIN codecs /\ FileFor(codecs[1], type) # 0 /\ UpdateResource(type) = FileFor(codecs[1], type)
      BY <3>1, <3>3, <3>4
    <3>6. "CodecsLoaded" \in progressState
      <4>1. codecs # <<>>
        BY <3>5
      <4> QED
        BY <2>3, <4>1 DEF CodecsFound
    <3>7. /\ FileFor(codecs[1], type) \in DOMAIN Files(codecs[1].info, type)
          /\ Files(codecs[1].info, type)[FileFor(codecs[1], type)].layout =
               controllers[codecs[1].controller].layout
          /\ CompatibleKernel(Files(codecs[1].info, type)[FileFor(codecs[1], type)])
      <4> DEFINE fits == {f \in DOMAIN Files(codecs[1].info, type) :
                            /\ Files(codecs[1].info, type)[f].layout = controllers[codecs[1].controller].layout
                            /\ CompatibleKernel(Files(codecs[1].info, type)[f])}
      <4>1. FileFor(codecs[1], type) \in fits
        BY <3>5, LeastOrZeroIn DEF FileFor
      <4> QED
        BY <4>1
    <3>8. controllers[codecs[1].controller].layout = hdef.alcLayout
      <4>1. controllers[codecs[1].controller].detect
        BY <3>5 DEF CodecsFound
      <4>2. codecs[1].controller \in DOMAIN controllers
        BY <1>1, <3>5 DEF AlcTypeOK
      <4> QED
        BY <4>1, <4>2 DEF Detected
    <3> QED
      BY <3>5, <3>6, <3>7, <3>8
  <2>5. \A t \in ResourceTypes : resource'[t] # 0 =>
          /\ "CodecsLoaded" \in progressState
          /\ \E n \in DOMAIN codecs :
               /\ resource'[t] \in DOMAIN Files(codecs[n].info, t)
               /\ Files(codecs[n].info, t)[resource'[t]].layout = hdef.alcLayout
               /\ CompatibleKernel(Files(codecs[n].info, t)[resource'[t]])
    <3> SUFFICES ASSUME NEW t \in ResourceTypes, resource'[t] # 0
                 PROVE  /\ "CodecsLoaded" \in progressState
                        /\ \E n \in DOMAIN codecs :
                             /\ resource'[t] \in DOMAIN Files(codecs[n].info, t)
                             /\ Files(codecs[n].info, t)[resource'[t]].layout = hdef.alcLayout
                             /\ CompatibleKernel(Files(codecs[n].info, t)[resource'[t]])
      OBVIOUS
    <3>1. CASE t = type
      BY <2>2, <2>4, <3>1
    <3>2. CASE t # type
      BY <2>2, <3>2 DEF ResourceServed, ResourceFits
    <3> QED
      BY <3>1, <3>2
  <2>6. ResourceFits'
    <3>1. codecs' = codecs /\ hdef' = hdef /\ machine' = machine
      BY <2>1
    <3> QED
      BY <2>5, <3>1 DEF ResourceFits, CompatibleKernel
  <2>7. pc' # "idle" => image'[kext'].routed = {}
    BY <1>2, <2>1
  <2> QED
    BY <2>1, <2>5, <2>6, <2>7 DEF ResourceServed
<1> QED
  BY <1>3, <1>4, <1>5, <1>6, <1>7, <1>8, <1>9, <1>10, <1>11, <1>12, <1>13 DEF AlcNext, ProcessKext

-----------------------------------------------------------------------------
(* The whole invariant, and what follows from it.                             *)

LEMMA AlcTypeInit == AlcInit => TypeInv
<1> SUFFICES ASSUME AlcInit PROVE TypeInv
  OBVIOUS
<1>1. PropTypeOK
  BY PropTypeInit DEF AlcInit
<1>2. image \in [Kexts -> LoadedKext]
  BY DEF AlcInit, LoadedKext
<1>3. machine \in Machines
  BY DEF AlcInit, Init
<1>4. nodes \in [DOMAIN machine.codecNodes -> {"absent", "vendor", "complete"}]
  BY DEF AlcInit
<1>5. nvidiaFind \in [Slots -> 0 .. Len(NvidiaIds)] /\ Len(NvidiaIds) \in Nat
  BY DEF AlcInit
<1>6. \A k \in Kexts : ~image[k].loaded /\ image[k].patches = {} /\ image[k].routed = {}
  BY DEF AlcInit
<1>7. /\ progressState = {} /\ codecs = <<>> /\ currentFree = 1 /\ pc = "idle" /\ kext = "none"
      /\ i = 0 /\ j = 0 /\ brute = 0 /\ found = FALSE
  BY DEF AlcInit
<1>8. resource \in [ResourceTypes -> Nat]
  BY DEF AlcInit
<1>9. AlcTypeOK
  <2>1. /\ currentFree \in 1 .. Len(NvidiaIds) + 1 /\ brute \in 0 .. BruteMax
        /\ codecs \in Seq(CodecInfo) /\ DOMAIN codecs = {}
    BY <1>5, <1>7
  <2> QED
    BY <1>1, <1>2, <1>4, <1>5, <1>6, <1>7, <1>8, <2>1 DEF AlcTypeOK
<1>10. Control
  BY <1>6, <1>7 DEF Control
<1> QED
  BY <1>9, <1>10 DEF TypeInv

LEMMA AlcInvInit == AlcInit => AlcInv
<1> SUFFICES ASSUME AlcInit PROVE AlcInv
  OBVIOUS
<1>1. TypeInv
  BY AlcTypeInit
<1>2. /\ controllers = <<>> /\ codecs = <<>> /\ progressState = {} /\ pc = "idle"
      /\ DOMAIN controllers = {} /\ DOMAIN codecs = {} /\ Len(codecs) = 0
      /\ \A s \in Slots : nvidiaFind[s] = 0
      /\ \A k \in Kexts : ~image[k].loaded
      /\ \A t \in ResourceTypes : resource[t] = 0
  BY DEF AlcInit, Init
<1>3. Detected /\ CodecsFound
  BY <1>2 DEF Detected, CodecsFound
<1>4. IdsTaken
  BY <1>2, NoIdYet DEF IdsTaken, IdsReserved
<1>5. PatchesApplied
  BY <1>2 DEF PatchesApplied
<1>6. CodecPatched
  BY <1>2 DEF CodecPatched, CodecPatchesInAppleHDA, Kexts
<1>7. ResourceServed
  BY <1>2 DEF ResourceServed, ResourceFits
<1> QED
  BY <1>1, <1>3, <1>4, <1>5, <1>6, <1>7 DEF AlcInv

LEMMA AlcInvStep == AlcInv /\ [AlcNext]_vars => AlcInv'
<1> SUFFICES ASSUME AlcInv, [AlcNext]_vars PROVE AlcInv'
  OBVIOUS
<1>1. AlcTypeOK' /\ Control'
  BY AlcTypeStep, ControlStep DEF AlcInv
<1> QED
  BY <1>1, DetectedStep, CodecsFoundStep, IdsTakenStep, PatchesAppliedStep, CodecPatchedStep,
     ResourceServedStep DEF AlcInv, TypeInv

LEMMA AlcInvHolds == AlcSpec => []AlcInv
BY AlcInvInit, AlcInvStep, PTL DEF AlcSpec

\* The whole state of the boot pipeline keeps its type, whatever the order of
\* kexts, nodes and requests (kern_alc.cpp 533-648, 650-790).
THEOREM AlcTypeCorrect == AlcSpec => []AlcTypeOK
<1>1. AlcInv => AlcTypeOK
  BY DEF AlcInv, TypeInv
<1> QED
  BY <1>1, AlcInvHolds, PTL

\* However often kexts are loaded, no NVIDIA id is handed out twice, nor is the
\* id of a registered digital controller (kern_alc.cpp 164-170, 570-588).
THEOREM NvidiaIdsCorrect == AlcSpec => []NvidiaIdsExclusive
<1>1. AlcInv => NvidiaIdsExclusive
  BY DEF AlcInv, IdsTaken
<1> QED
  BY <1>1, AlcInvHolds, PTL

\* A kext that is done with carries exactly the patches the matched controllers
\* call for, with the ids in force (kern_alc.cpp 549-595).
THEOREM ControllerPatchesCorrect == AlcSpec => []ControllerPatchesExact
<1>1. AlcInv => ControllerPatchesExact
  <2> SUFFICES ASSUME AlcInv, NEW k \in Kexts \ {"AppleGFXHDA"}, image[k].loaded, kext # k
               PROVE  {p \in image[k].patches : p.table = "controller"} =
                      UNION {ControllerPatches(c.info, k) : c \in {x \in Registered : x.info # 0 /\ ~x.nopatch}}
    BY DEF ControllerPatchesExact
  <2>1. {p \in image[k].patches : p.table = "controller"} = CalledBefore(Len(controllers) + 1, k)
    BY DEF AlcInv, PatchesApplied, Carried
  <2>2. \A n \in DOMAIN controllers : n < Len(controllers) + 1
    BY DEF AlcInv, TypeInv, AlcTypeOK, PropTypeOK
  <2>3. \A x : x \in CalledBefore(Len(controllers) + 1, k) <=>
          \E n \in DOMAIN controllers : x \in CallFor(controllers[n], k)
    BY <2>2 DEF CalledBefore
  <2>4. \A x : (\E n \in DOMAIN controllers : x \in CallFor(controllers[n], k)) <=>
               \E c \in Registered : c.info # 0 /\ ~c.nopatch /\ x \in ControllerPatches(c.info, k)
    BY DEF CallFor, Registered
  <2> QED
    BY <2>1, <2>3, <2>4
<1> QED
  BY <1>1, AlcInvHolds, PTL

\* AppleHDA, once done with, carries the patches of the codec found and of no
\* other (kern_alc.cpp 552-557, 602-617).
THEOREM CodecPatchesCorrect == AlcSpec => []CodecPatchesInAppleHDA
<1>1. AlcInv => CodecPatchesInAppleHDA
  BY DEF AlcInv, CodecPatched
<1> QED
  BY <1>1, AlcInvHolds, PTL

\* A codec that is kept was read complete, is in the table and sits below the
\* analog controller, and there is at most one (kern_alc.cpp 680-772, 812-861).
THEOREM CodecsCorrect == AlcSpec => []CodecsSuitable
<1>1. AlcInv => CodecsSuitable
  <2> SUFFICES ASSUME AlcInv, pc \notin {"codecs", "validate"}
               PROVE  /\ ("CodecsLoaded" \in progressState) <=> (codecs # <<>>)
                      /\ Len(codecs) <= 1
                      /\ \A n \in DOMAIN codecs :
                           /\ controllers[codecs[n].controller].detect
                           /\ \E m \in DOMAIN machine.codecNodes :
                                /\ nodes[m] = "complete" /\ machine.codecNodes[m].valid
                                /\ codecs[n].codec = machine.codecNodes[m].codec
                                /\ LET e == CodecMod[codecs[n].info]
                                   IN  /\ e.vendor = machine.codecNodes[m].vendor
                                       /\ e.codec = machine.codecNodes[m].codec
                                       /\ e.revisions = {} \/ machine.codecNodes[m].revision \in e.revisions
    BY DEF CodecsSuitable
  <2>1. /\ ("CodecsLoaded" \in progressState) <=> (codecs # <<>>)
        /\ Len(codecs) <= 1
        /\ \A n \in DOMAIN codecs :
             controllers[codecs[n].controller].detect /\ FromNode(codecs[n]) /\ Entered(codecs[n])
    BY DEF AlcInv, CodecsFound
  <2>2. ASSUME NEW n \in DOMAIN codecs
        PROVE  \E m \in DOMAIN machine.codecNodes :
                 /\ nodes[m] = "complete" /\ machine.codecNodes[m].valid
                 /\ codecs[n].codec = machine.codecNodes[m].codec
                 /\ LET e == CodecMod[codecs[n].info]
                    IN  /\ e.vendor = machine.codecNodes[m].vendor
                        /\ e.codec = machine.codecNodes[m].codec
                        /\ e.revisions = {} \/ machine.codecNodes[m].revision \in e.revisions
    <3>1. CodecEntry(codecs[n]) # 0 /\ codecs[n].info = CodecEntry(codecs[n])
      BY <2>1 DEF Entered
    <3>2. LET e == CodecMod[codecs[n].info]
          IN  /\ e.vendor = codecs[n].vendor /\ e.codec = codecs[n].codec
              /\ e.revisions = {} \/ codecs[n].revision \in e.revisions
      BY <3>1, CodecEntryIs
    <3> QED
      BY <2>1, <3>2 DEF FromNode
  <2> QED
    BY <2>1, <2>2
<1> QED
  BY <1>1, AlcInvHolds, PTL

\* A resource is served for the layout of the codec's controller and for this
\* kernel (kern_alc.cpp 650-678).
THEOREM ResourceCorrect == AlcSpec => []ResourceFits
<1>1. AlcInv => ResourceFits
  BY DEF AlcInv, ResourceServed
<1> QED
  BY <1>1, AlcInvHolds, PTL

-----------------------------------------------------------------------------
(* What a step may do to the detection and to the search.                     *)

\* Every step but those of the search leaves found alone, and no node takes
\* back what it has published.
LEMMA FoundKept ==
  ASSUME TypeInv, [AlcNext]_vars
  PROVE  /\ found' = found \/ ~found' \/ LookForCodec
         /\ DOMAIN nodes' = DOMAIN nodes
         /\ \A n \in DOMAIN nodes : nodes[n] = "complete" => nodes'[n] = "complete"
<1> DEFINE Kept == /\ found' = found \/ ~found' \/ LookForCodec
                   /\ nodes' = nodes
           Grown == /\ found' = found /\ DOMAIN nodes' = DOMAIN nodes
                    /\ \A n \in DOMAIN nodes : nodes[n] = "complete" => nodes'[n] = "complete"
<1>1. UNCHANGED vars \/ (UpdateProperties /\ UNCHANGED alcVars) \/ LoadGfx => Kept
  BY DEF vars, alcVars, loopVars, LoadGfx
<1>2. \A k \in Kexts : LoadFirst(k) \/ LoadDetect(k) \/ LoadOther(k) \/ Unload(k) => Kept
  BY DEF LoadFirst, LoadDetect, LoadOther, Unload, loopVars
<1>3. LookForCodec \/ NextController \/ StartValidation \/ KeepCodec \/ EraseCodec \/ CodecsValidated => Kept
  <2>1. LookForCodec => Kept
    <3>1. LookForCodec => nodes' = nodes
      BY DEF LookForCodec
    <3> QED
      BY <3>1
  <2>2. NextController \/ StartValidation \/ KeepCodec \/ EraseCodec \/ CodecsValidated => Kept
    BY DEF NextController, StartValidation, KeepCodec, EraseCodec, CodecsValidated, loopVars
  <2> QED
    BY <2>1, <2>2
<1>4. ChooseId \/ NoIdLeft \/ NotPlaceholder \/ PatchController \/ ControllersPatched \/ FinishKext => Kept
  BY DEF ChooseId, NoIdLeft, NotPlaceholder, PatchController, ControllersPatched, FinishKext
<1>5. \A n \in DOMAIN nodes : PublishVendor(n) \/ PublishRevision(n) => Grown
  BY DEF PublishVendor, PublishRevision, loopVars
<1>6. \A type \in ResourceTypes : RequestResource(type) => Kept
  BY DEF RequestResource, loopVars
<1> HIDE DEF Kept, Grown
<1>7. Kept \/ Grown
  BY <1>1, <1>2, <1>3, <1>4, <1>5, <1>6 DEF AlcNext, ProcessKext
<1> QED
  BY <1>7 DEF Kept, Grown

\* The search succeeds only on a node with both ids.
FoundComplete == found => \E n \in DOMAIN nodes : nodes[n] = "complete"

LEMMA FoundCompleteStep == TypeInv /\ FoundComplete /\ [AlcNext]_vars => FoundComplete'
<1> SUFFICES ASSUME TypeInv, FoundComplete, [AlcNext]_vars, found'
             PROVE  \E n \in DOMAIN nodes' : nodes'[n] = "complete"
  BY DEF FoundComplete
<1>1. CASE LookForCodec
  <2>1. PICK n : n = LeastOrZero(Seen)
    OBVIOUS
  <2>2. n # 0 /\ Complete(n) /\ nodes' = nodes
    BY <1>1, <2>1 DEF LookForCodec
  <2>3. n \in DOMAIN nodes
    BY <2>1, <2>2, LeastOrZeroIn DEF Seen
  <2> QED
    BY <2>2, <2>3 DEF Complete
<1>2. CASE ~LookForCodec
  <2>1. found
    BY <1>2, FoundKept
  <2>2. PICK n \in DOMAIN nodes : nodes[n] = "complete"
    BY <2>1 DEF FoundComplete
  <2> QED
    BY <2>2, FoundKept
<1> QED
  BY <1>1, <1>2

LEMMA FoundCompleteHolds == AlcSpec => []FoundComplete
<1>1. AlcInit => FoundComplete
  BY DEF AlcInit, FoundComplete
<1>2. AlcInv => TypeInv
  BY DEF AlcInv
<1> QED
  BY <1>1, <1>2, FoundCompleteStep, AlcInvHolds, PTL DEF AlcSpec

\* The codecs change only while they are being looked for and validated, that is
\* before the CodecsLoaded bit is set.
LEMMA CodecsStep ==
  ASSUME TypeInv, [AlcNext]_vars
  PROVE  codecs' = codecs \/ "CodecsLoaded" \notin progressState
<1>1. UNCHANGED vars \/ (UpdateProperties /\ UNCHANGED alcVars) \/ LoadGfx => codecs' = codecs
  BY DEF vars, alcVars, LoadGfx
<1>2. \A k \in Kexts : LoadFirst(k) \/ LoadDetect(k) \/ LoadOther(k) \/ Unload(k) => codecs' = codecs
  BY DEF LoadFirst, LoadDetect, LoadOther, Unload
<1>3. LookForCodec \/ KeepCodec \/ EraseCodec => "CodecsLoaded" \notin progressState
  BY DEF LookForCodec, KeepCodec, EraseCodec, Searching, TypeInv, Control
<1>4. NextController \/ StartValidation \/ CodecsValidated => codecs' = codecs
  BY DEF NextController, StartValidation, CodecsValidated
<1>5. ChooseId \/ NoIdLeft \/ NotPlaceholder \/ PatchController \/ ControllersPatched \/ FinishKext
        => codecs' = codecs
  BY DEF ChooseId, NoIdLeft, NotPlaceholder, PatchController, ControllersPatched, FinishKext
<1>6. \A n \in DOMAIN nodes : PublishVendor(n) \/ PublishRevision(n) => codecs' = codecs
  BY DEF PublishVendor, PublishRevision
<1>7. \A type \in ResourceTypes : RequestResource(type) => codecs' = codecs
  BY DEF RequestResource
<1> QED
  BY <1>1, <1>2, <1>3, <1>4, <1>5, <1>6, <1>7 DEF AlcNext, ProcessKext

\* What was detected stays: no later kext, and no reload of AppleHDA, detects
\* again (kern_alc.cpp 549-557).
THEOREM DetectionStableHolds == AlcSpec => DetectionStable
<1>1. ASSUME AlcInv, [AlcNext]_vars
      PROVE  /\ "ControllersLoaded" \in progressState => controllers' = controllers
             /\ "CodecsLoaded" \in progressState => codecs' = codecs
             /\ progressState \subseteq progressState'
  <2>1. TypeInv
    BY <1>1 DEF AlcInv
  <2>2. CASE UpdateProperties /\ UNCHANGED alcVars
    <3>1. phase # "done"
      BY <2>1, <2>2, UpdateControllers DEF TypeInv, AlcTypeOK
    <3>2. progressState = {}
      BY <2>1, <3>1 DEF TypeInv, Control
    <3> QED
      BY <2>2, <3>2 DEF alcVars
  <2>3. CASE \E k \in Kexts : LoadFirst(k)
    BY <2>3 DEF LoadFirst
  <2>4. CASE UNCHANGED <<controllers, hdef, machine, phase>> /\ progressState \subseteq progressState'
    BY <1>1, <2>1, <2>4, CodecsStep
  <2> QED
    BY <1>1, <2>1, <2>2, <2>3, <2>4, ControllersStep
<1> QED
  BY <1>1, AlcInvHolds, PTL DEF AlcSpec, DetectionStable

\* A codec caught half published is looked at again, until BruteMax looks are
\* spent (kern_alc.cpp 710-719, 752-763).
THEOREM SearchExhaustiveHolds == AlcSpec => SearchExhaustive
<1>1. ASSUME AlcInv, FoundComplete, [AlcNext]_vars, Searching, i' # i, controllers[i].detect
      PROVE  brute = BruteMax \/ \E n \in DOMAIN nodes : nodes[n] = "complete"
  <2>1. pc = "codecs" /\ i <= Len(controllers)
    BY <1>1 DEF Searching
  <2>2. ~UNCHANGED vars /\ ~UNCHANGED loopVars /\ ~(UpdateProperties /\ UNCHANGED alcVars)
    BY <1>1 DEF vars, alcVars, loopVars
  <2>3. ~LoadGfx /\ \A k \in Kexts : ~LoadFirst(k) /\ ~LoadDetect(k) /\ ~LoadOther(k) /\ ~Unload(k)
    BY <2>1 DEF LoadGfx, LoadFirst, LoadDetect, LoadOther, Unload, KextArrives
  <2>4. ~LookForCodec
    BY <1>1 DEF LookForCodec
  <2>5. ~StartValidation /\ ~KeepCodec /\ ~EraseCodec /\ ~CodecsValidated
    BY <1>1, <2>1 DEF StartValidation, KeepCodec, EraseCodec, CodecsValidated
  <2>6. /\ ~ChooseId /\ ~NoIdLeft /\ ~NotPlaceholder /\ ~PatchController /\ ~ControllersPatched /\ ~FinishKext
    BY <2>1 DEF ChooseId, NoIdLeft, NotPlaceholder, PatchController, ControllersPatched, FinishKext,
                IdsPending, Patching
  <2>7. \A n \in DOMAIN nodes : ~PublishVendor(n) /\ ~PublishRevision(n)
    BY <2>2 DEF PublishVendor, PublishRevision
  <2>8. \A type \in ResourceTypes : ~RequestResource(type)
    BY <2>2 DEF RequestResource
  <2>9. NextController
    BY <1>1, <2>2, <2>3, <2>4, <2>5, <2>6, <2>7, <2>8 DEF AlcNext, ProcessKext
  <2> QED
    BY <1>1, <2>9 DEF NextController, FoundComplete
<1> QED
  BY <1>1, AlcInvHolds, FoundCompleteHolds, PTL DEF AlcSpec, SearchExhaustive

-----------------------------------------------------------------------------
(* processKext as one step.                                                   *)

\* Between two kexts, and while codecs are looked for, the placeholders of the
\* detected controllers are settled.
Between ==
  "ControllersLoaded" \in progressState /\ pc \in {"idle", "codecs", "validate"} => AllSettled

\* The id pool is only scanned forwards.
LEMMA FreeStep ==
  ASSUME TypeInv, [AlcNext]_vars
  PROVE  currentFree \in Nat /\ currentFree' \in Nat /\ currentFree' >= currentFree
<1>1. currentFree \in Nat /\ currentFree <= Len(NvidiaIds) + 1 /\ Len(NvidiaIds) \in Nat
  BY DEF TypeInv, AlcTypeOK
<1>2. CASE ChooseId
  <2>1. PICK n \in DOMAIN NvidiaIds : FreeId(n) /\ currentFree' = n + 1
    BY <1>2 DEF ChooseId
  <2>2. n \in Nat /\ n >= currentFree
    BY <2>1 DEF FreeId
  <2> QED
    BY <1>1, <2>1, <2>2
<1>3. CASE NoIdLeft
  BY <1>1, <1>3 DEF NoIdLeft
<1>4. CASE currentFree' = currentFree
  BY <1>1, <1>4
<1>5. UNCHANGED vars \/ UNCHANGED alcVars => currentFree' = currentFree
  BY DEF vars, alcVars
<1>6. LoadGfx => currentFree' = currentFree
  BY DEF LoadGfx
<1>7. \A k \in Kexts : LoadFirst(k) \/ LoadDetect(k) \/ LoadOther(k) \/ Unload(k) => currentFree' = currentFree
  BY DEF LoadFirst, LoadDetect, LoadOther, Unload
<1>8. LookForCodec \/ NextController \/ StartValidation \/ KeepCodec \/ EraseCodec \/ CodecsValidated =>
        currentFree' = currentFree
  BY DEF LookForCodec, NextController, StartValidation, KeepCodec, EraseCodec, CodecsValidated
<1>9. NotPlaceholder \/ PatchController \/ ControllersPatched \/ FinishKext => currentFree' = currentFree
  BY DEF NotPlaceholder, PatchController, ControllersPatched, FinishKext
<1>10. \A n \in DOMAIN nodes : PublishVendor(n) \/ PublishRevision(n) => currentFree' = currentFree
  BY DEF PublishVendor, PublishRevision
<1>11. \A type \in ResourceTypes : RequestResource(type) => currentFree' = currentFree
  BY DEF RequestResource
<1> QED
  BY <1>2, <1>3, <1>4, <1>5, <1>6, <1>7, <1>8, <1>9, <1>10, <1>11 DEF AlcNext, ProcessKext

\* With every placeholder settled none is given an id.
LEMMA NoneChosen ==
  ASSUME TypeInv, AllSettled PROVE ~ChooseId
<1> SUFFICES ASSUME ChooseId PROVE FALSE
  OBVIOUS
<1> DEFINE m == controllers[i].info
<1>1. /\ i \in Nat /\ i >= 1 /\ i <= Len(controllers) /\ controllers \in Seq(ControllerInfo)
      /\ m # 0 /\ IsNvidiaMod(m) /\ j <= Len(ControllerMod[m].patches) /\ <<m, j>> \in Slots
      /\ nvidiaFind[<<m, j>>] = 0
  BY DEF ChooseId, IdsPending, Patching, Placeholder, TypeInv, Control, AlcTypeOK, PropTypeOK
<1>2. i \in DOMAIN controllers
  BY <1>1
<1>3. j \in DOMAIN ControllerMod[m].patches
  BY <1>1 DEF Slots
<1>4. Settled(m, j)
  BY <1>1, <1>2, <1>3 DEF AllSettled
<1>5. currentFree > Len(NvidiaIds) /\ currentFree \in Nat
  BY <1>1, <1>4 DEF Settled, TypeInv, AlcTypeOK
<1>6. \E n \in DOMAIN NvidiaIds : n >= currentFree
  BY DEF ChooseId, FreeId
<1> QED
  BY <1>5, <1>6

\* Once the controllers are known, they and the ids of their patches stay.
LEMMA ControllersStay ==
  ASSUME TypeInv, [AlcNext]_vars, ControllersKnown
  PROVE  ControllersKnown' /\ UNCHANGED <<machine, controllers, nvidiaFind>>
<1>1. "ControllersLoaded" \in progressState /\ AllSettled
  BY DEF ControllersKnown
<1>2. phase = "done"
  BY <1>1 DEF TypeInv, Control
<1>3. ~UpdateProperties /\ \A k \in Kexts : ~LoadFirst(k)
  BY <1>1, <1>2, UpdateControllers DEF TypeInv, AlcTypeOK, LoadFirst
<1>4. UNCHANGED <<machine, controllers>> /\ progressState \subseteq progressState'
  BY <1>3, ControllersStep
<1>5. nvidiaFind' = nvidiaFind
  BY <1>1, <1>3, IdsStep, NoneChosen
<1>6. AllSettled'
  BY <1>1, <1>4, <1>5, FreeStep, SettledKept
<1> QED
  BY <1>1, <1>4, <1>5, <1>6 DEF ControllersKnown

\* Once the codecs are known they stay.
LEMMA CodecsStay ==
  ASSUME TypeInv, [AlcNext]_vars, CodecsKnown
  PROVE  CodecsKnown' /\ UNCHANGED <<machine, codecs>>
<1>1. "CodecsLoaded" \in progressState
  BY DEF CodecsKnown
<1>2. phase = "done"
  BY <1>1 DEF TypeInv, Control
<1>3. ~UpdateProperties
  BY <1>2, UpdateControllers DEF TypeInv, AlcTypeOK
<1>4. machine' = machine /\ progressState \subseteq progressState'
  <2>1. CASE \E k \in Kexts : LoadFirst(k)
    BY <2>1 DEF LoadFirst
  <2> QED
    BY <1>3, <2>1, ControllersStep
<1>5. codecs' = codecs
  BY <1>1, CodecsStep
<1> QED
  BY <1>1, <1>4, <1>5 DEF CodecsKnown

\* What the controllers and the codecs call for stays with them.
LEMMA ControllersCallSame ==
  ASSUME UNCHANGED <<machine, controllers, nvidiaFind>>, NEW k
  PROVE  ControllersCallFor(k)' = ControllersCallFor(k)
<1>1. \A n : CallFor(controllers[n], k)' = CallFor(controllers[n], k)
  BY PatchesSame DEF CallFor
<1>2. \A x : x \in ControllersCallFor(k) <=> \E n \in DOMAIN controllers : x \in CallFor(controllers[n], k)
  BY DEF ControllersCallFor
<1>3. \A x : x \in ControllersCallFor(k)' <=> \E n \in DOMAIN controllers : x \in CallFor(controllers[n], k)'
  BY DEF ControllersCallFor
<1>4. ASSUME NEW x, x \in ControllersCallFor(k)' PROVE x \in ControllersCallFor(k)
  <2>1. PICK n \in DOMAIN controllers : x \in CallFor(controllers[n], k)'
    BY <1>3, <1>4
  <2>2. x \in CallFor(controllers[n], k)
    BY <1>1, <2>1
  <2> QED
    BY <1>2, <2>1, <2>2
<1>5. ASSUME NEW x, x \in ControllersCallFor(k) PROVE x \in ControllersCallFor(k)'
  <2>1. PICK n \in DOMAIN controllers : x \in CallFor(controllers[n], k)
    BY <1>2, <1>5
  <2>2. x \in CallFor(controllers[n], k)'
    BY <1>1, <2>1
  <2> QED
    BY <1>3, <2>1, <2>2
<1> QED
  BY <1>4, <1>5

LEMMA CodecsCallSame ==
  ASSUME UNCHANGED <<machine, codecs>>, NEW k
  PROVE  CodecsCallFor(k)' = CodecsCallFor(k)
<1>1. \A m : CodecPatches(m, k)' = CodecPatches(m, k)
  BY DEF CodecPatches, Applicable, CompatibleKernel
<1>2. \A x : x \in CodecsCallFor(k) <=> \E n \in DOMAIN codecs : x \in CodecPatches(codecs[n].info, k)
  BY DEF CodecsCallFor
<1>3. \A x : x \in CodecsCallFor(k)' <=> \E n \in DOMAIN codecs : x \in CodecPatches(codecs[n].info, k)'
  BY DEF CodecsCallFor
<1>4. ASSUME NEW x, x \in CodecsCallFor(k)' PROVE x \in CodecsCallFor(k)
  <2>1. PICK n \in DOMAIN codecs : x \in CodecPatches(codecs[n].info, k)'
    BY <1>3, <1>4
  <2>2. x \in CodecPatches(codecs[n].info, k)
    BY <1>1, <2>1
  <2> QED
    BY <1>2, <2>1, <2>2
<1>5. ASSUME NEW x, x \in CodecsCallFor(k) PROVE x \in CodecsCallFor(k)'
  <2>1. PICK n \in DOMAIN codecs : x \in CodecPatches(codecs[n].info, k)
    BY <1>2, <1>5
  <2>2. x \in CodecPatches(codecs[n].info, k)'
    BY <1>1, <2>1
  <2> QED
    BY <1>3, <2>1, <2>2
<1> QED
  BY <1>4, <1>5

\* Whatever controllers are found, what they call for is a set of patches.
LEMMA ControllersCallTyped ==
  ASSUME AlcTypeOK', Detected', NEW k \in Kexts
  PROVE  ControllersCallFor(k)' \in SUBSET AppliedPatch
<1> SUFFICES ASSUME NEW x \in ControllersCallFor(k)' PROVE x \in AppliedPatch
  OBVIOUS
<1>1. PICK n \in DOMAIN controllers' : x \in CallFor(controllers[n], k)'
  BY DEF ControllersCallFor
<1>m. PICK m : m = controllers'[n].info
  OBVIOUS
<1>2. m # 0 /\ x \in ControllerPatches(m, k)'
  BY <1>1, <1>m DEF CallFor
<1>3. m \in DOMAIN ControllerMod /\ m \in Nat
  <2>1. m \in 0 .. Len(ControllerMod) /\ Len(ControllerMod) \in Nat
    BY <1>m DEF Detected
  <2> QED
    BY <1>2, <2>1
<1>4. PICK p \in DOMAIN ControllerMod[m].patches :
        x = [table |-> "controller", mod |-> m, patch |-> p,
             find |-> IF <<m, p>> \in Slots THEN nvidiaFind'[<<m, p>>] ELSE 0]
  BY <1>2 DEF ControllerPatches, Applicable
<1>5. p \in Nat
  <2>1. ControllerMod[m] \in ControllerModInfo
    BY <1>3
  <2>2. ControllerMod[m].patches \in Seq(KextPatch)
    BY <2>1 DEF ControllerModInfo
  <2> QED
    BY <2>2
<1>6. <<m, p>> \in Slots => nvidiaFind'[<<m, p>>] \in Nat
  BY DEF AlcTypeOK
<1> DEFINE find == IF <<m, p>> \in Slots THEN nvidiaFind'[<<m, p>>] ELSE 0
<1>7. find \in Nat
  BY <1>6
<1> HIDE DEF find
<1>8. [table |-> "controller", mod |-> m, patch |-> p, find |-> find] \in AppliedPatch
  BY <1>3, <1>5, <1>7 DEF AppliedPatch
<1> QED
  BY <1>4, <1>8 DEF find

LEMMA CodecsCallTyped ==
  ASSUME AlcTypeOK, NEW k \in Kexts, \A n \in DOMAIN codecs : Entered(codecs[n])
  PROVE  CodecsCallFor(k) \in SUBSET AppliedPatch
<1>1. \A n \in DOMAIN codecs : codecs[n].info \in DOMAIN CodecMod
  <2> SUFFICES ASSUME NEW n \in DOMAIN codecs PROVE codecs[n].info \in DOMAIN CodecMod
    OBVIOUS
  <2>1. codecs[n].info # 0 /\ codecs[n].info \in 0 .. Len(CodecMod) /\ Len(CodecMod) \in Nat
    BY CodecEntryTyped DEF Entered
  <2> QED
    BY <2>1
<1>2. \A n \in DOMAIN codecs : CodecPatches(codecs[n].info, k) \in SUBSET AppliedPatch
  BY <1>1, PatchesTyped
<1> QED
  BY <1>2 DEF CodecsCallFor

\* Seen from outside, a step leaves the controllers alone or detects them.
LEMMA ControllersOutside ==
  ASSUME AlcInv, [AlcNext]_vars
  PROVE  \/ /\ ControllersKnown' <=> ControllersKnown
            /\ KnownControllers' = KnownControllers /\ ControllersCall' = ControllersCall
         \/ /\ ~ControllersKnown /\ ControllersKnown'
            /\ KnownControllers' \in Seq(ControllerInfo)
            /\ ControllersCall' \in [PatchedKexts -> SUBSET AppliedPatch]
<1>1. TypeInv /\ AlcTypeOK' /\ Detected'
  BY AlcInvStep DEF AlcInv, TypeInv
<1>2. CASE ControllersKnown
  <2>1. ControllersKnown' /\ UNCHANGED <<machine, controllers, nvidiaFind>>
    BY <1>1, <1>2, ControllersStay
  <2>2. \A k \in PatchedKexts : ControllersCallFor(k)' = ControllersCallFor(k)
    BY <2>1, ControllersCallSame
  <2>3. [k \in PatchedKexts |-> ControllersCallFor(k)'] = [k \in PatchedKexts |-> ControllersCallFor(k)]
    BY <2>2, Zenon
  <2>4. ControllersCall' = ControllersCall
    BY <1>2, <2>1, <2>3 DEF ControllersCall
  <2> QED
    BY <1>2, <2>1, <2>4 DEF KnownControllers
<1>3. CASE ~ControllersKnown /\ ~ControllersKnown'
  BY <1>3 DEF KnownControllers, ControllersCall, NoPatches
<1>4. CASE ~ControllersKnown /\ ControllersKnown'
  <2>1. \A k \in PatchedKexts : ControllersCallFor(k)' \in SUBSET AppliedPatch
    BY <1>1, ControllersCallTyped DEF PatchedKexts
  <2>2. ControllersCall' = [k \in PatchedKexts |-> ControllersCallFor(k)']
    BY <1>4 DEF ControllersCall
  <2>3. controllers' \in Seq(ControllerInfo)
    BY <1>1 DEF AlcTypeOK, PropTypeOK
  <2> QED
    BY <1>4, <2>1, <2>2, <2>3 DEF KnownControllers
<1> QED
  BY <1>2, <1>3, <1>4

\* Only the end of a validation sets the CodecsLoaded bit.
LEMMA CodecsBit ==
  ASSUME [AlcNext]_vars, "CodecsLoaded" \notin progressState, "CodecsLoaded" \in progressState'
  PROVE  CodecsValidated
<1>1. progressState' # progressState
  OBVIOUS
<1>2. ~UNCHANGED vars /\ ~UNCHANGED alcVars
  BY <1>1 DEF vars, alcVars
<1>3. ~LoadGfx /\ \A k \in Kexts : ~LoadFirst(k) /\ ~LoadDetect(k) /\ ~LoadOther(k) /\ ~Unload(k)
  BY <1>1 DEF LoadGfx, LoadFirst, LoadDetect, LoadOther, Unload
<1>4. ~LookForCodec /\ ~NextController /\ ~StartValidation /\ ~KeepCodec /\ ~EraseCodec
  BY <1>1 DEF LookForCodec, NextController, StartValidation, KeepCodec, EraseCodec
<1>5. ~ChooseId /\ ~NoIdLeft /\ ~NotPlaceholder /\ ~PatchController /\ ~ControllersPatched
  BY <1>1 DEF ChooseId, NoIdLeft, NotPlaceholder, PatchController, ControllersPatched
<1>6. ~FinishKext
  BY DEF FinishKext, NewBits
<1>7. \A n \in DOMAIN nodes : ~PublishVendor(n) /\ ~PublishRevision(n)
  BY <1>1 DEF PublishVendor, PublishRevision
<1>8. \A type \in ResourceTypes : ~RequestResource(type)
  BY <1>1 DEF RequestResource
<1> QED
  BY <1>2, <1>3, <1>4, <1>5, <1>6, <1>7, <1>8 DEF AlcNext, ProcessKext

\* And it leaves the codecs alone, or is the end of their validation in a kext
\* that is not done with.
LEMMA CodecsOutside ==
  ASSUME AlcInv, [AlcNext]_vars
  PROVE  \/ /\ CodecsKnown' <=> CodecsKnown
            /\ KnownCodecs' = KnownCodecs /\ CodecsCall' = CodecsCall
         \/ /\ ~CodecsKnown /\ CodecsKnown' /\ CodecsValidated
            /\ KnownCodecs' \in Seq(CodecInfo)
            /\ CodecsCall' \in [PatchedKexts -> SUBSET AppliedPatch]
<1>1. TypeInv /\ AlcTypeOK' /\ AlcInv' /\ CodecsFound'
  BY AlcInvStep DEF AlcInv, TypeInv
<1>2. CASE CodecsKnown
  <2>1. CodecsKnown' /\ UNCHANGED <<machine, codecs>>
    BY <1>1, <1>2, CodecsStay
  <2>2. \A k \in PatchedKexts : CodecsCallFor(k)' = CodecsCallFor(k)
    BY <2>1, CodecsCallSame
  <2>3. [k \in PatchedKexts |-> CodecsCallFor(k)'] = [k \in PatchedKexts |-> CodecsCallFor(k)]
    BY <2>2, Zenon
  <2>4. CodecsCall' = CodecsCall
    BY <1>2, <2>1, <2>3 DEF CodecsCall
  <2> QED
    BY <1>2, <2>1, <2>4 DEF KnownCodecs
<1>3. CASE ~CodecsKnown /\ ~CodecsKnown'
  BY <1>3 DEF KnownCodecs, CodecsCall, NoPatches
<1>4. CASE ~CodecsKnown /\ CodecsKnown'
  <2>1. CodecsValidated
    BY <1>4, CodecsBit DEF CodecsKnown
  <2>2. UNCHANGED <<machine, codecs>> /\ pc' = "controllers" /\ codecs' # <<>>
    BY <1>4, <2>1 DEF CodecsValidated, CodecsKnown, propVars
  <2>3. \A n \in DOMAIN codecs : Entered(codecs[n])
    <3>1. pc = "validate" /\ j > Len(codecs) /\ j \in Nat /\ codecs \in Seq(CodecInfo)
      BY <1>1, <2>1 DEF CodecsValidated, TypeInv, AlcTypeOK
    <3>2. \A n \in DOMAIN codecs : n < j
      BY <3>1
    <3> QED
      BY <3>1, <3>2 DEF AlcInv, CodecsFound
  <2>4. \A k \in PatchedKexts : CodecsCallFor(k)' \in SUBSET AppliedPatch
    BY <1>1, <2>2, <2>3, CodecsCallTyped, CodecsCallSame DEF TypeInv, PatchedKexts
  <2>5. CodecsCall' = [k \in PatchedKexts |-> CodecsCallFor(k)']
    BY <1>4 DEF CodecsCall
  <2>6. codecs' \in Seq(CodecInfo)
    BY <1>1 DEF AlcTypeOK
  <2> QED
    BY <1>4, <2>1, <2>4, <2>5, <2>6 DEF KnownCodecs
<1> QED
  BY <1>2, <1>3, <1>4

\* A kext that keeps its image, or that is not done with, looks the same from
\* outside.
LooksSame(x) == (x \in ProcessedKexts' <=> x \in ProcessedKexts) /\ CarriedBy(x)' = CarriedBy(x)

LEMMA KextSame ==
  ASSUME NEW x \in PatchedKexts,
         \/ image'[x] = image[x] /\ (kext' = x <=> kext = x)
         \/ (~image[x].loaded \/ kext = x) /\ (~image'[x].loaded \/ kext' = x)
  PROVE  LooksSame(x)
<1>1. x \in ProcessedKexts' <=> x \in ProcessedKexts
  BY DEF ProcessedKexts
<1>2. CASE x \notin ProcessedKexts
  BY <1>1, <1>2 DEF CarriedBy, LooksSame
<1>3. CASE x \in ProcessedKexts
  <2>1. image'[x] = image[x]
    BY <1>3 DEF ProcessedKexts
  <2> QED
    BY <1>1, <1>3, <2>1 DEF CarriedBy, LooksSame
<1> QED
  BY <1>2, <1>3

\* Loading a kext, detecting and patching are not seen until processKext is done.
LEMMA ImagesOutside ==
  ASSUME TypeInv, [AlcNext]_vars
  PROVE  FinishKext \/ (\E k \in Kexts : Unload(k)) \/ \A x \in PatchedKexts : LooksSame(x)
<1> SUFFICES ASSUME ~FinishKext, \A k \in Kexts : ~Unload(k), NEW x \in PatchedKexts PROVE LooksSame(x)
  OBVIOUS
<1>1. image \in [Kexts -> LoadedKext] /\ x \in Kexts /\ x # "AppleGFXHDA" /\ x # "none"
  BY DEF TypeInv, AlcTypeOK, PatchedKexts, Kexts
<1>2. CASE UNCHANGED <<image, kext>>
  BY <1>2, KextSame
<1>3. CASE LoadGfx
  <2>1. image'[x] = image[x] /\ kext' = kext
    BY <1>1, <1>3 DEF LoadGfx, loopVars
  <2> QED
    BY <2>1, KextSame
<1>4. ASSUME NEW k \in Kexts, LoadFirst(k) \/ LoadDetect(k) \/ LoadOther(k) PROVE LooksSame(x)
  <2>1. LoadImage(k) /\ kext' = k /\ ~image[k].loaded /\ pc = "idle"
    BY <1>4 DEF LoadFirst, LoadDetect, LoadOther, KextArrives
  <2>2. kext # x
    BY <1>1, <2>1 DEF TypeInv, Control
  <2>3. CASE x = k
    BY <2>1, <2>3, KextSame
  <2>4. CASE x # k
    <3>1. image'[x] = image[x]
      BY <1>1, <2>1, <2>4 DEF LoadImage
    <3> QED
      BY <2>1, <2>2, <2>4, <3>1, KextSame
  <2> QED
    BY <2>3, <2>4
<1>5. CASE PatchController \/ ControllersPatched
  <2>1. pc # "idle" /\ kext' = kext /\ \E new : image' = [image EXCEPT ![kext].patches = new]
    BY <1>5 DEF PatchController, ControllersPatched, Patching
  <2>2. CASE x = kext
    BY <2>1, <2>2, KextSame
  <2>3. CASE x # kext
    <3>1. image'[x] = image[x]
      BY <1>1, <2>1, <2>3
    <3> QED
      BY <2>1, <3>1, KextSame
  <2> QED
    BY <2>2, <2>3
<1>6. UNCHANGED vars \/ UNCHANGED alcVars => UNCHANGED <<image, kext>>
  BY DEF vars, alcVars, loopVars
<1>7. LookForCodec \/ NextController \/ StartValidation \/ KeepCodec \/ EraseCodec \/ CodecsValidated =>
        UNCHANGED <<image, kext>>
  BY DEF LookForCodec, NextController, StartValidation, KeepCodec, EraseCodec, CodecsValidated, loopVars
<1>8. ChooseId \/ NoIdLeft \/ NotPlaceholder => UNCHANGED <<image, kext>>
  BY DEF ChooseId, NoIdLeft, NotPlaceholder
<1>9. \A n \in DOMAIN nodes : PublishVendor(n) \/ PublishRevision(n) => UNCHANGED <<image, kext>>
  BY DEF PublishVendor, PublishRevision, loopVars
<1>10. \A type \in ResourceTypes : RequestResource(type) => UNCHANGED <<image, kext>>
  BY DEF RequestResource, loopVars
<1> QED
  BY <1>2, <1>3, <1>4, <1>5, <1>6, <1>7, <1>8, <1>9, <1>10 DEF AlcNext, ProcessKext

LEMMA BetweenStep == AlcInv /\ Between /\ [AlcNext]_vars => Between'
<1> DEFINE Quiet == {"idle", "codecs", "validate"}
<1> SUFFICES ASSUME AlcInv, Between, [AlcNext]_vars, "ControllersLoaded" \in progressState', pc' \in Quiet,
                    ~AllSettled'
             PROVE  FALSE
  BY DEF Between
<1>1. ~ControllersKnown
  BY ControllersStay DEF AlcInv, ControllersKnown
<1>2. ~("ControllersLoaded" \in progressState /\ pc \in Quiet)
  BY <1>1 DEF Between, ControllersKnown
<1>3. ~(UNCHANGED <<pc, progressState>>)
  BY <1>2
<1>4. pc # "finish"
  BY <1>1 DEF AlcInv, PatchesApplied, TypeInv, Control, ControllersKnown
<1>5. ~UNCHANGED vars /\ ~UNCHANGED alcVars /\ ~LoadGfx
  BY <1>3 DEF vars, alcVars, loopVars, LoadGfx
<1>6. \A k \in Kexts : ~LoadFirst(k) /\ ~LoadDetect(k) /\ ~LoadOther(k) /\ ~Unload(k)
  BY <1>2, <1>3 DEF LoadFirst, LoadDetect, LoadOther, Unload, KextArrives, loopVars
<1>7. ~LookForCodec /\ ~NextController /\ ~KeepCodec /\ ~EraseCodec
  BY <1>3 DEF LookForCodec, NextController, KeepCodec, EraseCodec, loopVars
<1>8. ~StartValidation /\ ~CodecsValidated
  BY <1>2 DEF StartValidation, CodecsValidated
<1>9. ~ChooseId /\ ~NoIdLeft /\ ~NotPlaceholder /\ ~PatchController
  BY <1>3 DEF ChooseId, NoIdLeft, NotPlaceholder, PatchController
<1>10. ~ControllersPatched /\ ~FinishKext
  BY <1>4 DEF ControllersPatched, FinishKext
<1>11. \A n \in DOMAIN nodes : ~PublishVendor(n) /\ ~PublishRevision(n)
  BY <1>3 DEF PublishVendor, PublishRevision, loopVars
<1>12. \A type \in ResourceTypes : ~RequestResource(type)
  BY <1>3 DEF RequestResource, loopVars
<1> QED
  BY <1>5, <1>6, <1>7, <1>8, <1>9, <1>10, <1>11, <1>12 DEF AlcNext, ProcessKext

LEMMA BetweenHolds == AlcSpec => [](AlcInv /\ Between)
<1>1. AlcInit => Between
  BY DEF AlcInit, Between
<1> QED
  BY <1>1, AlcInvInit, AlcInvStep, BetweenStep, PTL DEF AlcSpec

\* At its end a kext carries what the controllers and the codecs call for.
LEMMA CarriedAtEnd ==
  ASSUME AlcInv, FinishKext, NEW k, k = kext, k \in PatchedKexts, ControllersKnown
  PROVE  {p \in image'[k].patches : p.table # "log"} = ControllersCall[k] \cup CodecsCall[k]
<1> DEFINE Old == image[k].patches
<1>1. AlcTypeOK /\ k \in Kexts /\ pc = "finish"
  BY DEF AlcInv, TypeInv, FinishKext, PatchedKexts
<1>2. image'[k].patches = Old \cup AllCodecPatches
  BY <1>1, FinishTyped
<1>3. \A p \in Old : p.table \in {"controller", "codec", "log"}
  <2>1. image[k] \in LoadedKext
    BY <1>1 DEF AlcTypeOK
  <2> QED
    BY <2>1 DEF LoadedKext, AppliedPatch
<1>4. Carried(k, "codec") = {}
  BY <1>1 DEF AlcInv, CodecPatched
<1>5. Carried(k, "controller") = ControllersCallFor(k)
  <2>1. Carried(k, "controller") = CalledBefore(Len(controllers) + 1, k)
    BY <1>1 DEF AlcInv, PatchesApplied
  <2>2. \A n \in DOMAIN controllers : n < Len(controllers) + 1
    BY <1>1 DEF AlcTypeOK, PropTypeOK
  <2> QED
    BY <2>1, <2>2 DEF CalledBefore, ControllersCallFor
<1>6. \A p \in AllCodecPatches : p.table = "codec"
  BY PatchesTable DEF AllCodecPatches
<1>7. {p \in image'[k].patches : p.table # "log"} = Carried(k, "controller") \cup AllCodecPatches
  BY <1>2, <1>3, <1>4, <1>6 DEF Carried
<1>8. ControllersCall[k] = ControllersCallFor(k)
  BY DEF ControllersCall
<1>9. CodecsCall[k] = AllCodecPatches
  BY DEF CodecsCall, CodecsKnown, AllCodecPatches, CodecsCallFor, NoPatches
<1> QED
  BY <1>5, <1>7, <1>8, <1>9

\* The end of processKext is where the kext is processed.
LEMMA FinishOutside ==
  ASSUME AlcInv, FinishKext
  PROVE  \E k \in PatchedKexts :
           /\ k \notin ProcessedKexts /\ ProcessedKexts' = ProcessedKexts \cup {k}
           /\ ControllersKnown
           /\ CarriedPatches' = [CarriedPatches EXCEPT ![k] = ControllersCall[k] \cup CodecsCall[k]]
<1>1. /\ AlcTypeOK /\ pc = "finish" /\ kext \in PatchedKexts /\ kext \in Kexts
      /\ image[kext].loaded /\ ControllersKnown
  BY DEF AlcInv, TypeInv, AlcTypeOK, Control, FinishKext, PatchesApplied, ControllersKnown, PatchedKexts
<1>2. PICK k \in PatchedKexts : k = kext
  BY <1>1
<1>3. kext' = "none" /\ \A x \in PatchedKexts : kext' # x
  BY DEF FinishKext, PatchedKexts, Kexts
<1>4. k \notin ProcessedKexts
  BY <1>2 DEF ProcessedKexts
<1>5. k \in ProcessedKexts' /\ CarriedBy(k)' = ControllersCall[k] \cup CodecsCall[k]
  <2>1. k \in ProcessedKexts'
    BY <1>1, <1>2, <1>3, FinishTyped DEF ProcessedKexts
  <2> QED
    BY <1>1, <1>2, <2>1, CarriedAtEnd DEF CarriedBy
<1>6. ASSUME NEW x \in PatchedKexts \ {k} PROVE LooksSame(x)
  <2>1. image'[x] = image[x]
    BY <1>1, <1>2, FinishTyped DEF PatchedKexts
  <2> QED
    BY <1>2, <1>3, <2>1, KextSame
<1>7. ProcessedKexts' = ProcessedKexts \cup {k}
  BY <1>5, <1>6 DEF LooksSame, ProcessedKexts
<1>8. CarriedPatches' = [CarriedPatches EXCEPT ![k] = ControllersCall[k] \cup CodecsCall[k]]
  BY <1>5, <1>6 DEF LooksSame, CarriedPatches
<1> QED
  BY <1>1, <1>4, <1>7, <1>8

\* AppleHDA is unloaded once it is done with.
LEMMA UnloadOutside ==
  ASSUME AlcInv, NEW k \in Kexts, Unload(k)
  PROVE  /\ k \in PatchedKexts /\ k \in ProcessedKexts \cap Reloadable
         /\ ProcessedKexts' = ProcessedKexts \ {k}
         /\ CarriedPatches' = [CarriedPatches EXCEPT ![k] = {}]
<1>1. image \in [Kexts -> LoadedKext] /\ kext = "none" /\ kext' = kext /\ k \in PatchedKexts /\ k # "none"
  BY DEF AlcInv, TypeInv, AlcTypeOK, Control, Unload, loopVars, Reloadable, PatchedKexts, Kexts
<1>2. k \in ProcessedKexts \cap Reloadable
  BY <1>1 DEF Unload, ProcessedKexts
<1>3. ~image'[k].loaded /\ \A x \in Kexts \ {k} : image'[x] = image[x]
  BY <1>1 DEF Unload
<1>4. k \notin ProcessedKexts' /\ CarriedBy(k)' = {}
  BY <1>3 DEF ProcessedKexts, CarriedBy
<1>5. ASSUME NEW x \in PatchedKexts \ {k} PROVE LooksSame(x)
  <2>1. image'[x] = image[x]
    BY <1>3 DEF PatchedKexts
  <2> QED
    BY <1>1, <2>1, KextSame
<1>6. ProcessedKexts' = ProcessedKexts \ {k}
  BY <1>4, <1>5 DEF LooksSame, ProcessedKexts
<1>7. CarriedPatches' = [CarriedPatches EXCEPT ![k] = {}]
  BY <1>4, <1>5 DEF LooksSame, CarriedPatches
<1> QED
  BY <1>1, <1>2, <1>6, <1>7

\* A step that only the controllers, the codecs, or one kext take part in.
LEMMA ImagesKept ==
  ASSUME \A x \in PatchedKexts : LooksSame(x)
  PROVE  ProcessedKexts' = ProcessedKexts /\ CarriedPatches' = CarriedPatches
<1>1. ProcessedKexts' = ProcessedKexts
  <2>1. ProcessedKexts \subseteq PatchedKexts /\ ProcessedKexts' \subseteq PatchedKexts
    BY DEF ProcessedKexts
  <2> QED
    BY <2>1 DEF LooksSame
<1>2. CarriedPatches' = CarriedPatches
  BY DEF LooksSame, CarriedPatches
<1> QED
  BY <1>1, <1>2

\* Every step of the pipeline is one of the atomic view, or not seen in it.
LEMMA AtomicStep == AlcInv /\ Between /\ [AlcNext]_vars => [Atomic!PatchNext]_(Atomic!patchVars)
<1> SUFFICES ASSUME AlcInv, Between, [AlcNext]_vars
             PROVE  Atomic!PatchNext \/ UNCHANGED Atomic!patchVars
  OBVIOUS
<1> DEFINE ControllersSame == UNCHANGED Atomic!controllerVars
           CodecsSame == UNCHANGED Atomic!codecVars
           ImagesSame == ProcessedKexts' = ProcessedKexts /\ CarriedPatches' = CarriedPatches
<1>1. /\ ControllersKnown \in BOOLEAN /\ ControllersKnown' \in BOOLEAN
      /\ CodecsKnown \in BOOLEAN /\ CodecsKnown' \in BOOLEAN
  BY DEF ControllersKnown, CodecsKnown
<1>2. \/ ControllersSame
      \/ /\ ~ControllersKnown /\ ControllersKnown'
         /\ KnownControllers' \in Seq(ControllerInfo)
         /\ ControllersCall' \in [PatchedKexts -> SUBSET AppliedPatch]
  BY <1>1, ControllersOutside DEF Atomic!controllerVars
<1>3. \/ CodecsSame
      \/ /\ ~CodecsKnown /\ CodecsKnown' /\ CodecsValidated
         /\ KnownCodecs' \in Seq(CodecInfo)
         /\ CodecsCall' \in [PatchedKexts -> SUBSET AppliedPatch]
  BY <1>1, CodecsOutside DEF Atomic!codecVars
<1>4. ControllersKnown => ControllersSame
  BY <1>2
<1>5. pc # "validate" => CodecsSame
  BY <1>3 DEF CodecsValidated
<1>6. CASE FinishKext
  <2>1. pc # "validate"
    BY <1>6 DEF FinishKext
  <2>2. \E k \in PatchedKexts : Atomic!Process(k)
    BY <1>4, <1>5, <1>6, <2>1, FinishOutside DEF Atomic!Process
  <2> QED
    BY <2>2 DEF Atomic!PatchNext
<1>7. ASSUME NEW k \in Kexts, Unload(k) PROVE Atomic!PatchNext
  <2>1. pc = "idle" /\ k \in PatchedKexts /\ k \in ProcessedKexts
    BY <1>7, UnloadOutside DEF Unload
  <2>2. ControllersKnown
    BY <2>1 DEF ProcessedKexts, PatchedKexts, AlcInv, PatchesApplied, TypeInv, Control, ControllersKnown
  <2>3. Atomic!Unload(k)
    BY <1>4, <1>5, <1>7, <2>1, <2>2, UnloadOutside DEF Atomic!Unload
  <2> QED
    BY <2>1, <2>3 DEF Atomic!PatchNext
<1>8. CASE ImagesSame
  <2>1. CASE ControllersSame /\ CodecsSame
    BY <1>8, <2>1 DEF Atomic!patchVars, Atomic!controllerVars, Atomic!codecVars
  <2>2. CASE ~ControllersSame /\ CodecsSame
    <3>1. Atomic!DetectControllers
      BY <1>2, <1>8, <2>2 DEF Atomic!DetectControllers
    <3> QED
      BY <3>1 DEF Atomic!PatchNext
  <2>3. CASE ~CodecsSame
    <3>1. pc = "validate"
      BY <1>5, <2>3
    <3>2. kext = "AppleHDA" /\ ControllersKnown
      BY <3>1 DEF AlcInv, TypeInv, Control, Between, ControllersKnown
    <3>3. "AppleHDA" \notin ProcessedKexts
      BY <3>2 DEF ProcessedKexts
    <3>4. Atomic!DetectCodecs
      BY <1>3, <1>4, <1>8, <2>3, <3>2, <3>3 DEF Atomic!DetectCodecs
    <3> QED
      BY <3>4 DEF Atomic!PatchNext
  <2> QED
    BY <2>1, <2>2, <2>3
<1>9. FinishKext \/ (\E k \in Kexts : Unload(k)) \/ ImagesSame
  BY ImagesOutside, ImagesKept DEF AlcInv
<1> QED
  BY <1>6, <1>7, <1>8, <1>9

LEMMA AtomicInit == AlcInit => Atomic!PatchInit
<1> SUFFICES ASSUME AlcInit PROVE Atomic!PatchInit
  OBVIOUS
<1>1. ~ControllersKnown /\ ~CodecsKnown
  BY DEF AlcInit, ControllersKnown, CodecsKnown
<1>2. \A k \in PatchedKexts : ~image[k].loaded
  BY DEF AlcInit, PatchedKexts
<1>3. ProcessedKexts = {}
  BY <1>2 DEF ProcessedKexts
<1>4. CarriedPatches = NoPatches
  BY <1>3 DEF CarriedPatches, CarriedBy, NoPatches
<1>5. /\ KnownControllers = <<>> /\ KnownCodecs = <<>>
      /\ ControllersCall = NoPatches /\ CodecsCall = NoPatches
  BY <1>1 DEF KnownControllers, KnownCodecs, ControllersCall, CodecsCall
<1> QED
  BY <1>1, <1>3, <1>4, <1>5 DEF Atomic!PatchInit, Atomic!Nothing, NoPatches

\* Whatever the tables, the machine and the order of kexts, nodes and requests,
\* seen from outside processKext is one step, which gives the kext all that the
\* controllers and the codecs known by then call for (kern_alc.cpp 533-648).
THEOREM KextPatchingRefinement == AlcSpec => ImplementsKextPatching
BY AtomicInit, AtomicStep, BetweenHolds, PTL DEF AlcSpec, ImplementsKextPatching, Atomic!PatchSpec
=============================================================================
