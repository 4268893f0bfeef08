----------------------------- MODULE AlcEnabler -----------------------------
(***************************************************************************)
(* The boot pipeline of AppleALC: after updateProperties (DeviceProperties) *)
(* Lilu calls AlcEnabler::processKext for every kext of Kexts.plist it sees *)
(* loaded, in whatever order they load, again when AppleHDA is reloaded.    *)
(* processKext detects controllers and codecs, hands out the NVIDIA ids,    *)
(* patches the image of the kext and routes functions of it to AppleALC.    *)
(*                                                                          *)
(* processKext is one thread (Lilu calls it while the kext is loading), cut *)
(* into steps at its loops: pc says which loop it is in.  While it runs the *)
(* codec driver publishes the codec's registry properties one by one, and   *)
(* AppleHDA, once started, requests layout and platform resources.          *)
(***************************************************************************)
EXTENDS DeviceProperties

CONSTANTS
  ControllerMod,   \* ADDPR(controllerMod), a sequence (Controllers.plist)
  CodecMod,        \* the codecs of ADDPR(vendorMod), a sequence (Info.plist of each codec)
  BruteMax         \* WIOKit::bruteMax, how often grabCodecs looks

Mojave == 18   \* the Darwin version from which AppleGFXHDA exists

Kexts == {"AppleHDA", "AppleHDAController", "AppleGFXHDA", "IOHDAFamily"}

\* Kexts.plist: the kexts with Detect (user[0]) and with Reloadable.
Detect == {"AppleHDA"}
Reloadable == {"AppleHDA"}

(* The entries of the tables, and what a machine has besides its devices.     *)

KextPatch == [kext : Kexts, find : STRING, minKernel : Int, maxKernel : Int]

ResourceFile == [layout : Int, minKernel : Int, maxKernel : Int]

ControllerModInfo ==
  [vendor : {Intel, NVIDIA, "other"}, device : Int, revisions : SUBSET Int, platform : Int,
   models : SUBSET STRING, patches : Seq(KextPatch)]

CodecModInfo ==
  [vendor : Int, codec : Int, revisions : SUBSET Int, patches : Seq(KextPatch),
   layouts : Seq(ResourceFile), platforms : Seq(ResourceFile)]

CodecNode == [vendor : Int, codec : Int, revision : Int, valid : BOOLEAN]

ASSUME BruteMaxAssumption == BruteMax \in Nat \ {0}
ASSUME TablesAssumption == ControllerMod \in Seq(ControllerModInfo) /\ CodecMod \in Seq(CodecModInfo)
ASSUME CodecNodesAssumption == \A m \in Machines : m.kernel \in Int /\ m.codecNodes \in Seq(CodecNode)

Callbacks == {"layoutLoadCallback", "platformLoadCallback", "performPowerChange", "initializePinConfig"}
ResourceTypes == {"Layout", "Platform"}
CallbackOf == [Layout |-> "layoutLoadCallback", Platform |-> "platformLoadCallback"]

VARIABLES
  progressState,   \* the ProcessingState bits that are set
  codecs,          \* AlcEnabler::codecs
  nvidiaFind,      \* for each patch with the NVDA placeholder: 0, or the index of its id
  currentFree,     \* currentFreeNvidiaDeviceId, counted from 1
  image,           \* the kexts in memory: patches applied, functions routed
  nodes,           \* how much of each codec node below HDEF is published
  pc,              \* where processKext is
  kext,            \* the kext it processes
  i, j,            \* its loop counters: controller and patch, or controller
  brute, found,    \* the retries of grabCodecs
  resource         \* what the last request of each type was given

loopVars == <<pc, kext, i, j, brute, found>>
alcVars == <<progressState, codecs, nvidiaFind, currentFree, image, nodes, loopVars, resource>>
vars == <<propVars, alcVars>>

-----------------------------------------------------------------------------
(* The tables. *)

LeastOrZero(S) ==
  IF \E n \in S : \A k \in S : n <= k THEN CHOOSE n \in S : \A k \in S : n <= k ELSE 0

Special == "NVDA"   \* NvidiaSpecialFind

\* The patches whose find is the placeholder, as <<mod, patch>>.
Slots ==
  {s \in UNION {{m} \X DOMAIN ControllerMod[m].patches : m \in DOMAIN ControllerMod} :
     ControllerMod[s[1]].patches[s[2]].find = Special}

CompatibleKernel(e) == e.minKernel <= machine.kernel /\ machine.kernel <= e.maxKernel

\* The patches applyPatches applies to kext k out of a patch list.
Applicable(patches, k) ==
  {p \in DOMAIN patches : patches[p].kext = k /\ CompatibleKernel(patches[p])}

ControllerPatches(m, k) ==
  {[table |-> "controller", mod |-> m, patch |-> p,
    find |-> IF <<m, p>> \in Slots THEN nvidiaFind[<<m, p>>] ELSE 0] :
      p \in Applicable(ControllerMod[m].patches, k)}

CodecPatches(m, k) ==
  {[table |-> "codec", mod |-> m, patch |-> p, find |-> 0] : p \in Applicable(CodecMod[m].patches, k)}

\* validateControllers: the first entry that matches, 0 when none does.  With
\* no revision listed any revision matches.
ModMatches(m, c) ==
  LET mod == ControllerMod[m]
  IN  /\ c.vendor = mod.vendor /\ c.device = mod.device
      /\ mod.platform # PlatformAny => mod.platform = c.platform
      /\ machine.model \in mod.models
      /\ mod.revisions = {} \/ c.revision \in mod.revisions

Validated(cs) ==
  [n \in DOMAIN cs |->
     [cs[n] EXCEPT !.info = LeastOrZero({m \in DOMAIN ControllerMod : ModMatches(m, cs[n])})]]

\* validateCodecs: the entry of a codec, 0 when it is unsuitable.
Mut_AnyRevision(c) ==
  LeastOrZero({m \in DOMAIN CodecMod : CodecMod[m].vendor = c.vendor /\ CodecMod[m].codec = c.codec})

CodecEntry(c) ==
  LET m == LeastOrZero({x \in DOMAIN CodecMod : CodecMod[x].vendor = c.vendor /\ CodecMod[x].codec = c.codec})
  IN  IF m # 0 /\ (CodecMod[m].revisions = {} \/ c.revision \in CodecMod[m].revisions) THEN m ELSE 0

Suitable(c) == CodecEntry(c) # 0

Erase(cs, n) == [k \in 1 .. Len(cs) - 1 |-> IF k < n THEN cs[k] ELSE cs[k + 1]]

-----------------------------------------------------------------------------
AlcInit ==
  /\ Init
  /\ progressState = {}
  /\ codecs = <<>>
  /\ nvidiaFind = [s \in Slots |-> 0]
  /\ currentFree = 1
  /\ image = [k \in Kexts |-> [loaded |-> FALSE, patches |-> {}, routed |-> {}]]
  /\ nodes = [n \in DOMAIN machine.codecNodes |-> "absent"]
  /\ pc = "idle" /\ kext = "none"
  /\ i = 0 /\ j = 0 /\ brute = 0 /\ found = FALSE
  /\ resource = [t \in ResourceTypes |-> 0]

\* The arguments grabControllers passes for HDEF, in the order it passes them:
\* PlatformAny lands in the flag for no-controller-patch, and that flag in the
\* platform.
AnalogController ==
  Controller(hdef.ven, hdef.dev, hdef.rev, PlatformAny # 0, IF hdef.noPatch THEN 1 ELSE 0,
             hdef.alcLayout, TRUE)

\* grabControllers, then validateControllers on the whole list.
GrabControllers ==
  Validated(IF hdef.present /\ Readable(hdef) /\ hdef.alcLayout # None
            THEN Append(controllers, AnalogController) ELSE controllers)

LoadImage(k) == image' = [image EXCEPT ![k] = [loaded |-> TRUE, patches |-> {}, routed |-> {}]]

KextArrives(k) ==
  /\ phase = "done" /\ pc = "idle" /\ ~image[k].loaded

\* AppleGFXHDA has a function routed and nothing else.  Before Mojave the kext
\* is switched off.
LoadGfx ==
  /\ KextArrives("AppleGFXHDA") /\ machine.kernel >= Mojave
  /\ \E routed \in SUBSET {"probe"} :
       image' = [image EXCEPT !["AppleGFXHDA"] = [loaded |-> TRUE, patches |-> {}, routed |-> routed]]
  /\ UNCHANGED <<propVars, progressState, codecs, nvidiaFind, currentFree, nodes, loopVars, resource>>

\* The first other kext: the controllers are detected, the codecs are not.
LoadFirst(k) ==
  /\ KextArrives(k) /\ k # "AppleGFXHDA"
  /\ "ControllersLoaded" \notin progressState
  /\ LoadImage(k)
  /\ controllers' = GrabControllers
  /\ progressState' = progressState \cup {"ControllersLoaded"}
  /\ pc' = "controllers" /\ kext' = k /\ i' = 1 /\ j' = 1
  /\ UNCHANGED <<machine, devices, nvidiaDeviceIdUsage, phase, hdaGfxCounter, gpu, codecs, nvidiaFind,
                 currentFree, nodes, brute, found, resource>>

WantsCodecs(k) == "CodecsLoaded" \notin progressState /\ k \in Detect

\* A kext after which codecs are looked for.
LoadDetect(k) ==
  /\ KextArrives(k) /\ k # "AppleGFXHDA"
  /\ "ControllersLoaded" \in progressState /\ WantsCodecs(k)
  /\ LoadImage(k)
  /\ pc' = "codecs" /\ kext' = k /\ i' = 1 /\ brute' = 0 /\ found' = FALSE
  /\ UNCHANGED <<propVars, progressState, codecs, nvidiaFind, currentFree, nodes, j, resource>>

LoadOther(k) ==
  /\ KextArrives(k) /\ k # "AppleGFXHDA"
  /\ "ControllersLoaded" \in progressState /\ ~WantsCodecs(k)
  /\ LoadImage(k)
  /\ pc' = "controllers" /\ kext' = k /\ i' = 1 /\ j' = 1
  /\ UNCHANGED <<propVars, progressState, codecs, nvidiaFind, currentFree, nodes, brute, found, resource>>

-----------------------------------------------------------------------------
(* grabCodecs: for every controller with a registry entry to search, up to    *)
(* BruteMax looks below it.                                                   *)

\* The nodes iterated over that have IOHDACodecVendorID; only the first counts.
Seen == {n \in DOMAIN nodes : nodes[n] # "absent"}

\* appendCodec: an entry without its revision is to be looked at again.
Mut_PartialIsFinal(n) == TRUE

Complete(n) == nodes[n] = "complete"

NewCodec(n) ==
  [controller |-> i, vendor |-> machine.codecNodes[n].vendor, codec |-> machine.codecNodes[n].codec,
   revision |-> machine.codecNodes[n].revision, info |-> 0]

Searching == pc = "codecs" /\ i <= Len(controllers)

LookForCodec ==
  /\ Searching /\ controllers[i].detect /\ ~found /\ brute < BruteMax
  /\ LET n == LeastOrZero(Seen)
         final == n # 0 /\ Complete(n)
     IN  /\ found' = final
         /\ codecs' = IF final /\ machine.codecNodes[n].valid
                      THEN Append(codecs, NewCodec(n)) ELSE codecs
  /\ brute' = brute + 1
  /\ UNCHANGED <<propVars, progressState, nvidiaFind, currentFree, image, nodes, pc, kext, i, j, resource>>

Mut_NeverGivesUp ==
  /\ Searching /\ (controllers[i].detect => found)
  /\ i' = i + 1 /\ brute' = 0 /\ found' = FALSE
  /\ UNCHANGED <<propVars, progressState, codecs, nvidiaFind, currentFree, image, nodes, pc, kext, j, resource>>

NextController ==
  /\ Searching /\ (controllers[i].detect => found \/ brute = BruteMax)
  /\ i' = i + 1 /\ brute' = 0 /\ found' = FALSE
  /\ UNCHANGED <<propVars, progressState, codecs, nvidiaFind, currentFree, image, nodes, pc, kext, j, resource>>

\* validateCodecs: its loop over the codecs found, and what grabCodecs returns.
StartValidation ==
  /\ pc = "codecs" /\ i > Len(controllers)
  /\ pc' = "validate" /\ j' = 1
  /\ UNCHANGED <<propVars, progressState, codecs, nvidiaFind, currentFree, image, nodes, kext, i, brute,
                 found, resource>>

KeepCodec ==
  /\ pc = "validate" /\ j <= Len(codecs) /\ Suitable(codecs[j])
  /\ codecs' = [codecs EXCEPT ![j].info = CodecEntry(codecs[j])]
  /\ j' = j + 1
  /\ UNCHANGED <<propVars, progressState, nvidiaFind, currentFree, image, nodes, pc, kext, i, brute,
                 found, resource>>

EraseCodec ==
  /\ pc = "validate" /\ j <= Len(codecs) /\ ~Suitable(codecs[j])
  /\ codecs' = Erase(codecs, j)
  /\ UNCHANGED <<propVars, progressState, nvidiaFind, currentFree, image, nodes, loopVars, resource>>

CodecsValidated ==
  /\ pc = "validate" /\ j > Len(codecs)
  /\ progressState' = IF codecs = <<>> THEN progressState ELSE progressState \cup {"CodecsLoaded"}
  /\ pc' = "controllers" /\ i' = 1 /\ j' = 1
  /\ UNCHANGED <<propVars, codecs, nvidiaFind, currentFree, image, nodes, kext, brute, found, resource>>

-----------------------------------------------------------------------------
(* The loop over the controllers: ids for the placeholders, then the patches. *)

Patching == pc = "controllers" /\ i <= Len(controllers)

IsNvidiaMod(m) == ControllerMod[m].vendor = NVIDIA

IdsPending == /\ Patching /\ controllers[i].info # 0 /\ IsNvidiaMod(controllers[i].info)
              /\ j <= Len(ControllerMod[controllers[i].info].patches)

Placeholder == <<controllers[i].info, j>> \in Slots /\ nvidiaFind[<<controllers[i].info, j>>] = 0

\* The next free id, from where the last search stopped.
Mut_TakesReservedId(n) == n \in DOMAIN NvidiaIds /\ n >= currentFree

FreeId(n) == n \in DOMAIN NvidiaIds /\ n >= currentFree /\ ~nvidiaDeviceIdUsage[n]

ChooseId ==
  /\ IdsPending /\ Placeholder
  /\ \E n \in DOMAIN NvidiaIds :
       /\ FreeId(n) /\ \A k \in DOMAIN NvidiaIds : FreeId(k) => n <= k
       /\ nvidiaFind' = [nvidiaFind EXCEPT ![<<controllers[i].info, j>>] = n]
       /\ nvidiaDeviceIdUsage' = [nvidiaDeviceIdUsage EXCEPT ![n] = TRUE]
       /\ currentFree' = n + 1
  /\ j' = j + 1
  /\ UNCHANGED <<machine, devices, controllers, phase, hdaGfxCounter, gpu, progressState, codecs, image,
                 nodes, pc, kext, i, brute, found, resource>>

\* The pool is exhausted: the placeholder stays.
Mut_ScansPastTheEnd ==
  /\ IdsPending /\ Placeholder
  /\ ~ \E n \in DOMAIN NvidiaIds : FreeId(n)
  /\ currentFree' = Len(NvidiaIds) + 2
  /\ j' = j + 1
  /\ UNCHANGED <<propVars, progressState, codecs, nvidiaFind, image, nodes, pc, kext, i, brute, found,
                 resource>>

NoIdLeft ==
  /\ IdsPending /\ Placeholder
  /\ ~ \E n \in DOMAIN NvidiaIds : FreeId(n)
  /\ currentFree' = Len(NvidiaIds) + 1
  /\ j' = j + 1
  /\ UNCHANGED <<propVars, progressState, codecs, nvidiaFind, image, nodes, pc, kext, i, brute, found,
                 resource>>

NotPlaceholder ==
  /\ IdsPending /\ ~Placeholder
  /\ j' = j + 1
  /\ UNCHANGED <<propVars, progressState, codecs, nvidiaFind, currentFree, image, nodes, pc, kext, i,
                 brute, found, resource>>

\* What the loop applies for controller c: nothing without a table entry, or
\* when the device asks not to be patched.
Mut_IgnoresNopatch(c) == IF c.info = 0 THEN {} ELSE ControllerPatches(c.info, kext)

PatchesFor(c) == IF c.info = 0 \/ c.nopatch THEN {} ELSE ControllerPatches(c.info, kext)

PatchController ==
  /\ Patching /\ ~IdsPending
  /\ image' = [image EXCEPT ![kext].patches = @ \cup PatchesFor(controllers[i])]
  /\ i' = i + 1 /\ j' = 1
  /\ UNCHANGED <<propVars, progressState, codecs, nvidiaFind, currentFree, nodes, pc, kext, brute, found,
                 resource>>

\* eraseRedundantLogs, unless debugging.
LogPatch(k) ==
  IF ~machine.debug /\ k \in {"AppleHDA", "AppleHDAController"}
  THEN {[table |-> "log", mod |-> 0, patch |-> 0, find |-> 0]} ELSE {}

ControllersPatched ==
  /\ pc = "controllers" /\ i > Len(controllers)
  /\ image' = [image EXCEPT ![kext].patches = @ \cup LogPatch(kext)]
  /\ pc' = "finish"
  /\ UNCHANGED <<propVars, progressState, codecs, nvidiaFind, currentFree, nodes, kext, i, j, brute, found,
                 resource>>

\* The patches of the codecs, and the bits the last part of processKext sets.
\* A codec with layouts or platforms wants the callbacks routed.
Mut_NoCodecPatches == {}

AllCodecPatches ==
  IF "CodecsLoaded" \in progressState
  THEN UNION {CodecPatches(codecs[n].info, kext) : n \in DOMAIN codecs} ELSE {}

HasResources(m) == CodecMod[m].layouts # <<>> \/ CodecMod[m].platforms # <<>>

WantRouting ==
  \/ "CallbacksWantRouting" \in progressState
  \/ "CodecsLoaded" \in progressState /\ \E n \in DOMAIN codecs : HasResources(codecs[n].info)

\* What is routed in kext: the callbacks on every load of AppleHDA, the two
\* others once.  Which symbols routeMultiple finds is up to the image.
Requests ==
  (IF WantRouting /\ kext = "AppleHDA" THEN Callbacks ELSE {}) \cup
  (IF "PatchHDAFamily" \notin progressState /\ kext = "IOHDAFamily" THEN {"executeVerb"} ELSE {}) \cup
  (IF "PatchHDAController" \notin progressState /\ kext = "AppleHDAController" THEN {"start"} ELSE {})

NewBits ==
  (IF WantRouting THEN {"CallbacksWantRouting"} ELSE {}) \cup
  (IF kext = "IOHDAFamily" THEN {"PatchHDAFamily"} ELSE {}) \cup
  (IF kext = "AppleHDAController" THEN {"PatchHDAController"} ELSE {})

Mut_OverwritesProgress ==
  /\ pc = "finish"
  /\ \E routed \in SUBSET Requests :
       image' = [image EXCEPT ![kext].patches = @ \cup AllCodecPatches, ![kext].routed = routed]
  /\ progressState' = NewBits
  /\ pc' = "idle" /\ kext' = "none"
  /\ UNCHANGED <<propVars, codecs, nvidiaFind, currentFree, nodes, i, j, brute, found, resource>>

FinishKext ==
  /\ pc = "finish"
  /\ \E routed \in SUBSET Requests :
       image' = [image EXCEPT ![kext].patches = @ \cup AllCodecPatches, ![kext].routed = routed]
  /\ progressState' = progressState \cup NewBits
  /\ pc' = "idle" /\ kext' = "none"
  /\ UNCHANGED <<propVars, codecs, nvidiaFind, currentFree, nodes, i, j, brute, found, resource>>

-----------------------------------------------------------------------------
(* The rest of the system.                                                    *)

\* The codec driver publishes the vendor id of a codec, later its revision.
PublishVendor(n) ==
  /\ nodes[n] = "absent"
  /\ nodes' = [nodes EXCEPT ![n] = "vendor"]
  /\ UNCHANGED <<propVars, progressState, codecs, nvidiaFind, currentFree, image, loopVars, resource>>

PublishRevision(n) ==
  /\ nodes[n] = "vendor"
  /\ nodes' = [nodes EXCEPT ![n] = "complete"]
  /\ UNCHANGED <<propVars, progressState, codecs, nvidiaFind, currentFree, image, loopVars, resource>>

Unload(k) ==
  /\ k \in Reloadable /\ image[k].loaded /\ pc = "idle"
  /\ image' = [image EXCEPT ![k] = [loaded |-> FALSE, patches |-> {}, routed |-> {}]]
  /\ UNCHANGED <<propVars, progressState, codecs, nvidiaFind, currentFree, nodes, loopVars, resource>>

Files(m, type) == IF type = "Layout" THEN CodecMod[m].layouts ELSE CodecMod[m].platforms

\* updateResource: the first file of the codec's table for its controller's
\* layout.  The last codec that has one wins; 0 when the request is left alone.
FileFor(c, type) ==
  LeastOrZero({f \in DOMAIN Files(c.info, type) :
                 /\ Files(c.info, type)[f].layout = controllers[c.controller].layout
                 /\ CompatibleKernel(Files(c.info, type)[f])})

Mut_FirstFile(type) ==
  IF codecs = <<>> THEN 0 ELSE LeastOrZero(DOMAIN Files(codecs[1].info, type))

UpdateResource(type) ==
  LET hits == {n \in DOMAIN codecs : codecs[n].info # 0 /\ FileFor(codecs[n], type) # 0}
  IN  IF hits = {} THEN 0
      ELSE FileFor(codecs[CHOOSE n \in hits : \A k \in hits : k <= n], type)

\* layoutLoadCallback and platformLoadCallback, in the started AppleHDA.
RequestResource(type) ==
  /\ CallbackOf[type] \in image["AppleHDA"].routed
  /\ resource' = [resource EXCEPT ![type] = UpdateResource(type)]
  /\ UNCHANGED <<propVars, progressState, codecs, nvidiaFind, currentFree, image, nodes, loopVars>>

ProcessKext ==
  \/ LookForCodec \/ NextController
  \/ StartValidation \/ KeepCodec \/ EraseCodec \/ CodecsValidated
  \/ ChooseId \/ NoIdLeft \/ NotPlaceholder \/ PatchController \/ ControllersPatched
  \/ FinishKext

AlcNext ==
  \/ UpdateProperties /\ UNCHANGED alcVars
  \/ LoadGfx
  \/ \E k \in Kexts : LoadFirst(k) \/ LoadDetect(k) \/ LoadOther(k) \/ Unload(k)
  \/ ProcessKext
  \/ \E n \in DOMAIN nodes : PublishVendor(n) \/ PublishRevision(n)
  \/ \E type \in ResourceTypes : RequestResource(type)

AlcSpec == AlcInit /\ [][AlcNext]_vars

\* Lilu's thread runs a processKext it has begun to its end.
FairAlcSpec == AlcSpec /\ WF_vars(ProcessKext)

-----------------------------------------------------------------------------
(* Properties. *)

ProgressBits ==
  {"ControllersLoaded", "CodecsLoaded", "CallbacksWantRouting", "PatchHDAFamily", "PatchHDAController"}

CodecInfo == [controller : Nat, vendor : Int, codec : Int, revision : Int, info : 0 .. Len(CodecMod)]

AppliedPatch == [table : {"controller", "codec", "log"}, mod : Nat, patch : Nat, find : Nat]

LoadedKext ==
  [loaded : BOOLEAN, patches : SUBSET AppliedPatch,
   routed : SUBSET (Callbacks \cup {"executeVerb", "start", "probe"})]

Registered == {controllers[n] : n \in DOMAIN controllers}

\* Every variable of the boot pipeline keeps its type (kern_alc.hpp 245-380).
AlcTypeOK ==
  /\ PropTypeOK
  /\ progressState \subseteq ProgressBits
  /\ codecs \in Seq(CodecInfo)
  /\ \A n \in DOMAIN codecs : codecs[n].controller \in DOMAIN controllers
  /\ nvidiaFind \in [Slots -> 0 .. Len(NvidiaIds)]
  /\ currentFree \in 1 .. Len(NvidiaIds) + 1
  /\ image \in [Kexts -> LoadedKext]
  /\ \A k \in Kexts : image[k].patches # {} \/ image[k].routed # {} => image[k].loaded
  /\ nodes \in [DOMAIN machine.codecNodes -> {"absent", "vendor", "complete"}]
  /\ pc \in {"idle", "codecs", "validate", "controllers", "finish"}
  /\ kext \in Kexts \cup {"none"}
  /\ i \in Nat /\ j \in Nat
  /\ brute \in 0 .. BruteMax /\ found \in BOOLEAN
  /\ resource \in [ResourceTypes -> Nat]

\* Two placeholders never get the same NVIDIA id, and none gets the id of a
\* digital controller AppleALC registered, over any number of kext loads
\* (kern_alc.cpp 164-170, 570-588).
NvidiaIdsExclusive ==
  /\ \A s, t \in Slots : s # t /\ nvidiaFind[s] # 0 => nvidiaFind[s] # nvidiaFind[t]
  /\ \A s \in Slots, c \in Registered :
       nvidiaFind[s] # 0 /\ ~c.detect /\ c.vendor = NVIDIA => NvidiaIds[nvidiaFind[s]] # c.device

\* Once processed, a kext carries all the compatible patches of every matched
\* controller that may be patched, with the ids in force now, and no other
\* controller patch, whatever the order and number of kext loads (549-595).
ControllerPatchesExact ==
  \A k \in Kexts \ {"AppleGFXHDA"} : image[k].loaded /\ kext # k =>
    {p \in image[k].patches : p.table = "controller"} =
    UNION {ControllerPatches(c.info, k) : c \in {x \in Registered : x.info # 0 /\ ~x.nopatch}}

\* As soon as a codec is known, AppleHDA, when it is there and processed,
\* carries the patches of that codec and of no other: AppleHDA is where codecs
\* are looked for, so none becomes known after it has passed (552-557, 602-617).
\* An AppleHDA that is the first kext of all passes with no codec known.
CodecPatchesInAppleHDA ==
  image["AppleHDA"].loaded /\ kext # "AppleHDA" =>
    {p \in image["AppleHDA"].patches : p.table = "codec"} =
    UNION {CodecPatches(codecs[n].info, "AppleHDA") : n \in DOMAIN codecs}

\* Outside the search and the validation, every codec is a suitable one found below the analog
\* controller, and "codecs loaded" says exactly that there is one (743-772,
\* 812-861).
CodecsSuitable ==
  pc \notin {"codecs", "validate"} =>
    /\ ("CodecsLoaded" \in progressState) <=> (codecs # <<>>)
    /\ Len(codecs) <= 1
    /\ \A n \in DOMAIN codecs :
         /\ controllers[codecs[n].controller].detect
         /\ \E m \in DOMAIN machine.codecNodes :
              /\ nodes[m] = "complete" /\ machine.codecNodes[m].valid
              /\ codecs[n].codec = machine.codecNodes[m].codec
              /\ LET e == CodecMod[codecs[n].info]
                 IN  /\ e.vendor = machine.codecNodes[m].vendor
                     /\ e.codec = machine.codecNodes[m].codec
                     /\ e.revisions = {} \/ machine.codecNodes[m].revision \in e.revisions

\* The callbacks serve a resource only for the layout of the codec's controller
\* and only a file for this kernel (650-678).
ResourceFits ==
  \A type \in ResourceTypes : resource[type] # 0 =>
    \E n \in DOMAIN codecs :
      LET f == Files(codecs[n].info, type)[resource[type]]
      IN  /\ resource[type] \in DOMAIN Files(codecs[n].info, type)
          /\ f.layout = hdef.alcLayout
          /\ CompatibleKernel(f)

\* What was detected is never detected again, nor changed by a reload of
\* AppleHDA (549-557).
DetectionStable ==
  [][ /\ "ControllersLoaded" \in progressState => controllers' = controllers
      /\ "CodecsLoaded" \in progressState => codecs' = codecs
      /\ progressState \subseteq progressState' ]_vars

\* The search below a controller is given up only after BruteMax looks, or when
\* a node had both its ids: a codec caught half published is looked at again
\* (710-719, 752-763).
SearchExhaustive ==
  [][ Searching /\ i' # i /\ controllers[i].detect =>
        brute = BruteMax \/ \E n \in DOMAIN nodes : nodes[n] = "complete" ]_vars

-----------------------------------------------------------------------------
(* The pipeline as KextPatching states it.  The controllers count as detected  *)
(* once every placeholder their patches have is settled; a kext counts as      *)
(* processed once processKext is done with it, and until then what its image   *)
(* already carries is not seen.  The log patch is the same for every machine.  *)

\* A placeholder that is settled will not be given another id.
Settled(m, p) ==
  <<m, p>> \in Slots /\ IsNvidiaMod(m) => nvidiaFind[<<m, p>>] # 0 \/ currentFree > Len(NvidiaIds)

AllSettled ==
  \A n \in DOMAIN controllers : controllers[n].info # 0 =>
    \A p \in DOMAIN ControllerMod[controllers[n].info].patches : Settled(controllers[n].info, p)

ControllersKnown == "ControllersLoaded" \in progressState /\ AllSettled
CodecsKnown == "CodecsLoaded" \in progressState

PatchedKexts == Kexts \ {"AppleGFXHDA"}
ProcessedKexts == {k \in PatchedKexts : image[k].loaded /\ kext # k}

CallFor(c, k) == IF c.info = 0 \/ c.nopatch THEN {} ELSE ControllerPatches(c.info, k)
ControllersCallFor(k) == UNION {CallFor(controllers[n], k) : n \in DOMAIN controllers}
CodecsCallFor(k) == UNION {CodecPatches(codecs[n].info, k) : n \in DOMAIN codecs}

NoPatches == [k \in PatchedKexts |-> {}]
ControllersCall == IF ControllersKnown THEN [k \in PatchedKexts |-> ControllersCallFor(k)] ELSE NoPatches
CodecsCall == IF CodecsKnown THEN [k \in PatchedKexts |-> CodecsCallFor(k)] ELSE NoPatches

KnownControllers == IF ControllersKnown THEN controllers ELSE <<>>
KnownCodecs == IF CodecsKnown THEN codecs ELSE <<>>

CarriedBy(k) == IF k \in ProcessedKexts THEN {p \in image[k].patches : p.table # "log"} ELSE {}
CarriedPatches == [k \in PatchedKexts |-> CarriedBy(k)]

Atomic == INSTANCE KextPatching WITH
  Kexts <- PatchedKexts,
  CodecKext <- "AppleHDA",
  Patches <- AppliedPatch,
  ControllerLists <- Seq(ControllerInfo),
  CodecLists <- Seq(CodecInfo),
  controllersKnown <- ControllersKnown,
  codecsKnown <- CodecsKnown,
  controllers <- KnownControllers,
  codecs <- KnownCodecs,
  controllerPatches <- ControllersCall,
  codecPatches <- CodecsCall,
  processed <- ProcessedKexts,
  carries <- CarriedPatches

\* Every behaviour of the pipeline, with its loops, retries and id pool, is one
\* in which processKext is atomic (549-621).
ImplementsKextPatching == Atomic!PatchSpec

\* processKext returns: neither the retries nor the scan of the id pool can
\* hold up the loading of a kext for ever (576-585, 752).
ProcessingEnds == pc # "idle" ~> pc = "idle"

(* An HDEF that is to be left alone is: with no-controller-inject it is not    *)
(* registered ("If set, ignore the controller.", 864), or at least, with        *)
(* no-controller-patch, nothing is patched for it (Changelog.md 366).           *)
LeftAlone ==
  hdef.noInject /\ hdef.noPatch =>
    \/ \A c \in Registered : ~c.detect
    \/ \A k \in Kexts : \A p \in image[k].patches : p.table = "controller" =>
         \E c \in Registered : ~c.detect /\ c.info = p.mod
=============================================================================
