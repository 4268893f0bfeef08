---------------------------- MODULE KextPatching ----------------------------
(***************************************************************************)
(* What AppleALC promises about the kexts it patches, seen from outside,    *)
(* where processKext is one step: the controllers are detected once, the    *)
(* codecs at most once and after them, and each kext gets, in one go, what  *)
(* the controllers and the codecs known by then call for, and nothing until *)
(* it is loaded again.  No codec becomes known while the kext they are       *)
(* patched in is there and done with, so it never lacks the patches of one; *)
(* when that kext is the first of all, it passes with no codec known.       *)
(***************************************************************************)
CONSTANTS
  Kexts,             \* the kexts that are patched
  CodecKext,         \* the one after which codecs are looked for
  Reloadable,        \* those that may be loaded again
  Patches,           \* everything that can be applied to one
  ControllerLists,   \* what the detections can find
  CodecLists

VARIABLES
  controllersKnown,    \* whether the detections are over
  codecsKnown,
  controllers,         \* what they found
  codecs,
  controllerPatches,   \* and what it calls for in each kext
  codecPatches,
  processed,           \* the loaded kexts processKext is done with
  carries              \* the patches each of them carries

patchVars ==
  <<controllersKnown, codecsKnown, controllers, codecs, controllerPatches, codecPatches, processed, carries>>
controllerVars == <<controllersKnown, controllers, controllerPatches>>
codecVars == <<codecsKnown, codecs, codecPatches>>

Nothing == [k \in Kexts |-> {}]

PatchInit ==
  /\ ~controllersKnown /\ ~codecsKnown /\ controllers = <<>> /\ codecs = <<>>
  /\ controllerPatches = Nothing /\ codecPatches = Nothing
  /\ processed = {} /\ carries = Nothing

DetectControllers ==
  /\ ~controllersKnown /\ controllersKnown'
  /\ controllers' \in ControllerLists
  /\ controllerPatches' \in [Kexts -> SUBSET Patches]
  /\ UNCHANGED <<codecVars, processed, carries>>

DetectCodecs ==
  /\ ~codecsKnown /\ codecsKnown'
  /\ controllersKnown /\ CodecKext \notin processed
  /\ codecs' \in CodecLists
  /\ codecPatches' \in [Kexts -> SUBSET Patches]
  /\ UNCHANGED <<controllerVars, processed, carries>>

Process(k) ==
  /\ k \notin processed /\ processed' = processed \cup {k}
  /\ controllersKnown
  /\ carries' = [carries EXCEPT ![k] = controllerPatches[k] \cup codecPatches[k]]
  /\ UNCHANGED <<controllerVars, codecVars>>

Unload(k) ==
  /\ k \in processed \cap Reloadable
  /\ processed' = processed \ {k}
  /\ carries' = [carries EXCEPT ![k] = {}]
  /\ UNCHANGED <<controllerVars, codecVars>>

PatchNext ==
  \/ DetectControllers \/ DetectCodecs
  \/ \E k \in Kexts : Process(k) \/ Unload(k)

PatchSpec == PatchInit /\ [][PatchNext]_patchVars
=============================================================================
