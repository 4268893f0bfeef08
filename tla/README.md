# A TLA+ model of AppleALC

AppleALC is a Lilu plugin: a kernel extension that makes Apple's audio drivers
(AppleHDA and its companions) work on codecs and controllers Apple does not
support. It rewrites device properties at boot, patches the images of four
kexts while they load, hooks a handful of their functions, and offers a user
client through which the command line tool `alc-verb` sends single verbs to a
codec. This directory holds its TLA+ model, the TLC configurations that check
it on small instances, and the theorems TLAPS proves about it.

Paths below are relative to the repository (`src/AppleALC/kern_alc.cpp` is
shortened to `kern_alc.cpp`).

## The system and its parts

| Part | State it keeps | Operations | Talks to |
|---|---|---|---|
| **Device properties** (`AlcEnabler::updateProperties`, 66-275) | the properties of HDEF, HDAU, IGPU and external GPUs; `controllers`; `nvidiaDeviceIdUsage` | one pass at boot, in four parts | the boot pipeline, which reads what it wrote; AppleHDAController, which reads the properties |
| **Boot pipeline** (`processKext` and what it calls, 531-885) | `progressState`, `controllers`, `codecs`, the shared patch tables, `currentFreeNvidiaDeviceId` | one call for each kext loaded; the two resource callbacks | Lilu (calls it), the codec driver (publishes codecs meanwhile), AppleHDA (asks for resources) |
| **Pin configurations and wake verbs** (`initializePinConfig`, `performPowerChange`, 338-504) | registry properties of each codec (`alc-pinconfig-status`, `alc-sleep-status`, its own `HDAConfigDefault`) and the shared `HDAConfigDefault` of the config device | two hooks, called by AppleHDA on threads of its own | each other, only through those properties |
| **User client** (`ALCUserClientProvider`, `ALCUserClient`, `alc-verb`) | `readyForVerbs`, the registry, the tool's options, iterator and index, its open connection | parse, look up names, probe, start, stop, open, execute a verb, close | the routed `executeVerb` of IOHDAFamily |
| **Small hooks** (`gfxProbe`, `AppleHDAController_start`, entitlement, 291-336, 506-509) | none | one decision each | |
| **Tables** (`Resources/*.plist`, PinConfigs.kext) | data | | read by the pipeline and the hooks |
| **ResourceConverter** (`ResourceConverter/main.mm`) | the file it writes; numbers, files and patch bytes it remembers | one run over a resource directory | called by the build; its output is the pipeline's tables |
| **Build scripts** (`generate.sh`, `zlib_pack.command`) | packed files, md5 records beside each source and for all of them | one build, stage by stage | Xcode (runs them), the developer (edits and kills them) |
| **hda-tools** | the pins, associations and verbs of one codec dump | `verbit.sh` and filters over codec dumps | used by hand; the verbs go into PinConfigs.kext |

What is hard in it:

- *Order.* Lilu reports kexts in whatever order they load; detection takes two
  calls, and codecs are only looked for on the second. AppleHDA can be reloaded.
- *Concurrency.* The codec driver publishes the two ids of a codec one after
  the other while `grabCodecs` looks for them. Every codec is initialised by a
  thread of its own, over one shared list. Power changes arrive at any time.
  Providers come and go while a tool iterates over them.
- *Ownership.* `initializePinConfig` counts references by hand over seven exits
  and reads, without holding it, a list another thread may replace.
- *Shared, mutable tables.* The NVIDIA find bytes are written into the patch
  table itself, from a pool of sixteen ids, once and for all kexts.
- *Partial failure.* Routing may succeed for one function and not for another;
  allocations fail half-way; a forced initialisation may fail; HDAU may refuse
  to terminate. All of it is logged and ignored.
- *Records that outlive a build.* The md5 files say what need not be done again;
  builds fail or are killed between a file and its record, and sources change
  while a build runs.
- *Liveness.* Retry loops must end, wake verbs must come back, the tool must
  end whatever index it is given.

What makes each part correct:

- **Device properties**: no two graphics devices share an onboard number; the
  digital audio of the IGPU has exactly one carrier; controllers stand for real
  devices; the user's layout choice survives AppleALC's own writes.
- **Boot pipeline**: each kext carries exactly the patches of the matched
  controllers and codecs whatever the order; no NVIDIA id is given out twice;
  a codec is one that was really there, complete and supported; resources fit
  layout and kernel; the loading of a kext is never held up for ever.
- **Wake verbs**: boot verbs are sent whatever codecs with the same layout do, if
  memory allows; one attempt is made to send the wake verbs after each sleep, and
  none to a codec that is playing; a codec is marked only when its own list is
  there; no object that is still held is freed, and what is not given back is
  known.
- **User client**: a verb reaches the codec asked for, only where it is allowed,
  with what was typed, in numbers or names; a provider that can be found is ready;
  a tool that ends leaves nothing open.
- **ResourceConverter**: the tables say what the plists say, in C++ that defines
  every name once and before its use, whatever order dictionaries come in.
- **Build scripts**: an output is trusted only when it is whole and current;
  whatever failed or was killed, later builds come to have nothing to do. The
  first does not hold without exception, and the exceptions are part of what is
  checked.
- **verbit.sh**: every pin ends with an association of its own, and a pin that had
  one to itself keeps it.

## Modules

| Module | Models | Extends / instantiates |
|---|---|---|
| `DeviceProperties` | `updateProperties`, `updateDeviceProperties`, `validateInjection`, `insertController` | |
| `KextPatching` | abstract: what kexts are promised, with `processKext` as one step | |
| `AlcEnabler` | `processKext` and everything it calls, the resource callbacks | extends `DeviceProperties`: the pipeline starts when `updateProperties` is done; `KextPatching` through a refinement mapping |
| `WakeVerbs` | abstract: what wake verbs promise, seen from outside | |
| `PinConfigPower` | the hooks of `initializePinConfig` and `performPowerChange` | `WakeVerbs` through a refinement mapping |
| `PinConfigRefs` | the objects `initializePinConfig` makes, who holds them, how long they live | |
| `UserClient` | provider, user client, `alc-verb` | extends `HdaVerbs` |
| `HdaVerbs` | the tables of `hdaverb.h` and `lookup_str` | |
| `ResourceBuild` | `generate.sh` and `zlib_pack.command`, build after build | |
| `ResourceConverter` | `main.mm`: the definitions it writes, and how they are read | |
| `Verbit` | `verbit.sh`: from the pins of a dump to corrected verbs | |
| `MC*` | the instances: machines, tables, lists, command lines | the module of the same name |
| `DevicePropertiesProofs`, `AlcEnablerProofs`, `PinConfigPowerProofs`, `PinConfigRefsProofs`, `UserClientProofs`, `ResourceBuildProofs`, `ResourceConverterProofs`, `VerbitProofs` | theorems and proofs | the component's module, TLAPS; `AlcEnablerProofs` also `DevicePropertiesProofs` |

### DeviceProperties

A *machine* is a constant: firmware, boot arguments and the devices as WIOKit's
`DeviceInfo` reports them. `machine` remembers what was booted, `hdef`, `hdau`,
`igpu` and `external` are the devices as rewritten so far. A device is a record
of the properties the code reads back; a number that is not set is `None`.
The four parts of the function ("Firstly" ... "Fourthly") are the actions
`UpdateBuiltinDigital`, `UpdateBuiltinAnalog`, `UpdateIgpu` and, one step per
card, `SkipExternal` / `UpdateExternal`. `onboard-N` is the number N. Properties
nothing in AppleALC reads back (boot-beep volumes, `PinConfigurations`,
`built-in`) are left out.

### AlcEnabler and KextPatching

`processKext` is one thread, cut into steps at its loops; `pc` says which loop
it is in. `LoadFirst`, `LoadDetect`, `LoadOther` and `LoadGfx` are the four ways
it starts. `LookForCodec` is one round of the retry loop of `grabCodecs` and
`NextController` the end of that loop; `StartValidation`, `KeepCodec`,
`EraseCodec` and `CodecsValidated` are the loop of `validateCodecs`, which erases
from the vector it walks through. `ChooseId`, `NoIdLeft` and
`NotPlaceholder` are one patch of the NVIDIA loop, `PatchController` one
controller of the patch loop, `FinishKext` the rest of the function.
Interleaved with it are the codec driver (`PublishVendor`, `PublishRevision`),
AppleHDA's requests (`RequestResource`) and, between calls, the reload of
AppleHDA (`Unload`).

`image[k].patches` records which patches were applied to the image of kext k,
with the id that stood in the find bytes at that moment. Whether the bytes are
found is up to the image and ignored by the code. `routed` is any subset of what
was requested: `routeMultiple` may fail for each symbol, and its result is not
looked at. That `insertController` receives two arguments in each other's place
in `grabControllers` is modelled as it is (`AnalogController`).

`KextPatching` has no loops, retries, pool or pc. The controllers are detected in
one step, the codecs in another, later and while AppleHDA is not done with, and
`Process` gives a kext at once what the two call for. `AlcEnabler` implements it
with the mapping at its end: controllers count as detected when every placeholder
of theirs has its id or the pool is empty (`ControllersKnown`), a kext counts as
processed when `processKext` has left it (`ProcessedKexts`), and what an image
carries before that is not seen (`CarriedBy`). The mapping leaves out AppleGFXHDA,
which is not patched, and the patch of redundant logs, which depends on nothing
detected.

### PinConfigPower and WakeVerbs

Every registry read or write of `initializePinConfig` is a step, and so is every
write of `performPowerChange`. Its two reads are one step: it acts only when the
first one returns true, and from then on nobody else writes what the second one
reads. `initPc[c]` is where the
initialisation of codec c is, `powerPc[c]` where its power change is; a driver
handles one power change at a time. The list of `configDevice` is shared by all
codecs, so `ReplaceList` of one can fall between any two steps of another.
The data of an entry is abstracted to what it is for ("boot", "wake"). Each
allocation may fail, which `noMemory` remembers. The original function
programs a codec with the first entry that has its id and Apple's layout
(`Programmed`); a codec that sleeps loses what it was programmed with.

`AppleLayouts` says what `getAudioLayout` may find above each codec: any numbers,
0 for none. 260-261 write one `layout-id` to HDEF and HDAU only off Apple's
firmware or where `use-apple-layout-id` is set, and never to a device with
`no-controller-inject`, so two codecs need not have the same. When they do not,
the hook of one may replace the list between 457 and 503 of the other, and the
original then finds no entry for the other one: the analog codec is left
without boot verbs. `Overruled` names that, and `BootVerbsSent` and
`ConfiguredWhenAwake` allow it and nothing else. Below controllers with one
`layout-id` no interleaving takes the verbs away.

`EarlyDrivers` are the codecs whose drivers may see power changes before the
codec has been initialised. AppleHDA's own start order is not in this
repository, so nothing is assumed of them: `ArmedWithOwnList` and
`NoNullTrampoline` hold for every codec, the wake protocol (`ManagedCodecs`) for
those whose driver waits. In the run `PinConfig` the HDMI codec's driver does
not wait and the analog one's does.

The refinement maps `managed` to the codecs that are armed with both hooks in
place, `asleep` to those in the sleep state, and `due` to those asleep or with
the sleep mark set. `WakeVerbs` has four actions and says: due from every sleep
until one attempt to re-initialise after a wake. An attempt that fails counts,
as line 375 clears the mark whatever the call returned.

### PinConfigRefs

The same hook seen from its objects: `refs` is the count of every list and entry
the hook of a codec can make, and of the list `configDevice` starts with, which
may be held by somebody else as well (`elsewhere`: the personality it came
from). A hook is cut where it creates, retains, releases or reads an object;
what the lists say is left to `PinConfigPower`, except the layout number that
decides whether an entry is found. `getProperty` does not retain, so a hook
that was overtaken can find its list or entry freed: `UseFreed` leads to
"undefined", and nothing is said about what such a hook does next. What the model
shows of the counting is both good and bad: nothing that is held is ever freed,
and each copy that was put into a property keeps one reference too many for ever
(the first by the `retain` of line 458, the second because only its list is
released at 487-493). `CountsMatch` states both exactly.

### UserClient and HdaVerbs

A codec device is its place in the registry. What the matching of the registry
found is a set (`matches`), which the iterator goes through in the order of the
registry; `place` is how far it has come. A provider goes from "absent" over
"probed" and "ready" to "published" and "stopped"; setting the flag and
registering the service are two steps. A tool goes from its options and words
through the steps of `execute_command`; providers may stop, and the user may
interrupt it, between any two of them. Its connection is an `ALCUserClient`,
which IOKit terminates with its provider, and the kernel closes when the process
is gone: the tool itself never does. Numbers are the numbers typed; `Narrow` is
the cast to `uint16_t`. A word that does not begin with a digit is a name:
`Upper` is `toupper` over the names of the instance, and `lookup_str` takes a
name cut short as long as it is the only one, over the whole tables of
`hdaverb.h` (the instance also has TLC check that a name typed in full is never
ambiguous). When the function that executes verbs was not routed the call goes
through a null pointer: the model has no next step there. `readyForVerbs` does
not depend on the route, although the comment at `ALCUserClientProvider.cpp` 44
could be read so. Any probe may find a parent missing (`attached`), and any lookup
may fail (`MatchFails`). `-d` takes any integer but INT_MIN, whose decrement at
`main.c` 53 overflows: that is not covered.

### ResourceBuild

`pc` is the stage of `generate.sh`; within "pack" and "format" `task[f]` says
where the work on file f is, as xargs works on all files at once. The sources,
the `.zlib` and `.md5` files, the output and `Resources.md5` are variables that
a failing (`ToolFails`, `ConverterFails`) or killed (`Interrupt`) build leaves
as they are; `Edit` and `Restore` may happen at any moment. A file that is being
written is `Partial`. Xcode runs the script with `bash -e`, so a stage in which a
tool failed ends the build (`StageFails`), after the other files are done.
`ConvertFile` stands for the whole of `ResourceConverter` that reads one file;
`ResourceConverter` is the detailed model of what it then writes.

Two tools may also fail without a word. `zlib.pl` has no `else` for a file it
cannot open (41), takes a failed read for the end of the file (44), and exits with
0: its `.zlib` is then `Cut`, and recorded as current (`DeflateFailsSilently`). The
converter does not look at what `createFileAtPath` returned (`main.mm` 390), and
`appendFile` does nothing without a file: it ends well with no output
(`CreateFailsSilently`, `ConverterEndsWithout`), and `Resources.md5` is written.

Contents are a text and a layout: reformatting a plist keeps the text, packing
keeps nothing else. A digest is the content itself (no collisions). An edit
makes a new text, `Restore` brings back an older one. The script cannot tell an
output it finished from one it only began, nor a record of this content from one
of an earlier time, so its trust is not always earned:

- `Resources.md5` survives the removal of `kern_resources.cpp`, by hand or at
  line 35, and is written for one that was never created. A build that then
  starts it anew and is killed leaves a partial file that the next one trusts.
  `orphaned` marks that `Resources.md5` stands for an output that was lost.
- Going back to an earlier content revives its records, also when a later build
  was cut short (`restored`).
- A `.zlib` that was cut silently stays so until its source is edited.

`TrustedIsWhole`, which is what line 32 says, is violated through either of the
first two, and is a finding. `TrustEarned`, `Recovers` and the clause of `TypeOK`
about what the converter reads say what holds outside these cases: `TrustEarned`
excludes the first two, and excepts from "current" only the very file that was
cut. `RecordsSettle` holds in all of them.

Outside the model, and not handled by the script: a deleted source, whose record
stays; a removed `.zlib`; `md5` and the `perl -pi` of line 22 failing with exit
code 0; a change of ResourceConverter itself, which is in no record.

### ResourceConverter

The output is a sequence of definitions (`file3`, `patches1`, `codecModRealtek`,
...), each with its body; a reference is a table, a number and a length. `out`
also holds the static counters and the two maps of the program. What one call of
`generateFile` or one lookup of patch bytes writes is an operator that takes the
output so far to the output after; every loop is an action, one for each round:
kexts, vendors, codecs, controllers (`GenerateKext`, `NextVendor`, `StartCodec`,
`StartController`) and, within a codec or controller, the rows of its lists
(`GenerateFileRow`, `GeneratePatchRow`, `EndOfList`). `cur` is the codec or
controller being generated, `stage` and `n` the list and the row it is at, `lines`
the rows so far and `refs` what the generators have returned. Dictionaries and
directories are visited in any order, arrays in theirs. `Read...` operators follow the references the way `AlcEnabler` follows
them, `...Of` operators say what the plists describe. What the C++ compiler
rejects is `Broken`.

### Verbit

The arrays of the script are sequences, its four loops actions of one round
each. Kept of a verb are the digits a rule looks at or changes; `ihex` is the
association the loop of lines 162-177 looks for, up to `LastHandedOut`. Two things of the script
show in the model. It contradicts itself about association 0: the note of line 153
says "Changed 0 to 1", and the pin counts as 1 from there on, but the verb it
prints is cut from the dump (219, 227) and still has the 0. `AssociationsUnique`
takes no side: 0 counts as 1 in it (`AsCounted`), so that a 0 beside a 1 would not
pass. And a pin that needs a new association when all fourteen are used up gets
none at all, so that its verb is a digit short (`NoDigit`).

## Runs

| Run | Bounds | Shows |
|---|---|---|
| `DeviceProperties` | all firmware kinds, boot-args, 33 HDEFs, 3 HDAUs, 3 IGPUs; no, five or two external cards, with NVIDIA ids in and out of the table; 127,584 states | the five properties of the device pass |
| `AlcEnabler` | kexts loading in every order, AppleHDA reloaded any number of times; 5 HDEFs, up to three NVIDIA cards, 5 table entries of which three have placeholders for a pool of 3 ids, four kinds of codec nodes, 2 retries, two kernels; two cards that share a table entry, one of them with `no-controller-patch`; 239,511 states | nine properties of the pipeline, among them an action property, the refinement of `KextPatching` and one liveness |
| `PinConfig` | two codecs (analog, and HDMI whose driver does not wait) on one list, the same layout-id above both, another one or none, all subsets of hooks, every allocation failing or not, power changes without end; 528,760 states | boot verbs, arming, wake verbs, no call through a null trampoline, the refinement of `WakeVerbs`, liveness |
| `PinConfigRefs` | three codecs on one list, the first list held elsewhere or not, every allocation failing or not; 479,628 states | reference counts, what is never given back, and when a hook can meet a freed list |
| `UserClient` | one tool, three codecs, 26 command lines: numbers on both sides of every limit, names whole, short, ambiguous and unknown, every option; interruptions, failing lookups, devices without parents; 1,668,432 states | safety of the verb path and the end of the tool |
| `ResourceBuild` | one packed file and one plist, 2 edits or restored contents and 2 troubles (loud and silent failures, kills, removals) at any moment, builds without end; 1,072,551 states | trust, settling and recovery of the incremental build, with their exceptions |
| `ResourceConverter` | four resource directories: one with every shape of list and reference, three that must not compile; every order of three or four kexts, two vendors, three codecs; 11,081 states | well-formedness, faithfulness and deduplication of the tables |
| `Verbit` | every dump of up to five pins over five kinds of pin, and dumps of 13 to 17 pins that use up the associations; 55,059 states | uniqueness of the corrected associations |
| `DevicePropertiesPrecedence`, `AlcEnablerLeftAlone`, `PinConfigHdmiFirst`, `ResourceBuildTrust` | as above | what the repository's comments, changelog and messages say and the code does not keep (next section) |

Why the bounds are enough: three ids for four placeholders make the pool run
out with and without reserved ids; two retries distinguish "none left" from
"one left"; five cards put a silent and an excluded one between injected ones;
two codecs are all that can meet on what one list says (the hook looks for one
entry only, and a third codec would find what the second finds), but it takes
three for a hook to read a list that a second one made while a third one
replaces it; one tool is enough because tools change nothing another tool
reads. Five pins repeat an association, meet one that was handed out before and
leave one alone, all in one dump; what happens when the associations run out
needs the long dumps. Of files in a build one of each sort is enough: work on
one file never looks at another, and they meet only in the records; two edits and two troubles put a failure before, after and between
edits. The registry, the retries, the pool, and the edits and troubles of
`ResourceBuild` (`MaxEdits`, `MaxTroubles`, in the guards) are the only bounded
things: no run needs a state constraint.

`CHECK_DEADLOCK FALSE` is given where the system really stops: `updateProperties`
runs once, the hooks of `PinConfigRefs` run once for each codec, and a tool, a run
of ResourceConverter and one of `verbit.sh` end.

### Where code and documentation disagree

1. *alc-layout-id* (`kern_alc.cpp` 214-217 against 224-231): on non-Apple
   firmware `layout-id` overrides an `alc-layout-id` that is set.
2. *no-controller-patch* (`Changelog.md` 366 against `kern_alc.cpp` 694): two
   arguments are swapped, HDEF is patched all the same.
3. *no-controller-inject* (`kern_alc.cpp` 864 against 687-694): HDEF is
   registered all the same. The run `AlcEnablerLeftAlone` shows 2 and 3 at once:
   `LeftAlone` asks of a HDEF with both properties that at least one be honoured.
4. *WakeVerbReinit* (`Changelog.md` 436 against `kern_alc.cpp` 422-457): when
   the HDMI codec is initialised first, the analog codec is never armed.
5. *Trusting existing kern_resources.cpp* (`generate.sh` 32 against 31, 35 and
   45): the file that is trusted may be one that a killed converter began.

`verbit.sh` also disagrees with itself ("Changed 0 to 1", 153 against 219 and 227);
no run is about it, see Verbit above.

## Fairness

- `FairAlcSpec`: weak fairness of `ProcessKext`. Lilu calls it synchronously on
  the thread that loads the kext; once called it runs. Nothing is assumed of
  kexts loading, codecs appearing or AppleHDA asking.
- `PinConfigPower!FairSpec`: weak fairness of each codec's initialisation and of
  a power change that has begun: threads inside a hook keep running. Power
  changes need not happen.
- `ResourceBuild!FairSpec`: the developer builds again, and a build that runs goes
  on. Edits and troubles need not happen.
- `UserClient!FairSpec`: a tool that was started is scheduled, and the kernel closes
  what it left open. Providers, plugin and the user may do nothing.

## Proofs

The theorems hold for every value of the constants that satisfies the
assumptions named in the modules, which TLC evaluates in the runs: machines are
records of the right types (`MachinesAssumption`, `CodecNodesAssumption`), ids are
integers (`NvidiaIdsAssumption`), tables and lists are sequences of entries
(`TablesAssumption`, `ConfigListsAssumption`), a codec is looked for at least once
(`BruteMaxAssumption`), layouts are numbers (`LayoutAssumption`), early drivers are
drivers of codecs (`EarlyDriversAssumption`), no codec is the first list
(`PersonalityAssumption`), command lines are sequences of options and words
(`CommandLinesAssumption`), a codec answers with a number (`ResponsesAssumption`),
layouts and tables are different files and there is a table
(`FilesAssumption`), a dump lists pins (`DumpsAssumption`), files and patches hold
bytes (`BytesAssumption`), plists hold lists of entries whose PCI and codec
numbers have 16 bits (`TreesAssumption`), and Kexts.plist lists the kexts that
`kern_resources.hpp` declares a `KextId` for (`HeaderAssumption`).

Four theorems also assume something of the machine, as an `ASSUME` of their own:
`OnboardCorrect` and `CarrierCorrect` that the firmware has put no `hda-gfx` on HDEF
or HDAU (`NoPresetGfx`; the code never looks at one that is there, and then they
could collide), `CarrierCorrect` that a HDAU that is present has not gone before
AppleALC looks (`DevicesAlive`), `BootCorrect` and `ConfiguredCorrect` that the
analog codec and its layout were detected (`AnalogDetected`) and that PinConfigs.kext
has an entry for them (`AnalogListed`). The layouts above the codecs are any.

What each proof rests on:

- `PropTypeCorrect`, `TypeCorrect`: the type invariants are inductive as they
  are.
- `IdsReservedCorrect`: inductive on its own once typing is known. The pool only
  gains reserved ids, and a controller is appended together with its id.
- `OnboardCorrect`: needs `OnboardInv`, which says that the numbers given out
  lie between the first external number and the counter, and that built-in
  devices stay below.
- `CarrierCorrect`, `ProvenanceCorrect`: from `BuiltinInv`, which ties the devices as
  rewritten to the machine as booted, field by field, and `CarrierInv`, which says
  at each phase who already carries the audio.
- `AlcEnablerProofs`: one invariant, `AlcInv`, for all nine theorems; they need
  each other. Controllers are settled by the first `processKext` (`Detected`); the
  codec vector is followed through search and validation, round by round
  (`CodecsFound`: what the loop has passed has an entry, what it has not may still be
  erased); an id handed out is marked used (`IdsTaken`); and `PatchesApplied` says
  what the image carries while the loop is at controller i, patch j. It needs
  that a placeholder which was settled stays so (`Settled`): a kext that loads
  later finds it with the same id or the pool empty, so that two kexts carry the
  same bytes. `DetectionStable` (which no run checks, because
  the refinement says more) and `SearchExhaustive` are action properties that
  follow from `AlcInv` before the step.
- `KextPatchingRefinement`: from `AlcInv` and `Between`, which says that placeholders
  are settled whenever the loop over the controllers is not running. Once the
  controllers are known no id is handed out any more, since that takes a
  placeholder which is not settled (`NoneChosen`), so what they call for stays the
  same (`ControllersStay`, `ControllersCallSame`), and likewise for codecs. Every step
  then leaves the controllers alone or detects them (`ControllersOutside`), leaves
  the codecs alone or ends their validation (`CodecsOutside`), and leaves the kexts
  alone unless it is the end of `processKext` or an unload (`ImagesOutside`). At
  its end a kext carries exactly what is called for (`CarriedAtEnd`). `AtomicStep`
  shows that no step does two of these at once.
- `UserClientProofs`: `UserInv` follows a tool through the iteration. The index left
  plus the number of matches passed is what -d said (`Counting`, which needs a
  cardinality of a set that grows by the least element not yet passed), so the
  service taken has that many before it (`Picked`); what is accepted by the
  checks stands for what was typed (`Accepted`) and is not changed by the narrow
  fields; a provider that is not absent is enabled (`Allowed`).
- `PinConfigRefsProofs`: `RefsInv` gives every count exactly, at every step of every
  hook: the sum of who holds the object then, `One(...)` for each holder. Freeing
  too early and leaking are both read off. `HookOrder` has the order in which a hook
  publishes, which decides who can overtake whom.
- `ArmedCorrect`, `TrampolineThere`: from `PinInv`. Being armed says nothing
  about the steps before it, so the invariant follows the copied entry from the
  search to the arming (`EntryCopied`, `OwnListMade`) and says that no codec is
  armed without the hook (`HookedOnly`).
- `ForcedCorrect`, `WakeRefinement`: from `WakeInv`, which speaks of the codecs
  that are not in `EarlyDrivers`, for any set of them. What a driver has read is
  still there (`SeenIsCurrent`), a finished sleep is remembered
  (`SleepRemembered`), and a remembered sleep means lost verbs
  (`LostWhileMarked`). `WakeRefinement` maps every step of the hooks to one
  action of `WakeVerbs` or to a stutter.
- `BootCorrect`: from `BootInv`. Every hook replaces the shared list by one that
  holds the boot verbs under the layout of its own codec, so that for codecs
  with the same layout it makes no difference whose list is found
  (`ListReplaced`); a codec that finds another's number is `Overruled`.
- `ConfiguredCorrect`: from `BootInv` and `LossInv`, for early drivers too: verbs that
  are lost are known to be, by the sleep mark, by the power state or by the
  failure of the last call (`LostKnown`). A codec that was overruled has no verbs to
  lose until its first wake.
- `BuildTypeCorrect`, `TrustCorrect`: from `IInv` of `ResourceBuildProofs`, for any
  number of files, edits and troubles. `TrustEarned` speaks of a build that has
  ended; what makes it true is spread over many builds, so the invariant says
  what each kind of file on disk vouches for at any moment. A file's contents
  come in an order (`Leq`) in which records never lead (`Ordered`): a record that
  is overwritten cannot become what `Resources.md5` was made of unless it was
  that already. A current record vouches for a whole packed file
  (`PackedWhole`), what an undisturbed build has seen is still true
  (`Undisturbed`), and `Resources.md5` equal to the records vouches for a whole
  output made for them (`OutputKnown`). The order is one of time, and going back
  breaks it: most conjuncts are claimed only of histories that are not `restored`,
  and `Ordered` and its like are preserved as long as that stays so
  (`ForwardBefore`). `OutputKnown` likewise knows nothing of an output that was
  lost, until a build makes it anew. The type invariant needs these as well, since
  typing says that no half-written file is converted.
- `SettleCorrect`: from `IInv` and `SettleInv`, which has one clause for each undisturbed
  build: after the first all plists are laid out (`SettledOnce`), after the second
  all records and `Resources.md5` are current (`SettledTwice`), and then a build can
  only end as trusted.
- `VerbitProofs`: `VerbitInv` for any dump. `UnusedListed` says what the search for
  free associations has found so far, `FirstKeeps` that an association of the dump
  stays with its first pin and that `nextassoc` counts the others. The point is the
  arithmetic of `EnoughUnused`: when the pin at n must get another association,
  the pins before it hold as many associations of the dump as were kept, and
  those behind it at most one each, so that of the 14 one is left if the dump
  has at most 14 pins. `NoneTwice` then makes the result unique.
- `ResourceConverterProofs`: `IInv` for the first three theorems. `Sound` speaks of
  one output: numbers stay below their counters, so that a new definition has a
  new name (`EmitKinds`); what it refers to stands above it (`AppendDef`); the maps
  of files and patch bytes are exact. Around it the invariant says of every
  reference that is held but not written yet, in a list, a row or a table in the
  making, that it is declared. A finished list has as many rows as it says, or an
  `#error`.
- `TablesCorrect`: from `Faith`, beside `IInv`. It says what has been written so far
  by what a reader would find: a reference `Reads` as bytes, a list or a patch of
  a plist, rows included that are still being put together (`LinesRead`,
  `RefsRead`), a vendor's table has one row for each codec visited (`CodecRows`, by
  a bijection), controllers have theirs in order, and a list of patches breaks
  the file exactly when a patch of its plist cannot be used. All of it is stable
  under appending, so every step has to show only what it adds. At the end
  `Lookup` finds what `Reads` promises because names are unique, and a vendor's
  rows are counted through the bijection. The numbers of the vendors come from
  `VendorRows`, beside both.

Only model-checked: liveness (`ProcessingEnds`, `VerbsReturn`, `ToolEnds`, `Recovers`),
which TLAPS does not reach. Every other property of the passing runs is a
theorem.

## Not modelled, and why

- Contents of patches, layouts and platforms, and whether find bytes occur in
  an image: data, not control.
- The bodies of `gfxProbe`, `AppleHDAController_start` and the entitlement hook:
  straight-line decisions without state (their routing is modelled).
- Failing `new` in `insertController` and `appendCodec`: the device would just be
  absent, which the instances contain.
- IOKit's matching and termination, AppleHDA's internals, Lilu: external; the
  models state what AppleALC relies on, in the actions the map marks external.
- The other scripts of hda-tools, `merge_pinconfigs.sh` and the scripts of `Tools/`:
  filters that keep nothing, drawings, and straight lists of commands.
- The digits of a verb in `verbit.sh` that no rule looks at, and its printed notes.
- These hazards have no property, as the code makes no promise they could break: the pool may give out the id of a GPU that is
  skipped for its `no-controller-inject` (`kern_alc.cpp` 156; the code promises
  nothing about devices it ignores), a call that is past the check of
  `readyForVerbs` when `stop` comes (`ALCUserClientProvider.cpp` 55; when the
  codec device itself goes is up to IOKit), an unsupported codec that hides a
  supported one (`kern_alc.cpp` 757), a forced call that fails (372) and an
  `executeVerb` that was not routed (637): the models contain the last three, and
  the liveness properties exempt the last two by name. Which of the requested
  hooks were routed is not checked either, as the code does not look.

## Plan

1. *(done)* `DeviceProperties`, `AlcEnabler`, `PinConfigPower` with `WakeVerbs`,
   `UserClient`, their runs, mutants and proofs.
2. *(done)* `ResourceBuild`, `ResourceConverter`, `HdaVerbs`, `Verbit`, `PinConfigRefs`,
   and their proofs.
3. *(done)* `KextPatching`, the abstract specification over `AlcEnabler`, and its
   refinement.
4. Left: liveness stays with TLC. An abstract specification over `ResourceBuild` (a
   build is a function of its sources) would put `TrustEarned` and `RecordsSettle`
   in one statement.

## Running

`tlc -config X.cfg M` with the pairs of `PROJECT.json` "runs", `tlapm M.tla` for the
eight proof modules. `PROJECT.json` also maps every definition to the lines it models
and gives, for each property, a mutated definition under which TLC finds it
violated.
