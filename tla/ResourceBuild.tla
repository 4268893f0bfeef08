---------------------------- MODULE ResourceBuild ----------------------------
(***************************************************************************)
(* The incremental build of kern_resources.cpp: generate.sh, run by Xcode   *)
(* with bash -e, and the zlib_pack.command it sources.  A file is packed or *)
(* reformatted only when its md5 is not the one recorded beside it, and     *)
(* ResourceConverter runs only when the records are not those it ran for.   *)
(*                                                                          *)
(* The records are files: they survive a build that fails or is killed, and *)
(* nothing stops the developer from editing while a build runs.             *)
(*                                                                          *)
(* A tool may fail loudly, which ends the build, or silently: zlib.pl says   *)
(* nothing when it cannot open or read its file, and the converter nothing   *)
(* when it cannot create its output.                                         *)
(*                                                                          *)
(* A digest is the content it was taken of: no two contents collide, and    *)
(* md5 itself does not fail.  Removing a source or a .zlib is outside this   *)
(* model; removing kern_resources.cpp, and going back to an older content   *)
(* of a source, are in it.                                                  *)
(***************************************************************************)
EXTENDS Integers

CONSTANTS
  Xmls,        \* layouts and platforms, packed by zlib_pack.command
  Plists,      \* codec, controller, vendor and kext tables
  MaxEdits,    \* bound: how often the developer edits or restores a file
  MaxTroubles  \* bound: failing tools, killed builds and removals of the output

ASSUME FilesAssumption == Xmls \cap Plists = {} /\ Plists # {}
ASSUME BoundsAssumption == MaxEdits \in Nat /\ MaxTroubles \in Nat

Files == Xmls \cup Plists

\* What a file says, and how it is laid out: tabs, line breaks, Xcode's style.
Content == [text : 0 .. MaxEdits, styled : BOOLEAN]

None == [text |-> -1, styled |-> FALSE]   \* no record
Absent == -1                              \* a packed file that is not there
Partial == -2                             \* one that is being, or was half, written
Unread == -3                              \* a file the converter has not come to
Cut == -4                                 \* what zlib.pl makes of a file it cannot read

\* What may stand where a .zlib is expected.
Zlib == {Absent, Partial, Cut} \cup 0 .. MaxEdits

VARIABLES
  content,          \* the sources as they are now
  packed,           \* the .zlib of each layout or platform
  digest,           \* the .md5 beside each file
  cpp,              \* kern_resources.cpp: whether it is there, and what it was made of
  resourcesDigest,  \* Resources.md5
  pc,               \* where the build is
  task,             \* where it is with each file
  seen,             \* the md5 it took of each file
  hash,             \* the md5 of all records it took
  outcome,          \* how the last build ended
  disturbed,        \* whether a source was edited, or the output lost, since it started
  orphaned,         \* Resources.md5 vouches for an output that was lost
  restored,         \* whether a file ever went back to an older content
  quiet,            \* how many builds in a row ended well and undisturbed, at most 3
  edits, troubles   \* so far

disk == <<content, packed, digest, cpp, resourcesDigest>>
history == <<outcome, disturbed, orphaned, restored, quiet, edits, troubles>>
vars == <<disk, pc, task, seen, hash, history>>

NoCpp == [state |-> "absent", from |-> [f \in Files |-> Unread]]
NoDigests == [f \in Files |-> None]

Init ==
  /\ content = [f \in Files |-> [text |-> 0, styled |-> FALSE]]
  /\ packed = [f \in Xmls |-> Absent]
  /\ digest = NoDigests
  /\ cpp = NoCpp
  /\ resourcesDigest = NoDigests
  /\ pc = "idle"
  /\ task = [f \in Files |-> "done"]
  /\ seen = NoDigests
  /\ hash = NoDigests
  /\ outcome = "none" /\ quiet = 0
  /\ disturbed = FALSE /\ orphaned = FALSE /\ restored = FALSE
  /\ edits = 0 /\ troubles = 0

-----------------------------------------------------------------------------
(* Packing and formatting: xargs -P works on all files of a stage at once,     *)
(* and fails when the work on any file failed, though only in the end.         *)

StageOf(f) == IF f \in Xmls THEN "pack" ELSE "format"

On(f, from, to) ==
  /\ pc = StageOf(f) /\ task[f] = from
  /\ task' = [task EXCEPT ![f] = to]

StartBuild ==
  /\ pc = "idle"
  /\ pc' = "pack"
  /\ task' = [f \in Files |-> "waiting"]
  /\ disturbed' = FALSE
  /\ UNCHANGED <<disk, seen, hash, outcome, orphaned, restored, quiet, edits, troubles>>

\* Nothing to do: the .zlib is there, and the .md5 holds this md5.
Current(f) == (f \in Xmls => packed[f] # Absent) /\ digest[f] = content[f]

Mut_RecordsFirst(f) ==
  /\ On(f, "waiting", IF Current(f) THEN "done" ELSE "stale")
  /\ seen' = [seen EXCEPT ![f] = content[f]]
  /\ digest' = [digest EXCEPT ![f] = content[f]]
  /\ UNCHANGED <<content, packed, cpp, resourcesDigest, pc, hash, history>>

TakeDigest(f) ==
  /\ On(f, "waiting", IF Current(f) THEN "done" ELSE "stale")
  /\ seen' = [seen EXCEPT ![f] = content[f]]
  /\ UNCHANGED <<disk, pc, hash, history>>

\* The redirection empties the .zlib before zlib.pl has said a word.
OpenPacked(f) ==
  /\ f \in Xmls /\ On(f, "stale", "writing")
  /\ packed' = [packed EXCEPT ![f] = Partial]
  /\ UNCHANGED <<content, digest, cpp, resourcesDigest, pc, seen, hash, history>>

\* zlib.pl drops tabs and line breaks and compresses the rest.
Deflate(f) ==
  /\ f \in Xmls /\ On(f, "writing", "made")
  /\ packed' = [packed EXCEPT ![f] = content[f].text]
  /\ UNCHANGED <<content, digest, cpp, resourcesDigest, pc, seen, hash, history>>

\* plutil and perl lay the plist out in place.
Reformat(f) ==
  /\ f \in Plists /\ On(f, "stale", "made")
  /\ content' = [content EXCEPT ![f] = [text |-> content[f].text, styled |-> TRUE]]
  /\ UNCHANGED <<packed, digest, cpp, resourcesDigest, pc, seen, hash, history>>

\* The md5 recorded is the one taken at first, of a plist before it was laid out.
RecordDigest(f) ==
  /\ On(f, "made", "done")
  /\ digest' = [digest EXCEPT ![f] = seen[f]]
  /\ UNCHANGED <<content, packed, cpp, resourcesDigest, pc, seen, hash, history>>

Trouble == troubles < MaxTroubles /\ troubles' = troubles + 1

\* zlib.pl, plutil or perl exits with an error; a .zlib stays as far as it came.
ToolFails(f) ==
  /\ On(f, IF f \in Xmls THEN "writing" ELSE "stale", "failed")
  /\ Trouble
  /\ UNCHANGED <<disk, pc, seen, hash, outcome, disturbed, orphaned, restored, quiet, edits>>

\* zlib.pl cannot open its file and prints nothing, or a read fails and it takes
\* that for the end of the file; it exits with 0 all the same.
DeflateFailsSilently(f) ==
  /\ f \in Xmls /\ On(f, "writing", "made")
  /\ packed' = [packed EXCEPT ![f] = Cut]
  /\ Trouble
  /\ UNCHANGED <<content, digest, cpp, resourcesDigest, pc, seen, hash, outcome, disturbed,
                 orphaned, restored, quiet, edits>>

StageFiles == {f \in Files : StageOf(f) = pc}

BuildFails ==
  /\ pc' = "idle"
  /\ outcome' = "failed" /\ quiet' = 0
  /\ UNCHANGED <<disk, task, seen, hash, disturbed, orphaned, restored, edits>>

\* bash -e leaves the script when a pipeline fails.
StageFails ==
  /\ pc \in {"pack", "format"}
  /\ \A f \in StageFiles : task[f] \in {"done", "failed"}
  /\ \E f \in StageFiles : task[f] = "failed"
  /\ BuildFails /\ UNCHANGED troubles

Mut_IgnoresFailures ==
  /\ pc \in {"pack", "format"}
  /\ \A f \in StageFiles : task[f] \in {"done", "failed"}
  /\ pc' = IF pc = "pack" THEN "format" ELSE "collect"
  /\ UNCHANGED <<disk, task, seen, hash, history>>

StageEnds ==
  /\ pc \in {"pack", "format"}
  /\ \A f \in StageFiles : task[f] = "done"
  /\ pc' = IF pc = "pack" THEN "format" ELSE "collect"
  /\ UNCHANGED <<disk, task, seen, hash, history>>

-----------------------------------------------------------------------------
(* Converting, when anything recorded has changed.                            *)

EndWell(how) ==
  /\ pc' = "idle"
  /\ outcome' = how
  /\ quiet' = IF disturbed THEN 0 ELSE IF quiet < 3 THEN quiet + 1 ELSE 3
  /\ UNCHANGED <<disturbed, restored, edits, troubles>>

Trusted == cpp.state # "absent" /\ digest = resourcesDigest

\* The records are concatenated into Resources.tmp.md5, and their md5 is taken.
TrustExisting ==
  /\ pc = "collect" /\ Trusted
  /\ hash' = digest
  /\ EndWell("trusted")
  /\ UNCHANGED <<disk, task, seen, orphaned>>

Mut_RecordsBeforeConverting ==
  /\ pc = "collect" /\ ~Trusted
  /\ hash' = digest
  /\ resourcesDigest' = digest
  /\ cpp' = NoCpp
  /\ pc' = "convert"
  /\ UNCHANGED <<content, packed, digest, task, seen, history>>

RemoveExisting ==
  /\ pc = "collect" /\ ~Trusted
  /\ hash' = digest
  /\ cpp' = NoCpp
  /\ pc' = "convert"
  /\ UNCHANGED <<content, packed, digest, resourcesDigest, task, seen, history>>

\* main creates the file empty and then appends to it for as long as it runs.
CreateFile ==
  /\ pc = "convert"
  /\ cpp' = [state |-> "partial", from |-> cpp.from]
  /\ pc' = "append"
  /\ UNCHANGED <<content, packed, digest, resourcesDigest, task, seen, hash, history>>

\* createFileAtPath fails, and main does not look at what it returned.
CreateFailsSilently ==
  /\ pc = "convert"
  /\ pc' = "append"
  /\ Trouble
  /\ disturbed' = TRUE
  /\ UNCHANGED <<disk, task, seen, hash, outcome, orphaned, restored, quiet, edits>>

\* It reads the .zlib of a layout or platform, and the text of a plist; the
\* files in any order, as the ones it finds in directories come in any.
ConvertFile(f) ==
  /\ pc = "append" /\ cpp.state = "partial" /\ cpp.from[f] = Unread
  /\ cpp' = [state |-> "partial",
             from |-> [cpp.from EXCEPT ![f] = IF f \in Xmls THEN packed[f] ELSE content[f].text]]
  /\ UNCHANGED <<content, packed, digest, resourcesDigest, pc, task, seen, hash, history>>

ConverterEnds ==
  /\ pc = "append" /\ cpp.state = "partial" /\ \A f \in Files : cpp.from[f] # Unread
  /\ cpp' = [state |-> "complete", from |-> cpp.from]
  /\ pc' = "record"
  /\ UNCHANGED <<content, packed, digest, resourcesDigest, task, seen, hash, history>>

\* Without a file to open appendFile does nothing, and main exits with 0.
ConverterEndsWithout ==
  /\ pc = "append" /\ cpp.state = "absent"
  /\ pc' = "record"
  /\ UNCHANGED <<disk, task, seen, hash, history>>

\* A table is missing, or cannot be read as one: what was written stays.
ConverterFails ==
  /\ pc \in {"convert", "append"}
  /\ Trouble /\ BuildFails

Mut_KeepsOldRecord ==
  /\ pc = "record"
  /\ EndWell("built")
  /\ UNCHANGED <<disk, task, seen, hash, orphaned>>

RecordResources ==
  /\ pc = "record"
  /\ resourcesDigest' = hash
  /\ orphaned' = (cpp.state = "absent")
  /\ EndWell("built")
  /\ UNCHANGED <<content, packed, digest, cpp, task, seen, hash>>

-----------------------------------------------------------------------------
(* The developer.                                                              *)

Writes(f, text) ==
  /\ edits < MaxEdits
  /\ \E styled \in BOOLEAN : content' = [content EXCEPT ![f] = [text |-> text, styled |-> styled]]
  /\ edits' = edits + 1
  /\ disturbed' = TRUE /\ quiet' = 0
  /\ UNCHANGED <<packed, digest, cpp, resourcesDigest, pc, task, seen, hash, outcome, orphaned,
                 troubles>>

\* A new text, in whatever layout the editor gave it, at any moment.
Edit(f) == Writes(f, edits + 1) /\ UNCHANGED restored

\* Back to an older text: undo, a checkout, a revert.
Restore(f) == (\E text \in 0 .. edits : Writes(f, text)) /\ restored' = TRUE

\* The build is killed; whatever it was writing stays as it is.
Interrupt ==
  /\ pc # "idle"
  /\ Trouble
  /\ pc' = "idle"
  /\ outcome' = "interrupted" /\ quiet' = 0
  /\ UNCHANGED <<disk, task, seen, hash, disturbed, orphaned, restored, edits>>

\* The generated file, which is not under version control, is removed, even from
\* under the converter.
RemoveCpp ==
  /\ cpp # NoCpp
  /\ Trouble
  /\ cpp' = NoCpp
  /\ orphaned' = TRUE /\ disturbed' = TRUE /\ quiet' = 0
  /\ UNCHANGED <<content, packed, digest, resourcesDigest, pc, task, seen, hash, outcome, restored,
                 edits>>

BuildStep ==
  \/ StartBuild
  \/ \E f \in Files : \/ TakeDigest(f) \/ OpenPacked(f) \/ Deflate(f) \/ Reformat(f)
                      \/ RecordDigest(f) \/ ConvertFile(f)
  \/ StageFails \/ StageEnds
  \/ TrustExisting \/ RemoveExisting
  \/ CreateFile \/ ConverterEnds \/ ConverterEndsWithout \/ RecordResources

Next ==
  \/ BuildStep
  \/ \E f \in Files : ToolFails(f) \/ DeflateFailsSilently(f) \/ Edit(f) \/ Restore(f)
  \/ CreateFailsSilently \/ ConverterFails \/ Interrupt \/ RemoveCpp

Spec == Init /\ [][Next]_vars

\* The developer builds again and again, and a build that runs goes on.
FairSpec == Spec /\ WF_vars(BuildStep)

-----------------------------------------------------------------------------

(* Every variable has its type; and as long as no file goes back to an older  *)
(* content, ResourceConverter never takes a .zlib that is missing or half     *)
(* written, as zlib_pack.command leaves one when zlib.pl dies or the build is  *)
(* killed: the failed stage ends the build, and the record it did not write    *)
(* has the next one pack the file again.  A .zlib that zlib.pl cut silently it *)
(* does take.                                                                  *)
TypeOK ==
  /\ content \in [Files -> Content]
  /\ packed \in [Xmls -> Zlib]
  /\ digest \in [Files -> Content \cup {None}]
  /\ cpp \in [state : {"absent", "partial", "complete"}, from : [Files -> {Unread} \cup Zlib]]
  /\ restored \/ \A f \in Files : cpp.from[f] \notin {Absent, Partial}
  /\ resourcesDigest \in [Files -> Content \cup {None}]
  /\ pc \in {"idle", "pack", "format", "collect", "convert", "append", "record"}
  /\ task \in [Files -> {"waiting", "stale", "writing", "made", "done", "failed"}]
  /\ seen \in [Files -> Content \cup {None}]
  /\ hash \in [Files -> Content \cup {None}]
  /\ outcome \in {"none", "failed", "interrupted", "trusted", "built"}
  /\ disturbed \in BOOLEAN /\ orphaned \in BOOLEAN /\ restored \in BOOLEAN /\ quiet \in 0 .. 3
  /\ edits \in 0 .. MaxEdits /\ troubles \in 0 .. MaxTroubles

\* The output is whole, and made of the sources as they are, but for a layout or
\* platform whose .zlib was cut silently.
CppFresh ==
  /\ cpp.state = "complete"
  /\ \A f \in Files : cpp.from[f] = content[f].text \/ (f \in Xmls /\ packed[f] = Cut)

(* When a build ends well and undisturbed, the generated file is whole and    *)
(* made of the sources as they are, whatever was killed, failed or was edited  *)
(* in builds before: generate.sh's "Trusting existing kern_resources.cpp" is   *)
(* earned.  It is not, and the property says nothing, in three cases: zlib.pl  *)
(* cut a .zlib and exited with 0, and nothing was edited in that file since;   *)
(* the output was removed or never created while Resources.md5 vouches for it, *)
(* and no build made it anew since (TrustedIsWhole shows what then happens);   *)
(* some file once went back to an older content, which brings its old records  *)
(* back to life.                                                               *)
TrustEarned ==
  pc = "idle" /\ outcome \in {"trusted", "built"} /\ ~disturbed /\ ~orphaned /\ ~restored => CppFresh

(* What generate.sh says it trusts ("Trusting existing kern_resources.cpp") is *)
(* an output that ResourceConverter finished.  It need not be: generate.sh     *)
(* looks at Resources.md5, which may stand for an output that was lost, or for  *)
(* contents that came back, while the file it trusts is one a killed or failed *)
(* converter left.  (Of the builds in which nobody removes the output.)        *)
TrustedIsWhole == pc = "idle" /\ outcome = "trusted" /\ ~disturbed => cpp.state = "complete"

(* The records of generate.sh settle: of three undisturbed builds in a row    *)
(* the last has nothing to do, though the first records the md5 of plists as  *)
(* they were before it laid them out and the second therefore converts anew;   *)
(* whatever was cut, lost, killed or put back before.                          *)
RecordsSettle == pc = "idle" /\ quiet = 3 => outcome = "trusted"

(* No killed or failed build keeps generate.sh from coming to rest: once edits *)
(* and troubles end, builds come to have nothing to do, and the output they    *)
(* then trust is right, but in the cases TrustEarned names.                    *)
Recovers == <>[](/\ pc = "idle" => outcome = "trusted"
                 /\ CppFresh \/ orphaned \/ restored)
=============================================================================
